-------------------- MODULE ContainerAttributesProofs ----------------------
(***************************************************************************)
(* Proofs about the native name attributes (container/attribute.go):      *)
(* setAttribute never duplicates a key, and from a list with at most one  *)
(* Name and one Zone attribute GetNativeNameWithZone reads back what       *)
(* SetNativeName(WithZone) set.                                            *)
(***************************************************************************)
EXTENDS ContainerAttributes, SequenceTheorems, WellFoundedInduction, TLAPS

\* The list holds an attribute with key k and value v.
HasKV(as, k, v) == \E j \in DOMAIN as : as[j].key = k /\ as[j].value = v

\* The starting lists hold at most one Name and one Zone attribute.
UniqueStart == \A as \in InitAttrs : KeyUnique(as, Name) /\ KeyUnique(as, Zone)

\* A non-empty set of indices has a least and a greatest element.
LEMMA IdxExtrema ==
  ASSUME NEW n \in Nat, NEW I \in SUBSET (1..n), I # {}
  PROVE  /\ MinIdx(I) \in I /\ \A m \in I : MinIdx(I) <= m
         /\ MaxIdx(I) \in I /\ \A m \in I : m <= MaxIdx(I)
<1>1. IsWellFoundedOn(OpToRel(<, Nat), Nat)
  BY NatLessThanWellFounded
<1>0. I \subseteq Nat
  OBVIOUS
<1>2. \E j \in I : \A m \in I : j <= m
  <2>1. \E x \in I : \A y \in I : ~(<<y, x>> \in OpToRel(<, Nat))
    BY <1>0, <1>1, WFMin, Zenon
  <2>2. PICK x \in I : \A y \in I : ~(<<y, x>> \in OpToRel(<, Nat))
    BY <2>1
  <2>3. \A y \in I : ~(y < x)
    BY <1>0, <2>2 DEF OpToRel
  <2>. QED  BY <1>0, <2>3
<1>3. \E j \in I : \A m \in I : m <= j
  <2>. DEFINE J == {n - j : j \in I}
  <2>0. \A j \in I : n - j \in Nat
    OBVIOUS
  <2>1. J \subseteq Nat /\ J # {}
    BY <2>0, Zenon DEF J
  <2>2. \E x \in J : \A y \in J : ~(<<y, x>> \in OpToRel(<, Nat))
    BY <1>1, <2>1, WFMin, Zenon
  <2>3. \E x \in J : \A y \in J : x <= y
    <3>1. PICK x \in J : \A y \in J : ~(<<y, x>> \in OpToRel(<, Nat))
      BY <2>2
    <3>2. \A y \in J : ~(y < x)
      BY <2>1, <3>1 DEF OpToRel
    <3>. QED  BY <2>1, <3>2
  <2>4. PICK x \in J : \A y \in J : x <= y
    BY <2>3
  <2>5. PICK j0 \in I : x = n - j0
    BY <2>4 DEF J
  <2>6. \A m \in I : n - m \in J
    BY DEF J
  <2>7. ASSUME NEW m \in I PROVE m <= j0
    <3>1. x <= n - m
      BY <2>4, <2>6
    <3>. QED  BY <1>0, <2>5, <3>1
  <2>. QED  BY <2>7
<1>. QED  BY <1>2, <1>3 DEF MinIdx, MaxIdx
\* The loop of setAttribute finds an attribute with the key exactly when
\* the list holds one, and then at an index of the list.
LEMMA FirstIndexFacts ==
  ASSUME NEW as \in Seq(Attribute), NEW ky
  PROVE  /\ FirstIndex(as, ky) = 0 => \A j \in DOMAIN as : as[j].key # ky
         /\ FirstIndex(as, ky) # 0 =>
              \E i \in 1..Len(as) : FirstIndex(as, ky) = i /\ as[i].key = ky
<1>1. Len(as) \in Nat /\ DOMAIN as = 1..Len(as)
  BY LenProperties
<1>2. CASE KeyIdx(as, ky, Len(as)) = {}
  <2>1. FirstIndex(as, ky) = 0
    BY <1>2 DEF FirstIndex
  <2>2. \A j \in 1..Len(as) : as[j].key # ky
    BY <1>2 DEF KeyIdx
  <2>. QED  BY <1>1, <2>1, <2>2
<1>3. CASE KeyIdx(as, ky, Len(as)) # {}
  <2>1. KeyIdx(as, ky, Len(as)) \subseteq 1..Len(as)
    BY DEF KeyIdx
  <2>2. MinIdx(KeyIdx(as, ky, Len(as))) \in KeyIdx(as, ky, Len(as))
    BY <1>1, <1>3, <2>1, IdxExtrema
  <2>3. FirstIndex(as, ky) = MinIdx(KeyIdx(as, ky, Len(as)))
    BY <1>3 DEF FirstIndex
  <2>4. PICK i \in 1..Len(as) : FirstIndex(as, ky) = i /\ as[i].key = ky
    BY <2>2, <2>3 DEF KeyIdx
  <2>5. FirstIndex(as, ky) # 0
    BY <1>1, <2>4
  <2>. QED  BY <2>4, <2>5
<1>. QED  BY <1>2, <1>3

(***************************************************************************)
(* What setAttribute(c, key, v) does to the list: it stays a list of      *)
(* attributes, a key held once is still held once, the key holds v, and   *)
(* the attributes of the other keys keep their values.                     *)
(***************************************************************************)
LEMMA SetAttributeFacts ==
  ASSUME NEW as \in Seq(Attribute), NEW ky \in Keys, NEW v \in Values
  PROVE  /\ SetAttribute(as, ky, v) \in Seq(Attribute)
         /\ \A k : KeyUnique(as, k) => KeyUnique(SetAttribute(as, ky, v), k)
         /\ HasKV(SetAttribute(as, ky, v), ky, v)
         /\ \A k, w : k # ky /\ HasKV(as, k, w) => HasKV(SetAttribute(as, ky, v), k, w)
<1>1. PICK n \in Nat : Len(as) = n /\ DOMAIN as = 1..n
  BY LenProperties
<1>3. PICK r : r = SetAttribute(as, ky, v)
  OBVIOUS
<1>4. SUFFICES /\ r \in Seq(Attribute)
               /\ \A k : KeyUnique(as, k) => KeyUnique(r, k)
               /\ HasKV(r, ky, v)
               /\ \A k, w : k # ky /\ HasKV(as, k, w) => HasKV(r, k, w)
  BY <1>3
<1>5. CASE FirstIndex(as, ky) # 0
  <2>1. PICK i \in 1..Len(as) : FirstIndex(as, ky) = i /\ as[i].key = ky
    BY <1>5, FirstIndexFacts
  <2>2. as[i] \in Attribute
    BY <2>1, ElementOfSeq
  <2>3. PICK g : g = [as[i] EXCEPT !.value = v]
    OBVIOUS
  <2>4. g \in Attribute /\ g.key = ky /\ g.value = v
    BY <2>1, <2>2, <2>3, Zenon DEF Attribute
  <2>5. r = [as EXCEPT ![i] = g]
    BY <1>3, <1>5, <2>1, <2>3, Zenon DEF SetAttribute
  <2>6. /\ r \in Seq(Attribute) /\ DOMAIN r = DOMAIN as
        /\ \A j \in DOMAIN as : r[j] = IF j = i THEN g ELSE as[j]
    <3>1. [as EXCEPT ![i] = g] \in Seq(Attribute)
      BY <2>1, <2>4, ExceptSeq
    <3>2. DOMAIN [as EXCEPT ![i] = g] = DOMAIN as
      OBVIOUS
    <3>3. \A j \in DOMAIN as : [as EXCEPT ![i] = g][j] = IF j = i THEN g ELSE as[j]
      OBVIOUS
    <3>. QED  BY <2>5, <3>1, <3>2, <3>3
  <2>7. \A j \in DOMAIN as : r[j].key = as[j].key
    BY <2>1, <2>4, <2>6
  <2>8. \A k : KeyUnique(as, k) => KeyUnique(r, k)
    BY <2>6, <2>7 DEF KeyUnique
  <2>9. HasKV(r, ky, v)
    BY <1>1, <2>1, <2>4, <2>6 DEF HasKV
  <2>10. \A k, w : k # ky /\ HasKV(as, k, w) => HasKV(r, k, w)
    BY <2>1, <2>6 DEF HasKV
  <2>. QED  BY <2>6, <2>8, <2>9, <2>10
<1>6. CASE FirstIndex(as, ky) = 0
  <2>0. PICK e \in Attribute : e = [key |-> ky, value |-> v]
    BY DEF Attribute
  <2>8. e.key = ky /\ e.value = v
    BY <2>0
  <2>1. \A j \in DOMAIN as : as[j].key # ky
    BY <1>6, FirstIndexFacts
  <2>2. r = Append(as, e)
    BY <2>0, <1>3, <1>6 DEF SetAttribute
  <2>3. /\ r \in Seq(Attribute) /\ Len(r) = Len(as) + 1
        /\ \A j \in 1..Len(as) : r[j] = as[j]
        /\ r[Len(as) + 1] = e
    <3>1. Append(as, e) \in Seq(Attribute)
      BY AppendProperties
    <3>2. Len(Append(as, e)) = Len(as) + 1
      BY AppendProperties
    <3>3. \A j \in 1..Len(as) : Append(as, e)[j] = as[j]
      BY AppendProperties
    <3>4. Append(as, e)[Len(as) + 1] = e
      BY AppendProperties
    <3>. QED  BY <2>2, <3>1, <3>2, <3>3, <3>4
  <2>4. DOMAIN r = 1..(n + 1)
    BY <1>1, <2>3, LenProperties
  <2>5. n + 1 \notin 1..n
    BY <1>1
  <2>6. ASSUME NEW k, KeyUnique(as, k) PROVE KeyUnique(r, k)
    <3>1. SUFFICES ASSUME NEW a \in DOMAIN r, NEW b \in DOMAIN r,
                          r[a].key = k, r[b].key = k
                   PROVE  a = b
      BY DEF KeyUnique
    <3>2. CASE k = ky
      <4>1. \A j \in 1..n : r[j].key # ky
        BY <1>1, <2>1, <2>3
      <4>2. a = n + 1 /\ b = n + 1
        BY <1>1, <2>4, <3>1, <3>2, <4>1
      <4>. QED  BY <4>2
    <3>3. CASE k # ky
      <4>1. a \in 1..n /\ b \in 1..n
        BY <1>1, <2>3, <2>4, <2>8, <3>1, <3>3
      <4>2. as[a].key = k /\ as[b].key = k
        BY <1>1, <2>3, <3>1, <4>1
      <4>. QED  BY <1>1, <2>6, <4>1, <4>2 DEF KeyUnique
    <3>. QED  BY <3>2, <3>3
  <2>7. HasKV(r, ky, v)
    <3>1. n + 1 \in DOMAIN r
      BY <1>1, <2>4
    <3>. QED  BY <1>1, <2>3, <2>8, <3>1 DEF HasKV
  <2>9. \A k, w : k # ky /\ HasKV(as, k, w) => HasKV(r, k, w)
    <3>1. DOMAIN as \subseteq DOMAIN r
      BY <1>1, <2>4
    <3>. QED  BY <1>1, <2>3, <3>1 DEF HasKV
  <2>. QED  BY <2>3, <2>6, <2>7, <2>9
<1>. QED  BY <1>5, <1>6

-----------------------------------------------------------------------------
(* The state is well typed: the list holds attributes, and last is a pair *)
(* of values once a setter ran.                                            *)
TypeInv ==
    /\ attrs \in Seq(Attribute)
    /\ last \in (Values \X Values) \cup {NoLast}

(***************************************************************************)
(* Why RoundTrip holds: the list keeps at most one Name and one Zone       *)
(* attribute, and after a setter ran they hold the pair it set.  RoundTrip *)
(* alone is not inductive: a list with two Name attributes of the same     *)
(* value satisfies it, and the next SetNativeName overwrites only the      *)
(* first of them while GetNativeNameWithZone may read the second.          *)
(***************************************************************************)
UInv ==
    /\ TypeInv
    /\ KeyUnique(attrs, Name) /\ KeyUnique(attrs, Zone)
    /\ last # NoLast => HasKV(attrs, Name, last[1]) /\ HasKV(attrs, Zone, last[2])

(* SetNativeNameWithZone sets the name, then the zone: the list stays a    *)
(* list of attributes with no key duplicated, and holds the pair set.      *)
LEMMA SetNameZoneFacts ==
  ASSUME NEW as \in Seq(Attribute), NEW name \in Values, NEW zone \in Values
  PROVE  /\ SetAttribute(SetAttribute(as, Name, name), Zone, zone) \in Seq(Attribute)
         /\ \A k : KeyUnique(as, k) =>
                     KeyUnique(SetAttribute(SetAttribute(as, Name, name), Zone, zone), k)
         /\ HasKV(SetAttribute(SetAttribute(as, Name, name), Zone, zone), Name, name)
         /\ HasKV(SetAttribute(SetAttribute(as, Name, name), Zone, zone), Zone, zone)
<1>1. Name \in Keys /\ Zone \in Keys /\ Name # Zone
  BY AttrAssumption
<1>2. PICK r1 : r1 = SetAttribute(as, Name, name)
  OBVIOUS
<1>3. /\ r1 \in Seq(Attribute)
      /\ \A k : KeyUnique(as, k) => KeyUnique(r1, k)
      /\ HasKV(r1, Name, name)
  BY <1>1, <1>2, SetAttributeFacts
<1>4. /\ SetAttribute(r1, Zone, zone) \in Seq(Attribute)
      /\ \A k : KeyUnique(r1, k) => KeyUnique(SetAttribute(r1, Zone, zone), k)
      /\ HasKV(SetAttribute(r1, Zone, zone), Zone, zone)
      /\ \A k, w : k # Zone /\ HasKV(r1, k, w) => HasKV(SetAttribute(r1, Zone, zone), k, w)
  BY <1>1, <1>3, SetAttributeFacts
<1>. QED  BY <1>1, <1>2, <1>3, <1>4

(* The starting state is well typed. *)
LEMMA TypeInit == Init => TypeInv
BY AttrAssumption DEF Init, TypeInv, Attribute

(* Every SetNativeName(WithZone) keeps the state well typed. *)
LEMMA TypeNext == TypeInv /\ [Next]_vars => TypeInv'
<1> SUFFICES ASSUME TypeInv, [Next]_vars PROVE TypeInv'
  OBVIOUS
<1>1. ZoneDefault \in Values
  BY AttrAssumption
<1>2. ASSUME NEW name \in Values, NEW zone \in Values,
             SetNativeNameWithZone(name, zone)
      PROVE  TypeInv'
  BY <1>2, SetNameZoneFacts DEF TypeInv, SetNativeNameWithZone
<1>3. CASE UNCHANGED vars
  BY <1>3 DEF TypeInv, vars
<1>. QED  BY <1>1, <1>2, <1>3 DEF Next, SetNativeName

(* The model is type correct in every reachable state. *)
THEOREM TypeCorrect == Spec => []TypeInv
BY TypeInit, TypeNext, PTL DEF Spec

(***************************************************************************)
(* setAttribute never duplicates a key: whatever list a container starts   *)
(* with, a step of SetNativeName(WithZone) leaves every key that was held  *)
(* once held at most once, for every set of keys and values.               *)
(***************************************************************************)
THEOREM KeysStayUniqueHolds == Spec => KeysStayUnique
<1>1. TypeInv /\ [Next]_vars =>
        [\A k \in Keys : KeyUnique(attrs, k) => KeyUnique(attrs', k)]_vars
  <2> SUFFICES ASSUME TypeInv, [Next]_vars
               PROVE  [\A k \in Keys : KeyUnique(attrs, k) => KeyUnique(attrs', k)]_vars
    OBVIOUS
  <2>1. ZoneDefault \in Values
    BY AttrAssumption
  <2>2. ASSUME NEW name \in Values, NEW zone \in Values,
               SetNativeNameWithZone(name, zone)
        PROVE  \A k \in Keys : KeyUnique(attrs, k) => KeyUnique(attrs', k)
    BY <2>2, SetNameZoneFacts DEF TypeInv, SetNativeNameWithZone
  <2>3. CASE UNCHANGED vars
    BY <2>3 DEF vars
  <2>. QED  BY <2>1, <2>2, <2>3 DEF Next, SetNativeName
<1>. QED  BY <1>1, TypeCorrect, PTL DEF Spec, KeysStayUnique

(* With one attribute of the key, the handler of GetNativeNameWithZone     *)
(* holds either "" or that attribute's value after any prefix, and the     *)
(* value after the whole list.                                             *)
LEMMA SeenOne ==
  ASSUME NEW as \in Seq(Attribute), NEW ky, KeyUnique(as, ky),
         NEW p \in DOMAIN as, as[p].key = ky, NEW m \in 1..Len(as)
  PROVE  /\ Seen(as, ky, m) # Empty => Seen(as, ky, m) = as[p].value
         /\ m = Len(as) => Seen(as, ky, m) = as[p].value
<1>1. PICK n \in Nat : Len(as) = n /\ DOMAIN as = 1..n
  BY LenProperties
<1>2. KeyIdx(as, ky, m) \subseteq {p}
  <2> SUFFICES ASSUME NEW j \in KeyIdx(as, ky, m) PROVE j = p
    OBVIOUS
  <2>0. j \in 1..m /\ as[j].key = ky
    BY DEF KeyIdx
  <2>1. j \in DOMAIN as /\ as[j].key = ky
    BY <1>1, <2>0
  <2>. QED  BY <2>1 DEF KeyUnique
<1>3. CASE KeyIdx(as, ky, m) = {}
  <2>1. Seen(as, ky, m) = Empty
    BY <1>3 DEF Seen
  <2>2. ASSUME m = Len(as) PROVE p \in KeyIdx(as, ky, m)
    <3>1. p \in 1..m
      BY <1>1, <2>2
    <3>. QED  BY <3>1 DEF KeyIdx
  <2>. QED  BY <1>3, <2>1, <2>2
<1>4. CASE KeyIdx(as, ky, m) # {}
  <2>1. KeyIdx(as, ky, m) \subseteq 1..n
    BY <1>1, <1>2
  <2>2. MaxIdx(KeyIdx(as, ky, m)) \in KeyIdx(as, ky, m)
    BY <1>1, <1>4, <2>1, IdxExtrema
  <2>3. MaxIdx(KeyIdx(as, ky, m)) = p
    BY <1>2, <2>2
  <2>. QED  BY <1>4, <2>3 DEF Seen
<1>. QED  BY <1>3, <1>4

(***************************************************************************)
(* GetNativeNameWithZone reads back the pair a list holds: with one Name   *)
(* attribute of value nv and one Zone attribute of value zv it returns     *)
(* <<nv, zv>>, wherever iterateAttributes stops.                           *)
(***************************************************************************)
LEMMA ReadBack ==
  ASSUME NEW as \in Seq(Attribute), KeyUnique(as, Name), KeyUnique(as, Zone),
         NEW nv, NEW zv, HasKV(as, Name, nv), HasKV(as, Zone, zv)
  PROVE  GetNativeNameWithZone(as) = <<nv, zv>>
<1>1. PICK n \in Nat : Len(as) = n /\ DOMAIN as = 1..n
  BY LenProperties
<1>2. PICK pN \in DOMAIN as : as[pN].key = Name /\ as[pN].value = nv
  BY DEF HasKV
<1>3. PICK pZ \in DOMAIN as : as[pZ].key = Zone /\ as[pZ].value = zv
  BY DEF HasKV
<1>4. Stops(as) \subseteq 1..n
  BY <1>1 DEF Stops
<1>5. CASE Stops(as) = {}
  <2>1. GetNativeNameWithZone(as) = Read(as, n)
    BY <1>1, <1>5 DEF GetNativeNameWithZone
  <2>2. n \in 1..Len(as)
    BY <1>1, <1>2
  <2>3. Seen(as, Name, n) = nv /\ Seen(as, Zone, n) = zv
    BY <1>1, <1>2, <1>3, <2>2, SeenOne
  <2>. QED  BY <2>1, <2>3 DEF Read
<1>6. CASE Stops(as) # {}
  <2>1. PICK s \in Stops(as) : s = MinIdx(Stops(as))
    BY <1>1, <1>4, <1>6, IdxExtrema
  <2>2. GetNativeNameWithZone(as) = Read(as, s)
    BY <1>6, <2>1 DEF GetNativeNameWithZone
  <2>3. s \in 1..Len(as) /\ Seen(as, Name, s) # Empty /\ Seen(as, Zone, s) # Empty
    BY <2>1 DEF Stops, Read
  <2>4. Seen(as, Name, s) = nv /\ Seen(as, Zone, s) = zv
    BY <1>2, <1>3, <2>3, SeenOne
  <2>. QED  BY <2>2, <2>4 DEF Read
<1>. QED  BY <1>5, <1>6

(* From a starting list with one Name and one Zone attribute at most, the  *)
(* starting state satisfies UInv.                                          *)
LEMMA UInvInit == UniqueStart /\ Init => UInv
BY TypeInit DEF UniqueStart, Init, UInv

(* SetNativeName(WithZone) keeps UInv: the keys stay unique and the list   *)
(* holds the pair that becomes last.                                       *)
LEMMA UInvNext == UInv /\ [Next]_vars => UInv'
<1> SUFFICES ASSUME UInv, [Next]_vars PROVE UInv'
  OBVIOUS
<1>1. TypeInv'
  BY TypeNext DEF UInv
<1>2. ASSUME NEW name \in Values, NEW zone \in Values,
             SetNativeNameWithZone(name, zone)
      PROVE  UInv'
  <2>1. /\ attrs' = SetAttribute(SetAttribute(attrs, Name, name), Zone, zone)
        /\ last' = <<name, zone>>
    BY <1>2 DEF SetNativeNameWithZone
  <2>2. attrs \in Seq(Attribute) /\ KeyUnique(attrs, Name) /\ KeyUnique(attrs, Zone)
    BY DEF UInv, TypeInv
  <2>3. /\ KeyUnique(attrs', Name) /\ KeyUnique(attrs', Zone)
        /\ HasKV(attrs', Name, name) /\ HasKV(attrs', Zone, zone)
    BY <2>1, <2>2, SetNameZoneFacts
  <2>4. last' # NoLast /\ last'[1] = name /\ last'[2] = zone
    <3>1. last' \in Values \X Values /\ last'[1] = name /\ last'[2] = zone
      BY <2>1
    <3>. QED  BY <3>1, AttrAssumption
  <2>. QED  BY <1>1, <2>3, <2>4 DEF UInv
<1>3. ZoneDefault \in Values
  BY AttrAssumption
<1>4. CASE UNCHANGED vars
  BY <1>1, <1>4 DEF UInv, vars
<1>. QED  BY <1>2, <1>3, <1>4 DEF Next, SetNativeName

(* UInv gives RoundTrip: the pair last is what GetNativeNameWithZone reads. *)
LEMMA UInvRoundTrip == UInv => RoundTrip
<1> SUFFICES ASSUME UInv, last # NoLast PROVE GetNativeNameWithZone(attrs) = last
  BY DEF RoundTrip
<1>1. last \in Values \X Values /\ attrs \in Seq(Attribute)
  BY DEF UInv, TypeInv
<1>2. last = <<last[1], last[2]>>
  BY <1>1
<1>. QED  BY <1>1, <1>2, ReadBack DEF UInv

(***************************************************************************)
(* What TestGetNameWithZone asserts, for every set of keys and values:     *)
(* when a container starts with one Name and one Zone attribute at most,   *)
(* GetNativeNameWithZone returns the name and zone of the last             *)
(* SetNativeName(WithZone) in every reachable state.  Without UniqueStart  *)
(* it fails (run attributes_duplicates).                                    *)
(***************************************************************************)
THEOREM RoundTripHolds == UniqueStart => (Spec => []RoundTrip)
<1> SUFFICES ASSUME UniqueStart PROVE Spec => []RoundTrip
  OBVIOUS
<1>1. Init => UInv
  BY UInvInit
<1>. QED  BY <1>1, UInvNext, UInvRoundTrip, PTL DEF Spec
=============================================================================
