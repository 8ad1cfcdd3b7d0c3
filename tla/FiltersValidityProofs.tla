----------------------- MODULE FiltersValidityProofs -----------------------
(***************************************************************************)
(* AcceptsExactlyValid for every policy: processFilters returns nil        *)
(* exactly for the policies that section 4.1 of the spec calls valid       *)
(* (filter.go 23-84).                                                      *)
(***************************************************************************)
EXTENDS FiltersProofs

\* The names declared by the top-level filters before the m-th.
Dec(m) == {policy[k].name : k \in 1..(m - 1)}

\* A pending check passes when the filter it checks is valid, against the
\* names registered so far.
ItemOK(it) == it.kind = "check" => Valid2(it.f, it.top, Registered)

\* The number of top-level filters processFilters has finished, plus one.
Completed == IF stack = <<>> THEN i ELSE i - 1

(***************************************************************************)
(* The inductive invariant.  Without an error, the finished filters are    *)
(* valid and registered under their names; the filter in progress is      *)
(* valid exactly when every check still on the stack passes, and its       *)
(* registration is the last item.  An error means an invalid policy.       *)
(***************************************************************************)
ValInv ==
  /\ TypeInv
  /\ err # NoError => stack = <<>> /\ ~PolicyValid(policy)
  /\ err = NoError =>
       /\ \A m \in 1..(Completed - 1) : Valid2(policy[m], TRUE, Dec(m))
       /\ Registered = Dec(Completed)
  /\ stack # <<>> =>
       /\ err = NoError /\ i >= 2
       /\ \A r \in Range(stack) : r.kind = "reg" => r = Reg(policy[i - 1])
       /\ stack = <<Check(policy[i - 1], TRUE)>> \/ Reg(policy[i - 1]) \in Range(stack)
       /\ Valid2(policy[i - 1], TRUE, Registered) <=> \A it \in Range(stack) : ItemOK(it)

\* Validity at depth two and at depth one agree on shallower filters.
LEMMA ValidDepth0 ==
  ASSUME NEW D, NEW t, NEW f \in Filter0
  PROVE  Valid1(f, t, D) <=> Valid0(f, t, D)
<1>1. f.inner = <<>>
  BY DEF Filter0, FilterRec
<1>. QED  BY <1>1 DEF Valid0, Valid1

LEMMA ValidDepth1 ==
  ASSUME NEW D, NEW t, NEW f \in Filter1
  PROVE  Valid2(f, t, D) <=> Valid1(f, t, D)
<1>1. f.inner \in Seq(Filter0)
  BY DEF Filter1, FilterRec
<1>2. ASSUME NEW k \in DOMAIN f.inner
      PROVE  Valid1(f.inner[k], FALSE, D) <=> Valid0(f.inner[k], FALSE, D)
  <2>1. f.inner[k] \in Filter0
    BY <1>1, ElementOfSeq
  <2>. QED  BY <2>1, ValidDepth0
<1>. QED  BY <1>2 DEF Valid1, Valid2

(***************************************************************************)
(* What the checks of processFilter decide, item by item: each check       *)
(* passes or fails as the spec's validity of the head item says.          *)
(***************************************************************************)
\* The name checks of lines 39-49 are NameValid against c.Filters.
LEMMA NameErrorValid ==
  ASSUME TypeInv, NEW it \in Items
  PROVE  NameError(it) = NoError <=> NameValid(it.f, it.top, Registered)
BY ConstAssumption DEF NameError, NameValid, IsRef, Registered, Items, Filter2, FilterRec,
                       FilterNames, NoError, TypeInv, TypeOK

\* An AND/OR is valid exactly when its inner filters are.
LEMMA ExpandValid ==
  ASSUME TypeInv, NEW it \in Items, it.kind = "check", NameError(it) = NoError,
         it.f.op \in BoolOps
  PROVE  ItemOK(it) <=> \A x \in Range(ChecksOf(it.f)) : ItemOK(x)
<1>1. it.f.inner \in Seq(Filter1)
  BY DEF Items, Filter2, FilterRec
<1>2. DOMAIN it.f.inner = 1..Len(it.f.inner)
  BY <1>1, LenProperties
<1>3. Range(ChecksOf(it.f)) = {Check(it.f.inner[k], FALSE) : k \in DOMAIN it.f.inner}
  BY <1>2 DEF Range, ChecksOf
<1>4. ASSUME NEW k \in DOMAIN it.f.inner
      PROVE  Valid2(it.f.inner[k], FALSE, Registered) <=> Valid1(it.f.inner[k], FALSE, Registered)
  <2>1. it.f.inner[k] \in Filter1
    BY <1>1, ElementOfSeq
  <2>. QED  BY <2>1, ValidDepth1
<1>5. NameValid(it.f, it.top, Registered)
  BY NameErrorValid
<1>6. (\A x \in Range(ChecksOf(it.f)) : ItemOK(x))
        <=> \A k \in DOMAIN it.f.inner : Valid2(it.f.inner[k], FALSE, Registered)
  <2>1. \A k \in DOMAIN it.f.inner :
          ItemOK(Check(it.f.inner[k], FALSE)) <=> Valid2(it.f.inner[k], FALSE, Registered)
    BY DEF ItemOK, Check
  <2>. QED  BY <1>3, <2>1, Zenon
<1>7. ItemOK(it) <=> \A k \in DOMAIN it.f.inner : Valid1(it.f.inner[k], FALSE, Registered)
  BY <1>5 DEF ItemOK, Valid2
<1>. QED  BY <1>4, <1>6, <1>7

\* A leaf is valid exactly when AcceptLeaf takes it.
LEMMA LeafValidIff ==
  ASSUME TypeInv, NEW it \in Items, it.kind = "check", NameError(it) = NoError, IsLeaf(it)
  PROVE  ItemOK(it) <=> \/ it.f.op \in StrOps
                        \/ it.f.op \in NumOps /\ ParseUint[it.f.value] # NoValue
<1>1. NameValid(it.f, it.top, Registered)
  BY NameErrorValid
<1>. QED  BY <1>1 DEF ItemOK, Valid2, LeafValid, IsLeaf, IsRef

\* A reference is valid once its name is registered.
LEMMA RefValid ==
  ASSUME TypeInv, NEW it \in Items, it.kind = "check", NameError(it) = NoError,
         it.f.op \notin BoolOps, it.f.inner = <<>>, IsRef(it)
  PROVE  ItemOK(it)
<1>1. NameValid(it.f, it.top, Registered)
  BY NameErrorValid
<1>. QED  BY <1>1 DEF ItemOK, Valid2, LeafValid, IsRef

\* The head of the stack is the top-level filter in progress, or an inner
\* filter of it with the registration still to come.
LEMMA HeadPlace ==
  ASSUME ValInv, stack # <<>>, Cur.kind = "check"
  PROVE  /\ Cur.top => Cur.f = policy[i - 1]
         /\ ~Cur.top => Reg(policy[i - 1]) \in Range(Tail(stack))
<1>1. /\ Cur \in Items /\ Cur \in Range(stack)
      /\ Range(stack) = {Cur} \cup Range(Tail(stack))
  BY HeadFacts DEF ValInv
<1>2. Reg(policy[i - 1]) # Cur
  BY DEF Reg
<1>3. CASE Cur.top
  <2>1. Len(stack) = 1
    <3>1. 1 \in DOMAIN stack /\ Cur = stack[1]
      BY LenProperties, EmptySeq DEF Cur, ValInv, TypeInv, TypeOK
    <3>. QED  BY <1>3, <3>1 DEF ValInv, TypeInv, StackShape, NoTopCheck
  <2>2. Range(stack) = {Cur}
    <3>1. stack = <<Cur>>
      BY <2>1, LenProperties DEF Cur, ValInv, TypeInv, TypeOK
    <3>. QED  BY <3>1, RangeOne
  <2>3. stack = <<Check(policy[i - 1], TRUE)>>
    BY <1>2, <2>2 DEF ValInv
  <2>. QED  BY <1>3, <2>3 DEF Cur, Check
<1>4. CASE ~Cur.top
  <2>1. stack # <<Check(policy[i - 1], TRUE)>>
    BY <1>4 DEF Cur, Check
  <2>. QED  BY <1>1, <1>2, <1>4, <2>1 DEF ValInv
<1>. QED  BY <1>3, <1>4
(***************************************************************************)
(* The two kinds of step inside processFilter: a check fails, and the     *)
(* error ends processFilters; or a check passes, and the stack keeps the  *)
(* verdict on the filter in progress.                                      *)
(***************************************************************************)
LEMMA FailValid ==
  ASSUME ValInv, stack # <<>>, Cur.kind = "check", ~ItemOK(Cur),
         NEW e \in Errors, Fail(e)
  PROVE  ValInv'
<1>1. TypeInv'
  BY FailInv DEF ValInv
<1>2. Cur \in Range(stack)
  BY HeadFacts DEF ValInv
<1>3. ~Valid2(policy[i - 1], TRUE, Dec(i - 1))
  BY <1>2 DEF ValInv, Completed
<1>4. i - 1 \in DOMAIN policy
  BY LenProperties DEF ValInv, TypeInv, TypeOK
<1>5. ~PolicyValid(policy)
  BY <1>3, <1>4 DEF PolicyValid, Dec
<1>6. e # NoError
  BY DEF Errors, NoError
<1>. QED  BY <1>1, <1>5, <1>6 DEF Fail, ValInv

LEMMA KeepValid ==
  ASSUME ValInv, TypeInv', stack # <<>>, stack' # <<>>,
         UNCHANGED <<policy, filters, i, err>>,
         (\A it \in Range(stack) : ItemOK(it)) <=> (\A it \in Range(stack') : ItemOK(it)),
         \A r \in Range(stack') : r.kind = "reg" => r = Reg(policy[i - 1]),
         Reg(policy[i - 1]) \in Range(stack')
  PROVE  ValInv'
<1>1. Registered' = Registered
  BY DEF Registered
<1>2. Completed' = Completed /\ Dec(Completed)' = Dec(Completed)
  BY DEF Completed, Dec
<1>3. \A m \in Nat : Dec(m)' = Dec(m)
  BY DEF Dec
<1>4. err = NoError /\ i >= 2
  BY DEF ValInv
<1>5. (\A it \in Range(stack') : ItemOK(it)') <=> (\A it \in Range(stack') : ItemOK(it))
  BY <1>1 DEF ItemOK
<1>6. Valid2(policy[i - 1], TRUE, Registered) <=> \A it \in Range(stack) : ItemOK(it)
  BY <1>4, Zenon DEF ValInv
<1>7. (err = NoError)' =>
        /\ \A m \in 1..(Completed' - 1) : Valid2(policy'[m], TRUE, Dec(m)')
        /\ Registered' = Dec(Completed)'
  <2>1. \A m \in 1..(Completed - 1) : Valid2(policy[m], TRUE, Dec(m))
    BY <1>4, Zenon DEF ValInv
  <2>2. Completed \in Nat
    BY <1>4 DEF Completed, ValInv, TypeInv, TypeOK
  <2>3. Registered = Dec(Completed)
    BY <1>4, Zenon DEF ValInv
  <2>4. policy' = policy
    OBVIOUS
  <2>5. ASSUME NEW m \in 1..(Completed' - 1) PROVE Valid2(policy'[m], TRUE, Dec(m)')
    <3>1. m \in 1..(Completed - 1) /\ m \in Nat
      BY <1>2, <2>2
    <3>2. Dec(m)' = Dec(m)
      BY <1>3, <3>1
    <3>. QED  BY <2>1, <2>4, <3>1, <3>2, Zenon
  <2>. QED  BY <1>1, <1>2, <2>3, <2>5, Zenon
<1>8. (stack # <<>>)' =>
        /\ err' = NoError /\ i' >= 2
        /\ \A r \in Range(stack') : r.kind = "reg" => r = Reg(policy'[i' - 1])
        /\ stack' = <<Check(policy'[i' - 1], TRUE)>> \/ Reg(policy'[i' - 1]) \in Range(stack')
        /\ Valid2(policy'[i' - 1], TRUE, Registered')
           <=> \A it \in Range(stack') : ItemOK(it)'
  <2>1. policy' = policy /\ i' = i /\ err' = err
    OBVIOUS
  <2>2. Valid2(policy'[i' - 1], TRUE, Registered') <=> Valid2(policy[i - 1], TRUE, Registered)
    BY <1>1, <2>1, Zenon
  <2>3. Valid2(policy'[i' - 1], TRUE, Registered') <=> \A it \in Range(stack') : ItemOK(it)'
    BY <1>5, <1>6, <2>2, Zenon
  <2>4. err' = NoError /\ i' >= 2
    BY <1>4, <2>1
  <2>. QED  BY <2>1, <2>3, <2>4, Zenon
<1>9. (err # NoError)' => stack' = <<>> /\ ~PolicyValid(policy')
  BY <1>4
<1>. QED  BY <1>7, <1>8, <1>9, Zenon DEF ValInv

LEMMA ValInvInit == Init => ValInv
<1>. SUFFICES ASSUME Init PROVE ValInv
  OBVIOUS
<1>1. TypeInv
  BY TypeInvInit
<1>2. Registered = {} /\ Completed = 1
  BY DEF Init, Registered, Completed
<1>3. Dec(1) = {}
  BY DEF Dec
<1>. QED  BY <1>1, <1>2, <1>3 DEF Init, ValInv
LEMMA ValInvNext == ValInv /\ [Next]_vars => ValInv'
<1>. SUFFICES ASSUME ValInv, [Next]_vars PROVE ValInv'
  OBVIOUS
<1>0. TypeInv'
  BY TypeInvNext DEF ValInv
<1>1. CASE StartFilter
  <2>1. stack = <<>> /\ err = NoError /\ i \in 1..Len(policy) /\ policy \in Seq(Filter2)
    BY <1>1 DEF StartFilter, ValInv, TypeInv, TypeOK
  <2>2. /\ policy' = policy /\ filters' = filters /\ err' = err /\ i' = i + 1
        /\ stack' = <<Check(policy[i], TRUE)>>
    BY <1>1 DEF StartFilter
  <2>3. Completed = i /\ Completed' = i /\ Registered' = Registered /\ stack' # <<>>
    BY <2>1, <2>2 DEF Completed, Registered
  <2>4. \A m \in Nat : Dec(m)' = Dec(m)
    BY <2>2 DEF Dec
  <2>5. (err = NoError)' =>
          /\ \A m \in 1..(Completed' - 1) : Valid2(policy'[m], TRUE, Dec(m)')
          /\ Registered' = Dec(Completed)'
    <3>1. \A m \in 1..(i - 1) : Valid2(policy[m], TRUE, Dec(m))
      BY <2>1, <2>3, Zenon DEF ValInv
    <3>2. Registered = Dec(i)
      BY <2>1, <2>3, Zenon DEF ValInv
    <3>3. ASSUME NEW m \in 1..(i - 1) PROVE Valid2(policy'[m], TRUE, Dec(m)')
      <4>1. m \in Nat
        BY <2>1
      <4>. QED  BY <2>2, <2>4, <3>1, <4>1, Zenon
    <3>4. Dec(Completed)' = Dec(i)
      BY <2>1, <2>3, <2>4
    <3>. QED  BY <2>3, <3>2, <3>3, <3>4, Zenon
  <2>6. Range(stack') = {Check(policy[i], TRUE)}
    BY <2>2, RangeOne, Zenon
  <2>7. (stack # <<>>)' =>
          /\ err' = NoError /\ i' >= 2
          /\ \A r \in Range(stack') : r.kind = "reg" => r = Reg(policy'[i' - 1])
          /\ stack' = <<Check(policy'[i' - 1], TRUE)>> \/ Reg(policy'[i' - 1]) \in Range(stack')
          /\ Valid2(policy'[i' - 1], TRUE, Registered')
             <=> \A it \in Range(stack') : ItemOK(it)'
    <3>1. err' = NoError /\ i' >= 2 /\ i' - 1 = i
      BY <2>1, <2>2
    <3>2. \A r \in Range(stack') : r.kind # "reg"
      BY <2>6 DEF Check
    <3>3. (\A it \in Range(stack') : ItemOK(it)') <=> Valid2(policy[i], TRUE, Registered')
      BY <2>6 DEF ItemOK, Check
    <3>4. stack' = <<Check(policy'[i' - 1], TRUE)>>
      BY <2>2, <3>1, Zenon
    <3>5. policy'[i' - 1] = policy[i]
      BY <2>2, <3>1
    <3>. QED  BY <3>1, <3>2, <3>3, <3>4, <3>5, Zenon
  <2>8. (err # NoError)' => stack' = <<>> /\ ~PolicyValid(policy')
    BY <2>1, <2>2
  <2>. QED  BY <1>0, <2>5, <2>7, <2>8, Zenon DEF ValInv
<1>2. CASE RejectName
  <2>1. stack # <<>> /\ Cur.kind = "check" /\ Cur \in Items
    BY <1>2, HeadFacts DEF RejectName, ValInv
  <2>2. ~ItemOK(Cur)
    BY <1>2, <2>1, NameErrorValid DEF RejectName, ValInv, ItemOK, Valid2
  <2>3. NameError(Cur) \in Errors
    BY <1>2 DEF RejectName, NameError, Errors
  <2>. QED  BY <1>2, <2>1, <2>2, <2>3, FailValid DEF RejectName
<1>3. CASE RejectInner
  <2>1. stack # <<>> /\ Cur.kind = "check" /\ Cur \in Items
    BY <1>3, HeadFacts DEF RejectInner, ValInv
  <2>2. ~ItemOK(Cur)
    BY <1>3 DEF RejectInner, ItemOK, Valid2, LeafValid
  <2>. QED  BY <1>3, <2>1, <2>2, FailValid DEF RejectInner, Errors
<1>4. CASE RejectLeaf
  <2>1. stack # <<>> /\ Cur.kind = "check" /\ Cur \in Items
    BY <1>4, HeadFacts DEF RejectLeaf, ValInv
  <2>2. ~ItemOK(Cur)
    BY <1>4, <2>1, LeafValidIff DEF RejectLeaf, ValInv, StrOps, NumOps
  <2>. QED  BY <1>4, <2>1, <2>2, FailValid DEF RejectLeaf, Errors
<1>5. CASE ExpandGroup
  <2>. DEFINE kids == ChecksOf(Cur.f)
  <2>1. /\ Cur \in Items /\ Cur.f \in Filter2 /\ kids \in Seq(Items)
        /\ Then(Cur) \in Seq(Items) /\ Tail(stack) \in Seq(Items)
        /\ stack' = kids \o (Then(Cur) \o Tail(stack))
    BY <1>5, ExpandGroupStack DEF ValInv
  <2>2. Range(stack') = Range(kids) \cup Range(Then(Cur)) \cup Range(Tail(stack))
    <3>. DEFINE rest == Then(Cur) \o Tail(stack)
    <3>1. rest \in Seq(Items)
      BY <2>1, ConcatProperties
    <3>2. Range(stack') = Range(kids) \cup Range(rest)
      BY <2>1, <3>1, PendingConcat
    <3>3. Range(rest) = Range(Then(Cur)) \cup Range(Tail(stack))
      BY <2>1, PendingConcat
    <3>. QED  BY <3>2, <3>3
  <2>3. Range(stack) = {Cur} \cup Range(Tail(stack))
    BY <1>5, HeadFacts DEF ExpandGroup, ValInv
  <2>4. ItemOK(Cur) <=> \A x \in Range(kids) : ItemOK(x)
    BY <1>5, <2>1, ExpandValid DEF ExpandGroup, ValInv
  <2>5. \A r \in Range(Then(Cur)) : r.kind = "reg" /\ ItemOK(r)
    BY <2>1, ThenRange DEF Reg, ItemOK
  <2>6. \A x \in Range(kids) : x.kind = "check"
    <3>. SUFFICES ASSUME NEW x \in Range(kids) PROVE x.kind = "check"
      OBVIOUS
    <3>1. PICK k \in 1..Len(Cur.f.inner) : x = kids[k]
      BY DEF Range, ChecksOf
    <3>. QED  BY <3>1 DEF ChecksOf, Check
  <2>7. /\ Cur.top => Cur.f = policy[i - 1]
        /\ ~Cur.top => Reg(policy[i - 1]) \in Range(Tail(stack))
    BY <1>5, HeadPlace DEF ExpandGroup
  <2>8. Reg(policy[i - 1]) \in Range(stack')
    <3>1. CASE Cur.top
      BY <2>1, <2>2, <2>7, <3>1, ThenRange
    <3>2. CASE ~Cur.top
      BY <2>2, <2>7, <3>2
    <3>. QED  BY <3>1, <3>2
  <2>9. \A r \in Range(stack') : r.kind = "reg" => r = Reg(policy[i - 1])
    BY <2>1, <2>2, <2>3, <2>6, <2>7, ThenRange DEF ValInv
  <2>10. stack' # <<>>
    BY <2>8, PendingEmpty
  <2>. QED  BY <1>0, <1>5, <2>2, <2>3, <2>4, <2>5, <2>8, <2>9, <2>10, KeepValid
            DEF ExpandGroup
<1>6. CASE AcceptLeaf
  <2>1. /\ Cur \in Items /\ Tail(stack) \in Seq(Items) /\ stack # <<>>
        /\ Range(stack) = {Cur} \cup Range(Tail(stack))
    BY <1>6, HeadFacts DEF AcceptLeaf, ValInv
  <2>2. ItemOK(Cur)
    BY <1>6, <2>1, LeafValidIff DEF AcceptLeaf, ValInv
  <2>3. Then(Cur) \in Seq(Items)
    <3>1. Reg(Cur.f) \in Items
      BY <2>1 DEF Reg, Items
    <3>. QED  BY <3>1, EmptySeq DEF Then
  <2>4. Range(stack') = Range(Then(Cur)) \cup Range(Tail(stack))
    BY <1>6, <2>1, <2>3, PendingConcat DEF AcceptLeaf
  <2>5. \A r \in Range(Then(Cur)) : r.kind = "reg" /\ ItemOK(r)
    BY <2>1, ThenRange DEF Reg, ItemOK
  <2>6. /\ Cur.top => Cur.f = policy[i - 1]
        /\ ~Cur.top => Reg(policy[i - 1]) \in Range(Tail(stack))
    BY <1>6, HeadPlace DEF AcceptLeaf
  <2>7. Reg(policy[i - 1]) \in Range(stack')
    <3>1. CASE Cur.top
      BY <2>1, <2>4, <2>6, <3>1, ThenRange
    <3>2. CASE ~Cur.top
      BY <2>4, <2>6, <3>2
    <3>. QED  BY <3>1, <3>2
  <2>8. \A r \in Range(stack') : r.kind = "reg" => r = Reg(policy[i - 1])
    BY <2>1, <2>4, <2>6, ThenRange DEF ValInv
  <2>9. stack' # <<>>
    BY <2>7, PendingEmpty
  <2>. QED  BY <1>0, <1>6, <2>1, <2>2, <2>4, <2>5, <2>7, <2>8, <2>9, KeepValid
            DEF AcceptLeaf
<1>7. CASE SkipReference
  <2>1. /\ Cur \in Items /\ Tail(stack) \in Seq(Items) /\ stack # <<>>
        /\ Range(stack) = {Cur} \cup Range(Tail(stack))
    BY <1>7, HeadFacts DEF SkipReference, ValInv
  <2>2. ItemOK(Cur)
    BY <1>7, <2>1, RefValid DEF SkipReference, ValInv
  <2>3. Reg(policy[i - 1]) \in Range(Tail(stack))
    BY <1>7, HeadPlace DEF SkipReference, IsRef
  <2>4. stack' # <<>>
    BY <1>7, <2>3, PendingEmpty DEF SkipReference
  <2>. QED  BY <1>0, <1>7, <2>1, <2>2, <2>3, <2>4, KeepValid DEF SkipReference, ValInv
<1>8. CASE Register
  <2>1. /\ Cur \in Items /\ Tail(stack) \in Seq(Items) /\ stack # <<>>
        /\ Cur \in Range(stack) /\ Range(stack) = {Cur} \cup Range(Tail(stack))
    BY <1>8, HeadFacts DEF Register, ValInv
  <2>2. Tail(stack) = <<>> /\ Cur.f.name \in Names
    <3>1. 1 \in DOMAIN stack /\ Cur = stack[1] /\ Len(stack) \in Nat
      BY <1>8, LenProperties, EmptySeq DEF Register, Cur, ValInv, TypeInv, TypeOK
    <3>2. Len(stack) = 1 /\ Cur.f.name \in Names
      BY <1>8, <3>1 DEF Register, ValInv, TypeInv, StackShape, RegLast
    <3>3. Len(Tail(stack)) = 0
      BY <1>8, <3>2, HeadTailProperties DEF Register, ValInv, TypeInv, TypeOK
    <3>. QED  BY <2>1, <3>2, <3>3, EmptySeq
  <2>3. Cur = Reg(policy[i - 1]) /\ err = NoError /\ i >= 2
    BY <1>8, <2>1 DEF Register, ValInv
  <2>4. Range(stack) = {Cur}
    BY <2>1, <2>2, PendingEmpty
  <2>5. Valid2(policy[i - 1], TRUE, Registered)
    <3>1. ItemOK(Cur)
      BY <1>8 DEF Register, ItemOK
    <3>2. \A it \in Range(stack) : ItemOK(it)
      BY <2>4, <3>1
    <3>. QED  BY <2>1, <3>2, Zenon DEF ValInv
  <2>6. Completed = i - 1 /\ Completed' = i
    BY <1>8, <2>2 DEF Register, Completed
  <2>7. Registered = Dec(i - 1) /\ \A m \in 1..(i - 2) : Valid2(policy[m], TRUE, Dec(m))
    <3>1. Registered = Dec(Completed) /\ \A m \in 1..(Completed - 1) : Valid2(policy[m], TRUE, Dec(m))
      BY <2>3, Zenon DEF ValInv
    <3>2. Completed - 1 = i - 2
      BY <2>3, <2>6 DEF ValInv, TypeInv, TypeOK
    <3>. QED  BY <2>6, <3>1, <3>2, Zenon
  <2>8. Cur.f # NoValue
    BY <2>1, ConstAssumption DEF Items
  <2>9. Registered' = Registered \cup {policy[i - 1].name}
    BY <1>8, <2>2, <2>3, <2>8 DEF Register, Registered, ValInv, TypeInv, TypeOK, Reg
  <2>10. i - 1 \in 1..Len(policy) /\ i \in Nat
    BY <2>3 DEF ValInv, TypeInv, TypeOK
  <2>11. Dec(i) = Dec(i - 1) \cup {policy[i - 1].name}
    BY <2>10 DEF Dec
  <2>12. ASSUME NEW m \in 1..(i - 1) PROVE Valid2(policy[m], TRUE, Dec(m))
    <3>1. CASE m = i - 1
      BY <2>5, <2>7, <3>1
    <3>2. CASE m # i - 1
      <4>1. m \in 1..(i - 2)
        BY <2>10, <3>2
      <4>. QED  BY <2>7, <4>1
    <3>. QED  BY <3>1, <3>2
  <2>13. policy' = policy /\ i' = i /\ err' = err /\ stack' = <<>>
    BY <1>8, <2>2 DEF Register
  <2>14. \A m \in Nat : Dec(m)' = Dec(m)
    BY <2>13 DEF Dec
  <2>15. (err = NoError)' =>
           /\ \A m \in 1..(Completed' - 1) : Valid2(policy'[m], TRUE, Dec(m)')
           /\ Registered' = Dec(Completed)'
    <3>1. ASSUME NEW m \in 1..(i - 1) PROVE Valid2(policy'[m], TRUE, Dec(m)')
      <4>1. m \in Nat
        BY <2>10
      <4>. QED  BY <2>12, <2>13, <2>14, <4>1, Zenon
    <3>2. Registered' = Dec(i)
      BY <2>7, <2>9, <2>11
    <3>3. Completed' - 1 = i - 1 /\ Dec(Completed)' = Dec(i)
      BY <2>6, <2>13 DEF Dec
    <3>. QED  BY <3>1, <3>2, <3>3, Zenon
  <2>. QED  BY <1>0, <2>3, <2>13, <2>15, Zenon DEF ValInv
<1>9. CASE Terminated \/ UNCHANGED vars
  <2>1. policy' = policy /\ filters' = filters /\ i' = i /\ err' = err /\ stack' = stack
    BY <1>9 DEF Terminated, vars
  <2>2. Registered' = Registered /\ Completed' = Completed
    BY <2>1 DEF Registered, Completed
  <2>3. \A m \in Nat : Dec(m)' = Dec(m)
    BY <2>1 DEF Dec
  <2>4. \A it : ItemOK(it)' = ItemOK(it)
    BY <2>2 DEF ItemOK
  <2>5. Completed \in Nat
    BY DEF Completed, ValInv, TypeInv, TypeOK
  <2>6. Dec(Completed)' = Dec(Completed)
    BY <2>1 DEF Dec, Completed
  <2>7. (err = NoError)' =>
          /\ \A m \in 1..(Completed' - 1) : Valid2(policy'[m], TRUE, Dec(m)')
          /\ Registered' = Dec(Completed)'
    <3>1. ASSUME NEW m \in 1..(Completed - 1), err = NoError
          PROVE  Valid2(policy'[m], TRUE, Dec(m)')
      <4>1. m \in Nat
        BY <2>5
      <4>2. Valid2(policy[m], TRUE, Dec(m))
        BY <3>1, Zenon DEF ValInv
      <4>. QED  BY <2>1, <2>3, <4>1, <4>2, Zenon
    <3>2. err = NoError => Registered = Dec(Completed)
      BY Zenon DEF ValInv
    <3>. QED  BY <2>1, <2>2, <2>6, <3>1, <3>2, Zenon
  <2>8. (stack # <<>>)' =>
          /\ err' = NoError /\ i' >= 2
          /\ \A r \in Range(stack') : r.kind = "reg" => r = Reg(policy'[i' - 1])
          /\ stack' = <<Check(policy'[i' - 1], TRUE)>> \/ Reg(policy'[i' - 1]) \in Range(stack')
          /\ Valid2(policy'[i' - 1], TRUE, Registered')
             <=> \A it \in Range(stack') : ItemOK(it)'
    BY <2>1, <2>2, <2>4, Zenon DEF ValInv
  <2>9. (err # NoError)' => stack' = <<>> /\ ~PolicyValid(policy')
    BY <2>1, Zenon DEF ValInv
  <2>. QED  BY <1>0, <2>7, <2>8, <2>9, Zenon DEF ValInv
<1>. QED  BY <1>1, <1>2, <1>3, <1>4, <1>5, <1>6, <1>7, <1>8, <1>9 DEF Next

(***************************************************************************)
(* AcceptsExactlyValid for every policy: once processFilters has returned, *)
(* it has returned nil exactly for the policies that are valid, where a   *)
(* reference may only name a filter declared before (no forward or self   *)
(* reference): the checks of filter.go 39-75 are complete and sound.      *)
(***************************************************************************)
THEOREM AcceptsValidPolicies == Spec => []AcceptsExactlyValid
<1>1. Init => ValInv
  BY ValInvInit
<1>2. ValInv /\ [Next]_vars => ValInv'
  BY ValInvNext
<1>3. ValInv => AcceptsExactlyValid
  <2>. SUFFICES ASSUME ValInv, Done PROVE (err = NoError) <=> PolicyValid(policy)
    BY DEF AcceptsExactlyValid
  <2>1. CASE err # NoError
    BY <2>1 DEF ValInv
  <2>2. CASE err = NoError
    <3>1. stack = <<>> /\ i = Len(policy) + 1
      BY <2>2 DEF Done, ValInv, TypeInv, TypeOK
    <3>2. \A m \in 1..Len(policy) : Valid2(policy[m], TRUE, Dec(m))
      <4>1. Completed - 1 = Len(policy)
        BY <3>1 DEF Completed, ValInv, TypeInv, TypeOK
      <4>2. \A m \in 1..(Completed - 1) : Valid2(policy[m], TRUE, Dec(m))
        BY <2>2, Zenon DEF ValInv
      <4>. QED  BY <4>1, <4>2
    <3>3. DOMAIN policy = 1..Len(policy)
      BY LenProperties DEF ValInv, TypeInv, TypeOK
    <3>. QED  BY <2>2, <3>2, <3>3 DEF PolicyValid, Dec
  <2>. QED  BY <2>1, <2>2
<1>. QED  BY <1>1, <1>2, <1>3, PTL DEF Spec
=============================================================================
