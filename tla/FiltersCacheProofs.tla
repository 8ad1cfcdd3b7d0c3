------------------------ MODULE FiltersCacheProofs ------------------------
(***************************************************************************)
(* NumCacheComplete for every policy: processFilter caches the parsed     *)
(* literal of every GT/GE/LT/LE comparison that match will evaluate in a   *)
(* registered filter (filter.go 65-73, read at 136).                       *)
(***************************************************************************)
EXTENDS FiltersProofs

\* The literals of the GT/GE/LT/LE comparisons match evaluates in f.
NumsOf(f) == {g.value : g \in {h \in InlineNodes(f) : h.op \in NumOps}}

\* The literals a pending check will cache: a reference none (its target
\* was validated when it was registered), any other filter its own.
NCovers(it) == IF it.kind = "reg" \/ IsRef(it) THEN {} ELSE NumsOf(it.f)
NPending(s) == UNION {NCovers(x) : x \in Range(s)}

\* The literals whose parsed value c.numCache holds.
Cached == {l \in Literals : numCache[l] = ParseUint[l]}

(***************************************************************************)
(* The strengthening: the literals of a pending registration are cached    *)
(* or will be cached by a check still on the stack.                        *)
(***************************************************************************)
NumRegCovered ==
  \A r \in Range(stack) : r.kind = "reg" => NumsOf(r.f) \subseteq Cached \cup NPending(stack)

NumInv == TypeInv /\ NumCacheComplete /\ NumRegCovered

\* The inner filters of a filter of depth d + 1 have depth d.
LEMMA KidsType ==
  /\ \A f \in Filter2 : Kids(f) \subseteq Filter1
  /\ \A f \in Filter1 : Kids(f) \subseteq Filter0
<1>1. ASSUME NEW f \in Filter2 PROVE Kids(f) \subseteq Filter1
  <2>1. f.inner \in Seq(Filter1)
    BY DEF Filter2, FilterRec
  <2>. QED  BY <2>1, ElementOfSeq DEF Kids
<1>2. ASSUME NEW f \in Filter1 PROVE Kids(f) \subseteq Filter0
  <2>1. f.inner \in Seq(Filter0)
    BY DEF Filter1, FilterRec
  <2>. QED  BY <2>1, ElementOfSeq DEF Kids
<1>. QED  BY <1>1, <1>2

\* Every filter match evaluates inline is a filter: its literal is a literal.
LEMMA InlineNodesType ==
  ASSUME NEW f \in Filter2
  PROVE  InlineNodes(f) \subseteq Filter2
<1>1. InlineKids(f) \subseteq Filter1
  BY KidsType DEF InlineKids
<1>2. UNION {InlineKids(c) : c \in InlineKids(f)} \subseteq Filter0
  BY <1>1, KidsType DEF InlineKids
<1>. QED  BY <1>1, <1>2, FilterNesting DEF InlineNodes

\* NumCacheComplete, stated with NumsOf and Cached.
LEMMA CompleteIff ==
  ASSUME TypeInv
  PROVE  NumCacheComplete <=> \A n \in Registered : NumsOf(filters[n]) \subseteq Cached
<1>1. \A n \in Registered : filters[n] \in Filter2
  BY DEF Registered, TypeInv, TypeOK
<1>2. \A n \in Registered : \A g \in InlineNodes(filters[n]) : g.value \in Literals
  BY <1>1, InlineNodesType DEF Filter2, FilterRec
<1>. QED  BY <1>2 DEF NumCacheComplete, NumsOf, Cached

\* The same, in the state after a step.
LEMMA CompleteIffPrime ==
  ASSUME TypeInv'
  PROVE  NumCacheComplete' <=> \A n \in Registered' : NumsOf(filters'[n]) \subseteq Cached'
<1>1. \A n \in Registered' : filters'[n] \in Filter2
  BY DEF Registered, TypeInv, TypeOK
<1>2. \A n \in Registered' : \A g \in InlineNodes(filters'[n]) : g.value \in Literals
  BY <1>1, InlineNodesType DEF Filter2, FilterRec
<1>. QED  BY <1>2 DEF NumCacheComplete, NumsOf, Cached

\* A leaf caches at most its own literal.
LEMMA LeafNums ==
  ASSUME NEW it \in Items, IsLeaf(it)
  PROVE  NumsOf(it.f) = IF it.f.op \in NumOps THEN {it.f.value} ELSE {}
<1>1. InlineNodes(it.f) = {it.f}
  BY DEF IsLeaf, Kids, InlineNodes, InlineKids
<1>. QED  BY <1>1 DEF NumsOf

\* The literals of an AND/OR are cached by the checks of its inner filters.
LEMMA ExpandNums ==
  ASSUME NEW g \in Filter2, g.op \in BoolOps
  PROVE  NumsOf(g) \subseteq NPending(ChecksOf(g))
<1>. DEFINE kids == ChecksOf(g)
<1>1. g.inner \in Seq(Filter1)
  BY DEF Filter2, FilterRec
<1>2. Kids(g) = {g.inner[k] : k \in 1..Len(g.inner)}
  BY <1>1, LenProperties DEF Kids
<1>3. \A c \in Kids(g) : NCovers(Check(c, FALSE)) \subseteq NPending(kids)
  <2>1. \A k \in 1..Len(g.inner) : Check(g.inner[k], FALSE) \in Range(kids)
    BY DEF Range, ChecksOf
  <2>. QED  BY <1>2, <2>1 DEF NPending
<1>. SUFFICES ASSUME NEW h \in InlineNodes(g), h.op \in NumOps
              PROVE  h.value \in NPending(kids)
  BY DEF NumsOf
<1>4. h # g
  BY BoolOps \cap NumOps = {} DEF BoolOps, NumOps
<1>5. PICK c \in InlineKids(g) : h \in InlineNodes(c)
  BY <1>4 DEF InlineNodes
<1>6. NCovers(Check(c, FALSE)) = NumsOf(c)
  BY <1>5 DEF InlineKids, NCovers, Check, IsRef
<1>7. h.value \in NumsOf(c)
  BY <1>5 DEF NumsOf
<1>. QED  BY <1>3, <1>5, <1>6, <1>7 DEF InlineKids

\* Pending literals of a concatenation, of a stack split at its head, of
\* the empty stack.
LEMMA NPendingConcat ==
  ASSUME NEW s \in Seq(Items), NEW t \in Seq(Items)
  PROVE  NPending(s \o t) = NPending(s) \cup NPending(t)
BY PendingConcat DEF NPending

LEMMA NPendingHead ==
  ASSUME NEW s \in Seq(Items), s # <<>>
  PROVE  NPending(s) = NCovers(Head(s)) \cup NPending(Tail(s))
BY PendingHead DEF NPending

LEMMA NPendingEmpty == NPending(<<>>) = {}
BY PendingEmpty DEF NPending

\* No step forgets a cached literal: c.numCache is only written with the
\* parsed value.
LEMMA CachedGrows ==
  ASSUME TypeInv, [Next]_vars
  PROVE  Cached \subseteq Cached'
<1>1. CASE AcceptLeaf
  <2>1. Cur \in Items
    BY <1>1, HeadTailProperties DEF AcceptLeaf, Cur, TypeInv, TypeOK
  <2>2. Cur.f.value \in Literals
    BY <2>1 DEF Items, Filter2, FilterRec
  <2>. QED  BY <1>1, <2>2 DEF AcceptLeaf, Cached, TypeInv, TypeOK
<1>2. CASE ~AcceptLeaf
  <2>1. numCache' = numCache
    BY <1>2 DEF Next, vars, StartFilter, RejectName, ExpandGroup, RejectInner,
                SkipReference, RejectLeaf, Register, Terminated, Fail
  <2>. QED  BY <2>1 DEF Cached
<1>. QED  BY <1>1, <1>2

\* A step that leaves c.Filters alone keeps the invariant when what was
\* pending is cached or pending after it, and every registration left on
\* the stack has its literals cached or pending before.
LEMMA NumCoveredStep ==
  ASSUME NumInv, filters' = filters, Cached \subseteq Cached',
         NPending(stack) \subseteq Cached' \cup NPending(stack'),
         \A r \in Range(stack') : r.kind = "reg" => NumsOf(r.f) \subseteq Cached \cup NPending(stack),
         TypeInv'
  PROVE  NumCacheComplete' /\ NumRegCovered'
<1>1. Registered' = Registered
  BY DEF Registered
<1>2. \A n \in Registered : NumsOf(filters[n]) \subseteq Cached
  BY CompleteIff DEF NumInv
<1>3. (\A n \in Registered : NumsOf(filters[n]) \subseteq Cached)'
  BY <1>1, <1>2
<1>4. NumCacheComplete'
  BY <1>3, CompleteIffPrime DEF Registered
<1>5. NumRegCovered'
  BY DEF NumRegCovered
<1>. QED  BY <1>4, <1>5

\* An error empties the stack and leaves c.Filters and c.numCache alone.
LEMMA NumFail ==
  ASSUME NumInv, NEW e, Fail(e)
  PROVE  NumCacheComplete' /\ NumRegCovered'
<1>1. Registered' = Registered
  BY DEF Fail, Registered
<1>. QED  BY <1>1, PendingEmpty DEF Fail, NumInv, NumCacheComplete, NumRegCovered, Cached

LEMMA NumInvInit == Init => NumInv
<1>. SUFFICES ASSUME Init PROVE NumInv
  OBVIOUS
<1>1. TypeInv
  BY TypeInvInit
<1>2. Registered = {}
  BY DEF Init, Registered
<1>. QED  BY <1>1, <1>2, PendingEmpty DEF Init, NumInv, NumCacheComplete, NumRegCovered

LEMMA NumInvNext == NumInv /\ [Next]_vars => NumInv'
<1>. SUFFICES ASSUME NumInv, [Next]_vars PROVE NumInv'
  OBVIOUS
<1>1. TypeInv'
  BY TypeInvNext DEF NumInv
<1>0. Cached \subseteq Cached'
  BY CachedGrows DEF NumInv
<1>. SUFFICES NumCacheComplete' /\ NumRegCovered'
  BY <1>1 DEF NumInv
<1>2. CASE StartFilter
  <2>1. NPending(stack) = {}
    BY <1>2, NPendingEmpty DEF StartFilter
  <2>2. \A r \in Range(stack') : r.kind # "reg"
    BY <1>2, RangeOne DEF StartFilter, Check
  <2>. QED  BY <1>0, <1>1, <1>2, <2>1, <2>2, NumCoveredStep DEF StartFilter
<1>3. CASE RejectName \/ RejectInner \/ RejectLeaf
  BY <1>3, NumFail DEF RejectName, RejectInner, RejectLeaf
<1>4. CASE ExpandGroup
  <2>. DEFINE kids == ChecksOf(Cur.f)
  <2>1. /\ Cur \in Items /\ Cur.f \in Filter2 /\ kids \in Seq(Items)
        /\ Then(Cur) \in Seq(Items) /\ Tail(stack) \in Seq(Items)
        /\ stack' = kids \o (Then(Cur) \o Tail(stack))
    BY <1>4, ExpandGroupStack DEF NumInv
  <2>2. /\ Range(stack') = Range(kids) \cup Range(Then(Cur)) \cup Range(Tail(stack))
        /\ NPending(stack') = NPending(kids) \cup NPending(Then(Cur)) \cup NPending(Tail(stack))
    <3>. DEFINE rest == Then(Cur) \o Tail(stack)
    <3>1. rest \in Seq(Items)
      BY <2>1, ConcatProperties
    <3>2. Range(stack') = Range(kids) \cup Range(rest) /\ NPending(stack') = NPending(kids) \cup NPending(rest)
      BY <2>1, <3>1, PendingConcat, NPendingConcat
    <3>3. Range(rest) = Range(Then(Cur)) \cup Range(Tail(stack))
          /\ NPending(rest) = NPending(Then(Cur)) \cup NPending(Tail(stack))
      BY <2>1, PendingConcat, NPendingConcat
    <3>. QED  BY <3>2, <3>3
  <2>3. /\ Range(stack) = {Cur} \cup Range(Tail(stack))
        /\ NPending(stack) = NCovers(Cur) \cup NPending(Tail(stack))
    BY <1>4, HeadFacts, NPendingHead DEF ExpandGroup, NumInv, TypeInv, TypeOK, Cur
  <2>4. NCovers(Cur) \subseteq NPending(kids)
    <3>1. CASE IsRef(Cur)
      BY <3>1 DEF NCovers
    <3>2. CASE ~IsRef(Cur)
      <4>1. NCovers(Cur) = NumsOf(Cur.f)
        BY <1>4, <3>2 DEF NCovers, ExpandGroup
      <4>. QED  BY <1>4, <2>1, <4>1, ExpandNums DEF ExpandGroup
    <3>. QED  BY <3>1, <3>2
  <2>5. \A r \in Range(stack') :
          r.kind = "reg" => NumsOf(r.f) \subseteq Cached \cup NPending(stack)
    <3>. SUFFICES ASSUME NEW r \in Range(stack'), r.kind = "reg"
                  PROVE  NumsOf(r.f) \subseteq Cached \cup NPending(stack)
      OBVIOUS
    <3>1. CASE r \in Range(kids)
      <4>1. PICK k \in 1..Len(Cur.f.inner) : r = kids[k]
        BY <3>1 DEF Range, ChecksOf
      <4>. QED  BY <4>1 DEF ChecksOf, Check
    <3>2. CASE r \in Range(Then(Cur))
      <4>1. Cur.top /\ r = Reg(Cur.f)
        BY <2>1, <3>2, ThenRange
      <4>2. NCovers(Cur) = NumsOf(Cur.f)
        BY <1>4, <4>1 DEF NCovers, IsRef, ExpandGroup
      <4>. QED  BY <2>3, <4>1, <4>2 DEF Reg
    <3>3. CASE r \in Range(Tail(stack))
      BY <2>3, <3>3 DEF NumInv, NumRegCovered
    <3>. QED  BY <2>2, <3>1, <3>2, <3>3
  <2>6. NPending(Then(Cur)) = {}
    <3>1. \A x \in Range(Then(Cur)) : x.kind = "reg"
      BY <2>1, ThenRange DEF Reg
    <3>. QED  BY <3>1 DEF NPending, NCovers
  <2>. QED  BY <1>0, <1>1, <1>4, <2>2, <2>3, <2>4, <2>5, <2>6, NumCoveredStep DEF ExpandGroup
<1>5. CASE AcceptLeaf
  <2>1. /\ Cur \in Items /\ Tail(stack) \in Seq(Items)
        /\ Range(stack) = {Cur} \cup Range(Tail(stack))
        /\ NPending(stack) = NCovers(Cur) \cup NPending(Tail(stack))
    BY <1>5, HeadFacts, NPendingHead DEF AcceptLeaf, NumInv, TypeInv, TypeOK, Cur
  <2>2. NCovers(Cur) \subseteq Cached'
    <3>1. NCovers(Cur) = IF Cur.f.op \in NumOps THEN {Cur.f.value} ELSE {}
      BY <1>5, <2>1, LeafNums DEF AcceptLeaf, IsLeaf, NCovers
    <3>2. Cur.f.value \in Literals
      BY <2>1 DEF Items, Filter2, FilterRec
    <3>3. Cur.f.op \in NumOps => numCache'[Cur.f.value] = ParseUint[Cur.f.value]
      BY <1>5, <3>2 DEF AcceptLeaf, NumInv, TypeInv, TypeOK, StrOps, NumOps
    <3>. QED  BY <3>1, <3>2, <3>3 DEF Cached
  <2>3. Then(Cur) \in Seq(Items)
    <3>1. Reg(Cur.f) \in Items
      BY <2>1 DEF Reg, Items
    <3>. QED  BY <3>1, EmptySeq DEF Then
  <2>4. /\ Range(stack') = Range(Then(Cur)) \cup Range(Tail(stack))
        /\ NPending(stack') = NPending(Then(Cur)) \cup NPending(Tail(stack))
    BY <1>5, <2>1, <2>3, PendingConcat, NPendingConcat DEF AcceptLeaf
  <2>5. \A r \in Range(stack') :
          r.kind = "reg" => NumsOf(r.f) \subseteq Cached \cup NPending(stack)
    <3>. SUFFICES ASSUME NEW r \in Range(stack'), r.kind = "reg"
                  PROVE  NumsOf(r.f) \subseteq Cached \cup NPending(stack)
      OBVIOUS
    <3>1. CASE r \in Range(Then(Cur))
      <4>1. Cur.top /\ r = Reg(Cur.f)
        BY <2>1, <3>1, ThenRange
      <4>2. NCovers(Cur) = NumsOf(Cur.f)
        BY <1>5, <4>1 DEF NCovers, IsRef, AcceptLeaf
      <4>. QED  BY <2>1, <4>1, <4>2 DEF Reg
    <3>2. CASE r \in Range(Tail(stack))
      BY <2>1, <3>2 DEF NumInv, NumRegCovered
    <3>. QED  BY <2>4, <3>1, <3>2
  <2>6. NPending(Then(Cur)) = {}
    <3>1. \A x \in Range(Then(Cur)) : x.kind = "reg"
      BY <2>1, ThenRange DEF Reg
    <3>. QED  BY <3>1 DEF NPending, NCovers
  <2>. QED  BY <1>0, <1>1, <1>5, <2>1, <2>2, <2>4, <2>5, <2>6, NumCoveredStep DEF AcceptLeaf
<1>6. CASE SkipReference
  <2>1. /\ Cur \in Items /\ Tail(stack) \in Seq(Items)
        /\ Range(stack) = {Cur} \cup Range(Tail(stack))
        /\ NPending(stack) = NCovers(Cur) \cup NPending(Tail(stack))
    BY <1>6, HeadFacts, NPendingHead DEF SkipReference, NumInv, TypeInv, TypeOK, Cur
  <2>2. NCovers(Cur) = {}
    BY <1>6 DEF SkipReference, NCovers
  <2>. QED  BY <1>0, <1>1, <1>6, <2>1, <2>2, NumCoveredStep
            DEF SkipReference, NumInv, NumRegCovered
<1>7. CASE Register
  <2>1. /\ Cur \in Items /\ Tail(stack) \in Seq(Items)
        /\ Range(stack) = {Cur} \cup Range(Tail(stack))
        /\ NPending(stack) = NCovers(Cur) \cup NPending(Tail(stack))
    BY <1>7, HeadFacts, NPendingHead DEF Register, NumInv, TypeInv, TypeOK, Cur
  <2>2. Tail(stack) = <<>> /\ Cur.f.name \in Names
    <3>1. 1 \in DOMAIN stack /\ Cur = stack[1] /\ Len(stack) \in Nat
      BY <1>7, LenProperties, EmptySeq DEF Register, Cur, NumInv, TypeInv, TypeOK
    <3>2. Len(stack) = 1 /\ Cur.f.name \in Names
      BY <1>7, <3>1 DEF Register, NumInv, TypeInv, StackShape, RegLast
    <3>3. Len(Tail(stack)) = 0
      BY <1>7, <3>2, HeadTailProperties DEF Register, NumInv, TypeInv, TypeOK
    <3>. QED  BY <2>1, <3>2, <3>3, EmptySeq
  <2>3. NumsOf(Cur.f) \subseteq Cached
    <3>1. NPending(stack) = {}
      BY <1>7, <2>1, <2>2, NPendingEmpty DEF NCovers, Register
    <3>. QED  BY <1>7, <2>1, <3>1 DEF NumInv, NumRegCovered, Register
  <2>4. Cur.f # NoValue
    BY <2>1, ConstAssumption DEF Items
  <2>5. Registered' = Registered \cup {Cur.f.name}
    BY <1>7, <2>2, <2>4 DEF Register, Registered, NumInv, TypeInv, TypeOK
  <2>6. \A n \in Registered : NumsOf(filters[n]) \subseteq Cached
    BY CompleteIff DEF NumInv
  <2>7. (\A n \in Registered : NumsOf(filters[n]) \subseteq Cached)'
    BY <1>7, <2>2, <2>3, <2>5, <2>6 DEF Register, Cached, NumInv, TypeInv, TypeOK
  <2>8. NumCacheComplete'
    BY <1>1, <2>7, CompleteIffPrime
  <2>9. NumRegCovered'
    BY <1>7, <2>2, PendingEmpty DEF Register, NumRegCovered
  <2>. QED  BY <2>8, <2>9
<1>8. CASE Terminated \/ UNCHANGED vars
  BY <1>8 DEF Terminated, vars, NumInv, NumCacheComplete, NumRegCovered, Registered,
              NPending, Cached
<1>. QED  BY <1>2, <1>3, <1>4, <1>5, <1>6, <1>7, <1>8 DEF Next

(***************************************************************************)
(* NumCacheComplete for every policy: every GT/GE/LT/LE literal that match *)
(* evaluates in a registered filter has its parsed value in c.numCache, so *)
(* the lookup of filter.go 136 never silently yields 0.                    *)
(***************************************************************************)
THEOREM NumCacheAlwaysComplete == Spec => []NumCacheComplete
<1>1. Init => NumInv
  BY NumInvInit
<1>2. NumInv /\ [Next]_vars => NumInv'
  BY NumInvNext
<1>3. NumInv => NumCacheComplete
  BY DEF NumInv
<1>. QED  BY <1>1, <1>2, <1>3, PTL DEF Spec
=============================================================================
