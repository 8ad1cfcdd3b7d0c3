--------------------------- MODULE FiltersProofs ---------------------------
(***************************************************************************)
(* Proofs about the filter compilation of Filters (processFilters and      *)
(* processFilter, src/netmap/filter.go 23-84), for every value of the      *)
(* constants that satisfies ConstAssumption.                               *)
(***************************************************************************)
EXTENDS Filters, SequenceTheorems, TLAPS

(***************************************************************************)
(* Filters of smaller depth are filters of greater depth: an inner filter *)
(* of a Filter2 is again a Filter2, so processFilter's recursion stays in  *)
(* the type.                                                               *)
(***************************************************************************)
LEMMA FilterNesting == Filter0 \subseteq Filter1 /\ Filter1 \subseteq Filter2
<1>1. Filter0 \subseteq Filter1
  <2>1. <<>> \in Seq(Filter0)
    BY EmptySeq
  <2>. QED  BY <2>1 DEF Filter0, Filter1, FilterRec
<1>2. Seq(Filter0) \subseteq Seq(Filter1)
  BY <1>1, SeqMonotonic
<1>3. Filter1 \subseteq Filter2
  BY <1>2 DEF Filter1, Filter2, FilterRec
<1>. QED  BY <1>1, <1>3

\* The inner filters of a Filter2, as check items, are items.
LEMMA InnerChecks ==
  ASSUME NEW f \in Filter2
  PROVE  [k \in 1..Len(f.inner) |-> Check(f.inner[k], FALSE)] \in Seq(Items)
<1>1. f.inner \in Seq(Filter1)
  BY DEF Filter2, FilterRec
<1>2. \A k \in 1..Len(f.inner) : Check(f.inner[k], FALSE) \in Items
  BY <1>1, FilterNesting, ElementOfSeq DEF Check, Items
<1>3. Len(f.inner) \in Nat
  BY <1>1, LenProperties
<1>4. [k \in 1..Len(f.inner) |-> Check(f.inner[k], FALSE)] \in [1..Len(f.inner) -> Items]
  BY <1>2
<1>. QED  BY <1>3, <1>4, SeqDef

(***************************************************************************)
(* The shape of the work stack: a registration is the last item and names *)
(* a user filter, and a top-level check is the only item.                  *)
(***************************************************************************)
RegLast(s) == \A k \in DOMAIN s : s[k].kind = "reg" => k = Len(s) /\ s[k].f.name \in Names
NoTopCheck(s) == \A k \in DOMAIN s : s[k].kind = "check" => ~s[k].top
StackShape == RegLast(stack) /\ (Len(stack) = 1 \/ NoTopCheck(stack))

TypeInv == TypeOK /\ StackShape

\* Popping the head keeps the shape, and leaves no top-level check.
LEMMA TailShape ==
  ASSUME NEW s \in Seq(Items), s # <<>>, RegLast(s), Len(s) = 1 \/ NoTopCheck(s)
  PROVE  /\ Tail(s) \in Seq(Items)
         /\ RegLast(Tail(s))
         /\ NoTopCheck(Tail(s))
<1>1. /\ Tail(s) \in Seq(Items)
      /\ Len(Tail(s)) = Len(s) - 1
      /\ \A k \in 1..Len(Tail(s)) : Tail(s)[k] = s[k + 1]
  BY HeadTailProperties
<1>. QED  BY <1>1, LenProperties DEF RegLast, NoTopCheck

\* Non-top checks pushed on a well-shaped stack keep it well shaped.
LEMMA ConcatShape ==
  ASSUME NEW s \in Seq(Items), NEW t \in Seq(Items),
         \A k \in DOMAIN s : s[k].kind = "check" /\ ~s[k].top,
         RegLast(t), NoTopCheck(t)
  PROVE  /\ s \o t \in Seq(Items)
         /\ RegLast(s \o t)
         /\ NoTopCheck(s \o t)
<1>1. /\ s \o t \in Seq(Items)
      /\ Len(s \o t) = Len(s) + Len(t)
      /\ \A k \in 1..(Len(s) + Len(t)) :
           (s \o t)[k] = IF k <= Len(s) THEN s[k] ELSE t[k - Len(s)]
  BY ConcatProperties
<1>2. DOMAIN (s \o t) = 1..(Len(s) + Len(t)) /\ DOMAIN s = 1..Len(s) /\ DOMAIN t = 1..Len(t)
  BY <1>1, LenProperties
<1>3. RegLast(s \o t)
  <2>. SUFFICES ASSUME NEW k \in 1..(Len(s) + Len(t)), (s \o t)[k].kind = "reg"
                PROVE  k = Len(s \o t) /\ (s \o t)[k].f.name \in Names
    BY <1>2 DEF RegLast
  <2>1. CASE k <= Len(s)
    BY <1>1, <1>2, <2>1
  <2>2. CASE k > Len(s)
    <3>1. k - Len(s) \in DOMAIN t /\ t[k - Len(s)].kind = "reg"
      BY <1>1, <1>2, <2>2
    <3>. QED  BY <1>1, <3>1, <2>2 DEF RegLast
  <2>. QED  BY <2>1, <2>2
<1>4. NoTopCheck(s \o t)
  BY <1>1, <1>2 DEF NoTopCheck
<1>. QED  BY <1>1, <1>3, <1>4

\* The name checks passed for an item: its name is a user name or empty.
LEMMA NameOK ==
  ASSUME NEW it \in Items, NameError(it) = NoError
  PROVE  /\ it.f.name # MainFilterName
         /\ it.top => it.f.name \in Names
         /\ IsRef(it) => it.f.name \in Names /\ filters[it.f.name] # NoValue
BY ConstAssumption DEF NameError, Items, Filter2, FilterRec, FilterNames, IsRef,
                       NoError

\* What remains of the stack after the head item is done: its registration
\* if it was the top-level filter, then the rest.
LEMMA ThenShape ==
  ASSUME TypeInv, stack # <<>>, Cur.kind = "check", NameError(Cur) = NoError
  PROVE  /\ Then(Cur) \o Tail(stack) \in Seq(Items)
         /\ RegLast(Then(Cur) \o Tail(stack))
         /\ NoTopCheck(Then(Cur) \o Tail(stack))
<1>. USE DEF TypeInv, TypeOK, StackShape
<1>1. Cur \in Items
  BY HeadTailProperties DEF Cur
<1>2. CASE Cur.top
  <2>1. Len(stack) = 1
    <3>1. 1 \in DOMAIN stack /\ Cur = stack[1]
      BY LenProperties, EmptySeq DEF Cur
    <3>. QED  BY <1>2, <3>1 DEF NoTopCheck
  <2>2. Tail(stack) = <<>>
    <3>1. Tail(stack) \in Seq(Items) /\ Len(Tail(stack)) = 0
      BY <2>1, HeadTailProperties
    <3>. QED  BY <3>1, EmptySeq
  <2>3. Cur.f.name \in Names
    BY <1>1, <1>2, NameOK
  <2>4. Reg(Cur.f) \in Items
    BY <1>1 DEF Reg, Items
  <2>. QED  BY <1>2, <2>2, <2>3, <2>4, ConcatEmptySeq DEF Then, Reg, RegLast, NoTopCheck
<1>3. CASE ~Cur.top
  <2>1. Then(Cur) = <<>>
    BY <1>3 DEF Then
  <2>2. Tail(stack) \in Seq(Items)
    BY HeadTailProperties
  <2>. QED  BY <2>1, <2>2, TailShape, ConcatEmptySeq
<1>. QED  BY <1>2, <1>3


\* An error empties the stack.
LEMMA FailInv ==
  ASSUME TypeInv, NEW e \in Errors, Fail(e)
  PROVE  TypeInv'
BY EmptySeq DEF Fail, TypeInv, TypeOK, StackShape, RegLast, NoTopCheck

\* Concatenation of item sequences is associative.
LEMMA ItemsConcatAssoc ==
  ASSUME NEW a \in Seq(Items), NEW b \in Seq(Items), NEW c \in Seq(Items)
  PROVE  (a \o b) \o c = a \o (b \o c)
BY ConcatAssociative

LEMMA TypeInvInit == Init => TypeInv
BY ConstAssumption, EmptySeq, LenProperties
   DEF Init, TypeInv, TypeOK, StackShape, RegLast, NoTopCheck, NoError, Errors

LEMMA TypeInvNext == TypeInv /\ [Next]_vars => TypeInv'
<1>. SUFFICES ASSUME TypeInv, [Next]_vars PROVE TypeInv'
  OBVIOUS
<1>. USE DEF TypeInv, TypeOK, StackShape
<1>0. stack # <<>> => Cur \in Items
  BY HeadTailProperties DEF Cur
<1>1. CASE StartFilter
  <2>1. policy[i] \in Filter2
    BY <1>1, ElementOfSeq DEF StartFilter
  <2>2. <<Check(policy[i], TRUE)>> \in Seq(Items)
    BY <2>1 DEF Check, Items
  <2>. QED  BY <1>1, <2>2, LenProperties DEF StartFilter, RegLast, Check
<1>2. CASE RejectName
  <2>1. NameError(Cur) \in Errors
    BY <1>2 DEF RejectName, NameError, Errors
  <2>. QED  BY <1>2, <2>1, FailInv DEF RejectName
<1>3. CASE ExpandGroup
  <2>. DEFINE kids == [k \in 1..Len(Cur.f.inner) |-> Check(Cur.f.inner[k], FALSE)]
              rest == Then(Cur) \o Tail(stack)
  <2>1. kids \in Seq(Items)
    BY <1>0, <1>3, InnerChecks DEF ExpandGroup, Items
  <2>2. \A k \in DOMAIN kids : kids[k].kind = "check" /\ ~kids[k].top
    BY DEF Check
  <2>3. rest \in Seq(Items) /\ RegLast(rest) /\ NoTopCheck(rest)
    BY <1>3, ThenShape DEF ExpandGroup
  <2>4. stack' = kids \o rest
    <3>1. Reg(Cur.f) \in Items
      BY <1>0, <1>3 DEF ExpandGroup, Reg, Items
    <3>2. Then(Cur) \in Seq(Items)
      BY <3>1, EmptySeq DEF Then
    <3>3. Tail(stack) \in Seq(Items)
      BY <1>3, HeadTailProperties DEF ExpandGroup
    <3>. QED  BY <1>3, <2>1, <3>2, <3>3, ItemsConcatAssoc DEF ExpandGroup, rest
  <2>. QED  BY <1>3, <2>1, <2>2, <2>3, <2>4, ConcatShape DEF ExpandGroup
<1>4. CASE RejectInner
  BY <1>4, FailInv DEF RejectInner, Errors
<1>5. CASE SkipReference
  BY <1>5, TailShape DEF SkipReference
<1>6. CASE AcceptLeaf
  <2>1. numCache' \in [Literals -> Nat \cup {NoValue}]
    BY <1>0, <1>6, ConstAssumption DEF AcceptLeaf, Items, Filter2, FilterRec
  <2>. QED  BY <1>6, <2>1, ThenShape DEF AcceptLeaf
<1>7. CASE RejectLeaf
  BY <1>7, FailInv DEF RejectLeaf, Errors
<1>8. CASE Register
  <2>1. Cur.f.name \in Names /\ Cur.f \in Filter2
    <3>1. 1 \in DOMAIN stack /\ Cur = stack[1]
      BY <1>8, LenProperties, EmptySeq DEF Register, Cur
    <3>. QED  BY <1>0, <1>8, <3>1 DEF Register, RegLast, Items
  <2>2. filters' \in [Names -> Filter2 \cup {NoValue}]
    BY <1>8, <2>1 DEF Register
  <2>. QED  BY <1>8, <2>2, TailShape DEF Register
<1>9. CASE Terminated \/ UNCHANGED vars
  BY <1>9 DEF Terminated, vars
<1>. QED  BY <1>1, <1>2, <1>3, <1>4, <1>5, <1>6, <1>7, <1>8, <1>9 DEF Next

(***************************************************************************)
(* Type correctness: processFilters keeps the name table, the number cache *)
(* and the recursion within their types for every policy of filters of    *)
(* depth two, whatever the names, keys and literals.                       *)
(***************************************************************************)
THEOREM TypeCorrect == Spec => []TypeOK
<1>1. Init => TypeInv
  BY TypeInvInit
<1>2. TypeInv /\ [Next]_vars => TypeInv'
  BY TypeInvNext
<1>3. TypeInv => TypeOK
  BY DEF TypeInv
<1>. QED  BY <1>1, <1>2, <1>3, PTL DEF Spec

-----------------------------------------------------------------------------
(***************************************************************************)
(* RefsResolved.  A registration is preceded, on the stack, by the checks  *)
(* of the inner filters of the filter it registers.  Each pending check    *)
(* will verify some names: a reference its own name (the FilterNotFound    *)
(* check), an inline filter the names it refers to.  The strengthening     *)
(* RegCovered says the names a pending registration refers to are         *)
(* registered or will be verified before it.                              *)
(***************************************************************************)
Covers(it) ==
  IF it.kind = "reg" THEN {} ELSE IF IsRef(it) THEN {it.f.name} ELSE RefsOf(it.f)
Pending(s) == UNION {Covers(x) : x \in Range(s)}
RegCovered ==
  \A r \in Range(stack) : r.kind = "reg" => RefsOf(r.f) \subseteq Registered \cup Pending(stack)

RefInv == TypeInv /\ RefsResolved /\ RegCovered

\* The names an AND/OR refers to are covered by the checks of its inner
\* filters: a named inner filter covers its name, an unnamed one what it
\* refers to.
LEMMA ExpandCovers ==
  ASSUME NEW g \in Filter2, g.op \in BoolOps
  PROVE  RefsOf(g) \subseteq Pending([k \in 1..Len(g.inner) |-> Check(g.inner[k], FALSE)])
<1>. DEFINE kids == [k \in 1..Len(g.inner) |-> Check(g.inner[k], FALSE)]
<1>1. g.inner \in Seq(Filter1)
  BY DEF Filter2, FilterRec
<1>2. Kids(g) = {g.inner[k] : k \in 1..Len(g.inner)}
  BY <1>1, LenProperties DEF Kids
<1>3. \A k \in 1..Len(g.inner) : Check(g.inner[k], FALSE) \in Range(kids)
  BY DEF Range
<1>4. \A c \in Kids(g) : Covers(Check(c, FALSE)) \subseteq Pending(kids)
  BY <1>2, <1>3 DEF Pending
<1>. SUFFICES ASSUME NEW x \in RefsOf(g) PROVE x \in Pending(kids)
  OBVIOUS
<1>5. PICK h \in InlineNodes(g) : \E c \in Kids(h) : x = c.name /\ x # Anon
  BY DEF RefsOf
<1>9. PICK c \in Kids(h) : x = c.name /\ x # Anon
  BY <1>5
<1>6. CASE h = g
  <2>1. Covers(Check(c, FALSE)) = {c.name}
    BY <1>9 DEF Covers, Check, IsRef
  <2>. QED  BY <1>4, <1>9, <1>6, <2>1
<1>7. CASE h \in InlineKids(g)
  <2>1. Covers(Check(h, FALSE)) = RefsOf(h)
    BY <1>7 DEF InlineKids, Covers, Check, IsRef
  <2>2. x \in RefsOf(h)
    BY <1>9 DEF RefsOf, InlineNodes
  <2>. QED  BY <1>4, <1>7, <2>1, <2>2 DEF InlineKids
<1>8. CASE h \notin {g} \cup InlineKids(g)
  <2>1. PICK d \in InlineKids(g) : h \in InlineKids(d)
    BY <1>8 DEF InlineNodes
  <2>2. Covers(Check(d, FALSE)) = RefsOf(d)
    BY <2>1 DEF InlineKids, Covers, Check, IsRef
  <2>3. x \in RefsOf(d)
    BY <1>9, <2>1 DEF RefsOf, InlineNodes
  <2>. QED  BY <1>4, <2>1, <2>2, <2>3 DEF InlineKids
<1>. QED  BY <1>6, <1>7, <1>8

\* Pending names of a concatenation, of a stack split at its head, of the
\* empty stack.
LEMMA PendingConcat ==
  ASSUME NEW s \in Seq(Items), NEW t \in Seq(Items)
  PROVE  /\ Range(s \o t) = Range(s) \cup Range(t)
         /\ Pending(s \o t) = Pending(s) \cup Pending(t)
<1>1. Range(s \o t) = Range(s) \cup Range(t)
  BY RangeConcatenation
<1>. QED  BY <1>1 DEF Pending

LEMMA PendingHead ==
  ASSUME NEW s \in Seq(Items), s # <<>>
  PROVE  /\ Range(s) = {Head(s)} \cup Range(Tail(s))
         /\ Pending(s) = Covers(Head(s)) \cup Pending(Tail(s))
<1>1. Range(s) = {Head(s)} \cup Range(Tail(s))
  <2>1. /\ Len(s) \in Nat \ {0} /\ DOMAIN s = 1..Len(s)
        /\ Len(Tail(s)) = Len(s) - 1 /\ DOMAIN Tail(s) = 1..(Len(s) - 1)
        /\ \A k \in 1..(Len(s) - 1) : Tail(s)[k] = s[k + 1]
        /\ Head(s) = s[1]
    BY EmptySeq, LenProperties, HeadTailProperties
  <2>2. Range(s) \subseteq {Head(s)} \cup Range(Tail(s))
    <3>. SUFFICES ASSUME NEW k \in 1..Len(s) PROVE s[k] \in {Head(s)} \cup Range(Tail(s))
      BY <2>1 DEF Range
    <3>1. CASE k = 1
      BY <2>1, <3>1
    <3>2. CASE k > 1
      <4>1. k - 1 \in DOMAIN Tail(s) /\ Tail(s)[k - 1] = s[k]
        BY <2>1, <3>2
      <4>. QED  BY <4>1 DEF Range
    <3>. QED  BY <2>1, <3>1, <3>2
  <2>3. {Head(s)} \cup Range(Tail(s)) \subseteq Range(s)
    BY <2>1 DEF Range
  <2>. QED  BY <2>2, <2>3
<1>. QED  BY <1>1 DEF Pending

LEMMA RangeOne == \A x : Range(<<x>>) = {x}
BY DEF Range

LEMMA PendingEmpty == Range(<<>>) = {} /\ Pending(<<>>) = {}
BY DEF Range, Pending

(***************************************************************************)
(* A step that leaves c.Filters alone keeps RefsResolved and RegCovered    *)
(* when the names pending before are registered or pending after, and    *)
(* every registration left on the stack refers only to names that were     *)
(* registered or pending before.                                           *)
(***************************************************************************)
LEMMA CoveredStep ==
  ASSUME RefInv, filters' = filters,
         Pending(stack) \subseteq Registered \cup Pending(stack'),
         \A r \in Range(stack') : r.kind = "reg" => RefsOf(r.f) \subseteq Registered \cup Pending(stack)
  PROVE  RefsResolved' /\ RegCovered'
<1>1. Registered' = Registered
  BY DEF Registered
<1>. QED  BY <1>1 DEF RefInv, RefsResolved, RegCovered

\* A leaf refers to no name.
LEMMA LeafRefs ==
  ASSUME NEW it \in Items, IsLeaf(it)
  PROVE  RefsOf(it.f) = {} /\ Covers(it) = {}
<1>1. Kids(it.f) = {}
  BY DEF IsLeaf, Kids
<1>2. InlineNodes(it.f) = {it.f}
  BY <1>1 DEF InlineNodes, InlineKids
<1>3. RefsOf(it.f) = {}
  BY <1>1, <1>2 DEF RefsOf
<1>. QED  BY <1>3 DEF Covers, IsLeaf

\* The checks of the inner filters of f, as ExpandGroup pushes them.
ChecksOf(f) == [k \in 1..Len(f.inner) |-> Check(f.inner[k], FALSE)]

\* ExpandGroup replaces the head by the checks of its inner filters,
\* followed by the rest of the stack (after the registration, for a top-level filter).
LEMMA ExpandGroupStack ==
  ASSUME TypeInv, ExpandGroup
  PROVE  /\ Cur \in Items /\ Cur.f \in Filter2
         /\ ChecksOf(Cur.f) \in Seq(Items)
         /\ Then(Cur) \in Seq(Items) /\ Tail(stack) \in Seq(Items)
         /\ stack' = ChecksOf(Cur.f) \o (Then(Cur) \o Tail(stack))
<1>. USE DEF TypeInv, TypeOK
<1>0. stack # <<>>
  BY DEF ExpandGroup
<1>1. Cur \in Items /\ Cur.f \in Filter2
  <2>1. Cur \in Items
    BY <1>0, HeadTailProperties DEF Cur
  <2>. QED  BY <2>1 DEF Items
<1>2. ChecksOf(Cur.f) \in Seq(Items)
  BY <1>1, InnerChecks DEF ChecksOf
<1>3. Then(Cur) \in Seq(Items)
  <2>1. Reg(Cur.f) \in Items
    BY <1>1 DEF Reg, Items
  <2>. QED  BY <2>1, EmptySeq DEF Then
<1>4. Tail(stack) \in Seq(Items)
  BY <1>0, HeadTailProperties
<1>. QED  BY <1>1, <1>2, <1>3, <1>4, ItemsConcatAssoc DEF ExpandGroup, ChecksOf

\* What Then(it) leaves on the stack.
LEMMA ThenRange ==
  ASSUME NEW it \in Items
  PROVE  /\ Range(Then(it)) = IF it.top THEN {Reg(it.f)} ELSE {}
         /\ Pending(Then(it)) = {}
<1>1. Range(Then(it)) = IF it.top THEN {Reg(it.f)} ELSE {}
  BY DEF Then, Range
<1>. QED  BY <1>1 DEF Pending, Covers, Reg

\* The head of a non-empty stack, and the split of its pending names.
LEMMA HeadFacts ==
  ASSUME TypeInv, stack # <<>>
  PROVE  /\ Cur \in Items /\ Cur \in Range(stack)
         /\ Tail(stack) \in Seq(Items)
         /\ Range(stack) = {Cur} \cup Range(Tail(stack))
         /\ Pending(stack) = Covers(Cur) \cup Pending(Tail(stack))
BY PendingHead, HeadTailProperties DEF Cur, TypeInv, TypeOK

\* An error leaves c.Filters alone and empties the stack.
LEMMA FailRef ==
  ASSUME RefInv, NEW e, Fail(e)
  PROVE  RefsResolved' /\ RegCovered'
<1>1. Registered' = Registered
  BY DEF Fail, Registered
<1>. QED  BY <1>1, PendingEmpty DEF Fail, RefInv, RefsResolved, RegCovered

LEMMA RefInvInit == Init => RefInv
<1>. SUFFICES ASSUME Init PROVE RefInv
  OBVIOUS
<1>1. TypeInv
  BY TypeInvInit
<1>2. Registered = {}
  BY DEF Init, Registered
<1>. QED  BY <1>1, <1>2, PendingEmpty DEF Init, RefInv, RefsResolved, RegCovered

LEMMA RefInvNext == RefInv /\ [Next]_vars => RefInv'
<1>. SUFFICES ASSUME RefInv, [Next]_vars PROVE RefInv'
  OBVIOUS
<1>1. TypeInv'
  BY TypeInvNext DEF RefInv
<1>. SUFFICES RefsResolved' /\ RegCovered'
  BY <1>1 DEF RefInv
<1>2. CASE StartFilter
  <2>1. Pending(stack) = {}
    BY <1>2, PendingEmpty DEF StartFilter
  <2>2. Range(stack') = {Check(policy[i], TRUE)}
    BY <1>2, RangeOne DEF StartFilter
  <2>3. \A r \in Range(stack') : r.kind # "reg"
    BY <2>2 DEF Check
  <2>4. filters' = filters
    BY <1>2 DEF StartFilter
  <2>. QED  BY <2>1, <2>3, <2>4, CoveredStep
<1>3. CASE RejectName \/ RejectInner \/ RejectLeaf
  BY <1>3, FailRef DEF RejectName, RejectInner, RejectLeaf
<1>4. CASE ExpandGroup
  <2>. DEFINE kids == ChecksOf(Cur.f)
  <2>1. /\ Cur \in Items /\ Cur.f \in Filter2 /\ kids \in Seq(Items)
        /\ Then(Cur) \in Seq(Items) /\ Tail(stack) \in Seq(Items)
        /\ stack' = kids \o (Then(Cur) \o Tail(stack))
    BY <1>4, ExpandGroupStack DEF RefInv
  <2>2. /\ Range(stack') = Range(kids) \cup Range(Then(Cur)) \cup Range(Tail(stack))
        /\ Pending(stack') = Pending(kids) \cup Pending(Then(Cur)) \cup Pending(Tail(stack))
    <3>1. Then(Cur) \o Tail(stack) \in Seq(Items)
      BY <2>1, ConcatProperties
    <3>2. /\ Range(kids \o (Then(Cur) \o Tail(stack))) = Range(kids) \cup Range(Then(Cur) \o Tail(stack))
          /\ Pending(kids \o (Then(Cur) \o Tail(stack))) = Pending(kids) \cup Pending(Then(Cur) \o Tail(stack))
      BY <2>1, <3>1, PendingConcat
    <3>3. /\ Range(Then(Cur) \o Tail(stack)) = Range(Then(Cur)) \cup Range(Tail(stack))
          /\ Pending(Then(Cur) \o Tail(stack)) = Pending(Then(Cur)) \cup Pending(Tail(stack))
      BY <2>1, PendingConcat
    <3>. QED  BY <2>1, <3>2, <3>3
  <2>3. /\ Range(stack) = {Cur} \cup Range(Tail(stack))
        /\ Pending(stack) = Covers(Cur) \cup Pending(Tail(stack))
        /\ Cur \in Range(stack)
    BY <1>4, HeadFacts DEF ExpandGroup, RefInv
  <2>4. Covers(Cur) \subseteq Registered \cup Pending(kids)
    <3>1. CASE IsRef(Cur)
      <4>1. Cur.f.name \in Names /\ filters[Cur.f.name] # NoValue
        BY <1>4, <2>1, <3>1, NameOK DEF ExpandGroup
      <4>. QED  BY <1>4, <3>1, <4>1 DEF Covers, Registered, ExpandGroup
    <3>2. CASE ~IsRef(Cur)
      <4>1. Covers(Cur) = RefsOf(Cur.f)
        BY <1>4, <3>2 DEF Covers, ExpandGroup
      <4>. QED  BY <1>4, <2>1, <4>1, ExpandCovers DEF ExpandGroup, ChecksOf
    <3>. QED  BY <3>1, <3>2
  <2>5. Pending(Then(Cur)) = {}
    BY <2>1, ThenRange
  <2>6. \A r \in Range(stack') :
          r.kind = "reg" => RefsOf(r.f) \subseteq Registered \cup Pending(stack)
    <3>. SUFFICES ASSUME NEW r \in Range(stack'), r.kind = "reg"
                  PROVE  RefsOf(r.f) \subseteq Registered \cup Pending(stack)
      OBVIOUS
    <3>1. CASE r \in Range(kids)
      <4>1. \A x \in Range(kids) : x.kind = "check"
        <5>. SUFFICES ASSUME NEW x \in Range(kids) PROVE x.kind = "check"
          OBVIOUS
        <5>1. PICK k \in 1..Len(Cur.f.inner) : x = kids[k]
          BY DEF Range, ChecksOf, kids
        <5>. QED  BY <5>1 DEF ChecksOf, Check, kids
      <4>. QED  BY <3>1, <4>1
    <3>2. CASE r \in Range(Then(Cur))
      <4>1. Cur.top /\ r = Reg(Cur.f)
        BY <2>1, <3>2, ThenRange
      <4>2. Covers(Cur) = RefsOf(Cur.f)
        BY <1>4, <4>1 DEF Covers, IsRef, ExpandGroup
      <4>. QED  BY <2>3, <4>1, <4>2 DEF Reg
    <3>3. CASE r \in Range(Tail(stack))
      BY <2>3, <3>3 DEF RefInv, RegCovered
    <3>. QED  BY <2>2, <3>1, <3>2, <3>3
  <2>. QED  BY <1>4, <2>2, <2>3, <2>4, <2>5, <2>6, CoveredStep DEF ExpandGroup
<1>5. CASE AcceptLeaf
  <2>1. Cur \in Items /\ Tail(stack) \in Seq(Items)
        /\ Range(stack) = {Cur} \cup Range(Tail(stack))
        /\ Pending(stack) = Covers(Cur) \cup Pending(Tail(stack))
    BY <1>5, HeadFacts DEF AcceptLeaf, RefInv
  <2>2. RefsOf(Cur.f) = {} /\ Covers(Cur) = {}
    BY <1>5, <2>1, LeafRefs DEF AcceptLeaf
  <2>3. Then(Cur) \in Seq(Items)
    <3>1. Reg(Cur.f) \in Items
      BY <2>1 DEF Reg, Items
    <3>. QED  BY <3>1, EmptySeq DEF Then
  <2>4. /\ Range(stack') = Range(Then(Cur)) \cup Range(Tail(stack))
        /\ Pending(stack') = Pending(Then(Cur)) \cup Pending(Tail(stack))
    BY <1>5, <2>1, <2>3, PendingConcat DEF AcceptLeaf
  <2>5. \A r \in Range(stack') :
          r.kind = "reg" => RefsOf(r.f) \subseteq Registered \cup Pending(stack)
    <3>. SUFFICES ASSUME NEW r \in Range(stack'), r.kind = "reg"
                  PROVE  RefsOf(r.f) \subseteq Registered \cup Pending(stack)
      OBVIOUS
    <3>1. CASE r \in Range(Then(Cur))
      BY <2>1, <2>2, <3>1, ThenRange DEF Reg
    <3>2. CASE r \in Range(Tail(stack))
      BY <2>1, <3>2 DEF RefInv, RegCovered
    <3>. QED  BY <2>4, <3>1, <3>2
  <2>. QED  BY <1>5, <2>1, <2>2, <2>4, <2>5, ThenRange, CoveredStep DEF AcceptLeaf
<1>6. CASE SkipReference
  <2>1. Cur \in Items /\ Tail(stack) \in Seq(Items)
        /\ Range(stack) = {Cur} \cup Range(Tail(stack))
        /\ Pending(stack) = Covers(Cur) \cup Pending(Tail(stack))
    BY <1>6, HeadFacts DEF SkipReference, RefInv
  <2>2. Covers(Cur) \subseteq Registered
    <3>1. Cur.f.name \in Names /\ filters[Cur.f.name] # NoValue
      BY <1>6, <2>1, NameOK DEF SkipReference
    <3>. QED  BY <1>6, <3>1 DEF Covers, Registered, SkipReference
  <2>. QED  BY <1>6, <2>1, <2>2, CoveredStep DEF SkipReference, RefInv, RegCovered
<1>7. CASE Register
  <2>1. Cur \in Items /\ Tail(stack) \in Seq(Items)
        /\ Range(stack) = {Cur} \cup Range(Tail(stack))
        /\ Pending(stack) = Covers(Cur) \cup Pending(Tail(stack))
    BY <1>7, HeadFacts DEF Register, RefInv
  <2>2. Tail(stack) = <<>> /\ Cur.f.name \in Names
    <3>1. 1 \in DOMAIN stack /\ Cur = stack[1] /\ Len(stack) \in Nat
      BY <1>7, LenProperties, EmptySeq DEF Register, Cur, RefInv, TypeInv, TypeOK
    <3>2. Len(stack) = 1 /\ Cur.f.name \in Names
      BY <1>7, <3>1 DEF Register, RefInv, TypeInv, StackShape, RegLast
    <3>3. Len(Tail(stack)) = 0
      BY <1>7, <3>2, HeadTailProperties DEF Register, RefInv, TypeInv, TypeOK
    <3>. QED  BY <2>1, <3>2, <3>3, EmptySeq
  <2>3. RefsOf(Cur.f) \subseteq Registered
    <3>1. Pending(stack) = {}
      BY <1>7, <2>1, <2>2, PendingEmpty DEF Covers, Register
    <3>. QED  BY <1>7, <2>1, <3>1 DEF RefInv, RegCovered, Register
  <2>4. Cur.f # NoValue /\ Cur.f \in Filter2
    BY <2>1, ConstAssumption DEF Items
  <2>5. Registered' = Registered \cup {Cur.f.name}
    BY <1>7, <2>2, <2>4 DEF Register, Registered, RefInv, TypeInv, TypeOK
  <2>6. RefsResolved'
    BY <1>7, <2>2, <2>3, <2>5 DEF Register, RefsResolved, RefInv, TypeInv, TypeOK
  <2>7. RegCovered'
    BY <1>7, <2>2, PendingEmpty DEF Register, RegCovered
  <2>. QED  BY <2>6, <2>7
<1>8. CASE Terminated \/ UNCHANGED vars
  BY <1>8 DEF Terminated, vars, RefInv, RefsResolved, RegCovered, Registered, Pending
<1>. QED  BY <1>2, <1>3, <1>4, <1>5, <1>6, <1>7, <1>8 DEF Next

(***************************************************************************)
(* RefsResolved for every policy: every name match looks up in a          *)
(* registered filter (`*c.Filters[lf.Name()]`, filter.go 94) names a       *)
(* registered filter, so the lookup never dereferences a nil pointer.      *)
(***************************************************************************)
THEOREM RefsAlwaysResolved == Spec => []RefsResolved
<1>1. Init => RefInv
  BY RefInvInit
<1>2. RefInv /\ [Next]_vars => RefInv'
  BY RefInvNext
<1>3. RefInv => RefsResolved
  BY DEF RefInv
<1>. QED  BY <1>1, <1>2, <1>3, PTL DEF Spec

=============================================================================
