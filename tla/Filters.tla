------------------------------ MODULE Filters ------------------------------
(***************************************************************************)
(* Filter compilation of the placement engine: context.processFilters and  *)
(* context.processFilter (src/netmap/filter.go).                           *)
(*                                                                         *)
(* processFilters walks the top-level filters of a policy in declaration   *)
(* order; processFilter validates one filter and, for AND/OR, recurses     *)
(* into its inner filters before the top-level filter is registered in the *)
(* name table c.Filters.  The recursion is modelled as an explicit stack   *)
(* of pending work items, so that every check happens as a step of its     *)
(* own and in the code's order: the name checks, then the inner filters    *)
(* depth first, then the registration.  The first error ends the walk.    *)
(*                                                                         *)
(* Filters are records of nesting depth at most two (a top-level filter,   *)
(* its inner filters and theirs), which is what the model's inputs use.   *)
(***************************************************************************)
EXTENDS Naturals, Sequences

CONSTANTS
  \* User filter names (non-empty and different from "*"), e.g. {"A", "B"}.
  Names,
  \* Attribute keys a filter may compare, e.g. {"", "Rating"}.
  Keys,
  \* String literals a filter may carry as its value, e.g. {"", "4", "x"}.
  Literals,
  \* strconv.ParseUint(l, 10, 64) for every literal: a number, or NoValue
  \* when the literal is not a decimal unsigned 64-bit integer.
  ParseUint,
  \* A value different from every number, filter and name.
  NoValue,
  \* The policies (sequences of top-level filters) the model starts from.
  Policies

\* MainFilterName and the empty (anonymous) name.
MainFilterName == "*"
Anon == ""

FilterNames == Names \cup {MainFilterName, Anon}

\* The operations of netmap.Operation; "UNSPEC" stands for 0 and for every
\* value outside the defined set.
BoolOps == {"AND", "OR"}
StrOps  == {"EQ", "NE"}
NumOps  == {"GT", "GE", "LT", "LE"}
Ops     == BoolOps \cup StrOps \cup NumOps \cup {"UNSPEC"}

FilterRec(Inner) ==
  [name : FilterNames, key : Keys, value : Literals, op : Ops, inner : Inner]
Filter0 == FilterRec({<<>>})
Filter1 == FilterRec(Seq(Filter0))
Filter2 == FilterRec(Seq(Filter1))

Errors == {"InvalidFilterName", "UnnamedTopFilter", "FilterNotFound",
           "NonEmptyFilters", "InvalidNumber", "InvalidFilterOp"}
NoError == "none"

ASSUME ConstAssumption ==
  /\ MainFilterName \notin Names /\ Anon \notin Names
  /\ Anon \in Keys /\ Anon \in Literals
  /\ ParseUint \in [Literals -> Nat \cup {NoValue}]
  /\ NoValue \notin Nat /\ NoValue \notin Filter2
  /\ Policies \subseteq Seq(Filter2)

VARIABLES
  policy,    \* the policy being compiled (p.Filters()), never changed
  filters,   \* c.Filters: name -> registered top-level filter, or NoValue
  numCache,  \* c.numCache: literal -> parsed number, or NoValue
  i,         \* index of the next top-level filter in processFilters
  stack,     \* pending work of the current processFilter call
  err        \* the error returned so far, or NoError

vars == <<policy, filters, numCache, i, stack, err>>

\* A work item: check a filter (processFilter(f, top)), or register a
\* top-level filter whose inner filters all passed (c.Filters[name] = f).
Items == [kind : {"check", "reg"}, f : Filter2, top : BOOLEAN]
Check(f, top) == [kind |-> "check", f |-> f, top |-> top]
Reg(f) == [kind |-> "reg", f |-> f, top |-> TRUE]

Registered == {n \in Names : filters[n] # NoValue}

TypeOK ==
  /\ policy \in Seq(Filter2)
  /\ filters \in [Names -> Filter2 \cup {NoValue}]
  /\ numCache \in [Literals -> Nat \cup {NoValue}]
  /\ i \in 1..(Len(policy) + 1)
  /\ stack \in Seq(Items)
  /\ err \in Errors \cup {NoError}

Init ==
  /\ policy \in Policies
  /\ filters = [n \in Names |-> NoValue]
  /\ numCache = [l \in Literals |-> NoValue]
  /\ i = 1
  /\ stack = <<>>
  /\ err = NoError

\* Mutant: the loop index advanced twice (a filter skipped).
StartFilterSkip ==
  /\ err = NoError
  /\ stack = <<>>
  /\ i <= Len(policy)
  /\ stack' = <<Check(policy[i], TRUE)>>
  /\ i' = i + 2
  /\ UNCHANGED <<policy, filters, numCache, err>>

(***************************************************************************)
(* processFilters: the loop takes the next top-level filter once the       *)
(* previous one is done, and stops at the first error.                     *)
(***************************************************************************)
StartFilter ==
  /\ err = NoError
  /\ stack = <<>>
  /\ i <= Len(policy)
  /\ stack' = <<Check(policy[i], TRUE)>>
  /\ i' = i + 1
  /\ UNCHANGED <<policy, filters, numCache, err>>

\* An error returns from every level of the recursion at once.
Fail(e) ==
  /\ err' = e
  /\ stack' = <<>>
  /\ UNCHANGED <<policy, filters, numCache, i>>

\* The item processFilter works on, and the facts its checks read.
Cur == Head(stack)
IsRef(it) == ~it.top /\ it.f.name # Anon

\* Mutant: the c.Filters lookup of an inner named filter dropped.
NameErrorNoLookup(it) ==
  IF it.f.name = MainFilterName THEN "InvalidFilterName"
  ELSE IF it.top /\ it.f.name = Anon THEN "UnnamedTopFilter"
  ELSE NoError

(***************************************************************************)
(* processFilter, the name checks (filter.go lines 39-49): the reserved    *)
(* name, an unnamed top-level filter, an inner named filter that does not  *)
(* name an already registered filter.                                      *)
(***************************************************************************)
NameError(it) ==
  IF it.f.name = MainFilterName THEN "InvalidFilterName"
  ELSE IF it.top /\ it.f.name = Anon THEN "UnnamedTopFilter"
  ELSE IF IsRef(it) /\ filters[it.f.name] = NoValue THEN "FilterNotFound"
  ELSE NoError

RejectName ==
  /\ stack # <<>> /\ Cur.kind = "check"
  /\ NameError(Cur) # NoError
  /\ Fail(NameError(Cur))

\* After the item itself, a top-level filter still has to be registered.
Then(it) == IF it.top THEN <<Reg(it.f)>> ELSE <<>>

\* Mutant: a top-level AND/OR registered before its inner filters are checked.
ExpandGroupRegisterFirst ==
  /\ stack # <<>> /\ Cur.kind = "check"
  /\ NameError(Cur) = NoError
  /\ Cur.f.op \in BoolOps
  /\ stack' = Then(Cur) \o [k \in 1..Len(Cur.f.inner) |-> Check(Cur.f.inner[k], FALSE)]
                \o Tail(stack)
  /\ UNCHANGED <<policy, filters, numCache, i, err>>

\* AND/OR: the inner filters are processed in order, as non-top filters.
ExpandGroup ==
  /\ stack # <<>> /\ Cur.kind = "check"
  /\ NameError(Cur) = NoError
  /\ Cur.f.op \in BoolOps
  /\ stack' = [k \in 1..Len(Cur.f.inner) |-> Check(Cur.f.inner[k], FALSE)]
                \o Then(Cur) \o Tail(stack)
  /\ UNCHANGED <<policy, filters, numCache, i, err>>

\* A non-boolean filter with inner filters.
RejectInner ==
  /\ stack # <<>> /\ Cur.kind = "check"
  /\ NameError(Cur) = NoError
  /\ Cur.f.op \notin BoolOps
  /\ Cur.f.inner # <<>>
  /\ Fail("NonEmptyFilters")

\* A named inner filter is a reference: nothing else of it is checked.
SkipReference ==
  /\ stack # <<>> /\ Cur.kind = "check"
  /\ NameError(Cur) = NoError
  /\ Cur.f.op \notin BoolOps
  /\ Cur.f.inner = <<>>
  /\ IsRef(Cur)
  /\ stack' = Tail(stack)
  /\ UNCHANGED <<policy, filters, numCache, i, err>>

\* A leaf filter to be checked by its operation.
IsLeaf(it) ==
  /\ it.f.op \notin BoolOps
  /\ it.f.inner = <<>>
  /\ ~IsRef(it)

\* Mutant: the parsed number checked but not stored in c.numCache.
AcceptLeafNoCache ==
  /\ stack # <<>> /\ Cur.kind = "check"
  /\ NameError(Cur) = NoError
  /\ IsLeaf(Cur)
  /\ \/ Cur.f.op \in StrOps
     \/ Cur.f.op \in NumOps /\ ParseUint[Cur.f.value] # NoValue
  /\ stack' = Then(Cur) \o Tail(stack)
  /\ UNCHANGED <<policy, filters, numCache, i, err>>

\* EQ/NE take any value; GT/GE/LT/LE cache the parsed value.
AcceptLeaf ==
  /\ stack # <<>> /\ Cur.kind = "check"
  /\ NameError(Cur) = NoError
  /\ IsLeaf(Cur)
  /\ \/ /\ Cur.f.op \in StrOps
        /\ UNCHANGED numCache
     \/ /\ Cur.f.op \in NumOps
        /\ ParseUint[Cur.f.value] # NoValue
        /\ numCache' = [numCache EXCEPT ![Cur.f.value] = ParseUint[Cur.f.value]]
  /\ stack' = Then(Cur) \o Tail(stack)
  /\ UNCHANGED <<policy, filters, i, err>>

RejectLeaf ==
  /\ stack # <<>> /\ Cur.kind = "check"
  /\ NameError(Cur) = NoError
  /\ IsLeaf(Cur)
  /\ \/ /\ Cur.f.op \in NumOps
        /\ ParseUint[Cur.f.value] = NoValue
        /\ Fail("InvalidNumber")
     \/ /\ Cur.f.op = "UNSPEC"
        /\ Fail("InvalidFilterOp")

\* if top { c.Filters[f.Name()] = f }: a later filter of the same name
\* replaces an earlier one.
Register ==
  /\ stack # <<>> /\ Cur.kind = "reg"
  /\ filters' = [filters EXCEPT ![Cur.f.name] = Cur.f]
  /\ stack' = Tail(stack)
  /\ UNCHANGED <<policy, numCache, i, err>>

\* processFilters has returned: every filter accepted, or an error.
Done == stack = <<>> /\ (err # NoError \/ i > Len(policy))

Terminated == Done /\ UNCHANGED vars

Next ==
  \/ StartFilter
  \/ RejectName
  \/ ExpandGroup
  \/ RejectInner
  \/ SkipReference
  \/ AcceptLeaf
  \/ RejectLeaf
  \/ Register
  \/ Terminated

Spec == Init /\ [][Next]_vars

-----------------------------------------------------------------------------
(***************************************************************************)
(* What context.match reads of a registered filter (filter.go 89-148).     *)
(* match walks the inner filters of AND/OR; an inner filter with a name is *)
(* replaced by c.Filters[name], one without is evaluated in place.  The    *)
(* inline part of a filter is what match evaluates without a lookup.       *)
(***************************************************************************)
Kids(g) == IF g.op \in BoolOps THEN {g.inner[k] : k \in DOMAIN g.inner} ELSE {}
InlineKids(g) == {c \in Kids(g) : c.name = Anon}
InlineNodes(f) == {f} \cup InlineKids(f) \cup UNION {InlineKids(c) : c \in InlineKids(f)}

\* The names match looks up in c.Filters while evaluating f.
RefsOf(f) == {c.name : c \in UNION {Kids(g) : g \in InlineNodes(f)}} \ {Anon}

(***************************************************************************)
(* RefsResolved: every name that match looks up in a registered filter     *)
(* names a registered filter, so `*c.Filters[lf.Name()]` in match never    *)
(* dereferences a nil pointer.  It rests on the FilterNotFound check of    *)
(* processFilter and on registration happening only after validation.     *)
(***************************************************************************)
RefsResolved ==
  \A n \in Registered : RefsOf(filters[n]) \subseteq Registered

(***************************************************************************)
(* NumCacheComplete: for every GT/GE/LT/LE comparison that match evaluates *)
(* in a registered filter, c.numCache holds the parsed literal.  A missing *)
(* entry would not fail: the Go map yields 0 and the node is compared      *)
(* against 0 instead of the policy's number.                               *)
(***************************************************************************)
NumCacheComplete ==
  \A n \in Registered : \A g \in InlineNodes(filters[n]) :
    g.op \in NumOps => numCache[g.value] = ParseUint[g.value]

(***************************************************************************)
(* The validity of a policy as section 4.1 of the spec states it, one      *)
(* nesting level at a time: D is the set of names declared before.         *)
(***************************************************************************)
NameValid(f, top, D) ==
  /\ f.name # MainFilterName
  /\ top => f.name # Anon
  /\ (~top /\ f.name # Anon) => f.name \in D
LeafValid(f, top) ==
  /\ f.inner = <<>>
  /\ \/ ~top /\ f.name # Anon
     \/ f.op \in StrOps
     \/ f.op \in NumOps /\ ParseUint[f.value] # NoValue
Valid0(f, top, D) == NameValid(f, top, D) /\ (f.op \in BoolOps \/ LeafValid(f, top))
Valid1(f, top, D) ==
  /\ NameValid(f, top, D)
  /\ IF f.op \in BoolOps THEN \A k \in DOMAIN f.inner : Valid0(f.inner[k], FALSE, D)
                         ELSE LeafValid(f, top)
Valid2(f, top, D) ==
  /\ NameValid(f, top, D)
  /\ IF f.op \in BoolOps THEN \A k \in DOMAIN f.inner : Valid1(f.inner[k], FALSE, D)
                         ELSE LeafValid(f, top)
PolicyValid(p) ==
  \A j \in DOMAIN p : Valid2(p[j], TRUE, {p[m].name : m \in 1..(j - 1)})

(***************************************************************************)
(* AcceptsExactlyValid: once processFilters has returned, it has returned  *)
(* nil exactly for the policies that are valid, references resolving only  *)
(* to filters declared earlier (no forward or self reference).            *)
(***************************************************************************)
AcceptsExactlyValid ==
  Done => ((err = NoError) <=> PolicyValid(policy))
=============================================================================
