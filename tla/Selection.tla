----------------------------- MODULE Selection -----------------------------
(***************************************************************************)
(* Selector evaluation of the placement engine (src/netmap/selector.go):   *)
(* context.processSelectors walks the selectors of a policy in order and   *)
(* stores, for each, the buckets context.getSelection returns.            *)
(*                                                                         *)
(* getSelection is modelled as one step, the whole function: grouping of   *)
(* the candidates by the selector's attribute (getSelectionBase), the      *)
(* ordering of the buckets (by first node ID or by attribute value without *)
(* a pivot, by HRW with one), the split into full and fallback buckets,    *)
(* the fallback to backup factor 1 and the round-robin redistribution of   *)
(* unused singleton buckets.  Go's random iteration order over nodeMap is  *)
(* a nondeterministic choice of the step.                                  *)
(*                                                                         *)
(* Data abstractions.  Node IDs are numbers (the uint64 Node.ID).          *)
(* Attribute values are numbers ordered as the strings they stand for, 0  *)
(* standing for "" (attribute absent).  HRW is a score of every node      *)
(* fixed by the pivot (rank 1 first); a bucket scores as its first node    *)
(* (Nodes.Hash is the hash of nodes[0]).  Scores may be equal: the comment *)
(* at selector.go 60-63 says equal-weight buckets keep their input order,  *)
(* so rank is any weak order of the nodes, ties included.                  *)
(* Which nodes a named filter matches is the constant Matches (the filter *)
(* engine is the module Filters and FilterMatch).                          *)
(***************************************************************************)
EXTENDS Naturals, Sequences, FiniteSets

CONSTANTS
  \* c.Netmap.Nodes: the IDs of the netmap's nodes in netmap order.
  Netmap,
  \* Attribute keys a selector may group by; "" means no grouping.
  AttrKeys,
  \* NodeAttr[n][k]: the value of attribute k of node n, 0 when absent.
  NodeAttr,
  \* The nodes that belong to the policy's subnet (BelongsToSubnet).
  InSubnet,
  \* The names of the filters registered in c.Filters, and the nodes each
  \* of them matches.
  FilterTable,
  Matches,
  \* The container backup factors to consider.
  CBFs,
  \* The selector lists the model starts from.
  SelectorLists,
  \* A value different from every result.
  NoValue

MainFilterName == "*"
Nodes == {Netmap[k] : k \in DOMAIN Netmap}
NoAttr == ""
SelNames == UNION {{l[k].name : k \in DOMAIN l} : l \in SelectorLists}

Selector == [name : STRING, attribute : AttrKeys \cup {NoAttr},
             filter : FilterTable \cup {MainFilterName, "undeclared"},
             clause : {"SAME", "DISTINCT"}, count : Nat]

ASSUME SelAssumption ==
  /\ Netmap \in Seq(Nat) /\ Netmap # <<>>
  /\ \A j, k \in DOMAIN Netmap : Netmap[j] = Netmap[k] => j = k
  /\ NoAttr \notin AttrKeys
  /\ NodeAttr \in [Nodes -> [AttrKeys -> Nat]]
  /\ InSubnet \subseteq Nodes
  /\ MainFilterName \notin FilterTable
  /\ Matches \in [FilterTable -> SUBSET Nodes]
  /\ CBFs \subseteq Nat \ {0}
  /\ SelectorLists \subseteq Seq(Selector)

Results == {"ok", "NotEnoughNodes", "panic"}
Buckets == Seq(Seq(Nodes))

\* The permutations of a finite set, as sequences.
Orders(S) == {o \in [1..Cardinality(S) -> S] : \A v \in S : \E k \in DOMAIN o : o[k] = v}

\* sort.Slice of s by the key key[j] of its element j (the order of equal
\* keys, which in the model only happens between empty buckets, is kept).
SortBy(s, key) ==
  LET pos(k) == Cardinality({j \in DOMAIN s : key[j] < key[k] \/ (key[j] = key[k] /\ j < k)}) + 1
  IN [m \in 1..Len(s) |-> s[CHOOSE k \in DOMAIN s : pos(k) = m]]

\* The HRW scores a pivot may give the nodes, up to their order: every
\* ranking with ranks 1..k for some k, equal ranks being equal scores.
WeakOrders ==
  {r \in [Nodes -> 1..Cardinality(Nodes)] :
     \E k \in 1..Cardinality(Nodes) : {r[n] : n \in Nodes} = 1..k}

VARIABLES
  cbf,         \* c.cbf
  pivot,       \* len(c.pivot) != 0
  rank,        \* HRW rank of every node under the pivot
  selectors,   \* p.Selectors()
  sIdx,        \* index of the next selector in processSelectors
  selTable,    \* c.Selectors: selector names seen so far
  selections,  \* c.Selections: name -> buckets, or NoValue
  err          \* "none", "FilterNotFound", "NotEnoughNodes" or "panic"

vars == <<cbf, pivot, rank, selectors, sIdx, selTable, selections, err>>

TypeOK ==
  /\ cbf \in CBFs
  /\ pivot \in BOOLEAN
  /\ rank \in [Nodes -> 1..Cardinality(Nodes)]
  /\ selectors \in Seq(Selector)
  /\ sIdx \in 1..(Len(selectors) + 1)
  /\ selTable \subseteq SelNames
  /\ selections \in [SelNames -> Buckets \cup {NoValue}]
  /\ err \in {"none", "FilterNotFound", "NotEnoughNodes", "panic"}

Init ==
  /\ cbf \in CBFs
  /\ pivot \in BOOLEAN
  /\ rank \in IF pivot THEN WeakOrders
                       ELSE {[n \in Nodes |-> 1]}
  /\ selectors \in SelectorLists
  /\ sIdx = 1
  /\ selTable = {}
  /\ selections = [n \in SelNames |-> NoValue]
  /\ err = "none"

(***************************************************************************)
(* GetNodesCount: the number of buckets and the nodes required in each.    *)
(***************************************************************************)
BucketCount(s) == IF s.clause = "SAME" THEN 1 ELSE s.count
NodesInBucket(s) == IF s.clause = "SAME" THEN s.count ELSE 1

(***************************************************************************)
(* getSelectionBase: the candidates (subnet members the filter matches, or *)
(* every subnet member for "*"), as singletons in netmap order when the   *)
(* attribute is empty, else one bucket per attribute value in the order    *)
(* ord in which the Go map is iterated.  With a pivot the nodes of every   *)
(* bucket are sorted by HRW.                                               *)
(***************************************************************************)
Candidates(s) ==
  {n \in InSubnet : s.filter = MainFilterName \/ n \in Matches[s.filter]}
InNetmapOrder(S) == SelectSeq(Netmap, LAMBDA n : n \in S)
HRWNodes(ns) == IF pivot THEN SortBy(ns, [j \in DOMAIN ns |-> rank[ns[j]]]) ELSE ns
AttrValues(s) == {NodeAttr[n][s.attribute] : n \in Candidates(s)}

SelectionBase(s, ord) ==
  IF s.attribute = NoAttr
  THEN LET ns == InNetmapOrder(Candidates(s))
       IN [k \in 1..Len(ns) |-> [attr |-> 0, nodes |-> <<ns[k]>>]]
  ELSE [k \in 1..Len(ord) |->
          [attr |-> ord[k],
           nodes |-> HRWNodes(InNetmapOrder({n \in Candidates(s) :
                                               NodeAttr[n][s.attribute] = ord[k]}))]]

\* The Go map iteration orders getSelectionBase may see.
MapOrders(s) == IF s.attribute = NoAttr THEN {<<>>} ELSE Orders(AttrValues(s))

\* HRW rank of a bucket: the hash of its first node (0 for an empty one).
BucketRank(b) == IF b = <<>> THEN 0 ELSE rank[b[1]]

\* Mutant: no sorting without a pivot.
OrderedUnsorted(s, base) == base

\* Without a pivot the buckets are sorted for a deterministic result: by
\* the ID of their node, or by attribute value (lines 64-74).
Ordered(s, base) ==
  IF pivot THEN base
  ELSE IF s.attribute = NoAttr THEN SortBy(base, [j \in DOMAIN base |-> base[j].nodes[1]])
  ELSE SortBy(base, [j \in DOMAIN base |-> base[j].attr])

\* Mutant: full buckets not cut to maxN (nodes = append(nodes, ns)).
FullBucketsUncut(ns, maxN) == SelectSeq(ns, LAMBDA b : Len(b) >= maxN)

\* The buckets holding at least maxN nodes, cut to maxN (lines 80-83).
FullBuckets(ns, maxN) ==
  LET big == SelectSeq(ns, LAMBDA b : Len(b) >= maxN)
  IN [k \in 1..Len(big) |-> SubSeq(big[k], 1, maxN)]

\* The others that hold at least nodesInBucket nodes (lines 84-85).
FallbackBuckets(ns, nib, maxN) == SelectSeq(ns, LAMBDA b : Len(b) < maxN /\ Len(b) >= nib)

\* Mutant: no fallback to backup factor 1.
WithFallbackNever(full, fallbk, bc) == full

\* The fallback buckets are appended when the full ones are too few (89-91).
WithFallback(full, fallbk, bc) == IF Len(full) < bc THEN full \o fallbk ELSE full

\* Mutant: the unsliced list reused as the fallback (fallback = nodes).
RestFromAll(ranked, bc) == ranked

\* The unused buckets past bucketCount (line 107).
RestFrom(ranked, bc) == SubSeq(ranked, bc + 1, Len(ranked))

\* Mutant: the attribute check of line 106 dropped.
RedistributesAlways(s) == TRUE

\* Only identity-grouped selections are redistributed (line 106).
Redistributes(s) == s.attribute = NoAttr

\* The round robin of lines 108-114: unused bucket j goes to bucket
\* (j - 1) % bc + 1 until the target bucket already holds maxN nodes.
Redistribute(chosen, rest, bc, maxN) ==
  LET rr[j \in 0..Len(rest)] ==
        IF j = 0 THEN [ns |-> chosen, stop |-> FALSE]
        ELSE LET prev == rr[j - 1]
                 idx  == ((j - 1) % bc) + 1
             IN IF prev.stop \/ Len(prev.ns[idx]) >= maxN
                THEN [prev EXCEPT !.stop = TRUE]
                ELSE [prev EXCEPT !.ns[idx] = @ \o rest[j]]
  IN rr[Len(rest)].ns

(***************************************************************************)
(* getSelection (selector.go 52-118), for the map iteration order ord.     *)
(* A redistribution with bucketCount 0 and an unused bucket divides by     *)
(* zero (line 109): the outcome "panic".                                   *)
(***************************************************************************)
GetSelection(s, ord) ==
  LET bc      == BucketCount(s)
      nib     == NodesInBucket(s)
      base    == SelectionBase(s, ord)
      maxN    == nib * cbf
      sorted  == Ordered(s, base)
      ns      == [k \in 1..Len(sorted) |-> sorted[k].nodes]
      full    == FullBuckets(ns, maxN)
      nodes   == WithFallback(full, FallbackBuckets(ns, nib, maxN), bc)
      ranked  == IF pivot THEN SortBy(nodes, [j \in DOMAIN nodes |-> BucketRank(nodes[j])]) ELSE nodes
      chosen  == SubSeq(ranked, 1, bc)
      rest    == RestFrom(ranked, bc)
  IN IF Len(base) < bc \/ Len(nodes) < bc
       THEN [res |-> "NotEnoughNodes", buckets |-> <<>>]
     ELSE IF ~Redistributes(s)
       THEN [res |-> "ok", buckets |-> chosen]
     ELSE IF bc = 0 /\ rest # <<>>
       THEN [res |-> "panic", buckets |-> <<>>]
     ELSE [res |-> "ok", buckets |-> Redistribute(chosen, rest, bc, maxN)]

(***************************************************************************)
(* processSelectors (selector.go 16-37): one step per selector.            *)
(***************************************************************************)
Sel == selectors[sIdx]

Running == err = "none" /\ sIdx <= Len(selectors)

SelectorFilterNotFound ==
  /\ Running
  /\ Sel.filter # MainFilterName /\ Sel.filter \notin FilterTable
  /\ err' = "FilterNotFound"
  /\ UNCHANGED <<cbf, pivot, rank, selectors, sIdx, selTable, selections>>

\* Mutant: the selector recorded under its filter's name.
SelectorSelectedByFilter ==
  /\ Running
  /\ Sel.filter = MainFilterName \/ Sel.filter \in FilterTable
  /\ \E ord \in MapOrders(Sel) :
       LET r == GetSelection(Sel, ord) IN
       /\ r.res = "ok"
       /\ selections' = [selections EXCEPT ![Sel.name] = r.buckets]
  /\ selTable' = selTable \cup {Sel.filter}
  /\ sIdx' = sIdx + 1
  /\ UNCHANGED <<cbf, pivot, rank, selectors, err>>

SelectorSelected ==
  /\ Running
  /\ Sel.filter = MainFilterName \/ Sel.filter \in FilterTable
  /\ \E ord \in MapOrders(Sel) :
       LET r == GetSelection(Sel, ord) IN
       /\ r.res = "ok"
       /\ selections' = [selections EXCEPT ![Sel.name] = r.buckets]
  /\ selTable' = selTable \cup {Sel.name}
  /\ sIdx' = sIdx + 1
  /\ UNCHANGED <<cbf, pivot, rank, selectors, err>>

\* getSelection returns ErrNotEnoughNodes, or panics (integer division by
\* zero in the redistribution loop when bucketCount is 0).
SelectorFailed ==
  /\ Running
  /\ Sel.filter = MainFilterName \/ Sel.filter \in FilterTable
  /\ \E ord \in MapOrders(Sel) :
       LET r == GetSelection(Sel, ord) IN
       /\ r.res # "ok"
       /\ err' = r.res
  /\ selTable' = selTable \cup {Sel.name}
  /\ UNCHANGED <<cbf, pivot, rank, selectors, sIdx, selections>>

Done == err # "none" \/ sIdx > Len(selectors)

Terminated == Done /\ UNCHANGED vars

Next ==
  \/ SelectorFilterNotFound
  \/ SelectorSelected
  \/ SelectorFailed
  \/ Terminated

Spec == Init /\ [][Next]_vars

-----------------------------------------------------------------------------
(***************************************************************************)
(* The result stored under a selector name, with the selector that         *)
(* produced it: the last selector of that name processed without error.   *)
(***************************************************************************)
Stored == {n \in selTable : selections[n] # NoValue}
LastSel(n) ==
  selectors[CHOOSE k \in 1..(sIdx - 1) :
              /\ selectors[k].name = n
              /\ \A j \in (k + 1)..(sIdx - 1) : selectors[j].name # n]
\* The groups of candidates getSelectionBase forms, and those holding at
\* least m nodes.
Groups(s) ==
  IF s.attribute = NoAttr THEN {{n} : n \in Candidates(s)}
  ELSE {{n \in Candidates(s) : NodeAttr[n][s.attribute] = v} : v \in AttrValues(s)}
GroupsOfSize(s, m) == {g \in Groups(s) : Cardinality(g) >= m}

(***************************************************************************)
(* BucketsBounded: a stored selection has exactly bucketCount buckets and  *)
(* each holds between nodesInBucket and nodesInBucket * CBF nodes (spec    *)
(* 4.3 step 8), after truncation, fallback and redistribution.             *)
(***************************************************************************)
BucketsBounded ==
  \A n \in Stored :
    LET s == LastSel(n)  b == selections[n] IN
    /\ Len(b) = BucketCount(s)
    /\ \A k \in DOMAIN b : NodesInBucket(s) <= Len(b[k]) /\ Len(b[k]) <= NodesInBucket(s) * cbf

(***************************************************************************)
(* NoNodeTwice: no node is placed twice in one selection, neither in two   *)
(* buckets nor twice in one, and every placed node is a candidate of the  *)
(* selector (in the subnet and matched by its filter).                     *)
(***************************************************************************)
NoNodeTwice ==
  \A n \in Stored :
    LET s == LastSel(n)  b == selections[n] IN
    /\ \A k1, k2 \in DOMAIN b : \A j1 \in DOMAIN b[k1] : \A j2 \in DOMAIN b[k2] :
         b[k1][j1] = b[k2][j2] => (k1 = k2 /\ j1 = j2)
    /\ \A k \in DOMAIN b : \A j \in DOMAIN b[k] : b[k][j] \in Candidates(s)

(***************************************************************************)
(* GroupedByAttribute: with a grouping attribute, the nodes of a bucket    *)
(* share its value and two buckets never share one (the redistribution of *)
(* selector.go 106-115 must only merge identity-grouped buckets).          *)
(***************************************************************************)
GroupedByAttribute ==
  \A n \in Stored :
    LET s == LastSel(n)  b == selections[n] IN
    s.attribute # NoAttr =>
      \A k1, k2 \in DOMAIN b : \A j1 \in DOMAIN b[k1] : \A j2 \in DOMAIN b[k2] :
        (NodeAttr[b[k1][j1]][s.attribute] = NodeAttr[b[k2][j2]][s.attribute]) <=> (k1 = k2)

(***************************************************************************)
(* NotEnoughExact: a selector fails with ErrNotEnoughNodes only when fewer *)
(* than bucketCount groups hold nodesInBucket candidates, i.e. when even  *)
(* backup factor 1 cannot be met.                                          *)
(***************************************************************************)
NotEnoughExact ==
  err = "NotEnoughNodes" =>
    Cardinality(GroupsOfSize(Sel, NodesInBucket(Sel))) < BucketCount(Sel)

(***************************************************************************)
(* Deterministic: the stored selection does not depend on the order in     *)
(* which Go iterates over nodeMap: every caller computes the same buckets *)
(* from the same netmap, policy and pivot (spec section 8).                *)
(***************************************************************************)
Deterministic ==
  \A n \in Stored :
    \A ord \in MapOrders(LastSel(n)) : GetSelection(LastSel(n), ord).buckets = selections[n]

(***************************************************************************)
(* DeterministicWithoutPivot: without a pivot, where getSelection sorts    *)
(* the buckets before returning them (selector.go 64-72), the stored       *)
(* selection is the same for every nodeMap iteration order.  This is the   *)
(* part of spec section 8 that the code does guarantee.                    *)
(***************************************************************************)
DeterministicWithoutPivot ==
  ~pivot =>
    \A n \in Stored :
      \A ord \in MapOrders(LastSel(n)) : GetSelection(LastSel(n), ord).buckets = selections[n]

(***************************************************************************)
(* FullBucketsPreferred: fallback buckets (fewer than nodesInBucket * CBF  *)
(* nodes) are used only to make up for missing full ones (spec 4.3 step    *)
(* 5): a selection holds as many full buckets as there are, up to          *)
(* bucketCount.                                                            *)
(***************************************************************************)
FullBucketsPreferred ==
  \A n \in Stored :
    LET s == LastSel(n)  b == selections[n]
        maxN == NodesInBucket(s) * cbf
        nFull == Cardinality(GroupsOfSize(s, maxN))
    IN Cardinality({k \in DOMAIN b : Len(b[k]) = maxN}) >=
         IF nFull < BucketCount(s) THEN nFull ELSE BucketCount(s)

(***************************************************************************)
(* NoPanic: evaluating a selector returns buckets or an error; it never    *)
(* panics (spec section 5: every condition is returned as an error).       *)
(***************************************************************************)
NoPanic == err # "panic"
=============================================================================
