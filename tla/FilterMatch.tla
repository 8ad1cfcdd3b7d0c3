---------------------------- MODULE FilterMatch ----------------------------
(***************************************************************************)
(* context.match and context.matchKeyValue (src/netmap/filter.go 86-149): *)
(* how a compiled filter is evaluated against a node.  Both recurse over   *)
(* the filter and through c.Filters, so they are RECURSIVE operators here  *)
(* and this module is used by TLC only; the filter compilation it reads is *)
(* the state of Filters.                                                   *)
(***************************************************************************)
EXTENDS Filters, Graphs

CONSTANTS
  \* The nodes filters are evaluated against: records with the attribute
  \* map (an absent attribute is ""), and the Price and Capacity fields.
  TestNodes

AttrPrice == "Price"
AttrCapacity == "Capacity"

ASSUME MatchAssumption ==
  TestNodes \subseteq [attrs : [Keys -> Literals], price : Nat, capacity : Nat]

\* A Go map lookup of c.numCache: 0 for a literal that was never cached.
CacheGet(l) == IF numCache[l] = NoValue THEN 0 ELSE numCache[l]

\* An inner filter with a name is replaced by c.Filters[name] (line 93-95).
Resolve(lf) == IF lf.name # Anon THEN filters[lf.name] ELSE lf

\* Mutant: the ParseUint error of the node's attribute ignored (attr = 0).
MatchKeyValueIgnoreParseError(f, b) ==
  CASE f.op = "EQ" -> b.attrs[f.key] = f.value
    [] f.op = "NE" -> b.attrs[f.key] # f.value
    [] OTHER ->
         LET p    == ParseUint[b.attrs[f.key]]
             attr == CASE f.key = AttrPrice    -> b.price
                       [] f.key = AttrCapacity -> b.capacity
                       [] OTHER                -> IF p = NoValue THEN 0 ELSE p
         IN CASE f.op = "GT" -> attr > CacheGet(f.value)
              [] f.op = "GE" -> attr >= CacheGet(f.value)
              [] f.op = "LT" -> attr < CacheGet(f.value)
              [] f.op = "LE" -> attr <= CacheGet(f.value)
              [] OTHER       -> FALSE

(***************************************************************************)
(* matchKeyValue: EQ/NE compare strings; the other operations read the     *)
(* node's number (Price and Capacity from their fields, any other key     *)
(* parsed from the attribute, a parse failure failing the filter) and     *)
(* compare it with the cached literal.                                     *)
(***************************************************************************)
MatchKeyValue(f, b) ==
  CASE f.op = "EQ" -> b.attrs[f.key] = f.value
    [] f.op = "NE" -> b.attrs[f.key] # f.value
    [] OTHER ->
         LET attr == CASE f.key = AttrPrice    -> b.price
                       [] f.key = AttrCapacity -> b.capacity
                       [] OTHER                -> ParseUint[b.attrs[f.key]]
         IN IF attr = NoValue THEN FALSE
            ELSE (CASE f.op = "GT" -> attr > CacheGet(f.value)
                    [] f.op = "GE" -> attr >= CacheGet(f.value)
                    [] f.op = "LT" -> attr < CacheGet(f.value)
                    [] f.op = "LE" -> attr <= CacheGet(f.value)
                    [] OTHER       -> FALSE)

(***************************************************************************)
(* match: AND/OR walk the inner filters in order and return as soon as one *)
(* yields the deciding value (ok == (op == OR)); past the last one AND     *)
(* holds and OR does not.                                                  *)
(***************************************************************************)
RECURSIVE Match(_, _), MatchFrom(_, _, _)
Match(f, b) == IF f.op \in BoolOps THEN MatchFrom(f, b, 1) ELSE MatchKeyValue(f, b)
MatchFrom(f, b, k) ==
  IF k > Len(f.inner) THEN f.op = "AND"
  ELSE LET ok == Match(Resolve(f.inner[k]), b)
       IN IF ok = (f.op = "OR") THEN ok ELSE MatchFrom(f, b, k + 1)

\* applyFilter: "*" selects every node, another name its registered filter.
ApplyFilter(name, b) == name = MainFilterName \/ Match(filters[name], b)

(***************************************************************************)
(* The meaning of a filter as section 4.1 of the spec states it: AND of    *)
(* all inner filters, OR of some, references resolved by name, the numeric *)
(* literal taken as the number it denotes.                                 *)
(***************************************************************************)
NodeNumber(b, key) ==
  CASE key = AttrPrice -> b.price [] key = AttrCapacity -> b.capacity
    [] OTHER -> ParseUint[b.attrs[key]]
RECURSIVE Meaning(_, _)
Meaning(f, b) ==
  CASE f.op = "AND" -> \A k \in DOMAIN f.inner : Meaning(Resolve(f.inner[k]), b)
    [] f.op = "OR"  -> \E k \in DOMAIN f.inner : Meaning(Resolve(f.inner[k]), b)
    [] f.op = "EQ"  -> b.attrs[f.key] = f.value
    [] f.op = "NE"  -> b.attrs[f.key] # f.value
    [] f.op \in NumOps ->
         LET x == NodeNumber(b, f.key)  y == ParseUint[f.value]
         IN /\ x # NoValue
            /\ (CASE f.op = "GT" -> x > y [] f.op = "GE" -> x >= y
                  [] f.op = "LT" -> x < y [] f.op = "LE" -> x <= y)
    [] OTHER -> FALSE

(***************************************************************************)
(* RefGraphAcyclic: the references between registered filters form a DAG, *)
(* so the recursion of match through c.Filters ends.  Section 9 of the    *)
(* spec says this follows from registering a filter only after it is       *)
(* validated; the code also lets a later top-level filter replace an       *)
(* earlier one of the same name.                                           *)
(***************************************************************************)
RefGraph == [node |-> Registered,
             edge |-> {<<n, m>> \in Registered \X Registered : m \in RefsOf(filters[n])}]
RefGraphAcyclic == ~HasCycle(RefGraph)

(***************************************************************************)
(* MatchAgreesWithMeaning: whenever the reference graph is acyclic (match  *)
(* terminates), applyFilter computes the meaning of every registered filter on *)
(* every node: the short-circuit loop, the reference lookups and the      *)
(* cached literals change nothing.                                         *)
(***************************************************************************)
MatchAgreesWithMeaning ==
  RefGraphAcyclic =>
    \A n \in Registered : \A b \in TestNodes : ApplyFilter(n, b) = Meaning(filters[n], b)

(***************************************************************************)
(* InlineGroupEvaluated: a named inner AND/OR filter that carries inner    *)
(* filters is validated in place by processFilter, and section 9 of the   *)
(* spec says the source treats it as inline; then the filter match         *)
(* evaluates for it is that filter itself, not the table entry of its     *)
(* name.                                                                   *)
(***************************************************************************)
InlineGroupEvaluated ==
  \A n \in Registered : \A g \in InlineNodes(filters[n]) : \A c \in Kids(g) :
    (c.name # Anon /\ c.op \in BoolOps /\ c.inner # <<>>) => Resolve(c) = c
=============================================================================
