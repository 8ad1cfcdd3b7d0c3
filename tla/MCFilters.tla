----------------------------- MODULE MCFilters -----------------------------
(***************************************************************************)
(* Model-checking instance of Filters and FilterMatch: two user names, two *)
(* attribute keys, four literals (a number written two ways, a non-number, ""), all  *)
(* policies of one or two top-level filters built from them, with inner    *)
(* filters covering every branch of processFilter: references to declared, *)
(* undeclared and reserved names, inline leaves, inline groups, named      *)
(* groups with inner filters, and leaves carrying inner filters.           *)
(***************************************************************************)
EXTENDS FilterMatch

MCNames == {"A", "B"}
MCKeys == {"", "Rating", "Capacity"}
MCLiterals == {"", "4", "04", "x"}
MCParseUint == [l \in MCLiterals |-> IF l \in {"4", "04"} THEN 4 ELSE NoValue]

Flt(n, k, v, o, in) == [name |-> n, key |-> k, value |-> v, op |-> o, inner |-> in]
Ref(n) == Flt(n, "", "", "UNSPEC", <<>>)
Leaf(o, v) == Flt("", "Rating", v, o, <<>>)

\* Inner filters of a top-level filter.
KidAlphabet ==
  {Ref("A"), Ref("B"), Ref("*"), Leaf("GE", "4"), Leaf("GE", "x"), Leaf("EQ", "x"),
   Flt("", "Capacity", "4", "LT", <<>>),
   Flt("", "", "", "AND", <<Ref("A")>>),
   Flt("", "", "", "OR", <<Leaf("LT", "4")>>),
   Flt("A", "", "", "AND", <<Leaf("LE", "4")>>),
   Flt("", "Rating", "4", "GT", <<Ref("A")>>)}

KidSeqs == {<<k>> : k \in KidAlphabet} \cup {<<k1, k2>> : k1, k2 \in KidAlphabet}

Tops ==
  {Flt(n, "Rating", v, o, <<>>) : n \in {"A", "B", "*", ""}, v \in {"4", "x"},
                                  o \in {"EQ", "GE", "UNSPEC"}}
  \cup {Flt("A", "Rating", "4", "EQ", <<Leaf("EQ", "4")>>)}
  \cup {Flt(n, "", "", o, ks) : n \in {"A", "B"}, o \in BoolOps, ks \in KidSeqs}
  \cup {Flt("", "", "", "OR", <<Leaf("GE", "4")>>)}

\* A first filter the second may refer to or redefine.
FirstTops ==
  {t \in Tops : t.inner = <<>>} \cup
  {Flt(n, "", "", o, <<k>>) : n \in {"A", "B"}, o \in BoolOps, k \in KidAlphabet}

MCPolicies == {<<t>> : t \in Tops} \cup {<<t1, t2>> : t1 \in FirstTops, t2 \in Tops}

\* Nodes to evaluate filters against: Rating as a number, as the same
\* number written differently, as a non-number, absent; Capacity on both
\* sides of the literal 4.
MCTestNodes ==
  {[attrs |-> [k \in MCKeys |-> IF k = "Rating" THEN r ELSE ""], price |-> 0, capacity |-> c] :
     r \in {"4", "04", "x", ""}, c \in {3, 5}}
=============================================================================
