---------------------------- MODULE MCSelection ----------------------------
(***************************************************************************)
(* Model-checking instance of Selection: five nodes in a netmap order that *)
(* differs from ID order, one grouping attribute splitting them into a    *)
(* group of two, two singleton groups and one node without the attribute, *)
(* one node outside the subnet, one declared filter, backup factors 1..3,  *)
(* every HRW ranking, and every single selector with a count of 0..3.     *)
(***************************************************************************)
EXTENDS Selection

MCNetmap == <<3, 1, 5, 2, 4>>
MCAttrKeys == {"Country"}
\* Country: nodes 1 and 2 in "1", node 3 in "2", node 4 absent, node 5 in "3".
MCNodeAttr == [n \in 1..5 |-> [k \in MCAttrKeys |->
                 CASE n \in {1, 2} -> 1 [] n = 3 -> 2 [] n = 4 -> 0 [] n = 5 -> 3]]
MCInSubnet == {1, 2, 3, 4}
MCFilterTable == {"F"}
\* F matches every node but node 3.
MCMatches == [f \in MCFilterTable |-> {1, 2, 4, 5}]
MCCBFs == {1, 2, 3}

MCSelectors ==
  [name : {"S"}, attribute : {"", "Country"}, filter : {"*", "F", "undeclared"},
   clause : {"SAME", "DISTINCT"}, count : 0..3]
MCSelectorLists == {<<s>> : s \in MCSelectors}
=============================================================================
