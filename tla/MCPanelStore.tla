---------------------------- MODULE MCPanelStore ----------------------------
(***************************************************************************)
(* Instances of PanelStore for TLC.  Identifiers are model values; the     *)
(* allocation table starts with the rows an administrator has added.       *)
(***************************************************************************)
EXTENDS PanelStore, TLC

CONSTANTS n1, a1, a2

\* One row, and identifiers left for rows that are added later.
OneAlloc == [a \in Allocs |->
  IF a = a1 THEN [node |-> n1, port |-> 1, server |-> None] ELSE None]

\* Two rows on the same node.
TwoAllocs == [a \in Allocs |->
  CASE a = a1 -> [node |-> n1, port |-> 1, server |-> None]
    [] a = a2 -> [node |-> n1, port |-> 2, server |-> None]
    [] OTHER -> None]

\* Servers and requests are interchangeable: Init, Next and every property treat
\* them alike.
Symmetry == Permutations(Servers) \cup Permutations(Requests)
=============================================================================
