------------------------- MODULE MCServerLifecycle -------------------------
(***************************************************************************)
(* ServerLifecycle for TLC.  Requests are interchangeable: each is made    *)
(* once, with any operation.  Only runs without liveness use the symmetry. *)
(***************************************************************************)
EXTENDS ServerLifecycle, TLC

Symmetry == Permutations(Requests)

\* Symmetry is not sound for liveness.  Instead requests, here numbers, are made in their
\* order: every behaviour is one of these with its requests renamed, and the properties
\* do not tell requests apart.
InOrder == \A q, r \in Requests : (q < r /\ req[q].pc = "new") => req'[r].pc = "new"

OrderedLiveSpec == Init /\ [][Next /\ InOrder]_vars /\ Fairness
=============================================================================
