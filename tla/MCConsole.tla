------------------------------ MODULE MCConsole ------------------------------
(* Console with commands or polls, and one of each.                        *)
EXTENDS Console

CONSTANTS p1, p2

Load(h, c, ps, ch, stored) ==
  [hooks |-> h, commands |-> c, polls |-> ps, changes |-> ch, stored |-> stored]

Busy == {Load(1, 3, {}, 0, "jwt"), Load(2, 2, {}, 0, "jwt"), Load(2, 1, {}, 1, ""), Load(1, 1, {p1, p2}, 1, "jwt"),
         Load(2, 0, {p1}, 1, "jwt"), Load(2, 0, {p1}, 1, "")}
=============================================================================
