----------------------------- MODULE Ownership -----------------------------
(***************************************************************************)
(* What the Panel promises about allocations, without requests, reads and  *)
(* tables: an allocation is free or held by one server, it is handed out   *)
(* only while it is free and only to a server that holds none, and nobody  *)
(* gets one from the hands of another.  Allocations may be released at any *)
(* time, several at once, when their node goes.                            *)
(***************************************************************************)
CONSTANTS Servers, Allocs, None

VARIABLE owner   \* the server that holds an allocation, None if it is free

Holds(s) == {a \in Allocs : owner[a] = s}

Init == owner = [a \in Allocs |-> None]

HandOut(a, s) ==
  /\ owner[a] = None
  /\ Holds(s) = {}
  /\ owner' = [owner EXCEPT ![a] = s]

Release(A) ==
  /\ A # {}
  /\ \A a \in A : owner[a] # None
  /\ owner' = [a \in Allocs |-> IF a \in A THEN None ELSE owner[a]]

Next ==
  \/ \E a \in Allocs, s \in Servers : HandOut(a, s)
  \/ \E A \in SUBSET Allocs : Release(A)

Spec == Init /\ [][Next]_owner
=============================================================================
