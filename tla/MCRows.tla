------------------------------- MODULE MCRows -------------------------------
(***************************************************************************)
(* NodeLink and Account on small instances: the row of a node and the row  *)
(* of a user, each saved from stale copies.  They share no state: in one   *)
(* behaviour the one that part names runs and the other stays in its       *)
(* initial state.                                                          *)
(***************************************************************************)
EXTENDS NodeLink, TLC

CONSTANTS Sessions, Secrets, Codes, CodesPerSetup   \* of Account

VARIABLES
  part,
  user, session, cookie, challenge, generated, used, crossed, accountReq

Symmetry == Permutations(Requests)

A == INSTANCE Account WITH issued <- generated, req <- accountReq

ASSUME AccountConstants == A!AccountAssumption

accountVars == <<user, session, cookie, challenge, generated, used, crossed, accountReq>>

MCInit ==
  /\ part \in {"node", "account"}
  /\ Init /\ A!Init

MCNext ==
  /\ UNCHANGED part
  /\ \/ part = "node" /\ Next /\ UNCHANGED accountVars
     \/ part = "account" /\ A!Next /\ UNCHANGED vars

MCSpec == MCInit /\ [][MCNext]_<<part, vars, accountVars>>

\* A user who is asked for a second factor has a secret to give one for, unless a save wrote
\* the row between the SELECT and the UPDATE of another (Account).
SecondFactorPossible == A!SecondFactorPossible
=============================================================================
