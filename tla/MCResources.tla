---------------------------- MODULE MCResources ----------------------------
(***************************************************************************)
(* Composites and Records on small instances.  They share no state: in one *)
(* behaviour the one that part names runs and the other stays in its       *)
(* initial state.                                                          *)
(***************************************************************************)
EXTENDS Composites, TLC

CONSTANTS RowIds, Keys, Vals, Parents, Host   \* of Records

VARIABLES
  part,
  table, rows, live, call, asked, shared

Symmetry ==
  Permutations(Requests) \cup Permutations(RowIds) \cup Permutations(Keys) \cup Permutations(Vals)

recordVars == <<table, rows, live, call, asked, shared>>

R == INSTANCE Records WITH Ids <- RowIds, kind <- table, req <- call, wanted <- asked, raced <- shared

ASSUME ResourcesAssumption == R!RecordsAssumption

MCInit ==
  /\ part \in {"composites", "records"}
  /\ Init /\ R!Init
  /\ part # "composites" => kind = "egg"
  /\ part # "records" => table = "user"

MCNext ==
  /\ UNCHANGED part
  /\ \/ part = "composites" /\ Next /\ UNCHANGED recordVars
     \/ part = "records" /\ R!Next /\ UNCHANGED compositeVars

MCSpec == MCInit /\ [][MCNext]_<<part, compositeVars, recordVars>>

\* The variables of the two modules have the values their services give them.
TypesOK == TypeOK /\ R!TypeOK

\* Whatever requests race, no two rows agree in a unique column, no row outlives the one it
\* belongs to (Records), and no task or variable the schedule or egg it belongs to (Composites).
RowsConsistent == ChildrenOwned /\ R!UniqueRows /\ R!RefsLive

\* A row is what the requests that succeeded asked for, unless they overlapped (Records).
AsRequested == R!AsRequested
=============================================================================
