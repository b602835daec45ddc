---------------------------- MODULE MCFrontend -----------------------------
(***************************************************************************)
(* Wizard and Pages on small instances.  They share no state: in one       *)
(* behaviour the one that part names runs and the other stays in one of    *)
(* its initial states.                                                     *)
(***************************************************************************)
EXTENDS Wizard, TLC

CONSTANTS
  Ids, Keys, Allocations, AllocNode, Place, PerPage, AllocsPerPage,   \* of Pages
  MaxDialogs, MaxRuns,
  n1, n2, e1, e2, g1, g2, i1, i2, i3, k1, a1, a2                      \* the members of the sets

VARIABLES
  part,
  page, rows, shown, dialog, dialogs, busy, runs, started, free, allocs,
  dropped, disturbed

\* One egg in each nest; two of three rows fit an answer, and the rows have an order.
EggNest == (e1 :> g1) @@ (e2 :> g2)
AllocationNode == (a1 :> i1) @@ (a2 :> i2)
Order == (i1 :> 1) @@ (i2 :> 2) @@ (i3 :> 3) @@ (k1 :> 4) @@ (a1 :> 5) @@ (a2 :> 6)

Keeps(p, f) == \A x \in DOMAIN f : p[x] \in DOMAIN f /\ f[p[x]] = p[f[x]]

\* The dialog's nodes may be exchanged, and an egg together with its nest; the rows and the
\* allocations of the pages have an order and may not.
Symmetry ==
  Permutations({n1, n2}) \cup {p \in Permutations({e1, e2, g1, g2}) : Keeps(p, EggNest)}

P == INSTANCE Pages WITH MaxOpens <- MaxDialogs, opens <- dialogs

ASSUME PagesConstants == P!PagesAssumption

pagesVars == <<page, rows, shown, dialog, dialogs, busy, runs, started, free, allocs,
               dropped, disturbed>>

MCInit ==
  /\ part \in {"wizard", "pages"}
  /\ Init /\ P!Init
  /\ part = "wizard" => page = "users"

MCNext ==
  /\ UNCHANGED part
  /\ \/ part = "wizard" /\ Next /\ UNCHANGED pagesVars
     \/ part = "pages" /\ P!Next /\ UNCHANGED wizardVars

MCSpec == MCInit /\ [][MCNext]_<<part, wizardVars, pagesVars>>

\* The variables of the dialog and of the pages have the values their code gives them.
TypesOK == TypeOK /\ P!TypeOK

\* When all handlers have ended the page lists the first page of what the server has, unless
\* lists overtook each other, failed, or an answer was lost (Pages).
ListCurrent == P!ListCurrent

\* A button is disabled exactly while the one handler that disabled it runs (Pages).
FlagsHeld == P!FlagsHeld

\* An allocation is deleted under its own node only, and the details of a node come to show
\* its own allocations (Pages).
DetailsOfNode == P!DetailsOfNode
=============================================================================
