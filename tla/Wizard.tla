------------------------------- MODULE Wizard -------------------------------
(***************************************************************************)
(* The dialog that creates a server: five steps, the effects that load the *)
(* nests, the allocations of the chosen node and the variables of the      *)
(* chosen egg when a step is entered or a choice changes, and the request  *)
(* that creates the server.                                                *)
(*                                                                         *)
(* Answers arrive in any order and are applied to the form as it is then;  *)
(* nothing cancels a request, also not when the dialog is closed.  While   *)
(* the page shows the list of servers the dialog stays mounted, and it is  *)
(* opened again with most of the form reset; while the page loads the list *)
(* or shows an error there is no dialog, and the next one is blank.  So it *)
(* is when the user leaves the page and comes back, with a request to      *)
(* create a server still in flight or not.                                 *)
(***************************************************************************)
EXTENDS Naturals

CONSTANTS
  Nests, Eggs, NestOf,   \* NestOf: the nest of each egg
  Nodes,
  MaxOpens,              \* bound: times the dialog is opened
  MaxGets,               \* bound: requests for nests in flight
  None

ASSUME WizardAssumption ==
  /\ NestOf \in [Eggs -> Nests]
  /\ None \notin Nests \cup Eggs \cup Nodes
  /\ MaxOpens \in Nat /\ MaxGets \in Nat

VARIABLES
  view,            \* what the page shows: loading, error or list
  open, opens,     \* the dialog is shown; times it was opened
  form,            \* the fields and the flags of the dialog
  nestsLoaded,     \* nests.length > 0
  listed,          \* the node whose free allocations are listed
  loadingAllocs,   \* allocationsLoading
  gets,            \* requests in flight: nests (number), allocs (nodes), vars (eggs)
  post,            \* the POSTs in flight of the dialog: payload, what was overtaken by then
  unheard,         \* number of POSTs in flight whose dialog is gone
  timer,           \* timers that close the dialog run (several count as one)
  late             \* history: what was overtaken, see the properties

wizardVars ==
  <<view, open, opens, form, nestsLoaded, listed, loadingAllocs, gets, post, unheard,
    timer, late>>

Blank == [step |-> 0, saving |-> FALSE, nest |-> None, egg |-> None,
          node |-> None, alloc |-> None, env |-> {}]
Late == {"nests", "allocs", "vars"}

NoGets == [nests |-> 0, allocs |-> {}, vars |-> {}]

\* The dialog of the page is mounted anew: every useState has its initial value, and answers
\* to the requests of the old one have no effect.
Mounted ==
  /\ form' = Blank /\ nestsLoaded' = FALSE
  /\ listed' = None /\ loadingAllocs' = FALSE
  /\ gets' = NoGets
  /\ late' = {}

Init ==
  /\ view = "loading"
  /\ open = FALSE /\ opens = 0
  /\ form = Blank
  /\ nestsLoaded = FALSE
  /\ listed = None /\ loadingAllocs = FALSE
  /\ gets = NoGets
  /\ post = {} /\ unheard = 0
  /\ timer = FALSE
  /\ late = {}

\* Mutant: saving is reset with the other fields.
ResetFormAll(f) == Blank

\* Everything but saving.
ResetForm(f) == [Blank EXCEPT !.saving = f.saving]

\* The dialog is opened: the effect of [open] resets the form, and with the node the list
\* of its allocations.
Open ==
  /\ view = "list" /\ ~open /\ opens < MaxOpens
  /\ open' = TRUE /\ opens' = opens + 1
  /\ form' = ResetForm(form)
  /\ listed' = IF form.node = None THEN listed ELSE None
  /\ UNCHANGED <<view, nestsLoaded, loadingAllocs, gets, post, unheard, timer, late>>

\* Cancel, Escape and a click beside the dialog are never disabled.
Close ==
  /\ view = "list" /\ open
  /\ open' = FALSE
  /\ UNCHANGED <<view, opens, form, nestsLoaded, listed, loadingAllocs, gets, post,
                 unheard, timer, late>>

-----------------------------------------------------------------------------
(* The page around the dialog                                              *)

\* The list of servers arrives or fails.
ServersAnswered ==
  /\ view = "loading"
  /\ view' \in {"list", "error"}
  /\ UNCHANGED <<open, opens, form, nestsLoaded, listed, loadingAllocs, gets, post,
                 unheard, timer, late>>

TryAgain ==
  /\ view = "error"
  /\ view' = "loading"
  /\ UNCHANGED <<open, opens, form, nestsLoaded, listed, loadingAllocs, gets, post,
                 unheard, timer, late>>

\* The user goes to another page and comes back: the page is mounted anew, and a creation in
\* flight has nobody to tell.  The timer closes a dialog that is no longer there.
LeaveAndReturn ==
  /\ view' = "loading"
  /\ open' = FALSE /\ timer' = FALSE
  /\ post' = {} /\ unheard' = IF post = {} THEN unheard ELSE unheard + 1
  /\ Mounted
  /\ UNCHANGED opens

\* The dialog can be used.
Shown == view = "list" /\ open

-----------------------------------------------------------------------------
(* Effects                                                                 *)

\* Nests are loaded on every step from the second on until there are some.
FetchNests(step) ==
  IF step >= 1 /\ ~nestsLoaded THEN gets.nests + 1 ELSE gets.nests

\* The variables of the egg are loaded when the last step is entered.
FetchVariables(step, egg) ==
  IF step = 4 /\ egg # None THEN gets.vars \cup {egg} ELSE gets.vars

FetchesOvertake(step, egg) ==
  IF step = 4 /\ egg # None /\ gets.vars # {} THEN late \cup {"vars"} ELSE late

GoTo(step) ==
  /\ FetchNests(step) <= MaxGets
  /\ form' = [form EXCEPT !.step = step]
  /\ gets' = [gets EXCEPT !.nests = FetchNests(step), !.vars = FetchVariables(step, form.egg)]
  /\ late' = FetchesOvertake(step, form.egg)

-----------------------------------------------------------------------------
(* The user                                                                *)

\* The name, the owner and the numbers are filled in or the step stays.
ValidateStep ==
  /\ form.step = 1 => form.nest # None /\ form.egg # None
  /\ form.step = 3 => form.node # None /\ form.alloc # None

HandleNext ==
  /\ Shown /\ form.step < 4
  /\ ValidateStep
  /\ GoTo(form.step + 1)
  /\ UNCHANGED <<view, open, opens, nestsLoaded, listed, loadingAllocs, post, unheard, timer>>

HandleBack ==
  /\ Shown /\ form.step > 0 /\ ~form.saving
  /\ GoTo(form.step - 1)
  /\ UNCHANGED <<view, open, opens, nestsLoaded, listed, loadingAllocs, post, unheard, timer>>

\* Choosing a nest clears the egg, and with it the image and the startup command.
WithNest(f, nest) == [f EXCEPT !.nest = nest, !.egg = None]

ChooseNest(nest) ==
  /\ Shown /\ form.step = 1 /\ nestsLoaded /\ nest # form.nest
  /\ form' = WithNest(form, nest)
  /\ UNCHANGED <<view, open, opens, nestsLoaded, listed, loadingAllocs, gets, post,
                 unheard, timer, late>>

\* The eggs listed are those of the nest; image and startup are filled in from the egg.
ChooseEgg(egg) ==
  /\ Shown /\ form.step = 1 /\ NestOf[egg] = form.nest
  /\ form' = [form EXCEPT !.egg = egg]
  /\ UNCHANGED <<view, open, opens, nestsLoaded, listed, loadingAllocs, gets, post,
                 unheard, timer, late>>

\* Mutant: the allocation chosen before is kept.
WithNodeOnly(f, node) == [f EXCEPT !.node = node]

\* Choosing a node clears the allocation and loads the allocations of the node.
WithNode(f, node) == [f EXCEPT !.node = node, !.alloc = None]

ChooseNode(node) ==
  /\ Shown /\ form.step = 3 /\ node # form.node
  /\ form' = WithNode(form, node)
  /\ loadingAllocs' = TRUE
  /\ gets' = [gets EXCEPT !.allocs = @ \cup {node}]
  /\ late' = IF gets.allocs # {} THEN late \cup {"allocs"} ELSE late
  /\ UNCHANGED <<view, open, opens, nestsLoaded, listed, post, unheard, timer>>

\* An allocation of the list; it is known by the node it is on.
ChooseAllocation ==
  /\ Shown /\ form.step = 3 /\ form.node # None /\ ~loadingAllocs /\ listed # None
  /\ form' = [form EXCEPT !.alloc = listed]
  /\ UNCHANGED <<view, open, opens, nestsLoaded, listed, loadingAllocs, gets, post,
                 unheard, timer, late>>

\* What is sent, and what had been overtaken by then.
Payload ==
  [nest |-> form.nest, egg |-> form.egg, node |-> form.node, alloc |-> form.alloc,
   env |-> form.env, late |-> IF gets.vars # {} THEN late \cup {"vars"} ELSE late]

\* The button is disabled while a request of this dialog is in flight.
HandleSubmit ==
  /\ Shown /\ form.step = 4 /\ ~form.saving
  /\ form' = [form EXCEPT !.saving = TRUE]
  /\ post' = post \cup {Payload}
  /\ late' = Payload.late
  /\ UNCHANGED <<view, open, opens, nestsLoaded, listed, loadingAllocs, gets, unheard, timer>>

-----------------------------------------------------------------------------
(* Answers                                                                 *)

\* A new list of nests is a new dependency of the effect that clears the egg.
NestsAnswered ==
  /\ gets.nests > 0
  /\ gets' = [gets EXCEPT !.nests = @ - 1]
  /\ nestsLoaded' = TRUE
  /\ form' = WithNest(form, form.nest)
  /\ late' = IF form.egg # None THEN late \cup {"nests"} ELSE late
  /\ UNCHANGED <<view, open, opens, listed, loadingAllocs, post, unheard, timer>>

\* The list is emptied.  When there was one, it is loaded again, and so are the eggs of the
\* nest, by a request of their own whose answer may be for a nest chosen before.
NestsFail ==
  /\ gets.nests > 0
  /\ gets' = [gets EXCEPT !.nests = IF nestsLoaded /\ form.step >= 1 THEN @ ELSE @ - 1]
  /\ nestsLoaded' = FALSE
  /\ form' = WithNest(form, form.nest)
  /\ late' = IF nestsLoaded \/ form.egg # None THEN late \cup {"nests"} ELSE late
  /\ UNCHANGED <<view, open, opens, listed, loadingAllocs, post, unheard, timer>>

\* The list is shown whatever node is chosen by now; a failure empties it.
AllocationsAnswered(node) ==
  /\ node \in gets.allocs
  /\ gets' = [gets EXCEPT !.allocs = @ \ {node}]
  /\ listed' \in {node, None}
  /\ loadingAllocs' = FALSE
  /\ UNCHANGED <<view, open, opens, form, nestsLoaded, post, unheard, timer, late>>

\* Values entered before are kept for the variables this egg has too, dropped for others.
Merged(env, egg) == {egg}

VariablesAnswered(egg) ==
  /\ egg \in gets.vars
  /\ gets' = [gets EXCEPT !.vars = @ \ {egg}]
  /\ form' = [form EXCEPT !.env = Merged(@, egg)]
  /\ UNCHANGED <<view, open, opens, nestsLoaded, listed, loadingAllocs, post, unheard,
                 timer, late>>

\* The list of variables is emptied, the values entered are not.
VariablesFail(egg) ==
  /\ egg \in gets.vars
  /\ gets' = [gets EXCEPT !.vars = @ \ {egg}]
  /\ late' = late \cup {"vars"}
  /\ UNCHANGED <<view, open, opens, form, nestsLoaded, listed, loadingAllocs, post,
                 unheard, timer>>

\* The server is created.  The page loads its list again and shows that it loads, so that the
\* dialog is unmounted before the message of success can be seen: its state is lost and answers
\* to its requests have no effect.  Whether it is open and the timer belong to the page.
PostSucceeds(p) ==
  /\ p \in post
  /\ view' = "loading"
  /\ post' = post \ {p}
  /\ Mounted
  /\ timer' = TRUE
  /\ UNCHANGED <<open, opens, unheard>>

\* What the handler of a dialog that is gone sets, sets nothing.
PostUnheard ==
  /\ unheard > 0
  /\ unheard' = unheard - 1
  /\ UNCHANGED <<view, open, opens, form, nestsLoaded, listed, loadingAllocs, gets, post,
                 timer, late>>

PostFails(p) ==
  /\ p \in post
  /\ post' = post \ {p}
  /\ form' = [form EXCEPT !.saving = FALSE]
  /\ UNCHANGED <<view, open, opens, nestsLoaded, listed, loadingAllocs, gets, unheard,
                 timer, late>>

\* After a second the dialog is closed, also one that was opened since.
TimerFires ==
  /\ timer
  /\ timer' = FALSE
  /\ open' = FALSE
  /\ UNCHANGED <<view, opens, form, nestsLoaded, listed, loadingAllocs, gets, post,
                 unheard, late>>

Next ==
  \/ ServersAnswered \/ TryAgain \/ LeaveAndReturn \/ Open \/ Close
  \/ HandleNext \/ HandleBack \/ HandleSubmit \/ ChooseAllocation
  \/ \E n \in Nests : ChooseNest(n)
  \/ \E e \in Eggs : ChooseEgg(e) \/ VariablesAnswered(e) \/ VariablesFail(e)
  \/ \E n \in Nodes : ChooseNode(n) \/ AllocationsAnswered(n)
  \/ NestsAnswered \/ NestsFail
  \/ \E p \in post : PostSucceeds(p) \/ PostFails(p)
  \/ PostUnheard \/ TimerFires

Spec == Init /\ [][Next]_wizardVars

-----------------------------------------------------------------------------
TypeOK ==
  /\ view \in {"loading", "error", "list"}
  /\ open \in BOOLEAN /\ opens \in 0 .. MaxOpens
  /\ form.step \in 0 .. 4 /\ form.saving \in BOOLEAN
  /\ form.nest \in Nests \cup {None} /\ form.egg \in Eggs \cup {None}
  /\ form.node \in Nodes \cup {None} /\ form.alloc \in Nodes \cup {None}
  /\ form.env \subseteq Eggs
  /\ nestsLoaded \in BOOLEAN /\ listed \in Nodes \cup {None} /\ loadingAllocs \in BOOLEAN
  /\ gets.nests \in 0 .. MaxGets /\ gets.allocs \subseteq Nodes /\ gets.vars \subseteq Eggs
  /\ unheard \in Nat /\ timer \in BOOLEAN /\ late \subseteq Late

\* What is sent to create a server fits together, whatever way the user went through the
\* steps and in whatever order the lists arrived.  It has a node and an allocation, and
\* - an egg of its nest, unless a second list of nests arrived or failed after the egg was
\*   chosen: then the egg is cleared on whatever step the user is by then;
\* - an allocation of its node, unless another node was chosen while the allocations of one
\*   were loading: the answers are shown in the order they arrive;
\* - variables of its egg, unless they were still loading, failed to load, or were loaded
\*   twice at a time: those of the egg chosen before are sent then.
PayloadFits ==
  \A p \in post :
    /\ p.node # None /\ p.alloc # None
    /\ "nests" \notin p.late => p.egg # None /\ NestOf[p.egg] = p.nest
    /\ "allocs" \notin p.late => p.alloc = p.node
    /\ p.late \cap {"nests", "vars"} = {} => p.env \subseteq {p.egg}

\* A dialog has one creation in flight, also after it was closed and opened again while one
\* was, and shows that it has; the only way to a second is to leave the page and come back.
OneCreation ==
  /\ \A p, q \in post : p = q
  /\ form.saving <=> post # {}

\* Why: an egg is of its nest, and past its step it was chosen; while no list was overtaken
\* the allocations listed or loading are those of the node, and the variables on the last
\* step those of the egg.
Form == [step : 0 .. 4, saving : BOOLEAN, nest : Nests \cup {None}, egg : Eggs \cup {None},
         node : Nodes \cup {None}, alloc : Nodes \cup {None}, env : SUBSET Eggs]
Payloads == [nest : Nests \cup {None}, egg : Eggs \cup {None}, node : Nodes \cup {None},
             alloc : Nodes \cup {None}, env : SUBSET Eggs, late : SUBSET Late]

WizardInv ==
  /\ TypeOK /\ PayloadFits /\ OneCreation
  /\ post \subseteq Payloads
  /\ form \in Form /\ gets \in [nests : 0 .. MaxGets, allocs : SUBSET Nodes, vars : SUBSET Eggs]
  /\ form.egg # None => NestOf[form.egg] = form.nest
  /\ form.step >= 2 /\ "nests" \notin late => form.egg # None
  /\ form.step = 4 => form.node # None /\ form.alloc # None
  /\ "allocs" \notin late => form.alloc \in {None, form.node}
  /\ "allocs" \notin late /\ form.node # None =>
       /\ gets.allocs \subseteq {form.node}
       /\ ~loadingAllocs => listed \in {None, form.node}
  /\ form.step = 4 /\ late \cap {"nests", "vars"} = {} =>
       /\ gets.vars \subseteq {form.egg}
       /\ gets.vars = {} => form.env \subseteq {form.egg}
=============================================================================
