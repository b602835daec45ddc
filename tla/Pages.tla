------------------------------- MODULE Pages -------------------------------
(***************************************************************************)
(* The pages that list rows of a table of the panel and change them        *)
(* through dialogs.  Each page is a set of handlers that send a request,   *)
(* wait for the answer, and then load the list again or change it in       *)
(* place.  Nothing cancels a request, answers arrive in any order, and a   *)
(* request or its answer can be lost.                                      *)
(*                                                                         *)
(* What differs between pages is a record: how the handlers of the page    *)
(* and the routes behind them fit together, which dialogs its table opens, *)
(* and which flag disables a button while a handler runs.  What is entered *)
(* in a form is abstracted to the unique key of the row, which the user    *)
(* may change before submitting the form again.  Icons that delete a row   *)
(* at once exist only on pages whose list stays empty.                     *)
(***************************************************************************)
EXTENDS Naturals, FiniteSets

CONSTANTS
  Ids,           \* rows that are there when the page is opened
  Keys,          \* of the rows that are entered in a form
  Allocations,   \* allocations of the nodes
  AllocNode,     \* the node of each allocation
  Place,         \* the order of the list routes: newest rows first, allocations by port
  PerPage,       \* rows in an answer of a list route, which no page asks to change
  AllocsPerPage, \* allocations in an answer
  MaxOpens,      \* bound: dialogs opened
  MaxRuns,       \* bound: handlers started
  None

\* What the constants are, assumed where they get their values.
PagesAssumption ==
  /\ AllocNode \in [Allocations -> Ids]
  /\ Place \in [Ids \cup Keys \cup Allocations -> Nat]
  /\ \A x, y \in DOMAIN Place : Place[x] = Place[y] => x = y
  /\ PerPage \in Nat \ {0} /\ AllocsPerPage \in Nat \ {0}
  /\ MaxOpens \in Nat /\ MaxRuns \in Nat \ {0}
  /\ None \notin Ids \cup Keys \cup Allocations
  /\ None \notin {"create", "edit", "delete", "details"}

VARIABLES
  page,      \* the page that is shown
  rows,      \* the rows in the database
  shown,     \* the rows the page lists
  dialog,    \* the dialog that is open
  opens,     \* number of dialogs opened
  busy,      \* flags that disable buttons
  runs,      \* handlers that wait for an answer
  started,   \* number of handlers started
  free,      \* allocations in the database (page of the nodes)
  allocs,    \* allocations listed in the details of a node
  dropped,   \* history: allocations deleted, with the node they were deleted under
  disturbed  \* history: a list failed or was overtaken, an answer was lost

pageVars == <<page, rows, shown, dialog, opens, busy, runs, started, free, allocs,
              dropped, disturbed>>

-----------------------------------------------------------------------------
(* The pages.  accepts: what the routes accept of what the page sends;     *)
(* lists: the answer of the list route is what the page reads; shared: one *)
(* dialog creates and edits; spins: nothing but a spinner is shown until   *)
(* the list was answered.                                                  *)

\* The body of a create has isAdmin, which the route refuses; there is no route PATCH.
UsersHandlers == [lists |-> TRUE, accepts |-> {"delete"}, shared |-> FALSE, spins |-> TRUE]
UsersTable == {"create", "edit", "delete"}
UsersFlags == [create |-> "creating", edit |-> "saving", delete |-> None]

\* The body of a create has port, memoryMB and diskMB, which the route refuses.  The edit
\* button leaves for nodes/:id, which shows this page again.
NodesHandlers ==
  [lists |-> TRUE, accepts |-> {"delete", "drop"}, shared |-> FALSE, spins |-> TRUE]
NodesTable == {"create", "details", "delete"}
NodesFlags == [create |-> "saving", delete |-> None]

\* The route answers with a bare array, the page reads its field data: the list stays empty.
LocationsHandlers ==
  [lists |-> FALSE, accepts |-> {"create", "edit", "delete"}, shared |-> TRUE, spins |-> TRUE]
LocationsTable == {"create", "edit", "delete"}
LocationsFlags == [create |-> "saving", edit |-> "saving", delete |-> None]

\* A bare array too.  Permissions that the enumeration lacks are refused.
SubusersHandlers ==
  [lists |-> FALSE, accepts |-> {"create", "edit"}, shared |-> TRUE, spins |-> FALSE]
SubusersTable == {"create", "edit"}
SubusersFlags == [create |-> None, edit |-> None]

\* A bare array too.  The body has cron, which the route refuses.
SchedulesHandlers == [lists |-> FALSE, accepts |-> {}, shared |-> TRUE, spins |-> FALSE]
SchedulesTable == {"create", "edit"}
SchedulesFlags == [create |-> None, edit |-> None]

\* A bare array too.  The body has name, which the route refuses.
DatabasesHandlers == [lists |-> FALSE, accepts |-> {}, shared |-> FALSE, spins |-> FALSE]
DatabasesTable == {"create"}
DatabasesFlags == [create |-> None]

\* There are no routes below /admin/eggs.  Importing is a second form like creating.
EggsHandlers == [lists |-> FALSE, accepts |-> {}, shared |-> FALSE, spins |-> FALSE]
EggsTable == {"create"}
EggsFlags == [create |-> None]

\* There are no routes below /account/api-keys.
ApiKeysHandlers == [lists |-> FALSE, accepts |-> {}, shared |-> FALSE, spins |-> FALSE]
ApiKeysTable == {"create"}
ApiKeysFlags == [create |-> None]

Handlers ==
  [users |-> UsersHandlers, nodes |-> NodesHandlers, locations |-> LocationsHandlers,
   subusers |-> SubusersHandlers, schedules |-> SchedulesHandlers,
   databases |-> DatabasesHandlers, eggs |-> EggsHandlers, apikeys |-> ApiKeysHandlers]

Table ==
  [users |-> UsersTable, nodes |-> NodesTable, locations |-> LocationsTable,
   subusers |-> SubusersTable, schedules |-> SchedulesTable,
   databases |-> DatabasesTable, eggs |-> EggsTable, apikeys |-> ApiKeysTable]

Flags ==
  [users |-> UsersFlags, nodes |-> NodesFlags, locations |-> LocationsFlags,
   subusers |-> SubusersFlags, schedules |-> SchedulesFlags,
   databases |-> DatabasesFlags, eggs |-> EggsFlags, apikeys |-> ApiKeysFlags]

Fits(op) == op \in Handlers[page].accepts

\* The flag that the handler of op holds; what changes no row has none.
FlagOf(op) == IF op \in DOMAIN Flags[page] THEN Flags[page][op] ELSE None
Held(op) == {FlagOf(op)} \ {None}

\* The dialogs that a handler closes when it succeeds.
Closes(op) ==
  IF page = "apikeys" THEN {}
  ELSE IF Handlers[page].shared /\ op \in {"create", "edit"} THEN {"create", "edit"} ELSE {op}

-----------------------------------------------------------------------------
NoDialog == [op |-> None, row |-> None]
Rows == Ids \cup Keys

\* A handler: what it does to which row (for "drop" which allocation, for "create" the key
\* that was entered), how far it is, and the list it was answered with.
Run(op, row, item, at) ==
  [id |-> started + 1, op |-> op, row |-> row, item |-> item, at |-> at, list |-> {}]

Init ==
  /\ page \in DOMAIN Handlers
  /\ rows = Ids /\ shown = {}
  /\ free = IF page = "nodes" THEN Allocations ELSE {}
  /\ allocs = {}
  /\ dialog = NoDialog /\ opens = 0
  /\ busy = {}
  /\ runs = {[id |-> 1, op |-> "load", row |-> None, item |-> None,
              at |-> "listing", list |-> {}]}
  /\ started = 1
  /\ dropped = {} /\ disturbed = FALSE

Start(op, row, item, at) ==
  /\ started < MaxRuns
  /\ started' = started + 1
  /\ runs' = runs \cup {Run(op, row, item, at)}

To(r, at) == runs' = (runs \ {r}) \cup {[r EXCEPT !.at = at]}

\* Mutant: the flag is reset on success only, not in a finally.
EndUnlessFailed(r) ==
  /\ runs' = runs \ {r}
  /\ busy' = IF r.at = "failed" THEN busy ELSE busy \ Held(r.op)

\* A handler ends, by its finally if it has one.
End(r) ==
  /\ runs' = runs \ {r}
  /\ busy' = busy \ Held(r.op)

\* A list that is loaded while another is: the answers may change places.
Overtakes(op) ==
  \E r \in runs : r.at \in {"listing", "listed"} /\ (op = "allocs" <=> r.op = "allocs")

-----------------------------------------------------------------------------
(* The user                                                                *)

Usable == Handlers[page].spins => \A r \in runs : r.op # "load"

Open(op, row) ==
  /\ Usable /\ dialog = NoDialog /\ opens < MaxOpens
  /\ op \in Table[page] \ {"details"}
  /\ IF op = "create" THEN row = None ELSE row \in shown
  /\ opens' = opens + 1
  /\ dialog' = [op |-> op, row |-> row]
  /\ UNCHANGED <<page, rows, shown, busy, runs, started, free, allocs,
                 dropped, disturbed>>

\* Cancel is never disabled.
Cancel ==
  /\ dialog # NoDialog
  /\ dialog' = NoDialog
  /\ UNCHANGED <<page, rows, shown, opens, busy, runs, started, free, allocs,
                 dropped, disturbed>>

Submit ==
  /\ dialog.op \in {"create", "edit", "delete"}
  /\ FlagOf(dialog.op) \notin busy
  /\ \E key \in IF dialog.op = "create" THEN Keys ELSE {None} :
       Start(dialog.op, dialog.row, key, "sent")
  /\ busy' = busy \cup Held(dialog.op)
  /\ UNCHANGED <<page, rows, shown, dialog, opens, free, allocs,
                 dropped, disturbed>>

\* A click on the row of a node: the details show what was listed for the node before.
OpenDetails(node) ==
  /\ Usable /\ dialog = NoDialog /\ opens < MaxOpens
  /\ "details" \in Table[page] /\ node \in shown
  /\ started < MaxRuns
  /\ opens' = opens + 1
  /\ dialog' = [op |-> "details", row |-> node]
  /\ started' = started + 1
  /\ runs' = runs \cup {Run("allocs", node, None, "listing")}
  /\ disturbed' = (disturbed \/ Overtakes("allocs"))
  /\ UNCHANGED <<page, rows, shown, busy, free, allocs, dropped>>

\* Every allocation listed can be deleted: the field the page looks at is never there.
Droppable == allocs

DropAllocation(item) ==
  /\ dialog.op = "details" /\ item \in Droppable
  /\ Start("drop", dialog.row, item, "sent")
  /\ UNCHANGED <<page, rows, shown, dialog, opens, busy, free, allocs,
                 dropped, disturbed>>

-----------------------------------------------------------------------------
(* The server                                                              *)

\* Short codes of locations and the users of a server are unique.
Insertable(key) == key \notin rows

Create(r) ==
  /\ r.op = "create" /\ r.at = "sent" /\ Fits("create") /\ Insertable(r.item)
  /\ rows' = rows \cup {r.item}
  /\ To(r, "done")
  /\ UNCHANGED <<page, shown, dialog, opens, busy, started, free, allocs, dropped, disturbed>>

\* The allocations of a node go with it.
Delete(r) ==
  /\ r.op = "delete" /\ r.at = "sent" /\ Fits("delete") /\ r.row \in rows
  /\ rows' = rows \ {r.row}
  /\ free' = {a \in free : AllocNode[a] # r.row}
  /\ To(r, "done")
  /\ UNCHANGED <<page, shown, dialog, opens, busy, started, allocs,
                 dropped, disturbed>>

\* Mutant: the allocation is looked for by its id alone.
FoundAnywhere(node, item) == item \in free

\* The route looks for an allocation with this id on this node.
Found(node, item) == item \in free /\ AllocNode[item] = node

Drop(r) ==
  /\ r.op = "drop" /\ r.at = "sent" /\ Fits("drop") /\ Found(r.row, r.item)
  /\ free' = free \ {r.item}
  /\ dropped' = dropped \cup {[node |-> r.row, item |-> r.item]}
  /\ To(r, "done")
  /\ UNCHANGED <<page, rows, shown, dialog, opens, busy, started, allocs,
                 disturbed>>

\* Refused (always if it does not fit; a row in use or a key that is taken otherwise), or lost.
Refuse(r) ==
  /\ r.at = "sent"
  /\ To(r, "failed")
  /\ UNCHANGED <<page, rows, shown, dialog, opens, busy, started, free, allocs,
                 dropped, disturbed>>

\* It was done and the page is told that it failed.
LoseAnswer(r) ==
  /\ r.at = "done"
  /\ To(r, "failed")
  /\ disturbed' = TRUE
  /\ UNCHANGED <<page, rows, shown, dialog, opens, busy, started, free, allocs,
                 dropped>>

\* The first page of a list, all that the pages ever ask for.
FirstPage(list, n) == {x \in list : Cardinality({y \in list : Place[y] < Place[x]}) < n}
Allocated(node) == FirstPage({a \in free : AllocNode[a] = node}, AllocsPerPage)

\* Mutant: an answer of another form is not replaced by an empty list.
ListedUnguarded(r) ==
  IF r.op = "allocs" THEN Allocated(r.row)
  ELSE IF Handlers[page].lists THEN FirstPage(rows, PerPage) ELSE {None}

\* What the page finds in the answer; when it finds nothing, an empty list.
Listed(r) ==
  IF r.op = "allocs" THEN Allocated(r.row)
  ELSE IF Handlers[page].lists THEN FirstPage(rows, PerPage) ELSE {}

List(r) ==
  /\ r.at = "listing"
  /\ runs' = (runs \ {r}) \cup {[r EXCEPT !.at = "listed", !.list = Listed(r)]}
  /\ UNCHANGED <<page, rows, shown, dialog, opens, busy, started, free, allocs,
                 dropped, disturbed>>

-----------------------------------------------------------------------------
(* The answers                                                             *)

\* The dialog of the handler is closed, whichever row is in it by now.
Closed(r) == IF dialog.op \in Closes(r.op) THEN NoDialog ELSE dialog

\* Mutant: the list is not loaded again.
ReloadNot(r) == End(r)

\* The list is loaded again, and only then does the handler end.
Reload(r) == To(r, "listing") /\ UNCHANGED busy

\* The handler closes its dialog, except on the page of the API keys.
Succeed(r) ==
  /\ r.at = "done" /\ r.op # "drop"
  /\ dialog' = Closed(r)
  /\ Reload(r)
  /\ disturbed' = (disturbed \/ Overtakes(r.op))
  /\ UNCHANGED <<page, rows, shown, opens, started, free, allocs, dropped>>

\* An allocation is taken out of what is listed by then.
Dropped(r) ==
  /\ r.at = "done" /\ r.op = "drop"
  /\ allocs' = allocs \ {r.item}
  /\ End(r)
  /\ UNCHANGED <<page, rows, shown, dialog, opens, started, free,
                 dropped, disturbed>>

\* The message is shown, or nothing: the dialog stays.
Fail(r) ==
  /\ r.at = "failed"
  /\ End(r)
  /\ UNCHANGED <<page, rows, shown, dialog, opens, started, free, allocs,
                 dropped, disturbed>>

ShowList(r) ==
  /\ r.at = "listed" /\ r.op # "allocs"
  /\ shown' = r.list
  /\ End(r)
  /\ UNCHANGED <<page, rows, dialog, opens, started, free, allocs,
                 dropped, disturbed>>

\* A list that fails leaves what was shown.
ListFails(r) ==
  /\ r.at \in {"listing", "listed"} /\ r.op # "allocs"
  /\ disturbed' = TRUE
  /\ End(r)
  /\ UNCHANGED <<page, rows, shown, dialog, opens, started, free, allocs,
                 dropped>>

ShowAllocations(r) ==
  /\ r.at = "listed" /\ r.op = "allocs"
  /\ allocs' = r.list
  /\ End(r)
  /\ UNCHANGED <<page, rows, shown, dialog, opens, started, free,
                 dropped, disturbed>>

\* A list of allocations that fails empties it.
AllocationsFail(r) ==
  /\ r.at \in {"listing", "listed"} /\ r.op = "allocs"
  /\ allocs' = {}
  /\ End(r)
  /\ UNCHANGED <<page, rows, shown, dialog, opens, started, free,
                 dropped, disturbed>>

Next ==
  \/ \E op \in {"create", "edit", "delete"}, row \in Rows \cup {None} : Open(op, row)
  \/ Cancel \/ Submit
  \/ \E node \in Ids : OpenDetails(node)
  \/ \E a \in Allocations : DropAllocation(a)
  \/ \E r \in runs :
       \/ Create(r) \/ Delete(r) \/ Drop(r) \/ Refuse(r) \/ LoseAnswer(r) \/ List(r)
       \/ Succeed(r) \/ Dropped(r) \/ Fail(r)
       \/ ShowList(r) \/ ListFails(r) \/ ShowAllocations(r) \/ AllocationsFail(r)

Spec == Init /\ [][Next]_pageVars

-----------------------------------------------------------------------------
Stages == {"sent", "done", "failed", "listing", "listed"}

TypeOK ==
  /\ page \in DOMAIN Handlers
  /\ rows \subseteq Rows /\ shown \subseteq Rows
  /\ dialog.op \in {None} \cup Table[page] /\ dialog.row \in Rows \cup {None}
  /\ opens \in 0 .. MaxOpens
  /\ busy \subseteq {"creating", "saving"}
  /\ \A r \in runs : r.id \in 1 .. started /\ r.at \in Stages
  /\ started \in 1 .. MaxRuns
  /\ free \subseteq Allocations /\ allocs \subseteq Allocations
  /\ disturbed \in BOOLEAN

\* Once every handler has ended the page lists the first page of what the server has (as far
\* as it can read the answer), also the row that moves up when one is deleted, unless a list
\* failed, an answer was lost, or two lists were on their way at once.
ListCurrent ==
  runs = {} /\ ~disturbed =>
    shown = IF Handlers[page].lists THEN FirstPage(rows, PerPage) ELSE {}

\* A flag is held exactly while one handler that set it runs: no button stays disabled and
\* none is enabled too early, whatever is cancelled, opened or lost meanwhile.
FlagsHeld ==
  /\ busy = UNION {Held(r.op) : r \in runs}
  /\ \A r, s \in runs : Held(r.op) \cap Held(s.op) # {} => r = s

\* An allocation is only ever deleted under the node it is on, although the details of one
\* node show the allocations of another until its own are there.  Once every handler has
\* ended they show allocations of the node, unless two lists were on their way at once.
DetailsOfNode ==
  /\ \A d \in dropped : AllocNode[d.item] = d.node
  /\ runs = {} /\ ~disturbed /\ dialog.op = "details" =>
       \A a \in allocs : AllocNode[a] = dialog.row

-----------------------------------------------------------------------------
(* Why these hold                                                          *)

Dialog == [op : {None} \cup Table[page], row : Rows \cup {None}]
Handler == [id : 1 .. started, op : {"load", "allocs", "create", "edit", "delete", "drop"},
            row : Rows \cup {None}, item : Allocations \cup Keys \cup {None},
            at : Stages, list : SUBSET (Rows \cup Allocations)]

\* A handler that loads a list only lists, one that creates has a key, and what will be shown
\* as rows are rows.
HandlersFit ==
  /\ dialog \in Dialog /\ runs \subseteq Handler
  /\ \A r \in runs :
       /\ r.op \in {"load", "allocs"} => r.at \in {"listing", "listed"}
       /\ r.op = "create" => r.item \in Keys
       /\ r.op # "allocs" => r.list \subseteq Rows

\* What is shown or about to be shown is current, or a handler is on its way that will load
\* the list again; one that has not done so yet is "done".
Listing(r) == r.op # "allocs" /\ r.at \in {"listing", "listed"}
Changed(r) == r.op # "drop" /\ r.at = "done"
Current(list) == list = IF Handlers[page].lists THEN FirstPage(rows, PerPage) ELSE {}
ListInv ==
  ~disturbed =>
    /\ \A r, s \in runs : Listing(r) /\ Listing(s) => r = s
    /\ \A r \in runs : Listing(r) /\ r.at = "listed" =>
         Current(r.list) \/ \E s \in runs : Changed(s)
    /\ Current(shown) \/ \E r \in runs : Listing(r) \/ Changed(r)

\* The allocations on their way are those of the node whose details are shown.
DetailsInv ==
  /\ \A r \in runs : r.op = "allocs" /\ r.at = "listed" =>
       r.list \subseteq {a \in Allocations : AllocNode[a] = r.row}
  /\ \A d \in dropped : AllocNode[d.item] = d.node
  /\ ~disturbed /\ dialog.op = "details" =>
       /\ \A r \in runs : r.op = "allocs" => r.row = dialog.row
       /\ \/ \A a \in allocs : AllocNode[a] = dialog.row
          \/ \E r \in runs : r.op = "allocs"

PagesInv ==
  /\ TypeOK /\ FlagsHeld /\ HandlersFit /\ ListInv /\ DetailsInv
=============================================================================
