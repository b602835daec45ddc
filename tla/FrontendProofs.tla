---------------------------- MODULE FrontendProofs ----------------------------
(***************************************************************************)
(* The dialog that creates a server and the pages that list rows: the      *)
(* invariants of Wizard and Pages, for any nests, eggs, nodes and          *)
(* allocations and any number of dialogs, handlers and requests.           *)
(***************************************************************************)
EXTENDS MCFrontend, TLAPS

-----------------------------------------------------------------------------
(* The dialog that creates a server.                                       *)

\* The requests for lists that are in flight.
Gets == [nests : 0 .. MaxGets, allocs : SUBSET Nodes, vars : SUBSET Eggs]

\* What follows of the next state when its parts are as the invariant wants them.
LEMMA WizardParts ==
  ASSUME form' \in Form, gets' \in Gets, view' \in {"loading", "error", "list"},
         open' \in BOOLEAN, opens' \in 0 .. MaxOpens, nestsLoaded' \in BOOLEAN,
         listed' \in Nodes \cup {None}, loadingAllocs' \in BOOLEAN, unheard' \in Nat,
         timer' \in BOOLEAN, late' \subseteq Late
  PROVE  TypeOK'
BY DEF TypeOK, Form, Gets

\* A step that leaves the creations in flight alone, and saving with them.
LEMMA WizardPosts ==
  ASSUME WizardInv, post' = post, form'.saving = form.saving
  PROVE  PayloadFits' /\ OneCreation' /\ (post \subseteq Payloads)'
<1>1. PayloadFits'
  BY DEF WizardInv, PayloadFits
<1>2. OneCreation'
  BY DEF WizardInv, OneCreation
<1>3. (post \subseteq Payloads)'
  BY DEF WizardInv, Payloads, Late
<1> QED
  BY <1>1, <1>2, <1>3

\* A step that leaves the form, the requests and what was overtaken alone.
LEMMA WizardAround ==
  ASSUME WizardInv, UNCHANGED <<form, nestsLoaded, listed, loadingAllocs, gets, post, late>>,
         view' \in {"loading", "error", "list"}, open' \in BOOLEAN, opens' \in 0 .. MaxOpens,
         unheard' \in Nat, timer' \in BOOLEAN
  PROVE  WizardInv'
<1>1. TypeOK'
  BY DEF WizardInv, TypeOK
<1>2. PayloadFits' /\ OneCreation' /\ (post \subseteq Payloads)'
  BY WizardPosts
<1> QED
  BY <1>1, <1>2 DEF WizardInv

\* The dialog has not been opened.
LEMMA WizardInit == Init => WizardInv
<1> SUFFICES ASSUME Init PROVE WizardInv
  OBVIOUS
<1>1. /\ form \in Form /\ form.step = 0 /\ form.saving = FALSE /\ form.egg = None
      /\ form.node = None /\ form.alloc = None
  BY DEF Init, Form, Blank
<1>2. gets \in Gets
  BY WizardAssumption DEF Init, Gets, NoGets
<1>3. TypeOK
  <2>1. /\ view \in {"loading", "error", "list"} /\ open \in BOOLEAN /\ opens \in 0 .. MaxOpens
        /\ nestsLoaded \in BOOLEAN /\ listed \in Nodes \cup {None} /\ loadingAllocs \in BOOLEAN
        /\ timer \in BOOLEAN /\ late \subseteq Late /\ unheard \in Nat
    <3>1. /\ view = "loading" /\ open = FALSE /\ opens = 0 /\ nestsLoaded = FALSE /\ listed = None
          /\ loadingAllocs = FALSE /\ timer = FALSE /\ late = {} /\ unheard = 0
      BY DEF Init
    <3>2. opens \in 0 .. MaxOpens
      BY <3>1, WizardAssumption
    <3> QED
      BY <3>1, <3>2
  <2> QED
    BY <1>1, <1>2, <2>1 DEF TypeOK, Form, Gets
<1> QED
  BY <1>1, <1>2, <1>3 DEF Init, WizardInv, PayloadFits, OneCreation, Gets

\* The form is reset when the dialog is opened; a creation in flight stays.
LEMMA OpenFits == ASSUME WizardInv, Open PROVE WizardInv'
<1>1. form' \in Form
  BY DEF Open, WizardInv, Form, ResetForm, Blank
<1>2. /\ form'.step = 0 /\ form'.saving = form.saving /\ form'.nest = None /\ form'.egg = None
      /\ form'.node = None /\ form'.alloc = None /\ form'.env = {}
  BY DEF Open, WizardInv, Form, ResetForm, Blank
<1>3. opens' \in 0 .. MaxOpens
  BY WizardAssumption DEF Open, WizardInv, TypeOK
<1>4. TypeOK'
  BY <1>1, <1>2, <1>3 DEF Open, WizardInv, TypeOK, Form
<1>5. PayloadFits' /\ OneCreation' /\ (post \subseteq Payloads)'
  BY <1>2, WizardPosts DEF Open
<1> QED
  BY <1>1, <1>2, <1>4, <1>5 DEF Open, WizardInv

\* A step entered forwards was validated, and the last one loads the variables.
LEMMA GoToFits ==
  ASSUME WizardInv, NEW step \in 0 .. 4, GoTo(step),
         step = form.step - 1 \/ (step = form.step + 1 /\ ValidateStep),
         UNCHANGED <<view, open, opens, nestsLoaded, listed, loadingAllocs, post, unheard, timer>>
  PROVE  WizardInv'
<1>1. /\ form' \in Form /\ form'.step = step /\ form'.saving = form.saving
      /\ form'.nest = form.nest /\ form'.egg = form.egg /\ form'.node = form.node
      /\ form'.alloc = form.alloc /\ form'.env = form.env
  BY DEF GoTo, WizardInv, Form
<1>2. FetchNests(step) \in 0 .. MaxGets
  BY WizardAssumption DEF GoTo, FetchNests, WizardInv, TypeOK
<1>3. /\ gets' \in Gets /\ gets'.allocs = gets.allocs
      /\ gets'.vars = IF step = 4 /\ form.egg # None THEN gets.vars \cup {form.egg} ELSE gets.vars
  BY <1>2 DEF GoTo, FetchVariables, WizardInv, Gets, Form
<1>4. late' \subseteq Late /\ late \subseteq late'
      /\ (step = 4 /\ form.egg # None /\ gets.vars # {} => "vars" \in late')
      /\ \A x \in {"nests", "allocs"} : x \in late' <=> x \in late
  BY DEF GoTo, FetchesOvertake, WizardInv, TypeOK, Late
<1>5. TypeOK'
  BY <1>1, <1>3, <1>4, WizardParts DEF WizardInv, TypeOK
<1>20. PayloadFits' /\ OneCreation' /\ (post \subseteq Payloads)'
  BY <1>1, <1>3, <1>4, WizardPosts
<1>6. (form.step >= 2 /\ "nests" \notin late => form.egg # None)'
  BY <1>1, <1>4 DEF WizardInv, ValidateStep, Form
<1>7. (form.step = 4 => form.node # None /\ form.alloc # None)'
  BY <1>1, <1>4 DEF WizardInv, ValidateStep, Form
<1>8. ( form.step = 4 /\ late \cap {"nests", "vars"} = {} =>
       /\ gets.vars \subseteq {form.egg}
       /\ gets.vars = {} => form.env \subseteq {form.egg})'
  BY <1>1, <1>3, <1>4, <1>6 DEF Form
<1> QED
  BY <1>1, <1>3, <1>4, <1>5, <1>6, <1>7, <1>8, <1>20 DEF WizardInv, Gets

\* Next and Back go by one step.
LEMMA HandleNextFits == ASSUME WizardInv, HandleNext PROVE WizardInv'
BY GoToFits DEF HandleNext, WizardInv, Form

\* Back.
LEMMA HandleBackFits == ASSUME WizardInv, HandleBack PROVE WizardInv'
BY GoToFits DEF HandleBack, WizardInv, Form

\* A nest without an egg, or an egg of the nest.
LEMMA ChooseNestFits ==
  ASSUME WizardInv, (\E n \in Nests : ChooseNest(n)) \/ (\E e \in Eggs : ChooseEgg(e))
  PROVE  WizardInv'
<1>1. PICK n \in Nests \cup {None}, e \in Eggs \cup {None} :
        /\ form' = [form EXCEPT !.nest = n, !.egg = e]
        /\ e # None => NestOf[e] = n
  <2>1. ASSUME NEW n \in Nests, ChooseNest(n)
        PROVE  form' = [form EXCEPT !.nest = n, !.egg = None]
    BY <2>1 DEF ChooseNest, WithNest
  <2>2. ASSUME NEW e \in Eggs, ChooseEgg(e)
        PROVE  /\ form' = [form EXCEPT !.nest = form.nest, !.egg = e]
               /\ NestOf[e] = form.nest /\ form.nest \in Nests \cup {None}
    BY <2>2 DEF ChooseEgg, WizardInv, Form
  <2> QED
    BY <2>1, <2>2
<1>2. form.step = 1
  BY DEF ChooseNest, ChooseEgg
<1>3. /\ form' \in Form /\ form'.step = 1 /\ form'.saving = form.saving
      /\ form'.nest = n /\ form'.egg = e /\ form'.node = form.node
      /\ form'.alloc = form.alloc
  BY <1>1, <1>2 DEF WizardInv, Form
<1>4. UNCHANGED <<view, open, opens, nestsLoaded, listed, loadingAllocs, gets, post, unheard,
                timer, late>>
  BY DEF ChooseNest, ChooseEgg
<1>5. TypeOK'
  BY <1>3, <1>4 DEF WizardInv, TypeOK, Form
<1>20. PayloadFits' /\ OneCreation' /\ (post \subseteq Payloads)'
  BY <1>3, <1>4, WizardPosts
<1> QED
  BY <1>1, <1>3, <1>4, <1>5, <1>20 DEF WizardInv

\* The allocation is cleared with the node, and those of the node are loaded.
LEMMA ChooseNodeFits ==
  ASSUME WizardInv, NEW n \in Nodes, ChooseNode(n)
  PROVE  WizardInv'
<1>1. /\ form' \in Form /\ form'.step = 3 /\ form'.saving = form.saving
      /\ form'.nest = form.nest /\ form'.egg = form.egg /\ form'.node = n
      /\ form'.alloc = None
  BY DEF ChooseNode, WithNode, WizardInv, Form
<1>2. /\ gets' \in Gets /\ gets'.allocs = gets.allocs \cup {n} /\ gets'.vars = gets.vars
  BY DEF ChooseNode, WizardInv, Gets
<1>3. /\ late' \subseteq Late /\ late \subseteq late' /\ ("nests" \in late' => "nests" \in late)
      /\ "allocs" \notin late' => gets.allocs = {}
  BY DEF ChooseNode, WizardInv, TypeOK, Late
<1>4. loadingAllocs' = TRUE /\ UNCHANGED <<view, open, opens, nestsLoaded, listed, post, unheard, timer>>
  BY DEF ChooseNode
<1>5. TypeOK'
  BY <1>1, <1>2, <1>3, <1>4, WizardParts DEF WizardInv, TypeOK
<1>20. PayloadFits' /\ OneCreation' /\ (post \subseteq Payloads)'
  BY <1>1, <1>2, <1>3, <1>4, WizardPosts
<1>6. form.step = 3
  BY DEF ChooseNode
<1> QED
  BY <1>1, <1>2, <1>3, <1>4, <1>5, <1>6, <1>20 DEF WizardInv, Gets

\* What is listed once it is loaded is what the node has.
LEMMA ChooseAllocationFits ==
  ASSUME WizardInv, ChooseAllocation
  PROVE  WizardInv'
<1>1. /\ form' \in Form /\ form'.step = 3 /\ form'.saving = form.saving
      /\ form'.nest = form.nest /\ form'.egg = form.egg /\ form'.node = form.node
      /\ form'.alloc = listed
  BY DEF ChooseAllocation, WizardInv, TypeOK, Form
<1>2. UNCHANGED <<view, open, opens, nestsLoaded, listed, loadingAllocs, gets, post, unheard,
                timer, late>>
  BY DEF ChooseAllocation
<1>3. TypeOK'
  BY <1>1, <1>2 DEF WizardInv, TypeOK, Form
<1>20. PayloadFits' /\ OneCreation' /\ (post \subseteq Payloads)'
  BY <1>1, <1>2, WizardPosts
<1>4. form.step = 3 /\ form.node # None /\ ~loadingAllocs
  BY DEF ChooseAllocation
<1> QED
  BY <1>1, <1>2, <1>3, <1>4, <1>20 DEF WizardInv

\* What is sent is the form of the last step.
LEMMA HandleSubmitFits ==
  ASSUME WizardInv, HandleSubmit
  PROVE  WizardInv'
<1>1. /\ form' \in Form /\ form'.step = 4 /\ form'.saving = TRUE
      /\ form'.nest = form.nest /\ form'.egg = form.egg /\ form'.node = form.node
      /\ form'.alloc = form.alloc /\ form'.env = form.env /\ form.step = 4
  BY DEF HandleSubmit, WizardInv, Form
<1>2. PICK p : p = Payload
  OBVIOUS
<1>3. post = {} /\ post' = {p} /\ late' = p.late
  BY <1>2 DEF HandleSubmit, WizardInv, OneCreation
<1>4. /\ p.nest = form.nest /\ p.egg = form.egg /\ p.node = form.node /\ p.alloc = form.alloc
      /\ p.env = form.env /\ p.late = IF gets.vars # {} THEN late \cup {"vars"} ELSE late
  BY <1>2 DEF Payload
<1>5. /\ p.late \subseteq Late /\ late \subseteq p.late
      /\ "nests" \in p.late <=> "nests" \in late
      /\ "allocs" \in p.late <=> "allocs" \in late
      /\ "vars" \notin p.late => gets.vars = {}
  BY <1>4 DEF WizardInv, TypeOK, Late
<1>6. p \in Payloads
  BY <1>2, <1>4, <1>5 DEF WizardInv, Form, Payload, Payloads
<1>7. UNCHANGED <<view, open, opens, nestsLoaded, listed, loadingAllocs, gets, unheard, timer>>
  BY DEF HandleSubmit
<1>8. TypeOK'
  BY <1>1, <1>3, <1>5, <1>7, WizardParts DEF WizardInv, TypeOK, Gets
<1>9. PayloadFits'
  <2>1. p.node # None /\ p.alloc # None
    BY <1>1, <1>4 DEF WizardInv
  <2>2. "nests" \notin p.late => p.egg # None /\ NestOf[p.egg] = p.nest
    BY <1>1, <1>4, <1>5 DEF WizardInv
  <2>3. "allocs" \notin p.late => p.alloc = p.node
    BY <1>1, <1>4, <1>5 DEF WizardInv
  <2>4. p.late \cap {"nests", "vars"} = {} => p.env \subseteq {p.egg}
    BY <1>1, <1>4, <1>5 DEF WizardInv
  <2> QED
    BY <1>3, <2>1, <2>2, <2>3, <2>4 DEF PayloadFits
<1>10. OneCreation' /\ (post \subseteq Payloads)'
  BY <1>1, <1>3, <1>6 DEF OneCreation, Payloads
<1> QED
  BY <1>1, <1>3, <1>5, <1>7, <1>8, <1>9, <1>10 DEF WizardInv

\* A list of nests that arrives, or fails, clears an egg that was chosen.
LEMMA NestsAnsweredFits ==
  ASSUME WizardInv, NestsAnswered \/ NestsFail
  PROVE  WizardInv'
<1>1. /\ form' \in Form /\ form'.step = form.step /\ form'.saving = form.saving
      /\ form'.nest = form.nest /\ form'.egg = None /\ form'.node = form.node
      /\ form'.alloc = form.alloc /\ form'.env = form.env
  BY DEF NestsAnswered, NestsFail, WithNest, WizardInv, Form
<1>2. gets' \in Gets /\ gets'.allocs = gets.allocs /\ gets'.vars = gets.vars
  BY WizardAssumption DEF NestsAnswered, NestsFail, WizardInv, Gets
<1>3. /\ late' \subseteq Late /\ late \subseteq late'
      /\ "allocs" \in late' <=> "allocs" \in late
      /\ "nests" \notin late' => form.egg = None
  BY DEF NestsAnswered, NestsFail, WizardInv, TypeOK, Late
<1>4. /\ nestsLoaded' \in BOOLEAN
      /\ UNCHANGED <<view, open, opens, listed, loadingAllocs, post, unheard, timer>>
  BY DEF NestsAnswered, NestsFail
<1>5. TypeOK'
  BY <1>1, <1>2, <1>3, <1>4, WizardParts DEF WizardInv, TypeOK
<1>20. PayloadFits' /\ OneCreation' /\ (post \subseteq Payloads)'
  BY <1>1, <1>2, <1>3, <1>4, WizardPosts
<1> QED
  BY <1>1, <1>2, <1>3, <1>4, <1>5, <1>20 DEF WizardInv, Gets

\* The allocations of a node arrive.
LEMMA AllocationsAnsweredFits ==
  ASSUME WizardInv, NEW n \in Nodes, AllocationsAnswered(n)
  PROVE  WizardInv'
<1>1. /\ gets' \in Gets /\ gets'.allocs = gets.allocs \ {n} /\ gets'.vars = gets.vars
      /\ n \in gets.allocs
  BY DEF AllocationsAnswered, WizardInv, Gets
<1>2. /\ listed' \in {n, None} /\ loadingAllocs' = FALSE
      /\ UNCHANGED <<view, open, opens, form, nestsLoaded, post, unheard, timer, late>>
  BY DEF AllocationsAnswered
<1>3. TypeOK'
  BY <1>1, <1>2, WizardParts DEF WizardInv, TypeOK
<1>20. PayloadFits' /\ OneCreation' /\ (post \subseteq Payloads)'
  BY <1>1, <1>2, WizardPosts
<1> QED
  BY <1>1, <1>2, <1>3, <1>20 DEF WizardInv, Gets

\* The variables of an egg arrive, or fail to.
LEMMA VariablesAnsweredFits ==
  ASSUME WizardInv, NEW e \in Eggs, VariablesAnswered(e) \/ VariablesFail(e)
  PROVE  WizardInv'
<1>1. /\ gets' \in Gets /\ gets'.allocs = gets.allocs /\ gets'.vars = gets.vars \ {e}
      /\ e \in gets.vars
  BY DEF VariablesAnswered, VariablesFail, WizardInv, Gets
<1>2. /\ form' \in Form /\ form'.step = form.step /\ form'.saving = form.saving
      /\ form'.nest = form.nest /\ form'.egg = form.egg /\ form'.node = form.node
      /\ form'.alloc = form.alloc
      /\ form'.env = {e} \/ "vars" \in late'
  BY DEF VariablesAnswered, VariablesFail, Merged, WizardInv, Form
<1>3. /\ late' \subseteq Late /\ late \subseteq late'
      /\ "allocs" \in late' <=> "allocs" \in late
      /\ "nests" \in late' <=> "nests" \in late
  BY DEF VariablesAnswered, VariablesFail, WizardInv, TypeOK, Late
<1>4. UNCHANGED <<view, open, opens, nestsLoaded, listed, loadingAllocs, post, unheard, timer>>
  BY DEF VariablesAnswered, VariablesFail
<1>5. TypeOK'
  BY <1>1, <1>2, <1>3, <1>4, WizardParts DEF WizardInv, TypeOK
<1>20. PayloadFits' /\ OneCreation' /\ (post \subseteq Payloads)'
  BY <1>1, <1>2, <1>3, <1>4, WizardPosts
<1> QED
  BY <1>1, <1>2, <1>3, <1>4, <1>5, <1>20 DEF WizardInv, Gets

\* A dialog that has just been mounted: nothing chosen, nothing loading, nothing in flight.
LEMMA MountedFits ==
  ASSUME WizardInv, Mounted, post' = {}, view' \in {"loading", "error", "list"},
         open' \in BOOLEAN, opens' = opens, unheard' \in Nat, timer' \in BOOLEAN
  PROVE  WizardInv'
<1>1. /\ form' \in Form /\ form'.step = 0 /\ form'.saving = FALSE /\ form'.egg = None
      /\ form'.node = None /\ form'.alloc = None
  BY DEF Mounted, Form, Blank
<1>2. gets' \in Gets
  BY WizardAssumption DEF Mounted, Gets, NoGets
<1>3. TypeOK'
  BY <1>1, <1>2, WizardParts DEF Mounted, WizardInv, TypeOK
<1>4. PayloadFits' /\ OneCreation' /\ (post \subseteq Payloads)'
  BY <1>1 DEF PayloadFits, OneCreation
<1> QED
  BY <1>1, <1>2, <1>3, <1>4 DEF WizardInv, Gets

\* The one creation of the dialog in flight is answered, or its page is left.
LEMMA PostAnsweredFits ==
  ASSUME WizardInv, (\E p \in post : PostSucceeds(p) \/ PostFails(p)) \/ LeaveAndReturn
  PROVE  WizardInv'
<1>1. post' = {}
  BY DEF WizardInv, OneCreation, PostSucceeds, PostFails, LeaveAndReturn
<1>2. CASE (\E p \in post : PostSucceeds(p)) \/ LeaveAndReturn
  <2>1. open \in BOOLEAN /\ opens \in 0 .. MaxOpens /\ unheard \in Nat
    BY DEF WizardInv, TypeOK
  <2>2. /\ Mounted /\ view' = "loading" /\ open' \in BOOLEAN /\ opens' = opens
        /\ timer' \in BOOLEAN
    BY <1>2, <2>1 DEF PostSucceeds, LeaveAndReturn
  <2>3. unheard' \in {unheard, unheard + 1}
    BY <1>2 DEF PostSucceeds, LeaveAndReturn
  <2>4. unheard' \in Nat
    BY <2>1, <2>3
  <2> QED
    BY <1>1, <2>2, <2>4, MountedFits
<1>3. CASE \E p \in post : PostFails(p)
  <2>1. /\ form' \in Form /\ form'.step = form.step /\ form'.saving = FALSE
        /\ form'.nest = form.nest /\ form'.egg = form.egg /\ form'.node = form.node
        /\ form'.alloc = form.alloc /\ form'.env = form.env
    BY <1>3 DEF PostFails, WizardInv, Form
  <2>2. UNCHANGED <<view, open, opens, nestsLoaded, listed, loadingAllocs, gets, unheard,
                    timer, late>>
    BY <1>3 DEF PostFails
  <2>3. TypeOK'
    BY <2>1, <2>2, WizardParts DEF WizardInv, TypeOK, Gets
  <2>4. PayloadFits' /\ OneCreation' /\ (post \subseteq Payloads)'
    BY <1>1, <2>1 DEF PayloadFits, OneCreation
  <2> QED
    BY <2>1, <2>2, <2>3, <2>4 DEF WizardInv
<1> QED
  BY <1>2, <1>3

\* Every step of the dialog and of the page around it.
LEMMA WizardStep == WizardInv /\ [Next]_wizardVars => WizardInv'
<1> SUFFICES ASSUME WizardInv, [Next]_wizardVars PROVE WizardInv'
  OBVIOUS
<1>1. CASE UNCHANGED wizardVars \/ ServersAnswered \/ TryAgain \/ Close \/ TimerFires
        \/ PostUnheard
  <2>1. UNCHANGED <<form, nestsLoaded, listed, loadingAllocs, gets, post, late>>
    BY <1>1 DEF wizardVars, ServersAnswered, TryAgain, Close, TimerFires, PostUnheard
  <2>2. /\ view' \in {"loading", "error", "list"} /\ open' \in BOOLEAN
        /\ opens' \in 0 .. MaxOpens /\ timer' \in BOOLEAN /\ unheard' \in Nat
    <3>1. /\ view \in {"loading", "error", "list"} /\ open \in BOOLEAN
          /\ opens \in 0 .. MaxOpens /\ timer \in BOOLEAN /\ unheard \in Nat
      BY DEF WizardInv, TypeOK
    <3>2. /\ view' \in {"loading", "error", "list"} /\ open' \in BOOLEAN
          /\ opens' \in 0 .. MaxOpens /\ timer' \in BOOLEAN
      BY <1>1, <3>1 DEF wizardVars, ServersAnswered, TryAgain, Close, TimerFires, PostUnheard
    <3>3. (unheard' = unheard) \/ (unheard > 0 /\ unheard' = unheard - 1)
      BY <1>1 DEF wizardVars, ServersAnswered, TryAgain, Close, TimerFires, PostUnheard
    <3> QED
      BY <3>1, <3>2, <3>3
  <2> QED
    BY <2>1, <2>2, WizardAround
<1>2. CASE Open
  BY <1>2, OpenFits
<1>3. CASE HandleNext
  BY <1>3, HandleNextFits
<1>4. CASE HandleBack
  BY <1>4, HandleBackFits
<1>5. CASE HandleSubmit
  BY <1>5, HandleSubmitFits
<1>6. CASE ChooseAllocation
  BY <1>6, ChooseAllocationFits
<1>7. CASE (\E n \in Nests : ChooseNest(n)) \/ (\E e \in Eggs : ChooseEgg(e))
  BY <1>7, ChooseNestFits
<1>8. CASE \E e \in Eggs : VariablesAnswered(e) \/ VariablesFail(e)
  BY <1>8, VariablesAnsweredFits
<1>9. CASE \E n \in Nodes : ChooseNode(n)
  BY <1>9, ChooseNodeFits
<1>10. CASE \E n \in Nodes : AllocationsAnswered(n)
  BY <1>10, AllocationsAnsweredFits
<1>11. CASE NestsAnswered \/ NestsFail
  BY <1>11, NestsAnsweredFits
<1>12. CASE (\E p \in post : PostSucceeds(p) \/ PostFails(p)) \/ LeaveAndReturn
  BY <1>12, PostAnsweredFits
<1> QED
  BY <1>1, <1>2, <1>3, <1>4, <1>5, <1>6, <1>7, <1>8, <1>9, <1>10, <1>11, <1>12 DEF Next

-----------------------------------------------------------------------------
(* The pages that list rows and change them.                               *)

\* Of every page: its dialogs and its flags.
LEMMA PageFacts ==
  ASSUME page \in DOMAIN P!Handlers
  PROVE  /\ P!Table[page] \subseteq {"create", "edit", "delete", "details"}
         /\ \A op \in {"load", "allocs", "create", "edit", "delete", "drop"} :
              P!FlagOf(op) \in {None, "creating", "saving"}
         /\ \A op \in {"load", "allocs", "drop"} : P!Held(op) = {}
<1>1. page \in {"users", "nodes", "locations", "subusers", "schedules", "databases", "eggs",
                "apikeys"}
  BY DEF P!Handlers
<1>3. P!Table[page] \in {P!UsersTable, P!NodesTable, P!LocationsTable, P!SubusersTable,
                         P!SchedulesTable, P!DatabasesTable, P!EggsTable, P!ApiKeysTable}
  BY <1>1 DEF P!Table
<1>4. P!Flags[page] \in {P!UsersFlags, P!NodesFlags, P!LocationsFlags, P!SubusersFlags,
                         P!SchedulesFlags, P!DatabasesFlags, P!EggsFlags, P!ApiKeysFlags}
  BY <1>1 DEF P!Flags
<1>6. P!Table[page] \subseteq {"create", "edit", "delete", "details"}
  BY <1>3 DEF P!UsersTable, P!NodesTable, P!LocationsTable, P!SubusersTable,
              P!SchedulesTable, P!DatabasesTable, P!EggsTable, P!ApiKeysTable
<1>7. /\ DOMAIN P!Flags[page] \subseteq {"create", "edit", "delete"}
      /\ \A op \in DOMAIN P!Flags[page] : P!Flags[page][op] \in {None, "creating", "saving"}
  BY <1>4 DEF P!UsersFlags, P!NodesFlags, P!LocationsFlags, P!SubusersFlags,
              P!SchedulesFlags, P!DatabasesFlags, P!EggsFlags, P!ApiKeysFlags
<1> QED
  BY <1>6, <1>7 DEF P!FlagOf, P!Held

\* What the invariant says of the types, unfolded once.
LEMMA PagesTypes ==
  ASSUME P!PagesInv
  PROVE  /\ page \in DOMAIN P!Handlers /\ rows \subseteq P!Rows /\ shown \subseteq P!Rows
         /\ dialog \in P!Dialog /\ dialogs \in 0 .. MaxDialogs
         /\ runs \subseteq P!Handler /\ started \in 1 .. MaxRuns
         /\ free \subseteq Allocations /\ allocs \subseteq Allocations
         /\ disturbed \in BOOLEAN
         /\ dialogs \in Nat /\ started \in Nat /\ MaxDialogs \in Nat /\ MaxRuns \in Nat
         /\ None \notin Keys
         /\ None \notin {"create", "edit", "delete", "details"}
BY PagesConstants DEF P!PagesInv, P!TypeOK, P!HandlersFit, P!PagesAssumption

\* The flags of a handler that goes on.
LEMMA FlagsMove ==
  ASSUME P!FlagsHeld, NEW r \in runs, NEW x, x.op = r.op, runs' = (runs \ {r}) \cup {x},
         UNCHANGED <<page, busy>>
  PROVE  P!FlagsHeld'
<1>1. \A op : P!Held(op)' = P!Held(op)
  BY DEF P!Held, P!FlagOf
<1>2. UNION {P!Held(s.op) : s \in runs'} = UNION {P!Held(s.op) : s \in runs}
  OBVIOUS
<1>3. \A s, t \in runs' : P!Held(s.op) \cap P!Held(t.op) # {} => s = t
  BY DEF P!FlagsHeld
<1> QED
  BY <1>1, <1>2, <1>3, SMTT(30) DEF P!FlagsHeld

\* Of one that ends.
LEMMA FlagsEnd ==
  ASSUME P!FlagsHeld, NEW r \in runs, P!End(r), UNCHANGED page
  PROVE  P!FlagsHeld'
<1>1. \A op : P!Held(op)' = P!Held(op)
  BY DEF P!Held, P!FlagOf
<1>2. UNION {P!Held(s.op) : s \in runs'} = busy \ P!Held(r.op)
  BY DEF P!FlagsHeld, P!End
<1>3. \A s, t \in runs' : P!Held(s.op) \cap P!Held(t.op) # {} => s = t
  BY DEF P!FlagsHeld, P!End
<1> QED
  BY <1>1, <1>2, <1>3 DEF P!FlagsHeld, P!End

\* Of one that starts.
LEMMA FlagsStart ==
  ASSUME P!FlagsHeld, NEW x, runs' = runs \cup {x}, P!Held(x.op) \cap busy = {},
         busy' = busy \cup P!Held(x.op), UNCHANGED page
  PROVE  P!FlagsHeld'
<1>1. \A op : P!Held(op)' = P!Held(op)
  BY DEF P!Held, P!FlagOf
<1>2. UNION {P!Held(s.op) : s \in runs'} = busy'
  BY DEF P!FlagsHeld
<1>3. \A s \in runs : P!Held(s.op) \subseteq busy
  BY DEF P!FlagsHeld
<1>4. \A s, t \in runs' : P!Held(s.op) \cap P!Held(t.op) # {} => s = t
  BY <1>3 DEF P!FlagsHeld
<1> QED
  BY <1>1, <1>2, <1>4 DEF P!FlagsHeld

\* The flags are those of the pages.
LEMMA FlagsTyped ==
  ASSUME page' \in DOMAIN P!Handlers, P!FlagsHeld', page' = page, runs' \subseteq P!Handler'
  PROVE  busy' \subseteq {"creating", "saving"}
<1>1. \A op : P!Held(op)' = P!Held(op)
  BY DEF P!Held, P!FlagOf
<1>2. \A op \in {"load", "allocs", "create", "edit", "delete", "drop"} :
        P!Held(op) \subseteq {"creating", "saving"}
  BY PageFacts DEF P!Held
<1>3. \A s \in runs' : s.op \in {"load", "allocs", "create", "edit", "delete", "drop"}
  BY DEF P!Handler
<1> QED
  BY <1>1, <1>2, <1>3 DEF P!FlagsHeld

\* A handler goes on, from which the dialog stays as it is.
LEMMA PagesMove ==
  ASSUME P!PagesInv, NEW r \in runs, NEW x \in P!Handler, x.op = r.op, x.row = r.row, x.item = r.item,
         runs' = (runs \ {r}) \cup {x},
         UNCHANGED <<page, shown, dialog, dialogs, busy, started, allocs>>,
         rows' \subseteq P!Rows, free' \subseteq Allocations, disturbed' \in BOOLEAN,
         disturbed => disturbed',
         x.op \in {"load", "allocs"} => x.at \in {"listing", "listed"},
         x.op # "allocs" => x.list \subseteq P!Rows,
         x.op = "allocs" /\ x.at = "listed" =>
           x.list \subseteq {a \in Allocations : AllocNode[a] = x.row},
         \A d \in dropped' : AllocNode[d.item] = d.node,
         P!ListInv'
  PROVE  P!PagesInv'
<1>1. P!FlagsHeld'
  BY FlagsMove DEF P!PagesInv
<1>2. /\ runs' \subseteq P!Handler' /\ P!Handler' = P!Handler
      /\ P!Dialog' = P!Dialog /\ P!Rows' = P!Rows
  BY PagesTypes DEF P!Handler, P!Dialog, P!Rows
<1>3. P!TypeOK'
  <2>1. busy' \subseteq {"creating", "saving"}
    BY <1>1, <1>2, PagesTypes, FlagsTyped
  <2>2. \A s \in runs' : s.id \in 1 .. started' /\ s.at \in P!Stages
    BY <1>2 DEF P!Handler
  <2> QED
    BY <1>2, <2>1, <2>2 DEF P!PagesInv, P!TypeOK
<1>4. P!HandlersFit'
  BY <1>2 DEF P!PagesInv, P!HandlersFit
<1>5. P!DetailsInv'
  BY DEF P!PagesInv, P!DetailsInv
<1> QED
  BY <1>1, <1>3, <1>4, <1>5 DEF P!PagesInv

\* A handler ends.
LEMMA PagesEnd ==
  ASSUME P!PagesInv, NEW r \in runs, P!End(r),
         UNCHANGED <<page, rows, dialog, dialogs, started, free, dropped>>,
         shown' \subseteq P!Rows,
         allocs' \subseteq Allocations, disturbed' \in BOOLEAN, disturbed => disturbed',
         P!ListInv',
         ~disturbed /\ dialog.op = "details" =>
           \/ r.op # "allocs" /\ allocs' \subseteq allocs
           \/ \A a \in allocs' : AllocNode[a] = dialog.row
  PROVE  P!PagesInv'
<1>0. runs' = runs \ {r}
  BY DEF P!End
<1>1. P!FlagsHeld'
  BY FlagsEnd DEF P!PagesInv
<1>2. /\ runs' \subseteq P!Handler' /\ P!Handler' = P!Handler
      /\ P!Dialog' = P!Dialog /\ P!Rows' = P!Rows
  BY <1>0, PagesTypes DEF P!Handler, P!Dialog, P!Rows
<1>3. P!TypeOK'
  <2>1. busy' \subseteq {"creating", "saving"}
    BY <1>1, <1>2, PagesTypes, FlagsTyped
  <2>2. \A s \in runs' : s.id \in 1 .. started' /\ s.at \in P!Stages
    BY <1>2 DEF P!Handler
  <2> QED
    BY <1>2, <2>1, <2>2 DEF P!PagesInv, P!TypeOK
<1>4. P!HandlersFit'
  BY <1>0, <1>2 DEF P!PagesInv, P!HandlersFit
<1>5. P!DetailsInv'
  BY <1>0 DEF P!PagesInv, P!DetailsInv
<1> QED
  BY <1>1, <1>3, <1>4, <1>5 DEF P!PagesInv

\* A handler starts from the dialog that is open then.
LEMMA PagesStart ==
  ASSUME P!PagesInv, NEW x, x.op \in {"allocs", "create", "edit", "delete", "drop"},
         x \in P!Handler', runs' = runs \cup {x},
         started' = started + 1, started < MaxRuns,
         UNCHANGED <<page, rows, shown, free, allocs, dropped>>,
         dialog' \in P!Dialog',
         \/ dialog' = dialog
         \/ dialog'.op = "details" /\ dialog'.row = x.row /\ x.op = "allocs",
         dialogs' \in {dialogs, dialogs + 1}, dialogs' <= MaxDialogs,
         disturbed' \in BOOLEAN, disturbed => disturbed',
         P!Held(x.op) \cap busy = {}, busy' = busy \cup P!Held(x.op),
         IF x.op = "allocs"
         THEN /\ x.at = "listing" /\ dialog' # dialog
              /\ ~disturbed' => \A s \in runs : s.op # "allocs"
         ELSE x.at = "sent" /\ dialog' = dialog,
         x.list = {}, x.op = "create" => x.item \in Keys
  PROVE  P!PagesInv'
<1>1. P!FlagsHeld'
  BY FlagsStart DEF P!PagesInv
<1>2. P!Handler \subseteq P!Handler' /\ runs' \subseteq P!Handler' /\ P!Rows' = P!Rows
  BY PagesTypes DEF P!Handler, P!Rows
<1>3. P!TypeOK'
  <2>1. busy' \subseteq {"creating", "saving"}
    BY <1>1, <1>2, PagesTypes, FlagsTyped
  <2>2. \A s \in runs' : s.id \in 1 .. started' /\ s.at \in P!Stages
    BY <1>2 DEF P!Handler
  <2>3. dialogs' \in 0 .. MaxDialogs /\ started' \in 1 .. MaxRuns
    BY PagesTypes
  <2>4. dialog'.op \in {None} \cup P!Table[page'] /\ dialog'.row \in P!Rows \cup {None}
    BY <1>2 DEF P!Dialog
  <2> QED
    BY <1>2, <2>1, <2>2, <2>3, <2>4 DEF P!PagesInv, P!TypeOK
<1>4. P!HandlersFit'
  BY <1>2 DEF P!PagesInv, P!HandlersFit
<1>6. P!DetailsInv'
  BY DEF P!PagesInv, P!DetailsInv
<1>7. P!ListInv'
  BY DEF P!PagesInv, P!ListInv, P!Listing, P!Changed, P!Current
<1> QED
  BY <1>1, <1>3, <1>4, <1>6, <1>7 DEF P!PagesInv

\* A handler with another stage.
LEMMA HandlerAt ==
  ASSUME P!PagesInv, NEW r \in runs, NEW at \in P!Stages
  PROVE  /\ [r EXCEPT !.at = at] \in P!Handler /\ [r EXCEPT !.at = at].op = r.op
         /\ [r EXCEPT !.at = at].row = r.row /\ [r EXCEPT !.at = at].item = r.item
         /\ [r EXCEPT !.at = at].at = at /\ [r EXCEPT !.at = at].list = r.list
BY PagesTypes DEF P!Handler

\* A handler whose request was carried out, refused or lost.
LEMMA PagesServed ==
  ASSUME P!PagesInv, NEW r \in runs, NEW at \in {"done", "failed"}, P!To(r, at),
         r.at \in {"sent", "done"},
         UNCHANGED <<page, shown, dialog, dialogs, busy, started, allocs>>,
         rows' \subseteq P!Rows, free' \subseteq Allocations, disturbed' \in BOOLEAN,
         disturbed => disturbed',
         \A d \in dropped' : AllocNode[d.item] = d.node,
         \/ disturbed'
         \/ rows' = rows /\ r.at = "sent"
         \/ r.op # "drop" /\ at = "done"
  PROVE  P!PagesInv'
<1> DEFINE x == [r EXCEPT !.at = at]
<1>0. at \in P!Stages
  BY DEF P!Stages
<1>1. /\ x \in P!Handler /\ x.op = r.op /\ x.row = r.row /\ x.item = r.item /\ x.at = at
      /\ x.list = r.list
  BY <1>0, HandlerAt
<1>2. runs' = (runs \ {r}) \cup {x}
  BY DEF P!To
<1>3. x.op \notin {"load", "allocs"}
  BY <1>1 DEF P!PagesInv, P!HandlersFit
<1>4. x.list \subseteq P!Rows
  BY <1>1, <1>3 DEF P!PagesInv, P!HandlersFit
<1> HIDE DEF x
<1>5. P!ListInv'
  <2> SUFFICES ASSUME ~disturbed' PROVE P!ListInv'
    BY DEF P!ListInv
  <2>1. ~disturbed
    OBVIOUS
  <2>2. ~P!Listing(r) /\ ~P!Listing(x)
    BY <1>1 DEF P!Listing
  <2>3. CASE rows' = rows /\ r.at = "sent"
    BY <1>2, <2>1, <2>2, <2>3 DEF P!PagesInv, P!ListInv, P!Listing, P!Changed, P!Current
  <2>4. CASE r.op # "drop" /\ at = "done"
    <3>1. P!Changed(x)
      BY <1>1, <2>4 DEF P!Changed
    <3> QED
      BY <1>2, <2>1, <2>2, <3>1 DEF P!PagesInv, P!ListInv, P!Listing, P!Changed
  <2> QED
    BY <2>3, <2>4
<1> QED
  BY <1>1, <1>2, <1>3, <1>4, <1>5, PagesMove

\* The server creates a row, deletes one, deletes an allocation, or refuses; or its answer
\* is lost.
LEMMA ServedKeeps ==
  ASSUME P!PagesInv, NEW r \in runs,
         P!Create(r) \/ P!Delete(r) \/ P!Drop(r) \/ P!Refuse(r) \/ P!LoseAnswer(r)
  PROVE  P!PagesInv'
<1>1. \A d \in dropped : AllocNode[d.item] = d.node
  BY DEF P!PagesInv, P!DetailsInv
<1>2. CASE P!Create(r)
  <2>1. /\ r.op = "create" /\ r.at = "sent" /\ rows' = rows \cup {r.item} /\ P!To(r, "done")
        /\ UNCHANGED <<page, shown, dialog, dialogs, busy, started, free, allocs, dropped,
                       disturbed>>
    BY <1>2 DEF P!Create
  <2>2. rows' \subseteq P!Rows
    BY <2>1, PagesTypes DEF P!PagesInv, P!HandlersFit, P!Rows
  <2> QED
    BY <1>1, <2>1, <2>2, PagesTypes, PagesServed
<1>3. CASE P!Delete(r)
  <2>1. /\ r.op = "delete" /\ r.at = "sent" /\ rows' \subseteq rows /\ free' \subseteq free
        /\ P!To(r, "done")
        /\ UNCHANGED <<page, shown, dialog, dialogs, busy, started, allocs,
                       dropped, disturbed>>
    BY <1>3 DEF P!Delete
  <2> QED
    BY <1>1, <2>1, PagesTypes, PagesServed
<1>4. CASE P!Drop(r)
  <2>1. /\ r.op = "drop" /\ r.at = "sent" /\ free' \subseteq free
        /\ AllocNode[r.item] = r.row /\ P!To(r, "done")
        /\ dropped' = dropped \cup {[node |-> r.row, item |-> r.item]}
        /\ UNCHANGED <<page, rows, shown, dialog, dialogs, busy, started, allocs,
                       disturbed>>
    BY <1>4 DEF P!Drop, P!Found
  <2>2. \A d \in dropped' : AllocNode[d.item] = d.node
    BY <1>1, <2>1
  <2> QED
    BY <1>1, <2>1, <2>2, PagesTypes, PagesServed
<1>5. CASE P!Refuse(r)
  <2>1. /\ r.at = "sent" /\ P!To(r, "failed")
        /\ UNCHANGED <<page, rows, shown, dialog, dialogs, busy, started, free, allocs,
                       dropped, disturbed>>
    BY <1>5 DEF P!Refuse
  <2> QED
    BY <1>1, <2>1, PagesTypes, PagesServed
<1>6. CASE P!LoseAnswer(r)
  <2>1. /\ r.at = "done" /\ P!To(r, "failed") /\ disturbed' = TRUE
        /\ UNCHANGED <<page, rows, shown, dialog, dialogs, busy, started, free, allocs,
                       dropped>>
    BY <1>6 DEF P!LoseAnswer
  <2> QED
    BY <1>1, <2>1, PagesTypes, PagesServed
<1> QED
  BY <1>2, <1>3, <1>4, <1>5, <1>6

\* The server answers with a list as it is then.
LEMMA ListKeeps ==
  ASSUME P!PagesInv, NEW r \in runs, P!List(r)
  PROVE  P!PagesInv'
<1>1. PICK list : list = P!Listed(r)
  OBVIOUS
<1>2. /\ r.op # "allocs" => P!Current(list) /\ list \subseteq P!Rows
      /\ r.op = "allocs" => list \subseteq {a \in Allocations : AllocNode[a] = r.row}
  BY <1>1, PagesTypes DEF P!Listed, P!Allocated, P!FirstPage, P!Current
<1> DEFINE x == [r EXCEPT !.at = "listed", !.list = list]
<1>3. /\ x \in P!Handler /\ x.op = r.op /\ x.row = r.row /\ x.item = r.item /\ x.at = "listed"
      /\ x.list = list
  BY <1>2, PagesTypes DEF P!Handler, P!Stages
<1>4. /\ runs' = (runs \ {r}) \cup {x} /\ r.at = "listing"
      /\ UNCHANGED <<page, rows, shown, dialog, dialogs, busy, started, free, allocs,
                     dropped, disturbed>>
  BY <1>1 DEF P!List
<1> HIDE DEF x
<1>5. P!ListInv'
  <2>1. P!Listing(x) <=> P!Listing(r)
    BY <1>3, <1>4 DEF P!Listing
  <2>2. ~P!Changed(x) /\ ~P!Changed(r)
    BY <1>3, <1>4 DEF P!Changed
  <2>3. P!Listing(x) => P!Current(x.list)'
    BY <1>2, <1>3, <1>4 DEF P!Listing, P!Current
  <2> QED
    BY <1>3, <1>4, <2>1, <2>2, <2>3, SMTT(30) DEF P!PagesInv, P!ListInv, P!Listing, P!Changed, P!Current
<1>6. \A d \in dropped : AllocNode[d.item] = d.node
  BY DEF P!PagesInv, P!DetailsInv
<1> QED
  BY <1>2, <1>3, <1>4, <1>5, <1>6, PagesTypes, PagesMove

\* The handler closes its dialog and loads the list again.
LEMMA SucceedKeeps ==
  ASSUME P!PagesInv, NEW r \in runs, P!Succeed(r)
  PROVE  P!PagesInv'
<1> DEFINE x == [r EXCEPT !.at = "listing"]
<1>1. /\ x \in P!Handler /\ x.op = r.op /\ x.row = r.row /\ x.item = r.item
      /\ x.at = "listing" /\ x.list = r.list
  BY HandlerAt DEF P!Stages
<1>2. /\ runs' = (runs \ {r}) \cup {x} /\ r.at = "done" /\ r.op # "drop"
      /\ dialog' = P!Closed(r) /\ disturbed' = (disturbed \/ P!Overtakes(r.op))
      /\ UNCHANGED <<page, rows, shown, dialogs, busy, started, free, allocs, dropped>>
  BY DEF P!Succeed, P!Reload, P!To
<1>3. r.op \in {"create", "edit", "delete"}
  <2>1. r.op \in {"load", "allocs", "create", "edit", "delete", "drop"}
    BY PagesTypes DEF P!Handler
  <2> QED
    BY <1>2, <2>1 DEF P!PagesInv, P!HandlersFit
<1>4. dialog' = dialog \/ dialog' = P!NoDialog
  BY <1>2 DEF P!Closed
<1>5. P!NoDialog.op = None /\ P!NoDialog.row = None
  BY DEF P!NoDialog
<1>6. dialog' \in P!Dialog
  BY <1>4, PagesTypes DEF P!NoDialog, P!Dialog
<1> HIDE DEF x
<1>7. /\ runs' \subseteq P!Handler' /\ P!Handler' = P!Handler
      /\ P!Dialog' = P!Dialog /\ P!Rows' = P!Rows
  BY <1>1, <1>2, PagesTypes DEF P!Handler, P!Dialog, P!Rows
<1>8. P!FlagsHeld'
  BY <1>1, <1>2, FlagsMove DEF P!PagesInv
<1>9. P!TypeOK'
  <2>1. busy' \subseteq {"creating", "saving"}
    BY <1>2, <1>7, <1>8, PagesTypes, FlagsTyped
  <2>2. \A s \in runs' : s.id \in 1 .. started' /\ s.at \in P!Stages
    BY <1>7 DEF P!Handler
  <2>3. dialog'.op \in {None} \cup P!Table[page] /\ dialog'.row \in P!Rows \cup {None}
    BY <1>6 DEF P!Dialog
  <2>4. disturbed' \in BOOLEAN
    BY <1>2, PagesTypes DEF P!Overtakes
  <2> QED
    BY <1>2, <1>7, <2>1, <2>2, <2>3, <2>4 DEF P!PagesInv, P!TypeOK
<1>10. P!HandlersFit'
  BY <1>1, <1>2, <1>3, <1>6, <1>7 DEF P!PagesInv, P!HandlersFit
<1>12. P!DetailsInv'
  <2>1. dialog'.op = "details" => dialog' = dialog
    BY <1>4, <1>5, PagesTypes
  <2>2. disturbed => disturbed'
    BY <1>2
  <2>3. x.op # "allocs" /\ r.op # "allocs"
    BY <1>1, <1>3
  <2> QED
    BY <1>2, <2>1, <2>2, <2>3 DEF P!PagesInv, P!DetailsInv
<1>13. P!ListInv'
  <2> SUFFICES ASSUME ~disturbed' PROVE P!ListInv'
    BY DEF P!ListInv
  <2>1. \A s \in runs : ~P!Listing(s)
    BY <1>2, <1>3 DEF P!Overtakes, P!Listing
  <2>2. P!Listing(x) /\ x.at # "listed"
    BY <1>1, <1>3 DEF P!Listing
  <2> QED
    BY <1>2, <2>1, <2>2 DEF P!ListInv, P!Listing
<1> QED
  BY <1>8, <1>9, <1>10, <1>12, <1>13 DEF P!PagesInv

\* A handler that neither loads the list nor changed a row ends, and the list stays.
LEMMA ListInvEnd ==
  ASSUME P!PagesInv, NEW r \in runs, P!End(r), ~P!Listing(r), ~P!Changed(r),
         UNCHANGED <<page, rows, shown, disturbed>>
  PROVE  P!ListInv'
<1>1. runs' = runs \ {r}
  BY DEF P!End
<1> QED
  BY <1>1 DEF P!PagesInv, P!ListInv, P!Listing, P!Changed, P!Current

\* The handlers that end.
LEMMA EndKeeps ==
  ASSUME P!PagesInv, NEW r \in runs,
         \/ P!Dropped(r) \/ P!Fail(r) \/ P!ShowList(r) \/ P!ListFails(r)
         \/ P!ShowAllocations(r) \/ P!AllocationsFail(r)
  PROVE  P!PagesInv'
<1>1. CASE P!Dropped(r)
  <2>1. /\ r.at = "done" /\ r.op = "drop" /\ allocs' \subseteq allocs /\ P!End(r)
        /\ UNCHANGED <<page, rows, shown, dialog, dialogs, started, free,
                       dropped, disturbed>>
    BY <1>1 DEF P!Dropped
  <2>2. ~P!Listing(r) /\ ~P!Changed(r)
    BY <2>1 DEF P!Listing, P!Changed
  <2> QED
    BY <2>1, <2>2, PagesTypes, ListInvEnd, PagesEnd
<1>2. CASE P!Fail(r)
  <2>1. /\ r.at = "failed" /\ P!End(r)
        /\ UNCHANGED <<page, rows, shown, dialog, dialogs, started, free, allocs,
                       dropped, disturbed>>
    BY <1>2 DEF P!Fail
  <2>2. ~P!Listing(r) /\ ~P!Changed(r) /\ r.op # "allocs"
    BY <2>1 DEF P!Listing, P!Changed, P!PagesInv, P!HandlersFit
  <2> QED
    BY <2>1, <2>2, PagesTypes, ListInvEnd, PagesEnd
<1>3. CASE P!ShowList(r)
  <2>1. /\ r.at = "listed" /\ r.op # "allocs" /\ shown' = r.list /\ P!End(r)
        /\ UNCHANGED <<page, rows, dialog, dialogs, started, free, allocs,
                       dropped, disturbed>>
    BY <1>3 DEF P!ShowList
  <2>2. shown' \subseteq P!Rows
    BY <2>1 DEF P!PagesInv, P!HandlersFit
  <2>3. P!ListInv'
    <3> SUFFICES ASSUME ~disturbed PROVE P!ListInv'
      BY <2>1 DEF P!ListInv
    <3>1. runs' = runs \ {r} /\ P!Listing(r) /\ ~P!Changed(r)
      BY <2>1 DEF P!End, P!Listing, P!Changed
    <3>2. P!Current(shown)' \/ \E s \in runs' : P!Changed(s)
      BY <2>1, <3>1 DEF P!PagesInv, P!ListInv, P!Current
    <3>3. \A s \in runs' : ~P!Listing(s)
      BY <3>1 DEF P!PagesInv, P!ListInv
    <3> QED
      BY <3>2, <3>3 DEF P!ListInv, P!Listing, P!Changed
  <2> QED
    BY <2>1, <2>2, <2>3, PagesTypes, PagesEnd
<1>4. CASE P!ListFails(r)
  <2>1. /\ r.op # "allocs" /\ P!End(r) /\ disturbed' = TRUE
        /\ UNCHANGED <<page, rows, shown, dialog, dialogs, started, free, allocs,
                       dropped>>
    BY <1>4 DEF P!ListFails
  <2>2. P!ListInv'
    BY <2>1 DEF P!ListInv
  <2> QED
    BY <2>1, <2>2, PagesTypes, PagesEnd
<1>5. CASE P!ShowAllocations(r) \/ P!AllocationsFail(r)
  <2>1. /\ r.op = "allocs" /\ P!End(r)
        /\ allocs' = {} \/ (r.at = "listed" /\ allocs' = r.list)
        /\ UNCHANGED <<page, rows, shown, dialog, dialogs, started, free,
                       dropped, disturbed>>
    BY <1>5 DEF P!ShowAllocations, P!AllocationsFail
  <2>2. ~P!Listing(r) /\ ~P!Changed(r)
    BY <2>1 DEF P!Listing, P!Changed, P!PagesInv, P!HandlersFit
  <2>3. /\ allocs' \subseteq Allocations
        /\ ~disturbed /\ dialog.op = "details" => \A a \in allocs' : AllocNode[a] = dialog.row
    BY <2>1 DEF P!PagesInv, P!DetailsInv
  <2> QED
    BY <2>1, <2>2, <2>3, PagesTypes, ListInvEnd, PagesEnd
<1> QED
  BY <1>1, <1>2, <1>3, <1>4, <1>5

\* A form is submitted while its button is enabled.
LEMMA SubmitKeeps ==
  ASSUME P!PagesInv, P!Submit
  PROVE  P!PagesInv'
<1>1. PICK key \in IF dialog.op = "create" THEN Keys ELSE {None} :
        P!Start(dialog.op, dialog.row, key, "sent")
  BY DEF P!Submit
<1>7. PICK x : x = P!Run(dialog.op, dialog.row, key, "sent")
  OBVIOUS
<1>2. /\ runs' = runs \cup {x} /\ started' = started + 1 /\ started < MaxRuns
      /\ busy' = busy \cup P!Held(dialog.op) /\ P!FlagOf(dialog.op) \notin busy
      /\ dialog.op \in {"create", "edit", "delete"}
      /\ UNCHANGED <<page, rows, shown, dialog, dialogs, free, allocs,
                     dropped, disturbed>>
  BY <1>1, <1>7 DEF P!Submit, P!Start
<1>3. /\ x.op = dialog.op /\ x.row = dialog.row /\ x.item = key /\ x.at = "sent"
      /\ x.list = {} /\ x \in P!Handler' /\ (x.op = "create" => x.item \in Keys)
  BY <1>1, <1>2, <1>7, PagesTypes DEF P!Run, P!Handler, P!Dialog, P!Stages, P!Rows
<1>4. P!Held(x.op) \cap busy = {} /\ busy' = busy \cup P!Held(x.op)
  BY <1>2, <1>3 DEF P!Held
<1>5. dialog' \in P!Dialog' /\ x.op \in {"create", "edit", "delete"}
  BY <1>2, <1>3, PagesTypes DEF P!Dialog, P!Rows
<1>6. dialogs' <= MaxDialogs
  BY <1>2, PagesTypes
<1> QED
  BY <1>2, <1>3, <1>4, <1>5, <1>6, PagesTypes, PagesStart

\* An allocation is deleted from the details of a node.
LEMMA DropAllocationKeeps ==
  ASSUME P!PagesInv, NEW item \in Allocations, P!DropAllocation(item)
  PROVE  P!PagesInv'
<1>1. PICK x : x = P!Run("drop", dialog.row, item, "sent")
  OBVIOUS
<1>2. /\ runs' = runs \cup {x} /\ started' = started + 1 /\ started < MaxRuns
      /\ UNCHANGED <<page, rows, shown, dialog, dialogs, busy, free, allocs,
                     dropped, disturbed>>
  BY <1>1 DEF P!DropAllocation, P!Start
<1>3. /\ x.op = "drop" /\ x.row = dialog.row /\ x.at = "sent" /\ x.list = {}
      /\ x \in P!Handler'
  BY <1>1, <1>2, PagesTypes DEF P!Run, P!Handler, P!Dialog, P!Stages, P!Rows
<1>4. P!Held(x.op) = {}
  BY <1>3, PagesTypes, PageFacts
<1>5. dialog' \in P!Dialog' /\ dialogs' <= MaxDialogs
  BY <1>2, PagesTypes DEF P!Dialog, P!Rows
<1>6. P!Held(x.op) \cap busy = {} /\ busy' = busy \cup P!Held(x.op)
  BY <1>2, <1>4
<1> QED
  BY <1>2, <1>3, <1>5, <1>6, PagesTypes, PagesStart

\* The details of a node are opened and its allocations loaded.
LEMMA OpenDetailsKeeps ==
  ASSUME P!PagesInv, NEW node \in Ids, P!OpenDetails(node)
  PROVE  P!PagesInv'
<1>1. PICK x : x = P!Run("allocs", node, None, "listing")
  OBVIOUS
<1>2. /\ runs' = runs \cup {x} /\ started' = started + 1 /\ started < MaxRuns
      /\ dialogs' = dialogs + 1 /\ dialogs < MaxDialogs /\ dialog = P!NoDialog
      /\ dialog' = [op |-> "details", row |-> node]
      /\ "details" \in P!Table[page]
      /\ disturbed' = (disturbed \/ P!Overtakes("allocs"))
      /\ UNCHANGED <<page, rows, shown, busy, free, allocs, dropped>>
  BY <1>1 DEF P!OpenDetails
<1>3. /\ x.op = "allocs" /\ x.row = node /\ x.at = "listing" /\ x.list = {}
      /\ x \in P!Handler'
  BY <1>1, <1>2, PagesTypes DEF P!Run, P!Handler, P!Stages, P!Rows
<1>4. /\ dialog'.op = "details" /\ dialog'.row = node
      /\ dialog' \in P!Dialog'
  BY <1>2, PagesTypes DEF P!Dialog, P!Rows
<1>5. dialog' # dialog
  BY <1>2, <1>4, PagesTypes DEF P!NoDialog
<1>6. P!Held(x.op) \cap busy = {} /\ busy' = busy \cup P!Held(x.op)
  <2>1. P!Held(x.op) = {}
    BY <1>3, PagesTypes, PageFacts
  <2> QED
    BY <1>2, <2>1
<1>7. ~disturbed' => \A s \in runs : s.op # "allocs"
  BY <1>2 DEF P!Overtakes, P!PagesInv, P!HandlersFit
<1>8. disturbed' \in BOOLEAN /\ (disturbed => disturbed')
  BY <1>2, PagesTypes DEF P!Overtakes
<1>9. dialogs' \in {dialogs, dialogs + 1} /\ dialogs' <= MaxDialogs
  BY <1>2, PagesTypes
<1>10. UNCHANGED <<page, rows, shown, free, allocs, dropped>>
  BY <1>2
<1>11. runs' = runs \cup {x} /\ started' = started + 1 /\ started < MaxRuns
  BY <1>2
<1> QED
  BY <1>3, <1>4, <1>5, <1>6, <1>7, <1>8, <1>9, <1>10, <1>11, PagesStart

\* A dialog is opened or closed.
LEMMA DialogKeeps ==
  ASSUME P!PagesInv,
         \/ P!Cancel
         \/ \E op \in {"create", "edit", "delete"}, row \in P!Rows \cup {None} : P!Open(op, row)
  PROVE  P!PagesInv'
<1>1. UNCHANGED <<page, rows, shown, busy, runs, started, free, allocs,
                  dropped, disturbed>>
  BY DEF P!Cancel, P!Open
<1>2. PICK op \in {None, "create", "edit", "delete"}, row \in P!Rows \cup {None} :
        /\ dialog' = [op |-> op, row |-> row]
        /\ dialogs' = dialogs \/ (dialogs' = dialogs + 1 /\ dialogs < MaxDialogs)
        /\ op \in {None} \cup P!Table[page]
  <2>1. CASE P!Cancel
    BY <2>1 DEF P!Cancel, P!NoDialog
  <2>2. ASSUME NEW op \in {"create", "edit", "delete"}, NEW row \in P!Rows \cup {None},
               P!Open(op, row)
        PROVE  /\ dialog' = [op |-> op, row |-> row]
               /\ dialogs' = dialogs + 1 /\ dialogs < MaxDialogs
               /\ op \in {None} \cup P!Table[page]
    BY <2>2 DEF P!Open
  <2> QED
    BY <2>1, <2>2
<1>3. /\ dialog'.op = op /\ dialog'.row = row /\ dialogs' \in 0 .. MaxDialogs
      /\ dialog' \in P!Dialog'
  BY <1>1, <1>2, PagesTypes DEF P!Dialog, P!Rows
<1>4. P!Handler \subseteq P!Handler' /\ P!Rows' = P!Rows
  BY <1>1, <1>3, PagesTypes DEF P!Handler, P!Rows
<1>5. P!TypeOK'
  BY <1>1, <1>2, <1>3, <1>4 DEF P!PagesInv, P!TypeOK
<1>6. P!FlagsHeld'
  BY <1>1 DEF P!PagesInv, P!FlagsHeld, P!Held, P!FlagOf
<1>7. P!HandlersFit'
  BY <1>1, <1>3, <1>4 DEF P!PagesInv, P!HandlersFit
<1>9. P!ListInv'
  BY <1>1 DEF P!PagesInv, P!ListInv, P!Listing, P!Changed, P!Current
<1>10. P!DetailsInv'
  <2>1. dialog'.op # "details"
    BY <1>3, PagesTypes
  <2> QED
    BY <1>1, <2>1 DEF P!PagesInv, P!DetailsInv
<1> QED
  BY <1>5, <1>6, <1>7, <1>9, <1>10 DEF P!PagesInv

\* Every step of a page.
LEMMA PagesStep == P!PagesInv /\ [P!Next]_pagesVars => P!PagesInv'
<1> SUFFICES ASSUME P!PagesInv, [P!Next]_pagesVars PROVE P!PagesInv'
  OBVIOUS
<1>1. CASE UNCHANGED pagesVars
  <2>1. UNCHANGED <<page, rows, shown, dialog, dialogs, busy, runs, started, free, allocs,
                    dropped, disturbed>>
    BY <1>1 DEF pagesVars
  <2>2. P!Handler' = P!Handler /\ P!Dialog' = P!Dialog
    BY <2>1 DEF P!Handler, P!Dialog, P!Rows
  <2>3. P!TypeOK' /\ P!HandlersFit'
    BY <2>1, <2>2 DEF P!PagesInv, P!TypeOK, P!HandlersFit
  <2>4. P!FlagsHeld' /\ P!ListInv' /\ P!DetailsInv'
    BY <2>1 DEF P!PagesInv, P!FlagsHeld, P!Held, P!FlagOf, P!ListInv, P!Listing, P!Changed,
                P!Current, P!DetailsInv
  <2> QED
    BY <2>3, <2>4 DEF P!PagesInv
<1>2. CASE \/ P!Cancel
           \/ \E op \in {"create", "edit", "delete"}, row \in P!Rows \cup {None} :
                P!Open(op, row)
  BY <1>2, DialogKeeps
<1>3. CASE P!Submit
  BY <1>3, SubmitKeeps
<1>4. CASE \E node \in Ids : P!OpenDetails(node)
  BY <1>4, OpenDetailsKeeps
<1>5. CASE \E a \in Allocations : P!DropAllocation(a)
  BY <1>5, DropAllocationKeeps
<1>6. ASSUME NEW r \in runs,
             P!Create(r) \/ P!Delete(r) \/ P!Drop(r) \/ P!Refuse(r) \/ P!LoseAnswer(r)
      PROVE  P!PagesInv'
  BY <1>6, ServedKeeps
<1>7. ASSUME NEW r \in runs, P!List(r)
      PROVE  P!PagesInv'
  BY <1>7, ListKeeps
<1>8. ASSUME NEW r \in runs, P!Succeed(r)
      PROVE  P!PagesInv'
  BY <1>8, SucceedKeeps
<1>9. ASSUME NEW r \in runs,
             \/ P!Dropped(r) \/ P!Fail(r) \/ P!ShowList(r) \/ P!ListFails(r)
             \/ P!ShowAllocations(r) \/ P!AllocationsFail(r)
      PROVE  P!PagesInv'
  BY <1>9, EndKeeps
<1> QED
  BY <1>1, <1>2, <1>3, <1>4, <1>5, <1>6, <1>7, <1>8, <1>9 DEF P!Next

\* A page that was just opened loads its list.
LEMMA PagesInit == P!Init => P!PagesInv
<1> SUFFICES ASSUME P!Init PROVE P!PagesInv
  OBVIOUS
<1>1. PICK x : x = [id |-> 1, op |-> "load", row |-> None, item |-> None,
                    at |-> "listing", list |-> {}]
  OBVIOUS
<1>2. /\ page \in DOMAIN P!Handlers /\ rows = Ids /\ shown = {} /\ free \subseteq Allocations
      /\ allocs = {} /\ dialog = P!NoDialog /\ dialogs = 0 /\ busy = {} /\ runs = {x}
      /\ started = 1 /\ dropped = {} /\ disturbed = FALSE
  BY <1>1 DEF P!Init
<1>3. /\ x \in P!Handler /\ x.op = "load" /\ x.at = "listing" /\ x.list = {} /\ x.id = 1
  BY <1>1, <1>2 DEF P!Handler, P!Stages
<1>4. dialog \in P!Dialog /\ dialog.op = None /\ dialog.row = None
  BY <1>2 DEF P!Dialog, P!NoDialog
<1>5. P!Held("load") = {}
  BY <1>2, PageFacts
<1>6. /\ MaxRuns \in Nat \ {0} /\ MaxDialogs \in Nat
      /\ None \notin {"create", "edit", "delete", "details"}
  BY PagesConstants DEF P!PagesAssumption
<1>7. P!TypeOK
  <2>1. dialogs \in 0 .. MaxDialogs /\ started \in 1 .. MaxRuns
    BY <1>2, <1>6
  <2>2. \A r \in runs : r.id \in 1 .. started /\ r.at \in P!Stages
    BY <1>2, <1>3 DEF P!Stages
  <2> QED
    BY <1>2, <1>4, <2>1, <2>2 DEF P!TypeOK, P!Rows
<1>8. P!FlagsHeld
  BY <1>2, <1>3, <1>5 DEF P!FlagsHeld
<1>9. P!HandlersFit
  BY <1>2, <1>3, <1>4 DEF P!HandlersFit
<1>10. P!ListInv /\ P!DetailsInv
  BY <1>2, <1>3, <1>4, <1>6 DEF P!ListInv, P!Listing, P!DetailsInv
<1> QED
  BY <1>7, <1>8, <1>9, <1>10 DEF P!PagesInv

-----------------------------------------------------------------------------
(* The theorems.                                                           *)

\* What the invariant of the dialog says holds in every behaviour of it.
THEOREM WizardAlways == Spec => []WizardInv
<1> QED
  BY WizardInit, WizardStep, PTL DEF Spec

\* What handleSubmit sends fits together, whatever way the user went through the steps and
\* in whatever order the lists arrived.
THEOREM PayloadAlwaysFits == Spec => []PayloadFits
<1>1. WizardInv => PayloadFits
  BY DEF WizardInv
<1> QED
  BY <1>1, WizardAlways, PTL

\* A dialog has one creation in flight and shows that it has, also over closing and opening it;
\* one that was left for another page and mounted anew starts without.
THEOREM OneCreationAlways == Spec => []OneCreation
<1>1. WizardInv => OneCreation
  BY DEF WizardInv
<1> QED
  BY <1>1, WizardAlways, PTL

\* What the invariant of the pages says holds in every behaviour of each.
THEOREM PagesAlways == P!Spec => []P!PagesInv
<1>1. P!Init => P!PagesInv
  BY PagesInit
<1>2. P!PagesInv /\ [P!Next]_(P!pageVars) => P!PagesInv'
  BY PagesStep DEF P!pageVars, pagesVars
<1> QED
  BY <1>1, <1>2, PTL DEF P!Spec

\* Once its handlers have ended a page lists the first page of what the server has, unless
\* lists overtook each other, failed, or an answer was lost.
THEOREM ListAlwaysCurrent == P!Spec => []ListCurrent
<1>1. P!PagesInv => ListCurrent
  BY DEF P!PagesInv, P!ListInv, P!Current, P!ListCurrent, ListCurrent
<1> QED
  BY <1>1, PagesAlways, PTL

\* A button is disabled exactly while the handler that disabled it runs.
THEOREM FlagsAlwaysHeld == P!Spec => []FlagsHeld
<1>1. P!PagesInv => FlagsHeld
  BY DEF P!PagesInv, FlagsHeld
<1> QED
  BY <1>1, PagesAlways, PTL

\* Allocations are deleted under their own node, and the details come to show that node's.
THEOREM DetailsAlwaysOfNode == P!Spec => []DetailsOfNode
<1>1. P!PagesInv => DetailsOfNode
  BY DEF P!PagesInv, P!DetailsInv, P!DetailsOfNode, DetailsOfNode
<1> QED
  BY <1>1, PagesAlways, PTL

\* The variables of the dialog and of the pages keep their types.
THEOREM TypesAlwaysOK == Spec /\ P!Spec => []TypesOK
<1>1. WizardInv /\ P!PagesInv => TypesOK
  BY DEF WizardInv, P!PagesInv, TypesOK
<1> QED
  BY <1>1, WizardAlways, PagesAlways, PTL

\* The run of MCFrontend, in which one part moves at a time, is a run of both: the theorems
\* above are about everything TLC explores there.
THEOREM FrontendRun == MCSpec => Spec /\ P!Spec
<1> DEFINE all == <<part, wizardVars, pagesVars>>
<1>1. MCInit => Init /\ P!Init
  BY DEF MCInit
<1>2. [MCNext]_all => [Next]_wizardVars
  BY DEF MCNext
<1>3. [MCNext]_all => [P!Next]_(P!pageVars)
  BY DEF MCNext, pagesVars, P!pageVars
<1> QED
  BY <1>1, <1>2, <1>3, PTL DEF MCSpec, Spec, P!Spec
=============================================================================
