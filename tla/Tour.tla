-------------------------------- MODULE Tour --------------------------------
(***************************************************************************)
(* The user-onboarding library: a tour of numbered steps over the pages of *)
(* an Angular application (TourServiceService), saved at every step so     *)
(* that it resumes after the page was reloaded.                            *)
(*                                                                         *)
(* The next step of step s is s + 1, and its routes are filled in as the   *)
(* documentation of the library asks.  A tour that resumes at step f keeps *)
(* the steps from f on (tourSteps) apart from those before f               *)
(* (removedSteps); the handlers its buttons get are the moves below, which *)
(* know f.  The state is kept in localStorage, the default.  The router    *)
(* and Shepherd are external: a navigation to the page that is open is     *)
(* ignored, a new one replaces one under way, and the end of one is        *)
(* announced to everybody who ever subscribed.                             *)
(***************************************************************************)
EXTENDS Naturals

CONSTANTS
  NumSteps,  \* how many steps the tour has
  Pages,     \* the pages of the application
  NoPage,    \* not a page
  Route,     \* the page each step is on
  Attached,  \* the steps that are attached to an element of their page
  MaxActs    \* bound: how often the user does something

Steps == 1 .. NumSteps

ASSUME StepsAssumption == NumSteps \in Nat /\ NumSteps > 0
ASSUME RouteAssumption == Route \in [Steps -> Pages] /\ NoPage \notin Pages
ASSUME AttachedAssumption == Attached \subseteq Steps
ASSUME BoundAssumption == MaxActs \in Nat

VARIABLES
  stored,     \* the saved state of the tour
  phase,      \* what has become of run() since the page was loaded
  first,      \* the step the tour started at
  shown,      \* the step on the screen, or 0
  page,       \* the page that is open
  target,     \* the page the router is navigating to, if any
  listeners,  \* how many handlers of each move listen to the router
  waiting,    \* how many moves wait for the element of their step
  acts,       \* what the user has done so far, counted
  reached     \* the furthest step ever shown, the first step included

tourVars ==
  <<stored, phase, first, shown, page, target, listeners, waiting, acts, reached>>

\* A click on Next or Previous of a step, in a tour started at first.
Moves == [dir : {"next"}, step : 1 .. NumSteps - 1, first : Steps]
           \cup [dir : {"prev"}, step : 2 .. NumSteps, first : Steps]
NoMoves == [m \in Moves |-> 0]
NoState == [status |-> "none", step |-> 0]
InProgress(s) == [status |-> "inProgress", step |-> s]
Complete == [status |-> "complete", step |-> 0]

\* The documented routes of the steps.
NextRoute(s) == IF s = NumSteps THEN Route[s] ELSE Route[s + 1]
PrevRoute(s) == IF s = 1 THEN Route[s] ELSE Route[s - 1]

\* The move was clicked on one of removedSteps.
IsRemoved(m) == m.step < m.first

\* The neighbour a move leads to: nextStepId and prevStepId within one of the
\* two lists, its first or last element across them.
TargetTwoOn(m) ==                                    \* mutant: off by one
  IF m.dir = "prev" THEN m.step - 1
  ELSE IF m.step + 2 > NumSteps THEN NumSteps ELSE m.step + 2
TargetStep(m) == IF m.dir = "next" THEN m.step + 1 ELSE m.step - 1

\* The route a click navigates to.  Across the lists it is a route of the
\* neighbour, not of the step itself.
Url(m) ==
  IF m.dir = "next"
  THEN NextRoute(IF m.step = m.first - 1 THEN m.first ELSE m.step)
  ELSE PrevRoute(IF m.step = m.first THEN m.first - 1 ELSE m.step)

\* The page at which the subscribed handler moves on.  A handler looks its step
\* up in tourSteps; if that has no such step, it throws at the next navigation
\* and is gone.
Expected(m) ==
  IF \/ TargetStep(m) >= m.first
     \/ m.dir = "prev" /\ m.step = m.first
  THEN Route[TargetStep(m)] ELSE NoPage

\* waitForElement finds what it looks for.
Present(s) == s \in Attached => page = Route[s]

\* The step a tour resumes at: getTourSteps keeps it and those after it.
ResumedAfter(state) ==                               \* mutant: drops it as well
  IF state.status = "none" THEN 1 ELSE state.step + 1
Resumed(state) == IF state.status = "none" THEN 1 ELSE state.step

-----------------------------------------------------------------------------
(* Running the tour. *)

Act == acts < MaxActs /\ acts' = acts + 1

\* A tour that has been completed does not run again.
Run ==
  /\ phase = "loaded" /\ stored.status # "complete"
  /\ phase' = "starting"
  /\ first' = Resumed(stored)
  /\ stored' = IF stored.status = "none" THEN InProgress(1) ELSE stored
  /\ UNCHANGED <<shown, page, target, listeners, waiting, acts, reached>>

Show(s) ==
  /\ shown' = s
  /\ reached' = IF s > reached THEN s ELSE reached

\* The first element is there: the tour starts, and the removed steps are put
\* in front of it.
Start ==
  /\ phase = "starting" /\ Present(first)
  /\ phase' = "running"
  /\ Show(first)
  /\ UNCHANGED <<stored, first, page, target, listeners, waiting, acts>>

StartFails ==
  /\ phase = "starting" /\ first \in Attached
  /\ phase' = "loaded"
  /\ UNCHANGED <<stored, first, shown, page, target, listeners, waiting, acts, reached>>

-----------------------------------------------------------------------------
(* The buttons. *)

Wait(m) ==
  /\ waiting' = [waiting EXCEPT ![m] = @ + 1]
  /\ UNCHANGED <<target, listeners>>

\* The router ignores a navigation to the page that is open.
Navigate(p) == target' = IF p = page THEN NoPage ELSE p

NavigateAndWait(m) ==
  /\ Navigate(Url(m))
  /\ listeners' = IF Expected(m) = NoPage THEN listeners
                  ELSE [listeners EXCEPT ![m] = @ + 1]
  /\ UNCHANGED waiting

Stays(m) ==
  Route[m.step] = IF m.dir = "next" THEN NextRoute(m.step) ELSE PrevRoute(m.step)

ClickNext ==
  /\ Act /\ shown # 0 /\ shown < NumSteps
  /\ LET m == [dir |-> "next", step |-> shown, first |-> first] IN
     IF Stays(m) THEN Wait(m) ELSE NavigateAndWait(m)
  /\ UNCHANGED <<stored, phase, first, shown, page, reached>>

\* Step 1 can't have a previous button.
ClickPrev ==
  /\ Act /\ shown > 1
  /\ LET m == [dir |-> "prev", step |-> shown, first |-> first] IN
     IF Stays(m) THEN Wait(m) ELSE NavigateAndWait(m)
  /\ UNCHANGED <<stored, phase, first, shown, page, reached>>

\* Next on the last step completes the tour.
ClickDone ==
  /\ Act /\ shown = NumSteps
  /\ stored' = Complete
  /\ shown' = 0
  /\ UNCHANGED <<phase, first, page, target, listeners, waiting, reached>>

\* Every handler that ever subscribed hears of the end of a navigation.
NavigationEnd ==
  /\ target # NoPage
  /\ page' = target /\ target' = NoPage
  /\ waiting' = [m \in Moves |->
       waiting[m] + IF Expected(m) = target THEN listeners[m] ELSE 0]
  /\ UNCHANGED <<stored, phase, first, shown, listeners, acts, reached>>

\* The element is there: the state is saved and the step shown, whatever is on
\* the screen by now.
FoundElement(m) ==
  /\ waiting[m] > 0 /\ Present(TargetStep(m))
  /\ waiting' = [waiting EXCEPT ![m] = @ - 1]
  /\ stored' = InProgress(TargetStep(m))
  /\ Show(TargetStep(m))
  /\ UNCHANGED <<phase, first, page, target, listeners, acts>>

\* maxWaitTime is over: tourFailed is emitted, and nothing else happens.
TimedOut(m) ==
  /\ waiting[m] > 0 /\ TargetStep(m) \in Attached
  /\ waiting' = [waiting EXCEPT ![m] = @ - 1]
  /\ UNCHANGED <<stored, phase, first, shown, page, target, listeners, acts, reached>>

-----------------------------------------------------------------------------
(* The user and the browser. *)

\* Shepherd's cancel icon, or escape.
Cancel ==
  /\ Act /\ shown # 0
  /\ shown' = 0
  /\ UNCHANGED <<stored, phase, first, page, target, listeners, waiting, reached>>

Wander(p) ==
  /\ Act /\ p # page
  /\ Navigate(p)
  /\ UNCHANGED <<stored, phase, first, shown, page, listeners, waiting, reached>>

\* Only what was stored survives.
Reload(p) ==
  /\ Act
  /\ phase' = "loaded" /\ shown' = 0
  /\ page' = p /\ target' = NoPage
  /\ listeners' = NoMoves /\ waiting' = NoMoves
  /\ UNCHANGED <<stored, first, reached>>

-----------------------------------------------------------------------------

TourInit ==
  /\ stored = NoState /\ phase = "loaded" /\ first = 1 /\ shown = 0
  /\ page \in Pages /\ target = NoPage
  /\ listeners = NoMoves /\ waiting = NoMoves
  /\ acts = 0 /\ reached = 1

TourNext ==
  \/ Run \/ Start \/ StartFails
  \/ ClickNext \/ ClickPrev \/ ClickDone
  \/ NavigationEnd
  \/ \E m \in Moves : FoundElement(m) \/ TimedOut(m)
  \/ Cancel
  \/ \E p \in Pages : Wander(p) \/ Reload(p)

TourSpec == TourInit /\ [][TourNext]_tourVars

-----------------------------------------------------------------------------
(* Properties. *)

\* Every variable holds a value of its type.
TourTypeOK ==
  /\ stored \in [status : {"none", "inProgress", "complete"}, step : 0 .. NumSteps]
  /\ phase \in {"loaded", "starting", "running"}
  /\ first \in Steps /\ shown \in 0 .. NumSteps
  /\ page \in Pages /\ target \in Pages \cup {NoPage}
  /\ listeners \in [Moves -> Nat] /\ waiting \in [Moves -> Nat]
  /\ acts \in 0 .. MaxActs /\ reached \in Steps

\* Whatever was clicked, however often, on a tour that was resumed or not, and
\* whichever old handler wakes up: a tour on the screen resumes, after a
\* reload, at the step the user is looking at.
ScreenMatchesStore == shown # 0 => stored = InProgress(shown)

\* No step is shown to a user who has not seen all those before it: neither a
\* late handler nor a resumption jumps ahead.
NoStepSkipped == [][reached' <= reached + 1]_reached

\* README.md of the library: "to enable multipage tour functionality provide
\* the previous step url in prevRoute and next step url in nextRoute".  A click
\* on Next takes the user from the page of a step to the page of the next one.
NextOpensNextPage ==
  [][ClickNext /\ page = Route[shown] /\ Route[shown] # Route[shown + 1] =>
       target' = Route[shown + 1]]_tourVars
=============================================================================
