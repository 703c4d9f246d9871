------------------------------ MODULE Workers -------------------------------
(***************************************************************************)
(* The external-task workers of the BPMN service: how they are registered  *)
(* in the map bound to WORKER_MAP, subscribed to the engine when a         *)
(* workflow is executed and unsubscribed by a failed poll.                 *)
(*                                                                         *)
(* Until somebody sets it, WORKER_MAP is a dynamic value: every get makes  *)
(* a new, empty map.  A map is named after the registration that got it    *)
(* first, a worker after its registration.  Providers live as long as a    *)
(* request, so each execution has an engine client of its own.  The client *)
(* is external: it polls while something is subscribed, and tells every    *)
(* listener when a poll fails.                                             *)
(***************************************************************************)
EXTENDS Naturals, FiniteSets

CONSTANTS
  Name,           \* the workflows' names
  NoName,
  MaxWorkers,     \* bound: how many workers are registered
  MaxExecutions   \* bound: how many workflows are executed

Worker == 1 .. MaxWorkers
Execution == 1 .. MaxExecutions
DynamicValue == 0

ASSUME WorkersAssumption ==
  MaxWorkers \in Nat /\ MaxExecutions \in Nat /\ NoName \notin Name

VARIABLES
  bound,      \* the map that WORKER_MAP is bound to
  got,        \* the map each registration has got
  registered, \* whether it has returned
  nameOf,     \* the workflow of each worker
  map,        \* the workers in each map
  running,    \* worker.running
  listening,  \* the workers subscribed at each execution's client
  executed    \* how many executions there have been

workersVars ==
  <<bound, got, registered, nameOf, map, running, listening, executed>>

Registering == {w \in Worker : got[w] # DynamicValue /\ ~registered[w]}

GetWorkerMap(w, n) ==
  /\ got[w] = DynamicValue
  /\ \A v \in Worker : v < w => got[v] # DynamicValue
  /\ nameOf' = [nameOf EXCEPT ![w] = n]
  /\ got' = [got EXCEPT ![w] = IF bound = DynamicValue THEN w ELSE bound]
  /\ UNCHANGED <<bound, registered, map, running, listening, executed>>

\* The binding is set only when the workflow had no worker in the map.
BoundAfter(w) ==
  IF \E v \in map[got[w]] : nameOf[v] = nameOf[w] THEN bound ELSE got[w]

AddWorker(w) ==
  /\ w \in Registering
  /\ map' = [map EXCEPT ![got[w]] = @ \union {w}]
  /\ bound' = BoundAfter(w)
  /\ registered' = [registered EXCEPT ![w] = TRUE]
  /\ UNCHANGED <<got, nameOf, running, listening, executed>>

StartingAll(n) ==                      \* mutant: running is not looked at
  {w \in map[bound] : nameOf[w] = n}
Starting(n) == {w \in map[bound] : nameOf[w] = n /\ ~running[w]}

\* initWorkers, after the engine has started the workflow: nothing in it waits
\* for anything but what is there, so it is one step.
InitWorkers(n) ==
  /\ executed < MaxExecutions
  /\ executed' = executed + 1
  /\ IF bound = DynamicValue THEN UNCHANGED <<running, listening>>
     ELSE /\ running' = [w \in Worker |-> running[w] \/ w \in Starting(n)]
          /\ listening' = [listening EXCEPT ![executed + 1] = Starting(n)]
  /\ UNCHANGED <<bound, got, registered, nameOf, map>>

PollError(e) ==
  /\ listening[e] # {}
  /\ running' = [w \in Worker |-> running[w] /\ w \notin listening[e]]
  /\ listening' = [listening EXCEPT ![e] = {}]
  /\ UNCHANGED <<bound, got, registered, nameOf, map, executed>>

WorkersInit ==
  /\ bound = DynamicValue
  /\ got = [w \in Worker |-> DynamicValue]
  /\ registered = [w \in Worker |-> FALSE]
  /\ nameOf = [w \in Worker |-> NoName]
  /\ map = [w \in Worker |-> {}]
  /\ running = [w \in Worker |-> FALSE]
  /\ listening = [e \in Execution |-> {}]
  /\ executed = 0

WorkersNext ==
  \/ \E w \in Worker : AddWorker(w) \/ \E n \in Name : GetWorkerMap(w, n)
  \/ \E n \in Name : InitWorkers(n)
  \/ \E e \in Execution : PollError(e)

WorkersSpec == WorkersInit /\ [][WorkersNext]_workersVars

-----------------------------------------------------------------------------
(* What the code guarantees.                                               *)

WorkersTypeOK ==
  /\ bound \in Worker \union {DynamicValue}
  /\ got \in [Worker -> Worker \union {DynamicValue}]
  /\ registered \in [Worker -> BOOLEAN]
  /\ nameOf \in [Worker -> Name \union {NoName}]
  /\ map \in [Worker -> SUBSET Worker]
  /\ running \in [Worker -> BOOLEAN]
  /\ listening \in [Execution -> SUBSET Worker]
  /\ executed \in 0 .. MaxExecutions

\* A task is handled once, and a worker that has stopped can be started again:
\* whatever overlaps, a worker counts as running exactly while it is subscribed,
\* and is subscribed at one client (initWorkers against the listeners of
\* poll:error that earlier executions have left behind).
RunsOnce ==
  \A w \in Worker :
    Cardinality({e \in Execution : w \in listening[e]}) = IF running[w] THEN 1 ELSE 0

=============================================================================
