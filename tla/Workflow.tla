------------------------------ MODULE Workflow ------------------------------
(***************************************************************************)
(* The bpmn service: creating, updating and deleting workflows and their   *)
(* versions (WorkflowController) over the tables workflows and             *)
(* workflow_versions and the definitions of a workflow engine.  A request  *)
(* takes one step for each call of the engine and each database statement  *)
(* its handler awaits.                                                     *)
(*                                                                         *)
(* Requests are numbered in the order they start and run once, so the      *)
(* number of a create also names the workflow it creates.  A definition    *)
(* stands for its version number and for the external identifier the row   *)
(* keeps with it; diagrams, schemas and descriptions are left out.  A call *)
(* the handler rejects before it changes anything is a call that was not   *)
(* made.  The engine is external: it numbers the definitions of a process  *)
(* key 1, 2, 3, ... and never uses a number twice.                         *)
(***************************************************************************)
EXTENDS Naturals, FiniteSets

CONSTANTS
  ProcessKeys,    \* process keys of the deployed diagrams
  MaxJobs,        \* bound: how many requests the clients issue in all
  MaxJobsAtOnce,  \* bound: how many of them are handled at the same time
  Faults          \* statements and engine calls fail, servers crash

Jobs == 1 .. MaxJobs
Definitions == [key : ProcessKeys, num : Nat]

ASSUME WorkflowBounds == MaxJobs \in Nat /\ MaxJobsAtOnce \in Nat
ASSUME FaultsAssumption == Faults \in BOOLEAN

VARIABLES
  deployed,  \* engine: how many definitions of each key were deployed
  engine,    \* engine: the definitions it has
  workflow,  \* table workflows
  versions,  \* table workflow_versions
  jobPc,     \* the statement each handler is at
  job,       \* what each request asks for
  def,       \* the definition a handler has deployed or found
  listed     \* the definitions deleteById has read

workflowVars == <<deployed, engine, workflow, versions, jobPc, job, def, listed>>

NoDef == [key |-> "none", num |-> 0]
NoWorkflow == [status |-> "none", def |-> NoDef]
NoJob == [op |-> "none", wf |-> 0, num |-> 0, seen |-> FALSE]

Exists(w) == workflow[w].status # "none"
Live(w) == workflow[w].status = "live"
RemovedAs(row) == [row EXCEPT !.status = "removed"]   \* mutant: no such status
Removed(row) == [row EXCEPT !.status = "deleted"]     \* soft delete

VersionRow(w, d) == [wf |-> w, def |-> d]

\* The primary key of the table is (version, workflow_id).
Taken(w, n) == \E x \in versions : x.wf = w /\ x.def.num = n

\* findOne({where: {workflowId, version}})
FoundAnywhere(w, n) == {x \in versions : x.def.num = n}  \* mutant: no workflowId
Found(w, n) == {x \in versions : x.wf = w /\ x.def.num = n}

\* The check that protects the latest version from being deleted.
NotChecked(w, n) == TRUE                                 \* mutant: no check
NotLatest(w, n) == workflow[w].def.num # n

-----------------------------------------------------------------------------
(* Requests. *)

Underway(r) == jobPc[r] \notin {"idle", "done", "failed"}

BeginJob(r, c, at) ==
  /\ job' = [job EXCEPT ![r] = c]
  /\ jobPc' = [jobPc EXCEPT ![r] = at]

GoOn(r, at) ==
  /\ jobPc' = [jobPc EXCEPT ![r] = at]
  /\ UNCHANGED job

\* The engine deploys the next definition of key k and answers with it.
Deploy(r, k) ==
  LET d == [key |-> k, num |-> deployed[k] + 1] IN
  /\ deployed' = [deployed EXCEPT ![k] = d.num]
  /\ engine' = engine \cup {d}
  /\ def' = [def EXCEPT ![r] = d]
  /\ UNCHANGED <<workflow, versions, listed>>

-----------------------------------------------------------------------------
(* POST /workflows and PATCH /workflows/{id}. *)

Create(r, k) ==
  /\ BeginJob(r, [op |-> "create", wf |-> r, num |-> 0, seen |-> FALSE], "c_row")
  /\ Deploy(r, k)

CreateRow(r) ==
  /\ jobPc[r] = "c_row"
  /\ workflow' = [workflow EXCEPT ![r] = [status |-> "live", def |-> def[r]]]
  /\ GoOn(r, "version")
  /\ UNCHANGED <<deployed, engine, versions, def, listed>>

\* updateById asks the engine before it looks for the workflow, and deploys the
\* diagram it is given, of whatever key.
Update(r, w, k) ==
  /\ Exists(w)
  /\ BeginJob(r, [op |-> "update", wf |-> w, num |-> 0, seen |-> FALSE], "u_row")
  /\ Deploy(r, k)

UpdateRow(r) ==
  /\ jobPc[r] = "u_row" /\ Live(job[r].wf)
  /\ workflow' = [workflow EXCEPT ![job[r].wf].def = def[r]]
  /\ GoOn(r, "version")
  /\ UNCHANGED <<deployed, engine, versions, def, listed>>

UpdateMissed(r) ==
  /\ jobPc[r] = "u_row" /\ ~Live(job[r].wf)
  /\ GoOn(r, "failed")
  /\ UNCHANGED <<deployed, engine, workflow, versions, def, listed>>

CreateVersion(r) ==
  /\ jobPc[r] = "version" /\ ~Taken(job[r].wf, def[r].num)
  /\ versions' = versions \cup {VersionRow(job[r].wf, def[r])}
  /\ GoOn(r, "done")
  /\ UNCHANGED <<deployed, engine, workflow, def, listed>>

CreateVersionClash(r) ==
  /\ jobPc[r] = "version" /\ Taken(job[r].wf, def[r].num)
  /\ GoOn(r, "failed")
  /\ UNCHANGED <<deployed, engine, workflow, versions, def, listed>>

-----------------------------------------------------------------------------
(* DELETE /workflows/{id}. *)

DeleteById(r, w) ==
  /\ Live(w)
  /\ BeginJob(r, [op |-> "deleteById", wf |-> w, num |-> 0, seen |-> FALSE], "d_engine")
  /\ listed' = [listed EXCEPT ![r] = {x.def : x \in {y \in versions : y.wf = w}}]
  /\ UNCHANGED <<deployed, engine, workflow, versions, def>>

\* The engine refuses what it does not have, and deletes the others.
DeleteEngine(r) ==
  /\ jobPc[r] = "d_engine"
  /\ engine' = engine \ listed[r]
  /\ listed' = [listed EXCEPT ![r] = {}]
  /\ GoOn(r, IF listed[r] \subseteq engine THEN "d_versions" ELSE "failed")
  /\ UNCHANGED <<deployed, workflow, versions, def>>

DeleteVersions(r) ==
  /\ jobPc[r] = "d_versions"
  /\ versions' = {x \in versions : x.wf # job[r].wf}
  /\ GoOn(r, "d_row")
  /\ UNCHANGED <<deployed, engine, workflow, def, listed>>

DeleteRow(r) ==
  /\ jobPc[r] = "d_row"
  /\ workflow' = [workflow EXCEPT ![job[r].wf] = Removed(@)]
  /\ GoOn(r, "done")
  /\ UNCHANGED <<deployed, engine, versions, def, listed>>

-----------------------------------------------------------------------------
(* DELETE /workflows/{id}/version/{version}.  A client names any number:   *)
(* the row is all that is compared with it, the version is looked up after *)
(* that.  The request keeps whether the version was there when it came.    *)

DeleteVersionById(r, w, n) ==
  /\ Live(w) /\ NotLatest(w, n)
  /\ BeginJob(r, [op |-> "deleteVersion", wf |-> w, num |-> n, seen |-> Taken(w, n)], "v_find")
  /\ UNCHANGED <<deployed, engine, workflow, versions, def, listed>>

FindVersion(r) ==
  /\ jobPc[r] = "v_find"
  /\ \E x \in Found(job[r].wf, job[r].num) :
       def' = [def EXCEPT ![r] = x.def]
  /\ GoOn(r, "v_engine")
  /\ UNCHANGED <<deployed, engine, workflow, versions, listed>>

VersionMissed(r) ==
  /\ jobPc[r] = "v_find" /\ Found(job[r].wf, job[r].num) = {}
  /\ GoOn(r, "failed")
  /\ UNCHANGED <<deployed, engine, workflow, versions, def, listed>>

DeleteVersionEngine(r) ==
  /\ jobPc[r] = "v_engine"
  /\ engine' = engine \ {def[r]}
  /\ GoOn(r, IF def[r] \in engine THEN "v_row" ELSE "failed")
  /\ UNCHANGED <<deployed, workflow, versions, def, listed>>

DeleteVersionRow(r) ==
  /\ jobPc[r] = "v_row"
  /\ versions' = versions \ {VersionRow(job[r].wf, def[r])}
  /\ GoOn(r, "done")
  /\ UNCHANGED <<deployed, engine, workflow, def, listed>>

\* A call or a statement fails, or the server crashes: nothing is undone.
FailJob(r) ==
  /\ Faults /\ Underway(r)
  /\ GoOn(r, "failed")
  /\ UNCHANGED <<deployed, engine, workflow, versions, def, listed>>

-----------------------------------------------------------------------------

WorkflowInit ==
  /\ deployed = [k \in ProcessKeys |-> 0] /\ engine = {}
  /\ workflow = [w \in Jobs |-> NoWorkflow] /\ versions = {}
  /\ jobPc = [r \in Jobs |-> "idle"] /\ job = [r \in Jobs |-> NoJob]
  /\ def = [r \in Jobs |-> NoDef] /\ listed = [r \in Jobs |-> {}]

\* Requests are numbered as they arrive; a version to delete has been deployed by
\* another one.
ArriveJob(r) ==
  /\ jobPc[r] = "idle" /\ \A q \in Jobs : q < r => jobPc[q] # "idle"
  /\ Cardinality({q \in Jobs : Underway(q)}) < MaxJobsAtOnce
  /\ \/ \E k \in ProcessKeys : Create(r, k)
     \/ \E w \in Jobs, k \in ProcessKeys : Update(r, w, k)
     \/ \E w \in Jobs : DeleteById(r, w)
     \/ \E w \in Jobs, n \in 1 .. MaxJobs - 1 : DeleteVersionById(r, w, n)

ContinueJob(r) ==
  \/ CreateRow(r) \/ UpdateRow(r) \/ UpdateMissed(r)
  \/ CreateVersion(r) \/ CreateVersionClash(r)
  \/ DeleteEngine(r) \/ DeleteVersions(r) \/ DeleteRow(r)
  \/ FindVersion(r) \/ VersionMissed(r)
  \/ DeleteVersionEngine(r) \/ DeleteVersionRow(r)

\* Nothing is under way.
RestOfJobs == (\A r \in Jobs : ~Underway(r)) /\ UNCHANGED workflowVars

WorkflowNext ==
  RestOfJobs \/ \E r \in Jobs : ArriveJob(r) \/ ContinueJob(r) \/ FailJob(r)
WorkflowSpec == WorkflowInit /\ [][WorkflowNext]_workflowVars

-----------------------------------------------------------------------------
(* Properties. *)

JobSteps ==
  {"idle", "c_row", "u_row", "version", "d_engine", "d_versions", "d_row",
   "v_find", "v_engine", "v_row", "done", "failed"}
Operations == {"none", "create", "update", "deleteById", "deleteVersion"}

\* Tables, engine and handlers hold values of their types.
WorkflowTypeOK ==
  /\ deployed \in [ProcessKeys -> Nat] /\ engine \subseteq Definitions
  /\ workflow \in [Jobs -> [status : {"none", "live", "deleted"},
                                def : Definitions \cup {NoDef}]]
  /\ versions \subseteq [wf : Jobs, def : Definitions]
  /\ jobPc \in [Jobs -> JobSteps]
  /\ job \in [Jobs -> [op : Operations, wf : Jobs \cup {0}, num : Nat, seen : BOOLEAN]]
  /\ def \in [Jobs -> Definitions \cup {NoDef}]
  /\ listed \in [Jobs -> SUBSET Definitions]

\* deleteById has been asked for workflow w: it is under way, or was cut short.
Deleting(w) ==
  \E r \in Jobs :
    /\ job[r].op = "deleteById" /\ job[r].wf = w /\ jobPc[r] # "done"

\* deleteVersionById has version row x in hand, or was cut short with it.
DeletingVersion(x) ==
  \E r \in Jobs :
    /\ job[r].op = "deleteVersion" /\ job[r].wf = x.wf /\ def[r] = x.def
    /\ jobPc[r] \in {"v_row", "failed"}

\* All diagrams deployed for workflow w are of one process key.
OneKey(w) ==
  \A q, r \in Jobs :
    /\ job[q].op \in {"create", "update"} /\ job[q].wf = w
    /\ job[r].op \in {"create", "update"} /\ job[r].wf = w
    => def[q].key = def[r].key

\* The version was asked to be deleted before there was one of its number.
Foreseen(w, n) ==
  \E r \in Jobs :
    /\ job[r].op = "deleteVersion" /\ job[r].wf = w /\ job[r].num = n /\ ~job[r].seen

\* A workflow that keeps its process key and that nobody has asked to delete can
\* be executed: the engine has the definition its row names, however updates and
\* deletions of listed versions interleave and wherever they are cut short.  A
\* number that a client names before the version is listed passes the handler's
\* check, and the row is left with a definition the engine has no more.
RowRuns ==
  \A w \in Jobs :
    /\ Live(w) /\ ~Deleting(w) /\ ~Foreseen(w, workflow[w].def.num)
    /\ OneKey(w)
    => workflow[w].def \in engine

\* A version that is listed can be executed: the engine has the definition,
\* unless a deletion of the version or of its workflow is under way or was
\* cut short between the engine and the table.
VersionsRun ==
  \A x \in versions :
    x.def \in engine \/ Deleting(x.wf) \/ DeletingVersion(x)

\* The latest version of a workflow is never deleted on its own: the handler
\* refuses with "Can not delete latest version of a workflow".
LatestKept ==
  [][\A r \in Jobs :
       jobPc[r] = "v_engine" /\ jobPc'[r] = "v_row" =>
         def[r].num < deployed[def[r].key]]_workflowVars
=============================================================================
