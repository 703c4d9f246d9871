--------------------------- MODULE WorkflowProofs ---------------------------
(***************************************************************************)
(* What is proved of the bpmn service, for any number of keys and          *)
(* requests, faults included: type correctness, RowRuns and VersionsRun.   *)
(* Neither of the two is inductive.  A handler that has deployed a         *)
(* definition writes it to the tables later, so the invariant follows      *)
(* every definition from the request that deployed it to the rows that     *)
(* name it and to the handlers that are about to delete it.                *)
(***************************************************************************)
EXTENDS Workflow, TLAPS

Made(r) == job[r].op \in {"create", "update"}

\* Request r has deployed definition d for workflow w and has listed it.
ListedDefinition(r, w, d) ==
  Made(r) /\ jobPc[r] = "done" /\ job[r].wf = w /\ def[r] = d

\* What the statement a handler is at tells of its call.
ControlOK ==
  \A r \in Jobs :
    /\ jobPc[r] = "idle" <=> job[r].op = "none"
    /\ jobPc[r] = "c_row" => job[r].op = "create"
    /\ jobPc[r] = "u_row" => job[r].op = "update"
    /\ jobPc[r] = "version" => Made(r)
    /\ jobPc[r] \in {"d_engine", "d_versions", "d_row"} => job[r].op = "deleteById"
    /\ jobPc[r] \in {"v_find", "v_engine", "v_row"} => job[r].op = "deleteVersion"
    /\ job[r].op # "none" => job[r].wf \in Jobs
    /\ job[r].op = "create" => job[r].wf = r
    /\ job[r].op \in {"update", "deleteById", "deleteVersion"} => Exists(job[r].wf)
    /\ Exists(r) => jobPc[r] \notin {"idle", "c_row"}
    /\ Made(r) \/ jobPc[r] \in {"v_engine", "v_row"} => def[r] \in Definitions

\* No two requests deploy the same definition, and the engine numbers on.
Numbered ==
  /\ \A d \in engine : d.num <= deployed[d.key]
  /\ \A r \in Jobs : Made(r) => def[r].num <= deployed[def[r].key]
  /\ \A q, r \in Jobs : Made(q) /\ Made(r) /\ def[q] = def[r] => q = r

\* Whatever a table or a handler names, a request has deployed and written.
Origins ==
  /\ \A w \in Jobs : Exists(w) =>
       \E r \in Jobs :
         /\ Made(r) /\ job[r].wf = w /\ def[r] = workflow[w].def
         /\ jobPc[r] \notin {"c_row", "u_row"}
  /\ \A x \in versions : \E r \in Jobs : ListedDefinition(r, x.wf, x.def)
  /\ \A r \in Jobs : jobPc[r] = "d_engine" =>
       \A d \in listed[r] : \E q \in Jobs : ListedDefinition(q, job[r].wf, d)
  /\ \A r \in Jobs : jobPc[r] \in {"v_engine", "v_row"} =>
       /\ \E q \in Jobs : ListedDefinition(q, job[r].wf, def[r])
       /\ def[r].num = job[r].num
  /\ \A r \in Jobs : jobPc[r] = "v_find" /\ job[r].seen =>
       \E q \in Jobs :
         ListedDefinition(q, job[r].wf, def[q]) /\ def[q].num = job[r].num

\* The check of deleteVersionById still holds when it reaches the engine, if the
\* version was listed when it was made.
Guarded ==
  \A r \in Jobs :
    jobPc[r] \in {"v_find", "v_engine"} /\ job[r].seen /\ OneKey(job[r].wf) =>
      workflow[job[r].wf].def.num # job[r].num

\* A definition on its way to the tables is in the engine.
Pending ==
  \A r \in Jobs : jobPc[r] \in {"c_row", "u_row", "version"} => def[r] \in engine

\* VersionsRun, with a tighter account of the deletions.
Backed ==
  \A x \in versions :
    \/ x.def \in engine
    \/ DeletingVersion(x)
    \/ \E r \in Jobs :
         /\ job[r].op = "deleteById" /\ job[r].wf = x.wf
         /\ jobPc[r] \in {"d_versions", "failed"}

WorkflowInv ==
  WorkflowTypeOK /\ ControlOK /\ Numbered /\ Origins /\ Guarded /\ Pending /\ Backed /\ RowRuns

-----------------------------------------------------------------------------
(* Type correctness. *)

LEMMA InitType == WorkflowInit => WorkflowTypeOK
BY DEF WorkflowInit, WorkflowTypeOK, NoDef, NoJob, NoWorkflow, Jobs, Definitions, JobSteps,
       Operations

\* A request that begins, or goes on to its next statement, keeps the types of
\* calls and statements.
LEMMA BeginType ==
  ASSUME WorkflowTypeOK, NEW r \in Jobs, NEW at \in JobSteps,
         NEW op \in Operations, NEW w \in Jobs, NEW n \in Nat, NEW seen \in BOOLEAN,
         BeginJob(r, [op |-> op, wf |-> w, num |-> n, seen |-> seen], at)
  PROVE  /\ jobPc' \in [Jobs -> JobSteps]
         /\ job' \in [Jobs -> [op : Operations, wf : Jobs \cup {0}, num : Nat, seen : BOOLEAN]]
BY DEF WorkflowTypeOK, BeginJob

LEMMA BeginCall ==
  ASSUME WorkflowTypeOK, NEW r \in Jobs, NEW at, NEW op, NEW w, NEW n, NEW seen,
         BeginJob(r, [op |-> op, wf |-> w, num |-> n, seen |-> seen], at)
  PROVE  /\ job'[r] = [op |-> op, wf |-> w, num |-> n, seen |-> seen]
         /\ job'[r].op = op /\ job'[r].wf = w /\ job'[r].num = n /\ job'[r].seen = seen
         /\ jobPc'[r] = at
BY DEF WorkflowTypeOK, BeginJob

LEMMA GotoType ==
  ASSUME WorkflowTypeOK, NEW r \in Jobs, NEW at \in JobSteps, GoOn(r, at)
  PROVE  /\ jobPc' \in [Jobs -> JobSteps]
         /\ job' \in [Jobs -> [op : Operations, wf : Jobs \cup {0}, num : Nat, seen : BOOLEAN]]
BY DEF WorkflowTypeOK, GoOn

\* What the engine deploys is a definition.
LEMMA DeployType ==
  ASSUME WorkflowTypeOK, NEW r \in Jobs, NEW k \in ProcessKeys, Deploy(r, k)
  PROVE  /\ deployed' \in [ProcessKeys -> Nat] /\ engine' \subseteq Definitions
         /\ def' \in [Jobs -> Definitions \cup {NoDef}]
<1>1. [key |-> k, num |-> deployed[k] + 1] \in Definitions
  BY DEF WorkflowTypeOK, Definitions
<1> QED BY <1>1 DEF WorkflowTypeOK, Deploy, Definitions

\* The requests that begin.
LEMMA ArriveType ==
  ASSUME WorkflowTypeOK, NEW r \in Jobs, ArriveJob(r)
  PROVE  WorkflowTypeOK'
<1>1. CASE \E k \in ProcessKeys : Create(r, k)
  <2>1. PICK k \in ProcessKeys : Create(r, k)
    BY <1>1
  <2>2. jobPc' \in [Jobs -> JobSteps]
        /\ job' \in [Jobs -> [op : Operations, wf : Jobs \cup {0}, num : Nat, seen : BOOLEAN]]
    BY <2>1, BeginType DEF Create, JobSteps, Operations
  <2> QED BY <2>1, <2>2, DeployType DEF Create, Deploy, WorkflowTypeOK
<1>2. CASE \E w \in Jobs, k \in ProcessKeys : Update(r, w, k)
  <2>1. PICK w \in Jobs, k \in ProcessKeys : Update(r, w, k)
    BY <1>2
  <2>2. jobPc' \in [Jobs -> JobSteps]
        /\ job' \in [Jobs -> [op : Operations, wf : Jobs \cup {0}, num : Nat, seen : BOOLEAN]]
    BY <2>1, BeginType DEF Update, JobSteps, Operations
  <2> QED BY <2>1, <2>2, DeployType DEF Update, Deploy, WorkflowTypeOK
<1>3. CASE \E w \in Jobs : DeleteById(r, w)
  <2>1. PICK w \in Jobs : DeleteById(r, w)
    BY <1>3
  <2>2. jobPc' \in [Jobs -> JobSteps]
        /\ job' \in [Jobs -> [op : Operations, wf : Jobs \cup {0}, num : Nat, seen : BOOLEAN]]
    BY <2>1, BeginType DEF DeleteById, JobSteps, Operations
  <2>3. {x.def : x \in {y \in versions : y.wf = w}} \subseteq Definitions
    BY DEF WorkflowTypeOK
  <2> QED BY <2>1, <2>2, <2>3 DEF DeleteById, WorkflowTypeOK
<1>4. CASE \E w \in Jobs, n \in 1 .. MaxJobs - 1 : DeleteVersionById(r, w, n)
  <2>1. PICK w \in Jobs, n \in 1 .. MaxJobs - 1 : DeleteVersionById(r, w, n)
    BY <1>4
  <2>2. n \in Nat /\ Taken(w, n) \in BOOLEAN
    BY DEF Jobs, Taken
  <2>3. jobPc' \in [Jobs -> JobSteps]
        /\ job' \in [Jobs -> [op : Operations, wf : Jobs \cup {0}, num : Nat, seen : BOOLEAN]]
    BY <2>1, <2>2, BeginType DEF DeleteVersionById, JobSteps, Operations
  <2> QED BY <2>1, <2>3 DEF DeleteVersionById, WorkflowTypeOK
<1> QED BY <1>1, <1>2, <1>3, <1>4 DEF ArriveJob

\* The requests that go on, or fail.  ControlOK knows whose workflow it is.
LEMMA ContinueType ==
  ASSUME WorkflowTypeOK, ControlOK, NEW r \in Jobs, ContinueJob(r) \/ FailJob(r)
  PROVE  WorkflowTypeOK'
<1>0. /\ {"done", "failed", "version", "d_versions", "d_row", "v_engine", "v_row"}
           \subseteq JobSteps
      /\ jobPc[r] \in {"u_row", "version", "d_row"} => job[r].wf \in Jobs
      /\ jobPc[r] \in {"c_row", "u_row", "version"} => def[r] \in Definitions
  BY DEF JobSteps, ControlOK, Made
<1>1. CASE CreateRow(r)
  BY <1>0, <1>1, GotoType DEF CreateRow, WorkflowTypeOK
<1>2. CASE UpdateRow(r)
  BY <1>0, <1>2, GotoType DEF UpdateRow, WorkflowTypeOK
<1>3. CASE UpdateMissed(r)
  BY <1>0, <1>3, GotoType DEF UpdateMissed, WorkflowTypeOK
<1>4. CASE CreateVersion(r)
  BY <1>0, <1>4, GotoType DEF CreateVersion, VersionRow, WorkflowTypeOK
<1>5. CASE CreateVersionClash(r)
  BY <1>0, <1>5, GotoType DEF CreateVersionClash, WorkflowTypeOK
<1>6. CASE DeleteEngine(r)
  <2>1. (IF listed[r] \subseteq engine THEN "d_versions" ELSE "failed") \in JobSteps
    BY <1>0
  <2> QED BY <2>1, <1>6, GotoType DEF DeleteEngine, WorkflowTypeOK
<1>7. CASE DeleteVersions(r)
  BY <1>0, <1>7, GotoType DEF DeleteVersions, WorkflowTypeOK
<1>8. CASE DeleteRow(r)
  BY <1>0, <1>8, GotoType DEF DeleteRow, Removed, WorkflowTypeOK
<1>9. CASE FindVersion(r)
  <2>1. PICK x \in Found(job[r].wf, job[r].num) : def' = [def EXCEPT ![r] = x.def]
    BY <1>9 DEF FindVersion
  <2>2. x.def \in Definitions
    BY DEF Found, WorkflowTypeOK
  <2> QED BY <1>0, <1>9, <2>1, <2>2, GotoType DEF FindVersion, WorkflowTypeOK
<1>10. CASE VersionMissed(r)
  BY <1>0, <1>10, GotoType DEF VersionMissed, WorkflowTypeOK
<1>11. CASE DeleteVersionEngine(r)
  <2>1. (IF def[r] \in engine THEN "v_row" ELSE "failed") \in JobSteps
    BY <1>0
  <2> QED BY <2>1, <1>11, GotoType DEF DeleteVersionEngine, WorkflowTypeOK
<1>12. CASE DeleteVersionRow(r)
  BY <1>0, <1>12, GotoType DEF DeleteVersionRow, WorkflowTypeOK
<1>13. CASE FailJob(r)
  BY <1>0, <1>13, GotoType DEF FailJob, WorkflowTypeOK
<1> QED BY <1>1, <1>2, <1>3, <1>4, <1>5, <1>6, <1>7, <1>8, <1>9, <1>10, <1>11,
           <1>12, <1>13 DEF ContinueJob

-----------------------------------------------------------------------------
(* What a step leaves as it is. *)

Acts(r) == ArriveJob(r) \/ ContinueJob(r) \/ FailJob(r)

\* Other requests are left alone; a request keeps its call and what it has
\* deployed; one that is done stays done, and what it wrote is not unwritten.
KeptDefinition(r) ==
  /\ \A q \in Jobs : q # r =>
       /\ jobPc'[q] = jobPc[q] /\ job'[q] = job[q]
       /\ def'[q] = def[q] /\ listed'[q] = listed[q]
  /\ job[r].op # "none" => job'[r] = job[r]
  /\ Made(r) => def'[r] = def[r]
  /\ jobPc[r] # "done"
  /\ jobPc'[r] # "idle"
  /\ jobPc[r] \notin {"idle", "c_row", "u_row"} => jobPc'[r] \notin {"c_row", "u_row"}
  /\ \A w \in Jobs : Exists(w) => Exists(w)'

LEMMA ArriveKept ==
  ASSUME WorkflowTypeOK, ControlOK, NEW r \in Jobs, ArriveJob(r)
  PROVE  /\ KeptDefinition(r) /\ jobPc[r] = "idle" /\ UNCHANGED <<workflow, versions>>
         /\ job[r].op = "none"
<1>1. jobPc[r] = "idle" /\ job[r].op = "none" /\ ~Made(r)
  BY DEF ArriveJob, Create, Update, DeleteById, DeleteVersionById, BeginJob, ControlOK, Made
<1>2. /\ UNCHANGED <<workflow, versions>> /\ jobPc'[r] # "idle"
      /\ \A q \in Jobs : q # r =>
           /\ jobPc'[q] = jobPc[q] /\ job'[q] = job[q]
           /\ def'[q] = def[q] /\ listed'[q] = listed[q]
  BY DEF ArriveJob, Create, Update, DeleteById, DeleteVersionById, BeginJob, Deploy, WorkflowTypeOK
<1> QED BY <1>1, <1>2 DEF KeptDefinition, Exists

LEMMA ContinueKept ==
  ASSUME WorkflowTypeOK, ControlOK, NEW r \in Jobs, ContinueJob(r) \/ FailJob(r)
  PROVE  KeptDefinition(r) /\ UNCHANGED <<job, deployed>>
<1>1. /\ UNCHANGED <<job, deployed>> /\ jobPc[r] \notin {"idle", "done"}
      /\ jobPc'[r] \notin {"idle", "c_row", "u_row"}
      /\ \A q \in Jobs : q # r =>
           jobPc'[q] = jobPc[q] /\ def'[q] = def[q] /\ listed'[q] = listed[q]
  BY DEF ContinueJob, CreateRow, UpdateRow, UpdateMissed, CreateVersion,
         CreateVersionClash, DeleteEngine, DeleteVersions, DeleteRow, FindVersion,
         VersionMissed, DeleteVersionEngine, DeleteVersionRow, FailJob, Underway, GoOn,
         WorkflowTypeOK
<1>2. Made(r) => def'[r] = def[r]
  BY DEF ContinueJob, CreateRow, UpdateRow, UpdateMissed, CreateVersion,
         CreateVersionClash, DeleteEngine, DeleteVersions, DeleteRow, FindVersion,
         VersionMissed, DeleteVersionEngine, DeleteVersionRow, FailJob, ControlOK, Made
<1>3. ASSUME NEW w \in Jobs, Exists(w) PROVE Exists(w)'
  BY <1>3 DEF ContinueJob, CreateRow, UpdateRow, UpdateMissed, CreateVersion,
         CreateVersionClash, DeleteEngine, DeleteVersions, DeleteRow, FindVersion,
         VersionMissed, DeleteVersionEngine, DeleteVersionRow, FailJob, Exists, Removed,
         WorkflowTypeOK
<1> QED BY <1>1, <1>2, <1>3 DEF KeptDefinition

LEMMA ActsKept ==
  ASSUME WorkflowTypeOK, ControlOK, NEW r \in Jobs, Acts(r)
  PROVE  KeptDefinition(r)
BY ArriveKept, ContinueKept DEF Acts

\* So what a request has deployed and listed stays so.
LEMMA ListedKept ==
  ASSUME WorkflowTypeOK, ControlOK, NEW r \in Jobs, KeptDefinition(r),
         NEW q \in Jobs, NEW w, NEW d, ListedDefinition(q, w, d)
  PROVE  ListedDefinition(q, w, d)'
BY DEF KeptDefinition, ListedDefinition, Made

-----------------------------------------------------------------------------
(* ControlOK. *)

LEMMA ArriveControl ==
  ASSUME WorkflowTypeOK, ControlOK, NEW r \in Jobs, ArriveJob(r), WorkflowTypeOK'
  PROVE  ControlOK'
<1>1. KeptDefinition(r) /\ jobPc[r] = "idle" /\ UNCHANGED <<workflow, versions>>
  BY ArriveKept
<1>2. ~Exists(r)
  BY <1>1 DEF ControlOK
<1>3. ASSUME NEW q \in Jobs, q # r PROVE
        /\ jobPc'[q] = jobPc[q] /\ job'[q] = job[q] /\ def'[q] = def[q]
        /\ Made(q)' <=> Made(q)
        /\ \A w \in Jobs : Exists(w)' <=> Exists(w)
  BY <1>1, <1>3 DEF KeptDefinition, Made, Exists
<1>4. CASE \E k \in ProcessKeys : Create(r, k)
  <2>1. PICK k \in ProcessKeys : Create(r, k)
    BY <1>4
  <2>2. /\ job'[r] = [op |-> "create", wf |-> r, num |-> 0, seen |-> FALSE] /\ jobPc'[r] = "c_row"
        /\ def'[r] \in Definitions
    BY <2>1, DeployType DEF Create, BeginJob, Deploy, WorkflowTypeOK, Definitions
  <2> QED BY <1>1, <1>2, <1>3, <2>2 DEF ControlOK, Exists
<1>5. CASE \E w \in Jobs, k \in ProcessKeys : Update(r, w, k)
  <2>1. PICK w \in Jobs, k \in ProcessKeys : Update(r, w, k)
    BY <1>5
  <2>2. /\ job'[r] = [op |-> "update", wf |-> w, num |-> 0, seen |-> FALSE] /\ jobPc'[r] = "u_row"
        /\ def'[r] \in Definitions /\ Exists(w)
    BY <2>1, DeployType DEF Update, BeginJob, Deploy, WorkflowTypeOK, Definitions
  <2> QED BY <1>1, <1>2, <1>3, <2>2 DEF ControlOK, Exists
<1>6. CASE \E w \in Jobs : DeleteById(r, w)
  <2>1. PICK w \in Jobs : DeleteById(r, w)
    BY <1>6
  <2>2. /\ job'[r] = [op |-> "deleteById", wf |-> w, num |-> 0, seen |-> FALSE]
        /\ jobPc'[r] = "d_engine" /\ Exists(w)
    BY <2>1 DEF DeleteById, BeginJob, WorkflowTypeOK, Live, Exists
  <2> QED BY <1>1, <1>2, <1>3, <2>2 DEF ControlOK, Exists, Made
<1>7. CASE \E w \in Jobs, n \in 1 .. MaxJobs - 1 : DeleteVersionById(r, w, n)
  <2>1. PICK w \in Jobs, n \in 1 .. MaxJobs - 1 : DeleteVersionById(r, w, n)
    BY <1>7
  <2>2. /\ job'[r] = [op |-> "deleteVersion", wf |-> w, num |-> n, seen |-> Taken(w, n)]
        /\ jobPc'[r] = "v_find" /\ Exists(w)
    BY <2>1 DEF DeleteVersionById, BeginJob, WorkflowTypeOK, Live, Exists
  <2> QED BY <1>1, <1>2, <1>3, <2>2 DEF ControlOK, Exists, Made
<1> QED BY <1>4, <1>5, <1>6, <1>7 DEF ArriveJob

LEMMA ContinueControl ==
  ASSUME WorkflowTypeOK, ControlOK, NEW r \in Jobs, ContinueJob(r) \/ FailJob(r), WorkflowTypeOK'
  PROVE  ControlOK'
<1>1. KeptDefinition(r) /\ job' = job
  BY ContinueKept
<1>2. /\ jobPc[r] \notin {"idle", "done"} /\ jobPc'[r] \notin {"idle", "c_row", "u_row"}
      /\ jobPc'[r] = "version" => jobPc[r] \in {"c_row", "u_row"}
      /\ jobPc'[r] \in {"d_engine", "d_versions", "d_row"} =>
           jobPc[r] \in {"d_engine", "d_versions", "d_row"}
      /\ jobPc'[r] \in {"v_find", "v_engine", "v_row"} =>
           jobPc[r] \in {"v_find", "v_engine", "v_row"}
      /\ jobPc'[r] = "v_row" => jobPc[r] = "v_engine" /\ def' = def
      /\ jobPc'[r] = "v_engine" => FindVersion(r)
  BY DEF ContinueJob, CreateRow, UpdateRow, UpdateMissed, CreateVersion,
         CreateVersionClash, DeleteEngine, DeleteVersions, DeleteRow, FindVersion,
         VersionMissed, DeleteVersionEngine, DeleteVersionRow, FailJob, Underway, GoOn,
         WorkflowTypeOK
<1>3. jobPc'[r] \in {"v_engine", "v_row"} => def'[r] \in Definitions
  BY <1>2 DEF ControlOK, FindVersion, Found, WorkflowTypeOK
<1>4. ASSUME NEW w \in Jobs, Exists(w)', ~Exists(w)
      PROVE  w = r /\ jobPc[r] = "c_row"
  <2>1. CASE CreateRow(r)
    BY <2>1, <1>4 DEF CreateRow, Exists, WorkflowTypeOK
  <2>2. CASE UpdateRow(r)
    BY <2>2, <1>4 DEF UpdateRow, Exists, Live, WorkflowTypeOK
  <2>3. CASE DeleteRow(r)
    <3>1. Exists(job[r].wf)
      BY <2>3 DEF DeleteRow, ControlOK
    <3> QED BY <3>1, <2>3, <1>4 DEF DeleteRow, Exists, WorkflowTypeOK
  <2>4. CASE UNCHANGED workflow
    BY <2>4, <1>4 DEF Exists
  <2> QED BY <2>1, <2>2, <2>3, <2>4 DEF ContinueJob, UpdateMissed, CreateVersion,
         CreateVersionClash, DeleteEngine, DeleteVersions, FindVersion,
         VersionMissed, DeleteVersionEngine, DeleteVersionRow, FailJob
<1>5. ASSUME NEW q \in Jobs PROVE
        /\ jobPc'[q] = "idle" <=> job'[q].op = "none"
        /\ jobPc'[q] = "c_row" => job'[q].op = "create"
        /\ jobPc'[q] = "u_row" => job'[q].op = "update"
        /\ jobPc'[q] = "version" => Made(q)'
        /\ jobPc'[q] \in {"d_engine", "d_versions", "d_row"} => job'[q].op = "deleteById"
        /\ jobPc'[q] \in {"v_find", "v_engine", "v_row"} => job'[q].op = "deleteVersion"
        /\ Exists(q)' => jobPc'[q] \notin {"idle", "c_row"}
        /\ Made(q)' \/ jobPc'[q] \in {"v_engine", "v_row"} => def'[q] \in Definitions
  <2>1. CASE q = r
    BY <2>1, <1>1, <1>2, <1>3 DEF ControlOK, KeptDefinition, Made
  <2>2. CASE q # r
    BY <2>2, <1>1, <1>4 DEF ControlOK, KeptDefinition, Made
  <2> QED BY <2>1, <2>2
<1> QED BY <1>1, <1>5 DEF ControlOK, KeptDefinition

-----------------------------------------------------------------------------
(* Numbered. *)

\* A deployed definition has a number that no definition of its key had.
LEMMA DeployNumbered ==
  ASSUME WorkflowTypeOK, ControlOK, Numbered, NEW r \in Jobs, NEW k \in ProcessKeys,
         KeptDefinition(r), ~Made(r), Deploy(r, k), WorkflowTypeOK'
  PROVE  Numbered'
<1>1. /\ def'[r] = [key |-> k, num |-> deployed[k] + 1]
      /\ deployed' = [deployed EXCEPT ![k] = deployed[k] + 1]
      /\ engine' = engine \cup {def'[r]}
  BY DEF Deploy, WorkflowTypeOK
<1>2. \A j \in ProcessKeys : deployed[j] \in Nat /\ deployed'[j] >= deployed[j]
  BY <1>1 DEF WorkflowTypeOK
<1>3. ASSUME NEW q \in Jobs, q # r PROVE
        /\ Made(q)' => Made(q) /\ def'[q] = def[q]
        /\ Made(q) => /\ def[q].key \in ProcessKeys /\ def[q].num \in Nat
                      /\ def[q].num <= deployed[def[q].key] /\ def[q] # def'[r]
  <2>1. Made(q)' => Made(q) /\ def'[q] = def[q]
    BY <1>3 DEF KeptDefinition, Made
  <2>2. Made(q) => /\ def[q].key \in ProcessKeys /\ def[q].num \in Nat
                   /\ def[q].num <= deployed[def[q].key]
    BY DEF ControlOK, Numbered, Definitions
  <2> QED BY <2>1, <2>2, <1>1, <1>2
<1>4. \A d \in engine' : d.num <= deployed'[d.key]
  <2>1. ASSUME NEW d \in engine PROVE d.num <= deployed'[d.key]
    <3>1. d.key \in ProcessKeys /\ d.num \in Nat /\ d.num <= deployed[d.key]
      BY DEF WorkflowTypeOK, Definitions, Numbered
    <3> QED BY <3>1, <1>2 DEF WorkflowTypeOK
  <2>2. def'[r].num <= deployed'[def'[r].key]
    BY <1>1, <1>2 DEF WorkflowTypeOK
  <2> QED BY <2>1, <2>2, <1>1
<1>5. \A q \in Jobs : Made(q)' => def'[q].num <= deployed'[def'[q].key]
  <2>1. ASSUME NEW q \in Jobs, Made(q)' PROVE def'[q].num <= deployed'[def'[q].key]
    <3>1. CASE q = r
      BY <3>1, <1>1, <1>2 DEF WorkflowTypeOK
    <3>2. CASE q # r
      BY <3>2, <2>1, <1>1, <1>2, <1>3 DEF WorkflowTypeOK
    <3> QED BY <3>1, <3>2
  <2> QED BY <2>1
<1>6. \A p, q \in Jobs : Made(p)' /\ Made(q)' /\ def'[p] = def'[q] => p = q
  BY <1>3 DEF Numbered
<1> QED BY <1>4, <1>5, <1>6 DEF Numbered

LEMMA ActsNumbered ==
  ASSUME WorkflowTypeOK, ControlOK, Numbered, NEW r \in Jobs, Acts(r), WorkflowTypeOK'
  PROVE  Numbered'
<1>1. CASE /\ ArriveJob(r)
           /\ \E k \in ProcessKeys : Create(r, k) \/ \E w \in Jobs : Update(r, w, k)
  <2>1. PICK k \in ProcessKeys : Deploy(r, k)
    BY <1>1 DEF Create, Update
  <2>2. KeptDefinition(r) /\ ~Made(r)
    BY <1>1, ArriveKept DEF Made
  <2> QED BY <2>1, <2>2, DeployNumbered
<1>2. CASE \/ \E w \in Jobs : DeleteById(r, w)
           \/ \E w \in Jobs, n \in 1 .. MaxJobs - 1 : DeleteVersionById(r, w, n)
           \/ ContinueJob(r) \/ FailJob(r)
  <2>1. UNCHANGED deployed /\ engine' \subseteq engine
    BY <1>2 DEF DeleteById, DeleteVersionById, ContinueJob, CreateRow, UpdateRow,
         UpdateMissed, CreateVersion, CreateVersionClash, DeleteEngine, DeleteVersions,
         DeleteRow, FindVersion, VersionMissed, DeleteVersionEngine, DeleteVersionRow,
         FailJob
  <2>2. \A q \in Jobs : Made(q)' => Made(q) /\ def'[q] = def[q]
    <3>1. ASSUME NEW q \in Jobs, Made(q)' PROVE Made(q) /\ def'[q] = def[q]
      <4>1. KeptDefinition(r)
        BY ActsKept
      <4>2. Made(r)' => Made(r)
        <5>1. CASE ContinueJob(r) \/ FailJob(r)
          BY <5>1, ContinueKept DEF Made
        <5>2. CASE \E w \in Jobs : DeleteById(r, w)
          <6>1. PICK w \in Jobs : DeleteById(r, w)
            BY <5>2
          <6>2. job'[r].op = "deleteById"
            BY <6>1, BeginCall DEF DeleteById
          <6> QED BY <6>2 DEF Made
        <5>3. CASE \E w \in Jobs, n \in 1 .. MaxJobs - 1 : DeleteVersionById(r, w, n)
          <6>1. PICK w \in Jobs, n \in 1 .. MaxJobs - 1 : DeleteVersionById(r, w, n)
            BY <5>3
          <6>2. job'[r].op = "deleteVersion"
            BY <6>1, BeginCall DEF DeleteVersionById
          <6> QED BY <6>2 DEF Made
        <5> QED BY <1>2, <5>1, <5>2, <5>3
      <4> QED BY <3>1, <4>1, <4>2 DEF KeptDefinition, Made
    <3> QED BY <3>1
  <2> QED BY <2>1, <2>2 DEF Numbered
<1> QED BY <1>1, <1>2 DEF Acts, ArriveJob

-----------------------------------------------------------------------------
(* Origins. *)

\* What is there already keeps its origin; so a step is looked at for what it
\* adds to the tables and to the handler.
LEMMA OriginsKept ==
  ASSUME WorkflowTypeOK, ControlOK, Origins, NEW r \in Jobs, KeptDefinition(r),
         \A w \in Jobs : Exists(w)' =>
           \/ Exists(w) /\ workflow'[w].def = workflow[w].def
           \/ /\ Made(r) /\ job[r].wf = w /\ def[r] = workflow'[w].def
              /\ jobPc'[r] \notin {"c_row", "u_row"},
         \A x \in versions' : x \in versions \/ ListedDefinition(r, x.wf, x.def)',
         jobPc'[r] = "d_engine" =>
           \A d \in listed'[r] : \E q \in Jobs : ListedDefinition(q, job'[r].wf, d),
         jobPc'[r] \in {"v_engine", "v_row"} =>
           /\ \E q \in Jobs : ListedDefinition(q, job'[r].wf, def'[r])
           /\ def'[r].num = job'[r].num,
         jobPc'[r] = "v_find" /\ job'[r].seen =>
           \E q \in Jobs :
             ListedDefinition(q, job'[r].wf, def[q]) /\ def[q].num = job'[r].num
  PROVE  Origins'
<1>1. ASSUME NEW w \in Jobs, Exists(w)' PROVE
        \E q \in Jobs :
          /\ Made(q)' /\ job'[q].wf = w /\ def'[q] = workflow'[w].def
          /\ jobPc'[q] \notin {"c_row", "u_row"}
  <2>1. CASE Exists(w) /\ workflow'[w].def = workflow[w].def
    <3>1. PICK q \in Jobs :
            /\ Made(q) /\ job[q].wf = w /\ def[q] = workflow[w].def
            /\ jobPc[q] \notin {"c_row", "u_row"}
      BY <2>1 DEF Origins
    <3>2. jobPc[q] # "idle"
      BY <3>1 DEF ControlOK, Made
    <3> QED BY <2>1, <3>1, <3>2 DEF KeptDefinition, Made
  <2>2. CASE /\ Made(r) /\ job[r].wf = w /\ def[r] = workflow'[w].def
             /\ jobPc'[r] \notin {"c_row", "u_row"}
    BY <2>2 DEF KeptDefinition, Made
  <2> QED BY <1>1, <2>1, <2>2
<1>2. \A x \in versions' : \E q \in Jobs : ListedDefinition(q, x.wf, x.def)'
  BY ListedKept DEF Origins
<1>3. ASSUME NEW p \in Jobs, jobPc'[p] = "d_engine" PROVE
        \A d \in listed'[p] : \E q \in Jobs : ListedDefinition(q, job[p].wf, d)'
  <2>1. ASSUME NEW d \in listed'[p], NEW w, w = job'[p].wf
        PROVE  \E q \in Jobs : ListedDefinition(q, w, d)'
    BY <1>3, <2>1, ListedKept DEF Origins, KeptDefinition
  <2> QED BY <2>1 DEF ListedDefinition
<1>4. ASSUME NEW p \in Jobs, jobPc'[p] \in {"v_engine", "v_row"} PROVE
        /\ \E q \in Jobs : ListedDefinition(q, job[p].wf, def[p])'
        /\ def'[p].num = job'[p].num
  <2>1. ASSUME NEW w, w = job'[p].wf, NEW d, d = def'[p]
        PROVE  /\ \E q \in Jobs : ListedDefinition(q, w, d)'
               /\ def'[p].num = job'[p].num
    <3>1. /\ \E q \in Jobs : ListedDefinition(q, w, d)
          /\ def'[p].num = job'[p].num
      BY <1>4, <2>1 DEF Origins, KeptDefinition
    <3> QED BY <3>1, ListedKept
  <2> QED BY <2>1 DEF ListedDefinition
<1>5. ASSUME NEW p \in Jobs, jobPc'[p] = "v_find", job'[p].seen PROVE
        \E q \in Jobs :
          ListedDefinition(q, job[p].wf, def[q])' /\ def'[q].num = job'[p].num
  <2>1. ASSUME NEW w, w = job'[p].wf
        PROVE  \E q \in Jobs : ListedDefinition(q, w, def[q]) /\ def[q].num = job'[p].num
    BY <1>5, <2>1 DEF Origins, KeptDefinition
  <2>2. PICK q \in Jobs : /\ Made(q) /\ jobPc[q] = "done" /\ job[q].wf = job'[p].wf
                              /\ def[q].num = job'[p].num
    BY <2>1 DEF ListedDefinition
  <2> QED BY <2>2 DEF KeptDefinition, ListedDefinition, Made
<1> QED BY <1>1, <1>2, <1>3, <1>4, <1>5 DEF Origins

\* A request that begins has its version rows, or its version number, from rows
\* that are listed.
LEMMA ArriveOrigins ==
  ASSUME WorkflowTypeOK, ControlOK, Origins, NEW r \in Jobs, ArriveJob(r)
  PROVE  Origins'
<1>1. KeptDefinition(r) /\ UNCHANGED <<workflow, versions>>
  BY ArriveKept
<1>2. \A w \in Jobs : Exists(w)' => Exists(w) /\ workflow'[w].def = workflow[w].def
  BY <1>1 DEF Exists
<1>3. CASE \E k \in ProcessKeys : Create(r, k) \/ \E w \in Jobs : Update(r, w, k)
  <2>1. jobPc'[r] \in {"c_row", "u_row"}
    BY <1>3 DEF Create, Update, BeginJob, WorkflowTypeOK
  <2> QED BY <1>1, <1>2, <2>1, OriginsKept
<1>4. CASE \E w \in Jobs : DeleteById(r, w)
  <2>1. PICK w \in Jobs : DeleteById(r, w)
    BY <1>4
  <2>2. job'[r].wf = w /\ jobPc'[r] = "d_engine"
    BY <2>1, BeginCall DEF DeleteById
  <2>3. listed'[r] = {x.def : x \in {y \in versions : y.wf = w}}
    BY <2>1 DEF DeleteById, WorkflowTypeOK
  <2>4. \A d \in listed'[r] : \E q \in Jobs : ListedDefinition(q, job'[r].wf, d)
    BY <2>2, <2>3 DEF Origins
  <2> QED BY <1>1, <1>2, <2>2, <2>4, OriginsKept
<1>5. CASE \E w \in Jobs, n \in 1 .. MaxJobs - 1 : DeleteVersionById(r, w, n)
  <2>1. PICK w \in Jobs, n \in 1 .. MaxJobs - 1 : DeleteVersionById(r, w, n)
    BY <1>5
  <2>2. /\ job'[r].wf = w /\ job'[r].num = n /\ job'[r].seen = Taken(w, n)
        /\ jobPc'[r] = "v_find"
    BY <2>1, BeginCall DEF DeleteVersionById
  <2>3. ASSUME job'[r].seen
        PROVE  \E q \in Jobs :
                 ListedDefinition(q, job'[r].wf, def[q]) /\ def[q].num = job'[r].num
    <3>1. PICK y \in versions : y.wf = w /\ y.def.num = n
      BY <2>2, <2>3 DEF Taken
    <3>2. PICK q \in Jobs : ListedDefinition(q, y.wf, y.def)
      BY DEF Origins
    <3> QED BY <2>2, <3>1, <3>2 DEF ListedDefinition
  <2> QED BY <1>1, <1>2, <2>2, <2>3, OriginsKept
<1> QED BY <1>3, <1>4, <1>5 DEF ArriveJob

\* A request that goes on adds the rows of the definition it has deployed.
LEMMA ContinueOrigins ==
  ASSUME WorkflowTypeOK, ControlOK, Origins, NEW r \in Jobs, ContinueJob(r) \/ FailJob(r),
         WorkflowTypeOK'
  PROVE  Origins'
<1>1. KeptDefinition(r) /\ job' = job
  BY ContinueKept
<1>2. CASE CreateRow(r)
  <2>1. /\ workflow' = [workflow EXCEPT ![r] = [status |-> "live", def |-> def[r]]]
        /\ jobPc'[r] = "version" /\ UNCHANGED versions
        /\ Made(r) /\ job[r].wf = r
    BY <1>2 DEF CreateRow, GoOn, WorkflowTypeOK, ControlOK, Made
  <2>2. ASSUME NEW w \in Jobs, Exists(w)' PROVE
          \/ Exists(w) /\ workflow'[w].def = workflow[w].def
          \/ /\ Made(r) /\ job[r].wf = w /\ def[r] = workflow'[w].def
             /\ jobPc'[r] \notin {"c_row", "u_row"}
    BY <2>1, <2>2 DEF Exists, WorkflowTypeOK
  <2> QED BY <1>1, <2>1, <2>2, OriginsKept
<1>3. CASE UpdateRow(r)
  <2>1. /\ workflow' = [workflow EXCEPT ![job[r].wf].def = def[r]]
        /\ jobPc'[r] = "version" /\ UNCHANGED versions
        /\ Made(r) /\ job[r].wf \in Jobs
    BY <1>3 DEF UpdateRow, GoOn, WorkflowTypeOK, ControlOK, Made
  <2>2. ASSUME NEW w \in Jobs, Exists(w)' PROVE
          \/ Exists(w) /\ workflow'[w].def = workflow[w].def
          \/ /\ Made(r) /\ job[r].wf = w /\ def[r] = workflow'[w].def
             /\ jobPc'[r] \notin {"c_row", "u_row"}
    BY <2>1, <2>2 DEF Exists, WorkflowTypeOK
  <2> QED BY <1>1, <2>1, <2>2, OriginsKept
<1>4. CASE CreateVersion(r)
  <2>1. /\ versions' = versions \cup {VersionRow(job[r].wf, def[r])}
        /\ jobPc'[r] = "done" /\ UNCHANGED workflow /\ Made(r) /\ def' = def
    BY <1>4 DEF CreateVersion, GoOn, WorkflowTypeOK, ControlOK
  <2>2. \A x \in versions' : x \in versions \/ ListedDefinition(r, x.wf, x.def)'
    BY <1>1, <2>1 DEF VersionRow, ListedDefinition, Made
  <2>3. \A w \in Jobs : Exists(w)' => Exists(w) /\ workflow'[w].def = workflow[w].def
    BY <2>1 DEF Exists
  <2> QED BY <1>1, <2>1, <2>2, <2>3, OriginsKept
<1>5. CASE DeleteRow(r)
  <2>1. /\ workflow' = [workflow EXCEPT ![job[r].wf] = Removed(workflow[job[r].wf])]
        /\ jobPc'[r] = "done" /\ UNCHANGED versions /\ Exists(job[r].wf)
        /\ job[r].wf \in Jobs
    BY <1>5 DEF DeleteRow, GoOn, WorkflowTypeOK, ControlOK
  <2>2. \A w \in Jobs : Exists(w)' => Exists(w) /\ workflow'[w].def = workflow[w].def
    BY <2>1 DEF Exists, Removed, WorkflowTypeOK
  <2> QED BY <1>1, <2>1, <2>2, OriginsKept
<1>6. CASE FindVersion(r)
  <2>1. PICK x \in Found(job[r].wf, job[r].num) : def' = [def EXCEPT ![r] = x.def]
    BY <1>6 DEF FindVersion
  <2>2. /\ x \in versions /\ x.wf = job[r].wf /\ x.def.num = job[r].num
        /\ def'[r] = x.def
    BY <2>1 DEF Found, WorkflowTypeOK
  <2>3. PICK q \in Jobs : ListedDefinition(q, x.wf, x.def)
    BY <2>2 DEF Origins
  <2>4. UNCHANGED <<workflow, versions>> /\ jobPc'[r] = "v_engine"
    BY <1>6 DEF FindVersion, GoOn, WorkflowTypeOK
  <2>5. ListedDefinition(q, job'[r].wf, def'[r]) /\ def'[r].num = job'[r].num
    BY <1>1, <2>2, <2>3
  <2>6. \A w \in Jobs : Exists(w)' => Exists(w) /\ workflow'[w].def = workflow[w].def
    BY <2>4 DEF Exists
  <2> QED BY <1>1, <2>4, <2>5, <2>6, OriginsKept
<1>7. CASE DeleteVersionEngine(r)
  <2>1. /\ UNCHANGED <<workflow, versions, def>> /\ jobPc[r] = "v_engine"
        /\ jobPc'[r] \in {"v_row", "failed"}
    BY <1>7 DEF DeleteVersionEngine, GoOn, WorkflowTypeOK
  <2>2. /\ \E q \in Jobs : ListedDefinition(q, job'[r].wf, def'[r])
        /\ def'[r].num = job'[r].num
    BY <1>1, <2>1 DEF Origins
  <2>3. \A w \in Jobs : Exists(w)' => Exists(w) /\ workflow'[w].def = workflow[w].def
    BY <2>1 DEF Exists
  <2> QED BY <1>1, <2>1, <2>2, <2>3, OriginsKept
<1>8. CASE \/ UpdateMissed(r) \/ CreateVersionClash(r) \/ DeleteEngine(r)
           \/ DeleteVersions(r) \/ VersionMissed(r) \/ DeleteVersionRow(r) \/ FailJob(r)
  <2>1. /\ UNCHANGED workflow /\ versions' \subseteq versions
        /\ jobPc'[r] \in {"done", "failed", "d_versions", "d_row"}
    BY <1>8 DEF UpdateMissed, CreateVersionClash, DeleteEngine, DeleteVersions,
         VersionMissed, DeleteVersionRow, FailJob, GoOn, WorkflowTypeOK
  <2>2. \A w \in Jobs : Exists(w)' => Exists(w) /\ workflow'[w].def = workflow[w].def
    BY <2>1 DEF Exists
  <2> QED BY <1>1, <2>1, <2>2, OriginsKept
<1> QED BY <1>2, <1>3, <1>4, <1>5, <1>6, <1>7, <1>8 DEF ContinueJob

-----------------------------------------------------------------------------
(* Pending and Guarded. *)

\* No deletion has in hand a definition that is on its way to the tables.
LEMMA NotInHand ==
  ASSUME ControlOK, Numbered, Origins, NEW q \in Jobs, NEW r \in Jobs,
         jobPc[q] \in {"c_row", "u_row", "version"}
  PROVE  /\ jobPc[r] = "d_engine" => def[q] \notin listed[r]
         /\ jobPc[r] = "v_engine" => def[q] # def[r]
<1>1. Made(q) /\ jobPc[q] # "done"
  BY DEF ControlOK, Made
<1>2. ASSUME NEW p \in Jobs, NEW w, ListedDefinition(p, w, def[q]) PROVE FALSE
  BY <1>1, <1>2 DEF ListedDefinition, Numbered
<1> QED BY <1>2 DEF Origins

LEMMA ActsPending ==
  ASSUME WorkflowTypeOK, ControlOK, Numbered, Origins, Pending, NEW r \in Jobs, Acts(r)
  PROVE  Pending'
<1>1. KeptDefinition(r)
  BY ActsKept
<1>2. CASE \E k \in ProcessKeys : Create(r, k) \/ \E w \in Jobs : Update(r, w, k)
  <2>1. PICK k \in ProcessKeys : Deploy(r, k)
    BY <1>2 DEF Create, Update
  <2>2. def'[r] \in engine' /\ engine \subseteq engine'
    BY <2>1 DEF Deploy, WorkflowTypeOK
  <2> QED BY <1>1, <2>2 DEF Pending, KeptDefinition
<1>3. CASE \E w \in Jobs : DeleteById(r, w)
  <2>1. jobPc'[r] = "d_engine" /\ engine' = engine
    BY <1>3 DEF DeleteById, BeginJob, WorkflowTypeOK
  <2> QED BY <1>1, <2>1 DEF Pending, KeptDefinition
<1>4. CASE \E w \in Jobs, n \in 1 .. MaxJobs - 1 : DeleteVersionById(r, w, n)
  <2>1. jobPc'[r] = "v_find" /\ engine' = engine
    BY <1>4 DEF DeleteVersionById, BeginJob, WorkflowTypeOK
  <2> QED BY <1>1, <2>1 DEF Pending, KeptDefinition
<1>5. CASE ContinueJob(r) \/ FailJob(r)
  <2>1. /\ jobPc'[r] \notin {"c_row", "u_row"}
        /\ jobPc'[r] = "version" => jobPc[r] \in {"c_row", "u_row"} /\
           engine' = engine /\ def' = def
        /\ \/ engine' = engine
           \/ jobPc[r] = "d_engine" /\ engine' = engine \ listed[r]
           \/ jobPc[r] = "v_engine" /\ engine' = engine \ {def[r]}
    BY <1>5 DEF ContinueJob, CreateRow, UpdateRow, UpdateMissed, CreateVersion,
         CreateVersionClash, DeleteEngine, DeleteVersions, DeleteRow, FindVersion,
         VersionMissed, DeleteVersionEngine, DeleteVersionRow, FailJob, GoOn, WorkflowTypeOK
  <2>2. ASSUME NEW q \in Jobs, q # r, jobPc'[q] \in {"c_row", "u_row", "version"}
        PROVE  def'[q] \in engine'
    <3>1. def'[q] = def[q] /\ jobPc[q] = jobPc'[q]
      BY <1>1, <2>2 DEF KeptDefinition
    <3> QED BY <2>1, <2>2, <3>1, NotInHand DEF Pending
  <2>3. jobPc'[r] = "version" => def'[r] \in engine'
    BY <2>1 DEF Pending
  <2> QED BY <2>1, <2>2, <2>3 DEF Pending
<1> QED BY <1>2, <1>3, <1>4, <1>5 DEF Acts, ArriveJob

\* A workflow that has kept its key so far had done so before.
LEMMA OneKeyBefore ==
  ASSUME NEW r \in Jobs, KeptDefinition(r), NEW w, OneKey(w)'
  PROVE  OneKey(w)
BY DEF OneKey, KeptDefinition, Made

\* The row is not given the version that a deletion has in hand.
LEMMA NotReturned ==
  ASSUME ControlOK, Numbered, Origins, NEW q \in Jobs, NEW r \in Jobs,
         jobPc[q] \in {"v_find", "v_engine"}, job[q].seen, jobPc[r] = "u_row",
         job[r].wf = job[q].wf, OneKey(job[q].wf)
  PROVE  def[r].num # job[q].num
<1>1. PICK p \in Jobs :
        Made(p) /\ jobPc[p] = "done" /\ job[p].wf = job[q].wf /\ def[p].num = job[q].num
  BY DEF Origins, ListedDefinition
<1>2. Made(r) /\ r # p
  BY <1>1 DEF ControlOK, Made
<1>3. def[p] \in Definitions /\ def[r] \in Definitions /\ def[p] # def[r]
  BY <1>1, <1>2 DEF ControlOK, Numbered
<1>4. def[p].key = def[r].key
  BY <1>1, <1>2 DEF OneKey, Made
<1> QED BY <1>1, <1>3, <1>4 DEF Definitions

LEMMA ActsGuarded ==
  ASSUME WorkflowTypeOK, ControlOK, Numbered, Origins, Guarded, NEW r \in Jobs, Acts(r)
  PROVE  Guarded'
<1>1. KeptDefinition(r)
  BY ActsKept
<1>2. SUFFICES ASSUME NEW q \in Jobs, jobPc'[q] \in {"v_find", "v_engine"}, job'[q].seen,
                      NEW w, w = job'[q].wf, OneKey(w)'
               PROVE  workflow'[w].def.num # job'[q].num
  BY DEF Guarded, OneKey
<1>3. OneKey(w)
  BY <1>1, <1>2, OneKeyBefore
<1>4. CASE q = r /\ ArriveJob(r)
  <2>1. jobPc'[r] = "v_find"
    BY <1>2, <1>4 DEF ArriveJob, Create, Update, DeleteById, DeleteVersionById, BeginJob,
      WorkflowTypeOK
  <2>2. PICK u \in Jobs, n \in 1 .. MaxJobs - 1 : DeleteVersionById(r, u, n)
    BY <1>4, <2>1 DEF ArriveJob, Create, Update, DeleteById, BeginJob, WorkflowTypeOK
  <2>3. job'[r].wf = u /\ job'[r].num = n /\ workflow' = workflow
    BY <2>2, BeginCall DEF DeleteVersionById
  <2>4. workflow[u].def.num # n
    BY <2>2 DEF DeleteVersionById, NotLatest
  <2> QED BY <1>2, <1>4, <2>3, <2>4
<1>5. CASE q # r \/ ContinueJob(r) \/ FailJob(r)
  <2>1. /\ job'[q] = job[q] /\ jobPc[q] \in {"v_find", "v_engine"}
        /\ w \in Jobs /\ Exists(w)
    <3>1. /\ job'[q] = job[q] /\ jobPc[q] \in {"v_find", "v_engine"}
      <4>1. CASE q # r
        BY <4>1, <1>1, <1>2 DEF KeptDefinition
      <4>2. CASE q = r /\ (ContinueJob(r) \/ FailJob(r))
        <5>1. jobPc'[r] = "v_engine" /\ jobPc[r] = "v_find"
          BY <4>2, <1>2 DEF ContinueJob, CreateRow, UpdateRow, UpdateMissed, CreateVersion,
             CreateVersionClash, DeleteEngine, DeleteVersions, DeleteRow, FindVersion,
             VersionMissed, DeleteVersionEngine, DeleteVersionRow, FailJob, Underway, GoOn,
             WorkflowTypeOK
        <5> QED BY <4>2, <5>1, ContinueKept
      <4> QED BY <1>5, <4>1, <4>2
    <3> QED BY <3>1, <1>2 DEF ControlOK
  <2>2. workflow[w].def.num # job[q].num
    BY <1>2, <1>3, <2>1 DEF Guarded
  <2>3. CASE CreateRow(r)
    <3>1. w # r
      BY <2>1, <2>3 DEF CreateRow, ControlOK
    <3> QED BY <2>1, <2>2, <2>3, <3>1 DEF CreateRow, WorkflowTypeOK
  <2>4. CASE UpdateRow(r)
    <3>1. CASE w = job[r].wf
      <4>1. def[r].num # job[q].num
        BY <1>2, <1>3, <2>1, <2>4, <3>1, NotReturned DEF UpdateRow
      <4> QED BY <2>1, <2>4, <3>1, <4>1 DEF UpdateRow, WorkflowTypeOK
    <3>2. CASE w # job[r].wf
      BY <2>1, <2>2, <2>4, <3>2 DEF UpdateRow, WorkflowTypeOK
    <3> QED BY <3>1, <3>2
  <2>5. CASE DeleteRow(r)
    BY <2>1, <2>2, <2>5 DEF DeleteRow, Removed, WorkflowTypeOK
  <2>6. CASE UNCHANGED workflow
    BY <2>1, <2>2, <2>6
  <2> QED BY <2>3, <2>4, <2>5, <2>6, ArriveKept DEF Acts, ContinueJob, UpdateMissed,
         CreateVersion, CreateVersionClash, DeleteEngine, DeleteVersions, FindVersion,
         VersionMissed, DeleteVersionEngine, DeleteVersionRow, FailJob
<1> QED BY <1>4, <1>5 DEF Acts

-----------------------------------------------------------------------------
(* Backed. *)

\* The deletions that account for a version row without a definition.
Cut(w) ==
  \E r \in Jobs :
    /\ job[r].op = "deleteById" /\ job[r].wf = w
    /\ jobPc[r] \in {"d_versions", "failed"}

\* Such a deletion stays one, but for the step that removes the rows.
LEMMA AccountKept ==
  ASSUME WorkflowTypeOK, ControlOK, NEW r \in Jobs, Acts(r), NEW x,
         DeletingVersion(x) \/ Cut(x.wf),
         ~DeleteVersions(r), ~(DeleteVersionRow(r) /\ x = VersionRow(job[r].wf, def[r])),
         x \in [wf : Jobs, def : Definitions]
  PROVE  (DeletingVersion(x) \/ Cut(x.wf))'
<1>1. KeptDefinition(r)
  BY ActsKept
<1>2. CASE DeletingVersion(x)
  <2>1. PICK q \in Jobs :
          /\ job[q].op = "deleteVersion" /\ job[q].wf = x.wf /\ def[q] = x.def
          /\ jobPc[q] \in {"v_row", "failed"}
    BY <1>2 DEF DeletingVersion
  <2>2. CASE q # r
    BY <1>1, <2>1, <2>2 DEF KeptDefinition, DeletingVersion
  <2>3. CASE q = r
    <3>0. ~ArriveJob(r)
      BY <2>1, <2>3, ArriveKept
    <3>1. jobPc[r] = "v_row" /\ (DeleteVersionRow(r) \/ FailJob(r))
      BY <2>1, <2>3, <3>0 DEF Acts, ContinueJob, CreateRow, UpdateRow, UpdateMissed,
         CreateVersion, CreateVersionClash, DeleteEngine, DeleteVersions, DeleteRow,
         FindVersion, VersionMissed, DeleteVersionEngine, DeleteVersionRow, FailJob, Underway
    <3>2. x = VersionRow(job[r].wf, def[r])
      BY <2>1, <2>3 DEF VersionRow
    <3>3. jobPc'[r] = "failed" /\ UNCHANGED <<job, def>>
      BY <3>1, <3>2 DEF FailJob, GoOn, WorkflowTypeOK
    <3> QED BY <2>1, <2>3, <3>3 DEF DeletingVersion
  <2> QED BY <2>2, <2>3
<1>3. CASE Cut(x.wf)
  <2>1. PICK q \in Jobs :
          /\ job[q].op = "deleteById" /\ job[q].wf = x.wf
          /\ jobPc[q] \in {"d_versions", "failed"}
    BY <1>3 DEF Cut
  <2>2. CASE q # r
    BY <1>1, <2>1, <2>2 DEF KeptDefinition, Cut
  <2>3. CASE q = r
    <3>0. ~ArriveJob(r)
      BY <2>1, <2>3, ArriveKept
    <3>1. jobPc[r] = "d_versions" /\ FailJob(r)
      BY <2>1, <2>3, <3>0 DEF Acts, ContinueJob, CreateRow, UpdateRow, UpdateMissed,
         CreateVersion, CreateVersionClash, DeleteEngine, DeleteRow, FindVersion,
         VersionMissed, DeleteVersionEngine, DeleteVersionRow, FailJob, Underway
    <3>2. jobPc'[r] = "failed" /\ UNCHANGED job
      BY <3>1 DEF FailJob, GoOn, WorkflowTypeOK
    <3> QED BY <2>1, <2>3, <3>2 DEF Cut
  <2> QED BY <2>2, <2>3
<1> QED BY <1>2, <1>3

LEMMA ActsBacked ==
  ASSUME WorkflowTypeOK, ControlOK, Numbered, Origins, Pending, Backed, NEW r \in Jobs,
         Acts(r), WorkflowTypeOK'
  PROVE  Backed'
<1>1. SUFFICES ASSUME NEW x \in versions'
               PROVE  x.def \in engine' \/ (DeletingVersion(x) \/ Cut(x.wf))'
  BY DEF Backed, Cut
<1>2. x \in [wf : Jobs, def : Definitions]
  BY DEF WorkflowTypeOK
<1>3. CASE CreateVersion(r) /\ x \notin versions
  <2>1. x = VersionRow(job[r].wf, def[r]) /\ engine' = engine /\ jobPc[r] = "version"
    BY <1>3 DEF CreateVersion
  <2> QED BY <2>1 DEF VersionRow, Pending
<1>4. CASE DeleteVersions(r)
  <2>1. /\ x \in versions /\ x.wf # job[r].wf /\ UNCHANGED <<engine, job, def>>
        /\ \A q \in Jobs : q # r => jobPc'[q] = jobPc[q]
        /\ jobPc[r] = "d_versions"
    BY <1>4 DEF DeleteVersions, GoOn, WorkflowTypeOK
  <2> QED BY <2>1 DEF Backed, DeletingVersion, Cut
<1>5. CASE DeleteEngine(r) /\ x \in versions /\ x.def \in listed[r]
  <2>1. PICK p \in Jobs : ListedDefinition(p, job[r].wf, x.def)
    BY <1>5 DEF Origins, DeleteEngine
  <2>2. PICK q \in Jobs : ListedDefinition(q, x.wf, x.def)
    BY <1>5 DEF Origins
  <2>3. job[r].wf = x.wf
    BY <2>1, <2>2 DEF ListedDefinition, Numbered
  <2>4. /\ jobPc'[r] \in {"d_versions", "failed"} /\ job' = job
        /\ job[r].op = "deleteById"
    BY <1>5 DEF DeleteEngine, GoOn, WorkflowTypeOK, ControlOK
  <2> QED BY <2>3, <2>4 DEF Cut
<1>6. CASE DeleteVersionEngine(r) /\ x \in versions /\ x.def = def[r]
  <2>1. PICK p \in Jobs : ListedDefinition(p, job[r].wf, x.def)
    BY <1>6 DEF Origins, DeleteVersionEngine
  <2>2. PICK q \in Jobs : ListedDefinition(q, x.wf, x.def)
    BY <1>6 DEF Origins
  <2>3. job[r].wf = x.wf
    BY <2>1, <2>2 DEF ListedDefinition, Numbered
  <2>4. /\ jobPc'[r] \in {"v_row", "failed"} /\ UNCHANGED <<job, def>>
        /\ job[r].op = "deleteVersion"
    BY <1>6 DEF DeleteVersionEngine, GoOn, WorkflowTypeOK, ControlOK
  <2> QED BY <1>6, <2>3, <2>4 DEF DeletingVersion
<1>7. CASE /\ x \in versions /\ ~DeleteVersions(r)
           /\ ~(DeleteEngine(r) /\ x.def \in listed[r])
           /\ ~(DeleteVersionEngine(r) /\ x.def = def[r])
  <2>1. x.def \in engine => x.def \in engine'
    BY <1>7 DEF Acts, ArriveJob, Create, Update, Deploy, DeleteById, DeleteVersionById,
         ContinueJob, CreateRow, UpdateRow, UpdateMissed, CreateVersion,
         CreateVersionClash, DeleteEngine, DeleteRow, FindVersion, VersionMissed,
         DeleteVersionEngine, DeleteVersionRow, FailJob
  <2>2. ~(DeleteVersionRow(r) /\ x = VersionRow(job[r].wf, def[r]))
    BY DEF DeleteVersionRow
  <2>3. x.def \in engine \/ DeletingVersion(x) \/ Cut(x.wf)
    BY <1>7 DEF Backed, Cut
  <2> QED BY <1>2, <1>7, <2>1, <2>2, <2>3, AccountKept
<1>8. x \in versions \/ CreateVersion(r)
  BY ArriveKept DEF Acts, ContinueJob, CreateRow, UpdateRow, UpdateMissed,
     CreateVersionClash, DeleteEngine, DeleteVersions, DeleteRow, FindVersion,
     VersionMissed, DeleteVersionEngine, DeleteVersionRow, FailJob
<1> QED BY <1>3, <1>4, <1>5, <1>6, <1>7, <1>8

-----------------------------------------------------------------------------
(* RowRuns. *)

\* A deletion of a workflow that was asked for was asked for before, or is now
\* done with a workflow that is not live.
LEMMA DeletingKept ==
  ASSUME WorkflowTypeOK, ControlOK, NEW r \in Jobs, Acts(r), NEW w \in Jobs,
         Deleting(w), Live(w)'
  PROVE  Deleting(w)'
<1>1. KeptDefinition(r)
  BY ActsKept
<1>2. PICK q \in Jobs :
        job[q].op = "deleteById" /\ job[q].wf = w /\ jobPc[q] # "done"
  BY DEF Deleting
<1>3. CASE q # r
  BY <1>1, <1>2, <1>3 DEF KeptDefinition, Deleting
<1>4. CASE q = r /\ jobPc'[r] # "done"
  BY <1>1, <1>2, <1>4 DEF KeptDefinition, Deleting
<1>5. CASE q = r /\ jobPc'[r] = "done"
  <2>1. ~ArriveJob(r) /\ jobPc[r] \notin {"version", "v_row"}
    BY <1>2, <1>5, ArriveKept DEF ControlOK, Made
  <2>2. DeleteRow(r)
    BY <1>5, <2>1 DEF Acts, ContinueJob, CreateRow, UpdateRow, UpdateMissed,
       CreateVersion, CreateVersionClash, DeleteEngine, DeleteVersions, FindVersion,
       VersionMissed, DeleteVersionEngine, DeleteVersionRow, FailJob, GoOn, WorkflowTypeOK
  <2>3. workflow'[w].status = "deleted"
    BY <1>2, <1>5, <2>2 DEF DeleteRow, Removed, WorkflowTypeOK
  <2> QED BY <2>3 DEF Live
<1> QED BY <1>3, <1>4, <1>5

\* What was asked too early stays so.
LEMMA ForeseenKept ==
  ASSUME WorkflowTypeOK, ControlOK, NEW r \in Jobs, Acts(r), NEW w, NEW n, Foreseen(w, n),
         workflow'[w].def.num = n
  PROVE  Foreseen(w, workflow[w].def.num)'
<1>1. PICK q \in Jobs :
        job[q].op = "deleteVersion" /\ job[q].wf = w /\ job[q].num = n /\ ~job[q].seen
  BY DEF Foreseen
<1>2. job'[q] = job[q]
  BY <1>1, ActsKept, ArriveKept, ContinueKept DEF Acts, KeptDefinition
<1> QED BY <1>1, <1>2 DEF Foreseen

LEMMA ActsRowRuns ==
  ASSUME WorkflowTypeOK, ControlOK, Numbered, Origins, Guarded, Pending, RowRuns,
         NEW r \in Jobs, Acts(r), WorkflowTypeOK'
  PROVE  RowRuns'
<1>1. KeptDefinition(r)
  BY ActsKept
<1>2. SUFFICES ASSUME NEW w \in Jobs, Live(w)', OneKey(w)', ~Deleting(w)',
                      ~Foreseen(w, workflow[w].def.num)'
               PROVE  workflow'[w].def \in engine'
  BY DEF RowRuns
<1>3. OneKey(w) /\ ~Deleting(w)
  BY <1>1, <1>2, OneKeyBefore, DeletingKept
<1>9. workflow'[w].def = workflow[w].def => ~Foreseen(w, workflow[w].def.num)
  BY <1>1, <1>2, ForeseenKept
<1>4. CASE CreateRow(r)
  <2>1. def[r] \in engine /\ engine' = engine
    BY <1>4 DEF Pending, CreateRow
  <2>2. workflow' = [workflow EXCEPT ![r] = [status |-> "live", def |-> def[r]]]
    BY <1>4 DEF CreateRow
  <2>3. CASE w = r
    BY <1>2, <2>1, <2>2, <2>3 DEF WorkflowTypeOK
  <2>4. CASE w # r
    <3>1. workflow'[w] = workflow[w]
      BY <2>2, <2>4 DEF WorkflowTypeOK
    <3> QED BY <1>2, <1>3, <1>9, <2>1, <3>1 DEF RowRuns, Live
  <2> QED BY <2>3, <2>4
<1>5. CASE UpdateRow(r)
  <2>1. def[r] \in engine /\ engine' = engine
    BY <1>5 DEF Pending, UpdateRow
  <2>2. workflow' = [workflow EXCEPT ![job[r].wf].def = def[r]]
    BY <1>5 DEF UpdateRow
  <2>3. CASE w = job[r].wf
    BY <1>2, <2>1, <2>2, <2>3 DEF WorkflowTypeOK
  <2>4. CASE w # job[r].wf
    <3>1. workflow'[w] = workflow[w]
      BY <2>2, <2>4 DEF WorkflowTypeOK
    <3> QED BY <1>2, <1>3, <1>9, <2>1, <3>1 DEF RowRuns, Live
  <2> QED BY <2>3, <2>4
<1>6. CASE DeleteRow(r)
  <2>1. /\ workflow' = [workflow EXCEPT ![job[r].wf] = Removed(workflow[job[r].wf])]
        /\ engine' = engine
    BY <1>6 DEF DeleteRow
  <2>2. Live(w) /\ workflow'[w].def = workflow[w].def
    BY <1>2, <2>1 DEF Live, Removed, WorkflowTypeOK
  <2> QED BY <1>3, <1>9, <2>1, <2>2 DEF RowRuns
<1>7. CASE DeleteEngine(r) \/ DeleteVersionEngine(r)
  <2>1. workflow' = workflow /\ Live(w) /\ Exists(w)
    BY <1>2, <1>7 DEF DeleteEngine, DeleteVersionEngine, Live, Exists
  <2>2. PICK q \in Jobs : Made(q) /\ job[q].wf = w /\ def[q] = workflow[w].def
    BY <2>1 DEF Origins
  <2>3. ASSUME NEW p \in Jobs, ListedDefinition(p, job[r].wf, workflow[w].def)
        PROVE  job[r].wf = w
    BY <2>2, <2>3 DEF ListedDefinition, Numbered
  <2>4. CASE DeleteEngine(r)
    <3>1. jobPc[r] = "d_engine" /\ job[r].op = "deleteById" /\ engine' = engine \ listed[r]
      BY <2>4 DEF DeleteEngine, ControlOK
    <3>2. job[r].wf # w
      BY <1>3, <3>1 DEF Deleting
    <3>3. workflow[w].def \notin listed[r]
      BY <2>3, <3>1, <3>2 DEF Origins
    <3> QED BY <1>3, <1>9, <2>1, <3>1, <3>3 DEF RowRuns
  <2>5. CASE DeleteVersionEngine(r)
    <3>1. jobPc[r] = "v_engine" /\ engine' = engine \ {def[r]}
      BY <2>5 DEF DeleteVersionEngine
    <3>2. /\ \E p \in Jobs : ListedDefinition(p, job[r].wf, def[r])
          /\ def[r].num = job[r].num
      BY <3>1 DEF Origins
    <3>3. ASSUME def[r] = workflow[w].def PROVE FALSE
      <4>1. job[r].wf = w
        BY <2>3, <3>2, <3>3
      <4>2. CASE job[r].seen
        BY <1>3, <3>1, <3>2, <3>3, <4>1, <4>2 DEF Guarded
      <4>3. CASE ~job[r].seen
        <5>1. job[r].op = "deleteVersion"
          BY <3>1 DEF ControlOK
        <5> QED BY <1>9, <2>1, <3>2, <3>3, <4>1, <4>3, <5>1 DEF Foreseen
      <4> QED BY <4>2, <4>3
    <3> QED BY <1>3, <1>9, <2>1, <3>1, <3>3 DEF RowRuns
  <2> QED BY <1>7, <2>4, <2>5
<1>8. CASE UNCHANGED workflow /\ engine \subseteq engine'
  BY <1>2, <1>3, <1>8, <1>9 DEF RowRuns, Live
<1> QED BY <1>4, <1>5, <1>6, <1>7, <1>8
     DEF Acts, ArriveJob, Create, Update, Deploy, DeleteById, DeleteVersionById, ContinueJob,
         UpdateMissed, CreateVersion, CreateVersionClash, DeleteVersions, FindVersion,
         VersionMissed, DeleteVersionRow, FailJob

-----------------------------------------------------------------------------
(* The theorems. *)

LEMMA WorkflowInitInv == WorkflowInit => WorkflowInv
<1> SUFFICES ASSUME WorkflowInit PROVE WorkflowInv
  OBVIOUS
<1>1. WorkflowTypeOK
  BY InitType
<1>2. /\ \A r \in Jobs : jobPc[r] = "idle" /\ job[r].op = "none" /\ ~Made(r)
      /\ \A r \in Jobs : ~Exists(r) /\ ~Live(r)
      /\ engine = {} /\ versions = {}
  BY DEF WorkflowInit, Made, NoJob, Exists, Live, NoWorkflow
<1>3. ControlOK
  BY <1>2 DEF ControlOK, WorkflowInit, NoJob
<1>4. Numbered /\ Origins /\ Guarded /\ Pending /\ Backed /\ RowRuns
  BY <1>2 DEF Numbered, Origins, Guarded, Pending, Backed, RowRuns
<1> QED BY <1>1, <1>3, <1>4 DEF WorkflowInv

LEMMA WorkflowNextInv == WorkflowInv /\ [WorkflowNext]_workflowVars => WorkflowInv'
<1> SUFFICES ASSUME WorkflowInv, [WorkflowNext]_workflowVars PROVE WorkflowInv'
  OBVIOUS
<1>1. ASSUME NEW r \in Jobs, Acts(r) PROVE WorkflowInv'
  <2>1. WorkflowTypeOK'
    BY <1>1, ArriveType, ContinueType DEF WorkflowInv, Acts
  <2>2. ControlOK'
    BY <1>1, <2>1, ArriveControl, ContinueControl DEF WorkflowInv, Acts
  <2>3. Numbered'
    BY <1>1, <2>1, ActsNumbered DEF WorkflowInv
  <2>4. Origins'
    BY <1>1, <2>1, ArriveOrigins, ContinueOrigins DEF WorkflowInv, Acts
  <2>5. Pending' /\ Guarded'
    BY <1>1, ActsPending, ActsGuarded DEF WorkflowInv
  <2>6. Backed'
    BY <1>1, <2>1, ActsBacked DEF WorkflowInv
  <2>7. RowRuns'
    BY <1>1, <2>1, ActsRowRuns DEF WorkflowInv
  <2> QED BY <2>1, <2>2, <2>3, <2>4, <2>5, <2>6, <2>7 DEF WorkflowInv
<1>2. CASE UNCHANGED workflowVars
  BY <1>2 DEF WorkflowInv, WorkflowTypeOK, ControlOK, Numbered, Origins, Guarded, Pending, Backed,
     RowRuns, workflowVars, Made, ListedDefinition, Exists, Live, OneKey, Foreseen,
     Deleting, DeletingVersion
<1> QED BY <1>1, <1>2 DEF WorkflowNext, RestOfJobs, Acts

LEMMA WorkflowInvariance == WorkflowSpec => []WorkflowInv
BY WorkflowInitInv, WorkflowNextInv, PTL DEF WorkflowSpec

\* Tables, engine and handlers keep their types.
THEOREM WorkflowTypes == WorkflowSpec => []WorkflowTypeOK
<1>1. WorkflowInv => WorkflowTypeOK
  BY DEF WorkflowInv
<1> QED BY <1>1, WorkflowInvariance, PTL

\* A workflow that keeps its process key and that nobody has asked to delete
\* names a definition the engine has, for any number of concurrent updates and
\* deletions, wherever they are cut short.
THEOREM RowsRun == WorkflowSpec => []RowRuns
<1>1. WorkflowInv => RowRuns
  BY DEF WorkflowInv
<1> QED BY <1>1, WorkflowInvariance, PTL

\* A listed version names a definition the engine has, unless a deletion of it
\* or of its workflow is between engine and table.
THEOREM ListedVersionsRun == WorkflowSpec => []VersionsRun
<1>1. WorkflowInv => VersionsRun
  BY DEF WorkflowInv, Backed, VersionsRun, Deleting, DeletingVersion
<1> QED BY <1>1, WorkflowInvariance, PTL
=============================================================================
