---------------------------- MODULE InMailProofs ----------------------------
(***************************************************************************)
(* Type correctness of the in-mail service.  TypeOK is not inductive: a    *)
(* handler that creates a message writes its argument into the status, and *)
(* one that edits a message relies on its being there.  ControlOK says     *)
(* what the label of a handler tells of its call and of its message.  At   *)
(* the end: what the liveness of the handlers rests on.                    *)
(***************************************************************************)
EXTENDS InMail, FiniteSetTheorems, TLAPS

\* Where a handler is relative to the message it is about.
Creating == {"c_count", "c_message", "r_message", "f_count", "f_commit"}
Created == {"c_rows", "r_select", "r_sender", "r_commit"}
Editing ==
  {"u_files", "u_lock", "u_scan", "u_patch", "u_message", "u_commit", "s_rows", "s_status",
   "a_add"}

RequestOK(r) ==
  /\ pc[r] \in Creating \cup {"idle"} => message[r] = NoMessage
  /\ pc[r] \in Creating => call[r].arg \in {"draft", "send"}
  /\ pc[r] \in Created => Exists(r) /\ message[r].thread = call[r].thread
  /\ pc[r] \in Editing =>
       Exists(call[r].msg) /\ message[call[r].msg].thread = call[r].thread
  /\ pc[r] # "idle" => count[call[r].thread] > 0

\* The conjuncts that make TypeOK inductive.
ControlOK ==
  /\ \A r \in Requests : RequestOK(r)
  /\ \A m \in Requests : Exists(m) => count[message[m].thread] > 0

\* A new group row is a row, for any party, type, storage and visibility.
LEMMA NewRowType ==
  ASSUME NEW r \in Requests, call[r] \in CallType, NEW m \in Requests,
         NEW p \in Users, NEW ty \in {"from", "to"}, NEW st \in Storages,
         NEW vis \in {"new", "read", "unread"}
  PROVE  NewRow(r, m, p, ty, st, vis) \in RowType
BY DEF NewRow, RowType, CallType

\* A request is a call when its parts have their types.
LEMMA RequestType ==
  ASSUME NEW o \in Ops, NEW a \in Args, NEW u \in Users,
         NEW m \in Requests, NEW t \in Requests, NEW to \in SUBSET Users,
         NEW f \in BOOLEAN, NEW all \in BOOLEAN
  PROVE  Request(o, a, u, m, t, to, f, all) \in CallType
BY DEF Request, CallType, Ops, Args

\* The thread of a message that exists is a thread.
LEMMA ThreadOfType ==
  ASSUME TypeOK, NEW m \in Requests, Exists(m)
  PROVE  ThreadOf(m) \in Requests
BY DEF ThreadOf, TypeOK, Exists, NoMessage, MessageType

\* A filing or marking request about a message that exists is a call.
LEMMA AboutType ==
  ASSUME TypeOK, NEW o \in Ops, NEW a \in Args, NEW u \in Users,
         NEW m \in Requests, Exists(m)
  PROVE  About(o, a, u, m) \in CallType
BY RequestType, ThreadOfType DEF About

\* The row of the author is a row.
LEMMA AuthorRowType ==
  ASSUME NEW r \in Requests, call[r] \in CallType, NEW m \in Requests,
         NEW vis \in {"new", "read", "unread"}
  PROVE  AuthorRow(r, m, vis) \in RowType
BY NewRowType DEF AuthorRow, CallType, Storages

\* The rows of the recipients are rows.
LEMMA RecipientRowsType ==
  ASSUME NEW r \in Requests, call[r] \in CallType, NEW m \in Requests
  PROVE  RecipientRows(r, m) \subseteq RowType
BY NewRowType DEF RecipientRows, CallType, Storages

\* The attachment of a body is an attachment row.
LEMMA BodyFilesType ==
  ASSUME NEW r \in Requests, NEW m \in Requests
  PROVE  BodyFiles(r, m) \subseteq FileType
<1>1. [req |-> r, msg |-> m, deleted |-> FALSE] \in FileType
  BY DEF FileType
<1> QED BY <1>1, Zenon DEF BodyFiles

\* Starting a request with a call of the right type.
LEMMA BeginType ==
  ASSUME TypeOK, NEW r \in Requests, NEW c \in CallType, NEW l \in Labels,
         Begin(r, c), Goto(r, l)
  PROVE  /\ call' \in [Requests -> {NoCall} \cup CallType]
         /\ pc' \in [Requests -> Labels \cup Ended \cup {"idle"}]
         /\ \A q \in Requests : pc'[q] # "idle" => call'[q] \in CallType
BY DEF TypeOK, Begin, Goto

\* A handler that has started keeps its call when it goes on or ends.
LEMMA EndType ==
  ASSUME TypeOK, NEW r \in Requests, pc[r] # "idle",
         NEW l \in Labels \cup Ended, Goto(r, l), UNCHANGED call
  PROVE  /\ call' \in [Requests -> {NoCall} \cup CallType]
         /\ pc' \in [Requests -> Labels \cup Ended \cup {"idle"}]
         /\ \A q \in Requests : pc'[q] # "idle" => call'[q] \in CallType
BY DEF TypeOK, Goto

\* A handler that ends forgets what it held.
LEMMA DropType ==
  ASSUME TypeOK, NEW r \in Requests, Drop(r)
  PROVE  /\ work' \in [Requests -> SUBSET RowType]
         /\ workFiles' \in [Requests -> SUBSET FileType]
         /\ seenCount' \in [Requests -> Nat]
BY DEF TypeOK, Drop

\* Starting composeMail keeps the types; the recipients are users.
LEMMA ComposeType ==
  ASSUME TypeOK, NEW r \in Requests, Compose(r)
  PROVE  TypeOK'
<1> PICK u \in Users :
      \E s \in {"draft", "send"}, t \in Requests,
         to \in Addressed(u) \ {{}}, f \in WithFile :
        /\ Begin(r, Request("compose", s, u, r, t, to, f, FALSE))
        /\ \/ /\ count' = [count EXCEPT ![r] = 1]
              /\ Goto(r, "c_message") /\ UNCHANGED seenCount
           \/ /\ seenCount' = [seenCount EXCEPT ![r] = count[t]]
              /\ Goto(r, "c_count") /\ UNCHANGED count
        /\ UNCHANGED <<message, rows, files, work, workFiles>>
  BY DEF Compose
<1> PICK s \in {"draft", "send"}, t \in Requests,
         to \in Addressed(u) \ {{}}, f \in WithFile :
      /\ Begin(r, Request("compose", s, u, r, t, to, f, FALSE))
      /\ \/ /\ count' = [count EXCEPT ![r] = 1]
            /\ Goto(r, "c_message") /\ UNCHANGED seenCount
         \/ /\ seenCount' = [seenCount EXCEPT ![r] = count[t]]
            /\ Goto(r, "c_count") /\ UNCHANGED count
      /\ UNCHANGED <<message, rows, files, work, workFiles>>
  OBVIOUS
<1> DEFINE c == Request("compose", s, u, r, t, to, f, FALSE)
<1>1. c \in CallType
  <2>1. to \in SUBSET Users
    BY AudiencesAssumption DEF Addressed
  <2>2. f \in BOOLEAN
    BY SwitchesAssumption
  <2> QED BY <2>1, <2>2, RequestType DEF Ops, Args, Storages
<1>2. CASE Goto(r, "c_message") /\ count' = [count EXCEPT ![r] = 1] /\ UNCHANGED seenCount
  BY <1>1, <1>2, BeginType DEF TypeOK, Labels
<1>3. CASE Goto(r, "c_count") /\ UNCHANGED count
           /\ seenCount' = [seenCount EXCEPT ![r] = count[t]]
  BY <1>1, <1>3, BeginType DEF TypeOK, Labels
<1> QED BY <1>2, <1>3

\* Starting updateDraft keeps the types.
LEMMA StartUpdateType ==
  ASSUME TypeOK, NEW r \in Requests, Update(r)
  PROVE  TypeOK'
<1> PICK u \in Users :
      \E s \in {"draft", "send"}, m \in Requests, to \in Addressed(u), f \in WithFile :
        /\ Begin(r, Request("update", s, u, m, ThreadOf(m), to, f, FALSE))
        /\ Knows(u, m) /\ Goto(r, "u_files")
        /\ UNCHANGED <<count, message, rows, files, locals>>
  BY DEF Update
<1> PICK s \in {"draft", "send"}, m \in Requests, to \in Addressed(u), f \in WithFile :
      /\ Begin(r, Request("update", s, u, m, ThreadOf(m), to, f, FALSE))
      /\ Knows(u, m) /\ Goto(r, "u_files")
      /\ UNCHANGED <<count, message, rows, files, locals>>
  OBVIOUS
<1>1. to \in SUBSET Users /\ f \in BOOLEAN /\ ThreadOf(m) \in Requests
  BY AudiencesAssumption, SwitchesAssumption, ThreadOfType DEF Addressed, Knows
<1>2. Request("update", s, u, m, ThreadOf(m), to, f, FALSE) \in CallType
  BY <1>1, RequestType DEF Ops, Args, Storages
<1> QED BY <1>2, BeginType DEF TypeOK, Labels, locals

\* Starting sendDraft keeps the types; what the draft was marked to are users.
LEMMA StartSendDraftType ==
  ASSUME TypeOK, NEW r \in Requests, SendDraft(r)
  PROVE  TypeOK'
<1> PICK u \in Users, m \in Requests :
      /\ Begin(r, Request("sendDraft", "draft", u, m, ThreadOf(m),
                          message[m].markedTo, FALSE, FALSE))
      /\ Knows(u, m) /\ Goto(r, "s_rows")
      /\ UNCHANGED <<count, message, rows, files, locals>>
  BY DEF SendDraft
<1>1. message[m].markedTo \in SUBSET Users /\ ThreadOf(m) \in Requests
  BY ThreadOfType DEF Knows, TypeOK, MessageType, NoMessage, Exists
<1>2. Request("sendDraft", "draft", u, m, ThreadOf(m), message[m].markedTo,
              FALSE, FALSE) \in CallType
  BY <1>1, RequestType DEF Ops, Args, Storages
<1> QED BY <1>2, BeginType DEF TypeOK, Labels, locals

\* Starting replyMail keeps the types.
LEMMA StartReplyType ==
  ASSUME TypeOK, NEW r \in Requests, Reply(r)
  PROVE  TypeOK'
<1> PICK u \in Users, s \in {"draft", "send"}, m \in Requests, all \in BOOLEAN,
         f \in WithFile :
      /\ Begin(r, Request("reply", s, u, m, ThreadOf(m), message[m].markedTo, f, all))
      /\ Knows(u, m) /\ Goto(r, "r_message")
      /\ UNCHANGED <<count, message, rows, files, locals>>
  BY DEF Reply
<1>1. message[m].markedTo \in SUBSET Users /\ ThreadOf(m) \in Requests /\ f \in BOOLEAN
  BY ThreadOfType, SwitchesAssumption DEF Knows, TypeOK, MessageType, NoMessage, Exists
<1>2. Request("reply", s, u, m, ThreadOf(m), message[m].markedTo, f, all) \in CallType
  BY <1>1, RequestType DEF Ops, Args, Storages
<1> QED BY <1>2, BeginType DEF TypeOK, Labels, locals

\* Starting forward keeps the types.
LEMMA StartForwardType ==
  ASSUME TypeOK, NEW r \in Requests, Forward(r)
  PROVE  TypeOK'
<1> PICK u \in Users :
      \E s \in {"draft", "send"}, t \in Requests, to \in Addressed(u), f \in WithFile :
        /\ Begin(r, Request("forward", s, u, r, t, to, f, FALSE))
        /\ Goto(r, "f_count")
        /\ UNCHANGED <<count, message, rows, files, locals>>
  BY DEF Forward
<1> PICK s \in {"draft", "send"}, t \in Requests, to \in Addressed(u), f \in WithFile :
      /\ Begin(r, Request("forward", s, u, r, t, to, f, FALSE))
      /\ Goto(r, "f_count")
      /\ UNCHANGED <<count, message, rows, files, locals>>
  OBVIOUS
<1>1. to \in SUBSET Users /\ f \in BOOLEAN
  BY AudiencesAssumption, SwitchesAssumption DEF Addressed
<1>2. Request("forward", s, u, r, t, to, f, FALSE) \in CallType
  BY <1>1, RequestType DEF Ops, Args, Storages
<1> QED BY <1>2, BeginType DEF TypeOK, Labels, locals

\* Starting addAttachment or removeAttachment keeps the types.
LEMMA StartAttachmentType ==
  ASSUME TypeOK, NEW r \in Requests, Attachment(r)
  PROVE  TypeOK'
<1> PICK u \in Users, m \in Requests, a \in {"add", "remove"} :
      /\ Begin(r, Request("attachment", a, u, m, ThreadOf(m), {}, a = "add", FALSE))
      /\ Knows(u, m) /\ Goto(r, IF a = "add" THEN "a_add" ELSE "a_remove")
      /\ UNCHANGED <<count, message, rows, files, locals>>
  BY DEF Attachment
<1>1. ThreadOf(m) \in Requests
  BY ThreadOfType DEF Knows
<1>2. (a = "add") \in BOOLEAN
  OBVIOUS
<1>3. Request("attachment", a, u, m, ThreadOf(m), {}, a = "add", FALSE) \in CallType
  BY <1>1, <1>2, RequestType DEF Ops, Args, Storages
<1>4. (IF a = "add" THEN "a_add" ELSE "a_remove") \in Labels
  BY DEF Labels
<1> QED BY <1>3, <1>4, BeginType DEF TypeOK, locals

\* The rows a filing request finds are live rows, whatever its filter names.
LEMMA FiledType ==
  ASSUME TypeOK, NEW u, NEW m, NEW st, NEW x \in Filed(u, m, st)
  PROVE  x \in rows /\ x \in RowType /\ ~x.deleted
BY DEF Filed, TypeOK

\* Trashing, restoring or deleting a row yields a row.
LEMMA TrashedType ==
  ASSUME NEW x \in RowType
  PROVE  /\ Trashed(x) \in RowType
         /\ Restored(x) \in RowType
         /\ Deleted(x) \in RowType
BY DEF Trashed, Restored, Deleted, RowType, Storages

\* Starting trashBulk with the action trash keeps the types.
LEMMA StartTrashType ==
  ASSUME TypeOK, NEW r \in Requests, Trash(r)
  PROVE  TypeOK'
<1> PICK u \in Users, m \in Requests, st \in Storages \ {"trash", "draft"} :
      /\ Begin(r, About("trash", st, u, m)) /\ Knows(u, m)
      /\ \E found \in (SUBSET Filed(u, m, st)) \ {{}} :
           work' = [work EXCEPT ![r] = {Trashed(x) : x \in found}]
      /\ Goto(r, "writing")
      /\ UNCHANGED <<count, message, rows, files, workFiles, seenCount>>
  BY DEF Trash
<1> PICK found \in (SUBSET Filed(u, m, st)) \ {{}} :
      work' = [work EXCEPT ![r] = {Trashed(x) : x \in found}]
  OBVIOUS
<1>1. About("trash", st, u, m) \in CallType
  BY AboutType DEF Knows, Ops, Args
<1>2. {Trashed(x) : x \in found} \in SUBSET RowType
  BY FiledType, TrashedType
<1> QED BY <1>1, <1>2, BeginType DEF TypeOK, Labels

\* Starting trashBulk with the action delete keeps the types.
LEMMA StartDeleteType ==
  ASSUME TypeOK, NEW r \in Requests, Delete(r)
  PROVE  TypeOK'
<1> PICK u \in Users, m \in Requests, st \in {"trash", "draft"} :
      /\ Begin(r, About("delete", st, u, m)) /\ Knows(u, m)
      /\ \E found \in (SUBSET Filed(u, m, st)) \ {{}} :
           work' = [work EXCEPT ![r] = {Deleted(x) : x \in found}]
      /\ Goto(r, "writing")
      /\ UNCHANGED <<count, message, rows, files, workFiles, seenCount>>
  BY DEF Delete
<1> PICK found \in (SUBSET Filed(u, m, st)) \ {{}} :
      work' = [work EXCEPT ![r] = {Deleted(x) : x \in found}]
  OBVIOUS
<1>1. About("delete", st, u, m) \in CallType
  BY AboutType DEF Knows, Ops, Args, Storages
<1>2. {Deleted(x) : x \in found} \in SUBSET RowType
  BY FiledType, TrashedType
<1> QED BY <1>1, <1>2, BeginType DEF TypeOK, Labels

\* Starting restore keeps the types.
LEMMA StartRestoreType ==
  ASSUME TypeOK, NEW r \in Requests, Restore(r)
  PROVE  TypeOK'
<1> PICK u \in Users, m \in Requests :
      /\ Begin(r, About("restore", "trash", u, m)) /\ Knows(u, m)
      /\ \E found \in (SUBSET Filed(u, m, "trash")) \ {{}} :
           work' = [work EXCEPT ![r] = {Restored(x) : x \in found}]
      /\ Goto(r, "writing")
      /\ UNCHANGED <<count, message, rows, files, workFiles, seenCount>>
  BY DEF Restore
<1> PICK found \in (SUBSET Filed(u, m, "trash")) \ {{}} :
      work' = [work EXCEPT ![r] = {Restored(x) : x \in found}]
  OBVIOUS
<1>1. About("restore", "trash", u, m) \in CallType
  BY AboutType DEF Knows, Ops, Args, Storages
<1>2. {Restored(x) : x \in found} \in SUBSET RowType
  BY FiledType, TrashedType
<1> QED BY <1>1, <1>2, BeginType DEF TypeOK, Labels

\* Starting markMail, fetchById or fetchThreadById keeps the types.
LEMMA StartMarkType ==
  ASSUME TypeOK, NEW r \in Requests, Mark(r) \/ Fetch(r)
  PROVE  TypeOK'
<1>1. PICK u \in Users, m \in Requests, o \in {"mark", "fetch"},
           a \in {"read", "unread", "mail", "missed", "thread"} :
      /\ Begin(r, About(o, a, u, m)) /\ Knows(u, m)
      /\ Goto(r, "m_rows")
      /\ UNCHANGED <<count, message, rows, files, locals>>
  BY DEF Mark, Fetch
<1>2. About(o, a, u, m) \in CallType
  BY <1>1, AboutType DEF Knows, Ops, Args
<1> QED BY <1>1, <1>2, BeginType DEF TypeOK, Labels, locals

\* Whatever request starts, every value keeps its type.
LEMMA StartType ==
  ASSUME TypeOK, NEW r \in Requests, Start(r)
  PROVE  TypeOK'
BY ComposeType, StartUpdateType, StartSendDraftType, StartReplyType,
   StartForwardType, StartAttachmentType, StartTrashType, StartDeleteType,
   StartRestoreType, StartMarkType DEF Start

\* What a started request asks for has its type.
LEMMA CallAtType ==
  ASSUME TypeOK, NEW r \in Requests, pc[r] # "idle"
  PROVE  /\ call[r] \in CallType /\ call[r].msg \in Requests
         /\ call[r].thread \in Requests /\ call[r].to \in SUBSET Users
BY DEF TypeOK, CallType

\* The statements of composeMail keep the types.
LEMMA ComposeStepsType ==
  ASSUME TypeOK, ControlOK, NEW r \in Requests,
         ComposeCount(r) \/ ComposeMessage(r) \/ ComposeRows(r)
  PROVE  TypeOK'
<1>1. CASE ComposeCount(r)
  BY <1>1, EndType, CallAtType DEF ComposeCount, At, TypeOK, Labels, locals, Incremented
<1>2. CASE ComposeMessage(r)
  <2>1. call[r].arg \in {"draft", "send"}
    BY <1>2 DEF ComposeMessage, At, ControlOK, RequestOK, Creating
  <2>2. [status |-> call[r].arg, thread |-> call[r].thread,
         markedTo |-> IF call[r].arg = "draft" THEN call[r].to ELSE {}] \in MessageType
    BY <1>2, <2>1, CallAtType DEF ComposeMessage, At, MessageType
  <2> QED BY <1>2, <2>2, EndType DEF ComposeMessage, At, TypeOK, Labels, locals
<1>3. CASE ComposeRows(r)
  <2>1. call[r] \in CallType /\ pc[r] # "idle"
    BY <1>3, CallAtType DEF ComposeRows, At
  <2>2. rows' \subseteq RowType
    BY <1>3, <2>1, AuthorRowType, RecipientRowsType DEF ComposeRows, TypeOK
  <2>3. files' \subseteq FileType
    BY <1>3, BodyFilesType DEF ComposeRows, TypeOK
  <2> QED BY <1>3, <2>1, <2>2, <2>3, EndType, DropType
          DEF ComposeRows, TypeOK, End, Ended
<1> QED BY <1>1, <1>2, <1>3

\* A deleted attachment row is an attachment row.
LEMMA DeletedType ==
  ASSUME NEW x \in FileType PROVE Deleted(x) \in FileType
BY DEF Deleted, FileType

\* The statements of updateDraft keep the types.
LEMMA UpdateStepsType ==
  ASSUME TypeOK, ControlOK, NEW r \in Requests,
         \/ UpdateFiles(r) \/ UpdateLock(r) \/ UpdateScan(r) \/ UpdatePatch(r)
         \/ UpdateMessage(r) \/ UpdateCommit(r)
  PROVE  TypeOK'
<1>0. CASE UpdateFiles(r) \/ UpdateLock(r)
  <2>1. LiveFiles(call[r].msg) \in SUBSET FileType /\ workFiles[r] \cap files \in SUBSET FileType
    BY DEF LiveFiles, TypeOK
  <2> QED BY <1>0, <2>1, EndType DEF UpdateFiles, UpdateLock, At, TypeOK, Labels
<1>1. CASE UpdateScan(r)
  <2>1. Replaced(call[r].msg) \in SUBSET RowType
    BY DEF Replaced, Live, TypeOK
  <2> QED BY <1>1, <2>1, EndType DEF UpdateScan, At, TypeOK, Labels
<1>2. CASE UpdatePatch(r)
  <2> DEFINE old == {x \in Live(call[r].msg) : \E y \in work[r] : SameRow(x, y)}
  <2>1. old \in SUBSET RowType
    BY DEF Live, TypeOK
  <2> QED BY <1>2, <2>1, EndType DEF UpdatePatch, At, TypeOK, Labels
<1>3. CASE UpdateMessage(r)
  <2>1. call[r].msg \in Requests /\ call[r].to \in SUBSET Users /\ Exists(call[r].msg)
    BY <1>3, CallAtType DEF UpdateMessage, At, ControlOK, RequestOK, Editing
  <2>2. [message[call[r].msg] EXCEPT !.markedTo = call[r].to] \in MessageType
    BY <2>1 DEF TypeOK, MessageType, Exists, NoMessage
  <2>3. message' \in [Requests -> {NoMessage} \cup MessageType]
    BY <1>3, <2>1, <2>2 DEF UpdateMessage, TypeOK
  <2> QED BY <1>3, <2>3, EndType DEF UpdateMessage, At, TypeOK, Labels, locals
<1>4. CASE UpdateCommit(r)
  <2>1. call[r] \in CallType /\ pc[r] # "idle" /\ call[r].msg \in Requests
    BY <1>4, CallAtType DEF UpdateCommit, At
  <2>2. rows' \subseteq RowType
    BY <1>4, <2>1, AuthorRowType, RecipientRowsType, TrashedType DEF UpdateCommit, TypeOK
  <2>3. files' \subseteq FileType
    BY <1>4, <2>1, BodyFilesType, DeletedType DEF UpdateCommit, TypeOK
  <2> QED BY <1>4, <2>1, <2>2, <2>3, EndType, DropType
          DEF UpdateCommit, TypeOK, End, Ended
<1> QED BY <1>0, <1>1, <1>2, <1>3, <1>4

\* The statements of sendDraft up to its row writes keep the types.
LEMMA SendStepsType ==
  ASSUME TypeOK, ControlOK, NEW r \in Requests, SendRows(r) \/ SendStatus(r)
  PROVE  TypeOK'
<1>1. CASE SendRows(r)
  <2>1. call[r] \in CallType /\ call[r].msg \in Requests /\ call[r].to \in SUBSET Users
    BY <1>1, CallAtType DEF SendRows, At
  <2>2. \A m \in Requests : \A x \in Live(m) :
          (IF x.type = "from" THEN [x EXCEPT !.storage = "send"] ELSE x) \in RowType
    BY DEF Live, TypeOK, RowType, Storages
  <2>3. \A p \in call[r].to : NewRow(r, call[r].msg, p, "to", "inbox", "new") \in RowType
    BY <2>1, NewRowType DEF Storages
  <2>4. work' \in [Requests -> SUBSET RowType]
    <3> PICK m \in Requests :
          work' = [work EXCEPT ![r] =
            {IF x.type = "from" THEN [x EXCEPT !.storage = "send"] ELSE x : x \in Live(m)}
            \cup {NewRow(r, call[r].msg, p, "to", "inbox", "new") : p \in call[r].to}]
      BY <1>1 DEF SendRows
    <3> QED BY <2>2, <2>3 DEF TypeOK
  <2> QED BY <1>1, <2>4, EndType DEF SendRows, At, TypeOK, Labels
<1>2. CASE SendStatus(r)
  <2>1. call[r].msg \in Requests /\ Exists(call[r].msg)
    BY <1>2, CallAtType DEF SendStatus, At, ControlOK, RequestOK, Editing
  <2>2. [message[call[r].msg] EXCEPT !.status = "send"] \in MessageType
    BY <2>1 DEF TypeOK, MessageType, Exists, NoMessage
  <2>3. message' \in [Requests -> {NoMessage} \cup MessageType]
    BY <1>2, <2>1, <2>2 DEF SendStatus, TypeOK
  <2>4. (IF work[r] = {} THEN "done" ELSE "writing") \in Labels \cup Ended
    BY DEF Labels, Ended
  <2> QED BY <1>2, <2>3, <2>4, EndType DEF SendStatus, At, TypeOK, locals
<1> QED BY <1>1, <1>2

\* Writing a held row, or losing the write, keeps the types.
LEMMA WritesType ==
  ASSUME TypeOK, NEW r \in Requests, WriteRow(r) \/ LoseWrite(r)
  PROVE  TypeOK'
<1>1. CASE WriteRow(r)
  <2> PICK w \in work[r] :
        /\ pc[r] \in {"writing", "losing"}
        /\ rows' = {x \in rows : ~SameRow(x, w)} \cup {w}
        /\ work' = [work EXCEPT ![r] = @ \ {w}]
        /\ Goto(r, IF work[r] # {w} THEN pc[r]
                   ELSE IF pc[r] = "losing" THEN "failed" ELSE "done")
        /\ UNCHANGED <<count, message, files, call, workFiles, seenCount>>
    BY <1>1 DEF WriteRow
  <2>1. (IF work[r] # {w} THEN pc[r]
         ELSE IF pc[r] = "losing" THEN "failed" ELSE "done") \in Labels \cup Ended
    BY DEF Labels, Ended
  <2>2. rows' \subseteq RowType /\ work' \in [Requests -> SUBSET RowType]
    BY DEF TypeOK
  <2> QED BY <2>1, <2>2, EndType DEF TypeOK
<1>2. CASE LoseWrite(r)
  <2> PICK w \in work[r] :
        /\ pc[r] \in {"writing", "losing"}
        /\ work' = [work EXCEPT ![r] = @ \ {w}]
        /\ Goto(r, IF work[r] = {w} THEN "failed" ELSE "losing")
        /\ UNCHANGED <<count, message, rows, files, call, workFiles, seenCount>>
    BY <1>2 DEF LoseWrite
  <2>1. (IF work[r] = {w} THEN "failed" ELSE "losing") \in Labels \cup Ended
    BY DEF Labels, Ended
  <2>2. work' \in [Requests -> SUBSET RowType]
    BY DEF TypeOK
  <2> QED BY <2>1, <2>2, EndType DEF TypeOK
<1> QED BY <1>1, <1>2

\* What replyMail selects, and the rows it makes of it.
Answered(r) ==
  {x \in rows :
     /\ x.msg = call[r].msg /\ x.thread = call[r].thread
     /\ IF call[r].all THEN x.party # call[r].user
                       ELSE x.party = call[call[r].msg].user}

\* ReplySelect in terms of Answered: it ends with an error or holds new rows.
LEMMA ReplySelectCases ==
  ASSUME NEW r \in Requests, ReplySelect(r)
  PROVE  /\ pc[r] = "r_select"
         /\ files' = files \cup BodyFiles(r, r)
         /\ UNCHANGED <<count, message, rows, call>>
         /\ \/ End(r, "failed")
            \/ /\ \E num \in [Answered(r) -> 1 .. Cardinality(Answered(r))] :
                    work' = [work EXCEPT ![r] =
                      {[NewRow(r, r, x.party, "to", "inbox", "new") EXCEPT !.num = num[x]]
                         : x \in Answered(r)}]
               /\ Goto(r, "r_sender") /\ UNCHANGED <<workFiles, seenCount>>
BY DEF ReplySelect, Answered, At

\* The statements of replyMail keep the types.
LEMMA ReplyStepsType ==
  ASSUME TypeOK, ControlOK, NEW r \in Requests,
         ReplyMessage(r) \/ ReplySelect(r) \/ ReplySender(r) \/ ReplyCommit(r)
  PROVE  TypeOK'
<1>1. CASE ReplyMessage(r)
  <2>1. call[r].arg \in {"draft", "send"}
    BY <1>1 DEF ReplyMessage, At, ControlOK, RequestOK, Creating
  <2>2. [status |-> call[r].arg, thread |-> call[r].thread, markedTo |-> call[r].to]
          \in MessageType
    BY <1>1, <2>1, CallAtType DEF ReplyMessage, At, MessageType
  <2> QED BY <1>1, <2>2, EndType DEF ReplyMessage, At, TypeOK, Labels, locals
<1>2. CASE ReplySelect(r)
  <2>1. call[r] \in CallType /\ pc[r] # "idle"
    BY <1>2, CallAtType DEF ReplySelect, At
  <2>2. files' \subseteq FileType /\ UNCHANGED <<count, message, rows, call>>
    BY <1>2, BodyFilesType, ReplySelectCases DEF TypeOK
  <2>3. CASE End(r, "failed")
    BY <2>1, <2>2, <2>3, EndType, DropType DEF End, Ended, TypeOK
  <2>4. ASSUME NEW num \in [Answered(r) -> 1 .. Cardinality(Answered(r))],
               work' = [work EXCEPT ![r] =
                 {[NewRow(r, r, x.party, "to", "inbox", "new") EXCEPT !.num = num[x]]
                    : x \in Answered(r)}],
               Goto(r, "r_sender"), UNCHANGED <<workFiles, seenCount>>
        PROVE  TypeOK'
    <3>1. ASSUME NEW x \in Answered(r)
          PROVE  [NewRow(r, r, x.party, "to", "inbox", "new") EXCEPT !.num = num[x]]
                   \in RowType
      <4>1. x.party \in Users
        BY DEF Answered, TypeOK, RowType
      <4>2. num[x] \in Nat
        OBVIOUS
      <4>3. NewRow(r, r, x.party, "to", "inbox", "new") \in RowType
        BY <2>1, <4>1, NewRowType DEF Storages
      <4> QED BY <4>2, <4>3 DEF RowType
    <3>2. work' \in [Requests -> SUBSET RowType]
      BY <2>4, <3>1 DEF TypeOK
    <3> QED BY <2>1, <2>2, <2>4, <3>2, EndType DEF TypeOK, Labels
  <2> QED BY <1>2, <2>3, <2>4, ReplySelectCases
<1>3. CASE ReplySender(r)
  <2>1. call[r] \in CallType /\ pc[r] # "idle"
    BY <1>3, CallAtType DEF ReplySender, At
  <2>2. rows' \subseteq RowType
    BY <1>3, <2>1, AuthorRowType DEF ReplySender, TypeOK
  <2> QED BY <1>3, <2>1, <2>2, EndType DEF ReplySender, TypeOK, Labels, locals
<1>4. CASE ReplyCommit(r)
  <2>1. rows' \subseteq RowType /\ pc[r] # "idle"
    BY <1>4 DEF ReplyCommit, At, TypeOK
  <2> QED BY <1>4, <2>1, EndType, DropType DEF ReplyCommit, TypeOK, End, Ended
<1> QED BY <1>1, <1>2, <1>3, <1>4

\* The statements of forward keep the types.
LEMMA ForwardStepsType ==
  ASSUME TypeOK, ControlOK, NEW r \in Requests, ForwardCount(r) \/ ForwardCommit(r)
  PROVE  TypeOK'
<1>1. CASE ForwardCount(r)
  BY <1>1, EndType, CallAtType DEF ForwardCount, At, TypeOK, Labels
<1>2. CASE ForwardCommit(r)
  <2>1. /\ call[r] \in CallType /\ pc[r] # "idle"
        /\ call[r].thread \in Requests /\ call[r].to \in SUBSET Users
    BY <1>2, CallAtType DEF ForwardCommit, At
  <2>2. call[r].arg \in {"draft", "send"}
    BY <1>2 DEF ForwardCommit, At, ControlOK, RequestOK, Creating
  <2>3. [status |-> call[r].arg, thread |-> call[r].thread, markedTo |-> {}] \in MessageType
    BY <2>1, <2>2 DEF MessageType
  <2>4. {NewRow(r, r, p, "to", "inbox", "new") : p \in call[r].to} \subseteq RowType
    BY <2>1, NewRowType DEF Storages
  <2>5. rows' \subseteq RowType
    BY <1>2, <2>1, <2>4, AuthorRowType DEF ForwardCommit, TypeOK
  <2>6. files' \subseteq FileType
    BY <1>2, BodyFilesType DEF ForwardCommit, TypeOK
  <2>7. /\ message' \in [Requests -> {NoMessage} \cup MessageType]
        /\ count' \in [Requests -> Nat]
    BY <1>2, <2>1, <2>3 DEF ForwardCommit, TypeOK, Incremented
  <2> QED BY <1>2, <2>1, <2>5, <2>6, <2>7, EndType, DropType
          DEF ForwardCommit, TypeOK, End, Ended
<1> QED BY <1>1, <1>2

\* The remaining statements, and the failures, keep the types.
LEMMA OtherStepsType ==
  ASSUME TypeOK, NEW r \in Requests,
         \/ MarkRows(r) \/ AttachmentAdd(r) \/ AttachmentRemove(r)
         \/ Fail(r) \/ Leak(r)
  PROVE  TypeOK'
<1>1. CASE MarkRows(r)
  <2> DEFINE c == call[r]
             marked == {x \in rows :
               /\ x.party = c.user /\ ~x.deleted
               /\ c.arg = "thread" => x.thread = c.thread
               /\ c.arg \notin {"thread", "missed"} => x.msg = c.msg}
  <2>1. \A x \in marked :
          [x EXCEPT !.visibility = IF c.arg = "unread" THEN "unread" ELSE "read"] \in RowType
    BY DEF TypeOK, RowType
  <2>2. rows' \subseteq RowType
    BY <1>1, <2>1 DEF MarkRows, TypeOK
  <2>3. (IF c.arg = "missed" THEN "failed" ELSE "done") \in Ended
    BY DEF Ended
  <2> QED BY <1>1, <2>2, <2>3, EndType, DropType DEF MarkRows, At, TypeOK, End, Ended
<1>2. CASE AttachmentAdd(r)
  <2>1. files' \subseteq FileType
    BY <1>2, CallAtType, BodyFilesType DEF AttachmentAdd, At, TypeOK
  <2> QED BY <1>2, <2>1, EndType, DropType DEF AttachmentAdd, At, TypeOK, End, Ended
<1>3. CASE AttachmentRemove(r)
  <2>1. files' \subseteq FileType
    BY <1>3, DeletedType DEF AttachmentRemove, LiveFiles, TypeOK
  <2> QED BY <1>3, <2>1, EndType, DropType DEF AttachmentRemove, At, TypeOK, End, Ended
<1>4. CASE Fail(r)
  BY <1>4, EndType, DropType DEF Fail, Busy, TypeOK, End, Ended
<1>5. CASE Leak(r)
  <2>1. (IF HoldsLocks(r) THEN work[r] ELSE {}) \in SUBSET RowType
    BY DEF TypeOK
  <2> QED BY <1>5, <2>1, EndType DEF Leak, TypeOK, Ended
<1> QED BY <1>1, <1>2, <1>3, <1>4, <1>5

\* Every step keeps every value in its type.
LEMMA StepType ==
  ASSUME TypeOK, ControlOK, [Next]_vars
  PROVE  TypeOK'
<1>1. CASE UNCHANGED vars
  BY <1>1 DEF TypeOK, vars
<1>2. ASSUME NEW r \in Requests, Continue(r) PROVE TypeOK'
  BY <1>2, ComposeStepsType, UpdateStepsType, SendStepsType, WritesType,
     ReplyStepsType, ForwardStepsType, OtherStepsType DEF Continue
<1> QED BY <1>1, <1>2, StartType, OtherStepsType DEF Next, Rest

-----------------------------------------------------------------------------
(* ControlOK is inductive: messages are never lost, nor moved to another     *)
(* thread, and threads never lose their count.                               *)

\* What a step of request r leaves alone: the other handlers, every message
\* and its thread, every thread; and only r creates message r.  No message that
\* has been sent is a draft again.
Keeps(r) ==
  /\ \A q \in Requests \ {r} : pc'[q] = pc[q] /\ call'[q] = call[q]
  /\ \A m \in Requests : Exists(m) =>
       /\ Exists(m)' /\ message'[m].thread = message[m].thread
       /\ message'[m].status = "draft" => message[m].status = "draft"
  /\ \A m \in Requests \ {r} : message[m] = NoMessage => message'[m] = NoMessage
  /\ \A t \in Requests : count[t] > 0 => count'[t] > 0

\* With that, the conjuncts of ControlOK need a proof only for the request that
\* moves and for the message it creates.
LEMMA KeepsControl ==
  ASSUME TypeOK, ControlOK, NEW r \in Requests, Keeps(r), TypeOK',
         RequestOK(r)',
         Exists(r)' => Exists(r) \/ count'[message'[r].thread] > 0
  PROVE  ControlOK'
<1>1. ASSUME NEW q \in Requests \ {r} PROVE RequestOK(q)'
  <2>1. RequestOK(q) /\ pc'[q] = pc[q] /\ call'[q] = call[q]
    BY DEF ControlOK, Keeps
  <2>2. pc[q] # "idle" => call[q].thread \in Requests /\ call[q].msg \in Requests
    BY CallAtType
  <2>3. pc[q] \in Creating \cup Created \cup Editing => pc[q] # "idle"
    BY DEF Creating, Created, Editing
  <2>4. pc'[q] \in Creating \cup {"idle"} => message'[q] = NoMessage
    BY <2>1 DEF RequestOK, Keeps
  <2>5. pc'[q] \in Created => Exists(q)' /\ message'[q].thread = call'[q].thread
    BY <2>1 DEF RequestOK, Keeps
  <2>6. pc'[q] \in Editing =>
          Exists(call[q].msg)' /\ message'[call'[q].msg].thread = call'[q].thread
    BY <2>1, <2>2, <2>3 DEF RequestOK, Keeps, Exists
  <2>7. pc'[q] # "idle" => count'[call'[q].thread] > 0
    BY <2>1, <2>2 DEF RequestOK, Keeps
  <2>8. pc'[q] \in Creating => call'[q].arg \in {"draft", "send"}
    BY <2>1 DEF RequestOK
  <2> QED BY <2>4, <2>5, <2>6, <2>7, <2>8 DEF RequestOK
<1>2. ASSUME NEW m \in Requests, Exists(m)' PROVE count'[message'[m].thread] > 0
  <2>1. Exists(m) \/ m = r
    BY <1>2 DEF Keeps, Exists, NoMessage, TypeOK, MessageType
  <2>2. CASE Exists(m)
    <3>1. count[message[m].thread] > 0 /\ message[m].thread \in Requests
      BY <2>2, ThreadOfType DEF ControlOK, ThreadOf
    <3> QED BY <2>2, <3>1 DEF Keeps
  <2> QED BY <1>2, <2>1, <2>2
<1> QED BY <1>1, <1>2 DEF ControlOK

\* A request about a message that exists takes over its thread.
AboutExisting(r) ==
  LET c == call'[r] IN
  /\ c.msg \in Requests /\ Exists(c.msg) /\ c.thread = ThreadOf(c.msg)
  /\ pc'[r] \in Editing \cup {"r_message", "a_remove", "writing", "m_rows"}
  /\ pc'[r] = "r_message" => c.arg \in {"draft", "send"}
  /\ \A q \in Requests \ {r} : pc'[q] = pc[q] /\ call'[q] = call[q]
  /\ UNCHANGED <<count, message>>

\* Every request but composing and forwarding is about such a message.
LEMMA StartAbout ==
  ASSUME TypeOK, NEW r \in Requests,
         \/ Update(r) \/ SendDraft(r) \/ Reply(r) \/ Trash(r) \/ Delete(r)
         \/ Restore(r) \/ Mark(r) \/ Fetch(r) \/ Attachment(r)
  PROVE  AboutExisting(r)
<1> USE DEF AboutExisting, Begin, Goto, Knows, ThreadOf, Request, About, Editing, locals
<1>0. r \in DOMAIN pc /\ r \in DOMAIN call
  BY DEF TypeOK
<1>1. CASE Update(r)
  BY <1>0, <1>1 DEF Update
<1>2. CASE SendDraft(r)
  BY <1>0, <1>2 DEF SendDraft
<1>3. CASE Reply(r)
  BY <1>0, <1>3 DEF Reply
<1>4. CASE Trash(r)
  BY <1>0, <1>4 DEF Trash
<1>5. CASE Delete(r)
  BY <1>0, <1>5 DEF Delete
<1>6. CASE Restore(r)
  BY <1>0, <1>6 DEF Restore
<1>7. CASE Mark(r)
  BY <1>0, <1>7 DEF Mark
<1>8. CASE Fetch(r)
  BY <1>0, <1>8 DEF Fetch
<1>9. CASE Attachment(r)
  BY <1>0, <1>9 DEF Attachment
<1> QED BY <1>1, <1>2, <1>3, <1>4, <1>5, <1>6, <1>7, <1>8, <1>9

\* Starting a request keeps the control conjuncts.
LEMMA StartControl ==
  ASSUME TypeOK, ControlOK, TypeOK', NEW r \in Requests, Start(r)
  PROVE  Keeps(r) /\ ControlOK'
<1>0. pc[r] = "idle" /\ message[r] = NoMessage
  BY DEF Start, Ready, ControlOK, RequestOK
<1>1. CASE Compose(r) \/ Forward(r)
  <2>1. PICK t \in Requests :
          /\ call'[r].thread = t /\ count'[t] > 0
          /\ call'[r].arg \in {"draft", "send"}
          /\ pc'[r] \in {"c_message", "c_count", "f_count"}
          /\ UNCHANGED message
          /\ \A u \in Requests : count[u] > 0 => count'[u] > 0
          /\ \A q \in Requests \ {r} : pc'[q] = pc[q] /\ call'[q] = call[q]
    <3>1. CASE Compose(r)
      <4>1. PICK u \in Users :
              \E s \in {"draft", "send"}, t \in Requests,
                 to \in Addressed(u) \ {{}}, f \in WithFile :
                /\ Begin(r, Request("compose", s, u, r, t, to, f, FALSE))
                /\ \/ t = r /\ count' = [count EXCEPT ![r] = 1] /\ Goto(r, "c_message")
                   \/ count[t] > 0 /\ Goto(r, "c_count") /\ UNCHANGED count
                /\ UNCHANGED message
        BY <3>1 DEF Compose, KnowsThread
      <4>2. PICK s, t, to, f :
              /\ s \in {"draft", "send"} /\ t \in Requests
              /\ Begin(r, Request("compose", s, u, r, t, to, f, FALSE))
              /\ \/ t = r /\ count' = [count EXCEPT ![r] = 1] /\ Goto(r, "c_message")
                 \/ count[t] > 0 /\ Goto(r, "c_count") /\ UNCHANGED count
              /\ UNCHANGED message
        BY <4>1
      <4>3. t \in Requests
        BY <4>2
      <4>4. WITNESS t \in Requests
      <4> QED BY <4>2 DEF Begin, Request, Goto, TypeOK
    <3>2. CASE Forward(r)
      <4>1. PICK u \in Users :
              \E s \in {"draft", "send"}, t \in Requests, to \in Addressed(u), f \in WithFile :
                /\ Begin(r, Request("forward", s, u, r, t, to, f, FALSE))
                /\ count[t] > 0 /\ Goto(r, "f_count") /\ UNCHANGED <<count, message>>
        BY <3>2 DEF Forward, KnowsThread
      <4>2. PICK s, t, to, f :
              /\ s \in {"draft", "send"} /\ t \in Requests
              /\ Begin(r, Request("forward", s, u, r, t, to, f, FALSE))
              /\ count[t] > 0 /\ Goto(r, "f_count") /\ UNCHANGED <<count, message>>
        BY <4>1
      <4>3. t \in Requests
        BY <4>2
      <4>4. WITNESS t \in Requests
      <4> QED BY <4>2 DEF Begin, Request, Goto, TypeOK
    <3> QED BY <1>1, <3>1, <3>2
  <2>2. Keeps(r)
    BY <2>1 DEF Keeps, Exists
  <2>3. RequestOK(r)'
    BY <1>0, <2>1 DEF RequestOK, Creating, Created, Editing
  <2> QED BY <2>1, <2>2, <2>3, KeepsControl DEF Exists
<1>2. CASE AboutExisting(r)
  <2>1. Keeps(r)
    BY <1>2 DEF AboutExisting, Keeps, Exists
  <2>2. count[call'[r].thread] > 0
    BY <1>2 DEF AboutExisting, ControlOK, ThreadOf
  <2>3. RequestOK(r)'
    BY <1>0, <1>2, <2>2
       DEF AboutExisting, RequestOK, Exists, ThreadOf, Creating, Created, Editing
  <2> QED BY <1>2, <2>1, <2>3, KeepsControl DEF AboutExisting, Exists
<1> QED BY <1>1, <1>2, StartAbout DEF Start

\* Steps that touch neither messages nor counts, and leave the creation behind.
LEMMA QuietControl ==
  ASSUME TypeOK, ControlOK, TypeOK', NEW r \in Requests, pc[r] # "idle",
         UNCHANGED <<count, message, call>>, NEW l, Goto(r, l),
         l \notin Creating \cup {"idle"}, l \in Created => pc[r] \in Created,
         l \in Editing => pc[r] \in Editing
  PROVE  Keeps(r) /\ ControlOK'
<1>1. Keeps(r)
  BY DEF Keeps, Goto, Exists, TypeOK
<1>2. pc'[r] = l
  BY DEF Goto, TypeOK
<1>3. RequestOK(r)'
  BY <1>2 DEF ControlOK, RequestOK, Exists
<1> QED BY <1>1, <1>3, KeepsControl DEF Exists

\* These are the quiet steps.
LEMMA QuietSteps ==
  ASSUME TypeOK, ControlOK, TypeOK', NEW r \in Requests,
         \/ ComposeRows(r) \/ UpdateFiles(r) \/ UpdateLock(r) \/ UpdateScan(r)
         \/ UpdatePatch(r) \/ UpdateCommit(r)
         \/ SendRows(r) \/ WriteRow(r) \/ LoseWrite(r) \/ ReplySelect(r)
         \/ ReplySender(r) \/ ReplyCommit(r) \/ MarkRows(r) \/ AttachmentAdd(r)
         \/ AttachmentRemove(r) \/ Fail(r) \/ Leak(r)
  PROVE  Keeps(r) /\ ControlOK'
<1> USE DEF At, End, locals
<1>1. UNCHANGED <<count, message, call>>
  BY DEF ComposeRows, UpdateFiles, UpdateLock, UpdateScan, UpdatePatch, UpdateCommit,
         SendRows, WriteRow,
         LoseWrite, ReplySelect, ReplySender, ReplyCommit, MarkRows, AttachmentAdd,
         AttachmentRemove, Fail, Leak
<1>2. pc[r] # "idle"
  BY DEF ComposeRows, UpdateFiles, UpdateLock, UpdateScan, UpdatePatch, UpdateCommit,
         SendRows, WriteRow,
         LoseWrite, ReplySelect, ReplySender, ReplyCommit, MarkRows, AttachmentAdd,
         AttachmentRemove, Fail, Leak, Busy
<1>3. \/ \E l \in {"done", "failed", "leaked", "writing", "losing"} : Goto(r, l)
      \/ pc[r] = "u_files" /\ Goto(r, "u_lock")
      \/ pc[r] = "u_lock" /\ Goto(r, "u_scan")
      \/ pc[r] = "u_scan" /\ Goto(r, "u_patch")
      \/ pc[r] = "u_patch" /\ Goto(r, "u_message")
      \/ pc[r] = "s_rows" /\ Goto(r, "s_status")
      \/ pc[r] = "r_select" /\ Goto(r, "r_sender")
      \/ pc[r] = "r_sender" /\ Goto(r, "r_commit")
  <2>1. CASE WriteRow(r)
    BY <2>1 DEF WriteRow
  <2>2. CASE LoseWrite(r)
    BY <2>2 DEF LoseWrite
  <2>3. CASE ReplySelect(r)
    BY <2>3, ReplySelectCases
  <2>4. CASE MarkRows(r)
    BY <2>4 DEF MarkRows
  <2> QED
    BY <2>1, <2>2, <2>3, <2>4
       DEF ComposeRows, UpdateFiles, UpdateLock, UpdateScan, UpdatePatch, UpdateCommit,
           SendRows,
           ReplySender, ReplyCommit, MarkRows, AttachmentAdd, AttachmentRemove,
           Fail, Leak
<1> QED BY <1>1, <1>2, <1>3, QuietControl DEF Creating, Created, Editing

\* The others write the message of the request, or the count of its thread.
LEMMA ContinueControl ==
  ASSUME TypeOK, ControlOK, TypeOK', NEW r \in Requests,
         \/ ComposeCount(r) \/ ComposeMessage(r) \/ UpdateMessage(r) \/ SendStatus(r)
         \/ ReplyMessage(r) \/ ForwardCount(r) \/ ForwardCommit(r)
  PROVE  Keeps(r) /\ ControlOK'
<1> USE DEF At, End
<1>0. /\ pc[r] # "idle" /\ RequestOK(r)
      /\ r \in DOMAIN pc /\ r \in DOMAIN message
      /\ call[r] \in CallType /\ call[r].thread \in Requests /\ call[r].msg \in Requests
      /\ count \in [Requests -> Nat] /\ seenCount[r] \in Nat
  BY CallAtType
     DEF ControlOK, TypeOK, ComposeCount, ComposeMessage, UpdateMessage, SendStatus,
         ReplyMessage, ForwardCount, ForwardCommit
<1>1. /\ UNCHANGED call
      /\ \A q \in Requests \ {r} : pc'[q] = pc[q]
      /\ \A t \in Requests : count[t] > 0 => count'[t] > 0
  <2>1. UNCHANGED call /\ \E l : Goto(r, l)
    BY DEF ComposeCount, ComposeMessage, UpdateMessage, SendStatus, ReplyMessage,
           ForwardCount, ForwardCommit
  <2>2. UNCHANGED count \/ count' = [count EXCEPT ![call[r].thread] = Incremented(r)]
    BY DEF ComposeCount, ComposeMessage, UpdateMessage, SendStatus, ReplyMessage,
           ForwardCount, ForwardCommit
  <2>3. Incremented(r) > 0
    BY <1>0 DEF Incremented
  <2>4. \A t \in Requests : count[t] > 0 => count'[t] > 0
    BY <1>0, <2>2, <2>3
  <2> QED BY <1>0, <2>1, <2>4 DEF Goto
<1>2. CASE ComposeCount(r) \/ ForwardCount(r)
  <2>1. Keeps(r)
    BY <1>1, <1>2 DEF Keeps, ComposeCount, ForwardCount, Exists
  <2>2. RequestOK(r)'
    BY <1>0, <1>1, <1>2
       DEF RequestOK, ComposeCount, ForwardCount, Goto, Creating, Created, Editing
  <2> QED BY <1>2, <2>1, <2>2, KeepsControl DEF ComposeCount, ForwardCount, Exists
<1>3. CASE ComposeMessage(r) \/ ReplyMessage(r) \/ ForwardCommit(r)
  <2>1. message[r] = NoMessage /\ call[r].arg \in {"draft", "send"}
    BY <1>0, <1>3 DEF RequestOK, ComposeMessage, ReplyMessage, ForwardCommit, Creating
  <2>2. /\ \A m \in Requests \ {r} : message'[m] = message[m]
        /\ message'[r].status = call[r].arg /\ message'[r].thread = call[r].thread
    <3>1. CASE ComposeMessage(r)
      BY <1>0, <3>1 DEF ComposeMessage
    <3>2. CASE ReplyMessage(r)
      BY <1>0, <3>2 DEF ReplyMessage
    <3>3. CASE ForwardCommit(r)
      BY <1>0, <3>3 DEF ForwardCommit
    <3> QED BY <1>3, <3>1, <3>2, <3>3
  <2>3. Keeps(r)
    BY <1>1, <2>1, <2>2 DEF Keeps, Exists, NoMessage
  <2>4. pc'[r] \in {"c_rows", "r_select", "done"}
    BY <1>0, <1>3 DEF ComposeMessage, ReplyMessage, ForwardCommit, Goto
  <2>5. RequestOK(r)'
    BY <1>0, <1>1, <2>1, <2>2, <2>4 DEF RequestOK, Exists, Creating, Created, Editing
  <2> QED BY <1>0, <1>1, <2>2, <2>3, <2>5, KeepsControl DEF RequestOK
<1>4. CASE UpdateMessage(r) \/ SendStatus(r)
  <2> DEFINE m == call[r].msg
  <2>1. Exists(m) /\ message[m].thread = call[r].thread
    BY <1>0, <1>4 DEF RequestOK, UpdateMessage, SendStatus, Editing
  <2>2. message[m] \in MessageType
    BY <1>0, <2>1 DEF TypeOK, Exists, NoMessage
  <2>3. /\ \A n \in Requests \ {m} : message'[n] = message[n]
        /\ message'[m].thread = message[m].thread
        /\ message'[m].status \in {message[m].status, "send"}
    BY <1>0, <1>4, <2>2 DEF UpdateMessage, SendStatus, TypeOK, MessageType
  <2>4. Keeps(r)
    BY <1>1, <2>1, <2>3 DEF Keeps, Exists, NoMessage
  <2>5. pc'[r] \in {"u_commit", "done", "writing"}
    BY <1>0, <1>4 DEF UpdateMessage, SendStatus, Goto
  <2>6. RequestOK(r)'
    BY <1>0, <1>1, <2>1, <2>3, <2>5 DEF RequestOK, Exists, Creating, Created, Editing
  <2>7. Exists(r)' => Exists(r)
    BY <2>1, <2>3 DEF Exists
  <2> QED BY <2>4, <2>6, <2>7, KeepsControl
<1> QED BY <1>2, <1>3, <1>4

\* Every step keeps the control conjuncts.
LEMMA StepControl ==
  ASSUME TypeOK, ControlOK, [Next]_vars
  PROVE  ControlOK'
<1>1. TypeOK'
  BY StepType
<1>2. CASE UNCHANGED vars
  BY <1>2 DEF ControlOK, RequestOK, Exists, vars
<1>3. ASSUME NEW r \in Requests, Continue(r) PROVE ControlOK'
  BY <1>1, <1>3, QuietSteps, ContinueControl DEF Continue
<1> QED BY <1>1, <1>2, <1>3, StartControl, QuietSteps DEF Next, Rest

\* The service starts with empty tables and no request.
LEMMA InitType == Init => TypeOK /\ ControlOK
BY DEF Init, TypeOK, ControlOK, RequestOK, Exists, NoMessage, NoCall, Labels, Ended,
       Creating, Created, Editing

\* Every table and every local of a handler holds values of its type in every
\* state of the service, whatever its clients ask and whichever statements fail.
THEOREM TypeCorrect == Spec => []TypeOK
<1>1. Init => TypeOK /\ ControlOK
  BY InitType
<1>2. (TypeOK /\ ControlOK) /\ [Next]_vars => (TypeOK /\ ControlOK)'
  BY StepType, StepControl
<1> QED BY <1>1, <1>2, PTL DEF Spec

-----------------------------------------------------------------------------
(* The group rows: they agree with the thread of their message, and their  *)
(* storage fits their type.  Handlers read rows, keep them while other     *)
(* requests run, and write them back whole, so neither fact is inductive   *)
(* on its own: it must hold of the rows a handler holds as well as of the  *)
(* rows of the table.                                                      *)

Rooted(x) ==
  /\ Exists(x.msg) /\ x.thread = message[x.msg].thread
  /\ count[x.thread] > 0
Placed(x) ==
  x.storage \in
    IF x.type = "to" THEN {"inbox", "trash"} ELSE {"draft", "send", "trash"}

Fits(x) == Rooted(x) /\ Placed(x)

\* Of every row of the table, and of every row a handler holds.
RowsOK ==
  /\ \A x \in rows : Fits(x)
  /\ \A r \in Requests : \A x \in work[r] : Fits(x)

\* A row that fits keeps fitting, whatever steps are taken.
LEMMA FitsKept ==
  ASSUME TypeOK, TypeOK', NEW r \in Requests, Keeps(r), NEW x \in RowType, Fits(x)
  PROVE  Fits(x)'
<1>1. x.msg \in Requests /\ x.thread \in Requests
  BY DEF RowType
<1> QED BY <1>1 DEF Fits, Rooted, Placed, Keeps

\* So a step need only be looked at for the rows it adds.
LEMMA RowsKept ==
  ASSUME TypeOK, TypeOK', RowsOK, NEW r \in Requests, Keeps(r),
         \A x \in rows' \ rows : Fits(x) \/ Fits(x)',
         \A q \in Requests : q # r => work'[q] = work[q],
         \A x \in work'[r] \ work[r] : Fits(x) \/ Fits(x)'
  PROVE  RowsOK'
<1>1. \A x \in rows' : Fits(x)'
  <2>1. rows' \subseteq RowType
    BY DEF TypeOK
  <2> QED BY <2>1, FitsKept DEF RowsOK
<1>2. ASSUME NEW q \in Requests PROVE \A x \in work'[q] : Fits(x)'
  <2>1. work'[q] \subseteq RowType
    BY DEF TypeOK
  <2> QED BY <2>1, FitsKept DEF RowsOK
<1> QED BY <1>1, <1>2 DEF RowsOK

\* The rows a request adds to a message of its thread.
LEMMA NewRowFits ==
  ASSUME NEW r \in Requests, NEW m \in Requests, NEW p, NEW vis,
         NEW ty \in {"from", "to"}, NEW st,
         st \in IF ty = "to" THEN {"inbox", "trash"} ELSE {"draft", "send", "trash"},
         Exists(m)', message'[m].thread = call[r].thread,
         count'[call[r].thread] > 0,
         NEW x, x = NewRow(r, m, p, ty, st, vis)
  PROVE  Fits(x)'
BY DEF NewRow, Fits, Rooted, Placed, Exists

\* Filing, marking and deleting a row change neither message nor thread, and
\* file it where its type may be.
LEMMA FiledFits ==
  ASSUME NEW x \in RowType, Fits(x)
  PROVE  /\ Fits(Trashed(x)) /\ Fits(Restored(x)) /\ Fits(Deleted(x))
         /\ \A v : Fits([x EXCEPT !.visibility = v])
         /\ x.type = "from" => Fits([x EXCEPT !.storage = "send"])
BY DEF Fits, Rooted, Placed, Trashed, Restored, Deleted, RowType

\* Starting a request: only the filing requests hold rows at once.
LEMMA StartRows ==
  ASSUME TypeOK, ControlOK, TypeOK', RowsOK, NEW r \in Requests, Start(r)
  PROVE  RowsOK'
<1>1. Keeps(r)
  BY StartControl
<1>2. CASE Trash(r) \/ Delete(r) \/ Restore(r)
  <2>1. PICK u, m, st :
          /\ UNCHANGED rows
          /\ \E found \in SUBSET Filed(u, m, st) :
               \/ work' = [work EXCEPT ![r] = {Trashed(x) : x \in found}]
               \/ work' = [work EXCEPT ![r] = {Deleted(x) : x \in found}]
               \/ work' = [work EXCEPT ![r] = {Restored(x) : x \in found}]
    <3>1. CASE Trash(r)
      BY <3>1 DEF Trash
    <3>2. CASE Delete(r)
      BY <3>2 DEF Delete
    <3>3. CASE Restore(r)
      BY <3>3 DEF Restore
    <3> QED BY <1>2, <3>1, <3>2, <3>3
  <2>2. \A x \in work'[r] : Fits(x)
    <3> PICK found \in SUBSET Filed(u, m, st) :
          \/ work' = [work EXCEPT ![r] = {Trashed(x) : x \in found}]
          \/ work' = [work EXCEPT ![r] = {Deleted(x) : x \in found}]
          \/ work' = [work EXCEPT ![r] = {Restored(x) : x \in found}]
      BY <2>1
    <3>1. \A x \in found : x \in RowType /\ Fits(x)
      BY FiledType DEF RowsOK
    <3>2. /\ \A x \in {Trashed(y) : y \in found} : Fits(x)
          /\ \A x \in {Deleted(y) : y \in found} : Fits(x)
          /\ \A x \in {Restored(y) : y \in found} : Fits(x)
      BY <3>1, FiledFits
    <3>3. r \in DOMAIN work
      BY DEF TypeOK
    <3>4. \/ work'[r] = {Trashed(x) : x \in found}
          \/ work'[r] = {Deleted(x) : x \in found}
          \/ work'[r] = {Restored(x) : x \in found}
      BY <3>3
    <3> QED BY <3>2, <3>4
  <2>3. \A q \in Requests : q # r => work'[q] = work[q]
    BY <2>1 DEF TypeOK
  <2> QED BY <1>1, <2>1, <2>2, <2>3, RowsKept
<1>3. CASE UNCHANGED <<rows, work>>
  BY <1>1, <1>3, RowsKept
<1> QED
  BY <1>2, <1>3 DEF Start, Compose, Update, SendDraft, Reply, Forward, Mark, Fetch,
                    Attachment, locals

\* The rows of a body: the author's, and the recipients' of a mail that is sent.
LEMMA BodyFits ==
  ASSUME TypeOK, NEW r \in Requests, call[r] \in CallType, NEW m \in Requests,
         NEW vis, Exists(m)', message'[m].thread = call[r].thread,
         count'[call[r].thread] > 0
  PROVE  /\ \A x \in {AuthorRow(r, m, vis)} \cup RecipientRows(r, m) : Fits(x)'
         /\ \A p \in call[r].to : \A x \in {NewRow(r, m, p, "to", "inbox", "new")} : Fits(x)'
<1>1. ASSUME NEW x, x = AuthorRow(r, m, vis) PROVE Fits(x)'
  BY <1>1, NewRowFits DEF AuthorRow
<1>2. ASSUME NEW p, NEW x, x = NewRow(r, m, p, "to", "inbox", "new") PROVE Fits(x)'
  BY <1>2, NewRowFits
<1>3. \A x \in RecipientRows(r, m) : \E p : x = NewRow(r, m, p, "to", "inbox", "new")
  BY DEF RecipientRows
<1> QED BY <1>1, <1>2, <1>3

\* Where a request that is adding rows adds them.
LEMMA TargetExists ==
  ASSUME TypeOK, ControlOK, NEW r \in Requests, UNCHANGED <<count, message>>,
         NEW m, \/ m = r /\ pc[r] \in Created
                \/ m = call[r].msg /\ pc[r] \in Editing
  PROVE  /\ m \in Requests /\ call[r] \in CallType
         /\ Exists(m)' /\ message'[m].thread = call[r].thread
         /\ count'[call[r].thread] > 0
<1>1. pc[r] # "idle"
  BY DEF Created, Editing
<1>2. m \in Requests /\ call[r] \in CallType
  BY <1>1, CallAtType
<1> QED BY <1>1, <1>2 DEF ControlOK, RequestOK, Exists

\* The statements of every handler keep the rows fitting: what they write is
\* new and fits, or was held and fits.
LEMMA ContinueRows ==
  ASSUME TypeOK, ControlOK, TypeOK', RowsOK, NEW r \in Requests, Keeps(r),
         Continue(r) \/ Fail(r) \/ Leak(r)
  PROVE  RowsOK'
<1> USE DEF At, End
<1>0. r \in DOMAIN work
  BY DEF TypeOK
<1>1. CASE \/ Fail(r) \/ Leak(r) \/ ComposeCount(r) \/ ComposeMessage(r)
           \/ UpdateFiles(r) \/ UpdateLock(r) \/ UpdateMessage(r) \/ SendStatus(r)
           \/ LoseWrite(r) \/ ReplyMessage(r) \/ ForwardCount(r)
           \/ AttachmentAdd(r) \/ AttachmentRemove(r)
  <2>0. (IF HoldsLocks(r) THEN work[r] ELSE {}) \in SUBSET work[r]
    OBVIOUS
  <2>1. /\ UNCHANGED rows
        /\ (UNCHANGED work \/ \E w \in SUBSET work[r] : work' = [work EXCEPT ![r] = w])
    BY <1>0, <1>1, <2>0
       DEF Fail, Leak, UpdateFiles, UpdateLock, ComposeCount, ComposeMessage, UpdateMessage,
           SendStatus, LoseWrite, ReplyMessage, ForwardCount, AttachmentAdd, AttachmentRemove,
           Drop, locals
  <2>2. rows' \subseteq rows /\ work'[r] \subseteq work[r]
    BY <1>0, <2>1
  <2>3. \A q \in Requests : q # r => work'[q] = work[q]
    BY <2>1 DEF TypeOK
  <2> QED BY <2>2, <2>3, RowsKept
<1>2. CASE ComposeRows(r)
  <2>1. /\ rows' = rows \cup {AuthorRow(r, r, "read")} \cup RecipientRows(r, r)
        /\ work' = [work EXCEPT ![r] = {}] /\ pc[r] = "c_rows"
        /\ UNCHANGED <<count, message>>
    BY <1>2 DEF ComposeRows, Drop
  <2>2. \A x \in {AuthorRow(r, r, "read")} \cup RecipientRows(r, r) : Fits(x)'
    BY <2>1, TargetExists, BodyFits DEF Created
  <2> QED BY <1>0, <2>1, <2>2, RowsKept
<1>3. CASE UpdateScan(r) \/ UpdatePatch(r)
  <2>1. /\ UNCHANGED rows
        /\ \E w \in SUBSET rows : work' = [work EXCEPT ![r] = w]
    BY <1>3 DEF UpdateScan, UpdatePatch, Replaced, Live
  <2> QED BY <1>0, <2>1, RowsKept DEF RowsOK
<1>4. CASE UpdateCommit(r)
  <2>1. /\ rows' = (rows \ work[r]) \cup {Deleted(x) : x \in work[r]}
               \cup {AuthorRow(r, call[r].msg, "new")} \cup RecipientRows(r, call[r].msg)
        /\ work' = [work EXCEPT ![r] = {}] /\ pc[r] = "u_commit"
        /\ UNCHANGED <<count, message>>
    BY <1>4 DEF UpdateCommit, Drop
  <2>2. \A x \in {AuthorRow(r, call[r].msg, "new")} \cup RecipientRows(r, call[r].msg) : Fits(x)'
    <3>1. PICK m : m = call[r].msg
      OBVIOUS
    <3>2. \A x \in {AuthorRow(r, m, "new")} \cup RecipientRows(r, m) : Fits(x)'
      BY <2>1, <3>1, TargetExists, BodyFits DEF Editing
    <3> QED BY <3>1, <3>2
  <2>3. \A x \in {Deleted(y) : y \in work[r]} : Fits(x)
    BY FiledFits DEF RowsOK, TypeOK
  <2> QED BY <1>0, <2>1, <2>2, <2>3, RowsKept
<1>5. CASE SendRows(r)
  <2>0. PICK k \in Requests :
          /\ UNCHANGED rows
          /\ work' = [work EXCEPT ![r] =
               {IF x.type = "from" THEN [x EXCEPT !.storage = "send"] ELSE x : x \in Live(k)}
               \cup {NewRow(r, call[r].msg, p, "to", "inbox", "new") : p \in call[r].to}]
          /\ pc[r] = "s_rows" /\ UNCHANGED <<count, message>>
    BY <1>5 DEF SendRows
  <2> DEFINE m == call[r].msg
             old == {IF x.type = "from" THEN [x EXCEPT !.storage = "send"] ELSE x : x \in Live(k)}
             new == {NewRow(r, m, p, "to", "inbox", "new") : p \in call[r].to}
  <2>1. /\ UNCHANGED rows /\ work' = [work EXCEPT ![r] = old \cup new]
        /\ pc[r] = "s_rows" /\ UNCHANGED <<count, message>>
    BY <2>0
  <2>2. \A x \in old : Fits(x)
    BY FiledFits DEF RowsOK, TypeOK, Live
  <2>3. \A x \in new : Fits(x)'
    <3>1. PICK n : n = m
      OBVIOUS
    <3>2. \A p \in call[r].to : \A x \in {NewRow(r, n, p, "to", "inbox", "new")} : Fits(x)'
      BY <2>1, <3>1, TargetExists, BodyFits DEF Editing
    <3> QED BY <3>1, <3>2
  <2> QED BY <1>0, <2>1, <2>2, <2>3, RowsKept
<1>6. CASE WriteRow(r)
  <2>1. \E w \in work[r] : /\ rows' \subseteq rows \cup {w}
                           /\ work' = [work EXCEPT ![r] = @ \ {w}]
    BY <1>6 DEF WriteRow
  <2> QED BY <1>0, <2>1, RowsKept DEF RowsOK
<1>7. CASE ReplySelect(r)
  <2>1. UNCHANGED <<rows, count, message>> /\ pc[r] = "r_select"
    BY <1>7, ReplySelectCases
  <2>2. ASSUME NEW x, NEW p, NEW n,
               x = [NewRow(r, r, p, "to", "inbox", "new") EXCEPT !.num = n]
        PROVE  Fits(x)'
    BY <2>1, <2>2, TargetExists DEF Created, NewRow, Fits, Rooted, Placed, Exists
  <2>3. CASE End(r, "failed")
    BY <1>0, <2>1, <2>3, RowsKept DEF Drop
  <2>4. CASE ~End(r, "failed")
    <3>1. PICK num \in [Answered(r) -> 1 .. Cardinality(Answered(r))] :
            work' = [work EXCEPT ![r] =
              {[NewRow(r, r, x.party, "to", "inbox", "new") EXCEPT !.num = num[x]]
                 : x \in Answered(r)}]
      BY <1>7, <2>4, ReplySelectCases, Zenon
    <3>2. \A x \in work'[r] : Fits(x)'
      BY <1>0, <2>2, <3>1
    <3>3. \A q \in Requests : q # r => work'[q] = work[q]
      BY <3>1 DEF TypeOK
    <3> QED BY <2>1, <3>2, <3>3, RowsKept
  <2> QED BY <2>3, <2>4
<1>8. CASE ReplySender(r)
  <2>1. /\ rows' = rows \cup {AuthorRow(r, r, "new")} /\ UNCHANGED <<work, count, message>>
        /\ pc[r] = "r_sender"
    BY <1>8 DEF ReplySender, locals
  <2>2. \A x \in {AuthorRow(r, r, "new")} : Fits(x)'
    BY <2>1, TargetExists, BodyFits DEF Created
  <2> QED BY <2>1, <2>2, RowsKept
<1>9. CASE ReplyCommit(r)
  <2>1. rows' = rows \cup work[r] /\ work' = [work EXCEPT ![r] = {}]
    BY <1>9 DEF ReplyCommit, Drop
  <2> QED BY <1>0, <2>1, RowsKept DEF RowsOK
<1>10. CASE ForwardCommit(r)
  <2> DEFINE new == {NewRow(r, r, p, "to", "inbox", "new") : p \in call[r].to}
  <2>1. /\ rows' = rows \cup {AuthorRow(r, r, "new")} \cup new
        /\ work' = [work EXCEPT ![r] = {}] /\ pc[r] = "f_commit"
    BY <1>10 DEF ForwardCommit, Drop
  <2>2. /\ call[r] \in CallType /\ call[r].thread \in Requests
        /\ call[r].arg \in {"draft", "send"} /\ count[call[r].thread] > 0
    BY <2>1, CallAtType DEF ControlOK, RequestOK, Creating
  <2>3. /\ Exists(r)' /\ message'[r].thread = call[r].thread
        /\ count'[call[r].thread] > 0
    <3>1. message'[r].status = call[r].arg /\ message'[r].thread = call[r].thread
      BY <1>10 DEF ForwardCommit, TypeOK
    <3> QED BY <2>2, <3>1 DEF Exists, Keeps
  <2>4. \A x \in {AuthorRow(r, r, "new")} \cup new : Fits(x)'
    BY <2>2, <2>3, BodyFits
  <2> QED BY <1>0, <2>1, <2>4, RowsKept
<1>11. CASE MarkRows(r)
  <2>1. /\ work' = [work EXCEPT ![r] = {}]
        /\ \A y \in rows' \ rows : \E x \in rows : \E v : y = [x EXCEPT !.visibility = v]
    BY <1>11 DEF MarkRows, Drop
  <2>2. \A x \in rows' \ rows : Fits(x)
    <3> TAKE y \in rows' \ rows
    <3>1. PICK x \in rows : \E v : y = [x EXCEPT !.visibility = v]
      BY <2>1
    <3>2. x \in RowType /\ Fits(x)
      BY DEF RowsOK, TypeOK
    <3> QED BY <3>1, <3>2, FiledFits
  <2> QED BY <1>0, <2>1, <2>2, RowsKept
<1> QED
  BY <1>1, <1>2, <1>3, <1>4, <1>5, <1>6, <1>7, <1>8, <1>9, <1>10, <1>11 DEF Continue

\* Each step that a request takes keeps the control conjuncts and leaves alone
\* what Keeps says.
LEMMA StepKeeps ==
  ASSUME TypeOK, ControlOK, TypeOK', NEW r \in Requests,
         Start(r) \/ Continue(r) \/ Fail(r) \/ Leak(r)
  PROVE  Keeps(r)
BY StartControl, QuietSteps, ContinueControl DEF Continue

\* Every step keeps the rows fitting.
LEMMA StepRows ==
  ASSUME TypeOK, ControlOK, TypeOK', RowsOK, [Next]_vars
  PROVE  RowsOK'
<1>1. CASE UNCHANGED vars
  BY <1>1 DEF vars, RowsOK, Fits, Rooted, Placed, Exists
<1> QED BY <1>1, StepKeeps, StartRows, ContinueRows DEF Next, Rest

\* The inductive invariant of the group rows.
LEMMA RowsCorrect == Spec => [](TypeOK /\ ControlOK /\ RowsOK)
<1>1. Init => RowsOK
  BY DEF Init, RowsOK
<1>2. Init => TypeOK /\ ControlOK
  BY InitType
<1>3. TypeOK /\ ControlOK /\ RowsOK /\ [Next]_vars => (TypeOK /\ ControlOK /\ RowsOK)'
  BY StepType, StepControl, StepRows
<1> QED BY <1>1, <1>2, <1>3, PTL DEF Spec

\* Whatever the interleaving and whichever statements fail, the thread a row
\* names is that of its message, which exists, and is counted.
THEOREM ThreadsAgree == Spec => []ThreadAgreement
<1>1. RowsOK => ThreadAgreement
  BY DEF RowsOK, Fits, Rooted, ThreadAgreement
<1> QED BY <1>1, RowsCorrect, PTL

\* No request files a received mail among drafts or sent mails, nor a mail of
\* the author's in the inbox.
THEOREM StorageAgrees == Spec => []StorageFitsType
<1>1. RowsOK => StorageFitsType
  BY DEF RowsOK, Fits, Placed, StorageFitsType
<1> QED BY <1>1, RowsCorrect, PTL

-----------------------------------------------------------------------------
(* The counts of the threads.  incrementOrCreate and forward write a count   *)
(* they have read before, plus one: what they have read must be no more than *)
(* is in the thread when they write it.                                      *)

Inserting == {"c_count", "f_count", "f_commit"}

\* The requests that have put a message into the thread, or are at it.
Counted(t) ==
  {r \in Requests :
     call[r].op \in {"compose", "forward"} /\ call[r].thread = t /\ pc[r] \notin Inserting}

CountOK(r) ==
  /\ pc[r] = "idle" => call[r].op = "none"
  /\ pc[r] \in Inserting => call[r].op \in {"compose", "forward"}
  /\ pc[r] \in {"c_count", "f_commit"} =>
       seenCount[r] <= Cardinality(Counted(call[r].thread))

CountsOK ==
  /\ \A t \in Requests : count[t] <= Cardinality(Counted(t))
  /\ \A r \in Requests : CountOK(r)

\* What a step does to the handlers and the counts, but for the request r.
CountSteps(r) ==
  /\ \A q \in Requests \ {r} :
       pc'[q] = pc[q] /\ call'[q] = call[q] /\ seenCount'[q] = seenCount[q]
  /\ pc[r] # "idle" =>
       /\ UNCHANGED call
       /\ pc[r] \notin Inserting => pc'[r] \notin Inserting
  /\ pc'[r] # "idle"

\* A thread loses none of the requests that are counted.
LEMMA CountedGrows ==
  ASSUME CountsOK, NEW r \in Requests, CountSteps(r), NEW t \in Requests
  PROVE  /\ Counted(t) \subseteq Counted(t)'
         /\ IsFiniteSet(Counted(t)')
         /\ Cardinality(Counted(t)) \in Nat /\ Cardinality(Counted(t)') \in Nat
         /\ Cardinality(Counted(t)) <= Cardinality(Counted(t)')
<1>1. IsFiniteSet(Requests)
  BY FS_Interval, BoundsAssumption DEF Requests
<1>2. IsFiniteSet(Counted(t)) /\ IsFiniteSet(Counted(t)')
  BY <1>1, FS_Subset DEF Counted
<1>3. Counted(t) \subseteq Counted(t)'
  <2> SUFFICES ASSUME NEW q \in Counted(t) PROVE q \in Counted(t)'
    OBVIOUS
  <2>1. q = r => pc[r] # "idle"
    BY DEF CountsOK, CountOK, Counted
  <2> QED BY <2>1 DEF Counted, CountSteps
<1> QED BY <1>2, <1>3, FS_Subset, FS_CardinalityType

\* With that, a step need only be looked at for the count it writes and for
\* what its own request has read.
LEMMA CountsKept ==
  ASSUME TypeOK, TypeOK', CountsOK, NEW r \in Requests, CountSteps(r),
         \A t \in Requests : count'[t] # count[t] => count'[t] <= Cardinality(Counted(t)'),
         pc'[r] \in Inserting => call'[r].op \in {"compose", "forward"},
         pc'[r] \in {"c_count", "f_commit"} =>
           \E t \in Requests : t = call'[r].thread /\ seenCount'[r] <= Cardinality(Counted(t)')
  PROVE  CountsOK'
<1>1. ASSUME NEW t \in Requests PROVE count'[t] <= Cardinality(Counted(t)')
  <2>1. count[t] <= Cardinality(Counted(t)) /\ count[t] \in Nat
    BY DEF CountsOK, TypeOK
  <2> QED BY <2>1, CountedGrows
<1>2. ASSUME NEW q \in Requests \ {r} PROVE CountOK(q)'
  <2>1. /\ pc'[q] = pc[q] /\ call'[q] = call[q] /\ seenCount'[q] = seenCount[q]
        /\ CountOK(q)
    BY DEF CountSteps, CountsOK
  <2>2. ASSUME pc[q] \in {"c_count", "f_commit"}
        PROVE  seenCount[q] <= Cardinality(Counted(call[q].thread)')
    <3>1. PICK t \in Requests : t = call[q].thread
      BY <2>2, CallAtType
    <3>2. seenCount[q] <= Cardinality(Counted(t)) /\ seenCount[q] \in Nat
      BY <2>1, <2>2, <3>1 DEF CountOK, TypeOK
    <3>3. seenCount[q] <= Cardinality(Counted(t)')
      BY <3>2, CountedGrows
    <3>4. Counted(call[q].thread)' = Counted(t)'
      BY <2>1, <3>1 DEF Counted
    <3> QED BY <3>3, <3>4
  <2> QED BY <2>1, <2>2 DEF CountOK
<1>3. CountOK(r)'
  BY DEF CountOK, CountSteps
<1> QED BY <1>1, <1>2, <1>3 DEF CountsOK

\* Starting a request: composing into a thread of its own writes the count one,
\* into another's it takes the count of the thread as it is.
LEMMA StartCounts ==
  ASSUME TypeOK, TypeOK', ControlOK, CountsOK, NEW r \in Requests, Start(r)
  PROVE  CountsOK'
<1>0. pc[r] = "idle" /\ r \in DOMAIN pc /\ r \in DOMAIN call /\ r \in DOMAIN seenCount
      /\ r \in DOMAIN count
  BY DEF Start, Ready, TypeOK
<1>1. /\ \A q \in Requests \ {r} :
           pc'[q] = pc[q] /\ call'[q] = call[q] /\ seenCount'[q] = seenCount[q]
      /\ pc'[r] # "idle"
      /\ pc'[r] \in Inserting => call'[r].op \in {"compose", "forward"}
      /\ pc'[r] # "f_commit"
  <2> USE DEF Begin, Goto, Request, About, Inserting
  <2>1. CASE Compose(r)
    BY <1>0, <2>1 DEF Compose, TypeOK
  <2>2. CASE Forward(r)
    BY <1>0, <2>2 DEF Forward, TypeOK, locals
  <2>3. CASE Update(r) \/ SendDraft(r) \/ Reply(r)
    BY <1>0, <2>3 DEF Update, SendDraft, Reply, TypeOK, locals
  <2>4. CASE Trash(r) \/ Delete(r) \/ Restore(r)
    <3>1. CASE Trash(r)
      BY <1>0, <3>1 DEF Trash, TypeOK
    <3>2. CASE Delete(r)
      BY <1>0, <3>2 DEF Delete, TypeOK
    <3>3. CASE Restore(r)
      BY <1>0, <3>3 DEF Restore, TypeOK
    <3> QED BY <2>4, <3>1, <3>2, <3>3
  <2>5. CASE Mark(r) \/ Fetch(r)
    BY <1>0, <2>5 DEF Mark, Fetch, TypeOK, locals
  <2>6. CASE Attachment(r)
    BY <1>0, <2>6 DEF Attachment, TypeOK, locals
  <2> QED BY <2>1, <2>2, <2>3, <2>4, <2>5, <2>6 DEF Start
<1>2. CountSteps(r)
  BY <1>0, <1>1 DEF CountSteps
<1>3. CASE Compose(r)
  <2>1. PICK t \in Requests :
          /\ call'[r].thread = t /\ call'[r].op = "compose"
          /\ \/ t = r /\ count' = [count EXCEPT ![r] = 1] /\ pc'[r] = "c_message"
             \/ seenCount'[r] = count[t] /\ pc'[r] = "c_count" /\ UNCHANGED count
    BY <1>0, <1>3 DEF Compose, Begin, Goto, Request
  <2>2. CASE t = r /\ count' = [count EXCEPT ![r] = 1] /\ pc'[r] = "c_message"
    <3>1. r \in Counted(r)'
      BY <2>1, <2>2 DEF Counted, Inserting
    <3>2. Cardinality(Counted(r)') >= 1
      <4>1. IsFiniteSet(Counted(r)') /\ Cardinality(Counted(r)') \in Nat
        BY <1>2, CountedGrows
      <4>2. Cardinality(Counted(r)') # 0
        BY <3>1, <4>1, FS_EmptySet
      <4> QED BY <4>1, <4>2
    <3>3. \A s \in Requests : count'[s] # count[s] => s = r /\ count'[s] = 1
      BY <1>0, <2>2 DEF TypeOK
    <3> QED BY <1>1, <1>2, <2>2, <3>2, <3>3, CountsKept
  <2>3. CASE seenCount'[r] = count[t] /\ pc'[r] = "c_count" /\ UNCHANGED count
    <3>1. count[t] <= Cardinality(Counted(t)) /\ count[t] \in Nat
      BY DEF CountsOK, TypeOK
    <3>2. count[t] <= Cardinality(Counted(t)')
      BY <1>2, <3>1, CountedGrows
    <3> QED BY <1>1, <1>2, <2>1, <2>3, <3>2, CountsKept
  <2> QED BY <2>1, <2>2, <2>3
<1>4. CASE ~Compose(r)
  <2>1. UNCHANGED count /\ pc'[r] # "c_count"
    BY <1>0, <1>4 DEF Start, Update, SendDraft, Reply, Forward, Trash, Delete, Restore, Mark,
       Fetch, Attachment, Goto
  <2> QED BY <1>1, <1>2, <2>1, CountsKept
<1> QED BY <1>3, <1>4

\* Once its second half writes the count, the request is counted itself.
LEMMA WrittenCount ==
  ASSUME TypeOK, CountsOK, NEW r \in Requests, CountSteps(r), UNCHANGED call,
         pc[r] \in {"c_count", "f_commit"}, pc'[r] \notin Inserting
  PROVE  \E t \in Requests :
           /\ t = call[r].thread
           /\ Incremented(r) <= Cardinality(Counted(t)')
<1>1. PICK t \in Requests : t = call[r].thread
  BY CallAtType
<1>2. seenCount[r] <= Cardinality(Counted(t)) /\ seenCount[r] \in Nat
  BY <1>1 DEF CountsOK, CountOK, TypeOK
<1>3. r \in Counted(t)' /\ r \notin Counted(t)
  BY <1>1 DEF CountsOK, CountOK, Counted, Inserting
<1>4. /\ Counted(t) \subseteq Counted(t)' \ {r} /\ IsFiniteSet(Counted(t)')
      /\ Cardinality(Counted(t)) \in Nat /\ Cardinality(Counted(t)') \in Nat
  BY <1>3, CountedGrows
<1>5. /\ IsFiniteSet(Counted(t)' \ {r})
      /\ Cardinality(Counted(t)' \ {r}) = Cardinality(Counted(t)') - 1
  BY <1>3, <1>4, FS_RemoveElement
<1>6. Cardinality(Counted(t)) <= Cardinality(Counted(t)' \ {r})
  BY <1>4, <1>5, FS_Subset
<1> QED BY <1>1, <1>2, <1>4, <1>5, <1>6 DEF Incremented

\* The statements of the handlers keep the counts from overstating.
LEMMA ContinueCounts ==
  ASSUME TypeOK, TypeOK', ControlOK, CountsOK, NEW r \in Requests,
         Continue(r) \/ Fail(r) \/ Leak(r)
  PROVE  CountsOK'
<1> USE DEF At, End
<1>0. r \in DOMAIN pc /\ r \in DOMAIN seenCount /\ r \in DOMAIN count
  BY DEF TypeOK
<1>1. /\ UNCHANGED call /\ pc[r] # "idle" /\ pc'[r] # "idle"
      /\ \A q \in Requests \ {r} : pc'[q] = pc[q]
      /\ pc'[r] \in Inserting => ForwardCount(r) /\ pc'[r] = "f_commit"
  <2> USE DEF Goto, Inserting
  <2>1. CASE ReplySelect(r)
    BY <1>0, <2>1, ReplySelectCases DEF TypeOK
  <2>2. CASE WriteRow(r) \/ LoseWrite(r)
    BY <1>0, <2>2 DEF WriteRow, LoseWrite, TypeOK
  <2>3. CASE ComposeCount(r) \/ ComposeMessage(r) \/ ComposeRows(r)
    BY <1>0, <2>3 DEF ComposeCount, ComposeMessage, ComposeRows, TypeOK
  <2>4. CASE UpdateFiles(r) \/ UpdateLock(r) \/ UpdateScan(r) \/ UpdatePatch(r)
             \/ UpdateMessage(r) \/ UpdateCommit(r)
    BY <1>0, <2>4 DEF UpdateFiles, UpdateLock, UpdateScan, UpdatePatch, UpdateMessage,
                      UpdateCommit, TypeOK
  <2>5. CASE SendRows(r) \/ SendStatus(r) \/ ReplyMessage(r) \/ ReplySender(r) \/ ReplyCommit(r)
    BY <1>0, <2>5 DEF SendRows, SendStatus, ReplyMessage, ReplySender, ReplyCommit, TypeOK
  <2>6. CASE ForwardCount(r) \/ ForwardCommit(r) \/ MarkRows(r)
    BY <1>0, <2>6 DEF ForwardCount, ForwardCommit, MarkRows, TypeOK
  <2>7. CASE AttachmentAdd(r) \/ AttachmentRemove(r) \/ Fail(r) \/ Leak(r)
    BY <1>0, <2>7 DEF AttachmentAdd, AttachmentRemove, Fail, Leak, Busy, TypeOK
  <2> QED BY <2>1, <2>2, <2>3, <2>4, <2>5, <2>6, <2>7 DEF Continue
<1>2. /\ \A q \in Requests \ {r} : seenCount'[q] = seenCount[q]
      /\ ~(ComposeCount(r) \/ ForwardCommit(r)) => UNCHANGED count
  <2>1. CASE ReplySelect(r)
    <3>1. UNCHANGED count /\ (UNCHANGED seenCount \/ Drop(r))
      BY <2>1, ReplySelectCases
    <3> QED BY <3>1 DEF Drop, TypeOK
  <2>2. CASE ~ReplySelect(r)
    <3>1. \/ UNCHANGED seenCount
          \/ \E n \in Nat : seenCount' = [seenCount EXCEPT ![r] = n]
          \/ ForwardCount(r)
      BY <2>2 DEF Continue, ComposeCount, ComposeMessage, ComposeRows, UpdateFiles,
                  UpdateLock, UpdateScan,
       UpdatePatch, UpdateMessage, UpdateCommit, SendRows, SendStatus, WriteRow, LoseWrite,
       ReplyMessage, ReplySender, ReplyCommit, ForwardCommit, MarkRows,
       AttachmentAdd, AttachmentRemove, Fail, Leak, Drop, locals
    <3>2. \A q \in Requests \ {r} : seenCount'[q] = seenCount[q]
      BY <3>1 DEF ForwardCount, TypeOK
    <3>3. ~(ComposeCount(r) \/ ForwardCommit(r)) => UNCHANGED count
      BY <2>2 DEF Continue, ComposeCount, ComposeMessage, ComposeRows, UpdateFiles,
                  UpdateLock, UpdateScan,
       UpdatePatch, UpdateMessage, UpdateCommit, SendRows, SendStatus, WriteRow, LoseWrite,
       ReplyMessage, ReplySender, ReplyCommit, ForwardCount, ForwardCommit, MarkRows,
       AttachmentAdd, AttachmentRemove, Fail, Leak
    <3> QED BY <3>2, <3>3
  <2> QED BY <2>1, <2>2
<1>3. pc[r] \notin Inserting => pc'[r] \notin Inserting
  BY <1>1 DEF ForwardCount, Inserting
<1>4. CountSteps(r)
  BY <1>1, <1>2, <1>3 DEF CountSteps
<1>5. CASE ComposeCount(r) \/ ForwardCommit(r)
  <2>1. /\ pc[r] \in {"c_count", "f_commit"} /\ pc'[r] \notin Inserting
        /\ count' = [count EXCEPT ![call[r].thread] = Incremented(r)]
    BY <1>0, <1>1, <1>5 DEF ComposeCount, ForwardCommit, ForwardCount
  <2>2. PICK t \in Requests : t = call[r].thread /\ Incremented(r) <= Cardinality(Counted(t)')
    BY <1>1, <1>4, <2>1, WrittenCount
  <2>3. \A s \in Requests : count'[s] # count[s] => s = t /\ count'[s] = Incremented(r)
    BY <1>0, <2>1, <2>2 DEF TypeOK
  <2>4. \A s \in Requests : count'[s] # count[s] => count'[s] <= Cardinality(Counted(s)')
    BY <2>2, <2>3
  <2>5. pc'[r] \notin {"c_count", "f_commit"}
    BY <2>1 DEF Inserting
  <2> QED BY <1>4, <2>1, <2>4, <2>5, CountsKept
<1>6. CASE ForwardCount(r)
  <2>1. PICK t \in Requests : t = call[r].thread
    BY <1>1, CallAtType
  <2>2. /\ seenCount'[r] = count[t] /\ UNCHANGED <<count, call>>
        /\ pc[r] = "f_count" /\ pc'[r] = "f_commit"
    BY <1>0, <1>6, <2>1 DEF ForwardCount, Goto
  <2>3. count[t] <= Cardinality(Counted(t)) /\ count[t] \in Nat
    BY DEF CountsOK, TypeOK
  <2>4. count[t] <= Cardinality(Counted(t)')
    BY <1>4, <2>3, CountedGrows
  <2>5. call'[r].op \in {"compose", "forward"}
    BY <2>2 DEF CountsOK, CountOK, Inserting
  <2> QED BY <1>4, <2>1, <2>2, <2>4, <2>5, CountsKept
<1>7. CASE ~(ComposeCount(r) \/ ForwardCommit(r) \/ ForwardCount(r))
  <2>1. pc'[r] \notin Inserting /\ UNCHANGED count
    BY <1>1, <1>2, <1>7
  <2>2. pc'[r] \notin {"c_count", "f_commit"}
    BY <2>1 DEF Inserting
  <2> QED BY <1>4, <2>1, <2>2, CountsKept
<1> QED BY <1>5, <1>6, <1>7

\* Whatever the clients ask and however composing and forwarding into one thread
\* interleave, its count never claims more messages than have been put into it:
\* the lost updates of incrementOrCreate and of forward only ever lower it.
THEOREM CountsNeverOverstate == Spec => []CountNeverOverstates
<1>1. Init => CountsOK
  <2>1. ASSUME Init, NEW t \in Requests PROVE Counted(t) = {}
    BY <2>1 DEF Init, Counted, NoCall
  <2> QED
    BY <2>1, FS_EmptySet DEF Init, CountsOK, CountOK, Inserting, NoCall
<1>2. (TypeOK /\ ControlOK) /\ CountsOK /\ (TypeOK /\ ControlOK)' /\ [Next]_vars => CountsOK'
  <2>1. ASSUME UNCHANGED vars, CountsOK PROVE CountsOK'
    BY <2>1 DEF vars, CountsOK, CountOK, Counted
  <2> QED BY <2>1, StartCounts, ContinueCounts DEF Next, Rest
<1>3. CountsOK => CountNeverOverstates
  BY DEF CountsOK, Counted, Inserting, CountNeverOverstates
<1>4. Spec => [](TypeOK /\ ControlOK)
  BY RowsCorrect, PTL
<1> QED BY <1>1, <1>2, <1>3, <1>4, PTL DEF Spec

-----------------------------------------------------------------------------
(* Handlers come to an end: every statement brings one nearer to it, and     *)
(* some handler can go on.                                                   *)

\* How many statements a handler has before it, the one it is at included; those
\* that are awaited together count as one, of which its rows are left.
StatementsLeft(l) ==
  CASE l = "idle" -> 7
    [] l = "u_files" -> 6
    [] l = "u_lock" -> 5
    [] l \in {"u_scan", "r_message"} -> 4
    [] l \in {"c_count", "u_patch", "s_rows", "r_select"} -> 3
    [] l \in {"c_message", "u_message", "s_status", "r_sender", "f_count"} -> 2
    [] l \in {"c_rows", "u_commit", "writing", "losing", "r_commit", "f_commit", "m_rows",
              "a_add", "a_remove"} -> 1
    [] l \in Ended -> 0

Nearer(r) ==
  \/ StatementsLeft(pc'[r]) < StatementsLeft(pc[r])
  \/ /\ pc[r] \in {"writing", "losing"} /\ pc'[r] \in {"writing", "losing"}
     /\ Cardinality(work'[r]) < Cardinality(work[r])

\* The rows a handler waits for are locked by nobody: what Continue asks for.
Unblocked(r) ==
  /\ pc[r] = "u_lock" => \A f \in workFiles[r] : ~LockedFile(f)
  /\ pc[r] = "u_patch" => \A x \in work[r] : ~Locked(x)
  /\ pc[r] \in {"writing", "losing"} => \E w \in work[r] : ~Locked(w)
  /\ pc[r] = "m_rows" => \A x \in rows : x.party = call[r].user => ~Locked(x)
  /\ pc[r] = "a_remove" => \A f \in files : ~LockedFile(f)

\* The rows are finitely many, a handler that writes has rows to write, and
\* transactions stay open only by a fault.
FiniteOK ==
  /\ IsFiniteSet(rows)
  /\ \A r \in Requests :
       /\ IsFiniteSet(work[r])
       /\ pc[r] \in {"writing", "losing"} => work[r] # {}
       /\ pc[r] = "leaked" => Faults

\* The table of StatementsLeft, read by the labels.
LEMMA LeftByLabel ==
  /\ StatementsLeft("idle") = 7 /\ StatementsLeft("u_files") = 6
  /\ StatementsLeft("u_lock") = 5
  /\ \A l \in {"u_scan", "r_message"} : StatementsLeft(l) = 4
  /\ \A l \in {"c_count", "u_patch", "s_rows", "r_select"} : StatementsLeft(l) = 3
  /\ \A l \in {"c_message", "u_message", "s_status", "r_sender", "f_count"} :
       StatementsLeft(l) = 2
  /\ \A l \in {"c_rows", "u_commit", "writing", "losing", "r_commit", "f_commit", "m_rows",
                "a_add", "a_remove"} : StatementsLeft(l) = 1
  /\ \A l \in Ended : StatementsLeft(l) = 0
BY DEF StatementsLeft, Ended

LEMMA ImageFinite ==
  ASSUME NEW S, IsFiniteSet(S), NEW f, DOMAIN f = S
  PROVE  IsFiniteSet({f[x] : x \in S})
<1> DEFINE T == {f[x] : x \in S}
           g == [x \in S |-> f[x]]
<1>1. g \in Surjection(S, T)
  BY DEF Surjection
<1> QED BY <1>1, FS_Surjection

\* What a handler writes back, is finite where what it has read is.
LEMMA RowsFinite ==
  ASSUME FiniteOK, NEW m
  PROVE  IsFiniteSet(Live(m)) /\ \A S \in SUBSET rows : IsFiniteSet(S)
<1>1. \A S \in SUBSET rows : IsFiniteSet(S)
  BY FS_Subset DEF FiniteOK
<1>2. Live(m) \in SUBSET rows
  BY DEF Live
<1> QED BY <1>1, <1>2

\* So are new rows, where users are.
LEMMA NewRowsFinite ==
  ASSUME IsFiniteSet(Users), NEW r, NEW m, NEW to \in SUBSET Users
  PROVE  IsFiniteSet({NewRow(r, m, p, "to", "inbox", "new") : p \in to})
<1> DEFINE f == [p \in to |-> NewRow(r, m, p, "to", "inbox", "new")]
<1>1. IsFiniteSet(to)
  BY FS_Subset
<1>2. IsFiniteSet({f[p] : p \in to})
  BY <1>1, ImageFinite
<1>3. {f[p] : p \in to} = {NewRow(r, m, p, "to", "inbox", "new") : p \in to}
  OBVIOUS
<1> QED BY <1>2, <1>3

LEMMA RecipientsFinite ==
  ASSUME IsFiniteSet(Users), NEW r, NEW m, call[r].to \in SUBSET Users
  PROVE  IsFiniteSet(RecipientRows(r, m))
<1>1. CASE call[r].arg = "draft"
  BY <1>1, FS_EmptySet DEF RecipientRows
<1>2. CASE call[r].arg # "draft"
  BY <1>2, NewRowsFinite DEF RecipientRows
<1> QED BY <1>1, <1>2

\* What one handler's statement must do to the rest, for FiniteOK.
LEMMA FiniteStep ==
  ASSUME TypeOK, FiniteOK, NEW r \in Requests, NEW l, Goto(r, l),
         IsFiniteSet(rows'), IsFiniteSet(work'[r]),
         \A q \in Requests \ {r} : work'[q] = work[q],
         l \in {"writing", "losing"} => work'[r] # {}, l = "leaked" => Faults
  PROVE  FiniteOK'
<1>1. \A q \in Requests : pc'[q] = IF q = r THEN l ELSE pc[q]
  BY DEF TypeOK, Goto
<1> QED BY <1>1 DEF FiniteOK

LEMMA StartFinite ==
  ASSUME TypeOK, FiniteOK, NEW r \in Requests, Start(r)
  PROVE  FiniteOK'
<1>1. UNCHANGED rows
  BY DEF Start, Compose, Update, SendDraft, Reply, Forward, Trash, Delete, Restore, Mark, Fetch,
         Attachment
<1>2. IsFiniteSet(rows') /\ IsFiniteSet(work[r])
  BY <1>1 DEF FiniteOK
<1>3. CASE Trash(r) \/ Delete(r) \/ Restore(r)
  <2>1. PICK u \in Users, m \in Requests, st \in Storages :
          \E found \in (SUBSET Filed(u, m, st)) \ {{}} :
            /\ Goto(r, "writing")
            /\ \/ work' = [work EXCEPT ![r] = {Trashed(x) : x \in found}]
               \/ work' = [work EXCEPT ![r] = {Deleted(x) : x \in found}]
               \/ work' = [work EXCEPT ![r] = {Restored(x) : x \in found}]
    <3>1. CASE Trash(r)
      BY <3>1 DEF Trash
    <3>2. CASE Delete(r)
      BY <3>2 DEF Delete, Storages
    <3>3. CASE Restore(r)
      BY <3>3 DEF Restore, Storages
    <3> QED BY <1>3, <3>1, <3>2, <3>3
  <2> PICK S \in (SUBSET Filed(u, m, st)) \ {{}} :
        /\ Goto(r, "writing")
        /\ \/ work' = [work EXCEPT ![r] = {Trashed(x) : x \in S}]
           \/ work' = [work EXCEPT ![r] = {Deleted(x) : x \in S}]
           \/ work' = [work EXCEPT ![r] = {Restored(x) : x \in S}]
    BY <2>1
  <2>2. Goto(r, "writing") /\ work'[r] # {}
    <3>1. PICK x : x \in S
      OBVIOUS
    <3>2. Trashed(x) \in work'[r] \/ Deleted(x) \in work'[r] \/ Restored(x) \in work'[r]
      BY <3>1 DEF TypeOK
    <3> QED BY <3>2
  <2> DEFINE t == [x \in S |-> Trashed(x)]
             d == [x \in S |-> Deleted(x)]
             b == [x \in S |-> Restored(x)]
  <2>3. IsFiniteSet(S)
    <3>1. S \in SUBSET rows
      BY DEF Filed
    <3> QED BY <3>1, RowsFinite
  <2>4. /\ IsFiniteSet({t[x] : x \in S}) /\ IsFiniteSet({d[x] : x \in S})
        /\ IsFiniteSet({b[x] : x \in S})
    <3>1. DOMAIN t = S /\ DOMAIN d = S /\ DOMAIN b = S
      OBVIOUS
    <3> HIDE DEF t, d, b
    <3> QED BY <2>3, <3>1, ImageFinite
  <2>5. /\ {t[x] : x \in S} = {Trashed(x) : x \in S} /\ {d[x] : x \in S} = {Deleted(x) : x \in S}
        /\ {b[x] : x \in S} = {Restored(x) : x \in S}
    OBVIOUS
  <2>6. work'[r] \in {{t[x] : x \in S}, {d[x] : x \in S}, {b[x] : x \in S}}
    BY <2>5 DEF TypeOK
  <2> HIDE DEF t, d, b
  <2>7. IsFiniteSet(work'[r])
    BY <2>4, <2>6
  <2>8. \A q \in Requests \ {r} : work'[q] = work[q]
    BY DEF TypeOK
  <2> QED BY <1>2, <2>2, <2>7, <2>8, FiniteStep
<1>4. CASE ~(Trash(r) \/ Delete(r) \/ Restore(r))
  <2>1. /\ work' = work
        /\ \E l \in Labels \ {"writing", "losing"} : Goto(r, l)
    BY <1>4 DEF Start, Compose, Update, SendDraft, Reply, Forward, Mark, Fetch, Attachment,
                locals, Labels
  <2>2. PICK l \in Labels \ {"writing", "losing"} : Goto(r, l)
    BY <2>1
  <2>3. l # "leaked"
    BY DEF Labels
  <2> QED BY <1>2, <2>1, <2>2, <2>3, FiniteStep
<1> QED BY <1>3, <1>4

LEMMA ContinueFinite ==
  ASSUME IsFiniteSet(Users), TypeOK, FiniteOK, NEW r \in Requests, Continue(r)
  PROVE  FiniteOK'
<1>0. IsFiniteSet({}) /\ IsFiniteSet(rows) /\ IsFiniteSet(work[r])
  BY FS_EmptySet DEF FiniteOK
<1>1. /\ pc[r] # "idle" /\ call[r].to \in SUBSET Users
      /\ \A q \in Requests \ {r} : work'[q] = work[q]
  <2>1. pc[r] # "idle"
    BY DEF Continue, ComposeCount, ComposeMessage, ComposeRows, UpdateFiles, UpdateLock,
           UpdateScan, UpdatePatch,
           UpdateMessage, UpdateCommit, SendRows, SendStatus, WriteRow, LoseWrite, ReplyMessage,
           ReplySelect, ReplySender, ReplyCommit, ForwardCount, ForwardCommit, MarkRows,
           AttachmentAdd, AttachmentRemove, At
  <2>2. \A q \in Requests \ {r} : work'[q] = work[q]
    BY DEF Continue, ComposeCount, ComposeMessage, ComposeRows, UpdateFiles, UpdateLock,
           UpdateScan, UpdatePatch,
           UpdateMessage, UpdateCommit, SendRows, SendStatus, WriteRow, LoseWrite, ReplyMessage,
           ReplySelect, ReplySender, ReplyCommit, ForwardCount, ForwardCommit, MarkRows,
           AttachmentAdd, AttachmentRemove, End, Drop, locals, TypeOK
  <2> QED BY <2>1, <2>2, CallAtType
<1>2. \A m : /\ IsFiniteSet(RecipientRows(r, m)) /\ IsFiniteSet({AuthorRow(r, m, "read")})
             /\ IsFiniteSet({AuthorRow(r, m, "new")})
             /\ IsFiniteSet({NewRow(r, m, p, "to", "inbox", "new") : p \in call[r].to})
  <2> TAKE m
  <2>1. \A x : IsFiniteSet({} \union {x})
    BY <1>0, FS_AddElement
  <2>2. \A x : {} \union {x} = {x}
    OBVIOUS
  <2>3. \A x : IsFiniteSet({x})
    BY <2>1, <2>2
  <2> QED BY <1>1, <2>3, RecipientsFinite, NewRowsFinite
<1>3. \A S, T : IsFiniteSet(S) /\ IsFiniteSet(T) => IsFiniteSet(S \union T)
  BY FS_Union
<1>4. \A S \in SUBSET rows : IsFiniteSet(S)
  BY RowsFinite
<1>5. ASSUME UNCHANGED <<rows, work>>, NEW l \in Labels \ {"writing", "losing"}, Goto(r, l)
      PROVE  FiniteOK'
  <2>1. l # "leaked"
    BY DEF Labels
  <2> QED BY <1>0, <1>1, <1>5, <2>1, FiniteStep
<1>6. ASSUME IsFiniteSet(rows'), End(r, "done") \/ End(r, "failed") PROVE FiniteOK'
  <2>1. work'[r] = {} /\ (Goto(r, "done") \/ Goto(r, "failed"))
    BY <1>6 DEF End, Drop, TypeOK
  <2> QED BY <1>0, <1>1, <1>6, <2>1, FiniteStep
<1>7. CASE ComposeCount(r) \/ ComposeMessage(r) \/ UpdateMessage(r) \/ ReplyMessage(r)
           \/ ForwardCount(r) \/ UpdateFiles(r) \/ UpdateLock(r)
  BY <1>5, <1>7 DEF ComposeCount, ComposeMessage, UpdateMessage, ReplyMessage, ForwardCount,
                    UpdateFiles, UpdateLock, locals, Labels
<1>8. CASE ComposeRows(r) \/ ReplyCommit(r) \/ ForwardCommit(r) \/ AttachmentAdd(r)
           \/ AttachmentRemove(r)
  <2>1. IsFiniteSet(rows')
    <3>1. CASE ComposeRows(r)
      BY <1>0, <1>2, <1>3, <3>1 DEF ComposeRows
    <3>2. CASE ForwardCommit(r)
      BY <1>0, <1>2, <1>3, <3>2 DEF ForwardCommit
    <3>3. CASE ReplyCommit(r) \/ AttachmentAdd(r) \/ AttachmentRemove(r)
      BY <1>0, <1>3, <3>3 DEF ReplyCommit, AttachmentAdd, AttachmentRemove
    <3> QED BY <1>8, <3>1, <3>2, <3>3
  <2>2. End(r, "done")
    BY <1>8 DEF ComposeRows, ReplyCommit, ForwardCommit, AttachmentAdd, AttachmentRemove
  <2> QED BY <1>6, <2>1, <2>2
<1>9. CASE UpdateScan(r)
  <2>1. work'[r] = Live(call[r].msg) /\ Goto(r, "u_patch") /\ rows' = rows
    BY <1>9 DEF UpdateScan, Replaced, TypeOK
  <2> QED BY <1>0, <1>1, <2>1, RowsFinite, FiniteStep
<1>10. CASE UpdatePatch(r)
  <2>1. work'[r] \in SUBSET rows /\ Goto(r, "u_message") /\ rows' = rows
    BY <1>10 DEF UpdatePatch, Live, TypeOK
  <2> QED BY <1>0, <1>1, <1>4, <2>1, FiniteStep
<1>11. CASE UpdateCommit(r)
  <2> DEFINE f == [x \in work[r] |-> Deleted(x)]
  <2>1. IsFiniteSet({f[x] : x \in work[r]})
    BY <1>0, ImageFinite
  <2>2. {f[x] : x \in work[r]} = {Deleted(x) : x \in work[r]}
    OBVIOUS
  <2>3. IsFiniteSet(rows \ work[r]) /\ IsFiniteSet({Deleted(x) : x \in work[r]})
    BY <1>4, <2>1, <2>2
  <2>4. rows' = (rows \ work[r]) \cup {Deleted(x) : x \in work[r]}
                  \cup {AuthorRow(r, call[r].msg, "new")} \cup RecipientRows(r, call[r].msg)
    BY <1>11 DEF UpdateCommit
  <2>5. IsFiniteSet(rows')
    BY <1>2, <1>3, <2>3, <2>4
  <2> QED BY <1>6, <1>11, <2>5 DEF UpdateCommit
<1>12. CASE SendRows(r)
  <2>0. PICK m \in Requests :
          work' = [work EXCEPT ![r] =
            {IF x.type = "from" THEN [x EXCEPT !.storage = "send"] ELSE x : x \in Live(m)}
            \cup {NewRow(r, call[r].msg, p, "to", "inbox", "new") : p \in call[r].to}]
    BY <1>12 DEF SendRows
  <2> DEFINE S == Live(m)
             f == [x \in S |-> IF x.type = "from" THEN [x EXCEPT !.storage = "send"] ELSE x]
             N == {NewRow(r, call[r].msg, p, "to", "inbox", "new") : p \in call[r].to}
  <2>1. work'[r] = {f[x] : x \in S} \union N
    BY <2>0 DEF TypeOK
  <2>2. IsFiniteSet(S) /\ DOMAIN f = S /\ IsFiniteSet(N)
    BY <1>2, RowsFinite
  <2> HIDE DEF S, f, N
  <2>3. IsFiniteSet(work'[r])
    <3>1. IsFiniteSet({f[x] : x \in S})
      BY <2>2, ImageFinite
    <3> QED BY <1>3, <2>1, <2>2, <3>1
  <2>4. Goto(r, "s_status") /\ rows' = rows
    BY <1>12 DEF SendRows
  <2> QED BY <1>0, <1>1, <2>3, <2>4, FiniteStep
<1>13. CASE SendStatus(r)
  <2> DEFINE l == IF work[r] = {} THEN "done" ELSE "writing"
  <2>1. Goto(r, l) /\ rows' = rows /\ work' = work
    BY <1>13 DEF SendStatus, locals
  <2>2. (l = "writing" => work[r] # {}) /\ l \notin {"losing", "leaked"}
    OBVIOUS
  <2> HIDE DEF l
  <2> QED BY <1>0, <1>1, <2>1, <2>2, FiniteStep
<1>14. CASE WriteRow(r) \/ LoseWrite(r)
  <2>1. PICK w \in work[r], l \in {"writing", "losing", "done", "failed"} :
          /\ work'[r] = work[r] \ {w} /\ Goto(r, l)
          /\ l \in {"writing", "losing"} => work[r] # {w}
          /\ rows' = rows \/ rows' = {x \in rows : ~SameRow(x, w)} \cup {w}
    BY <1>14 DEF WriteRow, LoseWrite, TypeOK
  <2>2. IsFiniteSet(work[r] \ {w})
    BY <1>0, FS_Difference
  <2>3. IsFiniteSet(rows')
    <3>1. IsFiniteSet({x \in rows : ~SameRow(x, w)})
      BY <1>4
    <3>2. IsFiniteSet({x \in rows : ~SameRow(x, w)} \union {w})
      BY <3>1, FS_AddElement
    <3> QED BY <1>0, <2>1, <3>2
  <2>4. l \in {"writing", "losing"} => work'[r] # {}
    BY <2>1
  <2> QED BY <1>1, <2>1, <2>2, <2>3, <2>4, FiniteStep
<1>15. CASE ReplySelect(r)
  <2>1. CASE End(r, "failed") /\ rows' = rows
    BY <1>0, <1>6, <2>1
  <2>2. CASE ~End(r, "failed")
    <3> DEFINE S == Answered(r)
    <3>1. PICK num : work'[r] = {[NewRow(r, r, x.party, "to", "inbox", "new")
                                    EXCEPT !.num = num[x]] : x \in S}
      <4>1. PICK num \in [S -> 1 .. Cardinality(S)] :
              work' = [work EXCEPT ![r] = {[NewRow(r, r, x.party, "to", "inbox", "new")
                                              EXCEPT !.num = num[x]] : x \in S}]
        BY <1>15, <2>2, ReplySelectCases
      <4>2. DOMAIN work = Requests
        BY DEF TypeOK
      <4> HIDE DEF S
      <4> QED BY <4>1, <4>2
    <3> DEFINE f == [x \in S |-> [NewRow(r, r, x.party, "to", "inbox", "new")
                                    EXCEPT !.num = num[x]]]
    <3>2. S \in SUBSET rows /\ DOMAIN f = S
      BY DEF Answered
    <3>4. {f[x] : x \in S} = work'[r]
      BY <3>1
    <3> HIDE DEF S, f
    <3>3. IsFiniteSet({f[x] : x \in S})
      BY <1>4, <3>2, ImageFinite
    <3>5. Goto(r, "r_sender") /\ rows' = rows
      BY <1>15, <2>2, ReplySelectCases
    <3> QED BY <1>0, <1>1, <3>3, <3>4, <3>5, FiniteStep
  <2>3. rows' = rows
    BY <1>15 DEF ReplySelect
  <2> QED BY <2>1, <2>2, <2>3
<1>16. CASE ReplySender(r)
  <2>1. IsFiniteSet(rows') /\ work' = work /\ Goto(r, "r_commit")
    BY <1>0, <1>2, <1>3, <1>16 DEF ReplySender, locals
  <2> QED BY <1>0, <1>1, <2>1, FiniteStep
<1>17. CASE MarkRows(r)
  <2> DEFINE c == call[r]
             S == {x \in rows :
                     /\ x.party = c.user /\ ~x.deleted
                     /\ c.arg = "thread" => x.thread = c.thread
                     /\ c.arg \notin {"thread", "missed"} => x.msg = c.msg}
             f == [x \in S |-> [x EXCEPT !.visibility =
                                  IF c.arg = "unread" THEN "unread" ELSE "read"]]
  <2>1. rows' = (rows \ S) \union {f[x] : x \in S}
    BY <1>17 DEF MarkRows
  <2>2. IsFiniteSet(rows \ S) /\ IsFiniteSet(S) /\ DOMAIN f = S
    BY <1>4
  <2> HIDE DEF S, f
  <2>3. IsFiniteSet({f[x] : x \in S})
    BY <2>2, ImageFinite
  <2>4. IsFiniteSet(rows')
    BY <1>3, <2>1, <2>2, <2>3
  <2> QED BY <1>6, <1>17, <2>4 DEF MarkRows
<1> QED
  BY <1>7, <1>8, <1>9, <1>10, <1>11, <1>12, <1>13, <1>14, <1>15, <1>16, <1>17 DEF Continue

LEMMA NextFinite ==
  ASSUME IsFiniteSet(Users), TypeOK, FiniteOK, [Next]_vars
  PROVE  FiniteOK'
<1>1. ASSUME NEW r \in Requests, Fail(r) PROVE FiniteOK'
  <2>1. /\ work'[r] = {} /\ Goto(r, "failed") /\ rows' = rows
        /\ \A q \in Requests \ {r} : work'[q] = work[q]
    BY <1>1 DEF Fail, End, Drop, TypeOK
  <2>2. IsFiniteSet({}) /\ IsFiniteSet(rows)
    BY FS_EmptySet DEF FiniteOK
  <2> QED BY <2>1, <2>2, FiniteStep
<1>2. ASSUME NEW r \in Requests, Leak(r) PROVE FiniteOK'
  <2>1. /\ Faults /\ Goto(r, "leaked") /\ rows' = rows
        /\ work'[r] = work[r] \/ work'[r] = {}
        /\ \A q \in Requests \ {r} : work'[q] = work[q]
    BY <1>2 DEF Leak, TypeOK
  <2>2. IsFiniteSet(work[r]) /\ IsFiniteSet(rows) /\ IsFiniteSet({})
    BY FS_EmptySet DEF FiniteOK
  <2> QED BY <2>1, <2>2, FiniteStep
<1>3. CASE UNCHANGED vars
  BY <1>3 DEF vars, FiniteOK
<1> QED BY <1>1, <1>2, <1>3, StartFinite, ContinueFinite DEF Next, Rest

LEMMA FiniteInvariance ==
  ASSUME IsFiniteSet(Users)
  PROVE  Spec => [](TypeOK /\ ControlOK /\ FiniteOK)
<1>1. Init => TypeOK /\ ControlOK /\ FiniteOK
  BY InitType, FS_EmptySet DEF Init, FiniteOK
<1>2. TypeOK /\ ControlOK /\ FiniteOK /\ [Next]_vars => (TypeOK /\ ControlOK /\ FiniteOK)'
  BY StepType, StepControl, NextFinite
<1> QED BY <1>1, <1>2, PTL DEF Spec

\* The step of a request takes it nearer to its end and leaves the others where
\* they are.
LEMMA StepAdvances ==
  ASSUME TypeOK, FiniteOK, NEW r \in Requests, Start(r) \/ Continue(r) \/ Fail(r) \/ Leak(r)
  PROVE  /\ Nearer(r)
         /\ \A q \in Requests \ {r} : pc'[q] = pc[q] /\ work'[q] = work[q]
<1>1. \A l \in {"writing", "losing"} : StatementsLeft(l) = 1
  BY DEF StatementsLeft, Ended
<1>2. CASE WriteRow(r) \/ LoseWrite(r)
  <2>1. PICK w \in work[r] :
          /\ work'[r] = work[r] \ {w} /\ pc[r] \in {"writing", "losing"}
          /\ pc'[r] \in {"writing", "losing", "done", "failed"}
          /\ \A q \in Requests \ {r} : pc'[q] = pc[q] /\ work'[q] = work[q]
    BY <1>2 DEF WriteRow, LoseWrite, Goto, TypeOK
  <2>2. Cardinality(work'[r]) < Cardinality(work[r])
    <3>1. IsFiniteSet(work[r]) /\ Cardinality(work[r]) \in Nat
      BY FS_CardinalityType DEF FiniteOK
    <3>2. Cardinality(work[r] \ {w}) = Cardinality(work[r]) - 1
      BY <3>1, FS_RemoveElement
    <3> QED BY <2>1, <3>1, <3>2
  <2>3. pc'[r] \in {"done", "failed"} => StatementsLeft(pc'[r]) < StatementsLeft(pc[r])
    BY <2>1 DEF StatementsLeft, Ended
  <2> QED BY <2>1, <2>2, <2>3 DEF Nearer
<1>3. CASE ~(WriteRow(r) \/ LoseWrite(r))
  <2>1. PICK l : Goto(r, l) /\ StatementsLeft(l) < StatementsLeft(pc[r])
    <3>1. CASE Start(r)
      <4>1. pc[r] = "idle"
        BY <3>1 DEF Start, Ready
      <4>2. \E l \in Labels : Goto(r, l)
        BY <3>1 DEF Start, Compose, Update, SendDraft, Reply, Forward, Trash, Delete, Restore,
                    Mark,
                    Fetch, Attachment, Labels
      <4>3. \A l \in Labels : StatementsLeft(l) < 7
        BY LeftByLabel DEF Labels
      <4> QED BY <4>1, <4>2, <4>3, LeftByLabel
    <3>2. CASE Continue(r)
      <4>1. CASE ComposeCount(r) \/ ComposeMessage(r) \/ ComposeRows(r)
        BY <4>1, LeftByLabel DEF ComposeCount, ComposeMessage, ComposeRows, At, End, Ended
      <4>2. CASE UpdateFiles(r) \/ UpdateLock(r) \/ UpdateScan(r) \/ UpdatePatch(r)
                 \/ UpdateMessage(r) \/ UpdateCommit(r)
        BY <4>2, LeftByLabel
        DEF UpdateFiles, UpdateLock, UpdateScan, UpdatePatch, UpdateMessage, UpdateCommit, At,
            End, Ended
      <4>3. CASE SendRows(r) \/ SendStatus(r)
        BY <4>3, LeftByLabel DEF SendRows, SendStatus, At, Ended
      <4>4. CASE ReplySelect(r)
        BY <4>4, ReplySelectCases, LeftByLabel DEF End, Ended
      <4>5. CASE ReplyMessage(r) \/ ReplySender(r) \/ ReplyCommit(r)
        BY <4>5, LeftByLabel DEF ReplyMessage, ReplySender, ReplyCommit, At, End, Ended
      <4>6. CASE ForwardCount(r) \/ ForwardCommit(r)
        BY <4>6, LeftByLabel DEF ForwardCount, ForwardCommit, At, End, Ended
      <4>7. CASE MarkRows(r) \/ AttachmentAdd(r) \/ AttachmentRemove(r)
        BY <4>7, LeftByLabel DEF MarkRows, AttachmentAdd, AttachmentRemove, At, End, Ended
      <4> QED
        BY <1>3, <3>2, <4>1, <4>2, <4>3, <4>4, <4>5, <4>6, <4>7 DEF Continue
    <3>3. CASE Fail(r) \/ Leak(r)
      BY <3>3, LeftByLabel DEF Fail, Leak, Busy, End, TypeOK, Labels, Ended
    <3> QED BY <3>1, <3>2, <3>3
  <2>2. \A q \in Requests : pc'[q] = IF q = r THEN l ELSE pc[q]
    BY <2>1 DEF Goto, TypeOK
  <2>3. \A q \in Requests \ {r} : work'[q] = work[q]
    BY <1>3
    DEF Start, Compose, Update, SendDraft, Reply, Forward, Trash, Delete, Restore, Mark, Fetch,
        Attachment, Continue, ComposeCount, ComposeMessage, ComposeRows, UpdateFiles,
        UpdateLock, UpdateScan, UpdatePatch,
        UpdateMessage, UpdateCommit, SendRows, SendStatus, ReplyMessage, ReplySelect,
        ReplySender, ReplyCommit, ForwardCount, ForwardCommit, MarkRows, AttachmentAdd,
        AttachmentRemove, Fail, Leak, End, Drop, locals, TypeOK
  <2> QED BY <2>1, <2>2, <2>3 DEF Nearer
<1> QED BY <1>2, <1>3

\* Whatever fails and interleaves, a handler makes finitely many steps, the more
\* of which it has made the fewer are left: a step of a request leads nearer to
\* its end, in statements and, where they run side by side, in rows to write, and
\* nobody else's step leads away from it.
THEOREM HandlersAdvance ==
  ASSUME IsFiniteSet(Users)
  PROVE  Spec => [][\A r \in Requests :
                      /\ Continue(r) => Nearer(r)
                      /\ Nearer(r) \/ (pc'[r] = pc[r] /\ work'[r] = work[r])]_vars
<1>1. ASSUME TypeOK, FiniteOK, Next, NEW r \in Requests
      PROVE  /\ Continue(r) => Nearer(r)
             /\ Nearer(r) \/ (pc'[r] = pc[r] /\ work'[r] = work[r])
  <2>1. CASE \E q \in Requests : Start(q) \/ Continue(q) \/ Fail(q) \/ Leak(q)
    <3>1. PICK q \in Requests : Start(q) \/ Continue(q) \/ Fail(q) \/ Leak(q)
      BY <2>1
    <3>2. CASE q = r
      BY <1>1, <3>1, <3>2, StepAdvances
    <3>3. CASE q # r
      <4>1. pc'[r] = pc[r] /\ work'[r] = work[r]
        BY <1>1, <3>1, <3>3, StepAdvances
      <4>2. Continue(r) => Nearer(r)
        BY <1>1, StepAdvances
      <4> QED BY <4>1, <4>2
    <3> QED BY <3>2, <3>3
  <2>2. CASE Rest
    <3>1. pc'[r] = pc[r] /\ work'[r] = work[r]
      BY <2>2 DEF Rest, vars
    <3>2. Continue(r) => Nearer(r)
      BY <1>1, StepAdvances
    <3> QED BY <3>1, <3>2
  <2> QED BY <1>1, <2>1, <2>2 DEF Next
<1>2. TypeOK /\ FiniteOK /\ [Next]_vars =>
        [\A r \in Requests :
           /\ Continue(r) => Nearer(r)
           /\ Nearer(r) \/ (pc'[r] = pc[r] /\ work'[r] = work[r])]_vars
  BY <1>1
<1> QED BY <1>2, FiniteInvariance, PTL DEF Spec

\* Without failures no handlers wait for each other, however many updates of
\* drafts, deliveries and marks overlap: while one is busy, what some busy one
\* waits for is free.  An update waits for rows while it holds the attachments it
\* has patched; but who holds rows waits for nothing, and who waits for rows is
\* kept from them only by one who holds rows.
THEOREM NobodyWaitsInVain ==
  ASSUME IsFiniteSet(Users), ~Faults
  PROVE  Spec => []((\E r \in Requests : Busy(r)) =>
                      \E r \in Requests : Busy(r) /\ Unblocked(r))
<1>1. ASSUME FiniteOK, NEW r \in Requests, Busy(r)
      PROVE  \E q \in Requests : Busy(q) /\ Unblocked(q)
  <2>1. CASE \E q \in Requests : HoldsLocks(q)
    <3>1. PICK q \in Requests : HoldsLocks(q)
      BY <2>1
    <3>2. pc[q] \in {"u_message", "u_commit"}
      BY <1>1, <3>1 DEF HoldsLocks, FiniteOK
    <3> QED BY <3>2 DEF Busy, Ended, Unblocked
  <2>2. CASE /\ ~\E q \in Requests : HoldsLocks(q)
             /\ \E q \in Requests : HoldsFiles(q)
    <3>1. PICK q \in Requests : HoldsFiles(q)
      BY <2>2
    <3>2. pc[q] \in {"u_scan", "u_patch"} /\ \A x : ~Locked(x)
      BY <2>2, <3>1 DEF HoldsFiles, Locked
    <3> QED BY <3>2 DEF Busy, Ended, Unblocked
  <2>3. CASE ~\E q \in Requests : HoldsFiles(q)
    <3>1. (\A x : ~Locked(x)) /\ (\A f : ~LockedFile(f))
      BY <2>3 DEF Locked, LockedFile, HoldsFiles
    <3> QED BY <1>1, <3>1 DEF Unblocked, FiniteOK
  <2> QED BY <2>1, <2>2, <2>3
<1>2. FiniteOK =>
        ((\E r \in Requests : Busy(r)) => \E r \in Requests : Busy(r) /\ Unblocked(r))
  BY <1>1
<1> QED BY <1>2, FiniteInvariance, PTL
=============================================================================
