------------------------------- MODULE InMail -------------------------------
(***************************************************************************)
(* The in-mail service: composing, updating, sending, answering,           *)
(* forwarding and filing mails (originator, reply-and-forward and          *)
(* collector controllers) over the tables thread, message, group and       *)
(* attachment.  A request takes one step for each database statement its   *)
(* handler awaits, so the steps of concurrent requests interleave as they  *)
(* do on the server; a transaction shows its rows when it commits.         *)
(*                                                                         *)
(* Requests are numbered in the order they start and run once, so the      *)
(* number of a request also names the thread and the message it creates.   *)
(* A meta row lives and dies as an attachment row does, cc and bcc as to,  *)
(* isImportant is written as visibility is; subjects, bodies and external  *)
(* ids are left out.  A call the handler rejects before it changes         *)
(* anything is a call that was not made.                                   *)
(***************************************************************************)
EXTENDS Naturals, FiniteSets

CONSTANTS
  Users,        \* the parties of the mails
  MaxRequests,  \* bound: how many requests the clients issue in all
  MaxInFlight,  \* bound: how many of them are handled at the same time
  Calls,        \* the <<operation, argument>> pairs the clients issue
  Audiences,    \* the sets of recipients a client addresses
  SelfMail,     \* whether clients also address mails to themselves
  WithFile,     \* whether a body may carry an attachment: a set of Booleans
  FilterColumns,\* the where clauses' own columns that clients' filters name
  SerialUsers,  \* a user waits for the answer before the next request
  Faults        \* statements fail and servers crash

Requests == 1 .. MaxRequests
Storages == {"draft", "send", "inbox", "trash"}   \* StorageMarker
AllCalls ==
  ({"compose", "update", "reply", "forward"} \X {"draft", "send"})
    \cup ({"trash", "delete"} \X Storages)
    \cup {<<"sendDraft", "draft">>, <<"restore", "trash">>}
    \cup ({"mark"} \X {"read", "unread"})
    \cup ({"fetch"} \X {"mail", "missed", "thread"})
    \cup ({"attachment"} \X {"add", "remove"})

\* Of the group table, and of the message table.
Columns == {"storage", "party", "messageId"} \cup {"status", "id"}

ASSUME BoundsAssumption == MaxRequests \in Nat /\ MaxInFlight \in Nat
ASSUME CallsAssumption == Calls \subseteq AllCalls
ASSUME AudiencesAssumption == Audiences \subseteq SUBSET Users
ASSUME FilterAssumption == FilterColumns \subseteq Columns
ASSUME SwitchesAssumption ==
  /\ SelfMail \in BOOLEAN /\ WithFile \subseteq BOOLEAN
  /\ SerialUsers \in BOOLEAN /\ Faults \in BOOLEAN

VARIABLES
  count,     \* thread table: messageCounts of each thread, 0 if there is none
  message,   \* message table
  rows,      \* group table: what each party holds of each message
  files,     \* attachment table
  pc,        \* the statement each handler is at
  call,      \* what each request asks for
  work,      \* group rows a handler has read, locked or is about to write
  workFiles, \* attachment rows its transaction has read or locked
  seenCount  \* messageCounts as incrementOrCreate read it

locals == <<work, workFiles, seenCount>>
vars == <<count, message, rows, files, pc, call, work, workFiles, seenCount>>

-----------------------------------------------------------------------------
(* The tables. *)

NoMessage == [status |-> "none", thread |-> 0, markedTo |-> {}]
NoCall == [op |-> "none", arg |-> "none"]

Exists(m) == message[m].status # "none"
IsDraftUnchecked(m) == Exists(m)   \* mutant: the status is not looked at
IsDraft(m) == message[m].status = "draft"
ThreadOfOwn(m) == m   \* mutant: every message is taken for the first of a thread
ThreadOf(m) == message[m].thread
Live(m) == {x \in rows : x.msg = m /\ ~x.deleted}
LiveFiles(m) == {f \in files : f.msg = m /\ ~f.deleted}

Deleted(x) == [x EXCEPT !.deleted = TRUE]

\* A row keeps the identity of its creation through every update.
SameRow(x, y) ==
  /\ x.req = y.req /\ x.num = y.num
  /\ x.party = y.party /\ x.type = y.type

NewRow(r, m, p, ty, st, vis) ==
  [req |-> r, num |-> 0, party |-> p, type |-> ty, msg |-> m,
   thread |-> call[r].thread, storage |-> st, visibility |-> vis,
   deleted |-> FALSE]

AuthorRowSent(r, m, vis) ==        \* mutant: a storage that is none
  NewRow(r, m, call[r].user, "from", "sent", vis)
AuthorRow(r, m, vis) ==
  NewRow(r, m, call[r].user, "from",
         IF call[r].arg = "draft" THEN "draft" ELSE "send", vis)

\* A draft names its recipients in markedTo and has no rows for them.
RecipientRowsAtOnce(r, m) ==       \* mutant: a draft has them too
  {NewRow(r, m, p, "to", "inbox", "new") : p \in call[r].to}
RecipientRows(r, m) ==
  IF call[r].arg = "draft" THEN {}
  ELSE {NewRow(r, m, p, "to", "inbox", "new") : p \in call[r].to}

BodyFiles(r, m) ==
  IF call[r].file THEN {[req |-> r, msg |-> m, deleted |-> FALSE]} ELSE {}

-----------------------------------------------------------------------------
(* Requests: their life, and the row locks of an open transaction. *)

Ended == {"done", "failed", "leaked"}
Busy(r) == pc[r] \notin Ended \cup {"idle"}

\* updateDraft's transaction has patched the old rows and not committed; it has
\* patched the attachments already while it is about to patch the rows.
HoldsWhileWaiting(r) ==            \* mutant: it locks before it waits
  pc[r] \in {"u_patch", "u_message", "u_commit", "leaked"}
HoldsLocks(r) == pc[r] \in {"u_message", "u_commit", "leaked"}
HoldsFiles(r) == HoldsLocks(r) \/ pc[r] \in {"u_scan", "u_patch"}
Locked(x) == \E q \in Requests : HoldsLocks(q) /\ \E y \in work[q] : SameRow(x, y)
LockedFile(f) == \E q \in Requests : HoldsFiles(q) /\ f \in workFiles[q]

\* A client names the messages it has, or had, a row of.
Knows(u, m) == Exists(m) /\ \E x \in rows : x.party = u /\ x.msg = m
KnowsThread(u, t) == count[t] > 0 /\ \E x \in rows : x.party = u /\ x.thread = t

\* The filter of a request is assigned over the where clause of the handler: a
\* column it names asks for what the client wants, any other column only narrows
\* the clause.  Clients name the columns of FilterColumns.
Overridden(column) == column \in FilterColumns

Addressed(u) == {to \in Audiences : SelfMail \/ u \notin to}

Request(o, a, u, m, t, to, f, all) ==
  [op |-> o, arg |-> a, user |-> u, msg |-> m, thread |-> t, to |-> to,
   file |-> f, all |-> all]
About(o, a, u, m) == Request(o, a, u, m, ThreadOf(m), {}, FALSE, FALSE)

\* A handler starts.  With SerialUsers no other request of the user waits for
\* its answer; one that has failed answers while its other writes still run.
Ready(r) ==
  /\ pc[r] = "idle" /\ \A q \in 1 .. (r - 1) : pc[q] # "idle"
  /\ Cardinality({q \in Requests : Busy(q)}) < MaxInFlight
Begin(r, c) ==
  /\ <<c.op, c.arg>> \in Calls
  /\ SerialUsers =>
       \A q \in Requests : Busy(q) /\ pc[q] # "losing" => call[q].user # c.user
  /\ call' = [call EXCEPT ![r] = c]

At(r, l) == pc[r] = l
Goto(r, l) == pc' = [pc EXCEPT ![r] = l]
Drop(r) ==
  /\ work' = [work EXCEPT ![r] = {}]
  /\ workFiles' = [workFiles EXCEPT ![r] = {}]
  /\ seenCount' = [seenCount EXCEPT ![r] = 0]
End(r, l) == Goto(r, l) /\ Drop(r)

-----------------------------------------------------------------------------
(* composeMail: incrementOrCreate, then createRelational, whose message row *)
(* is written outside the transaction that writes the other rows.           *)

Compose(r) ==
  \E u \in Users : \E s \in {"draft", "send"}, t \in Requests,
     to \in Addressed(u) \ {{}}, f \in WithFile :
    /\ Begin(r, Request("compose", s, u, r, t, to, f, FALSE))
    /\ \/ /\ t = r
          /\ count' = [count EXCEPT ![r] = 1]
          /\ Goto(r, "c_message") /\ UNCHANGED seenCount
       \/ /\ KnowsThread(u, t)
          /\ seenCount' = [seenCount EXCEPT ![r] = count[t]]
          /\ Goto(r, "c_count") /\ UNCHANGED count
    /\ UNCHANGED <<message, rows, files, work, workFiles>>

\* The second half of incrementOrCreate writes the count it read plus one.
IncrementedTwice(r) == seenCount[r] + 2   \* mutant: both halves count
Incremented(r) == seenCount[r] + 1

ComposeCount(r) ==
  /\ At(r, "c_count")
  /\ count' = [count EXCEPT ![call[r].thread] = Incremented(r)]
  /\ Goto(r, "c_message")
  /\ UNCHANGED <<message, rows, files, call, locals>>

ComposeMessage(r) ==
  /\ At(r, "c_message")
  /\ message' = [message EXCEPT ![r] =
       [status |-> call[r].arg, thread |-> call[r].thread,
        markedTo |-> IF call[r].arg = "draft" THEN call[r].to ELSE {}]]
  /\ Goto(r, "c_rows")
  /\ UNCHANGED <<count, rows, files, call, locals>>

ComposeRows(r) ==
  /\ At(r, "c_rows")
  /\ rows' = rows \cup {AuthorRow(r, r, "read")} \cup RecipientRows(r, r)
  /\ files' = files \cup BodyFiles(r, r)
  /\ End(r, "done")
  /\ UNCHANGED <<count, message, call>>

-----------------------------------------------------------------------------
(* updateDraft: a transaction replaces the rows of a draft.                 *)

Update(r) ==
  \E u \in Users : \E s \in {"draft", "send"}, m \in Requests,
     to \in Addressed(u), f \in WithFile :
    /\ Begin(r, Request("update", s, u, m, ThreadOf(m), to, f, FALSE))
    /\ Knows(u, m) /\ IsDraft(m)
    /\ Goto(r, "u_files")
    /\ UNCHANGED <<count, message, rows, files, locals>>

\* Each patch is a statement of its own.  It starts with the rows committed by
\* then, waits for the locks of other transactions and skips what they deleted;
\* what they added is not in its snapshot.  The attachments come first.
ReplacedRecipients(m) == {x \in Live(m) : x.type = "to"}   \* mutant
Replaced(m) == Live(m)

UpdateFiles(r) ==
  /\ At(r, "u_files")
  /\ workFiles' = [workFiles EXCEPT ![r] = LiveFiles(call[r].msg)]
  /\ Goto(r, "u_lock")
  /\ UNCHANGED <<count, message, rows, files, call, work, seenCount>>

UpdateLock(r) ==
  /\ At(r, "u_lock")
  /\ \A f \in workFiles[r] : ~LockedFile(f)
  /\ workFiles' = [workFiles EXCEPT ![r] = @ \cap files]
  /\ Goto(r, "u_scan")
  /\ UNCHANGED <<count, message, rows, files, call, work, seenCount>>

UpdateScan(r) ==
  /\ At(r, "u_scan")
  /\ work' = [work EXCEPT ![r] = Replaced(call[r].msg)]
  /\ Goto(r, "u_patch")
  /\ UNCHANGED <<count, message, rows, files, call, workFiles, seenCount>>

UpdatePatch(r) ==
  LET old == {x \in Live(call[r].msg) : \E y \in work[r] : SameRow(x, y)} IN
  /\ At(r, "u_patch")
  /\ \A x \in work[r] : ~Locked(x)
  /\ work' = [work EXCEPT ![r] = old]
  /\ Goto(r, "u_message")
  /\ UNCHANGED <<count, message, rows, files, call, workFiles, seenCount>>

\* Outside the transaction, and the status stays as it was.
UpdateMessage(r) ==
  /\ At(r, "u_message")
  /\ message' =
       IF call[r].arg = "draft"
       THEN [message EXCEPT ![call[r].msg].markedTo = call[r].to] ELSE message
  /\ Goto(r, "u_commit")
  /\ UNCHANGED <<count, rows, files, call, locals>>

UpdateCommit(r) ==
  /\ At(r, "u_commit")
  /\ rows' = (rows \ work[r])
       \cup {Deleted(x) : x \in work[r]}
       \cup {AuthorRow(r, call[r].msg, "new")} \cup RecipientRows(r, call[r].msg)
  /\ files' = (files \ workFiles[r])
       \cup {Deleted(f) : f \in workFiles[r]}
       \cup BodyFiles(r, call[r].msg)
  /\ End(r, "done")
  /\ UNCHANGED <<count, message, call>>

-----------------------------------------------------------------------------
(* sendDraft: no transaction; the row writes run side by side.              *)

\* findOne: the recipients marked at this time are the ones to be created.  The
\* message found need not be a draft, nor the one the path names.
SendDraft(r) ==
  \E u \in Users, m \in Requests :
    /\ Begin(r, Request("sendDraft", "draft", u, m, ThreadOf(m),
                        message[m].markedTo, FALSE, FALSE))
    /\ Knows(u, m) /\ (IsDraft(m) \/ Overridden("status"))
    /\ Goto(r, "s_rows")
    /\ UNCHANGED <<count, message, rows, files, locals>>

\* The rows are those of the message in the path.  The author's are to be
\* updated.  A recipient row that is there already is handed to create with its
\* id, which create refuses.
SendRows(r) ==
  \E m \in Requests :
    /\ At(r, "s_rows")
    /\ m = call[r].msg \/ (Overridden("id") /\ Knows(call[r].user, m))
    /\ work' = [work EXCEPT ![r] =
         {IF x.type = "from" THEN [x EXCEPT !.storage = "send"] ELSE x : x \in Live(m)}
         \cup {NewRow(r, call[r].msg, p, "to", "inbox", "new") : p \in call[r].to}]
    /\ Goto(r, "s_status")
    /\ UNCHANGED <<count, message, rows, files, call, workFiles, seenCount>>

SendStatusOnly(r) ==   \* mutant: answers before the rows are written
  /\ At(r, "s_status")
  /\ message' = [message EXCEPT ![call[r].msg].status = "send"]
  /\ Goto(r, "done")
  /\ UNCHANGED <<count, rows, files, call, locals>>

SendStatus(r) ==
  /\ At(r, "s_status")
  /\ message' = [message EXCEPT ![call[r].msg].status = "send"]
  /\ Goto(r, IF work[r] = {} THEN "done" ELSE "writing")
  /\ UNCHANGED <<count, rows, files, call, locals>>

Refused(r, w) == call[r].op = "sendDraft" /\ w.type = "to" /\ w.req # r

\* One of the writes a handler awaits together: the row as the handler holds
\* it, every column of it.
WriteRow(r) ==
  \E w \in work[r] :
    /\ pc[r] \in {"writing", "losing"}
    /\ ~Locked(w) /\ ~Refused(r, w)
    /\ rows' = {x \in rows : ~SameRow(x, w)} \cup {w}
    /\ work' = [work EXCEPT ![r] = @ \ {w}]
    /\ Goto(r, IF work[r] # {w} THEN pc[r]
               ELSE IF pc[r] = "losing" THEN "failed" ELSE "done")
    /\ UNCHANGED <<count, message, files, call, workFiles, seenCount>>

\* One of them fails: the request answers with the error, the others go on.
LoseWrite(r) ==
  \E w \in work[r] :
    /\ pc[r] \in {"writing", "losing"}
    /\ Faults \/ Refused(r, w)
    /\ work' = [work EXCEPT ![r] = @ \ {w}]
    /\ Goto(r, IF work[r] = {w} THEN "failed" ELSE "losing")
    /\ UNCHANGED <<count, message, rows, files, call, workFiles, seenCount>>

-----------------------------------------------------------------------------
(* replyMail *)

Reply(r) ==
  \E u \in Users, s \in {"draft", "send"}, m \in Requests,
     all \in BOOLEAN, f \in WithFile :
    /\ Begin(r, Request("reply", s, u, m, ThreadOf(m), message[m].markedTo, f, all))
    /\ Knows(u, m) /\ (SelfMail \/ all \/ call[m].user # u)
    /\ Goto(r, "r_message")
    /\ UNCHANGED <<count, message, rows, files, locals>>

\* The new message inherits the metadata of the one it answers.
ReplyMessage(r) ==
  /\ At(r, "r_message")
  /\ message' = [message EXCEPT ![r] =
       [status |-> call[r].arg, thread |-> call[r].thread, markedTo |-> call[r].to]]
  /\ Goto(r, "r_select")
  /\ UNCHANGED <<count, rows, files, call, locals>>

\* The raw SELECT does not look at the column deleted.  New ids are arbitrary.
ReplySelect(r) ==
  LET found == {x \in rows :
        /\ x.msg = call[r].msg /\ x.thread = call[r].thread
        /\ IF call[r].all THEN x.party # call[r].user
                          ELSE x.party = call[call[r].msg].user}
  IN
  /\ At(r, "r_select")
  /\ files' = files \cup BodyFiles(r, r)
  /\ \/ /\ found = {}
        /\ End(r, "failed")
     \/ /\ found # {}
        /\ \E num \in [found -> 1 .. Cardinality(found)] :
             /\ \A x, y \in found : num[x] = num[y] => x = y
             /\ work' = [work EXCEPT ![r] =
                  {[NewRow(r, r, x.party, "to", "inbox", "new") EXCEPT !.num = num[x]]
                     : x \in found}]
        /\ Goto(r, "r_sender") /\ UNCHANGED <<workFiles, seenCount>>
  /\ UNCHANGED <<count, message, rows, call>>

\* The sender's row is written outside the transaction of the others.
ReplySender(r) ==
  /\ At(r, "r_sender")
  /\ rows' = rows \cup {AuthorRow(r, r, "new")}
  /\ Goto(r, "r_commit")
  /\ UNCHANGED <<count, message, files, call, locals>>

ReplyCommit(r) ==
  /\ At(r, "r_commit")
  /\ rows' = rows \cup work[r]
  /\ End(r, "done")
  /\ UNCHANGED <<count, message, files, call>>

-----------------------------------------------------------------------------
(* forward: one transaction, except that it reads the count outside.        *)

Forward(r) ==
  \E u \in Users : \E s \in {"draft", "send"}, t \in Requests,
     to \in Addressed(u), f \in WithFile :
    /\ Begin(r, Request("forward", s, u, r, t, to, f, FALSE))
    /\ KnowsThread(u, t)
    /\ Goto(r, "f_count")
    /\ UNCHANGED <<count, message, rows, files, locals>>

ForwardCount(r) ==
  /\ At(r, "f_count")
  /\ seenCount' = [seenCount EXCEPT ![r] = count[call[r].thread]]
  /\ Goto(r, "f_commit")
  /\ UNCHANGED <<count, message, rows, files, call, work, workFiles>>

\* The recipients' rows take the default storage, a draft's too.
ForwardCommit(r) ==
  /\ At(r, "f_commit")
  /\ message' = [message EXCEPT ![r] =
       [status |-> call[r].arg, thread |-> call[r].thread, markedTo |-> {}]]
  /\ rows' = rows \cup {AuthorRow(r, r, "new")}
       \cup {NewRow(r, r, p, "to", "inbox", "new") : p \in call[r].to}
  /\ files' = files \cup BodyFiles(r, r)
  /\ count' = [count EXCEPT ![call[r].thread] = Incremented(r)]
  /\ End(r, "done")
  /\ UNCHANGED call

-----------------------------------------------------------------------------
(* Filing: trashBulk, restore, markMail, fetchById and fetchThreadById.     *)

\* The rows that the where clause of trashBulk or restore may stand for.
FiledBefore(u, m, st) ==   \* mutant: what was deleted is found too
  {x \in rows : x.msg = m /\ x.party = u}
Filed(u, m, st) == {x \in rows :
  /\ ~x.deleted
  /\ x.msg = m \/ Overridden("messageId")
  /\ x.party = u \/ Overridden("party")
  /\ x.storage = st \/ Overridden("storage")}

TrashedAsNew(x) ==     \* mutant: the other columns go back to their defaults
  [x EXCEPT !.storage = "trash", !.visibility = "new", !.deleted = FALSE]
Trashed(x) == [x EXCEPT !.storage = "trash", !.deleted = FALSE]

RestoredToInbox(x) == [x EXCEPT !.storage = "inbox"]   \* mutant
Restored(x) == [x EXCEPT !.storage = IF x.type = "to" THEN "inbox" ELSE "send"]

Trash(r) ==
  \E u \in Users, m \in Requests, st \in Storages \ {"trash", "draft"} :
    /\ Begin(r, About("trash", st, u, m))
    /\ Knows(u, m)
    /\ \E found \in (SUBSET Filed(u, m, st)) \ {{}} :
         work' = [work EXCEPT ![r] = {Trashed(x) : x \in found}]
    /\ Goto(r, "writing")
    /\ UNCHANGED <<count, message, rows, files, workFiles, seenCount>>

Delete(r) ==
  \E u \in Users, m \in Requests, st \in {"trash", "draft"} :
    /\ Begin(r, About("delete", st, u, m))
    /\ Knows(u, m)
    /\ \E found \in (SUBSET Filed(u, m, st)) \ {{}} :
         work' = [work EXCEPT ![r] = {Deleted(x) : x \in found}]
    /\ Goto(r, "writing")
    /\ UNCHANGED <<count, message, rows, files, workFiles, seenCount>>

Restore(r) ==
  \E u \in Users, m \in Requests :
    /\ Begin(r, About("restore", "trash", u, m))
    /\ Knows(u, m)
    /\ \E found \in (SUBSET Filed(u, m, "trash")) \ {{}} :
         work' = [work EXCEPT ![r] = {Restored(x) : x \in found}]
    /\ Goto(r, "writing")
    /\ UNCHANGED <<count, message, rows, files, workFiles, seenCount>>

\* markMail updates the user's rows of the message; fetching a mail or a thread
\* first checks that there is one and then marks them read.  The mail is looked
\* up with the filter: it may be another one, or none ("missed").
Mark(r) ==
  \E u \in Users, m \in Requests, a \in {"read", "unread"} :
    /\ Begin(r, About("mark", a, u, m))
    /\ Knows(u, m)
    /\ Goto(r, "m_rows")
    /\ UNCHANGED <<count, message, rows, files, locals>>

Fetch(r) ==
  \E u \in Users, m \in Requests, a \in {"mail", "missed", "thread"} :
    /\ Begin(r, About("fetch", a, u, m))
    /\ Knows(u, m)
    /\ \E x \in rows :
         /\ x.party = u /\ ~x.deleted
         /\ IF a = "thread" THEN x.thread = message[m].thread
            ELSE x.msg = m \/ Overridden("id")
    /\ Goto(r, "m_rows")
    /\ UNCHANGED <<count, message, rows, files, locals>>

\* Without a message the update names no message: every row of the user is
\* marked, and the request answers that there is no such mail.
MarkRows(r) ==
  LET c == call[r]
      marked == {x \in rows :
        /\ x.party = c.user /\ ~x.deleted
        /\ c.arg = "thread" => x.thread = c.thread
        /\ c.arg \notin {"thread", "missed"} => x.msg = c.msg}
  IN
  /\ At(r, "m_rows")
  /\ \A x \in marked : ~Locked(x)
  /\ rows' = (rows \ marked) \cup
       {[x EXCEPT !.visibility = IF c.arg = "unread" THEN "unread" ELSE "read"] :
          x \in marked}
  /\ End(r, IF c.arg = "missed" THEN "failed" ELSE "done")
  /\ UNCHANGED <<count, message, files, call>>

-----------------------------------------------------------------------------
(* addAttachment and removeAttachment: check the draft, then write.  The    *)
(* status is looked at after the message has been found, whatever filter    *)
(* found it; add writes to that message, remove to the one in the path.     *)

Attachment(r) ==
  \E u \in Users, m \in Requests, a \in {"add", "remove"} :
    /\ Begin(r, Request("attachment", a, u, m, ThreadOf(m), {}, a = "add", FALSE))
    /\ Knows(u, m)
    /\ \E k \in Requests :
         /\ IsDraft(k)
         /\ k = m \/ (a = "remove" /\ Overridden("id") /\ Knows(u, k))
    /\ Goto(r, IF a = "add" THEN "a_add" ELSE "a_remove")
    /\ UNCHANGED <<count, message, rows, files, locals>>

AttachmentAdd(r) ==
  /\ At(r, "a_add")
  /\ files' = files \cup BodyFiles(r, call[r].msg)
  /\ End(r, "done")
  /\ UNCHANGED <<count, message, rows, call>>

\* Whatever attachment the path names, every one of the message is patched.
AttachmentRemove(r) ==
  LET old == LiveFiles(call[r].msg) IN
  /\ At(r, "a_remove")
  /\ \A f \in old : ~LockedFile(f)
  /\ files' = (files \ old) \cup {Deleted(f) : f \in old}
  /\ End(r, "done")
  /\ UNCHANGED <<count, message, rows, call>>

-----------------------------------------------------------------------------
(* Faults, and the specification. *)

\* The server crashes or a statement fails: what was committed stays, an open
\* transaction is rolled back.
Fail(r) ==
  /\ Faults /\ Busy(r)
  /\ End(r, "failed")
  /\ UNCHANGED <<count, message, rows, files, call>>

\* updateDraft has no handler for an error after beginTransaction: the
\* transaction stays open, with its locks.
Leak(r) ==
  /\ Faults /\ pc[r] \in {"u_scan", "u_patch", "u_message", "u_commit"}
  /\ work' = [work EXCEPT ![r] = IF HoldsLocks(r) THEN @ ELSE {}]
  /\ Goto(r, "leaked")
  /\ UNCHANGED <<count, message, rows, files, call, workFiles, seenCount>>

Start(r) ==
  /\ Ready(r)
  /\ \/ Compose(r) \/ Update(r) \/ SendDraft(r) \/ Reply(r) \/ Forward(r)
     \/ Trash(r) \/ Delete(r) \/ Restore(r) \/ Mark(r) \/ Fetch(r)
     \/ Attachment(r)

Continue(r) ==
  \/ ComposeCount(r) \/ ComposeMessage(r) \/ ComposeRows(r)
  \/ UpdateFiles(r) \/ UpdateLock(r) \/ UpdateScan(r) \/ UpdatePatch(r)
  \/ UpdateMessage(r) \/ UpdateCommit(r)
  \/ SendRows(r) \/ SendStatus(r) \/ WriteRow(r) \/ LoseWrite(r)
  \/ ReplyMessage(r) \/ ReplySelect(r) \/ ReplySender(r) \/ ReplyCommit(r)
  \/ ForwardCount(r) \/ ForwardCommit(r)
  \/ MarkRows(r) \/ AttachmentAdd(r) \/ AttachmentRemove(r)

\* The clients have nothing more to ask.
Rest == (\A r \in Requests : pc[r] = "idle" \/ pc[r] \in Ended) /\ UNCHANGED vars

Init ==
  /\ count = [t \in Requests |-> 0]
  /\ message = [m \in Requests |-> NoMessage]
  /\ rows = {} /\ files = {}
  /\ pc = [r \in Requests |-> "idle"]
  /\ call = [r \in Requests |-> NoCall]
  /\ work = [r \in Requests |-> {}]
  /\ workFiles = [r \in Requests |-> {}]
  /\ seenCount = [r \in Requests |-> 0]

Next == Rest \/ \E r \in Requests : Start(r) \/ Continue(r) \/ Fail(r) \/ Leak(r)

Spec == Init /\ [][Next]_vars

\* A handler that can take its next statement takes it in the end.
FairSpec == Spec /\ \A r \in Requests : WF_vars(Continue(r))

-----------------------------------------------------------------------------
(* Properties. *)

RowType ==
  [req : Requests, num : Nat, party : Users, type : {"from", "to"},
   msg : Requests, thread : Requests, storage : Storages,
   visibility : {"new", "read", "unread"}, deleted : BOOLEAN]
FileType == [req : Requests, msg : Requests, deleted : BOOLEAN]
MessageType ==
  [status : {"draft", "send"}, thread : Requests, markedTo : SUBSET Users]
Ops == {"compose", "update", "sendDraft", "reply", "forward", "trash", "delete",
        "restore", "mark", "fetch", "attachment"}
Args ==
  Storages \cup {"read", "unread", "mail", "missed", "thread", "add", "remove"}
CallType ==
  [op : Ops, arg : Args, user : Users, msg : Requests, thread : Requests,
   to : SUBSET Users, file : BOOLEAN, all : BOOLEAN]
Labels ==
  {"c_count", "c_message", "c_rows", "u_files", "u_lock", "u_scan", "u_patch",
   "u_message", "u_commit", "s_rows", "s_status", "writing", "losing",
   "r_message", "r_select", "r_sender", "r_commit", "f_count", "f_commit", "m_rows",
   "a_add", "a_remove"}

\* Every table and every local of a handler holds values of its type, and a
\* request that has started has a call.
TypeOK ==
  /\ count \in [Requests -> Nat]
  /\ message \in [Requests -> {NoMessage} \cup MessageType]
  /\ rows \subseteq RowType
  /\ files \subseteq FileType
  /\ pc \in [Requests -> Labels \cup Ended \cup {"idle"}]
  /\ call \in [Requests -> {NoCall} \cup CallType]
  /\ \A r \in Requests : pc[r] # "idle" => call[r] \in CallType
  /\ work \in [Requests -> SUBSET RowType]
  /\ workFiles \in [Requests -> SUBSET FileType]
  /\ seenCount \in [Requests -> Nat]

\* group has a thread column of its own, filled from the body, the message or
\* the path by the different handlers and bound by no composite key: a row
\* names the thread its message is in, and that thread has been created.
ThreadAgreement ==
  \A x \in rows : /\ Exists(x.msg)
                  /\ x.thread = message[x.msg].thread
                  /\ count[x.thread] > 0

\* However drafting, sending, trashing and restoring interleave, the author of
\* a mail never finds it in the inbox as a recipient does, and a recipient
\* never finds a received mail among drafts or sent mails.
StorageFitsType ==
  \A x \in rows : x.storage \in
    IF x.type = "to" THEN {"inbox", "trash"} ELSE {"draft", "send", "trash"}

\* As long as a message is a draft, its author is the only one to hold a row
\* of it, in the draft storage.
DraftIsPrivate ==
  \A x \in rows :
    message[x.msg].status = "draft" => x.type = "from" /\ x.storage = "draft"

\* Each party's copy of a message lives the life Mailbox allows it: nothing
\* deleted comes back, nothing skips the trash, everything returns to the
\* storage it came from.
Held == {[id |-> <<x.req, x.num, x.party>>, type |-> x.type,
          place |-> IF x.deleted THEN "gone" ELSE x.storage] : x \in rows}
Copies == INSTANCE Mailbox WITH held <- Held, Choosy <- Overridden("storage")
MailboxSpec == Copies!Spec

\* A message is listed at most once in its author's folders.
OneAuthorRow ==
  \A m \in Requests : Cardinality({x \in Live(m) : x.type = "from"}) <= 1

\* Nobody receives the same message twice.
AtMostOnce ==
  \A m \in Requests, u \in Users :
    Cardinality({x \in Live(m) : x.party = u /\ x.type = "to"}) <= 1

\* When sendDraft has answered, the mail is with everyone the draft was marked
\* to and with nobody else, and is out of the author's drafts.
SendDelivers ==
  \A r \in Requests : pc[r] = "done" /\ call[r].op = "sendDraft" =>
    LET m == call[r].msg IN
    /\ message[m].status = "send"
    /\ {x.party : x \in {y \in rows : y.msg = m /\ y.type = "to"}} = message[m].markedTo
    /\ \A x \in Live(m) : x.storage # "draft"

\* A thread never claims more messages than have been put into it by composing
\* and forwarding, the ones being inserted included.
CountNeverOverstates ==
  \A t \in Requests :
    count[t] <= Cardinality({r \in Requests :
      /\ call[r].op \in {"compose", "forward"} /\ call[r].thread = t
      /\ pc[r] \notin {"c_count", "f_count", "f_commit"}})

\* A mail that has been opened never shows as new again: marking, trashing,
\* restoring and sending write whole rows back.
ReadStaysRead ==
  [][\A x \in rows, y \in rows' :
       SameRow(x, y) /\ y.visibility = "new" => x.visibility = "new"]_rows

\* Once somebody holds a row of it, the attachments of a message stay what
\* they were when it was sent.
Delivered(m) == \E x \in rows : x.msg = m /\ x.type = "to"
AttachmentsFrozen ==
  [][\A m \in Requests : Delivered(m) => LiveFiles(m)' = LiveFiles(m)]_<<rows, files>>

\* What README.md says of the status of an updated draft: "Draft if you don't
\* want to send message Now, otherwise, send".
UpdateSends ==
  \A r \in Requests :
    pc[r] = "done" /\ call[r].op = "update" /\ call[r].arg = "send" =>
      message[call[r].msg].status = "send"

\* updateDraft calls its patch "removing previous mails": what it removed is
\* not answered, so a reply to the sender reaches each party once.
ReplyArrivesOnce ==
  \A r \in Requests, u \in Users :
    pc[r] = "done" /\ call[r].op = "reply" =>
      Cardinality({x \in rows : x.req = r /\ x.type = "to" /\ x.party = u}) <= 1

\* Every request gets its answer: no handler waits for ever, for a row lock or
\* otherwise.
EveryRequestEnds ==
  \A r \in Requests : Busy(r) ~> pc[r] \in Ended
=============================================================================
