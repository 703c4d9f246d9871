------------------------- MODULE InMailDraftProofs -------------------------
(***************************************************************************)
(* What is proved of drafts, of the author's row and of what is sent.      *)
(* Nobody but the author holds a row of a draft as long as the clients     *)
(* stay clear of the three calls that break it in the code: updating a     *)
(* draft with the status send, and answering and forwarding as a draft.    *)
(* sendDraft collects the rows of the recipients before it changes the     *)
(* status, and writes them after, so what it holds in between is the point *)
(* of the invariant.  When a user waits for the answer of one call before  *)
(* the next one, the author also has one row of his message, sendDraft     *)
(* reaches whoever was marked, and a sent mail keeps its attachments.      *)
(* When no statement is lost besides, the service implements Mailbox; and  *)
(* when nobody writes to himself and no draft is updated, a mail comes     *)
(* once to each party.                                                     *)
(***************************************************************************)
EXTENDS InMailProofs

\* The calls, and the columns of their filters, under which a draft stays with
\* its author: a filter that names the storage files drafts away, one that names
\* the id has sendDraft collect the rows of another message.
PrivateCalls ==
  /\ Calls \cap {<<"update", "send">>, <<"reply", "draft">>, <<"forward", "draft">>} = {}
  /\ FilterColumns \cap {"storage", "id"} = {}

Private(x) ==
  message[x.msg].status = "draft" => x.type = "from" /\ x.storage = "draft"

Answering == {"r_message", "r_select", "r_sender", "r_commit", "f_count", "f_commit"}
Updating == {"u_files", "u_lock", "u_scan", "u_patch", "u_message", "u_commit"}

DraftControl(r) ==
  /\ pc[r] \in Updating => call[r].arg = "draft"
  /\ pc[r] \in Answering => call[r].arg = "send"
  /\ pc[r] \in Created /\ message[r].status = "draft" => call[r].arg = "draft"

\* The rows sendDraft has collected are private once the status is written.
WorkPrivate(r) ==
  \A x \in work[r] : IF pc[r] = "s_status" THEN x.msg = call[r].msg ELSE Private(x)

DraftsOK ==
  /\ \A x \in rows : Private(x)
  /\ \A r \in Requests : DraftControl(r) /\ WorkPrivate(r)

\* A private row stays private, since no message turns into a draft.
LEMMA PrivateKept ==
  ASSUME TypeOK, NEW r \in Requests, Keeps(r), NEW x \in RowType, Fits(x), Private(x)
  PROVE  Private(x)'
<1>1. x.msg \in Requests
  BY DEF RowType
<1> QED BY <1>1 DEF Private, Keeps, Fits, Rooted

\* A step changes the rows held by the request that takes it, and no other's.
LEMMA StepWork ==
  ASSUME TypeOK, NEW r \in Requests, Start(r) \/ Continue(r) \/ Fail(r) \/ Leak(r)
  PROVE  \A q \in Requests : q # r => work'[q] = work[q]
<1> USE DEF End, Drop, locals
<1>1. CASE Start(r)
  BY <1>1 DEF Start, Compose, Update, SendDraft, Reply, Forward, Trash, Delete, Restore,
              Mark, Fetch, Attachment, TypeOK
<1>2. CASE ReplySelect(r)
  BY <1>2, ReplySelectCases DEF TypeOK
<1>3. CASE (Continue(r) \/ Fail(r) \/ Leak(r)) /\ ~ReplySelect(r)
  BY <1>3 DEF Continue, ComposeCount, ComposeMessage, ComposeRows, UpdateFiles, UpdateLock,
              UpdateScan, UpdatePatch,
              UpdateMessage, UpdateCommit, SendRows, SendStatus, WriteRow, LoseWrite,
              ReplyMessage, ReplySender, ReplyCommit, ForwardCount, ForwardCommit,
              MarkRows, AttachmentAdd, AttachmentRemove, Fail, Leak, TypeOK
<1> QED BY <1>1, <1>2, <1>3

\* So a step need only be looked at for the rows it adds and for its own request.
LEMMA DraftsKept ==
  ASSUME TypeOK, TypeOK', ControlOK, RowsOK, DraftsOK, NEW r \in Requests, Keeps(r),
         \A q \in Requests : q # r => work'[q] = work[q],
         \A x \in rows' \ rows : (Private(x) /\ Fits(x)) \/ Private(x)',
         DraftControl(r)', WorkPrivate(r)'
  PROVE  DraftsOK'
<1>1. \A x \in rows' : Private(x)'
  <2>1. rows' \subseteq RowType
    BY DEF TypeOK
  <2> QED BY <2>1, PrivateKept DEF RowsOK, DraftsOK
<1>2. ASSUME NEW q \in Requests \ {r} PROVE DraftControl(q)' /\ WorkPrivate(q)'
  <2>1. /\ pc'[q] = pc[q] /\ call'[q] = call[q] /\ work'[q] = work[q]
        /\ DraftControl(q) /\ WorkPrivate(q) /\ RequestOK(q)
    BY DEF Keeps, DraftsOK, ControlOK
  <2>2. DraftControl(q)'
    BY <2>1 DEF DraftControl, Keeps, RequestOK
  <2>3. ASSUME NEW x \in work[q], Private(x) PROVE Private(x)'
    BY <2>3, PrivateKept DEF RowsOK, TypeOK
  <2>4. WorkPrivate(q)'
    BY <2>1, <2>3 DEF WorkPrivate
  <2> QED BY <2>2, <2>4
<1> QED BY <1>1, <1>2 DEF DraftsOK

\* What is filed away from a storage other than the drafts is no draft's row.
LEMMA FiledPrivate ==
  ASSUME NEW x \in RowType, Private(x)
  PROVE  /\ Private(Deleted(x))
         /\ x.storage # "draft" => Private(Trashed(x)) /\ Private(Restored(x))
         /\ \A v : Private([x EXCEPT !.visibility = v])
BY DEF Private, Deleted, Trashed, Restored, RowType

\* The argument a request starts with is one the clients use.
LEMMA StartArgument ==
  ASSUME PrivateCalls, TypeOK, NEW r \in Requests, Start(r)
  PROVE  DraftControl(r)' /\ pc'[r] # "s_status"
<1>5. CASE SendDraft(r) \/ Trash(r) \/ Delete(r) \/ Restore(r) \/ Mark(r) \/ Fetch(r)
             \/ Attachment(r)
  <2>1. \E l \in {"s_rows", "writing", "m_rows", "a_add", "a_remove"} : Goto(r, l)
    BY <1>5 DEF SendDraft, Trash, Delete, Restore, Mark, Fetch, Attachment
  <2>2. pc'[r] \in {"s_rows", "writing", "m_rows", "a_add", "a_remove"}
    BY <2>1 DEF Goto, TypeOK
  <2> QED BY <2>2 DEF DraftControl, Answering, Updating, Created
<1> USE DEF DraftControl, Answering, Updating, Created, Begin, Request, Goto, PrivateCalls
<1>0. r \in DOMAIN pc /\ r \in DOMAIN call
  BY DEF TypeOK
<1>1. CASE Compose(r)
  BY <1>0, <1>1 DEF Compose
<1>2. CASE Update(r)
  BY <1>0, <1>2 DEF Update
<1>3. CASE Reply(r)
  BY <1>0, <1>3 DEF Reply
<1>4. CASE Forward(r)
  BY <1>0, <1>4 DEF Forward
<1> QED BY <1>1, <1>2, <1>3, <1>4, <1>5 DEF Start

\* Starting a request keeps drafts private: what it files is no draft's row,
\* unless it deletes it.
LEMMA StartDrafts ==
  ASSUME PrivateCalls, TypeOK, TypeOK', ControlOK, RowsOK, DraftsOK,
         NEW r \in Requests, Start(r)
  PROVE  DraftsOK'
<1>1. Keeps(r) /\ DraftControl(r)' /\ pc'[r] # "s_status" /\ UNCHANGED rows
  BY StartControl, StartArgument DEF Start, Compose, Update, SendDraft, Reply, Forward, Trash,
     Delete, Restore, Mark, Fetch, Attachment, locals
<1>2. pc[r] = "idle" /\ r \in DOMAIN work
  BY DEF Start, Ready, TypeOK
<1>3. \A x \in work'[r] : Private(x)
  <2>1. ASSUME NEW u, NEW m, NEW st, NEW x \in Filed(u, m, st)
        PROVE  x \in RowType /\ Private(x) /\ x.storage = st
    BY FiledType DEF DraftsOK, Filed, PrivateCalls, Overridden
  <2>2. CASE Trash(r)
    <3>1. PICK u, m, st :
            /\ st # "draft"
            /\ \E S \in SUBSET Filed(u, m, st) : work' = [work EXCEPT ![r] = {Trashed(x) : x \in S}]
      BY <2>2 DEF Trash
    <3> QED BY <1>2, <2>1, <3>1, FiledPrivate
  <2>3. CASE Delete(r)
    <3>1. PICK u, m, st :
            \E S \in SUBSET Filed(u, m, st) : work' = [work EXCEPT ![r] = {Deleted(x) : x \in S}]
      BY <2>3 DEF Delete
    <3> QED BY <1>2, <2>1, <3>1, FiledPrivate
  <2>4. CASE Restore(r)
    <3>1. PICK u, m :
            \E S \in SUBSET Filed(u, m, "trash") :
              work' = [work EXCEPT ![r] = {Restored(x) : x \in S}]
      BY <2>4 DEF Restore
    <3> QED BY <1>2, <2>1, <3>1, FiledPrivate
  <2>5. CASE UNCHANGED work
    BY <1>2, <2>5 DEF DraftsOK, WorkPrivate
  <2> QED
    BY <2>2, <2>3, <2>4, <2>5 DEF Start, Compose, Update, SendDraft, Reply, Forward, Mark,
       Fetch, Attachment, locals
<1>4. UNCHANGED message
  BY DEF Start, Compose, Update, SendDraft, Reply, Forward, Trash, Delete, Restore, Mark, Fetch,
     Attachment
<1>5. WorkPrivate(r)'
  BY <1>1, <1>3, <1>4 DEF WorkPrivate, Private
<1> QED BY <1>1, <1>5, StepWork, DraftsKept

\* The rows of a body are private: of a draft there is the author's alone.
LEMMA BodyPrivate ==
  ASSUME NEW r \in Requests, NEW m \in Requests, NEW vis,
         message[m].status = "draft" => call[r].arg = "draft"
  PROVE  \A x \in {AuthorRow(r, m, vis)} \cup RecipientRows(r, m) :
           x.msg = m /\ Private(x)
BY DEF AuthorRow, RecipientRows, NewRow, Private

\* Where a handler goes next, as far as drafts are concerned.
LEMMA NextLabel ==
  ASSUME TypeOK, NEW r \in Requests, Continue(r) \/ Fail(r) \/ Leak(r)
  PROVE  /\ UNCHANGED call
         /\ pc'[r] \in Updating => pc[r] \in Updating
         /\ pc'[r] \in Answering => pc[r] \in Answering
         /\ pc'[r] \in Created => pc[r] \in Created \cup {"c_message", "r_message"}
         /\ pc[r] = "c_message" => ComposeMessage(r) \/ Fail(r)
         /\ pc[r] = "r_message" => ReplyMessage(r) \/ Fail(r)
         /\ pc[r] = "s_status" => SendStatus(r) \/ Fail(r)
         /\ pc'[r] = "s_status" => SendRows(r)
<1>1. UNCHANGED call
  <2>1. CASE ReplySelect(r)
    BY <2>1, ReplySelectCases
  <2> QED
    BY <2>1 DEF Continue, ComposeCount, ComposeMessage, ComposeRows, UpdateFiles, UpdateLock,
                UpdateScan, UpdatePatch,
       UpdateMessage, UpdateCommit, SendRows, SendStatus, WriteRow, LoseWrite,
       ReplyMessage, ReplySender, ReplyCommit, ForwardCount, ForwardCommit,
       MarkRows, AttachmentAdd, AttachmentRemove, Fail, Leak, locals
<1>2. \/ pc'[r] \in {"done", "failed", "leaked", "writing", "losing"}
      \/ pc[r] = "c_count" /\ pc'[r] = "c_message"
      \/ pc[r] = "c_message" /\ pc'[r] = "c_rows"
      \/ pc[r] \in Updating /\ pc'[r] \in Updating
      \/ SendRows(r) /\ pc[r] = "s_rows" /\ pc'[r] = "s_status"
      \/ pc[r] = "r_message" /\ pc'[r] = "r_select"
      \/ pc[r] = "r_select" /\ pc'[r] = "r_sender"
      \/ pc[r] = "r_sender" /\ pc'[r] = "r_commit"
      \/ pc[r] = "f_count" /\ pc'[r] = "f_commit"
  <2> USE DEF At, End, Updating
  <2>1. CASE ReplySelect(r)
    BY <2>1, ReplySelectCases DEF Goto, TypeOK
  <2>2. CASE WriteRow(r)
    BY <2>2 DEF WriteRow, Goto, TypeOK
  <2>3. CASE LoseWrite(r)
    BY <2>3 DEF LoseWrite, Goto, TypeOK
  <2>4. \/ \E l \in {"done", "failed", "leaked", "writing"} : Goto(r, l)
        \/ pc[r] = "c_count" /\ Goto(r, "c_message")
        \/ pc[r] = "c_message" /\ Goto(r, "c_rows")
        \/ pc[r] \in Updating /\ \E l \in Updating : Goto(r, l)
        \/ SendRows(r) /\ pc[r] = "s_rows" /\ Goto(r, "s_status")
        \/ pc[r] = "r_message" /\ Goto(r, "r_select")
        \/ pc[r] = "r_sender" /\ Goto(r, "r_commit")
        \/ pc[r] = "f_count" /\ Goto(r, "f_commit")
        \/ ReplySelect(r) \/ WriteRow(r) \/ LoseWrite(r)
    BY DEF Continue, ComposeCount, ComposeMessage, ComposeRows, UpdateFiles, UpdateLock,
           UpdateScan, UpdatePatch,
           UpdateMessage, UpdateCommit, SendRows, SendStatus, ReplyMessage, ReplySender,
           ReplyCommit, ForwardCount, ForwardCommit, MarkRows, AttachmentAdd,
           AttachmentRemove, Fail, Leak
  <2> QED BY <2>1, <2>2, <2>3, <2>4 DEF Goto, TypeOK
<1>3. /\ pc[r] = "c_message" => ComposeMessage(r) \/ Fail(r)
      /\ pc[r] = "r_message" => ReplyMessage(r) \/ Fail(r)
      /\ pc[r] = "s_status" => SendStatus(r) \/ Fail(r)
  BY DEF Continue, ComposeCount, ComposeMessage, ComposeRows, UpdateFiles, UpdateLock,
         UpdateScan, UpdatePatch,
         UpdateMessage, UpdateCommit, SendRows, SendStatus, WriteRow, LoseWrite,
         ReplyMessage, ReplySelect, ReplySender, ReplyCommit, ForwardCount, ForwardCommit,
         MarkRows, AttachmentAdd, AttachmentRemove, Leak, At
<1> QED BY <1>1, <1>2, <1>3 DEF Updating, Answering, Created

\* The statements of a handler keep what its label says of its argument.
LEMMA NextControl ==
  ASSUME TypeOK, TypeOK', ControlOK, DraftsOK, NEW r \in Requests, Keeps(r),
         Continue(r) \/ Fail(r) \/ Leak(r)
  PROVE  DraftControl(r)'
<1>1. DraftControl(r) /\ RequestOK(r)
  BY DEF DraftsOK, ControlOK
<1>2. ASSUME pc'[r] \in Created, message'[r].status = "draft" PROVE call[r].arg = "draft"
  <2>1. CASE pc[r] \in Created
    BY <1>1, <1>2, <2>1 DEF DraftControl, RequestOK, Keeps
  <2>2. CASE Fail(r)
    BY <1>2, <2>2 DEF Fail, End, Goto, Created, TypeOK
  <2>3. CASE ComposeMessage(r) \/ ReplyMessage(r)
    BY <1>2, <2>3 DEF ComposeMessage, ReplyMessage, TypeOK
  <2> QED BY <1>2, <2>1, <2>2, <2>3, NextLabel
<1> QED BY <1>1, <1>2, NextLabel DEF DraftControl

\* Without a filter for the id, sendDraft collects the rows of its message.
LEMMA SendRowsOwn ==
  ASSUME PrivateCalls, NEW r \in Requests, SendRows(r)
  PROVE  /\ pc[r] = "s_rows" /\ Goto(r, "s_status")
         /\ UNCHANGED <<count, message, rows, files, call, workFiles, seenCount>>
         /\ work' = [work EXCEPT ![r] =
              {IF x.type = "from" THEN [x EXCEPT !.storage = "send"] ELSE x :
                 x \in Live(call[r].msg)}
              \cup {NewRow(r, call[r].msg, p, "to", "inbox", "new") : p \in call[r].to}]
BY DEF SendRows, At, PrivateCalls, Overridden

\* The statements of every handler keep drafts private.
LEMMA ContinueDrafts ==
  ASSUME PrivateCalls, TypeOK, TypeOK', ControlOK, RowsOK, DraftsOK, NEW r \in Requests,
         Continue(r) \/ Fail(r) \/ Leak(r)
  PROVE  DraftsOK'
<1> USE DEF At, End
<1>0. /\ Keeps(r) /\ DraftControl(r) /\ WorkPrivate(r) /\ RequestOK(r)
      /\ r \in DOMAIN work /\ r \in DOMAIN pc /\ r \in DOMAIN message
  BY StepKeeps DEF DraftsOK, ControlOK, TypeOK
<1>00. DraftControl(r)' /\ \A q \in Requests : q # r => work'[q] = work[q]
  BY <1>0, NextControl, StepWork
\* Most steps have to be looked at for the rows they add only.
<1>01. ASSUME \A x \in rows' \ rows : (Private(x) /\ Fits(x)) \/ Private(x)',
              pc'[r] # "s_status",
              \A x \in work'[r] : (x \in work[r] /\ pc[r] # "s_status") \/ Private(x)'
       PROVE  DraftsOK'
  <2>1. ASSUME NEW x \in work'[r] PROVE Private(x)'
    <3>1. CASE x \in work[r] /\ pc[r] # "s_status"
      BY <1>0, <3>1, PrivateKept DEF WorkPrivate, RowsOK, TypeOK
    <3> QED BY <1>01, <3>1
  <2>2. WorkPrivate(r)'
    BY <1>01, <2>1 DEF WorkPrivate
  <2> QED BY <1>0, <1>00, <1>01, <2>2, DraftsKept
<1>1. CASE \/ Fail(r) \/ Leak(r) \/ ComposeCount(r) \/ ComposeMessage(r)
           \/ UpdateFiles(r) \/ UpdateLock(r)
           \/ UpdateMessage(r) \/ LoseWrite(r) \/ ReplyMessage(r)
           \/ ForwardCount(r) \/ AttachmentAdd(r) \/ AttachmentRemove(r)
  <2>1. /\ UNCHANGED rows
        /\ \/ pc[r] # "s_status" /\ UNCHANGED work
           \/ \E w \in SUBSET work[r] :
                work' = [work EXCEPT ![r] = w] /\ (w = {} \/ pc[r] # "s_status")
        /\ ~SendRows(r)
    BY <1>0, <1>1
       DEF Fail, Leak, ComposeCount, ComposeMessage, UpdateFiles, UpdateLock, UpdateMessage,
           LoseWrite, Goto, SendRows,
           ReplyMessage, ForwardCount, AttachmentAdd, AttachmentRemove, Drop, locals
  <2>2. pc'[r] # "s_status"
    BY <2>1, NextLabel
  <2> QED BY <1>0, <1>01, <2>1, <2>2
<1>2. CASE ComposeRows(r)
  <2>1. /\ rows' = rows \cup {AuthorRow(r, r, "read")} \cup RecipientRows(r, r)
        /\ work' = [work EXCEPT ![r] = {}] /\ pc[r] = "c_rows" /\ pc'[r] = "done"
        /\ UNCHANGED message
    BY <1>0, <1>2 DEF ComposeRows, Drop, Goto
  <2>2. \A x \in {AuthorRow(r, r, "read")} \cup RecipientRows(r, r) : Private(x)'
    BY <1>0, <2>1, BodyPrivate DEF DraftControl, Created, Private
  <2> QED BY <1>0, <1>01, <2>1, <2>2
<1>3. CASE UpdateScan(r) \/ UpdatePatch(r)
  <2>1. /\ UNCHANGED <<rows, message>> /\ pc'[r] # "s_status"
        /\ \E w \in SUBSET rows : work' = [work EXCEPT ![r] = w]
    BY <1>0, <1>3 DEF UpdateScan, UpdatePatch, Replaced, Live, Goto
  <2> QED BY <1>0, <1>01, <2>1 DEF DraftsOK, Private
<1>4. CASE UpdateCommit(r)
  <2>1. /\ rows' = (rows \ work[r]) \cup {Deleted(x) : x \in work[r]}
               \cup {AuthorRow(r, call[r].msg, "new")} \cup RecipientRows(r, call[r].msg)
        /\ work' = [work EXCEPT ![r] = {}] /\ pc[r] = "u_commit" /\ pc'[r] = "done"
        /\ UNCHANGED message
    BY <1>0, <1>4 DEF UpdateCommit, Drop, Goto
  <2>2. call[r].msg \in Requests /\ call[r].arg = "draft"
    BY <1>0, <2>1, CallAtType DEF DraftControl, Updating
  <2>3. \A x \in {AuthorRow(r, call[r].msg, "new")} \cup RecipientRows(r, call[r].msg) :
          Private(x)'
    BY <2>1, <2>2, BodyPrivate DEF Private
  <2>4. \A x \in work[r] : x \in RowType /\ Private(x) /\ Fits(x)
    BY <1>0, <2>1 DEF WorkPrivate, RowsOK, TypeOK
  <2>5. \A x \in {Deleted(y) : y \in work[r]} : Private(x) /\ Fits(x)
    BY <2>4, FiledPrivate, FiledFits
  <2> QED BY <1>0, <1>01, <2>1, <2>3, <2>5
<1>5. CASE SendRows(r)
  <2>1. /\ UNCHANGED rows /\ pc[r] = "s_rows" /\ pc'[r] = "s_status" /\ UNCHANGED call
        /\ work' = [work EXCEPT ![r] =
             {IF x.type = "from" THEN [x EXCEPT !.storage = "send"] ELSE x :
                x \in Live(call[r].msg)}
             \cup {NewRow(r, call[r].msg, p, "to", "inbox", "new") : p \in call[r].to}]
    BY <1>0, <1>5, SendRowsOwn DEF Goto
  <2>2. \A x \in Live(call[r].msg) :
          x.msg = call[r].msg /\ [x EXCEPT !.storage = "send"].msg = call[r].msg
    BY DEF Live, TypeOK, RowType
  <2>3. \A p : NewRow(r, call[r].msg, p, "to", "inbox", "new").msg = call[r].msg
    BY DEF NewRow
  <2>4. WorkPrivate(r)'
    BY <1>0, <2>1, <2>2, <2>3 DEF WorkPrivate
  <2> QED BY <1>0, <1>00, <2>1, <2>4, DraftsKept
<1>6. CASE SendStatus(r)
  <2>1. /\ UNCHANGED <<rows, work>> /\ pc[r] = "s_status" /\ pc'[r] # "s_status"
        /\ message' = [message EXCEPT ![call[r].msg].status = "send"]
    BY <1>0, <1>6 DEF SendStatus, Goto, locals
  <2>2. call[r].msg \in Requests /\ message[call[r].msg] \in MessageType
    BY <1>0, <2>1, CallAtType DEF RequestOK, Editing, TypeOK, Exists, NoMessage
  <2>3. message'[call[r].msg].status = "send"
    BY <2>1, <2>2 DEF TypeOK, MessageType
  <2>4. \A x \in work'[r] : Private(x)'
    BY <1>0, <2>1, <2>3 DEF WorkPrivate, Private
  <2> QED BY <1>01, <2>1, <2>4
<1>7. CASE WriteRow(r)
  <2>1. /\ pc[r] # "s_status" /\ pc'[r] # "s_status"
        /\ \E w \in work[r] : /\ rows' \subseteq rows \cup {w}
                              /\ work' = [work EXCEPT ![r] = @ \ {w}]
    BY <1>0, <1>7 DEF WriteRow, Goto
  <2>2. \A x \in work[r] : Private(x) /\ Fits(x)
    BY <1>0, <2>1 DEF WorkPrivate, RowsOK
  <2> QED BY <1>0, <1>01, <2>1, <2>2
<1>8. CASE ReplySelect(r)
  <2>1. UNCHANGED <<rows, message>> /\ pc[r] = "r_select" /\ pc'[r] # "s_status"
    BY <1>0, <1>8, ReplySelectCases DEF Goto
  <2>2. message[r].status # "draft"
    BY <1>0, <2>1 DEF DraftControl, Answering, Created
  <2>3. ASSUME NEW x, NEW p, NEW n,
               x = [NewRow(r, r, p, "to", "inbox", "new") EXCEPT !.num = n]
        PROVE  Private(x)'
    BY <2>1, <2>2, <2>3 DEF NewRow, Private
  <2>4. CASE End(r, "failed")
    BY <1>0, <1>01, <2>1, <2>4 DEF Drop
  <2>5. CASE ~End(r, "failed")
    <3>1. PICK num \in [Answered(r) -> 1 .. Cardinality(Answered(r))] :
            work' = [work EXCEPT ![r] =
              {[NewRow(r, r, x.party, "to", "inbox", "new") EXCEPT !.num = num[x]]
                 : x \in Answered(r)}]
      BY <1>8, <2>5, ReplySelectCases, Zenon
    <3>2. \A x \in work'[r] : Private(x)'
      BY <1>0, <2>3, <3>1
    <3> QED BY <1>01, <2>1, <3>2
  <2> QED BY <2>4, <2>5
<1>9. CASE ReplySender(r)
  <2>1. /\ rows' = rows \cup {AuthorRow(r, r, "new")} /\ UNCHANGED <<work, message>>
        /\ pc[r] = "r_sender" /\ pc'[r] = "r_commit"
    BY <1>0, <1>9 DEF ReplySender, Goto, locals
  <2>2. \A x \in {AuthorRow(r, r, "new")} : Private(x)'
    BY <1>0, <2>1, BodyPrivate DEF DraftControl, Created, Private
  <2> QED BY <1>01, <2>1, <2>2
<1>10. CASE ReplyCommit(r)
  <2>1. /\ rows' = rows \cup work[r] /\ work' = [work EXCEPT ![r] = {}]
        /\ pc[r] = "r_commit" /\ pc'[r] = "done"
    BY <1>0, <1>10 DEF ReplyCommit, Drop, Goto
  <2>2. \A x \in work[r] : Private(x) /\ Fits(x)
    BY <1>0, <2>1 DEF WorkPrivate, RowsOK
  <2> QED BY <1>0, <1>01, <2>1, <2>2
<1>11. CASE ForwardCommit(r)
  <2>1. /\ rows' = rows \cup {AuthorRow(r, r, "new")}
               \cup {NewRow(r, r, p, "to", "inbox", "new") : p \in call[r].to}
        /\ work' = [work EXCEPT ![r] = {}] /\ pc[r] = "f_commit" /\ pc'[r] = "done"
        /\ message'[r].status = call[r].arg
    BY <1>0, <1>11 DEF ForwardCommit, Drop, Goto
  <2>2. message'[r].status = "send"
    BY <1>0, <2>1 DEF DraftControl, Answering
  <2>3. \A x \in rows' \ rows : Private(x)'
    BY <2>1, <2>2 DEF AuthorRow, NewRow, Private
  <2> QED BY <1>0, <1>01, <2>1, <2>3
<1>12. CASE MarkRows(r)
  <2>1. /\ work' = [work EXCEPT ![r] = {}] /\ pc'[r] # "s_status"
        /\ \A y \in rows' \ rows : \E x \in rows : \E v : y = [x EXCEPT !.visibility = v]
    BY <1>0, <1>12 DEF MarkRows, Drop, Goto
  <2>2. \A x \in rows' \ rows : Private(x) /\ Fits(x)
    <3> TAKE y \in rows' \ rows
    <3>1. PICK x \in rows : \E v : y = [x EXCEPT !.visibility = v]
      BY <2>1
    <3>2. x \in RowType /\ Private(x) /\ Fits(x)
      BY DEF RowsOK, DraftsOK, TypeOK
    <3> QED BY <3>1, <3>2, FiledPrivate, FiledFits
  <2> QED BY <1>0, <1>01, <2>1, <2>2
<1> QED
  BY <1>1, <1>2, <1>3, <1>4, <1>5, <1>6, <1>7, <1>8, <1>9, <1>10, <1>11, <1>12
     DEF Continue

\* The inductive invariant of the drafts.
LEMMA DraftsCorrect ==
  ASSUME PrivateCalls
  PROVE  Spec => [](TypeOK /\ ControlOK /\ RowsOK /\ DraftsOK)
<1>1. Init => DraftsOK
  BY DEF Init, DraftsOK, DraftControl, WorkPrivate, Updating, Answering, Created
<1>2. (TypeOK /\ ControlOK /\ RowsOK) /\ DraftsOK /\ (TypeOK /\ ControlOK /\ RowsOK)'
        /\ [Next]_vars => DraftsOK'
  <2>1. ASSUME UNCHANGED vars, DraftsOK PROVE DraftsOK'
    BY <2>1 DEF vars, DraftsOK, DraftControl, WorkPrivate, Private
  <2> QED BY <2>1, StartDrafts, ContinueDrafts DEF Next, Rest
<1> QED BY <1>1, <1>2, RowsCorrect, PTL DEF Spec

\* As long as a message is a draft, its author is the only one to hold a row of
\* it, however editing, sending, discarding and failing requests interleave,
\* unless the clients make one of the three calls the assumption names.
THEOREM DraftsStayPrivate ==
  ASSUME PrivateCalls
  PROVE  Spec => []DraftIsPrivate
<1>1. DraftsOK => DraftIsPrivate
  BY DEF DraftsOK, Private, DraftIsPrivate
<1> QED BY <1>1, DraftsCorrect, PTL

-----------------------------------------------------------------------------
(* What holds of the mails of users who wait for an answer before the next   *)
(* request.  A draft is handled for its author only, and by one request at a *)
(* time; but a sendDraft that has answered with an error still writes rows   *)
(* of a mail that was sent, while its author goes on.                        *)

SerialCalls == PrivateCalls /\ FilterColumns \subseteq {"messageId"} /\ SerialUsers

Drafting == Updating \cup {"s_rows", "s_status", "a_add", "a_remove"}
Fresh == Creating \cup {"idle", "c_rows", "r_select", "r_sender"}
Filing == {"s_status", "writing", "losing"}
Waits(r) == Busy(r) /\ pc[r] # "losing"

\* What a handler is about, by its label.
OpOK(r) ==
  /\ pc[r] \in {"c_count", "c_message", "c_rows"} => call[r].op = "compose" /\ call[r].msg = r
  /\ pc[r] \in {"f_count", "f_commit"} => call[r].op = "forward" /\ call[r].msg = r
  /\ pc[r] \in {"r_message", "r_select", "r_sender", "r_commit"} => call[r].op = "reply"
  /\ pc[r] \in {"s_rows", "s_status"} => call[r].op = "sendDraft"
  /\ pc[r] \in Updating => call[r].op = "update"
  /\ pc[r] \in {"writing", "losing"} => call[r].op # "reply"

\* A draft is handled when the request that wrote it is through, and for its
\* author; and a user who waits for an answer waits for one.
OwnerOK(r) ==
  /\ message[r].status = "draft" => pc[r] \in {"c_rows"} \cup Ended
  /\ pc[r] \in Drafting =>
       /\ message[call[r].msg].status = "draft" /\ pc[call[r].msg] \in Ended
       /\ call[r].user = call[call[r].msg].user
  /\ \A q \in Requests : Waits(q) /\ Waits(r) /\ call[q].user = call[r].user => q = r

\* A message has no rows before the request that writes it gets to them.
FreshOK(r) ==
  pc[r] \in Fresh =>
    /\ \A x \in rows : x.msg # r
    /\ \A q \in Requests \ {r} : \A x \in work[q] : x.msg # r

\* Every row is about what the request that made it was about, and the rows of
\* a draft are the author's.
Targeted(x) ==
  /\ x.req \in Requests /\ pc[x.req] # "idle"
  /\ x.msg = IF call[x.req].op = "reply" THEN x.req ELSE call[x.req].msg
Authored(x) == message[x.msg].status = "draft" => x.party = call[x.msg].user

SerialOK ==
  /\ \A x \in rows : Targeted(x) /\ Authored(x)
  /\ \A r \in Requests :
       /\ OpOK(r) /\ OwnerOK(r) /\ FreshOK(r)
       /\ \A x \in work[r] : Targeted(x) /\ (pc[r] # "s_status" => Authored(x))

-----------------------------------------------------------------------------
(* What a step does to the rows, in general: the rows a handler writes or    *)
(* holds come from rows that are there, or are of its own making.            *)

From(x, y) == SameRow(x, y) /\ x.msg = y.msg
Makes(r, x) ==
  /\ x.req = r
  /\ \/ x.msg = r /\ pc[r] \in {"c_rows", "r_select", "r_sender", "f_commit"}
     \/ x.msg = call[r].msg /\ pc[r] \in {"u_commit", "s_rows"}
  /\ pc[r] \in {"c_rows", "u_commit"} /\ call[r].arg = "draft" =>
       x.type = "from" /\ x.party = call[r].user

Effect(r) ==
  /\ \A x \in rows' : (\E y \in rows \cup work[r] : From(x, y)) \/ Makes(r, x)
  /\ \A x \in work'[r] : (\E y \in rows \cup work[r] : From(x, y)) \/ Makes(r, x)
  /\ \A y \in rows : \E x \in rows' : From(x, y)
  /\ \A q \in Requests : q # r => work'[q] = work[q]

\* Filing, marking and deleting make of a row another of the same.
LEMMA FiledFrom ==
  ASSUME NEW x \in RowType
  PROVE  /\ From(x, x) /\ From(Deleted(x), x) /\ From(Trashed(x), x) /\ From(Restored(x), x)
         /\ \A v : From([x EXCEPT !.visibility = v], x)
         /\ \A v : From([x EXCEPT !.storage = v], x)
BY DEF From, SameRow, Deleted, Trashed, Restored, RowType

\* The same row is about the same message.
LEMMA SameTarget ==
  ASSUME NEW x, NEW y, Targeted(x), Targeted(y), SameRow(x, y)
  PROVE  From(x, y)
BY DEF Targeted, From, SameRow

\* The rows of a body are the handler's own.
LEMMA BodyMade ==
  ASSUME NEW r \in Requests, NEW m, NEW vis
  PROVE  /\ \A x \in {AuthorRow(r, m, vis)} :
              x.req = r /\ x.msg = m /\ x.type = "from" /\ x.party = call[r].user
         /\ \A x \in RecipientRows(r, m) :
              x.req = r /\ x.msg = m /\ x.type = "to" /\ call[r].arg # "draft"
         /\ \A p : \A x \in {NewRow(r, m, p, "to", "inbox", "new")} :
              x.req = r /\ x.msg = m /\ x.type = "to" /\ x.party = p
BY DEF AuthorRow, RecipientRows, NewRow

\* Marking changes the visibility of rows, whichever they are.
LEMMA MarkedFrom ==
  ASSUME TypeOK, NEW r \in Requests, MarkRows(r)
  PROVE  /\ \A x \in rows' : \E y \in rows :
              \/ x = y
              \/ y.party = call[r].user /\ \E v : x = [y EXCEPT !.visibility = v]
         /\ \A x \in rows' : \E y \in rows : From(x, y)
         /\ \A y \in rows : \E x \in rows' : From(x, y)
<1> DEFINE c == call[r]
           marked == {x \in rows :
             /\ x.party = c.user /\ ~x.deleted
             /\ c.arg = "thread" => x.thread = c.thread
             /\ c.arg \notin {"thread", "missed"} => x.msg = c.msg}
           v == IF c.arg = "unread" THEN "unread" ELSE "read"
<1>1. rows' = (rows \ marked) \cup {[x EXCEPT !.visibility = v] : x \in marked}
  BY DEF MarkRows
<1>2. \A x \in marked : x \in rows /\ x.party = call[r].user
  OBVIOUS
<1>3. \A x \in rows : From(x, x) /\ From([x EXCEPT !.visibility = v], x)
  BY FiledFrom DEF TypeOK
<1> HIDE DEF marked, v
<1> QED BY <1>1, <1>2, <1>3

\* Starting a request: only the filing requests hold rows at once.
LEMMA StartEffect ==
  ASSUME TypeOK, NEW r \in Requests, Start(r)
  PROVE  /\ UNCHANGED <<rows, message>>
         /\ \A x \in work'[r] : \E y \in rows \cup work[r] : From(x, y)
<1>0. r \in DOMAIN work
  BY DEF TypeOK
<1>1. CASE Trash(r) \/ Delete(r) \/ Restore(r)
  <2>1. PICK S \in SUBSET rows :
          /\ UNCHANGED <<rows, message>>
          /\ \/ work' = [work EXCEPT ![r] = {Trashed(x) : x \in S}]
             \/ work' = [work EXCEPT ![r] = {Deleted(x) : x \in S}]
             \/ work' = [work EXCEPT ![r] = {Restored(x) : x \in S}]
    <3>1. \A u, m, st : Filed(u, m, st) \subseteq rows
      BY DEF Filed
    <3>2. CASE Trash(r)
      BY <3>1, <3>2 DEF Trash
    <3>3. CASE Delete(r)
      BY <3>1, <3>3 DEF Delete
    <3>4. CASE Restore(r)
      BY <3>1, <3>4 DEF Restore
    <3> QED BY <1>1, <3>2, <3>3, <3>4
  <2>2. \A x \in S :
          x \in rows /\ From(Trashed(x), x) /\ From(Deleted(x), x) /\ From(Restored(x), x)
    BY FiledFrom DEF TypeOK
  <2>3. \/ work'[r] = {Trashed(x) : x \in S}
        \/ work'[r] = {Deleted(x) : x \in S}
        \/ work'[r] = {Restored(x) : x \in S}
    BY <1>0, <2>1
  <2> QED BY <2>1, <2>2, <2>3
<1>2. CASE UNCHANGED <<rows, work, message>>
  <2>1. \A x \in work[r] : From(x, x)
    BY FiledFrom DEF TypeOK
  <2> QED BY <1>2, <2>1
<1> QED
  BY <1>1, <1>2 DEF Start, Compose, Update, SendDraft, Reply, Forward, Mark, Fetch,
                    Attachment, locals

\* Whatever the step, the rows it writes or takes hold of come from rows that were
\* there, or are of the request's own making, and no row is lost.
LEMMA StepEffect ==
  ASSUME TypeOK, TypeOK', SerialOK, NEW r \in Requests,
         Start(r) \/ Continue(r) \/ Fail(r) \/ Leak(r)
  PROVE  Effect(r)
<1> USE DEF At, End
<1>0. r \in DOMAIN work /\ \A q \in Requests : q # r => work'[q] = work[q]
  BY StepWork DEF TypeOK
<1>00. \A x \in rows \cup work[r] : x \in RowType /\ From(x, x)
  BY FiledFrom DEF TypeOK
<1>1. CASE Start(r)
  <2>1. UNCHANGED rows /\ \A x \in work'[r] : \E y \in rows \cup work[r] : From(x, y)
    BY <1>1, StartEffect
  <2> QED BY <1>0, <1>00, <2>1 DEF Effect
\* Many statements write no row and hold no other.
<1>2. CASE \/ Fail(r) \/ Leak(r) \/ ComposeCount(r) \/ ComposeMessage(r)
           \/ UpdateFiles(r) \/ UpdateLock(r)
           \/ UpdateScan(r) \/ UpdatePatch(r) \/ UpdateMessage(r) \/ SendStatus(r)
           \/ LoseWrite(r) \/ ReplyMessage(r)
           \/ ForwardCount(r) \/ AttachmentAdd(r) \/ AttachmentRemove(r)
  <2>1. CASE UpdateScan(r) \/ UpdatePatch(r)
    <3>1. UNCHANGED rows /\ \E w \in SUBSET rows : work' = [work EXCEPT ![r] = w]
      BY <2>1 DEF UpdateScan, UpdatePatch, Replaced, Live
    <3> QED BY <1>0, <1>00, <3>1 DEF Effect
  <2>2. CASE ~(UpdateScan(r) \/ UpdatePatch(r))
    <3>1. /\ UNCHANGED rows
          /\ UNCHANGED work \/ \E w \in SUBSET work[r] : work' = [work EXCEPT ![r] = w]
      BY <1>0, <1>2, <2>2
         DEF Fail, Leak, ComposeCount, ComposeMessage, UpdateFiles, UpdateLock, UpdateMessage,
             SendStatus, LoseWrite, ReplyMessage, ForwardCount, AttachmentAdd,
             AttachmentRemove, Drop, locals
    <3> QED BY <1>0, <1>00, <3>1 DEF Effect
  <2> QED BY <2>1, <2>2
<1>3. CASE ComposeRows(r) \/ ReplySender(r)
  <2>1. /\ pc[r] \in {"c_rows", "r_sender"} /\ work'[r] \subseteq work[r]
        /\ \E vis : rows' \in {rows \cup {AuthorRow(r, r, vis)} \cup RecipientRows(r, r),
                               rows \cup {AuthorRow(r, r, vis)}}
    BY <1>0, <1>3 DEF ComposeRows, ReplySender, Drop, locals
  <2> QED BY <1>0, <1>00, <2>1, BodyMade DEF Effect, Makes
<1>4. CASE UpdateCommit(r)
  <2>1. /\ rows' = (rows \ work[r]) \cup {Deleted(x) : x \in work[r]}
               \cup {AuthorRow(r, call[r].msg, "new")} \cup RecipientRows(r, call[r].msg)
        /\ work'[r] = {} /\ pc[r] = "u_commit"
    BY <1>0, <1>4 DEF UpdateCommit, Drop
  <2>2. \A x \in work[r] : From(Deleted(x), x)
    BY <1>00, FiledFrom
  <2> QED BY <1>0, <1>00, <2>1, <2>2, BodyMade DEF Effect, Makes
<1>5. CASE SendRows(r)
  <2> PICK k \in Requests :
        work' = [work EXCEPT ![r] =
          {IF x.type = "from" THEN [x EXCEPT !.storage = "send"] ELSE x : x \in Live(k)}
          \cup {NewRow(r, call[r].msg, p, "to", "inbox", "new") : p \in call[r].to}]
    BY <1>5 DEF SendRows
  <2> DEFINE m == call[r].msg
             old == {IF x.type = "from" THEN [x EXCEPT !.storage = "send"] ELSE x : x \in Live(k)}
             new == {NewRow(r, m, p, "to", "inbox", "new") : p \in call[r].to}
  <2>1. UNCHANGED rows /\ work'[r] = old \cup new /\ pc[r] = "s_rows"
    BY <1>0, <1>5 DEF SendRows
  <2>2. \A x \in Live(k) : x \in rows /\ From(x, x) /\ From([x EXCEPT !.storage = "send"], x)
    BY <1>00, FiledFrom DEF Live
  <2>3. ASSUME NEW x \in new PROVE Makes(r, x)
    <3>1. PICK p \in call[r].to : x = NewRow(r, m, p, "to", "inbox", "new")
      OBVIOUS
    <3>2. x.req = r /\ x.msg = m
      BY <3>1 DEF NewRow
    <3> QED BY <2>1, <3>2 DEF Makes
  <2>4. \A x \in old : \E y \in rows : From(x, y)
    BY <2>2
  <2> HIDE DEF old, new
  <2> QED BY <1>0, <1>00, <2>1, <2>3, <2>4 DEF Effect
<1>6. CASE WriteRow(r)
  <2>1. PICK w \in work[r] :
          /\ rows' = {x \in rows : ~SameRow(x, w)} \cup {w}
          /\ work'[r] \subseteq work[r] /\ pc[r] # "s_status"
    BY <1>0, <1>6 DEF WriteRow
  <2>2. \A x \in rows : SameRow(x, w) => From(w, x)
    BY SameTarget DEF SerialOK, SameRow
  <2> QED BY <1>0, <1>00, <2>1, <2>2 DEF Effect
<1>7. CASE ReplySelect(r)
  <2>1. UNCHANGED rows /\ pc[r] = "r_select"
    BY <1>7, ReplySelectCases
  <2>2. ASSUME NEW p, NEW n, NEW x, x = [NewRow(r, r, p, "to", "inbox", "new") EXCEPT !.num = n]
        PROVE  Makes(r, x)
    BY <2>1, <2>2 DEF NewRow, Makes
  <2>3. CASE End(r, "failed")
    BY <1>0, <1>00, <2>1, <2>3 DEF Effect, Drop
  <2>4. CASE ~End(r, "failed")
    <3>1. PICK num \in [Answered(r) -> 1 .. Cardinality(Answered(r))] :
            work' = [work EXCEPT ![r] =
              {[NewRow(r, r, x.party, "to", "inbox", "new") EXCEPT !.num = num[x]]
                 : x \in Answered(r)}]
      BY <1>7, <2>4, ReplySelectCases, Zenon
    <3>2. \A x \in work'[r] : Makes(r, x)
      BY <1>0, <2>2, <3>1
    <3> QED BY <1>0, <1>00, <2>1, <3>2 DEF Effect
  <2> QED BY <2>3, <2>4
<1>8. CASE ReplyCommit(r)
  <2>1. rows' = rows \cup work[r] /\ work'[r] = {}
    BY <1>0, <1>8 DEF ReplyCommit, Drop
  <2> QED BY <1>0, <1>00, <2>1 DEF Effect
<1>9. CASE ForwardCommit(r)
  <2> DEFINE new == {NewRow(r, r, p, "to", "inbox", "new") : p \in call[r].to}
  <2>1. /\ rows' = rows \cup {AuthorRow(r, r, "new")} \cup new
        /\ work'[r] = {} /\ pc[r] = "f_commit"
    BY <1>0, <1>9 DEF ForwardCommit, Drop
  <2>2. \A x \in new \cup {AuthorRow(r, r, "new")} : Makes(r, x)
    BY <2>1, BodyMade DEF Makes
  <2> QED BY <1>0, <1>00, <2>1, <2>2 DEF Effect
<1>10. CASE MarkRows(r)
  <2>1. work'[r] = {}
    BY <1>0, <1>10 DEF MarkRows, Drop
  <2>2. /\ \A x \in rows' : \E y \in rows : From(x, y)
        /\ \A y \in rows : \E x \in rows' : From(x, y)
    BY <1>00, <1>10, MarkedFrom
  <2> QED BY <1>0, <2>1, <2>2 DEF Effect
<1> QED
  BY <1>1, <1>2, <1>3, <1>4, <1>5, <1>6, <1>7, <1>8, <1>9, <1>10 DEF Continue

-----------------------------------------------------------------------------
(* Which statement follows which, and what a request starts with.            *)

Follows ==
  {<<"c_count", "c_message">>, <<"c_message", "c_rows">>,
   <<"u_files", "u_lock">>, <<"u_lock", "u_scan">>, <<"u_scan", "u_patch">>,
   <<"u_patch", "u_message">>, <<"u_message", "u_commit">>,
   <<"s_rows", "s_status">>, <<"s_status", "writing">>,
   <<"writing", "writing">>, <<"writing", "losing">>, <<"losing", "losing">>,
   <<"r_message", "r_select">>, <<"r_select", "r_sender">>, <<"r_sender", "r_commit">>,
   <<"f_count", "f_commit">>}

\* A handler goes from one statement to the next, or ends.
LEMMA StepLabels ==
  ASSUME TypeOK, NEW r \in Requests, Continue(r) \/ Fail(r) \/ Leak(r)
  PROVE  /\ UNCHANGED call
         /\ pc[r] \notin Ended \cup {"idle"}
         /\ pc'[r] \in Ended \/ <<pc[r], pc'[r]>> \in Follows
<1> USE DEF At, End, Goto, Ended, Follows
<1>0. r \in DOMAIN pc
  BY DEF TypeOK
<1>1. CASE ReplySelect(r)
  BY <1>0, <1>1, ReplySelectCases
<1>2. CASE WriteRow(r)
  BY <1>0, <1>2 DEF WriteRow
<1>3. CASE LoseWrite(r)
  BY <1>0, <1>3 DEF LoseWrite
<1>4. CASE ComposeCount(r) \/ ComposeMessage(r) \/ ComposeRows(r)
  BY <1>0, <1>4 DEF ComposeCount, ComposeMessage, ComposeRows
<1>5. CASE \/ UpdateFiles(r) \/ UpdateLock(r) \/ UpdateScan(r) \/ UpdatePatch(r)
           \/ UpdateMessage(r) \/ UpdateCommit(r)
  BY <1>0, <1>5 DEF UpdateFiles, UpdateLock, UpdateScan, UpdatePatch, UpdateMessage,
                    UpdateCommit
<1>6. CASE SendRows(r) \/ SendStatus(r)
  BY <1>0, <1>6 DEF SendRows, SendStatus
<1>7. CASE ReplyMessage(r) \/ ReplySender(r) \/ ReplyCommit(r)
  BY <1>0, <1>7 DEF ReplyMessage, ReplySender, ReplyCommit
<1>8. CASE ForwardCount(r) \/ ForwardCommit(r) \/ MarkRows(r)
  BY <1>0, <1>8 DEF ForwardCount, ForwardCommit, MarkRows
<1>9. CASE AttachmentAdd(r) \/ AttachmentRemove(r) \/ Fail(r) \/ Leak(r)
  BY <1>0, <1>9 DEF AttachmentAdd, AttachmentRemove, Fail, Leak, Busy
<1> QED BY <1>1, <1>2, <1>3, <1>4, <1>5, <1>6, <1>7, <1>8, <1>9 DEF Continue

\* A request starts about a message its user knows, a draft if it is to edit it
\* and no filter finds another, and, with SerialUsers, when no other of the user's
\* waits.
LEMMA StartLabels ==
  ASSUME TypeOK, NEW r \in Requests, Start(r)
  PROVE  /\ pc[r] = "idle" /\ OpOK(r)'
         /\ pc'[r] \in {"c_message", "c_count", "u_files", "s_rows", "r_message", "f_count",
                        "writing", "m_rows", "a_add", "a_remove"}
         /\ SerialUsers =>
              \A q \in Requests : Waits(q) => call[q].user # call'[r].user
         /\ pc'[r] \in Drafting /\ FilterColumns \cap {"status", "id"} = {} =>
              \E u \in Users, m \in Requests :
                /\ call'[r].user = u /\ call'[r].msg = m
                /\ Knows(u, m) /\ IsDraft(m)
         /\ pc'[r] = "s_rows" => call'[r].to = message[call'[r].msg].markedTo
<1> USE DEF Begin, Request, About, OpOK, Waits
<1>0. r \in DOMAIN pc /\ r \in DOMAIN call /\ pc[r] = "idle"
  BY DEF TypeOK, Start, Ready
<1>1. CASE Compose(r)
  BY <1>0, <1>1 DEF Compose, Goto, Drafting, Updating
<1>2. CASE Update(r)
  BY <1>0, <1>2 DEF Update, Goto, Drafting, Updating
<1>3. CASE SendDraft(r)
  BY <1>0, <1>3 DEF SendDraft, Goto, Drafting, Updating, Overridden
<1>4. CASE Reply(r)
  BY <1>0, <1>4 DEF Reply, Goto, Drafting, Updating
<1>5. CASE Forward(r)
  BY <1>0, <1>5 DEF Forward, Goto, Drafting, Updating
<1>6. CASE Trash(r)
  BY <1>0, <1>6 DEF Trash, Goto, Drafting, Updating
<1>7. CASE Delete(r)
  BY <1>0, <1>7 DEF Delete, Goto, Drafting, Updating
<1>8. CASE Restore(r)
  BY <1>0, <1>8 DEF Restore, Goto, Drafting, Updating
<1>9. CASE Mark(r)
  BY <1>0, <1>9 DEF Mark, Goto, Drafting, Updating
<1>10. CASE Fetch(r)
  BY <1>0, <1>10 DEF Fetch, Goto, Drafting, Updating
<1>11. CASE Attachment(r)
  BY <1>0, <1>11 DEF Attachment, Goto, Drafting, Updating, Overridden
<1> QED
  BY <1>1, <1>2, <1>3, <1>4, <1>5, <1>6, <1>7, <1>8, <1>9, <1>10, <1>11 DEF Start

\* Only updateDraft and sendDraft change a message that exists, their own.
LEMMA MessageKept ==
  ASSUME TypeOK, ControlOK, NEW r \in Requests,
         Start(r) \/ Continue(r) \/ Fail(r) \/ Leak(r), NEW m \in Requests, Exists(m)
  PROVE  \/ message'[m] = message[m]
         \/ /\ m = call[r].msg /\ pc[r] = "u_message"
            /\ message'[m].status = message[m].status
         \/ /\ m = call[r].msg /\ pc[r] = "s_status"
            /\ message'[m].status = "send" /\ message'[m].markedTo = message[m].markedTo
<1> USE DEF At
<1>0. m \in DOMAIN message /\ message[m] \in MessageType
  BY DEF TypeOK, Exists, NoMessage
<1>1. CASE ComposeMessage(r) \/ ReplyMessage(r) \/ ForwardCommit(r)
  <2>1. pc[r] \in Creating /\ \E x : message' = [message EXCEPT ![r] = x]
    BY <1>1 DEF ComposeMessage, ReplyMessage, ForwardCommit, Creating
  <2>2. ~Exists(r)
    BY <2>1 DEF ControlOK, RequestOK, Exists, NoMessage
  <2> QED BY <1>0, <2>1, <2>2
<1>2. CASE UpdateMessage(r)
  <2>1. /\ pc[r] = "u_message"
        /\ \/ message' = message
           \/ message' = [message EXCEPT ![call[r].msg].markedTo = call[r].to]
    BY <1>2 DEF UpdateMessage
  <2> QED BY <1>0, <2>1 DEF MessageType
<1>3. CASE SendStatus(r)
  <2>1. /\ pc[r] = "s_status"
        /\ message' = [message EXCEPT ![call[r].msg].status = "send"]
    BY <1>3 DEF SendStatus
  <2> QED BY <1>0, <2>1 DEF MessageType
<1>4. CASE ReplySelect(r)
  BY <1>4, ReplySelectCases
<1>5. CASE ~(\/ ComposeMessage(r) \/ ReplyMessage(r) \/ ForwardCommit(r) \/ UpdateMessage(r)
             \/ SendStatus(r) \/ ReplySelect(r))
  <2>1. UNCHANGED message
    BY <1>5 DEF Start, Compose, Update, SendDraft, Reply, Forward, Trash, Delete, Restore, Mark,
       Fetch, Attachment, Continue, ComposeCount, ComposeRows, UpdateFiles, UpdateLock,
       UpdateScan, UpdatePatch,
       UpdateCommit, SendRows, WriteRow, LoseWrite, ReplySender, ReplyCommit, ForwardCount,
       MarkRows, AttachmentAdd, AttachmentRemove, Fail, Leak
  <2> QED BY <2>1
<1> QED BY <1>1, <1>2, <1>3, <1>4, <1>5

\* A message becomes a draft when composeMail writes one.
LEMMA NewDraft ==
  ASSUME TypeOK, ControlOK, DraftsOK, NEW r \in Requests,
         Start(r) \/ Continue(r) \/ Fail(r) \/ Leak(r),
         message'[r].status = "draft", message[r].status # "draft"
  PROVE  pc'[r] = "c_rows"
<1> USE DEF At
<1>1. ~Exists(r) /\ r \in DOMAIN message /\ r \in DOMAIN pc
  <2>1. CASE Exists(r)
    BY <2>1, MessageKept
  <2> QED BY <2>1 DEF TypeOK
<1>2. CASE ComposeMessage(r)
  BY <1>1, <1>2 DEF ComposeMessage, Goto
<1>3. CASE ReplyMessage(r) \/ ForwardCommit(r)
  <2>1. pc[r] \in Answering /\ message'[r].status = call[r].arg
    BY <1>1, <1>3 DEF ReplyMessage, ForwardCommit, Answering
  <2> QED BY <2>1 DEF DraftsOK, DraftControl
<1>4. CASE UpdateMessage(r) \/ SendStatus(r)
  <2>1. /\ pc[r] \in Editing
        /\ \/ message' = message
           \/ \E x : message' = [message EXCEPT ![call[r].msg] = x]
    BY <1>4 DEF UpdateMessage, SendStatus, Editing
  <2>2. call[r].msg # r
    BY <1>1, <2>1 DEF ControlOK, RequestOK
  <2> QED BY <1>1, <2>1, <2>2
<1>5. CASE ReplySelect(r)
  BY <1>5, ReplySelectCases
<1>6. CASE ~(\/ ComposeMessage(r) \/ ReplyMessage(r) \/ ForwardCommit(r) \/ UpdateMessage(r)
             \/ SendStatus(r) \/ ReplySelect(r))
  <2>1. UNCHANGED message
    BY <1>6 DEF Start, Compose, Update, SendDraft, Reply, Forward, Trash, Delete, Restore, Mark,
       Fetch, Attachment, Continue, ComposeCount, ComposeRows, UpdateFiles, UpdateLock,
       UpdateScan, UpdatePatch,
       UpdateCommit, SendRows, WriteRow, LoseWrite, ReplySender, ReplyCommit, ForwardCount,
       MarkRows, AttachmentAdd, AttachmentRemove, Fail, Leak
  <2> QED BY <2>1
<1> QED BY <1>2, <1>3, <1>4, <1>5, <1>6

-----------------------------------------------------------------------------
(* SerialOK is inductive.                                                     *)

\* While a mail is being sent, and before a message has rows, no row is written.
LEMMA QuietLabels ==
  ASSUME TypeOK, NEW r \in Requests, Start(r) \/ Continue(r) \/ Fail(r) \/ Leak(r)
  PROVE  /\ pc'[r] \in Fresh \/ pc[r] \in {"s_rows", "s_status"} => UNCHANGED rows
         /\ pc[r] = "s_rows" => pc'[r] = "s_status" \/ work'[r] = {}
         /\ pc[r] = "s_status" =>
              work'[r] = {} \/ (SendStatus(r) /\ work'[r] = work[r])
<1> USE DEF At, End
<1>0. r \in DOMAIN pc /\ r \in DOMAIN work
  BY DEF TypeOK
<1>1. /\ pc[r] = "s_rows" => SendRows(r) \/ Fail(r)
      /\ pc[r] = "s_status" => SendStatus(r) \/ Fail(r)
  <2>1. CASE Start(r)
    BY <2>1, StartLabels
  <2>2. CASE ~Start(r)
    <3>1. pc[r] = "s_status" => SendStatus(r) \/ Fail(r)
      BY <2>2, NextLabel
    <3>2. pc[r] = "s_rows" => SendRows(r) \/ Fail(r)
      BY <2>2 DEF Continue, ComposeCount, ComposeMessage, ComposeRows, UpdateFiles,
                  UpdateLock, UpdateScan,
         UpdatePatch, UpdateMessage, UpdateCommit, SendStatus, WriteRow, LoseWrite,
         ReplyMessage,
         ReplySelect, ReplySender, ReplyCommit, ForwardCount, ForwardCommit, MarkRows,
         AttachmentAdd, AttachmentRemove, Leak
    <3> QED BY <3>1, <3>2
  <2> QED BY <2>1, <2>2
<1>2. CASE pc[r] \in {"s_rows", "s_status"}
  <2>1. UNCHANGED rows
    BY <1>1, <1>2 DEF SendRows, SendStatus, Fail
  <2>2. Fail(r) => work'[r] = {}
    BY <1>0 DEF Fail, Drop
  <2>3. SendRows(r) => pc'[r] = "s_status"
    BY <1>0 DEF SendRows, Goto
  <2>4. SendStatus(r) => work'[r] = work[r]
    BY DEF SendStatus, locals
  <2> QED BY <1>1, <2>1, <2>2, <2>3, <2>4
<1>3. CASE pc[r] \notin {"s_rows", "s_status"}
  <2>1. CASE Start(r)
    BY <1>3, <2>1, StartEffect
  <2>2. CASE ReplySelect(r)
    BY <1>3, <2>2, ReplySelectCases
  <2>3. CASE WriteRow(r) \/ MarkRows(r) \/ ReplyCommit(r) \/ ReplySender(r)
    <3>1. pc'[r] \in {"writing", "losing", "failed", "done", "r_commit"}
      BY <1>0, <2>3 DEF WriteRow, MarkRows, ReplyCommit, ReplySender, Goto
    <3> QED BY <1>3, <3>1 DEF Fresh, Creating
  <2>4. CASE ComposeRows(r) \/ UpdateCommit(r) \/ ForwardCommit(r)
    <3>1. pc'[r] = "done"
      BY <1>0, <2>4 DEF ComposeRows, UpdateCommit, ForwardCommit, Goto
    <3> QED BY <1>3, <3>1 DEF Fresh, Creating
  <2>5. CASE ~(\/ Start(r) \/ ReplySelect(r) \/ WriteRow(r) \/ MarkRows(r) \/ ReplyCommit(r)
               \/ ReplySender(r) \/ ComposeRows(r) \/ UpdateCommit(r) \/ ForwardCommit(r))
    <3>1. UNCHANGED rows
      BY <2>5 DEF Continue, ComposeCount, ComposeMessage, UpdateFiles, UpdateLock, UpdateScan,
                  UpdatePatch,
         UpdateMessage, SendRows, SendStatus, LoseWrite, ReplyMessage, ForwardCount,
         AttachmentAdd, AttachmentRemove, Fail, Leak, locals
    <3> QED BY <1>3, <3>1
  <2> QED BY <2>1, <2>2, <2>3, <2>4, <2>5
<1> QED BY <1>2, <1>3

\* What a step of r leaves alone, in the terms of SerialOK.
LEMMA StepFrame ==
  ASSUME TypeOK, TypeOK', ControlOK, NEW r \in Requests,
         Start(r) \/ Continue(r) \/ Fail(r) \/ Leak(r)
  PROVE  /\ Keeps(r) /\ pc[r] \notin Ended /\ pc'[r] # "idle"
         /\ \A m \in Requests : pc[m] # "idle" => pc'[m] # "idle" /\ call'[m] = call[m]
         /\ \A m \in Requests : pc[m] \in Ended => m # r /\ pc'[m] = pc[m]
         /\ \A m \in Requests : Exists(m) => pc[m] # "idle"
         /\ Start(r) \/ (pc'[r] \in Ended \/ <<pc[r], pc'[r]>> \in Follows)
<1>1. Keeps(r)
  BY StepKeeps
<1>2. \A m \in Requests : Exists(m) => pc[m] # "idle"
  BY DEF ControlOK, RequestOK, Exists, NoMessage
<1>3. CASE Start(r)
  BY <1>1, <1>2, <1>3, StartLabels DEF Ended, Keeps
<1>4. CASE ~Start(r)
  <2>1. /\ UNCHANGED call /\ pc[r] \notin Ended \cup {"idle"}
        /\ pc'[r] \in Ended \/ <<pc[r], pc'[r]>> \in Follows
    BY <1>4, StepLabels
  <2>2. pc'[r] # "idle"
    BY <2>1 DEF Follows, Ended
  <2> QED BY <1>1, <1>2, <2>1, <2>2 DEF Keeps
<1> QED BY <1>3, <1>4

\* A handler stays at the statements of its operation.
LEMMA StepOp ==
  ASSUME TypeOK, TypeOK', ControlOK, SerialOK, NEW r \in Requests,
         Start(r) \/ Continue(r) \/ Fail(r) \/ Leak(r), NEW q \in Requests
  PROVE  OpOK(q)'
<1>1. CASE q # r
  <2>1. pc'[q] = pc[q] /\ call'[q] = call[q] /\ OpOK(q)
    BY <1>1, StepFrame DEF SerialOK, Keeps
  <2> QED BY <2>1 DEF OpOK
<1>2. CASE Start(r) /\ q = r
  BY <1>2, StartLabels
<1>3. CASE ~Start(r) /\ q = r
  <2>1. /\ UNCHANGED call /\ OpOK(r)
        /\ pc'[r] \in Ended \/ <<pc[r], pc'[r]>> \in Follows
    BY <1>3, StepLabels DEF SerialOK
  <2> QED BY <1>3, <2>1 DEF OpOK, Follows, Ended, Updating
<1> QED BY <1>1, <1>2, <1>3

\* Users keep waiting for one request at a time, and drafts keep being handled
\* for their authors.
LEMMA StepOwner ==
  ASSUME SerialCalls, TypeOK, TypeOK', ControlOK, DraftsOK, SerialOK, NEW r \in Requests,
         Start(r) \/ Continue(r) \/ Fail(r) \/ Leak(r), NEW q \in Requests
  PROVE  OwnerOK(q)'
<1>0. /\ Keeps(r) /\ pc[r] \notin Ended /\ pc'[r] # "idle"
      /\ \A m \in Requests : pc[m] # "idle" => pc'[m] # "idle" /\ call'[m] = call[m]
      /\ \A m \in Requests : pc[m] \in Ended => m # r /\ pc'[m] = pc[m]
      /\ \A m \in Requests : Exists(m) => pc[m] # "idle"
      /\ Start(r) \/ (pc'[r] \in Ended \/ <<pc[r], pc'[r]>> \in Follows)
  BY StepFrame
<1>00. \A p \in Requests : OwnerOK(p) /\ FreshOK(p)
  BY DEF SerialOK
<1>1. message'[q].status = "draft" => pc'[q] \in {"c_rows"} \cup Ended
  <2> SUFFICES ASSUME message'[q].status = "draft" PROVE pc'[q] \in {"c_rows"} \cup Ended
    OBVIOUS
  <2>1. CASE q = r
    <3>1. CASE message[r].status = "draft"
      <4>1. pc[r] = "c_rows"
        BY <1>0, <1>00, <3>1 DEF OwnerOK
      <4>2. ~Start(r)
        BY <4>1, StartLabels
      <4> QED BY <1>0, <2>1, <4>1, <4>2 DEF Follows
    <3> QED BY <2>1, <3>1, NewDraft
  <2>2. CASE q # r
    <3>1. CASE Exists(q)
      BY <1>0, <1>00, <2>2, <3>1 DEF Keeps, OwnerOK
    <3>2. CASE ~Exists(q)
      <4>1. message'[q] = NoMessage
        BY <1>0, <2>2, <3>2 DEF Keeps, Exists, TypeOK, MessageType
      <4> QED BY <4>1 DEF NoMessage
    <3> QED BY <3>1, <3>2
  <2> QED BY <2>1, <2>2
<1>2. ASSUME pc'[q] \in Drafting
      PROVE  \E m \in Requests :
               /\ m = call'[q].msg /\ message'[m].status = "draft" /\ pc'[m] \in Ended
               /\ call'[q].user = call'[m].user
  <2>1. CASE q # r
    <3>1. pc'[q] = pc[q] /\ call'[q] = call[q] /\ pc[q] \in Drafting
      BY <1>0, <1>2, <2>1 DEF Keeps
    <3>2. PICK m \in Requests : m = call[q].msg
      BY <3>1, CallAtType DEF Drafting, Updating
    <3>3. /\ message[m].status = "draft" /\ pc[m] \in Ended
          /\ call[q].user = call[m].user
      BY <1>00, <3>1, <3>2 DEF OwnerOK
    <3>4. ~(m = call[r].msg /\ pc[r] = "s_status")
      <4>1. ASSUME m = call[r].msg, pc[r] = "s_status" PROVE FALSE
        <5>1. call[r].user = call[m].user
          BY <1>00, <4>1 DEF OwnerOK, Drafting
        <5>2. Waits(r) /\ Waits(q)
          BY <3>1, <4>1 DEF Waits, Busy, Ended, Drafting, Updating
        <5> QED BY <1>00, <2>1, <3>3, <5>1, <5>2 DEF OwnerOK
      <4> QED BY <4>1
    <3>5. message'[m].status = "draft"
      BY <3>3, <3>4, MessageKept DEF Exists
    <3>6. pc'[m] \in Ended /\ call'[m] = call[m]
      BY <1>0, <3>3 DEF Ended
    <3> QED BY <3>1, <3>2, <3>3, <3>5, <3>6
  <2>2. CASE q = r /\ Start(r)
    <3>1. PICK u \in Users, m \in Requests :
            /\ call'[r].user = u /\ call'[r].msg = m
            /\ Knows(u, m) /\ IsDraft(m)
      BY <1>2, <2>2, StartLabels DEF SerialCalls
    <3>2. PICK x \in rows : x.party = u /\ x.msg = m
      BY <3>1 DEF Knows
    <3>3. message[m].status = "draft" /\ u = call[m].user
      BY <3>1, <3>2 DEF SerialOK, Authored, IsDraft
    <3>4. pc[m] \in Ended
      BY <1>00, <3>2, <3>3 DEF OwnerOK, FreshOK, Fresh
    <3>5. pc'[m] \in Ended /\ call'[m] = call[m] /\ UNCHANGED message
      BY <1>0, <2>2, <3>4, StartEffect DEF Ended
    <3> QED BY <2>2, <3>1, <3>3, <3>5
  <2>3. CASE q = r /\ ~Start(r)
    <3>1. /\ pc[r] \in Drafting /\ pc[r] # "s_status" /\ call'[r] = call[r]
          /\ pc[r] # "idle"
      BY <1>0, <1>2, <2>3, StepLabels DEF Follows, Drafting, Updating, Ended
    <3>2. PICK m \in Requests : m = call[r].msg
      BY <3>1, CallAtType
    <3>3. /\ message[m].status = "draft" /\ pc[m] \in Ended
          /\ call[r].user = call[m].user
      BY <1>00, <3>1, <3>2 DEF OwnerOK
    <3>4. message'[m].status = "draft"
      BY <3>1, <3>3, MessageKept DEF Exists
    <3>5. pc'[m] \in Ended /\ call'[m] = call[m]
      BY <1>0, <3>3 DEF Ended
    <3> QED BY <2>3, <3>1, <3>2, <3>3, <3>4, <3>5
  <2> QED BY <2>1, <2>2, <2>3
<1>3. ASSUME NEW p \in Requests, Waits(p)', Waits(q)', call'[p].user = call'[q].user
      PROVE  p = q
  <2>1. ASSUME NEW s \in Requests, s # r, Waits(s)' PROVE Waits(s) /\ call'[s] = call[s]
    BY <1>0, <2>1 DEF Keeps, Waits, Busy
  <2>2. CASE Start(r)
    <3>1. \A s \in Requests : Waits(s) => call[s].user # call'[r].user
      BY <2>2, StartLabels DEF SerialCalls
    <3> QED BY <1>00, <1>3, <2>1, <3>1 DEF OwnerOK
  <2>3. CASE ~Start(r)
    <3>1. Waits(r)' => Waits(r) /\ call'[r] = call[r]
      BY <1>0, <2>3, StepLabels DEF Waits, Busy, Follows, Ended
    <3> QED BY <1>00, <1>3, <2>1, <3>1 DEF OwnerOK
  <2> QED BY <2>2, <2>3
<1> QED BY <1>1, <1>2, <1>3 DEF OwnerOK

\* No row of a message is written before the request that writes the message
\* gets to its rows.
LEMMA StepFresh ==
  ASSUME TypeOK, TypeOK', ControlOK, SerialOK, NEW r \in Requests,
         Start(r) \/ Continue(r) \/ Fail(r) \/ Leak(r), NEW q \in Requests
  PROVE  FreshOK(q)'
<1> SUFFICES ASSUME pc'[q] \in Fresh
             PROVE  /\ \A x \in rows' : x.msg # q
                    /\ \A p \in Requests \ {q} : \A x \in work'[p] : x.msg # q
  BY DEF FreshOK
<1>0. /\ Keeps(r) /\ Effect(r) /\ FreshOK(q) /\ OwnerOK(r)
      /\ Start(r) \/ (pc'[r] \in Ended \/ <<pc[r], pc'[r]>> \in Follows)
  BY StepFrame, StepEffect DEF SerialOK
<1>1. CASE q = r
  <2>1. pc[r] \in Fresh
    <3>1. CASE Start(r)
      BY <3>1, StartLabels DEF Fresh
    <3>2. CASE ~Start(r)
      BY <1>0, <1>1, <3>2 DEF Follows, Ended, Fresh, Creating
    <3> QED BY <3>1, <3>2
  <2>2. UNCHANGED rows /\ \A p \in Requests : p # r => work'[p] = work[p]
    BY <1>0, <1>1, QuietLabels DEF Effect
  <2> QED BY <1>0, <1>1, <2>1, <2>2 DEF FreshOK
<1>2. CASE q # r
  <2>1. pc[q] \in Fresh
    BY <1>0, <1>2 DEF Keeps
  <2>2. \A y \in rows \cup work[r] : y.msg # q
    BY <1>0, <1>2, <2>1 DEF FreshOK
  <2>3. ASSUME NEW x, Makes(r, x) PROVE x.msg # q
    <3>1. pc[r] \in {"u_commit", "s_rows"} => pc[call[r].msg] \in Ended
      BY <1>0 DEF OwnerOK, Drafting, Updating
    <3> QED BY <1>2, <2>1, <2>3, <3>1 DEF Makes, Fresh, Creating, Ended
  <2>4. \A x \in rows' \cup work'[r] : x.msg # q
    BY <1>0, <2>2, <2>3 DEF Effect, From
  <2> QED BY <1>0, <1>2, <2>1, <2>4 DEF Effect, FreshOK
<1> QED BY <1>1, <1>2

\* A row keeps its target and, since nothing turns into a draft, its owner.
LEMMA TargetKept ==
  ASSUME TypeOK, TypeOK', ControlOK, NEW r \in Requests,
         Start(r) \/ Continue(r) \/ Fail(r) \/ Leak(r),
         NEW x \in RowType, Fits(x), Targeted(x)
  PROVE  Targeted(x)' /\ (Authored(x) => Authored(x)')
<1>1. x.msg \in Requests /\ Exists(x.msg)
  BY DEF Fits, Rooted, RowType
<1>2. pc'[x.req] # "idle" /\ call'[x.req] = call[x.req] /\ call'[x.msg] = call[x.msg]
  BY <1>1, StepFrame DEF Targeted
<1>3. message'[x.msg].status = "draft" => message[x.msg].status = "draft"
  BY <1>1, StepFrame DEF Keeps
<1> QED BY <1>2, <1>3 DEF Targeted, Authored

\* So do the rows that come from it.
LEMMA FromKept ==
  ASSUME NEW x, NEW y, From(x, y)
  PROVE  (Targeted(y) => Targeted(x)) /\ (Authored(y) => Authored(x))
BY DEF From, SameRow, Targeted, Authored

\* What a request makes is about its message, and of a draft it makes the
\* author's row only.
LEMMA MadeOwn ==
  ASSUME SerialCalls, TypeOK, TypeOK', ControlOK, DraftsOK, SerialOK, NEW r \in Requests,
         Start(r) \/ Continue(r) \/ Fail(r) \/ Leak(r), NEW x, Makes(r, x)
  PROVE  Targeted(x)' /\ (pc[r] # "s_rows" => Authored(x)')
<1>1. /\ OpOK(r) /\ OwnerOK(r) /\ DraftControl(r) /\ RequestOK(r)
      /\ pc[r] # "idle" /\ pc'[r] # "idle" /\ call'[r] = call[r] /\ x.req = r
      /\ ~Start(r) /\ (pc'[r] \in Ended \/ <<pc[r], pc'[r]>> \in Follows)
  BY StepFrame, StartLabels DEF SerialOK, DraftsOK, ControlOK, Makes
<1>2. x.msg \in Requests /\ x.msg = IF call[r].op = "reply" THEN r ELSE call[r].msg
  BY <1>1, CallAtType DEF Makes, OpOK, Updating
<1>3. Targeted(x)'
  BY <1>1, <1>2 DEF Targeted
<1>4. ASSUME pc[r] # "s_rows", message'[x.msg].status = "draft"
      PROVE  x.party = call'[x.msg].user
  <2>1. CASE pc[r] \in Created
    <3>1. message[r].status = "draft" /\ x.msg = r
      BY <1>1, <1>4, <2>1, StepFrame DEF Makes, Created, RequestOK, Keeps
    <3>2. call[r].arg = "draft" /\ pc[r] = "c_rows"
      BY <1>1, <2>1, <3>1 DEF DraftControl, Created, Answering
    <3> QED BY <1>1, <3>1, <3>2 DEF Makes
  <2>2. CASE pc[r] = "f_commit"
    <3>1. x.msg = r /\ message[r].status # "draft"
      BY <1>1, <2>2 DEF Makes, RequestOK, Creating, NoMessage
    <3>2. pc'[r] = "c_rows"
      BY <1>4, <3>1, NewDraft
    <3> QED BY <1>1, <2>2, <3>2 DEF Follows, Ended
  <2>3. CASE pc[r] = "u_commit"
    <3>1. call[r].arg = "draft" /\ x.msg = call[r].msg
      BY <1>1, <2>3 DEF DraftControl, Updating, Makes
    <3>2. x.party = call[r].user /\ call[r].user = call[x.msg].user /\ pc[x.msg] \in Ended
      BY <1>1, <2>3, <3>1 DEF Makes, OwnerOK, Drafting, Updating
    <3>3. call'[x.msg] = call[x.msg]
      BY <1>2, <3>2, StepFrame DEF Ended
    <3> QED BY <3>2, <3>3
  <2> QED BY <1>4, <2>1, <2>2, <2>3 DEF Makes, Created
<1> QED BY <1>3, <1>4 DEF Authored

\* The invariant is inductive.
LEMMA SerialKept ==
  ASSUME SerialCalls, TypeOK, TypeOK', ControlOK, RowsOK, DraftsOK, SerialOK,
         NEW r \in Requests, Start(r) \/ Continue(r) \/ Fail(r) \/ Leak(r)
  PROVE  SerialOK'
<1>0. Keeps(r) /\ Effect(r)
  BY StepFrame, StepEffect
<1>1. ASSUME NEW x \in rows \cup work[r]
      PROVE  Targeted(x)' /\ (Authored(x) => Authored(x)')
  BY TargetKept DEF RowsOK, SerialOK, TypeOK
<1>2. ASSUME NEW x \in rows' \cup work'[r] PROVE Targeted(x)'
  <2>1. CASE Makes(r, x)
    BY <2>1, MadeOwn
  <2>2. CASE \E y \in rows \cup work[r] : From(x, y)
    <3>1. PICK y \in rows \cup work[r] : From(x, y)
      BY <2>2
    <3>2. Targeted(y)' /\ x.req = y.req /\ x.msg = y.msg
      BY <1>1, <3>1 DEF From, SameRow
    <3> QED BY <3>2 DEF Targeted
  <2> QED BY <1>0, <1>2, <2>1, <2>2 DEF Effect
<1>3. ASSUME NEW x \in rows' \cup work'[r], pc[r] \notin {"s_rows", "s_status"}
      PROVE  Authored(x)'
  <2>1. CASE Makes(r, x)
    BY <1>3, <2>1, MadeOwn
  <2>2. CASE \E y \in rows \cup work[r] : From(x, y)
    <3>1. PICK y \in rows \cup work[r] : From(x, y)
      BY <2>2
    <3>2. Authored(y)
      BY <1>3, <3>1 DEF SerialOK
    <3>3. Authored(y)' /\ x.party = y.party /\ x.msg = y.msg
      BY <1>1, <3>1, <3>2 DEF From, SameRow
    <3> QED BY <3>3 DEF Authored
  <2> QED BY <1>0, <1>3, <2>1, <2>2 DEF Effect
<1>4. ASSUME NEW x \in rows' PROVE Authored(x)'
  <2>1. CASE pc[r] \in {"s_rows", "s_status"}
    <3>1. x \in rows
      BY <2>1, QuietLabels
    <3> QED BY <1>1, <3>1 DEF SerialOK
  <2> QED BY <1>3, <1>4, <2>1
<1>5. ASSUME NEW x \in work'[r], pc'[r] # "s_status" PROVE Authored(x)'
  <2>1. CASE pc[r] = "s_rows"
    BY <1>5, <2>1, QuietLabels
  <2>2. CASE pc[r] = "s_status"
    <3>1. SendStatus(r) /\ x \in work[r]
      BY <1>5, <2>2, QuietLabels
    <3>2. x.msg = call[r].msg
      BY <2>2, <3>1 DEF DraftsOK, WorkPrivate
    <3>3. x.msg \in Requests /\ x.msg \in DOMAIN message
      BY <2>2, <3>2, CallAtType DEF TypeOK
    <3>4. message'[x.msg].status = "send"
      <4>1. message[x.msg] \in {NoMessage} \cup MessageType
        BY <3>3 DEF TypeOK
      <4>2. message' = [message EXCEPT ![x.msg].status = "send"]
        BY <3>1, <3>2 DEF SendStatus
      <4> QED BY <3>3, <4>1, <4>2 DEF MessageType, NoMessage
    <3> QED BY <3>4 DEF Authored
  <2> QED BY <1>3, <1>5, <2>1, <2>2
<1>6. ASSUME NEW q \in Requests, NEW x \in work'[q]
      PROVE  Targeted(x)' /\ (pc'[q] # "s_status" => Authored(x)')
  <2>1. CASE q = r
    BY <1>2, <1>5, <1>6, <2>1
  <2>2. CASE q # r
    <3>1. x \in work[q] /\ pc'[q] = pc[q]
      BY <1>0, <1>6, <2>2 DEF Effect, Keeps
    <3>2. x \in RowType /\ Fits(x) /\ Targeted(x) /\ (pc[q] # "s_status" => Authored(x))
      BY <3>1 DEF RowsOK, SerialOK, TypeOK
    <3> QED BY <3>1, <3>2, TargetKept
  <2> QED BY <2>1, <2>2
<1> QED BY <1>2, <1>4, <1>6, StepOp, StepOwner, StepFresh DEF SerialOK

-----------------------------------------------------------------------------
(* What a handler holds, by its label: rows of its message, which are in the *)
(* table unless sendDraft is to create them, and which it does not file as   *)
(* drafts.                                                                   *)

Replacing == {"u_patch", "u_message", "u_commit"}
HoldsOK(r) ==
  /\ pc[r] = "done" => work[r] = {}
  /\ pc[r] \in {"r_sender", "r_commit"} => \A x \in work[r] : x.msg = r /\ x.type = "to"
  /\ pc[r] \in Replacing => \A x \in work[r] : x.msg = call[r].msg
  /\ pc[r] \in {"u_lock", "u_scan"} \cup Replacing =>
       \A f \in workFiles[r] : f.msg = call[r].msg
  /\ pc[r] \in Filing =>
       \A x \in work[r] :
         /\ ~x.deleted => x.storage # "draft"
         /\ \/ \E y \in rows : SameRow(y, x)
            \/ call[r].op = "sendDraft" /\ x.type = "to"
AllHold == \A r \in Requests : HoldsOK(r)

\* The statement a handler is at is the one it takes, unless it fails.
LEMMA AtLabel ==
  ASSUME NEW r \in Requests, Continue(r) \/ Fail(r) \/ Leak(r)
  PROVE  /\ pc[r] = "c_rows" => ComposeRows(r) \/ Fail(r)
         /\ pc[r] = "u_files" => UpdateFiles(r) \/ Fail(r)
         /\ pc[r] = "u_lock" => UpdateLock(r) \/ Fail(r)
         /\ pc[r] = "u_scan" => UpdateScan(r) \/ Fail(r) \/ Leak(r)
         /\ pc[r] = "u_patch" => UpdatePatch(r) \/ Fail(r) \/ Leak(r)
         /\ pc[r] = "u_message" => UpdateMessage(r) \/ Fail(r) \/ Leak(r)
         /\ pc[r] = "u_commit" => UpdateCommit(r) \/ Fail(r) \/ Leak(r)
         /\ pc[r] = "s_rows" => SendRows(r) \/ Fail(r)
         /\ pc[r] = "s_status" => SendStatus(r) \/ Fail(r)
         /\ pc[r] \in {"writing", "losing"} => WriteRow(r) \/ LoseWrite(r) \/ Fail(r)
         /\ pc[r] = "r_select" => ReplySelect(r) \/ Fail(r)
         /\ pc[r] = "r_sender" => ReplySender(r) \/ Fail(r)
         /\ pc[r] = "r_commit" => ReplyCommit(r) \/ Fail(r)
         /\ pc[r] = "f_commit" => ForwardCommit(r) \/ Fail(r)
         /\ pc[r] = "m_rows" => MarkRows(r) \/ Fail(r)
         /\ pc[r] = "a_add" => AttachmentAdd(r) \/ Fail(r)
         /\ pc[r] = "a_remove" => AttachmentRemove(r) \/ Fail(r)
BY DEF Continue, ComposeCount, ComposeMessage, ComposeRows, UpdateFiles, UpdateLock,
       UpdateScan, UpdatePatch, UpdateMessage, UpdateCommit, SendRows, SendStatus, WriteRow,
       LoseWrite, ReplyMessage, ReplySelect, ReplySender, ReplyCommit, ForwardCount, ForwardCommit,
       MarkRows, AttachmentAdd, AttachmentRemove, Leak, At

\* A handler that fails holds nothing.
LEMMA FailDrops ==
  ASSUME TypeOK, NEW r \in Requests, Fail(r)
  PROVE  /\ pc'[r] = "failed" /\ work'[r] = {} /\ workFiles'[r] = {}
         /\ UNCHANGED <<rows, files, message, call>>
BY DEF Fail, End, Goto, Drop, TypeOK

\* What a write of one of several rows does.
LEMMA WriteCases ==
  ASSUME TypeOK, NEW r \in Requests, WriteRow(r) \/ LoseWrite(r)
  PROVE  /\ pc[r] \in {"writing", "losing"} /\ UNCHANGED <<message, files, call>>
         /\ \E w \in work[r] :
              /\ work'[r] = work[r] \ {w}
              /\ pc'[r] = "done" => work[r] = {w} /\ WriteRow(r)
              /\ \/ WriteRow(r) /\ rows' = {x \in rows : ~SameRow(x, w)} \cup {w}
                 \/ LoseWrite(r) /\ UNCHANGED rows /\ pc'[r] \in {"losing", "failed"}
<1>0. r \in DOMAIN pc /\ r \in DOMAIN work
  BY DEF TypeOK
<1>1. CASE WriteRow(r)
  BY <1>0, <1>1 DEF WriteRow, Goto
<1>2. CASE LoseWrite(r)
  BY <1>0, <1>2 DEF LoseWrite, Goto
<1> QED BY <1>1, <1>2

\* What sendDraft collects.
LEMMA Collected ==
  ASSUME SerialCalls, TypeOK, NEW r \in Requests, SendRows(r)
  PROVE  /\ pc[r] = "s_rows" /\ pc'[r] = "s_status" /\ UNCHANGED <<rows, files, message, call>>
         /\ \A x \in work'[r] :
              \/ \E y \in Live(call[r].msg) :
                   \/ x = y /\ y.type # "from"
                   \/ x = [y EXCEPT !.storage = "send"] /\ y.type = "from"
              \/ \E p \in call[r].to : x = NewRow(r, call[r].msg, p, "to", "inbox", "new")
         /\ \A y \in Live(call[r].msg) : \E x \in work'[r] : From(x, y)
         /\ \A p \in call[r].to : NewRow(r, call[r].msg, p, "to", "inbox", "new") \in work'[r]
<1> DEFINE m == call[r].msg
           image(x) == IF x.type = "from" THEN [x EXCEPT !.storage = "send"] ELSE x
           old == {image(x) : x \in Live(m)}
           new == {NewRow(r, m, p, "to", "inbox", "new") : p \in call[r].to}
<1>1. /\ pc[r] = "s_rows" /\ pc'[r] = "s_status" /\ UNCHANGED <<rows, files, message, call>>
      /\ work'[r] = old \cup new
  BY SendRowsOwn DEF SerialCalls, Goto, TypeOK
<1>2. ASSUME NEW y \in Live(m) PROVE From(image(y), y)
  <2>1. y \in RowType
    BY DEF Live, TypeOK
  <2> QED BY <2>1, FiledFrom
<1>3. \A x \in old : \E y \in Live(m) :
        \/ x = y /\ y.type # "from"
        \/ x = [y EXCEPT !.storage = "send"] /\ y.type = "from"
  OBVIOUS
<1>4. \A y \in Live(m) : image(y) \in old
  OBVIOUS
<1>5. \A x \in new : \E p \in call[r].to : x = NewRow(r, m, p, "to", "inbox", "new")
  OBVIOUS
<1>6. \A p \in call[r].to : NewRow(r, m, p, "to", "inbox", "new") \in new
  OBVIOUS
<1> HIDE DEF m, image, old, new
<1>7. \A x \in work'[r] :
        \/ \E y \in Live(m) :
             \/ x = y /\ y.type # "from"
             \/ x = [y EXCEPT !.storage = "send"] /\ y.type = "from"
        \/ \E p \in call[r].to : x = NewRow(r, m, p, "to", "inbox", "new")
  BY <1>1, <1>3, <1>5
<1>8. \A y \in Live(m) : \E x \in work'[r] : From(x, y)
  BY <1>1, <1>2, <1>4
<1>9. \A p \in call[r].to : NewRow(r, m, p, "to", "inbox", "new") \in work'[r]
  BY <1>1, <1>6
<1> QED BY <1>1, <1>7, <1>8, <1>9 DEF m

\* Trashing, deleting and restoring are what starts with rows to file: rows of the
\* user in one storage.
LEMMA FilingCases ==
  ASSUME SerialCalls, TypeOK, NEW r \in Requests, Start(r), pc'[r] \in Filing
  PROVE  /\ call'[r].op # "sendDraft"
         /\ \E u, st : \E S \in SUBSET rows :
              /\ call'[r].user = u
              /\ \A x \in S : ~x.deleted /\ x.party = u /\ x.storage = st
              /\ \/ st \in {"send", "inbox"} /\ work'[r] = {Trashed(x) : x \in S}
                 \/ st \in {"trash", "draft"} /\ work'[r] = {Deleted(x) : x \in S}
                 \/ st = "trash" /\ work'[r] = {Restored(x) : x \in S}
<1>0. r \in DOMAIN work /\ r \in DOMAIN call
  BY DEF TypeOK
<1>00. ASSUME NEW u, NEW m, NEW st
       PROVE  /\ Filed(u, m, st) \subseteq rows
              /\ \A x \in Filed(u, m, st) : ~x.deleted /\ x.party = u /\ x.storage = st
  BY DEF Filed, SerialCalls, Overridden
<1>1. CASE Trash(r)
  <2>1. PICK u, m, st :
          /\ call' = [call EXCEPT ![r] = About("trash", st, u, m)] /\ st \in {"send", "inbox"}
          /\ \E S \in SUBSET Filed(u, m, st) :
               work' = [work EXCEPT ![r] = {Trashed(x) : x \in S}]
    BY <1>1 DEF Trash, Begin, Storages
  <2>2. PICK S \in SUBSET Filed(u, m, st) :
          work' = [work EXCEPT ![r] = {Trashed(x) : x \in S}]
    BY <2>1
  <2>3. call'[r].user = u /\ call'[r].op = "trash"
    BY <1>0, <2>1 DEF About, Request
  <2>4. S \in SUBSET rows /\ \A x \in S : ~x.deleted /\ x.party = u /\ x.storage = st
    BY <1>00
  <2>5. work'[r] = {Trashed(x) : x \in S}
    BY <1>0, <2>2
  <2> QED BY <2>1, <2>3, <2>4, <2>5
<1>2. CASE Delete(r)
  <2>1. PICK u, m, st :
          /\ call' = [call EXCEPT ![r] = About("delete", st, u, m)] /\ st \in {"trash", "draft"}
          /\ \E S \in SUBSET Filed(u, m, st) :
               work' = [work EXCEPT ![r] = {Deleted(x) : x \in S}]
    BY <1>2 DEF Delete, Begin
  <2>2. PICK S \in SUBSET Filed(u, m, st) :
          work' = [work EXCEPT ![r] = {Deleted(x) : x \in S}]
    BY <2>1
  <2>3. call'[r].user = u /\ call'[r].op = "delete"
    BY <1>0, <2>1 DEF About, Request
  <2>4. S \in SUBSET rows /\ \A x \in S : ~x.deleted /\ x.party = u /\ x.storage = st
    BY <1>00
  <2>5. work'[r] = {Deleted(x) : x \in S}
    BY <1>0, <2>2
  <2> QED BY <2>1, <2>3, <2>4, <2>5
<1>3. CASE Restore(r)
  <2>1. PICK u, m :
          /\ call' = [call EXCEPT ![r] = About("restore", "trash", u, m)]
          /\ \E S \in SUBSET Filed(u, m, "trash") :
               work' = [work EXCEPT ![r] = {Restored(x) : x \in S}]
    BY <1>3 DEF Restore, Begin
  <2>2. PICK S \in SUBSET Filed(u, m, "trash") :
          work' = [work EXCEPT ![r] = {Restored(x) : x \in S}]
    BY <2>1
  <2>3. call'[r].user = u /\ call'[r].op = "restore"
    BY <1>0, <2>1 DEF About, Request
  <2>4. S \in SUBSET rows /\ \A x \in S : ~x.deleted /\ x.party = u /\ x.storage = "trash"
    BY <1>00
  <2>5. work'[r] = {Restored(x) : x \in S}
    BY <1>0, <2>2
  <2> QED BY <2>3, <2>4, <2>5
<1>4. CASE ~(Trash(r) \/ Delete(r) \/ Restore(r))
  <2>1. pc'[r] \notin Filing
    <3>1. r \in DOMAIN pc
      BY DEF TypeOK
    <3> QED BY <1>4, <3>1 DEF Start, Compose, Update, SendDraft, Reply, Forward, Mark, Fetch,
                    Attachment, Goto, Filing
  <2> QED BY <2>1
<1> QED BY <1>1, <1>2, <1>3, <1>4

\* What a filing request starts with: rows its user holds, filed elsewhere.
LEMMA FilingStarts ==
  ASSUME SerialCalls, TypeOK, NEW r \in Requests, Start(r), pc'[r] \in Filing
  PROVE  \A x \in work'[r] :
           /\ ~x.deleted => x.storage # "draft"
           /\ \E y \in rows : /\ From(x, y) /\ ~y.deleted /\ y.party = call'[r].user
                              /\ x.visibility = y.visibility
                              /\ x.deleted \/ y.storage # "draft"
<1>1. PICK u, st : \E S \in SUBSET rows :
        /\ call'[r].user = u
        /\ \A x \in S : ~x.deleted /\ x.party = u /\ x.storage = st
        /\ \/ st \in {"send", "inbox"} /\ work'[r] = {Trashed(x) : x \in S}
           \/ st \in {"trash", "draft"} /\ work'[r] = {Deleted(x) : x \in S}
           \/ st = "trash" /\ work'[r] = {Restored(x) : x \in S}
  BY FilingCases
<1> PICK S \in SUBSET rows :
      /\ call'[r].user = u
      /\ \A x \in S : ~x.deleted /\ x.party = u /\ x.storage = st
      /\ \/ st \in {"send", "inbox"} /\ work'[r] = {Trashed(x) : x \in S}
         \/ st \in {"trash", "draft"} /\ work'[r] = {Deleted(x) : x \in S}
         \/ st = "trash" /\ work'[r] = {Restored(x) : x \in S}
  BY <1>1
<1>2. ASSUME NEW y \in S
      PROVE  /\ y \in rows /\ y \in RowType /\ ~y.deleted /\ y.party = u /\ y.storage = st
             /\ From(Trashed(y), y) /\ From(Deleted(y), y) /\ From(Restored(y), y)
             /\ Trashed(y).storage = "trash" /\ Deleted(y).deleted
             /\ Restored(y).storage \in {"inbox", "send"}
             /\ Trashed(y).visibility = y.visibility
             /\ Deleted(y).visibility = y.visibility
             /\ Restored(y).visibility = y.visibility
  <2>1. y \in rows /\ y \in RowType /\ ~y.deleted /\ y.party = u /\ y.storage = st
    BY DEF TypeOK
  <2> QED BY <2>1, FiledFrom DEF Trashed, Deleted, Restored, RowType
<1> QED BY <1>1, <1>2

\* The rows a handler files are still there after the step of any request.
LEMMA MatesKept ==
  ASSUME NEW r \in Requests, Effect(r), NEW x, NEW y \in rows, SameRow(y, x)
  PROVE  \E z \in rows' : SameRow(z, x)
BY DEF Effect, From, SameRow

\* A request that ends well holds nothing.
LEMMA DoneHolds ==
  ASSUME TypeOK, NEW r \in Requests, Continue(r) \/ Fail(r) \/ Leak(r), pc'[r] = "done"
  PROVE  work'[r] = {}
<1>0. r \in DOMAIN work /\ r \in DOMAIN pc
  BY DEF TypeOK
<1>1. CASE WriteRow(r) \/ LoseWrite(r)
  BY <1>1, WriteCases
<1>2. CASE SendStatus(r)
  BY <1>0, <1>2 DEF SendStatus, Goto, locals
<1>3. CASE ReplySelect(r)
  <2>1. r \in DOMAIN pc /\ (End(r, "failed") \/ Goto(r, "r_sender"))
    BY <1>0, <1>3, ReplySelectCases
  <2> QED BY <2>1 DEF End, Goto
<1>4. CASE ~(WriteRow(r) \/ LoseWrite(r) \/ SendStatus(r) \/ ReplySelect(r))
  <2>1. End(r, "done") \/ \E l : l # "done" /\ Goto(r, l)
    BY <1>4 DEF Continue, ComposeCount, ComposeMessage, ComposeRows, UpdateFiles, UpdateLock,
                UpdateScan, UpdatePatch,
       UpdateMessage, UpdateCommit, SendRows, ReplyMessage, ReplySender, ReplyCommit,
       ForwardCount, ForwardCommit, MarkRows, AttachmentAdd, AttachmentRemove, Fail, Leak, End
  <2> QED BY <1>0, <2>1 DEF End, Goto, Drop
<1> QED BY <1>1, <1>2, <1>3, <1>4

\* What replyMail collects is for the new message.
LEMMA ReplyHolds ==
  ASSUME TypeOK, NEW r \in Requests, ReplySelect(r)
  PROVE  \A x \in work'[r] : x.msg = r /\ x.type = "to"
<1>0. r \in DOMAIN work
  BY DEF TypeOK
<1>1. CASE End(r, "failed")
  BY <1>0, <1>1 DEF End, Drop
<1>2. CASE ~End(r, "failed")
  <2>1. PICK num \in [Answered(r) -> 1 .. Cardinality(Answered(r))] :
          work' = [work EXCEPT ![r] =
            {[NewRow(r, r, x.party, "to", "inbox", "new") EXCEPT !.num = num[x]]
               : x \in Answered(r)}]
    BY <1>2, ReplySelectCases, Zenon
  <2>2. ASSUME NEW x \in work'[r] PROVE x.msg = r /\ x.type = "to"
    <3>1. PICK y \in Answered(r) :
            x = [NewRow(r, r, y.party, "to", "inbox", "new") EXCEPT !.num = num[y]]
      BY <1>0, <2>1, <2>2
    <3> QED BY <3>1 DEF NewRow
  <2> QED BY <2>2
<1> QED BY <1>1, <1>2

\* What a handler holds keeps fitting its label.
LEMMA OwnHolds ==
  ASSUME SerialCalls, TypeOK, TypeOK', ControlOK, RowsOK, SerialOK, AllHold, NEW r \in Requests,
         Start(r) \/ Continue(r) \/ Fail(r) \/ Leak(r)
  PROVE  HoldsOK(r)'
<1>0. Effect(r) /\ HoldsOK(r) /\ r \in DOMAIN work /\ r \in DOMAIN workFiles
  BY StepEffect DEF AllHold, TypeOK
<1>1. CASE Start(r)
  <2>1. pc'[r] \notin {"done", "r_sender", "r_commit", "u_lock", "u_scan"} \cup Replacing
    BY <1>1, StartLabels DEF Replacing
  <2>2. ASSUME pc'[r] \in Filing, NEW x \in work'[r]
        PROVE  (~x.deleted => x.storage # "draft") /\ \E y \in rows' : SameRow(y, x)
    <3>1. (~x.deleted => x.storage # "draft") /\ \E y \in rows : From(x, y)
      BY <1>1, <2>2, FilingStarts
    <3>2. PICK y \in rows : From(x, y)
      BY <3>1
    <3>3. SameRow(y, x)
      BY <3>2 DEF From, SameRow
    <3> QED BY <1>0, <3>1, <3>3, MatesKept
  <2> QED BY <2>1, <2>2 DEF HoldsOK
<1>2. CASE ~Start(r)
  <2>0. Continue(r) \/ Fail(r) \/ Leak(r)
    BY <1>2
  <2>1. /\ UNCHANGED call /\ (pc'[r] \in Ended \/ <<pc[r], pc'[r]>> \in Follows)
        /\ (pc'[r] = "done" => work'[r] = {})
    BY <2>0, StepLabels, DoneHolds
  <2>2. ASSUME pc'[r] \in {"r_sender", "r_commit"}
        PROVE  \A x \in work'[r] : x.msg = r /\ x.type = "to"
    <3>1. CASE pc[r] = "r_select" /\ pc'[r] = "r_sender"
      BY <2>0, <3>1, AtLabel, ReplyHolds, FailDrops
    <3>2. CASE pc[r] = "r_sender" /\ pc'[r] = "r_commit"
      <4>1. ReplySender(r)
        BY <2>0, <3>2, AtLabel, FailDrops
      <4> QED BY <1>0, <3>2, <4>1 DEF ReplySender, locals, HoldsOK
    <3> QED BY <2>1, <2>2, <3>1, <3>2 DEF Follows, Ended
  <2>3. ASSUME pc'[r] \in Replacing
        PROVE  \A x \in work'[r] : x.msg = call[r].msg
    <3>1. CASE pc[r] = "u_scan"
      <4>1. UpdateScan(r)
        BY <2>0, <2>3, <3>1, AtLabel, FailDrops DEF Replacing, Leak, Goto, TypeOK
      <4> QED BY <1>0, <4>1 DEF UpdateScan, Replaced, Live
    <3>2. CASE pc[r] = "u_patch"
      <4>1. UpdatePatch(r)
        BY <2>0, <2>3, <3>2, AtLabel, FailDrops DEF Replacing, Leak, Goto, TypeOK
      <4> QED BY <1>0, <3>2, <4>1 DEF UpdatePatch, Live, HoldsOK, Replacing
    <3>3. CASE pc[r] = "u_message"
      <4>1. UpdateMessage(r)
        BY <2>0, <2>3, <3>3, AtLabel, FailDrops DEF Replacing, Leak, Goto, TypeOK
      <4> QED BY <1>0, <3>3, <4>1 DEF UpdateMessage, locals, HoldsOK, Replacing
    <3> QED BY <2>1, <2>3, <3>1, <3>2, <3>3 DEF Follows, Ended, Replacing
  <2>5. ASSUME pc'[r] \in {"u_lock", "u_scan"} \cup Replacing
        PROVE  \A f \in workFiles'[r] : f.msg = call[r].msg
    <3>1. CASE pc[r] = "u_files"
      <4>1. UpdateFiles(r)
        BY <2>0, <2>5, <3>1, AtLabel, FailDrops DEF Replacing
      <4> QED BY <1>0, <4>1 DEF UpdateFiles, LiveFiles
    <3>2. CASE pc[r] \in {"u_lock", "u_scan"} \cup Replacing
      <4>1. UpdateLock(r) \/ UpdateScan(r) \/ UpdatePatch(r) \/ UpdateMessage(r)
        <5>1. ~Leak(r) /\ ~Fail(r)
          BY <2>5, FailDrops DEF Leak, Goto, TypeOK, Replacing
        <5>2. ~UpdateCommit(r)
          BY <2>5 DEF UpdateCommit, End, Goto, TypeOK, Replacing
        <5> QED BY <2>0, <3>2, <5>1, <5>2, AtLabel DEF Replacing
      <4>2. workFiles'[r] \subseteq workFiles[r]
        BY <1>0, <4>1 DEF UpdateLock, UpdateScan, UpdatePatch, UpdateMessage, locals
      <4> QED BY <1>0, <3>2, <4>2 DEF HoldsOK
    <3> QED BY <2>1, <2>5, <3>1, <3>2 DEF Follows, Ended, Replacing
  <2>4. ASSUME pc'[r] \in Filing, NEW x \in work'[r]
        PROVE  /\ ~x.deleted => x.storage # "draft"
               /\ \/ \E y \in rows' : SameRow(y, x)
                  \/ call[r].op = "sendDraft" /\ x.type = "to"
    <3>1. CASE pc[r] = "s_rows"
      <4>1. SendRows(r)
        BY <2>0, <2>4, <3>1, AtLabel, FailDrops DEF Filing
      <4>2. CASE \E y \in Live(call[r].msg) :
                   \/ x = y /\ y.type # "from"
                   \/ x = [y EXCEPT !.storage = "send"] /\ y.type = "from"
        <5>1. PICK y \in Live(call[r].msg) :
                \/ x = y /\ y.type # "from"
                \/ x = [y EXCEPT !.storage = "send"] /\ y.type = "from"
          BY <4>2
        <5>2. y \in rows /\ y \in RowType /\ Placed(y)
          BY <5>1 DEF Live, TypeOK, RowsOK, Fits
        <5>3. SameRow(y, x) /\ x.storage # "draft"
          BY <5>1, <5>2 DEF SameRow, RowType, Placed
        <5> QED BY <1>0, <5>2, <5>3, MatesKept
      <4>3. CASE \E p \in call[r].to : x = NewRow(r, call[r].msg, p, "to", "inbox", "new")
        <5>1. x.storage = "inbox" /\ x.type = "to"
          BY <4>3 DEF NewRow
        <5> QED BY <3>1, <5>1 DEF SerialOK, OpOK
      <4> QED BY <2>4, <4>1, <4>2, <4>3, Collected
    <3>2. CASE pc[r] \in Filing /\ x \in work[r]
      <4>1. /\ ~x.deleted => x.storage # "draft"
            /\ \/ \E y \in rows : SameRow(y, x)
               \/ call[r].op = "sendDraft" /\ x.type = "to"
        BY <1>0, <3>2 DEF HoldsOK
      <4> QED BY <1>0, <4>1, MatesKept
    <3>3. CASE pc[r] = "s_status"
      <4>1. SendStatus(r)
        BY <2>0, <2>4, <3>3, AtLabel, FailDrops DEF Filing
      <4>2. work' = work
        BY <4>1 DEF SendStatus, locals
      <4> QED BY <2>4, <3>2, <3>3, <4>2 DEF Filing
    <3>4. CASE pc[r] \in {"writing", "losing"}
      <4>1. WriteRow(r) \/ LoseWrite(r)
        BY <2>0, <2>4, <3>4, AtLabel, FailDrops DEF Filing
      <4> QED BY <2>4, <3>2, <3>4, <4>1, WriteCases DEF Filing
    <3> QED BY <2>1, <2>4, <3>1, <3>3, <3>4 DEF Follows, Ended, Filing
  <2> QED BY <2>1, <2>2, <2>3, <2>4, <2>5 DEF HoldsOK
<1> QED BY <1>1, <1>2

\* A step changes the attachment rows held by its own request only.
LEMMA StepFiles ==
  ASSUME TypeOK, NEW r \in Requests, Start(r) \/ Continue(r) \/ Fail(r) \/ Leak(r)
  PROVE  \A q \in Requests : q # r => workFiles'[q] = workFiles[q]
<1> USE DEF End, Drop, locals
<1>1. CASE Start(r)
  BY <1>1 DEF Start, Compose, Update, SendDraft, Reply, Forward, Trash, Delete, Restore,
              Mark, Fetch, Attachment, TypeOK
<1>2. CASE ReplySelect(r)
  <2>1. UNCHANGED workFiles \/ Drop(r)
    BY <1>2, ReplySelectCases
  <2> QED BY <2>1 DEF TypeOK
<1>3. CASE (Continue(r) \/ Fail(r) \/ Leak(r)) /\ ~ReplySelect(r)
  <2>1. UNCHANGED workFiles \/ \E w : workFiles' = [workFiles EXCEPT ![r] = w]
    BY <1>3 DEF Continue, ComposeCount, ComposeMessage, ComposeRows, UpdateFiles, UpdateLock,
                UpdateScan, UpdatePatch,
              UpdateMessage, UpdateCommit, SendRows, SendStatus, WriteRow, LoseWrite,
              ReplyMessage, ReplySender, ReplyCommit, ForwardCount, ForwardCommit,
              MarkRows, AttachmentAdd, AttachmentRemove, Fail, Leak
  <2> QED BY <2>1 DEF TypeOK
<1> QED BY <1>1, <1>2, <1>3

\* So does what every handler holds.
LEMMA HoldsKept ==
  ASSUME SerialCalls, TypeOK, TypeOK', ControlOK, RowsOK, SerialOK, AllHold, NEW r \in Requests,
         Start(r) \/ Continue(r) \/ Fail(r) \/ Leak(r)
  PROVE  AllHold'
<1>0. Effect(r) /\ Keeps(r) /\ \A q \in Requests : q # r => workFiles'[q] = workFiles[q]
  BY StepEffect, StepFrame, StepFiles
<1>1. ASSUME NEW q \in Requests, q # r PROVE HoldsOK(q)'
  <2>1. /\ pc'[q] = pc[q] /\ call'[q] = call[q] /\ work'[q] = work[q]
        /\ workFiles'[q] = workFiles[q] /\ HoldsOK(q)
    BY <1>0, <1>1 DEF Effect, Keeps, AllHold
  <2>2. \A x \in work[q] : (\E y \in rows : SameRow(y, x)) => \E y \in rows' : SameRow(y, x)
    BY <1>0, MatesKept
  <2> QED BY <2>1, <2>2 DEF HoldsOK
<1> QED BY <1>1, OwnHolds DEF AllHold

-----------------------------------------------------------------------------
(* The attachments.                                                          *)

\* The live attachments a step changes are those of one message: the one being
\* written, or a draft.
Touches(r, t) ==
  \/ t = r /\ pc[r] \in {"c_rows", "r_select", "f_commit"}
  \/ t = call[r].msg /\ pc[r] \in {"u_commit", "a_add", "a_remove"}

\* The files of a body are of the message it is written for.
LEMMA BodyFilesOf ==
  ASSUME NEW r \in Requests, NEW m
  PROVE  \A f \in BodyFiles(r, m) : f.msg = m
<1>1. [req |-> r, msg |-> m, deleted |-> FALSE].msg = m
  OBVIOUS
<1> QED BY <1>1, Zenon DEF BodyFiles

\* Attachments change at the hands of a handler that creates or edits the message.
LEMMA FilesTouched ==
  ASSUME TypeOK, AllHold, NEW r \in Requests,
         Start(r) \/ Continue(r) \/ Fail(r) \/ Leak(r),
         NEW m \in Requests, LiveFiles(m)' # LiveFiles(m)
  PROVE  Touches(r, m)
<1> USE DEF At
<1>0. \A f \in files : f \in FileType
  BY DEF TypeOK
<1>1. CASE ComposeRows(r) \/ ReplySelect(r) \/ ForwardCommit(r)
  <2>1. files' = files \cup BodyFiles(r, r) /\ pc[r] \in {"c_rows", "r_select", "f_commit"}
    BY <1>1, ReplySelectCases DEF ComposeRows, ForwardCommit
  <2>2. CASE m # r
    BY <2>1, <2>2, BodyFilesOf DEF LiveFiles
  <2> QED BY <2>1, <2>2 DEF Touches
<1>2. CASE AttachmentAdd(r)
  <2>1. files' = files \cup BodyFiles(r, call[r].msg) /\ pc[r] = "a_add"
    BY <1>2 DEF AttachmentAdd
  <2>2. CASE m # call[r].msg
    BY <2>1, <2>2, BodyFilesOf DEF LiveFiles
  <2> QED BY <2>1, <2>2 DEF Touches
<1>3. CASE AttachmentRemove(r)
  <2>1. /\ files' = (files \ LiveFiles(call[r].msg))
                      \cup {Deleted(f) : f \in LiveFiles(call[r].msg)}
        /\ pc[r] = "a_remove"
    BY <1>3 DEF AttachmentRemove
  <2>2. \A f \in LiveFiles(call[r].msg) : f.msg = call[r].msg /\ Deleted(f).deleted
    BY <1>0 DEF LiveFiles, Deleted, FileType
  <2>3. CASE m # call[r].msg
    BY <2>1, <2>2, <2>3 DEF LiveFiles
  <2> QED BY <2>1, <2>3 DEF Touches
<1>4. CASE UpdateCommit(r)
  <2>1. /\ files' = (files \ workFiles[r]) \cup {Deleted(f) : f \in workFiles[r]}
                \cup BodyFiles(r, call[r].msg)
        /\ pc[r] = "u_commit"
    BY <1>4 DEF UpdateCommit
  <2>2. \A f \in workFiles[r] : f.msg = call[r].msg /\ Deleted(f).deleted
    BY <2>1 DEF AllHold, HoldsOK, Replacing, TypeOK, Deleted, FileType
  <2>3. CASE m # call[r].msg
    BY <2>1, <2>2, <2>3, BodyFilesOf DEF LiveFiles
  <2> QED BY <2>1, <2>3 DEF Touches
<1>5. CASE ~(\/ ComposeRows(r) \/ ReplySelect(r) \/ ForwardCommit(r) \/ AttachmentAdd(r)
             \/ AttachmentRemove(r) \/ UpdateCommit(r))
  <2>1. UNCHANGED files
    BY <1>5 DEF Start, Compose, Update, SendDraft, Reply, Forward, Trash, Delete, Restore, Mark,
       Fetch, Attachment, Continue, ComposeCount, ComposeMessage, UpdateFiles, UpdateLock,
       UpdateScan, UpdatePatch,
       UpdateMessage, SendRows, SendStatus, WriteRow, LoseWrite, ReplyMessage, ReplySender,
       ReplyCommit, ForwardCount, MarkRows, Fail, Leak
  <2> QED BY <2>1 DEF LiveFiles
<1> QED BY <1>1, <1>2, <1>3, <1>4, <1>5

\* Neither has been delivered.
LEMMA FilesFrozen ==
  ASSUME TypeOK, SerialOK, DraftsOK, AllHold, NEW r \in Requests,
         Start(r) \/ Continue(r) \/ Fail(r) \/ Leak(r),
         NEW m \in Requests, Delivered(m)
  PROVE  LiveFiles(m)' = LiveFiles(m)
<1> SUFFICES ASSUME Touches(r, m) PROVE FALSE
  BY FilesTouched
<1>1. PICK x \in rows : x.msg = m /\ x.type = "to"
  BY DEF Delivered
<1>2. CASE m = r /\ pc[r] \in {"c_rows", "r_select", "f_commit"}
  BY <1>1, <1>2 DEF SerialOK, FreshOK, Fresh, Creating
<1>3. CASE m = call[r].msg /\ pc[r] \in {"u_commit", "a_add", "a_remove"}
  <2>1. message[m].status = "draft"
    BY <1>3 DEF SerialOK, OwnerOK, Drafting, Updating
  <2> QED BY <1>1, <2>1 DEF DraftsOK, Private
<1> QED BY <1>2, <1>3 DEF Touches

-----------------------------------------------------------------------------
(* The author's copy of a message: updateDraft is to delete the one there    *)
(* is, and whatever else writes one writes the same.                         *)

AuthorsRow(x) == x.type = "from" /\ ~x.deleted

OneCopy ==
  \A x, y \in rows : AuthorsRow(x) /\ AuthorsRow(y) /\ x.msg = y.msg => x = y

CopyOK(r) ==
  /\ pc[r] = "u_patch" =>
       \A x \in rows : AuthorsRow(x) /\ x.msg = call[r].msg =>
         \E y \in work[r] : SameRow(x, y)
  /\ pc[r] \in {"u_message", "u_commit"} =>
       \A x \in rows : AuthorsRow(x) /\ x.msg = call[r].msg => x \in work[r]
  /\ pc[r] \in Filing =>
       \A w \in work[r] : AuthorsRow(w) =>
         /\ \A x \in rows : AuthorsRow(x) /\ x.msg = w.msg => SameRow(x, w)
         /\ \A q \in Requests : pc[q] \in Filing =>
              \A v \in work[q] : AuthorsRow(v) /\ v.msg = w.msg => SameRow(v, w)

CopiesOK == OneCopy /\ \A r \in Requests : CopyOK(r)

\* The table after a step, in full.
Adds(r, m, new) ==
  /\ \A x \in new : /\ x.req = r /\ x.num = 0 /\ x.type = "to" /\ x.msg = m
                    /\ x.party \in call[r].to /\ x.storage = "inbox" /\ ~x.deleted
  /\ \A x, y \in new : x.party = y.party => x = y
RowsWritten(r) ==
  \/ UNCHANGED rows
  \/ /\ pc[r] \in {"c_rows", "r_sender", "f_commit"} /\ pc'[r] \notin Filing
     /\ \E vis, new :
          Adds(r, r, new) /\ rows' = rows \cup {AuthorRow(r, r, vis)} \cup new
  \/ /\ pc[r] = "r_commit" /\ rows' = rows \cup work[r] /\ pc'[r] \notin Filing
  \/ /\ pc[r] = "u_commit" /\ pc'[r] \notin Filing
     /\ \E new :
          /\ Adds(r, call[r].msg, new)
          /\ rows' = (rows \ work[r]) \cup {Deleted(x) : x \in work[r]}
                       \cup {AuthorRow(r, call[r].msg, "new")} \cup new
  \/ /\ pc[r] \in {"writing", "losing"}
     /\ \E w \in work[r] :
          work'[r] = work[r] \ {w} /\ rows' = {x \in rows : ~SameRow(x, w)} \cup {w}
  \/ /\ pc[r] = "m_rows" /\ pc'[r] \notin Filing
     /\ \E marked \in SUBSET rows : \E v \in {"read", "unread"} :
          /\ \A x \in marked : x.party = call[r].user /\ ~x.deleted
          /\ rows' = (rows \ marked) \cup {[x EXCEPT !.visibility = v] : x \in marked}

\* The rows for the recipients are such additions.
LEMMA RecipientsAdd ==
  ASSUME NEW r \in Requests, NEW m
  PROVE  /\ Adds(r, m, RecipientRows(r, m)) /\ Adds(r, m, {})
         /\ Adds(r, m, {NewRow(r, m, p, "to", "inbox", "new") : p \in call[r].to})
<1> DEFINE row(p) == NewRow(r, m, p, "to", "inbox", "new")
<1>1. \A p : /\ row(p).req = r /\ row(p).num = 0 /\ row(p).type = "to" /\ row(p).msg = m
             /\ row(p).party = p /\ row(p).storage = "inbox" /\ ~row(p).deleted
  BY DEF NewRow
<1> HIDE DEF row
<1>2. Adds(r, m, {row(p) : p \in call[r].to})
  BY <1>1 DEF Adds
<1>3. Adds(r, m, {})
  BY DEF Adds
<1> QED BY <1>2, <1>3 DEF row, RecipientRows

\* What each step writes to the table.
LEMMA StepWrites ==
  ASSUME TypeOK, NEW r \in Requests, Start(r) \/ Continue(r) \/ Fail(r) \/ Leak(r)
  PROVE  RowsWritten(r)
<1> USE DEF At, End, Goto, Filing
<1>0. r \in DOMAIN pc /\ r \in DOMAIN work
  BY DEF TypeOK
<1>1. CASE ComposeRows(r)
  <2>1. /\ pc[r] = "c_rows" /\ pc'[r] = "done"
        /\ rows' = rows \cup {AuthorRow(r, r, "read")} \cup RecipientRows(r, r)
    BY <1>0, <1>1 DEF ComposeRows
  <2> QED BY <2>1, RecipientsAdd DEF RowsWritten
<1>2. CASE ReplySender(r)
  <2>1. /\ pc[r] = "r_sender" /\ pc'[r] = "r_commit"
        /\ rows' = rows \cup {AuthorRow(r, r, "new")} \cup {}
    BY <1>0, <1>2 DEF ReplySender
  <2> QED BY <2>1, RecipientsAdd DEF RowsWritten
<1>3. CASE ForwardCommit(r)
  <2> DEFINE new == {NewRow(r, r, p, "to", "inbox", "new") : p \in call[r].to}
  <2>1. /\ pc[r] = "f_commit" /\ pc'[r] = "done"
        /\ rows' = rows \cup {AuthorRow(r, r, "new")} \cup new
    BY <1>0, <1>3 DEF ForwardCommit
  <2>2. Adds(r, r, new)
    BY RecipientsAdd
  <2> HIDE DEF new
  <2> QED BY <2>1, <2>2 DEF RowsWritten
<1>4. CASE ReplyCommit(r)
  BY <1>0, <1>4 DEF ReplyCommit, RowsWritten
<1>5. CASE UpdateCommit(r)
  <2>1. /\ pc[r] = "u_commit" /\ pc'[r] = "done"
        /\ rows' = (rows \ work[r]) \cup {Deleted(x) : x \in work[r]}
             \cup {AuthorRow(r, call[r].msg, "new")} \cup RecipientRows(r, call[r].msg)
    BY <1>0, <1>5 DEF UpdateCommit
  <2> QED BY <2>1, RecipientsAdd DEF RowsWritten
<1>6. CASE WriteRow(r) \/ LoseWrite(r)
  BY <1>6, WriteCases DEF RowsWritten
<1>7. CASE MarkRows(r)
  <2> DEFINE c == call[r]
             marked == {x \in rows :
               /\ x.party = c.user /\ ~x.deleted
               /\ c.arg = "thread" => x.thread = c.thread
               /\ c.arg \notin {"thread", "missed"} => x.msg = c.msg}
             v == IF c.arg = "unread" THEN "unread" ELSE "read"
  <2>1. /\ rows' = (rows \ marked) \cup {[x EXCEPT !.visibility = v] : x \in marked}
        /\ pc[r] = "m_rows" /\ pc'[r] \in {"done", "failed"}
    BY <1>0, <1>7 DEF MarkRows
  <2>2. /\ marked \in SUBSET rows /\ v \in {"read", "unread"}
        /\ \A x \in marked : x.party = call[r].user /\ ~x.deleted
    OBVIOUS
  <2> HIDE DEF marked, v
  <2> QED BY <2>1, <2>2 DEF RowsWritten
<1>8. CASE ReplySelect(r)
  BY <1>8, ReplySelectCases DEF RowsWritten
<1>9. CASE ~(\/ ComposeRows(r) \/ ReplySender(r) \/ ForwardCommit(r) \/ ReplyCommit(r)
             \/ UpdateCommit(r) \/ WriteRow(r) \/ LoseWrite(r) \/ MarkRows(r) \/ ReplySelect(r))
  <2>1. UNCHANGED rows
    BY <1>9 DEF Start, Compose, Update, SendDraft, Reply, Forward, Trash, Delete, Restore, Mark,
       Fetch, Attachment, Continue, ComposeCount, ComposeMessage, UpdateFiles, UpdateLock,
       UpdateScan, UpdatePatch,
       UpdateMessage, SendRows, SendStatus, ReplyMessage, ForwardCount, AttachmentAdd,
       AttachmentRemove, Fail, Leak, locals
  <2> QED BY <2>1 DEF RowsWritten
<1> QED BY <1>1, <1>2, <1>3, <1>4, <1>5, <1>6, <1>7, <1>8, <1>9

\* A draft that a request handles is left alone by all others: what they write
\* of it is deleted.
LEMMA DraftAlone ==
  ASSUME TypeOK, TypeOK', ControlOK, RowsOK, DraftsOK, SerialOK, AllHold, NEW r \in Requests,
         Start(r) \/ Continue(r) \/ Fail(r) \/ Leak(r),
         NEW q \in Requests, q # r, pc[q] \in Drafting,
         NEW x \in rows', x.msg = call[q].msg, ~x.deleted
  PROVE  x \in rows
<1> SUFFICES ASSUME x \notin rows PROVE FALSE
  OBVIOUS
<1>1. PICK m \in Requests : m = call[q].msg
  BY CallAtType DEF Drafting, Updating
<1>2. /\ message[m].status = "draft" /\ m # r
      /\ call[q].user = call[m].user /\ Waits(q)
  BY <1>1, StepFrame DEF SerialOK, OwnerOK, Waits, Busy, Drafting, Updating, Ended
<1>3. ASSUME pc[r] \in Drafting, call[r].msg = m PROVE FALSE
  BY <1>2, <1>3 DEF SerialOK, OwnerOK, Waits, Busy, Drafting, Updating, Ended
<1>4. CASE pc[r] \in {"c_rows", "r_sender", "f_commit"} /\
           \E vis, new :
             Adds(r, r, new) /\ rows' = rows \cup {AuthorRow(r, r, vis)} \cup new
  BY <1>1, <1>2, <1>4, BodyMade DEF Adds
<1>5. CASE pc[r] = "r_commit" /\ rows' = rows \cup work[r]
  BY <1>1, <1>2, <1>5 DEF AllHold, HoldsOK
<1>6. CASE pc[r] = "u_commit" /\
           \E new :
             /\ Adds(r, call[r].msg, new)
             /\ rows' = (rows \ work[r]) \cup {Deleted(y) : y \in work[r]}
                          \cup {AuthorRow(r, call[r].msg, "new")} \cup new
  <2>1. \A y \in work[r] : Deleted(y).deleted
    BY DEF TypeOK, Deleted, RowType
  <2>2. x.msg = call[r].msg
    BY <1>6, <2>1, BodyMade DEF Adds
  <2> QED BY <1>1, <1>3, <1>6, <2>2 DEF Drafting, Updating
<1>7. CASE pc[r] \in {"writing", "losing"} /\ x \in work[r]
  <2>1. Private(x) /\ x.storage # "draft"
    BY <1>7 DEF DraftsOK, WorkPrivate, AllHold, HoldsOK, Filing
  <2> QED BY <1>1, <1>2, <2>1 DEF Private
<1>8. CASE pc[r] = "m_rows" /\ \E y \in rows : y.party = call[r].user /\ From(x, y)
  <2>1. PICK y \in rows : y.party = call[r].user /\ From(x, y)
    BY <1>8
  <2>2. call[r].user = call[q].user
    BY <1>1, <1>2, <2>1 DEF SerialOK, Authored, From
  <2> QED BY <1>2, <1>8, <2>2 DEF SerialOK, OwnerOK, Waits, Busy, Ended
<1>9. CASE pc[r] = "m_rows" /\
           \E marked \in SUBSET rows : \E v \in {"read", "unread"} :
             /\ \A y \in marked : y.party = call[r].user /\ ~y.deleted
             /\ rows' = (rows \ marked) \cup {[y EXCEPT !.visibility = v] : y \in marked}
  <2>1. PICK marked \in SUBSET rows, v \in {"read", "unread"} :
          /\ \A y \in marked : y.party = call[r].user /\ ~y.deleted
          /\ rows' = (rows \ marked) \cup {[y EXCEPT !.visibility = v] : y \in marked}
    BY <1>9
  <2>2. PICK y \in marked : x = [y EXCEPT !.visibility = v]
    BY <2>1
  <2>3. From(x, y)
    BY <2>1, <2>2, FiledFrom DEF TypeOK
  <2> QED BY <1>8, <1>9, <2>1, <2>2, <2>3
<1> QED BY <1>4, <1>5, <1>6, <1>7, <1>9, StepWrites DEF RowsWritten

\* There stays one copy: a new one comes when there is none, or with the old
\* one deleted.
LEMMA OneCopyKept ==
  ASSUME TypeOK, TypeOK', ControlOK, RowsOK, SerialOK, AllHold, CopiesOK,
         NEW r \in Requests, Start(r) \/ Continue(r) \/ Fail(r) \/ Leak(r)
  PROVE  OneCopy'
<1> SUFFICES ASSUME NEW x \in rows', NEW y \in rows', AuthorsRow(x), AuthorsRow(y), x.msg = y.msg
             PROVE  x = y
  BY DEF OneCopy, AuthorsRow
<1>0. \A u, v \in rows : AuthorsRow(u) /\ AuthorsRow(v) /\ u.msg = v.msg => u = v
  BY DEF CopiesOK, OneCopy
<1>1. CASE UNCHANGED rows
  BY <1>0, <1>1
<1>2. CASE /\ pc[r] \in {"c_rows", "r_sender", "f_commit"} /\ pc'[r] \notin Filing
           /\ \E vis, new :
                Adds(r, r, new) /\ rows' = rows \cup {AuthorRow(r, r, vis)} \cup new
  <2>1. PICK vis, new : Adds(r, r, new) /\ rows' = rows \cup {AuthorRow(r, r, vis)} \cup new
    BY <1>2
  <2>2. \A u \in rows : u.msg # r
    BY <1>2 DEF SerialOK, FreshOK, Fresh, Creating
  <2>3. AuthorRow(r, r, vis).msg = r /\ \A u \in new : u.type = "to"
    BY <2>1, BodyMade DEF Adds
  <2> QED BY <1>0, <2>1, <2>2, <2>3 DEF AuthorsRow
<1>3. CASE pc[r] = "r_commit" /\ rows' = rows \cup work[r] /\ pc'[r] \notin Filing
  BY <1>0, <1>3 DEF AllHold, HoldsOK, AuthorsRow
<1>4. CASE /\ pc[r] = "u_commit" /\ pc'[r] \notin Filing
           /\ \E new :
                /\ Adds(r, call[r].msg, new)
                /\ rows' = (rows \ work[r]) \cup {Deleted(u) : u \in work[r]}
                             \cup {AuthorRow(r, call[r].msg, "new")} \cup new
  <2>1. PICK new :
          /\ Adds(r, call[r].msg, new)
          /\ rows' = (rows \ work[r]) \cup {Deleted(u) : u \in work[r]}
                       \cup {AuthorRow(r, call[r].msg, "new")} \cup new
    BY <1>4
  <2>2. \A u \in {Deleted(v) : v \in work[r]} : u.deleted
    BY DEF TypeOK, Deleted, RowType
  <2>3. \A u \in new : u.type = "to"
    BY <2>1 DEF Adds
  <2>4. \A u \in rows : AuthorsRow(u) /\ u.msg = call[r].msg => u \in work[r]
    BY <1>4 DEF CopiesOK, CopyOK
  <2>5. AuthorRow(r, call[r].msg, "new").msg = call[r].msg
    BY BodyMade
  <2>6. \A u \in rows' : AuthorsRow(u) =>
          \/ u = AuthorRow(r, call[r].msg, "new")
          \/ u \in rows /\ u.msg # call[r].msg
    BY <2>1, <2>2, <2>3, <2>4 DEF AuthorsRow
  <2> QED BY <1>0, <2>5, <2>6
<1>5. CASE /\ pc[r] \in {"writing", "losing"}
           /\ \E w \in work[r] :
                work'[r] = work[r] \ {w} /\ rows' = {u \in rows : ~SameRow(u, w)} \cup {w}
  <2>1. PICK w \in work[r] : rows' = {u \in rows : ~SameRow(u, w)} \cup {w}
    BY <1>5
  <2>2. AuthorsRow(w) => \A u \in rows : AuthorsRow(u) /\ u.msg = w.msg => SameRow(u, w)
    BY <1>5 DEF CopiesOK, CopyOK, Filing
  <2> QED BY <1>0, <2>1, <2>2
<1>6. CASE /\ pc[r] = "m_rows" /\ pc'[r] \notin Filing
           /\ \E marked \in SUBSET rows : \E v \in {"read", "unread"} :
                /\ \A u \in marked : u.party = call[r].user /\ ~u.deleted
                /\ rows' = (rows \ marked) \cup {[u EXCEPT !.visibility = v] : u \in marked}
  <2>1. PICK marked \in SUBSET rows, v \in {"read", "unread"} :
          rows' = (rows \ marked) \cup {[u EXCEPT !.visibility = v] : u \in marked}
    BY <1>6
  <2>2. \A z \in rows' : AuthorsRow(z) =>
          \E u \in rows :
            /\ AuthorsRow(u) /\ u.msg = z.msg
            /\ z = IF u \in marked THEN [u EXCEPT !.visibility = v] ELSE u
    <3>1. \A u \in rows :
            [u EXCEPT !.visibility = v].msg = u.msg
              /\ AuthorsRow([u EXCEPT !.visibility = v]) => AuthorsRow(u)
      BY DEF TypeOK, RowType, AuthorsRow
    <3>2. \A u \in rows : [u EXCEPT !.visibility = v].msg = u.msg
      BY DEF TypeOK, RowType
    <3> QED BY <2>1, <3>1, <3>2
  <2> QED BY <1>0, <2>2
<1> QED BY <1>1, <1>2, <1>3, <1>4, <1>5, <1>6, StepWrites DEF RowsWritten

\* Nobody writes the copy of a draft that is being handled, until it is sent.
LEMMA CopyWriters ==
  ASSUME TypeOK, SerialOK, DraftsOK, AllHold, NEW r \in Requests,
         pc[r] \in Drafting, NEW q \in Requests, q # r, pc[q] \in Filing,
         NEW w \in work[q], ~w.deleted
  PROVE  w.msg # call[r].msg
<1>1. PICK m \in Requests : m = call[r].msg
  BY CallAtType DEF Drafting, Updating
<1>2. message[m].status = "draft" /\ call[r].user = call[m].user /\ Waits(r)
  BY <1>1 DEF SerialOK, OwnerOK, Waits, Busy, Drafting, Updating, Ended
<1>3. CASE pc[q] = "s_status"
  <2>1. w.msg = call[q].msg
    BY <1>3 DEF DraftsOK, WorkPrivate
  <2>2. call[q].user = call[call[q].msg].user /\ Waits(q)
    BY <1>3 DEF SerialOK, OwnerOK, Waits, Busy, Drafting, Ended
  <2> QED BY <1>1, <1>2, <2>1, <2>2 DEF SerialOK, OwnerOK
<1>4. CASE pc[q] # "s_status"
  <2>1. Private(w) /\ w.storage # "draft"
    BY <1>4 DEF DraftsOK, WorkPrivate, AllHold, HoldsOK
  <2> QED BY <1>1, <1>2, <2>1 DEF Private
<1> QED BY <1>3, <1>4

\* A copy of the author's in the table after a step is one that was there, or the
\* one that was written, or the new one of a message of which none is written.
LEMMA CopySource ==
  ASSUME TypeOK, TypeOK', ControlOK, RowsOK, DraftsOK, SerialOK, AllHold, CopiesOK,
         NEW r \in Requests, Start(r) \/ Continue(r) \/ Fail(r) \/ Leak(r),
         NEW x \in rows', AuthorsRow(x)
  PROVE  \/ \E y \in rows : AuthorsRow(y) /\ From(x, y)
         \/ pc[r] \in Filing /\ x \in work[r]
         \/ /\ pc'[r] \notin Filing
            /\ \/ pc[r] \in Fresh /\ x.msg = r
               \/ pc[r] \in Drafting /\ x.msg = call[r].msg
<1>1. CASE x \in rows
  BY <1>1, FiledFrom DEF TypeOK
<1>2. CASE /\ pc[r] \in {"c_rows", "r_sender", "f_commit"} /\ pc'[r] \notin Filing
           /\ \E vis, new :
                Adds(r, r, new) /\ rows' = rows \cup {AuthorRow(r, r, vis)} \cup new
  BY <1>1, <1>2, BodyMade DEF Adds, Fresh, Creating
<1>3. CASE pc[r] = "r_commit" /\ rows' = rows \cup work[r] /\ pc'[r] \notin Filing
  BY <1>1, <1>3 DEF AllHold, HoldsOK, AuthorsRow
<1>4. CASE /\ pc[r] = "u_commit" /\ pc'[r] \notin Filing
           /\ \E new :
                /\ Adds(r, call[r].msg, new)
                /\ rows' = (rows \ work[r]) \cup {Deleted(u) : u \in work[r]}
                             \cup {AuthorRow(r, call[r].msg, "new")} \cup new
  <2>1. \A u \in {Deleted(v) : v \in work[r]} : u.deleted
    BY DEF TypeOK, Deleted, RowType
  <2> QED BY <1>1, <1>4, <2>1, BodyMade DEF Adds, AuthorsRow, Drafting, Updating
<1>5. CASE /\ pc[r] \in {"writing", "losing"}
           /\ \E w \in work[r] :
                work'[r] = work[r] \ {w} /\ rows' = {u \in rows : ~SameRow(u, w)} \cup {w}
  BY <1>1, <1>5 DEF Filing
<1>6. CASE /\ pc[r] = "m_rows" /\ pc'[r] \notin Filing
           /\ \E marked \in SUBSET rows : \E v \in {"read", "unread"} :
                /\ \A u \in marked : u.party = call[r].user /\ ~u.deleted
                /\ rows' = (rows \ marked) \cup {[u EXCEPT !.visibility = v] : u \in marked}
  <2>1. PICK marked \in SUBSET rows, v \in {"read", "unread"} :
          rows' = (rows \ marked) \cup {[u EXCEPT !.visibility = v] : u \in marked}
    BY <1>6
  <2>2. \A u \in rows :
          /\ From([u EXCEPT !.visibility = v], u)
          /\ AuthorsRow([u EXCEPT !.visibility = v]) => AuthorsRow(u)
    BY FiledFrom DEF TypeOK, RowType, AuthorsRow
  <2> QED BY <1>1, <2>1, <2>2
<1> QED BY <1>1, <1>2, <1>3, <1>4, <1>5, <1>6, StepWrites DEF RowsWritten

\* The author's copies of a message that are in the table or about to be written
\* are one and the same.
Candidate(x) ==
  /\ AuthorsRow(x)
  /\ x \in rows \/ \E q \in Requests : pc[q] \in Filing /\ x \in work[q]

\* This is what the invariant says of them.
LEMMA OneCandidate ==
  ASSUME CopiesOK, NEW x, NEW y, Candidate(x), Candidate(y), x.msg = y.msg
  PROVE  SameRow(x, y)
BY DEF CopiesOK, OneCopy, CopyOK, Candidate, SameRow

\* What a handler is about to file comes from the table, or from what it was
\* about to file.
LEMMA FilingSource ==
  ASSUME SerialCalls, TypeOK, TypeOK', ControlOK, NEW r \in Requests,
         Start(r) \/ Continue(r) \/ Fail(r) \/ Leak(r),
         NEW q \in Requests, pc'[q] \in Filing, NEW w \in work'[q], AuthorsRow(w)
  PROVE  \E y : Candidate(y) /\ From(w, y)
<1>0. w \in RowType
  BY DEF TypeOK
<1>1. CASE pc[q] \in Filing /\ w \in work[q]
  BY <1>0, <1>1, FiledFrom DEF Candidate
<1>2. CASE q # r
  BY <1>1, <1>2, StepWork, StepFrame DEF Keeps
<1>3. CASE q = r /\ Start(r)
  BY <1>3, FilingStarts DEF Candidate, AuthorsRow, From, SameRow
<1>4. CASE q = r /\ ~Start(r)
  <2>1. pc[r] \in {"s_rows", "s_status", "writing", "losing"} /\ ~Fail(r)
    BY <1>4, StepFrame, FailDrops DEF Follows, Filing, Ended
  <2>2. CASE SendRows(r)
    <3>1. \E y \in Live(call[r].msg) :
            \/ w = y /\ y.type # "from"
            \/ w = [y EXCEPT !.storage = "send"] /\ y.type = "from"
      <4>1. \A p : NewRow(r, call[r].msg, p, "to", "inbox", "new").type = "to"
        BY DEF NewRow
      <4> QED BY <1>4, <2>2, <4>1, Collected DEF AuthorsRow
    <3>2. PICK y \in Live(call[r].msg) :
            \/ w = y /\ y.type # "from"
            \/ w = [y EXCEPT !.storage = "send"] /\ y.type = "from"
      BY <3>1
    <3>3. y \in rows /\ y \in RowType /\ ~y.deleted
      BY DEF Live, TypeOK
    <3>4. w = [y EXCEPT !.storage = "send"] /\ y.type = "from"
      BY <3>2 DEF AuthorsRow
    <3> QED BY <3>3, <3>4, FiledFrom DEF AuthorsRow, Candidate
  <2>3. CASE SendStatus(r)
    BY <1>1, <1>4, <2>3 DEF SendStatus, At, locals, Filing
  <2>4. CASE WriteRow(r) \/ LoseWrite(r)
    BY <1>1, <1>4, <2>4, WriteCases DEF Filing
  <2> QED BY <1>4, <2>1, <2>2, <2>3, <2>4, AtLabel
<1> QED BY <1>2, <1>3, <1>4

\* So what is filed and what is in the table are still the same.
LEMMA CandidatesKept ==
  ASSUME SerialCalls, TypeOK, TypeOK', ControlOK, RowsOK, DraftsOK, SerialOK, AllHold, CopiesOK,
         NEW r \in Requests, Start(r) \/ Continue(r) \/ Fail(r) \/ Leak(r),
         NEW q \in Requests, pc'[q] \in Filing, NEW w \in work'[q], AuthorsRow(w)
  PROVE  /\ \A x \in rows' : AuthorsRow(x) /\ x.msg = w.msg => SameRow(x, w)
         /\ \A p \in Requests : pc'[p] \in Filing =>
              \A v \in work'[p] : AuthorsRow(v) /\ v.msg = w.msg => SameRow(v, w)
<1>1. PICK y : Candidate(y) /\ From(w, y)
  BY FilingSource
<1>2. ASSUME NEW x, NEW z, Candidate(z), From(x, z), x.msg = w.msg PROVE SameRow(x, w)
  <2>1. SameRow(z, y)
    BY <1>1, <1>2, OneCandidate DEF From
  <2> QED BY <1>1, <1>2, <2>1 DEF From, SameRow
<1>3. ASSUME NEW x \in rows', AuthorsRow(x), x.msg = w.msg PROVE SameRow(x, w)
  <2>1. CASE \E z \in rows : AuthorsRow(z) /\ From(x, z)
    BY <1>2, <1>3, <2>1 DEF Candidate
  <2>2. CASE pc[r] \in Filing /\ x \in work[r]
    BY <1>2, <1>3, <2>2, FiledFrom DEF Candidate, TypeOK
  <2>3. CASE /\ pc'[r] \notin Filing
             /\ \/ pc[r] \in Fresh /\ x.msg = r
                \/ pc[r] \in Drafting /\ x.msg = call[r].msg
    <3>1. q # r /\ pc[q] \in Filing /\ w \in work[q]
      BY <2>3, StepWork, StepFrame DEF Keeps
    <3> QED BY <1>3, <2>3, <3>1, CopyWriters DEF SerialOK, FreshOK, AuthorsRow
  <2> QED BY <1>3, <2>1, <2>2, <2>3, CopySource
<1>4. ASSUME NEW p \in Requests, pc'[p] \in Filing, NEW v \in work'[p], AuthorsRow(v),
             v.msg = w.msg
      PROVE  SameRow(v, w)
  BY <1>2, <1>4, FilingSource
<1> QED BY <1>3, <1>4

\* Hence the author's copy stays one.
LEMMA CopiesKept ==
  ASSUME SerialCalls, TypeOK, TypeOK', ControlOK, RowsOK, DraftsOK, SerialOK, AllHold, CopiesOK,
         NEW r \in Requests, Start(r) \/ Continue(r) \/ Fail(r) \/ Leak(r)
  PROVE  CopiesOK'
<1>1. OneCopy'
  BY OneCopyKept
<1>2. ASSUME NEW q \in Requests PROVE CopyOK(q)'
  <2>1. ASSUME NEW w \in work'[q], pc'[q] \in Filing, AuthorsRow(w)
        PROVE  /\ \A x \in rows' : AuthorsRow(x) /\ x.msg = w.msg => SameRow(x, w)
               /\ \A p \in Requests : pc'[p] \in Filing =>
                    \A v \in work'[p] : AuthorsRow(v) /\ v.msg = w.msg => SameRow(v, w)
    BY <2>1, CandidatesKept
  <2>2. CASE q # r
    <3>1. /\ pc'[q] = pc[q] /\ call'[q] = call[q] /\ work'[q] = work[q] /\ CopyOK(q)
      <4>1. CopyOK(q)
        BY DEF CopiesOK
      <4>2. pc'[q] = pc[q] /\ call'[q] = call[q]
        BY <2>2, StepFrame DEF Keeps
      <4> QED BY <2>2, <4>1, <4>2, StepWork
    <3>2. ASSUME pc[q] \in Replacing, NEW x \in rows', AuthorsRow(x), x.msg = call[q].msg
          PROVE  x \in rows
      BY <2>2, <3>2, DraftAlone DEF AuthorsRow, Replacing, Drafting, Updating
    <3> QED BY <2>1, <3>1, <3>2 DEF CopyOK, Replacing
  <2>3. CASE q = r /\ pc'[r] \in Replacing
    <3>1. ~Start(r) /\ UNCHANGED call /\ ~Fail(r) /\ ~Leak(r)
          /\ <<pc[r], pc'[r]>> \in {<<"u_scan", "u_patch">>, <<"u_patch", "u_message">>,
                                    <<"u_message", "u_commit">>}
      <4>1. ~Start(r) /\ ~Fail(r) /\ ~Leak(r)
        BY <2>3, StartLabels, FailDrops DEF Replacing, Leak, Goto, TypeOK
      <4> QED BY <2>3, <4>1, StepLabels DEF Follows, Replacing, Ended
    <3>2. r \in DOMAIN work /\ CopyOK(r)
      BY DEF TypeOK, CopiesOK
    <3>3. CASE pc[r] = "u_scan"
      <4>1. UNCHANGED rows /\ work'[r] = Live(call[r].msg)
        BY <3>1, <3>2, <3>3, AtLabel DEF UpdateScan, Replaced
      <4> QED BY <2>3, <3>1, <3>3, <4>1 DEF CopyOK, Live, AuthorsRow, SameRow, Filing
    <3>4. CASE pc[r] = "u_patch"
      <4>1. UNCHANGED rows
            /\ work'[r] = {x \in Live(call[r].msg) : \E y \in work[r] : SameRow(x, y)}
        BY <3>1, <3>2, <3>4, AtLabel DEF UpdatePatch
      <4> QED BY <2>3, <3>1, <3>2, <3>4, <4>1 DEF CopyOK, Live, AuthorsRow, Filing
    <3>5. CASE pc[r] = "u_message"
      <4>1. UNCHANGED rows /\ work'[r] = work[r]
        BY <3>1, <3>5, AtLabel DEF UpdateMessage, locals
      <4> QED BY <2>3, <3>1, <3>2, <3>5, <4>1 DEF CopyOK, Filing
    <3> QED BY <3>1, <3>3, <3>4, <3>5
  <2>4. CASE q = r /\ pc'[r] \notin Replacing
    BY <2>1, <2>4 DEF CopyOK, Replacing
  <2> QED BY <2>2, <2>3, <2>4
<1> QED BY <1>1, <1>2 DEF CopiesOK

-----------------------------------------------------------------------------
(* What sendDraft promises, from the moment it has read the draft: its rows  *)
(* are for the parties marked, they cover them, and nothing of the message   *)
(* stays in the drafts that it is not to move.                               *)

Marked(r) == message[call[r].msg].markedTo
Received(r, x) == x.msg = call[r].msg /\ x.type = "to"
Sending(r) == call[r].op = "sendDraft" /\ pc[r] \in {"writing", "losing", "done"}

\* Only when no write has failed is everything there or still to come.
Complete(r) ==
  /\ \A p \in Marked(r) : \E x \in rows \cup work[r] : Received(r, x) /\ x.party = p
  /\ \A x \in Live(call[r].msg) :
       x.storage = "draft" => \E w \in work[r] : SameRow(x, w)

SendOK(r) ==
  /\ call[r].op = "sendDraft" =>
       pc[r] \in {"idle", "s_rows", "s_status", "writing", "losing"} \cup Ended
  /\ pc[r] = "s_rows" => call[r].to = Marked(r)
  /\ pc[r] = "s_status" =>
       /\ \A w \in work[r] : w.type = "to" => w.party \in Marked(r)
       /\ \A p \in Marked(r) : \E w \in work[r] : w.type = "to" /\ w.party = p
       /\ \A x \in Live(call[r].msg) : \E w \in work[r] : SameRow(x, w)
  /\ Sending(r) =>
       /\ message[call[r].msg].status = "send" /\ pc[call[r].msg] \in Ended
       /\ \A w \in work[r] : w.msg = call[r].msg
       /\ \A x \in rows \cup work[r] : Received(r, x) => x.party \in Marked(r)
       /\ pc[r] # "losing" => Complete(r)

SendsOK == \A r \in Requests : SendOK(r)

\* A request of another kind is never at a label of sendDraft's.
LEMMA StartSends ==
  ASSUME TypeOK, NEW r \in Requests, Start(r), call'[r].op = "sendDraft"
  PROVE  pc'[r] = "s_rows"
<1>0. r \in DOMAIN pc /\ r \in DOMAIN call
  BY DEF TypeOK
<1>4. CASE Trash(r) \/ Delete(r) \/ Restore(r)
  <2>1. \E o \in {"trash", "delete", "restore"} : \E a, u, m : Begin(r, About(o, a, u, m))
    BY <1>4 DEF Trash, Delete, Restore
  <2> QED BY <1>0, <2>1 DEF Begin, About, Request
<1> USE DEF Begin, Request, About, Goto
<1>1. CASE Compose(r)
  BY <1>0, <1>1 DEF Compose
<1>2. CASE Update(r) \/ Reply(r) \/ Forward(r)
  BY <1>0, <1>2 DEF Update, Reply, Forward
<1>3. CASE SendDraft(r)
  BY <1>0, <1>3 DEF SendDraft
<1>5. CASE Mark(r) \/ Fetch(r) \/ Attachment(r)
  BY <1>0, <1>5 DEF Mark, Fetch, Attachment
<1> QED BY <1>1, <1>2, <1>3, <1>4, <1>5 DEF Start

\* What is handled or has been sent stays marked to the same parties.
LEMMA MarkedKept ==
  ASSUME TypeOK, TypeOK', ControlOK, SerialOK, SendsOK, NEW r \in Requests,
         Start(r) \/ Continue(r) \/ Fail(r) \/ Leak(r), NEW q \in Requests, q # r
  PROVE  /\ pc[q] \in {"s_rows", "s_status"} => Marked(q)' = Marked(q)
         /\ Sending(q) => message'[call[q].msg] = message[call[q].msg] /\ Marked(q)' = Marked(q)
<1> SUFFICES ASSUME pc[q] \in {"s_rows", "s_status"} \/ Sending(q)
             PROVE  message'[call[q].msg] = message[call[q].msg] /\ Marked(q)' = Marked(q)
  OBVIOUS
<1>1. PICK m \in Requests : m = call[q].msg
  BY CallAtType DEF Sending, Ended
<1>2. Exists(m)
  BY <1>1 DEF SerialOK, OwnerOK, Drafting, SendsOK, SendOK, Exists
<1>3. ASSUME pc[r] \in Drafting PROVE call[r].msg # m
  <2>1. CASE Sending(q)
    BY <1>1, <1>3, <2>1 DEF SerialOK, OwnerOK, SendsOK, SendOK
  <2>2. CASE pc[q] \in {"s_rows", "s_status"}
    BY <1>1, <1>3, <2>2 DEF SerialOK, OwnerOK, Waits, Busy, Drafting, Updating, Ended
  <2> QED BY <2>1, <2>2
<1>4. message'[m] = message[m]
  BY <1>2, <1>3, MessageKept DEF Drafting, Updating
<1>5. call'[q] = call[q]
  BY StepFrame DEF Keeps
<1> QED BY <1>1, <1>4, <1>5 DEF Marked

\* The rows of a mail that has been sent come from rows of it, or are what its
\* sendDraft writes.
LEMMA SentSource ==
  ASSUME TypeOK, TypeOK', ControlOK, RowsOK, SerialOK, AllHold, SendsOK, NEW r \in Requests,
         Start(r) \/ Continue(r) \/ Fail(r) \/ Leak(r),
         NEW m \in Requests, message[m].status = "send", pc[m] \in Ended,
         NEW x \in rows', x.msg = m
  PROVE  \/ \E y \in rows : From(x, y) /\ x.deleted = y.deleted /\ x.storage = y.storage
         \/ /\ pc[r] \in {"writing", "losing"} /\ x \in work[r]
            /\ ~x.deleted => x.storage # "draft"
            /\ \/ \E y \in rows : From(x, y)
               \/ call[r].op = "sendDraft" /\ call[r].msg = m
<1>0. m # r
  BY StepFrame
<1>1. CASE x \in rows
  BY <1>1, FiledFrom DEF TypeOK
<1>2. CASE /\ pc[r] \in {"c_rows", "r_sender", "f_commit"} /\ pc'[r] \notin Filing
           /\ \E vis, new :
                Adds(r, r, new) /\ rows' = rows \cup {AuthorRow(r, r, vis)} \cup new
  BY <1>0, <1>1, <1>2, BodyMade DEF Adds
<1>3. CASE pc[r] = "r_commit" /\ rows' = rows \cup work[r] /\ pc'[r] \notin Filing
  BY <1>0, <1>1, <1>3 DEF AllHold, HoldsOK
<1>4. CASE /\ pc[r] = "u_commit" /\ pc'[r] \notin Filing
           /\ \E new :
                /\ Adds(r, call[r].msg, new)
                /\ rows' = (rows \ work[r]) \cup {Deleted(u) : u \in work[r]}
                             \cup {AuthorRow(r, call[r].msg, "new")} \cup new
  <2>1. message[call[r].msg].status = "draft"
    BY <1>4 DEF SerialOK, OwnerOK, Drafting, Updating
  <2>2. \A u \in {Deleted(v) : v \in work[r]} : u.msg = call[r].msg
    BY <1>4 DEF AllHold, HoldsOK, Replacing, Deleted, TypeOK, RowType
  <2>3. ASSUME x \notin rows PROVE x.msg = call[r].msg
    <3>1. AuthorRow(r, call[r].msg, "new").msg = call[r].msg
      BY BodyMade
    <3>2. PICK new :
            /\ Adds(r, call[r].msg, new)
            /\ rows' = (rows \ work[r]) \cup {Deleted(v) : v \in work[r]}
                         \cup {AuthorRow(r, call[r].msg, "new")} \cup new
      BY <1>4
    <3>3. \A u \in new : u.msg = call[r].msg
      BY <3>2 DEF Adds
    <3> QED BY <2>2, <2>3, <3>1, <3>2, <3>3
  <2> QED BY <1>1, <2>1, <2>3
<1>5. CASE /\ pc[r] \in {"writing", "losing"}
           /\ \E w \in work[r] :
                work'[r] = work[r] \ {w} /\ rows' = {u \in rows : ~SameRow(u, w)} \cup {w}
  <2>1. CASE x \in work[r]
    <3>1. Targeted(x) /\ HoldsOK(r) /\ SendOK(r)
      BY <2>1 DEF SerialOK, AllHold, SendsOK
    <3>2. ASSUME NEW y \in rows, SameRow(y, x) PROVE From(x, y)
      <4>1. Targeted(y)
        BY DEF SerialOK
      <4> QED BY <3>1, <3>2, <4>1, SameTarget DEF SameRow
    <3> QED BY <1>5, <2>1, <3>1, <3>2 DEF HoldsOK, Filing, SendOK, Sending
  <2> QED BY <1>1, <1>5, <2>1
<1>6. CASE /\ pc[r] = "m_rows" /\ pc'[r] \notin Filing
           /\ \E marked \in SUBSET rows : \E v \in {"read", "unread"} :
                /\ \A u \in marked : u.party = call[r].user /\ ~u.deleted
                /\ rows' = (rows \ marked) \cup {[u EXCEPT !.visibility = v] : u \in marked}
  <2>1. PICK marked \in SUBSET rows, v \in {"read", "unread"} :
          rows' = (rows \ marked) \cup {[u EXCEPT !.visibility = v] : u \in marked}
    BY <1>6
  <2>2. \A u \in rows :
          /\ From([u EXCEPT !.visibility = v], u)
          /\ [u EXCEPT !.visibility = v].deleted = u.deleted
          /\ [u EXCEPT !.visibility = v].storage = u.storage
    BY FiledFrom DEF TypeOK, RowType
  <2> QED BY <1>1, <2>1, <2>2
<1> QED BY <1>1, <1>2, <1>3, <1>4, <1>5, <1>6, StepWrites DEF RowsWritten

\* What the others do leaves a sendDraft's promise alone.
LEMMA OtherSends ==
  ASSUME TypeOK, TypeOK', ControlOK, RowsOK, DraftsOK, SerialOK, AllHold, SendsOK,
         NEW r \in Requests, Start(r) \/ Continue(r) \/ Fail(r) \/ Leak(r),
         NEW q \in Requests, q # r
  PROVE  SendOK(q)'
<1>1. /\ pc'[q] = pc[q] /\ call'[q] = call[q] /\ work'[q] = work[q] /\ SendOK(q)
  <2>1. pc'[q] = pc[q] /\ call'[q] = call[q]
    BY StepFrame DEF Keeps
  <2> QED BY <2>1, StepWork DEF SendsOK
<1>2. CASE pc[q] \in {"s_rows", "s_status"}
  <2>1. Marked(q)' = Marked(q)
    BY <1>2, MarkedKept
  <2>2. ASSUME pc[q] = "s_status", NEW x \in rows', x.msg = call[q].msg, ~x.deleted
        PROVE  x \in rows
    BY <2>2, DraftAlone DEF Drafting
  <2> QED BY <1>1, <1>2, <2>1, <2>2 DEF SendOK, Sending, Live
<1>3. CASE Sending(q)
  <2>1. PICK m \in Requests : m = call[q].msg
    BY <1>3, CallAtType DEF Sending, Ended
  <2>2. /\ message'[m] = message[m] /\ Marked(q)' = Marked(q)
        /\ message[m].status = "send" /\ pc[m] \in Ended /\ pc'[m] = pc[m]
    BY <1>1, <1>3, <2>1, MarkedKept, StepFrame DEF SendOK
  <2>3. Marked(q) = message[m].markedTo
    BY <2>1 DEF Marked
  <2>4. ASSUME NEW x \in rows', x.msg = m
        PROVE  \/ \E y \in rows : From(x, y) /\ x.deleted = y.deleted /\ x.storage = y.storage
               \/ /\ pc[r] \in {"writing", "losing"} /\ x \in work[r]
                  /\ ~x.deleted => x.storage # "draft"
                  /\ \/ \E y \in rows : From(x, y)
                     \/ call[r].op = "sendDraft" /\ call[r].msg = m
    BY <2>2, <2>4, SentSource
  <2>5. ASSUME NEW x \in rows', x.msg = m, x.type = "to"
        PROVE  x.party \in Marked(q)
    <3>1. CASE \E y \in rows : From(x, y)
      BY <1>1, <1>3, <2>1, <2>5, <3>1 DEF SendOK, Received, From, SameRow
    <3>2. CASE /\ pc[r] \in {"writing", "losing"} /\ x \in work[r]
               /\ call[r].op = "sendDraft" /\ call[r].msg = m
      <4>1. Sending(r) /\ SendOK(r) /\ Received(r, x)
        BY <2>5, <3>2 DEF Sending, SendsOK, Received
      <4> QED BY <2>3, <3>2, <4>1 DEF SendOK, Marked
    <3> QED BY <2>4, <2>5, <3>1, <3>2
  <2>6. ASSUME pc[q] # "losing" PROVE Complete(q)'
    <3>1. Complete(q)
      BY <1>1, <1>3, <2>6 DEF SendOK
    <3>2. ASSUME NEW p \in Marked(q)
          PROVE  \E x \in rows' \cup work[q] : x.msg = m /\ x.type = "to" /\ x.party = p
      <4>1. PICK x \in rows \cup work[q] : x.msg = m /\ x.type = "to" /\ x.party = p
        BY <2>1, <3>1 DEF Complete, Received
      <4>2. CASE x \in rows
        <5>1. PICK z \in rows' : From(z, x)
          BY <4>2, StepEffect DEF Effect
        <5> QED BY <4>1, <5>1 DEF From, SameRow
      <4> QED BY <4>1, <4>2
    <3>3. ASSUME NEW x \in rows', x.msg = m, ~x.deleted, x.storage = "draft"
          PROVE  \E w \in work[q] : SameRow(x, w)
      <4>1. PICK y \in rows : From(x, y) /\ ~y.deleted /\ y.storage = "draft"
        BY <2>4, <3>3
      <4>2. PICK w \in work[q] : SameRow(y, w)
        BY <2>1, <3>1, <3>3, <4>1 DEF Complete, Live, From
      <4> QED BY <4>1, <4>2 DEF From, SameRow
    <3> QED BY <1>1, <2>1, <2>2, <3>2, <3>3 DEF Complete, Received, Live
  <2> QED BY <1>1, <1>3, <2>1, <2>2, <2>5, <2>6 DEF SendOK, Sending, Received
<1> QED BY <1>1, <1>2, <1>3 DEF SendOK, Sending

\* And sendDraft keeps it.
LEMMA OwnSends ==
  ASSUME SerialCalls, TypeOK, TypeOK', ControlOK, RowsOK, DraftsOK, SerialOK, AllHold, SendsOK,
         NEW r \in Requests, Start(r) \/ Continue(r) \/ Fail(r) \/ Leak(r)
  PROVE  SendOK(r)'
<1>1. CASE Start(r)
  <2>1. UNCHANGED message
    BY <1>1, StartEffect
  <2> QED BY <1>1, <2>1, StartSends, StartLabels DEF SendOK, Sending, Marked, Ended
<1>2. CASE ~Start(r)
  <2>1. /\ UNCHANGED call /\ pc[r] \notin Ended \cup {"idle"}
        /\ pc'[r] \in Ended \/ <<pc[r], pc'[r]>> \in Follows
        /\ SendOK(r) /\ OpOK(r) /\ OwnerOK(r) /\ HoldsOK(r)
    BY <1>2, StepLabels DEF SendsOK, SerialOK, AllHold
  <2>2. PICK m \in Requests : m = call[r].msg
    BY <2>1, CallAtType
  <2>3. call[r].op = "sendDraft" => pc[r] \in {"s_rows", "s_status", "writing", "losing"}
    BY <2>1 DEF SendOK
  <2>4. ASSUME pc'[r] = "s_status" PROVE SendOK(r)'
    <3>1. pc[r] = "s_rows" /\ SendRows(r)
      BY <1>2, <2>1, <2>4, AtLabel, FailDrops DEF Follows, Ended
    <3>2. Marked(r)' = Marked(r) /\ call[r].to = Marked(r)
      BY <2>1, <3>1, Collected DEF SendOK, Marked
    <3>3. ASSUME NEW w \in work'[r], w.type = "to" PROVE w.party \in Marked(r)
      <4>1. ASSUME NEW y \in Live(m) PROVE y.type = "from"
        BY <2>1, <2>2, <3>1, <4>1 DEF DraftsOK, Private, OwnerOK, Drafting, Live
      <4>2. \A y \in Live(m) : y \in RowType
        BY DEF Live, TypeOK
      <4>3. \A y \in Live(m) : [y EXCEPT !.storage = "send"].type = "from"
        BY <4>1, <4>2 DEF RowType
      <4>4. \E p \in call[r].to : w = NewRow(r, call[r].msg, p, "to", "inbox", "new")
        BY <2>2, <3>1, <3>3, <4>1, <4>3, Collected
      <4> QED BY <3>2, <4>4 DEF NewRow
    <3>4. ASSUME NEW p \in Marked(r) PROVE \E w \in work'[r] : w.type = "to" /\ w.party = p
      <4>1. NewRow(r, call[r].msg, p, "to", "inbox", "new") \in work'[r]
        BY <3>1, <3>2, Collected
      <4> QED BY <4>1 DEF NewRow
    <3>5. \A x \in Live(m)' : \E w \in work'[r] : SameRow(x, w)
      BY <2>2, <3>1, Collected DEF Live, From, SameRow
    <3> QED BY <2>1, <2>2, <2>4, <3>2, <3>3, <3>4, <3>5 DEF SendOK, Sending
  <2>5. ASSUME Sending(r)' PROVE SendOK(r)'
    <3>1. /\ call[r].op = "sendDraft" /\ pc'[r] \in {"writing", "losing", "done"}
      BY <2>1, <2>5 DEF Sending
    <3>2. CASE pc[r] = "s_status"
      <4>1. SendStatus(r)
        BY <1>2, <3>1, <3>2, AtLabel, FailDrops
      <4>2. /\ message' = [message EXCEPT ![m].status = "send"]
            /\ UNCHANGED <<rows, work>> /\ pc'[r] = IF work[r] = {} THEN "done" ELSE "writing"
        BY <2>2, <4>1 DEF SendStatus, Goto, locals, TypeOK
      <4>3. /\ message[m].status = "draft" /\ pc[m] \in Ended /\ pc'[m] = pc[m]
        BY <2>1, <2>2, <3>2, StepFrame DEF OwnerOK, Drafting
      <4>4. message'[m].status = "send" /\ message'[m].markedTo = message[m].markedTo
        BY <4>2, <4>3 DEF TypeOK, MessageType, NoMessage
      <4>5. /\ \A w \in work[r] : w.msg = m
            /\ \A x \in rows : x.msg = m => x.type = "from"
        BY <2>2, <3>2, <4>3 DEF DraftsOK, WorkPrivate, Private
      <4>6. Marked(r) = message[m].markedTo /\ Marked(r)' = Marked(r)
        BY <2>1, <2>2, <4>4 DEF Marked
      <4> QED BY <2>1, <2>2, <3>1, <3>2, <4>2, <4>3, <4>4, <4>5, <4>6
              DEF SendOK, Sending, Complete, Received, Live, Ended
    <3>3. CASE pc[r] \in {"writing", "losing"}
      <4>1. Sending(r)
        BY <3>1, <3>3 DEF Sending
      <4>2. WriteRow(r) \/ LoseWrite(r)
        BY <1>2, <3>1, <3>3, AtLabel, FailDrops
      <4>3. UNCHANGED message /\ Marked(r)' = Marked(r) /\ pc[m] \in Ended /\ pc'[m] = pc[m]
        BY <2>1, <2>2, <4>1, <4>2, WriteCases, StepFrame DEF SendOK, Marked
      <4>4. PICK w \in work[r] :
              /\ work'[r] = work[r] \ {w}
              /\ \/ WriteRow(r) /\ rows' = {x \in rows : ~SameRow(x, w)} \cup {w}
                 \/ LoseWrite(r) /\ UNCHANGED rows /\ pc'[r] \in {"losing", "failed"}
        BY <4>2, WriteCases
      <4>5. \A x \in rows' \cup work'[r] : Received(r, x) => x.party \in Marked(r)
        BY <2>1, <4>1, <4>4 DEF SendOK
      <4>6. ASSUME pc'[r] # "losing" PROVE Complete(r)'
        <5>1. WriteRow(r) /\ rows' = {x \in rows : ~SameRow(x, w)} \cup {w}
          BY <3>1, <4>4, <4>6
        <5>2. Complete(r)
          <6>1. pc[r] # "losing"
            BY <3>1, <4>6, <5>1 DEF WriteRow, Goto, TypeOK
          <6> QED BY <2>1, <4>1, <6>1 DEF SendOK
        <5>3. ASSUME NEW p \in Marked(r)
              PROVE  \E x \in rows' \cup work'[r] : Received(r, x) /\ x.party = p
          <6>1. PICK x \in rows \cup work[r] : Received(r, x) /\ x.party = p
            BY <5>2 DEF Complete
          <6>2. w.msg = call[r].msg
            BY <2>1, <4>1 DEF SendOK
          <6> QED BY <4>4, <5>1, <6>1, <6>2 DEF Received, SameRow
        <5>4. ASSUME NEW x \in rows', x.msg = m, ~x.deleted, x.storage = "draft"
              PROVE  \E v \in work'[r] : SameRow(x, v)
          <6>1. x \in rows /\ ~SameRow(x, w)
            BY <2>1, <3>3, <5>1, <5>4 DEF HoldsOK, Filing
          <6>2. PICK v \in work[r] : SameRow(x, v)
            BY <2>2, <5>2, <5>4, <6>1 DEF Complete, Live
          <6> QED BY <4>4, <6>1, <6>2
        <5> QED BY <2>1, <2>2, <4>3, <5>3, <5>4 DEF Complete, Received, Live
      <4> QED BY <2>1, <2>2, <3>1, <4>1, <4>3, <4>4, <4>5, <4>6
              DEF SendOK, Sending, Received, Ended
    <3>4. CASE pc[r] = "s_rows"
      BY <1>2, <3>1, <3>4, AtLabel, FailDrops, Collected
    <3> QED BY <2>3, <3>1, <3>2, <3>3, <3>4
  <2>6. CASE ~Sending(r)' /\ pc'[r] # "s_status"
    BY <2>1, <2>3, <2>6 DEF SendOK, Follows, Ended
  <2> QED BY <2>4, <2>5, <2>6
<1> QED BY <1>1, <1>2

\* Every sendDraft keeps its promise.
LEMMA SendsKept ==
  ASSUME SerialCalls, TypeOK, TypeOK', ControlOK, RowsOK, DraftsOK, SerialOK, AllHold, SendsOK,
         NEW r \in Requests, Start(r) \/ Continue(r) \/ Fail(r) \/ Leak(r)
  PROVE  SendsOK'
BY OtherSends, OwnSends DEF SendsOK

-----------------------------------------------------------------------------
(* The inductive invariant of the mails of such users, and what follows.     *)

SerialInv == SerialOK /\ AllHold /\ CopiesOK /\ SendsOK

\* It holds of empty tables.
LEMMA InitSerial == Init => SerialInv
BY DEF Init, SerialInv, SerialOK, OpOK, OwnerOK, FreshOK, Drafting, Updating, Waits, Busy, Ended,
       NoMessage, NoCall, AllHold, HoldsOK, Replacing, Filing, CopiesOK, OneCopy, CopyOK,
       SendsOK, SendOK, Sending

\* The invariant is about the tables and the handlers only, and each of its parts
\* is kept by the step of any request.
LEMMA StepSerial ==
  ASSUME SerialCalls, TypeOK, TypeOK', ControlOK, RowsOK, DraftsOK, SerialInv, [Next]_vars
  PROVE  SerialInv'
<1>1. CASE UNCHANGED vars
  <2>1. SerialOK'
    BY <1>1 DEF vars, SerialInv, SerialOK, OpOK, OwnerOK, FreshOK, Waits, Busy, Targeted,
                Authored
  <2>2. AllHold' /\ CopiesOK'
    BY <1>1 DEF vars, SerialInv, AllHold, HoldsOK, CopiesOK, OneCopy, CopyOK
  <2>3. SendsOK'
    BY <1>1 DEF vars, SerialInv, SendsOK, SendOK, Sending, Marked, Received, Complete, Live
  <2> QED BY <2>1, <2>2, <2>3 DEF SerialInv
<1>2. ASSUME NEW r \in Requests, Start(r) \/ Continue(r) \/ Fail(r) \/ Leak(r)
      PROVE  SerialInv'
  BY <1>2, SerialKept, HoldsKept, CopiesKept, SendsKept DEF SerialInv
<1> QED BY <1>1, <1>2 DEF Next, Rest

\* So it always holds.
LEMMA SerialCorrect ==
  ASSUME SerialCalls
  PROVE  Spec => [](TypeOK /\ ControlOK /\ RowsOK /\ DraftsOK /\ SerialInv)
<1>1. SerialInv /\ (TypeOK /\ ControlOK /\ RowsOK /\ DraftsOK)
        /\ (TypeOK /\ ControlOK /\ RowsOK /\ DraftsOK)' /\ [Next]_vars => SerialInv'
  BY StepSerial
<1>2. Spec => [](TypeOK /\ ControlOK /\ RowsOK /\ DraftsOK)
  BY DraftsCorrect DEF SerialCalls
<1> QED BY <1>1, <1>2, InitSerial, PTL DEF Spec

\* The author of a message finds it once: the copy updateDraft adds comes with
\* the deletion of the one before, and filing, sending and marking rewrite it.
THEOREM AuthorKeepsOneRow ==
  ASSUME SerialCalls
  PROVE  Spec => []OneAuthorRow
<1>1. OneCopy => OneAuthorRow
  <2> SUFFICES ASSUME OneCopy, NEW m \in Requests
               PROVE  Cardinality({x \in Live(m) : x.type = "from"}) <= 1
    BY DEF OneAuthorRow
  <2> DEFINE S == {x \in Live(m) : x.type = "from"}
  <2>1. \A x, y \in S : x = y
    BY DEF Live, OneCopy, AuthorsRow
  <2> HIDE DEF S
  <2>2. S = {} \/ \E x : S = {x}
    BY <2>1
  <2>3. Cardinality(S) \in {0, 1}
    BY <2>2, FS_EmptySet, FS_Singleton
  <2> QED BY <2>3 DEF S
<1>2. SerialInv => OneCopy
  BY DEF SerialInv, CopiesOK
<1> QED BY <1>1, <1>2, SerialCorrect, PTL

\* A sendDraft that answers without an error has reached the parties marked and
\* nobody else, and has cleared the author's drafts of the mail.
THEOREM SendReachesTheMarked ==
  ASSUME SerialCalls
  PROVE  Spec => []SendDelivers
<1>1. TypeOK /\ SerialInv => SendDelivers
  <2> SUFFICES ASSUME TypeOK, SerialInv,
                      NEW r \in Requests, pc[r] = "done", call[r].op = "sendDraft"
               PROVE  LET m == call[r].msg IN
                      /\ message[m].status = "send"
                      /\ {x.party : x \in {y \in rows : y.msg = m /\ y.type = "to"}}
                           = message[m].markedTo
                      /\ \A x \in Live(m) : x.storage # "draft"
    BY DEF SendDelivers
  <2>1. Sending(r) /\ SendOK(r) /\ HoldsOK(r)
    BY DEF SerialInv, SendsOK, AllHold, Sending
  <2>2. Complete(r) /\ work[r] = {}
    BY <2>1 DEF SendOK, HoldsOK
  <2>3. message[call[r].msg].status = "send"
        /\ \A x \in rows : Received(r, x) => x.party \in Marked(r)
    BY <2>1 DEF SendOK
  <2> QED BY <2>2, <2>3 DEF Complete, Received, Marked
<1> QED BY <1>1, SerialCorrect, PTL

\* The attachments of a message do not change any more when the first recipient
\* has got it: who checked that it was a draft has written by then.
THEOREM AttachmentsStayFrozen ==
  ASSUME SerialCalls
  PROVE  Spec => AttachmentsFrozen
<1>1. TypeOK /\ DraftsOK /\ SerialInv /\ [Next]_vars
        => [\A m \in Requests : Delivered(m) => LiveFiles(m)' = LiveFiles(m)]_<<rows, files>>
  <2> SUFFICES ASSUME TypeOK, DraftsOK, SerialInv, [Next]_vars, UNCHANGED <<rows, files>> => FALSE,
                      NEW m \in Requests, Delivered(m)
               PROVE  LiveFiles(m)' = LiveFiles(m)
    OBVIOUS
  <2>1. \E r \in Requests : Start(r) \/ Continue(r) \/ Fail(r) \/ Leak(r)
    BY DEF Next, Rest, vars
  <2> QED BY <2>1, FilesFrozen DEF SerialInv
<1> QED BY <1>1, SerialCorrect, PTL DEF Spec, AttachmentsFrozen

-----------------------------------------------------------------------------
(* When no statement fails either, nothing is written behind a user's back:  *)
(* the rows a user holds are changed by the user's own requests only, one at *)
(* a time, so what a handler has read is what it writes over.                *)

ReliableCalls == SerialCalls /\ ~Faults

Place(x) == IF x.deleted THEN "gone" ELSE x.storage
Moved(y, x) == <<Place(y), Place(x)>> \in Copies!Moves(y.type)
Enters(x) == Place(x) \in Copies!Entrances(x.type)

\* Every row of the table is the only one of its identity.
Single == \A x, y \in rows : SameRow(x, y) => x = y

\* What a handler files is a row of its user, as the table has it, moved on; or
\* one that sendDraft is to create.
Refiles(r, w) ==
  /\ call[r].op = "sendDraft" => w.type = "from"
  /\ \E y \in rows : /\ SameRow(y, w) /\ y.party = call[r].user
                     /\ y.visibility = w.visibility /\ Moved(y, w)
Brings(r, w) ==
  /\ call[r].op = "sendDraft" /\ w.req = r /\ w.type = "to" /\ Enters(w)
  /\ \A y \in rows : ~SameRow(y, w)

\* A handler at one of these has not created a row yet.
Unmade == Fresh \cup Updating \cup {"s_rows", "s_status"}

OwnOK(r) ==
  /\ pc[r] # "losing"
  /\ pc[r] \in Unmade => \A x \in rows : x.req # r
  /\ pc[r] \in {"r_sender", "r_commit"} =>
       \A w \in work[r] : w.req = r /\ w.type = "to" /\ Enters(w)
  /\ pc[r] = "r_commit" => \A x \in rows : x.req = r => x.type = "from"
  /\ pc[r] \in {"u_message", "u_commit"} =>
       \A w \in work[r] : w \in rows /\ w.party = call[r].user /\ Place(w) = "draft"
  /\ pc[r] \in Filing => \A w \in work[r] : Refiles(r, w) \/ Brings(r, w)
  /\ pc[r] \in Filing \cup {"r_sender", "r_commit"} =>
       \A v, w \in work[r] : SameRow(v, w) => v = w

OwnsOK == Single /\ \A r \in Requests : OwnOK(r)

\* What a step may do to the table.
Changes(r, x, y) ==
  /\ SameRow(x, y)
  /\ \/ x = y
     \/ /\ y.party = call[r].user /\ (Place(x) = Place(y) \/ Moved(y, x))
        /\ x.visibility = "new" => y.visibility = "new"
Creates(r, x) == x.req = r /\ Enters(x) /\ \A y \in rows : ~SameRow(x, y)

\* Where a request's storage is the one of its path, the moves are the usual ones.
LEMMA UsualMoves ==
  ASSUME SerialCalls, NEW type
  PROVE  Copies!Moves(type) = Copies!Usual(type)
BY DEF Copies!Moves, SerialCalls, PrivateCalls, Overridden

\* Every step moves rows of the user who asks, and creates rows of the request.
LEMMA StepChanges ==
  ASSUME SerialCalls, TypeOK, TypeOK', ControlOK, RowsOK, DraftsOK, SerialOK, AllHold,
         OwnsOK,
         NEW r \in Requests, Start(r) \/ Continue(r) \/ Fail(r) \/ Leak(r), NEW x \in rows'
  PROVE  Creates(r, x) \/ \E y \in rows : Changes(r, x, y)
<1>0. /\ OwnOK(r) /\ HoldsOK(r)
      /\ pc[r] \in Unmade => \A y \in rows : ~(y.req = r)
  BY DEF OwnsOK, OwnOK, AllHold
<1>1. CASE x \in rows
  BY <1>1 DEF Changes, SameRow
<1>2. CASE /\ pc[r] \in {"c_rows", "r_sender", "f_commit"} /\ pc'[r] \notin Filing
           /\ \E vis, new :
                Adds(r, r, new) /\ rows' = rows \cup {AuthorRow(r, r, vis)} \cup new
  <2>1. PICK vis, new : Adds(r, r, new) /\ rows' = rows \cup {AuthorRow(r, r, vis)} \cup new
    BY <1>2
  <2>2. x \in rows \/ (x.req = r /\ Enters(x))
    <3>1. AuthorRow(r, r, vis).req = r /\ Enters(AuthorRow(r, r, vis))
      BY DEF AuthorRow, NewRow, Enters, Place, Copies!Entrances
    <3>2. \A u \in new : u.req = r /\ Enters(u)
      BY <2>1 DEF Adds, Enters, Place, Copies!Entrances
    <3> QED BY <2>1, <3>1, <3>2
  <2> QED BY <1>0, <1>1, <1>2, <2>2 DEF Creates, SameRow, Unmade, Fresh, Creating
<1>3. CASE pc[r] = "r_commit" /\ rows' = rows \cup work[r] /\ pc'[r] \notin Filing
  BY <1>0, <1>1, <1>3 DEF OwnOK, Creates, SameRow
<1>4. CASE /\ pc[r] = "u_commit" /\ pc'[r] \notin Filing
           /\ \E new :
                /\ Adds(r, call[r].msg, new)
                /\ rows' = (rows \ work[r]) \cup {Deleted(u) : u \in work[r]}
                             \cup {AuthorRow(r, call[r].msg, "new")} \cup new
  <2>1. PICK new :
          /\ Adds(r, call[r].msg, new)
          /\ rows' = (rows \ work[r]) \cup {Deleted(u) : u \in work[r]}
                       \cup {AuthorRow(r, call[r].msg, "new")} \cup new
    BY <1>4
  <2>2. CASE x \in {Deleted(u) : u \in work[r]}
    <3>1. PICK w \in work[r] : x = Deleted(w)
      BY <2>2
    <3>2. w \in rows /\ w \in RowType /\ w.party = call[r].user /\ Place(w) = "draft"
      BY <1>0, <1>4 DEF OwnOK, TypeOK
    <3>3. w.type = "from"
      <4>1. w.msg = call[r].msg /\ message[call[r].msg].status = "draft"
        BY <1>0, <1>4 DEF HoldsOK, Replacing, SerialOK, OwnerOK, Drafting, Updating
      <4> QED BY <3>2, <4>1 DEF DraftsOK, Private
    <3>4. SameRow(x, w) /\ x.deleted /\ x.visibility = w.visibility
      BY <3>1, <3>2 DEF Deleted, SameRow, RowType
    <3> QED BY <3>2, <3>3, <3>4, UsualMoves DEF Changes, Moved, Place, Copies!Usual
  <2>3. CASE x \notin {Deleted(u) : u \in work[r]}
    <3>1. x \in rows \/ (x.req = r /\ Enters(x))
      <4>1. AuthorRow(r, call[r].msg, "new").req = r /\ Enters(AuthorRow(r, call[r].msg, "new"))
        BY DEF AuthorRow, NewRow, Enters, Place, Copies!Entrances
      <4>2. \A u \in new : u.req = r /\ Enters(u)
        BY <2>1 DEF Adds, Enters, Place, Copies!Entrances
      <4> QED BY <2>1, <2>3, <4>1, <4>2
    <3> QED BY <1>0, <1>1, <1>4, <3>1 DEF Creates, SameRow, Unmade, Updating
  <2> QED BY <2>2, <2>3
<1>5. CASE /\ pc[r] \in {"writing", "losing"}
           /\ \E w \in work[r] :
                work'[r] = work[r] \ {w} /\ rows' = {u \in rows : ~SameRow(u, w)} \cup {w}
  <2>1. CASE x \in work[r]
    <3>1. Refiles(r, x) \/ Brings(r, x)
      BY <1>0, <1>5, <2>1 DEF OwnOK, Filing
    <3> QED BY <3>1 DEF Refiles, Brings, Changes, Creates, SameRow
  <2> QED BY <1>1, <1>5, <2>1
<1>6. CASE /\ pc[r] = "m_rows" /\ pc'[r] \notin Filing
           /\ \E marked \in SUBSET rows : \E v \in {"read", "unread"} :
                /\ \A u \in marked : u.party = call[r].user /\ ~u.deleted
                /\ rows' = (rows \ marked) \cup {[u EXCEPT !.visibility = v] : u \in marked}
  <2>1. PICK marked \in SUBSET rows, v \in {"read", "unread"} :
          /\ \A u \in marked : u.party = call[r].user /\ ~u.deleted
          /\ rows' = (rows \ marked) \cup {[u EXCEPT !.visibility = v] : u \in marked}
    BY <1>6
  <2>2. \A u \in marked : Changes(r, [u EXCEPT !.visibility = v], u)
    BY <2>1 DEF TypeOK, RowType, Changes, SameRow, Place
  <2> QED BY <1>1, <2>1, <2>2
<1> QED BY <1>1, <1>2, <1>3, <1>4, <1>5, <1>6, StepWrites DEF RowsWritten

\* The rows of other users stay.
LEMMA OthersStay ==
  ASSUME SerialCalls, TypeOK, TypeOK', ControlOK, RowsOK, DraftsOK, SerialOK, AllHold,
         OwnsOK,
         NEW r \in Requests, Start(r) \/ Continue(r) \/ Fail(r) \/ Leak(r),
         NEW y \in rows, y.party # call[r].user
  PROVE  y \in rows'
<1>1. PICK x \in rows' : From(x, y)
  BY StepEffect DEF Effect
<1>2. PICK z \in rows : Changes(r, x, z)
  BY <1>1, StepChanges DEF Creates, From
<1>3. z = y
  BY <1>1, <1>2 DEF Changes, From, OwnsOK, Single, SameRow
<1> QED BY <1>1, <1>2, <1>3 DEF Changes

\* No identity is given twice.
LEMMA SingleKept ==
  ASSUME SerialCalls, TypeOK, TypeOK', ControlOK, RowsOK, DraftsOK, SerialOK, AllHold,
         OwnsOK,
         NEW r \in Requests, Start(r) \/ Continue(r) \/ Fail(r) \/ Leak(r)
  PROVE  Single'
<1> SUFFICES ASSUME NEW x \in rows', NEW y \in rows', SameRow(x, y) PROVE x = y
  BY DEF Single, SameRow
<1>0. /\ OwnOK(r)
      /\ \A u, v \in rows : SameRow(u, v) => u = v
      /\ pc[r] \in Unmade => \A u \in rows : u.req # r
  BY DEF OwnsOK, OwnOK, Single
<1>1. CASE UNCHANGED rows
  BY <1>0, <1>1
<1>2. CASE /\ pc[r] \in {"c_rows", "r_sender", "f_commit"} /\ pc'[r] \notin Filing
           /\ \E vis, new :
                Adds(r, r, new) /\ rows' = rows \cup {AuthorRow(r, r, vis)} \cup new
  <2>1. PICK vis, new : Adds(r, r, new) /\ rows' = rows \cup {AuthorRow(r, r, vis)} \cup new
    BY <1>2
  <2>2. AuthorRow(r, r, vis).req = r /\ AuthorRow(r, r, vis).type = "from"
    BY DEF AuthorRow, NewRow
  <2>3. \A u \in rows : u.req # r
    BY <1>0, <1>2 DEF Unmade, Fresh, Creating
  <2> QED BY <1>0, <2>1, <2>2, <2>3 DEF Adds, SameRow
<1>3. CASE pc[r] = "r_commit" /\ rows' = rows \cup work[r] /\ pc'[r] \notin Filing
  BY <1>0, <1>3 DEF OwnOK, SameRow
<1>4. CASE /\ pc[r] = "u_commit" /\ pc'[r] \notin Filing
           /\ \E new :
                /\ Adds(r, call[r].msg, new)
                /\ rows' = (rows \ work[r]) \cup {Deleted(u) : u \in work[r]}
                             \cup {AuthorRow(r, call[r].msg, "new")} \cup new
  <2>1. PICK new :
          /\ Adds(r, call[r].msg, new)
          /\ rows' = (rows \ work[r]) \cup {Deleted(u) : u \in work[r]}
                       \cup {AuthorRow(r, call[r].msg, "new")} \cup new
    BY <1>4
  <2>2. /\ AuthorRow(r, call[r].msg, "new").req = r
        /\ AuthorRow(r, call[r].msg, "new").type = "from"
    BY DEF AuthorRow, NewRow
  <2>3. \A u \in rows : u.req # r
    BY <1>0, <1>4 DEF Unmade, Updating
  <2>4. \A w \in work[r] : w \in rows /\ SameRow(Deleted(w), w)
    BY <1>0, <1>4 DEF OwnOK, TypeOK, Deleted, SameRow, RowType
  <2>5. ASSUME NEW z \in rows'
        PROVE  \/ z \in rows /\ z \notin work[r]
               \/ \E w \in work[r] : z = Deleted(w)
               \/ z = AuthorRow(r, call[r].msg, "new")
               \/ z \in new
    BY <2>1
  <2> DEFINE old(z) == (z \in rows /\ z \notin work[r]) \/ \E w \in work[r] : z = Deleted(w)
  <2>6. CASE old(x) /\ old(y)
    BY <1>0, <2>4, <2>6 DEF SameRow
  <2>7. ASSUME NEW z, old(z) PROVE z.req # r
    BY <2>3, <2>4, <2>7 DEF SameRow
  <2>8. ASSUME NEW z \in rows', ~old(z)
        PROVE  z.req = r /\ (z = AuthorRow(r, call[r].msg, "new") \/ z \in new)
    BY <2>1, <2>2, <2>5, <2>8 DEF Adds
  <2> HIDE DEF old
  <2>9. CASE ~old(x) /\ ~old(y)
    BY <2>1, <2>2, <2>8, <2>9 DEF Adds, SameRow
  <2> QED BY <2>6, <2>7, <2>8, <2>9 DEF SameRow
<1>5. CASE /\ pc[r] \in {"writing", "losing"}
           /\ \E w \in work[r] :
                work'[r] = work[r] \ {w} /\ rows' = {u \in rows : ~SameRow(u, w)} \cup {w}
  BY <1>0, <1>5 DEF SameRow
<1>6. CASE /\ pc[r] = "m_rows" /\ pc'[r] \notin Filing
           /\ \E marked \in SUBSET rows : \E v \in {"read", "unread"} :
                /\ \A u \in marked : u.party = call[r].user /\ ~u.deleted
                /\ rows' = (rows \ marked) \cup {[u EXCEPT !.visibility = v] : u \in marked}
  <2>1. PICK marked \in SUBSET rows, v \in {"read", "unread"} :
          rows' = (rows \ marked) \cup {[u EXCEPT !.visibility = v] : u \in marked}
    BY <1>6
  <2>2. \A u \in rows : SameRow([u EXCEPT !.visibility = v], u)
    BY DEF TypeOK, RowType, SameRow
  <2>3. \A z \in rows' : \E u \in rows :
          SameRow(z, u) /\ z = IF u \in marked THEN [u EXCEPT !.visibility = v] ELSE u
    <3>1. \A u \in rows : SameRow(u, u)
      BY DEF SameRow
    <3> QED BY <2>1, <2>2, <3>1
  <2>4. PICK u \in rows :
          SameRow(x, u) /\ x = IF u \in marked THEN [u EXCEPT !.visibility = v] ELSE u
    BY <2>3
  <2>5. PICK w \in rows :
          SameRow(y, w) /\ y = IF w \in marked THEN [w EXCEPT !.visibility = v] ELSE w
    BY <2>3
  <2>6. u = w
    BY <1>0, <2>4, <2>5 DEF SameRow
  <2> QED BY <2>4, <2>5, <2>6
<1> QED BY <1>1, <1>2, <1>3, <1>4, <1>5, <1>6, StepWrites DEF RowsWritten

\* Two requests at work are of two users.
LEMMA ApartUsers ==
  ASSUME TypeOK, SerialOK, OwnsOK, NEW r \in Requests, Continue(r) \/ Fail(r) \/ Leak(r),
         NEW q \in Requests, q # r, Busy(q)
  PROVE  call[q].user # call[r].user
<1>1. Waits(q) /\ Waits(r)
  BY StepLabels DEF OwnsOK, OwnOK, Waits, Busy
<1> QED BY <1>1 DEF SerialOK, OwnerOK

\* So a request's rows wait for it as it has seen them.
LEMMA OtherOwn ==
  ASSUME SerialCalls, TypeOK, TypeOK', ControlOK, RowsOK, DraftsOK, SerialOK, AllHold,
         OwnsOK,
         NEW r \in Requests, Start(r) \/ Continue(r) \/ Fail(r) \/ Leak(r),
         NEW q \in Requests, q # r
  PROVE  OwnOK(q)'
<1>1. /\ pc'[q] = pc[q] /\ call'[q] = call[q] /\ work'[q] = work[q] /\ OwnOK(q)
  <2>1. pc'[q] = pc[q] /\ call'[q] = call[q]
    BY StepFrame DEF Keeps
  <2> QED BY <2>1, StepWork DEF OwnsOK
<1>2. ASSUME NEW x \in rows', x.req = q PROVE \E y \in rows : SameRow(x, y)
  BY <1>2, StepChanges DEF Creates, Changes
<1>3. ASSUME NEW y \in rows, y.party = call[q].user, Busy(q) PROVE y \in rows'
  <2>1. CASE Start(r)
    BY <2>1, StartEffect
  <2>2. CASE Continue(r) \/ Fail(r) \/ Leak(r)
    BY <1>3, <2>2, ApartUsers, OthersStay
  <2> QED BY <2>1, <2>2
<1>4. ASSUME pc[q] \in Unmade PROVE \A x \in rows' : x.req # q
  BY <1>1, <1>2, <1>4 DEF OwnOK, SameRow
<1>5. ASSUME pc[q] = "r_commit" PROVE \A x \in rows' : x.req = q => x.type = "from"
  BY <1>1, <1>2, <1>5 DEF OwnOK, SameRow
<1>6. ASSUME pc[q] \in {"u_message", "u_commit"} PROVE \A w \in work[q] : w \in rows'
  BY <1>1, <1>3, <1>6 DEF OwnOK, Busy, Ended
<1>7. ASSUME pc[q] \in Filing, NEW w \in work[q] PROVE Refiles(q, w)' \/ Brings(q, w)'
  <2>1. CASE Refiles(q, w)
    BY <1>1, <1>3, <1>7, <2>1 DEF Refiles, Busy, Ended, Filing
  <2>2. CASE Brings(q, w)
    BY <1>1, <1>2, <2>2 DEF Brings, SameRow
  <2> QED BY <1>1, <1>7, <2>1, <2>2 DEF OwnOK
<1> QED BY <1>1, <1>4, <1>5, <1>6, <1>7 DEF OwnOK

\* A request that files starts with moves of its user's rows.
LEMMA FilingMoves ==
  ASSUME SerialCalls, TypeOK, RowsOK, Single, NEW r \in Requests, Start(r), pc'[r] \in Filing
  PROVE  /\ \A w \in work'[r] : Refiles(r, w)'
         /\ \A v, w \in work'[r] : SameRow(v, w) => v = w
<1>1. PICK u, st : \E S \in SUBSET rows :
        /\ call'[r].user = u
        /\ \A x \in S : ~x.deleted /\ x.party = u /\ x.storage = st
        /\ \/ st \in {"send", "inbox"} /\ work'[r] = {Trashed(x) : x \in S}
           \/ st \in {"trash", "draft"} /\ work'[r] = {Deleted(x) : x \in S}
           \/ st = "trash" /\ work'[r] = {Restored(x) : x \in S}
  BY FilingCases
<1> PICK S \in SUBSET rows :
      /\ call'[r].user = u
      /\ \A x \in S : ~x.deleted /\ x.party = u /\ x.storage = st
      /\ \/ st \in {"send", "inbox"} /\ work'[r] = {Trashed(x) : x \in S}
         \/ st \in {"trash", "draft"} /\ work'[r] = {Deleted(x) : x \in S}
         \/ st = "trash" /\ work'[r] = {Restored(x) : x \in S}
  BY <1>1
<1>2. UNCHANGED rows /\ call'[r].op # "sendDraft"
  BY FilingCases, StartEffect
<1>3. ASSUME NEW y \in S
      PROVE  /\ y \in rows /\ y.party = u
             /\ SameRow(y, Trashed(y)) /\ SameRow(y, Deleted(y)) /\ SameRow(y, Restored(y))
             /\ Trashed(y).visibility = y.visibility
             /\ Deleted(y).visibility = y.visibility
             /\ Restored(y).visibility = y.visibility
             /\ st \in {"send", "inbox"} => Moved(y, Trashed(y))
             /\ st \in {"trash", "draft"} => Moved(y, Deleted(y))
             /\ st = "trash" => Moved(y, Restored(y))
  <2>1. y \in rows /\ y \in RowType /\ ~y.deleted /\ y.party = u /\ y.storage = st
    BY DEF TypeOK
  <2>2. SameRow(y, Trashed(y)) /\ SameRow(y, Deleted(y)) /\ SameRow(y, Restored(y))
    BY <2>1, FiledFrom DEF From, SameRow
  <2>3. IF y.type = "to" THEN st \in {"inbox", "trash"} ELSE st \in {"draft", "send", "trash"}
    BY <2>1 DEF RowsOK, Fits, Placed
  <2>4. /\ Trashed(y).storage = "trash" /\ ~Trashed(y).deleted
        /\ Deleted(y).deleted
        /\ Restored(y).storage = (IF y.type = "to" THEN "inbox" ELSE "send")
        /\ ~Restored(y).deleted
        /\ Trashed(y).visibility = y.visibility
        /\ Deleted(y).visibility = y.visibility
        /\ Restored(y).visibility = y.visibility
    BY <2>1 DEF Trashed, Deleted, Restored, RowType
  <2>5. y.type \in {"from", "to"}
    BY <2>1 DEF RowType
  <2> QED BY <2>1, <2>2, <2>3, <2>4, <2>5, UsualMoves
          DEF Moved, Place, Copies!Usual, Copies!Home
<1>4. PICK F : /\ \A y \in S : /\ SameRow(y, F[y]) /\ F[y].visibility = y.visibility
                                             /\ y \in rows /\ y.party = u /\ Moved(y, F[y])
               /\ work'[r] = {F[y] : y \in S}
  <2>1. CASE st \in {"send", "inbox"} /\ work'[r] = {Trashed(x) : x \in S}
    <3> DEFINE F == [y \in S |-> Trashed(y)]
    <3>1. \A y \in S : F[y] = Trashed(y)
      OBVIOUS
    <3> HIDE DEF F
    <3>2. work'[r] = {F[y] : y \in S}
      BY <2>1, <3>1
    <3>3. \A y \in S : /\ SameRow(y, F[y]) /\ F[y].visibility = y.visibility
                       /\ y \in rows /\ y.party = u /\ Moved(y, F[y])
      BY <1>3, <2>1, <3>1
    <3> QED BY <3>2, <3>3
  <2>2. CASE st \in {"trash", "draft"} /\ work'[r] = {Deleted(x) : x \in S}
    <3> DEFINE F == [y \in S |-> Deleted(y)]
    <3>1. \A y \in S : F[y] = Deleted(y)
      OBVIOUS
    <3> HIDE DEF F
    <3>2. work'[r] = {F[y] : y \in S}
      BY <2>2, <3>1
    <3>3. \A y \in S : /\ SameRow(y, F[y]) /\ F[y].visibility = y.visibility
                       /\ y \in rows /\ y.party = u /\ Moved(y, F[y])
      BY <1>3, <2>2, <3>1
    <3> QED BY <3>2, <3>3
  <2>3. CASE st = "trash" /\ work'[r] = {Restored(x) : x \in S}
    <3> DEFINE F == [y \in S |-> Restored(y)]
    <3>1. \A y \in S : F[y] = Restored(y)
      OBVIOUS
    <3> HIDE DEF F
    <3>2. work'[r] = {F[y] : y \in S}
      BY <2>3, <3>1
    <3>3. \A y \in S : /\ SameRow(y, F[y]) /\ F[y].visibility = y.visibility
                       /\ y \in rows /\ y.party = u /\ Moved(y, F[y])
      BY <1>3, <2>3, <3>1
    <3> QED BY <3>2, <3>3
  <2> QED BY <1>1, <2>1, <2>2, <2>3
<1>5. \A w \in work'[r] : \E y \in S : w = F[y]
  BY <1>4
<1>6. ASSUME NEW w \in work'[r] PROVE Refiles(r, w)'
  BY <1>1, <1>2, <1>4, <1>5 DEF Refiles
<1>7. ASSUME NEW v \in work'[r], NEW w \in work'[r], SameRow(v, w) PROVE v = w
  <2>1. PICK y \in S : v = F[y]
    BY <1>5
  <2>2. PICK z \in S : w = F[z]
    BY <1>5
  <2>3. y = z
    BY <1>4, <1>7, <2>1, <2>2 DEF Single, SameRow
  <2> QED BY <2>1, <2>2, <2>3
<1> QED BY <1>6, <1>7

\* sendDraft starts with the author's rows, to be moved, and new ones.
LEMMA CollectedMoves ==
  ASSUME SerialCalls, TypeOK, DraftsOK, SerialOK, OwnsOK, NEW r \in Requests, SendRows(r)
  PROVE  /\ \A w \in work'[r] : Refiles(r, w)' \/ Brings(r, w)'
         /\ \A v, w \in work'[r] : SameRow(v, w) => v = w
<1>0. PICK m \in Requests : m = call[r].msg
  BY CallAtType DEF SendRows, At, Ended
<1>1. /\ pc[r] = "s_rows" /\ UNCHANGED <<rows, call>> /\ call[r].op = "sendDraft"
      /\ message[m].status = "draft" /\ call[r].user = call[m].user
      /\ \A x \in rows : x.req # r
      /\ \A x, y \in rows : SameRow(x, y) => x = y
  BY <1>0, Collected DEF SerialOK, OpOK, OwnerOK, Drafting, OwnsOK, OwnOK, Unmade, Single
<1> DEFINE row(p) == NewRow(r, call[r].msg, p, "to", "inbox", "new")
           sent(y) == [y EXCEPT !.storage = "send"]
<1>2. ASSUME NEW y \in Live(m)
      PROVE  /\ y \in rows /\ y.type = "from" /\ y.party = call[r].user
             /\ SameRow(y, sent(y)) /\ sent(y).type = "from"
             /\ sent(y).visibility = y.visibility /\ Moved(y, sent(y))
  <2>1. y \in rows /\ y \in RowType /\ y.msg = m /\ ~y.deleted
    BY DEF Live, TypeOK
  <2>2. y.type = "from" /\ y.storage = "draft" /\ y.party = call[m].user
    BY <1>1, <2>1 DEF DraftsOK, Private, SerialOK, Authored
  <2>3. /\ sent(y).storage = "send" /\ ~sent(y).deleted /\ sent(y).type = "from"
        /\ sent(y).visibility = y.visibility /\ SameRow(y, sent(y))
    BY <2>1, <2>2 DEF RowType, SameRow
  <2> QED BY <1>1, <2>1, <2>2, <2>3, UsualMoves DEF Moved, Place, Copies!Usual
<1>3. \A p : /\ row(p).req = r /\ row(p).type = "to" /\ row(p).party = p
             /\ row(p).storage = "inbox" /\ ~row(p).deleted
  BY DEF NewRow
<1>4. ASSUME NEW w \in work'[r]
      PROVE  (\E y \in Live(m) : w = sent(y)) \/ \E p \in call[r].to : w = row(p)
  BY <1>0, <1>2, <1>4, Collected
<1> HIDE DEF row, sent
<1>5. ASSUME NEW w \in work'[r] PROVE Refiles(r, w)' \/ Brings(r, w)'
  <2>1. CASE \E y \in Live(m) : w = sent(y)
    BY <1>1, <1>2, <2>1 DEF Refiles
  <2>2. CASE \E p \in call[r].to : w = row(p)
    BY <1>1, <1>3, <2>2 DEF Brings, Enters, Place, Copies!Entrances, SameRow
  <2> QED BY <1>4, <2>1, <2>2
<1>6. ASSUME NEW v \in work'[r], NEW w \in work'[r], SameRow(v, w) PROVE v = w
  <2>1. CASE v.type = "from"
    <3>1. PICK y \in Live(m) : v = sent(y)
      BY <1>3, <1>4, <2>1
    <3>2. PICK z \in Live(m) : w = sent(z)
      BY <1>3, <1>4, <1>6, <2>1 DEF SameRow
    <3>3. y = z
      BY <1>1, <1>2, <1>6, <3>1, <3>2 DEF SameRow
    <3> QED BY <3>1, <3>2, <3>3
  <2>2. CASE v.type # "from"
    <3>1. PICK p \in call[r].to : v = row(p)
      BY <1>2, <1>4, <2>2
    <3>2. PICK q \in call[r].to : w = row(q)
      BY <1>2, <1>4, <1>6, <2>2 DEF SameRow
    <3> QED BY <1>3, <1>6, <3>1, <3>2 DEF SameRow
  <2> QED BY <2>1, <2>2
<1> QED BY <1>5, <1>6

\* replyMail numbers the rows it collects.
LEMMA ReplyMoves ==
  ASSUME TypeOK, NEW r \in Requests, ReplySelect(r)
  PROVE  /\ \A w \in work'[r] : w.req = r /\ w.type = "to" /\ Enters(w)
         /\ \A v, w \in work'[r] : SameRow(v, w) => v = w
<1>0. r \in DOMAIN work
  BY DEF TypeOK
<1>1. CASE work'[r] = {}
  BY <1>1
<1>2. CASE work'[r] # {}
  <2> DEFINE found == {x \in rows :
               /\ x.msg = call[r].msg /\ x.thread = call[r].thread
               /\ IF call[r].all THEN x.party # call[r].user
                                 ELSE x.party = call[call[r].msg].user}
             row(x, n) == [NewRow(r, r, x.party, "to", "inbox", "new") EXCEPT !.num = n]
  <2>1. PICK num \in [found -> 1 .. Cardinality(found)] :
          /\ \A x, y \in found : num[x] = num[y] => x = y
          /\ work' = [work EXCEPT ![r] = {row(x, num[x]) : x \in found}]
    BY <1>0, <1>2 DEF ReplySelect, End, Drop
  <2>2. \A x, n : /\ row(x, n).req = r /\ row(x, n).type = "to" /\ row(x, n).num = n
                  /\ row(x, n).storage = "inbox" /\ ~row(x, n).deleted
    BY DEF NewRow
  <2> HIDE DEF found, row
  <2>3. \A w \in work'[r] : \E x \in found : w = row(x, num[x])
    BY <1>0, <2>1
  <2>4. ASSUME NEW v \in work'[r], NEW w \in work'[r], SameRow(v, w) PROVE v = w
    <3>1. PICK x \in found : v = row(x, num[x])
      BY <2>3
    <3>2. PICK y \in found : w = row(y, num[y])
      BY <2>3
    <3> QED BY <2>1, <2>2, <2>4, <3>1, <3>2 DEF SameRow
  <2> QED BY <2>2, <2>3, <2>4 DEF Enters, Place, Copies!Entrances
<1> QED BY <1>1, <1>2

\* A request keeps to its own rows.
LEMMA OwnOwn ==
  ASSUME ReliableCalls, TypeOK, TypeOK', ControlOK, RowsOK, DraftsOK, SerialOK, AllHold, OwnsOK,
         NEW r \in Requests, Start(r) \/ Continue(r) \/ Fail(r) \/ Leak(r)
  PROVE  OwnOK(r)'
<1>1. CASE Start(r)
  <2>1. /\ UNCHANGED rows /\ pc[r] = "idle" /\ \A x \in rows : x.req # r
        /\ pc'[r] \in {"c_message", "c_count", "u_files", "s_rows", "r_message", "f_count",
                       "writing", "m_rows", "a_add", "a_remove"}
    BY <1>1, StartEffect, StartLabels DEF OwnsOK, OwnOK, Unmade, Fresh
  <2>2. pc'[r] \in Filing =>
          /\ \A w \in work'[r] : Refiles(r, w)'
          /\ \A v, w \in work'[r] : SameRow(v, w) => v = w
    BY <1>1, FilingMoves DEF OwnsOK, ReliableCalls
  <2> QED BY <2>1, <2>2 DEF OwnOK, Filing
<1>2. CASE ~Start(r)
  <2>1. /\ ~Fail(r) /\ ~Leak(r) /\ Continue(r) /\ UNCHANGED call /\ OwnOK(r) /\ HoldsOK(r)
        /\ OwnerOK(r) /\ OpOK(r)
        /\ pc'[r] \in Ended \/ <<pc[r], pc'[r]>> \in Follows
    BY <1>2, StepLabels DEF ReliableCalls, Fail, Leak, OwnsOK, AllHold, SerialOK
  <2>2. ASSUME pc'[r] \in Unmade PROVE \A x \in rows' : x.req # r
    <3>1. pc[r] \in Unmade \ {"c_rows", "r_sender", "f_commit", "u_commit"}
      BY <2>1, <2>2 DEF Follows, Unmade, Fresh, Creating, Updating, Ended
    <3>2. UNCHANGED rows
      BY <3>1, StepWrites DEF RowsWritten, Unmade, Fresh, Creating, Updating
    <3> QED BY <2>1, <3>1, <3>2 DEF OwnOK
  <2>3. CASE pc'[r] \in {"r_sender", "r_commit"}
    <3>1. CASE pc'[r] = "r_sender"
      <4>1. ReplySelect(r)
        BY <2>1, <3>1, AtLabel DEF Follows, Ended
      <4> QED BY <2>2, <3>1, <4>1, ReplyMoves DEF OwnOK, Filing
    <3>2. CASE pc'[r] = "r_commit"
      <4>1. pc[r] = "r_sender" /\ ReplySender(r)
        BY <2>1, <3>2, AtLabel DEF Follows, Ended
      <4>2. rows' = rows \cup {AuthorRow(r, r, "new")} /\ work' = work
        BY <4>1 DEF ReplySender, locals
      <4>3. \A x \in rows' : x.req = r => x.type = "from"
        BY <2>1, <4>1, <4>2, BodyMade DEF OwnOK, Unmade, Fresh
      <4> QED BY <2>1, <2>2, <3>2, <4>1, <4>2, <4>3 DEF OwnOK, Filing
    <3> QED BY <2>3, <3>1, <3>2
  <2>4. CASE pc'[r] = "u_message"
    <3>1. pc[r] = "u_patch" /\ UpdatePatch(r)
      BY <2>1, <2>4, AtLabel DEF Follows, Ended
    <3>2. UNCHANGED rows /\ \A w \in work'[r] : w \in Live(call[r].msg)
      BY <3>1 DEF UpdatePatch, TypeOK
    <3>3. PICK m \in Requests : m = call[r].msg
      BY <3>1, CallAtType DEF Ended
    <3>4. message[m].status = "draft" /\ call[r].user = call[m].user
      BY <2>1, <3>1, <3>3 DEF OwnerOK, Drafting, Updating
    <3>5. ASSUME NEW w \in work'[r]
          PROVE  w \in rows' /\ w.party = call[r].user /\ Place(w) = "draft"
      BY <3>2, <3>3, <3>4 DEF Live, DraftsOK, Private, SerialOK, Authored, Place
    <3> QED BY <2>1, <2>2, <2>4, <3>5 DEF OwnOK, Filing
  <2>5. CASE pc'[r] = "u_commit"
    <3>1. pc[r] = "u_message" /\ UpdateMessage(r)
      BY <2>1, <2>5, AtLabel DEF Follows, Ended, Leak, Goto, TypeOK
    <3> QED BY <2>1, <2>2, <2>5, <3>1 DEF UpdateMessage, locals, OwnOK, Filing
  <2>6. CASE pc'[r] = "s_status"
    <3>1. SendRows(r)
      BY <2>1, <2>6, AtLabel DEF Follows, Ended
    <3> QED BY <2>2, <2>6, <3>1, CollectedMoves DEF OwnOK, ReliableCalls
  <2>7. CASE pc'[r] \in {"writing", "losing"}
    <3>1. CASE pc[r] = "s_status"
      <4>1. UNCHANGED <<rows, work>> /\ pc'[r] = "writing"
        BY <2>1, <2>7, <3>1, AtLabel DEF SendStatus, locals, Follows, Ended
      <4> QED BY <2>1, <3>1, <4>1 
        DEF OwnOK, Filing, Refiles, Brings, Unmade, Fresh, Creating, Updating
    <3>2. CASE pc[r] # "s_status"
      <4>1. pc[r] = "writing" /\ (WriteRow(r) \/ LoseWrite(r))
        BY <2>1, <2>7, <3>2, AtLabel DEF Follows, Ended, OwnOK
      <4>2. ~LoseWrite(r)
        BY <2>1, <4>1 DEF LoseWrite, Refused, OwnOK, Filing, Refiles, Brings, ReliableCalls
      <4>3. PICK w \in work[r] :
              work'[r] = work[r] \ {w} /\ rows' = {x \in rows : ~SameRow(x, w)} \cup {w}
        BY <4>1, <4>2, WriteCases
      <4>4. pc'[r] = "writing"
        BY <2>7, <4>1, <4>2 DEF WriteRow, Goto, TypeOK
      <4>5. ASSUME NEW v \in work'[r] PROVE Refiles(r, v)' \/ Brings(r, v)'
        <5>1. v \in work[r] /\ ~SameRow(v, w)
          BY <2>1, <4>1, <4>3 DEF OwnOK, Filing
        <5>2. CASE Refiles(r, v)
          BY <2>1, <4>3, <5>1, <5>2 DEF Refiles, SameRow
        <5>3. CASE Brings(r, v)
          BY <2>1, <4>3, <5>1, <5>3 DEF Brings, SameRow
        <5> QED BY <2>1, <4>1, <5>1, <5>2, <5>3 DEF OwnOK, Filing
      <4>6. \A u, v \in work'[r] : SameRow(u, v) => u = v
        BY <2>1, <4>1, <4>3 DEF OwnOK, Filing
      <4> QED BY <4>4, <4>5, <4>6 DEF OwnOK, Unmade, Fresh, Creating, Updating
    <3> QED BY <3>1, <3>2
  <2>8. pc'[r] # "losing"
    BY <2>7 DEF OwnOK
  <2> QED BY <2>2, <2>3, <2>4, <2>5, <2>6, <2>7, <2>8 DEF OwnOK, Filing
<1> QED BY <1>1, <1>2

\* The invariant is inductive, too.
LEMMA OwnsKept ==
  ASSUME ReliableCalls, TypeOK, TypeOK', ControlOK, RowsOK, DraftsOK, SerialOK, AllHold, OwnsOK,
         NEW r \in Requests, Start(r) \/ Continue(r) \/ Fail(r) \/ Leak(r)
  PROVE  OwnsOK'
BY SingleKept, OtherOwn, OwnOwn DEF OwnsOK, ReliableCalls

\* The inductive invariant of these calls.
LEMMA ReliableCorrect ==
  ASSUME ReliableCalls
  PROVE  Spec => [](TypeOK /\ ControlOK /\ RowsOK /\ DraftsOK /\ SerialInv /\ OwnsOK)
<1>1. Init => OwnsOK
  BY DEF Init, OwnsOK, OwnOK, Single, Filing
<1>2. (TypeOK /\ ControlOK /\ RowsOK /\ DraftsOK /\ SerialInv) /\ OwnsOK
        /\ (TypeOK /\ ControlOK /\ RowsOK /\ DraftsOK /\ SerialInv)' /\ [Next]_vars => OwnsOK'
  <2>1. ASSUME UNCHANGED vars, OwnsOK PROVE OwnsOK'
    BY <2>1 DEF vars, OwnsOK, OwnOK, Single, Refiles, Brings
  <2> QED BY <2>1, OwnsKept DEF Next, Rest, SerialInv
<1>3. Spec => [](TypeOK /\ ControlOK /\ RowsOK /\ DraftsOK /\ SerialInv)
  BY SerialCorrect DEF ReliableCalls
<1> QED BY <1>1, <1>2, <1>3, PTL DEF Spec

\* What a step does to the table is what Mailbox allows.
LEMMA StepMoves ==
  ASSUME SerialCalls, TypeOK, TypeOK', ControlOK, RowsOK, DraftsOK, SerialInv, OwnsOK, OwnsOK',
         [Next]_vars
  PROVE  [Copies!File]_Held
<1> DEFINE copy(x) == [id |-> <<x.req, x.num, x.party>>, type |-> x.type, place |-> Place(x)]
<1>1. Held = {copy(x) : x \in rows} /\ Held' = {copy(x) : x \in rows'}
  BY DEF Held, Place
<1>2. CASE UNCHANGED vars
  BY <1>2 DEF vars, Held
<1>3. CASE \E r \in Requests : Start(r) \/ Continue(r) \/ Fail(r) \/ Leak(r)
  <2>1. PICK r \in Requests : Start(r) \/ Continue(r) \/ Fail(r) \/ Leak(r)
    BY <1>3
  <2>2. \A x, y : Copies!Same(copy(x), copy(y)) <=> SameRow(x, y)
    BY DEF Copies!Same, SameRow
  <2>3. \A x : copy(x).place = Place(x) /\ copy(x).type = x.type
    OBVIOUS
  <2> HIDE DEF copy
  <2>4. \A x \in rows' : Creates(r, x) \/ \E y \in rows : Changes(r, x, y)
    BY <2>1, StepChanges DEF SerialInv
  <2>5. ASSUME NEW y \in rows
        PROVE  \E x \in rows' : SameRow(y, x) /\ (Place(y) = Place(x) \/ Moved(y, x))
    <3>1. PICK x \in rows' : SameRow(x, y)
      BY <2>1, StepEffect DEF Effect, From, SerialInv
    <3>2. PICK z \in rows : Changes(r, x, z)
      BY <2>4, <3>1 DEF Creates
    <3>3. z = y
      BY <3>1, <3>2 DEF Changes, OwnsOK, Single, SameRow
    <3> QED BY <3>1, <3>2, <3>3 DEF Changes, SameRow
  <2>6. \A c \in Held : \E d \in Held' :
          Copies!Same(c, d) /\ (c.place = d.place \/ <<c.place,
          d.place>> \in Copies!Moves(c.type))
    <3> SUFFICES ASSUME NEW y \in rows
                 PROVE  \E d \in Held' :
                          /\ Copies!Same(copy(y), d)
                          /\ \/ copy(y).place = d.place
                             \/ <<copy(y).place, d.place>> \in Copies!Moves(copy(y).type)
      BY <1>1
    <3>1. PICK x \in rows' : SameRow(y, x) /\ (Place(y) = Place(x) \/ Moved(y, x))
      BY <2>5
    <3>2. copy(x) \in Held'
      BY <1>1
    <3> QED BY <2>2, <2>3, <3>1, <3>2 DEF Moved
  <2>7. \A d \in Held' : (\E c \in Held : Copies!Same(c, d)) \/ d.place \in Copies!Entrances(d.type)
    <3> SUFFICES ASSUME NEW x \in rows'
                 PROVE  \/ \E c \in Held : Copies!Same(c, copy(x))
                        \/ copy(x).place \in Copies!Entrances(copy(x).type)
      BY <1>1
    <3>1. CASE Creates(r, x)
      BY <2>3, <3>1 DEF Creates, Enters
    <3>2. CASE \E y \in rows : Changes(r, x, y)
      <4>1. PICK y \in rows : SameRow(y, x)
        BY <3>2 DEF Changes, SameRow
      <4>2. copy(y) \in Held
        BY <1>1
      <4> QED BY <2>2, <4>1, <4>2
    <3> QED BY <2>4, <3>1, <3>2
  <2>8. \A c, d \in Held' : Copies!Same(c, d) => c = d
    <3> SUFFICES ASSUME NEW x \in rows', NEW y \in rows', Copies!Same(copy(x), copy(y))
                 PROVE  copy(x) = copy(y)
      BY <1>1
    <3> QED BY <2>2 DEF OwnsOK, Single, SameRow
  <2> QED BY <2>6, <2>7, <2>8 DEF Copies!File
<1> QED BY <1>2, <1>3 DEF Next, Rest

\* Each copy of a message lives the life of Mailbox: the rows that a handler reads
\* in one statement and writes in another are its user's, and nobody else's to change.
THEOREM ImplementsMailbox ==
  ASSUME ReliableCalls
  PROVE  Spec => MailboxSpec
<1>1. Init => Copies!Init
  BY DEF Init, Copies!Init, Held
<1>2. (TypeOK /\ ControlOK /\ RowsOK /\ DraftsOK /\ SerialInv /\ OwnsOK)
        /\ (TypeOK /\ ControlOK /\ RowsOK /\ DraftsOK /\ SerialInv /\ OwnsOK)' /\ [Next]_vars
          => [Copies!File]_Held
  BY StepMoves DEF ReliableCalls
<1> QED BY <1>1, <1>2, ReliableCorrect, PTL DEF Spec, MailboxSpec, Copies!Spec

\* No write of a whole row makes a mail new that has been opened in between.
THEOREM ReadMailsStayRead ==
  ASSUME ReliableCalls
  PROVE  Spec => ReadStaysRead
<1>1. (TypeOK /\ ControlOK /\ RowsOK /\ DraftsOK /\ SerialInv /\ OwnsOK)
        /\ (TypeOK /\ ControlOK /\ RowsOK /\ DraftsOK /\ SerialInv /\ OwnsOK)' /\ [Next]_vars
          => [\A x \in rows, y \in rows' :
                SameRow(x, y) /\ y.visibility = "new" => x.visibility = "new"]_rows
  <2> SUFFICES ASSUME TypeOK, TypeOK', ControlOK, RowsOK, DraftsOK, SerialInv, OwnsOK, [Next]_vars,
                      UNCHANGED rows => FALSE,
                      NEW x \in rows, NEW y \in rows', SameRow(x, y), y.visibility = "new"
               PROVE  x.visibility = "new"
    OBVIOUS
  <2>1. PICK r \in Requests : Start(r) \/ Continue(r) \/ Fail(r) \/ Leak(r)
    BY DEF Next, Rest, vars
  <2>2. PICK z \in rows : Changes(r, y, z)
    BY <2>1, StepChanges DEF Creates, SerialInv, SameRow, ReliableCalls
  <2>3. z = x
    BY <2>2 DEF Changes, OwnsOK, Single, SameRow
  <2> QED BY <2>2, <2>3 DEF Changes
<1> QED BY <1>1, ReliableCorrect, PTL DEF Spec, ReadStaysRead

-----------------------------------------------------------------------------
(* When nobody writes to himself and no draft is updated, each party has one *)
(* row of a message, deleted ones and those about to be written included.    *)
(* It is on the deleted ones that replyMail depends, which answers them too. *)

PlainCalls == SerialCalls /\ ~SelfMail /\ <<"update", "draft">> \notin Calls

Holding == Filing \cup {"r_sender", "r_commit"}
Copied == rows \cup UNION {work[q] : q \in {p \in Requests : pc[p] \in Holding}}

PlainOK(r) ==
  /\ pc[r] # "idle" =>
       /\ <<call[r].op, call[r].arg>> \in Calls
       /\ call[r].op \in {"compose", "forward"} => call[r].user \notin call[r].to
  /\ pc[r] \in {"r_message", "r_select"} =>
       /\ pc[call[r].msg] # "idle"
       /\ call[r].all \/ call[call[r].msg].user # call[r].user
  /\ message[r].status = "draft" => call[r].user \notin message[r].markedTo
  /\ pc[r] \in {"r_sender", "r_commit"} =>
       /\ \A w \in work[r] : w.party # call[r].user
       /\ \A v, w \in work[r] : SameRow(v, w) => v = w
  /\ pc[r] = "r_commit" => \A x \in rows : x.msg = r => x.type = "from"

PlainsOK ==
  /\ \A x, y \in rows : x.msg = y.msg /\ x.party = y.party => x = y
  /\ \A x, y \in Copied : x.msg = y.msg /\ x.party = y.party => SameRow(x, y)
  /\ \A r \in Requests : PlainOK(r)

\* The rows a request adds to those.
MadeNow(r, x) ==
  /\ x.req = r
  /\ \/ /\ pc[r] \in {"c_rows", "f_commit"} /\ x.msg = r /\ x.num = 0
        /\ \/ x.type = "from" /\ x.party = call[r].user
           \/ x.type = "to" /\ x.party \in call[r].to
     \/ pc[r] = "r_select" /\ x.msg = r /\ x \in work'[r]
     \/ pc[r] = "r_sender" /\ x.msg = r /\ x.type = "from" /\ x.party = call[r].user /\ x.num = 0
     \/ pc[r] = "s_rows" /\ x.msg = call[r].msg /\ x.type = "to" /\ x.party \in call[r].to
        /\ x.num = 0

\* A request starts with a call the clients make, of recipients other than the
\* user, and answers a mail of somebody else unless it answers all.
LEMMA StartPlain ==
  ASSUME PlainCalls, TypeOK, NEW r \in Requests, Start(r)
  PROVE  /\ <<call'[r].op, call'[r].arg>> \in Calls
         /\ call'[r].op \in {"compose", "forward"} => call'[r].user \notin call'[r].to
         /\ pc'[r] = "r_message" =>
              \E m \in Requests :
                /\ call'[r].msg = m /\ Exists(m)
                /\ call'[r].all \/ call[m].user # call'[r].user
<1>0. r \in DOMAIN pc /\ r \in DOMAIN call
  BY DEF TypeOK
<1>2. CASE Compose(r)
  <2>1. PICK u, s, t, to, f :
          /\ to \in Addressed(u)
          /\ Begin(r, Request("compose", s, u, r, t, to, f, FALSE))
          /\ pc'[r] # "r_message"
    BY <1>0, <1>2 DEF Compose, Goto
  <2> QED BY <1>0, <2>1 DEF Begin, Request, Addressed, PlainCalls
<1>3. CASE Forward(r)
  <2>1. PICK u, s, t, to, f :
          /\ to \in Addressed(u)
          /\ Begin(r, Request("forward", s, u, r, t, to, f, FALSE))
          /\ pc'[r] # "r_message"
    BY <1>0, <1>3 DEF Forward, Goto
  <2> QED BY <1>0, <2>1 DEF Begin, Request, Addressed, PlainCalls
<1>4. CASE Reply(r)
  <2>1. PICK u \in Users, s \in {"draft", "send"}, m \in Requests, all \in BOOLEAN, f \in WithFile :
          /\ Begin(r, Request("reply", s, u, m, ThreadOf(m), message[m].markedTo, f, all))
          /\ Knows(u, m) /\ (SelfMail \/ all \/ call[m].user # u)
    BY <1>4 DEF Reply
  <2> QED BY <1>0, <2>1 DEF Begin, Request, Knows, PlainCalls
<1>5. CASE Trash(r) \/ Delete(r) \/ Restore(r)
  <2>1. \E o \in {"trash", "delete", "restore"} : \E a, u, m : Begin(r, About(o, a, u, m))
    BY <1>5 DEF Trash, Delete, Restore
  <2>2. pc'[r] = "writing"
    BY <1>0, <1>5 DEF Trash, Delete, Restore, Goto
  <2> QED BY <1>0, <2>1, <2>2 DEF Begin, About, Request
<1>6. CASE Mark(r) \/ Fetch(r)
  <2>1. \E o \in {"mark", "fetch"} : \E a, u, m : Begin(r, About(o, a, u, m))
    BY <1>6 DEF Mark, Fetch
  <2>2. pc'[r] = "m_rows"
    BY <1>0, <1>6 DEF Mark, Fetch, Goto
  <2> QED BY <1>0, <2>1, <2>2 DEF Begin, About, Request
<1>7. CASE Update(r) \/ SendDraft(r) \/ Attachment(r)
  <2>1. \E o \in {"update", "sendDraft", "attachment"} : \E a, u, m, t, to, f, all :
          Begin(r, Request(o, a, u, m, t, to, f, all))
    BY <1>7 DEF Update, SendDraft, Attachment
  <2>2. pc'[r] # "r_message"
    BY <1>0, <1>7 DEF Update, SendDraft, Attachment, Goto
  <2> QED BY <1>0, <2>1, <2>2 DEF Begin, Request
<1> QED BY <1>2, <1>3, <1>4, <1>5, <1>6, <1>7 DEF Start

\* No draft is updated.
LEMMA NoUpdates ==
  ASSUME PlainCalls, SerialOK, DraftsOK, PlainsOK, NEW r \in Requests
  PROVE  pc[r] \notin Updating
<1> SUFFICES ASSUME pc[r] \in Updating PROVE FALSE
  OBVIOUS
<1>1. call[r].op = "update" /\ call[r].arg = "draft" /\ <<call[r].op, call[r].arg>> \in Calls
  BY DEF SerialOK, OpOK, DraftsOK, DraftControl, PlainsOK, PlainOK, Updating
<1> QED BY <1>1 DEF PlainCalls

\* The rows there are, and the ones to come, are those of before or made now.
LEMMA TableSource ==
  ASSUME PlainCalls, TypeOK, TypeOK', ControlOK, SerialOK, DraftsOK, PlainsOK,
         NEW r \in Requests, Start(r) \/ Continue(r) \/ Fail(r) \/ Leak(r), NEW x \in rows'
  PROVE  (\E y \in Copied : From(x, y)) \/ MadeNow(r, x)
<1>0. \A y \in rows : y \in Copied /\ From(y, y)
  BY FiledFrom DEF Copied, TypeOK
<1>1. CASE x \in rows
  BY <1>0, <1>1
<1>2. CASE /\ pc[r] \in {"c_rows", "r_sender", "f_commit"} /\ pc'[r] \notin Filing
           /\ \E vis, new :
                Adds(r, r, new) /\ rows' = rows \cup {AuthorRow(r, r, vis)} \cup new
  <2>1. CASE pc[r] = "r_sender"
    <3>1. ReplySender(r) \/ Fail(r)
      BY <2>1, StartLabels, AtLabel
    <3>2. rows' = rows \cup {AuthorRow(r, r, "new")} \/ UNCHANGED rows
      BY <3>1, FailDrops DEF ReplySender
    <3>3. AuthorRow(r, r, "new").num = 0
      BY DEF AuthorRow, NewRow
    <3> QED BY <1>0, <2>1, <3>2, <3>3, BodyMade DEF MadeNow
  <2>2. CASE pc[r] # "r_sender"
    <3>1. PICK vis, new : Adds(r, r, new) /\ rows' = rows \cup {AuthorRow(r, r, vis)} \cup new
      BY <1>2
    <3>2. /\ AuthorRow(r, r, vis).num = 0 /\ AuthorRow(r, r, vis).req = r
          /\ AuthorRow(r, r, vis).msg = r /\ AuthorRow(r, r, vis).type = "from"
          /\ AuthorRow(r, r, vis).party = call[r].user
      BY DEF AuthorRow, NewRow
    <3>3. MadeNow(r, AuthorRow(r, r, vis)) /\ \A u \in new : MadeNow(r, u)
      BY <1>2, <2>2, <3>1, <3>2 DEF MadeNow, Adds
    <3> QED BY <1>0, <3>1, <3>3
  <2> QED BY <2>1, <2>2
<1>3. CASE pc[r] = "r_commit" /\ rows' = rows \cup work[r] /\ pc'[r] \notin Filing
  BY <1>0, <1>3, FiledFrom DEF Copied, Holding, TypeOK
<1>4. CASE /\ pc[r] = "u_commit" /\ pc'[r] \notin Filing
           /\ \E new :
                /\ Adds(r, call[r].msg, new)
                /\ rows' = (rows \ work[r]) \cup {Deleted(u) : u \in work[r]}
                             \cup {AuthorRow(r, call[r].msg, "new")} \cup new
  BY <1>4, NoUpdates DEF Updating
<1>5. CASE /\ pc[r] \in {"writing", "losing"}
           /\ \E w \in work[r] :
                work'[r] = work[r] \ {w} /\ rows' = {u \in rows : ~SameRow(u, w)} \cup {w}
  <2>1. PICK w \in work[r] : rows' = {u \in rows : ~SameRow(u, w)} \cup {w}
    BY <1>5
  <2>2. w \in Copied /\ From(w, w)
    BY <1>5, FiledFrom DEF Copied, Holding, Filing, TypeOK
  <2> QED BY <1>0, <2>1, <2>2
<1>6. CASE /\ pc[r] = "m_rows" /\ pc'[r] \notin Filing
           /\ \E marked \in SUBSET rows : \E v \in {"read", "unread"} :
                /\ \A u \in marked : u.party = call[r].user /\ ~u.deleted
                /\ rows' = (rows \ marked) \cup {[u EXCEPT !.visibility = v] : u \in marked}
  <2>1. PICK marked \in SUBSET rows, v \in {"read", "unread"} :
          rows' = (rows \ marked) \cup {[u EXCEPT !.visibility = v] : u \in marked}
    BY <1>6
  <2>2. \A u \in rows : From([u EXCEPT !.visibility = v], u)
    BY FiledFrom DEF TypeOK
  <2> QED BY <1>0, <2>1, <2>2
<1> QED BY <1>1, <1>2, <1>3, <1>4, <1>5, <1>6, StepWrites DEF RowsWritten

\* Where the rows a handler holds come from.
LEMMA WorkSource ==
  ASSUME PlainCalls, TypeOK, TypeOK', ControlOK, NEW r \in Requests,
         Start(r) \/ Continue(r) \/ Fail(r) \/ Leak(r),
         NEW q \in Requests, pc'[q] \in Holding, NEW x \in work'[q]
  PROVE  (\E y \in Copied : From(x, y)) \/ MadeNow(r, x)
<1>0. x \in RowType /\ From(x, x)
  BY FiledFrom DEF TypeOK
<1>1. CASE pc[q] \in Holding /\ x \in work[q]
  BY <1>0, <1>1 DEF Copied
<1>2. CASE q # r
  BY <1>1, <1>2, StepWork, StepFrame DEF Keeps
<1>3. CASE q = r /\ Start(r)
  <2>1. pc'[r] \in Filing
    BY <1>3, StartLabels DEF Holding, Filing
  <2> QED BY <1>3, <2>1, FilingStarts DEF Copied, PlainCalls
<1>4. CASE q = r /\ ~Start(r)
  <2>1. ~Fail(r) /\ (pc'[r] \in Ended \/ <<pc[r], pc'[r]>> \in Follows)
    BY <1>4, StepFrame, FailDrops DEF Holding, Filing
  <2>2. pc[r] \in {"s_rows", "s_status", "writing", "losing", "r_select", "r_sender"}
    BY <1>4, <2>1 DEF Follows, Filing, Ended, Holding
  <2>3. CASE SendRows(r)
    <3>1. CASE \E y \in Live(call[r].msg) :
                 \/ x = y /\ y.type # "from"
                 \/ x = [y EXCEPT !.storage = "send"] /\ y.type = "from"
      <4>1. PICK y \in Live(call[r].msg) : x = y \/ x = [y EXCEPT !.storage = "send"]
        BY <3>1
      <4>2. y \in rows /\ y \in RowType
        BY DEF Live, TypeOK
      <4>3. From(x, y)
        BY <4>1, <4>2, FiledFrom
      <4> QED BY <4>2, <4>3 DEF Copied
    <3>2. CASE \E p \in call[r].to : x = NewRow(r, call[r].msg, p, "to", "inbox", "new")
      BY <2>3, <3>2 DEF MadeNow, NewRow, SendRows, At
    <3> QED BY <1>4, <2>3, <3>1, <3>2, Collected DEF PlainCalls
  <2>4. CASE SendStatus(r)
    BY <1>1, <1>4, <2>4 DEF SendStatus, At, locals, Filing, Holding
  <2>5. CASE WriteRow(r) \/ LoseWrite(r)
    BY <1>1, <1>4, <2>5, WriteCases DEF Filing, Holding
  <2>6. CASE ReplySelect(r)
    BY <1>4, <2>6, ReplyHolds, ReplyMoves, ReplySelectCases DEF MadeNow
  <2>7. CASE ReplySender(r)
    BY <1>1, <1>4, <2>7 DEF ReplySender, At, locals, Holding
  <2> QED BY <1>4, <2>1, <2>2, <2>3, <2>4, <2>5, <2>6, <2>7, AtLabel
<1> QED BY <1>2, <1>3, <1>4

\* What is made now is no party's second row.
LEMMA MadeApart ==
  ASSUME PlainCalls, TypeOK, ControlOK, SerialOK, DraftsOK, AllHold, SendsOK, PlainsOK,
         NEW r \in Requests, NEW x, MadeNow(r, x), NEW y \in Copied, x.msg = y.msg
  PROVE  x.party # y.party
<1>1. y \in rows \/ \E q \in Requests : pc[q] \in Holding /\ y \in work[q]
  BY DEF Copied
<1>2. CASE pc[r] \in {"c_rows", "f_commit", "r_select"}
  <2>1. x.msg = r /\ pc[r] \in Fresh /\ pc[r] \notin Holding
    BY <1>2 DEF MadeNow, Fresh, Creating, Holding, Filing
  <2> QED BY <1>1, <2>1 DEF SerialOK, FreshOK
<1>3. CASE pc[r] = "r_sender"
  <2>1. x.msg = r /\ pc[r] \in Fresh /\ x.party = call[r].user
    BY <1>3 DEF MadeNow, Fresh
  <2>2. y \in work[r]
    BY <1>1, <2>1 DEF SerialOK, FreshOK
  <2> QED BY <1>3, <2>1, <2>2 DEF PlainsOK, PlainOK
<1>4. CASE pc[r] = "s_rows"
  <2>1. PICK m \in Requests : m = call[r].msg
    BY <1>4, CallAtType DEF Ended
  <2>2. /\ x.msg = m /\ x.party \in message[m].markedTo
        /\ message[m].status = "draft" /\ pc[m] \in Ended /\ call[r].user = call[m].user
        /\ Waits(r)
    BY <1>4, <2>1 DEF MadeNow, SerialOK, OwnerOK, Drafting, SendsOK, SendOK, Marked, Waits,
                      Busy, Ended
  <2>3. call[m].user \notin message[m].markedTo
    BY <2>2 DEF PlainsOK, PlainOK
  <2>4. ASSUME NEW z \in rows, z.msg = m PROVE z.party = call[m].user
    BY <2>2, <2>4 DEF SerialOK, Authored
  <2>5. ASSUME NEW q \in Requests, pc[q] \in Holding, y \in work[q]
        PROVE  y.party = call[m].user
    <3>1. y.msg = m
      BY <2>2
    <3>2. CASE \E z \in rows : SameRow(z, y)
      <4>1. PICK z \in rows : SameRow(z, y)
        BY <3>2
      <4>2. Targeted(z) /\ Targeted(y)
        BY <2>5 DEF SerialOK
      <4> QED BY <2>4, <3>1, <4>1, <4>2, SameTarget DEF From, SameRow
    <3>3. CASE pc[q] \in Filing /\ call[q].op = "sendDraft"
      <4>1. CASE pc[q] = "s_status"
        <5>1. y.msg = call[q].msg
          BY <2>5, <4>1 DEF DraftsOK, WorkPrivate
        <5>2. call[q].user = call[m].user /\ Waits(q)
          BY <3>1, <4>1, <5>1 DEF SerialOK, OwnerOK, Drafting, Waits, Busy, Ended
        <5> QED BY <1>4, <2>2, <4>1, <5>2 DEF SerialOK, OwnerOK
      <4>2. CASE pc[q] # "s_status"
        BY <2>2, <2>5, <3>1, <3>3, <4>2 DEF SendsOK, SendOK, Sending, Filing
      <4> QED BY <4>1, <4>2
    <3>4. CASE pc[q] \in {"r_sender", "r_commit"}
      BY <2>2, <2>5, <3>1, <3>4 DEF AllHold, HoldsOK, Ended
    <3> QED BY <2>5, <3>2, <3>3, <3>4 DEF AllHold, HoldsOK, Holding
  <2> QED BY <1>1, <2>2, <2>3, <2>4, <2>5
<1> QED BY <1>2, <1>3, <1>4 DEF MadeNow

\* replyMail answers each party once, and not its own user.
LEMMA ReplyOnce ==
  ASSUME PlainCalls, TypeOK, PlainsOK, NEW r \in Requests, ReplySelect(r)
  PROVE  /\ \A w \in work'[r] : w.party # call[r].user
         /\ \A v, w \in work'[r] : v.party = w.party => v = w
<1>0. /\ r \in DOMAIN work /\ pc[r] = "r_select"
      /\ call[r].all \/ call[call[r].msg].user # call[r].user
  BY DEF TypeOK, ReplySelect, At, PlainsOK, PlainOK
<1>1. CASE work'[r] = {}
  BY <1>1
<1>2. CASE work'[r] # {}
  <2> DEFINE found == {x \in rows :
               /\ x.msg = call[r].msg /\ x.thread = call[r].thread
               /\ IF call[r].all THEN x.party # call[r].user
                                 ELSE x.party = call[call[r].msg].user}
             row(x, n) == [NewRow(r, r, x.party, "to", "inbox", "new") EXCEPT !.num = n]
  <2>1. PICK num \in [found -> 1 .. Cardinality(found)] :
          work' = [work EXCEPT ![r] = {row(x, num[x]) : x \in found}]
    BY <1>0, <1>2 DEF ReplySelect, End, Drop
  <2>2. \A x, n : row(x, n).party = x.party
    BY DEF NewRow
  <2>3. /\ \A x \in found : x.party # call[r].user
        /\ \A x, y \in found : x.party = y.party => x = y
    BY <1>0 DEF PlainsOK
  <2> HIDE DEF found, row
  <2>4. \A w \in work'[r] : \E x \in found : w = row(x, num[x])
    BY <1>0, <2>1
  <2>5. ASSUME NEW v \in work'[r], NEW w \in work'[r], v.party = w.party PROVE v = w
    <3>1. PICK x \in found : v = row(x, num[x])
      BY <2>4
    <3>2. PICK y \in found : w = row(y, num[y])
      BY <2>4
    <3> QED BY <2>2, <2>3, <2>5, <3>1, <3>2
  <2> QED BY <2>2, <2>3, <2>4, <2>5
<1> QED BY <1>1, <1>2

\* What is made now is one row of each party.
LEMMA MadeOnce ==
  ASSUME PlainCalls, TypeOK, TypeOK', ControlOK, SerialOK, PlainsOK, NEW r \in Requests,
         Start(r) \/ Continue(r) \/ Fail(r) \/ Leak(r),
         NEW x, NEW y, MadeNow(r, x), MadeNow(r, y), x.party = y.party
  PROVE  SameRow(x, y)
<1>1. CASE pc[r] \in {"c_rows", "f_commit"}
  <2>1. call[r].user \notin call[r].to
    BY <1>1 DEF SerialOK, OpOK, PlainsOK, PlainOK
  <2> QED BY <1>1, <2>1 DEF MadeNow, SameRow
<1>2. CASE pc[r] = "r_select"
  <2>1. ReplySelect(r) \/ Fail(r)
    BY <1>2, StartLabels, AtLabel
  <2> QED BY <1>2, <2>1, ReplyOnce, FailDrops DEF MadeNow, SameRow
<1>3. CASE pc[r] \in {"r_sender", "s_rows"}
  BY <1>3 DEF MadeNow, SameRow
<1> QED BY <1>1, <1>2, <1>3 DEF MadeNow

\* So each party's copies stay one.
LEMMA CopiedOnce ==
  ASSUME PlainCalls, TypeOK, TypeOK', ControlOK, SerialOK, DraftsOK, AllHold, SendsOK, PlainsOK,
         NEW r \in Requests, Start(r) \/ Continue(r) \/ Fail(r) \/ Leak(r)
  PROVE  \A x, y \in Copied' : x.msg = y.msg /\ x.party = y.party => SameRow(x, y)
<1> SUFFICES ASSUME NEW x \in Copied', NEW y \in Copied', x.msg = y.msg, x.party = y.party
             PROVE  SameRow(x, y)
  OBVIOUS
<1>1. ASSUME NEW z \in Copied' PROVE (\E u \in Copied : From(z, u)) \/ MadeNow(r, z)
  <2>1. z \in rows' \/ \E q \in Requests : pc'[q] \in Holding /\ z \in work'[q]
    BY <1>1 DEF Copied
  <2> QED BY <2>1, TableSource, WorkSource
<1>2. ASSUME NEW u \in Copied, NEW v, MadeNow(r, v), u.msg = v.msg, u.party = v.party PROVE FALSE
  BY <1>2, MadeApart
<1>3. \A u, v \in Copied : u.msg = v.msg /\ u.party = v.party => SameRow(u, v)
  BY DEF PlainsOK
<1>4. CASE MadeNow(r, x) /\ MadeNow(r, y)
  BY <1>4, MadeOnce
<1>5. CASE ~MadeNow(r, x) /\ ~MadeNow(r, y)
  <2>1. PICK u \in Copied : From(x, u)
    BY <1>1, <1>5
  <2>2. PICK v \in Copied : From(y, v)
    BY <1>1, <1>5
  <2>3. SameRow(u, v)
    BY <1>3, <2>1, <2>2 DEF From, SameRow
  <2> QED BY <2>1, <2>2, <2>3 DEF From, SameRow
<1>6. CASE ~MadeNow(r, x) /\ MadeNow(r, y)
  <2>1. PICK u \in Copied : From(x, u)
    BY <1>1, <1>6
  <2> QED BY <1>2, <1>6, <2>1 DEF From, SameRow
<1>7. CASE MadeNow(r, x) /\ ~MadeNow(r, y)
  <2>1. PICK u \in Copied : From(y, u)
    BY <1>1, <1>7
  <2> QED BY <1>2, <1>7, <2>1 DEF From, SameRow
<1> QED BY <1>4, <1>5, <1>6, <1>7

\* And their rows, which are of one identity then, are one row.
LEMMA RowsOnce ==
  ASSUME PlainCalls, TypeOK, TypeOK', ControlOK, SerialOK, DraftsOK, AllHold, SendsOK, PlainsOK,
         NEW r \in Requests, Start(r) \/ Continue(r) \/ Fail(r) \/ Leak(r)
  PROVE  \A x, y \in rows' : x.msg = y.msg /\ x.party = y.party => x = y
<1> SUFFICES ASSUME NEW x \in rows', NEW y \in rows', x.msg = y.msg, x.party = y.party
             PROVE  x = y
  OBVIOUS
<1>0. /\ \A u, v \in rows : u.msg = v.msg /\ u.party = v.party => u = v
      /\ \A u, v \in rows' : u.msg = v.msg /\ u.party = v.party => SameRow(u, v)
      /\ \A u, v \in Copied : u.msg = v.msg /\ u.party = v.party => SameRow(u, v)
  BY CopiedOnce DEF PlainsOK, Copied
<1>1. CASE UNCHANGED rows
  BY <1>0, <1>1
<1>2. CASE /\ pc[r] \in {"c_rows", "r_sender", "f_commit"} /\ pc'[r] \notin Filing
           /\ \E vis, new :
                Adds(r, r, new) /\ rows' = rows \cup {AuthorRow(r, r, vis)} \cup new
  <2>1. PICK vis, new : Adds(r, r, new) /\ rows' = rows \cup {AuthorRow(r, r, vis)} \cup new
    BY <1>2
  <2>2. \A u \in rows : u.msg # r
    BY <1>2 DEF SerialOK, FreshOK, Fresh, Creating
  <2>3. AuthorRow(r, r, vis).msg = r /\ AuthorRow(r, r, vis).type = "from"
    BY BodyMade
  <2>4. SameRow(x, y)
    BY <1>0
  <2> QED BY <1>0, <2>1, <2>2, <2>3, <2>4 DEF Adds, SameRow
<1>3. CASE pc[r] = "r_commit" /\ rows' = rows \cup work[r] /\ pc'[r] \notin Filing
  <2>1. /\ \A w \in work[r] : w.msg = r /\ w.type = "to"
        /\ \A v, w \in work[r] : SameRow(v, w) => v = w
        /\ \A u \in rows : u.msg = r => u.type = "from"
    BY <1>3 DEF AllHold, HoldsOK, PlainsOK, PlainOK
  <2>2. SameRow(x, y)
    BY <1>0
  <2> QED BY <1>0, <1>3, <2>1, <2>2 DEF SameRow
<1>4. CASE /\ pc[r] = "u_commit" /\ pc'[r] \notin Filing
           /\ \E new :
                /\ Adds(r, call[r].msg, new)
                /\ rows' = (rows \ work[r]) \cup {Deleted(u) : u \in work[r]}
                             \cup {AuthorRow(r, call[r].msg, "new")} \cup new
  BY <1>4, NoUpdates DEF Updating
<1>5. CASE /\ pc[r] \in {"writing", "losing"}
           /\ \E w \in work[r] :
                work'[r] = work[r] \ {w} /\ rows' = {u \in rows : ~SameRow(u, w)} \cup {w}
  <2>1. PICK w \in work[r] : rows' = {u \in rows : ~SameRow(u, w)} \cup {w}
    BY <1>5
  <2> QED BY <1>0, <2>1 DEF SameRow
<1>6. CASE /\ pc[r] = "m_rows" /\ pc'[r] \notin Filing
           /\ \E marked \in SUBSET rows : \E v \in {"read", "unread"} :
                /\ \A u \in marked : u.party = call[r].user /\ ~u.deleted
                /\ rows' = (rows \ marked) \cup {[u EXCEPT !.visibility = v] : u \in marked}
  <2>1. PICK marked \in SUBSET rows, v \in {"read", "unread"} :
          rows' = (rows \ marked) \cup {[u EXCEPT !.visibility = v] : u \in marked}
    BY <1>6
  <2>2. \A u \in rows : [u EXCEPT !.visibility = v].msg = u.msg
                        /\ [u EXCEPT !.visibility = v].party = u.party
    BY DEF TypeOK, RowType
  <2>3. \A z \in rows' : \E u \in rows :
          z.msg = u.msg /\ z.party = u.party
            /\ z = IF u \in marked THEN [u EXCEPT !.visibility = v] ELSE u
    BY <2>1, <2>2
  <2>4. PICK u \in rows :
          x.msg = u.msg /\ x.party = u.party
            /\ x = IF u \in marked THEN [u EXCEPT !.visibility = v] ELSE u
    BY <2>3
  <2>5. PICK w \in rows :
          y.msg = w.msg /\ y.party = w.party
            /\ y = IF w \in marked THEN [w EXCEPT !.visibility = v] ELSE w
    BY <2>3
  <2>6. u = w
    BY <1>0, <2>4, <2>5
  <2> QED BY <2>4, <2>5, <2>6
<1> QED BY <1>1, <1>2, <1>3, <1>4, <1>5, <1>6, StepWrites DEF RowsWritten

\* The others do not get at what a request depends on.
LEMMA OtherPlain ==
  ASSUME PlainCalls, TypeOK, TypeOK', ControlOK, SerialOK, DraftsOK, AllHold, SendsOK, PlainsOK,
         NEW r \in Requests, Start(r) \/ Continue(r) \/ Fail(r) \/ Leak(r),
         NEW q \in Requests, q # r
  PROVE  PlainOK(q)'
<1>1. /\ pc'[q] = pc[q] /\ call'[q] = call[q] /\ work'[q] = work[q] /\ PlainOK(q)
  <2>1. pc'[q] = pc[q] /\ call'[q] = call[q]
    BY StepFrame DEF Keeps
  <2> QED BY <2>1, StepWork DEF PlainsOK
<1>2. ASSUME pc[q] \in {"r_message", "r_select"}
      PROVE  /\ pc'[call[q].msg] # "idle"
             /\ call[q].all \/ call'[call[q].msg].user # call[q].user
  <2>1. PICK m \in Requests : m = call[q].msg
    BY <1>2, CallAtType DEF Ended
  <2>2. pc[m] # "idle" /\ (call[q].all \/ call[m].user # call[q].user)
    BY <1>1, <1>2, <2>1 DEF PlainOK
  <2>3. pc'[m] # "idle" /\ call'[m] = call[m]
    BY <2>2, StepFrame
  <2> QED BY <2>1, <2>2, <2>3
<1>3. ASSUME message'[q].status = "draft" PROVE call[q].user \notin message'[q].markedTo
  <2>1. message[q] # NoMessage /\ Exists(q)
    <3>1. message[q] # NoMessage
      <4>1. Keeps(r)
        BY StepFrame
      <4>2. message[q] = NoMessage => message'[q] = NoMessage
        BY <4>1 DEF Keeps
      <4>3. NoMessage.status # "draft"
        BY DEF NoMessage
      <4> QED BY <1>3, <4>2, <4>3
    <3> QED BY <3>1 DEF Exists, TypeOK, MessageType, NoMessage
  <2>2. message'[q] = message[q]
    <3>1. pc[r] \notin Updating
      BY NoUpdates
    <3> QED BY <1>3, <2>1, <3>1, MessageKept DEF Updating
  <2> QED BY <1>1, <1>3, <2>2 DEF PlainOK
<1>4. ASSUME pc[q] = "r_commit", NEW x \in rows', x.msg = q PROVE x.type = "from"
  <2>1. \A y \in rows : y.msg = q => y.type = "from"
    BY <1>1, <1>4 DEF PlainOK
  <2>2. CASE \E y \in rows : From(x, y)
    BY <1>4, <2>1, <2>2 DEF From, SameRow
  <2>3. CASE x \in rows
    BY <1>4, <2>1, <2>3
  <2>4. CASE /\ pc[r] \in {"c_rows", "r_sender", "f_commit"} /\ pc'[r] \notin Filing
             /\ \E vis, new :
                  Adds(r, r, new) /\ rows' = rows \cup {AuthorRow(r, r, vis)} \cup new
    <3>1. PICK vis, new : Adds(r, r, new) /\ rows' = rows \cup {AuthorRow(r, r, vis)} \cup new
      BY <2>4
    <3>2. AuthorRow(r, r, vis).msg = r /\ \A u \in new : u.msg = r
      BY <3>1, BodyMade DEF Adds
    <3> QED BY <1>4, <2>3, <3>1, <3>2
  <2>5. CASE pc[r] = "r_commit" /\ rows' = rows \cup work[r] /\ pc'[r] \notin Filing
    BY <1>4, <2>3, <2>5 DEF AllHold, HoldsOK
  <2>6. CASE /\ pc[r] \in {"writing", "losing"}
             /\ \E w \in work[r] :
                  work'[r] = work[r] \ {w} /\ rows' = {u \in rows : ~SameRow(u, w)} \cup {w}
    <3>1. CASE x \in work[r]
      <4>1. Targeted(x) /\ HoldsOK(r) /\ SendOK(r)
        BY <3>1 DEF SerialOK, AllHold, SendsOK
      <4>2. ASSUME NEW y \in rows, SameRow(y, x) PROVE From(x, y)
        <5>1. Targeted(y)
          BY DEF SerialOK
        <5> QED BY <4>1, <4>2, <5>1, SameTarget DEF SameRow
      <4>3. CASE call[r].op = "sendDraft"
        BY <1>4, <2>6, <3>1, <4>1, <4>3 DEF SendOK, Sending, Ended
      <4> QED BY <2>2, <2>6, <3>1, <4>1, <4>2, <4>3 DEF HoldsOK, Filing
    <3> QED BY <2>3, <2>6, <3>1
  <2>7. CASE /\ pc[r] = "m_rows" /\ pc'[r] \notin Filing
             /\ \E marked \in SUBSET rows : \E v \in {"read", "unread"} :
                  /\ \A u \in marked : u.party = call[r].user /\ ~u.deleted
                  /\ rows' = (rows \ marked) \cup {[u EXCEPT !.visibility = v] : u \in marked}
    <3>1. PICK marked \in SUBSET rows, v \in {"read", "unread"} :
            rows' = (rows \ marked) \cup {[u EXCEPT !.visibility = v] : u \in marked}
      BY <2>7
    <3>2. \A u \in rows : From([u EXCEPT !.visibility = v], u)
      BY FiledFrom DEF TypeOK
    <3> QED BY <2>2, <2>3, <3>1, <3>2
  <2>8. pc[r] # "u_commit"
    BY NoUpdates DEF Updating
  <2> QED BY <2>3, <2>4, <2>5, <2>6, <2>7, <2>8, StepWrites DEF RowsWritten
<1> QED BY <1>1, <1>2, <1>3, <1>4 DEF PlainOK

\* And it sees to the rest itself.
LEMMA OwnPlain ==
  ASSUME PlainCalls, TypeOK, TypeOK', ControlOK, SerialOK, DraftsOK, AllHold, SendsOK, PlainsOK,
         NEW r \in Requests, Start(r) \/ Continue(r) \/ Fail(r) \/ Leak(r)
  PROVE  PlainOK(r)'
<1>1. CASE Start(r)
  <2>1. /\ UNCHANGED message /\ pc[r] = "idle" /\ pc'[r] # "r_select"
        /\ pc'[r] \notin {"r_sender", "r_commit"}
    BY <1>1, StartEffect, StartLabels
  <2>2. message[r].status # "draft"
    BY <2>1, StepFrame DEF Exists
  <2>3. ASSUME pc'[r] = "r_message"
        PROVE  /\ pc'[call'[r].msg] # "idle"
               /\ call'[r].all \/ call'[call'[r].msg].user # call'[r].user
    <3>1. PICK m \in Requests :
            /\ call'[r].msg = m /\ Exists(m)
            /\ call'[r].all \/ call[m].user # call'[r].user
      BY <1>1, <2>3, StartPlain
    <3>2. pc'[m] # "idle" /\ call'[m] = call[m]
      BY <3>1, StepFrame
    <3> QED BY <3>1, <3>2
  <2> QED BY <1>1, <2>1, <2>2, <2>3, StartPlain DEF PlainOK
<1>2. CASE ~Start(r)
  <2>1. /\ UNCHANGED call /\ PlainOK(r) /\ OpOK(r) /\ FreshOK(r) /\ pc[r] # "idle"
        /\ pc'[r] \in Ended \/ <<pc[r], pc'[r]>> \in Follows
    BY <1>2, StepLabels DEF PlainsOK, SerialOK
  <2>2. ASSUME pc'[r] \in {"r_message", "r_select"}
        PROVE  /\ pc'[call[r].msg] # "idle"
               /\ call[r].all \/ call[call[r].msg].user # call[r].user
    <3>1. pc[r] = "r_message"
      BY <2>1, <2>2 DEF Follows, Ended
    <3>2. PICK m \in Requests : m = call[r].msg
      BY <3>1, CallAtType DEF Ended
    <3> QED BY <2>1, <3>1, <3>2, StepFrame DEF PlainOK
  <2>3. ASSUME message'[r].status = "draft" PROVE call[r].user \notin message'[r].markedTo
    <3>1. CASE message[r].status = "draft"
      <4>1. Exists(r) /\ pc[r] \notin Updating
        BY <3>1, NoUpdates DEF Exists
      <4>2. message'[r] = message[r]
        BY <2>3, <4>1, MessageKept DEF Updating
      <4> QED BY <2>1, <2>3, <4>2 DEF PlainOK
    <3>2. CASE message[r].status # "draft"
      <4>1. pc'[r] = "c_rows"
        BY <2>3, <3>2, NewDraft
      <4>2. pc[r] = "c_message"
        BY <2>1, <4>1 DEF Follows, Ended
      <4>3. call[r].user \notin call[r].to
        BY <2>1, <4>2 DEF OpOK, PlainOK
      <4>4. ComposeMessage(r)
        BY <1>2, <4>1, <4>2, NextLabel, FailDrops
      <4>5. message'[r].markedTo \in {call[r].to, {}}
        BY <4>4 DEF ComposeMessage, TypeOK
      <4> QED BY <4>3, <4>5
    <3> QED BY <3>1, <3>2
  <2>4. CASE pc'[r] = "r_sender"
    <3>1. ReplySelect(r)
      BY <1>2, <2>1, <2>4, AtLabel, FailDrops DEF Follows, Ended
    <3> QED BY <2>1, <2>2, <2>3, <2>4, <3>1, ReplyOnce, ReplyMoves DEF PlainOK
  <2>5. CASE pc'[r] = "r_commit"
    <3>1. pc[r] = "r_sender"
      BY <2>1, <2>5 DEF Follows, Ended
    <3>2. ReplySender(r)
      BY <1>2, <2>5, <3>1, AtLabel, FailDrops
    <3>3. rows' = rows \cup {AuthorRow(r, r, "new")} /\ work' = work
      BY <3>2 DEF ReplySender, locals
    <3>4. \A x \in rows' : x.msg = r => x.type = "from"
      BY <2>1, <3>1, <3>3, BodyMade DEF FreshOK, Fresh
    <3> QED BY <2>1, <2>2, <2>3, <2>5, <3>1, <3>3, <3>4 DEF PlainOK
  <2> QED BY <2>1, <2>2, <2>3, <2>4, <2>5 DEF PlainOK
<1> QED BY <1>1, <1>2

\* The inductive invariant of these calls.
LEMMA PlainCorrect ==
  ASSUME PlainCalls
  PROVE  Spec => [](TypeOK /\ ControlOK /\ RowsOK /\ DraftsOK /\ SerialInv /\ PlainsOK)
<1>1. Init => PlainsOK
  BY DEF Init, PlainsOK, PlainOK, Copied, Holding, Filing, NoMessage
<1>2. (TypeOK /\ ControlOK /\ RowsOK /\ DraftsOK /\ SerialInv) /\ PlainsOK
        /\ (TypeOK /\ ControlOK /\ RowsOK /\ DraftsOK /\ SerialInv)' /\ [Next]_vars => PlainsOK'
  <2>1. ASSUME UNCHANGED vars, PlainsOK PROVE PlainsOK'
    BY <2>1 DEF vars, PlainsOK, PlainOK, Copied
  <2>2. ASSUME PlainsOK, TypeOK, TypeOK', ControlOK, DraftsOK, SerialInv,
               NEW r \in Requests, Start(r) \/ Continue(r) \/ Fail(r) \/ Leak(r)
        PROVE  PlainsOK'
    <3>1. \A q \in Requests : PlainOK(q)'
      BY <2>2, OtherPlain, OwnPlain DEF SerialInv
    <3>2. /\ \A x, y \in rows' : x.msg = y.msg /\ x.party = y.party => x = y
          /\ \A x, y \in Copied' : x.msg = y.msg /\ x.party = y.party => SameRow(x, y)
      BY <2>2, RowsOnce, CopiedOnce DEF SerialInv
    <3> QED BY <3>1, <3>2 DEF PlainsOK, SameRow
  <2> QED BY <2>1, <2>2 DEF Next, Rest
<1>3. Spec => [](TypeOK /\ ControlOK /\ RowsOK /\ DraftsOK /\ SerialInv)
  BY SerialCorrect DEF PlainCalls
<1> QED BY <1>1, <1>2, <1>3, PTL DEF Spec

\* Nobody receives a message twice, answered as often and by as many as it may be.
THEOREM MailsArriveOnce ==
  ASSUME PlainCalls
  PROVE  Spec => []AtMostOnce
<1>1. PlainsOK => AtMostOnce
  <2> SUFFICES ASSUME PlainsOK, NEW m \in Requests, NEW u \in Users
               PROVE  Cardinality({x \in Live(m) : x.party = u /\ x.type = "to"}) <= 1
    BY DEF AtMostOnce
  <2> DEFINE S == {x \in Live(m) : x.party = u /\ x.type = "to"}
  <2>1. \A x, y \in S : x = y
    BY DEF Live, PlainsOK
  <2> HIDE DEF S
  <2>2. S = {} \/ \E x : S = {x}
    BY <2>1
  <2>3. Cardinality(S) \in {0, 1}
    BY <2>2, FS_EmptySet, FS_Singleton
  <2> QED BY <2>3 DEF S
<1> QED BY <1>1, PlainCorrect, PTL

=============================================================================
