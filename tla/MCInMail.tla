------------------------------ MODULE MCInMail ------------------------------
(***************************************************************************)
(* The calls of the runs of InMail, each a choice of what the clients do.  *)
(***************************************************************************)
EXTENDS InMail, TLC

\* Several requests at once edit, send, answer and throw away drafts.
DraftCalls ==
  {<<"compose", "draft">>, <<"update", "draft">>, <<"sendDraft", "draft">>,
   <<"delete", "draft">>, <<"trash", "send">>, <<"restore", "trash">>,
   <<"reply", "send">>}

\* Users prepare and send mails, one request after the other.
AuthorCalls ==
  {<<"compose", "draft">>, <<"compose", "send">>, <<"update", "draft">>,
   <<"sendDraft", "draft">>, <<"attachment", "add">>, <<"attachment", "remove">>,
   <<"trash", "send">>}

\* Users work through their mailboxes, one request after the other.
MailboxCalls ==
  {<<"compose", "draft">>, <<"compose", "send">>, <<"sendDraft", "draft">>,
   <<"reply", "send">>, <<"trash", "send">>, <<"trash", "inbox">>,
   <<"delete", "trash">>, <<"delete", "draft">>, <<"restore", "trash">>,
   <<"fetch", "mail">>, <<"fetch", "missed">>}

\* Users fill and read threads and edit drafts, several requests at once.
ThreadCalls ==
  {<<"compose", "draft">>, <<"update", "draft">>, <<"sendDraft", "draft">>,
   <<"forward", "send">>, <<"reply", "send">>, <<"fetch", "thread">>, <<"fetch", "missed">>,
   <<"mark", "unread">>, <<"trash", "inbox">>, <<"attachment", "remove">>}

\* An author updates a draft and sends it in the same request.
UpdateCalls == {<<"compose", "draft">>, <<"update", "send">>}

\* An author updates a draft and sends it; the recipient answers.
AnswerCalls ==
  {<<"compose", "draft">>, <<"update", "draft">>, <<"sendDraft", "draft">>,
   <<"reply", "send">>}

Symmetry == Permutations(Users)
=============================================================================
