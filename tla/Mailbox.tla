------------------------------- MODULE Mailbox -------------------------------
(***************************************************************************)
(* What the in-mail service promises about the copies of a message that    *)
(* its parties hold: where a copy appears, and where it may go from there. *)
(* A copy is in one storage, or gone for good once it has been deleted.    *)
(***************************************************************************)

CONSTANT Choosy   \* whether a client may name the storage a request files from

VARIABLE held     \* the copies: records [id, type, place]

\* The author writes a draft or a sent mail, a recipient receives one.
Entrances(type) == IF type = "from" THEN {"draft", "send"} ELSE {"inbox"}

\* A draft is sent or thrown away.  A mail goes to the trash before it is
\* deleted, and comes back to where its party had it.
Home(type) == IF type = "from" THEN "send" ELSE "inbox"
Usual(type) ==
  {<<Home(type), "trash">>, <<"trash", "gone">>, <<"trash", Home(type)>>}
    \cup IF type = "from" THEN {<<"draft", "send">>, <<"draft", "gone">>} ELSE {}

\* A client that names the storage trashes, deletes and restores from any.
Moves(type) ==
  IF Choosy THEN {"draft", "send", "inbox", "trash"} \X {"trash", "gone", Home(type)}
            ELSE Usual(type)

Same(x, y) == x.id = y.id /\ x.type = y.type

Init == held = {}

\* A request may file several copies at once, and create several.
File ==
  /\ \A x \in held : \E y \in held' :
       Same(x, y) /\ (x.place = y.place \/ <<x.place, y.place>> \in Moves(x.type))
  /\ \A y \in held' :
       (\E x \in held : Same(x, y)) \/ y.place \in Entrances(y.type)
  /\ \A x, y \in held' : Same(x, y) => x = y

Spec == Init /\ [][File]_held
=============================================================================
