----------------------------- MODULE Attendance -----------------------------
(***************************************************************************)
(* The attendees of a meeting: the webhooks by which the video provider    *)
(* says who connects and disconnects, and the table session_attendees they *)
(* keep (checkWebhookPayload of VonageService and TwilioService).          *)
(*                                                                         *)
(* The provider is external.  It sends a hook for each event, numbered in  *)
(* the order of the events; hooks are handled in any order and several at  *)
(* a time, each in two steps, a find and then a create or an update.  A    *)
(* row is named after the hook that creates it.  With Vonage an attendee   *)
(* is the data of a connection's token, and may have several connections;  *)
(* with Twilio every connection is an attendee of its own.                 *)
(***************************************************************************)
EXTENDS Naturals, FiniteSets

CONSTANTS
  Attendee,
  MaxHooks,        \* bound: how many events the provider reports
  MaxConnections   \* bound: how many connections an attendee has at once

Hooks == 1 .. MaxHooks

ASSUME AttendanceAssumption ==
  MaxHooks \in Nat /\ MaxConnections \in Nat /\ "none" \notin Attendee

VARIABLES
  provider,    \* "vonage" or "twilio"
  orderly,     \* each hook is handled before the next event, and nobody
               \* connects twice
  joined,      \* provider: the open connections of each attendee
  closing,     \* provider: those whose streams are gone and that close next
  hook,        \* the events
  stage,       \* how far the handling of each is
  attendance,  \* table session_attendees
  known        \* the row a handler has found, as it was, or none

attendanceVars ==
  <<provider, orderly, joined, closing, hook, stage, attendance, known>>

NoHook == [event |-> "none", attendee |-> "none"]
NoAttendee == [attendee |-> "none", isDeleted |-> TRUE]
NotFound == [id |-> 0, isDeleted |-> TRUE]

Sent == {h \in Hooks : stage[h] # "idle"}
Handling == {h \in Hooks : stage[h] \in {"sent", "found"}}
RowsOf(a) == {i \in Hooks : attendance[i].attendee = a}
OnceJoined(a) == \E h \in Sent : hook[h] = [event |-> "connected", attendee |-> a]

\* getAttendeesList with active = 'true'.
Active == {a \in Attendee : \E i \in RowsOf(a) : ~attendance[i].isDeleted}

-----------------------------------------------------------------------------
(* The provider. *)

Hook(h, event, a) ==
  /\ stage[h] = "idle"
  /\ \A g \in Hooks : g < h => stage[g] # "idle"
  /\ orderly => Handling = {}
  /\ hook' = [hook EXCEPT ![h] = [event |-> event, attendee |-> a]]
  /\ stage' = [stage EXCEPT ![h] = "sent"]
  /\ UNCHANGED <<provider, orderly, attendance, known>>

Connect(h, a) ==
  /\ joined[a] + closing[a] < (IF orderly THEN 1 ELSE MaxConnections)
  /\ provider = "twilio" => ~OnceJoined(a)
  /\ joined' = [joined EXCEPT ![a] = @ + 1]
  /\ Hook(h, "connected", a)
  /\ UNCHANGED closing

Disconnect(h, a) ==
  /\ joined[a] > 0
  /\ joined' = [joined EXCEPT ![a] = @ - 1]
  /\ Hook(h, "disconnected", a)
  /\ UNCHANGED closing

\* Streams are Vonage's: one is created, one stops while its connection stays
\* (forceUnpublished, mediaStopped), one goes because its connection does.
StreamEvent(h, a, event) ==
  /\ provider = "vonage" /\ joined[a] > 0
  /\ Hook(h, event, a)
  /\ UNCHANGED <<joined, closing>>

StreamGone(h, a) ==
  /\ provider = "vonage" /\ joined[a] > 0
  /\ joined' = [joined EXCEPT ![a] = @ - 1]
  /\ closing' = [closing EXCEPT ![a] = @ + 1]
  /\ Hook(h, "streamGone", a)

CloseConnection(h, a) ==
  /\ closing[a] > 0
  /\ closing' = [closing EXCEPT ![a] = @ - 1]
  /\ Hook(h, "disconnected", a)
  /\ UNCHANGED joined

\* A recording begins: Twilio's, with recordParticipantsOnConnect.
RecordRoom(h, a) ==
  /\ provider = "twilio" /\ joined[a] > 0
  /\ Hook(h, "recording", a)
  /\ UNCHANGED <<joined, closing>>

-----------------------------------------------------------------------------
(* checkWebhookPayload. *)

\* A recording's archive is not stored: the session is looked up by its link
\* with the sid of the room, and the update without an id that follows fails.
StoreArchive(h) ==
  /\ stage[h] = "sent" /\ hook[h].event = "recording"
  /\ stage' = [stage EXCEPT ![h] = "failed"]
  /\ UNCHANGED <<provider, orderly, joined, closing, hook, attendance, known>>

FindAttendee(h) ==
  /\ stage[h] = "sent" /\ hook[h].event # "recording"
  /\ LET rows == RowsOf(hook[h].attendee) IN
       IF rows = {} THEN known' = [known EXCEPT ![h] = NotFound]
       ELSE \E i \in rows :
         known' = [known EXCEPT ![h] = [id |-> i, isDeleted |-> attendance[i].isDeleted]]
  /\ stage' = [stage EXCEPT ![h] = "found"]
  /\ UNCHANGED <<provider, orderly, joined, closing, hook, attendance>>

Handled(h) ==
  /\ stage' = [stage EXCEPT ![h] = "handled"]
  /\ UNCHANGED <<provider, orderly, joined, closing, hook, known>>

CreateAttendee(h) ==
  /\ stage[h] = "found" /\ known[h] = NotFound
  /\ hook[h].event = "connected"
  /\ attendance' = [attendance EXCEPT
       ![h] = [attendee |-> hook[h].attendee, isDeleted |-> FALSE]]
  /\ Handled(h)

\* An unknown attendee does not begin with any other event: Vonage's handler
\* does nothing, Twilio's fails on the row it has not found.
IgnoreAttendee(h) ==
  /\ stage[h] = "found" /\ known[h] = NotFound
  /\ hook[h].event # "connected"
  /\ Handled(h)
  /\ UNCHANGED attendance

\* What isDeleted is written as: Twilio's handler leaves it alone when a
\* participant it knows connects, Vonage's writes back the value it has read
\* for the events that say nothing of the connection.
DeletedAfterGone(h) ==             \* mutant: any stream's end is a departure
  CASE hook[h].event = "connected" -> FALSE
    [] hook[h].event = "streamCreated" -> known[h].isDeleted
    [] OTHER -> TRUE
DeletedAfter(h) ==
  CASE hook[h].event = "connected" /\ provider = "twilio" ->
         attendance[known[h].id].isDeleted
    [] hook[h].event = "connected" /\ provider = "vonage" -> FALSE
    [] hook[h].event \in {"streamCreated", "streamStopped"} -> known[h].isDeleted
    [] hook[h].event \in {"streamGone", "disconnected"} -> TRUE

UpdatedAll(h) ==                   \* mutant: an update without an id
  [i \in Hooks |-> IF attendance[i] = NoAttendee THEN NoAttendee
                   ELSE [attendance[i] EXCEPT !.isDeleted = DeletedAfter(h)]]
Updated(h) == [attendance EXCEPT ![known[h].id].isDeleted = DeletedAfter(h)]

UpdateAttendee(h) ==
  /\ stage[h] = "found" /\ known[h] # NotFound
  /\ attendance' = Updated(h)
  /\ Handled(h)

AttendanceInit ==
  /\ provider \in {"vonage", "twilio"}
  /\ orderly \in BOOLEAN
  /\ joined = [a \in Attendee |-> 0]
  /\ closing = [a \in Attendee |-> 0]
  /\ hook = [h \in Hooks |-> NoHook]
  /\ stage = [h \in Hooks |-> "idle"]
  /\ attendance = [h \in Hooks |-> NoAttendee]
  /\ known = [h \in Hooks |-> NotFound]

AttendanceNext ==
  \E h \in Hooks :
    \/ \E a \in Attendee :
         \/ Connect(h, a) \/ Disconnect(h, a) \/ StreamGone(h, a)
         \/ CloseConnection(h, a) \/ RecordRoom(h, a)
         \/ \E event \in {"streamCreated", "streamStopped"} : StreamEvent(h, a, event)
    \/ StoreArchive(h) \/ FindAttendee(h) \/ CreateAttendee(h)
    \/ IgnoreAttendee(h) \/ UpdateAttendee(h)

AttendanceSpec == AttendanceInit /\ [][AttendanceNext]_attendanceVars

-----------------------------------------------------------------------------
(* What the code guarantees.                                               *)

AttendanceTypeOK ==
  /\ provider \in {"vonage", "twilio"} /\ orderly \in BOOLEAN
  /\ joined \in [Attendee -> Nat] /\ closing \in [Attendee -> Nat]
  /\ DOMAIN hook = Hooks
  /\ stage \in [Hooks -> {"idle", "sent", "found", "handled", "failed"}]
  /\ attendance \in [Hooks -> [attendee : Attendee \union {"none"}, isDeleted : BOOLEAN]]
  /\ known \in [Hooks -> [id : Hooks \union {0}, isDeleted : BOOLEAN]]

\* With hooks handled in the order of the events, one after the other, the
\* active attendees are those connected whenever no hook is being handled, with
\* one row each.
ListIsConnected ==
  orderly /\ Handling = {} =>
    /\ Active = {a \in Attendee : joined[a] > 0}
    /\ \A a \in Attendee : Cardinality(RowsOf(a)) <= 1

\* The list implements the roster: under orderly hooks every write adds or
\* removes one attendee, or changes nothing a reader sees.
Promise == INSTANCE Roster WITH present <- Active
ListKeepsRoster == [][orderly => UNCHANGED Active \/ Promise!RosterNext]_attendanceVars

=============================================================================
