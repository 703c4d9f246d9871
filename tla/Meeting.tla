------------------------------ MODULE Meeting -------------------------------
(***************************************************************************)
(* A meeting of the video conferencing service: its link, the tokens that  *)
(* let participants in, its schedule and its end (ChatSessionService over  *)
(* the table video_session_details).  Meetings share nothing, so there is  *)
(* one.  A request reads the meeting, decides with the clock as it is then *)
(* and writes what it has decided: two steps between which other requests  *)
(* run.  Times are in minutes; requests are numbered in the order they     *)
(* start.                                                                  *)
(***************************************************************************)
EXTENDS Integers, FiniteSets

CONSTANTS
  TimeToStart,      \* config.timeToStart
  MaxAsks,          \* bound: how many requests are made in all
  MaxAsksInFlight,  \* bound: how many of them are handled at the same time
  MaxMinute         \* bound: the last minute

Asks == 1 .. MaxAsks
Minutes == 0 .. MaxMinute
Unset == -1

ASSUME MeetingAssumption ==
  /\ TimeToStart \in Nat /\ MaxAsks \in Nat
  /\ MaxAsksInFlight \in Nat /\ MaxMinute \in Nat

VARIABLES
  serial,   \* the requests about the meeting come one after the other
  minute,
  meeting,  \* the row: isScheduled, scheduleTime, startTime, endTime
  step,     \* the awaited call each request is at
  write,    \* what it has decided to write: a column and its value
  planned   \* history: the schedule last asked for

meetingVars == <<serial, minute, meeting, step, write, planned>>

NoMeeting == [linked |-> FALSE, isScheduled |-> FALSE,
              scheduleTime |-> Unset, startTime |-> Unset, endTime |-> Unset]
NoWrite == [column |-> "none", value |-> Unset]
Ended == meeting.endTime # Unset

Asking(r) == step[r] \in {"findToken", "findEdit", "findEnd", "write"}

Ask(r, at) ==
  /\ step[r] = "idle"
  /\ \A q \in Asks : q < r => step[q] # "idle"
  /\ LET busy == Cardinality({q \in Asks : Asking(q)}) IN
       busy < MaxAsksInFlight /\ (serial => busy = 0)
  /\ step' = [step EXCEPT ![r] = at]

\* The handler has what it needs: it writes a column, or it answers.
Decide(r, column, value) ==
  /\ write' = [write EXCEPT ![r] = [column |-> column, value |-> value]]
  /\ step' = [step EXCEPT ![r] = "write"]

Answer(r, answer) == step' = [step EXCEPT ![r] = answer] /\ UNCHANGED write

-----------------------------------------------------------------------------

\* A scheduled meeting is not scheduled in the past; the schedule of one that
\* is not is the time of its link.
GetMeetingLink(r, scheduled, t) ==
  /\ ~meeting.linked
  /\ IF scheduled THEN t >= minute ELSE t = minute
  /\ Ask(r, "done")
  /\ meeting' = [NoMeeting EXCEPT !.linked = TRUE, !.isScheduled = scheduled,
                                  !.scheduleTime = t]
  /\ planned' = t
  /\ UNCHANGED <<serial, minute, write>>

Request(r, at) ==
  /\ meeting.linked
  /\ Ask(r, at)
  /\ UNCHANGED <<serial, minute, meeting, write, planned>>

OnTime == FALSE                   \* mutant: the schedule is not looked at
TooEarly ==
  meeting.isScheduled /\ minute + TimeToStart < meeting.scheduleTime

OpenAlways == TRUE                 \* mutant: an ended meeting can be entered
Open == ~Ended

\* getMeetingToken: the provider makes the token in the same step as the last
\* database call before it.
FindForToken(r) ==
  /\ step[r] = "findToken"
  /\ IF ~Open \/ TooEarly THEN Answer(r, "refused")
     ELSE IF meeting.startTime = Unset THEN Decide(r, "startTime", minute)
     ELSE Answer(r, "token")
  /\ UNCHANGED <<serial, minute, meeting, planned>>

\* editMeeting: isScheduled itself is not written.
FindForEdit(r, scheduled, t) ==
  /\ step[r] = "findEdit"
  /\ IF t < minute THEN Answer(r, "refused")
     ELSE Decide(r, "scheduleTime", IF scheduled THEN t ELSE minute)
  /\ UNCHANGED <<serial, minute, meeting, planned>>

FindForEnd(r) ==
  /\ step[r] = "findEnd"
  /\ IF Ended THEN Answer(r, "refused") ELSE Decide(r, "endTime", minute)
  /\ UNCHANGED <<serial, minute, meeting, planned>>

WrittenLost(w) ==                  \* mutant: a column the row does not have
  [column |-> w.column, value |-> w.value]
Written(w) == [meeting EXCEPT ![w.column] = w.value]

UpdateMeeting(r) ==
  /\ step[r] = "write"
  /\ meeting' = Written(write[r])
  /\ planned' = IF write[r].column = "scheduleTime" THEN write[r].value ELSE planned
  /\ Answer(r, IF write[r].column = "startTime" THEN "token" ELSE "done")
  /\ UNCHANGED <<serial, minute>>

NextMinute ==
  /\ minute < MaxMinute
  /\ minute' = minute + 1
  /\ UNCHANGED <<serial, meeting, step, write, planned>>

MeetingInit ==
  /\ serial \in BOOLEAN
  /\ minute = 0
  /\ meeting = NoMeeting
  /\ step = [r \in Asks |-> "idle"]
  /\ write = [r \in Asks |-> NoWrite]
  /\ planned = 0

MeetingNext ==
  \/ NextMinute
  \/ \E r \in Asks :
       \/ \E scheduled \in BOOLEAN, t \in Minutes : GetMeetingLink(r, scheduled, t)
       \/ \E at \in {"findToken", "findEdit", "findEnd"} : Request(r, at)
       \/ FindForToken(r) \/ FindForEnd(r) \/ UpdateMeeting(r)
       \/ \E scheduled \in BOOLEAN, t \in Minutes : FindForEdit(r, scheduled, t)

MeetingSpec == MeetingInit /\ [][MeetingNext]_meetingVars

-----------------------------------------------------------------------------
(* What the code guarantees.                                               *)

Times == Minutes \union {Unset}

MeetingTypeOK ==
  /\ serial \in BOOLEAN
  /\ minute \in Minutes
  /\ meeting \in [linked : BOOLEAN, isScheduled : BOOLEAN, scheduleTime : Times,
                  startTime : Times, endTime : Times]
  /\ step \in [Asks -> {"idle", "findToken", "findEdit", "findEnd", "write",
                        "token", "done", "refused"}]
  /\ write \in [Asks -> [column : {"none", "startTime", "scheduleTime", "endTime"},
                         value : Times]]
  /\ planned \in Minutes

\* When requests come one after the other, a meeting ends once, it has started
\* by then if it ever did, and nobody is let in any more (getMeetingToken and
\* endSession read endTime in one step and write in another).
EndIsFinal ==
  [][serial /\ Ended =>
       /\ meeting'.endTime = meeting.endTime
       /\ meeting'.startTime = meeting.startTime
       /\ \A r \in Asks : step'[r] = "token" => step[r] = "token"]_meetingVars

\* Requests one after the other start a meeting that was scheduled when its
\* link was made no earlier than config.timeToStart before the schedule last
\* asked for (getMeetingToken against editMeeting).
ScheduleKept ==
  [][serial /\ meeting.isScheduled /\ meeting'.startTime # meeting.startTime =>
       meeting'.startTime + TimeToStart >= planned]_meetingVars

=============================================================================
