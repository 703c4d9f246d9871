------------------------------ MODULE Schedule ------------------------------
(***************************************************************************)
(* An event of the scheduler service and its attendees: creating it with   *)
(* its attendees, inviting, answering and removing them, cancelling and    *)
(* deleting the event, softly or for good, and who is busy because of it   *)
(* (EventController, EventAttendeeController, EventService).  There is no  *)
(* transaction: every repository call is a step.  Events share nothing, so *)
(* there is one; its time matters only to who is busy when, so any is      *)
(* asked for there.  Requests are numbered in the order they start; a row  *)
(* of attendees is named after the request that creates it and the person  *)
(* invited.  A status is whatever the client gives, tentative by default;  *)
(* it stands for completed too, which nothing tells from it.  The database *)
(* is external: it refuses a row of attendees without its event, and keeps *)
(* an event that has such rows.                                            *)
(***************************************************************************)
EXTENDS Naturals, FiniteSets

CONSTANTS
  Person,      \* identifiers
  Organizer,   \* the one of the event
  MaxHour,     \* bound: the last hour
  MaxPlans,    \* bound: how many requests are made in all
  MaxPlanning  \* bound: how many of them are handled at the same time

Plans == 1 .. MaxPlans
Invitation == Plans \X Person
EventStatuses == {"confirmed", "tentative", "cancelled"}

ASSUME ScheduleAssumption ==
  MaxHour \in Nat /\ MaxPlans \in Nat \ {0} /\ MaxPlanning \in Nat /\ Organizer \in Person

VARIABLES
  event,      \* none, its status, deleted (softly) or gone
  invited,    \* table attendees: its rows
  removed,    \* those deleted softly
  declined,   \* those with responseStatus declined
  doing,      \* the awaited call each request is at
  inviting,   \* whom it has still to invite
  met,        \* history: the attendees when it began, if it deletes
  hard,       \* those that delete for good
  deleter     \* history: the request that has ended the event

scheduleVars ==
  <<event, invited, removed, declined, doing, inviting, met, hard, deleter>>

Attending == invited \ removed
Planning(r) == doing[r] \notin {"idle", "done", "failed"}

Plan(r, first, people) ==
  /\ doing[r] = "idle"
  /\ \A q \in Plans : q < r => doing[q] # "idle"
  /\ Cardinality({q \in Plans : Planning(q)}) < MaxPlanning
  /\ doing' = [doing EXCEPT ![r] = first]
  /\ inviting' = [inviting EXCEPT ![r] = people]

Go(r, next) == doing' = [doing EXCEPT ![r] = next] /\ UNCHANGED <<inviting, met, hard>>

-----------------------------------------------------------------------------

\* POST /events: no look at whether anybody is free.
CreateEvent(r, people, status) ==
  /\ event = "none"
  /\ Plan(r, IF people = {} THEN "done" ELSE "invite", people)
  /\ event' = status
  /\ UNCHANGED <<invited, removed, declined, met, hard, deleter>>

\* POST /events/{id}/attendees, whatever has become of the event.
Invite(r, p) ==
  /\ event # "none"
  /\ Plan(r, "invite", {p})
  /\ UNCHANGED <<event, invited, removed, declined, met, hard, deleter>>

\* Promise.all: each attendee is created on its own, and one that is refused
\* takes no other with it.
CreateInvitation(r, p) ==
  /\ doing[r] = "invite" /\ p \in inviting[r]
  /\ inviting' = [inviting EXCEPT ![r] = @ \ {p}]
  /\ invited' = IF event = "gone" THEN invited ELSE invited \union {<<r, p>>}
  /\ doing' = [doing EXCEPT ![r] = IF inviting[r] = {p} THEN "done" ELSE "invite"]
  /\ UNCHANGED <<event, removed, declined, met, hard, deleter>>

\* PATCH and DELETE /events/{id}/attendees with the person's identifier.
Decline(p) ==
  /\ declined' = declined \union {x \in Attending : x[2] = p}
  /\ UNCHANGED <<event, invited, removed, doing, inviting, met, hard, deleter>>

Remove(p) ==
  /\ removed' = removed \union {x \in Attending : x[2] = p}
  /\ UNCHANGED <<event, invited, declined, doing, inviting, met, hard, deleter>>

\* PATCH /events/{id}: its status.
UpdateStatus(status) ==
  /\ event \in EventStatuses
  /\ event' = status
  /\ UNCHANGED <<invited, removed, declined, doing, inviting, met, hard, deleter>>

-----------------------------------------------------------------------------
(* DELETE /events/{id} and /events/{id}/hard. *)

FollowingSwapped(call) ==          \* mutant: the event goes before its attendees
  CASE call = "deleteAttachments" -> "deleteEvent"
    [] call = "deleteEvent" -> "deleteAttendees"
    [] call = "deleteAttendees" -> "done"
Following(call) ==
  CASE call = "deleteAttachments" -> "deleteAttendees"
    [] call = "deleteAttendees" -> "deleteEvent"
    [] call = "deleteEvent" -> "done"

Delete(r, forGood) ==
  /\ event # "none"
  /\ Plan(r, "deleteAttachments", {})
  /\ met' = [met EXCEPT ![r] = Attending]
  /\ hard' = IF forGood THEN hard \union {r} ELSE hard
  /\ UNCHANGED <<event, invited, removed, declined, deleter>>

DeleteAttachments(r) ==
  /\ doing[r] = "deleteAttachments"
  /\ Go(r, Following(doing[r]))
  /\ UNCHANGED <<event, invited, removed, declined, deleter>>

DeleteAttendees(r) ==
  /\ doing[r] = "deleteAttendees"
  /\ IF r \in hard THEN invited' = {} /\ removed' = {} /\ declined' = {}
     ELSE removed' = invited /\ UNCHANGED <<invited, declined>>
  /\ Go(r, Following(doing[r]))
  /\ UNCHANGED <<event, deleter>>

DeleteEvent(r) ==
  /\ doing[r] = "deleteEvent"
  /\ IF event = "gone" \/ (r \in hard /\ invited # {})
     THEN Go(r, "failed") /\ UNCHANGED <<event, deleter>>
     ELSE /\ event' = IF r \in hard THEN "gone" ELSE "deleted"
          /\ deleter' = IF event = "deleted" THEN deleter ELSE r
          /\ Go(r, Following(doing[r]))
  /\ UNCHANGED <<invited, removed, declined>>

\* The database fails, or the service stops.
PlanFails(r) ==
  /\ Planning(r)
  /\ doing' = [doing EXCEPT ![r] = "failed"]
  /\ inviting' = [inviting EXCEPT ![r] = {}]
  /\ met' = IF r = deleter THEN met ELSE [met EXCEPT ![r] = {}]
  /\ UNCHANGED <<event, invited, removed, declined, hard, deleter>>

ScheduleInit ==
  /\ event = "none"
  /\ invited = {} /\ removed = {} /\ declined = {}
  /\ doing = [r \in Plans |-> "idle"]
  /\ inviting = [r \in Plans |-> {}]
  /\ met = [r \in Plans |-> {}]
  /\ hard = {}
  /\ deleter = 1

ScheduleNext ==
  \/ \E x \in Attending : Decline(x[2]) \/ Remove(x[2])
  \/ \E status \in EventStatuses \ {event} : UpdateStatus(status)
  \/ \E r \in Plans :
       \/ \E people \in SUBSET Person, status \in EventStatuses :
            CreateEvent(r, people, status)
       \/ \E p \in Person : Invite(r, p) \/ CreateInvitation(r, p)
       \/ \E forGood \in BOOLEAN : Delete(r, forGood)
       \/ DeleteAttachments(r) \/ DeleteAttendees(r) \/ DeleteEvent(r) \/ PlanFails(r)

ScheduleSpec == ScheduleInit /\ [][ScheduleNext]_scheduleVars

-----------------------------------------------------------------------------
(* GET /events/freeBusy, for the hours of a window and an event at any time: *)
(* the view joins the event with its attendees, those deleted softly         *)
(* included, and getBusyDetails cuts what overlaps the window to it.         *)

Moments == (0 .. MaxHour) \X (0 .. MaxHour)
Windows == {w \in Moments : w[1] <= w[2]}      \* minMaxTime

OverlapsInside(t, w) ==            \* mutant: an event that covers the window
  \/ t[1] >= w[1] /\ t[1] < w[2]   \*         does not overlap it
  \/ t[2] > w[1] /\ t[2] <= w[2]
Overlaps(t, w) == t[1] < w[2] /\ t[2] > w[1]
Limited(t, w) ==
  <<IF t[1] < w[1] THEN w[1] ELSE t[1], IF t[2] > w[2] THEN w[2] ELSE t[2]>>

\* The organizer is found where the join has no attendee to name.
InView(p) ==
  \/ p = Organizer /\ invited = {}
  \/ \E x \in invited : x[2] = p /\ x \notin declined

BusyDetails(p, t, w) ==
  IF Overlaps(t, w) /\ event \in EventStatuses \ {"cancelled"} /\ InView(p)
  THEN {Limited(t, w)} ELSE {}

-----------------------------------------------------------------------------
(* What the code guarantees.                                               *)

ScheduleTypeOK ==
  /\ event \in EventStatuses \union {"none", "deleted", "gone"}
  /\ invited \subseteq Invitation
  /\ removed \subseteq invited /\ declined \subseteq invited
  /\ doing \in [Plans -> {"idle", "invite", "deleteAttachments", "deleteAttendees",
                          "deleteEvent", "done", "failed"}]
  /\ inviting \in [Plans -> SUBSET Person]
  /\ met \in [Plans -> SUBSET Invitation]
  /\ hard \subseteq Plans
  /\ deleter \in Plans

\* An event that has been deleted has none of the attendees left whom the
\* request met that deleted it, whatever fails and whoever is invited, declines
\* or is removed meanwhile (the order of the calls in deleteById and
\* hardDeleteById).
DeletedTakesAttendees ==
  event \in {"deleted", "gone"} => Attending \intersect met[deleter] = {}

\* The event takes place, and p has been invited and has neither declined nor
\* been removed.
TakesPlace == event \in {"confirmed", "tentative"}
Engaged(p) == TakesPlace /\ \E x \in Attending \ declined : x[2] = p

\* What lasts an hour or more.
Spans == {t \in Moments : t[1] < t[2]}

\* The hours of window w in which an event at t is on, and those of them in
\* which p is reported busy.
OnAt(t, w) == {h \in w[1] .. w[2] - 1 : t[1] <= h /\ h < t[2]}
BusyAt(p, t, w) == UNION {b[1] .. b[2] - 1 : b \in BusyDetails(p, t, w)}
IsBusy(p) == BusyDetails(p, <<0, MaxHour>>, <<0, MaxHour>>) # {}

\* Whoever is engaged is reported busy, and whoever is so in just those hours
\* of any window in which the event is on; but nobody because of an event that
\* does not take place, or after declining.  Nobody comes to be busy because
\* of an event that takes place but by being invited; only its organizer does
\* also when its attendees are wiped out (the status of the event and of the
\* answer, both bounds and the two kinds of row, in getBusyDetails).
BusyWhenEngaged ==
  /\ [](\A p \in Person : Engaged(p) \/ IsBusy(p) =>
          \A t \in Spans, w \in Windows : BusyAt(p, t, w) = OnAt(t, w))
  /\ [](\A p \in Person : IsBusy(p) =>
          TakesPlace /\ \/ \A x \in invited : x[2] # p
                        \/ \E x \in invited \ declined : x[2] = p)
  /\ [][\A p \in Person : TakesPlace /\ ~IsBusy(p) /\ IsBusy(p)' =>
          \/ \E x \in invited' \ invited : x[2] = p
          \/ p = Organizer /\ invited' = {}]_scheduleVars

=============================================================================
