--------------------------- MODULE SchedulerProofs --------------------------
(***************************************************************************)
(* Proofs about the scheduler service: its events and their attendees      *)
(* (Schedule), its calendars and their working hours (Calendar).  Each     *)
(* section states the inductive invariant, proves that the initial states  *)
(* satisfy it and every action preserves it, and ends in the theorems.     *)
(***************************************************************************)
EXTENDS Schedule, Calendar, FiniteSetTheorems, FunctionTheorems, TLAPS

-----------------------------------------------------------------------------
(* Schedule: a row of attendees is created once, so that none of those      *)
(* there were when a deletion began comes back after it has removed them.  *)

\* A row that is still to be created is neither there nor among those that a
\* deletion has met, and a deletion that has come to its event has removed all
\* it has met.
RowsOnce ==
  \A q \in Plans, p \in Person :
    doing[q] = "idle" \/ p \in inviting[q] =>
      <<q, p>> \notin invited /\ \A r \in Plans : <<q, p>> \notin met[r]

DeletingOK ==
  /\ \A r \in Plans : doing[r] = "deleteEvent" => Attending \intersect met[r] = {}
  /\ event \in {"deleted", "gone"} => doing[deleter] = "done"

ScheduleInv == ScheduleTypeOK /\ RowsOnce /\ DeletingOK /\ DeletedTakesAttendees

LEMMA ScheduleInitInv == ScheduleInit => ScheduleInv
BY ScheduleAssumption
DEF ScheduleInit, ScheduleInv, ScheduleTypeOK, RowsOnce, DeletingOK, DeletedTakesAttendees,
    Plans, Attending

\* A step that touches no attendees and no met ones.
LEMMA AnswersInv ==
  ASSUME ScheduleInv, UNCHANGED <<event, deleter, hard, inviting, met, doing>>,
         invited' = invited, removed \subseteq removed', removed' \subseteq invited,
         declined' \subseteq invited
  PROVE  ScheduleInv'
<1> USE DEF ScheduleInv
<1>1. Attending' \subseteq Attending
  BY DEF Attending
<1>2. ScheduleTypeOK'
  BY DEF ScheduleTypeOK
<1>3. RowsOnce'
  BY DEF RowsOnce
<1>4. DeletingOK' /\ DeletedTakesAttendees'
  BY <1>1 DEF DeletingOK, DeletedTakesAttendees
<1> QED BY <1>2, <1>3, <1>4

\* A request that begins: it deletes, or invites people no row names yet.
LEMMA PlanInv ==
  ASSUME ScheduleInv, NEW r \in Plans, NEW people \in SUBSET Person,
         NEW first \in {"invite", "deleteAttachments", "done"}, Plan(r, first, people),
         first = "done" => people = {},
         UNCHANGED <<invited, removed, declined, deleter>>, hard' \in SUBSET Plans,
         met' = met \/ met' = [met EXCEPT ![r] = Attending],
         event' = event \/ event' \in EventStatuses
  PROVE  ScheduleInv'
<1> USE DEF ScheduleInv
<1>1. /\ doing[r] = "idle" /\ doing' = [doing EXCEPT ![r] = first]
      /\ inviting' = [inviting EXCEPT ![r] = people]
  BY DEF Plan
<1>2. Attending \in SUBSET Invitation /\ Attending' = Attending
  BY DEF Attending, ScheduleTypeOK
<1>3. ScheduleTypeOK'
  BY <1>1, <1>2 DEF ScheduleTypeOK
<1>4. RowsOnce'
  <2> SUFFICES ASSUME NEW q \in Plans, NEW p \in Person, doing'[q] = "idle" \/ p \in inviting'[q]
               PROVE  <<q, p>> \notin invited /\ \A s \in Plans : <<q, p>> \notin met'[s]
    BY DEF RowsOnce
  <2>1. doing[q] = "idle" \/ p \in inviting[q]
    BY <1>1 DEF ScheduleTypeOK
  <2>2. <<q, p>> \notin invited /\ \A s \in Plans : <<q, p>> \notin met[s]
    BY <2>1 DEF RowsOnce
  <2>3. \A s \in Plans : met'[s] = met[s] \/ met'[s] \subseteq invited
    BY DEF ScheduleTypeOK, Attending
  <2> QED BY <2>2, <2>3
<1>5. DeletingOK' /\ DeletedTakesAttendees'
  <2>1. \A s \in Plans : doing'[s] = "deleteEvent" => doing[s] = "deleteEvent" /\ s # r
    BY <1>1 DEF ScheduleTypeOK
  <2>2. \A s \in Plans \ {r} : met'[s] = met[s] /\ doing'[s] = doing[s]
    BY <1>1 DEF ScheduleTypeOK
  <2>3. event' \in {"deleted", "gone"} => event' = event /\ deleter # r /\ deleter \in Plans
    BY <1>1 DEF DeletingOK, ScheduleTypeOK, EventStatuses
  <2> QED BY <1>2, <2>1, <2>2, <2>3 DEF DeletingOK, DeletedTakesAttendees
<1> QED BY <1>3, <1>4, <1>5

LEMMA InvitationInv ==
  ASSUME ScheduleInv, NEW r \in Plans, NEW p \in Person, CreateInvitation(r, p)
  PROVE  ScheduleInv'
<1> USE DEF ScheduleInv
<1>1. /\ doing[r] = "invite" /\ p \in inviting[r]
      /\ inviting' = [inviting EXCEPT ![r] = @ \ {p}]
      /\ invited' = IF event = "gone" THEN invited ELSE invited \union {<<r, p>>}
      /\ doing' = [doing EXCEPT ![r] = IF inviting[r] = {p} THEN "done" ELSE "invite"]
      /\ UNCHANGED <<event, removed, declined, met, hard, deleter>>
  BY DEF CreateInvitation
<1>2. \A s \in Plans : <<r, p>> \notin met[s]
  BY <1>1 DEF RowsOnce
<1>3. Attending' \subseteq Attending \union {<<r, p>>}
  BY <1>1 DEF Attending
<1>4. ScheduleTypeOK'
  <2>1. invited' \subseteq Invitation /\ invited \subseteq invited'
    BY <1>1 DEF ScheduleTypeOK, Invitation
  <2>2. doing' \in [Plans -> {"idle", "invite", "deleteAttachments", "deleteAttendees",
                              "deleteEvent", "done", "failed"}]
        /\ inviting' \in [Plans -> SUBSET Person]
    BY <1>1 DEF ScheduleTypeOK
  <2> QED BY <1>1, <2>1, <2>2 DEF ScheduleTypeOK
<1>5. RowsOnce'
  <2> SUFFICES ASSUME NEW q \in Plans, NEW o \in Person, doing'[q] = "idle" \/ o \in inviting'[q]
               PROVE  <<q, o>> \notin invited' /\ \A s \in Plans : <<q, o>> \notin met[s]
    BY <1>1 DEF RowsOnce
  <2>1. (doing[q] = "idle" \/ o \in inviting[q]) /\ ~(q = r /\ o = p)
    BY <1>1 DEF ScheduleTypeOK
  <2>2. <<q, o>> # <<r, p>>
    BY <2>1
  <2> QED BY <1>1, <2>1, <2>2 DEF RowsOnce
<1>6. DeletingOK' /\ DeletedTakesAttendees'
  <2>1. \A s \in Plans : /\ doing'[s] = "deleteEvent" => doing[s] = "deleteEvent"
                         /\ doing[s] = "done" => doing'[s] = "done"
    BY <1>1 DEF ScheduleTypeOK
  <2>2. deleter \in Plans
    BY DEF ScheduleTypeOK
  <2> QED BY <1>1, <1>2, <1>3, <2>1, <2>2 DEF DeletingOK, DeletedTakesAttendees
<1> QED BY <1>4, <1>5, <1>6

LEMMA DeleteAttendeesInv ==
  ASSUME ScheduleInv, NEW r \in Plans, DeleteAttendees(r)
  PROVE  ScheduleInv'
<1> USE DEF ScheduleInv
<1>1. /\ doing[r] = "deleteAttendees" /\ doing' = [doing EXCEPT ![r] = "deleteEvent"]
      /\ UNCHANGED <<event, deleter, inviting, met, hard>>
      /\ \/ invited' = {} /\ removed' = {} /\ declined' = {}
         \/ removed' = invited /\ UNCHANGED <<invited, declined>>
  BY DEF DeleteAttendees, Go, Following
<1>2. Attending' = {} /\ invited' \subseteq invited
  BY <1>1 DEF Attending
<1>3. ScheduleTypeOK'
  BY <1>1 DEF ScheduleTypeOK
<1>4. \A s \in Plans : /\ doing'[s] = "idle" => doing[s] = "idle"
                       /\ doing[s] = "done" => doing'[s] = "done"
  BY <1>1 DEF ScheduleTypeOK
<1>5. RowsOnce'
  BY <1>1, <1>2, <1>4 DEF RowsOnce
<1>6. DeletingOK' /\ DeletedTakesAttendees'
  BY <1>1, <1>2, <1>4 DEF DeletingOK, DeletedTakesAttendees, ScheduleTypeOK
<1> QED BY <1>3, <1>5, <1>6

LEMMA DeleteEventInv ==
  ASSUME ScheduleInv, NEW r \in Plans, DeleteEvent(r)
  PROVE  ScheduleInv'
<1> USE DEF ScheduleInv
<1>1. /\ doing[r] = "deleteEvent"
      /\ UNCHANGED <<invited, removed, declined, inviting, met, hard>>
      /\ \/ doing' = [doing EXCEPT ![r] = "failed"] /\ UNCHANGED <<event, deleter>>
         \/ /\ doing' = [doing EXCEPT ![r] = "done"] /\ event' \in {"deleted", "gone"}
            /\ deleter' = IF event = "deleted" THEN deleter ELSE r
  BY DEF DeleteEvent, Go, Following
<1>2. Attending' = Attending
  BY <1>1 DEF Attending
<1>3. ScheduleTypeOK'
  BY <1>1 DEF ScheduleTypeOK
<1>4. \A s \in Plans : /\ doing'[s] = "idle" => doing[s] = "idle"
                       /\ doing'[s] = "deleteEvent" => doing[s] = "deleteEvent"
                       /\ s # r => doing'[s] = doing[s]
  BY <1>1 DEF ScheduleTypeOK
<1>5. RowsOnce'
  BY <1>1, <1>4 DEF RowsOnce
<1>6. event' \in {"deleted", "gone"} =>
        doing'[deleter'] = "done" /\ Attending \intersect met[deleter'] = {}
  <2>1. CASE UNCHANGED <<event, deleter>>
    BY <2>1, <1>1, <1>4 DEF DeletingOK, DeletedTakesAttendees, ScheduleTypeOK
  <2>2. CASE /\ doing' = [doing EXCEPT ![r] = "done"]
             /\ deleter' = IF event = "deleted" THEN deleter ELSE r
    BY <2>2, <1>1 DEF DeletingOK, DeletedTakesAttendees, ScheduleTypeOK
  <2> QED BY <1>1, <2>1, <2>2
<1> QED BY <1>1, <1>2, <1>3, <1>4, <1>5, <1>6 DEF DeletingOK, DeletedTakesAttendees

LEMMA FailsInv ==
  ASSUME ScheduleInv, NEW r \in Plans, NEW next, doing' = [doing EXCEPT ![r] = next],
         \/ /\ next = "failed" /\ doing[r] # "idle" /\ doing[r] # "done"
            /\ inviting' = [inviting EXCEPT ![r] = {}]
            /\ met' = IF r = deleter THEN met ELSE [met EXCEPT ![r] = {}]
         \/ /\ next = "deleteAttendees" /\ doing[r] = "deleteAttachments"
            /\ UNCHANGED <<inviting, met>>,
         UNCHANGED <<event, invited, removed, declined, hard, deleter>>
  PROVE  ScheduleInv'
<1> USE DEF ScheduleInv
<1>1. Attending' = Attending
  BY DEF Attending
<1>2. ScheduleTypeOK'
  BY DEF ScheduleTypeOK
<1>3. \A s \in Plans : /\ doing'[s] = "idle" => doing[s] = "idle"
                       /\ doing'[s] = "deleteEvent" => doing[s] = "deleteEvent"
                       /\ doing[s] = "done" => doing'[s] = "done"
                       /\ inviting'[s] \subseteq inviting[s]
                       /\ met'[s] \subseteq met[s]
  BY DEF ScheduleTypeOK
<1>4. RowsOnce'
  BY <1>3 DEF RowsOnce
<1>5. DeletingOK' /\ DeletedTakesAttendees'
  BY <1>1, <1>3 DEF DeletingOK, DeletedTakesAttendees, ScheduleTypeOK
<1> QED BY <1>2, <1>4, <1>5

LEMMA ScheduleNextInv == ScheduleInv /\ [ScheduleNext]_scheduleVars => ScheduleInv'
<1> SUFFICES ASSUME ScheduleInv, [ScheduleNext]_scheduleVars PROVE ScheduleInv'
  OBVIOUS
<1>1. ASSUME NEW p, Decline(p) \/ Remove(p) PROVE ScheduleInv'
  <2>1. removed \subseteq invited /\ declined \subseteq invited /\ Attending \subseteq invited
    BY DEF ScheduleInv, ScheduleTypeOK, Attending
  <2> QED BY <1>1, <2>1, AnswersInv DEF Decline, Remove
<1>2. ASSUME NEW status \in EventStatuses, UpdateStatus(status)
      PROVE  ScheduleInv'
  <2>1. /\ event' \in EventStatuses /\ event' \notin {"deleted", "gone"}
        /\ UNCHANGED <<invited, removed, declined, doing, inviting, met, hard, deleter>>
    BY <1>2 DEF UpdateStatus, EventStatuses
  <2> QED BY <2>1 DEF ScheduleInv, ScheduleTypeOK, RowsOnce, DeletingOK,
                      DeletedTakesAttendees, Attending
<1>3. ASSUME NEW r \in Plans, NEW people \in SUBSET Person, NEW status \in EventStatuses,
             CreateEvent(r, people, status)
      PROVE  ScheduleInv'
  <2>1. hard \in SUBSET Plans
    BY DEF ScheduleInv, ScheduleTypeOK
  <2>2. CASE people = {}
    BY <1>3, <2>1, <2>2, PlanInv DEF CreateEvent
  <2>3. CASE people # {}
    BY <1>3, <2>1, <2>3, PlanInv DEF CreateEvent
  <2> QED BY <2>2, <2>3
<1>4. ASSUME NEW r \in Plans, NEW p \in Person, Invite(r, p) PROVE ScheduleInv'
  <2>1. hard \in SUBSET Plans
    BY DEF ScheduleInv, ScheduleTypeOK
  <2>2. {p} \in SUBSET Person
    OBVIOUS
  <2> QED BY <1>4, <2>1, <2>2, PlanInv DEF Invite
<1>5. ASSUME NEW r \in Plans, NEW forGood \in BOOLEAN, Delete(r, forGood) PROVE ScheduleInv'
  <2>1. hard' \in SUBSET Plans
    BY <1>5 DEF Delete, ScheduleInv, ScheduleTypeOK
  <2>2. {} \in SUBSET Person
    OBVIOUS
  <2> QED BY <1>5, <2>1, <2>2, PlanInv DEF Delete
<1>6. ASSUME NEW r \in Plans, DeleteAttachments(r) PROVE ScheduleInv'
  BY <1>6, FailsInv DEF DeleteAttachments, Go, Following
<1>7. ASSUME NEW r \in Plans, PlanFails(r) PROVE ScheduleInv'
  BY <1>7, FailsInv DEF PlanFails, Planning
<1>8. CASE UNCHANGED scheduleVars
  BY <1>8 DEF scheduleVars, ScheduleInv, ScheduleTypeOK, RowsOnce, DeletingOK,
              DeletedTakesAttendees, Attending
<1> QED BY <1>1, <1>2, <1>3, <1>4, <1>5, <1>6, <1>7, <1>8, InvitationInv, DeleteAttendeesInv,
           DeleteEventInv DEF ScheduleNext

LEMMA ScheduleInvariance == ScheduleSpec => []ScheduleInv
BY ScheduleInitInv, ScheduleNextInv, PTL DEF ScheduleSpec

\* The event, its attendees and the requests under way keep their types.
THEOREM ScheduleTypes == ScheduleSpec => []ScheduleTypeOK
<1>1. ScheduleInv => ScheduleTypeOK
  BY DEF ScheduleInv
<1> QED BY <1>1, ScheduleInvariance, PTL

\* A deleted event keeps nobody of those the request met that deleted it,
\* for any number of people and requests, in flight or in all (the order of the
\* calls in deleteById and hardDeleteById).
THEOREM DeletionTakesAttendees == ScheduleSpec => []DeletedTakesAttendees
<1>1. ScheduleInv => DeletedTakesAttendees
  BY DEF ScheduleInv
<1> QED BY <1>1, ScheduleInvariance, PTL

\* The hours that getBusyDetails cuts out of a window are those the event lasts
\* there.
LEMMA HoursCut ==
  ASSUME NEW t \in Moments, NEW w \in Windows
  PROVE  {h \in Limited(t, w)[1] .. Limited(t, w)[2] - 1 : Overlaps(t, w)} = OnAt(t, w)
<1>1. /\ t[1] \in 0 .. MaxHour /\ t[2] \in 0 .. MaxHour
      /\ w[1] \in 0 .. MaxHour /\ w[2] \in 0 .. MaxHour
  BY DEF Moments, Windows
<1>2. /\ Limited(t, w)[1] = IF t[1] < w[1] THEN w[1] ELSE t[1]
      /\ Limited(t, w)[2] = IF t[2] > w[2] THEN w[2] ELSE t[2]
  BY DEF Limited
<1>3. ASSUME NEW h \in Int
      PROVE  h \in Limited(t, w)[1] .. Limited(t, w)[2] - 1 /\ Overlaps(t, w)
             <=> h \in w[1] .. w[2] - 1 /\ t[1] <= h /\ h < t[2]
  BY <1>1, <1>2, ScheduleAssumption DEF Overlaps
<1> QED BY <1>1, <1>3, ScheduleAssumption DEF OnAt

\* Somebody the query finds is reported busy in just the hours the event is on.
LEMMA FoundAreBusy ==
  ASSUME TakesPlace, NEW p \in Person, InView(p), NEW t \in Moments, NEW w \in Windows
  PROVE  BusyAt(p, t, w) = OnAt(t, w)
<1>1. BusyDetails(p, t, w) = IF Overlaps(t, w) THEN {Limited(t, w)} ELSE {}
  BY DEF BusyDetails, TakesPlace, EventStatuses
<1>2. BusyAt(p, t, w)
        = {h \in Limited(t, w)[1] .. Limited(t, w)[2] - 1 : Overlaps(t, w)}
  BY <1>1 DEF BusyAt
<1> QED BY <1>2, HoursCut

\* An expected person is found, and so is whoever is busy.
LEMMA BusyAreFound ==
  ASSUME NEW p \in Person
  PROVE  /\ Engaged(p) => TakesPlace /\ InView(p)
         /\ IsBusy(p) => TakesPlace /\ InView(p)
         /\ MaxHour # 0 /\ TakesPlace /\ InView(p) => IsBusy(p)
<1>1. <<0, MaxHour>>[1] = 0 /\ <<0, MaxHour>>[2] = MaxHour
  OBVIOUS
<1>2. MaxHour # 0 => Overlaps(<<0, MaxHour>>, <<0, MaxHour>>)
  BY <1>1, ScheduleAssumption DEF Overlaps
<1>3. TakesPlace <=> event \in EventStatuses \ {"cancelled"}
  BY DEF TakesPlace, EventStatuses
<1>4. Engaged(p) => TakesPlace /\ InView(p)
  BY DEF Engaged, Attending, InView
<1> QED BY <1>2, <1>3, <1>4 DEF IsBusy, BusyDetails

\* A step after which somebody is found by the query who was not before has
\* invited them, or has left the event without a row of attendees.
LEMMA FoundByInvitation ==
  ASSUME ScheduleInv, ScheduleInv', ScheduleNext, NEW p \in Person, ~InView(p), InView(p)'
  PROVE  \/ \E x \in invited' \ invited : x[2] = p
         \/ p = Organizer /\ invited' = {}
<1>1. CASE invited' = {}
  BY <1>1 DEF InView
<1>2. CASE invited' # {}
  <2>1. declined \subseteq declined'
    <3>1. ASSUME NEW q, Decline(q) \/ Remove(q) PROVE declined \subseteq declined'
      BY <3>1 DEF Decline, Remove
    <3>2. ASSUME NEW r \in Plans, DeleteAttendees(r) PROVE declined \subseteq declined'
      BY <1>2, <3>2 DEF DeleteAttendees
    <3> QED BY <3>1, <3>2
            DEF ScheduleNext, UpdateStatus, CreateEvent, Invite, CreateInvitation, Delete,
                DeleteAttachments, DeleteEvent, PlanFails
  <2>2. PICK x \in invited' : x[2] = p /\ x \notin declined'
    BY <1>2 DEF InView
  <2> QED BY <2>1, <2>2 DEF InView
<1> QED BY <1>1, <1>2

\* Whoever is expected is busy in just the hours the event is on, nobody is who
\* has declined, or when the event does not take place, and nobody becomes so
\* unasked, for any number of people and requests, every event of an hour or more
\* and every window.
THEOREM BusyJustWhenEngaged == ScheduleSpec => BusyWhenEngaged
<1>1. \A p \in Person : Engaged(p) \/ IsBusy(p) =>
        \A t \in Spans, w \in Windows : BusyAt(p, t, w) = OnAt(t, w)
  BY FoundAreBusy, BusyAreFound DEF Spans
<1>2. \A p \in Person : IsBusy(p) =>
        TakesPlace /\ \/ \A x \in invited : x[2] # p
                      \/ \E x \in invited \ declined : x[2] = p
  BY BusyAreFound DEF InView
<1> DEFINE Unasked ==
      \A p \in Person : TakesPlace /\ ~IsBusy(p) /\ IsBusy(p)' =>
        \/ \E x \in invited' \ invited : x[2] = p
        \/ p = Organizer /\ invited' = {}
<1>3. ScheduleInv /\ ScheduleInv' /\ [ScheduleNext]_scheduleVars => [Unasked]_scheduleVars
  <2> SUFFICES ASSUME ScheduleInv, ScheduleInv', ScheduleNext, NEW p \in Person,
                      TakesPlace, ~IsBusy(p), IsBusy(p)'
               PROVE  \/ \E x \in invited' \ invited : x[2] = p
                      \/ p = Organizer /\ invited' = {}
    OBVIOUS
  <2>1. MaxHour # 0
    BY ScheduleAssumption DEF IsBusy, BusyDetails, Overlaps
  <2>2. ~InView(p) /\ InView(p)'
    BY <2>1, BusyAreFound DEF IsBusy, BusyDetails
  <2> QED BY <2>2, FoundByInvitation
<1> QED BY <1>1, <1>2, <1>3, ScheduleInvariance, PTL DEF ScheduleSpec, BusyWhenEngaged

-----------------------------------------------------------------------------
(* Calendar: a PUT that nothing overlaps takes effect.                     *)

\* A request that is being handled has its calendar, a PUT not the one named
\* after itself; one that is not holds nothing.
EditsOK ==
  /\ edit \in [Edits -> [calendar : Edits \union {0}, hours : SUBSET Listed]]
  /\ \A c \in calendars : at[c] # "idle"
  /\ \A r \in Edits :
       /\ Editing(r) => edit[r].calendar \in calendars
       /\ ~Editing(r) => edit[r] = NoEdit /\ toDelete[r] = {} /\ toWrite[r] = {}
       /\ at[r] = "find" => Puts(r)
       /\ toDelete[r] # {} => at[r] = "write" /\ Puts(r)
       /\ at[r] = "subscribe" => ~Puts(r)
       /\ toWrite[r] \subseteq edit[r].hours

\* The hours not created yet are nobody's.
HoursOK == \A i \in HourIds : i >= nextHour => hours[i] = NoHour

\* Of two requests handled at the same time neither is alone.
AloneOK ==
  \A q, r \in Edits : Editing(q) /\ Editing(r) /\ alone[r] => q = r

\* What a PUT asks for names each day once.
ListsOK ==
  \A r \in Edits : Editing(r) /\ Puts(r) => DistinctDays(edit[r].hours)

Unlisted(r) == {i \in HourIds : \A x \in edit[r].hours : x.id # i}
WrittenRows(r) == edit[r].hours \ toWrite[r]

\* While a PUT that is alone, and names no hour twice, deletes and writes: what
\* it has written is there; the live hours that it does not name are still to
\* be deleted, or it has created them, one for each of its days.
WritesOK(r) ==
  LET live == HoursOf(edit[r].calendar)
      created == (live \intersect Unlisted(r)) \ toDelete[r]
  IN  /\ toDelete[r] \subseteq Unlisted(r)
      /\ \A x \in WrittenRows(r) : x.id # NewId => hours[x.id] = Hour(r, x)
      /\ \A x \in WrittenRows(r) : x.id = NewId => \E i \in created : hours[i].day = x.day
      /\ \A i \in created :
           \E x \in WrittenRows(r) : x.id = NewId /\ hours[i].day = x.day
      /\ \A i, j \in created : hours[i].day = hours[j].day => i = j

AlonePutOK ==
  \A r \in Edits : Editing(r) /\ alone[r] /\ Puts(r) /\ OneDayEach(edit[r].hours) =>
    /\ at[r] = "find" => toWrite[r] = edit[r].hours
    /\ at[r] = "write" => WritesOK(r)

CalendarInv ==
  CalendarTypeOK /\ EditsOK /\ HoursOK /\ AloneOK /\ ListsOK /\ AlonePutOK

LEMMA CalendarInitInv == CalendarInit => CalendarInv
<1> SUFFICES ASSUME CalendarInit PROVE CalendarInv
  OBVIOUS
<1> USE CalendarAssumption DEF CalendarInit
<1>1. CalendarTypeOK
  BY DEF CalendarTypeOK, Edits, HourIds, NoHour, NoEdit, Listed
<1>2. \A r \in Edits : ~Editing(r)
  BY DEF Editing
<1>3. EditsOK
  BY <1>2 DEF EditsOK, NoEdit
<1>4. HoursOK /\ AloneOK /\ ListsOK /\ AlonePutOK
  BY <1>2 DEF HoursOK, AloneOK, ListsOK, AlonePutOK, NoEdit
<1> QED BY <1>1, <1>3, <1>4 DEF CalendarInv

\* A request ends: the others stay as they are.
LEMMA EndInv ==
  ASSUME CalendarInv, NEW r \in Edits, NEW result \in {"done", "failed"}, Editing(r),
         End(r, result), UNCHANGED <<calendars, hours, nextHour>>,
         hasPrimary' \in [Edits -> BOOLEAN],
         primary' \subseteq subscriptions', subscriptions' \subseteq calendars
  PROVE  CalendarInv'
<1> USE DEF End, CalendarInv
<1>1. /\ \A q \in Edits : at'[q] = IF q = r THEN result ELSE at[q]
      /\ \A q \in Edits : edit'[q] = IF q = r THEN NoEdit ELSE edit[q]
      /\ \A q \in Edits : toDelete'[q] = IF q = r THEN {} ELSE toDelete[q]
      /\ \A q \in Edits : toWrite'[q] = IF q = r THEN {} ELSE toWrite[q]
  BY DEF CalendarTypeOK, EditsOK
<1>2. edit' \in [Edits -> [calendar : Edits \union {0}, hours : SUBSET Listed]]
  <2>1. NoEdit \in [calendar : Edits \union {0}, hours : SUBSET Listed]
    BY DEF NoEdit
  <2> QED BY <2>1 DEF EditsOK
<1>3. CalendarTypeOK'
  <2>1. at' \in [Edits -> {"idle", "find", "write", "subscribe", "done", "failed"}]
    BY DEF CalendarTypeOK
  <2> QED BY <1>2, <2>1 DEF CalendarTypeOK
<1>4. \A q \in Edits : Editing(q)' <=> q # r /\ Editing(q)
  BY <1>1 DEF Editing
<1>5. EditsOK'
  <2>1. \A d \in calendars' : at'[d] # "idle"
    BY <1>1 DEF EditsOK, CalendarTypeOK
  <2>2. ASSUME NEW q \in Edits
        PROVE  /\ Editing(q)' => edit'[q].calendar \in calendars'
               /\ ~Editing(q)' => edit'[q] = NoEdit /\ toDelete'[q] = {} /\ toWrite'[q] = {}
               /\ at'[q] = "find" => Puts(q)'
               /\ toDelete'[q] # {} => at'[q] = "write" /\ Puts(q)'
               /\ at'[q] = "subscribe" => ~Puts(q)'
               /\ toWrite'[q] \subseteq edit'[q].hours
    <3>1. CASE q = r
      BY <1>1, <1>4, <3>1
    <3>2. CASE q # r
      BY <1>1, <1>4, <3>2 DEF EditsOK, Puts
    <3> QED BY <3>1, <3>2
  <2> QED BY <1>2, <2>1, <2>2 DEF EditsOK
<1>6. HoursOK' /\ AloneOK'
  BY <1>1, <1>4 DEF HoursOK, AloneOK, NoEdit
<1>7. ListsOK'
  BY <1>1, <1>4 DEF ListsOK, Puts
<1>8. AlonePutOK'
  BY <1>1, <1>4 DEF AlonePutOK, Puts, WritesOK, WrittenRows, Unlisted, Hour, HoursOf
<1> QED BY <1>3, <1>5, <1>6, <1>7, <1>8

\* A request starts: any that it overlaps is alone no more.
LEMMA StartEventInv ==
  ASSUME CalendarInv, NEW r \in Edits, at[r] = "idle", NEW list \in Listable,
         \/ CreateCalendar(r, list)
         \/ \E c \in calendars : PutCalendar(r, c, list)
  PROVE  CalendarInv'
<1> USE CalendarAssumption DEF CalendarInv
<1>1. PICK c \in Edits, first \in {"find", "write"} :
        /\ StartEdit(r, c, list, first)
        /\ c \in calendars' /\ calendars' \in {calendars, calendars \union {r}}
        /\ first = "find" <=> c # r
        /\ c # r => DistinctDays(list)
        /\ UNCHANGED <<hours, nextHour, subscriptions, primary, hasPrimary, toDelete>>
  <2>1. CASE CreateCalendar(r, list)
    BY <2>1 DEF CreateCalendar, subscribing
  <2>2. CASE \E c \in calendars : PutCalendar(r, c, list)
    <3>1. PICK c \in calendars : PutCalendar(r, c, list)
      BY <2>2
    <3>2. c # r /\ c \in Edits
      BY DEF EditsOK, CalendarTypeOK
    <3> QED BY <3>1, <3>2 DEF PutCalendar, subscribing
  <2> QED BY <2>1, <2>2
<1>2. list \subseteq Listed
  BY DEF Lists, Listable
<1> DEFINE new == [calendar |-> c, hours |-> list]
<1>3. /\ at' = [at EXCEPT ![r] = first]
      /\ edit' = [edit EXCEPT ![r] = new]
      /\ toWrite' = [toWrite EXCEPT ![r] = list]
  BY <1>1 DEF StartEdit
<1>4. /\ \A q \in Edits : at'[q] = IF q = r THEN first ELSE at[q]
      /\ \A q \in Edits : edit'[q] = IF q = r THEN new ELSE edit[q]
      /\ \A q \in Edits : toWrite'[q] = IF q = r THEN list ELSE toWrite[q]
  BY <1>3 DEF CalendarTypeOK, EditsOK
<1>5. edit' \in [Edits -> [calendar : Edits \union {0}, hours : SUBSET Listed]]
  BY <1>2, <1>3 DEF EditsOK
<1>6. alone' \in [Edits -> BOOLEAN] /\ \A q \in Edits : alone'[q] => alone[q]
  BY <1>1 DEF StartEdit, CalendarTypeOK
<1>7. CalendarTypeOK'
  BY <1>1, <1>2, <1>3, <1>5, <1>6 DEF CalendarTypeOK
<1>8. ~Editing(r) /\ Editing(r)' /\ \A q \in Edits \ {r} : Editing(q)' <=> Editing(q)
  BY <1>4 DEF Editing
<1>9. toDelete[r] = {}
  BY <1>8 DEF EditsOK
<1>10. EditsOK'
  <2>1. \A d \in calendars' : at'[d] # "idle"
    BY <1>1, <1>4 DEF EditsOK, CalendarTypeOK
  <2>2. ASSUME NEW q \in Edits
        PROVE  /\ Editing(q)' => edit'[q].calendar \in calendars'
               /\ ~Editing(q)' => edit'[q] = NoEdit /\ toDelete'[q] = {} /\ toWrite'[q] = {}
               /\ at'[q] = "find" => Puts(q)'
               /\ toDelete'[q] # {} => at'[q] = "write" /\ Puts(q)'
               /\ at'[q] = "subscribe" => ~Puts(q)'
               /\ toWrite'[q] \subseteq edit'[q].hours
    <3>1. CASE q = r
      BY <1>1, <1>4, <1>8, <1>9, <3>1 DEF Puts
    <3>2. CASE q # r
      BY <1>1, <1>4, <1>8, <3>2 DEF EditsOK, Puts
    <3> QED BY <3>1, <3>2
  <2> QED BY <1>5, <2>1, <2>2 DEF EditsOK
<1>11. HoursOK'
  BY <1>1, <1>4 DEF HoursOK
<1>12. \A q \in Edits : Editing(q) => ~alone'[q] /\ ~alone'[r]
  BY <1>1 DEF StartEdit
<1>13. AloneOK'
  BY <1>8, <1>12 DEF AloneOK
<1>14. ListsOK'
  BY <1>1, <1>4, <1>8 DEF ListsOK, Puts
<1>15. AlonePutOK'
  <2> SUFFICES ASSUME NEW q \in Edits, Editing(q)', alone'[q], Puts(q)',
                      OneDayEach(edit[q].hours)'
               PROVE  /\ at'[q] = "find" => toWrite'[q] = edit'[q].hours
                      /\ at'[q] = "write" => WritesOK(q)'
    BY DEF AlonePutOK
  <2>1. q = r
    BY <1>8, <1>12
  <2>2. first = "find"
    BY <1>1, <1>4, <2>1 DEF Puts
  <2> QED BY <1>4, <2>1, <2>2
<1> QED BY <1>7, <1>10, <1>11, <1>13, <1>14, <1>15

LEMMA FindToDeleteInv ==
  ASSUME CalendarInv, NEW r \in Edits, FindToDelete(r)
  PROVE  CalendarInv'
<1> USE DEF CalendarInv, FindToDelete
<1> DEFINE found == NotListed(edit[r].calendar, edit[r].hours)
<1>1. toDelete' = [toDelete EXCEPT ![r] = found] /\ at' = [at EXCEPT ![r] = "write"]
  OBVIOUS
<1>2. found \subseteq HourIds /\ found \subseteq Unlisted(r)
  BY DEF NotListed, HoursOf, Unlisted
<1>3. /\ \A q \in Edits : at'[q] = IF q = r THEN "write" ELSE at[q]
      /\ \A q \in Edits : toDelete'[q] = IF q = r THEN found ELSE toDelete[q]
  BY <1>1 DEF CalendarTypeOK
<1>4. CalendarTypeOK'
  <2> HIDE DEF found
  <2>1. toDelete' \in [Edits -> SUBSET HourIds]
    BY <1>1, <1>2 DEF CalendarTypeOK
  <2>2. at' \in [Edits -> {"idle", "find", "write", "subscribe", "done", "failed"}]
    BY <1>1 DEF CalendarTypeOK
  <2> QED BY <2>1, <2>2 DEF CalendarTypeOK, subscribing
<1>5. \A q \in Edits : Editing(q)' <=> Editing(q)
  BY <1>3 DEF Editing
<1>6. EditsOK'
  BY <1>3, <1>5 DEF EditsOK, Puts, Editing
<1>7. HoursOK' /\ AloneOK' /\ ListsOK'
  BY <1>5 DEF HoursOK, AloneOK, ListsOK, Puts
<1>8. AlonePutOK'
  <2> SUFFICES ASSUME NEW q \in Edits, Editing(q)', alone'[q], Puts(q)',
                      OneDayEach(edit[q].hours)'
               PROVE  /\ at'[q] = "find" => toWrite'[q] = edit'[q].hours
                      /\ at'[q] = "write" => WritesOK(q)'
    BY DEF AlonePutOK
  <2>1. q = r
    BY <1>5 DEF AloneOK, Editing
  <2>2. WrittenRows(r) = {} /\ WrittenRows(r)' = {}
    BY <2>1, <1>5 DEF AlonePutOK, Puts, WrittenRows
  <2>3. (HoursOf(edit[r].calendar) \intersect Unlisted(r)) \ found = {}
    BY DEF NotListed, Unlisted
  <2>4. /\ HoursOf(edit[r].calendar)' = HoursOf(edit[r].calendar)
        /\ Unlisted(r)' = Unlisted(r) /\ toDelete'[r] = found
    BY <1>3 DEF HoursOf, Unlisted
  <2>5. WritesOK(r)'
    BY <1>2, <2>2, <2>3, <2>4 DEF WritesOK
  <2> QED BY <1>3, <2>1, <2>5
<1> QED BY <1>4, <1>6, <1>7, <1>8

\* A PUT or a creation of a calendar deletes or writes an hour: the others see
\* nothing of it but in the table, and one that is alone has no others.
LEMMA HourWritten ==
  ASSUME CalendarInv, NEW r \in Edits, at[r] = "write",
         hours' \in [HourIds -> [calendar : Edits \union {0}, day : Day \union {NoDay},
                                 deleted : BOOLEAN]],
         nextHour' \in 1 .. MaxHours + 1,
         toDelete' \in [Edits -> SUBSET HourIds], toWrite' \in [Edits -> SUBSET Listed],
         toDelete'[r] # {} => Puts(r),
         \A q \in Edits \ {r} : toDelete'[q] = toDelete[q] /\ toWrite'[q] = toWrite[q],
         toWrite'[r] \subseteq toWrite[r],
         HoursOK',
         UNCHANGED <<calendars, subscribing, at, edit, alone>>,
         alone[r] /\ Puts(r) /\ OneDayEach(edit[r].hours) => WritesOK(r)'
  PROVE  CalendarInv'
<1> USE DEF CalendarInv
<1>1. CalendarTypeOK'
  BY DEF CalendarTypeOK, subscribing
<1>2. \A q \in Edits : Editing(q)' <=> Editing(q)
  BY DEF Editing
<1>3. Editing(r)
  BY DEF Editing
<1>4. EditsOK'
  <2>1. ASSUME NEW q \in Edits
        PROVE  /\ ~Editing(q) => toDelete'[q] = {} /\ toWrite'[q] = {}
               /\ toDelete'[q] # {} => at[q] = "write" /\ Puts(q)
               /\ toWrite'[q] \subseteq edit[q].hours
    BY <1>3 DEF EditsOK
  <2> QED BY <1>2, <2>1 DEF EditsOK, Puts
<1>5. AloneOK' /\ ListsOK'
  BY <1>2 DEF AloneOK, ListsOK, Puts
<1>6. AlonePutOK'
  <2> SUFFICES ASSUME NEW q \in Edits, Editing(q)', alone'[q], Puts(q)',
                      OneDayEach(edit[q].hours)'
               PROVE  /\ at'[q] = "find" => toWrite'[q] = edit'[q].hours
                      /\ at'[q] = "write" => WritesOK(q)'
    BY DEF AlonePutOK
  <2>1. q = r /\ alone[r] /\ Puts(r) /\ OneDayEach(edit[r].hours)
    BY <1>2, <1>3 DEF AloneOK, Puts
  <2> QED BY <2>1
<1> QED BY <1>1, <1>4, <1>5, <1>6

LEMMA DeleteHourInv ==
  ASSUME CalendarInv, NEW r \in Edits, NEW i \in toDelete[r], DeleteHour(r, i)
  PROVE  CalendarInv'
<1> USE DEF CalendarInv, DeleteHour
<1>1. at[r] = "write" /\ Puts(r) /\ i \in HourIds
  BY DEF EditsOK, CalendarTypeOK
<1>2. \A j \in HourIds :
        hours'[j] = IF j = i THEN [hours[i] EXCEPT !.deleted = TRUE] ELSE hours[j]
  BY <1>1 DEF CalendarTypeOK
<1>3. \A q \in Edits : toDelete'[q] = IF q = r THEN toDelete[r] \ {i} ELSE toDelete[q]
  BY DEF CalendarTypeOK
<1>4. hours' \in [HourIds -> [calendar : Edits \union {0}, day : Day \union {NoDay},
                              deleted : BOOLEAN]]
  BY <1>1 DEF CalendarTypeOK
<1>5. toDelete' \in [Edits -> SUBSET HourIds]
  BY DEF CalendarTypeOK
<1>6. HoursOK'
  <2> SUFFICES ASSUME NEW j \in HourIds, j >= nextHour PROVE hours'[j] = NoHour
    BY DEF HoursOK
  <2>1. hours[j] = [calendar |-> 0, day |-> NoDay, deleted |-> TRUE]
    BY DEF HoursOK, NoHour
  <2>2. /\ hours'[j].calendar = hours[j].calendar /\ hours'[j].day = hours[j].day
        /\ hours'[j].deleted = TRUE
    BY <1>2, <2>1 DEF CalendarTypeOK
  <2>3. hours'[j] = [calendar |-> hours'[j].calendar, day |-> hours'[j].day,
                     deleted |-> hours'[j].deleted]
    BY <1>4
  <2>4. hours[j].calendar = 0 /\ hours[j].day = NoDay
    BY <2>1
  <2> QED BY <2>2, <2>3, <2>4 DEF NoHour
<1>7. ASSUME alone[r], OneDayEach(edit[r].hours) PROVE WritesOK(r)'
  <2> DEFINE c == edit[r].calendar
             created == (HoursOf(c) \intersect Unlisted(r)) \ toDelete[r]
  <2>1. WritesOK(r)
    BY <1>1, <1>7 DEF AlonePutOK, Editing
  <2>2. /\ Unlisted(r)' = Unlisted(r) /\ WrittenRows(r)' = WrittenRows(r) /\ edit' = edit
        /\ toDelete'[r] = toDelete[r] \ {i}
    BY <1>3 DEF Unlisted, WrittenRows
  <2>3. HoursOf(c)' = HoursOf(c) \ {i}
    BY <1>2 DEF HoursOf, CalendarTypeOK
  <2>4. created' = created /\ i \notin created
    BY <2>2, <2>3
  <2>5. \A j \in created : hours'[j] = hours[j]
    BY <1>2, <2>4 DEF HoursOf
  <2>6. \A x \in WrittenRows(r) : x.id # NewId => hours'[x.id] = Hour(r, x)'
    BY <1>2, <2>1 DEF WritesOK, Unlisted, WrittenRows, Hour, EditsOK, Listed
  <2> HIDE DEF created
  <2>7. /\ \A x \in WrittenRows(r) : x.id = NewId => \E j \in created : hours'[j].day = x.day
        /\ \A j \in created : \E x \in WrittenRows(r) : x.id = NewId /\ hours'[j].day = x.day
        /\ \A j, k \in created : hours'[j].day = hours'[k].day => j = k
    BY <2>1, <2>5 DEF WritesOK, created
  <2> QED BY <2>1, <2>2, <2>4, <2>6, <2>7 DEF WritesOK, created
<1> QED BY <1>1, <1>3, <1>4, <1>5, <1>6, <1>7, HourWritten DEF CalendarTypeOK

LEMMA ReplaceHourInv ==
  ASSUME CalendarInv, NEW r \in Edits, NEW x \in toWrite[r], ReplaceHour(r, x)
  PROVE  CalendarInv'
<1> USE DEF CalendarInv, ReplaceHour
<1>1. /\ x \in edit[r].hours /\ x.id \in HourIds /\ x.day \in Day
      /\ x.id < nextHour /\ Editing(r)
  <2>1. x \in edit[r].hours /\ x \in Listed /\ Editing(r)
    BY DEF EditsOK, Editing
  <2> QED BY <2>1 DEF Listed, HourExists
<1> DEFINE row == Hour(r, x)
<1>2. \A j \in HourIds : hours'[j] = IF j = x.id THEN row ELSE hours[j]
  BY <1>1 DEF CalendarTypeOK
<1>3. \A q \in Edits : toWrite'[q] = IF q = r THEN toWrite[r] \ {x} ELSE toWrite[q]
  BY DEF CalendarTypeOK
<1>4. row \in [calendar : Edits \union {0}, day : Day \union {NoDay}, deleted : BOOLEAN]
  BY <1>1 DEF Hour, EditsOK
<1>5. hours' \in [HourIds -> [calendar : Edits \union {0}, day : Day \union {NoDay},
                              deleted : BOOLEAN]]
  <2> HIDE DEF row
  <2> QED BY <1>4 DEF CalendarTypeOK, row
<1>6. toWrite' \in [Edits -> SUBSET Listed]
  BY DEF CalendarTypeOK
<1>7. HoursOK'
  <2> HIDE DEF row
  <2> QED BY <1>1, <1>2 DEF HoursOK, HourIds, CalendarTypeOK
<1>8. ASSUME alone[r], Puts(r), OneDayEach(edit[r].hours) PROVE WritesOK(r)'
  <2> DEFINE c == edit[r].calendar
             created == (HoursOf(c) \intersect Unlisted(r)) \ toDelete[r]
  <2>1. WritesOK(r)
    BY <1>1, <1>8 DEF AlonePutOK
  <2>2. /\ Unlisted(r)' = Unlisted(r) /\ edit' = edit /\ toDelete' = toDelete
        /\ WrittenRows(r)' = WrittenRows(r) \union {x} /\ x.id \notin Unlisted(r)
    BY <1>1, <1>3 DEF Unlisted, WrittenRows
  <2>3. \A j \in Unlisted(r) : hours'[j] = hours[j]
    BY <1>2, <2>2 DEF Unlisted
  <2>4. created' = created
    BY <2>2, <2>3 DEF HoursOf, Unlisted
  <2>5. created \subseteq Unlisted(r)
    OBVIOUS
  <2>6. \A y \in WrittenRows(r)' : y.id # NewId => hours'[y.id] = Hour(r, y)'
    <3> SUFFICES ASSUME NEW y \in WrittenRows(r)', y.id # NewId
                 PROVE  hours'[y.id] = Hour(r, y)'
      OBVIOUS
    <3>1. y.id \in HourIds /\ y \in edit[r].hours
      BY <1>1, <2>2 DEF WrittenRows, EditsOK, Listed
    <3>2. CASE y.id = x.id
      BY <1>1, <1>2, <1>8, <3>1, <3>2 DEF OneDayEach, Hour
    <3>3. CASE y.id # x.id
      BY <1>2, <2>1, <2>2, <3>1, <3>3 DEF WritesOK, Hour
    <3> QED BY <3>2, <3>3
  <2> HIDE DEF created
  <2>7. /\ \A y \in WrittenRows(r)' : y.id = NewId => \E j \in created : hours'[j].day = y.day
        /\ \A j \in created : \E y \in WrittenRows(r)' : y.id = NewId /\ hours'[j].day = y.day
        /\ \A j, k \in created : hours'[j].day = hours'[k].day => j = k
    <3>1. /\ \A y \in WrittenRows(r) : y.id = NewId => \E j \in created : hours[j].day = y.day
          /\ \A j \in created : \E y \in WrittenRows(r) : y.id = NewId /\ hours[j].day = y.day
          /\ \A j, k \in created : hours[j].day = hours[k].day => j = k
      BY <2>1 DEF WritesOK, created
    <3>2. \A j \in created : hours'[j] = hours[j]
      BY <2>3, <2>5
    <3> QED BY <3>1, <3>2, <2>2
  <2> QED BY <2>1, <2>2, <2>4, <2>6, <2>7 DEF WritesOK, created
<1> QED BY <1>3, <1>5, <1>6, <1>7, <1>8, HourWritten DEF CalendarTypeOK

LEMMA CreateHourInv ==
  ASSUME CalendarInv, NEW r \in Edits, NEW x \in toWrite[r], CreateHour(r, x)
  PROVE  CalendarInv'
<1> USE DEF CalendarInv, CreateHour
<1> DEFINE i == nextHour
           row == Hour(r, x)
<1>1. /\ x \in edit[r].hours /\ x.id = NewId /\ x.day \in Day /\ Editing(r)
      /\ i \in HourIds /\ i \in Nat /\ hours[i] = NoHour /\ edit[r].calendar # 0
      /\ nextHour' = i + 1 /\ i + 1 \in 1 .. MaxHours + 1
  <2>1. x \in edit[r].hours /\ x \in Listed /\ Editing(r)
    BY DEF EditsOK, Editing
  <2>2. i \in Nat /\ i >= i /\ i + 1 \in 1 .. MaxHours + 1
    BY CalendarAssumption DEF HourIds
  <2>3. edit[r].calendar # 0
    BY <2>1 DEF EditsOK, CalendarTypeOK, Edits
  <2> QED BY <2>1, <2>2, <2>3 DEF Listed, HoursOK
<1>2. \A j \in HourIds : hours'[j] = IF j = i THEN row ELSE hours[j]
  BY <1>1 DEF CalendarTypeOK
<1>3. \A q \in Edits : toWrite'[q] = IF q = r THEN toWrite[r] \ {x} ELSE toWrite[q]
  BY DEF CalendarTypeOK
<1>4. row \in [calendar : Edits \union {0}, day : Day \union {NoDay}, deleted : BOOLEAN]
  BY <1>1 DEF Hour, EditsOK
<1>5. hours' \in [HourIds -> [calendar : Edits \union {0}, day : Day \union {NoDay},
                              deleted : BOOLEAN]]
  <2> HIDE DEF row
  <2> QED BY <1>4 DEF CalendarTypeOK, row
<1>6. toWrite' \in [Edits -> SUBSET Listed]
  BY DEF CalendarTypeOK
<1>7. \A y \in edit[r].hours : y.id # NewId => y.id \in HourIds /\ y \in WrittenRows(r)
  BY DEF EditsOK, Listed, WrittenRows
<1>8. HoursOK'
  <2> HIDE DEF row
  <2> QED BY <1>1, <1>2 DEF HoursOK, HourIds
<1>9. ASSUME alone[r], Puts(r), OneDayEach(edit[r].hours) PROVE WritesOK(r)'
  <2> DEFINE c == edit[r].calendar
             created == (HoursOf(c) \intersect Unlisted(r)) \ toDelete[r]
  <2>1. WritesOK(r) /\ toDelete[r] = {}
    BY <1>1, <1>9 DEF AlonePutOK
  <2>2. /\ Unlisted(r)' = Unlisted(r) /\ edit' = edit /\ toDelete' = toDelete
        /\ WrittenRows(r)' = WrittenRows(r) \union {x} /\ x \notin WrittenRows(r)
    BY <1>1, <1>3 DEF Unlisted, WrittenRows
  <2>20. \A y \in edit[r].hours : y.id # i
    <3> SUFFICES ASSUME NEW y \in edit[r].hours, y.id # NewId PROVE y.id # i
      BY <1>1 DEF NewId, HourIds
    <3>1. hours[y.id] = Hour(r, y)
      BY <1>7, <2>1 DEF WritesOK
    <3> QED BY <1>1, <3>1 DEF Hour, NoHour
  <2>3. i \in Unlisted(r) /\ i \notin HoursOf(c) /\ hours'[i] = row
    BY <1>1, <1>2, <2>20 DEF Unlisted, HoursOf, NoHour
  <2>4. HoursOf(c)' = HoursOf(c) \union {i}
    BY <1>1, <1>2 DEF HoursOf, Hour
  <2>5. created' = created \union {i} /\ i \notin created /\ created \subseteq HourIds
    BY <2>1, <2>2, <2>3, <2>4 DEF Unlisted
  <2>6. \A y \in WrittenRows(r)' : y.id # NewId => hours'[y.id] = Hour(r, y)'
    <3> SUFFICES ASSUME NEW y \in WrittenRows(r)', y.id # NewId
                 PROVE  hours'[y.id] = Hour(r, y)'
      OBVIOUS
    <3>1. y.id \in HourIds /\ y.id # i /\ y \in WrittenRows(r)
      BY <1>1, <1>7, <2>2, <2>20 DEF WrittenRows
    <3> QED BY <1>2, <2>1, <3>1 DEF WritesOK, Hour
  <2>7. /\ \A j \in created : hours'[j] = hours[j]
        /\ hours'[i].day = x.day
    BY <1>2, <2>3, <2>5 DEF Hour
  <2> HIDE DEF created, i
  <2>8. /\ \A y \in WrittenRows(r) : y.id = NewId => \E j \in created : hours[j].day = y.day
        /\ \A j \in created : \E y \in WrittenRows(r) : y.id = NewId /\ hours[j].day = y.day
        /\ \A j, k \in created : hours[j].day = hours[k].day => j = k
    BY <2>1 DEF WritesOK, created
  <2>9. \A j \in created : hours[j].day # x.day
    <3> SUFFICES ASSUME NEW j \in created, hours[j].day = x.day PROVE FALSE
      OBVIOUS
    <3>1. PICK y \in WrittenRows(r) : hours[j].day = y.day
      BY <2>8
    <3>2. y \in edit[r].hours /\ y.day = x.day
      BY <3>1 DEF WrittenRows
    <3>3. y = x
      BY <1>1, <1>9, <3>2 DEF ListsOK, DistinctDays
    <3> QED BY <2>2, <3>3
  <2>10. /\ \A y \in WrittenRows(r)' : y.id = NewId => \E j \in created' : hours'[j].day = y.day
         /\ \A j \in created' : \E y \in WrittenRows(r)' : y.id = NewId /\ hours'[j].day = y.day
         /\ \A j, k \in created' : hours'[j].day = hours'[k].day => j = k
    BY <1>1, <2>2, <2>5, <2>7, <2>8, <2>9
  <2> QED BY <2>1, <2>2, <2>6, <2>10 DEF WritesOK, created
<1> QED BY <1>1, <1>3, <1>5, <1>6, <1>8, <1>9, HourWritten DEF CalendarTypeOK

LEMMA SubscribeInv ==
  ASSUME CalendarInv, NEW r \in Edits,
         \/ FindPrimary(r) \/ CreateSubscription(r) \/ DeleteSubscription(r)
  PROVE  CalendarInv'
<1> USE DEF CalendarInv
<1>1. CASE FindPrimary(r)
  <2> USE <1>1 DEF FindPrimary, Move
  <2>1. \A q \in Edits : at'[q] = IF q = r THEN "subscribe" ELSE at[q]
    BY DEF CalendarTypeOK
  <2>2. CalendarTypeOK'
    BY DEF CalendarTypeOK, FoundPrimary
  <2>3. \A q \in Edits : Editing(q)' <=> Editing(q)
    BY <2>1 DEF Editing
  <2>4. EditsOK'
    BY <2>1, <2>3 DEF EditsOK, Puts
  <2>5. HoursOK' /\ AloneOK' /\ ListsOK'
    BY <2>3 DEF HoursOK, AloneOK, ListsOK, Puts
  <2>6. AlonePutOK'
    BY <2>1, <2>3 DEF AlonePutOK, Puts, WritesOK, WrittenRows, Unlisted, Hour, HoursOf
  <2> QED BY <2>2, <2>4, <2>5, <2>6
<1>2. CASE CreateSubscription(r)
  <2> USE <1>2 DEF CreateSubscription
  <2>1. Editing(r) /\ r \in calendars
    BY DEF Editing, EditsOK, Puts
  <2>2. /\ hasPrimary' \in [Edits -> BOOLEAN]
        /\ primary' \subseteq subscriptions' /\ subscriptions' \subseteq calendars
    BY <2>1 DEF CalendarTypeOK
  <2> QED BY <2>1, <2>2, EndInv
<1>3. CASE DeleteSubscription(r)
  <2> USE <1>3 DEF DeleteSubscription
  <2>1. CalendarTypeOK'
    BY DEF CalendarTypeOK
  <2>2. EditsOK' /\ HoursOK' /\ AloneOK' /\ ListsOK'
    BY DEF EditsOK, HoursOK, AloneOK, ListsOK, Puts, Editing
  <2>3. AlonePutOK'
    BY DEF AlonePutOK, Puts, Editing, WritesOK, WrittenRows, Unlisted, Hour, HoursOf
  <2> QED BY <2>1, <2>2, <2>3
<1> QED BY <1>1, <1>2, <1>3

LEMMA CalendarNextInv == CalendarInv /\ [CalendarNext]_calendarVars => CalendarInv'
<1> SUFFICES ASSUME CalendarInv, [CalendarNext]_calendarVars
             PROVE  CalendarInv'
  OBVIOUS
<1>1. CASE UNCHANGED calendarVars
  <2> USE <1>1 DEF calendarVars, subscribing
  <2>1. \A r \in Edits : (Puts(r)' <=> Puts(r)) /\ (Editing(r)' <=> Editing(r))
    BY DEF Puts, Editing
  <2>2. \A r \in Edits : WritesOK(r)' <=> WritesOK(r)
    BY DEF WritesOK, WrittenRows, Unlisted, Hour, HoursOf
  <2>3. CalendarTypeOK' /\ EditsOK' /\ HoursOK'
    BY <2>1 DEF CalendarInv, CalendarTypeOK, EditsOK, HoursOK
  <2>4. AloneOK' /\ ListsOK' /\ AlonePutOK'
    BY <2>1, <2>2 DEF CalendarInv, AloneOK, ListsOK, AlonePutOK
  <2> QED BY <2>3, <2>4 DEF CalendarInv
<1>2. ASSUME NEW r \in Edits, UpdateCalendar(r) PROVE CalendarInv'
  <2>1. Editing(r)
    BY <1>2 DEF UpdateCalendar, Editing
  <2> QED BY <1>2, <2>1, EndInv DEF UpdateCalendar, subscribing, CalendarInv, CalendarTypeOK
<1>3. ASSUME NEW r \in Edits, EditFails(r) PROVE CalendarInv'
  <2>1. hasPrimary' \in [Edits -> BOOLEAN]
    BY <1>3 DEF EditFails, CalendarInv, CalendarTypeOK
  <2> QED BY <1>3, <2>1, EndInv DEF EditFails, CalendarInv, CalendarTypeOK
<1> QED BY <1>1, <1>2, <1>3, StartEventInv, FindToDeleteInv, DeleteHourInv, ReplaceHourInv,
           CreateHourInv, SubscribeInv
        DEF CalendarNext

\* A PUT that is alone and has nothing left to write has put there just the
\* hours it asks for, one for each of its days.
LEMMA AllWritten ==
  ASSUME CalendarInv, NEW r \in Edits, Editing(r), alone[r], Puts(r),
         OneDayEach(edit[r].hours), at[r] = "write", toDelete[r] = {}, toWrite[r] = {}
  PROVE  LET left == HoursOf(edit[r].calendar)
             days == {x.day : x \in edit[r].hours}
         IN  /\ {hours[i].day : i \in left} = days
             /\ Cardinality(left) = Cardinality(days)
<1> DEFINE c == edit[r].calendar
           L == edit[r].hours
           left == HoursOf(c)
           days == {x.day : x \in L}
           created == left \intersect Unlisted(r)
<1>1. /\ \A x \in L : x.id # NewId => x.id \in HourIds /\ hours[x.id] = Hour(r, x)
      /\ \A x \in L : x.id = NewId => \E i \in created : hours[i].day = x.day
      /\ \A i \in created : \E x \in L : x.id = NewId /\ hours[i].day = x.day
      /\ \A i, j \in created : hours[i].day = hours[j].day => i = j
      /\ \A x, y \in L : x.day = y.day => x = y
      /\ c # 0
  <2>1. WritesOK(r) /\ WrittenRows(r) = L
    BY DEF CalendarInv, AlonePutOK, WrittenRows
  <2>2. \A x \in L : x.id # NewId => x.id \in HourIds
    BY DEF CalendarInv, EditsOK, Listed
  <2>3. c # 0
    BY DEF CalendarInv, EditsOK, CalendarTypeOK, Edits
  <2> QED BY <2>1, <2>2, <2>3 DEF WritesOK, CalendarInv, ListsOK, DistinctDays
<1>2. \A i \in left : i \in HourIds /\ i # NewId
  BY DEF HoursOf, HourIds, NewId
<1>3. \A i \in left \ created : \E x \in L : x.id = i /\ hours[i].day = x.day
  <2> SUFFICES ASSUME NEW i \in left, i \notin Unlisted(r)
               PROVE  \E x \in L : x.id = i /\ hours[i].day = x.day
    OBVIOUS
  <2>1. PICK x \in L : x.id = i
    BY <1>2 DEF Unlisted
  <2>2. hours[i].day = x.day
    <3>1. hours[i] = Hour(r, x)
      BY <1>1, <1>2, <2>1
    <3> QED BY <3>1 DEF Hour
  <2> QED BY <2>1, <2>2
<1>4. \A x \in L : x.id # NewId => x.id \in left \ created /\ hours[x.id].day = x.day
  <2> SUFFICES ASSUME NEW x \in L, x.id # NewId
               PROVE  x.id \in left \ created /\ hours[x.id].day = x.day
    OBVIOUS
  <2>1. /\ x.id \in HourIds /\ hours[x.id].calendar = c
        /\ hours[x.id].day = x.day /\ ~hours[x.id].deleted
    <3>1. x.id \in HourIds /\ hours[x.id] = Hour(r, x)
      BY <1>1
    <3> QED BY <3>1 DEF Hour
  <2>2. x.id \in left /\ x.id \notin Unlisted(r)
    BY <2>1 DEF HoursOf, Unlisted
  <2> QED BY <2>1, <2>2
<1> HIDE DEF created, L, left
<1>5. \A i \in left : \E x \in L :
        /\ hours[i].day = x.day
        /\ \/ x.id = i
           \/ i \in created /\ x.id = NewId
  BY <1>1, <1>3
<1>6. \A x \in L : \E i \in left : hours[i].day = x.day
  BY <1>1, <1>4 DEF created
<1>7. {hours[i].day : i \in left} = days
  BY <1>5, <1>6
<1>8. \A i, j \in left : hours[i].day = hours[j].day => i = j
  BY <1>1, <1>2, <1>5
<1>9. Cardinality(days) = Cardinality(left)
  <2> DEFINE f == [i \in left |-> hours[i].day]
  <2>1. f \in Bijection(left, days)
    <3>1. f \in [left -> days]
      BY <1>7
    <3>2. \A i, j \in left : f[i] = f[j] => i = j
      BY <1>8
    <3>3. \A d \in days : \E i \in left : f[i] = d
      BY <1>6
    <3> HIDE DEF f, days
    <3> QED BY <3>1, <3>2, <3>3, Fun_IsBij
  <2>2. IsFiniteSet(left)
    <3>1. IsFiniteSet(HourIds)
      BY CalendarAssumption, FS_Interval DEF HourIds
    <3> QED BY <1>2, <3>1, FS_Subset
  <2> QED BY <2>1, <2>2, FS_Bijection DEF ExistsBijection
<1> QED BY <1>7, <1>9 DEF L, left

\* Working hours and the requests that edit them keep their types.
THEOREM CalendarTypes == CalendarSpec => []CalendarTypeOK
<1>1. CalendarInv => CalendarTypeOK
  BY DEF CalendarInv
<1> QED BY <1>1, CalendarInitInv, CalendarNextInv, PTL DEF CalendarSpec

\* However many earlier requests have failed half-way, or overlapped, or have
\* left behind hours of their own: a PUT of a calendar that no other request
\* overlaps, and that names no hour for two days, leaves it with exactly the
\* days it asks for, one live row each, whosever the hours were that it names
\* (CalendarController.updateById with deleteWorkingHours).
THEOREM CalendarPutTakesEffect == CalendarSpec => PutAloneTakesEffect
<1>1. CalendarSpec => []CalendarInv
  BY CalendarInitInv, CalendarNextInv, PTL DEF CalendarSpec
<1> DEFINE Effect ==
      \A r \in Edits :
        LET left == HoursOf(edit[r].calendar)
            days == {x.day : x \in edit[r].hours}
        IN  /\ Editing(r) /\ at'[r] = "done"
            /\ alone[r] /\ Puts(r) /\ OneDayEach(edit[r].hours)
            =>
              /\ {hours[i].day : i \in left} = days
              /\ Cardinality(left) = Cardinality(days)
<1>2. CalendarInv /\ [CalendarNext]_calendarVars => [Effect]_calendarVars
  <2> SUFFICES ASSUME CalendarInv, CalendarNext, NEW r \in Edits,
                      alone[r], Puts(r), OneDayEach(edit[r].hours),
                      Editing(r), at'[r] = "done"
               PROVE  LET left == HoursOf(edit[r].calendar)
                          days == {x.day : x \in edit[r].hours}
                      IN  /\ {hours[i].day : i \in left} = days
                          /\ Cardinality(left) = Cardinality(days)
    OBVIOUS
  <2>1. at[r] = "write" /\ toDelete[r] = {} /\ toWrite[r] = {}
    <3> USE DEF CalendarInv, CalendarTypeOK
    <3>1. at[r] # "done"
      BY DEF Editing
    <3>2. \A s \in Edits : ~DeleteSubscription(s)
      BY <3>1 DEF DeleteSubscription
    <3>3. PICK q \in Edits :
            \/ /\ at[q] = "idle"
               /\ \E list \in Listable :
                    CreateCalendar(q, list) \/ \E c \in calendars : PutCalendar(q, c, list)
            \/ \E i \in toDelete[q] : DeleteHour(q, i)
            \/ \E x \in toWrite[q] : ReplaceHour(q, x) \/ CreateHour(q, x)
            \/ FindToDelete(q) \/ UpdateCalendar(q) \/ FindPrimary(q)
            \/ CreateSubscription(q) \/ EditFails(q)
      BY <3>2 DEF CalendarNext
    <3>4. ~FindToDelete(q) /\ ~FindPrimary(q) /\ ~EditFails(q)
      BY <3>1 DEF FindToDelete, FindPrimary, Move, EditFails, End
    <3>5. \A i, x : ~DeleteHour(q, i) /\ ~ReplaceHour(q, x) /\ ~CreateHour(q, x)
      BY <3>1 DEF DeleteHour, ReplaceHour, CreateHour
    <3>6. \A list, c : ~CreateCalendar(q, list) /\ ~PutCalendar(q, c, list)
      BY <3>1 DEF CreateCalendar, PutCalendar, StartEdit
    <3>7. ~CreateSubscription(q)
      BY <3>1 DEF CreateSubscription, End, EditsOK
    <3>8. UpdateCalendar(q) /\ q = r
      BY <3>1, <3>3, <3>4, <3>5, <3>6, <3>7 DEF UpdateCalendar, End
    <3> QED BY <3>8 DEF UpdateCalendar
  <2> QED BY <2>1, AllWritten
<1> QED BY <1>1, <1>2, PTL DEF CalendarSpec, PutAloneTakesEffect
=============================================================================
