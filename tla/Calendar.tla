------------------------------ MODULE Calendar ------------------------------
(***************************************************************************)
(* The calendars of the scheduler service: creating one with its working   *)
(* hours and its owner's subscription (POST                                *)
(* /calendars/calendarSubscription), replacing its working hours (PUT      *)
(* /calendars/{id}), and unsubscribing.  Every awaited repository call is  *)
(* a step, and there is no transaction.  A calendar and its subscription   *)
(* are named after the request that creates them; there is one user.       *)
(***************************************************************************)
EXTENDS Naturals, FiniteSets

CONSTANTS
  Day,
  NoDay,
  MaxHours,      \* bound: how many working hours are created
  MaxEdits,      \* bound: how many requests are made in all
  MaxEditing     \* bound: how many of them are handled at the same time

Edits == 1 .. MaxEdits
HourIds == 1 .. MaxHours
NewId == 0        \* the id '' of an hour that is to be created

ASSUME CalendarAssumption ==
  MaxHours \in Nat /\ MaxEdits \in Nat /\ MaxEditing \in Nat /\ NoDay \notin Day

VARIABLES
  calendars,      \* the calendars there are
  hours,          \* table working_hours: calendar, dayOfWeek, deleted
  nextHour,
  subscriptions,  \* table subscriptions: the calendars of those that are left
  primary,        \* those of them with isPrimary
  at,             \* the awaited call each request is at
  edit,           \* its calendar and the working hours it asks for
  toDelete,       \* what its find of the hours to delete has found
  toWrite,        \* the hours it has still to write
  hasPrimary,     \* whether it has found a primary subscription
  alone           \* history: no other request has overlapped it, while it is handled

calendarVars ==
  <<calendars, hours, nextHour, subscriptions, primary, at, edit, toDelete, toWrite,
    hasPrimary, alone>>

subscribing == <<subscriptions, primary, hasPrimary>>

NoHour == [calendar |-> 0, day |-> NoDay, deleted |-> TRUE]
NoEdit == [calendar |-> 0, hours |-> {}]

HoursOf(c) == {i \in HourIds : hours[i].calendar = c /\ ~hours[i].deleted}
Editing(r) == at[r] \notin {"idle", "done", "failed"}
Puts(r) == edit[r].calendar # r

StartEdit(r, c, list, first) ==
  LET others == {q \in Edits : Editing(q)} IN
    /\ \A q \in Edits : q < r => at[q] # "idle"
    /\ Cardinality(others) < MaxEditing
    /\ edit' = [edit EXCEPT ![r] = [calendar |-> c, hours |-> list]]
    /\ toWrite' = [toWrite EXCEPT ![r] = list]
    /\ at' = [at EXCEPT ![r] = first]
    /\ alone' = [q \in Edits |->
                   alone[q] /\ (others = {} \/ q \notin others \union {r})]

Move(r, next) ==
  at' = [at EXCEPT ![r] = next] /\ UNCHANGED <<edit, toDelete, toWrite, alone>>

End(r, result) ==
  /\ at' = [at EXCEPT ![r] = result]
  /\ edit' = [edit EXCEPT ![r] = NoEdit]
  /\ toDelete' = [toDelete EXCEPT ![r] = {}]
  /\ toWrite' = [toWrite EXCEPT ![r] = {}]
  /\ alone' = [alone EXCEPT ![r] = TRUE]

-----------------------------------------------------------------------------
(* PUT /calendars/{id} with workingHours. *)

\* checkPutValidations: any other list is refused.  Nothing is asked of the ids: one
\* may be of no working hour, of another calendar's, or that of two days.
DistinctDays(list) == \A x, y \in list : x.day = y.day => x = y

PutCalendar(r, c, list) ==
  /\ DistinctDays(list)
  /\ StartEdit(r, c, list, "find")
  /\ UNCHANGED <<calendars, hours, nextHour, subscribing, toDelete>>

NotListedIfAny(c, list) ==                \* mutant: no ids, nothing to delete
  {i \in HoursOf(c) : /\ \E x \in list : x.id # NewId
                      /\ \A x \in list : x.id # i}
NotListed(c, list) == {i \in HoursOf(c) : \A x \in list : x.id # i}

\* deleteWorkingHours
FindToDelete(r) ==
  /\ at[r] = "find"
  /\ toDelete' = [toDelete EXCEPT ![r] = NotListed(edit[r].calendar, edit[r].hours)]
  /\ at' = [at EXCEPT ![r] = "write"]
  /\ UNCHANGED <<calendars, hours, nextHour, subscribing, edit, toWrite, alone>>

DeleteHour(r, i) ==
  /\ hours' = [hours EXCEPT ![i].deleted = TRUE]
  /\ toDelete' = [toDelete EXCEPT ![r] = @ \ {i}]
  /\ UNCHANGED <<calendars, nextHour, subscribing, at, edit, toWrite, alone>>

Hour(r, x) == [calendar |-> edit[r].calendar, day |-> x.day, deleted |-> FALSE]

HourExists(i) == i < nextHour

\* replaceById writes the whole row, its calendar and whether it has been deleted
\* included.  When there is none the request can only fail (EditFails).
ReplaceHour(r, x) ==
  /\ at[r] = "write" /\ toDelete[r] = {} /\ x.id # NewId /\ HourExists(x.id)
  /\ hours' = [hours EXCEPT ![x.id] = Hour(r, x)]
  /\ toWrite' = [toWrite EXCEPT ![r] = @ \ {x}]
  /\ UNCHANGED <<calendars, nextHour, subscribing, at, edit, toDelete, alone>>

\* The hours to create come after those to replace.
CreateHour(r, x) ==
  /\ at[r] = "write" /\ toDelete[r] = {}
  /\ \A y \in toWrite[r] : y.id = NewId
  /\ nextHour \in HourIds
  /\ hours' = [hours EXCEPT ![nextHour] = Hour(r, x)]
  /\ nextHour' = nextHour + 1
  /\ toWrite' = [toWrite EXCEPT ![r] = @ \ {x}]
  /\ UNCHANGED <<calendars, subscribing, at, edit, toDelete, alone>>

\* updateById of the calendar's other columns.
UpdateCalendar(r) ==
  /\ at[r] = "write" /\ Puts(r) /\ toDelete[r] = {} /\ toWrite[r] = {}
  /\ End(r, "done")
  /\ UNCHANGED <<calendars, hours, nextHour, subscribing>>

-----------------------------------------------------------------------------
(* POST /calendars/calendarSubscription *)

\* createCalendar: the row, and then the working hours one by one.
CreateCalendar(r, list) ==
  /\ \A x \in list : x.id = NewId
  /\ StartEdit(r, r, list, "write")
  /\ calendars' = calendars \union {r}
  /\ UNCHANGED <<hours, nextHour, subscribing, toDelete>>

FoundPrimary == primary # {}

FindPrimary(r) ==
  /\ at[r] = "write" /\ ~Puts(r) /\ toWrite[r] = {}
  /\ hasPrimary' = [hasPrimary EXCEPT ![r] = FoundPrimary]
  /\ Move(r, "subscribe")
  /\ UNCHANGED <<calendars, hours, nextHour, subscriptions, primary>>

CreateSubscription(r) ==
  /\ at[r] = "subscribe"
  /\ subscriptions' = subscriptions \union {r}
  /\ primary' = IF hasPrimary[r] THEN primary ELSE primary \union {r}
  /\ hasPrimary' = [hasPrimary EXCEPT ![r] = FALSE]
  /\ End(r, "done")
  /\ UNCHANGED <<calendars, hours, nextHour>>

\* DELETE /subscriptions/{id}
DeleteSubscription(s) ==
  /\ s \in subscriptions
  /\ subscriptions' = subscriptions \ {s}
  /\ primary' = primary \ {s}
  /\ UNCHANGED <<calendars, hours, nextHour, at, edit, toDelete, toWrite, hasPrimary,
                 alone>>

\* The database fails, or the service stops.
EditFails(r) ==
  /\ Editing(r)
  /\ hasPrimary' = [hasPrimary EXCEPT ![r] = FALSE]
  /\ End(r, "failed")
  /\ UNCHANGED <<calendars, hours, nextHour, subscriptions, primary>>

CalendarInit ==
  /\ calendars = {} /\ subscriptions = {} /\ primary = {}
  /\ hours = [i \in HourIds |-> NoHour]
  /\ nextHour = 1
  /\ at = [r \in Edits |-> "idle"]
  /\ edit = [r \in Edits |-> NoEdit]
  /\ toDelete = [r \in Edits |-> {}]
  /\ toWrite = [r \in Edits |-> {}]
  /\ hasPrimary = [r \in Edits |-> FALSE]
  /\ alone = [r \in Edits |-> TRUE]

Listed == [id : HourIds \union {NewId}, day : Day]
Lists == {list \in SUBSET Listed : Cardinality(list) <= Cardinality(Day)}

\* The id of no working hour makes a request fail that has deleted hours, as every
\* request may (EditFails): the lists of its inputs have none.
Listable == {list \in Lists : \A x \in list : HourExists(x.id)}

CalendarNext ==
  \/ \E s \in Edits : DeleteSubscription(s)
  \/ \E r \in Edits :
       \/ /\ at[r] = "idle"
          /\ \E list \in Listable :
               CreateCalendar(r, list) \/ \E c \in calendars : PutCalendar(r, c, list)
       \/ \E i \in toDelete[r] : DeleteHour(r, i)
       \/ \E x \in toWrite[r] : ReplaceHour(r, x) \/ CreateHour(r, x)
       \/ FindToDelete(r) \/ UpdateCalendar(r) \/ FindPrimary(r)
       \/ CreateSubscription(r) \/ EditFails(r)

CalendarSpec == CalendarInit /\ [][CalendarNext]_calendarVars

-----------------------------------------------------------------------------
(* What the code guarantees.                                               *)

CalendarTypeOK ==
  /\ calendars \subseteq Edits /\ primary \subseteq subscriptions
  /\ subscriptions \subseteq calendars
  /\ hours \in [HourIds -> [calendar : Edits \union {0}, day : Day \union {NoDay},
                            deleted : BOOLEAN]]
  /\ nextHour \in 1 .. MaxHours + 1
  /\ at \in [Edits -> {"idle", "find", "write", "subscribe", "done", "failed"}]
  /\ \A r \in Edits :
       edit[r].calendar \in Edits \union {0} /\ edit[r].hours \subseteq Listed
  /\ toDelete \in [Edits -> SUBSET HourIds] /\ toWrite \in [Edits -> SUBSET Listed]
  /\ hasPrimary \in [Edits -> BOOLEAN] /\ alone \in [Edits -> BOOLEAN]

\* No working hour is asked to be on two days.
OneDayEach(list) == \A x, y \in list : x.id = y.id /\ x.id # NewId => x = y

\* A PUT that nothing overlaps leaves the calendar with the working hours it
\* asks for, one for each of its days, whatever earlier requests that failed
\* half-way or overlapped have left, and whosever the working hours were that
\* it names: making it again heals them.  One that names a working hour for
\* two days loses all but the day it writes last.
PutAloneTakesEffect ==
  [][\A r \in Edits :
       LET left == HoursOf(edit[r].calendar)
           days == {x.day : x \in edit[r].hours}
       IN  /\ Editing(r) /\ at'[r] = "done"
           /\ alone[r] /\ Puts(r) /\ OneDayEach(edit[r].hours)
           =>
             /\ {hours[i].day : i \in left} = days
             /\ Cardinality(left) = Cardinality(days)]_calendarVars
=============================================================================
