----------------------------- MODULE MCServices -----------------------------
(***************************************************************************)
(* One model for the run of the components that keep state of their own    *)
(* and share none: a behaviour is one of the component it has chosen,      *)
(* while the others stay in one initial state each.                        *)
(***************************************************************************)
EXTENDS Payment, MCTour, MCWorkflow, Meeting, Attendance, Cache, Workers, Calendar,
  Schedule, Subscription, Search, Toggles,
  MCQueryBuilder

CONSTANTS ta, ua

VARIABLE component

OneQuery == {[op |-> "find", id |-> 0, head |-> "some", tail |-> "filter"]}

OneCaller == {[tenant |-> ta, user |-> ua]}

ServicesVars ==
  <<component, vars, tourVars, workflowVars, meetingVars, attendanceVars, cacheVars,
    workersVars, calendarVars, scheduleVars, subscriptionVars, searchVars, togglesVars,
    builderVars>>

\* The last conjunct says nothing of the states: it has TLC write out the functions
\* that the components begin with, which the view leaves alone where they do not run.
ServicesInit ==
  /\ component \in {"payment", "tour", "workflow", "meeting", "attendance", "cache",
                    "workers", "calendar", "schedule", "subscription", "search", "toggles",
                    "builder"}
  /\ Init /\ TourInit /\ WorkflowInit /\ MeetingInit /\ AttendanceInit
  /\ CacheInit /\ WorkersInit /\ CalendarInit /\ ScheduleInit
  /\ SubscriptionInit /\ SearchInit /\ TogglesInit /\ BuilderInit
  /\ component = "meeting" \/ ~serial
  /\ component = "attendance" \/ (~orderly /\ provider = "vonage")
  /\ component = "tour" \/ page = home
  /\ IF component = "search" /\ patient THEN onlyOnEnter = saveOnEnter
     ELSE ~onlyOnEnter /\ ~saveOnEnter /\ (component = "search" \/ patient)
  /\ component = "subscription" \/ (gateway = "razorpay" /\ ~onebyone)
  /\ ServicesVars = ServicesVars

PaymentStep ==
  /\ component = "payment" /\ Next
  /\ UNCHANGED <<component, tourVars, workflowVars, meetingVars, attendanceVars, cacheVars,
                 workersVars, calendarVars, scheduleVars, subscriptionVars,
                 searchVars, togglesVars, builderVars>>

TourStep ==
  /\ component = "tour" /\ TourNext
  /\ UNCHANGED <<component, vars, workflowVars, meetingVars, attendanceVars, cacheVars,
                 workersVars, calendarVars, scheduleVars, subscriptionVars,
                 searchVars, togglesVars, builderVars>>

WorkflowStep ==
  /\ component = "workflow" /\ WorkflowNext
  /\ UNCHANGED <<component, vars, tourVars, meetingVars, attendanceVars, cacheVars,
                 workersVars, calendarVars, scheduleVars, subscriptionVars,
                 searchVars, togglesVars, builderVars>>

MeetingStep ==
  /\ component = "meeting" /\ MeetingNext
  /\ UNCHANGED <<component, vars, tourVars, workflowVars, attendanceVars, cacheVars,
                 workersVars, calendarVars, scheduleVars, subscriptionVars,
                 searchVars, togglesVars, builderVars>>

AttendanceStep ==
  /\ component = "attendance" /\ AttendanceNext
  /\ UNCHANGED <<component, vars, tourVars, workflowVars, meetingVars, cacheVars,
                 workersVars, calendarVars, scheduleVars, subscriptionVars,
                 searchVars, togglesVars, builderVars>>

CacheStep ==
  /\ component = "cache" /\ CacheNext
  /\ UNCHANGED <<component, vars, tourVars, workflowVars, meetingVars, attendanceVars,
                 workersVars, calendarVars, scheduleVars, subscriptionVars,
                 searchVars, togglesVars, builderVars>>

WorkersStep ==
  /\ component = "workers" /\ WorkersNext
  /\ UNCHANGED <<component, vars, tourVars, workflowVars, meetingVars, attendanceVars,
                 cacheVars, calendarVars, scheduleVars, subscriptionVars,
                 searchVars, togglesVars, builderVars>>

CalendarStep ==
  /\ component = "calendar" /\ CalendarNext
  /\ UNCHANGED <<component, vars, tourVars, workflowVars, meetingVars, attendanceVars,
                 cacheVars, workersVars, scheduleVars, subscriptionVars,
                 searchVars, togglesVars, builderVars>>

ScheduleStep ==
  /\ component = "schedule" /\ ScheduleNext
  /\ UNCHANGED <<component, vars, tourVars, workflowVars, meetingVars, attendanceVars,
                 cacheVars, workersVars, calendarVars, subscriptionVars,
                 searchVars, togglesVars, builderVars>>

SubscriptionStep ==
  /\ component = "subscription" /\ SubscriptionNext
  /\ UNCHANGED <<component, vars, tourVars, workflowVars, meetingVars, attendanceVars,
                 cacheVars, workersVars, calendarVars, scheduleVars,
                 searchVars, togglesVars, builderVars>>

SearchStep ==
  /\ component = "search" /\ SearchNext
  /\ UNCHANGED <<component, vars, tourVars, workflowVars, meetingVars, attendanceVars,
                 cacheVars, workersVars, calendarVars, scheduleVars, subscriptionVars,
                 togglesVars, builderVars>>

TogglesStep ==
  /\ component = "toggles" /\ TogglesNext
  /\ UNCHANGED <<component, vars, tourVars, workflowVars, meetingVars, attendanceVars,
                 cacheVars, workersVars, calendarVars, scheduleVars, subscriptionVars,
                 searchVars, builderVars>>

BuilderStep ==
  /\ component = "builder" /\ BuilderNext
  /\ UNCHANGED <<component, vars, tourVars, workflowVars, meetingVars, attendanceVars,
                 cacheVars, workersVars, calendarVars, scheduleVars, subscriptionVars,
                 searchVars, togglesVars>>

ServicesNext ==
  \/ PaymentStep \/ TourStep \/ WorkflowStep \/ MeetingStep \/ AttendanceStep
  \/ CacheStep \/ WorkersStep \/ CalendarStep \/ ScheduleStep
  \/ SubscriptionStep \/ SearchStep \/ TogglesStep \/ BuilderStep

ServicesSpec == ServicesInit /\ [][ServicesNext]_ServicesVars

\* Every variable of the component that runs holds a value of its type.
TypesOK ==
  CASE component = "payment" -> TypeOK
    [] component = "tour" -> TourTypeOK
    [] component = "workflow" -> WorkflowTypeOK
    [] component = "meeting" -> MeetingTypeOK
    [] component = "attendance" -> AttendanceTypeOK
    [] component = "cache" -> CacheTypeOK
    [] component = "workers" -> WorkersTypeOK
    [] component = "calendar" -> CalendarTypeOK
    [] component = "schedule" -> ScheduleTypeOK
    [] component = "subscription" -> SubscriptionTypeOK
    [] component = "search" -> SearchTypeOK
    [] component = "toggles" -> TogglesTypeOK
    [] component = "builder" -> BuilderTypeOK

\* The others keep the values they began with, which the choice of the component
\* determines: states are told apart by the one that runs.
Running ==
  <<component,
    CASE component = "payment" -> vars
      [] component = "tour" -> tourVars
      [] component = "workflow" -> workflowVars
      [] component = "meeting" -> meetingVars
      [] component = "attendance" -> attendanceVars
      [] component = "cache" -> cacheVars
      [] component = "workers" -> workersVars
      [] component = "calendar" -> calendarVars
      [] component = "schedule" -> scheduleVars
      [] component = "subscription" -> subscriptionVars
      [] component = "search" -> searchVars
      [] component = "toggles" -> togglesVars
      [] component = "builder" -> builderVars>>
=============================================================================
