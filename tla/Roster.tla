------------------------------- MODULE Roster -------------------------------
(***************************************************************************)
(* What the list of a meeting's active attendees promises: who is in the   *)
(* meeting is on it, once each; people come and go one at a time.          *)
(***************************************************************************)
CONSTANT Attendee
VARIABLE present

RosterInit == present = {}

Arrive(a) == a \notin present /\ present' = present \union {a}
Depart(a) == a \in present /\ present' = present \ {a}

RosterNext == \E a \in Attendee : Arrive(a) \/ Depart(a)

RosterSpec == RosterInit /\ [][RosterNext]_present
=============================================================================
