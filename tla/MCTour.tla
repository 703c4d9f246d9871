------------------------------- MODULE MCTour -------------------------------
(***************************************************************************)
(* The tours of the runs of Tour.                                          *)
(***************************************************************************)
EXTENDS Tour

CONSTANTS home, list, detail

\* Two steps on one page, one on another, and back again; the third is not
\* attached to an element.
RoundTrip == <<home, home, list, home>>
RoundTripAttached == {1, 2, 4}

\* Three steps on three pages.
ThreePages == <<home, list, detail>>
=============================================================================
