------------------------------ MODULE MCCache -------------------------------
(***************************************************************************)
(* The queries of the run of Cache: find with two filters that begin with  *)
(* the same 72 bytes, and findById of the id 0 and of another.             *)
(***************************************************************************)
EXTENDS Cache

Query(op, id, head, tail) == [op |-> op, id |-> id, head |-> head, tail |-> tail]

CollidingQueries ==
  {Query("find", 0, "long", "one"), Query("find", 0, "long", "two"),
   Query("findById", 0, "long", "one"), Query("findById", 1, "long", "one")}
=============================================================================
