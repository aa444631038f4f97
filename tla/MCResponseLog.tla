---------------------------- MODULE MCResponseLog ----------------------------
(* An instance of the response log for TLC.                                  *)
EXTENDS ResponseLog, TLC

CONSTANTS o1, o2, n1, s1, s2, p1, p2

Kinds == [o \in Object |-> IF o = n1 THEN "notificatie" ELSE "cloudevent"]
SharedId == [o \in Object |-> o1]   \* of two sources
Interchangeable == Permutations(Sub) \cup Permutations(Publication)
==============================================================================
