-------------------------- MODULE MCCallRecordings --------------------------
(* The first call of a room has a participant; its end may still be at work  *)
(* while two requests start to record the second, of up to two tracks.       *)
EXTENDS CallRecordings

CONSTANTS u1, r1, r2

SeatsFollowed == {<<1, u1>>}

RequestsOf == [r \in {r1, r2} |-> 2]
=============================================================================
