------------------------ MODULE MCDurableJsonStore ------------------------
(* Two processes: one makes two calls, the other one. *)
EXTENDS DurableJsonStore

CONSTANTS u1, u2, u3, p1, p2

MCUpdates == {u1, u2, u3}
MCProcesses == {p1, p2}
MCProcessOf == [u \in MCUpdates |-> IF u = u3 THEN p2 ELSE p1]
=============================================================================
