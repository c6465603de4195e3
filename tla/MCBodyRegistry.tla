---------------------------- MODULE MCBodyRegistry ----------------------------
(***************************************************************************)
(* Small instances of BodyRegistry for TLC.                                *)
(***************************************************************************)
EXTENDS BodyRegistry, TLC

CONSTANTS desktop, phone, conn1, conn2, conn3, call1, call2, call3, id1, id2

\* One body connects twice, the other once.
TwiceOne == [s \in Sockets |-> IF s = conn3 THEN {phone} ELSE {desktop}]

\* One caller draws a random id; two requests bring the same one.
SomeShared == [c \in Calls |-> IF c = call1 THEN {id1} ELSE {id2}]
=============================================================================
