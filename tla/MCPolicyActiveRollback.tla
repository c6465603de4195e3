----------------------- MODULE MCPolicyActiveRollback -----------------------
(* A rollback, a sunset and a recovery of one tenant, over two releases. *)
EXTENDS PolicyActiveRollback

MCRequestIds == {"r1", "r2", "r3"}
MCKindOf == [r1 |-> "rollback", r2 |-> "sunset", r3 |-> "recovery"]
MCCandidates == {[source |-> <<0, 0>>, proposed |-> <<2, 0>>]}
MCRegistered == {[id |-> 101, version |-> <<1, 0>>]}
MCReplacements == {NoVersion, <<1, 0>>}
MCFailingWrites == 1 .. 4
=============================================================================
