--------------------------- MODULE MCToolExecution ---------------------------
(***************************************************************************)
(* Small instances of ToolExecution for TLC.                               *)
(***************************************************************************)
EXTENDS ToolExecution, TLC

CONSTANTS call1, call2, call3, boss, alice, pay, edit, wipe, big, small,
          key, trace1, trace2, trace3, approval

Classes == [t \in Tools |-> CASE t = pay  -> "HIGH_IMPACT"
                              [] t = edit -> "REVERSIBLE"
                              [] t = wipe -> "FORBIDDEN"]

\* An edit of the boss under trace1 and the shared key.
Edit == [user |-> boss, tool |-> edit, arguments |-> small, key |-> key,
         correlation |-> trace1, token |-> NoToken, privileged |-> TRUE,
         withinBudget |-> TRUE]

Pay == [Edit EXCEPT !.tool = pay, !.token = approval]

\* Beside the edit, one of a second agent turn, one without arguments, one with
\* other arguments; payments under the edit's key, under no key, and one that
\* asks for its approval.
MainRequests ==
  {Edit, [Edit EXCEPT !.correlation = trace2],
   [Edit EXCEPT !.arguments = NoArguments, !.correlation = trace2],
   [Edit EXCEPT !.arguments = big, !.correlation = trace3],
   Pay, [Pay EXCEPT !.key = NoKey, !.correlation = trace2],
   [Pay EXCEPT !.token = NoToken]}

\* Requests that the enforcement point refuses, and another user's.
RefusedRequests ==
  {[Edit EXCEPT !.user = alice],
   [Edit EXCEPT !.user = alice, !.privileged = FALSE],
   [Edit EXCEPT !.user = NoUser],
   [Edit EXCEPT !.tool = wipe],
   [Edit EXCEPT !.key = NoKey, !.withinBudget = FALSE]}

AllRequests == MainRequests \cup RefusedRequests

EditsOnly == {Edit, [Edit EXCEPT !.correlation = trace2]}

CallSymmetry == Permutations(Calls)
=============================================================================
