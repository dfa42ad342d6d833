---------------------------- MODULE StateManager ----------------------------
(***************************************************************************)
(* The state manager of the trajectory interface                           *)
(* (EGMTrajectoryInterface::TrajectoryMotion::StateManager): the execution *)
(* states and sub states, the table of accepted transitions, and the       *)
(* operations on the manager.  A manager is a record: the current state    *)
(* and sub state, as a pair, and the pending pair that the next callback   *)
(* installs.  has_pending_state_ = false is the value NoPending; the code  *)
(* never reads the pending fields in that case.                            *)
(***************************************************************************)

States == {"Normal", "RampDown", "StaticGoal"}
SubStates == {"None", "Running", "Finished"}
StatePairs == States \X SubStates

NoPending == <<"no", "pending">>

Managers == [state : StatePairs, pending : StatePairs \cup {NoPending}]

(***************************************************************************)
(* Accepted[x] is the set of pairs that setPendingState accepts while the  *)
(* current pair is x.  The two empty rows are the cases the code marks     *)
(* "Should never occur".                                                   *)
(***************************************************************************)
Accepted ==
  [x \in StatePairs |->
     CASE x = <<"Normal", "None">>         -> {}
       [] x = <<"Normal", "Running">>      -> {<<"RampDown", "None">>}
       [] x = <<"Normal", "Finished">>     -> {}
       [] x = <<"RampDown", "None">>       -> {<<"RampDown", "Running">>}
       [] x = <<"RampDown", "Running">>    -> {<<"RampDown", "Finished">>}
       [] x = <<"RampDown", "Finished">>   -> {<<"Normal", "Running">>,
                                               <<"StaticGoal", "None">>}
       [] x = <<"StaticGoal", "None">>     -> {<<"StaticGoal", "Running">>}
       [] x = <<"StaticGoal", "Running">>  -> {<<"StaticGoal", "Finished">>,
                                               <<"RampDown", "None">>}
       [] x = <<"StaticGoal", "Finished">> -> {<<"RampDown", "None">>}]

\* Mutant of setPendingState: the rows of the Finished sub states are missing.
setPendingStateNotFinished(mgr, desired) ==
  IF desired \in Accepted[mgr.state] /\ mgr.state[2] # "Finished"
    THEN [mgr EXCEPT !.pending = desired] ELSE mgr

\* Mutant of setPendingState: the rows of the None sub states are missing.
setPendingStateNotNone(mgr, desired) ==
  IF desired \in Accepted[mgr.state] /\ mgr.state[2] # "None"
    THEN [mgr EXCEPT !.pending = desired] ELSE mgr

setPendingState(mgr, desired) ==
  IF desired \in Accepted[mgr.state] THEN [mgr EXCEPT !.pending = desired] ELSE mgr

updateState(mgr) ==
  IF mgr.pending # NoPending
    THEN [state |-> mgr.pending, pending |-> NoPending]
    ELSE mgr

activateStateManager(mgr) == [mgr EXCEPT !.state = <<"Normal", "Running">>]

ResetManager == [state |-> <<"Normal", "None">>, pending |-> NoPending]
=============================================================================
