-------------------------- MODULE ExecutionStates --------------------------
(***************************************************************************)
(* What the trajectory interface promises about its execution states, as a *)
(* user sees them in the execution progress: which pair of state and sub   *)
(* state may follow which, and that the transient pairs do not last.       *)
(***************************************************************************)
VARIABLE state

Init == state = <<"Normal", "None">>

becomes(from, to) == state = from /\ state' = to

\* A session ends, or the states of the robot controller are not ok.
EndSession == state' = <<"Normal", "None">>

\* A session (re)starts from any pair.
StartSession == state' = <<"Normal", "Running">>

\* A ramp down interrupts normal execution or a static goal.
Interrupt ==
  \/ becomes(<<"Normal", "Running">>, <<"RampDown", "None">>)
  \/ becomes(<<"StaticGoal", "Running">>, <<"RampDown", "None">>)

\* A finished ramp down gives way to normal execution or to a static goal.
Resume ==
  \/ becomes(<<"RampDown", "Finished">>, <<"Normal", "Running">>)
  \/ becomes(<<"RampDown", "Finished">>, <<"StaticGoal", "None">>)

FinishStaticGoal == becomes(<<"StaticGoal", "Running">>, <<"StaticGoal", "Finished">>)

\* The pairs that only prepare the next one.
Proceed ==
  \/ becomes(<<"RampDown", "None">>, <<"RampDown", "Running">>)
  \/ becomes(<<"RampDown", "Running">>, <<"RampDown", "Finished">>)
  \/ becomes(<<"StaticGoal", "None">>, <<"StaticGoal", "Running">>)
  \/ becomes(<<"StaticGoal", "Finished">>, <<"RampDown", "None">>)

Next == EndSession \/ StartSession \/ Interrupt \/ Resume \/ FinishStaticGoal \/ Proceed

Spec == Init /\ [][Next]_state

FairSpec == Spec /\ WF_state(Proceed)
=============================================================================
