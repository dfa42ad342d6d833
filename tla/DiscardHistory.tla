--------------------------- MODULE DiscardHistory ---------------------------
(***************************************************************************)
(* TrajectoryMotion with a history of the orders to discard.  The history  *)
(* is only observed: it constrains no step.                                *)
(***************************************************************************)
EXTENDS TrajectoryMotion

VARIABLE
  discarded \* last trajectory that the latest order to discard applies to

DiscardInit == Init /\ discarded = 0

DiscardNext ==
  \/ /\ \E goal \in TrajectoryGoals : addTrajectory(goal, TRUE)
     /\ discarded' = added
  \/ \E d \in BOOLEAN :
       /\ stopTrajectory(d) \/ startStaticGoal(d)
       /\ discarded' = IF d THEN added ELSE 0
  \/ /\ \/ NotOkMessage
        \/ \E met \in SUBSET goalIds : OkMessage(met)
        \/ \E goal \in TrajectoryGoals : addTrajectory(goal, FALSE)
        \/ resumeTrajectory
        \/ \E f \in Factors : updateDurationFactor(f)
        \/ \E k \in {"position", "velocity"}, fast \in BOOLEAN : setStaticGoal(k, fast)
        \/ \E r \in BOOLEAN : finishStaticGoal(r)
        \/ retrieveExecutionProgress
     /\ UNCHANGED discarded

DiscardSpec == DiscardInit /\ [][DiscardNext]_<<vars, discarded>>

-----------------------------------------------------------------------------
\* stopTrajectory: "all pending trajectories should be discarded (i.e.
\* removed)".  Once the order has been handled no trajectory that was pending
\* when it was given is left to execute; one that waited in the temporary
\* queue is.
DiscardRemovesAll ==
  executed = "RampDown" /\ mgr.state[2] = "Finished" /\ ~events.do_discard
    => \A i \in DOMAIN executionQueue :
         executionQueue[i] # <<>> => executionQueue[i][1].traj > discarded
=============================================================================
