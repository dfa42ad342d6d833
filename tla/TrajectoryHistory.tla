------------------------- MODULE TrajectoryHistory -------------------------
(***************************************************************************)
(* TrajectoryMotion with a history of what was executed and of what the    *)
(* user asked for.  The history is only observed: it constrains no step.   *)
(***************************************************************************)
EXTENDS TrajectoryMotion

VARIABLES
  last,    \* trajectory of the goal that was executed last
  stranded \* trajectories that waited for a discard when it was withdrawn

historyVars == <<vars, last, stranded>>

HistoryInit == Init /\ last = 0 /\ stranded = {}

numbersIn(queue) ==
  UNION {{queue[i][k].traj : k \in DOMAIN queue[i]} : i \in DOMAIN queue}

\* A normal goal is executed while it is active.
recordExecution ==
  /\ last' = IF active' /\ executed' = "Normal" THEN step'.external.traj ELSE last
  /\ UNCHANGED stranded

\* stopTrajectory and startStaticGoal may take back an order to discard.
recordWithdrawal ==
  /\ stranded' = IF events.do_discard /\ ~events'.do_discard
                   THEN stranded \cup numbersIn(trj.temporary) ELSE stranded
  /\ UNCHANGED last

HistoryOkMessage(met) == OkMessage(met) /\ recordExecution

HistoryNext ==
  \/ NotOkMessage /\ recordExecution
  \/ \E met \in SUBSET goalIds : HistoryOkMessage(met)
  \/ Command /\ recordWithdrawal

HistorySpec == HistoryInit /\ [][HistoryNext]_historyVars

(***************************************************************************)
(* The robot controller keeps sending messages while a session lasts, and  *)
(* the robot reaches the goals it is sent: infinitely often a message is   *)
(* ok and its feedback satisfies every goal.  User commands are not fair.  *)
(***************************************************************************)
FairHistorySpec == HistorySpec /\ WF_historyVars(HistoryOkMessage(goalIds))

-----------------------------------------------------------------------------
(***************************************************************************)
(* Properties.                                                             *)
(***************************************************************************)

\* Trajectories are executed in the order in which addTrajectory accepted them,
\* also after interruptions, discards, static goals and new sessions.  The one
\* exception is a trajectory that waited in the temporary queue for a discard
\* when stopTrajectory(false) or startStaticGoal(false) withdrew the discard: it
\* stays there until a later discard, and is then executed after newer ones.
ExecutionOrder == [][last' < last => last' \in stranded]_historyVars

\* Once the interface stays in normal execution without a pending ramp down,
\* every queued trajectory is executed to its end: those in the current and the
\* primary queue in any case, those in the temporary queue if no discard that
\* they waited for was withdrawn.
QueueDrains ==
  <>[](mgr.state = <<"Normal", "Running">> /\ ~events.do_ramp_down)
    => <>[](executionQueue = <<>> /\ (stranded = {} => trj.temporary = <<>>))
=============================================================================
