-------------------------- MODULE TrajectoryMotion --------------------------
(***************************************************************************)
(* EGMTrajectoryInterface::TrajectoryMotion: trajectories queued by a user *)
(* are executed one message of the robot controller at a time.             *)
(*                                                                         *)
(* Two kinds of step interleave.  generateOutputs runs in the UDP callback *)
(* and holds both mutexes from beginning to end; every user command holds  *)
(* the data mutex.  Each is one atomic action here.                        *)
(*                                                                         *)
(* Goal positions are abstracted to the identity of the point: the         *)
(* feedback of a message is the set of points whose position it satisfies. *)
(* Time is counted in a unit of which LOWEST_SAMPLE_TIME is a multiple.    *)
(***************************************************************************)
EXTENDS Integers, Sequences, FiniteSetsExt, StateManager

CONSTANTS
  LOWEST_SAMPLE_TIME,         \* Constants::RobotController, 4 ms
  RAMP_DOWN_STOP_DURATION,    \* 1.0 s; half of it for a ramp down without stop
  STATIC_GOAL_DURATION,       \* 5.0 s
  STATIC_GOAL_DURATION_SHORT, \* 0.1 s
  DURATION_FACTOR_MIN,        \* 1.0
  DURATION_FACTOR_MAX,        \* 5.0
  TrajectoryGoals,  \* trajectories a user may add: sequences of PointGoals
  Factors,          \* duration factors a user may ask for
  Estimates,        \* results estimateDuration may have
  SampleTimes,      \* estimated sample times a message may have
  Commands,         \* bound: the user commands that are issued
  MaxSessions,      \* bound: number of sessions, i.e. of first messages
  MaxTrajectories,  \* bound: number of trajectories a user adds
  MaxDuration       \* bound: durations and times saturate here

NoDuration == -1

\* A point goal as a user states it: only what the control depends on.
PointGoals == [reach : BOOLEAN, dur : Nat \cup {NoDuration}]

ASSUME ConstantsAssumption ==
  /\ LOWEST_SAMPLE_TIME \in Nat \ {0}
  /\ RAMP_DOWN_STOP_DURATION \in Nat
  /\ STATIC_GOAL_DURATION \in Nat
  /\ STATIC_GOAL_DURATION_SHORT \in Nat
  /\ DURATION_FACTOR_MIN \in Nat \ {0}
  /\ DURATION_FACTOR_MAX \in Nat
  /\ DURATION_FACTOR_MIN <= DURATION_FACTOR_MAX
  /\ \A g \in TrajectoryGoals : g \in Seq(PointGoals)
  /\ Factors \subseteq Nat
  /\ Estimates \subseteq Nat
  /\ SampleTimes \subseteq Nat
  /\ \A dt \in SampleTimes : dt >= LOWEST_SAMPLE_TIME
  /\ MaxSessions \in Nat \ {0}
  /\ MaxTrajectories \in Nat
  /\ MaxDuration \in Nat
  /\ LOWEST_SAMPLE_TIME <= MaxDuration

VARIABLES
  mgr,        \* state_manager_
  events,     \* data_.pending_events
  trj,        \* trajectories_: has is p_current # null, current its points
  step,       \* motion_step_
  active,     \* data_.has_active_goal
  controller, \* controller_.is_normal_state_
  progress,   \* data_.execution_progress and has_updated_execution_progress
  added,      \* number of trajectories accepted so far
  sessions    \* number of sessions started so far

vars == <<mgr, events, trj, step, active, controller, progress, added, sessions>>

(***************************************************************************)
(* Data.  A queued point carries the number of its trajectory (the order   *)
(* of acceptance) and the number of points that follow it there.           *)
(***************************************************************************)
\* No point has a duration of zero, unless a user has given it.
ZeroDurations == \E g \in TrajectoryGoals : \E i \in DOMAIN g : g[i].dur = 0
Durations == {d \in Nat \cup {NoDuration} : d = 0 => ZeroDurations}
Points == [traj : Nat, left : Nat, reach : BOOLEAN, dur : Durations]
NoPoint == [traj |-> 0, left |-> 0, reach |-> FALSE, dur |-> NoDuration]
PointId(p) == <<p.traj, p.left>>

Operations == {"Normal", "RampDown", "RampInPosition", "RampInVelocity"}

Cap(d) == IF d > MaxDuration THEN MaxDuration ELSE d

PendingEvents ==
  [do_stop : BOOLEAN, do_resume : BOOLEAN, do_discard : BOOLEAN,
   do_ramp_down : BOOLEAN, do_static_goal_start : BOOLEAN,
   do_static_goal_fast_update : BOOLEAN,
   do_static_position_goal_update : BOOLEAN,
   do_static_velocity_goal_update : BOOLEAN,
   do_static_goal_finish : BOOLEAN, do_duration_factor_update : BOOLEAN,
   duration_factor : Nat \ {0}]

\* The parts of a PointGoal that the motion step's own goals use.
Goals == [reach : BOOLEAN, dur : Nat]
NoGoal == [reach |-> FALSE, dur |-> 0]

MotionSteps ==
  [external : Points, internal : Goals, interpolation : Goals,
   conditions : [op : Operations, dur : Nat],
   interpolator : [op : Operations, dur : Nat],
   time_passed : Nat, duration_factor : Nat \ {0}]

TrajectoryContainers ==
  [has : BOOLEAN, current : Seq(Points),
   primary : Seq(Seq(Points)), temporary : Seq(Seq(Points))]

Progress ==
  [has_inputs : BOOLEAN, updated : BOOLEAN, state : StatePairs,
   goal_active : BOOLEAN, pending_trajectories : Nat]

Init ==
  /\ mgr = ResetManager
  /\ events = [do_stop |-> FALSE, do_resume |-> FALSE, do_discard |-> FALSE,
               do_ramp_down |-> FALSE, do_static_goal_start |-> FALSE,
               do_static_goal_fast_update |-> FALSE,
               do_static_position_goal_update |-> FALSE,
               do_static_velocity_goal_update |-> FALSE,
               do_static_goal_finish |-> FALSE,
               do_duration_factor_update |-> FALSE, duration_factor |-> 1]
  /\ trj = [has |-> FALSE, current |-> <<>>, primary |-> <<>>, temporary |-> <<>>]
  /\ step = [external |-> NoPoint, internal |-> NoGoal, interpolation |-> NoGoal,
             conditions |-> [op |-> "Normal", dur |-> 0],
             interpolator |-> [op |-> "Normal", dur |-> 0],
             time_passed |-> 0, duration_factor |-> 1]
  /\ active = FALSE
  /\ controller = FALSE
  /\ progress = [has_inputs |-> FALSE, updated |-> FALSE,
                 state |-> <<"Normal", "None">>, goal_active |-> FALSE,
                 pending_trajectories |-> 0]
  /\ added = 0
  /\ sessions = 0

-----------------------------------------------------------------------------
(***************************************************************************)
(* MotionStep: operators on the record step.                               *)
(***************************************************************************)
resetMotionStep(s) ==
  [s EXCEPT !.external = NoPoint, !.internal = NoGoal, !.interpolation = NoGoal,
            !.time_passed = 0]

\* est is what estimateDuration would return; it is used for a point without
\* a duration.
prepareNormalGoal(s, last_point, est) ==
  LET d == Cap(s.duration_factor * (IF s.external.dur = NoDuration
                                      THEN est ELSE s.external.dur))
  IN [s EXCEPT !.internal = [reach |-> s.external.reach \/ last_point, dur |-> d],
               !.conditions = [op |-> "Normal", dur |-> d]]

prepareRampDownGoal(s, do_stop) ==
  [s EXCEPT !.conditions =
     [op |-> "RampDown", dur |-> IF do_stop THEN RAMP_DOWN_STOP_DURATION
                                            ELSE RAMP_DOWN_STOP_DURATION \div 2]]

prepareStaticGoal(s, op, fast_transition) ==
  [s EXCEPT !.internal = s.interpolation,
            !.conditions = [op |-> op, dur |-> IF fast_transition
                                                 THEN STATIC_GOAL_DURATION_SHORT
                                                 ELSE STATIC_GOAL_DURATION]]

interpolationDurationReached(s) ==
  2 * (s.interpolator.dur - s.time_passed) < LOWEST_SAMPLE_TIME

updateInterpolator(s) ==
  [s EXCEPT !.time_passed = 0,
            !.interpolation = [reach |-> s.internal.reach, dur |-> s.conditions.dur],
            !.interpolator = [op |-> s.conditions.op,
                              dur |-> Max({LOWEST_SAMPLE_TIME, s.conditions.dur})]]

\* Mutant of evaluateInterpolator: the time is set, not accumulated.
evaluateInterpolatorSetsTime(s, dt) == [s EXCEPT !.time_passed = dt]

evaluateInterpolator(s, dt) == [s EXCEPT !.time_passed = Cap(@ + dt)]

(***************************************************************************)
(* Goals of the current trajectory.  met is the set of points the feedback *)
(* satisfies.  An operator that changes both the container and the motion  *)
(* step returns a record of the two.                                       *)
(***************************************************************************)
\* Mutant of storeNormalGoal: no lower bound on the remaining duration.
storeNormalGoalUnbounded(t, s) ==
  LET p == [s.external EXCEPT !.dur = s.internal.dur - s.time_passed]
  IN IF t.has
       THEN [trj |-> [t EXCEPT !.current = <<p>> \o @], step |-> [s EXCEPT !.external = p]]
       ELSE [trj |-> t, step |-> s]

storeNormalGoal(t, s) ==
  LET p == [s.external EXCEPT !.dur = Max({LOWEST_SAMPLE_TIME,
                                           s.internal.dur - s.time_passed})]
  IN IF t.has
       THEN [trj |-> [t EXCEPT !.current = <<p>> \o @], step |-> [s EXCEPT !.external = p]]
       ELSE [trj |-> t, step |-> s]

\* Mutant of updateNormalGoal: an exhausted trajectory stays current.
updateNormalGoalKeepsCurrent(t, s, met, est) ==
  LET q       == t.current
      open    == {i \in DOMAIN q : PointId(q[i]) \notin met}
      success == t.has /\ q # <<>> /\ (Head(q).reach => open # {})
      n       == IF ~Head(q).reach THEN 1 ELSE IF open = {} THEN Len(q) ELSE Min(open)
  IN IF t.has /\ q # <<>>
       THEN [trj |-> [t EXCEPT !.current = SubSeq(q, n + 1, Len(q))],
             step |-> prepareNormalGoal([s EXCEPT !.external = q[n]], Len(q) = 1, est),
             success |-> success]
       ELSE [trj |-> t, step |-> s, success |-> FALSE]

\* Mutant of updateNormalGoal: the retrieved point stays in the trajectory.
updateNormalGoalRepeats(t, s, met, est) ==
  LET q       == t.current
      open    == {i \in DOMAIN q : PointId(q[i]) \notin met}
      success == t.has /\ q # <<>> /\ (Head(q).reach => open # {})
      n       == IF ~Head(q).reach THEN 1 ELSE IF open = {} THEN Len(q) ELSE Min(open)
  IN IF t.has /\ q # <<>>
       THEN [trj |-> [t EXCEPT !.has = success, !.current = SubSeq(q, n, Len(q))],
             step |-> prepareNormalGoal([s EXCEPT !.external = q[n]], Len(q) = 1, est),
             success |-> success]
       ELSE [trj |-> [t EXCEPT !.has = FALSE], step |-> s, success |-> FALSE]

\* The loop of the code retrieves points until one is not met already; only a
\* first point that must be reached starts it.  last_point is computed once,
\* before the loop.
updateNormalGoal(t, s, met, est) ==
  LET q       == t.current
      open    == {i \in DOMAIN q : PointId(q[i]) \notin met}
      success == t.has /\ q # <<>> /\ (Head(q).reach => open # {})
      n       == IF ~Head(q).reach THEN 1 ELSE IF open = {} THEN Len(q) ELSE Min(open)
  IN IF t.has /\ q # <<>>
       THEN [trj |-> [t EXCEPT !.has = success, !.current = SubSeq(q, n + 1, Len(q))],
             step |-> prepareNormalGoal([s EXCEPT !.external = q[n]], Len(q) = 1, est),
             success |-> success]
       ELSE [trj |-> [t EXCEPT !.has = FALSE], step |-> s, success |-> FALSE]

\* Mutant of resetTrajectories: the interrupted trajectory goes to the back.
resetTrajectoriesBack(t, s) ==
  IF t.has
    THEN [t EXCEPT !.has = FALSE, !.current = <<>>,
                   !.primary = Append(@, storeNormalGoal(t, s).trj.current)]
    ELSE t

\* The part of resetTrajectoryMotion that concerns the queues.
resetTrajectories(t, s) ==
  IF t.has
    THEN [t EXCEPT !.has = FALSE, !.current = <<>>,
                   !.primary = <<storeNormalGoal(t, s).trj.current>> \o @]
    ELSE t

-----------------------------------------------------------------------------
(***************************************************************************)
(* generateOutputs.  prepared(first, ok) is the object after prepare, for  *)
(* a message that is the first of a session or not and whose states are ok *)
(* or not; an ok message has also installed the pending state.             *)
(***************************************************************************)
inactive == mgr.state = <<"Normal", "None">>

\* Mutant of preparedManager: only the first message of a session activates.
preparedManagerActivatesOnFirst(first, ok) ==
  LET m == IF first \/ (~ok /\ ~inactive) THEN ResetManager ELSE mgr
  IN IF ok THEN updateState(IF first THEN activateStateManager(m) ELSE m) ELSE m

\* Mutant of preparedManager: a reset leaves the pending state set.
preparedManagerKeepsPending(first, ok) ==
  LET m == IF first \/ (~ok /\ ~inactive) THEN [mgr EXCEPT !.state = <<"Normal", "None">>]
                                          ELSE mgr
  IN IF ok THEN updateState(IF m.state = <<"Normal", "None">>
                              THEN activateStateManager(m) ELSE m)
           ELSE m

\* Resets, then activation, then (in generateOutputs) the pending state.
preparedManager(first, ok) ==
  LET m == IF first \/ (~ok /\ ~inactive) THEN ResetManager ELSE mgr
  IN IF ok THEN updateState(IF m.state = <<"Normal", "None">>
                              THEN activateStateManager(m) ELSE m)
           ELSE m

prepared(first, ok) ==
  LET lost  == ~first /\ ~ok /\ ~inactive
      reset == first \/ lost
      t     == IF reset THEN resetTrajectories(trj, step) ELSE trj
  IN [mgr    |-> preparedManager(first, ok),
      trj    |-> IF lost THEN [t EXCEPT !.primary = <<>>, !.temporary = <<>>] ELSE t,
      step   |-> IF reset THEN resetMotionStep(step) ELSE step,
      active |-> active /\ ~reset]

\* The execution progress, recorded at the end of every message.
recordProgress(m, t, has_active_goal) ==
  progress' = [has_inputs |-> TRUE, updated |-> TRUE, state |-> m.state,
               goal_active |-> has_active_goal,
               pending_trajectories |-> IF t.temporary # <<>> THEN Len(t.temporary)
                                                              ELSE Len(t.primary)]

\* A message whose states are not ok: prepare, and the progress.
notOkMessage(first) ==
  LET p == prepared(first, FALSE)
  IN /\ mgr' = p.mgr
     /\ trj' = p.trj
     /\ step' = p.step
     /\ active' = p.active
     /\ recordProgress(p.mgr, p.trj, p.active)
     /\ UNCHANGED <<events, controller, added>>

\* Controller::update, as far as the control depends on it.
controllerUpdate(state, has_new_goal) ==
  IF has_new_goal THEN state = "Normal" ELSE controller

\* The end of an ok message: a new goal updates the interpolator and the
\* controller, an active goal is evaluated.
finish(m, t, s, has_new_goal, has_active_goal, dt) ==
  LET u == IF has_new_goal THEN updateInterpolator(s) ELSE s
  IN /\ mgr' = m
     /\ trj' = t
     /\ step' = IF has_active_goal THEN evaluateInterpolator(u, dt) ELSE u
     /\ active' = has_active_goal
     /\ controller' = controllerUpdate(m.state[1], has_new_goal)
     /\ recordProgress(m, t, has_active_goal)
     /\ UNCHANGED added

(***************************************************************************)
(* The process functions.  p is the prepared object; one action per sub    *)
(* state that is not marked "Should never occur".                          *)
(***************************************************************************)
normalRunning(p, met, est, dt) ==
  LET start   == ~p.trj.has /\ p.trj.primary # <<>>
      advance == /\ p.trj.has
                 /\ interpolationDurationReached(p.step)
                 /\ p.step.internal.reach => PointId(p.step.external) \in met
      t       == IF start THEN [p.trj EXCEPT !.has = TRUE, !.current = Head(p.trj.primary),
                                             !.primary = Tail(@)]
                          ELSE p.trj
      g       == updateNormalGoal(t, p.step, met, est)
  IN /\ p.mgr.state = <<"Normal", "Running">>
     /\ \/ /\ events.do_ramp_down
           /\ finish(setPendingState(p.mgr, <<"RampDown", "None">>),
                     p.trj, p.step, FALSE, p.active, dt)
        \/ /\ ~events.do_ramp_down /\ (start \/ advance)
           /\ finish(p.mgr, g.trj, g.step, g.success, g.success, dt)
        \/ /\ ~events.do_ramp_down /\ ~start /\ ~advance
           /\ finish(p.mgr, p.trj, p.step, FALSE, p.active, dt)
     /\ UNCHANGED events

\* Mutant of rampDownNone: the interrupted goal is not stored.
rampDownNoneForgets(p, dt) ==
  /\ p.mgr.state = <<"RampDown", "None">>
  /\ finish(setPendingState(p.mgr, <<"RampDown", "Running">>),
            p.trj, prepareRampDownGoal(p.step, events.do_stop), TRUE, TRUE, dt)
  /\ UNCHANGED events

rampDownNone(p, dt) ==
  LET s == prepareRampDownGoal(p.step, events.do_stop)
      g == IF p.active THEN storeNormalGoal(p.trj, s) ELSE [trj |-> p.trj, step |-> s]
  IN /\ p.mgr.state = <<"RampDown", "None">>
     /\ finish(setPendingState(p.mgr, <<"RampDown", "Running">>),
               g.trj, g.step, TRUE, TRUE, dt)
     /\ UNCHANGED events

rampDownRunning(p, dt) ==
  /\ p.mgr.state = <<"RampDown", "Running">>
  /\ finish(IF interpolationDurationReached(p.step)
              THEN setPendingState(p.mgr, <<"RampDown", "Finished">>) ELSE p.mgr,
            p.trj, p.step, FALSE, p.active, dt)
  /\ UNCHANGED events

\* The duration factor and the discard are handled first, in this order.
rampDownFinished(p, met, est, dt) ==
  LET s == IF events.do_duration_factor_update
             THEN [p.step EXCEPT !.duration_factor = events.duration_factor] ELSE p.step
      t == IF events.do_discard
             THEN [has |-> FALSE, current |-> <<>>, primary |-> p.trj.temporary,
                   temporary |-> <<>>]
             ELSE p.trj
      e == [events EXCEPT !.do_duration_factor_update = FALSE, !.do_discard = FALSE]
      g == updateNormalGoal(t, s, met, est)
      toNormal == finish(setPendingState(p.mgr, <<"Normal", "Running">>),
                         g.trj, g.step, g.success, g.success, dt)
  IN /\ p.mgr.state = <<"RampDown", "Finished">>
     /\ \/ /\ events.do_stop /\ ~events.do_resume
           /\ finish(p.mgr, t, s, FALSE, p.active, dt)
           /\ events' = e
        \/ /\ events.do_stop /\ events.do_resume
           /\ IF events.do_static_goal_start
                THEN finish(setPendingState(p.mgr, <<"StaticGoal", "None">>),
                            t, s, FALSE, p.active, dt)
                ELSE toNormal
           /\ events' = [e EXCEPT !.do_ramp_down = FALSE, !.do_stop = FALSE,
                                  !.do_resume = FALSE]
        \/ /\ ~events.do_stop
           /\ toNormal
           /\ events' = [e EXCEPT !.do_ramp_down = FALSE]

\* Mutant of staticGoalNone: the ramp down goal stays active.
staticGoalNoneKeepsGoal(p, dt) ==
  /\ p.mgr.state = <<"StaticGoal", "None">>
  /\ finish(setPendingState(p.mgr, <<"StaticGoal", "Running">>),
            IF p.trj.has THEN [p.trj EXCEPT !.has = FALSE, !.current = <<>>,
                                            !.primary = <<p.trj.current>> \o @]
                         ELSE p.trj,
            p.step, FALSE, p.active, dt)
  /\ UNCHANGED events

staticGoalNone(p, dt) ==
  /\ p.mgr.state = <<"StaticGoal", "None">>
  /\ finish(setPendingState(p.mgr, <<"StaticGoal", "Running">>),
            IF p.trj.has THEN [p.trj EXCEPT !.has = FALSE, !.current = <<>>,
                                            !.primary = <<p.trj.current>> \o @]
                         ELSE p.trj,
            p.step, FALSE, FALSE, dt)
  /\ UNCHANGED events

staticGoalRunning(p, dt) ==
  LET position == events.do_static_position_goal_update /\ ~events.do_ramp_down
      velocity == ~position /\ events.do_static_velocity_goal_update /\ ~events.do_ramp_down
      update   == position \/ velocity
      m == CASE events.do_static_goal_finish -> setPendingState(p.mgr, <<"StaticGoal", "Finished">>)
             [] ~events.do_static_goal_finish /\ events.do_ramp_down
                  -> setPendingState(p.mgr, <<"RampDown", "None">>)
             [] OTHER -> p.mgr
      s == IF update THEN prepareStaticGoal(p.step, IF position THEN "RampInPosition"
                                                                ELSE "RampInVelocity",
                                            events.do_static_goal_fast_update)
                     ELSE p.step
  IN /\ p.mgr.state = <<"StaticGoal", "Running">>
     /\ finish(m, p.trj, s, update, p.active \/ update, dt)
     /\ events' = [events EXCEPT !.do_static_position_goal_update = @ /\ ~position,
                                 !.do_static_velocity_goal_update = @ /\ ~velocity]

staticGoalFinished(p, dt) ==
  /\ p.mgr.state = <<"StaticGoal", "Finished">>
  /\ finish(setPendingState(p.mgr, <<"RampDown", "None">>),
            p.trj, p.step, FALSE, p.active, dt)
  /\ events' = [events EXCEPT !.do_static_goal_start = FALSE, !.do_static_goal_finish = FALSE,
                              !.do_static_position_goal_update = FALSE,
                              !.do_static_velocity_goal_update = FALSE,
                              !.do_ramp_down = TRUE, !.do_stop = TRUE]

okMessage(first, met, est, dt) ==
  LET p == prepared(first, TRUE)
  IN \/ normalRunning(p, met, est, dt)
     \/ rampDownNone(p, dt)
     \/ rampDownRunning(p, dt)
     \/ rampDownFinished(p, met, est, dt)
     \/ staticGoalNone(p, dt)
     \/ staticGoalRunning(p, dt)
     \/ staticGoalFinished(p, dt)

-----------------------------------------------------------------------------
(***************************************************************************)
(* User commands.  A rejected command changes nothing and returns false,   *)
(* so only the accepted ones are actions; verifyState is their guard.      *)
(***************************************************************************)
issued(command, required) == command \in Commands /\ mgr.state = required

commandFrame == UNCHANGED <<mgr, step, active, controller, progress, sessions>>

addTrajectory(goal, override_trajectories) ==
  LET n      == added + 1
      points == [i \in DOMAIN goal |-> [traj |-> n, left |-> Len(goal) - i,
                                        reach |-> goal[i].reach, dur |-> goal[i].dur]]
  IN /\ issued("addTrajectory", <<"Normal", "Running">>)
     /\ added < MaxTrajectories
     /\ added' = n
     /\ \/ /\ override_trajectories
           /\ trj' = [trj EXCEPT !.temporary = <<points>>]
           /\ events' = [events EXCEPT !.do_ramp_down = TRUE, !.do_stop = TRUE,
                                       !.do_discard = TRUE, !.do_resume = TRUE]
        \/ /\ ~override_trajectories
           /\ trj' = IF events.do_discard
                       THEN [trj EXCEPT !.temporary = Append(@, points)]
                       ELSE [trj EXCEPT !.primary = Append(@, points)]
           /\ UNCHANGED events
     /\ commandFrame

stopTrajectory(discard_trajectories) ==
  /\ issued("stopTrajectory", <<"Normal", "Running">>)
  /\ events' = [events EXCEPT !.do_ramp_down = TRUE, !.do_stop = TRUE,
                              !.do_discard = discard_trajectories]
  /\ commandFrame
  /\ UNCHANGED <<trj, added>>

resumeTrajectory ==
  /\ issued("resumeTrajectory", <<"RampDown", "Finished">>)
  /\ events' = [events EXCEPT !.do_resume = TRUE]
  /\ commandFrame
  /\ UNCHANGED <<trj, added>>

saturate(x, lo, hi) == Max({lo, Min({x, hi})})

updateDurationFactor(factor) ==
  /\ issued("updateDurationFactor", <<"Normal", "Running">>)
  /\ events' = [events EXCEPT !.do_ramp_down = TRUE, !.do_duration_factor_update = TRUE,
                              !.duration_factor = saturate(factor, DURATION_FACTOR_MIN,
                                                                   DURATION_FACTOR_MAX)]
  /\ commandFrame
  /\ UNCHANGED <<trj, added>>

startStaticGoal(discard_trajectories) ==
  /\ issued("startStaticGoal", <<"Normal", "Running">>)
  /\ events' = [events EXCEPT !.do_ramp_down = TRUE, !.do_stop = TRUE,
                              !.do_discard = discard_trajectories, !.do_resume = TRUE,
                              !.do_static_goal_start = TRUE]
  /\ commandFrame
  /\ UNCHANGED <<trj, added>>

\* The two overloads of setStaticGoal: kind is "position" or "velocity".
setStaticGoal(kind, fast_transition) ==
  /\ issued("setStaticGoal", <<"StaticGoal", "Running">>)
  /\ events' = [events EXCEPT !.do_ramp_down = ~fast_transition,
                              !.do_stop = ~fast_transition, !.do_resume = TRUE,
                              !.do_static_goal_fast_update = fast_transition,
                              !.do_static_position_goal_update = (kind = "position"),
                              !.do_static_velocity_goal_update = (kind = "velocity")]
  /\ commandFrame
  /\ UNCHANGED <<trj, added>>

finishStaticGoal(resume) ==
  /\ issued("finishStaticGoal", <<"StaticGoal", "Running">>)
  /\ events' = [events EXCEPT !.do_static_goal_finish = TRUE, !.do_resume = resume]
  /\ commandFrame
  /\ UNCHANGED <<trj, added>>

retrieveExecutionProgress ==
  /\ "retrieveExecutionProgress" \in Commands
  /\ progress.has_inputs
  /\ progress' = [progress EXCEPT !.updated = FALSE]
  /\ UNCHANGED <<mgr, events, trj, step, active, controller, added, sessions>>

-----------------------------------------------------------------------------
\* Points whose position can matter for a message: the current goal, the rest
\* of the current trajectory, and the next trajectory.
goalIds ==
  {PointId(step.external)}
    \cup {PointId(trj.current[i]) : i \in DOMAIN trj.current}
    \cup (IF trj.primary = <<>> THEN {}
          ELSE {PointId(Head(trj.primary)[i]) : i \in DOMAIN Head(trj.primary)})

\* InputContainer::isFirstMessage: the very first message, and any message
\* that starts a new session.
isFirstMessage(first) ==
  /\ IF first THEN sessions < MaxSessions ELSE sessions > 0
  /\ sessions' = IF first THEN sessions + 1 ELSE sessions

NotOkMessage == \E first \in BOOLEAN : isFirstMessage(first) /\ notOkMessage(first)

OkMessage(met) ==
  \E first \in BOOLEAN, est \in Estimates, dt \in SampleTimes :
    isFirstMessage(first) /\ okMessage(first, met, est, dt)

Command ==
  \/ \E goal \in TrajectoryGoals, o \in BOOLEAN : addTrajectory(goal, o)
  \/ \E d \in BOOLEAN : stopTrajectory(d)
  \/ resumeTrajectory
  \/ \E f \in Factors : updateDurationFactor(f)
  \/ \E d \in BOOLEAN : startStaticGoal(d)
  \/ \E k \in {"position", "velocity"}, fast \in BOOLEAN : setStaticGoal(k, fast)
  \/ \E r \in BOOLEAN : finishStaticGoal(r)
  \/ retrieveExecutionProgress

Next ==
  \/ NotOkMessage
  \/ \E met \in SUBSET goalIds : OkMessage(met)
  \/ Command

Spec == Init /\ [][Next]_vars

-----------------------------------------------------------------------------
(***************************************************************************)
(* Properties.                                                             *)
(***************************************************************************)

\* Every variable has the type of the member it stands for; in particular no
\* stored duration is negative, and none is zero that a user did not give.
TypeOK ==
  /\ mgr \in Managers
  /\ events \in PendingEvents
  /\ trj \in TrajectoryContainers
  /\ step \in MotionSteps
  /\ active \in BOOLEAN
  /\ controller \in BOOLEAN
  /\ progress \in Progress
  /\ added \in Nat
  /\ sessions \in Nat

\* An ok message never finds the interface in Normal/None or Normal/Finished,
\* the cases that processNormalState and setPendingState mark "Should never
\* occur".
ShouldNeverOccur ==
  preparedManager(FALSE, TRUE).state \notin {<<"Normal", "None">>, <<"Normal", "Finished">>}

\* The pairs that only prepare the next one last for a single message: the
\* transition their handler asks for was accepted by setPendingState.
TransientStatesMoveOn ==
  mgr.state \in {<<"RampDown", "None">>, <<"StaticGoal", "None">>, <<"StaticGoal", "Finished">>}
    => mgr.pending # NoPending

\* The state whose goal is being executed: processRampDownState prepares the
\* goal of the normal state one message before that state is entered.
executed == IF mgr.pending = <<"Normal", "Running">> THEN "Normal" ELSE mgr.state[1]

\* The operation each state asks of the interpolator.
operationsOf ==
  [x \in States |-> CASE x = "Normal"     -> {"Normal"}
                      [] x = "RampDown"   -> {"RampDown"}
                      [] x = "StaticGoal" -> {"RampInPosition", "RampInVelocity"}]

\* While a goal is active, the interpolator that generates the outputs was
\* updated for the state that is being executed, never for an earlier one.
InterpolationFitsState == active => step.interpolator.op \in operationsOf[executed]

\* has_active_goal and p_current agree: a normal goal belongs to a current
\* trajectory and a current trajectory has a goal, a ramp down always has a
\* goal, and no trajectory stays current while a static goal is followed.
GoalHasTrajectory ==
  /\ executed = "Normal" => (trj.has <=> active)
  /\ executed = "RampDown" => active
  /\ executed = "StaticGoal" => ~trj.has

\* During a ramp down the interrupted goal waits at the front of the current
\* trajectory, so that a resume continues with it.
InterruptedGoalKept ==
  executed = "RampDown" /\ trj.has
    => trj.current # <<>> /\ Head(trj.current) = step.external

\* What is left to execute, in order.
executionQueue == (IF trj.has THEN <<trj.current>> ELSE <<>>) \o trj.primary

\* q is a tail of one trajectory: its points are in order and none is missing up
\* to the last one.  A session that restarts during a ramp down stores the
\* interrupted point, which the ramp down has stored already, once more: the
\* first point of the tail may be repeated then.
remainder(q) ==
  /\ \A i \in DOMAIN q : q[i].traj = q[1].traj
  /\ \A i \in 2 .. Len(q) :
       \/ q[i].left = q[i - 1].left - 1
       \/ sessions > 1 /\ \A k \in 1 .. i : q[k].left = q[1].left
  /\ q # <<>> => q[Len(q)].left = 0

\* Stops, ramp downs, static goals, discards and restarts leave of every queued
\* trajectory a tail, and the goal being executed is the point before the tail
\* that is left of its trajectory.
TrajectoriesIntact ==
  /\ \A i \in DOMAIN executionQueue : remainder(executionQueue[i])
  /\ \A i \in DOMAIN trj.temporary : remainder(trj.temporary[i])
  /\ executed = "Normal" /\ active => remainder(<<step.external>> \o trj.current)

\* The ramp out of velocity references (Controller) is never applied to a ramp
\* down or to a static goal.
RampOutOnlyForNormalGoals == active /\ controller => executed = "Normal"

\* A stop, duration or static goal command that was accepted leads to a
\* finished ramp down, unless the session ends.
RampDownCompletes ==
  (mgr.state = <<"Normal", "Running">> /\ events.do_ramp_down)
    ~> (mgr.state = <<"RampDown", "Finished">> \/ inactive)

\* A stopped interface that was told to resume leaves the ramp down state.
ResumeTakesEffect ==
  (mgr.state = <<"RampDown", "Finished">> /\ events.do_stop /\ events.do_resume)
    ~> (mgr.state \in {<<"Normal", "Running">>, <<"StaticGoal", "Running">>} \/ inactive)

\* What a user sees of the states follows ExecutionStates: no message or
\* command makes a jump that its graph does not have, although pending states
\* may be replaced by commands, resets and new sessions before they are
\* installed.
ExecutionStates == INSTANCE ExecutionStates WITH state <- mgr.state
FollowsExecutionStates == ExecutionStates!Spec

\* Under the fairness assumption ramp downs and static goals also proceed.
FairlyFollowsExecutionStates == ExecutionStates!FairSpec

\* The last point of a trajectory is prepared as such (prepareNormalGoal:
\* "Reset velocity and acceleration values, if it is the last point in the
\* current trajectory"): it has to be reached.  It is not when the point before it is skipped.
LastPointIsReached ==
  executed = "Normal" /\ active /\ trj.current = <<>> => step.internal.reach
=============================================================================
