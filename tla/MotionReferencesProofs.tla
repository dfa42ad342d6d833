----------------------- MODULE MotionReferencesProofs -----------------------
(***************************************************************************)
(* The references that are sent: what is sent when the duration of a goal  *)
(* has passed, and which numbers may become invalid.                       *)
(***************************************************************************)
EXTENDS MotionReferences, TrajectoryMotionProofs

(***************************************************************************)
(* The control that the references depend on: times and durations.         *)
(***************************************************************************)

\* An active goal: time has passed, and a ramp down ends before times saturate.
TimeInv ==
  active => /\ step.time_passed > 0
            /\ step.interpolator.op = "RampDown" => step.interpolator.dur <= MaxDuration

\* A ramp down that is ordered to stop has the duration of a stop, since the
\* order cannot come or go while the ramp down lasts; a ramp down that is called
\* finished has lasted as long as it should.
StopInv ==
  executed = "RampDown" =>
    /\ events.do_stop => step.interpolation.dur = RAMP_DOWN_STOP_DURATION
    /\ <<"RampDown", "Finished">> \in {mgr.state, mgr.pending}
         => step.time_passed >= step.interpolator.dur

\* A message that is dispatched on the state takes a new goal ...
Taken(state, dt) ==
  /\ active'
  /\ step'.time_passed = dt
  /\ step'.interpolator.op = "RampDown" => step'.interpolator.dur <= MaxDuration
  /\ step'.interpolator.op = "Normal" => controller' \/ state = "RampDown"

\* ... or continues with the goal that the prepared object p has, if any.
Continued(p, dt) ==
  /\ step'.external = p.step.external
  /\ step'.interpolator = p.step.interpolator
  /\ step'.interpolation = p.step.interpolation
  /\ active' => p.active /\ step'.time_passed = Cap(p.step.time_passed + dt)
  /\ controller' = controller

Outcome(p, dt) == ~active' \/ Taken(p.mgr.state[1], dt) \/ Continued(p, dt)

\* What a process function relies on: the same invariants about the prepared
\* object p.
Timed(p) ==
  /\ p.active => p.step.time_passed > 0
  /\ p.active /\ p.step.interpolator.op = "RampDown" => p.step.interpolator.dur <= MaxDuration
  /\ p.mgr.state \in {<<"RampDown", "Running">>, <<"RampDown", "Finished">>}
       => (events.do_stop => p.step.interpolation.dur = RAMP_DOWN_STOP_DURATION)
  /\ p.mgr.state = <<"RampDown", "Finished">>
       => p.step.time_passed >= p.step.interpolator.dur

\* Times and the bound at which they saturate.
LEMMA CapFacts ==
  ASSUME NEW x \in Nat, NEW dt \in SampleTimes
  PROVE  /\ dt \in Nat /\ dt > 0
         /\ Cap(0 + dt) = dt
         /\ x > 0 => Cap(x + dt) # dt
         /\ Cap(x + dt) > 0
         /\ \A d \in Nat : d <= MaxDuration /\ x >= d => Cap(x + dt) >= d
         /\ \A d \in Nat : d <= MaxDuration /\ 2 * (d - x) < LOWEST_SAMPLE_TIME
                             => Cap(x + dt) >= d
<1>1. /\ dt \in Nat
      /\ dt >= LOWEST_SAMPLE_TIME
      /\ dt < MaxDuration
      /\ LOWEST_SAMPLE_TIME \in Nat
      /\ LOWEST_SAMPLE_TIME # 0
      /\ MaxDuration \in Nat
  BY ConstantsAssumption, BoundAssumption
<1>. QED
  BY <1>1 DEF Cap

\* The end of a message with a new goal.
LEMMA FinishTaken ==
  ASSUME NEW m \in Managers, NEW t \in TrajectoryContainers, NEW s \in MotionSteps,
         NEW dt \in SampleTimes, finish(m, t, s, TRUE, TRUE, dt)
  PROVE  /\ mgr' = m
         /\ active' = TRUE
         /\ step'.time_passed = dt
         /\ step'.interpolator.op = s.conditions.op
         /\ step'.interpolator.dur = Max({LOWEST_SAMPLE_TIME, s.conditions.dur})
         /\ step'.interpolation.dur = s.conditions.dur
         /\ m.state[1] = "Normal" => controller'
<1>. DEFINE d == Max({LOWEST_SAMPLE_TIME, s.conditions.dur})
            u == updateInterpolator(s)
<1>1. /\ u.time_passed = 0
      /\ u.interpolator.op = s.conditions.op
      /\ u.interpolator.dur = d
      /\ u.interpolation.dur = s.conditions.dur
  <2>. HIDE DEF d
  <2>1. u = [s EXCEPT !.time_passed = 0,
                      !.interpolation = [reach |-> s.internal.reach, dur |-> s.conditions.dur],
                      !.interpolator = [op |-> s.conditions.op, dur |-> d]]
    BY DEF updateInterpolator, d
  <2>. QED
    BY <2>1 DEF MotionSteps
<1>2. u \in MotionSteps
  BY MotionStepType
<1>3. mgr' = m /\ active' = TRUE /\ step' = evaluateInterpolator(u, dt)
  BY DEF finish
<1>. HIDE DEF u, d
<1>4. /\ step'.time_passed = Cap(0 + dt)
      /\ step'.interpolator = u.interpolator
      /\ step'.interpolation = u.interpolation
  BY <1>1, <1>2, <1>3 DEF evaluateInterpolator, MotionSteps
<1>5. Cap(0 + dt) = dt
  BY CapFacts
<1>6. m.state[1] = "Normal" => controller'
  BY DEF finish, controllerUpdate
<1>. QED
  BY <1>1, <1>3, <1>4, <1>5, <1>6 DEF d

\* The end of a message without one.
LEMMA FinishContinued ==
  ASSUME NEW m \in Managers, NEW t \in TrajectoryContainers, NEW s \in MotionSteps,
         NEW a \in BOOLEAN, NEW dt \in SampleTimes, finish(m, t, s, FALSE, a, dt)
  PROVE  /\ mgr' = m
         /\ active' = a
         /\ step'.external = s.external
         /\ step'.interpolator = s.interpolator
         /\ step'.interpolation = s.interpolation
         /\ a => step'.time_passed = Cap(s.time_passed + dt)
         /\ controller' = controller
<1>1. /\ mgr' = m
      /\ active' = a
      /\ step' = IF a THEN evaluateInterpolator(s, dt) ELSE s
      /\ controller' = controller
  BY DEF finish, controllerUpdate
<1>. QED
  BY <1>1 DEF evaluateInterpolator, MotionSteps

\* A message that asks for the next normal goal takes it or has none.
LEMMA NormalGoalTaken ==
  ASSUME NEW m \in Managers, m.state[1] \in {"Normal", "RampDown"},
         NEW t \in TrajectoryContainers, NEW s \in MotionSteps, NEW met,
         NEW est \in Estimates, NEW dt \in SampleTimes,
         finish(m, updateNormalGoal(t, s, met, est).trj, updateNormalGoal(t, s, met, est).step,
                updateNormalGoal(t, s, met, est).success,
                updateNormalGoal(t, s, met, est).success, dt)
  PROVE  mgr' = m /\ (~active' \/ Taken(m.state[1], dt))
<1>. DEFINE g == updateNormalGoal(t, s, met, est)
            gt == g.trj
            gs == g.step
            success == g.success
<1>1. finish(m, gt, gs, success, success, dt)
  OBVIOUS
<1>2. /\ gt \in TrajectoryContainers
      /\ gs \in MotionSteps
      /\ success \in BOOLEAN
      /\ success => gs.conditions.op = "Normal"
  BY ConstantsAssumption, UpdateNormalGoalType
<1>. HIDE DEF g, gt, gs, success
<1>3. CASE success
  <2>1. finish(m, gt, gs, TRUE, TRUE, dt)
    BY <1>1, <1>2, <1>3, Zenon
  <2>2. /\ mgr' = m
        /\ active' = TRUE
        /\ step'.time_passed = dt
        /\ step'.interpolator.op = gs.conditions.op
        /\ m.state[1] = "Normal" => controller'
    BY <1>2, <2>1, FinishTaken, Zenon
  <2>. QED
    BY <1>2, <1>3, <2>2 DEF Taken
<1>4. CASE ~success
  BY <1>1, <1>4 DEF finish
<1>. QED
  BY <1>3, <1>4

\* A message that asks for none continues with the one it has.
LEMMA GoalContinued ==
  ASSUME NEW p \in PreparedObjects, NEW m \in Managers, NEW t \in TrajectoryContainers,
         NEW s \in MotionSteps, NEW dt \in SampleTimes,
         s.external = p.step.external, s.interpolator = p.step.interpolator,
         s.interpolation = p.step.interpolation, s.time_passed = p.step.time_passed,
         finish(m, t, s, FALSE, p.active, dt)
  PROVE  mgr' = m /\ active' = p.active /\ Continued(p, dt)
<1>. DEFINE a == p.active
<1>1. a \in BOOLEAN /\ finish(m, t, s, FALSE, a, dt)
  BY ObjectParts, Zenon
<1>. HIDE DEF a
<1>2. /\ mgr' = m
      /\ active' = a
      /\ step'.external = s.external
      /\ step'.interpolator = s.interpolator
      /\ step'.interpolation = s.interpolation
      /\ a => step'.time_passed = Cap(s.time_passed + dt)
      /\ controller' = controller
  BY <1>1, FinishContinued, Zenon
<1>. QED
  BY <1>2 DEF Continued, a

\* The same for an object whose motion step is not changed.
LEMMA StepContinued ==
  ASSUME NEW p \in PreparedObjects, NEW m \in Managers, NEW t \in TrajectoryContainers,
         NEW dt \in SampleTimes, finish(m, t, p.step, FALSE, p.active, dt)
  PROVE  mgr' = m /\ active' = p.active /\ Continued(p, dt)
<1>1. p.step \in MotionSteps
  BY ObjectParts
<1>. QED
  BY <1>1, GoalContinued, Zenon
(***************************************************************************)
(* The process functions, one lemma each: what becomes of the goal, and    *)
(* the invariant of stops.                                                 *)
(***************************************************************************)

\* A message that does not leave a ramp down executed.
LEMMA NotRampDown ==
  ASSUME NEW m \in Managers, mgr' = m,
         m.pending = <<"Normal", "Running">> \/ m.state[1] # "RampDown"
  PROVE  StopInv'
<1>1. executed' # "RampDown"
  BY ExecutedNext
<1>. QED
  BY <1>1 DEF StopInv

\* Normal, Running: the goal goes on, the next one is taken, or there is none.
LEMMA NormalRunningOutcome ==
  ASSUME TypeOK, NEW p \in PreparedObjects, Incoming(p), NEW met,
         NEW est \in Estimates, NEW dt \in SampleTimes, normalRunning(p, met, est, dt)
  PROVE  Outcome(p, dt) /\ StopInv'
<1>. DEFINE start == ~p.trj.has /\ p.trj.primary # <<>>
            t == IF start THEN [p.trj EXCEPT !.has = TRUE, !.current = Head(p.trj.primary),
                                             !.primary = Tail(@)]
                          ELSE p.trj
            g == updateNormalGoal(t, p.step, met, est)
            m == setPendingState(p.mgr, <<"RampDown", "None">>)
<1>1. p.mgr.state = <<"Normal", "Running">>
  BY DEF normalRunning
<1>2. p.mgr.pending = NoPending
  BY DEF Incoming
<1>3. t \in TrajectoryContainers
  BY ObjectParts, PopTrajectoryType, Zenon
<1>4. \/ finish(m, p.trj, p.step, FALSE, p.active, dt)
      \/ finish(p.mgr, g.trj, g.step, g.success, g.success, dt)
      \/ finish(p.mgr, p.trj, p.step, FALSE, p.active, dt)
  BY Zenon DEF normalRunning
<1>. HIDE DEF t
<1>5. m \in Managers /\ m.state = p.mgr.state
  BY <1>2, ObjectParts, SetPendingStateFresh DEF StatePairs, States, SubStates
<1>. HIDE DEF m
<1>6. CASE finish(m, p.trj, p.step, FALSE, p.active, dt)
  <2>1. mgr' = m /\ Continued(p, dt)
    BY <1>5, <1>6, ObjectParts, StepContinued, Zenon
  <2>. QED
    BY <1>1, <1>5, <2>1, NotRampDown DEF Outcome
<1>7. CASE finish(p.mgr, g.trj, g.step, g.success, g.success, dt)
  <2>1. p.mgr.state[1] \in {"Normal", "RampDown"}
    BY <1>1
  <2>2. mgr' = p.mgr /\ (~active' \/ Taken(p.mgr.state[1], dt))
    BY <1>3, <1>7, <2>1, ObjectParts, NormalGoalTaken, Zenon
  <2>. QED
    BY <1>1, <2>2, ObjectParts, NotRampDown DEF Outcome
<1>8. CASE finish(p.mgr, p.trj, p.step, FALSE, p.active, dt)
  <2>1. mgr' = p.mgr /\ Continued(p, dt)
    BY <1>8, ObjectParts, StepContinued, Zenon
  <2>. QED
    BY <1>1, <2>1, ObjectParts, NotRampDown DEF Outcome
<1>. QED
  BY <1>4, <1>6, <1>7, <1>8, Zenon

\* A ramp down that begins has the duration that the order to stop asks for.
LEMMA RampDownNoneOutcome ==
  ASSUME TypeOK, NEW p \in PreparedObjects, Incoming(p), NEW dt \in SampleTimes,
         rampDownNone(p, dt)
  PROVE  Outcome(p, dt) /\ StopInv'
<1>. DEFINE stop == events.do_stop
            s == prepareRampDownGoal(p.step, stop)
            g == IF p.active THEN storeNormalGoal(p.trj, s) ELSE [trj |-> p.trj, step |-> s]
            gt == g.trj
            gs == g.step
            m == setPendingState(p.mgr, <<"RampDown", "Running">>)
            d == IF stop THEN RAMP_DOWN_STOP_DURATION ELSE RAMP_DOWN_STOP_DURATION \div 2
<1>1. p.mgr.state = <<"RampDown", "None">> /\ events' = events
  BY DEF rampDownNone
<1>2. p.mgr.pending = NoPending /\ stop \in BOOLEAN
  BY DEF Incoming, TypeOK, PendingEvents
<1>3. s \in MotionSteps
  BY <1>2, ObjectParts, MotionStepType, Zenon
<1>4. s.conditions = [op |-> "RampDown", dur |-> d]
  BY ObjectParts DEF prepareRampDownGoal, MotionSteps
<1>. HIDE DEF s
<1>5. gt \in TrajectoryContainers /\ gs \in MotionSteps /\ gs.conditions = s.conditions
  BY <1>3, ObjectParts, StoreType, StoreEffect
<1>6. finish(m, gt, gs, TRUE, TRUE, dt)
  BY Zenon DEF rampDownNone, s
<1>7. /\ m \in Managers
      /\ m.state = <<"RampDown", "None">>
      /\ m.pending \in {NoPending, <<"RampDown", "Running">>}
  BY <1>1, <1>2, ObjectParts, SetPendingStateFresh DEF StatePairs, States, SubStates
<1>. HIDE DEF m, g, gt, gs
<1>8. /\ mgr' = m
      /\ active' = TRUE
      /\ step'.time_passed = dt
      /\ step'.interpolator.op = gs.conditions.op
      /\ step'.interpolator.dur = Max({LOWEST_SAMPLE_TIME, gs.conditions.dur})
      /\ step'.interpolation.dur = gs.conditions.dur
  BY <1>5, <1>6, <1>7, FinishTaken, Zenon
<1>9. /\ d \in Nat
      /\ d <= MaxDuration
      /\ stop => d = RAMP_DOWN_STOP_DURATION
  BY DurationTypes, BoundAssumption
<1>. HIDE DEF d
<1>10. Max({LOWEST_SAMPLE_TIME, d}) <= MaxDuration
  <2>1. LOWEST_SAMPLE_TIME \in Int /\ d \in Int /\ LOWEST_SAMPLE_TIME <= MaxDuration
    BY <1>9, DurationTypes, ConstantsAssumption
  <2>2. Max({LOWEST_SAMPLE_TIME, d}) \in {LOWEST_SAMPLE_TIME, d}
    BY <2>1, MaxOfTwo, Zenon
  <2>. QED
    BY <1>9, <2>1, <2>2
<1>11. Taken(p.mgr.state[1], dt)
  BY <1>4, <1>5, <1>8, <1>10 DEF Taken
<1>12. StopInv'
  BY <1>1, <1>4, <1>5, <1>7, <1>8, <1>9 DEF StopInv, NoPending
<1>. QED
  BY <1>11, <1>12 DEF Outcome

\* A ramp down is called finished when its time is up within half a sample, so
\* that it is up when the message has been evaluated.
LEMMA RampDownRunningOutcome ==
  ASSUME TypeOK, NEW p \in PreparedObjects, Incoming(p), Timed(p), NEW dt \in SampleTimes,
         rampDownRunning(p, dt)
  PROVE  Outcome(p, dt) /\ StopInv'
<1>. DEFINE m == IF interpolationDurationReached(p.step)
                   THEN setPendingState(p.mgr, <<"RampDown", "Finished">>) ELSE p.mgr
            d == p.step.interpolator.dur
            x == p.step.time_passed
<1>1. /\ p.mgr.state = <<"RampDown", "Running">>
      /\ events' = events
      /\ finish(m, p.trj, p.step, FALSE, p.active, dt)
  BY Zenon DEF rampDownRunning
<1>2. p.mgr.pending = NoPending /\ FitsObject(p, "RampDown")
  BY <1>1 DEF Incoming
<1>3. p.active /\ p.step.interpolator.op = "RampDown"
  BY <1>2, OperationsTable DEF FitsObject
<1>4. /\ m \in Managers
      /\ m.state = p.mgr.state
      /\ m.pending # <<"Normal", "Running">>
      /\ m.pending = <<"RampDown", "Finished">> => 2 * (d - x) < LOWEST_SAMPLE_TIME
  <2>. DEFINE y == setPendingState(p.mgr, <<"RampDown", "Finished">>)
  <2>1. y \in Managers /\ y.state = p.mgr.state /\ y.pending \in {NoPending, <<"RampDown", "Finished">>}
    BY <1>2, ObjectParts, SetPendingStateFresh DEF StatePairs, States, SubStates
  <2>. HIDE DEF y
  <2>2. m = IF 2 * (d - x) < LOWEST_SAMPLE_TIME THEN y ELSE p.mgr
    BY DEF interpolationDurationReached, y
  <2>. HIDE DEF m, d, x
  <2>. QED
    BY <1>2, <2>1, <2>2, ObjectParts DEF NoPending
<1>. HIDE DEF m
<1>5. mgr' = m /\ active' = p.active /\ Continued(p, dt)
  BY <1>1, <1>4, ObjectParts, StepContinued, Zenon
<1>6. events.do_stop => p.step.interpolation.dur = RAMP_DOWN_STOP_DURATION
  BY <1>1 DEF Timed
<1>7. d \in Nat /\ x \in Nat /\ d <= MaxDuration
  BY <1>3, ObjectParts DEF Timed, MotionSteps
<1>8. /\ step'.interpolator.dur = d
      /\ step'.time_passed = Cap(x + dt)
      /\ step'.interpolation = p.step.interpolation
  BY <1>3, <1>5 DEF Continued
<1>. HIDE DEF d, x
<1>9. <<"RampDown", "Finished">> \in {m.state, m.pending} => Cap(x + dt) >= d
  <2>1. <<"RampDown", "Finished">> \in {m.state, m.pending} => 2 * (d - x) < LOWEST_SAMPLE_TIME
    BY <1>1, <1>4
  <2>. QED
    BY <1>7, <2>1, CapFacts, Zenon
<1>10. StopInv'
  BY <1>1, <1>5, <1>6, <1>8, <1>9 DEF StopInv
<1>. QED
  BY <1>5, <1>10 DEF Outcome

\* A finished ramp down stays so; the order to stop is withdrawn only when
\* another goal is prepared.
LEMMA RampDownFinishedOutcome ==
  ASSUME TypeOK, NEW p \in PreparedObjects, Incoming(p), Timed(p), NEW met,
         NEW est \in Estimates, NEW dt \in SampleTimes, rampDownFinished(p, met, est, dt)
  PROVE  Outcome(p, dt) /\ StopInv'
<1>. DEFINE s == IF events.do_duration_factor_update
                   THEN [p.step EXCEPT !.duration_factor = events.duration_factor] ELSE p.step
            t == IF events.do_discard
                   THEN [has |-> FALSE, current |-> <<>>, primary |-> p.trj.temporary,
                         temporary |-> <<>>]
                   ELSE p.trj
            g == updateNormalGoal(t, s, met, est)
            n == setPendingState(p.mgr, <<"Normal", "Running">>)
            m == setPendingState(p.mgr, <<"StaticGoal", "None">>)
            d == p.step.interpolator.dur
            x == p.step.time_passed
<1>1. p.mgr.state = <<"RampDown", "Finished">>
  BY DEF rampDownFinished
<1>2. p.mgr.pending = NoPending /\ FitsObject(p, "RampDown")
  BY <1>1 DEF Incoming
<1>3. p.active /\ p.step.interpolator.op = "RampDown"
  BY <1>2, OperationsTable DEF FitsObject
<1>4. /\ s \in MotionSteps
      /\ s.external = p.step.external
      /\ s.interpolator = p.step.interpolator
      /\ s.interpolation = p.step.interpolation
      /\ s.time_passed = p.step.time_passed
  BY ObjectParts DEF MotionSteps, PendingEvents, TypeOK
<1>5. t \in TrajectoryContainers
  BY ObjectParts, EmptyTypes DEF TrajectoryContainers
<1>6. \/ finish(p.mgr, t, s, FALSE, p.active, dt)
      \/ finish(m, t, s, FALSE, p.active, dt)
      \/ finish(n, g.trj, g.step, g.success, g.success, dt)
  BY Zenon DEF rampDownFinished
<1>7. events'.do_stop => events.do_stop
  BY Zenon DEF rampDownFinished, TypeOK, PendingEvents
<1>. HIDE DEF s, t
<1>8. m \in Managers /\ m.state = p.mgr.state
  BY <1>2, ObjectParts, SetPendingStateFresh DEF StatePairs, States, SubStates
<1>9. n \in Managers /\ n.pending = <<"Normal", "Running">> /\ n.state = p.mgr.state
  <2>1. <<"Normal", "Running">> \in StatePairs
    BY DEF StatePairs, States, SubStates
  <2>2. <<"Normal", "Running">> \in Accepted[p.mgr.state]
    BY <1>1, AcceptedTable
  <2>. QED
    BY <1>2, <2>1, <2>2, ObjectParts, SetPendingStateFresh
<1>. HIDE DEF m, n
<1>10. ASSUME NEW y \in Managers, finish(y, t, s, FALSE, p.active, dt)
       PROVE  Outcome(p, dt) /\ StopInv'
  <2>1. mgr' = y /\ active' = p.active /\ Continued(p, dt)
    BY <1>4, <1>5, <1>10, GoalContinued, Zenon
  <2>2. /\ events.do_stop => p.step.interpolation.dur = RAMP_DOWN_STOP_DURATION
        /\ x >= d
    BY <1>1 DEF Timed
  <2>3. d \in Nat /\ x \in Nat /\ d <= MaxDuration
    BY <1>3, ObjectParts DEF Timed, MotionSteps
  <2>4. /\ step'.interpolator.dur = d
        /\ step'.time_passed = Cap(x + dt)
        /\ step'.interpolation = p.step.interpolation
    BY <1>3, <2>1 DEF Continued
  <2>. HIDE DEF d, x
  <2>5. Cap(x + dt) >= d
    BY <2>2, <2>3, CapFacts
  <2>6. StopInv'
    BY <1>7, <2>2, <2>4, <2>5 DEF StopInv
  <2>. QED
    BY <2>1, <2>6 DEF Outcome
<1>11. CASE finish(n, g.trj, g.step, g.success, g.success, dt)
  <2>1. n.state[1] \in {"Normal", "RampDown"}
    BY <1>1, <1>9
  <2>2. mgr' = n /\ (~active' \/ Taken(n.state[1], dt))
    BY <1>4, <1>5, <1>9, <1>11, <2>1, NormalGoalTaken, Zenon
  <2>. QED
    BY <1>9, <2>2, NotRampDown DEF Outcome
<1>. QED
  BY <1>6, <1>8, <1>10, <1>11, ObjectParts, Zenon

\* StaticGoal, None: there is no goal yet.
LEMMA StaticGoalNoneOutcome ==
  ASSUME TypeOK, NEW p \in PreparedObjects, Incoming(p), NEW dt \in SampleTimes,
         staticGoalNone(p, dt)
  PROVE  Outcome(p, dt) /\ StopInv'
<1>. DEFINE m == setPendingState(p.mgr, <<"StaticGoal", "Running">>)
<1>1. p.mgr.state = <<"StaticGoal", "None">> /\ mgr' = m /\ active' = FALSE
  BY DEF staticGoalNone, finish
<1>2. m \in Managers /\ m.state = p.mgr.state
  BY ObjectParts, SetPendingStateFresh DEF Incoming, StatePairs, States, SubStates
<1>. HIDE DEF m
<1>. QED
  BY <1>1, <1>2, NotRampDown DEF Outcome

\* StaticGoal, Running: an updated static goal is taken, otherwise the last one
\* goes on.
LEMMA StaticGoalRunningOutcome ==
  ASSUME TypeOK, NEW p \in PreparedObjects, Incoming(p), NEW dt \in SampleTimes,
         staticGoalRunning(p, dt)
  PROVE  Outcome(p, dt) /\ StopInv'
<1>. DEFINE position == events.do_static_position_goal_update /\ ~events.do_ramp_down
            velocity == ~position /\ events.do_static_velocity_goal_update /\ ~events.do_ramp_down
            update == position \/ velocity
            m == CASE events.do_static_goal_finish
                        -> setPendingState(p.mgr, <<"StaticGoal", "Finished">>)
                   [] ~events.do_static_goal_finish /\ events.do_ramp_down
                        -> setPendingState(p.mgr, <<"RampDown", "None">>)
                   [] OTHER -> p.mgr
            op == IF position THEN "RampInPosition" ELSE "RampInVelocity"
            fast == events.do_static_goal_fast_update
            s == IF update THEN prepareStaticGoal(p.step, op, fast) ELSE p.step
<1>1. p.mgr.state = <<"StaticGoal", "Running">>
  BY DEF staticGoalRunning
<1>2. finish(m, p.trj, s, update, p.active \/ update, dt)
  BY DEF staticGoalRunning
<1>3. m \in Managers /\ m.state = p.mgr.state
  <2>1. p.mgr.pending = NoPending
    BY DEF Incoming
  <2>2. ASSUME NEW d \in StatePairs
        PROVE  setPendingState(p.mgr, d) \in Managers /\ setPendingState(p.mgr, d).state = p.mgr.state
    BY <2>1, ObjectParts, SetPendingStateFresh
  <2>3. <<"StaticGoal", "Finished">> \in StatePairs /\ <<"RampDown", "None">> \in StatePairs
    BY DEF StatePairs, States, SubStates
  <2>. QED
    BY <2>2, <2>3, ObjectParts
<1>4. fast \in BOOLEAN /\ op \in Operations /\ update \in BOOLEAN
  BY DEF TypeOK, PendingEvents, Operations
<1>5. p.step \in MotionSteps /\ p.trj \in TrajectoryContainers /\ p.active \in BOOLEAN
  BY ObjectParts
<1>. HIDE DEF m, op, fast
<1>6. CASE update
  <2>. HIDE DEF update
  <2>1. s = prepareStaticGoal(p.step, op, fast)
    BY <1>6
  <2>2. /\ s \in MotionSteps
        /\ s.conditions.op = op
    <3>. HIDE DEF s
    <3>1. prepareStaticGoal(p.step, op, fast) \in MotionSteps
      BY <1>4, <1>5, MotionStepType, Zenon
    <3>2. prepareStaticGoal(p.step, op, fast).conditions.op = op
      BY <1>4, <1>5, PrepareEffect
    <3>. QED
      BY <2>1, <3>1, <3>2
  <2>3. finish(m, p.trj, s, TRUE, TRUE, dt)
    <3>1. update = TRUE /\ (p.active \/ update) = TRUE
      BY <1>4, <1>5, <1>6
    <3>. HIDE DEF s
    <3>. QED
      BY <1>2, <3>1, Zenon
  <2>. HIDE DEF s
  <2>4. /\ mgr' = m
        /\ active' = TRUE
        /\ step'.time_passed = dt
        /\ step'.interpolator.op = s.conditions.op
    BY <1>3, <1>5, <2>2, <2>3, FinishTaken, Zenon
  <2>5. op \in {"RampInPosition", "RampInVelocity"}
    BY DEF op
  <2>6. Taken(p.mgr.state[1], dt)
    BY <2>2, <2>4, <2>5 DEF Taken
  <2>. QED
    BY <1>1, <1>3, <2>4, <2>6, NotRampDown DEF Outcome
<1>7. CASE ~update
  <2>1. finish(m, p.trj, p.step, FALSE, p.active, dt)
    <3>. HIDE DEF update
    <3>1. update = FALSE /\ (p.active \/ update) = p.active /\ s = p.step
      BY <1>4, <1>5, <1>7
    <3>. HIDE DEF s
    <3>. QED
      BY <1>2, <3>1, Zenon
  <2>2. mgr' = m /\ Continued(p, dt)
    BY <1>3, <1>5, <2>1, StepContinued, Zenon
  <2>. QED
    BY <1>1, <1>3, <2>2, NotRampDown DEF Outcome
<1>. QED
  BY <1>6, <1>7

\* StaticGoal, Finished: the static goal goes on until the ramp down.
LEMMA StaticGoalFinishedOutcome ==
  ASSUME TypeOK, NEW p \in PreparedObjects, Incoming(p), NEW dt \in SampleTimes,
         staticGoalFinished(p, dt)
  PROVE  Outcome(p, dt) /\ StopInv'
<1>. DEFINE m == setPendingState(p.mgr, <<"RampDown", "None">>)
<1>1. /\ p.mgr.state = <<"StaticGoal", "Finished">>
      /\ finish(m, p.trj, p.step, FALSE, p.active, dt)
  BY Zenon DEF staticGoalFinished
<1>2. m \in Managers /\ m.state = p.mgr.state
  BY ObjectParts, SetPendingStateFresh DEF Incoming, StatePairs, States, SubStates
<1>. HIDE DEF m
<1>3. mgr' = m /\ Continued(p, dt)
  BY <1>1, <1>2, ObjectParts, StepContinued, Zenon
<1>. QED
  BY <1>1, <1>2, <1>3, NotRampDown DEF Outcome

\* The object an ok message is dispatched on keeps the invariants.
LEMMA PreparedTimed ==
  ASSUME TypeOK, ManagerInv, GoalInv, TimeInv, StopInv, NEW first \in BOOLEAN
  PROVE  Timed(prepared(first, TRUE))
<1>. DEFINE p == prepared(first, TRUE)
            m == preparedManager(first, TRUE)
<1>1. p.mgr = m
  BY DEF prepared
<1>2. CASE first
  <2>1. p.active = FALSE
    BY <1>2, Zenon DEF prepared
  <2>2. m.state = <<"Normal", "Running">>
    BY <1>2 DEF preparedManager, ResetManager, updateState, activateStateManager, NoPending
  <2>. HIDE DEF p, m
  <2>3. Timed(p)
    BY <1>1, <2>1, <2>2 DEF Timed
  <2>. QED
    BY <2>3, Zenon DEF p
<1>3. CASE ~first
  <2>1. p.step = step /\ p.active = active
    BY <1>3 DEF prepared, TypeOK
  <2>2. DispatchedAfter(m.state, executed)
    <3>1. first = FALSE
      BY <1>3
    <3>. QED
      BY <3>1, DispatchedPair, Zenon
  <2>3. m.state = <<"RampDown", "Finished">>
          => <<"RampDown", "Finished">> \in {mgr.state, mgr.pending}
    <3>1. mgr.state = <<"Normal", "None">> => mgr = ResetManager
      BY AcceptedTable DEF TypeOK, Managers, ManagerInv, ResetManager
    <3>2. m = IF mgr.state = <<"Normal", "None">> THEN updateState(activateStateManager(mgr))
                                                  ELSE updateState(mgr)
      BY <1>3 DEF preparedManager
    <3>3. updateState(activateStateManager(ResetManager)).state = <<"Normal", "Running">>
      BY DEF ResetManager, updateState, activateStateManager, NoPending
    <3>4. updateState(mgr).state \in {mgr.state, mgr.pending}
      BY DEF updateState
    <3>. HIDE DEF m
    <3>. QED
      BY <3>1, <3>2, <3>3, <3>4
  <2>. HIDE DEF p, m
  <2>4. Timed(p)
    BY <1>1, <2>1, <2>2, <2>3 DEF Timed, TimeInv, StopInv, DispatchedAfter
  <2>. QED
    BY <2>4, Zenon DEF p
<1>. QED
  BY <1>2, <1>3, Zenon

\* Every ok message.
LEMMA OkMessageOutcome ==
  ASSUME TypeOK, ManagerInv, GoalInv, TimeInv, StopInv,
         NEW first \in BOOLEAN, NEW met, NEW est \in Estimates, NEW dt \in SampleTimes,
         okMessage(first, met, est, dt)
  PROVE  Outcome(prepared(first, TRUE), dt) /\ StopInv'
<1>. DEFINE p == prepared(first, TRUE)
<1>1. p \in PreparedObjects
  BY PreparedType, Zenon
<1>2. Incoming(p)
  BY PreparedIncoming, Zenon
<1>3. Timed(p)
  BY PreparedTimed, Zenon
<1>4. \/ normalRunning(p, met, est, dt)
      \/ rampDownNone(p, dt)
      \/ rampDownRunning(p, dt)
      \/ rampDownFinished(p, met, est, dt)
      \/ staticGoalNone(p, dt)
      \/ staticGoalRunning(p, dt)
      \/ staticGoalFinished(p, dt)
  BY Zenon DEF okMessage
<1>. SUFFICES Outcome(p, dt) /\ StopInv'
  BY Zenon
<1>. HIDE DEF p
<1>5. CASE normalRunning(p, met, est, dt)
  BY <1>1, <1>2, <1>5, NormalRunningOutcome
<1>6. CASE rampDownNone(p, dt)
  BY <1>1, <1>2, <1>6, RampDownNoneOutcome
<1>7. CASE rampDownRunning(p, dt)
  BY <1>1, <1>2, <1>3, <1>7, RampDownRunningOutcome
<1>8. CASE rampDownFinished(p, met, est, dt)
  BY <1>1, <1>2, <1>3, <1>8, RampDownFinishedOutcome
<1>9. CASE staticGoalNone(p, dt)
  BY <1>1, <1>2, <1>9, StaticGoalNoneOutcome
<1>10. CASE staticGoalRunning(p, dt)
  BY <1>1, <1>2, <1>10, StaticGoalRunningOutcome
<1>11. CASE staticGoalFinished(p, dt)
  BY <1>1, <1>2, <1>11, StaticGoalFinishedOutcome
<1>. QED
  BY <1>4, <1>5, <1>6, <1>7, <1>8, <1>9, <1>10, <1>11

\* Without a reset the prepared object has the goal of the message before it.
LEMMA PreparedGoal ==
  ASSUME TypeOK, NEW first \in BOOLEAN
  PROVE  /\ prepared(first, TRUE).active => ~first /\ active
         /\ ~first => prepared(first, TRUE).step = step
BY Zenon DEF prepared, TypeOK

\* An ok message keeps the times.
LEMMA OkMessageTimes ==
  ASSUME TypeOK, TimeInv, NEW first \in BOOLEAN, NEW dt \in SampleTimes,
         Outcome(prepared(first, TRUE), dt)
  PROVE  TimeInv'
<1>. DEFINE p == prepared(first, TRUE)
<1>1. CASE ~active'
  BY <1>1 DEF TimeInv
<1>2. CASE Taken(p.mgr.state[1], dt)
  BY <1>2, CapFacts DEF Taken, TimeInv
<1>3. CASE active' /\ Continued(p, dt)
  <2>1. p.active
    BY <1>3, Zenon DEF Continued
  <2>2. p.step = step /\ active
    BY <2>1, PreparedGoal, Zenon
  <2>. HIDE DEF p
  <2>3. /\ step'.interpolator = step.interpolator
        /\ step'.interpolation = step.interpolation
        /\ step'.time_passed = Cap(step.time_passed + dt)
    BY <1>3, <2>2 DEF Continued
  <2>4. step.time_passed \in Nat
    BY DEF TypeOK, MotionSteps
  <2>5. Cap(step.time_passed + dt) > 0
    BY <2>4, CapFacts
  <2>. QED
    BY <2>2, <2>3, <2>5 DEF TimeInv
<1>. QED
  BY <1>1, <1>2, <1>3, Zenon DEF Outcome

\* A message whose states are not ok leaves no goal, or everything as it was.
LEMMA NotOkMessageTimes ==
  ASSUME TypeOK, ManagerInv, TimeInv, NEW first \in BOOLEAN, notOkMessage(first)
  PROVE  /\ ~active' \/ UNCHANGED <<step, active, controller>>
         /\ first \/ ~inactive => ~active'
         /\ TimeInv'
         /\ StopInv'
<1>1. mgr' = ResetManager
  <2>1. mgr' = preparedManager(first, FALSE)
    BY DEF notOkMessage, prepared
  <2>2. inactive => mgr = ResetManager
    BY AcceptedTable DEF inactive, TypeOK, Managers, ManagerInv, ResetManager
  <2>. QED
    BY <2>1, <2>2 DEF preparedManager
<1>2. StopInv'
  BY <1>1 DEF StopInv, executed, ResetManager
<1>3. first \/ ~inactive => ~active'
  BY Zenon DEF notOkMessage, prepared
<1>4. ~active' \/ UNCHANGED <<step, active, controller>>
  BY <1>3 DEF notOkMessage, prepared, TypeOK
<1>. QED
  BY <1>2, <1>3, <1>4 DEF TimeInv

\* A command to stop is not accepted while a ramp down is executed.
LEMMA CommandTimes ==
  ASSUME TypeOK, TimeInv, StopInv, Command
  PROVE  UNCHANGED <<step, active, controller, mgr>> /\ TimeInv' /\ StopInv'
<1>1. UNCHANGED <<step, active, controller, mgr>>
  BY Zenon DEF Command, addTrajectory, stopTrajectory, resumeTrajectory, updateDurationFactor,
               startStaticGoal, setStaticGoal, finishStaticGoal, retrieveExecutionProgress,
               commandFrame
<1>2. executed = "RampDown" => events'.do_stop = events.do_stop
  <2>1. mgr.state \in {<<"Normal", "Running">>, <<"StaticGoal", "Running">>}
          => executed # "RampDown"
    BY DEF executed
  <2>2. \/ events' = events
        \/ mgr.state \in {<<"Normal", "Running">>, <<"StaticGoal", "Running">>}
        \/ events' = [events EXCEPT !.do_resume = TRUE]
    BY Zenon DEF Command, addTrajectory, stopTrajectory, resumeTrajectory, updateDurationFactor,
                 startStaticGoal, setStaticGoal, finishStaticGoal, retrieveExecutionProgress,
                 issued
  <2>. QED
    BY <2>1, <2>2 DEF TypeOK, PendingEvents
<1>. QED
  BY <1>1, <1>2 DEF TimeInv, StopInv, executed

(***************************************************************************)
(* Arithmetic on names.                                                    *)
(***************************************************************************)

\* The names are not the invalid number.
LEMMA NamesAreValid ==
  /\ Zero # Invalid
  /\ Some # Invalid
  /\ Feedback # Invalid
  /\ StaticPosition # Invalid
  /\ StaticVelocity # Invalid
  /\ PointVelocity # Invalid
  /\ \A point : positionOf(point) # Invalid
<1>1. ASSUME NEW point
      PROVE  positionOf(point) # Invalid
  <2>1. Len(<<"point", point.traj, point.left>>) = 3 /\ Len(<<"invalid">>) = 1
    OBVIOUS
  <2>. QED
    BY <2>1 DEF positionOf, Invalid
<1>. QED
  BY <1>1 DEF Zero, Some, Feedback, StaticPosition, StaticVelocity, PointVelocity, Invalid

\* Products, blends and moves of valid numbers are valid; a factor of zero or
\* one, or a velocity of zero, give what they should.
LEMMA ScaledFacts ==
  ASSUME NEW f \in {"zero", "one", "part"}, NEW x, x # Invalid
  PROVE  /\ scaled(f, x) # Invalid
         /\ f = "zero" => scaled(f, x) = Zero
         /\ f = "one" => scaled(f, x) = x
BY NamesAreValid DEF scaled

\* A blend of two valid numbers ends with the second one.
LEMMA BlendFacts ==
  ASSUME NEW f \in {"zero", "one", "part"}, NEW from, from # Invalid, NEW to, to # Invalid
  PROVE  /\ blend(f, from, to) # Invalid
         /\ f = "one" => blend(f, from, to) = to
BY NamesAreValid DEF blend

\* A valid velocity moves a valid position, and no velocity does not.
LEMMA MovedFacts ==
  ASSUME NEW position, position # Invalid, NEW velocity, velocity # Invalid
  PROVE  /\ moved(position, velocity) # Invalid
         /\ velocity = Zero => moved(position, velocity) = position
BY NamesAreValid DEF moved

\* The factors of the soft ramps at their end.
LEMMA Ramps ==
  ASSUME NEW done \in BOOLEAN
  PROVE  /\ rampIn(done) \in {"zero", "one", "part"}
         /\ rampOut(done) \in {"zero", "one", "part"}
         /\ done => rampIn(done) = "one" /\ rampOut(done) = "zero"
BY DEF rampIn, rampOut

(***************************************************************************)
(* The interpolator and the controller.  Each lemma says of a kind of      *)
(* interpolation that valid references stay so, and what it ends with.     *)
(***************************************************************************)

\* A reference that may be sent.
Sound(r) == r.p # Invalid /\ r.v # Invalid

\* The polynomial of a normal goal ends at the goal.
LEMMA SplineFacts ==
  ASSUME NEW s, Sound(s), NEW g, Sound(g), NEW done \in BOOLEAN
  PROVE  /\ Sound(spline(s, g, done))
         /\ done => spline(s, g, done).p = g.p
<1>. DEFINE r == spline(s, g, done)
<1>1. /\ r.p \in {g.p, Some}
      /\ r.v \in {g.v, Some, Zero}
      /\ done => r.p = g.p
  BY DEF spline
<1>. HIDE DEF r
<1>2. Sound(r) /\ (done => r.p = g.p)
  BY <1>1, NamesAreValid DEF Sound
<1>. QED
  BY <1>2 DEF r

\* The polynomial of a ramp down that stops ends without velocity.
LEMMA RampDownSplineFacts ==
  ASSUME NEW s, Sound(s), NEW stop \in BOOLEAN, NEW done \in BOOLEAN
  PROVE  /\ Sound(rampDownSpline(s, stop, done))
         /\ done /\ stop => rampDownSpline(s, stop, done).v = Zero
<1>. DEFINE f == IF done /\ stop THEN "zero" ELSE "part"
            r == rampDownSpline(s, stop, done)
<1>1. f \in {"zero", "one", "part"}
  OBVIOUS
<1>2. r.p = moved(s.p, s.v) /\ r.v = scaled(f, s.v)
  BY DEF rampDownSpline
<1>. HIDE DEF f, r
<1>3. scaled(f, s.v) # Invalid /\ (f = "zero" => scaled(f, s.v) = Zero)
  BY <1>1, ScaledFacts DEF Sound
<1>4. moved(s.p, s.v) # Invalid
  BY MovedFacts DEF Sound
<1>5. done /\ stop => f = "zero"
  BY DEF f
<1>6. Sound(r) /\ (done /\ stop => r.v = Zero)
  BY <1>2, <1>3, <1>4, <1>5 DEF Sound
<1>. QED
  BY <1>6 DEF r

\* A Slerp ends at the goal; its derivative is a number if it is not divided by
\* zero.
LEMMA SlerpFacts ==
  ASSUME NEW s, Sound(s), NEW g, Sound(g), NEW dur, use_linear' \/ dur # 0,
         NEW done \in BOOLEAN
  PROVE  /\ Sound(slerp(s, g, dur, done))
         /\ done => slerp(s, g, dur, done).p = g.p
<1>. DEFINE f == rampIn(done)
            r == slerp(s, g, dur, done)
<1>1. r.p = blend(f, s.p, g.p) /\ r.v \in {Zero, Some}
  BY DEF slerp, Sound
<1>2. f \in {"zero", "one", "part"} /\ (done => f = "one")
  BY Ramps
<1>. HIDE DEF f, r
<1>3. blend(f, s.p, g.p) # Invalid /\ (f = "one" => blend(f, s.p, g.p) = g.p)
  BY <1>2, BlendFacts DEF Sound
<1>4. Sound(r) /\ (done => r.p = g.p)
  BY <1>1, <1>2, <1>3, NamesAreValid DEF Sound
<1>. QED
  BY <1>4 DEF r

\* The soft ramp down of an orientation ends without velocity.
LEMMA SoftRampDownFacts ==
  ASSUME NEW s, Sound(s), NEW x, Sound(x), NEW done \in BOOLEAN
  PROVE  /\ Sound(softRampDown(s, x, done))
         /\ done => softRampDown(s, x, done).v = Zero
<1>. DEFINE f == rampOut(done)
            v == scaled(f, s.v)
            r == softRampDown(s, x, done)
<1>1. r.p = moved(x.p, v) /\ r.v = v
  BY DEF softRampDown
<1>2. f \in {"zero", "one", "part"} /\ (done => f = "zero")
  BY Ramps
<1>. HIDE DEF f, r
<1>3. v # Invalid /\ (done => v = Zero)
  BY <1>2, ScaledFacts DEF Sound
<1>. HIDE DEF v
<1>4. moved(x.p, v) # Invalid
  BY <1>3, MovedFacts DEF Sound
<1>5. Sound(r) /\ (done => r.v = Zero)
  BY <1>1, <1>3, <1>4 DEF Sound
<1>. QED
  BY <1>5 DEF r

\* The soft ramp to a velocity ends with it, and with none stays in place.
LEMMA SoftRampVelocityFacts ==
  ASSUME NEW s, Sound(s), NEW g, Sound(g), NEW x, x.p # Invalid, NEW done \in BOOLEAN
  PROVE  /\ Sound(softRampVelocity(s, g, x, done))
         /\ done => softRampVelocity(s, g, x, done).v = g.v
         /\ done /\ g.v = Zero => softRampVelocity(s, g, x, done).p = x.p
<1>. DEFINE f == rampIn(done)
            v == blend(f, s.v, g.v)
            r == softRampVelocity(s, g, x, done)
<1>1. r.p = moved(x.p, v) /\ r.v = v
  BY DEF softRampVelocity
<1>2. f \in {"zero", "one", "part"} /\ (done => f = "one")
  BY Ramps
<1>. HIDE DEF f, r
<1>3. v # Invalid /\ (done => v = g.v)
  BY <1>2, BlendFacts DEF Sound
<1>. HIDE DEF v
<1>4. moved(x.p, v) # Invalid /\ (v = Zero => moved(x.p, v) = x.p)
  BY <1>3, MovedFacts
<1>5. /\ Sound(r)
      /\ done => r.v = g.v
      /\ done /\ g.v = Zero => r.p = x.p
  BY <1>1, <1>3, <1>4 DEF Sound
<1>. QED
  BY <1>5 DEF r

\* The case falls through: it ends at the goal only if that is at rest.
LEMMA SoftRampPositionFacts ==
  ASSUME NEW s, Sound(s), NEW g, Sound(g), NEW done \in BOOLEAN
  PROVE  /\ Sound(softRampPosition(s, g, done))
         /\ done /\ g.v = Zero => /\ softRampPosition(s, g, done).p = g.p
                                  /\ softRampPosition(s, g, done).v = Zero
<1>. DEFINE f == rampIn(done)
            x == [p |-> blend(f, s.p, g.p)]
<1>1. f \in {"zero", "one", "part"} /\ (done => f = "one")
  BY Ramps
<1>2. softRampPosition(s, g, done) = softRampVelocity(s, g, x, done)
  BY DEF softRampPosition
<1>. HIDE DEF f
<1>3. x.p # Invalid /\ (done => x.p = g.p)
  BY <1>1, BlendFacts DEF Sound
<1>. HIDE DEF x
<1>4. /\ Sound(softRampVelocity(s, g, x, done))
      /\ done => softRampVelocity(s, g, x, done).v = g.v
      /\ done /\ g.v = Zero => softRampVelocity(s, g, x, done).p = x.p
  BY <1>3, SoftRampVelocityFacts
<1>. QED
  BY <1>2, <1>3, <1>4

\* The references r that a message generates from the references s at the
\* start and g at the goal: what they are once the duration has passed.
AtEnd(op, s, g, r, stop, rest) ==
  /\ op = "Normal" => r.p = g.p
  /\ op = "Normal" /\ rest => r.v = Zero
  /\ op = "RampDown" /\ stop => r.v = Zero
  /\ op = "RampInVelocity" => r.v = g.v
  /\ op = "RampInPosition" /\ g.v = Zero => r.p = g.p /\ r.v = Zero

\* EGMInterpolator::evaluate
LEMMA EvaluateFacts ==
  ASSUME NEW c \in Coordinates, NEW x, Sound(x), NEW done \in BOOLEAN,
         Sound(initial'[c]), Sound(goal'[c]), step'.interpolator.op \in Operations,
         step'.interpolator.op = "Normal" /\ c # "axis"
           => use_linear' \/ step'.interpolation.dur # 0
  PROVE  /\ Sound(evaluate(c, x, done))
         /\ done => AtEnd(step'.interpolator.op, initial'[c], goal'[c], evaluate(c, x, done),
                          step'.interpolation.dur = RAMP_DOWN_STOP_DURATION, FALSE)
<1>. DEFINE s == initial'[c]
            g == goal'[c]
            op == step'.interpolator.op
            dur == step'.interpolation.dur
            stop == dur = RAMP_DOWN_STOP_DURATION
            r == evaluate(c, x, done)
<1>. SUFFICES Sound(r) /\ (done => AtEnd(op, s, g, r, stop, FALSE))
  BY Zenon
<1>0. Sound(s) /\ Sound(g) /\ stop \in BOOLEAN
  OBVIOUS
<1>1. r = CASE op = "Normal" -> IF c = "axis" THEN spline(s, g, done) ELSE slerp(s, g, dur, done)
            [] op = "RampDown" /\ c = "axis" -> rampDownSpline(s, stop, done)
            [] OTHER -> softRamp(s, g, x, done)
  BY DEF evaluate
<1>2. softRamp(s, g, x, done) =
        CASE op = "RampDown" -> softRampDown(s, x, done)
          [] op = "RampInPosition" -> softRampPosition(s, g, done)
          [] op = "RampInVelocity" -> softRampVelocity(s, g, x, done)
  BY DEF softRamp
<1>3. op = "Normal" /\ c # "axis" => use_linear' \/ dur # 0
  OBVIOUS
<1>4. op \in {"Normal", "RampDown", "RampInPosition", "RampInVelocity"}
  BY DEF Operations
<1>. HIDE DEF s, g, op, dur, stop, r
<1>5. CASE op = "Normal" /\ c = "axis"
  <2>1. r = spline(s, g, done)
    BY <1>1, <1>5
  <2>. QED
    BY <1>0, <1>5, <2>1, SplineFacts, Zenon DEF AtEnd
<1>6. CASE op = "Normal" /\ c # "axis"
  <2>1. r = slerp(s, g, dur, done)
    BY <1>1, <1>6
  <2>. QED
    BY <1>0, <1>3, <1>6, <2>1, SlerpFacts DEF AtEnd
<1>7. CASE op = "RampDown" /\ c = "axis"
  <2>1. r = rampDownSpline(s, stop, done)
    BY <1>1, <1>7
  <2>. QED
    BY <1>0, <1>7, <2>1, RampDownSplineFacts DEF AtEnd
<1>8. CASE op = "RampDown" /\ c # "axis"
  <2>1. r = softRampDown(s, x, done)
    BY <1>1, <1>2, <1>8
  <2>. QED
    BY <1>0, <1>8, <2>1, SoftRampDownFacts, Zenon DEF AtEnd
<1>9. CASE op = "RampInPosition"
  <2>1. r = softRampPosition(s, g, done)
    BY <1>1, <1>2, <1>9
  <2>. QED
    BY <1>0, <1>9, <2>1, SoftRampPositionFacts, Zenon DEF AtEnd
<1>10. CASE op = "RampInVelocity"
  <2>1. r = softRampVelocity(s, g, x, done)
    BY <1>1, <1>2, <1>10
  <2>2. x.p # Invalid
    BY DEF Sound
  <2>3. /\ Sound(softRampVelocity(s, g, x, done))
        /\ done => softRampVelocity(s, g, x, done).v = g.v
    BY <1>0, <2>2, SoftRampVelocityFacts
  <2>. QED
    BY <1>10, <2>1, <2>3 DEF AtEnd
<1>. QED
  BY <1>4, <1>5, <1>6, <1>7, <1>8, <1>9, <1>10, Zenon

\* Controller::calculate
LEMMA CalculateFacts ==
  ASSUME NEW c \in Coordinates, NEW x, Sound(x), NEW done \in BOOLEAN, Sound(initial'[c])
  PROVE  /\ Sound(calculate(c, x, done))
         /\ calculate(c, x, done).p = x.p
         /\ ~controller' => calculate(c, x, done) = x
         /\ controller' /\ step'.interpolation.reach /\ done => calculate(c, x, done).v = Zero
<1>. DEFINE a == IF step'.interpolation.reach THEN rampOut(done) ELSE "one"
            b == blend(rampIn(done), initial'[c].v, x.v)
            v == IF c = "orientation" \/ spline_method' = "Linear" THEN b ELSE x.v
            r == calculate(c, x, done)
<1>1. r = IF velocityTransition(c) THEN [p |-> x.p, v |-> scaled(a, v), a |-> scaled(a, x.a)]
                                   ELSE x
  BY DEF calculate
<1>2. /\ velocityTransition(c) => controller'
      /\ controller' /\ step'.interpolation.reach => velocityTransition(c)
  BY DEF velocityTransition
<1>3. a \in {"zero", "one", "part"} /\ (step'.interpolation.reach /\ done => a = "zero")
  BY Ramps
<1>4. b # Invalid
  BY Ramps, BlendFacts DEF Sound
<1>5. v # Invalid
  <2>. HIDE DEF b
  <2>. QED
    BY <1>4 DEF Sound
<1>. HIDE DEF a, v, r
<1>6. scaled(a, v) # Invalid /\ (a = "zero" => scaled(a, v) = Zero)
  BY <1>3, <1>5, ScaledFacts
<1>7. /\ Sound(r)
      /\ r.p = x.p
      /\ ~controller' => r = x
      /\ controller' /\ step'.interpolation.reach /\ done => r.v = Zero
  BY <1>1, <1>2, <1>3, <1>6 DEF Sound
<1>. QED
  BY <1>7 DEF r

(***************************************************************************)
(* The references of a message.                                            *)
(***************************************************************************)
Valid(S, references) == \A c \in S : Sound(references[c])

\* What is to be sent once the duration of the goal has passed.
SentAtEnd ==
  step.time_passed >= step.interpolator.dur
    => \A c \in finite :
         AtEnd(step.interpolator.op, initial[c], goal[c], outputs[c],
               step.interpolation.dur = RAMP_DOWN_STOP_DURATION,
               controller /\ step.interpolation.reach)

\* What a message sends is valid, and at the end of a goal what the kind of
\* interpolation promises.
LEMMA GenerateFacts ==
  ASSUME NEW x, Valid(finite', x), Valid(finite', initial'), Valid(finite', goal'),
         generateReferences(x), step'.interpolator.op \in Operations,
         step'.interpolator.op = "Normal" /\ ~divided'
           => use_linear' \/ step'.interpolation.dur # 0,
         controller' => step'.interpolator.op = "Normal"
  PROVE  Valid(finite', interpolation') /\ Valid(finite', outputs') /\ SentAtEnd'
<1>. DEFINE done == step'.time_passed >= step'.interpolator.dur
            op == step'.interpolator.op
            stop == step'.interpolation.dur = RAMP_DOWN_STOP_DURATION
            rest == controller' /\ step'.interpolation.reach
            e(c) == evaluate(c, x[c], done)
            r(c) == calculate(c, e(c), done)
<1>0. finite' \subseteq Coordinates /\ ("orientation" \in finite' => ~divided')
  BY DEF finite, Coordinates
<1>1. done \in BOOLEAN
  OBVIOUS
<1>2. /\ interpolation' = [c \in Coordinates |-> r(c)]
      /\ outputs' = [c \in Coordinates |-> [p |-> interpolation'[c].p, v |-> interpolation'[c].v]]
  BY DEF generateReferences, sent
<1>. HIDE DEF done
<1>3. ASSUME NEW c \in finite'
      PROVE  Sound(r(c)) /\ (done => AtEnd(op, initial'[c], goal'[c], r(c), stop, rest))
  <2>1. Sound(x[c]) /\ Sound(initial'[c]) /\ Sound(goal'[c])
    BY DEF Valid
  <2>0. /\ c \in Coordinates
        /\ op = "Normal" /\ c # "axis" => use_linear' \/ step'.interpolation.dur # 0
    BY <1>0 DEF Coordinates
  <2>2. Sound(e(c)) /\ (done => AtEnd(op, initial'[c], goal'[c], e(c), stop, FALSE))
    BY <1>1, <2>0, <2>1, EvaluateFacts, Zenon
  <2>. DEFINE y == e(c)
              z == r(c)
  <2>. HIDE DEF e
  <2>3. /\ Sound(z)
        /\ z.p = y.p
        /\ ~controller' => z = y
        /\ controller' /\ step'.interpolation.reach /\ done => z.v = Zero
    BY <1>1, <2>0, <2>1, <2>2, CalculateFacts, Zenon
  <2>4. Sound(y) /\ (done => AtEnd(op, initial'[c], goal'[c], y, stop, FALSE))
    BY <2>2, Zenon
  <2>5. controller' => op = "Normal"
    OBVIOUS
  <2>. HIDE DEF y, z, r, op, stop
  <2>6. Sound(z) /\ (done => AtEnd(op, initial'[c], goal'[c], z, stop, rest))
    BY <2>3, <2>4, <2>5 DEF AtEnd
  <2>. QED
    BY <2>6, Zenon DEF z
<1>. HIDE DEF e, r
<1>4. ASSUME NEW c \in finite'
      PROVE  /\ interpolation'[c] = r(c)
             /\ outputs'[c].p = r(c).p
             /\ outputs'[c].v = r(c).v
  BY <1>0, <1>2
<1>5. Valid(finite', interpolation') /\ Valid(finite', outputs')
  BY <1>3, <1>4, Zenon DEF Valid, Sound
<1>6. ASSUME NEW c \in finite', done
      PROVE  AtEnd(op, initial'[c], goal'[c], outputs'[c], stop, rest)
  <2>. HIDE DEF op, stop, rest
  <2>. QED
    BY <1>3, <1>4, <1>6 DEF AtEnd
<1>. QED
  BY <1>5, <1>6 DEF SentAtEnd, done

\* A reference has a position, a velocity and an acceleration.
Full(r) == r = [p |-> r.p, v |-> r.v, a |-> r.a]

\* A record of a position, a velocity and an acceleration has no other part.
LEMMA FullRecord == ASSUME NEW x, NEW y, NEW z PROVE Full([p |-> x, v |-> y, a |-> z])
BY DEF Full

\* All references are such records.
LEMMA FullReferences ==
  ASSUME NEW x, generateReferences(x), step'.interpolator.op \in Operations
  PROVE  \A c \in Coordinates : Full(interpolation'[c])
<1>. DEFINE done == step'.time_passed >= step'.interpolator.dur
            op == step'.interpolator.op
            e(c) == evaluate(c, x[c], done)
            r(c) == calculate(c, e(c), done)
<1>1. interpolation' = [c \in Coordinates |-> r(c)]
  BY DEF generateReferences
<1>2. ASSUME NEW c \in Coordinates
      PROVE  Full(e(c))
  <2>. DEFINE s == initial'[c]
              g == goal'[c]
              dur == step'.interpolation.dur
              stop == dur = RAMP_DOWN_STOP_DURATION
              y == x[c]
  <2>. HIDE DEF done
  <2>1. e(c) = CASE op = "Normal" ->
                      IF c = "axis" THEN spline(s, g, done) ELSE slerp(s, g, dur, done)
                 [] op = "RampDown" /\ c = "axis" -> rampDownSpline(s, stop, done)
                 [] OTHER -> softRamp(s, g, y, done)
    BY DEF evaluate
  <2>2. softRamp(s, g, y, done) =
          CASE op = "RampDown" -> softRampDown(s, y, done)
            [] op = "RampInPosition" -> softRampPosition(s, g, done)
            [] op = "RampInVelocity" -> softRampVelocity(s, g, y, done)
    BY DEF softRamp
  <2>3. op \in {"Normal", "RampDown", "RampInPosition", "RampInVelocity"}
    BY DEF Operations
  <2>. HIDE DEF s, g, dur, stop, y, op
  <2>4. Full(spline(s, g, done))
    BY FullRecord, Zenon DEF spline
  <2>5. Full(slerp(s, g, dur, done))
    BY FullRecord, Zenon DEF slerp
  <2>6. Full(rampDownSpline(s, stop, done))
    BY FullRecord, Zenon DEF rampDownSpline
  <2>7. Full(softRampDown(s, y, done))
    BY FullRecord, Zenon DEF softRampDown
  <2>8. Full(softRampVelocity(s, g, y, done))
    BY FullRecord, Zenon DEF softRampVelocity
  <2>9. Full(softRampPosition(s, g, done))
    BY FullRecord, Zenon DEF softRampPosition, softRampVelocity
  <2>10. e(c) \in {spline(s, g, done), slerp(s, g, dur, done), rampDownSpline(s, stop, done),
                   softRampDown(s, y, done), softRampVelocity(s, g, y, done),
                   softRampPosition(s, g, done)}
    BY <2>1, <2>2, <2>3
  <2>. HIDE DEF e
  <2>. QED
    BY <2>4, <2>5, <2>6, <2>7, <2>8, <2>9, <2>10
<1>3. ASSUME NEW c \in Coordinates
      PROVE  Full(r(c))
  <2>. DEFINE y == e(c)
  <2>1. Full(y)
    BY <1>2
  <2>. HIDE DEF y, done
  <2>2. Full(calculate(c, y, done))
    BY <2>1, FullRecord, Zenon DEF calculate
  <2>. QED
    BY <2>2 DEF y
<1>. HIDE DEF r
<1>. QED
  BY <1>1, <1>3

\* What the active goal asks for, by the operation of the interpolator.
GoalIs ==
  \A c \in Coordinates :
    /\ step.interpolator.op = "Normal" => goal[c].p = positionOf(step.external)
    /\ step.interpolator.op = "RampInPosition"
         => goal[c].p = StaticPosition /\ goal[c].v = initial[c].v
    /\ step.interpolator.op = "RampInVelocity" => goal[c].v = StaticVelocity

\* A new goal is prepared from the references and the point that was retrieved.
LEMMA UpdateFacts ==
  ASSUME NEW S \in SUBSET Coordinates, NEW x, NEW p, Valid(S, x),
         \A c \in Coordinates : Full(x[c]), updateReferences(x, p),
         step'.interpolator.op \in Operations
  PROVE  Valid(S, initial') /\ Valid(S, goal') /\ GoalIs'
<1>. DEFINE op == step'.interpolator.op
            last == Len(IF p.trj.has THEN p.trj.current ELSE Head(p.trj.primary)) = 1
<1>1. initial' = x /\ goal' = preparedGoal(x, p)
  BY DEF updateReferences
<1>2. preparedGoal(x, p) = CASE op = "Normal" -> normalGoal(last)
                             [] op = "RampDown" -> x
                             [] OTHER -> staticGoal(x, op)
  BY DEF preparedGoal
<1>3. op \in {"Normal", "RampDown", "RampInPosition", "RampInVelocity"}
  BY DEF Operations
<1>4. ASSUME NEW c \in Coordinates
      PROVE  /\ c \in S => Sound(goal'[c])
             /\ op = "Normal" => goal'[c].p = positionOf(step'.external)
             /\ op = "RampInPosition" => goal'[c].p = StaticPosition /\ goal'[c].v = x[c].v
             /\ op = "RampInVelocity" => goal'[c].v = StaticVelocity
  <2>0. (c \in S => Sound(x[c])) /\ x[c] = [p |-> x[c].p, v |-> x[c].v, a |-> x[c].a]
    BY DEF Valid, Full
  <2>. HIDE DEF last, op
  <2>1. CASE op = "Normal"
    <3>1. goal' = normalGoal(last)
      BY <1>1, <1>2, <2>1
    <3>2. /\ goal'[c].p = positionOf(step'.external)
          /\ goal'[c].v \in {Zero, PointVelocity}
      BY <3>1 DEF normalGoal
    <3>. QED
      BY <2>1, <3>2, NamesAreValid DEF Sound
  <2>2. CASE op = "RampDown"
    BY <1>1, <1>2, <2>0, <2>2
  <2>3. CASE op = "RampInPosition"
    <3>1. goal'[c] = [x[c] EXCEPT !.p = StaticPosition]
      BY <1>1, <1>2, <2>3 DEF staticGoal
    <3>2. goal'[c].p = StaticPosition /\ goal'[c].v = x[c].v
      BY <2>0, <3>1
    <3>. QED
      BY <2>0, <2>3, <3>2, NamesAreValid DEF Sound
  <2>4. CASE op = "RampInVelocity"
    <3>1. goal'[c] = [x[c] EXCEPT !.v = StaticVelocity]
      BY <1>1, <1>2, <2>4 DEF staticGoal
    <3>2. goal'[c].p = x[c].p /\ goal'[c].v = StaticVelocity
      BY <2>0, <3>1
    <3>. QED
      BY <2>0, <2>4, <3>2, NamesAreValid DEF Sound
  <2>. QED
    BY <1>3, <2>1, <2>2, <2>3, <2>4
<1>. QED
  BY <1>1, <1>4 DEF Valid, GoalIs

(***************************************************************************)
(* The inductive invariant: of the times and stops, above, and of the      *)
(* references.                                                             *)
(***************************************************************************)
ReferencesInv ==
  /\ Valid(finite, interpolation)
  /\ Valid(finite, outputs)
  /\ \A c \in Coordinates : Full(interpolation[c])
  /\ active => /\ Valid(finite, initial)
               /\ Valid(finite, goal)
               /\ GoalIs
               /\ SentAtEnd
               /\ step.interpolator.op = "Normal" => controller \/ resumed

ReferenceInv == TimeInv /\ StopInv /\ ReferencesInv

\* What a first message starts from.
LEMMA ResetFacts ==
  /\ Valid(Coordinates, resetReferences)
  /\ \A c \in Coordinates : Full(resetReferences[c])
  /\ Valid(Coordinates, sent(resetReferences))
<1>1. ASSUME NEW c \in Coordinates
      PROVE  /\ resetReferences[c] = [p |-> Feedback, v |-> Zero, a |-> Zero]
             /\ sent(resetReferences)[c] = [p |-> Feedback, v |-> Zero]
  BY DEF resetReferences, everywhere, atRest, sent
<1>. QED
  BY <1>1, NamesAreValid DEF Valid, Sound, Full

\* An ok message.
LEMMA OkReferencesStep ==
  ASSUME TypeOK, ManagerInv, GoalInv, TypeOK', GoalInv', ReferenceInv, NEW met, OkReferences(met)
  PROVE  ReferenceInv'
<1>1. PICK first \in BOOLEAN, est \in Estimates, dt \in SampleTimes :
        LET x == IF first THEN resetReferences ELSE interpolation
        IN /\ isFirstMessage(first)
           /\ initializeCallback(first)
           /\ okMessage(first, met, est, dt)
           /\ IF has_new_goal(dt) THEN updateReferences(x, prepared(first, TRUE))
                                  ELSE UNCHANGED <<initial, goal, use_linear, resumed>>
           /\ IF active' THEN generateReferences(x)
                         ELSE interpolation' = x /\ outputs' = prepareOutputs(first)
           /\ divided' = ((divided /\ ~first) \/ dividesByZero)
  BY Zenon DEF OkReferences
<1>. DEFINE x == IF first THEN resetReferences ELSE interpolation
            p == prepared(first, TRUE)
            state == p.mgr.state[1]
<1>2. Outcome(p, dt) /\ StopInv'
  BY <1>1, OkMessageOutcome, Zenon DEF ReferenceInv
<1>3. TimeInv'
  BY <1>2, OkMessageTimes, Zenon DEF ReferenceInv
<1>4. /\ finite' \subseteq Coordinates
      /\ ~first => finite' \subseteq finite
      /\ ~divided' => ~dividesByZero
  <2>1. divided' = ((divided /\ ~first) \/ dividesByZero)
    BY <1>1, Zenon
  <2>. QED
    BY <2>1, Zenon DEF finite
<1>5. /\ Valid(finite', x)
      /\ \A c \in Coordinates : Full(x[c])
      /\ Valid(finite', prepareOutputs(first))
  BY <1>4, ResetFacts DEF ReferenceInv, ReferencesInv, Valid, prepareOutputs
<1>6. /\ has_new_goal(dt) => updateReferences(x, p)
      /\ ~has_new_goal(dt) => UNCHANGED <<initial, goal, resumed>>
      /\ active' => generateReferences(x)
      /\ ~active' => interpolation' = x /\ outputs' = prepareOutputs(first)
  BY <1>1, Zenon
<1>7. step'.interpolator.op \in Operations
  BY DEF TypeOK, MotionSteps
<1>8. p.active => active /\ ~first
  BY PreparedGoal, Zenon
<1>9. ~first => p.step = step
  BY PreparedGoal, Zenon
<1>. HIDE DEF x, p
<1>10. CASE ~active'
  BY <1>2, <1>3, <1>5, <1>6, <1>10 DEF ReferenceInv, ReferencesInv
<1>11. CASE active'
  <2>1. /\ Valid(finite', initial')
        /\ Valid(finite', goal')
        /\ GoalIs'
        /\ step'.interpolator.op = "Normal" => controller' \/ resumed'
    <3>1. CASE Taken(state, dt)
      <4>1. updateReferences(x, p)
        BY <1>6, <3>1 DEF Taken, has_new_goal
      <4>2. step'.interpolator.op = "Normal" => controller' \/ resumed'
        BY <3>1, <4>1 DEF Taken, updateReferences
      <4>3. Valid(finite', initial') /\ Valid(finite', goal') /\ GoalIs'
        BY <1>4, <1>5, <1>7, <4>1, UpdateFacts
      <4>. QED
        BY <4>2, <4>3
    <3>2. CASE Continued(p, dt)
      <4>1. p.active
        BY <1>11, <3>2 DEF Continued
      <4>2. /\ active
            /\ ~first
            /\ step'.external = step.external
            /\ step'.interpolator = step.interpolator
            /\ step'.time_passed = Cap(step.time_passed + dt)
            /\ controller' = controller
        BY <1>8, <1>9, <1>11, <3>2, <4>1 DEF Continued
      <4>3. step.time_passed \in Nat /\ step.time_passed > 0
        BY <4>2 DEF ReferenceInv, TimeInv, TypeOK, MotionSteps
      <4>4. Cap(step.time_passed + dt) # dt
        BY <4>3, CapFacts
      <4>5. ~has_new_goal(dt)
        BY <4>2, <4>4 DEF has_new_goal
      <4>6. /\ Valid(finite, initial)
            /\ Valid(finite, goal)
            /\ GoalIs
            /\ step.interpolator.op = "Normal" => controller \/ resumed
        BY <4>2 DEF ReferenceInv, ReferencesInv
      <4>7. Valid(finite', initial') /\ Valid(finite', goal')
        BY <1>4, <1>6, <4>2, <4>5, <4>6 DEF Valid
      <4>8. step'.interpolator.op = "Normal" => controller' \/ resumed'
        BY <1>6, <4>2, <4>5, <4>6, Zenon
      <4>9. GoalIs'
        BY <1>6, <4>2, <4>5, <4>6 DEF GoalIs
      <4>. QED
        BY <4>7, <4>8, <4>9
    <3>. QED
      BY <1>2, <1>11, <3>1, <3>2 DEF Outcome
  <2>2. controller' => step'.interpolator.op = "Normal"
    BY <1>11, OperationsTable DEF GoalInv, RampOutOnlyForNormalGoals, InterpolationFitsState
  <2>3. step'.interpolator.op = "Normal" /\ ~divided'
          => use_linear' \/ step'.interpolation.dur # 0
    BY <1>4, <1>11 DEF dividesByZero
  <2>4. generateReferences(x)
    BY <1>6, <1>11
  <2>5. Valid(finite', interpolation') /\ Valid(finite', outputs') /\ SentAtEnd'
    BY <1>5, <1>7, <2>1, <2>2, <2>3, <2>4, GenerateFacts
  <2>6. \A c \in Coordinates : Full(interpolation'[c])
    BY <1>7, <2>4, FullReferences
  <2>. QED
    BY <1>2, <1>3, <2>1, <2>5, <2>6 DEF ReferenceInv, ReferencesInv
<1>. QED
  BY <1>10, <1>11

\* A message whose states are not ok.
LEMMA NotOkReferencesStep ==
  ASSUME TypeOK, ManagerInv, ReferenceInv, NotOkReferences
  PROVE  ReferenceInv'
<1>1. PICK first \in BOOLEAN :
        /\ notOkMessage(first)
        /\ interpolation' = IF first \/ ~inactive THEN resetReferences ELSE interpolation
        /\ outputs' = prepareOutputs(first)
        /\ divided' = (divided /\ ~first)
        /\ UNCHANGED <<initial, goal, use_linear, resumed>>
  BY DEF NotOkReferences
<1>2. /\ ~active' \/ UNCHANGED <<step, active, controller>>
      /\ first \/ ~inactive => ~active'
      /\ TimeInv'
      /\ StopInv'
  BY <1>1, NotOkMessageTimes DEF ReferenceInv
<1>3. finite' \subseteq Coordinates /\ (~first => finite' = finite)
  BY <1>1, Zenon DEF finite
<1>4. /\ Valid(finite', interpolation')
      /\ \A c \in Coordinates : Full(interpolation'[c])
      /\ Valid(finite', outputs')
  BY <1>1, <1>3, ResetFacts DEF ReferenceInv, ReferencesInv, Valid, prepareOutputs
<1>5. CASE ~active'
  BY <1>2, <1>4, <1>5 DEF ReferenceInv, ReferencesInv
<1>6. CASE active' /\ UNCHANGED <<step, active, controller>>
  <2>1. outputs' = outputs /\ finite' = finite
    BY <1>1, <1>2, <1>3, <1>6 DEF prepareOutputs
  <2>2. /\ Valid(finite, initial)
        /\ Valid(finite, goal)
        /\ GoalIs
        /\ SentAtEnd
        /\ step.interpolator.op = "Normal" => controller \/ resumed
    BY <1>6 DEF ReferenceInv, ReferencesInv
  <2>3. GoalIs' /\ SentAtEnd'
    BY <1>1, <1>6, <2>1, <2>2, Zenon DEF GoalIs, SentAtEnd
  <2>4. step'.interpolator.op = "Normal" => controller' \/ resumed'
    BY <1>1, <1>6, <2>2, Zenon
  <2>5. Valid(finite', initial') /\ Valid(finite', goal')
    BY <1>1, <2>1, <2>2, Zenon
  <2>. QED
    BY <1>2, <1>4, <2>3, <2>4, <2>5 DEF ReferenceInv, ReferencesInv
<1>. QED
  BY <1>2, <1>5, <1>6

\* A command changes neither goals nor references.
LEMMA CommandReferencesStep ==
  ASSUME TypeOK, ReferenceInv, Command, UNCHANGED referenceVars
  PROVE  ReferenceInv'
<1>1. UNCHANGED <<step, active, controller, mgr>> /\ TimeInv' /\ StopInv'
  BY CommandTimes DEF ReferenceInv
<1>2. UNCHANGED <<interpolation, initial, goal, outputs, resumed, divided>>
  BY DEF referenceVars
<1>. QED
  BY <1>1, <1>2, Zenon DEF ReferenceInv, ReferencesInv, GoalIs, SentAtEnd, finite

\* Nothing is active when the interface has been constructed.
LEMMA ReferenceInvInit == ReferenceInit => ReferenceInv
<1>. SUFFICES ASSUME ReferenceInit
              PROVE  ReferenceInv
  OBVIOUS
<1>1. active = FALSE /\ executed = "Normal"
  BY Zenon DEF ReferenceInit, Init, executed, ResetManager
<1>2. /\ interpolation = resetReferences
      /\ outputs = sent(resetReferences)
  BY DEF ReferenceInit, resetReferences
<1>3. finite \subseteq Coordinates
  BY DEF finite
<1>. QED
  BY <1>1, <1>2, <1>3, ResetFacts DEF Valid, ReferenceInv, ReferencesInv, TimeInv, StopInv

\* Every message and every command keeps the invariant.
LEMMA ReferenceInvStep ==
  ASSUME TypeOK, ManagerInv, GoalInv, TypeOK', GoalInv', ReferenceInv,
         [ReferenceNext]_allVars
  PROVE  ReferenceInv'
<1>1. CASE NotOkReferences
  BY <1>1, NotOkReferencesStep
<1>2. CASE \E met \in SUBSET goalIds : OkReferences(met)
  BY <1>2, OkReferencesStep
<1>3. CASE Command /\ UNCHANGED referenceVars
  BY <1>3, CommandReferencesStep
<1>4. CASE UNCHANGED allVars
  BY <1>4, Zenon DEF allVars, vars, referenceVars, ReferenceInv, ReferencesInv, TimeInv, StopInv,
              GoalIs, SentAtEnd, finite, executed
<1>. QED
  BY <1>1, <1>2, <1>3, <1>4 DEF ReferenceNext

\* The references do not influence the control: every step of ReferenceSpec is
\* one of Spec, so that its invariants hold.
LEMMA ReferenceNextIsNext == [ReferenceNext]_allVars => [Next]_vars
<1>1. NotOkReferences => NotOkMessage
  BY DEF NotOkReferences, NotOkMessage
<1>2. ASSUME NEW met, OkReferences(met)
      PROVE  OkMessage(met)
  BY <1>2, Zenon DEF OkReferences, OkMessage
<1>. QED
  BY <1>1, <1>2, Zenon DEF ReferenceNext, Next, allVars

\* ... as behaviours.
LEMMA ReferenceSpecIsSpec == ReferenceSpec => Spec
<1>1. ReferenceInit => Init
  BY DEF ReferenceInit
<1>. QED
  BY <1>1, ReferenceNextIsNext, PTL DEF ReferenceSpec, Spec

\* The inductive invariant holds in every behaviour.
LEMMA ReferenceInvariant ==
  ReferenceSpec => [](TypeOK /\ ManagerInv /\ GoalInv /\ ReferenceInv)
<1>1. ReferenceInit => ReferenceInv
  BY ReferenceInvInit
<1>2. TypeOK /\ ManagerInv /\ GoalInv /\ TypeOK' /\ GoalInv' /\ ReferenceInv
        /\ [ReferenceNext]_allVars => ReferenceInv'
  BY ReferenceInvStep
<1>. QED
  BY <1>1, <1>2, ReferenceSpecIsSpec, TypeCorrect, ManagerInvariant, GoalInvariant, PTL
     DEF ReferenceSpec

(***************************************************************************)
(* The theorems.                                                           *)
(***************************************************************************)

\* When the duration of a normal goal has passed, also of one that was
\* interrupted and resumed, generateOutputs sends the position of the point
\* that was asked for.
THEOREM GoalsAreSent == ReferenceSpec => []GoalIsSent
<1>1. finite \subseteq Coordinates
  BY DEF finite
<1>2. TypeOK /\ GoalInv /\ ReferenceInv => GoalIsSent
  <2>. SUFFICES ASSUME TypeOK, GoalInv, ReferenceInv, finished, executed = "Normal",
                       NEW c \in finite
                PROVE  outputs[c].p = positionOf(step.external)
    BY DEF GoalIsSent
  <2>1. step.interpolator.op = "Normal"
    BY OperationsTable DEF GoalInv, InterpolationFitsState, finished
  <2>2. GoalIs /\ SentAtEnd
    BY DEF ReferenceInv, ReferencesInv, finished
  <2>3. goal[c].p = positionOf(step.external)
    BY <1>1, <2>1, <2>2 DEF GoalIs
  <2>4. outputs[c].p = goal[c].p
    BY <2>1, <2>2 DEF SentAtEnd, AtEnd, finished
  <2>. QED
    BY <2>3, <2>4
<1>. QED
  BY <1>2, ReferenceInvariant, PTL

\* A ramp down that was ordered to stop ends with no velocity in any finite
\* coordinate, although the coordinates are ramped down by different code.
THEOREM StopsAreStill == ReferenceSpec => []StopIsStill
<1>1. TypeOK /\ GoalInv /\ ReferenceInv => StopIsStill
  <2>. SUFFICES ASSUME TypeOK, GoalInv, ReferenceInv, mgr.state = <<"RampDown", "Finished">>,
                       events.do_stop, mgr.pending = NoPending, NEW c \in finite
                PROVE  outputs[c].v = Zero
    BY DEF StopIsStill
  <2>1. executed = "RampDown"
    BY DEF executed, NoPending
  <2>2. active /\ step.interpolator.op = "RampDown"
    BY <2>1, OperationsTable DEF GoalInv, GoalHasTrajectory, InterpolationFitsState
  <2>3. /\ step.interpolation.dur = RAMP_DOWN_STOP_DURATION
        /\ step.time_passed >= step.interpolator.dur
    BY <2>1 DEF ReferenceInv, StopInv
  <2>. QED
    BY <2>2, <2>3 DEF ReferenceInv, ReferencesInv, SentAtEnd, AtEnd
<1>. QED
  BY <1>1, ReferenceInvariant, PTL

\* At the end of a goal that has to be reached the controller has ramped the
\* velocity out, for every spline method, unless the goal was taken up at the end
\* of a ramp down.
THEOREM ReachedGoalsAtRest == ReferenceSpec => []RestAtReachedGoal
<1>1. TypeOK /\ GoalInv /\ ReferenceInv => RestAtReachedGoal
  BY OperationsTable DEF GoalInv, InterpolationFitsState, ReferenceInv, ReferencesInv, SentAtEnd, AtEnd,
     RestAtReachedGoal, finished
<1>. QED
  BY <1>1, ReferenceInvariant, PTL

\* Slerp::evaluate divides by the duration of the goal, and its result is the
\* start of the next goal.  No number that is sent becomes invalid in any other
\* way: none of an axis, and none of the orientation before such a division by
\* zero in the session.
THEOREM NumbersAreValid == ReferenceSpec => []NumbersStayValid
<1>1. ReferenceInv => NumbersStayValid
  BY DEF ReferenceInv, ReferencesInv, Valid, Sound, NumbersStayValid
<1>. QED
  BY <1>1, ReferenceInvariant, PTL

\* A static velocity goal, once ramped in, is the velocity that is sent; a
\* static position goal that was ramped in from rest is where the robot stays.
THEOREM StaticGoalsAreHeld == ReferenceSpec => []StaticGoalIsHeld
<1>1. ReferenceInv => StaticGoalIsHeld
  <2>1. finite \subseteq Coordinates
    BY DEF finite
  <2>. QED
    BY <2>1 DEF ReferenceInv, ReferencesInv, GoalIs, SentAtEnd, AtEnd, StaticGoalIsHeld, finished
<1>. QED
  BY <1>1, ReferenceInvariant, PTL
=============================================================================
