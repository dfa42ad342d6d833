----------------------- MODULE TrajectoryMotionProofs -----------------------
(***************************************************************************)
(* Proofs about TrajectoryMotion for every value of its constants.         *)
(***************************************************************************)
EXTENDS TrajectoryMotion, SequenceTheorems, WellFoundedInduction, TLAPS

(***************************************************************************)
(* Operators on numbers.                                                   *)
(***************************************************************************)

\* Max of two numbers is one of them and at least both; std::max in
\* storeNormalGoal and EGMInterpolator::update.
LEMMA MaxOfTwo ==
  ASSUME NEW a \in Int, NEW b \in Int
  PROVE  /\ Max({a, b}) \in {a, b}
         /\ Max({a, b}) >= a
         /\ Max({a, b}) >= b
<1>1. \E x \in {a, b} : \A y \in {a, b} : x >= y
  <2>1. CASE a >= b
    BY <2>1
  <2>2. CASE b >= a
    BY <2>2
  <2>. QED
    BY <2>1, <2>2
<1>. QED
  BY <1>1 DEF Max

\* Min of two numbers is one of them and at most both; std::min in saturate.
LEMMA MinOfTwo ==
  ASSUME NEW a \in Int, NEW b \in Int
  PROVE  /\ Min({a, b}) \in {a, b}
         /\ Min({a, b}) <= a
         /\ Min({a, b}) <= b
<1>1. \E x \in {a, b} : \A y \in {a, b} : x <= y
  <2>1. CASE a <= b
    BY <2>1
  <2>2. CASE b <= a
    BY <2>2
  <2>. QED
    BY <2>1, <2>2
<1>. QED
  BY <1>1 DEF Min

\* The durations of the code are numbers.
LEMMA DurationTypes ==
  /\ LOWEST_SAMPLE_TIME \in Nat
  /\ RAMP_DOWN_STOP_DURATION \in Nat
  /\ RAMP_DOWN_STOP_DURATION \div 2 \in Nat
  /\ STATIC_GOAL_DURATION \in Nat
  /\ STATIC_GOAL_DURATION_SHORT \in Nat
  /\ MaxDuration \in Nat
<1>1. RAMP_DOWN_STOP_DURATION \in Nat
  BY ConstantsAssumption
<1>2. RAMP_DOWN_STOP_DURATION \div 2 \in Nat
  BY <1>1
<1>. QED
  BY <1>1, <1>2, ConstantsAssumption

\* A bounded duration is a duration.
LEMMA CapType ==
  ASSUME NEW d \in Nat
  PROVE  Cap(d) \in Nat
BY DurationTypes DEF Cap

\* The durations of points.
LEMMA DurationsOfPoints ==
  /\ NoDuration \in Durations
  /\ \A d \in Nat \ {0} : d \in Durations
  /\ \A d \in Durations : d \in Nat \/ d = NoDuration
  /\ \A goal \in TrajectoryGoals : \A i \in DOMAIN goal :
       goal[i].dur \in Nat \cup {NoDuration} => goal[i].dur \in Durations
BY DEF Durations, ZeroDurations, NoDuration

\* saturate returns a number between its limits.
LEMMA SaturateRange ==
  ASSUME NEW x \in Nat, NEW lo \in Nat, NEW hi \in Nat, lo <= hi
  PROVE  /\ saturate(x, lo, hi) \in Nat
         /\ lo <= saturate(x, lo, hi)
         /\ saturate(x, lo, hi) <= hi
<1>. DEFINE m == Min({x, hi})
<1>1. m \in Nat /\ m <= hi
  <2>1. x \in Int /\ hi \in Int
    OBVIOUS
  <2>2. m \in {x, hi} /\ m <= hi
    BY <2>1, MinOfTwo, Zenon
  <2>. QED
    BY <2>2
<1>. HIDE DEF m
<1>2. /\ Max({lo, m}) \in {lo, m}
      /\ Max({lo, m}) >= lo
  BY <1>1, MaxOfTwo
<1>3. saturate(x, lo, hi) = Max({lo, m})
  BY DEF saturate, m
<1>. QED
  BY <1>1, <1>2, <1>3

(***************************************************************************)
(* The state manager.                                                      *)
(***************************************************************************)

\* No operation leaves the set of managers.
LEMMA ManagerType ==
  ASSUME NEW m \in Managers
  PROVE  /\ \A d \in StatePairs : setPendingState(m, d) \in Managers
         /\ updateState(m) \in Managers
         /\ activateStateManager(m) \in Managers
         /\ ResetManager \in Managers
BY DEF Managers, StatePairs, States, SubStates, setPendingState, updateState,
       activateStateManager, ResetManager, NoPending

(***************************************************************************)
(* The motion step and the trajectories.                                   *)
(***************************************************************************)

\* The operations of MotionStep return motion steps.
LEMMA MotionStepType ==
  ASSUME NEW s \in MotionSteps
  PROVE  /\ resetMotionStep(s) \in MotionSteps
         /\ \A last \in BOOLEAN, est \in Nat : prepareNormalGoal(s, last, est) \in MotionSteps
         /\ \A b \in BOOLEAN : prepareRampDownGoal(s, b) \in MotionSteps
         /\ \A op \in Operations, b \in BOOLEAN : prepareStaticGoal(s, op, b) \in MotionSteps
         /\ updateInterpolator(s) \in MotionSteps
         /\ \A dt \in Nat : evaluateInterpolator(s, dt) \in MotionSteps
<1>1. resetMotionStep(s) \in MotionSteps
  <2>1. NoPoint \in Points
    BY DurationsOfPoints DEF NoPoint, Points
  <2>. QED
    BY <2>1, Zenon DEF resetMotionStep, MotionSteps, NoGoal, Goals
<1>2. ASSUME NEW last \in BOOLEAN, NEW est \in Nat
      PROVE  prepareNormalGoal(s, last, est) \in MotionSteps
  <2>. DEFINE e == IF s.external.dur = NoDuration THEN est ELSE s.external.dur
              d == Cap(s.duration_factor * e)
  <2>1. e \in Nat
    BY DurationsOfPoints DEF MotionSteps, Points
  <2>2. s.duration_factor * e \in Nat
    BY <2>1 DEF MotionSteps
  <2>3. d \in Nat
    BY <2>2, CapType
  <2>4. s.external.reach \/ last \in BOOLEAN
    BY DEF MotionSteps, Points
  <2>. HIDE DEF d
  <2>. QED
    BY <2>3, <2>4, Zenon DEF prepareNormalGoal, MotionSteps, Goals, Operations, d
<1>3. ASSUME NEW b \in BOOLEAN
      PROVE  prepareRampDownGoal(s, b) \in MotionSteps
  BY DurationTypes DEF prepareRampDownGoal, MotionSteps, Operations
<1>4. ASSUME NEW op \in Operations, NEW b \in BOOLEAN
      PROVE  prepareStaticGoal(s, op, b) \in MotionSteps
  BY DurationTypes, Zenon DEF prepareStaticGoal, MotionSteps
<1>5. updateInterpolator(s) \in MotionSteps
  <2>. DEFINE c == s.conditions.dur
  <2>1. c \in Nat
    BY DEF MotionSteps
  <2>. HIDE DEF c
  <2>2. Max({LOWEST_SAMPLE_TIME, c}) \in Nat
    BY <2>1, MaxOfTwo, DurationTypes
  <2>. QED
    BY <2>1, <2>2, Zenon DEF updateInterpolator, MotionSteps, Goals, c
<1>6. ASSUME NEW dt \in Nat
      PROVE  evaluateInterpolator(s, dt) \in MotionSteps
  BY CapType DEF evaluateInterpolator, MotionSteps
<1>. QED
  BY <1>1, <1>2, <1>3, <1>4, <1>5, <1>6

\* The operation and the point that each prepare function leaves.
LEMMA PrepareEffect ==
  ASSUME NEW s \in MotionSteps
  PROVE  /\ \A last \in BOOLEAN, est \in Nat : prepareNormalGoal(s, last, est).conditions.op = "Normal"
         /\ \A b \in BOOLEAN : /\ prepareRampDownGoal(s, b).conditions.op = "RampDown"
                               /\ prepareRampDownGoal(s, b).external = s.external
         /\ \A op \in Operations, b \in BOOLEAN : prepareStaticGoal(s, op, b).conditions.op = op
BY DEF prepareNormalGoal, prepareRampDownGoal, prepareStaticGoal, MotionSteps

\* The operations on trajectories return trajectory containers.
LEMMA StoreType ==
  ASSUME NEW t \in TrajectoryContainers, NEW s \in MotionSteps
  PROVE  /\ storeNormalGoal(t, s).trj \in TrajectoryContainers
         /\ storeNormalGoal(t, s).step \in MotionSteps
<1>. DEFINE d == Max({LOWEST_SAMPLE_TIME, s.internal.dur - s.time_passed})
            p == [s.external EXCEPT !.dur = d]
<1>1. s.internal.dur - s.time_passed \in Int
  BY DEF MotionSteps, Goals
<1>2. d \in Nat /\ d >= LOWEST_SAMPLE_TIME
  BY <1>1, MaxOfTwo, DurationTypes
<1>. HIDE DEF d
<1>3. p \in Points
  <2>1. d \in Nat \ {0}
    BY <1>2, ConstantsAssumption
  <2>. QED
    BY <2>1, DurationsOfPoints DEF MotionSteps, Points
<1>4. <<p>> \o t.current \in Seq(Points)
  BY <1>3 DEF TrajectoryContainers
<1>. HIDE DEF p
<1>5. /\ [t EXCEPT !.current = <<p>> \o @] \in TrajectoryContainers
      /\ [s EXCEPT !.external = p] \in MotionSteps
  BY <1>3, <1>4, Zenon DEF TrajectoryContainers, MotionSteps
<1>6. storeNormalGoal(t, s) =
        IF t.has THEN [trj |-> [t EXCEPT !.current = <<p>> \o @],
                       step |-> [s EXCEPT !.external = p]]
                 ELSE [trj |-> t, step |-> s]
  BY DEF storeNormalGoal, p, d
<1>. QED
  BY <1>5, <1>6

\* The first open point of a trajectory is a point of the trajectory.
LEMMA MinOfOpen ==
  ASSUME NEW n \in Nat, NEW S \in SUBSET (1..n), S # {}
  PROVE  Min(S) \in S
<1>. DEFINE Less == OpToRel(<, Nat)
<1>1. \A x, y \in Nat : <<y, x>> \in Less <=> y < x
  BY DEF OpToRel
<1>2. IsWellFoundedOn(Less, Nat)
  BY NatLessThanWellFounded, Zenon
<1>. HIDE DEF Less
<1>3. S \subseteq Nat
  OBVIOUS
<1>4. \E x \in S : \A y \in S : ~ (<<y, x>> \in Less)
  BY <1>2, <1>3, WFMin, Zenon
<1>5. \E x \in S : \A y \in S : x <= y
  <2>1. PICK x \in S : \A y \in S : ~ (<<y, x>> \in Less)
    BY <1>4
  <2>2. ASSUME NEW y \in S
        PROVE  x <= y
    <3>1. x \in Nat /\ y \in Nat
      BY <1>3
    <3>2. ~ (y < x)
      BY <1>1, <2>1, <3>1, Zenon
    <3>. QED
      BY <3>1, <3>2
  <2>. QED
    BY <2>2
<1>. QED
  BY <1>5, Zenon DEF Min

\* The same for the loop of updateNormalGoal; it returns a truth value, and an
\* unsuccessful call leaves no current trajectory, a successful one a normal
\* goal to interpolate.
LEMMA UpdateNormalGoalType ==
  ASSUME NEW t \in TrajectoryContainers, NEW s \in MotionSteps, NEW met, NEW est \in Nat
  PROVE  LET g == updateNormalGoal(t, s, met, est)
         IN /\ g.trj \in TrajectoryContainers
            /\ g.step \in MotionSteps
            /\ g.success \in BOOLEAN
            /\ g.trj.has = g.success
            /\ g.success => g.step.conditions.op = "Normal"
<1>. DEFINE g == updateNormalGoal(t, s, met, est)
            q == t.current
            open == {i \in DOMAIN q : PointId(q[i]) \notin met}
            success == t.has /\ q # <<>> /\ (Head(q).reach => open # {})
            n == IF ~Head(q).reach THEN 1 ELSE IF open = {} THEN Len(q) ELSE Min(open)
<1>0. q \in Seq(Points) /\ t.has \in BOOLEAN
  BY DEF TrajectoryContainers
<1>1. CASE t.has /\ q # <<>>
  <2>1. g = [trj |-> [t EXCEPT !.has = success, !.current = SubSeq(q, n + 1, Len(q))],
             step |-> prepareNormalGoal([s EXCEPT !.external = q[n]], Len(q) = 1, est),
             success |-> success]
    BY <1>1 DEF updateNormalGoal
  <2>2. n \in 1..Len(q)
    <3>1. Len(q) \in Nat \ {0} /\ DOMAIN q = 1..Len(q)
      BY <1>0, <1>1
    <3>2. open # {} => Min(open) \in 1..Len(q)
      BY <3>1, MinOfOpen, Zenon
    <3>. HIDE DEF open, q
    <3>. QED
      BY <3>1, <3>2
  <2>. HIDE DEF n
  <2>3. q[n] \in Points
    BY <1>0, <2>2
  <2>4. SubSeq(q, n + 1, Len(q)) \in Seq(Points)
    BY <1>0, <2>2, SubSeqProperties
  <2>5. success \in BOOLEAN
    OBVIOUS
  <2>. HIDE DEF success
  <2>6. [t EXCEPT !.has = success, !.current = SubSeq(q, n + 1, Len(q))]
          \in TrajectoryContainers
    BY <2>4, <2>5, Zenon DEF TrajectoryContainers
  <2>7. [s EXCEPT !.external = q[n]] \in MotionSteps
    BY <2>3 DEF MotionSteps
  <2>8. prepareNormalGoal([s EXCEPT !.external = q[n]], Len(q) = 1, est) \in MotionSteps
    BY <2>7, MotionStepType, Zenon
  <2>9. /\ g.trj = [t EXCEPT !.has = success, !.current = SubSeq(q, n + 1, Len(q))]
        /\ g.step = prepareNormalGoal([s EXCEPT !.external = q[n]], Len(q) = 1, est)
        /\ g.success = success
    BY <2>1
  <2>10. g.trj.has = success /\ g.step.conditions.op = "Normal"
    <3>1. g.trj.has = success
      BY <2>9 DEF TrajectoryContainers
    <3>. DEFINE x == [s EXCEPT !.external = q[n]]
                last == Len(q) = 1
    <3>2. last \in BOOLEAN /\ g.step = prepareNormalGoal(x, last, est)
      BY <2>9
    <3>. HIDE DEF x, last, g
    <3>3. g.step.conditions.op = "Normal"
      BY <2>7, <3>2, PrepareEffect DEF x
    <3>. QED
      BY <3>1, <3>3 DEF g
  <2>. HIDE DEF g
  <2>11. /\ g.trj \in TrajectoryContainers
         /\ g.step \in MotionSteps
         /\ g.success \in BOOLEAN
         /\ g.trj.has = g.success
         /\ g.step.conditions.op = "Normal"
    BY <2>5, <2>6, <2>8, <2>9, <2>10
  <2>. QED
    BY <2>11 DEF g
<1>2. CASE ~(t.has /\ q # <<>>)
  BY <1>2, Zenon DEF updateNormalGoal, TrajectoryContainers
<1>. QED
  BY <1>1, <1>2

\* Empty trajectories and queues have their types.
LEMMA EmptyTypes == <<>> \in Seq(Points) /\ <<>> \in Seq(Seq(Points))
OBVIOUS

\* Storing the interrupted trajectory in front of the queue.
LEMMA ResetTrajectoriesType ==
  ASSUME NEW t \in TrajectoryContainers, NEW s \in MotionSteps
  PROVE  resetTrajectories(t, s) \in TrajectoryContainers
<1>. DEFINE c == storeNormalGoal(t, s).trj.current
<1>1. c \in Seq(Points)
  BY StoreType DEF TrajectoryContainers
<1>. HIDE DEF c
<1>2. <<c>> \o t.primary \in Seq(Seq(Points))
  BY <1>1 DEF TrajectoryContainers
<1>3. resetTrajectories(t, s) =
        IF t.has THEN [t EXCEPT !.has = FALSE, !.current = <<>>, !.primary = <<c>> \o @] ELSE t
  BY DEF resetTrajectories, c
<1>. QED
  BY <1>2, <1>3, EmptyTypes, Zenon DEF TrajectoryContainers

-----------------------------------------------------------------------------
(***************************************************************************)
(* Type correctness.                                                       *)
(***************************************************************************)

\* The object that prepare hands to the process functions.
PreparedObjects ==
  [mgr : Managers, trj : TrajectoryContainers, step : MotionSteps, active : BOOLEAN]

\* prepare returns such an object.
LEMMA PreparedType ==
  ASSUME TypeOK, NEW first \in BOOLEAN, NEW ok \in BOOLEAN
  PROVE  prepared(first, ok) \in PreparedObjects
<1>. DEFINE lost == ~first /\ ~ok /\ ~inactive
            reset == first \/ lost
            t == IF reset THEN resetTrajectories(trj, step) ELSE trj
<1>1. preparedManager(first, ok) \in Managers
  BY ManagerType DEF TypeOK, preparedManager
<1>2. t \in TrajectoryContainers
  BY ResetTrajectoriesType DEF TypeOK
<1>3. (IF reset THEN resetMotionStep(step) ELSE step) \in MotionSteps
  BY MotionStepType DEF TypeOK
<1>4. (active /\ ~reset) \in BOOLEAN
  OBVIOUS
<1>5. lost \in BOOLEAN
  OBVIOUS
<1>. HIDE DEF lost, reset, t
<1>6. (IF lost THEN [t EXCEPT !.primary = <<>>, !.temporary = <<>>] ELSE t)
        \in TrajectoryContainers
  BY <1>2, EmptyTypes, Zenon DEF TrajectoryContainers
<1>7. prepared(first, ok) =
        [mgr |-> preparedManager(first, ok),
         trj |-> IF lost THEN [t EXCEPT !.primary = <<>>, !.temporary = <<>>] ELSE t,
         step |-> IF reset THEN resetMotionStep(step) ELSE step,
         active |-> active /\ ~reset]
  BY DEF prepared, lost, reset, t
<1>. QED
  BY <1>1, <1>3, <1>4, <1>6, <1>7 DEF PreparedObjects

\* The part of TypeOK that does not concern the pending events and sessions.
MotionTypeOK ==
  /\ mgr \in Managers
  /\ trj \in TrajectoryContainers
  /\ step \in MotionSteps
  /\ active \in BOOLEAN
  /\ controller \in BOOLEAN
  /\ progress \in Progress
  /\ added \in Nat

\* The progress has its type.
LEMMA RecordProgressType ==
  ASSUME NEW m \in Managers, NEW t \in TrajectoryContainers, NEW a \in BOOLEAN,
         recordProgress(m, t, a)
  PROVE  progress' \in Progress
<1>1. m.state \in StatePairs
  BY DEF Managers
<1>2. Len(t.temporary) \in Nat /\ Len(t.primary) \in Nat
  BY DEF TrajectoryContainers
<1>. QED
  BY <1>1, <1>2 DEF recordProgress, Progress

\* The end of an ok message.
LEMMA FinishType ==
  ASSUME TypeOK,
         NEW m \in Managers, NEW t \in TrajectoryContainers, NEW s \in MotionSteps,
         NEW n \in BOOLEAN, NEW a \in BOOLEAN, NEW dt \in Nat,
         finish(m, t, s, n, a, dt)
  PROVE  MotionTypeOK'
<1>. DEFINE u == IF n THEN updateInterpolator(s) ELSE s
<1>1. u \in MotionSteps
  BY MotionStepType
<1>. HIDE DEF u
<1>2. /\ mgr' = m
      /\ trj' = t
      /\ step' = IF a THEN evaluateInterpolator(u, dt) ELSE u
      /\ active' = a
      /\ controller' = controllerUpdate(m.state[1], n)
      /\ recordProgress(m, t, a)
      /\ added' = added
  BY DEF finish, u
<1>3. step' \in MotionSteps
  BY <1>1, <1>2, MotionStepType, Zenon
<1>4. controller' \in BOOLEAN
  BY <1>2, Zenon DEF controllerUpdate, TypeOK
<1>5. progress' \in Progress
  BY <1>2, RecordProgressType
<1>. QED
  BY <1>2, <1>3, <1>4, <1>5 DEF MotionTypeOK, TypeOK

\* Taking a trajectory from the front of the queue.
LEMMA PopTrajectoryType ==
  ASSUME NEW t \in TrajectoryContainers
  PROVE  (IF ~t.has /\ t.primary # <<>>
            THEN [t EXCEPT !.has = TRUE, !.current = Head(t.primary), !.primary = Tail(@)]
            ELSE t) \in TrajectoryContainers
<1>1. CASE t.primary # <<>>
  <2>1. t.primary \in Seq(Seq(Points)) /\ t.primary # <<>>
    BY <1>1 DEF TrajectoryContainers
  <2>2. Head(t.primary) \in Seq(Points) /\ Tail(t.primary) \in Seq(Seq(Points))
    BY <2>1, HeadTailProperties
  <2>. QED
    BY <2>2, Zenon DEF TrajectoryContainers
<1>2. CASE t.primary = <<>>
  BY <1>2
<1>. QED
  BY <1>1, <1>2

\* One lemma per process function: it keeps the types, given what prepare
\* hands to it.
LEMMA NormalRunningType ==
  ASSUME TypeOK, NEW p \in PreparedObjects, NEW met, NEW est \in Nat, NEW dt \in Nat,
         normalRunning(p, met, est, dt)
  PROVE  MotionTypeOK' /\ events' = events
<1>. DEFINE start == ~p.trj.has /\ p.trj.primary # <<>>
            t == IF start THEN [p.trj EXCEPT !.has = TRUE, !.current = Head(p.trj.primary),
                                             !.primary = Tail(@)]
                          ELSE p.trj
            g == updateNormalGoal(t, p.step, met, est)
<1>0. /\ p.mgr \in Managers
      /\ p.trj \in TrajectoryContainers
      /\ p.step \in MotionSteps
      /\ p.active \in BOOLEAN
  BY DEF PreparedObjects
<1>1. t \in TrajectoryContainers
  BY <1>0, PopTrajectoryType, Zenon
<1>. HIDE DEF t
<1>2. g.trj \in TrajectoryContainers /\ g.step \in MotionSteps /\ g.success \in BOOLEAN
  BY <1>0, <1>1, UpdateNormalGoalType
<1>. HIDE DEF g
<1>3. setPendingState(p.mgr, <<"RampDown", "None">>) \in Managers
  BY <1>0, ManagerType DEF StatePairs, States, SubStates
<1>4. \/ finish(setPendingState(p.mgr, <<"RampDown", "None">>), p.trj, p.step, FALSE, p.active, dt)
      \/ finish(p.mgr, g.trj, g.step, g.success, g.success, dt)
      \/ finish(p.mgr, p.trj, p.step, FALSE, p.active, dt)
  BY Zenon DEF normalRunning, g, t
<1>5. MotionTypeOK'
  BY <1>0, <1>2, <1>3, <1>4, FinishType, Zenon
<1>. QED
  BY <1>5 DEF normalRunning

\* The beginning of a ramp down keeps the types.
LEMMA RampDownNoneType ==
  ASSUME TypeOK, NEW p \in PreparedObjects, NEW dt \in Nat, rampDownNone(p, dt)
  PROVE  MotionTypeOK' /\ events' = events
<1>. DEFINE s == prepareRampDownGoal(p.step, events.do_stop)
            g == IF p.active THEN storeNormalGoal(p.trj, s) ELSE [trj |-> p.trj, step |-> s]
<1>0. /\ p.mgr \in Managers
      /\ p.trj \in TrajectoryContainers
      /\ p.step \in MotionSteps
      /\ p.active \in BOOLEAN
      /\ events.do_stop \in BOOLEAN
  BY DEF PreparedObjects, TypeOK, PendingEvents
<1>1. s \in MotionSteps
  BY <1>0, MotionStepType, Zenon
<1>. HIDE DEF s
<1>2. g.trj \in TrajectoryContainers /\ g.step \in MotionSteps
  BY <1>0, <1>1, StoreType
<1>. HIDE DEF g
<1>3. setPendingState(p.mgr, <<"RampDown", "Running">>) \in Managers
  BY <1>0, ManagerType DEF StatePairs, States, SubStates
<1>4. finish(setPendingState(p.mgr, <<"RampDown", "Running">>), g.trj, g.step, TRUE, TRUE, dt)
  BY Zenon DEF rampDownNone, g, s
<1>5. MotionTypeOK'
  BY <1>2, <1>3, <1>4, FinishType, Zenon
<1>. QED
  BY <1>5 DEF rampDownNone

\* So does a ramp down that goes on,
LEMMA RampDownRunningType ==
  ASSUME TypeOK, NEW p \in PreparedObjects, NEW dt \in Nat, rampDownRunning(p, dt)
  PROVE  MotionTypeOK' /\ events' = events
<1>. DEFINE m == IF interpolationDurationReached(p.step)
                   THEN setPendingState(p.mgr, <<"RampDown", "Finished">>) ELSE p.mgr
<1>0. /\ p.mgr \in Managers
      /\ p.trj \in TrajectoryContainers
      /\ p.step \in MotionSteps
      /\ p.active \in BOOLEAN
  BY DEF PreparedObjects
<1>1. m \in Managers
  BY <1>0, ManagerType DEF StatePairs, States, SubStates
<1>2. finish(m, p.trj, p.step, FALSE, p.active, dt)
  BY Zenon DEF rampDownRunning
<1>. HIDE DEF m
<1>3. MotionTypeOK'
  BY <1>0, <1>1, <1>2, FinishType, Zenon
<1>. QED
  BY <1>3 DEF rampDownRunning

\* and one that is finished.
LEMMA RampDownFinishedType ==
  ASSUME TypeOK, NEW p \in PreparedObjects, NEW met, NEW est \in Nat, NEW dt \in Nat,
         rampDownFinished(p, met, est, dt)
  PROVE  MotionTypeOK' /\ events' \in PendingEvents
<1>. DEFINE s == IF events.do_duration_factor_update
                   THEN [p.step EXCEPT !.duration_factor = events.duration_factor] ELSE p.step
            t == IF events.do_discard
                   THEN [has |-> FALSE, current |-> <<>>, primary |-> p.trj.temporary,
                         temporary |-> <<>>]
                   ELSE p.trj
            g == updateNormalGoal(t, s, met, est)
            e == [events EXCEPT !.do_duration_factor_update = FALSE, !.do_discard = FALSE]
<1>0. /\ p.mgr \in Managers
      /\ p.trj \in TrajectoryContainers
      /\ p.step \in MotionSteps
      /\ p.active \in BOOLEAN
      /\ events \in PendingEvents
  BY DEF PreparedObjects, TypeOK
<1>1. s \in MotionSteps
  BY <1>0 DEF MotionSteps, PendingEvents
<1>2. t \in TrajectoryContainers
  BY <1>0, EmptyTypes DEF TrajectoryContainers
<1>. HIDE DEF s, t
<1>3. g.trj \in TrajectoryContainers /\ g.step \in MotionSteps /\ g.success \in BOOLEAN
  BY <1>1, <1>2, UpdateNormalGoalType
<1>. HIDE DEF g
<1>4. /\ setPendingState(p.mgr, <<"Normal", "Running">>) \in Managers
      /\ setPendingState(p.mgr, <<"StaticGoal", "None">>) \in Managers
  BY <1>0, ManagerType DEF StatePairs, States, SubStates
<1>5. /\ \/ finish(p.mgr, t, s, FALSE, p.active, dt)
         \/ finish(setPendingState(p.mgr, <<"StaticGoal", "None">>), t, s, FALSE, p.active, dt)
         \/ finish(setPendingState(p.mgr, <<"Normal", "Running">>),
                   g.trj, g.step, g.success, g.success, dt)
      /\ \/ events' = e
         \/ events' = [e EXCEPT !.do_ramp_down = FALSE, !.do_stop = FALSE, !.do_resume = FALSE]
         \/ events' = [e EXCEPT !.do_ramp_down = FALSE]
  BY Zenon DEF rampDownFinished, g, s, t
<1>6. MotionTypeOK'
  <2>1. CASE finish(p.mgr, t, s, FALSE, p.active, dt)
    BY <1>0, <1>1, <1>2, <2>1, FinishType, Zenon
  <2>2. CASE finish(setPendingState(p.mgr, <<"StaticGoal", "None">>), t, s, FALSE, p.active, dt)
    BY <1>0, <1>1, <1>2, <1>4, <2>2, FinishType, Zenon
  <2>3. CASE finish(setPendingState(p.mgr, <<"Normal", "Running">>),
                    g.trj, g.step, g.success, g.success, dt)
    BY <1>3, <1>4, <2>3, FinishType
  <2>. QED
    BY <1>5, <2>1, <2>2, <2>3, Zenon
<1>7. events' \in PendingEvents
  BY <1>0, <1>5, Zenon DEF PendingEvents
<1>. QED
  BY <1>6, <1>7

\* The beginning of a static goal keeps the types.
LEMMA StaticGoalNoneType ==
  ASSUME TypeOK, NEW p \in PreparedObjects, NEW dt \in Nat, staticGoalNone(p, dt)
  PROVE  MotionTypeOK' /\ events' = events
<1>. DEFINE t == IF p.trj.has THEN [p.trj EXCEPT !.has = FALSE, !.current = <<>>,
                                                 !.primary = <<p.trj.current>> \o @]
                              ELSE p.trj
<1>0. /\ p.mgr \in Managers
      /\ p.trj \in TrajectoryContainers
      /\ p.step \in MotionSteps
  BY DEF PreparedObjects
<1>1. <<p.trj.current>> \o p.trj.primary \in Seq(Seq(Points))
  BY <1>0 DEF TrajectoryContainers
<1>2. t \in TrajectoryContainers
  BY <1>0, <1>1, EmptyTypes, Zenon DEF TrajectoryContainers
<1>3. setPendingState(p.mgr, <<"StaticGoal", "Running">>) \in Managers
  BY <1>0, ManagerType DEF StatePairs, States, SubStates
<1>4. finish(setPendingState(p.mgr, <<"StaticGoal", "Running">>), t, p.step, FALSE, FALSE, dt)
  BY Zenon DEF staticGoalNone
<1>. HIDE DEF t
<1>5. MotionTypeOK'
  BY <1>0, <1>2, <1>3, <1>4, FinishType, Zenon
<1>. QED
  BY <1>5 DEF staticGoalNone

\* So does a static goal that is followed,
LEMMA StaticGoalRunningType ==
  ASSUME TypeOK, NEW p \in PreparedObjects, NEW dt \in Nat, staticGoalRunning(p, dt)
  PROVE  MotionTypeOK' /\ events' \in PendingEvents
<1>. DEFINE position == events.do_static_position_goal_update /\ ~events.do_ramp_down
            velocity == ~position /\ events.do_static_velocity_goal_update /\ ~events.do_ramp_down
            update == position \/ velocity
            m == CASE events.do_static_goal_finish
                        -> setPendingState(p.mgr, <<"StaticGoal", "Finished">>)
                   [] ~events.do_static_goal_finish /\ events.do_ramp_down
                        -> setPendingState(p.mgr, <<"RampDown", "None">>)
                   [] OTHER -> p.mgr
            s == IF update THEN prepareStaticGoal(p.step, IF position THEN "RampInPosition"
                                                                      ELSE "RampInVelocity",
                                                  events.do_static_goal_fast_update)
                           ELSE p.step
<1>0. /\ p.mgr \in Managers
      /\ p.trj \in TrajectoryContainers
      /\ p.step \in MotionSteps
      /\ p.active \in BOOLEAN
      /\ events \in PendingEvents
  BY DEF PreparedObjects, TypeOK
<1>1. position \in BOOLEAN /\ velocity \in BOOLEAN
  OBVIOUS
<1>2. /\ finish(m, p.trj, s, update, p.active \/ update, dt)
      /\ events' = [events EXCEPT !.do_static_position_goal_update = @ /\ ~position,
                                  !.do_static_velocity_goal_update = @ /\ ~velocity]
  BY DEF staticGoalRunning
<1>3. m \in Managers
  <2>1. /\ setPendingState(p.mgr, <<"StaticGoal", "Finished">>) \in Managers
        /\ setPendingState(p.mgr, <<"RampDown", "None">>) \in Managers
    BY <1>0, ManagerType DEF StatePairs, States, SubStates
  <2>2. events.do_static_goal_finish \in BOOLEAN /\ events.do_ramp_down \in BOOLEAN
    BY <1>0 DEF PendingEvents
  <2>. QED
    BY <1>0, <2>1, <2>2
<1>. HIDE DEF position, velocity, m
<1>4. s \in MotionSteps
  <2>1. events.do_static_goal_fast_update \in BOOLEAN
    BY <1>0 DEF PendingEvents
  <2>2. "RampInPosition" \in Operations /\ "RampInVelocity" \in Operations
    BY DEF Operations
  <2>3. \A op \in Operations :
          prepareStaticGoal(p.step, op, events.do_static_goal_fast_update) \in MotionSteps
    BY <1>0, <2>1, MotionStepType, Zenon
  <2>. QED
    BY <1>0, <1>1, <2>2, <2>3
<1>. HIDE DEF s
<1>5. update \in BOOLEAN /\ (p.active \/ update) \in BOOLEAN
  BY <1>0, <1>1
<1>. HIDE DEF update
<1>6. MotionTypeOK'
  BY <1>0, <1>2, <1>3, <1>4, <1>5, FinishType
<1>7. events' \in PendingEvents
  <2>. DEFINE a == events.do_static_position_goal_update /\ ~position
              b == events.do_static_velocity_goal_update /\ ~velocity
  <2>1. a \in BOOLEAN /\ b \in BOOLEAN
    OBVIOUS
  <2>2. events' = [events EXCEPT !.do_static_position_goal_update = a,
                                 !.do_static_velocity_goal_update = b]
    BY <1>2
  <2>. HIDE DEF a, b
  <2>. QED
    BY <1>0, <2>1, <2>2, Zenon DEF PendingEvents
<1>. QED
  BY <1>6, <1>7

\* and one that is finished.
LEMMA StaticGoalFinishedType ==
  ASSUME TypeOK, NEW p \in PreparedObjects, NEW dt \in Nat, staticGoalFinished(p, dt)
  PROVE  MotionTypeOK' /\ events' \in PendingEvents
<1>0. /\ p.mgr \in Managers
      /\ p.trj \in TrajectoryContainers
      /\ p.step \in MotionSteps
      /\ p.active \in BOOLEAN
  BY DEF PreparedObjects
<1>1. setPendingState(p.mgr, <<"RampDown", "None">>) \in Managers
  BY <1>0, ManagerType DEF StatePairs, States, SubStates
<1>2. finish(setPendingState(p.mgr, <<"RampDown", "None">>), p.trj, p.step, FALSE, p.active, dt)
  BY Zenon DEF staticGoalFinished
<1>3. MotionTypeOK'
  BY <1>0, <1>1, <1>2, FinishType, Zenon
<1>4. events' \in PendingEvents
  BY Zenon DEF staticGoalFinished, TypeOK, PendingEvents
<1>. QED
  BY <1>3, <1>4

\* A message, ok or not, keeps the types.
LEMMA OkMessageType ==
  ASSUME TypeOK, NEW first \in BOOLEAN, NEW met, NEW est \in Nat, NEW dt \in Nat,
         okMessage(first, met, est, dt)
  PROVE  MotionTypeOK' /\ events' \in PendingEvents
<1>. DEFINE p == prepared(first, TRUE)
<1>1. p \in PreparedObjects
  BY PreparedType, Zenon
<1>2. \/ normalRunning(p, met, est, dt)
      \/ rampDownNone(p, dt)
      \/ rampDownRunning(p, dt)
      \/ rampDownFinished(p, met, est, dt)
      \/ staticGoalNone(p, dt)
      \/ staticGoalRunning(p, dt)
      \/ staticGoalFinished(p, dt)
  BY Zenon DEF okMessage
<1>3. events \in PendingEvents
  BY DEF TypeOK
<1>. HIDE DEF p
<1>4. CASE normalRunning(p, met, est, dt)
  BY <1>1, <1>3, <1>4, NormalRunningType
<1>5. CASE rampDownNone(p, dt)
  BY <1>1, <1>3, <1>5, RampDownNoneType
<1>6. CASE rampDownRunning(p, dt)
  BY <1>1, <1>3, <1>6, RampDownRunningType
<1>7. CASE rampDownFinished(p, met, est, dt)
  BY <1>1, <1>7, RampDownFinishedType
<1>8. CASE staticGoalNone(p, dt)
  BY <1>1, <1>3, <1>8, StaticGoalNoneType
<1>9. CASE staticGoalRunning(p, dt)
  BY <1>1, <1>9, StaticGoalRunningType
<1>10. CASE staticGoalFinished(p, dt)
  BY <1>1, <1>10, StaticGoalFinishedType
<1>. QED
  BY <1>2, <1>4, <1>5, <1>6, <1>7, <1>8, <1>9, <1>10

\* The same for a message that finds the states not ok.
LEMMA NotOkMessageType ==
  ASSUME TypeOK, NEW first \in BOOLEAN, notOkMessage(first)
  PROVE  MotionTypeOK' /\ events' \in PendingEvents
<1>. DEFINE p == prepared(first, FALSE)
<1>1. p \in PreparedObjects
  BY PreparedType, Zenon
<1>2. /\ mgr' = p.mgr
      /\ trj' = p.trj
      /\ step' = p.step
      /\ active' = p.active
      /\ recordProgress(p.mgr, p.trj, p.active)
      /\ UNCHANGED <<events, controller, added>>
  BY Zenon DEF notOkMessage
<1>. HIDE DEF p
<1>3. /\ p.mgr \in Managers
      /\ p.trj \in TrajectoryContainers
      /\ p.step \in MotionSteps
      /\ p.active \in BOOLEAN
  BY <1>1 DEF PreparedObjects
<1>4. progress' \in Progress
  BY <1>2, <1>3, RecordProgressType
<1>. QED
  BY <1>2, <1>3, <1>4 DEF MotionTypeOK, TypeOK

\* The points of an added trajectory form a trajectory.
LEMMA AddedPointsType ==
  ASSUME NEW goal \in TrajectoryGoals, NEW n \in Nat
  PROVE  [i \in DOMAIN goal |-> [traj |-> n, left |-> Len(goal) - i,
                                 reach |-> goal[i].reach, dur |-> goal[i].dur]] \in Seq(Points)
<1>. DEFINE points == [i \in DOMAIN goal |-> [traj |-> n, left |-> Len(goal) - i,
                                              reach |-> goal[i].reach, dur |-> goal[i].dur]]
<1>1. goal \in Seq(PointGoals)
  BY ConstantsAssumption
<1>2. Len(goal) \in Nat /\ DOMAIN goal = 1..Len(goal)
  BY <1>1
<1>3. ASSUME NEW i \in 1..Len(goal)
      PROVE  points[i] \in Points
  <2>1. goal[i] \in PointGoals
    BY <1>1, <1>3
  <2>2. Len(goal) - i \in Nat
    BY <1>2, <1>3
  <2>3. goal[i].dur \in Durations
    BY <1>2, <2>1, DurationsOfPoints DEF PointGoals
  <2>. QED
    BY <1>2, <2>1, <2>2, <2>3 DEF Points, PointGoals
<1>4. points \in [1..Len(goal) -> Points]
  BY <1>2, <1>3
<1>. HIDE DEF points
<1>5. points \in Seq(Points)
  BY <1>2, <1>4, SeqDef
<1>. QED
  BY <1>5 DEF points

\* Every user command keeps the types.
LEMMA AddTrajectoryType ==
  ASSUME TypeOK, NEW goal \in TrajectoryGoals, NEW o \in BOOLEAN, addTrajectory(goal, o)
  PROVE  TypeOK'
<1>. DEFINE n == added + 1
            points == [i \in DOMAIN goal |-> [traj |-> n, left |-> Len(goal) - i,
                                              reach |-> goal[i].reach, dur |-> goal[i].dur]]
<1>1. n \in Nat
  BY DEF TypeOK
<1>2. points \in Seq(Points)
  BY <1>1, AddedPointsType
<1>3. /\ added' = n
      /\ \/ /\ trj' = [trj EXCEPT !.temporary = <<points>>]
            /\ events' = [events EXCEPT !.do_ramp_down = TRUE, !.do_stop = TRUE,
                                        !.do_discard = TRUE, !.do_resume = TRUE]
         \/ /\ \/ trj' = [trj EXCEPT !.temporary = Append(@, points)]
               \/ trj' = [trj EXCEPT !.primary = Append(@, points)]
            /\ events' = events
      /\ commandFrame
  BY DEF addTrajectory
<1>. HIDE DEF points, n
<1>4. /\ <<points>> \in Seq(Seq(Points))
      /\ Append(trj.temporary, points) \in Seq(Seq(Points))
      /\ Append(trj.primary, points) \in Seq(Seq(Points))
  BY <1>2 DEF TypeOK, TrajectoryContainers
<1>5. trj' \in TrajectoryContainers
  BY <1>3, <1>4, Zenon DEF TypeOK, TrajectoryContainers
<1>6. events' \in PendingEvents
  BY <1>3, Zenon DEF TypeOK, PendingEvents
<1>. QED
  BY <1>1, <1>3, <1>5, <1>6 DEF TypeOK, commandFrame

\* The other commands change the pending events only.
LEMMA CommandType ==
  ASSUME TypeOK, Command
  PROVE  TypeOK'
<1>1. CASE \E goal \in TrajectoryGoals, o \in BOOLEAN : addTrajectory(goal, o)
  BY <1>1, AddTrajectoryType
<1>2. CASE \E d \in BOOLEAN : stopTrajectory(d)
  BY <1>2, Zenon DEF stopTrajectory, commandFrame, TypeOK, PendingEvents
<1>3. CASE resumeTrajectory
  BY <1>3, Zenon DEF resumeTrajectory, commandFrame, TypeOK, PendingEvents
<1>4. CASE \E f \in Factors : updateDurationFactor(f)
  <2>1. PICK f \in Factors : updateDurationFactor(f)
    BY <1>4
  <2>2. saturate(f, DURATION_FACTOR_MIN, DURATION_FACTOR_MAX) \in Nat \ {0}
    <3>. DEFINE x == saturate(f, DURATION_FACTOR_MIN, DURATION_FACTOR_MAX)
    <3>1. /\ f \in Nat
          /\ DURATION_FACTOR_MIN \in Nat
          /\ DURATION_FACTOR_MIN # 0
          /\ DURATION_FACTOR_MAX \in Nat
          /\ DURATION_FACTOR_MIN <= DURATION_FACTOR_MAX
      BY ConstantsAssumption
    <3>2. x \in Nat /\ DURATION_FACTOR_MIN <= x
      BY <3>1, SaturateRange, Zenon
    <3>. HIDE DEF x
    <3>3. x \in Nat \ {0}
      BY <3>1, <3>2
    <3>. QED
      BY <3>3 DEF x
  <2>. QED
    BY <2>1, <2>2, Zenon DEF updateDurationFactor, commandFrame, TypeOK, PendingEvents
<1>5. CASE \E d \in BOOLEAN : startStaticGoal(d)
  BY <1>5, Zenon DEF startStaticGoal, commandFrame, TypeOK, PendingEvents
<1>6. CASE \E k \in {"position", "velocity"}, fast \in BOOLEAN : setStaticGoal(k, fast)
  <2>1. PICK k \in {"position", "velocity"}, fast \in BOOLEAN : setStaticGoal(k, fast)
    BY <1>6
  <2>. DEFINE slow == ~fast
              position == k = "position"
              velocity == k = "velocity"
  <2>2. slow \in BOOLEAN /\ position \in BOOLEAN /\ velocity \in BOOLEAN
    OBVIOUS
  <2>3. /\ events' = [events EXCEPT !.do_ramp_down = slow, !.do_stop = slow,
                                    !.do_resume = TRUE, !.do_static_goal_fast_update = fast,
                                    !.do_static_position_goal_update = position,
                                    !.do_static_velocity_goal_update = velocity]
        /\ commandFrame
        /\ UNCHANGED <<trj, added>>
    BY <2>1 DEF setStaticGoal
  <2>. HIDE DEF slow, position, velocity
  <2>. DEFINE e == [events EXCEPT !.do_ramp_down = slow, !.do_stop = slow]
              f == [e EXCEPT !.do_resume = TRUE, !.do_static_goal_fast_update = fast]
  <2>4. events' \in PendingEvents
    <3>1. e \in PendingEvents
      BY <2>2, Zenon DEF TypeOK, PendingEvents
    <3>2. events' = [f EXCEPT !.do_static_position_goal_update = position,
                              !.do_static_velocity_goal_update = velocity]
      BY <2>3
    <3>. HIDE DEF e
    <3>3. f \in PendingEvents
      BY <2>2, <3>1, Zenon DEF PendingEvents
    <3>. HIDE DEF f
    <3>. QED
      BY <2>2, <3>2, <3>3, Zenon DEF PendingEvents
  <2>. QED
    BY <2>3, <2>4 DEF commandFrame, TypeOK
<1>7. CASE \E r \in BOOLEAN : finishStaticGoal(r)
  BY <1>7, Zenon DEF finishStaticGoal, commandFrame, TypeOK, PendingEvents
<1>8. CASE retrieveExecutionProgress
  BY <1>8, Zenon DEF retrieveExecutionProgress, TypeOK, Progress
<1>. QED
  BY <1>1, <1>2, <1>3, <1>4, <1>5, <1>6, <1>7, <1>8 DEF Command

\* TypeOK is inductive.
LEMMA TypeInit == Init => TypeOK
<1>. SUFFICES ASSUME Init
              PROVE  TypeOK
  OBVIOUS
<1>1. mgr \in Managers
  BY ManagerType DEF Init, Managers, ResetManager, StatePairs, States, SubStates, NoPending
<1>2. events \in PendingEvents
  BY DEF Init, PendingEvents
<1>3. trj \in TrajectoryContainers
  BY EmptyTypes DEF Init, TrajectoryContainers
<1>4. step \in MotionSteps
  BY DurationsOfPoints DEF Init, MotionSteps, Points, NoPoint, Goals, NoGoal, Operations
<1>5. progress \in Progress
  BY DEF Init, Progress, StatePairs, States, SubStates
<1>. QED
  BY <1>1, <1>2, <1>3, <1>4, <1>5, Zenon DEF Init, TypeOK

\* Every step preserves the types.
LEMMA TypeStep == TypeOK /\ [Next]_vars => TypeOK'
<1>. SUFFICES ASSUME TypeOK, [Next]_vars
              PROVE  TypeOK'
  OBVIOUS
<1>1. CASE NotOkMessage
  <2>1. PICK first \in BOOLEAN : isFirstMessage(first) /\ notOkMessage(first)
    BY <1>1 DEF NotOkMessage
  <2>2. MotionTypeOK' /\ events' \in PendingEvents
    BY <2>1, NotOkMessageType
  <2>3. sessions' \in Nat
    BY <2>1 DEF isFirstMessage, TypeOK
  <2>. QED
    BY <2>2, <2>3 DEF MotionTypeOK, TypeOK
<1>2. ASSUME NEW met \in SUBSET goalIds, OkMessage(met)
      PROVE  TypeOK'
  <2>1. PICK first \in BOOLEAN, est \in Estimates, dt \in SampleTimes :
               isFirstMessage(first) /\ okMessage(first, met, est, dt)
    BY <1>2 DEF OkMessage
  <2>2. est \in Nat /\ dt \in Nat
    BY ConstantsAssumption
  <2>3. MotionTypeOK' /\ events' \in PendingEvents
    BY <2>1, <2>2, OkMessageType
  <2>4. sessions' \in Nat
    BY <2>1 DEF isFirstMessage, TypeOK
  <2>. QED
    BY <2>3, <2>4 DEF MotionTypeOK, TypeOK
<1>3. CASE Command
  BY <1>3, CommandType
<1>4. CASE UNCHANGED vars
  BY <1>4 DEF vars, TypeOK
<1>. QED
  BY <1>1, <1>2, <1>3, <1>4 DEF Next

\* Every state of every execution is type correct, for all trajectories,
\* durations, factors and sample times; in particular no stored duration is
\* negative.
THEOREM TypeCorrect == Spec => []TypeOK
BY TypeInit, TypeStep, PTL DEF Spec

(***************************************************************************)
(* TrajectoryMotion implements ExecutionStates, and its state manager      *)
(* never gets into a pair that "should never occur" nor stuck in one that  *)
(* only prepares the next.                                                 *)
(***************************************************************************)

\* The transition table of setPendingState, row by row.
LEMMA AcceptedTable ==
  /\ Accepted[<<"Normal", "None">>] = {}
  /\ Accepted[<<"Normal", "Running">>] = {<<"RampDown", "None">>}
  /\ Accepted[<<"Normal", "Finished">>] = {}
  /\ Accepted[<<"RampDown", "None">>] = {<<"RampDown", "Running">>}
  /\ Accepted[<<"RampDown", "Running">>] = {<<"RampDown", "Finished">>}
  /\ Accepted[<<"RampDown", "Finished">>] = {<<"Normal", "Running">>, <<"StaticGoal", "None">>}
  /\ Accepted[<<"StaticGoal", "None">>] = {<<"StaticGoal", "Running">>}
  /\ Accepted[<<"StaticGoal", "Running">>] = {<<"StaticGoal", "Finished">>, <<"RampDown", "None">>}
  /\ Accepted[<<"StaticGoal", "Finished">>] = {<<"RampDown", "None">>}
BY DEF Accepted, StatePairs, States, SubStates

\* The pairs that only prepare the next one.
Transient == {<<"RampDown", "None">>, <<"StaticGoal", "None">>, <<"StaticGoal", "Finished">>}

\* The inductive invariant of the state manager: a pending pair is one that
\* setPendingState accepted in the current pair (commands and messages never
\* change the current pair underneath a pending one).
ManagerInv ==
  /\ mgr.state # <<"Normal", "Finished">>
  /\ mgr.pending # NoPending => mgr.pending \in Accepted[mgr.state]
  /\ TransientStatesMoveOn

\* setPendingState keeps the current pair and leaves an accepted pair pending.
LEMMA SetPendingStateEffect ==
  ASSUME NEW m \in Managers, NEW d \in StatePairs
  PROVE  /\ setPendingState(m, d).state = m.state
         /\ setPendingState(m, d).pending = m.pending
              \/ setPendingState(m, d).pending \in Accepted[m.state]
         /\ d \in Accepted[m.state] => setPendingState(m, d).pending = d
BY DEF setPendingState, Managers

\* An ok message is dispatched on a pair without a pending one.
LEMMA PreparedManagerEffect ==
  ASSUME TypeOK, ManagerInv, NEW first \in BOOLEAN
  PROVE  /\ preparedManager(first, TRUE).pending = NoPending
         /\ preparedManager(first, TRUE).state
              \notin {<<"Normal", "None">>, <<"Normal", "Finished">>}
         /\ \/ preparedManager(first, TRUE).state = <<"Normal", "Running">>
            \/ ~first /\ preparedManager(first, TRUE).state = mgr.state
            \/ ~first /\ preparedManager(first, TRUE).state \in Accepted[mgr.state]
<1>. DEFINE m == preparedManager(first, TRUE)
            goal == /\ m.pending = NoPending
                    /\ m.state \notin {<<"Normal", "None">>, <<"Normal", "Finished">>}
                    /\ \/ m.state = <<"Normal", "Running">>
                       \/ ~first /\ m.state = mgr.state
                       \/ ~first /\ m.state \in Accepted[mgr.state]
<1>0. /\ mgr.state \in StatePairs
      /\ mgr = [state |-> mgr.state, pending |-> mgr.pending]
  BY DEF TypeOK, Managers
<1>1. CASE first \/ mgr.state = <<"Normal", "None">>
  <2>1. first \/ mgr = ResetManager
    BY <1>0, <1>1, AcceptedTable DEF ManagerInv, ResetManager
  <2>2. m = [state |-> <<"Normal", "Running">>, pending |-> NoPending]
    BY <2>1 DEF preparedManager, ResetManager, updateState, activateStateManager, NoPending
  <2>. HIDE DEF m
  <2>3. goal
    BY <2>2
  <2>. QED
    BY <2>3, Zenon DEF m
<1>2. CASE ~first /\ mgr.state # <<"Normal", "None">> /\ mgr.pending = NoPending
  <2>1. m = mgr
    BY <1>2 DEF preparedManager, updateState
  <2>. HIDE DEF m
  <2>2. goal
    BY <1>2, <2>1 DEF ManagerInv
  <2>. QED
    BY <2>2, Zenon DEF m
<1>3. CASE ~first /\ mgr.state # <<"Normal", "None">> /\ mgr.pending # NoPending
  <2>1. m = [state |-> mgr.pending, pending |-> NoPending]
    BY <1>3 DEF preparedManager, updateState
  <2>2. mgr.pending \in Accepted[mgr.state]
    BY <1>3 DEF ManagerInv
  <2>3. mgr.pending \notin {<<"Normal", "None">>, <<"Normal", "Finished">>}
    BY <1>0, <2>2, AcceptedTable DEF StatePairs, States, SubStates
  <2>. HIDE DEF m
  <2>4. goal
    BY <1>3, <2>1, <2>2, <2>3
  <2>. QED
    BY <2>4, Zenon DEF m
<1>. QED
  BY <1>1, <1>2, <1>3, Zenon

\* The process functions keep the pair they are dispatched on; what they leave
\* pending was accepted, and a transient pair always gets a successor.
LEMMA OkMessageManager ==
  ASSUME TypeOK, ManagerInv, NEW first \in BOOLEAN, NEW met, NEW est \in Nat, NEW dt \in Nat,
         okMessage(first, met, est, dt)
  PROVE  /\ mgr'.state = preparedManager(first, TRUE).state
         /\ mgr'.pending = NoPending \/ mgr'.pending \in Accepted[mgr'.state]
         /\ mgr'.state \in Transient => mgr'.pending # NoPending
<1>. DEFINE p == prepared(first, TRUE)
            m == p.mgr
            goal == /\ mgr'.state = m.state
                    /\ mgr'.pending = NoPending \/ mgr'.pending \in Accepted[mgr'.state]
                    /\ mgr'.state \in Transient => mgr'.pending # NoPending
<1>m. m = preparedManager(first, TRUE)
  BY DEF prepared
<1>0. /\ m \in Managers
      /\ m.pending = NoPending
  BY <1>m, PreparedType, PreparedManagerEffect, Zenon DEF PreparedObjects
<1>1. okMessage(first, met, est, dt)
        => \/ normalRunning(p, met, est, dt)
           \/ rampDownNone(p, dt)
           \/ rampDownRunning(p, dt)
           \/ rampDownFinished(p, met, est, dt)
           \/ staticGoalNone(p, dt)
           \/ staticGoalRunning(p, dt)
           \/ staticGoalFinished(p, dt)
  BY Zenon DEF okMessage
<1>2. \A d \in StatePairs : /\ setPendingState(m, d).state = m.state
                            /\ \/ setPendingState(m, d).pending = NoPending
                               \/ setPendingState(m, d).pending \in Accepted[m.state]
                            /\ d \in Accepted[m.state] => setPendingState(m, d).pending = d
  BY <1>0, SetPendingStateEffect, Zenon
<1>3. NoPending \notin StatePairs
  BY DEF NoPending, StatePairs, States, SubStates
<1>. HIDE DEF p
<1>4. ASSUME normalRunning(p, met, est, dt)
      PROVE  goal
  <2>1. /\ m.state = <<"Normal", "Running">>
        /\ mgr' = m \/ mgr' = setPendingState(m, <<"RampDown", "None">>)
    BY <1>4, Zenon DEF normalRunning, finish
  <2>. QED
    BY <1>0, <1>2, <2>1 DEF StatePairs, States, SubStates, Transient
<1>5. ASSUME rampDownNone(p, dt)
      PROVE  goal
  <2>1. /\ m.state = <<"RampDown", "None">>
        /\ mgr' = setPendingState(m, <<"RampDown", "Running">>)
    BY <1>5 DEF rampDownNone, finish
  <2>2. <<"RampDown", "Running">> \in Accepted[m.state] /\ <<"RampDown", "Running">> \in StatePairs
    BY <2>1, AcceptedTable DEF StatePairs, States, SubStates
  <2>. QED
    BY <1>0, <1>2, <1>3, <2>1, <2>2
<1>6. ASSUME rampDownRunning(p, dt)
      PROVE  goal
  <2>1. /\ m.state = <<"RampDown", "Running">>
        /\ mgr' = m \/ mgr' = setPendingState(m, <<"RampDown", "Finished">>)
    BY <1>6 DEF rampDownRunning, finish
  <2>. QED
    BY <1>0, <1>2, <2>1 DEF StatePairs, States, SubStates, Transient
<1>7. ASSUME rampDownFinished(p, met, est, dt)
      PROVE  goal
  <2>1. /\ m.state = <<"RampDown", "Finished">>
        /\ \/ mgr' = m
           \/ mgr' = setPendingState(m, <<"StaticGoal", "None">>)
           \/ mgr' = setPendingState(m, <<"Normal", "Running">>)
    BY <1>7, Zenon DEF rampDownFinished, finish
  <2>. QED
    BY <1>0, <1>2, <2>1 DEF StatePairs, States, SubStates, Transient
<1>8. ASSUME staticGoalNone(p, dt)
      PROVE  goal
  <2>1. /\ m.state = <<"StaticGoal", "None">>
        /\ mgr' = setPendingState(m, <<"StaticGoal", "Running">>)
    BY <1>8 DEF staticGoalNone, finish
  <2>2. <<"StaticGoal", "Running">> \in Accepted[m.state]
          /\ <<"StaticGoal", "Running">> \in StatePairs
    BY <2>1, AcceptedTable DEF StatePairs, States, SubStates
  <2>. QED
    BY <1>0, <1>2, <1>3, <2>1, <2>2
<1>9. ASSUME staticGoalRunning(p, dt)
      PROVE  goal
  <2>1. /\ m.state = <<"StaticGoal", "Running">>
        /\ \/ mgr' = m
           \/ mgr' = setPendingState(m, <<"StaticGoal", "Finished">>)
           \/ mgr' = setPendingState(m, <<"RampDown", "None">>)
    BY <1>9 DEF staticGoalRunning, finish
  <2>. QED
    BY <1>0, <1>2, <2>1 DEF StatePairs, States, SubStates, Transient
<1>10. ASSUME staticGoalFinished(p, dt)
       PROVE  goal
  <2>1. /\ m.state = <<"StaticGoal", "Finished">>
        /\ mgr' = setPendingState(m, <<"RampDown", "None">>)
    BY <1>10 DEF staticGoalFinished, finish
  <2>2. <<"RampDown", "None">> \in Accepted[m.state] /\ <<"RampDown", "None">> \in StatePairs
    BY <2>1, AcceptedTable DEF StatePairs, States, SubStates
  <2>. QED
    BY <1>0, <1>2, <1>3, <2>1, <2>2
<1>11. goal
  BY <1>1, <1>4, <1>5, <1>6, <1>7, <1>8, <1>9, <1>10, Zenon
<1>. QED
  BY <1>m, <1>11, Zenon

\* A message that is not ok leaves the manager as it is, or reset.
LEMMA NotOkMessageManager ==
  ASSUME TypeOK, NEW first \in BOOLEAN, notOkMessage(first)
  PROVE  mgr' = ResetManager \/ mgr' = mgr
BY DEF notOkMessage, prepared, preparedManager

\* Commands leave the manager alone.
LEMMA CommandManager ==
  ASSUME Command
  PROVE  mgr' = mgr
BY Zenon DEF Command, addTrajectory, stopTrajectory, resumeTrajectory, updateDurationFactor,
       startStaticGoal, setStaticGoal, finishStaticGoal, retrieveExecutionProgress, commandFrame

\* What any step does to the manager.
LEMMA StepManager ==
  ASSUME TypeOK, ManagerInv, [Next]_vars
  PROVE  \/ mgr' = mgr
         \/ mgr' = ResetManager
         \/ /\ \/ mgr'.state = <<"Normal", "Running">>
               \/ mgr'.state = mgr.state
               \/ mgr'.state \in Accepted[mgr.state]
            /\ mgr'.state \notin {<<"Normal", "None">>, <<"Normal", "Finished">>}
            /\ mgr'.pending = NoPending \/ mgr'.pending \in Accepted[mgr'.state]
            /\ mgr'.state \in Transient => mgr'.pending # NoPending
<1>1. CASE NotOkMessage
  BY <1>1, NotOkMessageManager DEF NotOkMessage
<1>2. ASSUME NEW met \in SUBSET goalIds, OkMessage(met)
      PROVE  /\ \/ mgr'.state = <<"Normal", "Running">>
                \/ mgr'.state = mgr.state
                \/ mgr'.state \in Accepted[mgr.state]
             /\ mgr'.state \notin {<<"Normal", "None">>, <<"Normal", "Finished">>}
             /\ mgr'.pending = NoPending \/ mgr'.pending \in Accepted[mgr'.state]
             /\ mgr'.state \in Transient => mgr'.pending # NoPending
  <2>1. PICK first \in BOOLEAN, est \in Estimates, dt \in SampleTimes :
               okMessage(first, met, est, dt)
    BY <1>2 DEF OkMessage
  <2>2. est \in Nat /\ dt \in Nat
    BY ConstantsAssumption
  <2>. DEFINE m == preparedManager(first, TRUE)
  <2>3. /\ mgr'.state = m.state
        /\ mgr'.pending = NoPending \/ mgr'.pending \in Accepted[mgr'.state]
        /\ mgr'.state \in Transient => mgr'.pending # NoPending
    BY <2>1, <2>2, OkMessageManager, Zenon
  <2>4. /\ m.state \notin {<<"Normal", "None">>, <<"Normal", "Finished">>}
        /\ \/ m.state = <<"Normal", "Running">>
           \/ m.state = mgr.state
           \/ m.state \in Accepted[mgr.state]
    BY PreparedManagerEffect, Zenon
  <2>. HIDE DEF m
  <2>. QED
    BY <2>3, <2>4
<1>3. CASE Command
  BY <1>3, CommandManager
<1>4. CASE UNCHANGED vars
  BY <1>4 DEF vars
<1>. QED
  BY <1>1, <1>2, <1>3, <1>4 DEF Next

\* The state manager starts reset.
LEMMA ManagerInit == Init => ManagerInv
BY DEF Init, ManagerInv, ResetManager, TransientStatesMoveOn

\* Every step preserves the invariant of the state manager.
LEMMA ManagerStep == TypeOK /\ ManagerInv /\ [Next]_vars => ManagerInv'
<1>. SUFFICES ASSUME TypeOK, ManagerInv, [Next]_vars
              PROVE  ManagerInv'
  OBVIOUS
<1>1. CASE mgr' = mgr
  BY <1>1 DEF ManagerInv, TransientStatesMoveOn
<1>2. CASE mgr' = ResetManager
  BY <1>2 DEF ManagerInv, TransientStatesMoveOn, ResetManager
<1>3. CASE /\ mgr'.state \notin {<<"Normal", "None">>, <<"Normal", "Finished">>}
           /\ mgr'.pending = NoPending \/ mgr'.pending \in Accepted[mgr'.state]
           /\ mgr'.state \in Transient => mgr'.pending # NoPending
  BY <1>3 DEF ManagerInv, TransientStatesMoveOn, Transient
<1>. QED
  BY <1>1, <1>2, <1>3, StepManager

\* The invariant of the state manager holds in every execution.
LEMMA ManagerInvariant == Spec => []ManagerInv
BY TypeCorrect, ManagerInit, ManagerStep, PTL DEF Spec

\* No sequence of messages, sessions and commands makes an ok message find the
\* interface in Normal/None or Normal/Finished.
THEOREM NeverOccurs == Spec => []ShouldNeverOccur
<1>1. TypeOK /\ ManagerInv => ShouldNeverOccur
  BY PreparedManagerEffect, Zenon DEF ShouldNeverOccur
<1>. QED
  BY <1>1, TypeCorrect, ManagerInvariant, PTL

\* Every transition a transient pair asks for is accepted.
THEOREM TransientPairsMoveOn == Spec => []TransientStatesMoveOn
<1>1. ManagerInv => TransientStatesMoveOn
  BY DEF ManagerInv
<1>. QED
  BY <1>1, ManagerInvariant, PTL

-----------------------------------------------------------------------------
\* Every accepted transition is an edge of the abstract graph.
LEMMA AcceptedIsAbstractStep ==
  ASSUME TypeOK, mgr'.state \in Accepted[mgr.state]
  PROVE  ExecutionStates!Next
<1>1. mgr.state \in StatePairs
  BY DEF TypeOK, Managers
<1>. QED
  BY <1>1, AcceptedTable
     DEF StatePairs, States, SubStates, ExecutionStates!Next, ExecutionStates!Interrupt,
         ExecutionStates!Resume, ExecutionStates!FinishStaticGoal, ExecutionStates!Proceed,
         ExecutionStates!becomes

\* The interface implements the graph of execution states: with the current
\* pair of the state manager as the abstract state, every step is a step of
\* ExecutionStates or leaves the pair unchanged.
THEOREM Refinement == Spec => FollowsExecutionStates
<1>1. Init => ExecutionStates!Init
  BY DEF Init, ResetManager, ExecutionStates!Init
<1>2. TypeOK /\ ManagerInv /\ [Next]_vars => [ExecutionStates!Next]_(mgr.state)
  <2>. SUFFICES ASSUME TypeOK, ManagerInv, [Next]_vars
                PROVE  ExecutionStates!Next \/ mgr'.state = mgr.state
    OBVIOUS
  <2>1. CASE mgr' = ResetManager
    BY <2>1 DEF ResetManager, ExecutionStates!Next, ExecutionStates!EndSession
  <2>2. CASE mgr'.state = <<"Normal", "Running">>
    BY <2>2 DEF ExecutionStates!Next, ExecutionStates!StartSession
  <2>3. CASE mgr'.state \in Accepted[mgr.state]
    BY <2>3, AcceptedIsAbstractStep
  <2>. QED
    BY <2>1, <2>2, <2>3, StepManager
<1>. QED
  BY <1>1, <1>2, TypeCorrect, ManagerInvariant, PTL
     DEF Spec, FollowsExecutionStates, ExecutionStates!Spec

(***************************************************************************)
(* The goal that is being executed fits the state: which interpolation is  *)
(* used, which trajectory is current, and what a ramp down keeps.          *)
(***************************************************************************)

\* The inductive invariant.
GoalInv ==
  /\ InterpolationFitsState
  /\ GoalHasTrajectory
  /\ InterruptedGoalKept
  /\ RampOutOnlyForNormalGoals

\* The same about the object x that prepare has made, before it is dispatched;
\* e is the state whose goal it holds.
FitsObject(x, e) ==
  /\ x.active => x.step.interpolator.op \in operationsOf[e]
  /\ e = "Normal" => (x.trj.has <=> x.active)
  /\ e = "RampDown" => x.active
  /\ e = "StaticGoal" => ~x.trj.has
  /\ e = "RampDown" /\ x.trj.has
       => x.trj.current # <<>> /\ Head(x.trj.current) = x.step.external
  /\ x.active /\ controller => e = "Normal"

\* The state whose goal an object of prepare holds: the reset clears the goal,
\* otherwise it is the one of the step before.
LEMMA PreparedFits ==
  ASSUME TypeOK, ManagerInv, GoalInv, NEW first \in BOOLEAN
  PROVE  /\ ~first => FitsObject(prepared(first, TRUE), executed)
         /\ first => /\ ~prepared(first, TRUE).active
                     /\ ~prepared(first, TRUE).trj.has
<1>. DEFINE p == prepared(first, TRUE)
<1>1. CASE ~first
  <2>1. p.trj = trj /\ p.step = step /\ p.active = active
    BY <1>1 DEF prepared, TypeOK
  <2>. HIDE DEF p
  <2>2. FitsObject(p, executed)
    BY <2>1 DEF FitsObject, GoalInv, InterpolationFitsState, GoalHasTrajectory,
                InterruptedGoalKept, RampOutOnlyForNormalGoals
  <2>. QED
    BY <1>1, <2>2, Zenon DEF p
<1>2. CASE first
  <2>1. p.trj = resetTrajectories(trj, step) /\ p.active = FALSE
    BY <1>2, Zenon DEF prepared
  <2>2. ~resetTrajectories(trj, step).has
    BY DEF resetTrajectories, TypeOK, TrajectoryContainers
  <2>. QED
    BY <1>2, <2>1, <2>2, Zenon
<1>. QED
  BY <1>1, <1>2, Zenon

\* The end of an ok message, as far as the goal invariant is concerned.
LEMMA FinishEffect ==
  ASSUME NEW m \in Managers, NEW t \in TrajectoryContainers, NEW s \in MotionSteps,
         NEW n \in BOOLEAN, NEW a \in BOOLEAN, NEW dt \in Nat,
         finish(m, t, s, n, a, dt)
  PROVE  /\ mgr' = m
         /\ trj' = t
         /\ active' = a
         /\ controller' = (IF n THEN m.state[1] = "Normal" ELSE controller)
         /\ step'.external = s.external
         /\ step'.interpolator.op = (IF n THEN s.conditions.op ELSE s.interpolator.op)
<1>. DEFINE u == IF n THEN updateInterpolator(s) ELSE s
<1>1. /\ u.external = s.external
      /\ u.interpolator.op = (IF n THEN s.conditions.op ELSE s.interpolator.op)
  BY DEF updateInterpolator, MotionSteps
<1>2. u \in MotionSteps
  BY MotionStepType
<1>3. /\ mgr' = m
      /\ trj' = t
      /\ active' = a
      /\ controller' = (IF n THEN m.state[1] = "Normal" ELSE controller)
      /\ step' = IF a THEN evaluateInterpolator(u, dt) ELSE u
  BY DEF finish, controllerUpdate
<1>. HIDE DEF u
<1>4. step'.external = u.external /\ step'.interpolator = u.interpolator
  BY <1>2, <1>3 DEF evaluateInterpolator, MotionSteps
<1>. QED
  BY <1>1, <1>3, <1>4

\* The same for a message without a new goal.
LEMMA FinishWithoutNewGoal ==
  ASSUME NEW m \in Managers, NEW t \in TrajectoryContainers, NEW s \in MotionSteps,
         NEW a \in BOOLEAN, NEW dt \in Nat, finish(m, t, s, FALSE, a, dt)
  PROVE  /\ mgr' = m
         /\ trj' = t
         /\ active' = a
         /\ controller' = controller
         /\ step'.external = s.external
         /\ step'.interpolator.op = s.interpolator.op
<1>1. /\ mgr' = m
      /\ trj' = t
      /\ active' = a
      /\ controller' = controller
      /\ step' = IF a THEN evaluateInterpolator(s, dt) ELSE s
  BY DEF finish, controllerUpdate
<1>2. step'.external = s.external /\ step'.interpolator = s.interpolator
  BY <1>1 DEF evaluateInterpolator, MotionSteps
<1>. QED
  BY <1>1, <1>2

\* The same for a message with a new goal that becomes active.
LEMMA FinishWithNewGoal ==
  ASSUME NEW m \in Managers, NEW t \in TrajectoryContainers, NEW s \in MotionSteps,
         NEW dt \in Nat, finish(m, t, s, TRUE, TRUE, dt)
  PROVE  /\ mgr' = m
         /\ trj' = t
         /\ active' = TRUE
         /\ controller' = (m.state[1] = "Normal")
         /\ step'.external = s.external
         /\ step'.interpolator.op = s.conditions.op
<1>1. TRUE \in BOOLEAN
  OBVIOUS
<1>. QED
  BY <1>1, FinishEffect, Zenon

\* Which goal a process function finds, by the pair it is dispatched on.  A
\* ramp down begins from normal execution or from a static goal; a message
\* that is the first of a session finds no goal at all.
Incoming(p) ==
  /\ p.mgr.pending = NoPending
  /\ p.mgr.state = <<"Normal", "Running">> => FitsObject(p, "Normal")
  /\ p.mgr.state = <<"RampDown", "None">>
       => FitsObject(p, "Normal") \/ FitsObject(p, "StaticGoal")
  /\ p.mgr.state \in {<<"RampDown", "Running">>, <<"RampDown", "Finished">>,
                      <<"StaticGoal", "None">>}
       => FitsObject(p, "RampDown")
  /\ p.mgr.state \in {<<"StaticGoal", "Running">>, <<"StaticGoal", "Finished">>}
       => FitsObject(p, "StaticGoal")

\* The pair a message that is not the first is dispatched on, and the state
\* that was executed before.
DispatchedAfter(d, e) ==
  /\ d = <<"Normal", "Running">> => e = "Normal"
  /\ d = <<"RampDown", "None">> => e \in {"Normal", "StaticGoal"}
  /\ d \in {<<"RampDown", "Running">>, <<"RampDown", "Finished">>, <<"StaticGoal", "None">>}
       => e = "RampDown"
  /\ d \in {<<"StaticGoal", "Running">>, <<"StaticGoal", "Finished">>} => e = "StaticGoal"

\* The pair on which an ok message of a running session is dispatched fits
\* what the message before it executed.
LEMMA DispatchedPair ==
  ASSUME TypeOK, ManagerInv
  PROVE  DispatchedAfter(preparedManager(FALSE, TRUE).state, executed)
<1>. DEFINE m == preparedManager(FALSE, TRUE)
<1>0. /\ mgr.state \in StatePairs
      /\ mgr = [state |-> mgr.state, pending |-> mgr.pending]
  BY DEF TypeOK, Managers
<1>1. CASE mgr.state = <<"Normal", "None">>
  <2>1. mgr = ResetManager
    BY <1>0, <1>1, AcceptedTable DEF ManagerInv, ResetManager
  <2>2. m.state = <<"Normal", "Running">>
    BY <2>1 DEF preparedManager, ResetManager, updateState, activateStateManager, NoPending
  <2>3. executed = "Normal"
    BY <2>1 DEF executed, ResetManager
  <2>. HIDE DEF m
  <2>4. DispatchedAfter(m.state, executed)
    BY <2>2, <2>3 DEF DispatchedAfter
  <2>. QED
    BY <2>4, Zenon DEF m
<1>2. CASE mgr.state # <<"Normal", "None">> /\ mgr.pending = NoPending
  <2>1. m = mgr
    BY <1>2 DEF preparedManager, updateState
  <2>2. executed = mgr.state[1]
    BY <1>2 DEF executed, NoPending
  <2>3. mgr.state \notin {<<"RampDown", "None">>, <<"StaticGoal", "None">>}
    BY <1>2 DEF ManagerInv, TransientStatesMoveOn
  <2>. HIDE DEF m
  <2>4. DispatchedAfter(m.state, executed)
    BY <2>1, <2>2, <2>3 DEF DispatchedAfter
  <2>. QED
    BY <2>4, Zenon DEF m
<1>3. CASE mgr.state # <<"Normal", "None">> /\ mgr.pending # NoPending
  <2>1. m.state = mgr.pending
    BY <1>3 DEF preparedManager, updateState
  <2>2. mgr.pending \in Accepted[mgr.state]
    BY <1>3 DEF ManagerInv
  <2>. HIDE DEF m
  <2>3. DispatchedAfter(m.state, executed)
    BY <1>0, <2>1, <2>2, AcceptedTable
       DEF DispatchedAfter, executed, StatePairs, States, SubStates
  <2>. QED
    BY <2>3, Zenon DEF m
<1>. QED
  BY <1>1, <1>2, <1>3, Zenon

\* What prepare hands to the process functions fits the pair they are
\* dispatched on, in a running session and in a new one.
LEMMA PreparedIncoming ==
  ASSUME TypeOK, ManagerInv, GoalInv, NEW first \in BOOLEAN
  PROVE  Incoming(prepared(first, TRUE))
<1>. DEFINE p == prepared(first, TRUE)
<1>m. p.mgr = preparedManager(first, TRUE)
  BY DEF prepared
<1>1. p.mgr.pending = NoPending
  BY <1>m, PreparedManagerEffect, Zenon
<1>2. CASE ~first
  <2>1. FitsObject(p, executed)
    BY <1>2, PreparedFits, Zenon
  <2>2. DispatchedAfter(p.mgr.state, executed)
    BY <1>m, <1>2, DispatchedPair, Zenon
  <2>. HIDE DEF p
  <2>3. Incoming(p)
    BY <1>1, <2>1, <2>2 DEF Incoming, DispatchedAfter
  <2>. QED
    BY <2>3, Zenon DEF p
<1>3. CASE first
  <2>1. ~p.active /\ ~p.trj.has
    BY <1>3, PreparedFits, Zenon
  <2>2. p.mgr.state = <<"Normal", "Running">>
    BY <1>m, <1>3, PreparedManagerEffect, Zenon
  <2>. HIDE DEF p
  <2>3. Incoming(p)
    BY <1>1, <2>1, <2>2 DEF Incoming, FitsObject
  <2>. QED
    BY <2>3, Zenon DEF p
<1>. QED
  BY <1>2, <1>3, Zenon

\* The components of an object of prepare.
LEMMA ObjectParts ==
  ASSUME NEW p \in PreparedObjects
  PROVE  /\ p.mgr \in Managers
         /\ p.trj \in TrajectoryContainers
         /\ p.step \in MotionSteps
         /\ p.active \in BOOLEAN
BY DEF PreparedObjects

\* setPendingState on a manager without a pending pair.
LEMMA SetPendingStateFresh ==
  ASSUME NEW m \in Managers, m.pending = NoPending, NEW d \in StatePairs
  PROVE  /\ setPendingState(m, d) \in Managers
         /\ setPendingState(m, d).state = m.state
         /\ setPendingState(m, d).pending \in {NoPending, d}
         /\ d \in Accepted[m.state] => setPendingState(m, d).pending = d
BY DEF setPendingState, Managers

\* What is executed after a message that leaves the pair x with y pending.
LEMMA ExecutedNext ==
  ASSUME NEW m \in Managers, mgr' = m
  PROVE  executed' = IF m.pending = <<"Normal", "Running">> THEN "Normal" ELSE m.state[1]
BY DEF executed

\* One lemma per process function: given the goal it finds, it leaves one that
\* fits.
LEMMA NormalRunningGoal ==
  ASSUME TypeOK, NEW p \in PreparedObjects, Incoming(p),
         NEW met, NEW est \in Nat, NEW dt \in Nat, normalRunning(p, met, est, dt)
  PROVE  GoalInv'
<1>. DEFINE start == ~p.trj.has /\ p.trj.primary # <<>>
            t == IF start THEN [p.trj EXCEPT !.has = TRUE, !.current = Head(p.trj.primary),
                                             !.primary = Tail(@)]
                          ELSE p.trj
            g == updateNormalGoal(t, p.step, met, est)
            m == setPendingState(p.mgr, <<"RampDown", "None">>)
<1>1. p.mgr.state = <<"Normal", "Running">>
  BY DEF normalRunning
<1>2. FitsObject(p, "Normal") /\ p.mgr.pending = NoPending
  BY <1>1 DEF Incoming
<1>3. t \in TrajectoryContainers
  BY ObjectParts, PopTrajectoryType, Zenon
<1>4. \/ finish(m, p.trj, p.step, FALSE, p.active, dt)
      \/ finish(p.mgr, g.trj, g.step, g.success, g.success, dt)
      \/ finish(p.mgr, p.trj, p.step, FALSE, p.active, dt)
  BY Zenon DEF normalRunning
<1>. HIDE DEF t
<1>5. /\ g.trj \in TrajectoryContainers
      /\ g.step \in MotionSteps
      /\ g.success \in BOOLEAN
      /\ g.trj.has = g.success
      /\ g.success => g.step.conditions.op = "Normal"
  BY <1>3, ObjectParts, UpdateNormalGoalType
<1>6. m \in Managers /\ m.state = p.mgr.state /\ m.pending \in {NoPending, <<"RampDown", "None">>}
  BY <1>2, ObjectParts, SetPendingStateFresh DEF StatePairs, States, SubStates
<1>. HIDE DEF g, m
<1>7. CASE finish(m, p.trj, p.step, FALSE, p.active, dt)
  <2>1. /\ mgr' = m
        /\ trj' = p.trj
        /\ active' = p.active
        /\ step'.interpolator.op = p.step.interpolator.op
    BY <1>6, <1>7, ObjectParts, FinishWithoutNewGoal, Zenon
  <2>2. executed' = "Normal"
    BY <1>1, <1>6, <2>1, ExecutedNext DEF NoPending
  <2>. QED
    BY <1>2, <2>1, <2>2, Zenon
       DEF FitsObject, GoalInv, InterpolationFitsState, GoalHasTrajectory, InterruptedGoalKept,
           RampOutOnlyForNormalGoals, operationsOf
<1>8. CASE finish(p.mgr, g.trj, g.step, g.success, g.success, dt)
  <2>1. /\ mgr' = p.mgr
        /\ trj' = g.trj
        /\ active' = g.success
        /\ g.success => step'.interpolator.op = "Normal"
    <3>1. p.mgr \in Managers
      BY ObjectParts, Zenon
    <3>2. /\ mgr' = p.mgr
          /\ trj' = g.trj
          /\ active' = g.success
          /\ step'.interpolator.op
               = (IF g.success THEN g.step.conditions.op ELSE g.step.interpolator.op)
      BY <1>5, <1>8, <3>1, FinishEffect
    <3>. QED
      BY <1>5, <3>2
  <2>2. executed' = "Normal"
    BY <1>1, <1>2, <2>1, ObjectParts, ExecutedNext DEF NoPending
  <2>. QED
    BY <1>5, <2>1, <2>2
       DEF GoalInv, InterpolationFitsState, GoalHasTrajectory, InterruptedGoalKept,
           RampOutOnlyForNormalGoals, operationsOf, States
<1>9. CASE finish(p.mgr, p.trj, p.step, FALSE, p.active, dt)
  <2>1. /\ mgr' = p.mgr
        /\ trj' = p.trj
        /\ active' = p.active
        /\ step'.interpolator.op = p.step.interpolator.op
    <3>. DEFINE pm == p.mgr
                pt == p.trj
                ps == p.step
                pa == p.active
    <3>1. /\ pm \in Managers
          /\ pt \in TrajectoryContainers
          /\ ps \in MotionSteps
          /\ pa \in BOOLEAN
      BY ObjectParts
    <3>2. finish(pm, pt, ps, FALSE, pa, dt)
      BY <1>9, Zenon
    <3>. HIDE DEF pm, pt, ps, pa
    <3>3. /\ mgr' = pm
          /\ trj' = pt
          /\ active' = pa
          /\ step'.interpolator.op = ps.interpolator.op
      BY <3>1, <3>2, FinishWithoutNewGoal, Zenon
    <3>. QED
      BY <3>3 DEF pm, pt, ps, pa
  <2>2. executed' = "Normal"
    BY <1>1, <1>2, <2>1, ObjectParts, ExecutedNext DEF NoPending
  <2>. QED
    BY <1>2, <2>1, <2>2, Zenon
       DEF FitsObject, GoalInv, InterpolationFitsState, GoalHasTrajectory, InterruptedGoalKept,
           RampOutOnlyForNormalGoals, operationsOf
<1>. QED
  BY <1>4, <1>7, <1>8, <1>9, Zenon

\* storeNormalGoal puts the point it leaves as external goal in front.
LEMMA StoreEffect ==
  ASSUME NEW t \in TrajectoryContainers, NEW s \in MotionSteps
  PROVE  /\ storeNormalGoal(t, s).trj.has = t.has
         /\ storeNormalGoal(t, s).step.conditions = s.conditions
         /\ t.has => /\ storeNormalGoal(t, s).trj.current # <<>>
                     /\ Head(storeNormalGoal(t, s).trj.current)
                          = storeNormalGoal(t, s).step.external
<1>. DEFINE p == [s.external EXCEPT !.dur = Max({LOWEST_SAMPLE_TIME,
                                                 s.internal.dur - s.time_passed})]
<1>1. storeNormalGoal(t, s) =
        IF t.has THEN [trj |-> [t EXCEPT !.current = <<p>> \o @],
                       step |-> [s EXCEPT !.external = p]]
                 ELSE [trj |-> t, step |-> s]
  BY DEF storeNormalGoal
<1>. HIDE DEF p
<1>2. t.current \in Seq(Points)
  BY DEF TrajectoryContainers
<1>3. <<p>> \o t.current # <<>> /\ Head(<<p>> \o t.current) = p
  <2>1. Len(<<p>> \o t.current) = 1 + Len(t.current) /\ (<<p>> \o t.current)[1] = p
    BY <1>2
  <2>. QED
    BY <1>2, <2>1
<1>. QED
  BY <1>1, <1>3 DEF TrajectoryContainers, MotionSteps

\* The operations each state asks for.
LEMMA OperationsTable ==
  /\ operationsOf["Normal"] = {"Normal"}
  /\ operationsOf["RampDown"] = {"RampDown"}
  /\ operationsOf["StaticGoal"] = {"RampInPosition", "RampInVelocity"}
BY DEF operationsOf, States

\* A ramp down that begins stores the interrupted normal goal.
LEMMA RampDownNoneGoal ==
  ASSUME TypeOK, NEW p \in PreparedObjects, Incoming(p), NEW dt \in Nat, rampDownNone(p, dt)
  PROVE  GoalInv'
<1>. DEFINE s == prepareRampDownGoal(p.step, events.do_stop)
            g == IF p.active THEN storeNormalGoal(p.trj, s) ELSE [trj |-> p.trj, step |-> s]
            m == setPendingState(p.mgr, <<"RampDown", "Running">>)
<1>1. p.mgr.state = <<"RampDown", "None">>
  BY DEF rampDownNone
<1>2. p.mgr.pending = NoPending /\ (p.trj.has => p.active)
  BY <1>1 DEF Incoming, FitsObject
<1>3. s \in MotionSteps /\ s.conditions.op = "RampDown"
  <2>1. events.do_stop \in BOOLEAN
    BY DEF TypeOK, PendingEvents
  <2>. QED
    BY <2>1, ObjectParts, MotionStepType, PrepareEffect, Zenon
<1>4. finish(m, g.trj, g.step, TRUE, TRUE, dt)
  BY Zenon DEF rampDownNone
<1>. HIDE DEF s
<1>5. /\ g.trj \in TrajectoryContainers
      /\ g.step \in MotionSteps
      /\ g.step.conditions.op = "RampDown"
      /\ g.trj.has => g.trj.current # <<>> /\ Head(g.trj.current) = g.step.external
  <2>1. CASE p.active
    <3>1. g = storeNormalGoal(p.trj, s)
      BY <2>1
    <3>. QED
      BY <1>3, <3>1, ObjectParts, StoreType, StoreEffect
  <2>2. CASE ~p.active
    <3>1. g.trj = p.trj /\ g.step = s /\ ~p.trj.has
      BY <1>2, <2>2
    <3>. QED
      BY <1>3, <3>1, ObjectParts
  <2>. QED
    BY <2>1, <2>2, Zenon
<1>6. m \in Managers /\ m.state = p.mgr.state /\ m.pending \in {NoPending, <<"RampDown", "Running">>}
  BY <1>2, ObjectParts, SetPendingStateFresh DEF StatePairs, States, SubStates
<1>. HIDE DEF g, m
<1>7. /\ mgr' = m
      /\ trj' = g.trj
      /\ active' = TRUE
      /\ controller' = FALSE
      /\ step'.external = g.step.external
      /\ step'.interpolator.op = "RampDown"
  <2>1. m.state[1] # "Normal"
    BY <1>1, <1>6
  <2>. QED
    BY <1>4, <1>5, <1>6, <2>1, FinishWithNewGoal, Zenon
<1>8. executed' = "RampDown"
  BY <1>1, <1>6, <1>7, ExecutedNext DEF NoPending
<1>. QED
  BY <1>5, <1>7, <1>8, OperationsTable
     DEF GoalInv, InterpolationFitsState, GoalHasTrajectory, InterruptedGoalKept,
         RampOutOnlyForNormalGoals

\* A ramp down that goes on keeps its goal.
LEMMA RampDownRunningGoal ==
  ASSUME TypeOK, NEW p \in PreparedObjects, Incoming(p), NEW dt \in Nat, rampDownRunning(p, dt)
  PROVE  GoalInv'
<1>. DEFINE m == IF interpolationDurationReached(p.step)
                   THEN setPendingState(p.mgr, <<"RampDown", "Finished">>) ELSE p.mgr
<1>1. p.mgr.state = <<"RampDown", "Running">>
  BY DEF rampDownRunning
<1>2. p.mgr.pending = NoPending /\ FitsObject(p, "RampDown")
  BY <1>1 DEF Incoming
<1>3. m \in Managers /\ m.state = p.mgr.state /\ m.pending \in {NoPending, <<"RampDown", "Finished">>}
  BY <1>2, ObjectParts, SetPendingStateFresh DEF StatePairs, States, SubStates
<1>4. finish(m, p.trj, p.step, FALSE, p.active, dt)
  BY Zenon DEF rampDownRunning
<1>. HIDE DEF m
<1>5. /\ mgr' = m
      /\ trj' = p.trj
      /\ active' = p.active
      /\ controller' = controller
      /\ step'.external = p.step.external
      /\ step'.interpolator.op = p.step.interpolator.op
  BY <1>3, <1>4, ObjectParts, FinishWithoutNewGoal, Zenon
<1>6. executed' = "RampDown"
  BY <1>1, <1>3, <1>5, ExecutedNext DEF NoPending
<1>. QED
  BY <1>2, <1>5, <1>6, Zenon
     DEF FitsObject, GoalInv, InterpolationFitsState, GoalHasTrajectory, InterruptedGoalKept,
         RampOutOnlyForNormalGoals, operationsOf

\* A finished ramp down keeps its goal until it is resumed.
LEMMA RampDownFinishedGoal ==
  ASSUME TypeOK, NEW p \in PreparedObjects, Incoming(p),
         NEW met, NEW est \in Nat, NEW dt \in Nat, rampDownFinished(p, met, est, dt)
  PROVE  GoalInv'
<1>. DEFINE s == IF events.do_duration_factor_update
                   THEN [p.step EXCEPT !.duration_factor = events.duration_factor] ELSE p.step
            t == IF events.do_discard
                   THEN [has |-> FALSE, current |-> <<>>, primary |-> p.trj.temporary,
                         temporary |-> <<>>]
                   ELSE p.trj
            g == updateNormalGoal(t, s, met, est)
            n == setPendingState(p.mgr, <<"Normal", "Running">>)
            m == setPendingState(p.mgr, <<"StaticGoal", "None">>)
<1>1. p.mgr.state = <<"RampDown", "Finished">>
  BY DEF rampDownFinished
<1>2. p.mgr.pending = NoPending /\ FitsObject(p, "RampDown")
  BY <1>1 DEF Incoming
<1>3. /\ s \in MotionSteps
      /\ s.external = p.step.external
      /\ s.interpolator = p.step.interpolator
  BY ObjectParts DEF MotionSteps, PendingEvents, TypeOK
<1>4. t \in TrajectoryContainers /\ (t.has => t = p.trj)
  BY ObjectParts, EmptyTypes DEF TrajectoryContainers
<1>5. \/ finish(p.mgr, t, s, FALSE, p.active, dt)
      \/ finish(m, t, s, FALSE, p.active, dt)
      \/ finish(n, g.trj, g.step, g.success, g.success, dt)
  BY Zenon DEF rampDownFinished
<1>. HIDE DEF s, t
<1>6. /\ g.trj \in TrajectoryContainers
      /\ g.step \in MotionSteps
      /\ g.success \in BOOLEAN
      /\ g.trj.has = g.success
      /\ g.success => g.step.conditions.op = "Normal"
  BY <1>3, <1>4, UpdateNormalGoalType
<1>7. /\ m \in Managers /\ m.state = p.mgr.state
      /\ m.pending \in {NoPending, <<"StaticGoal", "None">>}
  BY <1>2, ObjectParts, SetPendingStateFresh DEF StatePairs, States, SubStates
<1>8. n \in Managers /\ n.pending = <<"Normal", "Running">>
  <2>1. <<"Normal", "Running">> \in StatePairs
    BY DEF StatePairs, States, SubStates
  <2>2. <<"Normal", "Running">> \in Accepted[p.mgr.state]
    BY <1>1, AcceptedTable
  <2>. QED
    BY <1>2, <2>1, <2>2, ObjectParts, SetPendingStateFresh
<1>. HIDE DEF g, m, n
<1>9. ASSUME NEW x \in Managers, x.state = p.mgr.state,
             x.pending \in {NoPending, <<"StaticGoal", "None">>},
             finish(x, t, s, FALSE, p.active, dt)
      PROVE  GoalInv'
  <2>0. p.active \in BOOLEAN
    BY ObjectParts
  <2>1. /\ mgr' = x
        /\ trj' = t
        /\ active' = p.active
        /\ controller' = controller
        /\ step'.external = p.step.external
        /\ step'.interpolator.op = p.step.interpolator.op
    <3>. DEFINE pa == p.active
    <3>1. finish(x, t, s, FALSE, pa, dt) /\ pa \in BOOLEAN
      BY <1>9, <2>0, Zenon
    <3>. HIDE DEF pa
    <3>2. /\ mgr' = x
          /\ trj' = t
          /\ active' = pa
          /\ controller' = controller
          /\ step'.external = s.external
          /\ step'.interpolator.op = s.interpolator.op
      BY <1>3, <1>4, <1>9, <3>1, FinishWithoutNewGoal, Zenon
    <3>. QED
      BY <1>3, <3>2 DEF pa
  <2>2. executed' = "RampDown"
    BY <1>1, <1>9, <2>1, ExecutedNext DEF NoPending
  <2>. QED
    BY <1>2, <1>4, <2>1, <2>2, Zenon
       DEF FitsObject, GoalInv, InterpolationFitsState, GoalHasTrajectory, InterruptedGoalKept,
           RampOutOnlyForNormalGoals, operationsOf
<1>10. CASE finish(n, g.trj, g.step, g.success, g.success, dt)
  <2>1. /\ mgr' = n
        /\ trj' = g.trj
        /\ active' = g.success
        /\ g.success => step'.interpolator.op = "Normal"
    BY <1>6, <1>8, <1>10, FinishEffect
  <2>2. executed' = "Normal"
    BY <1>8, <2>1, ExecutedNext
  <2>. QED
    BY <1>6, <2>1, <2>2, OperationsTable
       DEF GoalInv, InterpolationFitsState, GoalHasTrajectory, InterruptedGoalKept,
           RampOutOnlyForNormalGoals
<1>11. CASE finish(p.mgr, t, s, FALSE, p.active, dt)
  BY <1>2, <1>9, <1>11, ObjectParts, Zenon
<1>12. CASE finish(m, t, s, FALSE, p.active, dt)
  BY <1>7, <1>9, <1>12, Zenon
<1>. QED
  BY <1>5, <1>10, <1>11, <1>12, Zenon

\* A static goal that begins sets its goal, if one was given.
LEMMA StaticGoalNoneGoal ==
  ASSUME TypeOK, NEW p \in PreparedObjects, Incoming(p), NEW dt \in Nat, staticGoalNone(p, dt)
  PROVE  GoalInv'
<1>. DEFINE t == IF p.trj.has THEN [p.trj EXCEPT !.has = FALSE, !.current = <<>>,
                                                 !.primary = <<p.trj.current>> \o @]
                              ELSE p.trj
            m == setPendingState(p.mgr, <<"StaticGoal", "Running">>)
<1>1. p.mgr.state = <<"StaticGoal", "None">> /\ p.mgr.pending = NoPending
  BY DEF staticGoalNone, Incoming
<1>2. t \in TrajectoryContainers /\ ~t.has
  <2>1. <<p.trj.current>> \o p.trj.primary \in Seq(Seq(Points))
    BY ObjectParts DEF TrajectoryContainers
  <2>. QED
    BY <2>1, ObjectParts, EmptyTypes, Zenon DEF TrajectoryContainers
<1>3. /\ m \in Managers /\ m.state = p.mgr.state
      /\ m.pending \in {NoPending, <<"StaticGoal", "Running">>}
  BY <1>1, ObjectParts, SetPendingStateFresh DEF StatePairs, States, SubStates
<1>4. finish(m, t, p.step, FALSE, FALSE, dt)
  BY Zenon DEF staticGoalNone
<1>. HIDE DEF t, m
<1>5. mgr' = m /\ trj' = t /\ active' = FALSE
  BY <1>2, <1>3, <1>4, ObjectParts, FinishWithoutNewGoal, Zenon
<1>6. executed' = "StaticGoal"
  BY <1>1, <1>3, <1>5, ExecutedNext DEF NoPending
<1>. QED
  BY <1>2, <1>5, <1>6
     DEF GoalInv, InterpolationFitsState, GoalHasTrajectory, InterruptedGoalKept,
         RampOutOnlyForNormalGoals

\* An object that keeps its static goal while x is pending or not.
LEMMA StaticGoalKept ==
  ASSUME NEW p \in PreparedObjects, FitsObject(p, "StaticGoal"), NEW m \in Managers,
         m.state[1] = "StaticGoal", m.pending # <<"Normal", "Running">>, NEW dt \in Nat,
         finish(m, p.trj, p.step, FALSE, p.active, dt)
  PROVE  GoalInv'
<1>1. /\ mgr' = m
      /\ trj' = p.trj
      /\ active' = p.active
      /\ controller' = controller
      /\ step'.interpolator.op = p.step.interpolator.op
  BY ObjectParts, FinishWithoutNewGoal, Zenon
<1>2. executed' = "StaticGoal"
  BY <1>1, ExecutedNext
<1>. QED
  BY <1>1, <1>2, Zenon
     DEF FitsObject, GoalInv, InterpolationFitsState, GoalHasTrajectory, InterruptedGoalKept,
         RampOutOnlyForNormalGoals, operationsOf

\* A static goal that is followed keeps its goal or takes a new one.
LEMMA StaticGoalRunningGoal ==
  ASSUME TypeOK, NEW p \in PreparedObjects, Incoming(p), NEW dt \in Nat, staticGoalRunning(p, dt)
  PROVE  GoalInv'
<1>. DEFINE position == events.do_static_position_goal_update /\ ~events.do_ramp_down
            velocity == ~position /\ events.do_static_velocity_goal_update /\ ~events.do_ramp_down
            update == position \/ velocity
            m == CASE events.do_static_goal_finish
                        -> setPendingState(p.mgr, <<"StaticGoal", "Finished">>)
                   [] ~events.do_static_goal_finish /\ events.do_ramp_down
                        -> setPendingState(p.mgr, <<"RampDown", "None">>)
                   [] OTHER -> p.mgr
            op == IF position THEN "RampInPosition" ELSE "RampInVelocity"
            fast == events.do_static_goal_fast_update
            s == IF update THEN prepareStaticGoal(p.step, op, fast) ELSE p.step
<1>1. p.mgr.state = <<"StaticGoal", "Running">>
  BY DEF staticGoalRunning
<1>2. p.mgr.pending = NoPending /\ FitsObject(p, "StaticGoal")
  BY <1>1 DEF Incoming
<1>3. finish(m, p.trj, s, update, p.active \/ update, dt)
  BY DEF staticGoalRunning
<1>4. m \in Managers /\ m.state[1] = "StaticGoal" /\ m.pending # <<"Normal", "Running">>
  <2>1. /\ setPendingState(p.mgr, <<"StaticGoal", "Finished">>) \in Managers
        /\ setPendingState(p.mgr, <<"StaticGoal", "Finished">>).state = p.mgr.state
        /\ setPendingState(p.mgr, <<"StaticGoal", "Finished">>).pending
             \in {NoPending, <<"StaticGoal", "Finished">>}
    BY <1>2, ObjectParts, SetPendingStateFresh DEF StatePairs, States, SubStates
  <2>2. /\ setPendingState(p.mgr, <<"RampDown", "None">>) \in Managers
        /\ setPendingState(p.mgr, <<"RampDown", "None">>).state = p.mgr.state
        /\ setPendingState(p.mgr, <<"RampDown", "None">>).pending
             \in {NoPending, <<"RampDown", "None">>}
    BY <1>2, ObjectParts, SetPendingStateFresh DEF StatePairs, States, SubStates
  <2>3. events.do_static_goal_finish \in BOOLEAN /\ events.do_ramp_down \in BOOLEAN
    BY DEF TypeOK, PendingEvents
  <2>4. m \in {setPendingState(p.mgr, <<"StaticGoal", "Finished">>),
               setPendingState(p.mgr, <<"RampDown", "None">>), p.mgr}
    BY <2>3
  <2>. HIDE DEF m
  <2>. QED
    BY <1>1, <1>2, <2>1, <2>2, <2>4, ObjectParts DEF NoPending
<1>. HIDE DEF m
<1>5. update \in BOOLEAN
  OBVIOUS
<1>6. op \in {"RampInPosition", "RampInVelocity"}
  OBVIOUS
<1>. HIDE DEF update, op
<1>7. CASE ~update
  <2>1. s = p.step /\ p.active \in BOOLEAN
    BY <1>7, ObjectParts
  <2>2. (p.active \/ update) = p.active /\ update = FALSE
    BY <1>5, <1>7, <2>1
  <2>3. finish(m, p.trj, p.step, FALSE, p.active, dt)
    BY <1>3, <2>1, <2>2, Zenon
  <2>. QED
    BY <1>2, <1>4, <2>3, StaticGoalKept, Zenon
<1>8. CASE update
  <2>1. (p.active \/ update) = TRUE /\ update = TRUE
    BY <1>5, <1>8
  <2>2. s \in MotionSteps /\ s.conditions.op = op
    <3>1. fast \in BOOLEAN /\ op \in Operations
      BY <1>6 DEF TypeOK, PendingEvents, Operations
    <3>2. s = prepareStaticGoal(p.step, op, fast)
      BY <1>8
    <3>. HIDE DEF s, fast
    <3>3. p.step \in MotionSteps
      BY ObjectParts
    <3>4. prepareStaticGoal(p.step, op, fast) \in MotionSteps
      BY <3>1, <3>3, MotionStepType, Zenon
    <3>5. prepareStaticGoal(p.step, op, fast).conditions.op = op
      BY <3>1, <3>3, PrepareEffect
    <3>. QED
      BY <3>2, <3>4, <3>5
  <2>3. finish(m, p.trj, s, TRUE, TRUE, dt)
    BY <1>3, <2>1, Zenon
  <2>. HIDE DEF s
  <2>4. /\ mgr' = m
        /\ trj' = p.trj
        /\ active' = TRUE
        /\ controller' = (m.state[1] = "Normal")
        /\ step'.interpolator.op = op
    BY <1>4, <2>2, <2>3, ObjectParts, FinishWithNewGoal, Zenon
  <2>5. executed' = "StaticGoal" /\ ~controller'
    BY <1>4, <2>4, ExecutedNext, Zenon
  <2>. QED
    BY <1>2, <1>6, <2>4, <2>5, OperationsTable
       DEF FitsObject, GoalInv, InterpolationFitsState, GoalHasTrajectory, InterruptedGoalKept,
           RampOutOnlyForNormalGoals
<1>. QED
  BY <1>7, <1>8

\* A finished static goal keeps its goal until it is resumed.
LEMMA StaticGoalFinishedGoal ==
  ASSUME TypeOK, NEW p \in PreparedObjects, Incoming(p), NEW dt \in Nat, staticGoalFinished(p, dt)
  PROVE  GoalInv'
<1>. DEFINE m == setPendingState(p.mgr, <<"RampDown", "None">>)
<1>1. p.mgr.state = <<"StaticGoal", "Finished">>
  BY DEF staticGoalFinished
<1>2. p.mgr.pending = NoPending /\ FitsObject(p, "StaticGoal")
  BY <1>1 DEF Incoming
<1>3. /\ m \in Managers /\ m.state = p.mgr.state
      /\ m.pending \in {NoPending, <<"RampDown", "None">>}
  BY <1>2, ObjectParts, SetPendingStateFresh DEF StatePairs, States, SubStates
<1>4. finish(m, p.trj, p.step, FALSE, p.active, dt)
  BY Zenon DEF staticGoalFinished
<1>. HIDE DEF m
<1>5. m.state[1] = "StaticGoal" /\ m.pending # <<"Normal", "Running">>
  BY <1>1, <1>3 DEF NoPending
<1>. QED
  BY <1>2, <1>3, <1>4, <1>5, StaticGoalKept, Zenon

-----------------------------------------------------------------------------
\* A message that finds the states ok.
LEMMA OkMessageGoal ==
  ASSUME TypeOK, ManagerInv, GoalInv, NEW first \in BOOLEAN, NEW met,
         NEW est \in Nat, NEW dt \in Nat, okMessage(first, met, est, dt)
  PROVE  GoalInv'
<1>. DEFINE p == prepared(first, TRUE)
<1>1. p \in PreparedObjects
  BY PreparedType, Zenon
<1>2. Incoming(p)
  BY PreparedIncoming, Zenon
<1>3. \/ normalRunning(p, met, est, dt)
      \/ rampDownNone(p, dt)
      \/ rampDownRunning(p, dt)
      \/ rampDownFinished(p, met, est, dt)
      \/ staticGoalNone(p, dt)
      \/ staticGoalRunning(p, dt)
      \/ staticGoalFinished(p, dt)
  BY Zenon DEF okMessage
<1>. HIDE DEF p
<1>4. CASE normalRunning(p, met, est, dt)
  BY <1>1, <1>2, <1>4, NormalRunningGoal
<1>5. CASE rampDownNone(p, dt)
  BY <1>1, <1>2, <1>5, RampDownNoneGoal
<1>6. CASE rampDownRunning(p, dt)
  BY <1>1, <1>2, <1>6, RampDownRunningGoal
<1>7. CASE rampDownFinished(p, met, est, dt)
  BY <1>1, <1>2, <1>7, RampDownFinishedGoal
<1>8. CASE staticGoalNone(p, dt)
  BY <1>1, <1>2, <1>8, StaticGoalNoneGoal
<1>9. CASE staticGoalRunning(p, dt)
  BY <1>1, <1>2, <1>9, StaticGoalRunningGoal
<1>10. CASE staticGoalFinished(p, dt)
  BY <1>1, <1>2, <1>10, StaticGoalFinishedGoal
<1>. QED
  BY <1>3, <1>4, <1>5, <1>6, <1>7, <1>8, <1>9, <1>10

\* A message that does not: the interface is reset, or was inactive before.
LEMMA NotOkMessageGoal ==
  ASSUME TypeOK, ManagerInv, GoalInv, NEW first \in BOOLEAN, notOkMessage(first)
  PROVE  GoalInv'
<1>. DEFINE reset == first \/ ~inactive
            t == IF reset THEN resetTrajectories(trj, step) ELSE trj
<1>1. mgr' = ResetManager
  <2>1. mgr' = preparedManager(first, FALSE)
    BY DEF notOkMessage, prepared
  <2>2. inactive => mgr = ResetManager
    BY AcceptedTable DEF inactive, TypeOK, Managers, ManagerInv, ResetManager
  <2>. QED
    BY <2>1, <2>2 DEF preparedManager
<1>2. executed' = "Normal"
  BY <1>1 DEF executed, ResetManager
<1>3. CASE reset
  <2>1. active' = FALSE
    BY <1>3, Zenon DEF notOkMessage, prepared
  <2>2. ~resetTrajectories(trj, step).has /\ resetTrajectories(trj, step) \in TrajectoryContainers
    BY ResetTrajectoriesType, Zenon DEF resetTrajectories, TypeOK, TrajectoryContainers
  <2>3. trj'.has = resetTrajectories(trj, step).has
    BY <1>3, <2>2 DEF notOkMessage, prepared, TrajectoryContainers
  <2>. QED
    BY <1>2, <2>1, <2>2, <2>3
       DEF GoalInv, InterpolationFitsState, GoalHasTrajectory, InterruptedGoalKept,
           RampOutOnlyForNormalGoals
<1>4. CASE ~reset
  <2>1. trj' = trj /\ step' = step /\ active' = active
    BY <1>4 DEF notOkMessage, prepared, TypeOK
  <2>2. executed = "Normal"
    BY <1>4, AcceptedTable DEF executed, inactive
  <2>. QED
    BY <1>2, <2>1, <2>2
       DEF GoalInv, InterpolationFitsState, GoalHasTrajectory, InterruptedGoalKept,
           RampOutOnlyForNormalGoals
<1>. QED
  BY <1>3, <1>4

\* A command changes the pending events and the queues, never the goal.
LEMMA CommandGoal ==
  ASSUME TypeOK, GoalInv, Command
  PROVE  GoalInv'
<1>1. /\ UNCHANGED <<mgr, step, active, controller>>
      /\ trj'.has = trj.has
      /\ trj'.current = trj.current
  <2>1. CASE \E goal \in TrajectoryGoals, o \in BOOLEAN : addTrajectory(goal, o)
    <3>1. PICK goal \in TrajectoryGoals, o \in BOOLEAN : addTrajectory(goal, o)
      BY <2>1
    <3>. DEFINE points == [i \in DOMAIN goal |->
                             [traj |-> added + 1, left |-> Len(goal) - i,
                              reach |-> goal[i].reach, dur |-> goal[i].dur]]
    <3>2. \/ trj' = [trj EXCEPT !.temporary = <<points>>]
          \/ trj' = [trj EXCEPT !.temporary = Append(@, points)]
          \/ trj' = [trj EXCEPT !.primary = Append(@, points)]
      BY <3>1 DEF addTrajectory
    <3>. HIDE DEF points
    <3>. QED
      BY <3>1, <3>2 DEF addTrajectory, commandFrame, TypeOK, TrajectoryContainers
  <2>2. CASE \/ \E d \in BOOLEAN : stopTrajectory(d)
             \/ resumeTrajectory
             \/ \E f \in Factors : updateDurationFactor(f)
             \/ \E d \in BOOLEAN : startStaticGoal(d)
             \/ \E k \in {"position", "velocity"}, fast \in BOOLEAN : setStaticGoal(k, fast)
             \/ \E r \in BOOLEAN : finishStaticGoal(r)
             \/ retrieveExecutionProgress
    BY <2>2, Zenon DEF stopTrajectory, resumeTrajectory, updateDurationFactor, startStaticGoal,
                setStaticGoal, finishStaticGoal, retrieveExecutionProgress, commandFrame
  <2>. QED
    BY <2>1, <2>2 DEF Command
<1>. QED
  BY <1>1 DEF GoalInv, InterpolationFitsState, GoalHasTrajectory, InterruptedGoalKept,
              RampOutOnlyForNormalGoals, executed

\* GoalInv is inductive relative to the types and the manager's invariant.
LEMMA GoalInit == Init => GoalInv
<1>. SUFFICES ASSUME Init PROVE GoalInv
  OBVIOUS
<1>1. ~active /\ ~trj.has
  BY Zenon DEF Init
<1>2. executed = "Normal"
  BY Zenon DEF Init, executed, ResetManager, NoPending
<1>. QED
  BY <1>1, <1>2 DEF GoalInv, InterpolationFitsState, GoalHasTrajectory, InterruptedGoalKept,
                    RampOutOnlyForNormalGoals

\* One step.
LEMMA GoalStep == TypeOK /\ ManagerInv /\ GoalInv /\ [Next]_vars => GoalInv'
<1>. SUFFICES ASSUME TypeOK, ManagerInv, GoalInv, [Next]_vars
              PROVE  GoalInv'
  OBVIOUS
<1>1. CASE NotOkMessage
  BY <1>1, NotOkMessageGoal DEF NotOkMessage
<1>2. ASSUME NEW met \in SUBSET goalIds, OkMessage(met)
      PROVE  GoalInv'
  <2>1. PICK first \in BOOLEAN, est \in Estimates, dt \in SampleTimes :
               okMessage(first, met, est, dt)
    BY <1>2 DEF OkMessage
  <2>2. est \in Nat /\ dt \in Nat
    BY ConstantsAssumption
  <2>. QED
    BY <2>1, <2>2, OkMessageGoal, Zenon
<1>3. CASE Command
  BY <1>3, CommandGoal
<1>4. CASE UNCHANGED vars
  BY <1>4 DEF vars, GoalInv, InterpolationFitsState, GoalHasTrajectory, InterruptedGoalKept,
              RampOutOnlyForNormalGoals, executed
<1>. QED
  BY <1>1, <1>2, <1>3, <1>4 DEF Next

\* The invariant holds in every execution.
LEMMA GoalInvariant == Spec => []GoalInv
BY TypeCorrect, ManagerInvariant, GoalInit, GoalStep, PTL DEF Spec

\* Outputs are interpolated for the state that is executed, whatever commands,
\* lost states and new sessions come between the messages.
THEOREM InterpolationFits == Spec => []InterpolationFitsState
BY GoalInvariant, PTL DEF GoalInv

\* has_active_goal and p_current agree in every state.
THEOREM GoalsHaveTrajectories == Spec => []GoalHasTrajectory
BY GoalInvariant, PTL DEF GoalInv

\* The interrupted goal is the first point that a resume continues with.
THEOREM InterruptedGoals == Spec => []InterruptedGoalKept
BY GoalInvariant, PTL DEF GoalInv

\* The controller's ramp out is never applied to a ramp down or a static goal.
THEOREM RampOutFits == Spec => []RampOutOnlyForNormalGoals
BY GoalInvariant, PTL DEF GoalInv
=============================================================================
