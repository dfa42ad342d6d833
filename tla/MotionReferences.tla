-------------------------- MODULE MotionReferences --------------------------
(***************************************************************************)
(* The references that TrajectoryMotion sends: MotionStep, EGMInterpolator *)
(* and Controller, driven by the messages and commands of TrajectoryMotion.*)
(*                                                                         *)
(* A coordinate is an axis, that is a robot joint, an external joint or a  *)
(* Cartesian axis, which the code treats alike, or the orientation.  Its   *)
(* position and velocity are names: where a goal is, the velocity a user   *)
(* asked for, zero, or Some value in between.  Invalid is a number that    *)
(* is not finite.  Spline polynomials are taken by their values at the end *)
(* of the interpolation and by what keeps them at rest, which SplineProofs *)
(* proves of SplinePolynomial.  Goals specify every coordinate.            *)
(***************************************************************************)
EXTENDS TrajectoryMotion

CONSTANT SplineMethods \* methods a configuration may choose

ASSUME MethodsAssumption == SplineMethods \subseteq {"Linear", "Square", "Cubic", "Quintic"}

\* The bound on times does not hide that time goes on, nor that a stop ends.
ASSUME BoundAssumption ==
  /\ \A dt \in SampleTimes : dt < MaxDuration
  /\ RAMP_DOWN_STOP_DURATION <= MaxDuration

VARIABLES
  spline_method, \* configurations_.spline_method
  interpolation, \* motion_step_.interpolation: the references
  initial,       \* the references when the interpolator and controller were updated
  goal,          \* the internal goal they were updated with
  use_linear,    \* slerp_.use_linear_
  outputs,       \* the outputs to the robot controller
  resumed,       \* history: the goal was taken up at the end of a ramp down
  divided        \* history: a Slerp was divided by zero in this session

referenceVars ==
  <<spline_method, interpolation, initial, goal, use_linear, outputs, resumed, divided>>
allVars == <<vars, referenceVars>>

Coordinates == {"axis", "orientation"}

Zero    == <<"zero">>
Some    == <<"some">>
Invalid == <<"invalid">>
Feedback       == <<"feedback">>      \* where the robot was at a reset
StaticPosition == <<"static">>        \* what a user asks of a static goal
StaticVelocity == <<"velocity">>
PointVelocity  == <<"via">>           \* what a user asks of a point
PointAcceleration == <<"via">>
positionOf(point) == <<"point", point.traj, point.left>>

atRest(position) == [p |-> position, v |-> Zero, a |-> Zero]
everywhere(reference) == [c \in Coordinates |-> reference]

\* A reply has positions and velocities.
sent(references) == [c \in Coordinates |-> [p |-> references[c].p, v |-> references[c].v]]

ReferenceInit ==
  /\ Init
  /\ spline_method \in SplineMethods
  /\ interpolation = everywhere(atRest(Feedback))
  /\ initial = interpolation
  /\ goal = interpolation
  /\ use_linear = TRUE
  /\ outputs = sent(interpolation)
  /\ resumed = FALSE
  /\ divided = FALSE

(***************************************************************************)
(* Arithmetic on names.  A factor is zero, one, or a part in between.      *)
(***************************************************************************)
known(x, y) == x = y /\ x # Some

\* f * x
scaled(f, x) ==
  CASE x = Invalid -> Invalid
    [] x # Invalid /\ f = "zero" -> Zero
    [] x # Invalid /\ f = "one" -> x
    [] x # Invalid /\ f = "part" -> IF x = Zero THEN Zero ELSE Some

\* from + f * (to - from)
blend(f, from, to) ==
  CASE Invalid \in {from, to} -> Invalid
    [] Invalid \notin {from, to} /\ f = "zero" -> from
    [] Invalid \notin {from, to} /\ f = "one" -> to
    [] Invalid \notin {from, to} /\ f = "part" -> IF known(from, to) THEN from ELSE Some

\* position + sample_time * velocity
moved(position, velocity) ==
  CASE Invalid \in {position, velocity} -> Invalid
    [] Invalid \notin {position, velocity} /\ velocity = Zero -> position
    [] OTHER -> Some

-----------------------------------------------------------------------------
(***************************************************************************)
(* EGMInterpolator.  s and g are the references of a coordinate at the     *)
(* start and at the goal, x its reference at the message before, done says *)
(* that the duration has passed.                                           *)
(***************************************************************************)
\* The ramp of the soft ramps and of the controller, from 0 to 1.
rampIn(done) == IF done THEN "one" ELSE "part"
rampOut(done) == IF done THEN "zero" ELSE "part"

spline(s, g, done) ==
  LET moves == CASE spline_method' = "Linear" -> ~known(s.p, g.p)
                 [] spline_method' = "Square" -> ~(known(s.p, g.p) /\ s.v = Zero)
                 [] spline_method' = "Cubic"  -> ~(known(s.p, g.p) /\ s.v = Zero /\ g.v = Zero)
                 [] OTHER -> ~(known(s.p, g.p) /\ {s.v, g.v, s.a, g.a} = {Zero})
      some(x) == IF moves THEN Some ELSE x
  IN [p |-> IF done THEN g.p ELSE some(g.p),
      v |-> IF done /\ spline_method' \in {"Cubic", "Quintic"} THEN g.v ELSE some(Zero),
      a |-> CASE spline_method' = "Linear" -> Zero
              [] spline_method' = "Quintic" /\ done -> g.a
              [] OTHER -> some(Zero)]

\* Mutant of rampDownSpline: a stop leaves half of the velocity, too.
rampDownSplineHalf(s, stop, done) ==
  [p |-> moved(s.p, s.v),
   v |-> scaled("part", s.v),
   a |-> IF done THEN Zero ELSE scaled("part", s.v)]

\* The velocity ends at zero, or at half of what it was.
rampDownSpline(s, stop, done) ==
  [p |-> moved(s.p, s.v),
   v |-> scaled(IF done /\ stop THEN "zero" ELSE "part", s.v),
   a |-> IF done THEN Zero ELSE scaled("part", s.v)]

\* Mutant of slerp: the linear interpolation is divided by the duration, too.
slerpDivides(s, g, dur, done) ==
  [p |-> blend(rampIn(done), s.p, g.p),
   v |-> CASE Invalid \in {s.p, g.p} \/ dur = 0 -> Invalid
           [] known(s.p, g.p) -> Zero
           [] OTHER -> Some,
   a |-> Zero]

\* Slerp::evaluate.  The derivative of a Slerp is divided by the duration of
\* the conditions, which is not limited by the lowest sample time.
slerp(s, g, dur, done) ==
  [p |-> blend(rampIn(done), s.p, g.p),
   v |-> CASE Invalid \in {s.p, g.p} \/ (~use_linear' /\ dur = 0) -> Invalid
           [] known(s.p, g.p) -> Zero
           [] OTHER -> Some,
   a |-> Zero]

\* A ramp down of the orientation.
softRampDown(s, x, done) ==
  LET v == scaled(rampOut(done), s.v)
  IN [p |-> moved(x.p, v), v |-> v, a |-> Zero]

softRampVelocity(s, g, x, done) ==
  LET v == blend(rampIn(done), s.v, g.v)
  IN [p |-> moved(x.p, v), v |-> v, a |-> Zero]

\* Mutant of softRampPosition: the ramp is not completed.
softRampPositionShort(s, g, done) ==
  softRampVelocity(s, g, [p |-> blend("part", s.p, g.p)], done)

\* The case RampInPosition has no break: the case RampInVelocity follows.
softRampPosition(s, g, done) ==
  softRampVelocity(s, g, [p |-> blend(rampIn(done), s.p, g.p)], done)

\* SoftRamp::evaluate
softRamp(s, g, x, done) ==
  CASE step'.interpolator.op = "RampDown" -> softRampDown(s, x, done)
    [] step'.interpolator.op = "RampInPosition" -> softRampPosition(s, g, done)
    [] step'.interpolator.op = "RampInVelocity" -> softRampVelocity(s, g, x, done)

\* EGMInterpolator::evaluate.  A stop and a ramp down to half of the velocity
\* differ in their durations.
evaluate(c, x, done) ==
  LET s    == initial'[c]
      g    == goal'[c]
      dur  == step'.interpolation.dur
      stop == dur = RAMP_DOWN_STOP_DURATION
  IN CASE step'.interpolator.op = "Normal" ->
            IF c = "axis" THEN spline(s, g, done) ELSE slerp(s, g, dur, done)
       [] step'.interpolator.op = "RampDown" /\ c = "axis" -> rampDownSpline(s, stop, done)
       [] OTHER -> softRamp(s, g, x, done)

(***************************************************************************)
(* Controller::calculate: x is the evaluated reference of a coordinate.    *)
(***************************************************************************)
\* Mutant of velocityTransition: only for linear interpolation.
velocityTransitionLinear(c) == controller' /\ (c = "axis" => spline_method' = "Linear")

\* checkForVelocityTransition; the orientation has no condition but the state.
velocityTransition(c) ==
  controller' /\ (c = "axis" => step'.interpolation.reach \/ spline_method' = "Linear")

\* Mutant of calculate: the transition is also applied to positions.
calculatePositions(c, x, done) ==
  LET a == IF step'.interpolation.reach THEN rampOut(done) ELSE "one"
      v == IF c = "orientation" \/ spline_method' = "Linear"
             THEN blend(rampIn(done), initial'[c].v, x.v) ELSE x.v
  IN IF velocityTransition(c)
       THEN [p |-> scaled(a, x.p), v |-> scaled(a, v), a |-> scaled(a, x.a)]
       ELSE x

\* Positions pass; the gain k_ is one.
calculate(c, x, done) ==
  LET a == IF step'.interpolation.reach THEN rampOut(done) ELSE "one"
      v == IF c = "orientation" \/ spline_method' = "Linear"
             THEN blend(rampIn(done), initial'[c].v, x.v) ELSE x.v
  IN IF velocityTransition(c)
       THEN [p |-> x.p, v |-> scaled(a, v), a |-> scaled(a, x.a)]
       ELSE x

-----------------------------------------------------------------------------
(***************************************************************************)
(* MotionStep.  The goals a message prepares; the control, which is in     *)
(* TrajectoryMotion, tells which.                                          *)
(***************************************************************************)
\* estimateDuration, of a point without a duration, resets its velocities.
estimatesDuration == step'.external.dur = NoDuration

\* prepareNormalGoal and transfer; the velocities of a last point are reset.
normalGoal(last_point) ==
  LET given(x) == IF last_point \/ estimatesDuration THEN Zero ELSE x
  IN [c \in Coordinates |->
        [p |-> positionOf(step'.external),
         v |-> IF c = "axis" THEN given(PointVelocity) ELSE Zero,
         a |-> IF c = "axis" THEN given(PointAcceleration) ELSE Zero]]

staticGoal(x, op) ==
  [c \in Coordinates |-> IF op = "RampInPosition"
                           THEN [x[c] EXCEPT !.p = StaticPosition]
                           ELSE [x[c] EXCEPT !.v = StaticVelocity]]

\* x are the references, p is the prepared object.  A ramp down uses no goal.
preparedGoal(x, p) ==
  LET points == IF p.trj.has THEN p.trj.current ELSE Head(p.trj.primary)
  IN CASE step'.interpolator.op = "Normal" -> normalGoal(Len(points) = 1)
       [] step'.interpolator.op = "RampDown" -> x
       [] OTHER -> staticGoal(x, step'.interpolator.op)

\* A message that takes a new goal starts its time again.
has_new_goal(dt) == active' /\ step'.time_passed = dt

\* updateInterpolator and Controller::update, for a new goal.  Only a normal
\* goal uses the Slerp; orientations that are close are interpolated linearly.
updateReferences(x, p) ==
  /\ initial' = x
  /\ goal' = preparedGoal(x, p)
  /\ use_linear' \in IF \/ step'.interpolator.op # "Normal"
                        \/ known(initial'["orientation"].p, goal'["orientation"].p)
                        THEN {TRUE} ELSE BOOLEAN
  /\ resumed' = (step'.interpolator.op = "Normal" /\ p.mgr.state[1] = "RampDown")

\* evaluateInterpolator and Controller::calculate, for an active goal.
generateReferences(x) ==
  LET done == step'.time_passed >= step'.interpolator.dur
  IN /\ interpolation' = [c \in Coordinates |-> calculate(c, evaluate(c, x[c], done), done)]
     /\ outputs' = sent(interpolation')

\* The active goal has a Slerp that is divided by its duration, and that is 0.
dividesByZero ==
  active' /\ step'.interpolator.op = "Normal" /\ ~use_linear' /\ step'.interpolation.dur = 0

\* The references of a motion step after a reset: the feedback, at rest.
resetReferences == everywhere(atRest(Feedback))

\* A first message takes up the configuration that the user has set last.
initializeCallback(first) ==
  spline_method' \in IF first THEN SplineMethods ELSE {spline_method}

\* The outputs of a first message are the feedback, at rest.
prepareOutputs(first) == IF first THEN sent(resetReferences) ELSE outputs

\* A first message resets the motion step.
OkReferences(met) ==
  \E first \in BOOLEAN, est \in Estimates, dt \in SampleTimes :
    LET x == IF first THEN resetReferences ELSE interpolation
    IN /\ isFirstMessage(first)
       /\ initializeCallback(first)
       /\ okMessage(first, met, est, dt)
       /\ IF has_new_goal(dt) THEN updateReferences(x, prepared(first, TRUE))
                              ELSE UNCHANGED <<initial, goal, use_linear, resumed>>
       /\ IF active' THEN generateReferences(x)
                     ELSE interpolation' = x /\ outputs' = prepareOutputs(first)
       /\ divided' = ((divided /\ ~first) \/ dividesByZero)

\* A message that finds an active session not ok resets the motion step only.
NotOkReferences ==
  \E first \in BOOLEAN :
    /\ isFirstMessage(first)
    /\ initializeCallback(first)
    /\ notOkMessage(first)
    /\ interpolation' = IF first \/ ~inactive THEN resetReferences ELSE interpolation
    /\ outputs' = prepareOutputs(first)
    /\ divided' = (divided /\ ~first)
    /\ UNCHANGED <<initial, goal, use_linear, resumed>>

ReferenceNext ==
  \/ NotOkReferences
  \/ \E met \in SUBSET goalIds : OkReferences(met)
  \/ Command /\ UNCHANGED referenceVars

ReferenceSpec == ReferenceInit /\ [][ReferenceNext]_allVars

-----------------------------------------------------------------------------
(***************************************************************************)
(* Properties.                                                             *)
(***************************************************************************)
\* The duration of the active goal has passed.
finished == active /\ step.time_passed >= step.interpolator.dur

\* The coordinates whose references are numbers.  Slerp::evaluate divides by the
\* duration of the goal, and nothing keeps a user or estimateDuration from a
\* duration of zero; what the orientation becomes then is the start of the goals
\* that follow, until the next session.
finite == {c \in Coordinates : c = "axis" \/ ~divided}

\* No other number that is sent is not finite: an axis is never affected, nor is
\* an orientation before a division by zero or after the next first message.
NumbersStayValid ==
  \A c \in finite : Invalid \notin {outputs[c].p, outputs[c].v}

\* When the duration of a normal goal has passed, also of one that was
\* interrupted and resumed, the position sent is the one the user asked for, in
\* every finite coordinate.
GoalIsSent ==
  finished /\ executed = "Normal"
    => \A c \in finite : outputs[c].p = positionOf(step.external)

\* A stop stops: once a stopped ramp down has finished no velocity is sent in any
\* finite coordinate, whatever was executed before it.
StopIsStill ==
  mgr.state = <<"RampDown", "Finished">> /\ events.do_stop /\ mgr.pending = NoPending
    => \A c \in finite : outputs[c].v = Zero

\* The velocity sent at the end of a goal that has to be reached is zero in every
\* finite coordinate, except for a goal that was taken up by the message that
\* ended a ramp down: Controller::update is called in the state RampDown then, and
\* nothing is ramped out.
RestAtReachedGoal ==
  finished /\ executed = "Normal" /\ step.interpolation.reach /\ ~resumed
    => \A c \in finite : outputs[c].v = Zero

\* A static position goal, once ramped in, is where the robot is sent, and it
\* is sent there to stay.
StaticPositionIsHeld ==
  finished /\ mgr.state[1] = "StaticGoal" /\ step.interpolator.op = "RampInPosition"
    => \A c \in Coordinates : outputs[c].p = StaticPosition /\ outputs[c].v = Zero

\* The same for a finite coordinate that is ramped in from rest, and for velocity
\* goals.
StaticGoalIsHeld ==
  finished /\ mgr.state[1] = "StaticGoal"
    => \A c \in finite :
         CASE step.interpolator.op = "RampInVelocity" -> outputs[c].v = StaticVelocity
           [] step.interpolator.op = "RampInPosition" /\ initial[c].v = Zero ->
                outputs[c].p = StaticPosition /\ outputs[c].v = Zero
           [] OTHER -> TRUE
=============================================================================
