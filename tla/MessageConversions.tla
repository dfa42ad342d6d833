------------------------- MODULE MessageConversions -------------------------
(***************************************************************************)
(* The conversions of numbers, for all small inputs: the joints of a       *)
(* message, the times of messages, which decide what is logged, and the    *)
(* conditions of a spline polynomial.  They share nothing, so a behaviour  *)
(* is about one subject.  Joint values are names, all different.           *)
(***************************************************************************)
EXTENDS JointMapping, SampleTime, EGMLogger, SplinePolynomial

CONSTANTS
  MaxRobot,     \* bound: number of robot joints of a message
  MaxExternal,  \* bound: number of external joints of a message
  MaxLogTime,   \* the configured duration of the log
  MaxValue,     \* bound: positions, velocities and accelerations of a spline
  MaxTime       \* bound: duration of a spline

\* The logger uses the numbers of joints that parse uses, MAX_NUMBER_OF_JOINTS
\* is their sum, and there are as many splines.
ASSUME ConversionAssumption ==
  /\ DEFAULT_NUMBER_OF_ROBOT_JOINTS = RobotJoints
  /\ MAX_NUMBER_OF_JOINTS = RobotJoints + ExternalJoints
  /\ MAX_NUMBER_OF_SPLINES = MAX_NUMBER_OF_JOINTS
  /\ MaxRobot \in Nat /\ MaxExternal \in Nat
  /\ MaxLogTime \in Nat
  /\ MaxValue \in Nat /\ MaxTime \in Nat

VARIABLES
  subject,  \* what this behaviour converts
  axes,     \* the configured axes
  joints,   \* the joints of a message, or the outputs of a reply
  current,  \* the time of a message
  previous, \* the time of the message before
  logged,   \* number_of_logged_messages_
  splines   \* the conditions of the spline that was updated, if one was

vars == <<subject, axes, joints, current, previous, logged, splines>>

named(prefix, n) == [i \in 1 .. n |-> <<prefix, i>>]

Joints == {[robot |-> named("robot", r), external |-> named("external", e)] :
             r \in 0 .. MaxRobot, e \in 0 .. MaxExternal}

values == -MaxValue .. MaxValue

\* Positions at the start are zero: only differences matter.
SmallConditions ==
  [duration : 1 .. MaxTime, spline_method : Methods, do_ramp_down : BOOLEAN, halves : {0, 1},
   alfa : {0}, d_alfa : values, dd_alfa : values,
   beta : values, d_beta : values, dd_beta : values]

Init ==
  /\ subject \in {"joints", "times", "splines"}
  /\ axes \in Axes
  /\ joints = [robot |-> <<>>, external |-> <<>>]
  /\ current = NoTime
  /\ previous = NoTime
  /\ logged = 0
  /\ splines = {}

receiveJoints ==
  /\ subject = "joints"
  /\ joints' \in Joints
  /\ UNCHANGED <<subject, axes, current, previous, logged, splines>>

\* logData and flush, for a message at this sample time.
logMessage(sample_time) ==
  logged' = IF logs(logged, sample_time, MaxLogTime) THEN logged + 1 ELSE logged

\* updatePrevious and the next message: its time may be any, as messages may be
\* reordered.
receiveTime ==
  /\ subject = "times"
  /\ previous' = current
  /\ current' \in Times
  /\ logMessage(estimateSampleTime(current', previous'))
  /\ UNCHANGED <<subject, axes, joints, splines>>

\* An update does not depend on the one before, which is forgotten first.
updateSpline ==
  /\ subject = "splines"
  /\ IF splines = {} THEN \E p \in SmallConditions : splines' = {p}
                     ELSE splines' = {}
  /\ UNCHANGED <<subject, axes, joints, current, previous, logged>>

Next == receiveJoints \/ receiveTime \/ updateSpline

Spec == Init /\ [][Next]_vars

-----------------------------------------------------------------------------
received == parse(joints.robot, joints.external, axes)
planned == constructJointBody(joints.robot, joints.external, axes)

\* The outputs start as a copy of the feedback: a reply that sends them back
\* names the joints exactly as the message did, unless the message has more
\* external joints than a reply has room for.
FeedbackIsSentBack ==
  received # Rejected /\ Len(joints.external) <= ExternalJoints
    => constructJointBody(received.robot, received.external, axes) = joints

\* The robot reaches what was planned: the joints of a reply, reported back as
\* feedback, are the outputs that were ordered, as far as there was room.
PlannedIsReported ==
  planned # Rejected
    => LET room     == IF axes = "Seven" THEN ExternalJoints - 1 ELSE ExternalJoints
           reported == parse(planned.robot, planned.external, axes)
       IN /\ reported.robot = joints.robot
          /\ IsPrefix(reported.external, joints.external)
          /\ Len(joints.external) <= room => reported.external = joints.external

elapsed == (current.sec - previous.sec) * S_TO_US + current.usec - previous.usec

\* Of two messages in the order in which they were sent the estimate is the
\* time between them, also when the microseconds start over, and at least the
\* lowest sample time.
SampleTimeIsElapsed ==
  NoTime \notin {current, previous} /\ elapsed >= 0
    => estimateSampleTime(current, previous) = Max({LOWEST_SAMPLE_TIME, elapsed \div MS_TO_US})

\* With any robot a row of the log has a value for every column of its header,
\* unless a message has more external joints than a robot controller.  It does
\* not hold without robot joints, where external joints are padded to twelve.
LogRowFits ==
  received # Rejected /\ axes # "None" /\ Len(joints.external) <= ExternalJoints
    => rowColumns(Len(received.robot), Len(received.external)) = headerColumns

\* However the sample times vary, no more is logged than at the lowest sample
\* time: the log does not grow for ever.
LogIsBounded == logged <= MaxLogTime \div LOWEST_SAMPLE_TIME + 1

\* For every message that parse accepts: the polynomials of all coordinates and
\* joints are within the array if, and only if, a robot and its external joints
\* are twelve at most; the loops do not bound the index with the offset added.
\* Each coordinate and joint has a polynomial of its own, except in pose mode
\* without a robot, where external joints share those of X, Y and Z.
SplinesAreDistinct ==
  received # Rejected =>
    \A mode \in {"EGMJoint", "EGMPose"} :
      LET robot    == Len(received.robot)
          external == Len(received.external)
          slots    == splineSlots(mode, robot, external)
      IN /\ (\A j \in DOMAIN slots : slots[j] < MAX_NUMBER_OF_SPLINES)
              <=> robot = 0 \/ robot + external <= MAX_NUMBER_OF_SPLINES
         /\ IsInjective(slots) <=> ~(mode = "EGMPose" /\ robot = 0 /\ external > 0)

\* The polynomial meets the conditions stated for its method at both ends, a
\* ramp down never reverses or speeds up the motion, and rest is kept.
SplineIsRight ==
  \A p \in splines :
    /\ MeetsConditions(p)
    /\ \A t \in 0 .. p.duration : RampDownSlows(p, t) /\ RestIsKept(p, t)
=============================================================================
