----------------------------- MODULE EGMLogger -----------------------------
(***************************************************************************)
(* EGMLogger and EGMBaseInterface::logData: how many columns a row of the  *)
(* log has, and how many rows are written.  Values are left out.           *)
(***************************************************************************)
EXTENDS Integers, FiniteSetsExt

CONSTANTS
  DEFAULT_NUMBER_OF_ROBOT_JOINTS,
  MAX_NUMBER_OF_JOINTS

ASSUME LoggerAssumption ==
  /\ DEFAULT_NUMBER_OF_ROBOT_JOINTS \in Nat
  /\ MAX_NUMBER_OF_JOINTS \in Nat
  /\ DEFAULT_NUMBER_OF_ROBOT_JOINTS < MAX_NUMBER_OF_JOINTS

\* Position, Euler angles and quaternion; linear and angular velocity.
poseColumns == 3 + 3 + 4
velocityColumns == 3 + 3

\* Feedback, planned and reference values, after the time stamp.
headerColumns ==
  1 + 3 * (2 * MAX_NUMBER_OF_JOINTS + poseColumns + velocityColumns)

\* Mutant of addMockJoints: room for as many external joints with any robot.
addMockJointsDefault(robot, robot_size, external_size) ==
  IF robot THEN Max({0, DEFAULT_NUMBER_OF_ROBOT_JOINTS - robot_size})
           ELSE Max({0, MAX_NUMBER_OF_JOINTS - DEFAULT_NUMBER_OF_ROBOT_JOINTS - external_size})

addMockJoints(robot, robot_size, external_size) ==
  IF robot THEN Max({0, DEFAULT_NUMBER_OF_ROBOT_JOINTS - robot_size})
           ELSE Max({0, MAX_NUMBER_OF_JOINTS - robot_size - external_size})

addJoints(robot_size, external_size) ==
  robot_size + addMockJoints(TRUE, robot_size, external_size)
    + external_size + addMockJoints(FALSE, robot_size, external_size)

\* A row for feedback, planned and reference joints of the same sizes.
rowColumns(robot_size, external_size) ==
  1 + 3 * (2 * addJoints(robot_size, external_size) + poseColumns + velocityColumns)

calculateTimeLogged(messages, sample_time) == messages * sample_time

\* Whether a message is logged.
logs(messages, sample_time, max_time) == calculateTimeLogged(messages, sample_time) <= max_time
=============================================================================
