---------------------------- MODULE JointMapping ----------------------------
(***************************************************************************)
(* How joint values travel: parse turns the joints of a message into those *)
(* of the robot and the external axes, constructJointBody turns outputs    *)
(* into the joints of a reply.  The third axis of a seven axes robot is    *)
(* the first external joint of a message.                                  *)
(***************************************************************************)
EXTENDS Naturals, SequencesExt

CONSTANTS
  RobotJoints,    \* DEFAULT_NUMBER_OF_ROBOT_JOINTS
  ExternalJoints  \* DEFAULT_NUMBER_OF_EXTERNAL_JOINTS

ASSUME JointAssumption ==
  /\ RobotJoints \in Nat /\ RobotJoints >= 3
  /\ ExternalJoints \in Nat \ {0}

Axes == {"None", "Six", "Seven"}
Rejected == [rejected |-> TRUE]

\* Mutant of atMost: the last elements are kept.
lastMost(s, n) == SubSeq(s, IF Len(s) < n THEN 1 ELSE Len(s) - n + 1, Len(s))

\* The first elements, as many as there is room for.
atMost(s, n) == SubSeq(s, 1, IF Len(s) < n THEN Len(s) ELSE n)

-----------------------------------------------------------------------------
parse(robot, external, axes) ==
  CASE axes = "None" /\ Len(robot) = 0 ->
         [robot |-> <<>>, external |-> external]
    [] axes = "Six" /\ Len(robot) = RobotJoints ->
         [robot |-> robot, external |-> external]
    [] axes = "Seven" /\ Len(robot) = RobotJoints /\ Len(external) >= 1 ->
         [robot |-> InsertAt(robot, 3, Head(external)), external |-> Tail(external)]
    [] OTHER -> Rejected

\* Mutant of constructJointBody: the axis in the middle goes last.
constructJointBodyLast(robot, external, axes) ==
  CASE axes = "None" /\ Len(robot) = 0 ->
         [robot |-> <<>>, external |-> atMost(external, ExternalJoints)]
    [] axes = "Six" /\ Len(robot) = RobotJoints ->
         [robot |-> robot, external |-> atMost(external, ExternalJoints)]
    [] axes = "Seven" /\ Len(robot) = RobotJoints + 1 ->
         [robot |-> RemoveAt(robot, 3), external |-> atMost(external, ExternalJoints - 1) \o <<robot[3]>>]
    [] OTHER -> Rejected

constructJointBody(robot, external, axes) ==
  CASE axes = "None" /\ Len(robot) = 0 ->
         [robot |-> <<>>, external |-> atMost(external, ExternalJoints)]
    [] axes = "Six" /\ Len(robot) = RobotJoints ->
         [robot |-> robot, external |-> atMost(external, ExternalJoints)]
    [] axes = "Seven" /\ Len(robot) = RobotJoints + 1 ->
         [robot |-> RemoveAt(robot, 3), external |-> <<robot[3]>> \o atMost(external, ExternalJoints - 1)]
    [] OTHER -> Rejected

=============================================================================
