# abb_libegm in TLA+

abb_libegm lets an external computer guide an ABB robot. Some 250 times a
second the robot controller sends a UDP message with feedback; the library
answers each one with references for joints or for the tool. This directory
holds TLA+ models of the parts of the library that keep state, the TLC runs
that check them on small instances, and TLAPS proofs that hold for every value
of the constants. Paths below are relative to the repository (`src/...`).

## The system

| part | source | state and operations |
|---|---|---|
| `UDPServer` | `egm_udp_server.cpp` | a socket, one receive buffer and one remote endpoint; handlers on a `boost::asio::io_service` |
| `EGMBaseInterface` | `egm_base_interface.cpp` | the callback (parse, configure, extract, reply), session data, the configuration and its pending update, `isConnected` |
| `InputContainer`, `OutputContainer` | same | first-message detection, sample time, mapping of joints, sequence number, reply string |
| `EGMControllerInterface`, `ControllerMotion` | `egm_controller_interface.cpp` | two buffers between the callback and user threads, each with a mutex, a condition variable and a ready flag |
| `EGMTrajectoryInterface`, `TrajectoryMotion` | `egm_trajectory_interface.cpp` | queues of trajectories, pending events set by users, the goal being executed, execution progress |
| `StateManager` | same | the pair (state, sub-state), and the pair that replaces it at the next message |
| `MotionStep`, `Controller` | same | goals, durations, references and outputs |
| `EGMInterpolator` | `egm_interpolator.cpp` | splines, slerp and soft ramps over the reals |
| `EGMLogger` | `egm_logger.cpp` | rows of CSV, up to a time limit |
| auxiliary functions | `egm_common_auxiliary.cpp` | parsing and copying of messages, `saturate`, rotations |
| messages | `src/proto/` | definitions from which code is generated |

Threads meet in four places. The threads of the `io_service` share the buffers
of the server. The callback and the users share the configuration and the
session data (`EGMBaseInterface`), the two buffers (`ControllerMotion`), and
the pending events and queues (`TrajectoryMotion`). The network between robot
and library loses, repeats and reorders messages, and the robot may start a
new session at any time: the library notices it only by sequence number 0.

## Modules

Modules ending in `Proofs` extend a model and hold its theorems; modules
beginning with `MC` give its constants small values.

| module | models | state | one action is |
|---|---|---|---|
| `StateManager` | `TrajectoryMotion::StateManager` | operators only | - |
| `TrajectoryMotion` | `TrajectoryMotion`, the commands of `EGMTrajectoryInterface`, and what `MotionStep`, `Controller` and the interpolator contribute to control | `mgr`, `events`, `trj`, `step`, `active`, `controller`, `progress` | one message, or one user command |
| `ExecutionStates` | (abstract) the graph of states a user sees | `state` | one visible change of state |
| `TrajectoryHistory` | `TrajectoryMotion` with a record of the trajectory executed last and of those that a withdrawn discard stranded | the same, `last` and `stranded` | the same |
| `DiscardHistory` | `TrajectoryMotion` with a record of the last order to discard | the same and `discarded` | the same |
| `ControllerMotion` | `ControllerMotion` and the callback of `EGMControllerInterface` | program counters, owners of mutexes, timers, ready flags | taking a lock; a critical section; a wakeup; a timeout |
| `MotionExchange` | (abstract) the same calls as atomic steps | phases and calls, ready flags | one call |
| `ControlLoop` | `ControllerMotion` with users that run the loop of the documentation (`egm_controller_interface.h:54-58`), or call in any order | the same, the stage of each loop | the same |
| `BaseInterface` | `EGMBaseInterface` with `InputContainer` and `OutputContainer`, the robot and the network | messages sent, callback, configuration, session data, sensor message, `isConnected` | a part of the callback between two locks; a user call |
| `UDPServer` | `UDPServer`, with the `io_service` and the network as environment | socket, operations, shared buffers, threads | a part of a handler; an event of the network |
| `MotionReferences` | `MotionStep`, `EGMInterpolator`, `Controller` and `prepareOutputs`: what is sent to the robot, driven by the steps of `TrajectoryMotion` | that of `TrajectoryMotion`, `interpolation`, `initial`, `goal`, `use_linear`, `outputs`, `spline_method`; the histories `resumed` and `divided` | the same |
| `JointMapping`, `SampleTime` | `parse` of joints, `constructJointBody`, `estimateSampleTime` | operators only | - |
| `SplinePolynomial` | `EGMInterpolator::SplinePolynomial`, and the slots of the polynomials in `EGMInterpolator::update` | operators only | - |
| `EGMLogger` | `EGMLogger` and `logData`: columns of header and rows, and the bound on what is logged | operators only | - |
| `MessageConversions` | the four modules above over all small inputs | joints, axes, two times, rows logged, conditions of a spline | a message is received, a spline is updated |

What is abstracted, and why it is sound for the properties:

* **Positions.** A point of a trajectory is its identity, the number of points
  that follow it, whether it must be reached, and its duration. The feedback of
  a message is the set of points it satisfies, chosen freely: every outcome
  that the conditions on positions can have is included.
* **References in `MotionReferences`** are names: where a goal is, the velocity
  a user asked for, zero, some value in between, or a number that is not finite.
  A coordinate is an axis (joints and Cartesian axes, which the code treats
  alike) or the orientation. The names keep what the ramps and splines are at
  their ends, and whether a coordinate at rest stays at rest; that splines
  behave as these names say is what `SplineProofs` proves. Goals specify every
  coordinate, a session has one mode, and messages that cannot be parsed or
  extracted are left to `BaseInterface`.
* **Splines in `SplinePolynomial`** are exact: coefficients are multiplied by
  powers of the duration, so that the divisions of the code disappear.
  Rounding of floating point numbers is left out.
* **Time in `TrajectoryMotion`** is counted in units and saturates at
  `MaxDuration`; results of `estimateDuration` are chosen from `Estimates`.
* **Atomicity in `TrajectoryMotion`.** `generateOutputs` holds both mutexes
  from beginning to end, and every command holds the data mutex, so each is a
  single step. No such argument exists for `ControllerMotion`, where taking a
  lock is a step of its own, nor for the callbacks of `BaseInterface` and
  `UDPServer`, which are split where they lock or where handlers can interleave.
* **Contents of buffers** are reduced to what the properties tell apart: unread
  or not, written or prepared in this session or not, old or new.
* **External code.** boost's mutexes, condition variables (with spurious
  wakeups) and `io_service`, the robot controller and the network are modelled
  from how the library uses them.

## Runs

| run | question | result |
|---|---|---|
| `trajectory_commands` | two trajectories, any command but a change of the factor at any time, a second session at any moment | no handler meets a state marked "Should never occur"; goals and interpolation fit the state; what is queued of a trajectory is a tail of its points; trajectories are executed in the order of their acceptance, except stranded ones; transient states are left at the next message; visible states follow `ExecutionStates` |
| `trajectory_liveness` | do ramp downs, resumes and queues finish? | yes, under the fairness below; a stranded trajectory may stay in the temporary queue |
| `motion_references` | what is sent when goals are interrupted, stopped, resumed and replaced by static goals | a goal's position is sent when its duration has passed, also after interruptions; a stop ends at rest; a goal that must be reached ends at rest, unless it was taken up at the end of a ramp down; static goals are held when ramped in from rest; numbers are finite, except those of an orientation after a division by a duration of zero, to which the other properties do not apply either |
| `controller_threads` | two user threads calling in any order | mutual exclusion, no missed notification, no output of an earlier session in a reply, and every call is atomic (`MotionExchange`) |
| `control_loop` | one loop of messages and replies | every message is answered and every wait returns; outputs belong to the message, as long as nothing has put the two out of step |
| `base_interface` | lost, repeated, reordered messages; restarts; reconfiguration | no update lost, none applied within a session whose messages come in order, no old reply, `isConnected` is right |
| `udp_server` | two threads, two clients, failures, destruction | one receive at a time, every message is handled, and what is sent goes to the client it answers; it is the reply to that client unless the interface was called again before the send was done |
| `message_conversions` | all numbers of robot joints up to 8 and of external joints up to 13, all pairs of small times, all small spline conditions | mapping and inverse agree, sample times are right, rows of the log fit the header and are bounded in number, when polynomials fit their array and when they are shared, and that they meet their conditions |
| `last_point`, `discard`, `stale_velocity`, `static_position` | a sentence of the documentation each | violated, see Findings |

**Bounds.** Two trajectories of two points, the first of which must be reached
while the second has no duration of its own, are the least with which
interruption, skipping of reached points, discarding and order all occur.
`trajectory_liveness` and `motion_references` have one trajectory of two points,
to pass by or (references only) to reach; only the former changes the duration
factor, to 2. `MaxDuration = 2` is the longest duration that a point or a
constant has, so that the saturation cuts nothing but the time that passes after
a goal and, in `trajectory_liveness`, the longer point of duration 4. The factor
changes durations and not what is sent at their ends. In `motion_references` an
estimated duration may be zero. Two sessions, in `trajectory_commands`, let
everything that survives a reset be seen; the references start anew with a
session, and the theorems cover any number of them. The command
`retrieveExecutionProgress` changes nothing that the other runs observe and is
left to `motion_references`. Of the spline methods `motion_references` has
linear, square and quintic; cubic differs from quintic only in that it ignores
accelerations. Two user threads are the
least that compete for one notification; the theorems about `ControllerMotion`
hold for any number. Three messages with a sequence number modulo 2 allow a
restart, a duplicate, a reordering and an overflow. Eight robot joints exceed
what a robot has (seven), and thirteen external joints the array of twelve
splines; `UINT_MODULUS = 32` with two seconds
of six units makes the unsigned subtraction wrap; `MaxLogTime` allows several
rows at the lowest sample time. Splines have values in -1 .. 1 and durations up
to 3, and theorems for the rest. Sets of threads and clients are left without
symmetry, which TLC does not support for liveness.

**Fairness.**

* `trajectory_liveness`: infinitely often a message is ok and its feedback
  satisfies the goals (`WF(HistoryOkMessage(goalIds))`): the controller sends messages
  every few milliseconds during a session, and follows the references. Users
  are not fair. If the robot never reaches a goal, the code waits for it, and
  should.
* `control_loop`: strong fairness of the steps of each thread, since a mutex
  that is released again and again is obtained in the end, and of the timeout
  of the callback. `WaitReturns` is about messages that are published;
  a wait without timeout does not return if the robot stops sending.
* `udp_server`: threads of the `io_service` run ready handlers (weak), and
  receives do not fail for ever while messages arrive (strong).

Deadlock is checked everywhere except in `udp_server`, where a server that is
closed, or could not bind its socket, does nothing.

## Proofs

All theorems are checked by TLAPS from the named assumptions on the constants
(`ConstantsAssumption`, `MethodsAssumption`, `BoundAssumption`,
`UsersAssumption`, `BaseAssumption`, `ServerAssumption`, `JointAssumption`,
`SampleAssumption`, `LoggerAssumption`, `ConversionAssumption`), which TLC
evaluates for every instance. `ConstantsAssumption` asks for what the constants
of the code guarantee, with times in units that divide all of them: durations are
natural numbers, sample times and the least duration factor
(`egm_trajectory_interface.h:332`) are positive.
`BoundAssumption` concerns the saturation of times, which the code does not have:
`MaxDuration` exceeds every sample time, and a stop ends before it.

Every safety property that a passing run checks, refinements included, is also
a theorem.

* **`TrajectoryMotionProofs`** has three parts.
  * `TypeCorrect`. One lemma for each handler and each operator of `MotionStep`;
    none of the stored durations is negative, and none is zero unless a user
    gave one.
  * `NeverOccurs`, `TransientPairsMoveOn`, `Refinement` (of `ExecutionStates`).
    The inductive invariant `ManagerInv` says which pending pairs are possible
    with each current pair. It is needed because a transition is decided in one
    message and takes effect in the next, and a command or a reset may come
    between. `StepManager` reduces each step of the whole model to one of a few
    changes of `mgr`, from which all three theorems follow.
  * `InterpolationFits`, `GoalsHaveTrajectories`, `InterruptedGoals`,
    `RampOutFits`. The four are inductive only together (`GoalInv`) and with
    `ManagerInv`: whether a ramp down has a goal depends on what the normal state
    left behind. `FitsObject` states them of the object between the preparation
    of a message and its dispatch, and there is one lemma for each pair of states.
* **`QueueProofs`**: `TrajectoriesStayIntact` and `TrajectoriesInOrder`, for all
  trajectories, commands and numbers of sessions. `QueueInv` says that each of
  the two queues is ordered by acceptance and holds tails of trajectories; a
  restart during a ramp down stores the interrupted point a second time, so that
  a tail may repeat its first point once there was a second session (`Left`).
  The order of the queues at each moment does not tell what was executed before:
  `OrderInv` adds that there is a trajectory `b`, the last one that was accepted
  before the pending order to discard, such that the primary queue holds numbers
  from `last` to `b`, the temporary one numbers after `b`, and both otherwise
  only stranded ones. The lemmas about the handlers are stated for arbitrary sets
  of numbers in the two queues, and serve both invariants.
* **`MotionReferencesProofs`**: `GoalsAreSent`, `StopsAreStill`,
  `ReachedGoalsAtRest`, `NumbersAreValid`, `StaticGoalsAreHeld`, for all
  durations, zero included. The code allows a user to give a duration of zero,
  and `estimateDuration` to return one; the derivative of the Slerp
  (`egm_interpolator.cpp:414`), which does not use the duration that
  `EGMInterpolator::update` has limited, is then divided by zero, and the
  orientation stays invalid until the next session. The history `divided` records
  it, and the properties are about the other coordinates (`finite`): an axis at
  any time, an orientation while `divided` is false. `resumed` records that the
  goal was taken up by the message that ended a ramp down, the one exception of
  `RestAtReachedGoal`. The properties look at a single moment, the end of a goal.
  The invariant
  `ReferenceInv` ties that moment to the past: `TimeInv` (time has passed for an
  active goal), `StopInv` (an order to stop cannot come or go while a ramp down
  lasts, so that its duration tells whether it stops) and `ReferencesInv` (the
  goal in the interpolator is the one of the motion step, the references of finite
  coordinates are valid, and what was sent is what the operation promises for its end). A lemma
  for each handler says that it takes a new goal or continues the last one; a
  lemma for each ramp and spline says what it ends with. `ReferenceNextIsNext`
  carries the invariants of `TrajectoryMotion` over.
* **`ControllerMotionProofs`**: `TypeCorrect`, `Exclusion`, `Notification`,
  `SessionReplies`, `NewInputs` and `Refinement` (locks, waits, wakeups and
  timeouts implement the atomic calls of `MotionExchange`), for any set of
  users. `BufferInv` adds that while inputs are ready no user has read them,
  which makes `WaitGivesNewInputs` inductive. `OutputsAreNew` is about the
  `ControlLoop` of one user (`SingleLoop`; two loops may both write for one
  message). `InStep` says, for each phase of the callback, how far the loop has
  come with the message: before a message is published the loop waits and neither
  buffer is ready; ready outputs mean that it has read and written since.
* **`BaseInterfaceProofs`**: `TypeCorrect`, `UpdatesAreKept`,
  `SessionConfiguration` (of sessions whose messages come in order),
  `FreshReplies`, `ConnectionWasSeen`, for any number
  of messages and sessions and any width of the sequence number. `MessageInv`
  ties the place in the callback to the message it handles; `ProbeInv` ties the
  two looks of `isConnected` at the session data.
* **`UDPServerProofs`**: `TypeCorrect`, `ReceiveOnce`, `RepliesReachSenders`, for
  any number of threads, clients and messages. `TokenInv` says where the one
  receive is: outstanding, ready, or in the hands of one thread. It makes the
  threads take turns with the shared buffer, without which `SenderInv`, that the
  endpoint belongs to the message in the buffer, would not be inductive.
* **`SplineProofs`**: `SplinesMeetConditions` (each method starts and ends with
  the values it is given), `RampDownsSlow` (the velocity of a ramp down neither
  changes its sign nor grows) and `StillStays` (a coordinate at rest at its goal
  stays there), for all integer conditions and every duration.
* **`ConversionProofs`**: `FeedbackComesBack`, `PlannedComesBack`, `SampleTimes`,
  `LogRowsFit`, `LogBound`, `SplinesApart`, `SplinesAreRight`, the properties of
  `message_conversions` for any number of joints, any times and any conditions.
  Only the log has a history, and its bound an invariant of its own (`LogInv`);
  the others follow from the types of the inputs.

The invariants were checked with TLC before they were proved; `ReferenceInv`
also on an instance whose unit of time is finer than the lowest sample time.
That instance showed that an earlier form of `GoalIsSent` was too strong:
`interpolationDurationReached` is true up to half a sample before the duration
has passed, and the position sent then may still be short of the goal. The
properties of `MotionReferences` therefore speak of a duration that has passed.

Only model-checked: the liveness properties (`RampDownCompletes`,
`ResumeTakesEffect`, `QueueDrains`, `MessageIsAnswered`, `WaitReturns` and that
of `UDPServer`) and the refinement with fairness of `trajectory_liveness`, all of
which need fairness and ENABLED, which are out of the reach of the prover.

## Findings

Four runs show a sentence of the documentation that the code does not keep.

* **`last_point`** (`egm_trajectory_interface.cpp:1105`). `last_point` is
  computed before the loop that skips points already reached. When the loop
  skips to the last point, that point is not prepared as the last: it need not
  be reached, and its velocities are kept.
* **`discard`** (`egm_trajectory_interface.cpp:994`). A trajectory added while
  a discard is pending waits in a temporary queue. If a second stop orders a
  discard, that trajectory is still swapped in and executed after a resume.
* **`stale_velocity`** (`egm_base_interface.cpp:587`). The speed reference in
  the reply is never cleared, and is still sent in a session configured without
  velocity outputs.
* **`static_position`** (`egm_interpolator.cpp:496` and `:594`). The case
  `RampInPosition` of both soft ramps has no `break` and runs into
  `RampInVelocity`. A static position goal that is set while the robot moves
  keeps sending the velocity at its start, and positions that are off by one
  sample of it. `StaticGoalIsHeld` shows that from rest it is harmless.

Other differences were seen while the models were developed. No run is kept
for them; the hazards of `PROJECT.json` name them, too.

* `egm_trajectory_interface.cpp:798`: the ramp out is decided for the state
  before the message, so that the first normal goal after a ramp down does not
  have it (header, line 1045), and may end with a velocity; `RestAtReachedGoal`
  has this goal as its exception (`resumed`).
* `:1163-1196`: a trajectory that is added with an override, or while a discard is
  pending, waits in the temporary queue. A `stopTrajectory(false)` or
  `startStaticGoal(false)` before the next message withdraws the discard, and the
  trajectory is stranded: it was accepted, and stays in the temporary queue until
  a later discard swaps it in, perhaps after newer trajectories were executed, or
  a later override removes it. `ExecutionOrder` and `QueueDrains` have stranded
  trajectories as their exception.
* `:887`: a session that restarts during a ramp down stores the interrupted
  point a second time; `TrajectoriesIntact` allows this repetition.
* `:243`: goals that leave out coordinates, or change between joints and poses,
  are interpolated from the references that coordinate had last.
* `:1202`: a resume that was not needed stays pending, and a later stop does
  not wait for a resume (header, line 104).
* `:1250`: a slow and then a fast `setStaticGoal`, before a message is handled,
  leave the static goal state without `finishStaticGoal`.
* `:884`: events are not reset with a session; a static goal ordered in one
  session starts in the next.
* `:1134`: the duration of an interrupted goal is stored scaled and is scaled
  again when it is taken up (header, lines 122-123).
* `egm_controller_interface.cpp:79`: outputs that arrive after the timeout, or
  while the states are not ok, stay ready. The next message is answered at once
  with them, and from then on a loop that keeps to the documented order answers
  each message with outputs computed from the one before (comment, line 190).
  The message that timed out, or was not ok, is answered with the outputs of the
  reply before it, which are sent again (lines 188-202).
  `UndisturbedOutputsAreNew` excludes these cases.
* `egm_interpolator.cpp:364`: the linear branch of the Slerp is chosen by the
  absolute value of the dot product, and interpolates through zero when the
  quaternions have opposite signs; its derivative is not divided by the
  duration. In the other branch a duration of zero gives numbers that are not
  finite. A user may give one, and it is the estimate for a goal that equals the
  feedback; the properties of `MotionReferences` leave out the orientation from
  then on (`divided`).
* `egm_interpolator.cpp:714`, `:721`, `:751`: the loops bound the index of a joint,
  and not the index with `offset_` added. The polynomials of a robot with more than
  twelve joints, external ones included, exceed the array. In pose mode without a
  robot the offset is zero, and external joints share the polynomials of X, Y and
  Z. `SplinesAreDistinct` states both cases.
* `egm_interpolator.cpp:567`: orientations are ramped down to rest also where
  axes are ramped down to half of their velocity.
* `egm_base_interface.cpp:278`: outputs are prepared by a first message only;
  when states are lost in a session, the last velocities are sent on.
* `egm_base_interface.cpp:825`: the time logged is the number of rows times the
  current sample time, so logging may stop and start again. The number of rows
  is bounded all the same.
* `egm_logger.cpp:165`: without a robot, rows have more columns than the header.
* `egm_base_interface.cpp:76`: a session whose message 0 is lost is not
  recognised as new. A message 0 that is repeated, or late, is taken for a new
  session, and applies a pending configuration in the middle of one;
  `ConfigurationFixedInSession` is about messages in order. If message 0 cannot
  be extracted, the outputs of the session are never initialised: in the first
  session there are no replies, in a later one replies are sent that are built
  from the outputs of the session before.
* `egm_base_interface.cpp:83`: a message that is delivered late replaces newer
  session data.
* `egm_udp_server.cpp:117`: the reply string is overwritten by the next message
  while an earlier send may still use it. A client may then be sent the reply to
  another one (`egm_udp_server.h:100` says that the server "returns a reply to the
  client"). `RepliesGoToSender` shows that nothing else causes this.

## Not modelled

* Rotations (products, logarithms and conversions of quaternions), estimates of
  velocities, and demo outputs: arithmetic over the reals, with square roots and
  trigonometric functions.
* The text of the log, of which only the columns are counted.
* `copyPresent`, `reset`, `verify`: field by field copies of messages.
* The generated code of the messages.
* The optional external condition variable of `EGMControllerInterface`, which
  the library only notifies.
* Destruction of objects while threads still use them, and `io_service` threads
  that run before an interface is constructed: both are left to the user.

## Plan

1. Done: `TrajectoryMotion` with its state manager and its references,
   `ControllerMotion` with its abstract exchange, `BaseInterface`, `UDPServer`,
   splines, logger and conversions.
2. Next: goals that leave out coordinates or change the mode, with `copyPresent`
   and `verify`; the server composed with the base interface, so that
   `OneReceive` justifies the single callback that `BaseInterface` and
   `ControllerMotion` assume.
3. Done: theorems for the invariants of all runs. Modules to be proved about
   use no `RECURSIVE` operator, name their assumptions, and state invariants as
   conjunctions of named parts.
