---------------------------- MODULE BaseInterface ----------------------------
(***************************************************************************)
(* EGMBaseInterface: a robot controller sends messages over UDP, which     *)
(* loses, repeats and reorders them; the callback of the interface handles *)
(* one message at a time; user threads read the session data and set the   *)
(* configuration in between.                                               *)
(*                                                                         *)
(* The callback is split where it locks a mutex.  The contents of messages *)
(* and outputs are abstracted: of the reply only the fields that it holds  *)
(* are kept, and whether they were written for the message that it answers *)
(* or are left in egm_sensor_ from an earlier one.                         *)
(***************************************************************************)
EXTENDS Naturals

CONSTANTS
  MaxTime,        \* bound: number of messages that the robot sends
  WAIT_TIME,      \* WAIT_TIME_MS, in messages
  UINT_MODULUS,   \* 2^32, for sequence_number_
  RobotAxes,      \* the axes of the robot that sends the messages
  Offered         \* the configurations that the user sets

Axes == {"None", "Six"}
Configurations == [axes : Axes, use_velocity_outputs : BOOLEAN]

ASSUME BaseAssumption ==
  /\ MaxTime \in Nat
  /\ WAIT_TIME \in Nat
  /\ UINT_MODULUS \in Nat \ {0}
  /\ RobotAxes \in Axes
  /\ Offered \subseteq Configurations

\* A complete message has all the fields that the parse functions require.
Messages == [session : Nat, seqno : Nat, time : Nat, complete : BOOLEAN]
NoMessage == [session |-> 0, seqno |-> 0, time |-> 0, complete |-> FALSE]

\* The parts of EgmSensor that constructReply fills in.
JointFields == {"joints", "jointSpeed"}
CartesianFields == {"pose", "cartesianSpeed"}
Fields == JointFields \cup CartesianFields
Ages == {"absent", "old", "new"}
NoReply == [f \in Fields |-> "absent"]

VARIABLES
  robot,           \* the last message that the robot has sent
  sent,            \* every message it has sent: each arrives any number of times
  pc,              \* where the callback is
  msg,             \* the message of this callback, or NoMessage
  heard,           \* history: the newest message that was parsed; whether all
                   \* came in the order of sending, none twice; whether the
                   \* last was the first to be heard of its session
  first_call,      \* inputs_.first_call_
  first_message,   \* inputs_.first_message_
  configuration,   \* configuration_: active, update, has_pending_update
  session_data,    \* session_data_: message of the header and the status
  sequence_number, \* outputs_.sequence_number_
  sensor,          \* outputs_.egm_sensor_
  reply,           \* outputs_.reply_
  probe,           \* isConnected in progress: header_1, and history: a message
                   \* was extracted since it was read
  connected        \* what isConnected returned

callbackVars == <<pc, msg, heard, first_call, first_message, sequence_number, sensor, reply>>
vars == <<robot, sent, callbackVars, configuration, session_data, probe, connected>>

Init ==
  /\ robot = NoMessage
  /\ sent = {}
  /\ pc = "idle"
  /\ msg = NoMessage
  /\ heard = [newest |-> NoMessage, orderly |-> TRUE, fresh |-> FALSE]
  /\ first_call = TRUE
  /\ first_message = FALSE
  /\ \E c \in Offered :
       configuration = [active |-> c, update |-> c, has_pending_update |-> FALSE]
  /\ session_data = NoMessage
  /\ sequence_number = 0
  /\ sensor = NoReply
  /\ reply = NoReply
  /\ probe = [waiting |-> FALSE, header |-> NoMessage, seen |-> FALSE]
  /\ connected = FALSE

-----------------------------------------------------------------------------
(***************************************************************************)
(* The robot controller numbers the messages of a session from 0.          *)
(***************************************************************************)
Send(restart, complete) ==
  /\ robot.time < MaxTime
  /\ restart \/ robot.session > 0
  /\ robot' = [session |-> IF restart THEN robot.session + 1 ELSE robot.session,
               seqno   |-> IF restart THEN 0 ELSE robot.seqno + 1,
               time    |-> robot.time + 1,
               complete |-> complete]
  /\ sent' = sent \cup {robot'}
  /\ UNCHANGED <<callbackVars, configuration, session_data, probe, connected>>

(***************************************************************************)
(* The callback.                                                           *)
(***************************************************************************)

\* Mutant of ParseFails: the reply is not cleared.
ParseFailsKeepsReply ==
  /\ pc = "idle"
  /\ msg' = NoMessage
  /\ UNCHANGED <<robot, sent, pc, heard, first_call, first_message, sequence_number, sensor, reply,
                 configuration, session_data, probe, connected>>

\* A message that is not an EgmRobot message, or is empty, is not answered.
ParseFails ==
  /\ pc = "idle"
  /\ msg' = NoMessage
  /\ reply' = NoReply
  /\ UNCHANGED <<robot, sent, pc, heard, first_call, first_message, sequence_number, sensor,
                 configuration, session_data, probe, connected>>

\* What has been heard of the robot after message m is parsed.
hearing(m) ==
  [newest  |-> m,
   orderly |-> heard.orderly /\ m.time > heard.newest.time,
   fresh   |-> m.session > heard.newest.session]

\* Mutant of parseFromArray: a pending update is applied by any message.
parseFromArrayConfigures(m) ==
  /\ pc = "idle"
  /\ msg' = m
  /\ heard' = hearing(m)
  /\ first_message' = (first_call \/ m.seqno = 0)
  /\ first_call' = FALSE
  /\ sensor' = [f \in Fields |-> IF sensor[f] = "new" THEN "old" ELSE sensor[f]]
  /\ pc' = "configure"
  /\ UNCHANGED <<robot, sent, sequence_number, reply, configuration, session_data, probe,
                 connected>>

parseFromArray(m) ==
  /\ pc = "idle"
  /\ msg' = m
  /\ heard' = hearing(m)
  /\ first_message' = (first_call \/ m.seqno = 0)
  /\ first_call' = FALSE
  /\ sensor' = [f \in Fields |-> IF sensor[f] = "new" THEN "old" ELSE sensor[f]]
  /\ pc' = IF first_message' THEN "configure" ELSE "extract"
  /\ UNCHANGED <<robot, sent, sequence_number, reply, configuration, session_data, probe,
                 connected>>

updateConfiguration ==
  /\ pc = "configure"
  /\ configuration' = IF configuration.has_pending_update
                        THEN [configuration EXCEPT !.active = configuration.update,
                                                   !.has_pending_update = FALSE]
                        ELSE configuration
  /\ pc' = "extract"
  /\ UNCHANGED <<robot, sent, msg, heard, first_call, first_message, sequence_number, sensor, reply,
                 session_data, probe, connected>>

\* What the parse functions accept.
isExtracted(m, axes) == m.complete /\ axes = RobotAxes

\* Mutant of extractParsedInformation: a sequence number that is wider than the
\* field it is sent in.
extractParsedInformationWide(success) ==
  /\ pc = "extract"
  /\ success = isExtracted(msg, configuration.active.axes)
  /\ session_data' = IF success THEN msg ELSE NoMessage
  /\ reply' = NoReply
  /\ sequence_number' = IF ~success THEN sequence_number
                        ELSE IF first_message THEN 0
                        ELSE sequence_number + 1
  /\ probe' = [probe EXCEPT !.seen = @ \/ success]
  /\ pc' = IF success THEN "reply" ELSE "idle"
  /\ UNCHANGED <<robot, sent, msg, heard, first_call, first_message, sensor, configuration,
                 connected>>

extractParsedInformation(success) ==
  /\ pc = "extract"
  /\ success = isExtracted(msg, configuration.active.axes)
  /\ session_data' = IF success THEN msg ELSE NoMessage
  /\ reply' = NoReply
  /\ sequence_number' = IF ~success THEN sequence_number
                        ELSE IF first_message THEN 0
                        ELSE (sequence_number + 1) % UINT_MODULUS
  /\ probe' = [probe EXCEPT !.seen = @ \/ success]
  /\ pc' = IF success THEN "reply" ELSE "idle"
  /\ UNCHANGED <<robot, sent, msg, heard, first_call, first_message, sensor, configuration,
                 connected>>

\* The fields that a configuration asks for: constructReply tests the axes, and
\* each of the two bodies use_velocity_outputs.
asked(c) ==
  {f \in Fields : /\ f \in CartesianFields => c.axes # "None"
                  /\ f \in {"jointSpeed", "cartesianSpeed"} => c.use_velocity_outputs}

\* The outputs lack a field, or hold a value that is not a number: some of the
\* fields are written, no Cartesian one unless all joint ones were, and there
\* is no reply.
constructReply(written) ==
  /\ pc = "reply"
  /\ written \subseteq asked(configuration.active)
  /\ written \cap CartesianFields # {} =>
       asked(configuration.active) \cap JointFields \subseteq written
  /\ sensor' = [f \in Fields |-> IF f \in written THEN "new" ELSE sensor[f]]
  /\ reply' = IF written = asked(configuration.active) THEN sensor' ELSE NoReply
  /\ pc' = "idle"
  /\ UNCHANGED <<robot, sent, msg, heard, first_call, first_message, sequence_number, configuration,
                 session_data, probe, connected>>

(***************************************************************************)
(* The user interaction methods.                                           *)
(***************************************************************************)
\* Mutant of setConfiguration: the update is not marked as pending.
setConfigurationUnmarked(c) ==
  /\ configuration' = [configuration EXCEPT !.update = c]
  /\ UNCHANGED <<robot, sent, callbackVars, session_data, probe, connected>>

setConfiguration(c) ==
  /\ configuration' = [configuration EXCEPT !.update = c, !.has_pending_update = TRUE]
  /\ UNCHANGED <<robot, sent, callbackVars, session_data, probe, connected>>

isConnectedBegins ==
  /\ ~probe.waiting
  /\ probe' = [waiting |-> TRUE, header |-> session_data, seen |-> FALSE]
  /\ UNCHANGED <<robot, sent, callbackVars, configuration, session_data, connected>>

\* Mutant of isConnectedReturns: equal headers are accepted.
isConnectedReturnsEqual ==
  /\ probe.waiting
  /\ probe' = [probe EXCEPT !.waiting = FALSE]
  /\ connected' = /\ probe.header # NoMessage
                  /\ session_data # NoMessage
                  /\ session_data.seqno >= probe.header.seqno
                  /\ session_data.time >= probe.header.time
                  /\ session_data.time - probe.header.time <= 2 * WAIT_TIME
  /\ UNCHANGED <<robot, sent, callbackVars, configuration, session_data>>

isConnectedReturns ==
  /\ probe.waiting
  /\ probe' = [probe EXCEPT !.waiting = FALSE]
  /\ connected' = /\ probe.header # NoMessage
                  /\ session_data # NoMessage
                  /\ session_data.seqno > probe.header.seqno
                  /\ session_data.time > probe.header.time
                  /\ session_data.time - probe.header.time <= 2 * WAIT_TIME
  /\ UNCHANGED <<robot, sent, callbackVars, configuration, session_data>>

callback ==
  \/ ParseFails
  \/ \E m \in sent : parseFromArray(m)
  \/ updateConfiguration
  \/ \E success \in BOOLEAN : extractParsedInformation(success)
  \/ \E written \in SUBSET Fields : constructReply(written)

user ==
  \/ \E c \in Offered : setConfiguration(c)
  \/ isConnectedBegins
  \/ isConnectedReturns

Next == callback \/ user \/ \E restart, complete \in BOOLEAN : Send(restart, complete)

Spec == Init /\ [][Next]_vars

-----------------------------------------------------------------------------
(***************************************************************************)
(* Properties.                                                             *)
(***************************************************************************)

\* The variables have the types of the members they stand for.
TypeOK ==
  /\ robot \in Messages
  /\ sent \subseteq Messages
  /\ pc \in {"idle", "configure", "extract", "reply"}
  /\ msg \in Messages
  /\ heard \in [newest : Messages, orderly : BOOLEAN, fresh : BOOLEAN]
  /\ first_call \in BOOLEAN
  /\ first_message \in BOOLEAN
  /\ configuration \in
       [active : Configurations, update : Configurations, has_pending_update : BOOLEAN]
  /\ session_data \in Messages
  /\ sequence_number \in 0 .. UINT_MODULUS - 1
  /\ sensor \in [Fields -> Ages]
  /\ reply \in [Fields -> Ages]
  /\ probe \in [waiting : BOOLEAN, header : Messages, seen : BOOLEAN]
  /\ connected \in BOOLEAN

\* A configuration update is applied by the next session or still pending: the
\* callback, which tests and clears the flag while users set it, loses none.
UpdateIsNotLost ==
  ~configuration.has_pending_update => configuration.active = configuration.update

\* setConfiguration: "update is only applied for new EGM communication
\* sessions".  If messages are lost but none is repeated or overtaken, an update
\* is applied by the first message that is heard of a session of the robot, and
\* by no other.  A message 0 that comes again, or late, applies an update in the
\* middle of a session.
ConfigurationFixedInSession ==
  [][configuration'.active # configuration.active /\ heard.orderly => heard.fresh]_vars

\* A reply that is returned holds everything that the configuration asks for,
\* written for the very message it answers; a message that cannot be parsed or
\* extracted, or whose outputs are not valid, has no reply, not an old one.
RepliesAreFresh ==
  pc = "idle" /\ reply # NoReply
    => /\ msg # NoMessage
       /\ \A f \in asked(configuration.active) : reply[f] = "new"

\* isConnected returns true only if a message was extracted between its two
\* looks at the session data.
ConnectedSawMessage == connected /\ ~probe.waiting => probe.seen

\* use_velocity_outputs: "If set to false, then no velocity values are sent".
\* A speed reference of a session that sent them stays in egm_sensor_.
NoVelocityUnlessConfigured ==
  pc = "idle" /\ ~configuration.active.use_velocity_outputs
    => reply["jointSpeed"] = "absent" /\ reply["cartesianSpeed"] = "absent"
==============================================================================
