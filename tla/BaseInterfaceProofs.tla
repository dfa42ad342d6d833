------------------------- MODULE BaseInterfaceProofs -------------------------
(***************************************************************************)
(* The properties of BaseInterface hold for any number of messages and     *)
(* sessions, any configurations that a user sets, and any width of the     *)
(* sequence number.                                                        *)
(***************************************************************************)
EXTENDS BaseInterface, TLAPS

\* Messages that were sent are different from NoMessage, and a message is being
\* handled unless the callback is idle; only a first one is configured.
MessageInv ==
  /\ \A m \in sent : m.time > 0
  /\ pc # "idle" => msg.time > 0
  /\ pc = "configure" => first_message

\* As long as nothing was extracted since isConnected looked at the session
\* data first, they are what it saw, or were cleared.
ProbeInv ==
  probe.waiting /\ ~probe.seen => session_data \in {probe.header, NoMessage}

\* The robot's messages of a later session are sent later and begin with number
\* 0; while messages come in order, a first message begins a session.
HeardInv ==
  /\ \A m \in sent : m.time <= robot.time /\ m.session <= robot.session /\ m.session > 0
  /\ \A m, n \in sent : m.time < n.time /\ n.seqno = 0 => m.session < n.session
  /\ heard.newest \in sent \cup {NoMessage}
  /\ first_call => heard.newest = NoMessage
  /\ pc = "configure" /\ heard.orderly => heard.fresh

-----------------------------------------------------------------------------
\* The values that stand for nothing have their types.
LEMMA EmptyTypes == NoMessage \in Messages /\ NoReply \in [Fields -> Ages]
BY DEF NoMessage, Messages, NoReply, Ages

\* The types hold initially.
LEMMA TypeInit == Init => TypeOK
<1>. SUFFICES ASSUME Init PROVE TypeOK
  OBVIOUS
<1>1. configuration \in
        [active : Configurations, update : Configurations, has_pending_update : BOOLEAN]
  BY BaseAssumption DEF Init
<1>2. sequence_number \in 0 .. UINT_MODULUS - 1
  BY BaseAssumption DEF Init
<1>3. probe \in [waiting : BOOLEAN, header : Messages, seen : BOOLEAN]
  BY EmptyTypes DEF Init
<1>. QED
  BY <1>1, <1>2, <1>3, EmptyTypes, Zenon DEF Init, TypeOK

\* A message that the robot sends is a message.
LEMMA SendType ==
  ASSUME TypeOK, NEW restart \in BOOLEAN, NEW complete \in BOOLEAN, Send(restart, complete)
  PROVE  TypeOK'
<1>1. robot' \in Messages
  BY DEF Send, TypeOK, Messages
<1>. QED
  BY <1>1 DEF Send, TypeOK, callbackVars

\* What is recorded of a message is of its type.
LEMMA HearingType ==
  ASSUME TypeOK, NEW m \in Messages
  PROVE  hearing(m) \in [newest : Messages, orderly : BOOLEAN, fresh : BOOLEAN]
<1>1. (m.session > heard.newest.session) \in BOOLEAN
  BY DEF TypeOK, Messages
<1>2. (heard.orderly /\ m.time > heard.newest.time) \in BOOLEAN
  BY DEF TypeOK, Messages
<1>. QED
  BY <1>1, <1>2, Zenon DEF hearing

\* The steps of the callback keep the types.
LEMMA CallbackType == ASSUME TypeOK, callback PROVE TypeOK'
<1>1. CASE ParseFails
  BY <1>1, EmptyTypes DEF ParseFails, TypeOK
<1>2. CASE \E m \in sent : parseFromArray(m)
  <2>1. PICK m \in sent : parseFromArray(m)
    BY <1>2
  <2>2. sensor' \in [Fields -> Ages]
    BY <2>1 DEF parseFromArray, TypeOK, Ages
  <2>3. first_message' \in BOOLEAN /\ first_call' \in BOOLEAN
    BY <2>1, Zenon DEF parseFromArray, TypeOK
  <2>4. pc' \in {"idle", "configure", "extract", "reply"}
    BY <2>1 DEF parseFromArray
  <2>5. heard' \in [newest : Messages, orderly : BOOLEAN, fresh : BOOLEAN]
    BY <2>1, HearingType DEF parseFromArray, TypeOK
  <2>. QED
    BY <2>1, <2>2, <2>3, <2>4, <2>5 DEF parseFromArray, TypeOK
<1>3. CASE updateConfiguration
  BY <1>3, Zenon DEF updateConfiguration, TypeOK
<1>4. CASE \E success \in BOOLEAN : extractParsedInformation(success)
  <2>1. PICK success \in BOOLEAN : extractParsedInformation(success)
    BY <1>4
  <2>2. sequence_number' \in 0 .. UINT_MODULUS - 1
    BY <2>1, BaseAssumption DEF extractParsedInformation, TypeOK
  <2>3. session_data' \in Messages
    BY <2>1, EmptyTypes DEF extractParsedInformation, TypeOK
  <2>4. probe' \in [waiting : BOOLEAN, header : Messages, seen : BOOLEAN]
    BY <2>1 DEF extractParsedInformation, TypeOK
  <2>5. pc' \in {"idle", "configure", "extract", "reply"} /\ reply' \in [Fields -> Ages]
    BY <2>1, EmptyTypes DEF extractParsedInformation
  <2>. QED
    BY <2>1, <2>2, <2>3, <2>4, <2>5 DEF extractParsedInformation, TypeOK
<1>5. CASE \E written \in SUBSET Fields : constructReply(written)
  <2>1. PICK written \in SUBSET Fields : constructReply(written)
    BY <1>5
  <2>2. sensor' \in [Fields -> Ages]
    BY <2>1 DEF constructReply, TypeOK, Ages
  <2>3. reply' \in [Fields -> Ages]
    BY <2>1, <2>2, EmptyTypes DEF constructReply
  <2>. QED
    BY <2>1, <2>2, <2>3 DEF constructReply, TypeOK
<1>. QED
  BY <1>1, <1>2, <1>3, <1>4, <1>5 DEF callback

\* So do the calls of the users.
LEMMA UserType == ASSUME TypeOK, user PROVE TypeOK'
<1>1. CASE \E c \in Offered : setConfiguration(c)
  BY <1>1, BaseAssumption, Zenon DEF setConfiguration, TypeOK, callbackVars
<1>2. CASE isConnectedBegins
  BY <1>2 DEF isConnectedBegins, TypeOK, callbackVars
<1>3. CASE isConnectedReturns
  <2>1. connected' \in BOOLEAN
    BY <1>3 DEF isConnectedReturns
  <2>2. probe' \in [waiting : BOOLEAN, header : Messages, seen : BOOLEAN]
    BY <1>3, Zenon DEF isConnectedReturns, TypeOK
  <2>. QED
    BY <1>3, <2>1, <2>2 DEF isConnectedReturns, TypeOK, callbackVars
<1>. QED
  BY <1>1, <1>2, <1>3 DEF user

\* Every step preserves the types.
LEMMA TypeStep == TypeOK /\ [Next]_vars => TypeOK'
<1>. SUFFICES ASSUME TypeOK, [Next]_vars PROVE TypeOK'
  OBVIOUS
<1>1. CASE UNCHANGED vars
  BY <1>1 DEF vars, callbackVars, TypeOK
<1>. QED
  BY <1>1, SendType, CallbackType, UserType DEF Next

\* Members keep their types; the sequence number stays within its width.
THEOREM TypeCorrect == Spec => []TypeOK
BY TypeInit, TypeStep, PTL DEF Spec

-----------------------------------------------------------------------------
\* What is known of the message of a callback.
LEMMA MessageStep == TypeOK /\ MessageInv /\ [Next]_vars => MessageInv'
<1>. SUFFICES ASSUME TypeOK, MessageInv, [Next]_vars PROVE MessageInv'
  OBVIOUS
<1>. USE DEF MessageInv
<1>1. CASE UNCHANGED vars
  BY <1>1 DEF vars, callbackVars
<1>2. CASE \E restart, complete \in BOOLEAN : Send(restart, complete)
  BY <1>2 DEF Send, callbackVars, TypeOK, Messages
<1>3. CASE ParseFails
  BY <1>3 DEF ParseFails
<1>4. CASE \E m \in sent : parseFromArray(m)
  BY <1>4 DEF parseFromArray
<1>5. CASE updateConfiguration
  BY <1>5 DEF updateConfiguration
<1>6. CASE \E success \in BOOLEAN : extractParsedInformation(success)
  BY <1>6 DEF extractParsedInformation
<1>7. CASE \E written \in SUBSET Fields : constructReply(written)
  BY <1>7 DEF constructReply
<1>8. CASE user
  BY <1>8, Zenon DEF user, setConfiguration, isConnectedBegins, isConnectedReturns, callbackVars
<1>. QED
  BY <1>1, <1>2, <1>3, <1>4, <1>5, <1>6, <1>7, <1>8 DEF Next, callback

\* It holds in every execution.
LEMMA MessageInvariant == Spec => []MessageInv
<1>1. Init => MessageInv
  BY DEF Init, MessageInv
<1>. QED
  BY <1>1, TypeCorrect, MessageStep, PTL DEF Spec

\* The active configuration is changed by updateConfiguration alone, which
\* leaves no update pending.
LEMMA UpdateStep == TypeOK /\ UpdateIsNotLost /\ [Next]_vars => UpdateIsNotLost'
<1>. SUFFICES ASSUME TypeOK, UpdateIsNotLost, [Next]_vars PROVE UpdateIsNotLost'
  OBVIOUS
<1>. USE DEF UpdateIsNotLost
<1>1. CASE UNCHANGED configuration
  BY <1>1
<1>2. CASE updateConfiguration
  BY <1>2 DEF updateConfiguration, TypeOK
<1>3. CASE \E c \in Offered : setConfiguration(c)
  BY <1>3 DEF setConfiguration, TypeOK
<1>. QED
  BY <1>1, <1>2, <1>3, Zenon DEF Next, callback, user, vars, Send, ParseFails, parseFromArray,
     extractParsedInformation, constructReply, isConnectedBegins, isConnectedReturns

\* No call of setConfiguration is lost, whenever it comes: the update is active
\* or pending.
THEOREM UpdatesAreKept == Spec => []UpdateIsNotLost
<1>1. Init => UpdateIsNotLost
  BY DEF Init, UpdateIsNotLost
<1>. QED
  BY <1>1, TypeCorrect, UpdateStep, PTL DEF Spec

\* The robot's next message is the newest, and begins a session if its number
\* is 0.
LEMMA SendHeard ==
  ASSUME TypeOK, HeardInv, NEW restart \in BOOLEAN, NEW complete \in BOOLEAN,
         Send(restart, complete)
  PROVE  HeardInv'
<1>1. /\ robot'.time = robot.time + 1
      /\ robot'.session >= robot.session
      /\ robot'.session > 0
      /\ robot'.seqno = 0 => robot'.session = robot.session + 1
  BY DEF Send, TypeOK, Messages
<1>. /\ robot.time \in Nat /\ robot.session \in Nat
     /\ robot'.time \in Nat /\ robot'.session \in Nat
     /\ \A m \in sent : m.time \in Nat /\ m.session \in Nat
  BY DEF Send, TypeOK, Messages
<1>2. \A m \in sent : /\ m.time < robot'.time
                      /\ m.session <= robot'.session
                      /\ robot'.seqno = 0 => m.session < robot'.session
  BY <1>1 DEF HeardInv
<1>3. sent' = sent \cup {robot'} /\ UNCHANGED callbackVars
  BY DEF Send
<1>4. \A m \in sent' : m.time <= robot'.time /\ m.session <= robot'.session /\ m.session > 0
  BY <1>1, <1>2, <1>3 DEF HeardInv
<1>5. \A m, n \in sent' : m.time < n.time /\ n.seqno = 0 => m.session < n.session
  BY <1>1, <1>2, <1>3 DEF HeardInv
<1>. QED
  BY <1>3, <1>4, <1>5 DEF HeardInv, callbackVars

\* A message that is configured is, if all came in order, the first to be heard
\* of its session.
LEMMA ParseHeard ==
  ASSUME TypeOK, HeardInv, NEW m \in sent, parseFromArray(m)
  PROVE  HeardInv'
<1>1. heard'.newest = m /\ UNCHANGED <<robot, sent>> /\ ~first_call'
  BY DEF parseFromArray, hearing
<1>2. ASSUME pc' = "configure", heard'.orderly PROVE heard'.fresh
  <2>1. m.time > heard.newest.time
    BY <1>2 DEF parseFromArray, hearing
  <2>2. first_call \/ m.seqno = 0
    BY <1>2 DEF parseFromArray
  <2>3. m.session > heard.newest.session
    <3>1. CASE heard.newest = NoMessage
      BY <3>1 DEF HeardInv, NoMessage, TypeOK, Messages
    <3>2. CASE heard.newest \in sent /\ m.seqno = 0
      BY <2>1, <3>2 DEF HeardInv, TypeOK, Messages
    <3>. QED
      BY <2>2, <3>1, <3>2 DEF HeardInv
  <2>. QED
    BY <2>3 DEF parseFromArray, hearing
<1>. QED
  BY <1>1, <1>2 DEF HeardInv

\* What is known of the messages that were heard.
LEMMA HeardStep == TypeOK /\ HeardInv /\ [Next]_vars => HeardInv'
<1>. SUFFICES ASSUME TypeOK, HeardInv, [Next]_vars PROVE HeardInv'
  OBVIOUS
<1>1. CASE UNCHANGED <<robot, sent, heard, first_call>> /\ pc' # "configure"
  BY <1>1 DEF HeardInv
<1>2. CASE UNCHANGED <<robot, sent, heard, first_call, pc>>
  BY <1>2 DEF HeardInv
<1>3. CASE callback /\ ~\E m \in sent : parseFromArray(m)
  BY <1>1, <1>2, <1>3 DEF callback, ParseFails, updateConfiguration, extractParsedInformation,
     constructReply
<1>4. CASE user
  BY <1>2, <1>4 DEF user, setConfiguration, isConnectedBegins, isConnectedReturns, callbackVars
<1>. QED
  BY <1>2, <1>3, <1>4, SendHeard, ParseHeard DEF Next, callback, vars, callbackVars

\* It holds in every execution.
LEMMA HeardInvariant == Spec => []HeardInv
<1>1. Init => HeardInv
  BY DEF Init, HeardInv
<1>. QED
  BY <1>1, TypeCorrect, HeardStep, PTL DEF Spec

\* On a network that repeats and reorders nothing, however much it loses, only
\* the first message that is heard of a session changes the active configuration.
THEOREM SessionConfiguration == Spec => ConfigurationFixedInSession
<1>1. HeardInv /\ TypeOK /\ [Next]_vars
        => [configuration'.active # configuration.active /\ heard.orderly => heard.fresh]_vars
  <2>. SUFFICES ASSUME HeardInv, TypeOK, Next, configuration'.active # configuration.active,
                       heard.orderly
                PROVE  heard.fresh
    BY Zenon
  <2>1. CASE UNCHANGED configuration
    BY <2>1
  <2>2. CASE updateConfiguration
    BY <2>2 DEF updateConfiguration, HeardInv
  <2>3. CASE \E c \in Offered : setConfiguration(c)
    BY <2>3 DEF setConfiguration, TypeOK
  <2>. QED
    BY <2>1, <2>2, <2>3, Zenon DEF Next, callback, user, Send, ParseFails, parseFromArray,
       extractParsedInformation, constructReply, isConnectedBegins, isConnectedReturns
<1>. QED
  BY <1>1, TypeCorrect, HeardInvariant, PTL DEF Spec, ConfigurationFixedInSession

-----------------------------------------------------------------------------
\* A reply that is left when the callback is idle was built by the constructReply
\* that ended it.
LEMMA ReplyStep == TypeOK /\ MessageInv /\ RepliesAreFresh /\ [Next]_vars => RepliesAreFresh'
<1>. SUFFICES ASSUME TypeOK, MessageInv, RepliesAreFresh, [Next]_vars PROVE RepliesAreFresh'
  OBVIOUS
<1>. USE DEF RepliesAreFresh
<1>1. CASE UNCHANGED <<pc, msg, reply, configuration>>
  BY <1>1 DEF asked
<1>2. CASE ParseFails
  BY <1>2 DEF ParseFails
<1>3. CASE \E m \in sent : parseFromArray(m)
  BY <1>3 DEF parseFromArray
<1>4. CASE updateConfiguration
  BY <1>4 DEF updateConfiguration
<1>5. CASE \E success \in BOOLEAN : extractParsedInformation(success)
  BY <1>5 DEF extractParsedInformation
<1>6. CASE \E written \in SUBSET Fields : constructReply(written)
  <2>1. PICK written \in SUBSET Fields : constructReply(written)
    BY <1>6
  <2>2. msg' # NoMessage
    BY <2>1 DEF constructReply, MessageInv, NoMessage
  <2>3. reply' # NoReply => \A f \in asked(configuration.active) : reply'[f] = "new"
    BY <2>1 DEF constructReply
  <2>4. asked(configuration.active)' = asked(configuration.active)
    BY <2>1 DEF constructReply, asked
  <2>. QED
    BY <2>2, <2>3, <2>4
<1>7. CASE \E c \in Offered : setConfiguration(c)
  <2>1. configuration'.active = configuration.active /\ UNCHANGED <<pc, msg, reply>>
    BY <1>7 DEF setConfiguration, TypeOK, callbackVars
  <2>. QED
    BY <2>1 DEF asked
<1>. QED
  BY <1>1, <1>2, <1>3, <1>4, <1>5, <1>6, <1>7, Zenon DEF Next, callback, user, vars, callbackVars, Send,
     isConnectedBegins, isConnectedReturns

\* A reply holds what the configuration asks for, written for the message it
\* answers; a message that is not valid is not answered with an old reply.
THEOREM FreshReplies == Spec => []RepliesAreFresh
<1>1. Init => RepliesAreFresh
  BY DEF Init, RepliesAreFresh
<1>. QED
  BY <1>1, TypeCorrect, MessageInvariant, ReplyStep, PTL DEF Spec

-----------------------------------------------------------------------------
\* What isConnected may conclude from two looks at the session data.
LEMMA ProbeStep ==
  TypeOK /\ ProbeInv /\ ConnectedSawMessage /\ [Next]_vars => ProbeInv' /\ ConnectedSawMessage'
<1>. SUFFICES ASSUME TypeOK, ProbeInv, ConnectedSawMessage, [Next]_vars
              PROVE  ProbeInv' /\ ConnectedSawMessage'
  OBVIOUS
<1>. USE DEF ProbeInv, ConnectedSawMessage
<1>1. CASE UNCHANGED <<probe, connected, session_data>>
  BY <1>1
<1>2. CASE \E success \in BOOLEAN : extractParsedInformation(success)
  BY <1>2 DEF extractParsedInformation, TypeOK
<1>3. CASE isConnectedBegins
  BY <1>3 DEF isConnectedBegins
<1>4. CASE isConnectedReturns
  <2>1. probe'.waiting = FALSE /\ probe'.seen = probe.seen
    BY <1>4 DEF isConnectedReturns, TypeOK
  <2>2. connected' => session_data.seqno > probe.header.seqno /\ session_data # NoMessage
    BY <1>4, Zenon DEF isConnectedReturns
  <2>3. probe.header.seqno \in Nat
    BY DEF TypeOK, Messages
  <2>4. connected' => session_data \notin {probe.header, NoMessage}
    BY <2>2, <2>3
  <2>. QED
    BY <1>4, <2>1, <2>4 DEF isConnectedReturns, TypeOK
<1>. QED
  BY <1>1, <1>2, <1>3, <1>4, Zenon DEF Next, callback, user, vars, Send, ParseFails, parseFromArray,
     updateConfiguration, constructReply, setConfiguration

\* isConnected returns true only if a message was extracted while it waited,
\* whatever sessions, rejected messages and repeated ones come in between.
THEOREM ConnectionWasSeen == Spec => []ConnectedSawMessage
<1>1. Init => ProbeInv /\ ConnectedSawMessage
  BY DEF Init, ProbeInv, ConnectedSawMessage
<1>. QED
  BY <1>1, TypeCorrect, ProbeStep, PTL DEF Spec
==============================================================================
