--------------------------- MODULE UDPServerProofs ---------------------------
(***************************************************************************)
(* OneReceive and RepliesGoToSender hold for any number of threads, of     *)
(* clients and of messages.                                                *)
(***************************************************************************)
EXTENDS UDPServer, FiniteSetTheorems, TLAPS

AllIdle == \A t \in Threads : at[t] = "idle"

\* The one receive is outstanding, or its handler is ready to run, or one
\* thread runs it; a server that is not open runs no handler.
TokenInv ==
  \/ socket # "open" /\ AllIdle
  \/ receiving = 1 /\ ready.success = 0 /\ ready.error = 0 /\ AllIdle
  \/ receiving = 0 /\ ready.success = 1 /\ ready.error = 0 /\ AllIdle
  \/ receiving = 0 /\ ready.success = 0 /\ ready.error = 1 /\ AllIdle
  \/ /\ receiving = 0 /\ ready.success = 0 /\ ready.error = 0
     /\ \E t \in Threads : at[t] # "idle" /\ \A u \in Threads \ {t} : at[u] = "idle"

\* Client c has sent message i, according to the senders q.
sentBy(i, c, q) == i \in 1 .. Len(q) /\ c = q[i]

\* The endpoint belongs to the message in the buffer, and while a handler is
\* about to send, the reply to that message, too; the string is still the one
\* that an intact send refers to.
SenderInv ==
  /\ \A d \in arrived : sentBy(d.id, d.client, senders)
  /\ buffer.id # Empty => sentBy(buffer.id, buffer.client, senders)
  /\ \A t \in Threads : at[t] = "send" => reply \in {Empty, buffer.id}
  /\ \A s \in sends : sentBy(s.id, s.client, senders) /\ (s.intact => s.id = reply)
  /\ \A w \in wire : /\ sentBy(w.answers, w.client, senders)
                     /\ w.intact => w.content = w.answers

-----------------------------------------------------------------------------
\* The types hold initially.
LEMMA TypeInit == Init => TypeOK
BY ServerAssumption DEF Init, TypeOK, Empty

\* The network and the io_service keep the types.
LEMMA EnvironmentType ==
  ASSUME TypeOK,
         \/ \E c \in Clients : Arrive(c)
         \/ receive \/ ReceiveFails
         \/ \E s \in sends : Transmit(s)
  PROVE  TypeOK'
<1>1. CASE \E c \in Clients : Arrive(c)
  <2>1. PICK c \in Clients : Arrive(c)
    BY <1>1
  <2>2. senders' \in Seq(Clients) /\ Len(senders') = Len(senders) + 1
    BY <2>1 DEF Arrive, TypeOK
  <2>3. [id |-> Len(senders'), client |-> c] \in Datagrams
    BY <2>1, <2>2, ServerAssumption DEF Arrive, TypeOK, Datagrams
  <2>. QED
    BY <2>1, <2>2, <2>3, ServerAssumption DEF Arrive, TypeOK
<1>2. CASE receive
  <2>1. PICK d \in Datagrams : ReceiveCompletes(d)
    BY <1>2 DEF receive
  <2>2. buffer' \in [id : 0 .. MaxMessages, client : Clients]
    BY <2>1, ServerAssumption DEF ReceiveCompletes, Datagrams
  <2>3. receiving' \in Nat /\ ready' \in [success : Nat, error : Nat]
    BY <2>1 DEF ReceiveCompletes, TypeOK
  <2>. QED
    BY <2>1, <2>2, <2>3 DEF ReceiveCompletes, TypeOK
<1>3. CASE ReceiveFails
  BY <1>3 DEF ReceiveFails, TypeOK
<1>4. CASE \E s \in sends : Transmit(s)
  <2>1. PICK s \in sends : Transmit(s)
    BY <1>4
  <2>2. [answers |-> s.id, content |-> reply, client |-> s.client, intact |-> s.intact]
          \in [answers : 1 .. MaxMessages, content : 0 .. MaxMessages, client : Clients,
               intact : BOOLEAN]
    BY <2>1 DEF TypeOK
  <2>. QED
    BY <2>1, <2>2 DEF Transmit, TypeOK
<1>. QED
  BY <1>1, <1>2, <1>3, <1>4

\* So do the handlers.
LEMMA HandlerType == ASSUME TypeOK, NEW t \in Threads, handler(t) PROVE TypeOK'
<1>1. CASE \E result \in {"success", "error"} : receiveCallback(t, result)
  <2>1. PICK result \in {"success", "error"} : receiveCallback(t, result)
    BY <1>1
  <2>2. ready' \in [success : Nat, error : Nat]
    BY <2>1 DEF receiveCallback, TypeOK
  <2>3. at' \in [Threads -> {"idle", "callback", "send", "receive"}]
    BY <2>1 DEF receiveCallback, TypeOK
  <2>. QED
    BY <2>1, <2>2, <2>3 DEF receiveCallback, TypeOK
<1>2. CASE \E answered \in BOOLEAN : callback(t, answered)
  <2>1. ASSUME NEW s \in sends
        PROVE  [s EXCEPT !.intact = FALSE]
                 \in [id : 1 .. MaxMessages, client : Clients, intact : BOOLEAN]
    <3>1. s \in [id : 1 .. MaxMessages, client : Clients, intact : BOOLEAN]
      BY DEF TypeOK
    <3>. QED
      BY <3>1
  <2>2. sends' \subseteq [id : 1 .. MaxMessages, client : Clients, intact : BOOLEAN]
    BY <1>2, <2>1 DEF callback
  <2>. QED
    BY <1>2, <2>2, ServerAssumption DEF callback, TypeOK, Empty
<1>3. CASE send(t)
  <2>1. reply # Empty => [id |-> reply, client |-> buffer.client, intact |-> TRUE]
                           \in [id : 1 .. MaxMessages, client : Clients, intact : BOOLEAN]
    BY ServerAssumption DEF TypeOK, Empty
  <2>. QED
    BY <1>3, <2>1 DEF send, TypeOK
<1>4. CASE startAsynchronousReceive(t)
  BY <1>4 DEF startAsynchronousReceive, TypeOK
<1>. QED
  BY <1>1, <1>2, <1>3, <1>4 DEF handler

\* Every step preserves the types.
LEMMA TypeStep == TypeOK /\ [Next]_vars => TypeOK'
<1>. SUFFICES ASSUME TypeOK, [Next]_vars PROVE TypeOK'
  OBVIOUS
<1>1. CASE UNCHANGED vars
  BY <1>1 DEF vars, TypeOK
<1>2. CASE Destroy
  BY <1>2 DEF Destroy, TypeOK
<1>. QED
  BY <1>1, <1>2, EnvironmentType, HandlerType DEF Next

\* Members keep their types.
THEOREM TypeCorrect == Spec => []TypeOK
BY TypeInit, TypeStep, PTL DEF Spec

-----------------------------------------------------------------------------
\* A thread that runs a handler is the only one, and nothing is outstanding.
LEMMA OnlyHandler ==
  ASSUME TypeOK, TokenInv, NEW t \in Threads, at[t] # "idle"
  PROVE  /\ receiving = 0 /\ ready.success = 0 /\ ready.error = 0
         /\ \A u \in Threads \ {t} : at[u] = "idle"
BY DEF TokenInv, AllIdle

\* The steps of a handler pass the token on.
LEMMA HandlerToken ==
  ASSUME TypeOK, TokenInv, NEW t \in Threads, handler(t) PROVE TokenInv'
<1>1. CASE \E result \in {"success", "error"} : receiveCallback(t, result)
  <2>1. PICK result \in {"success", "error"} : receiveCallback(t, result)
    BY <1>1
  <2>2. receiving = 0 /\ AllIdle /\ ready[result] = 1 /\ ready.success + ready.error = 1
    BY <2>1 DEF receiveCallback, TokenInv, TypeOK, AllIdle
  <2>3. receiving' = 0 /\ ready'.success = 0 /\ ready'.error = 0
    BY <2>1, <2>2 DEF receiveCallback, TypeOK
  <2>4. at'[t] # "idle" /\ \A u \in Threads \ {t} : at'[u] = "idle"
    BY <2>1, <2>2 DEF receiveCallback, TypeOK, AllIdle
  <2>. QED
    BY <2>3, <2>4 DEF TokenInv
<1>2. CASE \/ \E answered \in BOOLEAN : callback(t, answered)
           \/ send(t)
  <2>1. at[t] # "idle" /\ at'[t] # "idle" /\ \A u \in Threads \ {t} : at'[u] = at[u]
    BY <1>2 DEF callback, send, TypeOK
  <2>2. receiving' = receiving /\ ready' = ready
    BY <1>2 DEF callback, send
  <2>. QED
    BY <2>1, <2>2, OnlyHandler DEF TokenInv
<1>3. CASE startAsynchronousReceive(t)
  <2>1. at[t] # "idle" /\ AllIdle'
    BY <1>3, OnlyHandler DEF startAsynchronousReceive, TypeOK, AllIdle
  <2>2. receiving' = 1 /\ ready'.success = 0 /\ ready'.error = 0
    BY <1>3, <2>1, OnlyHandler DEF startAsynchronousReceive
  <2>. QED
    BY <2>1, <2>2 DEF TokenInv
<1>. QED
  BY <1>1, <1>2, <1>3 DEF handler

\* Every step keeps one receive.
LEMMA TokenStep == TypeOK /\ TokenInv /\ [Next]_vars => TokenInv'
<1>. SUFFICES ASSUME TypeOK, TokenInv, [Next]_vars PROVE TokenInv'
  OBVIOUS
<1>1. CASE UNCHANGED vars
  BY <1>1 DEF vars, TokenInv, AllIdle
<1>2. CASE (\E c \in Clients : Arrive(c)) \/ (\E s \in sends : Transmit(s))
  BY <1>2 DEF Arrive, Transmit, TokenInv, AllIdle
<1>3. CASE receive
  BY <1>3 DEF receive, ReceiveCompletes, TokenInv, AllIdle, TypeOK
<1>4. CASE ReceiveFails
  BY <1>4 DEF ReceiveFails, TokenInv, AllIdle, TypeOK
<1>5. CASE \E t \in Threads : handler(t)
  BY <1>5, HandlerToken
<1>6. CASE Destroy
  BY <1>6 DEF Destroy, TokenInv, AllIdle
<1>. QED
  BY <1>1, <1>2, <1>3, <1>4, <1>5, <1>6 DEF Next

\* The token counts one.
LEMMA TokenCounts == TypeOK /\ TokenInv => OneReceive
<1>. SUFFICES ASSUME TypeOK, TokenInv, socket = "open"
              PROVE  receiving + ready.success + ready.error + Cardinality(busy) = 1
  BY DEF OneReceive
<1>1. CASE AllIdle
  <2>1. busy = {}
    BY <1>1 DEF busy, AllIdle
  <2>2. Cardinality(busy) = 0
    BY <2>1, FS_EmptySet
  <2>3. receiving + ready.success + ready.error = 1
    BY <1>1 DEF TokenInv, AllIdle
  <2>. QED
    BY <2>2, <2>3 DEF TypeOK
<1>2. CASE ~AllIdle
  <2>1. /\ receiving = 0 /\ ready.success = 0 /\ ready.error = 0
        /\ \E t \in Threads : at[t] # "idle" /\ \A u \in Threads \ {t} : at[u] = "idle"
    BY <1>2 DEF TokenInv
  <2>2. PICK t \in Threads : busy = {t}
    BY <2>1 DEF busy
  <2>3. Cardinality(busy) = 1
    BY <2>2, FS_Singleton, Zenon
  <2>. QED
    BY <2>1, <2>3
<1>. QED
  BY <1>1, <1>2

\* The one receive in every execution.
LEMMA TokenInvariant == Spec => []TokenInv
<1>1. Init => TokenInv
  BY DEF Init, TokenInv, AllIdle
<1>. QED
  BY <1>1, TypeCorrect, TokenStep, PTL DEF Spec

\* While the server is open exactly one receive is outstanding, ready or being
\* handled, for any number of threads of the io_service.
THEOREM ReceiveOnce == Spec => []OneReceive
BY TypeCorrect, TokenInvariant, TokenCounts, PTL

-----------------------------------------------------------------------------
\* A message that arrives changes nothing about the earlier ones.
LEMMA SendersGrow ==
  ASSUME TypeOK, NEW c \in Clients, Arrive(c), NEW i, NEW d, sentBy(i, d, senders)
  PROVE  sentBy(i, d, senders')
BY DEF sentBy, Arrive, TypeOK

\* Every step keeps message, endpoint and reply together: the buffer is only
\* overwritten when no handler runs.
LEMMA SenderStep == TypeOK /\ TokenInv /\ SenderInv /\ [Next]_vars => SenderInv'
<1>. SUFFICES ASSUME TypeOK, TokenInv, SenderInv, [Next]_vars PROVE SenderInv'
  OBVIOUS
<1>1. CASE UNCHANGED vars
  BY <1>1 DEF vars, SenderInv, sentBy
<1>2. CASE \E c \in Clients : Arrive(c)
  <2>1. PICK c \in Clients : Arrive(c)
    BY <1>2
  <2>2. sentBy(Len(senders'), c, senders')
    BY <2>1 DEF Arrive, TypeOK, sentBy
  <2>3. \A d \in arrived' : sentBy(d.id, d.client, senders')
    BY <2>1, <2>2, SendersGrow DEF Arrive, SenderInv
  <2>4. /\ \A s \in sends : sentBy(s.id, s.client, senders')
        /\ \A w \in wire : sentBy(w.answers, w.client, senders')
        /\ buffer.id # Empty => sentBy(buffer.id, buffer.client, senders')
    BY <2>1, SendersGrow DEF SenderInv
  <2>. QED
    BY <2>1, <2>3, <2>4 DEF Arrive, SenderInv
<1>3. CASE receive
  <2>1. PICK d \in Datagrams : ReceiveCompletes(d)
    BY <1>3 DEF receive
  <2>2. AllIdle
    BY <2>1 DEF ReceiveCompletes, TokenInv
  <2>. QED
    BY <2>1, <2>2 DEF ReceiveCompletes, SenderInv, sentBy, AllIdle
<1>4. CASE ReceiveFails
  BY <1>4 DEF ReceiveFails, SenderInv, sentBy
<1>5. CASE \E s \in sends : Transmit(s)
  BY <1>5 DEF Transmit, SenderInv, sentBy
<1>6. CASE \E t \in Threads, result \in {"success", "error"} : receiveCallback(t, result)
  BY <1>6 DEF receiveCallback, SenderInv, sentBy, TypeOK
<1>7. CASE \E t \in Threads, answered \in BOOLEAN : callback(t, answered)
  <2>1. \A s \in sends' : sentBy(s.id, s.client, senders) /\ ~s.intact
    BY <1>7 DEF callback, SenderInv, TypeOK
  <2>. QED
    BY <1>7, <2>1 DEF callback, SenderInv, sentBy, TypeOK
<1>8. CASE \E t \in Threads : send(t)
  BY <1>8 DEF send, SenderInv, sentBy, TypeOK
<1>9. CASE \E t \in Threads : startAsynchronousReceive(t)
  BY <1>9 DEF startAsynchronousReceive, SenderInv, sentBy, TypeOK
<1>10. CASE Destroy
  BY <1>10 DEF Destroy, SenderInv, sentBy
<1>. QED
  BY <1>1, <1>2, <1>3, <1>4, <1>5, <1>6, <1>7, <1>8, <1>9, <1>10 DEF Next, handler

\* What is sent goes to the client whose message it answers and, unless the
\* interface was called again before it was sent, is the reply to that message,
\* for any number of threads, clients and messages.
THEOREM RepliesReachSenders == Spec => []RepliesGoToSender
<1>1. Init => SenderInv
  BY DEF Init, SenderInv
<1>2. SenderInv => RepliesGoToSender
  <2>. SUFFICES ASSUME SenderInv PROVE RepliesGoToSender
    OBVIOUS
  <2>1. \A s \in sends : s.client = senders[s.id]
    BY DEF SenderInv, sentBy
  <2>2. \A w \in wire : w.client = senders[w.answers]
    BY DEF SenderInv, sentBy
  <2>3. \A w \in wire : w.intact => w.content = w.answers
    BY DEF SenderInv
  <2>. QED
    BY <2>1, <2>2, <2>3, Zenon DEF RepliesGoToSender
<1>. QED
  BY <1>1, <1>2, TypeCorrect, TokenInvariant, SenderStep, PTL DEF Spec
=============================================================================
