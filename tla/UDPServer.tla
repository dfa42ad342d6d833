------------------------------ MODULE UDPServer ------------------------------
(***************************************************************************)
(* UDPServer on a boost::asio::io_service that any number of threads run:  *)
(* an asynchronous receive is always outstanding, its handler passes the   *)
(* message to the interface, starts to send the reply, and starts the next *)
(* receive.                                                                *)
(*                                                                         *)
(* The receive buffer, the remote endpoint and the reply are single        *)
(* objects that all handlers share.  A message is known by its number; a   *)
(* reply by the number of the message it answers.  The server is destroyed *)
(* when no thread runs one of its handlers.                                *)
(***************************************************************************)
EXTENDS Naturals, FiniteSets, Sequences

CONSTANTS
  Threads,     \* the threads that run the io_service
  Clients,     \* the endpoints that send messages
  MaxMessages  \* bound: number of messages that arrive

ASSUME ServerAssumption == MaxMessages \in Nat

Datagrams == [id : 1 .. MaxMessages, client : Clients]
Empty == 0

VARIABLES
  initialized, \* initialized_
  socket,      \* p_socket_: "none", "open" or "closed"
  senders,     \* who sent each message that has arrived
  arrived,     \* messages that have arrived and not been received
  receiving,   \* number of outstanding async_receive_from operations
  ready,       \* number of handlers that are ready to run, by result
  buffer,      \* receive_buffer_ and remote_endpoint_
  at,          \* where each thread is in receiveCallback
  reply,       \* the string that the interface returned a reference to
  sends,       \* outstanding async_send_to operations; history: whether the
               \* interface was called since (then the string is not intact)
  wire         \* history: what was sent, for which message, and to whom

vars == <<initialized, socket, senders, arrived, receiving, ready, buffer, at, reply, sends, wire>>

\* The socket is bound or it is not; a server that is not initialized receives
\* nothing.
Init ==
  /\ initialized \in BOOLEAN
  /\ socket = IF initialized THEN "open" ELSE "none"
  /\ receiving = IF initialized THEN 1 ELSE 0
  /\ senders = <<>>
  /\ arrived = {}
  /\ ready = [success |-> 0, error |-> 0]
  /\ buffer \in [id : {Empty}, client : Clients]
  /\ at = [t \in Threads |-> "idle"]
  /\ reply = Empty
  /\ sends = {}
  /\ wire = {}

-----------------------------------------------------------------------------
(***************************************************************************)
(* The network and the io_service.                                         *)
(***************************************************************************)
Arrive(c) ==
  /\ socket = "open"
  /\ Len(senders) < MaxMessages
  /\ senders' = Append(senders, c)
  /\ arrived' = arrived \cup {[id |-> Len(senders'), client |-> c]}
  /\ UNCHANGED <<initialized, socket, receiving, ready, buffer, at, reply, sends, wire>>

\* A receive completes: the buffer and the endpoint are overwritten.
ReceiveCompletes(d) ==
  /\ socket = "open"
  /\ receiving > 0
  /\ d \in arrived
  /\ arrived' = arrived \ {d}
  /\ buffer' = d
  /\ receiving' = receiving - 1
  /\ ready' = [ready EXCEPT !.success = @ + 1]
  /\ UNCHANGED <<initialized, socket, senders, at, reply, sends, wire>>

ReceiveFails ==
  /\ socket = "open"
  /\ receiving > 0
  /\ receiving' = receiving - 1
  /\ ready' = [ready EXCEPT !.error = @ + 1]
  /\ UNCHANGED <<initialized, socket, senders, arrived, buffer, at, reply, sends, wire>>

\* A send that could not be done at once is done now: what is sent is what the
\* string holds now.
Transmit(s) ==
  /\ socket = "open"
  /\ s \in sends
  /\ sends' = sends \ {s}
  /\ wire' = wire \cup {[answers |-> s.id, content |-> reply, client |-> s.client,
                       intact |-> s.intact]}
  /\ UNCHANGED <<initialized, socket, senders, arrived, receiving, ready, buffer, at, reply>>

(***************************************************************************)
(* The handler of a receive.                                               *)
(***************************************************************************)

\* Mutant of receiveCallback: the next receive is started first.
receiveCallbackReceives(t, result) ==
  /\ socket = "open"
  /\ at[t] = "idle"
  /\ ready[result] > 0
  /\ ready' = [ready EXCEPT ![result] = @ - 1]
  /\ receiving' = receiving + 1
  /\ at' = [at EXCEPT ![t] = IF result = "success" THEN "callback" ELSE "idle"]
  /\ UNCHANGED <<initialized, socket, senders, arrived, buffer, reply, sends, wire>>

receiveCallback(t, result) ==
  /\ socket = "open"
  /\ at[t] = "idle"
  /\ ready[result] > 0
  /\ ready' = [ready EXCEPT ![result] = @ - 1]
  /\ at' = [at EXCEPT ![t] = IF result = "success" THEN "callback" ELSE "receive"]
  /\ UNCHANGED <<initialized, socket, senders, arrived, receiving, buffer, reply, sends, wire>>

\* The interface's callback: it clears the reply, and may have none.  The
\* string it rewrites is the one that outstanding sends refer to.
callback(t, answered) ==
  /\ at[t] = "callback"
  /\ reply' = IF answered THEN buffer.id ELSE Empty
  /\ sends' = {[s EXCEPT !.intact = FALSE] : s \in sends}
  /\ at' = [at EXCEPT ![t] = "send"]
  /\ UNCHANGED <<initialized, socket, senders, arrived, receiving, ready, buffer, wire>>

\* Mutant of send: replies go to the client that was heard first.
sendToFirst(t) ==
  /\ at[t] = "send"
  /\ sends' = IF reply # Empty THEN sends \cup {[id |-> reply, client |-> senders[1], intact |-> TRUE]}
                                  ELSE sends
  /\ at' = [at EXCEPT ![t] = "receive"]
  /\ UNCHANGED <<initialized, socket, senders, arrived, receiving, ready, buffer, reply, wire>>

\* Mutant of send: the handler waits until the send before is done.
sendWaits(t) ==
  /\ at[t] = "send"
  /\ sends = {}
  /\ sends' = IF reply # Empty THEN {[id |-> reply, client |-> buffer.client, intact |-> TRUE]}
                                  ELSE sends
  /\ at' = [at EXCEPT ![t] = "receive"]
  /\ UNCHANGED <<initialized, socket, senders, arrived, receiving, ready, buffer, reply, wire>>

\* The buffer of the send is the string itself; the endpoint is copied.
send(t) ==
  /\ at[t] = "send"
  /\ sends' = IF reply # Empty THEN sends \cup {[id |-> reply, client |-> buffer.client, intact |-> TRUE]}
                                  ELSE sends
  /\ at' = [at EXCEPT ![t] = "receive"]
  /\ UNCHANGED <<initialized, socket, senders, arrived, receiving, ready, buffer, reply, wire>>

startAsynchronousReceive(t) ==
  /\ at[t] = "receive"
  /\ receiving' = receiving + 1
  /\ at' = [at EXCEPT ![t] = "idle"]
  /\ UNCHANGED <<initialized, socket, senders, arrived, ready, buffer, reply, sends, wire>>

\* The destructor closes the socket.
Destroy ==
  /\ socket = "open"
  /\ \A t \in Threads : at[t] = "idle"
  /\ socket' = "closed"
  /\ UNCHANGED <<initialized, senders, arrived, receiving, ready, buffer, at, reply, sends, wire>>

handler(t) ==
  \/ \E result \in {"success", "error"} : receiveCallback(t, result)
  \/ \E answered \in BOOLEAN : callback(t, answered)
  \/ send(t)
  \/ startAsynchronousReceive(t)

receive == \E d \in Datagrams : ReceiveCompletes(d)

Next ==
  \/ \E c \in Clients : Arrive(c)
  \/ receive
  \/ ReceiveFails
  \/ \E s \in sends : Transmit(s)
  \/ \E t \in Threads : handler(t)
  \/ Destroy

Spec == Init /\ [][Next]_vars

\* Some thread of the io_service runs a handler that is ready and finishes the
\* one it runs, and a receive does not fail for ever while messages arrive.
FairSpec ==
  /\ Spec
  /\ WF_vars(\E t \in Threads : handler(t))
  /\ SF_vars(receive)

-----------------------------------------------------------------------------
(***************************************************************************)
(* Properties.                                                             *)
(***************************************************************************)

\* The variables have the types of the members and operations they stand for.
TypeOK ==
  /\ initialized \in BOOLEAN
  /\ socket \in {"none", "open", "closed"}
  /\ senders \in Seq(Clients) /\ Len(senders) <= MaxMessages
  /\ arrived \subseteq Datagrams
  /\ receiving \in Nat
  /\ ready \in [success : Nat, error : Nat]
  /\ buffer \in [id : 0 .. MaxMessages, client : Clients]
  /\ at \in [Threads -> {"idle", "callback", "send", "receive"}]
  /\ reply \in 0 .. MaxMessages
  /\ sends \subseteq [id : 1 .. MaxMessages, client : Clients, intact : BOOLEAN]
  /\ wire \subseteq [answers : 1 .. MaxMessages, content : 0 .. MaxMessages, client : Clients,
                      intact : BOOLEAN]

busy == {t \in Threads : at[t] # "idle"}

\* While the server is open there is exactly one receive, outstanding, ready or
\* being handled, whatever fails and however many threads run the io_service:
\* handlers never overlap on the shared buffers, and the server never goes deaf.
OneReceive ==
  socket = "open" => receiving + ready.success + ready.error + Cardinality(busy) = 1

\* What is sent goes to the client whose message it answers, although the
\* endpoint of the next message is stored in the same place; and it is the
\* reply to that message, unless the interface was called again before the
\* send was done.  In that case alone a client may be sent another reply.
RepliesGoToSender ==
  /\ \A s \in sends : s.client = senders[s.id]
  /\ \A w \in wire : /\ w.client = senders[w.answers]
                     /\ w.intact => w.content = w.answers

\* Every message that arrives is passed to the interface unless the server is
\* destroyed.
MessagesAreReceived ==
  \A d \in Datagrams : d \in arrived ~> (d \notin arrived \/ socket = "closed")
==============================================================================
