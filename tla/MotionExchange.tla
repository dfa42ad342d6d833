--------------------------- MODULE MotionExchange ---------------------------
(***************************************************************************)
(* What EGMControllerInterface::ControllerMotion promises to the callback  *)
(* of the interface and to the threads of the external control loop: each  *)
(* call is a single atomic step, and a call that waits is enabled exactly  *)
(* when its data is ready, or gives up.  Two one-place buffers are         *)
(* exchanged: the inputs of a message and the outputs of the control loop. *)
(*                                                                         *)
(* The contents of the buffers are abstracted to what is remembered of     *)
(* them: which users have not read the inputs yet, and whether the outputs *)
(* belong to this session and answer this message.                         *)
(***************************************************************************)
CONSTANT Users  \* threads that call the interface

VARIABLES
  phase,       \* what the callback is about to do
  call,        \* the call each user is in
  first_call,  \* no message has arrived yet
  message,     \* the message being processed: first of a session, states ok
  demo,        \* configuration_.active.use_demo_outputs
  current,     \* outputs_.current: prepared in this session, of this session
  read_ready,  \* read_data_ready_
  write_ready, \* write_data_ready_
  unread,      \* users that have not read inputs_ yet
  out,         \* outputs_: of this session, newer than inputs_
  waited       \* users whose last waitForMessage returned true, and no read since

vars == <<phase, call, first_call, message, demo, current, read_ready, write_ready, unread,
          out, waited>>

Init ==
  /\ phase = "idle"
  /\ call = [u \in Users |-> "none"]
  /\ first_call = TRUE
  /\ message = [first |-> FALSE, ok |-> FALSE]
  /\ demo \in BOOLEAN
  /\ current = [prepared |-> FALSE, session |-> FALSE]
  /\ read_ready = FALSE
  /\ write_ready = FALSE
  /\ unread = {}
  /\ out = [session |-> FALSE, new |-> FALSE]
  /\ waited = {}

\* A message arrives; a configuration update is applied by a first one.
Receive(m, d) ==
  /\ phase = "idle"
  /\ first_call => m.first
  /\ ~m.first => d = demo
  /\ first_call' = FALSE
  /\ message' = m
  /\ demo' = d
  /\ current' = IF m.first THEN [prepared |-> TRUE, session |-> TRUE] ELSE current
  /\ phase' = IF m.first THEN "initialize" ELSE IF d THEN "reply" ELSE "inputs"
  /\ UNCHANGED <<call, read_ready, write_ready, unread, out, waited>>

\* A message arrives whose contents cannot be extracted.
Reject(first, d) ==
  /\ phase = "idle"
  /\ first_call => first
  /\ ~first => d = demo
  /\ first_call' = FALSE
  /\ demo' = d
  /\ current' = IF first THEN [prepared |-> FALSE, session |-> FALSE] ELSE current
  /\ UNCHANGED <<phase, call, message, read_ready, write_ready, unread, out, waited>>

\* A first message empties both buffers.
Initialize ==
  /\ phase = "initialize"
  /\ read_ready' = FALSE
  /\ write_ready' = FALSE
  /\ out' = [out EXCEPT !.session = FALSE]
  /\ phase' = IF demo THEN "reply" ELSE "inputs"
  /\ UNCHANGED <<call, first_call, message, demo, current, unread, waited>>

WriteInputs ==
  /\ phase = "inputs"
  /\ read_ready' = TRUE
  /\ unread' = Users
  /\ out' = [out EXCEPT !.new = FALSE]
  /\ phase' = IF message.first \/ message.ok THEN "outputs" ELSE "reply"
  /\ UNCHANGED <<call, first_call, message, demo, current, write_ready, waited>>

\* The callback takes the outputs if there are any ...
TakeOutputs ==
  /\ phase = "outputs"
  /\ write_ready
  /\ write_ready' = FALSE
  /\ current' = [current EXCEPT !.session = out.session]
  /\ phase' = "reply"
  /\ UNCHANGED <<call, first_call, message, demo, read_ready, unread, out, waited>>

\* ... or stops waiting for them.
GiveUpOutputs ==
  /\ phase = "outputs"
  /\ phase' = "reply"
  /\ UNCHANGED <<call, first_call, message, demo, current, read_ready, write_ready, unread,
                 out, waited>>

Reply ==
  /\ phase = "reply"
  /\ phase' = "idle"
  /\ UNCHANGED <<call, first_call, message, demo, current, read_ready, write_ready, unread,
                 out, waited>>

Call(u, c) ==
  /\ call[u] = "none"
  /\ call' = [call EXCEPT ![u] = c]
  /\ UNCHANGED <<phase, first_call, message, demo, current, read_ready, write_ready, unread,
                 out, waited>>

Return(u, c) ==
  /\ call[u] = c
  /\ call' = [call EXCEPT ![u] = "none"]

WaitSucceeds(u) ==
  /\ Return(u, "wait") \/ Return(u, "timedWait")
  /\ read_ready
  /\ waited' = waited \cup {u}
  /\ UNCHANGED <<phase, first_call, message, demo, current, read_ready, write_ready, unread, out>>

WaitGivesUp(u) ==
  /\ Return(u, "timedWait")
  /\ waited' = waited \ {u}
  /\ UNCHANGED <<phase, first_call, message, demo, current, read_ready, write_ready, unread, out>>

ReadInputs(u) ==
  /\ Return(u, "read")
  /\ read_ready' = FALSE
  /\ unread' = unread \ {u}
  /\ waited' = waited \ {u}
  /\ UNCHANGED <<phase, first_call, message, demo, current, write_ready, out>>

WriteOutputs(u) ==
  /\ Return(u, "write")
  /\ write_ready' = TRUE
  /\ out' = [session |-> TRUE, new |-> TRUE]
  /\ UNCHANGED <<phase, first_call, message, demo, current, read_ready, unread, waited>>

Next ==
  \/ \E m \in [first : BOOLEAN, ok : BOOLEAN], d \in BOOLEAN : Receive(m, d)
  \/ \E first, d \in BOOLEAN : Reject(first, d)
  \/ Initialize
  \/ WriteInputs
  \/ TakeOutputs
  \/ GiveUpOutputs
  \/ Reply
  \/ \E u \in Users :
       \/ \E c \in {"wait", "timedWait", "read", "write"} : Call(u, c)
       \/ WaitSucceeds(u)
       \/ WaitGivesUp(u)
       \/ ReadInputs(u)
       \/ WriteOutputs(u)

Spec == Init /\ [][Next]_vars
=============================================================================
