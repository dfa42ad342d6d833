----------------------------- MODULE ControlLoop -----------------------------
(***************************************************************************)
(* The interface together with an external control loop.  The              *)
(* documentation of EGMControllerInterface asks for: wait for a message,   *)
(* read the inputs, write the outputs, repeat.  The module answers the     *)
(* question whether a reply carries the outputs that were computed from    *)
(* the message it replies to, and whether both sides always get on.        *)
(***************************************************************************)
EXTENDS ControllerMotion

VARIABLES
  stage,     \* of each loop: the call it is in, or makes next
  disturbed  \* history: something has put the loop and the messages out of step

loopVars == <<vars, stage, disturbed>>

LoopInit ==
  /\ Init
  /\ stage = [u \in Users |-> "wait"]
  /\ disturbed = FALSE

LoopCalls ==
  [wait  |-> {<<"lockWait", "none">>, <<"lockWait", "running">>},
   read  |-> {<<"lockReadInputs", "none">>},
   write |-> {<<"lockWriteOutputs", "none">>}]

\* A call that the documentation does not ask for now is a disturbance.
LoopCall(u) ==
  \E k \in DOMAIN LoopCalls :
    /\ \E c \in LoopCalls[k] : Call(u, c[1], c[2])
    /\ stage' = [stage EXCEPT ![u] = k]
    /\ disturbed' = (disturbed \/ k # stage[u])

\* What follows a call that returns: waitForMessage is repeated until it
\* returns true.
following(u) ==
  CASE stage[u] = "wait" -> IF u \in waited' THEN "read" ELSE "wait"
    [] stage[u] = "read" -> "write"
    [] stage[u] = "write" -> "wait"

LoopStep(u) ==
  /\ userStep(u)
  /\ stage' = IF pc'[u] = "idle" THEN [stage EXCEPT ![u] = following(u)] ELSE stage
  /\ UNCHANGED disturbed

\* A message that is published and not answered with outputs is a disturbance;
\* so is a new session that begins while the loop works on a message.
LoopReceive(zero, ok, d) ==
  /\ Receive(zero, ok, d)
  /\ disturbed' = IF message'.first
                    THEN read_ready \/ \E u \in Users : stage[u] # "wait"
                    ELSE disturbed \/ (~ok /\ ~d)
  /\ UNCHANGED stage

\* So is a control loop that takes longer than WRITE_TIMEOUT_MS.
LoopTimeout(t) ==
  /\ Timeout(t)
  /\ disturbed' = (disturbed \/ t = "callback")
  /\ UNCHANGED stage

LoopCallback == callbackStep /\ UNCHANGED <<stage, disturbed>>

LoopNext ==
  \/ \E zero, ok, d \in BOOLEAN : LoopReceive(zero, ok, d)
  \/ \E t \in Threads : LoopTimeout(t)
  \/ \E u \in Users : LoopCall(u) \/ LoopStep(u)
  \/ LoopCallback
  \/ /\ \/ \E zero, d \in BOOLEAN : Reject(zero, d)
        \/ \E t \in Threads : SpuriousWakeup(t)
     /\ UNCHANGED <<stage, disturbed>>

LoopSpec == LoopInit /\ [][LoopNext]_loopVars

(***************************************************************************)
(* A thread that competes for a mutex gets it eventually, a critical       *)
(* section ends, and a wait of WRITE_TIMEOUT_MS that is not notified times *)
(* out, even if it is restarted after spurious wakeups.  Messages and      *)
(* calls are not fair: the robot and the loop may stop at any time.        *)
(***************************************************************************)
FairLoopSpec ==
  /\ LoopSpec
  /\ SF_loopVars(LoopCallback)
  /\ SF_loopVars(LoopTimeout("callback"))
  /\ \A u \in Users : SF_loopVars(LoopStep(u))

-----------------------------------------------------------------------------
(***************************************************************************)
(* Properties, of a single control loop.                                   *)
(***************************************************************************)

\* The outputs that readOutputs takes were written after the message was
\* published, what the comment in the callback calls "new outputs", as long as
\* no timeout, no unanswered message, no change of session in the middle of the
\* loop and no call out of order has put the two out of step; a session that
\* begins while the loop waits puts them in step again.
UndisturbedOutputsAreNew ==
  ~disturbed /\ pc["callback"] = "readOutputs" /\ write_ready => out.new

\* Every message is answered, whatever the control loop does or fails to do.
MessageIsAnswered == pc["callback"] # "idle" ~> pc["callback"] = "idle"

\* While a session lasts and its messages are published, the waitForMessage of
\* a single control loop returns, also without a timeout.
WaitReturns ==
  <>[](~message.first) /\ []<>(pc["callback"] = "writeInputs")
    => \A u \in Users : pc[u] = "lockWait" ~> pc[u] = "idle"
==============================================================================
