----------------------- MODULE ControllerMotionProofs -----------------------
(***************************************************************************)
(* Proofs about ControllerMotion, for any set of users: the invariants of  *)
(* its mutexes, condition variables and buffers, and that it implements    *)
(* MotionExchange; and, of a control loop, that the outputs a reply takes  *)
(* belong to the message that it replies to.                               *)
(***************************************************************************)
EXTENDS ControlLoop, TLAPS

\* What holds of the buffers in every state; what readOutputs takes and the
\* inputs that waitForMessage promises follow from it.
BufferInv ==
  /\ write_ready => out.session
  /\ current.prepared => current.session
  /\ read_ready => unread = Users
  /\ waited \subseteq unread

Inv == TypeOK /\ MutualExclusion /\ NoMissedNotification /\ BufferInv

\* A thread is the callback or a user, and not both.
LEMMA ThreadKinds ==
  /\ "callback" \in Threads /\ "callback" \notin Users
  /\ Nobody \notin Threads
  /\ \A u \in Users : u \in Threads /\ u # "callback" /\ u # Nobody
BY UsersAssumption DEF Threads, Nobody

\* The variables have their types and are consistent when the interface has
\* been constructed.
LEMMA InitInv == Init => Inv
<1> SUFFICES ASSUME Init PROVE Inv
  OBVIOUS
<1> USE ThreadKinds DEF Init
<1>1. TypeOK
  BY Zenon DEF TypeOK, CallbackLocations, UserLocations
<1>2. MutualExclusion
  BY DEF MutualExclusion, Holds
<1>3. NoMissedNotification /\ BufferInv
  BY DEF NoMissedNotification, BufferInv
<1> QED
  BY <1>1, <1>2, <1>3 DEF Inv

\* Every step keeps the variables in their types.
LEMMA TypeStep == TypeOK /\ [Next]_vars => TypeOK'
<1> SUFFICES ASSUME TypeOK, [Next]_vars PROVE TypeOK'
  OBVIOUS
<1> USE ThreadKinds DEF TypeOK, CallbackLocations, UserLocations, goto, unlock, buffers
<1>1. ASSUME NEW zero \in BOOLEAN, NEW ok \in BOOLEAN, NEW d \in BOOLEAN, Receive(zero, ok, d)
      PROVE  TypeOK'
  BY <1>1, Zenon DEF Receive, isFirst, afterInitialize
<1>2. ASSUME NEW zero \in BOOLEAN, NEW d \in BOOLEAN, Reject(zero, d)
      PROVE  TypeOK'
  BY <1>2, Zenon DEF Reject
<1>3. CASE callbackStep
  <2>1. CASE lock("callback", "read", "lockInitialize", "lockInitializeWrite")
    BY <2>1 DEF lock
  <2>2. CASE lock("callback", "write", "lockInitializeWrite", "initialize")
    BY <2>2 DEF lock
  <2>3. CASE initialize
    BY <2>3, Zenon DEF initialize, afterInitialize
  <2>4. CASE lock("callback", "read", "lockWriteInputs", "writeInputs")
    BY <2>4 DEF lock
  <2>5. CASE writeInputs
    BY <2>5, Zenon DEF writeInputs, wake, relock
  <2>6. CASE lock("callback", "write", "lockReadOutputs", "readOutputs")
    BY <2>6 DEF lock
  <2>7. CASE readOutputs
    <3>1. CASE block("callback", "write")
      BY <3>1 DEF block
    <3>2. CASE ~block("callback", "write")
      <4>1. /\ pc' = [pc EXCEPT !["callback"] = "reply"]
            /\ owner' = [owner EXCEPT !["write"] = Nobody]
            /\ UNCHANGED <<timer, first_call, message, demo, read_ready, unread, out, waited>>
        BY <2>7, <3>2 DEF readOutputs
      <4>2. \/ write_ready' = FALSE /\ current' = [current EXCEPT !.session = out.session]
            \/ UNCHANGED <<write_ready, current>>
        BY <2>7, <3>2, Zenon DEF readOutputs
      <4>3. write_ready' \in BOOLEAN /\ current' \in [prepared : BOOLEAN, session : BOOLEAN]
        BY <4>2, Zenon
      <4> QED
        BY <4>1, <4>3
    <3> QED
      BY <3>1, <3>2
  <2>8. CASE reply
    BY <2>8 DEF reply
  <2> QED
    BY <1>3, <2>1, <2>2, <2>3, <2>4, <2>5, <2>6, <2>7, <2>8 DEF callbackStep
<1>4. ASSUME NEW u \in Users, userStep(u)
      PROVE  TypeOK'
  <2>1. CASE lock(u, "read", "lockWait", "wait")
    BY <2>1 DEF lock
  <2>2. CASE waitForMessage(u)
    BY <2>2 DEF waitForMessage, block
  <2>3. CASE lock(u, "read", "lockReadInputs", "readInputs")
    BY <2>3 DEF lock
  <2>4. CASE readInputs(u)
    BY <2>4, Zenon DEF readInputs
  <2>5. CASE lock(u, "write", "lockWriteOutputs", "writeOutputs")
    BY <2>5 DEF lock
  <2>6. CASE writeOutputs(u)
    BY <2>6 DEF writeOutputs, wake, relock
  <2> QED
    BY <1>4, <2>1, <2>2, <2>3, <2>4, <2>5, <2>6 DEF userStep
<1>5. ASSUME NEW u \in Users, NEW c \in Calls, Call(u, c[1], c[2])
      PROVE  TypeOK'
  BY <1>5 DEF Call, Calls
<1>6. ASSUME NEW t \in Threads, SpuriousWakeup(t) \/ Timeout(t)
      PROVE  TypeOK'
  BY <1>6 DEF SpuriousWakeup, Timeout, relock, Threads
<1>7. CASE UNCHANGED vars
  BY <1>7 DEF vars
<1> QED
  BY <1>1, <1>2, <1>3, <1>4, <1>5, <1>6, <1>7 DEF Next

\* Every step keeps the owners of the mutexes in the sections they protect.
LEMMA MutexStep == TypeOK /\ MutualExclusion /\ [Next]_vars => MutualExclusion'
<1> SUFFICES ASSUME TypeOK, MutualExclusion, [Next]_vars PROVE MutualExclusion'
  OBVIOUS
<1> USE ThreadKinds DEF MutualExclusion, Holds, TypeOK, CallbackLocations, UserLocations, goto, unlock, buffers
<1>1. ASSUME NEW zero \in BOOLEAN, NEW ok \in BOOLEAN, NEW d \in BOOLEAN, Receive(zero, ok, d)
      PROVE  MutualExclusion'
  BY <1>1 DEF Receive, isFirst, afterInitialize
<1>2. ASSUME NEW zero \in BOOLEAN, NEW d \in BOOLEAN, Reject(zero, d)
      PROVE  MutualExclusion'
  BY <1>2 DEF Reject
<1>3. CASE callbackStep
  <2>1. CASE lock("callback", "read", "lockInitialize", "lockInitializeWrite")
    BY <2>1 DEF lock
  <2>2. CASE lock("callback", "write", "lockInitializeWrite", "initialize")
    BY <2>2 DEF lock
  <2>3. CASE initialize
    BY <2>3 DEF initialize, afterInitialize
  <2>4. CASE lock("callback", "read", "lockWriteInputs", "writeInputs")
    BY <2>4 DEF lock
  <2>5. CASE writeInputs
    BY <2>5 DEF writeInputs, wake, relock
  <2>6. CASE lock("callback", "write", "lockReadOutputs", "readOutputs")
    BY <2>6 DEF lock
  <2>7. CASE readOutputs
    BY <2>7 DEF readOutputs, block
  <2>8. CASE reply
    BY <2>8 DEF reply
  <2> QED
    BY <1>3, <2>1, <2>2, <2>3, <2>4, <2>5, <2>6, <2>7, <2>8 DEF callbackStep
<1>4. ASSUME NEW u \in Users, userStep(u)
      PROVE  MutualExclusion'
  <2>1. CASE lock(u, "read", "lockWait", "wait")
    BY <2>1 DEF lock
  <2>2. CASE waitForMessage(u)
    BY <2>2 DEF waitForMessage, block
  <2>3. CASE lock(u, "read", "lockReadInputs", "readInputs")
    BY <2>3 DEF lock
  <2>4. CASE readInputs(u)
    BY <2>4 DEF readInputs
  <2>5. CASE lock(u, "write", "lockWriteOutputs", "writeOutputs")
    BY <2>5 DEF lock
  <2>6. CASE writeOutputs(u)
    BY <2>6 DEF writeOutputs, wake, relock
  <2> QED
    BY <1>4, <2>1, <2>2, <2>3, <2>4, <2>5, <2>6 DEF userStep
<1>5. ASSUME NEW u \in Users, NEW c \in Calls, Call(u, c[1], c[2])
      PROVE  MutualExclusion'
  BY <1>5 DEF Call, Calls
<1>6. ASSUME NEW t \in Threads, SpuriousWakeup(t) \/ Timeout(t)
      PROVE  MutualExclusion'
  BY <1>6 DEF SpuriousWakeup, Timeout, relock, Threads
<1>7. CASE UNCHANGED vars
  BY <1>7 DEF vars
<1> QED
  BY <1>1, <1>2, <1>3, <1>4, <1>5, <1>6, <1>7 DEF Next

\* A thread blocks only while its buffer is empty, and every write wakes the
\* threads that are blocked on it.
LEMMA NotificationStep == TypeOK /\ NoMissedNotification /\ [Next]_vars => NoMissedNotification'
<1> SUFFICES ASSUME TypeOK, NoMissedNotification, [Next]_vars PROVE NoMissedNotification'
  OBVIOUS
<1> USE ThreadKinds DEF NoMissedNotification, TypeOK, goto, unlock, buffers
<1>1. ASSUME NEW zero \in BOOLEAN, NEW ok \in BOOLEAN, NEW d \in BOOLEAN, Receive(zero, ok, d)
      PROVE  NoMissedNotification'
  BY <1>1 DEF Receive, isFirst, afterInitialize
<1>2. ASSUME NEW zero \in BOOLEAN, NEW d \in BOOLEAN, Reject(zero, d)
      PROVE  NoMissedNotification'
  BY <1>2 DEF Reject
<1>3. CASE callbackStep
  <2>1. CASE lock("callback", "read", "lockInitialize", "lockInitializeWrite")
    BY <2>1 DEF lock
  <2>2. CASE lock("callback", "write", "lockInitializeWrite", "initialize")
    BY <2>2 DEF lock
  <2>3. CASE initialize
    BY <2>3 DEF initialize, afterInitialize
  <2>4. CASE lock("callback", "read", "lockWriteInputs", "writeInputs")
    BY <2>4 DEF lock
  <2>5. CASE writeInputs
    BY <2>5 DEF writeInputs, wake, relock
  <2>6. CASE lock("callback", "write", "lockReadOutputs", "readOutputs")
    BY <2>6 DEF lock
  <2>7. CASE readOutputs
    BY <2>7 DEF readOutputs, block
  <2>8. CASE reply
    BY <2>8 DEF reply
  <2> QED
    BY <1>3, <2>1, <2>2, <2>3, <2>4, <2>5, <2>6, <2>7, <2>8 DEF callbackStep
<1>4. ASSUME NEW u \in Users, userStep(u)
      PROVE  NoMissedNotification'
  <2>1. CASE lock(u, "read", "lockWait", "wait")
    BY <2>1 DEF lock
  <2>2. CASE waitForMessage(u)
    BY <2>2 DEF waitForMessage, block
  <2>3. CASE lock(u, "read", "lockReadInputs", "readInputs")
    BY <2>3 DEF lock
  <2>4. CASE readInputs(u)
    BY <2>4 DEF readInputs
  <2>5. CASE lock(u, "write", "lockWriteOutputs", "writeOutputs")
    BY <2>5 DEF lock
  <2>6. CASE writeOutputs(u)
    BY <2>6 DEF writeOutputs, wake, relock
  <2> QED
    BY <1>4, <2>1, <2>2, <2>3, <2>4, <2>5, <2>6 DEF userStep
<1>5. ASSUME NEW u \in Users, NEW c \in Calls, Call(u, c[1], c[2])
      PROVE  NoMissedNotification'
  BY <1>5 DEF Call, Calls
<1>6. ASSUME NEW t \in Threads, SpuriousWakeup(t) \/ Timeout(t)
      PROVE  NoMissedNotification'
  BY <1>6 DEF SpuriousWakeup, Timeout, relock, Threads
<1>7. CASE UNCHANGED vars
  BY <1>7 DEF vars
<1> QED
  BY <1>1, <1>2, <1>3, <1>4, <1>5, <1>6, <1>7 DEF Next

\* Every step preserves what holds of the buffers.
LEMMA BufferStep == TypeOK /\ BufferInv /\ [Next]_vars => BufferInv'
<1> SUFFICES ASSUME TypeOK, BufferInv, [Next]_vars PROVE BufferInv'
  OBVIOUS
<1> USE ThreadKinds DEF BufferInv, TypeOK, goto, unlock, buffers
<1>1. ASSUME NEW zero \in BOOLEAN, NEW ok \in BOOLEAN, NEW d \in BOOLEAN, Receive(zero, ok, d)
      PROVE  BufferInv'
  BY <1>1 DEF Receive, isFirst, afterInitialize
<1>2. ASSUME NEW zero \in BOOLEAN, NEW d \in BOOLEAN, Reject(zero, d)
      PROVE  BufferInv'
  BY <1>2 DEF Reject
<1>3. CASE callbackStep
  <2>1. CASE lock("callback", "read", "lockInitialize", "lockInitializeWrite")
    BY <2>1 DEF lock
  <2>2. CASE lock("callback", "write", "lockInitializeWrite", "initialize")
    BY <2>2 DEF lock
  <2>3. CASE initialize
    BY <2>3 DEF initialize, afterInitialize
  <2>4. CASE lock("callback", "read", "lockWriteInputs", "writeInputs")
    BY <2>4 DEF lock
  <2>5. CASE writeInputs
    BY <2>5 DEF writeInputs, wake, relock
  <2>6. CASE lock("callback", "write", "lockReadOutputs", "readOutputs")
    BY <2>6 DEF lock
  <2>7. CASE readOutputs
    BY <2>7 DEF readOutputs, block
  <2>8. CASE reply
    BY <2>8 DEF reply
  <2> QED
    BY <1>3, <2>1, <2>2, <2>3, <2>4, <2>5, <2>6, <2>7, <2>8 DEF callbackStep
<1>4. ASSUME NEW u \in Users, userStep(u)
      PROVE  BufferInv'
  <2>1. CASE lock(u, "read", "lockWait", "wait")
    BY <2>1 DEF lock
  <2>2. CASE waitForMessage(u)
    BY <2>2 DEF waitForMessage, block
  <2>3. CASE lock(u, "read", "lockReadInputs", "readInputs")
    BY <2>3 DEF lock
  <2>4. CASE readInputs(u)
    BY <2>4 DEF readInputs
  <2>5. CASE lock(u, "write", "lockWriteOutputs", "writeOutputs")
    BY <2>5 DEF lock
  <2>6. CASE writeOutputs(u)
    BY <2>6 DEF writeOutputs, wake, relock
  <2> QED
    BY <1>4, <2>1, <2>2, <2>3, <2>4, <2>5, <2>6 DEF userStep
<1>5. ASSUME NEW u \in Users, NEW c \in Calls, Call(u, c[1], c[2])
      PROVE  BufferInv'
  BY <1>5 DEF Call, Calls
<1>6. ASSUME NEW t \in Threads, SpuriousWakeup(t) \/ Timeout(t)
      PROVE  BufferInv'
  BY <1>6 DEF SpuriousWakeup, Timeout, relock, Threads
<1>7. CASE UNCHANGED vars
  BY <1>7 DEF vars
<1> QED
  BY <1>1, <1>2, <1>3, <1>4, <1>5, <1>6, <1>7 DEF Next

\* The inductive invariant, from which the theorems follow.
LEMMA Invariant == Spec => []Inv
<1>1. Inv /\ [Next]_vars => Inv'
  BY TypeStep, MutexStep, NotificationStep, BufferStep DEF Inv
<1> QED
  BY InitInv, <1>1, PTL DEF Spec

\* The members of ControllerMotion, and the locations of the threads that use
\* it, have their types.
THEOREM TypeCorrect == Spec => []TypeOK
<1>1. Inv => TypeOK
  BY DEF Inv
<1> QED
  BY Invariant, <1>1, PTL

\* The buffers are protected: each mutex is owned by exactly the thread that
\* is in a section it protects, however many threads use the interface.
THEOREM Exclusion == Spec => []MutualExclusion
<1>1. Inv => MutualExclusion
  BY DEF Inv
<1> QED
  BY Invariant, <1>1, PTL

\* Neither waitForMessage nor readOutputs misses a notification.
THEOREM Notification == Spec => []NoMissedNotification
<1>1. Inv => NoMissedNotification
  BY DEF Inv
<1> QED
  BY Invariant, <1>1, PTL

\* A reply in a session whose first message was extracted is never built from
\* outputs of a session before, however late the control loop writes them.
THEOREM SessionReplies == Spec => []RepliesAreOfSession
<1>1. Inv => RepliesAreOfSession
  BY DEF Inv, BufferInv, RepliesAreOfSession
<1> QED
  BY Invariant, <1>1, PTL

\* After a successful waitForMessage there are inputs that the thread has not
\* read, whatever the other threads do.
THEOREM NewInputs == Spec => []WaitGivesNewInputs
<1>1. Inv => WaitGivesNewInputs
  BY DEF Inv, BufferInv, WaitGivesNewInputs
<1> QED
  BY Invariant, <1>1, PTL

-----------------------------------------------------------------------------
(***************************************************************************)
(* The refinement of MotionExchange.                                       *)
(***************************************************************************)

\* The phase and the calls of the abstract specification.
phase == phaseOf(pc["callback"])
call == [u \in Users |-> callOf(pc[u], timer[u])]

\* Which locations of the callback belong to which phase.
LEMMA Phases ==
  /\ phaseOf("idle") = "idle" /\ phaseOf("reply") = "reply"
  /\ \A l \in {"lockInitialize", "lockInitializeWrite", "initialize"} : phaseOf(l) = "initialize"
  /\ \A l \in {"lockWriteInputs", "writeInputs"} : phaseOf(l) = "inputs"
  /\ \A l \in {"lockReadOutputs", "readOutputs", "blocked"} : phaseOf(l) = "outputs"
BY DEF phaseOf

\* Which locations of a user belong to which call.
LEMMA CallLocations ==
  ASSUME NEW t
  PROVE  /\ callOf("idle", t) = "none"
         /\ \A l \in {"lockWait", "wait", "blocked"} :
              callOf(l, t) = IF t = "none" THEN "wait" ELSE "timedWait"
         /\ \A l \in {"lockReadInputs", "readInputs"} : callOf(l, t) = "read"
         /\ \A l \in {"lockWriteOutputs", "writeOutputs"} : callOf(l, t) = "write"
BY DEF callOf

\* What the abstract specification does not see: a step within a phase and
\* within the calls that leaves the buffers alone.
LEMMA Invisible ==
  ASSUME phase' = phase, call' = call, UNCHANGED <<first_call, message, demo, current, buffers>>
  PROVE  UNCHANGED Exchange!vars
BY DEF phase, call, buffers, Exchange!vars

\* The calls are the same if every user is still in the same call.
LEMMA SameCalls ==
  ASSUME \A u \in Users : callOf(pc'[u], timer'[u]) = callOf(pc[u], timer[u])
  PROVE  call' = call
BY DEF call

\* A call of one user begins or ends.
LEMMA OneCall ==
  ASSUME NEW u \in Users,
         \A v \in Users \ {u} : callOf(pc'[v], timer'[v]) = callOf(pc[v], timer[v])
  PROVE  call' = [call EXCEPT ![u] = callOf(pc'[u], timer'[u])]
BY Zenon DEF call

\* The constructed interface is an initial state of MotionExchange.
LEMMA RefinementInit == Init => Exchange!Init
BY ThreadKinds, Phases, CallLocations DEF Init, Exchange!Init

\* Every step is a step of MotionExchange, or changes nothing that it sees.
LEMMA RefinementStep == Inv /\ [Next]_vars => [Exchange!Next]_(Exchange!vars)
<1> SUFFICES ASSUME TypeOK, [Next]_vars PROVE [Exchange!Next]_(Exchange!vars)
  BY DEF Inv
<1> USE ThreadKinds DEF TypeOK, goto, unlock, buffers
<1>1. ASSUME NEW zero \in BOOLEAN, NEW ok \in BOOLEAN, NEW d \in BOOLEAN, Receive(zero, ok, d)
      PROVE  [Exchange!Next]_(Exchange!vars)
  <2>1. /\ phase = "idle"
        /\ phase' = IF isFirst(zero) THEN "initialize" ELSE IF d THEN "reply" ELSE "inputs"
    BY <1>1, Phases DEF Receive, afterInitialize, phase
  <2>2. call' = call
    BY <1>1, SameCalls DEF Receive
  <2>3. Exchange!Receive([first |-> isFirst(zero), ok |-> ok], d)
    BY <1>1, <2>1, <2>2 DEF Receive, isFirst, Exchange!Receive, phase, call
  <2> QED
    BY <2>3 DEF Exchange!Next, isFirst
<1>2. ASSUME NEW zero \in BOOLEAN, NEW d \in BOOLEAN, Reject(zero, d)
      PROVE  [Exchange!Next]_(Exchange!vars)
  <2>1. phase = "idle" /\ phase' = phase /\ call' = call
    BY <1>2, Phases, SameCalls DEF Reject, phase
  <2>2. Exchange!Reject(isFirst(zero), d)
    BY <1>2, <2>1 DEF Reject, isFirst, Exchange!Reject, phase, call
  <2> QED
    BY <2>2 DEF Exchange!Next, isFirst
<1>3. CASE callbackStep
  <2>1. CASE lock("callback", "read", "lockInitialize", "lockInitializeWrite")
    <3>1. phase' = phase
      BY <2>1, Phases DEF lock, phase
    <3>2. call' = call
      BY <2>1, SameCalls, CallLocations DEF lock
    <3> QED
      BY <2>1, <3>1, <3>2, Invisible DEF lock
  <2>2. CASE lock("callback", "write", "lockInitializeWrite", "initialize")
    <3>1. phase' = phase
      BY <2>2, Phases DEF lock, phase
    <3>2. call' = call
      BY <2>2, SameCalls, CallLocations DEF lock
    <3> QED
      BY <2>2, <3>1, <3>2, Invisible DEF lock
  <2>3. CASE initialize
    <3>1. phase = "initialize" /\ phase' = IF demo THEN "reply" ELSE "inputs"
      BY <2>3, Phases DEF initialize, afterInitialize, phase
    <3>2. call' = call
      BY <2>3, SameCalls, CallLocations DEF initialize, afterInitialize
    <3>3. Exchange!Initialize
      BY <2>3, <3>1, <3>2 DEF initialize, afterInitialize, Exchange!Initialize, phase, call
    <3> QED
      BY <3>3 DEF Exchange!Next
  <2>4. CASE lock("callback", "read", "lockWriteInputs", "writeInputs")
    <3>1. phase' = phase
      BY <2>4, Phases DEF lock, phase
    <3>2. call' = call
      BY <2>4, SameCalls, CallLocations DEF lock
    <3> QED
      BY <2>4, <3>1, <3>2, Invisible DEF lock
  <2>5. CASE writeInputs
    <3>1. phase = "inputs" /\ phase' = IF message.first \/ message.ok THEN "outputs" ELSE "reply"
      BY <2>5, Phases DEF writeInputs, wake, relock, phase
    <3>2. call' = call
      BY <2>5, SameCalls, CallLocations DEF writeInputs, wake, relock
    <3>3. Exchange!WriteInputs
      BY <2>5, <3>1, <3>2 DEF writeInputs, wake, relock, Exchange!WriteInputs, phase, call
    <3> QED
      BY <3>3 DEF Exchange!Next
  <2>6. CASE lock("callback", "write", "lockReadOutputs", "readOutputs")
    <3>1. phase' = phase
      BY <2>6, Phases DEF lock, phase
    <3>2. call' = call
      BY <2>6, SameCalls, CallLocations DEF lock
    <3> QED
      BY <2>6, <3>1, <3>2, Invisible DEF lock
  <2>7. CASE readOutputs
    <3>1. CASE block("callback", "write")
      <4>1. phase' = phase
        BY <2>7, <3>1, Phases DEF readOutputs, block, phase
      <4>2. call' = call
        BY <2>7, <3>1, SameCalls, CallLocations DEF readOutputs, block
      <4> QED
        BY <2>7, <3>1, <4>1, <4>2, Invisible DEF readOutputs, block
    <3>2. CASE ~block("callback", "write") /\ timer["callback"] # "expired"
      <4>1. phase = "outputs" /\ phase' = "reply"
        BY <2>7, <3>2, Phases DEF readOutputs, phase
      <4>2. call' = call
        BY <2>7, <3>2, SameCalls, CallLocations DEF readOutputs
      <4>3. Exchange!TakeOutputs
        BY <2>7, <3>2, <4>1, <4>2 DEF readOutputs, Exchange!TakeOutputs, phase, call
      <4> QED
        BY <4>3 DEF Exchange!Next
    <3>3. CASE ~block("callback", "write") /\ timer["callback"] = "expired"
      <4>1. phase = "outputs" /\ phase' = "reply"
        BY <2>7, <3>3, Phases DEF readOutputs, phase
      <4>2. call' = call
        BY <2>7, <3>3, SameCalls, CallLocations DEF readOutputs
      <4>3. Exchange!GiveUpOutputs
        BY <2>7, <3>3, <4>1, <4>2 DEF readOutputs, Exchange!GiveUpOutputs, phase, call
      <4> QED
        BY <4>3 DEF Exchange!Next
    <3> QED
      BY <3>1, <3>2, <3>3
  <2>8. CASE reply
    <3>1. phase = "reply" /\ phase' = "idle"
      BY <2>8, Phases DEF reply, phase
    <3>2. call' = call
      BY <2>8, SameCalls, CallLocations DEF reply
    <3>3. Exchange!Reply
      BY <2>8, <3>1, <3>2 DEF reply, Exchange!Reply, phase, call
    <3> QED
      BY <3>3 DEF Exchange!Next
  <2> QED
    BY <1>3, <2>1, <2>2, <2>3, <2>4, <2>5, <2>6, <2>7, <2>8 DEF callbackStep
<1>4. ASSUME NEW u \in Users, userStep(u)
      PROVE  [Exchange!Next]_(Exchange!vars)
  <2>1. CASE lock(u, "read", "lockWait", "wait")
    <3>1. phase' = phase
      BY <2>1, Phases DEF lock, phase
    <3>2. call' = call
      BY <2>1, SameCalls, CallLocations DEF lock
    <3> QED
      BY <2>1, <3>1, <3>2, Invisible DEF lock
  <2>2. CASE waitForMessage(u)
    <3>1. CASE block(u, "read")
      <4>1. phase' = phase
        BY <2>2, <3>1, Phases DEF waitForMessage, block, phase
      <4>2. call' = call
        BY <2>2, <3>1, SameCalls, CallLocations DEF waitForMessage, block
      <4> QED
        BY <2>2, <3>1, <4>1, <4>2, Invisible DEF waitForMessage, block
    <3>2. CASE ~block(u, "read") /\ timer[u] # "expired"
      <4>1. phase' = phase
        BY <2>2, <3>2, Phases DEF waitForMessage, phase
      <4>2. call[u] \in {"wait", "timedWait"} /\ call' = [call EXCEPT ![u] = "none"]
        BY <2>2, <3>2, OneCall, CallLocations DEF waitForMessage, call
      <4>3. Exchange!WaitSucceeds(u)
        BY <2>2, <3>2, <4>1, <4>2 DEF waitForMessage, Exchange!WaitSucceeds, Exchange!Return, phase, call
      <4> QED
        BY <4>3 DEF Exchange!Next
    <3>3. CASE ~block(u, "read") /\ timer[u] = "expired"
      <4>1. phase' = phase
        BY <2>2, <3>3, Phases DEF waitForMessage, phase
      <4>2. call[u] = "timedWait" /\ call' = [call EXCEPT ![u] = "none"]
        BY <2>2, <3>3, OneCall, CallLocations DEF waitForMessage, call
      <4>3. Exchange!WaitGivesUp(u)
        BY <2>2, <3>3, <4>1, <4>2 DEF waitForMessage, Exchange!WaitGivesUp, Exchange!Return, phase, call
      <4> QED
        BY <4>3 DEF Exchange!Next
    <3> QED
      BY <3>1, <3>2, <3>3
  <2>3. CASE lock(u, "read", "lockReadInputs", "readInputs")
    <3>1. phase' = phase
      BY <2>3, Phases DEF lock, phase
    <3>2. call' = call
      BY <2>3, SameCalls, CallLocations DEF lock
    <3> QED
      BY <2>3, <3>1, <3>2, Invisible DEF lock
  <2>4. CASE readInputs(u)
    <3>1. phase' = phase
      BY <2>4, Phases DEF readInputs, phase
    <3>2. call[u] = "read" /\ call' = [call EXCEPT ![u] = "none"]
      BY <2>4, OneCall, CallLocations DEF readInputs, call
    <3>3. Exchange!ReadInputs(u)
      BY <2>4, <3>1, <3>2 DEF readInputs, Exchange!ReadInputs, Exchange!Return, phase, call
    <3> QED
      BY <3>3 DEF Exchange!Next
  <2>5. CASE lock(u, "write", "lockWriteOutputs", "writeOutputs")
    <3>1. phase' = phase
      BY <2>5, Phases DEF lock, phase
    <3>2. call' = call
      BY <2>5, SameCalls, CallLocations DEF lock
    <3> QED
      BY <2>5, <3>1, <3>2, Invisible DEF lock
  <2>6. CASE writeOutputs(u)
    <3>1. phase' = phase
      BY <2>6, Phases DEF writeOutputs, wake, relock, phase
    <3>2. call[u] = "write" /\ call' = [call EXCEPT ![u] = "none"]
      <4>1. \A v \in Users \ {u} : callOf(pc'[v], timer'[v]) = callOf(pc[v], timer[v])
        BY <2>6 DEF writeOutputs, wake
      <4>2. pc[u] = "writeOutputs" /\ pc'[u] = "idle"
        BY <2>6 DEF writeOutputs, wake
      <4> QED
        BY <4>1, <4>2, OneCall, CallLocations DEF call
    <3>3. Exchange!WriteOutputs(u)
      BY <2>6, <3>1, <3>2 DEF writeOutputs, wake, relock, Exchange!WriteOutputs, Exchange!Return, phase, call
    <3> QED
      BY <3>3 DEF Exchange!Next
  <2> QED
    BY <1>4, <2>1, <2>2, <2>3, <2>4, <2>5, <2>6 DEF userStep
<1>5. ASSUME NEW u \in Users, NEW c \in Calls, Call(u, c[1], c[2])
      PROVE  [Exchange!Next]_(Exchange!vars)
  <2> DEFINE k == callOf(c[1], c[2])
  <2>1. k \in {"wait", "timedWait", "read", "write"}
    BY CallLocations DEF Calls
  <2>2. phase' = phase
    BY <1>5 DEF Call, phase
  <2>3. call[u] = "none" /\ call' = [call EXCEPT ![u] = k]
    BY <1>5, OneCall, CallLocations DEF Call, call
  <2>4. Exchange!Call(u, k)
    BY <1>5, <2>2, <2>3 DEF Call, Exchange!Call, phase, call
  <2> QED
    BY <2>1, <2>4 DEF Exchange!Next
<1>6. ASSUME NEW t \in Threads, SpuriousWakeup(t) \/ Timeout(t)
      PROVE  [Exchange!Next]_(Exchange!vars)
  <2>1. phase' = phase
    BY <1>6, Phases DEF SpuriousWakeup, Timeout, relock, phase
  <2>2. call' = call
    BY <1>6, SameCalls, CallLocations DEF SpuriousWakeup, Timeout, relock
  <2> QED
    BY <1>6, <2>1, <2>2, Invisible DEF SpuriousWakeup, Timeout
<1>7. CASE UNCHANGED vars
  BY <1>7, SameCalls, Invisible DEF vars, phase
<1> QED
  BY <1>1, <1>2, <1>3, <1>4, <1>5, <1>6, <1>7 DEF Next

\* ControllerMotion implements MotionExchange: seen by the callback and by the
\* threads of the control loop, every call is atomic.
THEOREM Refinement == Spec => ImplementsExchange
BY RefinementInit, RefinementStep, Invariant, PTL DEF Spec, ImplementsExchange, Exchange!Spec

(***************************************************************************)
(* The control loop.  Every step of LoopSpec is one of Spec; the stage of  *)
(* the loop says what it has done with the message that was published.     *)
(***************************************************************************)

\* Where a loop is during the call of each stage, and before it.
LoopPlaces ==
  [wait  |-> {"idle", "lockWait", "wait", "blocked"},
   read  |-> {"idle", "lockReadInputs", "readInputs"},
   write |-> {"idle", "lockWriteOutputs", "writeOutputs"}]

Opening == {"lockInitialize", "lockInitializeWrite", "initialize"}
Publishing == {"lockWriteInputs", "writeInputs"}
Awaiting == {"lockReadOutputs", "readOutputs", "blocked"}

allWait == \A u \in Users : stage[u] = "wait"

\* What holds while nothing has put the loop and the messages out of step:
\* before a message is published the loop waits and neither buffer is ready;
\* then it has the inputs to read, or outputs to write, or it has written.
InStep ==
  /\ pc["callback"] \in Opening => ~read_ready /\ allWait
  /\ pc["callback"] \in {"idle", "reply"} \cup Publishing => ~read_ready /\ ~write_ready /\ allWait
  /\ pc["callback"] \in Publishing => message.first \/ message.ok
  /\ pc["callback"] \in Awaiting =>
       /\ timer["callback"] # "expired"
       /\ \A u \in Users : stage[u] = "write" => ~read_ready
       /\ write_ready => out.new /\ ~read_ready /\ allWait

Stages == {"wait", "read", "write"}

LoopInv ==
  /\ stage \in [Users -> Stages] /\ disturbed \in BOOLEAN
  /\ \A u \in Users : pc[u] \in LoopPlaces[stage[u]]
  /\ pc["callback"] \in Opening => message.first
  /\ ~disturbed => InStep

\* The theorem is about one loop: two loops may both write for a message.
SingleLoop == \A u, v \in Users : u = v

\* Waiting, reading and writing are calls of the interface.
LEMMA LoopCallIsCall ==
  ASSUME NEW u \in Users, LoopCall(u)
  PROVE  \E k \in Stages, c \in Calls :
           /\ Call(u, c[1], c[2])
           /\ c[1] \in LoopPlaces[k] \ {"idle"}
           /\ stage' = [stage EXCEPT ![u] = k]
           /\ disturbed' = (disturbed \/ k # stage[u])
<1>1. PICK k \in DOMAIN LoopCalls :
        /\ \E c \in LoopCalls[k] : Call(u, c[1], c[2])
        /\ stage' = [stage EXCEPT ![u] = k]
        /\ disturbed' = (disturbed \/ k # stage[u])
  BY Zenon DEF LoopCall
<1>2. PICK c \in LoopCalls[k] : Call(u, c[1], c[2])
  BY <1>1
<1>3. k \in Stages
  BY <1>1 DEF LoopCalls, Stages
<1>4. /\ k = "wait" => c \in {<<"lockWait", "none">>, <<"lockWait", "running">>}
      /\ k = "read" => c = <<"lockReadInputs", "none">>
      /\ k = "write" => c = <<"lockWriteOutputs", "none">>
  BY <1>2 DEF LoopCalls
<1>5. c \in Calls /\ c[1] \in LoopPlaces[k] \ {"idle"}
  BY <1>3, <1>4 DEF Calls, LoopPlaces, Stages
<1>. QED
  BY <1>1, <1>2, <1>3, <1>5, Zenon

\* The loop does nothing that other callers of the interface may not do.
LEMMA LoopNextIsNext == [LoopNext]_loopVars => [Next]_vars
<1>. SUFFICES ASSUME [LoopNext]_loopVars
              PROVE  [Next]_vars
  OBVIOUS
<1>1. ASSUME NEW u \in Users, LoopCall(u)
      PROVE  Next
  <2>1. PICK c \in Calls : Call(u, c[1], c[2])
    BY <1>1, LoopCallIsCall
  <2>. QED
    BY <2>1, Zenon DEF Next
<1>2. ASSUME NEW zero \in BOOLEAN, NEW ok \in BOOLEAN, NEW d \in BOOLEAN, LoopReceive(zero, ok, d)
      PROVE  Next
  BY <1>2, Zenon DEF LoopReceive, Next
<1>3. ASSUME NEW t \in Threads, LoopTimeout(t)
      PROVE  Next
  BY <1>3, Zenon DEF LoopTimeout, Next
<1>4. ASSUME NEW u \in Users, LoopStep(u)
      PROVE  Next
  BY <1>4, Zenon DEF LoopStep, Next
<1>5. LoopCallback => Next
  BY Zenon DEF LoopCallback, Next
<1>6. UNCHANGED loopVars => UNCHANGED vars
  BY DEF loopVars
<1>. QED
  BY <1>1, <1>2, <1>3, <1>4, <1>5, <1>6, Zenon DEF LoopNext, Next

\* The loop starts waiting, with nothing published and nothing written.
LEMMA LoopInvInit == LoopInit => LoopInv
<1>. SUFFICES ASSUME LoopInit
              PROVE  LoopInv
  OBVIOUS
<1>1. /\ stage \in [Users -> Stages]
      /\ \A u \in Users : stage[u] = "wait" /\ pc[u] = "idle"
      /\ pc["callback"] = "idle" /\ ~read_ready /\ ~write_ready
  BY ThreadKinds DEF LoopInit, Init, Stages
<1>2. disturbed \in BOOLEAN
  BY Zenon DEF LoopInit
<1>. QED
  BY <1>1, <1>2 DEF LoopInv, LoopPlaces, InStep, allWait, Opening, Publishing, Awaiting

\* A message is received when the one before it has been answered; a first one
\* only counts as undisturbed if the loop waits.
LEMMA ReceiveLoop ==
  ASSUME TypeOK, LoopInv, NEW zero \in BOOLEAN, NEW ok \in BOOLEAN, NEW d \in BOOLEAN,
         LoopReceive(zero, ok, d)
  PROVE  LoopInv'
<1>. USE ThreadKinds DEF TypeOK
<1>1. /\ pc["callback"] = "idle"
      /\ message' = [first |-> isFirst(zero), ok |-> ok]
      /\ pc' = [pc EXCEPT !["callback"] = IF isFirst(zero) THEN "lockInitialize" ELSE afterInitialize(d)]
      /\ UNCHANGED <<timer, read_ready, write_ready, out>>
  BY DEF LoopReceive, Receive, goto, buffers
<1>2. /\ stage' = stage
      /\ disturbed' = IF message'.first THEN read_ready \/ \E u \in Users : stage[u] # "wait"
                                        ELSE disturbed \/ (~ok /\ ~d)
  BY DEF LoopReceive
<1>3. /\ message'.first <=> isFirst(zero)
      /\ message'.ok = ok
      /\ \A u \in Users : pc'[u] = pc[u]
      /\ pc'["callback"] = IF isFirst(zero) THEN "lockInitialize" ELSE IF d THEN "reply" ELSE "lockWriteInputs"
  BY <1>1 DEF afterInitialize, isFirst
<1>4. CASE isFirst(zero)
  BY <1>1, <1>2, <1>3, <1>4 DEF LoopInv, InStep, allWait, Opening, Publishing, Awaiting
<1>5. CASE ~isFirst(zero)
  BY <1>1, <1>2, <1>3, <1>5, Zenon DEF LoopInv, InStep, allWait, Opening, Publishing, Awaiting
<1>. QED
  BY <1>4, <1>5

\* A timeout or a wakeup lets a thread lock again; the timeout of the callback
\* is a disturbance.
LEMMA WakeupLoop ==
  ASSUME TypeOK, LoopInv, NEW t \in Threads,
         \/ LoopTimeout(t)
         \/ SpuriousWakeup(t) /\ UNCHANGED <<stage, disturbed>>
  PROVE  LoopInv'
<1>. USE ThreadKinds DEF TypeOK
<1>1. /\ pc[t] = "blocked"
      /\ pc' = [pc EXCEPT ![t] = relock(t)]
      /\ UNCHANGED <<message, read_ready, write_ready, out, stage>>
      /\ disturbed' \in BOOLEAN /\ (disturbed => disturbed')
      /\ t = "callback" /\ ~disturbed' => timer' = timer
      /\ t # "callback" => timer'["callback"] = timer["callback"]
  <2>1. CASE LoopTimeout(t)
    <3>1. disturbed \in BOOLEAN /\ disturbed' = (disturbed \/ t = "callback")
      BY <2>1 DEF LoopTimeout, LoopInv
    <3>2. Timeout(t) /\ stage' = stage
      BY <2>1 DEF LoopTimeout
    <3>. QED
      BY <3>1, <3>2, Zenon DEF Timeout, goto, buffers
  <2>2. CASE SpuriousWakeup(t) /\ UNCHANGED <<stage, disturbed>>
    BY <2>2 DEF SpuriousWakeup, goto, buffers, LoopInv
  <2>. QED
    BY <2>1, <2>2
<1>2. CASE t = "callback"
  <2>1. /\ pc'["callback"] = "lockReadOutputs"
        /\ \A u \in Users : pc'[u] = pc[u]
    BY <1>1, <1>2 DEF relock
  <2>. QED
    BY <1>1, <1>2, <2>1 DEF LoopInv, InStep, allWait, Opening, Publishing, Awaiting
<1>3. CASE t \in Users
  <2>1. /\ pc'["callback"] = pc["callback"]
        /\ pc'[t] = "lockWait"
        /\ \A u \in Users \ {t} : pc'[u] = pc[u]
    BY <1>1, <1>3 DEF relock
  <2>2. stage[t] = "wait"
    BY <1>1, <1>3 DEF LoopInv, LoopPlaces, Stages
  <2>3. \A u \in Users : pc'[u] \in LoopPlaces[stage[u]]
    BY <2>1, <2>2 DEF LoopInv, LoopPlaces
  <2>. QED
    BY <1>1, <1>3, <2>1, <2>3 DEF LoopInv, InStep, allWait, Opening, Publishing, Awaiting
<1>. QED
  BY <1>2, <1>3 DEF Threads

\* A call out of order is a disturbance; one in order changes no stage.
LEMMA CallLoop ==
  ASSUME TypeOK, LoopInv, NEW u \in Users, LoopCall(u)
  PROVE  LoopInv'
<1>. USE ThreadKinds DEF TypeOK
<1>1. PICK k \in Stages, c \in Calls :
        /\ Call(u, c[1], c[2])
        /\ c[1] \in LoopPlaces[k] \ {"idle"}
        /\ stage' = [stage EXCEPT ![u] = k]
        /\ disturbed' = (disturbed \/ k # stage[u])
  BY LoopCallIsCall
<1>2. /\ pc' = [pc EXCEPT ![u] = c[1]]
      /\ timer'["callback"] = timer["callback"]
      /\ UNCHANGED <<message, read_ready, write_ready, out>>
  BY <1>1 DEF Call, goto, buffers
<1>3. pc'["callback"] = pc["callback"]
  BY <1>2
<1>4. /\ stage' \in [Users -> Stages]
      /\ \A v \in Users : pc'[v] \in LoopPlaces[stage'[v]]
  BY <1>1, <1>2 DEF LoopInv
<1>5. k = stage[u] => stage' = stage
  BY <1>1 DEF LoopInv
<1>6. disturbed' \in BOOLEAN /\ (~disturbed' => ~disturbed /\ k = stage[u])
  BY <1>1, Zenon DEF LoopInv
<1>. QED
  BY <1>2, <1>3, <1>4, <1>5, <1>6 DEF LoopInv, InStep, allWait

\* The callback: a message is published to a loop that waits, and readOutputs
\* ends without a timeout only when the loop has written.
LEMMA CallbackLoop ==
  ASSUME TypeOK, LoopInv, LoopCallback
  PROVE  LoopInv'
<1>. USE ThreadKinds DEF TypeOK
<1>1. callbackStep /\ stage' = stage /\ disturbed' = disturbed
  BY DEF LoopCallback
<1>2. ASSUME NEW x \in {"read", "write"}, NEW from, NEW to, lock("callback", x, from, to),
             from \in Opening => to \in Opening,
             from \in Publishing => to \in Publishing,
             from \in Awaiting => to \in Awaiting,
             from \in Opening \cup Publishing \cup Awaiting
      PROVE  LoopInv'
  <2>1. /\ pc["callback"] = from /\ pc'["callback"] = to
        /\ \A u \in Users : pc'[u] = pc[u]
        /\ UNCHANGED <<timer, message, read_ready, write_ready, out>>
    BY <1>2 DEF lock, goto, buffers
  <2>2. to \notin {"idle", "reply"}
    BY <1>2 DEF Opening, Publishing, Awaiting
  <2>. QED
    BY <1>1, <1>2, <2>1, <2>2 DEF LoopInv, InStep, allWait, Opening, Publishing, Awaiting
<1>3. CASE initialize
  <2>1. /\ pc["callback"] = "initialize" /\ pc'["callback"] \in {"reply", "lockWriteInputs"}
        /\ \A u \in Users : pc'[u] = pc[u]
        /\ ~read_ready' /\ ~write_ready' /\ message' = message
    BY <1>3 DEF initialize, goto, afterInitialize
  <2>. QED
    BY <1>1, <2>1 DEF LoopInv, InStep, allWait, Opening, Publishing, Awaiting
<1>4. CASE writeInputs
  <2>1. /\ pc["callback"] = "writeInputs"
        /\ pc'["callback"] = IF message.first \/ message.ok THEN "lockReadOutputs" ELSE "reply"
        /\ \A u \in Users : pc'[u] = IF pc[u] = "blocked" THEN "lockWait" ELSE pc[u]
        /\ message' = message /\ write_ready' = write_ready /\ timer'["callback"] = "running"
    BY <1>4 DEF writeInputs, wake, relock
  <2>2. \A u \in Users : pc'[u] \in LoopPlaces[stage[u]]
    BY <2>1 DEF LoopInv, LoopPlaces, Stages
  <2>3. ~disturbed => ~write_ready /\ allWait /\ (message.first \/ message.ok)
    BY <2>1 DEF LoopInv, InStep, Publishing
  <2>. QED
    BY <1>1, <2>1, <2>2, <2>3 DEF LoopInv, InStep, allWait, Opening, Publishing, Awaiting
<1>5. CASE readOutputs
  <2>1. /\ pc["callback"] = "readOutputs"
        /\ \A u \in Users : pc'[u] = pc[u]
        /\ UNCHANGED <<timer, message, read_ready>>
    BY <1>5 DEF readOutputs, block, goto, buffers
  <2>2. \/ pc'["callback"] = "blocked" /\ UNCHANGED <<write_ready, out>>
        \/ pc'["callback"] = "reply" /\ write_ready /\ ~write_ready'
        \/ pc'["callback"] = "reply" /\ timer["callback"] = "expired"
    BY <1>5 DEF readOutputs, block, goto, buffers
  <2>. QED
    BY <1>1, <2>1, <2>2 DEF LoopInv, InStep, allWait, Opening, Publishing, Awaiting
<1>6. CASE reply
  <2>1. /\ pc["callback"] = "reply" /\ pc'["callback"] = "idle"
        /\ \A u \in Users : pc'[u] = pc[u]
        /\ UNCHANGED <<timer, message, read_ready, write_ready, out>>
    BY <1>6 DEF reply, goto, buffers
  <2>. QED
    BY <1>1, <2>1 DEF LoopInv, InStep, allWait, Opening, Publishing, Awaiting
<1>. QED
  BY <1>1, <1>2, <1>3, <1>4, <1>5, <1>6 DEF callbackStep, Opening, Publishing, Awaiting

\* The single loop: it reads when inputs have been published, and writes when
\* it has read them.
LEMMA StepLoop ==
  ASSUME SingleLoop, TypeOK, LoopInv, NEW u \in Users, LoopStep(u)
  PROVE  LoopInv'
<1>. USE ThreadKinds DEF TypeOK
<1>1. /\ userStep(u)
      /\ stage' = IF pc'[u] = "idle" THEN [stage EXCEPT ![u] = following(u)] ELSE stage
      /\ disturbed' = disturbed
  BY DEF LoopStep
<1>2. /\ stage \in [Users -> Stages] /\ disturbed \in BOOLEAN
      /\ pc[u] \in LoopPlaces[stage[u]]
      /\ \A v \in Users : v = u
  BY DEF LoopInv, SingleLoop
<1>3. ASSUME UNCHANGED <<message, read_ready, write_ready, out>>, pc'["callback"] = pc["callback"],
             timer' = timer, stage' = stage, pc'[u] \in LoopPlaces[stage[u]]
      PROVE  LoopInv'
  BY <1>1, <1>2, <1>3 DEF LoopInv, InStep, allWait
<1>4. ASSUME NEW x \in {"read", "write"}, NEW from, NEW to, lock(u, x, from, to), to # "idle",
             \A k \in Stages : from \in LoopPlaces[k] => to \in LoopPlaces[k]
      PROVE  LoopInv'
  <2>1. /\ pc[u] = from /\ pc'[u] = to /\ pc'["callback"] = pc["callback"]
        /\ UNCHANGED <<timer, message, read_ready, write_ready, out>>
    BY <1>4 DEF lock, goto, buffers
  <2>. QED
    BY <1>1, <1>2, <1>3, <1>4, <2>1
<1>5. CASE waitForMessage(u)
  <2>1. stage[u] = "wait" /\ pc[u] = "wait"
    <3>1. pc[u] = "wait" /\ stage[u] \in Stages
      BY <1>2, <1>5 DEF waitForMessage
    <3>. QED
      BY <1>2, <3>1 DEF LoopPlaces, Stages
  <2>2. /\ pc'["callback"] = pc["callback"]
        /\ UNCHANGED <<timer, message, read_ready, write_ready, out>>
        /\ \/ pc'[u] = "blocked"
           \/ pc'[u] = "idle" /\ timer[u] # "expired" /\ read_ready
           \/ pc'[u] = "idle" /\ u \notin waited'
    BY <1>5 DEF waitForMessage, block, goto, buffers
  <2>3. CASE pc'[u] = "blocked"
    BY <1>1, <1>3, <2>1, <2>2, <2>3 DEF LoopPlaces
  <2>4. CASE pc'[u] = "idle" /\ u \notin waited'
    <3>1. following(u) = "wait"
      BY <2>1, <2>4 DEF following
    <3>2. stage' = stage
      BY <1>1, <1>2, <2>1, <2>4, <3>1
    <3>. QED
      BY <1>3, <2>1, <2>2, <2>4, <3>2 DEF LoopPlaces
  <2>5. CASE pc'[u] = "idle" /\ read_ready
    <3>1. following(u) \in {"wait", "read"}
      BY <2>1 DEF following
    <3>2. stage' = [stage EXCEPT ![u] = following(u)]
      BY <1>1, <2>5
    <3>3. stage' \in [Users -> Stages] /\ stage'[u] \in {"wait", "read"}
      BY <1>2, <3>1, <3>2 DEF Stages
    <3>4. pc'[u] \in LoopPlaces[stage'[u]]
      BY <2>5, <3>3 DEF LoopPlaces
    <3>. QED
      BY <1>1, <1>2, <2>2, <2>5, <3>3, <3>4
         DEF LoopInv, InStep, allWait, Opening, Publishing, Awaiting, CallbackLocations
  <2>. QED
    BY <2>2, <2>3, <2>4, <2>5
<1>6. CASE readInputs(u)
  <2>1. stage[u] = "read"
    <3>1. pc[u] = "readInputs" /\ stage[u] \in Stages
      BY <1>2, <1>6 DEF readInputs
    <3>. QED
      BY <1>2, <3>1 DEF LoopPlaces, Stages
  <2>2. /\ pc'[u] = "idle" /\ pc'["callback"] = pc["callback"]
        /\ UNCHANGED <<timer, message, write_ready, out>>
        /\ ~read_ready'
    BY <1>6 DEF readInputs, goto
  <2>3. following(u) = "write"
    BY <2>1 DEF following
  <2>4. stage' \in [Users -> Stages] /\ stage'[u] = "write"
    BY <1>1, <1>2, <2>2, <2>3 DEF Stages
  <2>5. pc'[u] \in LoopPlaces[stage'[u]]
    BY <2>2, <2>4 DEF LoopPlaces
  <2>. QED
    BY <1>1, <1>2, <2>1, <2>2, <2>4, <2>5
       DEF LoopInv, InStep, allWait, Opening, Publishing, Awaiting, CallbackLocations
<1>7. CASE writeOutputs(u)
  <2>1. stage[u] = "write"
    <3>1. pc[u] = "writeOutputs" /\ stage[u] \in Stages
      BY <1>2, <1>7 DEF writeOutputs
    <3>. QED
      BY <1>2, <3>1 DEF LoopPlaces, Stages
  <2>2. /\ pc'[u] = "idle"
        /\ pc'["callback"] = IF pc["callback"] = "blocked" THEN "lockReadOutputs" ELSE pc["callback"]
        /\ UNCHANGED <<timer, message, read_ready>>
        /\ out'.new
    BY <1>7 DEF writeOutputs, wake, relock
  <2>3. following(u) = "wait"
    BY <2>1 DEF following
  <2>4. stage' \in [Users -> Stages] /\ stage'[u] = "wait"
    BY <1>1, <1>2, <2>2, <2>3 DEF Stages
  <2>5. pc'[u] \in LoopPlaces[stage'[u]]
    BY <2>2, <2>4 DEF LoopPlaces
  <2>. QED
    BY <1>1, <1>2, <2>1, <2>2, <2>4, <2>5
       DEF LoopInv, InStep, allWait, Opening, Publishing, Awaiting, CallbackLocations
<1>8. /\ \A k \in Stages : "lockWait" \in LoopPlaces[k] => "wait" \in LoopPlaces[k]
      /\ \A k \in Stages : "lockReadInputs" \in LoopPlaces[k] => "readInputs" \in LoopPlaces[k]
      /\ \A k \in Stages : "lockWriteOutputs" \in LoopPlaces[k] => "writeOutputs" \in LoopPlaces[k]
  BY DEF Stages, LoopPlaces
<1>. QED
  BY <1>1, <1>4, <1>5, <1>6, <1>7, <1>8 DEF userStep

\* Every step keeps the loop and the messages in step, or disturbs them.
LEMMA LoopInvStep ==
  ASSUME SingleLoop, TypeOK, LoopInv, [LoopNext]_loopVars
  PROVE  LoopInv'
<1>1. CASE \E zero, d \in BOOLEAN : Reject(zero, d) /\ UNCHANGED <<stage, disturbed>>
  <2>1. UNCHANGED <<pc, timer, message, read_ready, write_ready, out, stage, disturbed>>
    BY <1>1 DEF Reject, buffers
  <2>. QED
    BY <2>1 DEF LoopInv, InStep, allWait
<1>2. CASE UNCHANGED loopVars
  BY <1>2 DEF loopVars, vars, buffers, LoopInv, InStep, allWait
<1>. QED
  BY <1>1, <1>2, ReceiveLoop, WakeupLoop, CallLoop, StepLoop, CallbackLoop, Zenon DEF LoopNext

\* A reply takes outputs that the loop wrote after the message it replies to
\* had been published, unless a timeout, an unanswered message, a new session
\* or a call out of order has disturbed the exchange: readOutputs itself only
\* knows that some outputs are ready.
THEOREM OutputsAreNew == SingleLoop => (LoopSpec => []UndisturbedOutputsAreNew)
<1>. SUFFICES ASSUME SingleLoop
              PROVE  LoopSpec => []UndisturbedOutputsAreNew
  OBVIOUS
<1>1. LoopSpec => Spec
  <2>1. LoopInit => Init
    BY DEF LoopInit
  <2>. QED
    BY <2>1, LoopNextIsNext, PTL DEF LoopSpec, Spec
<1>2. LoopInit => LoopInv
  BY LoopInvInit
<1>3. TypeOK /\ LoopInv /\ [LoopNext]_loopVars => LoopInv'
  BY LoopInvStep
<1>4. LoopInv => UndisturbedOutputsAreNew
  BY DEF LoopInv, InStep, Awaiting, UndisturbedOutputsAreNew
<1>. QED
  BY <1>1, <1>2, <1>3, <1>4, TypeCorrect, PTL DEF LoopSpec
=============================================================================
