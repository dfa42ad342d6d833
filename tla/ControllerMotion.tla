-------------------------- MODULE ControllerMotion --------------------------
(***************************************************************************)
(* EGMControllerInterface::ControllerMotion with its mutexes and condition *)
(* variables, driven by the callback of the interface and by any number of *)
(* threads that call waitForMessage, read and write in any order.          *)
(*                                                                         *)
(* A thread locks a mutex in one step; the body that it protects and the   *)
(* unlock are the next one.  The contents of the buffers are abstracted as *)
(* in MotionExchange, which this module implements.                        *)
(***************************************************************************)
CONSTANT Users  \* threads that call the interface

ASSUME UsersAssumption == Users \cap {"callback", "nobody"} = {}

Threads == Users \cup {"callback"}
Nobody == "nobody"

VARIABLES
  pc,          \* where each thread is
  owner,       \* owner of read_mutex_ and of write_mutex_
  timer,       \* of a waiting call: "none" (waits forever), "running", "expired"
  first_call,  \* InputContainer::first_call_
  message,     \* the message being processed: isFirstMessage() and statesOk()
  demo,        \* configuration_.active.use_demo_outputs
  current,     \* history of outputs_.current of the interface: prepared from
               \* the first message of this session; it holds no outputs of
               \* an earlier session
  read_ready,  \* read_data_ready_
  write_ready, \* write_data_ready_
  unread,      \* history: users that have not read inputs_ yet
  out,         \* history of outputs_: written since initialize; written
               \* since writeInputs
  waited       \* history: users whose last waitForMessage returned true, and
               \* who have not read since

buffers == <<read_ready, write_ready, unread, out, waited>>
vars == <<pc, owner, timer, first_call, message, demo, current, buffers>>

Init ==
  /\ pc = [t \in Threads |-> "idle"]
  /\ owner = [x \in {"read", "write"} |-> Nobody]
  /\ timer = [t \in Threads |-> "none"]
  /\ first_call = TRUE
  /\ message = [first |-> FALSE, ok |-> FALSE]
  /\ demo \in BOOLEAN
  /\ current = [prepared |-> FALSE, session |-> FALSE]
  /\ read_ready = FALSE
  /\ write_ready = FALSE
  /\ unread = {}
  /\ out = [session |-> FALSE, new |-> FALSE]
  /\ waited = {}

-----------------------------------------------------------------------------
(***************************************************************************)
(* Mutexes and condition variables (boost::thread).                        *)
(***************************************************************************)
goto(t, l) == pc' = [pc EXCEPT ![t] = l]

lock(t, mutex, from, to) ==
  /\ pc[t] = from
  /\ owner[mutex] = Nobody
  /\ owner' = [owner EXCEPT ![mutex] = t]
  /\ goto(t, to)
  /\ UNCHANGED <<timer, first_call, message, demo, current, buffers>>

unlock(mutex) == owner' = [owner EXCEPT ![mutex] = Nobody]

\* Where a thread in "blocked" goes on when it is woken: it locks again.
relock(t) == IF t = "callback" THEN "lockReadOutputs" ELSE "lockWait"

\* notify_all moves every waiter out of the condition variable.
wake(S, t, l) ==
  pc' = [x \in Threads |-> IF x = t THEN l
                           ELSE IF x \in S /\ pc[x] = "blocked" THEN relock(x)
                           ELSE pc[x]]

\* A wait may end without a notification.
SpuriousWakeup(t) ==
  /\ pc[t] = "blocked"
  /\ goto(t, relock(t))
  /\ UNCHANGED <<owner, timer, first_call, message, demo, current, buffers>>

\* A timed wait may end because its time is over; timed_out becomes true.
Timeout(t) ==
  /\ pc[t] = "blocked"
  /\ timer[t] = "running"
  /\ timer' = [timer EXCEPT ![t] = "expired"]
  /\ goto(t, relock(t))
  /\ UNCHANGED <<owner, first_call, message, demo, current, buffers>>

\* The wait inside the loops of waitForMessage and readOutputs.
block(t, mutex) ==
  /\ goto(t, "blocked")
  /\ unlock(mutex)
  /\ UNCHANGED <<timer, first_call, message, demo, current, buffers>>

(***************************************************************************)
(* EGMControllerInterface::callback.                                       *)
(***************************************************************************)
afterInitialize(d) == IF d THEN "reply" ELSE "lockWriteInputs"

isFirst(seqno_zero) == first_call \/ seqno_zero

\* A message is parsed and extracted; a first one applies a configuration
\* update, and the outputs are prepared from its feedback.
Receive(seqno_zero, ok, use_demo_outputs) ==
  /\ pc["callback"] = "idle"
  /\ ~isFirst(seqno_zero) => use_demo_outputs = demo
  /\ first_call' = FALSE
  /\ message' = [first |-> isFirst(seqno_zero), ok |-> ok]
  /\ demo' = use_demo_outputs
  /\ current' = IF isFirst(seqno_zero) THEN [prepared |-> TRUE, session |-> TRUE] ELSE current
  /\ goto("callback", IF isFirst(seqno_zero) THEN "lockInitialize"
                      ELSE afterInitialize(use_demo_outputs))
  /\ UNCHANGED <<owner, timer, buffers>>

\* A message is parsed, but not extracted: the callback returns an empty reply.
\* A first one is used up all the same and applies a configuration update, and
\* the outputs stay those of the session before.
Reject(seqno_zero, use_demo_outputs) ==
  /\ pc["callback"] = "idle"
  /\ ~isFirst(seqno_zero) => use_demo_outputs = demo
  /\ first_call' = FALSE
  /\ demo' = use_demo_outputs
  /\ current' = IF isFirst(seqno_zero) THEN [prepared |-> FALSE, session |-> FALSE] ELSE current
  /\ UNCHANGED <<pc, owner, timer, message, buffers>>

\* Mutant of initialize: the outputs of the last session stay ready.
initializeReadOnly ==
  /\ pc["callback"] = "initialize"
  /\ read_ready' = FALSE
  /\ out' = [out EXCEPT !.session = FALSE]
  /\ owner' = [x \in {"read", "write"} |-> Nobody]
  /\ goto("callback", afterInitialize(demo))
  /\ UNCHANGED <<timer, first_call, message, demo, current, write_ready, unread, waited>>

initialize ==
  /\ pc["callback"] = "initialize"
  /\ read_ready' = FALSE
  /\ write_ready' = FALSE
  /\ out' = [out EXCEPT !.session = FALSE]
  /\ owner' = [x \in {"read", "write"} |-> Nobody]
  /\ goto("callback", afterInitialize(demo))
  /\ UNCHANGED <<timer, first_call, message, demo, current, unread, waited>>

\* Mutant of writeInputs: the waiting users are not notified.
writeInputsSilently ==
  /\ pc["callback"] = "writeInputs"
  /\ read_ready' = TRUE
  /\ unread' = Users
  /\ out' = [out EXCEPT !.new = FALSE]
  /\ timer' = [timer EXCEPT !["callback"] = "running"]
  /\ goto("callback", IF message.first \/ message.ok THEN "lockReadOutputs" ELSE "reply")
  /\ unlock("read")
  /\ UNCHANGED <<first_call, message, demo, current, write_ready, waited>>

writeInputs ==
  /\ pc["callback"] = "writeInputs"
  /\ read_ready' = TRUE
  /\ unread' = Users
  /\ out' = [out EXCEPT !.new = FALSE]
  /\ timer' = [timer EXCEPT !["callback"] = "running"]
  /\ wake(Users, "callback", IF message.first \/ message.ok THEN "lockReadOutputs" ELSE "reply")
  /\ unlock("read")
  /\ UNCHANGED <<first_call, message, demo, current, write_ready, waited>>

\* Mutant of readOutputs: a wait that timed out starts over.
readOutputsPatiently ==
  /\ pc["callback"] = "readOutputs"
  /\ \/ /\ ~write_ready
        /\ block("callback", "write")
     \/ /\ write_ready
        /\ write_ready' = FALSE
        /\ current' = [current EXCEPT !.session = out.session]
        /\ goto("callback", "reply")
        /\ unlock("write")
        /\ UNCHANGED <<timer, first_call, message, demo, read_ready, unread, out, waited>>

\* Mutant of readOutputs: the outputs are taken although the wait timed out.
readOutputsLate ==
  /\ pc["callback"] = "readOutputs"
  /\ \/ /\ ~write_ready /\ timer["callback"] # "expired"
        /\ block("callback", "write")
     \/ /\ write_ready \/ timer["callback"] = "expired"
        /\ write_ready' = FALSE
        /\ current' = [current EXCEPT !.session = out.session]
        /\ goto("callback", "reply")
        /\ unlock("write")
        /\ UNCHANGED <<timer, first_call, message, demo, read_ready, unread, out, waited>>

\* The outputs are taken only if the last wait did not time out, even if they
\* have become ready in the meantime.
readOutputs ==
  /\ pc["callback"] = "readOutputs"
  /\ \/ /\ ~write_ready /\ timer["callback"] # "expired"
        /\ block("callback", "write")
     \/ /\ write_ready \/ timer["callback"] = "expired"
        /\ IF timer["callback"] # "expired"
             THEN /\ write_ready' = FALSE
                  /\ current' = [current EXCEPT !.session = out.session]
             ELSE UNCHANGED <<write_ready, current>>
        /\ goto("callback", "reply")
        /\ unlock("write")
        /\ UNCHANGED <<timer, first_call, message, demo, read_ready, unread, out, waited>>

\* The log entry, constructReply and updatePrevious.
reply ==
  /\ pc["callback"] = "reply"
  /\ goto("callback", "idle")
  /\ UNCHANGED <<owner, timer, first_call, message, demo, current, buffers>>

\* Mutant of callbackStep: initialize locks the mutex of the inputs only.
callbackStepReadLock ==
  \/ lock("callback", "read", "lockInitialize", "initialize")
  \/ initialize
  \/ lock("callback", "read", "lockWriteInputs", "writeInputs")
  \/ writeInputs
  \/ lock("callback", "write", "lockReadOutputs", "readOutputs")
  \/ readOutputs
  \/ reply

callbackStep ==
  \/ lock("callback", "read", "lockInitialize", "lockInitializeWrite")
  \/ lock("callback", "write", "lockInitializeWrite", "initialize")
  \/ initialize
  \/ lock("callback", "read", "lockWriteInputs", "writeInputs")
  \/ writeInputs
  \/ lock("callback", "write", "lockReadOutputs", "readOutputs")
  \/ readOutputs
  \/ reply

(***************************************************************************)
(* The calls of the control loop.                                          *)
(***************************************************************************)
Call(u, l, timeout) ==
  /\ pc[u] = "idle"
  /\ goto(u, l)
  /\ timer' = [timer EXCEPT ![u] = timeout]
  /\ UNCHANGED <<owner, first_call, message, demo, current, buffers>>

\* Mutant of waitForMessage: a wait that is woken succeeds, whatever woke it.
waitForMessageOnce(u) ==
  /\ pc[u] = "wait"
  /\ \/ /\ ~read_ready /\ timer[u] = "none"
        /\ block(u, "read")
     \/ /\ read_ready \/ timer[u] # "none"
        /\ waited' = waited \cup {u}
        /\ goto(u, "idle")
        /\ unlock("read")
        /\ UNCHANGED <<timer, first_call, message, demo, current, read_ready, write_ready, unread,
                       out>>

waitForMessage(u) ==
  /\ pc[u] = "wait"
  /\ \/ /\ ~read_ready /\ timer[u] # "expired"
        /\ block(u, "read")
     \/ /\ read_ready \/ timer[u] = "expired"
        /\ waited' = IF timer[u] # "expired" THEN waited \cup {u} ELSE waited \ {u}
        /\ goto(u, "idle")
        /\ unlock("read")
        /\ UNCHANGED <<timer, first_call, message, demo, current, read_ready, write_ready, unread,
                       out>>

readInputs(u) ==
  /\ pc[u] = "readInputs"
  /\ read_ready' = FALSE
  /\ unread' = unread \ {u}
  /\ waited' = waited \ {u}
  /\ goto(u, "idle")
  /\ unlock("read")
  /\ UNCHANGED <<timer, first_call, message, demo, current, write_ready, out>>

writeOutputs(u) ==
  /\ pc[u] = "writeOutputs"
  /\ write_ready' = TRUE
  /\ out' = [session |-> TRUE, new |-> TRUE]
  /\ wake({"callback"}, u, "idle")
  /\ unlock("write")
  /\ UNCHANGED <<timer, first_call, message, demo, current, read_ready, unread, waited>>

userStep(u) ==
  \/ lock(u, "read", "lockWait", "wait")
  \/ waitForMessage(u)
  \/ lock(u, "read", "lockReadInputs", "readInputs")
  \/ readInputs(u)
  \/ lock(u, "write", "lockWriteOutputs", "writeOutputs")
  \/ writeOutputs(u)

Calls == {<<"lockWait", "none">>, <<"lockWait", "running">>, <<"lockReadInputs", "none">>,
          <<"lockWriteOutputs", "none">>}

Next ==
  \/ \E zero, ok, d \in BOOLEAN : Receive(zero, ok, d)
  \/ \E zero, d \in BOOLEAN : Reject(zero, d)
  \/ callbackStep
  \/ \E u \in Users : userStep(u) \/ \E c \in Calls : Call(u, c[1], c[2])
  \/ \E t \in Threads : SpuriousWakeup(t) \/ Timeout(t)

Spec == Init /\ [][Next]_vars

-----------------------------------------------------------------------------
(***************************************************************************)
(* Properties.                                                             *)
(***************************************************************************)

CallbackLocations ==
  {"idle", "lockInitialize", "lockInitializeWrite", "initialize", "lockWriteInputs",
   "writeInputs", "lockReadOutputs", "readOutputs", "blocked", "reply"}
UserLocations ==
  {"idle", "lockWait", "wait", "blocked", "lockReadInputs", "readInputs",
   "lockWriteOutputs", "writeOutputs"}

\* Every variable has the type of the member it stands for, and the callback
\* and the users stay in their own code.
TypeOK ==
  /\ pc \in [Threads -> CallbackLocations \cup UserLocations]
  /\ pc["callback"] \in CallbackLocations
  /\ \A u \in Users : pc[u] \in UserLocations
  /\ owner \in [{"read", "write"} -> Threads \cup {Nobody}]
  /\ timer \in [Threads -> {"none", "running", "expired"}]
  /\ first_call \in BOOLEAN
  /\ message \in [first : BOOLEAN, ok : BOOLEAN]
  /\ demo \in BOOLEAN
  /\ current \in [prepared : BOOLEAN, session : BOOLEAN]
  /\ read_ready \in BOOLEAN
  /\ write_ready \in BOOLEAN
  /\ unread \in SUBSET Users
  /\ out \in [session : BOOLEAN, new : BOOLEAN]
  /\ waited \in SUBSET Users

\* The locations in which a thread owns a mutex.
Holds ==
  [read  |-> {"lockInitializeWrite", "initialize", "writeInputs", "wait", "readInputs"},
   write |-> {"initialize", "readOutputs", "writeOutputs"}]

\* Mutual exclusion: the data of each direction is accessed by one thread at a
\* time, the one that owns its mutex.
MutualExclusion ==
  \A x \in {"read", "write"}, t \in Threads : pc[t] \in Holds[x] <=> owner[x] = t

\* No notification is missed: a thread that is blocked in waitForMessage or in
\* readOutputs has nothing to wait for but the next write.
NoMissedNotification ==
  /\ \A u \in Users : pc[u] = "blocked" => ~read_ready
  /\ pc["callback"] = "blocked" => ~write_ready

\* In a session whose first message could be extracted, every reply is built
\* from outputs of that session: those prepared from its first message, or those
\* that the control loop wrote since initialize.  What it wrote too late for the
\* last message of the session before is not sent, although it is never taken.
\* (An output may be sent again, for a message that is not ok or times out.)
RepliesAreOfSession ==
  pc["callback"] = "reply" /\ current.prepared => current.session

\* A waitForMessage that returned true is followed by a read of inputs that
\* this thread has not read before, also if messages and new sessions arrive,
\* or other threads read, in between.
WaitGivesNewInputs == waited \subseteq unread

(***************************************************************************)
(* The calls implement the atomic ones of MotionExchange.                  *)
(***************************************************************************)
phaseOf(l) ==
  CASE l \in {"lockInitialize", "lockInitializeWrite", "initialize"} -> "initialize"
    [] l \in {"lockWriteInputs", "writeInputs"} -> "inputs"
    [] l \in {"lockReadOutputs", "readOutputs", "blocked"} -> "outputs"
    [] l \in {"idle", "reply"} -> l

callOf(l, timeout) ==
  CASE l = "idle" -> "none"
    [] l \in {"lockWait", "wait", "blocked"} -> IF timeout = "none" THEN "wait" ELSE "timedWait"
    [] l \in {"lockReadInputs", "readInputs"} -> "read"
    [] l \in {"lockWriteOutputs", "writeOutputs"} -> "write"

Exchange == INSTANCE MotionExchange
              WITH phase <- phaseOf(pc["callback"]),
                   call <- [u \in Users |-> callOf(pc[u], timer[u])]

\* Locks, waits, wakeups and timeouts are invisible: every call behaves as one
\* atomic step that a waiting caller takes only when its data is ready or its
\* time is over.
ImplementsExchange == Exchange!Spec
=============================================================================
