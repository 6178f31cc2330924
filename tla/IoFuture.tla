------------------------------ MODULE IoFuture ------------------------------
(***************************************************************************)
(* eden/common/utils/IoFuture.cpp: a promise, a timer and an event handler *)
(* that one object has for all calls of wait().  Everything happens in the *)
(* thread of the EventBase, but setException() runs the continuation of    *)
(* the future it fails, and that may call wait() in the middle of wait().  *)
(***************************************************************************)
EXTENDS Naturals, Sequences

CONSTANT MaxWaits   \* bound on the calls of wait()

VARIABLES
  waits,        \* history: what became of the future of each call
  promise,      \* promise_: the call whose future it fulfils, 0 when empty
  suspended,    \* number of calls whose setException() runs a continuation
  timer,        \* isScheduled()
  handler,      \* isHandlerRegistered()
  alive,        \* "yes", "destroyed", or "terminated" by a noexcept function that threw
  eventsFailed  \* history: libevent refused an event

vars == <<waits, promise, suspended, timer, handler, alive, eventsFailed>>

isFulfilled == promise # 0 => waits[promise] # "pending"

Init ==
  /\ waits = <<>> /\ promise = 0 /\ suspended = 0
  /\ timer = FALSE /\ handler = FALSE /\ alive = "yes" /\ eventsFailed = FALSE

\* wait() while the future of an earlier call is pending.
CancelPrevious ==
  /\ alive = "yes" /\ ~isFulfilled
  /\ Len(waits) + suspended < MaxWaits
  /\ waits' = [waits EXCEPT ![promise] = "ECANCELED"]
  /\ suspended' = suspended + 1
  /\ UNCHANGED <<promise, timer, handler, alive, eventsFailed>>

\* A promise that is destroyed unfulfilled breaks (here no continuation calls wait()).
Broken == IF isFulfilled THEN waits ELSE [waits EXCEPT ![promise] = "broken"]

\* scheduleTimeout() and registerHandler() replace what an earlier call has set; the
\* timer survives a call that fails.
Arm(scheduled, registered) ==
  /\ timer' = (timer \/ scheduled)
  /\ handler' = IF scheduled THEN registered ELSE handler
  /\ eventsFailed' = (eventsFailed \/ ~(scheduled /\ registered))

\* The rest of wait().
Install(scheduled, registered) ==
  /\ waits' = Append(Broken, IF scheduled /\ registered THEN "pending" ELSE "EIO")
  /\ promise' = Len(waits) + 1
  /\ Arm(scheduled, registered)

Wait(scheduled, registered) ==
  /\ alive = "yes" /\ isFulfilled
  /\ Len(waits) + suspended < MaxWaits
  /\ Install(scheduled, registered)
  /\ UNCHANGED <<suspended, alive>>

\* The continuation has returned.
Resume(scheduled, registered) ==
  /\ suspended > 0
  /\ suspended' = suspended - 1
  /\ Install(scheduled, registered)
  /\ UNCHANGED alive

\* setValue() and setException() throw when the promise is fulfilled.
Fulfil(outcome) ==
  IF isFulfilled THEN alive' = "terminated" /\ UNCHANGED waits
  ELSE waits' = [waits EXCEPT ![promise] = outcome] /\ UNCHANGED alive

\* Mutant of DisarmOther: the other of the two events stays.
DisarmOther_Neither(fired) == IF fired = "handler" THEN handler' = FALSE /\ UNCHANGED timer
                              ELSE timer' = FALSE /\ UNCHANGED handler
\* cancelTimeout() and unregisterHandler(); the event that has fired is gone.
DisarmOther(fired) == timer' = FALSE /\ handler' = FALSE

handlerReady ==
  /\ alive = "yes" /\ suspended = 0 /\ handler
  /\ DisarmOther("handler") /\ Fulfil("ready")
  /\ UNCHANGED <<promise, suspended, eventsFailed>>

timeoutExpired ==
  /\ alive = "yes" /\ suspended = 0 /\ timer
  /\ DisarmOther("timer") /\ Fulfil("ETIMEDOUT")
  /\ UNCHANGED <<promise, suspended, eventsFailed>>

\* By its owner, or by waitForIO()'s ensure() when the future is done.
Destroy ==
  /\ alive = "yes" /\ suspended = 0
  /\ alive' = "destroyed" /\ waits' = Broken
  /\ timer' = FALSE /\ handler' = FALSE
  /\ UNCHANGED <<promise, suspended, eventsFailed>>

Next ==
  \/ CancelPrevious
  \/ \E scheduled, registered \in BOOLEAN : Wait(scheduled, registered) \/ Resume(scheduled, registered)
  \/ handlerReady \/ timeoutExpired \/ Destroy

Spec == Init /\ [][Next]_vars

\* IoFuture.h:52-62: every future but that of the last wait() is over, also when waits are
\* nested; that one waits for two events which are both armed; and no event is armed for
\* a promise that is fulfilled, which would end the program.  The exception is the code's: where libevent refuses
\* an event, the other one stays armed (IoFuture.cpp:50-62).
WaitsSettle ==
  /\ \A n \in DOMAIN waits : waits[n] = "pending" => n = promise
  /\ ~isFulfilled => handler /\ timer
  /\ ~eventsFailed => alive # "terminated" /\ (handler \/ timer => ~isFulfilled \/ suspended > 0)
=============================================================================
