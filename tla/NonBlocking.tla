----------------------------- MODULE NonBlocking -----------------------------
(***************************************************************************)
(* The non-blocking Application decorator, core/nonblocking.go.           *)
(*                                                                         *)
(* BlockConfirmed and BlockDelivered append an event to nb.events under    *)
(* the condition variable's mutex L and Broadcast.  One worker goroutine   *)
(* (run) waits on the condition while the queue is empty, pops the head   *)
(* and running.Add(1) under L, calls the application outside L, then       *)
(* running.Done() and Broadcast.  wait() takes L, waits on the condition   *)
(* while the queue is non-empty, then calls running.Wait() still holding   *)
(* L, and unlocks on return.                                               *)
(*                                                                         *)
(* Every critical section that does not block is one step, taken only     *)
(* while L is free; cond.Wait releases L and parks the thread until a      *)
(* Broadcast, after which it must take L again.  The only section that     *)
(* keeps L across steps is wait()'s running.Wait().                        *)
(***************************************************************************)
EXTENDS Integers, Sequences, FiniteSets

CONSTANTS
    Submitters,  \* goroutines calling BlockConfirmed / BlockDelivered
    MaxEvents    \* bound on the events submitted in a behaviour

ASSUME MaxEvents \in Nat \ {0} /\ Submitters # {}

\* The two event types addEvent is called with; run's default branch
\* ("Unknown event") is unreachable from this file's callers.
Kinds == {"BlockConfirmed", "BlockDelivered"}

Waiter == "waiter"
Free   == "free"

Events == [kind : Kinds, id : 1..MaxEvents]

VARIABLES
    events,      \* nb.events, the queue
    lockHolder,  \* who holds eventsChange.L across steps, or Free
    running,     \* nb.running, the WaitGroup counter
    workerPc,    \* "loop", "parked" (in cond.Wait), "dispatch", "done"
    current,     \* the event the worker popped
    waiterPc,    \* "idle", "loop", "parked", "wgWait"
    subPc,       \* per submitter: "idle" or "adding"
    subEvent,    \* per submitter: the event it is adding
    submitted,   \* history: events in the order addEvent appended them
    delivered    \* history: events in the order the application got them

vars == <<events, lockHolder, running, workerPc, current, waiterPc, subPc,
          subEvent, submitted, delivered>>

NoEvent == [kind |-> "BlockConfirmed", id |-> 0]

\* eventsChange.Broadcast(): every goroutine parked in cond.Wait wakes and
\* goes back to taking L.
WakeWorker == IF workerPc = "parked" THEN "loop" ELSE workerPc
WakeWaiter == IF waiterPc = "parked" THEN "loop" ELSE waiterPc

-----------------------------------------------------------------------------

Init ==
    /\ events = << >>
    /\ lockHolder = Free
    /\ running = 0
    /\ workerPc = "loop"
    /\ current = NoEvent
    /\ waiterPc = "idle"
    /\ subPc = [s \in Submitters |-> "idle"]
    /\ subEvent = [s \in Submitters |-> NoEvent]
    /\ submitted = << >>
    /\ delivered = << >>

\* BlockConfirmed(block) / BlockDelivered(hash, position, rand): the caller
\* builds the event and calls addEvent.
Submit(s, kind) ==
    /\ subPc[s] = "idle"
    /\ Len(submitted) + Cardinality({x \in Submitters : subPc[x] = "adding"}) < MaxEvents
    /\ subPc' = [subPc EXCEPT ![s] = "adding"]
    /\ subEvent' = [subEvent EXCEPT ![s] = [kind |-> kind, id |-> 0]]
    /\ UNCHANGED <<events, lockHolder, running, workerPc, current, waiterPc,
                   submitted, delivered>>

\* Mutant of AddEvent: the event is appended without a Broadcast.
AddEventNoBroadcast(s) ==
    /\ subPc[s] = "adding"
    /\ lockHolder = Free
    /\ LET e == [subEvent[s] EXCEPT !.id = Len(submitted) + 1]
       IN  /\ events' = Append(events, e)
           /\ submitted' = Append(submitted, e)
    /\ subPc' = [subPc EXCEPT ![s] = "idle"]
    /\ UNCHANGED <<lockHolder, running, current, subEvent, delivered, workerPc,
                   waiterPc>>

\* addEvent: lock L, append, Broadcast, unlock.
AddEvent(s) ==
    /\ subPc[s] = "adding"
    /\ lockHolder = Free
    /\ LET e == [subEvent[s] EXCEPT !.id = Len(submitted) + 1]
       IN  /\ events' = Append(events, e)
           /\ submitted' = Append(submitted, e)
    /\ subPc' = [subPc EXCEPT ![s] = "idle"]
    /\ workerPc' = WakeWorker
    /\ waiterPc' = WakeWaiter
    /\ UNCHANGED <<lockHolder, running, current, subEvent, delivered>>

\* Mutant of WorkerTake: the worker pops the newest event.
WorkerTakeLast ==
    /\ workerPc = "loop"
    /\ lockHolder = Free
    /\ IF events = << >>
         THEN /\ workerPc' = "parked"
              /\ UNCHANGED <<events, running, current>>
         ELSE /\ current' = events[Len(events)]
              /\ events' = SubSeq(events, 1, Len(events) - 1)
              /\ running' = running + 1
              /\ workerPc' = "dispatch"
    /\ UNCHANGED <<lockHolder, waiterPc, subPc, subEvent, submitted, delivered>>

\* run, the locked block: with L held, wait on the condition while the queue
\* is empty (cond.Wait releases L), else pop the head and running.Add(1).
WorkerTake ==
    /\ workerPc = "loop"
    /\ lockHolder = Free
    /\ IF events = << >>
         THEN /\ workerPc' = "parked"
              /\ UNCHANGED <<events, running, current>>
         ELSE /\ current' = Head(events)
              /\ events' = Tail(events)
              /\ running' = running + 1
              /\ workerPc' = "dispatch"
    /\ UNCHANGED <<lockHolder, waiterPc, subPc, subEvent, submitted, delivered>>

\* run, outside L: app.BlockConfirmed or app.BlockDelivered by event type.
WorkerDispatch ==
    /\ workerPc = "dispatch"
    /\ delivered' = Append(delivered, current)
    /\ workerPc' = "done"
    /\ UNCHANGED <<events, lockHolder, running, current, waiterPc, subPc,
                   subEvent, submitted>>

\* Mutant of WorkerDone: the Broadcast without running.Done().
WorkerDoneNoDone ==
    /\ workerPc = "done"
    /\ workerPc' = "loop"
    /\ waiterPc' = WakeWaiter
    /\ UNCHANGED <<events, lockHolder, running, current, subPc, subEvent,
                   submitted, delivered>>

\* Mutant of WorkerDone: running.Done() without the Broadcast.
WorkerDoneNoBroadcast ==
    /\ workerPc = "done"
    /\ running' = running - 1
    /\ workerPc' = "loop"
    /\ UNCHANGED <<events, lockHolder, current, waiterPc, subPc, subEvent,
                   submitted, delivered>>

\* run: running.Done(), then Broadcast, then the next iteration.
WorkerDone ==
    /\ workerPc = "done"
    /\ running' = running - 1
    /\ workerPc' = "loop"
    /\ waiterPc' = WakeWaiter
    /\ UNCHANGED <<events, lockHolder, current, subPc, subEvent, submitted,
                   delivered>>

\* A caller (the consensus core shutting down) calls wait().
WaitCall ==
    /\ waiterPc = "idle"
    /\ waiterPc' = "loop"
    /\ UNCHANGED <<events, lockHolder, running, workerPc, current, subPc,
                   subEvent, submitted, delivered>>

\* Mutant of WaitCheck: wait() does not wait for the queue to empty.
WaitCheckNoLoop ==
    /\ waiterPc = "loop"
    /\ lockHolder = Free
    /\ lockHolder' = Waiter
    /\ waiterPc' = "wgWait"
    /\ UNCHANGED <<events, running, workerPc, current, subPc, subEvent,
                   submitted, delivered>>

\* wait(), with L taken: cond.Wait while the queue is non-empty (releasing
\* L), otherwise go on to running.Wait() keeping L.
WaitCheck ==
    /\ waiterPc = "loop"
    /\ lockHolder = Free
    /\ IF events # << >>
         THEN /\ waiterPc' = "parked"
              /\ UNCHANGED lockHolder
         ELSE /\ lockHolder' = Waiter
              /\ waiterPc' = "wgWait"
    /\ UNCHANGED <<events, running, workerPc, current, subPc, subEvent,
                   submitted, delivered>>

\* wait(): running.Wait() returns once the counter is zero; the deferred
\* unlock releases L.
WaitReturn ==
    /\ waiterPc = "wgWait"
    /\ running = 0
    /\ lockHolder' = Free
    /\ waiterPc' = "idle"
    /\ UNCHANGED <<events, running, workerPc, current, subPc, subEvent,
                   submitted, delivered>>

Next ==
    \/ \E s \in Submitters, k \in Kinds : Submit(s, k)
    \/ \E s \in Submitters : AddEvent(s)
    \/ WorkerTake \/ WorkerDispatch \/ WorkerDone
    \/ WaitCall \/ WaitCheck \/ WaitReturn

\* The worker is a dedicated goroutine and is scheduled; L is a sync.Mutex,
\* whose starvation mode hands it to a goroutine that keeps asking for it,
\* hence strong fairness for the steps that take L.  Callers need not call.
Fairness ==
    /\ SF_vars(WorkerTake) /\ WF_vars(WorkerDispatch) /\ WF_vars(WorkerDone)
    /\ SF_vars(WaitCheck) /\ WF_vars(WaitReturn)
    /\ \A s \in Submitters : SF_vars(AddEvent(s))

Spec == Init /\ [][Next]_vars /\ Fairness

-----------------------------------------------------------------------------
(* Properties.                                                             *)

TypeOK ==
    /\ events \in Seq(Events)
    /\ lockHolder \in {Free, Waiter}
    /\ running \in 0..1
    /\ workerPc \in {"loop", "parked", "dispatch", "done"}
    /\ waiterPc \in {"idle", "loop", "parked", "wgWait"}
    /\ subPc \in [Submitters -> {"idle", "adding"}]
    /\ submitted \in Seq(Events) /\ delivered \in Seq(Events)

\* The application receives the events in exactly the order they were
\* submitted, each once: what it has received is a prefix of what was
\* submitted, and what is still queued or in flight is the rest.
DeliveredInOrder ==
    submitted = delivered \o (IF workerPc = "dispatch" THEN <<current>> ELSE << >>)
                          \o events

\* wait() returns only when every event submitted so far, queued or in the
\* middle of its callback when wait() was called, has reached the
\* application.
WaitDrains ==
    [][waiterPc = "wgWait" /\ waiterPc' = "idle" => delivered = submitted]_vars

\* Every submitted event eventually reaches the application.
EventuallyDelivered ==
    \A i \in 1..MaxEvents : Len(submitted) >= i ~> Len(delivered) >= i

\* A call of wait() eventually returns.
WaitReturns ==
    waiterPc = "loop" ~> waiterPc = "idle"

\* The spec: submitting never blocks the caller.  A submitter waiting for L
\* must never be made to wait for an application callback, i.e. L is never
\* held while a callback is in flight.
SubmitNeverWaitsOnCallback ==
    ~(/\ \E s \in Submitters : subPc[s] = "adding"
      /\ lockHolder # Free
      /\ workerPc \in {"dispatch", "done"})

=============================================================================
