------------------------------ MODULE EventBus ------------------------------
(***************************************************************************)
(* The publish/subscribe bus (internal/eventbus/bus.go) for one event      *)
(* type.  Publish copies the handlers of the type under the read lock and  *)
(* then works through the copy: a synchronous handler runs on the          *)
(* publisher's goroutine, an asynchronous one is sent to the queue of the  *)
(* single worker, or dropped when the queue is full.                       *)
(*                                                                         *)
(* The handlers are kept in a Go map, whose iteration order is not         *)
(* defined: the publisher takes the copied entries in any order.  Running  *)
(* a handler is one step; a panic in it is recovered (runOne), so it makes *)
(* no difference here.                                                     *)
(*                                                                         *)
(* copied is a history variable: the entries that the publications have    *)
(* copied.  A queue that is read destructively says nothing of what was    *)
(* ever put on it.                                                         *)
(***************************************************************************)
EXTENDS Naturals, Sequences, SequencesExt

CONSTANTS
    Publishers,   \* goroutines that publish
    Events,       \* publications, each made once
    MaxSubs,      \* bound on subscriptions
    QueueCap,     \* capacity of asyncCh (256)
    NoEvent

ASSUME BusConstants ==
    /\ MaxSubs \in Nat
    /\ QueueCap \in Nat
    /\ NoEvent \notin Events

VARIABLES
    handlers,   \* ids registered now
    async,      \* id -> is it asynchronous; its domain is 1..nextID
    current,    \* publisher -> the event it is publishing, or NoEvent
    todo,       \* publisher -> copied entries it has not worked through
    published,  \* events published so far
    queue,      \* asyncCh
    worker,     \* "none", "run", "drain" (it has seen the stop), "exited"
    stop,       \* "no", "waiting" (in asyncWG.Wait), "done": the first Stop
    handled,    \* <<event, id>>: the handler has run
    dropped,    \* <<event, id>>: logged as dropped
    copied      \* history: <<event, id>>: the publication copied the handler

busVars == <<handlers, async, current, todo, published, queue, worker, stop, handled, dropped,
             copied>>
publication == <<current, todo, published, copied>>
registry == <<handlers, async>>

nextID == Len(async)
Ids == 1..MaxSubs
Sync(i) == ~async[i]

BusTypes ==
    /\ async \in Seq(BOOLEAN) /\ nextID <= MaxSubs
    /\ handlers \subseteq 1..nextID
    /\ current \in [Publishers -> Events \cup {NoEvent}]
    /\ todo \in [Publishers -> SUBSET Ids]
    /\ published \subseteq Events
    /\ queue \in Seq(Events \X Ids) /\ Len(queue) <= QueueCap
    /\ worker \in {"none", "run", "drain", "exited"}
    /\ stop \in {"no", "waiting", "done"}
    /\ handled \subseteq Events \X Ids
    /\ dropped \subseteq Events \X Ids
    /\ copied \subseteq Events \X Ids

BusInit ==
    /\ handlers = {} /\ async = <<>>
    /\ current = [p \in Publishers |-> NoEvent]
    /\ todo = [p \in Publishers |-> {}]
    /\ published = {}
    /\ queue = <<>>
    /\ worker = "none"
    /\ stop = "no"
    /\ handled = {} /\ dropped = {} /\ copied = {}

-----------------------------------------------------------------------------
\* register: the next id, and for an asynchronous handler ensureAsync.
Subscribe(a) ==
    /\ nextID < MaxSubs
    /\ async' = Append(async, a)
    /\ handlers' = handlers \cup {nextID + 1}
    /\ worker' = IF a /\ worker = "none" THEN "run" ELSE worker
    /\ UNCHANGED <<publication, queue, stop, handled, dropped>>

Cancel(i) ==
    /\ i \in handlers
    /\ handlers' = handlers \ {i}
    /\ UNCHANGED <<async, publication, queue, worker, stop, handled, dropped>>

\* Publish, up to the unlock.
Publish(p, e) ==
    /\ current[p] = NoEvent
    /\ e \notin published
    /\ published' = published \cup {e}
    /\ current' = [current EXCEPT ![p] = e]
    /\ todo' = [todo EXCEPT ![p] = handlers]
    /\ copied' = copied \cup {<<e, i>> : i \in handlers}
    /\ UNCHANGED <<registry, queue, worker, stop, handled, dropped>>

RunSync(p, i) ==
    /\ i \in todo[p]
    /\ Sync(i)
    /\ handled' = handled \cup {<<current[p], i>>}
    /\ todo' = [todo EXCEPT ![p] = @ \ {i}]
    /\ UNCHANGED <<registry, current, published, copied, queue, worker, stop, dropped>>

\* Mutant: a full queue swallows the event.
DispatchAsyncUnlogged(p, i) ==
    /\ i \in todo[p]
    /\ ~Sync(i)
    /\ queue' = IF Len(queue) < QueueCap THEN Append(queue, <<current[p], i>>) ELSE queue
    /\ todo' = [todo EXCEPT ![p] = @ \ {i}]
    /\ UNCHANGED <<registry, current, published, copied, worker, stop, handled, dropped>>

\* dispatchAsync: a send that never waits.
DispatchAsync(p, i) ==
    /\ i \in todo[p]
    /\ ~Sync(i)
    /\ IF Len(queue) < QueueCap
       THEN queue' = Append(queue, <<current[p], i>>) /\ UNCHANGED dropped
       ELSE dropped' = dropped \cup {<<current[p], i>>} /\ UNCHANGED queue
    /\ todo' = [todo EXCEPT ![p] = @ \ {i}]
    /\ UNCHANGED <<registry, current, published, copied, worker, stop, handled>>

PublishReturn(p) ==
    /\ current[p] # NoEvent
    /\ todo[p] = {}
    /\ current' = [current EXCEPT ![p] = NoEvent]
    /\ UNCHANGED <<registry, todo, published, copied, queue, worker, stop, handled, dropped>>

-----------------------------------------------------------------------------
(* runAsync and Stop.                                                      *)

\* The worker receives, in its main loop or while draining, and runs the
\* handler.  Between a stop and a queued event select chooses either.
WorkerTake ==
    /\ worker \in {"run", "drain"}
    /\ queue # <<>>
    /\ handled' = handled \cup {Head(queue)}
    /\ queue' = Tail(queue)
    /\ UNCHANGED <<registry, publication, worker, stop, dropped>>

\* Mutant: the worker returns as soon as it sees the stop.
WorkerSeesStopAndReturns ==
    /\ worker = "run"
    /\ stop = "waiting"
    /\ worker' = "exited"
    /\ UNCHANGED <<registry, publication, queue, stop, handled, dropped>>

WorkerSeesStop ==
    /\ worker = "run"
    /\ stop = "waiting"
    /\ worker' = "drain"
    /\ UNCHANGED <<registry, publication, queue, stop, handled, dropped>>

WorkerExit ==
    /\ worker = "drain"
    /\ queue = <<>>
    /\ worker' = "exited"
    /\ UNCHANGED <<registry, publication, queue, stop, handled, dropped>>

\* The first Stop; asyncStopOnce makes every other a no-op, also when the
\* first found no worker to stop.
Stop ==
    /\ stop = "no"
    /\ stop' = IF worker = "none" THEN "done" ELSE "waiting"
    /\ UNCHANGED <<registry, publication, queue, worker, handled, dropped>>

StopReturn ==
    /\ stop = "waiting"
    /\ worker = "exited"
    /\ stop' = "done"
    /\ UNCHANGED <<registry, publication, queue, worker, handled, dropped>>

Worker == WorkerTake \/ WorkerSeesStop \/ WorkerExit

Publisher(p) ==
    \/ \E i \in Ids : RunSync(p, i) \/ DispatchAsync(p, i)
    \/ PublishReturn(p)

BusNext ==
    \/ \E a \in BOOLEAN : Subscribe(a)
    \/ \E i \in Ids : Cancel(i)
    \/ \E p \in Publishers, e \in Events : Publish(p, e)
    \/ \E p \in Publishers : Publisher(p)
    \/ Worker
    \/ Stop
    \/ StopReturn

BusSpec == BusInit /\ [][BusNext]_busVars

\* Asynchronous handlers return, so the worker keeps going.
WorkerRuns == WF_busVars(Worker)

-----------------------------------------------------------------------------
(* Properties.                                                             *)

Pending == UNION {{<<current[p], i>> : i \in todo[p]} : p \in Publishers}

\* Each handler that a publication has copied, and no other, is in exactly one
\* place: still to be worked through, or queued, or handled, or logged as
\* dropped, whatever is subscribed, cancelled or stopped meanwhile (Publish,
\* runAsync).  No publication vanishes, reaches a handler twice, or reaches one
\* it did not copy.  The place may be the queue for ever: what is sent after the
\* worker has exited waits there, neither run nor logged, until the queue is
\* full (bus.go:251-253 says it is dropped and logged).
OncePerHandler ==
    LET places == <<Pending, ToSet(queue), handled, dropped>>
    IN /\ BusTypes
       /\ copied = UNION Range(places)
       /\ \A m, n \in DOMAIN places : m < n => places[m] \cap places[n] = {}
       /\ IsInjective(queue)

\* What is in the queue before the worker has exited is handled in the end,
\* also when Stop comes in between: the drain loses nothing.
QueuedIsHandled ==
    WorkerRuns =>
        \A e \in Events, i \in Ids :
            (<<e, i>> \in ToSet(queue) /\ worker # "exited") ~> (<<e, i>> \in handled)

\* Stop returns: the worker drains and exits once publishers fall silent.
StopReturns == WorkerRuns => ((stop = "waiting") ~> (stop = "done"))

\* Publish returns even when a handler blocks the worker for ever: a slow
\* client behind an asynchronous handler cannot stall combat or movement.
PublishReturns == \A p \in Publishers : (current[p] # NoEvent) ~> (current[p] = NoEvent)

\* Neither call of the bus blocks its caller for ever.
CallsReturn == PublishReturns /\ StopReturns

\* What is queued is handled, and nobody who publishes or stops waits for ever.
BusDelivers == QueuedIsHandled /\ CallsReturn
=============================================================================
