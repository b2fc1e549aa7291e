--------------------------- MODULE ServicesProofs ---------------------------
(***************************************************************************)
(* What the server does by itself, for any number of publishers, events,   *)
(* subscriptions, clients, countdowns, mobs and scripts: each handler that *)
(* a publication copied is in one place, a process executes itself again   *)
(* only for a reboot that nobody aborted, a mob keeps to its zone, and no  *)
(* state of the script pool and no slot of a deferred run is lost.         *)
(***************************************************************************)
EXTENDS EventBus, Server, Wander, Scripts, SequenceTheorems, FiniteSetTheorems, TLAPS

-----------------------------------------------------------------------------
(* The queue as a set.                                                     *)

LEMMA AppendToSet ==
    ASSUME NEW S, NEW s \in Seq(S), NEW x \in S, IsInjective(s), x \notin ToSet(s)
    PROVE  /\ ToSet(Append(s, x)) = ToSet(s) \cup {x}
           /\ IsInjective(Append(s, x))
<1> DEFINE t == Append(s, x)
<1>1. Len(s) \in Nat /\ DOMAIN s = 1..Len(s) /\ \A i \in 1..Len(s) : s[i] \in S
    BY LenProperties, ElementOfSeq
<1>2. DOMAIN t = 1..Len(s) + 1 /\ t[Len(s) + 1] = x /\ \A i \in 1..Len(s) : t[i] = s[i]
    BY <1>1, AppendProperties
<1>3. \A i \in 1..Len(s) : s[i] # x
    BY <1>1 DEF ToSet
<1> HIDE DEF t
<1>4. ToSet(t) = ToSet(s) \cup {x}
  <2>1. ASSUME NEW y PROVE y \in ToSet(t) <=> y \in ToSet(s) \cup {x}
    <3>1. ASSUME y \in ToSet(t) PROVE y \in ToSet(s) \cup {x}
      <4>1. PICK i \in 1..Len(s) + 1 : t[i] = y
          BY <1>2, <3>1 DEF ToSet
      <4>2. i \in 1..Len(s) \/ i = Len(s) + 1
          BY <1>1
      <4> QED BY <1>1, <1>2, <4>1, <4>2 DEF ToSet
    <3>2. ASSUME y \in ToSet(s) PROVE y \in ToSet(t)
      <4>1. PICK i \in 1..Len(s) : s[i] = y
          BY <1>1, <3>2 DEF ToSet
      <4>2. i \in 1..Len(s) + 1
          BY <1>1
      <4> QED BY <1>2, <4>1, <4>2 DEF ToSet
    <3>3. x \in ToSet(t)
      <4>1. Len(s) + 1 \in 1..Len(s) + 1
          BY <1>1
      <4> QED BY <1>2, <4>1 DEF ToSet
    <3> QED BY <3>1, <3>2, <3>3
  <2> QED BY <2>1
<1>5. IsInjective(t)
  <2> SUFFICES ASSUME NEW a \in 1..Len(s) + 1, NEW b \in 1..Len(s) + 1, t[a] = t[b]
               PROVE  a = b
      BY <1>2 DEF IsInjective
  <2>1. (a \in 1..Len(s) \/ a = Len(s) + 1) /\ (b \in 1..Len(s) \/ b = Len(s) + 1)
      BY <1>1
  <2> QED BY <1>1, <1>2, <1>3, <2>1 DEF IsInjective
<1> QED BY <1>4, <1>5 DEF t

LEMMA TailToSet ==
    ASSUME NEW S, NEW s \in Seq(S), s # <<>>, IsInjective(s)
    PROVE  /\ Head(s) \in ToSet(s)
           /\ ToSet(Tail(s)) = ToSet(s) \ {Head(s)}
           /\ IsInjective(Tail(s))
<1> DEFINE t == Tail(s)
<1>1. /\ Len(s) \in Nat \ {0} /\ DOMAIN s = 1..Len(s) /\ Head(s) = s[1]
      /\ DOMAIN t = 1..Len(s) - 1 /\ \A i \in 1..Len(s) - 1 : t[i] = s[i + 1]
    BY LenProperties, EmptySeq, HeadTailProperties
<1> HIDE DEF t
<1>2. \A a, b \in 1..Len(s) : s[a] = s[b] => a = b
    BY <1>1 DEF IsInjective
<1>3. ToSet(t) = ToSet(s) \ {s[1]}
  <2>1. ASSUME NEW y PROVE y \in ToSet(t) <=> y \in ToSet(s) \ {s[1]}
    <3>1. ASSUME y \in ToSet(t) PROVE y \in ToSet(s) \ {s[1]}
      <4>1. PICK i \in 1..Len(s) - 1 : t[i] = y
          BY <1>1, <3>1 DEF ToSet
      <4>2. i + 1 \in 1..Len(s) /\ 1 \in 1..Len(s) /\ i + 1 # 1 /\ s[i + 1] = y
          BY <1>1, <4>1
      <4> QED BY <1>1, <1>2, <4>2 DEF ToSet
    <3>2. ASSUME y \in ToSet(s), y # s[1] PROVE y \in ToSet(t)
      <4>1. PICK i \in 1..Len(s) : s[i] = y
          BY <1>1, <3>2 DEF ToSet
      <4>2. i - 1 \in 1..Len(s) - 1 /\ (i - 1) + 1 = i
          BY <1>1, <3>2, <4>1
      <4> QED BY <1>1, <4>1, <4>2 DEF ToSet
    <3> QED BY <3>1, <3>2
  <2> QED BY <2>1
<1>4. IsInjective(t)
  <2> SUFFICES ASSUME NEW a \in 1..Len(s) - 1, NEW b \in 1..Len(s) - 1, t[a] = t[b]
               PROVE  a = b
      BY <1>1 DEF IsInjective
  <2>1. a + 1 \in 1..Len(s) /\ b + 1 \in 1..Len(s) /\ s[a + 1] = s[b + 1]
      BY <1>1
  <2> QED BY <1>2, <2>1
<1>5. s[1] \in ToSet(s)
    BY <1>1 DEF ToSet
<1> QED BY <1>1, <1>3, <1>4, <1>5 DEF t

LEMMA ToSetIn == ASSUME NEW S, NEW s \in Seq(S) PROVE ToSet(s) \subseteq S
BY LenProperties, ElementOfSeq DEF ToSet

-----------------------------------------------------------------------------
(* The bus.                                                                *)

\* The four places of a pair are apart from each other, and are all there are.
Apart(a, b, c, d, all) ==
    /\ all = a \cup b \cup c \cup d
    /\ a \cap b = {} /\ a \cap c = {} /\ a \cap d = {} /\ b \cap c = {} /\ b \cap d = {} /\ c \cap d = {}

Queued == ToSet(queue)

\* No two publishers work at one publication, and one that works at none has
\* nothing to do.
OnePublisher ==
    /\ \A p \in Publishers : current[p] = NoEvent => todo[p] = {}
    /\ \A p, q \in Publishers : current[p] # NoEvent /\ current[p] = current[q] => p = q

\* Nothing is known of an event before it is published.
OnlyPublished ==
    /\ \A p \in Publishers : current[p] # NoEvent => current[p] \in published
    /\ \A e \in Events \ published, i \in Ids : <<e, i>> \notin Queued \cup handled \cup dropped

BusInv ==
    /\ BusTypes /\ OnePublisher /\ OnlyPublished
    /\ IsInjective(queue) /\ Apart(Pending, Queued, handled, dropped, copied)

LEMMA BusInvImplies == BusInv => OncePerHandler
<1> SUFFICES ASSUME BusInv PROVE OncePerHandler
    OBVIOUS
<1> DEFINE places == <<Pending, ToSet(queue), handled, dropped>>
<1>1. ASSUME NEW m \in DOMAIN places, NEW n \in DOMAIN places, m < n
      PROVE  places[m] \cap places[n] = {}
  <2>1. /\ DOMAIN places = 1..4
        /\ places[1] = Pending /\ places[2] = Queued /\ places[3] = handled /\ places[4] = dropped
      BY DEF Queued
  <2>2. Apart(places[1], places[2], places[3], places[4], copied)
      BY <2>1 DEF BusInv
  <2>3. m \in 1..4 /\ n \in 1..4
      BY <2>1
  <2> HIDE DEF places
  <2>4. \/ m = 1 /\ n \in {2, 3, 4}
        \/ m = 2 /\ n \in {3, 4}
        \/ m = 3 /\ n = 4
      BY <1>1, <2>3
  <2> QED BY <2>2, <2>4 DEF Apart
<1>2. copied = UNION Range(places)
  <2>1. Range(places) = {Pending, Queued, handled, dropped}
      BY DEF Range, Queued
  <2> HIDE DEF places
  <2> QED BY <2>1 DEF BusInv, Apart
<1> HIDE DEF places
<1>3. BusTypes /\ IsInjective(queue)
    BY DEF BusInv
<1> QED BY <1>1, <1>2, <1>3 DEF OncePerHandler, places

LEMMA BusInitInv == BusInit => BusInv
<1> SUFFICES ASSUME BusInit PROVE BusInv
    OBVIOUS
<1> USE DEF BusInit
<1>1. BusTypes
  <2>1. Len(<<>>) = 0 /\ <<>> \in Seq(BOOLEAN) /\ <<>> \in Seq(Events \X Ids)
      OBVIOUS
  <2> QED BY <2>1, BusConstants DEF BusTypes, nextID
<1>2. Queued = {} /\ IsInjective(queue)
    BY DEF Queued, ToSet, IsInjective
<1>3. Pending = {}
    BY DEF Pending
<1> QED BY <1>1, <1>2, <1>3 DEF BusInv, OnePublisher, OnlyPublished, Apart

\* What a publisher is about to do with an entry is pending and nowhere else,
\* and once it is done with it, it is no longer pending.
LEMMA WorkedThrough ==
    ASSUME BusInv, NEW p \in Publishers, NEW i \in todo[p],
           todo' = [todo EXCEPT ![p] = @ \ {i}], UNCHANGED <<current, published>>
    PROVE  /\ i \in Ids /\ current[p] \in Events /\ current[p] \in published
           /\ <<current[p], i>> \in Pending
           /\ Pending' = Pending \ {<<current[p], i>>}
           /\ todo' \in [Publishers -> SUBSET Ids]
           /\ OnePublisher'
<1> USE DEF BusInv, BusTypes
<1>1. current[p] # NoEvent /\ current[p] \in Events /\ i \in Ids
    BY DEF OnePublisher
<1>2. /\ todo'[p] = todo[p] \ {i} /\ \A q \in Publishers \ {p} : todo'[q] = todo[q]
      /\ todo' \in [Publishers -> SUBSET Ids]
    OBVIOUS
<1>3. Pending' = Pending \ {<<current[p], i>>}
  <2>1. ASSUME NEW q \in Publishers, NEW j \in todo[q], <<current[q], j>> # <<current[p], i>>
        PROVE  j \in todo'[q]
    <3>1. CASE q = p
        BY <1>2, <2>1, <3>1
    <3>2. CASE q # p
        BY <1>2, <3>2
    <3> QED BY <3>1, <3>2
  <2>2. ASSUME NEW q \in Publishers, NEW j \in todo'[q]
        PROVE  j \in todo[q] /\ <<current[q], j>> # <<current[p], i>>
    <3>1. j \in todo[q]
        BY <1>2, <2>2
    <3>2. CASE q = p
        BY <1>2, <2>2, <3>2
    <3>3. CASE q # p
        BY <1>1, <3>1, <3>3 DEF OnePublisher
    <3> QED BY <3>1, <3>2, <3>3
  <2> QED BY <2>1, <2>2 DEF Pending
<1>4. OnePublisher'
    BY <1>2 DEF OnePublisher
<1> QED BY <1>1, <1>2, <1>3, <1>4 DEF OnlyPublished, Pending

LEMMA BusStep == BusInv /\ [BusNext]_busVars => BusInv'
<1> SUFFICES ASSUME BusInv, [BusNext]_busVars PROVE BusInv'
    OBVIOUS
<1> USE BusConstants
<1>1. ASSUME NEW a \in BOOLEAN, Subscribe(a) PROVE BusInv'
  <2>1. UNCHANGED <<publication, queue, stop, handled, dropped>>
      BY <1>1 DEF Subscribe
  <2>2. async' \in Seq(BOOLEAN) /\ Len(async') = Len(async) + 1 /\ Len(async) \in Nat
      BY <1>1, AppendProperties, LenProperties DEF Subscribe, BusInv, BusTypes
  <2>3. handlers' \subseteq 1..Len(async') /\ Len(async') <= MaxSubs
    <3>1. handlers \subseteq 1..Len(async) /\ handlers' = handlers \cup {Len(async) + 1}
        BY <1>1 DEF Subscribe, BusInv, BusTypes, nextID
    <3>2. Len(async) < MaxSubs
        BY <1>1 DEF Subscribe, nextID
    <3>3. Len(async) + 1 <= MaxSubs
        BY <2>2, <3>2
    <3>4. \A i \in handlers' : i \in 1..Len(async) \/ i = Len(async) + 1
        BY <3>1
    <3> QED BY <2>2, <3>3, <3>4
  <2>4. BusTypes'
      BY <1>1, <2>1, <2>2, <2>3 DEF Subscribe, BusInv, BusTypes, nextID, publication, Ids
  <2> QED BY <2>1, <2>4 DEF BusInv, OnePublisher, OnlyPublished, Pending, Queued, publication, Ids
<1>2. ASSUME NEW i \in Ids, Cancel(i) PROVE BusInv'
  <2>1. UNCHANGED <<async, publication, queue, worker, stop, handled, dropped>>
      BY <1>2 DEF Cancel
  <2>2. BusTypes'
      BY <1>2, <2>1 DEF Cancel, BusInv, BusTypes, nextID, publication, Ids
  <2> QED BY <2>1, <2>2 DEF BusInv, OnePublisher, OnlyPublished, Pending, Queued, publication, Ids
<1>3. ASSUME NEW p \in Publishers, NEW e \in Events, Publish(p, e) PROVE BusInv'
  <2>1. /\ UNCHANGED <<registry, queue, worker, stop, handled, dropped>>
        /\ current[p] = NoEvent /\ e \notin published /\ published' = published \cup {e}
        /\ copied' = copied \cup {<<e, i>> : i \in handlers}
      BY <1>3 DEF Publish
  <2>2. /\ current'[p] = e /\ todo'[p] = handlers /\ handlers \subseteq Ids
        /\ \A q \in Publishers \ {p} : current'[q] = current[q] /\ todo'[q] = todo[q]
      BY <1>3, LenProperties DEF Publish, BusInv, BusTypes, nextID, Ids
  <2>3. BusTypes'
      BY <1>3, <2>1, <2>2 DEF Publish, BusInv, BusTypes, nextID, registry, Ids
  <2>4. OnePublisher' /\ OnlyPublished'
      BY <2>1, <2>2 DEF BusInv, BusTypes, OnePublisher, OnlyPublished, Queued, Ids
  <2>5. Pending' = Pending \cup {<<e, i>> : i \in handlers}
    <3>1. ASSUME NEW q \in Publishers, NEW j \in todo[q] PROVE current'[q] = current[q] /\ j \in todo'[q]
        BY <2>1, <2>2 DEF BusInv, OnePublisher
    <3>2. ASSUME NEW q \in Publishers, NEW j \in todo'[q], q # p
          PROVE  current'[q] = current[q] /\ j \in todo[q]
        BY <2>2, <3>2
    <3> QED BY <2>2, <3>1, <3>2 DEF Pending
  <2>6. \A i \in handlers : <<e, i>> \notin Queued \cup handled \cup dropped
      BY <2>1, <2>2 DEF BusInv, OnlyPublished
  <2>7. Apart(Pending, Queued, handled, dropped, copied)'
      BY <2>1, <2>5, <2>6 DEF BusInv, Apart, Queued
  <2> QED BY <2>1, <2>3, <2>4, <2>7 DEF BusInv
<1>4. ASSUME NEW p \in Publishers, NEW i \in Ids, RunSync(p, i) PROVE BusInv'
  <2>1. /\ UNCHANGED <<registry, current, published, copied, queue, worker, stop, dropped>>
        /\ i \in todo[p] /\ todo' = [todo EXCEPT ![p] = @ \ {i}]
        /\ handled' = handled \cup {<<current[p], i>>}
      BY <1>4 DEF RunSync
  <2>2. /\ current[p] \in Events /\ current[p] \in published /\ <<current[p], i>> \in Pending
        /\ Pending' = Pending \ {<<current[p], i>>}
        /\ todo' \in [Publishers -> SUBSET Ids] /\ OnePublisher'
      BY <2>1, WorkedThrough
  <2>3. BusTypes'
      BY <2>1, <2>2 DEF BusInv, BusTypes, nextID, registry, Ids
  <2>4. OnlyPublished'
      BY <2>1, <2>2 DEF BusInv, OnlyPublished, Queued, Ids
  <2>5. Apart(Pending, Queued, handled, dropped, copied)'
      BY <2>1, <2>2 DEF BusInv, Apart, Queued
  <2> QED BY <2>1, <2>2, <2>3, <2>4, <2>5 DEF BusInv
<1>5. ASSUME NEW p \in Publishers, NEW i \in Ids, DispatchAsync(p, i) PROVE BusInv'
  <2> DEFINE x == <<current[p], i>>
  <2>1. /\ UNCHANGED <<registry, current, published, copied, worker, stop, handled>>
        /\ i \in todo[p] /\ todo' = [todo EXCEPT ![p] = @ \ {i}]
        /\ \/ Len(queue) < QueueCap /\ queue' = Append(queue, x) /\ UNCHANGED dropped
           \/ dropped' = dropped \cup {x} /\ UNCHANGED queue
      BY <1>5 DEF DispatchAsync
  <2>2. /\ current[p] \in Events /\ current[p] \in published /\ x \in Pending
        /\ Pending' = Pending \ {x}
        /\ todo' \in [Publishers -> SUBSET Ids] /\ OnePublisher'
      BY <2>1, WorkedThrough
  <2>3. x \in Events \X Ids /\ x \notin Queued \cup handled \cup dropped
      BY <2>2 DEF BusInv, Apart
  <2>4. \A e \in Events \ published, j \in Ids : <<e, j>> # x
      BY <2>2
  <2> HIDE DEF x
  <2>5. CASE Len(queue) < QueueCap /\ queue' = Append(queue, x) /\ UNCHANGED dropped
    <3>1. /\ queue' \in Seq(Events \X Ids) /\ Len(queue') = Len(queue) + 1 /\ Len(queue) \in Nat
          /\ Queued' = Queued \cup {x} /\ IsInjective(queue')
        BY <2>3, <2>5, AppendToSet, AppendProperties, LenProperties DEF BusInv, BusTypes, Queued
    <3>2. BusTypes'
        BY <2>1, <2>2, <2>5, <3>1 DEF BusInv, BusTypes, nextID, registry, Ids
    <3>3. OnlyPublished'
        BY <2>1, <2>2, <2>4, <2>5, <3>1 DEF BusInv, OnlyPublished, Ids
    <3>4. Apart(Pending, Queued, handled, dropped, copied)'
        BY <2>1, <2>2, <2>3, <2>5, <3>1 DEF BusInv, Apart
    <3> QED BY <2>2, <3>1, <3>2, <3>3, <3>4 DEF BusInv
  <2>6. CASE dropped' = dropped \cup {x} /\ UNCHANGED queue
    <3>1. BusTypes'
        BY <2>1, <2>2, <2>3, <2>6 DEF BusInv, BusTypes, nextID, registry, Ids
    <3>2. OnlyPublished'
        BY <2>1, <2>2, <2>4, <2>6 DEF BusInv, OnlyPublished, Queued, Ids
    <3>3. Apart(Pending, Queued, handled, dropped, copied)'
        BY <2>1, <2>2, <2>3, <2>6 DEF BusInv, Apart, Queued
    <3> QED BY <2>2, <2>6, <3>1, <3>2, <3>3 DEF BusInv
  <2> QED BY <2>1, <2>5, <2>6
<1>6. ASSUME NEW p \in Publishers, PublishReturn(p) PROVE BusInv'
  <2>1. /\ UNCHANGED <<registry, todo, published, copied, queue, worker, stop, handled, dropped>>
        /\ todo[p] = {} /\ current' = [current EXCEPT ![p] = NoEvent]
      BY <1>6 DEF PublishReturn
  <2>2. current'[p] = NoEvent /\ \A q \in Publishers \ {p} : current'[q] = current[q]
      BY <2>1 DEF BusInv, BusTypes
  <2>3. BusTypes'
      BY <2>1 DEF BusInv, BusTypes, nextID, registry, Ids
  <2>4. OnePublisher' /\ OnlyPublished'
      BY <2>1, <2>2 DEF BusInv, OnePublisher, OnlyPublished, Queued, Ids
  <2>5. Pending' = Pending
    <3>1. ASSUME NEW q \in Publishers, NEW j \in todo[q] PROVE current'[q] = current[q]
        BY <2>1, <2>2
    <3> QED BY <2>1, <3>1 DEF Pending
  <2> QED BY <2>1, <2>3, <2>4, <2>5 DEF BusInv, Queued
<1>7. CASE WorkerTake
  <2>1. /\ UNCHANGED <<registry, publication, worker, stop, dropped>>
        /\ queue # <<>> /\ handled' = handled \cup {Head(queue)} /\ queue' = Tail(queue)
      BY <1>7 DEF WorkerTake
  <2>2. /\ queue' \in Seq(Events \X Ids) /\ Len(queue') = Len(queue) - 1 /\ Len(queue) \in Nat
        /\ Head(queue) \in Queued /\ Queued' = Queued \ {Head(queue)} /\ IsInjective(queue')
      BY <2>1, TailToSet, HeadTailProperties, LenProperties DEF BusInv, BusTypes, Queued
  <2>3. Head(queue) \in Events \X Ids
      BY <2>2, ToSetIn DEF BusInv, BusTypes, Queued
  <2>4. BusTypes'
      BY <2>1, <2>2, <2>3 DEF BusInv, BusTypes, nextID, registry, publication, Ids
  <2>5. OnePublisher' /\ OnlyPublished'
      BY <2>1, <2>2 DEF BusInv, OnePublisher, OnlyPublished, publication, Ids
  <2>6. Pending' = Pending
      BY <2>1 DEF Pending, publication
  <2>7. Apart(Pending, Queued, handled, dropped, copied)'
      BY <2>1, <2>2, <2>6 DEF BusInv, Apart, publication
  <2> QED BY <2>2, <2>4, <2>5, <2>7 DEF BusInv
<1>8. CASE WorkerSeesStop \/ WorkerExit \/ Stop \/ StopReturn
  <2>1. UNCHANGED <<registry, publication, queue, handled, dropped>>
      BY <1>8 DEF WorkerSeesStop, WorkerExit, Stop, StopReturn
  <2>2. BusTypes'
      BY <1>8, <2>1 DEF WorkerSeesStop, WorkerExit, Stop, StopReturn, BusInv, BusTypes, nextID,
                        registry, publication, Ids
  <2> QED BY <2>1, <2>2 DEF BusInv, OnePublisher, OnlyPublished, Pending, Queued, publication, Ids
<1>9. CASE UNCHANGED busVars
    BY <1>9 DEF busVars, BusInv, BusTypes, nextID, Ids, OnePublisher, OnlyPublished, Pending, Queued
<1> QED BY <1>1, <1>2, <1>3, <1>4, <1>5, <1>6, <1>7, <1>8, <1>9 DEF BusNext, Publisher, Worker

\* Each handler that a publication copied, and no other, is pending, queued,
\* handled or dropped, and one of these only, in every reachable state (Publish
\* and runAsync in bus.go).
THEOREM BusKeepsInv == BusSpec => []BusInv
<1> QED BY BusInitInv, BusStep, PTL DEF BusSpec

\* OncePerHandler, the partition of what was copied, for every number of
\* publishers, subscriptions and events and every capacity of the queue
\* (Publish, dispatchAsync, runAsync in bus.go).
THEOREM BusReachesEachOnce == BusSpec => []OncePerHandler
<1> QED BY BusInvImplies, BusKeepsInv, PTL

\* A handler that has run for a publication never runs for it again, on the
\* publisher's goroutine or on the worker's (runOne in bus.go).
NeverAgain ==
    /\ \A p \in Publishers, i \in Ids : RunSync(p, i) => <<current[p], i>> \notin handled
    /\ WorkerTake => Head(queue) \notin handled

\* NeverAgain holds of every step.
THEOREM BusNeverAgain == BusSpec => [][NeverAgain]_busVars
<1>1. BusInv => NeverAgain
  <2> SUFFICES ASSUME BusInv PROVE NeverAgain
      OBVIOUS
  <2>1. ASSUME NEW p \in Publishers, NEW i \in Ids, RunSync(p, i)
        PROVE  <<current[p], i>> \notin handled
    <3>1. <<current[p], i>> \in Pending
        BY <2>1 DEF RunSync, Pending
    <3> QED BY <3>1 DEF BusInv, Apart
  <2>2. ASSUME WorkerTake PROVE Head(queue) \notin handled
    <3>1. Head(queue) \in Queued
        BY <2>2, TailToSet DEF WorkerTake, BusInv, BusTypes, Queued
    <3> QED BY <3>1 DEF BusInv, Apart
  <2> QED BY <2>1, <2>2 DEF NeverAgain
<1> QED BY <1>1, BusKeepsInv, PTL

-----------------------------------------------------------------------------
(* The server.                                                             *)

Countdown ==
    [at : {"idle", "announce", "wait", "now", "clear", "signal", "over"},
     left : Nat, todo : SUBSET Clients, reboot : BOOLEAN, cancelled : BOOLEAN]

ServerTypes ==
    /\ client \in [Clients -> {"out", "in", "stuck"}]
    /\ countdown \in [Countdowns -> Countdown]
    /\ pending \in Countdowns \cup {NoCountdown}
    /\ reboot \in BOOLEAN

\* A countdown that is not running carries nothing.
Fresh == \A k \in Countdowns : countdown[k].at = "idle" => ~countdown[k].reboot

Asked(k) == countdown[k].reboot /\ ~countdown[k].cancelled

\* The flag of the reboot is up only for a request that was not aborted, and
\* main leaves for exec only with the flag up.
FlagIsAsked ==
    /\ reboot => \E k \in Countdowns : Asked(k)
    /\ stage = "exec" => reboot

\* Whoever is pending has not been aborted and has not come to its signal.
PendingStands ==
    pending # NoCountdown =>
        /\ countdown[pending].at \in {"announce", "wait", "now", "clear"}
        /\ ~countdown[pending].cancelled

ServerInv == ServerTypes /\ Fresh /\ FlagIsAsked /\ PendingStands

LEMMA ServerInitInv == ServerInit => ServerInv
<1> SUFFICES ASSUME ServerInit PROVE ServerInv
    OBVIOUS
<1>1. Idle \in Countdown
    BY ServerAssumption DEF Idle, Countdown
<1>2. ServerTypes
    BY <1>1 DEF ServerInit, ServerTypes
<1> QED BY <1>2 DEF ServerInit, ServerInv, Fresh, FlagIsAsked, PendingStands, Idle

\* Neither a request nor the flag of the reboot changes.
Undisturbed ==
    /\ pending' = pending /\ reboot' = reboot
    /\ stage' = "exec" => stage = "exec" \/ reboot
    /\ \A k \in Countdowns :
          /\ countdown'[k].reboot = countdown[k].reboot
          /\ countdown'[k].cancelled = countdown[k].cancelled
          /\ countdown[k].at = "idle" <=> countdown'[k].at = "idle"
          /\ k = pending => countdown'[k].at \in {"announce", "wait", "now", "clear"}

\* Such a step keeps the invariant.
LEMMA ServerKeeps ==
    ASSUME ServerInv, ServerTypes', Undisturbed
    PROVE  ServerInv'
<1>1. Fresh'
    BY DEF ServerInv, Fresh, Undisturbed
<1>2. FlagIsAsked'
    BY DEF ServerInv, FlagIsAsked, Asked, Undisturbed
<1>3. PendingStands'
    BY DEF ServerInv, PendingStands, ServerTypes, Undisturbed
<1> QED BY <1>1, <1>2, <1>3 DEF ServerInv

LEMMA ServerStep == ServerInv /\ [ServerNext]_serverVars => ServerInv'
<1> SUFFICES ASSUME ServerInv, [ServerNext]_serverVars PROVE ServerInv'
    OBVIOUS
<1> USE ServerAssumption DEF ServerTypes
<1>1. CASE Boot \/ Shutdown
  <2>1. /\ UNCHANGED <<client, countdown, pending, reboot>>
        /\ stage' = "exec" => reboot
      BY <1>1 DEF Boot, Shutdown, LoadConfig, OpenDatabase, LoadWorld, LoadCatalogs, LoadFlows,
                  StartGame, LoadScripts, BuildRegistry, Listen, CloseListener, Drained, FlushAll,
                  StopParts, StopBus, Load, Advance
  <2>2. ServerTypes'
      BY <2>1 DEF ServerInv
  <2>3. Undisturbed
      BY <2>1 DEF Undisturbed, ServerInv, PendingStands
  <2> QED BY <2>2, <2>3, ServerKeeps
<1>2. CASE Reexec
  <2>1. Idle \in Countdown
      BY DEF Idle, Countdown
  <2>2. ServerTypes'
      BY <1>2, <2>1 DEF Reexec
  <2> QED BY <1>2, <2>2 DEF Reexec, ServerInv, Fresh, FlagIsAsked, PendingStands, Idle
<1>3. CASE RequestAbort
  <2>1. stage # "exec" /\ pending \in Countdowns
      BY <1>3 DEF RequestAbort, Running, ServerInv
  <2>2. ServerTypes'
      BY <1>3, <2>1 DEF RequestAbort, ServerInv, Countdown
  <2>3. Fresh'
      BY <1>3, <2>1 DEF RequestAbort, ServerInv, Fresh, Countdown
  <2> QED BY <1>3, <2>1, <2>2, <2>3 DEF RequestAbort, ServerInv, FlagIsAsked, PendingStands
<1>4. CASE Sigterm \/ WrittenGMCP \/ \E c \in Clients :
              Accept(c) \/ StopReading(c) \/ ReadOrBreak(c) \/ Disconnect(c) \/ WriteGMCP(c)
  <2>1. UNCHANGED <<countdown, pending, reboot, stage>>
      BY <1>4 DEF Sigterm, WrittenGMCP, Accept, StopReading, ReadOrBreak, Disconnect, WriteGMCP
  <2>2. ServerTypes'
      BY <1>4, <2>1 DEF ServerInv, Sigterm, WrittenGMCP, Accept, StopReading, ReadOrBreak,
                        Disconnect, WriteGMCP
  <2>3. Undisturbed
      BY <2>1 DEF Undisturbed, ServerInv, PendingStands
  <2> QED BY <2>2, <2>3, ServerKeeps
<1>5. ASSUME NEW k \in Countdowns, Tell(k) PROVE ServerInv'
  <2>1. PICK c \in countdown[k].todo : countdown' = [countdown EXCEPT ![k].todo = @ \ {c}]
      BY <1>5 DEF Tell
  <2>2. ServerTypes'
      BY <1>5, <2>1 DEF Tell, ServerInv, Countdown
  <2>3. Undisturbed
      BY <1>5, <2>1 DEF Tell, Undisturbed, ServerInv, PendingStands, Countdown
  <2> QED BY <2>2, <2>3, ServerKeeps
<1>6. ASSUME NEW k \in Countdowns, Count(k) PROVE ServerInv'
  <2> USE DEF Countdown
  <2>1. CASE Told(k)
    <3>1. ServerTypes'
        BY <2>1 DEF Told, Goes, Said, ServerInv
    <3>2. Undisturbed
        BY <2>1, <3>1 DEF Undisturbed, Told, Goes, Said, ServerInv, PendingStands
    <3> QED BY <3>1, <3>2, ServerKeeps
  <2>2. CASE WaitOver(k)
    <3>1. PICK l \in {0, countdown[k].left} : countdown' = [countdown EXCEPT
              ![k].todo = Bound, ![k].left = IF l = 0 THEN 0 ELSE l - 1,
              ![k].at = IF l = 0 THEN "now" ELSE "announce"]
        BY <2>2 DEF WaitOver
    <3>2. ServerTypes'
      <4>1. Bound \in SUBSET Clients /\ countdown[k] \in Countdown
          BY DEF Bound, ServerInv
      <4>2. (IF l = 0 THEN 0 ELSE l - 1) \in Nat
          BY <4>1
      <4> QED BY <2>2, <3>1, <4>1, <4>2 DEF WaitOver, ServerInv
    <3>3. Undisturbed
        BY <2>2, <3>1, <3>2 DEF Undisturbed, WaitOver, Said, ServerInv, PendingStands
    <3> QED BY <3>2, <3>3, ServerKeeps
  <2>3. CASE Cancelled(k)
    <3>1. ServerTypes'
        BY <2>3 DEF Cancelled, Goes, ServerInv
    <3>2. k # pending
        BY <2>3 DEF Cancelled, ServerInv, PendingStands
    <3>3. Undisturbed
        BY <2>3, <3>1, <3>2 DEF Undisturbed, Cancelled, Goes, ServerInv, PendingStands
    <3> QED BY <3>1, <3>3, ServerKeeps
  <2>4. CASE ClearPending(k)
    <3>1. ServerTypes'
        BY <2>4 DEF ClearPending, Goes, ServerInv
    <3> QED BY <2>4, <3>1 DEF ClearPending, Goes, Running, ServerInv, Fresh, FlagIsAsked, Asked,
                              PendingStands
  <2>5. CASE StopSignal(k)
    <3>1. ServerTypes'
        BY <2>5 DEF StopSignal, Goes, ServerInv
    <3>2. k # pending
        BY <2>5 DEF StopSignal, ServerInv, PendingStands
    <3>3. Undisturbed
        BY <2>5, <3>1, <3>2 DEF Undisturbed, StopSignal, Goes, ServerInv, PendingStands
    <3> QED BY <3>1, <3>3, ServerKeeps
  <2> QED BY <1>6, <2>1, <2>2, <2>3, <2>4, <2>5 DEF Count
<1>7. ASSUME NEW k \in Countdowns, NEW again \in BOOLEAN, ScheduleStop(k, again) PROVE ServerInv'
  <2> DEFINE new == [at |-> "announce", left |-> Marks, todo |-> Bound, reboot |-> again,
                     cancelled |-> FALSE]
  <2>1. new \in Countdown
      BY DEF Countdown, Bound
  <2>2. /\ countdown' = [countdown EXCEPT ![k] = new] /\ countdown[k].at = "idle"
        /\ stage = "up" /\ stage' = "up" /\ pending' = k /\ reboot' = (again \/ reboot)
        /\ client' = client
      BY <1>7 DEF ScheduleStop
  <2>3. new.at = "announce" /\ new.reboot = again /\ ~new.cancelled
      OBVIOUS
  <2> HIDE DEF new
  <2>4. countdown'[k] = new /\ \A j \in Countdowns \ {k} : countdown'[j] = countdown[j]
      BY <2>2 DEF ServerInv
  <2>5. ServerTypes'
      BY <2>1, <2>2 DEF ServerInv
  <2>6. Fresh'
      BY <2>3, <2>4 DEF ServerInv, Fresh
  <2>7. FlagIsAsked'
    <3>1. CASE again
        BY <2>2, <2>3, <2>4, <3>1 DEF FlagIsAsked, Asked
    <3>2. CASE ~again /\ reboot
      <4>1. PICK j \in Countdowns : Asked(j)
          BY <3>2 DEF ServerInv, FlagIsAsked
      <4>2. j # k
          BY <2>2, <4>1 DEF ServerInv, Fresh, Asked
      <4> QED BY <2>2, <2>4, <4>1, <4>2 DEF FlagIsAsked, Asked
    <3> QED BY <2>2, <3>1, <3>2 DEF FlagIsAsked
  <2>8. PendingStands'
      BY <2>2, <2>3, <2>4 DEF PendingStands
  <2> QED BY <2>5, <2>6, <2>7, <2>8 DEF ServerInv
<1>8. CASE UNCHANGED serverVars
    BY <1>8 DEF serverVars, ServerInv, Fresh, FlagIsAsked, Asked, PendingStands
<1> QED BY <1>1, <1>2, <1>3, <1>4, <1>5, <1>6, <1>7, <1>8 DEF ServerNext

\* The reboot flag stands only for a request that is neither over nor aborted
\* (scheduleStop, RequestAbort and runCountdown in shutdown_admin.go).
THEOREM ServerKeepsInv == ServerSpec => []ServerInv
<1> QED BY ServerInitInv, ServerStep, PTL DEF ServerSpec

\* RebootIsAsked for every number of countdowns: the process executes itself
\* again only where a reboot was asked for that nobody aborted (shutdown_admin.go).
THEOREM RebootSafety == ServerSpec => []RebootIsAsked
<1>1. ServerInv => RebootIsAsked
    BY DEF ServerInv, FlagIsAsked, Asked, RebootIsAsked
<1> QED BY <1>1, ServerKeepsInv, PTL

-----------------------------------------------------------------------------
(* Wandering mobs.                                                         *)

Paced == tour = [g \in WanderPulses |-> tour[g]]

WanderTypes ==
    /\ at \in [Mobs -> Places \cup {Nowhere}]
    /\ fled \in SUBSET Mobs
    /\ Paced

InZone(m, r) == m \notin fled => ZoneOf[r] = ZoneOf[Home[m]]

\* What a list shows is where the mobs of the list were, and nobody is out of
\* his zone without having fled by now; nor is where a pulse takes a mob.
KeepsTour(t) ==
    /\ t.op \in {"asleep", "walk", "aim", "move"}
    /\ t.op # "asleep" =>
          /\ t.seen \in [Mobs -> Places \cup {Nowhere}] /\ t.alive \subseteq Mobs
          /\ t.left \subseteq t.alive
          /\ \A m \in t.alive : t.seen[m] # Nowhere /\ InZone(m, t.seen[m])
    /\ t.op \in {"aim", "move"} => t.mob \in t.alive
    /\ t.op = "move" => t.to \in Places /\ InZone(t.mob, t.to)

ToursKeep == \A g \in WanderPulses : KeepsTour(tour[g])

WanderInv == WanderTypes /\ ToursKeep /\ KeepsToItsZone

LEMMA NeighborsInZone ==
    ASSUME NEW r, NEW zone, NEW q \in Neighbors(r, zone)
    PROVE  q \in Places /\ ZoneOf[q] = zone
<1> QED BY WanderAssumption DEF Neighbors, Walkable

LEMMA StepsInZone ==
    ASSUME NEW r, NEW goal, NEW n, NEW q \in NextSteps(r, goal, n)
    PROVE  q \in Places /\ ZoneOf[q] = ZoneOf[r]
<1>1. q \in Neighbors(r, ZoneOf[r])
  BY DEF NextSteps
<1> QED BY <1>1, NeighborsInZone

\* A turn of a pulse, and nothing but a turn.
LEMMA TurnKeeps ==
    ASSUME WanderInv, NEW g \in WanderPulses, NEW t, Turns(g, t), UNCHANGED fled,
           KeepsTour(t)
    PROVE  /\ Paced'
           /\ ToursKeep'
<1>1. tour' = [tour EXCEPT ![g] = t]
  BY DEF Turns
<1>2. \A h \in WanderPulses : tour'[h] = IF h = g THEN t ELSE tour[h]
  BY <1>1 DEF WanderInv, WanderTypes, Paced
<1>3. Paced'
  BY <1>1 DEF WanderInv, WanderTypes, Paced
<1>4. ASSUME NEW h \in WanderPulses PROVE KeepsTour(tour[h])'
  <2>1. CASE h = g
    BY <2>1, <1>2 DEF KeepsTour, InZone
  <2>2. CASE h # g
    <3>1. KeepsTour(tour[h]) /\ tour'[h] = tour[h]
      BY <2>2, <1>2 DEF WanderInv, ToursKeep
    <3> QED BY <3>1 DEF KeepsTour, InZone
  <2> QED BY <2>1, <2>2
<1> QED BY <1>3, <1>4 DEF ToursKeep

\* The mob under consideration, from the room the list shows.
LEMMA ConsideredIn ==
    ASSUME WanderInv, NEW g \in WanderPulses, NEW m \in Mobs, Considers(g, m)
    PROVE  /\ tour[g].op # "asleep" /\ m \in tour[g].alive
           /\ SeenAt(g, m) \in Places /\ InZone(m, SeenAt(g, m))
<1>1. KeepsTour(tour[g])
  BY DEF WanderInv, ToursKeep
<1> QED BY <1>1 DEF KeepsTour, Considers, SeenAt

LEMMA StaysTurns ==
    ASSUME WanderInv, NEW g \in WanderPulses, NEW m \in Mobs, Stays(g, m),
           tour[g].op # "asleep", UNCHANGED fled
    PROVE  /\ Paced'
           /\ ToursKeep'
<1> DEFINE t == Walking(g, tour[g].left \ {m})
<1>2. KeepsTour(tour[g])
  BY DEF WanderInv, ToursKeep
<1>3. KeepsTour(t)
  BY <1>2 DEF KeepsTour, Walking
<1>4. Turns(g, t)
  BY DEF Stays
<1> HIDE DEF t
<1> QED BY <1>3, <1>4, TurnKeeps

LEMMA HeadsTurns ==
    ASSUME WanderInv, NEW g \in WanderPulses, NEW m \in Mobs, m \in tour[g].alive,
           tour[g].op # "asleep", UNCHANGED fled,
           NEW op \in {"aim", "move"}, NEW to, NEW goal,
           Heads(g, op, m, to, goal),
           op = "move" => to \in Places /\ InZone(m, to)
    PROVE  /\ Paced'
           /\ ToursKeep'
<1> DEFINE t == [op |-> op, seen |-> tour[g].seen, alive |-> tour[g].alive,
                 left |-> tour[g].left \ {m}, mob |-> m, to |-> to, goal |-> goal]
<1>2. KeepsTour(tour[g])
  BY DEF WanderInv, ToursKeep
<1>3. KeepsTour(t)
  BY <1>2 DEF KeepsTour
<1>4. Turns(g, t)
  BY DEF Heads
<1> HIDE DEF t
<1> QED BY <1>3, <1>4, TurnKeeps

-----------------------------------------------------------------------------
LEMMA WanderStarts == WanderInit => WanderInv
<1> SUFFICES ASSUME WanderInit PROVE WanderInv
  OBVIOUS
<1>1. WanderTypes
  BY WanderAssumption DEF WanderInit, WanderTypes, Paced
<1>2. ToursKeep
  BY DEF WanderInit, ToursKeep, KeepsTour, Asleep
<1>3. KeepsToItsZone
  BY DEF WanderInit, KeepsToItsZone
<1> QED BY <1>1, <1>2, <1>3 DEF WanderInv

\* A step that leaves the mobs where they are.
LEMMA GoalsOnly ==
    ASSUME WanderInv, UNCHANGED <<at, fled>>,
           Paced', ToursKeep'
    PROVE  WanderInv'
<1> QED BY DEF WanderInv, WanderTypes, KeepsToItsZone

LEMMA ConsiderKeeps ==
    ASSUME WanderInv, NEW g \in WanderPulses, NEW m \in Mobs,
           StepOnPath(g, m) \/ PickGoal(g, m) \/ KeepGoal(g, m) \/ Roam(g, m)
    PROVE  WanderInv'
<1>0. Considers(g, m) /\ UNCHANGED <<at, fled>>
  BY DEF StepOnPath, PickGoal, KeepGoal, Roam
<1>1. /\ tour[g].op # "asleep" /\ m \in tour[g].alive
      /\ SeenAt(g, m) \in Places /\ InZone(m, SeenAt(g, m))
  BY <1>0, ConsideredIn
<1> DEFINE Tours == /\ Paced'
                    /\ ToursKeep'
<1>3. Stays(g, m) => Tours
  BY <1>0, <1>1, StaysTurns
<1>4. ASSUME NEW q \in Neighbors(SeenAt(g, m), ZoneOf[SeenAt(g, m)]),
             Heads(g, "move", m, q, Nowhere)
      PROVE  Tours
  <2>1. q \in Places /\ ZoneOf[q] = ZoneOf[SeenAt(g, m)]
    BY NeighborsInZone
  <2>2. InZone(m, q)
    BY <2>1, <1>1 DEF InZone
  <2> QED BY <2>1, <2>2, <1>0, <1>1, <1>4, HeadsTurns
<1>5. ASSUME NEW q, Heads(g, "aim", m, Nowhere, q)
      PROVE  Tours
  BY <1>0, <1>1, <1>5, HeadsTurns
<1> HIDE DEF Tours
<1>6. CASE StepOnPath(g, m)
  <2>1. Tours
    BY <1>6, <1>3, <1>4 DEF StepOnPath
  <2> QED BY <2>1, <1>0, <1>6, GoalsOnly DEF Tours
<1>7. CASE PickGoal(g, m)
  <2>1. Tours
    BY <1>7, <1>3, <1>5 DEF PickGoal
  <2> QED BY <2>1, <1>0, <1>7, GoalsOnly DEF Tours
<1>8. CASE KeepGoal(g, m)
  <2>1. Tours
    BY <1>8, <1>5 DEF KeepGoal
  <2> QED BY <2>1, <1>0, <1>8, GoalsOnly DEF Tours
<1>9. CASE Roam(g, m)
  <2>1. Tours
    BY <1>9, <1>3, <1>4 DEF Roam
  <2> QED BY <2>1, <1>0, <1>9, GoalsOnly DEF Tours
<1> QED BY <1>6, <1>7, <1>8, <1>9

LEMMA AimKeeps ==
    ASSUME WanderInv, NEW g \in WanderPulses, Aim(g)
    PROVE  WanderInv'
<1> DEFINE m == tour[g].mob
           steps == NextSteps(SeenAt(g, m), tour[g].goal, breed[m].radius)
<1>1. KeepsTour(tour[g]) /\ tour[g].op = "aim"
  BY DEF WanderInv, ToursKeep, Aim
<1>2. m \in tour[g].alive /\ m \in Mobs /\ InZone(m, SeenAt(g, m))
  BY <1>1 DEF KeepsTour, SeenAt
<1>3. UNCHANGED <<at, fled>>
  BY DEF Aim
<1>4. CASE steps = {}
  <2>1. Stays(g, m)
    BY <1>4 DEF Aim
  <2> QED BY <2>1, <1>1, <1>2, <1>3, StaysTurns, GoalsOnly
<1>5. CASE steps # {}
  <2>1. PICK q \in steps : Heads(g, "move", m, q, tour[g].goal)
    BY <1>5 DEF Aim
  <2>2. q \in Places /\ ZoneOf[q] = ZoneOf[SeenAt(g, m)]
    BY StepsInZone
  <2>3. InZone(m, q)
    BY <2>2, <1>2 DEF InZone
  <2> HIDE DEF m
  <2>4. Paced' /\ ToursKeep'
    BY <2>1, <2>2, <2>3, <1>1, <1>2, <1>3, HeadsTurns
  <2> QED BY <2>4, <1>3, GoalsOnly
<1> QED BY <1>4, <1>5

LEMMA MoveKeeps ==
    ASSUME WanderInv, NEW g \in WanderPulses, Move(g)
    PROVE  WanderInv'
<1> DEFINE m == tour[g].mob
<1>1. KeepsTour(tour[g]) /\ tour[g].op = "move"
  BY DEF WanderInv, ToursKeep, Move
<1>2. m \in Mobs /\ tour[g].to \in Places /\ InZone(m, tour[g].to)
  BY <1>1 DEF KeepsTour
<1>3. Stays(g, m) /\ UNCHANGED fled
  BY DEF Move
<1>4. Paced' /\ ToursKeep'
  BY <1>1, <1>2, <1>3, StaysTurns
<1>5. at' = at \/ at' = [at EXCEPT ![m] = tour[g].to]
  BY DEF Move
<1>6. at' \in [Mobs -> Places \cup {Nowhere}] /\ fled' \in SUBSET Mobs
  BY <1>5, <1>2, <1>3 DEF WanderInv, WanderTypes
<1>7. KeepsToItsZone'
  BY <1>5, <1>2, <1>3 DEF WanderInv, WanderTypes, KeepsToItsZone, InZone
<1> QED BY <1>4, <1>6, <1>7 DEF WanderInv, WanderTypes

LEMMA ListKeeps ==
    ASSUME WanderInv, NEW g \in WanderPulses, Wake(g) \/ PruneGoals(g)
    PROVE  WanderInv'
<1>1. UNCHANGED <<at, fled>>
  BY DEF Wake, PruneGoals
<1>2. CASE Wake(g)
  <2> DEFINE here == {m \in Mobs : at[m] # Nowhere}
             t == [op |-> "walk", seen |-> at, alive |-> here, left |-> here]
  <2>1. KeepsTour(t)
    BY DEF KeepsTour, InZone, WanderInv, WanderTypes, KeepsToItsZone
  <2>2. Turns(g, t)
    BY <1>2 DEF Wake
  <2> HIDE DEF t
  <2>3. Paced' /\ ToursKeep'
    BY <2>1, <2>2, <1>1, TurnKeeps
  <2> QED BY <2>3, <1>1, GoalsOnly
<1>3. CASE PruneGoals(g)
  <2>1. KeepsTour(Asleep)
    BY DEF KeepsTour, Asleep
  <2>2. Turns(g, Asleep)
    BY <1>3 DEF PruneGoals
  <2>3. Paced' /\ ToursKeep'
    BY <2>1, <2>2, <1>1, TurnKeeps
  <2> QED BY <2>3, <1>1, GoalsOnly
<1> QED BY <1>2, <1>3

\* Flights and deaths leave the pulses alone.
LEMMA AwayKeeps ==
    ASSUME WanderInv, NEW m \in Mobs, FleeRoom(m) \/ Despawn(m)
    PROVE  WanderInv'
<1>1. tour' = tour /\ fled \subseteq fled' /\ fled' \in SUBSET Mobs
  BY DEF WanderInv, WanderTypes, FleeRoom, Despawn
<1>2. \E r \in Places \cup {Nowhere} : at' = [at EXCEPT ![m] = r]
  BY WanderAssumption DEF FleeRoom, Despawn, Walkable
<1>3. m \in fled' \/ at'[m] = Nowhere
  BY DEF WanderInv, WanderTypes, FleeRoom, Despawn
<1>4. Paced' /\ ToursKeep'
  BY <1>1 DEF WanderInv, WanderTypes, Paced, ToursKeep, KeepsTour, InZone
<1>5. at' \in [Mobs -> Places \cup {Nowhere}]
  BY <1>2 DEF WanderInv, WanderTypes
<1>6. KeepsToItsZone'
  BY <1>1, <1>2, <1>3 DEF WanderInv, WanderTypes, KeepsToItsZone
<1> QED BY <1>1, <1>4, <1>5, <1>6 DEF WanderInv, WanderTypes

LEMMA WanderSteps == WanderInv /\ [WanderNext]_wanderVars => WanderInv'
<1> SUFFICES ASSUME WanderInv, [WanderNext]_wanderVars PROVE WanderInv'
  OBVIOUS
<1>1. CASE \E g \in WanderPulses : Stroll(g)
  BY <1>1, ConsiderKeeps, AimKeeps, MoveKeeps, ListKeeps DEF Stroll
<1>2. CASE UNCHANGED <<at, fled, tour>>
  BY <1>2 DEF WanderInv, WanderTypes, Paced, ToursKeep, KeepsTour, InZone, KeepsToItsZone
<1>3. CASE \E m \in Mobs : FleeRoom(m) \/ Despawn(m)
  BY <1>3, AwayKeeps
<1>4. UNCHANGED wanderVars \/ (\E x \in Doorways : TurnDoor(x)) => UNCHANGED <<at, fled, tour>>
  BY DEF wanderVars, TurnDoor
<1> QED BY <1>1, <1>2, <1>3, <1>4 DEF WanderNext

\* However stale the lists that overlapping pulses move a mob from, and
\* whatever doors do meanwhile, one that never ran from a fight is in the zone
\* it was spawned in: every branch of wander.go asks for the zone of the room
\* it moves from, and that is the zone the mob was in then.
THEOREM MobsKeepToTheirZone == WanderSpec => []KeepsToItsZone
<1>1. WanderInv => KeepsToItsZone
  BY DEF WanderInv
<1> QED BY <1>1, WanderStarts, WanderSteps, PTL DEF WanderSpec

-----------------------------------------------------------------------------
(* The pool of script states and the slots of deferred runs.               *)

Stages == {"copied", "borrow", "script", "slot", "over", "fault", "success"}
Counters == [faults : Nat, disabled : BOOLEAN]
Frame == [at : Stages, seen : Counters, left : Int]

DeferredAt(v) == {d \in Deferred : deferred[d] = v}
Waiting == DeferredAt("set")
Late == DeferredAt("script")

ScriptsTypes ==
    /\ free \in Nat /\ outstanding \in Int
    /\ calls \in [Sources -> Seq(Frame)]
    /\ deferred \in [Deferred -> {"none", "set", "borrow", "script"}]
    /\ triggers \in Counters /\ row \in Counters

\* The stages in which a call has a state of the pool.
Held == {"script", "slot", "over"}

\* At any moment finitely many events are being handled and scripts deferred.
FewAtATime ==
    /\ IsFiniteSet(Waiting) /\ IsFiniteSet(Late)
    /\ \A ats \in SUBSET Held : IsFiniteSet(Holding(ats))

ScriptsInv == ScriptsTypes /\ FewAtATime /\ SlotsBalance

One(b) == IF b THEN 1 ELSE 0

LEMMA HoldingIs ==
    ASSUME ScriptsTypes, NEW ats
    PROVE  Holding(ats) = {f \in Sources \X Nat : f[2] \in 1..Len(calls[f[1]]) /\ calls[f[1]][f[2]].at \in ats}
<1>1. \A g \in Sources : DOMAIN calls[g] = 1..Len(calls[g]) /\ Len(calls[g]) \in Nat
  BY DEF ScriptsTypes
<1> QED BY <1>1 DEF Holding, Frames

\* The calls of others and the outer calls are left alone.
Only(g) ==
    /\ calls' \in [Sources -> Seq(Frame)]
    /\ \A h \in Sources \ {g} : calls'[h] = calls[h]
    /\ \A i \in 1..(Len(calls[g]) - 1) : i \in DOMAIN calls'[g] /\ calls'[g][i].at = calls[g][i].at

\* The innermost call goes from one stage to another.
LEMMA StageCount ==
    ASSUME ScriptsTypes, NEW ats, IsFiniteSet(Holding(ats)), NEW g \in Sources, Busy(g),
           Only(g), Len(calls'[g]) = Len(calls[g]),
           NEW a, calls'[g][Len(calls[g])].at = a
    PROVE  /\ IsFiniteSet(Holding(ats)')
           /\ Cardinality(Holding(ats)') =
                 Cardinality(Holding(ats)) + One(a \in ats) - One(Inner(g).at \in ats)
<1> DEFINE n == Len(calls[g])
           top == <<g, n>>
           H(c) == {f \in Sources \X Nat : f[2] \in 1..Len(c[f[1]]) /\ c[f[1]][f[2]].at \in ats}
<1>1. n \in Nat \ {0} /\ calls[g] \in Seq(Frame)
  BY DEF ScriptsTypes, Busy
<1>2. Holding(ats) = H(calls)
  BY HoldingIs
<1>3. Holding(ats)' = H(calls')
  <2>1. \A h \in Sources : DOMAIN calls'[h] = 1..Len(calls'[h]) /\ Len(calls'[h]) \in Nat
    BY DEF Only
  <2> QED BY <2>1 DEF Holding, Frames
<1>4. top \in H(calls) <=> Inner(g).at \in ats
  BY <1>1 DEF Inner
<1>5. top \in H(calls') <=> a \in ats
  BY <1>1
<1>6. ASSUME NEW f, f # top PROVE f \in H(calls) <=> f \in H(calls')
  <2>1. CASE f \in Sources \X Nat
    <3>1. CASE f[1] = g
      <4>1. f[2] # n
        BY <3>1, <2>1, <1>6
      <4> QED BY <4>1, <3>1, <2>1, <1>1 DEF Only
    <3>2. CASE f[1] # g
      BY <3>2, <2>1 DEF Only
    <3> QED BY <3>1, <3>2
  <2> QED BY <2>1
<1>7. H(calls') = IF a \in ats THEN H(calls) \cup {top} ELSE H(calls) \ {top}
  BY <1>5, <1>6
<1> HIDE DEF H, top
<1>8. IsFiniteSet(H(calls)) /\ Cardinality(H(calls)) \in Nat
  BY <1>2, FS_CardinalityType
<1>9. CASE a \in ats
  BY <1>9, <1>2, <1>3, <1>4, <1>7, <1>8, FS_AddElement DEF One
<1>10. CASE a \notin ats
  BY <1>10, <1>2, <1>3, <1>4, <1>7, <1>8, FS_RemoveElement DEF One
<1> QED BY <1>9, <1>10

\* A call is begun or left in a stage that holds nothing.
LEMMA OutsideCount ==
    ASSUME ScriptsTypes, NEW ats, NEW g \in Sources,
           calls' \in [Sources -> Seq(Frame)],
           \A h \in Sources \ {g} : calls'[h] = calls[h],
           \A i \in 1..Len(calls[g]) :
              (i \in 1..Len(calls'[g]) /\ calls'[g][i].at = calls[g][i].at) \/ calls[g][i].at \notin ats,
           \A i \in 1..Len(calls'[g]) :
              (i \in 1..Len(calls[g]) /\ calls'[g][i].at = calls[g][i].at) \/ calls'[g][i].at \notin ats
    PROVE  Holding(ats)' = Holding(ats)
<1> DEFINE H(c) == {f \in Sources \X Nat : f[2] \in 1..Len(c[f[1]]) /\ c[f[1]][f[2]].at \in ats}
<1>1. Holding(ats) = H(calls)
  BY HoldingIs
<1>2. Holding(ats)' = H(calls')
  <2>1. \A h \in Sources : DOMAIN calls'[h] = 1..Len(calls'[h]) /\ Len(calls'[h]) \in Nat
    OBVIOUS
  <2> QED BY <2>1 DEF Holding, Frames
<1>3. ASSUME NEW f \in Sources \X Nat PROVE f \in H(calls) <=> f \in H(calls')
  <2>1. CASE f[1] = g
    BY <2>1
  <2>2. CASE f[1] # g
    BY <2>2
  <2> QED BY <2>1, <2>2
<1>4. H(calls) = H(calls')
  BY <1>3
<1> QED BY <1>1, <1>2, <1>4

\* A deferred script goes from one stage to another.
LEMMA DeferredCount ==
    ASSUME ScriptsTypes, NEW v, NEW w, NEW d \in Deferred, deferred' = [deferred EXCEPT ![d] = w],
           IsFiniteSet(DeferredAt(v))
    PROVE  /\ IsFiniteSet(DeferredAt(v)')
           /\ Cardinality(DeferredAt(v)') =
                 Cardinality(DeferredAt(v)) + One(w = v) - One(deferred[d] = v)
<1>1. DeferredAt(v)' = IF w = v THEN DeferredAt(v) \cup {d} ELSE DeferredAt(v) \ {d}
  BY DEF ScriptsTypes, DeferredAt
<1>2. d \in DeferredAt(v) <=> deferred[d] = v
  BY DEF DeferredAt
<1>3. Cardinality(DeferredAt(v)) \in Nat
  BY FS_CardinalityType
<1>4. CASE w = v
  BY <1>4, <1>1, <1>2, <1>3, FS_AddElement DEF One
<1>5. CASE w # v
  BY <1>5, <1>1, <1>2, <1>3, FS_RemoveElement DEF One
<1> QED BY <1>4, <1>5

-----------------------------------------------------------------------------
LEMMA InnerIs ==
    ASSUME ScriptsTypes, NEW g \in Sources, Busy(g)
    PROVE  /\ calls[g] \in Seq(Frame) /\ Len(calls[g]) \in Nat \ {0}
           /\ Inner(g) \in Frame /\ Inner(g) = calls[g][Len(calls[g])]
<1> QED BY DEF ScriptsTypes, Busy, Inner

\* What is counted after a call has gone from its stage to the stage a.
Moved(g, a) ==
    \A ats \in SUBSET Held :
             /\ IsFiniteSet(Holding(ats)')
             /\ Cardinality(Holding(ats)') =
                   Cardinality(Holding(ats)) + One(a \in ats) - One(Inner(g).at \in ats)

LEMMA StageMoves ==
    ASSUME ScriptsTypes, FewAtATime, NEW g \in Sources, Busy(g), NEW a \in Stages,
           NEW f \in Frame, f.at = a,
           calls' = [calls EXCEPT ![g] = [calls[g] EXCEPT ![Len(calls[g])] = f]]
    PROVE  calls' \in [Sources -> Seq(Frame)] /\ Moved(g, a)
<1> DEFINE n == Len(calls[g])
           s == [calls[g] EXCEPT ![n] = f]
<1>1. n \in Nat \ {0} /\ calls[g] \in Seq(Frame)
  BY InnerIs
<1>2. s \in Seq(Frame) /\ Len(s) = n /\ s[n] = f /\ \A i \in 1..(n - 1) : s[i] = calls[g][i]
  BY <1>1
<1>3. calls' \in [Sources -> Seq(Frame)] /\ calls'[g] = s
      /\ \A h \in Sources \ {g} : calls'[h] = calls[h]
  BY <1>2 DEF ScriptsTypes
<1>4. Only(g)
  BY <1>1, <1>2, <1>3 DEF Only
<1>5. ASSUME NEW ats \in SUBSET Held
      PROVE  /\ IsFiniteSet(Holding(ats)')
             /\ Cardinality(Holding(ats)') =
                   Cardinality(Holding(ats)) + One(a \in ats) - One(Inner(g).at \in ats)
  <2>1. IsFiniteSet(Holding(ats))
    BY DEF FewAtATime
  <2>2. Len(calls'[g]) = Len(calls[g]) /\ calls'[g][Len(calls[g])].at = a
    BY <1>2, <1>3
  <2> QED BY <2>1, <2>2, <1>4, StageCount
<1> QED BY <1>3, <1>5 DEF Moved

LEMMA StepMoves ==
    ASSUME ScriptsTypes, FewAtATime, NEW g \in Sources, NEW a \in Stages, Busy(g), Step(g, a)
    PROVE  calls' \in [Sources -> Seq(Frame)] /\ Moved(g, a)
<1> DEFINE f == [Inner(g) EXCEPT !.at = a]
<1>1. f \in Frame /\ f.at = a
  BY InnerIs DEF Frame
<1>2. calls' = [calls EXCEPT ![g] = [calls[g] EXCEPT ![Len(calls[g])] = f]]
  BY DEF Step, Inner
<1> HIDE DEF f
<1> QED BY <1>1, <1>2, StageMoves

\* A call that holds nothing is left.
LEMMA LeaveMoves ==
    ASSUME ScriptsTypes, FewAtATime, NEW g \in Sources, Busy(g), Leave(g),
           Inner(g).at \notin Held
    PROVE  /\ calls' \in [Sources -> Seq(Frame)]
           /\ \A ats \in SUBSET Held : Holding(ats)' = Holding(ats)
<1> DEFINE n == Len(calls[g])
           s == SubSeq(calls[g], 1, n - 1)
<1>1. n \in Nat \ {0} /\ calls[g] \in Seq(Frame)
  BY InnerIs
<1>2. s \in Seq(Frame) /\ Len(s) = n - 1 /\ \A i \in 1..(n - 1) : s[i] = calls[g][i]
  BY <1>1
<1>3. calls' \in [Sources -> Seq(Frame)] /\ calls'[g] = s
      /\ \A h \in Sources \ {g} : calls'[h] = calls[h]
  BY <1>2 DEF ScriptsTypes, Leave
<1>4. calls[g][n].at \notin Held
  BY InnerIs
<1>5. ASSUME NEW ats \in SUBSET Held PROVE Holding(ats)' = Holding(ats)
  <2>1. \A i \in 1..n : (i \in 1..Len(calls'[g]) /\ calls'[g][i].at = calls[g][i].at) \/ calls[g][i].at \notin ats
    BY <1>1, <1>2, <1>3, <1>4
  <2>2. \A i \in 1..Len(calls'[g]) : i \in 1..n /\ calls'[g][i].at = calls[g][i].at
    BY <1>1, <1>2, <1>3
  <2> QED BY <2>1, <2>2, <1>3, OutsideCount
<1> QED BY <1>3, <1>5

LEMMA SpentFrame ==
    ASSUME NEW r \in Frame, NEW a \in Stages
    PROVE  /\ [r EXCEPT !.at = a, !.left = @ - 1] \in Frame
           /\ [r EXCEPT !.at = a, !.left = @ - 1].at = a
<1> DEFINE q == [r EXCEPT !.at = a]
<1>1. q \in Frame /\ q.at = a /\ q.left \in Int
  BY DEF Frame
<1>2. [r EXCEPT !.at = a, !.left = @ - 1] = [q EXCEPT !.left = q.left - 1]
  OBVIOUS
<1> HIDE DEF q
<1> QED BY <1>1, <1>2 DEF Frame

LEMMA PublishMoves ==
    ASSUME ScriptsInv, NEW g \in Sources, Publishes(g)
    PROVE  /\ calls' \in [Sources -> Seq(Frame)]
           /\ \A ats \in SUBSET Held : Holding(ats)' = Holding(ats)
<1> DEFINE n == Len(calls[g])
           s == IF Busy(g) THEN Spend(g, "script") ELSE calls[g]
<1>0. ScriptsTypes
  BY DEF ScriptsInv
<1>1. n \in Nat /\ calls[g] \in Seq(Frame)
  BY <1>0 DEF ScriptsTypes
<1>2. Copied \in Frame /\ Copied.at = "copied"
  BY <1>0, ScriptsAssumption DEF ScriptsTypes, Copied, Frame, Stages
<1>3. s \in Seq(Frame) /\ Len(s) = n /\ \A i \in 1..n : s[i].at = calls[g][i].at
  <2>1. CASE Busy(g)
    <3> DEFINE f == [Inner(g) EXCEPT !.at = "script", !.left = @ - 1]
    <3>1. Inner(g) \in Frame /\ Inner(g).at = "script" /\ n \in Nat \ {0} /\ Inner(g) = calls[g][n]
      BY <2>1, <1>0, InnerIs DEF Publishes, Runs, InnerAt
    <3>2. f \in Frame /\ f.at = "script"
      BY <3>1, SpentFrame DEF Stages
    <3>3. s = [calls[g] EXCEPT ![n] = f]
      BY <2>1, <3>1 DEF Spend
    <3> HIDE DEF f
    <3> QED BY <3>1, <3>2, <3>3, <1>1
  <2>2. CASE ~Busy(g)
    BY <2>2, <1>1
  <2> QED BY <2>1, <2>2
<1>4. calls' = [calls EXCEPT ![g] = Append(s, Copied)]
  BY DEF Publishes
<1> HIDE DEF s
<1>5. /\ Append(s, Copied) \in Seq(Frame) /\ Len(Append(s, Copied)) = n + 1
      /\ Append(s, Copied)[n + 1] = Copied /\ \A i \in 1..n : Append(s, Copied)[i] = s[i]
  BY <1>2, <1>3, <1>1
<1>6. calls' \in [Sources -> Seq(Frame)] /\ calls'[g] = Append(s, Copied)
      /\ \A h \in Sources \ {g} : calls'[h] = calls[h]
  BY <1>4, <1>5, <1>0 DEF ScriptsTypes
<1>7. ASSUME NEW ats \in SUBSET Held PROVE Holding(ats)' = Holding(ats)
  <2>1. \A i \in 1..n : i \in 1..Len(calls'[g]) /\ calls'[g][i].at = calls[g][i].at
    BY <1>1, <1>3, <1>5, <1>6
  <2>2. \A i \in 1..Len(calls'[g]) : (i \in 1..n /\ calls'[g][i].at = calls[g][i].at) \/ calls'[g][i].at \notin ats
    BY <1>1, <1>2, <1>3, <1>5, <1>6 DEF Held
  <2> QED BY <2>1, <2>2, <1>0, <1>6, OutsideCount
<1> QED BY <1>6, <1>7

\* A request for a later run, granted or refused.
LEMMA AcquireMoves ==
    ASSUME ScriptsTypes, FewAtATime, NEW g \in Sources, AcquireWaitSlot(g)
    PROVE  /\ calls' \in [Sources -> Seq(Frame)] /\ Inner(g).at = "script"
           /\ Moved(g, IF outstanding' > MaxOutstandingWaits THEN "over" ELSE "slot")
<1> DEFINE a == IF outstanding' > MaxOutstandingWaits THEN "over" ELSE "slot"
           f == [Inner(g) EXCEPT !.at = a, !.left = @ - 1]
<1>1. Busy(g) /\ Inner(g).at = "script"
  BY DEF AcquireWaitSlot, Runs, InnerAt
<1>2. a \in Stages
  BY DEF Stages
<1>3. calls' = [calls EXCEPT ![g] = Spend(g, a)]
  BY DEF AcquireWaitSlot
<1> HIDE DEF a
<1>4. f \in Frame /\ f.at = a
  BY <1>1, <1>2, InnerIs, SpentFrame
<1>5. calls' = [calls EXCEPT ![g] = [calls[g] EXCEPT ![Len(calls[g])] = f]]
  BY <1>1, <1>3, InnerIs DEF Spend
<1> HIDE DEF f
<1>6. calls' \in [Sources -> Seq(Frame)] /\ Moved(g, a)
  BY <1>1, <1>2, <1>4, <1>5, StageMoves
<1> QED BY <1>1, <1>6 DEF a

-----------------------------------------------------------------------------
LEMMA Balances ==
    SlotsBalance <=>
        /\ free + Cardinality(Holding(Held)) + Cardinality(Late) = PoolSize
        /\ outstanding = Cardinality(Waiting) + Cardinality(Holding({"slot", "over"}))
        /\ Cardinality(Waiting) + Cardinality(Holding({"slot"})) <= MaxOutstandingWaits
<1> QED BY Zenon DEF SlotsBalance, Held, Waiting, Late, DeferredAt

LEMMA CountsAreNumbers ==
    ASSUME FewAtATime
    PROVE  /\ {Cardinality(Holding(Held)), Cardinality(Holding({"slot", "over"})),
               Cardinality(Holding({"slot"})), Cardinality(Waiting), Cardinality(Late)} \subseteq Nat
<1>1. {Held, {"slot", "over"}, {"slot"}} \subseteq SUBSET Held
  BY DEF Held
<1>2. \A ats \in SUBSET Held : IsFiniteSet(Holding(ats))
  BY DEF FewAtATime
<1>3. IsFiniteSet(Waiting) /\ IsFiniteSet(Late)
  BY DEF FewAtATime
<1> QED BY <1>1, <1>2, <1>3, FS_CardinalityType

LEMMA ScriptsStart == ScriptsInit => ScriptsInv
<1> SUFFICES ASSUME ScriptsInit PROVE ScriptsInv
  OBVIOUS
<1>1. ScriptsTypes
  BY ScriptsAssumption DEF ScriptsInit, ScriptsTypes, Sound, Counters
<1>2. Waiting = {} /\ Late = {} /\ \A ats : Holding(ats) = {}
  BY DEF ScriptsInit, Waiting, Late, DeferredAt, Holding, Frames
<1>3. FewAtATime
  BY <1>2, FS_EmptySet DEF FewAtATime
<1>4. /\ Cardinality(Holding(Held)) = 0 /\ Cardinality(Holding({"slot", "over"})) = 0
      /\ Cardinality(Holding({"slot"})) = 0 /\ Cardinality(Waiting) = 0 /\ Cardinality(Late) = 0
  BY <1>2, FS_EmptySet
<1>5. free = PoolSize /\ outstanding = 0 /\ PoolSize \in Nat /\ MaxOutstandingWaits \in Nat
  BY ScriptsAssumption DEF ScriptsInit
<1>6. SlotsBalance
  BY <1>4, <1>5, Balances
<1> QED BY <1>1, <1>3, <1>6 DEF ScriptsInv

\* A step of a call from the stage b to the stage a, in numbers.
LEMMA MovedCounts ==
    ASSUME NEW g \in Sources, NEW a, Moved(g, a)
    PROVE  LET b == Inner(g).at IN
           /\ Cardinality(Holding(Held)') = Cardinality(Holding(Held)) + One(a \in Held) - One(b \in Held)
           /\ Cardinality(Holding({"slot", "over"})') = Cardinality(Holding({"slot", "over"}))
                 + One(a \in {"slot", "over"}) - One(b \in {"slot", "over"})
           /\ Cardinality(Holding({"slot"})') = Cardinality(Holding({"slot"}))
                 + One(a \in {"slot"}) - One(b \in {"slot"})
           /\ \A ats \in SUBSET Held : IsFiniteSet(Holding(ats)')
<1>1. Held \in SUBSET Held /\ {"slot", "over"} \in SUBSET Held /\ {"slot"} \in SUBSET Held
  BY DEF Held
<1> QED BY <1>1, Zenon DEF Moved

LEMMA BalancesPrimed ==
    SlotsBalance' <=>
        /\ free' + Cardinality(Holding(Held)') + Cardinality(Late') = PoolSize
        /\ outstanding' = Cardinality(Waiting') + Cardinality(Holding({"slot", "over"})')
        /\ Cardinality(Waiting') + Cardinality(Holding({"slot"})') <= MaxOutstandingWaits
<1> QED BY Zenon DEF SlotsBalance, Held, Waiting, Late, DeferredAt

\* A step of a call that leaves the deferred scripts alone.
LEMMA CallBalances ==
    ASSUME ScriptsInv, NEW g \in Sources, NEW a, Moved(g, a), UNCHANGED deferred,
           LET b == Inner(g).at IN
           /\ free' = free + One(b \in Held) - One(a \in Held) /\ free' >= 0
           /\ outstanding' = outstanding + One(a \in {"slot", "over"}) - One(b \in {"slot", "over"})
           /\ a = "slot" /\ b # "slot" => outstanding' <= MaxOutstandingWaits
    PROVE  free' \in Nat /\ outstanding' \in Int /\ FewAtATime' /\ SlotsBalance'
<1>1. Waiting' = Waiting /\ Late' = Late
  BY DEF Waiting, Late, DeferredAt
<1>2. FewAtATime'
  BY <1>1, MovedCounts DEF FewAtATime, ScriptsInv
<1>3. /\ {Cardinality(Holding(Held)), Cardinality(Holding({"slot", "over"})),
          Cardinality(Holding({"slot"})), Cardinality(Waiting), Cardinality(Late)} \subseteq Nat
      /\ free \in Nat /\ outstanding \in Int /\ PoolSize \in Nat /\ MaxOutstandingWaits \in Nat
  BY CountsAreNumbers, ScriptsAssumption DEF ScriptsInv, ScriptsTypes
<1> DEFINE b == Inner(g).at
<1>4. /\ Cardinality(Holding(Held)') = Cardinality(Holding(Held)) + One(a \in Held) - One(b \in Held)
      /\ Cardinality(Holding({"slot", "over"})') = Cardinality(Holding({"slot", "over"}))
            + One(a \in {"slot", "over"}) - One(b \in {"slot", "over"})
      /\ Cardinality(Holding({"slot"})') = Cardinality(Holding({"slot"}))
            + One(a \in {"slot"}) - One(b \in {"slot"})
  BY MovedCounts
<1>5. /\ free + Cardinality(Holding(Held)) + Cardinality(Late) = PoolSize
      /\ outstanding = Cardinality(Waiting) + Cardinality(Holding({"slot", "over"}))
      /\ Cardinality(Waiting) + Cardinality(Holding({"slot"})) <= MaxOutstandingWaits
  BY Balances DEF ScriptsInv
<1>11. Cardinality(Holding({"slot"})') <= Cardinality(Holding({"slot", "over"})')
      /\ Cardinality(Holding({"slot"})') \in Nat /\ Cardinality(Holding({"slot", "over"})') \in Nat
  <2>1. Holding({"slot"})' \subseteq Holding({"slot", "over"})'
    BY DEF Holding
  <2>2. {"slot", "over"} \in SUBSET Held /\ {"slot"} \in SUBSET Held
    BY DEF Held
  <2>3. IsFiniteSet(Holding({"slot", "over"})') /\ IsFiniteSet(Holding({"slot"})')
    BY <2>2, MovedCounts
  <2> QED BY <2>1, <2>3, FS_Subset, FS_CardinalityType
<1>6. /\ free' = free + One(b \in Held) - One(a \in Held) /\ free' >= 0
      /\ outstanding' = outstanding + One(a \in {"slot", "over"}) - One(b \in {"slot", "over"})
      /\ a = "slot" /\ b # "slot" => outstanding' <= MaxOutstandingWaits
  OBVIOUS
<1>7. free' \in Nat /\ outstanding' \in Int
  BY <1>3, <1>6 DEF One
<1> HIDE DEF b
<1>8. free' + Cardinality(Holding(Held)') + Cardinality(Late') = PoolSize
  BY <1>1, <1>3, <1>4, <1>5, <1>6 DEF One
<1>9. outstanding' = Cardinality(Waiting') + Cardinality(Holding({"slot", "over"})')
  BY <1>1, <1>3, <1>4, <1>5, <1>6 DEF One
<1>10. Cardinality(Waiting') + Cardinality(Holding({"slot"})') <= MaxOutstandingWaits
  <2>1. CASE a = "slot" /\ b # "slot"
    BY <2>1, <1>1, <1>3, <1>6, <1>7, <1>9, <1>11
  <2>2. CASE ~(a = "slot" /\ b # "slot")
    BY <2>2, <1>1, <1>3, <1>4, <1>5 DEF One
  <2> QED BY <2>1, <2>2
<1> QED BY <1>2, <1>7, <1>8, <1>9, <1>10, BalancesPrimed

\* A call that holds nothing is begun, left, or moves on.
LEMMA NothingHeld ==
    ASSUME ScriptsInv, UNCHANGED <<free, outstanding, deferred>>,
           \A ats \in SUBSET Held : Holding(ats)' = Holding(ats)
    PROVE  FewAtATime' /\ SlotsBalance'
<1>1. Waiting' = Waiting /\ Late' = Late
  BY DEF Waiting, Late, DeferredAt
<1>2. Held \in SUBSET Held /\ {"slot", "over"} \in SUBSET Held /\ {"slot"} \in SUBSET Held
  BY DEF Held
<1>3. FewAtATime'
  BY <1>1 DEF FewAtATime, ScriptsInv
<1>4. SlotsBalance'
  <2>1. /\ Holding(Held)' = Holding(Held) /\ Holding({"slot"})' = Holding({"slot"})
        /\ Holding({"slot", "over"})' = Holding({"slot", "over"})
    BY <1>2
  <2> QED BY <2>1, <1>1, Balances, BalancesPrimed DEF ScriptsInv
<1> QED BY <1>3, <1>4

LEMMA CountersTyped ==
    ASSUME NEW g \in Sources, ScriptsInv, RecordFault(g) \/ RecordSuccess(g)
    PROVE  triggers' \in Counters /\ row' \in Counters
<1>1. Inner(g) \in Frame
  BY InnerIs DEF ScriptsInv, RecordFault, RecordSuccess, InnerAt
<1>2. Faulty(Inner(g).seen.faults + 1) \in Counters /\ Sound \in Counters
  BY <1>1 DEF Frame, Counters, Faulty, Sound
<1>3. triggers \in Counters /\ row \in Counters
  BY DEF ScriptsInv, ScriptsTypes
<1> QED BY <1>2, <1>3 DEF RecordFault, RecordSuccess, UpdateFault

\* The deferred scripts after one of them has gone from a stage to another.
LEMMA DeferredMoves ==
    ASSUME ScriptsInv, NEW d \in Deferred, NEW w \in {"none", "set", "borrow", "script"},
           deferred' = [deferred EXCEPT ![d] = w]
    PROVE  /\ deferred' \in [Deferred -> {"none", "set", "borrow", "script"}]
           /\ IsFiniteSet(Waiting') /\ IsFiniteSet(Late')
           /\ Cardinality(Waiting') = Cardinality(Waiting) + One(w = "set") - One(deferred[d] = "set")
           /\ Cardinality(Late') = Cardinality(Late) + One(w = "script") - One(deferred[d] = "script")
<1>1. ScriptsTypes /\ IsFiniteSet(Waiting) /\ IsFiniteSet(Late)
  BY DEF ScriptsInv, FewAtATime
<1>2. IsFiniteSet(DeferredAt("set")) /\ IsFiniteSet(DeferredAt("script"))
  BY <1>1 DEF Waiting, Late
<1>3. /\ IsFiniteSet(DeferredAt("set")')
      /\ Cardinality(DeferredAt("set")') =
            Cardinality(DeferredAt("set")) + One(w = "set") - One(deferred[d] = "set")
  BY <1>1, <1>2, DeferredCount
<1>4. /\ IsFiniteSet(DeferredAt("script")')
      /\ Cardinality(DeferredAt("script")') =
            Cardinality(DeferredAt("script")) + One(w = "script") - One(deferred[d] = "script")
  BY <1>1, <1>2, DeferredCount
<1>5. deferred' \in [Deferred -> {"none", "set", "borrow", "script"}]
  BY <1>1 DEF ScriptsTypes
<1> QED BY <1>3, <1>4, <1>5 DEF Waiting, Late

LEMMA Numbers ==
    ASSUME ScriptsInv
    PROVE  /\ Cardinality(Holding(Held)) \in Nat /\ Cardinality(Holding({"slot", "over"})) \in Nat
           /\ Cardinality(Holding({"slot"})) \in Nat /\ Cardinality(Waiting) \in Nat
           /\ Cardinality(Late) \in Nat
           /\ free \in Nat /\ outstanding \in Int /\ PoolSize \in Nat /\ MaxOutstandingWaits \in Nat
           /\ free + Cardinality(Holding(Held)) + Cardinality(Late) = PoolSize
           /\ outstanding = Cardinality(Waiting) + Cardinality(Holding({"slot", "over"}))
           /\ Cardinality(Waiting) + Cardinality(Holding({"slot"})) <= MaxOutstandingWaits
<1> QED BY CountsAreNumbers, Balances, ScriptsAssumption DEF ScriptsInv, ScriptsTypes

LEMMA ScheduleKeeps ==
    ASSUME ScriptsInv, NEW g \in Sources, Schedule(g)
    PROVE  ScriptsInv'
<1>1. /\ Busy(g) /\ Inner(g).at = "slot" /\ Step(g, "script")
      /\ UNCHANGED <<free, outstanding, triggers, row>>
  BY DEF Schedule, InnerAt
<1>2. PICK d \in Deferred : deferred[d] = "none" /\ deferred' = [deferred EXCEPT ![d] = "set"]
  BY DEF Schedule
<1>3. calls' \in [Sources -> Seq(Frame)] /\ Moved(g, "script")
  BY <1>1, StepMoves DEF ScriptsInv, Stages
<1>4. /\ deferred' \in [Deferred -> {"none", "set", "borrow", "script"}]
      /\ IsFiniteSet(Waiting') /\ IsFiniteSet(Late')
      /\ Cardinality(Waiting') = Cardinality(Waiting) + 1 /\ Cardinality(Late') = Cardinality(Late)
  <2>1. /\ deferred' \in [Deferred -> {"none", "set", "borrow", "script"}]
        /\ IsFiniteSet(Waiting') /\ IsFiniteSet(Late')
        /\ Cardinality(Waiting') = Cardinality(Waiting) + One("set" = "set") - One(deferred[d] = "set")
        /\ Cardinality(Late') = Cardinality(Late) + One("set" = "script") - One(deferred[d] = "script")
    BY <1>2, DeferredMoves
  <2> QED BY <2>1, <1>2, Numbers DEF One
<1>5. /\ \A ats \in SUBSET Held : IsFiniteSet(Holding(ats)')
      /\ Cardinality(Holding(Held)') = Cardinality(Holding(Held))
      /\ Cardinality(Holding({"slot", "over"})') = Cardinality(Holding({"slot", "over"})) - 1
      /\ Cardinality(Holding({"slot"})') = Cardinality(Holding({"slot"})) - 1
  <2>1. /\ Cardinality(Holding(Held)') =
              Cardinality(Holding(Held)) + One("script" \in Held) - One("slot" \in Held)
        /\ Cardinality(Holding({"slot", "over"})') = Cardinality(Holding({"slot", "over"}))
              + One("script" \in {"slot", "over"}) - One("slot" \in {"slot", "over"})
        /\ Cardinality(Holding({"slot"})') = Cardinality(Holding({"slot"}))
              + One("script" \in {"slot"}) - One("slot" \in {"slot"})
        /\ \A ats \in SUBSET Held : IsFiniteSet(Holding(ats)')
    BY <1>1, <1>3, MovedCounts
  <2> QED BY <2>1, Numbers DEF One, Held
<1>6. FewAtATime'
  BY <1>4, <1>5 DEF FewAtATime
<1>7. SlotsBalance'
  BY <1>1, <1>4, <1>5, Numbers, BalancesPrimed
<1> QED BY <1>1, <1>3, <1>4, <1>6, <1>7 DEF ScriptsInv, ScriptsTypes

LEMMA DeferralKeeps ==
    ASSUME ScriptsInv, NEW d \in Deferred, Deferral(d)
    PROVE  ScriptsInv'
<1>1. UNCHANGED <<calls, triggers, row>>
  BY DEF Deferral, TimerFires, DeferredBorrows, DeferredTimesOut, DeferredReturns
<1>2. \A ats : Holding(ats)' = Holding(ats)
  BY <1>1 DEF Holding, Frames
<1>3. ASSUME NEW w \in {"none", "set", "borrow", "script"}, deferred' = [deferred EXCEPT ![d] = w],
             free' = free + One(deferred[d] = "script") - One(w = "script"), free' >= 0,
             outstanding' = outstanding + One(w = "set") - One(deferred[d] = "set"), w # "set"
      PROVE  ScriptsInv'
  <2>1. /\ deferred' \in [Deferred -> {"none", "set", "borrow", "script"}]
        /\ IsFiniteSet(Waiting') /\ IsFiniteSet(Late')
        /\ Cardinality(Waiting') = Cardinality(Waiting) + One(w = "set") - One(deferred[d] = "set")
        /\ Cardinality(Late') = Cardinality(Late) + One(w = "script") - One(deferred[d] = "script")
    BY <1>3, DeferredMoves
  <2>2. free' \in Nat /\ outstanding' \in Int
    BY <1>3, Numbers DEF One
  <2>3. FewAtATime'
    BY <2>1, <1>2 DEF FewAtATime, ScriptsInv
  <2>4. SlotsBalance'
    BY <2>1, <1>2, <1>3, Numbers, BalancesPrimed DEF One
  <2> QED BY <2>1, <2>2, <2>3, <2>4, <1>1 DEF ScriptsInv, ScriptsTypes
<1>4. free \in Nat /\ outstanding \in Int
  BY Numbers
<1>5. CASE TimerFires(d)
  BY <1>3, <1>4, <1>5 DEF TimerFires, One
<1>6. CASE DeferredBorrows(d)
  BY <1>3, <1>4, <1>6 DEF DeferredBorrows, One
<1>7. CASE DeferredTimesOut(d)
  BY <1>3, <1>4, <1>7 DEF DeferredTimesOut, One
<1>8. CASE DeferredReturns(d)
  BY <1>3, <1>4, <1>8 DEF DeferredReturns, One
<1> QED BY <1>5, <1>6, <1>7, <1>8 DEF Deferral

LEMMA BootKeeps ==
    ASSUME ScriptsInv, ServerStops \/ Reload \/ ResetAllFaults
    PROVE  ScriptsInv'
<1>1. CASE ServerStops
  <2>1. Waiting' = {} /\ Late' = {} /\ \A ats : Holding(ats)' = {}
    BY <1>1 DEF ServerStops, Waiting, Late, DeferredAt, Holding, Frames
  <2>2. FewAtATime'
    BY <2>1, FS_EmptySet DEF FewAtATime
  <2>3. /\ Cardinality(Holding(Held)') = 0 /\ Cardinality(Holding({"slot", "over"})') = 0
        /\ Cardinality(Holding({"slot"})') = 0 /\ Cardinality(Waiting') = 0 /\ Cardinality(Late') = 0
    BY <2>1, FS_EmptySet
  <2>4. free' = PoolSize /\ outstanding' = 0
    BY <1>1 DEF ServerStops
  <2>5. SlotsBalance'
    BY <2>3, <2>4, Numbers, BalancesPrimed
  <2>6. ScriptsTypes'
    BY <1>1, <2>4, Numbers DEF ServerStops, ScriptsInv, ScriptsTypes
  <2> QED BY <2>2, <2>5, <2>6 DEF ScriptsInv
<1>2. CASE Reload \/ ResetAllFaults
  <2>1. UNCHANGED <<free, calls, deferred, outstanding>>
    BY <1>2 DEF Reload, ResetAllFaults
  <2>2. triggers' \in Counters /\ row' \in Counters
    <3>1. Sound \in Counters
      BY DEF Sound, Counters
    <3> QED BY <1>2, <3>1 DEF Reload, ResetAllFaults, ScriptsInv, ScriptsTypes
  <2>3. \A ats : Holding(ats)' = Holding(ats)
    BY <2>1 DEF Holding, Frames
  <2> QED BY <2>1, <2>2, <2>3, NothingHeld DEF ScriptsInv, ScriptsTypes
<1> QED BY <1>1, <1>2

LEMMA CallKeeps ==
    ASSUME ScriptsInv, NEW g \in Sources,
           Publishes(g) \/ Call(g) \/ Ends(g) \/ AcquireWaitSlot(g)
    PROVE  ScriptsInv'
<1>0. /\ ScriptsTypes /\ FewAtATime /\ free \in Nat /\ outstanding \in Int
      /\ deferred \in [Deferred -> {"none", "set", "borrow", "script"}]
      /\ triggers \in Counters /\ row \in Counters
  BY DEF ScriptsInv, ScriptsTypes
<1>1. CASE Publishes(g)
  <2>1. UNCHANGED <<free, outstanding, deferred, triggers, row>>
    BY <1>1 DEF Publishes
  <2> QED BY <2>1, <1>0, <1>1, PublishMoves, NothingHeld DEF ScriptsInv, ScriptsTypes
<1>2. CASE Leave(g) /\ Inner(g).at \notin Held /\ Busy(g)
           /\ UNCHANGED <<free, outstanding, deferred>> /\ triggers' \in Counters /\ row' \in Counters
  BY <1>2, <1>0, LeaveMoves, NothingHeld DEF ScriptsInv, ScriptsTypes
<1>3. ASSUME NEW a \in Stages, Busy(g), Step(g, a), UNCHANGED <<deferred, triggers, row>>,
             LET b == Inner(g).at IN
             /\ free' = free + One(b \in Held) - One(a \in Held) /\ free' >= 0
             /\ outstanding' = outstanding + One(a \in {"slot", "over"}) - One(b \in {"slot", "over"})
             /\ a = "slot" /\ b # "slot" => outstanding' <= MaxOutstandingWaits
      PROVE  ScriptsInv'
  <2>1. calls' \in [Sources -> Seq(Frame)] /\ Moved(g, a)
    BY <1>0, <1>3, StepMoves
  <2>2. free' \in Nat /\ outstanding' \in Int /\ FewAtATime' /\ SlotsBalance'
    BY <2>1, <1>3, CallBalances
  <2> QED BY <2>1, <2>2, <1>0, <1>3 DEF ScriptsInv, ScriptsTypes
<1>4. CASE FireTurn(g)
  <2>1. InnerAt(g, "copied") /\ UNCHANGED <<free, outstanding, deferred, triggers, row>>
    BY <1>4 DEF FireTurn
  <2>2. CASE Leave(g)
    BY <2>1, <2>2, <1>0, <1>2 DEF InnerAt, Held
  <2>3. CASE Step(g, "borrow")
    BY <2>1, <2>3, <1>0, <1>3 DEF InnerAt, Held, Stages, One
  <2> QED BY <2>2, <2>3, <1>4 DEF FireTurn
<1>5. CASE Borrow(g)
  BY <1>5, <1>0, <1>3 DEF Borrow, InnerAt, Held, Stages, One
<1>6. CASE BorrowTimesOut(g)
  BY <1>6, <1>0, <1>3 DEF BorrowTimesOut, InnerAt, Held, Stages, One
<1>7. CASE RecordFault(g) \/ RecordSuccess(g)
  <2>1. /\ Busy(g) /\ Inner(g).at \notin Held /\ Leave(g)
        /\ UNCHANGED <<free, outstanding, deferred>>
    BY <1>7 DEF RecordFault, RecordSuccess, InnerAt, Held
  <2> QED BY <2>1, <1>2, <1>7, CountersTyped
<1>8. CASE Schedule(g)
  BY <1>8, ScheduleKeeps
<1>9. CASE RefuseWait(g)
  BY <1>9, <1>0, <1>3 DEF RefuseWait, InnerAt, Held, Stages, One
<1>10. CASE Returns(g)
  BY <1>10, <1>0, <1>3 DEF Returns, InnerAt, Held, Stages, One
<1>11. CASE Raises(g)
  BY <1>11, <1>0, <1>3 DEF Raises, InnerAt, Held, Stages, One
<1>12. CASE AcquireWaitSlot(g)
  <2> DEFINE a == IF outstanding' > MaxOutstandingWaits THEN "over" ELSE "slot"
  <2>1. /\ calls' \in [Sources -> Seq(Frame)] /\ Inner(g).at = "script" /\ Moved(g, a)
    BY <1>0, <1>12, AcquireMoves
  <2>2. UNCHANGED <<free, deferred, triggers, row>> /\ outstanding' = outstanding + 1
    BY <1>12 DEF AcquireWaitSlot
  <2>3. a \in {"slot", "over"} /\ a \in Held /\ (a = "slot" => outstanding' <= MaxOutstandingWaits)
    BY <2>2, <1>0, ScriptsAssumption DEF Held
  <2> HIDE DEF a
  <2>4. free' \in Nat /\ outstanding' \in Int /\ FewAtATime' /\ SlotsBalance'
    <3>1. LET b == Inner(g).at IN
          /\ free' = free + One(b \in Held) - One(a \in Held) /\ free' >= 0
          /\ outstanding' = outstanding + One(a \in {"slot", "over"}) - One(b \in {"slot", "over"})
          /\ a = "slot" /\ b # "slot" => outstanding' <= MaxOutstandingWaits
      BY <2>1, <2>2, <2>3, <1>0 DEF One, Held
    <3> QED BY <3>1, <2>1, <2>2, CallBalances
  <2> QED BY <2>1, <2>2, <2>4, <1>0 DEF ScriptsInv, ScriptsTypes
<1> QED BY <1>1, <1>4, <1>5, <1>6, <1>7, <1>8, <1>9, <1>10, <1>11, <1>12 DEF Call, Ends

\* No order of requests, refusals, timers, nested scripts, stops and boots
\* loses a state of the pool or a slot of the deferred runs, for any number of
\* goroutines, a pool of any size and any cap: each counter is what the code
\* still holds (lua_bindings.go acquires and releases in different functions).
THEOREM SlotsAlwaysBalance == ScriptsSpec => []SlotsBalance
<1>1. ScriptsInv /\ [ScriptsNext]_scriptVars => ScriptsInv'
  <2> SUFFICES ASSUME ScriptsInv, [ScriptsNext]_scriptVars PROVE ScriptsInv'
    OBVIOUS
  <2>1. CASE UNCHANGED scriptVars
    BY <2>1, NothingHeld DEF scriptVars, ScriptsInv, ScriptsTypes, Holding, Frames
  <2> QED BY <2>1, CallKeeps, DeferralKeeps, BootKeeps DEF ScriptsNext
<1>2. ScriptsInv => SlotsBalance
  BY DEF ScriptsInv
<1> QED BY <1>1, <1>2, ScriptsStart, PTL DEF ScriptsSpec

=============================================================================
