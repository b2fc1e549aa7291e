------------------------------ MODULE Scripts ------------------------------
(***************************************************************************)
(* Triggers and the scripts they run (internal/trigger, internal/lua,      *)
(* cmd/server/lua_bindings.go).  A goroutine that publishes an event copies *)
(* the triggers of the event and runs each one's script in a state borrowed *)
(* from a pool, for at most CallTimeout.  What a script does may publish    *)
(* another event, whose scripts run inside it, on another state of the same *)
(* pool.  A script may also ask for another to be run later; how many may   *)
(* be asked for is capped.  Faults in a row disable a trigger.              *)
(*                                                                         *)
(* One trigger stands for all.  What scripts do to characters, items and    *)
(* quests is in the modules of those.                                       *)
(***************************************************************************)
EXTENDS Integers, Sequences, FiniteSets

CONSTANTS
    Sources,         \* goroutines that publish: sessions, pulses
    PoolSize,        \* states of the pool (8)
    CallTimeout,     \* how many things a script does before its deadline
    FaultThreshold,  \* faults in a row that disable a trigger (5)
    MaxOutstandingWaits,
    Deferred         \* bound: the deferred runs at a time, beyond the cap

ASSUME ScriptsAssumption ==
    /\ {PoolSize, CallTimeout, FaultThreshold} \subseteq Nat \ {0}
    /\ MaxOutstandingWaits \in Nat

VARIABLES
    server,       \* "up", "stopped", "loaded"
    free,         \* states in the pool
    calls,        \* goroutine -> its calls of Fire, innermost last
    deferred,     \* deferred run -> "none", "set", "borrow", "script"
    outstanding,  \* outstandingWaits
    triggers,     \* the trigger in memory: [faults, disabled]
    row           \* the trigger in its table

scriptVars == <<server, free, calls, deferred, outstanding, triggers, row>>

Sound == [faults |-> 0, disabled |-> FALSE]
Faulty(n) == [faults |-> n, disabled |-> n >= FaultThreshold]

ScriptsInit ==
    /\ server = "up" /\ free = PoolSize /\ calls = [g \in Sources |-> <<>>]
    /\ deferred = [d \in Deferred |-> "none"] /\ outstanding = 0
    /\ triggers = Sound /\ row = Sound

Busy(g) == calls[g] # <<>>
Inner(g) == calls[g][Len(calls[g])]
InnerAt(g, at) == Busy(g) /\ Inner(g).at = at
Step(g, at) == calls' = [calls EXCEPT ![g][Len(calls[g])].at = at]
Runs(g) == InnerAt(g, "script") /\ Inner(g).left > 0
Spend(g, at) == [calls[g] EXCEPT ![Len(calls[g])].at = at, ![Len(calls[g])].left = @ - 1]
Leave(g) == calls' = [calls EXCEPT ![g] = SubSeq(@, 1, Len(@) - 1)]

(***************************************************************************)
(* Events                                                                  *)
(***************************************************************************)

\* The triggers of an event are copied with their counters of this moment.
Copied == [at |-> "copied", seen |-> triggers, left |-> CallTimeout]

\* An event is published, by the game or by what a script does.
Publishes(g) ==
    /\ server = "up" /\ (~Busy(g) \/ Runs(g))
    /\ calls' = [calls EXCEPT ![g] =
          Append(IF Busy(g) THEN Spend(g, "script") ELSE @, Copied)]
    /\ UNCHANGED <<server, free, deferred, outstanding, triggers, row>>

\* The turn of the trigger comes, after those before it in the copy.
FireTurn(g) ==
    /\ InnerAt(g, "copied")
    /\ IF Inner(g).seen.disabled THEN Leave(g) ELSE Step(g, "borrow")
    /\ UNCHANGED <<server, free, deferred, outstanding, triggers, row>>

Borrow(g) ==
    /\ InnerAt(g, "borrow") /\ free > 0 /\ free' = free - 1 /\ Step(g, "script")
    /\ UNCHANGED <<server, deferred, outstanding, triggers, row>>

\* Mutant: only the outermost call has a deadline.
BorrowOuterTimesOut(g) ==
    /\ InnerAt(g, "borrow") /\ Len(calls[g]) = 1 /\ Step(g, "fault")
    /\ UNCHANGED <<server, free, deferred, outstanding, triggers, row>>

BorrowTimesOut(g) ==
    /\ InnerAt(g, "borrow") /\ Step(g, "fault")
    /\ UNCHANGED <<server, free, deferred, outstanding, triggers, row>>

\* The script returns.
Returns(g) ==
    /\ InnerAt(g, "script") /\ Step(g, "success") /\ free' = free + 1
    /\ UNCHANGED <<server, deferred, outstanding, triggers, row>>

\* It raises an error, or its time is up.
Raises(g) ==
    /\ InnerAt(g, "script") /\ Step(g, "fault") /\ free' = free + 1
    /\ UNCHANGED <<server, deferred, outstanding, triggers, row>>

\* In memory, and in the table if that succeeds.
UpdateFault(counters) ==
    /\ triggers' = counters
    /\ row' = counters \/ UNCHANGED row

\* The counters are those of the copy, not of the moment.
RecordFault(g) ==
    /\ InnerAt(g, "fault") /\ UpdateFault(Faulty(Inner(g).seen.faults + 1)) /\ Leave(g)
    /\ UNCHANGED <<server, free, deferred, outstanding>>

RecordSuccess(g) ==
    /\ InnerAt(g, "success")
    /\ IF Inner(g).seen.faults = 0 THEN UNCHANGED <<triggers, row>>
       ELSE UpdateFault(Sound)
    /\ Leave(g)
    /\ UNCHANGED <<server, free, deferred, outstanding>>

(***************************************************************************)
(* wait, wait_ms                                                           *)
(***************************************************************************)
AcquireWaitSlot(g) ==
    /\ Runs(g) /\ outstanding' = outstanding + 1
    /\ calls' = [calls EXCEPT ![g] =
          Spend(g, IF outstanding' > MaxOutstandingWaits THEN "over" ELSE "slot")]
    /\ UNCHANGED <<server, free, deferred, triggers, row>>

Schedule(g) ==
    /\ InnerAt(g, "slot") /\ Step(g, "script")
    /\ \E d \in Deferred : deferred[d] = "none" /\ deferred' = [deferred EXCEPT ![d] = "set"]
    /\ UNCHANGED <<server, free, outstanding, triggers, row>>

\* Mutant: a refused request keeps its slot.
RefuseWaitKeeps(g) ==
    /\ InnerAt(g, "over") /\ Step(g, "script")
    /\ UNCHANGED <<server, free, deferred, outstanding, triggers, row>>

RefuseWait(g) ==
    /\ InnerAt(g, "over") /\ Step(g, "script") /\ outstanding' = outstanding - 1
    /\ UNCHANGED <<server, free, deferred, triggers, row>>

TimerFires(d) ==
    /\ server = "up" /\ deferred[d] = "set"
    /\ deferred' = [deferred EXCEPT ![d] = "borrow"] /\ outstanding' = outstanding - 1
    /\ UNCHANGED <<server, free, calls, triggers, row>>

\* A deferred script is given nothing but the view of its event.
DeferredBorrows(d) ==
    /\ deferred[d] = "borrow" /\ free > 0 /\ free' = free - 1
    /\ deferred' = [deferred EXCEPT ![d] = "script"]
    /\ UNCHANGED <<server, calls, outstanding, triggers, row>>

DeferredTimesOut(d) ==
    /\ deferred[d] = "borrow" /\ deferred' = [deferred EXCEPT ![d] = "none"]
    /\ UNCHANGED <<server, free, calls, outstanding, triggers, row>>

DeferredReturns(d) ==
    /\ deferred[d] = "script" /\ deferred' = [deferred EXCEPT ![d] = "none"]
    /\ free' = free + 1
    /\ UNCHANGED <<server, calls, outstanding, triggers, row>>

(***************************************************************************)
(* Stop and boot                                                           *)
(***************************************************************************)
ServerStops ==
    /\ server = "up" /\ server' = "stopped"
    /\ free' = PoolSize /\ calls' = [g \in Sources |-> <<>>]
    /\ deferred' = [d \in Deferred |-> "none"] /\ outstanding' = 0
    /\ UNCHANGED <<triggers, row>>

Reload ==
    /\ server = "stopped" /\ server' = "loaded" /\ triggers' = row
    /\ UNCHANGED <<free, calls, deferred, outstanding, row>>

ResetAllFaults ==
    /\ server = "loaded" /\ server' = "up" /\ row' = Sound
    /\ UNCHANGED <<free, calls, deferred, outstanding, triggers>>

Call(g) ==
    \/ FireTurn(g) \/ Borrow(g) \/ BorrowTimesOut(g) \/ RecordFault(g) \/ RecordSuccess(g)
    \/ Schedule(g) \/ RefuseWait(g)
Ends(g) == Returns(g) \/ Raises(g)
Deferral(d) == TimerFires(d) \/ DeferredBorrows(d) \/ DeferredTimesOut(d) \/ DeferredReturns(d)

ScriptsNext ==
    \/ \E g \in Sources : Publishes(g) \/ Call(g) \/ Ends(g) \/ AcquireWaitSlot(g)
    \/ \E d \in Deferred : Deferral(d)
    \/ ServerStops \/ Reload \/ ResetAllFaults

ScriptsSpec == ScriptsInit /\ [][ScriptsNext]_scriptVars

(***************************************************************************)
(* Properties                                                              *)
(***************************************************************************)
Frames == UNION {{<<g, i>> : i \in DOMAIN calls[g]} : g \in Sources}
Holding(ats) == {f \in Frames : calls[f[1]][f[2]].at \in ats}

\* However requests, refusals, timers and nested scripts interleave, the pool
\* loses no state, the counter of deferred runs is that of the runs that wait
\* and of the requests under way, and the cap holds for the runs that wait
\* (lua_bindings.go says of it that it is soft).
SlotsBalance ==
    LET waiting == {d \in Deferred : deferred[d] = "set"}
    IN /\ free + Cardinality(Holding({"script", "slot", "over"}))
          + Cardinality({d \in Deferred : deferred[d] = "script"}) = PoolSize
       /\ outstanding = Cardinality(waiting) + Cardinality(Holding({"slot", "over"}))
       /\ Cardinality(waiting) + Cardinality(Holding({"slot"})) <= MaxOutstandingWaits

\* Whoever publishes an event gets back, also when the scripts of the event
\* publish others and every state of the pool is held by a call that waits for
\* another: the deadline of a call counts the wait for a state too.
ScriptsEnd == \A g \in Sources : Busy(g) ~> ~Busy(g)

\* "Operator-managed recovery is the only path back to enabled, so a re-deploy
\* intentionally resets the world" (main.go:597-599).
BootEnables == [][server = "loaded" /\ server' = "up" => ~triggers'.disabled]_scriptVars
=============================================================================
