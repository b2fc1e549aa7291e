------------------------------- MODULE Server -------------------------------
(***************************************************************************)
(* The life of the server process (cmd/server): it boots, or exits at the  *)
(* first thing it cannot load; serves connections and the heartbeat; is    *)
(* told to stop by a signal or by an administrator's countdown, which      *)
(* another may abort; drains, flushes and stops its parts in order; and    *)
(* exits or executes itself again.                                         *)
(*                                                                         *)
(* No write to a client has a deadline: whoever writes to a client that    *)
(* does not read waits until it reads or its connection breaks.  That      *)
(* holds for a countdown's broadcasts and for the worker of the event bus, *)
(* which sends GMCP messages.  Nothing makes a client do either, so that a *)
(* shutdown ends is stated for clients that do (ClientsRead).              *)
(***************************************************************************)
EXTENDS Integers, FiniteSets

CONSTANTS
    Clients,
    Countdowns,     \* goroutines of scheduleStop, each started once between boots
    Marks,          \* announcements of a countdown before the last
    NoCountdown

ASSUME ServerAssumption ==
    Marks \in Nat /\ NoCountdown \notin Countdowns

VARIABLES
    stage,        \* what main() is at
    client,       \* client -> "out", "in", "stuck" (bound, does not read)
    countdown,    \* goroutine -> [at, left, todo, reboot, cancelled]
    pending,      \* shutdownPending and whose shutdownCancel it is
    reboot,       \* rebootOnExit
    stopped,      \* the context of NotifyContext is done
    busWriter        \* the client the bus worker writes to, or "free"

serverVars == <<stage, client, countdown, pending, reboot, stopped, busWriter>>

Idle == [at |-> "idle", left |-> 0, todo |-> {}, reboot |-> FALSE, cancelled |-> FALSE]
Bound == {c \in Clients : client[c] # "out"}
Running == {"up", "drain", "flush", "parts", "bus"}
Stuck == {c \in Clients : client[c] = "stuck"}

ServerInit ==
    /\ stage = "config" /\ client = [c \in Clients |-> "out"]
    /\ countdown = [k \in Countdowns |-> Idle] /\ pending = NoCountdown
    /\ reboot = FALSE /\ stopped = FALSE /\ busWriter = "free"

(***************************************************************************)
(* main: loading, each step of which may end the process                   *)
(***************************************************************************)
Advance(s, next) ==
    /\ stage = s /\ stage' = next
    /\ UNCHANGED <<client, countdown, pending, reboot, stopped, busWriter>>

Load(s, next) == Advance(s, next) \/ Advance(s, "exited")

LoadConfig   == Load("config", "database")

OpenDatabase == Load("database", "world")

LoadWorld    == Load("world", "catalogs")

LoadCatalogs == Load("catalogs", "flows")

LoadFlows    == Load("flows", "game")

StartGame    == Advance("game", "scripts")

LoadScripts  == Load("scripts", "registry")

BuildRegistry == Load("registry", "listen")

\* The heartbeat has been started, and the backups.
Listen       == Load("listen", "up")

(***************************************************************************)
(* Clients and the bus                                                     *)
(***************************************************************************)
Accept(c) ==
    /\ stage = "up" /\ client[c] = "out"
    /\ client' = [client EXCEPT ![c] = "in"]
    /\ UNCHANGED <<stage, countdown, pending, reboot, stopped, busWriter>>

StopReading(c) ==
    /\ stage \in Running /\ client[c] = "in"
    /\ client' = [client EXCEPT ![c] = "stuck"]
    /\ UNCHANGED <<stage, countdown, pending, reboot, stopped, busWriter>>

\* It reads again, or its connection is found broken and the session ends.
ReadOrBreak(c) ==
    /\ client[c] = "stuck"
    /\ client' \in {[client EXCEPT ![c] = "in"], [client EXCEPT ![c] = "out"]}
    /\ UNCHANGED <<stage, countdown, pending, reboot, stopped, busWriter>>

\* handleConnection returns.
Disconnect(c) ==
    /\ client[c] = "in" /\ client' = [client EXCEPT ![c] = "out"]
    /\ UNCHANGED <<stage, countdown, pending, reboot, stopped, busWriter>>

WriteGMCP(c) ==
    /\ stage \in Running \ {"bus"} /\ busWriter = "free" /\ client[c] # "out" /\ busWriter' = c
    /\ UNCHANGED <<stage, client, countdown, pending, reboot, stopped>>

WrittenGMCP ==
    /\ busWriter \in Clients \ Stuck /\ busWriter' = "free"
    /\ UNCHANGED <<stage, client, countdown, pending, reboot, stopped>>

(***************************************************************************)
(* shutdown, reboot, abort                                                 *)
(***************************************************************************)
Goes(k, at) == countdown' = [countdown EXCEPT ![k].at = at]

\* The request is registered, and announced before the goroutine is started.
ScheduleStop(k, again) ==
    /\ stage = "up" /\ pending = NoCountdown /\ countdown[k].at = "idle"
    /\ pending' = k /\ reboot' = (again \/ reboot)
    /\ countdown' = [countdown EXCEPT ![k] =
          [at |-> "announce", left |-> Marks, todo |-> Bound, reboot |-> again, cancelled |-> FALSE]]
    /\ UNCHANGED <<stage, client, stopped, busWriter>>

\* Mutant: the abort leaves the flag of the reboot alone.
AbortKeepsReboot ==
    /\ stage \in Running /\ pending # NoCountdown
    /\ pending' = NoCountdown
    /\ countdown' = [countdown EXCEPT ![pending].cancelled = TRUE]
    /\ UNCHANGED <<stage, client, reboot, stopped, busWriter>>

RequestAbort ==
    /\ stage \in Running /\ pending # NoCountdown
    /\ pending' = NoCountdown /\ reboot' = FALSE
    /\ countdown' = [countdown EXCEPT ![pending].cancelled = TRUE]
    /\ UNCHANGED <<stage, client, stopped, busWriter>>

\* broadcast: every session of the snapshot in turn.
Tell(k) ==
    /\ stage \in Running
    /\ \E c \in countdown[k].todo \ Stuck : countdown' = [countdown EXCEPT ![k].todo = @ \ {c}]
    /\ UNCHANGED <<stage, client, pending, reboot, stopped, busWriter>>

Said(k, at) == stage \in Running /\ countdown[k].at = at /\ countdown[k].todo = {}

Told(k) ==
    /\ \/ Said(k, "announce") /\ Goes(k, "wait")
       \/ Said(k, "now") /\ Goes(k, "clear")
    /\ UNCHANGED <<stage, client, pending, reboot, stopped, busWriter>>

\* A mark or the deadline is reached, and select takes its arm, also when the
\* channel has been closed by now; or it had passed by the end of the last
\* broadcast, and the channel is not looked at.
WaitOver(k) ==
    /\ \/ stage \in Running /\ countdown[k].at = "wait"
       \/ Said(k, "announce")
    /\ \E l \in {0, countdown[k].left} : countdown' = [countdown EXCEPT
          ![k].todo = Bound, ![k].left = IF l = 0 THEN 0 ELSE l - 1,
          ![k].at = IF l = 0 THEN "now" ELSE "announce"]
    /\ UNCHANGED <<stage, client, pending, reboot, stopped, busWriter>>

Cancelled(k) ==
    /\ stage \in Running /\ countdown[k].at = "wait" /\ countdown[k].cancelled
    /\ Goes(k, "over")
    /\ UNCHANGED <<stage, client, pending, reboot, stopped, busWriter>>

\* Whosever request is pending by now.
ClearPending(k) ==
    /\ stage \in Running /\ countdown[k].at = "clear"
    /\ pending' = NoCountdown /\ Goes(k, "signal")
    /\ UNCHANGED <<stage, client, reboot, stopped, busWriter>>

StopSignal(k) ==
    /\ stage \in Running /\ countdown[k].at = "signal" /\ Goes(k, "over")
    /\ stopped' = TRUE
    /\ UNCHANGED <<stage, client, pending, reboot, busWriter>>

Sigterm ==
    /\ stage \in Running /\ ~stopped /\ stopped' = TRUE
    /\ UNCHANGED <<stage, client, countdown, pending, reboot, busWriter>>

(***************************************************************************)
(* shutdown()                                                              *)
(***************************************************************************)
\* The listener is closed and acceptLoop returns.
CloseListener == stopped /\ Advance("up", "drain")

\* Mutant: the drain has no deadline.
DrainedAll == Bound = {} /\ Advance("drain", "flush")

\* All sessions have ended, or shutdownDrainTimeout has passed.
Drained == Advance("drain", "flush")

\* Savers run in order; a failed or late one does not hold the others up.
FlushAll == Advance("flush", "parts")

\* Fights, triggers, quests, scripts, buckets and heartbeat, none of which waits.
StopParts == Advance("parts", "bus")

\* bus.Stop waits for the worker; then the process exits or executes itself.
StopBus ==
    /\ busWriter = "free"
    /\ Advance("bus", IF reboot THEN "exec" ELSE "exited")

\* The new image starts from nothing; its sockets close with the exec.
Reexec ==
    /\ stage = "exec" /\ stage' = "config" /\ client' = [c \in Clients |-> "out"]
    /\ countdown' = [k \in Countdowns |-> Idle] /\ pending' = NoCountdown
    /\ reboot' = FALSE /\ stopped' = FALSE /\ busWriter' = "free"

Boot ==
    \/ LoadConfig \/ OpenDatabase \/ LoadWorld \/ LoadCatalogs \/ LoadFlows \/ StartGame
    \/ LoadScripts \/ BuildRegistry \/ Listen
Shutdown == CloseListener \/ Drained \/ FlushAll \/ StopParts \/ StopBus
Count(k) == Told(k) \/ WaitOver(k) \/ Cancelled(k) \/ ClearPending(k) \/ StopSignal(k)

ServerNext ==
    \/ Boot \/ Shutdown \/ Reexec \/ RequestAbort \/ Sigterm \/ WrittenGMCP
    \/ \E k \in Countdowns : Tell(k) \/ Count(k) \/ \E again \in BOOLEAN : ScheduleStop(k, again)
    \/ \E c \in Clients :
          Accept(c) \/ StopReading(c) \/ ReadOrBreak(c) \/ Disconnect(c) \/ WriteGMCP(c)

ServerSpec == ServerInit /\ [][ServerNext]_serverVars

(***************************************************************************)
(* Properties                                                              *)
(***************************************************************************)
\* Every client that stops reading reads again in the end, or its connection
\* is found broken.
ClientsRead == \A c \in Clients : []<>(client[c] # "stuck")

\* Among clients that read, a server that was told to stop stops, and a
\* countdown that nobody aborts ends it.  One client that is connected and never
\* reads is enough to hold up both for ever: bus.Stop waits without a limit for
\* a worker in the middle of a write (bus.go:255-262), although "a misbehaving
\* subscriber must not be able to stall shutdown" (main.go:937-939).
StopEnds ==
    ClientsRead =>
        /\ (stopped ~> stage \in {"exited", "exec"})
        /\ \A k \in Countdowns :
              (countdown[k].at = "announce") ~> (countdown[k].at = "over" \/ stage \notin Running)

\* The process executes itself again only where a reboot was asked for that
\* nobody aborted, although requests, aborts and signals race ("cannot leave a
\* stale true set after the abort cleared it", shutdown_admin.go:67-69).
RebootIsAsked ==
    stage = "exec" => \E k \in Countdowns : countdown[k].reboot /\ ~countdown[k].cancelled

\* "RequestAbort cancels an in-flight countdown" (shutdown_admin.go:31).
AbortHolds == \A k \in Countdowns : countdown[k].cancelled => countdown[k].at # "signal"
=============================================================================
