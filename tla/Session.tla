------------------------------- MODULE Session -------------------------------
(***************************************************************************)
(* Connections, their two goroutines and the account registry:             *)
(* RunSession, readLoop and runDispatcher (telnet/server.go), Registry     *)
(* (internal/session), the login that takes an account over                *)
(* (internal/mode/login.go) and the teardown of handleConnection           *)
(* (cmd/server/main.go).                                                   *)
(*                                                                         *)
(* The reader puts lines into a bounded inbox and ends the session when it *)
(* is full; the dispatcher takes them out and runs the mode's handler, one *)
(* at a time.  When the reader stops it closes the inbox and waits for the *)
(* dispatcher, which still works off what is queued, before it tears the   *)
(* session down.  A line is its effect: the dispatcher decides what it was *)
(* when it handles it.                                                     *)
(*                                                                         *)
(* No write has a deadline: once a client has stopped reading, whoever     *)
(* writes to it waits, its own reader that echoes a key, its dispatcher,   *)
(* and the login that displaces it.  A client that is merely slow delays   *)
(* the writer's next step, as the scheduler may.                           *)
(***************************************************************************)
EXTENDS Naturals, FiniteSets

CONSTANTS
    Conns, Accounts, None,
    InboxCap,     \* inboxCap (16)
    MaxFaults,    \* bound on failures of postAuth
    MaxPanics     \* bound on panicking handlers

ASSUME SessionConstants ==
    /\ InboxCap \in Nat \ {0}
    /\ {MaxFaults, MaxPanics} \subseteq Nat
    /\ None \notin Conns \cup Accounts

VARIABLES
    reader,    \* "new", "reading", "closed" (inbox closed), "unbound", "gone"
    disp,      \* "idle", "handling", "kick", "postauth", "draining", "done"
    inbox,     \* lines queued
    open,      \* the TCP connection is open on our side
    stalled,   \* clients that have stopped reading: a write to them waits
    silent,    \* time has passed since the client last sent a byte
    mode,      \* "login", "menu", "game"
    account,   \* Session.AccountID
    prev,      \* handlePassword's local: the session it has displaced
    bound,     \* Registry.bound
    latest,    \* account -> the session that logged in last
    panicked,  \* sessions whose handler has panicked
    faults

vars == <<reader, disp, inbox, open, stalled, silent, mode, account, prev, bound, latest, panicked,
          faults>>

TypeOK ==
    /\ reader \in [Conns -> {"new", "reading", "closed", "unbound", "gone"}]
    /\ disp \in [Conns -> {"idle", "handling", "kick", "postauth", "draining", "done"}]
    /\ inbox \in [Conns -> 0..InboxCap]
    /\ open \in [Conns -> BOOLEAN]
    /\ stalled \in SUBSET Conns
    /\ silent \in [Conns -> BOOLEAN]
    /\ mode \in [Conns -> {"login", "menu", "game"}]
    /\ account \in [Conns -> Accounts \cup {None}]
    /\ prev \in [Conns -> Conns \cup {None}]
    /\ bound \in [Accounts -> Conns \cup {None}]
    /\ latest \in [Accounts -> Conns \cup {None}]
    /\ panicked \in SUBSET Conns
    /\ faults \in Nat

Init ==
    /\ reader = [s \in Conns |-> "new"]
    /\ disp = [s \in Conns |-> "idle"]
    /\ inbox = [s \in Conns |-> 0]
    /\ open = [s \in Conns |-> TRUE]
    /\ stalled = {}
    /\ silent = [s \in Conns |-> FALSE]
    /\ mode = [s \in Conns |-> "login"]
    /\ account = [s \in Conns |-> None]
    /\ prev = [s \in Conns |-> None]
    /\ bound = [a \in Accounts |-> None]
    /\ latest = [a \in Accounts |-> None]
    /\ panicked = {}
    /\ faults = 0

-----------------------------------------------------------------------------
(* The reader goroutine.                                                   *)

identity == <<mode, account, prev, bound, latest, panicked, faults>>

\* Conn.Close: writes that wait fail at once, and so does every other.
Disconnect(ss) ==
    /\ open' = [s \in Conns |-> open[s] /\ s \notin ss]
    /\ stalled' = stalled \ ss

\* The client stops reading for good, and the buffers in between are full.
\* What its reader and its dispatcher do from here on they may leave undone.
Stall(s) ==
    /\ reader[s] \in {"reading", "closed"} /\ open[s]
    /\ stalled' = stalled \cup {s}
    /\ UNCHANGED <<reader, disp, inbox, open, silent, identity>>

\* handleConnection up to RunSession, which starts the dispatcher.
Connect(s) ==
    /\ reader[s] = "new"
    /\ reader' = [reader EXCEPT ![s] = "reading"]
    /\ UNCHANGED <<disp, inbox, open, stalled, silent, identity>>

\* readLoop returns; RunSession cancels the context and closes the inbox.
Close(s) == reader' = [reader EXCEPT ![s] = "closed"]

\* handleLineBreak, which writes an end of line: a line is queued, or
\* ErrInputFlooded ends the session.
Line(s) ==
    /\ reader[s] = "reading" /\ open[s] /\ s \notin stalled
    /\ IF inbox[s] < InboxCap
       THEN inbox' = [inbox EXCEPT ![s] = @ + 1] /\ UNCHANGED reader
       ELSE Close(s) /\ UNCHANGED inbox
    /\ silent' = [silent EXCEPT ![s] = FALSE]
    /\ UNCHANGED <<disp, open, stalled, identity>>

\* Any other byte: part of a line, or a telnet command.
Byte(s) ==
    /\ reader[s] = "reading" /\ open[s]
    /\ silent' = [silent EXCEPT ![s] = FALSE]
    /\ UNCHANGED <<reader, disp, inbox, open, stalled, identity>>

\* Part of idleTimeout goes by; the next byte renews the deadline.
Silence(s) ==
    /\ reader[s] = "reading"
    /\ ~silent[s]
    /\ silent' = [silent EXCEPT ![s] = TRUE]
    /\ UNCHANGED <<reader, disp, inbox, open, stalled, identity>>

\* The read deadline expires.
IdleTimeout(s) ==
    /\ reader[s] = "reading"
    /\ silent[s]
    /\ Close(s)
    /\ UNCHANGED <<disp, inbox, open, stalled, silent, identity>>

\* The client is gone.
HangUp(s) ==
    /\ reader[s] = "reading"
    /\ Close(s)
    /\ UNCHANGED <<disp, inbox, open, stalled, silent, identity>>

\* Somebody has closed the connection on our side: ReadByte fails.
ReadClosed(s) ==
    /\ reader[s] = "reading"
    /\ ~open[s]
    /\ Close(s)
    /\ UNCHANGED <<disp, inbox, open, stalled, silent, identity>>

\* Mutant: Unbind deletes whatever is bound.
UnbindUnchecked(s) ==
    /\ reader[s] = "closed"
    /\ disp[s] = "done"
    /\ reader' = [reader EXCEPT ![s] = "unbound"]
    /\ bound' = [a \in Accounts |-> IF a = account[s] THEN None ELSE bound[a]]
    /\ UNCHANGED <<disp, inbox, open, stalled, silent, mode, account, prev, latest, panicked, faults>>

\* <-dispatcherDone, then the deferred cleanup: Unbind of the AccountID the
\* session has now, a compare-and-delete.
Unbind(s) ==
    /\ reader[s] = "closed"
    /\ disp[s] = "done"
    /\ reader' = [reader EXCEPT ![s] = "unbound"]
    /\ bound' = [a \in Accounts |-> IF a = account[s] /\ bound[a] = s THEN None ELSE bound[a]]
    /\ UNCHANGED <<disp, inbox, open, stalled, silent, mode, account, prev, latest, panicked, faults>>

\* The rest of the cleanup, and Conn.Close.
Teardown(s) ==
    /\ reader[s] = "unbound"
    /\ reader' = [reader EXCEPT ![s] = "gone"]
    /\ Disconnect({s})
    /\ UNCHANGED <<disp, inbox, silent, identity>>

-----------------------------------------------------------------------------
(* The dispatcher goroutine.                                               *)

input == <<reader, inbox, silent>>

Take(s) ==
    /\ reader[s] # "new"
    /\ disp[s] = "idle"
    /\ inbox[s] > 0
    /\ inbox' = [inbox EXCEPT ![s] = @ - 1]
    /\ disp' = [disp EXCEPT ![s] = "handling"]
    /\ UNCHANGED <<reader, silent, open, stalled, identity>>

\* The inbox is closed and empty.
Finish(s) ==
    /\ reader[s] = "closed"
    /\ disp[s] = "idle"
    /\ inbox[s] = 0
    /\ disp' = [disp EXCEPT ![s] = "done"]
    /\ UNCHANGED <<input, open, stalled, identity>>

\* A line that changes nothing here: a verb, a wrong password.  The prompt
\* write fails when the connection is closed, and the dispatcher drains.
Command(s) ==
    /\ disp[s] = "handling" /\ s \notin stalled
    /\ disp' = [disp EXCEPT ![s] = IF open[s] THEN "idle" ELSE "draining"]
    /\ UNCHANGED <<input, open, stalled, identity>>

\* The right password, or a new account: AccountID and Registry.Bind.
Login(s, a) ==
    /\ disp[s] = "handling"
    /\ mode[s] = "login"
    /\ account' = [account EXCEPT ![s] = a]
    /\ bound' = [bound EXCEPT ![a] = s]
    /\ latest' = [latest EXCEPT ![a] = s]
    /\ prev' = [prev EXCEPT ![s] = bound[a]]
    /\ disp' = [disp EXCEPT ![s] = "kick"]
    /\ UNCHANGED <<input, open, stalled, mode, panicked, faults>>

\* Mutant: the displaced session is told, and not disconnected.
KickNoticeOnly(s) ==
    /\ disp[s] = "kick" /\ prev[s] \notin stalled \ {s}
    /\ disp' = [disp EXCEPT ![s] = "postauth"]
    /\ prev' = [prev EXCEPT ![s] = None]
    /\ UNCHANGED <<input, open, stalled, mode, account, bound, latest, panicked, faults>>

\* The displaced session, if there is another, is told, then disconnected.  The
\* notice waits for as long as its client does not read.
Kick(s) ==
    /\ disp[s] = "kick" /\ prev[s] \notin stalled \ {s}
    /\ disp' = [disp EXCEPT ![s] = "postauth"]
    /\ Disconnect({prev[s]} \ {s, None})
    /\ prev' = [prev EXCEPT ![s] = None]
    /\ UNCHANGED <<input, mode, account, bound, latest, panicked, faults>>

\* postAuth; on a closed connection the welcome cannot be written.
PostAuth(s) ==
    /\ disp[s] = "postauth" /\ s \notin stalled
    /\ IF open[s] THEN /\ mode' = [mode EXCEPT ![s] = "menu"]
                       /\ disp' = [disp EXCEPT ![s] = "idle"]
       ELSE disp' = [disp EXCEPT ![s] = "draining"] /\ UNCHANGED mode
    /\ UNCHANGED <<input, open, stalled, account, prev, bound, latest, panicked, faults>>

\* ListByAccount or the message of the day fails: back to the user name,
\* with AccountID and the binding as they are.
PostAuthFails(s) ==
    /\ disp[s] = "postauth" /\ open[s] /\ s \notin stalled
    /\ faults < MaxFaults
    /\ faults' = faults + 1
    /\ disp' = [disp EXCEPT ![s] = "idle"]
    /\ UNCHANGED <<input, open, stalled, mode, account, prev, bound, latest, panicked>>

\* promoteToGame
EnterGame(s) ==
    /\ disp[s] = "handling" /\ s \notin stalled
    /\ mode[s] = "menu"
    /\ mode' = [mode EXCEPT ![s] = "game"]
    /\ disp' = [disp EXCEPT ![s] = IF open[s] THEN "idle" ELSE "draining"]
    /\ UNCHANGED <<input, open, stalled, account, prev, bound, latest, panicked, faults>>

\* quit says good-bye, closes the connection and returns ErrSessionEnded.
Quit(s) ==
    /\ disp[s] = "handling" /\ s \notin stalled
    /\ mode[s] \in {"menu", "game"}
    /\ Disconnect({s})
    /\ disp' = [disp EXCEPT ![s] = "draining"]
    /\ UNCHANGED <<input, identity>>

\* `for range s.inbox {}`: until the reader has closed it.
Drain(s) ==
    /\ disp[s] = "draining"
    /\ IF inbox[s] > 0 THEN inbox' = [inbox EXCEPT ![s] = @ - 1] /\ UNCHANGED disp
       ELSE /\ reader[s] = "closed"
            /\ disp' = [disp EXCEPT ![s] = "done"]
            /\ UNCHANGED inbox
    /\ UNCHANGED <<reader, silent, open, stalled, identity>>

\* Handle panics.  The recover is deferred by runDispatcher itself, so the
\* dispatcher is over; nobody closes the connection.
Panic(s) ==
    /\ disp[s] = "handling"
    /\ Cardinality(panicked) < MaxPanics
    /\ panicked' = panicked \cup {s}
    /\ disp' = [disp EXCEPT ![s] = "done"]
    /\ UNCHANGED <<input, open, stalled, mode, account, prev, bound, latest, faults>>

Handle(s) ==
    \/ Command(s) \/ EnterGame(s) \/ Quit(s) \/ Panic(s)
    \/ \E a \in Accounts : Login(s, a)

Next ==
    \E s \in Conns :
        \/ Connect(s) \/ Line(s) \/ Byte(s) \/ Silence(s) \/ IdleTimeout(s) \/ HangUp(s)
        \/ ReadClosed(s) \/ Unbind(s) \/ Teardown(s) \/ Stall(s)
        \/ Take(s) \/ Finish(s) \/ Handle(s) \/ Kick(s) \/ PostAuth(s) \/ PostAuthFails(s)
        \/ Drain(s)

Spec == Init /\ [][Next]_vars

-----------------------------------------------------------------------------
(* Properties.                                                             *)

TornDown(s) == reader[s] \in {"unbound", "gone"}

\* A session that is over is not bound under the account it carries, also
\* when its login was still being handled while its connection went down:
\* the teardown waits for the dispatcher before it unbinds.
OwnBindingIsLive ==
    \A a \in Accounts : bound[a] # None /\ account[bound[a]] = a => ~TornDown(bound[a])

\* "At most one live session per account" (registry.go:15): the registry
\* holds no session that is over, under whatever account.
NoGhostBinding ==
    \A a \in Accounts : bound[a] # None => ~TornDown(bound[a])

\* "A stale teardown defer cannot blow away the binding of a newer session"
\* (registry.go:18-19): the session that logged in last stays the one that
\* who, tell and the combat messages reach, until it is torn down itself.
LatestIsBound ==
    \A a \in Accounts : latest[a] # None /\ ~TornDown(latest[a]) => bound[a] = latest[a]

\* Both at once: unbinding neither leaves out the session that ends nor
\* reaches the one that took its account.
BindingsHold == OwnBindingIsLive /\ LatestIsBound

\* No client that has stopped reading stays connected.
ClientsRead == []<>(stalled = {})

\* Unless a client that does not read stays connected, a session that lost its
\* account to a newer login ends, whatever its client does and however many
\* lines it has queued.  The loser's own client can be the one that stays: it is
\* told before it is disconnected (login.go:251-256), and the newer login waits.
LoserEnds ==
    ClientsRead =>
        \A s \in Conns :
            (account[s] # None /\ bound[account[s]] # s) ~> (reader[s] = "gone")
=============================================================================
