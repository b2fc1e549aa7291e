-------------------------------- MODULE Gmcp --------------------------------
(***************************************************************************)
(* The out-of-band display of one client (internal/gmcp, telnet/iac.go,     *)
(* telnet/session.go).  The client asks for packages; the reader of its     *)
(* connection cancels the session's subscriptions, makes those of the new   *)
(* choice and sends what is true now.  The worker of the event bus, a       *)
(* goroutine of its own, sends a package again when an event says that it   *)
(* may have changed.  What is shown is written to a row by others, and the  *)
(* event follows the write.  Packages share nothing but the queue of the    *)
(* worker; the module follows one of them, of any kind: "vitals", which are *)
(* read again and left out when they equal those sent last, "status", which *)
(* is read again, and "room", which the event carries.                      *)
(***************************************************************************)
EXTENDS Naturals, Sequences, FiniteSets

CONSTANTS
    Values,             \* what there is to show
    Nothing,            \* before anything was sent
    EventsCap           \* events that wait for the worker (256)

ASSUME GmcpAssumption == Nothing \notin Values /\ EventsCap \in Nat \ {0}

VARIABLES
    kind,
    enabled,    \* gmcpEnabled
    inWorld,    \* CharacterID is not 0
    supports,   \* gmcpSupports makes the session want the package
    subscribed, \* the session's subscriptions for it are live
    truth,      \* what the row says
    untold,     \* what was written last and its event not published, if anything
    behind,     \* what was written before, or not at all, and its event not published
    events,     \* jobs of the worker: [val, old]
    worker, reader,
    last,       \* gmcpLastVitals
    shown,      \* what the client was sent last
    excused     \* history: the client cannot know, see the actions that set it

gmcpVars == <<kind, enabled, inWorld, supports, subscribed, truth, untold, behind, events, worker, reader,
              last, shown, excused>>

Idle == [does |-> "idle"]

GmcpInit ==
    /\ kind \in {"vitals", "status", "room"}
    /\ enabled = FALSE /\ inWorld = FALSE /\ supports = FALSE /\ subscribed = FALSE
    /\ truth \in Values /\ untold = Nothing /\ behind = {} /\ events = << >>
    /\ worker = Idle /\ reader = Idle /\ last = Nothing /\ shown = Nothing /\ excused = TRUE

\* The worker, or the reader, has read what it is about to send.
Sending == worker # Idle
Snapshotting == reader.does \in {"note", "snapshot"}

(***************************************************************************)
(* The world                                                               *)
(***************************************************************************)
SetInWorld ==
    /\ ~inWorld /\ inWorld' = TRUE
    /\ UNCHANGED <<kind, enabled, supports, subscribed, truth, untold, behind, events, worker, reader, last, shown, excused>>

Unpublished == behind \cup ({untold} \ {Nothing})

\* A hit, a tick, a death, a script, a walk: the row, then the event, which
\* that of another goroutine's later write may come before.
Change(v) ==
    /\ inWorld /\ v # truth /\ truth' = v /\ untold' = v
    /\ behind' = Unpublished
    /\ UNCHANGED <<kind, enabled, inWorld, supports, subscribed, events, worker, reader, last, shown, excused>>

\* RecordRoom fails: the event of the walk is published all the same.
MoveUnrecorded(v) ==
    /\ inWorld /\ kind = "room" /\ v # truth /\ behind' = behind \cup {v}
    /\ UNCHANGED <<kind, enabled, inWorld, supports, subscribed, truth, untold, events, worker, reader, last, shown, excused>>

\* What is on its way to the client is old, and nothing follows it there.
Overtakes ==
    /\ events' = [i \in DOMAIN events |-> [events[i] EXCEPT !.old = TRUE]]
    /\ worker' = IF Sending THEN [worker EXCEPT !.crosses = TRUE] ELSE worker

\* Regeneration and drains of stamina, a teleport: no event follows.
ChangeSilently(v) ==
    /\ inWorld /\ v # truth /\ truth' = v /\ untold' = Nothing /\ behind' = Unpublished
    /\ excused' = TRUE /\ Overtakes
    /\ UNCHANGED <<kind, enabled, inWorld, supports, subscribed, reader, last, shown>>

\* The reader is to send what is true when it gets there.
WillSend == reader.does \in {"wire", "look"} /\ reader.sends

\* The event reaches the queue of the worker if the session is subscribed then
\* and the queue has room.
PublishChange ==
    /\ untold # Nothing /\ untold' = Nothing
    /\ IF subscribed /\ Len(events) < EventsCap
       THEN events' = Append(events, [val |-> untold, old |-> FALSE]) /\ UNCHANGED <<worker, excused>>
       ELSE Overtakes /\ excused' = (excused \/ ~WillSend)
    /\ UNCHANGED <<kind, enabled, inWorld, supports, subscribed, truth, behind, reader, last, shown>>

\* The event of a write that has been overtaken.  It is old already if that of
\* the later write went before it; several of one value are told one by one.
PublishLate(v) ==
    /\ v \in behind /\ behind' \in {behind, behind \ {v}}
    /\ events' = IF subscribed /\ Len(events) < EventsCap
                 THEN Append(events, [val |-> v, old |-> untold = Nothing]) ELSE events
    /\ UNCHANGED <<kind, enabled, inWorld, supports, subscribed, truth, untold, worker, reader, last, shown, excused>>

(***************************************************************************)
(* Frames of the client                                                    *)
(***************************************************************************)
\* DO GMCP.
HandleOptionNegotiation ==
    /\ reader = Idle /\ ~enabled /\ enabled' = TRUE
    /\ UNCHANGED <<kind, inWorld, supports, subscribed, truth, untold, behind, events, worker, reader, last, shown, excused>>

\* Core.Supports.Set, Add and Remove, of this package or of others only.
Supports(action) ==
    CASE action = "set" -> BOOLEAN
      [] action = "add" -> {supports, TRUE}
      [] action = "remove" -> {supports, FALSE}

\* The choice is stored and all subscriptions of the session are cancelled.
HandleSupports(action) ==
    /\ reader = Idle /\ supports' \in Supports(action) /\ subscribed' = FALSE
    /\ reader' = [does |-> "wire", sends |-> supports' /\ action # "remove"]
    /\ UNCHANGED <<kind, enabled, inWorld, truth, untold, behind, events, worker, last, shown, excused>>

\* What is wanted is subscribed to again.
WireForSupports ==
    /\ reader.does = "wire" /\ subscribed' = supports
    /\ reader' = IF reader.sends THEN [reader EXCEPT !.does = "look"] ELSE Idle
    /\ UNCHANGED <<kind, enabled, inWorld, supports, truth, untold, behind, events, worker, last, shown, excused>>

\* emitInitialSnapshot reads the row.  A frame of the worker may cross it.
\* Before the character is in the world, or when its row or room cannot be
\* read, nothing is sent.
EmitInitialSnapshot ==
    /\ reader.does = "look"
    /\ \/ /\ inWorld
          /\ reader' = [does |-> "note", sees |-> truth, crosses |-> Sending]
          /\ worker' = IF Sending THEN [worker EXCEPT !.crosses = TRUE] ELSE worker
          /\ UNCHANGED excused
       \/ reader' = Idle /\ excused' = TRUE /\ UNCHANGED worker
    /\ UNCHANGED <<kind, enabled, inWorld, supports, subscribed, truth, untold, behind, events, last, shown>>

SetGMCPLastVitals ==
    /\ reader.does = "note" /\ reader' = [reader EXCEPT !.does = "snapshot"]
    /\ last' = IF kind = "vitals" THEN reader.sees ELSE last
    /\ UNCHANGED <<kind, enabled, inWorld, supports, subscribed, truth, untold, behind, events, worker, shown, excused>>

\* WriteGMCP says nothing to a client that has not agreed to GMCP.
WriteGMCP(v, crossed) ==
    /\ shown' = IF enabled THEN v ELSE shown
    /\ excused' = (~enabled \/ crossed \/ (excused /\ v # truth))
    /\ UNCHANGED <<kind, enabled, inWorld, supports, subscribed, truth, untold, behind, events, last>>

WriteSnapshot ==
    /\ reader.does = "snapshot" /\ reader' = Idle
    /\ WriteGMCP(reader.sees, reader.crosses) /\ UNCHANGED worker

(***************************************************************************)
(* The worker of the bus                                                   *)
(***************************************************************************)
Emit ==
    /\ worker = Idle /\ events # << >> /\ events' = Tail(events)
    /\ worker' = [does |-> IF kind = "vitals" THEN "compare" ELSE "send",
                  sees |-> IF kind = "room" THEN Head(events).val ELSE truth,
                  crosses |-> Snapshotting \/ (kind = "room" /\ Head(events).old)]
    /\ reader' = IF Snapshotting THEN [reader EXCEPT !.crosses = TRUE] ELSE reader
    /\ UNCHANGED <<kind, enabled, inWorld, supports, subscribed, truth, untold, behind, last, shown, excused>>

\* The row, or the room, cannot be read: the event is spent.
EmitFails ==
    /\ worker = Idle /\ events # << >> /\ events' = Tail(events) /\ excused' = TRUE
    /\ UNCHANGED <<kind, enabled, inWorld, supports, subscribed, truth, untold, behind, worker, reader, last, shown>>

\* Mutant: only the snapshot notes what it has sent.
GMCPLastVitalsForgotten ==
    /\ worker.does = "compare"
    /\ worker' = IF last = worker.sees THEN Idle ELSE [worker EXCEPT !.does = "send"]
    /\ UNCHANGED <<kind, enabled, inWorld, supports, subscribed, truth, untold, behind, events, reader, last, shown, excused>>

\* Vitals that equal those sent last are left out, others are noted, then sent.
GMCPLastVitalsEquals ==
    /\ worker.does = "compare"
    /\ IF last = worker.sees THEN worker' = Idle /\ UNCHANGED last
       ELSE worker' = [worker EXCEPT !.does = "send"] /\ last' = worker.sees
    /\ UNCHANGED <<kind, enabled, inWorld, supports, subscribed, truth, untold, behind, events, reader, shown, excused>>

WriteFrame ==
    /\ worker.does = "send" /\ worker' = Idle
    /\ WriteGMCP(worker.sees, worker.crosses) /\ UNCHANGED reader

GmcpNext ==
    \/ SetInWorld \/ HandleOptionNegotiation
    \/ \E v \in Values : Change(v) \/ MoveUnrecorded(v) \/ ChangeSilently(v) \/ PublishLate(v)
    \/ \E action \in {"set", "add", "remove"} : HandleSupports(action)
    \/ PublishChange \/ WireForSupports \/ EmitInitialSnapshot \/ SetGMCPLastVitals \/ WriteSnapshot
    \/ Emit \/ EmitFails \/ GMCPLastVitalsEquals \/ WriteFrame

GmcpSpec == GmcpInit /\ [][GmcpNext]_gmcpVars

(***************************************************************************)
(* Property                                                                *)
(***************************************************************************)
Quiet == Unpublished = {} /\ events = << >> /\ ~Sending /\ reader = Idle

\* Once everything under way has arrived, the client shows what is true,
\* although subscriptions are taken down and made again under the events that
\* use them, writers overtake each other between row and event, and equal
\* vitals are left out.  It may be wrong, until the package is sent again, only
\* if a change came without an event, with the queue full, or between the
\* subscriptions before and after a Remove, which sends nothing; if a room's
\* event came after that of a later move, or its move was not recorded; if a
\* frame was due before the character was in the world, or when what it shows
\* could not be read; or if a frame of the worker crossed a snapshot.
DisplayCatchesUp ==
    subscribed /\ inWorld /\ enabled /\ Quiet /\ ~excused => shown = truth
=============================================================================
