------------------------------ MODULE Movement ------------------------------
(***************************************************************************)
(* Players going from room to room: the direction verbs and the followers  *)
(* they drag along (cmd/move.go), follow and unfollow (cmd/follow.go),     *)
(* teleport, goto, transfer and summon (cmd/teleport.go,                   *)
(* cmd/admin_movement.go) and the flight from a fight (cmd/flee_mover.go). *)
(*                                                                         *)
(* Each player has a dispatcher; fights run in a goroutine of their own.   *)
(* A mover sets the room of the session and then writes the row, which     *)
(* only the next login reads and which is left out; a leader goes through  *)
(* the sessions and moves those who follow him, and theirs, to a depth of  *)
(* MaxFollowDepth.  The order of a registry snapshot is a map's: any peer  *)
(* may come next.                                                          *)
(***************************************************************************)
EXTENDS Integers, FiniteSets

CONSTANTS
    Walkers,          \* characters in the world, one dispatcher each
    Admins,           \* those who may transfer and summon
    Fighting,         \* the goroutine that resolves flights
    Halls, Ways,      \* rooms; exits that are neither hidden nor barred
    Near, Far,       \* exit -> the room it leaves, the room it leads to
    Gates,            \* exits with a door
    Aloft,            \* rooms of air and water: nobody flies or swims
    NoTeleport,       \* rooms with that flag
    Entry,            \* character -> the room he logs in to
    Unrelated,        \* pairs of characters who share no party
    MaxFollowDepth,
    Nobody

ASSUME MovementAssumption ==
    /\ Admins \subseteq Walkers /\ Fighting \notin Walkers
    /\ Near \in [Ways -> Halls] /\ Far \in [Ways -> Halls] /\ Gates \subseteq Ways
    /\ Aloft \subseteq Halls /\ NoTeleport \subseteq Halls
    /\ Entry \in [Walkers -> Halls] /\ Unrelated \subseteq Walkers \X Walkers
    /\ MaxFollowDepth \in Nat \ {0} /\ Nobody \notin Walkers

VARIABLES
    room,        \* session.CurrentRoomID
    following,   \* session.following
    closed,      \* gates closed now
    step         \* goroutine -> the rest of the verb it runs

moveVars == <<room, following, closed, step>>

Threads == Walkers \union {Fighting}
Waits == [op |-> "waits"]
Free(g) == step[g].op = "waits"
Then(g, s) == step' = [step EXCEPT ![g] = s]

MovementInit ==
    /\ room = Entry
    /\ following = [p \in Walkers |-> Nobody] /\ closed = {}
    /\ step = [g \in Threads |-> Waits]

Passable(x) == x \notin closed /\ Far[x] \notin Aloft

(***************************************************************************)
(* A direction verb: check, walk, record, lead                             *)
(***************************************************************************)
MoveDir(p, x) ==
    /\ Free(p) /\ Near[x] = room[p] /\ Passable(x)
    /\ Then(p, [op |-> "walk", way |-> x])
    /\ UNCHANGED <<room, following, closed>>

\* The room it leaves is asked for again: somebody may have moved it meanwhile.
Walk(p) ==
    /\ step[p].op = "walk"
    /\ room' = [room EXCEPT ![p] = Far[step[p].way]]
    /\ Then(p, [op |-> "record", way |-> step[p].way, from |-> room[p]])
    /\ UNCHANGED <<following, closed>>

\* <<leader, peer, depth>>: whom chainFollowers has still to look at.
Peers(p, depth) == {<<p, q, depth>> : q \in Walkers \ {p}}

\* The row is written meanwhile, or the write fails: the move stands.
RecordRoom(p) ==
    /\ step[p].op = "record"
    /\ Then(p, [op |-> "lead", way |-> step[p].way, from |-> step[p].from, peers |-> Peers(p, 0)])
    /\ UNCHANGED <<room, following, closed>>

(***************************************************************************)
(* chainFollowers and followAlong                                          *)
(***************************************************************************)
Without(p, c) == step[p].peers \ {c}

CoLocated(p, q) == room[q] = step[p].from

PassBy(p, c) ==
    /\ step[p].op = "lead" /\ c \in step[p].peers
    /\ following[c[2]] # c[1] \/ ~CoLocated(p, c[2])
    /\ Then(p, [step[p] EXCEPT !.peers = Without(p, c)])
    /\ UNCHANGED <<room, following, closed>>

\* A follower who cannot pass, or for whom a lookup fails, stops following.
LoseFollower(p, c) ==
    /\ step[p].op = "lead" /\ c \in step[p].peers
    /\ following[c[2]] = c[1] /\ CoLocated(p, c[2])
    /\ following' = [following EXCEPT ![c[2]] = Nobody]
    /\ Then(p, [step[p] EXCEPT !.peers = Without(p, c)])
    /\ UNCHANGED <<room, closed>>

\* By the same exit; that an exit of another room leads in the same direction to
\* the same room is left out.
TakeAlong(p, c) ==
    /\ step[p].op = "lead" /\ c \in step[p].peers
    /\ following[c[2]] = c[1] /\ CoLocated(p, c[2]) /\ Passable(step[p].way)
    /\ step[p].from = Near[step[p].way]
    /\ Then(p, [op |-> "drag", way |-> step[p].way, from |-> step[p].from,
                peers |-> Without(p, c), peer |-> c])
    /\ UNCHANGED <<room, following, closed>>

\* Mutant: the depth is not counted.
DeeperUncounted(c) == Peers(c[2], c[3])

Deeper(c) == IF c[3] + 1 < MaxFollowDepth THEN Peers(c[2], c[3] + 1) ELSE {}

Drag(p) ==
    /\ step[p].op = "drag"
    /\ room' = [room EXCEPT ![step[p].peer[2]] = Far[step[p].way]]
    /\ Then(p, [op |-> "lead", way |-> step[p].way, from |-> step[p].from,
                peers |-> step[p].peers \union Deeper(step[p].peer)])
    /\ UNCHANGED <<following, closed>>

Arrive(p) ==
    /\ step[p].op = "lead" /\ step[p].peers = {}
    /\ Then(p, Waits)
    /\ UNCHANGED <<room, following, closed>>

(***************************************************************************)
(* follow, unfollow                                                        *)
(***************************************************************************)
\* The chain of leaders above q, up to MaxFollowDepth of them.
Leaders(q) ==
    LET up[k \in 0..MaxFollowDepth] ==
            IF k = 0 THEN q
            ELSE LET below == up[k - 1] IN IF below = Nobody THEN Nobody ELSE following[below]
    IN  {up[k] : k \in 1..MaxFollowDepth}

\* introducesFollowCycle; a chain that does not end within the bound counts.
Tangles(p, q) == p \in Leaders(q) \/ Nobody \notin Leaders(q)

Follow(p, q) ==
    /\ Free(p) /\ p # q /\ room[p] = room[q] /\ {<<p, q>>, <<q, p>>} \intersect Unrelated = {}
    /\ ~Tangles(p, q)
    /\ Then(p, [op |-> "follow", whom |-> q])
    /\ UNCHANGED <<room, following, closed>>

\* The check and SetFollowing are two looks at the registry.
SetFollowing(p) ==
    /\ step[p].op = "follow"
    /\ following' = [following EXCEPT ![p] = step[p].whom] /\ Then(p, Waits)
    /\ UNCHANGED <<room, closed>>

Unfollow(p) ==
    /\ Free(p) /\ following[p] # Nobody
    /\ following' = [following EXCEPT ![p] = Nobody]
    /\ UNCHANGED <<room, closed, step>>

(***************************************************************************)
(* teleport and goto; tp of another, transfer and summon; flights          *)
(***************************************************************************)
\* relocate, by anybody's goroutine: the session, and then the row.
Relocate(g, q, to) ==
    /\ room' = [room EXCEPT ![q] = to]
    /\ Then(g, [op |-> "relocate"])
    /\ UNCHANGED <<following, closed>>

Relocated(g) ==
    /\ step[g].op = "relocate"
    /\ Then(g, Waits)
    /\ UNCHANGED <<room, following, closed>>

TpSelf(p) == Free(p) /\ \E r \in Halls \ NoTeleport : Relocate(p, p, r)

\* `tp <user> <room>` is open to every player; goto goes where a player is.
TpOther(p, q) == Free(p) /\ p # q /\ \E r \in Halls \ NoTeleport : Relocate(p, q, r)

TransferToCaller(p, q) ==
    /\ Free(p) /\ p \in Admins /\ p # q /\ room[p] \notin NoTeleport
    /\ Relocate(p, q, room[p])

\* By an exit of the room of the fight, which q may have left meanwhile.
AttemptFlee(q, x) ==
    /\ Free(Fighting) /\ x \notin closed
    /\ Relocate(Fighting, q, Far[x])

TurnGate(x) ==
    /\ closed' = IF x \in closed THEN closed \ {x} ELSE closed \union {x}
    /\ UNCHANGED <<room, following, step>>

Onward(p) ==
    \/ Walk(p) \/ RecordRoom(p) \/ Drag(p) \/ Arrive(p) \/ SetFollowing(p)
    \/ step[p].op = "lead" /\ \E c \in step[p].peers : PassBy(p, c) \/ LoseFollower(p, c) \/ TakeAlong(p, c)

Commands ==
    \/ \E p \in Walkers, x \in Ways : MoveDir(p, x)
    \/ \E p, q \in Walkers : Follow(p, q) \/ TpOther(p, q) \/ TransferToCaller(p, q)
    \/ \E p \in Walkers : Unfollow(p) \/ TpSelf(p)
    \/ \E q \in Walkers, x \in Ways : AttemptFlee(q, x)

MovementNext ==
    \/ Commands
    \/ \E p \in Walkers : Onward(p)
    \/ \E g \in Threads : Relocated(g)
    \/ \E x \in Gates : TurnGate(x)

(***************************************************************************)
(* Properties                                                              *)
(***************************************************************************)
\* Every move ends, although two players who follow each other (both checks
\* passed before either was set) chase round and round through an exit that
\* leads back into its own room (move.go, maxFollowDepth).
EveryStepEnds ==
    \A p \in Walkers : (step[p].op = "lead") ~> (step[p].op = "waits")
=============================================================================
