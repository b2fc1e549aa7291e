------------------------------- MODULE Items -------------------------------
(***************************************************************************)
(* Where the items are.  An item row has three nullable location columns   *)
(* (room_id, owner_character_id, parent_item_id).  The verbs of a player   *)
(* read them, decide, and move the item with one conditional UPDATE whose  *)
(* WHERE clause repeats the location that was read; a fight moves weapons  *)
(* with an unconditional one.  A character's equipment is a JSON column of *)
(* the character row that only names item ids: it is read and rewritten as *)
(* a whole, after the item has moved and not together with it.             *)
(*                                                                         *)
(* Processes: the dispatcher goroutine of every character (one verb at a   *)
(* time), the combat pulses (fumbles, throws and deaths), the decay pulse, *)
(* and crashes of the server, which lose every verb in progress and the    *)
(* decay queue and keep the database.  Every database statement is a step. *)
(* A verb that is refused writes nothing and is left out.                  *)
(*                                                                         *)
(* There is one room, and one equipment slot stands for all of them.       *)
(***************************************************************************)
EXTENDS Integers, FiniteSets

CONSTANTS
    Chars,       \* character rows
    Pulses,      \* combat goroutines; each handles one swing or death at a time
    Things,      \* items that exist from the start
    Bodies,      \* ids of corpse rows, handed out on a death and never reused
    Weapons,     \* the items that `wield` accepts
    Containers,  \* the items that `put` accepts
    None,        \* no item, no character
    DepthCap,    \* defaultContainerDepth
    MaxMishaps,  \* how many statements may fail, and the server crash, in all
    MaxVerbs     \* how many verbs are entered

Items == Things \cup Bodies

ASSUME ItemsConstants ==
    /\ Things \cap Bodies = {}
    /\ None \notin Items \cup Chars
    /\ Weapons \subseteq Things
    /\ Bodies \subseteq Containers /\ Containers \subseteq Items
    /\ {DepthCap, MaxMishaps, MaxVerbs} \subseteq Nat

VARIABLES
    at,       \* item -> the non-NULL location columns of its row; {} when there is no row
    born,     \* the corpse ids handed out
    equip,    \* character -> the item its equipment column names, or None
    aimed,    \* character -> the weapon of a throw queued for the next round, or None
    verb,     \* character -> the verb in progress
    swing,    \* pulse -> the fumble, throw or death in progress
    due,      \* corpses whose deadline (items.decay_expires_at) has passed
    queue,    \* Decayer.queue
    popped,   \* entries taken off the queue and not yet deleted
    stuck,    \* corpses whose delete failed since the last boot
    up,       \* the server runs
    mishaps,  \* failed statements and crashes so far
    verbs     \* verbs entered so far

vars == <<at, born, equip, aimed, verb, swing, due, queue, popped, stuck, up, mishaps, verbs>>

Floor   == <<"floor">>
Held(c) == <<"held", c>>
In(k)   == <<"in", k>>

Hands  == {Held(c) : c \in Chars}
Places == {Floor} \cup Hands \cup {In(k) : k \in Items}

Idle == [op |-> "idle", item |-> None, from |-> Floor, to |-> Floor]
Verb == [op : {"idle", "move", "unequip", "remove", "wield", "sellUnequip", "sell"},
         item : Items \cup {None}, from : Places, to : Places]

Still == [op |-> "idle", who |-> None, item |-> None, body |-> None, todo |-> {}]
Swing == [op : {"idle", "land", "schedule", "strip"},
          who : Chars \cup {None}, item : Items \cup {None}, body : Bodies \cup {None},
          todo : SUBSET Items]

TypeOK ==
    /\ at \in [Items -> SUBSET Places]
    /\ born \in SUBSET Bodies
    /\ equip \in [Chars -> Items \cup {None}]
    /\ aimed \in [Chars -> Items \cup {None}]
    /\ verb \in [Chars -> Verb]
    /\ swing \in [Pulses -> Swing]
    /\ {due, queue, popped, stuck} \subseteq SUBSET Bodies
    /\ up \in BOOLEAN
    /\ {mishaps, verbs} \subseteq Nat

Init ==
    /\ at \in [Items -> {{Floor}, {}}]
    /\ \A i \in Items : (at[i] = {}) <=> (i \in Bodies)
    /\ born = {}
    /\ equip = [c \in Chars |-> None]
    /\ aimed = [c \in Chars |-> None]
    /\ verb = [c \in Chars |-> Idle]
    /\ swing = [p \in Pulses |-> Still]
    /\ due = {} /\ queue = {} /\ popped = {} /\ stuck = {}
    /\ up = TRUE
    /\ mishaps = 0 /\ verbs = 0

-----------------------------------------------------------------------------
(* The UPDATE statements of the item table.                                *)

\* Mutant: the WHERE clause names the row and not its location.
MatchesAnywhere(i, from) == at[i] # {}

\* TransferRoomToOwner, TransferOwnerToRoom, TransferOwnerToOwner,
\* TransferOwnerToContainer and TransferContainerToOwner: the row moves only
\* if its one location is still the one the verb read.
Matches(i, from) == at[i] = {from}

\* Every UPDATE sets one location column and clears the others.
MoveTo(i, p) == at' = [at EXCEPT ![i] = {p}]

\* SetRoom and SetParent: the row moves from wherever it is, if it exists.
ForceTo(i, p) == IF at[i] = {} THEN UNCHANGED at ELSE MoveTo(i, p)

\* Delete: the row, and only this row.  What lies in it keeps pointing at it.
DeleteRows(S) == at' = [i \in Items |-> IF i \in S THEN {} ELSE at[i]]

Fault == mishaps < MaxMishaps /\ mishaps' = mishaps + 1
NoFault == UNCHANGED mishaps

-----------------------------------------------------------------------------
(* The verbs.                                                              *)

Start(c, v) ==
    /\ up
    /\ verb[c] = Idle
    /\ verbs < MaxVerbs /\ verbs' = verbs + 1
    /\ verb' = [verb EXCEPT ![c] = v]
    /\ UNCHANGED <<at, born, equip, aimed, swing, due, queue, popped, stuck, up, mishaps>>

Moving(i, from, to) == [op |-> "move", item |-> i, from |-> from, to |-> to]

\* Top level in the actor's hands, or on the floor of the room.
WithinReach(c, k) == at[k] \in {{Held(c)}, {Floor}}

\* canPut: how many levels hang below an item.
Below(i) ==
    LET level[n \in Nat] ==
          IF n = 0 THEN {i}
          ELSE {j \in Items : \E k \in level[n - 1] : at[j] = {In(k)}}
    IN  level
DepthBelow(i) == IF \A n \in 1..DepthCap : Below(i)[n] # {} THEN DepthCap
                 ELSE (CHOOSE n \in 1..DepthCap :
                          Below(i)[n] = {} /\ \A m \in 1..(n - 1) : Below(i)[m] # {}) - 1
CanPut(i, k) == i # k /\ k \in Containers /\ DepthBelow(i) + 1 <= DepthCap

\* get <item>; get <item> from <container>
Get(c, i) == at[i] = {Floor} /\ Start(c, Moving(i, Floor, Held(c)))
GetFrom(c, i, k) ==
    /\ k \in Containers /\ WithinReach(c, k)
    /\ at[i] = {In(k)}
    /\ Start(c, Moving(i, In(k), Held(c)))

\* drop <item>; give <item> <player>; put <item> in <container>
Drop(c, i) == at[i] = {Held(c)} /\ Start(c, Moving(i, Held(c), Floor))
Give(c, i, d) == d # c /\ at[i] = {Held(c)} /\ Start(c, Moving(i, Held(c), Held(d)))
Put(c, i, k) ==
    /\ at[i] = {Held(c)}
    /\ WithinReach(c, k)
    /\ CanPut(i, k)
    /\ Start(c, Moving(i, Held(c), In(k)))

\* The conditional UPDATE.  ErrItemMoved, or a failed statement, ends the
\* verb; an item that left the actor's hands is unequipped afterwards.
Transfer(c) ==
    LET v == verb[c] IN
    /\ up /\ v.op = "move"
    /\ \/ /\ Matches(v.item, v.from)
          /\ MoveTo(v.item, v.to)
          /\ verb' = [verb EXCEPT ![c] = IF v.from = Held(c)
                                         THEN [Idle EXCEPT !.op = "unequip", !.item = v.item] ELSE Idle]
          /\ NoFault
       \/ /\ \/ ~Matches(v.item, v.from) /\ NoFault
             \/ Fault
          /\ verb' = [verb EXCEPT ![c] = Idle]
          /\ UNCHANGED at
    /\ UNCHANGED <<born, equip, aimed, swing, due, queue, popped, stuck, up, verbs>>

\* wield, wear: the slot is free and the item is in hand when they are read.
Wield(c, i) ==
    /\ i \in Weapons
    /\ at[i] = {Held(c)}
    /\ equip[c] = None
    /\ Start(c, [Idle EXCEPT !.op = "wield", !.item = i])

\* remove: only an equipped item that is still held.
Remove(c) ==
    /\ equip[c] # None /\ at[equip[c]] = {Held(c)}
    /\ Start(c, [Idle EXCEPT !.op = "remove", !.item = equip[c]])

\* sell: the item is unequipped first, then its row is deleted.
Sell(c, i) ==
    /\ at[i] = {Held(c)}
    /\ Start(c, [Idle EXCEPT !.op = "sellUnequip", !.item = i])

\* RecordEquipment, at the end of wield, of remove, and of a verb whose item
\* left the actor's hands (autoUnequipIfHeld: only if the slot names it).  A
\* sale goes on to delete the row whether or not the write succeeds.
WriteEquip(c) ==
    LET v == verb[c]
        wears == IF v.op = "wield" THEN v.item
                 ELSE IF v.op = "remove" \/ equip[c] = v.item THEN None ELSE equip[c]
    IN  /\ up /\ v.op \in {"unequip", "remove", "wield", "sellUnequip"}
        /\ \/ equip' = [equip EXCEPT ![c] = wears] /\ NoFault
           \/ wears # equip[c] /\ Fault /\ UNCHANGED equip
        /\ verb' = [verb EXCEPT ![c] = IF v.op = "sellUnequip" THEN [v EXCEPT !.op = "sell"] ELSE Idle]
        /\ UNCHANGED <<at, born, aimed, swing, due, queue, popped, stuck, up, verbs>>

SellDelete(c) ==
    LET v == verb[c] IN
    /\ up /\ v.op = "sell"
    /\ \/ DeleteRows({v.item}) /\ NoFault
       \/ Fault /\ UNCHANGED at
    /\ verb' = [verb EXCEPT ![c] = Idle]
    /\ UNCHANGED <<born, equip, aimed, swing, due, queue, popped, stuck, up, verbs>>

\* throw: the wielded weapon is named in an action the next round resolves.
Throw(c) ==
    /\ up /\ verb[c] = Idle
    /\ equip[c] # None /\ at[equip[c]] # {}
    /\ verbs < MaxVerbs /\ verbs' = verbs + 1
    /\ aimed' = [aimed EXCEPT ![c] = equip[c]]
    /\ UNCHANGED <<at, born, equip, verb, swing, due, queue, popped, stuck, up, mishaps>>

-----------------------------------------------------------------------------
(* Combat.                                                                 *)

Begin(p, s) == up /\ swing[p] = Still /\ swing' = [swing EXCEPT ![p] = s]

\* handleFumble and clearThrownWeapon: the slot is read and the column written
\* without it.  A fumble gives up if the write fails, a throw goes on; a throw
\* whose slot names something else by now clears nothing and goes on too.
Fumble(p, c) ==
    /\ equip[c] # None
    /\ \/ /\ Begin(p, [Still EXCEPT !.op = "land", !.who = c, !.item = equip[c]])
          /\ equip' = [equip EXCEPT ![c] = None]
          /\ NoFault
       \/ up /\ swing[p] = Still /\ Fault /\ UNCHANGED <<swing, equip>>
    /\ UNCHANGED <<at, born, aimed, verb, due, queue, popped, stuck, up, verbs>>
ResolveThrow(p, c) ==
    /\ aimed[c] # None
    /\ Begin(p, [Still EXCEPT !.op = "land", !.who = c, !.item = aimed[c]])
    /\ \/ equip' = [equip EXCEPT ![c] = IF @ = aimed[c] THEN None ELSE @] /\ NoFault
       \/ equip[c] = aimed[c] /\ Fault /\ UNCHANGED equip
    /\ aimed' = [aimed EXCEPT ![c] = None]
    /\ UNCHANGED <<at, born, verb, due, queue, popped, stuck, up, verbs>>

\* dropThrownItem and the end of handleFumble: the weapon goes to the floor,
\* or into the corpse of the mob it killed.
Land(p) ==
    LET s == swing[p] IN
    /\ up /\ s.op = "land"
    /\ \/ NoFault /\ \E q \in {Floor} \cup {In(b) : b \in {k \in Bodies : at[k] = {Floor}}} : ForceTo(s.item, q)
       \/ Fault /\ UNCHANGED at
    /\ swing' = [swing EXCEPT ![p] = Still]
    /\ UNCHANGED <<born, equip, aimed, verb, due, queue, popped, stuck, up, verbs>>

\* spawnPlayerCorpse (a character) and spawnCorpse (a mob): Create with the
\* deadline in the same row; a failed Create leaves everything as it was.
Die(p, c, b) ==
    /\ b \notin born
    /\ born' = born \cup {b}
    /\ MoveTo(b, Floor)
    /\ Begin(p, [Still EXCEPT !.op = "schedule", !.who = c, !.body = b,
                              !.todo = IF c = None THEN {} ELSE {equip[c]} \ {None}])
    /\ UNCHANGED <<equip, aimed, verb, due, queue, popped, stuck, up, mishaps, verbs>>

\* Decayer.Schedule, in memory.  A mob's corpse is finished with that; for a
\* character ListAllOwnedTransitive follows, of which the top level matters,
\* added to the equipment as it was read at the start of the death.
Schedule(p) ==
    LET s == swing[p] IN
    /\ up /\ s.op = "schedule"
    /\ queue' = queue \cup {s.body}
    /\ swing' = [swing EXCEPT ![p] =
                    IF s.who = None THEN Still
                    ELSE [s EXCEPT !.op = "strip",
                                   !.todo = @ \cup {i \in Items : at[i] = {Held(s.who)}}]]
    /\ UNCHANGED <<at, born, equip, aimed, verb, due, popped, stuck, up, mishaps, verbs>>

\* TransferOwnerToContainer, item by item; a failure is logged and skipped.
Strip(p, i) ==
    LET s == swing[p] IN
    /\ up /\ s.op = "strip" /\ i \in s.todo
    /\ \/ i # s.body /\ Matches(i, Held(s.who)) /\ MoveTo(i, In(s.body)) /\ NoFault
       \/ (i = s.body \/ ~Matches(i, Held(s.who))) /\ NoFault /\ UNCHANGED at
       \/ Fault /\ UNCHANGED at
    /\ swing' = [swing EXCEPT ![p].todo = @ \ {i}]
    /\ UNCHANGED <<born, equip, aimed, verb, due, queue, popped, stuck, up, verbs>>

\* The equipment column is cleared last.
Bare(p) ==
    LET s == swing[p] IN
    /\ up /\ s.op = "strip" /\ s.todo = {}
    /\ \/ equip' = [equip EXCEPT ![s.who] = None] /\ NoFault
       \/ Fault /\ UNCHANGED equip
    /\ swing' = [swing EXCEPT ![p] = Still]
    /\ UNCHANGED <<at, born, aimed, verb, due, queue, popped, stuck, up, verbs>>

-----------------------------------------------------------------------------
(* Decay, crash and boot.                                                  *)

DeadlinePasses(b) ==
    /\ b \in born \ due
    /\ at[b] # {}
    /\ due' = due \cup {b}
    /\ UNCHANGED <<at, born, equip, aimed, verb, swing, queue, popped, stuck, up, mishaps, verbs>>

\* Mutant: the comparison with the clock is turned around.
PopEarly ==
    /\ up
    /\ queue \ due # {}
    /\ popped' = popped \cup (queue \ due)
    /\ queue' = queue \cap due
    /\ UNCHANGED <<at, born, equip, aimed, verb, swing, due, stuck, up, mishaps, verbs>>

\* Decayer.popDue: every entry that is due leaves the queue first ...
PopDue ==
    /\ up
    /\ queue \cap due # {}
    /\ popped' = popped \cup (queue \cap due)
    /\ queue' = queue \ due
    /\ UNCHANGED <<at, born, equip, aimed, verb, swing, due, stuck, up, mishaps, verbs>>

\* ... and its row is deleted after that; a failure is logged, not retried.
Decay(b) ==
    /\ up
    /\ b \in popped
    /\ popped' = popped \ {b}
    /\ \/ DeleteRows({b}) /\ NoFault /\ UNCHANGED stuck
       \/ Fault /\ stuck' = stuck \cup {b} /\ UNCHANGED at
    /\ UNCHANGED <<born, equip, aimed, verb, swing, due, queue, up, verbs>>

\* The process dies: goroutines, queued actions and the decay queue go with it.
Crash ==
    /\ up /\ Fault
    /\ up' = FALSE
    /\ verb' = [c \in Chars |-> Idle]
    /\ swing' = [p \in Pulses |-> Still]
    /\ aimed' = [c \in Chars |-> None]
    /\ queue' = {} /\ popped' = {} /\ stuck' = {}
    /\ UNCHANGED <<at, born, equip, due, verbs>>

\* Mutant: the boot sweeps what is past its deadline and queues nothing.
BootSweepsOnly ==
    /\ ~up
    /\ up' = TRUE
    /\ DeleteRows({b \in Bodies : at[b] # {}} \cap due)
    /\ UNCHANGED <<born, equip, aimed, verb, swing, due, queue, popped, stuck, mishaps, verbs>>

\* Decayer.RearmFromRepo, before anybody can log in: corpses past their
\* deadline are deleted on the spot, the others are queued again.
Boot ==
    LET rows == {b \in Bodies : at[b] # {}}
    IN  /\ ~up
        /\ up' = TRUE
        /\ queue' = rows \ due
        /\ \/ DeleteRows(rows \cap due) /\ NoFault /\ UNCHANGED stuck
           \/ \E b \in rows \cap due :
                 DeleteRows((rows \cap due) \ {b}) /\ Fault /\ stuck' = {b}
        /\ UNCHANGED <<born, equip, aimed, verb, swing, due, popped, verbs>>

-----------------------------------------------------------------------------
VerbStep(c) ==
    \/ \E i \in Items : Get(c, i) \/ Drop(c, i) \/ Wield(c, i) \/ Sell(c, i)
    \/ \E i \in Items, k \in Items : GetFrom(c, i, k) \/ Put(c, i, k)
    \/ \E i \in Items, d \in Chars : Give(c, i, d)
    \/ Remove(c) \/ Throw(c)
    \/ Transfer(c) \/ WriteEquip(c) \/ SellDelete(c)

\* Whatever a pulse has begun, it goes on with.
SwingOn(p) ==
    \/ Land(p) \/ Schedule(p) \/ Bare(p)
    \/ \E i \in Items : Strip(p, i)

SwingStep(p) ==
    \/ \E c \in Chars : Fumble(p, c) \/ ResolveThrow(p, c)
    \/ \E c \in Chars \cup {None}, b \in Bodies : Die(p, c, b)
    \/ SwingOn(p)

Next ==
    \/ \E c \in Chars : VerbStep(c)
    \/ \E p \in Pulses : SwingStep(p)
    \/ \E b \in Bodies : DeadlinePasses(b) \/ Decay(b)
    \/ PopDue
    \/ Crash \/ Boot

\* Clocks advance, goroutines that have begun a death go on, the decay bucket
\* keeps firing, and a crashed server is started again.
Fairness ==
    /\ \A b \in Bodies : WF_vars(DeadlinePasses(b)) /\ WF_vars(Decay(b))
    /\ WF_vars(PopDue)
    /\ \A p \in Pulses : WF_vars(SwingOn(p))
    /\ WF_vars(Boot)

Spec == Init /\ [][Next]_vars /\ Fairness

-----------------------------------------------------------------------------
(* Properties.                                                             *)

\* The place Custody sees: the one location column of the row.
Loc == [i \in Items |-> IF at[i] # {} THEN CHOOSE p \in at[i] : TRUE
                        ELSE IF i \in born \/ i \in Things THEN <<"gone">> ELSE <<"unborn">>]
Named == [c \in Chars |-> ({equip[c], aimed[c]} \cup {swing[p].item : p \in {q \in Pulses : swing[q].who = c}})
                          \ {None}]
C == INSTANCE Custody WITH loc <- Loc, named <- Named

\* The verbs, fights, deaths, decays and crashes together keep the promise of
\* Custody: of two players who reach for an item one gets it, and an item
\* leaves a character's hands only by that character's doing or by a weapon
\* slip of somebody whose equipment or queued throw names it.
Implements == C!Spec

\* Every corpse row of a running server is on its way out: queued, being
\* deleted, being scheduled, or its delete failed in this very run of the
\* server and it waits for the next boot.
CorpseTracked ==
    TypeOK /\ (up => \A b \in Bodies :
             at[b] # {} => \/ b \in queue \cup popped \cup stuck
                           \/ \E p \in Pulses : swing[p].op = "schedule" /\ swing[p].body = b)

\* A corpse decays, through crashes and restarts, unless the one statement
\* that would delete it fails.
CorpseGoes == \A b \in Bodies : (at[b] # {}) ~> (at[b] = {} \/ b \in stuck)
=============================================================================
