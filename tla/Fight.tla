-------------------------------- MODULE Fight --------------------------------
(***************************************************************************)
(* The fight of one room: combat.Manager (internal/combat/manager.go,      *)
(* fight.go, action.go), the verbs that open a fight and queue actions     *)
(* (internal/cmd/attack.go, flee.go, parry.go), the death handlers         *)
(* (mob_death.go, character_death.go) and the damage scripts deal          *)
(* (external_damage.go).                                                   *)
(*                                                                         *)
(* A pulse snapshots the order, looks for the mobs without the lock, takes *)
(* the lock to prune, to find who is ready and to pop their actions, and   *)
(* resolves those without the lock, every read and write of a hit-point    *)
(* row a step of its own.  Nothing keeps two pulses, or a pulse and a      *)
(* script, from overlapping.                                               *)
(*                                                                         *)
(* Rolls are a choice.  Stances, threat and the round counter only bias    *)
(* rolls and are left out, as are stamina, the thrown weapon, loot (module *)
(* Purse) and the amounts of experience (module QuestLog).  A throw is an  *)
(* "attack"; a parry, dodge or sidestep only sets a stance when it is      *)
(* resolved, so it is a "flee" that fails.  No code queues actions for     *)
(* mobs.  The bound room of a character is another one.                    *)
(***************************************************************************)
EXTENDS Naturals, Sequences, FiniteSets, SequencesExt

CONSTANTS
    Chars, Mobs, NoOne,
    Pulses,       \* goroutines running Manager.Tick; more than one: overlapping
    Scripts,      \* goroutines running a script that deals damage
    HPMax,
    MaxInputs     \* bound on commands, moves and script strikes

ASSUME FightAssumption ==
    /\ HPMax \in Nat \ {0} /\ MaxInputs \in Nat
    /\ Chars \cap Mobs = {} /\ Pulses \cap Scripts = {}
    /\ NoOne \notin Chars \cup Mobs

Actors == Chars \cup Mobs
Strikers == Pulses \cup Scripts

VARIABLES
    order,     \* Fight.Order, highest initiative first; <<>>: no fight
    ready,     \* actors whose NextActAt has passed
    actions,   \* character -> its queued action
    dead, fled,
    tally,     \* actors with an entry in DamageTally
    at,        \* "here" (the room), "away", "gone" (the mob's row is deleted)
    hp,        \* hit points in the actor's row
    verb,      \* character -> target of its attack command under way
    pulse,     \* pulse -> its program counter, order snapshot and actors to do
    work,      \* striker -> the strike, flight or death it is working on
    inputs,    \* commands, moves and script strikes so far
    deaths,    \* mob -> CombatDeath events published for it
    scripted   \* mobs a script has struck

fightVars == <<order, ready, actions, dead, fled, tally>>
world == <<at, hp>>
history == <<deaths, scripted>>
combatVars == <<fightVars, world, verb, pulse, work, inputs, history>>

Action == [kind : {"none", "attack", "flee"}, target : Actors \cup {NoOne}]
NoAction == [kind |-> "none", target |-> NoOne]

Work == [pc : {"free", "roll", "write", "tally", "dead", "despawn", "respawn", "mark", "fled"},
         by : Chars \cup {NoOne}, target : Actors \cup {NoOne}, hp : 0..HPMax,
         room : {"here", "away"}]
Free == [pc |-> "free", by |-> NoOne, target |-> NoOne, hp |-> 0, room |-> "here"]

IdlePulse == [pc |-> "idle", snap |-> {}, todo |-> <<>>]

\* The members of S in a sequence, in their order: SelectSeq, written so that
\* the proofs can unfold it.
Among(s, S) ==
    LET upTo[i \in 0..Len(s)] ==
          IF i = 0 THEN <<>>
          ELSE IF s[i] \in S THEN Append(upTo[i - 1], s[i]) ELSE upTo[i - 1]
    IN  IF ToSet(s) \subseteq S THEN s ELSE upTo[Len(s)]

Active == order # <<>>
InOrder(a) == a \in ToSet(order)

FightTypeOK ==
    /\ order \in Seq(Actors) /\ Len(order) <= 2 /\ IsInjective(order)
    /\ {ready, dead, fled} \subseteq SUBSET Actors
    /\ tally \subseteq Chars
    /\ actions \in [Chars -> Action]
    /\ at \in [Actors -> {"here", "away", "gone"}]
    /\ \A c \in Chars : at[c] # "gone"
    /\ hp \in [Actors -> 0..HPMax]
    /\ verb \in [Chars -> Actors \cup {NoOne}]
    /\ pulse \in [Pulses -> [pc : {"idle", "check", "end", "lock", "act", "busy", "swung"},
                             snap : SUBSET Actors,
                             todo : Seq([who : Actors, act : Action])]]
    /\ work \in [Strikers -> Work]
    /\ inputs \in 0..MaxInputs
    /\ deaths \in [Mobs -> Nat]
    /\ scripted \subseteq Mobs

FightInit ==
    /\ order = <<>> /\ ready = {} /\ actions = [c \in Chars |-> NoAction]
    /\ dead = {} /\ fled = {} /\ tally = {}
    /\ at = [a \in Actors |-> "here"]
    /\ hp = [a \in Actors |-> HPMax]
    /\ verb = [c \in Chars |-> NoOne]
    /\ pulse = [p \in Pulses |-> IdlePulse]
    /\ work = [w \in Strikers |-> Free]
    /\ inputs = 0
    /\ deaths = [m \in Mobs |-> 0]
    /\ scripted = {}

Input == inputs < MaxInputs /\ inputs' = inputs + 1

-----------------------------------------------------------------------------
(* The verbs.                                                              *)

\* The room verbs act in and players are found in is the session's, which a
\* respawn moves later than the row.
Present(a) ==
    \/ at[a] = "here"
    \/ a \in Chars /\ \E w \in Strikers :
          work[w].pc = "mark" /\ work[w].target = a /\ work[w].room = "here"

\* runAttack through Start: the target is found in the room and initiative is
\* rolled; ErrFightExists counts as success.
Attack(c, t) ==
    /\ Input
    /\ verb[c] = NoOne
    /\ Present(c) /\ Present(t) /\ c # t
    /\ verb' = [verb EXCEPT ![c] = t]
    /\ IF Active THEN UNCHANGED <<order, ready>>
       ELSE order' \in {<<c, t>>, <<t, c>>} /\ ready' = {c, t}
    /\ UNCHANGED <<actions, dead, fled, tally, world, pulse, work, history>>

\* EnqueueAction: refused without a fight; nobody asks whether the actor is
\* in the order.
EnqueueAction(c, act) ==
    actions' = IF Active THEN [actions EXCEPT ![c] = act] ELSE actions

\* In the room the session is in by now.
EnqueueAttack(c) ==
    /\ verb[c] # NoOne
    /\ IF Present(c) THEN EnqueueAction(c, [kind |-> "attack", target |-> verb[c]])
                     ELSE UNCHANGED actions
    /\ verb' = [verb EXCEPT ![c] = NoOne]
    /\ UNCHANGED <<order, ready, dead, fled, tally, world, pulse, work, inputs, history>>

\* flee, and parry, dodge and sidestep.
Enqueue(c) ==
    /\ Input
    /\ verb[c] = NoOne
    /\ Active /\ Present(c)
    /\ EnqueueAction(c, [kind |-> "flee", target |-> NoOne])
    /\ UNCHANGED <<order, ready, dead, fled, tally, world, verb, pulse, work, history>>

\* A character walks, a mob wanders; no fight keeps them, and a leader takes its
\* followers along in the middle of their commands.  (A walk that a respawn
\* overtakes leads from one other room to another.)
Move(a) ==
    /\ Input
    /\ at[a] = "here" \/ (at[a] = "away" /\ ~Present(a))
    /\ at' = [at EXCEPT ![a] = IF @ = "here" THEN "away" ELSE "here"]
    /\ UNCHANGED <<fightVars, hp, verb, pulse, work, history>>

-----------------------------------------------------------------------------
(* tickRoom.                                                               *)

\* delete(m.fights, roomID)
EndFight ==
    /\ order' = <<>> /\ ready' = {} /\ actions' = [c \in Chars |-> NoAction]
    /\ dead' = {} /\ fled' = {} /\ tally' = {}

\* Under the read lock: the order is copied.
TickRead(p) ==
    /\ pulse[p].pc = "idle"
    /\ Active
    /\ pulse' = [pulse EXCEPT ![p] = [pc |-> "check", snap |-> ToSet(order), todo |-> <<>>]]
    /\ UNCHANGED <<fightVars, world, verb, work, inputs, history>>

\* fightHasLiveParticipants: a fight without mobs goes on; otherwise one of
\* its mobs must be in the room.
FightHasLiveParticipants(snap) ==
    snap \cap Mobs = {} \/ \E m \in snap \cap Mobs : at[m] = "here"

\* Without the lock.
TickCheck(p) ==
    /\ pulse[p].pc = "check"
    /\ pulse' = [pulse EXCEPT ![p] =
          [IdlePulse EXCEPT !.pc = IF FightHasLiveParticipants(pulse[p].snap) THEN "lock" ELSE "end"]]
    /\ UNCHANGED <<fightVars, world, verb, work, inputs, history>>

\* The fight of the room is ended, whichever it is by now.
TickEnd(p) ==
    /\ pulse[p].pc = "end"
    /\ EndFight
    /\ pulse' = [pulse EXCEPT ![p] = IdlePulse]
    /\ UNCHANGED <<world, verb, work, inputs, history>>

Pending(a) == IF a \in Chars THEN actions[a] ELSE NoAction

\* Mutant: only the head of the order is considered.
HeadOfOrder(left) == IF Head(left) \in ready THEN <<Head(left)>> ELSE <<>>

Acting(left) == Among(left, ready)

\* pruneDead, then the ready actors and their actions (popAction).  The
\* fight may have ended meanwhile, or ends because nobody is left.
TickLock(p) ==
    /\ pulse[p].pc = "lock"
    /\ LET left == Among(order, Actors \ (dead \cup fled))
       IN IF left = <<>>
          THEN EndFight /\ pulse' = [pulse EXCEPT ![p] = IdlePulse]
          ELSE LET acting == Acting(left) IN
               /\ order' = left
               /\ dead' = {} /\ fled' = {}
               /\ ready' = ready \cap ToSet(left)
               /\ actions' = [c \in Chars |-> IF c \in ToSet(acting) THEN NoAction ELSE actions[c]]
               /\ pulse' = [pulse EXCEPT ![p] =
                      IF acting = <<>> THEN IdlePulse
                      ELSE [pc |-> "act", snap |-> {},
                            todo |-> [i \in DOMAIN acting |->
                                         [who |-> acting[i], act |-> Pending(acting[i])]]]]
               /\ UNCHANGED tally
    /\ UNCHANGED <<world, verb, work, inputs, history>>

Current(p) == Head(pulse[p].todo)

\* resolveCore finds the row.
RowExists(t) == at[t] # "gone"

\* resolveAction of an attack: the defender's row is read, or it is a miss.
StrikeRead(p) ==
    /\ pulse[p].pc = "act"
    /\ Current(p).act.kind = "attack"
    /\ LET t == Current(p).act.target
       IN IF RowExists(t)
          THEN /\ work' = [work EXCEPT ![p] = [pc |-> "roll", by |-> Current(p).who, target |-> t,
                                               hp |-> hp[t], room |-> "here"]]
               /\ pulse' = [pulse EXCEPT ![p].pc = "busy"]
          ELSE pulse' = [pulse EXCEPT ![p].pc = "swung"] /\ UNCHANGED work
    /\ UNCHANGED <<fightVars, world, verb, inputs, history>>

\* A miss or a successful parry.
StrikeMisses(p) ==
    /\ work[p].pc = "roll"
    /\ work' = [work EXCEPT ![p] = Free]
    /\ pulse' = [pulse EXCEPT ![p].pc = "swung"]
    /\ UNCHANGED <<fightVars, world, verb, inputs, history>>

\* A hit for d points: the row is written from what was read.
StrikeHits(p, d) ==
    /\ work[p].pc = "roll"
    /\ LET left == IF d < work[p].hp THEN work[p].hp - d ELSE 0
       IN /\ hp' = [hp EXCEPT ![work[p].target] = IF RowExists(work[p].target) THEN left ELSE @]
          /\ work' = [work EXCEPT ![p].pc = "tally", ![p].hp = left]
    /\ UNCHANGED <<fightVars, at, verb, pulse, inputs, history>>

\* DamageTally, and the dispatch to a death handler.
StrikeTally(p) ==
    /\ work[p].pc = "tally"
    /\ tally' = IF Active THEN tally \cup {work[p].by} ELSE tally
    /\ work' = [work EXCEPT ![p] = IF work[p].hp = 0 THEN [@ EXCEPT !.pc = "dead"] ELSE Free]
    /\ pulse' = [pulse EXCEPT ![p].pc = IF work[p].hp = 0 THEN @ ELSE "swung"]
    /\ UNCHANGED <<order, ready, actions, dead, fled, world, verb, inputs, history>>

\* iterativeTargetGone
IterativeTargetGone(t) == t \in dead \cup fled \/ ~InOrder(t)

\* The next swing of the same action, while stamina and swings last.
Swing(p) ==
    /\ pulse[p].pc = "swung"
    /\ Current(p).act.kind = "attack"
    /\ ~IterativeTargetGone(Current(p).act.target)
    /\ pulse' = [pulse EXCEPT ![p].pc = "act"]
    /\ UNCHANGED <<fightVars, world, verb, work, inputs, history>>

\* resolveFlee: AttemptFlee moves the actor, then Fled is marked.
Flee(p) ==
    /\ pulse[p].pc = "act"
    /\ Current(p).act.kind = "flee"
    /\ at' = [at EXCEPT ![Current(p).who] = "away"]
    /\ work' = [work EXCEPT ![p] = [Free EXCEPT !.pc = "fled", !.by = Current(p).who]]
    /\ pulse' = [pulse EXCEPT ![p].pc = "busy"]
    /\ UNCHANGED <<fightVars, hp, verb, inputs, history>>

FleeMark(p) ==
    /\ work[p].pc = "fled"
    /\ fled' = IF Active THEN fled \cup {work[p].by} ELSE fled
    /\ work' = [work EXCEPT ![p] = Free]
    /\ pulse' = [pulse EXCEPT ![p].pc = "swung"]
    /\ UNCHANGED <<order, ready, actions, dead, tally, world, verb, inputs, history>>

\* No action, a stance, a flight that fails or has no exit.
NoEffect(p) ==
    /\ pulse[p].pc = "act"
    /\ Current(p).act.kind # "attack"
    /\ pulse' = [pulse EXCEPT ![p].pc = "swung"]
    /\ UNCHANGED <<fightVars, world, verb, work, inputs, history>>

\* NextActAt is moved on; the next ready actor, or the end of the pulse.
Restamp(p) ==
    /\ pulse[p].pc = "swung"
    /\ ready' = ready \ {Current(p).who}
    /\ pulse' = [pulse EXCEPT ![p] = IF Len(pulse[p].todo) = 1 THEN IdlePulse
                                     ELSE [pulse[p] EXCEPT !.pc = "act", !.todo = Tail(@)]]
    /\ UNCHANGED <<order, actions, dead, fled, tally, world, verb, work, inputs, history>>

\* Time passes: an actor's NextActAt is reached.
Ready(a) ==
    /\ InOrder(a) /\ a \notin ready
    /\ ready' = ready \cup {a}
    /\ UNCHANGED <<order, actions, dead, fled, tally, world, verb, pulse, work, inputs, history>>

-----------------------------------------------------------------------------
(* Scripts: ApplyDamageExternal.                                           *)

ScriptRead(x, t) ==
    /\ Input
    /\ work[x].pc = "free"
    /\ at[t] # "gone" /\ hp[t] > 0
    /\ work' = [work EXCEPT ![x] = [Free EXCEPT !.pc = "write", !.target = t, !.hp = hp[t]]]
    /\ UNCHANGED <<fightVars, world, verb, pulse, history>>

Lethal(before, d) == d >= before

ScriptWrite(x, d) ==
    /\ work[x].pc = "write"
    /\ LET t == work[x].target
           left == IF d < work[x].hp THEN work[x].hp - d ELSE 0
       IN IF at[t] = "gone"
          THEN work' = [work EXCEPT ![x] = Free] /\ UNCHANGED <<hp, scripted>>
          ELSE /\ hp' = [hp EXCEPT ![t] = left]
               /\ work' = [work EXCEPT ![x] = IF Lethal(@.hp, d) THEN [@ EXCEPT !.pc = "dead", !.hp = 0]
                                              ELSE Free]
               /\ scripted' = scripted \cup ({t} \cap Mobs)
    /\ UNCHANGED <<fightVars, at, verb, pulse, inputs, deaths>>

-----------------------------------------------------------------------------
(* handleMobDeath and handleCharacterDeath, called by a pulse or a script. *)

\* The caller goes on: a pulse with its actor's next swing.
HandlerDone(w) ==
    /\ work' = [work EXCEPT ![w] = Free]
    /\ pulse' = [p \in Pulses |-> IF p = w THEN [pulse[p] EXCEPT !.pc = "swung"] ELSE pulse[p]]

\* The mob's row is gone already: markDeadAllRooms.
MobDeathLost(w) ==
    /\ work[w].pc = "dead"
    /\ work[w].target \in Mobs /\ at[work[w].target] = "gone"
    /\ dead' = IF Active THEN dead \cup {work[w].target} ELSE dead
    /\ HandlerDone(w)
    /\ UNCHANGED <<order, ready, actions, fled, tally, world, verb, inputs, history>>

\* The row and its room are read.
DeathRead(w) ==
    /\ work[w].pc = "dead"
    /\ at[work[w].target] # "gone"
    /\ work' = [work EXCEPT ![w].pc = IF work[w].target \in Mobs THEN "despawn" ELSE "respawn",
                            ![w].room = at[work[w].target]]
    /\ UNCHANGED <<fightVars, world, verb, pulse, inputs, history>>

\* Mutant: the room is cleared and the row stays.
MobDespawnKeepsRow(w) ==
    /\ work[w].pc = "despawn"
    /\ at' = [at EXCEPT ![work[w].target] = IF @ = "gone" THEN "gone" ELSE "away"]
    /\ work' = [work EXCEPT ![w].pc = "mark"]
    /\ UNCHANGED <<fightVars, hp, verb, pulse, inputs, history>>

\* Corpse, UpdateRoom(0) and Delete.
MobDespawn(w) ==
    /\ work[w].pc = "despawn"
    /\ at' = [at EXCEPT ![work[w].target] = "gone"]
    /\ hp' = [hp EXCEPT ![work[w].target] = 0]
    /\ work' = [work EXCEPT ![w].pc = "mark"]
    /\ UNCHANGED <<fightVars, verb, pulse, inputs, history>>

\* RecordCore with full hit points, RecordRoom to the bound room.
Respawn(w) ==
    /\ work[w].pc = "respawn"
    /\ hp' = [hp EXCEPT ![work[w].target] = HPMax]
    /\ at' = [at EXCEPT ![work[w].target] = "away"]
    /\ work' = [work EXCEPT ![w].pc = "mark"]
    /\ UNCHANGED <<fightVars, verb, pulse, inputs, history>>

\* Dead is marked in the fight of the room the victim was read in, and the
\* death is published (a mob's with the experience it is worth).
DeathMark(w) ==
    /\ work[w].pc = "mark"
    /\ dead' = IF Active /\ work[w].room = "here" THEN dead \cup {work[w].target} ELSE dead
    /\ deaths' = [m \in Mobs |-> IF m = work[w].target THEN deaths[m] + 1 ELSE deaths[m]]
    /\ HandlerDone(w)
    /\ UNCHANGED <<order, ready, actions, fled, tally, world, verb, inputs, scripted>>

-----------------------------------------------------------------------------
Death(w) == MobDeathLost(w) \/ DeathRead(w) \/ MobDespawn(w) \/ Respawn(w) \/ DeathMark(w)

Tick(p) ==
    \/ TickRead(p) \/ TickCheck(p) \/ TickEnd(p) \/ TickLock(p)
    \/ StrikeRead(p) \/ StrikeMisses(p) \/ (\E d \in 0..HPMax : StrikeHits(p, d)) \/ StrikeTally(p)
    \/ Flee(p) \/ FleeMark(p) \/ NoEffect(p) \/ Restamp(p)
    \/ Death(p)

FightNext ==
    \/ \E c \in Chars : \/ \E t \in Actors : Attack(c, t)
                        \/ EnqueueAttack(c)
                        \/ Enqueue(c)
    \/ \E a \in Actors : Move(a) \/ Ready(a)
    \/ \E p \in Pulses : Tick(p) \/ Swing(p)
    \/ \E x \in Scripts : \/ \E t \in Actors : ScriptRead(x, t)
                          \/ \E d \in 1..HPMax : ScriptWrite(x, d)
                          \/ Death(x)

FightSpec == FightInit /\ [][FightNext]_combatVars

-----------------------------------------------------------------------------
(* Properties.                                                             *)

\* Who is down to no hit points is being dealt with: some striker is on its
\* way to the death handler, so no victim is left standing at zero, whatever
\* strikes and scripts overwrite each other's hit points (resolveAction,
\* ApplyDamageExternal).
ZeroIsHandled ==
    FightTypeOK /\ \A a \in Actors :
        hp[a] = 0 /\ at[a] # "gone" =>
            \E w \in Strikers : /\ work[w].target = a
                                /\ work[w].pc \in {"tally", "dead", "despawn", "respawn"}

\* Pulses alone never kill a mob twice: a second corpse, a second share of
\* experience and a second quest credit need a script that strikes it too.
DiesOnce ==
    \A m \in Mobs : deaths[m] > 1 => m \in scripted

\* A fight does not outlive the mob it is against: a listed mob that has
\* left or died comes back, or leaves the order, or the fight ends.
AbsentMobEndsFight ==
    \A m \in Mobs :
        (InOrder(m) /\ at[m] # "here") ~> (~InOrder(m) \/ at[m] = "here")

\* What a participant has queued is resolved, or the participant or the
\* fight is gone: no order of pulses, deaths and flights starves an actor.
ParticipantActs ==
    \A c \in Chars :
        (InOrder(c) /\ actions[c] # NoAction) ~> (~InOrder(c) \/ actions[c] = NoAction)

\* cmd/flee.go:21, "Resolves on your next combat tick", and
\* combat/fight.go, "Resolved + cleared by the Manager's Tick": whatever the
\* verbs accept while a fight is on is resolved, or the fight ends.
QueuedActionResolves ==
    \A c \in Chars : (actions[c] # NoAction) ~> (actions[c] = NoAction)

\* Deaths are handled, and pulses handle each of them once.
DeathsHandled == ZeroIsHandled /\ DiesOnce

\* A fight neither outlives its mob nor forgets one of its participants.
FightGoesOn == AbsentMobEndsFight /\ ParticipantActs
=============================================================================
