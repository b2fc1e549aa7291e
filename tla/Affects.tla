------------------------------ MODULE Affects ------------------------------
(***************************************************************************)
(* The timed affects of one character who stays in the world, the hit      *)
(* points they drain and the stamina that actions cost                     *)
(* (internal/affects, combat/cost.go, combat/stamina_ticker.go, the verbs  *)
(* affect, dispel and quaff, and the script binding apply_affect).         *)
(*                                                                         *)
(* Five goroutines write the affects column, each a whole list it has      *)
(* computed from a row it read earlier: the affects pulse, which leaves    *)
(* rooms with a fight alone, the end of a combat pulse, which serves the   *)
(* participants of the fight, and whoever applies or dispels.  Nothing     *)
(* orders them, so a list can come back after it was replaced.             *)
(*                                                                         *)
(* An affect is keyed by its source and its name; a list is the function   *)
(* from those keys to the ticks left, 0 for an affect that is not there.   *)
(* A swing's damage is external: a hit in the fight takes one hit point.   *)
(***************************************************************************)
EXTENDS Integers, FiniteSets, FiniteSetsExt

CONSTANTS
    AffectSources,      \* admin, potion, script
    AffectNames,
    TickDamage,         \* name -> what a tick adds to the hit points
    Lasts,              \* durations an affect is applied with
    MaxPerName,         \* MaxAffectsPerName
    HealthMax, StaminaMax, ActionStamina, StaminaRegen,
    Swings,             \* swings of a turn (IterativeCount)
    HeavyArmor,         \* the body armor worn is heavy
    Doses,              \* charges of the potion carried
    MaxApplied,         \* bound: affects applied in a behaviour
    MaxUnwritten        \* bound: RecordAffects failures in a behaviour

\* What the catalog of effects, and the verb affect, let through: each affect has its tick damage
\* and lasts a positive number of ticks.
EffectsValid == TickDamage \in [AffectNames -> Int] /\ Lasts \subseteq Nat \ {0}

ASSUME AffectsAssumption ==
    /\ EffectsValid
    /\ MaxPerName \in Nat \ {0} /\ HealthMax \in Nat \ {0}
    /\ {StaminaMax, ActionStamina, StaminaRegen, Swings} \subseteq Nat
    /\ StaminaRegen > 0 /\ Swings > 0
    /\ HeavyArmor \in BOOLEAN /\ {Doses, MaxApplied, MaxUnwritten} \subseteq Nat

VARIABLES
    affects,    \* characters.affects_json
    health,     \* characters.hp_current
    stamina,    \* characters.stamina_current
    brawl,      \* "none", "in" (he fights), "beside": a fight in his room
    doses,      \* ConsumableStats.Charges
    task,       \* goroutine -> what it does next, from what it has read
    applied, unwritten

affectVars == <<affects, health, stamina, brawl, doses, task, applied, unwritten>>

AffectKeys == AffectSources \X AffectNames
Nothing == [k \in AffectKeys |-> 0]
On(list) == {k \in AffectKeys : list[k] > 0}
Rest == [op |-> "rest"]

(***************************************************************************)
(* Lists of affects                                                        *)
(***************************************************************************)
\* The entry of that name with the fewest ticks left makes room.
EvictForName(list, name) ==
    LET same == {k \in On(list) : k[2] = name}
    IN  IF Cardinality(same) < MaxPerName THEN list
        ELSE LET victim == CHOOSE k \in same : \A j \in same : list[k] <= list[j]
             IN  [list EXCEPT ![victim] = 0]

Apply(list, k, ticks) ==
    IF list[k] > 0 THEN [list EXCEPT ![k] = ticks]
    ELSE [EvictForName(list, k[2]) EXCEPT ![k] = ticks]

Tick(list) == [k \in AffectKeys |-> IF list[k] = 0 THEN 0 ELSE list[k] - 1]

FilterAffects(list, names) == [k \in AffectKeys |-> IF k[2] \in names THEN 0 ELSE list[k]]

Clamp(n) == IF n < 0 THEN 0 ELSE IF n > HealthMax THEN HealthMax ELSE n
ApplyTickEffects(list, hp) ==
    Clamp(hp + MapThenSumSet(LAMBDA k : TickDamage[k[2]], On(list)))

EffectiveStaminaRegen ==
    IF ~HeavyArmor THEN StaminaRegen
    ELSE IF StaminaRegen \div 2 < 1 THEN 1 ELSE StaminaRegen \div 2

AffectsInit ==
    /\ affects = Nothing /\ health = HealthMax /\ stamina = StaminaMax
    /\ brawl = "none" /\ doses = Doses /\ applied = 0 /\ unwritten = 0
    /\ task = [g \in {"pulse", "round", "regen", "player", "staff"} |-> Rest]

Does(g, t) == task' = [task EXCEPT ![g] = t]
At(g, op)  == task[g].op = op

(***************************************************************************)
(* The affects pulse                                                       *)
(***************************************************************************)
PulseLook ==
    /\ At("pulse", "rest") /\ brawl = "none" /\ On(affects) # {}
    /\ Does("pulse", [op |-> "bleed", list |-> affects,
                      was |-> health, hp |-> ApplyTickEffects(affects, health)])
    /\ UNCHANGED <<affects, health, stamina, brawl, doses, applied, unwritten>>

\* RecordHP, when some entry changed the hit points it had read.
PulseBleed ==
    /\ At("pulse", "bleed")
    /\ health' = IF task["pulse"].hp # task["pulse"].was THEN task["pulse"].hp ELSE health
    /\ Does("pulse", [task["pulse"] EXCEPT !.op = "count"])
    /\ UNCHANGED <<affects, stamina, brawl, doses, applied, unwritten>>

\* Mutant: the pulse is done once the list is written, and nobody dies.
CountedAndDone ==
    /\ At("pulse", "count")
    /\ affects' = Tick(task["pulse"].list)
    /\ Does("pulse", Rest)
    /\ UNCHANGED <<health, stamina, brawl, doses, applied, unwritten>>

PulseCount ==
    /\ At("pulse", "count")
    /\ affects' = Tick(task["pulse"].list)
    /\ LET t == task["pulse"] IN
       Does("pulse", IF t.hp = 0 /\ t.was # 0 THEN [op |-> "die"] ELSE Rest)
    /\ UNCHANGED <<health, stamina, brawl, doses, applied, unwritten>>

\* The list cannot be written: the tick ends there, before the death.
PulseCountFails ==
    /\ At("pulse", "count") /\ unwritten < MaxUnwritten
    /\ unwritten' = unwritten + 1 /\ Does("pulse", Rest)
    /\ UNCHANGED <<affects, health, stamina, brawl, doses, applied>>

\* HandleAffectDeath: he wakes whole at his bound room; affects stay on him.
PulseDeath ==
    /\ At("pulse", "die")
    /\ health' = HealthMax /\ brawl' = "none" /\ Does("pulse", Rest)
    /\ UNCHANGED <<affects, stamina, doses, applied, unwritten>>

(***************************************************************************)
(* The fight: joining, a hit, the cost of an action, the round's end       *)
(***************************************************************************)
Brawl ==
    /\ \/ brawl = "none" /\ brawl' \in {"in", "beside"}
       \/ brawl = "beside" /\ brawl' \in {"in", "none"}
       \/ brawl = "in" /\ brawl' = "none"
    /\ UNCHANGED <<affects, health, stamina, doses, task, applied, unwritten>>

Hit ==
    /\ brawl = "in" /\ health > 0
    /\ IF health = 1 THEN health' = HealthMax /\ brawl' = "none"
       ELSE health' = health - 1 /\ UNCHANGED brawl
    /\ UNCHANGED <<affects, stamina, doses, task, applied, unwritten>>

\* The first action of a turn was paid for when it was queued; another
\* swing needs the stamina now (hasStaminaFor).
DrainLook ==
    /\ brawl = "in"
    /\ \/ /\ At("round", "rest")
          /\ Does("round", [op |-> "drain", sp |-> stamina, left |-> Swings - 1])
       \/ /\ At("round", "drained") /\ task["round"].left > 0 /\ stamina >= ActionStamina
          /\ Does("round", [op |-> "drain", sp |-> stamina, left |-> task["round"].left - 1])
    /\ UNCHANGED <<affects, health, stamina, brawl, doses, applied, unwritten>>

DrainWrite ==
    /\ At("round", "drain")
    /\ stamina' = IF task["round"].sp < ActionStamina THEN 0
                  ELSE task["round"].sp - ActionStamina
    /\ Does("round", [op |-> "drained", left |-> task["round"].left])
    /\ UNCHANGED <<affects, health, brawl, doses, applied, unwritten>>

RoundLook ==
    /\ task["round"].op \in {"rest", "drained"} /\ brawl = "in" /\ On(affects) # {}
    /\ Does("round", [op |-> "count", list |-> affects])
    /\ UNCHANGED <<affects, health, stamina, brawl, doses, applied, unwritten>>

RoundCount ==
    /\ At("round", "count")
    /\ affects' = Tick(task["round"].list)
    /\ Does("round", Rest)
    /\ UNCHANGED <<health, stamina, brawl, doses, applied, unwritten>>

RoundOver ==
    /\ At("round", "drained") /\ (brawl # "in" \/ On(affects) = {})
    /\ Does("round", Rest)
    /\ UNCHANGED <<affects, health, stamina, brawl, doses, applied, unwritten>>

(***************************************************************************)
(* The regeneration pulse                                                  *)
(***************************************************************************)
RegenLook ==
    /\ At("regen", "rest") /\ health > 0 /\ stamina < StaminaMax
    /\ EffectiveStaminaRegen > 0
    /\ Does("regen", [op |-> "write",
                      sp |-> IF stamina + EffectiveStaminaRegen > StaminaMax THEN StaminaMax
                             ELSE stamina + EffectiveStaminaRegen])
    /\ UNCHANGED <<affects, health, stamina, brawl, doses, applied, unwritten>>

RegenWrite ==
    /\ At("regen", "write")
    /\ stamina' = task["regen"].sp /\ Does("regen", Rest)
    /\ UNCHANGED <<affects, health, brawl, doses, applied, unwritten>>

(***************************************************************************)
(* quaff, affect, apply_affect and dispel                                  *)
(***************************************************************************)
Quaff ==
    /\ At("player", "rest") /\ doses > 0 /\ applied < MaxApplied
    /\ \E n \in AffectNames, ticks \in Lasts :
         Does("player", [op |-> "write", list |-> Apply(affects, <<"potion", n>>, ticks)])
    /\ applied' = applied + 1
    /\ UNCHANGED <<affects, health, stamina, brawl, doses, unwritten>>

\* The potion pays one charge, the last one with its row, after the write.
QuaffWrite ==
    /\ At("player", "write")
    /\ affects' = task["player"].list /\ doses' = doses - 1 /\ Does("player", Rest)
    /\ UNCHANGED <<health, stamina, brawl, applied, unwritten>>

AffectLook ==
    /\ At("staff", "rest") /\ applied < MaxApplied
    /\ \E s \in AffectSources \ {"potion"}, n \in AffectNames, ticks \in Lasts :
         Does("staff", [op |-> "write", list |-> Apply(affects, <<s, n>>, ticks)])
    /\ applied' = applied + 1
    /\ UNCHANGED <<affects, health, stamina, brawl, doses, unwritten>>

DispelLook ==
    /\ At("staff", "rest") /\ On(affects) # {}
    /\ \E names \in {AffectNames} \union {{n} : n \in AffectNames} :
         LET next == FilterAffects(affects, names) IN
         next # affects /\ Does("staff", [op |-> "write", list |-> next])
    /\ UNCHANGED <<affects, health, stamina, brawl, doses, applied, unwritten>>

StaffWrite ==
    /\ At("staff", "write")
    /\ affects' = task["staff"].list /\ Does("staff", Rest)
    /\ UNCHANGED <<health, stamina, brawl, doses, applied, unwritten>>

PulseStep == PulseLook \/ PulseBleed \/ PulseCount \/ PulseCountFails \/ PulseDeath
RoundStep == DrainLook \/ DrainWrite \/ RoundLook \/ RoundCount \/ RoundOver
RegenStep == RegenLook \/ RegenWrite
HandStep  == Quaff \/ QuaffWrite \/ AffectLook \/ DispelLook \/ StaffWrite

AffectsNext == Brawl \/ Hit \/ PulseStep \/ RoundStep \/ RegenStep \/ HandStep

(***************************************************************************)
(* Properties                                                              *)
(***************************************************************************)
\* Whoever overwrites whom, no list ever holds more entries of one name than
\* the stacking cap (affects.go, MaxAffectsPerName).
NameWithinCap ==
    \A n \in AffectNames :
        Cardinality({k \in On(affects) : k[2] = n}) <= MaxPerName

Settles(where) == <>[](brawl = where)

\* Once the fighting has settled one way or the other, all that was laid on
\* the character wears off, although a stale list may have been written over
\* a newer one on the way; a character in peace has all his stamina again,
\* and one whom a tick left without hit points has died and come back
\* (session_ticker.go, manager.go tickParticipantAffects, stamina_ticker.go).
CalmRestores ==
    [](unwritten = 0) =>
      /\ Settles("none") => <>[](On(affects) = {} /\ stamina = StaminaMax /\ health > 0)
      /\ Settles("in")   => <>[](On(affects) = {})
=============================================================================
