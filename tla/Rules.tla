------------------------------- MODULE Rules -------------------------------
(***************************************************************************)
(* The arithmetic of a fight: the attack and damage rolls and the stances  *)
(* of internal/combat (resolution.go, manager.go), and how the experience  *)
(* of a kill is divided among those who did the damage and their parties   *)
(* (death.go).  And the slots a fighter's weapons are in                   *)
(* (creature/equipment.go).                                                *)
(*                                                                         *)
(* A die is an argument: what is stated holds for whatever it shows.       *)
(* Damage is kept in int32, of which Span is half the range (2^31).        *)
(***************************************************************************)
EXTENDS Integers, Sequences, FiniteSets, Functions

CONSTANT Span

ASSUME RulesAssumption == Span \in Nat /\ Span > 1

MaxInt32 == Span - 1
Int32(n) == ((n + Span) % (2 * Span)) - Span
AtLeast(low, n) == IF n < low THEN low ELSE n
AtMost(high, n) == IF n > high THEN high ELSE n
TowardsZero(n, d) == IF n < 0 THEN -((-n) \div d) ELSE n \div d

-----------------------------------------------------------------------------
(* Attack *)

AbilityMod(score) ==
    LET diff == score - 10
    IN  TowardsZero(IF diff < 0 /\ diff % 2 # 0 THEN diff - 1 ELSE diff, 2)

\* One swing, and a further one for each five points of base attack past the first.
IterativeBonusesFor(bab) ==
    LET swings == IF bab >= 16 THEN 4 ELSE IF bab >= 11 THEN 3 ELSE IF bab >= 6 THEN 2 ELSE 1
    IN  [i \in 1..swings |-> -5 * (i - 1)]

threatLow(w) == IF w.ThreatLow \in 1..20 THEN w.ThreatLow ELSE 20
critMult(w) == IF w.CritMult <= 1 THEN 2 ELSE w.CritMult

effectiveDefense(defender, flatFooted) ==
    IF flatFooted /\ defender.DexMod > 0 THEN defender.Defense - defender.DexMod
    ELSE defender.Defense

\* 1 misses, 20 hits, else the total decides.
Succeeds(die, bonus, defense) == die # 1 /\ (die = 20 \/ die + bonus >= defense)

RollAttack(raw, confirm, bonus, w, defense) ==
    LET hit == Succeeds(raw, bonus, defense)
        threat == hit /\ raw >= threatLow(w)
    IN  [Hit |-> hit, Threat |-> threat, Fumble |-> raw = 1,
         IsCrit |-> threat /\ Succeeds(confirm, bonus, defense)]

-----------------------------------------------------------------------------
(* Stances: a fight keeps the round until which each actor parries, dodges or *)
(* stands flat-footed, Unset when he does not.                                *)

Unset == -1
InForce(until, who, round) == until[who] >= round

resolveParry(f, round, actor) == [f EXCEPT !.ParryingUntil[actor] = round + 1]
resolveDodge(f, round, actor) == [f EXCEPT !.DodgeUntil[actor] = round + 1]
resolveSidestep(f, round, target) ==
    IF target \in f.Order THEN [f EXCEPT !.FlatFootedUntil[target] = round + 1] ELSE f

RollParry(die, defender) == die + defender.BAB + defender.DexMod

\* A swing at a defender who may stand in each of them: what comes of it,
\* whether the weapon is dropped, and the fight after it.  A parry that
\* succeeds is used up and leaves the attacker flat-footed, the dodge stays;
\* a swing that is not parried uses up the dodge and never the parry.
Swing(f, round, attacker, target, dice, bonus, w, defender) ==
    LET dodging == InForce(f.DodgeUntil, target, round)
        flat == InForce(f.FlatFootedUntil, target, round) /\ ~dodging
        braced == IF dodging THEN [defender EXCEPT !.Defense = @ + 4] ELSE defender
        roll == RollAttack(dice.raw, dice.confirm, bonus, w, effectiveDefense(braced, flat))
        parried == /\ roll.Hit /\ InForce(f.ParryingUntil, target, round)
                   /\ RollParry(dice.parry, defender) > dice.raw + bonus
        slipped == ~roll.Hit /\ dodging /\ dice.raw + bonus >= defender.Defense
    IN  [how   |-> CASE parried -> "parry" [] slipped -> "dodge"
                     [] ~roll.Hit /\ ~slipped -> "miss" [] OTHER -> "hit",
         drops |-> roll.Fumble /\ ~slipped,
         fight |-> IF parried
                   THEN [f EXCEPT !.ParryingUntil[target] = Unset, !.FlatFootedUntil[attacker] = round + 1]
                   ELSE IF dodging THEN [f EXCEPT !.DodgeUntil[target] = Unset] ELSE f]

-----------------------------------------------------------------------------
(* What is worn: one item in each slot, 0 for none *)

slotOrder == <<"armor", "shield", "primary", "offhand", "outfit", "cloak", "backpack", "held", "mount">>
Equipment(ids) == [Range(slotOrder) -> ids]

EquipGet(worn, slot) == IF slot \in DOMAIN worn THEN worn[slot] ELSE 0
EquipSet(worn, slot, item) == [worn EXCEPT ![slot] = item]

\* The first slot with the item, in a sequence of one at most.
FindByItem(worn, item) ==
    LET at == {i \in DOMAIN slotOrder : worn[slotOrder[i]] = item}
    IN  IF item = 0 \/ at = {} THEN <<>>
        ELSE <<slotOrder[CHOOSE i \in at : \A j \in at : i <= j]>>
ClearItem(worn, item) ==
    LET found == FindByItem(worn, item)
    IN  IF found = <<>> THEN worn ELSE EquipSet(worn, found[1], 0)

\* wear and wield: nothing is put on twice, nor over something else.
PutOn(worn, slot, item) ==
    IF FindByItem(worn, item) = <<>> /\ EquipGet(worn, slot) = 0
    THEN EquipSet(worn, slot, item) ELSE worn

\* A new character's kit, of which the first item of each type is put on.
slotForType == [armor |-> "armor", shield |-> "shield", clothing |-> "outfit", weapon |-> "primary"]
autoEquip(worn, type, item) ==
    IF type \in DOMAIN slotForType /\ EquipGet(worn, slotForType[type]) = 0
    THEN EquipSet(worn, slotForType[type], item) ELSE worn

-----------------------------------------------------------------------------
(* Damage *)

unarmedDamage == [Type |-> <<"B">>, Subdual |-> FALSE, ThreatLow |-> 0, CritMult |-> 0]

\* Stats is empty when they could not be decoded.
weaponStatsFor(it) ==
    IF it.Type = "weapon" /\ it.Stats # <<>> THEN it.Stats[1] ELSE unarmedDamage

weaponPrimaryDamageType(w) ==
    LET known == {i \in 1..Len(w.Type) : w.Type[i] \in {"S", "P", "B"}}
    IN  CASE w.Subdual -> "subdual"
          [] ~w.Subdual /\ known = {} -> "bludgeon"
          [] OTHER -> LET code == w.Type[CHOOSE i \in known : \A j \in known : i <= j]
                      IN  CASE code = "S" -> "slash" [] code = "P" -> "pierce" [] OTHER -> "bludgeon"

Variants == {"normal", "power", "quick"}

\* What "NdM+K" may come to; an expression that is refused, or comes to
\* nothing, is rolled as 1d3.
rollDice(d) ==
    IF d.n \in 1..100 /\ d.m \in 1..1000 /\ d.flat \in -10000..10000
    THEN (d.n + d.flat)..(d.n * d.m + d.flat) ELSE {}
Bases(d) ==
    {b \in rollDice(d) : b > 0}
      \cup (IF rollDice(d) = {} \/ \E b \in rollDice(d) : b <= 0 THEN 1..3 ELSE {})

Varied(dmg, variant) ==
    CASE variant = "power" -> AtLeast(1, (dmg * 3) \div 2)
      [] variant = "quick" -> AtLeast(1, (dmg * 3) \div 5)
      [] OTHER -> dmg

RollDamage(base, strMod, w, isCrit, variant) ==
    LET plain == AtLeast(1, base + strMod)
        struck == IF isCrit THEN plain * critMult(w) ELSE plain
    IN  AtMost(MaxInt32, Varied(struck, variant))

\* Flat reductions that name no bypass come off first.
AfterReduction(amount, DR) ==
    LET off == {i \in 1..Len(DR) : DR[i].Amount > 0 /\ DR[i].Bypass = ""}
    IN  amount - SumFunction([i \in off |-> DR[i].Amount])

\* One matching resistance, in percent; below zero it is a weakness.
Resisted(amount, pct) == Int32(AtLeast(0, (amount * (100 - pct)) \div 100))

\* What a blow takes.
DamageTaken(amount, dt, DR, Resists) ==
    LET left[i \in 0..Len(Resists)] ==
          IF i = 0 THEN AfterReduction(amount, DR)
          ELSE IF Resists[i].Type = dt /\ Resists[i].Pct # 0
               THEN Resisted(left[i - 1], Resists[i].Pct) ELSE left[i - 1]
    IN  IF amount <= 0 \/ AfterReduction(amount, DR) <= 0 THEN 0
        ELSE AtLeast(0, left[Len(Resists)])

applyDamage(target, amount, dt) ==
    LET taken == DamageTaken(amount, dt, target.DR, target.Resists)
    IN  IF dt = "subdual" THEN [target EXCEPT !.Subdual = @ + taken]
                          ELSE [target EXCEPT !.HPCurrent = @ - taken]

-----------------------------------------------------------------------------
(* Experience *)

xpValueForChallenge(code) ==
    CASE code = "B" -> 250  [] code = "C" -> 600  [] code = "D" -> 1200 [] code = "E" -> 2400
      [] code = "F" -> 4800 [] code = "G" -> 9600 [] code = "H" -> 19200
      [] code = "I" -> 38400 [] OTHER -> 100
xpValueForTemplate(t) == IF t.XPValue > 0 THEN t.XPValue ELSE xpValueForChallenge(t.ChallengeCode)

PvPXPPerVictimLevel == 50
PvPLevelDiffCap == 5
pvpXPForKill(attackerLevel, victimLevel) ==
    IF victimLevel <= 0 \/ attackerLevel - victimLevel > PvPLevelDiffCap THEN 0
    ELSE PvPXPPerVictimLevel * victimLevel

\* Who shares what id did here: byCharacter is the leader of everybody in a
\* party, here the characters with a session in the room.
MembersInRoom(id, byCharacter, here) ==
    LET mates == {m \in DOMAIN byCharacter \cap here : byCharacter[m] = byCharacter[id]}
    IN  IF id \notin DOMAIN byCharacter \/ mates = {} THEN {id} ELSE mates

\* One round of the loop over the tally.  Alone, the contributor keeps what he
\* did, whatever the map already held for him; in company everybody gets a
\* share, and he the remainder if he is among them.
Divide(out, ref, dmg, members) ==
    LET share == dmg \div Cardinality(members)
        remainder == dmg - share * Cardinality(members)
    IN  IF dmg <= 0 \/ Cardinality(members) <= 1 THEN [out EXCEPT ![ref] = dmg]
        ELSE [m \in DOMAIN out |->
                out[m] + (IF m \in members THEN share ELSE 0)
                       + (IF m = ref /\ m \in members THEN remainder ELSE 0)]

\* The map is visited in some order, and the parties are asked anew for each.
expandTallyByGroup(tally, order, members) ==
    LET out[i \in 0..Len(order)] ==
          IF i = 0 THEN [a \in DOMAIN tally |-> 0]
          ELSE Divide(out[i - 1], order[i], tally[order[i]], members[order[i]])
    IN  out[Len(order)]

Positive(tally) == [a \in DOMAIN tally |-> IF tally[a] > 0 THEN tally[a] ELSE 0]

allocateXP(tally, totalXP, killer) ==
    LET sum == SumFunction(Positive(tally))
        share == [a \in DOMAIN tally |->
                    IF sum = 0 THEN 0 ELSE (totalXP * Positive(tally)[a]) \div sum]
        remainder == totalXP - SumFunction(share)
    IN  IF totalXP <= 0 THEN [a \in DOMAIN tally |-> 0]
        ELSE [a \in DOMAIN tally |-> share[a] + (IF a = killer THEN remainder ELSE 0)]
=============================================================================
