----------------------------- MODULE Progress ------------------------------
(***************************************************************************)
(* What a character makes of his experience: levels at a trainer, the      *)
(* pools each level fills and the verbs that empty them (cmd/train.go,     *)
(* learn.go, feat.go, bump.go, learn_weave.go, progression/levelup.go),    *)
(* and his hold on the One Power (cmd/embrace.go, still.go and the         *)
(* channeling pulse).                                                      *)
(*                                                                         *)
(* Each verb reads the row, checks cap, budget and duplicates against what *)
(* it has read, and then writes: a level-up overwrites the sheet but adds  *)
(* to the pools, a spending verb overwrites its pool with the remainder    *)
(* and appends to its column.  The channeling column is one blob: embrace, *)
(* release, still and the pulse write all of it back as they read it.      *)
(*                                                                         *)
(* The character has one dispatcher, so one verb of his runs at a time; an *)
(* admin and the pulse run beside it.  Experience is the level it pays     *)
(* for, LevelForXP.  An ability score stands for all six.                  *)
(***************************************************************************)
EXTENDS Integers, FiniteSets, Functions

CONSTANTS
    Callings,        \* the classes some trainer teaches
    FirstCalling,    \* the class chosen at creation
    HitDie, BaseAttack, SkillGain, Weaving, CallingSkills,   \* of a class
    Talents,         \* feats open to this character
    SkillIDs,
    Lore,            \* weaves in his affinity
    LoreCost,        \* weave -> practice points a teacher asks
    TopLevel,        \* MaxLevel
    FirstScore, ScoreCap,                                    \* AbilityBumpCap
    FirstWeaves,     \* weave picks open after creation
    SlotMax, MadnessMax,
    RanksPerCall     \* bound: ranks asked for at once

ASSUME ProgressAssumption ==
    /\ IsFiniteSet(Callings) /\ IsFiniteSet(SkillIDs)
    /\ FirstCalling \in Callings /\ HitDie \in [Callings -> Nat]
    /\ BaseAttack \in [Callings -> {"high", "medium", "low"}]
    /\ SkillGain \in [Callings -> Int] /\ Weaving \subseteq Callings
    /\ CallingSkills \in [Callings -> SUBSET SkillIDs] /\ LoreCost \in [Lore -> Nat]
    /\ {TopLevel, FirstScore, ScoreCap, FirstWeaves, SlotMax, MadnessMax} \subseteq Nat
    /\ RanksPerCall \in Nat \ {0}

VARIABLES
    levels,     \* class_levels_json
    sheet,      \* [hpMax, bab], written by a level-up only
    score,      \* the ability score
    talents,    \* feats_json
    ranks,      \* skills_json
    pools,      \* the pending_ columns and practice_points
    blob,       \* channeling_json
    worth,     \* LevelForXP of the experience column
    doing       \* "player", "staff", "pulse" -> the write it does next

progressVars == <<levels, sheet, score, talents, ranks, pools, blob, worth, doing>>

Total(ls) == SumFunction(ls)
AbilityModifier(n) == (n - 10) \div 2
AtLeastOne(n) == IF n < 1 THEN 1 ELSE n

(***************************************************************************)
(* levelup.go                                                              *)
(***************************************************************************)
HPDelta(die, mod) ==
    LET up == IF die % 2 = 1 THEN (die + 1) \div 2 + 1 ELSE die \div 2 + 1
    IN  AtLeastOne(up + mod)

BabPerClass(prog, n) ==
    CASE prog = "high" -> n [] prog = "medium" -> (n * 3) \div 4 [] prog = "low" -> n \div 2

BABTotal(ls) ==
    SumFunction([c \in {x \in Callings : ls[x] > 0} |-> BabPerClass(BaseAttack[c], ls[c])])

One(b) == IF b THEN 1 ELSE 0
Gains(c, n) == [feats  |-> One(n % 3 = 0), bumps |-> One(n % 4 = 0),
                skills |-> AtLeastOne(SkillGain[c]), weaves |-> One(c \in Weaving),
                practice |-> 1]

ComputeLevelUp(c) ==
    LET up == [levels EXCEPT ![c] = @ + 1] IN
    [levels |-> up, gains |-> Gains(c, up[c]),
     sheet  |-> [hpMax |-> sheet.hpMax + HPDelta(HitDie[c], AbilityModifier(score)),
                 bab   |-> BABTotal(up)]]

(***************************************************************************)
(* learn.go                                                                *)
(***************************************************************************)
ClassSkills == UNION {CallingSkills[c] : c \in {x \in Callings : levels[x] > 0}}
RankPrice(s)    == IF s \in ClassSkills THEN 1 ELSE 2
RankCeiling(s) == IF s \in ClassSkills THEN Total(levels) + 3 ELSE (Total(levels) + 3) \div 2

NoBlob == [stilled |-> FALSE, embraced |-> FALSE, slots |-> SlotMax, madness |-> 0, known |-> {}]
Resting == [op |-> "rest"]

ProgressInit ==
    /\ levels = [c \in Callings |-> One(c = FirstCalling)]
    /\ sheet = [hpMax |-> HitDie[FirstCalling], bab |-> BABTotal(levels)]
    /\ score = FirstScore /\ talents = {} /\ ranks = [s \in SkillIDs |-> 0]
    /\ pools = [feats |-> 0, skills |-> 0, bumps |-> 0, weaves |-> FirstWeaves, practice |-> 0]
    /\ blob = NoBlob /\ worth = 1
    /\ doing = [g \in {"player", "staff", "pulse"} |-> Resting]

Free(g) == doing[g].op = "rest"
Plan(g, job) == doing' = [doing EXCEPT ![g] = job]
Ready(g, op) == doing[g].op = op
RowStays == UNCHANGED <<levels, sheet, score, talents, ranks, pools, blob>>

\* Kills and quests pay enough for the next level.
Earn == worth < TopLevel /\ worth' = worth + 1 /\ RowStays /\ UNCHANGED doing

(***************************************************************************)
(* The verbs: what they check, then what they write                        *)
(***************************************************************************)
Untrained == worth - Total(levels)

Train(c) ==
    /\ Free("player") /\ Untrained > 0
    /\ Plan("player", [op |-> "level", up |-> ComputeLevelUp(c)])
    /\ RowStays /\ UNCHANGED worth

\* Mutant: the pools are overwritten with what the level brings.
RecordLevelUpReplaces ==
    /\ Ready("player", "level")
    /\ levels' = doing["player"].up.levels /\ sheet' = doing["player"].up.sheet
    /\ pools' = doing["player"].up.gains
    /\ Plan("player", Resting)
    /\ UNCHANGED <<score, talents, ranks, blob, worth>>

RecordLevelUp ==
    /\ Ready("player", "level")
    /\ levels' = doing["player"].up.levels /\ sheet' = doing["player"].up.sheet
    /\ pools' = [p \in DOMAIN pools |-> pools[p] + doing["player"].up.gains[p]]
    /\ Plan("player", Resting)
    /\ UNCHANGED <<score, talents, ranks, blob, worth>>

Learn(s, n) ==
    /\ Free("player") /\ ranks[s] + n <= RankCeiling(s) /\ n * RankPrice(s) <= pools.skills
    /\ Plan("player", [op |-> "rank", skill |-> s, to |-> ranks[s] + n,
                       left |-> pools.skills - n * RankPrice(s)])
    /\ RowStays /\ UNCHANGED worth

RecordSkillRank ==
    /\ Ready("player", "rank")
    /\ ranks' = [ranks EXCEPT ![doing["player"].skill] = doing["player"].to]
    /\ pools' = [pools EXCEPT !.skills = doing["player"].left]
    /\ Plan("player", Resting) /\ UNCHANGED <<levels, sheet, score, talents, blob, worth>>

Feat(t) ==
    /\ Free("player") /\ t \notin talents /\ pools.feats > 0
    /\ Plan("player", [op |-> "feat", feat |-> t, left |-> pools.feats - 1])
    /\ RowStays /\ UNCHANGED worth

RecordFeatPick ==
    /\ Ready("player", "feat")
    /\ talents' = talents \union {doing["player"].feat}
    /\ pools' = [pools EXCEPT !.feats = doing["player"].left]
    /\ Plan("player", Resting) /\ UNCHANGED <<levels, sheet, score, ranks, blob, worth>>

Bump ==
    /\ Free("player") /\ pools.bumps > 0 /\ score < ScoreCap
    /\ Plan("player", [op |-> "bump", to |-> score + 1, left |-> pools.bumps - 1])
    /\ RowStays /\ UNCHANGED worth

RecordAbilityBump ==
    /\ Ready("player", "bump")
    /\ score' = doing["player"].to
    /\ pools' = [pools EXCEPT !.bumps = doing["player"].left]
    /\ Plan("player", Resting) /\ UNCHANGED <<levels, sheet, talents, ranks, blob, worth>>

\* With a teacher in the room practice pays for a weave, else a pick does.
LearnWeave(w) ==
    /\ Free("player") /\ w \notin blob.known
    /\ \/ /\ pools.weaves > 0
          /\ Plan("player", [op |-> "weave", weave |-> w, pool |-> "weaves",
                             left |-> pools.weaves - 1])
       \/ /\ pools.practice >= LoreCost[w]
          /\ Plan("player", [op |-> "weave", weave |-> w, pool |-> "practice",
                             left |-> pools.practice - LoreCost[w]])
    /\ RowStays /\ UNCHANGED worth

\* RecordWeavePick and RecordWeaveStudy append to the blob inside their
\* transaction, so only the pool comes from the earlier read.
RecordWeave ==
    /\ Ready("player", "weave")
    /\ blob' = [blob EXCEPT !.known = @ \union {doing["player"].weave}]
    /\ pools' = [pools EXCEPT ![doing["player"].pool] = doing["player"].left]
    /\ Plan("player", Resting) /\ UNCHANGED <<levels, sheet, score, talents, ranks, worth>>

(***************************************************************************)
(* The blob: embrace and release, still and unstill, the pulse             *)
(***************************************************************************)
Grip ==
    /\ Free("player") /\ ~blob.stilled
    /\ Plan("player", [op |-> "blob", blob |-> [blob EXCEPT !.embraced = ~@]])
    /\ RowStays /\ UNCHANGED worth

Still ==
    /\ Free("staff")
    /\ Plan("staff", [op |-> "blob", blob |-> [blob EXCEPT !.stilled = ~@,
                                                  !.slots = IF blob.stilled THEN @ ELSE 0]])
    /\ RowStays /\ UNCHANGED worth

RefreshIfDue(b) == IF b.stilled THEN b ELSE [b EXCEPT !.slots = SlotMax]

AccrueMadness(b) ==
    IF b.stilled \/ ~b.embraced \/ b.madness >= MadnessMax THEN b
    ELSE [b EXCEPT !.madness = @ + 1]

\* The pulse finds a refresh due, or not; with nothing changed it does not write.
Pulse ==
    /\ Free("pulse")
    /\ \E fresh \in {blob, RefreshIfDue(blob)} :
         /\ AccrueMadness(fresh) # blob
         /\ Plan("pulse", [op |-> "blob", blob |-> AccrueMadness(fresh)])
    /\ RowStays /\ UNCHANGED worth

RecordChanneling(g) ==
    /\ Ready(g, "blob")
    /\ blob' = doing[g].blob /\ Plan(g, Resting)
    /\ UNCHANGED <<levels, sheet, score, talents, ranks, pools, worth>>

ProgressNext ==
    \/ Earn
    \/ \E c \in Callings : Train(c)
    \/ \E s \in SkillIDs, n \in 1..RanksPerCall : Learn(s, n)
    \/ \E t \in Talents : Feat(t)
    \/ Bump
    \/ \E w \in Lore : LearnWeave(w)
    \/ RecordLevelUp \/ RecordSkillRank \/ RecordFeatPick \/ RecordAbilityBump \/ RecordWeave
    \/ Grip \/ Still \/ Pulse
    \/ \E g \in DOMAIN doing : RecordChanneling(g)

ProgressSpec == ProgressInit /\ [][ProgressNext]_progressVars

(***************************************************************************)
(* Properties                                                              *)
(***************************************************************************)
\* What the levels held now have brought.
FeatsDue == SumFunction([c \in Callings |-> levels[c] \div 3])
BumpsDue == SumFunction([c \in Callings |-> levels[c] \div 4])
PointsDue == SumFunction([c \in Callings |-> AtLeastOne(SkillGain[c]) * levels[c]])
             - AtLeastOne(SkillGain[FirstCalling])
Bought == SumFunction(ranks)

PoolsBalance ==
    /\ pools.feats + Cardinality(talents) = FeatsDue
    /\ pools.bumps + (score - FirstScore) = BumpsDue
    /\ pools.skills + Bought <= PointsDue /\ PointsDue <= pools.skills + 2 * Bought

\* Whatever order levels, purchases, pulses and an admin's hand come in: every
\* feat, bump and rank was paid for by a level, and no level's deposit is lost
\* (RecordLevelUp adds to pools that the verbs overwrite); no level is taken
\* that experience has not earned, no rank exceeds its cap; and a stilled
\* channeler holds no slot, although the column is overwritten by whoever read
\* it last (train.go, learn.go, feat.go, bump.go, channeling.go).
SheetIsEarned ==
    /\ PoolsBalance
    /\ Total(levels) <= worth /\ sheet.bab = BABTotal(levels)
    /\ \A s \in SkillIDs : ranks[s] <= RankCeiling(s)
    /\ blob.stilled => blob.slots = 0
=============================================================================
