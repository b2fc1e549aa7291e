------------------------------ MODULE Chargen ------------------------------
(***************************************************************************)
(* The character wizard: a draft filled in over a hub of substeps that may *)
(* be visited in any order and any number of times, and turned into a row  *)
(* of the character table by the review screen.  One handler runs per line *)
(* of input, so a line is a step; the statements after the row is created  *)
(* may fail one by one.  Other players create characters meanwhile and     *)
(* take names.                                                             *)
(*                                                                         *)
(* A line that is refused changes nothing and is left out, and so are the  *)
(* pages that only display (info, show).  Age, handedness and alignment    *)
(* are free text to the wizard; gender stands for the identity fields.     *)
(***************************************************************************)
EXTENDS Integers, Sequences, FiniteSets, FiniteSetsExt, Functions

CONSTANTS
    Names,          \* names that validateCharacterName accepts
    NoPick,           \* an empty name, race, background, class, feat or row
    \* the catalog
    Races, Backgrounds, Classes, Feats, Skills, Powers, Weaves,
    RaceOf,         \* background -> its race
    FeatsOf,        \* background -> the feats of FeatsForBackground
    KitsOf,         \* background -> its equipment options, each a sequence of item types
    Channelers,     \* the classes with channeler: true
    Barred,         \* the races that may not channel
    SkillsOf,       \* class or background -> its skills
    PointsOf,       \* class -> skill points a level
    CoinOf,         \* class -> starting coin
    PowerOf,        \* weave -> its power
    Wearable,       \* item types that are put on at once
    \* the numbers of the rules
    Abilities, MinScore, MaxScore, Cost, PointBuy, Mind,
    RankCap, LevelOneFactor, AffinityCount, WeaveCount

\* What validate lets into the catalog, of what the wizard reads: references
\* resolve, a background has something to choose from, a class has points to
\* spend, and its coin can be read.  A catalog that breaks this ends the boot.
CatalogSound ==
    /\ RaceOf \in [Backgrounds -> Races]
    /\ FeatsOf \in [Backgrounds -> SUBSET Feats]
    /\ \A o \in Classes \cup Backgrounds : SkillsOf[o] \subseteq Skills
    /\ \A b \in Backgrounds : KitsOf[b] \in Seq(Seq(STRING)) /\ KitsOf[b] # <<>>
    /\ PointsOf \in [Classes -> Nat] /\ \A c \in Classes : PointsOf[c] > 0
    /\ CoinOf \in [Classes -> Nat] /\ Channelers \subseteq Classes
    /\ PowerOf \in [Weaves -> Powers]

ASSUME CatalogAssumption ==
    /\ CatalogSound
    /\ NoPick \notin Names \cup Races \cup Backgrounds \cup Classes \cup Feats
    /\ Barred \subseteq Races
    /\ Mind \in Abilities /\ IsFiniteSet(Abilities) /\ IsFiniteSet(Skills)
    /\ {MinScore, MaxScore} \subseteq Int /\ MinScore <= MaxScore
    /\ Cost \in [MinScore..MaxScore -> Nat] /\ Cost[MinScore] = 0
    /\ {PointBuy, RankCap, LevelOneFactor} \subseteq Nat

VARIABLES
    step,     \* CharacterCreate.step
    draft,    \* CharacterCreate.draft
    confirm,  \* pendingConfirm
    field,    \* pendingIdentityField: "none" or "gender"
    stage,    \* channelingStage
    taken,    \* names in the character table
    row       \* the row the wizard has created, or NoPick

chargenVars == <<step, draft, confirm, field, stage, taken, row>>

Substeps == {"background", "class", "abilities", "identity", "feat", "skills",
             "channeling", "equipment"}
WizardSteps == {"name", "race", "hub", "review", "confirm", "kit", "wear", "purse", "done"} \cup Substeps

Drafts == [name : Names \cup {NoPick}, race : Races \cup {NoPick},
           bg : Backgrounds \cup {NoPick}, class : Classes \cup {NoPick},
           scores : [Abilities -> {0} \cup (MinScore..MaxScore)], scored : BOOLEAN,
           gender : {NoPick, "male", "female"},
           feat : Feats \cup {NoPick},
           ranks : [Skills -> 0..RankCap], budget : Nat, skilled : BOOLEAN,
           source : {NoPick, "saidin", "saidar"},
           affinities : SUBSET Powers, weaves : SUBSET Weaves,
           kit : Nat]

Blank == [name |-> NoPick, race |-> NoPick, bg |-> NoPick, class |-> NoPick,
          scores |-> [a \in Abilities |-> 0], scored |-> FALSE,
          gender |-> NoPick, feat |-> NoPick,
          ranks |-> [k \in Skills |-> 0], budget |-> 0, skilled |-> FALSE,
          source |-> NoPick, affinities |-> {}, weaves |-> {}, kit |-> 0]

Rows == [draft : Drafts, items : Nat, worn : SUBSET Nat, coin : Nat]

ChargenTypes ==
    /\ step \in WizardSteps
    /\ draft \in Drafts
    /\ confirm \in {"none", "restart", "cancel"}
    /\ field \in {"none", "gender"}
    /\ stage \in {"affinities", "weaves"}
    /\ taken \subseteq Names \cup {NoPick}
    /\ row \in Rows \cup {NoPick}

ChargenInit ==
    /\ step = "name" /\ draft = Blank
    /\ confirm = "none" /\ field = "none" /\ stage = "affinities"
    /\ taken = {}
    /\ row = NoPick

-----------------------------------------------------------------------------
(* What the catalog and the rules say about a draft.                       *)

\* pointBuySpent and abilityModifier (floor division).
Spent(scores) == SumFunction([a \in Abilities |-> Cost[scores[a]]])
Modifier(score) == (score - 10) \div 2

\* firstLevelSkillBudget, from what the draft holds when it is asked.
SkillBudget(d) ==
    LET perLevel == IF d.class = NoPick THEN 0 ELSE PointsOf[d.class]
    IN  LevelOneFactor * Max({1, perLevel + Modifier(d.scores[Mind])})

RanksSpent(ranks) == SumFunction(ranks)

Channels(d) == d.class \in Channelers
ClassesFor(race) == IF race \in Barred THEN Classes \ Channelers ELSE Classes
AllowedSkills(d) == IF d.bg = NoPick \/ d.class = NoPick THEN {} ELSE SkillsOf[d.bg] \cup SkillsOf[d.class]
Eligible(affinities) == {w \in Weaves : PowerOf[w] \in affinities}

\* draftComplete and the row checks it calls.
FeatRowComplete(d) == d.feat # NoPick \/ FeatsOf[d.bg] = {}
ChannelingRowComplete(d) ==
    /\ d.source # NoPick
    /\ Cardinality(d.affinities) = AffinityCount
    /\ Cardinality(d.weaves) = WeaveCount
EquipmentRowComplete(d) == d.kit \in 1..Len(KitsOf[d.bg])

DraftComplete(d) ==
    /\ d.bg # NoPick /\ d.class # NoPick
    /\ d.scored /\ d.gender # NoPick
    /\ FeatRowComplete(d)
    /\ d.skilled
    /\ Channels(d) => ChannelingRowComplete(d)
    /\ EquipmentRowComplete(d)

-----------------------------------------------------------------------------
(* Moving between the screens.                                             *)

\* writeHub: a complete draft goes straight on to the review.
ShowHub(d) ==
    /\ draft' = d
    /\ step' = IF DraftComplete(d) THEN "review" ELSE "hub"

\* enterSubstep, with the init helper of the substep it enters.
Primed(d, to) ==
    CASE to = "abilities" /\ ~d.scored ->
           [d EXCEPT !.scores = [a \in Abilities |-> MinScore], !.scored = TRUE]
      [] to = "identity" /\ d.gender = NoPick -> [d EXCEPT !.gender = "male"]
      [] to = "skills" /\ ~d.skilled ->
           [d EXCEPT !.budget = SkillBudget(d), !.ranks = Blank.ranks, !.skilled = TRUE]
      [] to = "channeling" /\ d.source = NoPick ->
           [d EXCEPT !.source = IF d.gender = "male" THEN "saidin" ELSE "saidar",
                     !.affinities = {}, !.weaves = {}]
      [] OTHER -> d

\* The background menu has nothing to offer to a draft without a race, and
\* goes back to the hub.
EnterSubstep(to) ==
    /\ to = "channeling" => Channels(draft)
    /\ IF to = "background" /\ {b \in Backgrounds : RaceOf[b] = draft.race} = {}
       THEN ShowHub(draft)
       ELSE step' = to /\ draft' = Primed(draft, to)
    /\ field' = IF to = "identity" THEN "none" ELSE field
    /\ stage' = IF to = "channeling" THEN "affinities" ELSE stage
    /\ UNCHANGED <<confirm, taken, row>>

OpenRow(to) == step \in {"hub", "review"} /\ EnterSubstep(to)

\* `back`, and an empty line on the hub; `back` is refused at the name, and from
\* the hub it asks whether to quit.  From the
\* review it shows the hub once without coming straight back.
Return ==
    \/ /\ step = "race" /\ step' = "name"
       /\ UNCHANGED <<draft, confirm, field, stage, taken, row>>
    \/ /\ step = "review" /\ step' = "hub"
       /\ UNCHANGED <<draft, confirm, field, stage, taken, row>>
    \/ /\ step \in Substeps \cup {"hub"}
       /\ ShowHub(draft)
       /\ UNCHANGED <<confirm, field, stage, taken, row>>

\* `restart` on the hub; `cancel` anywhere; `quit` and `back` on the hub.
Ask(what) ==
    /\ step \in {"name", "race", "hub", "review"} \cup Substeps
    /\ what = "restart" => step = "hub"
    /\ step' = "confirm" /\ confirm' = what
    /\ UNCHANGED <<draft, field, stage, taken, row>>

\* The answer: a wizard that is left for the account menu is dropped, and the
\* next one starts blank, as this one does after a restart.
Answer(yes) ==
    /\ step = "confirm"
    /\ confirm' = "none"
    /\ IF yes THEN draft' = Blank /\ step' = "name"
              ELSE ShowHub(draft)
    /\ UNCHANGED <<field, stage, taken, row>>

\* Every substep is left for the hub.
Done(guard) == guard /\ ShowHub(draft) /\ UNCHANGED <<confirm, field, stage, taken, row>>

Edit(d) == draft' = d /\ UNCHANGED <<step, confirm, field, stage, taken, row>>

-----------------------------------------------------------------------------
(* The substeps.                                                           *)

ApplyName(n) ==
    /\ step = "name"
    /\ draft' = [draft EXCEPT !.name = n] /\ step' = "race"
    /\ UNCHANGED <<confirm, field, stage, taken, row>>

\* The race is set and nothing that was picked under another race is dropped.
ApplyRace(r) ==
    /\ step = "race"
    /\ ShowHub([draft EXCEPT !.race = r])
    /\ UNCHANGED <<confirm, field, stage, taken, row>>

ApplyBackground(b) ==
    /\ step = "background" /\ RaceOf[b] = draft.race
    /\ ShowHub([draft EXCEPT !.bg = b, !.kit = IF draft.bg = b THEN @ ELSE 0])
    /\ UNCHANGED <<confirm, field, stage, taken, row>>

\* Another class starts its channeling anew.
ApplyClass(c) ==
    /\ step = "class" /\ c \in ClassesFor(draft.race)
    /\ ShowHub(IF draft.class = c THEN draft
               ELSE [draft EXCEPT !.class = c, !.source = NoPick, !.affinities = {}, !.weaves = {}])
    /\ UNCHANGED <<confirm, field, stage, taken, row>>

\* `set <ability> <n>` and the bumps by one; over budget it is rolled back.
SetScore(a, n) ==
    /\ step = "abilities"
    /\ Spent([draft.scores EXCEPT ![a] = n]) <= PointBuy
    /\ Edit([draft EXCEPT !.scores[a] = n])

ResetScores == step = "abilities" /\ Edit([draft EXCEPT !.scores = [a \in Abilities |-> MinScore]])

\* Row 1 of the identity menu asks for the value on the next line; a verb
\* carries it.  A pending field swallows every line that is no value for it.
AskField ==
    /\ step = "identity" /\ field = "none" /\ field' = "gender"
    /\ UNCHANGED <<step, draft, confirm, stage, taken, row>>
SetGender(g) ==
    /\ step = "identity"
    /\ draft' = [draft EXCEPT !.gender = g] /\ field' = "none"
    /\ UNCHANGED <<step, confirm, stage, taken, row>>

PickFeat(f) == step = "feat" /\ draft.bg # NoPick /\ f \in FeatsOf[draft.bg] /\ Edit([draft EXCEPT !.feat = f])

\* `rank` and the bumps.  The budget is the one stamped on the first visit.
SetRank(k, n) ==
    /\ step = "skills" /\ k \in AllowedSkills(draft)
    /\ RanksSpent([draft.ranks EXCEPT ![k] = n]) <= draft.budget
    /\ Edit([draft EXCEPT !.ranks[k] = n])
ResetRanks == step = "skills" /\ Edit([draft EXCEPT !.ranks = Blank.ranks])

\* Without an eligible weave the weave page falls back to the affinities.
ShowChanneling(d, st) ==
    /\ draft' = d
    /\ stage' = IF Eligible(d.affinities) = {} THEN "affinities" ELSE st
    /\ UNCHANGED <<step, confirm, field, taken, row>>

\* Mutant: a power is given up and the weaves that need it are kept.
ToggleAffinityOnly(p) ==
    /\ step = "channeling" /\ stage = "affinities"
    /\ p \notin draft.affinities => Cardinality(draft.affinities) < AffinityCount
    /\ ShowChanneling([draft EXCEPT !.affinities = (@ \cup {p}) \ (@ \cap {p})], stage)

ToggleAffinity(p) ==
    /\ step = "channeling" /\ stage = "affinities"
    /\ \/ /\ p \in draft.affinities
          /\ ShowChanneling([draft EXCEPT !.affinities = @ \ {p}, !.weaves = {}], stage)
       \/ /\ p \notin draft.affinities /\ Cardinality(draft.affinities) < AffinityCount
          /\ LET powers == draft.affinities \cup {p}
             IN  ShowChanneling([draft EXCEPT !.affinities = powers,
                                              !.weaves = @ \cap Eligible(powers)], stage)

\* `affinities <a> <b>`, on either page.
SetAffinities(ps) ==
    /\ step = "channeling"
    /\ Cardinality(ps) = AffinityCount
    /\ ShowChanneling([draft EXCEPT !.affinities = ps,
                                    !.weaves = IF ps = draft.affinities THEN @ ELSE {}], stage)

ToggleWeave(w) ==
    /\ step = "channeling" /\ stage = "weaves" /\ w \in Eligible(draft.affinities)
    /\ \/ w \in draft.weaves /\ ShowChanneling([draft EXCEPT !.weaves = @ \ {w}], stage)
       \/ /\ w \notin draft.weaves /\ Cardinality(draft.weaves) < WeaveCount
          /\ ShowChanneling([draft EXCEPT !.weaves = @ \cup {w}], stage)

\* `weaves <id> ...`, on either page.
SetWeaves(ws) ==
    /\ step = "channeling"
    /\ Cardinality(ws) = WeaveCount /\ ws \subseteq Eligible(draft.affinities)
    /\ ShowChanneling([draft EXCEPT !.weaves = ws], stage)

ToWeaves ==
    /\ step = "channeling" /\ stage = "affinities"
    /\ Cardinality(draft.affinities) = AffinityCount
    /\ ShowChanneling(draft, "weaves")
ToAffinities == step = "channeling" /\ stage = "weaves" /\ ShowChanneling(draft, "affinities")

PickKit(n) == step = "equipment" /\ draft.bg # NoPick /\ n \in 1..Len(KitsOf[draft.bg]) /\ Edit([draft EXCEPT !.kit = n])

\* `done` on each page, with what it insists on.
LeaveSubstep ==
    \/ Done(step = "abilities" /\ Spent(draft.scores) <= PointBuy)
    \/ Done(step = "identity" /\ field = "none")
    \/ Done(step = "feat" /\ draft.bg # NoPick /\ FeatRowComplete(draft))
    \/ Done(step = "skills")
    \/ Done(step = "channeling" /\ stage = "weaves" /\ Cardinality(draft.weaves) = WeaveCount)
    \/ Done(step = "equipment" /\ draft.bg # NoPick /\ EquipmentRowComplete(draft))

-----------------------------------------------------------------------------
(* The review and what follows it.                                         *)

\* finaliseReview: CharacterRepo.Create.  A name that is taken costs the name
\* and nothing else; any other failure leaves the review as it is.
Finalise ==
    /\ step = "review"
    /\ IF draft.name \in taken
       THEN /\ step' = "name" /\ draft' = [draft EXCEPT !.name = NoPick]
            /\ UNCHANGED <<taken, row>>
       ELSE /\ step' = "kit"
            /\ taken' = taken \cup {draft.name}
            /\ row' = [draft |-> draft, items |-> 0, worn |-> {}, coin |-> 0]
            /\ UNCHANGED draft
    /\ UNCHANGED <<confirm, field, stage>>

Kit == KitsOf[draft.bg][draft.kit]

\* autoEquipFromType: of each wearable type the first item.
FirstOfType(kit) == {i \in 1..Len(kit) : kit[i] \in Wearable /\ \A j \in 1..(i - 1) : kit[j] # kit[i]}

\* applyStartingEquipment: the items one by one; the first failure, or one of
\* RecordInventory, ends it with nothing worn.
CreateKitItem ==
    /\ step = "kit"
    /\ IF row.items = Len(Kit) THEN step' = "wear" /\ UNCHANGED row
       ELSE step' = step /\ row' = [row EXCEPT !.items = @ + 1]
    /\ UNCHANGED <<draft, confirm, field, stage, taken>>
WearKit ==
    /\ step = "wear" /\ step' = "purse"
    /\ row' = [row EXCEPT !.worn = FirstOfType(Kit)]
    /\ UNCHANGED <<draft, confirm, field, stage, taken>>

KitFails ==
    /\ step \in {"kit", "wear"} /\ step' = "purse"
    /\ UNCHANGED <<draft, confirm, field, stage, taken, row>>

\* RecordCoin with version 0, then promoteToGame; a failure is logged.
FillPurse ==
    /\ step = "purse" /\ step' = "done"
    /\ row' \in {row, [row EXCEPT !.coin = CoinOf[draft.class]]}
    /\ UNCHANGED <<draft, confirm, field, stage, taken>>

\* Another player's wizard gets a name first.
TakeName(n) ==
    /\ n \notin taken /\ taken' = taken \cup {n}
    /\ UNCHANGED <<step, draft, confirm, field, stage, row>>

-----------------------------------------------------------------------------
Pick ==
    \/ \E n \in Names : ApplyName(n)
    \/ \E r \in Races : ApplyRace(r)
    \/ \E b \in Backgrounds : ApplyBackground(b)
    \/ \E c \in Classes : ApplyClass(c)
    \/ \E a \in Abilities, n \in MinScore..MaxScore : SetScore(a, n)
    \/ ResetScores
    \/ AskField
    \/ \E g \in {"male", "female"} : SetGender(g)
    \/ \E f \in Feats : PickFeat(f)
    \/ \E k \in Skills, n \in 0..RankCap : SetRank(k, n)
    \/ ResetRanks
    \/ \E p \in Powers : ToggleAffinity(p)
    \/ \E ps \in SUBSET Powers : SetAffinities(ps)
    \/ \E w \in Weaves : ToggleWeave(w)
    \/ \E ws \in SUBSET Weaves : SetWeaves(ws)
    \/ ToWeaves \/ ToAffinities
    \/ \E b \in Backgrounds : \E n \in 1..Len(KitsOf[b]) : PickKit(n)

Navigate ==
    \/ \E to \in Substeps : OpenRow(to)
    \/ LeaveSubstep \/ Return
    \/ \E what \in {"restart", "cancel"} : Ask(what)
    \/ \E yes \in BOOLEAN : Answer(yes)

Commit == Finalise \/ CreateKitItem \/ WearKit \/ KitFails \/ FillPurse

ChargenNext == Pick \/ Navigate \/ Commit \/ \E n \in Names : TakeName(n)

ChargenSpec == ChargenInit /\ [][ChargenNext]_chargenVars

-----------------------------------------------------------------------------
(* Properties.                                                             *)

\* Whatever order the rows are visited and revised in, the character that is
\* created has every row filled: scores the budget pays for, ranks within the
\* stamped skill budget, an equipment option of its own background, and for a
\* channeler the full number of powers and of weaves, each of a chosen power.
RowIsSound(d) ==
    /\ DraftComplete(d)
    /\ d.kit \in 1..Len(KitsOf[d.bg])
    /\ Spent(d.scores) <= PointBuy
    /\ RanksSpent(d.ranks) <= d.budget
    /\ Channels(d) => d.weaves \subseteq Eligible(d.affinities)

\* A character wears only items of its kit that were all created, and never
\* two of one kind.
WornIsWhole(kit) ==
    row.worn # {} => /\ row.items = Len(kit)
                     /\ row.worn \subseteq 1..row.items
                     /\ \A i, j \in row.worn : kit[i] = kit[j] => i = j

\* What is created is sound, in what it is and in what it wears.
CreatedSound ==
    ChargenTypes /\ (row # NoPick =>
        /\ RowIsSound(row.draft)
        /\ WornIsWhole(KitsOf[row.draft.bg][row.draft.kit]))
=============================================================================
