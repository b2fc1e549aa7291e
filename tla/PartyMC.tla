------------------------------ MODULE PartyMC ------------------------------
(***************************************************************************)
(* Parts of the server that share no state, checked beside each            *)
(* other.  The party registry: four characters and parties of at most two, *)
(* so that a party can fill up while an invite is pending, and a member    *)
(* can start a second party.  The quest log: two quests that have every    *)
(* kind of step between them, with one goroutine at work on the character  *)
(* or with a pulse besides its dispatcher, within smaller bounds.          *)
(* Progress: a fighter who may become a channeler, from level 1 to 4.      *)
(* The verbs: two admins who reload them, or a player who types lines; the *)
(* words are bow 1, hug 2, l 3, look 4, n 5, nod 6, rules 7.               *)
(* Rules: the arithmetic of fights, for some inputs of each kind.          *)
(***************************************************************************)
EXTENDS GroupManager, QuestLog, Progress, Commands, Rules, TLC

CONSTANTS ann, bob, cyn, dan, walk, pulse, hunt, errand

VARIABLE part

MCChars == {ann, bob, cyn, dan}

Walk == {walk}
Both == {walk, pulse}
Step(k, n) == [kind |-> k, count |-> n]
TwoQuests == hunt :> <<Step("talk_to", 0), Step("kill_n", 2)>>
             @@ errand :> <<Step("reach_room", 0), Step("script", 0)>>
ByTeam(alone, shared) == (Walk :> alone) @@ (Both :> shared)
XPs == ByTeam(8, 2)
Debts == ByTeam(3, 0)
Faults == ByTeam(2, 0)

TwoCallings == {"armsman", "initiate"}
OfEither(armsman, initiate) == ("armsman" :> armsman) @@ ("initiate" :> initiate)
Dice == OfEither(10, 4)
Bab  == OfEither("high", "low")
Gain == OfEither(1, 0)
OfClass == OfEither({}, {"lore"})
TwoPoints == ("spark" :> 2)

SevenWords == 1..7
BeginsOf == [w \in SevenWords |-> CASE w = 3 -> {3, 4} [] w = 5 -> {5, 6} [] OTHER -> {w}]
BuiltinLook == 4 :> [also |-> {3}, level |-> 0]
Social(id, also) == [id |-> id, also |-> also]
FourFiles == {{}, {Social(1, {6}), Social(2, {})}, {Social(1, {}), Social(2, {6})},
              {Social(2, {5}), Social(4, {})}}
TwoFiles == {{}, {Social(7, {2}), Social(4, {1})}}
PlayerLevels == "zed" :> 1
TwoLines == {<<1, 4>>, <<6, 4, 1>>}
ThreeMacros == {<<4>>, <<6, 1>>, <<1, 6>>}

\* No blow heals, and none takes more than it came to unless the target is weak
\* to it; DR and resistances in lists of up to two.
Pairs(s) == {<<>>} \cup {<<x>> : x \in s} \cup {<<x, y>> : x, y \in s}
Reductions == [Amount : {0, 2}, Bypass : {"", "magic"}]
Resistances(pcts) == [Type : {"slash", "fire"}, Pct : pcts]
ASSUME BlowsNeverHeal ==
    /\ \A amount \in {0, 1, 5, 120}, dr \in Pairs(Reductions), r \in Pairs(Resistances({-100, 50, 150})) :
          DamageTaken(amount, "slash", dr, r) \in 0..MaxInt32
    /\ \A amount \in 0..9, dr \in Pairs(Reductions), r \in Pairs(Resistances({0, 50, 150})) :
          DamageTaken(amount, "slash", dr, r) <= amount
    /\ \A target \in [HPCurrent : {3}, Subdual : {0}, DR : {<<>>}, Resists : Pairs(Resistances({50}))] :
          \A dt \in {"slash", "subdual"} :
             LET hurt == applyDamage(target, 4, dt)
             IN  (target.HPCurrent - hurt.HPCurrent) + (hurt.Subdual - target.Subdual)
                   = DamageTaken(4, dt, <<>>, target.Resists)

\* A confirmed hit is a threat and a threat a hit, a fumble is neither; the
\* smallest dice still hurt, and each swing after the first is worth 5 less.
ASSUME SwingsAreOrdered ==
    /\ \A raw, confirm \in 1..20, bonus \in {-2, 6}, low \in {0, 18}, defense \in {4, 15, 30} :
          LET r == RollAttack(raw, confirm, bonus, [ThreatLow |-> low], defense)
          IN  /\ r.IsCrit => r.Threat
              /\ r.Threat => r.Hit /\ raw >= 18
              /\ r.Fumble => ~r.Hit
    /\ \A n, m, flat \in -1..4 : Bases([n |-> n, m |-> m, flat |-> flat]) # {}
    /\ \A bab \in 0..20 : Len(IterativeBonusesFor(bab)) = AtMost(4, AtLeast(1, 1 + (bab - 1) \div 5))

\* Of two swings in a round one is dodged or parried at most, a parry that fails
\* serves again, and with a dodge up nothing hits that would miss without it.
AtWar == [Order : {{ann, bob}}, ParryingUntil : [{ann, bob} -> {-1, 4}],
          DodgeUntil : [{ann, bob} -> {-1, 4}], FlatFootedUntil : [{ann, bob} -> {-1, 4}]]
Throws == [raw : {1, 9, 20}, confirm : {5}, parry : {2, 20}]
Struck(f, dice, defender) == Swing(f, 4, ann, bob, dice, 2, unarmedDamage, defender)
ASSUME StancesAreSpent ==
    /\ \A f \in AtWar, d1, d2 \in Throws, defender \in [Defense : {10, 12}, DexMod : {-1, 2}, BAB : {1}] :
          LET one == Struck(f, d1, defender)
              two == Struck(one.fight, d2, defender)
              open == Struck([f EXCEPT !.DodgeUntil[bob] = Unset], d1, defender)
          IN  /\ one.how = "dodge" => two.how # "dodge"
              /\ one.how = "parry" => two.how # "parry"
              /\ one.how = "hit" => open.how = "hit"
    /\ \E f \in AtWar, d1, d2 \in Throws :
          LET one == Struck(f, d1, [Defense |-> 10, DexMod |-> 0, BAB |-> 0])
          IN  /\ one.how = "hit" /\ InForce(f.ParryingUntil, bob, 4)
              /\ Struck(one.fight, d2, [Defense |-> 10, DexMod |-> 0, BAB |-> 0]).how = "parry"
    /\ LET f == resolveSidestep(resolveDodge(resolveParry(
                  [Order |-> {bob}, ParryingUntil |-> bob :> Unset, DodgeUntil |-> bob :> Unset,
                   FlatFootedUntil |-> bob :> Unset], 3, bob), 3, bob), 3, bob)
       IN  /\ \A until \in {f.ParryingUntil, f.DodgeUntil, f.FlatFootedUntil} :
                 InForce(until, bob, 4) /\ ~InForce(until, bob, 5)
           /\ resolveSidestep(f, 3, ann) = f
    /\ weaponPrimaryDamageType(weaponStatsFor([Type |-> "weapon", Stats |-> <<>>])) = "bludgeon"
    /\ weaponPrimaryDamageType([Type |-> <<"?", "P", "S">>, Subdual |-> FALSE]) = "pierce"

\* Two items put on and taken off: none is in two slots, and a cleared one in none.
Bare == [s \in Range(slotOrder) |-> 0]
ASSUME NothingDangles ==
    \A s, t \in Range(slotOrder), i, j \in {1, 2}, type \in {"weapon", "clothing", "light"} :
       LET worn == autoEquip(PutOn(PutOn(Bare, s, i), t, j), type, 3)
       IN  /\ \A x, y \in DOMAIN worn : worn[x] = worn[y] /\ worn[x] # 0 => x = y
           /\ \A k \in 1..3 : k \notin Range(ClearItem(worn, k))

\* Two party members in the room and a third who has left: what is divided keeps
\* its sum in every order when each of the two has hurt the mob.  An entry of
\* nothing loses a share in one of the orders, and the one who left a remainder.
Trio == {ann, bob, cyn}
Orders == {o \in [1..3 -> Trio] : \A i, j \in 1..3 : o[i] = o[j] => i = j}
Divided(a, b, c, order) ==
    LET tally == (ann :> a) @@ (bob :> b) @@ (cyn :> c)
        party == [m \in Trio |-> ann]
        members == [m \in Trio |-> MembersInRoom(m, party, {ann, bob, dan})]
    IN  SumFunction(expandTallyByGroup(tally, order, members))
ASSUME DivisionInAnyOrder ==
    /\ \A order \in Orders, a, b \in 1..4, c \in {2, 4} : Divided(a, b, c, order) = a + b + c
    /\ \E order, other \in Orders : Divided(4, 0, 2, order) = 6 /\ Divided(4, 0, 2, other) < 6
    /\ \A order \in Orders : Divided(1, 1, 3, order) = 4

EitherInit ==
    /\ Init /\ QuestInit /\ ProgressInit /\ CommandsInit
    /\ part \in {"party", "quests", "progress", "verbs", "lines"}
    /\ part = "quests" \/ team = Walk
    /\ part = "verbs" \/ (catalog = NoMacros /\ keyed = (3 :> 4))
EitherNext ==
    \/ part = "party" /\ Next /\ UNCHANGED <<part, questVars, progressVars, commandsVars>>
    \/ part = "quests" /\ QuestNext /\ UNCHANGED <<part, vars, progressVars, commandsVars>>
    \/ part = "progress" /\ ProgressNext /\ UNCHANGED <<part, vars, questVars, commandsVars>>
    \/ /\ part = "verbs" /\ (\E a \in Admins : Reload(a))
       /\ UNCHANGED <<part, vars, questVars, progressVars>>
    \/ /\ part = "lines" /\ (\E p \in Players : Input(p))
       /\ UNCHANGED <<part, vars, questVars, progressVars>>
EitherSpec == EitherInit /\ [][EitherNext]_<<part, vars, questVars, progressVars, commandsVars>>
=============================================================================
