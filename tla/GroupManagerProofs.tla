------------------------- MODULE GroupManagerProofs -------------------------
(***************************************************************************)
(* The party registry is safe for any number of characters and any         *)
(* capacity.  The five invariants of GroupManager are not inductive one by *)
(* one: InviteResolves after a kick needs LeaderInOwnGroup (the kicked     *)
(* member is not the leader, so the roster is not emptied), LeaderInOwn-   *)
(* Group after a member's departure needs TypeOK, LeaderResolves after an  *)
(* invite needs itself for the roster the invite creates, and Roster-      *)
(* PointsBack after a disbanding needs itself for the other rosters.       *)
(* Their conjunction is inductive.                                         *)
(*                                                                         *)
(* The second part is about what levels pay for (Progress), for any        *)
(* classes, skills and feats.                                              *)
(*                                                                         *)
(* The third part is about the table of verbs (Commands), for any words,   *)
(* catalogs, admins and players.  VerbsResolve is not inductive: it takes  *)
(* what each admin's dispatcher carries between its calls (Steady), how    *)
(* far a reload that runs alone has come (Service), and which of them will *)
(* still see to the help (Covered).                                        *)
(*                                                                         *)
(* The fourth part is about the arithmetic of fights (Rules): what a hit   *)
(* takes, what the division of a kill's experience keeps and pays, and     *)
(* what a stance is good for; and about the slots of what is worn.         *)
(*                                                                         *)
(* The fifth part is about the quest log and the experience columns of one *)
(* character (QuestLog), for any quests, goroutines and amounts.  That the *)
(* log is sound takes what each goroutine is about to write to be sound    *)
(* (JobsSound); that the ledger is exact takes what it read to be what is  *)
(* there still (UpToDate), and that a reward is paid at most once takes    *)
(* the quest to stay completed after it, or to be about to be (Paid).      *)
(***************************************************************************)
EXTENDS GroupManager, Progress, Commands, Rules, QuestLog, SumTheorems, FiniteSetTheorems,
        WellFoundedInduction, TLAPS

Registry == LeaderInOwnGroup /\ LeaderResolves /\ InviteResolves /\ RosterPointsBack

\* What the initial maps and every operation preserve.
IInv == TypeOK /\ Registry /\ PartyWithinCap

\* The maps of a running registry have the types of Manager's fields
\* (manager.go:37-43), for any set of characters.
LEMMA TypeOKInductive == TypeOK /\ Next => TypeOK'
<1> SUFFICES ASSUME TypeOK, Next PROVE TypeOK'
    OBVIOUS
<1> USE CharsAssumption DEF TypeOK, HasGroup
<1>1. ASSUME NEW l \in Chars, NEW i \in Chars, Invite(l, i) PROVE TypeOK'
    BY <1>1 DEF Invite, EnsureGroup
<1>2. ASSUME NEW i \in Chars, Accept(i) PROVE TypeOK'
    BY <1>2 DEF Accept
<1>3. ASSUME NEW i \in Chars, Decline(i) PROVE TypeOK'
    BY <1>3 DEF Decline
<1>4. ASSUME NEW c \in Chars, DisbandLocked(c) PROVE TypeOK'
    BY <1>4 DEF DisbandLocked
<1>5. ASSUME NEW c \in Chars, LeaveAsMember(c) PROVE TypeOK'
    BY <1>5 DEF LeaveAsMember, Release
<1>6. ASSUME NEW l \in Chars, NEW t \in Chars, Kick(l, t) PROVE TypeOK'
    BY <1>6 DEF Kick, Release
<1>7. ASSUME NEW c \in Chars, ClearForCharacter(c) PROVE TypeOK'
  <2>1. CASE byCharacter[c] = None
      BY <1>7, <2>1 DEF ClearForCharacter, Release
  <2>2. CASE byCharacter[c] = c
      BY <1>7, <2>2 DEF ClearForCharacter, Release
  <2>3. CASE byCharacter[c] \in Chars \ {c}
      BY <1>7, <2>3 DEF ClearForCharacter, Release
  <2> QED BY <2>1, <2>2, <2>3
<1> QED BY <1>1, <1>2, <1>3, <1>4, <1>5, <1>6, <1>7 DEF Next, LeaveAsLeader, Disband

\* The three maps stay consistent with one another: no operation leaves a
\* roster without its leader, a member pointing at a roster that does not
\* list it, an invite to a party that is gone, or on a roster somebody who is
\* no stray and points elsewhere.
LEMMA RegistryInductive == TypeOK /\ Registry /\ Next => Registry'
<1> SUFFICES ASSUME TypeOK, Registry, Next PROVE Registry'
    OBVIOUS
<1> USE CharsAssumption DEF TypeOK, HasGroup, Registry, LeaderInOwnGroup, LeaderResolves,
        InviteResolves, RosterPointsBack
<1>1. ASSUME NEW l \in Chars, NEW i \in Chars, Invite(l, i) PROVE Registry'
  <2>1. LeaderInOwnGroup' /\ LeaderResolves'
      BY <1>1 DEF Invite, EnsureGroup
  <2>2. InviteResolves'
      BY <1>1 DEF Invite, EnsureGroup
  <2>3. ASSUME NEW k \in Chars, NEW c \in groups'[k] \ strays' PROVE byCharacter'[c] = k
    <3>1. c \notin strays /\ (c = l => byCharacter[l] \in {None, l})
        BY <1>1, <2>3 DEF Invite
    <3>2. CASE HasGroup(l)
        BY <1>1, <2>3, <3>1, <3>2 DEF Invite, EnsureGroup
    <3>3. CASE ~HasGroup(l) /\ k = l
        BY <1>1, <2>3, <3>3 DEF Invite, EnsureGroup
    <3>4. CASE ~HasGroup(l) /\ k # l
        BY <1>1, <2>3, <3>1, <3>4 DEF Invite, EnsureGroup
    <3> QED BY <3>2, <3>3, <3>4
  <2> QED BY <2>1, <2>2, <2>3
<1>2. ASSUME NEW i \in Chars, Accept(i) PROVE Registry'
    BY <1>2 DEF Accept
<1>3. ASSUME NEW i \in Chars, Decline(i) PROVE Registry'
    BY <1>3 DEF Decline
<1>4. ASSUME NEW c \in Chars, DisbandLocked(c) PROVE Registry'
    BY <1>4 DEF DisbandLocked
<1>5. ASSUME NEW l \in Chars, NEW c \in groups[l], l # c, Release(l, c), UNCHANGED invites
      PROVE Registry'
  <2>1. LeaderInOwnGroup' /\ LeaderResolves' /\ InviteResolves'
      BY <1>5 DEF Release
  <2>2. ASSUME NEW k \in Chars, NEW d \in groups'[k] \ strays' PROVE byCharacter'[d] = k
      BY <1>5, <2>2 DEF Release
  <2> QED BY <2>1, <2>2
<1>6. ASSUME NEW c \in Chars, ClearForCharacter(c) PROVE Registry'
  <2>1. CASE byCharacter[c] = None
      BY <1>6, <2>1 DEF ClearForCharacter, Release
  <2>2. CASE byCharacter[c] = c
      BY <1>6, <2>2 DEF ClearForCharacter, Release
  <2>3. CASE byCharacter[c] \in Chars \ {c}
      BY <1>6, <2>3 DEF ClearForCharacter, Release
  <2> QED BY <2>1, <2>2, <2>3
<1> QED BY <1>1, <1>2, <1>3, <1>4, <1>5, <1>6 DEF Next, LeaveAsLeader, LeaveAsMember, Kick, Disband

\* Members of a roster are finitely many, and a subset of a roster is no
\* larger than the roster.
LEMMA SmallerRoster ==
    ASSUME NEW S \in SUBSET Chars, NEW T \in SUBSET S, Cardinality(S) <= MaxGroupSize
    PROVE  Cardinality(T) <= MaxGroupSize
<1>1. IsFiniteSet(S)
    BY CharsAssumption, FS_Subset
<1>2. Cardinality(T) <= Cardinality(S) /\ IsFiniteSet(T)
    BY <1>1, FS_Subset
<1>3. Cardinality(T) \in Nat /\ Cardinality(S) \in Nat
    BY <1>1, <1>2, FS_CardinalityType
<1> QED BY <1>2, <1>3, SizeAssumption

\* One more member fits a roster that is not full.
LEMMA OneMoreFits ==
    ASSUME NEW S \in SUBSET Chars, NEW x \in Chars, ~Full(S)
    PROVE  Cardinality(S \cup {x}) <= MaxGroupSize
<1>1. IsFiniteSet(S) /\ Cardinality(S) \in Nat
    BY CharsAssumption, FS_Subset, FS_CardinalityType
<1>2. Cardinality(S \cup {x}) = IF x \in S THEN Cardinality(S) ELSE Cardinality(S) + 1
    BY <1>1, FS_AddElement
<1> QED BY <1>1, <1>2, SizeAssumption DEF Full

\* No operation lets a roster outgrow the capacity.
LEMMA CapInductive == TypeOK /\ PartyWithinCap /\ Next => PartyWithinCap'
<1> SUFFICES ASSUME TypeOK, PartyWithinCap, Next, NEW k \in Chars
             PROVE  Cardinality(groups'[k]) <= MaxGroupSize
    BY DEF PartyWithinCap
<1>0. Cardinality(groups[k]) <= MaxGroupSize /\ groups[k] \in SUBSET Chars
    BY DEF PartyWithinCap, TypeOK
<1>1. CASE groups'[k] \in SUBSET groups[k]
    BY <1>0, <1>1, SmallerRoster
<1>2. ASSUME NEW l \in Chars, NEW i \in Chars, Invite(l, i)
      PROVE  groups'[k] \in SUBSET groups[k] \/ groups'[k] = {k}
    BY <1>2 DEF Invite, EnsureGroup, TypeOK
<1>3. CASE groups'[k] = {k}
  <2>1. Cardinality({k}) = 1
      BY FS_Singleton
  <2> QED BY <1>3, <2>1, SizeAssumption
<1>4. ASSUME NEW i \in Chars, Accept(i)
      PROVE  \/ groups'[k] \in SUBSET groups[k]
             \/ ~Full(groups[k]) /\ groups'[k] = groups[k] \cup {i}
    BY <1>4 DEF Accept, TypeOK
<1>5. ASSUME NEW i \in Chars, Accept(i) PROVE Cardinality(groups'[k]) <= MaxGroupSize
    BY <1>0, <1>1, <1>4, <1>5, OneMoreFits
<1>6. ASSUME NEW c \in Chars, ClearForCharacter(c) PROVE groups'[k] \in SUBSET groups[k]
    BY <1>6 DEF ClearForCharacter, Release, TypeOK
<1>7. ASSUME NEW c \in Chars, DisbandLocked(c) PROVE groups'[k] \in SUBSET groups[k]
    BY <1>7 DEF DisbandLocked, TypeOK
<1>8. ASSUME NEW l \in Chars, NEW c \in Chars, Release(l, c)
      PROVE  groups'[k] \in SUBSET groups[k]
    BY <1>8 DEF Release, TypeOK
<1>9. ASSUME NEW i \in Chars, Decline(i) PROVE groups'[k] \in SUBSET groups[k]
    BY <1>9 DEF Decline
<1>10. ASSUME NEW c \in Chars, LeaveAsMember(c) PROVE groups'[k] \in SUBSET groups[k]
    BY <1>8, <1>10 DEF LeaveAsMember, TypeOK
<1> QED BY <1>1, <1>2, <1>3, <1>5, <1>6, <1>7, <1>8, <1>9, <1>10
        DEF Next, LeaveAsLeader, Kick, Disband

\* The conjunction is an invariant of the registry.
THEOREM InductiveInvariant == Spec => []IInv
<1>1. Init => IInv
  <2> SUFFICES ASSUME Init PROVE IInv
      OBVIOUS
  <2>1. Cardinality({}) = 0
      BY FS_EmptySet
  <2> QED BY <2>1, SizeAssumption, CharsAssumption
          DEF Init, IInv, TypeOK, Registry, LeaderInOwnGroup, LeaderResolves, InviteResolves,
              RosterPointsBack,
              PartyWithinCap, HasGroup
<1>2. IInv /\ [Next]_vars => IInv'
  <2> SUFFICES ASSUME IInv, [Next]_vars PROVE IInv'
      OBVIOUS
  <2>1. CASE Next
      BY <2>1, TypeOKInductive, RegistryInductive, CapInductive DEF IInv
  <2>2. CASE UNCHANGED vars
      BY <2>2 DEF vars, IInv, TypeOK, Registry, LeaderInOwnGroup, LeaderResolves, InviteResolves,
                  RosterPointsBack,
                  PartyWithinCap, HasGroup
  <2> QED BY <2>1, <2>2
<1> QED BY <1>1, <1>2, PTL DEF Spec

\* The maps keep the types of Manager's fields.
THEOREM TypeCorrect == Spec => []TypeOK
BY InductiveInvariant, PTL DEF IInv

\* Leave, MembersInRoom and ClearForCharacter never dereference a missing
\* roster.
THEOREM LeaderAlwaysResolves == Spec => []LeaderResolves
BY InductiveInvariant, PTL DEF IInv, Registry

\* A pending invite always names a live party.
THEOREM InviteAlwaysResolves == Spec => []InviteResolves
BY InductiveInvariant, PTL DEF IInv, Registry

\* A roster always holds its leader.
THEOREM LeaderAlwaysInGroup == Spec => []LeaderInOwnGroup
BY InductiveInvariant, PTL DEF IInv, Registry

\* Whoever a roster lists points back to it, strays excepted: a departure takes
\* everybody else off every roster.
THEOREM RostersAlwaysPointBack == Spec => []RosterPointsBack
BY InductiveInvariant, PTL DEF IInv, Registry

\* The three maps of the registry agree both ways about everybody who never
\* invited as a member of another's party; for a stray only byCharacter to
\* roster, since Invite leaves its ghost on the roster it was on.
THEOREM MapsAlwaysAgree == Spec => []MapsAgree
BY InductiveInvariant, PTL DEF IInv, Registry, MapsAgree

\* No party exceeds MaxGroupSize.
THEOREM PartyNeverOverCap == Spec => []PartyWithinCap
BY InductiveInvariant, PTL DEF IInv

\* Both, which is what the run checks: the agreement of the maps, strays
\* excepted, and the capacity.
THEOREM RegistryAlwaysSound == Spec => []RegistrySound
BY MapsAlwaysAgree, PartyNeverOverCap, PTL DEF RegistrySound

-----------------------------------------------------------------------------
(* Levels and what they pay for (Progress).                                *)

Hands == {"player", "staff", "pulse"}
PoolNames == {"feats", "skills", "bumps", "weaves", "practice"}
Blobs == [stilled : BOOLEAN, embraced : BOOLEAN, slots : Nat, madness : Nat, known : SUBSET Lore]

ProgressTypes ==
    /\ levels \in [Callings -> Nat]
    /\ ranks \in [SkillIDs -> Nat]
    /\ score \in Nat /\ worth \in Nat
    /\ talents \subseteq Talents /\ IsFiniteSet(talents)
    /\ pools \in [PoolNames -> Int]
    /\ blob \in Blobs
    /\ doing = [g \in Hands |-> doing[g]]

\* A verb that has read the row still has it as it is: the player runs one
\* verb at a time and nobody else writes these columns.
JobOK(task) ==
    /\ task.op = "level" =>
         \E c \in Callings :
           /\ task.up.levels = [levels EXCEPT ![c] = levels[c] + 1]
           /\ task.up.gains = Gains(c, levels[c] + 1)
           /\ task.up.sheet.bab = BABTotal(task.up.levels)
           /\ Total(levels) < worth
    /\ task.op = "rank" =>
         /\ task.skill \in SkillIDs
         /\ \E n \in 1..RanksPerCall :
              /\ task.to = ranks[task.skill] + n /\ task.to <= RankCeiling(task.skill)
              /\ task.left = pools["skills"] - n * RankPrice(task.skill)
    /\ task.op = "feat" => task.feat \in Talents \ talents /\ task.left = pools["feats"] - 1
    /\ task.op = "bump" => task.to = score + 1 /\ task.left = pools["bumps"] - 1
    /\ task.op = "weave" => task.weave \in Lore /\ task.pool \in {"weaves", "practice"} /\ task.left \in Int

\* No blob anybody holds has slots for a stilled channeler.
SlotsOK(b) == b.stilled => b.slots = 0
BlobOK(task) == task.op = "blob" => task.blob \in Blobs /\ SlotsOK(task.blob)

Grown == Total(levels) \in Nat

SheetInv ==
    /\ PoolsBalance
    /\ Total(levels) <= worth /\ sheet.bab = BABTotal(levels)
    /\ \A s \in SkillIDs : ranks[s] <= RankCeiling(s)

ProgressInv ==
    /\ ProgressTypes /\ Grown /\ SheetInv
    /\ JobOK(doing["player"])
    /\ SlotsOK(blob) /\ \A g \in Hands : BlobOK(doing[g])

-----------------------------------------------------------------------------
\* A feat for every third level of a class, a bump for every fourth.
LEMMA EveryThird ==
    ASSUME NEW n \in Nat
    PROVE  /\ (n + 1) \div 3 = (n \div 3) + One((n + 1) % 3 = 0)
           /\ (n + 1) \div 4 = (n \div 4) + One((n + 1) % 4 = 0)
           /\ n \div 3 \in Int /\ n \div 4 \in Int
<1>1. (n + 1) % 3 = 0 \/ (n + 1) % 3 # 0
  OBVIOUS
<1>2. CASE (n + 1) % 3 = 0
  <2>1. (n + 1) \div 3 = (n \div 3) + 1
    BY <1>2
  <2> QED BY <1>2, <2>1 DEF One
<1> QED BY DEF One

LEMMA AtLeastOneIsNat ==
    ASSUME NEW n \in Int
    PROVE  AtLeastOne(n) \in Nat
BY DEF AtLeastOne

\* The sums of the balance, when one level is added.
LEMMA OneLevelMore ==
    ASSUME ProgressTypes, NEW c \in Callings, levels' = [levels EXCEPT ![c] = levels[c] + 1]
    PROVE  /\ Total(levels)' = Total(levels) + 1
           /\ FeatsDue' = FeatsDue + One((levels[c] + 1) % 3 = 0)
           /\ BumpsDue' = BumpsDue + One((levels[c] + 1) % 4 = 0)
           /\ PointsDue' = PointsDue + AtLeastOne(SkillGain[c])
           /\ {Total(levels), FeatsDue, BumpsDue, PointsDue} \subseteq Int
<1>0. IsFiniteSet(Callings) /\ levels[c] \in Nat /\ levels \in [Callings -> Int] /\ SkillGain \in [Callings -> Int]
      /\ levels \in [Callings -> Nat] /\ FirstCalling \in Callings
  <2>1. levels \in [Callings -> Nat]
    BY DEF ProgressTypes
  <2>2. levels \in [Callings -> Int] /\ levels[c] \in Nat
    BY <2>1
  <2> QED BY <2>1, <2>2, ProgressAssumption
<1> DEFINE m == levels[c] + 1
           t == [x \in Callings |-> levels[x] \div 3]
           q == [x \in Callings |-> levels[x] \div 4]
           gain(x) == AtLeastOne(SkillGain[x])
           p == [x \in Callings |-> gain(x) * levels[x]]
<1>1. m \in Int /\ m \div 3 \in Int /\ m \div 4 \in Int
  BY <1>0, EveryThird
<1>2. t \in [Callings -> Int] /\ q \in [Callings -> Int]
  BY <1>0, EveryThird
<1>3. \A x \in Callings : gain(x) \in Nat
  BY <1>0, AtLeastOneIsNat
<1>4. p \in [Callings -> Int] /\ gain(c) * m \in Int
  <2>1. \A x \in Callings : gain(x) * levels[x] \in Int
    <3> HIDE DEF gain
    <3> QED BY <1>0, <1>3
  <2>2. gain(c) * m \in Int
    <3> HIDE DEF gain
    <3> QED BY <1>0, <1>3
  <2> QED BY <2>1, <2>2
<1>5. SumFunction([levels EXCEPT ![c] = m]) = SumFunction(levels) + m - levels[c]
  BY <1>0, <1>1, SumUpdate
<1>6. SumFunction([t EXCEPT ![c] = m \div 3]) = SumFunction(t) + (m \div 3) - t[c]
  <2> HIDE DEF t
  <2> QED BY <1>0, <1>1, <1>2, SumUpdate
<1>7. SumFunction([q EXCEPT ![c] = m \div 4]) = SumFunction(q) + (m \div 4) - q[c]
  <2> HIDE DEF q
  <2> QED BY <1>0, <1>1, <1>2, SumUpdate
<1>8. SumFunction([p EXCEPT ![c] = gain(c) * m]) = SumFunction(p) + gain(c) * m - p[c]
  <2> HIDE DEF p, gain, m
  <2> QED BY <1>0, <1>1, <1>4, SumUpdate
<1>9. /\ [x \in Callings |-> levels'[x] \div 3] = [t EXCEPT ![c] = m \div 3]
      /\ [x \in Callings |-> levels'[x] \div 4] = [q EXCEPT ![c] = m \div 4]
  BY <1>0
<1>10. [x \in Callings |-> gain(x) * levels'[x]] = [p EXCEPT ![c] = gain(c) * m]
  <2> HIDE DEF gain
  <2> QED BY <1>0
<1>11. SumFunction(levels) \in Int /\ SumFunction(t) \in Int /\ SumFunction(q) \in Int /\ SumFunction(p) \in Int
  <2> HIDE DEF t, q, p
  <2> QED BY <1>0, <1>2, <1>4, SumIsInt
<1>12. t[c] = levels[c] \div 3 /\ q[c] = levels[c] \div 4 /\ p[c] = gain(c) * levels[c]
  BY DEF t, q, p
<1>13. gain(c) * m = gain(c) * levels[c] + gain(c)
  <2> HIDE DEF gain
  <2> QED BY <1>0, <1>3
<1>14. Total(levels)' = Total(levels) + 1
  BY <1>0, <1>5, <1>11 DEF Total
<1>15. FeatsDue' = FeatsDue + One((levels[c] + 1) % 3 = 0)
  <2>1. m \div 3 = (levels[c] \div 3) + One(m % 3 = 0) /\ levels[c] \div 3 \in Int /\ One(m % 3 = 0) \in Int
    <3>1. m \div 3 = (levels[c] \div 3) + One(m % 3 = 0) /\ levels[c] \div 3 \in Int
      BY <1>0, EveryThird
    <3>2. One(m % 3 = 0) \in Int
      BY DEF One
    <3> QED BY <3>1, <3>2
  <2>2. FeatsDue' = SumFunction(t) + (m \div 3) - (levels[c] \div 3)
    BY <1>6, <1>9, <1>12 DEF FeatsDue
  <2>3. FeatsDue = SumFunction(t)
    BY DEF FeatsDue
  <2> HIDE DEF t, m
  <2>4. FeatsDue' = FeatsDue + One(m % 3 = 0)
    BY <1>1, <1>11, <2>1, <2>2, <2>3
  <2> QED BY <2>4 DEF m
<1>16. BumpsDue' = BumpsDue + One((levels[c] + 1) % 4 = 0)
  <2>1. m \div 4 = (levels[c] \div 4) + One(m % 4 = 0) /\ levels[c] \div 4 \in Int /\ One(m % 4 = 0) \in Int
    <3>1. m \div 4 = (levels[c] \div 4) + One(m % 4 = 0) /\ levels[c] \div 4 \in Int
      BY <1>0, EveryThird
    <3>2. One(m % 4 = 0) \in Int
      BY DEF One
    <3> QED BY <3>1, <3>2
  <2>2. BumpsDue' = SumFunction(q) + (m \div 4) - (levels[c] \div 4)
    BY <1>7, <1>9, <1>12 DEF BumpsDue
  <2>3. BumpsDue = SumFunction(q)
    BY DEF BumpsDue
  <2> HIDE DEF q, m
  <2>4. BumpsDue' = BumpsDue + One(m % 4 = 0)
    BY <1>1, <1>11, <2>1, <2>2, <2>3
  <2> QED BY <2>4 DEF m
<1>17. PointsDue' = PointsDue + gain(c)
  <2>1. PointsDue' = (SumFunction(p) + gain(c) * m - p[c]) - gain(FirstCalling)
    <3>1. PointsDue' = SumFunction([x \in Callings |-> gain(x) * levels'[x]]) - gain(FirstCalling)
      BY DEF PointsDue
    <3> HIDE DEF p, gain, m
    <3>2. PointsDue' = SumFunction([p EXCEPT ![c] = gain(c) * m]) - gain(FirstCalling)
      BY <1>10, <3>1, Zenon
    <3> QED BY <1>8, <3>2, Zenon
  <2>2. PointsDue = SumFunction(p) - gain(FirstCalling)
    BY DEF PointsDue
  <2>3. gain(c) \in Int /\ gain(FirstCalling) \in Int /\ gain(c) * levels[c] \in Int
    <3>1. gain(c) \in Nat /\ gain(FirstCalling) \in Nat
      BY <1>0, <1>3
    <3> HIDE DEF gain
    <3> QED BY <1>0, <3>1
  <2>4. PointsDue' = (SumFunction(p) + (gain(c) * levels[c] + gain(c)) - (gain(c) * levels[c])) - gain(FirstCalling)
    BY <1>12, <1>13, <2>1
  <2> DEFINE k == gain(c) * levels[c]
  <2> HIDE DEF gain, p, k
  <2>5. PointsDue' = (SumFunction(p) + (k + gain(c)) - k) - gain(FirstCalling) /\ k \in Int
    BY <2>3, <2>4 DEF k
  <2> QED BY <1>11, <2>2, <2>3, <2>5
<1>18. {Total(levels), FeatsDue, BumpsDue, PointsDue} \subseteq Int
  <2>1. gain(FirstCalling) \in Int
    BY <1>0, <1>3
  <2> QED BY <1>11, <2>1 DEF Total, FeatsDue, BumpsDue, PointsDue
<1> QED BY <1>14, <1>15, <1>16, <1>17, <1>18

\* A skill cap only rises with the levels.
LEMMA CapsRise ==
    ASSUME ProgressTypes, NEW c \in Callings, levels' = [levels EXCEPT ![c] = levels[c] + 1],
           Total(levels) \in Nat, Total(levels)' = Total(levels) + 1, NEW s \in SkillIDs
    PROVE  RankCeiling(s) <= RankCeiling(s)' /\ RankCeiling(s) \in Int /\ RankCeiling(s)' \in Int
<1>1. levels \in [Callings -> Nat]
  BY DEF ProgressTypes
<1>2. \A x \in Callings : levels[x] > 0 => levels'[x] > 0
  BY <1>1
<1>3. s \in ClassSkills => s \in ClassSkills'
  BY <1>2 DEF ClassSkills
<1>4. PICK n \in Nat : n = Total(levels)
  OBVIOUS
<1>5. RankCeiling(s) = n + 3 \/ RankCeiling(s) = (n + 3) \div 2
  BY <1>4 DEF RankCeiling
<1>6. RankCeiling(s)' = n + 4 \/ (RankCeiling(s)' = (n + 4) \div 2 /\ RankCeiling(s) = (n + 3) \div 2)
  BY <1>3, <1>4 DEF RankCeiling
<1>7. (n + 3) \div 2 <= (n + 4) \div 2 /\ (n + 3) \div 2 <= n + 4 /\ (n + 3) \div 2 \in Int /\ (n + 4) \div 2 \in Int
  OBVIOUS
<1> QED BY <1>5, <1>6, <1>7

-----------------------------------------------------------------------------
\* Somebody reads the row and plans what to write.
LEMMA PlanKeeps ==
    ASSUME ProgressInv, NEW g \in Hands, NEW task, Plan(g, task), RowStays, worth' = worth,
           g = "player" => JobOK(task), BlobOK(task)
    PROVE  ProgressInv'
<1>1. doing' = [doing EXCEPT ![g] = task] /\ UNCHANGED <<levels, sheet, score, talents, ranks, pools, blob>>
  BY DEF Plan, RowStays
<1>2. doing = [h \in Hands |-> doing[h]]
  BY DEF ProgressInv, ProgressTypes
<1>3. doing' = [h \in Hands |-> doing'[h]] /\ \A h \in Hands : doing'[h] = IF h = g THEN task ELSE doing[h]
  BY <1>1, <1>2
<1>4. ProgressTypes' /\ Grown' /\ SheetInv' /\ SlotsOK(blob)'
  BY <1>1, <1>3 DEF ProgressInv, ProgressTypes, Grown, SheetInv, PoolsBalance, FeatsDue, BumpsDue, PointsDue,
                    Bought, RankCeiling, ClassSkills, SlotsOK
<1>5. "player" \in Hands
  BY DEF Hands
<1>6. JobOK(doing'["player"])
  BY <1>3, <1>5 DEF ProgressInv
<1>7. JobOK(doing["player"])'
  BY <1>1, <1>6 DEF JobOK, RankCeiling, RankPrice, ClassSkills
<1>8. \A h \in Hands : BlobOK(doing[h])'
  BY <1>3 DEF ProgressInv, BlobOK, SlotsOK
<1> QED BY <1>4, <1>7, <1>8 DEF ProgressInv

\* A write is done and its writer rests.
LEMMA WriteDone ==
    ASSUME ProgressInv, Plan("player", Resting), worth' = worth,
           levels' \in [Callings -> Nat], ranks' \in [SkillIDs -> Nat], score' \in Nat,
           talents' \subseteq Talents, IsFiniteSet(talents'), pools' \in [PoolNames -> Int],
           blob' \in Blobs, SlotsOK(blob'), Grown', SheetInv'
    PROVE  ProgressInv'
<1>1. doing' = [doing EXCEPT !["player"] = Resting] /\ "player" \in Hands
  BY DEF Plan, Hands
<1>2. doing = [h \in Hands |-> doing[h]] /\ worth \in Nat
  BY DEF ProgressInv, ProgressTypes
<1>3. doing' = [h \in Hands |-> doing'[h]] /\ \A h \in Hands : doing'[h] = IF h = "player" THEN Resting ELSE doing[h]
  BY <1>1, <1>2
<1>4. ProgressTypes'
  BY <1>2, <1>3 DEF ProgressTypes
<1>5. JobOK(doing["player"])'
  BY <1>1, <1>3 DEF JobOK, Resting
<1>6. \A h \in Hands : BlobOK(doing[h])'
  BY <1>3 DEF ProgressInv, BlobOK, SlotsOK, Resting
<1>7. SlotsOK(blob)'
  BY DEF SlotsOK
<1> QED BY <1>4, <1>5, <1>6, <1>7 DEF ProgressInv

\* The pools are numbers, and so is what was bought.
LEMMA Numbers ==
    ASSUME ProgressInv
    PROVE  /\ \A n \in PoolNames : pools[n] \in Int
           /\ {Bought, FeatsDue, BumpsDue, PointsDue, Total(levels)} \subseteq Int
           /\ Cardinality(talents) \in Nat /\ FirstScore \in Nat
<1>1. ProgressTypes /\ FirstScore \in Nat /\ IsFiniteSet(SkillIDs) /\ FirstCalling \in Callings
  BY ProgressAssumption DEF ProgressInv
<1>2. \A n \in PoolNames : pools[n] \in Int
  BY <1>1 DEF ProgressTypes
<1>3. Bought \in Int
  <2>1. ranks \in [SkillIDs -> Int]
    BY <1>1 DEF ProgressTypes
  <2> QED BY <1>1, <2>1, SumIsInt DEF Bought
<1>4. Cardinality(talents) \in Nat
  BY <1>1, FS_CardinalityType DEF ProgressTypes
<1>5. levels \in [Callings -> Nat] /\ IsFiniteSet(Callings) /\ SkillGain \in [Callings -> Int]
  BY <1>1, ProgressAssumption DEF ProgressTypes
<1>6. Total(levels) \in Int
  <2>1. levels \in [Callings -> Int]
    BY <1>5
  <2> QED BY <1>5, <2>1, SumIsInt DEF Total
<1>7. FeatsDue \in Int
  <2> DEFINE t == [x \in Callings |-> levels[x] \div 3]
  <2>1. t \in [Callings -> Int]
    BY <1>5, EveryThird
  <2> HIDE DEF t
  <2>2. SumFunction(t) \in Int
    BY <1>5, <2>1, SumIsInt
  <2> QED BY <2>2 DEF t, FeatsDue
<1>8. BumpsDue \in Int
  <2> DEFINE t == [x \in Callings |-> levels[x] \div 4]
  <2>1. t \in [Callings -> Int]
    BY <1>5, EveryThird
  <2> HIDE DEF t
  <2>2. SumFunction(t) \in Int
    BY <1>5, <2>1, SumIsInt
  <2> QED BY <2>2 DEF t, BumpsDue
<1>9. PointsDue \in Int
  <2> DEFINE gain(x) == AtLeastOne(SkillGain[x])
             t == [x \in Callings |-> gain(x) * levels[x]]
  <2>1. \A x \in Callings : gain(x) \in Nat
    BY <1>5, AtLeastOneIsNat
  <2>2. t \in [Callings -> Int]
    <3> HIDE DEF gain
    <3> QED BY <1>5, <2>1
  <2>3. SumFunction(t) \in Int
    <3> HIDE DEF t
    <3> QED BY <1>5, <2>2, SumIsInt
  <2>4. PointsDue = SumFunction(t) - gain(FirstCalling)
    BY DEF PointsDue
  <2> HIDE DEF t, gain
  <2> QED BY <1>1, <2>1, <2>3, <2>4
<1> QED BY <1>1, <1>2, <1>3, <1>4, <1>6, <1>7, <1>8, <1>9

LEMMA LevelKeeps == ProgressInv /\ RecordLevelUp => ProgressInv'
<1> SUFFICES ASSUME ProgressInv, RecordLevelUp PROVE ProgressInv'
  OBVIOUS
<1> DEFINE task == doing["player"]
<1>0. ProgressTypes /\ Grown /\ SheetInv
  BY DEF ProgressInv
<1>1. /\ task.op = "level" /\ levels' = task.up.levels /\ sheet' = task.up.sheet
      /\ pools' = [p \in DOMAIN pools |-> pools[p] + task.up.gains[p]]
      /\ Plan("player", Resting) /\ UNCHANGED <<score, talents, ranks, blob, worth>>
  BY DEF RecordLevelUp, Ready
<1>2. PICK c \in Callings :
           /\ levels' = [levels EXCEPT ![c] = levels[c] + 1]
           /\ task.up.gains = Gains(c, levels[c] + 1)
           /\ sheet'.bab = BABTotal(levels')
           /\ Total(levels) < worth
  BY <1>1 DEF ProgressInv, JobOK
<1>3. levels \in [Callings -> Nat] /\ levels[c] \in Nat /\ levels' \in [Callings -> Nat]
  BY <1>0, <1>2 DEF ProgressTypes
<1> DEFINE fe == One((levels[c] + 1) % 3 = 0)
           bu == One((levels[c] + 1) % 4 = 0)
           sk == AtLeastOne(SkillGain[c])
<1>4. fe \in Int /\ bu \in Int /\ sk \in Int
  BY AtLeastOneIsNat, ProgressAssumption DEF One
<1>5. DOMAIN pools = PoolNames /\ pools \in [PoolNames -> Int]
  BY <1>0 DEF ProgressTypes
<1>6. /\ pools'["feats"] = pools["feats"] + fe
      /\ pools'["bumps"] = pools["bumps"] + bu
      /\ pools'["skills"] = pools["skills"] + sk
      /\ pools' \in [PoolNames -> Int]
  <2> DEFINE g == Gains(c, levels[c] + 1)
  <2>1. g["feats"] = fe /\ g["bumps"] = bu /\ g["skills"] = sk /\ g["weaves"] \in Int /\ g["practice"] \in Int
    BY DEF Gains, One
  <2> HIDE DEF g, fe, bu, sk
  <2>2. pools' = [p \in PoolNames |-> pools[p] + g[p]]
    BY <1>1, <1>2, <1>5 DEF g
  <2>3. \A p \in PoolNames : g[p] \in Int
    BY <1>4, <2>1 DEF PoolNames
  <2>4. {"feats", "bumps", "skills"} \subseteq PoolNames
    BY DEF PoolNames
  <2> QED BY <1>5, <2>1, <2>2, <2>3, <2>4
<1>7. /\ Total(levels)' = Total(levels) + 1
      /\ FeatsDue' = FeatsDue + fe
      /\ BumpsDue' = BumpsDue + bu
      /\ PointsDue' = PointsDue + sk
  BY <1>0, <1>2, OneLevelMore
<1>8. /\ pools["feats"] + Cardinality(talents) = FeatsDue
      /\ pools["bumps"] + (score - FirstScore) = BumpsDue
      /\ pools["skills"] + Bought <= PointsDue /\ PointsDue <= pools["skills"] + 2 * Bought
  BY <1>0 DEF SheetInv, PoolsBalance
<1>9. /\ \A n \in PoolNames : pools[n] \in Int
      /\ {Bought, FeatsDue, BumpsDue, PointsDue, Total(levels)} \subseteq Int
      /\ Cardinality(talents) \in Nat /\ FirstScore \in Nat /\ score \in Nat
  BY <1>0, Numbers DEF ProgressTypes
<1>10. pools["feats"] \in Int /\ pools["bumps"] \in Int /\ pools["skills"] \in Int
  BY <1>9 DEF PoolNames
<1>11. PoolsBalance'
  <2>1. Bought' = Bought /\ Cardinality(talents)' = Cardinality(talents) /\ score' = score
    BY <1>1 DEF Bought
  <2> HIDE DEF fe, bu, sk
  <2>2. pools'["feats"] + Cardinality(talents)' = FeatsDue'
    BY <1>4, <1>6, <1>7, <1>8, <1>9, <1>10, <2>1
  <2>3. pools'["bumps"] + (score' - FirstScore) = BumpsDue'
    BY <1>4, <1>6, <1>7, <1>8, <1>9, <1>10, <2>1
  <2>4. pools'["skills"] + Bought' <= PointsDue' /\ PointsDue' <= pools'["skills"] + 2 * Bought'
    BY <1>4, <1>6, <1>7, <1>8, <1>9, <1>10, <2>1
  <2> QED BY <2>2, <2>3, <2>4 DEF PoolsBalance
<1>12. Grown' /\ Total(levels)' <= worth'
  BY <1>0, <1>1, <1>2, <1>7 DEF Grown, ProgressTypes
<1>13. \A s \in SkillIDs : ranks'[s] <= RankCeiling(s)'
  <2> SUFFICES ASSUME NEW s \in SkillIDs PROVE ranks[s] <= RankCeiling(s)'
    BY <1>1
  <2>1. ranks[s] <= RankCeiling(s) /\ ranks[s] \in Nat
    BY <1>0 DEF SheetInv, ProgressTypes
  <2>2. RankCeiling(s) <= RankCeiling(s)' /\ RankCeiling(s) \in Int /\ RankCeiling(s)' \in Int
    BY <1>0, <1>2, <1>7, CapsRise DEF Grown
  <2> QED BY <2>1, <2>2
<1>14. SheetInv'
  <2>1. (sheet.bab = BABTotal(levels))'
    BY <1>2
  <2> QED BY <1>11, <1>12, <1>13, <2>1 DEF SheetInv
<1>15. /\ ranks' \in [SkillIDs -> Nat] /\ score' \in Nat /\ talents' \subseteq Talents /\ IsFiniteSet(talents')
       /\ blob' \in Blobs /\ SlotsOK(blob')
  BY <1>1 DEF ProgressInv, ProgressTypes, SlotsOK
<1> QED BY <1>1, <1>3, <1>6, <1>12, <1>14, <1>15, WriteDone

LEMMA RankKeeps == ProgressInv /\ RecordSkillRank => ProgressInv'
<1> SUFFICES ASSUME ProgressInv, RecordSkillRank PROVE ProgressInv'
  OBVIOUS
<1> DEFINE task == doing["player"]
<1>0. ProgressTypes /\ Grown /\ SheetInv
  BY DEF ProgressInv
<1>1. /\ task.op = "rank" /\ ranks' = [ranks EXCEPT ![task.skill] = task.to]
      /\ pools' = [pools EXCEPT !["skills"] = task.left]
      /\ Plan("player", Resting) /\ UNCHANGED <<levels, sheet, score, talents, blob, worth>>
  BY DEF RecordSkillRank, Ready
<1>2. task.skill \in SkillIDs
  BY <1>1 DEF ProgressInv, JobOK
<1>3. PICK n \in 1..RanksPerCall :
              /\ task.to = ranks[task.skill] + n /\ task.to <= RankCeiling(task.skill)
              /\ task.left = pools["skills"] - n * RankPrice(task.skill)
  BY <1>1 DEF ProgressInv, JobOK
<1>4. n \in Nat /\ n >= 1
  BY ProgressAssumption
<1>5. pools \in [PoolNames -> Int] /\ ranks \in [SkillIDs -> Nat] /\ ranks[task.skill] \in Nat
  BY <1>0, <1>2 DEF ProgressTypes
<1> DEFINE cost == n * RankPrice(task.skill)
<1>6. cost \in Int /\ n <= cost /\ cost <= 2 * n
  <2>1. RankPrice(task.skill) = 1 \/ RankPrice(task.skill) = 2
    BY DEF RankPrice
  <2> QED BY <1>4, <2>1
<1> HIDE DEF cost
<1>7. pools["skills"] \in Int /\ {"skills", "feats", "bumps"} \subseteq PoolNames
  BY <1>5 DEF PoolNames
<1>8. /\ pools'["skills"] = pools["skills"] - cost /\ pools'["feats"] = pools["feats"]
      /\ pools'["bumps"] = pools["bumps"] /\ pools' \in [PoolNames -> Int]
  <2>1. task.left = pools["skills"] - cost
    BY <1>3 DEF cost
  <2> QED BY <1>1, <1>5, <1>6, <1>7, <2>1
<1>9. Bought' = Bought + n /\ ranks' \in [SkillIDs -> Nat]
  <2>1. ranks[task.skill] + n \in Nat /\ ranks \in [SkillIDs -> Int] /\ IsFiniteSet(SkillIDs)
    BY <1>4, <1>5, ProgressAssumption
  <2>2. ranks' = [ranks EXCEPT ![task.skill] = ranks[task.skill] + n]
    BY <1>1, <1>3
  <2>3. SumFunction([ranks EXCEPT ![task.skill] = ranks[task.skill] + n])
            = SumFunction(ranks) + (ranks[task.skill] + n) - ranks[task.skill]
    <3>1. ranks[task.skill] + n \in Int
      BY <2>1
    <3> HIDE DEF task
    <3> QED BY <1>2, <2>1, <3>1, SumUpdate
  <2>4. SumFunction(ranks) \in Int
    BY <2>1, SumIsInt
  <2>5. ranks' \in [SkillIDs -> Nat]
    BY <1>2, <1>5, <2>1, <2>2
  <2> QED BY <1>4, <1>5, <2>2, <2>3, <2>4, <2>5 DEF Bought
<1>10. /\ pools["feats"] + Cardinality(talents) = FeatsDue
       /\ pools["bumps"] + (score - FirstScore) = BumpsDue
       /\ pools["skills"] + Bought <= PointsDue /\ PointsDue <= pools["skills"] + 2 * Bought
  BY <1>0 DEF SheetInv, PoolsBalance
<1>11. Bought \in Int /\ PointsDue \in Int
  BY Numbers
<1>12. FeatsDue' = FeatsDue /\ BumpsDue' = BumpsDue /\ PointsDue' = PointsDue /\ Cardinality(talents)' = Cardinality(talents)
       /\ score' = score
  BY <1>1 DEF FeatsDue, BumpsDue, PointsDue
<1>13. PoolsBalance'
  <2>1. pools'["skills"] + Bought' <= PointsDue' /\ PointsDue' <= pools'["skills"] + 2 * Bought'
    BY <1>4, <1>6, <1>7, <1>8, <1>9, <1>10, <1>11, <1>12
  <2> QED BY <1>8, <1>10, <1>12, <2>1 DEF PoolsBalance
<1>14. \A s \in SkillIDs : ranks'[s] <= RankCeiling(s)'
  <2> SUFFICES ASSUME NEW s \in SkillIDs PROVE ranks'[s] <= RankCeiling(s)
    BY <1>1 DEF RankCeiling, ClassSkills
  <2>1. ranks[s] <= RankCeiling(s)
    BY <1>0 DEF SheetInv
  <2>2. ranks'[s] = IF s = task.skill THEN task.to ELSE ranks[s]
    BY <1>1, <1>2, <1>5
  <2> QED BY <1>3, <2>1, <2>2
<1>15. SheetInv'
  BY <1>0, <1>1, <1>13, <1>14 DEF SheetInv
<1>16. /\ levels' \in [Callings -> Nat] /\ score' \in Nat /\ talents' \subseteq Talents /\ IsFiniteSet(talents')
       /\ blob' \in Blobs /\ SlotsOK(blob') /\ Grown'
  BY <1>1 DEF ProgressInv, ProgressTypes, SlotsOK, Grown
<1> QED BY <1>1, <1>8, <1>9, <1>15, <1>16, WriteDone

LEMMA FeatKeeps == ProgressInv /\ RecordFeatPick => ProgressInv'
<1> SUFFICES ASSUME ProgressInv, RecordFeatPick PROVE ProgressInv'
  OBVIOUS
<1> DEFINE task == doing["player"]
<1>0. ProgressTypes /\ Grown /\ SheetInv
  BY DEF ProgressInv
<1>1. /\ task.op = "feat" /\ talents' = talents \union {task.feat}
      /\ pools' = [pools EXCEPT !["feats"] = task.left]
      /\ Plan("player", Resting) /\ UNCHANGED <<levels, sheet, score, ranks, blob, worth>>
  BY DEF RecordFeatPick, Ready
<1>2. task.feat \in Talents \ talents /\ task.left = pools["feats"] - 1
  BY <1>1 DEF ProgressInv, JobOK
<1>3. pools \in [PoolNames -> Int] /\ {"skills", "feats", "bumps"} \subseteq PoolNames /\ pools["feats"] \in Int
  BY <1>0 DEF ProgressTypes, PoolNames
<1>4. /\ pools'["feats"] = pools["feats"] - 1 /\ pools'["skills"] = pools["skills"]
      /\ pools'["bumps"] = pools["bumps"] /\ pools' \in [PoolNames -> Int]
  BY <1>1, <1>2, <1>3
<1>5. IsFiniteSet(talents) /\ talents \subseteq Talents
  BY <1>0 DEF ProgressTypes
<1>6. IsFiniteSet(talents') /\ talents' \subseteq Talents /\ Cardinality(talents') = Cardinality(talents) + 1
  BY <1>1, <1>2, <1>5, FS_AddElement
<1>7. Cardinality(talents) \in Nat
  BY <1>5, FS_CardinalityType
<1>8. FeatsDue' = FeatsDue /\ BumpsDue' = BumpsDue /\ PointsDue' = PointsDue /\ Bought' = Bought /\ score' = score
  BY <1>1 DEF FeatsDue, BumpsDue, PointsDue, Bought
<1>9. PoolsBalance'
  <2>1. pools["feats"] + Cardinality(talents) = FeatsDue
    BY <1>0 DEF SheetInv, PoolsBalance
  <2>2. pools'["feats"] + Cardinality(talents') = FeatsDue'
    BY <1>3, <1>4, <1>6, <1>7, <1>8, <2>1
  <2> QED BY <1>0, <1>4, <1>8, <2>2 DEF SheetInv, PoolsBalance
<1>10. SheetInv'
  BY <1>0, <1>1, <1>9 DEF SheetInv, RankCeiling, ClassSkills
<1>11. /\ levels' \in [Callings -> Nat] /\ score' \in Nat /\ ranks' \in [SkillIDs -> Nat]
       /\ blob' \in Blobs /\ SlotsOK(blob') /\ Grown'
  BY <1>1 DEF ProgressInv, ProgressTypes, SlotsOK, Grown
<1> QED BY <1>1, <1>4, <1>6, <1>10, <1>11, WriteDone

LEMMA BumpKeeps == ProgressInv /\ RecordAbilityBump => ProgressInv'
<1> SUFFICES ASSUME ProgressInv, RecordAbilityBump PROVE ProgressInv'
  OBVIOUS
<1> DEFINE task == doing["player"]
<1>0. ProgressTypes /\ Grown /\ SheetInv
  BY DEF ProgressInv
<1>1. /\ task.op = "bump" /\ score' = task.to
      /\ pools' = [pools EXCEPT !["bumps"] = task.left]
      /\ Plan("player", Resting) /\ UNCHANGED <<levels, sheet, talents, ranks, blob, worth>>
  BY DEF RecordAbilityBump, Ready
<1>2. task.to = score + 1 /\ task.left = pools["bumps"] - 1
  BY <1>1 DEF ProgressInv, JobOK
<1>3. pools \in [PoolNames -> Int] /\ {"skills", "feats", "bumps"} \subseteq PoolNames /\ pools["bumps"] \in Int
      /\ score \in Nat /\ FirstScore \in Nat
  BY <1>0, ProgressAssumption DEF ProgressTypes, PoolNames
<1>4. /\ pools'["bumps"] = pools["bumps"] - 1 /\ pools'["skills"] = pools["skills"]
      /\ pools'["feats"] = pools["feats"] /\ pools' \in [PoolNames -> Int]
  BY <1>1, <1>2, <1>3
<1>8. FeatsDue' = FeatsDue /\ BumpsDue' = BumpsDue /\ PointsDue' = PointsDue /\ Bought' = Bought
      /\ Cardinality(talents)' = Cardinality(talents)
  BY <1>1 DEF FeatsDue, BumpsDue, PointsDue, Bought
<1>9. PoolsBalance'
  <2>1. pools["bumps"] + (score - FirstScore) = BumpsDue
    BY <1>0 DEF SheetInv, PoolsBalance
  <2>2. pools'["bumps"] + (score' - FirstScore) = BumpsDue'
    BY <1>1, <1>2, <1>3, <1>4, <1>8, <2>1
  <2> QED BY <1>0, <1>4, <1>8, <2>2 DEF SheetInv, PoolsBalance
<1>10. SheetInv'
  BY <1>0, <1>1, <1>9 DEF SheetInv, RankCeiling, ClassSkills
<1>11. /\ levels' \in [Callings -> Nat] /\ score' \in Nat /\ ranks' \in [SkillIDs -> Nat]
       /\ talents' \subseteq Talents /\ IsFiniteSet(talents')
       /\ blob' \in Blobs /\ SlotsOK(blob') /\ Grown'
  BY <1>1, <1>2, <1>3 DEF ProgressInv, ProgressTypes, SlotsOK, Grown
<1> QED BY <1>1, <1>4, <1>10, <1>11, WriteDone

LEMMA WeaveKeeps == ProgressInv /\ RecordWeave => ProgressInv'
<1> SUFFICES ASSUME ProgressInv, RecordWeave PROVE ProgressInv'
  OBVIOUS
<1> DEFINE task == doing["player"]
<1>0. ProgressTypes /\ Grown /\ SheetInv
  BY DEF ProgressInv
<1>1. /\ task.op = "weave" /\ blob' = [blob EXCEPT !.known = @ \union {task.weave}]
      /\ pools' = [pools EXCEPT ![task.pool] = task.left]
      /\ Plan("player", Resting) /\ UNCHANGED <<levels, sheet, score, talents, ranks, worth>>
  BY DEF RecordWeave, Ready
<1>2. task.weave \in Lore /\ task.pool \in {"weaves", "practice"} /\ task.left \in Int
  BY <1>1 DEF ProgressInv, JobOK
<1>3. pools \in [PoolNames -> Int] /\ {"skills", "feats", "bumps"} \subseteq PoolNames
  BY <1>0 DEF ProgressTypes, PoolNames
<1>4. /\ pools'["bumps"] = pools["bumps"] /\ pools'["skills"] = pools["skills"]
      /\ pools'["feats"] = pools["feats"] /\ pools' \in [PoolNames -> Int]
  BY <1>1, <1>2, <1>3
<1>5. blob' \in Blobs /\ SlotsOK(blob')
  BY <1>1, <1>2 DEF ProgressInv, ProgressTypes, Blobs, SlotsOK
<1>6. FeatsDue' = FeatsDue /\ BumpsDue' = BumpsDue /\ PointsDue' = PointsDue /\ Bought' = Bought
      /\ Cardinality(talents)' = Cardinality(talents) /\ score' = score
  BY <1>1 DEF FeatsDue, BumpsDue, PointsDue, Bought
<1>7. PoolsBalance'
  BY <1>0, <1>4, <1>6 DEF SheetInv, PoolsBalance
<1>10. SheetInv'
  BY <1>0, <1>1, <1>7 DEF SheetInv, RankCeiling, ClassSkills
<1>11. /\ levels' \in [Callings -> Nat] /\ score' \in Nat /\ ranks' \in [SkillIDs -> Nat]
       /\ talents' \subseteq Talents /\ IsFiniteSet(talents') /\ Grown'
  BY <1>1 DEF ProgressInv, ProgressTypes, Grown
<1> QED BY <1>1, <1>4, <1>5, <1>10, <1>11, WriteDone

LEMMA ChannelKeeps ==
    ASSUME ProgressInv, NEW g \in Hands, RecordChanneling(g)
    PROVE  ProgressInv'
<1>1. doing[g].op = "blob" /\ blob' = doing[g].blob /\ doing' = [doing EXCEPT ![g] = Resting]
      /\ UNCHANGED <<levels, sheet, score, talents, ranks, pools, worth>>
  BY DEF RecordChanneling, Ready, Plan
<1>2. blob' \in Blobs /\ SlotsOK(blob')
  BY <1>1 DEF ProgressInv, BlobOK
<1>3. doing = [h \in Hands |-> doing[h]]
  BY DEF ProgressInv, ProgressTypes
<1>4. doing' = [h \in Hands |-> doing'[h]] /\ \A h \in Hands : doing'[h] = Resting \/ doing'[h] = doing[h]
  BY <1>1, <1>3
<1>5. ProgressTypes' /\ Grown' /\ SheetInv'
  BY <1>1, <1>2, <1>4 DEF ProgressInv, ProgressTypes, Grown, SheetInv, PoolsBalance, FeatsDue, BumpsDue, PointsDue,
                    Bought, RankCeiling, ClassSkills
<1>6. SlotsOK(blob)' /\ \A h \in Hands : BlobOK(doing[h])'
  BY <1>2, <1>4 DEF ProgressInv, BlobOK, SlotsOK, Resting
<1>7. "player" \in Hands /\ JobOK(doing'["player"])
  <2>1. "player" \in Hands
    BY DEF Hands
  <2>2. JobOK(Resting)
    BY DEF JobOK, Resting
  <2> QED BY <1>4, <2>1, <2>2 DEF ProgressInv
<1>8. JobOK(doing["player"])'
  BY <1>1, <1>7 DEF JobOK, RankCeiling, RankPrice, ClassSkills
<1> QED BY <1>5, <1>6, <1>8 DEF ProgressInv

LEMMA EarnKeeps == ProgressInv /\ Earn => ProgressInv'
<1> SUFFICES ASSUME ProgressInv, Earn PROVE ProgressInv'
  OBVIOUS
<1>1. worth' = worth + 1 /\ UNCHANGED <<levels, sheet, score, talents, ranks, pools, blob, doing>>
  BY DEF Earn, RowStays
<1>2. worth \in Nat /\ Total(levels) \in Nat
  BY DEF ProgressInv, ProgressTypes, Grown
<1>3. ProgressTypes' /\ Grown' /\ SlotsOK(blob)' /\ \A h \in Hands : BlobOK(doing[h])'
  BY <1>1, <1>2 DEF ProgressInv, ProgressTypes, Grown, SlotsOK, BlobOK
<1>4. SheetInv'
  BY <1>1, <1>2 DEF ProgressInv, SheetInv, PoolsBalance, FeatsDue, BumpsDue, PointsDue,
                    Bought, RankCeiling, ClassSkills
<1>5. JobOK(doing["player"])'
  <2>1. JobOK(doing["player"])
    BY DEF ProgressInv
  <2>2. Total(levels)' = Total(levels) /\ doing' = doing
    BY <1>1
  <2>3. (\A s : RankCeiling(s)' = RankCeiling(s)) /\ (\A s : RankPrice(s)' = RankPrice(s))
    BY <1>1 DEF RankCeiling, RankPrice, ClassSkills
  <2>4. Total(levels) < worth => Total(levels)' < worth'
    BY <1>1, <1>2, <2>2
  <2>5. \A c \in Callings : Gains(c, levels[c] + 1)' = Gains(c, levels[c] + 1)
    BY <1>1 DEF Gains
  <2> QED BY <1>1, <2>1, <2>2, <2>3, <2>4, <2>5 DEF JobOK
<1> QED BY <1>3, <1>4, <1>5 DEF ProgressInv

LEMMA VerbKeeps ==
    ASSUME ProgressInv,
           \/ \E c \in Callings : Train(c)
           \/ \E s \in SkillIDs, n \in 1..RanksPerCall : Learn(s, n)
           \/ \E t \in Talents : Feat(t)
           \/ Bump
           \/ \E w \in Lore : LearnWeave(w)
    PROVE  ProgressInv'
<1>0. "player" \in Hands
  BY DEF Hands
<1>1. ASSUME NEW c \in Callings, Train(c) PROVE ProgressInv'
  <2> DEFINE task == [op |-> "level", up |-> ComputeLevelUp(c)]
  <2>1. Plan("player", task) /\ RowStays /\ worth' = worth /\ worth - Total(levels) > 0
    BY <1>1 DEF Train, Untrained
  <2>2. worth \in Nat /\ Total(levels) \in Nat
    BY DEF ProgressInv, ProgressTypes, Grown
  <2>3. /\ task.up.levels = [levels EXCEPT ![c] = levels[c] + 1]
        /\ task.up.sheet.bab = BABTotal(task.up.levels)
    BY DEF ComputeLevelUp
  <2>4. task.up.gains = Gains(c, levels[c] + 1)
    <3>1. levels \in [Callings -> Nat]
      BY DEF ProgressInv, ProgressTypes
    <3>2. [levels EXCEPT ![c] = @ + 1][c] = levels[c] + 1
      BY <3>1
    <3> QED BY <3>2 DEF ComputeLevelUp
  <2>5. task.op = "level"
    OBVIOUS
  <2> HIDE DEF task
  <2>6. Total(levels) < worth
    BY <2>1, <2>2
  <2>7. JobOK(task) /\ BlobOK(task)
    BY <2>3, <2>4, <2>5, <2>6 DEF JobOK, BlobOK
  <2> QED BY <1>0, <2>1, <2>7, PlanKeeps
<1>2. ASSUME NEW s \in SkillIDs, NEW n \in 1..RanksPerCall, Learn(s, n) PROVE ProgressInv'
  <2> DEFINE task == [op |-> "rank", skill |-> s, to |-> ranks[s] + n, left |-> pools["skills"] - n * RankPrice(s)]
  <2>1. Plan("player", task) /\ RowStays /\ worth' = worth /\ ranks[s] + n <= RankCeiling(s)
    BY <1>2 DEF Learn
  <2>2. JobOK(task) /\ BlobOK(task)
    BY <2>1 DEF JobOK, BlobOK
  <2> HIDE DEF task
  <2> QED BY <1>0, <2>1, <2>2, PlanKeeps
<1>3. ASSUME NEW t \in Talents, Feat(t) PROVE ProgressInv'
  <2> DEFINE task == [op |-> "feat", feat |-> t, left |-> pools["feats"] - 1]
  <2>1. Plan("player", task) /\ RowStays /\ worth' = worth /\ t \notin talents
    BY <1>3 DEF Feat
  <2>2. JobOK(task) /\ BlobOK(task)
    BY <2>1 DEF JobOK, BlobOK
  <2> HIDE DEF task
  <2> QED BY <1>0, <2>1, <2>2, PlanKeeps
<1>4. CASE Bump
  <2> DEFINE task == [op |-> "bump", to |-> score + 1, left |-> pools["bumps"] - 1]
  <2>1. Plan("player", task) /\ RowStays /\ worth' = worth
    BY <1>4 DEF Bump
  <2>2. JobOK(task) /\ BlobOK(task)
    BY <2>1 DEF JobOK, BlobOK
  <2> HIDE DEF task
  <2> QED BY <1>0, <2>1, <2>2, PlanKeeps
<1>5. ASSUME NEW w \in Lore, LearnWeave(w) PROVE ProgressInv'
  <2>1. PICK pool \in {"weaves", "practice"}, k \in Nat :
            Plan("player", [op |-> "weave", weave |-> w, pool |-> pool, left |-> pools[pool] - k])
    BY <1>5, ProgressAssumption DEF LearnWeave
  <2> DEFINE task == [op |-> "weave", weave |-> w, pool |-> pool, left |-> pools[pool] - k]
  <2>2. pools[pool] \in Int
    BY DEF ProgressInv, ProgressTypes, PoolNames
  <2>3. JobOK(task) /\ BlobOK(task)
    BY <2>2 DEF JobOK, BlobOK
  <2>4. Plan("player", task) /\ RowStays /\ worth' = worth
    BY <1>5, <2>1 DEF LearnWeave
  <2> HIDE DEF task
  <2> QED BY <1>0, <2>3, <2>4, PlanKeeps
<1> QED BY <1>1, <1>2, <1>3, <1>4, <1>5

LEMMA GripKeeps ==
    ASSUME ProgressInv, Grip \/ Still \/ Pulse
    PROVE  ProgressInv'
<1>0. {"player", "staff", "pulse"} \subseteq Hands /\ blob \in Blobs /\ SlotsOK(blob)
      /\ SlotMax \in Nat /\ MadnessMax \in Nat
  BY ProgressAssumption DEF Hands, ProgressInv, ProgressTypes
<1>1. ASSUME NEW g \in Hands, NEW b \in Blobs, SlotsOK(b), Plan(g, [op |-> "blob", blob |-> b]),
             RowStays, worth' = worth
      PROVE  ProgressInv'
  <2> DEFINE task == [op |-> "blob", blob |-> b]
  <2>1. JobOK(task) /\ BlobOK(task)
    BY <1>1 DEF JobOK, BlobOK
  <2>2. Plan(g, task)
    BY <1>1
  <2> HIDE DEF task
  <2> QED BY <1>1, <2>1, <2>2, PlanKeeps
<1>2. CASE Grip
  <2> DEFINE b == [blob EXCEPT !.embraced = ~blob.embraced]
  <2>1. Plan("player", [op |-> "blob", blob |-> b]) /\ RowStays /\ worth' = worth
    BY <1>2 DEF Grip
  <2>2. b \in Blobs /\ SlotsOK(b)
    BY <1>0 DEF Blobs, SlotsOK
  <2> HIDE DEF b
  <2> QED BY <1>0, <1>1, <2>1, <2>2
<1>3. CASE Still
  <2> DEFINE b == [blob EXCEPT !.stilled = ~blob.stilled, !.slots = IF blob.stilled THEN blob.slots ELSE 0]
  <2>1. Plan("staff", [op |-> "blob", blob |-> b]) /\ RowStays /\ worth' = worth
    BY <1>3 DEF Still
  <2>2. b \in Blobs /\ SlotsOK(b)
    BY <1>0 DEF Blobs, SlotsOK
  <2> HIDE DEF b
  <2> QED BY <1>0, <1>1, <2>1, <2>2
<1>4. CASE Pulse
  <2>1. PICK fresh \in {blob, RefreshIfDue(blob)} :
            Plan("pulse", [op |-> "blob", blob |-> AccrueMadness(fresh)]) /\ RowStays /\ worth' = worth
    BY <1>4 DEF Pulse
  <2>2. fresh \in Blobs /\ SlotsOK(fresh)
    BY <1>0, <2>1 DEF RefreshIfDue, Blobs, SlotsOK
  <2> DEFINE b == AccrueMadness(fresh)
  <2>3. b \in Blobs /\ SlotsOK(b)
    BY <1>0, <2>2 DEF AccrueMadness, Blobs, SlotsOK
  <2> HIDE DEF b
  <2>4. Plan("pulse", [op |-> "blob", blob |-> b])
    BY <2>1 DEF b
  <2> QED BY <1>0, <1>1, <2>1, <2>3, <2>4
<1> QED BY <1>2, <1>3, <1>4

\* What the character starts with.
LEMMA ProgressStart == ProgressInit => ProgressInv
<1> SUFFICES ASSUME ProgressInit PROVE ProgressInv
  OBVIOUS
<1>1. /\ levels = [c \in Callings |-> One(c = FirstCalling)]
      /\ sheet = [hpMax |-> HitDie[FirstCalling], bab |-> BABTotal(levels)]
      /\ score = FirstScore /\ talents = {} /\ ranks = [s \in SkillIDs |-> 0]
      /\ pools = [feats |-> 0, skills |-> 0, bumps |-> 0, weaves |-> FirstWeaves, practice |-> 0]
      /\ blob = NoBlob /\ worth = 1
      /\ doing = [g \in Hands |-> Resting]
  BY DEF ProgressInit, Hands
<1>2. /\ IsFiniteSet(Callings) /\ IsFiniteSet(SkillIDs) /\ FirstCalling \in Callings
      /\ SkillGain \in [Callings -> Int] /\ FirstScore \in Nat /\ FirstWeaves \in Nat /\ SlotMax \in Nat
  BY ProgressAssumption
<1>3. levels \in [Callings -> Nat] /\ \A c \in Callings : levels[c] = IF c = FirstCalling THEN 1 ELSE 0
  BY <1>1 DEF One
<1>4. /\ pools["feats"] = 0 /\ pools["bumps"] = 0 /\ pools["skills"] = 0
      /\ pools \in [PoolNames -> Int]
  BY <1>1, <1>2 DEF PoolNames
<1>5. blob \in Blobs /\ SlotsOK(blob)
  BY <1>1, <1>2 DEF NoBlob, Blobs, SlotsOK
<1>6. IsFiniteSet(talents) /\ Cardinality(talents) = 0
  BY <1>1, FS_EmptySet
<1>7. ProgressTypes
  BY <1>1, <1>2, <1>3, <1>4, <1>5, <1>6 DEF ProgressTypes
<1>8. ASSUME NEW k \in Int
      PROVE  SumFunction([c \in Callings |-> IF c = FirstCalling THEN k ELSE 0]) = k
  <2> DEFINE z == [c \in Callings |-> 0]
  <2>1. SumFunction(z) = 0 * Cardinality(Callings) /\ Cardinality(Callings) \in Nat
    <3>1. 0 \in Int
      OBVIOUS
    <3>2. SumFunction(z) = 0 * Cardinality(Callings)
      BY <1>2, <3>1, SumConstant, Zenon
    <3> QED BY <1>2, <3>2, FS_CardinalityType
  <2>2. z \in [Callings -> Int] /\ z[FirstCalling] = 0
    BY <1>2
  <2>3. [c \in Callings |-> IF c = FirstCalling THEN k ELSE 0] = [z EXCEPT ![FirstCalling] = k]
    BY <1>2
  <2> HIDE DEF z
  <2>4. SumFunction([z EXCEPT ![FirstCalling] = k]) = SumFunction(z) + k - z[FirstCalling]
    BY <1>2, <1>8, <2>2, SumUpdate
  <2>5. SumFunction([z EXCEPT ![FirstCalling] = k]) = k
    BY <1>8, <2>1, <2>2, <2>4
  <2> QED BY <2>3, <2>5
<1>9. Total(levels) = 1
  <2>1. levels = [c \in Callings |-> IF c = FirstCalling THEN 1 ELSE 0]
    BY <1>1 DEF One
  <2> QED BY <1>8, <2>1 DEF Total
<1>10. FeatsDue = 0 /\ BumpsDue = 0
  <2>1. \A c \in Callings : levels[c] \div 3 = (IF c = FirstCalling THEN 0 ELSE 0)
                         /\ levels[c] \div 4 = (IF c = FirstCalling THEN 0 ELSE 0)
    BY <1>3
  <2>2. /\ [c \in Callings |-> levels[c] \div 3] = [c \in Callings |-> IF c = FirstCalling THEN 0 ELSE 0]
        /\ [c \in Callings |-> levels[c] \div 4] = [c \in Callings |-> IF c = FirstCalling THEN 0 ELSE 0]
    BY <2>1
  <2>3. SumFunction([c \in Callings |-> IF c = FirstCalling THEN 0 ELSE 0]) = 0
    BY <1>8
  <2> QED BY <2>2, <2>3 DEF FeatsDue, BumpsDue
<1>11. PointsDue = 0
  <2> DEFINE gain(c) == AtLeastOne(SkillGain[c])
             k == gain(FirstCalling)
  <2>1. k \in Int /\ \A c \in Callings : gain(c) \in Int
    BY <1>2, AtLeastOneIsNat
  <2>2. \A c \in Callings : gain(c) * levels[c] = (IF c = FirstCalling THEN k ELSE 0)
    <3> HIDE DEF gain
    <3> QED BY <1>3, <2>1
  <2>3. [c \in Callings |-> gain(c) * levels[c]] = [c \in Callings |-> IF c = FirstCalling THEN k ELSE 0]
    BY <2>2
  <2>4. PointsDue = SumFunction([c \in Callings |-> gain(c) * levels[c]]) - k
    BY DEF PointsDue
  <2> HIDE DEF k, gain
  <2>5. SumFunction([c \in Callings |-> IF c = FirstCalling THEN k ELSE 0]) = k
    BY <1>8, <2>1
  <2> QED BY <2>1, <2>3, <2>4, <2>5
<1>12. Bought = 0
  <2>1. 0 \in Int
    OBVIOUS
  <2>2. SumFunction([s \in SkillIDs |-> 0]) = 0 * Cardinality(SkillIDs)
    BY <1>2, <2>1, SumConstant, Zenon
  <2> QED BY <1>1, <1>2, <2>2, FS_CardinalityType DEF Bought
<1>13. PoolsBalance
  BY <1>1, <1>2, <1>4, <1>6, <1>10, <1>11, <1>12 DEF PoolsBalance
<1>14. \A s \in SkillIDs : ranks[s] <= RankCeiling(s)
  BY <1>1, <1>9 DEF RankCeiling
<1>15. sheet.bab = BABTotal(levels)
  BY <1>1
<1>16. Grown /\ SheetInv
  BY <1>1, <1>9, <1>13, <1>14, <1>15 DEF Grown, SheetInv
<1>17. JobOK(doing["player"]) /\ \A g \in Hands : BlobOK(doing[g])
  BY <1>1 DEF JobOK, BlobOK, Resting, Hands
<1> QED BY <1>5, <1>7, <1>16, <1>17 DEF ProgressInv

LEMMA ProgressStutters == ProgressInv /\ UNCHANGED progressVars => ProgressInv'
<1> SUFFICES ASSUME ProgressInv, UNCHANGED progressVars PROVE ProgressInv'
  OBVIOUS
<1>1. UNCHANGED <<levels, sheet, score, talents, ranks, pools, blob, worth, doing>>
  BY DEF progressVars
<1>2. ProgressTypes' /\ Grown' /\ SlotsOK(blob)' /\ \A h \in Hands : BlobOK(doing[h])'
  BY <1>1 DEF ProgressInv, ProgressTypes, Grown, SlotsOK, BlobOK
<1>3. SheetInv' /\ JobOK(doing["player"])'
  BY <1>1 DEF ProgressInv, SheetInv, PoolsBalance, FeatsDue, BumpsDue, PointsDue,
              Bought, RankCeiling, ClassSkills, JobOK, RankPrice
<1> QED BY <1>2, <1>3 DEF ProgressInv

\* The invariant of a character's progress: what a verb has planned fits the
\* row as it is.
THEOREM ProgressInvariant == ProgressSpec => []ProgressInv
<1>1. ASSUME ProgressInv, [ProgressNext]_progressVars PROVE ProgressInv'
  <2>1. CASE UNCHANGED progressVars
    BY <1>1, <2>1, ProgressStutters
  <2>2. CASE \E g \in DOMAIN doing : RecordChanneling(g)
    <3>1. DOMAIN doing = Hands
      BY <1>1 DEF ProgressInv, ProgressTypes
    <3> QED BY <1>1, <2>2, <3>1, ChannelKeeps
  <2> QED BY <1>1, <2>1, <2>2, EarnKeeps, VerbKeeps, GripKeeps, LevelKeeps, RankKeeps, FeatKeeps, BumpKeeps,
             WeaveKeeps DEF ProgressNext
<1> QED BY <1>1, ProgressStart, PTL DEF ProgressSpec

\* Every feat, bump and rank was paid for by a level and no level's deposit is
\* lost, in whatever order levels, purchases, pulses and an administrator's
\* hand come in (train.go, learn.go, feat.go, bump.go, channeling.go).
THEOREM SheetAlwaysEarned == ProgressSpec => []SheetIsEarned
<1>1. ProgressInv => SheetIsEarned
  BY DEF ProgressInv, SheetInv, SheetIsEarned, SlotsOK
<1> QED BY <1>1, ProgressInvariant, PTL

-----------------------------------------------------------------------------
(* The table of verbs.                                                      *)

VerbTypes ==
    /\ DOMAIN verbs \subseteq Words
    /\ \A n \in DOMAIN verbs : verbs[n] \in [also : SUBSET Words, level : Nat]

BuiltinsKept == \A b \in DOMAIN Builtins : b \in DOMAIN verbs /\ verbs[b] = Builtins[b]

Table == VerbTypes /\ TableSound /\ BuiltinsKept

\* What a file that was not refused gives.
IsIndex(f) ==
    /\ DOMAIN f \subseteq Words
    /\ \A i \in DOMAIN f : f[i] \subseteq Words /\ i \notin f[i]

Disjointed(f) ==
    /\ \A i \in DOMAIN f : f[i] \intersect DOMAIN f = {}
    /\ \A i, j \in DOMAIN f : i # j => f[i] \intersect f[j] = {}

Unreserved(f) == NamesOf(f) \intersect ReservedWords = {}

\* A table that takes a new verb stays sound and keeps the built-in ones.
LEMMA RegisterKeeps ==
    ASSUME Table, NEW n \in Words, NEW also \in SUBSET Words, n \notin also,
           CanRegister(n, also), Register(n, also)
    PROVE  Table' /\ DOMAIN verbs' = DOMAIN verbs \union {n} /\ verbs'[n].also = also
           /\ \A m \in DOMAIN verbs : verbs'[m] = verbs[m]
<1>1. n \notin DOMAIN verbs /\ n \notin DOMAIN aliasOf
    BY DEF CanRegister, Taken
<1>2. also \intersect DOMAIN verbs = {} /\ also \intersect DOMAIN aliasOf = {}
    BY DEF CanRegister, Taken
<1>3. /\ DOMAIN verbs' = DOMAIN verbs \union {n}
      /\ verbs'[n] = [also |-> also, level |-> PlayerLevel]
      /\ \A m \in DOMAIN verbs : verbs'[m] = verbs[m]
    BY <1>1 DEF Register, With
<1>4. /\ DOMAIN aliasOf' = DOMAIN aliasOf \union also
      /\ \A x \in also : aliasOf'[x] = n
      /\ \A x \in DOMAIN aliasOf : aliasOf'[x] = aliasOf[x]
    BY <1>2 DEF Register
<1>5. VerbTypes'
    BY <1>3 DEF Table, VerbTypes, PlayerLevel
<1>6. TableSound'
    BY <1>1, <1>2, <1>3, <1>4 DEF Table, TableSound
<1>7. BuiltinsKept'
    BY <1>3 DEF Table, BuiltinsKept
<1> QED BY <1>3, <1>5, <1>6, <1>7 DEF Table

\* So does one that loses a verb which is not built in.
LEMMA UnregisterKeeps ==
    ASSUME Table, NEW n \in DOMAIN verbs \ DOMAIN Builtins, Unregister(n)
    PROVE  Table' /\ DOMAIN verbs' = DOMAIN verbs \ {n}
           /\ \A m \in DOMAIN verbs' : verbs'[m] = verbs[m]
<1>1. /\ DOMAIN verbs' = DOMAIN verbs \ {n}
      /\ \A m \in DOMAIN verbs' : verbs'[m] = verbs[m]
    BY DEF Unregister, Without
<1>2. /\ DOMAIN aliasOf' = DOMAIN aliasOf \ {x \in DOMAIN aliasOf : x \in verbs[n].also /\ aliasOf[x] = n}
      /\ \A x \in DOMAIN aliasOf' : aliasOf'[x] = aliasOf[x]
    BY DEF Unregister, Without
<1>3. VerbTypes'
    BY <1>1 DEF Table, VerbTypes
<1>4. TableSound'
    BY <1>1, <1>2 DEF Table, TableSound
<1>5. BuiltinsKept'
    BY <1>1 DEF Table, BuiltinsKept
<1> QED BY <1>1, <1>3, <1>4, <1>5 DEF Table

\* The same of the two steps of a reload, which log what they cannot do.
LEMMA BringKeeps ==
    ASSUME Table, logged \subseteq Words, NEW n \in Words, NEW also \in SUBSET Words, n \notin also,
           Bring(n, also)
    PROVE  /\ Table' /\ logged' \subseteq Words
           /\ DOMAIN verbs \subseteq DOMAIN verbs' /\ DOMAIN verbs' \subseteq DOMAIN verbs \union {n}
           /\ \A m \in DOMAIN verbs : verbs'[m] = verbs[m]
           /\ n \notin DOMAIN verbs => IF n \in DOMAIN verbs' THEN verbs'[n].also = also ELSE n \in logged'
           /\ \A m : m # n => (m \in logged' <=> m \in logged)
<1>1. CASE CanRegister(n, also)
  <2>1. Register(n, also) /\ logged' = logged \ {n}
      BY <1>1 DEF Bring
  <2>2. /\ Table' /\ DOMAIN verbs' = DOMAIN verbs \union {n} /\ verbs'[n].also = also
        /\ \A m \in DOMAIN verbs : verbs'[m] = verbs[m]
      BY <1>1, <2>1, RegisterKeeps
  <2> QED BY <2>1, <2>2
<1>2. CASE ~CanRegister(n, also)
  <2>1. UNCHANGED <<verbs, aliasOf>> /\ logged' = logged \union {n}
      BY <1>2 DEF Bring, tableVars
  <2>2. Table'
      BY <2>1 DEF Table, VerbTypes, TableSound, BuiltinsKept
  <2> QED BY <2>1, <2>2
<1> QED BY <1>1, <1>2

LEMMA DropKeeps ==
    ASSUME Table, logged \subseteq Words, NEW n \in Words, n \notin DOMAIN Builtins, Drop(n)
    PROVE  /\ Table' /\ logged' \subseteq Words
           /\ DOMAIN verbs' = DOMAIN verbs \ {n}
           /\ \A m \in DOMAIN verbs' : verbs'[m] = verbs[m]
           /\ n \notin DOMAIN verbs => n \in logged'
           /\ \A m : m # n => (m \in logged' <=> m \in logged)
<1>1. CASE n \in DOMAIN verbs
  <2>1. Unregister(n) /\ logged' = logged \ {n}
      BY <1>1 DEF Drop
  <2>2. /\ Table' /\ DOMAIN verbs' = DOMAIN verbs \ {n}
        /\ \A m \in DOMAIN verbs' : verbs'[m] = verbs[m]
      BY <1>1, <2>1, UnregisterKeeps
  <2> QED BY <1>1, <2>1, <2>2
<1>2. CASE n \notin DOMAIN verbs
  <2>1. UNCHANGED <<verbs, aliasOf>> /\ logged' = logged \union {n}
      BY <1>2 DEF Drop, tableVars
  <2>2. Table'
      BY <2>1 DEF Table, VerbTypes, TableSound, BuiltinsKept
  <2> QED BY <1>2, <2>1, <2>2
<1> QED BY <1>1, <1>2

\* Looking up answers with a verb of the table, and always for a built-in name.
LEMMA LookupAnswers ==
    ASSUME Table, NEW w \in Words
    PROVE  /\ Lookup(w) \in DOMAIN verbs \union {NoVerb}
           /\ w \in ReservedWords => Lookup(w) # NoVerb
<1>0. NoVerb \notin Words
    BY CommandsAssumption
<1>1. CASE w \in DOMAIN aliasOf
    BY <1>0, <1>1 DEF Lookup, Table, TableSound, VerbTypes
<1>2. CASE w \notin DOMAIN aliasOf /\ w \in DOMAIN verbs
    BY <1>0, <1>2 DEF Lookup, Table, VerbTypes
<1>3. CASE w \notin DOMAIN aliasOf /\ w \notin DOMAIN verbs
  <2>1. w \notin ReservedWords
      BY <1>3 DEF Table, BuiltinsKept, TableSound, ReservedWords
  <2>2. ASSUME NEW found, found = DOMAIN verbs \intersect Begins[w], \E n \in found : found = {n}
        PROVE (CHOOSE n \in found : TRUE) \in DOMAIN verbs
      BY <2>2
  <2>3. Lookup(w) = LET found == DOMAIN verbs \intersect Begins[w]
                    IN  IF \E n \in found : found = {n} THEN CHOOSE n \in found : TRUE ELSE NoVerb
      BY <1>3 DEF Lookup
  <2> QED BY <2>1, <2>2, <2>3
<1> QED BY <1>1, <1>2, <1>3

\* A file that was not refused becomes an index.
LEMMA IndexOfFile ==
    ASSUME NEW file \in SUBSET [id : Words, also : SUBSET Words], WellFormed(file)
    PROVE  /\ IsIndex(Index(file)) /\ Disjointed(Index(file))
           /\ \A e \in file : Index(file)[e.id] = e.also
           /\ DOMAIN Index(file) = {e.id : e \in file}
<1>1. DOMAIN Index(file) = {e.id : e \in file}
    BY DEF Index
<1>2. \A e \in file : Index(file)[e.id] = e.also
  <2> SUFFICES ASSUME NEW e \in file PROVE Index(file)[e.id] = e.also
      OBVIOUS
  <2>1. \A f \in file : f.id = e.id => f = e
      BY DEF WellFormed
  <2>2. Index(file)[e.id] = (CHOOSE f \in file : f.id = e.id).also
      BY DEF Index
  <2> QED BY <2>1, <2>2
<1>3. IsIndex(Index(file))
    BY <1>1, <1>2 DEF IsIndex, WellFormed
<1>4. \A e, f \in file : e.also \intersect {f.id} = {}
    BY DEF WellFormed
<1>5. Disjointed(Index(file))
    BY <1>1, <1>2, <1>4 DEF Disjointed, WellFormed
<1> QED BY <1>1, <1>2, <1>3, <1>5

-----------------------------------------------------------------------------
(* What a reload in progress has settled about the names it works on.       *)

Pending(j) ==
    /\ IsIndex(j.new) /\ j.keep \subseteq DOMAIN j.new /\ j.add \subseteq DOMAIN j.new
    /\ j.drop \subseteq Words /\ j.drop \intersect DOMAIN Builtins = {}

JobSound(j) ==
    /\ j.at \in {"idle", "ask", "apply", "back", "list", "merge"}
    /\ j.at = "ask" =>
         /\ j = [at |-> "ask", new |-> j.new, ask |-> j.ask, drop |-> j.drop, keep |-> j.keep, add |-> j.add]
         /\ Pending(j) /\ j.ask \subseteq NamesOf(j.new)
         /\ NamesOf(j.new) \intersect ReservedWords \subseteq j.ask
    /\ j.at = "apply" =>
         /\ j = [at |-> "apply", new |-> j.new, drop |-> j.drop, keep |-> j.keep, add |-> j.add]
         /\ Pending(j) /\ Unreserved(j.new)
    /\ j.at = "back" =>
         /\ IsIndex(j.new) /\ Unreserved(j.new)
         /\ j.keep \subseteq DOMAIN j.new /\ j.add \subseteq DOMAIN j.new /\ j.id \in DOMAIN j.new
    /\ j.at = "merge" => Disjointed(j.gen)

Steady ==
    /\ reload = [b \in Admins |-> reload[b]] /\ \A b \in Admins : JobSound(reload[b])
    /\ Table /\ IsIndex(catalog) /\ Unreserved(catalog)
    /\ logged \subseteq Words /\ overlap \in BOOLEAN

\* One admin's reload moves, the others stay where they are.
LEMMA OnlyOne ==
    ASSUME reload = [b \in Admins |-> reload[b]], NEW a \in Admins, NEW j,
           reload' = [reload EXCEPT ![a] = j]
    PROVE  /\ reload'[a] = j /\ \A b \in Admins : b # a => reload'[b] = reload[b]
           /\ reload' = [b \in Admins |-> reload'[b]]
<1>1. DOMAIN reload = Admins
    OBVIOUS
<1>2. /\ reload'[a] = j /\ \A b \in Admins : b # a => reload'[b] = reload[b]
      /\ DOMAIN reload' = Admins
    BY <1>1
<1>3. reload' = [b \in Admins |-> IF b = a THEN j ELSE reload[b]]
    BY <1>1
<1> QED BY <1>2, <1>3

LEMMA NamesAreWords ==
    ASSUME NEW f, IsIndex(f) PROVE NamesOf(f) \subseteq Words
    BY DEF IsIndex, NamesOf

\* What each step makes of its admin's reload.
LEMMA ReloadSocialsSets ==
    ASSUME Steady, NEW a \in Admins, ReloadSocials(a)
    PROVE  \E j : reload' = [reload EXCEPT ![a] = j] /\ j.at = "ask" /\ JobSound(j)
               /\ j.drop = DOMAIN catalog \ DOMAIN j.new
               /\ j.keep = DOMAIN catalog \intersect DOMAIN j.new
               /\ j.add = DOMAIN j.new \ DOMAIN catalog
<1>1. PICK file \in SocialFiles :
         /\ WellFormed(file)
         /\ reload' = [reload EXCEPT ![a] =
               [at |-> "ask", new |-> Index(file), ask |-> NamesOf(Index(file)) \ NamesOf(catalog),
                drop |-> DOMAIN catalog \ DOMAIN Index(file),
                keep |-> DOMAIN catalog \intersect DOMAIN Index(file),
                add |-> DOMAIN Index(file) \ DOMAIN catalog]]
    BY DEF ReloadSocials
<1> DEFINE new == Index(file)
           j == [at |-> "ask", new |-> new, ask |-> NamesOf(new) \ NamesOf(catalog),
                 drop |-> DOMAIN catalog \ DOMAIN new, keep |-> DOMAIN catalog \intersect DOMAIN new,
                 add |-> DOMAIN new \ DOMAIN catalog]
<1>2. IsIndex(new)
  <2>1. file \in SUBSET [id : Words, also : SUBSET Words]
      BY CommandsAssumption
  <2> QED BY <1>1, <2>1, IndexOfFile
<1>3. DOMAIN catalog \subseteq Words /\ DOMAIN catalog \intersect DOMAIN Builtins = {}
    BY DEF Steady, IsIndex, Unreserved, NamesOf, ReservedWords
<1>4. NamesOf(new) \intersect ReservedWords \subseteq NamesOf(new) \ NamesOf(catalog)
    BY DEF Steady, Unreserved
<1> HIDE DEF new
<1>5. JobSound(j)
    BY <1>2, <1>3, <1>4 DEF JobSound, Pending
<1>6. reload' = [reload EXCEPT ![a] = j]
    BY <1>1 DEF new
<1> WITNESS j
<1> QED BY <1>5, <1>6

LEMMA AskSets ==
    ASSUME Steady, NEW a \in Admins, Ask(a)
    PROVE  \E j : reload' = [reload EXCEPT ![a] = j] /\ JobSound(j) /\ reload[a].at = "ask"
               /\ \/ j.at = "idle"
                  \/ /\ j.at = "ask" /\ j.new = reload[a].new /\ j.drop = reload[a].drop
                     /\ j.keep = reload[a].keep /\ j.add = reload[a].add
<1>1. PICK w \in reload[a].ask :
         \/ Lookup(w) = NoVerb /\ reload' = [reload EXCEPT ![a].ask = @ \ {w}]
         \/ Lookup(w) # NoVerb /\ reload' = [reload EXCEPT ![a] = NoReload]
    BY DEF Ask
<1> DEFINE r == reload[a]
           k == [r EXCEPT !.ask = @ \ {w}]
<1>2. reload[a].at = "ask" /\ JobSound(reload[a])
    BY DEF Ask, Steady
<1>3. w \in Words
    BY <1>2, NamesAreWords DEF JobSound, Pending
<1>4. CASE Lookup(w) = NoVerb
  <2>1. reload' = [reload EXCEPT ![a] = k]
      BY <1>1, <1>4
  <2>2. k = [at |-> "ask", new |-> r.new, ask |-> r.ask \ {w}, drop |-> r.drop, keep |-> r.keep, add |-> r.add]
      BY <1>2 DEF JobSound
  <2>3. w \notin ReservedWords
      BY <1>3, <1>4, LookupAnswers DEF Steady
  <2> HIDE DEF k
  <2>4. /\ k.at = "ask" /\ k.new = r.new /\ k.drop = r.drop /\ k.keep = r.keep /\ k.add = r.add
        /\ k.ask = r.ask \ {w}
        /\ k = [at |-> "ask", new |-> k.new, ask |-> k.ask, drop |-> k.drop, keep |-> k.keep, add |-> k.add]
      BY <2>2
  <2>5. Pending(k)
      BY <1>2, <2>4 DEF JobSound, Pending
  <2>6. JobSound(k)
      BY <1>2, <2>3, <2>4, <2>5 DEF JobSound
  <2> WITNESS k
  <2> QED BY <1>2, <2>1, <2>4, <2>6
<1>5. CASE Lookup(w) # NoVerb
  <2>1. reload' = [reload EXCEPT ![a] = NoReload]
      BY <1>1, <1>5
  <2>2. NoReload.at = "idle" /\ JobSound(NoReload)
      BY DEF JobSound, NoReload
  <2> HIDE DEF NoReload
  <2> QED BY <1>2, <2>1, <2>2
<1> QED BY <1>4, <1>5

LEMMA ReplaceSets ==
    ASSUME Steady, NEW a \in Admins, Replace(a)
    PROVE  \E j : /\ reload' = [reload EXCEPT ![a] = j] /\ JobSound(j) /\ j.at = "apply"
               /\ reload[a].at = "ask" /\ JobSound(reload[a]) /\ catalog' = reload[a].new
               /\ j.new = reload[a].new /\ j.drop = reload[a].drop
               /\ j.keep = reload[a].keep /\ j.add = reload[a].add
               /\ IsIndex(catalog') /\ Unreserved(catalog')
<1> DEFINE r == reload[a]
           j == [at |-> "apply", new |-> r.new, drop |-> r.drop, keep |-> r.keep, add |-> r.add]
<1>1. reload' = [reload EXCEPT ![a] = j] /\ r.at = "ask" /\ r.ask = {} /\ catalog' = r.new
    BY DEF Replace, Steady
<1>2. JobSound(r)
    BY DEF Steady
<1>3. Pending(r) /\ Unreserved(r.new)
    BY <1>1, <1>2 DEF JobSound, Unreserved
<1>4. JobSound(j)
    BY <1>3 DEF JobSound, Pending
<1>5. IsIndex(r.new)
    BY <1>3 DEF Pending
<1> WITNESS j
<1> QED BY <1>1, <1>2, <1>3, <1>4, <1>5

LEMMA RemovedSets ==
    ASSUME Steady, NEW a \in Admins, UnregisterRemoved(a)
    PROVE  \E id, j : /\ reload' = [reload EXCEPT ![a] = j] /\ JobSound(j) /\ j.at = "apply"
               /\ reload[a].at = "apply" /\ id \in reload[a].drop /\ Drop(id)
               /\ id \in Words /\ id \notin DOMAIN Builtins
               /\ j.new = reload[a].new /\ j.drop = reload[a].drop \ {id}
               /\ j.keep = reload[a].keep /\ j.add = reload[a].add
<1>1. PICK id \in reload[a].drop : Drop(id) /\ reload' = [reload EXCEPT ![a].drop = @ \ {id}]
    BY DEF UnregisterRemoved, First
<1> DEFINE r == reload[a]
           j == [r EXCEPT !.drop = @ \ {id}]
<1>2. reload[a].at = "apply" /\ JobSound(reload[a])
    BY DEF UnregisterRemoved, Steady
<1>3. reload' = [reload EXCEPT ![a] = j]
    BY <1>1
<1>4. j = [at |-> "apply", new |-> r.new, drop |-> r.drop \ {id}, keep |-> r.keep, add |-> r.add]
    BY <1>2 DEF JobSound
<1> HIDE DEF j
<1>5. /\ j.at = "apply" /\ j.new = r.new /\ j.drop = r.drop \ {id} /\ j.keep = r.keep /\ j.add = r.add
      /\ j = [at |-> "apply", new |-> j.new, drop |-> j.drop, keep |-> j.keep, add |-> j.add]
    BY <1>4
<1>6. JobSound(j) /\ id \in Words /\ id \notin DOMAIN Builtins
    BY <1>2, <1>5 DEF JobSound, Pending
<1> WITNESS id, j
<1> QED BY <1>1, <1>2, <1>3, <1>5, <1>6

\* The ids of a file whose names are not reserved are words and no built-in names.
LEMMA IdsAreFree ==
    ASSUME NEW f, IsIndex(f), Unreserved(f)
    PROVE  /\ DOMAIN f \subseteq Words /\ DOMAIN f \intersect DOMAIN Builtins = {}
           /\ \A i \in DOMAIN f : f[i] \in SUBSET Words /\ i \notin f[i]
    BY DEF IsIndex, Unreserved, NamesOf, ReservedWords

LEMMA KeptSets ==
    ASSUME Steady, NEW a \in Admins, UnregisterKept(a)
    PROVE  \E id, j : /\ reload' = [reload EXCEPT ![a] = j] /\ JobSound(j)
               /\ reload[a].at = "apply" /\ id \in reload[a].keep /\ Drop(id) /\ reload[a].drop = {}
               /\ id \in Words /\ id \notin DOMAIN Builtins /\ id \in DOMAIN reload[a].new
               /\ j.new = reload[a].new /\ j.keep = reload[a].keep \ {id} /\ j.add = reload[a].add
               /\ \/ j.at = "back" /\ j.id = id /\ id \in DOMAIN verbs
                  \/ j.at = "apply" /\ j.drop = {} /\ id \notin DOMAIN verbs
<1>1. PICK id \in reload[a].keep :
         /\ Drop(id)
         /\ \/ /\ id \in DOMAIN verbs
               /\ reload' = [reload EXCEPT ![a] = [at |-> "back", new |-> @.new, id |-> id,
                                               keep |-> @.keep \ {id}, add |-> @.add]]
            \/ id \notin DOMAIN verbs /\ reload' = [reload EXCEPT ![a].keep = @ \ {id}]
    BY DEF UnregisterKept, First
<1> DEFINE r == reload[a]
           k == [r EXCEPT !.keep = @ \ {id}]
           l == [at |-> "back", new |-> r.new, id |-> id, keep |-> r.keep \ {id}, add |-> r.add]
<1>2. reload[a].at = "apply" /\ JobSound(reload[a]) /\ reload[a].drop = {}
    BY DEF UnregisterKept, Steady
<1>3. IsIndex(r.new) /\ Unreserved(r.new) /\ r.keep \subseteq DOMAIN r.new /\ r.add \subseteq DOMAIN r.new
    BY <1>2 DEF JobSound, Pending
<1>4. id \in Words /\ id \notin DOMAIN Builtins /\ id \in DOMAIN r.new
    BY <1>3, IdsAreFree
<1>5. CASE id \in DOMAIN verbs
  <2>1. reload' = [reload EXCEPT ![a] = l]
      BY <1>1, <1>5
  <2>2. JobSound(l)
      BY <1>3, <1>4 DEF JobSound
  <2> WITNESS id, l
  <2> QED BY <1>1, <1>2, <1>4, <1>5, <2>1, <2>2
<1>6. CASE id \notin DOMAIN verbs
  <2>1. reload' = [reload EXCEPT ![a] = k]
      BY <1>1, <1>6
  <2>2. k = [at |-> "apply", new |-> r.new, drop |-> r.drop, keep |-> r.keep \ {id}, add |-> r.add]
      BY <1>2 DEF JobSound
  <2> HIDE DEF k
  <2>3. /\ k.at = "apply" /\ k.new = r.new /\ k.drop = {} /\ k.keep = r.keep \ {id} /\ k.add = r.add
        /\ k = [at |-> "apply", new |-> k.new, drop |-> k.drop, keep |-> k.keep, add |-> k.add]
      BY <1>2, <2>2
  <2>4. JobSound(k)
      BY <1>2, <2>3 DEF JobSound, Pending
  <2> WITNESS id, k
  <2> QED BY <1>1, <1>2, <1>4, <1>6, <2>1, <2>3, <2>4
<1> QED BY <1>5, <1>6

LEMMA BackSets ==
    ASSUME Steady, NEW a \in Admins, RegisterKept(a)
    PROVE  \E id, j : /\ reload' = [reload EXCEPT ![a] = j] /\ JobSound(j) /\ j.at = "apply"
               /\ reload[a].at = "back" /\ id = reload[a].id /\ Bring(id, reload[a].new[id])
               /\ id \in Words /\ id \notin DOMAIN Builtins /\ id \in DOMAIN reload[a].new
               /\ reload[a].new[id] \in SUBSET Words /\ id \notin reload[a].new[id]
               /\ j.new = reload[a].new /\ j.drop = {}
               /\ j.keep = reload[a].keep /\ j.add = reload[a].add
<1> DEFINE r == reload[a]
           j == [at |-> "apply", new |-> r.new, drop |-> {}, keep |-> r.keep, add |-> r.add]
<1>1. reload' = [reload EXCEPT ![a] = j] /\ r.at = "back" /\ Bring(r.id, r.new[r.id])
    BY DEF RegisterKept
<1>2. JobSound(r)
    BY DEF Steady
<1>3. /\ IsIndex(r.new) /\ Unreserved(r.new) /\ r.keep \subseteq DOMAIN r.new
      /\ r.add \subseteq DOMAIN r.new /\ r.id \in DOMAIN r.new
    BY <1>1, <1>2 DEF JobSound
<1>4. JobSound(j)
    BY <1>3 DEF JobSound, Pending
<1>5. /\ r.id \in Words /\ r.id \notin DOMAIN Builtins
      /\ r.new[r.id] \in SUBSET Words /\ r.id \notin r.new[r.id]
    BY <1>3, IdsAreFree
<1> WITNESS r.id, j
<1> QED BY <1>1, <1>3, <1>4, <1>5

LEMMA AddedSets ==
    ASSUME Steady, NEW a \in Admins, RegisterAdded(a)
    PROVE  \E id, j : /\ reload' = [reload EXCEPT ![a] = j] /\ JobSound(j) /\ j.at = "apply"
               /\ reload[a].at = "apply" /\ reload[a].drop = {} /\ reload[a].keep = {}
               /\ id \in reload[a].add /\ Bring(id, reload[a].new[id])
               /\ id \in Words /\ id \notin DOMAIN Builtins /\ id \in DOMAIN reload[a].new
               /\ reload[a].new[id] \in SUBSET Words /\ id \notin reload[a].new[id]
               /\ j.new = reload[a].new /\ j.drop = {}
               /\ j.keep = {} /\ j.add = reload[a].add \ {id}
<1>1. PICK id \in reload[a].add :
         Bring(id, reload[a].new[id]) /\ reload' = [reload EXCEPT ![a].add = @ \ {id}]
    BY DEF RegisterAdded, First
<1> DEFINE r == reload[a]
           j == [r EXCEPT !.add = @ \ {id}]
<1>2. r.at = "apply" /\ JobSound(r) /\ r.drop = {} /\ r.keep = {}
    BY DEF RegisterAdded, Steady
<1>3. reload' = [reload EXCEPT ![a] = j]
    BY <1>1
<1>4. j = [at |-> "apply", new |-> r.new, drop |-> r.drop, keep |-> r.keep, add |-> r.add \ {id}]
    BY <1>2 DEF JobSound
<1> HIDE DEF j
<1>5. /\ j.at = "apply" /\ j.new = r.new /\ j.drop = {} /\ j.keep = {} /\ j.add = r.add \ {id}
      /\ j = [at |-> "apply", new |-> j.new, drop |-> j.drop, keep |-> j.keep, add |-> j.add]
    BY <1>2, <1>4
<1>6. JobSound(j) /\ IsIndex(r.new) /\ Unreserved(r.new) /\ id \in DOMAIN r.new
    BY <1>2, <1>5 DEF JobSound, Pending
<1>7. /\ id \in Words /\ id \notin DOMAIN Builtins
      /\ r.new[id] \in SUBSET Words /\ id \notin r.new[id]
    BY <1>6, IdsAreFree
<1> WITNESS id, j
<1> QED BY <1>1, <1>2, <1>3, <1>5, <1>6, <1>7

\* Generated topics have no word in common: no two verbs have.
LEMMA GeneratedSets ==
    ASSUME Table PROVE Disjointed(Generated) /\ DOMAIN Generated = DOMAIN verbs \ Mute
<1>1. /\ DOMAIN Generated = DOMAIN verbs \ Mute
      /\ \A n \in DOMAIN Generated : Generated[n] = verbs[n].also
    BY DEF Generated
<1> HIDE DEF Generated
<1> QED BY <1>1 DEF Disjointed, Table, TableSound

-----------------------------------------------------------------------------
(* The table and the reloads under way.                                     *)

LEMMA JobsStaySound ==
    ASSUME Steady, NEW a \in Admins, NEW j, JobSound(j), reload' = [reload EXCEPT ![a] = j]
    PROVE  /\ reload' = [b \in Admins |-> reload'[b]] /\ \A b \in Admins : JobSound(reload'[b])
           /\ reload'[a] = j /\ \A b \in Admins : b # a => reload'[b] = reload[b]
<1>1. reload = [b \in Admins |-> reload[b]] /\ \A b \in Admins : JobSound(reload[b])
    BY DEF Steady
<1>2. /\ reload'[a] = j /\ \A b \in Admins : b # a => reload'[b] = reload[b]
      /\ reload' = [b \in Admins |-> reload'[b]]
    BY <1>1, OnlyOne
<1>3. \A b \in Admins : JobSound(reload'[b])
    BY <1>1, <1>2
<1> QED BY <1>2, <1>3

\* Nothing of the table is touched by the rest of the steps.
LEMMA SteadyCarries ==
    ASSUME Steady, NEW a \in Admins, NEW j, JobSound(j), reload' = [reload EXCEPT ![a] = j],
           UNCHANGED <<verbs, aliasOf, logged>>, overlap' \in BOOLEAN,
           IsIndex(catalog') /\ Unreserved(catalog')
    PROVE  Steady'
<1>1. Table'
    BY DEF Steady, Table, VerbTypes, TableSound, BuiltinsKept
<1> QED BY <1>1, JobsStaySound DEF Steady

LEMMA SteadyKept ==
    ASSUME Steady, NEW a \in Admins, Reload(a) PROVE Steady'
<1>0. IsIndex(catalog) /\ Unreserved(catalog) /\ overlap \in BOOLEAN /\ logged \subseteq Words /\ Table
    BY DEF Steady
<1>1. CASE ReloadSocials(a)
  <2>1. PICK j : reload' = [reload EXCEPT ![a] = j] /\ JobSound(j)
      BY <1>1, ReloadSocialsSets
  <2>2. UNCHANGED <<verbs, aliasOf, logged, catalog>> /\ overlap' \in BOOLEAN
      BY <1>1 DEF ReloadSocials, tableVars
  <2> QED BY <1>0, <2>1, <2>2, SteadyCarries
<1>2. CASE Ask(a)
  <2>1. PICK j : reload' = [reload EXCEPT ![a] = j] /\ JobSound(j)
      BY <1>2, AskSets
  <2>2. UNCHANGED <<verbs, aliasOf, logged, catalog, overlap>>
      BY <1>2 DEF Ask, tableVars
  <2> QED BY <1>0, <2>1, <2>2, SteadyCarries
<1>3. CASE Replace(a)
  <2>1. PICK j : /\ reload' = [reload EXCEPT ![a] = j] /\ JobSound(j)
                 /\ IsIndex(catalog') /\ Unreserved(catalog')
      BY <1>3, ReplaceSets
  <2>2. UNCHANGED <<verbs, aliasOf, logged, overlap>>
      BY <1>3 DEF Replace, tableVars
  <2> QED BY <1>0, <2>1, <2>2, SteadyCarries
<1>4. CASE UnregisterRemoved(a)
  <2>1. PICK id, j : /\ reload' = [reload EXCEPT ![a] = j] /\ JobSound(j)
                     /\ Drop(id) /\ id \in Words /\ id \notin DOMAIN Builtins
      BY <1>4, RemovedSets
  <2>2. UNCHANGED <<catalog, overlap>>
      BY <1>4 DEF UnregisterRemoved
  <2>3. Table' /\ logged' \subseteq Words
      BY <1>0, <2>1, DropKeeps
  <2> QED BY <1>0, <2>1, <2>2, <2>3, JobsStaySound DEF Steady
<1>5. CASE UnregisterKept(a)
  <2>1. PICK id, j : /\ reload' = [reload EXCEPT ![a] = j] /\ JobSound(j)
                     /\ Drop(id) /\ id \in Words /\ id \notin DOMAIN Builtins
      BY <1>5, KeptSets
  <2>2. UNCHANGED <<catalog, overlap>>
      BY <1>5 DEF UnregisterKept
  <2>3. Table' /\ logged' \subseteq Words
      BY <1>0, <2>1, DropKeeps
  <2> QED BY <1>0, <2>1, <2>2, <2>3, JobsStaySound DEF Steady
<1>6. CASE RegisterKept(a)
  <2>1. PICK id, j : /\ reload' = [reload EXCEPT ![a] = j] /\ JobSound(j)
                     /\ Bring(id, reload[a].new[id]) /\ id \in Words
                     /\ reload[a].new[id] \in SUBSET Words /\ id \notin reload[a].new[id]
      BY <1>6, BackSets
  <2>2. UNCHANGED <<catalog, overlap>>
      BY <1>6 DEF RegisterKept
  <2>3. Table' /\ logged' \subseteq Words
      BY <1>0, <2>1, BringKeeps
  <2> QED BY <1>0, <2>1, <2>2, <2>3, JobsStaySound DEF Steady
<1>7. CASE RegisterAdded(a)
  <2>1. PICK id, j : /\ reload' = [reload EXCEPT ![a] = j] /\ JobSound(j)
                     /\ Bring(id, reload[a].new[id]) /\ id \in Words
                     /\ reload[a].new[id] \in SUBSET Words /\ id \notin reload[a].new[id]
      BY <1>7, AddedSets
  <2>2. UNCHANGED <<catalog, overlap>>
      BY <1>7 DEF RegisterAdded
  <2>3. Table' /\ logged' \subseteq Words
      BY <1>0, <2>1, BringKeeps
  <2> QED BY <1>0, <2>1, <2>2, <2>3, JobsStaySound DEF Steady
<1>8. ASSUME Applied(a) \/ ReloadHelp(a) PROVE Steady'
  <2>1. /\ reload' = [reload EXCEPT ![a] = [at |-> "list"]]
        /\ UNCHANGED <<verbs, aliasOf, logged, catalog, overlap>>
      BY <1>8 DEF Applied, ReloadHelp, tableVars
  <2>2. JobSound([at |-> "list"])
      BY DEF JobSound
  <2> QED BY <1>0, <2>1, <2>2, SteadyCarries
<1>9. CASE GenerateCommandTopics(a)
  <2>1. /\ reload' = [reload EXCEPT ![a] = [at |-> "merge", gen |-> Generated]]
        /\ UNCHANGED <<verbs, aliasOf, logged, catalog, overlap>>
      BY <1>9 DEF GenerateCommandTopics, tableVars
  <2>2. JobSound([at |-> "merge", gen |-> Generated])
      BY <1>0, GeneratedSets DEF JobSound
  <2> QED BY <1>0, <2>1, <2>2, SteadyCarries
<1>10. CASE MergeGenerated(a)
  <2>1. /\ reload' = [reload EXCEPT ![a] = NoReload]
        /\ UNCHANGED <<verbs, aliasOf, logged, catalog, overlap>>
      BY <1>10 DEF MergeGenerated, tableVars
  <2>2. JobSound(NoReload)
      BY DEF JobSound, NoReload
  <2> QED BY <1>0, <2>1, <2>2, SteadyCarries
<1> QED BY <1>1, <1>2, <1>3, <1>4, <1>5, <1>6, <1>7, <1>8, <1>9, <1>10 DEF Reload

-----------------------------------------------------------------------------
(* One reload at a time leaves what the catalog says.                       *)

Served(i) == IF i \in DOMAIN verbs THEN verbs[i].also = catalog[i] ELSE i \in logged

OneByOne == \A b, c \in Reloading : b = c

\* How far a reload of the socials has come.
Serving(j) ==
    /\ j.at = "ask" =>
         /\ j.drop = DOMAIN catalog \ DOMAIN j.new
         /\ j.keep = DOMAIN catalog \intersect DOMAIN j.new /\ j.add = DOMAIN j.new \ DOMAIN catalog
    /\ j.at = "apply" =>
         /\ catalog = j.new /\ j.drop \intersect DOMAIN j.new = {}
         /\ j.keep \intersect j.add = {} /\ j.add \intersect DOMAIN verbs = {}
         /\ Socials \subseteq j.drop \union DOMAIN j.new
         /\ \A i \in DOMAIN j.new \ (j.keep \union j.add) : Served(i)
    /\ j.at = "back" =>
         /\ catalog = j.new /\ j.keep \intersect j.add = {} /\ j.add \intersect DOMAIN verbs = {}
         /\ j.id \notin j.keep \union j.add /\ j.id \notin DOMAIN verbs
         /\ Socials \subseteq DOMAIN j.new
         /\ \A i \in DOMAIN j.new \ (j.keep \union j.add \union {j.id}) : Served(i)

Settled == Socials \subseteq DOMAIN catalog /\ \A i \in DOMAIN catalog : Served(i)

Service ==
    ~overlap =>
      /\ OneByOne /\ \A b \in Admins : Serving(reload[b])
      /\ (\A b \in Admins : reload[b].at \notin {"apply", "back"}) => Settled

\* While one admin reloads, the others have nothing to do with the socials.
LEMMA ServiceMoves ==
    ASSUME Steady, Service, NEW a \in Admins, reload[a].at \in {"ask", "apply", "back"},
           NEW j, JobSound(j), reload' = [reload EXCEPT ![a] = j], overlap' = overlap,
           ~overlap => Serving(j)' /\ (j.at \notin {"apply", "back"} => Settled')
    PROVE  Service'
<1> SUFFICES ASSUME ~overlap'
             PROVE  /\ OneByOne' /\ \A b \in Admins : Serving(reload[b])'
                    /\ (\A b \in Admins : reload'[b].at \notin {"apply", "back"}) => Settled'
    BY DEF Service
<1>1. ~overlap /\ OneByOne
    BY DEF Service
<1>2. \A b \in Admins : b # a => reload[b].at \notin {"ask", "apply", "back"}
    BY <1>1 DEF OneByOne, Reloading
<1>3. reload'[a] = j /\ \A b \in Admins : b # a => reload'[b] = reload[b]
    BY JobsStaySound
<1>4. OneByOne'
    BY <1>2, <1>3 DEF OneByOne, Reloading
<1>5. ASSUME NEW b \in Admins PROVE Serving(reload[b])'
    BY <1>1, <1>2, <1>3 DEF Serving
<1>6. (\A b \in Admins : reload'[b].at \notin {"apply", "back"}) => Settled'
    BY <1>1, <1>3
<1> QED BY <1>4, <1>5, <1>6

\* A step outside the socials leaves them served.
LEMMA ServiceStays ==
    ASSUME Steady, Service, NEW a \in Admins, reload[a].at \notin {"ask", "apply", "back"},
           NEW j, JobSound(j), j.at \notin {"ask", "apply", "back"},
           reload' = [reload EXCEPT ![a] = j], UNCHANGED <<verbs, catalog, logged, overlap>>
    PROVE  Service'
<1>1. reload'[a] = j /\ \A b \in Admins : b # a => reload'[b] = reload[b]
    BY JobsStaySound
<1>2. \A b \in Admins : reload[b].at \in {"ask", "apply", "back"} => reload'[b] = reload[b]
    BY <1>1
<1>3. \A b \in Admins : reload'[b].at \in {"ask", "apply", "back"} => reload'[b] = reload[b]
    BY <1>1
<1>4. OneByOne => OneByOne'
    BY <1>3 DEF OneByOne, Reloading
<1>5. (\A b \in Admins : reload'[b].at \notin {"apply", "back"})
        => \A b \in Admins : reload[b].at \notin {"apply", "back"}
    BY <1>1
<1>6. Settled => Settled'
    BY DEF Settled, Served, Socials
<1>7. ASSUME NEW b \in Admins, Serving(reload[b]) PROVE Serving(reload[b])'
  <2>1. CASE reload'[b] = reload[b]
      BY <1>7, <2>1 DEF Serving, Served, Socials
  <2>2. CASE reload'[b] # reload[b]
      BY <1>3, <2>2 DEF Serving
  <2> QED BY <2>1, <2>2
<1> QED BY <1>4, <1>5, <1>6, <1>7 DEF Service

LEMMA ServiceKept ==
    ASSUME Steady, Service, NEW a \in Admins, Reload(a) PROVE Service'
<1>0. IsIndex(catalog) /\ Unreserved(catalog) /\ logged \subseteq Words /\ Table
    BY DEF Steady
<1>1. CASE ReloadSocials(a)
  <2>1. PICK j : /\ reload' = [reload EXCEPT ![a] = j] /\ JobSound(j) /\ j.at = "ask"
                 /\ j.drop = DOMAIN catalog \ DOMAIN j.new
                 /\ j.keep = DOMAIN catalog \intersect DOMAIN j.new
                 /\ j.add = DOMAIN j.new \ DOMAIN catalog
      BY <1>1, ReloadSocialsSets
  <2>2. UNCHANGED <<verbs, logged, catalog>> /\ overlap' = (overlap \/ Reloading # {})
      BY <1>1 DEF ReloadSocials, tableVars
  <2> SUFFICES ASSUME ~overlap'
               PROVE  /\ OneByOne' /\ \A b \in Admins : Serving(reload[b])'
                      /\ (\A b \in Admins : reload'[b].at \notin {"apply", "back"}) => Settled'
      BY DEF Service
  <2>3. ~overlap /\ \A b \in Admins : reload[b].at \notin {"ask", "apply", "back"}
      BY <2>2 DEF Reloading
  <2>4. reload'[a] = j /\ \A b \in Admins : b # a => reload'[b] = reload[b]
      BY <2>1, JobsStaySound
  <2>5. OneByOne'
      BY <2>3, <2>4 DEF OneByOne, Reloading
  <2>6. Settled'
      BY <2>2, <2>3 DEF Service, Settled, Served, Socials
  <2>7. ASSUME NEW b \in Admins PROVE Serving(reload[b])'
    <3>1. CASE b = a
        BY <2>1, <2>2, <2>4, <3>1 DEF Serving
    <3>2. CASE b # a
        BY <2>3, <2>4, <3>2 DEF Serving
    <3> QED BY <3>1, <3>2
  <2> QED BY <2>5, <2>6, <2>7
<1>2. CASE Ask(a)
  <2>1. PICK j : /\ reload' = [reload EXCEPT ![a] = j] /\ JobSound(j) /\ reload[a].at = "ask"
                 /\ \/ j.at = "idle"
                    \/ /\ j.at = "ask" /\ j.new = reload[a].new /\ j.drop = reload[a].drop
                       /\ j.keep = reload[a].keep /\ j.add = reload[a].add
      BY <1>2, AskSets
  <2>2. UNCHANGED <<verbs, logged, catalog, overlap>>
      BY <1>2 DEF Ask, tableVars
  <2>3. ASSUME ~overlap PROVE Serving(j)' /\ Settled'
    <3>1. Serving(reload[a])
        BY <2>3 DEF Service
    <3>2. Serving(j)'
        BY <2>1, <2>2, <3>1 DEF Serving
    <3>3. \A b \in Admins : reload[b].at \notin {"apply", "back"}
        BY <2>1, <2>3 DEF Service, OneByOne, Reloading
    <3>4. Settled'
        BY <2>2, <2>3, <3>3 DEF Service, Settled, Served, Socials
    <3> QED BY <3>2, <3>4
  <2> QED BY <2>1, <2>2, <2>3, ServiceMoves
<1>3. CASE Replace(a)
  <2>1. PICK j : /\ reload' = [reload EXCEPT ![a] = j] /\ JobSound(j) /\ j.at = "apply"
               /\ reload[a].at = "ask" /\ JobSound(reload[a]) /\ catalog' = reload[a].new
               /\ j.new = reload[a].new /\ j.drop = reload[a].drop
               /\ j.keep = reload[a].keep /\ j.add = reload[a].add
               /\ IsIndex(catalog') /\ Unreserved(catalog')
      BY <1>3, ReplaceSets
  <2>2. UNCHANGED <<verbs, logged, overlap>>
      BY <1>3 DEF Replace, tableVars
  <2>3. ASSUME ~overlap PROVE Serving(j)'
    <3>1. /\ j.drop = DOMAIN catalog \ DOMAIN j.new
          /\ j.keep = DOMAIN catalog \intersect DOMAIN j.new /\ j.add = DOMAIN j.new \ DOMAIN catalog
        BY <2>1, <2>3 DEF Service, Serving
    <3>2. \A b \in Admins : reload[b].at \notin {"apply", "back"}
        BY <2>1, <2>3 DEF Service, OneByOne, Reloading
    <3>3. Socials \subseteq DOMAIN catalog
        BY <2>3, <3>2 DEF Service, Settled
    <3>4. DOMAIN j.new \intersect DOMAIN Builtins = {}
        BY <2>1, IdsAreFree
    <3>5. j.add \intersect DOMAIN verbs = {}
        BY <3>1, <3>3, <3>4 DEF Socials
    <3>6. Socials \subseteq j.drop \union DOMAIN j.new /\ j.keep \intersect j.add = {}
          /\ DOMAIN j.new \ (j.keep \union j.add) = {} /\ j.drop \intersect DOMAIN j.new = {}
        BY <3>1, <3>3
    <3> QED BY <2>1, <2>2, <3>5, <3>6 DEF Serving, Socials
  <2> QED BY <2>1, <2>2, <2>3, ServiceMoves
<1>4. CASE UnregisterRemoved(a)
  <2>1. PICK id, j : /\ reload' = [reload EXCEPT ![a] = j] /\ JobSound(j) /\ j.at = "apply"
               /\ reload[a].at = "apply" /\ id \in reload[a].drop /\ Drop(id)
               /\ id \in Words /\ id \notin DOMAIN Builtins
               /\ j.new = reload[a].new /\ j.drop = reload[a].drop \ {id}
               /\ j.keep = reload[a].keep /\ j.add = reload[a].add
      BY <1>4, RemovedSets
  <2>2. UNCHANGED <<catalog, overlap>>
      BY <1>4 DEF UnregisterRemoved
  <2>3. /\ DOMAIN verbs' = DOMAIN verbs \ {id}
        /\ \A m \in DOMAIN verbs' : verbs'[m] = verbs[m]
        /\ \A m : m # id => (m \in logged' <=> m \in logged)
      BY <1>0, <2>1, DropKeeps
  <2>4. ASSUME ~overlap PROVE Serving(j)'
    <3>1. Serving(reload[a])
        BY <2>4 DEF Service
    <3>2. id \notin DOMAIN j.new
        BY <2>1, <3>1 DEF Serving
    <3>3. \A i \in DOMAIN j.new \ (j.keep \union j.add) : Served(i)'
        BY <2>1, <2>2, <2>3, <3>1, <3>2 DEF Serving, Served
    <3> QED BY <2>1, <2>2, <2>3, <3>1, <3>3 DEF Serving, Socials
  <2> QED BY <2>1, <2>2, <2>4, ServiceMoves
<1>5. CASE UnregisterKept(a)
  <2>1. PICK id, j : /\ reload' = [reload EXCEPT ![a] = j] /\ JobSound(j)
               /\ reload[a].at = "apply" /\ id \in reload[a].keep /\ Drop(id) /\ reload[a].drop = {}
               /\ id \in Words /\ id \notin DOMAIN Builtins /\ id \in DOMAIN reload[a].new
               /\ j.new = reload[a].new /\ j.keep = reload[a].keep \ {id} /\ j.add = reload[a].add
               /\ \/ j.at = "back" /\ j.id = id /\ id \in DOMAIN verbs
                  \/ j.at = "apply" /\ j.drop = {} /\ id \notin DOMAIN verbs
      BY <1>5, KeptSets
  <2>2. UNCHANGED <<catalog, overlap>>
      BY <1>5 DEF UnregisterKept
  <2>3. /\ DOMAIN verbs' = DOMAIN verbs \ {id}
        /\ \A m \in DOMAIN verbs' : verbs'[m] = verbs[m]
        /\ id \notin DOMAIN verbs => id \in logged'
        /\ \A m : m # id => (m \in logged' <=> m \in logged)
      BY <1>0, <2>1, DropKeeps
  <2>4. ASSUME ~overlap PROVE Serving(j)'
    <3>1. Serving(reload[a])
        BY <2>4 DEF Service
    <3>2. id \notin j.add
        BY <2>1, <3>1 DEF Serving
    <3>3. \A i \in DOMAIN j.new \ (j.keep \union j.add \union {id}) : Served(i)'
        BY <2>1, <2>2, <2>3, <3>1 DEF Serving, Served
    <3>4. Socials' \subseteq DOMAIN j.new /\ j.add \intersect DOMAIN verbs' = {}
        BY <2>1, <2>3, <3>1 DEF Serving, Socials
    <3>5. id \notin DOMAIN verbs => Served(id)'
        BY <2>3 DEF Served
    <3> QED BY <2>1, <2>2, <2>3, <3>1, <3>2, <3>3, <3>4, <3>5 DEF Serving
  <2>5. j.at \in {"apply", "back"}
      BY <2>1
  <2> QED BY <2>1, <2>2, <2>4, <2>5, ServiceMoves
<1>6. CASE RegisterKept(a)
  <2>1. PICK id, j : /\ reload' = [reload EXCEPT ![a] = j] /\ JobSound(j) /\ j.at = "apply"
               /\ reload[a].at = "back" /\ id = reload[a].id /\ Bring(id, reload[a].new[id])
               /\ id \in Words /\ id \notin DOMAIN Builtins /\ id \in DOMAIN reload[a].new
               /\ reload[a].new[id] \in SUBSET Words /\ id \notin reload[a].new[id]
               /\ j.new = reload[a].new /\ j.drop = {}
               /\ j.keep = reload[a].keep /\ j.add = reload[a].add
      BY <1>6, BackSets
  <2>2. UNCHANGED <<catalog, overlap>>
      BY <1>6 DEF RegisterKept
  <2>3. /\ DOMAIN verbs \subseteq DOMAIN verbs' /\ DOMAIN verbs' \subseteq DOMAIN verbs \union {id}
        /\ \A m \in DOMAIN verbs : verbs'[m] = verbs[m]
        /\ id \notin DOMAIN verbs => IF id \in DOMAIN verbs' THEN verbs'[id].also = reload[a].new[id]
                                                            ELSE id \in logged'
        /\ \A m : m # id => (m \in logged' <=> m \in logged)
      BY <1>0, <2>1, BringKeeps
  <2>4. ASSUME ~overlap PROVE Serving(j)'
    <3>1. Serving(reload[a])
        BY <2>4 DEF Service
    <3>2. Served(id)'
        BY <2>1, <2>2, <2>3, <3>1 DEF Serving, Served
    <3>3. \A i \in DOMAIN j.new \ (j.keep \union j.add \union {id}) : Served(i)'
        BY <2>1, <2>2, <2>3, <3>1 DEF Serving, Served
    <3>4. Socials' \subseteq DOMAIN j.new /\ j.add \intersect DOMAIN verbs' = {}
        BY <2>1, <2>3, <3>1 DEF Serving, Socials
    <3> QED BY <2>1, <2>2, <3>1, <3>2, <3>3, <3>4 DEF Serving
  <2> QED BY <2>1, <2>2, <2>4, ServiceMoves
<1>7. CASE RegisterAdded(a)
  <2>1. PICK id, j : /\ reload' = [reload EXCEPT ![a] = j] /\ JobSound(j) /\ j.at = "apply"
               /\ reload[a].at = "apply" /\ reload[a].drop = {} /\ reload[a].keep = {}
               /\ id \in reload[a].add /\ Bring(id, reload[a].new[id])
               /\ id \in Words /\ id \notin DOMAIN Builtins /\ id \in DOMAIN reload[a].new
               /\ reload[a].new[id] \in SUBSET Words /\ id \notin reload[a].new[id]
               /\ j.new = reload[a].new /\ j.drop = {}
               /\ j.keep = {} /\ j.add = reload[a].add \ {id}
      BY <1>7, AddedSets
  <2>2. UNCHANGED <<catalog, overlap>>
      BY <1>7 DEF RegisterAdded
  <2>3. /\ DOMAIN verbs \subseteq DOMAIN verbs' /\ DOMAIN verbs' \subseteq DOMAIN verbs \union {id}
        /\ \A m \in DOMAIN verbs : verbs'[m] = verbs[m]
        /\ id \notin DOMAIN verbs => IF id \in DOMAIN verbs' THEN verbs'[id].also = reload[a].new[id]
                                                            ELSE id \in logged'
        /\ \A m : m # id => (m \in logged' <=> m \in logged)
      BY <1>0, <2>1, BringKeeps
  <2>4. ASSUME ~overlap PROVE Serving(j)'
    <3>1. Serving(reload[a])
        BY <2>4 DEF Service
    <3>2. Served(id)'
        BY <2>1, <2>2, <2>3, <3>1 DEF Serving, Served
    <3>3. \A i \in DOMAIN j.new \ (j.keep \union j.add \union {id}) : Served(i)'
        BY <2>1, <2>2, <2>3, <3>1 DEF Serving, Served
    <3>4. Socials' \subseteq DOMAIN j.new /\ j.add \intersect DOMAIN verbs' = {}
        BY <2>1, <2>3, <3>1 DEF Serving, Socials
    <3> QED BY <2>1, <2>2, <3>1, <3>2, <3>3, <3>4 DEF Serving
  <2> QED BY <2>1, <2>2, <2>4, ServiceMoves
<1>8. CASE Applied(a)
  <2> DEFINE j == [at |-> "list"]
  <2>1. /\ reload' = [reload EXCEPT ![a] = j] /\ reload[a].at = "apply"
        /\ reload[a].drop = {} /\ reload[a].keep = {} /\ reload[a].add = {}
        /\ UNCHANGED <<verbs, logged, catalog, overlap>>
      BY <1>8 DEF Applied, tableVars
  <2>2. JobSound(j) /\ j.at = "list"
      BY DEF JobSound
  <2> HIDE DEF j
  <2>3. ASSUME ~overlap PROVE Serving(j)' /\ Settled'
    <3>1. Serving(reload[a])
        BY <2>3 DEF Service
    <3>2. Settled'
        BY <2>1, <3>1 DEF Serving, Settled, Served, Socials
    <3>3. Serving(j)'
        BY <2>2 DEF Serving
    <3> QED BY <3>2, <3>3
  <2> QED BY <2>1, <2>2, <2>3, ServiceMoves
<1>9. CASE ReloadHelp(a)
  <2> DEFINE j == [at |-> "list"]
  <2>1. /\ reload' = [reload EXCEPT ![a] = j] /\ reload[a].at \notin {"ask", "apply", "back"}
        /\ UNCHANGED <<verbs, logged, catalog, overlap>>
      BY <1>9 DEF ReloadHelp, tableVars, NoReload
  <2>2. JobSound(j) /\ j.at = "list"
      BY DEF JobSound
  <2> HIDE DEF j
  <2> QED BY <2>1, <2>2, ServiceStays
<1>10. CASE GenerateCommandTopics(a)
  <2> DEFINE j == [at |-> "merge", gen |-> Generated]
  <2>1. /\ reload' = [reload EXCEPT ![a] = j] /\ reload[a].at \notin {"ask", "apply", "back"}
        /\ UNCHANGED <<verbs, logged, catalog, overlap>>
      BY <1>10 DEF GenerateCommandTopics, tableVars
  <2>2. JobSound(j) /\ j.at = "merge"
      BY <1>0, GeneratedSets DEF JobSound
  <2> HIDE DEF j
  <2> QED BY <2>1, <2>2, ServiceStays
<1>11. CASE MergeGenerated(a)
  <2>1. /\ reload' = [reload EXCEPT ![a] = NoReload] /\ reload[a].at \notin {"ask", "apply", "back"}
        /\ UNCHANGED <<verbs, logged, catalog, overlap>>
      BY <1>11 DEF MergeGenerated, tableVars
  <2>2. JobSound(NoReload) /\ NoReload.at = "idle"
      BY DEF JobSound, NoReload
  <2> QED BY <2>1, <2>2, ServiceStays
<1> QED BY <1>1, <1>2, <1>3, <1>4, <1>5, <1>6, <1>7, <1>8, <1>9, <1>10, <1>11 DEF Reload

-----------------------------------------------------------------------------
(* The topics.                                                              *)

\* A file of topics that was not refused gives a sound catalog.
LEMMA FileIsSound ==
    ASSUME NEW file \in SUBSET [id : Words, also : SUBSET Words], WellFormed(file),
           NEW k \in UNION {e.also : e \in file}
    PROVE  \A f \in file : k \in f.also => (CHOOSE e \in file : k \in e.also) = f
    BY DEF WellFormed

LEMMA TopicsKept ==
    ASSUME Steady, TopicsSound, NEW a \in Admins, Reload(a) PROVE TopicsSound'
<1>1. CASE ReloadHelp(a)
  <2>1. PICK file \in TopicFiles :
          /\ WellFormed(file) /\ topics' = Index(file)
          /\ keyed' = [k \in UNION {e.also : e \in file} |-> (CHOOSE e \in file : k \in e.also).id]
      BY <1>1 DEF ReloadHelp
  <2>2. file \in SUBSET [id : Words, also : SUBSET Words]
      BY CommandsAssumption
  <2>3. /\ Disjointed(topics') /\ \A e \in file : topics'[e.id] = e.also
        /\ DOMAIN topics' = {e.id : e \in file}
      BY <2>1, <2>2, IndexOfFile
  <2>4. /\ DOMAIN keyed' = UNION {e.also : e \in file}
        /\ \A f \in file : \A k \in f.also : keyed'[k] = f.id
      BY <2>1, <2>2, FileIsSound
  <2>5. DOMAIN topics' \intersect DOMAIN keyed' = {}
      BY <2>3, <2>4 DEF Disjointed
  <2>6. \A k \in DOMAIN keyed' : keyed'[k] \in DOMAIN topics' /\ k \in topics'[keyed'[k]]
      BY <2>3, <2>4
  <2>7. \A t \in DOMAIN topics' : \A k \in topics'[t] : k \in DOMAIN keyed' /\ keyed'[k] = t
      BY <2>3, <2>4
  <2> QED BY <2>5, <2>6, <2>7 DEF TopicsSound
<1>2. CASE MergeGenerated(a)
  <2> DEFINE gen == reload[a].gen
             new == Accepted(gen)
             words == UNION {Clean(gen, n) : n \in new}
  <2>1. Disjointed(gen)
      BY <1>2 DEF MergeGenerated, Steady, JobSound
  <2>2. /\ topics' = [t \in DOMAIN topics \union new |-> IF t \in new THEN Clean(gen, t) ELSE topics[t]]
        /\ keyed' = [k \in DOMAIN keyed \union words |->
                       IF k \in words THEN CHOOSE n \in new : k \in Clean(gen, n) ELSE keyed[k]]
      BY <1>2 DEF MergeGenerated
  <2>3. /\ new \subseteq DOMAIN gen /\ new \intersect DOMAIN topics = {} /\ new \intersect DOMAIN keyed = {}
        /\ \A n \in new : /\ Clean(gen, n) \subseteq gen[n] /\ Clean(gen, n) \intersect DOMAIN topics = {}
                          /\ Clean(gen, n) \intersect DOMAIN keyed = {}
      BY DEF Accepted, Clean, InUse
  <2>4. \A n, m \in new : /\ n # m => Clean(gen, n) \intersect Clean(gen, m) = {}
                          /\ m \notin Clean(gen, n)
      BY <2>1, <2>3 DEF Disjointed
  <2> HIDE DEF new
  <2>5. \A n \in new : \A k \in Clean(gen, n) : (CHOOSE m \in new : k \in Clean(gen, m)) = n
      BY <2>4
  <2>6. /\ DOMAIN topics' = DOMAIN topics \union new /\ DOMAIN keyed' = DOMAIN keyed \union words
        /\ \A n \in new : topics'[n] = Clean(gen, n)
        /\ \A t \in DOMAIN topics : topics'[t] = topics[t]
      BY <2>2, <2>3
  <2>7. /\ \A k \in DOMAIN keyed : k \notin words /\ keyed'[k] = keyed[k]
        /\ \A n \in new : \A k \in Clean(gen, n) : k \in words /\ keyed'[k] = n
      BY <2>2, <2>3, <2>5
  <2>8. DOMAIN topics' \intersect DOMAIN keyed' = {}
      BY <2>3, <2>4, <2>6 DEF TopicsSound
  <2>9. \A k \in words : \E n \in new : k \in Clean(gen, n)
      OBVIOUS
  <2> HIDE DEF words, gen
  <2>10. \A k \in DOMAIN keyed' : keyed'[k] \in DOMAIN topics' /\ k \in topics'[keyed'[k]]
    <3>1. ASSUME NEW k \in DOMAIN keyed PROVE keyed'[k] \in DOMAIN topics' /\ k \in topics'[keyed'[k]]
        BY <2>6, <2>7 DEF TopicsSound
    <3>2. ASSUME NEW k \in words PROVE keyed'[k] \in DOMAIN topics' /\ k \in topics'[keyed'[k]]
        BY <2>6, <2>7, <2>9
    <3> QED BY <2>6, <3>1, <3>2
  <2>11. \A t \in DOMAIN topics' : \A k \in topics'[t] : k \in DOMAIN keyed' /\ keyed'[k] = t
    <3>1. ASSUME NEW t \in DOMAIN topics, NEW k \in topics'[t] PROVE k \in DOMAIN keyed' /\ keyed'[k] = t
        BY <2>6, <2>7 DEF TopicsSound
    <3>2. ASSUME NEW t \in new, NEW k \in topics'[t] PROVE k \in DOMAIN keyed' /\ keyed'[k] = t
        BY <2>6, <2>7
    <3> QED BY <2>6, <3>1, <3>2
  <2> QED BY <2>8, <2>10, <2>11 DEF TopicsSound
<1>3. CASE ~(ReloadHelp(a) \/ MergeGenerated(a))
  <2>1. UNCHANGED <<topics, keyed>>
      BY <1>3 DEF Reload, ReloadSocials, Ask, Replace, UnregisterRemoved, UnregisterKept, RegisterKept,
                  RegisterAdded, Applied, GenerateCommandTopics, helpVars
  <2> QED BY <2>1 DEF TopicsSound
<1> QED BY <1>1, <1>2, <1>3

\* Every verb with a summary has a topic, or some admin's reload will still see to it.
Listing(n) ==
    \E b \in Admins : \/ reload[b].at \in {"apply", "back", "list"}
                      \/ reload[b].at = "merge" /\ n \in DOMAIN reload[b].gen

Covered == \A n \in DOMAIN verbs \ Mute : InUse(n) \/ Listing(n)

\* While its admin has yet to list the verbs, a reload sees to all of them.
LEMMA CoveredLater ==
    ASSUME NEW a \in Admins, reload'[a].at \in {"apply", "back", "list"} PROVE Covered'
    BY DEF Covered, Listing

LEMMA CoveredKept ==
    ASSUME Steady, Covered, NEW a \in Admins, Reload(a) PROVE Covered'
<1>0. Table
    BY DEF Steady
<1>1. ASSUME NEW j, JobSound(j), reload' = [reload EXCEPT ![a] = j], j.at \in {"apply", "back", "list"}
      PROVE Covered'
    BY <1>1, JobsStaySound, CoveredLater
<1>2. ASSUME NEW j, JobSound(j), reload' = [reload EXCEPT ![a] = j],
             reload[a].at \in {"idle", "ask"}, UNCHANGED <<verbs, topics, keyed>>
      PROVE Covered'
  <2>1. \A b \in Admins : b # a => reload'[b] = reload[b]
      BY <1>2, JobsStaySound
  <2>2. \A n : (InUse(n) => InUse(n)') /\ (Listing(n) => Listing(n)')
      BY <1>2, <2>1 DEF InUse, Listing
  <2> QED BY <1>2, <2>2 DEF Covered
<1>3. CASE ReloadSocials(a)
  <2>1. reload[a].at = "idle" /\ UNCHANGED <<verbs, topics, keyed>>
      BY <1>3 DEF ReloadSocials, NoReload, tableVars, helpVars
  <2> QED BY <1>2, <1>3, <2>1, ReloadSocialsSets
<1>4. CASE Ask(a)
  <2>1. UNCHANGED <<verbs, topics, keyed>>
      BY <1>4 DEF Ask, tableVars, helpVars
  <2> QED BY <1>2, <1>4, <2>1, AskSets
<1>5. CASE Replace(a)
    BY <1>1, <1>5, ReplaceSets
<1>6. CASE UnregisterRemoved(a)
    BY <1>1, <1>6, RemovedSets
<1>7. CASE UnregisterKept(a)
    BY <1>1, <1>7, KeptSets
<1>8. CASE RegisterKept(a)
    BY <1>1, <1>8, BackSets
<1>9. CASE RegisterAdded(a)
    BY <1>1, <1>9, AddedSets
<1>10. ASSUME Applied(a) \/ ReloadHelp(a) PROVE Covered'
  <2> DEFINE j == [at |-> "list"]
  <2>1. reload' = [reload EXCEPT ![a] = j]
      BY <1>10 DEF Applied, ReloadHelp
  <2>2. JobSound(j) /\ j.at = "list"
      BY DEF JobSound
  <2> HIDE DEF j
  <2> QED BY <1>1, <2>1, <2>2
<1>11. CASE GenerateCommandTopics(a)
  <2> DEFINE j == [at |-> "merge", gen |-> Generated]
  <2>1. reload' = [reload EXCEPT ![a] = j] /\ UNCHANGED verbs
      BY <1>11 DEF GenerateCommandTopics, tableVars
  <2>2. JobSound(j) /\ j.at = "merge" /\ DOMAIN j.gen = DOMAIN verbs \ Mute
      BY <1>0, GeneratedSets DEF JobSound
  <2> HIDE DEF j
  <2>3. reload'[a] = j
      BY <2>1, <2>2, JobsStaySound
  <2> QED BY <2>1, <2>2, <2>3 DEF Covered, Listing
<1>12. CASE MergeGenerated(a)
  <2> DEFINE gen == reload[a].gen
  <2>1. /\ reload' = [reload EXCEPT ![a] = NoReload] /\ UNCHANGED verbs /\ reload[a].at = "merge"
        /\ DOMAIN topics' = DOMAIN topics \union Accepted(gen) /\ DOMAIN keyed \subseteq DOMAIN keyed'
      BY <1>12 DEF MergeGenerated, tableVars
  <2>2. JobSound(NoReload)
      BY DEF JobSound, NoReload
  <2>3. \A b \in Admins : b # a => reload'[b] = reload[b]
      BY <2>1, <2>2, JobsStaySound
  <2>4. ASSUME NEW n \in DOMAIN verbs \ Mute PROVE InUse(n)' \/ Listing(n)'
    <3>1. CASE InUse(n)
        BY <2>1, <3>1 DEF InUse
    <3>2. CASE n \in DOMAIN gen
        BY <2>1, <3>2 DEF InUse, Accepted
    <3>3. CASE ~InUse(n) /\ n \notin DOMAIN gen
        BY <2>1, <2>3, <3>3 DEF Covered, Listing
    <3> QED BY <3>1, <3>2, <3>3
  <2> QED BY <2>1, <2>4 DEF Covered
<1> QED BY <1>3, <1>4, <1>5, <1>6, <1>7, <1>8, <1>9, <1>10, <1>11, <1>12 DEF Reload

-----------------------------------------------------------------------------
(* Lines of input.                                                          *)

LineTypes ==
    /\ chain \in [Players -> Seq(Seq(Words))] /\ heard \in [Players -> Words \union {NoVerb}]
    /\ macros = [p \in Players |-> macros[p]]
    /\ \A p \in Players :
         /\ Len(chain[p]) <= MaxAliasDepth + 1
         /\ DOMAIN macros[p] \subseteq Words /\ \A w \in DOMAIN macros[p] : macros[p][w] \in Macros

\* Taking the first segment of the innermost level leaves a chain as long.
LEMMA RestIsChain ==
    ASSUME LineTypes, NEW p \in Players, chain[p] # <<>>, Top(p) # <<>>
    PROVE  /\ Rest(p) \in Seq(Seq(Words)) /\ Len(Rest(p)) = Len(chain[p])
           /\ Head(Top(p)) \in Words
<1>1. chain[p] \in Seq(Seq(Words))
    BY DEF LineTypes
<1>2. Len(chain[p]) \in 1..Len(chain[p]) /\ Top(p) \in Seq(Words)
    BY <1>1 DEF Top
<1>3. Tail(Top(p)) \in Seq(Words) /\ Head(Top(p)) \in Words
    BY <1>2
<1>4. Rest(p) = [chain[p] EXCEPT ![Len(chain[p])] = Tail(Top(p))]
    BY DEF Rest, Top
<1>5. ASSUME NEW S, NEW c \in Seq(S), NEW i \in 1..Len(c), NEW t \in S
      PROVE [c EXCEPT ![i] = t] \in Seq(S) /\ Len([c EXCEPT ![i] = t]) = Len(c)
    BY <1>5
<1> QED BY <1>1, <1>2, <1>3, <1>4, <1>5

LEMMA LinesKept ==
    ASSUME Table, LineTypes, NEW p \in Players, Input(p) PROVE LineTypes'
<1>0. MaxAliasDepth \in Nat /\ MaxSegmentsPerLine \in Nat \ {0} /\ Macros \subseteq Seq(Words) \ {<<>>}
      /\ Lines \subseteq Seq(Words) /\ Shorthands \subseteq Words
    BY CommandsAssumption
<1>1. CASE Dispatch(p)
  <2>1. PICK line \in Lines :
          chain' = [chain EXCEPT ![p] =
                     <<IF Len(line) > MaxSegmentsPerLine THEN SubSeq(line, 1, MaxSegmentsPerLine) ELSE line>>]
      BY <1>1 DEF Dispatch
  <2> DEFINE cut == IF Len(line) > MaxSegmentsPerLine THEN SubSeq(line, 1, MaxSegmentsPerLine) ELSE line
  <2>2. cut \in Seq(Words)
      BY <1>0
  <2> HIDE DEF cut
  <2>3. <<cut>> \in Seq(Seq(Words)) /\ Len(<<cut>>) = 1
      BY <2>2
  <2>4. chain' = [chain EXCEPT ![p] = <<cut>>] /\ UNCHANGED <<macros, heard>>
      BY <1>1, <2>1 DEF Dispatch, cut
  <2> QED BY <1>0, <2>3, <2>4 DEF LineTypes
<1>2. CASE ExpandAlias(p)
  <2> DEFINE v == Head(Top(p))  m == macros[p][v]
  <2>1. /\ chain[p] # <<>> /\ Top(p) # <<>> /\ v \in DOMAIN macros[p] /\ Len(chain[p]) - 1 < MaxAliasDepth
        /\ chain' = [chain EXCEPT ![p] = Append(Rest(p), m)] /\ UNCHANGED <<macros, heard>>
      BY <1>2 DEF ExpandAlias, Splits, Depth
  <2>2. Rest(p) \in Seq(Seq(Words)) /\ Len(Rest(p)) = Len(chain[p])
      BY <2>1, RestIsChain
  <2>3. m \in Seq(Words)
      BY <1>0, <2>1 DEF LineTypes
  <2> HIDE DEF m
  <2>4. Append(Rest(p), m) \in Seq(Seq(Words)) /\ Len(Append(Rest(p), m)) = Len(chain[p]) + 1
      BY <2>2, <2>3
  <2>5. Len(chain[p]) \in Nat
      BY DEF LineTypes
  <2>6. Len(Append(Rest(p), m)) <= MaxAliasDepth + 1
      BY <1>0, <2>1, <2>4, <2>5
  <2> QED BY <2>1, <2>4, <2>6 DEF LineTypes
<1>3. CASE RunVerb(p)
  <2> DEFINE v == Head(Top(p))
             w == IF v \in DOMAIN macros[p] THEN Head(macros[p][v]) ELSE v
  <2>1. /\ chain[p] # <<>> /\ Top(p) # <<>>
        /\ heard' = [heard EXCEPT ![p] = Says(p, w)] \/ heard' = [heard EXCEPT ![p] = NoVerb]
        /\ chain' = [chain EXCEPT ![p] = Rest(p)] /\ UNCHANGED macros
      BY <1>3 DEF RunVerb
  <2>2. Rest(p) \in Seq(Seq(Words)) /\ Len(Rest(p)) = Len(chain[p]) /\ v \in Words
      BY <2>1, RestIsChain
  <2>3. w \in Words
      BY <1>0, <2>2 DEF LineTypes
  <2> HIDE DEF w
  <2>4. Says(p, w) \in Words \union {NoVerb}
      BY <2>3, LookupAnswers DEF Says, Table, VerbTypes
  <2>5. heard' \in [Players -> Words \union {NoVerb}]
      BY <2>1, <2>4 DEF LineTypes
  <2> QED BY <2>1, <2>2, <2>5 DEF LineTypes
<1>4. CASE Return(p)
  <2>1. /\ chain[p] # <<>> /\ chain' = [chain EXCEPT ![p] = SubSeq(chain[p], 1, Len(chain[p]) - 1)]
        /\ UNCHANGED <<macros, heard>>
      BY <1>4 DEF Return
  <2>2. chain[p] \in Seq(Seq(Words)) /\ Len(chain[p]) \in Nat /\ Len(chain[p]) > 0
      BY <2>1 DEF LineTypes
  <2>3. /\ SubSeq(chain[p], 1, Len(chain[p]) - 1) \in Seq(Seq(Words))
        /\ Len(SubSeq(chain[p], 1, Len(chain[p]) - 1)) = Len(chain[p]) - 1
      BY <2>2
  <2> QED BY <1>0, <2>1, <2>2, <2>3 DEF LineTypes
<1>5. CASE SetAlias(p)
  <2>1. PICK w \in Shorthands, m \in Macros : macros' = [macros EXCEPT ![p] = With(macros[p], w, m)]
      BY <1>5 DEF SetAlias
  <2>2. UNCHANGED <<chain, heard>>
      BY <1>5 DEF SetAlias
  <2>3. /\ DOMAIN With(macros[p], w, m) \subseteq Words
        /\ \A x \in DOMAIN With(macros[p], w, m) : With(macros[p], w, m)[x] \in Macros
      BY <1>0 DEF With, LineTypes
  <2> QED BY <2>1, <2>2, <2>3 DEF LineTypes
<1>6. CASE DeleteAlias(p)
  <2>1. PICK w \in DOMAIN macros[p] : macros' = [macros EXCEPT ![p] = Without(macros[p], {w})]
      BY <1>6 DEF DeleteAlias
  <2>2. UNCHANGED <<chain, heard>>
      BY <1>6 DEF DeleteAlias
  <2>3. /\ DOMAIN Without(macros[p], {w}) \subseteq Words
        /\ \A x \in DOMAIN Without(macros[p], {w}) : Without(macros[p], {w})[x] \in Macros
      BY DEF Without, LineTypes
  <2> QED BY <2>1, <2>2, <2>3 DEF LineTypes
<1> QED BY <1>1, <1>2, <1>3, <1>4, <1>5, <1>6 DEF Input

-----------------------------------------------------------------------------
(* The boot.                                                                *)

VerbsInv == Steady /\ Service /\ TopicsSound /\ Covered /\ LineTypes

\* The verbs of the boot: the built-in ones and those of a catalog none of whose
\* names is taken.
LEMMA BootTable ==
    ASSUME NEW f, IsIndex(f), Disjointed(f), NEW file, catalog = f, Booted(f, file)
    PROVE  /\ Table /\ Unreserved(f) /\ DOMAIN verbs = DOMAIN Builtins \union DOMAIN f
           /\ \A i \in DOMAIN f : verbs[i].also = f[i]
<1>1. /\ NamesOf(f) \intersect ReservedWords = {}
      /\ verbs = [n \in DOMAIN Builtins \union DOMAIN f |->
                    IF n \in DOMAIN Builtins THEN Builtins[n] ELSE [also |-> f[n], level |-> PlayerLevel]]
      /\ aliasOf = [a \in UNION {verbs[n].also : n \in DOMAIN verbs} |->
                      CHOOSE n \in DOMAIN verbs : a \in verbs[n].also]
    BY DEF Booted
<1>2. Unreserved(f)
    BY <1>1 DEF Unreserved
<1>3. DOMAIN verbs = DOMAIN Builtins \union DOMAIN f
    BY <1>1
<1>4. /\ \A b \in DOMAIN Builtins : verbs[b] = Builtins[b]
      /\ \A i \in DOMAIN f : verbs[i] = [also |-> f[i], level |-> PlayerLevel]
    BY <1>1, <1>2, IdsAreFree
<1>5. /\ \A b \in DOMAIN Builtins : verbs[b].also = Builtins[b].also
      /\ \A i \in DOMAIN f : verbs[i].also = f[i]
  <2>1. ASSUME NEW b \in DOMAIN Builtins PROVE verbs[b].also = Builtins[b].also
    <3>1. verbs[b] = Builtins[b]
        BY <1>4
    <3> QED BY <3>1
  <2>2. ASSUME NEW i \in DOMAIN f PROVE verbs[i].also = f[i]
    <3>1. verbs[i] = [also |-> f[i], level |-> PlayerLevel]
        BY <1>4
    <3> QED BY <3>1
  <2> QED BY <2>1, <2>2
<1>6. \A b \in DOMAIN Builtins, i \in DOMAIN f :
         /\ b # i /\ i \notin Builtins[b].also /\ b \notin f[i] /\ Builtins[b].also \intersect f[i] = {}
    BY <1>2 DEF Unreserved, NamesOf, ReservedWords
<1>7. /\ DOMAIN aliasOf = UNION {verbs[n].also : n \in DOMAIN verbs}
      /\ \A a \in DOMAIN aliasOf : aliasOf[a] = CHOOSE n \in DOMAIN verbs : a \in verbs[n].also
    BY <1>1
<1>8. VerbTypes
    BY <1>3, <1>4, CommandsAssumption DEF VerbTypes, IsIndex, PlayerLevel
<1>9. \A n, m \in DOMAIN verbs : n # m => verbs[n].also \intersect verbs[m].also = {}
  <2> SUFFICES ASSUME NEW n \in DOMAIN verbs, NEW m \in DOMAIN verbs, n # m,
                      NEW x \in verbs[n].also, x \in verbs[m].also
               PROVE  FALSE
      OBVIOUS
  <2>1. CASE n \in DOMAIN Builtins /\ m \in DOMAIN Builtins
      BY <1>4, <2>1, CommandsAssumption
  <2>2. CASE n \in DOMAIN f /\ m \in DOMAIN f
    <3>1. x \in f[n] /\ x \in f[m]
        BY <1>5, <2>2
    <3> QED BY <2>2, <3>1 DEF Disjointed
  <2>3. CASE n \in DOMAIN Builtins /\ m \in DOMAIN f
      BY <1>5, <1>6, <2>3
  <2>4. CASE n \in DOMAIN f /\ m \in DOMAIN Builtins
      BY <1>5, <1>6, <2>4
  <2> QED BY <1>3, <2>1, <2>2, <2>3, <2>4
<1>10. \A n, m \in DOMAIN verbs : m \notin verbs[n].also
  <2> SUFFICES ASSUME NEW n \in DOMAIN verbs, NEW m \in DOMAIN verbs, m \in verbs[n].also PROVE FALSE
      OBVIOUS
  <2>1. CASE n \in DOMAIN Builtins /\ m \in DOMAIN Builtins
      BY <1>4, <2>1, CommandsAssumption
  <2>2. CASE n \in DOMAIN f /\ m \in DOMAIN f
    <3>1. m \in f[n]
        BY <1>5, <2>2
    <3> QED BY <2>2, <3>1 DEF Disjointed
  <2>3. CASE n \in DOMAIN Builtins /\ m \in DOMAIN f
      BY <1>5, <1>6, <2>3
  <2>4. CASE n \in DOMAIN f /\ m \in DOMAIN Builtins
      BY <1>5, <1>6, <2>4
  <2> QED BY <1>3, <2>1, <2>2, <2>3, <2>4
<1>11. \A n \in DOMAIN verbs : \A a \in verbs[n].also : a \in DOMAIN aliasOf /\ aliasOf[a] = n
    BY <1>7, <1>9
<1>12. \A a \in DOMAIN aliasOf : aliasOf[a] \in DOMAIN verbs /\ a \in verbs[aliasOf[a]].also
    BY <1>7, <1>11
<1>13. TableSound
    BY <1>7, <1>10, <1>11, <1>12 DEF TableSound
<1>14. BuiltinsKept
    BY <1>3, <1>4 DEF BuiltinsKept
<1> QED BY <1>2, <1>3, <1>4, <1>8, <1>13, <1>14 DEF Table

\* The topics of the file come first, those generated from the verbs beside them.
LEMMA BootHelp ==
    ASSUME Table, NEW socials, NEW file \in SUBSET [id : Words, also : SUBSET Words], WellFormed(file),
           Booted(socials, file)
    PROVE  TopicsSound /\ Covered
<1> DEFINE idx == Index(file)
           own == UNION {e.also : e \in file}
           used == NamesOf(idx)
           new == {n \in DOMAIN verbs \ Mute : n \notin used}
           words == UNION {verbs[n].also \ used : n \in new}
<1>1. /\ topics = [t \in DOMAIN idx \union new |-> IF t \in new THEN verbs[t].also \ used ELSE idx[t]]
      /\ keyed = [k \in words \union own |->
                    IF k \in words THEN CHOOSE n \in new : k \in verbs[n].also
                    ELSE (CHOOSE e \in file : k \in e.also).id]
    BY DEF Booted
<1>2. /\ IsIndex(idx) /\ Disjointed(idx) /\ \A e \in file : idx[e.id] = e.also
      /\ DOMAIN idx = {e.id : e \in file}
    BY IndexOfFile
<1>3. /\ \A f \in file : f.id \in DOMAIN idx /\ idx[f.id] = f.also /\ f.also \subseteq own
      /\ \A k \in own : \E f \in file : k \in f.also
      /\ \A t \in DOMAIN idx : \E f \in file : t = f.id
    BY <1>2
<1>4. /\ \A f \in file : \A k \in f.also : (CHOOSE e \in file : k \in e.also).id = f.id
    BY FileIsSound
<1> HIDE DEF idx, own
<1>5. used = DOMAIN idx \union own
    BY <1>3 DEF NamesOf
<1>6. own \intersect DOMAIN idx = {}
    BY <1>2, <1>3 DEF Disjointed
<1>7. \A n \in new : n \in DOMAIN verbs /\ n \notin used
    OBVIOUS
<1>8. \A n \in DOMAIN verbs \ Mute : n \in new \/ n \in used
    OBVIOUS
<1>9. \A n, m \in new : /\ n # m => verbs[n].also \intersect verbs[m].also = {}
                        /\ m \notin verbs[n].also
    BY <1>7 DEF Table, TableSound
<1> HIDE DEF used, new
<1>10. /\ \A n \in new : \A k \in verbs[n].also \ used : k \in words
       /\ \A k \in words : k \notin used /\ \E n \in new : k \in verbs[n].also \ used
    OBVIOUS
<1>11. \A n \in new : \A k \in verbs[n].also : (CHOOSE m \in new : k \in verbs[m].also) = n
    BY <1>9
<1> HIDE DEF words
<1>12. /\ DOMAIN topics = DOMAIN idx \union new
       /\ \A n \in new : topics[n] = verbs[n].also \ used
       /\ \A t \in DOMAIN idx : topics[t] = idx[t]
    BY <1>1, <1>5, <1>7
<1>13. /\ DOMAIN keyed = own \union words
       /\ \A n \in new : \A k \in verbs[n].also \ used : k \in words /\ keyed[k] = n
    BY <1>1, <1>10, <1>11
<1>14. \A f \in file : \A k \in f.also : k \in own /\ keyed[k] = f.id
    BY <1>1, <1>3, <1>4, <1>5, <1>10
<1>15. DOMAIN topics \intersect DOMAIN keyed = {}
    BY <1>5, <1>6, <1>7, <1>9, <1>10, <1>12, <1>13
<1>16. \A k \in DOMAIN keyed : keyed[k] \in DOMAIN topics /\ k \in topics[keyed[k]]
  <2>1. ASSUME NEW k \in own PROVE keyed[k] \in DOMAIN topics /\ k \in topics[keyed[k]]
      BY <1>3, <1>12, <1>14
  <2>2. ASSUME NEW k \in words PROVE keyed[k] \in DOMAIN topics /\ k \in topics[keyed[k]]
      BY <1>10, <1>12, <1>13
  <2> QED BY <1>13, <2>1, <2>2
<1>17. \A t \in DOMAIN topics : \A k \in topics[t] : k \in DOMAIN keyed /\ keyed[k] = t
  <2>1. ASSUME NEW t \in DOMAIN idx, NEW k \in topics[t] PROVE k \in DOMAIN keyed /\ keyed[k] = t
      BY <1>3, <1>12, <1>13, <1>14
  <2>2. ASSUME NEW t \in new, NEW k \in topics[t] PROVE k \in DOMAIN keyed /\ keyed[k] = t
      BY <1>12, <1>13
  <2> QED BY <1>12, <2>1, <2>2
<1>18. Covered
    BY <1>5, <1>8, <1>12, <1>13 DEF Covered, InUse
<1> QED BY <1>15, <1>16, <1>17, <1>18 DEF TopicsSound

LEMMA VerbsInit == CommandsInit => VerbsInv
<1> SUFFICES ASSUME CommandsInit PROVE VerbsInv
    OBVIOUS
<1>1. PICK socials \in SocialFiles : WellFormed(socials) /\ catalog = Index(socials)
    BY DEF CommandsInit
<1>2. PICK file \in TopicFiles : WellFormed(file) /\ Booted(catalog, file)
    BY DEF CommandsInit
<1>3. /\ socials \in SUBSET [id : Words, also : SUBSET Words]
      /\ file \in SUBSET [id : Words, also : SUBSET Words]
    BY CommandsAssumption
<1>4. IsIndex(catalog) /\ Disjointed(catalog)
    BY <1>1, <1>3, IndexOfFile
<1>5. /\ Table /\ Unreserved(catalog) /\ DOMAIN verbs = DOMAIN Builtins \union DOMAIN catalog
      /\ \A i \in DOMAIN catalog : verbs[i].also = catalog[i]
    BY <1>2, <1>4, BootTable
<1>6. TopicsSound /\ Covered
    BY <1>2, <1>3, <1>5, BootHelp
<1>7. reload = [b \in Admins |-> NoReload] /\ logged = {} /\ overlap = FALSE
    BY DEF CommandsInit
<1>8. \A b \in Admins : reload[b].at = "idle"
    BY <1>7 DEF NoReload
<1>9. Steady
    BY <1>4, <1>5, <1>7, <1>8 DEF Steady, JobSound
<1>10. Service
    BY <1>5, <1>8 DEF Service, OneByOne, Reloading, Serving, Settled, Served, Socials
<1>11. LineTypes
  <2>1. /\ macros = [p \in Players |-> NoMacros] /\ chain = [p \in Players |-> <<>>]
        /\ heard = [p \in Players |-> NoVerb]
      BY DEF CommandsInit
  <2>2. <<>> \in Seq(Seq(Words)) /\ Len(<<>>) = 0 /\ MaxAliasDepth \in Nat
      BY CommandsAssumption
  <2>3. DOMAIN NoMacros = {}
      BY DEF NoMacros
  <2> HIDE DEF NoMacros
  <2> QED BY <2>1, <2>2, <2>3 DEF LineTypes
<1> QED BY <1>6, <1>9, <1>10, <1>11 DEF VerbsInv

LEMMA VerbsStep == VerbsInv /\ [CommandsNext]_commandsVars => VerbsInv'
<1> SUFFICES ASSUME VerbsInv, [CommandsNext]_commandsVars PROVE VerbsInv'
    OBVIOUS
<1> USE DEF VerbsInv
<1>1. ASSUME NEW a \in Admins, Reload(a) PROVE VerbsInv'
  <2>1. UNCHANGED <<macros, chain, heard>>
      BY <1>1 DEF Reload, ReloadSocials, Ask, Replace, UnregisterRemoved, UnregisterKept, RegisterKept,
                  RegisterAdded, Applied, ReloadHelp, GenerateCommandTopics, MergeGenerated, lineVars
  <2>2. LineTypes'
      BY <2>1 DEF LineTypes
  <2> QED BY <1>1, <2>2, SteadyKept, ServiceKept, TopicsKept, CoveredKept
<1>2. ASSUME UNCHANGED reloadVars PROVE Steady' /\ Service' /\ TopicsSound' /\ Covered'
  <2>1. UNCHANGED <<verbs, aliasOf, topics, keyed, catalog, reload, logged, overlap>>
      BY <1>2 DEF reloadVars, tableVars, helpVars
  <2>2. Steady'
      BY <2>1 DEF Steady, Table, VerbTypes, TableSound, BuiltinsKept, JobSound
  <2>3. Service'
      BY <2>1 DEF Service, OneByOne, Reloading, Serving, Settled, Served, Socials
  <2>4. TopicsSound' /\ Covered'
      BY <2>1 DEF TopicsSound, Covered, Listing, InUse
  <2> QED BY <2>2, <2>3, <2>4
<1>3. ASSUME NEW p \in Players, Input(p) PROVE VerbsInv'
  <2>1. UNCHANGED reloadVars
      BY <1>3 DEF Input, Dispatch, ExpandAlias, RunVerb, Return, SetAlias, DeleteAlias
  <2>2. LineTypes'
      BY <1>3, LinesKept DEF Steady
  <2> QED BY <1>2, <2>1, <2>2
<1>4. CASE UNCHANGED commandsVars
  <2>1. UNCHANGED <<macros, chain, heard>> /\ UNCHANGED reloadVars
      BY <1>4 DEF commandsVars, lineVars
  <2>2. LineTypes'
      BY <2>1 DEF LineTypes
  <2> QED BY <1>2, <2>1, <2>2
<1> QED BY <1>1, <1>3, <1>4 DEF CommandsNext

\* What the invariant gives a reader of the table, the catalog and the help.
LEMMA VerbsAnswer == VerbsInv => VerbsResolve
<1> SUFFICES ASSUME VerbsInv PROVE VerbsResolve
    OBVIOUS
<1>1. Steady /\ Service /\ TopicsSound /\ Covered /\ LineTypes /\ Table
    BY DEF VerbsInv, Steady
<1>2. CommandsTypes
    BY <1>1 DEF CommandsTypes, Steady, Table, VerbTypes, IsIndex, LineTypes
<1>3. TableSound
    BY <1>1 DEF Table
<1>4. BuiltinsServed
  <2> SUFFICES ASSUME NEW b \in DOMAIN Builtins
               PROVE  /\ b \in DOMAIN verbs /\ verbs[b] = Builtins[b] /\ Lookup(b) = b
                      /\ \A a \in Builtins[b].also : Lookup(a) = b
      BY DEF BuiltinsServed
  <2>1. b \in DOMAIN verbs /\ verbs[b] = Builtins[b]
      BY <1>1 DEF Table, BuiltinsKept
  <2>2. b \notin DOMAIN aliasOf /\ \A a \in Builtins[b].also : a \in DOMAIN aliasOf /\ aliasOf[a] = b
      BY <1>3, <2>1 DEF TableSound
  <2> QED BY <2>1, <2>2 DEF Lookup
<1>5. CatalogServed
    BY <1>1 DEF CatalogServed, Service, Settled, Served, Steady, Unreserved, NamesOf, ReservedWords, Socials
<1>6. HelpCovers
  <2> SUFFICES ASSUME \A a \in Admins : reload[a] = NoReload, NEW n \in DOMAIN verbs \ Mute
               PROVE  InUse(n)
      BY DEF HelpCovers
  <2>1. \A a \in Admins : reload[a].at = "idle"
      BY DEF NoReload
  <2> QED BY <1>1, <2>1 DEF Covered, Listing
<1> QED BY <1>1, <1>2, <1>3, <1>4, <1>5, <1>6 DEF VerbsResolve

\* Registry, emote.Catalog and help.Catalog: whatever is reloaded, in whatever order the calls of
\* two reloads come and whatever players type meanwhile, a built-in verb and its aliases resolve
\* to it, the registry's two maps agree, between reloads that did not overlap the socials served
\* are the catalog's but for those logged as failed, and when no reload runs help has something on
\* every verb with a summary.
THEOREM VerbsAlwaysResolve == CommandsSpec => []VerbsResolve
<1>1. CommandsSpec => []VerbsInv
    BY VerbsInit, VerbsStep, PTL DEF CommandsSpec
<1> QED BY <1>1, VerbsAnswer, PTL

-----------------------------------------------------------------------------
\* The modifier of an ability is (score - 10) / 2 rounded down, below ten as
\* above it (creature.AbilityMod).
THEOREM AbilityModRoundsDown ==
    ASSUME NEW points \in Int
    PROVE  AbilityMod(points) = (points - 10) \div 2
BY DEF AbilityMod, TowardsZero

\* What a division loses is less than the divisor.
LEMMA Floor ==
    ASSUME NEW n \in Nat, NEW d \in Nat \ {0}
    PROVE  n \div d \in Nat /\ d * (n \div d) <= n /\ n - d * (n \div d) = n % d /\ n % d \in 0..(d - 1)
OBVIOUS

\* The damage a contributor is entered with is never below zero.
LEMMA PositiveSum ==
    ASSUME NEW Actors, IsFiniteSet(Actors), NEW tally \in [Actors -> Int]
    PROVE  Positive(tally) \in [Actors -> Nat] /\ SumFunction(Positive(tally)) \in Nat
<1> DEFINE p == Positive(tally)
           zero == [a \in Actors |-> 0]
<1>1. p \in [Actors -> Nat]
  BY DEF Positive
<1>2. p \in [Actors -> Int] /\ zero \in [Actors -> Int] /\ \A a \in Actors : zero[a] <= p[a]
  BY <1>1
<1>3. SumFunction(zero) = 0 * Cardinality(Actors)
  <2>1. 0 \in Int
    OBVIOUS
  <2> QED BY <2>1, SumConstant, Zenon
<1>4. SumFunction(zero) = 0
  BY <1>3, FS_CardinalityType
<1> HIDE DEF p, zero
<1>5. SumFunction(p) \in Int /\ SumFunction(zero) <= SumFunction(p)
  BY <1>2, SumIsInt, SumAtMost
<1> QED BY <1>1, <1>4, <1>5 DEF p

\* The shares are numbers, and together they never pay more than there is.
LEMMA SharesFit ==
    ASSUME NEW Actors, IsFiniteSet(Actors), NEW p \in [Actors -> Nat], NEW total \in Nat,
           NEW sum \in Nat, sum = SumFunction(p),
           NEW share, share = [a \in Actors |-> IF sum = 0 THEN 0 ELSE (total * p[a]) \div sum]
    PROVE  share \in [Actors -> Nat] /\ SumFunction(share) \in Int /\ SumFunction(share) <= total
<1>1. CASE sum = 0
  <2>1. share = [a \in Actors |-> 0]
    BY <1>1
  <2>2. SumFunction(share) = 0 * Cardinality(Actors)
    <3>1. 0 \in Int
      OBVIOUS
    <3> QED BY <2>1, <3>1, SumConstant, Zenon
  <2>3. SumFunction(share) = 0
    BY <2>2, FS_CardinalityType
  <2> QED BY <2>1, <2>3
<1>2. CASE sum # 0
  <2>1. ASSUME NEW a \in Actors
        PROVE  share[a] \in Nat /\ sum * share[a] <= total * p[a]
    <3>1. share[a] = (total * p[a]) \div sum
      BY <1>2
    <3>2. total * p[a] \in Nat
      OBVIOUS
    <3>3. \A n \in Nat : n \div sum \in Nat /\ sum * (n \div sum) <= n
      BY <1>2, Floor
    <3> QED BY <3>1, <3>2, <3>3
  <2>2. share \in [Actors -> Nat]
    BY <2>1
  <2> DEFINE taken == [a \in Actors |-> sum * share[a]]
             given == [a \in Actors |-> total * p[a]]
  <2>3. taken \in [Actors -> Int] /\ given \in [Actors -> Int]
    BY <2>2
  <2>4. \A a \in Actors : taken[a] = sum * share[a] /\ given[a] = total * p[a] /\ taken[a] <= given[a]
    BY <2>1
  <2>5. share \in [Actors -> Int] /\ p \in [Actors -> Int]
    BY <2>2
  <2> HIDE DEF taken, given
  <2>6. SumFunction(taken) = sum * SumFunction(share)
    BY <2>3, <2>4, <2>5, SumScaled
  <2>7. SumFunction(given) = total * SumFunction(p)
    BY <2>3, <2>4, <2>5, SumScaled
  <2>8. SumFunction(taken) <= SumFunction(given)
    BY <2>3, <2>4, SumAtMost
  <2>9. SumFunction(share) \in Int
    BY <2>5, SumIsInt
  <2>10. sum * SumFunction(share) <= total * sum
    BY <2>6, <2>7, <2>8
  <2>11. \A s \in Int : sum * s <= total * sum => s <= total
    BY <1>2
  <2> QED BY <2>2, <2>9, <2>10, <2>11
<1> QED BY <1>1, <1>2

\* However the damage was dealt, a kill whose killer is known pays exactly its
\* experience, and one whose killer is not (killer is no actor) never more;
\* nobody is awarded less than nothing (allocateXP).
THEOREM XPPaidInFull ==
    ASSUME NEW Actors, IsFiniteSet(Actors), NEW tally \in [Actors -> Int],
           NEW totalXP \in Nat \ {0}, NEW killer
    PROVE  LET awards == allocateXP(tally, totalXP, killer)
           IN  /\ awards \in [Actors -> Nat]
               /\ killer \in Actors => SumFunction(awards) = totalXP
               /\ killer \notin Actors => SumFunction(awards) <= totalXP
<1> DEFINE p == Positive(tally)
           sum == SumFunction(p)
           share == [a \in Actors |-> IF sum = 0 THEN 0 ELSE (totalXP * p[a]) \div sum]
           rest == totalXP - SumFunction(share)
           bonus == [a \in Actors |-> IF a \in {killer} \cap Actors THEN rest ELSE 0]
           awards == allocateXP(tally, totalXP, killer)
<1>1. p \in [Actors -> Nat] /\ sum \in Nat
  BY PositiveSum
<1>2. awards = [a \in Actors |-> share[a] + (IF a = killer THEN rest ELSE 0)]
  BY DEF allocateXP
<1>3. share \in [Actors -> Nat] /\ SumFunction(share) \in Int /\ SumFunction(share) <= totalXP
  BY <1>1, SharesFit
<1>4. rest \in Nat
  BY <1>3
<1>5. SumFunction(bonus) = rest * Cardinality({killer} \cap Actors)
  BY <1>4, SumOfSome
<1> HIDE DEF p, sum, share, rest
<1>6. \A a \in Actors : awards[a] = share[a] + bonus[a]
  BY <1>2
<1>7. bonus \in [Actors -> Int] /\ share \in [Actors -> Int]
  BY <1>3, <1>4
<1>8. awards \in [Actors -> Nat] /\ awards \in [Actors -> Int]
  <2>1. \A a \in Actors : share[a] \in Nat
    BY <1>3
  <2> QED BY <1>2, <1>4, <2>1
<1> HIDE DEF awards, bonus
<1>9. SumFunction(awards) = SumFunction(share) + SumFunction(bonus)
  BY <1>6, <1>7, <1>8, SumPlus
<1>10. ASSUME killer \in Actors PROVE SumFunction(awards) = totalXP
  <2>1. {killer} \cap Actors = {killer}
    BY <1>10
  <2>2. SumFunction(bonus) = rest * 1
    BY <1>5, <2>1, FS_Singleton
  <2>3. SumFunction(bonus) = totalXP - SumFunction(share)
    BY <2>2, <1>4 DEF rest
  <2> QED BY <1>3, <1>9, <2>3
<1>11. ASSUME killer \notin Actors PROVE SumFunction(awards) <= totalXP
  <2>1. {killer} \cap Actors = {}
    BY <1>11
  <2>2. SumFunction(bonus) = rest * 0
    BY <1>5, <2>1, FS_EmptySet
  <2>3. SumFunction(bonus) = 0
    BY <2>2, <1>4
  <2> QED BY <1>3, <1>9, <2>3
<1> QED BY <1>8, <1>10, <1>11 DEF awards

\* A round of the division among the party keeps the sum of the tally, except
\* that the remainder is lost when the contributor is not among those who
\* share (he dealt the damage and left the room), and that the entry of a
\* contributor nobody shares with, or who did nothing, replaces what the map
\* held for him (expandTallyByGroup).
THEOREM WhatARoundKeeps ==
    ASSUME NEW Actors, IsFiniteSet(Actors), NEW out \in [Actors -> Int], NEW ref \in Actors,
           NEW dmg \in Int, NEW members \in (SUBSET Actors) \ {{}}
    PROVE  LET kept == SumFunction(Divide(out, ref, dmg, members))
               n == Cardinality(members)
           IN  /\ dmg <= 0 \/ n <= 1 => kept = SumFunction(out) + dmg - out[ref]
               /\ dmg > 0 /\ n > 1 /\ ref \in members => kept = SumFunction(out) + dmg
               /\ dmg > 0 /\ n > 1 /\ ref \notin members =>
                     kept = SumFunction(out) + dmg - (dmg % n)
<1> DEFINE n == Cardinality(members)
           share == dmg \div n
           rest == dmg - share * n
           H == Divide(out, ref, dmg, members)
<1>1. IsFiniteSet(members) /\ n \in Nat /\ SumFunction(out) \in Int
  BY FS_Subset, FS_CardinalityType, SumIsInt
<1>2. ASSUME dmg <= 0 \/ n <= 1 PROVE SumFunction(H) = SumFunction(out) + dmg - out[ref]
  <2>1. H = [out EXCEPT ![ref] = dmg]
    BY <1>2, Zenon DEF Divide
  <2>2. SumFunction([out EXCEPT ![ref] = dmg]) = SumFunction(out) + dmg - out[ref]
    BY SumUpdate
  <2> QED BY <2>1, <2>2, Zenon
<1>3. ASSUME dmg > 0, n > 1
      PROVE  SumFunction(H) = SumFunction(out) + dmg - (IF ref \in members THEN 0 ELSE dmg % n)
  <2> DEFINE shares == [m \in Actors |-> IF m \in members THEN share ELSE 0]
             extra == [m \in Actors |-> IF m \in {ref} \cap members THEN rest ELSE 0]
             both == [m \in Actors |-> shares[m] + extra[m]]
  <2>1. n \in Nat \ {0} /\ dmg \in Nat
    BY <1>1, <1>3
  <2>2. share \in Nat /\ rest \in Nat /\ rest = dmg % n /\ dmg = share * n + rest
    <3>1. share \in Nat /\ n * share <= dmg /\ dmg - n * share = dmg % n
      BY <2>1, Floor
    <3> HIDE DEF share, n
    <3>2. share * n = n * share /\ share * n \in Nat
      BY <2>1, <3>1
    <3> QED BY <2>1, <3>1, <3>2
  <2>3. H = [m \in Actors |-> out[m] + (IF m \in members THEN share ELSE 0)
                                     + (IF m = ref /\ m \in members THEN rest ELSE 0)]
    <3>1. ~(dmg <= 0 \/ n <= 1)
      BY <1>1, <1>3
    <3>2. DOMAIN out = Actors
      OBVIOUS
    <3> QED BY <3>1, <3>2, Zenon DEF Divide
  <2>3a. share \in Int /\ rest \in Int
    BY <2>2
  <2>4. SumFunction(shares) = share * n
    BY <2>3a, SumOfSome, Zenon
  <2>5. SumFunction(extra) = rest * Cardinality({ref} \cap members)
    <3>1. {ref} \cap members \in SUBSET Actors
      OBVIOUS
    <3> QED BY <2>3a, <3>1, SumOfSome, Zenon
  <2> HIDE DEF share, rest, n, H
  <2>6. /\ shares \in [Actors -> Int] /\ extra \in [Actors -> Int]
        /\ both \in [Actors -> Int] /\ \A m \in Actors : both[m] = shares[m] + extra[m]
    BY <2>2
  <2>7. H \in [Actors -> Int] /\ \A m \in Actors : H[m] = out[m] + both[m]
    <3>1. \A m \in Actors : /\ shares[m] = (IF m \in members THEN share ELSE 0)
                            /\ extra[m] = (IF m = ref /\ m \in members THEN rest ELSE 0)
      OBVIOUS
    <3> HIDE DEF shares, extra, both
    <3>2. \A m \in Actors : H[m] = out[m] + shares[m] + extra[m]
      BY <2>3, <3>1
    <3>3. \A m \in Actors : out[m] \in Int /\ shares[m] \in Int /\ extra[m] \in Int
      BY <2>6
    <3>4. \A m \in Actors : H[m] = out[m] + both[m] /\ H[m] \in Int
      BY <2>6, <3>2, <3>3
    <3> QED BY <2>3, <3>4
  <2> HIDE DEF shares, extra, both
  <2>8. SumFunction(both) = SumFunction(shares) + SumFunction(extra)
    BY <2>6, SumPlus
  <2>9. SumFunction(H) = SumFunction(out) + SumFunction(both)
    BY <2>6, <2>7, SumPlus
  <2>10. CASE ref \in members
    <3>1. {ref} \cap members = {ref}
      BY <2>10
    <3>2. SumFunction(extra) = rest * 1
      BY <2>5, <3>1, FS_Singleton
    <3>2a. SumFunction(extra) = rest
      BY <2>3a, <3>2
    <3>3. SumFunction(both) = share * n + rest
      BY <2>4, <2>8, <3>2a
    <3>3a. SumFunction(both) = dmg
      BY <2>2, <3>3
    <3> QED BY <1>1, <2>9, <2>10, <3>3a
  <2>11. CASE ref \notin members
    <3>1. {ref} \cap members = {}
      BY <2>11
    <3>2. SumFunction(extra) = rest * 0
      BY <2>5, <3>1, FS_EmptySet
    <3>3. SumFunction(extra) = 0
      BY <2>3a, <3>2
    <3> DEFINE sold == share * n
    <3>4. sold \in Int /\ dmg = sold + rest
      BY <2>1, <2>2
    <3>5. SumFunction(both) = sold + 0
      BY <2>4, <2>8, <3>3
    <3> HIDE DEF sold
    <3>6. SumFunction(both) = dmg - (dmg % n)
      BY <2>2, <3>4, <3>5
    <3> QED BY <1>1, <2>1, <2>2, <2>9, <2>11, <3>6
  <2> QED BY <2>10, <2>11
<1> HIDE DEF H
<1>4. ASSUME dmg > 0, n > 1, ref \in members PROVE SumFunction(H) = SumFunction(out) + dmg
  BY <1>1, <1>3, <1>4
<1>5. ASSUME dmg > 0, n > 1, ref \notin members PROVE SumFunction(H) = SumFunction(out) + dmg - (dmg % n)
  <2>1. SumFunction(H) = SumFunction(out) + dmg - (IF ref \in members THEN 0 ELSE dmg % n)
    BY <1>3, <1>5
  <2> QED BY <1>5, <2>1
<1> QED BY <1>2, <1>4, <1>5 DEF H

\* A hit takes at least one point and at most what int32 holds, whatever the
\* dice, the strength, the weapon's multiplier and the variant (RollDamage):
\* the resolver never sees the negative number it would take for no damage.
THEOREM HitAlwaysHurts ==
    ASSUME NEW base \in Int, NEW strMod \in Int, NEW w, w.CritMult \in Int,
           NEW isCrit \in BOOLEAN, NEW variant \in Variants
    PROVE  RollDamage(base, strMod, w, isCrit, variant) \in 1..MaxInt32
<1> DEFINE plain == AtLeast(1, base + strMod)
           mult == critMult(w)
           struck == IF isCrit THEN plain * mult ELSE plain
           dmg == Varied(struck, variant)
<1>1. plain \in Nat \ {0} /\ mult \in Nat \ {0}
  BY DEF AtLeast, critMult
<1> HIDE DEF plain, mult
<1>2. plain * mult \in Nat \ {0}
  BY <1>1
<1>3. struck \in Nat \ {0}
  BY <1>1, <1>2
<1> HIDE DEF struck
<1>4. dmg \in Nat \ {0}
  BY <1>3 DEF Varied, Variants, AtLeast
<1> HIDE DEF dmg
<1>5. AtMost(MaxInt32, dmg) \in 1..MaxInt32
  BY <1>4, RulesAssumption DEF AtMost, MaxInt32
<1>6. RollDamage(base, strMod, w, isCrit, variant) = AtMost(MaxInt32, dmg)
  BY Zenon DEF RollDamage, dmg, struck, plain, mult
<1> QED BY <1>5, <1>6

\* A fight's stances, for any actors.
FightsOf(actors) ==
    [Order : SUBSET actors, ParryingUntil : [actors -> Int],
     DodgeUntil : [actors -> Int], FlatFootedUntil : [actors -> Int]]

\* Of two swings at the same actor in a round, by whoever, one is dodged at most
\* and one parried at most (resolveAction deletes the stance it has honoured).
THEOREM OneSwingPerStance ==
    ASSUME NEW actors, NEW f \in FightsOf(actors), NEW round \in Nat,
           NEW target \in actors, NEW first \in actors, NEW second \in actors,
           NEW d1, NEW d2, NEW b1, NEW b2, NEW w1, NEW w2, NEW before, NEW after
    PROVE  LET one == Swing(f, round, first, target, d1, b1, w1, before)
               two == Swing(one.fight, round, second, target, d2, b2, w2, after)
           IN  /\ one.how = "dodge" => two.how # "dodge"
               /\ one.how = "parry" => two.how # "parry"
<1> DEFINE one == Swing(f, round, first, target, d1, b1, w1, before)
           g == one.fight
           two == Swing(g, round, second, target, d2, b2, w2, after)
<1>1. ASSUME one.how = "dodge" PROVE ~InForce(g.DodgeUntil, target, round)
  <2>1. InForce(f.DodgeUntil, target, round)
    BY <1>1 DEF Swing
  <2>2. g = [f EXCEPT !.DodgeUntil[target] = Unset]
    BY <1>1, <2>1 DEF Swing
  <2>3. g.DodgeUntil[target] = Unset
    BY <2>2 DEF FightsOf
  <2> QED BY <2>3 DEF InForce, Unset
<1>2. ASSUME one.how = "parry" PROVE ~InForce(g.ParryingUntil, target, round)
  <2>1. g = [f EXCEPT !.ParryingUntil[target] = Unset, !.FlatFootedUntil[first] = round + 1]
    BY <1>2 DEF Swing
  <2>2. g.ParryingUntil[target] = Unset
    BY <2>1 DEF FightsOf
  <2> QED BY <2>2 DEF InForce, Unset
<1> HIDE DEF g
<1>3. two.how = "dodge" => InForce(g.DodgeUntil, target, round)
  BY DEF Swing
<1>4. two.how = "parry" => InForce(g.ParryingUntil, target, round)
  BY DEF Swing
<1> QED BY <1>1, <1>2, <1>3, <1>4 DEF g

\* With the dodge up nothing hits that would miss without it, though a dodge
\* also restores the Dex bonus a flat-footed defender had lost: the +4 of
\* resolveAction never turns a miss, or a parry, into a hit.
THEOREM DodgeNeverHurts ==
    ASSUME NEW actors, NEW f \in FightsOf(actors), NEW round \in Nat,
           NEW target \in actors, NEW attacker \in actors, NEW dice, NEW bonus \in Int, NEW w,
           dice.raw \in 1..20,
           NEW defender \in [Defense : Int, DexMod : Int, BAB : Int]
    PROVE  LET open == [f EXCEPT !.DodgeUntil[target] = Unset]
           IN  Swing(f, round, attacker, target, dice, bonus, w, defender).how = "hit"
                 => Swing(open, round, attacker, target, dice, bonus, w, defender).how = "hit"
<1> DEFINE open == [f EXCEPT !.DodgeUntil[target] = Unset]
           braced == [defender EXCEPT !.Defense = @ + 4]
           flat == InForce(f.FlatFootedUntil, target, round)
           parries == /\ InForce(f.ParryingUntil, target, round)
                      /\ RollParry(dice.parry, defender) > dice.raw + bonus
           Hits(d, ff) == Succeeds(dice.raw, bonus, effectiveDefense(d, ff))
<1>1. open.ParryingUntil = f.ParryingUntil /\ open.FlatFootedUntil = f.FlatFootedUntil
  BY DEF FightsOf
<1>2. ~InForce(open.DodgeUntil, target, round)
  BY DEF FightsOf, InForce, Unset
<1>3. effectiveDefense(defender, flat) <= effectiveDefense(braced, FALSE)
  BY DEF effectiveDefense
<1>4. effectiveDefense(defender, flat) \in Int /\ effectiveDefense(braced, FALSE) \in Int
  BY DEF effectiveDefense
<1>5. Hits(braced, FALSE) => Hits(defender, flat)
  <2>1. ASSUME NEW low \in Int, NEW high \in Int, low <= high, Succeeds(dice.raw, bonus, high)
        PROVE  Succeeds(dice.raw, bonus, low)
    BY <2>1 DEF Succeeds
  <2> QED BY <1>3, <1>4, <2>1
<1>6. Swing(open, round, attacker, target, dice, bonus, w, defender).how = "hit"
        <=> Hits(defender, flat) /\ ~parries
  BY <1>1, <1>2 DEF Swing, RollAttack, InForce
<1>7. CASE InForce(f.DodgeUntil, target, round)
  <2>1. Swing(f, round, attacker, target, dice, bonus, w, defender).how = "hit"
          <=> Hits(braced, FALSE) /\ ~parries
    BY <1>7 DEF Swing, RollAttack
  <2> QED BY <1>5, <1>6, <2>1
<1>8. CASE ~InForce(f.DodgeUntil, target, round)
  <2>1. Swing(f, round, attacker, target, dice, bonus, w, defender).how = "hit"
          <=> Hits(defender, flat) /\ ~parries
    BY <1>8 DEF Swing, RollAttack, InForce
  <2> QED BY <1>6, <2>1
<1> QED BY <1>7, <1>8

\* No item is in two slots.
OnceEach(worn) == \A s, t \in DOMAIN worn : worn[s] = worn[t] /\ worn[s] # 0 => s = t

\* FindByItem finds an item that is worn once where it is.
LEMMA FoundWhereWorn ==
    ASSUME NEW ids, NEW worn \in Equipment(ids), OnceEach(worn),
           NEW s \in DOMAIN worn, worn[s] # 0
    PROVE  FindByItem(worn, worn[s]) = <<s>>
<1> DEFINE at == {i \in DOMAIN slotOrder : worn[slotOrder[i]] = worn[s]}
<1>1. PICK k \in DOMAIN slotOrder : slotOrder[k] = s
  BY DEF Equipment, Range
<1>2. \A i, j \in DOMAIN slotOrder : slotOrder[i] = slotOrder[j] => i = j
  BY DEF slotOrder
<1>3. \A i \in DOMAIN slotOrder : slotOrder[i] \in DOMAIN worn
  BY DEF Equipment, Range
<1>4. at = {k}
  BY <1>1, <1>2, <1>3 DEF OnceEach
<1>5. k \in Int /\ k <= k
  BY DEF slotOrder
<1>6. (CHOOSE i \in at : \A j \in at : i <= j) = k
  BY <1>4, <1>5
<1>7. FindByItem(worn, worn[s]) = <<slotOrder[CHOOSE i \in at : \A j \in at : i <= j]>>
  BY <1>4 DEF FindByItem
<1> QED BY <1>1, <1>6, <1>7

\* What wear, wield and the kit of a new character put on is in one slot at
\* most, and an item that leaves the inventory leaves no slot naming it
\* (ClearItem looks for one slot only, and is enough).
THEOREM NothingDangles ==
    ASSUME NEW ids, NEW worn \in Equipment(ids), OnceEach(worn), 0 \in ids
    PROVE  /\ \A slot, item : item # 0 => OnceEach(PutOn(worn, slot, item))
           /\ \A item \in ids \ {0} : OnceEach(ClearItem(worn, item))
                                       /\ item \notin Range(ClearItem(worn, item))
           /\ \A type, item : item # 0 /\ item \notin Range(worn) => OnceEach(autoEquip(worn, type, item))
<1>1. ASSUME NEW slot, NEW item, item # 0, item \notin Range(worn)
      PROVE  OnceEach(EquipSet(worn, slot, item))
  BY <1>1 DEF OnceEach, EquipSet, Range
<1>2. ASSUME NEW slot, NEW item, item # 0 PROVE OnceEach(PutOn(worn, slot, item))
  <2>1. CASE item \in Range(worn)
    <3>1. PICK s \in DOMAIN worn : worn[s] = item
      BY <2>1 DEF Range
    <3>2. FindByItem(worn, item) # <<>>
      BY <1>2, <3>1, FoundWhereWorn
    <3> QED BY <3>2 DEF PutOn
  <2>2. CASE item \notin Range(worn)
    BY <1>1, <1>2, <2>2 DEF PutOn
  <2> QED BY <2>1, <2>2
<1>3. ASSUME NEW item \in ids \ {0}
      PROVE  OnceEach(ClearItem(worn, item)) /\ item \notin Range(ClearItem(worn, item))
  <2>1. CASE item \in Range(worn)
    <3>1. PICK s \in DOMAIN worn : worn[s] = item
      BY <2>1 DEF Range
    <3>2. FindByItem(worn, item) = <<s>>
      BY <1>3, <3>1, FoundWhereWorn
    <3>3. ClearItem(worn, item) = [worn EXCEPT ![s] = 0]
      BY <3>2 DEF ClearItem, EquipSet
    <3> QED BY <1>3, <3>1, <3>3 DEF OnceEach, Range
  <2>2. CASE item \notin Range(worn)
    <3>1. {i \in DOMAIN slotOrder : worn[slotOrder[i]] = item} = {}
      BY <2>2 DEF Range, Equipment
    <3>2. FindByItem(worn, item) = <<>>
      BY <3>1 DEF FindByItem
    <3>3. ClearItem(worn, item) = worn
      BY <3>2 DEF ClearItem
    <3> QED BY <2>2, <3>3
  <2> QED BY <2>1, <2>2
<1>4. ASSUME NEW type, NEW item, item # 0, item \notin Range(worn)
      PROVE  OnceEach(autoEquip(worn, type, item))
  BY <1>1, <1>4 DEF autoEquip
<1> QED BY <1>2, <1>3, <1>4

-----------------------------------------------------------------------------
(* The quest log as a value (QuestLog).                                    *)

\* A log in which every quest is at most once and every step is one of its own.
CleanLog(entries) ==
    /\ entries \in Seq(Entry)
    /\ \A i \in DOMAIN entries : InRange(entries[i])
    /\ \A i, k \in DOMAIN entries : entries[i].q = entries[k].q => i = k

\* What is completed stays.
Keeps(before, after) ==
    \A i \in DOMAIN before : before[i].done => \E k \in DOMAIN after : after[k] = before[i]

\* The quest is there, completed.
Closed(entries, q) == \E k \in DOMAIN entries : entries[k].q = q /\ entries[k].done

\* A nonempty set of naturals has a least one.
LEMMA LeastIsThere ==
    ASSUME NEW S \in SUBSET Nat, S # {}
    PROVE  Min(S) \in S
<1>1. PICK m \in S : \A n \in S : ~(<<n, m>> \in OpToRel(<, Nat))
  BY NatLessThanWellFounded, WFMin
<1>2. \A n \in S : ~(n < m)
  BY <1>1 DEF OpToRel
<1>3. \A n \in S : m =< n
  BY <1>2
<1> QED BY <1>3 DEF Min

\* findActive finds an entry of the quest that is not completed.
LEMMA ActiveIsThere ==
    ASSUME NEW q, log \in Seq(Entry), FindActive(q) # 0
    PROVE  /\ FindActive(q) \in DOMAIN log
           /\ log[FindActive(q)].q = q /\ ~log[FindActive(q)].done
<1> DEFINE I == {i \in 1..Len(log) : log[i].q = q /\ ~log[i].done}
<1>1. FindActive(q) = IF I # {} THEN Min(I) ELSE 0
  BY DEF FindActive, SelectInSeq
<1>2. I \in SUBSET Nat
  OBVIOUS
<1>3. FindActive(q) \in I
  <2> HIDE DEF I
  <2>1. I # {} /\ FindActive(q) = Min(I)
    BY <1>1
  <2> QED BY <1>2, <2>1, LeastIsThere
<1>4. \A i \in I : i \in DOMAIN log /\ log[i].q = q /\ ~log[i].done
  OBVIOUS
<1> HIDE DEF I
<1> QED BY <1>3, <1>4

\* HandleEnter and HandleKill find one whose step is of the kind.
LEMMA StepIsThere ==
    ASSUME NEW kind, log \in Seq(Entry), FindStep(kind) # 0
    PROVE  /\ FindStep(kind) \in DOMAIN log
           /\ ~log[FindStep(kind)].done
<1> DEFINE I == {i \in 1..Len(log) : ~log[i].done /\ Steps[log[i].q][log[i].step].kind = kind}
<1>1. FindStep(kind) = IF I # {} THEN Min(I) ELSE 0
  BY DEF FindStep, SelectInSeq
<1>2. I \in SUBSET Nat
  OBVIOUS
<1>3. FindStep(kind) \in I
  <2> HIDE DEF I
  <2>1. I # {} /\ FindStep(kind) = Min(I)
    BY <1>1
  <2> QED BY <1>2, <2>1, LeastIsThere
<1>4. \A i \in I : i \in DOMAIN log /\ ~log[i].done
  OBVIOUS
<1> HIDE DEF I
<1> QED BY <1>3, <1>4

\* What a sequence holds, and what is left of it without one entry.
LEMMA ElementOfSeq ==
    ASSUME NEW T, NEW s \in Seq(T), NEW n \in 1..Len(s)
    PROVE  s[n] \in T
OBVIOUS

LEMMA TwoInARow ==
    ASSUME NEW T, NEW a \in Seq(T), NEW b \in Seq(T)
    PROVE  /\ a \o b \in Seq(T) /\ Len(a \o b) = Len(a) + Len(b)
           /\ \A k \in 1..(Len(a) + Len(b)) : (a \o b)[k] = IF k <= Len(a) THEN a[k] ELSE b[k - Len(a)]
OBVIOUS

LEMMA WithoutOne ==
    ASSUME NEW T, NEW s \in Seq(T), NEW i \in 1..Len(s)
    PROVE  /\ RemoveAt(s, i) \in Seq(T) /\ Len(RemoveAt(s, i)) = Len(s) - 1
           /\ \A k \in 1..(Len(s) - 1) : RemoveAt(s, i)[k] = IF k < i THEN s[k] ELSE s[k + 1]
<1> DEFINE n == Len(s)
           a == SubSeq(s, 1, i - 1)
           b == SubSeq(s, i + 1, n)
<1>n. n \in Nat /\ i \in 1..n
  OBVIOUS
<1>1. a \in Seq(T) /\ Len(a) = i - 1 /\ \A k \in 1..(i - 1) : a[k] = s[k]
  OBVIOUS
<1>2. b \in Seq(T) /\ Len(b) = n - i /\ \A k \in 1..(n - i) : b[k] = s[i + k]
  OBVIOUS
<1>3. RemoveAt(s, i) = a \o b
  BY DEF RemoveAt
<1> HIDE DEF a, b, n
<1>4. /\ a \o b \in Seq(T) /\ Len(a \o b) = Len(a) + Len(b)
      /\ \A k \in 1..(Len(a) + Len(b)) : (a \o b)[k] = IF k <= Len(a) THEN a[k] ELSE b[k - Len(a)]
  BY <1>1, <1>2, TwoInARow
<1> DEFINE c == a \o b
<1> HIDE DEF c
<1>5. /\ c \in Seq(T) /\ Len(c) = n - 1
      /\ \A k \in 1..(n - 1) : c[k] = IF k <= i - 1 THEN a[k] ELSE b[k - (i - 1)]
  BY <1>n, <1>1, <1>2, <1>4 DEF c
<1>6. ASSUME NEW k \in 1..(n - 1) PROVE c[k] = IF k < i THEN s[k] ELSE s[k + 1]
  <2>2. CASE k < i
    <3>1. k \in 1..(i - 1)
      BY <1>n, <2>2
    <3> QED BY <1>n, <1>1, <1>5, <2>2, <3>1
  <2>3. CASE ~(k < i)
    <3>1. k - (i - 1) \in 1..(n - i) /\ i + (k - (i - 1)) = k + 1
      BY <1>n, <2>3
    <3>2. b[k - (i - 1)] = s[k + 1]
      BY <1>2, <3>1
    <3> QED BY <1>n, <1>5, <2>3, <3>2
  <2> QED BY <2>2, <2>3
<1> QED BY <1>3, <1>5, <1>6 DEF c, n

\* A new entry starts at the first step of its quest.
LEMMA InitLeftIsNat ==
    ASSUME NEW q \in Quests, NEW n \in 1..Len(Steps[q])
    PROVE  InitLeft(q, n) \in Nat /\ Steps[q] \in Seq([kind : Kinds, count : Nat])
<1>1. Steps[q] \in Seq([kind : Kinds, count : Nat])
  BY QuestAssumption DEF QuestsValid
<1>2. Steps[q][n] \in [kind : Kinds, count : Nat]
  BY <1>1, ElementOfSeq
<1> QED BY <1>1, <1>2 DEF InitLeft

LEMMA AcceptedClean ==
    ASSUME NEW entries, CleanLog(entries), NEW q \in Quests, \A i \in DOMAIN entries : entries[i].q # q
    PROVE  LET longer == Append(entries, [q |-> q, step |-> 1, left |-> InitLeft(q, 1), done |-> FALSE])
           IN  CleanLog(longer) /\ Keeps(entries, longer)
<1> DEFINE new == [q |-> q, step |-> 1, left |-> InitLeft(q, 1), done |-> FALSE]
           longer == Append(entries, new)
<1>1. Steps[q] # <<>> /\ Steps[q] \in Seq([kind : Kinds, count : Nat])
  BY QuestAssumption DEF QuestsValid
<1>2. 1 \in 1..Len(Steps[q])
  BY <1>1
<1>3. new \in Entry /\ InRange(new)
  BY <1>2, InitLeftIsNat DEF Entry, InRange
<1>4. entries \in Seq(Entry) /\ new.q = q
  BY DEF CleanLog
<1> HIDE DEF new
<1>5. /\ longer \in Seq(Entry) /\ DOMAIN entries = 1..Len(entries)
      /\ DOMAIN longer = 1..(Len(entries) + 1) /\ Len(entries) \in Nat
      /\ longer[Len(entries) + 1] = new
      /\ \A i \in DOMAIN entries : longer[i] = entries[i]
  BY <1>3, <1>4
<1> HIDE DEF longer
<1>6. CleanLog(longer)
  BY <1>3, <1>4, <1>5 DEF CleanLog
<1>7. Keeps(entries, longer)
  BY <1>5 DEF Keeps
<1> QED BY <1>6, <1>7 DEF longer, new

\* An entry that is not completed may be replaced by one of the same quest.
LEMMA ReplacedClean ==
    ASSUME NEW entries, CleanLog(entries), NEW i \in DOMAIN entries, ~entries[i].done,
           NEW e \in Entry, InRange(e), e.q = entries[i].q
    PROVE  CleanLog([entries EXCEPT ![i] = e]) /\ Keeps(entries, [entries EXCEPT ![i] = e])
<1> DEFINE other == [entries EXCEPT ![i] = e]
<1>1. /\ other \in Seq(Entry) /\ DOMAIN other = DOMAIN entries
      /\ other[i] = e /\ \A k \in DOMAIN entries : k # i => other[k] = entries[k]
  BY DEF CleanLog
<1> HIDE DEF other
<1>2. CleanLog(other)
  BY <1>1 DEF CleanLog
<1>3. Keeps(entries, other)
  BY <1>1 DEF Keeps
<1> QED BY <1>2, <1>3 DEF other

LEMMA AdvancedIsEntry ==
    ASSUME NEW e \in Entry, InRange(e)
    PROVE  Advanced(e) \in Entry /\ InRange(Advanced(e)) /\ Advanced(e).q = e.q
           /\ (LastStep(e) => Advanced(e).done)
<1>1. CASE LastStep(e)
  BY <1>1 DEF Advanced, Entry, InRange
<1>2. CASE ~LastStep(e)
  <2>1. e.q \in Quests /\ e.step \in Nat
    BY DEF Entry
  <2>2. Len(Steps[e.q]) \in Nat
    BY <2>1, QuestAssumption DEF QuestsValid
  <2>3. e.step + 1 \in 1..Len(Steps[e.q])
    BY <1>2, <2>1, <2>2 DEF InRange, LastStep
  <2>4. InitLeft(e.q, e.step + 1) \in Nat
    BY <2>1, <2>3, InitLeftIsNat
  <2>5. Advanced(e) = [e EXCEPT !.step = @ + 1, !.left = InitLeft(e.q, e.step + 1)]
    BY <1>2 DEF Advanced
  <2>6. Advanced(e) = [q |-> e.q, step |-> e.step + 1, left |-> InitLeft(e.q, e.step + 1), done |-> e.done]
    BY <2>5 DEF Entry
  <2>7. Advanced(e) \in Entry /\ Advanced(e).q = e.q /\ Advanced(e).step = e.step + 1
    <3>1. e.done \in BOOLEAN /\ e.step + 1 \in Nat
      BY <2>1 DEF Entry
    <3> HIDE DEF Advanced
    <3> QED BY <2>1, <2>4, <2>6, <3>1 DEF Entry
  <2> QED BY <1>2, <2>3, <2>7 DEF InRange
<1> QED BY <1>1, <1>2

LEMMA AbandonedClean ==
    ASSUME NEW entries, CleanLog(entries), NEW i \in DOMAIN entries, ~entries[i].done
    PROVE  CleanLog(RemoveAt(entries, i)) /\ Keeps(entries, RemoveAt(entries, i))
<1> DEFINE less == RemoveAt(entries, i)
<1>1. entries \in Seq(Entry) /\ i \in 1..Len(entries) /\ Len(entries) \in Nat
      /\ DOMAIN entries = 1..Len(entries)
  BY DEF CleanLog
<1>2. /\ less \in Seq(Entry) /\ Len(less) = Len(entries) - 1
      /\ DOMAIN less = 1..(Len(entries) - 1)
      /\ \A k \in 1..(Len(entries) - 1) : less[k] = IF k < i THEN entries[k] ELSE entries[k + 1]
  <2>1. Len(less) = Len(entries) - 1 /\ less \in Seq(Entry)
    BY <1>1, WithoutOne
  <2>2. \A k \in 1..(Len(entries) - 1) : less[k] = IF k < i THEN entries[k] ELSE entries[k + 1]
    BY <1>1, WithoutOne
  <2> HIDE DEF less
  <2> QED BY <1>1, <2>1, <2>2
<1> HIDE DEF less
<1>3. CleanLog(less)
  <2> DEFINE at(k) == IF k < i THEN k ELSE k + 1
  <2>1. \A k \in DOMAIN less : at(k) \in DOMAIN entries /\ less[k] = entries[at(k)]
    BY <1>1, <1>2
  <2>2. \A j, k \in DOMAIN less : at(j) = at(k) => j = k
    BY <1>1, <1>2
  <2> HIDE DEF at
  <2> QED BY <1>2, <2>1, <2>2 DEF CleanLog
<1>4. ASSUME NEW k \in DOMAIN entries, entries[k].done PROVE \E j \in DOMAIN less : less[j] = entries[k]
  <2>1. k # i
    BY <1>4
  <2>2. CASE k < i
    BY <1>1, <1>2, <2>2
  <2>3. CASE k > i
    <3>1. k - 1 \in DOMAIN less /\ less[k - 1] = entries[k]
      BY <1>1, <1>2, <2>3
    <3> QED BY <3>1
  <2> QED BY <1>1, <2>1, <2>2, <2>3
<1> QED BY <1>3, <1>4 DEF Keeps, less
-----------------------------------------------------------------------------
(* The handlers *)

\* Whoever is under way is at work on the character and carries a sound log.
JobsSound ==
    \A p \in Procs :
       /\ pc[p] = "log" => CleanLog(job[p].log)
       /\ pc[p] = "reward" => job[p].quest \in Quests
       /\ pc[p] # "idle" => p \in team

LogInv == QuestTypeOK /\ team \in Teams /\ CleanLog(log) /\ JobsSound

\* What a handler that nobody disturbs has read is still so.
UpToDate(p) ==
    /\ pc[p] = "log" => Keeps(log, job[p].log)
    /\ pc[p] \in {"log", "reward", "xp"} => job[p].xp = xp
    /\ pc[p] = "log" /\ job[p].quest # NoQuest
         => rewarded[job[p].quest] = 0 /\ Closed(job[p].log, job[p].quest)
    /\ pc[p] = "reward" => rewarded[job[p].quest] = 0 /\ Closed(log, job[p].quest)
    /\ pc[p] = "xp" => job[p].gain - job[p].delta = Award
    /\ pc[p] \in {"xp", "debt"} => job[p].debt = debt + job[p].delta

\* A reward that was paid is one of a quest the log has as completed.
Paid(q) == rewarded[q] <= 1 /\ (rewarded[q] = 1 => Closed(log, q))

LedgerInv ==
    /\ xp = earned /\ debt = owed
    /\ \A q \in Quests : Paid(q)
    /\ \A p \in Procs : UpToDate(p)

QuestInvariant == LogInv /\ (Serialized => LedgerInv)

\* What the six handlers of the log have in common: read, compute, remember.
Reads(p, newLog, quest) ==
    /\ WillRecord(p, newLog, quest)
    /\ CleanLog(newLog) /\ Keeps(log, newLog) /\ quest \in Quests \cup {NoQuest}
    /\ quest # NoQuest => Closed(newLog, quest) /\ ~Closed(log, quest)
SomeRead(p) == \E newLog, quest : Reads(p, newLog, quest)

LEMMA AdvanceReads ==
    ASSUME LogInv, NEW p \in team, NEW i \in DOMAIN log, ~log[i].done, AdvanceStep(p, i)
    PROVE  SomeRead(p)
<1> DEFINE newLog == [log EXCEPT ![i] = Advanced(log[i])]
           quest == IF LastStep(log[i]) THEN log[i].q ELSE NoQuest
<1>1. CleanLog(log) /\ log \in Seq(Entry)
  BY DEF LogInv, CleanLog
<1>2. log[i] \in Entry /\ InRange(log[i])
  BY <1>1 DEF CleanLog
<1>2q. log[i].q \in Quests
  BY <1>2 DEF Entry
<1>3. /\ Advanced(log[i]) \in Entry /\ InRange(Advanced(log[i]))
      /\ Advanced(log[i]).q = log[i].q /\ (LastStep(log[i]) => Advanced(log[i]).done)
  BY <1>2, AdvancedIsEntry
<1>4. CleanLog(newLog) /\ Keeps(log, newLog)
  BY <1>1, <1>3, ReplacedClean
<1>5. DOMAIN newLog = DOMAIN log /\ newLog[i] = Advanced(log[i])
  OBVIOUS
<1>6. ASSUME LastStep(log[i]) PROVE Closed(newLog, log[i].q) /\ ~Closed(log, log[i].q)
  <2>1. Closed(newLog, log[i].q)
    BY <1>3, <1>5, <1>6 DEF Closed
  <2>2. ~Closed(log, log[i].q)
    BY <1>1 DEF Closed, CleanLog
  <2> QED BY <2>1, <2>2
<1>7. WillRecord(p, newLog, quest)
  BY DEF AdvanceStep
<1> HIDE DEF newLog
<1>8. Reads(p, newLog, quest)
  BY <1>2q, <1>4, <1>6, <1>7 DEF Reads
<1> QED BY <1>8 DEF SomeRead

LEMMA HandlersRead ==
    ASSUME LogInv, NEW p \in team, NEW q \in Quests,
           \/ AcceptQuest(p, q) \/ AdvanceScript(p, q) \/ AdvanceTalkTo(p, q) \/ AbandonQuest(p, q)
           \/ HandleEnter(p) \/ HandleKill(p)
    PROVE  SomeRead(p)
<1>1. CleanLog(log) /\ log \in Seq(Entry)
  BY DEF LogInv, CleanLog
<1>2. CASE AcceptQuest(p, q)
  <2> DEFINE longer == Append(log, [q |-> q, step |-> 1, left |-> InitLeft(q, 1), done |-> FALSE])
  <2>1. WillRecord(p, longer, NoQuest) /\ \A i \in DOMAIN log : log[i].q # q
    BY <1>2 DEF AcceptQuest
  <2>2. CleanLog(longer) /\ Keeps(log, longer)
    BY <1>1, <2>1, AcceptedClean
  <2> HIDE DEF longer
  <2>3. Reads(p, longer, NoQuest)
    BY <2>1, <2>2 DEF Reads
  <2> QED BY <2>3 DEF SomeRead
<1>3. CASE AdvanceScript(p, q) \/ AdvanceTalkTo(p, q)
  <2>1. FindActive(q) # 0 /\ AdvanceStep(p, FindActive(q))
    BY <1>3 DEF AdvanceScript, AdvanceTalkTo
  <2> QED BY <1>1, <2>1, ActiveIsThere, AdvanceReads
<1>4. CASE AbandonQuest(p, q)
  <2> DEFINE less == RemoveAt(log, FindActive(q))
  <2>1. FindActive(q) # 0 /\ WillRecord(p, less, NoQuest)
    BY <1>4 DEF AbandonQuest
  <2>2. CleanLog(less) /\ Keeps(log, less)
    BY <1>1, <2>1, ActiveIsThere, AbandonedClean
  <2> HIDE DEF less
  <2>3. Reads(p, less, NoQuest)
    BY <2>1, <2>2 DEF Reads
  <2> QED BY <2>3 DEF SomeRead
<1>5. CASE HandleEnter(p)
  <2>1. FindStep("reach_room") # 0 /\ AdvanceStep(p, FindStep("reach_room"))
    BY <1>5 DEF HandleEnter
  <2> QED BY <1>1, <2>1, StepIsThere, AdvanceReads
<1>6. CASE HandleKill(p)
  <2> DEFINE i == FindStep("kill_n")
             fewer == [log[i] EXCEPT !.left = @ - 1]
             newLog == [log EXCEPT ![i] = fewer]
  <2>1. i # 0
    BY <1>6 DEF HandleKill
  <2>2. i \in DOMAIN log /\ ~log[i].done
    BY <1>1, <2>1, StepIsThere
  <2>3. CASE log[i].left <= 1
    <3>1. AdvanceStep(p, i)
      BY <1>6, <2>3 DEF HandleKill
    <3> QED BY <2>2, <3>1, AdvanceReads
  <2>4. CASE ~(log[i].left <= 1)
    <3>1. WillRecord(p, newLog, NoQuest)
      BY <1>6, <2>4 DEF HandleKill
    <3> HIDE DEF i
    <3>2. log[i] \in Entry /\ InRange(log[i])
      BY <1>1, <2>2 DEF CleanLog
    <3>3. fewer \in Entry /\ InRange(fewer) /\ fewer.q = log[i].q
      BY <2>4, <3>2 DEF Entry, InRange
    <3>4. CleanLog(newLog) /\ Keeps(log, newLog)
      BY <1>1, <2>2, <3>3, ReplacedClean
    <3> HIDE DEF newLog
    <3>5. Reads(p, newLog, NoQuest)
      BY <3>1, <3>4 DEF Reads
    <3> QED BY <3>5 DEF SomeRead
  <2> QED BY <2>3, <2>4
<1> QED BY <1>2, <1>3, <1>4, <1>5, <1>6

\* Every step is one of the goroutines at work, or a crash.
LEMMA QuestSteps ==
    ASSUME LogInv, QuestNext
    PROVE  \/ \E p \in team :
                 \/ SomeRead(p) \/ CreditXPShare(p) \/ CharacterDeath(p) \/ RecordQuestProgress(p)
                 \/ GrantRewards(p) \/ RecordXP(p) \/ RecordXPDebt(p) \/ WriteFails(p)
           \/ Crash
<1>1. ASSUME NEW p \in team, NEW q \in Quests,
             AcceptQuest(p, q) \/ AdvanceScript(p, q) \/ AdvanceTalkTo(p, q) \/ AbandonQuest(p, q)
      PROVE  SomeRead(p)
  BY <1>1, HandlersRead
<1>2. ASSUME NEW p \in team, HandleEnter(p) \/ HandleKill(p) PROVE SomeRead(p)
  <2>1. CleanLog(log) /\ log \in Seq(Entry)
    BY DEF LogInv, CleanLog
  <2>2. PICK kind \in {"reach_room", "kill_n"} : FindStep(kind) # 0
    BY <1>2 DEF HandleEnter, HandleKill
  <2>3. FindStep(kind) \in DOMAIN log
    BY <2>1, <2>2, StepIsThere
  <2>4. log[FindStep(kind)].q \in Quests
    <3>1. log[FindStep(kind)] \in Entry
      BY <2>1, <2>3
    <3> QED BY <3>1 DEF Entry
  <2> QED BY <1>2, <2>4, HandlersRead
<1> QED BY <1>1, <1>2 DEF QuestNext

\* What a handler of the ledger takes with it.
LEMMA LedgerJob ==
    ASSUME NEW x \in Nat, NEW g \in Nat, NEW d \in Nat, NEW l \in Int
    PROVE  /\ [NoJob EXCEPT !.xp = x, !.gain = g, !.debt = d, !.delta = l] \in Job
           /\ [NoJob EXCEPT !.debt = d, !.delta = l] \in Job
<1>1. <<>> \in Seq(Entry)
  OBVIOUS
<1> QED BY <1>1 DEF NoJob, Job

LEMMA NoJobIsJob == NoJob \in Job
<1>1. <<>> \in Seq(Entry)
  OBVIOUS
<1> QED BY <1>1 DEF NoJob, Job

\* A handler that ends leaves the others where they are.
LEMMA EndsClean ==
    ASSUME QuestTypeOK, NEW p \in Procs, HandlerEnds(p)
    PROVE  /\ pc' \in [Procs -> PC] /\ job' \in [Procs -> Job]
           /\ pc'[p] = "idle"
           /\ \A r \in Procs : r # p => pc'[r] = pc[r] /\ job'[r] = job[r]
BY NoJobIsJob DEF HandlerEnds, QuestTypeOK, PC

\* A handler that has read remembers what it will write.
LEMMA ReadsClean ==
    ASSUME LogInv, NEW p \in Procs, NEW newLog, NEW quest, Reads(p, newLog, quest)
    PROVE  /\ pc' \in [Procs -> PC] /\ job' \in [Procs -> Job]
           /\ pc[p] = "idle" /\ pc'[p] = "log" /\ job'[p].log = newLog /\ job'[p].quest = quest
           /\ job'[p].xp = xp
           /\ \A r \in Procs : r # p => pc'[r] = pc[r] /\ job'[r] = job[r]
           /\ UNCHANGED <<log, xp, debt, rewarded, earned, owed, faults, team>>
<1> DEFINE next == [NoJob EXCEPT !.log = newLog, !.quest = quest, !.xp = xp]
<1>1. newLog \in Seq(Entry) /\ quest \in Quests \cup {NoQuest} /\ xp \in Nat
  BY DEF Reads, CleanLog, LogInv, QuestTypeOK
<1>2. next \in Job /\ next.log = newLog /\ next.quest = quest /\ next.xp = xp
  BY <1>1, NoJobIsJob DEF Job, NoJob
<1>3. job' = [job EXCEPT ![p] = next] /\ pc' = [pc EXCEPT ![p] = "log"] /\ pc[p] = "idle"
  BY DEF Reads, WillRecord
<1>4. UNCHANGED <<log, xp, debt, rewarded, earned, owed, faults, team>>
  BY DEF Reads, WillRecord
<1> HIDE DEF next
<1>5. pc \in [Procs -> PC] /\ job \in [Procs -> Job]
  BY DEF LogInv, QuestTypeOK
<1> QED BY <1>2, <1>3, <1>4, <1>5 DEF PC

\* The log is sound whoever works on it: each handler writes back a sound log,
\* an older one perhaps (RecordQuestProgress).
LEMMA LogInvInductive == LogInv /\ [QuestNext]_questVars => LogInv'
<1> SUFFICES ASSUME LogInv, [QuestNext]_questVars PROVE LogInv'
  OBVIOUS
<1>t. /\ pc \in [Procs -> PC] /\ job \in [Procs -> Job] /\ rewarded \in [Quests -> Nat]
      /\ {xp, debt, earned, faults} \subseteq Nat /\ owed \in Int
      /\ team \in Teams /\ team \subseteq Procs
  BY QuestAssumption DEF LogInv, QuestTypeOK
<1>n. {RewardXP, Award, DeathDelta} \subseteq Nat
  BY QuestAssumption
<1>c. CleanLog(log)
  BY DEF LogInv
\* What is left to show when the log is unchanged and one goroutine has moved.
<1>u. ASSUME NEW p \in team, log' = log, team' = team,
             pc' \in [Procs -> PC], job' \in [Procs -> Job], rewarded' \in [Quests -> Nat],
             {xp', debt', earned', faults'} \subseteq Nat, owed' \in Int,
             pc'[p] = "log" => CleanLog(job'[p].log),
             pc'[p] = "reward" => job'[p].quest \in Quests,
             \A r \in Procs : r # p => pc'[r] = pc[r] /\ job'[r] = job[r]
      PROVE  LogInv'
  <2>1. QuestTypeOK'
    BY <1>u, <1>c DEF QuestTypeOK, CleanLog, InRange
  <2>2. CleanLog(log)'
    BY <1>u, <1>c DEF CleanLog, InRange
  <2>3. ASSUME NEW r \in Procs
        PROVE  /\ pc'[r] = "log" => CleanLog(job'[r].log)
               /\ pc'[r] = "reward" => job'[r].quest \in Quests
               /\ pc'[r] # "idle" => r \in team'
    BY <1>u DEF LogInv, JobsSound
  <2>4. JobsSound'
    BY <2>3 DEF JobsSound, CleanLog, InRange
  <2> QED BY <1>t, <1>u, <2>1, <2>2, <2>4 DEF LogInv
<1>1. CASE UNCHANGED questVars
  BY <1>1 DEF questVars, LogInv, QuestTypeOK, JobsSound, CleanLog, InRange
<1>2. ASSUME NEW p \in team, SomeRead(p) PROVE LogInv'
  <2>1. PICK newLog, quest : Reads(p, newLog, quest)
    BY <1>2 DEF SomeRead
  <2>2. CleanLog(newLog)
    BY <2>1 DEF Reads
  <2> QED BY <1>t, <1>u, <2>1, <2>2, ReadsClean
<1>3. ASSUME NEW p \in team, CreditXPShare(p) PROVE LogInv'
  <2> DEFINE a == ApplyXPAward(Award, debt)
             next == [NoJob EXCEPT !.xp = xp, !.gain = a.gain, !.debt = a.debt, !.delta = a.debt - debt]
  <2>1. a.gain \in Nat /\ a.debt \in Nat
    BY <1>t, <1>n DEF ApplyXPAward
  <2> HIDE DEF a
  <2>2. next \in Job
    <3>1. a.debt - debt \in Int /\ xp \in Nat
      BY <1>t, <2>1
    <3> QED BY <2>1, <3>1, LedgerJob
  <2>3. /\ job' = [job EXCEPT ![p] = next]
        /\ pc' = [pc EXCEPT ![p] = IF a.gain > 0 THEN "xp" ELSE "debt"]
        /\ UNCHANGED <<log, xp, debt, rewarded, earned, owed, faults, team>>
    BY <1>3 DEF CreditXPShare, a
  <2> HIDE DEF next
  <2> QED BY <1>t, <1>u, <2>2, <2>3 DEF PC
<1>4. ASSUME NEW p \in team, CharacterDeath(p) PROVE LogInv'
  <2> DEFINE next == [NoJob EXCEPT !.debt = debt + DeathDelta, !.delta = DeathDelta]
  <2>1. next \in Job
    <3>1. debt + DeathDelta \in Nat /\ DeathDelta \in Int
      BY <1>t, <1>n
    <3> QED BY <3>1, LedgerJob
  <2>2. /\ job' = [job EXCEPT ![p] = next] /\ pc' = [pc EXCEPT ![p] = "debt"]
        /\ UNCHANGED <<log, xp, debt, rewarded, earned, owed, faults, team>>
    BY <1>4 DEF CharacterDeath
  <2> HIDE DEF next
  <2> QED BY <1>t, <1>u, <2>1, <2>2 DEF PC
<1>5. ASSUME NEW p \in team, RecordQuestProgress(p) PROVE LogInv'
  <2>1. pc[p] = "log" /\ log' = job[p].log /\ UNCHANGED <<xp, debt, rewarded, earned, owed, faults, team>>
    BY <1>5 DEF RecordQuestProgress
  <2>2. CleanLog(log')
    BY <1>t, <2>1 DEF LogInv, JobsSound
  <2>3. job[p].quest \in Quests \cup {NoQuest}
    BY <1>t DEF Job
  <2>4. /\ pc' \in [Procs -> PC] /\ job' \in [Procs -> Job]
        /\ pc'[p] # "log" /\ (pc'[p] = "reward" => job'[p].quest \in Quests)
        /\ \A r \in Procs : r # p => pc'[r] = pc[r] /\ job'[r] = job[r]
    <3>1. CASE job[p].quest = NoQuest
      <4>1. HandlerEnds(p)
        BY <1>5, <3>1 DEF RecordQuestProgress
      <4> QED BY <1>t, <4>1, EndsClean DEF LogInv
    <3>2. CASE job[p].quest # NoQuest
      <4>1. pc' = [pc EXCEPT ![p] = "reward"] /\ job' = job
        BY <1>5, <3>2 DEF RecordQuestProgress
      <4> QED BY <1>t, <2>3, <3>2, <4>1 DEF PC
    <3> QED BY <3>1, <3>2
  <2>5. QuestTypeOK'
    BY <1>t, <2>1, <2>2, <2>4 DEF QuestTypeOK, CleanLog, InRange
  <2>6. ASSUME NEW r \in Procs
        PROVE  /\ pc'[r] = "log" => CleanLog(job'[r].log)
               /\ pc'[r] = "reward" => job'[r].quest \in Quests
               /\ pc'[r] # "idle" => r \in team
    BY <2>4 DEF LogInv, JobsSound
  <2>7. JobsSound'
    BY <2>1, <2>6 DEF JobsSound, CleanLog, InRange
  <2>8. CleanLog(log)'
    BY <2>2 DEF CleanLog, InRange
  <2> QED BY <1>t, <2>1, <2>5, <2>7, <2>8 DEF LogInv
<1>6. ASSUME NEW p \in team, GrantRewards(p) PROVE LogInv'
  <2>1. job[p].xp \in Nat /\ job[p].quest \in Quests
    BY <1>t, <1>6 DEF Job, GrantRewards, LogInv, JobsSound
  <2>2. /\ xp' = job[p].xp + RewardXP /\ earned' = earned + RewardXP
        /\ rewarded' = [rewarded EXCEPT ![job[p].quest] = @ + 1]
        /\ HandlerEnds(p) /\ UNCHANGED <<log, debt, owed, faults, team>>
    BY <1>6 DEF GrantRewards
  <2>3. rewarded' \in [Quests -> Nat] /\ xp' \in Nat /\ earned' \in Nat
    BY <1>t, <1>n, <2>1, <2>2
  <2>4. /\ pc' \in [Procs -> PC] /\ job' \in [Procs -> Job] /\ pc'[p] = "idle"
        /\ \A r \in Procs : r # p => pc'[r] = pc[r] /\ job'[r] = job[r]
    BY <1>t, <2>2, EndsClean DEF LogInv
  <2> QED BY <1>t, <1>u, <2>2, <2>3, <2>4
<1>7. ASSUME NEW p \in team, RecordXP(p) PROVE LogInv'
  <2>1. job[p].xp \in Nat /\ job[p].gain \in Nat
    BY <1>t DEF Job
  <2>2. /\ xp' = job[p].xp + job[p].gain /\ earned' = earned + job[p].gain
        /\ UNCHANGED <<log, debt, rewarded, owed, faults, team>>
    BY <1>7 DEF RecordXP
  <2>3. /\ pc' \in [Procs -> PC] /\ job' \in [Procs -> Job] /\ pc'[p] \notin {"log", "reward"}
        /\ \A r \in Procs : r # p => pc'[r] = pc[r] /\ job'[r] = job[r]
    <3>1. CASE job[p].delta # 0
      <4>1. pc' = [pc EXCEPT ![p] = "debt"] /\ job' = job
        BY <1>7, <3>1 DEF RecordXP
      <4> QED BY <1>t, <4>1 DEF PC
    <3>2. CASE job[p].delta = 0
      <4>1. HandlerEnds(p)
        BY <1>7, <3>2 DEF RecordXP
      <4> QED BY <1>t, <4>1, EndsClean DEF LogInv
    <3> QED BY <3>1, <3>2
  <2>4. xp' \in Nat /\ earned' \in Nat
    BY <1>t, <2>1, <2>2
  <2> QED BY <1>t, <1>u, <2>2, <2>3, <2>4
<1>8. ASSUME NEW p \in team, RecordXPDebt(p) PROVE LogInv'
  <2>1. job[p].debt \in Nat /\ job[p].delta \in Int
    BY <1>t DEF Job
  <2>2. /\ debt' = job[p].debt /\ owed' = owed + job[p].delta
        /\ HandlerEnds(p) /\ UNCHANGED <<log, xp, rewarded, earned, faults, team>>
    BY <1>8 DEF RecordXPDebt
  <2>3. /\ pc' \in [Procs -> PC] /\ job' \in [Procs -> Job] /\ pc'[p] = "idle"
        /\ \A r \in Procs : r # p => pc'[r] = pc[r] /\ job'[r] = job[r]
    BY <1>t, <2>2, EndsClean DEF LogInv
  <2>4. debt' \in Nat /\ owed' \in Int
    BY <1>t, <2>1, <2>2
  <2> QED BY <1>t, <1>u, <2>2, <2>3, <2>4
<1>9. ASSUME NEW p \in team, WriteFails(p) PROVE LogInv'
  <2>1. faults' \in Nat /\ HandlerEnds(p) /\ UNCHANGED <<log, xp, debt, rewarded, earned, owed, team>>
    BY <1>t, <1>9 DEF WriteFails, Fault
  <2>2. /\ pc' \in [Procs -> PC] /\ job' \in [Procs -> Job] /\ pc'[p] = "idle"
        /\ \A r \in Procs : r # p => pc'[r] = pc[r] /\ job'[r] = job[r]
    BY <1>t, <2>1, EndsClean DEF LogInv
  <2> QED BY <1>t, <1>u, <2>1, <2>2
<1>10. CASE Crash
  <2>1. /\ pc' = [p \in Procs |-> "idle"] /\ job' = [p \in Procs |-> NoJob] /\ faults' \in Nat
        /\ UNCHANGED <<log, xp, debt, rewarded, earned, owed, team>>
    BY <1>t, <1>10 DEF Crash, Fault
  <2>2. pc' \in [Procs -> PC] /\ job' \in [Procs -> Job]
    BY <2>1, NoJobIsJob DEF PC
  <2>3. QuestTypeOK'
    BY <1>t, <1>c, <2>1, <2>2 DEF QuestTypeOK, CleanLog, InRange
  <2>4. CleanLog(log)' /\ JobsSound'
    BY <1>c, <2>1 DEF JobsSound, CleanLog, InRange
  <2> QED BY <1>t, <2>1, <2>3, <2>4 DEF LogInv
<1> QED BY <1>1, <1>2, <1>3, <1>4, <1>5, <1>6, <1>7, <1>8, <1>9, <1>10, QuestSteps

\* Alone at work, a goroutine finds everybody else idle.
LEMMA OthersIdle ==
    ASSUME LogInv, Serialized, NEW p \in team
    PROVE  \A r \in Procs : r # p => pc[r] = "idle"
BY DEF LogInv, JobsSound, Serialized

\* Entries that stay keep a quest closed.
LEMMA ClosedStays ==
    ASSUME NEW before, NEW after, Keeps(before, after), NEW q, Closed(before, q)
    PROVE  Closed(after, q)
BY DEF Keeps, Closed

\* What is left to show of the ledger when one goroutine moves.
LEMMA LedgerStep ==
    ASSUME LogInv, Serialized, LedgerInv, NEW p \in team,
           xp' = earned', debt' = owed', \A q \in Quests : Paid(q)', UpToDate(p)',
           \A r \in Procs : r # p => pc'[r] = pc[r]
    PROVE  LedgerInv'
<1>1. ASSUME NEW r \in Procs, r # p PROVE UpToDate(r)'
  <2>1. pc'[r] = "idle"
    BY <1>1, OthersIdle
  <2> QED BY <2>1 DEF UpToDate
<1> QED BY <1>1 DEF LedgerInv

\* Alone at work, what a handler has read is still so when it writes.
LEMMA LedgerInductive ==
    LogInv /\ Serialized /\ LedgerInv /\ [QuestNext]_questVars => LedgerInv' /\ Keeps(log, log')
<1> SUFFICES ASSUME LogInv, Serialized, LedgerInv, [QuestNext]_questVars
             PROVE  LedgerInv' /\ Keeps(log, log')
  OBVIOUS
<1>t. /\ pc \in [Procs -> PC] /\ job \in [Procs -> Job] /\ rewarded \in [Quests -> Nat]
      /\ xp \in Nat /\ debt \in Nat /\ earned \in Nat /\ owed \in Int
      /\ team \subseteq Procs /\ QuestTypeOK
  BY QuestAssumption DEF LogInv, QuestTypeOK
<1>n. {RewardXP, Award, DeathDelta} \subseteq Nat \ {0}
  BY QuestAssumption
<1>l. xp = earned /\ debt = owed /\ \A q \in Quests : Paid(q)
  BY DEF LedgerInv
<1>k. log' = log => Keeps(log, log')
  BY DEF Keeps
<1>p. ASSUME log' = log, rewarded' = rewarded PROVE \A q \in Quests : Paid(q)'
  BY <1>l, <1>p DEF Paid, Closed
<1>1. CASE UNCHANGED questVars
  BY <1>1, <1>k DEF questVars, LedgerInv, Paid, UpToDate, Closed, Keeps
<1>2. ASSUME NEW p \in team, SomeRead(p) PROVE LedgerInv' /\ Keeps(log, log')
  <2>1. PICK newLog, quest : Reads(p, newLog, quest)
    BY <1>2 DEF SomeRead
  <2>2. /\ pc'[p] = "log" /\ job'[p].log = newLog /\ job'[p].quest = quest /\ job'[p].xp = xp
        /\ \A r \in Procs : r # p => pc'[r] = pc[r]
        /\ UNCHANGED <<log, xp, debt, rewarded, earned, owed, faults, team>>
    BY <1>t, <2>1, ReadsClean
  <2>3. Keeps(log, newLog) /\ quest \in Quests \cup {NoQuest}
        /\ (quest # NoQuest => Closed(newLog, quest) /\ ~Closed(log, quest))
    BY <2>1 DEF Reads
  <2>4. quest # NoQuest => rewarded[quest] = 0
    BY <1>t, <1>l, <2>3 DEF Paid
  <2>5. UpToDate(p)'
    BY <2>2, <2>3, <2>4 DEF UpToDate, Keeps, Closed
  <2> QED BY <1>k, <1>l, <1>p, <2>2, <2>5, LedgerStep
<1>3. ASSUME NEW p \in team, CreditXPShare(p) PROVE LedgerInv' /\ Keeps(log, log')
  <2> DEFINE a == ApplyXPAward(Award, debt)
             next == [NoJob EXCEPT !.xp = xp, !.gain = a.gain, !.debt = a.debt, !.delta = a.debt - debt]
  <2>1. a.gain \in Nat /\ a.debt \in Nat /\ (a.gain > 0 => a.gain - (a.debt - debt) = Award)
    BY <1>t, <1>n DEF ApplyXPAward
  <2>2. /\ job' = [job EXCEPT ![p] = next]
        /\ pc' = [pc EXCEPT ![p] = IF a.gain > 0 THEN "xp" ELSE "debt"]
        /\ UNCHANGED <<log, xp, debt, rewarded, earned, owed, faults, team>>
    BY <1>3 DEF CreditXPShare
  <2> HIDE DEF a
  <2>3. next.xp = xp /\ next.gain = a.gain /\ next.debt = a.debt /\ next.delta = a.debt - debt
    BY DEF NoJob
  <2> HIDE DEF next
  <2>4. /\ job'[p] = next /\ pc'[p] = IF a.gain > 0 THEN "xp" ELSE "debt"
        /\ \A r \in Procs : r # p => pc'[r] = pc[r]
    BY <1>t, <2>2
  <2>5. UpToDate(p)'
    BY <1>t, <2>1, <2>2, <2>3, <2>4 DEF UpToDate
  <2> QED BY <1>k, <1>l, <1>p, <2>2, <2>4, <2>5, LedgerStep
<1>4. ASSUME NEW p \in team, CharacterDeath(p) PROVE LedgerInv' /\ Keeps(log, log')
  <2> DEFINE next == [NoJob EXCEPT !.debt = debt + DeathDelta, !.delta = DeathDelta]
  <2>1. next.debt = debt + next.delta
    BY DEF NoJob
  <2>2. /\ job' = [job EXCEPT ![p] = next] /\ pc' = [pc EXCEPT ![p] = "debt"]
        /\ UNCHANGED <<log, xp, debt, rewarded, earned, owed, faults, team>>
    BY <1>4 DEF CharacterDeath
  <2> HIDE DEF next
  <2>3. job'[p] = next /\ pc'[p] = "debt" /\ \A r \in Procs : r # p => pc'[r] = pc[r]
    BY <1>t, <2>2
  <2>4. UpToDate(p)'
    BY <2>1, <2>2, <2>3 DEF UpToDate
  <2> QED BY <1>k, <1>l, <1>p, <2>2, <2>3, <2>4, LedgerStep
<1>5. ASSUME NEW p \in team, RecordQuestProgress(p) PROVE LedgerInv' /\ Keeps(log, log')
  <2>1. pc[p] = "log" /\ log' = job[p].log /\ UNCHANGED <<xp, debt, rewarded, earned, owed, faults, team>>
    BY <1>5 DEF RecordQuestProgress
  <2>2. UpToDate(p)
    BY <1>t DEF LedgerInv
  <2>3. Keeps(log, log') /\ job[p].xp = xp
        /\ (job[p].quest # NoQuest => rewarded[job[p].quest] = 0 /\ Closed(log', job[p].quest))
    BY <2>1, <2>2 DEF UpToDate
  <2>4. \A q \in Quests : Paid(q)'
    <3>1. ASSUME NEW q \in Quests, Closed(log, q) PROVE Closed(log', q)
      BY <2>3, <3>1, ClosedStays
    <3>2. ASSUME NEW q \in Quests
          PROVE  rewarded'[q] <= 1 /\ (rewarded'[q] = 1 => Closed(log', q))
      BY <1>l, <2>1, <3>1 DEF Paid
    <3> QED BY <3>2 DEF Paid, Closed
  <2>5. UpToDate(p)' /\ \A r \in Procs : r # p => pc'[r] = pc[r]
    <3>1. CASE job[p].quest = NoQuest
      <4>1. HandlerEnds(p)
        BY <1>5, <3>1 DEF RecordQuestProgress
      <4>2. pc'[p] = "idle" /\ \A r \in Procs : r # p => pc'[r] = pc[r]
        BY <1>t, <4>1, EndsClean
      <4> QED BY <4>2 DEF UpToDate
    <3>2. CASE job[p].quest # NoQuest
      <4>1. pc' = [pc EXCEPT ![p] = "reward"] /\ job' = job
        BY <1>5, <3>2 DEF RecordQuestProgress
      <4>2. pc'[p] = "reward" /\ \A r \in Procs : r # p => pc'[r] = pc[r]
        BY <1>t, <4>1
      <4>3. Closed(log', job'[p].quest) /\ rewarded'[job'[p].quest] = 0 /\ job'[p].xp = xp'
        BY <2>1, <2>3, <3>2, <4>1
      <4> QED BY <4>2, <4>3 DEF UpToDate, Closed
    <3> QED BY <3>1, <3>2
  <2> QED BY <1>l, <2>1, <2>3, <2>4, <2>5, LedgerStep
<1>6. ASSUME NEW p \in team, GrantRewards(p) PROVE LedgerInv' /\ Keeps(log, log')
  <2>1. /\ pc[p] = "reward" /\ xp' = job[p].xp + RewardXP /\ earned' = earned + RewardXP
        /\ rewarded' = [rewarded EXCEPT ![job[p].quest] = @ + 1]
        /\ HandlerEnds(p) /\ UNCHANGED <<log, debt, owed, faults, team>>
    BY <1>6 DEF GrantRewards
  <2>2. /\ job[p].quest \in Quests /\ rewarded[job[p].quest] = 0
        /\ Closed(log, job[p].quest) /\ job[p].xp = xp
    BY <1>t, <2>1 DEF LedgerInv, UpToDate, LogInv, JobsSound
  <2>3. xp' = earned'
    BY <1>l, <2>1, <2>2
  <2>4. \A q \in Quests : Paid(q)'
    <3>1. ASSUME NEW q \in Quests
          PROVE  rewarded'[q] <= 1 /\ (rewarded'[q] = 1 => Closed(log, q))
      <4>1. CASE q = job[p].quest
        BY <1>t, <2>1, <2>2, <4>1
      <4>2. CASE q # job[p].quest
        BY <1>t, <1>l, <2>1, <4>2 DEF Paid
      <4> QED BY <4>1, <4>2
    <3> QED BY <2>1, <3>1 DEF Paid, Closed
  <2>5. pc'[p] = "idle" /\ \A r \in Procs : r # p => pc'[r] = pc[r]
    BY <1>t, <2>1, EndsClean
  <2>6. UpToDate(p)'
    BY <2>5 DEF UpToDate
  <2> QED BY <1>k, <1>l, <2>1, <2>3, <2>4, <2>5, <2>6, LedgerStep
<1>7. ASSUME NEW p \in team, RecordXP(p) PROVE LedgerInv' /\ Keeps(log, log')
  <2>1. /\ pc[p] = "xp" /\ xp' = job[p].xp + job[p].gain /\ earned' = earned + job[p].gain
        /\ UNCHANGED <<log, debt, rewarded, owed, faults, team>>
    BY <1>7 DEF RecordXP
  <2>2. job[p].xp = xp /\ job[p].debt = debt + job[p].delta
    BY <1>t, <2>1 DEF LedgerInv, UpToDate
  <2>3. UpToDate(p)' /\ \A r \in Procs : r # p => pc'[r] = pc[r]
    <3>1. CASE job[p].delta # 0
      <4>1. pc' = [pc EXCEPT ![p] = "debt"] /\ job' = job
        BY <1>7, <3>1 DEF RecordXP
      <4>2. pc'[p] = "debt" /\ \A r \in Procs : r # p => pc'[r] = pc[r]
        BY <1>t, <4>1
      <4>3. job'[p].debt = debt' + job'[p].delta
        BY <2>1, <2>2, <4>1
      <4> QED BY <4>2, <4>3 DEF UpToDate
    <3>2. CASE job[p].delta = 0
      <4>1. HandlerEnds(p)
        BY <1>7, <3>2 DEF RecordXP
      <4>2. pc'[p] = "idle" /\ \A r \in Procs : r # p => pc'[r] = pc[r]
        BY <1>t, <4>1, EndsClean
      <4> QED BY <4>2 DEF UpToDate
    <3> QED BY <3>1, <3>2
  <2> QED BY <1>k, <1>l, <1>p, <2>1, <2>2, <2>3, LedgerStep
<1>8. ASSUME NEW p \in team, RecordXPDebt(p) PROVE LedgerInv' /\ Keeps(log, log')
  <2>1. /\ pc[p] = "debt" /\ debt' = job[p].debt /\ owed' = owed + job[p].delta
        /\ HandlerEnds(p) /\ UNCHANGED <<log, xp, rewarded, earned, faults, team>>
    BY <1>8 DEF RecordXPDebt
  <2>2. job[p].debt = debt + job[p].delta
    BY <1>t, <2>1 DEF LedgerInv, UpToDate
  <2>3. pc'[p] = "idle" /\ \A r \in Procs : r # p => pc'[r] = pc[r]
    BY <1>t, <2>1, EndsClean
  <2>4. UpToDate(p)'
    BY <2>3 DEF UpToDate
  <2> QED BY <1>k, <1>l, <1>p, <2>1, <2>2, <2>3, <2>4, LedgerStep
<1>9. ASSUME NEW p \in team, WriteFails(p) PROVE LedgerInv' /\ Keeps(log, log')
  <2>1. HandlerEnds(p) /\ UNCHANGED <<log, xp, debt, rewarded, earned, owed, team>>
    BY <1>9 DEF WriteFails
  <2>2. pc'[p] = "idle" /\ \A r \in Procs : r # p => pc'[r] = pc[r]
    BY <1>t, <2>1, EndsClean
  <2>3. UpToDate(p)'
    BY <2>2 DEF UpToDate
  <2> QED BY <1>k, <1>l, <1>p, <2>1, <2>2, <2>3, LedgerStep
<1>10. CASE Crash
  <2>1. /\ \A p \in Procs : pc'[p] = "idle"
        /\ UNCHANGED <<log, xp, debt, rewarded, earned, owed, team>>
    BY <1>10 DEF Crash
  <2>2. \A p \in Procs : UpToDate(p)'
    BY <2>1 DEF UpToDate
  <2> QED BY <1>k, <1>l, <1>p, <2>1, <2>2 DEF LedgerInv
<1> QED BY <1>1, <1>2, <1>3, <1>4, <1>5, <1>6, <1>7, <1>8, <1>9, <1>10, QuestSteps

LEMMA QuestInvariantInductive ==
    /\ QuestInit => QuestInvariant
    /\ QuestInvariant /\ [QuestNext]_questVars => QuestInvariant'
<1>1. QuestInit => LogInv
  <2> SUFFICES ASSUME QuestInit PROVE LogInv
    OBVIOUS
  <2>1. log = <<>> /\ <<>> \in Seq(Entry) /\ DOMAIN <<>> = {}
    BY DEF QuestInit
  <2>2. CleanLog(log)
    BY <2>1 DEF CleanLog
  <2>3. QuestTypeOK /\ JobsSound /\ team \in Teams
    BY <2>1, NoJobIsJob DEF QuestInit, QuestTypeOK, JobsSound, PC
  <2> QED BY <2>2, <2>3 DEF LogInv
<1>2. QuestInit => LedgerInv
  BY DEF QuestInit, LedgerInv, Paid, UpToDate
<1>3. [QuestNext]_questVars => team' = team
  BY DEF QuestNext, questVars, AcceptQuest, AdvanceScript, AdvanceTalkTo, AbandonQuest, HandleEnter,
         HandleKill, AdvanceStep, WillRecord, CreditXPShare, CharacterDeath, RecordQuestProgress,
         GrantRewards, RecordXP, RecordXPDebt, WriteFails, Crash
<1>4. team' = team => (Serialized' <=> Serialized)
  BY DEF Serialized
<1> QED BY <1>1, <1>2, <1>3, <1>4, LogInvInductive, LedgerInductive DEF QuestInvariant

\* Whoever works on a character, his log is sound; and while one goroutine at a
\* time does, as the comments assume, experience is what was awarded, debt what
\* deaths left less what was paid, and no reward is paid twice - through failed
\* writes, crashes, and quests abandoned and taken again (engine.go, death.go).
THEOREM LedgerAlwaysExact == QuestSpec => []LogAndLedger
<1>1. QuestInvariant => LogAndLedger
  BY DEF QuestInvariant, LogInv, LedgerInv, LogAndLedger, NoDuplicateQuest, LedgerExact, AwardSplit,
         CleanLog, UpToDate, Paid
<1> QED BY <1>1, QuestInvariantInductive, PTL DEF QuestSpec

\* While one goroutine at a time works on a character, a completed quest stays
\* completed (RecordQuestProgress writes back the log it has read).
THEOREM CompletedAlwaysStay == QuestSpec => CompletedForever
<1>1. QuestInvariant /\ [QuestNext]_questVars => [Serialized => CompletedStay]_questVars
  BY LedgerInductive DEF QuestInvariant, CompletedStay, Keeps
<1> QED BY <1>1, QuestInvariantInductive, PTL DEF QuestSpec, CompletedForever
=============================================================================
