------------------------------ MODULE QuestLog ------------------------------
(***************************************************************************)
(* The quest log and the experience columns of one character: the quest    *)
(* engine (internal/quest/engine.go), the experience shares of a kill      *)
(* (creditXPShares) and the experience debt of a death.                    *)
(*                                                                         *)
(* Every handler reads the whole row, computes, and writes back the whole  *)
(* log or a whole column (RecordQuestProgress, RecordXP, RecordXPDebt);    *)
(* none of these columns has a version.  The handlers run on the           *)
(* goroutine that publishes the event or runs the verb: the character's    *)
(* dispatcher, or a pulse.  Reading with the computation is one step,      *)
(* every write is one.  Who works on this character is chosen at the start: *)
(* his dispatcher alone, as the comments assume, or a pulse besides.       *)
(*                                                                         *)
(* There is one mob and one room to kill and to reach, so that every step  *)
(* of the right kind matches.  The coin of a reward is in module Purse.    *)
(***************************************************************************)
EXTENDS Integers, Sequences, SequencesExt, FiniteSets

CONSTANTS
    Dispatchers, Pulses,   \* goroutines that work on this character's row
    Killers,      \* those that resolve combat: pulses, and dispatchers through Lua
    Quests,
    Steps,        \* quest -> sequence of [kind, count], never empty
    RewardXP,     \* Rewards.XP of every quest
    Award,        \* XP share of a kill
    DeathDelta,   \* DeathDebt of a death
    NoQuest,
    Teams,        \* the goroutines that may be at work on him together
    MaxXP, MaxDebt, MaxFaults   \* bounds, by team

Procs == Dispatchers \cup Pulses
Kinds == {"talk_to", "kill_n", "reach_room", "script"}

\* What Validate lets into the catalog, of what the engine reads: a quest has
\* steps of known kinds, and a kill step asks for a kill.
QuestsValid ==
    /\ Steps \in [Quests -> Seq([kind : Kinds, count : Nat])]
    /\ \A q \in Quests :
         /\ Steps[q] # <<>>
         /\ \A i \in DOMAIN Steps[q] : Steps[q][i].kind = "kill_n" => Steps[q][i].count > 0

ASSUME QuestAssumption ==
    /\ QuestsValid /\ Killers \subseteq Procs /\ Teams \subseteq SUBSET Procs
    /\ {RewardXP, Award, DeathDelta} \subseteq Nat \ {0}
    /\ {MaxXP, MaxDebt, MaxFaults} \subseteq [Teams -> Nat]
    /\ NoQuest \notin Quests

VARIABLES
    log,        \* QuestLog: sequence of entries
    xp, debt,   \* the columns XP and XPDebt
    pc, job,    \* goroutine -> the write it does next, and its locals
    rewarded,   \* quest -> how often its reward was paid
    earned,     \* XP every RecordXP was meant to add
    owed,       \* debt every RecordXPDebt was meant to leave
    faults,
    team        \* the goroutines at work on this character

questVars == <<log, xp, debt, pc, job, rewarded, earned, owed, faults, team>>

\* One goroutine at a time works for a character, as the comments assume.
Serialized == \A p, q \in team : p = q

Entry == [q : Quests, step : Nat, left : Nat, done : BOOLEAN]
Job == [log : Seq(Entry), quest : Quests \cup {NoQuest}, xp : Nat, gain : Nat, debt : Nat, delta : Int]
NoJob == [log |-> <<>>, quest |-> NoQuest, xp |-> 0, gain |-> 0, debt |-> 0, delta |-> 0]
PC == {"idle", "log", "reward", "xp", "debt"}

\* An index into the steps of the quest: q.Steps[StepIndex] is not
\* guarded in AdvanceTalkTo and Advance.
InRange(e) == e.step \in 1..Len(Steps[e.q])

QuestTypeOK ==
    /\ log \in Seq(Entry)
    /\ \A i \in DOMAIN log : InRange(log[i])
    /\ {xp, debt, earned, faults} \subseteq Nat
    /\ owed \in Int
    /\ pc \in [Procs -> PC]
    /\ job \in [Procs -> Job]
    /\ rewarded \in [Quests -> Nat]

QuestInit ==
    /\ log = <<>>
    /\ xp = 0 /\ debt = 0 /\ earned = 0 /\ owed = 0
    /\ pc = [p \in Procs |-> "idle"]
    /\ job = [p \in Procs |-> NoJob]
    /\ rewarded = [q \in Quests |-> 0]
    /\ faults = 0 /\ team \in Teams

-----------------------------------------------------------------------------
(* The log as a value.                                                     *)

\* stepInitState
InitLeft(q, n) == IF Steps[q][n].kind = "kill_n" THEN Steps[q][n].count ELSE 0

\* Mutant: a completed entry counts as active.
FindAny(q) == SelectInSeq(log, LAMBDA e : e.q = q)

\* findActive
FindActive(q) == SelectInSeq(log, LAMBDA e : e.q = q /\ ~e.done)

\* The first active entry whose step is of this kind.
FindStep(kind) == SelectInSeq(log, LAMBDA e : ~e.done /\ Steps[e.q][e.step].kind = kind)

LastStep(e) == e.step = Len(Steps[e.q])

\* advanceStep and completeQuest on one entry.
Advanced(e) ==
    IF LastStep(e) THEN [e EXCEPT !.done = TRUE, !.left = 0]
    ELSE [e EXCEPT !.step = @ + 1, !.left = InitLeft(e.q, e.step + 1)]

-----------------------------------------------------------------------------
(* Goroutine steps.                                                        *)

Fault ==
    /\ faults < MaxFaults[team]
    /\ faults' = faults + 1

HandlerEnds(p) ==
    /\ pc' = [pc EXCEPT ![p] = "idle"]
    /\ job' = [job EXCEPT ![p] = NoJob]

\* GetByID and the computation of the new log; quest names the one that is
\* complete in it, whose reward is due.
WillRecord(p, newLog, quest) ==
    /\ pc[p] = "idle"
    /\ job' = [job EXCEPT ![p] = [NoJob EXCEPT !.log = newLog, !.quest = quest, !.xp = xp]]
    /\ pc' = [pc EXCEPT ![p] = "log"]
    /\ UNCHANGED <<log, xp, debt, rewarded, earned, owed, faults, team>>

AdvanceStep(p, i) ==
    /\ earned < MaxXP[team]
    /\ WillRecord(p, [log EXCEPT ![i] = Advanced(log[i])],
                  IF LastStep(log[i]) THEN log[i].q ELSE NoQuest)

\* Mutant: the quest is not looked for in the log.
AcceptQuestUnchecked(p, q) ==
    /\ Len(log) <= Cardinality(Quests)
    /\ WillRecord(p, Append(log, [q |-> q, step |-> 1, left |-> InitLeft(q, 1), done |-> FALSE]), NoQuest)

AcceptQuest(p, q) ==
    /\ \A i \in DOMAIN log : log[i].q # q
    /\ WillRecord(p, Append(log, [q |-> q, step |-> 1, left |-> InitLeft(q, 1), done |-> FALSE]), NoQuest)

AdvanceTalkTo(p, q) ==
    /\ FindActive(q) # 0
    /\ Steps[q][log[FindActive(q)].step].kind = "talk_to"
    /\ AdvanceStep(p, FindActive(q))

\* Advance, for Lua scripts.
AdvanceScript(p, q) ==
    /\ FindActive(q) # 0
    /\ Steps[q][log[FindActive(q)].step].kind = "script"
    /\ AdvanceStep(p, FindActive(q))

AbandonQuest(p, q) ==
    /\ FindActive(q) # 0
    /\ WillRecord(p, RemoveAt(log, FindActive(q)), NoQuest)

HandleEnter(p) ==
    /\ FindStep("reach_room") # 0
    /\ AdvanceStep(p, FindStep("reach_room"))

HandleKill(p) ==
    LET i == FindStep("kill_n")
    IN /\ i # 0
       /\ IF log[i].left <= 1 THEN AdvanceStep(p, i)
          ELSE WillRecord(p, [log EXCEPT ![i].left = @ - 1], NoQuest)

\* RecordQuestProgress; a completed quest is followed by its reward.
RecordQuestProgress(p) ==
    /\ pc[p] = "log"
    /\ log' = job[p].log
    /\ IF job[p].quest = NoQuest THEN HandlerEnds(p)
       ELSE pc' = [pc EXCEPT ![p] = "reward"] /\ UNCHANGED job
    /\ UNCHANGED <<xp, debt, rewarded, earned, owed, faults, team>>

\* grantRewards: the total is computed from the row read at the start.
GrantRewards(p) ==
    /\ pc[p] = "reward"
    /\ xp' = job[p].xp + RewardXP
    /\ earned' = earned + RewardXP
    /\ rewarded' = [rewarded EXCEPT ![job[p].quest] = @ + 1]
    /\ HandlerEnds(p)
    /\ UNCHANGED <<log, debt, owed, faults, team>>

-----------------------------------------------------------------------------
(* Experience and its debt (internal/combat).                              *)

\* ApplyXPAward: the debt is paid before the player gains anything.
ApplyXPAward(award, current) ==
    IF award <= 0 THEN [gain |-> 0, debt |-> current]
    ELSE IF current <= 0 THEN [gain |-> award, debt |-> 0]
    ELSE IF current >= award THEN [gain |-> 0, debt |-> current - award]
    ELSE [gain |-> award - current, debt |-> 0]

\* creditXPShares for this character, up to its first write.
CreditXPShare(p) ==
    LET a == ApplyXPAward(Award, debt)
    IN /\ pc[p] = "idle"
       /\ earned < MaxXP[team]
       /\ job' = [job EXCEPT ![p] = [NoJob EXCEPT !.xp = xp, !.gain = a.gain, !.debt = a.debt,
                                                  !.delta = a.debt - debt]]
       /\ pc' = [pc EXCEPT ![p] = IF a.gain > 0 THEN "xp" ELSE "debt"]
       /\ UNCHANGED <<log, xp, debt, rewarded, earned, owed, faults, team>>

RecordXP(p) ==
    /\ pc[p] = "xp"
    /\ xp' = job[p].xp + job[p].gain
    /\ earned' = earned + job[p].gain
    /\ IF job[p].delta # 0 THEN pc' = [pc EXCEPT ![p] = "debt"] /\ UNCHANGED job
       ELSE HandlerEnds(p)
    /\ UNCHANGED <<log, debt, rewarded, owed, faults, team>>

\* handleCharacterDeath, up to the write of the debt.
CharacterDeath(p) ==
    /\ pc[p] = "idle"
    /\ debt + DeathDelta <= MaxDebt[team]
    /\ job' = [job EXCEPT ![p] = [NoJob EXCEPT !.debt = debt + DeathDelta, !.delta = DeathDelta]]
    /\ pc' = [pc EXCEPT ![p] = "debt"]
    /\ UNCHANGED <<log, xp, debt, rewarded, earned, owed, faults, team>>

RecordXPDebt(p) ==
    /\ pc[p] = "debt"
    /\ debt' = job[p].debt
    /\ owed' = owed + job[p].delta
    /\ HandlerEnds(p)
    /\ UNCHANGED <<log, xp, rewarded, earned, faults, team>>

-----------------------------------------------------------------------------
\* A write fails: the handler logs it and gives up what was left to do.
WriteFails(p) ==
    /\ pc[p] # "idle"
    /\ Fault
    /\ HandlerEnds(p)
    /\ UNCHANGED <<log, xp, debt, rewarded, earned, owed, team>>

\* The server dies between two writes.
Crash ==
    /\ Fault
    /\ \E p \in Procs : pc[p] # "idle"
    /\ pc' = [p \in Procs |-> "idle"]
    /\ job' = [p \in Procs |-> NoJob]
    /\ UNCHANGED <<log, xp, debt, rewarded, earned, owed, team>>

QuestNext ==
    \/ \E p \in team, q \in Quests : AcceptQuest(p, q) \/ AdvanceScript(p, q)
    \/ \E d \in Dispatchers \cap team, q \in Quests : AdvanceTalkTo(d, q) \/ AbandonQuest(d, q)
    \/ \E k \in Killers \cap team : HandleKill(k) \/ CreditXPShare(k) \/ CharacterDeath(k)
    \/ \E p \in team :
          \/ HandleEnter(p) \/ RecordQuestProgress(p) \/ GrantRewards(p)
          \/ RecordXP(p) \/ RecordXPDebt(p) \/ WriteFails(p)
    \/ Crash

QuestSpec == QuestInit /\ [][QuestNext]_questVars

-----------------------------------------------------------------------------
(* Properties.                                                             *)

\* A quest is in the log at most once, "accept is idempotent"
\* (engine.go:126), and the index of its step is within its list, also when
\* handlers overwrite each other's log.
NoDuplicateQuest ==
    /\ QuestTypeOK
    /\ \A i, k \in DOMAIN log : log[i].q = log[k].q => i = k

CompletedStay ==
    \A i \in DOMAIN log : log[i].done => \E k \in DOMAIN log' : log'[k] = log[i]

\* A completed quest stays completed while one goroutine works on the log.
CompletedForever == [][Serialized => CompletedStay]_questVars

\* A kill never gives a player in debt more than the award: what is credited
\* and what is taken off the debt add up to it (combat/xp_debt.go:35).
AwardSplit ==
    \A p \in Procs : pc[p] = "xp" => job[p].gain - job[p].delta = Award

\* Experience is what was awarded, and debt what deaths left less what was
\* paid: no award is lost or counted twice ("no other path mutates these
\* columns concurrently", combat/death.go:26-27); and the reward of a quest is
\* paid at most once, through abandoning and accepting it again, failed writes
\* and crashes.
LedgerExact ==
    /\ AwardSplit /\ xp = earned /\ debt = owed
    /\ \A q \in Quests : rewarded[q] <= 1

\* The log is sound whoever works on it; experience and debt add up while one
\* goroutine does.
LogAndLedger == NoDuplicateQuest /\ (Serialized => LedgerExact)
=============================================================================
