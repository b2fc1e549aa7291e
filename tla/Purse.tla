------------------------------- MODULE Purse -------------------------------
(***************************************************************************)
(* Who owns which coin.  A character row carries (coin, bank, version);    *)
(* every path that moves coin reads the row, computes, and writes it back  *)
(* with SQLiteCharacterRepo.RecordCoin, which refuses the write unless the *)
(* version is still the one that was read.  A verb that moves coin between *)
(* two places is several statements with no transaction around them, and   *)
(* undoes the first by hand when a later one fails.                        *)
(*                                                                         *)
(* Processes: the dispatcher goroutine of every character, which runs one  *)
(* verb at a time, and the ticker goroutines (a scheduler pulse runs in a  *)
(* goroutine of its own), which kill characters and pay quest rewards.     *)
(* Every statement on the database is one step.                            *)
(*                                                                         *)
(* A refused verb (too little coin, an unknown name) writes nothing and is *)
(* left out.  A statement may fail: the session's context is cancelled by  *)
(* a disconnect, or the database is busy; the server may crash between two *)
(* statements.  MaxFaults bounds how often, and MaxVersion the coin        *)
(* movements of a row, for model checking.                                 *)
(***************************************************************************)
EXTENDS Integers, FiniteSets, Functions

CONSTANTS
    Chars,        \* character rows, each with a dispatcher
    Tickers,      \* pulse goroutines
    Piles,        \* ids of coin-pile items; never reused (AUTOINCREMENT)
    None,         \* no character, no pile
    Amounts,      \* amounts a player may name or a quest may pay
    InitCoin,     \* carried coin of every row at the start
    MaxAmount,    \* currency.Amount's upper limit: Add refuses beyond it
    MaxFaults, MaxVersion

ASSUME PurseConstants ==
    /\ IsFiniteSet(Chars) /\ IsFiniteSet(Tickers) /\ IsFiniteSet(Piles)
    /\ None \notin Chars
    /\ Chars \cap Tickers = {}
    /\ Amounts \subseteq Nat \ {0}
    /\ {InitCoin, MaxAmount, MaxFaults, MaxVersion} \subseteq Nat

VARIABLES
    purse,    \* character -> its coin columns
    pile,     \* pile id -> coin in it; 0 when there is no such item
    born,     \* pile ids handed out so far
    pc,       \* process -> the statement it runs next
    job,      \* process -> the local variables of the verb it runs
    leaked,   \* coin that went missing (negative: that came from nowhere)
    minted,   \* coin put into the game: at the start, by quests and by dead mobs
    faults    \* failed statements and crashes so far

vars == <<purse, pile, born, pc, job, leaked, minted, faults>>

Procs == Chars \cup Tickers
Row == [coin : Nat, bank : Nat, ver : Nat]
NoRow == [coin |-> 0, bank |-> 0, ver |-> 0]

\* who: the row the verb works on; to: the recipient of a gift; amt: the
\* amount it moves; row, peer: the columns of who and to as read; heap: the
\* pile it picks up.
Job == [who : Chars \cup {None}, to : Chars \cup {None}, amt : Nat, row : Row, peer : Row,
        heap : Piles \cup {None}]
NoJob == [who |-> None, to |-> None, amt |-> 0, row |-> NoRow, peer |-> NoRow, heap |-> None]

\* The statement that comes next.
PC == {"idle", "deposit", "withdraw", "giveRead", "giveDebit", "giveCredit", "giveUndo",
       "dropDebit", "dropCreate", "dropUndo", "getRead", "getCredit", "getDelete", "getUndo",
       "reward", "rewardReread", "rewardAgain", "death", "deathReread", "deathAgain", "deathPile"}

TypeOK ==
    /\ purse \in [Chars -> Row]
    /\ pile \in [Piles -> Nat]
    /\ born \in SUBSET Piles
    /\ pc \in [Procs -> PC]
    /\ job \in [Procs -> Job]
    /\ faults \in Nat

Init ==
    /\ purse = [c \in Chars |-> [coin |-> InitCoin, bank |-> 0, ver |-> 0]]
    /\ pile = [i \in Piles |-> 0]
    /\ born = {}
    /\ pc = [p \in Procs |-> "idle"]
    /\ job = [p \in Procs |-> NoJob]
    /\ leaked = 0
    /\ minted = InitCoin * Cardinality(Chars)
    /\ faults = 0

-----------------------------------------------------------------------------
(* The repository, and the steps of a verb.                                *)

\* Mutant: the UPDATE does not bump the version.
RecordCoinSameVersion(c, coin, bank, v) ==
    /\ purse[c].ver = v
    /\ purse' = [purse EXCEPT ![c] = [coin |-> coin, bank |-> bank, ver |-> v]]

\* RecordCoin: one conditional UPDATE.
RecordCoin(c, coin, bank, v) ==
    /\ purse[c].ver = v
    /\ purse' = [purse EXCEPT ![c] = [coin |-> coin, bank |-> bank, ver |-> v + 1]]

\* ErrCoinConflict: the row has moved on since it was read.
Conflict(c, v) == purse[c].ver # v

\* Any other error of a statement.
Fault ==
    /\ faults < MaxFaults
    /\ faults' = faults + 1

\* A verb starts: p knows whose row it works on and how much it moves.
Start(p, j, l) ==
    /\ pc[p] = "idle"
    /\ purse[j.who].ver < MaxVersion
    /\ job' = [job EXCEPT ![p] = j]
    /\ pc' = [pc EXCEPT ![p] = l]
    /\ UNCHANGED <<purse, pile, born, leaked, minted, faults>>

\* The next statement of p is l.
Goto(p, l) ==
    /\ pc' = [pc EXCEPT ![p] = l]
    /\ UNCHANGED job

\* The verb of p returns.
Return(p) ==
    /\ pc' = [pc EXCEPT ![p] = "idle"]
    /\ job' = [job EXCEPT ![p] = NoJob]

-----------------------------------------------------------------------------
(* deposit and withdraw (internal/cmd/banker.go): one read, one write.     *)

Deposit(c, a) ==
    /\ a <= purse[c].coin
    /\ purse[c].bank + a <= MaxAmount
    /\ Start(c, [NoJob EXCEPT !.who = c, !.amt = a, !.row = purse[c]], "deposit")

Withdraw(c, a) ==
    /\ a <= purse[c].bank
    /\ purse[c].coin + a <= MaxAmount
    /\ Start(c, [NoJob EXCEPT !.who = c, !.amt = a, !.row = purse[c]], "withdraw")

DepositWrite(p) ==
    /\ pc[p] = "deposit"
    /\ LET j == job[p]
       IN RecordCoin(j.who, j.row.coin - j.amt, j.row.bank + j.amt, j.row.ver)
    /\ Return(p)
    /\ UNCHANGED <<pile, born, leaked, minted, faults>>

WithdrawWrite(p) ==
    /\ pc[p] = "withdraw"
    /\ LET j == job[p]
       IN RecordCoin(j.who, j.row.coin + j.amt, j.row.bank - j.amt, j.row.ver)
    /\ Return(p)
    /\ UNCHANGED <<pile, born, leaked, minted, faults>>

-----------------------------------------------------------------------------
(* giveCoin (internal/cmd/inventory.go): read the actor, read the target,  *)
(* debit the actor, credit the target; a failed credit re-credits the      *)
(* actor at the version its own debit produced.                            *)

GiveReadActor(c, d, a) ==
    /\ c # d
    /\ Start(c, [NoJob EXCEPT !.who = c, !.to = d, !.amt = a, !.row = purse[c]], "giveRead")

GiveReadTarget(p) ==
    /\ pc[p] = "giveRead"
    /\ job[p].amt <= job[p].row.coin
    /\ purse[job[p].to].coin + job[p].amt <= MaxAmount
    /\ job' = [job EXCEPT ![p].peer = purse[job[p].to]]
    /\ pc' = [pc EXCEPT ![p] = "giveDebit"]
    /\ UNCHANGED <<purse, pile, born, leaked, minted, faults>>

GiveImpossible(p) ==
    /\ pc[p] = "giveRead"
    /\ \/ job[p].amt > job[p].row.coin
       \/ purse[job[p].to].coin + job[p].amt > MaxAmount
    /\ Return(p)
    /\ UNCHANGED <<purse, pile, born, leaked, minted, faults>>

GiveDebit(p) ==
    /\ pc[p] = "giveDebit"
    /\ LET j == job[p] IN RecordCoin(j.who, j.row.coin - j.amt, j.row.bank, j.row.ver)
    /\ Goto(p, "giveCredit")
    /\ UNCHANGED <<pile, born, leaked, minted, faults>>

GiveCredit(p) ==
    /\ pc[p] = "giveCredit"
    /\ LET j == job[p] IN RecordCoin(j.to, j.peer.coin + j.amt, j.peer.bank, j.peer.ver)
    /\ Return(p)
    /\ UNCHANGED <<pile, born, leaked, minted, faults>>

GiveCreditRefused(p) ==
    /\ pc[p] = "giveCredit"
    /\ \/ Conflict(job[p].to, job[p].peer.ver) /\ UNCHANGED faults
       \/ Fault
    /\ Goto(p, "giveUndo")
    /\ UNCHANGED <<purse, pile, born, leaked, minted>>

-----------------------------------------------------------------------------
(* dropCoin (internal/cmd/inventory.go): debit, then create the pile.      *)

Drop(c, a) ==
    /\ a <= purse[c].coin
    /\ Start(c, [NoJob EXCEPT !.who = c, !.amt = a, !.row = purse[c]], "dropDebit")

DropDebit(p) ==
    /\ pc[p] = "dropDebit"
    /\ LET j == job[p] IN RecordCoin(j.who, j.row.coin - j.amt, j.row.bank, j.row.ver)
    /\ Goto(p, "dropCreate")
    /\ UNCHANGED <<pile, born, leaked, minted, faults>>

\* items.Create of a coin pile, here and in spawnCoinPile.
CreatePile(p) ==
    /\ pc[p] \in {"dropCreate", "deathPile"}
    /\ \E i \in Piles \ born : /\ born' = born \cup {i}
                              /\ pile' = [pile EXCEPT ![i] = job[p].amt]
    /\ Return(p)
    /\ UNCHANGED <<purse, leaked, minted, faults>>

DropCreateFails(p) ==
    /\ pc[p] = "dropCreate"
    /\ Fault
    /\ Goto(p, "dropUndo")
    /\ UNCHANGED <<purse, pile, born, leaked, minted>>

-----------------------------------------------------------------------------
(* get of a coin pile (NewGet, getFromContainer, absorbCoinPile): see the  *)
(* pile, read the row, credit, delete the pile; a pile that cannot be      *)
(* deleted (somebody else has had it) takes the credit back.               *)

GetSee(c, i) ==
    /\ pile[i] > 0
    /\ Start(c, [NoJob EXCEPT !.who = c, !.amt = pile[i], !.heap = i], "getRead")

GetRead(p) ==
    /\ pc[p] = "getRead"
    /\ purse[job[p].who].coin + job[p].amt <= MaxAmount
    /\ job' = [job EXCEPT ![p].row = purse[job[p].who]]
    /\ pc' = [pc EXCEPT ![p] = "getCredit"]
    /\ UNCHANGED <<purse, pile, born, leaked, minted, faults>>

GetImpossible(p) ==
    /\ pc[p] = "getRead"
    /\ purse[job[p].who].coin + job[p].amt > MaxAmount
    /\ Return(p)
    /\ UNCHANGED <<purse, pile, born, leaked, minted, faults>>

GetCredit(p) ==
    /\ pc[p] = "getCredit"
    /\ LET j == job[p] IN RecordCoin(j.who, j.row.coin + j.amt, j.row.bank, j.row.ver)
    /\ Goto(p, "getDelete")
    /\ UNCHANGED <<pile, born, leaked, minted, faults>>

\* Mutant: the number of rows the DELETE removed is not looked at.
GetDeleteUnchecked(p) ==
    /\ pc[p] = "getDelete"
    /\ pile' = [pile EXCEPT ![job[p].heap] = 0]
    /\ Return(p)
    /\ UNCHANGED <<purse, born, leaked, minted, faults>>

GetDelete(p) ==
    /\ pc[p] = "getDelete"
    /\ pile[job[p].heap] > 0
    /\ pile' = [pile EXCEPT ![job[p].heap] = 0]
    /\ Return(p)
    /\ UNCHANGED <<purse, born, leaked, minted, faults>>

GetDeleteRefused(p) ==
    /\ pc[p] = "getDelete"
    /\ \/ pile[job[p].heap] = 0 /\ UNCHANGED faults
       \/ Fault
    /\ Goto(p, "getUndo")
    /\ UNCHANGED <<purse, pile, born, leaked, minted>>

-----------------------------------------------------------------------------
(* The compensating writes: the row as it was read, at the version the     *)
(* verb's own first write produced.  When that fails too the verb logs     *)
(* ROLLBACK FAILED and returns: a gift or a drop has lost its coin, a      *)
(* pickup has kept coin it should not have.                                *)

Undo(p) ==
    /\ pc[p] \in {"giveUndo", "dropUndo", "getUndo"}
    /\ LET j == job[p] IN RecordCoin(j.who, j.row.coin, j.row.bank, j.row.ver + 1)
    /\ Return(p)
    /\ UNCHANGED <<pile, born, leaked, minted, faults>>

\* Coin that process p holds between two statements: taken from one place
\* and not yet put into the other (negative: put there already).
InFlight(p) ==
    IF pc[p] \in {"giveCredit", "giveUndo", "dropCreate", "dropUndo", "deathPile"} THEN job[p].amt
    ELSE IF pc[p] \in {"getDelete", "getUndo"} THEN -job[p].amt
    ELSE 0

\* The same, of everybody.
Carried == [p \in Procs |-> InFlight(p)]

RollbackFailed(p) ==
    /\ pc[p] \in {"giveUndo", "dropUndo", "getUndo"}
    /\ \/ Conflict(job[p].who, job[p].row.ver + 1) /\ UNCHANGED faults
       \/ Fault
    /\ leaked' = leaked + InFlight(p)
    /\ Return(p)
    /\ UNCHANGED <<purse, pile, born, minted>>

-----------------------------------------------------------------------------
(* grantCoin (internal/quest/engine.go): the reward of a completed quest,  *)
(* with one retry after a conflict.  The engine runs on the dispatcher of  *)
(* the character (dialogue, entering a room) or on a ticker (a kill).      *)

Reward(p, c, a) ==
    /\ p = c \/ p \in Tickers
    /\ Start(p, [NoJob EXCEPT !.who = c, !.amt = a, !.row = purse[c]], "reward")

RewardWrite(p) ==
    /\ pc[p] \in {"reward", "rewardAgain"}
    /\ LET j == job[p] IN RecordCoin(j.who, j.row.coin + j.amt, j.row.bank, j.row.ver)
    /\ minted' = minted + job[p].amt
    /\ Return(p)
    /\ UNCHANGED <<pile, born, leaked, faults>>

-----------------------------------------------------------------------------
(* dropCarriedCoin (internal/combat/character_death.go): empty the purse,  *)
(* then put its coin into the corpse.  A conflict is retried once, with    *)
(* the row read again; the death handler read the row long before.         *)

Death(t, c) ==
    /\ purse[c].coin > 0
    /\ Start(t, [NoJob EXCEPT !.who = c, !.amt = purse[c].coin, !.row = purse[c]], "death")

DeathWrite(p) ==
    /\ pc[p] \in {"death", "deathAgain"}
    /\ RecordCoin(job[p].who, 0, job[p].row.bank, job[p].row.ver)
    /\ Goto(p, "deathPile")
    /\ UNCHANGED <<pile, born, leaked, minted, faults>>

\* The first write of a reward or a death has met a conflict.
RetryConflict(p) ==
    /\ pc[p] \in {"reward", "death"}
    /\ Conflict(job[p].who, job[p].row.ver)
    /\ Goto(p, IF pc[p] = "reward" THEN "rewardReread" ELSE "deathReread")
    /\ UNCHANGED <<purse, pile, born, leaked, minted, faults>>

RewardReread(p) ==
    /\ pc[p] = "rewardReread"
    /\ job' = [job EXCEPT ![p].row = purse[job[p].who]]
    /\ pc' = [pc EXCEPT ![p] = "rewardAgain"]
    /\ UNCHANGED <<purse, pile, born, leaked, minted, faults>>

\* Mutant: the pile keeps the amount of the first read.
DeathRereadStaleAmount(p) ==
    /\ pc[p] = "deathReread"
    /\ job' = [job EXCEPT ![p].row = purse[job[p].who]]
    /\ pc' = [pc EXCEPT ![p] = "deathAgain"]
    /\ UNCHANGED <<purse, pile, born, leaked, minted, faults>>

DeathReread(p) ==
    /\ pc[p] = "deathReread"
    /\ LET fresh == purse[job[p].who]
       IN IF fresh.coin > 0
          THEN /\ job' = [job EXCEPT ![p].row = fresh, ![p].amt = fresh.coin]
               /\ pc' = [pc EXCEPT ![p] = "deathAgain"]
          ELSE Return(p)
    /\ UNCHANGED <<purse, pile, born, leaked, minted, faults>>

\* spawnCoinPile logs a failed Create and goes on: the coin is gone.
DeathPileFails(p) ==
    /\ pc[p] = "deathPile"
    /\ Fault
    /\ leaked' = leaked + InFlight(p)
    /\ Return(p)
    /\ UNCHANGED <<purse, pile, born, minted>>

-----------------------------------------------------------------------------
\* dropGoldPile: a mob's coin, rolled from its template, into its corpse.
MobLoot(a) ==
    /\ \E i \in Piles \ born : /\ born' = born \cup {i}
                              /\ pile' = [pile EXCEPT ![i] = a]
    /\ minted' = minted + a
    /\ UNCHANGED <<purse, pc, job, leaked, faults>>

\* A first write that is refused, or fails, ends the verb with nothing moved
\* (a reward or a death only after its retry).
FirstWriteRefused(p) ==
    /\ \/ /\ pc[p] \in {"deposit", "withdraw", "giveDebit", "dropDebit", "getCredit",
                         "rewardAgain", "deathAgain"}
          /\ Conflict(job[p].who, job[p].row.ver)
          /\ UNCHANGED faults
       \/ /\ pc[p] \in {"deposit", "withdraw", "giveDebit", "dropDebit", "getCredit", "reward",
                         "rewardAgain", "rewardReread", "death", "deathAgain", "deathReread",
                         "giveRead", "getRead"}
          /\ Fault
    /\ Return(p)
    /\ UNCHANGED <<purse, pile, born, leaked, minted>>

\* The server dies: the rows are durable, the verbs under way are not.
Crash ==
    /\ Fault
    /\ \E p \in Procs : pc[p] # "idle"
    /\ leaked' = leaked + SumFunction(Carried)
    /\ pc' = [p \in Procs |-> "idle"]
    /\ job' = [p \in Procs |-> NoJob]
    /\ UNCHANGED <<purse, pile, born, minted>>

Next ==
    \/ \E c \in Chars, a \in Amounts : Deposit(c, a) \/ Withdraw(c, a) \/ Drop(c, a)
    \/ \E c, d \in Chars, a \in Amounts : GiveReadActor(c, d, a)
    \/ \E c \in Chars, i \in Piles : GetSee(c, i)
    \/ \E p \in Procs, c \in Chars, a \in Amounts : Reward(p, c, a)
    \/ \E t \in Tickers, c \in Chars : Death(t, c)
    \/ \E p \in Procs :
          \/ DepositWrite(p) \/ WithdrawWrite(p)
          \/ GiveReadTarget(p) \/ GiveImpossible(p) \/ GiveDebit(p)
          \/ GiveCredit(p) \/ GiveCreditRefused(p)
          \/ DropDebit(p) \/ CreatePile(p) \/ DropCreateFails(p)
          \/ GetRead(p) \/ GetImpossible(p) \/ GetCredit(p) \/ GetDelete(p) \/ GetDeleteRefused(p)
          \/ Undo(p) \/ RollbackFailed(p)
          \/ RewardWrite(p) \/ RewardReread(p)
          \/ DeathWrite(p) \/ DeathReread(p) \/ DeathPileFails(p)
          \/ RetryConflict(p) \/ FirstWriteRefused(p)
    \/ \E a \in Amounts : MobLoot(a)
    \/ Crash

Spec == Init /\ [][Next]_vars

-----------------------------------------------------------------------------
(* Properties.                                                             *)

Coins == [c \in Chars |-> purse[c].coin + purse[c].bank]
Wealth == SumFunction(Coins) + SumFunction(pile)

\* Every coin is accounted for at every moment: what is in purses, banks and
\* piles, in the hands of verbs under way, or written off by a failed
\* rollback, a failed corpse pile or a crash, is exactly what was put into
\* the game.  No interleaving of verbs, deaths and rewards creates or loses
\* coin anywhere else (RecordCoin and its callers).
Accounted ==
    Wealth + SumFunction(Carried) + leaked = minted

\* A verb has read its row and not written it yet.
HasRead(p) ==
    pc[p] \in {"deposit", "withdraw", "giveRead", "giveDebit", "dropDebit", "getCredit", "reward",
               "rewardAgain", "death", "deathAgain"}

\* What the version column is for: a verb whose version still matches holds
\* the columns as they are now, so a write that is not refused never
\* overwrites somebody else's (character.go:59-64).
FreshWhenUnmoved ==
    \A p \in Procs : HasRead(p) /\ purse[job[p].who].ver = job[p].row.ver
                     => purse[job[p].who] = job[p].row

\* The same for the recipient of a gift, whose row is read before the
\* actor's debit and written after it.
PeerFresh ==
    \A p \in Procs :
        pc[p] \in {"giveDebit", "giveCredit"} /\ purse[job[p].to].ver = job[p].peer.ver
        => purse[job[p].to] = job[p].peer

\* A compensating write that is not refused undoes the verb's own first
\* write and nothing else, whatever happened in between.
UndoIsExact ==
    [][\A p \in Procs : Undo(p) =>
          /\ purse'[job[p].who].coin = purse[job[p].who].coin + InFlight(p)
          /\ purse'[job[p].who].bank = purse[job[p].who].bank]_vars

\* A death takes exactly what the purse holds at that moment into the corpse:
\* a gift that arrives while the death handler works is neither burnt nor
\* doubled (character_death.go:352-357).
DeathTakesAll ==
    [][\A p \in Procs : DeathWrite(p) => job[p].amt = purse[job[p].who].coin]_vars

\* A version that still matches means current columns, in the row of the
\* verb's own character and in that of the recipient of a gift.
MatchMeansCurrent == TypeOK /\ FreshWhenUnmoved /\ PeerFresh

\* The two writes that depend on what somebody else did meanwhile move
\* exactly what they are meant to.
DelicateWritesExact == UndoIsExact /\ DeathTakesAll
=============================================================================
