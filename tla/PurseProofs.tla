---------------------------- MODULE PurseProofs ----------------------------
(***************************************************************************)
(* What holds of purses, of doors, of time and of the row a player types   *)
(* on, for any number of characters, pulses, piles, exits, builders and    *)
(* listeners, and for lines of any length.                                 *)
(*                                                                         *)
(* Purses: the version column does its work.  A write that is not refused  *)
(* acts on the row as it is, a compensating write undoes exactly what the  *)
(* verb did, a death moves exactly what the purse holds; and no coin is    *)
(* made or lost, whatever conflicts, faults and crashes come between.      *)
(*                                                                         *)
(* Then the arithmetic the purses trust (Coins): what is added, subtracted, *)
(* multiplied and taken apart is exact or refused.                         *)
(*                                                                         *)
(* Time (Clock): a crossing from phase to phase is claimed by one pulse,   *)
(* a pulse is due after the last beat or the one before, and the readings  *)
(* of the day agree.                                                       *)
(*                                                                         *)
(* The row (Terminal): fed the echo of a key, the terminal shows the line  *)
(* as the key has left it, glyphs of two columns included.                 *)
(***************************************************************************)
EXTENDS Purse, Doors, Coins, Clock, Terminal, SumTheorems, SequenceTheorems, NaturalsInduction

\* A verb that has done its first write and may still have to undo it.
MayUndo(p) ==
    pc[p] \in {"giveCredit", "giveUndo", "dropCreate", "dropUndo", "getDelete", "getUndo"}

Gives(p) == pc[p] \in {"giveRead", "giveDebit", "giveCredit"}

\* The snapshot of `who` is not from the future, and is the row unless the
\* version has moved.
RowFresh(p) ==
    HasRead(p) => /\ job[p].row.ver <= purse[job[p].who].ver
                  /\ job[p].row.ver = purse[job[p].who].ver => purse[job[p].who] = job[p].row

\* The same for the snapshot of `to`.
PeerRowFresh(p) ==
    pc[p] \in {"giveDebit", "giveCredit"} =>
        /\ job[p].peer.ver <= purse[job[p].to].ver
        /\ job[p].peer.ver = purse[job[p].to].ver => purse[job[p].to] = job[p].peer

\* After the first write the row is one version on, and holds what the verb
\* wrote unless it has moved again.
OwnWrite(p) ==
    MayUndo(p) =>
        /\ job[p].row.ver + 1 <= purse[job[p].who].ver
        /\ job[p].row.ver + 1 = purse[job[p].who].ver =>
              purse[job[p].who] = [coin |-> job[p].row.coin - InFlight(p),
                                   bank |-> job[p].row.bank,
                                   ver |-> job[p].row.ver + 1]

\* What the checks at the start of a verb established.
Sane(p) ==
    /\ pc[p] # "idle" => job[p].who \in Chars
    /\ Gives(p) => job[p].to \in Chars /\ job[p].to # job[p].who
    /\ pc[p] \in {"getRead", "getCredit", "getDelete"} => job[p].heap \in Piles
    /\ pc[p] \in {"deposit", "giveDebit", "dropDebit"} => job[p].amt <= job[p].row.coin
    /\ pc[p] = "withdraw" => job[p].amt <= job[p].row.bank
    /\ pc[p] \in {"death", "deathAgain"} => job[p].amt = job[p].row.coin

Good(p) == RowFresh(p) /\ PeerRowFresh(p) /\ OwnWrite(p) /\ Sane(p)

IInv == TypeOK /\ \A p \in Procs : Good(p)

-----------------------------------------------------------------------------
\* A step writes at most one row, and a written row is one version on.
Moves ==
    \/ UNCHANGED purse
    \/ \E c \in Chars, r \in Row :
          r.ver = purse[c].ver + 1 /\ purse' = [purse EXCEPT ![c] = r]

\* Only p's program counter and local variables change.
OnlyBy(p) == \A q \in Procs \ {p} : pc'[q] = pc[q] /\ job'[q] = job[q]

\* RecordCoin is a move, and says what the row holds afterwards.
LEMMA RecordCoinMoves ==
    ASSUME TypeOK, NEW c \in Chars, NEW coin \in Nat, NEW bank \in Nat, NEW v \in Nat,
           RecordCoin(c, coin, bank, v)
    PROVE  /\ Moves
           /\ purse' \in [Chars -> Row]
           /\ purse[c].ver = v
           /\ purse'[c] = [coin |-> coin, bank |-> bank, ver |-> v + 1]
           /\ \A d \in Chars \ {c} : purse'[d] = purse[d]
<1> DEFINE r == [coin |-> coin, bank |-> bank, ver |-> v + 1]
<1>1. r \in Row
    BY DEF Row
<1>2. purse[c].ver = v /\ purse' = [purse EXCEPT ![c] = r]
    BY DEF RecordCoin
<1>3. r.ver = purse[c].ver + 1
    BY <1>2
<1> HIDE DEF r
<1>4. Moves
    BY <1>1, <1>2, <1>3 DEF Moves
<1>5. purse' \in [Chars -> Row] /\ purse'[c] = r /\ \A d \in Chars \ {c} : purse'[d] = purse[d]
    BY <1>1, <1>2 DEF TypeOK
<1> QED BY <1>2, <1>4, <1>5 DEF r

\* What a process knows about its row survives the writes of the others.
LEMMA OthersKeep ==
    ASSUME TypeOK, NEW q \in Procs, Good(q), Moves, pc'[q] = pc[q], job'[q] = job[q]
    PROVE  Good(q)'
<1> DEFINE j == job[q]
<1>1. j \in Job /\ job'[q] = j /\ pc[q] \in PC
    BY DEF TypeOK
<1>2. ASSUME NEW d \in Chars
      PROVE  /\ purse[d].ver <= purse'[d].ver
             /\ purse[d].ver = purse'[d].ver => purse'[d] = purse[d]
             /\ purse[d].ver \in Nat /\ purse'[d].ver \in Nat
    BY DEF Moves, TypeOK, Row
<1>3. Sane(q)'
    BY <1>1 DEF Good, Sane, Gives
<1>4. InFlight(q)' = InFlight(q)
    BY DEF InFlight
<1>5. j.row.ver \in Nat /\ j.peer.ver \in Nat
    BY <1>1 DEF Job, Row
<1>6. RowFresh(q)'
  <2> SUFFICES ASSUME HasRead(q)' PROVE RowFresh(q)'
      BY DEF RowFresh
  <2>1. HasRead(q) /\ j.who \in Chars
      BY DEF HasRead, Good, Sane
  <2>2. j.row.ver <= purse[j.who].ver /\ (j.row.ver = purse[j.who].ver => purse[j.who] = j.row)
      BY <2>1 DEF Good, RowFresh
  <2> QED BY <1>1, <1>2, <1>5, <2>1, <2>2 DEF RowFresh
<1>7. PeerRowFresh(q)'
  <2> SUFFICES ASSUME pc[q] \in {"giveDebit", "giveCredit"} PROVE PeerRowFresh(q)'
      BY DEF PeerRowFresh
  <2>1. j.to \in Chars
      BY DEF Good, Sane, Gives
  <2>2. j.peer.ver <= purse[j.to].ver /\ (j.peer.ver = purse[j.to].ver => purse[j.to] = j.peer)
      BY DEF Good, PeerRowFresh
  <2> QED BY <1>1, <1>2, <1>5, <2>1, <2>2 DEF PeerRowFresh
<1>8. OwnWrite(q)'
  <2> SUFFICES ASSUME MayUndo(q)' PROVE OwnWrite(q)'
      BY DEF OwnWrite
  <2>1. MayUndo(q) /\ j.who \in Chars
      BY DEF MayUndo, Good, Sane
  <2>2. /\ j.row.ver + 1 <= purse[j.who].ver
        /\ j.row.ver + 1 = purse[j.who].ver =>
              purse[j.who] = [coin |-> j.row.coin - InFlight(q), bank |-> j.row.bank,
                              ver |-> j.row.ver + 1]
      BY <2>1 DEF Good, OwnWrite
  <2> QED BY <1>1, <1>2, <1>4, <1>5, <2>1, <2>2 DEF OwnWrite
<1> QED BY <1>3, <1>6, <1>7, <1>8 DEF Good

\* So a step of p preserves the invariant when it does for p itself.
LEMMA OneProcess ==
    ASSUME IInv, NEW p \in Procs, OnlyBy(p), Moves, TypeOK', Good(p)'
    PROVE  IInv'
<1>1. ASSUME NEW q \in Procs PROVE Good(q)'
  <2>1. CASE q = p
      BY <2>1
  <2>2. CASE q # p
      BY <2>2, OthersKeep DEF IInv, OnlyBy
  <2> QED BY <2>1, <2>2
<1> QED BY <1>1 DEF IInv, Procs

\* Verbs that start: the snapshot is the row of this very moment.
LEMMA StartKeeps ==
    ASSUME IInv, NEW p \in Procs, NEW j \in Job,
           NEW l \in {"deposit", "withdraw", "giveRead", "dropDebit", "getRead", "reward", "death"},
           Start(p, j, l), j.who \in Chars,
           l # "getRead" => j.row = purse[j.who],
           l = "getRead" => j.heap \in Piles,
           l = "giveRead" => j.to \in Chars /\ j.to # j.who,
           l \in {"deposit", "dropDebit"} => j.amt <= j.row.coin,
           l = "withdraw" => j.amt <= j.row.bank,
           l = "death" => j.amt = j.row.coin
    PROVE  IInv'
<1>1. pc' = [pc EXCEPT ![p] = l] /\ job' = [job EXCEPT ![p] = j]
      /\ UNCHANGED <<purse, pile, born, faults>>
    BY DEF Start
<1>2. TypeOK /\ pc'[p] = l /\ job'[p] = j
    BY <1>1 DEF IInv, TypeOK
<1>3. TypeOK'
    BY <1>1, <1>2 DEF TypeOK, PC
<1>4. OnlyBy(p) /\ Moves
    BY <1>1, <1>2 DEF OnlyBy, Moves, TypeOK
<1>5. Good(p)'
  <2>1. purse[j.who] \in Row /\ purse' = purse
      BY <1>1, <1>2 DEF TypeOK
  <2>2. RowFresh(p)'
      BY <1>2, <2>1 DEF RowFresh, HasRead, Row
  <2>3. PeerRowFresh(p)' /\ OwnWrite(p)'
      BY <1>2 DEF PeerRowFresh, OwnWrite, MayUndo
  <2>4. Sane(p)'
      BY <1>2 DEF Sane, Gives
  <2> QED BY <2>2, <2>3, <2>4 DEF Good
<1> QED BY <1>3, <1>4, <1>5, OneProcess

\* A verb that returns knows nothing any more.
LEMMA ReturnKeeps ==
    ASSUME IInv, NEW p \in Procs, Return(p), Moves, purse' \in [Chars -> Row],
           pile' \in [Piles -> Nat], born' \in SUBSET Piles, faults' \in Nat
    PROVE  IInv'
<1>1. TypeOK /\ pc' = [pc EXCEPT ![p] = "idle"] /\ job' = [job EXCEPT ![p] = NoJob]
    BY DEF IInv, Return
<1>2. NoJob \in Job
    BY DEF NoJob, Job, NoRow, Row
<1>3. TypeOK'
    BY <1>1, <1>2 DEF TypeOK, PC
<1>4. OnlyBy(p) /\ pc'[p] = "idle"
    BY <1>1 DEF OnlyBy, TypeOK
<1>5. Good(p)'
    BY <1>4 DEF Good, RowFresh, HasRead, PeerRowFresh, OwnWrite, MayUndo, Sane, Gives
<1> QED BY <1>3, <1>4, <1>5, OneProcess

\* The types of the local variables of a verb under way.
LEMMA JobTypes ==
    ASSUME TypeOK, NEW p \in Procs
    PROVE  /\ job[p] \in Job
           /\ job[p].amt \in Nat /\ job[p].row \in Row /\ job[p].peer \in Row
           /\ job[p].row.coin \in Nat /\ job[p].row.bank \in Nat /\ job[p].row.ver \in Nat
           /\ job[p].peer.coin \in Nat /\ job[p].peer.bank \in Nat /\ job[p].peer.ver \in Nat
    BY DEF TypeOK, Job, Row

\* A step that only moves the program counter of p, within the statements
\* that come after its first write.
LEMMA GotoKeeps ==
    ASSUME IInv, NEW p \in Procs, NEW l \in PC, Goto(p, l),
           UNCHANGED <<purse, pile, born>>, faults' \in Nat,
           <<pc[p], l>> \in {<<"giveCredit", "giveUndo">>, <<"dropCreate", "dropUndo">>,
                            <<"getDelete", "getUndo">>, <<"reward", "rewardReread">>,
                            <<"death", "deathReread">>}
    PROVE  IInv'
<1>1. TypeOK /\ Good(p) /\ pc' = [pc EXCEPT ![p] = l] /\ job' = job
    BY DEF IInv, Goto
<1>2. TypeOK' /\ pc'[p] = l /\ pc[p] \in PC
    BY <1>1 DEF TypeOK
<1>3. OnlyBy(p) /\ Moves
    BY <1>1 DEF OnlyBy, Moves, TypeOK
<1>4. RowFresh(p)' /\ PeerRowFresh(p)' /\ Sane(p)'
    BY <1>1, <1>2 DEF RowFresh, HasRead, PeerRowFresh, Good, Sane, Gives
<1>5. OwnWrite(p)'
    BY <1>1, <1>2 DEF OwnWrite, MayUndo, Good, InFlight
<1> QED BY <1>2, <1>3, <1>4, <1>5, OneProcess DEF Good

\* The first write of a verb that may have to undo it.
LEMMA FirstWriteKeeps ==
    ASSUME IInv, NEW p \in Procs, NEW l \in PC, NEW d \in Int, Goto(p, l),
           RecordCoin(job[p].who, job[p].row.coin - d, job[p].row.bank, job[p].row.ver),
           job[p].row.coin - d \in Nat, UNCHANGED <<pile, born, faults>>,
           \/ pc[p] = "giveDebit" /\ l = "giveCredit" /\ d = job[p].amt
           \/ pc[p] = "dropDebit" /\ l = "dropCreate" /\ d = job[p].amt
           \/ pc[p] = "getCredit" /\ l = "getDelete" /\ d = -job[p].amt
    PROVE  IInv'
<1> DEFINE j == job[p]
<1>1. TypeOK /\ Good(p) /\ pc' = [pc EXCEPT ![p] = l] /\ job' = job
    BY DEF IInv, Goto
<1>2. j.who \in Chars
    BY <1>1 DEF Good, Sane
<1>3. /\ Moves /\ purse' \in [Chars -> Row] /\ purse[j.who].ver = j.row.ver
      /\ purse'[j.who] = [coin |-> j.row.coin - d, bank |-> j.row.bank, ver |-> j.row.ver + 1]
      /\ \A e \in Chars \ {j.who} : purse'[e] = purse[e]
    BY <1>1, <1>2, JobTypes, RecordCoinMoves
<1>4. TypeOK' /\ pc'[p] = l /\ OnlyBy(p)
    BY <1>1, <1>3 DEF TypeOK, OnlyBy
<1>5. RowFresh(p)' /\ Sane(p)'
    BY <1>1, <1>4 DEF RowFresh, HasRead, Good, Sane, Gives
<1>6. PeerRowFresh(p)'
    BY <1>1, <1>3, <1>4 DEF PeerRowFresh, Good, Sane, Gives
<1>7. InFlight(p)' = d
    BY <1>1, <1>4 DEF InFlight
<1>8. OwnWrite(p)'
    BY <1>1, <1>3, <1>4, <1>7, JobTypes DEF OwnWrite
<1> QED BY <1>3, <1>4, <1>5, <1>6, <1>8, OneProcess DEF Good

-----------------------------------------------------------------------------
\* Every step of every verb, death, reward and crash preserves IInv.
LEMMA StepKeeps == IInv /\ Next => IInv'
<1> SUFFICES ASSUME IInv, Next PROVE IInv'
    OBVIOUS
<1>0. TypeOK /\ Chars \subseteq Procs /\ Tickers \subseteq Procs /\ Amounts \subseteq Nat
      /\ MaxFaults \in Nat
    BY PurseConstants DEF IInv, Procs
<1>a. ASSUME NEW c \in Chars PROVE purse[c] \in Row /\ purse[c].coin \in Nat /\ purse[c].bank \in Nat
    BY <1>0 DEF TypeOK, Row
<1>b. Fault => faults' \in Nat
    BY <1>0 DEF Fault, TypeOK
<1>c. ASSUME NEW p \in Procs PROVE Good(p)
    BY DEF IInv
<1>1. ASSUME NEW c \in Chars, NEW a \in Amounts, Deposit(c, a) PROVE IInv'
  <2> DEFINE j == [NoJob EXCEPT !.who = c, !.amt = a, !.row = purse[c]]
  <2>1. j \in Job /\ j.who = c /\ j.amt = a /\ j.row = purse[c]
      BY <1>0, <1>a DEF NoJob, Job, NoRow, Row
  <2>2. Start(c, j, "deposit") /\ a <= purse[c].coin
      BY <1>1 DEF Deposit
  <2> HIDE DEF j
  <2> QED BY <1>0, <2>1, <2>2, StartKeeps
<1>2. ASSUME NEW c \in Chars, NEW a \in Amounts, Withdraw(c, a) PROVE IInv'
  <2> DEFINE j == [NoJob EXCEPT !.who = c, !.amt = a, !.row = purse[c]]
  <2>1. j \in Job /\ j.who = c /\ j.amt = a /\ j.row = purse[c]
      BY <1>0, <1>a DEF NoJob, Job, NoRow, Row
  <2>2. Start(c, j, "withdraw") /\ a <= purse[c].bank
      BY <1>2 DEF Withdraw
  <2> HIDE DEF j
  <2> QED BY <1>0, <2>1, <2>2, StartKeeps
<1>3. ASSUME NEW c \in Chars, NEW a \in Amounts, Drop(c, a) PROVE IInv'
  <2> DEFINE j == [NoJob EXCEPT !.who = c, !.amt = a, !.row = purse[c]]
  <2>1. j \in Job /\ j.who = c /\ j.amt = a /\ j.row = purse[c]
      BY <1>0, <1>a DEF NoJob, Job, NoRow, Row
  <2>2. Start(c, j, "dropDebit") /\ a <= purse[c].coin
      BY <1>3 DEF Drop
  <2> HIDE DEF j
  <2> QED BY <1>0, <2>1, <2>2, StartKeeps
<1>4. ASSUME NEW c \in Chars, NEW d \in Chars, NEW a \in Amounts, GiveReadActor(c, d, a) PROVE IInv'
  <2> DEFINE j == [NoJob EXCEPT !.who = c, !.to = d, !.amt = a, !.row = purse[c]]
  <2>1. j \in Job /\ j.who = c /\ j.to = d /\ j.amt = a /\ j.row = purse[c]
      BY <1>0, <1>a DEF NoJob, Job, NoRow, Row
  <2>2. Start(c, j, "giveRead") /\ c # d
      BY <1>4 DEF GiveReadActor
  <2> HIDE DEF j
  <2> QED BY <1>0, <2>1, <2>2, StartKeeps
<1>5. ASSUME NEW c \in Chars, NEW i \in Piles, GetSee(c, i) PROVE IInv'
  <2> DEFINE j == [NoJob EXCEPT !.who = c, !.amt = pile[i], !.heap = i]
  <2>1. j \in Job /\ j.who = c /\ j.heap = i
      BY <1>0 DEF NoJob, Job, NoRow, Row, TypeOK
  <2>2. Start(c, j, "getRead")
      BY <1>5 DEF GetSee
  <2> HIDE DEF j
  <2> QED BY <1>0, <2>1, <2>2, StartKeeps
<1>6. ASSUME NEW p \in Procs, NEW c \in Chars, NEW a \in Amounts, Reward(p, c, a) PROVE IInv'
  <2> DEFINE j == [NoJob EXCEPT !.who = c, !.amt = a, !.row = purse[c]]
  <2>1. j \in Job /\ j.who = c /\ j.amt = a /\ j.row = purse[c]
      BY <1>0, <1>a DEF NoJob, Job, NoRow, Row
  <2>2. Start(p, j, "reward")
      BY <1>6 DEF Reward
  <2> HIDE DEF j
  <2> QED BY <1>0, <2>1, <2>2, StartKeeps
<1>7. ASSUME NEW t \in Tickers, NEW c \in Chars, Death(t, c) PROVE IInv'
  <2> DEFINE j == [NoJob EXCEPT !.who = c, !.amt = purse[c].coin, !.row = purse[c]]
  <2>1. j \in Job /\ j.who = c /\ j.amt = purse[c].coin /\ j.row = purse[c]
      BY <1>0, <1>a DEF NoJob, Job, NoRow, Row
  <2>2. Start(t, j, "death")
      BY <1>7 DEF Death
  <2> HIDE DEF j
  <2> QED BY <1>0, <2>1, <2>2, StartKeeps
<1>8. ASSUME NEW p \in Procs, DepositWrite(p) PROVE IInv'
  <2>1. /\ job[p].who \in Chars /\ job[p].row.coin - job[p].amt \in Nat
        /\ job[p].row.bank + job[p].amt \in Nat
      BY <1>8, <1>c, <1>0, JobTypes DEF DepositWrite, Good, Sane
  <2>2. Moves /\ purse' \in [Chars -> Row]
      BY <1>8, <1>0, <2>1, JobTypes, RecordCoinMoves DEF DepositWrite
  <2> QED BY <1>8, <1>0, <2>2, ReturnKeeps DEF DepositWrite, TypeOK
<1>9. ASSUME NEW p \in Procs, WithdrawWrite(p) PROVE IInv'
  <2>1. /\ job[p].who \in Chars /\ job[p].row.bank - job[p].amt \in Nat
        /\ job[p].row.coin + job[p].amt \in Nat
      BY <1>9, <1>c, <1>0, JobTypes DEF WithdrawWrite, Good, Sane
  <2>2. Moves /\ purse' \in [Chars -> Row]
      BY <1>9, <1>0, <2>1, JobTypes, RecordCoinMoves DEF WithdrawWrite
  <2> QED BY <1>9, <1>0, <2>2, ReturnKeeps DEF WithdrawWrite, TypeOK
<1>10. ASSUME NEW p \in Procs, GiveReadTarget(p) PROVE IInv'
  <2>1. /\ job[p].who \in Chars /\ job[p].to \in Chars /\ job[p].to # job[p].who
        /\ job[p].amt <= job[p].row.coin /\ HasRead(p)
      BY <1>10, <1>c DEF GiveReadTarget, Good, Sane, Gives, HasRead
  <2>2. /\ job' = [job EXCEPT ![p].peer = purse[job[p].to]] /\ pc' = [pc EXCEPT ![p] = "giveDebit"]
        /\ UNCHANGED <<purse, pile, born, faults>>
      BY <1>10 DEF GiveReadTarget
  <2>3. /\ job'[p] \in Job /\ job'[p].peer = purse[job[p].to] /\ job'[p].row = job[p].row
        /\ job'[p].who = job[p].who /\ job'[p].to = job[p].to /\ job'[p].amt = job[p].amt
      BY <1>0, <1>a, <2>1, <2>2 DEF TypeOK, Job
  <2>4. TypeOK' /\ pc'[p] = "giveDebit" /\ OnlyBy(p) /\ Moves
      BY <1>0, <2>2, <2>3 DEF TypeOK, PC, OnlyBy, Moves
  <2>5. RowFresh(p)' /\ OwnWrite(p)' /\ Sane(p)'
      BY <1>c, <2>1, <2>2, <2>3, <2>4 DEF RowFresh, HasRead, OwnWrite, MayUndo, Good, Sane, Gives
  <2>6. PeerRowFresh(p)'
      BY <1>a, <2>1, <2>2, <2>3, <2>4 DEF PeerRowFresh, Row
  <2> QED BY <2>4, <2>5, <2>6, OneProcess DEF Good
<1>11. ASSUME NEW p \in Procs, GiveImpossible(p) PROVE IInv'
    BY <1>11, <1>0, ReturnKeeps DEF GiveImpossible, Moves, TypeOK
<1>12. ASSUME NEW p \in Procs, GiveDebit(p) PROVE IInv'
  <2>1. job[p].row.coin - job[p].amt \in Nat
      BY <1>12, <1>c, <1>0, JobTypes DEF GiveDebit, Good, Sane
  <2> QED BY <1>12, <1>0, <2>1, JobTypes, FirstWriteKeeps DEF GiveDebit, PC
<1>13. ASSUME NEW p \in Procs, GiveCredit(p) PROVE IInv'
  <2>1. job[p].to \in Chars /\ job[p].peer.coin + job[p].amt \in Nat
      BY <1>13, <1>c, <1>0, JobTypes DEF GiveCredit, Good, Sane, Gives
  <2>2. Moves /\ purse' \in [Chars -> Row]
      BY <1>13, <1>0, <2>1, JobTypes, RecordCoinMoves DEF GiveCredit
  <2> QED BY <1>13, <1>0, <2>2, ReturnKeeps DEF GiveCredit, TypeOK
<1>14. ASSUME NEW p \in Procs, GiveCreditRefused(p) PROVE IInv'
    BY <1>14, <1>0, <1>b, GotoKeeps DEF GiveCreditRefused, PC, TypeOK
<1>15. ASSUME NEW p \in Procs, DropDebit(p) PROVE IInv'
  <2>1. job[p].row.coin - job[p].amt \in Nat
      BY <1>15, <1>c, <1>0, JobTypes DEF DropDebit, Good, Sane
  <2> QED BY <1>15, <1>0, <2>1, JobTypes, FirstWriteKeeps DEF DropDebit, PC
<1>16. ASSUME NEW p \in Procs, CreatePile(p) PROVE IInv'
  <2>1. pile' \in [Piles -> Nat] /\ born' \in SUBSET Piles
      BY <1>16, <1>0, JobTypes DEF CreatePile, TypeOK
  <2> QED BY <1>16, <1>0, <2>1, ReturnKeeps DEF CreatePile, Moves, TypeOK
<1>17. ASSUME NEW p \in Procs, DropCreateFails(p) PROVE IInv'
    BY <1>17, <1>0, <1>b, GotoKeeps DEF DropCreateFails, PC
<1>18. ASSUME NEW p \in Procs, GetRead(p) \/ RewardReread(p) PROVE IInv'
  <2>1. job[p].who \in Chars /\ (pc[p] = "getRead" => job[p].heap \in Piles)
      BY <1>18, <1>c DEF GetRead, RewardReread, Good, Sane
  <2>2. PICK l \in {"getCredit", "rewardAgain"} :
           /\ l = "getCredit" => pc[p] = "getRead"
           /\ job' = [job EXCEPT ![p].row = purse[job[p].who]] /\ pc' = [pc EXCEPT ![p] = l]
           /\ UNCHANGED <<purse, pile, born, faults>>
      BY <1>18 DEF GetRead, RewardReread
  <2>3. /\ job'[p] \in Job /\ job'[p].row = purse[job[p].who]
        /\ job'[p].who = job[p].who /\ job'[p].heap = job[p].heap
      BY <1>0, <1>a, <2>1, <2>2 DEF TypeOK, Job
  <2>4. TypeOK' /\ pc'[p] = l /\ OnlyBy(p) /\ Moves
      BY <1>0, <2>2, <2>3 DEF TypeOK, PC, OnlyBy, Moves
  <2>5. RowFresh(p)'
      BY <1>a, <2>1, <2>2, <2>3 DEF RowFresh, Row
  <2>6. PeerRowFresh(p)' /\ OwnWrite(p)' /\ Sane(p)'
      BY <2>1, <2>2, <2>3, <2>4 DEF PeerRowFresh, OwnWrite, MayUndo, Sane, Gives
  <2> QED BY <2>4, <2>5, <2>6, OneProcess DEF Good
<1>19. ASSUME NEW p \in Procs, GetImpossible(p) PROVE IInv'
    BY <1>19, <1>0, ReturnKeeps DEF GetImpossible, Moves, TypeOK
<1>20. ASSUME NEW p \in Procs, GetCredit(p) PROVE IInv'
  <2>1. /\ -job[p].amt \in Int /\ job[p].row.coin - (-job[p].amt) \in Nat
        /\ job[p].row.coin - (-job[p].amt) = job[p].row.coin + job[p].amt
      BY <1>0, JobTypes
  <2> QED BY <1>20, <1>0, <2>1, FirstWriteKeeps DEF GetCredit, PC
<1>21. ASSUME NEW p \in Procs, GetDelete(p) PROVE IInv'
    BY <1>21, <1>0, ReturnKeeps DEF GetDelete, Moves, TypeOK
<1>22. ASSUME NEW p \in Procs, GetDeleteRefused(p) PROVE IInv'
    BY <1>22, <1>0, <1>b, GotoKeeps DEF GetDeleteRefused, PC, TypeOK
<1>23. ASSUME NEW p \in Procs, Undo(p) PROVE IInv'
  <2>1. job[p].who \in Chars
      BY <1>23, <1>c DEF Undo, Good, Sane
  <2>2. Moves /\ purse' \in [Chars -> Row]
    <3>1. job[p].row.ver + 1 \in Nat
        BY <1>0, JobTypes
    <3> QED BY <1>23, <1>0, <2>1, <3>1, JobTypes, RecordCoinMoves DEF Undo
  <2> QED BY <1>23, <1>0, <2>2, ReturnKeeps DEF Undo, TypeOK
<1>24. ASSUME NEW p \in Procs, RollbackFailed(p) \/ DeathPileFails(p) \/ FirstWriteRefused(p)
       PROVE IInv'
  <2>1. Return(p) /\ UNCHANGED <<purse, pile, born>> /\ faults' \in Nat
      BY <1>24, <1>0, <1>b DEF RollbackFailed, DeathPileFails, FirstWriteRefused, TypeOK
  <2> QED BY <1>0, <2>1, ReturnKeeps DEF Moves, TypeOK
<1>25. ASSUME NEW p \in Procs, RewardWrite(p) PROVE IInv'
  <2>1. job[p].who \in Chars /\ job[p].row.coin + job[p].amt \in Nat
      BY <1>25, <1>c, <1>0, JobTypes DEF RewardWrite, Good, Sane
  <2>2. Moves /\ purse' \in [Chars -> Row]
      BY <1>25, <1>0, <2>1, JobTypes, RecordCoinMoves DEF RewardWrite
  <2> QED BY <1>25, <1>0, <2>2, ReturnKeeps DEF RewardWrite, TypeOK
<1>26. ASSUME NEW p \in Procs, DeathWrite(p) PROVE IInv'
  <2>1. job[p].who \in Chars
      BY <1>26, <1>c DEF DeathWrite, Good, Sane
  <2>2. Moves /\ purse' \in [Chars -> Row]
      BY <1>26, <1>0, <2>1, JobTypes, RecordCoinMoves DEF DeathWrite
  <2>3. TypeOK' /\ OnlyBy(p) /\ pc'[p] = "deathPile" /\ job' = job
      BY <1>26, <1>0, <2>2 DEF DeathWrite, Goto, TypeOK, PC, OnlyBy
  <2>4. Good(p)'
      BY <2>1, <2>3 DEF Good, RowFresh, HasRead, PeerRowFresh, OwnWrite, MayUndo, Sane, Gives
  <2> QED BY <2>2, <2>3, <2>4, OneProcess
<1>27. ASSUME NEW p \in Procs, RetryConflict(p) PROVE IInv'
    BY <1>27, <1>0, GotoKeeps DEF RetryConflict, PC, TypeOK
<1>28. ASSUME NEW p \in Procs, DeathReread(p) PROVE IInv'
  <2>1. job[p].who \in Chars /\ UNCHANGED <<purse, pile, born, faults>> /\ Moves
      BY <1>28, <1>c DEF DeathReread, Good, Sane, Moves
  <2>2. CASE purse[job[p].who].coin > 0
    <3>1. /\ job' = [job EXCEPT ![p].row = purse[job[p].who], ![p].amt = purse[job[p].who].coin]
          /\ pc' = [pc EXCEPT ![p] = "deathAgain"]
        BY <1>28, <2>2 DEF DeathReread
    <3>2. /\ job'[p] \in Job /\ job'[p].row = purse[job[p].who] /\ job'[p].who = job[p].who
          /\ job'[p].amt = purse[job[p].who].coin
        BY <1>0, <1>a, <2>1, <3>1 DEF TypeOK, Job
    <3>3. TypeOK' /\ pc'[p] = "deathAgain" /\ OnlyBy(p)
        BY <1>0, <2>1, <3>1, <3>2 DEF TypeOK, PC, OnlyBy
    <3>4. Good(p)'
        BY <1>a, <2>1, <3>2, <3>3 DEF Good, RowFresh, PeerRowFresh, OwnWrite, MayUndo, Sane, Gives, Row
    <3> QED BY <2>1, <3>3, <3>4, OneProcess
  <2>3. CASE ~(purse[job[p].who].coin > 0)
      BY <1>28, <1>0, <2>1, <2>3, ReturnKeeps DEF DeathReread, TypeOK
  <2> QED BY <2>2, <2>3
<1>29. ASSUME Crash PROVE IInv'
  <2>1. NoJob \in Job
      BY DEF NoJob, Job, NoRow, Row
  <2>2. TypeOK' /\ \A p \in Procs : pc'[p] = "idle"
      BY <1>29, <1>0, <1>b, <2>1 DEF Crash, TypeOK, PC
  <2>3. ASSUME NEW p \in Procs PROVE Good(p)'
      BY <2>2 DEF Good, RowFresh, HasRead, PeerRowFresh, OwnWrite, MayUndo, Sane, Gives
  <2> QED BY <2>2, <2>3 DEF IInv, Procs
<1>30. ASSUME NEW a \in Amounts, MobLoot(a) PROVE IInv'
  <2>1. TypeOK' /\ Moves
      BY <1>30, <1>0 DEF MobLoot, TypeOK, Moves
  <2>2. ASSUME NEW q \in Procs PROVE Good(q)'
      BY <1>30, <1>0, <2>1, <1>c, OthersKeep DEF MobLoot, IInv
  <2> QED BY <2>1, <2>2 DEF IInv, Procs
<1> QED BY <1>1, <1>2, <1>3, <1>4, <1>5, <1>6, <1>7, <1>8, <1>9, <1>10, <1>11, <1>12, <1>13, <1>14,
           <1>15, <1>16, <1>17, <1>18, <1>19, <1>20, <1>21, <1>22, <1>23, <1>24, <1>25, <1>26, <1>27,
           <1>28, <1>29, <1>30 DEF Next

LEMMA InitGood == Init => IInv
<1> SUFFICES ASSUME Init PROVE IInv
    OBVIOUS
<1>1. NoJob \in Job
    BY DEF NoJob, Job, NoRow, Row
<1>2. TypeOK
    BY <1>1, PurseConstants DEF Init, TypeOK, Row, PC
<1>3. ASSUME NEW p \in Procs PROVE Good(p)
    BY DEF Init, Good, RowFresh, HasRead, PeerRowFresh, OwnWrite, MayUndo, Sane, Gives
<1> QED BY <1>2, <1>3 DEF IInv

\* The inductive invariant of the purse: every snapshot a verb holds is the
\* row it was taken from unless the version moved, and a row one version past
\* a snapshot holds the verb's own write.
THEOREM PurseInvariant == Spec => []IInv
<1>1. IInv /\ UNCHANGED vars => IInv'
  <2> SUFFICES ASSUME IInv, UNCHANGED vars PROVE IInv'
      OBVIOUS
  <2>1. TypeOK /\ TypeOK' /\ Moves
      BY DEF IInv, TypeOK, vars, Moves
  <2>2. ASSUME NEW q \in Procs PROVE Good(q)'
      BY <2>1, OthersKeep DEF IInv, vars
  <2> QED BY <2>1, <2>2 DEF IInv, Procs
<1>2. IInv /\ [Next]_vars => IInv'
    BY <1>1, StepKeeps
<1> QED BY InitGood, <1>2, PTL DEF Spec

\* Balances never go negative: no verb debits more than the row holds when
\* the write lands (currency.Amount is signed, so nothing else would stop it).
THEOREM PurseTypes == Spec => []TypeOK
<1>1. IInv => TypeOK
    BY DEF IInv
<1> QED BY <1>1, PurseInvariant, PTL

\* A write of RecordCoin that is not refused never overwrites a change its
\* caller has not seen.
THEOREM NoLostUpdate == Spec => [](FreshWhenUnmoved /\ PeerFresh)
<1>1. IInv => FreshWhenUnmoved /\ PeerFresh
  <2> SUFFICES ASSUME IInv PROVE FreshWhenUnmoved /\ PeerFresh
      OBVIOUS
  <2>1. FreshWhenUnmoved
      BY DEF IInv, Good, RowFresh, FreshWhenUnmoved
  <2>2. PeerFresh
      BY DEF IInv, Good, PeerRowFresh, PeerFresh
  <2> QED BY <2>1, <2>2
<1> QED BY <1>1, PurseInvariant, PTL

\* The rollback of give, drop and get restores exactly what the verb took.
THEOREM RollbackExact == Spec => UndoIsExact
<1>1. IInv /\ [Next]_vars =>
        [\A p \in Procs : Undo(p) =>
            /\ purse'[job[p].who].coin = purse[job[p].who].coin + InFlight(p)
            /\ purse'[job[p].who].bank = purse[job[p].who].bank]_vars
  <2> SUFFICES ASSUME IInv, NEW p \in Procs, Undo(p)
               PROVE  /\ purse'[job[p].who].coin = purse[job[p].who].coin + InFlight(p)
                      /\ purse'[job[p].who].bank = purse[job[p].who].bank
      OBVIOUS
  <2> DEFINE j == job[p]
  <2>1. TypeOK /\ Good(p)
      BY DEF IInv
  <2>2. j.who \in Chars /\ MayUndo(p)
      BY <2>1 DEF Undo, Good, Sane, MayUndo
  <2>3. /\ j.row.coin \in Nat /\ j.row.bank \in Nat /\ j.row.ver \in Nat /\ j.row.ver + 1 \in Nat
        /\ j.amt \in Nat
      BY <2>1, JobTypes
  <2>4. RecordCoin(j.who, j.row.coin, j.row.bank, j.row.ver + 1)
      BY DEF Undo
  <2>5. /\ purse[j.who].ver = j.row.ver + 1
        /\ purse'[j.who].coin = j.row.coin /\ purse'[j.who].bank = j.row.bank
      BY <2>1, <2>2, <2>4 DEF RecordCoin, TypeOK
  <2>6. purse[j.who].coin = j.row.coin - InFlight(p) /\ purse[j.who].bank = j.row.bank
      BY <2>1, <2>2, <2>5 DEF Good, OwnWrite
  <2>7. InFlight(p) \in Int
      BY <2>3 DEF InFlight
  <2>8. j.row.coin = (j.row.coin - InFlight(p)) + InFlight(p)
      BY <2>3, <2>7
  <2> QED BY <2>5, <2>6, <2>8
<1> QED BY <1>1, PurseInvariant, PTL DEF Spec, UndoIsExact

\* Dying moves the purse as it is when it is emptied.
THEOREM DeathExact == Spec => DeathTakesAll
<1>1. IInv /\ [Next]_vars =>
        [\A p \in Procs : DeathWrite(p) => job[p].amt = purse[job[p].who].coin]_vars
  <2> SUFFICES ASSUME IInv, NEW p \in Procs, DeathWrite(p)
               PROVE  job[p].amt = purse[job[p].who].coin
      OBVIOUS
  <2>1. TypeOK /\ Good(p) /\ HasRead(p)
      BY DEF IInv, DeathWrite, HasRead
  <2>2. job[p].row.ver = purse[job[p].who].ver /\ job[p].amt = job[p].row.coin
      BY <2>1 DEF DeathWrite, RecordCoin, Good, Sane
  <2> QED BY <2>1, <2>2 DEF Good, RowFresh
<1> QED BY <1>1, PurseInvariant, PTL DEF Spec, DeathTakesAll

\* Every verb holds the current columns of the rows its next write goes to, as
\* long as their versions are the ones it has read.
THEOREM MatchAlwaysCurrent == Spec => []MatchMeansCurrent
<1>1. TypeOK /\ FreshWhenUnmoved /\ PeerFresh => MatchMeansCurrent
    BY DEF MatchMeansCurrent
<1> QED BY <1>1, PurseTypes, NoLostUpdate, PTL

\* A rollback and a death write what the row of the moment calls for.
THEOREM DelicateAlwaysExact == Spec => DelicateWritesExact
<1> QED BY RollbackExact, DeathExact DEF DelicateWritesExact
-----------------------------------------------------------------------------
(* Nothing is lost.  A step changes one purse, one pile and the hands of   *)
(* one process, so the sums change by what those change by.                *)

\* A pile a verb has seen holds what the verb saw, or is gone: pile ids are
\* not handed out twice.
PilesSeen ==
    /\ \A i \in Piles \ born : pile[i] = 0
    /\ \A p \in Procs : pc[p] \in {"getRead", "getCredit", "getDelete"} =>
          job[p].heap \in born /\ pile[job[p].heap] \in {0, job[p].amt}

Books == IInv /\ PilesSeen /\ leaked \in Int /\ minted \in Int /\ Accounted

LEMMA ProcsFinite == IsFiniteSet(Procs) /\ IsFiniteSet(Chars) /\ IsFiniteSet(Piles)
BY PurseConstants, FS_Union DEF Procs

\* What a process carries is a whole amount.
LEMMA CarriedTyped ==
    ASSUME TypeOK
    PROVE  /\ Carried \in [Procs -> Int] /\ Coins \in [Chars -> Int] /\ pile \in [Piles -> Int]
           /\ SumFunction(Carried) \in Int /\ SumFunction(Coins) \in Int /\ SumFunction(pile) \in Int
           /\ \A p \in Procs : InFlight(p) \in Int
<1>1. ASSUME NEW p \in Procs PROVE InFlight(p) \in Int
  <2>1. job[p].amt \in Nat
    BY JobTypes
  <2> QED BY <2>1 DEF InFlight
<1>2. ASSUME NEW c \in Chars PROVE purse[c].coin + purse[c].bank \in Int
  BY DEF TypeOK, Row
<1>3. Carried \in [Procs -> Int]
  BY <1>1 DEF Carried
<1>4. Coins \in [Chars -> Int]
  BY <1>2 DEF Coins
<1>5. pile \in [Piles -> Int]
  BY DEF TypeOK
<1> QED BY <1>1, <1>3, <1>4, <1>5, ProcsFinite, SumIsInt

\* One process's step moves what that process carries.
LEMMA HandsMove ==
    ASSUME TypeOK, TypeOK', NEW p \in Procs, OnlyBy(p)
    PROVE  /\ InFlight(p)' \in Int
           /\ SumFunction(Carried)' = SumFunction(Carried) + InFlight(p)' - InFlight(p)
<1>1. Carried \in [Procs -> Int] /\ Carried[p] = InFlight(p)
  BY CarriedTyped DEF Carried
<1>2. InFlight(p)' \in Int
  <2>1. job'[p].amt \in Nat
    BY DEF TypeOK, Job
  <2> QED BY <2>1 DEF InFlight
<1>3. ASSUME NEW q \in Procs, q # p PROVE InFlight(q)' = InFlight(q)
  BY <1>3 DEF OnlyBy, InFlight
<1>4. Carried' = [Carried EXCEPT ![p] = InFlight(p)']
  <2>1. \A q \in Procs : InFlight(q)' = IF q = p THEN InFlight(p)' ELSE Carried[q]
    BY <1>3 DEF Carried
  <2>2. Carried' = [q \in Procs |-> InFlight(q)']
    BY DEF Carried
  <2>3. [Carried EXCEPT ![p] = InFlight(p)'] = [q \in Procs |-> IF q = p THEN InFlight(p)' ELSE Carried[q]]
    BY <1>1
  <2> QED BY <2>1, <2>2, <2>3
<1>5. SumFunction([Carried EXCEPT ![p] = InFlight(p)']) = SumFunction(Carried) + InFlight(p)' - Carried[p]
  BY <1>1, <1>2, ProcsFinite, SumUpdate
<1> QED BY <1>1, <1>2, <1>4, <1>5

\* A write of one row moves the coin of that row.
LEMMA CoinsMove ==
    ASSUME TypeOK, NEW c \in Chars, NEW r \in Row, purse' = [purse EXCEPT ![c] = r]
    PROVE  SumFunction(Coins)' = SumFunction(Coins) + (r.coin + r.bank) - (purse[c].coin + purse[c].bank)
<1>1. Coins \in [Chars -> Int] /\ Coins[c] = purse[c].coin + purse[c].bank
  BY CarriedTyped DEF Coins
<1>2. r.coin + r.bank \in Int
  BY DEF Row
<1>3. Coins' = [Coins EXCEPT ![c] = r.coin + r.bank]
  <2>1. ASSUME NEW d \in Chars
        PROVE  purse'[d].coin + purse'[d].bank = IF d = c THEN r.coin + r.bank ELSE Coins[d]
    <3>1. CASE d = c
      BY <3>1 DEF TypeOK
    <3>2. CASE d # c
      <4>1. purse'[d] = purse[d]
        BY <3>2 DEF TypeOK
      <4> QED BY <3>2, <4>1 DEF Coins
    <3> QED BY <3>1, <3>2
  <2>2. Coins' = [d \in Chars |-> purse'[d].coin + purse'[d].bank]
    BY DEF Coins
  <2>3. [Coins EXCEPT ![c] = r.coin + r.bank] = [d \in Chars |-> IF d = c THEN r.coin + r.bank ELSE Coins[d]]
    BY <1>1
  <2> QED BY <2>1, <2>2, <2>3
<1>4. SumFunction([Coins EXCEPT ![c] = r.coin + r.bank]) = SumFunction(Coins) + (r.coin + r.bank) - Coins[c]
  BY <1>1, <1>2, ProcsFinite, SumUpdate
<1> QED BY <1>1, <1>3, <1>4

LEMMA CoinsStay == UNCHANGED purse => SumFunction(Coins)' = SumFunction(Coins)
BY DEF Coins

\* A RecordCoin whose version matches a current snapshot moves the coin by the
\* difference to the snapshot.
LEMMA RecordedCoins ==
    ASSUME TypeOK, NEW c \in Chars, NEW coin \in Nat, NEW bank \in Nat, NEW r \in Row,
           NEW v \in Nat, RecordCoin(c, coin, bank, v), purse[c] = r
    PROVE  SumFunction(Coins)' = SumFunction(Coins) + (coin + bank) - (r.coin + r.bank)
<1> DEFINE s == [coin |-> coin, bank |-> bank, ver |-> v + 1]
<1>1. purse' = [purse EXCEPT ![c] = s]
  BY DEF RecordCoin
<1>2. s \in Row /\ s.coin = coin /\ s.bank = bank
  BY DEF Row
<1> HIDE DEF s
<1> QED BY <1>1, <1>2, CoinsMove

\* A pile that is put down or taken up moves the piles by its coin.
LEMMA PilesMove ==
    ASSUME TypeOK, NEW i \in Piles, NEW v \in Int, pile' = [pile EXCEPT ![i] = v]
    PROVE  SumFunction(pile)' = SumFunction(pile) + v - pile[i]
<1>1. pile \in [Piles -> Int]
  BY CarriedTyped
<1>2. SumFunction([pile EXCEPT ![i] = v]) = SumFunction(pile) + v - pile[i]
  BY <1>1, ProcsFinite, SumUpdate
<1> QED BY <1>2

LEMMA PilesStay == UNCHANGED pile => SumFunction(pile)' = SumFunction(pile)
OBVIOUS

\* Adding up.
LEMMA Addition ==
    \A a, b, c, l, m, x, y, z, u, w \in Int :
        a + b + c + l = m /\ x + y + z + u = w
        => (a + x) + (b + y) + (c + z) + (l + u) = m + w
OBVIOUS

\* The books balance when what went into the game is what moved.
LEMMA Balances ==
    ASSUME TypeOK, Accounted, leaked \in Int, minted \in Int,
           NEW x \in Int, NEW y \in Int, NEW z \in Int, NEW u \in Int, NEW w \in Int,
           SumFunction(Coins)' = SumFunction(Coins) + x,
           SumFunction(pile)' = SumFunction(pile) + y,
           SumFunction(Carried)' = SumFunction(Carried) + z,
           leaked' = leaked + u, minted' = minted + w,
           x + y + z + u = w
    PROVE  Accounted' /\ leaked' \in Int /\ minted' \in Int
<1> DEFINE a == SumFunction(Coins)
           b == SumFunction(pile)
           c == SumFunction(Carried)
           aa == SumFunction(Coins)'
           bb == SumFunction(pile)'
           cc == SumFunction(Carried)'
<1>1. a \in Int /\ b \in Int /\ c \in Int
  BY CarriedTyped
<1>2. a + b + c + leaked = minted
  BY DEF Accounted, Wealth
<1>3. aa = a + x /\ bb = b + y /\ cc = c + z
  OBVIOUS
<1>5. (a + b + c + leaked)' = aa + bb + cc + leaked'
  OBVIOUS
<1>6. Accounted' <=> aa + bb + cc + leaked' = minted'
  BY <1>5 DEF Accounted, Wealth
<1> HIDE DEF a, b, c, aa, bb, cc
<1>4. aa + bb + cc + leaked' = minted'
  BY <1>1, <1>2, <1>3, Addition
<1> QED BY <1>4, <1>6
\* A step of p alone: the coin of its verb, of the rows, the piles and the
\* write-offs moves, and adds up.
LEMMA Moved ==
    ASSUME TypeOK, TypeOK', Accounted, leaked \in Int, minted \in Int,
           NEW p \in Procs, OnlyBy(p),
           NEW x \in Int, NEW y \in Int, NEW u \in Int, NEW w \in Int,
           SumFunction(Coins)' = SumFunction(Coins) + x,
           SumFunction(pile)' = SumFunction(pile) + y,
           leaked' = leaked + u, minted' = minted + w,
           x + y + (InFlight(p)' - InFlight(p)) + u = w
    PROVE  Accounted' /\ leaked' \in Int /\ minted' \in Int
<1> DEFINE z == InFlight(p)' - InFlight(p)
<1>1. InFlight(p)' \in Int /\ InFlight(p) \in Int /\ SumFunction(Carried) \in Int
  BY HandsMove, CarriedTyped
<1>2. SumFunction(Carried)' = SumFunction(Carried) + InFlight(p)' - InFlight(p)
  BY HandsMove
<1>3. z \in Int /\ SumFunction(Carried)' = SumFunction(Carried) + z
  BY <1>1, <1>2
<1>4. x + y + z + u = w
  OBVIOUS
<1> HIDE DEF z
<1> QED BY <1>3, <1>4, Balances

\* The piles p's verb has seen, after a step of p that leaves the piles alone.
LEMMA SeenKeeps ==
    ASSUME PilesSeen, NEW p \in Procs, OnlyBy(p), UNCHANGED <<pile, born>>,
           pc'[p] \in {"getRead", "getCredit", "getDelete"} =>
              job'[p].heap \in born /\ pile[job'[p].heap] \in {0, job'[p].amt}
    PROVE  PilesSeen'
<1>1. \A i \in Piles \ born : pile[i] = 0
  BY DEF PilesSeen
<1>2. ASSUME NEW q \in Procs, pc'[q] \in {"getRead", "getCredit", "getDelete"}
      PROVE  job'[q].heap \in born /\ pile[job'[q].heap] \in {0, job'[q].amt}
  <2>1. CASE q = p
    BY <1>2, <2>1
  <2>2. CASE q # p
    <3>1. pc'[q] = pc[q] /\ job'[q] = job[q]
      BY <2>2 DEF OnlyBy
    <3> QED BY <1>2, <3>1 DEF PilesSeen
  <2> QED BY <2>1, <2>2
<1> QED BY <1>1, <1>2 DEF PilesSeen

\* A step that moves no coin.
LEMMA Quiet ==
    ASSUME Books, IInv', NEW p \in Procs, OnlyBy(p),
           UNCHANGED <<purse, pile, born, leaked, minted>>,
           InFlight(p)' = InFlight(p),
           pc'[p] \in {"getRead", "getCredit", "getDelete"} =>
              job'[p].heap \in born /\ pile[job'[p].heap] \in {0, job'[p].amt}
    PROVE  Books'
<1>1. PilesSeen'
  BY SeenKeeps DEF Books
<1>2. TypeOK /\ TypeOK' /\ Accounted /\ leaked \in Int /\ minted \in Int
  BY DEF Books, IInv
<1>3. InFlight(p) \in Int /\ SumFunction(Coins) \in Int /\ SumFunction(pile) \in Int
  BY <1>2, CarriedTyped
<1>4. /\ SumFunction(Coins)' = SumFunction(Coins) + 0 /\ SumFunction(pile)' = SumFunction(pile) + 0
      /\ leaked' = leaked + 0 /\ minted' = minted + 0
      /\ 0 + 0 + (InFlight(p)' - InFlight(p)) + 0 = 0
  BY <1>2, <1>3, CoinsStay, PilesStay
<1>5. Accounted' /\ leaked' \in Int /\ minted' \in Int
  BY <1>2, <1>4, Moved
<1> QED BY <1>1, <1>5 DEF Books

\* A verb that starts.
LEMMA StartQuiet ==
    ASSUME Books, IInv', NEW p \in Procs, NEW j,
           NEW l \in {"deposit", "withdraw", "giveRead", "dropDebit", "getRead", "reward", "death"},
           Start(p, j, l), l = "getRead" => j.heap \in born /\ pile[j.heap] = j.amt
    PROVE  Books'
<1>1. /\ pc' = [pc EXCEPT ![p] = l] /\ job' = [job EXCEPT ![p] = j] /\ pc[p] = "idle"
      /\ UNCHANGED <<purse, pile, born, leaked, minted>>
  BY DEF Start
<1>2. pc'[p] = l /\ job'[p] = j /\ OnlyBy(p)
  BY <1>1 DEF Books, IInv, TypeOK, OnlyBy
<1>3. InFlight(p)' = InFlight(p)
  BY <1>1, <1>2 DEF InFlight
<1> QED BY <1>1, <1>2, <1>3, Quiet

\* A verb that returns with nothing in its hands.
LEMMA ReturnQuiet ==
    ASSUME Books, IInv', NEW p \in Procs, Return(p), InFlight(p) = 0,
           UNCHANGED <<purse, pile, born, leaked, minted>>
    PROVE  Books'
<1>1. pc'[p] = "idle" /\ OnlyBy(p)
  BY DEF Books, IInv, TypeOK, OnlyBy, Return
<1>2. InFlight(p)' = InFlight(p)
  BY <1>1 DEF InFlight
<1> QED BY <1>1, <1>2, Quiet

\* A verb that goes on with the same in its hands.
LEMMA GotoQuiet ==
    ASSUME Books, IInv', NEW p \in Procs, NEW l \in PC, Goto(p, l),
           UNCHANGED <<purse, pile, born, leaked, minted>>,
           <<pc[p], l>> \in {<<"giveCredit", "giveUndo">>, <<"dropCreate", "dropUndo">>,
                            <<"getDelete", "getUndo">>, <<"reward", "rewardReread">>,
                            <<"death", "deathReread">>}
    PROVE  Books'
<1>1. pc'[p] = l /\ OnlyBy(p) /\ job' = job
  BY DEF Books, IInv, TypeOK, OnlyBy, Goto
<1>2. InFlight(p)' = InFlight(p)
  BY <1>1 DEF InFlight
<1> QED BY <1>1, <1>2, Quiet

\* A step that writes one row and leaves the piles alone.
LEMMA RowBooks ==
    ASSUME Books, IInv', NEW p \in Procs, OnlyBy(p), NEW x \in Int, NEW w \in Int,
           SumFunction(Coins)' = SumFunction(Coins) + x,
           UNCHANGED <<pile, born, leaked>>, minted' = minted + w,
           x + (InFlight(p)' - InFlight(p)) = w,
           pc'[p] \in {"getRead", "getCredit", "getDelete"} =>
              job'[p].heap \in born /\ pile[job'[p].heap] \in {0, job'[p].amt}
    PROVE  Books'
<1>1. PilesSeen'
  BY SeenKeeps DEF Books
<1>2. TypeOK /\ TypeOK' /\ Accounted /\ leaked \in Int /\ minted \in Int
  BY DEF Books, IInv
<1>3. InFlight(p) \in Int /\ InFlight(p)' \in Int /\ SumFunction(pile) \in Int
  BY <1>2, CarriedTyped, HandsMove
<1>4. /\ SumFunction(pile)' = SumFunction(pile) + 0
      /\ leaked' = leaked + 0
      /\ x + 0 + (InFlight(p)' - InFlight(p)) + 0 = w
  BY <1>2, <1>3, PilesStay
<1>5. Accounted' /\ leaked' \in Int /\ minted' \in Int
  BY <1>2, <1>4, Moved
<1> QED BY <1>1, <1>5 DEF Books

\* A first write, an undo or a credit through RecordCoin.
LEMMA RecordBooks ==
    ASSUME Books, IInv', NEW p \in Procs, OnlyBy(p), NEW c \in Chars,
           NEW coin \in Nat, NEW bank \in Nat, NEW v \in Nat, NEW w \in Int,
           RecordCoin(c, coin, bank, v),
           UNCHANGED <<pile, born, leaked>>, minted' = minted + w,
           (coin + bank) - (purse[c].coin + purse[c].bank) + (InFlight(p)' - InFlight(p)) = w,
           pc'[p] \in {"getRead", "getCredit", "getDelete"} =>
              job'[p].heap \in born /\ pile[job'[p].heap] \in {0, job'[p].amt}
    PROVE  Books'
<1> DEFINE r == purse[c]
           x == (coin + bank) - (r.coin + r.bank)
<1>1. r \in Row /\ TypeOK
  BY DEF Books, IInv, TypeOK
<1>2. x \in Int
  BY <1>1 DEF Row
<1>3. SumFunction(Coins)' = SumFunction(Coins) + (coin + bank) - (r.coin + r.bank)
  BY <1>1, RecordedCoins
<1>4. SumFunction(Coins) \in Int /\ r.coin \in Int /\ r.bank \in Int
  BY <1>1, CarriedTyped DEF Row
<1>5. SumFunction(Coins)' = SumFunction(Coins) + x
  BY <1>3, <1>4
<1>6. x + (InFlight(p)' - InFlight(p)) = w
  OBVIOUS
<1> HIDE DEF x
<1> QED BY <1>2, <1>5, <1>6, RowBooks
-----------------------------------------------------------------------------
\* What a verb's first write finds: the row it has read.
LEMMA FirstWriteFinds ==
    ASSUME IInv, NEW p \in Procs, HasRead(p), purse[job[p].who].ver = job[p].row.ver
    PROVE  purse[job[p].who] = job[p].row /\ job[p].who \in Chars
BY DEF IInv, Good, RowFresh, Sane, HasRead

\* The only process whose coin moved is p when the step is a Return or a Goto.
LEMMA ReturnsAlone ==
    ASSUME TypeOK, NEW p \in Procs, Return(p)
    PROVE  OnlyBy(p) /\ pc'[p] = "idle" /\ InFlight(p)' = 0
BY DEF Return, OnlyBy, TypeOK, InFlight

LEMMA GoesAlone ==
    ASSUME TypeOK, NEW p \in Procs, NEW l, Goto(p, l)
    PROVE  OnlyBy(p) /\ pc'[p] = l /\ job' = job
BY DEF Goto, OnlyBy, TypeOK

\* A debit or a credit that ends the verb's first half.
LEMMA DebitBooks ==
    ASSUME Books, IInv', NEW p \in Procs, NEW l, NEW d \in Int, Goto(p, l), HasRead(p),
           RecordCoin(job[p].who, job[p].row.coin - d, job[p].row.bank, job[p].row.ver),
           job[p].row.coin - d \in Nat, UNCHANGED <<pile, born, leaked, minted>>,
           \/ pc[p] = "giveDebit" /\ l = "giveCredit" /\ d = job[p].amt
           \/ pc[p] = "dropDebit" /\ l = "dropCreate" /\ d = job[p].amt
           \/ pc[p] = "getCredit" /\ l = "getDelete" /\ d = -job[p].amt
           \/ pc[p] \in {"death", "deathAgain"} /\ l = "deathPile" /\ d = job[p].amt
    PROVE  Books'
<1>1. IInv /\ TypeOK /\ PilesSeen /\ minted \in Int
  BY DEF Books, IInv
<1>2. OnlyBy(p) /\ pc'[p] = l /\ job' = job
  BY <1>1, GoesAlone
<1>3. purse[job[p].who] = job[p].row /\ job[p].who \in Chars
  BY <1>1, FirstWriteFinds DEF RecordCoin
<1>4. InFlight(p)' = d /\ InFlight(p) = 0
  BY <1>2 DEF InFlight
<1>5. job[p].row.coin \in Nat /\ job[p].row.bank \in Nat /\ job[p].row.ver \in Nat
  BY <1>1, JobTypes
<1>6. (job[p].row.coin - d + job[p].row.bank) - (purse[job[p].who].coin + purse[job[p].who].bank)
        + (InFlight(p)' - InFlight(p)) = 0
  BY <1>3, <1>4, <1>5
<1>7. pc'[p] \in {"getRead", "getCredit", "getDelete"} =>
          job'[p].heap \in born /\ pile[job'[p].heap] \in {0, job'[p].amt}
  BY <1>1, <1>2 DEF PilesSeen
<1>8. minted' = minted + 0
  BY <1>1
<1> QED BY <1>2, <1>3, <1>5, <1>6, <1>7, <1>8, RecordBooks

\* A write that ends the verb: deposit, withdraw, a reward, the second half
\* of a gift, an undo.
LEMMA LastBooks ==
    ASSUME Books, IInv', NEW p \in Procs, Return(p), NEW c \in Chars,
           NEW coin \in Nat, NEW bank \in Nat, NEW v \in Nat, NEW w \in Int,
           RecordCoin(c, coin, bank, v),
           UNCHANGED <<pile, born, leaked>>, minted' = minted + w,
           (coin + bank) - (purse[c].coin + purse[c].bank) - InFlight(p) = w
    PROVE  Books'
<1>1. TypeOK
  BY DEF Books, IInv
<1>2. OnlyBy(p) /\ pc'[p] = "idle" /\ InFlight(p)' = 0 /\ InFlight(p) \in Int
  BY <1>1, ReturnsAlone, CarriedTyped
<1>3. purse[c].coin \in Nat /\ purse[c].bank \in Nat
  BY <1>1 DEF TypeOK, Row
<1>4. (coin + bank) - (purse[c].coin + purse[c].bank) + (InFlight(p)' - InFlight(p)) = w
  BY <1>2, <1>3
<1>5. pc'[p] \in {"getRead", "getCredit", "getDelete"} =>
          job'[p].heap \in born /\ pile[job'[p].heap] \in {0, job'[p].amt}
  BY <1>2
<1> QED BY <1>2, <1>4, <1>5, RecordBooks

\* What is written off is what the verb had in its hands.
LEMMA WriteOffBooks ==
    ASSUME Books, IInv', NEW p \in Procs, Return(p), leaked' = leaked + InFlight(p),
           UNCHANGED <<purse, pile, born, minted>>
    PROVE  Books'
<1>1. TypeOK /\ TypeOK' /\ PilesSeen /\ Accounted /\ leaked \in Int /\ minted \in Int
  BY DEF Books, IInv
<1>2. OnlyBy(p) /\ pc'[p] = "idle" /\ InFlight(p)' = 0 /\ InFlight(p) \in Int
  BY <1>1, ReturnsAlone, CarriedTyped
<1>3. PilesSeen'
  BY <1>1, <1>2, SeenKeeps
<1>4. SumFunction(Coins) \in Int /\ SumFunction(pile) \in Int
  BY <1>1, CarriedTyped
<1>5. /\ SumFunction(Coins)' = SumFunction(Coins) + 0 /\ SumFunction(pile)' = SumFunction(pile) + 0
      /\ minted' = minted + 0 /\ 0 + 0 + (InFlight(p)' - InFlight(p)) + InFlight(p) = 0
  BY <1>1, <1>2, <1>4, CoinsStay, PilesStay
<1>6. Accounted' /\ leaked' \in Int /\ minted' \in Int
  BY <1>1, <1>2, <1>5, Moved
<1> QED BY <1>3, <1>6 DEF Books

\* A new pile has an id nobody has seen.
LEMMA NewPileBooks ==
    ASSUME Books, IInv', NEW p \in Procs, OnlyBy(p), NEW i \in Piles \ born, NEW v \in Nat,
           NEW w \in Int, born' = born \cup {i}, pile' = [pile EXCEPT ![i] = v],
           UNCHANGED <<purse, leaked>>, minted' = minted + w,
           v + (InFlight(p)' - InFlight(p)) = w,
           pc'[p] = "idle" \/ (pc'[p] = pc[p] /\ job'[p] = job[p])
    PROVE  Books'
<1>1. TypeOK /\ TypeOK' /\ PilesSeen /\ Accounted /\ leaked \in Int /\ minted \in Int
  BY DEF Books, IInv
<1>2. pile \in [Piles -> Nat] /\ pile[i] = 0
  BY <1>1 DEF TypeOK, PilesSeen
<1>3. PilesSeen'
  <2>1. ASSUME NEW h \in Piles \ born' PROVE pile'[h] = 0
    <3>1. h \in Piles \ born /\ h # i
      OBVIOUS
    <3> QED BY <1>1, <1>2, <3>1 DEF PilesSeen
  <2>2. ASSUME NEW q \in Procs, pc'[q] \in {"getRead", "getCredit", "getDelete"}
        PROVE  job'[q].heap \in born' /\ pile'[job'[q].heap] \in {0, job'[q].amt}
    <3>1. pc'[q] = pc[q] /\ job'[q] = job[q]
      BY <2>2 DEF OnlyBy
    <3>2. job[q].heap \in born /\ pile[job[q].heap] \in {0, job[q].amt}
      BY <1>1, <2>2, <3>1 DEF PilesSeen
    <3>3. job[q].heap \in Piles /\ job[q].heap # i
      BY <1>1, <3>2 DEF TypeOK
    <3> QED BY <1>2, <3>1, <3>2, <3>3
  <2> QED BY <2>1, <2>2 DEF PilesSeen
<1>4. SumFunction(Coins) \in Int /\ SumFunction(pile) \in Int /\ v \in Int /\ i \in Piles
  BY <1>1, CarriedTyped
<1>5. SumFunction(pile)' = SumFunction(pile) + v
  <2>1. SumFunction(pile)' = SumFunction(pile) + v - pile[i]
    BY <1>1, <1>4, PilesMove
  <2> QED BY <1>2, <1>4, <2>1
<1>6. InFlight(p) \in Int /\ InFlight(p)' \in Int
  BY <1>1, CarriedTyped, HandsMove
<1>7. /\ SumFunction(Coins)' = SumFunction(Coins) + 0
      /\ leaked' = leaked + 0 /\ 0 + v + (InFlight(p)' - InFlight(p)) + 0 = w
  BY <1>1, <1>4, <1>6, CoinsStay
<1>8. Accounted' /\ leaked' \in Int /\ minted' \in Int
  <2>1. TypeOK /\ TypeOK' /\ Accounted /\ leaked \in Int /\ minted \in Int
    BY <1>1
  <2>2. 0 \in Int /\ v \in Int
    BY <1>4
  <2>3. SumFunction(Coins)' = SumFunction(Coins) + 0 /\ leaked' = leaked + 0
    BY <1>7
  <2>4. 0 + v + (InFlight(p)' - InFlight(p)) + 0 = w
    BY <1>7
  <2> QED BY <1>5, <2>1, <2>2, <2>3, <2>4, Moved, Zenon
<1> QED BY <1>3, <1>8 DEF Books

\* Taking up a pile somebody else has not taken.
LEMMA GetDeleteBooks ==
    ASSUME Books, IInv', NEW p \in Procs, GetDelete(p)
    PROVE  Books'
<1> DEFINE h == job[p].heap
<1>1. TypeOK /\ TypeOK' /\ PilesSeen /\ Accounted /\ leaked \in Int /\ minted \in Int
  BY DEF Books, IInv
<1>2. /\ pc[p] = "getDelete" /\ pile[h] > 0 /\ pile' = [pile EXCEPT ![h] = 0] /\ Return(p)
      /\ UNCHANGED <<purse, born, leaked, minted>>
  BY DEF GetDelete
<1>3. OnlyBy(p) /\ pc'[p] = "idle" /\ InFlight(p)' = 0
  BY <1>1, <1>2, ReturnsAlone
<1>4. h \in born /\ h \in Piles /\ pile[h] = job[p].amt /\ pile \in [Piles -> Nat]
  BY <1>1, <1>2 DEF PilesSeen, TypeOK
<1>5. job[p].amt \in Nat /\ InFlight(p) = -job[p].amt
  BY <1>1, <1>2, JobTypes DEF InFlight
<1>6. PilesSeen'
  <2>1. ASSUME NEW i \in Piles \ born' PROVE pile'[i] = 0
    BY <1>1, <1>2, <1>4 DEF PilesSeen
  <2>2. ASSUME NEW q \in Procs, pc'[q] \in {"getRead", "getCredit", "getDelete"}
        PROVE  job'[q].heap \in born' /\ pile'[job'[q].heap] \in {0, job'[q].amt}
    <3>1. pc'[q] = pc[q] /\ job'[q] = job[q]
      BY <2>2, <1>3 DEF OnlyBy
    <3>2. job[q].heap \in born /\ pile[job[q].heap] \in {0, job[q].amt}
      BY <1>1, <2>2, <3>1 DEF PilesSeen
    <3>3. job[q].heap \in Piles
      BY <1>1, <3>2 DEF TypeOK
    <3> QED BY <1>2, <1>4, <3>1, <3>2, <3>3
  <2> QED BY <2>1, <2>2 DEF PilesSeen
<1>7. SumFunction(Coins) \in Int /\ SumFunction(pile) \in Int
  BY <1>1, CarriedTyped
<1>8. SumFunction(pile)' = SumFunction(pile) + (-job[p].amt)
  <2> HIDE DEF h
  <2>1. TypeOK /\ h \in Piles /\ 0 \in Int /\ pile' = [pile EXCEPT ![h] = 0]
    BY <1>1, <1>2, <1>4
  <2>2. SumFunction(pile)' = SumFunction(pile) + 0 - pile[h]
    BY <2>1, PilesMove, Zenon
  <2> QED BY <1>4, <1>5, <1>7, <2>2
<1>9. Accounted' /\ leaked' \in Int /\ minted' \in Int
  <2>1. TypeOK /\ TypeOK' /\ Accounted /\ leaked \in Int /\ minted \in Int
    BY <1>1
  <2>2. 0 \in Int /\ -job[p].amt \in Int
    BY <1>5
  <2>3. SumFunction(Coins)' = SumFunction(Coins) + 0 /\ leaked' = leaked + 0 /\ minted' = minted + 0
    BY <1>1, <1>2, <1>7, CoinsStay
  <2>4. 0 + (-job[p].amt) + (InFlight(p)' - InFlight(p)) + 0 = 0
    BY <1>3, <1>5
  <2> QED BY <1>3, <1>8, <2>1, <2>2, <2>3, <2>4, Moved, Zenon
<1> QED BY <1>6, <1>9 DEF Books

\* A crash writes off whatever was in anybody's hands.
LEMMA CrashBooks ==
    ASSUME Books, IInv', Crash
    PROVE  Books'
<1>1. TypeOK /\ TypeOK' /\ PilesSeen /\ Accounted /\ leaked \in Int /\ minted \in Int
  BY DEF Books, IInv
<1>2. /\ leaked' = leaked + SumFunction(Carried) /\ pc' = [p \in Procs |-> "idle"]
      /\ UNCHANGED <<purse, pile, born, minted>>
  BY DEF Crash
<1>3. PilesSeen'
  BY <1>1, <1>2 DEF PilesSeen
<1>4. Carried' = [p \in Procs |-> 0]
  BY <1>2 DEF Carried, InFlight
<1>5. SumFunction(Carried)' = 0
  <2>1. Cardinality(Procs) \in Int /\ IsFiniteSet(Procs)
    BY ProcsFinite, FS_CardinalityType
  <2>2. SumFunction([p \in Procs |-> 0]) = 0 * Cardinality(Procs)
    <3>1. 0 \in Int
      OBVIOUS
    <3> QED BY <2>1, <3>1, SumConstant, Zenon
  <2> QED BY <1>4, <2>1, <2>2
<1>6. SumFunction(Carried) \in Int /\ SumFunction(Coins) \in Int /\ SumFunction(pile) \in Int
  BY <1>1, CarriedTyped
<1> DEFINE z == -SumFunction(Carried)
<1>7. z \in Int /\ 0 \in Int /\ SumFunction(Carried)' = SumFunction(Carried) + z
  BY <1>5, <1>6
<1>8. /\ SumFunction(Coins)' = SumFunction(Coins) + 0 /\ SumFunction(pile)' = SumFunction(pile) + 0
      /\ minted' = minted + 0
  BY <1>1, <1>2, <1>6, CoinsStay, PilesStay
<1>9. 0 + 0 + z + SumFunction(Carried) = 0
  BY <1>6
<1> HIDE DEF z
<1>10. Accounted' /\ leaked' \in Int /\ minted' \in Int
  <2>1. TypeOK /\ Accounted /\ leaked \in Int /\ minted \in Int
    BY <1>1
  <2>2. leaked' = leaked + SumFunction(Carried)
    BY <1>2
  <2> QED BY <1>6, <1>7, <1>8, <1>9, <2>1, <2>2, Balances, Zenon
<1> QED BY <1>3, <1>10 DEF Books

\* A mob's purse is new coin.
LEMMA MobLootBooks ==
    ASSUME Books, IInv', NEW a \in Amounts, MobLoot(a)
    PROVE  Books'
<1>1. TypeOK /\ TypeOK' /\ PilesSeen /\ Accounted /\ leaked \in Int /\ minted \in Int /\ a \in Nat
  BY PurseConstants DEF Books, IInv
<1>2. PICK i \in Piles \ born : born' = born \cup {i} /\ pile' = [pile EXCEPT ![i] = a]
  BY DEF MobLoot
<1>3. minted' = minted + a /\ UNCHANGED <<purse, pc, job, leaked>>
  BY DEF MobLoot
<1>4. pile \in [Piles -> Nat] /\ pile[i] = 0
  BY <1>1, <1>2 DEF TypeOK, PilesSeen
<1>5. PilesSeen'
  <2>1. ASSUME NEW h \in Piles \ born' PROVE pile'[h] = 0
    BY <1>1, <1>2, <1>4 DEF PilesSeen
  <2>2. ASSUME NEW q \in Procs, pc'[q] \in {"getRead", "getCredit", "getDelete"}
        PROVE  job'[q].heap \in born' /\ pile'[job'[q].heap] \in {0, job'[q].amt}
    <3>1. job[q].heap \in born /\ pile[job[q].heap] \in {0, job[q].amt}
      BY <1>1, <1>3, <2>2 DEF PilesSeen
    <3>2. job[q].heap \in Piles /\ job[q].heap # i
      BY <1>1, <1>2, <3>1 DEF TypeOK
    <3> QED BY <1>2, <1>3, <1>4, <3>1, <3>2
  <2> QED BY <2>1, <2>2 DEF PilesSeen
<1>6. /\ SumFunction(Carried) \in Int /\ SumFunction(Coins) \in Int /\ SumFunction(pile) \in Int
      /\ a \in Int
  BY <1>1, CarriedTyped
<1>7. SumFunction(pile)' = SumFunction(pile) + a
  <2>1. SumFunction(pile)' = SumFunction(pile) + a - pile[i]
    BY <1>1, <1>2, <1>6, PilesMove
  <2> QED BY <1>4, <1>6, <2>1
<1>8. SumFunction(Carried)' = SumFunction(Carried)
  BY <1>3 DEF Carried, InFlight
<1>9. /\ SumFunction(Coins)' = SumFunction(Coins) + 0
      /\ SumFunction(Carried)' = SumFunction(Carried) + 0
      /\ leaked' = leaked + 0 /\ 0 + a + 0 + 0 = a
  BY <1>1, <1>3, <1>6, <1>8, CoinsStay
<1>10. Accounted' /\ leaked' \in Int /\ minted' \in Int
  <2>1. TypeOK /\ Accounted /\ leaked \in Int /\ minted \in Int /\ 0 \in Int
    BY <1>1
  <2> QED BY <1>3, <1>6, <1>7, <1>9, <2>1, Balances, Zenon
<1> QED BY <1>5, <1>10 DEF Books

\* No step makes or loses coin.
LEMMA StepBooks == Books /\ Next => Books'
<1> SUFFICES ASSUME Books, Next PROVE Books'
    OBVIOUS
<1>0. IInv' /\ IInv /\ TypeOK /\ PilesSeen /\ Chars \subseteq Procs /\ Tickers \subseteq Procs
      /\ Amounts \subseteq Nat
    BY StepKeeps, PurseConstants DEF Books, IInv, Procs
<1>a. ASSUME NEW p \in Procs PROVE Good(p)
    BY <1>0 DEF IInv
<1>1. ASSUME NEW c \in Chars, NEW a \in Amounts, Deposit(c, a) \/ Withdraw(c, a) \/ Drop(c, a)
      PROVE  Books'
  <2> DEFINE j == [NoJob EXCEPT !.who = c, !.amt = a, !.row = purse[c]]
  <2>1. Start(c, j, "deposit") \/ Start(c, j, "withdraw") \/ Start(c, j, "dropDebit")
      BY <1>1 DEF Deposit, Withdraw, Drop
  <2> HIDE DEF j
  <2> QED BY <1>0, <2>1, StartQuiet
<1>2. ASSUME NEW c \in Chars, NEW d \in Chars, NEW a \in Amounts, GiveReadActor(c, d, a) PROVE Books'
  <2>1. PICK j : Start(c, j, "giveRead")
      BY <1>2 DEF GiveReadActor
  <2> QED BY <1>0, <2>1, StartQuiet
<1>3. ASSUME NEW c \in Chars, NEW i \in Piles, GetSee(c, i) PROVE Books'
  <2> DEFINE j == [NoJob EXCEPT !.who = c, !.amt = pile[i], !.heap = i]
  <2>1. j.heap = i /\ j.amt = pile[i]
      BY DEF NoJob
  <2>2. Start(c, j, "getRead") /\ pile[i] > 0
      BY <1>3 DEF GetSee
  <2>3. i \in born
      BY <1>0, <2>2 DEF PilesSeen
  <2> HIDE DEF j
  <2> QED BY <1>0, <2>1, <2>2, <2>3, StartQuiet
<1>4. ASSUME NEW p \in Procs, NEW c \in Chars, NEW a \in Amounts, Reward(p, c, a) PROVE Books'
  <2>1. PICK j : Start(p, j, "reward")
      BY <1>4 DEF Reward
  <2> QED BY <2>1, <1>0, StartQuiet
<1>5. ASSUME NEW t \in Tickers, NEW c \in Chars, Death(t, c) PROVE Books'
  <2>1. PICK j : Start(t, j, "death")
      BY <1>5 DEF Death
  <2> QED BY <1>0, <2>1, StartQuiet
<1>6. ASSUME NEW p \in Procs, DepositWrite(p) \/ WithdrawWrite(p) \/ RewardWrite(p) PROVE Books'
  <2> DEFINE r == job[p].row
             a == job[p].amt
             c == job[p].who
  <2>1. HasRead(p) /\ purse[c].ver = r.ver /\ Return(p) /\ InFlight(p) = 0
      BY <1>6 DEF DepositWrite, WithdrawWrite, RewardWrite, RecordCoin, HasRead, InFlight
  <2>2. purse[c] = r /\ c \in Chars
      BY <1>0, <2>1, FirstWriteFinds
  <2>3. r.coin \in Nat /\ r.bank \in Nat /\ r.ver \in Nat /\ a \in Nat
      BY <1>0, JobTypes
  <2>4. minted \in Int
      BY DEF Books
  <2>5. CASE DepositWrite(p)
    <3>1. RecordCoin(c, r.coin - a, r.bank + a, r.ver) /\ UNCHANGED <<pile, born, leaked, minted>>
        BY <2>5 DEF DepositWrite
    <3>2. r.coin - a \in Nat /\ r.bank + a \in Nat
        BY <1>a, <2>3, <2>5 DEF DepositWrite, Good, Sane
    <3>3. minted' = minted + 0 /\ 0 \in Int
          /\ ((r.coin - a) + (r.bank + a)) - (purse[c].coin + purse[c].bank) - InFlight(p) = 0
        BY <2>1, <2>2, <2>3, <2>4, <3>1
    <3> QED BY <1>0, <2>1, <2>2, <2>3, <3>1, <3>2, <3>3, LastBooks
  <2>6. CASE WithdrawWrite(p)
    <3>1. RecordCoin(c, r.coin + a, r.bank - a, r.ver) /\ UNCHANGED <<pile, born, leaked, minted>>
        BY <2>6 DEF WithdrawWrite
    <3>2. r.coin + a \in Nat /\ r.bank - a \in Nat
        BY <1>a, <2>3, <2>6 DEF WithdrawWrite, Good, Sane
    <3>3. minted' = minted + 0 /\ 0 \in Int
          /\ ((r.coin + a) + (r.bank - a)) - (purse[c].coin + purse[c].bank) - InFlight(p) = 0
        BY <2>1, <2>2, <2>3, <2>4, <3>1
    <3> QED BY <1>0, <2>1, <2>2, <2>3, <3>1, <3>2, <3>3, LastBooks
  <2>7. CASE RewardWrite(p)
    <3>1. /\ RecordCoin(c, r.coin + a, r.bank, r.ver) /\ UNCHANGED <<pile, born, leaked>>
          /\ minted' = minted + a
        BY <2>7 DEF RewardWrite
    <3>2. r.coin + a \in Nat /\ a \in Int
        BY <2>3
    <3>3. ((r.coin + a) + r.bank) - (purse[c].coin + purse[c].bank) - InFlight(p) = a
        BY <2>1, <2>2, <2>3
    <3> QED BY <1>0, <2>1, <2>2, <2>3, <3>1, <3>2, <3>3, LastBooks
  <2> QED BY <1>6, <2>5, <2>6, <2>7
<1>7. ASSUME NEW p \in Procs, GiveReadTarget(p) \/ GetRead(p) \/ RewardReread(p) PROVE Books'
  <2>1. PICK l \in {"giveDebit", "getCredit", "rewardAgain"} :
           /\ pc' = [pc EXCEPT ![p] = l]
           /\ \E e : job' = [job EXCEPT ![p].row = e] \/ job' = [job EXCEPT ![p].peer = e]
           /\ l = "getCredit" => pc[p] = "getRead"
           /\ pc[p] \in {"giveRead", "getRead", "rewardReread"}
           /\ UNCHANGED <<purse, pile, born, leaked, minted>>
      BY <1>7 DEF GiveReadTarget, GetRead, RewardReread
  <2>2. job'[p].heap = job[p].heap /\ job'[p].amt = job[p].amt /\ pc'[p] = l /\ OnlyBy(p)
      BY <1>0, <2>1 DEF TypeOK, Job, OnlyBy
  <2>3. InFlight(p)' = InFlight(p)
      BY <2>1, <2>2 DEF InFlight
  <2>4. pc'[p] \in {"getRead", "getCredit", "getDelete"} =>
            job'[p].heap \in born /\ pile[job'[p].heap] \in {0, job'[p].amt}
      BY <1>0, <2>1, <2>2 DEF PilesSeen
  <2> QED BY <1>0, <2>1, <2>2, <2>3, <2>4, Quiet
<1>8. ASSUME NEW p \in Procs, GiveImpossible(p) \/ GetImpossible(p) \/ FirstWriteRefused(p) PROVE Books'
  <2>1. Return(p) /\ InFlight(p) = 0 /\ UNCHANGED <<purse, pile, born, leaked, minted>>
      BY <1>8 DEF GiveImpossible, GetImpossible, FirstWriteRefused, InFlight
  <2> QED BY <1>0, <2>1, ReturnQuiet
<1>9. ASSUME NEW p \in Procs, GiveDebit(p) \/ DropDebit(p) PROVE Books'
  <2>1. HasRead(p) /\ job[p].amt \in Int /\ job[p].row.coin - job[p].amt \in Nat
      BY <1>9, <1>0, <1>a, JobTypes DEF GiveDebit, DropDebit, HasRead, Good, Sane
  <2> QED BY <1>9, <1>0, <2>1, DebitBooks DEF GiveDebit, DropDebit
<1>10. ASSUME NEW p \in Procs, GetCredit(p) PROVE Books'
  <2>1. /\ HasRead(p) /\ -job[p].amt \in Int /\ job[p].row.coin - (-job[p].amt) \in Nat
        /\ job[p].row.coin - (-job[p].amt) = job[p].row.coin + job[p].amt
      BY <1>10, <1>0, JobTypes DEF GetCredit, HasRead
  <2> QED BY <1>10, <1>0, <2>1, DebitBooks DEF GetCredit
<1>11. ASSUME NEW p \in Procs, DeathWrite(p) PROVE Books'
  <2>1. /\ HasRead(p) /\ job[p].amt \in Int /\ job[p].amt = job[p].row.coin
        /\ job[p].row.coin - job[p].amt = 0 /\ job[p].row.coin - job[p].amt \in Nat
      BY <1>11, <1>0, <1>a, JobTypes DEF DeathWrite, HasRead, Good, Sane
  <2> QED BY <1>11, <1>0, <2>1, DebitBooks DEF DeathWrite
<1>12. ASSUME NEW p \in Procs, GiveCredit(p) PROVE Books'
  <2> DEFINE r == job[p].peer
             a == job[p].amt
             c == job[p].to
  <2>1. /\ RecordCoin(c, r.coin + a, r.bank, r.ver) /\ Return(p) /\ InFlight(p) = a
        /\ UNCHANGED <<pile, born, leaked, minted>>
      BY <1>12 DEF GiveCredit, InFlight
  <2>2. c \in Chars /\ purse[c] = r
      BY <1>12, <1>a DEF GiveCredit, RecordCoin, Good, Sane, Gives, PeerRowFresh
  <2>3. r.coin \in Nat /\ r.bank \in Nat /\ r.ver \in Nat /\ a \in Nat /\ r.coin + a \in Nat
      BY <1>0, JobTypes
  <2>4. minted \in Int
      BY DEF Books
  <2>5. minted' = minted + 0 /\ 0 \in Int
        /\ ((r.coin + a) + r.bank) - (purse[c].coin + purse[c].bank) - InFlight(p) = 0
      BY <2>1, <2>2, <2>3, <2>4
  <2> QED BY <1>0, <2>1, <2>2, <2>3, <2>5, LastBooks
<1>13. ASSUME NEW p \in Procs, Undo(p) PROVE Books'
  <2> DEFINE r == job[p].row
             c == job[p].who
  <2>1. /\ RecordCoin(c, r.coin, r.bank, r.ver + 1) /\ Return(p) /\ MayUndo(p)
        /\ UNCHANGED <<pile, born, leaked, minted>>
      BY <1>13 DEF Undo, MayUndo
  <2>2. r.coin \in Nat /\ r.bank \in Nat /\ r.ver + 1 \in Nat /\ InFlight(p) \in Int
      BY <1>0, JobTypes, CarriedTyped
  <2>3. c \in Chars /\ purse[c].coin = r.coin - InFlight(p) /\ purse[c].bank = r.bank
    <3>1. c \in Chars
        BY <1>13, <1>a DEF Undo, Good, Sane
    <3>2. r.ver + 1 = purse[c].ver
        BY <2>1 DEF RecordCoin
    <3>3. purse[c] = [coin |-> r.coin - InFlight(p), bank |-> r.bank, ver |-> r.ver + 1]
        BY <1>a, <2>1, <3>2 DEF Good, OwnWrite
    <3> QED BY <3>1, <3>3
  <2>4. minted \in Int
      BY DEF Books
  <2>5. minted' = minted + 0 /\ 0 \in Int
        /\ (r.coin + r.bank) - (purse[c].coin + purse[c].bank) - InFlight(p) = 0
      BY <2>1, <2>2, <2>3, <2>4
  <2> QED BY <1>0, <2>1, <2>2, <2>3, <2>5, LastBooks
<1>14. ASSUME NEW p \in Procs, GiveCreditRefused(p) \/ DropCreateFails(p) \/ GetDeleteRefused(p)
                               \/ RetryConflict(p)
       PROVE  Books'
  <2>1. PICK l \in PC : /\ Goto(p, l) /\ UNCHANGED <<purse, pile, born, leaked, minted>>
                        /\ <<pc[p], l>> \in {<<"giveCredit", "giveUndo">>, <<"dropCreate", "dropUndo">>,
                            <<"getDelete", "getUndo">>, <<"reward", "rewardReread">>,
                            <<"death", "deathReread">>}
      BY <1>14 DEF GiveCreditRefused, DropCreateFails, GetDeleteRefused, RetryConflict, PC
  <2> QED BY <1>0, <2>1, GotoQuiet
<1>15. ASSUME NEW p \in Procs, CreatePile(p) PROVE Books'
  <2>1. PICK i \in Piles \ born : born' = born \cup {i} /\ pile' = [pile EXCEPT ![i] = job[p].amt]
      BY <1>15 DEF CreatePile
  <2>2. Return(p) /\ UNCHANGED <<purse, leaked, minted>> /\ InFlight(p) = job[p].amt
      BY <1>15 DEF CreatePile, InFlight
  <2>3. OnlyBy(p) /\ pc'[p] = "idle" /\ InFlight(p)' = 0 /\ job[p].amt \in Nat /\ minted \in Int
      BY <1>0, <2>2, ReturnsAlone, JobTypes DEF Books
  <2>4. minted' = minted + 0 /\ 0 \in Int /\ job[p].amt + (InFlight(p)' - InFlight(p)) = 0
      BY <2>2, <2>3
  <2>5. pc'[p] = "idle" \/ (pc'[p] = pc[p] /\ job'[p] = job[p])
      BY <2>3
  <2> QED BY <1>0, <2>1, <2>2, <2>3, <2>4, <2>5, NewPileBooks, Zenon
<1>16. ASSUME NEW p \in Procs, RollbackFailed(p) \/ DeathPileFails(p) PROVE Books'
  <2>1. Return(p) /\ leaked' = leaked + InFlight(p) /\ UNCHANGED <<purse, pile, born, minted>>
      BY <1>16 DEF RollbackFailed, DeathPileFails
  <2> QED BY <1>0, <2>1, WriteOffBooks
<1>17. ASSUME NEW p \in Procs, DeathReread(p) PROVE Books'
  <2>1. pc[p] = "deathReread" /\ UNCHANGED <<purse, pile, born, leaked, minted>>
      BY <1>17 DEF DeathReread
  <2>2. CASE Return(p)
    <3>1. InFlight(p) = 0
        BY <2>1 DEF InFlight
    <3> QED BY <1>0, <2>1, <2>2, <3>1, ReturnQuiet
  <2>3. CASE ~Return(p)
    <3>1. pc' = [pc EXCEPT ![p] = "deathAgain"] /\ \E e \in Job : job' = [job EXCEPT ![p] = e]
      <4>1. /\ pc' = [pc EXCEPT ![p] = "deathAgain"]
            /\ job' = [job EXCEPT ![p].row = purse[job[p].who], ![p].amt = purse[job[p].who].coin]
          BY <1>17, <2>3 DEF DeathReread
      <4>2. job' \in [Procs -> Job]
          BY <1>0 DEF IInv, TypeOK
      <4>3. \A q \in Procs \ {p} : job'[q] = job[q]
          BY <1>0, <4>1 DEF TypeOK
      <4>4. job' = [job EXCEPT ![p] = job'[p]]
          BY <1>0, <4>2, <4>3 DEF TypeOK
      <4> QED BY <4>1, <4>2, <4>4
    <3>2. pc'[p] = "deathAgain" /\ OnlyBy(p)
        BY <1>0, <3>1 DEF TypeOK, OnlyBy
    <3>3. InFlight(p)' = InFlight(p)
        BY <2>1, <3>2 DEF InFlight
    <3> QED BY <1>0, <2>1, <3>2, <3>3, Quiet
  <2> QED BY <2>2, <2>3
<1> QED BY <1>0, <1>1, <1>2, <1>3, <1>4, <1>5, <1>6, <1>7, <1>8, <1>9, <1>10, <1>11, <1>12, <1>13,
           <1>14, <1>15, <1>16, <1>17, GetDeleteBooks, CrashBooks, MobLootBooks DEF Next

LEMMA InitBooks == Init => Books
<1> SUFFICES ASSUME Init PROVE Books
    OBVIOUS
<1>1. IInv /\ leaked = 0 /\ minted = InitCoin * Cardinality(Chars)
    BY InitGood DEF Init
<1>2. PilesSeen
    BY DEF Init, PilesSeen
<1>3. /\ Coins = [c \in Chars |-> InitCoin] /\ pile = [i \in Piles |-> 0]
      /\ Carried = [p \in Procs |-> 0]
  <2>1. InitCoin + 0 = InitCoin
      BY PurseConstants
  <2>2. \A c \in Chars : purse[c].coin + purse[c].bank = InitCoin
      BY <2>1 DEF Init
  <2>3. Coins = [c \in Chars |-> InitCoin]
      BY <2>2 DEF Coins
  <2> QED BY <2>3 DEF Init, Carried, InFlight
<1>4. /\ InitCoin \in Int /\ 0 \in Int
      /\ Cardinality(Chars) \in Int /\ Cardinality(Piles) \in Int /\ Cardinality(Procs) \in Int
    BY ProcsFinite, FS_CardinalityType, PurseConstants
<1>5. SumFunction(Coins) = InitCoin * Cardinality(Chars)
    BY <1>3, <1>4, ProcsFinite, SumConstant
<1>6. SumFunction(pile) = 0 * Cardinality(Piles)
    BY <1>3, <1>4, ProcsFinite, SumConstant, Zenon
<1>7. SumFunction(Carried) = 0 * Cardinality(Procs)
    BY <1>3, <1>4, ProcsFinite, SumConstant, Zenon
<1> DEFINE n == InitCoin * Cardinality(Chars)
<1>8. n \in Int
    BY <1>4
<1>9. SumFunction(Coins) = n /\ SumFunction(pile) = 0 /\ SumFunction(Carried) = 0 /\ minted = n
    BY <1>1, <1>4, <1>5, <1>6, <1>7
<1> HIDE DEF n
<1>10. Accounted /\ leaked \in Int /\ minted \in Int
    BY <1>1, <1>8, <1>9 DEF Accounted, Wealth
<1> QED BY <1>1, <1>2, <1>10 DEF Books

\* The books balance for any number of characters, pulses, piles and amounts:
\* what is in purses, banks and piles, in the hands of verbs between two
\* statements, and written off, is what was put into the game, whatever
\* conflicts, faults and crashes come between (RecordCoin and its callers).
THEOREM EveryCoinAccounted == Spec => []Accounted
<1>1. Books /\ UNCHANGED vars => Books'
  <2> SUFFICES ASSUME Books, UNCHANGED vars PROVE Books'
      OBVIOUS
  <2>1. Coins' = Coins /\ Carried' = Carried
      BY DEF vars, Coins, Carried, InFlight
  <2>2. IInv' /\ PilesSeen'
    <3>1. TypeOK' /\ \A q \in Procs : Good(q)'
      <4>1. TypeOK /\ TypeOK' /\ Moves
          BY DEF Books, IInv, TypeOK, vars, Moves
      <4> QED BY <4>1, OthersKeep DEF Books, IInv, vars
    <3> QED BY <3>1 DEF Books, IInv, Procs, PilesSeen, vars
  <2>3. Accounted' /\ leaked' \in Int /\ minted' \in Int
      BY <2>1 DEF Books, Accounted, Wealth, vars
  <2> QED BY <2>2, <2>3 DEF Books
<1>2. Books /\ [Next]_vars => Books'
    BY <1>1, StepBooks
<1>3. Books => Accounted
    BY DEF Books
<1> QED BY InitBooks, <1>2, <1>3, PTL DEF Spec
-----------------------------------------------------------------------------
(* Doors.  What holds of the exits and the room texts: types,              *)
(* LockedIsClosed, DoorTurnsByHand and TextNeedsAnEdit.  LockedIsClosed is *)
(* inductive only together with the pending writes: a verb that waits to   *)
(* write a locked door writes it closed as well.                           *)

USE DEF NoKey, Floor, Idle

\* A verb in flight never holds a pair of flags that would lock an open door.
PendingIsClosed ==
    \A p \in Players : hand[p].op = "verb" => (hand[p].locked => hand[p].closed)

DoorsInv == DoorsTypeOK /\ LockedIsClosed /\ PendingIsClosed

\* The shape of a hand tells what the player is doing.
LEMMA HandShape ==
    ASSUME DoorsTypeOK, NEW p \in Players
    PROVE  /\ hand[p].op = "verb" =>
                hand[p] \in [op : {"verb"}, exit : Exits, closed : BOOLEAN, locked : BOOLEAN]
           /\ Editing(p) => hand[p] \in Editor
           /\ hand[p].op = "exit" =>
                hand[p] \in [op : {"exit"}, editor : Editor, exit : Exits, copy : ExitRow]
BY DEF DoorsTypeOK, Hand, Editor, Editing

\* The tables start as they were loaded, and nobody is doing anything.
LEMMA DoorsInitially == DoorsInit => DoorsInv
BY DoorsAssumption DEF DoorsInit, DoorsInv, DoorsTypeOK, LockedIsClosed, PendingIsClosed, ExitRow, Hand

\* A verb's read puts into the hand a pair that satisfies the invariant.
LEMMA ReadKeeps ==
    ASSUME DoorsInv, NEW p \in Players, NEW x \in Exits, ReadDoor(p, x)
    PROVE  DoorsInv'
<1>1. PICK closed \in BOOLEAN, locked \in BOOLEAN :
        Read(p, x, closed, locked) /\ (locked => closed)
  BY DEF ReadDoor
<1>2. [op |-> "verb", exit |-> x, closed |-> closed, locked |-> locked] \in Hand
  BY DEF Hand
<1>3. DoorsTypeOK'
  BY <1>1, <1>2 DEF DoorsInv, DoorsTypeOK, Read
<1> QED
  BY <1>1, <1>3 DEF DoorsInv, DoorsTypeOK, LockedIsClosed, PendingIsClosed, Read

\* A step that leaves exits alone and gives one player another hand keeps the invariant
\* when that hand is well formed and waits for no verb's write.
LEMMA HandKeeps ==
    ASSUME DoorsInv, NEW p \in Players, NEW h \in Hand, h.op # "verb",
           hand' = [hand EXCEPT ![p] = h], UNCHANGED <<exits, keyAt>>,
           text' \in [Rooms -> Texts]
    PROVE  DoorsInv'
BY DEF DoorsInv, DoorsTypeOK, LockedIsClosed, PendingIsClosed

\* The editor's steps that only touch the editor, and losing the connection.
LEMMA EditorKeeps ==
    ASSUME DoorsInv, NEW p \in Players,
           \/ StartBuffer(p) \/ AbortBuffer(p) \/ Cancel(p) \/ Commit(p) \/ Lose(p)
           \/ \E r \in Rooms : OpenEditor(p, r)
           \/ \E t \in Texts : SetField(p, t) \/ FlushBuffer(p, t)
    PROVE  DoorsInv'
<1> USE DEF DoorsInv
<1>1. Idle \in Hand /\ Idle.op # "verb"
  BY DEF Hand
<1>2. DoorsTypeOK
  OBVIOUS
<1>3. ASSUME NEW e \in Editor PROVE e \in Hand /\ e.op # "verb"
  BY <1>3 DEF Hand, Editor
<1>4. CASE StartBuffer(p)
  <2>1. [hand[p] EXCEPT !.buf = TRUE] \in Editor
    BY <1>2, <1>4, HandShape DEF StartBuffer, Editor
  <2> QED BY <1>2, <1>3, <1>4, <2>1, HandKeeps DEF StartBuffer, DoorsTypeOK
<1>5. CASE AbortBuffer(p)
  <2>1. [hand[p] EXCEPT !.buf = FALSE] \in Editor
    BY <1>2, <1>5, HandShape DEF AbortBuffer, Editor
  <2> QED BY <1>2, <1>3, <1>5, <2>1, HandKeeps DEF AbortBuffer, DoorsTypeOK
<1>6. CASE Cancel(p)
  BY <1>1, <1>2, <1>6, HandKeeps DEF Cancel, DoorsTypeOK
<1>7. CASE Commit(p)
  <2>1. hand[p] \in Editor
    BY <1>2, <1>7, HandShape DEF Commit
  <2>2. text' \in [Rooms -> Texts]
    BY <1>2, <1>7, <2>1 DEF Commit, DoorsTypeOK, Editor
  <2> QED BY <1>1, <1>7, <2>2, HandKeeps DEF Commit
<1>8. CASE Lose(p)
  BY <1>1, <1>2, <1>8, HandKeeps DEF Lose, DoorsTypeOK
<1>9. ASSUME NEW r \in Rooms, OpenEditor(p, r) PROVE DoorsInv'
  <2>1. [op |-> "edit", room |-> r, draft |-> text[r], dirty |-> FALSE, buf |-> FALSE]
          \in Editor
    BY <1>2 DEF DoorsTypeOK, Editor
  <2> QED BY <1>2, <1>3, <1>9, <2>1, HandKeeps DEF OpenEditor, DoorsTypeOK
<1>10. ASSUME NEW t \in Texts, SetField(p, t) PROVE DoorsInv'
  <2>1. [hand[p] EXCEPT !.draft = t, !.dirty = TRUE] \in Editor
    BY <1>2, <1>10, HandShape DEF SetField, Editor
  <2>2. hand' = [hand EXCEPT ![p] = [hand[p] EXCEPT !.draft = t, !.dirty = TRUE]]
    BY <1>2, <1>10 DEF SetField, DoorsTypeOK
  <2> QED BY <1>2, <1>3, <1>10, <2>1, <2>2, HandKeeps DEF SetField, DoorsTypeOK
<1>11. ASSUME NEW t \in Texts, FlushBuffer(p, t) PROVE DoorsInv'
  <2>1. [hand[p] EXCEPT !.draft = t, !.dirty = TRUE, !.buf = FALSE] \in Editor
    BY <1>2, <1>11, HandShape DEF FlushBuffer, Editor
  <2>2. hand' = [hand EXCEPT ![p] =
                   [hand[p] EXCEPT !.draft = t, !.dirty = TRUE, !.buf = FALSE]]
    BY <1>2, <1>11 DEF FlushBuffer, DoorsTypeOK
  <2> QED BY <1>2, <1>3, <1>11, <2>1, <2>2, HandKeeps DEF FlushBuffer, DoorsTypeOK
<1> QED BY <1>4, <1>5, <1>6, <1>7, <1>8, <1>9, <1>10, <1>11

\* An exit edit goes through the hand and writes the key alone.
LEMMA ExitEditKeeps ==
    ASSUME DoorsInv, NEW p \in Players,
           PersistExit(p) \/ \E x \in Exits, k \in Keys \union {NoKey} : ReadExit(p, x, k)
    PROVE  DoorsInv'
<1>1. DoorsTypeOK
  BY DEF DoorsInv
<1>2. ASSUME NEW x \in Exits, NEW k \in Keys \union {NoKey}, ReadExit(p, x, k)
      PROVE  DoorsInv'
  <2>1. hand[p] \in Editor /\ exits[x] \in ExitRow
    BY <1>1, <1>2, HandShape DEF ReadExit, DoorsTypeOK
  <2>2. [exits[x] EXCEPT !.key = k] \in ExitRow
    BY <2>1 DEF ExitRow
  <2>3. [editor |-> hand[p], op |-> "exit", exit |-> x,
         copy |-> [exits[x] EXCEPT !.key = k]] \in Hand
    BY <2>1, <2>2 DEF Hand
  <2> QED BY <1>1, <1>2, <2>3, HandKeeps DEF ReadExit, DoorsTypeOK
<1>3. CASE PersistExit(p)
  <2>1. hand[p] \in [op : {"exit"}, editor : Editor, exit : Exits, copy : ExitRow]
    BY <1>1, <1>3, HandShape DEF PersistExit
  <2>2. hand[p].editor \in Hand /\ hand[p].editor.op # "verb"
    BY <2>1 DEF Hand, Editor
  <2>3. exits' \in [Exits -> ExitRow]
    BY <1>1, <1>3, <2>1 DEF PersistExit, UpdateExit, DoorsTypeOK, ExitRow
  <2>4. DoorsTypeOK'
    BY <1>1, <1>3, <2>2, <2>3 DEF PersistExit, DoorsTypeOK
  <2>5. LockedIsClosed'
    BY <1>1, <1>3, <2>1 DEF PersistExit, UpdateExit, DoorsTypeOK, ExitRow, LockedIsClosed, DoorsInv
  <2>6. PendingIsClosed'
    BY <1>1, <1>3, <2>2 DEF PersistExit, DoorsTypeOK, PendingIsClosed, DoorsInv
  <2> QED BY <2>4, <2>5, <2>6 DEF DoorsInv
<1> QED BY <1>2, <1>3

\* The two writers of the runtime flags write locked doors closed.
LEMMA FlagsKeep ==
    ASSUME DoorsInv, RestoreAuthored \/ \E p \in Players : WriteDoor(p)
    PROVE  DoorsInv'
<1>1. DoorsTypeOK
  BY DEF DoorsInv
<1>2. ASSUME NEW p \in Players, WriteDoor(p) PROVE DoorsInv'
  <2>1. hand[p] \in [op : {"verb"}, exit : Exits, closed : BOOLEAN, locked : BOOLEAN]
    BY <1>1, <1>2, HandShape DEF WriteDoor
  <2>2. Idle \in Hand
    BY DEF Hand
  <2>3. DoorsTypeOK'
    BY <1>1, <1>2, <2>1, <2>2 DEF WriteDoor, UpdateFlags, DoorsTypeOK, ExitRow
  <2>4. LockedIsClosed'
    BY <1>1, <1>2, <2>1
    DEF WriteDoor, UpdateFlags, DoorsTypeOK, ExitRow, LockedIsClosed, PendingIsClosed, DoorsInv
  <2>5. PendingIsClosed'
    BY <1>1, <1>2 DEF WriteDoor, DoorsTypeOK, PendingIsClosed, DoorsInv
  <2> QED BY <2>3, <2>4, <2>5 DEF DoorsInv
<1>3. CASE RestoreAuthored
  BY <1>1, <1>3, DoorsAssumption
  DEF RestoreAuthored, UpdateFlags, DoorsTypeOK, ExitRow, LockedIsClosed, PendingIsClosed, DoorsInv
<1> QED BY <1>2, <1>3

LEMMA DoorsInductive == DoorsInv /\ [DoorsNext]_doorVars => DoorsInv'
<1> SUFFICES ASSUME DoorsInv, [DoorsNext]_doorVars PROVE DoorsInv'
  OBVIOUS
<1>1. CASE RestoreAuthored
  BY <1>1, FlagsKeep
<1>2. ASSUME NEW p \in Players, Verb(p) PROVE DoorsInv'
  BY <1>2, FlagsKeep, ReadKeeps DEF Verb
<1>3. ASSUME NEW p \in Players, Edit(p) PROVE DoorsInv'
  BY <1>3, EditorKeeps, ExitEditKeeps DEF Edit
<1>4. ASSUME NEW p \in Players, Lose(p) PROVE DoorsInv'
  BY <1>4, EditorKeeps
<1>5. ASSUME NEW k \in Keys, NEW to \in Players \union {Floor}, PassKey(k, to)
      PROVE  DoorsInv'
  BY <1>5 DEF PassKey, DoorsInv, DoorsTypeOK, LockedIsClosed, PendingIsClosed
<1>6. CASE UNCHANGED doorVars
  BY <1>6 DEF doorVars, DoorsInv, DoorsTypeOK, LockedIsClosed, PendingIsClosed
<1> QED BY <1>1, <1>2, <1>3, <1>4, <1>5, <1>6 DEF DoorsNext

\* The invariant holds in every reachable state.
LEMMA DoorsInvariant == DoorsSpec => []DoorsInv
<1>1. DoorsInit => DoorsInv
  BY DoorsInitially
<1>2. DoorsInv /\ [DoorsNext]_doorVars => DoorsInv'
  BY DoorsInductive
<1> QED BY <1>1, <1>2, PTL DEF DoorsSpec

\* The rows, the keys and the hands keep their types (redit.go, door.go, exit_sqlite.go).
THEOREM TypeCorrect == DoorsSpec => []DoorsTypeOK
<1>1. DoorsInv => DoorsTypeOK
  BY DEF DoorsInv
<1> QED BY <1>1, DoorsInvariant, PTL

\* No interleaving of any number of players' verbs and edits with resets leaves a lock
\* on an open door (door.go writes both flags; exit_sqlite.go Update writes neither).
THEOREM LockImpliesClosed == DoorsSpec => []LockedIsClosed
<1>1. DoorsInv => LockedIsClosed
  BY DEF DoorsInv
<1> QED BY <1>1, DoorsInvariant, PTL

\* Only a verb's own write and the reset's statement turn a door: ExitRepo.Update, whose
\* copy may be old, does not (exit_sqlite.go:95).
THEOREM OnlyHandsTurnDoors == DoorsSpec => DoorTurnsByHand
<1>1. ASSUME DoorsInv, [DoorsNext]_doorVars
      PROVE  \A x \in Exits :
        (exits'[x].closed # exits[x].closed \/ exits'[x].locked # exits[x].locked) =>
          \/ \E p \in Players : /\ hand[p].op = "verb" /\ hand[p].exit = x
                                /\ hand'[p] = Idle
          \/ hand' = hand /\ exits'[x].closed = Authored[x].closed
                          /\ exits'[x].locked = Authored[x].locked
  <2> DEFINE ByHand(x) == \/ \E p \in Players : /\ hand[p].op = "verb" /\ hand[p].exit = x
                                                /\ hand'[p] = Idle
                          \/ hand' = hand /\ exits'[x].closed = Authored[x].closed
                                          /\ exits'[x].locked = Authored[x].locked
  <2>1. DoorsTypeOK
    BY <1>1 DEF DoorsInv
  <2>2. SUFFICES ASSUME NEW x \in Exits,
                        \/ exits'[x].closed # exits[x].closed
                        \/ exits'[x].locked # exits[x].locked
                 PROVE  ByHand(x)
    OBVIOUS
  <2>3. CASE RestoreAuthored
    BY <2>1, <2>2, <2>3 DEF RestoreAuthored, UpdateFlags, DoorsTypeOK, ExitRow
  <2>4. ASSUME NEW p \in Players, WriteDoor(p) PROVE ByHand(x)
    BY <2>1, <2>2, <2>4 DEF WriteDoor, DoorsTypeOK
  <2>5. ASSUME NEW p \in Players, PersistExit(p) PROVE FALSE
    <3>1. hand[p] \in [op : {"exit"}, editor : Editor, exit : Exits, copy : ExitRow]
      BY <2>1, <2>5, HandShape DEF PersistExit
    <3> QED BY <2>1, <2>2, <2>5, <3>1 DEF PersistExit, UpdateExit, DoorsTypeOK, ExitRow
  <2>6. CASE exits' = exits
    BY <2>2, <2>6
  <2>7. \/ RestoreAuthored \/ exits' = exits
        \/ \E p \in Players : WriteDoor(p) \/ PersistExit(p)
    BY <1>1 DEF DoorsNext, Verb, Edit, ReadDoor, Read, StartBuffer, AbortBuffer, Commit, Cancel,
       OpenEditor, SetField, FlushBuffer, ReadExit, Lose, PassKey, doorVars
  <2> QED BY <2>3, <2>4, <2>5, <2>6, <2>7
<1> QED BY <1>1, DoorsInvariant, PTL DEF DoorsSpec, DoorTurnsByHand

\* A room's text changes only by the `done` of a builder who set something: closing an
\* editor that is left open undoes nobody's commit (redit.go:748).
THEOREM EditsAreDeliberate == DoorsSpec => TextNeedsAnEdit
<1>1. ASSUME DoorsInv, [DoorsNext]_doorVars
      PROVE  \A r \in Rooms : text'[r] # text[r] =>
               \E p \in Players : /\ Editing(p) /\ hand[p].dirty /\ hand[p].room = r
                                  /\ text'[r] = hand[p].draft /\ hand'[p] = Idle
  <2>1. DoorsTypeOK
    BY <1>1 DEF DoorsInv
  <2>2. ASSUME NEW p \in Players, Commit(p), NEW r \in Rooms, text'[r] # text[r]
        PROVE  /\ Editing(p) /\ hand[p].dirty /\ hand[p].room = r
               /\ text'[r] = hand[p].draft /\ hand'[p] = Idle
    BY <2>1, <2>2 DEF Commit, DoorsTypeOK
  <2>3. text' = text \/ \E p \in Players : Commit(p)
    BY <1>1 DEF DoorsNext, Verb, Edit, ReadDoor, Read, StartBuffer, AbortBuffer, Cancel,
       OpenEditor, SetField, FlushBuffer, ReadExit, Lose, PassKey, doorVars, WriteDoor,
       PersistExit, RestoreAuthored
  <2> QED BY <2>2, <2>3
<1> QED BY <1>1, DoorsInvariant, PTL DEF DoorsSpec, TextNeedsAnEdit

-----------------------------------------------------------------------------
\* The checked additions refuse exactly what does not fit (safeAdd, safeSub):
\* they never wrap around and never refuse an amount that fits.
THEOREM AdditionIsExact ==
    ASSUME NEW a \in Int64s, NEW b \in Int64s
    PROVE  /\ a + b \in Int64s => safeAdd(a, b) = a + b
           /\ a + b \notin Int64s => safeAdd(a, b) = ErrOverflow
           /\ a - b \in Int64s => safeSub(a, b) = a - b
           /\ a - b \notin Int64s => safeSub(a, b) = ErrOverflow
BY CoinsAssumption DEF Int64s, safeAdd, safeSub

\* Nothing is paid out of a purse that does not hold it, and what is left is
\* the difference (Amount.Sub with no negative operand).
THEOREM SubtractNeverOverdraws ==
    ASSUME NEW a \in Int64s, NEW b \in Int64s, a >= 0, b >= 0
    PROVE  Subtract(a, b) = IF b > a THEN ErrInsufficientFunds ELSE a - b
BY CoinsAssumption DEF Int64s, safeSub, Subtract

\* A wrapped number is off by a multiple of the range.
LEMMA WrapIsOffByRanges ==
    ASSUME NEW n \in Int
    PROVE  /\ Wrapped(n) \in Int64s
           /\ n \in Int64s => Wrapped(n) = n
           /\ \E k \in Int : Wrapped(n) = n + k * (2 * Limit)
<1> DEFINE r == 2 * Limit
           m == n + Limit
<1>1. r \in Nat \ {0} /\ m \in Int /\ Limit \in Nat
  BY CoinsAssumption
<1>2. m % r \in 0..(r - 1) /\ m = (m \div r) * r + (m % r) /\ m \div r \in Int
  <2> HIDE DEF r, m
  <2> QED BY <1>1
<1>3. Wrapped(n) = (m % r) - Limit
  BY DEF Wrapped
<1>4. Wrapped(n) \in Int64s
  BY <1>1, <1>2, <1>3 DEF Int64s
<1>5. ASSUME n \in Int64s PROVE Wrapped(n) = n
  <2>1. m \in 0..(r - 1)
    BY <1>1, <1>5 DEF Int64s
  <2>2. m % r = m
    <3> HIDE DEF r, m
    <3> QED BY <1>1, <2>1
  <2> QED BY <1>1, <1>3, <2>2
<1>6. Wrapped(n) = n + (-(m \div r)) * r
  <2> DEFINE q == m \div r
  <2>1. Wrapped(n) = (m - q * r) - Limit
    BY <1>1, <1>2, <1>3
  <2>2. q \in Int
    BY <1>2
  <2> HIDE DEF q
  <2>3. (-q) * r = -(q * r)
    <3> HIDE DEF r
    <3> QED BY <1>1, <2>2
  <2>4. q * r \in Int
    BY <1>1, <2>2
  <2> DEFINE z == q * r
  <2> HIDE DEF r, z
  <2>5. Wrapped(n) = n + (-z)
    BY <1>1, <2>1, <2>4 DEF z
  <2> QED BY <2>3, <2>5 DEF q, z
<1>7. -(m \div r) \in Int
  BY <1>2
<1> QED BY <1>4, <1>5, <1>6, <1>7

\* What a division loses is less than the divisor.
LEMMA Lost ==
    ASSUME NEW n \in Nat, NEW d \in Nat \ {0}
    PROVE  n \div d \in Nat /\ n \div d <= n /\ n - d * (n \div d) \in 0..(d - 1)
OBVIOUS

\* A multiple of b that is smaller than b is nothing.
LEMMA SmallMultiple ==
    ASSUME NEW e \in Int, NEW b \in Int, Magnitude(e * b) < Magnitude(b)
    PROVE  e = 0
<1>1. CASE e > 0 /\ b > 0
  <2>1. e * b >= b
    BY <1>1
  <2> QED BY <1>1, <2>1 DEF Magnitude
<1>2. CASE e > 0 /\ b < 0
  <2>1. e * b <= b
    BY <1>2
  <2> QED BY <1>2, <2>1 DEF Magnitude
<1>3. CASE e < 0 /\ b > 0
  <2>1. e * b <= -b
    BY <1>3
  <2> QED BY <1>3, <2>1 DEF Magnitude
<1>4. CASE e < 0 /\ b < 0
  <2>1. e * b >= -b
    BY <1>4
  <2> QED BY <1>4, <2>1 DEF Magnitude
<1>5. CASE b = 0
  <2>1. e * b = 0
    BY <1>5
  <2> QED BY <1>5, <2>1 DEF Magnitude
<1> QED BY <1>1, <1>2, <1>3, <1>4, <1>5

\* Towards zero, before the machine wraps the result.
Whole(c, b) ==
    IF (c < 0) = (b < 0) THEN Magnitude(c) \div Magnitude(b) ELSE -(Magnitude(c) \div Magnitude(b))

\* What a division towards zero loses is smaller than the divisor.
LEMMA WholeIsNear ==
    ASSUME NEW c \in Int, NEW b \in Int, b # 0
    PROVE  /\ Whole(c, b) \in Int /\ Magnitude(Whole(c, b)) <= Magnitude(c)
           /\ Magnitude(c - Whole(c, b) * b) < Magnitude(b)
<1> DEFINE n == Magnitude(c)
           d == Magnitude(b)
           t == n \div d
<1>1. n \in Nat /\ d \in Nat \ {0}
  BY DEF Magnitude
<1>2. t \in Nat /\ t <= n /\ n - d * t \in 0..(d - 1)
  <2> HIDE DEF n, d
  <2> QED BY <1>1, Lost
<1>3. Whole(c, b) = IF (c < 0) = (b < 0) THEN t ELSE -t
  BY DEF Whole
<1> HIDE DEF t
<1>4. CASE c >= 0 /\ b > 0
  BY <1>1, <1>2, <1>3, <1>4 DEF Magnitude
<1>5. CASE c >= 0 /\ b < 0
  <2>1. n = c /\ d = -b /\ Whole(c, b) = -t
    BY <1>3, <1>5 DEF Magnitude
  <2>2. (-t) * b = (-b) * t
    BY <1>2
  <2>3. c - Whole(c, b) * b = n - d * t
    BY <2>1, <2>2
  <2> QED BY <1>1, <1>2, <2>1, <2>3 DEF Magnitude
<1>6. CASE c < 0 /\ b > 0
  <2>1. n = -c /\ d = b /\ Whole(c, b) = -t
    BY <1>3, <1>6 DEF Magnitude
  <2>2. (-t) * b = -(b * t) /\ b * t \in Int
    BY <1>2
  <2> DEFINE z == b * t
  <2> HIDE DEF z
  <2>3. c - Whole(c, b) * b = -(n - d * t)
    <3>1. c - Whole(c, b) * b = c - (-z)
      BY <2>1, <2>2 DEF z
    <3>2. n - d * t = (-c) - z
      BY <2>1 DEF z
    <3>3. z \in Int
      BY <2>2 DEF z
    <3> QED BY <3>1, <3>2, <3>3
  <2> QED BY <1>1, <1>2, <2>1, <2>3 DEF Magnitude
<1>7. CASE c < 0 /\ b < 0
  <2>1. n = -c /\ d = -b /\ Whole(c, b) = t
    BY <1>3, <1>7 DEF Magnitude
  <2>2. (-b) * t = -(t * b) /\ t * b \in Int
    BY <1>2
  <2> DEFINE z == t * b
  <2> HIDE DEF z
  <2>3. c - Whole(c, b) * b = -(n - d * t)
    <3>1. c - Whole(c, b) * b = c - z
      BY <2>1 DEF z
    <3>2. n - d * t = (-c) - (-z)
      BY <2>1, <2>2 DEF z
    <3>3. z \in Int
      BY <2>2 DEF z
    <3> QED BY <3>1, <3>2, <3>3
  <2> QED BY <1>1, <1>2, <2>1, <2>3 DEF Magnitude
<1> QED BY <1>4, <1>5, <1>6, <1>7

\* Multiplication refuses exactly the products that do not fit: dividing the
\* wrapped product again finds every overflow, but for the two the code tests
\* first (safeMul).
THEOREM MultiplicationIsExact ==
    ASSUME NEW a \in Int64s, NEW b \in Int64s
    PROVE  /\ a * b \in Int64s => safeMul(a, b) = a * b
           /\ a * b \notin Int64s => safeMul(a, b) = ErrOverflow
<1> DEFINE p == a * b
           c == Wrapped(p)
           q == Whole(c, b)
<1>0. Limit \in Nat /\ Limit > 1000 /\ a \in Int /\ b \in Int /\ p \in Int
  BY CoinsAssumption DEF Int64s
<1>1. CASE a = 0 \/ b = 0
  <2>1. p = 0
    BY <1>0, <1>1
  <2>2. safeMul(a, b) = 0
    BY <1>1 DEF safeMul
  <2>3. p \in Int64s
    BY <1>0, <2>1 DEF Int64s
  <2> QED BY <2>1, <2>2, <2>3
<1>2. CASE (a = -Limit /\ b = -1) \/ (b = -Limit /\ a = -1)
  <2>1. p = Limit
    BY <1>0, <1>2
  <2>2. safeMul(a, b) = ErrOverflow
    BY <1>0, <1>2 DEF safeMul
  <2>3. p \notin Int64s
    BY <1>0, <2>1 DEF Int64s
  <2> QED BY <2>2, <2>3
<1>3. CASE a # 0 /\ b # 0 /\ ~((a = -Limit /\ b = -1) \/ (b = -Limit /\ a = -1))
  <2>1. safeMul(a, b) = IF Wrapped(q) # a THEN ErrOverflow ELSE c
    <3>1. Quotient(c, b) = Wrapped(q)
      BY Zenon DEF Quotient, Whole
    <3> HIDE DEF c, q
    <3>2. safeMul(a, b) = IF Quotient(c, b) # a THEN ErrOverflow ELSE c
      BY <1>3 DEF safeMul, c, p
    <3> QED BY <3>1, <3>2
  <2>2. c \in Int64s /\ (p \in Int64s => c = p) /\ \E k \in Int : c = p + k * (2 * Limit)
    BY <1>0, WrapIsOffByRanges
  <2> HIDE DEF c
  <2>3. q \in Int /\ Magnitude(q) <= Magnitude(c) /\ Magnitude(c - q * b) < Magnitude(b)
    BY <1>0, <1>3, <2>2, WholeIsNear DEF Int64s
  <2> HIDE DEF q
  <2>4. ASSUME p \in Int64s PROVE Wrapped(q) = a /\ c = p
    <3>1. c = a * b
      BY <2>2, <2>4
    <3>2. c - q * b = (a - q) * b
      BY <1>0, <2>3, <3>1
    <3>3. a - q \in Int
      BY <1>0, <2>3
    <3>4. a - q = 0
      BY <1>0, <2>3, <3>2, <3>3, SmallMultiple
    <3>5. q = a
      BY <1>0, <2>3, <3>4
    <3> QED BY <2>2, <2>3, <2>4, <3>5, WrapIsOffByRanges
  <2>5. ASSUME p \notin Int64s, Wrapped(q) = a PROVE FALSE
    <3>1. Magnitude(q) <= Limit /\ Magnitude(b) <= Limit
      BY <1>0, <2>2, <2>3 DEF Int64s, Magnitude
    <3>2. CASE q \in Int64s
      <4>1. q = a
        BY <2>3, <2>5, <3>2, WrapIsOffByRanges
      <4>2. PICK k \in Int : c = p + k * (2 * Limit)
        BY <2>2
      <4> DEFINE z == k * (2 * Limit)
      <4>3. c - q * b = z
        <5>1. q * b = p
          BY <4>1
        <5>2. z \in Int
          BY <1>0
        <5> HIDE DEF p, z
        <5>3. c = p + z
          BY <4>2 DEF z
        <5> QED BY <1>0, <5>1, <5>2, <5>3
      <4>4. Magnitude(z) < Magnitude(2 * Limit)
        <5>1. Magnitude(z) < Magnitude(b)
          BY <2>3, <4>3
        <5>2. Magnitude(2 * Limit) = 2 * Limit
          BY <1>0 DEF Magnitude
        <5>3. Magnitude(z) \in Int /\ Magnitude(b) \in Int
          BY <1>0 DEF Magnitude
        <5> HIDE DEF z
        <5> QED BY <1>0, <3>1, <5>1, <5>2, <5>3
      <4>5. 2 * Limit \in Int
        BY <1>0
      <4>6. k = 0
        BY <4>4, <4>5, SmallMultiple
      <4>7. c = p
        <5>1. z = 0
          BY <1>0, <4>6
        <5> HIDE DEF p, z
        <5>2. c = p + z
          BY <4>2 DEF z
        <5> QED BY <1>0, <5>1, <5>2
      <4> QED BY <2>2, <2>5, <4>7
    <3>3. CASE q \notin Int64s
      <4>1. q = Limit
        BY <1>0, <2>3, <3>1, <3>3 DEF Int64s, Magnitude
      <4>2. Wrapped(q) = -Limit
        <5>1. Wrapped(q) = ((Limit + Limit) % (2 * Limit)) - Limit
          BY <4>1 DEF Wrapped
        <5>2. Limit + Limit = 2 * Limit /\ 2 * Limit \in Nat \ {0}
          BY <1>0
        <5> DEFINE r == 2 * Limit
        <5> HIDE DEF r
        <5>3. r % r = 0
          BY <5>2 DEF r
        <5>4. Wrapped(q) = 0 - Limit
          BY <5>1, <5>2, <5>3 DEF r
        <5> QED BY <1>0, <5>4
      <4>3. Magnitude(c) = Limit /\ c = -Limit
        BY <1>0, <2>2, <2>3, <4>1 DEF Int64s, Magnitude
      <4>4. (c - q * b) = (-1 - b) * Limit
        BY <1>0, <4>1, <4>3
      <4>5. Magnitude((-1 - b) * Limit) < Magnitude(Limit)
        <5>1. Magnitude((-1 - b) * Limit) < Magnitude(b)
          BY <2>3, <4>4
        <5>2. Magnitude(Limit) = Limit
          BY <1>0 DEF Magnitude
        <5> DEFINE z == (-1 - b) * Limit
        <5>3. z \in Int
          BY <1>0
        <5> HIDE DEF z
        <5>4. Magnitude(z) \in Int /\ Magnitude(b) \in Int
          BY <1>0, <5>3 DEF Magnitude
        <5>5. Magnitude(z) < Limit
          BY <1>0, <3>1, <5>1, <5>4 DEF z
        <5> QED BY <5>2, <5>5 DEF z
      <4>6. -1 - b = 0
        <5>1. -1 - b \in Int /\ Limit \in Int
          BY <1>0
        <5> QED BY <4>5, <5>1, SmallMultiple
      <4>7. b = -1 /\ a = -Limit
        BY <1>0, <2>5, <4>2, <4>6
      <4> QED BY <1>3, <4>7
    <3> QED BY <3>2, <3>3
  <2> QED BY <2>1, <2>4, <2>5
<1> QED BY <1>1, <1>2, <1>3

\* What the four counts of coins come to.
Worth(parts) == 1000 * parts.gc + 100 * parts.mk + 10 * parts.sp + parts.cp

\* Taking an amount apart loses nothing, and gives as few coins as there can
\* be: less than ten of each kind but the largest.  The least number of all is
\* the exception to the sign only: it has no magnitude (Amount.Split).
THEOREM SplitIsWhole ==
    ASSUME NEW a \in Int64s
    PROVE  /\ a > -Limit => Worth(Split(a)) = Magnitude(a)
           /\ a = -Limit => Worth(Split(a)) = a
           /\ \A c \in {"mk", "sp", "cp"} : Magnitude(Split(a)[c]) <= 9
<1> DEFINE m == Wrapped(Magnitude(a))
           s == IF m < 0 THEN -1 ELSE 1
           n == Magnitude(m)
           g == n \div 1000
           k == (n % 1000) \div 100
           l == (n % 100) \div 10
           p == n % 10
<1>1. Limit \in Nat /\ a \in Int /\ Magnitude(a) \in Int
  BY CoinsAssumption DEF Int64s, Magnitude
<1>2. /\ a > -Limit => m = Magnitude(a)
      /\ a = -Limit => m = a
  <2>1. CASE a > -Limit
    <3>1. Magnitude(a) \in Int64s
      BY <1>1, <2>1, CoinsAssumption DEF Int64s, Magnitude
    <3> QED BY <1>1, <2>1, <3>1, WrapIsOffByRanges
  <2>2. CASE a = -Limit
    <3>1. Magnitude(a) = Limit
      BY <1>1, <2>2, CoinsAssumption DEF Magnitude
    <3>2. m = ((Limit + Limit) % (2 * Limit)) - Limit
      BY <3>1 DEF Wrapped
    <3> DEFINE r == 2 * Limit
    <3>3. Limit + Limit = r /\ r \in Nat \ {0}
      BY CoinsAssumption
    <3> HIDE DEF r
    <3>4. r % r = 0
      BY <3>3
    <3>5. m = 0 - Limit
      BY <3>2, <3>3, <3>4 DEF r
    <3> QED BY <1>1, <2>1, <2>2, <3>5
  <2> QED BY <1>1, <2>1, <2>2 DEF Int64s
<1>3. m \in Int
  BY <1>1, WrapIsOffByRanges DEF Int64s
<1>4. Split(a) = [gc |-> s * g, mk |-> s * k, sp |-> s * l, cp |-> s * p]
  BY DEF Split
<1> HIDE DEF m
<1>5. n \in Nat /\ n * s = m /\ s \in {-1, 1}
  BY <1>3 DEF Magnitude
<1> HIDE DEF n, s
<1>6. /\ g \in Nat /\ k \in 0..9 /\ l \in 0..9 /\ p \in 0..9
      /\ n = 1000 * g + 100 * k + 10 * l + p
  BY <1>5
<1> HIDE DEF g, k, l, p
<1>7. Worth(Split(a)) = m
  BY <1>4, <1>5, <1>6 DEF Worth
<1>8. \A c \in {"mk", "sp", "cp"} : Magnitude(Split(a)[c]) <= 9
  BY <1>4, <1>5, <1>6 DEF Magnitude
<1> QED BY <1>2, <1>7, <1>8

\* A price in coins is the sum of its coins or refused (currency.New).
THEOREM NewIsExact ==
    ASSUME NEW gc \in Int64s, NEW mk \in Int64s, NEW sp \in Int64s, NEW cp \in Int64s,
           New(gc, mk, sp, cp) # ErrOverflow
    PROVE  New(gc, mk, sp, cp) = 1000 * gc + 100 * mk + 10 * sp + cp
<1>1. ASSUME NEW total \in Int64s \cup {ErrOverflow}, NEW count \in Int64s, NEW coin \in Denominations,
             Plus(total, count, coin) # ErrOverflow
      PROVE  /\ total \in Int64s /\ Plus(total, count, coin) \in Int64s
             /\ Plus(total, count, coin) = total + count * ratio[coin]
  <2>1. ratio[coin] \in Int64s
    BY CoinsAssumption DEF Denominations, ratio, Int64s
  <2> DEFINE v == safeMul(count, ratio[coin])
             p == count * ratio[coin]
  <2>2. total # ErrOverflow /\ v # ErrOverflow /\ Plus(total, count, coin) = safeAdd(total, v)
    BY <1>1 DEF Plus
  <2>3. v = p /\ p \in Int64s
    BY <2>1, <2>2, MultiplicationIsExact
  <2> HIDE DEF v, p
  <2>4. total + v \in Int64s /\ safeAdd(total, v) = total + v
    BY <1>1, <2>2, <2>3, AdditionIsExact
  <2> QED BY <2>2, <2>3, <2>4 DEF p
<1>2. Limit \in Nat /\ Limit > 1000 /\ ErrOverflow \notin Int
  BY CoinsAssumption
<1>3. \A t \in Int64s \cup {ErrOverflow}, n \in Int64s, c \in Denominations :
         Plus(t, n, c) \in Int64s \cup {ErrOverflow}
  BY <1>1
<1> DEFINE t1 == Plus(0, gc, "gc")
           t2 == Plus(t1, mk, "mk")
           t3 == Plus(t2, sp, "sp")
           t4 == Plus(t3, cp, "cp")
<1>4. "gc" \in Denominations /\ "mk" \in Denominations /\ "sp" \in Denominations /\ "cp" \in Denominations
  BY DEF Denominations
<1>5. 0 \in Int64s
  BY <1>2 DEF Int64s
<1>6. t1 \in Int64s \cup {ErrOverflow}
  BY <1>3, <1>4, <1>5
<1> HIDE DEF t1
<1>7. t2 \in Int64s \cup {ErrOverflow}
  BY <1>3, <1>4, <1>6
<1> HIDE DEF t2
<1>8. t3 \in Int64s \cup {ErrOverflow}
  BY <1>3, <1>4, <1>7
<1> HIDE DEF t3
<1>9. New(gc, mk, sp, cp) = t4
  BY Zenon DEF New, t1, t2, t3
<1>10. t3 \in Int64s /\ t4 = t3 + cp * ratio["cp"]
  BY <1>1, <1>4, <1>8, <1>9
<1>11. t2 \in Int64s /\ t3 = t2 + sp * ratio["sp"]
  BY <1>1, <1>2, <1>4, <1>7, <1>10 DEF t3, Int64s
<1>12. t1 \in Int64s /\ t2 = t1 + mk * ratio["mk"]
  BY <1>1, <1>2, <1>4, <1>6, <1>11 DEF t2, Int64s
<1>13. t1 = 0 + gc * ratio["gc"]
  BY <1>1, <1>2, <1>4, <1>5, <1>12 DEF t1, Int64s
<1>14. ratio["cp"] = 1 /\ ratio["sp"] = 10 /\ ratio["mk"] = 100 /\ ratio["gc"] = 1000
  BY DEF ratio
<1> QED BY <1>9, <1>10, <1>11, <1>12, <1>13, <1>14 DEF Int64s

-----------------------------------------------------------------------------
(* Time (Clock).  First what division does, for any divisor.                *)

LEMMA Division ==
    ASSUME NEW m \in Nat, NEW n \in Nat \ {0}
    PROVE  m \div n \in Nat /\ m % n \in 0..(n - 1) /\ m = (m \div n) * n + (m % n)
OBVIOUS

LEMMA ProductsInOrder ==
    ASSUME NEW a \in Nat, NEW b \in Nat, NEW n \in Nat, a <= b
    PROVE  a * n \in Nat /\ b * n \in Nat /\ a * n <= b * n
<1>1. PICK c \in Nat : b = a + c
  <2>1. b - a \in Nat /\ b = a + (b - a)
    OBVIOUS
  <2> QED BY <2>1
<1>2. b * n = a * n + c * n /\ c * n \in Nat /\ a * n \in Nat
  BY <1>1
<1> QED BY <1>2

\* What two quotients times the divisor and a remainder are equal to, they agree on.
LEMMA QuotientIs ==
    ASSUME NEW m \in Nat, NEW n \in Nat \ {0}, NEW q \in Nat, NEW r \in 0..(n - 1), m = q * n + r
    PROVE  m \div n = q /\ m % n = r
<1> DEFINE k == m \div n
           s == m % n
<1>1. k \in Nat /\ s \in 0..(n - 1) /\ m = k * n + s
  BY Division
<1> HIDE DEF k, s
<1>2. ASSUME k < q PROVE FALSE
  <2>1. (k + 1) * n <= q * n /\ q * n \in Nat
    BY <1>1, <1>2, ProductsInOrder
  <2>2. (k + 1) * n = k * n + n /\ k * n \in Nat
    BY <1>1
  <2> QED BY <1>1, <2>1, <2>2
<1>3. ASSUME q < k PROVE FALSE
  <2>1. (q + 1) * n <= k * n /\ k * n \in Nat
    BY <1>1, <1>3, ProductsInOrder
  <2>2. (q + 1) * n = q * n + n /\ q * n \in Nat
    OBVIOUS
  <2> QED BY <1>1, <2>1, <2>2
<1>4. k = q
  BY <1>1, <1>2, <1>3
<1>5. s = r
  <2>1. k * n = q * n /\ q * n \in Nat
    BY <1>4
  <2> QED BY <1>1, <2>1
<1> QED BY <1>4, <1>5 DEF k, s

LEMMA QuotientsInOrder ==
    ASSUME NEW a \in Nat, NEW b \in Nat, NEW n \in Nat \ {0}, a <= b
    PROVE  a \div n \in Nat /\ b \div n \in Nat /\ a \div n <= b \div n
<1> DEFINE j == a \div n
           k == b \div n
<1>1. /\ j \in Nat /\ a % n \in 0..(n - 1) /\ a = j * n + (a % n)
      /\ k \in Nat /\ b % n \in 0..(n - 1) /\ b = k * n + (b % n)
  BY Division
<1>2. ASSUME k < j PROVE FALSE
  <2>1. (k + 1) * n <= j * n /\ j * n \in Nat
    BY <1>1, <1>2, ProductsInOrder
  <2>2. (k + 1) * n = k * n + n /\ k * n \in Nat
    BY <1>1
  <2> HIDE DEF j, k
  <2> QED BY <1>1, <2>1, <2>2
<1> QED BY <1>1, <1>2

\* One moment on, the remainder is one more or starts over.
LEMMA NextRemainder ==
    ASSUME NEW m \in Nat, NEW n \in Nat \ {0}
    PROVE  \/ (m + 1) % n = 0 /\ m % n = n - 1
           \/ (m + 1) % n # 0 /\ (m + 1) % n = (m % n) + 1
<1> DEFINE k == m \div n
           s == m % n
<1>1. k \in Nat /\ s \in 0..(n - 1) /\ m = k * n + s /\ k * n \in Nat
  <2>1. k \in Nat /\ s \in 0..(n - 1) /\ m = k * n + s
    BY Division
  <2> HIDE DEF k, s
  <2> QED BY <2>1
<1> HIDE DEF k, s
<1>2. CASE s = n - 1
  <2>1. m + 1 = (k + 1) * n + 0
    <3>1. (k + 1) * n = k * n + n
      BY <1>1
    <3> QED BY <1>1, <1>2, <3>1
  <2>2. 0 \in 0..(n - 1) /\ k + 1 \in Nat /\ m + 1 \in Nat
    BY <1>1
  <2>3. (m + 1) % n = 0
    BY <2>1, <2>2, QuotientIs
  <2> QED BY <1>2, <2>3 DEF s
<1>3. CASE s # n - 1
  <2>1. m + 1 = k * n + (s + 1) /\ s + 1 \in 0..(n - 1) /\ m + 1 \in Nat
    BY <1>1, <1>3
  <2>2. (m + 1) % n = s + 1
    BY <1>1, <2>1, QuotientIs
  <2> QED BY <1>1, <2>2 DEF s
<1> QED BY <1>2, <1>3

-----------------------------------------------------------------------------
(* The day.                                                                 *)

LEMMA ClockNumbers ==
    /\ Beat \in Nat \ {0} /\ Quarter \in Nat \ {0} /\ Baseline \in Nat \ {0}
    /\ \A b \in Buckets : Every(b) \in Nat \ {0}
BY ClockAssumption DEF Buckets, Every

\* Where in its quarter, and in which quarter of which day, a tick is.
LEMMA TickInDay ==
    ASSUME NEW t \in Nat, NEW e \in Nat, NEW f \in 0..3, NEW r \in 0..(Quarter - 1),
           t = (4 * e + f) * Quarter + r
    PROVE  /\ PhaseCount(t) = 4 * e + f /\ t % Quarter = r
           /\ (4 * e + f) % 4 = f
           /\ t % TicksPerDay = f * Quarter + r
<1>q. Quarter \in Nat \ {0}
  BY ClockNumbers
<1>1. t \div Quarter = 4 * e + f /\ t % Quarter = r
  <2> DEFINE d == 4 * e + f
  <2>1. d \in Nat /\ t = d * Quarter + r
    OBVIOUS
  <2> HIDE DEF d
  <2>2. t \div Quarter = d /\ t % Quarter = r
    BY <1>q, <2>1, QuotientIs
  <2> QED BY <2>2 DEF d
<1>2. (4 * e + f) % 4 = f
  OBVIOUS
<1>3. t % TicksPerDay = f * Quarter + r
  <2> DEFINE n == 4 * Quarter
             s == f * Quarter + r
  <2>1. n \in Nat \ {0}
    BY <1>q
  <2>2. s \in 0..(n - 1)
    BY <1>q
  <2>3. t = e * n + s
    <3>1. (4 * e + f) * Quarter = e * n + f * Quarter
      BY <1>q
    <3>2. e * n \in Nat /\ f * Quarter \in Nat
      BY <1>q
    <3> QED BY <3>1, <3>2
  <2> HIDE DEF n, s
  <2>4. t % n = s
    BY <2>1, <2>2, <2>3, QuotientIs
  <2> QED BY <2>4 DEF n, s, TicksPerDay
<1> QED BY <1>1, <1>2, <1>3 DEF PhaseCount

\* The light after k of the quarter's ticks of dawn.
Risen(k) == (Baseline * k) \div Quarter
Climb == (Baseline + Quarter - 1) \div Quarter

LEMMA RisesEvenly ==
    /\ Risen(0) = 0 /\ Risen(Quarter) = Baseline /\ Climb \in Nat
    /\ \A k \in Nat : Risen(k) \in Nat /\ Risen(k) <= Risen(k + 1) /\ Risen(k + 1) <= Risen(k) + Climb
<1>q. Quarter \in Nat \ {0} /\ Baseline \in Nat \ {0}
  BY ClockNumbers
<1>1. Risen(0) = 0
  <2>1. Baseline * 0 = 0 /\ 0 = 0 * Quarter + 0 /\ 0 \in 0..(Quarter - 1)
    BY <1>q
  <2> QED BY <1>q, <2>1, QuotientIs DEF Risen
<1>2. Risen(Quarter) = Baseline
  <2> DEFINE m == Baseline * Quarter
  <2>1. m \in Nat /\ m = Baseline * Quarter + 0 /\ 0 \in 0..(Quarter - 1)
    BY <1>q
  <2> HIDE DEF m
  <2>2. m \div Quarter = Baseline
    BY <1>q, <2>1, QuotientIs
  <2> QED BY <2>2 DEF m, Risen
<1>3. Climb \in Nat /\ Climb * Quarter \in Nat /\ Climb * Quarter >= Baseline
  <2> DEFINE m == Baseline + Quarter - 1
  <2>1. m \in Nat /\ Climb = m \div Quarter
    BY <1>q DEF Climb
  <2> HIDE DEF m
  <2>2. Climb \in Nat /\ m % Quarter \in 0..(Quarter - 1) /\ m = Climb * Quarter + (m % Quarter)
    BY <1>q, <2>1, Division
  <2>3. Climb * Quarter \in Nat
    BY <1>q, <2>2
  <2> QED BY <1>q, <2>2, <2>3 DEF m
<1>4. ASSUME NEW k \in Nat
      PROVE  Risen(k) \in Nat /\ Risen(k) <= Risen(k + 1) /\ Risen(k + 1) <= Risen(k) + Climb
  <2> DEFINE x == Baseline * k
             y == Baseline * (k + 1)
             a == Risen(k)
             b == Risen(k + 1)
  <2>1. x \in Nat /\ y \in Nat /\ y = x + Baseline
    BY <1>q
  <2>2. a = x \div Quarter /\ b = y \div Quarter
    BY DEF Risen
  <2> HIDE DEF x, y, a, b
  <2>3. a \in Nat /\ b \in Nat /\ a <= b
    BY <1>q, <2>1, <2>2, QuotientsInOrder
  <2>4. x % Quarter \in 0..(Quarter - 1) /\ x = a * Quarter + (x % Quarter)
    BY <1>q, <2>1, <2>2, Division
  <2>5. y % Quarter \in 0..(Quarter - 1) /\ y = b * Quarter + (y % Quarter)
    BY <1>q, <2>1, <2>2, Division
  <2>6. ASSUME b > a + Climb PROVE FALSE
    <3>1. (a + Climb + 1) * Quarter <= b * Quarter /\ b * Quarter \in Nat
      BY <1>q, <1>3, <2>3, <2>6, ProductsInOrder
    <3>2. (a + Climb + 1) * Quarter = a * Quarter + Climb * Quarter + Quarter /\ a * Quarter \in Nat
      BY <1>q, <1>3, <2>3
    <3> QED BY <1>q, <1>3, <2>1, <2>4, <2>5, <3>1, <3>2
  <2>7. b <= a + Climb
    BY <1>3, <2>3, <2>6
  <2> QED BY <2>3, <2>7 DEF a, b
<1> QED BY <1>1, <1>2, <1>3, <1>4

\* The light of a tick, by its quarter.
LEMMA LightOfTick ==
    ASSUME NEW t \in Nat, NEW e \in Nat, NEW f \in 0..3, NEW r \in 0..(Quarter - 1),
           t = (4 * e + f) * Quarter + r
    PROVE  ApplyCurve(t) = CASE f = 0 -> Risen(r) [] f = 1 -> Baseline
                             [] f = 2 -> Risen(Quarter - r) [] f = 3 -> 0
<1>q. Quarter \in Nat \ {0} /\ Baseline \in Nat \ {0}
  BY ClockNumbers
<1> DEFINE p == t % TicksPerDay
<1>1. p = f * Quarter + r
  BY TickInDay
<1>2. ApplyCurve(t) = CASE p < Quarter -> (Baseline * p) \div Quarter
                        [] p >= Quarter /\ p < 2 * Quarter -> Baseline
                        [] p >= 2 * Quarter /\ p < 3 * Quarter -> (Baseline * (3 * Quarter - p)) \div Quarter
                        [] p >= 3 * Quarter -> 0
  BY DEF ApplyCurve
<1> HIDE DEF p
<1>3. CASE f = 0
  <2>1. p = r /\ p < Quarter /\ ~(p >= Quarter) /\ ~(p >= 2 * Quarter) /\ ~(p >= 3 * Quarter)
    BY <1>q, <1>1, <1>3
  <2> QED BY <1>2, <1>3, <2>1 DEF Risen
<1>4. CASE f = 1
  <2>1. ~(p < Quarter) /\ p >= Quarter /\ p < 2 * Quarter /\ ~(p >= 2 * Quarter) /\ ~(p >= 3 * Quarter)
    BY <1>q, <1>1, <1>4
  <2> QED BY <1>2, <1>4, <2>1
<1>5. CASE f = 2
  <2>1. /\ ~(p < Quarter) /\ ~(p < 2 * Quarter) /\ p >= 2 * Quarter /\ p < 3 * Quarter /\ ~(p >= 3 * Quarter)
        /\ 3 * Quarter - p = Quarter - r
    BY <1>q, <1>1, <1>5
  <2> QED BY <1>2, <1>5, <2>1 DEF Risen
<1>6. CASE f = 3
  <2>1. ~(p < Quarter) /\ ~(p < 2 * Quarter) /\ ~(p < 3 * Quarter) /\ p >= 3 * Quarter
    BY <1>q, <1>1, <1>6
  <2> QED BY <1>2, <1>6, <2>1
<1> QED BY <1>3, <1>4, <1>5, <1>6

\* The next tick is the next of its quarter or the first of the next quarter.
LEMMA LightStepsEvenly ==
    ASSUME NEW t \in Nat
    PROVE  ApplyCurve(t) <= ApplyCurve(t + 1) + Climb /\ ApplyCurve(t + 1) <= ApplyCurve(t) + Climb
<1>q. Quarter \in Nat \ {0} /\ Baseline \in Nat \ {0} /\ Climb \in Nat
  BY ClockNumbers, RisesEvenly
<1> DEFINE d == t \div Quarter
           r == t % Quarter
           e == d \div 4
           f == d % 4
<1>1. d \in Nat /\ r \in 0..(Quarter - 1) /\ t = d * Quarter + r
  BY <1>q, Division
<1>2. e \in Nat /\ f \in 0..3 /\ d = 4 * e + f
  <2> HIDE DEF d
  <2> QED BY <1>1
<1> HIDE DEF d, r, e, f
<1>3. t = (4 * e + f) * Quarter + r
  BY <1>1, <1>2
<1>4. /\ f = 0 => ApplyCurve(t) = Risen(r)
      /\ f = 1 => ApplyCurve(t) = Baseline
      /\ f = 2 => ApplyCurve(t) = Risen(Quarter - r)
      /\ f = 3 => ApplyCurve(t) = 0
  BY <1>1, <1>2, <1>3, LightOfTick
<1>r. \A k \in Nat : Risen(k) \in Nat /\ Risen(k) <= Risen(k + 1) /\ Risen(k + 1) <= Risen(k) + Climb
  BY RisesEvenly
<1>5. CASE r + 1 < Quarter
  <2>1. r + 1 \in 0..(Quarter - 1) /\ t + 1 \in Nat /\ t + 1 = (4 * e + f) * Quarter + (r + 1)
    <3>1. (4 * e + f) * Quarter \in Nat
      BY <1>q, <1>2
    <3>2. r + 1 \in 0..(Quarter - 1) /\ t + 1 \in Nat
      BY <1>q, <1>1, <1>5
    <3> QED BY <1>1, <1>3, <3>1, <3>2
  <2>2. /\ f = 0 => ApplyCurve(t + 1) = Risen(r + 1)
        /\ f = 1 => ApplyCurve(t + 1) = Baseline
        /\ f = 2 => ApplyCurve(t + 1) = Risen(Quarter - (r + 1))
        /\ f = 3 => ApplyCurve(t + 1) = 0
    BY <1>2, <2>1, LightOfTick
  <2>3. CASE f = 0
    BY <1>1, <1>4, <1>q, <1>r, <2>2, <2>3
  <2>4. CASE f = 1 \/ f = 3
    BY <1>4, <1>q, <2>2, <2>4
  <2>5. CASE f = 2
    <3> DEFINE k == Quarter - (r + 1)
    <3>1. k \in Nat /\ Quarter - r = k + 1
      BY <1>q, <1>1, <1>5
    <3> HIDE DEF k
    <3>2. ApplyCurve(t) = Risen(k + 1) /\ ApplyCurve(t + 1) = Risen(k)
      BY <1>4, <2>2, <2>5, <3>1 DEF k
    <3> QED BY <1>q, <1>r, <3>1, <3>2
  <2> QED BY <1>2, <2>3, <2>4, <2>5
<1>6. CASE ~(r + 1 < Quarter)
  <2> DEFINE g == IF f = 3 THEN 0 ELSE f + 1
             c == IF f = 3 THEN e + 1 ELSE e
  <2>1. /\ g \in 0..3 /\ c \in Nat /\ 0 \in 0..(Quarter - 1) /\ t + 1 \in Nat
        /\ t + 1 = (4 * c + g) * Quarter + 0
    <3>1. r + 1 = Quarter
      BY <1>q, <1>1, <1>6
    <3>2. 4 * c + g = d + 1 /\ g \in 0..3 /\ c \in Nat
      BY <1>2
    <3>3. (d + 1) * Quarter = d * Quarter + Quarter /\ d * Quarter \in Nat
      BY <1>q, <1>1
    <3> HIDE DEF g, c
    <3> QED BY <1>q, <1>1, <3>1, <3>2, <3>3
  <2>2. /\ g = 0 => ApplyCurve(t + 1) = Risen(0)
        /\ g = 1 => ApplyCurve(t + 1) = Baseline
        /\ g = 2 => ApplyCurve(t + 1) = Risen(Quarter - 0)
        /\ g = 3 => ApplyCurve(t + 1) = 0
    <3> HIDE DEF g, c
    <3> QED BY <2>1, LightOfTick
  <2>3. Risen(0) = 0 /\ Risen(Quarter) = Baseline /\ Quarter - 0 = Quarter
    BY <1>q, RisesEvenly
  <2>4. r \in Nat /\ r + 1 = Quarter /\ Quarter - r = 1 /\ 0 + 1 = 1 /\ 0 \in Nat
    BY <1>q, <1>1, <1>6
  <2>5. Risen(r) \in Nat /\ Risen(r) <= Baseline /\ Baseline <= Risen(r) + Climb
    BY <1>r, <2>3, <2>4
  <2>6. Risen(1) \in Nat /\ 0 <= Risen(1) /\ Risen(1) <= 0 + Climb
    BY <1>r, <2>3, <2>4
  <2>7. CASE f = 0
    BY <1>4, <1>q, <2>2, <2>5, <2>7
  <2>8. CASE f = 1
    BY <1>4, <1>q, <2>2, <2>3, <2>8
  <2>9. CASE f = 2
    BY <1>4, <1>q, <2>2, <2>4, <2>6, <2>9
  <2>10. CASE f = 3
    BY <1>4, <1>q, <2>2, <2>3, <2>10
  <2> QED BY <1>2, <2>7, <2>8, <2>9, <2>10
<1> QED BY <1>5, <1>6

\* Whatever the tick, those who ask for the time get one answer.
LEMMA TimesAgreeAt ==
    ASSUME Ticks \in Nat
    PROVE  TimesAgree
<1>q. Quarter \in Nat \ {0} /\ Baseline \in Nat \ {0}
  BY ClockNumbers
<1> DEFINE t == Ticks
           d == t \div Quarter
           r == t % Quarter
           e == d \div 4
           f == d % 4
<1>1. d \in Nat /\ r \in 0..(Quarter - 1) /\ t = d * Quarter + r
  BY <1>q, Division
<1>2. e \in Nat /\ f \in 0..3 /\ d = 4 * e + f
  <2> HIDE DEF d
  <2> QED BY <1>1
<1>t. t \in Nat
  OBVIOUS
<1>f. d % 4 = f
  OBVIOUS
<1>c. PhaseCount(t) = d /\ UntilNext(t) = Quarter - r
  BY DEF PhaseCount, UntilNext
<1> HIDE DEF t, d, r, e, f
<1>3. t = (4 * e + f) * Quarter + r
  BY <1>1, <1>2
<1> DEFINE names == <<"dawn", "day", "dusk", "night">>
<1>4. PhaseOf(d) = names[f + 1]
  BY <1>f DEF PhaseOf
<1>5. HourOfDay(t) \div 6 = f
  <2> DEFINE n == TicksPerDay
             p == t % n
             h == (24 * r) \div n
             rest == (24 * r) % n
  <2>1. n \in Nat \ {0} /\ n = 4 * Quarter
    BY <1>q DEF TicksPerDay
  <2>2. p = f * Quarter + r
    BY <1>1, <1>2, <1>3, <1>t, TickInDay
  <2>h. HourOfDay(t) = (p * 24) \div n
    BY DEF HourOfDay
  <2> HIDE DEF n, p
  <2>3. 24 * r \in Nat
    BY <1>1
  <2>4. h \in Nat /\ rest \in 0..(n - 1) /\ 24 * r = h * n + rest
    BY <2>1, <2>3, Division
  <2> HIDE DEF h, rest
  <2>5. h < 6
    <3>1. ASSUME h >= 6 PROVE FALSE
      <4>1. 6 * n <= h * n
        BY <2>1, <2>4, <3>1, ProductsInOrder
      <4>2. h * n \in Nat
        BY <2>1, <2>4
      <4> QED BY <1>q, <1>1, <2>1, <2>4, <4>1, <4>2
    <3> QED BY <2>4, <3>1
  <2>6. p * 24 = (6 * f + h) * n + rest
    <3>1. p * 24 = 24 * (f * Quarter) + 24 * r /\ f * Quarter \in Nat
      BY <1>q, <1>1, <1>2, <2>2
    <3>2. (6 * f + h) * n = 6 * f * n + h * n /\ h * n \in Nat
      BY <1>2, <2>1, <2>4
    <3>3. 6 * f * n = 24 * (f * Quarter)
      BY <1>q, <1>2, <2>1
    <3> QED BY <1>q, <1>1, <1>2, <2>1, <2>4, <3>1, <3>2, <3>3
  <2>7. (p * 24) \div n = 6 * f + h
    <3> DEFINE m == p * 24
               k == 6 * f + h
    <3>1. m \in Nat /\ k \in Nat
      BY <1>q, <1>1, <1>2, <2>2, <2>4
    <3>2. m = k * n + rest
      BY <2>6
    <3> HIDE DEF m, k
    <3>3. m \div n = k
      BY <2>1, <2>4, <3>1, <3>2, QuotientIs
    <3> QED BY <3>3 DEF m, k
  <2>8. (6 * f + h) \div 6 = f
    BY <1>2, <2>4, <2>5
  <2> QED BY <2>7, <2>8, <2>h
<1>6. PhaseOf(f) = names[f + 1]
  BY <1>2 DEF PhaseOf
<1>7. PhaseCount(t + UntilNext(t)) = d + 1
  <2>1. t + UntilNext(t) = (d + 1) * Quarter + 0 /\ d + 1 \in Nat /\ 0 \in 0..(Quarter - 1)
    <3>1. (d + 1) * Quarter = d * Quarter + Quarter /\ d * Quarter \in Nat
      BY <1>q, <1>1
    <3> QED BY <1>q, <1>1, <1>c, <3>1
  <2>2. t + UntilNext(t) \in Nat
    BY <1>q, <1>1, <1>t, <1>c
  <2> QED BY <1>q, <2>1, <2>2, QuotientIs DEF PhaseCount
<1>8. PhaseOf(d + 1) = NextPhase(names[f + 1])
  <2>1. (d + 1) % 4 = IF f = 3 THEN 0 ELSE f + 1
    BY <1>2
  <2>2. CASE f = 0
    BY <2>1, <2>2 DEF PhaseOf, NextPhase
  <2>3. CASE f = 1
    BY <2>1, <2>3 DEF PhaseOf, NextPhase
  <2>4. CASE f = 2
    BY <2>1, <2>4 DEF PhaseOf, NextPhase
  <2>5. CASE f = 3
    BY <2>1, <2>5 DEF PhaseOf, NextPhase
  <2> QED BY <1>2, <2>2, <2>3, <2>4, <2>5
<1>9. /\ f = 1 => ApplyCurve(t) = Baseline
      /\ f = 3 => ApplyCurve(t) = 0
  BY <1>1, <1>2, <1>3, <1>t, LightOfTick
<1>10. /\ names[f + 1] = "day" => f = 1
       /\ names[f + 1] = "night" => f = 3
  BY <1>2
<1>11. ApplyCurve(t) <= ApplyCurve(t + 1) + Climb /\ ApplyCurve(t + 1) <= ApplyCurve(t) + Climb
  BY <1>t, LightStepsEvenly
<1> HIDE DEF names
<1>12. /\ PhaseOf(PhaseCount(t)) = PhaseOf(HourOfDay(t) \div 6)
       /\ PhaseOf(PhaseCount(t + UntilNext(t))) = NextPhase(PhaseOf(PhaseCount(t)))
       /\ PhaseOf(PhaseCount(t)) = "night" => ApplyCurve(t) = 0
       /\ PhaseOf(PhaseCount(t)) = "day" => ApplyCurve(t) = Baseline
       /\ ApplyCurve(t) <= ApplyCurve(t + 1) + Climb
       /\ ApplyCurve(t + 1) <= ApplyCurve(t) + Climb
  BY <1>4, <1>5, <1>6, <1>7, <1>8, <1>9, <1>10, <1>11, <1>c
<1> QED BY <1>12 DEF t, TimesAgree, Climb

-----------------------------------------------------------------------------
(* The heartbeat and the watcher of the phase.                              *)

TellingState == [does : {"broadcast"}, line : Nat, left : SUBSET Listeners]
PulseState == {NoPulse} \cup [does : Buckets] \cup TellingState \cup [does : {"set"}, ticks : Nat]

\* What a listener has been told of, each crossing once.
ToldOnce == UNION {[S -> {1}] : S \in SUBSET Nat}

ClockTypes ==
    /\ moment \in Nat /\ start \in Nat /\ start <= moment
    /\ base \in Nat /\ saved \in Nat /\ lastPhase \in Nat
    /\ {up, ticked, late} \subseteq BOOLEAN
    /\ next \in [Buckets -> Nat]
    /\ pulse \in [Pulses -> PulseState]
    /\ heard \in [Listeners -> ToldOnce]
    /\ ~up => \A p \in Pulses : pulse[p] = NoPulse

\* A pulse is due after the last beat, or after the one before if that beat is
\* still in the channel.
LastBeat == moment - ((moment - start) % Beat)
DueInTime ==
    up /\ ~late => \A b \in Buckets : LastBeat < next[b] + (IF ticked THEN Beat ELSE 0)

IsTelling(p) == pulse[p].does = "broadcast"

\* Each crossing that has come since the start is one goroutine's to tell of, at
\* most, and those it has still to tell have not heard of it.
LinesClaimed ==
    /\ PhaseCount(base) <= lastPhase /\ lastPhase <= PhaseCount(Ticks)
    /\ \A l \in Listeners : \A c \in DOMAIN heard[l] : PhaseCount(base) < c /\ c <= lastPhase
    /\ \A p \in Pulses : IsTelling(p) =>
          /\ PhaseCount(base) < pulse[p].line /\ pulse[p].line <= lastPhase
          /\ \A l \in pulse[p].left : pulse[p].line \notin DOMAIN heard[l]
          /\ \A q \in Pulses : IsTelling(q) /\ p # q => pulse[p].line # pulse[q].line

ClockInv == ClockTypes /\ DueInTime /\ LinesClaimed

LEMMA OnceEach ==
    ASSUME NEW told \in ToldOnce, NEW c \in DOMAIN told
    PROVE  c \in Nat /\ told[c] = 1
<1>1. PICK S \in SUBSET Nat : told \in [S -> {1}]
  BY DEF ToldOnce
<1>2. DOMAIN told = S
  BY <1>1
<1> QED BY <1>1, <1>2

LEMMA ClockStart == ClockInit => ClockInv
<1> SUFFICES ASSUME ClockInit PROVE ClockInv
  OBVIOUS
<1>q. /\ Beat \in Nat \ {0} /\ Quarter \in Nat \ {0} /\ 3 * Quarter \in Nat
      /\ \A b \in Buckets : Every(b) \in Nat \ {0}
  BY ClockNumbers
<1>0. (moment - start) % Beat = 0 /\ (moment - start) \div Beat = 0
  <2>1. 0 = 0 * Beat + 0 /\ 0 \in 0..(Beat - 1)
    BY <1>q
  <2>2. 0 % Beat = 0 /\ 0 \div Beat = 0
    BY <1>q, <2>1, QuotientIs
  <2>3. moment - start = 0
    BY DEF ClockInit
  <2> QED BY <2>2, <2>3
<1>1. base \in Nat /\ saved \in Nat /\ base = saved
  BY <1>q DEF ClockInit
<1>2. lastPhase = PhaseCount(base) /\ lastPhase \in Nat /\ Ticks = base
  <2>1. base \div Quarter \in Nat
    BY <1>q, <1>1, Division
  <2> QED BY <1>0, <1>1, <2>1 DEF ClockInit, PhaseCount, Ticks
<1>3. NoPulse \in PulseState /\ NoPulse.does = "idle"
  BY DEF NoPulse, PulseState
<1>4. \A l \in Listeners : heard[l] = [c \in {} |-> 0]
  BY DEF ClockInit
<1>5. [c \in {} |-> 0] \in ToldOnce /\ DOMAIN [c \in {} |-> 0] = {}
  <2>1. [c \in {} |-> 0] \in [{} -> {1}]
    OBVIOUS
  <2>2. {} \in SUBSET Nat
    OBVIOUS
  <2> QED BY <2>1, <2>2 DEF ToldOnce
<1>6. ClockTypes
  <2>1. heard \in [Listeners -> ToldOnce]
    BY <1>5 DEF ClockInit
  <2>2. next \in [Buckets -> Nat] /\ pulse \in [Pulses -> PulseState]
    BY <1>q, <1>3 DEF ClockInit
  <2>3. moment \in Nat /\ start \in Nat /\ start <= moment /\ up = TRUE /\ ticked = FALSE /\ late = FALSE
    BY DEF ClockInit
  <2> QED BY <1>1, <1>2, <2>1, <2>2, <2>3 DEF ClockTypes
<1>7. DueInTime
  <2>1. LastBeat = 0
    BY <1>0 DEF ClockInit, LastBeat
  <2>2. \A b \in Buckets : next[b] = Every(b)
    BY DEF ClockInit
  <2> QED BY <1>q, <2>1, <2>2 DEF ClockInit, DueInTime
<1>8. LinesClaimed
  <2>1. \A p \in Pulses : ~IsTelling(p)
    BY <1>3 DEF ClockInit, IsTelling
  <2>2. \A l \in Listeners : DOMAIN heard[l] = {}
    BY <1>4, <1>5
  <2> QED BY <1>2, <2>1, <2>2 DEF LinesClaimed
<1> QED BY <1>6, <1>7, <1>8 DEF ClockInv

\* A moment passes.
LEMMA ClockElapse == ClockInv /\ Elapse => ClockInv'
<1> SUFFICES ASSUME ClockInv, Elapse PROVE ClockInv'
  OBVIOUS
<1>q. Beat \in Nat \ {0} /\ Quarter \in Nat \ {0}
  BY ClockNumbers
<1>t. /\ moment \in Nat /\ start \in Nat /\ start <= moment /\ base \in Nat
      /\ up \in BOOLEAN /\ ticked \in BOOLEAN /\ late \in BOOLEAN /\ next \in [Buckets -> Nat]
  BY DEF ClockInv, ClockTypes
<1> DEFINE beats == up /\ (moment' - start) % Beat = 0
<1>1. /\ moment' = moment + 1 /\ ticked' = (ticked \/ beats) /\ late' = (late \/ (ticked /\ beats))
      /\ UNCHANGED <<up, start, base, next, pulse, lastPhase, saved, heard>>
  BY DEF Elapse
<1> DEFINE m == moment - start
<1>2. m \in Nat /\ moment' - start' = m + 1 /\ m + 1 \in Nat
  BY <1>1, <1>t
<1>3. ClockTypes'
  <2>1. ticked' \in BOOLEAN /\ late' \in BOOLEAN
    BY <1>1, <1>t
  <2>2. moment' \in Nat /\ start <= moment'
    BY <1>1, <1>t
  <2> HIDE DEF beats
  <2> QED BY <1>1, <2>1, <2>2 DEF ClockInv, ClockTypes
<1>4. DueInTime'
  <2> DEFINE r == m % Beat
             s == (m + 1) % Beat
  <2>1. \/ s = 0 /\ r = Beat - 1
        \/ s # 0 /\ s = r + 1
    BY <1>q, <1>2, NextRemainder
  <2>2. r \in 0..(Beat - 1) /\ s \in 0..(Beat - 1)
    BY <1>q, <1>2, Division
  <2>3. LastBeat = moment - r /\ LastBeat' = moment' - s
    BY <1>1, <1>2 DEF LastBeat
  <2>4. beats <=> up /\ s = 0
    BY <1>1, <1>2
  <2> HIDE DEF beats, r, s
  <2>5. SUFFICES ASSUME up, ~late', NEW b \in Buckets
                 PROVE  LastBeat' < next[b] + (IF ticked' THEN Beat ELSE 0)
    BY <1>1 DEF DueInTime
  <2>6. LastBeat < next[b] + (IF ticked THEN Beat ELSE 0)
    BY <1>1, <2>5 DEF ClockInv, DueInTime
  <2>7. next[b] \in Nat
    BY <1>t
  <2>8. CASE s = 0
    <3>1. beats /\ ~ticked /\ ticked'
      BY <1>1, <1>t, <2>4, <2>5, <2>8
    <3>2. LastBeat < next[b] /\ LastBeat = moment - (Beat - 1) /\ LastBeat' = moment + 1
      BY <1>1, <1>q, <1>t, <2>1, <2>2, <2>3, <2>6, <2>7, <2>8, <3>1
    <3> QED BY <1>q, <1>t, <2>7, <3>1, <3>2
  <2>9. CASE s # 0
    <3>1. ~beats /\ (ticked' <=> ticked)
      BY <1>1, <1>t, <2>4, <2>9
    <3>2. LastBeat' = LastBeat
      BY <1>1, <1>q, <1>t, <2>1, <2>2, <2>3, <2>9
    <3> QED BY <2>6, <3>1, <3>2
  <2> QED BY <2>8, <2>9
<1>5. PhaseCount(Ticks) \in Nat /\ PhaseCount(Ticks)' \in Nat /\ PhaseCount(Ticks) <= PhaseCount(Ticks)'
  <2>1. m \div Beat \in Nat /\ (m + 1) \div Beat \in Nat /\ m \div Beat <= (m + 1) \div Beat
    BY <1>q, <1>2, QuotientsInOrder
  <2> DEFINE t == Ticks
             u == Ticks'
  <2>2. t \in Nat /\ u \in Nat /\ t <= u
    BY <1>1, <1>2, <1>t, <2>1 DEF Ticks
  <2> HIDE DEF t, u
  <2>3. t \div Quarter \in Nat /\ u \div Quarter \in Nat /\ t \div Quarter <= u \div Quarter
    BY <1>q, <2>2, QuotientsInOrder
  <2> QED BY <2>3 DEF t, u, PhaseCount
<1>6. LinesClaimed'
  <2>1. lastPhase \in Nat /\ lastPhase <= PhaseCount(Ticks)'
    BY <1>5 DEF ClockInv, ClockTypes, LinesClaimed
  <2>2. \A p \in Pulses : IsTelling(p)' = IsTelling(p)
    BY <1>1 DEF IsTelling
  <2>3. PhaseCount(base)' = PhaseCount(base)
    BY <1>1 DEF PhaseCount
  <2> QED BY <1>1, <2>1, <2>2, <2>3 DEF ClockInv, LinesClaimed, IsTelling
<1> QED BY <1>3, <1>4, <1>6 DEF ClockInv

\* The steps between two moments leave the count of ticks and phases alone.
LEMMA PhaseStill ==
    ASSUME UNCHANGED <<moment, start, base>>
    PROVE  PhaseCount(Ticks)' = PhaseCount(Ticks) /\ PhaseCount(base)' = PhaseCount(base) /\ LastBeat' = LastBeat
BY DEF PhaseCount, Ticks, LastBeat

LEMMA DueStill ==
    ASSUME DueInTime, UNCHANGED <<moment, up, start, ticked, next, late>>
    PROVE  DueInTime'
BY DEF DueInTime, LastBeat

\* The lines are claimed still if nobody begins to tell, and what is told by one
\* goroutine is what it claimed.
LEMMA LinesStill ==
    ASSUME LinesClaimed, UNCHANGED <<moment, start, base, lastPhase, heard>>,
           \A p \in Pulses : IsTelling(p)' => IsTelling(p) /\ pulse'[p] = pulse[p]
    PROVE  LinesClaimed'
<1>1. PhaseCount(Ticks)' = PhaseCount(Ticks) /\ PhaseCount(base)' = PhaseCount(base)
  BY PhaseStill
<1> QED BY <1>1 DEF LinesClaimed

\* A beat is answered.
LEMMA ClockTick == ClockInv /\ Tick => ClockInv'
<1> SUFFICES ASSUME ClockInv, Tick PROVE ClockInv'
  OBVIOUS
<1>q. Beat \in Nat \ {0} /\ \A b \in Buckets : Every(b) \in Nat \ {0}
  BY ClockNumbers
<1>t. /\ moment \in Nat /\ start \in Nat /\ start <= moment
      /\ next \in [Buckets -> Nat] /\ pulse \in [Pulses -> PulseState]
  BY DEF ClockInv, ClockTypes
<1>1. PICK where \in [Due -> {p \in Pulses : pulse[p] = NoPulse}] :
         pulse' = [p \in Pulses |->
            IF \E b \in Due : where[b] = p THEN [does |-> CHOOSE b \in Due : where[b] = p] ELSE pulse[p]]
  BY DEF Tick
<1>2. /\ up /\ ticked' = FALSE
      /\ next' = [b \in Buckets |-> IF b \in Due THEN moment + Every(b) ELSE next[b]]
      /\ UNCHANGED <<moment, up, start, base, lastPhase, saved, heard, late>>
  BY DEF Tick
<1>3. ASSUME NEW p \in Pulses
      PROVE  pulse'[p] \in PulseState /\ (pulse'[p].does = "broadcast" => pulse'[p] = pulse[p])
  <2>1. CASE \E b \in Due : where[b] = p
    <3> DEFINE c == CHOOSE b \in Due : where[b] = p
    <3>1. c \in Buckets /\ pulse'[p] = [does |-> c]
      <4>1. c \in Due
        BY <2>1
      <4> QED BY <1>1, <2>1, <4>1 DEF Due
    <3> HIDE DEF c
    <3> QED BY <3>1 DEF PulseState, Buckets
  <2>2. CASE ~(\E b \in Due : where[b] = p)
    <3>1. pulse'[p] = pulse[p]
      BY <1>1, <2>2
    <3> QED BY <1>t, <3>1
  <2> QED BY <2>1, <2>2
<1>4. pulse' \in [Pulses -> PulseState]
  <2>1. pulse' = [p \in Pulses |-> pulse'[p]]
    BY <1>1
  <2> QED BY <1>3, <2>1
<1>5. next' \in [Buckets -> Nat]
  BY <1>2, <1>q, <1>t
<1>6. ClockTypes'
  <2>1. ticked' \in BOOLEAN
    BY <1>2
  <2> QED BY <1>2, <1>4, <1>5, <2>1 DEF ClockInv, ClockTypes
<1>7. DueInTime'
  <2>1. LastBeat' = LastBeat /\ LastBeat \in Int /\ LastBeat <= moment
    <3> DEFINE m == moment - start
    <3>1. m \in Nat
      BY <1>t
    <3> HIDE DEF m
    <3>2. m % Beat \in 0..(Beat - 1)
      BY <1>q, <3>1, Division
    <3> QED BY <1>2, <1>q, <1>t, <3>2 DEF LastBeat, m
  <2>2. ASSUME NEW b \in Buckets PROVE LastBeat < next'[b]
    <3>1. CASE b \in Due
      BY <1>2, <1>q, <1>t, <2>1, <3>1
    <3>2. CASE b \notin Due
      <4>1. moment < next[b] /\ next'[b] = next[b] /\ next[b] \in Nat
        BY <1>2, <1>t, <3>2 DEF Due
      <4> QED BY <1>t, <2>1, <4>1
    <3> QED BY <3>1, <3>2
  <2>3. \A b \in Buckets : next'[b] \in Nat
    BY <1>5
  <2> QED BY <1>2, <2>1, <2>2, <2>3 DEF DueInTime
<1>8. LinesClaimed'
  BY <1>2, <1>3, LinesStill DEF ClockInv, IsTelling
<1> QED BY <1>6, <1>7, <1>8 DEF ClockInv

\* The phase is read and remembered: who finds it changed has a crossing to tell
\* that nobody has claimed.
LEMMA ClockClaim == ASSUME ClockInv, NEW p \in Pulses, Claim(p) PROVE ClockInv'
<1>q. Beat \in Nat \ {0} /\ Quarter \in Nat \ {0}
  BY ClockNumbers
<1>t. /\ moment \in Nat /\ start \in Nat /\ start <= moment /\ base \in Nat
      /\ pulse \in [Pulses -> PulseState] /\ lastPhase \in Nat /\ heard \in [Listeners -> ToldOnce]
      /\ up \in BOOLEAN /\ (~up => \A v \in Pulses : pulse[v] = NoPulse)
  BY DEF ClockInv, ClockTypes
<1> DEFINE curr == PhaseCount(Ticks)
           now == Tells(lastPhase, curr)
<1>1. /\ pulse[p].does = "phase" /\ lastPhase' = curr
      /\ UNCHANGED <<moment, up, start, base, ticked, next, saved, heard, late>>
  BY DEF Claim
<1>2. pulse' = [pulse EXCEPT ![p] = now]
  BY DEF Claim, Becomes
<1>3. curr \in Nat
  <2>1. moment - start \in Nat
    BY <1>t
  <2>2. (moment - start) \div Beat \in Nat
    BY <1>q, <2>1, Division
  <2>3. Ticks \in Nat
    BY <1>t, <2>2 DEF Ticks
  <2> QED BY <1>q, <2>3, Division DEF PhaseCount
<1>4. /\ now = NoPulse \/ (now = [does |-> "broadcast", line |-> curr, left |-> Listeners] /\ curr # lastPhase)
  BY DEF Tells
<1>5. PhaseCount(base) <= lastPhase /\ lastPhase <= curr /\ PhaseCount(base) \in Nat
  <2>1. PhaseCount(base) \in Nat
    BY <1>q, <1>t, Division DEF PhaseCount
  <2> QED BY <2>1 DEF ClockInv, LinesClaimed
<1>6. PhaseCount(Ticks)' = curr /\ PhaseCount(base)' = PhaseCount(base)
  BY <1>1, PhaseStill
<1> HIDE DEF curr, now
<1>7. now \in PulseState
  BY <1>3, <1>4 DEF PulseState, TellingState
<1>8. ClockTypes'
  <2>1. pulse' \in [Pulses -> PulseState]
    BY <1>2, <1>7, <1>t
  <2>2. up
    BY <1>1, <1>t DEF NoPulse
  <2>3. lastPhase' \in Nat
    BY <1>1, <1>3
  <2> QED BY <1>1, <2>1, <2>2, <2>3 DEF ClockInv, ClockTypes
<1>9. DueInTime'
  BY <1>1, DueStill DEF ClockInv
<1>10. LinesClaimed'
  <2>1. ASSUME NEW l \in Listeners, NEW c \in DOMAIN heard[l]
        PROVE  c \in Nat /\ PhaseCount(base) < c /\ c <= lastPhase /\ c <= curr
    <3>1. c \in Nat
      BY <1>t, <2>1, OnceEach
    <3> QED BY <1>3, <1>5, <1>t, <2>1, <3>1 DEF ClockInv, LinesClaimed
  <2>2. \A v \in Pulses : v # p => pulse'[v] = pulse[v]
    BY <1>2, <1>t
  <2>3. pulse'[p] = now
    BY <1>2, <1>t
  <2>4. ASSUME NEW v \in Pulses, v # p, IsTelling(v)
        PROVE  /\ pulse[v].line \in Nat /\ PhaseCount(base) < pulse[v].line
               /\ pulse[v].line <= lastPhase /\ pulse[v].line <= curr
               /\ \A l \in pulse[v].left : pulse[v].line \notin DOMAIN heard[l]
    <3>1. pulse[v] \in TellingState
      BY <1>t, <2>4 DEF IsTelling, PulseState, NoPulse, Buckets
    <3>2. pulse[v].line \in Nat
      BY <3>1 DEF TellingState
    <3> QED BY <1>3, <1>5, <1>t, <2>4, <3>2 DEF ClockInv, LinesClaimed
  <2>5. \A v \in Pulses : v # p => (IsTelling(v)' <=> IsTelling(v))
    BY <2>2 DEF IsTelling
  <2>c. /\ PhaseCount(base)' <= lastPhase' /\ lastPhase' <= PhaseCount(Ticks)'
        /\ \A l \in Listeners : \A c \in DOMAIN heard'[l] : PhaseCount(base)' < c /\ c <= lastPhase'
    <3>1. PhaseCount(base) <= curr /\ curr <= curr
      BY <1>3, <1>5, <1>t
    <3>2. \A l \in Listeners : \A c \in DOMAIN heard[l] : PhaseCount(base) < c /\ c <= curr
      BY <2>1
    <3>3. heard' = heard
      BY <1>1
    <3> QED BY <1>1, <1>6, <3>1, <3>2, <3>3
  <2>6. CASE now = NoPulse
    <3>1. ~IsTelling(p)'
      BY <2>3, <2>6 DEF IsTelling, NoPulse
    <3>2. ASSUME NEW v \in Pulses, IsTelling(v)', NEW w \in Pulses, IsTelling(w)', v # w
          PROVE  pulse'[v].line # pulse'[w].line
      <4>1. v # p /\ w # p /\ IsTelling(v) /\ IsTelling(w)
        BY <2>5, <3>1, <3>2
      <4> QED BY <2>2, <3>2, <4>1 DEF ClockInv, LinesClaimed
    <3>3. ASSUME NEW v \in Pulses, IsTelling(v)'
          PROVE  /\ PhaseCount(base) < pulse'[v].line /\ pulse'[v].line <= curr
                 /\ \A l \in pulse'[v].left : pulse'[v].line \notin DOMAIN heard[l]
      <4>1. v # p /\ IsTelling(v)
        BY <2>5, <3>1, <3>3
      <4> QED BY <2>2, <2>4, <4>1
    <3> QED BY <1>1, <1>6, <2>c, <3>2, <3>3 DEF LinesClaimed
  <2>7. CASE now = [does |-> "broadcast", line |-> curr, left |-> Listeners] /\ curr # lastPhase
    <3>1. IsTelling(p)' /\ pulse'[p].line = curr /\ pulse'[p].left = Listeners
      BY <2>3, <2>7 DEF IsTelling
    <3>2. lastPhase < curr /\ PhaseCount(base) < curr
      BY <1>3, <1>5, <1>t, <2>7
    <3>3. \A l \in Listeners : curr \notin DOMAIN heard[l]
      BY <1>3, <1>t, <2>1, <3>2
    <3>4. ASSUME NEW v \in Pulses, IsTelling(v)', NEW w \in Pulses, IsTelling(w)', v # w
          PROVE  pulse'[v].line # pulse'[w].line
      <4>1. CASE v = p
        <5>1. w # p /\ IsTelling(w)
          BY <2>5, <3>4, <4>1
        <5> QED BY <1>3, <1>t, <2>2, <2>4, <3>1, <3>2, <4>1, <5>1
      <4>2. CASE w = p
        <5>1. v # p /\ IsTelling(v)
          BY <2>5, <3>4, <4>2
        <5> QED BY <1>3, <1>t, <2>2, <2>4, <3>1, <3>2, <4>2, <5>1
      <4>3. CASE v # p /\ w # p
        <5>1. IsTelling(v) /\ IsTelling(w)
          BY <2>5, <3>4, <4>3
        <5> QED BY <2>2, <3>4, <4>3, <5>1 DEF ClockInv, LinesClaimed
      <4> QED BY <4>1, <4>2, <4>3
    <3>5. ASSUME NEW v \in Pulses, IsTelling(v)'
          PROVE  /\ PhaseCount(base) < pulse'[v].line /\ pulse'[v].line <= curr
                 /\ \A l \in pulse'[v].left : pulse'[v].line \notin DOMAIN heard[l]
      <4>1. CASE v = p
        BY <1>3, <3>1, <3>2, <3>3, <4>1
      <4>2. CASE v # p
        BY <2>2, <2>4, <2>5, <3>5, <4>2
      <4> QED BY <4>1, <4>2
    <3> QED BY <1>1, <1>6, <2>c, <3>4, <3>5 DEF LinesClaimed
  <2> QED BY <1>4, <2>6, <2>7
<1> QED BY <1>8, <1>9, <1>10 DEF ClockInv

\* A listener is told of a crossing that it has not heard of.
LEMMA ClockBroadcast ==
    ASSUME ClockInv, NEW p \in Pulses, NEW l \in Listeners, Broadcast(p, l)
    PROVE  ClockInv'
<1>t. /\ moment \in Nat /\ start \in Nat /\ start <= moment /\ base \in Nat
      /\ pulse \in [Pulses -> PulseState] /\ lastPhase \in Nat /\ heard \in [Listeners -> ToldOnce]
      /\ up \in BOOLEAN /\ (~up => \A v \in Pulses : pulse[v] = NoPulse)
  BY DEF ClockInv, ClockTypes
<1> DEFINE c0 == pulse[p].line
           rest == pulse[p].left \ {l}
           now == IF pulse[p].left = {l} THEN NoPulse ELSE [pulse[p] EXCEPT !.left = pulse[p].left \ {l}]
           told == [c \in DOMAIN heard[l] \cup {pulse[p].line} |->
                      (IF c \in DOMAIN heard[l] THEN heard[l][c] ELSE 0) + (IF c = pulse[p].line THEN 1 ELSE 0)]
<1>1. /\ IsTelling(p) /\ l \in pulse[p].left
      /\ UNCHANGED <<moment, up, start, base, ticked, next, lastPhase, saved, late>>
  BY DEF Broadcast, IsTelling
<1>2. pulse' = [pulse EXCEPT ![p] = now]
  BY DEF Broadcast, Becomes
<1>3. heard' = [heard EXCEPT ![l] = told]
  BY DEF Broadcast
<1>4. pulse[p] \in TellingState
  BY <1>1, <1>t DEF IsTelling, PulseState, NoPulse, Buckets
<1>5. c0 \in Nat /\ pulse[p].left \in SUBSET Listeners /\ c0 \notin DOMAIN heard[l]
  BY <1>1, <1>4 DEF TellingState, ClockInv, LinesClaimed
<1>6. now = NoPulse \/ now = [does |-> "broadcast", line |-> c0, left |-> rest]
  BY <1>4 DEF TellingState
<1>7. told \in ToldOnce /\ DOMAIN told = DOMAIN heard[l] \cup {c0}
  <2>1. PICK S \in SUBSET Nat : heard[l] \in [S -> {1}]
    BY <1>t DEF ToldOnce
  <2>2. DOMAIN heard[l] = S /\ \A c \in S : heard[l][c] = 1
    BY <2>1
  <2>3. told \in [S \cup {c0} -> {1}]
    <3>1. c0 \notin S
      BY <1>5, <2>2
    <3>2. told = [c \in S \cup {c0} |->
                    (IF c \in S THEN heard[l][c] ELSE 0) + (IF c = c0 THEN 1 ELSE 0)]
      BY <2>2 DEF told, c0
    <3>3. \A c \in S \cup {c0} : (IF c \in S THEN heard[l][c] ELSE 0) + (IF c = c0 THEN 1 ELSE 0) = 1
      BY <2>2, <3>1
    <3> HIDE DEF told, c0
    <3> QED BY <3>2, <3>3
  <2>4. S \cup {c0} \in SUBSET Nat
    BY <1>5
  <2> QED BY <2>2, <2>3, <2>4 DEF ToldOnce
<1> HIDE DEF c0, rest, now, told
<1>8. now \in PulseState
  <2>1. rest \in SUBSET Listeners
    BY <1>5 DEF rest
  <2> QED BY <1>5, <1>6, <2>1 DEF PulseState, TellingState
<1>9. ClockTypes'
  <2>1. pulse' \in [Pulses -> PulseState]
    BY <1>2, <1>8, <1>t
  <2>2. heard' \in [Listeners -> ToldOnce]
    BY <1>3, <1>7, <1>t
  <2>3. up
    BY <1>1, <1>t DEF IsTelling, NoPulse
  <2> QED BY <1>1, <2>1, <2>2, <2>3 DEF ClockInv, ClockTypes
<1>10. DueInTime'
  BY <1>1, DueStill DEF ClockInv
<1>11. LinesClaimed'
  <2>1. \A v \in Pulses : v # p => pulse'[v] = pulse[v] /\ (IsTelling(v)' <=> IsTelling(v))
    BY <1>2, <1>t DEF IsTelling
  <2>2. pulse'[p] = now
    BY <1>2, <1>t
  <2>3. IsTelling(p)' => pulse'[p].line = c0 /\ pulse'[p].left = rest
    BY <1>6, <2>2 DEF IsTelling, NoPulse
  <2>4. \A k \in Listeners : DOMAIN heard'[k] = IF k = l THEN DOMAIN heard[l] \cup {c0} ELSE DOMAIN heard[k]
    BY <1>3, <1>7, <1>t
  <2>5. PhaseCount(base) < c0 /\ c0 <= lastPhase
    BY <1>1 DEF c0, ClockInv, LinesClaimed
  <2>6. ASSUME NEW k \in Listeners, NEW c \in DOMAIN heard'[k]
        PROVE  PhaseCount(base) < c /\ c <= lastPhase
    <3>1. CASE k = l /\ c = c0
      BY <2>5, <3>1
    <3>2. CASE ~(k = l /\ c = c0)
      <4>1. c \in DOMAIN heard[k]
        BY <2>4, <2>6, <3>2
      <4> QED BY <2>6, <4>1 DEF ClockInv, LinesClaimed
    <3> QED BY <3>1, <3>2
  <2>7. ASSUME NEW v \in Pulses, IsTelling(v)'
        PROVE  /\ IsTelling(v) /\ pulse'[v].line = pulse[v].line
               /\ pulse'[v].left \subseteq pulse[v].left /\ (v = p => l \notin pulse'[v].left)
    <3>1. CASE v = p
      BY <1>1, <2>3, <2>7, <3>1 DEF c0, rest
    <3>2. CASE v # p
      BY <2>1, <2>7, <3>2
    <3> QED BY <3>1, <3>2
  <2>8. ASSUME NEW v \in Pulses, IsTelling(v)', NEW k \in pulse'[v].left
        PROVE  pulse'[v].line \notin DOMAIN heard'[k]
    <3>1. IsTelling(v) /\ pulse'[v].line = pulse[v].line /\ k \in pulse[v].left /\ (v = p => k # l)
      BY <2>7, <2>8
    <3>2. pulse[v].line \notin DOMAIN heard[k]
      BY <3>1 DEF ClockInv, LinesClaimed
    <3>3. k \in Listeners
      <4>1. pulse[v] \in TellingState
        BY <1>t, <3>1 DEF IsTelling, PulseState, NoPulse, Buckets
      <4> QED BY <3>1, <4>1 DEF TellingState
    <3>4. k = l => pulse[v].line # c0
      BY <1>1, <3>1 DEF c0, ClockInv, LinesClaimed
    <3> QED BY <2>4, <3>1, <3>2, <3>3, <3>4
  <2>9. ASSUME NEW v \in Pulses, IsTelling(v)', NEW w \in Pulses, IsTelling(w)', v # w
        PROVE  pulse'[v].line # pulse'[w].line
    <3>1. IsTelling(v) /\ IsTelling(w) /\ pulse'[v].line = pulse[v].line /\ pulse'[w].line = pulse[w].line
      BY <2>7, <2>9
    <3> QED BY <2>9, <3>1 DEF ClockInv, LinesClaimed
  <2>10. ASSUME NEW v \in Pulses, IsTelling(v)'
         PROVE  PhaseCount(base) < pulse'[v].line /\ pulse'[v].line <= lastPhase
    BY <2>7, <2>10 DEF ClockInv, LinesClaimed
  <2>11. /\ PhaseCount(Ticks)' = PhaseCount(Ticks) /\ PhaseCount(base)' = PhaseCount(base)
         /\ lastPhase' = lastPhase
         /\ PhaseCount(base) <= lastPhase /\ lastPhase <= PhaseCount(Ticks)
    BY <1>1, PhaseStill DEF ClockInv, LinesClaimed
  <2> QED BY <2>6, <2>8, <2>9, <2>10, <2>11 DEF LinesClaimed
<1> QED BY <1>9, <1>10, <1>11 DEF ClockInv

\* The clock is read for the save, and what was read is saved.
LEMMA TicksAreCounted == ClockTypes => Ticks \in Nat
<1> SUFFICES ASSUME ClockTypes PROVE Ticks \in Nat
  OBVIOUS
<1> DEFINE m == moment - start
<1>1. m \in Nat /\ Beat \in Nat \ {0} /\ base \in Nat
  BY ClockNumbers DEF ClockTypes
<1> HIDE DEF m
<1>2. m \div Beat \in Nat
  BY <1>1, Division
<1> QED BY <1>1, <1>2 DEF Ticks, m

LEMMA ClockSaves ==
    ASSUME ClockInv, NEW p \in Pulses, ReadTicks(p) \/ SetTicks(p)
    PROVE  ClockInv'
<1>t. /\ pulse \in [Pulses -> PulseState] /\ saved \in Nat
      /\ up \in BOOLEAN /\ (~up => \A v \in Pulses : pulse[v] = NoPulse)
  BY DEF ClockInv, ClockTypes
<1>1. PICK now \in {NoPulse, [does |-> "set", ticks |-> Ticks]} : pulse' = [pulse EXCEPT ![p] = now]
  BY DEF ReadTicks, SetTicks, Becomes
<1>2. now \in PulseState /\ now.does # "broadcast"
  BY TicksAreCounted DEF ClockInv, PulseState, NoPulse
<1>3. saved' \in Nat
  <2>1. CASE ReadTicks(p)
    BY <1>t, <2>1 DEF ReadTicks
  <2>2. CASE SetTicks(p)
    <3>1. pulse[p] \in [does : {"set"}, ticks : Nat]
      BY <1>t, <2>2 DEF SetTicks, PulseState, TellingState, NoPulse, Buckets
    <3> QED BY <2>2, <3>1 DEF SetTicks
  <2> QED BY <2>1, <2>2
<1>4. /\ UNCHANGED <<moment, up, start, base, ticked, next, lastPhase, heard, late>>
      /\ pulse[p].does \in {"save", "set"}
  BY DEF ReadTicks, SetTicks
<1>5. pulse' \in [Pulses -> PulseState]
  BY <1>1, <1>2, <1>t
<1>6. ClockTypes'
  <2>1. up
    BY <1>4, <1>t DEF NoPulse
  <2> QED BY <1>3, <1>4, <1>5, <2>1 DEF ClockInv, ClockTypes
<1>7. DueInTime'
  BY <1>4, DueStill DEF ClockInv
<1>8. LinesClaimed'
  <2>1. ASSUME NEW v \in Pulses, IsTelling(v)' PROVE IsTelling(v) /\ pulse'[v] = pulse[v]
    <3>1. v # p
      BY <1>1, <1>2, <1>t, <2>1 DEF IsTelling
    <3>2. pulse'[v] = pulse[v]
      BY <1>1, <1>t, <3>1
    <3> QED BY <2>1, <3>2 DEF IsTelling
  <2> QED BY <1>4, <2>1, LinesStill DEF ClockInv
<1> QED BY <1>6, <1>7, <1>8 DEF ClockInv

\* The process ends.
LEMMA ClockEnds == ClockInv /\ ClockCrash => ClockInv'
<1> SUFFICES ASSUME ClockInv, ClockCrash PROVE ClockInv'
  OBVIOUS
<1>1. /\ up' = FALSE /\ ticked' = FALSE /\ pulse' = [v \in Pulses |-> NoPulse]
      /\ UNCHANGED <<moment, start, base, next, lastPhase, saved, heard, late>>
  BY DEF ClockCrash
<1>2. NoPulse \in PulseState /\ NoPulse.does = "idle"
  BY DEF NoPulse, PulseState
<1>3. ClockTypes'
  <2>1. pulse' \in [Pulses -> PulseState] /\ \A v \in Pulses : pulse'[v] = NoPulse
    BY <1>1, <1>2
  <2>2. up' \in BOOLEAN /\ ticked' \in BOOLEAN
    BY <1>1
  <2> QED BY <1>1, <2>1, <2>2 DEF ClockInv, ClockTypes
<1>4. DueInTime'
  BY <1>1 DEF DueInTime
<1>5. LinesClaimed'
  <2>1. \A v \in Pulses : ~IsTelling(v)'
    BY <1>1, <1>2 DEF IsTelling
  <2> QED BY <1>1, <2>1, LinesStill DEF ClockInv
<1> QED BY <1>3, <1>4, <1>5 DEF ClockInv

\* The next process goes on from what was saved, and has told nobody of anything.
LEMMA ClockBoots == ClockInv /\ ClockBoot => ClockInv'
<1> SUFFICES ASSUME ClockInv, ClockBoot PROVE ClockInv'
  OBVIOUS
<1>q. /\ Beat \in Nat \ {0} /\ Quarter \in Nat \ {0}
      /\ \A b \in Buckets : Every(b) \in Nat \ {0}
  BY ClockNumbers
<1>t. moment \in Nat /\ saved \in Nat /\ pulse \in [Pulses -> PulseState] /\ late' = FALSE
  BY DEF ClockBoot, ClockInv, ClockTypes
<1>1. /\ up' = TRUE /\ start' = moment /\ base' = saved /\ ticked' = FALSE /\ lastPhase' = PhaseCount(saved)
      /\ next' = [b \in Buckets |-> moment + Every(b)]
      /\ heard' = [k \in Listeners |-> [c \in {} |-> 0]]
      /\ moment' = moment /\ pulse' = pulse /\ saved' = saved
  BY DEF ClockBoot, Started
<1>2. \A v \in Pulses : pulse[v] = NoPulse
  BY DEF ClockBoot, ClockInv, ClockTypes
<1>3. (moment' - start') % Beat = 0 /\ (moment' - start') \div Beat = 0
  <2>1. 0 = 0 * Beat + 0 /\ 0 \in 0..(Beat - 1)
    BY <1>q
  <2>2. 0 % Beat = 0 /\ 0 \div Beat = 0
    BY <1>q, <2>1, QuotientIs
  <2>3. moment' - start' = 0
    BY <1>1, <1>t
  <2> QED BY <2>2, <2>3
<1>4. PhaseCount(saved) \in Nat
  BY <1>q, <1>t, Division DEF PhaseCount
<1>5. Ticks' = saved /\ PhaseCount(Ticks)' = PhaseCount(saved) /\ PhaseCount(base)' = PhaseCount(saved)
  <2>1. Ticks' = saved
    BY <1>1, <1>3, <1>t DEF Ticks
  <2> QED BY <1>1, <2>1 DEF PhaseCount
<1>6. \A k \in Listeners : heard'[k] \in ToldOnce /\ DOMAIN heard'[k] = {}
  <2>1. [c \in {} |-> 0] \in [{} -> {1}] /\ {} \in SUBSET Nat
    OBVIOUS
  <2>2. [c \in {} |-> 0] \in ToldOnce
    BY <2>1 DEF ToldOnce
  <2> QED BY <1>1, <2>2
<1>7. ClockTypes'
  <2>1. heard' \in [Listeners -> ToldOnce]
    BY <1>1, <1>6
  <2>2. next' \in [Buckets -> Nat]
    BY <1>1, <1>q, <1>t
  <2>3. start' <= moment' /\ lastPhase' \in Nat
    BY <1>1, <1>4, <1>t
  <2> QED BY <1>1, <1>2, <1>t, <2>1, <2>2, <2>3 DEF ClockTypes
<1>8. DueInTime'
  <2>1. LastBeat' = moment
    BY <1>1, <1>3, <1>t DEF LastBeat
  <2>2. \A b \in Buckets : next'[b] = moment + Every(b)
    BY <1>1
  <2> QED BY <1>1, <1>q, <1>t, <2>1, <2>2 DEF DueInTime
<1>9. LinesClaimed'
  <2>1. \A v \in Pulses : ~IsTelling(v)'
    BY <1>1, <1>2 DEF IsTelling, NoPulse
  <2>2. PhaseCount(saved) <= PhaseCount(saved)
    BY <1>4
  <2> QED BY <1>1, <1>5, <1>6, <2>1, <2>2 DEF LinesClaimed
<1> QED BY <1>7, <1>8, <1>9 DEF ClockInv

\* However pulses overlap and the process is restarted, each crossing of the day
\* is told once to who is there, after it has come (phase_ambient.go); while no
\* beat is lost no pulse comes two beats late or more (tick/scheduler.go); and
\* light, hour and phase tell one time of day at every tick (dayclock.go).
THEOREM TimeAlwaysKept == ClockSpec => []TimeIsKept
<1>1. ClockInv /\ [ClockNext]_clockVars => ClockInv'
  <2> SUFFICES ASSUME ClockInv, [ClockNext]_clockVars PROVE ClockInv'
    OBVIOUS
  <2>1. CASE Elapse
    BY <2>1, ClockElapse
  <2>2. CASE Tick
    BY <2>2, ClockTick
  <2>3. CASE ClockCrash
    BY <2>3, ClockEnds
  <2>4. CASE ClockBoot
    BY <2>4, ClockBoots
  <2>5. ASSUME NEW p \in Pulses, Claim(p) PROVE ClockInv'
    BY <2>5, ClockClaim
  <2>6. ASSUME NEW p \in Pulses, ReadTicks(p) \/ SetTicks(p) PROVE ClockInv'
    BY <2>6, ClockSaves
  <2>7. ASSUME NEW p \in Pulses, NEW l \in Listeners, Broadcast(p, l) PROVE ClockInv'
    BY <2>7, ClockBroadcast
  <2>8. CASE UNCHANGED clockVars
    <3>1. /\ UNCHANGED <<moment, up, start, base, ticked, next, lastPhase, saved, late>>
          /\ pulse' = pulse /\ heard' = heard
      BY <2>8 DEF clockVars
    <3>2. DueInTime'
      BY <3>1, DueStill DEF ClockInv
    <3>3. LinesClaimed'
      BY <3>1, LinesStill DEF ClockInv, IsTelling
    <3>4. ClockTypes'
      BY <3>1 DEF ClockInv, ClockTypes
    <3> QED BY <3>2, <3>3, <3>4 DEF ClockInv
  <2> QED BY <2>1, <2>2, <2>3, <2>4, <2>5, <2>6, <2>7, <2>8 DEF ClockNext
<1>2. ClockInv => TimeIsKept
  <2> SUFFICES ASSUME ClockInv PROVE TimeIsKept
    OBVIOUS
  <2>q. Beat \in Nat \ {0} /\ Quarter \in Nat \ {0}
    BY ClockNumbers
  <2>1. Ticks \in Nat
    BY TicksAreCounted DEF ClockInv
  <2>2. TimesAgree
    BY <2>1, TimesAgreeAt
  <2>3. OneLinePerCrossing
    <3> SUFFICES ASSUME NEW l \in Listeners, NEW c \in DOMAIN heard[l]
                 PROVE  heard[l][c] = 1 /\ PhaseCount(base) < c /\ c <= PhaseCount(Ticks)
      BY DEF OneLinePerCrossing
    <3>1. heard[l][c] = 1 /\ c \in Nat
      BY OnceEach DEF ClockInv, ClockTypes
    <3>2. PhaseCount(base) < c /\ c <= lastPhase /\ lastPhase <= PhaseCount(Ticks) /\ lastPhase \in Nat
      BY DEF ClockInv, ClockTypes, LinesClaimed
    <3>3. PhaseCount(Ticks) \in Nat
      BY <2>1, <2>q, Division DEF PhaseCount
    <3> QED BY <3>1, <3>2, <3>3
  <2>4. PulseInTime
    <3> SUFFICES ASSUME up, ~late, NEW b \in Buckets PROVE moment < next[b] + 2 * Beat
      BY DEF PulseInTime
    <3>t. moment \in Nat /\ start \in Nat /\ start <= moment /\ next[b] \in Nat
      BY DEF ClockInv, ClockTypes
    <3> DEFINE m == moment - start
    <3>1. m \in Nat
      BY <3>t
    <3> HIDE DEF m
    <3>2. m % Beat \in 0..(Beat - 1)
      BY <2>q, <3>1, Division
    <3>3. LastBeat = moment - (m % Beat)
      BY DEF LastBeat, m
    <3>4. LastBeat < next[b] + (IF ticked THEN Beat ELSE 0)
      BY DEF ClockInv, DueInTime
    <3>5. (IF ticked THEN Beat ELSE 0) \in {0, Beat}
      OBVIOUS
    <3> DEFINE slack == IF ticked THEN Beat ELSE 0
               r == m % Beat
    <3>6. slack \in {0, Beat} /\ r \in 0..(Beat - 1) /\ moment - r < next[b] + slack
      BY <3>2, <3>3, <3>4, <3>5
    <3> HIDE DEF slack, r
    <3> QED BY <2>q, <3>t, <3>6
  <2> QED BY <2>2, <2>3, <2>4 DEF TimeIsKept
<1> QED BY <1>1, <1>2, ClockStart, PTL DEF ClockSpec

-----------------------------------------------------------------------------
(* The row on the screen (Terminal).  A line is laid out in cells, one or  *)
(* two for a glyph; a row that shows it is Showing(a, b), the glyphs before *)
(* the cursor and those after it, then blanks.  What the terminal makes of *)
(* the bytes an edit echoes is followed glyph by glyph: printing over what *)
(* is there, backing over it, blanking it.                                 *)

\* What may be printed, and what a cell of the row may hold.
Glyph == Narrow \cup Wide \cup Prompts \cup {Space, "*"}
Cell == Glyph \cup {Half}

\* A set of numbers that has 0 and the successor of each of its members has
\* every number.
LEMMA NumbersAll ==
    ASSUME NEW S, 0 \in S, \A n \in Nat : n \in S => n + 1 \in S
    PROVE  Nat \subseteq S
<1> DEFINE T == {n \in Nat : n \notin S}
<1> SUFFICES ASSUME T # {} PROVE FALSE
  OBVIOUS
<1>1. T \in SUBSET Nat /\ T # {}
  OBVIOUS
<1> HIDE DEF T
<1>2. PICK t \in T : \A u \in T : ~(<<u, t>> \in OpToRel(<, Nat))
  BY <1>1, NatLessThanWellFounded, WFMin
<1> USE DEF T
<1>3. t \in Nat /\ t \notin S /\ t # 0
  OBVIOUS
<1>4. t - 1 \in Nat /\ t - 1 < t
  BY <1>3
<1>5. t - 1 \in S
  <2>1. ASSUME t - 1 \notin S PROVE FALSE
    <3>1. t - 1 \in T
      BY <1>4, <2>1
    <3>2. <<t - 1, t>> \in OpToRel(<, Nat)
      BY <1>3, <1>4 DEF OpToRel
    <3> QED BY <1>2, <3>1, <3>2
  <2> QED BY <2>1
<1>6. (t - 1) + 1 \in S
  BY <1>4, <1>5
<1> QED BY <1>3, <1>6

\* What holds of the empty sequence, and is kept when an element is appended,
\* holds of every sequence.
LEMMA SequencesAll ==
    ASSUME NEW S, NEW P, << >> \in P, \A s \in Seq(S), e \in S : s \in P => Append(s, e) \in P
    PROVE  Seq(S) \subseteq P
<1> DEFINE N == {n \in Nat : \A s \in Seq(S) : Len(s) = n => s \in P}
<1>1. 0 \in N
  <2>1. ASSUME NEW s \in Seq(S), Len(s) = 0 PROVE s = << >>
    BY <2>1
  <2> QED BY <2>1
<1>2. ASSUME NEW n \in Nat, n \in N PROVE n + 1 \in N
  <2>1. ASSUME NEW s \in Seq(S), Len(s) = n + 1 PROVE s \in P
    <3>1. s # << >>
      BY <2>1, EmptySeq
    <3>2. PICK t \in Seq(S), e \in S : s = Append(t, e)
      BY <3>1, SequenceEmptyOrAppend
    <3>3. Len(t) = n
      BY <2>1, <3>2, AppendProperties, LenProperties
    <3> QED BY <1>2, <3>2, <3>3
  <2> QED BY <2>1
<1>3. Nat \subseteq N
  <2> HIDE DEF N
  <2> QED BY <1>1, <1>2, NumbersAll
<1> QED BY <1>3, LenProperties

-----------------------------------------------------------------------------
\* A run of the terminal over what is written, glyph by glyph.
IsFed(r, out, fed) ==
    fed = [i \in 0 .. Len(out) |->
             IF i = 0 THEN r ELSE IF out[i] = BS THEN ToLeft(fed[i - 1]) ELSE Put(fed[i - 1], out[i])]

\* What one more glyph does.
Then(r, e) == IF e = BS THEN ToLeft(r) ELSE Put(r, e)

LEMMA FedStep ==
    ASSUME NEW S, NEW out \in Seq(S), NEW r, NEW fed
    PROVE  IsFed(r, out, fed) <=>
             /\ fed = [i \in 0 .. Len(out) |-> fed[i]]
             /\ fed[0] = r /\ \A i \in 1 .. Len(out) : fed[i] = Then(fed[i - 1], out[i])
<1> DEFINE F == [i \in 0 .. Len(out) |-> IF i = 0 THEN r ELSE Then(fed[i - 1], out[i])]
<1>1. IsFed(r, out, fed) <=> fed = F
  BY DEF IsFed, Then
<1>2. Len(out) \in Nat
  BY LenProperties
<1>3. ASSUME fed = F
      PROVE  /\ fed = [i \in 0 .. Len(out) |-> fed[i]]
             /\ fed[0] = r /\ \A i \in 1 .. Len(out) : fed[i] = Then(fed[i - 1], out[i])
  <2>1. DOMAIN fed = 0 .. Len(out)
    BY <1>3
  <2>2. \A i \in 0 .. Len(out) : fed[i] = IF i = 0 THEN r ELSE Then(fed[i - 1], out[i])
    BY <1>3
  <2>3. fed = [i \in 0 .. Len(out) |-> fed[i]]
    BY <1>3
  <2> QED BY <1>2, <2>2, <2>3
<1>4. ASSUME fed = [i \in 0 .. Len(out) |-> fed[i]],
             fed[0] = r, \A i \in 1 .. Len(out) : fed[i] = Then(fed[i - 1], out[i])
      PROVE  fed = F
  <2>1. \A i \in 0 .. Len(out) : fed[i] = IF i = 0 THEN r ELSE Then(fed[i - 1], out[i])
    BY <1>2, <1>4
  <2> QED BY <1>4, <2>1
<1> QED BY <1>1, <1>3, <1>4

LEMMA FedAt ==
    ASSUME NEW S, NEW out \in Seq(S), NEW r, NEW fed, IsFed(r, out, fed)
    PROVE  fed[0] = r /\ \A i \in 1 .. Len(out) : fed[i] = Then(fed[i - 1], out[i])
BY FedStep

LEMMA FedStart ==
    ASSUME NEW r
    PROVE  IsFed(r, << >>, [i \in 0 .. 0 |-> r]) /\ \A f : IsFed(r, << >>, f) => f[0] = r
BY DEF IsFed

\* There is one such run, and a longer text only adds to it.
LEMMA FedOnce ==
    ASSUME NEW S, NEW out \in Seq(S), NEW e \in S, NEW r, NEW f, NEW h,
           IsFed(r, out, f), IsFed(r, Append(out, e), h)
    PROVE  \A i \in 0 .. Len(out) : f[i] = h[i]
<1> DEFINE N == {n \in Nat : n <= Len(out) => f[n] = h[n]}
<1>1. /\ Len(out) \in Nat /\ Append(out, e) \in Seq(S) /\ Len(Append(out, e)) = Len(out) + 1
      /\ \A i \in 1 .. Len(out) : Append(out, e)[i] = out[i]
  BY LenProperties, AppendProperties
<1>2. f[0] = r /\ \A i \in 1 .. Len(out) : f[i] = Then(f[i - 1], out[i])
  BY FedStep
<1>3. h[0] = r /\ \A i \in 1 .. Len(out) + 1 : h[i] = Then(h[i - 1], Append(out, e)[i])
  <2>1. PICK o : o = Append(out, e)
    OBVIOUS
  <2>2. o \in Seq(S) /\ Len(out) + 1 = Len(o) /\ IsFed(r, o, h)
    BY <1>1, <2>1
  <2>3. h[0] = r /\ \A i \in 1 .. Len(o) : h[i] = Then(h[i - 1], o[i])
    BY <2>2, FedAt
  <2> QED BY <2>1, <2>2, <2>3
<1>4. 0 \in N
  BY <1>2, <1>3
<1>5. ASSUME NEW n \in Nat, n \in N PROVE n + 1 \in N
  <2>1. ASSUME n + 1 <= Len(out) PROVE f[n + 1] = h[n + 1]
    <3>1. n + 1 \in 1 .. Len(out) /\ n + 1 \in 1 .. Len(out) + 1 /\ (n + 1) - 1 = n
      BY <1>1, <2>1
    <3>2. f[n] = h[n]
      BY <1>1, <1>5, <2>1
    <3>3. f[n + 1] = Then(f[n], out[n + 1]) /\ h[n + 1] = Then(h[n], Append(out, e)[n + 1])
      BY <1>2, <1>3, <3>1
    <3> QED BY <1>1, <3>1, <3>2, <3>3
  <2> QED BY <2>1
<1>6. Nat \subseteq N
  <2> HIDE DEF N
  <2> QED BY <1>4, <1>5, NumbersAll
<1> QED BY <1>1, <1>6

LEMMA FedMore ==
    ASSUME NEW S, NEW out \in Seq(S), NEW e \in S, NEW r, NEW f, IsFed(r, out, f)
    PROVE  IsFed(r, Append(out, e),
                 [i \in 0 .. Len(out) + 1 |-> IF i <= Len(out) THEN f[i] ELSE Then(f[Len(out)], e)])
<1> DEFINE h == [i \in 0 .. Len(out) + 1 |-> IF i <= Len(out) THEN f[i] ELSE Then(f[Len(out)], e)]
<1>1. /\ Len(out) \in Nat /\ Append(out, e) \in Seq(S) /\ Len(Append(out, e)) = Len(out) + 1
      /\ \A i \in 1 .. Len(out) : Append(out, e)[i] = out[i]
      /\ Append(out, e)[Len(out) + 1] = e
  BY LenProperties, AppendProperties
<1>2. f[0] = r /\ \A i \in 1 .. Len(out) : f[i] = Then(f[i - 1], out[i])
  BY FedStep
<1>3. h[0] = r
  BY <1>1, <1>2
<1>4. ASSUME NEW i \in 1 .. Len(out) + 1 PROVE h[i] = Then(h[i - 1], Append(out, e)[i])
  <2>1. h[i - 1] = f[i - 1]
    BY <1>1
  <2>2. CASE i <= Len(out)
    <3>1. i \in 1 .. Len(out) /\ h[i] = f[i]
      BY <1>1, <2>2
    <3> QED BY <1>1, <1>2, <2>1, <3>1
  <2>3. CASE i = Len(out) + 1
    <3>1. h[i] = Then(f[Len(out)], e) /\ i - 1 = Len(out)
      BY <1>1, <2>3
    <3> QED BY <1>1, <2>1, <2>3, <3>1
  <2> QED BY <1>1, <2>2, <2>3
<1>5. h = [i \in 0 .. Len(Append(out, e)) |-> h[i]]
  BY <1>1
<1> HIDE DEF h
<1>6. IsFed(r, Append(out, e), h)
  BY <1>1, <1>3, <1>4, <1>5, FedStep
<1> QED BY <1>6 DEF h

LEMMA FedExists ==
    ASSUME NEW S, NEW out \in Seq(S), NEW r
    PROVE  \E f : IsFed(r, out, f)
<1> DEFINE P == {s \in Seq(S) : \E f : IsFed(r, s, f)}
<1>1. << >> \in P
  BY FedStart, EmptySeq
<1>2. ASSUME NEW s \in Seq(S), NEW e \in S, s \in P PROVE Append(s, e) \in P
  BY <1>2, FedMore, AppendProperties
<1>3. Seq(S) \subseteq P
  <2> HIDE DEF P
  <2> QED BY <1>1, <1>2, SequencesAll
<1> QED BY <1>3

LEMMA FeedIs ==
    ASSUME NEW S, NEW out \in Seq(S), NEW r
    PROVE  \E f : IsFed(r, out, f) /\ Feed(r, out) = f[Len(out)]
<1>1. Feed(r, out) = (CHOOSE f : IsFed(r, out, f))[Len(out)]
  BY Zenon DEF Feed, IsFed
<1>2. IsFed(r, out, CHOOSE f : IsFed(r, out, f))
  BY FedExists
<1> QED BY <1>1, <1>2

\* What is written is a fold over its glyphs.
LEMMA FeedNothing ==
    ASSUME NEW r
    PROVE  Feed(r, << >>) = r
<1>1. << >> \in Seq({}) /\ Len(<< >>) = 0
  BY EmptySeq
<1>2. PICK f : IsFed(r, << >>, f) /\ Feed(r, << >>) = f[0]
  BY <1>1, FeedIs
<1> QED BY <1>1, <1>2, FedStart

LEMMA FeedOne ==
    ASSUME NEW S, NEW out \in Seq(S), NEW e \in S, NEW r
    PROVE  Feed(r, Append(out, e)) = Then(Feed(r, out), e)
<1>1. /\ Len(out) \in Nat /\ Append(out, e) \in Seq(S) /\ Len(Append(out, e)) = Len(out) + 1
      /\ Append(out, e)[Len(out) + 1] = e
  BY LenProperties, AppendProperties
<1>2. PICK f : IsFed(r, out, f) /\ Feed(r, out) = f[Len(out)]
  BY FeedIs
<1>3. PICK h : IsFed(r, Append(out, e), h) /\ Feed(r, Append(out, e)) = h[Len(out) + 1]
  BY <1>1, FeedIs
<1>4. h[Len(out)] = f[Len(out)]
  BY <1>1, <1>2, <1>3, FedOnce
<1>5. \A i \in 1 .. Len(out) + 1 : h[i] = Then(h[i - 1], Append(out, e)[i])
  <2>1. PICK o : o = Append(out, e)
    OBVIOUS
  <2>2. o \in Seq(S) /\ Len(out) + 1 = Len(o) /\ IsFed(r, o, h)
    BY <1>1, <1>3, <2>1
  <2>3. \A i \in 1 .. Len(o) : h[i] = Then(h[i - 1], o[i])
    BY <2>2, FedAt
  <2> QED BY <2>1, <2>2, <2>3
<1>6. h[Len(out) + 1] = Then(h[Len(out)], e)
  <2>1. Len(out) + 1 \in 1 .. Len(out) + 1 /\ (Len(out) + 1) - 1 = Len(out)
    BY <1>1
  <2> QED BY <1>1, <1>5, <2>1
<1> QED BY <1>2, <1>3, <1>4, <1>6

LEMMA FeedTwo ==
    ASSUME NEW S, NEW a \in Seq(S), NEW b \in Seq(S), NEW r
    PROVE  Feed(r, a \o b) = Feed(Feed(r, a), b)
<1> DEFINE P == {s \in Seq(S) : Feed(r, a \o s) = Feed(Feed(r, a), s)}
<1>1. << >> \in P
  BY EmptySeq, ConcatEmptySeq, FeedNothing
<1>2. ASSUME NEW s \in Seq(S), NEW e \in S, s \in P PROVE Append(s, e) \in P
  <2>1. a \o s \in Seq(S) /\ Append(s, e) \in Seq(S) /\ <<e>> \in Seq(S)
    BY ConcatProperties, AppendProperties
  <2>2. a \o Append(s, e) = Append(a \o s, e)
    BY <2>1, AppendIsConcat, ConcatAssociative
  <2> QED BY <1>2, <2>1, <2>2, FeedOne
<1>3. Seq(S) \subseteq P
  <2> HIDE DEF P
  <2> QED BY <1>1, <1>2, SequencesAll
<1> QED BY <1>3

-----------------------------------------------------------------------------
\* The same for the cells of a line.
IsLaid(glyphs, laid) ==
    laid = [i \in 0 .. Len(glyphs) |-> IF i = 0 THEN << >> ELSE laid[i - 1] \o Cells(glyphs[i])]

LEMMA LaidStep ==
    ASSUME NEW S, NEW glyphs \in Seq(S), NEW laid
    PROVE  IsLaid(glyphs, laid) <=>
             /\ laid = [i \in 0 .. Len(glyphs) |-> laid[i]]
             /\ laid[0] = << >> /\ \A i \in 1 .. Len(glyphs) : laid[i] = laid[i - 1] \o Cells(glyphs[i])
<1> DEFINE F == [i \in 0 .. Len(glyphs) |-> IF i = 0 THEN << >> ELSE laid[i - 1] \o Cells(glyphs[i])]
<1>1. IsLaid(glyphs, laid) <=> laid = F
  BY DEF IsLaid
<1>2. Len(glyphs) \in Nat
  BY LenProperties
<1>3. ASSUME laid = F
      PROVE  /\ laid = [i \in 0 .. Len(glyphs) |-> laid[i]]
             /\ laid[0] = << >> /\ \A i \in 1 .. Len(glyphs) : laid[i] = laid[i - 1] \o Cells(glyphs[i])
  <2>1. \A i \in 0 .. Len(glyphs) : laid[i] = IF i = 0 THEN << >> ELSE laid[i - 1] \o Cells(glyphs[i])
    BY <1>3
  <2>2. laid = [i \in 0 .. Len(glyphs) |-> laid[i]]
    BY <1>3
  <2> QED BY <1>2, <2>1, <2>2
<1>4. ASSUME laid = [i \in 0 .. Len(glyphs) |-> laid[i]],
             laid[0] = << >>, \A i \in 1 .. Len(glyphs) : laid[i] = laid[i - 1] \o Cells(glyphs[i])
      PROVE  laid = F
  <2>1. \A i \in 0 .. Len(glyphs) : laid[i] = IF i = 0 THEN << >> ELSE laid[i - 1] \o Cells(glyphs[i])
    BY <1>2, <1>4
  <2> QED BY <1>4, <2>1
<1> QED BY <1>1, <1>3, <1>4

LEMMA LaidAt ==
    ASSUME NEW S, NEW glyphs \in Seq(S), NEW laid, IsLaid(glyphs, laid)
    PROVE  laid[0] = << >> /\ \A i \in 1 .. Len(glyphs) : laid[i] = laid[i - 1] \o Cells(glyphs[i])
BY LaidStep

LEMMA LaidStart ==
    IsLaid(<< >>, [i \in 0 .. 0 |-> << >>]) /\ \A f : IsLaid(<< >>, f) => f[0] = << >>
BY DEF IsLaid

LEMMA LaidOnce ==
    ASSUME NEW S, NEW glyphs \in Seq(S), NEW e \in S, NEW f, NEW h,
           IsLaid(glyphs, f), IsLaid(Append(glyphs, e), h)
    PROVE  \A i \in 0 .. Len(glyphs) : f[i] = h[i]
<1> DEFINE N == {n \in Nat : n <= Len(glyphs) => f[n] = h[n]}
<1>1. /\ Len(glyphs) \in Nat /\ Append(glyphs, e) \in Seq(S) /\ Len(Append(glyphs, e)) = Len(glyphs) + 1
      /\ \A i \in 1 .. Len(glyphs) : Append(glyphs, e)[i] = glyphs[i]
  BY LenProperties, AppendProperties
<1>2. f[0] = << >> /\ \A i \in 1 .. Len(glyphs) : f[i] = f[i - 1] \o Cells(glyphs[i])
  BY LaidAt
<1>3. h[0] = << >> /\ \A i \in 1 .. Len(glyphs) + 1 : h[i] = h[i - 1] \o Cells(Append(glyphs, e)[i])
  <2>1. PICK o : o = Append(glyphs, e)
    OBVIOUS
  <2>2. o \in Seq(S) /\ Len(glyphs) + 1 = Len(o) /\ IsLaid(o, h)
    BY <1>1, <2>1
  <2>3. h[0] = << >> /\ \A i \in 1 .. Len(o) : h[i] = h[i - 1] \o Cells(o[i])
    BY <2>2, LaidAt
  <2> QED BY <2>1, <2>2, <2>3
<1>4. 0 \in N
  BY <1>2, <1>3
<1>5. ASSUME NEW n \in Nat, n \in N PROVE n + 1 \in N
  <2>1. ASSUME n + 1 <= Len(glyphs) PROVE f[n + 1] = h[n + 1]
    <3>1. n + 1 \in 1 .. Len(glyphs) /\ n + 1 \in 1 .. Len(glyphs) + 1 /\ (n + 1) - 1 = n
      BY <1>1, <2>1
    <3>2. f[n] = h[n]
      BY <1>1, <1>5, <2>1
    <3>3. /\ f[n + 1] = f[n] \o Cells(glyphs[n + 1])
          /\ h[n + 1] = h[n] \o Cells(Append(glyphs, e)[n + 1])
      BY <1>2, <1>3, <3>1
    <3> QED BY <1>1, <3>1, <3>2, <3>3
  <2> QED BY <2>1
<1>6. Nat \subseteq N
  <2> HIDE DEF N
  <2> QED BY <1>4, <1>5, NumbersAll
<1> QED BY <1>1, <1>6

LEMMA LaidMore ==
    ASSUME NEW S, NEW glyphs \in Seq(S), NEW e \in S, NEW f, IsLaid(glyphs, f)
    PROVE  IsLaid(Append(glyphs, e),
                  [i \in 0 .. Len(glyphs) + 1 |->
                     IF i <= Len(glyphs) THEN f[i] ELSE f[Len(glyphs)] \o Cells(e)])
<1> DEFINE h == [i \in 0 .. Len(glyphs) + 1 |->
                   IF i <= Len(glyphs) THEN f[i] ELSE f[Len(glyphs)] \o Cells(e)]
<1>1. /\ Len(glyphs) \in Nat /\ Append(glyphs, e) \in Seq(S) /\ Len(Append(glyphs, e)) = Len(glyphs) + 1
      /\ \A i \in 1 .. Len(glyphs) : Append(glyphs, e)[i] = glyphs[i]
      /\ Append(glyphs, e)[Len(glyphs) + 1] = e
  BY LenProperties, AppendProperties
<1>2. f[0] = << >> /\ \A i \in 1 .. Len(glyphs) : f[i] = f[i - 1] \o Cells(glyphs[i])
  BY LaidAt
<1>3. h[0] = << >>
  BY <1>1, <1>2
<1>4. ASSUME NEW i \in 1 .. Len(glyphs) + 1 PROVE h[i] = h[i - 1] \o Cells(Append(glyphs, e)[i])
  <2>1. h[i - 1] = f[i - 1]
    BY <1>1
  <2>2. CASE i <= Len(glyphs)
    <3>1. i \in 1 .. Len(glyphs) /\ h[i] = f[i]
      BY <1>1, <2>2
    <3> QED BY <1>1, <1>2, <2>1, <3>1
  <2>3. CASE i = Len(glyphs) + 1
    <3>1. h[i] = f[Len(glyphs)] \o Cells(e) /\ i - 1 = Len(glyphs)
      BY <1>1, <2>3
    <3> QED BY <1>1, <2>1, <2>3, <3>1
  <2>4. i <= Len(glyphs) \/ i = Len(glyphs) + 1
    BY <1>1
  <2> HIDE DEF h
  <2> QED BY <2>2, <2>3, <2>4
<1>5. h = [i \in 0 .. Len(Append(glyphs, e)) |-> h[i]]
  BY <1>1
<1> HIDE DEF h
<1>6. IsLaid(Append(glyphs, e), h)
  BY <1>1, <1>3, <1>4, <1>5, LaidStep
<1> QED BY <1>6 DEF h

LEMMA LaidIs ==
    ASSUME NEW S, NEW glyphs \in Seq(S)
    PROVE  \E f : IsLaid(glyphs, f) /\ Laid(glyphs) = f[Len(glyphs)]
<1> DEFINE P == {s \in Seq(S) : \E f : IsLaid(s, f)}
<1>1. << >> \in P
  BY LaidStart, EmptySeq
<1>2. ASSUME NEW s \in Seq(S), NEW e \in S, s \in P PROVE Append(s, e) \in P
  BY <1>2, LaidMore, AppendProperties
<1>3. Seq(S) \subseteq P
  <2> HIDE DEF P
  <2> QED BY <1>1, <1>2, SequencesAll
<1>4. Laid(glyphs) = (CHOOSE f : IsLaid(glyphs, f))[Len(glyphs)]
  BY Zenon DEF Laid, IsLaid
<1>5. IsLaid(glyphs, CHOOSE f : IsLaid(glyphs, f))
  BY <1>3
<1> QED BY <1>4, <1>5

LEMMA LaidNothing == Laid(<< >>) = << >>
<1>1. << >> \in Seq({}) /\ Len(<< >>) = 0
  BY EmptySeq
<1>2. PICK f : IsLaid(<< >>, f) /\ Laid(<< >>) = f[0]
  BY <1>1, LaidIs
<1> QED BY <1>1, <1>2, LaidStart

LEMMA LaidOne ==
    ASSUME NEW S, NEW glyphs \in Seq(S), NEW e \in S
    PROVE  Laid(Append(glyphs, e)) = Laid(glyphs) \o Cells(e)
<1>1. /\ Len(glyphs) \in Nat /\ Append(glyphs, e) \in Seq(S) /\ Len(Append(glyphs, e)) = Len(glyphs) + 1
      /\ Append(glyphs, e)[Len(glyphs) + 1] = e
  BY LenProperties, AppendProperties
<1>2. PICK f : IsLaid(glyphs, f) /\ Laid(glyphs) = f[Len(glyphs)]
  BY LaidIs
<1>3. PICK h : IsLaid(Append(glyphs, e), h) /\ Laid(Append(glyphs, e)) = h[Len(glyphs) + 1]
  BY <1>1, LaidIs
<1>4. h[Len(glyphs)] = f[Len(glyphs)]
  BY <1>1, <1>2, <1>3, LaidOnce
<1>5. \A i \in 1 .. Len(glyphs) + 1 : h[i] = h[i - 1] \o Cells(Append(glyphs, e)[i])
  <2>1. PICK o : o = Append(glyphs, e)
    OBVIOUS
  <2>2. o \in Seq(S) /\ Len(glyphs) + 1 = Len(o) /\ IsLaid(o, h)
    BY <1>1, <1>3, <2>1
  <2>3. h[0] = << >> /\ \A i \in 1 .. Len(o) : h[i] = h[i - 1] \o Cells(o[i])
    BY <2>2, LaidAt
  <2> QED BY <2>1, <2>2, <2>3
<1>6. h[Len(glyphs) + 1] = h[Len(glyphs)] \o Cells(e)
  <2>1. Len(glyphs) + 1 \in 1 .. Len(glyphs) + 1 /\ (Len(glyphs) + 1) - 1 = Len(glyphs)
    BY <1>1
  <2> QED BY <1>1, <1>5, <2>1
<1> QED BY <1>2, <1>3, <1>4, <1>6

-----------------------------------------------------------------------------
\* Glyphs, and the cells they take.
LEMMA Alphabet ==
    ASSUME NoAsterisk
    PROVE  /\ BS \notin Glyph /\ Half \notin Glyph /\ Half \notin Wide
           /\ Space \in Glyph \ Wide /\ "*" \in Glyph \ Wide /\ Prompts \subseteq Glyph \ Wide
           /\ Columns \in Nat /\ Columns = 2 * MaxLine + 1 /\ MaxLine \in Nat \ {0}
<1>1. BS \notin Glyph
  BY TerminalAssumption DEF NoAsterisk, Glyph, BS, Half, Space, Prompts
<1>2. Half \notin Glyph /\ Half \notin Wide
  BY TerminalAssumption DEF NoAsterisk, Glyph, BS, Half, Space, Prompts
<1>3. Space \in Glyph \ Wide
  BY TerminalAssumption DEF Glyph
<1>4. "*" \in Glyph \ Wide
  BY DEF Glyph, NoAsterisk
<1>5. Prompts \subseteq Glyph \ Wide
  BY TerminalAssumption DEF Glyph
<1>6. MaxLine \in Nat \ {0}
  BY TerminalAssumption
<1>7. Columns \in Nat /\ Columns = 2 * MaxLine + 1
  BY <1>6 DEF Columns
<1> QED BY <1>1, <1>2, <1>3, <1>4, <1>5, <1>6, <1>7

LEMMA CellsOf ==
    ASSUME NoAsterisk, NEW g \in Glyph
    PROVE  /\ Cells(g) \in Seq(Cell) /\ Cells(g)[1] = g
           /\ Len(Cells(g)) = IF g \in Wide THEN 2 ELSE 1
           /\ g \in Wide => Cells(g)[2] = Half
<1>1. g \in Cell /\ Half \in Cell
  BY DEF Cell
<1>2. CASE g \in Wide
  <2>1. Cells(g) = <<g, Half>>
    BY <1>2 DEF Cells
  <2> QED BY <1>1, <1>2, <2>1
<1>3. CASE g \notin Wide
  <2>1. Cells(g) = <<g>>
    BY <1>3 DEF Cells
  <2> QED BY <1>1, <1>3, <2>1
<1> QED BY <1>2, <1>3

\* A concatenation, with the lengths of its parts.
LEMMA ConcatAt ==
    ASSUME NEW S, NEW s \in Seq(S), NEW t \in Seq(S), NEW m, NEW n, m = Len(s), n = Len(t)
    PROVE  /\ s \o t \in Seq(S) /\ Len(s \o t) = m + n
           /\ \A i \in 1 .. m + n : (s \o t)[i] = IF i <= m THEN s[i] ELSE t[i - m]
BY ConcatProperties

\* What is left of a glyph of which one half is overwritten.
Cut(c) == IF c \in Wide THEN Space ELSE c
Mend(c) == IF c = Half THEN Space ELSE c

RowType == {r \in [at : 0 .. Columns, cells : Seq(Cell)] : Len(r.cells) = Columns}

LEMMA UptoCells ==
    ASSUME NoAsterisk, NEW cells \in Seq(Cell), NEW n \in 0 .. Len(cells)
    PROVE  /\ Upto(cells, n) \in Seq(Cell) /\ Len(Upto(cells, n)) = n
           /\ \A i \in 1 .. n : Upto(cells, n)[i] = IF i = n THEN Cut(cells[i]) ELSE cells[i]
<1>1. Len(cells) \in Nat /\ \A i \in 1 .. Len(cells) : cells[i] \in Cell
  BY LenProperties, ElementOfSeq
<1>2. CASE n > 0 /\ cells[n] \in Wide
  <2>1. /\ SubSeq(cells, 1, n - 1) \in Seq(Cell) /\ Len(SubSeq(cells, 1, n - 1)) = n - 1
        /\ \A i \in 1 .. n - 1 : SubSeq(cells, 1, n - 1)[i] = cells[i]
    <3>1. \A i \in 1 .. n - 1 : cells[i] \in Cell
      BY <1>1
    <3> QED BY <1>1, <1>2, <3>1, SubSeqProperties
  <2>2. <<Space>> \in Seq(Cell) /\ Len(<<Space>>) = 1 /\ <<Space>>[1] = Space
    BY DEF Cell, Glyph
  <2>3. Upto(cells, n) = SubSeq(cells, 1, n - 1) \o <<Space>>
    BY <1>2 DEF Upto
  <2>4. /\ Upto(cells, n) \in Seq(Cell) /\ Len(Upto(cells, n)) = n
        /\ \A i \in 1 .. n : Upto(cells, n)[i] = IF i <= n - 1 THEN SubSeq(cells, 1, n - 1)[i] ELSE <<Space>>[i - (n - 1)]
    BY <2>1, <2>2, <2>3, ConcatProperties
  <2>5. ASSUME NEW i \in 1 .. n PROVE Upto(cells, n)[i] = IF i = n THEN Cut(cells[i]) ELSE cells[i]
    <3>1. CASE i = n
      <4>1. ~(i <= n - 1) /\ i - (n - 1) = 1
        BY <1>1, <3>1
      <4>2. Upto(cells, n)[i] = <<Space>>[1]
        BY <2>4, <4>1
      <4> QED BY <1>2, <2>2, <3>1, <4>2 DEF Cut
    <3>2. CASE i # n
      <4>1. i <= n - 1 /\ i \in 1 .. n - 1
        BY <1>1, <3>2
      <4> QED BY <2>1, <2>4, <3>2, <4>1
    <3> QED BY <3>1, <3>2
  <2> QED BY <2>4, <2>5
<1>3. CASE ~(n > 0 /\ cells[n] \in Wide)
  <2>1. /\ SubSeq(cells, 1, n) \in Seq(Cell) /\ Len(SubSeq(cells, 1, n)) = n
        /\ \A i \in 1 .. n : SubSeq(cells, 1, n)[i] = cells[i]
    <3>1. \A i \in 1 .. n : cells[i] \in Cell
      BY <1>1
    <3> QED BY <1>1, <3>1, SubSeqProperties
  <2>2. Upto(cells, n) = SubSeq(cells, 1, n)
    BY <1>3 DEF Upto
  <2> QED BY <1>3, <2>1, <2>2 DEF Cut
<1> QED BY <1>2, <1>3

LEMMA FromCells ==
    ASSUME NoAsterisk, NEW cells \in Seq(Cell), Len(cells) = Columns, NEW n \in 1 .. Columns + 1
    PROVE  /\ FromCell(cells, n) \in Seq(Cell) /\ Len(FromCell(cells, n)) = Columns - n + 1
           /\ \A i \in 1 .. Columns - n + 1 :
                FromCell(cells, n)[i] = IF i = 1 THEN Mend(cells[n]) ELSE cells[n + i - 1]
<1>1. Columns \in Nat /\ \A i \in 1 .. Columns : cells[i] \in Cell
  BY Alphabet, ElementOfSeq
<1>2. CASE n <= Columns /\ cells[n] = Half
  <2>1. /\ SubSeq(cells, n + 1, Columns) \in Seq(Cell) /\ Len(SubSeq(cells, n + 1, Columns)) = Columns - n
        /\ \A i \in 1 .. Columns - n : SubSeq(cells, n + 1, Columns)[i] = cells[n + i]
    <3>1. \A i \in n + 1 .. Columns : cells[i] \in Cell
      BY <1>1
    <3>2. /\ SubSeq(cells, n + 1, Columns) \in Seq(Cell)
          /\ Len(SubSeq(cells, n + 1, Columns)) = IF n + 1 <= Columns THEN Columns - (n + 1) + 1 ELSE 0
          /\ \A i \in 1 .. Columns - (n + 1) + 1 : SubSeq(cells, n + 1, Columns)[i] = cells[(n + 1) + i - 1]
      BY <1>1, <3>1, SubSeqProperties
    <3> QED BY <1>1, <1>2, <3>2
  <2>2. <<Space>> \in Seq(Cell) /\ Len(<<Space>>) = 1 /\ <<Space>>[1] = Space
    BY DEF Cell, Glyph
  <2>3. FromCell(cells, n) = <<Space>> \o SubSeq(cells, n + 1, Columns)
    BY <1>2 DEF FromCell
  <2>4. /\ FromCell(cells, n) \in Seq(Cell) /\ Len(FromCell(cells, n)) = 1 + (Columns - n)
        /\ \A i \in 1 .. 1 + (Columns - n) :
             FromCell(cells, n)[i] = IF i <= 1 THEN <<Space>>[i] ELSE SubSeq(cells, n + 1, Columns)[i - 1]
    BY <2>1, <2>2, <2>3, ConcatProperties
  <2>5. ASSUME NEW i \in 1 .. Columns - n + 1
        PROVE  FromCell(cells, n)[i] = IF i = 1 THEN Mend(cells[n]) ELSE cells[n + i - 1]
    <3>1. i \in 1 .. 1 + (Columns - n)
      BY <1>1
    <3>2. CASE i = 1
      BY <1>2, <2>2, <2>4, <3>1, <3>2 DEF Mend
    <3>3. CASE i # 1
      <4>1. ~(i <= 1) /\ i - 1 \in 1 .. Columns - n /\ n + (i - 1) = n + i - 1
        BY <1>1, <3>3
      <4> QED BY <2>1, <2>4, <3>1, <3>3, <4>1
    <3> QED BY <3>2, <3>3
  <2>6. 1 + (Columns - n) = Columns - n + 1
    BY <1>1
  <2> QED BY <2>4, <2>5, <2>6
<1>3. CASE ~(n <= Columns /\ cells[n] = Half)
  <2>1. \A i \in n .. Columns : cells[i] \in Cell
    BY <1>1
  <2>2. /\ SubSeq(cells, n, Columns) \in Seq(Cell)
        /\ Len(SubSeq(cells, n, Columns)) = IF n <= Columns THEN Columns - n + 1 ELSE 0
        /\ \A i \in 1 .. Columns - n + 1 : SubSeq(cells, n, Columns)[i] = cells[n + i - 1]
    BY <1>1, <2>1, SubSeqProperties
  <2>3. FromCell(cells, n) = SubSeq(cells, n, Columns)
    BY <1>3 DEF FromCell
  <2> QED BY <1>1, <1>3, <2>2, <2>3 DEF Mend
<1> QED BY <1>2, <1>3

\* Printing one glyph, cell by cell.
LEMMA PutCells ==
    ASSUME NoAsterisk, NEW r \in RowType, NEW g \in Glyph, NEW w, w = Len(Cells(g)), r.at + w <= Columns
    PROVE  /\ Put(r, g) \in RowType /\ Put(r, g).at = r.at + w
           /\ \A i \in 1 .. Columns :
                Put(r, g).cells[i] =
                  IF i < r.at THEN r.cells[i]
                  ELSE IF i = r.at THEN Cut(r.cells[i])
                  ELSE IF i <= r.at + w THEN Cells(g)[i - r.at]
                  ELSE IF i = r.at + w + 1 THEN Mend(r.cells[i])
                  ELSE r.cells[i]
<1> DEFINE a == r.at
           u == Upto(r.cells, a)
           f == FromCell(r.cells, a + w + 1)
<1>1. a \in 0 .. Columns /\ r.cells \in Seq(Cell) /\ Len(r.cells) = Columns /\ Columns \in Nat /\ w \in 1 .. 2
  <2>1. Columns \in Nat /\ w \in 1 .. 2
    <3>1. Len(Cells(g)) = IF g \in Wide THEN 2 ELSE 1
      BY CellsOf
    <3>2. w \in 1 .. 2
      BY <3>1
    <3> QED BY <3>2, Alphabet
  <2> QED BY <2>1 DEF RowType
<1>2. /\ u \in Seq(Cell) /\ Len(u) = a
      /\ \A i \in 1 .. a : u[i] = IF i = a THEN Cut(r.cells[i]) ELSE r.cells[i]
  BY <1>1, UptoCells
<1>3. /\ f \in Seq(Cell) /\ Len(f) = Columns - (a + w + 1) + 1
      /\ \A i \in 1 .. Columns - (a + w + 1) + 1 : f[i] = IF i = 1 THEN Mend(r.cells[a + w + 1]) ELSE r.cells[(a + w + 1) + i - 1]
  <2>1. a + w + 1 \in 1 .. Columns + 1
    BY <1>1
  <2> QED BY <1>1, <2>1, FromCells
<1>4. Cells(g) \in Seq(Cell) /\ Len(Cells(g)) = w
  BY CellsOf
<1>5. Put(r, g).at = a + w /\ Put(r, g).cells = (u \o Cells(g)) \o f /\ Put(r, g) = [at |-> a + w, cells |-> Put(r, g).cells]
  BY DEF Put
<1> HIDE DEF u, f
<1>6. /\ u \o Cells(g) \in Seq(Cell) /\ Len(u \o Cells(g)) = a + w
      /\ \A i \in 1 .. a + w : (u \o Cells(g))[i] = IF i <= a THEN u[i] ELSE Cells(g)[i - a]
  BY <1>2, <1>4, ConcatAt
<1>7. /\ (u \o Cells(g)) \o f \in Seq(Cell) /\ Len((u \o Cells(g)) \o f) = (a + w) + (Columns - (a + w + 1) + 1)
      /\ \A i \in 1 .. (a + w) + (Columns - (a + w + 1) + 1) :
           ((u \o Cells(g)) \o f)[i] = IF i <= a + w THEN (u \o Cells(g))[i] ELSE f[i - (a + w)]
  <2>1. PICK h, m, n : h = u \o Cells(g) /\ m = a + w /\ n = Columns - (a + w + 1) + 1
    OBVIOUS
  <2>2. h \in Seq(Cell) /\ Len(h) = m /\ f \in Seq(Cell) /\ Len(f) = n
    BY <1>3, <1>6, <2>1
  <2>3. /\ h \o f \in Seq(Cell) /\ Len(h \o f) = m + n
        /\ \A i \in 1 .. m + n : (h \o f)[i] = IF i <= m THEN h[i] ELSE f[i - m]
    BY <2>2, ConcatAt
  <2> QED BY <2>1, <2>3
<1>8. (a + w) + (Columns - (a + w + 1) + 1) = Columns
  BY <1>1
<1>9. Put(r, g) \in RowType
  <2>1. Put(r, g).cells \in Seq(Cell) /\ Len(Put(r, g).cells) = Columns /\ a + w \in 0 .. Columns
    BY <1>1, <1>5, <1>7, <1>8
  <2>2. [at |-> a + w, cells |-> Put(r, g).cells] \in RowType
    BY <2>1 DEF RowType
  <2> QED BY <1>5, <2>2
<1>10. ASSUME NEW i \in 1 .. Columns
       PROVE  Put(r, g).cells[i] =
                  IF i < a THEN r.cells[i]
                  ELSE IF i = a THEN Cut(r.cells[i])
                  ELSE IF i <= a + w THEN Cells(g)[i - a]
                  ELSE IF i = a + w + 1 THEN Mend(r.cells[i])
                  ELSE r.cells[i]
  <2>1. Put(r, g).cells[i] = IF i <= a + w THEN (u \o Cells(g))[i] ELSE f[i - (a + w)]
    BY <1>5, <1>7, <1>8
  <2>2. CASE i <= a + w
    <3>1. Put(r, g).cells[i] = IF i <= a THEN u[i] ELSE Cells(g)[i - a]
      BY <1>1, <1>6, <2>1, <2>2
    <3> HIDE DEF a
    <3> QED BY <1>1, <1>2, <2>2, <3>1
  <2>3. CASE i > a + w
    <3>1. Put(r, g).cells[i] = f[i - (a + w)] /\ i - (a + w) \in 1 .. Columns - (a + w + 1) + 1
      BY <1>1, <2>1, <2>3
    <3> HIDE DEF a, f
    <3>2. PICK k : k = i - (a + w)
      OBVIOUS
    <3>3. /\ k \in 1 .. Columns - (a + w + 1) + 1 /\ (a + w + 1) + k - 1 = i
          /\ k = 1 <=> i = a + w + 1
      <4>1. a \in Int /\ w \in Int /\ i \in Int
        BY <1>1
      <4>2. k \in 1 .. Columns - (a + w + 1) + 1
        BY <3>1, <3>2
      <4>3. (a + w + 1) + k - 1 = i /\ (k = 1 <=> i = a + w + 1)
        BY ONLY <3>2, <4>1
      <4> QED BY <4>2, <4>3
    <3>4. f[k] = IF i = a + w + 1 THEN Mend(r.cells[i]) ELSE r.cells[i]
      BY <1>3, <3>3
    <3>5. Put(r, g).cells[i] = IF i = a + w + 1 THEN Mend(r.cells[i]) ELSE r.cells[i]
      BY <3>1, <3>2, <3>4
    <3>6. ~(i < a) /\ ~(i = a) /\ ~(i <= a + w)
      BY <1>1, <2>3
    <3> QED BY <3>5, <3>6
  <2> QED BY <1>1, <2>2, <2>3
<1> QED BY <1>5, <1>9, <1>10

-----------------------------------------------------------------------------
\* A line takes the columns of its glyphs.
LEMMA WidthOne ==
    ASSUME NoAsterisk, NEW s \in Seq(Glyph), NEW g \in Glyph
    PROVE  Width(s) \in Nat /\ Width(Append(s, g)) = Width(s) + Len(Cells(g))
<1> DEFINE n == Len(s)
           t == Append(s, g)
           A == {i \in DOMAIN s : s[i] \in Wide}
           B == {i \in DOMAIN t : t[i] \in Wide}
<1>1. n \in Nat /\ DOMAIN s = 1 .. n
  BY LenProperties
<1>2. /\ Len(t) = n + 1 /\ DOMAIN t = 1 .. n + 1
      /\ \A i \in 1 .. n : t[i] = s[i]
      /\ t[n + 1] = g
  BY AppendProperties, LenProperties
<1> HIDE DEF t, n
<1>3. IsFiniteSet(A) /\ Cardinality(A) \in Nat
  <2>1. IsFiniteSet(1 .. n)
    BY <1>1, FS_Interval
  <2>2. A \subseteq 1 .. n
    BY <1>1
  <2> QED BY <2>1, <2>2, FS_Subset, FS_CardinalityType
<1>4. Width(s) = n + Cardinality(A) /\ Width(t) = (n + 1) + Cardinality(B)
  BY <1>2 DEF Width, n
<1>5. CASE g \in Wide
  <2>1. B = A \cup {n + 1} /\ n + 1 \notin A
    BY <1>1, <1>2, <1>5
  <2>2. Cardinality(B) = Cardinality(A) + 1
    BY <1>3, <2>1, FS_AddElement
  <2>3. Len(Cells(g)) = 2
    BY <1>5, CellsOf
  <2> HIDE DEF A, B
  <2> QED BY <1>1, <1>3, <1>4, <2>2, <2>3 DEF t
<1>6. CASE g \notin Wide
  <2>1. B = A
    BY <1>1, <1>2, <1>6
  <2>2. Len(Cells(g)) = 1
    BY <1>6, CellsOf
  <2> HIDE DEF A, B
  <2> QED BY <1>1, <1>3, <1>4, <2>1, <2>2 DEF t
<1> QED BY <1>5, <1>6

LEMMA WidthNothing == Width(<< >>) = 0
<1>1. {i \in DOMAIN << >> : << >>[i] \in Wide} = {}
  OBVIOUS
<1>2. Len(<< >>) = 0
  BY EmptySeq
<1> QED BY <1>1, <1>2, FS_EmptySet DEF Width

\* The cells of a line: as many as its width; no wide glyph is the last of
\* them, nor is the half of one the first.
LEMMA LaidCells ==
    ASSUME NoAsterisk, NEW s \in Seq(Glyph)
    PROVE  /\ Width(s) \in Nat /\ Laid(s) \in Seq(Cell) /\ Len(Laid(s)) = Width(s)
           /\ Len(s) <= Width(s) /\ Width(s) <= 2 * Len(s)
           /\ Width(s) > 0 => Laid(s)[Width(s)] \notin Wide /\ Laid(s)[1] # Half
<1> DEFINE P == {q \in Seq(Glyph) :
                   /\ Width(q) \in Nat /\ Laid(q) \in Seq(Cell) /\ Len(Laid(q)) = Width(q)
                   /\ Len(q) <= Width(q) /\ Width(q) <= 2 * Len(q)
                   /\ Width(q) > 0 => Laid(q)[Width(q)] \notin Wide /\ Laid(q)[1] # Half}
<1>1. << >> \in P
  <2>1. << >> \in Seq(Glyph) /\ << >> \in Seq(Cell) /\ Len(<< >>) = 0
    BY EmptySeq
  <2>2. Width(<< >>) = 0 /\ Laid(<< >>) \in Seq(Cell) /\ Len(Laid(<< >>)) = 0
    BY <2>1, WidthNothing, LaidNothing
  <2>3. Width(<< >>) \in Nat /\ Len(<< >>) <= Width(<< >>) /\ Width(<< >>) <= 2 * Len(<< >>) /\ ~(Width(<< >>) > 0)
    BY <2>1, <2>2
  <2> QED BY <2>1, <2>2, <2>3
<1>2. ASSUME NEW q \in Seq(Glyph), NEW g \in Glyph, q \in P PROVE Append(q, g) \in P
  <2>1. PICK w : w = Len(Cells(g))
    OBVIOUS
  <2>2. PICK l, c, W, n : l = Laid(q) /\ c = Cells(g) /\ W = Width(q) /\ n = Len(q)
    OBVIOUS
  <2>3. /\ W \in Nat /\ l \in Seq(Cell) /\ Len(l) = W /\ n <= W /\ W <= 2 * n
        /\ W > 0 => l[W] \notin Wide /\ l[1] # Half
    BY <1>2, <2>2
  <2>4. /\ c \in Seq(Cell) /\ c[1] = g /\ Len(c) = w /\ w = (IF g \in Wide THEN 2 ELSE 1)
        /\ g \in Wide => c[2] = Half
    BY <2>1, <2>2, CellsOf
  <2>5. /\ Laid(Append(q, g)) = l \o c /\ Width(Append(q, g)) = W + w
        /\ Len(Append(q, g)) = n + 1 /\ Append(q, g) \in Seq(Glyph) /\ n \in Nat
    BY <2>1, <2>2, LaidOne, WidthOne, AppendProperties, LenProperties
  <2>6. /\ l \o c \in Seq(Cell) /\ Len(l \o c) = W + w
        /\ \A i \in 1 .. W + w : (l \o c)[i] = IF i <= W THEN l[i] ELSE c[i - W]
    <3>1. l \in Seq(Cell) /\ Len(l) = W /\ c \in Seq(Cell) /\ Len(c) = w
      BY <2>3, <2>4
    <3> QED BY ONLY <3>1, ConcatAt
  <2>7. W + w \in 1 .. W + w /\ ~(W + w <= W) /\ (W + w) - W = w /\ 1 \in 1 .. W + w
    BY <2>3, <2>4
  <2>8. (l \o c)[W + w] = c[w]
    BY <2>6, <2>7
  <2>9. (l \o c)[W + w] \notin Wide
    <3>1. CASE g \in Wide
      BY <2>4, <2>8, <3>1, Alphabet
    <3>2. CASE g \notin Wide
      BY <2>4, <2>8, <3>2
    <3> QED BY <3>1, <3>2
  <2>10. (l \o c)[1] # Half
    <3>1. CASE W = 0
      <4>1. (l \o c)[1] = c[1]
        BY <2>6, <2>7, <3>1
      <4> QED BY <2>4, <4>1, Alphabet
    <3>2. CASE W # 0
      <4>1. 1 <= W
        BY <2>3, <3>2
      <4> QED BY <2>3, <2>6, <2>7, <4>1
    <3> QED BY <3>1, <3>2
  <2>11. W + w \in Nat /\ n + 1 <= W + w /\ W + w <= 2 * (n + 1)
    BY <2>3, <2>4, <2>5
  <2> QED BY <2>5, <2>6, <2>9, <2>10, <2>11
<1>3. Seq(Glyph) \subseteq P
  <2> HIDE DEF P
  <2> QED BY <1>1, <1>2, SequencesAll
<1> QED BY <1>3

LEMMA LaidTwo ==
    ASSUME NoAsterisk, NEW a \in Seq(Glyph), NEW b \in Seq(Glyph)
    PROVE  Laid(a \o b) = Laid(a) \o Laid(b) /\ Width(a \o b) = Width(a) + Width(b)
<1> DEFINE P == {s \in Seq(Glyph) : Laid(a \o s) = Laid(a) \o Laid(s)}
<1>1. << >> \in P
  BY EmptySeq, ConcatEmptySeq, LaidNothing, LaidCells
<1>2. ASSUME NEW s \in Seq(Glyph), NEW e \in Glyph, s \in P PROVE Append(s, e) \in P
  <2>1. a \o s \in Seq(Glyph) /\ Append(s, e) \in Seq(Glyph) /\ <<e>> \in Seq(Glyph)
    BY ConcatProperties, AppendProperties
  <2>2. a \o Append(s, e) = Append(a \o s, e)
    BY <2>1, AppendIsConcat, ConcatAssociative
  <2>3. Laid(a) \in Seq(Cell) /\ Laid(s) \in Seq(Cell) /\ Cells(e) \in Seq(Cell)
    BY LaidCells, CellsOf
  <2>4. (Laid(a) \o Laid(s)) \o Cells(e) = Laid(a) \o (Laid(s) \o Cells(e))
    BY <2>3, ConcatAssociative
  <2>5. Laid(Append(a \o s, e)) = Laid(a \o s) \o Cells(e) /\ Laid(Append(s, e)) = Laid(s) \o Cells(e)
    BY <2>1, LaidOne
  <2>6. Laid(a \o s) = Laid(a) \o Laid(s)
    BY <1>2
  <2>7. Laid(a \o Append(s, e)) = Laid(a) \o Laid(Append(s, e))
    BY <2>2, <2>4, <2>5, <2>6
  <2> QED BY <2>1, <2>7
<1>3. Seq(Glyph) \subseteq P
  <2> HIDE DEF P
  <2> QED BY <1>1, <1>2, SequencesAll
<1>4. Laid(a \o b) = Laid(a) \o Laid(b)
  BY <1>3
<1>5. /\ a \o b \in Seq(Glyph)
      /\ Len(Laid(a \o b)) = Width(a \o b) /\ Len(Laid(a)) = Width(a) /\ Len(Laid(b)) = Width(b)
      /\ Laid(a) \in Seq(Cell) /\ Laid(b) \in Seq(Cell)
  BY ConcatProperties, LaidCells
<1>6. Len(Laid(a) \o Laid(b)) = Len(Laid(a)) + Len(Laid(b))
  BY <1>5, ConcatProperties
<1> QED BY <1>4, <1>5, <1>6

\* The same glyph over and over.
LEMMA TimesOne ==
    ASSUME NEW S, NEW x \in S, NEW n \in Nat
    PROVE  /\ Times(n, x) \in Seq(S) /\ Len(Times(n, x)) = n
           /\ Times(0, x) = << >> /\ Times(n + 1, x) = Append(Times(n, x), x)
           /\ \A i \in 1 .. n : Times(n, x)[i] = x
<1>1. \A m \in Nat : Times(m, x) \in Seq(S) /\ Len(Times(m, x)) = m /\ \A i \in 1 .. m : Times(m, x)[i] = x
  BY DEF Times
<1>2. Times(0, x) = << >>
  BY <1>1, EmptySeq
<1>3. Times(n + 1, x) = Append(Times(n, x), x)
  <2>1. n + 1 \in Nat
    OBVIOUS
  <2>2. /\ Append(Times(n, x), x) \in Seq(S) /\ Len(Append(Times(n, x), x)) = n + 1
        /\ \A i \in 1 .. n : Append(Times(n, x), x)[i] = x
        /\ Append(Times(n, x), x)[n + 1] = x
    <3>1. PICK s : s = Times(n, x)
      OBVIOUS
    <3>2. s \in Seq(S) /\ Len(s) = n /\ \A i \in 1 .. n : s[i] = x
      BY <1>1, <3>1
    <3>3. /\ Append(s, x) \in Seq(S) /\ Len(Append(s, x)) = n + 1 /\ Append(s, x)[n + 1] = x
          /\ \A i \in 1 .. n : Append(s, x)[i] = s[i]
      BY <3>2, AppendProperties
    <3> QED BY <3>1, <3>2, <3>3
  <2>3. \A i \in 1 .. n + 1 : Times(n + 1, x)[i] = Append(Times(n, x), x)[i]
    <3>1. \A i \in 1 .. n + 1 : Times(n + 1, x)[i] = x
      BY <1>1, <2>1
    <3>2. \A i \in 1 .. n + 1 : i \in 1 .. n \/ i = n + 1
      OBVIOUS
    <3>3. \A i \in 1 .. n + 1 : Append(Times(n, x), x)[i] = x
      BY <2>2, <3>2
    <3> QED BY <3>1, <3>3
  <2> QED BY <1>1, <2>1, <2>2, <2>3, SeqEqual
<1> QED BY <1>1, <1>2, <1>3

LEMMA LaidTimes ==
    ASSUME NoAsterisk, NEW x \in Glyph \ Wide, NEW n \in Nat
    PROVE  Laid(Times(n, x)) = Times(n, x) /\ Width(Times(n, x)) = n
<1> DEFINE N == {m \in Nat : Laid(Times(m, x)) = Times(m, x)}
<1>1. 0 \in N
  BY TimesOne, LaidNothing
<1>2. ASSUME NEW m \in Nat, m \in N PROVE m + 1 \in N
  <2>1. Times(m, x) \in Seq(Glyph) /\ Times(m + 1, x) = Append(Times(m, x), x)
    BY TimesOne
  <2>2. Cells(x) = <<x>>
    BY DEF Cells
  <2>3. Laid(Times(m + 1, x)) = Laid(Times(m, x)) \o <<x>>
    BY <2>1, <2>2, LaidOne
  <2>4. Append(Times(m, x), x) = Times(m, x) \o <<x>>
    BY <2>1, AppendIsConcat
  <2> QED BY <1>2, <2>1, <2>3, <2>4
<1>3. Nat \subseteq N
  <2> HIDE DEF N
  <2> QED BY <1>1, <1>2, NumbersAll
<1>4. Times(n, x) \in Seq(Glyph) /\ Len(Times(n, x)) = n
  BY TimesOne
<1> QED BY <1>3, <1>4, LaidCells

-----------------------------------------------------------------------------
\* The row that shows a, the cursor, and b.
Showing(a, b) ==
    [at |-> Width(a), cells |-> Laid(a \o b) \o Times(Columns - Width(a \o b), Space)]

\* A row, cell by cell.
LEMMA ShowingCells ==
    ASSUME NoAsterisk, NEW a \in Seq(Glyph), NEW b \in Seq(Glyph), Width(a) + Width(b) <= Columns
    PROVE  /\ Showing(a, b) \in RowType /\ Showing(a, b).at = Width(a)
           /\ \A i \in 1 .. Columns :
                Showing(a, b).cells[i] = IF i <= Width(a) THEN Laid(a)[i]
                                         ELSE IF i <= Width(a) + Width(b) THEN Laid(b)[i - Width(a)]
                                         ELSE Space
<1>1. PICK A, B, la, lb, sp : /\ A = Width(a) /\ B = Width(b) /\ la = Laid(a) /\ lb = Laid(b)
                              /\ sp = Times(Columns - (A + B), Space)
  OBVIOUS
<1>2. /\ A \in Nat /\ B \in Nat /\ la \in Seq(Cell) /\ lb \in Seq(Cell) /\ Len(la) = A /\ Len(lb) = B
      /\ Columns \in Nat /\ A + B <= Columns
  BY <1>1, LaidCells, Alphabet
<1>3. Laid(a \o b) = la \o lb /\ Width(a \o b) = A + B
  BY <1>1, LaidTwo
<1>4. /\ sp \in Seq(Cell) /\ Len(sp) = Columns - (A + B)
      /\ \A i \in 1 .. Columns - (A + B) : sp[i] = Space
  <2>1. Columns - (A + B) \in Nat /\ Space \in Cell
    BY <1>2, Alphabet DEF Cell
  <2> QED BY <1>1, <2>1, TimesOne
<1>5. /\ la \o lb \in Seq(Cell) /\ Len(la \o lb) = A + B
      /\ \A i \in 1 .. A + B : (la \o lb)[i] = IF i <= A THEN la[i] ELSE lb[i - A]
  BY <1>2, ConcatAt
<1>6. PICK h, m, n : h = la \o lb /\ m = A + B /\ n = Columns - (A + B)
  OBVIOUS
<1>7. /\ h \o sp \in Seq(Cell) /\ Len(h \o sp) = m + n
      /\ \A i \in 1 .. m + n : (h \o sp)[i] = IF i <= m THEN h[i] ELSE sp[i - m]
  <2>1. h \in Seq(Cell) /\ Len(h) = m /\ sp \in Seq(Cell) /\ Len(sp) = n
    BY <1>4, <1>5, <1>6
  <2> QED BY ONLY <2>1, ConcatAt
<1>8. m + n = Columns
  BY <1>2, <1>6
<1>9. Showing(a, b) = [at |-> A, cells |-> h \o sp]
  BY <1>1, <1>3, <1>6 DEF Showing
<1>10. Showing(a, b) \in RowType
  <2>1. A \in 0 .. Columns
    BY <1>2
  <2>2. [at |-> A, cells |-> h \o sp] \in RowType
    BY <1>7, <1>8, <2>1 DEF RowType
  <2> QED BY <1>9, <2>2
<1>11. ASSUME NEW i \in 1 .. Columns
       PROVE  (h \o sp)[i] = IF i <= A THEN la[i] ELSE IF i <= A + B THEN lb[i - A] ELSE Space
  <2>1. (h \o sp)[i] = IF i <= m THEN h[i] ELSE sp[i - m]
    BY <1>7, <1>8
  <2>2. CASE i <= A + B
    BY <1>2, <1>5, <1>6, <2>1, <2>2
  <2>3. CASE ~(i <= A + B)
    <3>1. i - m \in 1 .. Columns - (A + B)
      BY <1>2, <1>6, <2>3
    <3> QED BY <1>2, <1>4, <1>6, <2>1, <2>3, <3>1
  <2> QED BY <2>2, <2>3
<1>12. Showing(a, b).at = A /\ Showing(a, b).cells = h \o sp
  BY <1>9
<1>13. \A i \in 1 .. Columns :
         Showing(a, b).cells[i] = IF i <= A THEN la[i] ELSE IF i <= A + B THEN lb[i - A] ELSE Space
  <2> SUFFICES ASSUME NEW i \in 1 .. Columns
               PROVE  Showing(a, b).cells[i] = IF i <= A THEN la[i] ELSE IF i <= A + B THEN lb[i - A] ELSE Space
    OBVIOUS
  <2>1. Showing(a, b).cells[i] = (h \o sp)[i]
    BY <1>12
  <2> QED BY <1>11, <2>1
<1> QED BY <1>1, <1>10, <1>12, <1>13

\* Two rows are one when their cells and their cursors are.
LEMMA SameRow ==
    ASSUME NEW r \in RowType, NEW q \in RowType, r.at = q.at, \A i \in 1 .. Columns : r.cells[i] = q.cells[i]
    PROVE  r = q
<1>1. r.cells \in Seq(Cell) /\ q.cells \in Seq(Cell) /\ Len(r.cells) = Columns /\ Len(q.cells) = Columns
  BY DEF RowType
<1>2. r.cells = q.cells
  BY <1>1, SeqEqual
<1> QED BY <1>2 DEF RowType

\* Printing several glyphs from a place between two others.
LEMMA PrintCells ==
    ASSUME NoAsterisk, NEW r \in RowType, NEW gs \in Seq(Glyph), r.at + Width(gs) <= Columns,
           r.at > 0 => r.cells[r.at] \notin Wide,
           r.at < Columns => r.cells[r.at + 1] # Half
    PROVE  /\ Feed(r, gs) \in RowType /\ Feed(r, gs).at = r.at + Width(gs)
           /\ \A i \in 1 .. Columns :
                Feed(r, gs).cells[i] = IF i <= r.at THEN r.cells[i]
                                       ELSE IF i <= r.at + Width(gs) THEN Laid(gs)[i - r.at]
                                       ELSE IF i = r.at + Width(gs) + 1 THEN Mend(r.cells[i])
                                       ELSE r.cells[i]
<1> DEFINE Over(q, i) == IF i <= r.at THEN r.cells[i]
                         ELSE IF i <= r.at + Width(q) THEN Laid(q)[i - r.at]
                         ELSE IF i = r.at + Width(q) + 1 THEN Mend(r.cells[i])
                         ELSE r.cells[i]
           Fits(q) == /\ Feed(r, q) \in RowType /\ Feed(r, q).at = r.at + Width(q)
                      /\ \A i \in 1 .. Columns : Feed(r, q).cells[i] = Over(q, i)
           P == {q \in Seq(Glyph) : r.at + Width(q) <= Columns => Fits(q)}
<1>a. r.at \in 0 .. Columns /\ Columns \in Nat
  BY Alphabet DEF RowType
<1>1. << >> \in P
  <2>1. Feed(r, << >>) = r /\ Width(<< >>) = 0 /\ << >> \in Seq(Glyph)
    BY FeedNothing, WidthNothing, EmptySeq
  <2>2. ASSUME NEW i \in 1 .. Columns PROVE r.cells[i] = Over(<< >>, i)
    <3>1. CASE i <= r.at
      BY <3>1
    <3>2. CASE i = r.at + 1
      <4>1. r.at < Columns /\ r.cells[i] # Half
        BY <1>a, <3>2
      <4>2. ~(i <= r.at) /\ ~(i <= r.at + 0) /\ i = r.at + 0 + 1
        BY <1>a, <3>2
      <4> QED BY <2>1, <4>1, <4>2 DEF Mend
    <3>3. CASE i > r.at + 1
      BY <1>a, <2>1, <3>3
    <3> QED BY <1>a, <3>1, <3>2, <3>3
  <2>3. Fits(<< >>)
    BY <1>a, <2>1, <2>2
  <2> QED BY <2>1, <2>3
<1>2. ASSUME NEW q \in Seq(Glyph), NEW g \in Glyph, q \in P PROVE Append(q, g) \in P
  <2>1. PICK w, W : w = Len(Cells(g)) /\ W = Width(q)
    OBVIOUS
  <2>2. /\ Append(q, g) \in Seq(Glyph) /\ Width(Append(q, g)) = W + w /\ W \in Nat
        /\ Laid(Append(q, g)) = Laid(q) \o Cells(g)
    BY <2>1, AppendProperties, WidthOne, LaidOne
  <2>3. w \in 1 .. 2
    <3>1. Len(Cells(g)) = IF g \in Wide THEN 2 ELSE 1
      BY CellsOf
    <3> QED BY <2>1, <3>1
  <2>4. SUFFICES ASSUME r.at + (W + w) <= Columns PROVE Fits(Append(q, g))
    BY <2>2
  <2>5. Fits(q)
    <3>1. r.at + W <= Columns
      BY <1>a, <2>2, <2>3, <2>4
    <3> QED BY <1>2, <2>1, <3>1
  <2>6. PICK f, z : f = Feed(r, q) /\ z = Put(f, g)
    OBVIOUS
  <2>7. f \in RowType /\ f.at = r.at + W /\ \A i \in 1 .. Columns : f.cells[i] = Over(q, i)
    BY <2>1, <2>5, <2>6
  <2>8. Feed(r, Append(q, g)) = z
    <3>1. g # BS
      BY Alphabet
    <3> QED BY <2>6, <3>1, FeedOne DEF Then
  <2>9. /\ z \in RowType /\ z.at = f.at + w
        /\ \A i \in 1 .. Columns :
             z.cells[i] = IF i < f.at THEN f.cells[i]
                          ELSE IF i = f.at THEN Cut(f.cells[i])
                          ELSE IF i <= f.at + w THEN Cells(g)[i - f.at]
                          ELSE IF i = f.at + w + 1 THEN Mend(f.cells[i])
                          ELSE f.cells[i]
    <3>1. f \in RowType /\ w = Len(Cells(g)) /\ f.at + w <= Columns
      BY <1>a, <2>1, <2>2, <2>3, <2>4, <2>7
    <3> QED BY <2>6, <3>1, PutCells
  <2>10. \A i \in 1 .. W + w : Laid(Append(q, g))[i] = IF i <= W THEN Laid(q)[i] ELSE Cells(g)[i - W]
    <3>1. Laid(q) \in Seq(Cell) /\ W = Len(Laid(q)) /\ Cells(g) \in Seq(Cell) /\ w = Len(Cells(g))
      BY <2>1, LaidCells, CellsOf
    <3>2. \A i \in 1 .. W + w : (Laid(q) \o Cells(g))[i] = IF i <= W THEN Laid(q)[i] ELSE Cells(g)[i - W]
      BY ONLY <3>1, ConcatAt
    <3> QED BY <2>2, <3>2
  <2>11. W > 0 => Laid(q)[W] \notin Wide
    BY <2>1, LaidCells
  <2>12. ASSUME NEW i \in 1 .. Columns PROVE z.cells[i] = Over(Append(q, g), i)
    <3> DEFINE a == r.at
    <3>a. /\ a \in Nat /\ W \in Nat /\ w \in 1 .. 2 /\ i \in Nat /\ f.at = a + W
      BY <1>a, <2>2, <2>3, <2>7
    <3>b. Over(Append(q, g), i) =
            IF i <= a THEN r.cells[i]
            ELSE IF i <= a + (W + w) THEN Laid(Append(q, g))[i - a]
            ELSE IF i = a + (W + w) + 1 THEN Mend(r.cells[i])
            ELSE r.cells[i]
      BY <2>2
    <3>c. f.cells[i] = IF i <= a THEN r.cells[i]
                       ELSE IF i <= a + W THEN Laid(q)[i - a]
                       ELSE IF i = a + W + 1 THEN Mend(r.cells[i])
                       ELSE r.cells[i]
      BY <2>1, <2>7
    <3>d. z.cells[i] = IF i < a + W THEN f.cells[i]
                       ELSE IF i = a + W THEN Cut(f.cells[i])
                       ELSE IF i <= (a + W) + w THEN Cells(g)[i - (a + W)]
                       ELSE IF i = (a + W) + w + 1 THEN Mend(f.cells[i])
                       ELSE f.cells[i]
      BY <2>9, <3>a
    <3>e. a > 0 => r.cells[a] \notin Wide
      OBVIOUS
    <3> HIDE DEF a, Over
    <3>1. CASE i < a + W
      <4>1. i > a => i - a \in 1 .. W + w /\ i - a <= W
        BY <3>a, <3>1
      <4>2. z.cells[i] = f.cells[i]
        BY <3>d, <3>1
      <4> QED BY <2>10, <3>a, <3>b, <3>c, <3>1, <4>1, <4>2
    <3>2. CASE i = a + W
      <4>1. z.cells[i] = Cut(f.cells[i])
        BY <3>a, <3>d, <3>2
      <4>2. CASE W = 0
        BY <3>a, <3>b, <3>c, <3>e, <3>2, <4>1, <4>2 DEF Cut
      <4>3. CASE W > 0
        <5>1. i - a = W /\ W \in 1 .. W + w /\ ~(i <= a) /\ i <= a + (W + w)
          BY <3>a, <3>2, <4>3
        <5>2. f.cells[i] = Laid(q)[W] /\ Over(Append(q, g), i) = Laid(q)[W]
          BY <2>10, <3>a, <3>b, <3>c, <3>2, <5>1
        <5> QED BY <2>11, <4>1, <4>3, <5>2 DEF Cut
      <4> QED BY <3>a, <4>2, <4>3
    <3>3. CASE i > a + W /\ i <= (a + W) + w
      <4>1. i - a \in 1 .. W + w /\ ~(i - a <= W) /\ (i - a) - W = i - (a + W) /\ ~(i <= a) /\ i <= a + (W + w)
        BY <3>a, <3>3
      <4>2. z.cells[i] = Cells(g)[i - (a + W)]
        BY <3>a, <3>d, <3>3
      <4> QED BY <2>10, <3>b, <4>1, <4>2
    <3>4. CASE i = (a + W) + w + 1
      <4>1. ~(i <= a) /\ ~(i <= a + W) /\ i # a + W + 1 /\ ~(i <= a + (W + w)) /\ i = a + (W + w) + 1
        BY <3>a, <3>4
      <4>2. z.cells[i] = Mend(f.cells[i])
        BY <3>a, <3>d, <3>4
      <4> QED BY <3>b, <3>c, <4>1, <4>2
    <3>5. CASE i > (a + W) + w + 1
      <4>1. ~(i <= a) /\ ~(i <= a + W) /\ i # a + W + 1 /\ ~(i <= a + (W + w)) /\ i # a + (W + w) + 1
        BY <3>a, <3>5
      <4>2. z.cells[i] = f.cells[i]
        BY <3>a, <3>d, <3>5
      <4> QED BY <3>b, <3>c, <4>1, <4>2
    <3>6. i < a + W \/ i = a + W \/ (i > a + W /\ i <= (a + W) + w) \/ i = (a + W) + w + 1 \/ i > (a + W) + w + 1
      BY <3>a
    <3> QED BY <3>1, <3>2, <3>3, <3>4, <3>5, <3>6
  <2>13. z.at = r.at + (W + w)
    BY <1>a, <2>2, <2>3, <2>7, <2>9
  <2> HIDE DEF Over
  <2> QED BY <2>2, <2>8, <2>9, <2>12, <2>13
<1>3. Seq(Glyph) \subseteq P
  <2> HIDE DEF P
  <2> QED BY <1>1, <1>2, SequencesAll
<1> QED BY <1>3

\* The cells do not depend on where the cursor is.
LEMMA Slide ==
    ASSUME NoAsterisk, NEW a \in Seq(Glyph), NEW b \in Seq(Glyph), NEW c \in Seq(Glyph)
    PROVE  /\ Showing(a \o b, c) = [at |-> Width(a) + Width(b), cells |-> Showing(a, b \o c).cells]
           /\ Showing(a, b \o c) = [at |-> Width(a), cells |-> Showing(a \o b, c).cells]
<1>1. (a \o b) \o c = a \o (b \o c)
  BY ConcatAssociative
<1>2. Width(a \o b) = Width(a) + Width(b)
  BY LaidTwo
<1>3. Showing(a \o b, c).cells = Showing(a, b \o c).cells
  BY <1>1 DEF Showing
<1> QED BY <1>2, <1>3 DEF Showing

\* On either side of the cursor there are whole glyphs.
LEMMA ShowingEdges ==
    ASSUME NoAsterisk, NEW a \in Seq(Glyph), NEW b \in Seq(Glyph), Width(a) + Width(b) <= Columns
    PROVE  /\ Width(a) > 0 => Showing(a, b).cells[Width(a)] \notin Wide
           /\ Width(a) < Columns => Showing(a, b).cells[Width(a) + 1] # Half
<1>1. PICK A, B : A = Width(a) /\ B = Width(b)
  OBVIOUS
<1>2. /\ A \in Nat /\ B \in Nat /\ Columns \in Nat /\ A + B <= Columns
      /\ A > 0 => Laid(a)[A] \notin Wide
      /\ B > 0 => Laid(b)[1] # Half
  BY <1>1, LaidCells, Alphabet
<1>3. \A i \in 1 .. Columns :
         Showing(a, b).cells[i] = IF i <= A THEN Laid(a)[i]
                                  ELSE IF i <= A + B THEN Laid(b)[i - A] ELSE Space
  BY <1>1, ShowingCells
<1>4. ASSUME A > 0 PROVE Showing(a, b).cells[A] \notin Wide
  <2>1. A \in 1 .. Columns
    BY <1>2, <1>4
  <2> QED BY <1>2, <1>3, <1>4, <2>1
<1>5. ASSUME A < Columns PROVE Showing(a, b).cells[A + 1] # Half
  <2>1. A + 1 \in 1 .. Columns /\ ~(A + 1 <= A) /\ (A + 1) - A = 1
    BY <1>2, <1>5
  <2>2. CASE B > 0
    <3>1. A + 1 <= A + B
      BY <1>2, <2>2
    <3> QED BY <1>2, <1>3, <2>1, <2>2, <3>1
  <2>3. CASE B = 0
    <3>1. ~(A + 1 <= A + B)
      BY <1>2, <2>3
    <3>2. Space # Half
      BY DEF Space, Half
    <3> QED BY <1>3, <2>1, <3>1, <3>2
  <2> QED BY <1>2, <2>2, <2>3
<1> QED BY <1>1, <1>4, <1>5

\* What is printed takes the place of what was right of the cursor, if that
\* is not longer.
LEMMA PrintOver ==
    ASSUME NoAsterisk, NEW a \in Seq(Glyph), NEW b \in Seq(Glyph), NEW gs \in Seq(Glyph),
           Width(b) <= Width(gs), Width(a) + Width(gs) <= Columns
    PROVE  Feed(Showing(a, b), gs) = Showing(a \o gs, << >>)
<1>1. PICK A, B, G, r, q, z : /\ A = Width(a) /\ B = Width(b) /\ G = Width(gs)
                              /\ r = Showing(a, b) /\ q = Showing(a, gs) /\ z = Feed(r, gs)
  OBVIOUS
<1>2. A \in Nat /\ B \in Nat /\ G \in Nat /\ Columns \in Nat /\ B <= G /\ A + G <= Columns /\ A + B <= Columns
  BY <1>1, LaidCells, Alphabet
<1>3. /\ r \in RowType /\ r.at = A
      /\ \A i \in 1 .. Columns :
           r.cells[i] = IF i <= A THEN Laid(a)[i] ELSE IF i <= A + B THEN Laid(b)[i - A] ELSE Space
  BY <1>1, <1>2, ShowingCells
<1>4. /\ q \in RowType
      /\ \A i \in 1 .. Columns :
           q.cells[i] = IF i <= A THEN Laid(a)[i] ELSE IF i <= A + G THEN Laid(gs)[i - A] ELSE Space
  BY <1>1, <1>2, ShowingCells
<1>5. r.at > 0 => r.cells[r.at] \notin Wide
  BY <1>1, <1>2, <1>3, ShowingEdges
<1>6. r.at < Columns => r.cells[r.at + 1] # Half
  BY <1>1, <1>2, <1>3, ShowingEdges
<1>7. /\ z \in RowType /\ z.at = r.at + G
      /\ \A i \in 1 .. Columns :
           z.cells[i] = IF i <= r.at THEN r.cells[i]
                        ELSE IF i <= r.at + G THEN Laid(gs)[i - r.at]
                        ELSE IF i = r.at + G + 1 THEN Mend(r.cells[i])
                        ELSE r.cells[i]
  <2>1. r.at + Width(gs) <= Columns
    BY <1>1, <1>2, <1>3
  <2> QED BY <1>1, <1>3, <1>5, <1>6, <2>1, PrintCells
<1>8. ASSUME NEW i \in 1 .. Columns PROVE z.cells[i] = q.cells[i]
  <2>1. CASE i <= A + G
    BY <1>2, <1>3, <1>4, <1>7, <2>1
  <2>2. CASE i > A + G
    <3>1. ~(i <= A) /\ ~(i <= A + B) /\ ~(i <= A + G)
      BY <1>2, <2>2
    <3>2. r.cells[i] = Space /\ q.cells[i] = Space
      BY <1>3, <1>4, <3>1
    <3>3. Mend(Space) = Space
      BY DEF Mend
    <3> QED BY <1>3, <1>7, <3>1, <3>2, <3>3
  <2> QED BY <1>2, <2>1, <2>2
<1>9. z.cells = q.cells
  <2>1. z.cells \in Seq(Cell) /\ q.cells \in Seq(Cell) /\ Len(z.cells) = Columns /\ Len(q.cells) = Columns
    BY <1>4, <1>7 DEF RowType
  <2> QED BY <1>8, <2>1, SeqEqual
<1>10. Showing(a \o gs, << >>) = [at |-> A + G, cells |-> q.cells]
  <2>1. PICK e : e = << >>
    OBVIOUS
  <2>2. e \in Seq(Glyph) /\ gs \o e = gs
    BY <2>1, EmptySeq, ConcatEmptySeq
  <2>3. Showing(a \o gs, e) = [at |-> Width(a) + Width(gs), cells |-> Showing(a, gs \o e).cells]
    BY <2>2, Slide
  <2> QED BY <1>1, <2>1, <2>2, <2>3
<1>11. z = [at |-> z.at, cells |-> z.cells]
  BY <1>7 DEF RowType
<1> QED BY <1>1, <1>3, <1>7, <1>9, <1>10, <1>11

\* What is printed again where it is moves the cursor over it.
LEMMA PrintAgain ==
    ASSUME NoAsterisk, NEW a \in Seq(Glyph), NEW b \in Seq(Glyph), NEW c \in Seq(Glyph),
           Width(a) + Width(b) + Width(c) <= Columns
    PROVE  Feed(Showing(a, b \o c), b) = Showing(a \o b, c)
<1>1. PICK A, B, C, r, z : /\ A = Width(a) /\ B = Width(b) /\ C = Width(c)
                           /\ r = Showing(a, b \o c) /\ z = Feed(r, b)
  OBVIOUS
<1>2. A \in Nat /\ B \in Nat /\ C \in Nat /\ Columns \in Nat /\ (A + B) + C <= Columns
  BY <1>1, LaidCells, Alphabet
<1>3. b \o c \in Seq(Glyph) /\ a \o b \in Seq(Glyph)
  BY ConcatProperties
<1>4. Width(b \o c) = B + C /\ Width(a \o b) = A + B
  BY <1>1, LaidTwo
<1>5. Width(a) + Width(b \o c) <= Columns
  BY <1>1, <1>2, <1>4
<1>6. /\ r \in RowType /\ r.at = A
      /\ \A i \in 1 .. Columns :
           r.cells[i] = IF i <= A THEN Laid(a)[i] ELSE IF i <= A + (B + C) THEN Laid(b \o c)[i - A] ELSE Space
  BY <1>1, <1>3, <1>4, <1>5, ShowingCells
<1>7. \A i \in 1 .. B : Laid(b \o c)[i] = Laid(b)[i]
  <2>1. Laid(b) \in Seq(Cell) /\ B = Len(Laid(b)) /\ Laid(c) \in Seq(Cell) /\ C = Len(Laid(c)) /\ Laid(b \o c) = Laid(b) \o Laid(c)
    BY <1>1, LaidCells, LaidTwo
  <2>2. \A i \in 1 .. B + C : (Laid(b) \o Laid(c))[i] = IF i <= B THEN Laid(b)[i] ELSE Laid(c)[i - B]
    BY ONLY <2>1, ConcatAt
  <2> QED BY <1>2, <2>1, <2>2
<1>8. r.at > 0 => r.cells[r.at] \notin Wide
  BY <1>1, <1>3, <1>5, <1>6, ShowingEdges
<1>9. r.at < Columns => r.cells[r.at + 1] # Half
  BY <1>1, <1>3, <1>5, <1>6, ShowingEdges
<1>10. Showing(a \o b, c) = [at |-> A + B, cells |-> r.cells]
  BY <1>1, Slide
<1>11. A + B < Columns => r.cells[A + B + 1] # Half
  <2>1. Showing(a \o b, c).cells = r.cells
    BY <1>10
  <2>2. Width(a \o b) + Width(c) <= Columns
    BY <1>1, <1>2, <1>4
  <2>3. Width(a \o b) < Columns => Showing(a \o b, c).cells[Width(a \o b) + 1] # Half
    BY <1>3, <2>2, ShowingEdges
  <2> QED BY <1>4, <2>1, <2>3
<1>12. /\ z \in RowType /\ z.at = r.at + B
       /\ \A i \in 1 .. Columns :
            z.cells[i] = IF i <= r.at THEN r.cells[i]
                         ELSE IF i <= r.at + B THEN Laid(b)[i - r.at]
                         ELSE IF i = r.at + B + 1 THEN Mend(r.cells[i])
                         ELSE r.cells[i]
  <2>1. r.at + Width(b) <= Columns
    BY <1>1, <1>2, <1>6
  <2> QED BY <1>1, <1>6, <1>8, <1>9, <2>1, PrintCells
<1>13. ASSUME NEW i \in 1 .. Columns PROVE z.cells[i] = r.cells[i]
  <2>1. CASE i <= A
    BY <1>6, <1>12, <2>1
  <2>2. CASE i > A /\ i <= A + B
    <3>1. ~(i <= A) /\ i <= A + (B + C) /\ i - A \in 1 .. B
      BY <1>2, <2>2
    <3> QED BY <1>6, <1>7, <1>12, <2>2, <3>1
  <2>3. CASE i = A + B + 1
    <3>1. ~(i <= A) /\ ~(i <= A + B) /\ A + B < Columns
      BY <1>2, <2>3
    <3>2. Mend(r.cells[i]) = r.cells[i]
      BY <1>11, <2>3, <3>1 DEF Mend
    <3> QED BY <1>6, <1>12, <2>3, <3>1, <3>2
  <2>4. CASE i > A + B + 1
    <3>1. ~(i <= A) /\ ~(i <= A + B) /\ i # A + B + 1
      BY <1>2, <2>4
    <3> QED BY <1>6, <1>12, <3>1
  <2>5. i <= A \/ (i > A /\ i <= A + B) \/ i = A + B + 1 \/ i > A + B + 1
    BY <1>2
  <2> QED BY <2>1, <2>2, <2>3, <2>4, <2>5
<1>14. z = [at |-> A + B, cells |-> r.cells]
  <2>1. z.cells \in Seq(Cell) /\ r.cells \in Seq(Cell) /\ Len(z.cells) = Columns /\ Len(r.cells) = Columns
    BY <1>6, <1>12 DEF RowType
  <2>2. z.cells = r.cells
    BY <1>13, <2>1, SeqEqual
  <2>3. z = [at |-> z.at, cells |-> z.cells]
    BY <1>12 DEF RowType
  <2> QED BY <1>6, <1>12, <2>2, <2>3
<1> QED BY <1>1, <1>10, <1>14

\* Backspaces move the cursor back, and nothing else.
LEMMA Backspaces ==
    ASSUME NoAsterisk, NEW x, NEW A \in Nat, NEW k \in 0 .. A
    PROVE  Feed([at |-> A, cells |-> x], Times(k, BS)) = [at |-> A - k, cells |-> x]
<1> DEFINE N == {n \in Nat : n <= A => Feed([at |-> A, cells |-> x], Times(n, BS)) = [at |-> A - n, cells |-> x]}
<1>1. 0 \in N
  <2>1. Times(0, BS) = << >>
    BY TimesOne
  <2> QED BY <2>1, FeedNothing
<1>2. ASSUME NEW n \in Nat, n \in N PROVE n + 1 \in N
  <2> SUFFICES ASSUME n + 1 <= A
               PROVE  Feed([at |-> A, cells |-> x], Times(n + 1, BS)) = [at |-> A - (n + 1), cells |-> x]
    OBVIOUS
  <2>1. Times(n, BS) \in Seq({BS}) /\ Times(n + 1, BS) = Append(Times(n, BS), BS)
    BY TimesOne
  <2>2. Feed([at |-> A, cells |-> x], Times(n, BS)) = [at |-> A - n, cells |-> x]
    BY <1>2
  <2>3. Feed([at |-> A, cells |-> x], Times(n + 1, BS)) = Then([at |-> A - n, cells |-> x], BS)
    BY <2>1, <2>2, FeedOne
  <2>4. A - n > 0 /\ (A - n) - 1 = A - (n + 1)
    OBVIOUS
  <2> QED BY <2>3, <2>4 DEF Then, ToLeft
<1>3. Nat \subseteq N
  <2> HIDE DEF N
  <2> QED BY <1>1, <1>2, NumbersAll
<1> QED BY <1>3

\* As many backspaces as some glyphs are wide take the cursor back over them.
LEMMA BackOver ==
    ASSUME NoAsterisk, NEW a \in Seq(Glyph), NEW b \in Seq(Glyph), NEW c \in Seq(Glyph)
    PROVE  Feed(Showing(a \o b, c), Times(Width(b), BS)) = Showing(a, b \o c)
<1>1. PICK A, B, x : A = Width(a) /\ B = Width(b) /\ x = Showing(a \o b, c).cells
  OBVIOUS
<1>2. A \in Nat /\ B \in Nat
  BY <1>1, LaidCells
<1>3. Showing(a \o b, c) = [at |-> A + B, cells |-> x] /\ Showing(a, b \o c) = [at |-> A, cells |-> x]
  BY <1>1, Slide
<1>4. Feed([at |-> A + B, cells |-> x], Times(B, BS)) = [at |-> (A + B) - B, cells |-> x]
  <2>1. A + B \in Nat /\ B \in 0 .. A + B
    BY <1>2
  <2> QED BY <2>1, Backspaces
<1>5. (A + B) - B = A
  BY <1>2
<1> QED BY <1>1, <1>3, <1>4, <1>5

\* Blanks after the line are not to be seen.
LEMMA BlanksAfter ==
    ASSUME NoAsterisk, NEW a \in Seq(Glyph), NEW b \in Seq(Glyph), NEW k \in Nat,
           Width(a) + Width(b) + k <= Columns
    PROVE  Showing(a, b \o Times(k, Space)) = Showing(a, b)
<1>1. PICK A, B, sp, r, q : /\ A = Width(a) /\ B = Width(b) /\ sp = Times(k, Space)
                            /\ r = Showing(a, b \o sp) /\ q = Showing(a, b)
  OBVIOUS
<1>2. A \in Nat /\ B \in Nat /\ Columns \in Nat /\ (A + B) + k <= Columns
  BY <1>1, LaidCells, Alphabet
<1>3. /\ sp \in Seq(Glyph) /\ Laid(sp) = sp /\ Width(sp) = k /\ Len(sp) = k
      /\ \A i \in 1 .. k : sp[i] = Space
  <2>1. Space \in Glyph \ Wide
    BY Alphabet
  <2> QED BY <1>1, <2>1, TimesOne, LaidTimes
<1>4. b \o sp \in Seq(Glyph) /\ Width(b \o sp) = B + k /\ Laid(b \o sp) = Laid(b) \o sp
  BY <1>1, <1>3, ConcatProperties, LaidTwo
<1>5. \A i \in 1 .. B + k : Laid(b \o sp)[i] = IF i <= B THEN Laid(b)[i] ELSE sp[i - B]
  <2>1. Laid(b) \in Seq(Cell) /\ B = Len(Laid(b)) /\ sp \in Seq(Cell) /\ k = Len(sp)
    <3>1. sp \in Seq(Cell)
      BY <1>3, LaidCells
    <3> QED BY <1>1, <1>3, <3>1, LaidCells
  <2>2. \A i \in 1 .. B + k : (Laid(b) \o sp)[i] = IF i <= B THEN Laid(b)[i] ELSE sp[i - B]
    BY ONLY <2>1, ConcatAt
  <2> QED BY <1>4, <2>2
<1>6. /\ r \in RowType /\ r.at = A
      /\ \A i \in 1 .. Columns :
           r.cells[i] = IF i <= A THEN Laid(a)[i] ELSE IF i <= A + (B + k) THEN Laid(b \o sp)[i - A] ELSE Space
  <2>1. Width(a) + Width(b \o sp) <= Columns
    BY <1>1, <1>2, <1>4
  <2> QED BY <1>1, <1>4, <2>1, ShowingCells
<1>7. /\ q \in RowType /\ q.at = A
      /\ \A i \in 1 .. Columns :
           q.cells[i] = IF i <= A THEN Laid(a)[i] ELSE IF i <= A + B THEN Laid(b)[i - A] ELSE Space
  <2>1. Width(a) + Width(b) <= Columns
    BY <1>1, <1>2
  <2> QED BY <1>1, <2>1, ShowingCells
<1>8. ASSUME NEW i \in 1 .. Columns PROVE r.cells[i] = q.cells[i]
  <2>1. CASE i <= A
    BY <1>6, <1>7, <2>1
  <2>2. CASE i > A /\ i <= A + B
    <3>1. ~(i <= A) /\ i <= A + (B + k) /\ i - A \in 1 .. B + k /\ i - A <= B
      BY <1>2, <2>2
    <3> QED BY <1>5, <1>6, <1>7, <2>2, <3>1
  <2>3. CASE i > A + B /\ i <= A + (B + k)
    <3>1. ~(i <= A) /\ ~(i <= A + B) /\ i - A \in 1 .. B + k /\ ~(i - A <= B) /\ (i - A) - B \in 1 .. k
      BY <1>2, <2>3
    <3> QED BY <1>3, <1>5, <1>6, <1>7, <2>3, <3>1
  <2>4. CASE i > A + (B + k)
    <3>1. ~(i <= A) /\ ~(i <= A + B) /\ ~(i <= A + (B + k))
      BY <1>2, <2>4
    <3> QED BY <1>6, <1>7, <3>1
  <2>5. i <= A \/ (i > A /\ i <= A + B) \/ (i > A + B /\ i <= A + (B + k)) \/ i > A + (B + k)
    BY <1>2
  <2> QED BY <2>1, <2>2, <2>3, <2>4, <2>5
<1>9. r = q
  BY <1>6, <1>7, <1>8, SameRow
<1> QED BY <1>1, <1>9

\* Backspace, blank, backspace, for each of k columns.
Rub(k) == [i \in 1 .. 3 * k |-> IF i % 3 = 2 THEN Space ELSE BS]

LEMMA RubOne ==
    ASSUME NEW k \in Nat
    PROVE  /\ Rub(k) \in Seq({BS, Space}) /\ Rub(0) = << >>
           /\ Rub(k + 1) = Append(Append(Append(Rub(k), BS), Space), BS)
<1>1. \A n \in Nat : /\ Rub(n) \in Seq({BS, Space}) /\ Len(Rub(n)) = 3 * n
                     /\ \A i \in 1 .. 3 * n : Rub(n)[i] = IF i % 3 = 2 THEN Space ELSE BS
  <2> TAKE n \in Nat
  <2>1. 3 * n \in Nat
    OBVIOUS
  <2>2. Rub(n) \in [1 .. 3 * n -> {BS, Space}]
    BY DEF Rub
  <2>3. Rub(n) \in Seq({BS, Space})
    BY <2>1, <2>2, SeqDef
  <2>4. Len(Rub(n)) = 3 * n
    BY <2>1, <2>2, <2>3, LenProperties
  <2> QED BY <2>3, <2>4 DEF Rub
<1>2. Rub(0) = << >>
  <2>1. Rub(0) \in Seq({BS, Space}) /\ Len(Rub(0)) = 0
    BY <1>1
  <2> QED BY <2>1, EmptySeq
<1>3. PICK r, a, b, c : r = Rub(k) /\ a = Append(r, BS) /\ b = Append(a, Space) /\ c = Append(b, BS)
  OBVIOUS
<1>4. /\ r \in Seq({BS, Space}) /\ Len(r) = 3 * k
      /\ \A i \in 1 .. 3 * k : r[i] = IF i % 3 = 2 THEN Space ELSE BS
  BY <1>1, <1>3
<1>5. /\ a \in Seq({BS, Space}) /\ Len(a) = 3 * k + 1
      /\ \A i \in 1 .. 3 * k : a[i] = r[i]
      /\ a[3 * k + 1] = BS
  <2>1. BS \in {BS, Space} /\ r \in Seq({BS, Space})
    BY <1>4
  <2>2. /\ a \in Seq({BS, Space}) /\ Len(a) = Len(r) + 1
        /\ \A i \in 1 .. Len(r) : a[i] = r[i]
        /\ a[Len(r) + 1] = BS
    BY <1>3, <2>1, AppendProperties
  <2> QED BY <1>4, <2>2
<1>6. /\ b \in Seq({BS, Space}) /\ Len(b) = (3 * k + 1) + 1
      /\ \A i \in 1 .. 3 * k + 1 : b[i] = a[i]
      /\ b[(3 * k + 1) + 1] = Space
  BY <1>3, <1>5, AppendProperties
<1>7. /\ c \in Seq({BS, Space}) /\ Len(c) = ((3 * k + 1) + 1) + 1
      /\ \A i \in 1 .. (3 * k + 1) + 1 : c[i] = b[i]
      /\ c[((3 * k + 1) + 1) + 1] = BS
  BY <1>3, <1>6, AppendProperties
<1>8. k + 1 \in Nat /\ 3 * (k + 1) = ((3 * k + 1) + 1) + 1
  OBVIOUS
<1>9. /\ Rub(k + 1) \in Seq({BS, Space}) /\ Len(Rub(k + 1)) = 3 * (k + 1)
      /\ \A i \in 1 .. 3 * (k + 1) : Rub(k + 1)[i] = IF i % 3 = 2 THEN Space ELSE BS
  BY <1>1, <1>8
<1>10. ASSUME NEW i \in 1 .. 3 * (k + 1) PROVE Rub(k + 1)[i] = c[i]
  <2>1. CASE i <= 3 * k
    <3>1. i \in 1 .. 3 * k /\ i \in 1 .. 3 * k + 1 /\ i \in 1 .. (3 * k + 1) + 1
      BY <2>1
    <3> QED BY <1>4, <1>5, <1>6, <1>7, <1>9, <3>1
  <2>2. CASE i = 3 * k + 1
    <3>1. i \in 1 .. 3 * k + 1 /\ i \in 1 .. (3 * k + 1) + 1 /\ i % 3 = 1
      BY <2>2
    <3>2. c[i] = b[i] /\ b[i] = a[i]
      BY <1>6, <1>7, <3>1
    <3>3. a[i] = BS
      BY <1>5, <2>2
    <3>4. Rub(k + 1)[i] = BS
      BY <1>9, <3>1
    <3> QED BY <3>2, <3>3, <3>4
  <2>3. CASE i = (3 * k + 1) + 1
    <3>1. i \in 1 .. (3 * k + 1) + 1 /\ i % 3 = 2
      BY <2>3
    <3> QED BY <1>6, <1>7, <1>9, <2>3, <3>1
  <2>4. CASE i = ((3 * k + 1) + 1) + 1
    <3>1. i % 3 = 0
      BY <2>4
    <3> QED BY <1>7, <1>9, <2>4, <3>1
  <2>5. i <= 3 * k \/ i = 3 * k + 1 \/ i = (3 * k + 1) + 1 \/ i = ((3 * k + 1) + 1) + 1
    BY <1>8
  <2> QED BY <2>1, <2>2, <2>3, <2>4, <2>5
<1>11. Rub(k + 1) = c
  BY <1>7, <1>8, <1>9, <1>10, SeqEqual
<1> QED BY <1>2, <1>3, <1>4, <1>11

\* It takes the last columns off the row, and half a wide glyph with them.
LEMMA RubCells ==
    ASSUME NoAsterisk, NEW s \in Seq(Glyph), Width(s) <= Columns, NEW k \in 0 .. Width(s)
    PROVE  /\ Feed(Showing(s, << >>), Rub(k)) \in RowType
           /\ Feed(Showing(s, << >>), Rub(k)).at = Width(s) - k
           /\ \A i \in 1 .. Columns :
                Feed(Showing(s, << >>), Rub(k)).cells[i] =
                  IF i < Width(s) - k THEN Laid(s)[i]
                  ELSE IF i = Width(s) - k THEN Cut(Laid(s)[i]) ELSE Space
<1>1. PICK W, l, r : W = Width(s) /\ l = Laid(s) /\ r = Showing(s, << >>)
  OBVIOUS
<1> DEFINE Fits(q, n) == /\ q \in RowType /\ q.at = W - n
                         /\ \A i \in 1 .. Columns :
                              q.cells[i] = IF i < W - n THEN l[i] ELSE IF i = W - n THEN Cut(l[i]) ELSE Space
           N == {n \in Nat : n <= W => Fits(Feed(r, Rub(n)), n)}
<1>2. W \in Nat /\ Columns \in Nat /\ W <= Columns /\ (W > 0 => l[W] \notin Wide)
  BY <1>1, LaidCells, Alphabet
<1>3. 0 \in N
  <2>1. PICK e : e = << >>
    OBVIOUS
  <2>2. e \in Seq(Glyph) /\ Width(e) = 0
    BY <2>1, EmptySeq, WidthNothing
  <2>3. Width(s) + Width(e) <= Columns
    BY <1>1, <1>2, <2>2
  <2>4. /\ r \in RowType /\ r.at = W
        /\ \A i \in 1 .. Columns : r.cells[i] = IF i <= W THEN l[i] ELSE IF i <= W + 0 THEN Laid(e)[i - W] ELSE Space
    BY <1>1, <2>1, <2>2, <2>3, ShowingCells
  <2>5. Feed(r, Rub(0)) = r
    BY RubOne, FeedNothing
  <2>6. ASSUME NEW i \in 1 .. Columns
        PROVE  r.cells[i] = IF i < W - 0 THEN l[i] ELSE IF i = W - 0 THEN Cut(l[i]) ELSE Space
    <3>1. CASE i <= W
      BY <1>2, <2>4, <3>1 DEF Cut
    <3>2. CASE i > W
      BY <1>2, <2>4, <3>2
    <3> QED BY <1>2, <3>1, <3>2
  <2>7. Fits(r, 0)
    BY <1>2, <2>4, <2>6
  <2> QED BY <2>5, <2>7
<1>4. ASSUME NEW n \in Nat, n \in N PROVE n + 1 \in N
  <2> SUFFICES ASSUME n + 1 <= W PROVE Fits(Feed(r, Rub(n + 1)), n + 1)
    OBVIOUS
  <2>1. PICK f, g, z, c : /\ f = Feed(r, Rub(n)) /\ g = ToLeft(f) /\ z = Put(g, Space)
                          /\ c = Cells(Space)
    OBVIOUS
  <2>2. Fits(f, n)
    BY <1>2, <1>4, <2>1
  <2>3. /\ f \in RowType /\ f.at = W - n /\ f.at > 0
        /\ \A i \in 1 .. Columns : f.cells[i] = IF i < W - n THEN l[i] ELSE IF i = W - n THEN Cut(l[i]) ELSE Space
    BY <1>2, <2>2
  <2>4. g = [f EXCEPT !.at = W - n - 1]
    BY <2>1, <2>3 DEF ToLeft
  <2>5. g \in RowType /\ g.at = W - (n + 1) /\ g.cells = f.cells
    <3>1. W - n - 1 \in 0 .. Columns /\ W - n - 1 = W - (n + 1)
      BY <1>2
    <3> QED BY <2>3, <2>4, <3>1 DEF RowType
  <2>6. Space \in Glyph \ Wide /\ Len(c) = 1 /\ c[1] = Space
    <3>1. Space \in Glyph \ Wide
      BY Alphabet
    <3> QED BY <2>1, <3>1, CellsOf
  <2>7. /\ z \in RowType /\ z.at = g.at + 1
        /\ \A i \in 1 .. Columns :
             z.cells[i] = IF i < g.at THEN g.cells[i]
                          ELSE IF i = g.at THEN Cut(g.cells[i])
                          ELSE IF i <= g.at + 1 THEN c[i - g.at]
                          ELSE IF i = g.at + 1 + 1 THEN Mend(g.cells[i])
                          ELSE g.cells[i]
    <3>1. g.at + 1 <= Columns
      BY <1>2, <2>5
    <3>2. PICK w : w = 1
      OBVIOUS
    <3>3. g \in RowType /\ Space \in Glyph /\ w = Len(Cells(Space)) /\ g.at + w <= Columns
      BY <2>1, <2>5, <2>6, <3>1, <3>2
    <3>4. /\ Put(g, Space) \in RowType /\ Put(g, Space).at = g.at + w
          /\ \A i \in 1 .. Columns :
               Put(g, Space).cells[i] = IF i < g.at THEN g.cells[i]
                                        ELSE IF i = g.at THEN Cut(g.cells[i])
                                        ELSE IF i <= g.at + w THEN Cells(Space)[i - g.at]
                                        ELSE IF i = g.at + w + 1 THEN Mend(g.cells[i])
                                        ELSE g.cells[i]
      BY <3>3, PutCells
    <3> QED BY <2>1, <3>2, <3>4
  <2>8. Feed(r, Rub(n + 1)) = ToLeft(z)
    <3>1. PICK x, y : x = Append(Rub(n), BS) /\ y = Append(x, Space)
      OBVIOUS
    <3>2. Rub(n) \in Seq({BS, Space}) /\ x \in Seq({BS, Space}) /\ y \in Seq({BS, Space})
      BY <3>1, RubOne, AppendProperties
    <3>3. Rub(n + 1) = Append(y, BS)
      BY <3>1, RubOne
    <3>4. Feed(r, x) = g
      BY <2>1, <3>1, <3>2, FeedOne DEF Then
    <3>5. Feed(r, y) = z
      <4>1. Space # BS
        BY DEF Space, BS
      <4> QED BY <2>1, <3>1, <3>2, <3>4, <4>1, FeedOne DEF Then
    <3> QED BY <3>2, <3>3, <3>5, FeedOne DEF Then
  <2>9. PICK y : y = ToLeft(z)
    OBVIOUS
  <2>10. y = [z EXCEPT !.at = (g.at + 1) - 1] /\ (g.at + 1) - 1 = g.at
    BY <1>2, <2>5, <2>7, <2>9 DEF ToLeft
  <2>11. y \in RowType /\ y.at = W - (n + 1) /\ y.cells = z.cells
    BY <2>5, <2>7, <2>10 DEF RowType
  <2>12. ASSUME NEW i \in 1 .. Columns
         PROVE  z.cells[i] = IF i < W - (n + 1) THEN l[i] ELSE IF i = W - (n + 1) THEN Cut(l[i]) ELSE Space
    <3>1. CASE i < W - (n + 1)
      <4>1. i < g.at /\ i < W - n
        BY <1>2, <2>5, <3>1
      <4> QED BY <2>3, <2>5, <2>7, <3>1, <4>1
    <3>2. CASE i = W - (n + 1)
      <4>1. i = g.at /\ ~(i < g.at) /\ i < W - n
        BY <1>2, <2>5, <3>2
      <4> QED BY <2>3, <2>5, <2>7, <3>2, <4>1
    <3>3. CASE i = W - n
      <4>1. ~(i < g.at) /\ i # g.at /\ i <= g.at + 1 /\ i - g.at = 1 /\ ~(i < W - (n + 1)) /\ i # W - (n + 1)
        BY <1>2, <2>5, <3>3
      <4> QED BY <2>6, <2>7, <4>1
    <3>4. CASE i > W - n
      <4>1. /\ ~(i < g.at) /\ i # g.at /\ ~(i <= g.at + 1) /\ ~(i < W - (n + 1)) /\ i # W - (n + 1)
            /\ ~(i < W - n) /\ i # W - n
        BY <1>2, <2>5, <3>4
      <4>2. g.cells[i] = Space
        BY <2>3, <2>5, <4>1
      <4>3. Mend(Space) = Space
        BY DEF Mend
      <4> QED BY <2>7, <4>1, <4>2, <4>3
    <3>5. i < W - (n + 1) \/ i = W - (n + 1) \/ i = W - n \/ i > W - n
      BY <1>2
    <3> QED BY <3>1, <3>2, <3>3, <3>4, <3>5
  <2>13. Fits(y, n + 1)
    BY <2>11, <2>12
  <2> HIDE DEF Fits
  <2> QED BY <2>8, <2>9, <2>13
<1>5. Nat \subseteq N
  <2> HIDE DEF N
  <2> QED BY <1>3, <1>4, NumbersAll
<1> QED BY <1>1, <1>2, <1>5

\* Done for the whole width of the last glyphs, it takes them off.
LEMMA RubOut ==
    ASSUME NoAsterisk, NEW a \in Seq(Glyph), NEW b \in Seq(Glyph), Width(a) + Width(b) <= Columns
    PROVE  Feed(Showing(a \o b, << >>), Rub(Width(b))) = Showing(a, << >>)
<1>1. PICK A, B, z, q, e : /\ A = Width(a) /\ B = Width(b) /\ e = << >>
                           /\ z = Feed(Showing(a \o b, << >>), Rub(B)) /\ q = Showing(a, e)
  OBVIOUS
<1>2. A \in Nat /\ B \in Nat /\ Columns \in Nat /\ A + B <= Columns /\ (A > 0 => Laid(a)[A] \notin Wide)
  BY <1>1, LaidCells, Alphabet
<1>3. e \in Seq(Glyph) /\ Width(e) = 0
  BY <1>1, EmptySeq, WidthNothing
<1>4. a \o b \in Seq(Glyph) /\ Width(a \o b) = A + B /\ Laid(a \o b) = Laid(a) \o Laid(b)
  BY <1>1, ConcatProperties, LaidTwo
<1>5. \A i \in 1 .. A : Laid(a \o b)[i] = Laid(a)[i]
  <2>1. Laid(a) \in Seq(Cell) /\ A = Len(Laid(a)) /\ Laid(b) \in Seq(Cell) /\ B = Len(Laid(b))
    BY <1>1, LaidCells
  <2>2. \A i \in 1 .. A + B : (Laid(a) \o Laid(b))[i] = IF i <= A THEN Laid(a)[i] ELSE Laid(b)[i - A]
    BY ONLY <2>1, ConcatAt
  <2>3. \A i \in 1 .. A : i \in 1 .. A + B /\ i <= A
    BY <1>2
  <2> QED BY <1>4, <2>2, <2>3
<1>6. /\ z \in RowType /\ z.at = A
      /\ \A i \in 1 .. Columns :
           z.cells[i] = IF i < A THEN Laid(a \o b)[i] ELSE IF i = A THEN Cut(Laid(a \o b)[i]) ELSE Space
  <2>1. Width(a \o b) <= Columns /\ B \in 0 .. Width(a \o b) /\ (A + B) - B = A
    BY <1>2, <1>4
  <2>2. /\ z \in RowType /\ z.at = Width(a \o b) - B
        /\ \A i \in 1 .. Columns :
             z.cells[i] = IF i < Width(a \o b) - B THEN Laid(a \o b)[i]
                          ELSE IF i = Width(a \o b) - B THEN Cut(Laid(a \o b)[i]) ELSE Space
    BY <1>1, <1>4, <2>1, RubCells
  <2> QED BY <1>4, <2>1, <2>2
<1>7. /\ q \in RowType /\ q.at = A
      /\ \A i \in 1 .. Columns :
           q.cells[i] = IF i <= A THEN Laid(a)[i] ELSE IF i <= A + 0 THEN Laid(e)[i - A] ELSE Space
  <2>1. Width(a) + Width(e) <= Columns
    BY <1>1, <1>2, <1>3
  <2> QED BY <1>1, <1>3, <2>1, ShowingCells
<1>8. ASSUME NEW i \in 1 .. Columns PROVE z.cells[i] = q.cells[i]
  <2>1. CASE i <= A
    <3>1. Laid(a \o b)[i] = Laid(a)[i]
      BY <1>2, <1>5, <2>1
    <3> QED BY <1>2, <1>6, <1>7, <2>1, <3>1 DEF Cut
  <2>2. CASE i > A
    BY <1>2, <1>6, <1>7, <2>2
  <2> QED BY <1>2, <2>1, <2>2
<1>9. z = q
  BY <1>6, <1>7, <1>8, SameRow
<1> QED BY <1>1, <1>9

-----------------------------------------------------------------------------
\* A prompt takes one column, if there is one.
LEMMA PromptWidth ==
    ASSUME NoAsterisk, NEW p \in Prompts \cup {"none"}
    PROVE  /\ PromptCells(p) \in Seq(Glyph) /\ Laid(PromptCells(p)) = PromptCells(p)
           /\ Width(PromptCells(p)) = Len(PromptCells(p)) /\ Width(PromptCells(p)) \in 0 .. 1
<1>1. CASE p = "none"
  <2>1. PromptCells(p) = << >>
    BY <1>1 DEF PromptCells
  <2> QED BY <2>1, EmptySeq, LaidNothing, WidthNothing
<1>2. CASE p # "none"
  <2>1. p \in Glyph \ Wide
    BY <1>2, Alphabet
  <2>2. PromptCells(p) = Times(1, p)
    <3>1. PromptCells(p) = Append(<< >>, p)
      BY <1>2 DEF PromptCells
    <3>2. Times(0, p) = << >> /\ Times(0 + 1, p) = Append(Times(0, p), p)
      BY TimesOne
    <3> QED BY <3>1, <3>2
  <2>3. Times(1, p) \in Seq(Glyph) /\ Len(Times(1, p)) = 1 /\ Laid(Times(1, p)) = Times(1, p) /\ Width(Times(1, p)) = 1
    BY <2>1, TimesOne, LaidTimes
  <2>4. PICK c : c = Times(1, p)
    OBVIOUS
  <2>5. c \in Seq(Glyph) /\ Len(c) = 1 /\ Laid(c) = c /\ Width(c) = 1 /\ 1 \in 0 .. 1
    BY <2>3, <2>4
  <2> QED BY <2>2, <2>4, <2>5
<1> QED BY <1>1, <1>2

\* The row with a prompt and a line, in two parts at the cursor.
LEMMA ScreenShows ==
    ASSUME NoAsterisk, NEW p \in Prompts \cup {"none"}, NEW x \in Seq(Glyph), NEW y \in Seq(Glyph)
    PROVE  Screen(p, x \o y, Len(x)) = Showing(PromptCells(p) \o x, y)
<1>1. PICK c, l : c = PromptCells(p) /\ l = x \o y
  OBVIOUS
<1>2. /\ c \in Seq(Glyph) /\ l \in Seq(Glyph) /\ Laid(c) = c /\ Width(c) = Len(c) /\ Width(c) \in Nat
      /\ Len(x) \in Nat /\ Len(y) \in Nat /\ Len(l) = Len(x) + Len(y)
      /\ \A i \in 1 .. Len(x) + Len(y) : l[i] = IF i <= Len(x) THEN x[i] ELSE y[i - Len(x)]
  BY <1>1, PromptWidth, ConcatProperties, LenProperties
<1>3. SubSeq(l, 1, Len(x)) = x
  <2>1. \A i \in 1 .. Len(x) : i \in 1 .. Len(l) /\ l[i] = x[i]
    BY <1>2
  <2>2. \A i \in 1 .. Len(x) : l[i] \in Glyph
    BY <1>2, <2>1, ElementOfSeq
  <2>3. /\ SubSeq(l, 1, Len(x)) \in Seq(Glyph)
        /\ Len(SubSeq(l, 1, Len(x))) = IF 1 <= Len(x) THEN Len(x) - 1 + 1 ELSE 0
        /\ \A i \in 1 .. Len(x) - 1 + 1 : SubSeq(l, 1, Len(x))[i] = l[1 + i - 1]
    BY <1>2, <2>2, SubSeqProperties
  <2>4. Len(SubSeq(l, 1, Len(x))) = Len(x)
    BY <1>2, <2>3
  <2>5. \A i \in 1 .. Len(x) : SubSeq(l, 1, Len(x))[i] = x[i]
    BY <1>2, <2>1, <2>3
  <2> QED BY <2>3, <2>4, <2>5, SeqEqual
<1>4. (c \o x) \o y = c \o l
  BY <1>1, <1>2, ConcatAssociative
<1>5. Laid(c \o l) = c \o Laid(l) /\ Width(c \o x) = Len(c) + Width(x)
  BY <1>2, LaidTwo
<1>6. Len(c \o Laid(l)) = Width(c \o l)
  <2>1. c \o l \in Seq(Glyph)
    BY <1>2, ConcatProperties
  <2> QED BY <1>5, <2>1, LaidCells
<1>7. Screen(p, l, Len(x)) =
        [at |-> Len(c) + Width(x),
         cells |-> (c \o Laid(l)) \o Times(Columns - Len(c \o Laid(l)), Space)]
  BY <1>1, <1>3 DEF Screen
<1>8. Showing(c \o x, y) =
        [at |-> Width(c \o x), cells |-> Laid(c \o l) \o Times(Columns - Width(c \o l), Space)]
  BY <1>4 DEF Showing
<1> QED BY <1>1, <1>5, <1>6, <1>7, <1>8

\* A line of no more than MaxLine glyphs has a place in the row.
LEMMA LineFits ==
    ASSUME NoAsterisk, NEW p \in Prompts \cup {"none"}, NEW s \in Seq(Glyph), Len(s) <= MaxLine
    PROVE  Width(PromptCells(p)) + Width(s) <= Columns
<1>1. Len(s) \in Nat /\ Width(s) \in Nat /\ Width(s) <= 2 * Len(s)
  BY LaidCells, LenProperties
<1>2. Width(PromptCells(p)) \in 0 .. 1 /\ MaxLine \in Nat /\ Columns = 2 * MaxLine + 1
  BY PromptWidth, Alphabet
<1> QED BY <1>1, <1>2

\* What may be written: glyphs and backspaces.
Out == Glyph \cup {BS}

LEMMA OutSeq ==
    /\ \A s \in Seq(Glyph) : s \in Seq(Out)
    /\ \A n \in Nat : Times(n, BS) \in Seq(Out) /\ Times(n, Space) \in Seq(Glyph) /\ Rub(n) \in Seq(Out)
<1>1. Glyph \subseteq Out /\ {BS, Space} \subseteq Out /\ BS \in Out /\ Space \in Glyph
  BY DEF Out, Glyph
<1>2. \A s \in Seq(Glyph) : s \in Seq(Out)
  BY <1>1, SeqMonotonic
<1>3. \A n \in Nat : Rub(n) \in Seq(Out)
  <2> TAKE n \in Nat
  <2>1. Rub(n) \in Seq({BS, Space})
    BY RubOne
  <2> QED BY <1>1, <2>1, SeqMonotonic
<1>4. \A n \in Nat : Times(n, BS) \in Seq(Out) /\ Times(n, Space) \in Seq(Glyph)
  BY <1>1, TimesOne
<1> QED BY <1>2, <1>3, <1>4

\* A glyph put in: it and what follows it are printed, and the cursor goes
\* back over what follows.
LEMMA ShowInsert ==
    ASSUME NoAsterisk, NEW a \in Seq(Glyph), NEW m \in Seq(Glyph), NEW y \in Seq(Glyph),
           Width(a) + (Width(m) + Width(y)) <= Columns
    PROVE  Feed(Showing(a, y), (m \o y) \o Times(Width(y), BS)) = Showing(a \o m, y)
<1>1. PICK my, e, bs : my = m \o y /\ e = << >> /\ bs = Times(Width(y), BS)
  OBVIOUS
<1>2. my \in Seq(Glyph) /\ Width(my) = Width(m) + Width(y) /\ Width(m) \in Nat /\ Width(y) \in Nat /\ Width(a) \in Nat
  BY <1>1, ConcatProperties, LaidTwo, LaidCells
<1>3. e \in Seq(Glyph) /\ y \o e = y
  BY <1>1, EmptySeq, ConcatEmptySeq
<1>4. Feed(Showing(a, y), my \o bs) = Feed(Feed(Showing(a, y), my), bs)
  <2>1. my \in Seq(Out) /\ bs \in Seq(Out)
    BY <1>1, <1>2, OutSeq
  <2> QED BY <2>1, FeedTwo
<1>5. Feed(Showing(a, y), my) = Showing(a \o my, e)
  <2>1. Width(y) <= Width(my) /\ Width(a) + Width(my) <= Columns
    BY <1>2
  <2> QED BY <1>1, <1>2, <2>1, PrintOver
<1>6. a \o my = (a \o m) \o y /\ a \o m \in Seq(Glyph)
  BY <1>1, ConcatAssociative, ConcatProperties
<1>7. Feed(Showing((a \o m) \o y, e), bs) = Showing(a \o m, y \o e)
  BY <1>1, <1>3, <1>6, BackOver
<1> QED BY <1>1, <1>3, <1>4, <1>5, <1>6, <1>7

\* What is right of the cursor loses its first glyphs: the rest is printed
\* over them, blanks over what has become free, and the cursor goes back.
LEMMA ShowErase ==
    ASSUME NoAsterisk, NEW a \in Seq(Glyph), NEW m \in Seq(Glyph), NEW y \in Seq(Glyph),
           Width(a) + (Width(m) + Width(y)) <= Columns
    PROVE  Feed(Feed(Feed(Showing(a, m \o y), y), Times(Width(m), Space)), Times(Width(y) + Width(m), BS))
             = Showing(a, y)
<1>1. PICK w, sp, ys, my, e : /\ w = Width(m) /\ sp = Times(w, Space) /\ ys = y \o sp /\ my = m \o y
                              /\ e = << >>
  OBVIOUS
<1>2. w \in Nat /\ Width(y) \in Nat /\ Width(a) \in Nat
  BY <1>1, LaidCells
<1>3. sp \in Seq(Glyph) /\ Width(sp) = w
  <2>1. Space \in Glyph \ Wide
    BY Alphabet
  <2> QED BY <1>1, <1>2, <2>1, TimesOne, LaidTimes
<1>4. /\ ys \in Seq(Glyph) /\ my \in Seq(Glyph)
      /\ Width(ys) = Width(y) + w /\ Width(my) = w + Width(y)
  BY <1>1, <1>3, ConcatProperties, LaidTwo
<1>5. e \in Seq(Glyph) /\ ys \o e = ys
  BY <1>1, <1>4, EmptySeq, ConcatEmptySeq
<1>6. Feed(Feed(Showing(a, my), y), sp) = Feed(Showing(a, my), ys)
  BY <1>1, <1>3, FeedTwo
<1>7. Feed(Showing(a, my), ys) = Showing(a \o ys, e)
  <2>1. Width(my) <= Width(ys) /\ Width(a) + Width(ys) <= Columns
    BY <1>1, <1>2, <1>4
  <2> QED BY <1>1, <1>4, <2>1, PrintOver
<1>8. Feed(Showing(a \o ys, e), Times(Width(ys), BS)) = Showing(a, ys \o e)
  BY <1>4, <1>5, BackOver
<1>9. Showing(a, ys) = Showing(a, y)
  <2>1. Width(a) + Width(y) + w <= Columns
    BY <1>1, <1>2
  <2> QED BY <1>1, <1>2, <2>1, BlanksAfter
<1> QED BY <1>1, <1>4, <1>5, <1>6, <1>7, <1>8, <1>9

LEMMA FeedFour ==
    ASSUME NEW a \in Seq(Out), NEW b \in Seq(Out), NEW c \in Seq(Out), NEW d \in Seq(Out), NEW r
    PROVE  Feed(r, ((a \o b) \o c) \o d) = Feed(Feed(Feed(Feed(r, a), b), c), d)
<1>1. PICK ab, abc : ab = a \o b /\ abc = ab \o c
  OBVIOUS
<1>2. ab \in Seq(Out)
  BY <1>1, ConcatProperties
<1>3. abc \in Seq(Out)
  BY <1>1, <1>2, ConcatProperties
<1>4. Feed(r, ab) = Feed(Feed(r, a), b)
  BY <1>1, FeedTwo
<1>5. Feed(r, abc) = Feed(Feed(r, ab), c)
  BY <1>1, <1>2, FeedTwo
<1>6. Feed(r, abc \o d) = Feed(Feed(r, abc), d)
  BY <1>3, FeedTwo
<1> QED BY <1>1, <1>4, <1>5, <1>6

LEMMA Joined ==
    ASSUME NoAsterisk, NEW a \in Seq(Glyph), NEW b \in Seq(Glyph)
    PROVE  /\ a \o b \in Seq(Glyph) /\ Len(a \o b) = Len(a) + Len(b) /\ Width(a \o b) = Width(a) + Width(b)
           /\ Len(a) \in Nat /\ Width(a) \in Nat /\ Len(b) \in Nat /\ Width(b) \in Nat
<1>1. a \o b \in Seq(Glyph) /\ Len(a \o b) = Len(a) + Len(b)
  BY ConcatProperties
<1>2. Width(a \o b) = Width(a) + Width(b)
  BY LaidTwo
<1>3. Len(a) \in Nat /\ Width(a) \in Nat /\ Len(b) \in Nat /\ Width(b) \in Nat
  BY LaidCells, LenProperties
<1> QED BY <1>1, <1>2, <1>3

\* A line l in three parts; what is left of the second, with the prompt; and
\* what is right of the first.
InParts(p, x, m, y, a, l, my) ==
    /\ p \in Prompts \cup {"none"} /\ x \in Seq(Glyph) /\ m \in Seq(Glyph) /\ y \in Seq(Glyph)
    /\ a = PromptCells(p) \o x /\ l = (x \o m) \o y /\ my = m \o y
    /\ Len(x) + Len(m) + Len(y) <= MaxLine

\* The rows it has with the cursor between them.
LEMMA Parts ==
    ASSUME NoAsterisk, NEW p, NEW x, NEW m, NEW y, NEW a, NEW l, NEW my, InParts(p, x, m, y, a, l, my)
    PROVE  /\ a \in Seq(Glyph) /\ a \o m \in Seq(Glyph) /\ x \o m \in Seq(Glyph) /\ my \in Seq(Glyph)
           /\ Width(a) \in Nat /\ Width(m) \in Nat /\ Width(y) \in Nat
           /\ Width(a) + (Width(m) + Width(y)) <= Columns
           /\ Screen(p, l, Len(x) + Len(m)) = Showing(a \o m, y)
           /\ Screen(p, l, Len(x)) = Showing(a, my)
           /\ Screen(p, x \o y, Len(x)) = Showing(a, y)
<1>a. /\ p \in Prompts \cup {"none"} /\ x \in Seq(Glyph) /\ m \in Seq(Glyph) /\ y \in Seq(Glyph)
      /\ a = PromptCells(p) \o x /\ l = (x \o m) \o y /\ my = m \o y
      /\ Len(x) + Len(m) + Len(y) <= MaxLine
  BY DEF InParts
<1>1. PICK c, xm : c = PromptCells(p) /\ xm = x \o m /\ my = m \o y /\ l = xm \o y
  BY <1>a
<1>2. c \in Seq(Glyph)
  BY <1>a, <1>1, PromptWidth
<1>3. /\ xm \in Seq(Glyph) /\ Len(xm) = Len(x) + Len(m) /\ Width(xm) = Width(x) + Width(m)
      /\ Len(x) \in Nat /\ Width(x) \in Nat /\ Len(m) \in Nat /\ Width(m) \in Nat
  BY <1>a, <1>1, Joined
<1>4. my \in Seq(Glyph) /\ Len(y) \in Nat /\ Width(y) \in Nat
  BY <1>a, <1>1, Joined
<1>5. l \in Seq(Glyph) /\ Len(l) = Len(xm) + Len(y) /\ Width(l) = Width(xm) + Width(y)
  <2>1. xm \o y \in Seq(Glyph) /\ Len(xm \o y) = Len(xm) + Len(y) /\ Width(xm \o y) = Width(xm) + Width(y)
    BY <1>a, <1>3, Joined
  <2> QED BY <1>a, <1>1, <2>1
<1>6. l = x \o my
  BY <1>a, <1>1, ConcatAssociative
<1>7. a \in Seq(Glyph) /\ Width(a) = Width(c) + Width(x) /\ Width(c) \in Nat
  BY <1>a, <1>1, <1>2, Joined
<1>8. a \o m = c \o xm
  BY <1>a, <1>1, <1>2, ConcatAssociative
<1>9. a \o m \in Seq(Glyph)
  BY <1>a, <1>7, Joined
<1>10. Width(c) + Width(l) <= Columns
  <2>1. Len(l) <= MaxLine
    BY <1>a, <1>3, <1>5
  <2> QED BY <1>a, <1>1, <1>5, <2>1, LineFits
<1>11. Width(a) \in Nat /\ Width(a) + (Width(m) + Width(y)) <= Columns
  <2>1. PICK A, C, X, M, Y, L, N : /\ A = Width(a) /\ C = Width(c) /\ X = Width(x) /\ M = Width(m)
                                   /\ Y = Width(y) /\ L = Width(l) /\ N = Width(xm)
    OBVIOUS
  <2>2. /\ A = C + X /\ C \in Nat /\ X \in Nat /\ M \in Nat /\ Y \in Nat /\ N = X + M /\ L = N + Y
        /\ C + L <= Columns /\ Columns \in Nat
    BY <1>3, <1>4, <1>5, <1>7, <1>10, <2>1, Alphabet
  <2>3. A \in Nat /\ A + (M + Y) <= Columns
    BY ONLY <2>2
  <2> QED BY <2>1, <2>3
<1>12. Screen(p, l, Len(xm)) = Showing(c \o xm, y)
  <2>1. Screen(p, xm \o y, Len(xm)) = Showing(PromptCells(p) \o xm, y)
    BY <1>a, <1>3, ScreenShows
  <2> QED BY <1>a, <1>1, <2>1
<1>13. Screen(p, l, Len(x)) = Showing(c \o x, my)
  BY <1>a, <1>1, <1>4, <1>6, ScreenShows
<1>14. Screen(p, x \o y, Len(x)) = Showing(c \o x, y)
  BY <1>a, <1>1, ScreenShows
<1> QED BY <1>a, <1>1, <1>3, <1>4, <1>7, <1>8, <1>9, <1>11, <1>12, <1>13, <1>14

\* The echoes of the keys, each against the row of the line it makes.
LEMMA InsertEchoes ==
    ASSUME NoAsterisk, NEW p \in Prompts \cup {"none"}, NEW x \in Seq(Glyph), NEW m \in Seq(Glyph),
           NEW y \in Seq(Glyph), Len(x) + Len(m) + Len(y) <= MaxLine
    PROVE  Feed(Screen(p, x \o y, Len(x)), (m \o y) \o Times(Width(y), BS))
             = Screen(p, (x \o m) \o y, Len(x) + Len(m))
<1>1. PICK a, l, my : a = PromptCells(p) \o x /\ l = (x \o m) \o y /\ my = m \o y
  OBVIOUS
<1>p. InParts(p, x, m, y, a, l, my)
  BY <1>1 DEF InParts
<1>2. /\ a \in Seq(Glyph) /\ Width(a) + (Width(m) + Width(y)) <= Columns
      /\ Screen(p, l, Len(x) + Len(m)) = Showing(a \o m, y)
      /\ Screen(p, x \o y, Len(x)) = Showing(a, y)
  BY <1>p, Parts
<1>3. Feed(Showing(a, y), (m \o y) \o Times(Width(y), BS)) = Showing(a \o m, y)
  BY <1>2, ShowInsert
<1> QED BY <1>1, <1>2, <1>3

\* Several glyphs taken out, with the cursor after them or before them.
\* The cursor is at one end of what is taken out, `back` columns after it.
InErase(p, x, m, y, k, back) ==
    /\ p \in Prompts \cup {"none"} /\ x \in Seq(Glyph) /\ m \in Seq(Glyph) /\ y \in Seq(Glyph)
    /\ Len(x) + Len(m) + Len(y) <= MaxLine
    /\ \/ k = Len(x) + Len(m) /\ back = Width(m)
       \/ k = Len(x) /\ back = 0

LEMMA EraseEchoes ==
    ASSUME NoAsterisk, NEW p, NEW x, NEW m, NEW y, NEW k, NEW back, InErase(p, x, m, y, k, back)
    PROVE  Feed(Screen(p, (x \o m) \o y, k),
                ((Times(back, BS) \o y) \o Times(Width(m), Space)) \o Times(Width(y) + Width(m), BS))
             = Screen(p, x \o y, Len(x))
<1>0. /\ p \in Prompts \cup {"none"} /\ x \in Seq(Glyph) /\ m \in Seq(Glyph) /\ y \in Seq(Glyph)
      /\ Len(x) + Len(m) + Len(y) <= MaxLine
      /\ \/ k = Len(x) + Len(m) /\ back = Width(m)
         \/ k = Len(x) /\ back = 0
  BY DEF InErase
<1>1. PICK a, l, my : a = PromptCells(p) \o x /\ l = (x \o m) \o y /\ my = m \o y
  OBVIOUS
<1>p. InParts(p, x, m, y, a, l, my)
  BY <1>0, <1>1 DEF InParts
<1>2. /\ a \in Seq(Glyph) /\ Width(m) \in Nat /\ Width(y) \in Nat
      /\ Width(a) + (Width(m) + Width(y)) <= Columns
      /\ Screen(p, l, Len(x) + Len(m)) = Showing(a \o m, y)
      /\ Screen(p, l, Len(x)) = Showing(a, my)
      /\ Screen(p, x \o y, Len(x)) = Showing(a, y)
  BY <1>p, Parts
<1>3. PICK bs, sp, more : bs = Times(back, BS) /\ sp = Times(Width(m), Space) /\ more = Times(Width(y) + Width(m), BS)
  OBVIOUS
<1>4. Feed(Screen(p, l, k), bs) = Showing(a, my)
  <2>1. CASE k = Len(x) + Len(m) /\ back = Width(m)
    <3>1. Feed(Showing(a \o m, y), Times(Width(m), BS)) = Showing(a, my)
      BY <1>0, <1>1, <1>2, BackOver
    <3> QED BY <1>2, <1>3, <2>1, <3>1
  <2>2. CASE k = Len(x) /\ back = 0
    <3>1. bs = << >>
      BY <1>3, <2>2, TimesOne
    <3> QED BY <1>2, <2>2, <3>1, FeedNothing
  <2> QED BY <1>0, <2>1, <2>2
<1>5. bs \in Seq(Out) /\ y \in Seq(Out) /\ sp \in Seq(Out) /\ more \in Seq(Out)
  <2>1. back \in Nat /\ Width(y) + Width(m) \in Nat
    BY <1>0, <1>2
  <2> QED BY <1>0, <1>2, <1>3, <2>1, OutSeq
<1>6. Feed(Screen(p, l, k), ((bs \o y) \o sp) \o more)
         = Feed(Feed(Feed(Feed(Screen(p, l, k), bs), y), sp), more)
  BY <1>5, FeedFour
<1>7. Feed(Feed(Feed(Showing(a, my), y), sp), more) = Showing(a, y)
  BY <1>0, <1>1, <1>2, <1>3, ShowErase
<1> QED BY <1>1, <1>2, <1>3, <1>4, <1>6, <1>7

\* The cursor taken over several glyphs, to the left and to the right.
LEMMA MoveEchoes ==
    ASSUME NoAsterisk, NEW p \in Prompts \cup {"none"}, NEW x \in Seq(Glyph), NEW m \in Seq(Glyph),
           NEW y \in Seq(Glyph), Len(x) + Len(m) + Len(y) <= MaxLine
    PROVE  /\ Feed(Screen(p, (x \o m) \o y, Len(x) + Len(m)), Times(Width(m), BS))
                = Screen(p, (x \o m) \o y, Len(x))
           /\ Feed(Screen(p, (x \o m) \o y, Len(x)), m) = Screen(p, (x \o m) \o y, Len(x) + Len(m))
<1>1. PICK a, l, my : a = PromptCells(p) \o x /\ l = (x \o m) \o y /\ my = m \o y
  OBVIOUS
<1>p. InParts(p, x, m, y, a, l, my)
  BY <1>1 DEF InParts
<1>2. /\ a \in Seq(Glyph) /\ Width(a) \in Nat /\ Width(m) \in Nat /\ Width(y) \in Nat
      /\ Width(a) + (Width(m) + Width(y)) <= Columns
      /\ Screen(p, l, Len(x) + Len(m)) = Showing(a \o m, y)
      /\ Screen(p, l, Len(x)) = Showing(a, my)
  BY <1>p, Parts
<1>3. Feed(Showing(a \o m, y), Times(Width(m), BS)) = Showing(a, my)
  BY <1>1, <1>2, BackOver
<1>4. Feed(Showing(a, my), m) = Showing(a \o m, y)
  <2>1. Width(a) + Width(m) + Width(y) <= Columns
    BY <1>2
  <2> QED BY <1>1, <1>2, <2>1, PrintAgain
<1> QED BY <1>1, <1>2, <1>3, <1>4

\* Another line in the place of this one.
InReplace(p, x, y, z, w) ==
    /\ p \in Prompts \cup {"none"} /\ x \in Seq(Glyph) /\ y \in Seq(Glyph) /\ z \in Seq(Glyph)
    /\ Len(x) + Len(y) <= MaxLine /\ Len(z) <= MaxLine /\ w = Width(x \o y)

LEMMA ReplaceEchoes ==
    ASSUME NoAsterisk, NEW p, NEW x, NEW y, NEW z, NEW w, InReplace(p, x, y, z, w)
    PROVE  Feed(Screen(p, x \o y, Len(x)),
                ((Times(Width(x), BS) \o Times(w, Space)) \o Times(w, BS)) \o z)
             = Screen(p, z, Len(z))
<1>0. /\ p \in Prompts \cup {"none"} /\ x \in Seq(Glyph) /\ y \in Seq(Glyph) /\ z \in Seq(Glyph)
      /\ Len(x) + Len(y) <= MaxLine /\ Len(z) <= MaxLine /\ w = Width(x \o y)
  BY DEF InReplace
<1> USE <1>0
<1>1. PICK c, l, e, b1, sp, b2 : /\ c = PromptCells(p) /\ l = x \o y /\ e = << >> /\ b1 = Times(Width(x), BS)
                                 /\ sp = Times(w, Space) /\ b2 = Times(w, BS)
  OBVIOUS
<1>2. c \in Seq(Glyph) /\ e \in Seq(Glyph) /\ Width(e) = 0
  BY <1>1, PromptWidth, EmptySeq, WidthNothing
<1>3. l \in Seq(Glyph) /\ Len(l) = Len(x) + Len(y) /\ w = Width(l) /\ Width(x) \in Nat
  BY <1>1, Joined
<1>4. w \in Nat /\ Width(c) \in Nat /\ Width(z) \in Nat
  BY <1>2, <1>3, LaidCells
<1>5. Width(c) + w <= Columns
  BY <1>1, <1>3, LineFits
<1>6. Width(c) + Width(z) <= Columns
  BY <1>1, LineFits
<1>7. Feed(Screen(p, l, Len(x)), b1) = Showing(c, l)
  <2>1. Screen(p, l, Len(x)) = Showing(c \o x, y)
    BY <1>1, ScreenShows
  <2>2. Feed(Showing(c \o x, y), b1) = Showing(c, l)
    BY <1>1, <1>2, BackOver
  <2> QED BY <2>1, <2>2
<1>8. sp \in Seq(Glyph) /\ Width(sp) = w
  <2>1. Space \in Glyph \ Wide
    BY Alphabet
  <2> QED BY <1>1, <1>4, <2>1, TimesOne, LaidTimes
<1>9. sp \o e = sp /\ e \o sp = sp /\ z \o e = z
  BY <1>1, <1>8, ConcatEmptySeq
<1>10. Feed(Showing(c, l), sp) = Showing(c \o sp, e)
  <2>1. Width(l) <= Width(sp) /\ Width(c) + Width(sp) <= Columns
    BY <1>3, <1>4, <1>5, <1>8
  <2>2. Feed(Showing(c, l), sp) = Showing(c \o sp, << >>)
    BY <1>2, <1>3, <1>8, <2>1, PrintOver
  <2> QED BY <1>1, <2>2
<1>11. Feed(Showing(c \o sp, e), b2) = Showing(c, sp)
  <2>1. Feed(Showing(c \o sp, e), Times(Width(sp), BS)) = Showing(c, sp \o e)
    BY <1>2, <1>8, BackOver
  <2> QED BY <1>1, <1>8, <1>9, <2>1
<1>12. Showing(c, sp) = Showing(c, e)
  <2>1. Width(c) + Width(e) + w <= Columns
    BY <1>2, <1>4, <1>5
  <2>2. Showing(c, e \o Times(w, Space)) = Showing(c, e)
    BY <1>2, <1>4, <2>1, BlanksAfter
  <2> QED BY <1>1, <1>9, <2>2
<1>13. Feed(Showing(c, e), z) = Showing(c \o z, e)
  <2>1. Width(e) <= Width(z)
    BY <1>2, <1>4
  <2>2. Feed(Showing(c, e), z) = Showing(c \o z, << >>)
    BY <1>2, <1>6, <2>1, PrintOver
  <2> QED BY <1>1, <2>2
<1>14. Screen(p, z, Len(z)) = Showing(c \o z, e)
  <2>1. Screen(p, z \o e, Len(z)) = Showing(PromptCells(p) \o z, e)
    BY <1>2, ScreenShows
  <2> QED BY <1>1, <1>9, <2>1
<1>15. Feed(Screen(p, l, Len(x)), ((b1 \o sp) \o b2) \o z)
         = Feed(Feed(Feed(Feed(Screen(p, l, Len(x)), b1), sp), b2), z)
  <2>1. b1 \in Seq(Out) /\ sp \in Seq(Out) /\ b2 \in Seq(Out) /\ z \in Seq(Out)
    BY <1>1, <1>3, <1>4, <1>8, OutSeq
  <2> QED BY <2>1, FeedFour
<1> QED BY <1>1, <1>7, <1>10, <1>11, <1>12, <1>13, <1>14, <1>15

\* The end of the line taken off column by column, and another in its place.
LEMMA ExtendEchoes ==
    ASSUME NoAsterisk, NEW p \in Prompts \cup {"none"}, NEW x \in Seq(Glyph), NEW m \in Seq(Glyph),
           NEW z \in Seq(Glyph), Len(x) + Len(m) <= MaxLine, Len(x) + Len(z) <= MaxLine
    PROVE  Feed(Screen(p, x \o m, Len(x) + Len(m)), Rub(Width(m)) \o z) = Screen(p, x \o z, Len(x) + Len(z))
<1>1. PICK e, a, xm, xz, me, ze : /\ e = << >> /\ a = PromptCells(p) \o x /\ xm = (x \o m) \o e
                                  /\ xz = (x \o z) \o e /\ me = m \o e /\ ze = z \o e
  OBVIOUS
<1>2. e \in Seq(Glyph) /\ Len(e) = 0 /\ Width(e) = 0
  BY <1>1, EmptySeq, WidthNothing
<1>3. Len(x) \in Nat /\ Len(m) \in Nat /\ Len(z) \in Nat
  BY LenProperties
<1>4. /\ a \in Seq(Glyph) /\ Width(a) \in Nat /\ Width(m) \in Nat
      /\ Width(a) + (Width(m) + Width(e)) <= Columns
      /\ Screen(p, xm, Len(x) + Len(m)) = Showing(a \o m, e)
  <2>1. Len(x) + Len(m) + Len(e) <= MaxLine
    BY <1>2, <1>3
  <2>2. InParts(p, x, m, e, a, xm, me)
    BY <1>1, <1>2, <2>1 DEF InParts
  <2> QED BY <2>2, Parts
<1>5. /\ Width(z) \in Nat /\ Width(a) + (Width(z) + Width(e)) <= Columns
      /\ Screen(p, xz, Len(x) + Len(z)) = Showing(a \o z, e)
  <2>1. Len(x) + Len(z) + Len(e) <= MaxLine
    BY <1>2, <1>3
  <2>2. InParts(p, x, z, e, a, xz, ze)
    BY <1>1, <1>2, <2>1 DEF InParts
  <2> QED BY <2>2, Parts
<1>6. xm = x \o m /\ xz = x \o z
  <2>1. x \o m \in Seq(Glyph) /\ x \o z \in Seq(Glyph)
    BY Joined
  <2> QED BY <1>1, <2>1, ConcatEmptySeq
<1>7. Feed(Showing(a \o m, e), Rub(Width(m))) = Showing(a, e)
  <2>1. Width(a) + Width(m) <= Columns
    BY <1>2, <1>4
  <2> QED BY <1>1, <1>4, <2>1, RubOut
<1>8. Feed(Showing(a, e), z) = Showing(a \o z, e)
  <2>1. Width(e) <= Width(z) /\ Width(a) + Width(z) <= Columns
    BY <1>2, <1>4, <1>5
  <2>2. Feed(Showing(a, e), z) = Showing(a \o z, << >>)
    BY <1>2, <1>4, <2>1, PrintOver
  <2> QED BY <1>1, <2>2
<1>9. Feed(Showing(a \o m, e), Rub(Width(m)) \o z) = Feed(Feed(Showing(a \o m, e), Rub(Width(m))), z)
  <2>1. Rub(Width(m)) \in Seq(Out) /\ z \in Seq(Out)
    BY <1>4, OutSeq
  <2> QED BY <2>1, FeedTwo
<1> QED BY <1>4, <1>5, <1>6, <1>7, <1>8, <1>9

-----------------------------------------------------------------------------
\* A sequence is its two parts, or its three.
LEMMA InTwo ==
    ASSUME NEW S, NEW s \in Seq(S), NEW n \in 0 .. Len(s)
    PROVE  /\ SubSeq(s, 1, n) \in Seq(S) /\ SubSeq(s, n + 1, Len(s)) \in Seq(S)
           /\ Len(SubSeq(s, 1, n)) = n /\ Len(SubSeq(s, n + 1, Len(s))) = Len(s) - n
           /\ s = SubSeq(s, 1, n) \o SubSeq(s, n + 1, Len(s))
<1>1. Len(s) \in Nat /\ \A i \in 1 .. Len(s) : s[i] \in S
  BY LenProperties, ElementOfSeq
<1>2. SubSeq(s, 1, n) \in Seq(S) /\ Len(SubSeq(s, 1, n)) = n
  <2>1. \A i \in 1 .. n : s[i] \in S
    BY <1>1
  <2>2. SubSeq(s, 1, n) \in Seq(S) /\ Len(SubSeq(s, 1, n)) = IF 1 <= n THEN n - 1 + 1 ELSE 0
    BY <1>1, <2>1, SubSeqProperties
  <2> QED BY <1>1, <2>2
<1>3. SubSeq(s, n + 1, Len(s)) \in Seq(S) /\ Len(SubSeq(s, n + 1, Len(s))) = Len(s) - n
  <2>1. \A i \in n + 1 .. Len(s) : s[i] \in S
    BY <1>1
  <2>2. /\ SubSeq(s, n + 1, Len(s)) \in Seq(S)
        /\ Len(SubSeq(s, n + 1, Len(s))) = IF n + 1 <= Len(s) THEN Len(s) - (n + 1) + 1 ELSE 0
    BY <1>1, <2>1, SubSeqProperties
  <2> QED BY <1>1, <2>2
<1>4. s = SubSeq(s, 1, n) \o SubSeq(s, n + 1, Len(s))
  <2>1. 1 \in 1 .. Len(s) + 1 /\ n \in 1 - 1 .. Len(s) /\ Len(s) \in n .. Len(s)
    BY <1>1
  <2>2. SubSeq(s, 1, n) \o SubSeq(s, n + 1, Len(s)) = SubSeq(s, 1, Len(s))
    BY <2>1, ConcatAdjacentSubSeq
  <2> QED BY <2>2, SubSeqFull
<1> QED BY <1>2, <1>3, <1>4

Parted(S, s, i, j) ==
    /\ SubSeq(s, 1, i) \in Seq(S) /\ SubSeq(s, i + 1, j) \in Seq(S) /\ SubSeq(s, j + 1, Len(s)) \in Seq(S)
    /\ Len(SubSeq(s, 1, i)) = i /\ Len(SubSeq(s, i + 1, j)) = j - i
    /\ Len(SubSeq(s, j + 1, Len(s))) = Len(s) - j
    /\ s = (SubSeq(s, 1, i) \o SubSeq(s, i + 1, j)) \o SubSeq(s, j + 1, Len(s))

LEMMA InThree ==
    ASSUME NEW S, NEW s \in Seq(S), NEW i \in 0 .. Len(s), NEW j \in i .. Len(s)
    PROVE  Parted(S, s, i, j)
<1>1. Len(s) \in Nat /\ (\A k \in 1 .. Len(s) : s[k] \in S) /\ j \in 0 .. Len(s)
  BY LenProperties, ElementOfSeq
<1>2. SubSeq(s, 1, i) \in Seq(S) /\ Len(SubSeq(s, 1, i)) = i
  BY InTwo
<1>4. /\ SubSeq(s, j + 1, Len(s)) \in Seq(S) /\ Len(SubSeq(s, j + 1, Len(s))) = Len(s) - j
      /\ s = SubSeq(s, 1, j) \o SubSeq(s, j + 1, Len(s))
  BY <1>1, InTwo
<1>5. SubSeq(s, i + 1, j) \in Seq(S) /\ Len(SubSeq(s, i + 1, j)) = j - i
  <2>1. \A k \in i + 1 .. j : s[k] \in S
    BY <1>1
  <2>2. SubSeq(s, i + 1, j) \in Seq(S) /\ Len(SubSeq(s, i + 1, j)) = IF i + 1 <= j THEN j - (i + 1) + 1 ELSE 0
    BY <1>1, <2>1, SubSeqProperties
  <2> QED BY <1>1, <2>2
<1>6. SubSeq(s, 1, i) \o SubSeq(s, i + 1, j) = SubSeq(s, 1, j)
  BY <1>1, ConcatAdjacentSubSeq
<1> QED BY <1>2, <1>4, <1>5, <1>6 DEF Parted

\* Among numbers up to n there is a greatest.
LEMMA Greatest ==
    ASSUME NEW n \in Nat, NEW T \in SUBSET (1 .. n), T # {}
    PROVE  (CHOOSE i \in T : \A j \in T : j <= i) \in T
<1> DEFINE N == {k \in Nat : \A U \in SUBSET (1 .. k) : U # {} => \E i \in U : \A j \in U : j <= i}
<1>1. 0 \in N
  <2>1. 1 .. 0 = {}
    OBVIOUS
  <2> QED BY <2>1
<1>2. ASSUME NEW k \in Nat, k \in N PROVE k + 1 \in N
  <2> SUFFICES ASSUME NEW U \in SUBSET (1 .. k + 1), U # {} PROVE \E i \in U : \A j \in U : j <= i
    OBVIOUS
  <2>1. CASE k + 1 \in U
    <3>1. \A j \in U : j <= k + 1
      OBVIOUS
    <3> QED BY <2>1, <3>1
  <2>2. CASE k + 1 \notin U
    <3>1. U \in SUBSET (1 .. k)
      BY <2>2
    <3> QED BY <1>2, <3>1
  <2> QED BY <2>1, <2>2
<1>3. Nat \subseteq N
  <2> HIDE DEF N
  <2> QED BY <1>1, <1>2, NumbersAll
<1>4. \E i \in T : \A j \in T : j <= i
  BY <1>3
<1> QED BY <1>4

LEMMA LastSpaceIn ==
    ASSUME NEW n \in Nat
    PROVE  LastSpace(n) \in 0 .. n
<1> DEFINE T == {i \in 1 .. n : line[i] = Space}
<1>1. CASE T = {}
  BY <1>1 DEF LastSpace
<1>2. CASE T # {}
  <2>1. LastSpace(n) = CHOOSE i \in T : \A j \in T : j <= i
    BY <1>2 DEF LastSpace
  <2>2. T \in SUBSET (1 .. n)
    OBVIOUS
  <2> HIDE DEF T
  <2>3. LastSpace(n) \in T
    BY <1>2, <2>1, <2>2, Greatest
  <2>4. LastSpace(n) \in 1 .. n
    BY <2>2, <2>3
  <2> QED BY <2>4
<1> QED BY <1>1, <1>2

LEMMA WordStartIn ==
    ASSUME column \in Nat
    PROVE  WordStart \in 0 .. column
<1> DEFINE T == {i \in 1 .. column : line[i] # Space}
<1>1. CASE T = {}
  BY <1>1 DEF WordStart
<1>2. CASE T # {}
  <2>1. PICK k : k = CHOOSE i \in T : \A j \in T : j <= i
    OBVIOUS
  <2>2. WordStart = LastSpace(k)
    BY <1>2, <2>1 DEF WordStart
  <2>3. T \in SUBSET (1 .. column)
    OBVIOUS
  <2> HIDE DEF T
  <2>4. k \in 1 .. column
    BY <1>2, <2>1, <2>3, Greatest
  <2> QED BY <2>2, <2>4, LastSpaceIn
<1> QED BY <1>1, <1>2

-----------------------------------------------------------------------------
\* Right of the cursor there is nothing of a mask.
NoMaskAhead(r) == r \in RowType /\ \A i \in 1 .. Columns : i > r.at => r.cells[i] # "*"

LEMMA LaidIn ==
    ASSUME NoAsterisk, NEW y \in Seq(Narrow \cup Wide)
    PROVE  y \in Seq(Glyph) /\ \A i \in 1 .. Width(y) : Laid(y)[i] # "*"
<1> DEFINE T == Narrow \cup Wide
           H == T \cup {Half}
           P == {s \in Seq(T) : Laid(s) \in Seq(H)}
<1>1. T \subseteq Glyph /\ "*" \notin H
  BY DEF Glyph, NoAsterisk, Half
<1>2. \A s \in Seq(T) : s \in Seq(Glyph)
  BY <1>1, SeqMonotonic
<1>3. << >> \in P
  BY LaidNothing, EmptySeq
<1>4. ASSUME NEW s \in Seq(T), NEW g \in T, s \in P PROVE Append(s, g) \in P
  <2>1. Cells(g) \in Seq(H)
    <3>1. g \in H /\ Half \in H
      OBVIOUS
    <3>2. CASE g \in Wide
      <4>1. <<g, Half>> \in Seq(H)
        <5> HIDE DEF H
        <5> QED BY <3>1
      <4> QED BY <3>2, <4>1 DEF Cells
    <3>3. CASE g \notin Wide
      <4>1. <<g>> \in Seq(H)
        <5> HIDE DEF H
        <5> QED BY <3>1
      <4> QED BY <3>3, <4>1 DEF Cells
    <3> QED BY <3>2, <3>3
  <2>2. Laid(Append(s, g)) = Laid(s) \o Cells(g)
    BY LaidOne
  <2>3. Append(s, g) \in Seq(T) /\ Laid(s) \in Seq(H)
    BY <1>4, AppendProperties
  <2>4. Laid(s) \o Cells(g) \in Seq(H)
    BY <2>1, <2>3, ConcatProperties
  <2> QED BY <2>2, <2>3, <2>4
<1>5. Seq(T) \subseteq P
  <2> HIDE DEF P
  <2> QED BY <1>3, <1>4, SequencesAll
<1>6. y \in Seq(Glyph) /\ Laid(y) \in Seq(H) /\ Len(Laid(y)) = Width(y)
  BY <1>2, <1>5, LaidCells
<1> HIDE DEF H
<1>7. \A i \in 1 .. Width(y) : Laid(y)[i] \in H
  BY <1>6, ElementOfSeq
<1> QED BY <1>1, <1>6, <1>7

LEMMA PlainAhead ==
    ASSUME NoAsterisk, NEW a \in Seq(Glyph), NEW y \in Seq(Narrow \cup Wide), Width(a) + Width(y) <= Columns
    PROVE  NoMaskAhead(Showing(a, y))
<1>1. y \in Seq(Glyph) /\ (\A i \in 1 .. Width(y) : Laid(y)[i] # "*") /\ Width(a) \in Nat /\ Width(y) \in Nat
  BY LaidIn, LaidCells
<1>2. /\ Showing(a, y) \in RowType /\ Showing(a, y).at = Width(a)
      /\ \A i \in 1 .. Columns :
           Showing(a, y).cells[i] = IF i <= Width(a) THEN Laid(a)[i]
                                    ELSE IF i <= Width(a) + Width(y) THEN Laid(y)[i - Width(a)] ELSE Space
  BY <1>1, ShowingCells
<1>3. ASSUME NEW i \in 1 .. Columns, i > Width(a) PROVE Showing(a, y).cells[i] # "*"
  <2>1. CASE i <= Width(a) + Width(y)
    <3>1. i - Width(a) \in 1 .. Width(y) /\ ~(i <= Width(a))
      BY <1>1, <1>3, <2>1
    <3> QED BY <1>1, <1>2, <2>1, <3>1
  <2>2. CASE ~(i <= Width(a) + Width(y))
    <3>1. ~(i <= Width(a)) /\ Space # "*"
      BY <1>1, <1>3 DEF Space
    <3> QED BY <1>2, <2>2, <3>1
  <2> QED BY <2>1, <2>2
<1> QED BY <1>2, <1>3 DEF NoMaskAhead

\* The row of a line typed openly, wherever the cursor is; and of any line
\* with the cursor at its end.
LEMMA OpenAhead ==
    ASSUME NoAsterisk, NEW p \in Prompts \cup {"none"}, NEW s \in Seq(Narrow \cup Wide), Len(s) <= MaxLine,
           NEW n \in 0 .. Len(s)
    PROVE  NoMaskAhead(Screen(p, s, n))
<1>1. PICK x, y, a : x = SubSeq(s, 1, n) /\ y = SubSeq(s, n + 1, Len(s)) /\ a = PromptCells(p) \o x
  OBVIOUS
<1>2. x \in Seq(Narrow \cup Wide) /\ y \in Seq(Narrow \cup Wide) /\ Len(x) = n /\ s = x \o y
  BY <1>1, InTwo
<1>3. x \in Seq(Glyph) /\ y \in Seq(Glyph) /\ s \in Seq(Glyph) /\ PromptCells(p) \in Seq(Glyph)
  BY <1>2, LaidIn, PromptWidth
<1>4. Screen(p, s, n) = Showing(a, y)
  <2>1. Screen(p, x \o y, Len(x)) = Showing(PromptCells(p) \o x, y)
    BY <1>3, ScreenShows
  <2> QED BY <1>1, <1>2, <2>1
<1>5. a \in Seq(Glyph) /\ Width(a) = Width(PromptCells(p)) + Width(x)
  BY <1>1, <1>3, Joined
<1>6. Width(s) = Width(x) + Width(y)
  BY <1>2, <1>3, Joined
<1>7. Width(PromptCells(p)) + Width(s) <= Columns
  BY <1>3, LineFits
<1>8. Width(PromptCells(p)) \in Nat /\ Width(x) \in Nat /\ Width(y) \in Nat
  BY <1>3, LaidCells
<1>9. Width(a) + Width(y) <= Columns
  BY <1>5, <1>6, <1>7, <1>8
<1> QED BY <1>2, <1>4, <1>5, <1>9, PlainAhead

LEMMA EndAhead ==
    ASSUME NoAsterisk, NEW p \in Prompts \cup {"none"}, NEW s \in Seq(Glyph), Len(s) <= MaxLine
    PROVE  NoMaskAhead(Screen(p, s, Len(s)))
<1>1. PICK e, a : e = << >> /\ a = PromptCells(p) \o s
  OBVIOUS
<1>2. e \in Seq(Narrow \cup Wide) /\ e \in Seq(Glyph) /\ Width(e) = 0 /\ s \o e = s
  BY <1>1, EmptySeq, WidthNothing, ConcatEmptySeq
<1>3. Screen(p, s, Len(s)) = Showing(a, e)
  <2>1. Screen(p, s \o e, Len(s)) = Showing(PromptCells(p) \o s, e)
    BY <1>2, ScreenShows
  <2> QED BY <1>1, <1>2, <2>1
<1>4. PromptCells(p) \in Seq(Glyph)
  BY PromptWidth
<1>5. a \in Seq(Glyph) /\ Width(a) = Width(PromptCells(p)) + Width(s) /\ Width(a) \in Nat
  <2>1. a \in Seq(Glyph) /\ Width(a) = Width(PromptCells(p)) + Width(s)
    BY <1>1, <1>4, Joined
  <2> QED BY <2>1, LaidCells
<1>6. Width(a) + Width(e) <= Columns
  <2>1. Width(PromptCells(p)) + Width(s) <= Columns
    BY LineFits
  <2> QED BY <1>2, <1>5, <2>1
<1> QED BY <1>2, <1>3, <1>5, <1>6, PlainAhead

LEMMA BlankAhead ==
    ASSUME NoAsterisk
    PROVE  NoMaskAhead(Blank)
<1>1. Columns \in Nat /\ Space \in Cell /\ Space # "*"
  <2>1. Columns \in Nat /\ Space \in Cell
    BY Alphabet DEF Cell
  <2>2. Space # "*"
    BY DEF Space
  <2> QED BY <2>1, <2>2
<1>2. /\ Times(Columns, Space) \in Seq(Cell) /\ Len(Times(Columns, Space)) = Columns
      /\ \A i \in 1 .. Columns : Times(Columns, Space)[i] = Space
  BY <1>1, TimesOne
<1>3. Blank \in RowType
  BY <1>1, <1>2 DEF Blank, RowType
<1> QED BY <1>1, <1>2, <1>3 DEF NoMaskAhead, Blank

\* A mask has the cursor after it.
LEMMA MaskAtEnd ==
    ASSUME NoAsterisk, NEW p \in Prompts \cup {"none"}, NEW n \in 0 .. MaxLine, NEW k \in 0 .. n,
           NoMaskAhead(Screen(p, Times(n, "*"), k))
    PROVE  k = n
<1> SUFFICES ASSUME k < n PROVE FALSE
  <2>1. n \in Nat
    BY Alphabet
  <2> QED BY <2>1
<1>a. MaxLine \in Nat /\ n \in Nat /\ k \in Nat /\ n - k \in Nat
  BY Alphabet
<1>b. "*" \in Glyph \ Wide
  BY Alphabet
<1>1. PICK x, y, s, a : /\ x = Times(k, "*") /\ y = Times(n - k, "*") /\ s = Times(n, "*")
                        /\ a = PromptCells(p) \o x
  OBVIOUS
<1>2. /\ x \in Seq(Glyph) /\ Len(x) = k /\ Width(x) = k
      /\ \A i \in 1 .. k : x[i] = "*"
  BY <1>a, <1>b, <1>1, TimesOne, LaidTimes
<1>3. /\ y \in Seq(Glyph) /\ Len(y) = n - k /\ Width(y) = n - k /\ Laid(y) = y
      /\ \A i \in 1 .. n - k : y[i] = "*"
  BY <1>a, <1>b, <1>1, TimesOne, LaidTimes
<1>4. /\ s \in Seq(Glyph) /\ Len(s) = n /\ Width(s) = n
      /\ \A i \in 1 .. n : s[i] = "*"
  BY <1>a, <1>b, <1>1, TimesOne, LaidTimes
<1>5. s = x \o y
  <2>0. PICK u, v : u = Len(x) /\ v = Len(y)
    OBVIOUS
  <2>a. /\ x \o y \in Seq(Glyph) /\ Len(x \o y) = u + v
        /\ \A i \in 1 .. u + v : (x \o y)[i] = IF i <= u THEN x[i] ELSE y[i - u]
    BY <1>2, <1>3, <2>0, ConcatProperties
  <2>b. u = k /\ v = n - k
    BY <1>2, <1>3, <2>0
  <2>1. /\ x \o y \in Seq(Glyph) /\ Len(x \o y) = k + (n - k)
        /\ \A i \in 1 .. k + (n - k) : (x \o y)[i] = IF i <= k THEN x[i] ELSE y[i - k]
    BY <2>a, <2>b
  <2>2. ASSUME NEW i \in 1 .. n PROVE (x \o y)[i] = s[i]
    <3>1. i \in 1 .. k + (n - k)
      BY <1>a
    <3>2. CASE i <= k
      BY <1>2, <1>4, <2>1, <3>1, <3>2
    <3>3. CASE ~(i <= k)
      <4>1. i - k \in 1 .. n - k
        BY <1>a, <3>3
      <4> QED BY <1>3, <1>4, <2>1, <3>1, <3>3, <4>1
    <3> QED BY <3>2, <3>3
  <2>3. k + (n - k) = n
    BY <1>a
  <2> QED BY <1>4, <2>1, <2>2, <2>3, SeqEqual
<1>6. Screen(p, s, k) = Showing(a, y)
  <2>1. Screen(p, x \o y, Len(x)) = Showing(PromptCells(p) \o x, y)
    BY <1>2, <1>3, ScreenShows
  <2> QED BY <1>1, <1>2, <1>5, <2>1
<1>7. PICK A, C : A = Width(a) /\ C = Width(PromptCells(p))
  OBVIOUS
<1>8. a \in Seq(Glyph) /\ A = C + k /\ C \in Nat
  <2>1. PromptCells(p) \in Seq(Glyph)
    BY PromptWidth
  <2> QED BY <1>1, <1>2, <1>7, <2>1, Joined
<1>9. C + n <= Columns /\ Columns \in Nat
  <2>1. Len(s) <= MaxLine
    BY <1>a, <1>4
  <2> QED BY <1>4, <1>7, <2>1, LineFits, Alphabet
<1>10. A + (n - k) <= Columns /\ A \in Nat
  BY ONLY <1>a, <1>8, <1>9
<1>11. /\ Showing(a, y).at = A
       /\ \A i \in 1 .. Columns :
            Showing(a, y).cells[i] = IF i <= A THEN Laid(a)[i]
                                     ELSE IF i <= A + (n - k) THEN y[i - A] ELSE Space
  <2>1. Width(a) + Width(y) <= Columns
    BY <1>3, <1>7, <1>10
  <2>2. /\ Showing(a, y).at = Width(a)
        /\ \A i \in 1 .. Columns :
             Showing(a, y).cells[i] = IF i <= Width(a) THEN Laid(a)[i]
                                      ELSE IF i <= Width(a) + Width(y) THEN Laid(y)[i - Width(a)] ELSE Space
    BY <1>3, <1>8, <2>1, ShowingCells
  <2> QED BY <1>3, <1>7, <2>2
<1>12. A + 1 \in 1 .. Columns /\ A + 1 > A /\ ~(A + 1 <= A) /\ A + 1 <= A + (n - k) /\ (A + 1) - A = 1 /\ 1 \in 1 .. n - k
  BY <1>a, <1>9, <1>10
<1>13. Showing(a, y).cells[A + 1] = "*"
  BY <1>3, <1>11, <1>12
<1>14. NoMaskAhead(Showing(a, y))
  BY <1>1, <1>6
<1> QED BY <1>11, <1>12, <1>13, <1>14 DEF NoMaskAhead

-----------------------------------------------------------------------------
\* What holds of the line and of the row, whatever is written to it.
TerminalInv ==
    /\ line \in Seq(Narrow \cup Wide) /\ Len(line) <= MaxLine /\ column \in 0 .. Len(line)
    /\ masked \in BOOLEAN /\ cached \in Prompts \cup {"none"} /\ reader.prompt \in Prompts \cup {"none"}
    /\ row = Garbled \/ NoMaskAhead(row)

\* The line after an edit, with an echo that makes its row of the one before.
RightEdit(does, glyphs, at, echo) ==
    /\ EditAndWrite(does, glyphs, at, echo)
    /\ glyphs \in Seq(Narrow \cup Wide) /\ Len(glyphs) <= MaxLine /\ at \in 0 .. Len(glyphs)
    /\ Feed(Screen(cached, line, column), echo) = Screen(cached, glyphs, at)

LEMMA EditKeeps ==
    ASSUME NoAsterisk, TerminalInv, ~masked,
           NEW does, NEW glyphs, NEW at, NEW echo, RightEdit(does, glyphs, at, echo)
    PROVE  TerminalInv' /\ (InStep => InStep')
<1>1. /\ line' = glyphs /\ column' = at /\ masked' = masked /\ cached' = cached
      /\ reader'.prompt = "none"
      /\ row' = IF InStep THEN Feed(row, echo) ELSE Garbled
  BY DEF RightEdit, EditAndWrite, Reads, OverMask
<1>2. /\ glyphs \in Seq(Narrow \cup Wide) /\ Len(glyphs) <= MaxLine /\ at \in 0 .. Len(glyphs)
      /\ Feed(Screen(cached, line, column), echo) = Screen(cached, glyphs, at)
  BY DEF RightEdit
<1>3. Shown = line /\ Shown' = glyphs
  BY <1>1 DEF Shown
<1>4. ASSUME InStep PROVE row' = Screen(cached, glyphs, at)
  <2>1. row = Screen(cached, line, column)
    BY <1>3, <1>4 DEF InStep
  <2> QED BY <1>1, <1>2, <1>4, <2>1
<1>5. InStep => InStep'
  <2>1. ASSUME InStep PROVE row' = Screen(cached', Shown', column')
    BY <1>1, <1>3, <1>4, <2>1
  <2> QED BY <2>1 DEF InStep
<1>6. row' = Garbled \/ NoMaskAhead(row')
  <2>1. NoMaskAhead(Screen(cached, glyphs, at))
    BY <1>2, OpenAhead DEF TerminalInv
  <2> QED BY <1>1, <1>4, <2>1
<1>7. TerminalInv'
  <2>1. /\ line' \in Seq(Narrow \cup Wide) /\ Len(line') <= MaxLine /\ column' \in 0 .. Len(line')
        /\ masked' \in BOOLEAN /\ cached' \in Prompts \cup {"none"} /\ reader'.prompt \in Prompts \cup {"none"}
    BY <1>1, <1>2 DEF TerminalInv
  <2> QED BY <1>6, <2>1 DEF TerminalInv
<1> QED BY <1>5, <1>7

\* An edit over a mask leaves nothing ahead of the cursor that is relied on.
LEMMA OverMaskKeeps ==
    ASSUME TerminalInv, OverMask, NEW does, NEW glyphs, NEW at, NEW echo,
           EditAndWrite(does, glyphs, at, echo),
           glyphs \in Seq(Narrow \cup Wide), Len(glyphs) <= MaxLine, at \in 0 .. Len(glyphs)
    PROVE  TerminalInv'
<1>1. /\ line' = glyphs /\ column' = at /\ masked' = masked /\ cached' = cached
      /\ reader'.prompt = "none" /\ row' = Garbled
  BY DEF EditAndWrite, Reads
<1> QED BY <1>1 DEF TerminalInv

LEMMA Glyphs ==
    \A s \in Seq(Narrow \cup Wide) : s \in Seq(Glyph)
<1>1. Narrow \cup Wide \subseteq Glyph
  BY DEF Glyph
<1> QED BY <1>1, SeqMonotonic

LEMMA InsertKeeps ==
    ASSUME NoAsterisk, TerminalInv, NEW g \in Narrow \cup Wide, Insert(g)
    PROVE  TerminalInv' /\ (InStep => InStep')
<1> DEFINE T == Narrow \cup Wide
<1>1. PICK x, y, m : x = Before /\ y = After /\ m = <<g>>
  OBVIOUS
<1>2. /\ x \in Seq(T) /\ y \in Seq(T) /\ Len(x) = column /\ Len(y) = Len(line) - column /\ line = x \o y
  BY <1>1, InTwo DEF TerminalInv, Before, After
<1>3. m \in Seq(T) /\ Len(m) = 1
  BY <1>1
<1>4. x \in Seq(Glyph) /\ y \in Seq(Glyph) /\ m \in Seq(Glyph)
  BY <1>2, <1>3, Glyphs
<1>5. Len(line) \in Nat /\ column \in 0 .. Len(line) /\ Len(line) < MaxLine /\ MaxLine \in Nat /\ ~masked
  BY LenProperties, Alphabet DEF TerminalInv, Insert
<1>6. Len(x) + Len(m) + Len(y) <= MaxLine /\ Len(x) + Len(m) = column + 1
  BY <1>2, <1>3, <1>5
<1>7. Feed(Screen(cached, line, column), (m \o y) \o Times(Width(y), BS)) = Screen(cached, (x \o m) \o y, column + 1)
  <2>1. Feed(Screen(cached, x \o y, Len(x)), (m \o y) \o Times(Width(y), BS))
          = Screen(cached, (x \o m) \o y, Len(x) + Len(m))
    BY <1>4, <1>6, InsertEchoes DEF TerminalInv
  <2> QED BY <1>2, <1>6, <2>1
<1>8. (x \o m) \o y \in Seq(T) /\ Len((x \o m) \o y) = Len(line) + 1
  <2>1. x \o m \in Seq(T) /\ Len(x \o m) = Len(x) + Len(m)
    BY <1>2, <1>3, ConcatProperties
  <2>2. (x \o m) \o y \in Seq(T) /\ Len((x \o m) \o y) = Len(x \o m) + Len(y)
    BY <1>2, <2>1, ConcatProperties
  <2>3. Len((x \o m) \o y) = (column + 1) + (Len(line) - column)
    BY <1>2, <1>6, <2>1, <2>2
  <2>4. (column + 1) + (Len(line) - column) = Len(line) + 1
    BY <1>5
  <2> QED BY <2>2, <2>3, <2>4
<1>9. EditAndWrite("ready", (x \o m) \o y, column + 1, (m \o y) \o Times(Width(y), BS))
  BY <1>1 DEF Insert
<1>10. RightEdit("ready", (x \o m) \o y, column + 1, (m \o y) \o Times(Width(y), BS))
  <2>1. Len((x \o m) \o y) <= MaxLine /\ column + 1 \in 0 .. Len((x \o m) \o y)
    BY <1>5, <1>8
  <2> QED BY <1>7, <1>8, <1>9, <2>1 DEF RightEdit
<1> QED BY <1>5, <1>10, EditKeeps

LEMMA EraseKeeps ==
    ASSUME NoAsterisk, TerminalInv, NEW from \in 0 .. Len(line), NEW to \in from .. Len(line),
           column = from \/ column = to, Erase(from, to)
    PROVE  TerminalInv' /\ (InStep => InStep')
<1> DEFINE T == Narrow \cup Wide
<1>1. PICK x, m, y, b : /\ x = SubSeq(line, 1, from) /\ m = SubSeq(line, from + 1, to)
                        /\ y = SubSeq(line, to + 1, Len(line)) /\ b = SubSeq(line, from + 1, column)
  OBVIOUS
<1>2. /\ x \in Seq(T) /\ m \in Seq(T) /\ y \in Seq(T) /\ Len(x) = from /\ Len(m) = to - from
      /\ Len(y) = Len(line) - to /\ line = (x \o m) \o y
  <2>1. line \in Seq(T)
    BY DEF TerminalInv
  <2>2. Parted(T, line, from, to)
    BY <2>1, InThree
  <2> QED BY <1>1, <2>2 DEF Parted
<1>3. x \in Seq(Glyph) /\ y \in Seq(Glyph) /\ m \in Seq(Glyph)
  BY <1>2, Glyphs
<1>4. Len(line) \in Nat /\ Len(line) <= MaxLine /\ MaxLine \in Nat /\ ~masked
  BY LenProperties, Alphabet DEF TerminalInv, Erase
<1>5. Len(x) + Len(m) + Len(y) <= MaxLine
  BY <1>2, <1>4
<1>6. \/ column = Len(x) + Len(m) /\ Width(b) = Width(m)
      \/ column = Len(x) /\ Width(b) = 0
  <2>1. CASE column = to
    <3>1. column = Len(x) + Len(m)
      BY <1>2, <1>4, <2>1
    <3> QED BY <1>1, <2>1, <3>1
  <2>2. CASE column = from
    <3>1. b = << >>
      <4>1. SubSeq(line, from + 1, from) = << >>
        <5>1. from + 1 > from
          BY <1>4
        <5>2. \A i \in from + 1 .. from : line[i] \in T
          BY <1>4
        <5>3. /\ SubSeq(line, from + 1, from) \in Seq(T)
              /\ Len(SubSeq(line, from + 1, from)) = IF from + 1 <= from THEN from - (from + 1) + 1 ELSE 0
          BY <1>4, <5>2, SubSeqProperties
        <5>4. Len(SubSeq(line, from + 1, from)) = 0
          BY <1>4, <5>3
        <5> QED BY <5>3, <5>4, EmptySeq
      <4> QED BY <1>1, <2>2, <4>1
    <3> QED BY <1>2, <2>2, <3>1, WidthNothing
  <2> QED BY <2>1, <2>2
<1>7. PICK back : back = Width(b)
  OBVIOUS
<1>8. Feed(Screen(cached, line, column),
           ((Times(back, BS) \o y) \o Times(Width(m), Space)) \o Times(Width(y) + Width(m), BS))
        = Screen(cached, x \o y, from)
  <2>1. \/ column = Len(x) + Len(m) /\ back = Width(m)
        \/ column = Len(x) /\ back = 0
    BY <1>6, <1>7
  <2>2. Feed(Screen(cached, (x \o m) \o y, column),
             ((Times(back, BS) \o y) \o Times(Width(m), Space)) \o Times(Width(y) + Width(m), BS))
          = Screen(cached, x \o y, Len(x))
    <3>1. cached \in Prompts \cup {"none"}
      BY DEF TerminalInv
    <3>2. InErase(cached, x, m, y, column, back)
      BY <1>3, <1>5, <2>1, <3>1 DEF InErase
    <3> QED BY <3>2, EraseEchoes
  <2> QED BY <1>2, <2>2
<1>9. x \o y \in Seq(T) /\ Len(x \o y) = Len(x) + Len(y)
  BY <1>2, ConcatProperties
<1>10. EditAndWrite("ready", x \o y, from,
                    ((Times(back, BS) \o y) \o Times(Width(m), Space)) \o Times(Width(y) + Width(m), BS))
  BY <1>1, <1>7 DEF Erase, Erased
<1>11. RightEdit("ready", x \o y, from,
                 ((Times(back, BS) \o y) \o Times(Width(m), Space)) \o Times(Width(y) + Width(m), BS))
  <2>1. Len(x \o y) <= MaxLine /\ from \in 0 .. Len(x \o y)
    BY <1>2, <1>4, <1>9
  <2> QED BY <1>8, <1>9, <1>10, <2>1 DEF RightEdit
<1> QED BY <1>4, <1>11, EditKeeps

\* One glyph of a sequence, as a sequence.
LEMMA OneOf ==
    ASSUME NEW S, NEW s \in Seq(S), NEW k \in 1 .. Len(s)
    PROVE  SubSeq(s, k, k) = <<s[k]>>
<1>1. Len(s) \in Nat /\ (\A i \in 1 .. Len(s) : s[i] \in S) /\ k \in Nat /\ s[k] \in S
  BY LenProperties, ElementOfSeq
<1>2. \A i \in k .. k : s[i] \in S
  BY <1>1
<1>3. /\ SubSeq(s, k, k) \in Seq(S) /\ Len(SubSeq(s, k, k)) = IF k <= k THEN k - k + 1 ELSE 0
      /\ \A i \in 1 .. k - k + 1 : SubSeq(s, k, k)[i] = s[k + i - 1]
  BY <1>1, <1>2, SubSeqProperties
<1>4. PICK t : t = SubSeq(s, k, k)
  OBVIOUS
<1>5. t \in Seq(S) /\ Len(t) = 1 /\ t[1] = s[k]
  <2>1. k - k + 1 = 1 /\ k + 1 - 1 = k /\ 1 \in 1 .. k - k + 1
    BY <1>1
  <2> QED BY <1>3, <1>4, <2>1
<1>6. <<s[k]>> \in Seq(S) /\ Len(<<s[k]>>) = 1 /\ <<s[k]>>[1] = s[k]
  BY <1>1
<1>7. t = <<s[k]>>
  <2>1. \A i \in 1 .. Len(t) : t[i] = <<s[k]>>[i]
    BY <1>5, <1>6
  <2> QED BY <1>5, <1>6, <2>1, SeqEqual
<1> QED BY <1>4, <1>7

\* The cursor goes from one end of a part of the line to the other.
InMove(i, j, to, echo) ==
    /\ i \in 0 .. Len(line) /\ j \in i .. Len(line) /\ Move(to, echo)
    /\ \/ column = j /\ to = i /\ echo = Times(Width(SubSeq(line, i + 1, j)), BS)
       \/ column = i /\ to = j /\ echo = SubSeq(line, i + 1, j)

LEMMA MoveKeeps ==
    ASSUME NoAsterisk, TerminalInv, NEW i, NEW j, NEW to, NEW echo, InMove(i, j, to, echo)
    PROVE  TerminalInv' /\ (InStep => InStep')
<1> DEFINE T == Narrow \cup Wide
<1>1. PICK x, m, y : /\ x = SubSeq(line, 1, i) /\ m = SubSeq(line, i + 1, j)
                     /\ y = SubSeq(line, j + 1, Len(line))
  OBVIOUS
<1>2. /\ x \in Seq(T) /\ m \in Seq(T) /\ y \in Seq(T) /\ Len(x) = i /\ Len(m) = j - i
      /\ Len(y) = Len(line) - j /\ line = (x \o m) \o y
  <2>1. line \in Seq(T) /\ i \in 0 .. Len(line) /\ j \in i .. Len(line)
    BY DEF TerminalInv, InMove
  <2>2. Parted(T, line, i, j)
    BY <2>1, InThree
  <2> QED BY <1>1, <2>2 DEF Parted
<1>3. x \in Seq(Glyph) /\ y \in Seq(Glyph) /\ m \in Seq(Glyph)
  BY <1>2, Glyphs
<1>4. /\ Len(line) \in Nat /\ Len(line) <= MaxLine /\ MaxLine \in Nat /\ i \in 0 .. Len(line)
      /\ j \in i .. Len(line) /\ cached \in Prompts \cup {"none"} /\ line \in Seq(T)
  BY LenProperties, Alphabet DEF TerminalInv, InMove
<1>5. Len(x) + Len(m) + Len(y) <= MaxLine /\ Len(x) + Len(m) = j
  BY <1>2, <1>4
<1>6. /\ Feed(Screen(cached, (x \o m) \o y, Len(x) + Len(m)), Times(Width(m), BS))
           = Screen(cached, (x \o m) \o y, Len(x))
      /\ Feed(Screen(cached, (x \o m) \o y, Len(x)), m) = Screen(cached, (x \o m) \o y, Len(x) + Len(m))
  BY <1>3, <1>4, <1>5, MoveEchoes
<1>7. Feed(Screen(cached, line, j), Times(Width(m), BS)) = Screen(cached, line, i)
  BY <1>2, <1>5, <1>6
<1>8. Feed(Screen(cached, line, i), m) = Screen(cached, line, j)
  BY <1>2, <1>5, <1>6
<1>9. Feed(Screen(cached, line, column), echo) = Screen(cached, line, to) /\ to \in 0 .. Len(line)
  <2>1. CASE column = j /\ to = i /\ echo = Times(Width(SubSeq(line, i + 1, j)), BS)
    BY <1>1, <1>4, <1>7, <2>1
  <2>2. CASE column = i /\ to = j /\ echo = SubSeq(line, i + 1, j)
    <3>1. j \in 0 .. Len(line)
      BY <1>4
    <3> QED BY <1>1, <1>8, <2>2, <3>1
  <2> QED BY <2>1, <2>2 DEF InMove
<1>10. ~masked /\ EditAndWrite("ready", line, to, echo)
  BY DEF InMove, Move
<1>11. RightEdit("ready", line, to, echo)
  BY <1>4, <1>9, <1>10 DEF RightEdit
<1> QED BY <1>10, <1>11, EditKeeps

LEMMA MovesKeep ==
    ASSUME NoAsterisk, TerminalInv, MoveLeft \/ MoveRight \/ MoveHome \/ MoveEnd
    PROVE  TerminalInv' /\ (InStep => InStep')
<1>1. Len(line) \in Nat /\ column \in 0 .. Len(line) /\ line \in Seq(Narrow \cup Wide)
  BY LenProperties DEF TerminalInv
<1>2. CASE MoveLeft
  <2>1. PICK echo : echo = Times(Width(<<line[column]>>), BS)
    OBVIOUS
  <2>2. column > 0 /\ Move(column - 1, echo)
    BY <1>2, <2>1 DEF MoveLeft
  <2>3. SubSeq(line, (column - 1) + 1, column) = <<line[column]>>
    <3>1. column \in 1 .. Len(line) /\ (column - 1) + 1 = column
      BY <1>1, <2>2
    <3> QED BY <1>1, <3>1, OneOf
  <2>4. column - 1 \in 0 .. Len(line) /\ column \in column - 1 .. Len(line)
    BY <1>1, <2>2
  <2>5. InMove(column - 1, column, column - 1, echo)
    BY <2>1, <2>2, <2>3, <2>4 DEF InMove
  <2> QED BY <2>5, MoveKeeps
<1>3. CASE MoveRight
  <2>1. PICK echo : echo = <<line[column + 1]>>
    OBVIOUS
  <2>2. column < Len(line) /\ Move(column + 1, echo)
    BY <1>3, <2>1 DEF MoveRight
  <2>3. SubSeq(line, column + 1, column + 1) = <<line[column + 1]>>
    <3>1. column + 1 \in 1 .. Len(line)
      BY <1>1, <2>2
    <3> QED BY <1>1, <3>1, OneOf
  <2>4. column \in 0 .. Len(line) /\ column + 1 \in column .. Len(line)
    BY <1>1, <2>2
  <2>5. InMove(column, column + 1, column + 1, echo)
    BY <2>1, <2>2, <2>3, <2>4 DEF InMove
  <2> QED BY <2>5, MoveKeeps
<1>4. CASE MoveHome
  <2>1. PICK echo : echo = Times(Width(Before), BS)
    OBVIOUS
  <2>2. Move(0, echo)
    BY <1>4, <2>1 DEF MoveHome
  <2>3. SubSeq(line, 0 + 1, column) = Before
    BY DEF Before
  <2>4. 0 \in 0 .. Len(line) /\ column \in 0 .. Len(line)
    BY <1>1
  <2>5. InMove(0, column, 0, echo)
    BY <2>1, <2>2, <2>3, <2>4 DEF InMove
  <2> QED BY <2>5, MoveKeeps
<1>5. CASE MoveEnd
  <2>1. PICK echo : echo = After
    OBVIOUS
  <2>2. Move(Len(line), echo)
    BY <1>5, <2>1 DEF MoveEnd
  <2>3. SubSeq(line, column + 1, Len(line)) = After
    BY DEF After
  <2>4. column \in 0 .. Len(line) /\ Len(line) \in column .. Len(line)
    BY <1>1
  <2>5. InMove(column, Len(line), Len(line), echo)
    BY <2>1, <2>2, <2>3, <2>4 DEF InMove
  <2> QED BY <2>5, MoveKeeps
<1> QED BY <1>2, <1>3, <1>4, <1>5

LEMMA HistoryKeeps ==
    ASSUME NoAsterisk, TerminalInv, NEW z \in Remembered, HistoryStep(z)
    PROVE  TerminalInv' /\ (InStep => InStep' \/ OverMask)
<1> DEFINE T == Narrow \cup Wide
<1>1. PICK x, y, w : x = Before /\ y = After /\ w = Width(line)
  OBVIOUS
<1>2. /\ x \in Seq(T) /\ y \in Seq(T) /\ Len(x) = column /\ Len(y) = Len(line) - column /\ line = x \o y
  BY <1>1, InTwo DEF TerminalInv, Before, After
<1>3. z \in Seq(T) /\ Len(z) <= MaxLine /\ Len(z) \in Nat
  BY TerminalAssumption, LenProperties
<1>4. x \in Seq(Glyph) /\ y \in Seq(Glyph) /\ z \in Seq(Glyph)
  BY <1>2, <1>3, Glyphs
<1>5. /\ Len(line) \in Nat /\ column \in 0 .. Len(line) /\ Len(line) <= MaxLine /\ MaxLine \in Nat
      /\ cached \in Prompts \cup {"none"}
  BY LenProperties, Alphabet DEF TerminalInv
<1>6. Len(x) + Len(y) <= MaxLine
  BY <1>2, <1>5
<1>7. Feed(Screen(cached, line, column), ((Times(Width(x), BS) \o Times(w, Space)) \o Times(w, BS)) \o z)
        = Screen(cached, z, Len(z))
  <2>1. w = Width(x \o y)
    BY <1>1, <1>2
  <2>2. Feed(Screen(cached, x \o y, Len(x)), ((Times(Width(x), BS) \o Times(w, Space)) \o Times(w, BS)) \o z)
          = Screen(cached, z, Len(z))
    <3>1. InReplace(cached, x, y, z, w)
      BY <1>3, <1>4, <1>5, <1>6, <2>1 DEF InReplace
    <3> QED BY <3>1, ReplaceEchoes
  <2> QED BY <1>2, <2>2
<1>8. EditAndWrite("history", z, Len(z), ((Times(Width(x), BS) \o Times(w, Space)) \o Times(w, BS)) \o z)
  BY <1>1 DEF HistoryStep
<1>9. RightEdit("history", z, Len(z), ((Times(Width(x), BS) \o Times(w, Space)) \o Times(w, BS)) \o z)
  <2>1. Len(z) \in 0 .. Len(z)
    BY <1>3
  <2> QED BY <1>3, <1>7, <1>8, <2>1 DEF RightEdit
<1>10. CASE ~masked
  BY <1>9, <1>10, EditKeeps
<1>11. CASE masked
  <2>1. OverMask
    BY <1>8, <1>11 DEF EditAndWrite, OverMask
  <2>2. Len(z) \in 0 .. Len(z)
    BY <1>3
  <2> QED BY <1>3, <1>8, <2>1, <2>2, OverMaskKeeps
<1> QED BY <1>10, <1>11

LEMMA ExtendKeeps ==
    ASSUME NoAsterisk, TerminalInv, NEW z \in Completions, ExtendBuffer(z)
    PROVE  TerminalInv' /\ (InStep => InStep' \/ OverMask)
<1> DEFINE T == Narrow \cup Wide
<1>1. PICK from : from = LastSpace(Len(line))
  OBVIOUS
<1>2. PICK x, m : x = SubSeq(line, 1, from) /\ m = SubSeq(line, from + 1, Len(line))
  OBVIOUS
<1>3. Len(line) \in Nat /\ from \in 0 .. Len(line)
  BY <1>1, LenProperties, LastSpaceIn DEF TerminalInv
<1>4. x \in Seq(T) /\ m \in Seq(T) /\ Len(x) = from /\ Len(m) = Len(line) - from /\ line = x \o m
  BY <1>2, <1>3, InTwo DEF TerminalInv
<1>5. z \in Seq(T) /\ Len(z) \in Nat
  BY TerminalAssumption, LenProperties
<1>6. x \in Seq(Glyph) /\ m \in Seq(Glyph) /\ z \in Seq(Glyph)
  BY <1>4, <1>5, Glyphs
<1>7. /\ column = Len(line) /\ from + Len(z) <= MaxLine
      /\ EditAndWrite("complete", x \o z, from + Len(z), Rub(Width(m)) \o z)
  BY <1>1, <1>2 DEF ExtendBuffer, Rub
<1>8. Len(line) <= MaxLine /\ MaxLine \in Nat /\ cached \in Prompts \cup {"none"}
  BY Alphabet DEF TerminalInv
<1>9. Len(x) + Len(m) <= MaxLine /\ Len(x) + Len(z) <= MaxLine /\ column = Len(x) + Len(m)
  BY <1>3, <1>4, <1>7, <1>8
<1>10. Feed(Screen(cached, line, column), Rub(Width(m)) \o z) = Screen(cached, x \o z, from + Len(z))
  <2>1. Feed(Screen(cached, x \o m, Len(x) + Len(m)), Rub(Width(m)) \o z)
          = Screen(cached, x \o z, Len(x) + Len(z))
    BY <1>6, <1>8, <1>9, ExtendEchoes
  <2> QED BY <1>4, <1>9, <2>1
<1>11. x \o z \in Seq(T) /\ Len(x \o z) = from + Len(z)
  BY <1>4, <1>5, ConcatProperties
<1>12. RightEdit("complete", x \o z, from + Len(z), Rub(Width(m)) \o z)
  <2>1. Len(x \o z) <= MaxLine /\ from + Len(z) \in 0 .. Len(x \o z)
    BY <1>3, <1>5, <1>7, <1>11
  <2> QED BY <1>7, <1>10, <1>11, <2>1 DEF RightEdit
<1>13. CASE ~masked
  BY <1>12, <1>13, EditKeeps
<1>14. CASE masked
  <2>1. OverMask
    BY <1>7, <1>14 DEF EditAndWrite, OverMask
  <2> QED BY <1>7, <1>12, <2>1, OverMaskKeeps DEF RightEdit
<1> QED BY <1>13, <1>14

-----------------------------------------------------------------------------
\* A password: the row has as many asterisks as the line has glyphs.
LEMMA ScreenRow ==
    ASSUME NoAsterisk, NEW p \in Prompts \cup {"none"}, NEW n \in 0 .. MaxLine, NEW k \in 0 .. n
    PROVE  Screen(p, Times(n, "*"), k) # Garbled
<1>1. PICK x, c : x = SubSeq(Times(n, "*"), 1, k) /\ c = PromptCells(p)
  OBVIOUS
<1>2. Times(n, "*") \in Seq(Glyph) /\ Len(Times(n, "*")) = n
  BY Alphabet, TimesOne
<1>3. x \in Seq(Glyph)
  <2>1. k \in 0 .. Len(Times(n, "*"))
    BY <1>2
  <2> QED BY <1>1, <1>2, <2>1, InTwo
<1>4. Len(c) \in Nat /\ Width(x) \in Nat
  BY <1>1, <1>3, PromptWidth, LaidCells, LenProperties
<1>5. Screen(p, Times(n, "*"), k).at = Len(c) + Width(x)
  BY <1>1 DEF Screen
<1>6. Len(c) + Width(x) # -1
  BY <1>4
<1>7. Garbled.at = -1
  BY DEF Garbled
<1> QED BY <1>5, <1>6, <1>7

LEMMA MaskMore ==
    ASSUME NoAsterisk, NEW n \in Nat
    PROVE  /\ Times(n, "*") \in Seq(Glyph) /\ Len(Times(n, "*")) = n
           /\ Times(n + 1, "*") = Times(n, "*") \o <<"*">>
<1>1. "*" \in Glyph
  BY Alphabet
<1>2. PICK s, t, m, u : s = Times(n, "*") /\ t = Times(n + 1, "*") /\ m = <<"*">> /\ u = s \o m
  OBVIOUS
<1>3. s \in Seq(Glyph) /\ Len(s) = n /\ \A i \in 1 .. n : s[i] = "*"
  BY <1>1, <1>2, TimesOne
<1>4. t \in Seq(Glyph) /\ Len(t) = n + 1 /\ \A i \in 1 .. n + 1 : t[i] = "*"
  <2>1. PICK k \in Nat : k = n + 1
    OBVIOUS
  <2>2. t = Times(k, "*")
    BY <1>2, <2>1
  <2>3. t \in Seq(Glyph) /\ Len(t) = k /\ \A i \in 1 .. k : t[i] = "*"
    BY <1>1, <2>2, TimesOne
  <2> QED BY <2>1, <2>3
<1>5. m \in Seq(Glyph) /\ Len(m) = 1 /\ m[1] = "*"
  BY <1>1, <1>2
<1>6. u \in Seq(Glyph) /\ Len(u) = n + 1 /\ \A i \in 1 .. n + 1 : u[i] = IF i <= n THEN s[i] ELSE m[i - n]
  BY <1>2, <1>3, <1>5, ConcatProperties
<1>7. \A i \in 1 .. n + 1 : u[i] = t[i]
  BY <1>3, <1>4, <1>5, <1>6
<1>8. u = t
  BY <1>4, <1>6, <1>7, SeqEqual
<1> QED BY <1>2, <1>3, <1>8

\* The row in step with a password has the cursor after the mask.
LEMMA MaskInStep ==
    ASSUME NoAsterisk, TerminalInv, masked, InStep
    PROVE  column = Len(line) /\ row = Screen(cached, Times(Len(line), "*"), Len(line))
<1>1. Len(line) \in 0 .. MaxLine /\ column \in 0 .. Len(line) /\ cached \in Prompts \cup {"none"}
  BY LenProperties, Alphabet DEF TerminalInv
<1>2. row = Screen(cached, Times(Len(line), "*"), column)
  BY DEF InStep, Shown
<1>3. NoMaskAhead(row)
  BY <1>1, <1>2, ScreenRow DEF TerminalInv
<1>4. column = Len(line)
  BY <1>1, <1>2, <1>3, MaskAtEnd
<1> QED BY <1>2, <1>4

\* A line typed behind a mask, with the echo of the asterisk that comes or goes.
MaskEdit(glyphs, echo) ==
    /\ EditAndWrite("ready", glyphs, Len(glyphs), echo)
    /\ glyphs \in Seq(Narrow \cup Wide) /\ Len(glyphs) <= MaxLine
    /\ Feed(Screen(cached, Times(Len(line), "*"), Len(line)), echo)
         = Screen(cached, Times(Len(glyphs), "*"), Len(glyphs))

LEMMA MaskKeeps ==
    ASSUME NoAsterisk, TerminalInv, masked, NEW glyphs, NEW echo, MaskEdit(glyphs, echo)
    PROVE  TerminalInv' /\ (InStep => InStep')
<1>1. PICK n : n = Len(glyphs)
  OBVIOUS
<1>2. /\ line' = glyphs /\ column' = n /\ masked' = masked /\ cached' = cached
      /\ reader'.prompt = "none"
      /\ row' = IF InStep THEN Feed(row, echo) ELSE Garbled
  BY <1>1 DEF MaskEdit, EditAndWrite, Reads, OverMask
<1>3. /\ glyphs \in Seq(Narrow \cup Wide) /\ n <= MaxLine /\ n \in Nat
      /\ Feed(Screen(cached, Times(Len(line), "*"), Len(line)), echo) = Screen(cached, Times(n, "*"), n)
  BY <1>1, LenProperties DEF MaskEdit
<1>4. ASSUME InStep PROVE row' = Screen(cached, Times(n, "*"), n)
  <2>1. row = Screen(cached, Times(Len(line), "*"), Len(line))
    BY <1>4, MaskInStep
  <2> QED BY <1>2, <1>3, <1>4, <2>1
<1>5. InStep => InStep'
  <2>1. Shown' = Times(n, "*")
    BY <1>1, <1>2 DEF Shown
  <2>2. ASSUME InStep PROVE row' = Screen(cached', Shown', column')
    BY <1>2, <1>4, <2>1, <2>2
  <2> QED BY <2>2 DEF InStep
<1>6. row' = Garbled \/ NoMaskAhead(row')
  <2>1. Times(n, "*") \in Seq(Glyph) /\ Len(Times(n, "*")) = n
    BY <1>3, MaskMore
  <2>2. cached \in Prompts \cup {"none"}
    BY DEF TerminalInv
  <2>3. NoMaskAhead(Screen(cached, Times(n, "*"), n))
    BY <1>3, <2>1, <2>2, EndAhead
  <2> QED BY <1>2, <1>4, <2>3
<1>7. TerminalInv'
  <2>1. n \in 0 .. n
    BY <1>3
  <2>2. /\ line' \in Seq(Narrow \cup Wide) /\ Len(line') <= MaxLine /\ column' \in 0 .. Len(line')
        /\ masked' \in BOOLEAN /\ cached' \in Prompts \cup {"none"} /\ reader'.prompt \in Prompts \cup {"none"}
    BY <1>1, <1>2, <1>3, <2>1 DEF TerminalInv
  <2> QED BY <1>6, <2>2 DEF TerminalInv
<1> QED BY <1>5, <1>7

LEMMA MaskedKeeps ==
    ASSUME NoAsterisk, TerminalInv, (\E g \in Narrow \cup Wide : TypeMasked(g)) \/ BackspaceMasked
    PROVE  TerminalInv' /\ (InStep => InStep')
<1> DEFINE T == Narrow \cup Wide
<1>1. /\ line \in Seq(T) /\ Len(line) \in Nat /\ Len(line) <= MaxLine /\ MaxLine \in Nat
      /\ cached \in Prompts \cup {"none"}
  BY LenProperties, Alphabet DEF TerminalInv
<1>2. PICK n, e, m : n = Len(line) /\ e = << >> /\ m = <<"*">>
  OBVIOUS
<1>3. /\ m \in Seq(Glyph) /\ e \in Seq(Glyph) /\ Len(m) = 1 /\ Len(e) = 0 /\ Width(e) = 0 /\ m \o e = m
      /\ Width(m) = 1
  <2>1. "*" \in Glyph /\ "*" \notin Wide
    BY Alphabet
  <2>2. m \in Seq(Glyph) /\ Len(m) = 1 /\ e \in Seq(Glyph) /\ Len(e) = 0
    BY <1>2, <2>1
  <2>3. Width(m) = 1
    <3>1. Append(e, "*") = m /\ Len(Cells("*")) = 1
      BY <1>2, <2>1 DEF Cells
    <3>2. Width(e) = 0
      BY <1>2, WidthNothing
    <3>3. Width(Append(e, "*")) = Width(e) + Len(Cells("*"))
      BY <2>1, <2>2, WidthOne
    <3>4. Width(m) = 0 + 1
      BY <3>1, <3>2, <3>3
    <3> QED BY <3>4
  <2> QED BY <1>2, <2>2, <2>3, WidthNothing, ConcatEmptySeq
<1>4. ASSUME NEW g \in T, TypeMasked(g) PROVE TerminalInv' /\ (InStep => InStep')
  <2>1. PICK x, glyphs : x = Times(n, "*") /\ glyphs = Append(line, g)
    OBVIOUS
  <2>2. masked /\ n < MaxLine /\ EditAndWrite("ready", glyphs, n + 1, m)
    BY <1>2, <1>4, <2>1 DEF TypeMasked
  <2>3. glyphs \in Seq(T) /\ Len(glyphs) = n + 1
    BY <1>1, <1>2, <2>1, AppendProperties
  <2>4. x \in Seq(Glyph) /\ Len(x) = n /\ Times(n + 1, "*") = x \o m
    BY <1>1, <1>2, <2>1, MaskMore
  <2>5. Feed(Screen(cached, x, n), m) = Screen(cached, x \o m, n + 1)
    <3>1. Len(x) + Len(m) + Len(e) <= MaxLine
      BY <1>1, <1>2, <1>3, <2>2, <2>4
    <3>2. Feed(Screen(cached, (x \o m) \o e, Len(x) + 0), m) = Feed(Screen(cached, x \o m, n), m)
      <4>1. x \o m \in Seq(Glyph)
        BY <1>3, <2>4, ConcatProperties
      <4>2. (x \o m) \o e = x \o m /\ Len(x) + 0 = n
        BY <1>1, <1>2, <2>4, <4>1, ConcatEmptySeq
      <4> QED BY <4>2
    <3>3. Feed(Screen(cached, x \o e, Len(x)), (m \o e) \o Times(Width(e), BS))
            = Screen(cached, (x \o m) \o e, Len(x) + Len(m))
      BY <1>1, <1>3, <2>4, <3>1, InsertEchoes
    <3>4. x \o e = x /\ (x \o m) \o e = x \o m
      <4>1. x \o m \in Seq(Glyph)
        BY <1>3, <2>4, ConcatProperties
      <4> QED BY <1>2, <2>4, <4>1, ConcatEmptySeq
    <3>5. (m \o e) \o Times(Width(e), BS) = m
      <4>1. Times(0, BS) = << >>
        BY TimesOne
      <4> QED BY <1>2, <1>3, <4>1
    <3> QED BY <1>3, <2>4, <3>3, <3>4, <3>5
  <2>6. MaskEdit(glyphs, m)
    <3>1. Len(glyphs) <= MaxLine
      BY <1>1, <1>2, <2>2, <2>3
    <3> QED BY <1>2, <2>1, <2>2, <2>3, <2>4, <2>5, <3>1 DEF MaskEdit
  <2> QED BY <2>2, <2>6, MaskKeeps
<1>5. ASSUME BackspaceMasked PROVE TerminalInv' /\ (InStep => InStep')
  <2>1. PICK k : k = n - 1
    OBVIOUS
  <2>2. n > 0 /\ k \in Nat /\ n = k + 1
    <3>1. line # << >>
      BY <1>5 DEF BackspaceMasked
    <3>2. n # 0
      BY <1>1, <1>2, <3>1, EmptySeq
    <3> QED BY <1>1, <1>2, <2>1, <3>2
  <2>3. PICK x, glyphs, echo : x = Times(k, "*") /\ glyphs = SubSeq(line, 1, k) /\ echo = <<BS, Space, BS>>
    OBVIOUS
  <2>4. masked /\ EditAndWrite("ready", glyphs, k, echo)
    BY <1>2, <1>5, <2>1, <2>3 DEF BackspaceMasked
  <2>5. glyphs \in Seq(T) /\ Len(glyphs) = k
    <3>1. k \in 0 .. Len(line)
      BY <1>2, <2>2
    <3> QED BY <1>1, <2>3, <3>1, InTwo
  <2>6. x \in Seq(Glyph) /\ Len(x) = k /\ Times(n, "*") = x \o m
    <3>1. x \in Seq(Glyph) /\ Len(x) = k /\ Times(k + 1, "*") = x \o m
      BY <1>2, <2>2, <2>3, MaskMore
    <3> QED BY <2>2, <3>1
  <2>7. Rub(1) = echo
    <3> DEFINE S == {BS, Space}
    <3>1. PICK r : r = Rub(1)
      OBVIOUS
    <3>2. r \in Seq(S) /\ r = [i \in 1 .. 3 |-> IF i % 3 = 2 THEN Space ELSE BS]
      <4>1. Rub(1) \in Seq(S)
        BY RubOne
      <4>2. Rub(1) = [i \in 1 .. 3 |-> IF i % 3 = 2 THEN Space ELSE BS]
        BY DEF Rub
      <4> QED BY <3>1, <4>1, <4>2
    <3>3. r[1] = BS /\ r[2] = Space /\ r[3] = BS /\ DOMAIN r = 1 .. 3
      BY <3>2
    <3>4. Len(r) = 3
      BY <3>2, <3>3, LenProperties
    <3>5. echo \in Seq(S) /\ Len(echo) = 3 /\ echo[1] = BS /\ echo[2] = Space /\ echo[3] = BS
      BY <2>3
    <3>6. \A i \in 1 .. Len(r) : r[i] = echo[i]
      BY <3>3, <3>4, <3>5
    <3>7. r = echo
      BY <3>2, <3>4, <3>5, <3>6, SeqEqual
    <3> QED BY <3>1, <3>7
  <2>8. Feed(Screen(cached, x \o m, n), echo) = Screen(cached, x, k)
    <3>1. Len(x) + Len(m) <= MaxLine /\ Len(x) + Len(e) <= MaxLine /\ Len(x) + Len(m) = n /\ Len(x) + Len(e) = k
      BY <1>1, <1>2, <1>3, <2>2, <2>6
    <3>2. Feed(Screen(cached, x \o m, Len(x) + Len(m)), Rub(Width(m)) \o e) = Screen(cached, x \o e, Len(x) + Len(e))
      BY <1>1, <1>3, <2>6, <3>1, ExtendEchoes
    <3>3. x \o e = x
      BY <1>2, <2>6, ConcatEmptySeq
    <3>4. Rub(Width(m)) \o e = echo
      <4>1. Rub(1) \in Seq({BS, Space})
        BY RubOne
      <4>2. Rub(1) \o e = Rub(1)
        BY <1>2, <4>1, ConcatEmptySeq
      <4> QED BY <1>3, <2>7, <4>2
    <3> QED BY <3>1, <3>2, <3>3, <3>4
  <2>9. MaskEdit(glyphs, echo)
    <3>1. Len(glyphs) <= MaxLine
      BY <1>1, <1>2, <2>2, <2>5
    <3> QED BY <1>2, <2>3, <2>4, <2>5, <2>6, <2>8, <3>1 DEF MaskEdit
  <2> QED BY <2>4, <2>9, MaskKeeps
<1> QED BY <1>4, <1>5

\* No key of the player breaks the correspondence of row and line, but for an
\* edit over a mask.
LEMMA KeyKeeps ==
    ASSUME NoAsterisk, TerminalInv, Key
    PROVE  TerminalInv' /\ (InStep => InStep' \/ OverMask)
<1>1. Len(line) \in Nat /\ column \in 0 .. Len(line)
  BY LenProperties DEF TerminalInv
<1>2. ASSUME NEW g \in Narrow \cup Wide, Insert(g) PROVE TerminalInv' /\ (InStep => InStep')
  BY <1>2, InsertKeeps
<1>3. CASE Backspace
  <2>1. column > 0 /\ Erase(column - 1, column)
    BY <1>3 DEF Backspace
  <2>2. column - 1 \in 0 .. Len(line) /\ column \in column - 1 .. Len(line)
    BY <1>1, <2>1
  <2> QED BY <2>1, <2>2, EraseKeeps
<1>4. CASE Delete
  <2>1. column < Len(line) /\ Erase(column, column + 1)
    BY <1>4 DEF Delete
  <2>2. column + 1 \in column .. Len(line)
    BY <1>1, <2>1
  <2> QED BY <1>1, <2>1, <2>2, EraseKeeps
<1>5. CASE KillToStart
  <2>1. 0 \in 0 .. Len(line) /\ column \in 0 .. Len(line) /\ Erase(0, column)
    BY <1>1, <1>5 DEF KillToStart
  <2> QED BY <2>1, EraseKeeps
<1>6. CASE KillToEnd
  <2>1. Len(line) \in column .. Len(line) /\ Erase(column, Len(line))
    BY <1>1, <1>6 DEF KillToEnd
  <2> QED BY <1>1, <2>1, EraseKeeps
<1>7. CASE KillPrevWord
  <2>1. WordStart \in 0 .. column
    BY <1>1, WordStartIn
  <2>2. WordStart \in 0 .. Len(line) /\ column \in WordStart .. Len(line) /\ Erase(WordStart, column)
    BY <1>1, <1>7, <2>1 DEF KillPrevWord
  <2> QED BY <2>2, EraseKeeps
<1>8. CASE (\E g \in Narrow \cup Wide : TypeMasked(g)) \/ BackspaceMasked
  BY <1>8, MaskedKeeps
<1>9. CASE MoveLeft \/ MoveRight \/ MoveHome \/ MoveEnd
  BY <1>9, MovesKeep
<1>10. ASSUME NEW glyphs \in Remembered, HistoryStep(glyphs)
       PROVE  TerminalInv' /\ (InStep => InStep' \/ OverMask)
  BY <1>10, HistoryKeeps
<1>11. ASSUME NEW glyphs \in Completions, ExtendBuffer(glyphs)
       PROVE  TerminalInv' /\ (InStep => InStep' \/ OverMask)
  BY <1>11, ExtendKeeps
<1>12. CASE LookUp("history") \/ LookUp("complete") \/ NothingFound
  <2>1. UNCHANGED <<line, column, masked, cached, row>> /\ reader'.prompt = "none"
    BY <1>12 DEF LookUp, NothingFound, Reads
  <2>2. Shown' = Shown
    BY <2>1 DEF Shown
  <2> QED BY <2>1, <2>2 DEF TerminalInv, InStep
<1> QED BY <1>2, <1>3, <1>4, <1>5, <1>6, <1>7, <1>8, <1>9, <1>10, <1>11, <1>12 DEF Key

-----------------------------------------------------------------------------
\* Steps that leave the line and what it is typed behind.
LEMMA RowKeeps ==
    ASSUME TerminalInv, UNCHANGED <<line, column>>, masked' \in BOOLEAN,
           cached' \in Prompts \cup {"none"}, reader'.prompt \in Prompts \cup {"none"},
           row' = Garbled \/ NoMaskAhead(row')
    PROVE  TerminalInv'
BY DEF TerminalInv

LEMMA ShownIn ==
    ASSUME NoAsterisk, TerminalInv
    PROVE  Shown \in Seq(Glyph) /\ Len(Shown) = Len(line) /\ Len(line) \in Nat
<1>1. Len(line) \in Nat /\ line \in Seq(Glyph)
  BY LenProperties, Glyphs DEF TerminalInv
<1>2. CASE masked
  BY <1>1, <1>2, MaskMore DEF Shown
<1>3. CASE ~masked
  BY <1>1, <1>3 DEF Shown
<1> QED BY <1>2, <1>3

LEMMA EmptyScreen ==
    ASSUME NoAsterisk, NEW p \in Prompts \cup {"none"}
    PROVE  NoMaskAhead(Screen(p, << >>, 0))
<1>1. PICK e : e = << >>
  OBVIOUS
<1>2. e \in Seq(Glyph) /\ Len(e) = 0 /\ Len(e) <= MaxLine
  BY <1>1, Alphabet
<1>3. NoMaskAhead(Screen(p, e, Len(e)))
  BY <1>2, EndAhead
<1> QED BY <1>1, <1>2, <1>3

LEMMA PromptIs == PromptOf \in Prompts
BY DEF PromptOf, Prompts

LEMMA TerminalStep ==
    ASSUME NoAsterisk, TerminalInv, [TerminalNext]_terminalVars
    PROVE  TerminalInv'
<1>1. CASE Key
  BY <1>1, KeyKeeps
<1>2. CASE Enter
  <2>1. /\ line' = << >> /\ column' = 0 /\ reader'.prompt = "none"
        /\ UNCHANGED <<masked, row, cached>>
    BY <1>2 DEF Enter, Reads
  <2>2. line' \in Seq(Narrow \cup Wide) /\ Len(line') = 0 /\ Len(line') <= MaxLine /\ column' \in 0 .. Len(line')
    BY <2>1, Alphabet
  <2> QED BY <2>1, <2>2 DEF TerminalInv
<1>3. CASE LineBreak
  <2>1. /\ UNCHANGED <<line, column, masked, cached>> /\ reader'.prompt = "none"
        /\ row' = Blank \/ row' = row
    BY <1>3 DEF LineBreak, Reads
  <2> QED BY <2>1, RowKeeps, BlankAhead DEF TerminalInv
<1>4. CASE Paint
  <2>1. /\ UNCHANGED <<line, column, masked>> /\ reader'.prompt = "none" /\ cached' = reader.prompt
        /\ row' = Screen(cached', line, Len(line))
    BY <1>4 DEF Paint, Reads
  <2>2. cached' \in Prompts \cup {"none"} /\ line \in Seq(Glyph) /\ Len(line) <= MaxLine
    BY <2>1, Glyphs DEF TerminalInv
  <2>3. NoMaskAhead(row')
    <3>1. PICK p \in Prompts \cup {"none"} : p = cached'
      BY <2>2
    <3>2. NoMaskAhead(Screen(p, line, Len(line)))
      BY <2>2, EndAhead
    <3> QED BY <2>1, <3>1, <3>2
  <2> QED BY <2>1, <2>2, <2>3, RowKeeps DEF TerminalInv
<1>5. ASSUME NEW does \in {"enter", "list"}, AskPrompt(does) PROVE TerminalInv'
  <2>1. /\ UNCHANGED <<line, column, masked, row, cached>> /\ reader'.prompt = PromptOf
    BY <1>5 DEF AskPrompt, Reads
  <2> QED BY <2>1, RowKeeps, PromptIs DEF TerminalInv
<1>6. CASE TakeLine \/ QuitPager \/ Finish \/ SetPasswordMode
  <2>1. UNCHANGED <<line, column, row, reader>> /\ (cached' = cached \/ cached' = "none")
        /\ (masked' = masked \/ masked' = ~masked)
    BY <1>6 DEF TakeLine, QuitPager, Finish, SetPasswordMode
  <2> QED BY <2>1, RowKeeps DEF TerminalInv
<1>7. CASE Output \/ PushPager \/ WriteNextPage
  <2>1. UNCHANGED <<line, column, masked, reader>> /\ (cached' = cached \/ cached' = "none") /\ row' = Blank
    BY <1>7 DEF Output, PushPager, WriteNextPage
  <2> QED BY <2>1, RowKeeps, BlankAhead DEF TerminalInv
<1>8. CASE WritePrompt
  <2>1. /\ UNCHANGED <<line, column, masked, reader>> /\ cached' = handler /\ handler \in Prompts
        /\ row' = Screen(handler, << >>, 0) \/ row' = Garbled
    BY <1>8 DEF WritePrompt
  <2>2. NoMaskAhead(Screen(handler, << >>, 0))
    BY <2>1, EmptyScreen
  <2> QED BY <2>1, <2>2, RowKeeps DEF TerminalInv
<1>9. CASE WriteAsync
  <2>1. UNCHANGED <<line, column, masked, reader, cached>> /\ row' = Screen(cached, Shown, Len(line))
    BY <1>9 DEF WriteAsync
  <2>2. cached \in Prompts \cup {"none"} /\ Len(line) <= MaxLine
    BY DEF TerminalInv
  <2>3. NoMaskAhead(Screen(cached, Shown, Len(Shown)))
    BY <2>2, ShownIn, EndAhead
  <2>4. NoMaskAhead(row')
    BY <2>1, <2>3, ShownIn
  <2> QED BY <2>1, <2>4, RowKeeps DEF TerminalInv
<1>10. CASE UNCHANGED terminalVars
  <2>1. UNCHANGED <<line, column, masked, reader, cached, row>>
    BY <1>10 DEF terminalVars
  <2> QED BY <2>1, RowKeeps DEF TerminalInv
<1> QED
  <2>1. TerminalNext => \/ Key \/ Enter \/ LineBreak \/ Paint \/ \E does \in {"enter", "list"} : AskPrompt(does)
                        \/ (TakeLine \/ QuitPager \/ Finish \/ SetPasswordMode)
                        \/ (Output \/ PushPager \/ WriteNextPage) \/ WritePrompt \/ WriteAsync
    BY DEF TerminalNext
  <2> QED BY <1>1, <1>2, <1>3, <1>4, <1>5, <1>6, <1>7, <1>8, <1>9, <1>10, <2>1

LEMMA TerminalStart ==
    ASSUME NoAsterisk, TerminalInit
    PROVE  TerminalInv
<1>1. line = << >> /\ column = 0 /\ masked = FALSE /\ cached = "game" /\ reader.prompt = "none"
  BY DEF TerminalInit
<1>2. line \in Seq(Narrow \cup Wide) /\ Len(line) = 0 /\ Len(line) <= MaxLine /\ column \in 0 .. Len(line)
  BY <1>1, Alphabet
<1>3. "game" \in Prompts \cup {"none"}
  BY DEF Prompts
<1>4. NoMaskAhead(row)
  BY <1>3, EmptyScreen DEF TerminalInit
<1> QED BY <1>1, <1>2, <1>3, <1>4 DEF TerminalInv

\* Whoever writes the row (EditAndWrite, WriteAsync, writeBareEnter,
\* WritePrompt), no cell right of the cursor holds an asterisk, and the cursor
\* of the editor is in its line.
THEOREM TerminalSound ==
    ASSUME NoAsterisk
    PROVE  TerminalSpec => []TerminalInv
<1>1. TerminalInit => TerminalInv
  BY TerminalStart
<1>2. TerminalInv /\ [TerminalNext]_terminalVars => TerminalInv'
  BY TerminalStep
<1> QED BY <1>1, <1>2, PTL DEF TerminalSpec

\* RowFollowsLine: the echo of every key of the editor (lineedit.go, and
\* handleKill, handleMotion, extendBuffer and bufferInputRune of server.go)
\* makes of a row that shows prompt, line and cursor the row that shows them
\* after the key; and so does a message that finds the cursor at the end.  Left
\* out is a step of the ring or a completion that found no password prompt
\* before it took the lock and finds one behind it (handleEscape, handleTab).
THEOREM RowAlwaysFollows ==
    ASSUME NoAsterisk
    PROVE  TerminalSpec => RowFollowsLine
<1>1. TerminalInv /\ [TerminalNext]_terminalVars
        => [InStep /\ (Key \/ (WriteAsync /\ column = Len(line))) => InStep' \/ OverMask]_terminalVars
  <2> SUFFICES ASSUME TerminalInv, [TerminalNext]_terminalVars,
                      InStep, Key \/ (WriteAsync /\ column = Len(line))
               PROVE  InStep' \/ OverMask
    OBVIOUS
  <2>1. CASE Key
    BY <2>1, KeyKeeps
  <2>2. CASE WriteAsync /\ column = Len(line)
    <3>1. /\ UNCHANGED <<line, column, masked, cached>>
          /\ row' = Screen(cached, Shown, Len(line)) /\ column = Len(line)
      BY <2>2 DEF WriteAsync
    <3>2. Shown' = Shown
      BY <3>1 DEF Shown
    <3>3. row' = Screen(cached', Shown', column')
      BY <3>1, <3>2
    <3> QED BY <3>3 DEF InStep
  <2> QED BY <2>1, <2>2
<1> QED BY <1>1, TerminalSound, PTL DEF TerminalSpec, RowFollowsLine
=============================================================================
