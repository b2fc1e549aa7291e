----------------------------- MODULE ShopProofs -----------------------------
(***************************************************************************)
(* Three things the rows of the database keep: the till of the shop        *)
(* balances for any number of buyers and items, any prices and any         *)
(* capacity of the stock line; the world tables survive boots over any     *)
(* authored files and the resets of any number of zones; and what a flow   *)
(* commits is whole, whatever it was resumed from.                         *)
(*                                                                         *)
(* The shop: a verb reads the purse once and writes it once or twice.      *)
(* What makes the books balance is what its snapshot is worth: it is the   *)
(* purse as it is, unless the version has moved (Fresh), and one version   *)
(* past it the purse holds what the verb itself has written (OwnCredit).   *)
(*                                                                         *)
(* The world: what the tables hold fits together and what a pass still has *)
(* to look at is in them (WorldInv), whatever files a boot finds; with one *)
(* pass at a time, a mob that is about to spawn has no instance (LivesInv).*)
(*                                                                         *)
(* Flows: wherever a session or a stored row stands, the answers lead      *)
(* there, and to nothing on the way that is unanswered (Sound).            *)
(***************************************************************************)
EXTENDS Shop, World, Flow, SumTheorems, FiniteSetTheorems, TLAPS

Fresh(c) ==
    /\ job[c].ver <= purse[c].ver
    /\ job[c].ver = purse[c].ver => job[c].coin = purse[c].coin

OwnCredit(c) ==
    /\ job[c].ver + 1 <= purse[c].ver
    /\ job[c].ver + 1 = purse[c].ver => purse[c].coin = job[c].coin + SellPrice

\* What a verb has established by the statement it is at.
Known(c) ==
    /\ pc[c] \in {"select", "update", "create", "debit"} => job[c].coin >= BuyPrice /\ Fresh(c)
    /\ pc[c] = "credit" => Fresh(c)
    /\ pc[c] \in {"delete", "undo"} => OwnCredit(c)
    /\ pc[c] \in {"purse", "credit", "delete", "undo"} => job[c].item \in Items
    /\ pc[c] = "update" => QtyMax > 0 /\ job[c].seen \in 1 .. QtyMax
    /\ pc[c] = "backUpdate" => QtyMax > 0 /\ job[c].seen \in 0 .. QtyMax

Till == SumFunction(Coins) + paid = InitCoin * Cardinality(Chars) + lost + SumFunction(Carried)

ShopInv == ShopTypes /\ (\A c \in Chars : Known(c)) /\ Till

\* Only c's verb and purse change.
OnlyBy(c) == \A d \in Chars \ {c} : pc'[d] = pc[d] /\ job'[d] = job[d] /\ purse'[d] = purse[d]

LEMMA Constants ==
    /\ IsFiniteSet(Chars) /\ QtyMax \in Int /\ QtyMax # 0 /\ BuyPrice \in Nat /\ SellPrice \in Nat
    /\ InitCoin \in Nat /\ MaxFaults \in Nat /\ Cardinality(Chars) \in Nat
    /\ None \notin Items
BY ShopConstants, FS_CardinalityType

LEMMA Typed ==
    ASSUME ShopTypes, NEW c \in Chars
    PROVE  /\ job[c] \in Job /\ job[c].coin \in Nat /\ job[c].ver \in Nat /\ job[c].seen \in Int
           /\ purse[c] \in [coin : Nat, ver : Nat] /\ purse[c].coin \in Nat /\ purse[c].ver \in Nat
           /\ InFlight(c) \in Int
<1>1. job[c] \in Job /\ purse[c] \in [coin : Nat, ver : Nat]
  BY DEF ShopTypes
<1>2. InFlight(c) \in Int
  BY Constants DEF InFlight
<1> QED BY <1>1, <1>2 DEF Job

LEMMA Sums ==
    ASSUME ShopTypes
    PROVE  /\ Coins \in [Chars -> Int] /\ Carried \in [Chars -> Int]
           /\ SumFunction(Coins) \in Int /\ SumFunction(Carried) \in Int
<1>1. Coins \in [Chars -> Int] /\ Carried \in [Chars -> Int]
  BY Typed DEF Coins, Carried
<1> QED BY <1>1, Constants, SumIsInt

\* A step of c moves what c carries and what is in c's purse.
LEMMA HandsMove ==
    ASSUME ShopTypes, ShopTypes', NEW c \in Chars, OnlyBy(c)
    PROVE  /\ SumFunction(Coins)' = SumFunction(Coins) + purse'[c].coin - purse[c].coin
           /\ SumFunction(Carried)' = SumFunction(Carried) + InFlight(c)' - InFlight(c)
           /\ InFlight(c)' \in Int
<1>1. /\ Coins \in [Chars -> Int] /\ Carried \in [Chars -> Int]
      /\ Coins[c] = purse[c].coin /\ Carried[c] = InFlight(c)
  BY Sums DEF Coins, Carried
<1>2. purse'[c].coin \in Int /\ InFlight(c)' \in Int
  <2>1. purse'[c] \in [coin : Nat, ver : Nat]
    BY DEF ShopTypes
  <2>2. InFlight(c)' \in Int
    BY Constants DEF InFlight
  <2> QED BY <2>1, <2>2
<1>3. \A d \in Chars : purse'[d].coin = IF d = c THEN purse'[c].coin ELSE Coins[d]
  BY DEF OnlyBy, Coins
<1>4. \A d \in Chars : InFlight(d)' = IF d = c THEN InFlight(c)' ELSE Carried[d]
  BY DEF OnlyBy, Carried, InFlight
<1>5. Coins' = [Coins EXCEPT ![c] = purse'[c].coin]
  <2>1. Coins' = [d \in Chars |-> purse'[d].coin]
    BY DEF Coins
  <2>2. [Coins EXCEPT ![c] = purse'[c].coin] = [d \in Chars |-> IF d = c THEN purse'[c].coin ELSE Coins[d]]
    BY <1>1
  <2> QED BY <1>3, <2>1, <2>2
<1>6. Carried' = [Carried EXCEPT ![c] = InFlight(c)']
  <2>1. Carried' = [d \in Chars |-> InFlight(d)']
    BY DEF Carried
  <2>2. [Carried EXCEPT ![c] = InFlight(c)'] = [d \in Chars |-> IF d = c THEN InFlight(c)' ELSE Carried[d]]
    BY <1>1
  <2> QED BY <1>4, <2>1, <2>2
<1>7. SumFunction([Coins EXCEPT ![c] = purse'[c].coin]) = SumFunction(Coins) + purse'[c].coin - Coins[c]
  BY <1>1, <1>2, Constants, SumUpdate
<1>8. SumFunction([Carried EXCEPT ![c] = InFlight(c)']) = SumFunction(Carried) + InFlight(c)' - Carried[c]
  BY <1>1, <1>2, Constants, SumUpdate
<1> QED BY <1>1, <1>2, <1>5, <1>6, <1>7, <1>8

LEMMA Addition ==
    \A s, f, k, l, p, x, y, u, w \in Int :
        s + p = k + l + f /\ x + u = w + y => (s + x) + (p + u) = k + (l + w) + (f + y)
OBVIOUS

\* So the till balances when the step's own changes do.
LEMMA StepOf ==
    ASSUME ShopInv, NEW c \in Chars, OnlyBy(c), ShopTypes', Known(c)',
           NEW u \in Int, NEW w \in Int, paid' = paid + u, lost' = lost + w,
           (purse'[c].coin - purse[c].coin) + u = w + (InFlight(c)' - InFlight(c))
    PROVE  ShopInv'
<1>1. ASSUME NEW d \in Chars PROVE Known(d)'
  <2>1. CASE d = c
    BY <2>1
  <2>2. CASE d # c
    <3>1. pc'[d] = pc[d] /\ job'[d] = job[d] /\ purse'[d] = purse[d] /\ Known(d)
      BY <2>2 DEF OnlyBy, ShopInv
    <3> QED BY <3>1 DEF Known, Fresh, OwnCredit
  <2> QED BY <2>1, <2>2
<1> DEFINE s == SumFunction(Coins)
           f == SumFunction(Carried)
           ss == SumFunction(Coins)'
           ff == SumFunction(Carried)'
           k == InitCoin * Cardinality(Chars)
           x == purse'[c].coin - purse[c].coin
           y == InFlight(c)' - InFlight(c)
<1>2. ShopTypes /\ s \in Int /\ f \in Int /\ k \in Int /\ paid \in Int /\ lost \in Int
  BY Sums, Constants DEF ShopInv, ShopTypes
<1>3. purse[c].coin \in Int /\ purse'[c].coin \in Int /\ InFlight(c) \in Int /\ InFlight(c)' \in Int
  <2>1. purse'[c] \in [coin : Nat, ver : Nat]
    BY DEF ShopTypes
  <2> QED BY <1>2, <2>1, Typed, HandsMove
<1>4. x \in Int /\ y \in Int /\ x + u = w + y
  BY <1>3
<1>5. ss = s + x /\ ff = f + y
  BY <1>2, <1>3, HandsMove
<1>6. s + paid = k + lost + f
  BY DEF ShopInv, Till
<1>7. Till' <=> ss + paid' = k + lost' + ff
  BY DEF Till
<1> HIDE DEF s, f, ss, ff, k, x, y
<1>8. ss + paid' = k + lost' + ff
  <2>1. (s + x) + (paid + u) = k + (lost + w) + (f + y)
    BY <1>2, <1>4, <1>6, Addition
  <2> QED BY <1>5, <2>1
<1> QED BY <1>1, <1>7, <1>8 DEF ShopInv

\* The shelf and the items, as far as they have types.
Lines ==
    /\ qty \in (IF QtyMax < 0 THEN {QtyMax} ELSE 0..QtyMax)
    /\ due \in BOOLEAN
    /\ restock \in {"idle", "upsert"}
    /\ loc \in [Items -> Chars \cup {Unborn, Ground, Gone}]
    /\ faults \in Nat

\* A verb that returns.
LEMMA ReturnKeeps ==
    ASSUME ShopInv, NEW c \in Chars, Return(c), Lines', purse' \in [Chars -> [coin : Nat, ver : Nat]],
           \A d \in Chars \ {c} : purse'[d] = purse[d],
           NEW u \in Int, NEW w \in Nat, paid' = paid + u, lost' = lost + w,
           (purse'[c].coin - purse[c].coin) + u = w - InFlight(c)
    PROVE  ShopInv'
<1>1. ShopTypes /\ pc' = [pc EXCEPT ![c] = "idle"] /\ job' = [job EXCEPT ![c] = NoJob]
  BY DEF ShopInv, Return
<1>2. NoJob \in Job
  BY DEF NoJob, Job
<1>3. paid' \in Int /\ lost' \in Nat
  BY <1>1 DEF ShopTypes
<1>4. ShopTypes'
  BY <1>1, <1>2, <1>3 DEF ShopTypes, PC, Lines
<1>5. pc'[c] = "idle" /\ OnlyBy(c)
  BY <1>1 DEF ShopTypes, OnlyBy
<1>6. Known(c)' /\ InFlight(c)' = 0
  BY <1>5 DEF Known, InFlight
<1>7. InFlight(c) \in Int /\ purse[c].coin \in Int /\ purse'[c].coin \in Int /\ w \in Int
  <2>1. purse'[c] \in [coin : Nat, ver : Nat]
    OBVIOUS
  <2> QED BY <1>1, <2>1, Typed
<1>8. (purse'[c].coin - purse[c].coin) + u = w + (InFlight(c)' - InFlight(c))
  BY <1>6, <1>7
<1> QED BY <1>4, <1>5, <1>6, <1>7, <1>8, StepOf

\* A verb that returns having moved nothing.
LEMMA ReturnQuiet ==
    ASSUME ShopInv, NEW c \in Chars, Return(c), Lines', UNCHANGED <<purse, paid, lost>>,
           InFlight(c) = 0
    PROVE  ShopInv'
<1>1. ShopTypes /\ purse' \in [Chars -> [coin : Nat, ver : Nat]] /\ paid \in Int /\ lost \in Nat
  BY DEF ShopInv, ShopTypes
<1>2. purse[c].coin \in Nat
  BY <1>1, Typed
<1>3. /\ paid' = paid + 0 /\ lost' = lost + 0 /\ 0 \in Int /\ 0 \in Nat
      /\ (purse'[c].coin - purse[c].coin) + 0 = 0 - InFlight(c)
  BY <1>1, <1>2
<1>4. \A d \in Chars \ {c} : purse'[d] = purse[d]
  OBVIOUS
<1> QED BY <1>1, <1>3, <1>4, ReturnKeeps

\* A verb that goes on, with its purse as it was or written by itself.
LEMMA GoesOn ==
    ASSUME ShopInv, NEW c \in Chars, NEW l \in PC, NEW j \in Job,
           pc' = [pc EXCEPT ![c] = l], job' = [job EXCEPT ![c] = j],
           Lines', purse' \in [Chars -> [coin : Nat, ver : Nat]],
           \A d \in Chars \ {c} : purse'[d] = purse[d],
           Known(c)',
           NEW u \in Int, paid' = paid + u, UNCHANGED lost,
           (purse'[c].coin - purse[c].coin) + u = InFlight(c)' - InFlight(c)
    PROVE  ShopInv'
<1>1. ShopTypes
  BY DEF ShopInv
<1>3. paid' \in Int /\ lost' \in Nat /\ lost \in Int
  BY <1>1 DEF ShopTypes
<1>4. ShopTypes'
  BY <1>1, <1>3 DEF ShopTypes, Lines
<1>5. OnlyBy(c)
  BY <1>1 DEF ShopTypes, OnlyBy
<1>7. /\ InFlight(c) \in Int /\ InFlight(c)' \in Int
      /\ purse[c].coin \in Int /\ purse'[c].coin \in Int
  <2>1. purse'[c] \in [coin : Nat, ver : Nat]
    OBVIOUS
  <2> QED BY <1>1, <1>4, <1>5, <2>1, Typed, HandsMove
<1>8. lost' = lost + 0 /\ 0 \in Int /\
      (purse'[c].coin - purse[c].coin) + u = 0 + (InFlight(c)' - InFlight(c))
  BY <1>3, <1>7
<1> QED BY <1>4, <1>5, <1>8, StepOf

\* The same when nothing but the verb's own locals moved.
LEMMA GoesOnQuiet ==
    ASSUME ShopInv, NEW c \in Chars, NEW l \in PC, NEW j \in Job,
           pc' = [pc EXCEPT ![c] = l], job' = [job EXCEPT ![c] = j],
           Lines', UNCHANGED <<purse, paid, lost>>, Known(c)',
           InFlight(c)' = InFlight(c)
    PROVE  ShopInv'
<1>1. ShopTypes /\ purse' \in [Chars -> [coin : Nat, ver : Nat]] /\ paid \in Int
  BY DEF ShopInv, ShopTypes
<1>2. purse[c].coin \in Nat /\ InFlight(c) \in Int
  BY <1>1, Typed
<1>3. /\ paid' = paid + 0 /\ 0 \in Int
      /\ (purse'[c].coin - purse[c].coin) + 0 = InFlight(c)' - InFlight(c)
  BY <1>1, <1>2
<1>4. \A d \in Chars \ {c} : purse'[d] = purse[d]
  OBVIOUS
<1> QED BY <1>1, <1>3, <1>4, GoesOn

\* RecordCoin writes one purse, one version on.
LEMMA RecordCoinWrites ==
    ASSUME ShopTypes, NEW c \in Chars, NEW coin \in Nat, NEW v \in Nat, RecordCoin(c, coin, v)
    PROVE  /\ purse' \in [Chars -> [coin : Nat, ver : Nat]]
           /\ purse[c].ver = v /\ purse'[c].coin = coin /\ purse'[c].ver = v + 1
           /\ \A d \in Chars \ {c} : purse'[d] = purse[d]
<1> DEFINE r == [coin |-> coin, ver |-> v + 1]
<1>1. r \in [coin : Nat, ver : Nat] /\ r.coin = coin /\ r.ver = v + 1
  OBVIOUS
<1>2. purse[c].ver = v /\ purse' = [purse EXCEPT ![c] = r]
  BY DEF RecordCoin
<1> HIDE DEF r
<1> QED BY <1>1, <1>2 DEF ShopTypes

-----------------------------------------------------------------------------
\* The verbs of buyers.
LEMMA BuyKeeps ==
    ASSUME ShopInv, NEW c \in Chars,
           \/ BuyStart(c) \/ BuySelect(c) \/ BuyUpdate(c) \/ BuyCreate(c) \/ BuyCreateFails(c)
           \/ BuyDebit(c) \/ BuyDebitRefused(c) \/ BackSelect(c) \/ BackUpdate(c)
    PROVE  ShopInv'
<1> DEFINE j == job[c]
<1>0. /\ ShopTypes /\ Lines /\ Known(c)
      /\ j \in Job /\ j.coin \in Nat /\ j.ver \in Nat /\ j.seen \in Int
      /\ purse[c].coin \in Nat /\ purse[c].ver \in Nat
      /\ paid \in Int /\ lost \in Nat
      /\ purse \in [Chars -> [coin : Nat, ver : Nat]] /\ job \in [Chars -> Job] /\ pc \in [Chars -> PC]
  BY Typed DEF ShopInv, ShopTypes, Lines
<1>a. Fault => faults' \in Nat
  BY <1>0 DEF Fault, Lines
<1>b. job = [job EXCEPT ![c] = j]
  BY <1>0
<1>1. CASE BuyStart(c)
  <2> DEFINE n == [j EXCEPT !.coin = purse[c].coin, !.ver = purse[c].ver]
  <2>1. n \in Job /\ n.coin = purse[c].coin /\ n.ver = purse[c].ver
    BY <1>0 DEF Job
  <2>2. /\ pc[c] = "idle" /\ purse[c].coin >= BuyPrice
        /\ job' = [job EXCEPT ![c].coin = purse[c].coin, ![c].ver = purse[c].ver]
        /\ pc' = [pc EXCEPT ![c] = "select"] /\ UNCHANGED <<shelf, purse, loc, books, faults>>
    BY <1>1 DEF BuyStart
  <2>3. job' = [job EXCEPT ![c] = n]
    BY <1>0, <2>2
  <2>4. Lines' /\ UNCHANGED <<purse, paid, lost>>
    BY <1>0, <2>2 DEF Lines, shelf, books
  <2> HIDE DEF n
  <2>5. pc'[c] = "select" /\ job'[c] = n /\ "select" \in PC
    BY <1>0, <2>2, <2>3 DEF PC
  <2>6. Known(c)' /\ InFlight(c)' = InFlight(c)
    BY <1>0, <2>1, <2>2, <2>5 DEF Known, Fresh, InFlight
  <2> QED BY <2>1, <2>2, <2>3, <2>4, <2>5, <2>6, GoesOnQuiet
<1>2. CASE BuySelect(c)
  <2>1. pc[c] = "select" /\ AdjustSelect(c, -1, "update", "create") /\ Lines'
        /\ UNCHANGED <<purse, paid, lost, qty>> /\ InFlight(c) = 0
    BY <1>0, <1>2 DEF BuySelect, Lines, shelf, books, InFlight
  <2>2. CASE QtyMax < 0
    <3>1. pc' = [pc EXCEPT ![c] = "create"] /\ job' = [job EXCEPT ![c] = j] /\ "create" \in PC
      BY <1>b, <2>1, <2>2 DEF AdjustSelect, Goto, PC
    <3>2. pc'[c] = "create" /\ job'[c] = j
      BY <1>0, <3>1
    <3>3. Known(c)' /\ InFlight(c)' = InFlight(c)
      BY <1>0, <2>1, <3>2 DEF Known, Fresh, InFlight
    <3> QED BY <1>0, <2>1, <3>1, <3>3, GoesOnQuiet
  <2>3. CASE ~(QtyMax < 0) /\ qty + (-1) < 0
    BY <2>1, <2>3, ReturnQuiet DEF AdjustSelect
  <2>4. CASE ~(QtyMax < 0) /\ ~(qty + (-1) < 0)
    <3> DEFINE n == [j EXCEPT !.seen = qty]
    <3>1. qty \in 0 .. QtyMax /\ qty \in Int /\ qty >= 1 /\ QtyMax \in Int
      BY <1>0, <2>4, Constants DEF Lines
    <3>2. n \in Job /\ n.seen = qty /\ n.coin = j.coin /\ n.ver = j.ver
      BY <1>0, <3>1 DEF Job
    <3>3. job' = [job EXCEPT ![c] = n] /\ pc' = [pc EXCEPT ![c] = "update"] /\ "update" \in PC
      BY <1>0, <2>1, <2>4 DEF AdjustSelect, PC
    <3> HIDE DEF n
    <3>4. pc'[c] = "update" /\ job'[c] = n
      BY <1>0, <3>3
    <3>5. Known(c)' /\ InFlight(c)' = InFlight(c)
      BY <1>0, <2>1, <3>1, <3>2, <3>4 DEF Known, Fresh, InFlight
    <3> QED BY <2>1, <3>2, <3>3, <3>5, GoesOnQuiet
  <2> QED BY <2>2, <2>3, <2>4
<1>3. CASE BuyUpdate(c)
  <2>1. /\ pc[c] = "update" /\ qty' = (IF j.seen + (-1) > QtyMax THEN QtyMax ELSE j.seen + (-1))
        /\ pc' = [pc EXCEPT ![c] = "create"] /\ job' = [job EXCEPT ![c] = j] /\ "create" \in PC
        /\ UNCHANGED <<due, restock, purse, loc, paid, lost, faults>>
    BY <1>3, <1>b DEF BuyUpdate, AdjustUpdate, Goto, PC
  <2>2. QtyMax > 0 /\ j.seen \in 1 .. QtyMax /\ QtyMax \in Int
    BY <1>0, <2>1, Constants DEF Known
  <2>3. Lines'
    BY <1>0, <2>1, <2>2 DEF Lines
  <2>4. pc'[c] = "create" /\ job'[c] = j
    BY <1>0, <2>1
  <2>5. Known(c)' /\ InFlight(c)' = InFlight(c)
    BY <1>0, <2>1, <2>4 DEF Known, Fresh, InFlight
  <2> QED BY <1>0, <2>1, <2>3, <2>5, GoesOnQuiet
<1>4. CASE BuyCreate(c)
  <2>1. /\ pc[c] = "create" /\ pc' = [pc EXCEPT ![c] = "debit"] /\ job' = [job EXCEPT ![c] = j]
        /\ "debit" \in PC /\ paid' = paid + BuyPrice /\ BuyPrice \in Int
        /\ UNCHANGED <<qty, due, restock, purse, lost, faults>>
    BY <1>4, <1>b, Constants DEF BuyCreate, Goto, PC, shelf
  <2>a. \E i \in Items : loc' = [loc EXCEPT ![i] = c]
    BY <1>4 DEF BuyCreate
  <2>2. Lines'
    BY <1>0, <2>1, <2>a DEF Lines
  <2>3. pc'[c] = "debit" /\ job'[c] = j
    BY <1>0, <2>1
  <2>4. Known(c)' /\ InFlight(c)' = BuyPrice /\ InFlight(c) = 0
    BY <1>0, <2>1, <2>3 DEF Known, Fresh, InFlight
  <2>5. (purse'[c].coin - purse[c].coin) + BuyPrice = InFlight(c)' - InFlight(c)
    BY <1>0, <2>1, <2>4
  <2>6. /\ purse' \in [Chars -> [coin : Nat, ver : Nat]] /\ \A d \in Chars \ {c} : purse'[d] = purse[d]
        /\ UNCHANGED lost
    BY <1>0, <2>1
  <2> QED BY <1>0, <2>1, <2>2, <2>4, <2>5, <2>6, GoesOn
<1>5. CASE BuyCreateFails(c)
  <2>1. /\ pc[c] = "create" /\ pc' = [pc EXCEPT ![c] = "backSelect"] /\ job' = [job EXCEPT ![c] = j]
        /\ "backSelect" \in PC /\ UNCHANGED <<purse, paid, lost>> /\ Lines'
    BY <1>0, <1>5, <1>a, <1>b DEF BuyCreateFails, Goto, PC, Lines, shelf, books
  <2>2. pc'[c] = "backSelect" /\ job'[c] = j
    BY <1>0, <2>1
  <2>3. Known(c)' /\ InFlight(c)' = InFlight(c)
    BY <1>0, <2>1, <2>2 DEF Known, InFlight
  <2> QED BY <1>0, <2>1, <2>3, GoesOnQuiet
<1>6. CASE BuyDebit(c)
  <2>1. /\ pc[c] = "debit" /\ Return(c) /\ RecordCoin(c, j.coin - BuyPrice, j.ver) /\ Lines'
        /\ UNCHANGED <<paid, lost>>
    BY <1>0, <1>6 DEF BuyDebit, Lines, shelf, books
  <2>2. j.coin - BuyPrice \in Nat /\ InFlight(c) = BuyPrice /\ BuyPrice \in Nat
    BY <1>0, <2>1, Constants DEF Known, InFlight
  <2>3. /\ purse' \in [Chars -> [coin : Nat, ver : Nat]] /\ purse[c].ver = j.ver
        /\ purse'[c].coin = j.coin - BuyPrice /\ \A d \in Chars \ {c} : purse'[d] = purse[d]
    BY <1>0, <2>1, <2>2, RecordCoinWrites
  <2>4. purse[c].coin = j.coin
    BY <1>0, <2>1, <2>3 DEF Known, Fresh
  <2>5. /\ paid' = paid + 0 /\ lost' = lost + 0 /\ 0 \in Int /\ 0 \in Nat
        /\ (purse'[c].coin - purse[c].coin) + 0 = 0 - InFlight(c)
    BY <1>0, <2>1, <2>2, <2>3, <2>4
  <2> QED BY <2>1, <2>3, <2>5, ReturnKeeps
<1>7. CASE BuyDebitRefused(c)
  <2>1. pc[c] = "debit" /\ Return(c) /\ lost' = lost + BuyPrice /\ UNCHANGED <<purse, paid>> /\ Lines'
    BY <1>0, <1>7, <1>a DEF BuyDebitRefused, Lines, shelf
  <2>2. InFlight(c) = BuyPrice /\ BuyPrice \in Nat
    BY <2>1, Constants DEF InFlight
  <2>3. /\ paid' = paid + 0 /\ 0 \in Int /\ (purse'[c].coin - purse[c].coin) + 0 = BuyPrice - InFlight(c)
        /\ purse' \in [Chars -> [coin : Nat, ver : Nat]] /\ \A d \in Chars \ {c} : purse'[d] = purse[d]
    BY <1>0, <2>1, <2>2
  <2> QED BY <2>1, <2>2, <2>3, ReturnKeeps
<1>8. CASE BackSelect(c)
  <2>1. pc[c] = "backSelect" /\ AdjustSelect(c, 1, "backUpdate", "idle") /\ Lines'
        /\ UNCHANGED <<purse, paid, lost, qty>> /\ InFlight(c) = 0
    BY <1>0, <1>8 DEF BackSelect, Lines, shelf, books, InFlight
  <2>2. CASE QtyMax < 0
    <3>1. pc' = [pc EXCEPT ![c] = "idle"] /\ job' = [job EXCEPT ![c] = j] /\ "idle" \in PC
      BY <1>b, <2>1, <2>2 DEF AdjustSelect, Goto, PC
    <3>2. pc'[c] = "idle" /\ job'[c] = j
      BY <1>0, <3>1
    <3>3. Known(c)' /\ InFlight(c)' = InFlight(c)
      BY <2>1, <3>2 DEF Known, InFlight
    <3> QED BY <1>0, <2>1, <3>1, <3>3, GoesOnQuiet
  <2>3. CASE ~(QtyMax < 0) /\ qty + 1 < 0
    BY <2>1, <2>3, ReturnQuiet DEF AdjustSelect
  <2>4. CASE ~(QtyMax < 0) /\ ~(qty + 1 < 0)
    <3> DEFINE n == [j EXCEPT !.seen = qty]
    <3>1. qty \in 0 .. QtyMax /\ qty \in Int /\ QtyMax > 0
      BY <1>0, <2>4, Constants DEF Lines
    <3>2. n \in Job /\ n.seen = qty
      BY <1>0, <3>1 DEF Job
    <3>3. job' = [job EXCEPT ![c] = n] /\ pc' = [pc EXCEPT ![c] = "backUpdate"] /\ "backUpdate" \in PC
      BY <1>0, <2>1, <2>4 DEF AdjustSelect, PC
    <3> HIDE DEF n
    <3>4. pc'[c] = "backUpdate" /\ job'[c] = n
      BY <1>0, <3>3
    <3>5. Known(c)' /\ InFlight(c)' = InFlight(c)
      BY <2>1, <3>1, <3>2, <3>4 DEF Known, InFlight
    <3> QED BY <2>1, <3>2, <3>3, <3>5, GoesOnQuiet
  <2> QED BY <2>2, <2>3, <2>4
<1>9. CASE BackUpdate(c)
  <2>1. /\ pc[c] = "backUpdate" /\ qty' = (IF j.seen + 1 > QtyMax THEN QtyMax ELSE j.seen + 1)
        /\ Return(c) /\ InFlight(c) = 0
        /\ UNCHANGED <<due, restock, purse, loc, paid, lost, faults>>
    BY <1>9 DEF BackUpdate, AdjustUpdate, InFlight
  <2>2. QtyMax > 0 /\ j.seen \in 0 .. QtyMax /\ QtyMax \in Int
    BY <1>0, <2>1, Constants DEF Known
  <2>3. Lines'
    BY <1>0, <2>1, <2>2 DEF Lines
  <2> QED BY <2>1, <2>3, ReturnQuiet
<1> QED BY <1>1, <1>2, <1>3, <1>4, <1>5, <1>6, <1>7, <1>8, <1>9

\* The verbs of sellers.
LEMMA SellKeeps ==
    ASSUME ShopInv, NEW c \in Chars,
           \/ \E i \in Items : SellStart(c, i)
           \/ SellRead(c) \/ SellCredit(c) \/ SellDelete(c) \/ SellDeleteRefused(c)
           \/ SellUndo(c) \/ SellRollbackFailed(c) \/ VerbFails(c)
    PROVE  ShopInv'
<1> DEFINE j == job[c]
<1>0. /\ ShopTypes /\ Lines /\ Known(c)
      /\ j \in Job /\ j.coin \in Nat /\ j.ver \in Nat /\ j.seen \in Int
      /\ purse[c].coin \in Nat /\ purse[c].ver \in Nat
      /\ paid \in Int /\ lost \in Nat
      /\ purse \in [Chars -> [coin : Nat, ver : Nat]] /\ job \in [Chars -> Job] /\ pc \in [Chars -> PC]
  BY Typed DEF ShopInv, ShopTypes, Lines
<1>a. Fault => faults' \in Nat
  BY <1>0 DEF Fault, Lines
<1>b. job = [job EXCEPT ![c] = j]
  BY <1>0
<1>1. ASSUME NEW i \in Items, SellStart(c, i) PROVE ShopInv'
  <2> DEFINE n == [j EXCEPT !.item = i]
  <2>1. n \in Job /\ n.item = i
    BY <1>0 DEF Job
  <2>2. /\ pc[c] = "idle" /\ job' = [job EXCEPT ![c] = n] /\ pc' = [pc EXCEPT ![c] = "purse"]
        /\ "purse" \in PC /\ UNCHANGED <<purse, paid, lost>> /\ Lines'
    BY <1>0, <1>1 DEF SellStart, PC, Lines, shelf, books
  <2> HIDE DEF n
  <2>3. pc'[c] = "purse" /\ job'[c] = n
    BY <1>0, <2>2
  <2>4. Known(c)' /\ InFlight(c)' = InFlight(c)
    BY <2>1, <2>2, <2>3 DEF Known, InFlight
  <2> QED BY <2>1, <2>2, <2>4, GoesOnQuiet
<1>2. CASE SellRead(c)
  <2> DEFINE n == [j EXCEPT !.coin = purse[c].coin, !.ver = purse[c].ver]
  <2>1. n \in Job /\ n.coin = purse[c].coin /\ n.ver = purse[c].ver /\ n.item = j.item
    BY <1>0 DEF Job
  <2>2. /\ pc[c] = "purse" /\ pc' = [pc EXCEPT ![c] = "credit"]
        /\ "credit" \in PC /\ UNCHANGED <<purse, paid, lost>> /\ Lines'
    BY <1>0, <1>2 DEF SellRead, PC, Lines, shelf, books
  <2>3. job' = [job EXCEPT ![c] = n]
    BY <1>0, <1>2 DEF SellRead
  <2> HIDE DEF n
  <2>4. pc'[c] = "credit" /\ job'[c] = n
    BY <1>0, <2>2, <2>3
  <2>5. Known(c)' /\ InFlight(c)' = InFlight(c)
    BY <1>0, <2>1, <2>2, <2>4 DEF Known, Fresh, InFlight
  <2> QED BY <2>1, <2>2, <2>3, <2>5, GoesOnQuiet
<1>3. CASE SellCredit(c)
  <2>1. /\ pc[c] = "credit" /\ RecordCoin(c, j.coin + SellPrice, j.ver) /\ Lines' /\ UNCHANGED <<paid, lost>>
        /\ pc' = [pc EXCEPT ![c] = "delete"] /\ job' = [job EXCEPT ![c] = j] /\ "delete" \in PC
    BY <1>0, <1>3, <1>b DEF SellCredit, Goto, PC, Lines, shelf, books
  <2>2. j.coin + SellPrice \in Nat /\ SellPrice \in Nat
    BY <1>0, Constants
  <2>3. /\ purse' \in [Chars -> [coin : Nat, ver : Nat]] /\ purse[c].ver = j.ver
        /\ purse'[c].coin = j.coin + SellPrice /\ purse'[c].ver = j.ver + 1
        /\ \A d \in Chars \ {c} : purse'[d] = purse[d]
    BY <1>0, <2>1, <2>2, RecordCoinWrites
  <2>4. purse[c].coin = j.coin /\ j.item \in Items
    BY <1>0, <2>1, <2>3 DEF Known, Fresh
  <2>5. pc'[c] = "delete" /\ job'[c] = j
    BY <1>0, <2>1
  <2>6. Known(c)' /\ InFlight(c)' = SellPrice /\ InFlight(c) = 0
    BY <1>0, <2>1, <2>3, <2>4, <2>5 DEF Known, OwnCredit, InFlight
  <2>7. paid' = paid + 0 /\ 0 \in Int /\ UNCHANGED lost
        /\ (purse'[c].coin - purse[c].coin) + 0 = InFlight(c)' - InFlight(c)
    BY <1>0, <2>1, <2>2, <2>3, <2>4, <2>6
  <2> QED BY <1>0, <2>1, <2>3, <2>6, <2>7, GoesOn
<1>4. CASE SellDelete(c)
  <2>1. /\ pc[c] = "delete" /\ Return(c) /\ paid' = paid - SellPrice
        /\ loc' = [loc EXCEPT ![j.item] = Gone] /\ UNCHANGED <<qty, due, restock, purse, lost, faults>>
    BY <1>4 DEF SellDelete, shelf
  <2>2. j.item \in Items /\ InFlight(c) = SellPrice /\ SellPrice \in Nat
    BY <1>0, <2>1, Constants DEF Known, InFlight
  <2>3. Lines'
    BY <1>0, <2>1, <2>2 DEF Lines
  <2>4. /\ paid' = paid + (-SellPrice) /\ -SellPrice \in Int /\ lost' = lost + 0 /\ 0 \in Nat
        /\ (purse'[c].coin - purse[c].coin) + (-SellPrice) = 0 - InFlight(c)
        /\ purse' \in [Chars -> [coin : Nat, ver : Nat]] /\ \A d \in Chars \ {c} : purse'[d] = purse[d]
    BY <1>0, <2>1, <2>2
  <2> QED BY <2>1, <2>3, <2>4, ReturnKeeps
<1>5. CASE SellDeleteRefused(c)
  <2>1. /\ pc[c] = "delete" /\ pc' = [pc EXCEPT ![c] = "undo"] /\ job' = [job EXCEPT ![c] = j]
        /\ "undo" \in PC /\ UNCHANGED <<purse, paid, lost>> /\ Lines'
    BY <1>0, <1>5, <1>a, <1>b DEF SellDeleteRefused, Goto, PC, Lines, shelf, books
  <2>2. pc'[c] = "undo" /\ job'[c] = j
    BY <1>0, <2>1
  <2>3. Known(c)' /\ InFlight(c)' = InFlight(c)
    BY <1>0, <2>1, <2>2 DEF Known, OwnCredit, InFlight
  <2> QED BY <1>0, <2>1, <2>3, GoesOnQuiet
<1>6. CASE SellUndo(c)
  <2>1. /\ pc[c] = "undo" /\ Return(c) /\ RecordCoin(c, j.coin, j.ver + 1) /\ Lines'
        /\ UNCHANGED <<paid, lost>>
    BY <1>0, <1>6 DEF SellUndo, Lines, shelf, books
  <2>2. j.ver + 1 \in Nat /\ InFlight(c) = SellPrice /\ SellPrice \in Nat
    BY <1>0, <2>1, Constants DEF InFlight
  <2>3. /\ purse' \in [Chars -> [coin : Nat, ver : Nat]] /\ purse[c].ver = j.ver + 1
        /\ purse'[c].coin = j.coin /\ \A d \in Chars \ {c} : purse'[d] = purse[d]
    BY <1>0, <2>1, <2>2, RecordCoinWrites
  <2>4. purse[c].coin = j.coin + SellPrice
    BY <1>0, <2>1, <2>3 DEF Known, OwnCredit
  <2>5. /\ paid' = paid + 0 /\ lost' = lost + 0 /\ 0 \in Int /\ 0 \in Nat
        /\ (purse'[c].coin - purse[c].coin) + 0 = 0 - InFlight(c)
    BY <1>0, <2>1, <2>2, <2>3, <2>4
  <2> QED BY <2>1, <2>3, <2>5, ReturnKeeps
<1>7. CASE SellRollbackFailed(c)
  <2>1. pc[c] = "undo" /\ Return(c) /\ lost' = lost + SellPrice /\ UNCHANGED <<purse, paid>> /\ Lines'
    BY <1>0, <1>7, <1>a DEF SellRollbackFailed, Lines, shelf
  <2>2. InFlight(c) = SellPrice /\ SellPrice \in Nat
    BY <2>1, Constants DEF InFlight
  <2>3. /\ paid' = paid + 0 /\ 0 \in Int /\ (purse'[c].coin - purse[c].coin) + 0 = SellPrice - InFlight(c)
        /\ purse' \in [Chars -> [coin : Nat, ver : Nat]] /\ \A d \in Chars \ {c} : purse'[d] = purse[d]
    BY <1>0, <2>1, <2>2
  <2> QED BY <2>1, <2>2, <2>3, ReturnKeeps
<1>8. CASE VerbFails(c)
  <2>1. Return(c) /\ Lines' /\ UNCHANGED <<purse, paid, lost>> /\ InFlight(c) = 0
    BY <1>0, <1>8, <1>a DEF VerbFails, Lines, shelf, books, InFlight
  <2> QED BY <2>1, ReturnQuiet
<1> QED BY <1>1, <1>2, <1>3, <1>4, <1>5, <1>6, <1>7, <1>8

\* The restocker, time, deaths, decay and players who pick things up move no coin.
LEMMA AroundKeeps ==
    ASSUME ShopInv, UNCHANGED <<purse, pc, job, paid, lost>>, Lines'
    PROVE  ShopInv'
<1>1. ShopTypes'
  BY DEF ShopInv, ShopTypes, Lines
<1>2. \A c \in Chars : Known(c)'
  BY DEF ShopInv, Known, Fresh, OwnCredit
<1>3. Coins' = Coins /\ Carried' = Carried
  BY DEF Coins, Carried, InFlight
<1>4. Till'
  BY <1>3 DEF ShopInv, Till
<1> QED BY <1>1, <1>2, <1>4 DEF ShopInv

\* Any other payment to a character comes out of the till.
LEMMA PaymentKeeps ==
    ASSUME ShopInv, NEW c \in Chars, CoinMoves(c)
    PROVE  ShopInv'
<1>1. /\ ShopTypes /\ Lines /\ Known(c) /\ paid \in Int /\ lost \in Nat
      /\ job[c] \in Job /\ job[c].ver \in Nat /\ job[c].coin \in Nat
      /\ purse[c].coin \in Nat /\ purse[c].ver \in Nat /\ BuyPrice \in Nat
  BY Typed, Constants DEF ShopInv, ShopTypes, Lines
<1>2. /\ RecordCoin(c, purse[c].coin + BuyPrice, purse[c].ver)
      /\ paid' = paid - BuyPrice /\ UNCHANGED <<qty, due, restock, loc, pc, job, lost, faults>>
  BY DEF CoinMoves, shelf
<1>3. /\ purse' \in [Chars -> [coin : Nat, ver : Nat]] /\ purse'[c].coin = purse[c].coin + BuyPrice
      /\ purse'[c].ver = purse[c].ver + 1 /\ \A d \in Chars \ {c} : purse'[d] = purse[d]
  <2>1. purse[c].coin + BuyPrice \in Nat
    BY <1>1
  <2> QED BY <1>1, <1>2, <2>1, RecordCoinWrites
<1>4. ShopTypes'
  BY <1>1, <1>2, <1>3 DEF ShopTypes
<1>5. OnlyBy(c)
  BY <1>2, <1>3 DEF OnlyBy
<1>6. Known(c)' /\ InFlight(c)' = InFlight(c) /\ InFlight(c) \in Int
  BY <1>1, <1>2, <1>3, Typed DEF Known, Fresh, OwnCredit, InFlight
<1>7. /\ paid' = paid + (-BuyPrice) /\ -BuyPrice \in Int /\ lost' = lost + 0 /\ 0 \in Int
      /\ (purse'[c].coin - purse[c].coin) + (-BuyPrice) = 0 + (InFlight(c)' - InFlight(c))
  BY <1>1, <1>2, <1>3, <1>6
<1> QED BY <1>4, <1>5, <1>6, <1>7, StepOf

LEMMA ShopStep == ShopInv /\ [ShopNext]_shopVars => ShopInv'
<1> SUFFICES ASSUME ShopInv, [ShopNext]_shopVars PROVE ShopInv'
  OBVIOUS
<1>0. Lines /\ QtyMax \in Int /\ QtyMax # 0
  BY Constants DEF ShopInv, ShopTypes, Lines
<1>a. Fault => faults' \in Nat
  BY <1>0 DEF Fault, Lines
<1>1. ASSUME RestockRead \/ RestockWrite \/ RestockFails \/ Elapse PROVE ShopInv'
  <2>1. UNCHANGED <<purse, pc, job, paid, lost>>
    BY <1>1 DEF RestockRead, RestockWrite, RestockFails, Elapse, books
  <2>2. Lines'
    <3>1. CASE RestockWrite
      <4>1. qty' = QtyMax /\ due' = FALSE /\ restock' = "idle" /\ UNCHANGED <<loc, faults>>
        BY <3>1 DEF RestockWrite
      <4>2. qty' \in (IF QtyMax < 0 THEN {QtyMax} ELSE 0..QtyMax)
        BY <1>0, <4>1
      <4> QED BY <1>0, <4>1, <4>2 DEF Lines
    <3>2. CASE RestockRead \/ RestockFails \/ Elapse
      BY <1>0, <1>a, <3>2 DEF RestockRead, RestockFails, Elapse, Lines
    <3> QED BY <1>1, <3>1, <3>2
  <2> QED BY <2>1, <2>2, AroundKeeps
<1>2. ASSUME NEW c \in Chars, NEW i \in Items, Decay(i) \/ PickUp(c, i) PROVE ShopInv'
  <2>1. UNCHANGED <<purse, pc, job, paid, lost>> /\ Lines'
    BY <1>0, <1>2 DEF Decay, PickUp, Lines, shelf, books
  <2> QED BY <2>1, AroundKeeps
<1>3. ASSUME NEW i \in Items, Decay(i) PROVE ShopInv'
  <2>1. UNCHANGED <<purse, pc, job, paid, lost>> /\ Lines'
    BY <1>0, <1>3 DEF Decay, Lines, shelf, books
  <2> QED BY <2>1, AroundKeeps
<1>4. ASSUME NEW c \in Chars, Death(c) PROVE ShopInv'
  <2>1. UNCHANGED <<purse, pc, job, paid, lost>> /\ Lines'
    BY <1>0, <1>4 DEF Death, Lines, shelf, books
  <2> QED BY <2>1, AroundKeeps
<1>5. CASE UNCHANGED shopVars
  BY <1>0, <1>5, AroundKeeps DEF shopVars, Lines
<1>6. CASE ShopNext
  BY <1>1, <1>2, <1>3, <1>4, <1>6, BuyKeeps, SellKeeps, PaymentKeeps DEF ShopNext, Pulse
<1> QED BY <1>5, <1>6

LEMMA ShopStarts == ShopInit => ShopInv
<1> SUFFICES ASSUME ShopInit PROVE ShopInv
  OBVIOUS
<1>1. ShopTypes
  BY Constants DEF ShopInit, ShopTypes, PC, Job, NoJob
<1>2. \A c \in Chars : Known(c)
  BY DEF ShopInit, Known
<1>3. Coins = [c \in Chars |-> InitCoin] /\ Carried = [c \in Chars |-> 0]
  BY DEF ShopInit, Coins, Carried, InFlight
<1>4. InitCoin \in Int /\ 0 \in Int /\ Cardinality(Chars) \in Int
  BY Constants
<1>5. SumFunction(Coins) = InitCoin * Cardinality(Chars)
  BY <1>3, <1>4, Constants, SumConstant
<1>6. SumFunction(Carried) = 0 * Cardinality(Chars)
  BY <1>3, <1>4, Constants, SumConstant, Zenon
<1> DEFINE n == InitCoin * Cardinality(Chars)
<1>7. n \in Int /\ SumFunction(Coins) = n /\ SumFunction(Carried) = 0 /\ paid = 0 /\ lost = 0
  BY <1>4, <1>5, <1>6 DEF ShopInit
<1>8. Till <=> SumFunction(Coins) + paid = n + lost + SumFunction(Carried)
  BY DEF Till
<1> HIDE DEF n
<1>9. Till
  BY <1>7, <1>8
<1> QED BY <1>1, <1>2, <1>9 DEF ShopInv

\* The till balances after any interleaving of purchases, sales, restocks,
\* deaths, decays and other payments, for any prices and any stock
\* (internal/cmd/shop.go with RecordCoin and AdjustStock).
THEOREM TillAlwaysBalances == ShopSpec => []TillBalances
<1>1. ShopInv => TillBalances
  BY DEF ShopInv, Till, TillBalances
<1> QED BY ShopStarts, ShopStep, <1>1, PTL DEF ShopSpec

-----------------------------------------------------------------------------
MobRows == \A m \in DOMAIN mobs : mobs[m] \in [home : DOMAIN zones, live : Nat]

\* Where a pass is and what it still looks at.
PassInv(p) ==
    /\ pass[p].at \in {"off", "gate", "count", "spawn", "items"}
    /\ pass[p].at # "off" => up /\ pass[p].todo \subseteq DOMAIN zones
    /\ pass[p].at \in {"count", "spawn", "items"} => pass[p].zone \in DOMAIN zones
    /\ pass[p].at \in {"count", "spawn"} => pass[p].left \subseteq DOMAIN mobs
    /\ pass[p].at = "items" => pass[p].left \subseteq Things
    /\ pass[p].at = "spawn" => pass[p].mob \in DOMAIN mobs

UniqueIds(table) == \A r, s \in DOMAIN table : table[r].id = table[s].id => r = s
HasFirst(table) == \E r \in DOMAIN table : table[r].id = 1

WorldInv ==
    /\ TypeOK /\ MobRows
    /\ DOMAIN specs \subseteq Things
    /\ pass = [p \in Passes |-> pass[p]] /\ \A p \in Passes : PassInv(p)
    /\ UniqueIds(rooms)
    /\ rooms = <<>> \/ HasFirst(rooms)
    /\ up => HasFirst(rooms)

\* What only one pass at a time keeps.
OnePass == \A p, q \in Passes : p = q
LivesInv ==
    /\ \A m \in DOMAIN mobs : mobs[m].live <= 1
    /\ \A p \in Passes : pass[p].at = "spawn" => mobs[pass[p].mob].live = 0

-----------------------------------------------------------------------------
(* The boot.                                                               *)
LEMMA AddingFacts ==
    ASSUME NEW t, NEW n
    PROVE  /\ DOMAIN Adding(t, n) = DOMAIN t \union DOMAIN n
           /\ \A k \in DOMAIN t : Adding(t, n)[k] = t[k]
           /\ \A k \in DOMAIN n \ DOMAIN t : Adding(t, n)[k] = n[k]
BY DEF Adding

\* A finite set of numbers has a greatest.
LEMMA MaxOfFinite ==
    ASSUME NEW S \in SUBSET Int, IsFiniteSet(S), S # {}
    PROVE  Max(S) \in S /\ \A x \in S : Max(S) >= x
<1> DEFINE P == {s \in SUBSET S : s = {} \/ \E m \in s : \A x \in s : m >= x}
<1>1. ASSUME NEW s \in SUBSET S, s = {} \/ s \ {Some(s)} \in P PROVE s \in P
  <2>1. CASE s = {}
    BY <2>1
  <2>2. CASE s # {} /\ s \ {Some(s)} = {}
    <3>1. Some(s) \in s
      BY <2>2, SomeTaken
    <3>2. s = {Some(s)}
      BY <2>2, <3>1
    <3>3. \A x \in s : Some(s) >= x
      BY <3>1, <3>2
    <3> QED BY <3>1, <3>3
  <2>3. CASE s # {} /\ s \ {Some(s)} # {}
    <3>1. Some(s) \in s /\ Some(s) \in Int
      BY <2>3, SomeTaken
    <3>2. PICK m \in s \ {Some(s)} : \A x \in s \ {Some(s)} : m >= x
      BY <1>1, <2>3
    <3>3. m \in Int /\ \A x \in s : x \in Int
      OBVIOUS
    <3>4. CASE m >= Some(s)
      BY <3>1, <3>2, <3>3, <3>4
    <3>5. CASE Some(s) > m
      <4>1. \A x \in s : Some(s) >= x
        BY <3>1, <3>2, <3>3, <3>5
      <4> QED BY <3>1, <4>1
    <3> QED BY <3>1, <3>3, <3>4, <3>5
  <2> QED BY <2>1, <2>2, <2>3
<1> HIDE DEF P
<1>2. SUBSET S \subseteq P
  BY <1>1, SubsetInduction
<1>3. \E m \in S : \A x \in S : m >= x
  BY <1>2 DEF P
<1> QED BY <1>3 DEF Max

\* Every id in use is at most TopId.
LEMMA TopIdBounds ==
    ASSUME NEW held, IsFiniteSet(DOMAIN held), \A r \in DOMAIN held : held[r].id \in Nat
    PROVE  TopId(held) \in Nat /\ \A r \in DOMAIN held : held[r].id <= TopId(held)
<1> DEFINE I == {held[r].id : r \in DOMAIN held}
           f == [r \in DOMAIN held |-> held[r].id]
<1>1. f \in Surjection(DOMAIN held, I)
  BY DEF Surjection
<1>2. IsFiniteSet(I)
  <2> HIDE DEF f, I
  <2> QED BY <1>1, FS_Surjection
<1>3. IsFiniteSet(I \union {0})
  <2> HIDE DEF I
  <2> QED BY <1>2, FS_AddElement
<1>4. I \union {0} \in SUBSET Nat
  OBVIOUS
<1>5. Max(I \union {0}) \in I \union {0} /\ \A x \in I \union {0} : Max(I \union {0}) >= x
  <2>1. I \union {0} \in SUBSET Int /\ I \union {0} # {}
    BY <1>4
  <2> HIDE DEF I
  <2> QED BY <1>3, <2>1, MaxOfFinite
<1>6. TopId(held) = Max(I \union {0})
  BY DEF TopId
<1>7. \A r \in DOMAIN held : held[r].id \in I
  OBVIOUS
<1> HIDE DEF I
<1> QED BY <1>4, <1>5, <1>6, <1>7

\* The new rooms are numbered from 1 in file order.
LEMMA NewNumbers ==
    ASSUME NEW e \in Editions, NEW held, NEW r \in Listed(e) \ DOMAIN held
    PROVE  /\ PlaceOf(e, r) \in DOMAIN e.rooms /\ e.rooms[PlaceOf(e, r)] = r
           /\ Cardinality(NewUpTo(e, held, PlaceOf(e, r))) \in Nat \ {0}
<1>1. e.rooms \in Seq(Rooms)
  BY WorldAssumption DEF Parsed
<1>2. \E k \in DOMAIN e.rooms : e.rooms[k] = r
  BY DEF Listed, Range
<1>3. PlaceOf(e, r) \in DOMAIN e.rooms /\ e.rooms[PlaceOf(e, r)] = r
  BY <1>2 DEF PlaceOf
<1> DEFINE n == PlaceOf(e, r)
           N == NewUpTo(e, held, n)
<1>4. n \in Nat /\ n >= 1
  BY <1>1, <1>3
<1>5. n \in N /\ N \in SUBSET (1..n)
  BY <1>3, <1>4 DEF NewUpTo
<1> HIDE DEF n, N
<1>6. IsFiniteSet(1..n)
  BY <1>4, FS_Interval
<1>7. IsFiniteSet(N)
  BY <1>5, <1>6, FS_Subset
<1>8. Cardinality(N) \in Nat /\ Cardinality(N) # 0
  BY <1>5, <1>7, FS_CardinalityType, FS_EmptySet
<1> QED BY <1>3, <1>8 DEF n, N

LEMMA NumbersDiffer ==
    ASSUME NEW e \in Editions, NEW held, NEW r \in Listed(e) \ DOMAIN held, NEW s \in Listed(e) \ DOMAIN held,
           PlaceOf(e, r) < PlaceOf(e, s)
    PROVE  Cardinality(NewUpTo(e, held, PlaceOf(e, r))) # Cardinality(NewUpTo(e, held, PlaceOf(e, s)))
<1> DEFINE i == PlaceOf(e, r)
           j == PlaceOf(e, s)
           A == NewUpTo(e, held, i)
           B == NewUpTo(e, held, j)
<1>1. i \in Nat /\ j \in Nat /\ j >= 1 /\ e.rooms[j] = s
  <2>1. e.rooms \in Seq(Rooms)
    BY WorldAssumption DEF Parsed
  <2>2. i \in DOMAIN e.rooms /\ j \in DOMAIN e.rooms /\ e.rooms[j] = s
    BY NewNumbers
  <2> QED BY <2>1, <2>2
<1>2. A \in SUBSET B /\ j \in B /\ j \notin A /\ B \in SUBSET (1..j)
  BY <1>1 DEF NewUpTo
<1> HIDE DEF i, j, A, B
<1>3. IsFiniteSet(B)
  <2>1. 1 \in Int /\ j \in Int
    BY <1>1
  <2>2. IsFiniteSet(1..j)
    BY <2>1, FS_Interval
  <2> QED BY <1>2, <2>2, FS_Subset
<1>4. Cardinality(B) = Cardinality(A) => B = A
  BY <1>2, <1>3, FS_Subset
<1> QED BY <1>2, <1>4 DEF i, j, A, B

\* Whatever a file brings, the rooms keep their rows, every id is used once and
\* the room with id 1 is the old one or the starter.
LEMMA BootRooms ==
    ASSUME WorldInv, NEW e \in Editions, Valid(e)
    PROVE  LET new == InsertRooms(e) IN
           /\ DOMAIN new = DOMAIN rooms \union Listed(e)
           /\ \A r \in DOMAIN rooms : new[r] = rooms[r]
           /\ \A r \in DOMAIN new : new[r] \in [id : Nat \ {0}, zone : DOMAIN zones \union DOMAIN e.mode, text : Texts]
           /\ UniqueIds(new)
           /\ \E r \in DOMAIN new : new[r].id = 1 /\ (rooms = <<>> => r \in e.starters)
                                                  /\ (rooms # <<>> => r \in DOMAIN rooms)
<1> DEFINE new == InsertRooms(e)
           held == FirstRoom(e)
           s == CHOOSE r \in e.starters : TRUE
           Row == [id : Nat \ {0}, zone : DOMAIN zones \union DOMAIN e.mode, text : Texts]
<1>0. /\ e.rooms \in Seq(Rooms) /\ e.starters \subseteq Listed(e)
      /\ e.text \in [Listed(e) -> Texts] /\ e.zone \in [Listed(e) -> DOMAIN e.mode]
      /\ IsFiniteSet(Rooms)
  BY WorldAssumption DEF Parsed
<1>1. s \in e.starters /\ s \in Listed(e)
  <2>1. e.starters # {}
    <3>1. Cardinality(e.starters) = 1
      BY DEF Valid, ValidStarter
    <3> QED BY <3>1, FS_EmptySet
  <2> QED BY <1>0, <2>1
<1>2. Listed(e) \subseteq Rooms
  BY <1>0 DEF Listed, Range
<1>3. /\ DOMAIN rooms \subseteq Rooms /\ UniqueIds(rooms)
      /\ rooms = <<>> \/ HasFirst(rooms)
      /\ \A r \in DOMAIN rooms : rooms[r] \in Row
  BY DEF WorldInv, TypeOK
<1>a. \A r \in Listed(e), n \in Nat \ {0} : RoomRow(e, r, n) \in Row /\ RoomRow(e, r, n).id = n
  BY <1>0 DEF RoomRow
<1>4. /\ DOMAIN held \subseteq Rooms /\ DOMAIN rooms \subseteq DOMAIN held /\ DOMAIN held \subseteq DOMAIN rooms \union Listed(e)
      /\ \A r \in DOMAIN rooms : held[r] = rooms[r]
      /\ \A r \in DOMAIN held : held[r] \in Row
      /\ UniqueIds(held)
      /\ \E r \in DOMAIN held : held[r].id = 1 /\ (rooms = <<>> => r \in e.starters)
                                               /\ (rooms # <<>> => r \in DOMAIN rooms)
  <2>1. CASE rooms = <<>>
    <3>1. DOMAIN rooms = {}
      BY <2>1
    <3>2. held = Adding(rooms, [r \in {s} |-> RoomRow(e, s, 1)])
      <4>1. ~(s \in DOMAIN rooms \/ \E r \in DOMAIN rooms : rooms[r].id = 1)
        BY <3>1
      <4> QED BY <4>1 DEF FirstRoom
    <3> DEFINE one == [r \in {s} |-> RoomRow(e, s, 1)]
    <3>3. DOMAIN one = {s} /\ one[s] = RoomRow(e, s, 1)
      OBVIOUS
    <3>a. held = Adding(rooms, one)
      BY <3>2
    <3> HIDE DEF held, s, one, Row
    <3>b. /\ DOMAIN Adding(rooms, one) = DOMAIN rooms \union DOMAIN one
          /\ \A k \in DOMAIN one \ DOMAIN rooms : Adding(rooms, one)[k] = one[k]
      BY AddingFacts
    <3>4. DOMAIN held = {s} /\ held[s] = RoomRow(e, s, 1)
      BY <3>1, <3>3, <3>a, <3>b
    <3>5. held[s] \in Row /\ held[s].id = 1
      BY <1>1, <1>a, <3>4
    <3>6. UniqueIds(held)
      BY <3>4 DEF UniqueIds
    <3> QED BY <1>1, <1>2, <2>1, <3>1, <3>4, <3>5, <3>6
  <2>2. CASE rooms # <<>>
    <3>1. HasFirst(rooms)
      BY <1>3, <2>2
    <3>2. held = rooms
      BY <3>1 DEF FirstRoom, HasFirst
    <3> HIDE DEF held, Row
    <3> QED BY <1>3, <2>2, <3>1, <3>2 DEF HasFirst
  <2> QED BY <2>1, <2>2
<1> DEFINE num(r) == Cardinality(NewUpTo(e, held, PlaceOf(e, r)))
           add == [r \in Listed(e) |-> RoomRow(e, r, TopId(held) + num(r))]
<1>5. new = Adding(held, add)
  BY DEF InsertRooms
<1>6. DOMAIN add = Listed(e) /\ \A r \in Listed(e) : add[r] = RoomRow(e, r, TopId(held) + num(r))
  OBVIOUS
<1>7. \A r \in Listed(e) \ DOMAIN held : num(r) \in Nat \ {0}
  BY NewNumbers
<1>8. \A r, q \in Listed(e) \ DOMAIN held : num(r) = num(q) => r = q
  <2> SUFFICES ASSUME NEW r \in Listed(e) \ DOMAIN held, NEW q \in Listed(e) \ DOMAIN held, r # q PROVE num(r) # num(q)
    OBVIOUS
  <2>1. /\ PlaceOf(e, r) \in DOMAIN e.rooms /\ e.rooms[PlaceOf(e, r)] = r
        /\ PlaceOf(e, q) \in DOMAIN e.rooms /\ e.rooms[PlaceOf(e, q)] = q
    BY NewNumbers
  <2>2. PlaceOf(e, r) \in Nat /\ PlaceOf(e, q) \in Nat /\ PlaceOf(e, r) # PlaceOf(e, q)
    BY <1>0, <2>1
  <2>3. PlaceOf(e, r) < PlaceOf(e, q) \/ PlaceOf(e, q) < PlaceOf(e, r)
    BY <2>2
  <2> HIDE DEF held
  <2> QED BY <2>3, NumbersDiffer
<1>9. TopId(held) \in Nat /\ \A r \in DOMAIN held : held[r].id <= TopId(held)
  <2>1. IsFiniteSet(DOMAIN held)
    BY <1>0, <1>4, FS_Subset
  <2>2. \A r \in DOMAIN held : held[r].id \in Nat
    BY <1>4
  <2> HIDE DEF held
  <2> QED BY <2>1, <2>2, TopIdBounds
<1> HIDE DEF held, add, num, new, s
<1>10. /\ DOMAIN new = DOMAIN held \union Listed(e)
       /\ \A r \in DOMAIN held : new[r] = held[r]
       /\ \A r \in Listed(e) \ DOMAIN held : new[r] = RoomRow(e, r, TopId(held) + num(r))
  <2>1. /\ DOMAIN Adding(held, add) = DOMAIN held \union DOMAIN add
        /\ \A k \in DOMAIN held : Adding(held, add)[k] = held[k]
        /\ \A k \in DOMAIN add \ DOMAIN held : Adding(held, add)[k] = add[k]
    BY AddingFacts
  <2> QED BY <1>5, <1>6, <2>1
<1>11. \A r \in Listed(e) \ DOMAIN held :
          /\ TopId(held) + num(r) \in Nat \ {0} /\ new[r] \in Row /\ new[r].id = TopId(held) + num(r)
  <2> HIDE DEF Row
  <2> QED BY <1>7, <1>9, <1>10, <1>a
<1>12. \A r \in DOMAIN held : new[r].id \in Nat /\ new[r].id <= TopId(held)
  BY <1>4, <1>9, <1>10
<1>13. UniqueIds(new)
  <2> SUFFICES ASSUME NEW r \in DOMAIN new, NEW q \in DOMAIN new, new[r].id = new[q].id PROVE r = q
    BY DEF UniqueIds
  <2>1. CASE r \in DOMAIN held /\ q \in DOMAIN held
    BY <1>4, <1>10, <2>1 DEF UniqueIds
  <2>2. CASE r \in DOMAIN held /\ q \notin DOMAIN held
    BY <1>7, <1>9, <1>10, <1>11, <1>12, <2>2
  <2>3. CASE r \notin DOMAIN held /\ q \in DOMAIN held
    BY <1>7, <1>9, <1>10, <1>11, <1>12, <2>3
  <2>4. CASE r \notin DOMAIN held /\ q \notin DOMAIN held
    <3>1. num(r) = num(q)
      BY <1>7, <1>9, <1>10, <1>11, <2>4
    <3> QED BY <1>8, <1>10, <2>4, <3>1
  <2> QED BY <2>1, <2>2, <2>3, <2>4
<1>14. DOMAIN new = DOMAIN rooms \union Listed(e) /\ \A r \in DOMAIN rooms : new[r] = rooms[r]
  BY <1>4, <1>10
<1>15. \A r \in DOMAIN new : new[r] \in Row
  <2> HIDE DEF Row
  <2> QED BY <1>4, <1>10, <1>11
<1>16. \E r \in DOMAIN new : new[r].id = 1 /\ (rooms = <<>> => r \in e.starters) /\ (rooms # <<>> => r \in DOMAIN rooms)
  BY <1>4, <1>10
<1> QED BY <1>13, <1>14, <1>15, <1>16 DEF new

\* A boot keeps what the tables hold and adds rows of the right kind.
LEMMA BootKeeps ==
    ASSUME WorldInv, NEW e \in Editions, LoadAndSync(e)
    PROVE  WorldInv'
<1>0. /\ ~up /\ up' = TRUE /\ Valid(e) /\ UNCHANGED <<occupied, pass>>
      /\ zones' = InsertZones(e) /\ rooms' = InsertRooms(e) /\ exits' = InsertExits(e)
      /\ items' = InsertItems(e) /\ mobs'  = InsertMobs(e) /\ specs' = BuildItemSpecs(e)
  BY DEF LoadAndSync
<1>1. /\ e.text \in [Listed(e) -> Texts] /\ DOMAIN e.mode \subseteq Zones /\ e.mode \in [DOMAIN e.mode -> Modes]
      /\ DOMAIN e.doors \subseteq Doors
      /\ \A d \in DOMAIN e.doors : e.doors[d].from \in Listed(e) /\ e.doors[d].state \in DoorStates
      /\ DOMAIN e.items \subseteq Things /\ DOMAIN e.mobs \subseteq Mobs /\ e.rooms \in Seq(Rooms)
      /\ Interval \in Nat \ {0}
  BY WorldAssumption DEF Parsed
<1>2. Listed(e) \subseteq Rooms
  BY <1>1 DEF Listed, Range
<1>3. /\ \A d \in DOMAIN e.doors : e.doors[d].to \in Listed(e)
      /\ \A m \in DOMAIN e.mobs : e.mobs[m] \in Listed(e)
  BY <1>0 DEF Valid, ValidExits, ValidMobs
<1>4. TypeOK /\ MobRows
  BY DEF WorldInv
<1>5. /\ DOMAIN zones' = DOMAIN zones \union DOMAIN e.mode /\ DOMAIN zones' \subseteq Zones
      /\ \A z \in DOMAIN zones' : zones'[z] \in [mode : Modes, age : 0 .. Interval]
  <2> DEFINE n == [z \in DOMAIN e.mode |-> [mode |-> e.mode[z], age |-> Interval]]
  <2>1. \A z \in DOMAIN e.mode : n[z] \in [mode : Modes, age : 0 .. Interval]
    BY <1>1
  <2>2. DOMAIN n = DOMAIN e.mode
    OBVIOUS
  <2>3. zones' = Adding(zones, n)
    BY <1>0 DEF InsertZones
  <2> HIDE DEF n
  <2>4. /\ DOMAIN Adding(zones, n) = DOMAIN zones \union DOMAIN n
        /\ \A k \in DOMAIN zones : Adding(zones, n)[k] = zones[k]
        /\ \A k \in DOMAIN n \ DOMAIN zones : Adding(zones, n)[k] = n[k]
    BY AddingFacts
  <2> QED BY <1>1, <1>4, <2>1, <2>2, <2>3, <2>4 DEF TypeOK
<1>6. /\ DOMAIN rooms' = DOMAIN rooms \union Listed(e)
      /\ \A r \in DOMAIN rooms' : rooms'[r] \in [id : Nat \ {0}, zone : DOMAIN zones', text : Texts]
      /\ UniqueIds(rooms') /\ HasFirst(rooms')
  BY <1>0, <1>5, BootRooms DEF HasFirst
<1>7. /\ DOMAIN exits' \subseteq Doors
      /\ \A d \in DOMAIN exits' : exits'[d] \in [from : DOMAIN rooms', to : DOMAIN rooms',
                                                 state : DoorStates, authored : DoorStates]
  <2> DEFINE n == [d \in DOMAIN e.doors |-> [from |-> e.doors[d].from, to |-> e.doors[d].to,
                                             state |-> e.doors[d].state, authored |-> e.doors[d].state]]
  <2>1. \A d \in DOMAIN e.doors : n[d] \in [from : DOMAIN rooms', to : DOMAIN rooms',
                                             state : DoorStates, authored : DoorStates]
    BY <1>1, <1>3, <1>6
  <2>2. DOMAIN n = DOMAIN e.doors
    OBVIOUS
  <2>3. exits' = Adding(exits, n)
    BY <1>0 DEF InsertExits
  <2> HIDE DEF n
  <2>4. /\ DOMAIN Adding(exits, n) = DOMAIN exits \union DOMAIN n
        /\ \A k \in DOMAIN exits : Adding(exits, n)[k] = exits[k]
        /\ \A k \in DOMAIN n \ DOMAIN exits : Adding(exits, n)[k] = n[k]
    BY AddingFacts
  <2>5. /\ DOMAIN exits \subseteq Doors
        /\ \A d \in DOMAIN exits : exits[d] \in [from : DOMAIN rooms', to : DOMAIN rooms',
                                                 state : DoorStates, authored : DoorStates]
    BY <1>4, <1>6 DEF TypeOK
  <2> QED BY <1>1, <2>1, <2>2, <2>3, <2>4, <2>5
<1>8. DOMAIN items' \subseteq Things /\ \A i \in DOMAIN items' : items'[i] \in Players \union {Floor}
  <2> DEFINE n == [i \in DOMAIN e.items |-> Floor]
  <2>1. DOMAIN n = DOMAIN e.items /\ \A i \in DOMAIN e.items : n[i] = Floor
    OBVIOUS
  <2>2. items' = Adding(items, n)
    BY <1>0 DEF InsertItems
  <2> HIDE DEF n
  <2>3. /\ DOMAIN Adding(items, n) = DOMAIN items \union DOMAIN n
        /\ \A k \in DOMAIN items : Adding(items, n)[k] = items[k]
        /\ \A k \in DOMAIN n \ DOMAIN items : Adding(items, n)[k] = n[k]
    BY AddingFacts
  <2> QED BY <1>1, <1>4, <2>1, <2>2, <2>3 DEF TypeOK
<1>9. /\ DOMAIN mobs' \subseteq Mobs /\ DOMAIN mobs \subseteq DOMAIN mobs'
      /\ \A m \in DOMAIN mobs' : mobs'[m] \in [home : DOMAIN zones', live : Nat]
  <2> DEFINE n == [m \in DOMAIN e.mobs |-> [home |-> InsertRooms(e)[e.mobs[m]].zone, live |-> 1]]
  <2>1. \A m \in DOMAIN e.mobs : n[m] \in [home : DOMAIN zones', live : Nat]
    <3>1. \A m \in DOMAIN e.mobs : rooms'[e.mobs[m]].zone \in DOMAIN zones'
      BY <1>3, <1>6
    <3> QED BY <1>0, <3>1
  <2>2. DOMAIN n = DOMAIN e.mobs
    OBVIOUS
  <2>3. mobs' = Adding(mobs, n)
    BY <1>0 DEF InsertMobs
  <2> HIDE DEF n
  <2>4. /\ DOMAIN Adding(mobs, n) = DOMAIN mobs \union DOMAIN n
        /\ \A k \in DOMAIN mobs : Adding(mobs, n)[k] = mobs[k]
        /\ \A k \in DOMAIN n \ DOMAIN mobs : Adding(mobs, n)[k] = n[k]
    BY AddingFacts
  <2>5. DOMAIN mobs \subseteq Mobs /\ \A m \in DOMAIN mobs : mobs[m] \in [home : DOMAIN zones', live : Nat]
    BY <1>4, <1>5 DEF TypeOK, MobRows
  <2> QED BY <1>1, <2>1, <2>2, <2>3, <2>4, <2>5
<1>10. TypeOK'
  <2>1. /\ occupied' \subseteq Zones
        /\ \A m \in DOMAIN mobs' : mobs'[m].home \in DOMAIN zones' /\ mobs'[m].live \in Nat
        /\ DOMAIN rooms' \subseteq Rooms
    BY <1>0, <1>2, <1>4, <1>6, <1>9 DEF TypeOK
  <2> QED BY <1>0, <1>5, <1>6, <1>7, <1>8, <1>9, <2>1 DEF TypeOK
<1>11. DOMAIN specs' \subseteq Things
  BY <1>0, <1>1 DEF BuildItemSpecs
<1>12. pass' = [p \in Passes |-> pass'[p]] /\ \A p \in Passes : PassInv(p)'
  <2>1. pass = [p \in Passes |-> pass[p]] /\ \A p \in Passes : pass[p].at = "off"
    BY <1>0 DEF WorldInv, PassInv
  <2> QED BY <1>0, <2>1 DEF PassInv
<1>13. MobRows'
  BY <1>9 DEF MobRows
<1>14. /\ UniqueIds(rooms)' /\ HasFirst(rooms)'
  BY <1>6 DEF UniqueIds, HasFirst
<1> QED BY <1>10, <1>11, <1>12, <1>13, <1>14 DEF WorldInv

LEMMA CrashKeeps == WorldInv /\ Crash => WorldInv'
<1> SUFFICES ASSUME WorldInv, Crash PROVE WorldInv'
  OBVIOUS
<1>0. /\ up' = FALSE /\ specs' = <<>> /\ occupied' = {} /\ pass' = [p \in Passes |-> Off]
      /\ UNCHANGED <<zones, rooms, exits, items, mobs>>
  BY DEF Crash, tables
<1>1. TypeOK' /\ MobRows'
  BY <1>0 DEF WorldInv, TypeOK, MobRows
<1>2. DOMAIN specs' \subseteq Things
  <2>1. DOMAIN specs' = {}
    BY <1>0
  <2> QED BY <2>1
<1>3. pass' = [p \in Passes |-> pass'[p]] /\ \A p \in Passes : PassInv(p)'
  BY <1>0 DEF PassInv, Off
<1>4. UniqueIds(rooms)' /\ (rooms = <<>> \/ HasFirst(rooms))'
  BY <1>0 DEF WorldInv, UniqueIds, HasFirst
<1> QED BY <1>0, <1>1, <1>2, <1>3, <1>4 DEF WorldInv

\* A step that keeps the server up, the ids of the rooms and the domains.
LEMMA UpStep ==
    ASSUME WorldInv, up' = up, specs' = specs, TypeOK', MobRows',
           DOMAIN zones' = DOMAIN zones, DOMAIN mobs' = DOMAIN mobs,
           DOMAIN rooms' = DOMAIN rooms, \A r \in DOMAIN rooms : rooms'[r].id = rooms[r].id,
           rooms = <<>> => rooms' = <<>>,
           pass' = [p \in Passes |-> pass'[p]],
           \A p \in Passes : pass'[p] = pass[p] \/ PassInv(p)'
    PROVE  WorldInv'
<1>1. \A p \in Passes : PassInv(p)'
  <2> SUFFICES ASSUME NEW p \in Passes, pass'[p] = pass[p] PROVE PassInv(p)'
    OBVIOUS
  <2> QED BY DEF WorldInv, PassInv
<1>2. UniqueIds(rooms)'
  BY DEF WorldInv, UniqueIds
<1>3. HasFirst(rooms) => HasFirst(rooms)'
  BY DEF HasFirst
<1> QED BY <1>1, <1>2, <1>3 DEF WorldInv

\* A step of play: no pass moves.
LEMMA PlayStep ==
    ASSUME WorldInv, UNCHANGED <<up, specs, pass>>, TypeOK', MobRows',
           DOMAIN zones' = DOMAIN zones, DOMAIN mobs' = DOMAIN mobs,
           DOMAIN rooms' = DOMAIN rooms, \A r \in DOMAIN rooms : rooms'[r].id = rooms[r].id,
           rooms = <<>> => rooms' = <<>>
    PROVE  WorldInv'
<1>1. pass' = [p \in Passes |-> pass'[p]]
  BY DEF WorldInv
<1>2. \A p \in Passes : pass'[p] = pass[p] \/ PassInv(p)'
  OBVIOUS
<1> QED BY <1>1, <1>2, UpStep

LEMMA PlayKeeps ==
    ASSUME WorldInv,
           \/ AgeZones \/ \E z \in Zones : Wander(z)
           \/ \E i \in Things : LoseItem(i) \/ \E to \in Players \union {Floor} : MoveItem(i, to)
           \/ \E m \in Mobs : Kill(m)
           \/ \E d \in Doors :
                \/ \E st \in DoorStates : TurnDoor(d, st)
                \/ \E r \in Rooms : Retarget(d, r)
           \/ \E r \in Rooms, t \in Texts : EditRoom(r, t)
    PROVE  WorldInv'
<1>0. TypeOK /\ MobRows
  BY DEF WorldInv
<1>1. CASE AgeZones
  <2>1. /\ zones' = [z \in DOMAIN zones |->
                       [zones[z] EXCEPT !.age = IF zones[z].age < Interval THEN zones[z].age + 1 ELSE zones[z].age]]
        /\ UNCHANGED <<up, rooms, exits, items, mobs, specs, occupied, pass>>
    BY <1>1 DEF AgeZones
  <2>2. Interval \in Nat
    BY WorldAssumption
  <2>3. DOMAIN zones' = DOMAIN zones
    BY <2>1
  <2>4. \A z \in DOMAIN zones' : zones'[z] \in [mode : Modes, age : 0 .. Interval]
    <3> SUFFICES ASSUME NEW z \in DOMAIN zones PROVE zones'[z] \in [mode : Modes, age : 0 .. Interval]
      BY <2>3
    <3>1. zones[z] \in [mode : Modes, age : 0 .. Interval]
      BY <1>0 DEF TypeOK
    <3>2. zones'[z] = [zones[z] EXCEPT !.age = IF zones[z].age < Interval THEN zones[z].age + 1 ELSE zones[z].age]
      BY <2>1
    <3> QED BY <2>2, <3>1, <3>2
  <2>5. TypeOK' /\ MobRows'
    BY <1>0, <2>1, <2>3, <2>4 DEF TypeOK, MobRows
  <2> QED BY <2>1, <2>3, <2>5, PlayStep
<1>2. ASSUME NEW z \in Zones, Wander(z) PROVE WorldInv'
  <2>1. z \in DOMAIN zones /\ occupied' = SymDiff(occupied, {z})
        /\ UNCHANGED <<up, zones, rooms, exits, items, mobs, specs, pass>>
    BY <1>2 DEF Wander
  <2>2. occupied' \subseteq Zones
    BY <1>0, <2>1 DEF TypeOK, SymDiff
  <2>3. TypeOK' /\ MobRows'
    BY <1>0, <2>1, <2>2 DEF TypeOK, MobRows
  <2> QED BY <2>1, <2>3, PlayStep
<1>3. ASSUME NEW i \in Things, LoseItem(i) PROVE WorldInv'
  <2>1. items' = Restrict(items, DOMAIN items \ {i})
        /\ UNCHANGED <<up, zones, rooms, exits, mobs, specs, occupied, pass>>
    BY <1>3 DEF LoseItem
  <2>2. items' = [x \in DOMAIN items \ {i} |-> items[x]]
    BY <2>1 DEF Restrict
  <2>3. TypeOK' /\ MobRows'
    BY <1>0, <2>1, <2>2 DEF TypeOK, MobRows
  <2> QED BY <2>1, <2>3, PlayStep
<1>4. ASSUME NEW i \in Things, NEW to \in Players \union {Floor}, MoveItem(i, to) PROVE WorldInv'
  <2>1. i \in DOMAIN items /\ items' = [items EXCEPT ![i] = to]
        /\ UNCHANGED <<up, zones, rooms, exits, mobs, specs, occupied, pass>>
    BY <1>4 DEF MoveItem
  <2>3. TypeOK' /\ MobRows'
    BY <1>0, <2>1 DEF TypeOK, MobRows
  <2> QED BY <2>1, <2>3, PlayStep
<1>5. ASSUME NEW m \in Mobs, Kill(m) PROVE WorldInv'
  <2>1. m \in DOMAIN mobs /\ mobs[m].live > 0 /\ mobs' = [mobs EXCEPT ![m].live = mobs[m].live - 1]
        /\ UNCHANGED <<up, zones, rooms, exits, items, specs, occupied, pass>>
    BY <1>5 DEF Kill
  <2>2. mobs[m] \in [home : DOMAIN zones, live : Nat]
    BY <1>0, <2>1 DEF MobRows
  <2> DEFINE row == [mobs[m] EXCEPT !.live = mobs[m].live - 1]
  <2>3. row \in [home : DOMAIN zones, live : Nat]
    BY <2>1, <2>2
  <2>4. mobs' = [mobs EXCEPT ![m] = row]
    BY <2>1
  <2> HIDE DEF row
  <2>5. DOMAIN mobs' = DOMAIN mobs /\ \A x \in DOMAIN mobs' : mobs'[x] \in [home : DOMAIN zones, live : Nat]
    BY <1>0, <2>1, <2>3, <2>4 DEF MobRows
  <2>6. TypeOK' /\ MobRows'
    BY <1>0, <2>1, <2>5 DEF TypeOK, MobRows
  <2> QED BY <2>1, <2>5, <2>6, PlayStep
<1>6. ASSUME NEW d \in Doors, NEW st \in DoorStates, TurnDoor(d, st) PROVE WorldInv'
  <2>1. d \in DOMAIN exits /\ exits' = [exits EXCEPT ![d].state = st]
        /\ UNCHANGED <<up, zones, rooms, items, mobs, specs, occupied, pass>>
    BY <1>6 DEF TurnDoor
  <2>2. DOMAIN exits' = DOMAIN exits /\ \A x \in DOMAIN exits : exits'[x] \in [from : DOMAIN rooms, to : DOMAIN rooms,
                                                       state : DoorStates, authored : DoorStates]
    BY <1>0, <2>1 DEF TypeOK
  <2>3. TypeOK' /\ MobRows'
    BY <1>0, <2>1, <2>2 DEF TypeOK, MobRows
  <2> QED BY <2>1, <2>3, PlayStep
<1>7. ASSUME NEW d \in Doors, NEW r \in Rooms, Retarget(d, r) PROVE WorldInv'
  <2>1. d \in DOMAIN exits /\ r \in DOMAIN rooms /\ exits' = [exits EXCEPT ![d].to = r]
        /\ UNCHANGED <<up, zones, rooms, items, mobs, specs, occupied, pass>>
    BY <1>7 DEF Retarget
  <2>2. DOMAIN exits' = DOMAIN exits /\ \A x \in DOMAIN exits : exits'[x] \in [from : DOMAIN rooms, to : DOMAIN rooms,
                                                       state : DoorStates, authored : DoorStates]
    BY <1>0, <2>1 DEF TypeOK
  <2>3. TypeOK' /\ MobRows'
    BY <1>0, <2>1, <2>2 DEF TypeOK, MobRows
  <2> QED BY <2>1, <2>3, PlayStep
<1>8. ASSUME NEW r \in Rooms, NEW t \in Texts, EditRoom(r, t) PROVE WorldInv'
  <2>1. r \in DOMAIN rooms /\ rooms' = [rooms EXCEPT ![r].text = t]
        /\ UNCHANGED <<up, zones, exits, items, mobs, specs, occupied, pass>>
    BY <1>8 DEF EditRoom
  <2>2. /\ DOMAIN rooms' = DOMAIN rooms
        /\ \A x \in DOMAIN rooms : rooms'[x] \in [id : Nat \ {0}, zone : DOMAIN zones, text : Texts]
                                   /\ rooms'[x].id = rooms[x].id
    BY <1>0, <2>1 DEF TypeOK
  <2>3. TypeOK' /\ MobRows'
    BY <1>0, <2>1, <2>2 DEF TypeOK, MobRows
  <2>4. rooms # <<>>
    <3>1. rooms = <<>> => DOMAIN rooms = {}
      OBVIOUS
    <3> QED BY <2>1, <3>1
  <2> QED BY <2>1, <2>2, <2>3, <2>4, PlayStep
<1> QED BY <1>1, <1>2, <1>3, <1>4, <1>5, <1>6, <1>7, <1>8

\* A step of one pass; the other passes stand where they stood.
LEMMA PassMoves ==
    ASSUME WorldInv, NEW p \in Passes, NEW t, pass' = [pass EXCEPT ![p] = t],
           UNCHANGED <<up, rooms, specs>>, TypeOK', MobRows',
           DOMAIN zones' = DOMAIN zones, DOMAIN mobs' = DOMAIN mobs,
           pass'[p] = t => PassInv(p)'
    PROVE  WorldInv'
<1>1. pass = [q \in Passes |-> pass[q]]
  BY DEF WorldInv
<1>2. pass' = [q \in Passes |-> pass'[q]] /\ pass'[p] = t /\ \A q \in Passes : q # p => pass'[q] = pass[q]
  BY <1>1
<1>3. \A q \in Passes : pass'[q] = pass[q] \/ PassInv(q)'
  BY <1>2
<1> QED BY <1>2, <1>3, UpStep

LEMMA ResetKeeps ==
    ASSUME WorldInv, NEW p \in Passes, ResetStep(p)
    PROVE  WorldInv'
<1>0. TypeOK /\ MobRows /\ PassInv(p) /\ DOMAIN specs \subseteq Things
  BY DEF WorldInv
<1>1. CASE StartPass(p)
  <2> DEFINE t == [at |-> "gate", todo |-> DOMAIN zones]
  <2>1. up /\ pass' = [pass EXCEPT ![p] = t] /\ UNCHANGED <<up, zones, rooms, exits, items, mobs, specs, occupied>>
    BY <1>1 DEF StartPass
  <2>2. pass'[p] = t => PassInv(p)'
    BY <2>1 DEF PassInv
  <2>3. TypeOK' /\ MobRows'
    BY <1>0, <2>1 DEF TypeOK, MobRows
  <2> HIDE DEF t
  <2> QED BY <2>1, <2>2, <2>3, PassMoves
<1>2. CASE Gate(p)
  <2>0. pass[p].at = "gate" /\ UNCHANGED <<up, zones, rooms, exits, items, mobs, specs, occupied>>
    BY <1>2 DEF Gate
  <2>1. PICK z \in pass[p].todo :
            pass' = [pass EXCEPT ![p] =
                IF Resets(z)
                THEN [at |-> "count", zone |-> z, left |-> Anchored(z), todo |-> pass[p].todo \ {z}]
                ELSE [at |-> "gate", todo |-> pass[p].todo \ {z}]]
    BY <1>2 DEF Gate
  <2>2. up /\ pass[p].todo \subseteq DOMAIN zones
    BY <1>0, <2>0 DEF PassInv
  <2> DEFINE t == IF Resets(z)
                  THEN [at |-> "count", zone |-> z, left |-> Anchored(z), todo |-> pass[p].todo \ {z}]
                  ELSE [at |-> "gate", todo |-> pass[p].todo \ {z}]
  <2>3. pass'[p] = t => PassInv(p)'
    <3>1. Anchored(z) \subseteq DOMAIN mobs
      BY DEF Anchored
    <3> QED BY <2>0, <2>2, <3>1 DEF PassInv
  <2>4. TypeOK' /\ MobRows'
    BY <1>0, <2>0 DEF TypeOK, MobRows
  <2>5. pass' = [pass EXCEPT ![p] = t]
    BY <2>1
  <2> HIDE DEF t
  <2> QED BY <2>0, <2>3, <2>4, <2>5, PassMoves
<1>3. CASE CountMob(p)
  <2>0. pass[p].at = "count" /\ UNCHANGED <<up, zones, rooms, exits, items, mobs, specs, occupied>>
    BY <1>3 DEF CountMob
  <2>1. PICK m \in pass[p].left :
            pass' = [pass EXCEPT ![p] = IF mobs[m].live > 0 THEN Goes(p, "count", pass[p].left \ {m})
                                        ELSE Spawning(p, m, pass[p].left \ {m})]
    BY <1>3 DEF CountMob
  <2>2. up /\ pass[p].todo \subseteq DOMAIN zones /\ pass[p].zone \in DOMAIN zones /\ pass[p].left \subseteq DOMAIN mobs
    BY <1>0, <2>0 DEF PassInv
  <2> DEFINE t == IF mobs[m].live > 0 THEN Goes(p, "count", pass[p].left \ {m})
                                      ELSE Spawning(p, m, pass[p].left \ {m})
  <2>3. pass'[p] = t => PassInv(p)'
    BY <2>0, <2>2 DEF PassInv, Goes, Spawning
  <2>4. TypeOK' /\ MobRows'
    BY <1>0, <2>0 DEF TypeOK, MobRows
  <2>5. pass' = [pass EXCEPT ![p] = t]
    BY <2>1
  <2> HIDE DEF t
  <2> QED BY <2>0, <2>3, <2>4, <2>5, PassMoves
<1>4. CASE SpawnMob(p)
  <2> DEFINE m == pass[p].mob
             t == Goes(p, "count", pass[p].left)
             row == [mobs[m] EXCEPT !.live = mobs[m].live + 1]
  <2>0. pass[p].at = "spawn" /\ UNCHANGED <<up, zones, rooms, exits, items, specs, occupied>>
        /\ mobs' = [mobs EXCEPT ![m] = row] /\ pass' = [pass EXCEPT ![p] = t]
    BY <1>4 DEF SpawnMob
  <2>2. up /\ pass[p].todo \subseteq DOMAIN zones /\ pass[p].zone \in DOMAIN zones /\ pass[p].left \subseteq DOMAIN mobs
        /\ m \in DOMAIN mobs
    BY <1>0, <2>0 DEF PassInv
  <2>3. mobs[m] \in [home : DOMAIN zones, live : Nat]
    BY <1>0, <2>2 DEF MobRows
  <2>4. row \in [home : DOMAIN zones, live : Nat]
    <3> HIDE DEF m
    <3> QED BY <2>3
  <2>a. t.at = "count" /\ t.todo = pass[p].todo /\ t.zone = pass[p].zone /\ t.left = pass[p].left
    BY DEF Goes
  <2> HIDE DEF row, m, t
  <2>5. DOMAIN mobs' = DOMAIN mobs /\ \A x \in DOMAIN mobs' : mobs'[x] \in [home : DOMAIN zones, live : Nat]
    BY <1>0, <2>0, <2>2, <2>4 DEF MobRows
  <2>6. TypeOK' /\ MobRows'
    BY <1>0, <2>0, <2>5 DEF TypeOK, MobRows
  <2>7. pass'[p] = t => PassInv(p)'
    BY <2>0, <2>2, <2>5, <2>a DEF PassInv
  <2> QED BY <2>0, <2>5, <2>6, <2>7, PassMoves
<1>5. CASE RestoreDoors(p)
  <2> DEFINE t == Goes(p, "items", {i \in DOMAIN specs : specs[i] = pass[p].zone})
  <2>0. pass[p].at = "count" /\ UNCHANGED <<up, zones, rooms, items, mobs, specs, occupied>>
        /\ pass' = [pass EXCEPT ![p] = t]
        /\ exits' = [d \in DOMAIN exits |->
                   IF rooms[exits[d].from].zone = pass[p].zone
                   THEN [exits[d] EXCEPT !.state = exits[d].authored] ELSE exits[d]]
    BY <1>5 DEF RestoreDoors
  <2>2. up /\ pass[p].todo \subseteq DOMAIN zones /\ pass[p].zone \in DOMAIN zones
    BY <1>0, <2>0 DEF PassInv
  <2>3. DOMAIN exits' = DOMAIN exits /\ \A x \in DOMAIN exits : exits'[x] \in [from : DOMAIN rooms, to : DOMAIN rooms,
                                                       state : DoorStates, authored : DoorStates]
    BY <1>0, <2>0 DEF TypeOK
  <2>4. TypeOK' /\ MobRows'
    BY <1>0, <2>0, <2>3 DEF TypeOK, MobRows
  <2>5. pass'[p] = t => PassInv(p)'
    <3>1. t.at = "items" /\ t.todo = pass[p].todo /\ t.zone = pass[p].zone /\ t.left \subseteq Things
      BY <1>0 DEF Goes
    <3> QED BY <2>0, <2>2, <3>1 DEF PassInv
  <2> HIDE DEF t
  <2> QED BY <2>0, <2>4, <2>5, PassMoves
<1>6. CASE RespawnItem(p)
  <2>0. pass[p].at = "items" /\ UNCHANGED <<up, zones, rooms, exits, mobs, specs, occupied>>
    BY <1>6 DEF RespawnItem
  <2>1. PICK i \in pass[p].left : /\ items' = Adding(items, [j \in {i} |-> Floor])
                                  /\ pass' = [pass EXCEPT ![p] = Goes(p, "items", pass[p].left \ {i})]
    BY <1>6 DEF RespawnItem
  <2>2. up /\ pass[p].todo \subseteq DOMAIN zones /\ pass[p].zone \in DOMAIN zones /\ pass[p].left \subseteq Things
    BY <1>0, <2>0 DEF PassInv
  <2> DEFINE t == Goes(p, "items", pass[p].left \ {i})
             n == [j \in {i} |-> Floor]
  <2>3. DOMAIN n = {i} /\ n[i] = Floor
    OBVIOUS
  <2>4. pass'[p] = t => PassInv(p)'
    BY <2>0, <2>2 DEF PassInv, Goes
  <2>5. items' = Adding(items, n) /\ pass' = [pass EXCEPT ![p] = t]
    BY <2>1
  <2> HIDE DEF t, n
  <2>6. /\ DOMAIN Adding(items, n) = DOMAIN items \union DOMAIN n
        /\ \A k \in DOMAIN items : Adding(items, n)[k] = items[k]
        /\ \A k \in DOMAIN n \ DOMAIN items : Adding(items, n)[k] = n[k]
    BY AddingFacts
  <2>7. DOMAIN items' \subseteq Things /\ \A x \in DOMAIN items' : items'[x] \in Players \union {Floor}
    BY <1>0, <2>2, <2>3, <2>5, <2>6 DEF TypeOK
  <2>8. TypeOK' /\ MobRows'
    BY <1>0, <2>0, <2>7 DEF TypeOK, MobRows
  <2> QED BY <2>0, <2>4, <2>5, <2>8, PassMoves
<1>7. CASE RecordReset(p)
  <2> DEFINE t == [at |-> "gate", todo |-> pass[p].todo]
  <2>0. pass[p].at = "items" /\ UNCHANGED <<up, rooms, exits, items, mobs, specs, occupied>>
        /\ zones' = [zones EXCEPT ![pass[p].zone].age = 0] /\ pass' = [pass EXCEPT ![p] = t]
    BY <1>7 DEF RecordReset
  <2>2. up /\ pass[p].todo \subseteq DOMAIN zones /\ pass[p].zone \in DOMAIN zones /\ Interval \in Nat
    BY <1>0, <2>0, WorldAssumption DEF PassInv
  <2>3. DOMAIN zones' = DOMAIN zones /\ \A z \in DOMAIN zones : zones'[z] \in [mode : Modes, age : 0 .. Interval]
    BY <1>0, <2>0, <2>2 DEF TypeOK
  <2>4. TypeOK' /\ MobRows'
    BY <1>0, <2>0, <2>3 DEF TypeOK, MobRows
  <2>5. pass'[p] = t => PassInv(p)'
    BY <2>0, <2>2, <2>3 DEF PassInv
  <2> HIDE DEF t
  <2> QED BY <2>0, <2>3, <2>4, <2>5, PassMoves
<1>8. CASE EndPass(p)
  <2>0. pass' = [pass EXCEPT ![p] = Off] /\ UNCHANGED <<up, zones, rooms, exits, items, mobs, specs, occupied>>
    BY <1>8 DEF EndPass
  <2>1. TypeOK' /\ MobRows'
    BY <1>0, <2>0 DEF TypeOK, MobRows
  <2>2. pass'[p] = Off => PassInv(p)'
    BY DEF PassInv, Off
  <2> QED BY <2>0, <2>1, <2>2, PassMoves
<1> QED BY <1>1, <1>2, <1>3, <1>4, <1>5, <1>6, <1>7, <1>8 DEF ResetStep

LEMMA WorldStep == ASSUME WorldInv, [Next]_vars PROVE WorldInv'
<1>1. ASSUME NEW e \in Editions, LoadAndSync(e) PROVE WorldInv'
  BY <1>1, BootKeeps
<1>2. CASE Crash
  BY <1>2, CrashKeeps
<1>3. ASSUME NEW p \in Passes, ResetStep(p) PROVE WorldInv'
  BY <1>3, ResetKeeps
<1>4. CASE UNCHANGED vars
  <2>1. \A p \in Passes : PassInv(p)'
    BY <1>4 DEF WorldInv, PassInv, vars
  <2> QED BY <1>4, <2>1 DEF WorldInv, TypeOK, MobRows, UniqueIds, HasFirst, vars
<1> QED BY <1>1, <1>2, <1>3, <1>4, PlayKeeps DEF Next

\* The tables and the passes fit each other in every state: a pass works
\* on zones, mobs and items the tables hold, no two rooms share an id and
\* a server that is up has a room with id 1 (LoadAndSync and ZoneResetter).
THEOREM WorldInvariant == Spec => []WorldInv
<1>1. Init => WorldInv
  <2> SUFFICES ASSUME Init PROVE WorldInv
    OBVIOUS
  <2>1. /\ up = FALSE /\ specs = <<>> /\ occupied = {}
        /\ zones = <<>> /\ rooms = <<>> /\ exits = <<>> /\ items = <<>> /\ mobs = <<>>
        /\ pass = [p \in Passes |-> Off]
    BY DEF Init
  <2>2. /\ DOMAIN zones = {} /\ DOMAIN rooms = {} /\ DOMAIN exits = {} /\ DOMAIN items = {}
        /\ DOMAIN mobs = {} /\ DOMAIN specs = {}
    BY <2>1
  <2>3. TypeOK /\ MobRows /\ UniqueIds(rooms)
    BY <2>1, <2>2 DEF TypeOK, MobRows, UniqueIds
  <2>4. ASSUME NEW p \in Passes PROVE PassInv(p)
    <3>1. pass[p] = Off /\ Off.at = "off"
      BY <2>1 DEF Off
    <3> QED BY <3>1 DEF PassInv
  <2>5. pass = [p \in Passes |-> pass[p]]
    BY <2>1
  <2> QED BY <2>1, <2>2, <2>3, <2>4, <2>5 DEF WorldInv
<1>2. WorldInv /\ [Next]_vars => WorldInv'
  BY WorldStep
<1> QED BY <1>1, <1>2, PTL DEF Spec

-----------------------------------------------------------------------------
(* The room with id 1.                                                     *)
LEMMA IdsStay ==
    ASSUME WorldInv, Next, \A e \in Editions : ~LoadAndSync(e)
    PROVE  DOMAIN rooms' = DOMAIN rooms /\ \A r \in DOMAIN rooms : rooms'[r].id = rooms[r].id
<1> DEFINE Same == DOMAIN rooms' = DOMAIN rooms /\ \A r \in DOMAIN rooms : rooms'[r].id = rooms[r].id
<1>0. rooms' = rooms => Same
  OBVIOUS
<1>1. ASSUME Crash \/ AgeZones \/ \E z \in Zones : Wander(z) PROVE Same
  BY <1>0, <1>1 DEF Crash, AgeZones, Wander, tables
<1>2. ASSUME NEW p \in Passes, ResetStep(p) PROVE Same
  BY <1>0, <1>2 DEF ResetStep, StartPass, Gate, CountMob, SpawnMob, RestoreDoors, RespawnItem, RecordReset, EndPass
<1>3. ASSUME \/ \E i \in Things : LoseItem(i) \/ \E to \in Players \union {Floor} : MoveItem(i, to)
             \/ \E m \in Mobs : Kill(m)
             \/ \E d \in Doors :
                  \/ \E st \in DoorStates : TurnDoor(d, st)
                  \/ \E r \in Rooms : Retarget(d, r)
      PROVE Same
  BY <1>0, <1>3 DEF LoseItem, MoveItem, Kill, TurnDoor, Retarget
<1>4. ASSUME NEW r \in Rooms, NEW t \in Texts, EditRoom(r, t) PROVE Same
  <2>1. r \in DOMAIN rooms /\ rooms' = [rooms EXCEPT ![r].text = t]
    BY <1>4 DEF EditRoom
  <2>2. \A x \in DOMAIN rooms : rooms[x] \in [id : Nat \ {0}, zone : DOMAIN zones, text : Texts]
    BY DEF WorldInv, TypeOK
  <2> QED BY <2>1, <2>2
<1> HIDE DEF Same
<1>5. Same
  BY <1>1, <1>2, <1>3, <1>4 DEF Next
<1> QED BY <1>5 DEF Same

\* No boot gives two rooms one id, and the room where new characters are
\* placed stays the room it was when the world was first loaded, whatever
\* the files of later boots call their starter (insertRooms in
\* internal/world/loader.go).
THEOREM RoomsKeepTheirIds == Spec => StarterStays
<1> DEFINE Stays ==
      /\ \A r, s \in DOMAIN rooms' : rooms'[r].id = rooms'[s].id => r = s
      /\ up' => \E r \in DOMAIN rooms' :
            /\ rooms'[r].id = 1
            /\ IF rooms = <<>> THEN \E e \in Editions : Valid(e) /\ r \in e.starters
               ELSE r \in DOMAIN rooms /\ rooms[r].id = 1
<1>1. ASSUME WorldInv, WorldInv', Next PROVE Stays
  <2>1. \A r, s \in DOMAIN rooms' : rooms'[r].id = rooms'[s].id => r = s
    BY <1>1 DEF WorldInv, UniqueIds
  <2>2. ASSUME NEW e \in Editions, LoadAndSync(e) PROVE Stays
    <3>1. Valid(e) /\ rooms' = InsertRooms(e)
      BY <2>2 DEF LoadAndSync
    <3>2. PICK r \in DOMAIN InsertRooms(e) :
            /\ InsertRooms(e)[r].id = 1 /\ (rooms = <<>> => r \in e.starters)
            /\ (rooms # <<>> => r \in DOMAIN rooms)
      BY <1>1, <3>1, BootRooms
    <3>3. rooms # <<>> => InsertRooms(e)[r] = rooms[r]
      BY <1>1, <3>1, <3>2, BootRooms
    <3> QED BY <2>1, <3>1, <3>2, <3>3
  <2>3. CASE \A e \in Editions : ~LoadAndSync(e)
    <3>1. DOMAIN rooms' = DOMAIN rooms /\ \A r \in DOMAIN rooms : rooms'[r].id = rooms[r].id
      BY <1>1, <2>3, IdsStay
    <3>2. up' => \E r \in DOMAIN rooms' : rooms'[r].id = 1
      BY <1>1 DEF WorldInv, HasFirst
    <3>3. rooms = <<>> => DOMAIN rooms = {}
      OBVIOUS
    <3> QED BY <2>1, <3>1, <3>2, <3>3
  <2> QED BY <2>2, <2>3
<1> HIDE DEF Stays
<1>2. WorldInv /\ WorldInv' /\ [Next]_vars => [Stays]_vars
  BY <1>1
<1>3. Spec => [][Stays]_vars
  BY <1>2, WorldInvariant, PTL DEF Spec
<1> QED BY <1>3 DEF Stays, StarterStays

-----------------------------------------------------------------------------
(* One pass at a time.                                                     *)
LEMMA LivesStep ==
    ASSUME OnePass, WorldInv, LivesInv, [Next]_vars
    PROVE  LivesInv'
<1>0. MobRows /\ (\A p \in Passes : PassInv(p)) /\ pass = [p \in Passes |-> pass[p]]
  BY DEF WorldInv
<1>a. \A m \in DOMAIN mobs : mobs[m] \in [home : DOMAIN zones, live : Nat]
  BY <1>0 DEF MobRows
<1>b. ASSUME UNCHANGED <<mobs, pass>> PROVE LivesInv'
  BY <1>b DEF LivesInv
<1>1. ASSUME NEW e \in Editions, LoadAndSync(e) PROVE LivesInv'
  <2> DEFINE n == [m \in DOMAIN e.mobs |-> [home |-> InsertRooms(e)[e.mobs[m]].zone, live |-> 1]]
  <2>1. ~up /\ pass' = pass /\ mobs' = Adding(mobs, n)
    BY <1>1 DEF LoadAndSync, InsertMobs
  <2>2. DOMAIN n = DOMAIN e.mobs /\ \A m \in DOMAIN n : n[m].live = 1
    OBVIOUS
  <2> HIDE DEF n
  <2>3. /\ DOMAIN Adding(mobs, n) = DOMAIN mobs \union DOMAIN n
        /\ \A k \in DOMAIN mobs : Adding(mobs, n)[k] = mobs[k]
        /\ \A k \in DOMAIN n \ DOMAIN mobs : Adding(mobs, n)[k] = n[k]
    BY AddingFacts
  <2>4. \A p \in Passes : pass[p].at # "spawn"
    BY <1>0, <2>1 DEF PassInv
  <2> QED BY <2>1, <2>2, <2>3, <2>4 DEF LivesInv
<1>2. CASE Crash
  <2>1. mobs' = mobs /\ pass' = [p \in Passes |-> Off]
    BY <1>2 DEF Crash, tables
  <2> QED BY <2>1 DEF LivesInv, Off
<1>3. ASSUME NEW p \in Passes, ResetStep(p) PROVE LivesInv'
  <2>0. \A q \in Passes : q = p
    BY DEF OnePass
  <2>1. CASE CountMob(p)
    <3>1. PICK m \in pass[p].left :
            pass' = [pass EXCEPT ![p] = IF mobs[m].live > 0 THEN Goes(p, "count", pass[p].left \ {m})
                                        ELSE Spawning(p, m, pass[p].left \ {m})]
      BY <2>1 DEF CountMob
    <3>2. mobs' = mobs /\ m \in DOMAIN mobs
      BY <1>0, <2>1 DEF CountMob, PassInv
    <3>3. mobs[m].live \in Nat
      BY <1>a, <3>2
    <3>4. pass'[p] = IF mobs[m].live > 0 THEN Goes(p, "count", pass[p].left \ {m})
                                         ELSE Spawning(p, m, pass[p].left \ {m})
      BY <1>0, <3>1
    <3>5. pass'[p].at = "spawn" => mobs[pass'[p].mob].live = 0
      BY <3>3, <3>4 DEF Goes, Spawning
    <3> QED BY <2>0, <3>2, <3>5 DEF LivesInv
  <2>2. CASE SpawnMob(p)
    <3> DEFINE m == pass[p].mob
    <3>1. pass[p].at = "spawn" /\ mobs' = [mobs EXCEPT ![m].live = mobs[m].live + 1]
          /\ pass' = [pass EXCEPT ![p] = Goes(p, "count", pass[p].left)]
      BY <2>2 DEF SpawnMob
    <3>2. m \in DOMAIN mobs /\ mobs[m].live = 0
      BY <1>0, <3>1 DEF PassInv, LivesInv
    <3>3. mobs[m] \in [home : DOMAIN zones, live : Nat]
      BY <1>a, <3>2
    <3>4. pass'[p].at = "count"
      BY <1>0, <3>1 DEF Goes
    <3> HIDE DEF m
    <3>5. DOMAIN mobs' = DOMAIN mobs /\ \A x \in DOMAIN mobs : mobs'[x].live = IF x = m THEN 1 ELSE mobs[x].live
      BY <1>a, <3>1, <3>2, <3>3
    <3> QED BY <2>0, <3>4, <3>5 DEF LivesInv
  <2>3. ASSUME mobs' = mobs, pass'[p].at # "spawn" PROVE LivesInv'
    BY <2>0, <2>3 DEF LivesInv
  <2>4. CASE StartPass(p) \/ Gate(p)
    <3>1. mobs' = mobs /\ pass'[p].at # "spawn"
      BY <1>0, <2>4 DEF StartPass, Gate
    <3> QED BY <2>3, <3>1
  <2>5. CASE RestoreDoors(p) \/ RespawnItem(p) \/ RecordReset(p) \/ EndPass(p)
    <3>1. \/ pass' = [pass EXCEPT ![p] = Off]
          \/ \E S : pass' = [pass EXCEPT ![p] = Goes(p, "items", S)]
          \/ pass' = [pass EXCEPT ![p] = [at |-> "gate", todo |-> pass[p].todo]]
      BY <2>5, Zenon DEF RestoreDoors, RespawnItem, RecordReset, EndPass
    <3>2. pass'[p].at # "spawn"
      BY <1>0, <3>1 DEF Goes, Off
    <3>3. mobs' = mobs
      BY <2>5, Zenon DEF RestoreDoors, RespawnItem, RecordReset, EndPass
    <3> QED BY <2>3, <3>2, <3>3
  <2> QED BY <1>3, <2>1, <2>2, <2>4, <2>5 DEF ResetStep
<1>4. ASSUME NEW m \in Mobs, Kill(m) PROVE LivesInv'
  <2>1. m \in DOMAIN mobs /\ mobs[m].live > 0 /\ mobs' = [mobs EXCEPT ![m].live = mobs[m].live - 1]
        /\ pass' = pass
    BY <1>4 DEF Kill
  <2>2. mobs[m] \in [home : DOMAIN zones, live : Nat] /\ mobs[m].live <= 1
    BY <1>a, <2>1 DEF LivesInv
  <2>3. DOMAIN mobs' = DOMAIN mobs /\ \A x \in DOMAIN mobs : mobs'[x].live = IF x = m THEN 0 ELSE mobs[x].live
    BY <1>a, <2>1, <2>2
  <2>4. \A p \in Passes : pass[p].at = "spawn" => pass[p].mob \in DOMAIN mobs
    BY <1>0 DEF PassInv
  <2> QED BY <2>1, <2>3, <2>4 DEF LivesInv
<1>5. ASSUME \/ AgeZones \/ UNCHANGED vars
             \/ \E z \in Zones : Wander(z)
             \/ \E i \in Things : LoseItem(i) \/ \E to \in Players \union {Floor} : MoveItem(i, to)
             \/ \E d \in Doors :
                  \/ \E st \in DoorStates : TurnDoor(d, st)
                  \/ \E r \in Rooms : Retarget(d, r)
             \/ \E r \in Rooms, t \in Texts : EditRoom(r, t)
      PROVE  LivesInv'
  BY <1>b, <1>5 DEF AgeZones, Wander, LoseItem, MoveItem, TurnDoor, Retarget, EditRoom, vars
<1> QED BY <1>1, <1>2, <1>3, <1>4, <1>5 DEF Next

LEMMA LivesInvariant == OnePass => (Spec => [](WorldInv /\ LivesInv))
<1> SUFFICES ASSUME OnePass PROVE Spec => [](WorldInv /\ LivesInv)
  OBVIOUS
<1>1. Init => LivesInv
  BY DEF Init, LivesInv, Off
<1>2. WorldInv /\ LivesInv /\ [Next]_vars => LivesInv'
  BY LivesStep
<1> QED BY <1>1, <1>2, WorldInvariant, PTL DEF Spec

\* Where no two area resets overlap, no boot, reset, crash or death ever
\* leaves an anchored mob with two instances.  (Where they overlap, both
\* may count none and both spawn: ensureMob in internal/world/respawn.go.)
THEOREM OneMobForOnePass == OnePass => (Spec => []OneMobEach)
<1> SUFFICES ASSUME OnePass PROVE Spec => []OneMobEach
  OBVIOUS
<1>1. WorldInv /\ LivesInv => OneMobEach
  BY DEF WorldInv, LivesInv, OneMobEach
<1> QED BY <1>1, LivesInvariant, PTL

-----------------------------------------------------------------------------
(* What a boot and a reset leave alone.                                    *)
RoomsHeld == \A r \in DOMAIN rooms : r \in DOMAIN rooms' /\ rooms'[r] = rooms[r]
ExitsHeld ==
    \A d \in DOMAIN exits :
      /\ d \in DOMAIN exits' /\ exits'[d].to = exits[d].to
      /\ exits'[d].state # exits[d].state =>
           \E p \in Passes : /\ pass[p].at = "count" /\ pass'[p].at = "items"
                             /\ pass[p].zone = rooms[exits[d].from].zone
ItemsHeld == \A i \in DOMAIN items : i \in DOMAIN items' /\ items'[i] = items[i]
MobsHeld ==
    \A m \in DOMAIN mobs : /\ m \in DOMAIN mobs' /\ mobs'[m].home = mobs[m].home
                           /\ mobs[m].live > 0 => mobs'[m].live = mobs[m].live
AllHeld == RoomsHeld /\ ExitsHeld /\ ItemsHeld /\ MobsHeld

LEMMA SameHeld ==
    /\ rooms' = rooms => RoomsHeld
    /\ exits' = exits => ExitsHeld
    /\ items' = items => ItemsHeld
    /\ mobs' = mobs => MobsHeld
BY DEF RoomsHeld, ExitsHeld, ItemsHeld, MobsHeld

LEMMA BootHolds ==
    ASSUME WorldInv, NEW e \in Editions, LoadAndSync(e)
    PROVE  AllHeld
<1>0. /\ Valid(e)
      /\ rooms' = InsertRooms(e) /\ exits' = InsertExits(e)
      /\ items' = InsertItems(e) /\ mobs'  = InsertMobs(e)
  BY DEF LoadAndSync
<1>1. RoomsHeld
  BY <1>0, BootRooms DEF RoomsHeld
<1>2. ExitsHeld
  <2> DEFINE n == [d \in DOMAIN e.doors |-> [from |-> e.doors[d].from, to |-> e.doors[d].to,
                                             state |-> e.doors[d].state, authored |-> e.doors[d].state]]
  <2>1. exits' = Adding(exits, n)
    BY <1>0 DEF InsertExits
  <2> HIDE DEF n
  <2>2. DOMAIN Adding(exits, n) = DOMAIN exits \union DOMAIN n /\ \A k \in DOMAIN exits : Adding(exits, n)[k] = exits[k]
    BY AddingFacts
  <2> QED BY <2>1, <2>2 DEF ExitsHeld
<1>3. ItemsHeld
  <2> DEFINE n == [i \in DOMAIN e.items |-> Floor]
  <2>1. items' = Adding(items, n)
    BY <1>0 DEF InsertItems
  <2> HIDE DEF n
  <2>2. DOMAIN Adding(items, n) = DOMAIN items \union DOMAIN n /\ \A k \in DOMAIN items : Adding(items, n)[k] = items[k]
    BY AddingFacts
  <2> QED BY <2>1, <2>2 DEF ItemsHeld
<1>4. MobsHeld
  <2> DEFINE n == [m \in DOMAIN e.mobs |-> [home |-> InsertRooms(e)[e.mobs[m]].zone, live |-> 1]]
  <2>1. mobs' = Adding(mobs, n)
    BY <1>0 DEF InsertMobs
  <2> HIDE DEF n
  <2>2. DOMAIN Adding(mobs, n) = DOMAIN mobs \union DOMAIN n /\ \A k \in DOMAIN mobs : Adding(mobs, n)[k] = mobs[k]
    BY AddingFacts
  <2> QED BY <2>1, <2>2 DEF MobsHeld
<1> QED BY <1>1, <1>2, <1>3, <1>4 DEF AllHeld

LEMMA ResetHolds ==
    ASSUME WorldInv, LivesInv, NEW p \in Passes, ResetStep(p)
    PROVE  AllHeld
<1>0. TypeOK /\ MobRows /\ PassInv(p) /\ pass = [q \in Passes |-> pass[q]]
  BY DEF WorldInv
<1>1. ASSUME UNCHANGED tables PROVE AllHeld
  BY <1>1, SameHeld DEF AllHeld, tables
<1>2. CASE StartPass(p) \/ Gate(p) \/ CountMob(p) \/ EndPass(p)
  <2>1. UNCHANGED tables
    BY <1>2, Zenon DEF StartPass, Gate, CountMob, EndPass, tables
  <2> QED BY <1>1, <2>1
<1>3. CASE SpawnMob(p)
  <2> DEFINE m == pass[p].mob
  <2>1. pass[p].at = "spawn" /\ mobs' = [mobs EXCEPT ![m].live = mobs[m].live + 1]
        /\ UNCHANGED <<rooms, exits, items>>
    BY <1>3 DEF SpawnMob
  <2>2. m \in DOMAIN mobs /\ mobs[m].live = 0
    BY <1>0, <2>1 DEF PassInv, LivesInv
  <2>3. mobs[m] \in [home : DOMAIN zones, live : Nat]
    BY <1>0, <2>2 DEF MobRows
  <2> HIDE DEF m
  <2>4. DOMAIN mobs' = DOMAIN mobs /\ mobs'[m].home = mobs[m].home /\ \A x \in DOMAIN mobs : x # m => mobs'[x] = mobs[x]
    BY <2>1, <2>2, <2>3
  <2>5. MobsHeld
    BY <2>2, <2>4 DEF MobsHeld
  <2> QED BY <2>1, <2>5, SameHeld DEF AllHeld
<1>4. CASE RestoreDoors(p)
  <2> DEFINE z == pass[p].zone
             t == Goes(p, "items", {i \in DOMAIN specs : specs[i] = z})
  <2>1. /\ pass[p].at = "count" /\ UNCHANGED <<rooms, items, mobs>> /\ pass' = [pass EXCEPT ![p] = t]
        /\ exits' = [d \in DOMAIN exits |->
                   IF rooms[exits[d].from].zone = z
                   THEN [exits[d] EXCEPT !.state = exits[d].authored] ELSE exits[d]]
    BY <1>4 DEF RestoreDoors
  <2>2. t.at = "items"
    BY DEF Goes
  <2>3. z = pass[p].zone
    OBVIOUS
  <2> HIDE DEF t, z
  <2>4. pass'[p].at = "items"
    BY <1>0, <2>1, <2>2
  <2>5. ASSUME NEW d \in DOMAIN exits
        PROVE  /\ d \in DOMAIN exits' /\ exits'[d].to = exits[d].to
               /\ exits'[d].state # exits[d].state => z = rooms[exits[d].from].zone
    <3>1. exits[d] \in [from : DOMAIN rooms, to : DOMAIN rooms, state : DoorStates, authored : DoorStates]
      BY <1>0 DEF TypeOK
    <3> QED BY <2>1, <3>1
  <2>6. ExitsHeld
    BY <2>1, <2>3, <2>4, <2>5 DEF ExitsHeld
  <2> QED BY <2>1, <2>6, SameHeld DEF AllHeld
<1>5. CASE RespawnItem(p)
  <2>1. PICK i \in pass[p].left : items' = Adding(items, [j \in {i} |-> Floor])
    BY <1>5 DEF RespawnItem
  <2> DEFINE n == [j \in {i} |-> Floor]
  <2>2. items' = Adding(items, n)
    BY <2>1
  <2> HIDE DEF n
  <2>3. DOMAIN Adding(items, n) = DOMAIN items \union DOMAIN n /\ \A k \in DOMAIN items : Adding(items, n)[k] = items[k]
    BY AddingFacts
  <2>4. ItemsHeld
    BY <2>2, <2>3 DEF ItemsHeld
  <2>5. UNCHANGED <<rooms, exits, mobs>>
    BY <1>5, Zenon DEF RespawnItem
  <2> QED BY <2>4, <2>5, SameHeld DEF AllHeld
<1>6. CASE RecordReset(p)
  <2>1. UNCHANGED <<rooms, exits, items, mobs>>
    BY <1>6, Zenon DEF RecordReset
  <2> QED BY <2>1, SameHeld DEF AllHeld
<1> QED BY <1>2, <1>3, <1>4, <1>5, <1>6 DEF ResetStep

\* Where no two area resets overlap, a boot and a reset only add to a
\* world that has been played in: no row goes away, an edited room, a
\* retargeted exit, a carried item and a living mob stay as they are, a
\* door is turned only by a reset of its own zone, and the room with id 1
\* stays the room it is (internal/world/loader.go and respawn.go).
THEOREM BootsAlwaysKeep == OnePass => (Spec => BootsKeepTheWorld)
<1> SUFFICES ASSUME OnePass PROVE Spec => BootsKeepTheWorld
  OBVIOUS
<1> DEFINE Held == (pass' # pass \/ up' # up) => AllHeld
           Whole ==
             (pass' # pass \/ up' # up) =>
                /\ \A r \in DOMAIN rooms : r \in DOMAIN rooms' /\ rooms'[r] = rooms[r]
                /\ \A d \in DOMAIN exits :
                     /\ d \in DOMAIN exits' /\ exits'[d].to = exits[d].to
                     /\ exits'[d].state # exits[d].state =>
                          \E p \in Passes : /\ pass[p].at = "count" /\ pass'[p].at = "items"
                                            /\ pass[p].zone = rooms[exits[d].from].zone
                /\ \A i \in DOMAIN items : i \in DOMAIN items' /\ items'[i] = items[i]
                /\ \A m \in DOMAIN mobs : /\ m \in DOMAIN mobs' /\ mobs'[m].home = mobs[m].home
                                          /\ mobs[m].live > 0 => mobs'[m].live = mobs[m].live
<1>0. Held <=> Whole
  BY DEF AllHeld, RoomsHeld, ExitsHeld, ItemsHeld, MobsHeld
<1>1. ASSUME WorldInv, LivesInv, Next PROVE Held
  <2>1. ASSUME NEW e \in Editions, LoadAndSync(e) PROVE Held
    BY <1>1, <2>1, BootHolds
  <2>2. ASSUME Crash PROVE Held
    BY <2>2, SameHeld DEF Crash, tables, AllHeld
  <2>3. ASSUME NEW p \in Passes, ResetStep(p) PROVE Held
    BY <1>1, <2>3, ResetHolds
  <2>4. ASSUME \/ AgeZones
               \/ \E z \in Zones : Wander(z)
               \/ \E i \in Things : LoseItem(i) \/ \E to \in Players \union {Floor} : MoveItem(i, to)
               \/ \E m \in Mobs : Kill(m)
               \/ \E d \in Doors :
                    \/ \E st \in DoorStates : TurnDoor(d, st)
                    \/ \E r \in Rooms : Retarget(d, r)
               \/ \E r \in Rooms, t \in Texts : EditRoom(r, t)
        PROVE  Held
    <3>1. pass' = pass /\ up' = up
      BY <2>4 DEF AgeZones, Wander, LoseItem, MoveItem, Kill, TurnDoor, Retarget, EditRoom
    <3> QED BY <3>1
  <2> HIDE DEF Held
  <2> QED BY <1>1, <2>1, <2>2, <2>3, <2>4 DEF Next
<1> HIDE DEF Held, Whole
<1>2. WorldInv /\ LivesInv /\ [Next]_vars => [Whole]_vars
  BY <1>0, <1>1
<1>3. Spec => [][Whole]_vars
  BY <1>2, LivesInvariant, PTL DEF Spec
<1>4. Spec => HandsOff
  BY <1>3 DEF Whole, HandsOff
<1> QED BY <1>4, RoomsKeepTheirIds DEF BootsKeepTheWorld

-----------------------------------------------------------------------------
(* Flows (Flow).                                                            *)

\* C is closed under the answers up to s; the least such set is what a flow goes
\* through before it first comes to s.
Upto(n, values, s, C) ==
    /\ Releases[n].first \in C \cup {s}
    /\ \A p \in C : Follow(Releases[n], values, p) \subseteq C \cup {s, "end"}
Before(n, values, s) ==
    {p \in Asks(n) \ {s} : \A C \in SUBSET (Asks(n) \ {s}) : Upto(n, values, s, C) => p \in C}

Committing(p) == KindOf[p] \in {"confirm", "action"}

\* With these answers a flow may stand at s: the questions on the way there are
\* answered, what the steps there had to buy is bought, unless it is being bought
\* again, and what the answers lead through has s or a step that commits.
Sound(n, values, s) ==
    /\ s \in Asks(n)
    /\ \A p \in Before(n, values, s) : KindOf[p] = "ask" => values.answer[p] \in DOMAIN Releases[n].next[p]
    /\ \A p \in Before(n, values, s) : KindOf[p] = "buy" /\ KindOf[s] # "buy" => Spent(values.score) = Budget
    /\ \A C \in SUBSET Asks(n) : Closed(Releases[n], values, C) => s \in C \/ \E p \in C : Committing(p)

Replies == UNION {UNION {DOMAIN Releases[n].next[p] : p \in Asks(n)} : n \in DOMAIN Releases}
Values == [answer : [FlowSteps -> Replies \cup {"unset"}], score : [Wares -> Int]]

FlowTypes ==
    /\ catalog \in DOMAIN Releases
    /\ stored \in [step : FlowSteps \cup {"none"}, values : Values]
    /\ guest \in [Guests -> [at : {"away", "menu", "prompt", "auto", "advance"},
                             step : FlowSteps \cup {"none"}, values : Values,
                             to : FlowSteps \cup {"none", "end"}]]
    /\ committed \in {<< >>} \cup {<<c>> : c \in [values : Values, release : DOMAIN Releases]}

FlowSound ==
    /\ \A g \in Guests :
          /\ guest[g].at \in {"prompt", "auto"} => Sound(catalog, guest[g].values, guest[g].step)
          /\ guest[g].at = "advance" => guest[g].to = "end" \/ Sound(catalog, guest[g].values, guest[g].to)
    /\ stored.step \in Asks(catalog) => Sound(catalog, stored.values, stored.step)
FlowInv == FlowSound /\ CommitIsWhole

LEMMA FlowFacts ==
    ASSUME NEW n \in DOMAIN Releases
    PROVE  /\ Asks(n) \subseteq FlowSteps /\ Releases[n].first \in Asks(n)
           /\ "end" \notin FlowSteps /\ "none" \notin FlowSteps /\ BranchOn \in FlowSteps
           /\ \A p \in Asks(n) :
                 /\ KindOf[p] \in {"ask", "confirm", "buy", "branch", "action"}
                 /\ "unset" \notin DOMAIN Releases[n].next[p]
                 /\ KindOf[p] = "branch" => "default" \in DOMAIN Releases[n].next[p]
                 /\ KindOf[p] \in {"buy", "action"} => "done" \in DOMAIN Releases[n].next[p]
                 /\ \A a \in DOMAIN Releases[n].next[p] : Releases[n].next[p][a] \in Asks(n) \cup {"end"}
BY FlowAssumption DEF Asks

\* The answer a step is left with, and where it leads.
Reply(n, values, p) ==
    CASE KindOf[p] = "branch" -> IF values.answer[BranchOn] \in DOMAIN Releases[n].next[p]
                                 THEN values.answer[BranchOn] ELSE "default"
      [] KindOf[p] = "ask" -> values.answer[p]
      [] OTHER -> "done"

LEMMA FollowIs ==
    ASSUME NEW n \in DOMAIN Releases, NEW v, NEW p \in Asks(n)
    PROVE  Follow(Releases[n], v, p) =
              IF ~Committing(p) /\ Reply(n, v, p) \in DOMAIN Releases[n].next[p]
              THEN {Releases[n].next[p][Reply(n, v, p)]} ELSE {}
<1>1. KindOf[p] \in {"ask", "confirm", "buy", "branch", "action"}
  BY FlowFacts
<1>2. CASE KindOf[p] = "branch"
  <2>1. Reply(n, v, p) \in DOMAIN Releases[n].next[p]
    BY <1>2, FlowFacts DEF Reply
  <2> QED BY <1>2, <2>1 DEF Follow, Reply, Committing
<1>3. CASE KindOf[p] = "ask"
  <2>1. Follow(Releases[n], v, p) =
           {Releases[n].next[p][a] : a \in DOMAIN Releases[n].next[p] \cap {v.answer[p]}}
    BY <1>3 DEF Follow
  <2>2. Reply(n, v, p) = v.answer[p] /\ ~Committing(p)
    BY <1>3 DEF Reply, Committing
  <2> QED BY <2>1, <2>2
<1>4. CASE KindOf[p] = "buy"
  BY <1>4, FlowFacts DEF Follow, Reply, Committing
<1>5. CASE KindOf[p] \in {"confirm", "action"}
  BY <1>5 DEF Follow, Committing
<1> QED BY <1>1, <1>2, <1>3, <1>4, <1>5

LEMMA FollowInside ==
    ASSUME NEW n \in DOMAIN Releases, NEW v, NEW p \in Asks(n)
    PROVE  Follow(Releases[n], v, p) \subseteq Asks(n) \cup {"end"}
BY FollowIs, FlowFacts

\* The steps on the way to s are closed up to s, and the least such set.
LEMMA BeforeIsUpto ==
    ASSUME NEW n \in DOMAIN Releases, NEW v, NEW s
    PROVE  Upto(n, v, s, Before(n, v, s)) /\ Before(n, v, s) \in SUBSET (Asks(n) \ {s})
<1> DEFINE B == Before(n, v, s)
<1>1. B \in SUBSET (Asks(n) \ {s})
  BY DEF Before
<1>2. Releases[n].first \in B \cup {s}
  BY FlowFacts DEF Before, Upto
<1>3. ASSUME NEW p \in B, NEW t \in Follow(Releases[n], v, p) PROVE t \in B \cup {s, "end"}
  <2>1. SUFFICES ASSUME t \notin {s, "end"} PROVE t \in B
    OBVIOUS
  <2>2. t \in Asks(n) \ {s}
    BY <1>1, <1>3, <2>1, FollowInside
  <2>3. ASSUME NEW C \in SUBSET (Asks(n) \ {s}), Upto(n, v, s, C) PROVE t \in C
    <3>1. p \in C
      BY <1>3, <2>3 DEF Before
    <3> QED BY <1>3, <2>1, <2>3, <3>1 DEF Upto
  <2> QED BY <2>2, <2>3 DEF Before
<1> QED BY <1>1, <1>2, <1>3 DEF Upto

LEMMA BeforeIsLeast ==
    ASSUME NEW n \in DOMAIN Releases, NEW v, NEW s, NEW C \in SUBSET Asks(n), Upto(n, v, s, C)
    PROVE  Before(n, v, s) \subseteq C
<1>1. Upto(n, v, s, C \ {s})
  BY DEF Upto
<1> QED BY <1>1 DEF Before

\* The same of the whole path.
LEMMA PathIsClosed ==
    ASSUME NEW n \in DOMAIN Releases, NEW v
    PROVE  Closed(Releases[n], v, Path(Releases[n], v)) /\ Path(Releases[n], v) \in SUBSET Asks(n)
<1> DEFINE P == Path(Releases[n], v)
<1>1. P \in SUBSET Asks(n)
  BY DEF Path, Asks
<1>2. Releases[n].first \in P
  BY FlowFacts DEF Path, Closed, Asks
<1>3. ASSUME NEW p \in P, NEW t \in Follow(Releases[n], v, p), t # "end" PROVE t \in P
  <2>1. t \in Asks(n)
    BY <1>1, <1>3, FollowInside
  <2>2. ASSUME NEW C \in SUBSET Asks(n), Closed(Releases[n], v, C) PROVE t \in C
    <3>1. p \in C
      BY <1>3, <2>2 DEF Path, Asks
    <3> QED BY <1>3, <2>2, <3>1 DEF Closed
  <2> QED BY <2>1, <2>2 DEF Path, Asks
<1> QED BY <1>1, <1>2, <1>3 DEF Closed

LEMMA PathIsLeast ==
    ASSUME NEW n \in DOMAIN Releases, NEW v, NEW C \in SUBSET Asks(n), Closed(Releases[n], v, C)
    PROVE  Path(Releases[n], v) \subseteq C
BY DEF Path, Asks

\* A flow begins at its first step.
LEMMA SoundAtFirst ==
    ASSUME NEW n \in DOMAIN Releases, NEW v
    PROVE  Sound(n, v, Releases[n].first)
<1>1. Upto(n, v, Releases[n].first, {})
  BY DEF Upto
<1>2. Before(n, v, Releases[n].first) = {}
  BY <1>1, BeforeIsLeast
<1>3. Releases[n].first \in Asks(n)
  BY FlowFacts
<1> QED BY <1>2, <1>3 DEF Sound, Closed

\* It goes on to the step that the answers lead to, or to any after a commit.
LEMMA SoundMove ==
    ASSUME NEW n \in DOMAIN Releases, NEW v, NEW s, Sound(n, v, s), NEW t \in Asks(n),
           Committing(s) \/ Follow(Releases[n], v, s) = {t},
           KindOf[s] = "ask" => v.answer[s] \in DOMAIN Releases[n].next[s],
           KindOf[s] = "buy" => Spent(v.score) = Budget
    PROVE  Sound(n, v, t)
<1>s. s \in Asks(n)
  BY DEF Sound
<1>1. Follow(Releases[n], v, s) \subseteq {t}
  BY <1>s, FollowIs
<1>2. Before(n, v, t) \subseteq Before(n, v, s) \cup {s}
  <2> DEFINE C == Before(n, v, s) \cup {s}
  <2>1. Upto(n, v, t, C)
    <3>1. Upto(n, v, s, Before(n, v, s))
      BY BeforeIsUpto
    <3> QED BY <1>1, <3>1 DEF Upto
  <2>2. C \in SUBSET Asks(n)
    BY <1>s, BeforeIsUpto
  <2> QED BY <2>1, <2>2, BeforeIsLeast
<1>3. \A p \in Before(n, v, t) : KindOf[p] = "ask" => v.answer[p] \in DOMAIN Releases[n].next[p]
  BY <1>2 DEF Sound
<1>4. ASSUME NEW p \in Before(n, v, t), KindOf[p] = "buy" PROVE Spent(v.score) = Budget
  BY <1>2, <1>4 DEF Sound
<1>5. ASSUME NEW C \in SUBSET Asks(n), Closed(Releases[n], v, C)
      PROVE  t \in C \/ \E p \in C : Committing(p)
  <2>1. CASE \E p \in C : Committing(p)
    BY <2>1
  <2>2. CASE s \in C /\ ~Committing(s)
    <3>1. t \in C \cup {"end"}
      BY <1>5, <2>2 DEF Closed
    <3>2. t # "end"
      BY FlowFacts
    <3> QED BY <3>1, <3>2
  <2> QED BY <1>5, <2>1, <2>2 DEF Sound
<1> QED BY <1>3, <1>4, <1>5 DEF Sound

\* A score is changed at a step that buys.
LEMMA SoundScore ==
    ASSUME NEW n \in DOMAIN Releases, NEW v, NEW w, NEW s, Sound(n, v, s), KindOf[s] = "buy",
           w.answer = v.answer
    PROVE  Sound(n, w, s)
<1>1. \A p \in Asks(n) : Follow(Releases[n], w, p) = Follow(Releases[n], v, p)
  BY DEF Follow
<1>2. Before(n, w, s) = Before(n, v, s)
  <2>1. \A C \in SUBSET (Asks(n) \ {s}) : Upto(n, w, s, C) <=> Upto(n, v, s, C)
    BY <1>1 DEF Upto
  <2> QED BY <2>1 DEF Before
<1>3. \A C \in SUBSET Asks(n) : Closed(Releases[n], w, C) <=> Closed(Releases[n], v, C)
  BY <1>1 DEF Closed
<1> QED BY <1>2, <1>3 DEF Sound

\* An answer changes where its own step leads.  No branch that looks at it is on
\* the way there.
LEMMA SoundAnswer ==
    ASSUME BranchesLookBack, NEW n \in DOMAIN Releases, NEW v \in Values, NEW s, Sound(n, v, s),
           KindOf[s] = "ask", NEW a, NEW w, w.answer = [v.answer EXCEPT ![s] = a], w.score = v.score
    PROVE  Sound(n, w, s)
<1> DEFINE B == Before(n, v, s)
<1>s. s \in Asks(n) /\ s \in FlowSteps /\ BranchOn \in FlowSteps
  BY FlowFacts DEF Sound
<1>1. Upto(n, v, s, B) /\ B \in SUBSET (Asks(n) \ {s})
  BY BeforeIsUpto
<1>2. \A p \in FlowSteps : w.answer[p] = IF p = s THEN a ELSE v.answer[p]
  BY <1>s DEF Values
<1>3. ASSUME s = BranchOn, NEW p \in B PROVE KindOf[p] # "branch"
  <2>1. PICK early \in SUBSET (Asks(n) \ {BranchOn}) :
           /\ Releases[n].first \in early \cup {BranchOn}
           /\ \A q \in early : KindOf[q] # "branch" /\ \A x \in DOMAIN Releases[n].next[q] :
                 Releases[n].next[q][x] \in early \cup {BranchOn, "end"}
    BY DEF BranchesLookBack
  <2>2. \A q \in early : Follow(Releases[n], v, q) \subseteq early \cup {BranchOn, "end"}
    BY <2>1, FollowIs
  <2>3. Upto(n, v, s, early)
    BY <1>3, <2>1, <2>2 DEF Upto
  <2>4. B \subseteq early
    BY <2>3, BeforeIsLeast
  <2> QED BY <1>3, <2>1, <2>4
<1> HIDE DEF B
<1>4. ASSUME NEW p \in B PROVE Follow(Releases[n], w, p) = Follow(Releases[n], v, p)
  <2>1. p \in Asks(n) /\ p # s /\ p \in FlowSteps
    BY <1>1, <1>4, FlowFacts
  <2>2. Reply(n, w, p) = Reply(n, v, p)
    BY <1>2, <1>3, <1>4, <1>s, <2>1 DEF Reply
  <2> QED BY <2>1, <2>2, FollowIs
<1>5. Before(n, w, s) \subseteq B
  <2>1. Upto(n, w, s, B)
    BY <1>1, <1>4 DEF Upto
  <2> QED BY <1>1, <2>1, BeforeIsLeast
<1>6. \A p \in Before(n, w, s) : KindOf[p] = "ask" => w.answer[p] \in DOMAIN Releases[n].next[p]
  <2>1. \A p \in B : p \in FlowSteps /\ p # s
    BY <1>1, FlowFacts
  <2> QED BY <1>2, <1>5, <2>1 DEF Sound, B
<1>7. \A p \in Before(n, w, s) : KindOf[p] = "buy" /\ KindOf[s] # "buy" => Spent(w.score) = Budget
  BY <1>5 DEF Sound, B
<1>8. ASSUME NEW C \in SUBSET Asks(n), Closed(Releases[n], w, C), s \notin C
      PROVE  \E p \in C : Committing(p)
  <2> DEFINE D == C \cap B
  <2>1. Releases[n].first \in D
    BY <1>1, <1>8 DEF Closed, Upto
  <2>2. ASSUME NEW p \in D PROVE Follow(Releases[n], v, p) \subseteq D \cup {"end"}
    <3>1. Follow(Releases[n], v, p) \subseteq C \cup {"end"}
      BY <1>4, <1>8, <2>2 DEF Closed
    <3>2. Follow(Releases[n], v, p) \subseteq B \cup {s, "end"}
      BY <1>1, <2>2 DEF Upto
    <3> QED BY <1>8, <3>1, <3>2
  <2>3. Closed(Releases[n], v, D) /\ D \in SUBSET Asks(n)
    BY <2>1, <2>2 DEF Closed
  <2> QED BY <1>8, <2>3 DEF Sound
<1> QED BY <1>6, <1>7, <1>8, <1>s DEF Sound

\* What a flow commits where it stands is whole.
WholeOn(n, values) ==
    LET path == Path(Releases[n], values)
    IN  /\ \E p \in path : KindOf[p] \in {"confirm", "action"}
        /\ \A p \in path :
              /\ KindOf[p] = "ask" => values.answer[p] # "unset"
              /\ KindOf[p] = "buy" => Spent(values.score) = Budget

LEMMA SoundCommit ==
    ASSUME NEW n \in DOMAIN Releases, NEW v, NEW s, Sound(n, v, s), Committing(s)
    PROVE  WholeOn(n, v)
<1> DEFINE P == Path(Releases[n], v)
<1>s. s \in Asks(n)
  BY DEF Sound
<1>1. P \subseteq Before(n, v, s) \cup {s}
  <2> DEFINE C == Before(n, v, s) \cup {s}
  <2>1. Follow(Releases[n], v, s) = {}
    BY <1>s, FollowIs
  <2>2. C \in SUBSET Asks(n) /\ Closed(Releases[n], v, C)
    BY <1>s, <2>1, BeforeIsUpto DEF Upto, Closed
  <2> QED BY <2>2, PathIsLeast
<1>2. P \in SUBSET Asks(n) /\ Closed(Releases[n], v, P)
  BY PathIsClosed
<1>3. \E p \in P : Committing(p)
  BY <1>2 DEF Sound
<1>4. ASSUME NEW p \in P, KindOf[p] = "ask" PROVE v.answer[p] # "unset"
  <2>1. p \in Before(n, v, s)
    BY <1>1, <1>4 DEF Committing
  <2>2. v.answer[p] \in DOMAIN Releases[n].next[p]
    BY <1>4, <2>1 DEF Sound
  <2> QED BY <1>2, <2>2, FlowFacts
<1>5. ASSUME NEW p \in P, KindOf[p] = "buy" PROVE Spent(v.score) = Budget
  BY <1>1, <1>5 DEF Sound, Committing
<1> HIDE DEF P
<1> QED BY <1>3, <1>4, <1>5 DEF WholeOn, Committing, P

\* What was stored under a release is as sound under one that drops steps.
LEMMA SoundRelease ==
    ASSUME ReleasesLeadPast, NEW n \in DOMAIN Releases, NEW r \in DOMAIN Releases,
           Asks(r) \subseteq Asks(n), NEW v, NEW s \in Asks(r), Sound(n, v, s)
    PROVE  Sound(r, v, s)
<1>1. PICK past \in [Asks(n) \cup {"end"} -> Asks(r) \cup {"end"}] : LeadsPast(n, r, past)
  BY DEF ReleasesLeadPast
<1>e. "end" \notin Asks(n) /\ "end" \notin Asks(r)
  BY FlowFacts
<1>2. ASSUME NEW p \in Asks(r)
      PROVE  /\ p \in Asks(n) /\ past[p] = p
             /\ DOMAIN Releases[r].next[p] = DOMAIN Releases[n].next[p]
             /\ \A a \in DOMAIN Releases[n].next[p] : Releases[r].next[p][a] = past[Releases[n].next[p][a]]
  <2>1. p \in Asks(n) /\ past[p] = p
    BY <1>1, <1>2 DEF LeadsPast
  <2>2. Releases[r].next[p] = [a \in DOMAIN Releases[n].next[p] |-> past[Releases[n].next[p][a]]]
    BY <1>1, <1>2 DEF LeadsPast
  <2> QED BY <2>1, <2>2
<1>3. ASSUME NEW p \in Asks(r)
      PROVE  Follow(Releases[r], v, p) = {past[t] : t \in Follow(Releases[n], v, p)}
  <2>1. Reply(r, v, p) = Reply(n, v, p)
    BY <1>2, <1>3 DEF Reply
  <2> QED BY <1>2, <1>3, <2>1, FollowIs
<1>4. ASSUME NEW p \in Asks(n), p \notin Asks(r)
      PROVE  ~Committing(p) /\ \A t \in Follow(Releases[n], v, p) : past[t] = past[p]
  <2>1. /\ KindOf[p] \notin {"confirm", "action"}
        /\ \A a \in DOMAIN Releases[n].next[p] : past[Releases[n].next[p][a]] = past[p]
    BY <1>1, <1>4 DEF LeadsPast
  <2> QED BY <1>4, <2>1, FollowIs DEF Committing
<1>f. past["end"] = "end" /\ Releases[r].first = past[Releases[n].first] /\ Releases[n].first \in Asks(n)
      /\ Releases[r].first \in Asks(r) /\ past[s] = s /\ s \in Asks(n)
  BY <1>1, <1>2, FlowFacts DEF LeadsPast
<1> DEFINE B == Before(n, v, s)
\* Every step on the way leads to s or to a commit.
<1>5. ASSUME NEW p \in B, NEW C \in SUBSET Asks(n), p \in C,
             \A q \in C : Follow(Releases[n], v, q) \subseteq C \cup {"end"}
      PROVE  s \in C \/ \E q \in C : Committing(q)
  <2> DEFINE Leads(q) == \A D \in SUBSET Asks(n) :
               q \in D /\ (\A x \in D : Follow(Releases[n], v, x) \subseteq D \cup {"end"})
                  => s \in D \/ \E x \in D : Committing(x)
             E == {q \in B : Leads(q)}
  <2>1. B \in SUBSET (Asks(n) \ {s}) /\ Upto(n, v, s, B)
    BY BeforeIsUpto
  <2>2. Releases[n].first \in E \cup {s}
    <3>1. Leads(Releases[n].first)
      BY DEF Sound, Closed
    <3> QED BY <2>1, <3>1 DEF Upto
  <2>3. ASSUME NEW q \in E, NEW t \in Follow(Releases[n], v, q), t \notin {s, "end"} PROVE t \in E
    <3>1. t \in B
      BY <2>1, <2>3 DEF Upto
    <3>2. ASSUME NEW D \in SUBSET Asks(n), t \in D,
                 \A x \in D : Follow(Releases[n], v, x) \subseteq D \cup {"end"}
          PROVE  s \in D \/ \E x \in D : Committing(x)
      <4> DEFINE F == D \cup {q}
      <4>q. q \in Asks(n) /\ q # s /\ Leads(q)
        BY <2>1
      <4>1. Follow(Releases[n], v, q) = {t} /\ ~Committing(q)
        BY <2>3, <4>q, FollowIs
      <4>2. F \in SUBSET Asks(n) /\ q \in F /\ \A x \in F : Follow(Releases[n], v, x) \subseteq F \cup {"end"}
        BY <3>2, <4>1, <4>q
      <4>3. s \in F \/ \E x \in F : Committing(x)
        BY <4>2, <4>q
      <4> QED BY <4>1, <4>3, <4>q
    <3> QED BY <3>1, <3>2
  <2>4. Upto(n, v, s, E) /\ E \in SUBSET Asks(n)
    <3> HIDE DEF E
    <3>1. E \subseteq B
      BY DEF E
    <3> QED BY <2>1, <2>2, <2>3, <3>1 DEF Upto
  <2>5. B \subseteq E
    <3> HIDE DEF E
    <3> QED BY <2>4, BeforeIsLeast
  <2>6. Leads(p)
    BY <2>5
  <2> QED BY <1>5, <2>6
<1>b. B \in SUBSET (Asks(n) \ {s}) /\ Upto(n, v, s, B)
  BY BeforeIsUpto
<1> HIDE DEF B
\* A dropped step on the way leads past to what is on the way.
<1>6. ASSUME NEW t \in B, t \notin Asks(r) PROVE past[t] \in B \cup {s, "end"}
  <2> DEFINE C == {q \in B : q \notin Asks(r) /\ past[q] = past[t]}
  <2>1. SUFFICES ASSUME past[t] \notin B \cup {s, "end"} PROVE FALSE
    OBVIOUS
  <2>2. ASSUME NEW q \in C, NEW u \in Follow(Releases[n], v, q) PROVE u \in C \cup {"end"}
    <3>1. q \in B /\ q \in Asks(n) /\ q \notin Asks(r) /\ past[q] = past[t]
      BY <1>b, <2>2
    <3>2. past[u] = past[t]
      BY <1>4, <2>2, <3>1
    <3>3. u \in B \cup {s, "end"}
      BY <1>b, <2>2, <3>1 DEF Upto
    <3>4. u # s /\ u # "end"
      BY <1>f, <2>1, <3>2
    <3>5. u \notin Asks(r)
      BY <1>2, <2>1, <3>2, <3>3, <3>4
    <3> QED BY <3>2, <3>3, <3>4, <3>5
  <2>3. C \in SUBSET Asks(n) /\ t \in C /\ \A q \in C : ~Committing(q)
    BY <1>4, <1>6, <1>b
  <2>4. s \notin C
    BY <1>b
  <2> HIDE DEF C
  <2> QED BY <1>5, <1>6, <2>2, <2>3, <2>4
<1>7. Before(r, v, s) \subseteq B \cap Asks(r)
  <2> DEFINE C == B \cap Asks(r)
  <2>1. ASSUME NEW t \in B \cup {s, "end"} PROVE past[t] \in C \cup {s, "end"}
    <3>1. t \in Asks(n) \cup {"end"}
      BY <1>b, <1>f, <2>1
    <3>2. past[t] \in Asks(r) \cup {"end"}
      BY <3>1
    <3>3. past[t] \in B \cup {s, "end"}
      BY <1>2, <1>6, <1>f, <2>1
    <3> QED BY <3>2, <3>3
  <2>2. Releases[r].first \in C \cup {s}
    <3>1. Releases[n].first \in B \cup {s}
      BY <1>b DEF Upto
    <3> QED BY <1>e, <1>f, <2>1, <3>1
  <2>3. ASSUME NEW p \in C PROVE Follow(Releases[r], v, p) \subseteq C \cup {s, "end"}
    <3>1. Follow(Releases[n], v, p) \subseteq B \cup {s, "end"}
      BY <1>b DEF Upto
    <3> HIDE DEF C
    <3>2. p \in Asks(r)
      BY DEF C
    <3> QED BY <1>3, <2>1, <3>1, <3>2
  <2>4. Upto(r, v, s, C)
    BY <2>2, <2>3 DEF Upto
  <2> QED BY <2>4, BeforeIsLeast
<1>8. ASSUME NEW C \in SUBSET Asks(r), Closed(Releases[r], v, C)
      PROVE  s \in C \/ \E p \in C : Committing(p)
  <2> DEFINE D == {p \in Asks(n) : past[p] \in C \cup {"end"}}
  <2>1. Releases[n].first \in D
    BY <1>8, <1>f DEF Closed
  <2>2. ASSUME NEW p \in D, NEW t \in Follow(Releases[n], v, p), t # "end" PROVE t \in D
    <3>1. p \in Asks(n) /\ t \in Asks(n)
      BY <2>2, FollowInside
    <3>2. CASE p \in Asks(r)
      <4>1. p \in C
        BY <1>2, <1>e, <2>2, <3>2
      <4>2. past[t] \in C \cup {"end"}
        BY <1>3, <1>8, <2>2, <3>2, <4>1 DEF Closed
      <4> QED BY <3>1, <4>2
    <3>3. CASE p \notin Asks(r)
      BY <1>4, <2>2, <3>1, <3>3
    <3> QED BY <3>2, <3>3
  <2>3. Closed(Releases[n], v, D) /\ D \in SUBSET Asks(n)
    BY <2>1, <2>2 DEF Closed
  <2>4. s \in D \/ \E p \in D : Committing(p)
    <3> HIDE DEF D
    <3> QED BY <2>3 DEF Sound
  <2>5. CASE s \in D
    BY <1>e, <1>f, <2>5
  <2>6. ASSUME NEW p \in D, Committing(p) PROVE p \in C
    <3>1. p \in Asks(r)
      BY <1>4, <2>6
    <3> QED BY <1>2, <1>e, <2>6, <3>1
  <2> QED BY <2>4, <2>5, <2>6
<1>9. \A p \in Before(r, v, s) : /\ KindOf[p] = "ask" => v.answer[p] \in DOMAIN Releases[r].next[p]
                                 /\ KindOf[p] = "buy" /\ KindOf[s] # "buy" => Spent(v.score) = Budget
  BY <1>2, <1>7 DEF Sound, B
<1> QED BY <1>8, <1>9 DEF Sound

-----------------------------------------------------------------------------
(* The steps of the flow.                                                   *)

LEMMA NoAnswerIsValues == NoAnswer \in Values
BY FlowAssumption DEF NoAnswer, Values

GuestStates == [at : {"away", "menu", "prompt", "auto", "advance"}, step : FlowSteps \cup {"none"},
                values : Values, to : FlowSteps \cup {"none", "end"}]

LEMMA AwayIsState == Away \in GuestStates
BY NoAnswerIsValues DEF Away, GuestStates

\* Where a session stands is sound.
GuestSound(n, x) ==
    /\ x.at \in {"prompt", "auto"} => Sound(n, x.values, x.step)
    /\ x.at = "advance" => x.to = "end" \/ Sound(n, x.values, x.to)

StoredSound(n, x) == x.step \in Asks(n) => Sound(n, x.values, x.step)

LEMMA FlowStart == FlowInit => FlowTypes /\ FlowInv
<1> SUFFICES ASSUME FlowInit PROVE FlowTypes /\ FlowInv
  OBVIOUS
<1>1. \A g \in Guests : guest[g] = Away
  BY DEF FlowInit
<1>2. stored.step = "none" /\ "none" \notin FlowSteps /\ Asks(catalog) \subseteq FlowSteps
  BY FlowFacts DEF FlowInit, Nothing
<1>3. FlowTypes
  BY AwayIsState, NoAnswerIsValues DEF FlowInit, FlowTypes, Nothing, GuestStates
<1>4. FlowSound
  BY <1>1, <1>2 DEF FlowSound, Away
<1>5. CommitIsWhole
  BY DEF FlowInit, CommitIsWhole
<1> QED BY <1>3, <1>4, <1>5 DEF FlowInv

\* A step of one session that leaves the catalog alone.
LEMMA FlowStep ==
    ASSUME FlowTypes, FlowInv, NEW g \in Guests, NEW x \in GuestStates,
           guest' = [guest EXCEPT ![g] = x], catalog' = catalog, GuestSound(catalog, x),
           stored' = stored \/ (stored' \in [step : FlowSteps \cup {"none"}, values : Values]
                                /\ StoredSound(catalog, stored')),
           committed' = committed \/ (Commits(g) /\ WholeOn(catalog, guest[g].values))
    PROVE  FlowTypes' /\ FlowInv'
<1>1. \A h \in Guests : guest'[h] = IF h = g THEN x ELSE guest[h]
  BY DEF FlowTypes
<1>2. guest[g].values \in Values /\ catalog \in DOMAIN Releases
  BY DEF FlowTypes
<1>3. FlowTypes'
  <2>1. guest' \in [Guests -> GuestStates]
    BY DEF FlowTypes, GuestStates
  <2>2. stored' \in [step : FlowSteps \cup {"none"}, values : Values]
    BY DEF FlowTypes
  <2>3. committed' \in {<< >>} \cup {<<c>> : c \in [values : Values, release : DOMAIN Releases]}
    BY <1>2 DEF FlowTypes, Commits
  <2> QED BY <1>2, <2>1, <2>2, <2>3 DEF FlowTypes, GuestStates
<1>4. FlowSound'
  <2>1. \A h \in Guests : GuestSound(catalog, guest'[h])
    BY <1>1 DEF FlowInv, FlowSound, GuestSound
  <2>2. StoredSound(catalog, stored')
    BY DEF FlowInv, FlowSound, StoredSound
  <2> QED BY <2>1, <2>2 DEF FlowSound, GuestSound, StoredSound
<1>5. CommitIsWhole'
  <2>1. CASE committed' = committed
    BY <2>1 DEF FlowInv, CommitIsWhole
  <2>2. CASE Commits(g) /\ WholeOn(catalog, guest[g].values)
    <3>1. DOMAIN committed' = {1} /\ committed'[1].values = guest[g].values /\ committed'[1].release = catalog
      BY <2>2 DEF Commits
    <3> QED BY <2>2, <3>1 DEF CommitIsWhole, WholeOn
  <2> QED BY <2>1, <2>2
<1> QED BY <1>3, <1>4, <1>5 DEF FlowInv

LEMMA FlowNow ==
    ASSUME FlowTypes, FlowInv, NEW g \in Guests
    PROVE  /\ guest[g] \in GuestStates /\ GuestSound(catalog, guest[g]) /\ catalog \in DOMAIN Releases
           /\ stored \in [step : FlowSteps \cup {"none"}, values : Values] /\ StoredSound(catalog, stored)
BY DEF FlowTypes, FlowInv, FlowSound, GuestStates, GuestSound, StoredSound

LEMMA NothingIsSound ==
    ASSUME NEW n \in DOMAIN Releases
    PROVE  Nothing \in [step : FlowSteps \cup {"none"}, values : Values] /\ StoredSound(n, Nothing)
<1>1. Nothing.step = "none" /\ "none" \notin Asks(n)
  BY FlowFacts DEF Nothing
<1> QED BY <1>1, NoAnswerIsValues DEF Nothing, StoredSound

\* A session that is away or in the menu is sound.
LEMMA FlowAborts ==
    ASSUME FlowTypes, FlowInv, NEW g \in Guests, NEW at \in {"away", "menu"},
           Go(g, [Away EXCEPT !.at = at]), catalog' = catalog,
           stored' = Nothing \/ UNCHANGED stored, UNCHANGED committed
    PROVE  FlowTypes' /\ FlowInv'
<1> DEFINE x == [Away EXCEPT !.at = at]
<1>1. x \in GuestStates /\ x.at = at
  BY AwayIsState DEF Away, GuestStates
<1>2. GuestSound(catalog, x)
  BY <1>1 DEF GuestSound
<1>3. guest' = [guest EXCEPT ![g] = x]
  BY DEF Go
<1>4. stored' = stored \/ (stored' \in [step : FlowSteps \cup {"none"}, values : Values]
                           /\ StoredSound(catalog, stored'))
  BY FlowNow, NothingIsSound
<1> HIDE DEF x
<1> QED BY <1>1, <1>2, <1>3, <1>4, FlowStep

LEMMA FlowResumed ==
    ASSUME FlowTypes, FlowInv, NEW g \in Guests, Resumed(g), catalog' = catalog, UNCHANGED committed
    PROVE  FlowTypes' /\ FlowInv'
<1> DEFINE x == [at |-> "prompt", step |-> stored.step, values |-> stored.values, to |-> "none"]
<1>1. guest' = [guest EXCEPT ![g] = x] /\ stored' = stored /\ stored.step \in Asks(catalog)
  BY DEF Resumed, Resumable, Go
<1>2. x \in GuestStates
  BY FlowNow DEF GuestStates
<1>3. GuestSound(catalog, x)
  BY <1>1, FlowNow DEF GuestSound, StoredSound
<1> HIDE DEF x
<1> QED BY <1>1, <1>2, <1>3, FlowStep

LEMMA FlowAfresh ==
    ASSUME FlowTypes, FlowInv, NEW g \in Guests, Afresh(g), catalog' = catalog, UNCHANGED committed
    PROVE  FlowTypes' /\ FlowInv'
<1> DEFINE x == [at |-> "advance", step |-> "none", values |-> NoAnswer, to |-> Releases[catalog].first]
<1>1. guest' = [guest EXCEPT ![g] = x]
  BY DEF Afresh, Go
<1>2. x \in GuestStates
  <2>1. Releases[catalog].first \in FlowSteps
    BY FlowNow, FlowFacts
  <2> QED BY <2>1, NoAnswerIsValues DEF GuestStates
<1>3. GuestSound(catalog, x)
  BY FlowNow, SoundAtFirst DEF GuestSound
<1>4. stored' = stored \/ (stored' \in [step : FlowSteps \cup {"none"}, values : Values]
                           /\ StoredSound(catalog, stored'))
  BY FlowNow, NothingIsSound DEF Afresh
<1> HIDE DEF x
<1> QED BY <1>1, <1>2, <1>3, <1>4, FlowStep

\* A line is taken: the answers change at the step, and the step is left for
\* one that they lead to.
LEMMA FlowTakes ==
    ASSUME FlowTypes, FlowInv, NEW g \in Guests, NEW v \in Values, NEW t \in FlowSteps \cup {"end"},
           Takes(g, v, t), t = "end" \/ Sound(catalog, v, t)
    PROVE  FlowTypes' /\ FlowInv'
<1> DEFINE x == [guest[g] EXCEPT !.values = v, !.at = "advance", !.to = t]
<1>1. guest' = [guest EXCEPT ![g] = x] /\ UNCHANGED <<catalog, stored, committed>>
  BY DEF Takes, Go
<1>2. x \in GuestStates /\ x.at = "advance" /\ x.to = t /\ x.values = v
  BY FlowNow DEF GuestStates
<1>3. GuestSound(catalog, x)
  BY <1>2 DEF GuestSound
<1> HIDE DEF x
<1> QED BY <1>1, <1>2, <1>3, FlowStep

\* What a session at a prompt faces.
LEMMA FlowFaces ==
    ASSUME FlowTypes, FlowInv, NEW g \in Guests, NEW kind, Facing(g, kind)
    PROVE  /\ catalog \in DOMAIN Releases /\ guest[g].step \in Asks(catalog) /\ guest[g].step \in FlowSteps
           /\ KindOf[guest[g].step] = kind /\ Sound(catalog, guest[g].values, guest[g].step)
           /\ guest[g].values \in Values
           /\ NextOf(guest[g].step) = Releases[catalog].next[guest[g].step]
           /\ Answers(guest[g].step) = DOMAIN Releases[catalog].next[guest[g].step]
<1>1. Sound(catalog, guest[g].values, guest[g].step)
  BY FlowNow DEF Facing, At, GuestSound
<1> QED BY <1>1, FlowNow DEF Facing, Sound, GuestStates, NextOf, Answers

LEMMA FlowAnswer ==
    ASSUME BranchesLookBack, FlowTypes, FlowInv, NEW g \in Guests, NEW a, Answer(g, a)
    PROVE  FlowTypes' /\ FlowInv'
<1> DEFINE p == guest[g].step
           v == guest[g].values
           w == [v EXCEPT !.answer = [v.answer EXCEPT ![p] = a]]
           t == Releases[catalog].next[p][a]
<1>1. /\ catalog \in DOMAIN Releases /\ p \in Asks(catalog) /\ p \in FlowSteps /\ KindOf[p] = "ask"
      /\ Sound(catalog, v, p) /\ v \in Values /\ a \in DOMAIN Releases[catalog].next[p]
  BY FlowFaces DEF Answer
<1>2. Takes(g, w, t)
  BY <1>1, FlowFaces DEF Answer
<1>3. a \in Replies
  BY <1>1 DEF Replies
<1> HIDE DEF p, v
<1>4. w \in Values /\ w.answer = [v.answer EXCEPT ![p] = a] /\ w.score = v.score /\ w.answer[p] = a
  BY <1>1, <1>3 DEF Values
<1>5. t \in Asks(catalog) \cup {"end"} /\ t \in FlowSteps \cup {"end"}
  BY <1>1, FlowFacts
<1> HIDE DEF w
<1>6. Sound(catalog, w, p)
  BY <1>1, <1>4, SoundAnswer
<1>7. Follow(Releases[catalog], w, p) = {t}
  <2>1. Reply(catalog, w, p) = a /\ ~Committing(p)
    BY <1>1, <1>4 DEF Reply, Committing
  <2> QED BY <1>1, <2>1, FollowIs
<1> HIDE DEF t
<1>8. t = "end" \/ Sound(catalog, w, t)
  BY <1>1, <1>4, <1>5, <1>6, <1>7, SoundMove
<1> QED BY <1>2, <1>4, <1>5, <1>8, FlowTakes

LEMMA FlowBuys ==
    ASSUME FlowTypes, FlowInv, NEW g \in Guests,
           BuyDone(g) \/ ResetWares(g) \/ \E w \in Wares, n \in {-1, 1} : Adjust(g, w, n)
    PROVE  FlowTypes' /\ FlowInv'
<1> DEFINE p == guest[g].step
           v == guest[g].values
<1>1. /\ catalog \in DOMAIN Releases /\ p \in Asks(catalog) /\ p \in FlowSteps /\ KindOf[p] = "buy"
      /\ Sound(catalog, v, p) /\ v \in Values
      /\ NextOf(p) = Releases[catalog].next[p]
  BY FlowFaces DEF BuyDone, ResetWares, Adjust
<1>2. CASE BuyDone(g)
  <2> DEFINE t == Releases[catalog].next[p]["done"]
  <2>1. Takes(g, v, t) /\ Spent(v.score) = Budget
    BY <1>1, <1>2 DEF BuyDone
  <2>2. t \in Asks(catalog) \cup {"end"} /\ t \in FlowSteps \cup {"end"}
    BY <1>1, FlowFacts
  <2>3. Follow(Releases[catalog], v, p) = {t}
    BY <1>1 DEF Follow
  <2> HIDE DEF p, v, t
  <2>4. t = "end" \/ Sound(catalog, v, t)
    BY <1>1, <2>1, <2>2, <2>3, SoundMove
  <2> QED BY <1>1, <2>1, <2>2, <2>4, FlowTakes
<1>3. ASSUME NEW w \in Values, w.answer = v.answer, Takes(g, w, p) PROVE FlowTypes' /\ FlowInv'
  <2> HIDE DEF p, v
  <2>1. Sound(catalog, w, p)
    BY <1>1, <1>3, SoundScore
  <2> QED BY <1>1, <1>3, <2>1, FlowTakes
<1>4. CASE ResetWares(g)
  <2> DEFINE w == [v EXCEPT !.score = NoAnswer.score]
  <2>1. Takes(g, w, p)
    BY <1>4 DEF ResetWares
  <2>2. w \in Values /\ w.answer = v.answer
    BY <1>1, NoAnswerIsValues DEF Values
  <2> HIDE DEF w, p, v
  <2> QED BY <1>3, <2>1, <2>2
<1>5. ASSUME NEW x \in Wares, NEW n \in {-1, 1}, Adjust(g, x, n) PROVE FlowTypes' /\ FlowInv'
  <2> DEFINE w == [v EXCEPT !.score = [v.score EXCEPT ![x] = v.score[x] + n]]
  <2>1. Takes(g, w, p)
    BY <1>1, <1>5 DEF Adjust
  <2>2. w \in Values /\ w.answer = v.answer
    BY <1>1 DEF Values
  <2> HIDE DEF w, p, v
  <2> QED BY <1>3, <2>1, <2>2
<1> QED BY <1>2, <1>4, <1>5

\* What a confirm or an action step commits, and where it goes.
LEMMA FlowCommits ==
    ASSUME FlowTypes, FlowInv, NEW g \in Guests, NEW p \in Asks(catalog), p = guest[g].step,
           Sound(catalog, guest[g].values, p), Committing(p), NEW a \in DOMAIN Releases[catalog].next[p],
           Commits(g), Go(g, [guest[g] EXCEPT !.at = "advance", !.to = Releases[catalog].next[p][a]]),
           UNCHANGED <<catalog, stored>>
    PROVE  FlowTypes' /\ FlowInv'
<1> DEFINE t == Releases[catalog].next[p][a]
           v == guest[g].values
           x == [guest[g] EXCEPT !.at = "advance", !.to = t]
<1>1. catalog \in DOMAIN Releases /\ guest[g] \in GuestStates
  BY FlowNow
<1>2. t \in Asks(catalog) \cup {"end"} /\ t \in FlowSteps \cup {"end"}
  BY <1>1, FlowFacts
<1>3. guest' = [guest EXCEPT ![g] = x]
  BY DEF Go
<1>4. x \in GuestStates /\ x.at = "advance" /\ x.to = t /\ x.values = v
  BY <1>1, <1>2 DEF GuestStates
<1>5. WholeOn(catalog, v)
  BY <1>1, SoundCommit
<1> HIDE DEF t, v
<1>6. t = "end" \/ Sound(catalog, v, t)
  <2>1. Sound(catalog, v, p) /\ KindOf[p] # "ask" /\ KindOf[p] # "buy"
    BY DEF v, Committing
  <2> QED BY <1>1, <1>2, <2>1, SoundMove
<1>7. GuestSound(catalog, x)
  BY <1>4, <1>6 DEF GuestSound
<1> HIDE DEF x
<1> QED BY <1>3, <1>4, <1>5, <1>7, FlowStep DEF v

LEMMA FlowConfirm ==
    ASSUME FlowTypes, FlowInv, NEW g \in Guests, NEW a, Confirm(g, a)
    PROVE  FlowTypes' /\ FlowInv'
<1> DEFINE p == guest[g].step
<1>1. /\ catalog \in DOMAIN Releases /\ p \in Asks(catalog) /\ KindOf[p] = "confirm"
      /\ Sound(catalog, guest[g].values, p) /\ NextOf(p) = Releases[catalog].next[p]
      /\ a \in DOMAIN Releases[catalog].next[p] /\ Committing(p)
  BY FlowFaces DEF Confirm, Committing
<1>2. CASE Aborts(g) /\ UNCHANGED committed
  BY <1>2, FlowAborts DEF Confirm, Aborts
<1>3. CASE Commits(g) /\ Go(g, [guest[g] EXCEPT !.at = "advance", !.to = NextOf(p)[a]])
  <2>1. UNCHANGED <<catalog, stored>> /\ Go(g, [guest[g] EXCEPT !.at = "advance", !.to = Releases[catalog].next[p][a]])
    BY <1>1, <1>3 DEF Confirm
  <2> QED BY <1>1, <1>3, <2>1, FlowCommits
<1> QED BY <1>2, <1>3 DEF Confirm

LEMMA FlowAuto ==
    ASSUME FlowTypes, FlowInv, NEW g \in Guests, Branch(g) \/ Act(g)
    PROVE  FlowTypes' /\ FlowInv'
<1> DEFINE p == guest[g].step
           v == guest[g].values
<1>1. /\ catalog \in DOMAIN Releases /\ Sound(catalog, v, p) /\ p \in Asks(catalog) /\ guest[g] \in GuestStates
      /\ NextOf(p) = Releases[catalog].next[p] /\ Answers(p) = DOMAIN Releases[catalog].next[p]
  <2>1. Sound(catalog, v, p) /\ catalog \in DOMAIN Releases /\ guest[g] \in GuestStates
    BY FlowNow DEF Branch, Act, At, GuestSound
  <2> QED BY <2>1 DEF Sound, NextOf, Answers
<1>2. CASE Branch(g)
  <2> DEFINE t == NextOf(p)[Case(p, v)]
             x == [guest[g] EXCEPT !.at = "advance", !.to = t]
  <2>1. KindOf[p] = "branch" /\ guest' = [guest EXCEPT ![g] = x] /\ UNCHANGED <<catalog, stored, committed>>
    BY <1>2 DEF Branch, Go
  <2>2. Follow(Releases[catalog], v, p) = {t}
    BY <1>1, <2>1 DEF Follow, Case
  <2>3. t \in Asks(catalog) \cup {"end"} /\ t \in FlowSteps \cup {"end"}
    BY <1>1, <2>2, FollowInside, FlowFacts
  <2>4. x \in GuestStates /\ x.at = "advance" /\ x.to = t /\ x.values = v
    BY <1>1, <2>3 DEF GuestStates
  <2> HIDE DEF t, p, v, x
  <2>5. t = "end" \/ Sound(catalog, v, t)
    BY <1>1, <2>1, <2>2, <2>3, SoundMove
  <2>6. GuestSound(catalog, x)
    BY <2>4, <2>5 DEF GuestSound
  <2> QED BY <2>1, <2>4, <2>6, FlowStep
<1>3. CASE Act(g)
  <2>1. KindOf[p] = "action" /\ UNCHANGED <<catalog, stored>>
    BY <1>3 DEF Act
  <2>2. CASE Aborts(g) /\ UNCHANGED committed
    BY <2>1, <2>2, FlowAborts DEF Aborts
  <2>3. CASE Commits(g) /\ Go(g, [guest[g] EXCEPT !.at = "advance", !.to = NextOf(p)["done"]])
    <3>1. "done" \in DOMAIN Releases[catalog].next[p] /\ Committing(p)
      BY <1>1, <2>1, FlowFacts DEF Committing
    <3>2. Go(g, [guest[g] EXCEPT !.at = "advance", !.to = Releases[catalog].next[p]["done"]])
      BY <1>1, <2>3
    <3> QED BY <1>1, <2>1, <2>3, <3>1, <3>2, FlowCommits
  <2> QED BY <1>3, <2>2, <2>3 DEF Act
<1> QED BY <1>2, <1>3

LEMMA FlowAdvance ==
    ASSUME FlowTypes, FlowInv, NEW g \in Guests, Advance(g)
    PROVE  FlowTypes' /\ FlowInv'
<1> DEFINE t == guest[g].to
           v == guest[g].values
<1>1. /\ catalog \in DOMAIN Releases /\ guest[g] \in GuestStates
      /\ Sound(catalog, v, t) /\ t \in Asks(catalog) /\ t \in FlowSteps
  <2>1. Sound(catalog, v, t) /\ catalog \in DOMAIN Releases
    BY FlowNow DEF Advance, At, GuestSound
  <2> QED BY <2>1, FlowNow, FlowFacts DEF Sound
<1>2. UNCHANGED <<catalog, committed>>
  BY DEF Advance
<1>3. CASE Aborts(g) /\ UNCHANGED stored
  BY <1>2, <1>3, FlowAborts DEF Aborts
<1>4. CASE ~(Aborts(g) /\ UNCHANGED stored)
  <2> DEFINE x == [guest[g] EXCEPT !.step = t, !.to = "none",
                      !.at = IF KindOf[t] \in {"branch", "action"} THEN "auto" ELSE "prompt"]
  <2>1. guest' = [guest EXCEPT ![g] = x] /\ stored' = [step |-> t, values |-> v]
    BY <1>4 DEF Advance, Go, Saved
  <2>2. x \in GuestStates /\ x.at \in {"auto", "prompt"} /\ x.step = t /\ x.values = v
    BY <1>1 DEF GuestStates
  <2>3. stored' \in [step : FlowSteps \cup {"none"}, values : Values] /\ StoredSound(catalog, stored')
    BY <1>1, <2>1 DEF GuestStates, StoredSound
  <2> HIDE DEF x, t, v
  <2>4. GuestSound(catalog, x)
    BY <1>1, <2>2 DEF GuestSound
  <2> QED BY <1>2, <2>1, <2>2, <2>3, <2>4, FlowStep
<1> QED BY <1>3, <1>4

LEMMA FlowRestart ==
    ASSUME ReleasesLeadPast, FlowTypes, FlowInv, NEW r \in DOMAIN Releases, Restart(r)
    PROVE  FlowTypes' /\ FlowInv'
<1>1. /\ Asks(r) \subseteq Asks(catalog) /\ catalog' = r /\ UNCHANGED <<stored, committed>>
      /\ guest' = [g \in Guests |-> Away] /\ catalog \in DOMAIN Releases
  BY DEF Restart, FlowTypes
<1>2. FlowTypes'
  <2>1. guest' \in [Guests -> GuestStates]
    BY <1>1, AwayIsState
  <2> QED BY <1>1, <2>1 DEF FlowTypes, GuestStates
<1>3. FlowSound'
  <2>1. \A g \in Guests : guest'[g].at = "away"
    BY <1>1 DEF Away
  <2>2. ASSUME stored.step \in Asks(r) PROVE Sound(r, stored.values, stored.step)
    <3>1. Sound(catalog, stored.values, stored.step)
      BY <1>1, <2>2 DEF FlowInv, FlowSound
    <3> QED BY <1>1, <2>2, <3>1, SoundRelease
  <2> QED BY <1>1, <2>1, <2>2 DEF FlowSound
<1>4. CommitIsWhole'
  BY <1>1 DEF FlowInv, CommitIsWhole
<1> QED BY <1>2, <1>3, <1>4 DEF FlowInv

\* Whatever is lost on the way - the connection, the account, the server, a write -
\* what a flow commits answers every question on its way, reaches a step that
\* commits and spends the budget (flow/runner.go, repo/flow_state_sqlite.go), if
\* branches look back and a release that drops steps leads past them.
THEOREM CommitsAlwaysWhole ==
    ASSUME BranchesLookBack, ReleasesLeadPast
    PROVE  FlowSpec => []CommitIsWhole
<1>1. FlowTypes /\ FlowInv /\ [FlowNext]_flowVars => (FlowTypes /\ FlowInv)'
  <2> SUFFICES ASSUME FlowTypes, FlowInv, [FlowNext]_flowVars PROVE FlowTypes' /\ FlowInv'
    OBVIOUS
  <2>1. ASSUME NEW g \in Guests, Enter(g) PROVE FlowTypes' /\ FlowInv'
    <3>1. UNCHANGED <<catalog, committed>>
      BY <2>1 DEF Enter
    <3>2. CASE Resumed(g)
      BY <3>1, <3>2, FlowResumed
    <3>3. CASE Afresh(g)
      BY <3>1, <3>3, FlowAfresh
    <3>4. CASE Go(g, [Away EXCEPT !.at = "menu"]) /\ UNCHANGED stored
      BY <3>1, <3>4, FlowAborts
    <3> QED BY <2>1, <3>2, <3>3, <3>4 DEF Enter
  <2>2. ASSUME NEW g \in Guests, Begin(g) PROVE FlowTypes' /\ FlowInv'
    BY <2>2, FlowResumed, FlowAfresh DEF Begin
  <2>3. ASSUME NEW g \in Guests, Depart(g) PROVE FlowTypes' /\ FlowInv'
    <3>1. Away = [Away EXCEPT !.at = "away"]
      BY DEF Away
    <3>2. Go(g, [Away EXCEPT !.at = "away"]) /\ UNCHANGED <<catalog, stored, committed>>
      BY <2>3, <3>1 DEF Depart
    <3> QED BY <3>2, FlowAborts
  <2>4. ASSUME NEW g \in Guests, Unpromptable(g) \/ CancelFlow(g) \/ Complete(g) PROVE FlowTypes' /\ FlowInv'
    <3>1. /\ Go(g, [Away EXCEPT !.at = "menu"]) /\ UNCHANGED <<catalog, committed>>
          /\ stored' = Nothing \/ UNCHANGED stored
      BY <2>4 DEF Unpromptable, CancelFlow, Complete, Aborts
    <3> QED BY <3>1, FlowAborts
  <2>5. ASSUME NEW g \in Guests, NEW a, Confirm(g, a) \/ Answer(g, a) PROVE FlowTypes' /\ FlowInv'
    BY <2>5, FlowConfirm, FlowAnswer
  <2>6. ASSUME NEW g \in Guests, BuyDone(g) \/ ResetWares(g) \/ \E w \in Wares, n \in {-1, 1} : Adjust(g, w, n)
        PROVE  FlowTypes' /\ FlowInv'
    BY <2>6, FlowBuys
  <2>7. ASSUME NEW g \in Guests, Advance(g) \/ Branch(g) \/ Act(g) PROVE FlowTypes' /\ FlowInv'
    BY <2>7, FlowAdvance, FlowAuto
  <2>8. ASSUME NEW r \in DOMAIN Releases, Restart(r) PROVE FlowTypes' /\ FlowInv'
    BY <2>8, FlowRestart
  <2>9. CASE UNCHANGED flowVars
    BY <2>9 DEF flowVars, FlowTypes, FlowInv, FlowSound, CommitIsWhole
  <2> QED BY <2>1, <2>2, <2>3, <2>4, <2>5, <2>6, <2>7, <2>8, <2>9 DEF FlowNext
<1> QED BY <1>1, FlowStart, PTL DEF FlowSpec, FlowInv
=============================================================================
