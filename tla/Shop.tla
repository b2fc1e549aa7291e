-------------------------------- MODULE Shop --------------------------------
(***************************************************************************)
(* One stock line of one shop: the buy and sell verbs of the players       *)
(* (internal/cmd/shop.go) and the restocker pulse (internal/world).        *)
(*                                                                         *)
(* AdjustStock is a SELECT followed by an UPDATE with no transaction, so   *)
(* it is two steps here.  A purchase takes the unit off the shelf, creates *)
(* the item, then debits the purse; a debit that is refused leaves the     *)
(* buyer with the item.  A sale credits the purse, then deletes the item,  *)
(* and takes the credit back when there is nothing left to delete.         *)
(*                                                                         *)
(* Verbs that are refused before they write anything are left out, and so  *)
(* are the shop's hours, the matching of keywords, the overflow check of   *)
(* Amount.Add, and the equipment and inventory-order columns a sale also   *)
(* tidies.  CoinMoves stands for every other path that writes a purse      *)
(* (module Purse).                                                         *)
(***************************************************************************)
EXTENDS Integers, FiniteSets, Functions

CONSTANTS
    Chars,
    Items,                  \* item ids; never reused
    QtyMax,                 \* capacity of the stock line; negative: unlimited
    BuyPrice, SellPrice,    \* priceToBuy and priceToSell of the item
    InitCoin,
    None, Unborn, Ground, Gone,
    MaxVersion, MaxFaults   \* bounds: writes per purse, failed statements

ASSUME ShopConstants ==
    /\ QtyMax \in Int \ {0}
    /\ {BuyPrice, SellPrice, InitCoin, MaxVersion, MaxFaults} \subseteq Nat
    /\ IsFiniteSet(Chars) /\ IsFiniteSet(Items)
    /\ {None, Unborn, Ground, Gone} \cap (Chars \cup Items) = {}
    /\ Cardinality({Unborn, Ground, Gone}) = 3

VARIABLES
    qty,       \* shop_stock.qty
    due,       \* the restock interval, a positive one, has passed since
               \* last_restock_ts; a shop with none never restocks
    restock,   \* "idle", or "upsert": the pulse has found the line short
    purse,     \* character -> carried coin and its version
    loc,       \* item -> its owner, Ground, Gone, or Unborn
    pc, job,   \* character -> next statement of its verb, and its locals
    paid,      \* coin the shop should have taken, less what it should have paid
    lost,      \* revenue written off: refused debits, failed rollbacks
    faults

shopVars == <<qty, due, restock, purse, loc, pc, job, paid, lost, faults>>
shelf == <<qty, due, restock>>
books == <<paid, lost>>

Job == [coin : Nat, ver : Nat, seen : Int, item : Items \cup {None}]
NoJob == [coin |-> 0, ver |-> 0, seen |-> 0, item |-> None]

PC == {"idle", "select", "update", "create", "debit", "backSelect", "backUpdate",
       "purse", "credit", "delete", "undo"}

ShopTypes ==
    /\ qty \in (IF QtyMax < 0 THEN {QtyMax} ELSE 0..QtyMax)
    /\ due \in BOOLEAN
    /\ restock \in {"idle", "upsert"}
    /\ purse \in [Chars -> [coin : Nat, ver : Nat]]
    /\ loc \in [Items -> Chars \cup {Unborn, Ground, Gone}]
    /\ pc \in [Chars -> PC]
    /\ job \in [Chars -> Job]
    /\ {lost, faults} \subseteq Nat
    /\ paid \in Int

ShopInit ==
    /\ qty = QtyMax
    /\ due = TRUE
    /\ restock = "idle"
    /\ purse = [c \in Chars |-> [coin |-> InitCoin, ver |-> 0]]
    /\ loc = [i \in Items |-> Unborn]
    /\ pc = [c \in Chars |-> "idle"]
    /\ job = [c \in Chars |-> NoJob]
    /\ paid = 0 /\ lost = 0
    /\ faults = 0

-----------------------------------------------------------------------------
Fault ==
    /\ faults < MaxFaults
    /\ faults' = faults + 1

Goto(c, l) ==
    /\ pc' = [pc EXCEPT ![c] = l]
    /\ UNCHANGED job

Return(c) ==
    /\ pc' = [pc EXCEPT ![c] = "idle"]
    /\ job' = [job EXCEPT ![c] = NoJob]

\* RecordCoin, the bank column left alone.
RecordCoin(c, coin, v) ==
    /\ purse[c].ver = v
    /\ purse' = [purse EXCEPT ![c] = [coin |-> coin, ver |-> v + 1]]

\* The SELECT of AdjustStock with its early returns: out of stock, and the
\* unlimited line, whose quantity is left alone.
AdjustSelect(c, delta, update, done) ==
    IF QtyMax < 0 THEN Goto(c, done)
    ELSE IF qty + delta < 0 THEN Return(c)
    ELSE /\ job' = [job EXCEPT ![c].seen = qty]
         /\ pc' = [pc EXCEPT ![c] = update]

\* The UPDATE of AdjustStock.
AdjustUpdate(c, delta) ==
    LET next == job[c].seen + delta
    IN qty' = IF next > QtyMax THEN QtyMax ELSE next

-----------------------------------------------------------------------------
(* buy                                                                     *)

BuyStart(c) ==
    /\ pc[c] = "idle"
    /\ purse[c].ver < MaxVersion
    /\ purse[c].coin >= BuyPrice
    /\ job' = [job EXCEPT ![c].coin = purse[c].coin, ![c].ver = purse[c].ver]
    /\ pc' = [pc EXCEPT ![c] = "select"]
    /\ UNCHANGED <<shelf, purse, loc, books, faults>>

BuySelect(c) ==
    /\ pc[c] = "select"
    /\ AdjustSelect(c, -1, "update", "create")
    /\ UNCHANGED <<shelf, purse, loc, books, faults>>

BuyUpdate(c) ==
    /\ pc[c] = "update"
    /\ AdjustUpdate(c, -1)
    /\ Goto(c, "create")
    /\ UNCHANGED <<due, restock, purse, loc, paid, lost, faults>>

BuyCreate(c) ==
    /\ pc[c] = "create"
    /\ \E i \in Items : loc[i] = Unborn /\ loc' = [loc EXCEPT ![i] = c]
    /\ paid' = paid + BuyPrice
    /\ Goto(c, "debit")
    /\ UNCHANGED <<shelf, purse, lost, faults>>

BuyDebit(c) ==
    /\ pc[c] = "debit"
    /\ RecordCoin(c, job[c].coin - BuyPrice, job[c].ver)
    /\ Return(c)
    /\ UNCHANGED <<shelf, loc, books, faults>>

\* The item has shipped: a refused debit is logged and the revenue lost.
BuyDebitRefused(c) ==
    /\ pc[c] = "debit"
    /\ (purse[c].ver # job[c].ver /\ UNCHANGED faults) \/ Fault
    /\ lost' = lost + BuyPrice
    /\ Return(c)
    /\ UNCHANGED <<shelf, purse, loc, paid>>

\* items.Create fails: the unit goes back on the shelf.
BuyCreateFails(c) ==
    /\ pc[c] = "create"
    /\ Fault
    /\ Goto(c, "backSelect")
    /\ UNCHANGED <<shelf, purse, loc, books>>

BackSelect(c) ==
    /\ pc[c] = "backSelect"
    /\ AdjustSelect(c, 1, "backUpdate", "idle")
    /\ UNCHANGED <<shelf, purse, loc, books, faults>>

BackUpdate(c) ==
    /\ pc[c] = "backUpdate"
    /\ AdjustUpdate(c, 1)
    /\ Return(c)
    /\ UNCHANGED <<due, restock, purse, loc, paid, lost, faults>>

-----------------------------------------------------------------------------
(* sell                                                                    *)

\* The item is found in the inventory, then the purse is read.
SellStart(c, i) ==
    /\ pc[c] = "idle"
    /\ loc[i] = c
    /\ job' = [job EXCEPT ![c].item = i]
    /\ pc' = [pc EXCEPT ![c] = "purse"]
    /\ UNCHANGED <<shelf, purse, loc, books, faults>>

SellRead(c) ==
    /\ pc[c] = "purse"
    /\ purse[c].ver < MaxVersion
    /\ job' = [job EXCEPT ![c].coin = purse[c].coin, ![c].ver = purse[c].ver]
    /\ pc' = [pc EXCEPT ![c] = "credit"]
    /\ UNCHANGED <<shelf, purse, loc, books, faults>>

SellCredit(c) ==
    /\ pc[c] = "credit"
    /\ RecordCoin(c, job[c].coin + SellPrice, job[c].ver)
    /\ Goto(c, "delete")
    /\ UNCHANGED <<shelf, loc, books, faults>>

\* Mutant: the number of rows the DELETE removed is not looked at.
SellDeleteUnchecked(c) ==
    /\ pc[c] = "delete"
    /\ loc' = [loc EXCEPT ![job[c].item] = Gone]
    /\ paid' = paid - (IF loc[job[c].item] = Gone THEN 0 ELSE SellPrice)
    /\ Return(c)
    /\ UNCHANGED <<shelf, purse, lost, faults>>

\* Delete goes by id: it does not ask who holds the item by now.
SellDelete(c) ==
    /\ pc[c] = "delete"
    /\ loc[job[c].item] # Gone
    /\ loc' = [loc EXCEPT ![job[c].item] = Gone]
    /\ paid' = paid - SellPrice
    /\ Return(c)
    /\ UNCHANGED <<shelf, purse, lost, faults>>

SellDeleteRefused(c) ==
    /\ pc[c] = "delete"
    /\ (loc[job[c].item] = Gone /\ UNCHANGED faults) \/ Fault
    /\ Goto(c, "undo")
    /\ UNCHANGED <<shelf, purse, loc, books>>

SellUndo(c) ==
    /\ pc[c] = "undo"
    /\ RecordCoin(c, job[c].coin, job[c].ver + 1)
    /\ Return(c)
    /\ UNCHANGED <<shelf, loc, books, faults>>

SellRollbackFailed(c) ==
    /\ pc[c] = "undo"
    /\ (purse[c].ver # job[c].ver + 1 /\ UNCHANGED faults) \/ Fault
    /\ lost' = lost + SellPrice
    /\ Return(c)
    /\ UNCHANGED <<shelf, purse, loc, paid>>

\* A statement that fails before the verb has changed anything, or whose
\* failure is only logged (the rollback of the shelf).
VerbFails(c) ==
    /\ \/ pc[c] = "credit" /\ purse[c].ver # job[c].ver /\ UNCHANGED faults
       \/ pc[c] \in {"select", "update", "purse", "credit", "backSelect", "backUpdate"} /\ Fault
    /\ Return(c)
    /\ UNCHANGED <<shelf, purse, loc, books>>

-----------------------------------------------------------------------------
(* Restocker.Tick                                                          *)

\* Mutant: an empty line is taken for one the shop does not carry.
RestockReadSkipsEmpty ==
    /\ restock = "idle"
    /\ qty > 0 /\ qty < QtyMax
    /\ due
    /\ restock' = "upsert"
    /\ UNCHANGED <<qty, due, purse, loc, pc, job, books, faults>>

RestockRead ==
    /\ restock = "idle"
    /\ QtyMax >= 0 /\ qty < QtyMax
    /\ due
    /\ restock' = "upsert"
    /\ UNCHANGED <<qty, due, purse, loc, pc, job, books, faults>>

RestockWrite ==
    /\ restock = "upsert"
    /\ qty' = QtyMax
    /\ due' = FALSE
    /\ restock' = "idle"
    /\ UNCHANGED <<purse, loc, pc, job, books, faults>>

RestockFails ==
    /\ restock = "upsert"
    /\ Fault
    /\ restock' = "idle"
    /\ UNCHANGED <<qty, due, purse, loc, pc, job, books>>

\* Time passes.
Elapse ==
    /\ ~due
    /\ due' = TRUE
    /\ UNCHANGED <<qty, restock, purse, loc, pc, job, books, faults>>

-----------------------------------------------------------------------------
(* The world around the shop: pulses that pay a character, kill it         *)
(* (dropCharacterLoot empties its inventory) and remove what lies around.  *)

CoinMoves(c) ==
    /\ purse[c].ver < MaxVersion
    /\ RecordCoin(c, purse[c].coin + BuyPrice, purse[c].ver)
    /\ paid' = paid - BuyPrice
    /\ UNCHANGED <<shelf, loc, pc, job, lost, faults>>

Death(c) ==
    /\ \E i \in Items : loc[i] = c
    /\ loc' = [i \in Items |-> IF loc[i] = c THEN Ground ELSE loc[i]]
    /\ UNCHANGED <<shelf, purse, pc, job, books, faults>>

Decay(i) ==
    /\ loc[i] = Ground
    /\ loc' = [loc EXCEPT ![i] = Gone]
    /\ UNCHANGED <<shelf, purse, pc, job, books, faults>>

PickUp(c, i) ==
    /\ pc[c] = "idle"
    /\ loc[i] = Ground
    /\ loc' = [loc EXCEPT ![i] = c]
    /\ UNCHANGED <<shelf, purse, pc, job, books, faults>>

Pulse == RestockRead \/ RestockWrite \/ RestockFails

ShopNext ==
    \/ \E c \in Chars :
          \/ BuyStart(c) \/ BuySelect(c) \/ BuyUpdate(c) \/ BuyCreate(c) \/ BuyCreateFails(c)
          \/ BuyDebit(c) \/ BuyDebitRefused(c) \/ BackSelect(c) \/ BackUpdate(c)
          \/ SellRead(c) \/ SellCredit(c) \/ SellDelete(c) \/ SellDeleteRefused(c)
          \/ SellUndo(c) \/ SellRollbackFailed(c) \/ VerbFails(c)
          \/ CoinMoves(c) \/ Death(c)
    \/ \E c \in Chars, i \in Items : SellStart(c, i) \/ PickUp(c, i)
    \/ \E i \in Items : Decay(i)
    \/ Pulse
    \/ Elapse

ShopSpec == ShopInit /\ [][ShopNext]_shopVars

-----------------------------------------------------------------------------
(* Properties.                                                             *)

\* Coin credited for an item that is not deleted yet.
InFlight(c) == IF pc[c] \in {"delete", "undo"} THEN SellPrice
               ELSE IF pc[c] = "debit" THEN BuyPrice ELSE 0

Coins == [c \in Chars |-> purse[c].coin]
Carried == [c \in Chars |-> InFlight(c)]

\* The till balances at every moment: the coin in purses, plus what the shop
\* took for the items it shipped less what it paid for the items it destroyed,
\* is what the players started with, up to verbs under way and to the revenue
\* the code writes off (a refused debit, a failed rollback).  No interleaving
\* of purchases, sales, deaths, decays and other payments breaks it.
TillBalances ==
    /\ ShopTypes
    /\ SumFunction(Coins) + paid = InitCoin * Cardinality(Chars) + lost + SumFunction(Carried)

\* A sold-out line is refilled in the end, whatever buyers do meanwhile
\* (a purchase can overwrite a refill: restock.go, shop_sqlite.go:162-205).
Refilled == (qty = 0) ~> (qty > 0)
=============================================================================
