---------------------------- MODULE ItemsProofs ----------------------------
(***************************************************************************)
(* Proofs about the items: every corpse row of a running server is on its  *)
(* way out, and the item table implements Custody.  Both rest on one       *)
(* inductive invariant, which says that a row has one location, that an id *)
(* nobody has died into has no row, and that the verbs and the swings in   *)
(* progress carry what the code read when it began them.                   *)
(***************************************************************************)
EXTENDS Items, TLAPS

\* A row has at most one location column that is not NULL.
Rows == {{}} \cup {{p} : p \in Places}

\* A transfer begins or ends in the hands of the character who makes it.
Made(c, v) ==
    /\ v.op # "idle" => v.item \in Items
    /\ v.op = "move" => \/ v.from = Held(c)
                        \/ v.from \notin Hands /\ v.to = Held(c)

\* A slip names its character and its weapon, a death its corpse.
Begun(B, s) ==
    /\ s.op = "land" => s.who \in Chars /\ s.item \in Items
    /\ s.op \in {"schedule", "strip"} => s.body \in B
    /\ s.op = "strip" => s.who \in Chars

Shape == /\ TypeOK
         /\ at \in [Items -> Rows]
         /\ \A b \in Bodies \ born : at[b] = {}
         /\ \A c \in Chars : Made(c, verb[c])
         /\ \A p \in Pulses : Begun(born, swing[p])

ItemsInv == Shape /\ CorpseTracked

-----------------------------------------------------------------------------
(* Places, verbs and swings.                                               *)

\* The tuples that stand for places are pairwise different.
LEMMA PlacesDiffer ==
    /\ \A c \in Chars : Held(c) # Floor /\ \A k \in Items : Held(c) # In(k)
    /\ \A k \in Items : In(k) # Floor
    /\ Floor \in Places
    /\ \A c \in Chars : Held(c) \in Places /\ Held(c) \in Hands
    /\ \A k \in Items : In(k) \in Places /\ In(k) \notin Hands
    /\ Floor \notin Hands
<1>1. \A c : Held(c) # Floor /\ \A k : Held(c) # In(k)
  BY DEF Held, Floor, In
<1>2. \A k : In(k) # Floor
  BY DEF Floor, In
<1> QED BY <1>1, <1>2 DEF Places, Hands

\* What Shape says, part by part.
LEMMA ShapeParts ==
    ASSUME Shape
    PROVE  /\ TypeOK
           /\ at \in [Items -> Rows]
           /\ \A b \in Bodies \ born : at[b] = {}
           /\ \A c \in Chars : Made(c, verb[c]) /\ verb[c] \in Verb
           /\ \A p \in Pulses : Begun(born, swing[p]) /\ swing[p] \in Swing
           /\ born \in SUBSET Bodies
BY DEF Shape, TypeOK

\* Idle is a verb nobody carries anything in, Still a swing of nobody.
LEMMA Resting ==
    /\ Idle \in Verb /\ \A c \in Chars : Made(c, Idle)
    /\ Still \in Swing /\ \A B : Begun(B, Still)
    /\ Still.op = "idle" /\ Idle.op = "idle"
<1>1. Idle \in Verb /\ Idle.op = "idle"
  BY PlacesDiffer DEF Idle, Verb
<1>2. Still \in Swing /\ Still.op = "idle"
  BY DEF Still, Swing
<1>3. \A c \in Chars : Made(c, Idle)
  BY <1>1 DEF Made
<1>4. \A B : Begun(B, Still)
  BY <1>2 DEF Begun
<1> QED BY <1>1, <1>2, <1>3, <1>4

\* One character's verb changes, to one the code could have begun.
LEMMA VerbChanges ==
    ASSUME Shape, NEW c \in Chars, NEW v \in Verb, Made(c, v),
           verb' = [verb EXCEPT ![c] = v]
    PROVE  verb' \in [Chars -> Verb] /\ \A d \in Chars : Made(d, verb'[d])
<1>1. verb \in [Chars -> Verb] /\ \A d \in Chars : Made(d, verb[d])
  BY DEF Shape, TypeOK
<1>2. verb' \in [Chars -> Verb]
  BY <1>1
<1>3. ASSUME NEW d \in Chars PROVE Made(d, verb'[d])
  <2>1. CASE d = c
    <3>1. verb'[d] = v
      BY <2>1, <1>1
    <3> QED BY <3>1, <2>1
  <2>2. CASE d # c
    <3>1. verb'[d] = verb[d]
      BY <2>2, <1>1
    <3> QED BY <3>1, <1>1
  <2> QED BY <2>1, <2>2
<1> QED BY <1>2, <1>3

\* One pulse goes on, and no corpse id is taken back.
LEMMA SwingChanges ==
    ASSUME Shape, NEW p \in Pulses, NEW s \in Swing, NEW B, born \subseteq B, Begun(B, s),
           swing' = [swing EXCEPT ![p] = s]
    PROVE  swing' \in [Pulses -> Swing] /\ \A q \in Pulses : Begun(B, swing'[q])
<1>1. swing \in [Pulses -> Swing] /\ \A q \in Pulses : Begun(born, swing[q])
  BY DEF Shape, TypeOK
<1>2. swing' \in [Pulses -> Swing]
  BY <1>1
<1>3. ASSUME NEW q \in Pulses PROVE Begun(B, swing'[q])
  <2>1. CASE q = p
    <3>1. swing'[q] = s
      BY <2>1, <1>1
    <3> QED BY <3>1
  <2>2. CASE q # p
    <3>1. swing'[q] = swing[q]
      BY <2>2, <1>1
    <3>2. Begun(born, swing[q])
      BY <1>1
    <3> QED BY <3>1, <3>2 DEF Begun
  <2> QED BY <2>1, <2>2
<1> QED BY <1>2, <1>3

-----------------------------------------------------------------------------
(* Rows.                                                                   *)

\* An UPDATE that sets one location column leaves a row of one place.
LEMMA RowMoves ==
    ASSUME Shape, NEW i \in Items, NEW p \in Places, at[i] # {}, MoveTo(i, p)
    PROVE  /\ at' \in [Items -> Rows] /\ at' \in [Items -> SUBSET Places]
           /\ \A j \in Items : at'[j] # {} => at[j] # {}
           /\ at'[i] = {p} /\ \A j \in Items \ {i} : at'[j] = at[j]
<1>1. at \in [Items -> Rows] /\ at \in [Items -> SUBSET Places] /\ {p} \in Rows
  BY DEF Shape, TypeOK, Rows
<1>2. at' = [at EXCEPT ![i] = {p}]
  BY DEF MoveTo
<1> QED BY <1>1, <1>2

\* A DELETE removes rows and touches no other.
LEMMA RowsGo ==
    ASSUME Shape, NEW S, DeleteRows(S)
    PROVE  /\ at' \in [Items -> Rows] /\ at' \in [Items -> SUBSET Places]
           /\ \A j \in Items : at'[j] # {} => at[j] # {}
           /\ \A j \in Items : at'[j] = IF j \in S THEN {} ELSE at[j]
<1>1. at \in [Items -> Rows] /\ at \in [Items -> SUBSET Places] /\ {} \in Rows
  BY DEF Shape, TypeOK, Rows
<1>2. at' = [i \in Items |-> IF i \in S THEN {} ELSE at[i]]
  BY DEF DeleteRows
<1> QED BY <1>1, <1>2

\* A step that creates no row and loses track of none keeps every corpse
\* tracked.
LEMMA TrackKept ==
    ASSUME CorpseTracked, TypeOK', up' => up,
           \A b \in Bodies : at'[b] # {} => at[b] # {},
           \A b \in queue \cup popped \cup stuck : b \in queue' \cup popped' \cup stuck' \/ at'[b] = {},
           \A p \in Pulses : swing[p].op = "schedule" => swing'[p] = swing[p] \/ swing[p].body \in queue'
    PROVE  CorpseTracked'
BY DEF CorpseTracked

-----------------------------------------------------------------------------
(* What Custody sees.                                                      *)

\* The mapped location of a row that exists, and of one that does not.
LEMMA LocIs ==
    ASSUME Shape, NEW i \in Items
    PROVE  /\ \A p : at[i] = {p} => Loc[i] = p
           /\ at[i] = {} => Loc[i] = IF i \in born \/ i \in Things THEN <<"gone">> ELSE <<"unborn">>
<1>1. ASSUME NEW p, at[i] = {p} PROVE Loc[i] = p
  <2>1. at[i] # {} /\ (CHOOSE q \in at[i] : TRUE) = p
    BY <1>1
  <2> QED BY <2>1 DEF Loc
<1>2. ASSUME at[i] = {} PROVE Loc[i] = IF i \in born \/ i \in Things THEN <<"gone">> ELSE <<"unborn">>
  BY <1>2 DEF Loc
<1> QED BY <1>1, <1>2

\* The names of Items and of Custody for places are the same places.
LEMMA SamePlaces ==
    /\ C!Places = Places /\ C!Floor = Floor /\ C!Gone = <<"gone">> /\ C!Unborn = <<"unborn">>
    /\ \A c : C!Held(c) = Held(c)
    /\ \A k : C!In(k) = In(k)
    /\ C!Open = {Floor} \cup {In(k) : k \in Items}
<1>1. /\ C!Floor = Floor /\ C!Gone = <<"gone">> /\ C!Unborn = <<"unborn">>
      /\ \A c : C!Held(c) = Held(c)
      /\ \A k : C!In(k) = In(k)
  BY DEF C!Floor, C!Gone, C!Unborn, C!Held, C!In, Floor, Held, In
<1>2. C!Open = {Floor} \cup {In(k) : k \in Items}
  BY DEF C!Floor, Floor, C!In, In, C!Open
<1>3. C!Hands = Hands
  BY DEF C!Hands, Hands, C!Held, Held
<1>4. C!Places = Places
  BY <1>2, <1>3 DEF C!Places, Places
<1> QED BY <1>1, <1>2, <1>4

\* Whatever a typed state names is a set of items.
LEMMA NamedTyped ==
    ASSUME TypeOK
    PROVE  Named \in [Chars -> SUBSET Items]
<1>1. equip \in [Chars -> Items \cup {None}] /\ aimed \in [Chars -> Items \cup {None}]
  BY DEF TypeOK
<1>2. \A p \in Pulses : swing[p].item \in Items \cup {None}
  BY DEF TypeOK, Swing
<1> DEFINE N(c) == ({equip[c], aimed[c]} \cup {swing[p].item : p \in {q \in Pulses : swing[q].who = c}}) \ {None}
<1>3. ASSUME NEW c \in Chars PROVE N(c) \in SUBSET Items
  BY <1>1, <1>2
<1>4. Named = [c \in Chars |-> N(c)]
  BY DEF Named
<1> HIDE DEF N
<1> QED BY <1>3, <1>4

\* The equipment and the throws of later states are typed too.
LEMMA NamedNext ==
    ASSUME TypeOK'
    PROVE  Named' \in [Chars -> SUBSET Items]
<1>1. equip' \in [Chars -> Items \cup {None}] /\ aimed' \in [Chars -> Items \cup {None}]
  BY DEF TypeOK
<1>2. \A p \in Pulses : swing'[p].item \in Items \cup {None}
  BY DEF TypeOK, Swing
<1> DEFINE N(c) == ({equip'[c], aimed'[c]} \cup {swing'[p].item : p \in {q \in Pulses : swing'[q].who = c}}) \ {None}
<1>3. ASSUME NEW c \in Chars PROVE N(c) \in SUBSET Items
  BY <1>1, <1>2
<1>4. Named' = [c \in Chars |-> N(c)]
  BY DEF Named
<1> HIDE DEF N
<1> QED BY <1>3, <1>4

\* The moves of one item that Custody allows.
LEMMA CustodyMoves ==
    ASSUME NEW c \in Chars, NEW i \in Items, Named' \in [Chars -> SUBSET Items]
    PROVE  /\ C!Take(c, i) => C!Next
           /\ \A p \in Places : C!Release(c, i, p) => C!Next
           /\ \A p \in Places \ Hands : C!Slip(c, i, p) => C!Next
<1>1. C!Take(c, i) => C!Next
  BY Zenon DEF C!Next
<1>2. ASSUME NEW p \in Places, C!Release(c, i, p) PROVE C!Next
  <2>1. p \in C!Places
    BY SamePlaces
  <2> QED BY <1>2, <2>1, Zenon DEF C!Next
<1>3. ASSUME NEW p \in Places \ Hands, C!Slip(c, i, p) PROVE C!Next
  <2>1. p \in C!Open
    BY SamePlaces DEF Places
  <2> QED BY <1>3, <2>1, Zenon DEF C!Next
<1> QED BY <1>1, <1>2, <1>3

\* A step that touches no row is one in which nothing changes hands.
LEMMA RowsStay ==
    ASSUME TypeOK', UNCHANGED <<at, born>>
    PROVE  C!Next
<1>1. Loc' = Loc
  BY DEF Loc
<1>2. Named' \in [Chars -> SUBSET Items]
  BY NamedNext
<1> QED BY <1>1, <1>2 DEF C!Next

\* One row moves: Custody sees that one item change place.
LEMMA LocMoves ==
    ASSUME Shape, NEW i \in Items, NEW p \in Places, at[i] # {}, MoveTo(i, p), UNCHANGED born
    PROVE  Loc' = [Loc EXCEPT ![i] = p]
<1>1. at'[i] = {p} /\ \A j \in Items \ {i} : at'[j] = at[j]
  BY RowMoves
<1> DEFINE It(S) == CHOOSE q \in S : TRUE
           L(a, j) == IF a[j] # {} THEN It(a[j])
                      ELSE IF j \in born \/ j \in Things THEN <<"gone">> ELSE <<"unborn">>
<1>2. Loc = [j \in Items |-> L(at, j)] /\ Loc' = [j \in Items |-> L(at', j)]
  BY DEF Loc
<1>3. L(at', i) = p
  BY <1>1
<1> HIDE DEF It
<1>4. ASSUME NEW j \in Items \ {i} PROVE L(at', j) = L(at, j)
  <2>1. at'[j] = at[j]
    BY <1>1
  <2> QED BY <2>1
<1> HIDE DEF L
<1>5. [Loc EXCEPT ![i] = p] = [j \in Items |-> IF j = i THEN p ELSE L(at, j)]
  BY <1>2
<1>6. \A j \in Items : L(at', j) = IF j = i THEN p ELSE L(at, j)
  BY <1>3, <1>4
<1> QED BY <1>2, <1>5, <1>6

\* Rows are deleted: Custody sees those that were somewhere vanish.
LEMMA LocGoes ==
    ASSUME Shape, NEW S \in SUBSET Items, DeleteRows(S), UNCHANGED born, TypeOK'
    PROVE  C!Next
<1> DEFINE T == {j \in S : at[j] # {}}
           It(Q) == CHOOSE q \in Q : TRUE
           L(a, j) == IF a[j] # {} THEN It(a[j])
                      ELSE IF j \in born \/ j \in Things THEN <<"gone">> ELSE <<"unborn">>
<1>1. \A j \in Items : at'[j] = IF j \in S THEN {} ELSE at[j]
  BY RowsGo
<1>2. Loc = [j \in Items |-> L(at, j)] /\ Loc' = [j \in Items |-> L(at', j)]
  BY DEF Loc
<1>3. ASSUME NEW j \in T PROVE L(at', j) = <<"gone">> /\ Loc[j] \in Places
  <2>1. j \in born \/ j \in Things
    BY <1>3, ShapeParts DEF Items
  <2>2. PICK p \in Places : at[j] = {p}
    BY <1>3 DEF Shape, Rows
  <2>3. Loc[j] = p
    BY <2>2, LocIs
  <2> QED BY <2>1, <2>2, <2>3, <1>1
<1> HIDE DEF It
<1>4. ASSUME NEW j \in Items \ T PROVE L(at', j) = L(at, j)
  <2>1. at'[j] = at[j]
    BY <1>1
  <2> QED BY <2>1
<1>5. T \in SUBSET Items
  OBVIOUS
<1> HIDE DEF L, T
<1>6. [j \in Items |-> L(at', j)] = [j \in Items |-> IF j \in T THEN <<"gone">> ELSE L(at, j)]
  BY <1>3, <1>4
<1>6a. [j \in Items |-> IF j \in T THEN <<"gone">> ELSE L(at, j)] = [j \in Items |-> IF j \in T THEN <<"gone">> ELSE Loc[j]]
  BY <1>2
<1>7. Loc' = [j \in Items |-> IF j \in T THEN C!Gone ELSE Loc[j]]
  BY <1>2, <1>6, <1>6a, SamePlaces
<1>8. C!Vanish(T)
  BY <1>7, <1>3, SamePlaces DEF C!Vanish
<1>9. Named' \in [Chars -> SUBSET Items]
  BY NamedNext
<1> QED BY <1>8, <1>9, <1>5 DEF C!Next

-----------------------------------------------------------------------------
(* The steps of a verb.                                                    *)

\* Entering a verb reads, and writes nothing.
LEMMA StartStep ==
    ASSUME ItemsInv, NEW c \in Chars, NEW v \in Verb, Made(c, v), Start(c, v)
    PROVE  ItemsInv' /\ C!Next
<1>1. /\ verb' = [verb EXCEPT ![c] = v]
      /\ verbs < MaxVerbs /\ verbs' = verbs + 1
      /\ UNCHANGED <<at, born, equip, aimed, swing, due, queue, popped, stuck, up, mishaps>>
  BY DEF Start
<1>2. verb' \in [Chars -> Verb] /\ \A d \in Chars : Made(d, verb'[d])
  BY <1>1, VerbChanges DEF ItemsInv
<1>3. TypeOK'
  BY <1>1, <1>2 DEF ItemsInv, Shape, TypeOK
<1>4. Shape'
  BY <1>1, <1>2, <1>3 DEF ItemsInv, Shape
<1>5. CorpseTracked'
  BY <1>1, <1>3, TrackKept DEF ItemsInv
<1>6. C!Next
  BY <1>1, <1>3, RowsStay
<1> QED BY <1>4, <1>5, <1>6 DEF ItemsInv

\* Every verb that takes an item starts from where it read the item.
LEMMA MovingStarts ==
    ASSUME ItemsInv, NEW c \in Chars, NEW i \in Items, NEW from \in Places, NEW to \in Places,
           from = Held(c) \/ (from \notin Hands /\ to = Held(c)),
           Start(c, Moving(i, from, to))
    PROVE  ItemsInv' /\ C!Next
<1>1. /\ Moving(i, from, to) \in Verb
      /\ Moving(i, from, to).op = "move" /\ Moving(i, from, to).item = i
      /\ Moving(i, from, to).from = from /\ Moving(i, from, to).to = to
  BY DEF Moving, Verb
<1>2. Made(c, Moving(i, from, to))
  BY <1>1 DEF Made
<1> QED BY <1>1, <1>2, StartStep

\* A verb that only names an item is one the code could have begun.
LEMMA Naming ==
    ASSUME NEW c \in Chars, NEW i \in Items,
           NEW o \in {"unequip", "remove", "wield", "sellUnequip", "sell"}
    PROVE  /\ [Idle EXCEPT !.op = o, !.item = i] \in Verb
           /\ Made(c, [Idle EXCEPT !.op = o, !.item = i])
<1> DEFINE w == [Idle EXCEPT !.op = o, !.item = i]
<1>1. Idle \in Verb
  BY Resting
<1>2. w \in Verb
  BY <1>1 DEF Verb
<1>3. w.op = o /\ w.item = i
  BY <1>1 DEF Verb
<1> HIDE DEF w
<1>4. Made(c, w)
  BY <1>3 DEF Made
<1> QED BY <1>2, <1>4 DEF w

\* The conditional UPDATE of get, drop, give and put.
LEMMA TransferStep ==
    ASSUME ItemsInv, NEW c \in Chars, Transfer(c)
    PROVE  ItemsInv' /\ C!Next
<1> DEFINE v == verb[c]
           w == IF v.from = Held(c) THEN [Idle EXCEPT !.op = "unequip", !.item = v.item] ELSE Idle
<1>1. v \in Verb /\ Made(c, v) /\ v.op = "move"
  BY ShapeParts DEF ItemsInv, Transfer
<1>2. v.item \in Items /\ v.to \in Places /\ (v.from = Held(c) \/ (v.from \notin Hands /\ v.to = Held(c)))
  BY <1>1 DEF Made, Verb
<1>3. UNCHANGED <<born, equip, aimed, swing, due, queue, popped, stuck, up, verbs>>
  BY DEF Transfer
<1>4. mishaps' \in Nat
  BY DEF Transfer, Fault, NoFault, ItemsInv, Shape, TypeOK
<1>5. w \in Verb /\ Made(c, w)
  BY <1>2, Naming, Resting
<1>6. CASE Matches(v.item, v.from) /\ MoveTo(v.item, v.to) /\ verb' = [verb EXCEPT ![c] = w]
  <2>1. at[v.item] = {v.from} /\ at[v.item] # {}
    BY <1>6 DEF Matches
  <2>2. /\ at' \in [Items -> Rows] /\ at' \in [Items -> SUBSET Places]
        /\ \A j \in Items : at'[j] # {} => at[j] # {}
    BY <1>2, <1>6, <2>1, RowMoves DEF ItemsInv
  <2>3. verb' \in [Chars -> Verb] /\ \A d \in Chars : Made(d, verb'[d])
    BY <1>5, <1>6, VerbChanges DEF ItemsInv
  <2>4. TypeOK'
    BY <1>3, <1>4, <2>2, <2>3 DEF ItemsInv, Shape, TypeOK
  <2>5. Shape'
    BY <1>3, <2>2, <2>3, <2>4 DEF ItemsInv, Shape, Items
  <2>6. CorpseTracked'
    BY <1>3, <2>2, <2>4, TrackKept DEF ItemsInv, Items
  <2>7. Loc' = [Loc EXCEPT ![v.item] = v.to]
    BY <1>2, <1>3, <1>6, <2>1, LocMoves DEF ItemsInv
  <2>8. Loc[v.item] = v.from
    BY <1>2, <2>1, LocIs DEF ItemsInv
  <2>9. Named' \in [Chars -> SUBSET Items]
    BY <2>4, NamedNext
  <2>10. ASSUME v.from = Held(c) PROVE C!Next
    <3>1. C!Release(c, v.item, v.to)
      BY <2>7, <2>8, <2>10, SamePlaces DEF C!Release
    <3> QED BY <3>1, <2>9, <1>2, CustodyMoves, Zenon
  <2>11. ASSUME v.from \notin Hands, v.to = Held(c) PROVE C!Next
    <3>1. v.from \in Places
      BY <1>1 DEF Verb
    <3>2. v.from \in C!Open
      BY <2>11, <3>1, SamePlaces DEF Places
    <3>3. C!Take(c, v.item)
      BY <2>7, <2>8, <2>11, <3>2, SamePlaces DEF C!Take
    <3> QED BY <3>3, <2>9, <1>2, CustodyMoves, Zenon
  <2>12. C!Next
    BY <1>2, <2>10, <2>11
  <2> QED BY <2>5, <2>6, <2>12 DEF ItemsInv
<1>7. CASE verb' = [verb EXCEPT ![c] = Idle] /\ UNCHANGED at
  <2>1. verb' \in [Chars -> Verb] /\ \A d \in Chars : Made(d, verb'[d])
    BY <1>7, Resting, VerbChanges DEF ItemsInv
  <2>2. TypeOK'
    BY <1>3, <1>4, <1>7, <2>1 DEF ItemsInv, Shape, TypeOK
  <2>3. Shape'
    BY <1>3, <1>7, <2>1, <2>2 DEF ItemsInv, Shape
  <2>4. CorpseTracked'
    BY <1>3, <1>7, <2>2, TrackKept DEF ItemsInv
  <2> QED BY <1>3, <1>7, <2>2, <2>3, <2>4, RowsStay DEF ItemsInv
<1> QED BY <1>6, <1>7 DEF Transfer

\* RecordEquipment at the end of a verb, and in the middle of a sale.
LEMMA WriteEquipStep ==
    ASSUME ItemsInv, NEW c \in Chars, WriteEquip(c)
    PROVE  ItemsInv' /\ C!Next
<1> DEFINE v == verb[c]
           wears == IF v.op = "wield" THEN v.item
                    ELSE IF v.op = "remove" \/ equip[c] = v.item THEN None ELSE equip[c]
           w == IF v.op = "sellUnequip" THEN [v EXCEPT !.op = "sell"] ELSE Idle
<1>1. v \in Verb /\ Made(c, v) /\ v.op \in {"unequip", "remove", "wield", "sellUnequip"}
  BY ShapeParts DEF ItemsInv, WriteEquip
<1>2. v.item \in Items
  BY <1>1 DEF Made
<1>3. /\ verb' = [verb EXCEPT ![c] = w]
      /\ UNCHANGED <<at, born, aimed, swing, due, queue, popped, stuck, up, verbs>>
  BY DEF WriteEquip
<1>4. /\ equip' = [equip EXCEPT ![c] = wears] \/ UNCHANGED equip
      /\ NoFault \/ Fault
  BY DEF WriteEquip
<1>5. mishaps' \in Nat
  BY <1>4 DEF Fault, NoFault, ItemsInv, Shape, TypeOK
<1>6. equip' \in [Chars -> Items \cup {None}]
  <2>1. equip \in [Chars -> Items \cup {None}]
    BY DEF ItemsInv, Shape, TypeOK
  <2>2. wears \in Items \cup {None}
    BY <1>2, <2>1
  <2> HIDE DEF wears
  <2> QED BY <1>4, <2>1, <2>2
<1>7. w \in Verb /\ Made(c, w)
  <2>1. CASE v.op = "sellUnequip"
    <3>1. w = [op |-> "sell", item |-> v.item, from |-> v.from, to |-> v.to]
      BY <1>1, <2>1 DEF Verb
    <3>2. [op |-> "sell", item |-> v.item, from |-> v.from, to |-> v.to] \in Verb
      BY <1>1 DEF Verb
    <3> QED BY <1>2, <3>1, <3>2 DEF Made
  <2>2. CASE v.op # "sellUnequip"
    BY <2>2, Resting
  <2> QED BY <2>1, <2>2
<1> HIDE DEF w
<1>8. verb' \in [Chars -> Verb] /\ \A d \in Chars : Made(d, verb'[d])
  BY <1>3, <1>7, VerbChanges DEF ItemsInv
<1>9. TypeOK'
  BY <1>3, <1>5, <1>6, <1>8 DEF ItemsInv, Shape, TypeOK
<1>10. Shape'
  BY <1>3, <1>8, <1>9 DEF ItemsInv, Shape
<1>11. CorpseTracked'
  BY <1>3, <1>9, TrackKept DEF ItemsInv
<1> QED BY <1>3, <1>9, <1>10, <1>11, RowsStay DEF ItemsInv

\* The DELETE of a sale: the row of the item, whoever holds it by now.
LEMMA SellDeleteStep ==
    ASSUME ItemsInv, NEW c \in Chars, SellDelete(c)
    PROVE  ItemsInv' /\ C!Next
<1> DEFINE v == verb[c]
<1>1. v \in Verb /\ Made(c, v) /\ v.op = "sell"
  BY ShapeParts DEF ItemsInv, SellDelete
<1>2. v.item \in Items
  BY <1>1 DEF Made
<1>3. /\ verb' = [verb EXCEPT ![c] = Idle]
      /\ UNCHANGED <<born, equip, aimed, swing, due, queue, popped, stuck, up, verbs>>
      /\ DeleteRows({v.item}) \/ UNCHANGED at
      /\ NoFault \/ Fault
  BY DEF SellDelete
<1>4. mishaps' \in Nat
  BY <1>3 DEF Fault, NoFault, ItemsInv, Shape, TypeOK
<1>5. verb' \in [Chars -> Verb] /\ \A d \in Chars : Made(d, verb'[d])
  BY <1>3, Resting, VerbChanges DEF ItemsInv
<1>6. /\ at' \in [Items -> Rows] /\ at' \in [Items -> SUBSET Places]
      /\ \A j \in Items : at'[j] # {} => at[j] # {}
  <2>1. CASE DeleteRows({v.item})
    BY <2>1, RowsGo DEF ItemsInv
  <2>2. CASE UNCHANGED at
    BY <2>2 DEF ItemsInv, Shape, TypeOK
  <2> QED BY <1>3, <2>1, <2>2
<1>7. TypeOK'
  BY <1>3, <1>4, <1>5, <1>6 DEF ItemsInv, Shape, TypeOK
<1>8. Shape'
  BY <1>3, <1>5, <1>6, <1>7 DEF ItemsInv, Shape, Items
<1>9. CorpseTracked'
  BY <1>3, <1>6, <1>7, TrackKept DEF ItemsInv, Items
<1>10. C!Next
  <2>1. CASE DeleteRows({v.item})
    BY <1>2, <1>3, <1>7, <2>1, LocGoes DEF ItemsInv
  <2>2. CASE UNCHANGED at
    BY <1>3, <1>7, <2>2, RowsStay
  <2> QED BY <1>3, <2>1, <2>2
<1> QED BY <1>8, <1>9, <1>10 DEF ItemsInv

\* A step of a character's dispatcher.
LEMMA VerbSteps ==
    ASSUME ItemsInv, NEW c \in Chars, VerbStep(c)
    PROVE  ItemsInv' /\ C!Next
<1> USE PlacesDiffer
<1>1. ASSUME NEW i \in Items, Get(c, i) PROVE ItemsInv' /\ C!Next
  BY <1>1, MovingStarts DEF Get
<1>2. ASSUME NEW i \in Items, Drop(c, i) PROVE ItemsInv' /\ C!Next
  BY <1>2, MovingStarts DEF Drop
<1>3. ASSUME NEW i \in Items, Wield(c, i) PROVE ItemsInv' /\ C!Next
  BY <1>3, Naming, StartStep DEF Wield
<1>4. ASSUME NEW i \in Items, Sell(c, i) PROVE ItemsInv' /\ C!Next
  BY <1>4, Naming, StartStep DEF Sell
<1>5. ASSUME NEW i \in Items, NEW k \in Items, GetFrom(c, i, k) PROVE ItemsInv' /\ C!Next
  BY <1>5, MovingStarts DEF GetFrom
<1>6. ASSUME NEW i \in Items, NEW k \in Items, Put(c, i, k) PROVE ItemsInv' /\ C!Next
  BY <1>6, MovingStarts DEF Put
<1>7. ASSUME NEW i \in Items, NEW d \in Chars, Give(c, i, d) PROVE ItemsInv' /\ C!Next
  BY <1>7, MovingStarts DEF Give
<1>8. CASE Remove(c)
  <2>1. equip[c] \in Items
    BY <1>8 DEF Remove, ItemsInv, Shape, TypeOK
  <2> QED BY <1>8, <2>1, Naming, StartStep DEF Remove
<1>9. CASE Throw(c)
  <2>1. /\ aimed' = [aimed EXCEPT ![c] = equip[c]] /\ verbs' = verbs + 1
        /\ UNCHANGED <<at, born, equip, verb, swing, due, queue, popped, stuck, up, mishaps>>
    BY <1>9 DEF Throw
  <2>2. TypeOK'
    BY <2>1 DEF ItemsInv, Shape, TypeOK
  <2>3. Shape'
    BY <2>1, <2>2 DEF ItemsInv, Shape
  <2>4. CorpseTracked'
    BY <2>1, <2>2, TrackKept DEF ItemsInv
  <2> QED BY <2>1, <2>2, <2>3, <2>4, RowsStay DEF ItemsInv
<1> QED BY <1>1, <1>2, <1>3, <1>4, <1>5, <1>6, <1>7, <1>8, <1>9,
           TransferStep, WriteEquipStep, SellDeleteStep DEF VerbStep

-----------------------------------------------------------------------------
(* The steps of a fight.                                                   *)

\* handleFumble: the slot is cleared before the weapon lands.
LEMMA FumbleStep ==
    ASSUME ItemsInv, NEW p \in Pulses, NEW c \in Chars, Fumble(p, c)
    PROVE  ItemsInv' /\ C!Next
<1> DEFINE s == [Still EXCEPT !.op = "land", !.who = c, !.item = equip[c]]
<1>1. UNCHANGED <<at, born, aimed, verb, due, queue, popped, stuck, up, verbs>>
  BY DEF Fumble
<1>2. equip[c] \in Items
  BY DEF Fumble, ItemsInv, Shape, TypeOK
<1>3. s \in Swing /\ s.op = "land" /\ s.who = c /\ s.item = equip[c]
  <2>1. Still \in Swing
    BY Resting
  <2> QED BY <2>1, <1>2 DEF Swing
<1> HIDE DEF s
<1>4. Begun(born, s)
  BY <1>2, <1>3 DEF Begun
<1>5. CASE Begin(p, s) /\ equip' = [equip EXCEPT ![c] = None] /\ NoFault
  <2>1. swing' = [swing EXCEPT ![p] = s] /\ swing[p] = Still
    BY <1>5 DEF Begin
  <2>2. swing' \in [Pulses -> Swing] /\ \A q \in Pulses : Begun(born, swing'[q])
    BY <1>3, <1>4, <2>1, SwingChanges DEF ItemsInv
  <2>3. TypeOK'
    BY <1>1, <1>5, <2>2 DEF ItemsInv, Shape, TypeOK, NoFault
  <2>4. Shape'
    BY <1>1, <2>2, <2>3 DEF ItemsInv, Shape
  <2>5. \A q \in Pulses : swing[q].op = "schedule" => swing'[q] = swing[q]
    BY <2>1, Resting DEF ItemsInv, Shape, TypeOK
  <2>6. CorpseTracked'
    BY <1>1, <2>3, <2>5, TrackKept DEF ItemsInv
  <2> QED BY <1>1, <2>3, <2>4, <2>6, RowsStay DEF ItemsInv
<1>6. CASE Fault /\ UNCHANGED <<swing, equip>>
  <2>1. TypeOK'
    BY <1>1, <1>6 DEF ItemsInv, Shape, TypeOK, Fault
  <2>2. Shape'
    BY <1>1, <1>6, <2>1 DEF ItemsInv, Shape
  <2>3. CorpseTracked'
    BY <1>1, <1>6, <2>1, TrackKept DEF ItemsInv
  <2> QED BY <1>1, <2>1, <2>2, <2>3, RowsStay DEF ItemsInv
<1> QED BY <1>5, <1>6 DEF Fumble, s

\* clearThrownWeapon: the slot is cleared if it still names the weapon.
LEMMA ResolveThrowStep ==
    ASSUME ItemsInv, NEW p \in Pulses, NEW c \in Chars, ResolveThrow(p, c)
    PROVE  ItemsInv' /\ C!Next
<1> DEFINE s == [Still EXCEPT !.op = "land", !.who = c, !.item = aimed[c]]
<1>1. /\ UNCHANGED <<at, born, verb, due, queue, popped, stuck, up, verbs>>
      /\ Begin(p, s)
      /\ aimed' = [aimed EXCEPT ![c] = None]
      /\ NoFault \/ Fault
      /\ equip' = [equip EXCEPT ![c] = IF @ = aimed[c] THEN None ELSE @] \/ UNCHANGED equip
  BY DEF ResolveThrow
<1>2. aimed[c] \in Items
  BY DEF ResolveThrow, ItemsInv, Shape, TypeOK
<1>3. s \in Swing /\ s.op = "land" /\ s.who = c /\ s.item = aimed[c]
  <2>1. Still \in Swing
    BY Resting
  <2> QED BY <2>1, <1>2 DEF Swing
<1> HIDE DEF s
<1>4. Begun(born, s)
  BY <1>2, <1>3 DEF Begun
<1>5. swing' = [swing EXCEPT ![p] = s] /\ swing[p] = Still
  BY <1>1 DEF Begin
<1>6. swing' \in [Pulses -> Swing] /\ \A q \in Pulses : Begun(born, swing'[q])
  BY <1>3, <1>4, <1>5, SwingChanges DEF ItemsInv
<1>7. equip' \in [Chars -> Items \cup {None}] /\ aimed' \in [Chars -> Items \cup {None}]
  BY <1>1 DEF ItemsInv, Shape, TypeOK
<1>8. mishaps' \in Nat
  BY <1>1 DEF Fault, NoFault, ItemsInv, Shape, TypeOK
<1>9. TypeOK'
  BY <1>1, <1>6, <1>7, <1>8 DEF ItemsInv, Shape, TypeOK
<1>10. Shape'
  BY <1>1, <1>6, <1>9 DEF ItemsInv, Shape
<1>11. \A q \in Pulses : swing[q].op = "schedule" => swing'[q] = swing[q]
  BY <1>5, Resting DEF ItemsInv, Shape, TypeOK
<1>12. CorpseTracked'
  BY <1>1, <1>9, <1>11, TrackKept DEF ItemsInv
<1> QED BY <1>1, <1>9, <1>10, <1>12, RowsStay DEF ItemsInv

\* The end of a slip: the weapon goes to the floor or into a corpse there,
\* out of whatever hands it is in by now.
LEMMA LandStep ==
    ASSUME ItemsInv, NEW p \in Pulses, Land(p)
    PROVE  ItemsInv' /\ C!Next
<1> DEFINE i == swing[p].item
           c == swing[p].who
<1>1. /\ UNCHANGED <<born, equip, aimed, verb, due, queue, popped, stuck, up, verbs>>
      /\ swing' = [swing EXCEPT ![p] = Still]
      /\ swing[p].op = "land"
      /\ NoFault \/ Fault
  BY DEF Land
<1>2. i \in Items /\ c \in Chars
  BY <1>1, ShapeParts DEF ItemsInv, Begun
<1>3. swing' \in [Pulses -> Swing] /\ \A q \in Pulses : Begun(born, swing'[q])
  BY <1>1, Resting, SwingChanges DEF ItemsInv
<1>4. mishaps' \in Nat
  BY <1>1 DEF Fault, NoFault, ItemsInv, Shape, TypeOK
<1>5. \A q \in Pulses : swing[q].op = "schedule" => swing'[q] = swing[q]
  BY <1>1 DEF ItemsInv, Shape, TypeOK
<1>6. CASE UNCHANGED at
  <2>1. TypeOK'
    BY <1>1, <1>3, <1>4, <1>6 DEF ItemsInv, Shape, TypeOK
  <2>2. Shape'
    BY <1>1, <1>3, <1>6, <2>1 DEF ItemsInv, Shape
  <2>3. CorpseTracked'
    BY <1>1, <1>5, <1>6, <2>1, TrackKept DEF ItemsInv
  <2> QED BY <1>1, <1>6, <2>1, <2>2, <2>3, RowsStay DEF ItemsInv
<1>7. ASSUME NEW q \in Places \ Hands, at[i] # {}, MoveTo(i, q)
      PROVE  ItemsInv' /\ C!Next
  <2>1. /\ at' \in [Items -> Rows] /\ at' \in [Items -> SUBSET Places]
        /\ \A j \in Items : at'[j] # {} => at[j] # {}
    BY <1>2, <1>7, RowMoves DEF ItemsInv
  <2>2. TypeOK'
    BY <1>1, <1>3, <1>4, <2>1 DEF ItemsInv, Shape, TypeOK
  <2>3. Shape'
    BY <1>1, <1>3, <2>1, <2>2 DEF ItemsInv, Shape, Items
  <2>4. CorpseTracked'
    BY <1>1, <1>5, <2>1, <2>2, TrackKept DEF ItemsInv, Items
  <2>5. Loc' = [Loc EXCEPT ![i] = q]
    BY <1>1, <1>2, <1>7, LocMoves DEF ItemsInv
  <2>6. Loc[i] \in Places
    <3>1. PICK r \in Places : at[i] = {r}
      BY <1>2, <1>7 DEF ItemsInv, Shape, Rows
    <3> QED BY <1>2, <3>1, LocIs DEF ItemsInv
  <2>7. i \in Named[c]
    <3>1. i # None
      BY <1>2, ItemsConstants
    <3>2. i \in {swing[r].item : r \in {r \in Pulses : swing[r].who = c}}
      OBVIOUS
    <3> HIDE DEF i, c
    <3> QED BY <1>2, <3>1, <3>2 DEF Named
  <2>8. C!Slip(c, i, q)
    BY <2>5, <2>6, <2>7, SamePlaces DEF C!Slip
  <2>9. Named' \in [Chars -> SUBSET Items]
    BY <2>2, NamedNext
  <2>10. C!Next
    BY <1>2, <2>8, <2>9, CustodyMoves
  <2> QED BY <2>3, <2>4, <2>10 DEF ItemsInv
<1>8. ASSUME NoFault, NEW q \in {Floor} \cup {In(b) : b \in {k \in Bodies : at[k] = {Floor}}}, ForceTo(i, q)
      PROVE  ItemsInv' /\ C!Next
  <2>1. q \in Places \ Hands
    BY PlacesDiffer DEF Items
  <2> QED BY <1>6, <1>7, <1>8, <2>1 DEF ForceTo
<1> QED BY <1>6, <1>8 DEF Land

\* A death creates the corpse row; the queue learns of it in a later step.
LEMMA DieStep ==
    ASSUME ItemsInv, NEW p \in Pulses, NEW c \in Chars \cup {None}, NEW b \in Bodies, Die(p, c, b)
    PROVE  ItemsInv' /\ C!Next
<1> DEFINE T == IF c = None THEN {} ELSE {equip[c]} \ {None}
           s == [Still EXCEPT !.op = "schedule", !.who = c, !.body = b, !.todo = T]
<1>1. /\ b \notin born /\ born' = born \cup {b}
      /\ at' = [at EXCEPT ![b] = {Floor}]
      /\ Begin(p, s)
      /\ UNCHANGED <<equip, aimed, verb, due, queue, popped, stuck, up, mishaps, verbs>>
  BY DEF Die, MoveTo
<1>2. T \in SUBSET Items
  BY DEF ItemsInv, Shape, TypeOK
<1> HIDE DEF T
<1>3. s \in Swing /\ s.op = "schedule" /\ s.who = c /\ s.body = b
  <2>1. Still \in Swing
    BY Resting
  <2> QED BY <2>1, <1>2 DEF Swing
<1> HIDE DEF s
<1>4. Begun(born', s) /\ born \subseteq born'
  BY <1>1, <1>3 DEF Begun
<1>5. swing' = [swing EXCEPT ![p] = s] /\ swing[p] = Still /\ up
  BY <1>1 DEF Begin
<1>6. swing' \in [Pulses -> Swing] /\ \A q \in Pulses : Begun(born', swing'[q])
  BY <1>3, <1>4, <1>5, SwingChanges DEF ItemsInv
<1>7. at[b] = {} /\ b \in Items
  BY <1>1, ShapeParts DEF ItemsInv, Items
<1>8. /\ at' \in [Items -> Rows] /\ at' \in [Items -> SUBSET Places]
      /\ at'[b] = {Floor} /\ \A j \in Items \ {b} : at'[j] = at[j]
  <2>1. at \in [Items -> Rows] /\ at \in [Items -> SUBSET Places] /\ {Floor} \in Rows /\ Floor \in Places
    BY PlacesDiffer DEF ItemsInv, Shape, TypeOK, Rows
  <2> QED BY <1>1, <1>7, <2>1
<1>9. TypeOK'
  BY <1>1, <1>6, <1>8 DEF ItemsInv, Shape, TypeOK
<1>10. \A k \in Bodies \ born' : at'[k] = {}
  BY <1>1, <1>8, ShapeParts DEF ItemsInv, Items
<1>11. Shape'
  BY <1>1, <1>6, <1>8, <1>9, <1>10 DEF ItemsInv, Shape
<1>12. \A q \in Pulses \ {p} : swing'[q] = swing[q]
  BY <1>5 DEF ItemsInv, Shape, TypeOK
<1>13. swing'[p] = s /\ swing[p].op # "schedule"
  BY <1>5, Resting DEF ItemsInv, Shape, TypeOK
<1>14. CorpseTracked'
  <2>1. up => \A k \in Bodies : at[k] # {} => \/ k \in queue \cup popped \cup stuck
                                              \/ \E q \in Pulses : swing[q].op = "schedule" /\ swing[q].body = k
    BY DEF ItemsInv, CorpseTracked
  <2>2. ASSUME NEW k \in Bodies, at'[k] # {}
        PROVE  \/ k \in queue' \cup popped' \cup stuck'
               \/ \E q \in Pulses : swing'[q].op = "schedule" /\ swing'[q].body = k
    <3>1. CASE k = b
      BY <3>1, <1>3, <1>13
    <3>2. CASE k # b
      <4>1. at[k] # {}
        BY <1>8, <2>2, <3>2 DEF Items
      <4>2. CASE k \in queue \cup popped \cup stuck
        BY <4>2, <1>1
      <4>3. CASE \E q \in Pulses : swing[q].op = "schedule" /\ swing[q].body = k
        BY <4>3, <1>12, <1>13
      <4> QED BY <1>5, <2>1, <4>1, <4>2, <4>3
    <3> QED BY <3>1, <3>2
  <2> QED BY <1>9, <2>2 DEF CorpseTracked
<1>15. C!Next
  <2> DEFINE It(S) == CHOOSE q \in S : TRUE
             L(a, B, j) == IF a[j] # {} THEN It(a[j])
                           ELSE IF j \in B \/ j \in Things THEN <<"gone">> ELSE <<"unborn">>
  <2>1. Loc = [j \in Items |-> L(at, born, j)] /\ Loc' = [j \in Items |-> L(at', born', j)]
    BY DEF Loc
  <2>2. L(at', born', b) = Floor
    BY <1>8
  <2> HIDE DEF It
  <2>3. ASSUME NEW j \in Items \ {b} PROVE L(at', born', j) = L(at, born, j)
    <3>1. at'[j] = at[j] /\ (j \in born' <=> j \in born)
      BY <1>1, <1>8
    <3> QED BY <3>1
  <2> HIDE DEF L
  <2>4. [Loc EXCEPT ![b] = Floor] = [j \in Items |-> IF j = b THEN Floor ELSE L(at, born, j)]
    BY <2>1
  <2>5. \A j \in Items : L(at', born', j) = IF j = b THEN Floor ELSE L(at, born, j)
    BY <2>2, <2>3
  <2>6. Loc' = [Loc EXCEPT ![b] = Floor]
    BY <2>1, <2>4, <2>5
  <2>7. b \notin Things
    BY ItemsConstants
  <2>8. Loc[b] = <<"unborn">>
    BY <1>1, <1>7, <2>7, LocIs DEF ItemsInv
  <2>9. C!Appear(b)
    BY <2>6, <2>8, SamePlaces DEF C!Appear
  <2>10. Named' \in [Chars -> SUBSET Items]
    BY <1>9, NamedNext
  <2> QED BY <2>9, <2>10, Zenon DEF C!Next
<1> QED BY <1>11, <1>14, <1>15 DEF ItemsInv

\* The corpse enters the decay queue, and the list of what to strip is read.
LEMMA ScheduleStep ==
    ASSUME ItemsInv, NEW p \in Pulses, Schedule(p)
    PROVE  ItemsInv' /\ C!Next
<1> DEFINE s == swing[p]
           S == s.todo \cup {i \in Items : at[i] = {Held(s.who)}}
           t == IF s.who = None THEN Still ELSE [s EXCEPT !.op = "strip", !.todo = S]
<1>1. /\ s.op = "schedule"
      /\ queue' = queue \cup {s.body}
      /\ swing' = [swing EXCEPT ![p] = t]
      /\ UNCHANGED <<at, born, equip, aimed, verb, due, popped, stuck, up, mishaps, verbs>>
  BY DEF Schedule
<1>2. s \in Swing /\ s.body \in born /\ born \in SUBSET Bodies
  BY <1>1, ShapeParts DEF ItemsInv, Begun
<1>3. t \in Swing /\ Begun(born, t)
  <2>1. CASE s.who = None
    BY <2>1, Resting
  <2>2. CASE s.who # None
    <3>1. S \in SUBSET Items
      BY <1>2 DEF Swing
    <3> HIDE DEF S
    <3> DEFINE w == [s EXCEPT !.op = "strip", !.todo = S]
    <3>2. w \in Swing /\ w.op = "strip" /\ w.who = s.who /\ w.body = s.body
      BY <1>2, <3>1 DEF Swing
    <3>3. s.who \in Chars
      BY <1>2, <2>2 DEF Swing
    <3> HIDE DEF w
    <3>4. Begun(born, w)
      BY <1>2, <3>2, <3>3 DEF Begun
    <3> QED BY <2>2, <3>2, <3>4 DEF w
  <2> QED BY <2>1, <2>2
<1> HIDE DEF t
<1>4. swing' \in [Pulses -> Swing] /\ \A q \in Pulses : Begun(born, swing'[q])
  BY <1>1, <1>3, SwingChanges DEF ItemsInv
<1>5. TypeOK'
  <2>1. queue' \in SUBSET Bodies
    BY <1>1, <1>2 DEF ItemsInv, Shape, TypeOK
  <2> QED BY <1>1, <1>4, <2>1 DEF ItemsInv, Shape, TypeOK
<1>6. Shape'
  BY <1>1, <1>4, <1>5 DEF ItemsInv, Shape
<1>7. \A q \in Pulses : swing[q].op = "schedule" => swing'[q] = swing[q] \/ swing[q].body \in queue'
  BY <1>1 DEF ItemsInv, Shape, TypeOK
<1>8. CorpseTracked'
  BY <1>1, <1>5, <1>7, TrackKept DEF ItemsInv
<1> QED BY <1>1, <1>5, <1>6, <1>8, RowsStay DEF ItemsInv

\* One transfer of a death: only what the dead character still holds.
LEMMA StripStep ==
    ASSUME ItemsInv, NEW p \in Pulses, NEW i \in Items, Strip(p, i)
    PROVE  ItemsInv' /\ C!Next
<1> DEFINE s == swing[p]
           t == [s EXCEPT !.todo = @ \ {i}]
<1>1. /\ s.op = "strip"
      /\ swing' = [swing EXCEPT ![p].todo = @ \ {i}]
      /\ UNCHANGED <<born, equip, aimed, verb, due, queue, popped, stuck, up, verbs>>
      /\ NoFault \/ Fault
  BY DEF Strip
<1>2. s \in Swing /\ s.body \in born /\ s.who \in Chars /\ born \in SUBSET Bodies
  BY <1>1, ShapeParts DEF ItemsInv, Begun
<1>3. t \in Swing /\ Begun(born, t)
  <2>1. t \in Swing /\ t.op = "strip" /\ t.who = s.who /\ t.body = s.body
    BY <1>1, <1>2 DEF Swing
  <2> HIDE DEF t
  <2> QED BY <1>2, <2>1 DEF Begun
<1>4. swing' = [swing EXCEPT ![p] = t]
  BY <1>1
<1> HIDE DEF t
<1>5. swing' \in [Pulses -> Swing] /\ \A q \in Pulses : Begun(born, swing'[q])
  BY <1>3, <1>4, SwingChanges DEF ItemsInv
<1>6. mishaps' \in Nat
  BY <1>1 DEF Fault, NoFault, ItemsInv, Shape, TypeOK
<1>7. \A q \in Pulses : swing[q].op = "schedule" => swing'[q] = swing[q]
  BY <1>1, <1>4 DEF ItemsInv, Shape, TypeOK
<1>8. CASE UNCHANGED at
  <2>1. TypeOK'
    BY <1>1, <1>5, <1>6, <1>8 DEF ItemsInv, Shape, TypeOK
  <2>2. Shape'
    BY <1>1, <1>5, <1>8, <2>1 DEF ItemsInv, Shape
  <2>3. CorpseTracked'
    BY <1>1, <1>7, <1>8, <2>1, TrackKept DEF ItemsInv
  <2> QED BY <1>1, <1>8, <2>1, <2>2, <2>3, RowsStay DEF ItemsInv
<1>9. CASE Matches(i, Held(s.who)) /\ MoveTo(i, In(s.body))
  <2>1. at[i] = {Held(s.who)} /\ at[i] # {}
    BY <1>9 DEF Matches
  <2>2. In(s.body) \in Places
    BY <1>2, PlacesDiffer DEF Items
  <2>3. /\ at' \in [Items -> Rows] /\ at' \in [Items -> SUBSET Places]
        /\ \A j \in Items : at'[j] # {} => at[j] # {}
    BY <1>9, <2>1, <2>2, RowMoves DEF ItemsInv
  <2>4. TypeOK'
    BY <1>1, <1>5, <1>6, <2>3 DEF ItemsInv, Shape, TypeOK
  <2>5. Shape'
    BY <1>1, <1>5, <2>3, <2>4 DEF ItemsInv, Shape, Items
  <2>6. CorpseTracked'
    BY <1>1, <1>7, <2>3, <2>4, TrackKept DEF ItemsInv, Items
  <2>7. Loc' = [Loc EXCEPT ![i] = In(s.body)] /\ Loc[i] = Held(s.who)
    BY <1>1, <1>9, <2>1, <2>2, LocMoves, LocIs DEF ItemsInv
  <2>8. C!Release(s.who, i, In(s.body))
    BY <2>7, SamePlaces DEF C!Release
  <2>9. Named' \in [Chars -> SUBSET Items]
    BY <2>4, NamedNext
  <2>10. C!Next
    BY <1>2, <2>2, <2>8, <2>9, CustodyMoves
  <2> QED BY <2>5, <2>6, <2>10 DEF ItemsInv
<1> QED BY <1>8, <1>9 DEF Strip

\* The equipment column is cleared last.
LEMMA BareStep ==
    ASSUME ItemsInv, NEW p \in Pulses, Bare(p)
    PROVE  ItemsInv' /\ C!Next
<1>1. /\ UNCHANGED <<at, born, aimed, verb, due, queue, popped, stuck, up, verbs>>
      /\ swing' = [swing EXCEPT ![p] = Still]
      /\ swing[p].op = "strip"
      /\ NoFault \/ Fault
      /\ equip' = [equip EXCEPT ![swing[p].who] = None] \/ UNCHANGED equip
  BY DEF Bare
<1>2. equip' \in [Chars -> Items \cup {None}]
  BY <1>1 DEF ItemsInv, Shape, TypeOK
<1>3. swing' \in [Pulses -> Swing] /\ \A q \in Pulses : Begun(born, swing'[q])
  BY <1>1, Resting, SwingChanges DEF ItemsInv
<1>4. mishaps' \in Nat
  BY <1>1 DEF Fault, NoFault, ItemsInv, Shape, TypeOK
<1>5. TypeOK'
  BY <1>1, <1>2, <1>3, <1>4 DEF ItemsInv, Shape, TypeOK
<1>6. Shape'
  BY <1>1, <1>3, <1>5 DEF ItemsInv, Shape
<1>7. \A q \in Pulses : swing[q].op = "schedule" => swing'[q] = swing[q]
  BY <1>1 DEF ItemsInv, Shape, TypeOK
<1>8. CorpseTracked'
  BY <1>1, <1>5, <1>7, TrackKept DEF ItemsInv
<1> QED BY <1>1, <1>5, <1>6, <1>8, RowsStay DEF ItemsInv

\* A step of a combat goroutine.
LEMMA SwingSteps ==
    ASSUME ItemsInv, NEW p \in Pulses, SwingStep(p)
    PROVE  ItemsInv' /\ C!Next
BY FumbleStep, ResolveThrowStep, LandStep, DieStep, ScheduleStep, StripStep, BareStep
   DEF SwingStep, SwingOn

-----------------------------------------------------------------------------
(* Decay, crash and boot.                                                  *)

\* Time passes, and the due entries leave the queue.
LEMMA DueSteps ==
    ASSUME ItemsInv, PopDue \/ \E b \in Bodies : DeadlinePasses(b)
    PROVE  ItemsInv' /\ C!Next
<1>1. /\ UNCHANGED <<at, born, equip, aimed, verb, swing, stuck, up, mishaps, verbs>>
      /\ due' \in SUBSET Bodies /\ queue' \in SUBSET Bodies /\ popped' \in SUBSET Bodies
      /\ queue \cup popped \subseteq queue' \cup popped'
  <2>1. {due, queue, popped} \subseteq SUBSET Bodies
    BY DEF ItemsInv, Shape, TypeOK
  <2>2. CASE PopDue
    BY <2>1, <2>2 DEF PopDue
  <2>3. ASSUME NEW b \in Bodies, DeadlinePasses(b)
        PROVE  /\ UNCHANGED <<at, born, equip, aimed, verb, swing, queue, popped, stuck, up, mishaps, verbs>>
               /\ due' \in SUBSET Bodies
    BY <2>1, <2>3 DEF DeadlinePasses
  <2> QED BY <2>1, <2>2, <2>3
<1>2. TypeOK'
  BY <1>1 DEF ItemsInv, Shape, TypeOK
<1>3. Shape'
  BY <1>1, <1>2 DEF ItemsInv, Shape
<1>4. CorpseTracked'
  BY <1>1, <1>2, TrackKept DEF ItemsInv
<1> QED BY <1>1, <1>2, <1>3, <1>4, RowsStay DEF ItemsInv

\* A corpse whose deadline passed is deleted, or its delete fails.
LEMMA DecayStep ==
    ASSUME ItemsInv, NEW b \in Bodies, Decay(b)
    PROVE  ItemsInv' /\ C!Next
<1>1. /\ popped' = popped \ {b}
      /\ UNCHANGED <<born, equip, aimed, verb, swing, due, queue, up, verbs>>
      /\ NoFault \/ Fault
      /\ \/ DeleteRows({b}) /\ UNCHANGED stuck
         \/ stuck' = stuck \cup {b} /\ UNCHANGED at
  BY DEF Decay
<1>2. mishaps' \in Nat
  BY <1>1 DEF Fault, NoFault, ItemsInv, Shape, TypeOK
<1>3. stuck' \in SUBSET Bodies /\ popped' \in SUBSET Bodies
  BY <1>1 DEF ItemsInv, Shape, TypeOK
<1>4. CASE DeleteRows({b}) /\ UNCHANGED stuck
  <2>1. /\ at' \in [Items -> Rows] /\ at' \in [Items -> SUBSET Places]
        /\ \A j \in Items : at'[j] # {} => at[j] # {}
        /\ at'[b] = {}
    BY <1>4, RowsGo DEF ItemsInv, Items
  <2>2. TypeOK'
    BY <1>1, <1>2, <1>3, <2>1 DEF ItemsInv, Shape, TypeOK
  <2>3. Shape'
    BY <1>1, <2>1, <2>2 DEF ItemsInv, Shape, Items
  <2>4. CorpseTracked'
    BY <1>1, <1>4, <2>1, <2>2, TrackKept DEF ItemsInv, Items
  <2>5. C!Next
    BY <1>1, <1>4, <2>2, LocGoes DEF ItemsInv, Items
  <2> QED BY <2>3, <2>4, <2>5 DEF ItemsInv
<1>5. CASE stuck' = stuck \cup {b} /\ UNCHANGED at
  <2>1. TypeOK'
    BY <1>1, <1>2, <1>3, <1>5 DEF ItemsInv, Shape, TypeOK
  <2>2. Shape'
    BY <1>1, <1>5, <2>1 DEF ItemsInv, Shape
  <2>3. CorpseTracked'
    BY <1>1, <1>5, <2>1, TrackKept DEF ItemsInv
  <2> QED BY <1>1, <1>5, <2>1, <2>2, <2>3, RowsStay DEF ItemsInv
<1> QED BY <1>1, <1>4, <1>5

\* The process dies; the rows stay.
LEMMA CrashStep ==
    ASSUME ItemsInv, Crash
    PROVE  ItemsInv' /\ C!Next
<1>1. /\ up' = FALSE
      /\ verb' = [c \in Chars |-> Idle]
      /\ swing' = [p \in Pulses |-> Still]
      /\ aimed' = [c \in Chars |-> None]
      /\ queue' = {} /\ popped' = {} /\ stuck' = {}
      /\ UNCHANGED <<at, born, equip, due, verbs>>
      /\ Fault
  BY DEF Crash
<1>2. mishaps' \in Nat
  BY <1>1 DEF Fault, ItemsInv, Shape, TypeOK
<1>3. verb' \in [Chars -> Verb] /\ \A c \in Chars : Made(c, verb'[c])
  BY <1>1, Resting
<1>4. swing' \in [Pulses -> Swing] /\ \A p \in Pulses : Begun(born, swing'[p])
  BY <1>1, Resting
<1>5. TypeOK'
  BY <1>1, <1>2, <1>3, <1>4 DEF ItemsInv, Shape, TypeOK
<1>6. Shape'
  BY <1>1, <1>3, <1>4, <1>5 DEF ItemsInv, Shape
<1>7. CorpseTracked'
  BY <1>1, <1>5 DEF CorpseTracked
<1> QED BY <1>1, <1>5, <1>6, <1>7, RowsStay DEF ItemsInv

\* RearmFromRepo: overdue rows are deleted, or one delete fails; the others
\* are queued again.
LEMMA BootStep ==
    ASSUME ItemsInv, Boot
    PROVE  ItemsInv' /\ C!Next
<1> DEFINE rows == {b \in Bodies : at[b] # {}}
<1>1. PICK S \in SUBSET (rows \cap due) :
          /\ DeleteRows(S)
          /\ up' = TRUE
          /\ queue' = rows \ due
          /\ UNCHANGED <<born, equip, aimed, verb, swing, due, popped, verbs>>
          /\ NoFault \/ Fault
          /\ (rows \cap due) \ S \subseteq stuck'
          /\ stuck' \in SUBSET Bodies
  <2>1. stuck \in SUBSET Bodies
    BY DEF ItemsInv, Shape, TypeOK
  <2> DEFINE G(S) == /\ DeleteRows(S)
                     /\ up' = TRUE
                     /\ queue' = rows \ due
                     /\ UNCHANGED <<born, equip, aimed, verb, swing, due, popped, verbs>>
                     /\ NoFault \/ Fault
                     /\ (rows \cap due) \ S \subseteq stuck'
                     /\ stuck' \in SUBSET Bodies
  <2>2. /\ up' = TRUE
        /\ queue' = rows \ due
        /\ UNCHANGED <<born, equip, aimed, verb, swing, due, popped, verbs>>
    BY DEF Boot
  <2>3. ASSUME DeleteRows(rows \cap due), NoFault, UNCHANGED stuck
        PROVE  \E S \in SUBSET (rows \cap due) : G(S)
    <3>1. G(rows \cap due)
      BY <2>1, <2>2, <2>3
    <3> HIDE DEF G
    <3> QED BY <3>1
  <2>4. ASSUME NEW b \in rows \cap due,
               DeleteRows((rows \cap due) \ {b}), Fault, stuck' = {b}
        PROVE  \E S \in SUBSET (rows \cap due) : G(S)
    <3>1. G((rows \cap due) \ {b})
      BY <2>2, <2>4
    <3> HIDE DEF G
    <3> QED BY <3>1
  <2> QED BY <2>3, <2>4 DEF Boot
<1>2. /\ at' \in [Items -> Rows] /\ at' \in [Items -> SUBSET Places]
      /\ \A j \in Items : at'[j] # {} => at[j] # {}
      /\ \A j \in Items : at'[j] = IF j \in S THEN {} ELSE at[j]
  BY <1>1, RowsGo DEF ItemsInv
<1>3. mishaps' \in Nat
  BY <1>1 DEF Fault, NoFault, ItemsInv, Shape, TypeOK
<1>4. TypeOK'
  <2>1. queue' \in SUBSET Bodies
    BY <1>1
  <2> QED BY <1>1, <1>2, <1>3, <2>1 DEF ItemsInv, Shape, TypeOK
<1>5. Shape'
  BY <1>1, <1>2, <1>4 DEF ItemsInv, Shape, Items
<1>6. CorpseTracked'
  <2>1. ASSUME NEW b \in Bodies, at'[b] # {} PROVE b \in queue' \cup stuck'
    <3>1. b \in rows /\ b \notin S
      BY <1>2, <2>1 DEF Items
    <3> QED BY <1>1, <3>1
  <2> QED BY <1>4, <2>1 DEF CorpseTracked
<1>7. C!Next
  <2>1. S \in SUBSET Items
    BY DEF Items
  <2> QED BY <1>1, <1>4, <2>1, LocGoes DEF ItemsInv
<1> QED BY <1>5, <1>6, <1>7 DEF ItemsInv

-----------------------------------------------------------------------------
(* The theorems.                                                           *)

\* The rows at the start: one place each, and nobody has died.
LEMMA ItemsBegin ==
    ASSUME Init
    PROVE  ItemsInv /\ C!Init
<1>1. /\ at \in [Items -> {{Floor}, {}}]
      /\ \A i \in Items : (at[i] = {}) <=> (i \in Bodies)
      /\ born = {} /\ up = TRUE
      /\ queue = {} /\ popped = {} /\ stuck = {} /\ due = {}
      /\ mishaps = 0 /\ verbs = 0
  BY DEF Init
<1>2. /\ equip = [c \in Chars |-> None] /\ aimed = [c \in Chars |-> None]
      /\ verb = [c \in Chars |-> Idle] /\ swing = [p \in Pulses |-> Still]
  BY DEF Init
<1>3. /\ at \in [Items -> Rows] /\ at \in [Items -> SUBSET Places]
      /\ \A b \in Bodies : at[b] = {}
  <2>1. {Floor} \in Rows /\ {} \in Rows /\ Floor \in Places
    BY PlacesDiffer DEF Rows
  <2> QED BY <1>1, <2>1 DEF Items
<1>4. verb \in [Chars -> Verb] /\ \A c \in Chars : Made(c, verb[c])
  BY <1>2, Resting
<1>5. swing \in [Pulses -> Swing] /\ \A p \in Pulses : Begun(born, swing[p])
  BY <1>2, Resting
<1>6. TypeOK
  BY <1>1, <1>2, <1>3, <1>4, <1>5 DEF TypeOK
<1>7. Shape
  BY <1>3, <1>4, <1>5, <1>6 DEF Shape
<1>8. CorpseTracked
  BY <1>3, <1>6 DEF CorpseTracked
<1>9. \A i \in Items : IF i \in Bodies THEN Loc[i] = <<"unborn">> ELSE Loc[i] = Floor
  <2>1. ASSUME NEW i \in Items, i \in Bodies PROVE Loc[i] = <<"unborn">>
    <3>1. i \notin born /\ i \notin Things /\ at[i] = {}
      BY <1>1, <2>1, ItemsConstants
    <3> QED BY <1>7, <3>1, LocIs
  <2>2. ASSUME NEW i \in Items, i \notin Bodies PROVE Loc[i] = Floor
    <3>1. at[i] = {Floor}
      BY <1>1, <2>2
    <3> QED BY <1>7, <3>1, LocIs
  <2> QED BY <2>1, <2>2
<1>10. Floor # <<"unborn">>
  BY DEF Floor
<1>11. Loc \in [Items -> C!Places \cup {C!Unborn}]
  <2>1. Loc = [i \in Items |-> Loc[i]]
    BY DEF Loc
  <2>2. \A i \in Items : Loc[i] \in C!Places \cup {C!Unborn}
    BY <1>9, SamePlaces, PlacesDiffer
  <2> QED BY <2>1, <2>2
<1>12. \A i \in Items : Loc[i] = C!Unborn => i \in Bodies
  BY <1>9, <1>10, SamePlaces
<1>13. Named = [c \in Chars |-> {}]
  <2>1. ASSUME NEW c \in Chars
        PROVE  ({equip[c], aimed[c]} \cup {swing[p].item : p \in {q \in Pulses : swing[q].who = c}}) \ {None} = {}
    <3>1. \A p \in Pulses : swing[p].item = None
      BY <1>2 DEF Still
    <3> QED BY <1>2, <3>1
  <2> QED BY <2>1 DEF Named
<1> QED BY <1>7, <1>8, <1>11, <1>12, <1>13 DEF ItemsInv, C!Init

\* Every step keeps the invariant and is a step of Custody.
LEMMA ItemsGoOn ==
    ASSUME ItemsInv, [Next]_vars
    PROVE  ItemsInv' /\ [C!Next]_(C!vars)
<1>1. CASE Next
  <2>1. ItemsInv' /\ C!Next
    BY <1>1, VerbSteps, SwingSteps, DueSteps, DecayStep, CrashStep, BootStep DEF Next
  <2> QED BY <2>1
<1>2. CASE UNCHANGED vars
  <2>1. UNCHANGED <<at, born, equip, aimed, verb, swing, due, queue, popped, stuck, up, mishaps, verbs>>
    BY <1>2 DEF vars
  <2>2. TypeOK'
    BY <2>1 DEF ItemsInv, Shape, TypeOK
  <2>3. Shape'
    BY <2>1, <2>2 DEF ItemsInv, Shape
  <2>4. CorpseTracked'
    BY <2>1, <2>2, TrackKept DEF ItemsInv
  <2>5. C!Next
    BY <2>1, <2>2, RowsStay
  <2> QED BY <2>3, <2>4, <2>5 DEF ItemsInv
<1> QED BY <1>1, <1>2

\* In every state of a running server a corpse row is queued, being deleted,
\* being scheduled by the fight that made it, or waits for the next boot
\* because its delete failed (Decayer.Schedule, popDue and RearmFromRepo).
THEOREM CorpsesAlwaysTracked == Spec => []CorpseTracked
<1>1. Init => ItemsInv
  BY ItemsBegin
<1>2. ItemsInv /\ [Next]_vars => ItemsInv'
  BY ItemsGoOn
<1>3. ItemsInv => CorpseTracked
  BY DEF ItemsInv
<1> QED BY <1>1, <1>2, <1>3, PTL DEF Spec

\* The statements of the item table (the conditional transfers of the verbs,
\* the unconditional ones of a slip, the deletes of a sale and of decay, and
\* the stripping of a corpse) together implement Custody.
THEOREM ItemsImplementCustody == Spec => Implements
<1>1. Init => ItemsInv /\ C!Init
  BY ItemsBegin
<1>2. ItemsInv /\ [Next]_vars => ItemsInv' /\ [C!Next]_(C!vars)
  BY ItemsGoOn
<1> QED BY <1>1, <1>2, PTL DEF Spec, Implements, C!Spec
=============================================================================
