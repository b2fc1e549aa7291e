------------------------------ MODULE Custody ------------------------------
(***************************************************************************)
(* What the item table promises the players: every item is in exactly one  *)
(* place, and it leaves a character's hands only because that character    *)
(* lets go of it (drop, give, put, sell, or dying), or because a fight     *)
(* knocks a weapon loose that somebody's equipment still names.  Nobody    *)
(* else's `get` can pull it out of a pack, and a row that is deleted never *)
(* comes back.                                                             *)
(***************************************************************************)
CONSTANTS Chars,    \* characters
          Items,    \* item rows, the corpses included
          Bodies    \* the rows of Items that are corpses

VARIABLES loc,      \* where each item is
          named     \* the items a character's equipment or fight still names

vars == <<loc, named>>

Floor   == <<"floor">>
Held(c) == <<"held", c>>
In(k)   == <<"in", k>>
Unborn  == <<"unborn">>     \* a corpse nobody has died into yet
Gone    == <<"gone">>       \* deleted

Open   == {Floor} \cup {In(k) : k \in Items}
Hands  == {Held(c) : c \in Chars}
Places == Open \cup Hands

Init ==
    /\ loc \in [Items -> Places \cup {Unborn}]
    /\ \A i \in Items : loc[i] = Unborn => i \in Bodies
    /\ named = [c \in Chars |-> {}]

\* Somebody picks up what lies on the floor or in a container.
Take(c, i) ==
    /\ loc[i] \in Open
    /\ loc' = [loc EXCEPT ![i] = Held(c)]

\* The holder, and nobody else, lets the item go to another place.
Release(c, i, p) ==
    /\ loc[i] = Held(c)
    /\ loc' = [loc EXCEPT ![i] = p]

\* A weapon is fumbled or thrown by a character who still names it.
Slip(c, i, p) ==
    /\ i \in named[c]
    /\ loc[i] \in Places
    /\ loc' = [loc EXCEPT ![i] = p]

Appear(b) ==
    /\ b \in Bodies
    /\ loc[b] = Unborn
    /\ loc' = [loc EXCEPT ![b] = Floor]

\* Sold by somebody who held it, or decayed.
Vanish(S) ==
    /\ \A i \in S : loc[i] \in Places
    /\ loc' = [i \in Items |-> IF i \in S THEN Gone ELSE loc[i]]

Next ==
    /\ named' \in [Chars -> SUBSET Items]
    /\ \/ UNCHANGED loc
       \/ \E c \in Chars, i \in Items : Take(c, i)
       \/ \E c \in Chars, i \in Items : \E p \in Places : Release(c, i, p)
       \/ \E c \in Chars, i \in Items : \E p \in Open : Slip(c, i, p)
       \/ \E b \in Bodies : Appear(b)
       \/ \E S \in SUBSET Items : Vanish(S)

Spec == Init /\ [][Next]_vars
=============================================================================
