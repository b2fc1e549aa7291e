----------------------------- MODULE AccountsMC -----------------------------
(***************************************************************************)
(* Two parts of the server checked beside each other.  Accounts: one       *)
(* account with at most two characters and one item, two connections.      *)
(* Gmcp: the display of one package of each kind.                          *)
(***************************************************************************)
EXTENDS Accounts, Gmcp, TLC

CONSTANTS c1, c2, a1, k1, k2, i1, p1, color

TwoConns == {c1, c2}
OneAccount == {a1}
TwoChars == {k1, k2}
OneItem == {i1}
OnePassword == {p1}
OneKey == {color}

Symm == Permutations(TwoConns) \cup Permutations(TwoChars) \cup Permutations(Values)

VARIABLE part
EntryInit ==
    /\ part \in {"accounts", "display"} /\ Init /\ GmcpInit
    /\ part = "accounts" => kind = "room"
    /\ part = "display" => hash = [a \in Accounts |-> None] /\ holder = [i \in Items |-> "room"]
EntryNext ==
    \/ part = "accounts" /\ Next /\ UNCHANGED <<part, gmcpVars>>
    \/ part = "display" /\ GmcpNext /\ UNCHANGED <<part, vars>>
EntrySpec == EntryInit /\ [][EntryNext]_<<part, vars, gmcpVars>>
=============================================================================
