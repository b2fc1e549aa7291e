------------------------------ MODULE WorldMC ------------------------------
(* Three editions of the authored files.  The first has a starter and a vault *)
(* behind a locked door, in files that name the vault first.  The second adds *)
(* a room and a zone, calls the new room the starter, and moves key, cat and  *)
(* door.  The third marks two starters and the fourth has an exit to a room    *)
(* it lacks: both are refused.  Beside it, two buyers at a stock line of one   *)
(* unit, which shares no state with the world.                                *)
EXTENDS World, Shop, TLC

CONSTANTS plaza, vault, annex, town, wild, rat, cat, key, gate, a, b, i1, i2

First ==
    [rooms |-> <<vault, plaza>>, starters |-> {plaza},
     text  |-> (plaza :> "old") @@ (vault :> "old"),
     zone  |-> (plaza :> town) @@ (vault :> town),
     mode  |-> (town :> "empty"),
     doors |-> (gate :> [from |-> plaza, to |-> vault, state |-> "locked"]),
     items |-> (key :> plaza),
     mobs  |-> (rat :> vault) @@ (cat :> plaza)]

Second ==
    [First EXCEPT
        !.rooms = <<annex, vault, plaza>>, !.starters = {annex},
        !.text  = [r \in {plaza, vault, annex} |-> "new"],
        !.zone  = @ @@ (annex :> wild),
        !.mode  = (town :> "always") @@ (wild :> "never"),
        !.doors = (gate :> [from |-> plaza, to |-> annex, state |-> "open"]),
        !.items = (key :> annex),
        !.mobs  = (rat :> annex)]

MCEditions ==
    {First, Second, [Second EXCEPT !.starters = {annex, plaza}],
     [First EXCEPT !.doors = (gate :> [from |-> plaza, to |-> annex, state |-> "open"])]}

TwoBuyers == {a, b}
TwoItems == {i1, i2}

VARIABLE part
EitherInit == part \in {"world", "shop"} /\ Init /\ ShopInit
EitherNext ==
    \/ part = "world" /\ Next /\ UNCHANGED <<part, shopVars>>
    \/ part = "shop" /\ ShopNext /\ UNCHANGED <<part, vars>>

\* The scheduler keeps firing, time passes, and a pass that runs goes on.
EitherSpec ==
    /\ EitherInit /\ [][EitherNext]_<<part, vars, shopVars>>
    /\ WF_vars(part = "world" /\ AgeZones)
    /\ \A p \in Passes : WF_vars(part = "world" /\ ResetStep(p))
    /\ WF_shopVars(part = "shop" /\ Pulse) /\ WF_shopVars(part = "shop" /\ Elapse)
=============================================================================
