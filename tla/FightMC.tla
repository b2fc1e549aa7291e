------------------------------ MODULE FightMC ------------------------------
(***************************************************************************)
(* Two parts of the server that share no state, checked beside each other. *)
(* Fight: two characters and one mob in a room, a combat pulse, a script.  *)
(* Flow: a flow with a step of every kind, in a release that asks for the  *)
(* shade of green and in one that does not, and two sessions.              *)
(***************************************************************************)
EXTENDS Fight, Flow, TLC

CONSTANTS c1, c2, m1, t1, x1

TwoChars == {c1, c2}
OneMob == {m1}
OnePulse == {t1}
OneScript == {x1}

MCKinds == ("colour" :> "ask") @@ ("shade" :> "ask") @@ ("wares" :> "buy")
           @@ ("which" :> "branch") @@ ("sure" :> "confirm") @@ ("commit" :> "action")
Plain == ("colour" :> ("red" :> "wares" @@ "green" :> "wares"))
         @@ ("wares" :> ("done" :> "which"))
         @@ ("which" :> ("red" :> "sure" @@ "default" :> "commit"))
         @@ ("sure" :> ("yes" :> "end" @@ "no" :> "colour")) @@ ("commit" :> ("done" :> "end"))
Shaded == ("colour" :> ("red" :> "wares" @@ "green" :> "shade"))
          @@ ("shade" :> ("dark" :> "wares")) @@ Plain
MCReleases == [n \in {"plain", "shaded"} |->
    [first |-> "colour", next |-> IF n = "plain" THEN Plain ELSE Shaded]]
MCPrices == (0 :> 0) @@ (1 :> 1)

\* What the proof about commits asks of the releases.
ASSUME BranchesLookBack /\ ReleasesLeadPast

VARIABLE part
EitherInit ==
    /\ part \in {"fight", "flow"} /\ FightInit /\ FlowInit
    /\ part = "fight" => catalog = "plain"
EitherNext ==
    \/ part = "fight" /\ FightNext /\ UNCHANGED <<part, flowVars>>
    \/ part = "flow" /\ FlowNext /\ UNCHANGED <<part, combatVars>>

\* The scheduler fires the combat pulse again and again and its goroutine runs,
\* time passes, and no action has swings without end.  Players, mobs and scripts
\* need not do anything.
FightFairness ==
    /\ \A p \in Pulses : WF_combatVars(part = "fight" /\ Tick(p)) /\ SF_combatVars(part = "fight" /\ Restamp(p))
    /\ \A a \in Actors : WF_combatVars(part = "fight" /\ Ready(a))

EitherSpec == EitherInit /\ [][EitherNext]_<<part, combatVars, flowVars>> /\ FightFairness
=============================================================================
