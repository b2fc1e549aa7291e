------------------------------ MODULE PulsesMC ------------------------------
(***************************************************************************)
(* Four parts of the server that share no state, checked beside each      *)
(* other.  Affects: one affect that hurts, laid on by a potion or by the   *)
(* staff.  Wander: one mob of any of three breeds, two pulses that can     *)
(* overlap, and a zone of three rooms in a row whose end leads out of it.  *)
(* Movement: two players, two rooms and an exit back into its own room.    *)
(* Scripts: two goroutines that publish, a pool of one state.              *)
(***************************************************************************)
EXTENDS Affects, Wander, Movement, Scripts, TLC

VenomHurts == ("venom" :> -1)

MCLeaves  == ("ab" :> "a") @@ ("ba" :> "b") @@ ("bc" :> "b") @@ ("cb" :> "c")
             @@ ("cx" :> "c") @@ ("xc" :> "x")
MCReaches == ("ab" :> "b") @@ ("ba" :> "a") @@ ("bc" :> "c") @@ ("cb" :> "b")
             @@ ("cx" :> "x") @@ ("xc" :> "c")
MCZoneOf  == [r \in {"a", "b", "c", "x"} |-> IF r = "x" THEN 2 ELSE 1]
MCHome    == ("wolf" :> "a")
Breed(p, r, c) == [path |-> p, radius |-> r, roams |-> c]
MCTemplates == {Breed(<<"a", "b">>, 0, FALSE), Breed(<< >>, 2, FALSE), Breed(<< >>, 0, TRUE)}

MCNear  == [x \in {"out", "ring"} |-> "hall"]
MCFar   == ("out" :> "yard") @@ ("ring" :> "hall")
MCEntry == [p \in {"ann", "ben"} |-> "hall"]

VARIABLE part
EitherInit ==
    /\ part \in {"affects", "wander", "movement", "scripts"}
    /\ AffectsInit /\ WanderInit /\ MovementInit /\ ScriptsInit
    /\ part # "wander" => breed = [m \in Mobs |-> Breed(<< >>, 2, FALSE)]
EitherNext ==
    \/ part = "affects" /\ AffectsNext /\ UNCHANGED <<part, wanderVars, moveVars, scriptVars>>
    \/ part = "wander" /\ WanderNext /\ UNCHANGED <<part, affectVars, moveVars, scriptVars>>
    \/ part = "movement" /\ MovementNext /\ UNCHANGED <<part, affectVars, wanderVars, scriptVars>>
    \/ part = "scripts" /\ ScriptsNext /\ UNCHANGED <<part, affectVars, wanderVars, moveVars>>

\* Pulses come for as long as the server is up, and a goroutine that has read a
\* row goes on to write it.
AffectsFairness ==
    /\ WF_affectVars(part = "affects" /\ (PulseLook \/ PulseBleed \/ PulseCount \/ PulseDeath))
    /\ WF_affectVars(part = "affects" /\ (RoundLook \/ RoundCount \/ RoundOver))
    /\ WF_affectVars(part = "affects" /\ DrainWrite)
    /\ WF_affectVars(part = "affects" /\ RegenStep)
    /\ WF_affectVars(part = "affects" /\ QuaffWrite)
    /\ WF_affectVars(part = "affects" /\ StaffWrite)

WanderFairness == \A g \in WanderPulses : WF_wanderVars(part = "wander" /\ Stroll(g))

\* A verb that has begun goes on; nobody has to type another.
MovementFairness ==
    /\ \A p \in Walkers : WF_moveVars(part = "movement" /\ Onward(p))
    /\ \A g \in Threads : WF_moveVars(part = "movement" /\ Relocated(g))

\* A call goes on, a script ends at its deadline if not before, timers fire.
ScriptsFairness ==
    /\ \A g \in Sources : WF_scriptVars(part = "scripts" /\ (Call(g) \/ Ends(g)))
    /\ \A d \in Deferred : WF_scriptVars(part = "scripts" /\ Deferral(d))

EitherSpec ==
    /\ EitherInit /\ [][EitherNext]_<<part, affectVars, wanderVars, moveVars, scriptVars>>
    /\ AffectsFairness /\ WanderFairness /\ MovementFairness /\ ScriptsFairness
=============================================================================
