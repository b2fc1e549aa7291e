----------------------------- MODULE SessionMC -----------------------------
(***************************************************************************)
(* Two parts of the way into the game, checked beside each other.          *)
(* Session: two connections that log in to one or two accounts.  Chargen:  *)
(* two races, a background for each, a fighter and a channeler.            *)
(***************************************************************************)
EXTENDS Session, Chargen

CONSTANTS s1, s2, a1, a2

TwoConns == {s1, s2}
TwoAccounts == {a1, a2}

TwoRaces == {"human", "ogier"}
TwoBackgrounds == {"midlander", "stedding"}
TwoClasses == {"armsman", "initiate"}
OneFeat == {"duelist"}
TwoSkills == {"ride", "lore"}
TwoPowers == {"air", "fire"}
TwoWeaves == {"breeze", "spark"}

Race == [b \in TwoBackgrounds |-> IF b = "stedding" THEN "ogier" ELSE "human"]
FeatChoice == [b \in TwoBackgrounds |-> IF b = "stedding" THEN OneFeat ELSE {}]
KitChoice == [b \in TwoBackgrounds |->
                 IF b = "midlander" THEN << <<"weapon">>, <<"weapon", "weapon", "armor">> >>
                                    ELSE << <<"armor">> >>]
SkillChoice == [x \in TwoBackgrounds \cup TwoClasses |->
                   IF x = "armsman" THEN {"ride"} ELSE IF x = "initiate" THEN {"lore"} ELSE {}]
Points == [c \in TwoClasses |-> IF c = "armsman" THEN 1 ELSE 2]
Coin == [c \in TwoClasses |-> IF c = "armsman" THEN 2 ELSE 1]
Power == [w \in TwoWeaves |-> IF w = "breeze" THEN "air" ELSE "fire"]
ScoreCost == [n \in 9..10 |-> n - 9]

VARIABLE part
EntryInit == part \in {"session", "chargen"} /\ Init /\ ChargenInit
EntryNext ==
    \/ part = "session" /\ Next /\ UNCHANGED <<part, chargenVars>>
    \/ part = "chargen" /\ ChargenNext /\ UNCHANGED <<part, vars>>

\* Goroutines that can run do run, handlers return once what they write is
\* taken, and time passes, for a reader that is not in the middle of an echo.
\* Clients owe nothing: they need not type, nor read, nor hang up.
SessionFairness ==
    \A s \in Conns :
        /\ WF_vars(part = "session" /\ (ReadClosed(s) \/ Unbind(s) \/ Teardown(s)))
        /\ WF_vars(part = "session" /\ s \notin stalled /\ Silence(s))
        /\ WF_vars(part = "session" /\ s \notin stalled /\ IdleTimeout(s))
        /\ WF_vars(part = "session"
                   /\ (Take(s) \/ Finish(s) \/ Handle(s) \/ Kick(s)
                       \/ PostAuth(s) \/ PostAuthFails(s) \/ Drain(s)))

EntrySpec ==
    EntryInit /\ [][EntryNext]_<<part, vars, chargenVars>> /\ SessionFairness
=============================================================================
