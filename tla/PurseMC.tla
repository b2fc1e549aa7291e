------------------------------ MODULE PurseMC ------------------------------
(***************************************************************************)
(* Parts of the server that share no state, checked beside each other.     *)
(* Purse: two characters, one pulse goroutine, two coin piles.  Doors: a   *)
(* vault behind a locked door, whose other side is an exit of its own.     *)
(* Terminal: lines of three glyphs, of which one is two columns wide.      *)
(* Clock: phases of two ticks, two listeners, two pulses at a time.        *)
(* Coins: amounts of up to 2500 either way, of which some are tried.       *)
(***************************************************************************)
EXTENDS Purse, Doors, Terminal, Clock, Coins, TLC

CONSTANTS rand, mat, tick, h1, h2, plaza, vault, inward, outward, brass, ann, bo, root

TwoChars == {rand, mat}
OneTicker == {tick}
TwoPiles == {h1, h2}
One == {1}

SymmTwo == Permutations(TwoChars) \cup Permutations(TwoPiles)

MCFrom     == (inward :> plaza) @@ (outward :> vault)
MCAuthored == (inward :> [closed |-> TRUE, locked |-> TRUE])
           @@ (outward :> [closed |-> TRUE, locked |-> FALSE])
MCFirstKey == (inward :> brass) @@ (outward :> NoKey)

MCRemembered == {<< >>, <<"a", " ", "W">>}
MCCompletions == {<<"a", "a">>}

\* What the theorem about the row asks of the glyphs.
ASSUME TypedGlyphs == NoAsterisk

\* The text of an amount is read as that amount, its short form is its largest
\* coins; but a minus is read as that of the first term only.  Whole coins of
\* a kind are counted towards zero.
Debt == -205
ASSUME TextOfAmounts ==
    /\ \A a \in 0..1300 : FormatIsRead(a)
    /\ \A a \in -1300..1300 : Short(a) = Format(a)[1]
    /\ Parse(Format(Debt)) = Debt + 10
    /\ \A a \in 0..300, c \in Denominations : In(-a, c) = -In(a, c) /\ In(a, c) * ratio[c] <= a
    /\ Parse(<<>>) = ErrEmpty /\ Parse(<<Term(5, "sp"), Term(5, "sp")>>) = ErrInvalidFormat
    /\ Parse(<<Term(3, "gc")>>) = ErrOverflow

VARIABLE part
EitherInit ==
    /\ part \in {"purse", "doors", "terminal", "clock"}
    /\ Init /\ DoorsInit /\ TerminalInit /\ ClockInit
    /\ part # "clock" => saved = 0
    /\ part # "doors" => text \in [Rooms -> {"old"}]
EitherNext ==
    \/ part = "purse" /\ Next /\ UNCHANGED <<part, doorVars, terminalVars, clockVars>>
    \/ part = "doors" /\ DoorsNext /\ UNCHANGED <<part, vars, terminalVars, clockVars>>
    \/ part = "terminal" /\ TerminalNext /\ UNCHANGED <<part, vars, doorVars, clockVars>>
    \/ part = "clock" /\ ClockNext /\ UNCHANGED <<part, vars, doorVars, terminalVars>>
EitherSpec == EitherInit /\ [][EitherNext]_<<part, vars, doorVars, terminalVars, clockVars>>
=============================================================================
