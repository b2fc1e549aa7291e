------------------------------ MODULE ItemsMC ------------------------------
(* Two characters, a weapon, one corpse, one combat goroutine.             *)
EXTENDS Items, TLC

CONSTANTS a, b, fist, sword, bag, corpse

TwoChars == {a, b}
OnePulse == {fist}
Sword == {sword}
TwoThings == {sword, bag}
TwoContainers == {bag, corpse}
OneBody == {corpse}

SymmChars == Permutations(TwoChars)
=============================================================================
