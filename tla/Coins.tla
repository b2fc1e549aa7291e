------------------------------- MODULE Coins -------------------------------
(***************************************************************************)
(* Amounts of money as internal/currency counts them: signed integers of   *)
(* a fixed width, in copper pennies, added and multiplied by helpers that  *)
(* refuse what would wrap around, taken apart into four denominations, and *)
(* written and read as terms of a count and a denomination.                *)
(*                                                                         *)
(* An amount lies in -Limit .. Limit - 1; Limit is 2^63 in the code.  The  *)
(* text of an amount is the sequence of its terms, a sign inside each.     *)
(***************************************************************************)
EXTENDS Integers, Sequences

CONSTANTS Limit, ErrOverflow, ErrInsufficientFunds, ErrInvalidFormat, ErrEmpty

ASSUME CoinsAssumption ==
    /\ Limit \in Nat /\ Limit > 1000
    /\ {ErrOverflow, ErrInsufficientFunds, ErrInvalidFormat, ErrEmpty} \cap Int = {}

Int64s == -Limit .. Limit - 1

\* What the machine keeps of a result: two's complement.
Wrapped(n) == ((n + Limit) % (2 * Limit)) - Limit

Magnitude(n) == IF n < 0 THEN -n ELSE n

\* Division towards zero, of a machine that does not trap on -Limit / -1.
Quotient(a, b) ==
    Wrapped(IF (a < 0) = (b < 0) THEN Magnitude(a) \div Magnitude(b)
                                 ELSE -(Magnitude(a) \div Magnitude(b)))

safeAdd(a, b) ==
    IF (b > 0 /\ a > Limit - 1 - b) \/ (b < 0 /\ a < -Limit - b) THEN ErrOverflow ELSE a + b

safeSub(a, b) ==
    IF (b < 0 /\ a > Limit - 1 + b) \/ (b > 0 /\ a < -Limit + b) THEN ErrOverflow ELSE a - b

safeMul(a, b) ==
    IF a = 0 \/ b = 0 THEN 0
    ELSE IF (a = -Limit /\ b = -1) \/ (b = -Limit /\ a = -1) THEN ErrOverflow
    ELSE IF Quotient(Wrapped(a * b), b) # a THEN ErrOverflow
    ELSE Wrapped(a * b)

Subtract(a, b) == IF b >= 0 /\ b > a THEN ErrInsufficientFunds ELSE safeSub(a, b)

coinOrder == <<"gc", "mk", "sp", "cp">>
ratio == [gc |-> 1000, mk |-> 100, sp |-> 10, cp |-> 1]
Denominations == {"gc", "mk", "sp", "cp"}

\* total plus count coins of one kind.
Plus(total, count, coin) ==
    LET v == safeMul(count, ratio[coin])
    IN  IF total = ErrOverflow \/ v = ErrOverflow THEN ErrOverflow ELSE safeAdd(total, v)

New(gc, mk, sp, cp) == Plus(Plus(Plus(Plus(0, gc, "gc"), mk, "mk"), sp, "sp"), cp, "cp")

\* Whole coins of one kind, what is left over dropped.
In(a, coin) == Quotient(a, ratio[coin])

\* The counts of the four kinds of coin, largest first.  -(-Limit) is -Limit
\* again, so that its counts are negative.
Split(a) ==
    LET m == Wrapped(Magnitude(a))
        s == IF m < 0 THEN -1 ELSE 1
        n == Magnitude(m)
    IN  [gc |-> s * (n \div 1000), mk |-> s * ((n % 1000) \div 100),
         sp |-> s * ((n % 100) \div 10), cp |-> s * (n % 10)]

Term(count, coin) == [count |-> count, coin |-> coin]

\* The terms that are written, and the minus in front of the first.
Format(a) ==
    LET parts == Split(a)
        all == [i \in 1..4 |-> Term(parts[coinOrder[i]], coinOrder[i])]
        shown == SelectSeq(all, LAMBDA t : t.count # 0)
    IN  IF a = 0 THEN <<Term(0, "cp")>>
        ELSE [i \in 1..Len(shown) |->
                IF a < 0 /\ i = 1 THEN Term(-shown[1].count, shown[1].coin) ELSE shown[i]]

\* Only the largest kind of coin there is one of.
Short(a) ==
    LET m == Wrapped(Magnitude(a))
        big == {c \in Denominations : m >= ratio[c]}
        c == CHOOSE d \in big : \A e \in big : ratio[e] <= ratio[d]
    IN  IF a = 0 \/ big = {} THEN Term(0, "cp")
        ELSE Term((IF a < 0 THEN -1 ELSE 1) * (m \div ratio[c]), c)

\* Reading terms, left to right: a kind may be named once.
Parse(terms) ==
    LET total[i \in 0..Len(terms)] ==
          IF i = 0 THEN 0
          ELSE IF total[i - 1] \notin Int THEN total[i - 1]
          ELSE IF \E j \in 1..(i - 1) : terms[j].coin = terms[i].coin THEN ErrInvalidFormat
          ELSE Plus(total[i - 1], terms[i].count, terms[i].coin)
    IN  IF terms = <<>> THEN ErrEmpty
        ELSE IF \E i \in 1..Len(terms) : terms[i].coin \notin Denominations THEN ErrInvalidFormat
        ELSE total[Len(terms)]

-----------------------------------------------------------------------------
\* What the text of an amount above zero says is the amount; the minus of an
\* amount below zero is read as that of its first term only.
FormatIsRead(a) == a >= 0 => Parse(Format(a)) = a
=============================================================================
