--------------------------- MODULE AccountsProofs ---------------------------
(***************************************************************************)
(* Proofs about Accounts and about Gmcp.                                   *)
(*                                                                         *)
(* SignInInv says of every session what the step and the stage of its      *)
(* handler promise of the fields they use (Clean) and that a password      *)
(* prompt hides what is typed (Covered).  Each handler gets two lemmas:    *)
(* what it makes of a session, as a fact about records alone (...Fine),    *)
(* and that the action is such a turn (...Turns).  Three invariants rest   *)
(* on it: PrivateInv for the passwords, LockoutInv for the lockout, which  *)
(* counts the attempts under way that will not set the lock, and           *)
(* CascadeInv for the deletion, which says what a cascade has listed.      *)
(*                                                                         *)
(* GmcpInv says what the reader and the bus worker of one client still owe *)
(* its display.                                                            *)
(***************************************************************************)
EXTENDS Accounts, Gmcp, SequenceTheorems, FiniteSetTheorems, TLAPS

\* A session between two steps of its handler: what a step and a stage promise
\* of the fields they use.
Clean(s) ==
    /\ s \in Sessions
    /\ s.masked => s.step \in PasswordSteps /\ s.stage = "idle"
    /\ s.step \in {"current", "new", "confirm"} => s.masked
    /\ s.pending # None => s.step \in {"newconfirm", "confirm"}
    /\ s.step = "confirm" => s.pending # None
    /\ s.step = "confirmdelete" <=> s.doomed # None
    /\ s.owned # {} => s.stage = "cascade"
    /\ s.stage = "judge" => s.step = "password" /\ s.name # None
    /\ s.stage \in {"admit", "greet"} => s.step \in {"password", "newconfirm"}
    /\ s.stage = "admit" \/ s.step \in {"newpassword", "newconfirm"} => s.name # None
    /\ s.stage = "greet" => s.account # None
    /\ s.stage \in {"cascade", "refresh"} => s.step = "confirmdelete"
    /\ s.step = "game" => s.playing # None

SessionsClean == TypeOK /\ \A c \in Conns : Clean(sess[c])

\* A password prompt hides what is typed, unless a statement failed or nobody
\* can type any more.
Covered(s, f) ==
    s.stage = "idle" /\ s.step \in PasswordSteps => s.masked \/ f > 0 \/ ~s.live

\* A client that waits for its prompts has at most one line under way, and it
\* was read under the mask that is on.
Waits(c) ==
    /\ inbox[c] # << >> => sess[c].stage = "idle" /\ inbox[c] = <<sess[c].masked>>
    /\ inbox[c] # << >> /\ faults = 0 /\ sess[c].step \in PasswordSteps => sess[c].masked

PrivateInv ==
    /\ PasswordsStayPrivate
    /\ \A c \in Conns : Covered(sess[c], faults) /\ Waits(c)

\* The attempts under way that will count without setting the lock.
Unlocking(a) ==
    {c \in Conns : sess[c].stage = "judge" /\ sess[c].name = a /\ ~LastTry(sess[c].seen)}

LockoutInv ==
    \A a \in Accounts : lock[a] = "never" =>
        failed[a] + Cardinality(Unlocking(a)) <= Threshold - 2 + Cardinality(Conns)

\* Whatever the character being deleted holds was listed, or taken up since.
Listed(c) ==
    sess[c].stage = "cascade" =>
        \A i \in Items : holder[i] = sess[c].doomed => i \in sess[c].owned \cup late

CascadeInv == CascadeIsWhole /\ \A c \in Conns : Listed(c)

\* What a handler may leave session s as, when the count of faults is f by then.
Fine(t, s, f) == Clean(t) /\ t.live = s.live /\ Covered(t, f)

\* The same, and neither is a password compared next nor are items deleted.
Plain(t, s, f) == Fine(t, s, f) /\ t.stage \notin {"judge", "cascade"}

\* A handler starts with the line it answers.
HasLine(c) == sess[c].stage = "idle" => inbox[c] # << >>

\* The handler of session c's line, or the rest of it, runs and ends so.
PlainTurn(c) == HasLine(c) /\ \E t \in Sessions : Turn(c, t) /\ Plain(t, sess[c], faults')

\* The turns that go on: a password is compared, or items are deleted, next.
Judged(s) == [s EXCEPT !.masked = FALSE, !.seen = failed[s.name], !.stage = "judge"]
Begun(s) == [s EXCEPT !.owned = {i \in Items : holder[i] = s.doomed}, !.stage = "cascade"]
Rest(s, i) == [s EXCEPT !.owned = @ \ {i}]

RowTypes ==
    /\ hash \in [Accounts -> Passwords \cup {None}]
    /\ failed \in [Accounts -> 0..MaxFailed]
    /\ lock \in [Accounts -> {"never", "locked", "expired"}]
    /\ settings \in [Accounts -> [Keys -> BOOLEAN]]
    /\ owner \in [Chars -> Accounts \cup {None, "deleted"}]
    /\ holder \in [Items -> Chars \cup {"room", "gone"}]
    /\ late \in SUBSET Items
    /\ bound \in [Accounts -> Conns \cup {None}]
    /\ faults \in 0..MaxFaults

-----------------------------------------------------------------------------
(* What each handler makes of its session.                                 *)

LEMMA LoginNameFine ==
    ASSUME NEW s, NEW f \in Nat, Clean(s), s.stage = "idle", s.step \in {"user"}
    PROVE  /\ Covered(s, f) => Plain(s, s, f)
           /\ Plain([s EXCEPT !.step = "newuser"], s, f)
           /\ \A n \in Accounts \cup {None} : Plain([s EXCEPT !.step = "password", !.masked = TRUE, !.name = n], s, f)
<1>0. s \in Sessions
    BY DEF Clean
<1>1. ASSUME Covered(s, f)
      PROVE  Plain(s, s, f)
    BY <1>1 DEF Plain, Fine
<1>2. Plain([s EXCEPT !.step = "newuser"], s, f)
  <2> DEFINE t == [s EXCEPT !.step = "newuser"]
  <2>0. t \in Sessions
      BY <1>0 DEF Sessions, Steps, LoginSteps, MenuSteps, Stages
  <2>1. /\ t.live = s.live /\ t.masked = s.masked /\ t.step = "newuser" /\ t.stage = s.stage
        /\ t.name = s.name /\ t.account = s.account /\ t.pending = s.pending
        /\ t.doomed = s.doomed /\ t.owned = s.owned /\ t.playing = s.playing
      BY <1>0 DEF Sessions
  <2> HIDE DEF t
  <2>2. Plain(t, s, f)
      BY <2>0, <2>1 DEF Plain, Fine, Clean, Covered, PasswordSteps
  <2> QED BY <2>2 DEF t
<1>3. ASSUME NEW n \in Accounts \cup {None}
      PROVE  Plain([s EXCEPT !.step = "password", !.masked = TRUE, !.name = n], s, f)
  <2> DEFINE t == [s EXCEPT !.step = "password", !.masked = TRUE, !.name = n]
  <2>0. t \in Sessions
      BY <1>3, <1>0 DEF Sessions, Steps, LoginSteps, MenuSteps, Stages
  <2>1. /\ t.live = s.live /\ t.masked = TRUE /\ t.step = "password" /\ t.stage = s.stage /\ t.name = n
        /\ t.account = s.account /\ t.pending = s.pending /\ t.doomed = s.doomed
        /\ t.owned = s.owned /\ t.playing = s.playing
      BY <1>0 DEF Sessions
  <2> HIDE DEF t
  <2>2. Plain(t, s, f)
      BY <1>3, <2>0, <2>1 DEF Plain, Fine, Clean, Covered, PasswordSteps
  <2> QED BY <2>2 DEF t
<1> QED BY <1>1, <1>2, <1>3, Zenon

LEMMA CheckRowFine ==
    ASSUME NEW s, NEW f \in Nat, Clean(s), s.stage = "idle", s.step \in {"password"}
    PROVE  /\ Plain(Failed(s), s, f)
           /\ \A n \in Nat : s.name # None => Fine([s EXCEPT !.masked = FALSE, !.seen = n, !.stage = "judge"], s, f)
           /\ (f > 0 \/ ~s.live) => Plain([s EXCEPT !.masked = FALSE], s, f)
<1>0. s \in Sessions
    BY DEF Clean
<1>1. Plain(Failed(s), s, f)
  <2> DEFINE t == Failed(s)
  <2>0. t \in Sessions
      BY <1>0 DEF Sessions, Steps, LoginSteps, MenuSteps, Stages, Failed
  <2>1. /\ t.live = s.live /\ t.masked = FALSE /\ t.step = "user" /\ t.stage = "idle" /\ t.name = None
        /\ t.account = s.account /\ t.pending = s.pending /\ t.doomed = s.doomed
        /\ t.owned = s.owned /\ t.playing = s.playing
      BY <1>0 DEF Sessions, Failed
  <2> HIDE DEF t
  <2>2. Plain(t, s, f)
      BY <2>0, <2>1 DEF Plain, Fine, Clean, Covered, PasswordSteps
  <2> QED BY <2>2 DEF t
<1>2. ASSUME NEW n \in Nat, s.name # None
      PROVE  Fine([s EXCEPT !.masked = FALSE, !.seen = n, !.stage = "judge"], s, f)
  <2> DEFINE t == [s EXCEPT !.masked = FALSE, !.seen = n, !.stage = "judge"]
  <2>0. t \in Sessions
      BY <1>2, <1>0 DEF Sessions, Steps, LoginSteps, MenuSteps, Stages
  <2>1. /\ t.live = s.live /\ t.masked = FALSE /\ t.step = s.step /\ t.stage = "judge" /\ t.name = s.name
        /\ t.account = s.account /\ t.pending = s.pending /\ t.doomed = s.doomed
        /\ t.owned = s.owned /\ t.playing = s.playing
      BY <1>0 DEF Sessions
  <2> HIDE DEF t
  <2>2. Fine(t, s, f)
      BY <1>2, <2>0, <2>1 DEF Fine, Clean, Covered, PasswordSteps
  <2> QED BY <2>2 DEF t
<1>3. ASSUME f > 0 \/ ~s.live
      PROVE  Plain([s EXCEPT !.masked = FALSE], s, f)
  <2> DEFINE t == [s EXCEPT !.masked = FALSE]
  <2>0. t \in Sessions
      BY <1>3, <1>0 DEF Sessions, Steps, LoginSteps, MenuSteps, Stages
  <2>1. /\ t.live = s.live /\ t.masked = FALSE /\ t.step = s.step /\ t.stage = s.stage /\ t.name = s.name
        /\ t.account = s.account /\ t.pending = s.pending /\ t.doomed = s.doomed
        /\ t.owned = s.owned /\ t.playing = s.playing
      BY <1>0 DEF Sessions
  <2> HIDE DEF t
  <2>2. Plain(t, s, f)
      BY <1>3, <2>0, <2>1 DEF Plain, Fine, Clean, Covered, PasswordSteps
  <2> QED BY <2>2 DEF t
<1> QED BY <1>1, <1>2, <1>3, Zenon

LEMMA WrongPasswordFine ==
    ASSUME NEW s, NEW f \in Nat, Clean(s), s.stage = "judge"
    PROVE  Plain(Failed(s), s, f)
<1>0. s \in Sessions
    BY DEF Clean
<1>1. Plain(Failed(s), s, f)
  <2> DEFINE t == Failed(s)
  <2>0. t \in Sessions
      BY <1>0 DEF Sessions, Steps, LoginSteps, MenuSteps, Stages, Failed
  <2>1. /\ t.live = s.live /\ t.masked = FALSE /\ t.step = "user" /\ t.stage = "idle" /\ t.name = None
        /\ t.account = s.account /\ t.pending = s.pending /\ t.doomed = s.doomed
        /\ t.owned = s.owned /\ t.playing = s.playing
      BY <1>0 DEF Sessions, Failed
  <2> HIDE DEF t
  <2>2. Plain(t, s, f)
      BY <2>0, <2>1 DEF Plain, Fine, Clean, Covered, PasswordSteps
  <2> QED BY <2>2 DEF t
<1> QED BY <1>1, Zenon

LEMMA RightPasswordFine ==
    ASSUME NEW s, NEW f \in Nat, Clean(s), s.stage = "judge"
    PROVE  /\ Plain([s EXCEPT !.stage = "admit"], s, f)
           /\ Plain(Failed(s), s, f)
<1>0. s \in Sessions
    BY DEF Clean
<1>1. Plain([s EXCEPT !.stage = "admit"], s, f)
  <2> DEFINE t == [s EXCEPT !.stage = "admit"]
  <2>0. t \in Sessions
      BY <1>0 DEF Sessions, Steps, LoginSteps, MenuSteps, Stages
  <2>1. /\ t.live = s.live /\ t.masked = s.masked /\ t.step = s.step /\ t.stage = "admit"
        /\ t.name = s.name /\ t.account = s.account /\ t.pending = s.pending
        /\ t.doomed = s.doomed /\ t.owned = s.owned /\ t.playing = s.playing
      BY <1>0 DEF Sessions
  <2> HIDE DEF t
  <2>2. Plain(t, s, f)
      BY <2>0, <2>1 DEF Plain, Fine, Clean, Covered, PasswordSteps
  <2> QED BY <2>2 DEF t
<1>2. Plain(Failed(s), s, f)
  <2> DEFINE t == Failed(s)
  <2>0. t \in Sessions
      BY <1>0 DEF Sessions, Steps, LoginSteps, MenuSteps, Stages, Failed
  <2>1. /\ t.live = s.live /\ t.masked = FALSE /\ t.step = "user" /\ t.stage = "idle" /\ t.name = None
        /\ t.account = s.account /\ t.pending = s.pending /\ t.doomed = s.doomed
        /\ t.owned = s.owned /\ t.playing = s.playing
      BY <1>0 DEF Sessions, Failed
  <2> HIDE DEF t
  <2>2. Plain(t, s, f)
      BY <2>0, <2>1 DEF Plain, Fine, Clean, Covered, PasswordSteps
  <2> QED BY <2>2 DEF t
<1> QED BY <1>1, <1>2, Zenon

LEMMA PostAuthFine ==
    ASSUME NEW s, NEW f \in Nat, Clean(s), s.stage = "greet"
    PROVE  /\ Plain([[s EXCEPT !.seen = 0, !.pending = None] EXCEPT !.step = "chargen", !.stage = "idle"], s, f)
           /\ \A chars \in SUBSET Chars, cfg \in [Keys -> BOOLEAN] : Plain(AtRoot([[s EXCEPT !.seen = 0, !.pending = None] EXCEPT !.menu = TRUE, !.chars = chars, !.cfg = cfg]), s, f)
           /\ \A back \in {"user", "newuser"} : Plain([[s EXCEPT !.seen = 0, !.pending = None] EXCEPT !.step = back, !.stage = "idle", !.name = None], s, f)
<1>0. s \in Sessions
    BY DEF Clean
<1>1. Plain([[s EXCEPT !.seen = 0, !.pending = None] EXCEPT !.step = "chargen", !.stage = "idle"], s, f)
  <2> DEFINE t == [[s EXCEPT !.seen = 0, !.pending = None] EXCEPT !.step = "chargen", !.stage = "idle"]
  <2>0. t \in Sessions
      BY <1>0 DEF Sessions, Steps, LoginSteps, MenuSteps, Stages
  <2>1. /\ t.live = s.live /\ t.masked = s.masked /\ t.step = "chargen" /\ t.stage = "idle"
        /\ t.name = s.name /\ t.account = s.account /\ t.pending = None /\ t.doomed = s.doomed
        /\ t.owned = s.owned /\ t.playing = s.playing
      BY <1>0 DEF Sessions
  <2> HIDE DEF t
  <2>2. Plain(t, s, f)
      BY <2>0, <2>1 DEF Plain, Fine, Clean, Covered, PasswordSteps
  <2> QED BY <2>2 DEF t
<1>2. ASSUME NEW chars \in SUBSET Chars, NEW cfg \in [Keys -> BOOLEAN]
      PROVE  Plain(AtRoot([[s EXCEPT !.seen = 0, !.pending = None] EXCEPT !.menu = TRUE, !.chars = chars, !.cfg = cfg]), s, f)
  <2> DEFINE t == AtRoot([[s EXCEPT !.seen = 0, !.pending = None] EXCEPT !.menu = TRUE, !.chars = chars, !.cfg = cfg])
  <2>0. t \in Sessions
      BY <1>2, <1>0 DEF Sessions, Steps, LoginSteps, MenuSteps, Stages, AtRoot
  <2>1. /\ t.live = s.live /\ t.masked = s.masked /\ t.step = "root" /\ t.stage = "idle"
        /\ t.name = s.name /\ t.account = s.account /\ t.pending = None /\ t.doomed = s.doomed
        /\ t.owned = s.owned /\ t.playing = s.playing
      BY <1>0 DEF Sessions, AtRoot
  <2> HIDE DEF t
  <2>2. Plain(t, s, f)
      BY <1>2, <2>0, <2>1 DEF Plain, Fine, Clean, Covered, PasswordSteps
  <2> QED BY <2>2 DEF t
<1>3. ASSUME NEW back \in {"user", "newuser"}
      PROVE  Plain([[s EXCEPT !.seen = 0, !.pending = None] EXCEPT !.step = back, !.stage = "idle", !.name = None], s, f)
  <2> DEFINE t == [[s EXCEPT !.seen = 0, !.pending = None] EXCEPT !.step = back, !.stage = "idle", !.name = None]
  <2>0. t \in Sessions
      BY <1>3, <1>0 DEF Sessions, Steps, LoginSteps, MenuSteps, Stages
  <2>1. /\ t.live = s.live /\ t.masked = s.masked /\ t.step = back /\ t.stage = "idle" /\ t.name = None
        /\ t.account = s.account /\ t.pending = None /\ t.doomed = s.doomed /\ t.owned = s.owned
        /\ t.playing = s.playing
      BY <1>0 DEF Sessions
  <2> HIDE DEF t
  <2>2. Plain(t, s, f)
      BY <1>3, <2>0, <2>1 DEF Plain, Fine, Clean, Covered, PasswordSteps
  <2> QED BY <2>2 DEF t
<1> QED BY <1>1, <1>2, <1>3, Zenon

LEMMA CreateNameFine ==
    ASSUME NEW s, NEW f \in Nat, Clean(s), s.stage = "idle", s.step \in {"newuser"}
    PROVE  /\ Covered(s, f) => Plain(s, s, f)
           /\ \A a \in Accounts : a # None => Plain([s EXCEPT !.name = a, !.step = "newpassword", !.masked = TRUE], s, f)
<1>0. s \in Sessions
    BY DEF Clean
<1>1. ASSUME Covered(s, f)
      PROVE  Plain(s, s, f)
    BY <1>1 DEF Plain, Fine
<1>2. ASSUME NEW a \in Accounts, a # None
      PROVE  Plain([s EXCEPT !.name = a, !.step = "newpassword", !.masked = TRUE], s, f)
  <2> DEFINE t == [s EXCEPT !.name = a, !.step = "newpassword", !.masked = TRUE]
  <2>0. t \in Sessions
      BY <1>2, <1>0 DEF Sessions, Steps, LoginSteps, MenuSteps, Stages
  <2>1. /\ t.live = s.live /\ t.masked = TRUE /\ t.step = "newpassword" /\ t.stage = s.stage /\ t.name = a
        /\ t.account = s.account /\ t.pending = s.pending /\ t.doomed = s.doomed
        /\ t.owned = s.owned /\ t.playing = s.playing
      BY <1>0 DEF Sessions
  <2> HIDE DEF t
  <2>2. Plain(t, s, f)
      BY <1>2, <2>0, <2>1 DEF Plain, Fine, Clean, Covered, PasswordSteps
  <2> QED BY <2>2 DEF t
<1> QED BY <1>1, <1>2, Zenon

LEMMA CreatePasswordFine ==
    ASSUME NEW s, NEW f \in Nat, Clean(s), s.stage = "idle", s.step \in {"newpassword"}
    PROVE  /\ Covered(s, f) => Plain(s, s, f)
           /\ \A p \in Passwords : Covered(s, f) /\ p # None => Plain([s EXCEPT !.pending = p, !.step = "newconfirm"], s, f)
<1>0. s \in Sessions
    BY DEF Clean
<1>1. ASSUME Covered(s, f)
      PROVE  Plain(s, s, f)
    BY <1>1 DEF Plain, Fine
<1>2. ASSUME NEW p \in Passwords, Covered(s, f), p # None
      PROVE  Plain([s EXCEPT !.pending = p, !.step = "newconfirm"], s, f)
  <2> DEFINE t == [s EXCEPT !.pending = p, !.step = "newconfirm"]
  <2>0. t \in Sessions
      BY <1>2, <1>0 DEF Sessions, Steps, LoginSteps, MenuSteps, Stages
  <2>1. /\ t.live = s.live /\ t.masked = s.masked /\ t.step = "newconfirm" /\ t.stage = s.stage
        /\ t.name = s.name /\ t.account = s.account /\ t.pending = p /\ t.doomed = s.doomed
        /\ t.owned = s.owned /\ t.playing = s.playing
      BY <1>0 DEF Sessions
  <2> HIDE DEF t
  <2>2. Plain(t, s, f)
      BY <1>2, <2>0, <2>1 DEF Plain, Fine, Clean, Covered, PasswordSteps
  <2> QED BY <2>2 DEF t
<1> QED BY <1>1, <1>2, Zenon

LEMMA CreateConfirmFine ==
    ASSUME NEW s, NEW f \in Nat, Clean(s), s.stage = "idle", s.step \in {"newconfirm"}
    PROVE  /\ Plain([s EXCEPT !.pending = None, !.step = "newpassword", !.masked = TRUE], s, f)
           /\ Plain([[s EXCEPT !.masked = FALSE] EXCEPT !.step = "newuser", !.name = None, !.pending = None], s, f)
           /\ Plain([[s EXCEPT !.masked = FALSE] EXCEPT !.stage = "admit"], s, f)
           /\ (f > 0 \/ ~s.live) => Plain([s EXCEPT !.masked = FALSE], s, f)
<1>0. s \in Sessions
    BY DEF Clean
<1>1. Plain([s EXCEPT !.pending = None, !.step = "newpassword", !.masked = TRUE], s, f)
  <2> DEFINE t == [s EXCEPT !.pending = None, !.step = "newpassword", !.masked = TRUE]
  <2>0. t \in Sessions
      BY <1>0 DEF Sessions, Steps, LoginSteps, MenuSteps, Stages
  <2>1. /\ t.live = s.live /\ t.masked = TRUE /\ t.step = "newpassword" /\ t.stage = s.stage
        /\ t.name = s.name /\ t.account = s.account /\ t.pending = None /\ t.doomed = s.doomed
        /\ t.owned = s.owned /\ t.playing = s.playing
      BY <1>0 DEF Sessions
  <2> HIDE DEF t
  <2>2. Plain(t, s, f)
      BY <2>0, <2>1 DEF Plain, Fine, Clean, Covered, PasswordSteps
  <2> QED BY <2>2 DEF t
<1>2. Plain([[s EXCEPT !.masked = FALSE] EXCEPT !.step = "newuser", !.name = None, !.pending = None], s, f)
  <2> DEFINE t == [[s EXCEPT !.masked = FALSE] EXCEPT !.step = "newuser", !.name = None, !.pending = None]
  <2>0. t \in Sessions
      BY <1>0 DEF Sessions, Steps, LoginSteps, MenuSteps, Stages
  <2>1. /\ t.live = s.live /\ t.masked = FALSE /\ t.step = "newuser" /\ t.stage = s.stage /\ t.name = None
        /\ t.account = s.account /\ t.pending = None /\ t.doomed = s.doomed /\ t.owned = s.owned
        /\ t.playing = s.playing
      BY <1>0 DEF Sessions
  <2> HIDE DEF t
  <2>2. Plain(t, s, f)
      BY <2>0, <2>1 DEF Plain, Fine, Clean, Covered, PasswordSteps
  <2> QED BY <2>2 DEF t
<1>3. Plain([[s EXCEPT !.masked = FALSE] EXCEPT !.stage = "admit"], s, f)
  <2> DEFINE t == [[s EXCEPT !.masked = FALSE] EXCEPT !.stage = "admit"]
  <2>0. t \in Sessions
      BY <1>0 DEF Sessions, Steps, LoginSteps, MenuSteps, Stages
  <2>1. /\ t.live = s.live /\ t.masked = FALSE /\ t.step = s.step /\ t.stage = "admit" /\ t.name = s.name
        /\ t.account = s.account /\ t.pending = s.pending /\ t.doomed = s.doomed
        /\ t.owned = s.owned /\ t.playing = s.playing
      BY <1>0 DEF Sessions
  <2> HIDE DEF t
  <2>2. Plain(t, s, f)
      BY <2>0, <2>1 DEF Plain, Fine, Clean, Covered, PasswordSteps
  <2> QED BY <2>2 DEF t
<1>4. ASSUME f > 0 \/ ~s.live
      PROVE  Plain([s EXCEPT !.masked = FALSE], s, f)
  <2> DEFINE t == [s EXCEPT !.masked = FALSE]
  <2>0. t \in Sessions
      BY <1>4, <1>0 DEF Sessions, Steps, LoginSteps, MenuSteps, Stages
  <2>1. /\ t.live = s.live /\ t.masked = FALSE /\ t.step = s.step /\ t.stage = s.stage /\ t.name = s.name
        /\ t.account = s.account /\ t.pending = s.pending /\ t.doomed = s.doomed
        /\ t.owned = s.owned /\ t.playing = s.playing
      BY <1>0 DEF Sessions
  <2> HIDE DEF t
  <2>2. Plain(t, s, f)
      BY <1>4, <2>0, <2>1 DEF Plain, Fine, Clean, Covered, PasswordSteps
  <2> QED BY <2>2 DEF t
<1> QED BY <1>1, <1>2, <1>3, <1>4, Zenon

LEMMA RootChoiceFine ==
    ASSUME NEW s, NEW f \in Nat, Clean(s), s.stage = "idle", s.step \in {"root"}
    PROVE  /\ Covered(s, f) => Plain(s, s, f)
           /\ \A page \in {"settings", "security", "quit", "chargen"} : Plain([s EXCEPT !.step = page], s, f)
           /\ Plain([s EXCEPT !.step = "current", !.masked = TRUE], s, f)
           /\ Plain([s EXCEPT !.step = "delete"], s, f)
           /\ Plain([s EXCEPT !.step = "play"], s, f)
<1>0. s \in Sessions
    BY DEF Clean
<1>1. ASSUME Covered(s, f)
      PROVE  Plain(s, s, f)
    BY <1>1 DEF Plain, Fine
<1>2. ASSUME NEW page \in {"settings", "security", "quit", "chargen"}
      PROVE  Plain([s EXCEPT !.step = page], s, f)
  <2> DEFINE t == [s EXCEPT !.step = page]
  <2>0. t \in Sessions
      BY <1>2, <1>0 DEF Sessions, Steps, LoginSteps, MenuSteps, Stages
  <2>1. /\ t.live = s.live /\ t.masked = s.masked /\ t.step = page /\ t.stage = s.stage /\ t.name = s.name
        /\ t.account = s.account /\ t.pending = s.pending /\ t.doomed = s.doomed
        /\ t.owned = s.owned /\ t.playing = s.playing
      BY <1>0 DEF Sessions
  <2> HIDE DEF t
  <2>2. Plain(t, s, f)
      BY <1>2, <2>0, <2>1 DEF Plain, Fine, Clean, Covered, PasswordSteps
  <2> QED BY <2>2 DEF t
<1>3. Plain([s EXCEPT !.step = "current", !.masked = TRUE], s, f)
  <2> DEFINE t == [s EXCEPT !.step = "current", !.masked = TRUE]
  <2>0. t \in Sessions
      BY <1>0 DEF Sessions, Steps, LoginSteps, MenuSteps, Stages
  <2>1. /\ t.live = s.live /\ t.masked = TRUE /\ t.step = "current" /\ t.stage = s.stage
        /\ t.name = s.name /\ t.account = s.account /\ t.pending = s.pending
        /\ t.doomed = s.doomed /\ t.owned = s.owned /\ t.playing = s.playing
      BY <1>0 DEF Sessions
  <2> HIDE DEF t
  <2>2. Plain(t, s, f)
      BY <2>0, <2>1 DEF Plain, Fine, Clean, Covered, PasswordSteps
  <2> QED BY <2>2 DEF t
<1>4. Plain([s EXCEPT !.step = "delete"], s, f)
  <2> DEFINE t == [s EXCEPT !.step = "delete"]
  <2>0. t \in Sessions
      BY <1>0 DEF Sessions, Steps, LoginSteps, MenuSteps, Stages
  <2>1. /\ t.live = s.live /\ t.masked = s.masked /\ t.step = "delete" /\ t.stage = s.stage
        /\ t.name = s.name /\ t.account = s.account /\ t.pending = s.pending
        /\ t.doomed = s.doomed /\ t.owned = s.owned /\ t.playing = s.playing
      BY <1>0 DEF Sessions
  <2> HIDE DEF t
  <2>2. Plain(t, s, f)
      BY <2>0, <2>1 DEF Plain, Fine, Clean, Covered, PasswordSteps
  <2> QED BY <2>2 DEF t
<1>5. Plain([s EXCEPT !.step = "play"], s, f)
  <2> DEFINE t == [s EXCEPT !.step = "play"]
  <2>0. t \in Sessions
      BY <1>0 DEF Sessions, Steps, LoginSteps, MenuSteps, Stages
  <2>1. /\ t.live = s.live /\ t.masked = s.masked /\ t.step = "play" /\ t.stage = s.stage
        /\ t.name = s.name /\ t.account = s.account /\ t.pending = s.pending
        /\ t.doomed = s.doomed /\ t.owned = s.owned /\ t.playing = s.playing
      BY <1>0 DEF Sessions
  <2> HIDE DEF t
  <2>2. Plain(t, s, f)
      BY <2>0, <2>1 DEF Plain, Fine, Clean, Covered, PasswordSteps
  <2> QED BY <2>2 DEF t
<1> QED BY <1>1, <1>2, <1>3, <1>4, <1>5, Zenon

LEMMA BackFine ==
    ASSUME NEW s, NEW f \in Nat, Clean(s), s.stage = "idle", s.step \in {"play", "delete", "confirmdelete", "settings", "security", "quit"}
    PROVE  Plain(AtRoot([s EXCEPT !.doomed = None]), s, f)
<1>0. s \in Sessions
    BY DEF Clean
<1>1. Plain(AtRoot([s EXCEPT !.doomed = None]), s, f)
  <2> DEFINE t == AtRoot([s EXCEPT !.doomed = None])
  <2>0. t \in Sessions
      BY <1>0 DEF Sessions, Steps, LoginSteps, MenuSteps, Stages, AtRoot
  <2>1. /\ t.live = s.live /\ t.masked = s.masked /\ t.step = "root" /\ t.stage = "idle"
        /\ t.name = s.name /\ t.account = s.account /\ t.pending = s.pending /\ t.doomed = None
        /\ t.owned = s.owned /\ t.playing = s.playing
      BY <1>0 DEF Sessions, AtRoot
  <2> HIDE DEF t
  <2>2. Plain(t, s, f)
      BY <2>0, <2>1 DEF Plain, Fine, Clean, Covered, PasswordSteps
  <2> QED BY <2>2 DEF t
<1> QED BY <1>1, Zenon

LEMMA PlayFine ==
    ASSUME NEW s, NEW f \in Nat, Clean(s), s.stage = "idle", s.step \in {"play", "root"}
    PROVE  \A k \in s.chars, next \in {"game", s.step} : k # None => Plain([s EXCEPT !.playing = k, !.step = next], s, f)
<1>0. s \in Sessions
    BY DEF Clean
<1>1. ASSUME NEW k \in s.chars, NEW next \in {"game", s.step}, k # None
      PROVE  Plain([s EXCEPT !.playing = k, !.step = next], s, f)
  <2> DEFINE t == [s EXCEPT !.playing = k, !.step = next]
  <2>0. t \in Sessions
      BY <1>1, <1>0 DEF Sessions, Steps, LoginSteps, MenuSteps, Stages
  <2>1. /\ t.live = s.live /\ t.masked = s.masked /\ t.step = next /\ t.stage = s.stage /\ t.name = s.name
        /\ t.account = s.account /\ t.pending = s.pending /\ t.doomed = s.doomed
        /\ t.owned = s.owned /\ t.playing = k
      BY <1>0 DEF Sessions
  <2> HIDE DEF t
  <2>2. Plain(t, s, f)
      BY <1>1, <2>0, <2>1 DEF Plain, Fine, Clean, Covered, PasswordSteps
  <2> QED BY <2>2 DEF t
<1> QED BY <1>1, Zenon

LEMMA AbandonChargenFine ==
    ASSUME NEW s, NEW f \in Nat, Clean(s), s.stage = "idle", s.step \in {"chargen"}
    PROVE  /\ Plain(AtRoot(s), s, f)
           /\ Plain([s EXCEPT !.open = FALSE], s, f)
<1>0. s \in Sessions
    BY DEF Clean
<1>1. Plain(AtRoot(s), s, f)
  <2> DEFINE t == AtRoot(s)
  <2>0. t \in Sessions
      BY <1>0 DEF Sessions, Steps, LoginSteps, MenuSteps, Stages, AtRoot
  <2>1. /\ t.live = s.live /\ t.masked = s.masked /\ t.step = "root" /\ t.stage = "idle"
        /\ t.name = s.name /\ t.account = s.account /\ t.pending = s.pending
        /\ t.doomed = s.doomed /\ t.owned = s.owned /\ t.playing = s.playing
      BY <1>0 DEF Sessions, AtRoot
  <2> HIDE DEF t
  <2>2. Plain(t, s, f)
      BY <2>0, <2>1 DEF Plain, Fine, Clean, Covered, PasswordSteps
  <2> QED BY <2>2 DEF t
<1>2. Plain([s EXCEPT !.open = FALSE], s, f)
  <2> DEFINE t == [s EXCEPT !.open = FALSE]
  <2>0. t \in Sessions
      BY <1>0 DEF Sessions, Steps, LoginSteps, MenuSteps, Stages
  <2>1. /\ t.live = s.live /\ t.masked = s.masked /\ t.step = s.step /\ t.stage = s.stage
        /\ t.name = s.name /\ t.account = s.account /\ t.pending = s.pending
        /\ t.doomed = s.doomed /\ t.owned = s.owned /\ t.playing = s.playing
      BY <1>0 DEF Sessions
  <2> HIDE DEF t
  <2>2. Plain(t, s, f)
      BY <2>0, <2>1 DEF Plain, Fine, Clean, Covered, PasswordSteps
  <2> QED BY <2>2 DEF t
<1> QED BY <1>1, <1>2, Zenon

LEMMA FinishChargenFine ==
    ASSUME NEW s, NEW f \in Nat, Clean(s), s.stage = "idle", s.step \in {"chargen"}
    PROVE  \A k \in Chars, next \in {"game", s.step} : k # None => Plain([s EXCEPT !.playing = k, !.step = next], s, f)
<1>0. s \in Sessions
    BY DEF Clean
<1>1. ASSUME NEW k \in Chars, NEW next \in {"game", s.step}, k # None
      PROVE  Plain([s EXCEPT !.playing = k, !.step = next], s, f)
  <2> DEFINE t == [s EXCEPT !.playing = k, !.step = next]
  <2>0. t \in Sessions
      BY <1>1, <1>0 DEF Sessions, Steps, LoginSteps, MenuSteps, Stages
  <2>1. /\ t.live = s.live /\ t.masked = s.masked /\ t.step = next /\ t.stage = s.stage /\ t.name = s.name
        /\ t.account = s.account /\ t.pending = s.pending /\ t.doomed = s.doomed
        /\ t.owned = s.owned /\ t.playing = k
      BY <1>0 DEF Sessions
  <2> HIDE DEF t
  <2>2. Plain(t, s, f)
      BY <1>1, <2>0, <2>1 DEF Plain, Fine, Clean, Covered, PasswordSteps
  <2> QED BY <2>2 DEF t
<1> QED BY <1>1, Zenon

LEMMA QuitFine ==
    ASSUME NEW s, NEW f \in Nat, Clean(s), s.stage = "idle", s.step \in {"quit", "game"}
    PROVE  Plain([s EXCEPT !.open = FALSE], s, f)
<1>0. s \in Sessions
    BY DEF Clean
<1>1. Plain([s EXCEPT !.open = FALSE], s, f)
  <2> DEFINE t == [s EXCEPT !.open = FALSE]
  <2>0. t \in Sessions
      BY <1>0 DEF Sessions, Steps, LoginSteps, MenuSteps, Stages
  <2>1. /\ t.live = s.live /\ t.masked = s.masked /\ t.step = s.step /\ t.stage = s.stage
        /\ t.name = s.name /\ t.account = s.account /\ t.pending = s.pending
        /\ t.doomed = s.doomed /\ t.owned = s.owned /\ t.playing = s.playing
      BY <1>0 DEF Sessions
  <2> HIDE DEF t
  <2>2. Plain(t, s, f)
      BY <2>0, <2>1 DEF Plain, Fine, Clean, Covered, PasswordSteps
  <2> QED BY <2>2 DEF t
<1> QED BY <1>1, Zenon

LEMMA HandleFine ==
    ASSUME NEW s, NEW f \in Nat, Clean(s), s.stage = "idle", s.step \in {"game"}
    PROVE  Covered(s, f) => Plain(s, s, f)
<1>0. s \in Sessions
    BY DEF Clean
<1>1. ASSUME Covered(s, f)
      PROVE  Plain(s, s, f)
    BY <1>1 DEF Plain, Fine
<1> QED BY <1>1, Zenon

LEMMA PickDoomedFine ==
    ASSUME NEW s, NEW f \in Nat, Clean(s), s.stage = "idle", s.step \in {"delete"}
    PROVE  /\ Covered(s, f) => Plain(s, s, f)
           /\ \A k \in s.chars : k # None => Plain([s EXCEPT !.doomed = k, !.step = "confirmdelete"], s, f)
<1>0. s \in Sessions
    BY DEF Clean
<1>1. ASSUME Covered(s, f)
      PROVE  Plain(s, s, f)
    BY <1>1 DEF Plain, Fine
<1>2. ASSUME NEW k \in s.chars, k # None
      PROVE  Plain([s EXCEPT !.doomed = k, !.step = "confirmdelete"], s, f)
  <2> DEFINE t == [s EXCEPT !.doomed = k, !.step = "confirmdelete"]
  <2>0. t \in Sessions
      BY <1>2, <1>0 DEF Sessions, Steps, LoginSteps, MenuSteps, Stages
  <2>1. /\ t.live = s.live /\ t.masked = s.masked /\ t.step = "confirmdelete" /\ t.stage = s.stage
        /\ t.name = s.name /\ t.account = s.account /\ t.pending = s.pending /\ t.doomed = k
        /\ t.owned = s.owned /\ t.playing = s.playing
      BY <1>0 DEF Sessions
  <2> HIDE DEF t
  <2>2. Plain(t, s, f)
      BY <1>2, <2>0, <2>1 DEF Plain, Fine, Clean, Covered, PasswordSteps
  <2> QED BY <2>2 DEF t
<1> QED BY <1>1, <1>2, Zenon

LEMMA StartDeleteFine ==
    ASSUME NEW s, NEW f \in Nat, Clean(s), s.stage = "idle", s.step \in {"confirmdelete"}
    PROVE  /\ \A items \in SUBSET Items : Fine([s EXCEPT !.owned = items, !.stage = "cascade"], s, f)
           /\ Plain(AtRoot([s EXCEPT !.doomed = None]), s, f)
<1>0. s \in Sessions
    BY DEF Clean
<1>1. ASSUME NEW items \in SUBSET Items
      PROVE  Fine([s EXCEPT !.owned = items, !.stage = "cascade"], s, f)
  <2> DEFINE t == [s EXCEPT !.owned = items, !.stage = "cascade"]
  <2>0. t \in Sessions
      BY <1>1, <1>0 DEF Sessions, Steps, LoginSteps, MenuSteps, Stages
  <2>1. /\ t.live = s.live /\ t.masked = s.masked /\ t.step = s.step /\ t.stage = "cascade"
        /\ t.name = s.name /\ t.account = s.account /\ t.pending = s.pending
        /\ t.doomed = s.doomed /\ t.owned = items /\ t.playing = s.playing
      BY <1>0 DEF Sessions
  <2> HIDE DEF t
  <2>2. Fine(t, s, f)
      BY <1>1, <2>0, <2>1 DEF Fine, Clean, Covered, PasswordSteps
  <2> QED BY <2>2 DEF t
<1>2. Plain(AtRoot([s EXCEPT !.doomed = None]), s, f)
  <2> DEFINE t == AtRoot([s EXCEPT !.doomed = None])
  <2>0. t \in Sessions
      BY <1>0 DEF Sessions, Steps, LoginSteps, MenuSteps, Stages, AtRoot
  <2>1. /\ t.live = s.live /\ t.masked = s.masked /\ t.step = "root" /\ t.stage = "idle"
        /\ t.name = s.name /\ t.account = s.account /\ t.pending = s.pending /\ t.doomed = None
        /\ t.owned = s.owned /\ t.playing = s.playing
      BY <1>0 DEF Sessions, AtRoot
  <2> HIDE DEF t
  <2>2. Plain(t, s, f)
      BY <2>0, <2>1 DEF Plain, Fine, Clean, Covered, PasswordSteps
  <2> QED BY <2>2 DEF t
<1> QED BY <1>1, <1>2, Zenon

LEMMA DeleteItemFine ==
    ASSUME NEW s, NEW f \in Nat, Clean(s), s.stage = "cascade"
    PROVE  /\ \A i \in s.owned : Fine([s EXCEPT !.owned = @ \ {i}], s, f)
           /\ Plain(AtRoot(Doomless(s)), s, f)
<1>0. s \in Sessions
    BY DEF Clean
<1>1. ASSUME NEW i \in s.owned
      PROVE  Fine([s EXCEPT !.owned = @ \ {i}], s, f)
  <2> DEFINE t == [s EXCEPT !.owned = @ \ {i}]
  <2>0. t \in Sessions
      BY <1>1, <1>0 DEF Sessions, Steps, LoginSteps, MenuSteps, Stages
  <2>1. /\ t.live = s.live /\ t.masked = s.masked /\ t.step = s.step /\ t.stage = s.stage
        /\ t.name = s.name /\ t.account = s.account /\ t.pending = s.pending
        /\ t.doomed = s.doomed /\ t.owned = s.owned \ {i} /\ t.playing = s.playing
      BY <1>0 DEF Sessions
  <2> HIDE DEF t
  <2>2. Fine(t, s, f)
      BY <1>1, <2>0, <2>1 DEF Fine, Clean, Covered, PasswordSteps
  <2> QED BY <2>2 DEF t
<1>2. Plain(AtRoot(Doomless(s)), s, f)
  <2> DEFINE t == AtRoot(Doomless(s))
  <2>0. t \in Sessions
      BY <1>0 DEF Sessions, Steps, LoginSteps, MenuSteps, Stages, AtRoot, Doomless
  <2>1. /\ t.live = s.live /\ t.masked = s.masked /\ t.step = "root" /\ t.stage = "idle"
        /\ t.name = s.name /\ t.account = s.account /\ t.pending = s.pending /\ t.doomed = None
        /\ t.owned = {} /\ t.playing = s.playing
      BY <1>0 DEF Sessions, AtRoot, Doomless
  <2> HIDE DEF t
  <2>2. Plain(t, s, f)
      BY <2>0, <2>1 DEF Plain, Fine, Clean, Covered, PasswordSteps
  <2> QED BY <2>2 DEF t
<1> QED BY <1>1, <1>2, Zenon

LEMMA DeleteRowFine ==
    ASSUME NEW s, NEW f \in Nat, Clean(s), s.stage = "cascade", s.owned = {}
    PROVE  /\ Plain([s EXCEPT !.stage = "refresh"], s, f)
           /\ Plain(AtRoot(Doomless(s)), s, f)
<1>0. s \in Sessions
    BY DEF Clean
<1>1. Plain([s EXCEPT !.stage = "refresh"], s, f)
  <2> DEFINE t == [s EXCEPT !.stage = "refresh"]
  <2>0. t \in Sessions
      BY <1>0 DEF Sessions, Steps, LoginSteps, MenuSteps, Stages
  <2>1. /\ t.live = s.live /\ t.masked = s.masked /\ t.step = s.step /\ t.stage = "refresh"
        /\ t.name = s.name /\ t.account = s.account /\ t.pending = s.pending
        /\ t.doomed = s.doomed /\ t.owned = s.owned /\ t.playing = s.playing
      BY <1>0 DEF Sessions
  <2> HIDE DEF t
  <2>2. Plain(t, s, f)
      BY <2>0, <2>1 DEF Plain, Fine, Clean, Covered, PasswordSteps
  <2> QED BY <2>2 DEF t
<1>2. Plain(AtRoot(Doomless(s)), s, f)
  <2> DEFINE t == AtRoot(Doomless(s))
  <2>0. t \in Sessions
      BY <1>0 DEF Sessions, Steps, LoginSteps, MenuSteps, Stages, AtRoot, Doomless
  <2>1. /\ t.live = s.live /\ t.masked = s.masked /\ t.step = "root" /\ t.stage = "idle"
        /\ t.name = s.name /\ t.account = s.account /\ t.pending = s.pending /\ t.doomed = None
        /\ t.owned = {} /\ t.playing = s.playing
      BY <1>0 DEF Sessions, AtRoot, Doomless
  <2> HIDE DEF t
  <2>2. Plain(t, s, f)
      BY <2>0, <2>1 DEF Plain, Fine, Clean, Covered, PasswordSteps
  <2> QED BY <2>2 DEF t
<1> QED BY <1>1, <1>2, Zenon

LEMMA RefreshFine ==
    ASSUME NEW s, NEW f \in Nat, Clean(s), s.stage = "refresh"
    PROVE  /\ \A chars \in SUBSET Chars : Plain(AtRoot([Doomless(s) EXCEPT !.chars = chars]), s, f)
           /\ Plain(AtRoot([Doomless(s) EXCEPT !.chars = @ \ {s.doomed}]), s, f)
<1>0. s \in Sessions
    BY DEF Clean
<1>1. ASSUME NEW chars \in SUBSET Chars
      PROVE  Plain(AtRoot([Doomless(s) EXCEPT !.chars = chars]), s, f)
  <2> DEFINE t == AtRoot([Doomless(s) EXCEPT !.chars = chars])
  <2>0. t \in Sessions
      BY <1>1, <1>0 DEF Sessions, Steps, LoginSteps, MenuSteps, Stages, AtRoot, Doomless
  <2>1. /\ t.live = s.live /\ t.masked = s.masked /\ t.step = "root" /\ t.stage = "idle"
        /\ t.name = s.name /\ t.account = s.account /\ t.pending = s.pending /\ t.doomed = None
        /\ t.owned = {} /\ t.playing = s.playing
      BY <1>0 DEF Sessions, AtRoot, Doomless
  <2> HIDE DEF t
  <2>2. Plain(t, s, f)
      BY <1>1, <2>0, <2>1 DEF Plain, Fine, Clean, Covered, PasswordSteps
  <2> QED BY <2>2 DEF t
<1>2. Plain(AtRoot([Doomless(s) EXCEPT !.chars = @ \ {s.doomed}]), s, f)
  <2> DEFINE t == AtRoot([Doomless(s) EXCEPT !.chars = @ \ {s.doomed}])
  <2>0. t \in Sessions
      BY <1>0 DEF Sessions, Steps, LoginSteps, MenuSteps, Stages, AtRoot, Doomless
  <2>1. /\ t.live = s.live /\ t.masked = s.masked /\ t.step = "root" /\ t.stage = "idle"
        /\ t.name = s.name /\ t.account = s.account /\ t.pending = s.pending /\ t.doomed = None
        /\ t.owned = {} /\ t.playing = s.playing
      BY <1>0 DEF Sessions, AtRoot, Doomless
  <2> HIDE DEF t
  <2>2. Plain(t, s, f)
      BY <2>0, <2>1 DEF Plain, Fine, Clean, Covered, PasswordSteps
  <2> QED BY <2>2 DEF t
<1> QED BY <1>1, <1>2, Zenon

LEMMA LeavePasswordFlowFine ==
    ASSUME NEW s, NEW f \in Nat, Clean(s), s.stage = "idle", s.step \in {"current", "new", "confirm"}
    PROVE  Plain(ResetPasswordFlow(s), s, f)
<1>0. s \in Sessions
    BY DEF Clean
<1>1. Plain(ResetPasswordFlow(s), s, f)
  <2> DEFINE t == ResetPasswordFlow(s)
  <2>0. t \in Sessions
      BY <1>0 DEF Sessions, Steps, LoginSteps, MenuSteps, Stages, AtRoot, ResetPasswordFlow
  <2>1. /\ t.live = s.live /\ t.masked = FALSE /\ t.step = "root" /\ t.stage = "idle" /\ t.name = s.name
        /\ t.account = s.account /\ t.pending = None /\ t.doomed = s.doomed /\ t.owned = s.owned
        /\ t.playing = s.playing
      BY <1>0 DEF Sessions, AtRoot, ResetPasswordFlow
  <2> HIDE DEF t
  <2>2. Plain(t, s, f)
      BY <2>0, <2>1 DEF Plain, Fine, Clean, Covered, PasswordSteps
  <2> QED BY <2>2 DEF t
<1> QED BY <1>1, Zenon

LEMMA CurrentPasswordFine ==
    ASSUME NEW s, NEW f \in Nat, Clean(s), s.stage = "idle", s.step \in {"current"}
    PROVE  Plain([s EXCEPT !.step = "new"], s, f)
<1>0. s \in Sessions
    BY DEF Clean
<1>1. Plain([s EXCEPT !.step = "new"], s, f)
  <2> DEFINE t == [s EXCEPT !.step = "new"]
  <2>0. t \in Sessions
      BY <1>0 DEF Sessions, Steps, LoginSteps, MenuSteps, Stages
  <2>1. /\ t.live = s.live /\ t.masked = s.masked /\ t.step = "new" /\ t.stage = s.stage
        /\ t.name = s.name /\ t.account = s.account /\ t.pending = s.pending
        /\ t.doomed = s.doomed /\ t.owned = s.owned /\ t.playing = s.playing
      BY <1>0 DEF Sessions
  <2> HIDE DEF t
  <2>2. Plain(t, s, f)
      BY <2>0, <2>1 DEF Plain, Fine, Clean, Covered, PasswordSteps
  <2> QED BY <2>2 DEF t
<1> QED BY <1>1, Zenon

LEMMA NewPasswordFine ==
    ASSUME NEW s, NEW f \in Nat, Clean(s), s.stage = "idle", s.step \in {"new"}
    PROVE  \A p \in Passwords : p # None => Plain([s EXCEPT !.pending = p, !.step = "confirm"], s, f)
<1>0. s \in Sessions
    BY DEF Clean
<1>1. ASSUME NEW p \in Passwords, p # None
      PROVE  Plain([s EXCEPT !.pending = p, !.step = "confirm"], s, f)
  <2> DEFINE t == [s EXCEPT !.pending = p, !.step = "confirm"]
  <2>0. t \in Sessions
      BY <1>1, <1>0 DEF Sessions, Steps, LoginSteps, MenuSteps, Stages
  <2>1. /\ t.live = s.live /\ t.masked = s.masked /\ t.step = "confirm" /\ t.stage = s.stage
        /\ t.name = s.name /\ t.account = s.account /\ t.pending = p /\ t.doomed = s.doomed
        /\ t.owned = s.owned /\ t.playing = s.playing
      BY <1>0 DEF Sessions
  <2> HIDE DEF t
  <2>2. Plain(t, s, f)
      BY <1>1, <2>0, <2>1 DEF Plain, Fine, Clean, Covered, PasswordSteps
  <2> QED BY <2>2 DEF t
<1> QED BY <1>1, Zenon

LEMMA ConfirmNewPasswordFine ==
    ASSUME NEW s, NEW f \in Nat, Clean(s), s.stage = "idle", s.step \in {"confirm"}
    PROVE  Plain(ResetPasswordFlow(s), s, f)
<1>0. s \in Sessions
    BY DEF Clean
<1>1. Plain(ResetPasswordFlow(s), s, f)
  <2> DEFINE t == ResetPasswordFlow(s)
  <2>0. t \in Sessions
      BY <1>0 DEF Sessions, Steps, LoginSteps, MenuSteps, Stages, AtRoot, ResetPasswordFlow
  <2>1. /\ t.live = s.live /\ t.masked = FALSE /\ t.step = "root" /\ t.stage = "idle" /\ t.name = s.name
        /\ t.account = s.account /\ t.pending = None /\ t.doomed = s.doomed /\ t.owned = s.owned
        /\ t.playing = s.playing
      BY <1>0 DEF Sessions, AtRoot, ResetPasswordFlow
  <2> HIDE DEF t
  <2>2. Plain(t, s, f)
      BY <2>0, <2>1 DEF Plain, Fine, Clean, Covered, PasswordSteps
  <2> QED BY <2>2 DEF t
<1> QED BY <1>1, Zenon

LEMMA PickSettingFine ==
    ASSUME NEW s, NEW f \in Nat, Clean(s), s.stage = "idle", s.step \in {"settings"}
    PROVE  \A k \in Keys : Plain([s EXCEPT !.key = k, !.step = "edit"], s, f)
<1>0. s \in Sessions
    BY DEF Clean
<1>1. ASSUME NEW k \in Keys
      PROVE  Plain([s EXCEPT !.key = k, !.step = "edit"], s, f)
  <2> DEFINE t == [s EXCEPT !.key = k, !.step = "edit"]
  <2>0. t \in Sessions
      BY <1>1, <1>0 DEF Sessions, Steps, LoginSteps, MenuSteps, Stages
  <2>1. /\ t.live = s.live /\ t.masked = s.masked /\ t.step = "edit" /\ t.stage = s.stage
        /\ t.name = s.name /\ t.account = s.account /\ t.pending = s.pending
        /\ t.doomed = s.doomed /\ t.owned = s.owned /\ t.playing = s.playing
      BY <1>0 DEF Sessions
  <2> HIDE DEF t
  <2>2. Plain(t, s, f)
      BY <1>1, <2>0, <2>1 DEF Plain, Fine, Clean, Covered, PasswordSteps
  <2> QED BY <2>2 DEF t
<1> QED BY <1>1, Zenon

LEMMA KeepSettingFine ==
    ASSUME NEW s, NEW f \in Nat, Clean(s), s.stage = "idle", s.step \in {"edit"}
    PROVE  /\ Plain([s EXCEPT !.key = None, !.step = "settings"], s, f)
           /\ Covered(s, f) => Plain(s, s, f)
<1>0. s \in Sessions
    BY DEF Clean
<1>1. Plain([s EXCEPT !.key = None, !.step = "settings"], s, f)
  <2> DEFINE t == [s EXCEPT !.key = None, !.step = "settings"]
  <2>0. t \in Sessions
      BY <1>0 DEF Sessions, Steps, LoginSteps, MenuSteps, Stages
  <2>1. /\ t.live = s.live /\ t.masked = s.masked /\ t.step = "settings" /\ t.stage = s.stage
        /\ t.name = s.name /\ t.account = s.account /\ t.pending = s.pending
        /\ t.doomed = s.doomed /\ t.owned = s.owned /\ t.playing = s.playing
      BY <1>0 DEF Sessions
  <2> HIDE DEF t
  <2>2. Plain(t, s, f)
      BY <2>0, <2>1 DEF Plain, Fine, Clean, Covered, PasswordSteps
  <2> QED BY <2>2 DEF t
<1>2. ASSUME Covered(s, f)
      PROVE  Plain(s, s, f)
    BY <1>2 DEF Plain, Fine
<1> QED BY <1>1, <1>2, Zenon

LEMMA EditSettingFine ==
    ASSUME NEW s, NEW f \in Nat, Clean(s), s.stage = "idle", s.step \in {"edit"}
    PROVE  /\ \A cfg \in [Keys -> BOOLEAN] : Plain([[s EXCEPT !.key = None, !.step = "settings"] EXCEPT !.cfg = cfg], s, f)
           /\ Plain([s EXCEPT !.key = None, !.step = "settings"], s, f)
<1>0. s \in Sessions
    BY DEF Clean
<1>1. ASSUME NEW cfg \in [Keys -> BOOLEAN]
      PROVE  Plain([[s EXCEPT !.key = None, !.step = "settings"] EXCEPT !.cfg = cfg], s, f)
  <2> DEFINE t == [[s EXCEPT !.key = None, !.step = "settings"] EXCEPT !.cfg = cfg]
  <2>0. t \in Sessions
      BY <1>1, <1>0 DEF Sessions, Steps, LoginSteps, MenuSteps, Stages
  <2>1. /\ t.live = s.live /\ t.masked = s.masked /\ t.step = "settings" /\ t.stage = s.stage
        /\ t.name = s.name /\ t.account = s.account /\ t.pending = s.pending
        /\ t.doomed = s.doomed /\ t.owned = s.owned /\ t.playing = s.playing
      BY <1>0 DEF Sessions
  <2> HIDE DEF t
  <2>2. Plain(t, s, f)
      BY <1>1, <2>0, <2>1 DEF Plain, Fine, Clean, Covered, PasswordSteps
  <2> QED BY <2>2 DEF t
<1>2. Plain([s EXCEPT !.key = None, !.step = "settings"], s, f)
  <2> DEFINE t == [s EXCEPT !.key = None, !.step = "settings"]
  <2>0. t \in Sessions
      BY <1>0 DEF Sessions, Steps, LoginSteps, MenuSteps, Stages
  <2>1. /\ t.live = s.live /\ t.masked = s.masked /\ t.step = "settings" /\ t.stage = s.stage
        /\ t.name = s.name /\ t.account = s.account /\ t.pending = s.pending
        /\ t.doomed = s.doomed /\ t.owned = s.owned /\ t.playing = s.playing
      BY <1>0 DEF Sessions
  <2> HIDE DEF t
  <2>2. Plain(t, s, f)
      BY <2>0, <2>1 DEF Plain, Fine, Clean, Covered, PasswordSteps
  <2> QED BY <2>2 DEF t
<1> QED BY <1>1, <1>2, Zenon

-----------------------------------------------------------------------------
(* What each action does to the session it is a step of.                   *)

LEMMA PlainIn == ASSUME NEW t, NEW s, NEW f, Plain(t, s, f) PROVE t \in Sessions
BY DEF Plain, Fine, Clean

LEMMA PlainTurnIs ==
    ASSUME NEW c, NEW t, HasLine(c), Turn(c, t), Plain(t, sess[c], faults')
    PROVE  PlainTurn(c)
BY PlainIn DEF PlainTurn

LEMMA NotNone ==
    /\ \A a \in Accounts : a # None
    /\ \A k \in Chars : k # None
    /\ \A p \in Passwords : p # None
    /\ \A s : Clean(s) => \A k \in s.chars : k # None
BY AccountsConstants DEF Clean, Sessions

LEMMA FaultsGrow ==
    ASSUME RowTypes, NEW c \in Conns, Works(c) \/ Fails(c) \/ UNCHANGED faults
    PROVE  /\ faults' \in Nat /\ faults' \in 0..MaxFaults /\ faults <= faults'
           /\ Fails(c) => faults' > 0 \/ ~sess[c].live
           /\ Covered(sess[c], faults) => Covered(sess[c], faults')
<1>1. faults \in Nat /\ MaxFaults \in Nat
    BY AccountsConstants DEF RowTypes
<1>2. faults' \in 0..MaxFaults /\ faults <= faults' /\ (Fails(c) => faults' > 0 \/ ~sess[c].live)
    BY <1>1 DEF RowTypes, Works, Fails
<1> QED BY <1>1, <1>2 DEF Covered

LEMMA LoginNameTurns ==
    ASSUME RowTypes, NEW c \in Conns, Clean(sess[c]), Covered(sess[c], faults), LoginName(c)
    PROVE  PlainTurn(c)
<1>1. faults' \in Nat /\ Covered(sess[c], faults') /\ (Fails(c) => faults' > 0 \/ ~sess[c].live)
    BY FaultsGrow, Zenon DEF LoginName
<1>2. sess[c].stage = "idle" /\ sess[c].step \in {"user"} /\ inbox[c] # << >>
    BY Zenon DEF LoginName, Asked
<1>3. \/ Turn(c, sess[c])
      \/ Turn(c, [sess[c] EXCEPT !.step = "newuser"])
      \/ \E a \in Accounts : Turn(c, [sess[c] EXCEPT !.step = "password", !.masked = TRUE, !.name = IF hash[a] = None THEN None ELSE a])
    BY Zenon DEF LoginName
<1>4. /\ Plain(sess[c], sess[c], faults')
      /\ Plain([sess[c] EXCEPT !.step = "newuser"], sess[c], faults')
      /\ \A a \in Accounts : Plain([sess[c] EXCEPT !.step = "password", !.masked = TRUE, !.name = IF hash[a] = None THEN None ELSE a], sess[c], faults')
    BY <1>1, <1>2, LoginNameFine, Zenon
<1>5. HasLine(c)
    BY <1>2 DEF HasLine
<1> QED BY <1>3, <1>4, <1>5, PlainTurnIs, Zenon

LEMMA CheckRowTurns ==
    ASSUME RowTypes, NEW c \in Conns, Clean(sess[c]), Covered(sess[c], faults), CheckRow(c)
    PROVE  \/ PlainTurn(c)
           \/ HasLine(c) /\ sess[c].name # None /\ Turn(c, Judged(sess[c])) /\ Fine(Judged(sess[c]), sess[c], faults')
<1>1. faults' \in Nat /\ (Fails(c) => faults' > 0 \/ ~sess[c].live)
    BY FaultsGrow, Zenon DEF CheckRow
<1>2. sess[c].stage = "idle" /\ sess[c].step \in {"password"} /\ inbox[c] # << >>
    BY Zenon DEF CheckRow, Asked
<1>3. \/ Turn(c, Failed(sess[c]))
      \/ sess[c].name # None /\ Turn(c, Judged(sess[c]))
      \/ Fails(c) /\ Turn(c, [sess[c] EXCEPT !.masked = FALSE])
  <2>1. CASE lock[sess[c].name] = "locked"
      BY <2>1, Zenon DEF CheckRow
  <2>2. CASE lock[sess[c].name] # "locked"
      BY <2>2, Zenon DEF CheckRow, Judged
  <2> QED BY <2>1, <2>2
<1>4. Plain(Failed(sess[c]), sess[c], faults')
    BY <1>1, <1>2, CheckRowFine, Zenon
<1>5. Fails(c) => Plain([sess[c] EXCEPT !.masked = FALSE], sess[c], faults')
    BY <1>1, <1>2, CheckRowFine, Zenon
<1>6. sess[c].name # None => Fine(Judged(sess[c]), sess[c], faults')
  <2>1. sess[c].name # None => failed[sess[c].name] \in Nat
      BY AccountsConstants DEF RowTypes, Clean, Sessions
  <2> QED BY <1>1, <1>2, <2>1, CheckRowFine, Zenon DEF Judged
<1>7. HasLine(c)
    BY <1>2 DEF HasLine
<1> QED BY <1>7, <1>3, <1>4, <1>5, <1>6, PlainTurnIs, Zenon

LEMMA WrongPasswordTurns ==
    ASSUME RowTypes, NEW c \in Conns, Clean(sess[c]), Covered(sess[c], faults), WrongPassword(c)
    PROVE  PlainTurn(c)
<1>1. faults' \in Nat /\ Covered(sess[c], faults') /\ (Fails(c) => faults' > 0 \/ ~sess[c].live)
    BY FaultsGrow, Zenon DEF WrongPassword
<1>2. sess[c].stage = "judge"
    BY Zenon DEF WrongPassword, Asked
<1>3. Turn(c, Failed(sess[c]))
    BY Zenon DEF WrongPassword
<1>4. Plain(Failed(sess[c]), sess[c], faults')
    BY <1>1, <1>2, WrongPasswordFine, Zenon
<1>5. HasLine(c)
    BY <1>2 DEF HasLine
<1> QED BY <1>3, <1>4, <1>5, PlainTurnIs, Zenon

LEMMA RightPasswordTurns ==
    ASSUME RowTypes, NEW c \in Conns, Clean(sess[c]), Covered(sess[c], faults), RightPassword(c)
    PROVE  PlainTurn(c)
<1>1. faults' \in Nat /\ Covered(sess[c], faults') /\ (Fails(c) => faults' > 0 \/ ~sess[c].live)
    BY FaultsGrow, Zenon DEF RightPassword
<1>2. sess[c].stage = "judge"
    BY Zenon DEF RightPassword, Asked
<1>3. \/ Turn(c, [sess[c] EXCEPT !.stage = "admit"])
      \/ Turn(c, Failed(sess[c]))
    BY Zenon DEF RightPassword
<1>4. /\ Plain([sess[c] EXCEPT !.stage = "admit"], sess[c], faults')
      /\ Plain(Failed(sess[c]), sess[c], faults')
    BY <1>1, <1>2, RightPasswordFine, Zenon
<1>5. HasLine(c)
    BY <1>2 DEF HasLine
<1> QED BY <1>3, <1>4, <1>5, PlainTurnIs, Zenon

LEMMA PostAuthTurns ==
    ASSUME RowTypes, NEW c \in Conns, Clean(sess[c]), Covered(sess[c], faults), PostAuth(c)
    PROVE  PlainTurn(c)
<1> DEFINE base == [sess[c] EXCEPT !.seen = 0, !.pending = None]
           back == IF base.step = "password" THEN "user" ELSE "newuser"
           t1 == [base EXCEPT !.step = "chargen", !.stage = "idle"]
           t2 == AtRoot([base EXCEPT !.menu = TRUE, !.chars = Roster(base.account),
                                     !.cfg = settings[base.account]])
           t3 == [base EXCEPT !.step = back, !.stage = "idle", !.name = None]
<1>1. faults' \in Nat
    BY FaultsGrow, Zenon DEF PostAuth
<1>2. base.stage = "greet"
    BY Zenon DEF PostAuth
<1>3. sess[c] \in Sessions /\ base.account = sess[c].account /\ base.stage = sess[c].stage
    BY DEF Clean, Sessions
<1>4. sess[c].account \in Accounts
    BY <1>2, <1>3 DEF Clean, Sessions
<1>5. Roster(base.account) \in SUBSET Chars
    BY DEF Roster
<1>6. settings[base.account] \in [Keys -> BOOLEAN]
    BY <1>3, <1>4 DEF RowTypes
<1>7. back \in {"user", "newuser"}
    OBVIOUS
<1>8. Turn(c, t1) \/ Turn(c, t2) \/ Turn(c, t3)
    BY Zenon DEF PostAuth
<1>9. Plain(t1, sess[c], faults') /\ Plain(t2, sess[c], faults') /\ Plain(t3, sess[c], faults')
  <2> HIDE DEF back
  <2>1. sess[c].stage = "greet"
      BY <1>2, <1>3
  <2> QED BY <1>1, <2>1, <1>5, <1>6, <1>7, PostAuthFine, Zenon
<1>10. HasLine(c)
    BY <1>2, <1>3 DEF HasLine
<1> QED BY <1>10, <1>8, <1>9, PlainTurnIs, Zenon

LEMMA CreateNameTurns ==
    ASSUME RowTypes, NEW c \in Conns, Clean(sess[c]), Covered(sess[c], faults), CreateName(c)
    PROVE  PlainTurn(c)
<1>1. faults' \in Nat /\ Covered(sess[c], faults') /\ (Fails(c) => faults' > 0 \/ ~sess[c].live)
    BY FaultsGrow, Zenon DEF CreateName
<1>2. sess[c].stage = "idle" /\ sess[c].step \in {"newuser"} /\ inbox[c] # << >>
    BY Zenon DEF CreateName, Asked
<1>3. \/ Turn(c, sess[c])
      \/ \E a \in Accounts : Turn(c, [sess[c] EXCEPT !.name = a, !.step = "newpassword", !.masked = TRUE])
    BY Zenon DEF CreateName
<1>4. /\ Plain(sess[c], sess[c], faults')
      /\ \A a \in Accounts : Plain([sess[c] EXCEPT !.name = a, !.step = "newpassword", !.masked = TRUE], sess[c], faults')
    BY <1>1, <1>2, NotNone, CreateNameFine, Zenon
<1>5. HasLine(c)
    BY <1>2 DEF HasLine
<1> QED BY <1>3, <1>4, <1>5, PlainTurnIs, Zenon

LEMMA CreatePasswordTurns ==
    ASSUME RowTypes, NEW c \in Conns, Clean(sess[c]), Covered(sess[c], faults), CreatePassword(c)
    PROVE  PlainTurn(c)
<1>1. faults' \in Nat /\ Covered(sess[c], faults') /\ (Fails(c) => faults' > 0 \/ ~sess[c].live)
    BY FaultsGrow, Zenon DEF CreatePassword
<1>2. sess[c].stage = "idle" /\ sess[c].step \in {"newpassword"} /\ inbox[c] # << >>
    BY Zenon DEF CreatePassword, Asked
<1>3. \/ Turn(c, sess[c])
      \/ \E p \in Passwords : Turn(c, [sess[c] EXCEPT !.pending = p, !.step = "newconfirm"])
    BY Zenon DEF CreatePassword
<1>4. /\ Plain(sess[c], sess[c], faults')
      /\ \A p \in Passwords : Plain([sess[c] EXCEPT !.pending = p, !.step = "newconfirm"], sess[c], faults')
    BY <1>1, <1>2, NotNone, CreatePasswordFine, Zenon
<1>5. HasLine(c)
    BY <1>2 DEF HasLine
<1> QED BY <1>3, <1>4, <1>5, PlainTurnIs, Zenon

LEMMA CreateConfirmTurns ==
    ASSUME RowTypes, NEW c \in Conns, Clean(sess[c]), Covered(sess[c], faults), CreateConfirm(c)
    PROVE  PlainTurn(c)
<1>1. faults' \in Nat /\ Covered(sess[c], faults') /\ (Fails(c) => faults' > 0 \/ ~sess[c].live)
    BY FaultsGrow, Zenon DEF CreateConfirm
<1>2. sess[c].stage = "idle" /\ sess[c].step \in {"newconfirm"} /\ inbox[c] # << >>
    BY Zenon DEF CreateConfirm, Asked
<1>3. \/ Turn(c, [sess[c] EXCEPT !.pending = None, !.step = "newpassword", !.masked = TRUE])
      \/ Turn(c, [[sess[c] EXCEPT !.masked = FALSE] EXCEPT !.step = "newuser", !.name = None, !.pending = None])
      \/ Turn(c, [[sess[c] EXCEPT !.masked = FALSE] EXCEPT !.stage = "admit"])
      \/ Fails(c) /\ Turn(c, [sess[c] EXCEPT !.masked = FALSE])
    BY Zenon DEF CreateConfirm
<1>4. /\ Plain([sess[c] EXCEPT !.pending = None, !.step = "newpassword", !.masked = TRUE], sess[c], faults')
      /\ Plain([[sess[c] EXCEPT !.masked = FALSE] EXCEPT !.step = "newuser", !.name = None, !.pending = None], sess[c], faults')
      /\ Plain([[sess[c] EXCEPT !.masked = FALSE] EXCEPT !.stage = "admit"], sess[c], faults')
      /\ Fails(c) => Plain([sess[c] EXCEPT !.masked = FALSE], sess[c], faults')
    BY <1>1, <1>2, CreateConfirmFine, Zenon
<1>5. HasLine(c)
    BY <1>2 DEF HasLine
<1> QED BY <1>3, <1>4, <1>5, PlainTurnIs, Zenon

LEMMA RootChoiceTurns ==
    ASSUME RowTypes, NEW c \in Conns, Clean(sess[c]), Covered(sess[c], faults), RootChoice(c)
    PROVE  PlainTurn(c)
<1>1. faults' \in Nat /\ Covered(sess[c], faults') /\ (Fails(c) => faults' > 0 \/ ~sess[c].live)
    BY FaultsGrow, Zenon DEF RootChoice
<1>2. sess[c].stage = "idle" /\ sess[c].step \in {"root"} /\ inbox[c] # << >>
    BY Zenon DEF RootChoice, Asked
<1>3. \/ Turn(c, sess[c])
      \/ \E page \in {"settings", "security", "quit", "chargen"} : Turn(c, [sess[c] EXCEPT !.step = page])
      \/ Turn(c, [sess[c] EXCEPT !.step = "current", !.masked = TRUE])
      \/ Turn(c, [sess[c] EXCEPT !.step = "delete"])
      \/ Turn(c, [sess[c] EXCEPT !.step = "play"])
    BY Zenon DEF RootChoice
<1>4. /\ Plain(sess[c], sess[c], faults')
      /\ \A page \in {"settings", "security", "quit", "chargen"} : Plain([sess[c] EXCEPT !.step = page], sess[c], faults')
      /\ Plain([sess[c] EXCEPT !.step = "current", !.masked = TRUE], sess[c], faults')
      /\ Plain([sess[c] EXCEPT !.step = "delete"], sess[c], faults')
      /\ Plain([sess[c] EXCEPT !.step = "play"], sess[c], faults')
    BY <1>1, <1>2, RootChoiceFine, Zenon
<1>5. HasLine(c)
    BY <1>2 DEF HasLine
<1> QED BY <1>3, <1>4, <1>5, PlainTurnIs, Zenon

LEMMA BackTurns ==
    ASSUME RowTypes, NEW c \in Conns, Clean(sess[c]), Covered(sess[c], faults), Back(c)
    PROVE  PlainTurn(c)
<1>1. faults' \in Nat /\ Covered(sess[c], faults') /\ (Fails(c) => faults' > 0 \/ ~sess[c].live)
    BY FaultsGrow, Zenon DEF Back
<1>2. sess[c].stage = "idle" /\ sess[c].step \in {"play", "delete", "confirmdelete", "settings", "security", "quit"} /\ inbox[c] # << >>
    BY Zenon DEF Back, Asked
<1>3. Turn(c, AtRoot([sess[c] EXCEPT !.doomed = None]))
    BY Zenon DEF Back
<1>4. Plain(AtRoot([sess[c] EXCEPT !.doomed = None]), sess[c], faults')
    BY <1>1, <1>2, BackFine, Zenon
<1>5. HasLine(c)
    BY <1>2 DEF HasLine
<1> QED BY <1>3, <1>4, <1>5, PlainTurnIs, Zenon

LEMMA PlayTurns ==
    ASSUME RowTypes, NEW c \in Conns, Clean(sess[c]), Covered(sess[c], faults), Play(c)
    PROVE  PlainTurn(c)
<1>1. faults' \in Nat
    BY FaultsGrow, Zenon DEF Play
<1>2. sess[c].stage = "idle" /\ sess[c].step \in {"play", "root"} /\ inbox[c] # << >>
    BY Zenon DEF Play, Asked
<1> DEFINE next == IF sess[c].open THEN "game" ELSE sess[c].step
<1>3. \E k \in sess[c].chars : Turn(c, [sess[c] EXCEPT !.playing = k, !.step = next])
    BY Zenon DEF Play
<1>4. next \in {"game", sess[c].step}
    OBVIOUS
<1> HIDE DEF next
<1>5. \A k \in sess[c].chars : Plain([sess[c] EXCEPT !.playing = k, !.step = next], sess[c], faults')
    BY <1>1, <1>2, <1>4, NotNone, PlayFine, Zenon
<1>6. HasLine(c)
    BY <1>2 DEF HasLine
<1> QED BY <1>6, <1>3, <1>5, PlainTurnIs, Zenon

LEMMA AbandonChargenTurns ==
    ASSUME RowTypes, NEW c \in Conns, Clean(sess[c]), Covered(sess[c], faults), AbandonChargen(c)
    PROVE  PlainTurn(c)
<1>1. faults' \in Nat /\ Covered(sess[c], faults') /\ (Fails(c) => faults' > 0 \/ ~sess[c].live)
    BY FaultsGrow, Zenon DEF AbandonChargen
<1>2. sess[c].stage = "idle" /\ sess[c].step \in {"chargen"} /\ inbox[c] # << >>
    BY Zenon DEF AbandonChargen, Asked
<1>3. \/ Turn(c, AtRoot(sess[c]))
      \/ Turn(c, [sess[c] EXCEPT !.open = FALSE])
    BY Zenon DEF AbandonChargen
<1>4. /\ Plain(AtRoot(sess[c]), sess[c], faults')
      /\ Plain([sess[c] EXCEPT !.open = FALSE], sess[c], faults')
    BY <1>1, <1>2, AbandonChargenFine, Zenon
<1>5. HasLine(c)
    BY <1>2 DEF HasLine
<1> QED BY <1>3, <1>4, <1>5, PlainTurnIs, Zenon

LEMMA FinishChargenTurns ==
    ASSUME RowTypes, NEW c \in Conns, Clean(sess[c]), Covered(sess[c], faults), FinishChargen(c)
    PROVE  PlainTurn(c)
<1>1. faults' \in Nat
    BY FaultsGrow, Zenon DEF FinishChargen
<1>2. sess[c].stage = "idle" /\ sess[c].step \in {"chargen"} /\ inbox[c] # << >>
    BY Zenon DEF FinishChargen, Asked
<1> DEFINE next == IF sess[c].open THEN "game" ELSE sess[c].step
<1>3. \E k \in Chars : Turn(c, [sess[c] EXCEPT !.playing = k, !.step = next])
    BY Zenon DEF FinishChargen
<1>4. next \in {"game", sess[c].step}
    OBVIOUS
<1> HIDE DEF next
<1>5. \A k \in Chars : Plain([sess[c] EXCEPT !.playing = k, !.step = next], sess[c], faults')
    BY <1>1, <1>2, <1>4, NotNone, FinishChargenFine, Zenon
<1>6. HasLine(c)
    BY <1>2 DEF HasLine
<1> QED BY <1>6, <1>3, <1>5, PlainTurnIs, Zenon

LEMMA QuitTurns ==
    ASSUME RowTypes, NEW c \in Conns, Clean(sess[c]), Covered(sess[c], faults), Quit(c)
    PROVE  PlainTurn(c)
<1>1. faults' \in Nat /\ Covered(sess[c], faults') /\ (Fails(c) => faults' > 0 \/ ~sess[c].live)
    BY FaultsGrow, Zenon DEF Quit
<1>2. sess[c].stage = "idle" /\ sess[c].step \in {"quit", "game"} /\ inbox[c] # << >>
    BY Zenon DEF Quit, Asked
<1>3. Turn(c, [sess[c] EXCEPT !.open = FALSE])
    BY Zenon DEF Quit
<1>4. Plain([sess[c] EXCEPT !.open = FALSE], sess[c], faults')
    BY <1>1, <1>2, QuitFine, Zenon
<1>5. HasLine(c)
    BY <1>2 DEF HasLine
<1> QED BY <1>3, <1>4, <1>5, PlainTurnIs, Zenon

LEMMA HandleTurns ==
    ASSUME RowTypes, NEW c \in Conns, Clean(sess[c]), Covered(sess[c], faults), Handle(c)
    PROVE  PlainTurn(c)
<1>1. faults' \in Nat /\ Covered(sess[c], faults') /\ (Fails(c) => faults' > 0 \/ ~sess[c].live)
    BY FaultsGrow, Zenon DEF Handle
<1>2. sess[c].stage = "idle" /\ sess[c].step \in {"game"} /\ inbox[c] # << >>
    BY Zenon DEF Handle, Asked
<1>3. Turn(c, sess[c])
    BY Zenon DEF Handle
<1>4. Plain(sess[c], sess[c], faults')
    BY <1>1, <1>2, HandleFine, Zenon
<1>5. HasLine(c)
    BY <1>2 DEF HasLine
<1> QED BY <1>3, <1>4, <1>5, PlainTurnIs, Zenon

LEMMA PickDoomedTurns ==
    ASSUME RowTypes, NEW c \in Conns, Clean(sess[c]), Covered(sess[c], faults), PickDoomed(c)
    PROVE  PlainTurn(c)
<1>1. faults' \in Nat /\ Covered(sess[c], faults') /\ (Fails(c) => faults' > 0 \/ ~sess[c].live)
    BY FaultsGrow, Zenon DEF PickDoomed
<1>2. sess[c].stage = "idle" /\ sess[c].step \in {"delete"} /\ inbox[c] # << >>
    BY Zenon DEF PickDoomed, Asked
<1>3. \/ Turn(c, sess[c])
      \/ \E k \in sess[c].chars : Turn(c, [sess[c] EXCEPT !.doomed = k, !.step = "confirmdelete"])
    BY Zenon DEF PickDoomed
<1>4. /\ Plain(sess[c], sess[c], faults')
      /\ \A k \in sess[c].chars : Plain([sess[c] EXCEPT !.doomed = k, !.step = "confirmdelete"], sess[c], faults')
    BY <1>1, <1>2, NotNone, PickDoomedFine, Zenon
<1>5. HasLine(c)
    BY <1>2 DEF HasLine
<1> QED BY <1>3, <1>4, <1>5, PlainTurnIs, Zenon

LEMMA StartDeleteTurns ==
    ASSUME RowTypes, NEW c \in Conns, Clean(sess[c]), Covered(sess[c], faults), StartDelete(c)
    PROVE  \/ PlainTurn(c)
           \/ HasLine(c) /\ Turn(c, Begun(sess[c])) /\ Fine(Begun(sess[c]), sess[c], faults')
<1>1. faults' \in Nat
    BY FaultsGrow, Zenon DEF StartDelete
<1>2. sess[c].stage = "idle" /\ sess[c].step \in {"confirmdelete"} /\ inbox[c] # << >>
    BY Zenon DEF StartDelete, Asked
<1>3. \/ Turn(c, Begun(sess[c]))
      \/ Turn(c, AtRoot([sess[c] EXCEPT !.doomed = None]))
    BY Zenon DEF StartDelete, Begun
<1>4. Plain(AtRoot([sess[c] EXCEPT !.doomed = None]), sess[c], faults')
    BY <1>1, <1>2, StartDeleteFine, Zenon
<1>5. Fine(Begun(sess[c]), sess[c], faults')
  <2>1. {i \in Items : holder[i] = sess[c].doomed} \in SUBSET Items
      OBVIOUS
  <2> QED BY <1>1, <1>2, <2>1, StartDeleteFine, Zenon DEF Begun
<1>6. HasLine(c)
    BY <1>2 DEF HasLine
<1> QED BY <1>6, <1>3, <1>4, <1>5, PlainTurnIs, Zenon

LEMMA DeleteItemTurns ==
    ASSUME RowTypes, NEW c \in Conns, Clean(sess[c]), Covered(sess[c], faults), DeleteItem(c)
    PROVE  \/ PlainTurn(c)
           \/ HasLine(c) /\ \E i \in sess[c].owned : Turn(c, Rest(sess[c], i)) /\ Fine(Rest(sess[c], i), sess[c], faults')
<1>1. faults' \in Nat
    BY FaultsGrow, Zenon DEF DeleteItem
<1>2. sess[c].stage = "cascade"
    BY Zenon DEF DeleteItem
<1>3. \/ Turn(c, AtRoot(Doomless(sess[c])))
      \/ \E i \in sess[c].owned : Turn(c, Rest(sess[c], i))
    BY Zenon DEF DeleteItem, Rest
<1>4. Plain(AtRoot(Doomless(sess[c])), sess[c], faults')
    BY <1>1, <1>2, DeleteItemFine, Zenon
<1>5. \A i \in sess[c].owned : Fine(Rest(sess[c], i), sess[c], faults')
    BY <1>1, <1>2, DeleteItemFine, Zenon DEF Rest
<1>6. HasLine(c)
    BY <1>2 DEF HasLine
<1> QED BY <1>6, <1>3, <1>4, <1>5, PlainTurnIs, Zenon

LEMMA DeleteRowTurns ==
    ASSUME RowTypes, NEW c \in Conns, Clean(sess[c]), Covered(sess[c], faults), DeleteRow(c)
    PROVE  PlainTurn(c)
<1>1. faults' \in Nat /\ Covered(sess[c], faults') /\ (Fails(c) => faults' > 0 \/ ~sess[c].live)
    BY FaultsGrow, Zenon DEF DeleteRow
<1>2. sess[c].stage = "cascade" /\ sess[c].owned = {}
    BY Zenon DEF DeleteRow, Asked
<1>3. \/ Turn(c, [sess[c] EXCEPT !.stage = "refresh"])
      \/ Turn(c, AtRoot(Doomless(sess[c])))
    BY Zenon DEF DeleteRow
<1>4. /\ Plain([sess[c] EXCEPT !.stage = "refresh"], sess[c], faults')
      /\ Plain(AtRoot(Doomless(sess[c])), sess[c], faults')
    BY <1>1, <1>2, DeleteRowFine, Zenon
<1>5. HasLine(c)
    BY <1>2 DEF HasLine
<1> QED BY <1>3, <1>4, <1>5, PlainTurnIs, Zenon

LEMMA RefreshTurns ==
    ASSUME RowTypes, NEW c \in Conns, Clean(sess[c]), Covered(sess[c], faults), Refresh(c)
    PROVE  PlainTurn(c)
<1>1. faults' \in Nat
    BY FaultsGrow, Zenon DEF Refresh
<1>2. sess[c].stage = "refresh"
    BY Zenon DEF Refresh
<1> DEFINE kept == AtRoot([Doomless(sess[c]) EXCEPT !.chars = @ \ {sess[c].doomed}])
           read == AtRoot([Doomless(sess[c]) EXCEPT !.chars = Roster(sess[c].account)])
<1>3. Turn(c, read) \/ Turn(c, kept)
    BY Zenon DEF Refresh
<1>4. Roster(sess[c].account) \in SUBSET Chars
    BY DEF Roster
<1>5. Plain(read, sess[c], faults') /\ Plain(kept, sess[c], faults')
    BY <1>1, <1>2, <1>4, RefreshFine, Zenon
<1>6. HasLine(c)
    BY <1>2 DEF HasLine
<1> QED BY <1>6, <1>3, <1>5, PlainTurnIs, Zenon

LEMMA LeavePasswordFlowTurns ==
    ASSUME RowTypes, NEW c \in Conns, Clean(sess[c]), Covered(sess[c], faults), LeavePasswordFlow(c)
    PROVE  PlainTurn(c)
<1>1. faults' \in Nat /\ Covered(sess[c], faults') /\ (Fails(c) => faults' > 0 \/ ~sess[c].live)
    BY FaultsGrow, Zenon DEF LeavePasswordFlow
<1>2. sess[c].stage = "idle" /\ sess[c].step \in {"current", "new", "confirm"} /\ inbox[c] # << >>
    BY Zenon DEF LeavePasswordFlow, Asked
<1>3. Turn(c, ResetPasswordFlow(sess[c]))
    BY Zenon DEF LeavePasswordFlow
<1>4. Plain(ResetPasswordFlow(sess[c]), sess[c], faults')
    BY <1>1, <1>2, LeavePasswordFlowFine, Zenon
<1>5. HasLine(c)
    BY <1>2 DEF HasLine
<1> QED BY <1>3, <1>4, <1>5, PlainTurnIs, Zenon

LEMMA CurrentPasswordTurns ==
    ASSUME RowTypes, NEW c \in Conns, Clean(sess[c]), Covered(sess[c], faults), CurrentPassword(c)
    PROVE  PlainTurn(c)
<1>1. faults' \in Nat /\ Covered(sess[c], faults') /\ (Fails(c) => faults' > 0 \/ ~sess[c].live)
    BY FaultsGrow, Zenon DEF CurrentPassword
<1>2. sess[c].stage = "idle" /\ sess[c].step \in {"current"} /\ inbox[c] # << >>
    BY Zenon DEF CurrentPassword, Asked
<1>3. Turn(c, [sess[c] EXCEPT !.step = "new"])
    BY Zenon DEF CurrentPassword
<1>4. Plain([sess[c] EXCEPT !.step = "new"], sess[c], faults')
    BY <1>1, <1>2, CurrentPasswordFine, Zenon
<1>5. HasLine(c)
    BY <1>2 DEF HasLine
<1> QED BY <1>3, <1>4, <1>5, PlainTurnIs, Zenon

LEMMA NewPasswordTurns ==
    ASSUME RowTypes, NEW c \in Conns, Clean(sess[c]), Covered(sess[c], faults), NewPassword(c)
    PROVE  PlainTurn(c)
<1>1. faults' \in Nat /\ Covered(sess[c], faults') /\ (Fails(c) => faults' > 0 \/ ~sess[c].live)
    BY FaultsGrow, Zenon DEF NewPassword
<1>2. sess[c].stage = "idle" /\ sess[c].step \in {"new"} /\ inbox[c] # << >>
    BY Zenon DEF NewPassword, Asked
<1>3. \E p \in Passwords : Turn(c, [sess[c] EXCEPT !.pending = p, !.step = "confirm"])
    BY Zenon DEF NewPassword
<1>4. \A p \in Passwords : Plain([sess[c] EXCEPT !.pending = p, !.step = "confirm"], sess[c], faults')
    BY <1>1, <1>2, NotNone, NewPasswordFine, Zenon
<1>5. HasLine(c)
    BY <1>2 DEF HasLine
<1> QED BY <1>3, <1>4, <1>5, PlainTurnIs, Zenon

LEMMA ConfirmNewPasswordTurns ==
    ASSUME RowTypes, NEW c \in Conns, Clean(sess[c]), Covered(sess[c], faults), ConfirmNewPassword(c)
    PROVE  PlainTurn(c)
<1>1. faults' \in Nat /\ Covered(sess[c], faults') /\ (Fails(c) => faults' > 0 \/ ~sess[c].live)
    BY FaultsGrow, Zenon DEF ConfirmNewPassword
<1>2. sess[c].stage = "idle" /\ sess[c].step \in {"confirm"} /\ inbox[c] # << >>
    BY Zenon DEF ConfirmNewPassword, Asked
<1>3. Turn(c, ResetPasswordFlow(sess[c]))
    BY Zenon DEF ConfirmNewPassword
<1>4. Plain(ResetPasswordFlow(sess[c]), sess[c], faults')
    BY <1>1, <1>2, ConfirmNewPasswordFine, Zenon
<1>5. HasLine(c)
    BY <1>2 DEF HasLine
<1> QED BY <1>3, <1>4, <1>5, PlainTurnIs, Zenon

LEMMA PickSettingTurns ==
    ASSUME RowTypes, NEW c \in Conns, Clean(sess[c]), Covered(sess[c], faults), PickSetting(c)
    PROVE  PlainTurn(c)
<1>1. faults' \in Nat /\ Covered(sess[c], faults') /\ (Fails(c) => faults' > 0 \/ ~sess[c].live)
    BY FaultsGrow, Zenon DEF PickSetting
<1>2. sess[c].stage = "idle" /\ sess[c].step \in {"settings"} /\ inbox[c] # << >>
    BY Zenon DEF PickSetting, Asked
<1>3. \E k \in Keys : Turn(c, [sess[c] EXCEPT !.key = k, !.step = "edit"])
    BY Zenon DEF PickSetting
<1>4. \A k \in Keys : Plain([sess[c] EXCEPT !.key = k, !.step = "edit"], sess[c], faults')
    BY <1>1, <1>2, PickSettingFine, Zenon
<1>5. HasLine(c)
    BY <1>2 DEF HasLine
<1> QED BY <1>3, <1>4, <1>5, PlainTurnIs, Zenon

LEMMA KeepSettingTurns ==
    ASSUME RowTypes, NEW c \in Conns, Clean(sess[c]), Covered(sess[c], faults), KeepSetting(c)
    PROVE  PlainTurn(c)
<1>1. faults' \in Nat /\ Covered(sess[c], faults') /\ (Fails(c) => faults' > 0 \/ ~sess[c].live)
    BY FaultsGrow, Zenon DEF KeepSetting
<1>2. sess[c].stage = "idle" /\ sess[c].step \in {"edit"} /\ inbox[c] # << >>
    BY Zenon DEF KeepSetting, Asked
<1>3. \/ Turn(c, [sess[c] EXCEPT !.key = None, !.step = "settings"])
      \/ Turn(c, sess[c])
    BY Zenon DEF KeepSetting
<1>4. /\ Plain([sess[c] EXCEPT !.key = None, !.step = "settings"], sess[c], faults')
      /\ Plain(sess[c], sess[c], faults')
    BY <1>1, <1>2, KeepSettingFine, Zenon
<1>5. HasLine(c)
    BY <1>2 DEF HasLine
<1> QED BY <1>3, <1>4, <1>5, PlainTurnIs, Zenon

LEMMA EditSettingTurns ==
    ASSUME RowTypes, NEW c \in Conns, Clean(sess[c]), Covered(sess[c], faults), EditSetting(c)
    PROVE  PlainTurn(c)
<1>1. faults' \in Nat
    BY FaultsGrow, Zenon DEF EditSetting
<1>2. sess[c].stage = "idle" /\ sess[c].step \in {"edit"} /\ inbox[c] # << >>
    BY Zenon DEF EditSetting, Asked
<1> DEFINE done == [sess[c] EXCEPT !.key = None, !.step = "settings"]
           Changed(v) == [sess[c].cfg EXCEPT ![sess[c].key] = v]
<1>3. \/ Turn(c, done)
      \/ \E v \in BOOLEAN : Turn(c, [done EXCEPT !.cfg = Changed(v)])
    BY Zenon DEF EditSetting
<1>4. \A v \in BOOLEAN : Changed(v) \in [Keys -> BOOLEAN]
    BY DEF Clean, Sessions
<1>5. Plain(done, sess[c], faults')
    BY <1>1, <1>2, EditSettingFine, Zenon
<1> HIDE DEF Changed
<1>6. \A v \in BOOLEAN : Plain([done EXCEPT !.cfg = Changed(v)], sess[c], faults')
    BY <1>1, <1>2, <1>4, EditSettingFine, Zenon
<1>7. HasLine(c)
    BY <1>2 DEF HasLine
<1> QED BY <1>7, <1>3, <1>5, <1>6, PlainTurnIs, Zenon

-----------------------------------------------------------------------------
(* Every session is clean, whoever steps.                                  *)

\* The state of the sessions that every step keeps: the types, and of each
\* session what its step and its stage promise.
SignInInv ==
    /\ RowTypes
    /\ sess \in [Conns -> Sessions]
    /\ inbox \in [Conns -> Seq(BOOLEAN)]
    /\ exposed \in SUBSET Conns
    /\ \A c \in Conns : Clean(sess[c]) /\ Covered(sess[c], faults)

\* The actions that are turns of session c's handlers.
LoginTurn(c) == LoginName(c) \/ WrongPassword(c) \/ RightPassword(c) \/ PostAuth(c) \/ CreateStep(c)

MenuTurn(c) ==
    \/ MenuStep(c)
    \/ PickDoomed(c) \/ DeleteRow(c) \/ Refresh(c)
    \/ LeavePasswordFlow(c) \/ CurrentPassword(c) \/ NewPassword(c) \/ ConfirmNewPassword(c)
    \/ PickSetting(c) \/ KeepSetting(c) \/ EditSetting(c)

LEMMA LoginTurns == ASSUME SignInInv, NEW c \in Conns, LoginTurn(c) PROVE PlainTurn(c)
<1>1. RowTypes /\ Clean(sess[c]) /\ Covered(sess[c], faults)
    BY DEF SignInInv
<1> QED BY <1>1, LoginNameTurns, WrongPasswordTurns, RightPasswordTurns, PostAuthTurns,
           CreateNameTurns, CreatePasswordTurns, CreateConfirmTurns, Zenon DEF LoginTurn, CreateStep

LEMMA MenuTurns == ASSUME SignInInv, NEW c \in Conns, MenuTurn(c) PROVE PlainTurn(c)
<1>1. RowTypes /\ Clean(sess[c]) /\ Covered(sess[c], faults)
    BY DEF SignInInv
<1> QED BY <1>1, RootChoiceTurns, BackTurns, PlayTurns, AbandonChargenTurns, FinishChargenTurns,
           QuitTurns, HandleTurns, PickDoomedTurns, DeleteRowTurns, RefreshTurns,
           LeavePasswordFlowTurns, CurrentPasswordTurns, NewPasswordTurns,
           ConfirmNewPasswordTurns, PickSettingTurns, KeepSettingTurns, EditSettingTurns, Zenon
        DEF MenuTurn, MenuStep

\* The three actions after which the handler goes on.
GoingOn(c) == CheckRow(c) \/ StartDelete(c) \/ DeleteItem(c)

\* Every turn ends well.
FineTurn(c) == HasLine(c) /\ \E t \in Sessions : Turn(c, t) /\ Fine(t, sess[c], faults')

LEMMA EveryTurn ==
    ASSUME SignInInv, NEW c \in Conns, LoginTurn(c) \/ MenuTurn(c) \/ GoingOn(c)
    PROVE  FineTurn(c)
<1>1. RowTypes /\ Clean(sess[c]) /\ Covered(sess[c], faults)
    BY DEF SignInInv
<1>2. PlainTurn(c) => FineTurn(c)
    BY DEF PlainTurn, FineTurn, Plain
<1>3. \A t : Fine(t, sess[c], faults') => t \in Sessions
    BY DEF Fine, Clean
<1>4. CASE CheckRow(c)
    BY <1>1, <1>2, <1>3, <1>4, CheckRowTurns, Zenon DEF FineTurn
<1>5. CASE StartDelete(c)
    BY <1>1, <1>2, <1>3, <1>5, StartDeleteTurns, Zenon DEF FineTurn
<1>6. CASE DeleteItem(c)
    BY <1>1, <1>2, <1>3, <1>6, DeleteItemTurns, Zenon DEF FineTurn
<1> QED BY <1>2, <1>4, <1>5, <1>6, LoginTurns, MenuTurns DEF GoingOn

\* A turn touches no session but its own, and the types of the rest stay.
LEMMA TurnTypes ==
    ASSUME SignInInv, NEW c \in Conns, NEW t \in Sessions, Turn(c, t), HasLine(c)
    PROVE  /\ sess' = [sess EXCEPT ![c] = t] /\ sess' \in [Conns -> Sessions]
           /\ sess'[c] = t /\ \A d \in Conns \ {c} : sess'[d] = sess[d]
           /\ inbox' \in [Conns -> Seq(BOOLEAN)] /\ exposed' \in SUBSET Conns
<1>1. sess' = [sess EXCEPT ![c] = t]
    BY Zenon DEF Turn
<1>2. /\ sess \in [Conns -> Sessions] /\ inbox \in [Conns -> Seq(BOOLEAN)]
      /\ exposed \in SUBSET Conns
    BY Zenon DEF SignInInv
<1>3. exposed' = exposed \/ exposed' = exposed \cup {c}
    BY Zenon DEF Turn
<1>4. PICK lines \in Seq(BOOLEAN) : inbox' = [inbox EXCEPT ![c] = lines]
  <2>1. << >> \in Seq(BOOLEAN) /\ inbox[c] \in Seq(BOOLEAN)
      BY <1>2
  <2>2. CASE t.stage = "idle" /\ ~t.open
    <3>1. inbox' = [inbox EXCEPT ![c] = << >>]
        BY <2>2, Zenon DEF Turn
    <3> QED BY <2>1, <3>1, Zenon
  <2>3. CASE ~(t.stage = "idle" /\ ~t.open) /\ sess[c].stage = "idle"
    <3>1. inbox' = [inbox EXCEPT ![c] = Tail(inbox[c])]
        BY <2>3, Zenon DEF Turn
    <3>2. inbox[c] # << >>
        BY <2>3, Zenon DEF HasLine
    <3>3. Tail(inbox[c]) \in Seq(BOOLEAN)
        BY <2>1, <3>2, HeadTailProperties, Zenon
    <3> QED BY <3>1, <3>3, Zenon
  <2>4. CASE ~(t.stage = "idle" /\ ~t.open) /\ sess[c].stage # "idle"
    <3>1. inbox' = [inbox EXCEPT ![c] = inbox[c]]
        BY <2>4, Zenon DEF Turn
    <3> QED BY <2>1, <3>1, Zenon
  <2> QED BY <2>2, <2>3, <2>4
<1>5. inbox' \in [Conns -> Seq(BOOLEAN)]
    BY <1>2, <1>4
<1> QED BY <1>1, <1>2, <1>3, <1>5

LEMMA CoveredStays ==
    ASSUME NEW s, NEW f \in Nat, NEW g \in Nat, f <= g, Covered(s, f)
    PROVE  Covered(s, g)
BY DEF Covered

-----------------------------------------------------------------------------
(* The rows keep their types.                                              *)

\* The actions that leave the database as it is.
QuietTurn(c) ==
    \/ LoginName(c) \/ CheckRow(c) \/ PostAuth(c) \/ CreateName(c)
    \/ CreatePassword(c) \/ RootChoice(c) \/ Back(c) \/ Play(c)
    \/ AbandonChargen(c) \/ Quit(c) \/ PickDoomed(c) \/ StartDelete(c)
    \/ Refresh(c) \/ LeavePasswordFlow(c) \/ CurrentPassword(c) \/ NewPassword(c)
    \/ PickSetting(c) \/ KeepSetting(c)

KeepsRows(c) == UNCHANGED <<rows, things, bound>> /\ (Works(c) \/ Fails(c) \/ UNCHANGED faults)

LEMMA QuietTurns == ASSUME NEW c \in Conns, QuietTurn(c) PROVE KeepsRows(c)
<1>1. CASE LoginName(c)
    BY <1>1, Zenon DEF LoginName, KeepsRows
<1>2. CASE CheckRow(c)
    BY <1>2, Zenon DEF CheckRow, KeepsRows
<1>3. CASE PostAuth(c)
    BY <1>3, Zenon DEF PostAuth, KeepsRows
<1>4. CASE CreateName(c)
    BY <1>4, Zenon DEF CreateName, KeepsRows
<1>5. CASE CreatePassword(c)
    BY <1>5, Zenon DEF CreatePassword, KeepsRows
<1>6. CASE RootChoice(c)
    BY <1>6, Zenon DEF RootChoice, KeepsRows
<1>7. CASE Back(c)
    BY <1>7, Zenon DEF Back, KeepsRows
<1>8. CASE Play(c)
    BY <1>8, Zenon DEF Play, KeepsRows
<1>9. CASE AbandonChargen(c)
    BY <1>9, Zenon DEF AbandonChargen, KeepsRows
<1>10. CASE Quit(c)
    BY <1>10, Zenon DEF Quit, KeepsRows
<1>11. CASE PickDoomed(c)
    BY <1>11, Zenon DEF PickDoomed, KeepsRows
<1>12. CASE StartDelete(c)
    BY <1>12, Zenon DEF StartDelete, KeepsRows
<1>13. CASE Refresh(c)
    BY <1>13, Zenon DEF Refresh, KeepsRows
<1>14. CASE LeavePasswordFlow(c)
    BY <1>14, Zenon DEF LeavePasswordFlow, KeepsRows
<1>15. CASE CurrentPassword(c)
    BY <1>15, Zenon DEF CurrentPassword, KeepsRows
<1>16. CASE NewPassword(c)
    BY <1>16, Zenon DEF NewPassword, KeepsRows
<1>17. CASE PickSetting(c)
    BY <1>17, Zenon DEF PickSetting, KeepsRows
<1>18. CASE KeepSetting(c)
    BY <1>18, Zenon DEF KeepSetting, KeepsRows
<1> QED BY <1>1, <1>2, <1>3, <1>4, <1>5, <1>6, <1>7, <1>8, <1>9, <1>10, <1>11, <1>12, <1>13, <1>14, <1>15, <1>16, <1>17, <1>18 DEF QuietTurn

LEMMA RowsStay == ASSUME RowTypes, NEW c \in Conns, KeepsRows(c) PROVE RowTypes'
<1>1. faults' \in 0..MaxFaults
    BY FaultsGrow DEF KeepsRows
<1> QED BY <1>1, Zenon DEF RowTypes, KeepsRows, rows, things

LEMMA LoginRows ==
    ASSUME SignInInv, NEW c \in Conns, LoginTurn(c) \/ CheckRow(c)
    PROVE  RowTypes' /\ faults <= faults'
<1>1. RowTypes /\ Clean(sess[c]) /\ sess[c] \in Sessions
    BY DEF SignInInv
<1>2. Works(c) \/ Fails(c) \/ UNCHANGED faults
  <2>1. CASE QuietTurn(c)
      BY <2>1, QuietTurns DEF KeepsRows
  <2>2. CASE WrongPassword(c)
      BY <2>2 DEF WrongPassword
  <2>3. CASE RightPassword(c)
      BY <2>3 DEF RightPassword
  <2>4. CASE CreateConfirm(c)
      BY <2>4 DEF CreateConfirm
  <2> QED BY <2>1, <2>2, <2>3, <2>4 DEF LoginTurn, CreateStep, QuietTurn
<1>3. faults' \in 0..MaxFaults /\ faults <= faults'
    BY <1>1, <1>2, FaultsGrow
<1>4. CASE QuietTurn(c)
    BY <1>1, <1>3, <1>4, QuietTurns, RowsStay
<1>5. CASE WrongPassword(c)
  <2>1. sess[c].name \in Accounts
      BY <1>1, <1>5 DEF WrongPassword, Clean, Sessions
  <2>2. failed' \in [Accounts -> 0..MaxFailed]
      BY <1>1, <1>5, <2>1, AccountsConstants DEF WrongPassword, RowTypes
  <2>3. lock' \in [Accounts -> {"never", "locked", "expired"}]
      BY <1>1, <1>5, <2>1 DEF WrongPassword, RowTypes
  <2> QED BY <1>1, <1>3, <1>5, <2>2, <2>3 DEF WrongPassword, RowTypes, things
<1>6. CASE RightPassword(c)
  <2>2. failed' \in [Accounts -> 0..MaxFailed]
      BY <1>1, <1>6, AccountsConstants DEF RightPassword, RowTypes
  <2>3. lock' \in [Accounts -> {"never", "locked", "expired"}]
      BY <1>1, <1>6 DEF RightPassword, RowTypes
  <2> QED BY <1>1, <1>3, <1>6, <2>2, <2>3 DEF RightPassword, RowTypes, things
<1>7. CASE CreateConfirm(c)
  <2>1. hash' \in [Accounts -> Passwords \cup {None}]
      BY <1>1, <1>7 DEF CreateConfirm, RowTypes, Sessions
  <2> QED BY <1>1, <1>3, <1>7, <2>1 DEF CreateConfirm, RowTypes, things
<1> QED BY <1>3, <1>4, <1>5, <1>6, <1>7 DEF LoginTurn, CreateStep, QuietTurn

LEMMA MenuRows ==
    ASSUME SignInInv, NEW c \in Conns, MenuTurn(c) \/ StartDelete(c) \/ DeleteItem(c)
    PROVE  RowTypes' /\ faults <= faults'
<1>1. RowTypes /\ Clean(sess[c]) /\ sess[c] \in Sessions
    BY DEF SignInInv
<1>2. Works(c) \/ Fails(c) \/ UNCHANGED faults
  <2>1. CASE QuietTurn(c)
      BY <2>1, QuietTurns DEF KeepsRows
  <2>2. CASE FinishChargen(c)
      BY <2>2 DEF FinishChargen
  <2>3. CASE Handle(c)
      BY <2>3 DEF Handle
  <2>4. CASE DeleteItem(c)
      BY <2>4 DEF DeleteItem
  <2>5. CASE DeleteRow(c)
      BY <2>5 DEF DeleteRow
  <2>6. CASE ConfirmNewPassword(c)
      BY <2>6 DEF ConfirmNewPassword
  <2>7. CASE EditSetting(c)
      BY <2>7, Zenon DEF EditSetting
  <2> QED BY <2>1, <2>2, <2>3, <2>4, <2>5, <2>6, <2>7 DEF MenuTurn, MenuStep, QuietTurn
<1>3. faults' \in 0..MaxFaults /\ faults <= faults'
    BY <1>1, <1>2, FaultsGrow
<1>4. CASE QuietTurn(c)
    BY <1>1, <1>3, <1>4, QuietTurns, RowsStay
<1>5. CASE FinishChargen(c)
  <2>1. owner' \in [Chars -> Accounts \cup {None, "deleted"}]
      BY <1>1, <1>5 DEF FinishChargen, RowTypes, Sessions
  <2> QED BY <1>1, <1>3, <1>5, <2>1 DEF FinishChargen, RowTypes, rows
<1>6. CASE Handle(c)
  <2>1. sess[c].playing \in Chars
      BY <1>1, <1>6 DEF Handle, Asked, Clean, Sessions
  <2>2. holder' \in [Items -> Chars \cup {"room", "gone"}] /\ late' \in SUBSET Items
      BY <1>1, <1>6, <2>1 DEF Handle, RowTypes
  <2> QED BY <1>1, <1>3, <1>6, <2>2 DEF Handle, RowTypes, rows
<1>7. CASE DeleteItem(c)
  <2>1. holder' \in [Items -> Chars \cup {"room", "gone"}] /\ late' \in SUBSET Items
      BY <1>1, <1>7 DEF DeleteItem, RowTypes
  <2> QED BY <1>1, <1>3, <1>7, <2>1 DEF DeleteItem, RowTypes, rows
<1>8. CASE DeleteRow(c)
  <2>1. owner' \in [Chars -> Accounts \cup {None, "deleted"}]
      BY <1>1, <1>8 DEF DeleteRow, RowTypes
  <2> QED BY <1>1, <1>3, <1>8, <2>1 DEF DeleteRow, RowTypes, rows
<1>9. CASE ConfirmNewPassword(c)
  <2>1. hash' \in [Accounts -> Passwords \cup {None}]
      BY <1>1, <1>9 DEF ConfirmNewPassword, RowTypes, Sessions
  <2> QED BY <1>1, <1>3, <1>9, <2>1 DEF ConfirmNewPassword, RowTypes, things
<1>10. CASE EditSetting(c)
  <2>1. \A v \in BOOLEAN : [sess[c].cfg EXCEPT ![sess[c].key] = v] \in [Keys -> BOOLEAN]
      BY <1>1 DEF Sessions
  <2>2. \/ settings' = settings
        \/ \E next \in [Keys -> BOOLEAN] : settings' = [settings EXCEPT ![sess[c].account] = next]
      BY <1>10, <2>1, Zenon DEF EditSetting
  <2>3. settings' \in [Accounts -> [Keys -> BOOLEAN]]
      BY <1>1, <2>2 DEF RowTypes
  <2>4. UNCHANGED <<hash, failed, lock, things, bound>>
      BY <1>10, Zenon DEF EditSetting
  <2> QED BY <1>1, <1>3, <2>3, <2>4 DEF RowTypes, things
<1> QED BY <1>3, <1>4, <1>5, <1>6, <1>7, <1>8, <1>9, <1>10 DEF MenuTurn, MenuStep, QuietTurn

-----------------------------------------------------------------------------
(* The steps that are no turns, and the invariant.                         *)

Ended == [Fresh EXCEPT !.open = FALSE, !.live = FALSE, !.step = "over"]

LEMMA FreshFine == Clean(Fresh) /\ Clean(Ended) /\ \A f : Covered(Fresh, f) /\ Covered(Ended, f)
<1>1. Unset \in [Keys -> BOOLEAN]
    BY DEF Unset
<1>2. Fresh \in Sessions /\ Ended \in Sessions
    BY <1>1 DEF Fresh, Ended, Sessions, Steps, LoginSteps, MenuSteps, Stages
<1>3. Clean(Fresh) /\ \A f : Covered(Fresh, f)
    BY <1>2 DEF Fresh, Clean, Covered, PasswordSteps
<1>4. Clean(Ended) /\ \A f : Covered(Ended, f)
    BY <1>2 DEF Fresh, Ended, Clean, Covered, PasswordSteps
<1> QED BY <1>3, <1>4

LEMMA ClosedFine ==
    ASSUME NEW s, NEW f, Clean(s), Covered(s, f)
    PROVE  Clean([s EXCEPT !.open = FALSE]) /\ Covered([s EXCEPT !.open = FALSE], f)
<1>0. s \in Sessions
    BY DEF Clean
<1> DEFINE t == [s EXCEPT !.open = FALSE]
<1>1. t \in Sessions
    BY <1>0 DEF Sessions
<1>2. /\ t.live = s.live /\ t.masked = s.masked /\ t.step = s.step /\ t.stage = s.stage
      /\ t.name = s.name /\ t.account = s.account /\ t.pending = s.pending
      /\ t.doomed = s.doomed /\ t.owned = s.owned /\ t.playing = s.playing
    BY <1>0 DEF Sessions
<1> HIDE DEF t
<1>3. Clean(t) /\ Covered(t, f)
    BY <1>1, <1>2 DEF Clean, Covered
<1> QED BY <1>3 DEF t

LEMMA DeadFine ==
    ASSUME NEW s, NEW f, Clean(s), Covered(s, f)
    PROVE  Clean([s EXCEPT !.live = FALSE]) /\ Covered([s EXCEPT !.live = FALSE], f)
<1>0. s \in Sessions
    BY DEF Clean
<1> DEFINE t == [s EXCEPT !.live = FALSE]
<1>1. t \in Sessions
    BY <1>0 DEF Sessions
<1>2. /\ t.live = FALSE /\ t.masked = s.masked /\ t.step = s.step /\ t.stage = s.stage
      /\ t.name = s.name /\ t.account = s.account /\ t.pending = s.pending
      /\ t.doomed = s.doomed /\ t.owned = s.owned /\ t.playing = s.playing
    BY <1>0 DEF Sessions
<1> HIDE DEF t
<1>3. Clean(t) /\ Covered(t, f)
    BY <1>1, <1>2 DEF Clean, Covered
<1> QED BY <1>3 DEF t

Greeted(s) == [s EXCEPT !.account = s.name, !.stage = "greet"]

LEMMA AdmitFine ==
    ASSUME NEW s, NEW f, Clean(s), s.stage = "admit"
    PROVE  Clean(Greeted(s)) /\ Covered(Greeted(s), f)
<1>0. s \in Sessions
    BY DEF Clean
<1> DEFINE t == Greeted(s)
<1>1. t \in Sessions
    BY <1>0 DEF Sessions, Stages, Greeted
<1>2. /\ t.live = s.live /\ t.masked = s.masked /\ t.step = s.step /\ t.stage = "greet"
      /\ t.name = s.name /\ t.account = s.name /\ t.pending = s.pending
      /\ t.doomed = s.doomed /\ t.owned = s.owned /\ t.playing = s.playing
    BY <1>0 DEF Sessions, Greeted
<1> HIDE DEF t
<1>3. Clean(t) /\ Covered(t, f)
    BY <1>1, <1>2 DEF Clean, Covered
<1> QED BY <1>3 DEF t

\* What a step that is no turn may make of a session.
Others(d) ==
    \/ sess'[d] = sess[d]
    \/ sess'[d] = [sess[d] EXCEPT !.open = FALSE]
    \/ sess'[d] = [sess[d] EXCEPT !.live = FALSE]
    \/ sess'[d] = Ended
    \/ sess[d].stage = "admit" /\ sess'[d] = Greeted(sess[d])

LEMMA OthersFine ==
    ASSUME NEW d \in Conns, Clean(sess[d]), Covered(sess[d], faults), Others(d)
    PROVE  Clean(sess'[d]) /\ Covered(sess'[d], faults)
<1> DEFINE closed == [sess[d] EXCEPT !.open = FALSE]
           dead == [sess[d] EXCEPT !.live = FALSE]
<1>1. Clean(closed) /\ Covered(closed, faults)
    BY ClosedFine
<1>2. Clean(dead) /\ Covered(dead, faults)
    BY DeadFine
<1>3. Clean(Ended) /\ Covered(Ended, faults)
    BY FreshFine
<1>4. sess[d].stage = "admit" => Clean(Greeted(sess[d])) /\ Covered(Greeted(sess[d]), faults)
    BY AdmitFine
<1>5. \/ sess'[d] = sess[d] \/ sess'[d] = closed \/ sess'[d] = dead \/ sess'[d] = Ended
      \/ sess[d].stage = "admit" /\ sess'[d] = Greeted(sess[d])
    BY DEF Others
<1> HIDE DEF closed, dead
<1> QED BY <1>1, <1>2, <1>3, <1>4, <1>5

Outside(c) == Type(c) \/ ReaderEnds(c) \/ Teardown(c) \/ Admit(c) \/ KickOthers(c)

LEMMA OutsideSteps ==
    ASSUME SignInInv, NEW c \in Conns, Outside(c)
    PROVE  /\ sess' \in [Conns -> Sessions] /\ \A d \in Conns : Others(d)
           /\ inbox' \in [Conns -> Seq(BOOLEAN)]
           /\ RowTypes' /\ UNCHANGED <<rows, things, exposed, faults>>
<1>1. /\ sess \in [Conns -> Sessions] /\ inbox \in [Conns -> Seq(BOOLEAN)] /\ RowTypes
      /\ \A d \in Conns : Clean(sess[d]) /\ Covered(sess[d], faults)
    BY Zenon DEF SignInInv
<1>2. ASSUME \A d \in Conns : Others(d), \E ss : sess' = [d \in Conns |-> ss[d]]
      PROVE  sess' \in [Conns -> Sessions]
  <2>1. \A d \in Conns : Clean(sess'[d])
      BY <1>1, <1>2, OthersFine
  <2> QED BY <1>2, <2>1 DEF Clean
<1>3. ASSUME UNCHANGED <<rows, things, bound, faults>> PROVE RowTypes'
    BY <1>1, <1>3 DEF RowTypes, rows, things
<1>4. CASE Type(c)
  <2>1. sess[c].masked \in BOOLEAN
      BY <1>1 DEF Sessions
  <2>2. Append(inbox[c], sess[c].masked) \in Seq(BOOLEAN)
      BY <1>1, <2>1
  <2>3. inbox' = [inbox EXCEPT ![c] = Append(inbox[c], sess[c].masked)]
      BY <1>4, Zenon DEF Type
  <2>4. inbox' \in [Conns -> Seq(BOOLEAN)]
      BY <1>1, <2>2, <2>3
  <2>5. UNCHANGED <<rows, things, sess, bound, exposed, faults>>
      BY <1>4, Zenon DEF Type
  <2> QED BY <1>1, <1>3, <2>4, <2>5 DEF Others
<1>5. CASE ReaderEnds(c)
  <2>1. UNCHANGED <<rows, things, inbox, bound, exposed, faults>>
      BY <1>5, Zenon DEF ReaderEnds
  <2>2. sess' = [sess EXCEPT ![c] = [sess[c] EXCEPT !.live = FALSE]]
      BY <1>5, Zenon DEF ReaderEnds
  <2>3. \A d \in Conns : Others(d)
      BY <1>1, <2>2 DEF Others
  <2>4. sess' = [d \in Conns |-> sess'[d]]
      BY <1>1, <2>2
  <2> QED BY <1>1, <1>2, <1>3, <2>1, <2>3, <2>4
<1>6. CASE Teardown(c)
  <2>1. UNCHANGED <<rows, things, inbox, exposed, faults>>
      BY <1>6, Zenon DEF Teardown
  <2>2. sess' = [sess EXCEPT ![c] = Ended]
      BY <1>6, Zenon DEF Teardown, Ended
  <2>3. \A d \in Conns : Others(d)
      BY <1>1, <2>2 DEF Others
  <2>4. sess' = [d \in Conns |-> sess'[d]]
      BY <1>1, <2>2
  <2>5. bound' = [a \in Accounts |-> IF a = sess[c].account /\ bound[a] = c THEN None ELSE bound[a]]
      BY <1>6, Zenon DEF Teardown
  <2>6. RowTypes'
      BY <1>1, <2>1, <2>5 DEF RowTypes, rows, things
  <2> QED BY <1>1, <1>2, <2>1, <2>3, <2>4, <2>6
<1>7. CASE Admit(c)
  <2>1. UNCHANGED <<rows, things, inbox, exposed, faults>>
      BY <1>7, Zenon DEF Admit
  <2>2. sess' = [d \in Conns |->
                   IF d = c THEN Greeted(sess[c])
                   ELSE IF d = bound[sess[c].name] THEN [sess[d] EXCEPT !.open = FALSE] ELSE sess[d]]
      BY <1>7, Zenon DEF Admit, Greeted
  <2>3. sess[c].stage = "admit"
      BY <1>7, Zenon DEF Admit
  <2>4. \A d \in Conns : Others(d)
      BY <1>1, <2>2, <2>3 DEF Others
  <2>5. sess' = [d \in Conns |-> sess'[d]]
      BY <1>1, <2>2
  <2>6. bound' = [bound EXCEPT ![sess[c].name] = c]
      BY <1>7, Zenon DEF Admit
  <2>7. RowTypes'
      BY <1>1, <2>1, <2>6 DEF RowTypes, rows, things
  <2> QED BY <1>1, <1>2, <2>1, <2>4, <2>5, <2>7
<1>8. CASE KickOthers(c)
  <2>1. UNCHANGED <<rows, things, bound, exposed, faults>>
      BY <1>8, Zenon DEF KickOthers
  <2>2. \E peers : sess' = [d \in Conns |-> IF d \in peers THEN [sess[d] EXCEPT !.open = FALSE] ELSE sess[d]]
      BY <1>8, Zenon DEF KickOthers
  <2>3. \A d \in Conns : Others(d)
      BY <1>1, <2>2 DEF Others
  <2>4. sess' = [d \in Conns |-> sess'[d]]
      BY <1>1, <2>2
  <2>5. inbox' = [inbox EXCEPT ![c] = IF sess[c].open THEN Tail(inbox[c]) ELSE << >>] /\ inbox[c] # << >>
      BY <1>8, Zenon DEF KickOthers, Asked
  <2>6. inbox[c] \in Seq(BOOLEAN)
      BY <1>1
  <2>7. Tail(inbox[c]) \in Seq(BOOLEAN) /\ << >> \in Seq(BOOLEAN)
      BY <2>5, <2>6, HeadTailProperties, EmptySeq, Zenon
  <2>8. inbox' \in [Conns -> Seq(BOOLEAN)]
      BY <1>1, <2>5, <2>7
  <2> QED BY <1>1, <1>2, <1>3, <2>1, <2>3, <2>4, <2>8
<1> QED BY <1>4, <1>5, <1>6, <1>7, <1>8 DEF Outside

LEMMA SignInInit == Init => SignInInv
<1> SUFFICES ASSUME Init PROVE SignInInv
    OBVIOUS
<1>1. Clean(Fresh) /\ \A f : Covered(Fresh, f)
    BY FreshFine
<1>2. sess = [c \in Conns |-> Fresh] /\ Fresh \in Sessions
    BY <1>1 DEF Init, Clean
<1>3. RowTypes
  <2>1. Unset \in [Keys -> BOOLEAN]
      BY DEF Unset
  <2>2. /\ hash \in [Accounts -> Passwords \cup {None}]
        /\ failed = [a \in Accounts |-> 0] /\ lock = [a \in Accounts |-> "never"]
        /\ settings = [a \in Accounts |-> Unset] /\ owner \in [Chars -> Accounts \cup {None}]
        /\ holder \in [Items -> {k \in Chars : owner[k] # None} \cup {"room"}]
        /\ late = {} /\ bound = [a \in Accounts |-> None] /\ faults = 0
      BY DEF Init
  <2> QED BY <2>1, <2>2, AccountsConstants DEF RowTypes
<1>4. inbox \in [Conns -> Seq(BOOLEAN)] /\ exposed \in SUBSET Conns
    BY EmptySeq DEF Init
<1> QED BY <1>1, <1>2, <1>3, <1>4 DEF SignInInv

LEMMA SignInStep == SignInInv /\ [Next]_vars => SignInInv'
<1> SUFFICES ASSUME SignInInv, [Next]_vars PROVE SignInInv'
    OBVIOUS
<1>1. /\ sess \in [Conns -> Sessions] /\ faults \in Nat
      /\ \A c \in Conns : Clean(sess[c]) /\ Covered(sess[c], faults)
    BY AccountsConstants DEF SignInInv, RowTypes
<1>2. ASSUME NEW c \in Conns, LoginTurn(c) \/ MenuTurn(c) \/ GoingOn(c)
      PROVE  SignInInv'
  <2>1. PICK t \in Sessions : Turn(c, t) /\ Fine(t, sess[c], faults') /\ HasLine(c)
      BY <1>2, EveryTurn DEF FineTurn
  <2>2. RowTypes' /\ faults <= faults'
      BY <1>2, LoginRows, MenuRows, Zenon DEF GoingOn
  <2>3. faults' \in Nat
      BY <2>2, AccountsConstants DEF RowTypes
  <2>4. /\ sess' \in [Conns -> Sessions] /\ sess'[c] = t
        /\ \A d \in Conns \ {c} : sess'[d] = sess[d]
        /\ inbox' \in [Conns -> Seq(BOOLEAN)] /\ exposed' \in SUBSET Conns
      BY <2>1, TurnTypes
  <2>5. ASSUME NEW d \in Conns PROVE Clean(sess'[d]) /\ Covered(sess'[d], faults')
    <3>1. CASE d = c
        BY <2>1, <2>4, <3>1 DEF Fine
    <3>2. CASE d # c
        BY <1>1, <2>2, <2>3, <2>4, <3>2, CoveredStays
    <3> QED BY <3>1, <3>2
  <2> QED BY <2>2, <2>4, <2>5, Zenon DEF SignInInv
<1>3. ASSUME NEW c \in Conns, Outside(c)
      PROVE  SignInInv'
  <2>1. /\ sess' \in [Conns -> Sessions] /\ \A d \in Conns : Others(d)
        /\ inbox' \in [Conns -> Seq(BOOLEAN)] /\ RowTypes' /\ exposed' = exposed /\ faults' = faults
      BY <1>3, OutsideSteps
  <2>2. \A d \in Conns : Clean(sess'[d]) /\ Covered(sess'[d], faults)
      BY <1>1, <2>1, OthersFine
  <2> QED BY <2>1, <2>2 DEF SignInInv
<1>4. ASSUME NEW a \in Accounts, LockExpires(a)
      PROVE  SignInInv'
  <2>1. /\ lock' = [lock EXCEPT ![a] = "expired"]
        /\ UNCHANGED <<hash, failed, settings, things, sess, inbox, bound, exposed, faults>>
      BY <1>4, Zenon DEF LockExpires
  <2>2. RowTypes'
      BY <2>1 DEF SignInInv, RowTypes, things
  <2> QED BY <2>1, <2>2 DEF SignInInv
<1>5. CASE UNCHANGED vars
    BY <1>5 DEF vars, rows, things, SignInInv, RowTypes
<1> QED BY <1>2, <1>3, <1>4, <1>5, Zenon
        DEF Next, LoginStep, CreateStep, MenuStep, DeleteStep, AccountStep, LoginTurn, MenuTurn,
            GoingOn, Outside

\* The invariant of the sessions: what every step and stage of a handler
\* promises of the fields it uses (the modes of internal/mode).
THEOREM SignInHolds == Spec => []SignInInv
<1> QED BY SignInInit, SignInStep, PTL DEF Spec

\* FlowsEndClean, whatever clients send ahead of their prompts: no refusal,
\* failure or takeover leaves a mask, a hash or a doomed character behind
\* (account_menu.go:193-195).
THEOREM FlowsAlwaysEndClean == Spec => []FlowsEndClean
<1>1. SignInInv => TypeOK
    BY DEF SignInInv, RowTypes, TypeOK, Clean
<1>2. SignInInv => FlowsEndClean
  <2> SUFFICES ASSUME SignInInv, NEW c \in Conns, sess[c].stage = "idle"
               PROVE  LET s == sess[c] IN
                      /\ s.masked => s.step \in PasswordSteps
                      /\ s.step \in MenuSteps => (s.masked <=> s.step \in PasswordSteps)
                      /\ s.step \in MenuSteps => (s.pending # None <=> s.step = "confirm")
                      /\ s.step = "confirmdelete" <=> s.doomed # None
      BY <1>1 DEF FlowsEndClean
  <2>1. Clean(sess[c])
      BY DEF SignInInv
  <2> QED BY <2>1 DEF Clean, MenuSteps, PasswordSteps
<1> QED BY <1>2, SignInHolds, PTL

-----------------------------------------------------------------------------
(* The passwords stay private.                                             *)

LEMMA PrivateInit == Init => PrivateInv
<1> SUFFICES ASSUME Init PROVE PrivateInv
    OBVIOUS
<1>1. SignInInv
    BY SignInInit
<1>2. exposed = {} /\ \A c \in Conns : inbox[c] = << >>
    BY DEF Init
<1> QED BY <1>1, <1>2 DEF PrivateInv, PasswordsStayPrivate, Waits, SignInInv

\* The turns of a client that waits for its prompts take its only line, and
\* the mask was on if it held a password.
LEMMA PrivateTurn ==
    ASSUME SignInInv, PrivateInv, NEW c \in Conns, NEW t \in Sessions, HasLine(c), Turn(c, t),
           faults <= faults', faults' \in Nat
    PROVE  /\ inbox'[c] = << >> /\ \A d \in Conns \ {c} : inbox'[d] = inbox[d]
           /\ faults' = 0 => exposed' = {}
<1>1. inbox \in [Conns -> Seq(BOOLEAN)] /\ Waits(c) /\ PasswordsStayPrivate /\ faults \in Nat
    BY AccountsConstants DEF SignInInv, RowTypes, PrivateInv
<1>3. inbox[c] # << >> => sess[c].stage = "idle" /\ inbox[c] = <<sess[c].masked>>
    BY <1>1 DEF Waits
<1>4. sess[c].stage = "idle" <=> inbox[c] # << >>
    BY <1>3 DEF HasLine
<1>5. inbox'[c] = << >> /\ \A d \in Conns \ {c} : inbox'[d] = inbox[d]
  <2>1. CASE t.stage = "idle" /\ ~t.open
    <3>1. inbox' = [inbox EXCEPT ![c] = << >>]
        BY <2>1, Zenon DEF Turn
    <3> QED BY <1>1, <3>1
  <2>2. CASE ~(t.stage = "idle" /\ ~t.open) /\ sess[c].stage = "idle"
    <3>1. inbox' = [inbox EXCEPT ![c] = Tail(inbox[c])]
        BY <2>2, Zenon DEF Turn
    <3>2. inbox[c] = <<sess[c].masked>>
        BY <1>3, <1>4, <2>2
    <3>3. Tail(inbox[c]) = << >>
        BY <3>2
    <3> QED BY <1>1, <3>1, <3>3
  <2>3. CASE ~(t.stage = "idle" /\ ~t.open) /\ sess[c].stage # "idle"
    <3>1. inbox' = [inbox EXCEPT ![c] = inbox[c]]
        BY <2>3, Zenon DEF Turn
    <3> QED BY <1>1, <1>4, <2>3, <3>1
  <2> QED BY <2>1, <2>2, <2>3
<1>6. ASSUME faults' = 0 PROVE exposed' = {}
  <2>1. faults = 0
      BY <1>1, <1>6
  <2>2. exposed = {}
      BY <1>1, <2>1 DEF PasswordsStayPrivate
  <2>3. CASE sess[c].stage = "idle" /\ sess[c].step \in PasswordSteps
    <3>1. inbox[c] = <<sess[c].masked>> /\ sess[c].masked
        BY <1>1, <1>3, <1>4, <2>1, <2>3 DEF Waits
    <3>2. Head(inbox[c]) = sess[c].masked
        BY <3>1
    <3> QED BY <2>2, <3>1, <3>2, Zenon DEF Turn
  <2>4. CASE ~(sess[c].stage = "idle" /\ sess[c].step \in PasswordSteps)
      BY <2>2, <2>4, Zenon DEF Turn
  <2> QED BY <2>3, <2>4
<1> QED BY <1>5, <1>6

LEMMA PrivateStep ==
    ASSUME ~TypesAhead, SignInInv, SignInInv', PrivateInv, [Next]_vars
    PROVE  PrivateInv'
<1>1. /\ sess \in [Conns -> Sessions] /\ faults \in Nat /\ inbox \in [Conns -> Seq(BOOLEAN)]
      /\ PasswordsStayPrivate /\ \A c \in Conns : Covered(sess[c], faults) /\ Waits(c)
    BY AccountsConstants DEF SignInInv, RowTypes, PrivateInv
<1>2. \A c \in Conns : Covered(sess'[c], faults')
    BY DEF SignInInv
<1>3. ASSUME NEW c \in Conns, LoginTurn(c) \/ MenuTurn(c) \/ GoingOn(c)
      PROVE  PasswordsStayPrivate' /\ \A d \in Conns : Waits(d)'
  <2>1. PICK t \in Sessions : Turn(c, t) /\ HasLine(c)
      BY <1>3, EveryTurn DEF FineTurn
  <2>2. faults <= faults' /\ faults' \in Nat
    <3>1. faults <= faults'
        BY <1>3, LoginRows, MenuRows, Zenon DEF GoingOn
    <3>2. faults' \in Nat
        BY AccountsConstants DEF SignInInv, RowTypes
    <3> QED BY <3>1, <3>2
  <2>3. /\ inbox'[c] = << >> /\ \A d \in Conns \ {c} : inbox'[d] = inbox[d]
        /\ faults' = 0 => exposed' = {}
      BY <2>1, <2>2, PrivateTurn
  <2>4. \A d \in Conns \ {c} : sess'[d] = sess[d]
      BY <2>1, TurnTypes
  <2>5. faults' = 0 => faults = 0
      BY <1>1, <2>2 DEF SignInInv, RowTypes
  <2>6. ASSUME NEW d \in Conns PROVE Waits(d)'
    <3>1. CASE d = c
        BY <2>3, <3>1 DEF Waits
    <3>2. CASE d # c
        BY <1>1, <2>3, <2>4, <2>5, <3>2 DEF Waits
    <3> QED BY <3>1, <3>2
  <2> QED BY <2>3, <2>6 DEF PasswordsStayPrivate
<1>4. ASSUME NEW c \in Conns, Type(c)
      PROVE  PasswordsStayPrivate' /\ \A d \in Conns : Waits(d)'
  <2>1. /\ sess[c].live /\ inbox[c] = << >> /\ sess[c].stage = "idle"
        /\ inbox' = [inbox EXCEPT ![c] = Append(inbox[c], sess[c].masked)]
        /\ UNCHANGED <<sess, exposed, faults>>
      BY <1>4, Zenon DEF Type
  <2>2. inbox'[c] = <<sess[c].masked>> /\ \A d \in Conns \ {c} : inbox'[d] = inbox[d]
      BY <1>1, <2>1
  <2>3. Covered(sess[c], faults)
      BY <1>1
  <2>4. ASSUME NEW d \in Conns PROVE Waits(d)'
    <3>1. CASE d = c
        BY <2>1, <2>2, <2>3, <3>1 DEF Waits, Covered
    <3>2. CASE d # c
        BY <1>1, <2>1, <2>2, <3>2 DEF Waits
    <3> QED BY <3>1, <3>2
  <2> QED BY <1>1, <2>1, <2>4 DEF PasswordsStayPrivate
<1>5. ASSUME NEW c \in Conns, Outside(c), ~Type(c)
      PROVE  PasswordsStayPrivate' /\ \A d \in Conns : Waits(d)'
  <2>1. /\ \A d \in Conns : Others(d) /\ UNCHANGED <<exposed, faults>>
      BY <1>5, OutsideSteps
  <2>2. ASSUME NEW d \in Conns
        PROVE  inbox'[d] = inbox[d] \/ inbox'[d] = << >>
    <3>1. CASE KickOthers(c)
      <4>1. /\ inbox' = [inbox EXCEPT ![c] = IF sess[c].open THEN Tail(inbox[c]) ELSE << >>]
            /\ inbox[c] # << >>
          BY <3>1, Zenon DEF KickOthers, Asked
      <4>2. inbox[c] = <<sess[c].masked>>
          BY <1>1, <4>1 DEF Waits
      <4>3. Tail(inbox[c]) = << >>
          BY <4>2
      <4> QED BY <1>1, <4>1, <4>3
    <3>2. CASE ~KickOthers(c)
      <4>1. inbox' = inbox
          BY <1>5, <3>2, Zenon DEF Outside, ReaderEnds, Teardown, Admit
      <4> QED BY <4>1
    <3> QED BY <3>1, <3>2
  <2>3. \A d \in Conns : inbox'[d] # << >> => inbox'[d] = inbox[d]
      BY <2>2
  <2>4. ASSUME NEW d \in Conns, inbox'[d] # << >>
        PROVE  /\ sess'[d].stage = sess[d].stage /\ sess'[d].masked = sess[d].masked
               /\ sess'[d].step = sess[d].step
    <3>1. sess[d].stage = "idle" /\ sess[d] \in Sessions /\ inbox[d] # << >>
        BY <1>1, <2>3, <2>4 DEF Waits
    <3>2. \/ sess'[d] = sess[d]
          \/ sess'[d] = [sess[d] EXCEPT !.open = FALSE]
          \/ sess'[d] = [sess[d] EXCEPT !.live = FALSE]
      <4>1. CASE Teardown(c)
        <5>1. inbox[c] = << >> /\ sess' = [sess EXCEPT ![c] = Ended]
            BY <4>1, Zenon DEF Teardown, Ended
        <5>2. d # c
            BY <3>1, <5>1
        <5> QED BY <1>1, <5>1, <5>2
      <4>2. CASE ReaderEnds(c)
        <5>1. sess' = [sess EXCEPT ![c] = [sess[c] EXCEPT !.live = FALSE]]
            BY <4>2, Zenon DEF ReaderEnds
        <5> QED BY <1>1, <5>1
      <4>3. CASE Admit(c)
        <5>1. sess[c].stage = "admit"
            BY <4>3, Zenon DEF Admit
        <5>2. d # c
            BY <3>1, <5>1
        <5>3. sess' = [e \in Conns |->
                   IF e = c THEN Greeted(sess[c])
                   ELSE IF e = bound[sess[c].name] THEN [sess[e] EXCEPT !.open = FALSE] ELSE sess[e]]
            BY <4>3, Zenon DEF Admit, Greeted
        <5> QED BY <5>2, <5>3
      <4>4. CASE KickOthers(c)
        <5>1. \E peers : sess' = [e \in Conns |-> IF e \in peers THEN [sess[e] EXCEPT !.open = FALSE] ELSE sess[e]]
            BY <4>4, Zenon DEF KickOthers
        <5> QED BY <5>1
      <4> QED BY <1>5, <4>1, <4>2, <4>3, <4>4 DEF Outside
    <3> QED BY <3>1, <3>2 DEF Sessions
  <2>5. \A d \in Conns : Waits(d)'
      BY <1>1, <2>1, <2>3, <2>4 DEF Waits
  <2> QED BY <1>1, <2>1, <2>5 DEF PasswordsStayPrivate
<1>6. ASSUME NEW a \in Accounts, LockExpires(a)
      PROVE  PasswordsStayPrivate' /\ \A d \in Conns : Waits(d)'
  <2>1. UNCHANGED <<sess, inbox, exposed, faults>>
      BY <1>6, Zenon DEF LockExpires
  <2> QED BY <1>1, <2>1 DEF PasswordsStayPrivate, Waits
<1>7. ASSUME UNCHANGED vars
      PROVE  PasswordsStayPrivate' /\ \A d \in Conns : Waits(d)'
    BY <1>1, <1>7 DEF vars, PasswordsStayPrivate, Waits
<1>8. PasswordsStayPrivate' /\ \A d \in Conns : Waits(d)'
    BY <1>3, <1>4, <1>5, <1>6, <1>7, Zenon
    DEF Next, LoginStep, CreateStep, MenuStep, DeleteStep, AccountStep, LoginTurn, MenuTurn,
        GoingOn, Outside
<1> QED BY <1>2, <1>8 DEF PrivateInv

\* PasswordsKept, for any number of connections: a client that waits for its
\* prompts never has a password logged or kept in the history unless a
\* statement fails (handleLineBreak in telnet/server.go, the modes' masks).
THEOREM PasswordsAlwaysKept == ASSUME ~TypesAhead PROVE Spec => []PasswordsKept
<1>1. SignInInv /\ SignInInv' /\ PrivateInv /\ [Next]_vars => PrivateInv'
    BY PrivateStep
<1>2. PrivateInv => PasswordsStayPrivate
    BY DEF PrivateInv
<1>3. FlowsEndClean /\ PasswordsStayPrivate => PasswordsKept
    BY DEF PasswordsKept
<1> QED BY <1>1, <1>2, <1>3, PrivateInit, SignInHolds, FlowsAlwaysEndClean, PTL DEF Spec

-----------------------------------------------------------------------------
(* The lockout.                                                            *)

LEMMA UnlockingCount ==
    \A a : Cardinality(Unlocking(a)) \in Nat /\ Cardinality(Unlocking(a)) <= Cardinality(Conns)
<1>1. \A a : Unlocking(a) \subseteq Conns
    BY DEF Unlocking
<1> QED BY <1>1, AccountsConstants, FS_Subset, FS_CardinalityType

LEMMA ConnsCount == Cardinality(Conns) \in Nat
BY AccountsConstants, FS_CardinalityType

LEMMA UnlockingPrimed ==
    \A a : Cardinality(Unlocking(a)') \in Nat /\ Cardinality(Unlocking(a)') <= Cardinality(Conns)
<1>1. \A a : Unlocking(a)' \subseteq Conns
    BY DEF Unlocking
<1> QED BY <1>1, AccountsConstants, FS_Subset, FS_CardinalityType

\* No row changes and no attempt begins.
LEMMA LockoutShrinks ==
    ASSUME SignInInv, LockoutInv, UNCHANGED <<failed, lock>>,
           \A a \in Accounts : Unlocking(a)' \subseteq Unlocking(a)
    PROVE  LockoutInv'
<1> SUFFICES ASSUME NEW a \in Accounts, lock'[a] = "never"
             PROVE  failed'[a] + Cardinality(Unlocking(a)') <= Threshold - 2 + Cardinality(Conns)
    BY DEF LockoutInv
<1>1. failed[a] + Cardinality(Unlocking(a)) <= Threshold - 2 + Cardinality(Conns)
    BY DEF LockoutInv
<1>2. IsFiniteSet(Unlocking(a))
  <2>1. Unlocking(a) \subseteq Conns
      BY DEF Unlocking
  <2> QED BY <2>1, AccountsConstants, FS_Subset
<1>3. Cardinality(Unlocking(a)') <= Cardinality(Unlocking(a))
    BY <1>2, FS_Subset
<1>4. failed[a] \in Nat /\ Threshold \in Nat
    BY AccountsConstants DEF SignInInv, RowTypes
<1> QED BY <1>1, <1>3, <1>4, UnlockingCount, UnlockingPrimed, ConnsCount

\* A turn that does not end in a comparison begins no attempt.
LEMMA UnlockingShrinks ==
    ASSUME SignInInv, NEW c \in Conns, NEW t \in Sessions, Turn(c, t), HasLine(c),
           t.stage # "judge", NEW a \in Accounts
    PROVE  Unlocking(a)' \subseteq Unlocking(a) \ {c}
<1>1. sess'[c] = t /\ \A d \in Conns \ {c} : sess'[d] = sess[d]
    BY TurnTypes
<1> QED BY <1>1 DEF Unlocking, LastTry

LEMMA LockoutInit == Init => LockoutInv
<1> SUFFICES ASSUME Init, NEW a \in Accounts
             PROVE  failed[a] + Cardinality(Unlocking(a)) <= Threshold - 2 + Cardinality(Conns)
    BY DEF LockoutInv
<1>1. failed[a] = 0
    BY DEF Init
<1> QED BY <1>1, UnlockingCount, ConnsCount, AccountsConstants

\* The only turns that change a count or a lock.
Counting(c) == WrongPassword(c) \/ RightPassword(c)

LEMMA OthersKeepLocks ==
    ASSUME NEW c \in Conns, LoginTurn(c) \/ MenuTurn(c) \/ StartDelete(c) \/ DeleteItem(c),
           ~Counting(c)
    PROVE  UNCHANGED <<failed, lock>>
<1>1. CASE QuietTurn(c)
    BY <1>1, QuietTurns DEF KeepsRows, rows
<1>2. CASE CreateConfirm(c)
    BY <1>2, Zenon DEF CreateConfirm
<1>3. CASE FinishChargen(c)
  <2>1. rows' = rows
      BY <1>3, Zenon DEF FinishChargen
  <2> QED BY <2>1 DEF rows
<1>4. CASE Handle(c)
  <2>1. rows' = rows
      BY <1>4, Zenon DEF Handle
  <2> QED BY <2>1 DEF rows
<1>5. CASE DeleteItem(c)
  <2>1. rows' = rows
      BY <1>5, Zenon DEF DeleteItem
  <2> QED BY <2>1 DEF rows
<1>6. CASE DeleteRow(c)
  <2>1. rows' = rows
      BY <1>6, Zenon DEF DeleteRow
  <2> QED BY <2>1 DEF rows
<1>7. CASE ConfirmNewPassword(c)
    BY <1>7, Zenon DEF ConfirmNewPassword
<1>8. CASE EditSetting(c)
    BY <1>8, Zenon DEF EditSetting
<1> QED BY <1>1, <1>2, <1>3, <1>4, <1>5, <1>6, <1>7, <1>8, Zenon
        DEF Counting, LoginTurn, CreateStep, MenuTurn, MenuStep, QuietTurn

LEMMA LockoutStep == ASSUME SignInInv, LockoutInv, [Next]_vars PROVE LockoutInv'
<1>1. /\ sess \in [Conns -> Sessions] /\ failed \in [Accounts -> Nat] /\ Threshold \in Nat
      /\ Threshold >= 2 /\ lock \in [Accounts -> {"never", "locked", "expired"}]
      /\ \A c \in Conns : Clean(sess[c])
    BY AccountsConstants DEF SignInInv, RowTypes
<1>2. ASSUME NEW c \in Conns, LoginTurn(c) \/ MenuTurn(c) \/ StartDelete(c) \/ DeleteItem(c),
             ~Counting(c)
      PROVE  LockoutInv'
  <2>1. \E t \in Sessions : HasLine(c) /\ Turn(c, t) /\ t.stage # "judge"
    <3>1. RowTypes /\ Clean(sess[c]) /\ Covered(sess[c], faults)
        BY DEF SignInInv
    <3>2. PlainTurn(c) => \E t \in Sessions : HasLine(c) /\ Turn(c, t) /\ t.stage # "judge"
        BY DEF PlainTurn, Plain
    <3>3. CASE LoginTurn(c) \/ MenuTurn(c)
        BY <3>2, <3>3, LoginTurns, MenuTurns
    <3>4. CASE StartDelete(c)
      <4>1. Begun(sess[c]) \in Sessions /\ Begun(sess[c]).stage # "judge"
        <5>1. sess[c] \in Sessions
            BY <1>1
        <5>2. \A items \in SUBSET Items :
                 LET t == [sess[c] EXCEPT !.owned = items, !.stage = "cascade"]
                 IN  t \in Sessions /\ t.stage # "judge"
            BY <5>1 DEF Sessions, Stages
        <5>3. {i \in Items : holder[i] = sess[c].doomed} \in SUBSET Items
            OBVIOUS
        <5> QED BY <5>2, <5>3, Zenon DEF Begun
      <4> QED BY <3>1, <3>2, <3>4, <4>1, StartDeleteTurns, Zenon
    <3>5. CASE DeleteItem(c)
      <4>1. \A i : Rest(sess[c], i) \in Sessions /\ Rest(sess[c], i).stage = sess[c].stage
        <5>1. sess[c] \in Sessions
            BY <1>1
        <5> QED BY <5>1 DEF Rest, Sessions
      <4>2. sess[c].stage = "cascade"
          BY <3>5, Zenon DEF DeleteItem
      <4>3. \A i : Rest(sess[c], i).stage # "judge"
          BY <4>1, <4>2
      <4> QED BY <3>1, <3>2, <3>5, <4>1, <4>3, DeleteItemTurns, Zenon
    <3> QED BY <1>2, <3>3, <3>4, <3>5
  <2>2. \A a \in Accounts : Unlocking(a)' \subseteq Unlocking(a)
      BY <2>1, UnlockingShrinks
  <2> QED BY <1>2, <2>2, OthersKeepLocks, LockoutShrinks
<1>3. ASSUME NEW c \in Conns, CheckRow(c)
      PROVE  LockoutInv'
  <2>1. UNCHANGED <<failed, lock>>
      BY <1>3, QuietTurns DEF QuietTurn, KeepsRows, rows
  <2>2. RowTypes /\ Clean(sess[c]) /\ Covered(sess[c], faults)
      BY DEF SignInInv
  <2>3. CASE PlainTurn(c)
    <3>1. \E t \in Sessions : HasLine(c) /\ Turn(c, t) /\ t.stage # "judge"
        BY <2>3 DEF PlainTurn, Plain
    <3>2. \A a \in Accounts : Unlocking(a)' \subseteq Unlocking(a)
        BY <3>1, UnlockingShrinks
    <3> QED BY <2>1, <3>2, LockoutShrinks
  <2>4. CASE HasLine(c) /\ sess[c].name # None /\ Turn(c, Judged(sess[c])) /\ Judged(sess[c]) \in Sessions
    <3>1. sess'[c] = Judged(sess[c]) /\ \A d \in Conns \ {c} : sess'[d] = sess[d]
        BY <2>4, TurnTypes
    <3>2. sess'[c].name = sess[c].name /\ sess'[c].seen = failed[sess[c].name]
        BY <1>1, <3>1 DEF Judged, Sessions
    <3> SUFFICES ASSUME NEW a \in Accounts, lock'[a] = "never"
                 PROVE  failed'[a] + Cardinality(Unlocking(a)') <= Threshold - 2 + Cardinality(Conns)
        BY DEF LockoutInv
    <3>3. CASE c \in Unlocking(a)'
      <4>1. sess[c].name = a /\ ~(failed[a] + 1 >= Threshold)
          BY <3>2, <3>3 DEF Unlocking, LastTry
      <4>2. failed[a] <= Threshold - 2
          BY <1>1, <4>1
      <4> QED BY <1>1, <2>1, <4>2, UnlockingPrimed, ConnsCount
    <3>4. CASE c \notin Unlocking(a)'
      <4>1. Unlocking(a)' \subseteq Unlocking(a)
          BY <3>1, <3>4 DEF Unlocking, LastTry
      <4>2. Unlocking(a) \subseteq Conns
          BY DEF Unlocking
      <4>3. Cardinality(Unlocking(a)') <= Cardinality(Unlocking(a))
          BY <4>1, <4>2, AccountsConstants, FS_Subset
      <4>4. failed[a] + Cardinality(Unlocking(a)) <= Threshold - 2 + Cardinality(Conns)
          BY <2>1 DEF LockoutInv
      <4> QED BY <1>1, <2>1, <4>3, <4>4, UnlockingPrimed, UnlockingCount, ConnsCount
    <3> QED BY <3>3, <3>4
  <2>5. \A t : Fine(t, sess[c], faults') => t \in Sessions
      BY DEF Fine, Clean
  <2> QED BY <1>3, <2>2, <2>3, <2>4, <2>5, CheckRowTurns
<1>4. ASSUME NEW c \in Conns, WrongPassword(c)
      PROVE  LockoutInv'
  <2>1. sess[c].stage = "judge" /\ sess[c].name \in Accounts
    <3>1. sess[c].stage = "judge"
        BY <1>4, Zenon DEF WrongPassword
    <3> QED BY <1>1, <3>1 DEF Clean, Sessions
  <2>2. PICK t \in Sessions : HasLine(c) /\ Turn(c, t) /\ t.stage # "judge"
      BY <1>4, LoginTurns DEF LoginTurn, PlainTurn, Plain
  <2>3. \A a \in Accounts : Unlocking(a)' \subseteq Unlocking(a) \ {c}
      BY <2>2, UnlockingShrinks
  <2>4. CASE UNCHANGED <<failed, lock>>
      BY <2>3, <2>4, LockoutShrinks
  <2> DEFINE b == sess[c].name
  <2>5. CASE /\ failed' = [failed EXCEPT ![b] = @ + 1]
             /\ lock' = IF LastTry(sess[c].seen) THEN [lock EXCEPT ![b] = "locked"] ELSE lock
    <3> SUFFICES ASSUME NEW a \in Accounts, lock'[a] = "never"
                 PROVE  failed'[a] + Cardinality(Unlocking(a)') <= Threshold - 2 + Cardinality(Conns)
        BY DEF LockoutInv
    <3>1. lock[a] = "never"
        BY <1>1, <2>5
    <3>2. failed[a] + Cardinality(Unlocking(a)) <= Threshold - 2 + Cardinality(Conns)
        BY <3>1 DEF LockoutInv
    <3>3. IsFiniteSet(Unlocking(a)) /\ Unlocking(a) \subseteq Conns
      <4>1. Unlocking(a) \subseteq Conns
          BY DEF Unlocking
      <4> QED BY <4>1, AccountsConstants, FS_Subset
    <3>4. CASE a = b
      <4>1. ~LastTry(sess[c].seen)
          BY <1>1, <2>1, <2>5, <3>4
      <4>2. c \in Unlocking(a)
          BY <2>1, <3>4, <4>1 DEF Unlocking
      <4>3. Cardinality(Unlocking(a) \ {c}) = Cardinality(Unlocking(a)) - 1
          BY <3>3, <4>2, FS_RemoveElement
      <4>4. IsFiniteSet(Unlocking(a) \ {c})
          BY <3>3, FS_Subset
      <4>5. Cardinality(Unlocking(a)') <= Cardinality(Unlocking(a) \ {c})
          BY <2>3, <4>4, FS_Subset
      <4>6. failed'[a] = failed[a] + 1
          BY <1>1, <2>1, <2>5, <3>4
      <4> QED BY <1>1, <3>2, <4>3, <4>5, <4>6, UnlockingCount, UnlockingPrimed, ConnsCount
    <3>5. CASE a # b
      <4>1. failed'[a] = failed[a]
          BY <1>1, <2>5, <3>5
      <4>2. Cardinality(Unlocking(a)') <= Cardinality(Unlocking(a))
          BY <2>3, <3>3, FS_Subset
      <4> QED BY <1>1, <3>2, <4>1, <4>2, UnlockingCount, UnlockingPrimed, ConnsCount
    <3> QED BY <3>4, <3>5
  <2> QED BY <1>4, <2>4, <2>5, Zenon DEF WrongPassword
<1>5. ASSUME NEW c \in Conns, RightPassword(c)
      PROVE  LockoutInv'
  <2>1. PICK t \in Sessions : HasLine(c) /\ Turn(c, t) /\ t.stage # "judge"
      BY <1>5, LoginTurns DEF LoginTurn, PlainTurn, Plain
  <2>2. \A a \in Accounts : Unlocking(a)' \subseteq Unlocking(a)
      BY <2>1, UnlockingShrinks
  <2>3. CASE UNCHANGED <<failed, lock>>
      BY <2>2, <2>3, LockoutShrinks
  <2>4. CASE failed' = [failed EXCEPT ![sess[c].name] = 0] /\ lock' = [lock EXCEPT ![sess[c].name] = "never"]
    <3> SUFFICES ASSUME NEW a \in Accounts, lock'[a] = "never"
                 PROVE  failed'[a] + Cardinality(Unlocking(a)') <= Threshold - 2 + Cardinality(Conns)
        BY DEF LockoutInv
    <3>1. CASE a = sess[c].name
      <4>1. failed'[a] = 0
          BY <1>1, <2>4, <3>1
      <4> QED BY <1>1, <4>1, UnlockingPrimed, ConnsCount
    <3>2. CASE a # sess[c].name
      <4>1. failed'[a] = failed[a] /\ lock[a] = "never"
          BY <1>1, <2>4, <3>2
      <4>2. Unlocking(a) \subseteq Conns
          BY DEF Unlocking
      <4>3. Cardinality(Unlocking(a)') <= Cardinality(Unlocking(a))
          BY <2>2, <4>2, AccountsConstants, FS_Subset
      <4>4. failed[a] + Cardinality(Unlocking(a)) <= Threshold - 2 + Cardinality(Conns)
          BY <4>1 DEF LockoutInv
      <4> QED BY <1>1, <4>1, <4>3, <4>4, UnlockingPrimed, UnlockingCount, ConnsCount
    <3> QED BY <3>1, <3>2
  <2> QED BY <1>5, <2>3, <2>4, Zenon DEF RightPassword
<1>6. ASSUME NEW c \in Conns, Outside(c)
      PROVE  LockoutInv'
  <2>1. UNCHANGED rows /\ \A d \in Conns : Others(d)
      BY <1>6, OutsideSteps
  <2>2. ASSUME NEW d \in Conns, sess'[d].stage = "judge"
        PROVE  /\ sess[d].stage = "judge" /\ sess'[d].name = sess[d].name
               /\ sess'[d].seen = sess[d].seen
    <3>1. sess[d] \in Sessions
        BY <1>1
    <3>2. sess'[d] # Ended
        BY <2>2 DEF Ended, Fresh
    <3>3. sess[d].stage # "admit" \/ sess'[d] # Greeted(sess[d])
        BY <2>2, <3>1 DEF Greeted, Sessions
    <3> QED BY <2>1, <2>2, <3>1, <3>2, <3>3 DEF Others, Sessions
  <2>3. \A a \in Accounts : Unlocking(a)' \subseteq Unlocking(a)
      BY <2>2 DEF Unlocking, LastTry
  <2>4. UNCHANGED <<failed, lock>>
      BY <2>1 DEF rows
  <2> QED BY <2>3, <2>4, LockoutShrinks
<1>7. ASSUME NEW b \in Accounts, LockExpires(b)
      PROVE  LockoutInv'
  <2>1. lock' = [lock EXCEPT ![b] = "expired"] /\ UNCHANGED <<failed, sess>>
      BY <1>7, Zenon DEF LockExpires
  <2>2. \A a \in Accounts : lock'[a] = "never" => lock[a] = "never"
      BY <1>1, <2>1
  <2>3. \A a : Unlocking(a)' = Unlocking(a)
      BY <2>1 DEF Unlocking, LastTry
  <2> QED BY <2>1, <2>2, <2>3 DEF LockoutInv
<1>8. CASE UNCHANGED vars
  <2>1. UNCHANGED <<failed, lock, sess>>
      BY <1>8 DEF vars, rows
  <2>2. \A a : Unlocking(a)' = Unlocking(a)
      BY <2>1 DEF Unlocking, LastTry
  <2> QED BY <2>1, <2>2 DEF LockoutInv
<1> QED BY <1>2, <1>3, <1>4, <1>5, <1>6, <1>7, <1>8, Zenon
        DEF Next, LoginStep, CreateStep, MenuStep, DeleteStep, AccountStep, LoginTurn, MenuTurn,
            Counting, Outside

\* LockoutBinds, for any number of accounts, connections and any threshold:
\* connections that compare at the same time overshoot the threshold by no
\* more than their number (handlePassword in login.go, RecordLoginFailure in
\* account_sqlite.go).
THEOREM LockoutAlwaysBinds == Spec => []LockoutBinds
<1>1. SignInInv /\ LockoutInv => LockoutBinds
  <2> SUFFICES ASSUME SignInInv, LockoutInv, NEW a \in Accounts, lock[a] = "never"
               PROVE  failed[a] <= Threshold - 2 + Cardinality(Conns)
      BY DEF LockoutBinds
  <2>1. failed[a] + Cardinality(Unlocking(a)) <= Threshold - 2 + Cardinality(Conns)
      BY DEF LockoutInv
  <2>2. failed[a] \in Nat
      BY AccountsConstants DEF SignInInv, RowTypes
  <2> QED BY <2>1, <2>2, UnlockingCount, ConnsCount, AccountsConstants
<1>2. SignInInv /\ LockoutInv /\ [Next]_vars => LockoutInv'
    BY LockoutStep
<1> QED BY <1>1, <1>2, LockoutInit, SignInHolds, PTL DEF Spec

-----------------------------------------------------------------------------
(* The cascade.                                                            *)

LEMMA CascadeInit == Init => CascadeInv
<1> SUFFICES ASSUME Init PROVE CascadeInv
    OBVIOUS
<1>1. owner \in [Chars -> Accounts \cup {None}] /\ \A c \in Conns : sess[c].stage = "idle"
    BY DEF Init, Fresh
<1>2. \A k \in Chars : owner[k] # "deleted"
    BY <1>1, AccountsConstants
<1> QED BY <1>1, <1>2 DEF CascadeInv, CascadeIsWhole, Orphaned, Listed

\* Nothing changes hands, and no cascade begins.
LEMMA CascadeStays ==
    ASSUME CascadeInv, UNCHANGED things,
           \A d \in Conns : sess'[d].stage = "cascade" =>
                               /\ sess[d].stage = "cascade"
                               /\ sess'[d].doomed = sess[d].doomed /\ sess'[d].owned = sess[d].owned
    PROVE  CascadeInv'
<1>1. CascadeIsWhole'
    BY DEF CascadeInv, CascadeIsWhole, Orphaned, things
<1>2. ASSUME NEW d \in Conns PROVE Listed(d)'
    BY DEF CascadeInv, Listed, things
<1> QED BY <1>1, <1>2 DEF CascadeInv

\* The turns that change what is held, or by whom.
Handing(c) == FinishChargen(c) \/ Handle(c) \/ StartDelete(c) \/ DeleteItem(c) \/ DeleteRow(c)

LEMMA OthersKeepThings ==
    ASSUME NEW c \in Conns, LoginTurn(c) \/ MenuTurn(c) \/ CheckRow(c), ~Handing(c)
    PROVE  UNCHANGED things
<1>1. CASE QuietTurn(c)
    BY <1>1, QuietTurns DEF KeepsRows
<1>2. CASE WrongPassword(c)
    BY <1>2, Zenon DEF WrongPassword
<1>3. CASE RightPassword(c)
    BY <1>3, Zenon DEF RightPassword
<1>4. CASE CreateConfirm(c)
    BY <1>4, Zenon DEF CreateConfirm
<1>5. CASE ConfirmNewPassword(c)
    BY <1>5, Zenon DEF ConfirmNewPassword
<1>6. CASE EditSetting(c)
    BY <1>6, Zenon DEF EditSetting
<1> QED BY <1>1, <1>2, <1>3, <1>4, <1>5, <1>6, Zenon
        DEF Handing, LoginTurn, CreateStep, MenuTurn, MenuStep, QuietTurn

LEMMA CascadeStep == ASSUME SignInInv, CascadeInv, [Next]_vars PROVE CascadeInv'
<1>1. /\ sess \in [Conns -> Sessions] /\ owner \in [Chars -> Accounts \cup {None, "deleted"}]
      /\ holder \in [Items -> Chars \cup {"room", "gone"}] /\ late \in SUBSET Items
      /\ \A c \in Conns : Clean(sess[c])
    BY DEF SignInInv, RowTypes
<1>2. {"room", "gone"} \cap Chars = {} /\ "deleted" \notin Accounts \cup {None} /\ None \notin Chars
    BY AccountsConstants
<1>3. \A c \in Conns : sess[c].stage = "cascade" => sess[c].doomed \in Chars
    BY <1>1 DEF Clean, Sessions
<1>4. ASSUME NEW c \in Conns, LoginTurn(c) \/ MenuTurn(c) \/ CheckRow(c), ~Handing(c)
      PROVE  CascadeInv'
  <2>1. UNCHANGED things
      BY <1>4, OthersKeepThings
  <2>2. \E t \in Sessions : HasLine(c) /\ Turn(c, t) /\ t.stage # "cascade"
    <3>1. PlainTurn(c) => \E t \in Sessions : HasLine(c) /\ Turn(c, t) /\ t.stage # "cascade"
        BY DEF PlainTurn, Plain
    <3>2. CASE CheckRow(c)
      <4>1. RowTypes /\ Clean(sess[c]) /\ Covered(sess[c], faults)
          BY DEF SignInInv
      <4>2. Judged(sess[c]).stage = "judge"
          BY <4>1 DEF Clean, Judged, Sessions
      <4>3. \A t : Fine(t, sess[c], faults') => t \in Sessions
          BY DEF Fine, Clean
      <4>4. Judged(sess[c]).stage # "cascade"
          BY <4>2
      <4> QED BY <3>1, <3>2, <4>1, <4>3, <4>4, CheckRowTurns, Zenon
    <3> QED BY <1>4, <3>1, <3>2, LoginTurns, MenuTurns
  <2>3. sess'[c].stage # "cascade" /\ \A d \in Conns \ {c} : sess'[d] = sess[d]
      BY <2>2, TurnTypes
  <2> QED BY <2>1, <2>3, CascadeStays
<1>5. ASSUME NEW c \in Conns, StartDelete(c)
      PROVE  CascadeInv'
  <2>1. UNCHANGED things
      BY <1>5, QuietTurns DEF QuietTurn, KeepsRows
  <2>2. RowTypes /\ Clean(sess[c]) /\ Covered(sess[c], faults)
      BY DEF SignInInv
  <2>3. CASE PlainTurn(c)
    <3>1. \E t \in Sessions : HasLine(c) /\ Turn(c, t) /\ t.stage # "cascade"
        BY <2>3 DEF PlainTurn, Plain
    <3>2. sess'[c].stage # "cascade" /\ \A d \in Conns \ {c} : sess'[d] = sess[d]
        BY <3>1, TurnTypes
    <3> QED BY <2>1, <3>2, CascadeStays
  <2>4. CASE HasLine(c) /\ Turn(c, Begun(sess[c])) /\ Begun(sess[c]) \in Sessions
    <3>1. sess'[c] = Begun(sess[c]) /\ \A d \in Conns \ {c} : sess'[d] = sess[d]
        BY <2>4, TurnTypes
    <3>2. sess'[c].doomed = sess[c].doomed /\ sess'[c].owned = {i \in Items : holder[i] = sess[c].doomed}
        BY <1>1, <3>1 DEF Begun, Sessions
    <3>3. ASSUME NEW d \in Conns PROVE Listed(d)'
      <4>1. CASE d = c
          BY <2>1, <3>2, <4>1 DEF Listed, things
      <4>2. CASE d # c
          BY <2>1, <3>1, <4>2 DEF CascadeInv, Listed, things
      <4> QED BY <4>1, <4>2
    <3> QED BY <2>1, <3>3 DEF CascadeInv, CascadeIsWhole, Orphaned, things
  <2>5. \A t : Fine(t, sess[c], faults') => t \in Sessions
      BY DEF Fine, Clean
  <2> QED BY <1>5, <2>2, <2>3, <2>4, <2>5, StartDeleteTurns
<1>6. ASSUME NEW c \in Conns, DeleteItem(c)
      PROVE  CascadeInv'
  <2>1. sess[c].stage = "cascade" /\ owner' = owner
      BY <1>6, Zenon DEF DeleteItem
  <2>2. RowTypes /\ Clean(sess[c]) /\ Covered(sess[c], faults)
      BY DEF SignInInv
  <2>3. CASE holder' = holder /\ late' = late /\ Turn(c, AtRoot(Doomless(sess[c])))
    <3>1. AtRoot(Doomless(sess[c])) \in Sessions /\ AtRoot(Doomless(sess[c])).stage # "cascade"
      <4>1. sess[c] \in Sessions
          BY <1>1
      <4>2. [sess[c] EXCEPT !.doomed = None, !.owned = {}] \in Sessions
          BY <4>1 DEF Sessions
      <4>3. ASSUME NEW s \in Sessions
            PROVE  AtRoot(s) \in Sessions /\ AtRoot(s).stage = "idle"
        <5>1. [s EXCEPT !.step = "root", !.stage = "idle"] \in Sessions
            BY DEF Sessions, Steps, MenuSteps, Stages
        <5>2. [s EXCEPT !.step = "root", !.stage = "idle"].stage = "idle"
            BY DEF Sessions
        <5> QED BY <5>1, <5>2, Zenon DEF AtRoot
      <4>4. Doomless(sess[c]) \in Sessions
          BY <4>2, Zenon DEF Doomless
      <4> QED BY <4>3, <4>4
    <3>2. HasLine(c)
        BY <2>1 DEF HasLine
    <3>3. sess'[c].stage # "cascade" /\ \A d \in Conns \ {c} : sess'[d] = sess[d]
        BY <2>3, <3>1, <3>2, TurnTypes
    <3>4. UNCHANGED things
        BY <2>1, <2>3 DEF things
    <3> QED BY <3>3, <3>4, CascadeStays
  <2>4. ASSUME NEW i \in sess[c].owned, holder' = [holder EXCEPT ![i] = "gone"],
               late' = late \ {i}, Turn(c, Rest(sess[c], i))
        PROVE  CascadeInv'
    <3>1. Rest(sess[c], i) \in Sessions
      <4>1. sess[c] \in Sessions
          BY <1>1
      <4> QED BY <4>1 DEF Rest, Sessions
    <3>2. HasLine(c) /\ i \in Items
        BY <1>1, <2>1 DEF HasLine, Sessions
    <3>3. sess'[c] = Rest(sess[c], i) /\ \A d \in Conns \ {c} : sess'[d] = sess[d]
        BY <2>4, <3>1, <3>2, TurnTypes
    <3>4. /\ sess'[c].stage = sess[c].stage /\ sess'[c].doomed = sess[c].doomed
          /\ sess'[c].owned = sess[c].owned \ {i}
        BY <1>1, <3>3 DEF Rest, Sessions
    <3>5. \A j \in Items : holder'[j] \in Chars => j # i /\ holder'[j] = holder[j]
        BY <1>1, <1>2, <2>4, <3>2
    <3>6. ASSUME NEW d \in Conns PROVE Listed(d)'
      <4>1. \A j \in Items : sess[d].stage = "cascade" /\ holder[j] = sess[d].doomed =>
                                j \in sess[d].owned \cup late
          BY DEF CascadeInv, Listed
      <4>2. sess'[d].stage = "cascade" => sess'[d].doomed \in Chars
          BY <1>3, <3>3, <3>4
      <4>3. CASE d = c
          BY <2>4, <3>4, <3>5, <4>1, <4>2, <4>3 DEF Listed
      <4>4. CASE d # c
          BY <2>4, <3>3, <3>5, <4>1, <4>2, <4>4 DEF Listed
      <4> QED BY <4>3, <4>4
    <3>7. CascadeIsWhole'
        BY <2>1, <2>4, <3>5 DEF CascadeInv, CascadeIsWhole, Orphaned
    <3> QED BY <3>6, <3>7 DEF CascadeInv
  <2> QED BY <1>6, <2>3, <2>4, Zenon DEF DeleteItem, Rest
<1>7. ASSUME NEW c \in Conns, DeleteRow(c)
      PROVE  CascadeInv'
  <2>1. sess[c].stage = "cascade" /\ sess[c].owned = {} /\ holder' = holder /\ late' = late
      BY <1>7, Zenon DEF DeleteRow
  <2>2. \E t \in Sessions : HasLine(c) /\ Turn(c, t) /\ t.stage # "cascade"
      BY <1>7, MenuTurns DEF MenuTurn, PlainTurn, Plain
  <2>3. sess'[c].stage # "cascade" /\ \A d \in Conns \ {c} : sess'[d] = sess[d]
      BY <2>2, TurnTypes
  <2>4. owner' = owner \/ owner' = [owner EXCEPT ![sess[c].doomed] = "deleted"]
      BY <1>7, Zenon DEF DeleteRow
  <2>5. \A i \in Items : holder[i] = sess[c].doomed => i \in late
      BY <2>1 DEF CascadeInv, Listed
  <2>6. CascadeIsWhole'
      BY <1>1, <2>1, <2>4, <2>5 DEF CascadeInv, CascadeIsWhole, Orphaned
  <2>7. ASSUME NEW d \in Conns PROVE Listed(d)'
      BY <2>1, <2>3 DEF CascadeInv, Listed
  <2> QED BY <2>6, <2>7 DEF CascadeInv
<1>8. ASSUME NEW c \in Conns, Handle(c)
      PROVE  CascadeInv'
  <2>1. owner' = owner
      BY <1>8, Zenon DEF Handle
  <2>2. \E t \in Sessions : HasLine(c) /\ Turn(c, t) /\ t.stage # "cascade"
      BY <1>8, MenuTurns DEF MenuTurn, MenuStep, PlainTurn, Plain
  <2>3. sess'[c].stage # "cascade" /\ \A d \in Conns \ {c} : sess'[d] = sess[d]
      BY <2>2, TurnTypes
  <2> DEFINE k == sess[c].playing
  <2>4. ASSUME NEW i \in Items, holder' = [holder EXCEPT ![i] = k],
               late' = IF owner[k] = "deleted" \/ \E d \in Conns : Deleting(d, k)
                       THEN late \cup {i} ELSE late
        PROVE  CascadeInv'
    <3>1. ASSUME NEW j \in Items, Orphaned(j)' PROVE j \in late'
      <4>1. CASE j = i
          BY <1>1, <2>1, <2>4, <3>1, <4>1 DEF Orphaned
      <4>2. CASE j # i
          BY <1>1, <2>1, <2>4, <3>1, <4>2 DEF Orphaned, CascadeInv, CascadeIsWhole
      <4> QED BY <4>1, <4>2
    <3>2. ASSUME NEW d \in Conns PROVE Listed(d)'
      <4>1. CASE d = c
          BY <2>3, <4>1 DEF Listed
      <4>2. CASE d # c
        <5>1. ASSUME NEW j \in Items, sess[d].stage = "cascade", holder'[j] = sess[d].doomed
              PROVE  j \in sess[d].owned \cup late'
          <6>1. CASE j = i
              BY <1>1, <2>4, <5>1, <6>1 DEF Deleting
          <6>2. CASE j # i
              BY <1>1, <2>4, <5>1, <6>2 DEF CascadeInv, Listed
          <6> QED BY <6>1, <6>2
        <5> QED BY <2>3, <4>2, <5>1 DEF Listed
      <4> QED BY <4>1, <4>2
    <3> QED BY <3>1, <3>2 DEF CascadeInv, CascadeIsWhole
  <2>5. ASSUME NEW i \in Items, holder' = [holder EXCEPT ![i] = "room"], late' = late \ {i}
        PROVE  CascadeInv'
    <3>1. \A j \in Items : holder'[j] \in Chars => j # i /\ holder'[j] = holder[j]
        BY <1>1, <1>2, <2>5
    <3>2. CascadeIsWhole'
        BY <2>1, <2>5, <3>1 DEF CascadeInv, CascadeIsWhole, Orphaned
    <3>3. ASSUME NEW d \in Conns PROVE Listed(d)'
      <4>1. CASE d = c
          BY <2>3, <4>1 DEF Listed
      <4>2. CASE d # c
          BY <1>3, <2>3, <2>5, <3>1, <4>2 DEF CascadeInv, Listed
      <4> QED BY <4>1, <4>2
    <3> QED BY <3>2, <3>3 DEF CascadeInv
  <2> QED BY <1>8, <2>4, <2>5, Zenon DEF Handle
<1>9. ASSUME NEW c \in Conns, FinishChargen(c)
      PROVE  CascadeInv'
  <2>1. holder' = holder /\ late' = late /\ \E k \in Chars : owner' = [owner EXCEPT ![k] = sess[c].account]
      BY <1>9, Zenon DEF FinishChargen
  <2>2. \E t \in Sessions : HasLine(c) /\ Turn(c, t) /\ t.stage # "cascade"
      BY <1>9, MenuTurns DEF MenuTurn, MenuStep, PlainTurn, Plain
  <2>3. sess'[c].stage # "cascade" /\ \A d \in Conns \ {c} : sess'[d] = sess[d]
      BY <2>2, TurnTypes
  <2>4. sess[c].account # "deleted"
      BY <1>1, <1>2 DEF Sessions
  <2>5. \A k \in Chars : owner'[k] = "deleted" => owner[k] = "deleted"
      BY <1>1, <2>1, <2>4
  <2>6. CascadeIsWhole'
      BY <2>1, <2>5 DEF CascadeInv, CascadeIsWhole, Orphaned
  <2>7. ASSUME NEW d \in Conns PROVE Listed(d)'
      BY <2>1, <2>3 DEF CascadeInv, Listed
  <2> QED BY <2>6, <2>7 DEF CascadeInv
<1>10. ASSUME NEW c \in Conns, Outside(c)
       PROVE  CascadeInv'
  <2>1. UNCHANGED things /\ \A d \in Conns : Others(d)
      BY <1>10, OutsideSteps
  <2>2. ASSUME NEW d \in Conns, sess'[d].stage = "cascade"
        PROVE  /\ sess[d].stage = "cascade" /\ sess'[d].doomed = sess[d].doomed
               /\ sess'[d].owned = sess[d].owned
    <3>1. sess[d] \in Sessions
        BY <1>1
    <3>2. sess'[d] # Ended
        BY <2>2 DEF Ended, Fresh
    <3>3. sess[d].stage # "admit" \/ sess'[d] # Greeted(sess[d])
        BY <2>2, <3>1 DEF Greeted, Sessions
    <3> QED BY <2>1, <2>2, <3>1, <3>2, <3>3 DEF Others, Sessions
  <2> QED BY <2>1, <2>2, CascadeStays
<1>11. ASSUME UNCHANGED <<things, sess>> PROVE CascadeInv'
    BY <1>11, CascadeStays
<1>12. ASSUME NEW b \in Accounts, LockExpires(b) PROVE CascadeInv'
  <2>1. UNCHANGED <<things, sess>>
      BY <1>12, Zenon DEF LockExpires
  <2> QED BY <1>11, <2>1
<1>13. CASE UNCHANGED vars
    BY <1>11, <1>13 DEF vars
<1> QED BY <1>4, <1>5, <1>6, <1>7, <1>8, <1>9, <1>10, <1>12, <1>13, Zenon
        DEF Next, LoginStep, CreateStep, MenuStep, DeleteStep, AccountStep, LoginTurn, MenuTurn,
            Handing, Outside

\* CascadeIsWhole, for any number of connections, characters and items: the
\* only items that outlive a deleted character are those it took up after
\* executeDelete had listed what it holds (account_menu_delete.go).
THEOREM CascadeAlwaysWhole == Spec => []CascadeIsWhole
<1>1. CascadeInv => CascadeIsWhole
    BY DEF CascadeInv
<1>2. SignInInv /\ CascadeInv /\ [Next]_vars => CascadeInv'
    BY CascadeStep
<1> QED BY <1>1, <1>2, CascadeInit, SignInHolds, PTL DEF Spec

-----------------------------------------------------------------------------
(* The display.                                                            *)

GmcpJobs == [val : Values, old : BOOLEAN]

Frames(stages) == [does : stages, sees : Values, crosses : BOOLEAN]
Plans(stage, sends) == [does : {stage}, sends : sends]

WorkerStates == {Idle} \cup Frames({"compare", "send"})

ReaderStates ==
    {Idle} \cup Plans("wire", BOOLEAN) \cup Plans("look", {TRUE}) \cup Frames({"note", "snapshot"})

GmcpTypes ==
    /\ kind \in {"vitals", "status", "room"}
    /\ enabled \in BOOLEAN /\ inWorld \in BOOLEAN /\ supports \in BOOLEAN
    /\ subscribed \in BOOLEAN /\ excused \in BOOLEAN
    /\ truth \in Values /\ untold \in {Nothing, truth} /\ behind \in SUBSET Values
    /\ events \in Seq(GmcpJobs)
    /\ worker \in WorkerStates /\ reader \in ReaderStates
    /\ last \in Values \cup {Nothing} /\ shown \in Values \cup {Nothing}
    /\ worker.does = "compare" => kind = "vitals"

\* The newest event says what is true, or has been overtaken.
NewestIsTrue ==
    kind = "room" /\ events # << >> /\ untold = Nothing =>
        LET newest == events[Len(events)] IN newest.old \/ newest.val = truth

\* Two frames under way know of each other.
FramesCross == Sending /\ Snapshotting => worker.crosses /\ reader.crosses

\* What was noted as sent last is what is under way or has arrived.
NotedIsSent ==
    kind = "vitals" =>
        /\ worker.does = "send" /\ ~worker.crosses => last = worker.sees
        /\ reader.does = "snapshot" /\ ~reader.crosses => last = reader.sees
        /\ ~excused /\ worker.does # "send" /\ reader.does # "snapshot" => last = shown

\* Something under way will put the display right, or excuse it, or it is right.
OnItsWay ==
    \/ untold # Nothing \/ events # << >> \/ WillSend
    \/ Snapshotting /\ (reader.crosses \/ reader.sees = truth)
    \/ Sending /\ worker.does = "send" /\ worker.crosses
    \/ Sending /\ ~worker.crosses /\ worker.sees = truth
    \/ ~Sending /\ ~Snapshotting /\ shown = truth

GmcpInv ==
    /\ GmcpTypes /\ NewestIsTrue /\ FramesCross /\ NotedIsSent
    /\ ~excused => enabled /\ OnItsWay

LEMMA FrameFields ==
    ASSUME NEW stages, NEW f \in Frames(stages)
    PROVE  /\ f.does \in stages /\ f.sees \in Values /\ f.crosses \in BOOLEAN
           /\ \A d \in stages : [f EXCEPT !.does = d] \in Frames(stages)
           /\ [f EXCEPT !.crosses = TRUE] \in Frames(stages)
BY DEF Frames

LEMMA PlanFields ==
    ASSUME NEW stage, NEW sends, NEW f \in Plans(stage, sends)
    PROVE  f.does = stage /\ f.sends \in sends
BY DEF Plans

\* What the states of the two senders are, by what they do.
LEMMA WorkerIs ==
    ASSUME NEW w \in WorkerStates
    PROVE  /\ w.does = "idle" <=> w = Idle
           /\ w # Idle => w \in Frames({"compare", "send"})
           /\ w # Idle => w.does \in {"compare", "send"} /\ w.sees \in Values /\ w.crosses \in BOOLEAN
<1>1. Idle.does = "idle"
    BY DEF Idle
<1>2. ASSUME w \in Frames({"compare", "send"})
      PROVE  w.does \in {"compare", "send"} /\ w.sees \in Values /\ w.crosses \in BOOLEAN
    BY <1>2, FrameFields
<1> QED BY <1>1, <1>2 DEF WorkerStates

LEMMA ReaderIs ==
    ASSUME NEW r \in ReaderStates
    PROVE  /\ r.does \in {"idle", "wire", "look", "note", "snapshot"}
           /\ r.does = "idle" <=> r = Idle
           /\ r.does = "wire" => r \in Plans("wire", BOOLEAN) /\ r.sends \in BOOLEAN
           /\ r.does = "look" => r \in Plans("look", {TRUE}) /\ r.sends = TRUE
           /\ r.does \in {"note", "snapshot"} =>
                 r \in Frames({"note", "snapshot"}) /\ r.sees \in Values /\ r.crosses \in BOOLEAN
<1>1. Idle.does = "idle"
    BY DEF Idle
<1>2. r \in Plans("wire", BOOLEAN) => r.does = "wire" /\ r.sends \in BOOLEAN
    BY PlanFields
<1>3. r \in Plans("look", {TRUE}) => r.does = "look" /\ r.sends = TRUE
    BY PlanFields
<1>4. r \in Frames({"note", "snapshot"}) =>
         r.does \in {"note", "snapshot"} /\ r.sees \in Values /\ r.crosses \in BOOLEAN
    BY FrameFields
<1>5. \/ r = Idle \/ r \in Plans("wire", BOOLEAN) \/ r \in Plans("look", {TRUE})
      \/ r \in Frames({"note", "snapshot"})
    BY DEF ReaderStates
<1> QED BY <1>1, <1>2, <1>3, <1>4, <1>5

\* Overtaken events stay what they are, and in their order.
LEMMA OvertakesKeeps ==
    ASSUME GmcpTypes, Overtakes
    PROVE  /\ events' \in Seq(GmcpJobs) /\ Len(events') = Len(events)
           /\ \A i \in 1..Len(events) : events'[i].old
           /\ worker' \in WorkerStates /\ worker'.does = worker.does
           /\ worker'.does # "idle" => worker'.crosses /\ worker'.sees = worker.sees
<1>1. events \in Seq(GmcpJobs) /\ Len(events) \in Nat /\ DOMAIN events = 1..Len(events)
    BY LenProperties DEF GmcpTypes
<1>2. ASSUME NEW i \in 1..Len(events) PROVE [events[i] EXCEPT !.old = TRUE] \in GmcpJobs
  <2>1. events[i] \in GmcpJobs
      BY <1>1, ElementOfSeq
  <2> QED BY <2>1 DEF GmcpJobs
<1>3. events' = [i \in 1..Len(events) |-> [events[i] EXCEPT !.old = TRUE]]
    BY <1>1 DEF Overtakes
<1>4. events' \in Seq(GmcpJobs) /\ Len(events') = Len(events)
    BY <1>1, <1>2, <1>3
<1>5. \A i \in 1..Len(events) : events[i] \in GmcpJobs
    BY <1>1, ElementOfSeq
<1>6. \A i \in 1..Len(events) : events'[i].old
    BY <1>3, <1>5 DEF GmcpJobs
<1>7. worker' \in WorkerStates /\ worker'.does = worker.does
  <2>1. CASE worker = Idle
      BY <2>1 DEF Overtakes, Sending, GmcpTypes
  <2>2. CASE worker # Idle
    <3>1. worker \in Frames({"compare", "send"}) /\ worker' = [worker EXCEPT !.crosses = TRUE]
        BY <2>2, WorkerIs DEF Overtakes, Sending, GmcpTypes
    <3>2. worker' \in Frames({"compare", "send"}) /\ worker'.does = worker.does
        BY <3>1, FrameFields DEF Frames
    <3> QED BY <3>2 DEF WorkerStates
  <2> QED BY <2>1, <2>2
<1>8. worker'.does # "idle" => worker'.crosses /\ worker'.sees = worker.sees
  <2> SUFFICES ASSUME worker'.does # "idle" PROVE worker'.crosses /\ worker'.sees = worker.sees
      OBVIOUS
  <2>1. worker # Idle /\ worker \in Frames({"compare", "send"})
      BY <1>7, WorkerIs DEF GmcpTypes, Idle
  <2> QED BY <2>1 DEF Overtakes, Sending, Frames
<1> QED BY <1>4, <1>6, <1>7, <1>8

LEMMA GmcpInitInv == GmcpInit => GmcpInv
<1> SUFFICES ASSUME GmcpInit PROVE GmcpInv
    OBVIOUS
<1>1. GmcpTypes
  <2>1. Idle \in WorkerStates /\ Idle \in ReaderStates /\ Idle.does = "idle"
      BY DEF WorkerStates, ReaderStates, Idle
  <2>2. << >> \in Seq(GmcpJobs)
      BY EmptySeq
  <2> QED BY <2>1, <2>2 DEF GmcpInit, GmcpTypes
<1> QED BY <1>1 DEF GmcpInit, GmcpInv, NewestIsTrue, FramesCross, NotedIsSent, Sending, Snapshotting,
                    Idle

LEMMA GmcpStep == GmcpInv /\ [GmcpNext]_gmcpVars => GmcpInv'
<1> SUFFICES ASSUME GmcpInv, [GmcpNext]_gmcpVars PROVE GmcpInv'
    OBVIOUS
<1> USE GmcpAssumption, WorkerIs, ReaderIs DEF GmcpInv, GmcpTypes
<1>a. worker.does # "idle" <=> Sending
    BY DEF Sending
<1>b. reader.does \in {"idle", "wire", "look", "note", "snapshot"}
    OBVIOUS
<1> USE DEF NewestIsTrue, FramesCross, NotedIsSent, OnItsWay
<1>1. CASE SetInWorld \/ HandleOptionNegotiation
  <2>1. /\ UNCHANGED <<kind, supports, subscribed, truth, untold, behind, events, worker, reader, last, shown,
                       excused>>
        /\ inWorld' \in BOOLEAN /\ enabled' \in BOOLEAN /\ (enabled => enabled')
      BY <1>1 DEF SetInWorld, HandleOptionNegotiation
  <2>2. GmcpTypes'
      BY <2>1
  <2> QED BY <2>1, <2>2 DEF Sending, Snapshotting, WillSend
<1>c. Unpublished \subseteq Values
    BY DEF Unpublished
<1>2. ASSUME NEW v \in Values, Change(v) PROVE GmcpInv'
  <2>1. GmcpTypes'
      BY <1>2, <1>c DEF Change
  <2> QED BY <1>2, <2>1 DEF Change, Sending, Snapshotting, WillSend
<1>3. ASSUME NEW v \in Values, ChangeSilently(v) PROVE GmcpInv'
  <2>1. GmcpTypes' /\ excused'
      BY <1>3, <1>c, OvertakesKeeps DEF ChangeSilently
  <2>2. NewestIsTrue'
      BY <1>3, <2>1, OvertakesKeeps, EmptySeq DEF ChangeSilently
  <2>3. FramesCross' /\ NotedIsSent'
      BY <1>3, <2>1, OvertakesKeeps DEF ChangeSilently, Sending, Snapshotting
  <2> QED BY <2>1, <2>2, <2>3
<1>4. CASE PublishChange
  <2>1. CASE subscribed /\ Len(events) < EventsCap
    <3> DEFINE job == [val |-> truth, old |-> FALSE]
    <3>1. untold = truth /\ job \in GmcpJobs
        BY <1>4 DEF PublishChange, GmcpJobs
    <3>2. /\ events' = Append(events, job) /\ untold' = Nothing
          /\ UNCHANGED <<kind, enabled, inWorld, supports, subscribed, truth, behind, worker, reader,
                         last, shown, excused>>
        BY <1>4, <2>1, <3>1 DEF PublishChange
    <3>3. ~job.old /\ job.val = truth
        OBVIOUS
    <3> HIDE DEF job
    <3>4. /\ events' \in Seq(GmcpJobs) /\ events' # << >> /\ events'[Len(events')] = job
        BY <3>1, <3>2, AppendProperties, EmptySeq, LenProperties
    <3>5. GmcpTypes'
        BY <3>2, <3>4
    <3> QED BY <3>2, <3>3, <3>4, <3>5 DEF Sending, Snapshotting
  <2>2. CASE ~(subscribed /\ Len(events) < EventsCap)
    <3>1. /\ Overtakes /\ excused' = (excused \/ ~WillSend) /\ untold' = Nothing
          /\ UNCHANGED <<kind, enabled, inWorld, supports, subscribed, truth, behind, reader, last,
                         shown>>
        BY <1>4, <2>2 DEF PublishChange
    <3>2. GmcpTypes'
        BY <3>1, OvertakesKeeps
    <3>3. NewestIsTrue'
        BY <3>1, <3>2, OvertakesKeeps, EmptySeq
    <3>4. FramesCross' /\ NotedIsSent'
        BY <3>1, <3>2, OvertakesKeeps DEF Sending, Snapshotting
    <3>5. ~excused' => enabled' /\ OnItsWay'
        BY <3>1 DEF WillSend
    <3> QED BY <3>2, <3>3, <3>4, <3>5
  <2> QED BY <2>1, <2>2
<1>5. ASSUME NEW action \in {"set", "add", "remove"}, HandleSupports(action) PROVE GmcpInv'
  <2>1. /\ UNCHANGED <<kind, enabled, inWorld, truth, untold, behind, events, worker, last, shown, excused>>
        /\ reader = Idle /\ subscribed' = FALSE /\ supports' \in BOOLEAN
        /\ reader' = [does |-> "wire", sends |-> supports' /\ action # "remove"]
      BY <1>5 DEF HandleSupports, Supports
  <2>2. reader' \in ReaderStates /\ reader'.does = "wire"
      BY <2>1 DEF ReaderStates, Plans
  <2>3. GmcpTypes'
      BY <2>1, <2>2
  <2> QED BY <2>1, <2>2, <2>3 DEF Sending, Snapshotting, WillSend, Idle
<1>6. CASE WireForSupports
  <2>1. /\ UNCHANGED <<kind, enabled, inWorld, supports, truth, untold, behind, events, worker, last, shown,
                       excused>>
        /\ reader.does = "wire" /\ subscribed' = supports
        /\ reader' = IF reader.sends THEN [reader EXCEPT !.does = "look"] ELSE Idle
      BY <1>6 DEF WireForSupports
  <2>2. reader' \in ReaderStates /\ reader'.does \in {"look", "idle"}
        /\ (reader.sends => reader'.does = "look" /\ reader'.sends)
      BY <2>1 DEF ReaderStates, Plans, Idle
  <2>3. GmcpTypes'
      BY <2>1, <2>2
  <2> QED BY <2>1, <2>2, <2>3 DEF Sending, Snapshotting, WillSend, Idle
<1>7. CASE EmitInitialSnapshot
  <2>1. ASSUME /\ inWorld /\ UNCHANGED excused
               /\ reader' = [does |-> "note", sees |-> truth, crosses |-> Sending]
               /\ worker' = IF Sending THEN [worker EXCEPT !.crosses = TRUE] ELSE worker
        PROVE  GmcpInv'
    <3>1. /\ UNCHANGED <<kind, enabled, inWorld, supports, subscribed, truth, untold, behind, events, last,
                         shown, excused>>
          /\ reader.does = "look" /\ reader' = [does |-> "note", sees |-> truth, crosses |-> Sending]
          /\ worker' = IF Sending THEN [worker EXCEPT !.crosses = TRUE] ELSE worker
        BY <1>7, <2>1 DEF EmitInitialSnapshot
    <3>2. /\ reader' \in ReaderStates /\ reader'.does = "note" /\ reader'.sees = truth
          /\ reader'.crosses = Sending
        BY <3>1 DEF ReaderStates, Frames, Sending
    <3>3. worker' \in WorkerStates /\ worker'.does = worker.does /\ (Sending => worker'.crosses)
      <4>1. CASE Sending
        <5>1. worker \in Frames({"compare", "send"}) /\ worker' = [worker EXCEPT !.crosses = TRUE]
            BY <3>1, <4>1 DEF Sending
        <5> QED BY <5>1, FrameFields DEF Frames, WorkerStates
      <4> QED BY <3>1, <4>1
    <3>4. GmcpTypes'
        BY <3>1, <3>2, <3>3
    <3> QED BY <3>1, <3>2, <3>3, <3>4 DEF Sending, Snapshotting, WillSend
  <2>2. ASSUME reader' = Idle, excused', UNCHANGED worker PROVE GmcpInv'
    <3>1. /\ UNCHANGED <<kind, enabled, inWorld, supports, subscribed, truth, untold, behind, events, worker,
                         last, shown>>
          /\ reader' = Idle /\ excused'
        BY <1>7, <2>2 DEF EmitInitialSnapshot
    <3>2. reader' \in ReaderStates /\ reader'.does = "idle"
        BY <3>1 DEF ReaderStates, Idle
    <3>3. GmcpTypes'
        BY <1>7, <3>1, <3>2 DEF EmitInitialSnapshot
    <3> QED BY <3>1, <3>2, <3>3 DEF Sending, Snapshotting, Idle
  <2> QED BY <1>7, <2>1, <2>2 DEF EmitInitialSnapshot
<1>8. CASE SetGMCPLastVitals
  <2>1. /\ UNCHANGED <<kind, enabled, inWorld, supports, subscribed, truth, untold, behind, events, worker,
                       shown, excused>>
        /\ reader.does = "note" /\ reader' = [reader EXCEPT !.does = "snapshot"]
        /\ last' = IF kind = "vitals" THEN reader.sees ELSE last
      BY <1>8 DEF SetGMCPLastVitals
  <2>2. /\ reader' \in ReaderStates /\ reader'.does = "snapshot"
        /\ reader'.sees = reader.sees /\ reader'.crosses = reader.crosses
      BY <2>1, FrameFields DEF Frames, ReaderStates
  <2>3. GmcpTypes'
      BY <2>1, <2>2
  <2> QED BY <2>1, <2>2, <2>3 DEF Sending, Snapshotting, WillSend
<1>9. CASE WriteSnapshot
  <2>1. /\ UNCHANGED <<kind, enabled, inWorld, supports, subscribed, truth, untold, behind, events, worker,
                       last>>
        /\ reader.does = "snapshot" /\ reader' = Idle
        /\ shown' = IF enabled THEN reader.sees ELSE shown
        /\ excused' = (~enabled \/ reader.crosses \/ (excused /\ reader.sees # truth))
      BY <1>9 DEF WriteSnapshot, WriteGMCP
  <2>2. reader' \in ReaderStates /\ reader'.does = "idle"
      BY <2>1 DEF ReaderStates, Idle
  <2>3. GmcpTypes'
      BY <2>1, <2>2
  <2>4. NotedIsSent' /\ FramesCross' /\ NewestIsTrue'
      BY <2>1, <2>2 DEF Sending, Snapshotting
  <2>5. ~excused' => enabled' /\ OnItsWay'
      BY <2>1, <2>2 DEF Sending, Snapshotting, WillSend
  <2> QED BY <2>3, <2>4, <2>5
<1>10. CASE Emit
  <2> DEFINE job == Head(events)
  <2>1. /\ UNCHANGED <<kind, enabled, inWorld, supports, subscribed, truth, untold, behind, last, shown,
                       excused>>
        /\ worker = Idle /\ events # << >> /\ events' = Tail(events)
        /\ worker' = [does |-> IF kind = "vitals" THEN "compare" ELSE "send",
                      sees |-> IF kind = "room" THEN job.val ELSE truth,
                      crosses |-> Snapshotting \/ (kind = "room" /\ job.old)]
        /\ reader' = IF Snapshotting THEN [reader EXCEPT !.crosses = TRUE] ELSE reader
      BY <1>10 DEF Emit
  <2>2. /\ job \in GmcpJobs /\ events' \in Seq(GmcpJobs) /\ Len(events) \in Nat \ {0}
        /\ Len(events') = Len(events) - 1 /\ \A i \in 1..Len(events') : events'[i] = events[i + 1]
        /\ job = events[1]
      BY <2>1, HeadTailProperties, EmptySeq, ElementOfSeq, LenProperties
  <2>3. job.val \in Values /\ job.old \in BOOLEAN
      BY <2>2 DEF GmcpJobs
  <2> HIDE DEF job
  <2>4. /\ worker' \in WorkerStates /\ worker' # Idle
        /\ worker'.does = IF kind = "vitals" THEN "compare" ELSE "send"
        /\ worker'.sees = IF kind = "room" THEN job.val ELSE truth
        /\ worker'.crosses <=> Snapshotting \/ (kind = "room" /\ job.old)
    <3>1. worker' \in Frames({"compare", "send"})
        BY <2>1, <2>3 DEF Frames, Snapshotting
    <3> QED BY <2>1, <3>1 DEF WorkerStates, Idle
  <2>5. /\ reader' \in ReaderStates /\ reader'.does = reader.does
        /\ Snapshotting => reader'.crosses /\ reader'.sees = reader.sees
        /\ ~Snapshotting => reader' = reader
    <3>1. CASE Snapshotting
      <4>1. reader \in Frames({"note", "snapshot"}) /\ reader' = [reader EXCEPT !.crosses = TRUE]
          BY <2>1, <3>1 DEF Snapshotting
      <4> QED BY <3>1, <4>1, FrameFields DEF Frames, ReaderStates
    <3> QED BY <2>1, <3>1
  <2>6. GmcpTypes'
      BY <2>1, <2>2, <2>4, <2>5
  <2>7. NewestIsTrue'
    <3> SUFFICES ASSUME kind = "room", events' # << >>, untold = Nothing
                 PROVE  events'[Len(events')].old \/ events'[Len(events')].val = truth
        BY <2>1
    <3>1. Len(events') \in Nat \ {0}
        BY <2>2, EmptySeq
    <3>2. events'[Len(events')] = events[Len(events)]
        BY <2>2, <3>1
    <3> QED BY <2>1, <3>2
  <2>8. FramesCross' /\ NotedIsSent'
      BY <2>1, <2>4, <2>5 DEF Sending, Snapshotting
  <2>9. ~excused' => enabled' /\ OnItsWay'
    <3> SUFFICES ASSUME ~excused, untold = Nothing, events' = << >>, ~Snapshotting PROVE OnItsWay'
        BY <2>1, <2>5 DEF Snapshotting
    <3>1. Len(events) = 1
        BY <2>2, EmptySeq
    <3>2. kind = "room" => job.old \/ job.val = truth
        BY <2>1, <2>2, <3>1
    <3> QED BY <2>1, <2>4, <3>2 DEF Sending
  <2> QED BY <2>6, <2>7, <2>8, <2>9
<1>11. CASE GMCPLastVitalsEquals
  <2>1. /\ UNCHANGED <<kind, enabled, inWorld, supports, subscribed, truth, untold, behind, events, reader,
                       shown, excused>>
        /\ worker.does = "compare" /\ kind = "vitals" /\ worker \in Frames({"compare", "send"})
      BY <1>11 DEF GMCPLastVitalsEquals, Idle
  <2>2. CASE last = worker.sees
    <3>1. worker' = Idle /\ worker' \in WorkerStates /\ worker'.does = "idle" /\ last' = last
        BY <1>11, <2>2 DEF GMCPLastVitalsEquals, WorkerStates, Idle
    <3>2. GmcpTypes'
        BY <2>1, <3>1
    <3> QED BY <2>1, <2>2, <3>1, <3>2 DEF Sending, Snapshotting, WillSend
  <2>3. CASE last # worker.sees
    <3>1. /\ worker' = [worker EXCEPT !.does = "send"] /\ last' = worker.sees
        BY <1>11, <2>3 DEF GMCPLastVitalsEquals
    <3>2. /\ worker' \in Frames({"compare", "send"}) /\ worker'.does = "send"
          /\ worker'.sees = worker.sees /\ worker'.crosses = worker.crosses
        BY <2>1, <3>1, FrameFields DEF Frames
    <3>3. worker' \in WorkerStates /\ worker' # Idle
        BY <3>2 DEF WorkerStates, Idle
    <3>4. GmcpTypes'
        BY <2>1, <3>1, <3>2, <3>3
    <3> QED BY <2>1, <3>1, <3>2, <3>3, <3>4 DEF Sending, Snapshotting, WillSend
  <2> QED BY <2>2, <2>3
<1>12. CASE WriteFrame
  <2>1. /\ UNCHANGED <<kind, enabled, inWorld, supports, subscribed, truth, untold, behind, events, reader,
                       last>>
        /\ worker.does = "send" /\ worker' = Idle
        /\ shown' = IF enabled THEN worker.sees ELSE shown
        /\ excused' = (~enabled \/ worker.crosses \/ (excused /\ worker.sees # truth))
      BY <1>12 DEF WriteFrame, WriteGMCP
  <2>2. worker' \in WorkerStates /\ worker'.does = "idle" /\ worker # Idle
      BY <2>1 DEF WorkerStates, Idle
  <2>3. GmcpTypes'
      BY <2>1, <2>2
  <2>4. NotedIsSent' /\ FramesCross' /\ NewestIsTrue'
      BY <2>1, <2>2 DEF Sending, Snapshotting
  <2>5. ~excused' => enabled' /\ OnItsWay'
      BY <2>1, <2>2 DEF Sending, Snapshotting, WillSend
  <2> QED BY <2>3, <2>4, <2>5
<1>13. CASE UNCHANGED gmcpVars
    BY <1>13 DEF gmcpVars, Sending, Snapshotting, WillSend
<1>14. ASSUME NEW v \in Values, MoveUnrecorded(v) PROVE GmcpInv'
  <2>1. /\ UNCHANGED <<kind, enabled, inWorld, supports, subscribed, truth, untold, events, worker,
                       reader, last, shown, excused>>
        /\ behind' = behind \cup {v}
      BY <1>14 DEF MoveUnrecorded
  <2>2. GmcpTypes'
      BY <2>1
  <2> QED BY <2>1, <2>2 DEF Sending, Snapshotting, WillSend
<1>15. ASSUME NEW v \in Values, PublishLate(v) PROVE GmcpInv'
  <2>1. /\ UNCHANGED <<kind, enabled, inWorld, supports, subscribed, truth, untold, worker, reader,
                       last, shown, excused>>
        /\ behind' \in SUBSET Values
      BY <1>15 DEF PublishLate
  <2>2. CASE subscribed /\ Len(events) < EventsCap
    <3> DEFINE job == [val |-> v, old |-> untold = Nothing]
    <3>1. job \in GmcpJobs /\ events' = Append(events, job)
        BY <1>15, <2>2 DEF PublishLate, GmcpJobs
    <3>2. untold = Nothing => job.old
        OBVIOUS
    <3> HIDE DEF job
    <3>3. events' \in Seq(GmcpJobs) /\ events' # << >> /\ events'[Len(events')] = job
        BY <3>1, AppendProperties, EmptySeq, LenProperties
    <3>4. GmcpTypes'
        BY <2>1, <3>3
    <3> QED BY <2>1, <3>2, <3>3, <3>4 DEF Sending, Snapshotting, WillSend
  <2>3. CASE ~(subscribed /\ Len(events) < EventsCap)
    <3>1. events' = events
        BY <1>15, <2>3 DEF PublishLate
    <3>2. GmcpTypes'
        BY <2>1, <3>1
    <3> QED BY <2>1, <3>1, <3>2 DEF Sending, Snapshotting, WillSend
  <2> QED BY <2>2, <2>3
<1>16. CASE EmitFails
  <2>1. /\ UNCHANGED <<kind, enabled, inWorld, supports, subscribed, truth, untold, behind, worker,
                       reader, last, shown>>
        /\ events # << >> /\ events' = Tail(events) /\ excused' = TRUE
      BY <1>16 DEF EmitFails
  <2>2. /\ events' \in Seq(GmcpJobs) /\ Len(events) \in Nat \ {0}
        /\ Len(events') = Len(events) - 1 /\ \A i \in 1..Len(events') : events'[i] = events[i + 1]
      BY <2>1, HeadTailProperties, EmptySeq, LenProperties
  <2>3. GmcpTypes'
      BY <2>1, <2>2
  <2>4. NewestIsTrue'
    <3> SUFFICES ASSUME kind = "room", events' # << >>, untold = Nothing
                 PROVE  events'[Len(events')].old \/ events'[Len(events')].val = truth
        BY <2>1
    <3>1. Len(events') \in Nat \ {0}
        BY <2>2, EmptySeq
    <3>2. events'[Len(events')] = events[Len(events)]
        BY <2>2, <3>1
    <3> QED BY <2>1, <3>2
  <2> QED BY <2>1, <2>3, <2>4 DEF Sending, Snapshotting
<1> QED BY <1>1, <1>2, <1>3, <1>4, <1>5, <1>6, <1>7, <1>8, <1>9, <1>10, <1>11, <1>12, <1>13,
           <1>14, <1>15, <1>16
        DEF GmcpNext

\* What is on its way to the client is accounted for in every reachable state
\* (Manager.Handle, wireCharVitals and emitInitialSnapshot in internal/gmcp).
THEOREM GmcpKeepsInv == GmcpSpec => []GmcpInv
<1> QED BY GmcpInitInv, GmcpStep, PTL DEF GmcpSpec

\* DisplayCatchesUp for any set of values and any length of the worker's queue:
\* the client's display is what the row says once all is quiet, also when writers
\* overtake each other before they publish, unless one of the excuses that
\* DisplayCatchesUp names came in between (gmcp/manager.go, subscriptions.go).
THEOREM DisplaySafety == GmcpSpec => []DisplayCatchesUp
<1>1. GmcpInv => DisplayCatchesUp
    BY DEF GmcpInv, OnItsWay, DisplayCatchesUp, Quiet, Unpublished, WillSend, Snapshotting, Idle
<1> QED BY <1>1, GmcpKeepsInv, PTL
=============================================================================
