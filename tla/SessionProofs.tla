--------------------------- MODULE SessionProofs ---------------------------
(***************************************************************************)
(* The registry for any number of connections and accounts: a teardown     *)
(* never unbinds a newer session and always unbinds its own, and, as long  *)
(* as postAuth does not fail, no session that is over stays bound.  And    *)
(* the wizard for any catalog: what it creates is within its budgets.      *)
(* Last the fight of a room, for any characters, mobs, pulses and scripts: *)
(* nobody is left standing at no hit points, and without overlapping       *)
(* pulses a mob dies once.                                                 *)
(***************************************************************************)
EXTENDS Session, Chargen, Fight, SumTheorems, SequenceTheorems, TLAPS

Handling == {"handling", "idle"}

\* A session that may still log in has no account yet, once postAuth cannot
\* send a bound session back to the user name.
LoginOnce ==
    MaxFaults = 0 =>
        \A s \in Conns : account[s] # None /\ mode[s] = "login" => disp[s] \notin Handling

\* A binding belongs to the account its session carries, and what is torn
\* down has no dispatcher left.
Owned ==
    MaxFaults = 0 => \A a \in Accounts : bound[a] # None => account[bound[a]] = a

Stopped == \A s \in Conns : TornDown(s) => disp[s] = "done"

IInv ==
    /\ TypeOK
    /\ LoginOnce
    /\ Owned
    /\ Stopped
    /\ LatestIsBound
    /\ OwnBindingIsLive

-----------------------------------------------------------------------------
\* The steps that leave the registry, the accounts and the modes alone, never
\* start a teardown and never revive a dispatcher.
Quiet ==
    /\ UNCHANGED <<mode, account, bound, latest>>
    /\ \A s \in Conns : TornDown(s)' = TornDown(s)
    /\ \A s \in Conns : /\ disp[s] = "done" => disp'[s] = "done"
                        /\ disp'[s] \in Handling => disp[s] \in Handling

LEMMA QuietKeeps == IInv /\ TypeOK' /\ Quiet => IInv'
<1> SUFFICES ASSUME IInv, TypeOK', Quiet PROVE IInv'
    OBVIOUS
<1>1. LoginOnce'
    BY DEF IInv, LoginOnce, Quiet
<1>2. Owned' /\ Stopped'
    BY DEF IInv, Owned, Stopped, Quiet, TypeOK
<1>3. LatestIsBound' /\ OwnBindingIsLive'
    BY DEF IInv, LatestIsBound, OwnBindingIsLive, Quiet, TypeOK
<1> QED BY <1>1, <1>2, <1>3 DEF IInv

LEMMA StepKeeps == IInv /\ Next => IInv'
<1> SUFFICES ASSUME IInv, NEW s \in Conns,
                    \/ Connect(s) \/ Line(s) \/ Byte(s) \/ Silence(s) \/ IdleTimeout(s)
                    \/ HangUp(s) \/ ReadClosed(s) \/ Unbind(s) \/ Teardown(s) \/ Stall(s) \/ Take(s)
                    \/ Finish(s) \/ Handle(s) \/ Kick(s) \/ PostAuth(s) \/ PostAuthFails(s)
                    \/ Drain(s)
             PROVE  IInv'
    BY DEF Next
<1>0. TypeOK /\ InboxCap \in Nat \ {0} /\ None \notin Conns /\ None \notin Accounts
    BY SessionConstants DEF IInv
<1>1. CASE Connect(s) \/ Line(s) \/ Byte(s) \/ Silence(s) \/ IdleTimeout(s) \/ HangUp(s)
           \/ ReadClosed(s) \/ Stall(s)
  <2>1. TypeOK'
    <3>1. CASE Connect(s)
        BY <1>0, <3>1 DEF TypeOK, Connect, identity
    <3>2. CASE Line(s)
        BY <1>0, <3>2 DEF TypeOK, Line, Close, identity
    <3>3. CASE Byte(s)
        BY <1>0, <3>3 DEF TypeOK, Byte, identity
    <3>4. CASE Silence(s)
        BY <1>0, <3>4 DEF TypeOK, Silence, identity
    <3>5. CASE IdleTimeout(s)
        BY <1>0, <3>5 DEF TypeOK, IdleTimeout, Close, identity
    <3>6. CASE HangUp(s)
        BY <1>0, <3>6 DEF TypeOK, HangUp, Close, identity
    <3>7. CASE ReadClosed(s)
        BY <1>0, <3>7 DEF TypeOK, ReadClosed, Close, identity
    <3>8. CASE Stall(s)
        BY <1>0, <3>8 DEF TypeOK, Stall, identity
    <3> QED BY <1>1, <3>1, <3>2, <3>3, <3>4, <3>5, <3>6, <3>7, <3>8
  <2>2. /\ UNCHANGED <<disp, mode, account, bound, latest>>
        /\ \/ reader' = reader
           \/ \E l \in {"reading", "closed"} :
                 reader[s] \in {"new", "reading"} /\ reader' = [reader EXCEPT ![s] = l]
      BY <1>1
      DEF Connect, Line, Close, Byte, Silence, IdleTimeout, HangUp, ReadClosed, Stall, identity
  <2>3. \A r \in Conns : TornDown(r)' = TornDown(r)
      BY <1>0, <2>2 DEF TypeOK, TornDown
  <2>4. Quiet
      BY <2>2, <2>3 DEF Quiet
  <2> QED BY <2>1, <2>4, QuietKeeps
<1>2. CASE Take(s) \/ Finish(s) \/ Command(s) \/ Quit(s) \/ Panic(s) \/ Kick(s) \/ Drain(s)
           \/ Teardown(s)
  <2>1. TypeOK'
    <3>1. CASE Take(s)
        BY <1>0, <3>1 DEF TypeOK, Take, identity
    <3>2. CASE Finish(s)
        BY <1>0, <3>2 DEF TypeOK, Finish, identity, input
    <3>3. CASE Command(s)
        BY <1>0, <3>3 DEF TypeOK, Command, identity, input
    <3>4. CASE Quit(s)
        BY <1>0, <3>4 DEF TypeOK, Quit, Disconnect, identity, input
    <3>5. CASE Panic(s)
        BY <1>0, <3>5 DEF TypeOK, Panic, input
    <3>6. CASE Kick(s)
        BY <1>0, <3>6 DEF TypeOK, Kick, Disconnect, input
    <3>7. CASE Drain(s)
        BY <1>0, <3>7 DEF TypeOK, Drain, identity
    <3>8. CASE Teardown(s)
        BY <1>0, <3>8 DEF TypeOK, Teardown, Disconnect, identity
    <3> QED BY <1>2, <3>1, <3>2, <3>3, <3>4, <3>5, <3>6, <3>7, <3>8
  <2>2. /\ UNCHANGED <<mode, account, bound, latest>>
        /\ \/ reader' = reader
           \/ reader[s] = "unbound" /\ reader' = [reader EXCEPT ![s] = "gone"]
      BY <1>2 DEF Take, Finish, Command, Quit, Panic, Kick, Drain, Teardown, identity, input
  <2>3. \/ disp' = disp
        \/ \E l : /\ disp' = [disp EXCEPT ![s] = l]
                  /\ disp[s] # "done"
                  /\ l \in Handling => disp[s] \in Handling
      BY <1>2 DEF Handling, Take, Finish, Command, Quit, Panic, Kick, Drain, Teardown, identity, input
  <2>4. \A r \in Conns : TornDown(r)' = TornDown(r)
      BY <1>0, <2>2 DEF TypeOK, TornDown
  <2>5. \A r \in Conns : /\ disp[r] = "done" => disp'[r] = "done"
                         /\ disp'[r] \in Handling => disp[r] \in Handling
      BY <1>0, <2>3 DEF TypeOK
  <2>6. Quiet
      BY <2>2, <2>4, <2>5 DEF Quiet
  <2> QED BY <2>1, <2>6, QuietKeeps
<1>3. CASE EnterGame(s) \/ PostAuth(s)
  <2>1. TypeOK'
      BY <1>0, <1>3 DEF TypeOK, EnterGame, PostAuth, input
  <2>2. /\ UNCHANGED <<reader, account, bound, latest>>
        /\ disp[s] # "done"
        /\ \A r \in Conns \ {s} : disp'[r] = disp[r] /\ mode'[r] = mode[r]
        /\ mode'[s] = "login" => disp'[s] = "draining"
      BY <1>0, <1>3 DEF TypeOK, EnterGame, PostAuth, input
  <2>3. LoginOnce'
      BY <1>0, <2>1, <2>2 DEF IInv, LoginOnce, Handling
  <2>4. Owned' /\ Stopped'
      BY <2>2 DEF IInv, Owned, Stopped, TornDown
  <2>5. LatestIsBound' /\ OwnBindingIsLive'
      BY <2>2 DEF IInv, LatestIsBound, OwnBindingIsLive, TornDown
  <2> QED BY <2>1, <2>3, <2>4, <2>5 DEF IInv
<1>4. CASE PostAuthFails(s)
  <2>1. TypeOK'
      BY <1>0, <1>4 DEF TypeOK, PostAuthFails, input
  <2>2. MaxFaults # 0 /\ UNCHANGED <<reader, account, bound, latest>>
        /\ disp[s] # "done" /\ \A r \in Conns \ {s} : disp'[r] = disp[r]
      BY <1>0, <1>4 DEF TypeOK, PostAuthFails, input
  <2>3. LoginOnce' /\ Owned' /\ Stopped'
      BY <2>2 DEF IInv, LoginOnce, Owned, Stopped, TornDown
  <2>4. LatestIsBound' /\ OwnBindingIsLive'
      BY <2>2 DEF IInv, LatestIsBound, OwnBindingIsLive, TornDown
  <2> QED BY <2>1, <2>2, <2>3, <2>4 DEF IInv
<1>5. ASSUME NEW a \in Accounts, Login(s, a) PROVE IInv'
  <2>1. TypeOK'
      BY <1>0, <1>5 DEF TypeOK, Login, input
  <2>2. /\ disp[s] = "handling" /\ disp'[s] = "kick" /\ mode[s] = "login" /\ reader' = reader
        /\ account' = [account EXCEPT ![s] = a] /\ bound' = [bound EXCEPT ![a] = s]
        /\ latest' = [latest EXCEPT ![a] = s] /\ mode' = mode
        /\ \A r \in Conns \ {s} : disp'[r] = disp[r]
      BY <1>0, <1>5 DEF TypeOK, Login, input
  <2>3. LoginOnce'
      BY <1>0, <2>1, <2>2 DEF IInv, LoginOnce, Handling, TypeOK
  <2>4. Owned'
    <3> SUFFICES ASSUME MaxFaults = 0, NEW b \in Accounts, bound'[b] # None
                 PROVE  account'[bound'[b]] = b
        BY DEF Owned
    <3>1. CASE b = a
        BY <1>0, <2>2, <3>1 DEF TypeOK
    <3>2. CASE b # a
      <4>1. bound'[b] = bound[b] /\ bound[b] \in Conns /\ account[bound[b]] = b
          BY <1>0, <2>2, <3>2 DEF TypeOK, IInv, Owned
      <4>2. account[s] = None
          BY <2>2 DEF IInv, LoginOnce, Handling
      <4> QED BY <1>0, <2>2, <4>1, <4>2 DEF TypeOK
    <3> QED BY <3>1, <3>2
  <2>5. Stopped' /\ ~TornDown(s)
      BY <2>2 DEF IInv, Stopped, TornDown
  <2>6. LatestIsBound'
      BY <1>0, <2>2, <2>5 DEF IInv, LatestIsBound, TornDown, TypeOK
  <2>7. OwnBindingIsLive'
    <3> SUFFICES ASSUME NEW b \in Accounts, bound'[b] # None, account'[bound'[b]] = b
                 PROVE  reader[bound'[b]] \notin {"unbound", "gone"}
        BY <2>2 DEF OwnBindingIsLive, TornDown
    <3>1. CASE bound'[b] = s
        BY <2>5, <3>1 DEF TornDown
    <3>2. CASE bound'[b] # s
      <4>1. bound'[b] = bound[b] /\ bound[b] \in Conns /\ account[bound[b]] = b
          BY <1>0, <2>2, <3>2 DEF TypeOK
      <4> QED BY <4>1 DEF IInv, OwnBindingIsLive, TornDown
    <3> QED BY <3>1, <3>2
  <2> QED BY <2>1, <2>3, <2>4, <2>5, <2>6, <2>7 DEF IInv
<1>6. CASE Unbind(s)
  <2>1. TypeOK'
      BY <1>0, <1>6 DEF TypeOK, Unbind
  <2>2. /\ disp[s] = "done" /\ reader' = [reader EXCEPT ![s] = "unbound"]
        /\ UNCHANGED <<disp, mode, account, latest>>
        /\ bound' = [b \in Accounts |-> IF b = account[s] /\ bound[b] = s THEN None ELSE bound[b]]
      BY <1>6 DEF Unbind
  <2>3. /\ TornDown(s)'
        /\ \A r \in Conns \ {s} : TornDown(r)' <=> TornDown(r)
        /\ \A b \in Accounts : bound'[b] # bound[b] => bound[b] = s /\ bound'[b] = None
      BY <1>0, <2>2 DEF TypeOK, TornDown
  <2>4. LoginOnce' /\ Owned'
      BY <1>0, <2>2, <2>3 DEF IInv, LoginOnce, Owned, TypeOK
  <2>5. Stopped'
      BY <2>2, <2>3 DEF IInv, Stopped
  <2>6. LatestIsBound'
    <3> SUFFICES ASSUME NEW b \in Accounts, latest[b] # None,
                        reader'[latest[b]] \notin {"unbound", "gone"}
                 PROVE  bound'[b] = latest[b]
        BY <2>2 DEF LatestIsBound, TornDown
    <3>1. latest[b] \in Conns \ {s}
        BY <1>0, <2>2 DEF TypeOK
    <3>2. bound[b] = latest[b]
        BY <1>0, <2>2, <3>1 DEF IInv, LatestIsBound, TornDown, TypeOK
    <3> QED BY <2>3, <3>1, <3>2
  <2>7. OwnBindingIsLive'
    <3> SUFFICES ASSUME NEW b \in Accounts, bound'[b] # None, account[bound'[b]] = b
                 PROVE  reader'[bound'[b]] \notin {"unbound", "gone"}
        BY <2>2 DEF OwnBindingIsLive, TornDown
    <3>1. bound'[b] = bound[b] /\ bound[b] \in Conns
        BY <1>0, <2>3 DEF TypeOK
    <3>2. bound[b] # s
        BY <1>0, <2>2, <3>1
    <3>3. ~TornDown(bound[b])
        BY <3>1 DEF IInv, OwnBindingIsLive
    <3> QED BY <1>0, <2>2, <3>1, <3>2, <3>3 DEF TornDown, TypeOK
  <2> QED BY <2>1, <2>4, <2>5, <2>6, <2>7 DEF IInv
<1> QED BY <1>1, <1>2, <1>3, <1>4, <1>5, <1>6 DEF Handle

\* The inductive invariant of connections and registry.
THEOREM SessionInvariant == Spec => []IInv
<1>1. Init => IInv
  <2> SUFFICES ASSUME Init PROVE IInv
      OBVIOUS
  <2>1. TypeOK
      BY SessionConstants DEF Init, TypeOK
  <2>2. LoginOnce /\ Owned /\ Stopped /\ LatestIsBound /\ OwnBindingIsLive
      BY DEF Init, LoginOnce, Owned, Stopped, LatestIsBound, OwnBindingIsLive, TornDown
  <2> QED BY <2>1, <2>2 DEF IInv
<1>2. IInv /\ UNCHANGED vars => IInv'
  <2> SUFFICES ASSUME IInv, UNCHANGED vars PROVE IInv'
      OBVIOUS
  <2>1. TypeOK' /\ Quiet
      BY DEF IInv, TypeOK, vars, Quiet, TornDown
  <2> QED BY <2>1, QuietKeeps
<1> QED BY <1>1, <1>2, StepKeeps, PTL DEF Spec

\* The inbox never holds more than its capacity, and every column is typed.
THEOREM SessionTypes == Spec => []TypeOK
<1>1. IInv => TypeOK
    BY DEF IInv
<1> QED BY <1>1, SessionInvariant, PTL

\* The teardown of a displaced session never unbinds its successor.
THEOREM SuccessorStaysBound == Spec => []LatestIsBound
<1>1. IInv => LatestIsBound
    BY DEF IInv
<1> QED BY <1>1, SessionInvariant, PTL

\* A session that is over is not bound under the account it carries.
THEOREM OwnBindingAlwaysLive == Spec => []OwnBindingIsLive
<1>1. IInv => OwnBindingIsLive
    BY DEF IInv
<1> QED BY <1>1, SessionInvariant, PTL

\* Unbinding neither leaves out the session that ends nor reaches the one that
\* took its account.
THEOREM BindingsAreSound == Spec => []BindingsHold
<1>1. IInv => BindingsHold
    BY DEF IInv, BindingsHold
<1> QED BY <1>1, SessionInvariant, PTL

\* Where postAuth does not fail, a session that is over is bound nowhere.
THEOREM NoGhosts == MaxFaults = 0 => (Spec => []NoGhostBinding)
<1> SUFFICES ASSUME MaxFaults = 0 PROVE Spec => []NoGhostBinding
    OBVIOUS
<1>1. IInv => NoGhostBinding
    BY DEF IInv, Owned, OwnBindingIsLive, NoGhostBinding
<1> QED BY <1>1, SessionInvariant, PTL

-----------------------------------------------------------------------------
(* The wizard that creates a character (Chargen).                          *)

Late == {"kit", "wear", "purse", "done"}

\* What every draft obeys, however it was put together.
DraftInv(d) ==
    /\ d \in Drafts
    /\ d.scored => d.scores \in [Abilities -> MinScore..MaxScore] /\ Spent(d.scores) <= PointBuy
    /\ RanksSpent(d.ranks) <= d.budget
    /\ d.weaves \subseteq Eligible(d.affinities)

\* What the screen says of the draft.
ScreenInv ==
    /\ step = "abilities" => draft.scored
    /\ step = "review" => DraftComplete(draft)

\* Once there is a row the draft stands still, and what is worn is the kit's.
MadeInv ==
    /\ row # NoPick => step \in Late
    /\ step \in Late => row \in Rows /\ row.draft = draft /\ DraftComplete(draft)
    /\ step \in {"kit", "wear"} => row.worn = {}
    /\ step = "wear" => row.items = Len(Kit)
    /\ step \in Late => WornIsWhole(Kit)

CreationInv == ChargenTypes /\ DraftInv(draft) /\ ScreenInv /\ MadeInv

LEMMA ZeroSum ==
    ASSUME NEW S, IsFiniteSet(S)
    PROVE  SumFunction([x \in S |-> 0]) = 0
<1>0. 0 \in Int
  OBVIOUS
<1>1. SumFunction([x \in S |-> 0]) = 0 * Cardinality(S)
  BY <1>0, SumConstant, Zenon
<1>2. Cardinality(S) \in Nat
  BY FS_CardinalityType
<1> QED BY <1>1, <1>2

\* The least scores cost nothing.
LEMMA LeastScores ==
    LET least == [a \in Abilities |-> MinScore] IN
    least \in [Abilities -> MinScore..MaxScore] /\ Spent(least) <= PointBuy
<1> DEFINE least == [a \in Abilities |-> MinScore]
<1>1. MinScore \in MinScore..MaxScore /\ Cost[MinScore] = 0 /\ PointBuy \in Nat /\ IsFiniteSet(Abilities)
  BY CatalogAssumption
<1>2. \A a \in Abilities : Cost[least[a]] = 0
  BY <1>1
<1>3. [a \in Abilities |-> Cost[least[a]]] = [a \in Abilities |-> 0]
  BY <1>2
<1>4. Spent(least) = 0
  BY <1>1, <1>3, ZeroSum DEF Spent
<1> QED BY <1>1, <1>4

LEMMA NoRanks == Blank.ranks \in [Skills -> 0..RankCap] /\ RanksSpent(Blank.ranks) = 0
<1>1. Blank.ranks = [k \in Skills |-> 0]
  BY DEF Blank
<1>2. IsFiniteSet(Skills) /\ RankCap \in Nat
  BY CatalogAssumption
<1> QED BY <1>1, <1>2, ZeroSum DEF RanksSpent

\* The skill budget is a number, whatever the draft holds when it is asked.
LEMMA BudgetIsNat ==
    ASSUME NEW d \in Drafts
    PROVE  SkillBudget(d) \in Nat
<1> DEFINE perLevel == IF d.class = NoPick THEN 0 ELSE PointsOf[d.class]
           x == perLevel + Modifier(d.scores[Mind])
<1>1. perLevel \in Int
  BY CatalogAssumption DEF Drafts, CatalogSound
<1>2. d.scores[Mind] \in Int
  BY CatalogAssumption DEF Drafts, CatalogSound
<1>3. Modifier(d.scores[Mind]) \in Int
  BY <1>2 DEF Modifier
<1>4. x \in Int
  BY <1>1, <1>3
<1>5. Max({1, x}) \in {1, x} /\ Max({1, x}) >= 1
  <2> HIDE DEF x
  <2>1. \E m \in {1, x} : \A y \in {1, x} : m >= y
    BY <1>4
  <2> QED BY <2>1 DEF Max
<1>6. Max({1, x}) \in Nat
  BY <1>4, <1>5
<1>7. SkillBudget(d) = LevelOneFactor * Max({1, x})
  BY DEF SkillBudget
<1> HIDE DEF x
<1> QED BY <1>6, <1>7, CatalogAssumption

LEMMA BlankDraft == DraftInv(Blank)
<1>1. Blank \in Drafts
  BY CatalogAssumption DEF Blank, Drafts, CatalogSound
<1>2. Blank.scored = FALSE /\ Blank.budget = 0 /\ Blank.weaves = {}
  BY DEF Blank
<1> QED BY <1>1, <1>2, NoRanks DEF DraftInv

\* An edit of the fields that no bound speaks of.
LEMMA FreeEdit ==
    ASSUME NEW d, DraftInv(d), NEW e \in Drafts,
           e.scores = d.scores, e.scored = d.scored, e.ranks = d.ranks, e.budget = d.budget,
           e.weaves \subseteq Eligible(e.affinities)
    PROVE  DraftInv(e)
BY DEF DraftInv

LEMMA PrimedKeeps ==
    ASSUME NEW d, DraftInv(d), NEW to \in Substeps
    PROVE  DraftInv(Primed(d, to)) /\ (to = "abilities" => Primed(d, to).scored)
<1> DEFINE e == Primed(d, to)
<1>0. d \in Drafts
  BY DEF DraftInv
<1>1. CASE to = "abilities"
  <2>1. CASE d.scored
    BY <1>1, <2>1 DEF Primed
  <2>2. CASE ~d.scored
    <3>1. e = [d EXCEPT !.scores = [a \in Abilities |-> MinScore], !.scored = TRUE]
      BY <1>1, <2>2 DEF Primed
    <3>2. [a \in Abilities |-> MinScore] \in [Abilities -> {0} \cup (MinScore..MaxScore)]
      BY LeastScores
    <3> HIDE DEF e
    <3>3. e \in Drafts /\ e.scores = [a \in Abilities |-> MinScore] /\ e.scored
          /\ e.ranks = d.ranks /\ e.budget = d.budget /\ e.weaves = d.weaves /\ e.affinities = d.affinities
      BY <1>0, <3>1, <3>2 DEF Drafts
    <3>4. DraftInv(e)
      BY <3>3, LeastScores DEF DraftInv
    <3> QED BY <3>3, <3>4 DEF e
  <2> QED BY <2>1, <2>2
<1>2. CASE to = "identity"
  <2>1. e = d \/ e = [d EXCEPT !.gender = "male"]
    BY <1>2 DEF Primed
  <2> HIDE DEF e
  <2>2. e \in Drafts /\ e.scores = d.scores /\ e.scored = d.scored /\ e.ranks = d.ranks /\ e.budget = d.budget
        /\ e.weaves = d.weaves /\ e.affinities = d.affinities
    BY <1>0, <2>1 DEF Drafts
  <2>3. DraftInv(e)
    BY <2>2 DEF DraftInv
  <2> QED BY <1>2, <2>3 DEF e
<1>3. CASE to = "skills"
  <2>1. e = d \/ e = [d EXCEPT !.budget = SkillBudget(d), !.ranks = Blank.ranks, !.skilled = TRUE]
    BY <1>3 DEF Primed
  <2> HIDE DEF e
  <2>2. ASSUME e = [d EXCEPT !.budget = SkillBudget(d), !.ranks = Blank.ranks, !.skilled = TRUE]
        PROVE  DraftInv(e)
    <3>1. SkillBudget(d) \in Nat
      BY <1>0, BudgetIsNat
    <3>2. e \in Drafts /\ e.scores = d.scores /\ e.scored = d.scored
          /\ e.ranks = Blank.ranks /\ e.budget = SkillBudget(d)
          /\ e.weaves = d.weaves /\ e.affinities = d.affinities
      BY <1>0, <2>2, <3>1, NoRanks DEF Drafts
    <3>3. RanksSpent(e.ranks) = 0 /\ 0 <= e.budget
      BY <3>1, <3>2, NoRanks
    <3>4. RanksSpent(e.ranks) <= e.budget
      BY <3>3
    <3>5. e.scored => e.scores \in [Abilities -> MinScore..MaxScore] /\ Spent(e.scores) <= PointBuy
      BY <3>2 DEF DraftInv
    <3>6. e.weaves \subseteq Eligible(e.affinities)
      BY <3>2 DEF DraftInv
    <3> QED BY <3>2, <3>4, <3>5, <3>6 DEF DraftInv
  <2>3. DraftInv(e)
    <3>1. CASE e = d
      BY <3>1
    <3> QED BY <2>1, <2>2, <3>1
  <2> QED BY <1>3, <2>3 DEF e
<1>4. CASE to = "channeling"
  <2>1. \/ e = d
        \/ \E s \in {"saidin", "saidar"} :
              e = [d EXCEPT !.source = s, !.affinities = {}, !.weaves = {}]
    BY <1>4 DEF Primed
  <2> HIDE DEF e
  <2>2. ASSUME NEW s \in {"saidin", "saidar"}, e = [d EXCEPT !.source = s, !.affinities = {}, !.weaves = {}]
        PROVE  DraftInv(e)
    <3>1. e \in Drafts /\ e.scores = d.scores /\ e.scored = d.scored
          /\ e.ranks = d.ranks /\ e.budget = d.budget /\ e.weaves = {}
      BY <1>0, <2>2 DEF Drafts
    <3> QED BY <3>1 DEF DraftInv
  <2>3. DraftInv(e)
    BY <2>1, <2>2
  <2> QED BY <1>4, <2>3 DEF e
<1>5. CASE to \notin {"abilities", "identity", "skills", "channeling"}
  BY <1>5 DEF Primed
<1> QED BY <1>1, <1>2, <1>3, <1>4, <1>5

\* A step before there is a row.
LEMMA EarlyStep ==
    ASSUME CreationInv, step \notin Late, row' = row,
           DraftInv(draft'), step' \in WizardSteps \ Late,
           step' = "abilities" => draft'.scored,
           step' = "review" => DraftComplete(draft'),
           confirm' \in {"none", "restart", "cancel"}, field' \in {"none", "gender"},
           stage' \in {"affinities", "weaves"}, taken' \subseteq Names \cup {NoPick}
    PROVE  CreationInv'
<1>1. ChargenTypes'
  BY DEF CreationInv, ChargenTypes, DraftInv
<1>2. ScreenInv'
  BY DEF ScreenInv
<1>3. MadeInv'
  BY DEF CreationInv, MadeInv, Late, WizardSteps, Substeps
<1> QED BY <1>1, <1>2, <1>3 DEF CreationInv

LEMMA ToHub ==
    ASSUME CreationInv, step \notin Late, NEW d, DraftInv(d), ShowHub(d),
           confirm' \in {"none", "restart", "cancel"}, UNCHANGED <<field, stage, taken, row>>
    PROVE  CreationInv'
<1>1. step' \in WizardSteps \ Late /\ step' # "abilities" /\ (step' = "review" => DraftComplete(d)) /\ draft' = d
  BY DEF ShowHub, WizardSteps, Late
<1>2. field' \in {"none", "gender"} /\ stage' \in {"affinities", "weaves"} /\ taken' \subseteq Names \cup {NoPick}
  BY DEF CreationInv, ChargenTypes
<1> QED BY <1>1, <1>2, EarlyStep

LEMMA Edited ==
    ASSUME CreationInv, NEW d, DraftInv(d), draft' = d, step \in Substeps,
           step = "abilities" => d.scored,
           stage' \in {"affinities", "weaves"}, UNCHANGED <<step, confirm, field, taken, row>>
    PROVE  CreationInv'
<1>1. step' \in WizardSteps \ Late /\ step \notin Late /\ step' # "review" /\ (step' = "abilities" => draft'.scored)
  BY DEF WizardSteps, Late, Substeps
<1>2. confirm' \in {"none", "restart", "cancel"} /\ field' \in {"none", "gender"} /\ taken' \subseteq Names \cup {NoPick}
  BY DEF CreationInv, ChargenTypes
<1> QED BY <1>1, <1>2, EarlyStep

LEMMA PickKeeps == CreationInv /\ Pick => CreationInv'
<1> SUFFICES ASSUME CreationInv, Pick PROVE CreationInv'
  OBVIOUS
<1>0. DraftInv(draft) /\ draft \in Drafts /\ stage \in {"affinities", "weaves"} /\ confirm \in {"none", "restart", "cancel"}
      /\ field \in {"none", "gender"} /\ taken \subseteq Names \cup {NoPick}
  BY DEF CreationInv, DraftInv, ChargenTypes
<1>1. ASSUME NEW n \in Names, ApplyName(n) PROVE CreationInv'
  <2> DEFINE e == [draft EXCEPT !.name = n]
  <2>1. e \in Drafts /\ e.scores = draft.scores /\ e.scored = draft.scored /\ e.ranks = draft.ranks
        /\ e.budget = draft.budget /\ e.weaves = draft.weaves /\ e.affinities = draft.affinities
    BY <1>0 DEF Drafts
  <2>2. DraftInv(e)
    BY <1>0, <2>1 DEF DraftInv
  <2>3. step = "name" /\ draft' = e /\ step' = "race" /\ UNCHANGED <<confirm, field, stage, taken, row>>
    BY <1>1 DEF ApplyName
  <2>4. step \notin Late /\ step' \in WizardSteps \ Late
    BY <2>3 DEF Late, WizardSteps
  <2> QED BY <1>0, <2>2, <2>3, <2>4, EarlyStep
<1>2. ASSUME NEW r \in Races, ApplyRace(r) PROVE CreationInv'
  <2> DEFINE e == [draft EXCEPT !.race = r]
  <2>1. e \in Drafts /\ e.scores = draft.scores /\ e.scored = draft.scored /\ e.ranks = draft.ranks
        /\ e.budget = draft.budget /\ e.weaves = draft.weaves /\ e.affinities = draft.affinities
    BY <1>0 DEF Drafts
  <2>2. DraftInv(e)
    BY <1>0, <2>1 DEF DraftInv
  <2>3. step \notin Late /\ ShowHub(e) /\ UNCHANGED <<confirm, field, stage, taken, row>>
    BY <1>2 DEF ApplyRace, Late
  <2> HIDE DEF e
  <2> QED BY <1>0, <2>2, <2>3, ToHub
<1>3. ASSUME NEW b \in Backgrounds, ApplyBackground(b) PROVE CreationInv'
  <2> DEFINE e == [draft EXCEPT !.bg = b, !.kit = IF draft.bg = b THEN @ ELSE 0]
  <2>1. e \in Drafts /\ e.scores = draft.scores /\ e.scored = draft.scored /\ e.ranks = draft.ranks
        /\ e.budget = draft.budget /\ e.weaves = draft.weaves /\ e.affinities = draft.affinities
    BY <1>0 DEF Drafts
  <2>2. DraftInv(e)
    BY <1>0, <2>1 DEF DraftInv
  <2>3. step \notin Late /\ ShowHub(e) /\ UNCHANGED <<confirm, field, stage, taken, row>>
    BY <1>3 DEF ApplyBackground, Late
  <2> HIDE DEF e
  <2> QED BY <1>0, <2>2, <2>3, ToHub
<1>4. ASSUME NEW c \in Classes, ApplyClass(c) PROVE CreationInv'
  <2> DEFINE e == IF draft.class = c THEN draft
                  ELSE [draft EXCEPT !.class = c, !.source = NoPick, !.affinities = {}, !.weaves = {}]
  <2>1. e \in Drafts /\ e.scores = draft.scores /\ e.scored = draft.scored /\ e.ranks = draft.ranks
        /\ e.budget = draft.budget
        /\ (e.weaves = {} \/ (e.weaves = draft.weaves /\ e.affinities = draft.affinities))
    <3>1. CASE draft.class = c
      BY <1>0, <3>1
    <3>2. CASE draft.class # c
      <4>1. e = [draft EXCEPT !.class = c, !.source = NoPick, !.affinities = {}, !.weaves = {}]
        BY <3>2
      <4> HIDE DEF e
      <4> QED BY <1>0, <4>1 DEF Drafts
    <3> QED BY <3>1, <3>2
  <2>2. DraftInv(e)
    BY <1>0, <2>1 DEF DraftInv
  <2>3. step \notin Late /\ ShowHub(e) /\ UNCHANGED <<confirm, field, stage, taken, row>>
    BY <1>4 DEF ApplyClass, Late
  <2> HIDE DEF e
  <2> QED BY <1>0, <2>2, <2>3, ToHub
<1>5. ASSUME NEW a \in Abilities, NEW n \in MinScore..MaxScore, SetScore(a, n) PROVE CreationInv'
  <2> DEFINE v == [draft.scores EXCEPT ![a] = n]
             e == [draft EXCEPT !.scores = v]
  <2>1. /\ step = "abilities" /\ draft.scored /\ Spent(v) <= PointBuy
        /\ draft' = e /\ UNCHANGED <<step, confirm, field, stage, taken, row>>
    BY <1>5 DEF SetScore, Edit, CreationInv, ScreenInv
  <2>2. draft.scores \in [Abilities -> MinScore..MaxScore]
    BY <1>0, <2>1 DEF DraftInv
  <2>3. v \in [Abilities -> MinScore..MaxScore] /\ v \in [Abilities -> {0} \cup (MinScore..MaxScore)]
    BY <2>2
  <2> HIDE DEF v
  <2>4. e \in Drafts /\ e.scores = v /\ e.scored = draft.scored /\ e.ranks = draft.ranks
        /\ e.budget = draft.budget /\ e.weaves = draft.weaves /\ e.affinities = draft.affinities
    BY <1>0, <2>3 DEF Drafts
  <2>5. DraftInv(e)
    BY <1>0, <2>1, <2>3, <2>4 DEF DraftInv
  <2>6. step \in Substeps /\ stage' \in {"affinities", "weaves"}
    BY <1>0, <2>1 DEF Substeps
  <2> HIDE DEF e
  <2> QED BY <2>1, <2>4, <2>5, <2>6, Edited
<1>6. CASE ResetScores
  <2> DEFINE v == [a \in Abilities |-> MinScore]
             e == [draft EXCEPT !.scores = v]
  <2>1. /\ step = "abilities" /\ draft.scored
        /\ draft' = e /\ UNCHANGED <<step, confirm, field, stage, taken, row>>
    BY <1>6 DEF ResetScores, Edit, CreationInv, ScreenInv
  <2>2. v \in [Abilities -> MinScore..MaxScore] /\ v \in [Abilities -> {0} \cup (MinScore..MaxScore)]
        /\ Spent(v) <= PointBuy
    BY LeastScores
  <2> HIDE DEF v
  <2>4. e \in Drafts /\ e.scores = v /\ e.scored = draft.scored /\ e.ranks = draft.ranks
        /\ e.budget = draft.budget /\ e.weaves = draft.weaves /\ e.affinities = draft.affinities
    BY <1>0, <2>2 DEF Drafts
  <2>5. DraftInv(e)
    BY <1>0, <2>1, <2>2, <2>4 DEF DraftInv
  <2>6. step \in Substeps /\ stage' \in {"affinities", "weaves"}
    BY <1>0, <2>1 DEF Substeps
  <2> HIDE DEF e
  <2> QED BY <2>1, <2>4, <2>5, <2>6, Edited
<1>7. CASE AskField
  <2>1. step = "identity" /\ field' = "gender" /\ UNCHANGED <<step, draft, confirm, stage, taken, row>>
    BY <1>7 DEF AskField
  <2>2. step \notin Late /\ step' \in WizardSteps \ Late
    BY <2>1 DEF Late, WizardSteps, Substeps
  <2> QED BY <1>0, <2>1, <2>2, EarlyStep
<1>8. ASSUME NEW g \in {"male", "female"}, SetGender(g) PROVE CreationInv'
  <2> DEFINE e == [draft EXCEPT !.gender = g]
  <2>1. e \in Drafts /\ e.scores = draft.scores /\ e.scored = draft.scored /\ e.ranks = draft.ranks
        /\ e.budget = draft.budget /\ e.weaves = draft.weaves /\ e.affinities = draft.affinities
    BY <1>0 DEF Drafts
  <2>2. DraftInv(e)
    BY <1>0, <2>1 DEF DraftInv
  <2>3. step = "identity" /\ draft' = e /\ field' = "none" /\ UNCHANGED <<step, confirm, stage, taken, row>>
    BY <1>8 DEF SetGender
  <2>4. step \notin Late /\ step' \in WizardSteps \ Late
    BY <2>3 DEF Late, WizardSteps, Substeps
  <2> HIDE DEF e
  <2> QED BY <1>0, <2>2, <2>3, <2>4, EarlyStep
<1>9. ASSUME NEW f \in Feats, PickFeat(f) PROVE CreationInv'
  <2> DEFINE e == [draft EXCEPT !.feat = f]
  <2>1. e \in Drafts /\ e.scores = draft.scores /\ e.scored = draft.scored /\ e.ranks = draft.ranks
        /\ e.budget = draft.budget /\ e.weaves = draft.weaves /\ e.affinities = draft.affinities
    BY <1>0 DEF Drafts
  <2>2. DraftInv(e)
    BY <1>0, <2>1 DEF DraftInv
  <2>3. step = "feat" /\ draft' = e /\ UNCHANGED <<step, confirm, field, stage, taken, row>>
    BY <1>9 DEF PickFeat, Edit
  <2>4. step \in Substeps /\ stage' \in {"affinities", "weaves"} /\ step # "abilities"
    BY <1>0, <2>3 DEF Substeps
  <2> HIDE DEF e
  <2> QED BY <2>2, <2>3, <2>4, Edited
<1>10. ASSUME NEW k \in Skills, NEW n \in 0..RankCap, SetRank(k, n) PROVE CreationInv'
  <2> DEFINE v == [draft.ranks EXCEPT ![k] = n]
             e == [draft EXCEPT !.ranks = v]
  <2>1. /\ step = "skills" /\ RanksSpent(v) <= draft.budget
        /\ draft' = e /\ UNCHANGED <<step, confirm, field, stage, taken, row>>
    BY <1>10 DEF SetRank, Edit
  <2>3. v \in [Skills -> 0..RankCap]
    BY <1>0 DEF Drafts
  <2> HIDE DEF v
  <2>4. e \in Drafts /\ e.scores = draft.scores /\ e.scored = draft.scored /\ e.ranks = v
        /\ e.budget = draft.budget /\ e.weaves = draft.weaves /\ e.affinities = draft.affinities
    BY <1>0, <2>3 DEF Drafts
  <2>5. DraftInv(e)
    BY <1>0, <2>1, <2>4 DEF DraftInv
  <2>6. step \in Substeps /\ stage' \in {"affinities", "weaves"} /\ step # "abilities"
    BY <1>0, <2>1 DEF Substeps
  <2> HIDE DEF e
  <2> QED BY <2>1, <2>5, <2>6, Edited
<1>11. CASE ResetRanks
  <2> DEFINE e == [draft EXCEPT !.ranks = Blank.ranks]
  <2>1. step = "skills" /\ draft' = e /\ UNCHANGED <<step, confirm, field, stage, taken, row>>
    BY <1>11 DEF ResetRanks, Edit
  <2>4. e \in Drafts /\ e.scores = draft.scores /\ e.scored = draft.scored /\ e.ranks = Blank.ranks
        /\ e.budget = draft.budget /\ e.budget \in Nat /\ e.weaves = draft.weaves /\ e.affinities = draft.affinities
    BY <1>0, NoRanks DEF Drafts
  <2>5. DraftInv(e)
    BY <1>0, <2>4, NoRanks DEF DraftInv
  <2>6. step \in Substeps /\ stage' \in {"affinities", "weaves"} /\ step # "abilities"
    BY <1>0, <2>1 DEF Substeps
  <2> HIDE DEF e
  <2> QED BY <2>1, <2>5, <2>6, Edited
<1>12. ASSUME NEW d, NEW ps \in SUBSET Powers, NEW ws \in SUBSET Weaves, NEW st \in {"affinities", "weaves"},
              step = "channeling", ws \subseteq Eligible(ps),
              d = [draft EXCEPT !.affinities = ps, !.weaves = ws],
              ShowChanneling(d, st)
       PROVE  CreationInv'
  <2>1. d \in Drafts /\ d.scores = draft.scores /\ d.scored = draft.scored /\ d.ranks = draft.ranks
        /\ d.budget = draft.budget /\ d.affinities = ps /\ d.weaves = ws
    BY <1>0, <1>12 DEF Drafts
  <2>2. DraftInv(d)
    BY <1>0, <1>12, <2>1 DEF DraftInv
  <2>3. draft' = d /\ stage' \in {"affinities", "weaves"} /\ UNCHANGED <<step, confirm, field, taken, row>>
    BY <1>12 DEF ShowChanneling
  <2>4. step \in Substeps /\ step # "abilities"
    BY <1>12 DEF Substeps
  <2> QED BY <2>2, <2>3, <2>4, Edited
<1>a. draft.affinities \in SUBSET Powers /\ draft.weaves \in SUBSET Weaves /\ draft.weaves \subseteq Eligible(draft.affinities)
  BY <1>0 DEF Drafts, DraftInv
<1>b. \A ps, ws : [draft EXCEPT !.affinities = ps, !.weaves = ws] =
                  [[draft EXCEPT !.affinities = ps] EXCEPT !.weaves = ws]
  BY <1>0 DEF Drafts
<1>c. /\ \A ps : [draft EXCEPT !.affinities = ps, !.weaves = draft.weaves] = [draft EXCEPT !.affinities = ps]
      /\ \A ws : [draft EXCEPT !.affinities = draft.affinities, !.weaves = ws] = [draft EXCEPT !.weaves = ws]
      /\ [draft EXCEPT !.affinities = draft.affinities, !.weaves = draft.weaves] = draft
  BY <1>0 DEF Drafts
<1>13. ASSUME NEW p \in Powers, ToggleAffinity(p) PROVE CreationInv'
  <2>1. CASE /\ p \in draft.affinities
             /\ ShowChanneling([draft EXCEPT !.affinities = @ \ {p}, !.weaves = {}], stage)
    <3> DEFINE d == [draft EXCEPT !.affinities = draft.affinities \ {p}, !.weaves = {}]
    <3>1. step = "channeling" /\ ShowChanneling(d, stage)
      BY <1>13, <2>1 DEF ToggleAffinity
    <3>2. draft.affinities \ {p} \in SUBSET Powers /\ {} \in SUBSET Weaves /\ {} \subseteq Eligible(draft.affinities \ {p})
      BY <1>a
    <3> HIDE DEF ShowChanneling
    <3> QED BY <1>0, <1>12, <3>1, <3>2
  <2>2. CASE /\ p \notin draft.affinities
             /\ LET powers == draft.affinities \cup {p}
                IN  ShowChanneling([draft EXCEPT !.affinities = powers,
                                                 !.weaves = @ \cap Eligible(powers)], stage)
    <3> DEFINE powers == draft.affinities \cup {p}
               ws == draft.weaves \cap Eligible(powers)
               d == [draft EXCEPT !.affinities = powers, !.weaves = ws]
    <3>1. step = "channeling" /\ ShowChanneling(d, stage)
      BY <1>13, <2>2 DEF ToggleAffinity
    <3>2. powers \in SUBSET Powers /\ ws \in SUBSET Weaves /\ ws \subseteq Eligible(powers)
      BY <1>a
    <3> HIDE DEF powers, ws
    <3> QED BY <1>0, <1>12, <3>1, <3>2
  <2> QED BY <1>13, <2>1, <2>2 DEF ToggleAffinity
<1>14. ASSUME NEW ps \in SUBSET Powers, SetAffinities(ps) PROVE CreationInv'
  <2> DEFINE ws == IF ps = draft.affinities THEN draft.weaves ELSE {}
             d == [draft EXCEPT !.affinities = ps, !.weaves = ws]
  <2>1. step = "channeling" /\ ShowChanneling(d, stage)
    BY <1>14 DEF SetAffinities
  <2>2. ws \in SUBSET Weaves /\ ws \subseteq Eligible(ps)
    BY <1>a
  <2> HIDE DEF ws
  <2> QED BY <1>0, <1>12, <2>1, <2>2
<1>15. ASSUME NEW w \in Weaves, ToggleWeave(w) PROVE CreationInv'
  <2>1. PICK ws : /\ ShowChanneling([draft EXCEPT !.weaves = ws], stage)
                  /\ ws \in {draft.weaves \ {w}, draft.weaves \cup {w}}
    BY <1>15 DEF ToggleWeave
  <2>2. step = "channeling" /\ w \in Eligible(draft.affinities)
    BY <1>15 DEF ToggleWeave
  <2>3. ws \in SUBSET Weaves /\ ws \subseteq Eligible(draft.affinities)
    BY <1>a, <2>1, <2>2
  <2>4. ShowChanneling([draft EXCEPT !.affinities = draft.affinities, !.weaves = ws], stage)
    BY <1>c, <2>1
  <2> QED BY <1>0, <1>a, <1>12, <2>2, <2>3, <2>4
<1>16. ASSUME NEW ws \in SUBSET Weaves, SetWeaves(ws) PROVE CreationInv'
  <2>1. step = "channeling" /\ ws \subseteq Eligible(draft.affinities)
        /\ ShowChanneling([draft EXCEPT !.weaves = ws], stage)
    BY <1>16 DEF SetWeaves
  <2>4. ShowChanneling([draft EXCEPT !.affinities = draft.affinities, !.weaves = ws], stage)
    BY <1>c, <2>1
  <2> QED BY <1>0, <1>a, <1>12, <2>1, <2>4
<1>17. CASE ToWeaves \/ ToAffinities
  <2>1. PICK st \in {"affinities", "weaves"} : step = "channeling" /\ ShowChanneling(draft, st)
    BY <1>17 DEF ToWeaves, ToAffinities
  <2>4. ShowChanneling([draft EXCEPT !.affinities = draft.affinities, !.weaves = draft.weaves], st)
    BY <1>c, <2>1
  <2> QED BY <1>0, <1>a, <1>12, <2>1, <2>4
<1>18. ASSUME NEW b \in Backgrounds, NEW n \in 1..Len(KitsOf[b]), PickKit(n) PROVE CreationInv'
  <2> DEFINE e == [draft EXCEPT !.kit = n]
  <2>0. n \in Nat
    BY CatalogAssumption DEF CatalogSound
  <2>1. e \in Drafts /\ e.scores = draft.scores /\ e.scored = draft.scored /\ e.ranks = draft.ranks
        /\ e.budget = draft.budget /\ e.weaves = draft.weaves /\ e.affinities = draft.affinities
    BY <1>0, <2>0 DEF Drafts
  <2>2. DraftInv(e)
    BY <1>0, <2>1 DEF DraftInv
  <2>3. step = "equipment" /\ draft' = e /\ UNCHANGED <<step, confirm, field, stage, taken, row>>
    BY <1>18 DEF PickKit, Edit
  <2>4. step \in Substeps /\ stage' \in {"affinities", "weaves"} /\ step # "abilities"
    BY <1>0, <2>3 DEF Substeps
  <2> HIDE DEF e
  <2> QED BY <2>2, <2>3, <2>4, Edited
<1> QED BY <1>1, <1>2, <1>3, <1>4, <1>5, <1>6, <1>7, <1>8, <1>9, <1>10, <1>11, <1>13, <1>14, <1>15, <1>16,
           <1>17, <1>18 DEF Pick

LEMMA NavigateKeeps == CreationInv /\ Navigate => CreationInv'
<1> SUFFICES ASSUME CreationInv, Navigate PROVE CreationInv'
  OBVIOUS
<1>0. DraftInv(draft) /\ draft \in Drafts /\ stage \in {"affinities", "weaves"} /\ confirm \in {"none", "restart", "cancel"}
      /\ field \in {"none", "gender"} /\ taken \subseteq Names \cup {NoPick}
  BY DEF CreationInv, DraftInv, ChargenTypes
<1>1. ASSUME NEW to \in Substeps, OpenRow(to) PROVE CreationInv'
  <2>1. step \notin Late /\ UNCHANGED <<confirm, taken, row>>
        /\ field' \in {"none", "gender"} /\ stage' \in {"affinities", "weaves"}
    BY <1>0, <1>1 DEF OpenRow, EnterSubstep, Late
  <2>2. CASE ShowHub(draft)
    <3>1. step' \in WizardSteps \ Late /\ step' # "abilities" /\ (step' = "review" => DraftComplete(draft)) /\ draft' = draft
      BY <2>2 DEF ShowHub, WizardSteps, Late
    <3> QED BY <1>0, <2>1, <3>1, EarlyStep
  <2>3. CASE step' = to /\ draft' = Primed(draft, to)
    <3>1. DraftInv(draft') /\ (step' = "abilities" => draft'.scored)
      BY <1>0, <2>3, PrimedKeeps
    <3>2. step' \in WizardSteps \ Late /\ step' # "review"
      BY <2>3 DEF WizardSteps, Late, Substeps
    <3> QED BY <1>0, <2>1, <3>1, <3>2, EarlyStep
  <2> QED BY <1>1, <2>2, <2>3 DEF OpenRow, EnterSubstep
<1>2. CASE LeaveSubstep
  <2>1. ShowHub(draft) /\ UNCHANGED <<confirm, field, stage, taken, row>> /\ step \notin Late
    BY <1>2 DEF LeaveSubstep, Done, Late
  <2> QED BY <1>0, <2>1, ToHub
<1>3. CASE Return
  <2>1. CASE ShowHub(draft) /\ step \in Substeps \cup {"hub"} /\ UNCHANGED <<confirm, field, stage, taken, row>>
    <3>1. step \notin Late
      BY <2>1 DEF Substeps, Late
    <3> QED BY <1>0, <2>1, <3>1, ToHub
  <2>2. CASE step \in {"race", "review"} /\ step' \in {"name", "hub"} /\ UNCHANGED <<draft, confirm, field, stage, taken, row>>
    <3>1. step \notin Late /\ step' \in WizardSteps \ Late /\ step' # "review" /\ step' # "abilities"
      BY <2>2 DEF Late, WizardSteps
    <3> QED BY <1>0, <2>2, <3>1, EarlyStep
  <2> QED BY <1>3, <2>1, <2>2 DEF Return
<1>4. ASSUME NEW what \in {"restart", "cancel"}, Ask(what) PROVE CreationInv'
  <2>1. step \notin Late /\ step' = "confirm" /\ confirm' = what /\ UNCHANGED <<draft, field, stage, taken, row>>
    BY <1>4 DEF Ask, Late, Substeps
  <2>2. step' \in WizardSteps \ Late
    BY <2>1 DEF WizardSteps, Late
  <2> QED BY <1>0, <2>1, <2>2, EarlyStep
<1>5. ASSUME NEW yes \in BOOLEAN, Answer(yes) PROVE CreationInv'
  <2>1. step \notin Late /\ confirm' = "none" /\ UNCHANGED <<field, stage, taken, row>>
    BY <1>5 DEF Answer, Late
  <2>2. CASE draft' = Blank /\ step' = "name"
    <3>1. step' \in WizardSteps \ Late
      BY <2>2 DEF WizardSteps, Late
    <3> QED BY <1>0, <2>1, <2>2, <3>1, BlankDraft, EarlyStep
  <2>3. CASE ShowHub(draft)
    BY <1>0, <2>1, <2>3, ToHub
  <2> QED BY <1>5, <2>2, <2>3 DEF Answer
<1> QED BY <1>1, <1>2, <1>3, <1>4, <1>5 DEF Navigate

\* A step after the row was created.
LEMMA LateStep ==
    ASSUME CreationInv, UNCHANGED <<draft, confirm, field, stage, taken>>, step \in Late,
           step' \in Late, row' \in Rows, row'.draft = row.draft,
           step' \in {"kit", "wear"} => row'.worn = {},
           step' = "wear" => row'.items = Len(Kit),
           WornIsWhole(Kit)'
    PROVE  CreationInv'
<1>1. ChargenTypes'
  BY DEF CreationInv, ChargenTypes, Late, WizardSteps
<1>2. ScreenInv' /\ DraftInv(draft')
  BY DEF CreationInv, ScreenInv, Late
<1>3. row.draft = draft /\ DraftComplete(draft) /\ Kit' = Kit
  BY DEF CreationInv, MadeInv, Kit
<1>4. MadeInv'
  BY <1>3 DEF MadeInv
<1> QED BY <1>1, <1>2, <1>4 DEF CreationInv

LEMMA CommitKeeps == CreationInv /\ Commit => CreationInv'
<1> SUFFICES ASSUME CreationInv, Commit PROVE CreationInv'
  OBVIOUS
<1>0. DraftInv(draft) /\ draft \in Drafts /\ stage \in {"affinities", "weaves"} /\ confirm \in {"none", "restart", "cancel"}
      /\ field \in {"none", "gender"} /\ taken \subseteq Names \cup {NoPick}
  BY DEF CreationInv, DraftInv, ChargenTypes
<1>1. CASE Finalise
  <2>0. step = "review" /\ UNCHANGED <<confirm, field, stage>> /\ DraftComplete(draft)
    BY <1>1 DEF Finalise, CreationInv, ScreenInv
  <2>1. CASE draft.name \in taken
    <3> DEFINE e == [draft EXCEPT !.name = NoPick]
    <3>1. step' = "name" /\ draft' = e /\ UNCHANGED <<taken, row>>
      BY <1>1, <2>1 DEF Finalise
    <3>2. e \in Drafts /\ e.scores = draft.scores /\ e.scored = draft.scored /\ e.ranks = draft.ranks
          /\ e.budget = draft.budget /\ e.weaves = draft.weaves /\ e.affinities = draft.affinities
      BY <1>0 DEF Drafts
    <3>3. DraftInv(e)
      BY <1>0, <3>2 DEF DraftInv
    <3>4. step \notin Late /\ step' \in WizardSteps \ Late
      BY <2>0, <3>1 DEF Late, WizardSteps
    <3> HIDE DEF e
    <3> QED BY <1>0, <2>0, <3>1, <3>3, <3>4, EarlyStep
  <2>2. CASE draft.name \notin taken
    <3>1. /\ step' = "kit" /\ taken' = taken \cup {draft.name} /\ draft' = draft
          /\ row' = [draft |-> draft, items |-> 0, worn |-> {}, coin |-> 0]
      BY <1>1, <2>2 DEF Finalise
    <3>2. row' \in Rows /\ row'.draft = draft /\ row'.worn = {}
      BY <1>0, <3>1 DEF Rows
    <3>3. draft.name \in Names \cup {NoPick}
      BY <1>0 DEF Drafts
    <3>4. ChargenTypes'
      BY <1>0, <2>0, <3>1, <3>2, <3>3 DEF ChargenTypes, WizardSteps
    <3>5. MadeInv'
      BY <2>0, <3>1, <3>2 DEF MadeInv, Late, WornIsWhole
    <3>6. ScreenInv'
      BY <3>1 DEF ScreenInv
    <3> QED BY <1>0, <3>1, <3>4, <3>5, <3>6 DEF CreationInv
  <2> QED BY <2>1, <2>2
<1>2. ASSUME step \in Late PROVE row \in Rows /\ row.draft = draft /\ DraftComplete(draft) /\ WornIsWhole(Kit)
  BY <1>2 DEF CreationInv, MadeInv
<1>3. CASE CreateKitItem
  <2>0. step = "kit" /\ step \in Late /\ UNCHANGED <<draft, confirm, field, stage, taken>> /\ row.worn = {}
    BY <1>3 DEF CreateKitItem, CreationInv, MadeInv, Late
  <2>1. CASE row.items = Len(Kit) /\ step' = "wear" /\ row' = row
    <3>1. step' \in Late /\ WornIsWhole(Kit)' /\ row' \in Rows
      BY <1>2, <2>0, <2>1 DEF Late, WornIsWhole
    <3> QED BY <1>2, <2>0, <2>1, <3>1, LateStep
  <2>2. CASE step' = step /\ row' = [row EXCEPT !.items = @ + 1]
    <3>1. row' \in Rows /\ row'.draft = row.draft /\ row'.worn = {}
      BY <1>2, <2>0, <2>2 DEF Rows
    <3>2. step' \in Late /\ WornIsWhole(Kit)' /\ step' # "wear"
      BY <2>0, <2>2, <3>1 DEF Late, WornIsWhole
    <3> QED BY <2>0, <3>1, <3>2, LateStep
  <2> QED BY <1>3, <2>1, <2>2 DEF CreateKitItem
<1>4. CASE WearKit
  <2>0. step = "wear" /\ step \in Late /\ UNCHANGED <<draft, confirm, field, stage, taken>> /\ row.items = Len(Kit)
        /\ step' = "purse" /\ row' = [row EXCEPT !.worn = FirstOfType(Kit)]
    BY <1>4 DEF WearKit, CreationInv, MadeInv, Late
  <2>1. draft.bg \in Backgrounds /\ draft.kit \in 1..Len(KitsOf[draft.bg])
    BY <1>0, <1>2, <2>0 DEF DraftComplete, EquipmentRowComplete, Drafts
  <2>2. KitsOf[draft.bg] \in Seq(Seq(STRING))
    BY <2>1, CatalogAssumption DEF CatalogSound
  <2>3. Kit \in Seq(STRING)
    BY <2>1, <2>2 DEF Kit
  <2>4. Len(Kit) \in Nat /\ DOMAIN Kit = 1..Len(Kit)
    BY <2>3
  <2>5. FirstOfType(Kit) \subseteq 1..Len(Kit)
    BY DEF FirstOfType
  <2>6. \A i, j \in FirstOfType(Kit) : Kit[i] = Kit[j] => i = j
    <3> SUFFICES ASSUME NEW i \in FirstOfType(Kit), NEW j \in FirstOfType(Kit), Kit[i] = Kit[j] PROVE i = j
      OBVIOUS
    <3>1. i \in 1..Len(Kit) /\ j \in 1..Len(Kit)
      BY <2>5
    <3>2. \A k \in 1..(i - 1) : Kit[k] # Kit[i]
      BY DEF FirstOfType
    <3>3. \A k \in 1..(j - 1) : Kit[k] # Kit[j]
      BY DEF FirstOfType
    <3> QED BY <2>4, <3>1, <3>2, <3>3
  <2>7. row' \in Rows /\ row'.draft = row.draft /\ row'.worn = FirstOfType(Kit) /\ row'.items = row.items
    BY <1>2, <2>0, <2>4, <2>5 DEF Rows
  <2>8. Kit' = Kit
    BY <2>0 DEF Kit
  <2>9. WornIsWhole(Kit)'
    BY <2>0, <2>5, <2>6, <2>7, <2>8 DEF WornIsWhole
  <2>10. step' \in Late /\ step' \notin {"kit", "wear"}
    BY <2>0 DEF Late
  <2> QED BY <2>0, <2>7, <2>9, <2>10, LateStep
<1>5. CASE KitFails
  <2>0. step \in Late /\ step' = "purse" /\ UNCHANGED <<draft, confirm, field, stage, taken, row>>
    BY <1>5 DEF KitFails, Late
  <2>1. step' \in Late /\ row' \in Rows /\ WornIsWhole(Kit)' /\ step' \notin {"kit", "wear"}
    BY <1>2, <2>0 DEF Late, WornIsWhole, Kit
  <2> QED BY <2>0, <2>1, LateStep
<1>6. CASE FillPurse
  <2>0. step \in Late /\ step' = "done" /\ UNCHANGED <<draft, confirm, field, stage, taken>>
        /\ (row' = row \/ row' = [row EXCEPT !.coin = CoinOf[draft.class]])
    BY <1>6 DEF FillPurse, Late
  <2>1. CoinOf[draft.class] \in Nat
    BY <1>0, <1>2, <2>0, CatalogAssumption DEF DraftComplete, Drafts, CatalogSound
  <2>2. row' \in Rows /\ row'.draft = row.draft /\ row'.worn = row.worn /\ row'.items = row.items
    BY <1>2, <2>0, <2>1 DEF Rows
  <2>3. step' \in Late /\ WornIsWhole(Kit)' /\ step' \notin {"kit", "wear"}
    BY <1>2, <2>0, <2>2 DEF Late, WornIsWhole, Kit
  <2> QED BY <2>0, <2>2, <2>3, LateStep
<1> QED BY <1>1, <1>3, <1>4, <1>5, <1>6 DEF Commit

\* The invariant of the wizard: the draft within its budgets on every screen.
THEOREM CreationInvariant == ChargenSpec => []CreationInv
<1>1. ChargenInit => CreationInv
  <2> SUFFICES ASSUME ChargenInit PROVE CreationInv
    OBVIOUS
  <2>1. DraftInv(draft)
    BY BlankDraft DEF ChargenInit
  <2>2. ChargenTypes /\ ScreenInv /\ MadeInv
    BY <2>1 DEF ChargenInit, ChargenTypes, ScreenInv, MadeInv, Late, WizardSteps, DraftInv
  <2> QED BY <2>1, <2>2 DEF CreationInv
<1>2. ASSUME CreationInv, [ChargenNext]_chargenVars PROVE CreationInv'
  <2>1. CASE UNCHANGED chargenVars
    <3>1. UNCHANGED <<step, draft, confirm, field, stage, taken, row>>
      BY <2>1 DEF chargenVars
    <3> QED BY <1>2, <3>1 DEF CreationInv, ChargenTypes, ScreenInv, MadeInv, Kit, WornIsWhole
  <2>2. ASSUME NEW n \in Names, TakeName(n) PROVE CreationInv'
    <3>1. UNCHANGED <<step, draft, confirm, field, stage, row>> /\ taken' = taken \cup {n}
      BY <2>2 DEF TakeName
    <3> QED BY <1>2, <3>1 DEF CreationInv, ChargenTypes, ScreenInv, MadeInv, Kit, WornIsWhole
  <2> QED BY <1>2, <2>1, <2>2, PickKeeps, NavigateKeeps, CommitKeeps DEF ChargenNext
<1> QED BY <1>1, <1>2, PTL DEF ChargenSpec

\* In whatever order the substeps were visited, a character that is created has
\* its choices made, scores within the point buy, ranks within the budget its
\* skills row was given, an equipment option of its background, weaves of its
\* powers if it channels, and wears only what was made (chargen_hub.go,
\* character_create.go).  Its name, its race and whether its background bars its
\* class are not part of it.
THEOREM CreationAlwaysSound == ChargenSpec => []CreatedSound
<1>1. CreationInv => CreatedSound
  <2> SUFFICES ASSUME CreationInv, row # NoPick
               PROVE  RowIsSound(row.draft) /\ WornIsWhole(KitsOf[row.draft.bg][row.draft.kit])
    BY DEF CreationInv, CreatedSound
  <2>1. step \in Late
    BY DEF CreationInv, MadeInv
  <2>2. row.draft = draft /\ DraftComplete(draft) /\ WornIsWhole(Kit)
    BY <2>1 DEF CreationInv, MadeInv
  <2>3. RowIsSound(draft)
    BY <2>2 DEF CreationInv, DraftInv, RowIsSound, DraftComplete, EquipmentRowComplete
  <2> QED BY <2>2, <2>3 DEF Kit
<1> QED BY <1>1, CreationInvariant, PTL

-----------------------------------------------------------------------------
(* The fight of a room (Fight).                                             *)

\* What a pulse or a script is working on is there to be worked on.
AtWork(job) ==
    /\ job.pc \notin {"free", "fled"} => job.target \in Actors
    /\ job.pc \in {"roll", "tally", "fled"} => job.by \in Chars
    /\ job.pc = "despawn" => job.target \in Mobs
    /\ job.pc = "respawn" => job.target \in Chars

\* Only characters act, and a blow is aimed at somebody.
Aimed(who, act) ==
    /\ act.kind # "none" => who \in Chars
    /\ act.kind = "attack" => act.target \in Actors

\* A pulse that acts has an actor to act for, and one that is busy is at work.
Pulsing(now, job) ==
    /\ now.pc \in {"act", "busy", "swung"} => now.todo # <<>>
    /\ job.pc # "free" <=> now.pc = "busy"
    /\ \A i \in DOMAIN now.todo : Aimed(now.todo[i].who, now.todo[i].act)

Combat ==
    /\ FightTypeOK
    /\ \A c \in Chars : Aimed(c, actions[c])
    /\ \A w \in Strikers : AtWork(work[w])
    /\ \A p \in Pulses : Pulsing(pulse[p], work[p])

Doing == [who : Actors, act : Action]
Pulse == [pc : {"idle", "check", "end", "lock", "act", "busy", "swung"},
          snap : SUBSET Actors, todo : Seq(Doing)]

LEMMA AppendToFew ==
    ASSUME NEW a, NEW b
    PROVE  Append(<<>>, a) = <<a>> /\ Append(<<a>>, b) = <<a, b>>
<1>1. <<a>> \in Seq({a, b}) /\ Len(<<a>>) = 1 /\ <<a>>[1] = a
  OBVIOUS
<1>2. /\ Append(<<a>>, b) \in Seq({a, b}) /\ Len(Append(<<a>>, b)) = 2
      /\ Append(<<a>>, b)[1] = a /\ Append(<<a>>, b)[2] = b
  BY <1>1
<1>3. <<a, b>> \in Seq({a, b}) /\ Len(<<a, b>>) = 2 /\ <<a, b>>[1] = a /\ <<a, b>>[2] = b
  OBVIOUS
<1>4. \A i \in 1..2 : Append(<<a>>, b)[i] = <<a, b>>[i]
  BY <1>2, <1>3
<1>5. Append(<<a>>, b) = <<a, b>>
  BY <1>2, <1>3, <1>4, SeqEqual
<1>6. Append(<<>>, a) = <<a>>
  OBVIOUS
<1> QED BY <1>5, <1>6

\* Of an order of two, those who are left are in their order.
LEMMA AmongTwo ==
    ASSUME NEW T, NEW s \in Seq(T), Len(s) <= 2, IsInjective(s), NEW S
    PROVE  /\ Among(s, S) \in Seq(T) /\ Len(Among(s, S)) <= Len(s) /\ IsInjective(Among(s, S))
           /\ ToSet(Among(s, S)) = ToSet(s) \cap S
<1> DEFINE Grown(f, i) == IF i = 0 THEN <<>>
                          ELSE IF s[i] \in S THEN Append(f[i - 1], s[i]) ELSE f[i - 1]
           P(f) == f = [i \in 0..Len(s) |-> Grown(f, i)]
           one == IF s[1] \in S THEN <<s[1]>> ELSE <<>>
           two == IF s[2] \in S THEN Append(one, s[2]) ELSE one
           w == [i \in 0..Len(s) |-> IF i = 0 THEN <<>> ELSE IF i = 1 THEN one ELSE two]
           g == CHOOSE f : P(f)
<1>1. P(w)
  <2>1. ASSUME NEW i \in 0..Len(s) PROVE Grown(w, i) = w[i]
    <3>1. CASE i = 0
      BY <3>1
    <3>2. CASE i = 1
      <4>1. w[0] = <<>> /\ w[1] = one
        BY <3>2
      <4>2. Append(<<>>, s[1]) = <<s[1]>>
        OBVIOUS
      <4>3. w[1 - 1] = <<>>
        BY <4>1
      <4> HIDE DEF w
      <4> QED BY <3>2, <4>1, <4>2, <4>3
    <3>3. CASE i = 2
      <4>1. w[1] = one /\ w[2] = two
        BY <3>3
      <4> HIDE DEF w
      <4> QED BY <3>3, <4>1
    <3> QED BY <3>1, <3>2, <3>3
  <2> HIDE DEF Grown
  <2> QED BY <2>1
<1>2. P(g)
  <2> HIDE DEF P, w
  <2> QED BY <1>1
<1>0. CASE ToSet(s) \subseteq S
  <2>1. Among(s, S) = s
    BY <1>0 DEF Among
  <2> QED BY <1>0, <2>1
<1>a. SUFFICES ASSUME ~(ToSet(s) \subseteq S)
               PROVE  /\ Among(s, S) \in Seq(T) /\ Len(Among(s, S)) <= Len(s) /\ IsInjective(Among(s, S))
                      /\ ToSet(Among(s, S)) = ToSet(s) \cap S
  BY <1>0
<1>3. Among(s, S) = g[Len(s)]
  BY <1>a DEF Among
<1>4. \A i \in 0..Len(s) : g[i] = Grown(g, i)
  <2> HIDE DEF Grown, g
  <2> QED BY <1>2
<1> HIDE DEF g
<1>5. CASE Len(s) = 0
  <2>1. Among(s, S) = <<>>
    BY <1>3, <1>4, <1>5
  <2>2. ToSet(s) = {}
    BY <1>5 DEF ToSet
  <2> QED BY <1>5, <2>1, <2>2 DEF ToSet, IsInjective
<1>6. g[0] = <<>> /\ (Len(s) > 0 => g[1] = one)
  <2>1. g[0] = <<>>
    BY <1>4
  <2>2. ASSUME Len(s) > 0 PROVE g[1] = one
    <3>1. g[1] = IF s[1] \in S THEN Append(g[0], s[1]) ELSE g[0]
      BY <1>4, <2>2
    <3>2. Append(<<>>, s[1]) = <<s[1]>>
      OBVIOUS
    <3> QED BY <2>1, <3>1, <3>2
  <2> QED BY <2>1, <2>2
<1>7. CASE Len(s) = 1
  <2>1. Among(s, S) = one
    BY <1>3, <1>6, <1>7
  <2>2. ToSet(s) = {s[1]} /\ s[1] \in T
    BY <1>7 DEF ToSet
  <2>3. one \in Seq(T) /\ Len(one) <= 1 /\ ToSet(one) = ToSet(s) \cap S /\ IsInjective(one)
    BY <2>2 DEF ToSet, IsInjective
  <2> QED BY <1>7, <2>1, <2>3
<1>8. CASE Len(s) = 2
  <2>1. g[2] = IF s[2] \in S THEN Append(g[1], s[2]) ELSE g[1]
    BY <1>4, <1>8
  <2>2. Among(s, S) = two
    BY <1>3, <1>6, <1>8, <2>1
  <2>3. ToSet(s) = {s[1], s[2]} /\ s[1] \in T /\ s[2] \in T /\ s[1] # s[2]
    BY <1>8 DEF ToSet, IsInjective
  <2>4. two = IF s[1] \in S THEN IF s[2] \in S THEN <<s[1], s[2]>> ELSE <<s[1]>>
              ELSE IF s[2] \in S THEN <<s[2]>> ELSE <<>>
    <3>1. Append(<<s[1]>>, s[2]) = <<s[1], s[2]>> /\ Append(<<>>, s[2]) = <<s[2]>>
      BY AppendToFew
    <3> QED BY <3>1
  <2> HIDE DEF two, one
  <2>5. two \in Seq(T) /\ Len(two) <= 2 /\ IsInjective(two)
    BY <2>3, <2>4 DEF IsInjective
  <2>6. ToSet(two) = ToSet(s) \cap S
    BY <2>3, <2>4 DEF ToSet
  <2> QED BY <1>8, <2>2, <2>5, <2>6
<1> HIDE DEF P, w, one, two, Grown
<1>9. Len(s) = 0 \/ Len(s) = 1 \/ Len(s) = 2
  <2>1. Len(s) \in Nat
    OBVIOUS
  <2>2. \A n \in Nat : n <= 2 => n = 0 \/ n = 1 \/ n = 2
    OBVIOUS
  <2> QED BY <2>1, <2>2
<1> QED BY <1>5, <1>7, <1>8, <1>9

-----------------------------------------------------------------------------
\* What every step needs of the types.
LEMMA CombatTypes ==
    ASSUME Combat
    PROVE  /\ FightTypeOK
           /\ order \in Seq(Actors) /\ Len(order) <= 2 /\ IsInjective(order)
           /\ ready \subseteq Actors /\ dead \subseteq Actors /\ fled \subseteq Actors /\ tally \subseteq Chars
           /\ actions \in [Chars -> Action]
           /\ at \in [Actors -> {"here", "away", "gone"}] /\ \A c \in Chars : at[c] # "gone"
           /\ hp \in [Actors -> 0..HPMax] /\ verb \in [Chars -> Actors \cup {NoOne}]
           /\ pulse \in [Pulses -> Pulse] /\ work \in [Strikers -> Work]
           /\ inputs \in 0..MaxInputs /\ deaths \in [Mobs -> Nat] /\ scripted \subseteq Mobs
           /\ \A c \in Chars : Aimed(c, actions[c])
           /\ \A w \in Strikers : AtWork(work[w])
           /\ \A p \in Pulses : Pulsing(pulse[p], work[p])
BY DEF Combat, FightTypeOK, Pulse, Doing

\* The verbs, the walks and the passing of time.
LEMMA CombatVerbs ==
    ASSUME Combat,
           \/ \E c \in Chars : \/ \E t \in Actors : Attack(c, t)
                               \/ EnqueueAttack(c) \/ Enqueue(c)
           \/ \E a \in Actors : Move(a) \/ Ready(a)
    PROVE  Combat'
<1>t. /\ FightTypeOK
      /\ order \in Seq(Actors) /\ Len(order) <= 2 /\ IsInjective(order)
      /\ ready \subseteq Actors
      /\ actions \in [Chars -> Action]
      /\ at \in [Actors -> {"here", "away", "gone"}] /\ \A c \in Chars : at[c] # "gone"
      /\ verb \in [Chars -> Actors \cup {NoOne}]
      /\ inputs \in 0..MaxInputs
      /\ \A c \in Chars : Aimed(c, actions[c])
      /\ \A w \in Strikers : AtWork(work[w])
      /\ \A p \in Pulses : Pulsing(pulse[p], work[p])
  BY CombatTypes
<1>n. MaxInputs \in Nat
  BY FightAssumption
<1>i. Input => inputs' \in 0..MaxInputs
  BY <1>t, <1>n DEF Input
<1>k. ASSUME UNCHANGED <<work, pulse>>
      PROVE  (\A w \in Strikers : AtWork(work[w])') /\ (\A p \in Pulses : Pulsing(pulse[p], work[p])')
  BY <1>t, <1>k DEF AtWork, Pulsing
<1>1. ASSUME NEW c \in Chars, NEW t \in Actors, Attack(c, t) PROVE Combat'
  <2>1. /\ Input /\ c # t /\ verb' = [verb EXCEPT ![c] = t]
        /\ (UNCHANGED <<order, ready>> \/ (order' \in {<<c, t>>, <<t, c>>} /\ ready' = {c, t}))
        /\ UNCHANGED <<actions, dead, fled, tally, at, hp, pulse, work, deaths, scripted>>
    BY <1>1 DEF Attack, world, history
  <2>2. c \in Actors
    BY DEF Actors
  <2>3. order' \in Seq(Actors) /\ Len(order') <= 2 /\ IsInjective(order') /\ ready' \subseteq Actors
    <3>1. CASE UNCHANGED <<order, ready>>
      BY <1>t, <3>1
    <3>2. ASSUME order' = <<c, t>>, ready' = {c, t}
          PROVE  order' \in Seq(Actors) /\ Len(order') <= 2 /\ IsInjective(order') /\ ready' \subseteq Actors
      BY <2>1, <2>2, <3>2 DEF IsInjective
    <3>3. ASSUME order' = <<t, c>>, ready' = {c, t}
          PROVE  order' \in Seq(Actors) /\ Len(order') <= 2 /\ IsInjective(order') /\ ready' \subseteq Actors
      BY <2>1, <2>2, <3>3 DEF IsInjective
    <3> QED BY <2>1, <3>1, <3>2, <3>3
  <2>4. FightTypeOK'
    BY <1>t, <1>i, <2>1, <2>3 DEF FightTypeOK
  <2>5. \A i \in Chars : Aimed(i, actions[i])'
    BY <1>t, <2>1 DEF Aimed
  <2> QED BY <1>k, <2>1, <2>4, <2>5 DEF Combat
<1>2. ASSUME NEW c \in Chars, EnqueueAttack(c) PROVE Combat'
  <2>1. /\ verb[c] # NoOne /\ verb' = [verb EXCEPT ![c] = NoOne]
        /\ (UNCHANGED actions \/ actions' = [actions EXCEPT ![c] = [kind |-> "attack", target |-> verb[c]]])
        /\ UNCHANGED <<order, ready, dead, fled, tally, at, hp, pulse, work, inputs, deaths, scripted>>
    BY <1>2 DEF EnqueueAttack, EnqueueAction, world, history
  <2>2. verb[c] \in Actors
    BY <1>t, <2>1
  <2> DEFINE act == [kind |-> "attack", target |-> verb[c]]
  <2>a. act \in Action /\ Aimed(c, act)
    BY <2>2 DEF Aimed, Action
  <2> HIDE DEF act
  <2>3. actions' \in [Chars -> Action] /\ \A d \in Chars : Aimed(d, actions'[d])
    <3>1. UNCHANGED actions \/ actions' = [actions EXCEPT ![c] = act]
      BY <2>1 DEF act
    <3> QED BY <1>t, <2>a, <3>1
  <2>4. FightTypeOK'
    BY <1>t, <2>1, <2>3 DEF FightTypeOK
  <2>5. \A i \in Chars : Aimed(i, actions[i])'
    BY <2>3 DEF Aimed
  <2> QED BY <1>k, <2>1, <2>4, <2>5 DEF Combat
<1>3. ASSUME NEW c \in Chars, Enqueue(c) PROVE Combat'
  <2>1. /\ Input
        /\ (UNCHANGED actions \/ actions' = [actions EXCEPT ![c] = [kind |-> "flee", target |-> NoOne]])
        /\ UNCHANGED <<order, ready, dead, fled, tally, at, hp, verb, pulse, work, deaths, scripted>>
    BY <1>3 DEF Enqueue, EnqueueAction, world, history
  <2> DEFINE act == [kind |-> "flee", target |-> NoOne]
  <2>2. act \in Action /\ Aimed(c, act)
    BY DEF Aimed, Action
  <2> HIDE DEF act
  <2>3. actions' \in [Chars -> Action] /\ \A d \in Chars : Aimed(d, actions'[d])
    <3>1. UNCHANGED actions \/ actions' = [actions EXCEPT ![c] = act]
      BY <2>1 DEF act
    <3> QED BY <1>t, <2>2, <3>1
  <2>4. FightTypeOK'
    BY <1>t, <1>i, <2>1, <2>3 DEF FightTypeOK
  <2>5. \A i \in Chars : Aimed(i, actions[i])'
    BY <2>3 DEF Aimed
  <2> QED BY <1>k, <2>1, <2>4, <2>5 DEF Combat
<1>4. ASSUME NEW a \in Actors, Move(a) PROVE Combat'
  <2>1. /\ Input /\ at' = [at EXCEPT ![a] = IF at[a] = "here" THEN "away" ELSE "here"]
        /\ UNCHANGED <<order, ready, actions, dead, fled, tally, hp, verb, pulse, work, deaths, scripted>>
    BY <1>4 DEF Move, fightVars, history
  <2>2. at' \in [Actors -> {"here", "away", "gone"}] /\ \A c \in Chars : at'[c] # "gone"
    BY <1>t, <2>1 DEF Actors
  <2>4. FightTypeOK'
    BY <1>t, <1>i, <2>1, <2>2 DEF FightTypeOK
  <2>5. \A i \in Chars : Aimed(i, actions[i])'
    BY <1>t, <2>1 DEF Aimed
  <2> QED BY <1>k, <2>1, <2>4, <2>5 DEF Combat
<1>5. ASSUME NEW a \in Actors, Ready(a) PROVE Combat'
  <2>1. /\ ready' = ready \cup {a}
        /\ UNCHANGED <<order, actions, dead, fled, tally, at, hp, verb, pulse, work, inputs, deaths, scripted>>
    BY <1>5 DEF Ready, world, history
  <2>4. FightTypeOK'
    BY <1>t, <2>1 DEF FightTypeOK
  <2>5. \A i \in Chars : Aimed(i, actions[i])'
    BY <1>t, <2>1 DEF Aimed
  <2> QED BY <1>k, <2>1, <2>4, <2>5 DEF Combat
<1> QED BY <1>1, <1>2, <1>3, <1>4, <1>5

\* A step of one pulse or script leaves the others where they are.
LEMMA OneMoves ==
    ASSUME Combat, NEW w \in Strikers,
           \A v \in Strikers : v # w => work'[v] = work[v],
           \A q \in Pulses : q # w => pulse'[q] = pulse[q],
           AtWork(work'[w]), w \in Pulses => Pulsing(pulse'[w], work'[w])
    PROVE  (\A v \in Strikers : AtWork(work[v])') /\ (\A q \in Pulses : Pulsing(pulse[q], work[q])')
<1>1. (\A v \in Strikers : AtWork(work[v])) /\ (\A q \in Pulses : Pulsing(pulse[q], work[q]))
  BY CombatTypes
<1>2. \A v \in Strikers : AtWork(work'[v])
  BY <1>1
<1>3. ASSUME NEW q \in Pulses PROVE Pulsing(pulse'[q], work'[q])
  BY <1>1 DEF Strikers
<1> QED BY <1>2, <1>3 DEF AtWork, Pulsing

\* tickRoom up to the lock.
LEMMA CombatTicks ==
    ASSUME Combat, NEW p \in Pulses, TickRead(p) \/ TickCheck(p) \/ TickEnd(p) \/ TickLock(p)
    PROVE  Combat'
<1>t. /\ FightTypeOK
      /\ order \in Seq(Actors) /\ Len(order) <= 2 /\ IsInjective(order)
      /\ ready \subseteq Actors
      /\ actions \in [Chars -> Action]
      /\ pulse \in [Pulses -> Pulse] /\ work \in [Strikers -> Work]
      /\ \A c \in Chars : Aimed(c, actions[c])
      /\ AtWork(work[p]) /\ Pulsing(pulse[p], work[p])
  BY CombatTypes DEF Strikers
<1>w. p \in Strikers
  BY DEF Strikers
<1>i. IdlePulse \in Pulse /\ IdlePulse.pc = "idle" /\ IdlePulse.todo = <<>> /\ DOMAIN IdlePulse.todo = {}
  BY DEF IdlePulse, Pulse
<1>f. pulse[p].pc # "busy" => work[p].pc = "free"
  BY <1>t DEF Pulsing
<1>m. ASSUME NEW now \in Pulse, pulse' = [pulse EXCEPT ![p] = now], UNCHANGED work, Pulsing(now, work[p])
      PROVE  /\ pulse' \in [Pulses -> Pulse] /\ \A v \in Strikers : AtWork(work[v])'
             /\ \A q \in Pulses : Pulsing(pulse[q], work[q])'
  <2>1. pulse' \in [Pulses -> Pulse] /\ pulse'[p] = now /\ \A q \in Pulses : q # p => pulse'[q] = pulse[q]
    BY <1>t, <1>m
  <2> QED BY <1>t, <1>w, <1>m, <2>1, OneMoves
<1>1. CASE TickRead(p)
  <2> DEFINE now == [pc |-> "check", snap |-> ToSet(order), todo |-> <<>>]
  <2>1. /\ pulse[p].pc = "idle" /\ pulse' = [pulse EXCEPT ![p] = now]
        /\ UNCHANGED <<order, ready, actions, dead, fled, tally, at, hp, verb, work, inputs, deaths, scripted>>
    BY <1>1 DEF TickRead, fightVars, world, history
  <2>2. ToSet(order) \subseteq Actors
    BY <1>t DEF ToSet
  <2>3. now \in Pulse /\ Pulsing(now, work[p])
    BY <1>f, <2>1, <2>2 DEF Pulse, Pulsing
  <2> HIDE DEF now
  <2>4. FightTypeOK'
    BY <1>t, <1>m, <2>1, <2>3 DEF FightTypeOK, Pulse, Doing
  <2>5. \A i \in Chars : Aimed(i, actions[i])'
    BY <1>t, <2>1 DEF Aimed
  <2> QED BY <1>m, <2>1, <2>3, <2>4, <2>5 DEF Combat
<1>2. CASE TickCheck(p)
  <2> DEFINE now == [IdlePulse EXCEPT !.pc = IF FightHasLiveParticipants(pulse[p].snap) THEN "lock" ELSE "end"]
  <2>1. /\ pulse[p].pc = "check" /\ pulse' = [pulse EXCEPT ![p] = now]
        /\ UNCHANGED <<order, ready, actions, dead, fled, tally, at, hp, verb, work, inputs, deaths, scripted>>
    BY <1>2 DEF TickCheck, fightVars, world, history
  <2>3. now \in Pulse /\ Pulsing(now, work[p])
    BY <1>f, <1>i, <2>1 DEF Pulse, Pulsing
  <2> HIDE DEF now
  <2>4. FightTypeOK'
    BY <1>t, <1>m, <2>1, <2>3 DEF FightTypeOK, Pulse, Doing
  <2>5. \A i \in Chars : Aimed(i, actions[i])'
    BY <1>t, <2>1 DEF Aimed
  <2> QED BY <1>m, <2>1, <2>3, <2>4, <2>5 DEF Combat
<1>e. ASSUME EndFight
      PROVE  /\ order' \in Seq(Actors) /\ Len(order') <= 2 /\ IsInjective(order') /\ ready' \subseteq Actors
             /\ actions' \in [Chars -> Action] /\ \A c \in Chars : Aimed(c, actions'[c])
             /\ dead' \subseteq Actors /\ fled' \subseteq Actors /\ tally' \subseteq Chars
  BY <1>e DEF EndFight, NoAction, Action, Aimed, IsInjective
<1>3. CASE TickEnd(p)
  <2>1. /\ pulse[p].pc = "end" /\ pulse' = [pulse EXCEPT ![p] = IdlePulse] /\ EndFight
        /\ UNCHANGED <<at, hp, verb, work, inputs, deaths, scripted>>
    BY <1>3 DEF TickEnd, world, history
  <2>3. Pulsing(IdlePulse, work[p])
    BY <1>f, <1>i, <2>1 DEF Pulsing
  <2>m. /\ pulse' \in [Pulses -> Pulse] /\ \A v \in Strikers : AtWork(work[v])'
        /\ \A q \in Pulses : Pulsing(pulse[q], work[q])'
    BY <1>i, <1>m, <2>1, <2>3
  <2>4. FightTypeOK'
    BY <1>t, <1>e, <2>1, <2>m DEF FightTypeOK, Pulse, Doing
  <2>5. \A i \in Chars : Aimed(i, actions[i])'
    BY <1>e, <2>1 DEF Aimed
  <2> QED BY <2>m, <2>4, <2>5 DEF Combat
<1>4. CASE TickLock(p)
  <2> DEFINE left == Among(order, Actors \ (dead \cup fled))
             acting == Acting(left)
             todo == [i \in DOMAIN acting |-> [who |-> acting[i], act |-> Pending(acting[i])]]
             now == IF left = <<>> \/ acting = <<>> THEN IdlePulse ELSE [pc |-> "act", snap |-> {}, todo |-> todo]
  <2>1. /\ pulse[p].pc = "lock" /\ pulse' = [pulse EXCEPT ![p] = now]
        /\ \/ EndFight
           \/ /\ order' = left /\ dead' = {} /\ fled' = {} /\ ready' = ready \cap ToSet(left)
              /\ actions' = [c \in Chars |-> IF c \in ToSet(acting) THEN NoAction ELSE actions[c]]
              /\ UNCHANGED tally
        /\ UNCHANGED <<at, hp, verb, work, inputs, deaths, scripted>>
    BY <1>4 DEF TickLock, world, history
  <2>2. left \in Seq(Actors) /\ Len(left) <= Len(order) /\ IsInjective(left)
    BY <1>t, AmongTwo
  <2>3. Len(left) \in Nat /\ Len(order) \in Nat
    BY <1>t, <2>2
  <2>4. Len(left) <= 2
    BY <1>t, <2>2, <2>3
  <2> HIDE DEF left
  <2>5. acting \in Seq(Actors)
    BY <2>2, <2>4, AmongTwo DEF Acting
  <2> HIDE DEF acting
  <2>6. /\ todo \in Seq(Doing) /\ (acting # <<>> => todo # <<>>)
        /\ \A i \in DOMAIN todo : Aimed(todo[i].who, todo[i].act)
    <3>1. ASSUME NEW i \in DOMAIN acting
          PROVE  /\ [who |-> acting[i], act |-> Pending(acting[i])] \in Doing
                 /\ Aimed(acting[i], Pending(acting[i]))
      <4>1. acting[i] \in Actors
        BY <2>5
      <4>2. Pending(acting[i]) \in Action /\ Aimed(acting[i], Pending(acting[i]))
        BY <1>t, <4>1 DEF Pending, NoAction, Action, Aimed
      <4> QED BY <4>1, <4>2 DEF Doing
    <3>2. DOMAIN acting = 1..Len(acting) /\ Len(acting) \in Nat
      BY <2>5
    <3>3. todo \in Seq(Doing)
      BY <3>1, <3>2
    <3>a. acting # <<>> => Len(acting) # 0
      BY <2>5, EmptySeq
    <3>b. acting # <<>> => 1 \in DOMAIN acting
      <4>1. \A n \in Nat : n # 0 => 1 \in 1..n
        OBVIOUS
      <4> QED BY <3>2, <3>a, <4>1
    <3>4. acting # <<>> => DOMAIN todo # {}
      BY <3>b
    <3>5. todo # <<>> \/ DOMAIN todo = {}
      OBVIOUS
    <3>6. \A i \in DOMAIN todo : Aimed(todo[i].who, todo[i].act)
      BY <3>1
    <3> HIDE DEF todo
    <3> QED BY <3>3, <3>4, <3>5, <3>6
  <2> HIDE DEF todo
  <2>7. now \in Pulse /\ Pulsing(now, work[p])
    <3>1. CASE left = <<>> \/ acting = <<>>
      BY <1>f, <1>i, <2>1, <3>1 DEF Pulsing
    <3>2. CASE ~(left = <<>> \/ acting = <<>>)
      BY <1>f, <2>1, <2>6, <3>2 DEF Pulsing, Pulse
    <3> QED BY <3>1, <3>2
  <2> HIDE DEF now
  <2>m. /\ pulse' \in [Pulses -> Pulse] /\ \A v \in Strikers : AtWork(work[v])'
        /\ \A q \in Pulses : Pulsing(pulse[q], work[q])'
    BY <1>m, <2>1, <2>7
  <2>8. CASE EndFight
    <3>4. FightTypeOK'
      BY <1>t, <1>e, <2>1, <2>8, <2>m DEF FightTypeOK, Pulse, Doing
    <3>5. \A i \in Chars : Aimed(i, actions[i])'
      BY <1>e, <2>8 DEF Aimed
    <3> QED BY <2>m, <3>4, <3>5 DEF Combat
  <2>9. CASE /\ order' = left /\ dead' = {} /\ fled' = {} /\ ready' = ready \cap ToSet(left)
             /\ actions' = [c \in Chars |-> IF c \in ToSet(acting) THEN NoAction ELSE actions[c]]
             /\ UNCHANGED tally
    <3>3. actions' \in [Chars -> Action] /\ \A d \in Chars : Aimed(d, actions'[d])
      BY <1>t, <2>9 DEF Aimed, Action, NoAction
    <3>4. FightTypeOK'
      BY <1>t, <2>1, <2>2, <2>4, <2>9, <3>3, <2>m DEF FightTypeOK, Pulse, Doing
    <3>5. \A i \in Chars : Aimed(i, actions[i])'
      BY <3>3 DEF Aimed
    <3> QED BY <2>m, <3>4, <3>5 DEF Combat
  <2> QED BY <2>1, <2>8, <2>9
<1> QED BY <1>1, <1>2, <1>3, <1>4

\* A step of one striker, given what becomes of its work and of its pulse.
LEMMA StrikerMoves ==
    ASSUME Combat, NEW w \in Strikers, NEW job \in Work, NEW now,
           work' = [work EXCEPT ![w] = job], AtWork(job),
           pulse' = [pulse EXCEPT ![w] = now], w \in Pulses => now \in Pulse /\ Pulsing(now, job)
    PROVE  /\ pulse' \in [Pulses -> Pulse] /\ work' \in [Strikers -> Work] /\ work'[w] = job
           /\ \A v \in Strikers : v # w => work'[v] = work[v]
           /\ \A v \in Strikers : AtWork(work[v])'
           /\ \A q \in Pulses : Pulsing(pulse[q], work[q])'
<1>t. pulse \in [Pulses -> Pulse] /\ work \in [Strikers -> Work]
  BY CombatTypes
<1>1. pulse' \in [Pulses -> Pulse] /\ \A q \in Pulses : pulse'[q] = IF q = w THEN now ELSE pulse[q]
  BY <1>t
<1>2. work' \in [Strikers -> Work] /\ \A v \in Strikers : work'[v] = IF v = w THEN job ELSE work[v]
  BY <1>t
<1> QED BY <1>1, <1>2, OneMoves

\* A striker that is not a pulse leaves the pulses alone.
LEMMA PulsesStay ==
    ASSUME Combat, NEW w, w \notin Pulses, NEW now
    PROVE  pulse = [pulse EXCEPT ![w] = now]
<1>1. DOMAIN pulse = Pulses /\ pulse \in [Pulses -> Pulse]
  BY CombatTypes
<1> QED BY <1>1

\* The actor whose turn it is.
LEMMA TurnIsSound ==
    ASSUME Combat, NEW p \in Pulses, pulse[p].pc \in {"act", "busy", "swung"}
    PROVE  /\ pulse[p].todo # <<>> /\ Current(p) \in Doing /\ Aimed(Current(p).who, Current(p).act)
           /\ Tail(pulse[p].todo) \in Seq(Doing)
           /\ \A i \in DOMAIN Tail(pulse[p].todo) :
                 Aimed(Tail(pulse[p].todo)[i].who, Tail(pulse[p].todo)[i].act)
           /\ Len(pulse[p].todo) # 1 => Tail(pulse[p].todo) # <<>>
<1> DEFINE s == pulse[p].todo
<1>1. s \in Seq(Doing) /\ s # <<>> /\ \A i \in DOMAIN s : Aimed(s[i].who, s[i].act)
  BY CombatTypes DEF Pulse, Pulsing
<1> HIDE DEF s
<1>2. Len(s) \in Nat /\ Len(s) # 0 /\ DOMAIN s = 1..Len(s)
  BY <1>1, EmptySeq
<1>3. Head(s) = s[1] /\ 1 \in DOMAIN s
  BY <1>1, <1>2
<1>4. /\ Tail(s) \in Seq(Doing) /\ Len(Tail(s)) = Len(s) - 1
      /\ \A i \in 1..(Len(s) - 1) : Tail(s)[i] = s[i + 1]
  BY <1>1, <1>2
<1>5. DOMAIN Tail(s) = 1..(Len(s) - 1) /\ (Len(s) # 1 => Tail(s) # <<>>)
  BY <1>2, <1>4
<1>6. ASSUME NEW i \in DOMAIN Tail(s) PROVE Aimed(Tail(s)[i].who, Tail(s)[i].act)
  <2>1. Tail(s)[i] = s[i + 1] /\ i + 1 \in DOMAIN s
    BY <1>2, <1>4, <1>5
  <2> QED BY <1>1, <2>1
<1>7. Head(s) \in Doing /\ Aimed(Head(s).who, Head(s).act)
  BY <1>1, <1>3
<1> QED BY <1>1, <1>4, <1>5, <1>6, <1>7 DEF s, Current

\* The blows of a pulse.
LEMMA CombatStrikes ==
    ASSUME Combat, NEW p \in Pulses,
           \/ StrikeRead(p) \/ StrikeMisses(p) \/ (\E d \in 0..HPMax : StrikeHits(p, d)) \/ StrikeTally(p)
           \/ Swing(p) \/ Flee(p) \/ FleeMark(p) \/ NoEffect(p) \/ Restamp(p)
    PROVE  Combat'
<1>t. /\ FightTypeOK /\ ready \subseteq Actors /\ fled \subseteq Actors /\ tally \subseteq Chars
      /\ actions \in [Chars -> Action]
      /\ at \in [Actors -> {"here", "away", "gone"}] /\ \A c \in Chars : at[c] # "gone"
      /\ hp \in [Actors -> 0..HPMax]
      /\ pulse \in [Pulses -> Pulse] /\ work \in [Strikers -> Work]
      /\ \A c \in Chars : Aimed(c, actions[c])
      /\ AtWork(work[p]) /\ Pulsing(pulse[p], work[p]) /\ p \in Strikers
  BY CombatTypes DEF Strikers
<1>p. pulse[p] \in Pulse /\ work[p] \in Work
  BY <1>t
<1>w. p \in Strikers
  BY DEF Strikers
<1>n. HPMax \in Nat
  BY FightAssumption
<1>f. Free \in Work /\ AtWork(Free) /\ Free.pc = "free"
  BY <1>n DEF Free, Work, AtWork
<1>q. ASSUME NEW x \in {"act", "busy", "swung"}, NEW job, pulse[p].pc \in {"act", "busy", "swung"},
             job.pc # "free" <=> x = "busy"
      PROVE  /\ [pulse[p] EXCEPT !.pc = x] \in Pulse /\ Pulsing([pulse[p] EXCEPT !.pc = x], job)
  BY <1>t, <1>p, <1>q DEF Pulse, Pulsing
<1>b. work[p].pc # "free" <=> pulse[p].pc = "busy"
  BY <1>t DEF Pulsing
<1>s. work = [work EXCEPT ![p] = work[p]]
  BY <1>t
<1>1. CASE StrikeRead(p)
  <2> DEFINE t == Current(p).act.target
             job == [pc |-> "roll", by |-> Current(p).who, target |-> t, hp |-> hp[t], room |-> "here"]
  <2>1. /\ pulse[p].pc = "act" /\ Current(p).act.kind = "attack"
        /\ \/ work' = [work EXCEPT ![p] = job] /\ pulse' = [pulse EXCEPT ![p].pc = "busy"]
           \/ work' = work /\ pulse' = [pulse EXCEPT ![p].pc = "swung"]
        /\ UNCHANGED <<order, ready, actions, dead, fled, tally, at, hp, verb, inputs, deaths, scripted>>
    BY <1>1 DEF StrikeRead, fightVars, world, history
  <2>a. Current(p).who \in Chars /\ t \in Actors
    BY <2>1, TurnIsSound DEF Aimed
  <2>b. job \in Work /\ AtWork(job) /\ job.pc = "roll"
    BY <1>t, <2>a DEF Work, AtWork
  <2> HIDE DEF job
  <2>c. work[p].pc = "free"
    BY <1>b, <2>1
  <2>2. CASE work' = [work EXCEPT ![p] = job] /\ pulse' = [pulse EXCEPT ![p].pc = "busy"]
    <3>1. [pulse[p] EXCEPT !.pc = "busy"] \in Pulse /\ Pulsing([pulse[p] EXCEPT !.pc = "busy"], job)
      BY <1>q, <2>1, <2>b
    <3>m. /\ pulse' \in [Pulses -> Pulse] /\ work' \in [Strikers -> Work]
          /\ \A v \in Strikers : AtWork(work[v])'
          /\ \A q \in Pulses : Pulsing(pulse[q], work[q])'
      BY <1>w, <2>2, <2>b, <3>1, StrikerMoves
    <3>4. FightTypeOK'
      BY <1>t, <2>1, <3>m DEF FightTypeOK, Pulse, Doing
    <3>5. \A i \in Chars : Aimed(i, actions[i])'
      BY <1>t, <2>1 DEF Aimed
    <3> QED BY <3>m, <3>4, <3>5 DEF Combat
  <2>3. CASE work' = work /\ pulse' = [pulse EXCEPT ![p].pc = "swung"]
    <3>1. [pulse[p] EXCEPT !.pc = "swung"] \in Pulse /\ Pulsing([pulse[p] EXCEPT !.pc = "swung"], work[p])
      BY <1>q, <2>1, <2>c
    <3>m. /\ pulse' \in [Pulses -> Pulse] /\ work' \in [Strikers -> Work]
          /\ \A v \in Strikers : AtWork(work[v])'
          /\ \A q \in Pulses : Pulsing(pulse[q], work[q])'
      BY <1>t, <1>w, <1>p, <1>s, <2>3, <3>1, StrikerMoves
    <3>4. FightTypeOK'
      BY <1>t, <2>1, <3>m DEF FightTypeOK, Pulse, Doing
    <3>5. \A i \in Chars : Aimed(i, actions[i])'
      BY <1>t, <2>1 DEF Aimed
    <3> QED BY <3>m, <3>4, <3>5 DEF Combat
  <2> QED BY <2>1, <2>2, <2>3
<1>2. CASE StrikeMisses(p)
  <2>1. /\ work[p].pc = "roll"
        /\ UNCHANGED <<order, ready, actions, dead, fled, tally, at, hp, verb, inputs, deaths, scripted>>
    BY <1>2 DEF StrikeMisses, fightVars, world, history
  <2>2. work' = [work EXCEPT ![p] = Free] /\ pulse' = [pulse EXCEPT ![p] = [pulse[p] EXCEPT !.pc = "swung"]]
    BY <1>2 DEF StrikeMisses
  <2>3. /\ Free \in Work /\ AtWork(Free)
        /\ [pulse[p] EXCEPT !.pc = "swung"] \in Pulse /\ Pulsing([pulse[p] EXCEPT !.pc = "swung"], Free)
    BY <1>b, <1>f, <1>q, <2>1
  <2>m. /\ pulse' \in [Pulses -> Pulse] /\ work' \in [Strikers -> Work]
        /\ \A v \in Strikers : AtWork(work[v])'
        /\ \A q \in Pulses : Pulsing(pulse[q], work[q])'
    BY <1>w, <2>2, <2>3, StrikerMoves
  <2>4. FightTypeOK'
    BY <1>t, <2>1, <2>m DEF FightTypeOK, Pulse, Doing
  <2>5. \A i \in Chars : Aimed(i, actions[i])'
    BY <1>t, <2>1 DEF Aimed
  <2> QED BY <2>m, <2>4, <2>5 DEF Combat
<1>3. ASSUME NEW d \in 0..HPMax, StrikeHits(p, d) PROVE Combat'
  <2> DEFINE left == IF d < work[p].hp THEN work[p].hp - d ELSE 0
             job == [work[p] EXCEPT !.pc = "tally", !.hp = left]
  <2>1. /\ work[p].pc = "roll"
        /\ hp' = [hp EXCEPT ![work[p].target] = IF RowExists(work[p].target) THEN left ELSE @]
        /\ UNCHANGED <<order, ready, actions, dead, fled, tally, at, verb, inputs, deaths, scripted>>
    BY <1>3 DEF StrikeHits, fightVars, history
  <2>a. left \in 0..HPMax
    <3>1. work[p].hp \in 0..HPMax
      BY <1>p DEF Work
    <3> QED BY <1>n, <3>1
  <2>b. hp' \in [Actors -> 0..HPMax]
    <3> HIDE DEF left
    <3> QED BY <1>t, <2>1, <2>a
  <2>2. work' = [work EXCEPT ![p] = job] /\ pulse' = [pulse EXCEPT ![p] = pulse[p]]
    BY <1>3, <1>t DEF StrikeHits
  <2> HIDE DEF left
  <2>3. job \in Work /\ AtWork(job) /\ pulse[p] \in Pulse /\ Pulsing(pulse[p], job)
    BY <1>t, <1>p, <2>1, <2>a DEF Work, AtWork, Pulsing
  <2> HIDE DEF job
  <2>m. /\ pulse' \in [Pulses -> Pulse] /\ work' \in [Strikers -> Work]
        /\ \A v \in Strikers : AtWork(work[v])'
        /\ \A q \in Pulses : Pulsing(pulse[q], work[q])'
    BY <1>w, <2>2, <2>3, StrikerMoves
  <2>4. FightTypeOK'
    BY <1>t, <2>1, <2>m, <2>b DEF FightTypeOK, Pulse, Doing
  <2>5. \A i \in Chars : Aimed(i, actions[i])'
    BY <1>t, <2>1 DEF Aimed
  <2> QED BY <2>m, <2>4, <2>5 DEF Combat
<1>4. CASE StrikeTally(p)
  <2> DEFINE job == IF work[p].hp = 0 THEN [work[p] EXCEPT !.pc = "dead"] ELSE Free
             now == [pulse[p] EXCEPT !.pc = IF work[p].hp = 0 THEN pulse[p].pc ELSE "swung"]
  <2>1. /\ work[p].pc = "tally" /\ tally' = (IF Active THEN tally \cup {work[p].by} ELSE tally)
        /\ UNCHANGED <<order, ready, actions, dead, fled, at, hp, verb, inputs, deaths, scripted>>
    BY <1>4 DEF StrikeTally, world, history
  <2>b. tally' \subseteq Chars
    BY <1>t, <2>1 DEF AtWork
  <2>2. work' = [work EXCEPT ![p] = job] /\ pulse' = [pulse EXCEPT ![p] = now]
    BY <1>4, <1>t DEF StrikeTally
  <2>3. job \in Work /\ AtWork(job) /\ now \in Pulse /\ Pulsing(now, job)
    <3>1. CASE work[p].hp = 0
      <4>1. job \in Work /\ AtWork(job) /\ job.pc = "dead"
        BY <1>t, <1>p, <2>1, <3>1 DEF Work, AtWork
      <4>2. now = [pulse[p] EXCEPT !.pc = "busy"]
        BY <1>b, <2>1, <3>1
      <4> HIDE DEF job, now
      <4> QED BY <1>b, <1>q, <2>1, <4>1, <4>2
    <3>2. CASE work[p].hp # 0
      <4>1. job = Free /\ now = [pulse[p] EXCEPT !.pc = "swung"]
        BY <3>2
      <4> HIDE DEF job, now
      <4> QED BY <1>b, <1>f, <1>q, <2>1, <4>1
    <3> QED BY <3>1, <3>2
  <2> HIDE DEF job, now
  <2>m. /\ pulse' \in [Pulses -> Pulse] /\ work' \in [Strikers -> Work]
        /\ \A v \in Strikers : AtWork(work[v])'
        /\ \A q \in Pulses : Pulsing(pulse[q], work[q])'
    BY <1>w, <2>2, <2>3, StrikerMoves
  <2>4. FightTypeOK'
    BY <1>t, <2>1, <2>m, <2>b DEF FightTypeOK, Pulse, Doing
  <2>5. \A i \in Chars : Aimed(i, actions[i])'
    BY <1>t, <2>1 DEF Aimed
  <2> QED BY <2>m, <2>4, <2>5 DEF Combat
<1>5. CASE Swing(p)
  <2>1. /\ pulse[p].pc = "swung"
        /\ UNCHANGED <<order, ready, actions, dead, fled, tally, at, hp, verb, work, inputs, deaths, scripted>>
    BY <1>5 DEF Swing, fightVars, world, history
  <2>2. work' = [work EXCEPT ![p] = work[p]] /\ pulse' = [pulse EXCEPT ![p] = [pulse[p] EXCEPT !.pc = "act"]]
    BY <1>5, <1>s DEF Swing
  <2>3. /\ work[p] \in Work /\ AtWork(work[p])
        /\ [pulse[p] EXCEPT !.pc = "act"] \in Pulse /\ Pulsing([pulse[p] EXCEPT !.pc = "act"], work[p])
    BY <1>t, <1>p, <1>b, <1>q, <2>1
  <2>m. /\ pulse' \in [Pulses -> Pulse] /\ work' \in [Strikers -> Work]
        /\ \A v \in Strikers : AtWork(work[v])'
        /\ \A q \in Pulses : Pulsing(pulse[q], work[q])'
    BY <1>w, <2>2, <2>3, StrikerMoves
  <2>4. FightTypeOK'
    BY <1>t, <2>1, <2>m DEF FightTypeOK, Pulse, Doing
  <2>5. \A i \in Chars : Aimed(i, actions[i])'
    BY <1>t, <2>1 DEF Aimed
  <2> QED BY <2>m, <2>4, <2>5 DEF Combat
<1>6. CASE Flee(p)
  <2> DEFINE job == [Free EXCEPT !.pc = "fled", !.by = Current(p).who]
  <2>1. /\ pulse[p].pc = "act" /\ Current(p).act.kind = "flee"
        /\ at' = [at EXCEPT ![Current(p).who] = "away"]
        /\ UNCHANGED <<order, ready, actions, dead, fled, tally, hp, verb, inputs, deaths, scripted>>
    BY <1>6 DEF Flee, fightVars, history
  <2>a. Current(p).who \in Chars
    BY <2>1, TurnIsSound DEF Aimed
  <2>b. at' \in [Actors -> {"here", "away", "gone"}] /\ \A c \in Chars : at'[c] # "gone"
    BY <1>t, <2>1, <2>a DEF Actors
  <2>2. work' = [work EXCEPT ![p] = job] /\ pulse' = [pulse EXCEPT ![p] = [pulse[p] EXCEPT !.pc = "busy"]]
    BY <1>6 DEF Flee
  <2>3. /\ job \in Work /\ AtWork(job)
        /\ [pulse[p] EXCEPT !.pc = "busy"] \in Pulse /\ Pulsing([pulse[p] EXCEPT !.pc = "busy"], job)
    <3>1. job \in Work /\ AtWork(job) /\ job.pc = "fled"
      BY <1>f, <2>a DEF Work, AtWork
    <3> HIDE DEF job
    <3> QED BY <1>q, <2>1, <3>1
  <2> HIDE DEF job
  <2>m. /\ pulse' \in [Pulses -> Pulse] /\ work' \in [Strikers -> Work]
        /\ \A v \in Strikers : AtWork(work[v])'
        /\ \A q \in Pulses : Pulsing(pulse[q], work[q])'
    BY <1>w, <2>2, <2>3, StrikerMoves
  <2>4. FightTypeOK'
    BY <1>t, <2>1, <2>m, <2>b DEF FightTypeOK, Pulse, Doing
  <2>5. \A i \in Chars : Aimed(i, actions[i])'
    BY <1>t, <2>1 DEF Aimed
  <2> QED BY <2>m, <2>4, <2>5 DEF Combat
<1>7. CASE FleeMark(p)
  <2>1. /\ work[p].pc = "fled" /\ fled' = (IF Active THEN fled \cup {work[p].by} ELSE fled)
        /\ UNCHANGED <<order, ready, actions, dead, tally, at, hp, verb, inputs, deaths, scripted>>
    BY <1>7 DEF FleeMark, world, history
  <2>b. fled' \subseteq Actors
    BY <1>t, <2>1 DEF AtWork, Actors
  <2>2. work' = [work EXCEPT ![p] = Free] /\ pulse' = [pulse EXCEPT ![p] = [pulse[p] EXCEPT !.pc = "swung"]]
    BY <1>7 DEF FleeMark
  <2>3. /\ Free \in Work /\ AtWork(Free)
        /\ [pulse[p] EXCEPT !.pc = "swung"] \in Pulse /\ Pulsing([pulse[p] EXCEPT !.pc = "swung"], Free)
    BY <1>b, <1>f, <1>q, <2>1
  <2>m. /\ pulse' \in [Pulses -> Pulse] /\ work' \in [Strikers -> Work]
        /\ \A v \in Strikers : AtWork(work[v])'
        /\ \A q \in Pulses : Pulsing(pulse[q], work[q])'
    BY <1>w, <2>2, <2>3, StrikerMoves
  <2>4. FightTypeOK'
    BY <1>t, <2>1, <2>m, <2>b DEF FightTypeOK, Pulse, Doing
  <2>5. \A i \in Chars : Aimed(i, actions[i])'
    BY <1>t, <2>1 DEF Aimed
  <2> QED BY <2>m, <2>4, <2>5 DEF Combat
<1>8. CASE NoEffect(p)
  <2>1. /\ pulse[p].pc = "act"
        /\ UNCHANGED <<order, ready, actions, dead, fled, tally, at, hp, verb, work, inputs, deaths, scripted>>
    BY <1>8 DEF NoEffect, fightVars, world, history
  <2>2. work' = [work EXCEPT ![p] = work[p]] /\ pulse' = [pulse EXCEPT ![p] = [pulse[p] EXCEPT !.pc = "swung"]]
    BY <1>8, <1>s DEF NoEffect
  <2>3. /\ work[p] \in Work /\ AtWork(work[p])
        /\ [pulse[p] EXCEPT !.pc = "swung"] \in Pulse /\ Pulsing([pulse[p] EXCEPT !.pc = "swung"], work[p])
    BY <1>t, <1>p, <1>b, <1>q, <2>1
  <2>m. /\ pulse' \in [Pulses -> Pulse] /\ work' \in [Strikers -> Work]
        /\ \A v \in Strikers : AtWork(work[v])'
        /\ \A q \in Pulses : Pulsing(pulse[q], work[q])'
    BY <1>w, <2>2, <2>3, StrikerMoves
  <2>4. FightTypeOK'
    BY <1>t, <2>1, <2>m DEF FightTypeOK, Pulse, Doing
  <2>5. \A i \in Chars : Aimed(i, actions[i])'
    BY <1>t, <2>1 DEF Aimed
  <2> QED BY <2>m, <2>4, <2>5 DEF Combat
<1>9. CASE Restamp(p)
  <2> DEFINE now == IF Len(pulse[p].todo) = 1 THEN IdlePulse
                    ELSE [pulse[p] EXCEPT !.pc = "act", !.todo = Tail(pulse[p].todo)]
  <2>1. /\ pulse[p].pc = "swung" /\ ready' = ready \ {Current(p).who}
        /\ UNCHANGED <<order, actions, dead, fled, tally, at, hp, verb, work, inputs, deaths, scripted>>
    BY <1>9 DEF Restamp, world, history
  <2>b. ready' \subseteq Actors
    BY <1>t, <2>1
  <2>2. work' = [work EXCEPT ![p] = work[p]] /\ pulse' = [pulse EXCEPT ![p] = now]
    <3>1. work' = work
      BY <1>9 DEF Restamp
    <3>2. pulse' = [pulse EXCEPT ![p] = now]
      BY <1>9 DEF Restamp
    <3> QED BY <1>s, <3>1, <3>2
  <2>c. work[p].pc = "free"
    BY <1>b, <2>1
  <2>3. work[p] \in Work /\ AtWork(work[p]) /\ now \in Pulse /\ Pulsing(now, work[p])
    <3>1. CASE Len(pulse[p].todo) = 1
      <4>1. now = IdlePulse /\ IdlePulse \in Pulse /\ IdlePulse.pc = "idle" /\ DOMAIN IdlePulse.todo = {}
        BY <3>1 DEF IdlePulse, Pulse
      <4> HIDE DEF now
      <4> QED BY <1>t, <1>p, <2>c, <4>1 DEF Pulsing
    <3>2. CASE Len(pulse[p].todo) # 1
      <4>1. /\ Tail(pulse[p].todo) \in Seq(Doing) /\ Tail(pulse[p].todo) # <<>>
            /\ \A i \in DOMAIN Tail(pulse[p].todo) :
                  Aimed(Tail(pulse[p].todo)[i].who, Tail(pulse[p].todo)[i].act)
        BY <2>1, <3>2, TurnIsSound
      <4>2. now = [pulse[p] EXCEPT !.pc = "act", !.todo = Tail(pulse[p].todo)]
        BY <3>2
      <4> DEFINE rest == Tail(pulse[p].todo)
      <4> HIDE DEF now, rest
      <4>3. now \in Pulse /\ now.pc = "act" /\ now.todo = rest
        BY <1>p, <4>1, <4>2 DEF Pulse, rest
      <4> QED BY <1>t, <1>p, <2>c, <4>1, <4>3 DEF Pulsing, rest
    <3> QED BY <3>1, <3>2
  <2> HIDE DEF now
  <2>m. /\ pulse' \in [Pulses -> Pulse] /\ work' \in [Strikers -> Work]
        /\ \A v \in Strikers : AtWork(work[v])'
        /\ \A q \in Pulses : Pulsing(pulse[q], work[q])'
    BY <1>w, <2>2, <2>3, StrikerMoves
  <2>4. FightTypeOK'
    BY <1>t, <2>1, <2>m, <2>b DEF FightTypeOK, Pulse, Doing
  <2>5. \A i \in Chars : Aimed(i, actions[i])'
    BY <1>t, <2>1 DEF Aimed
  <2> QED BY <2>m, <2>4, <2>5 DEF Combat
<1> QED BY <1>1, <1>2, <1>3, <1>4, <1>5, <1>6, <1>7, <1>8, <1>9

\* The blows of a script.
LEMMA CombatScripts ==
    ASSUME Combat, NEW x \in Scripts,
           (\E t \in Actors : ScriptRead(x, t)) \/ (\E d \in 1..HPMax : ScriptWrite(x, d))
    PROVE  Combat'
<1>t. /\ FightTypeOK /\ dead \subseteq Actors /\ actions \in [Chars -> Action]
      /\ at \in [Actors -> {"here", "away", "gone"}] /\ \A c \in Chars : at[c] # "gone"
      /\ hp \in [Actors -> 0..HPMax] /\ inputs \in 0..MaxInputs
      /\ deaths \in [Mobs -> Nat] /\ scripted \subseteq Mobs
      /\ pulse \in [Pulses -> Pulse] /\ work \in [Strikers -> Work]
      /\ \A c \in Chars : Aimed(c, actions[c])
      /\ AtWork(work[x])
  BY CombatTypes DEF Strikers
<1>n. HPMax \in Nat /\ MaxInputs \in Nat /\ Chars \cap Mobs = {} /\ Pulses \cap Scripts = {}
  BY FightAssumption
<1>i. Input => inputs' \in 0..MaxInputs
  BY <1>t, <1>n DEF Input
<1>f. Free \in Work /\ AtWork(Free) /\ Free.pc = "free"
  BY <1>n DEF Free, Work, AtWork
<1>w. x \in Strikers /\ x \notin Pulses /\ work[x] \in Work
  BY <1>t, <1>n DEF Strikers
<1>1. ASSUME NEW t \in Actors, ScriptRead(x, t) PROVE Combat'
  <2> DEFINE job == [Free EXCEPT !.pc = "write", !.target = t, !.hp = hp[t]]
  <2>1. /\ Input
        /\ UNCHANGED <<order, ready, actions, dead, fled, tally, at, hp, verb, pulse, deaths, scripted>>
    BY <1>1 DEF ScriptRead, fightVars, world, history
  <2>2. work' = [work EXCEPT ![x] = job] /\ pulse' = [pulse EXCEPT ![x] = IdlePulse]
    BY <1>1, <1>w, PulsesStay DEF ScriptRead
  <2>3. job \in Work /\ AtWork(job)
    BY <1>t, <1>f DEF Work, AtWork
  <2> HIDE DEF job
  <2>m. /\ pulse' \in [Pulses -> Pulse] /\ work' \in [Strikers -> Work]
        /\ \A v \in Strikers : AtWork(work[v])'
        /\ \A q \in Pulses : Pulsing(pulse[q], work[q])'
    BY <1>w, <2>2, <2>3, StrikerMoves
  <2>4. FightTypeOK'
    BY <1>t, <1>i, <2>1, <2>m DEF FightTypeOK, Pulse, Doing
  <2>5. \A i \in Chars : Aimed(i, actions[i])'
    BY <1>t, <2>1 DEF Aimed
  <2> QED BY <2>m, <2>4, <2>5 DEF Combat
<1>2. ASSUME NEW d \in 1..HPMax, ScriptWrite(x, d) PROVE Combat'
  <2> DEFINE t == work[x].target
             left == IF d < work[x].hp THEN work[x].hp - d ELSE 0
             job == IF at[t] # "gone" /\ Lethal(work[x].hp, d) THEN [work[x] EXCEPT !.pc = "dead", !.hp = 0]
                    ELSE Free
  <2>1. /\ work[x].pc = "write"
        /\ \/ UNCHANGED <<hp, scripted>>
           \/ hp' = [hp EXCEPT ![t] = left] /\ scripted' = scripted \cup ({t} \cap Mobs)
        /\ UNCHANGED <<order, ready, actions, dead, fled, tally, at, verb, pulse, inputs, deaths>>
    BY <1>2 DEF ScriptWrite, fightVars
  <2>a. left \in 0..HPMax
    <3>1. work[x].hp \in 0..HPMax
      BY <1>w DEF Work
    <3> QED BY <1>n, <3>1
  <2>b. hp' \in [Actors -> 0..HPMax] /\ scripted' \subseteq Mobs
    <3> HIDE DEF left
    <3> QED BY <1>t, <2>1, <2>a
  <2>2. work' = [work EXCEPT ![x] = job] /\ pulse' = [pulse EXCEPT ![x] = IdlePulse]
    <3>1. work' = [work EXCEPT ![x] = job]
      BY <1>2 DEF ScriptWrite
    <3> QED BY <1>w, <2>1, <3>1, PulsesStay
  <2> HIDE DEF left
  <2>3. job \in Work /\ AtWork(job)
    <3>0. 0 \in 0..HPMax
      BY <1>n
    <3>1. [work[x] EXCEPT !.pc = "dead", !.hp = 0] \in Work
      BY <1>w, <3>0 DEF Work
    <3>2. AtWork([work[x] EXCEPT !.pc = "dead", !.hp = 0])
      BY <1>t, <1>w, <2>1 DEF Work, AtWork
    <3>3. job = [work[x] EXCEPT !.pc = "dead", !.hp = 0] \/ job = Free
      OBVIOUS
    <3> HIDE DEF job
    <3> QED BY <1>f, <3>1, <3>2, <3>3
  <2> HIDE DEF job
  <2>m. /\ pulse' \in [Pulses -> Pulse] /\ work' \in [Strikers -> Work]
        /\ \A v \in Strikers : AtWork(work[v])'
        /\ \A q \in Pulses : Pulsing(pulse[q], work[q])'
    BY <1>w, <2>2, <2>3, StrikerMoves
  <2>4. FightTypeOK'
    BY <1>t, <1>i, <2>1, <2>m, <2>b DEF FightTypeOK, Pulse, Doing
  <2>5. \A i \in Chars : Aimed(i, actions[i])'
    BY <1>t, <2>1 DEF Aimed
  <2> QED BY <2>m, <2>4, <2>5 DEF Combat
<1> QED BY <1>1, <1>2

\* The death handlers.
LEMMA CombatDeaths ==
    ASSUME Combat, NEW w \in Strikers, Death(w)
    PROVE  Combat'
<1>t. /\ FightTypeOK /\ dead \subseteq Actors /\ actions \in [Chars -> Action]
      /\ at \in [Actors -> {"here", "away", "gone"}] /\ \A c \in Chars : at[c] # "gone"
      /\ hp \in [Actors -> 0..HPMax] /\ inputs \in 0..MaxInputs
      /\ deaths \in [Mobs -> Nat] /\ scripted \subseteq Mobs
      /\ pulse \in [Pulses -> Pulse] /\ work \in [Strikers -> Work]
      /\ \A c \in Chars : Aimed(c, actions[c])
      /\ AtWork(work[w])
  BY CombatTypes DEF Strikers
<1>n. HPMax \in Nat /\ MaxInputs \in Nat /\ Chars \cap Mobs = {} /\ Pulses \cap Scripts = {}
  BY FightAssumption
<1>i. Input => inputs' \in 0..MaxInputs
  BY <1>t, <1>n DEF Input
<1>f. Free \in Work /\ AtWork(Free) /\ Free.pc = "free"
  BY <1>n DEF Free, Work, AtWork
<1>w. w \in Strikers /\ work[w] \in Work /\ (w \in Pulses => Pulsing(pulse[w], work[w]))
  BY <1>t, CombatTypes
<1>g. pulse = [pulse EXCEPT ![w] = pulse[w]] /\ (w \in Pulses => pulse[w] \in Pulse)
  BY <1>t
\* A handler that goes on with another step.
<1>k. ASSUME NEW job, job.pc # "free", work[w].pc # "free" PROVE w \in Pulses => Pulsing(pulse[w], job)
  BY <1>w, <1>k DEF Pulsing
<1>d. ASSUME HandlerDone(w), work[w].pc # "free"
      PROVE  /\ pulse' \in [Pulses -> Pulse] /\ work' \in [Strikers -> Work]
             /\ \A v \in Strikers : AtWork(work[v])'
             /\ \A q \in Pulses : Pulsing(pulse[q], work[q])'
  <2> DEFINE now == [pulse[w] EXCEPT !.pc = "swung"]
  <2>1. work' = [work EXCEPT ![w] = Free]
    BY <1>d DEF HandlerDone
  <2>2. pulse' = [pulse EXCEPT ![w] = now]
    BY <1>t, <1>d DEF HandlerDone
  <2>3. w \in Pulses => now \in Pulse /\ Pulsing(now, Free)
    BY <1>d, <1>f, <1>g, <1>w DEF Pulse, Pulsing
  <2> HIDE DEF now
  <2> QED BY <1>f, <2>1, <2>2, <2>3, StrikerMoves
<1>1. CASE MobDeathLost(w)
  <2>1. /\ work[w].pc = "dead" /\ HandlerDone(w)
        /\ dead' = (IF Active THEN dead \cup {work[w].target} ELSE dead)
        /\ UNCHANGED <<order, ready, actions, fled, tally, at, hp, verb, inputs, deaths, scripted>>
    BY <1>1 DEF MobDeathLost, world, history
  <2>b. dead' \subseteq Actors
    BY <1>t, <2>1 DEF AtWork
  <2>m. /\ pulse' \in [Pulses -> Pulse] /\ work' \in [Strikers -> Work]
        /\ \A v \in Strikers : AtWork(work[v])'
        /\ \A q \in Pulses : Pulsing(pulse[q], work[q])'
    BY <1>d, <2>1
  <2>4. FightTypeOK'
    BY <1>t, <1>i, <2>1, <2>m, <2>b DEF FightTypeOK, Pulse, Doing
  <2>5. \A i \in Chars : Aimed(i, actions[i])'
    BY <1>t, <2>1 DEF Aimed
  <2> QED BY <2>m, <2>4, <2>5 DEF Combat
<1>2. CASE DeathRead(w)
  <2> DEFINE job == [work[w] EXCEPT !.pc = IF work[w].target \in Mobs THEN "despawn" ELSE "respawn",
                                    !.room = at[work[w].target]]
  <2>1. /\ work[w].pc = "dead" /\ at[work[w].target] # "gone"
        /\ UNCHANGED <<order, ready, actions, dead, fled, tally, at, hp, verb, pulse, inputs, deaths, scripted>>
    BY <1>2 DEF DeathRead, fightVars, world, history
  <2>2. work' = [work EXCEPT ![w] = job] /\ pulse' = [pulse EXCEPT ![w] = pulse[w]]
    BY <1>2, <1>g DEF DeathRead
  <2>a. work[w].target \in Actors /\ at[work[w].target] \in {"here", "away"}
    BY <1>t, <2>1 DEF AtWork
  <2>b. job \in Work /\ AtWork(job) /\ job.pc # "free"
    BY <1>w, <2>a DEF Work, AtWork, Actors
  <2> HIDE DEF job
  <2>3. job \in Work /\ AtWork(job) /\ (w \in Pulses => pulse[w] \in Pulse /\ Pulsing(pulse[w], job))
    BY <1>g, <1>k, <2>1, <2>b
  <2>m. /\ pulse' \in [Pulses -> Pulse] /\ work' \in [Strikers -> Work]
        /\ \A v \in Strikers : AtWork(work[v])'
        /\ \A q \in Pulses : Pulsing(pulse[q], work[q])'
    BY <1>w, <2>2, <2>3, StrikerMoves
  <2>4. FightTypeOK'
    BY <1>t, <1>i, <2>1, <2>m DEF FightTypeOK, Pulse, Doing
  <2>5. \A i \in Chars : Aimed(i, actions[i])'
    BY <1>t, <2>1 DEF Aimed
  <2> QED BY <2>m, <2>4, <2>5 DEF Combat
<1>3. ASSUME MobDespawn(w) \/ Respawn(w) PROVE Combat'
  <2> DEFINE job == [work[w] EXCEPT !.pc = "mark"]
  <2>1. /\ \/ work[w].pc = "despawn" /\ hp' = [hp EXCEPT ![work[w].target] = 0]
              /\ at' = [at EXCEPT ![work[w].target] = "gone"]
           \/ work[w].pc = "respawn" /\ hp' = [hp EXCEPT ![work[w].target] = HPMax]
              /\ at' = [at EXCEPT ![work[w].target] = "away"]
        /\ UNCHANGED <<order, ready, actions, dead, fled, tally, verb, pulse, inputs, deaths, scripted>>
    BY <1>3 DEF MobDespawn, Respawn, fightVars, history
  <2>a. work[w].pc # "free" /\ work[w].target \in Actors
    BY <1>t, <2>1 DEF AtWork
  <2>b. /\ hp' \in [Actors -> 0..HPMax] /\ at' \in [Actors -> {"here", "away", "gone"}]
        /\ \A c \in Chars : at'[c] # "gone"
    <3>1. 0 \in 0..HPMax /\ HPMax \in 0..HPMax
      BY <1>n
    <3>2. work[w].pc = "despawn" => work[w].target \notin Chars
      BY <1>t, <1>n DEF AtWork
    <3>3. Chars \subseteq Actors
      BY DEF Actors
    <3> QED BY <1>t, <2>1, <2>a, <3>1, <3>2, <3>3
  <2>2. work' = [work EXCEPT ![w] = job] /\ pulse' = [pulse EXCEPT ![w] = pulse[w]]
    BY <1>3, <1>g DEF MobDespawn, Respawn
  <2>c. job \in Work /\ AtWork(job) /\ job.pc # "free"
    BY <1>w, <2>a DEF Work, AtWork
  <2> HIDE DEF job
  <2>3. job \in Work /\ AtWork(job) /\ (w \in Pulses => pulse[w] \in Pulse /\ Pulsing(pulse[w], job))
    BY <1>g, <1>k, <2>a, <2>c
  <2>m. /\ pulse' \in [Pulses -> Pulse] /\ work' \in [Strikers -> Work]
        /\ \A v \in Strikers : AtWork(work[v])'
        /\ \A q \in Pulses : Pulsing(pulse[q], work[q])'
    BY <1>w, <2>2, <2>3, StrikerMoves
  <2>4. FightTypeOK'
    BY <1>t, <1>i, <2>1, <2>m, <2>b DEF FightTypeOK, Pulse, Doing
  <2>5. \A i \in Chars : Aimed(i, actions[i])'
    BY <1>t, <2>1 DEF Aimed
  <2> QED BY <2>m, <2>4, <2>5 DEF Combat
<1>4. CASE DeathMark(w)
  <2>1. /\ work[w].pc = "mark" /\ HandlerDone(w)
        /\ dead' = (IF Active /\ work[w].room = "here" THEN dead \cup {work[w].target} ELSE dead)
        /\ deaths' = [m \in Mobs |-> IF m = work[w].target THEN deaths[m] + 1 ELSE deaths[m]]
        /\ UNCHANGED <<order, ready, actions, fled, tally, at, hp, verb, inputs, scripted>>
    BY <1>4 DEF DeathMark, world
  <2>b. dead' \subseteq Actors /\ deaths' \in [Mobs -> Nat]
    BY <1>t, <2>1 DEF AtWork
  <2>m. /\ pulse' \in [Pulses -> Pulse] /\ work' \in [Strikers -> Work]
        /\ \A v \in Strikers : AtWork(work[v])'
        /\ \A q \in Pulses : Pulsing(pulse[q], work[q])'
    BY <1>d, <2>1
  <2>4. FightTypeOK'
    BY <1>t, <1>i, <2>1, <2>m, <2>b DEF FightTypeOK, Pulse, Doing
  <2>5. \A i \in Chars : Aimed(i, actions[i])'
    BY <1>t, <2>1 DEF Aimed
  <2> QED BY <2>m, <2>4, <2>5 DEF Combat
<1> QED BY <1>1, <1>2, <1>3, <1>4 DEF Death

LEMMA CombatInductive ==
    /\ FightInit => Combat
    /\ Combat /\ [FightNext]_combatVars => Combat'
<1>1. ASSUME FightInit PROVE Combat
  <2>n. HPMax \in Nat /\ MaxInputs \in Nat
    BY FightAssumption
  <2>1. Free \in Work /\ AtWork(Free) /\ Free.pc = "free" /\ IdlePulse \in Pulse /\ Pulsing(IdlePulse, Free)
    BY <2>n DEF Free, Work, AtWork, IdlePulse, Pulse, Pulsing
  <2>2. <<>> \in Seq(Actors) /\ Len(<<>>) <= 2 /\ IsInjective(<<>>)
    BY DEF IsInjective
  <2>3. NoAction \in Action /\ \A c \in Chars : Aimed(c, NoAction)
    BY DEF NoAction, Action, Aimed
  <2>4. FightTypeOK
    <3>1. order \in Seq(Actors) /\ Len(order) <= 2 /\ IsInjective(order)
      BY <1>1, <2>2 DEF FightInit
    <3>2. {ready, dead, fled} \subseteq SUBSET Actors /\ tally \subseteq Chars /\ scripted \subseteq Mobs
      BY <1>1 DEF FightInit
    <3>3. actions \in [Chars -> Action] /\ verb \in [Chars -> Actors \cup {NoOne}]
      BY <1>1, <2>3 DEF FightInit
    <3>4. /\ at \in [Actors -> {"here", "away", "gone"}] /\ \A c \in Chars : at[c] # "gone"
          /\ hp \in [Actors -> 0..HPMax]
      BY <1>1, <2>n DEF FightInit, Actors
    <3>5. pulse \in [Pulses -> Pulse] /\ work \in [Strikers -> Work]
      BY <1>1, <2>1 DEF FightInit
    <3>6. inputs \in 0..MaxInputs /\ deaths \in [Mobs -> Nat]
      BY <1>1, <2>n DEF FightInit
    <3> QED BY <3>1, <3>2, <3>3, <3>4, <3>5, <3>6 DEF FightTypeOK, Pulse, Doing
  <2> QED BY <1>1, <2>1, <2>3, <2>4 DEF FightInit, Combat, Strikers
<1>2. ASSUME Combat, UNCHANGED combatVars PROVE Combat'
  BY <1>2, CombatTypes DEF combatVars, fightVars, world, history, Combat, FightTypeOK, Aimed, AtWork, Pulsing
<1>3. ASSUME Combat, FightNext PROVE Combat'
  <2>1. \/ \E c \in Chars : (\E t \in Actors : Attack(c, t)) \/ EnqueueAttack(c) \/ Enqueue(c)
        \/ \E a \in Actors : Move(a) \/ Ready(a)
        \/ \E p \in Pulses : Tick(p) \/ Swing(p)
        \/ \E x \in Scripts : \/ \E t \in Actors : ScriptRead(x, t)
                              \/ \E d \in 1..HPMax : ScriptWrite(x, d)
                              \/ Death(x)
    BY <1>3 DEF FightNext
  <2>2. CASE \/ \E c \in Chars : (\E t \in Actors : Attack(c, t)) \/ EnqueueAttack(c) \/ Enqueue(c)
             \/ \E a \in Actors : Move(a) \/ Ready(a)
    BY <1>3, <2>2, CombatVerbs
  <2>3. ASSUME NEW p \in Pulses, Tick(p) \/ Swing(p) PROVE Combat'
    BY <1>3, <2>3, CombatTicks, CombatStrikes, CombatDeaths DEF Tick, Strikers
  <2>4. ASSUME NEW x \in Scripts, \/ \E t \in Actors : ScriptRead(x, t)
                                  \/ \E d \in 1..HPMax : ScriptWrite(x, d)
                                  \/ Death(x)
        PROVE  Combat'
    BY <1>3, <2>4, CombatScripts, CombatDeaths DEF Strikers
  <2> QED BY <2>1, <2>2, <2>3, <2>4
<1> QED BY <1>1, <1>2, <1>3

-----------------------------------------------------------------------------
(* Those who are down to no hit points.                                     *)

\* The striker is on its way to the death of this actor.
OnItsWay(job, a) ==
    /\ job.target = a
    /\ job.pc \in {"dead", "despawn", "respawn"} \/ (job.pc = "tally" /\ job.hp = 0)

Tended ==
    \A a \in Actors : hp[a] = 0 /\ at[a] # "gone" => \E w \in Strikers : OnItsWay(work[w], a)

\* A step of one striker after which whoever is down was down before, and not in
\* its care, or is in its care now.
LEMMA TendedByOne ==
    ASSUME Tended, NEW w \in Strikers, \A v \in Strikers : v # w => work'[v] = work[v],
           \A a \in Actors : hp'[a] = 0 /\ at'[a] # "gone" =>
              \/ OnItsWay(work'[w], a)
              \/ hp[a] = 0 /\ at[a] # "gone" /\ ~OnItsWay(work[w], a)
    PROVE  Tended'
<1> SUFFICES ASSUME NEW a \in Actors, hp'[a] = 0, at'[a] # "gone"
             PROVE  \E v \in Strikers : OnItsWay(work'[v], a)
  BY DEF Tended, OnItsWay
<1>1. CASE OnItsWay(work'[w], a)
  BY <1>1
<1>2. CASE hp[a] = 0 /\ at[a] # "gone" /\ ~OnItsWay(work[w], a)
  <2>1. PICK v \in Strikers : OnItsWay(work[v], a)
    BY <1>2 DEF Tended
  <2> QED BY <1>2, <2>1
<1> QED BY <1>1, <1>2

\* What nobody's work and nobody's hit points are in.
LEMMA TendedStill ==
    ASSUME Tended, UNCHANGED <<hp, work>>,
           \A a \in Actors : at'[a] # "gone" => at[a] # "gone"
    PROVE  Tended'
BY DEF Tended, OnItsWay

LEMMA TendedInductive ==
    /\ FightInit => Tended
    /\ Combat /\ Tended /\ [FightNext]_combatVars => Tended'
<1>1. FightInit => Tended
  BY FightAssumption DEF FightInit, Tended
<1>2. Combat /\ Tended /\ UNCHANGED combatVars => Tended'
  BY TendedStill DEF combatVars, world
<1>3. ASSUME Combat, Tended, FightNext PROVE Tended'
  <2>t. /\ at \in [Actors -> {"here", "away", "gone"}] /\ \A c \in Chars : at[c] # "gone"
        /\ hp \in [Actors -> 0..HPMax]
        /\ work \in [Strikers -> Work] /\ \A w \in Strikers : AtWork(work[w])
        /\ \A p \in Pulses : Pulsing(pulse[p], work[p])
        /\ pulse \in [Pulses -> Pulse]
    BY <1>3, CombatTypes
  <2>n. HPMax \in Nat /\ HPMax # 0 /\ Chars \cap Mobs = {} /\ Actors = Chars \cup Mobs
    BY FightAssumption DEF Actors
  <2>1. CASE UNCHANGED <<hp, work, at>>
    BY <1>3, <2>1, TendedStill
  <2>2. ASSUME NEW a \in Actors, Move(a) PROVE Tended'
    <3>1. UNCHANGED <<hp, work>> /\ at' = [at EXCEPT ![a] = IF at[a] = "here" THEN "away" ELSE "here"]
          /\ at[a] # "gone"
      BY <2>2 DEF Move
    <3> QED BY <1>3, <2>t, <3>1, TendedStill
  <2>3. ASSUME NEW w \in Strikers, MobDeathLost(w) \/ DeathRead(w) \/ DeathMark(w) PROVE Tended'
    <3>1. UNCHANGED <<hp, at>>
      BY <2>3 DEF MobDeathLost, DeathRead, DeathMark, world
    <3>2. \A v \in Strikers : v # w => work'[v] = work[v]
      BY <2>3, <2>t DEF MobDeathLost, DeathRead, DeathMark, HandlerDone
    <3>3. CASE MobDeathLost(w)
      BY <1>3, <2>t, <3>1, <3>2, <3>3, TendedByOne DEF MobDeathLost, OnItsWay
    <3>4. CASE DeathRead(w)
      <4> DEFINE pc == IF work[w].target \in Mobs THEN "despawn" ELSE "respawn"
      <4>1. work'[w].target = work[w].target /\ work'[w].pc = pc
        BY <2>t, <3>4 DEF DeathRead, Work
      <4>2. \A a \in Actors : OnItsWay(work[w], a) => OnItsWay(work'[w], a)
        BY <4>1 DEF OnItsWay
      <4> QED BY <1>3, <3>1, <3>2, <4>2, TendedByOne
    <3>5. CASE DeathMark(w)
      BY <1>3, <3>1, <3>2, <3>5, TendedByOne DEF DeathMark, OnItsWay
    <3> QED BY <2>3, <3>3, <3>4, <3>5
  <2>4. ASSUME NEW w \in Strikers, MobDespawn(w) \/ Respawn(w) PROVE Tended'
    <3>1. \A v \in Strikers : v # w => work'[v] = work[v]
      BY <2>4, <2>t DEF MobDespawn, Respawn
    <3>2. work[w].target \in Actors
      BY <2>4, <2>t DEF MobDespawn, Respawn, AtWork
    <3>3. \A a \in Actors : a # work[w].target => hp'[a] = hp[a] /\ at'[a] = at[a]
      BY <2>4, <2>t DEF MobDespawn, Respawn
    <3>4. hp'[work[w].target] # 0 \/ at'[work[w].target] = "gone"
      BY <2>4, <2>n, <2>t, <3>2 DEF MobDespawn, Respawn
    <3> QED BY <1>3, <3>1, <3>2, <3>3, <3>4, TendedByOne DEF OnItsWay
  <2>5. ASSUME NEW p \in Pulses, StrikeRead(p) \/ StrikeMisses(p) \/ FleeMark(p) PROVE Tended'
    <3>1. UNCHANGED <<hp, at>>
      BY <2>5 DEF StrikeRead, StrikeMisses, FleeMark, world
    <3>2. \A v \in Strikers : v # p => work'[v] = work[v]
      BY <2>5, <2>t DEF StrikeRead, StrikeMisses, FleeMark
    <3>3. work[p].pc \in {"free", "roll", "fled"}
      BY <2>5, <2>t DEF StrikeRead, StrikeMisses, FleeMark, Pulsing
    <3>4. p \in Strikers
      BY DEF Strikers
    <3> QED BY <1>3, <3>1, <3>2, <3>3, <3>4, TendedByOne DEF OnItsWay
  <2>6. ASSUME NEW p \in Pulses, Flee(p) PROVE Tended'
    <3>1. UNCHANGED hp /\ at' = [at EXCEPT ![Current(p).who] = "away"] /\ pulse[p].pc = "act"
          /\ Current(p).act.kind = "flee"
      BY <2>6 DEF Flee
    <3>2. \A v \in Strikers : v # p => work'[v] = work[v]
      BY <2>6, <2>t DEF Flee
    <3>3. work[p].pc = "free"
      BY <2>t, <3>1 DEF Pulsing
    <3>4. p \in Strikers
      BY DEF Strikers
    <3>5. Current(p).who \in Chars
      BY <1>3, <3>1, TurnIsSound DEF Aimed
    <3>6. \A a \in Actors : at'[a] # "gone" => at[a] # "gone"
      BY <2>t, <3>1, <3>5
    <3> QED BY <1>3, <3>1, <3>2, <3>3, <3>4, <3>6, TendedByOne DEF OnItsWay
  <2>7. ASSUME NEW p \in Pulses, NEW d \in 0..HPMax, StrikeHits(p, d) PROVE Tended'
    <3> DEFINE left == IF d < work[p].hp THEN work[p].hp - d ELSE 0
               t == work[p].target
    <3>1. /\ work[p].pc = "roll" /\ UNCHANGED at
          /\ hp' = [hp EXCEPT ![t] = IF RowExists(t) THEN left ELSE @]
          /\ work' = [work EXCEPT ![p] = [work[p] EXCEPT !.pc = "tally", !.hp = left]]
      BY <2>7, <2>t DEF StrikeHits
    <3>2. p \in Strikers /\ t \in Actors
      BY <2>t, <3>1 DEF Strikers, AtWork
    <3> HIDE DEF left
    <3>3. /\ \A v \in Strikers : v # p => work'[v] = work[v]
          /\ work'[p].target = t /\ work'[p].pc = "tally" /\ work'[p].hp = left
      BY <2>t, <3>1, <3>2 DEF Work
    <3>4. \A a \in Actors : hp'[a] = IF a = t /\ at[t] # "gone" THEN left ELSE hp[a]
      BY <2>t, <3>1, <3>2 DEF RowExists
    <3> HIDE DEF t
    <3> QED BY <1>3, <3>1, <3>2, <3>3, <3>4, TendedByOne DEF OnItsWay
  <2>8. ASSUME NEW p \in Pulses, StrikeTally(p) PROVE Tended'
    <3>1. work[p].pc = "tally" /\ UNCHANGED <<hp, at>>
          /\ work' = [work EXCEPT ![p] = IF work[p].hp = 0 THEN [work[p] EXCEPT !.pc = "dead"] ELSE Free]
      BY <2>8, <2>t DEF StrikeTally, world
    <3>2. p \in Strikers
      BY DEF Strikers
    <3>3. \A v \in Strikers : v # p => work'[v] = work[v]
      BY <2>t, <3>1
    <3>4. \A a \in Actors : OnItsWay(work[p], a) => OnItsWay(work'[p], a)
      BY <2>t, <3>1, <3>2 DEF OnItsWay, Work
    <3> QED BY <1>3, <3>1, <3>2, <3>3, <3>4, TendedByOne
  <2>9. ASSUME NEW x \in Scripts, NEW t \in Actors, ScriptRead(x, t) PROVE Tended'
    <3>1. work[x].pc = "free" /\ UNCHANGED <<hp, at>> /\ x \in Strikers
      BY <2>9 DEF ScriptRead, world, Strikers
    <3>2. \A v \in Strikers : v # x => work'[v] = work[v]
      BY <2>9, <2>t DEF ScriptRead
    <3> QED BY <1>3, <3>1, <3>2, TendedByOne DEF OnItsWay
  <2>10. ASSUME NEW x \in Scripts, NEW d \in 1..HPMax, ScriptWrite(x, d) PROVE Tended'
    <3> DEFINE left == IF d < work[x].hp THEN work[x].hp - d ELSE 0
               t == work[x].target
    <3>1. work[x].pc = "write" /\ UNCHANGED at /\ x \in Strikers
      BY <2>10 DEF ScriptWrite, Strikers
    <3>2. t \in Actors /\ work[x].hp \in Nat /\ d \in Nat
      BY <2>n, <2>t, <3>1 DEF AtWork, Work
    <3>3. \A v \in Strikers : v # x => work'[v] = work[v]
      BY <2>10, <2>t DEF ScriptWrite
    <3>4. CASE at[t] = "gone"
      <4>1. UNCHANGED hp
        BY <2>10, <3>4 DEF ScriptWrite
      <4> QED BY <1>3, <3>1, <3>3, <4>1, TendedByOne DEF OnItsWay
    <3>5. CASE at[t] # "gone"
      <4>1. hp' = [hp EXCEPT ![t] = left]
            /\ work' = [work EXCEPT ![x] = IF Lethal(work[x].hp, d) THEN [work[x] EXCEPT !.pc = "dead", !.hp = 0]
                                          ELSE Free]
        BY <2>10, <3>5 DEF ScriptWrite
      <4>2. left = 0 => Lethal(work[x].hp, d)
        BY <3>2 DEF Lethal
      <4>3. \A a \in Actors : hp'[a] = IF a = t THEN left ELSE hp[a]
        BY <2>t, <3>2, <4>1
      <4>4. left = 0 => work'[x].pc = "dead" /\ work'[x].target = t
        BY <2>t, <3>1, <4>1, <4>2 DEF Work
      <4> HIDE DEF left, t
      <4> QED BY <1>3, <3>1, <3>3, <4>3, <4>4, TendedByOne DEF OnItsWay
    <3> QED BY <3>4, <3>5
  <2> QED
    BY <1>3, <2>1, <2>2, <2>3, <2>4, <2>5, <2>6, <2>7, <2>8, <2>9, <2>10
    DEF FightNext, Tick, Death, Strikers, Attack, EnqueueAttack, Enqueue, Ready, TickRead, TickCheck,
        TickEnd, TickLock, NoEffect, Restamp, Swing, world
<1> QED BY <1>1, <1>2, <1>3

-----------------------------------------------------------------------------
(* Nobody dies twice of one pulse.                                          *)

\* Of a mob no script has struck: once its death is published its row is gone
\* and nobody is about to delete it or to publish it again.
OnceFor(m) ==
    /\ deaths[m] <= 1
    /\ deaths[m] = 1 => at[m] = "gone"
    /\ \A w \in Strikers : work[w].target = m =>
          /\ work[w].pc = "mark" => at[m] = "gone"
          /\ work[w].pc \in {"despawn", "mark"} => deaths[m] # 1
          /\ work[w].pc \in {"dead", "despawn", "mark"} => w \in Pulses

Once == \A m \in Mobs \ scripted : OnceFor(m)

\* A step after which nobody is nearer to this mob's death.
LEMMA OnceStill ==
    ASSUME NEW m \in Mobs, OnceFor(m), deaths'[m] = deaths[m], at[m] = "gone" => at'[m] = "gone",
           \A w \in Strikers : work'[w].target = m =>
              /\ work'[w].pc \in {"despawn", "mark"} => work[w].target = m /\ work[w].pc = work'[w].pc
              /\ work'[w].pc = "dead" => w \in Pulses \/ (work[w].target = m /\ work[w].pc = "dead")
    PROVE  OnceFor(m)'
BY DEF OnceFor

\* A step of one striker that publishes nothing and deletes nothing.
LEMMA OnceByOne ==
    ASSUME NEW m \in Mobs, OnceFor(m), deaths'[m] = deaths[m], at[m] = "gone" => at'[m] = "gone",
           NEW w \in Strikers, \A v \in Strikers : v # w => work'[v] = work[v],
           work'[w].target = m =>
              /\ work'[w].pc \notin {"despawn", "mark"}
              /\ work'[w].pc = "dead" => w \in Pulses
    PROVE  OnceFor(m)'
BY OnceStill

\* The death handlers.
LEMMA OnceOfDeaths ==
    ASSUME \A p, q \in Pulses : p = q, Combat, Once, NEW w \in Strikers, Death(w)
    PROVE  Once'
<1>t. /\ at \in [Actors -> {"here", "away", "gone"}]
      /\ work \in [Strikers -> Work] /\ AtWork(work[w]) /\ deaths \in [Mobs -> Nat]
  BY CombatTypes
<1>n. Chars \cap Mobs = {} /\ Actors = Chars \cup Mobs
  BY FightAssumption DEF Actors
<1>s. UNCHANGED scripted
  BY DEF Death, MobDeathLost, DeathRead, MobDespawn, Respawn, DeathMark, history
<1> SUFFICES ASSUME NEW m \in Mobs, m \notin scripted PROVE OnceFor(m)'
  BY <1>s DEF Once, OnceFor
<1>o. OnceFor(m)
  BY DEF Once
<1>w. \A v \in Strikers : v # w => work'[v] = work[v]
  BY <1>t DEF Death, MobDeathLost, DeathRead, MobDespawn, Respawn, DeathMark, HandlerDone
<1>g. at[m] = "gone" => at'[m] = "gone"
  BY <1>t, <1>n DEF Death, MobDeathLost, DeathRead, MobDespawn, Respawn, DeathMark, world, AtWork
<1>1. CASE MobDeathLost(w)
  <2>1. work'[w].pc = "free" /\ deaths' = deaths
    BY <1>t, <1>1 DEF MobDeathLost, HandlerDone, Free, history
  <2> QED BY <1>o, <1>w, <1>g, <2>1, OnceByOne
<1>2. CASE DeathRead(w)
  <2> DEFINE pc == IF work[w].target \in Mobs THEN "despawn" ELSE "respawn"
  <2>1. /\ work[w].pc = "dead" /\ at[work[w].target] # "gone" /\ deaths' = deaths /\ at' = at
        /\ work'[w].pc = pc /\ work'[w].target = work[w].target
    BY <1>t, <1>2 DEF DeathRead, Work, world, history
  <2>2. CASE work[w].target = m
    BY <1>o, <1>w, <2>1, <2>2 DEF OnceFor
  <2>3. CASE work[w].target # m
    BY <1>o, <1>w, <1>g, <2>1, <2>3, OnceByOne
  <2> QED BY <2>2, <2>3
<1>3. CASE MobDespawn(w)
  <2>1. /\ work[w].pc = "despawn" /\ deaths' = deaths /\ at' = [at EXCEPT ![work[w].target] = "gone"]
        /\ work'[w].pc = "mark" /\ work'[w].target = work[w].target
    BY <1>t, <1>3 DEF MobDespawn, Work, history
  <2>2. CASE work[w].target = m
    <3>1. at'[m] = "gone"
      BY <1>t, <1>n, <2>1, <2>2
    <3> QED BY <1>o, <1>w, <2>1, <2>2, <3>1 DEF OnceFor
  <2>3. CASE work[w].target # m
    BY <1>o, <1>w, <1>g, <2>1, <2>3, OnceByOne
  <2> QED BY <2>2, <2>3
<1>4. CASE Respawn(w)
  <2>1. /\ work[w].pc = "respawn" /\ deaths' = deaths /\ work'[w].target = work[w].target
    BY <1>t, <1>4 DEF Respawn, Work, history
  <2>2. work'[w].target # m
    BY <1>n, <1>t, <2>1 DEF AtWork
  <2> QED BY <1>o, <1>w, <1>g, <2>1, <2>2, OnceByOne
<1>5. CASE DeathMark(w)
  <2>1. /\ work[w].pc = "mark" /\ at' = at /\ work'[w].pc = "free"
        /\ deaths'[m] = IF m = work[w].target THEN deaths[m] + 1 ELSE deaths[m]
    BY <1>t, <1>5 DEF DeathMark, HandlerDone, Free, world
  <2>2. CASE work[w].target = m
    <3>1. at[m] = "gone" /\ deaths[m] = 0 /\ w \in Pulses
      BY <1>o, <1>t, <2>1, <2>2 DEF OnceFor
    <3>2. \A v \in Strikers : work'[v].target = m => work'[v].pc \notin {"dead", "despawn", "mark"}
      BY <1>o, <1>w, <2>1, <3>1 DEF OnceFor
    <3> QED BY <2>1, <2>2, <3>1, <3>2 DEF OnceFor
  <2>3. CASE work[w].target # m
    BY <1>o, <1>w, <1>g, <2>1, <2>3, OnceByOne
  <2> QED BY <2>2, <2>3
<1> QED BY <1>1, <1>2, <1>3, <1>4, <1>5 DEF Death

LEMMA OnceInductive ==
    ASSUME \A p, q \in Pulses : p = q
    PROVE  /\ FightInit => Once
           /\ Combat /\ Once /\ [FightNext]_combatVars => Once'
<1>1. FightInit => Once
  BY FightAssumption DEF FightInit, Once, OnceFor, Free
<1>2. Combat /\ Once /\ UNCHANGED combatVars => Once'
  BY DEF combatVars, world, history, Once, OnceFor
<1>3. ASSUME Combat, Once, FightNext PROVE Once'
  <2>t. /\ at \in [Actors -> {"here", "away", "gone"}]
        /\ work \in [Strikers -> Work] /\ \A w \in Strikers : AtWork(work[w])
        /\ \A p \in Pulses : Pulsing(pulse[p], work[p])
        /\ pulse \in [Pulses -> Pulse]
    BY <1>3, CombatTypes
  <2>n. Chars \cap Mobs = {} /\ Actors = Chars \cup Mobs /\ Pulses \cap Scripts = {}
    BY FightAssumption DEF Actors
  <2>1. CASE UNCHANGED <<work, at, deaths, scripted>>
    BY <1>3, <2>1 DEF Once, OnceFor
  <2>2. ASSUME NEW a \in Actors, Move(a) PROVE Once'
    <3>1. UNCHANGED <<work, deaths, scripted>> /\ at' = [at EXCEPT ![a] = IF at[a] = "here" THEN "away" ELSE "here"]
          /\ at[a] # "gone"
      BY <2>2 DEF Move, history
    <3>2. \A m \in Mobs : at[m] = "gone" => at'[m] = "gone"
      BY <2>n, <2>t, <3>1
    <3> QED BY <1>3, <3>1, <3>2, OnceStill DEF Once, OnceFor
  <2>3. ASSUME NEW w \in Strikers, Death(w) PROVE Once'
    BY <1>3, <2>3, OnceOfDeaths
  <2>4. ASSUME NEW p \in Pulses,
               \/ StrikeRead(p) \/ StrikeMisses(p) \/ StrikeTally(p) \/ FleeMark(p) \/ Flee(p)
               \/ \E d \in 0..HPMax : StrikeHits(p, d)
        PROVE  Once'
    <3>1. p \in Strikers /\ UNCHANGED <<deaths, scripted>>
      BY <2>4 DEF Strikers, StrikeRead, StrikeMisses, StrikeTally, FleeMark, Flee, StrikeHits, history
    <3>2. \A v \in Strikers : v # p => work'[v] = work[v]
      BY <2>4, <2>t DEF StrikeRead, StrikeMisses, StrikeTally, FleeMark, Flee, StrikeHits
    <3>3. work'[p].pc \notin {"despawn", "mark"}
      <4>1. CASE StrikeRead(p)
        <5>1. work[p].pc = "free"
          BY <2>t, <4>1 DEF StrikeRead, Pulsing
        <5> QED BY <2>t, <3>1, <4>1, <5>1 DEF StrikeRead
      <4>2. CASE StrikeMisses(p) \/ FleeMark(p)
        BY <2>t, <3>1, <4>2 DEF StrikeMisses, FleeMark, Free
      <4>3. CASE StrikeTally(p)
        BY <2>t, <3>1, <4>3 DEF StrikeTally, Free, Work
      <4>4. CASE Flee(p)
        BY <2>t, <3>1, <4>4 DEF Flee, Free
      <4>5. CASE \E d \in 0..HPMax : StrikeHits(p, d)
        BY <2>t, <3>1, <4>5 DEF StrikeHits, Work
      <4> QED BY <2>4, <4>1, <4>2, <4>3, <4>4, <4>5
    <3>4. ASSUME NEW m \in Mobs PROVE at[m] = "gone" => at'[m] = "gone"
      <4>1. CASE Flee(p)
        <5>1. pulse[p].pc = "act" /\ Current(p).act.kind = "flee"
              /\ at' = [at EXCEPT ![Current(p).who] = "away"]
          BY <4>1 DEF Flee
        <5>2. Current(p).who \in Chars
          BY <1>3, <5>1, TurnIsSound DEF Aimed
        <5> QED BY <2>n, <2>t, <5>1, <5>2
      <4>2. CASE ~Flee(p)
        BY <2>4, <4>2 DEF StrikeRead, StrikeMisses, StrikeTally, FleeMark, StrikeHits, world
      <4> QED BY <4>1, <4>2
    <3>5. ASSUME NEW m \in Mobs, m \notin scripted PROVE OnceFor(m)'
      <4>1. OnceFor(m)
        BY <1>3, <3>5 DEF Once
      <4> QED BY <3>1, <3>2, <3>3, <3>4, <4>1, OnceByOne
    <3> QED BY <3>1, <3>5 DEF Once, OnceFor
  <2>5. ASSUME NEW x \in Scripts, NEW t \in Actors, ScriptRead(x, t) PROVE Once'
    <3>1. UNCHANGED <<at, deaths, scripted>> /\ x \in Strikers /\ work'[x].pc = "write"
          /\ \A v \in Strikers : v # x => work'[v] = work[v]
      BY <2>5, <2>t DEF ScriptRead, world, history, Strikers, Free
    <3>2. ASSUME NEW m \in Mobs, m \notin scripted PROVE OnceFor(m)'
      <4>1. OnceFor(m)
        BY <1>3, <3>2 DEF Once
      <4> QED BY <3>1, <4>1, OnceByOne
    <3> QED BY <3>1, <3>2 DEF Once, OnceFor
  <2>6. ASSUME NEW x \in Scripts, NEW d \in 1..HPMax, ScriptWrite(x, d) PROVE Once'
    <3>1. UNCHANGED <<at, deaths>> /\ x \in Strikers /\ work[x].pc = "write"
          /\ \A v \in Strikers : v # x => work'[v] = work[v]
      BY <2>6, <2>t DEF ScriptWrite, Strikers
    <3>2. scripted \subseteq scripted'
      BY <2>6 DEF ScriptWrite
    <3>3. \/ work'[x].pc = "free"
          \/ /\ work'[x].target = work[x].target /\ work'[x].pc = "dead"
             /\ work[x].target \in Mobs => work[x].target \in scripted'
      <4> DEFINE t == work[x].target
                 down == [work[x] EXCEPT !.pc = "dead", !.hp = 0]
      <4>1. \/ work' = [work EXCEPT ![x] = Free]
            \/ /\ work' = [work EXCEPT ![x] = down] \/ work' = [work EXCEPT ![x] = Free]
               /\ scripted' = scripted \cup ({t} \cap Mobs)
        BY <2>6 DEF ScriptWrite
      <4>2. down.pc = "dead" /\ down.target = t /\ Free.pc = "free"
        BY <2>t, <3>1 DEF Work, Free
      <4>3. work'[x] = Free \/ (work'[x] = down /\ scripted' = scripted \cup ({t} \cap Mobs))
        BY <2>t, <3>1, <4>1
      <4> HIDE DEF down
      <4> QED BY <4>2, <4>3
    <3>4. ASSUME NEW m \in Mobs, m \notin scripted' PROVE OnceFor(m)'
      <4>1. OnceFor(m)
        BY <1>3, <3>2, <3>4 DEF Once
      <4>2. work'[x].target = m => work'[x].pc = "free"
        BY <3>3, <3>4
      <4> QED BY <3>1, <4>1, <4>2, OnceByOne
    <3> QED BY <3>4 DEF Once, OnceFor
  <2> QED
    BY <1>3, <2>1, <2>2, <2>3, <2>4, <2>5, <2>6
    DEF FightNext, Tick, Strikers, Attack, EnqueueAttack, Enqueue, Ready, TickRead, TickCheck,
        TickEnd, TickLock, NoEffect, Restamp, Swing, world, history
<1> QED BY <1>1, <1>2, <1>3

\* Whatever pulses and scripts overlap, and whatever hit points they write over
\* each other's: who is left with none is being brought to a death handler
\* (resolveAction, ApplyDamageExternal, handleMobDeath, handleCharacterDeath).
THEOREM NobodyLeftAtZero == FightSpec => []ZeroIsHandled
<1>1. FightInit => Combat /\ Tended
  BY CombatInductive, TendedInductive
<1>2. (Combat /\ Tended) /\ [FightNext]_combatVars => (Combat /\ Tended)'
  BY CombatInductive, TendedInductive
<1>3. Combat /\ Tended => ZeroIsHandled
  BY CombatTypes DEF Tended, OnItsWay, ZeroIsHandled
<1> QED BY <1>1, <1>2, <1>3, PTL DEF FightSpec

\* As long as pulses do not overlap, each mob also dies once unless a script
\* strikes it too: one corpse, one share of experience, one quest credit.
THEOREM DeathsAlwaysHandled ==
    ASSUME \A p, q \in Pulses : p = q
    PROVE  FightSpec => []DeathsHandled
<1> DEFINE Inv == Combat /\ Tended /\ Once
<1>1. FightInit => Inv
  BY CombatInductive, TendedInductive, OnceInductive
<1>2. Inv /\ [FightNext]_combatVars => Inv'
  BY CombatInductive, TendedInductive, OnceInductive
<1>3. Inv => DeathsHandled
  <2>1. Inv => ZeroIsHandled
    BY CombatTypes DEF Tended, OnItsWay, ZeroIsHandled
  <2>2. ASSUME Inv PROVE DiesOnce
    BY <2>2, CombatTypes DEF Once, OnceFor, DiesOnce
  <2> QED BY <2>1, <2>2 DEF DeathsHandled
<1> QED BY <1>1, <1>2, <1>3, PTL DEF FightSpec
=============================================================================
