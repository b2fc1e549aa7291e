-------------------------------- MODULE Flow --------------------------------
(***************************************************************************)
(* Guided flows (internal/flow, mode/flow.go, repo/flow_state_sqlite.go).  *)
(* A flow asks its steps one by one, stores the answers and ends in a step *)
(* that commits them.  The runner saves step and answers at every step, so *)
(* that a login after a lost connection, a takeover or a crash resumes     *)
(* where the player stood.                                                 *)
(*                                                                         *)
(* One account and one resumable flow.  Answers that a step refuses change *)
(* nothing and are left out, and so is the eviction at the cap on stored   *)
(* flows, which is above the number of flows there are.                    *)
(***************************************************************************)
EXTENDS Integers, FiniteSets, Functions

CONSTANTS
    Guests,      \* sessions of the account, one after the other
    FlowSteps,
    KindOf,      \* step -> "ask", "confirm", "buy", "branch", "action"
    Releases,    \* name -> [first, next], next: step -> answer -> step or "end"
    BranchOn,    \* the step whose answer a branch looks at
    Wares,       \* what a "buy" step sells
    Prices,      \* what each score costs
    Lowest,      \* the score all wares start with
    Budget,
    MaxMoves     \* bound: steps entered over the whole run

\* Every branch has a default.
ASSUME FlowAssumption ==
    /\ KindOf \in [FlowSteps -> {"ask", "confirm", "buy", "branch", "action"}]
    /\ {"none", "end"} \cap FlowSteps = {} /\ BranchOn \in FlowSteps /\ Lowest \in Int
    /\ \A n \in DOMAIN Releases :
          LET next == Releases[n].next
          IN  /\ DOMAIN next \subseteq FlowSteps /\ Releases[n].first \in DOMAIN next
              /\ \A p \in DOMAIN next :
                    /\ "unset" \notin DOMAIN next[p]
                    /\ KindOf[p] = "branch" => "default" \in DOMAIN next[p]
                    /\ KindOf[p] \in {"buy", "action"} => "done" \in DOMAIN next[p]
                    /\ \A a \in DOMAIN next[p] : next[p][a] \in DOMAIN next \cup {"end"}

VARIABLES
    catalog,    \* the name of the release
    stored,     \* flow_state: [step, values], or the step "none"
    guest,      \* session -> [at, step, values, to]
    current,    \* the session bound to the account, or "none"
    committed,  \* the last commit, if there was one: << [values, release] >>
    moves

flowVars == <<catalog, stored, guest, current, committed, moves>>

Asks(n) == DOMAIN Releases[n].next

NoAnswer == [answer |-> [p \in FlowSteps |-> "unset"], score |-> [w \in Wares |-> Lowest]]
Nothing == [step |-> "none", values |-> NoAnswer]
Away == [at |-> "away", step |-> "none", values |-> NoAnswer, to |-> "none"]

FlowInit ==
    /\ catalog \in DOMAIN Releases /\ stored = Nothing
    /\ guest = [g \in Guests |-> Away] /\ current = "none"
    /\ committed = << >> /\ moves = 0

Go(g, r) == guest' = [guest EXCEPT ![g] = r]
Aborts(g) == Go(g, [Away EXCEPT !.at = "menu"])

NextOf(p) == Releases[catalog].next[p]
Answers(p) == IF p \in Asks(catalog) THEN DOMAIN NextOf(p) ELSE {}

Spent(score) == FoldFunction(LAMBDA n, total : total + Prices[n], 0, score)

(***************************************************************************)
(* Login, verb, end of a session                                           *)
(***************************************************************************)

\* NewFlow: the stored state, if its step still exists.
Resumable == stored.step \in Asks(catalog)

Resumed(g) ==
    /\ Resumable
    /\ Go(g, [at |-> "prompt", step |-> stored.step, values |-> stored.values, to |-> "none"])
    /\ UNCHANGED stored

\* If not, or if it cannot be read, the flow starts afresh; what is stored is
\* dropped if its step is gone and the delete succeeds.
Afresh(g) ==
    /\ Go(g, [at |-> "advance", step |-> "none", values |-> NoAnswer, to |-> Releases[catalog].first])
    /\ stored' = stored \/ (~Resumable /\ stored' = Nothing)

\* A login takes the account over, and runs what is stored above the menu,
\* unless the list cannot be read.  The session it displaces still finishes
\* the line it handles.
Enter(g) ==
    /\ guest[g].at = "away" /\ current # g /\ current' = g
    /\ \/ Resumed(g)
       \/ stored.step # "none" /\ Afresh(g)
       \/ Go(g, [Away EXCEPT !.at = "menu"]) /\ UNCHANGED stored
    /\ UNCHANGED <<catalog, committed, moves>>

\* The verb that pushes the flow.
Begin(g) ==
    /\ guest[g].at = "menu" /\ current = g /\ (Resumed(g) \/ Afresh(g))
    /\ UNCHANGED <<catalog, current, committed, moves>>

Depart(g) ==
    /\ guest[g].at \in {"prompt", "menu"} /\ Go(g, Away)
    /\ current' = IF current = g THEN "none" ELSE current
    /\ UNCHANGED <<catalog, stored, committed, moves>>

\* A crash or a stop, and a boot with the same release or with one that lacks
\* some steps.  (What is resumed past a step that a release adds commits
\* without it.)
Restart(r) ==
    /\ Asks(r) \subseteq Asks(catalog)
    /\ guest' = [g \in Guests |-> Away] /\ current' = "none" /\ catalog' = r
    /\ UNCHANGED <<stored, committed, moves>>

(***************************************************************************)
(* A line                                                                  *)
(***************************************************************************)
At(g, at) == guest[g].at = at
Facing(g, kind) ==
    /\ At(g, "prompt") /\ current = g
    /\ guest[g].step \in FlowSteps /\ KindOf[guest[g].step] = kind
Takes(g, values, to) ==
    /\ Go(g, [guest[g] EXCEPT !.values = values, !.at = "advance", !.to = to])
    /\ UNCHANGED <<catalog, stored, current, committed, moves>>

Commits(g) == committed' = << [values |-> guest[g].values, release |-> catalog] >>

Answer(g, a) ==
    LET p == guest[g].step
    IN  /\ Facing(g, "ask") /\ a \in Answers(p)
        /\ Takes(g, [guest[g].values EXCEPT !.answer[p] = a], NextOf(p)[a])

\* "done" is taken when the budget is spent to the point.
BuyDone(g) ==
    /\ Facing(g, "buy") /\ Spent(guest[g].values.score) = Budget
    /\ Takes(g, guest[g].values, NextOf(guest[g].step)["done"])

\* +ware, -ware: within the range of scores, and a raise within the budget.
Adjust(g, w, n) ==
    LET values == [guest[g].values EXCEPT !.score[w] = @ + n]
    IN  /\ Facing(g, "buy") /\ values.score[w] \in DOMAIN Prices
        /\ n < 0 \/ Spent(values.score) <= Budget
        /\ Takes(g, values, guest[g].step)

ResetWares(g) ==
    /\ Facing(g, "buy")
    /\ Takes(g, [guest[g].values EXCEPT !.score = NoAnswer.score], guest[g].step)

\* The answer of a confirm step is not stored.  Its action runs whatever the
\* answer is, before the step is left, and aborts the flow if it fails.
Confirm(g, a) ==
    /\ Facing(g, "confirm") /\ a \in Answers(guest[g].step)
    /\ \/ /\ Commits(g)
          /\ Go(g, [guest[g] EXCEPT !.at = "advance", !.to = NextOf(guest[g].step)[a]])
       \/ Aborts(g) /\ UNCHANGED committed
    /\ UNCHANGED <<catalog, stored, current, moves>>

\* A flow resumed at a step without a prompt: whatever the player types aborts
\* it, and it stays stored.
Unpromptable(g) ==
    /\ Facing(g, "branch") \/ Facing(g, "action")
    /\ Aborts(g) /\ UNCHANGED <<catalog, stored, current, committed, moves>>

CancelFlow(g) ==
    /\ At(g, "prompt") /\ current = g /\ Aborts(g)
    /\ stored' = Nothing \/ UNCHANGED stored
    /\ UNCHANGED <<catalog, current, committed, moves>>

(***************************************************************************)
(* advanceTo                                                               *)
(***************************************************************************)

\* Mutant: the step is saved and the answers are those saved before.
SavedStep(g) == [step |-> guest[g].to, values |-> stored.values]

Saved(g) == [step |-> guest[g].to, values |-> guest[g].values]

\* The state is saved before the step acts or prompts; if that fails, the
\* flow is aborted.
Advance(g) ==
    /\ At(g, "advance") /\ guest[g].to # "end" /\ moves < MaxMoves /\ moves' = moves + 1
    /\ \/ /\ stored' = Saved(g)
          /\ Go(g, [guest[g] EXCEPT !.step = guest[g].to, !.to = "none",
                       !.at = IF KindOf[guest[g].to] \in {"branch", "action"} THEN "auto"
                                                                              ELSE "prompt"])
       \/ Aborts(g) /\ UNCHANGED stored
    /\ UNCHANGED <<catalog, current, committed>>

\* The case of the answer looked at, or the default.
Case(p, values) ==
    IF values.answer[BranchOn] \in Answers(p) THEN values.answer[BranchOn] ELSE "default"

Branch(g) ==
    LET p == guest[g].step
    IN  /\ At(g, "auto") /\ KindOf[p] = "branch"
        /\ Go(g, [guest[g] EXCEPT !.at = "advance", !.to = NextOf(p)[Case(p, guest[g].values)]])
        /\ UNCHANGED <<catalog, stored, current, committed, moves>>

Act(g) ==
    /\ At(g, "auto") /\ KindOf[guest[g].step] = "action"
    /\ \/ /\ Commits(g)
          /\ Go(g, [guest[g] EXCEPT !.at = "advance", !.to = NextOf(guest[g].step)["done"]])
       \/ Aborts(g) /\ UNCHANGED committed
    /\ UNCHANGED <<catalog, stored, current, moves>>

\* The end: the stored state is deleted; an error of that is swallowed.
Complete(g) ==
    /\ At(g, "advance") /\ guest[g].to = "end" /\ Aborts(g)
    /\ stored' = Nothing \/ UNCHANGED stored
    /\ UNCHANGED <<catalog, current, committed, moves>>

FlowNext ==
    \/ \E g \in Guests :
        \/ Enter(g) \/ Begin(g) \/ Depart(g)
        \/ \E a \in {"yes", "no"} : Confirm(g, a)
        \/ \E a \in Answers(guest[g].step) : Answer(g, a)
        \/ \E w \in Wares, n \in {-1, 1} : Adjust(g, w, n)
        \/ BuyDone(g) \/ ResetWares(g) \/ Unpromptable(g) \/ CancelFlow(g)
        \/ Advance(g) \/ Branch(g) \/ Act(g) \/ Complete(g)
    \/ \E r \in DOMAIN Releases : Restart(r)

FlowSpec == FlowInit /\ [][FlowNext]_flowVars

(***************************************************************************)
(* Properties                                                              *)
(***************************************************************************)

\* The step that these answers lead to.
Follow(r, values, p) ==
    LET ways == r.next[p]
        case == IF values.answer[BranchOn] \in DOMAIN ways THEN values.answer[BranchOn] ELSE "default"
    IN  CASE KindOf[p] = "branch" -> {ways[case]}
          [] KindOf[p] = "ask" -> {ways[a] : a \in DOMAIN ways \cap {values.answer[p]}}
          [] KindOf[p] = "buy" -> {ways["done"]}
          [] OTHER -> {}

\* The steps of a release that these answers lead through: the least set with
\* the first step and what follows.
Closed(r, values, C) == r.first \in C /\ \A p \in C : Follow(r, values, p) \subseteq C \cup {"end"}
Path(r, values) ==
    {p \in DOMAIN r.next : \A C \in SUBSET DOMAIN r.next : Closed(r, values, C) => p \in C}

\* What a branch looks at is the answer of "a prior step" (step_conditional.go:6):
\* no branch is on a way to that step.
BranchesLookBack ==
    \A n \in DOMAIN Releases : \E early \in SUBSET (Asks(n) \ {BranchOn}) :
        /\ Releases[n].first \in early \cup {BranchOn}
        /\ \A p \in early : KindOf[p] # "branch" /\ \A a \in DOMAIN Releases[n].next[p] :
              Releases[n].next[p][a] \in early \cup {BranchOn, "end"}

\* A release that drops steps leads past them, whatever was answered there, and
\* drops none that commits.  `past` says where a step leads to.
LeadsPast(n, r, past) ==
    /\ \A p \in Asks(r) \cup {"end"} : past[p] = p
    /\ Releases[r].first = past[Releases[n].first]
    /\ \A p \in Asks(r) :
          Releases[r].next[p] = [a \in DOMAIN Releases[n].next[p] |-> past[Releases[n].next[p][a]]]
    /\ \A p \in Asks(n) \ Asks(r) :
          /\ KindOf[p] \notin {"confirm", "action"}
          /\ \A a \in DOMAIN Releases[n].next[p] : past[Releases[n].next[p][a]] = past[p]
ReleasesLeadPast ==
    \A n, r \in DOMAIN Releases : Asks(r) \subseteq Asks(n) =>
        \E past \in [Asks(n) \cup {"end"} -> Asks(r) \cup {"end"}] : LeadsPast(n, r, past)

\* Whatever is lost on the way - the connection, the account to another login,
\* the server, a write, a step of the flow - what a flow commits has an answer
\* to every question on the way that its answers lead, reaches a step that
\* commits, and spends the budget to the last point.
CommitIsWhole ==
    \A i \in DOMAIN committed :
        LET path == Path(Releases[committed[i].release], committed[i].values)
        IN  /\ \E p \in path : KindOf[p] \in {"confirm", "action"}
            /\ \A p \in path :
                  /\ KindOf[p] = "ask" => committed[i].values.answer[p] # "unset"
                  /\ KindOf[p] = "buy" => Spent(committed[i].values.score) = Budget
=============================================================================
