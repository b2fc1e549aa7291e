------------------------------- MODULE Wander -------------------------------
(***************************************************************************)
(* Mobs that roam between the rooms of their zone (internal/mob/wander.go  *)
(* and bfs.go).  Every wander pulse lists the spawned mobs and considers   *)
(* one after the other, each from the room the list showed it in; pulses   *)
(* are goroutines of their own and can overlap, a mob can flee or die      *)
(* between the listing and its turn, and doors turn at any time.           *)
(*                                                                         *)
(* A template walks a closed path, steers by breadth-first search towards  *)
(* a goal within its radius, or takes an exit at random.  The order of a   *)
(* room's exits is the database's: every exit a search may return is       *)
(* tried.  Trails, which only the verb track reads, are left out.          *)
(***************************************************************************)
EXTENDS Integers, Sequences

CONSTANTS
    Mobs, WanderPulses,
    Places, Passages,     \* rooms and exits
    Leaves, Reaches,      \* exit -> the room it leaves, the room it leads to
    Doorways,             \* exits that can be closed
    ZoneOf,               \* room -> zone
    Home,                 \* mob -> the room it was spawned in
    Templates,            \* [path, radius, roams]: the authored path or << >>,
                          \* wander_radius, whether wander_chance is positive
    HopCap,               \* bfsHopHardCap
    Nowhere               \* no goal; the room of a mob that is gone

ASSUME WanderAssumption ==
    /\ Leaves \in [Passages -> Places] /\ Reaches \in [Passages -> Places]
    /\ Doorways \subseteq Passages /\ Home \in [Mobs -> Places]
    /\ Templates \subseteq [path : Seq(Places), radius : Nat, roams : BOOLEAN]
    /\ HopCap \in Nat
    /\ Nowhere \notin Places

VARIABLES
    breed,     \* mob -> its template
    at,        \* mob -> mob_instances.room_id, Nowhere after its despawn
    goals,     \* WanderHandler.goals: mob -> room, Nowhere for no entry
    shut,      \* the exits that are closed now
    fled,      \* mobs that have run from a fight
    tour       \* pulse -> what it does next

wanderVars == <<breed, at, goals, shut, fled, tour>>

Asleep == [op |-> "asleep"]

WanderInit ==
    /\ breed \in [Mobs -> Templates] /\ at = Home /\ goals = [m \in Mobs |-> Nowhere] /\ shut = {} /\ fled = {}
    /\ tour = [g \in WanderPulses |-> Asleep]

(***************************************************************************)
(* bfs.go                                                                  *)
(***************************************************************************)
Walkable(r) == {x \in Passages \ shut : Leaves[x] = r}

\* Mutant: the search looks at the zone of the goal only.
NeighborsAnyZone(r, zone) == {Reaches[x] : x \in Walkable(r)}

\* The rooms of the zone one open exit away.
Neighbors(r, zone) == {q \in {Reaches[x] : x \in Walkable(r)} : ZoneOf[q] = zone}

\* The rooms at most n hops away, the room itself among them.
Within(r, n) ==
    LET zone == ZoneOf[r]
        level[k \in 0..n] ==
            IF k = 0 THEN {r}
            ELSE LET near == level[k - 1] IN near \union UNION {Neighbors(q, zone) : q \in near}
    IN  level[n]

Hops(n) == IF n > HopCap THEN HopCap ELSE n
Reachable(r, n) == Within(r, Hops(n)) \ {r}

\* The first rooms of the shortest open paths to the goal, {} without one.
NextSteps(r, goal, n) ==
    LET far == {k \in 1..Hops(n) : goal \in Within(r, k)}
        hops == CHOOSE k \in far : \A j \in far : k <= j
    IN  IF goal = r \/ far = {} THEN {}
        ELSE {q \in Neighbors(r, ZoneOf[r]) : goal \in Within(q, hops - 1)}

(***************************************************************************)
(* A pulse                                                                 *)
(***************************************************************************)
Turns(g, t) == tour' = [tour EXCEPT ![g] = t]

\* ListSpawned.
Wake(g) ==
    /\ tour[g].op = "asleep"
    /\ LET here == {m \in Mobs : at[m] # Nowhere} IN
       Turns(g, [op |-> "walk", seen |-> at, alive |-> here, left |-> here])
    /\ UNCHANGED <<breed, at, goals, shut, fled>>

\* The mob m is considered, from the room it was listed in.
Considers(g, m) == tour[g].op = "walk" /\ m \in tour[g].left
SeenAt(g, m) == tour[g].seen[m]
Walking(g, left) == [op |-> "walk", seen |-> tour[g].seen, alive |-> tour[g].alive, left |-> left]
Stays(g, m) == Turns(g, Walking(g, tour[g].left \ {m}))
Heads(g, op, m, to, goal) ==
    Turns(g, [op |-> op, seen |-> tour[g].seen, alive |-> tour[g].alive,
              left |-> tour[g].left \ {m}, mob |-> m, to |-> to, goal |-> goal])

\* considerStrictPath: a mob off its path, before a closed door or at the
\* border of the zone waits.
StepOnPath(g, m) ==
    /\ Considers(g, m) /\ breed[m].path # << >>
    /\ LET path == breed[m].path
           on == {i \in DOMAIN path : path[i] = SeenAt(g, m)}
           ahead == {path[(i % Len(path)) + 1] : i \in on}
           open == ahead \intersect Neighbors(SeenAt(g, m), ZoneOf[SeenAt(g, m)])
       IN  IF open = {} THEN Stays(g, m) ELSE \E q \in open : Heads(g, "move", m, q, Nowhere)
    /\ UNCHANGED <<breed, at, goals, shut, fled>>

\* considerBFSWander, first half: a mob without a goal, or at it, takes one.
PickGoal(g, m) ==
    /\ Considers(g, m) /\ breed[m].path = << >> /\ breed[m].radius > 0
    /\ goals[m] \in {Nowhere, SeenAt(g, m)}
    /\ LET choice == Reachable(SeenAt(g, m), breed[m].radius) IN
       IF choice = {} THEN Stays(g, m) /\ UNCHANGED goals
       ELSE \E q \in choice :
              /\ goals' = [goals EXCEPT ![m] = q]
              /\ Heads(g, "aim", m, Nowhere, q)
    /\ UNCHANGED <<breed, at, shut, fled>>

KeepGoal(g, m) ==
    /\ Considers(g, m) /\ breed[m].path = << >> /\ breed[m].radius > 0
    /\ goals[m] \notin {Nowhere, SeenAt(g, m)}
    /\ Heads(g, "aim", m, Nowhere, goals[m])
    /\ UNCHANGED <<breed, at, goals, shut, fled>>

\* Mutant: a goal that cannot be reached any more is kept.
GoalKept(m) == goals' = goals

ClearGoal(m) == goals' = [goals EXCEPT ![m] = Nowhere]

\* Second half: one hop towards the goal; without a way it is given up.
Aim(g) ==
    /\ tour[g].op = "aim"
    /\ LET t == tour[g]
           steps == NextSteps(SeenAt(g, t.mob), t.goal, breed[t.mob].radius)
       IN  IF steps = {} THEN ClearGoal(t.mob) /\ Stays(g, t.mob)
           ELSE UNCHANGED goals /\ \E q \in steps : Heads(g, "move", t.mob, q, t.goal)
    /\ UNCHANGED <<breed, at, shut, fled>>

\* The roll of the dice, then a random exit inside the zone.
Roam(g, m) ==
    /\ Considers(g, m) /\ breed[m].path = << >> /\ breed[m].radius = 0
    /\ \/ Stays(g, m)
       \/ /\ breed[m].roams
          /\ \E q \in Neighbors(SeenAt(g, m), ZoneOf[SeenAt(g, m)]) :
                Heads(g, "move", m, q, Nowhere)
    /\ UNCHANGED <<breed, at, goals, shut, fled>>

\* UpdateRoom, which finds no row when the mob is gone; on arrival the goal is
\* cleared, in the same step.
Move(g) ==
    /\ tour[g].op = "move"
    /\ LET t == tour[g] IN
       /\ IF at[t.mob] = Nowhere THEN UNCHANGED <<at, goals>>
          ELSE /\ at' = [at EXCEPT ![t.mob] = t.to]
               /\ IF t.goal = t.to THEN ClearGoal(t.mob)
                  ELSE UNCHANGED goals
       /\ Stays(g, t.mob)
    /\ UNCHANGED <<breed, shut, fled>>

\* pruneGoals drops the goals of mobs the listing did not show.
PruneGoals(g) ==
    /\ tour[g].op = "walk" /\ tour[g].left = {}
    /\ goals' = [m \in Mobs |-> IF m \in tour[g].alive THEN goals[m] ELSE Nowhere]
    /\ Turns(g, Asleep)
    /\ UNCHANGED <<breed, at, shut, fled>>

(***************************************************************************)
(* Around it: doors, flights, deaths                                       *)
(***************************************************************************)
TurnDoor(x) ==
    /\ shut' = IF x \in shut THEN shut \ {x} ELSE shut \union {x}
    /\ UNCHANGED <<breed, at, goals, fled, tour>>

\* AttemptFlee of a mob: any open exit, whatever its zone.
FleeRoom(m) ==
    /\ at[m] # Nowhere
    /\ \E x \in Walkable(at[m]) : at' = [at EXCEPT ![m] = Reaches[x]]
    /\ fled' = fled \union {m}
    /\ UNCHANGED <<breed, goals, shut, tour>>

Despawn(m) ==
    /\ at[m] # Nowhere /\ at' = [at EXCEPT ![m] = Nowhere]
    /\ UNCHANGED <<breed, goals, shut, fled, tour>>

Stroll(g) ==
    \/ \E m \in Mobs : StepOnPath(g, m) \/ PickGoal(g, m) \/ KeepGoal(g, m) \/ Roam(g, m)
    \/ Wake(g) \/ Aim(g) \/ Move(g) \/ PruneGoals(g)

WanderNext ==
    \/ \E g \in WanderPulses : Stroll(g)
    \/ \E x \in Doorways : TurnDoor(x)
    \/ \E m \in Mobs : FleeRoom(m) \/ Despawn(m)

WanderSpec == WanderInit /\ [][WanderNext]_wanderVars

(***************************************************************************)
(* Properties                                                              *)
(***************************************************************************)
\* A mob that never ran from a fight is in the zone it was spawned in, however
\* stale the listings that overlapping pulses move it from (wander.go, the
\* zone gate of each branch).
KeepsToItsZone ==
    \A m \in Mobs \ fled : at[m] # Nowhere => ZoneOf[at[m]] = ZoneOf[Home[m]]

\* A mob that never ran from a fight chases no goal for ever, once the doors
\* are left open: it gets there or gives up, although overlapping pulses move
\* it about (considerBFSWander).  And a mob that is gone leaves no goal behind,
\* although a pulse that had listed it may set one after its death
\* (pruneGoals).
ChasesEnd ==
    \A m \in Mobs :
        /\ <>[](shut = {} /\ m \notin fled /\ at[m] # Nowhere) => []<>(goals[m] = Nowhere)
        /\ <>[](at[m] = Nowhere) => <>[](goals[m] = Nowhere)
=============================================================================
