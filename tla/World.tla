------------------------------- MODULE World -------------------------------
(***************************************************************************)
(* The world tables: what a boot writes into them and what an area reset   *)
(* puts back, while play and building change them.                         *)
(*                                                                         *)
(* LoadAndSync (internal/world/loader.go) adds, in one transaction, what   *)
(* the authored files declare and the database lacks.  The ZoneResetter    *)
(* (internal/world/respawn.go) respawns mobs, restores doors and recreates *)
(* items zone by zone, one database call at a time.  Between those calls   *)
(* items move and vanish, mobs die, doors and rooms are changed (module    *)
(* Doors has the verbs and the editor), the server may crash, and between  *)
(* two boots the authored files may change.                                *)
(*                                                                         *)
(* A room's editable fields are one value of Texts, an exit's runtime      *)
(* flags are one value of DoorStates, and the time since a zone's last     *)
(* reset is counted up to Interval.  A zone is occupied or not as players  *)
(* please.                                                                 *)
(***************************************************************************)
EXTENDS Integers, Sequences, FiniteSets, FiniteSetsExt, Functions

CONSTANTS
    Rooms, Zones, Mobs, Things, Doors,  \* external ids; a door is a (room, direction)
    Players,                           \* who may carry an item
    Texts,                             \* the values of a room's editable fields
    DoorStates,                        \* the values of an exit's runtime flags
    Editions,                          \* the authored files, as they may be found at a boot
    Interval,                          \* bound: reset_interval_s, in steps of AgeZones
    Passes                             \* the AreaReset goroutines that may overlap

(***************************************************************************)
(* An edition of the authored files: a record with                         *)
(*   rooms    : the rooms in file order       text  : room -> text         *)
(*   starters : the rooms marked starter      zone  : room -> zone         *)
(*   mode     : zone -> "always"|"empty"|"never"                           *)
(*   doors    : door -> [from, to, state]                                  *)
(*   items    : item -> room                  mobs  : mob -> room          *)
(***************************************************************************)
Floor == "floor"
Off   == [at |-> "off"]

Modes == {"always", "empty", "never"}
Listed(e) == Range(e.rooms)

\* What parsing leaves: each entity is in one zone, and a zone without rooms
\* is refused; items and mobs are optional.
Parsed(e) ==
    /\ e.rooms \in Seq(Rooms) /\ e.starters \subseteq Listed(e)
    /\ e.text \in [Listed(e) -> Texts]
    /\ DOMAIN e.mode \subseteq Zones /\ e.mode \in [DOMAIN e.mode -> Modes]
    /\ e.zone \in [Listed(e) -> DOMAIN e.mode]
    /\ \A z \in DOMAIN e.mode : \E r \in Listed(e) : e.zone[r] = z
    /\ DOMAIN e.doors \subseteq Doors
    /\ \A d \in DOMAIN e.doors : e.doors[d].from \in Listed(e) /\ e.doors[d].state \in DoorStates
    /\ DOMAIN e.items \subseteq Things /\ DOMAIN e.mobs \subseteq Mobs

ASSUME WorldAssumption ==
    /\ Interval \in Nat \ {0} /\ Floor \notin Players /\ IsFiniteSet(Rooms)
    /\ \A e \in Editions : Parsed(e)

VARIABLES
    up,        \* the server is running
    zones,     \* zones table: zone -> [mode, age]
    rooms,     \* rooms table: room -> [id, zone, text]
    exits,     \* exits table: door -> [from, to, state, authored]
    items,     \* items table: item -> Floor or the player who carries it
    mobs,      \* mob_templates and mob_instances: mob -> [home, live]
    specs,     \* in memory: item -> zone, the recipes of ItemSpecsByZone
    occupied,  \* the zones some session stands in
    pass       \* each AreaReset goroutine: where it is

vars == <<up, zones, rooms, exits, items, mobs, specs, occupied, pass>>
tables == <<zones, rooms, exits, items, mobs>>

(***************************************************************************)
(* The boot: validate the files, then one additive transaction             *)
(***************************************************************************)
ValidStarter(e) == Cardinality(e.starters) = 1

ValidExits(e) ==
    \A d \in DOMAIN e.doors : e.doors[d].to \in Listed(e)

ValidItems(e) == \A i \in DOMAIN e.items : e.items[i] \in Listed(e)

ValidMobs(e) == \A m \in DOMAIN e.mobs : e.mobs[m] \in Listed(e)

Valid(e) == ValidStarter(e) /\ ValidExits(e) /\ ValidItems(e) /\ ValidMobs(e)

\* Rows present before win over rows the files declare.
Adding(table, new) ==
    [k \in DOMAIN table \union DOMAIN new |-> IF k \in DOMAIN table THEN table[k] ELSE new[k]]

InsertZones(e) ==
    Adding(zones, [z \in DOMAIN e.mode |-> [mode |-> e.mode[z], age |-> Interval]])

RoomRow(e, r, id) == [id |-> id, zone |-> e.zone[r], text |-> e.text[r]]

\* The starter goes in first, as id 1, unless some row holds that id.
FirstRoom(e) ==
    LET s == CHOOSE r \in e.starters : TRUE
    IN  IF s \in DOMAIN rooms \/ \E r \in DOMAIN rooms : rooms[r].id = 1
        THEN rooms ELSE Adding(rooms, [r \in {s} |-> RoomRow(e, s, 1)])

\* The other new rooms take the next ids in file order.
TopId(held) == Max({held[r].id : r \in DOMAIN held} \union {0})
PlaceOf(e, r) == CHOOSE k \in DOMAIN e.rooms : e.rooms[k] = r
NewUpTo(e, held, n) == {k \in 1..n : e.rooms[k] \notin DOMAIN held}

InsertRooms(e) ==
    LET held == FirstRoom(e)
    IN  Adding(held, [r \in Listed(e) |->
            RoomRow(e, r, TopId(held) + Cardinality(NewUpTo(e, held, PlaceOf(e, r))))])

InsertExits(e) ==
    Adding(exits, [d \in DOMAIN e.doors |->
        [from |-> e.doors[d].from, to |-> e.doors[d].to,
         state |-> e.doors[d].state, authored |-> e.doors[d].state]])

\* Mutant: the files win over the rows.
InsertItemsAfresh(e) == Adding([i \in DOMAIN e.items |-> Floor], items)

InsertItems(e) == Adding(items, [i \in DOMAIN e.items |-> Floor])

\* Mutant: every boot brings each mob's first instance.
InsertMobsAgain(e) ==
    [m \in DOMAIN mobs \union DOMAIN e.mobs |->
        IF m \in DOMAIN mobs THEN [mobs[m] EXCEPT !.live = @ + 1]
        ELSE [home |-> InsertRooms(e)[e.mobs[m]].zone, live |-> 1]]

\* A mob's template comes with its anchor and its first instance.
InsertMobs(e) ==
    Adding(mobs, [m \in DOMAIN e.mobs |->
        [home |-> InsertRooms(e)[e.mobs[m]].zone, live |-> 1]])

BuildItemSpecs(e) == [i \in DOMAIN e.items |-> e.zone[e.items[i]]]

LoadAndSync(e) ==
    /\ ~up
    /\ Valid(e)
    /\ zones' = InsertZones(e) /\ rooms' = InsertRooms(e) /\ exits' = InsertExits(e)
    /\ items' = InsertItems(e) /\ mobs'  = InsertMobs(e)
    /\ specs' = BuildItemSpecs(e)
    /\ up' = TRUE
    /\ UNCHANGED <<occupied, pass>>

\* A crash keeps the tables and loses everything in memory; a boot that fails to
\* validate or to commit leaves the tables as they were, which is no step.
Crash ==
    /\ up
    /\ up' = FALSE
    /\ specs' = <<>> /\ occupied' = {}
    /\ pass' = [p \in Passes |-> Off]
    /\ UNCHANGED tables

(***************************************************************************)
(* The area reset                                                          *)
(***************************************************************************)
\* One second of every zone's interval goes by.
AgeZones ==
    /\ up
    /\ \E z \in DOMAIN zones : zones[z].age < Interval
    /\ zones' = [z \in DOMAIN zones |->
                    [zones[z] EXCEPT !.age = IF @ < Interval THEN @ + 1 ELSE @]]
    /\ UNCHANGED <<up, rooms, exits, items, mobs, specs, occupied, pass>>

\* A session comes into a zone, or the last one leaves it.
Wander(z) ==
    /\ up /\ z \in DOMAIN zones
    /\ occupied' = SymDiff(occupied, {z})
    /\ UNCHANGED <<up, zones, rooms, exits, items, mobs, specs, pass>>

StartPass(p) ==
    /\ up /\ pass[p] = Off
    /\ pass' = [pass EXCEPT ![p] = [at |-> "gate", todo |-> DOMAIN zones]]
    /\ UNCHANGED <<up, zones, rooms, exits, items, mobs, specs, occupied>>

Anchored(z) == {m \in DOMAIN mobs : mobs[m].home = z}

Resets(z) ==
    /\ zones[z].mode # "never"
    /\ zones[z].age >= Interval
    /\ ~(zones[z].mode = "empty" /\ z \in occupied)

\* Where a pass goes on within a zone.
Goes(p, at, left) == [at |-> at, zone |-> pass[p].zone, left |-> left, todo |-> pass[p].todo]
Spawning(p, m, left) ==
    [at |-> "spawn", zone |-> pass[p].zone, left |-> left, todo |-> pass[p].todo, mob |-> m]

Gate(p) ==
    /\ pass[p].at = "gate"
    /\ \E z \in pass[p].todo :
         pass' = [pass EXCEPT ![p] =
            IF Resets(z)
            THEN [at |-> "count", zone |-> z, left |-> Anchored(z), todo |-> @.todo \ {z}]
            ELSE [at |-> "gate", todo |-> @.todo \ {z}]]
    /\ UNCHANGED <<up, zones, rooms, exits, items, mobs, specs, occupied>>

\* Mutant: the first mob found alive ends the loop over the templates.
CountMobReturns(p) ==
    /\ pass[p].at = "count"
    /\ \E m \in pass[p].left :
         pass' = [pass EXCEPT ![p] =
            IF mobs[m].live > 0 THEN Goes(p, "count", {}) ELSE Spawning(p, m, @.left \ {m})]
    /\ UNCHANGED <<up, zones, rooms, exits, items, mobs, specs, occupied>>

CountMob(p) ==
    /\ pass[p].at = "count"
    /\ \E m \in pass[p].left :
         pass' = [pass EXCEPT ![p] =
            IF mobs[m].live > 0 THEN Goes(p, "count", @.left \ {m}) ELSE Spawning(p, m, @.left \ {m})]
    /\ UNCHANGED <<up, zones, rooms, exits, items, mobs, specs, occupied>>

SpawnMob(p) ==
    /\ pass[p].at = "spawn"
    /\ mobs' = [mobs EXCEPT ![pass[p].mob].live = @ + 1]
    /\ pass' = [pass EXCEPT ![p] = Goes(p, "count", @.left)]
    /\ UNCHANGED <<up, zones, rooms, exits, items, specs, occupied>>

\* RestoreAuthored: one UPDATE over the exits that leave the zone's rooms.
RestoreDoors(p) ==
    /\ pass[p].at = "count" /\ pass[p].left = {}
    /\ exits' = [d \in DOMAIN exits |->
                   IF rooms[exits[d].from].zone = pass[p].zone
                   THEN [exits[d] EXCEPT !.state = exits[d].authored] ELSE exits[d]]
    /\ pass' = [pass EXCEPT ![p] = Goes(p, "items", {i \in DOMAIN specs : specs[i] = @.zone})]
    /\ UNCHANGED <<up, zones, rooms, items, mobs, specs, occupied>>

\* external_id is UNIQUE, so the check and the insert are one step.
RespawnItem(p) ==
    /\ pass[p].at = "items"
    /\ \E i \in pass[p].left :
         /\ items' = Adding(items, [j \in {i} |-> Floor])
         /\ pass' = [pass EXCEPT ![p] = Goes(p, "items", @.left \ {i})]
    /\ UNCHANGED <<up, zones, rooms, exits, mobs, specs, occupied>>

RecordReset(p) ==
    /\ pass[p].at = "items" /\ pass[p].left = {}
    /\ zones' = [zones EXCEPT ![pass[p].zone].age = 0]
    /\ pass' = [pass EXCEPT ![p] = [at |-> "gate", todo |-> @.todo]]
    /\ UNCHANGED <<up, rooms, exits, items, mobs, specs, occupied>>

EndPass(p) ==
    /\ pass[p].at = "gate" /\ pass[p].todo = {}
    /\ pass' = [pass EXCEPT ![p] = Off]
    /\ UNCHANGED <<up, zones, rooms, exits, items, mobs, specs, occupied>>

ResetStep(p) ==
    \/ StartPass(p) \/ Gate(p) \/ CountMob(p) \/ SpawnMob(p) \/ RestoreDoors(p)
    \/ RespawnItem(p) \/ RecordReset(p) \/ EndPass(p)

(***************************************************************************)
(* What play and building do to the rows                                   *)
(***************************************************************************)
\* get, drop and give move an item; a sale, a quaff or a decay removes its row.
MoveItem(i, to) ==
    /\ up /\ i \in DOMAIN items /\ to # items[i]
    /\ items' = [items EXCEPT ![i] = to]
    /\ UNCHANGED <<up, zones, rooms, exits, mobs, specs, occupied, pass>>

LoseItem(i) ==
    /\ up /\ i \in DOMAIN items
    /\ items' = Restrict(items, DOMAIN items \ {i})
    /\ UNCHANGED <<up, zones, rooms, exits, mobs, specs, occupied, pass>>

Kill(m) ==
    /\ up /\ m \in DOMAIN mobs /\ mobs[m].live > 0
    /\ mobs' = [mobs EXCEPT ![m].live = @ - 1]
    /\ UNCHANGED <<up, zones, rooms, exits, items, specs, occupied, pass>>

\* A door verb, a room edit and an exit edit, as the tables see them.
TurnDoor(d, st) ==
    /\ up /\ d \in DOMAIN exits /\ st # exits[d].state
    /\ exits' = [exits EXCEPT ![d].state = st]
    /\ UNCHANGED <<up, zones, rooms, items, mobs, specs, occupied, pass>>

EditRoom(r, t) ==
    /\ up /\ r \in DOMAIN rooms /\ t # rooms[r].text
    /\ rooms' = [rooms EXCEPT ![r].text = t]
    /\ UNCHANGED <<up, zones, exits, items, mobs, specs, occupied, pass>>

Retarget(d, r) ==
    /\ up /\ d \in DOMAIN exits /\ r \in DOMAIN rooms /\ r # exits[d].to
    /\ exits' = [exits EXCEPT ![d].to = r]
    /\ UNCHANGED <<up, zones, rooms, items, mobs, specs, occupied, pass>>

(***************************************************************************)
(* Specification                                                           *)
(***************************************************************************)
Init ==
    /\ up = FALSE /\ specs = <<>> /\ occupied = {}
    /\ zones = <<>> /\ rooms = <<>> /\ exits = <<>> /\ items = <<>> /\ mobs = <<>>
    /\ pass = [p \in Passes |-> Off]

Next ==
    \/ \E e \in Editions : LoadAndSync(e)
    \/ Crash \/ AgeZones
    \/ \E z \in Zones : Wander(z)
    \/ \E p \in Passes : ResetStep(p)
    \/ \E i \in Things : LoseItem(i) \/ \E to \in Players \union {Floor} : MoveItem(i, to)
    \/ \E m \in Mobs : Kill(m)
    \/ \E d \in Doors :
         \/ \E st \in DoorStates : TurnDoor(d, st)
         \/ \E r \in Rooms : Retarget(d, r)
    \/ \E r \in Rooms, t \in Texts : EditRoom(r, t)

Spec == Init /\ [][Next]_vars

(***************************************************************************)
(* Properties                                                              *)
(***************************************************************************)
TypeOK ==
    /\ up \in BOOLEAN /\ occupied \subseteq Zones
    /\ DOMAIN zones \subseteq Zones
    /\ \A z \in DOMAIN zones :
         zones[z] \in [mode : Modes, age : 0 .. Interval]
    /\ DOMAIN rooms \subseteq Rooms
    /\ \A r \in DOMAIN rooms :
         rooms[r] \in [id : Nat \ {0}, zone : DOMAIN zones, text : Texts]
    /\ DOMAIN exits \subseteq Doors
    /\ \A d \in DOMAIN exits :
         exits[d] \in [from : DOMAIN rooms, to : DOMAIN rooms,
                       state : DoorStates, authored : DoorStates]
    /\ DOMAIN items \subseteq Things
    /\ \A i \in DOMAIN items : items[i] \in Players \union {Floor}
    /\ DOMAIN mobs \subseteq Mobs
    /\ \A m \in DOMAIN mobs : mobs[m].home \in DOMAIN zones /\ mobs[m].live \in Nat

\* Across boots over changing files, resets cut short by a crash and deaths between
\* the count and the spawn, an anchored mob never has two instances.
OneMobEach ==
    TypeOK /\ \A m \in DOMAIN mobs : mobs[m].live <= 1

\* No two rooms share an id, and once a world was loaded the room that holds id 1,
\* where new characters are placed, is the starter of the files it was loaded from
\* and stays that room, whatever later files call their starter.
StarterStays ==
    [][/\ \A r, s \in DOMAIN rooms' : rooms'[r].id = rooms'[s].id => r = s
       /\ up' => \E r \in DOMAIN rooms' :
            /\ rooms'[r].id = 1
            /\ IF rooms = <<>> THEN \E e \in Editions : Valid(e) /\ r \in e.starters
               ELSE r \in DOMAIN rooms /\ rooms[r].id = 1
      ]_vars

\* A boot and a reset only add: no row goes away, a built text and a retargeted exit
\* stay, a carried item stays with its carrier, a mob that lives is not replaced, and
\* only a reset of its own zone turns a door.
HandsOff ==
    [][(pass' # pass \/ up' # up) =>
         /\ \A r \in DOMAIN rooms : r \in DOMAIN rooms' /\ rooms'[r] = rooms[r]
         /\ \A d \in DOMAIN exits :
              /\ d \in DOMAIN exits' /\ exits'[d].to = exits[d].to
              /\ exits'[d].state # exits[d].state =>
                   \E p \in Passes : /\ pass[p].at = "count" /\ pass'[p].at = "items"
                                     /\ pass[p].zone = rooms[exits[d].from].zone
         /\ \A i \in DOMAIN items : i \in DOMAIN items' /\ items'[i] = items[i]
         /\ \A m \in DOMAIN mobs : /\ m \in DOMAIN mobs' /\ mobs'[m].home = mobs[m].home
                                   /\ mobs[m].live > 0 => mobs'[m].live = mobs[m].live
      ]_vars

\* What a boot and a reset may do to a world that has been played in.
BootsKeepTheWorld == StarterStays /\ HandsOff

\* A mob comes back, again and again, in a zone that is eventually left alone by a
\* server that stays up, unless the zone is never reset.
ComesBack ==
    \A m \in Mobs, z \in Zones :
      <>[](/\ up /\ z \in DOMAIN zones \ occupied /\ zones[z].mode # "never"
           /\ m \in Anchored(z))
        => []<>(m \in DOMAIN mobs /\ mobs[m].live > 0)

=============================================================================
