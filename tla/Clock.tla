-------------------------------- MODULE Clock --------------------------------
(***************************************************************************)
(* Time in the server.  The heartbeat (internal/tick) looks once a beat for *)
(* the pulses that are due and starts a goroutine for each, which it does   *)
(* not wait for.  The day clock (internal/world/dayclock.go) counts from a  *)
(* saved base.  Two pulses are modelled: the one that tells the players of  *)
(* dawn, sunrise, dusk and nightfall (phase_ambient.go), and the one that   *)
(* saves the clock.  A client that does not read holds up who writes to it, *)
(* so pulses overlap.                                                       *)
(***************************************************************************)
EXTENDS Naturals, FiniteSets

CONSTANTS
    Listeners,  \* sessions in outdoor rooms
    Beat,       \* moments between two beats of the heartbeat, the length of a tick
    Quarter,    \* ticks of a phase (450)
    PhaseEvery, SaveEvery,      \* moments between pulses (DefaultPhaseInterval, DefaultSaveInterval)
    Baseline,   \* LightLevel of a room
    Pulses,     \* bound: goroutines of pulses at a time
    Horizon     \* bound: moments

ASSUME ClockAssumption ==
    /\ {Beat, Quarter, PhaseEvery, SaveEvery, Baseline} \subseteq Nat \ {0} /\ Horizon \in Nat

VARIABLES
    moment,     \* time.Now
    up, start, base,    \* the process runs; Clock.start, Clock.baseTicks
    ticked,     \* the ticker's channel, of capacity one
    next,       \* per pulse, when it is due
    pulse,      \* the goroutines: [does, line, left] or [does, ticks]
    lastPhase,  \* PhaseAmbientWatcher.lastPhase, counted on from phase to phase
    saved,      \* world_state.ticks
    heard,      \* history: per listener, how often it was told of a crossing
    late        \* history: a beat was lost

clockVars == <<moment, up, start, base, ticked, next, pulse, lastPhase, saved, heard, late>>

Buckets == {"phase", "save"}
Every(b) == IF b = "phase" THEN PhaseEvery ELSE SaveEvery
NoPulse == [does |-> "idle"]

(***************************************************************************)
(* The day                                                                 *)
(***************************************************************************)
TicksPerDay == 4 * Quarter
Ticks == base + (moment - start) \div Beat

\* Phases are counted from the first dawn on; PhaseOf gives their names.
PhaseCount(ticks) == ticks \div Quarter
PhaseOf(count) == <<"dawn", "day", "dusk", "night">>[(count % 4) + 1]

HourOfDay(ticks) == ((ticks % TicksPerDay) * 24) \div TicksPerDay

\* Rises through dawn, falls through dusk, none at night.
ApplyCurve(ticks) ==
    LET p == ticks % TicksPerDay
    IN  CASE p < Quarter -> (Baseline * p) \div Quarter
          [] p >= Quarter /\ p < 2 * Quarter -> Baseline
          [] p >= 2 * Quarter /\ p < 3 * Quarter -> (Baseline * (3 * Quarter - p)) \div Quarter
          [] p >= 3 * Quarter -> 0

\* The time command: the phase to come, and the ticks until then.
NextPhase(phase) ==
    CASE phase = "dawn" -> "day" [] phase = "day" -> "dusk"
      [] phase = "dusk" -> "night" [] phase = "night" -> "dawn"
UntilNext(ticks) == Quarter - (ticks % Quarter)

\* Only the step to the next phase is told of.
TransitionFor(prev, curr) == PhaseOf(curr) = NextPhase(PhaseOf(prev))

(***************************************************************************)
(* The heartbeat                                                           *)
(***************************************************************************)
\* The process starts: pulses are due a period from now, the watcher knows the
\* phase there is.
Started(at, ticks) ==
    /\ up' = TRUE /\ start' = at /\ base' = ticks /\ ticked' = FALSE
    /\ next' = [b \in Buckets |-> at + Every(b)]
    /\ lastPhase' = PhaseCount(ticks)

ClockInit ==
    /\ moment = 0 /\ up = TRUE /\ start = 0 /\ saved \in {0, Quarter, 3 * Quarter} /\ base = saved
    /\ ticked = FALSE /\ next = [b \in Buckets |-> Every(b)]
    /\ pulse = [p \in Pulses |-> NoPulse] /\ lastPhase = PhaseCount(base)
    /\ heard = [l \in Listeners |-> [c \in {} |-> 0]] /\ late = FALSE

\* The channel of the ticker holds one beat; another that finds it full is lost.
Elapse ==
    /\ moment < Horizon /\ moment' = moment + 1
    /\ LET beats == up /\ (moment' - start) % Beat = 0
       IN  ticked' = (ticked \/ beats) /\ late' = (late \/ (ticked /\ beats))
    /\ UNCHANGED <<up, start, base, next, pulse, lastPhase, saved, heard>>

Due == {b \in Buckets : next[b] <= moment}

\* The due pulses get a goroutine each and are due again a period from now.
Tick ==
    /\ up /\ ticked /\ ticked' = FALSE
    /\ \E where \in [Due -> {p \in Pulses : pulse[p] = NoPulse}] :
          /\ \A b, c \in Due : b # c => where[b] # where[c]
          /\ pulse' = [p \in Pulses |->
                IF \E b \in Due : where[b] = p THEN [does |-> CHOOSE b \in Due : where[b] = p] ELSE pulse[p]]
    /\ next' = [b \in Buckets |-> IF b \in Due THEN moment + Every(b) ELSE next[b]]
    /\ UNCHANGED <<moment, up, start, base, lastPhase, saved, heard, late>>

Becomes(p, now) == pulse' = [pulse EXCEPT ![p] = now]

(***************************************************************************)
(* The watcher of the phase                                                *)
(***************************************************************************)
Tells(prev, curr) ==
    IF prev # curr /\ TransitionFor(prev, curr)
    THEN [does |-> "broadcast", line |-> curr, left |-> Listeners] ELSE NoPulse

\* Mutant: the phase is remembered once everybody has been told.
ClaimLater(p) ==
    /\ pulse[p].does = "phase" /\ Becomes(p, Tells(lastPhase, PhaseCount(Ticks)))
    /\ UNCHANGED <<moment, up, start, base, ticked, next, lastPhase, saved, heard, late>>

\* Under the watcher's lock the phase is read, compared and remembered.
Claim(p) ==
    /\ pulse[p].does = "phase" /\ lastPhase' = PhaseCount(Ticks)
    /\ Becomes(p, Tells(lastPhase, lastPhase'))
    /\ UNCHANGED <<moment, up, start, base, ticked, next, saved, heard, late>>

\* The sessions are told one after the other, without the lock.
Broadcast(p, l) ==
    /\ pulse[p].does = "broadcast" /\ l \in pulse[p].left
    /\ heard' = [heard EXCEPT ![l] =
          [c \in DOMAIN @ \cup {pulse[p].line} |->
              (IF c \in DOMAIN @ THEN @[c] ELSE 0) + (IF c = pulse[p].line THEN 1 ELSE 0)]]
    /\ Becomes(p, IF pulse[p].left = {l} THEN NoPulse ELSE [pulse[p] EXCEPT !.left = @ \ {l}])
    /\ UNCHANGED <<moment, up, start, base, ticked, next, lastPhase, saved, late>>

(***************************************************************************)
(* The save of the clock                                                   *)
(***************************************************************************)
ReadTicks(p) ==
    /\ pulse[p].does = "save" /\ Becomes(p, [does |-> "set", ticks |-> Ticks])
    /\ UNCHANGED <<moment, up, start, base, ticked, next, lastPhase, saved, heard, late>>

SetTicks(p) ==
    /\ pulse[p].does = "set" /\ saved' = pulse[p].ticks /\ Becomes(p, NoPulse)
    /\ UNCHANGED <<moment, up, start, base, ticked, next, lastPhase, heard, late>>

\* The process ends, and its goroutines with it; the clock goes on from what
\* was saved.
ClockCrash ==
    /\ up /\ up' = FALSE /\ ticked' = FALSE /\ pulse' = [p \in Pulses |-> NoPulse]
    /\ UNCHANGED <<moment, start, base, next, lastPhase, saved, heard, late>>

ClockBoot ==
    /\ ~up /\ Started(moment, saved)
    /\ heard' = [l \in Listeners |-> [c \in {} |-> 0]] /\ late' = FALSE
    /\ UNCHANGED <<moment, pulse, saved>>

ClockNext ==
    \/ Elapse \/ Tick \/ ClockCrash \/ ClockBoot
    \/ \E p \in Pulses : Claim(p) \/ ReadTicks(p) \/ SetTicks(p) \/ \E l \in Listeners : Broadcast(p, l)

ClockSpec == ClockInit /\ [][ClockNext]_clockVars

(***************************************************************************)
(* Properties                                                              *)
(***************************************************************************)
\* However pulses overlap and whoever holds them up, a player is told of a
\* crossing once, after it has come.
OneLinePerCrossing ==
    \A l \in Listeners : \A c \in DOMAIN heard[l] :
        heard[l][c] = 1 /\ PhaseCount(base) < c /\ c <= PhaseCount(Ticks)

\* While no beat is lost no pulse comes two beats late or more; one whose
\* period is a beat may come at every other beat.
PulseInTime == up /\ ~late => \A b \in Buckets : moment < next[b] + 2 * Beat

\* The light, the hour and the phase a player can ask for tell the same time
\* of day, and the light goes from tick to tick without a jump.
TimesAgree ==
    LET phase == PhaseOf(PhaseCount(Ticks))
        step == (Baseline + Quarter - 1) \div Quarter
    IN  /\ phase = PhaseOf(HourOfDay(Ticks) \div 6)
        /\ PhaseOf(PhaseCount(Ticks + UntilNext(Ticks))) = NextPhase(phase)
        /\ phase = "night" => ApplyCurve(Ticks) = 0
        /\ phase = "day" => ApplyCurve(Ticks) = Baseline
        /\ ApplyCurve(Ticks) <= ApplyCurve(Ticks + 1) + step
        /\ ApplyCurve(Ticks + 1) <= ApplyCurve(Ticks) + step

\* A crossing is told once, a pulse comes in time, and those who ask for the
\* time get one answer.
TimeIsKept == OneLinePerCrossing /\ PulseInTime /\ TimesAgree
=============================================================================
