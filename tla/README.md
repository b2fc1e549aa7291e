# A verification development for WheelMUD

WheelMUD is a multi-user dungeon server in Go: players connect over telnet,
log in to an account, enter the game with a character, walk, fight, trade,
form parties and follow quests, while periodic pulses move mobs, resolve
combat, restock shops, decay corpses and run scripts.  State lives in a SQLite
database and in a few in-memory registries.  There is a reader and a dispatcher
goroutine per connection, a goroutine per due pulse, and hardly any
transactions: most of what is hard about this program is a row that is read,
thought about and written back while somebody else does the same.

The modules here are translated from the Go source, with SQLite's guarantee
that a single statement is atomic as the one assumption about code outside it.
`PROJECT.json` maps every definition to the lines it stands for.

Contents: [1. Inventory](#1-inventory) · [2. Modules](#2-modules-and-how-they-correspond-to-the-code) ·
[3. Runs](#3-runs) · [4. Fairness](#4-fairness) · [5. Proofs](#5-proofs) ·
[6. Divergences](#6-where-code-and-text-disagree) · [7. What is not modelled](#7-what-is-not-modelled) ·
[8. Plan](#8-plan) · [9. Running it](#9-running-it)

## 1. Inventory

### 1.1 Components with state of their own

| Component | Where | State | Module |
|---|---|---|---|
| Connections | `telnet/server.go`, `session.go` | per session: bounded inbox, read deadline, mode, `AccountID`, `CharacterID` | `Session` |
| The line of the cursor | `telnet/lineedit.go`, `session.go`, `pager.go` | edited line, prompt, page on screen, mask | `Terminal` |
| Account registry | `internal/session/registry.go` | `bound`: account → live session | `Session`, `Accounts` |
| Login, account menu | `internal/mode/login.go`, `create.go`, `account_menu*.go` | step of a form, lockout counters, rows of accounts and characters | `Accounts` |
| Character wizard | `internal/mode/chargen*.go`, `character_create.go` | a draft, the hub's substeps, the rows it creates | `Chargen` |
| Flows | `internal/flow`, `mode/flow.go` | stored step and answers, evicted and resumed | `Flow` |
| Party registry | `internal/group/manager.go` | `groups`, `byCharacter`, `invites` behind one mutex | `GroupManager` |
| Event bus | `internal/eventbus/bus.go` | handlers by type, one asynchronous queue, a worker | `EventBus` |
| GMCP | `internal/gmcp`, `telnet/iac.go` | subscriptions, what was sent last | `Gmcp` |
| Purses | `repo/character_sqlite.go` and every verb that moves coin | coin, bank and version of a row, coin piles | `Purse` |
| Shops | `cmd/shop.go`, `repo/shop_sqlite.go`, `world/restock.go` | stock and time of the last restock | `Shop` |
| Items | `repo/item_sqlite.go`, the verbs that move items, `combat/decay.go` | one location per item, equipment of a character, heap of corpses | `Items`, `Custody` |
| Doors, room editor | `cmd/door.go`, `mode/redit.go` | flags and authored fields of exits, drafts | `Doors` |
| World tables | `world/loader.go`, `respawn.go` | rooms, exits, mobs and items of the files and of the database | `World` |
| Heartbeat, day clock | `internal/tick`, `world/dayclock.go`, `phase_ambient.go` | due times, base of the clock, last phase told | `Clock` |
| Wandering mobs | `internal/mob` | goals and rooms of mobs | `Wander` |
| Movement | `cmd/move.go`, `follow.go`, `teleport.go` | rooms of sessions, who follows whom | `Movement` |
| Combat | `internal/combat/manager.go`, `fight.go`, `action.go` | a fight's order, actions, tally, dead and fled | `Fight` |
| Affects, stamina | `internal/affects`, `combat/stamina_ticker.go` | timed affects, hit points, stamina | `Affects` |
| Quests, experience | `internal/quest/engine.go`, `combat/death.go` | quest log, `xp`, `xp_debt` | `QuestLog` |
| Levels, channeling | `progression/levelup.go`, `cmd/train.go`…, `internal/channeling` | sheet, pools, one blob of channeling | `Progress` |
| Verbs, socials, help | `telnet/command.go`, `alias.go`, `emote`, `help`, `cmd/reload.go` | names and aliases of verbs, topics and keywords, user aliases | `Commands` |
| Triggers and scripts | `internal/trigger`, `internal/lua` | fault counters, pool of states, deferred runs | `Scripts` |
| Server process | `cmd/server` | countdowns, signals, order of the shutdown | `Server` |

Two modules have no state: `Coins` (`internal/currency`: checked arithmetic on
amounts, denominations, their text) and `Rules` (attack and damage rolls and
stances of `combat/resolution.go` and `manager.go`, the division of a kill's
experience in `death.go`, the slots of `creature/equipment.go`).

Text, formatting, hashing, metrics and administration make up most of the rest;
`PROJECT.json` lists them with the reason they are left out.

### 1.2 How they interact

* A **line** goes from the reader goroutine through the inbox to the
  dispatcher, which runs one verb at a time.  A verb calls registries (mutex),
  repositories (SQL statements) and publishes on the bus.
* **Publishing is a call**: synchronous handlers (the quest engine, triggers,
  combat messages) run on the publisher's goroutine, so they run on dispatchers
  and on pulses.  Asynchronous handlers, GMCP's among them, share one worker.
* A **pulse** is a new goroutine per due subscription.  Nothing keeps two
  pulses of one subscription apart if the first is slow.
* A **takeover** crosses connections: the dispatcher of the new session
  closes the connection of the old one, whose own goroutines then unbind and
  clear its party.
* **Deaths** reach into everything: the fight, the purse, the inventory, the
  experience columns, and through the event the quest logs.
* **Writing to a client** has no deadline, so whoever writes (a verb, a pulse,
  a countdown, the bus worker) can be held up by one client that does not read.

### 1.3 What is hard, and what correctness means

| Component | Hard behaviour | Correct means |
|---|---|---|
| Party registry | three maps that must agree, invites that outlive what they refer to | no dangling leader or invite, no party over its size |
| Purses, shops | multi-statement verbs without transactions, version conflicts, roll-backs by hand, crashes between statements | coin and goods balance up to what the code writes off |
| Items | two players reach for one item; a fight and a crash interrupt a verb | one place each; nothing leaves a hand but by its holder or a slip; corpses go |
| Doors, world | stale flags, edits, resets and boots on the same rows | an open door is not locked; an edit does not turn a door; resets only add |
| Bus | cancel, stop and a full queue racing publications | every copied handler runs once or is logged; publishers and `Stop` return |
| Quests, experience, levels | whole columns rewritten from snapshots | rewards once, completions last, the ledger adds up, a sheet was earned |
| Connections, login | takeover, failed `postAuth`, panics, type-ahead, parallel wrong passwords | the latest login is bound; losers end; no password is logged; the lock binds |
| Combat, affects | lock-free windows, stale lists, strikes and scripts overwriting rows | who drops to zero is dealt with once; fights end; a calm character recovers |
| Pulses, clock | overlapping pulses, a slow client, crash and boot | every phase is told once; pulses come in time |
| Verbs | reloads of two admins interleave call by call while players type | a built-in verb is never shadowed; what answers is what was loaded; help covers every verb |
| Arithmetic | widths, rounding, Go's map order | sums are exact or refused; a division keeps its total or says what it loses |
| Scripts, flows | nested calls on one pool, deferred runs, resumption after crash and release | slots balance, calls end; what is committed is whole |
| Server | countdowns, aborts, signals, a client that does not read | who is told to stop stops; only a reboot nobody aborted re-executes |

The hazards, each at its line and with the properties that watch it, are in
`PROJECT.json` under `hazards`.  The list is limited to the forty that matter
most.  Some of them the code does not avert, and then the property named there says
what still holds, not that the worst does not happen; such a hazard has a `note`:

| Hazard | What happens in the code | What the property says all the same |
|---|---|---|
| a purchase against a restock (`restock.go:68`) | one update of the stock is lost | the line is filled up again (`Refilled`) |
| a sale of an item that a death has moved (`cmd/shop.go:395`) | another holder's item is deleted | purses and till balance (`TillBalances`) |
| quest log, experience and debt from snapshots (`engine.go:365`, `death.go:53`) | a write is lost when goroutines interleave | the ledger is exact while one goroutine at a time works for the character |
| a verdict on presence applied later (`combat/manager.go:312`) | it may hit another fight | every actor in the order gets its turns (`FightGoesOn`) |
| an action queued outside the order (`action.go:205`) | nothing resolves it | violated by a run (section 6) |
| a password typed ahead of its prompt (`server.go:397`) | it is logged | kept by clients that wait (`PasswordsKept`) |
| affects written back whole (`session_ticker.go:181`) | one is lost or comes back | all end in a character left alone (`CalmRestores`) |
| overlapping broadcasts (`phase_ambient.go:180`) | - | once and not too early (`TimeIsKept`), not that everybody is told |
| a client that does not read (`main.go:921`, `login.go:251`) | it holds up shutdown and takeover | both end if clients read (section 4) |

## 2. Modules and how they correspond to the code

A component has a module `X` with its state, actions and properties; an `XMC`
module names the small sets of a run, and an `XProofs` module holds theorems.
Operators whose comment begins with "Mutant:" are deliberate mistakes, defined
just before the definition they distort; no specification uses them, they
exist to show that each property can fail.

Four conventions hold everywhere.  A critical section (a mutex held from the
first read to the last write) or a single SQL statement is one step, and a
handler with several of them is several steps with what it has read in between
in the state.  A call that is refused before it changes anything is left out; a
call that fails after it changed something is in.  `Fault` fails a statement and
`Crash` ends every goroutine, keeping the rows.  What a component does not own
(a death, a payment, a key that changes hands) is a step of its environment.

**`GroupManager`**: every method of the registry is an action.  An absent key
of a map is the empty roster or `None`.  `Kick` takes any target because the
command looks at the roster in an earlier critical section.  `strays` is a history
variable: who has invited somebody while a member of another's party.  `MapsAgree`
says that the maps agree in both directions for everybody else; a stray leaves a
ghost on the old roster (section 6).

**`Purse`**: `purse[c]` is `(coin, bank, version)`, `pile` the coin-pile items,
`pc` and `job` the statement a process runs next and what it has read.
`RecordCoin` is refused unless the version matches.  `leaked` and `minted` are
history variables: what the code gives up (a failed roll-back, a corpse pile
that could not be created, a crash between two statements) and what quests and
dead mobs put into the game.

**`Shop`**: `AdjustSelect` and `AdjustUpdate` are the two statements of
`AdjustStock`; `Buy*` and `Sell*` the verbs with their compensations; `Restock*`
the pulse.  `stocked`, `sold`, `paid` and `lost` are the books.  A line's restock interval
is positive (`due`): one without an interval is never restocked (`restock.go:56`).

**`Items`** and **`Custody`**: `at[i]` is the set of locations a row names, so
that one place per item is a claim and not a type.  Conditional transfers repeat the
location that was read; fumbles, throws and deaths use the unconditional ones.
`Custody` is the abstract promise (one place, leaves a hand only by its
holder's doing or by a weapon slip, deleted rows stay deleted); `Items` implements
it under the mapping `Loc`.

**`Doors`**: verbs write the pair of runtime flags, the editor the authored
fields of an exit at once and a room's text from a draft, a reset the authored
flags.  Each decides from a row read earlier.

**`World`**: an edition is what the authored files say, `Parsed` what the decoder
accepts of it.  `Boot` validates and
adds in one transaction; `ResetStep` is one database call of a zone's pass.

**`EventBus`**: `Publish` copies the handlers under the read lock and works
through the copy in any order (Go's map order).  `DispatchAsync` is the
`select` with its default.  One event type, as types share only the queue.
`copied` is a history variable, what publications have copied: `OncePerHandler` says
that it is the disjoint union of what publishers hold, the queue, what has been
handled and what was logged as dropped.

**`Server`**: `Boot`, requests, countdowns with their broadcasts, `Abort`,
signals, and `Shutdown` step by step to exit or `exec`.  `client` and the writes
under way model clients that stop reading.

**`Session`**: per connection a reader and a dispatcher, the inbox, the idle
deadline as `silent`, the mode, and the registry.  `Login` binds, `Kick`
closes the displaced session, `PostAuth` or `PostAuthFails` follows.  The reader
closes the inbox, waits for the dispatcher, unbinds, tears down.  A client in
`stalled` has stopped reading: nobody gets past a write to it, the notice before
`Kick` closes the connection included, until its connection is closed.

**`Accounts`**: the login, creation, menu, password, settings and delete forms
on one account's rows.  The reader decides by the mask that is on whether a
line is logged, the dispatcher later what it means: that gap is the module's
subject.  **`Chargen`** is the wizard after it, every substep of the hub an
action that may come again in any order.  **`Flow`** is the runner of guided
flows with its stored row.

**`Terminal`**: what the bytes the server writes leave on the row of the
cursor, with a terminal that moves and blanks as a client's does; the reader,
the dispatcher and everybody else write.  Up, Down and Tab look at the mask in a step
of their own (`LookUp`) before the edit takes the lock (`HistoryStep`,
`ExtendBuffer`); the other keys look at it under the lock.  **`Gmcp`**: one package of
any kind, the subscription, the bus worker's frames, the copy sent last.  A row and
its event are two steps of a goroutine, and writers overtake each other between
them: `untold` is the last write, `behind` the earlier ones, whose events may come
after its own (`PublishLate`).  `excused` records the cases in which the client
cannot know, which `DisplayCatchesUp` names one by one.

**`Clock`**: the heartbeat's `next` times, pulses as goroutines, the day
clock's base, the last phase told.  **`Wander`**, **`Affects`**, **`Movement`**,
**`Scripts`**: one pulse or verb each, with snapshot, check and write as separate
steps wherever the code lets go of the lock.  `Wander!Move` is an exception: it takes a
mob's `UpdateRoom` and the `clearGoal` after it as one step, which is one state per
hop less; with the two apart the run's properties hold as well.

**`Fight`**: the fight of one room (an empty order: none).  A pulse is
`TickRead` (snapshot under the read lock), `TickCheck` (presence, without the
lock), `TickLock` or `TickEnd`, then per actor strike, tally, death handler,
next swing, `Restamp`.  The death handler runs on whichever goroutine killed.
`Present` tells the session's room, in which verbs act, from the row's room, in
which deaths are recorded.

**`QuestLog`**: `log`, `xp` and `debt`; a handler's read and computation is one
step, and each write, of a whole log or column, another.  `team` is the set of
goroutines that work for the character and `Serialized` that there is one, which
the comments take for granted.  **`Progress`**: level,
pools and purchases of one character, and the one blob that embrace, release,
still and the channeling pulse all write back whole.

**`Commands`**: a reload of the socials is one registry call after another
(`UnregisterRemoved`, `UnregisterKept`, `RegisterKept`, `RegisterAdded`), what the
admin's dispatcher still has to do in `reload`; a reload of the help is
the load, the merge of generated topics and the swap.  A line is a sequence of
verbs, `chain` the segments left at each level of `dispatchOne`'s recursion through
user aliases.  A word is a number, its place in the lexical order.

**`Coins`** and **`Rules`**: operators only, a die or the order of a map an
argument.  Both keep the width of the integers as a constant (`Limit` for 2^63,
`Span` for 2^31).  `Affects!EffectsValid`, `Chargen!CatalogSound` and
`QuestLog!QuestsValid` are the checks the catalogs pass when they are loaded.

How they relate: `Purse`, `Shop`, `Items`, `QuestLog` and `Fight` each take one
part of what a death does and abstract the others to a step of the environment;
`Shop!CoinMoves` stands for `Purse`, `Purse!Reward` for the coin of `QuestLog`,
`Purse!MobLoot` and `Purse!Death` for `Fight`'s death handlers; `Accounts` looks
into the login that `Session` takes as one step; `Doors` is the play between the
passes of `World`.

## 3. Runs

Modules that share no state are checked in one run: its MC module has a variable
`part` that a behaviour chooses at the start, the parts not chosen stay at one
initial state, and the specification of each part is the module's own.  A
behaviour of the run is therefore a behaviour of one part, and the states are the
sum and not the product.

| Run | Parts | What holds |
|---|---|---|
| `party` | `GroupManager`, `QuestLog` (with one goroutine at work for the character, and with two), `Progress`, `Commands`; `Rules` as `ASSUME`s | `RegistrySound`; `LogAndLedger`, `CompletedForever`; `SheetIsEarned`; `VerbsResolve`; `BlowsNeverHeal`, `SwingsAreOrdered`, `StancesAreSpent`, `NothingDangles`, `DivisionInAnyOrder` |
| `purse` | `Purse`, `Doors`, `Terminal`, `Clock`; `Coins` as an `ASSUME` | `Accounted`, `MatchMeansCurrent`, `DelicateWritesExact`; `LockedIsClosed`, `DoorTurnsByHand`; `RowFollowsLine`; `TimeIsKept`; `TextOfAmounts` |
| `world` | `World`, `Shop` | `OneMobEach`, `BootsKeepTheWorld`, `ComesBack`; `TillBalances`, `Refilled` |
| `items` | `Items` over `Custody` | `CorpseTracked`, `Implements` (the refinement), `CorpseGoes` |
| `session` | `Session`, `Chargen` | `BindingsHold`, `LoserEnds`; `CreatedSound` |
| `accounts` | `Accounts`, `Gmcp` | `PasswordsKept`, `LockoutBinds`, `CascadeIsWhole`; `DisplayCatchesUp` |
| `fight` | `Fight`, `Flow` | `DeathsHandled`, `FightGoesOn`; `CommitIsWhole` |
| `pulses` | `Affects`, `Wander`, `Movement`, `Scripts` | `CalmRestores`; `KeepsToItsZone`, `ChasesEnd`; `EveryStepEnds`; `SlotsBalance`, `ScriptsEnd` |
| `services` | `EventBus`, `Server` | `OncePerHandler`, `BusDelivers`; `RebootIsAsked`, `StopEnds` |
| `fight_bystander` | `Fight` | `QueuedActionResolves` is violated (section 6) |
| `boot_enables` | `Scripts` | `BootEnables` is violated (section 6) |
| `server_abort` | `Server` | `AbortHolds` is violated (section 6) |

Each property is a conjunction whose parts are named and commented in its module.
What concerns operators without a state (`Coins`, `Rules`) is an `ASSUME` of the MC
module, which TLC evaluates over the inputs it names before it explores a state.
The passing runs are exhaustive within their bounds and take at most about four minutes
each on two workers; the larger ones have millions of distinct states (`accounts`
3,146,378, `session` 2,080,169, `party` 1,941,788, `purse` 1,368,771).

### 3.1 Bounds

A bound is a constant or a guard of the module and is named there.

| Module | Bound | Why it is enough |
|---|---|---|
| `GroupManager` | four characters, parties of two | a party fills up while an invite is pending, a member can lead a second party, a bystander interferes; the theorem covers every size |
| `QuestLog` | two quests with every kind of step; one goroutine with experience to 8, debt to 3 and two failed writes, or two goroutines with experience to 2 and no failure | every lost update needs two handlers; a quest can be completed, abandoned and taken again |
| `Commands` | seven words, four social files, two help files, two admins, one player, two lines, three macros | a social can be kept, removed, added, renamed to a word in use or clash with a built-in verb, in either of two reloads |
| `Coins`, `Rules` | `Limit` 2500 for 2^63, `Span` 128 for 2^31 | every denomination and both ends of the range occur; the theorems cover every width |
| `Progress` | levels 1 to 4, scores 11 to 12, one skill, feat and weave, one slot, madness at its cap | two purchases from one pool, and both sides of every cap; madness enters no property and the theorem covers every `MadnessMax` |
| `Purse` | two characters, a pulse, two piles, amounts of 1, `MaxVersion` 2, `MaxFaults` 1, `MaxAmount` 2 | two writes per row and three processes give every conflict between verbs, pulses and roll-backs; `MaxAmount` makes the overflow refusal reachable |
| `Shop` | two buyers, two items, `QtyMax` 1, two writes per purse, one failed statement | a unit can be sold, refilled and fought over |
| `Items` | two characters, one combat goroutine, a weapon, a bag, a corpse, `DepthCap` 1, two mishaps, four verbs | each race is between two verbs, or a verb and a mishap |
| `Doors` | two rooms, the two sides of one door, one key, a builder, an administrator | every pair of writers |
| `World` | `Interval` 2, one pass, four editions of which two are refused | a reset between two boots of different editions |
| `Terminal` | lines of three glyphs, one of them wide, an inbox of one, one page | an edit in the middle of a line with a wide glyph on either side; the theorem covers every length |
| `Clock` | `Beat` 2, `Quarter` 2, two pulses, two listeners, `Horizon` 12 | a day and a half with overlapping pulses |
| `EventBus` | two publishers, two publications, two subscriptions, a queue of two | the queue fills |
| `Server` | one client, two countdowns, no announcement before the last | abort and new request around one deadline |
| `Session` | two connections and accounts, an inbox of one, one failed `postAuth`, one panic | takeover in both directions and flood |
| `Chargen` | two races, backgrounds and classes, scores 9 to 10, one point, one name | every substep revisited with a different outcome |
| `Accounts` | two connections, one account, two characters, one item, threshold 2, three wrong passwords, one fault, one queued line | parallel failures beyond the threshold |
| `Gmcp` | two values, two events under way, one package of each kind | a stale event after a newer one |
| `Fight` | two characters, one mob, one pulse, one script, one hit point, three inputs | attack, move and attack again is the longest story; a swing kills or does no damage and still writes the row |
| `Flow` | two sessions, six steps of every kind, two releases, two wares, a budget of one, six moves | a takeover or a release at every step |
| `Affects` | hit points and stamina up to 2, two swings, one dose, one application, one unwritten row | a lost update needs one list read before another's write |
| `Wander` | one mob of three breeds, two overlapping pulses, four rooms, `HopCap` 3 | a hop from a stale room, a search that leaves the zone |
| `Movement` | two players, two rooms, an exit back into its room, `MaxFollowDepth` 2 | mutual following |
| `Scripts` | two goroutines, a pool of one, `CallTimeout` 2, one deferred run | nesting deeper than the pool |

`CHECK_DEADLOCK FALSE` everywhere: each bounded instance comes to rest when its
bounds are used up or its players do nothing more.

## 4. Fairness

Fairness is stated only where a liveness property is checked, and only for what
the runtime or the code guarantees:

* A goroutine that can run does run (Go's scheduler): weak fairness on the steps
  of a publisher, a reader, a dispatcher, a pulse, a countdown, a begun verb
  (`Movement`), a script call (`Scripts`), a reset pass (`World`).
* The heartbeat fires a pulse again and again and time passes: weak fairness on
  the combat, affects, wander and restock pulses, on `Elapse`, `AgeZones`,
  `Silence`, `IdleTimeout`, `Ready` and the deadlines of corpses and scripts.
* An action has finitely many swings (`len(r.swings)`, stamina), stated as
  strong fairness on `Restamp`: a pulse does not swing for ever.
* Handlers return.  In `EventBus` that is no part of the specification but the
  hypothesis `WorkerRuns` of the parts of `BusDelivers` that need it; that
  `Publish` returns is checked without it.
* Clients need not read.  The code sets no write deadline (`telnet/session.go:828`), so a
  client that stays connected and reads nothing holds up whoever writes to it.  In
  `Session` and `Server`, where that decides whether something ends, it is a step of
  the client (`Stall`, `StopReading`) and no fairness makes it read again.  What
  `LoserEnds` and `StopEnds` promise they promise under the hypothesis `ClientsRead`,
  that no client stops for good without its connection breaking; without it
  both are false (section 6).  A client may still stop again and again, hence
  strong fairness on the writes that wait for it in `Server`.
* In `Fight`, `Movement`, `Scripts` and `Wander` the synchronous writes to clients and
  the functions that scripts call return.  `FightGoesOn`, `EveryStepEnds`,
  `ScriptsEnd` and `ChasesEnd` are therefore, like the two above, about clients that
  read: they find the deadlocks and endless rounds of the code itself, not a
  goroutine that a client holds up.
* A crash is followed by a boot in `Items` (weak fairness on `Boot`): a server
  that is never started again decays nothing.
* Clients, players, mobs and scripts owe nothing: no fairness on any input.

## 5. Proofs

TLAPS checks the modules below, for every value of the constants that satisfies
the named `ASSUME`s of the modules they extend.  These ask for no more than the
code does: numbers where the code has integers, finitely many characters,
piles or items where something is counted, `None` and the like outside the
sets they are added to, of an edition of the authored files or a catalog of
the wizard that its tables refer to each other, and of the ring of earlier lines and
the completions that a key could have typed them.  Five hypotheses are not met by
every instance and are stated in the theorems themselves: `~TypesAhead`
(`PasswordsAlwaysKept`), `OnePass` (`OneMobForOnePass`, `BootsAlwaysKeep`), that
combat pulses do not overlap (`DeathsAlwaysHandled`), that the branches of a flow
look back and its releases lead past the steps they drop (`CommitsAlwaysWhole`), and
that no asterisk is typed (`NoAsterisk`, for `RowAlwaysFollows`).
`Serialized` is part of the properties it is about.

| Module | Theorems about a property of a run | Further |
|---|---|---|
| `GroupManagerProofs` | `RegistryAlwaysSound`, `SheetAlwaysEarned`, `VerbsAlwaysResolve`, `LedgerAlwaysExact`, `CompletedAlwaysStay` (an action property) | the parts of the registry one by one; `XPPaidInFull`, `WhatARoundKeeps`, `HitAlwaysHurts`, `AbilityModRoundsDown`, `OneSwingPerStance`, `DodgeNeverHurts`, `NothingDangles` |
| `PurseProofs` | `EveryCoinAccounted`, `MatchAlwaysCurrent`, `DelicateAlwaysExact`; `LockImpliesClosed`, `OnlyHandsTurnDoors`; `TimeAlwaysKept`; `RowAlwaysFollows` (an action property) | types, `NoLostUpdate`, `RollbackExact`, `DeathExact`, `EditsAreDeliberate`; `AdditionIsExact`, `SubtractNeverOverdraws`, `MultiplicationIsExact`, `SplitIsWhole`, `NewIsExact` |
| `ShopProofs` | `TillAlwaysBalances`, `OneMobForOnePass`, `BootsAlwaysKeep`; `CommitsAlwaysWhole` | `RoomsKeepTheirIds` |
| `ItemsProofs` | `CorpsesAlwaysTracked`, `ItemsImplementCustody` | |
| `ServicesProofs` | `BusReachesEachOnce`, `RebootSafety`, `MobsKeepToTheirZone`, `SlotsAlwaysBalance` | `BusNeverAgain` (an action property) |
| `SessionProofs` | `BindingsAreSound`, `CreationAlwaysSound`, `DeathsAlwaysHandled` | `NoGhosts`, `SuccessorStaysBound`, `OwnBindingAlwaysLive`, `NobodyLeftAtZero` |
| `AccountsProofs` | `PasswordsAlwaysKept`, `LockoutAlwaysBinds`, `CascadeAlwaysWhole`, `DisplaySafety` | `FlowsAlwaysEndClean` |
| `SumTheorems` | lemmas only | `SumUpdate`, `SumConstant`, `SumPlus`, `SumScaled`, `SumAtMost`, `SumOfSome`, `SubsetInduction` |

**The registry.**  The parts of `RegistrySound` are inductive only together.  That `byCharacter` resolves is preserved by a disband because a roster
holds its leader, and an accept keeps the cap because the roster it joins is
the one the invite names.  That `byCharacter` points back from a roster
(`RosterPointsBack`) is only true of those who are not in `strays`, as
`ensureGroup` overwrites the entry of a member who invites.

**Coin.**  `IInv` is `TypeOK` and, for every process, `Good(p)`: its locals are
sane for the statement it is at, the version it holds is not ahead of the row's,
and if the versions are equal so are the columns - for its own row, for a
recipient's row, and for the row after its own first write, which is what the
roll-backs rely on.  `MatchMeansCurrent` alone is not inductive because a verb's
second write uses a version the verb computed (`version + 1`) and never read.
`EveryCoinAccounted` needs besides that a pile a verb has seen still holds what
it saw or is gone (`PilesSeen`): each step then changes at most one purse, one
pile and one process's hands, and the three sums of `Accounted` change by
amounts that cancel.

**Amounts.**  The checked operations of `internal/currency` compute first and look
for a sign afterwards that a wrapped result cannot have; `AdditionIsExact` and
`MultiplicationIsExact` (which divides the product to see whether it wrapped) show
that for every width, and every pair of amounts, exactly the results that do not
fit are refused.  `SplitIsWhole` takes an amount apart digit by digit.

**The till.**  `TillBalances` holds because a verb's snapshot is the purse as it
is unless the version has moved (`Fresh`), and one version further the purse
holds what the verb itself has written (`OwnCredit`); with these two a write
that is not refused changes a purse by the price and nothing else.

**The world tables.**  `WorldInv` says that the tables refer to each other, that
what a pass has still to look at is in them, that no two rooms share an id and
that a loaded world has a room 1.  A boot adds rows under ids above the greatest
in use, numbered in file order, so ids stay unique whatever the files; that part
(`RoomsKeepTheirIds`) needs no hypothesis.  The rest needs `OnePass`, that at most
one area reset is under way: then a mob about to be spawned has no instance
(`LivesInv`: nobody else spawns between the count and the insert, deaths only
lower the count).  The scheduler starts a pulse without waiting for the last
(`tick/scheduler.go:248`), so `OnePass` is a fact about how long a reset takes; with two
passes the property is false (section 6).

**Sums.**  The models add up purses, piles and shelves with `SumFunction` of the
community modules, a fold.  The library's induction theorems take an operator
parameter that the installed provers cannot instantiate; `SumTheorems` therefore
argues by a smallest counterexample (`WFMin` on the finite subsets under proper
inclusion, `MinimalSubset`): a set over which the fold goes wrong would have a
smallest such subset, and taking one element from it leaves a smaller one.  `SumUpdate`, all
that the proofs above use, says that changing one term changes the sum by the
difference.

**Items.**  `ItemsInv` is `Shape` - a row names at most one location, an
item nobody has died into yet has no row, every verb and swing in progress
carries what the code read when it began - and `CorpseTracked`: a
corpse of a running server is in the decay registry, or a pulse that made it or
a boot that will list it is still on its way.  For the refinement each database
statement is shown to be a step of `Custody` or a stutter under `Loc`; a
conditional transfer takes the item from where the verb read it because the
`WHERE` clause repeats that place, and the unconditional ones of a fight are
slips only because the equipment read before names the weapon.

**The bus and the server.**  The bus' invariant says of every publication and
of the handlers it copied, and of no other, in which one place each is: in the publisher's list, in the
queue, at the worker, done or counted as dropped.  `RebootSafety` rests on the
countdown and the flag it would set belonging to the same request until an abort.

**Mobs and scripts.**  `MobsKeepToTheirZone` needs that a pass lists a mob where it
was, which is in its zone unless it has fled since, and that a move goes to an exit of
the room listed.  `SlotsAlwaysBalance` counts: there are finitely many frames, and
the sets of frames that hold a slot, wait for one or are late change by at most
one member in a step, so that the pool's counters can be followed through each
action.

**Levels and purchases.**  `ProgressInvariant` adds to `SheetIsEarned` what the verb
under way has computed and not yet written (`JobOK`): the player runs one verb at a
time, so a purchase that fitted the sheet when it was read still fits when it is
written, and a level adds one to one calling.  The sums over callings and skills
follow by `SumUpdate`; a channeling blob in anybody's hands keeps the rule of the
column, so whoever overwrites it last does too (`BlobOK`).

**The quest log.**  `QuestInvariant` is `LogInv /\ (Serialized => LedgerInv)`.
`LogInv` says that the log, and whatever any goroutine is about to write as the
log (`JobsSound`), lists no quest twice; it needs no hypothesis.  `LedgerInv` says of
the one goroutine at work that what it read is what is there (`UpToDate`), and of
every quest that is paid for that it is complete, or about to be written as
complete, or its reward is yet to come (`Paid`).  `UpToDate` is what the comment at
`combat/death.go:26` takes for granted, and what two goroutines falsify.

**Verbs and help.**  `VerbsResolve` is not inductive: `VerbsInv` adds `Steady`, what an
admin's dispatcher carries from one registry call to the next, `Service`, how far a
reload that runs alone has come, so that the table is between the old catalog and
the new one, and `Covered`, which of the reloads under way will still generate the
topics that are missing.

**Rolls and shares.**  `WhatARoundKeeps` says exactly what one round of
`expandTallyByGroup` does to the sum of the tally, the two ways it loses some
included (section 6); `XPPaidInFull` that the shares of a kill sum to its
experience.  `OneSwingPerStance` covers every pair of swings of a round, by
whichever fighters.

**The fight.**  `Combat` is `FightTypeOK` with what a pulse's program counter says of
the strike it is working on.  `Tended` says that whoever is down to no hit points is
in the hands of a striker that is on its way to the death handler: a write that takes
the last hit points is followed by that handler because it is decided from the
number that was written (`resolveAction`) or read before it (`ApplyDamageExternal`),
and not from the row, which another strike may have overwritten by then.  That
needs no assumption on pulses (`NobodyLeftAtZero`).  `OnceFor(m)`, of a mob no
script has struck, is that once its death is published its row is gone and nobody
is about to delete it or publish it again; it holds where pulses do not overlap.

**Character creation.**  `CreationInvariant` says that on every screen of the wizard
scores, ranks and weaves are within the budgets the draft then has, that the review
screen is reached only with a draft that is complete, and that the row is the draft it
was made from while the statements after it run (`MadeInv`).  `CreatedSound` is about
budgets, counts and the kit; a name, a race and a class that the background allows
are not part of it, since the wizard does not see to them (section 6).

**Time.**  `ClockInv` says that a pulse is due after the last beat, or after the one
before if that beat is still in the channel (`DueInTime`), and that each crossing
since the start is at most one goroutine's to tell, which has not told it yet to
those it still has to tell (`LinesClaimed`): the watcher claims it under its lock, so
goroutines that overlap afterwards do not matter.  That light, hour and phase agree
is arithmetic on any tick: every tick is a quarter of a day and a rest
(`TimesAgreeAt`), and the light rises and falls by the same small step
(`LightStepsEvenly`).

**The row.**  A line is laid out in cells, one or two for a glyph (`Laid`), and a row
that shows it is `Showing(a, b)`: what is before the cursor, what is after it, then
blanks.  Lemmas follow the terminal through the bytes of an edit: printing glyphs
over as many columns or fewer leaves the row of the longer text (`PrintOver`), over
what is already there it only moves (`PrintAgain`), backing over glyphs goes to where
they begin (`BackOver`), blanks at the end change nothing (`BlanksAfter`), and a
backspace, a space and a backspace for each column rub out a word (`RubOut`).  A wide
glyph that is half overwritten leaves a blank (`Upto`, `FromCell`), which is why
`PutCells` says of every cell what a print leaves in it.  The echoes of the editor are
compositions of these (`InsertEchoes`, `EraseEchoes`, `MoveEchoes`, `ReplaceEchoes`,
`ExtendEchoes`), and each key one of those echoes.  The inductive invariant
(`TerminalInv`) is about the mask: `TypeMasked` appends to the line wherever the cursor
is, so a row in step with a masked line must have its cursor at the end.  It does
because no cell right of the cursor ever holds an asterisk (`NoMaskAhead`): whoever
writes a mask leaves the cursor after it.  That needs `NoAsterisk` - a line of
asterisks, the cursor moved back into it, and then a password prompt would look like
the mask - and without it the property is false.  A step of
the ring and a completion were allowed before the mask came, so the theorem leaves
out the steps taken `OverMask`, as the property does.  The inductions over glyphs and
columns argue by a smallest counterexample (`NumbersAll`, `SequencesAll`, from `WFMin`).

**Flows.**  `Sound` is about the steps the answers lead through, from the first to
where a session or the stored row stands: they are answered, and they lead to that
step or to one that commits.  An answer that is changed changes only where its own
step leads, unless a branch before it looks at it, which `BranchesLookBack` rules out
("routes based on a prior step's stored value", `step_conditional.go:6`).  What is
stored under one release is sound under the next if every step that is dropped leads
to one place whatever was answered and none that commits is dropped
(`ReleasesLeadPast`); no code checks that, and a release that drops an answer or
reroutes a step would break commits of flows that are resumed.  `FightMC` evaluates
both of its two releases.  `Path` is a least closed set rather than an iteration,
which spares the proof an induction.

**Doors.**  `DoorsInv` ties what a verb or an editor has read to what it may
write.  `EditsAreDeliberate` covers the hazard at `mode/redit.go:719` that no
run's property is about.

**Sessions.**  The invariant adds that a session being torn down has no
dispatcher left and, without failures of `postAuth`, that a session logs in once
and its binding belongs to the account it carries.  So the failure in section 6
is the only source of a ghost binding (`NoGhosts`).

**Accounts.**  `SignInInv` says which fields each step of a form uses, and that a
password prompt hides what is typed.  `PasswordsAlwaysKept` holds under
`~TypesAhead`, that clients wait for their prompts: without it the property is
false of the code (section 6), and the theorem says that typing ahead is the only
way to lose a password while statements succeed.  `LockoutInv` counts the attempts
under way that will not set the lock, `CascadeInv` what a deletion has listed.
Thresholds are assumed to be above 1 (the code's is 5).  `GmcpInv` says what the
reader, the bus worker and the events not yet published still owe the client.

### 5.1 What stays with TLC

Every invariant and every action property of a passing run, and the refinement of
`Custody`, is the statement of a theorem above.  What is left:

* Every liveness property (`BusDelivers`, `StopEnds`, `ComesBack`, `Refilled`,
  `LoserEnds`, `FightGoesOn`, `CorpseGoes`, `ChasesEnd`, `EveryStepEnds`,
  `ScriptsEnd`, `CalmRestores`): fairness and `ENABLED` are outside the prover.
* What a fold over a list comes to - a blow through a list of resistances
  (`DamageTaken`), the text of an amount and back (`Format`, `Parse`) - is
  evaluated over the inputs of the `ASSUME`s in `PartyMC` and `PurseMC`.

## 6. Where code and text disagree

Checked by a run:

1. **Accepted and never resolved** (`fight_bystander`,
   `internal/combat/action.go:205`).  An attack on a room that already has a
   fight does not add the attacker to the order, and a flight or death removes
   one from it, but both can still queue actions, which no pulse will pop.
2. **A disabled trigger stays disabled after a boot** (`boot_enables`,
   `cmd/server/main.go:592`).  The registry is loaded before the rows are reset.
3. **An abort that is confirmed and does nothing** (`server_abort`,
   `cmd/server/shutdown_admin.go:132`).  The countdown looks at its cancel channel
   only while it waits.

Seen while modelling, not the subject of a run:

*Shops, purses, items*

* `AdjustStock` is not atomic (`repo/shop_sqlite.go:162`, against
  `repo/shop.go:96`): two purchases can take two units and count one.
* `decay.go`'s header and "`SetRoom`/`SetOwner` for admin tools only" (`item.go`)
  are out of date: fumbles and throws use them.  `autoUnequipIfHeld` "can never
  strand" an item, except when its holder dies or the server crashes in between.
* Containers can be put into each other in a circle when a death moves one
  between two checks, and the depth cap can be exceeded the same way.

*Doors, world*

* A stale close or open removes a lock that was set meanwhile; the comment at
  `cmd/door.go:176` speaks of a flicker.  Two editors: the last one wins.
  A builder's grant is cached.
* Two passes over one zone spawn a mob twice.  A reset whose calls fail stamps
  the zone all the same; destroyed items come back at a boot, dead mobs only by a
  reset.

*Bus, GMCP*

* `Publish` iterates a Go map; its comment promises registration order
  (`eventbus/bus.go:99`).  A publication after the worker has exited is
  buffered and then neither handled nor logged, not "dropped via dispatchAsync's
  select-default and logged" (`bus.go:251-253`); only once the buffer is full is the
  comment true.  `OncePerHandler` counts such an event as queued for ever.
* `manager.go` says reader and worker share only the subscription slice; they
  share `gmcpLastVitals` too, so a client can be left with an old value.
  `Remove` rewires without a snapshot, `Supports.Set` before the login sends
  nothing and neither does the login.  Teleports publish no `PlayerEntered`, drains of
  stamina no vitals; a late room frame shows the room before a teleport.  A follower's own
  move (`move.go:131`) and his leader's `followAlong` (`move.go:273`) can write the row
  in one order and publish in the other, which leaves the client in the wrong room;
  so does a failed `RecordRoom`, whose event is published all the same.  A read that
  fails drops a frame without a trace (`gmcp/manager.go:209`, `subscriptions.go:53`).

*Sessions, accounts, character creation*

* After a failed `postAuth` the session goes back to the user name still bound;
  a login to another account overwrites its `AccountID` and the teardown unbinds
  only that one (`mode/login.go:274`, against `session/registry.go:15`).
* A line typed ahead of a password prompt is logged and kept in the history
  (`telnet/server.go:385`).
* A failing read in `handlePassword` leaves the mask off on a password step; the
  database branches of login and create strand at theirs.  A lock set between the
  read and `RecordLoginSuccess` is erased; a lock that has run out keeps its
  count.  Settings are written back as an old blob.  "Kick others" from a
  displaced session kicks its heir.
* A deleted character's items taken up during the delete are orphans
  (`account_menu_delete.go:136`); `owner_character_id` has no foreign key.
* A character can be created without a name, without a race, or with a background
  and class its race bars, by visiting the hub's substeps in an unusual order
  (`chargen_hub.go:292`, against `catalog.go:433`).
* The notice to a displaced session is written before its connection is closed
  (`mode/login.go:251`) and without a deadline (`session.go:828`), so a client that stays
  connected and does not read keeps its connection and blocks its successor, against
  "The previous session's read loop will EOF on Conn.Close and tear down"
  (`login.go:248`).
* The dispatcher's `recover` sits in `runDispatcher`, so a panic ends the
  dispatcher while the reader goes on until the inbox is full.

*Terminal*

* `WriteAsync` leaves the cursor at the end of the repainted line;
  `WritePrompt` does not repaint what was typed ahead; bare Enter and Tab compute
  the prompt outside the lock.  So do Up, Down and Tab with `InPasswordMode`
  (`telnet/server.go:296`, `492`), and the edits after it do not look again
  (`server.go:367-383`, `547-564`): a password prompt in between gets a line of the ring or a
  completion in plain text, against "Suppress every motion / history key in password
  mode" (`server.go:297`) and "Password mode: bell, never complete" (`server.go:483`).
  `RowFollowsLine` names this exception (`OverMask`).  The pager's doc says
  an empty line advances: a bare Enter only redraws.  A line of asterisks with the
  cursor moved back into it, typed ahead of a password prompt, is echoed to at the
  cursor and appended to at its end (`server.go:452`); `NoAsterisk` leaves that out.  `flood.go` says prompts go
  through `WriteRaw`; they do not, and the gate can drop the line's end.

*Combat, affects, quests, levels*

* `Manager.Tick`'s comment ends a fight with fewer than two present
  (`combat/manager.go:262`); the code ends it when it lists mobs and none is in
  the room.  A presence verdict reached without the lock is applied to whichever
  fight the room has by then (`manager.go:312`).
* Experience and debt are written from a snapshot without a version; the comment
  at `combat/death.go:26` does not hold when a pulse kills and a verb completes a
  quest.  With handlers interleaving a completed quest can come back
  (`quest/engine.go:365`).
* `stamina_ticker.go:53`: a stale write loses a whole drain.  "No double tick" is
  checked only before the read; a bystander in a room with a fight is ticked by
  nobody; an in-fight round never runs `TickEffects`; an error of `RecordAffects`
  comes before the death hook and leaves somebody at zero.
* `MaxAffectsPerName` and the eviction cap of flows cannot be reached.  Two
  trains from one snapshot, racing `RecordXP` and stale saves of the channeling
  blob overwrite one another.

* A parry that fails stays up for the next swing, though the comment of
  `resolveParry` (`combat/manager.go:970`) has it consumed by the next attack.  A
  natural 1 that the dodge's +4 turns aside is told as a dodge and drops no weapon
  (`manager.go:756`).  A weakness can take `int32(adjusted)` past the width.
* Division of a kill (`combat/death.go:131`): an entry of 0 in the tally lets a mate's
  share be overwritten, or not, by Go's map order; a dealer who has left while two of
  his party are there costs the remainder, though the comment says that totals do not
  drift; the resolver is asked anew for each contributor.
* `Format` writes a minus that `Parse` reads as the first term's only; the
  round-trip test covers amounts from 0 up.  `Split` of the least amount of all keeps
  negative counts.

*Verbs, help*

* A kept social whose new alias another kept one still holds fails to register,
  although the comment in `cmd/reload.go` says that this should not happen after the
  pre-validation; that looks names up by prefix, so it refuses a name that is
  the beginning of one other.
* Topics generated for a social that was removed stay until the help is reloaded, and
  one that was changed keeps its old text.  `MergeGenerated` is for "single-threaded
  boot use only", and the reload calls it.  `maxSegmentsPerLine` does not count what
  aliases expand to.

*Movement, mobs*

* A follower is moved from wherever he is; a mutual follow is bounded only by
  `maxFollowDepth`; following survives leaving the party.  A fleeing mob
  crosses zones; overlapping wander pulses make a mob jump; a goal can be set on
  a dead mob.

*Parties*: `Invite` lets a member of another party invite, which creates a
second party and overwrites `byCharacter` (`group/manager.go:293-303`).  Leaving or
logging out then takes the character off the new party only; the old roster keeps
it, counts it and shares experience with it until its leader kicks it or the party
ends, although `ClearForCharacter` "removes charID from any group"
(`manager.go:266-270`).  `RegistrySound` names the exception
(`strays`).

*Scripts*

* `recordSuccess` and `recordFault` write counters from a copy and can re-enable a
  trigger that was disabled meanwhile.  `Runner.Run` looks at `stopped` before it
  borrows and can use a closed state.  The cap on waits is hard, the comment
  (`lua_bindings.go:486`) calls it soft.  Nesting deeper than the pool faults
  every call of the chain.  `room.players()` returns account ids.

*Flows*

* A crash in a chain of automatic steps leaves a branch as the stored step, and
  the resumed flow shows an empty prompt.  A failed delete is "cleaned up by the
  next eviction", but the next login resumes the finished flow and can commit
  again.  A takeover has two writers although `FlowStateRepo` says one.  A confirm
  step's action also runs on "no".  A dangling `next` passes `Validate`.

*Clock, server*

* A pulse whose period equals the beat can skip one (`next = now + every`).
  Overlapping saves can store an older count; overlapping announcements come out of
  order; an error of `GetTicks` at boot resets the clock.
* A signal during a reboot's countdown re-executes.  "DB connections were closed by
  the deferred closeDB" (`main.go:838`) is not so at `syscall.Exec`.  A failed
  `Listen` exits with the heartbeat running.  `bus.Stop` waits without a limit for a
  worker that may be in a write to a client (`bus.go:255-262`), although "a misbehaving
  subscriber must not be able to stall shutdown" (`main.go:937-939`): one client that is
  connected and never reads is enough.  Sessions are not told to stop, so the
  drain ends by its time-out.

## 7. What is not modelled

* Text of every kind, news, dialogue, display and prompt formatting; parsing of
  arguments and option negotiation; hashing, metrics, audit and configuration.  In
  `Commands` what keeps a verb out of help (`Mute`) goes by its name.
* SQLite itself, files and backups: statements are atomic and durable once they
  return.
* Within modelled components: threat, thrown weapons, healing, several fights and
  `Stop` in `Fight`, which leaves stances and rolls to `Rules`; the rolls of loot
  tables; item matching and shop hours in `Shop`; what scripts and weaves do to the world; forms for mobs and items in
  the editor.
* Overlapping combat pulses: `Fight` takes any set `Pulses` and the run has one.
  That nobody is left at zero is proved for any number of them; that a mob dies once
  is a statement about pulses that do not overlap (`tick/scheduler.go:248`).  A displaced session's teardown clearing its heir's
  party (`cmd/server/main.go:1061`).

`PROJECT.json` lists every component with its status.

## 8. Plan

Modelled, checked and, but for section 5.1, proved: the table in section 3.  Next:

1. `Purse` as an implementation of an abstract ledger in which a transfer is one
   step, in the way `Items` implements `Custody`.
2. `Session` composed with `GroupManager` for the teardown of a displaced session.
3. `Fight` with the divided experience of `Rules` in place of a single credit.

## 9. Running it

    tlc -workers 2 -config Party.cfg PartyMC.tla
    tlapm GroupManagerProofs.tla

and likewise for the other runs of `PROJECT.json` and the modules of section 5.
`PurseProofs` takes the prover about ten minutes, `GroupManagerProofs` four,
`SessionProofs` and `AccountsProofs` two and a half to three, `ShopProofs` two, the
others less than one.
