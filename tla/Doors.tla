------------------------------- MODULE Doors -------------------------------
(***************************************************************************)
(* The exits of a zone and the text of its rooms, under the door verbs     *)
(* (internal/cmd/door.go), the room editor (internal/mode/redit.go) and    *)
(* the door step of an area reset (exit_sqlite.go, RestoreAuthored).       *)
(*                                                                         *)
(* Every writer reads a row, decides, and writes later without looking     *)
(* again: a verb writes the pair of runtime flags, the editor writes an    *)
(* exit's authored fields at once and a room's text from a draft.  Only    *)
(* the columns each writes keep them from undoing one another.             *)
(*                                                                         *)
(* A room's editable fields are one value of Texts and an exit's authored  *)
(* fields are its key.  Where a player stands is left free, so anybody may *)
(* try any door.                                                           *)
(***************************************************************************)
EXTENDS Integers, FiniteSets, Functions

CONSTANTS
    Rooms, Exits, Keys, Players,
    From,        \* the room each exit leaves
    Authored,    \* exit -> [closed, locked], the snapshot of the load
    FirstKey,    \* exit -> the key it was authored with, or NoKey
    Builders,    \* the players CanEditZone admits
    Admins,      \* the players of AuthAdmin
    Texts

NoKey == "nokey"
Floor == "floor"
Idle  == [op |-> "idle"]

ASSUME DoorsAssumption ==
    /\ From \in [Exits -> Rooms] /\ FirstKey \in [Exits -> Keys \union {NoKey}]
    /\ Authored \in [Exits -> [closed : BOOLEAN, locked : BOOLEAN]]
    /\ \A x \in Exits : Authored[x].locked => Authored[x].closed
    /\ NoKey \notin Keys /\ Floor \notin Players

VARIABLES
    text,      \* room -> its editable fields
    exits,     \* exit -> [key, closed, locked]
    keyAt,     \* key  -> the player whose inventory holds it, or Floor
    hand       \* player -> the verb in progress, or the editor he is in

doorVars == <<text, exits, keyAt, hand>>

DoorsInit ==
    /\ text \in [Rooms -> Texts]
    /\ exits = [x \in Exits |-> [key |-> FirstKey[x], closed |-> Authored[x].closed,
                                 locked |-> Authored[x].locked]]
    /\ keyAt = [k \in Keys |-> Floor]
    /\ hand = [p \in Players |-> Idle]

(***************************************************************************)
(* The verbs: resolveDoor and the guards, then UpdateFlags                 *)
(***************************************************************************)
HasKey(p, x) ==
    \/ p \in Admins
    \/ exits[x].key # NoKey /\ keyAt[exits[x].key] = p

Open(p, x)   == exits[x].closed /\ ~exits[x].locked
Close(p, x)  == ~exits[x].closed
Lock(p, x)   == ~exits[x].locked /\ exits[x].closed /\ HasKey(p, x)
Unlock(p, x) == exits[x].locked /\ HasKey(p, x)
Pick(p, x)   == exits[x].locked /\ p \in Admins

\* The verb has passed its refusals and holds the flags it will write.
Read(p, x, closed, locked) ==
    /\ hand[p] = Idle
    /\ hand' = [hand EXCEPT ![p] = [op |-> "verb", exit |-> x,
                                    closed |-> closed, locked |-> locked]]
    /\ UNCHANGED <<text, exits, keyAt>>

ReadDoor(p, x) ==
    \/ Open(p, x)   /\ Read(p, x, FALSE, FALSE)
    \/ Close(p, x)  /\ Read(p, x, TRUE, FALSE)
    \/ Lock(p, x)   /\ Read(p, x, TRUE, TRUE)
    \/ Unlock(p, x) /\ Read(p, x, TRUE, FALSE)
    \/ Pick(p, x)   /\ Read(p, x, TRUE, FALSE)

\* Mutant: only the flag the verb is about is written.
ChangedFlagOnly(row, v) ==
    IF v.locked THEN [row EXCEPT !.locked = TRUE]
    ELSE [row EXCEPT !.closed = v.closed, !.locked = row.locked /\ ~v.closed]

\* ExitRepo.UpdateFlags writes both flags, whatever the row holds by now.
UpdateFlags(row, v) == [row EXCEPT !.closed = v.closed, !.locked = v.locked]

WriteDoor(p) ==
    /\ hand[p].op = "verb"
    /\ exits' = [exits EXCEPT ![hand[p].exit] = UpdateFlags(@, hand[p])]
    /\ hand' = [hand EXCEPT ![p] = Idle]
    /\ UNCHANGED <<text, keyAt>>

(***************************************************************************)
(* The reset                                                               *)
(***************************************************************************)
\* The WHERE clause of RestoreAuthored.
Divergent(x) ==
    exits[x].closed # Authored[x].closed \/ exits[x].locked # Authored[x].locked

RestoreAuthored ==
    /\ \E x \in Exits : Divergent(x)
    /\ exits' = [x \in Exits |-> IF Divergent(x) THEN UpdateFlags(exits[x], Authored[x])
                                 ELSE exits[x]]
    /\ UNCHANGED <<text, keyAt, hand>>

(***************************************************************************)
(* The editor                                                              *)
(***************************************************************************)
Editing(p) == hand[p].op = "edit"

OpenEditor(p, r) ==
    /\ hand[p] = Idle /\ p \in Builders
    /\ hand' = [hand EXCEPT ![p] = [op |-> "edit", room |-> r, draft |-> text[r],
                                    dirty |-> FALSE, buf |-> FALSE]]
    /\ UNCHANGED <<text, exits, keyAt>>

\* A setter with its value on the line changes the draft.
SetField(p, t) ==
    /\ Editing(p) /\ ~hand[p].buf
    /\ hand' = [hand EXCEPT ![p].draft = t, ![p].dirty = TRUE]
    /\ UNCHANGED <<text, exits, keyAt>>

\* `desc`, or `extra <kw> .`: from now on every line, `done` too, is content.
StartBuffer(p) ==
    /\ Editing(p) /\ ~hand[p].buf
    /\ hand' = [hand EXCEPT ![p].buf = TRUE]
    /\ UNCHANGED <<text, exits, keyAt>>

FlushBuffer(p, t) ==
    /\ Editing(p) /\ hand[p].buf
    /\ hand' = [hand EXCEPT ![p].draft = t, ![p].dirty = TRUE, ![p].buf = FALSE]
    /\ UNCHANGED <<text, exits, keyAt>>

AbortBuffer(p) ==
    /\ Editing(p) /\ hand[p].buf
    /\ hand' = [hand EXCEPT ![p].buf = FALSE]
    /\ UNCHANGED <<text, exits, keyAt>>

\* `exit <dir> key ...`: the row is read and the field set on the copy ...
ReadExit(p, x, k) ==
    /\ Editing(p) /\ ~hand[p].buf /\ From[x] = hand[p].room
    /\ hand' = [hand EXCEPT ![p] = [editor |-> @, op |-> "exit", exit |-> x,
                                    copy |-> [exits[x] EXCEPT !.key = k]]]
    /\ UNCHANGED <<text, exits, keyAt>>

\* Mutant: the copy replaces the row.
ReplaceRow(row, copy) == copy

\* ExitRepo.Update writes the authored fields and no runtime flag.
UpdateExit(row, copy) == [row EXCEPT !.key = copy.key]

\* ... and written at once, draft or no draft.
PersistExit(p) ==
    /\ hand[p].op = "exit"
    /\ exits' = [exits EXCEPT ![hand[p].exit] = UpdateExit(@, hand[p].copy)]
    /\ hand' = [hand EXCEPT ![p] = @.editor]
    /\ UNCHANGED <<text, keyAt>>

\* `done` writes the whole draft if anything was set, and leaves.
Commit(p) ==
    /\ Editing(p) /\ ~hand[p].buf
    /\ text' = IF hand[p].dirty THEN [text EXCEPT ![hand[p].room] = hand[p].draft]
               ELSE text
    /\ hand' = [hand EXCEPT ![p] = Idle]
    /\ UNCHANGED <<exits, keyAt>>

Cancel(p) ==
    /\ Editing(p) /\ ~hand[p].buf
    /\ hand' = [hand EXCEPT ![p] = Idle]
    /\ UNCHANGED <<text, exits, keyAt>>

\* The connection, or the server, goes away: what was not written is lost.
Lose(p) ==
    /\ hand[p] # Idle
    /\ hand' = [hand EXCEPT ![p] = Idle]
    /\ UNCHANGED <<text, exits, keyAt>>

\* A key is given, dropped or taken.
PassKey(k, to) ==
    /\ to # keyAt[k]
    /\ keyAt' = [keyAt EXCEPT ![k] = to]
    /\ UNCHANGED <<text, exits, hand>>

(***************************************************************************)
(* Specification                                                           *)
(***************************************************************************)
Verb(p) == WriteDoor(p) \/ \E x \in Exits : ReadDoor(p, x)

Edit(p) ==
    \/ StartBuffer(p) \/ AbortBuffer(p) \/ PersistExit(p) \/ Commit(p) \/ Cancel(p)
    \/ \E r \in Rooms : OpenEditor(p, r)
    \/ \E t \in Texts : SetField(p, t) \/ FlushBuffer(p, t)
    \/ \E x \in Exits, k \in Keys \union {NoKey} : ReadExit(p, x, k)

DoorsNext ==
    \/ RestoreAuthored
    \/ \E p \in Players : Verb(p) \/ Edit(p) \/ Lose(p)
    \/ \E k \in Keys, to \in Players \union {Floor} : PassKey(k, to)

DoorsSpec == DoorsInit /\ [][DoorsNext]_doorVars

(***************************************************************************)
(* Properties                                                              *)
(***************************************************************************)
ExitRow == [key : Keys \union {NoKey}, closed : BOOLEAN, locked : BOOLEAN]
Editor == [op : {"edit"}, room : Rooms, draft : Texts, dirty : BOOLEAN, buf : BOOLEAN]
Hand ==
    {Idle} \union Editor
    \union [op : {"verb"}, exit : Exits, closed : BOOLEAN, locked : BOOLEAN]
    \union [op : {"exit"}, editor : Editor, exit : Exits, copy : ExitRow]

DoorsTypeOK ==
    /\ text \in [Rooms -> Texts] /\ exits \in [Exits -> ExitRow]
    /\ keyAt \in [Keys -> Players \union {Floor}]
    /\ hand \in [Players -> Hand]

\* No interleaving of verbs, edits and resets leaves an open door locked, which move
\* reports as locked and no key-less player can undo.
LockedIsClosed == \A x \in Exits : exits[x].locked => exits[x].closed

\* A door turns only when a verb that passed its own refusals writes, or a reset does:
\* saving an exit's authored fields never brings back the door state of its copy.
DoorTurnsByHand ==
    [][\A x \in Exits :
         (exits'[x].closed # exits[x].closed \/ exits'[x].locked # exits[x].locked) =>
           \/ \E p \in Players : /\ hand[p].op = "verb" /\ hand[p].exit = x
                                 /\ hand'[p] = Idle
           \/ hand' = hand /\ exits'[x].closed = Authored[x].closed
                           /\ exits'[x].locked = Authored[x].locked
      ]_doorVars

\* A room's text changes only when a builder who set something leaves with `done`: an
\* editor left open over another's commit does not undo it by being closed.
TextNeedsAnEdit ==
    [][\A r \in Rooms : text'[r] # text[r] =>
         \E p \in Players : /\ Editing(p) /\ hand[p].dirty /\ hand[p].room = r
                            /\ text'[r] = hand[p].draft /\ hand'[p] = Idle
      ]_doorVars
=============================================================================
