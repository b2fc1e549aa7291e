------------------------------ MODULE Accounts ------------------------------
(***************************************************************************)
(* Signing in and managing an account: Login and Create (internal/mode/    *)
(* login.go, create.go), postAuth, the AccountMenu with its password,      *)
(* settings, security and delete pages (account_menu*.go) over the account *)
(* rows (repo/account_sqlite.go) and the session registry.                 *)
(*                                                                         *)
(* A connection's reader decides, by the mask that is on when a line is    *)
(* complete, whether the line is logged and kept for the arrow keys; its   *)
(* dispatcher, later, decides what the line means.  A handler that reads   *)
(* the database and writes it afterwards is several steps.  A session that *)
(* is thrown out still handles one line it has queued: the prompt after it *)
(* cannot be written, and the dispatcher stops.                            *)
(***************************************************************************)
EXTENDS Naturals, Sequences, FiniteSets

CONSTANTS
    Conns, Accounts, Chars, Items, Passwords, Keys, None,
    Threshold,    \* LockoutThreshold
    TypesAhead,   \* clients send a line before they have the prompt for it
    MaxLines,     \* bound on the lines queued (inboxCap)
    MaxFailed,    \* bound on the wrong passwords in a row
    MaxFaults     \* bound on failing database calls

ASSUME AccountsConstants ==
    /\ {MaxLines, MaxFailed, MaxFaults} \subseteq Nat
    /\ Threshold \in Nat \ {0, 1}
    /\ IsFiniteSet(Conns)
    /\ TypesAhead \in BOOLEAN
    /\ None \notin Conns \cup Accounts \cup Chars \cup Items \cup Passwords
    /\ "deleted" \notin Accounts \cup {None}
    /\ {"room", "gone"} \cap Chars = {}

VARIABLES
    hash,      \* accounts.password_hash, None: no such account
    failed,    \* accounts.failed_login_count
    lock,      \* accounts.locked_until: "never", "locked", "expired"
    settings,  \* accounts.settings_json
    owner,     \* characters.account_id, None: not made yet, or "deleted"
    holder,    \* items: a character, "room", or "gone"
    late,      \* items taken up by a character that is being deleted, or is
    sess,      \* connection -> its session and the fields of its mode
    inbox,     \* connection -> the lines queued: was the mask on when read
    bound,     \* Registry.bound
    exposed,   \* connections with a password in the log and the history
    faults

rows == <<hash, failed, lock, settings>>
things == <<owner, holder, late>>
vars == <<rows, things, sess, inbox, bound, exposed, faults>>

PasswordSteps == {"password", "newpassword", "newconfirm", "current", "new", "confirm"}
LoginSteps == {"user", "password", "newuser", "newpassword", "newconfirm"}
MenuSteps == {"root", "play", "delete", "confirmdelete", "current", "new", "confirm",
              "settings", "edit", "security", "quit"}
Steps == LoginSteps \cup MenuSteps \cup {"chargen", "game", "over"}

\* What the handler of the current line has still to do.
Stages == {"idle", "judge", "admit", "greet", "cascade", "refresh"}

Sessions ==
    [open : BOOLEAN,                   \* the connection, on our side
     live : BOOLEAN,                   \* the reader runs, the context is not cancelled
     masked : BOOLEAN,                 \* InPasswordMode
     step : Steps, stage : Stages,
     name : Accounts \cup {None},      \* the user name typed
     account : Accounts \cup {None},   \* Session.AccountID
     seen : Nat,                       \* FailedLoginCount of the row as it was read
     pending : Passwords \cup {None},  \* Create.hash, AccountMenu.pendingNewHash
     menu : BOOLEAN,                   \* there is a menu that chargen returns to
     chars : SUBSET Chars,             \* AccountMenu.chars
     cfg : [Keys -> BOOLEAN],          \* AccountMenu.settings
     key : Keys \cup {None},           \* the setting being edited
     doomed : Chars \cup {None},       \* pendingDelete
     owned : SUBSET Items,             \* what executeDelete has listed
     playing : Chars \cup {None}]      \* Session.CharacterID

Unset == [k \in Keys |-> FALSE]

Fresh == [open |-> TRUE, live |-> TRUE, masked |-> FALSE, step |-> "user", stage |-> "idle",
          name |-> None, account |-> None, seen |-> 0, pending |-> None, menu |-> FALSE,
          chars |-> {}, cfg |-> Unset, key |-> None, doomed |-> None, owned |-> {},
          playing |-> None]

Init ==
    /\ hash \in [Accounts -> Passwords \cup {None}]
    /\ failed = [a \in Accounts |-> 0]
    /\ lock = [a \in Accounts |-> "never"]
    /\ settings = [a \in Accounts |-> Unset]
    /\ owner \in [Chars -> Accounts \cup {None}]
    /\ \A k \in Chars : owner[k] # None => hash[owner[k]] # None
    /\ holder \in [Items -> {k \in Chars : owner[k] # None} \cup {"room"}]
    /\ late = {}
    /\ sess = [c \in Conns |-> Fresh]
    /\ inbox = [c \in Conns |-> << >>]
    /\ bound = [a \in Accounts |-> None]
    /\ exposed = {}
    /\ faults = 0

-----------------------------------------------------------------------------
(* Lines, and the ends of sessions.                                        *)

\* handleLineBreak: with the mask off the line is logged and goes into the
\* history; what it is is found out when it is handled.  A bare Enter is
\* not dispatched.
Type(c) ==
    /\ sess[c].open /\ sess[c].live
    /\ Len(inbox[c]) < MaxLines
    /\ TypesAhead \/ (inbox[c] = << >> /\ sess[c].stage = "idle")
    /\ inbox' = [inbox EXCEPT ![c] = Append(@, sess[c].masked)]
    /\ UNCHANGED <<rows, things, sess, bound, exposed, faults>>

\* The dispatcher has a line for the step that session c is at.
Asked(c, steps) ==
    /\ sess[c].stage = "idle"
    /\ inbox[c] # << >>
    /\ sess[c].step \in steps

\* Runs the handler of that line to its end, or to the next stage.  Once
\* the connection is closed the prompt cannot be written and the rest of
\* the lines is drained.
Turn(c, s) ==
    LET starts == sess[c].stage = "idle" IN
    /\ sess' = [sess EXCEPT ![c] = s]
    /\ inbox' = [inbox EXCEPT ![c] = IF s.stage = "idle" /\ ~s.open THEN << >>
                                     ELSE IF starts THEN Tail(@) ELSE @]
    /\ exposed' = IF starts /\ sess[c].step \in PasswordSteps /\ ~Head(inbox[c])
                  THEN exposed \cup {c} ELSE exposed

\* A database call of session c.  It fails for certain once the reader has
\* ended and cancelled the context.
Works(c) == sess[c].live /\ UNCHANGED faults

Fails(c) ==
    \/ ~sess[c].live /\ UNCHANGED faults
    \/ sess[c].live /\ faults < MaxFaults /\ faults' = faults + 1

\* The client is gone, or the connection has been closed on our side.
ReaderEnds(c) ==
    /\ sess[c].live
    /\ sess' = [sess EXCEPT ![c].live = FALSE]
    /\ UNCHANGED <<rows, things, inbox, bound, exposed, faults>>

\* The inbox is empty, RunSession returns and handleConnection cleans up.
Teardown(c) ==
    /\ ~sess[c].live /\ sess[c].stage = "idle" /\ sess[c].step # "over"
    /\ inbox[c] = << >>
    /\ sess' = [sess EXCEPT ![c] = [Fresh EXCEPT !.open = FALSE, !.live = FALSE, !.step = "over"]]
    /\ bound' = [a \in Accounts |-> IF a = sess[c].account /\ bound[a] = c THEN None ELSE bound[a]]
    /\ UNCHANGED <<rows, things, inbox, exposed, faults>>

-----------------------------------------------------------------------------
(* Login.                                                                  *)

\* Login.fail
Failed(s) == [s EXCEPT !.step = "user", !.stage = "idle", !.name = None, !.seen = 0,
                       !.masked = FALSE]

\* handleUsername: the password is asked for whether or not the account exists.
LoginName(c) ==
    LET s == sess[c] IN
    /\ Asked(c, {"user"})
    /\ \/ Turn(c, s) /\ UNCHANGED faults
       \/ Turn(c, [s EXCEPT !.step = "newuser"]) /\ UNCHANGED faults
       \/ Turn(c, s) /\ Fails(c)
       \/ \E a \in Accounts :
             Turn(c, [s EXCEPT !.step = "password", !.masked = TRUE,
                               !.name = IF hash[a] = None THEN None ELSE a])
             /\ Works(c)
    /\ UNCHANGED <<rows, things, bound>>

\* handlePassword until the password is compared: no such account, or the
\* fresh row, which may have been locked since the name was typed.  When the
\* row cannot be read the step stays, with the mask off.
CheckRow(c) ==
    LET s == sess[c]
        a == s.name IN
    /\ Asked(c, {"password"})
    /\ \/ a = None /\ Turn(c, Failed(s)) /\ UNCHANGED faults
       \/ /\ a # None /\ Works(c)
          /\ Turn(c, IF lock[a] = "locked" THEN Failed(s)
                     ELSE [s EXCEPT !.masked = FALSE, !.seen = failed[a], !.stage = "judge"])
       \/ /\ a # None /\ Fails(c)
          /\ Turn(c, [s EXCEPT !.masked = FALSE])
    /\ UNCHANGED <<rows, things, bound>>

\* Mutant: the attempt that is being made does not count.
OneTryTooMany(seen) == seen >= Threshold

\* newCount >= l.lockoutThreshold, from the row as it was read.
LastTry(seen) == seen + 1 >= Threshold

\* The wrong password: RecordLoginFailure counts in the row itself and sets
\* the lock when the row that was read was one short of the threshold.  It
\* is best effort.
WrongPassword(c) ==
    LET s == sess[c]
        a == s.name IN
    /\ s.stage = "judge"
    /\ Turn(c, Failed(s))
    /\ \/ /\ failed[a] < MaxFailed
          /\ failed' = [failed EXCEPT ![a] = @ + 1]
          /\ lock' = IF LastTry(s.seen) THEN [lock EXCEPT ![a] = "locked"] ELSE lock
          /\ Works(c)
       \/ Fails(c) /\ UNCHANGED <<failed, lock>>
    /\ UNCHANGED <<hash, settings, things, bound>>

\* The right one, by the hash that was read: RecordLoginSuccess, which
\* clears the count and any lock, or nothing.
RightPassword(c) ==
    LET s == sess[c]
        a == s.name IN
    /\ s.stage = "judge"
    /\ \/ /\ failed' = [failed EXCEPT ![a] = 0]
          /\ lock' = [lock EXCEPT ![a] = "never"]
          /\ Turn(c, [s EXCEPT !.stage = "admit"])
          /\ Works(c)
       \/ Fails(c) /\ Turn(c, Failed(s)) /\ UNCHANGED <<failed, lock>>
    /\ UNCHANGED <<hash, settings, things, bound>>

\* The lock runs out.
LockExpires(a) ==
    /\ lock[a] = "locked"
    /\ lock' = [lock EXCEPT ![a] = "expired"]
    /\ UNCHANGED <<hash, failed, settings, things, sess, inbox, bound, exposed, faults>>

\* AccountID, Registry.Bind, and the previous session is disconnected.
Admit(c) ==
    LET a == sess[c].name IN
    /\ sess[c].stage = "admit"
    /\ bound' = [bound EXCEPT ![a] = c]
    /\ sess' = [d \in Conns |->
                  IF d = c THEN [sess[c] EXCEPT !.account = a, !.stage = "greet"]
                  ELSE IF d = bound[a] THEN [sess[d] EXCEPT !.open = FALSE] ELSE sess[d]]
    /\ UNCHANGED <<rows, things, inbox, exposed, faults>>

Roster(a) == {k \in Chars : owner[k] = a}

\* The page that NewAccountMenu and returnToRoot show.
AtRoot(s) == [s EXCEPT !.step = "root", !.stage = "idle"]

\* postAuth: an account without characters must make one; the others get
\* the menu.  A failure leaves the session, signed in and bound, at the name
\* of whichever of the two modes it came from.
PostAuth(c) ==
    LET s == [sess[c] EXCEPT !.seen = 0, !.pending = None]
        a == s.account
        back == IF s.step = "password" THEN "user" ELSE "newuser" IN
    /\ s.stage = "greet"
    /\ \/ /\ s.open /\ Works(c)
          /\ Turn(c, IF Roster(a) = {} THEN [s EXCEPT !.step = "chargen", !.stage = "idle"]
                     ELSE AtRoot([s EXCEPT !.menu = TRUE, !.chars = Roster(a), !.cfg = settings[a]]))
       \/ /\ (~s.open /\ UNCHANGED faults) \/ (s.open /\ Fails(c))
          /\ Turn(c, [s EXCEPT !.step = back, !.stage = "idle", !.name = None])
    /\ UNCHANGED <<rows, things, bound>>

-----------------------------------------------------------------------------
(* Create.                                                                 *)

\* Create.handleUsername
CreateName(c) ==
    LET s == sess[c] IN
    /\ Asked(c, {"newuser"})
    /\ \/ Turn(c, s)
       \/ \E a \in Accounts :
             Turn(c, [s EXCEPT !.name = a, !.step = "newpassword", !.masked = TRUE])
    /\ UNCHANGED <<rows, things, bound, faults>>

\* Create.handlePassword: too short or too long asks again.
CreatePassword(c) ==
    LET s == sess[c] IN
    /\ Asked(c, {"newpassword"})
    /\ \/ Turn(c, s)
       \/ \E p \in Passwords : Turn(c, [s EXCEPT !.pending = p, !.step = "newconfirm"])
    /\ UNCHANGED <<rows, things, bound, faults>>

\* Create.handleConfirm up to the new row: a mismatch asks for the password
\* again, a taken name for another name; when the insert fails the step, the
\* hash and the open mask stay as they are.
CreateConfirm(c) ==
    LET s == sess[c]
        a == s.name
        unmasked == [s EXCEPT !.masked = FALSE] IN
    /\ Asked(c, {"newconfirm"})
    /\ \/ /\ Turn(c, [s EXCEPT !.pending = None, !.step = "newpassword", !.masked = TRUE])
          /\ UNCHANGED <<hash, faults>>
       \/ /\ hash[a] # None /\ Works(c)
          /\ Turn(c, [unmasked EXCEPT !.step = "newuser", !.name = None, !.pending = None])
          /\ UNCHANGED hash
       \/ /\ hash[a] = None /\ Works(c)
          /\ hash' = [hash EXCEPT ![a] = s.pending]
          /\ Turn(c, [unmasked EXCEPT !.stage = "admit"])
       \/ /\ Fails(c)
          /\ Turn(c, unmasked)
          /\ UNCHANGED hash
    /\ UNCHANGED <<failed, lock, settings, things, bound>>

-----------------------------------------------------------------------------
(* The account menu.                                                       *)

\* handleRootChoice.  Play and Delete are offered only with a roster.
RootChoice(c) ==
    LET s == sess[c] IN
    /\ Asked(c, {"root"})
    /\ \/ Turn(c, s)
       \/ \E page \in {"settings", "security", "quit", "chargen"} :
             Turn(c, [s EXCEPT !.step = page])
       \/ Turn(c, [s EXCEPT !.step = "current", !.masked = TRUE])
       \/ /\ s.chars # {}
          /\ Turn(c, [s EXCEPT !.step = "delete"])
       \/ /\ Cardinality(s.chars) > 1
          /\ Turn(c, [s EXCEPT !.step = "play"])
    /\ UNCHANGED <<rows, things, bound, faults>>

\* A page is left for the root, by [B]ack or a blank line.
Back(c) ==
    /\ Asked(c, {"play", "delete", "confirmdelete", "settings", "security", "quit"})
    /\ Turn(c, AtRoot([sess[c] EXCEPT !.doomed = None]))
    /\ UNCHANGED <<rows, things, bound, faults>>

\* promoteToGame: the character goes onto the session before anything is
\* written, also on a closed connection, and whether or not its row is
\* still there.
Play(c) ==
    LET s == sess[c] IN
    /\ \/ Asked(c, {"play"})
       \/ Asked(c, {"root"}) /\ Cardinality(s.chars) = 1
    /\ \E k \in s.chars :
          Turn(c, [s EXCEPT !.playing = k, !.step = IF s.open THEN "game" ELSE @])
    /\ UNCHANGED <<rows, things, bound, faults>>

\* chargen abandoned: back to the menu it came from, which has not read the
\* roster again.  Forced by postAuth, there is no menu and it disconnects.
AbandonChargen(c) ==
    LET s == sess[c] IN
    /\ Asked(c, {"chargen"})
    /\ Turn(c, IF s.menu THEN AtRoot(s) ELSE [s EXCEPT !.open = FALSE])
    /\ UNCHANGED <<rows, things, bound, faults>>

\* chargen finished: the row, the kit, and into the game (Chargen.tla).
FinishChargen(c) ==
    LET s == sess[c] IN
    /\ Asked(c, {"chargen"})
    /\ \E k \in Chars :
          /\ owner[k] = None
          /\ owner' = [owner EXCEPT ![k] = s.account]
          /\ Turn(c, [s EXCEPT !.playing = k, !.step = IF s.open THEN "game" ELSE @])
    /\ Works(c)
    /\ UNCHANGED <<rows, holder, late, bound>>

\* quit, confirmed, or from the game.
Quit(c) ==
    /\ Asked(c, {"quit", "game"})
    /\ Turn(c, [sess[c] EXCEPT !.open = FALSE])
    /\ UNCHANGED <<rows, things, bound, faults>>

\* Session d has listed what character k holds and is deleting it.
Deleting(d, k) == sess[d].stage = "cascade" /\ sess[d].doomed = k

\* A verb of the game that takes an item up or puts it down.
Handle(c) ==
    LET k == sess[c].playing IN
    /\ Asked(c, {"game"})
    /\ \E i \in Items :
          \/ /\ holder[i] = "room"
             /\ holder' = [holder EXCEPT ![i] = k]
             /\ late' = IF owner[k] = "deleted" \/ \E d \in Conns : Deleting(d, k)
                        THEN late \cup {i} ELSE late
          \/ /\ holder[i] = k
             /\ holder' = [holder EXCEPT ![i] = "room"]
             /\ late' = late \ {i}
    /\ Turn(c, sess[c])
    /\ Works(c)
    /\ UNCHANGED <<rows, owner, bound>>

-----------------------------------------------------------------------------
(* Deleting a character.                                                   *)

\* Registry.FindByCharacterName, which knows the bound sessions only.
LoggedIn(k) == \E a \in Accounts : bound[a] # None /\ sess[bound[a]].playing = k

\* handleDeletePickerLine
PickDoomed(c) ==
    LET s == sess[c] IN
    /\ Asked(c, {"delete"})
    /\ \E k \in s.chars :
          Turn(c, IF LoggedIn(k) THEN s ELSE [s EXCEPT !.doomed = k, !.step = "confirmdelete"])
    /\ UNCHANGED <<rows, things, bound, faults>>

\* executeDelete: the check again, and the list of everything it holds.
StartDelete(c) ==
    LET s == sess[c]
        k == s.doomed IN
    /\ Asked(c, {"confirmdelete"})
    /\ \/ /\ ~LoggedIn(k) /\ Works(c)
          /\ Turn(c, [s EXCEPT !.owned = {i \in Items : holder[i] = k}, !.stage = "cascade"])
       \/ /\ LoggedIn(k)
          /\ Turn(c, AtRoot([s EXCEPT !.doomed = None]))
          /\ UNCHANGED faults
       \/ /\ ~LoggedIn(k) /\ Fails(c)
          /\ Turn(c, AtRoot([s EXCEPT !.doomed = None]))
    /\ UNCHANGED <<rows, things, bound>>

Doomless(s) == [s EXCEPT !.doomed = None, !.owned = {}]

\* One row after the other; a call that fails, or finds an item gone since it
\* was listed, ends it, and the character stays with what is left.
DeleteItem(c) ==
    LET s == sess[c] IN
    /\ s.stage = "cascade" /\ s.owned # {}
    /\ \/ \E i \in s.owned :
             /\ holder[i] # "gone"
             /\ holder' = [holder EXCEPT ![i] = "gone"]
             /\ late' = late \ {i}
             /\ Turn(c, [s EXCEPT !.owned = @ \ {i}])
             /\ Works(c)
       \/ /\ \/ Fails(c)
             \/ Works(c) /\ \E i \in s.owned : holder[i] = "gone"
          /\ Turn(c, AtRoot(Doomless(s)))
          /\ UNCHANGED <<holder, late>>
    /\ UNCHANGED <<rows, owner, bound>>

\* Mutant: the row goes first, and the items after it.
RowFirst(c) ==
    LET s == sess[c] IN
    /\ s.stage = "cascade"
    /\ owner[s.doomed] # "deleted"
    /\ owner' = [owner EXCEPT ![s.doomed] = "deleted"]
    /\ Turn(c, s)
    /\ Works(c)
    /\ UNCHANGED <<rows, holder, late, bound>>

\* Then the row.  A row that is gone already is an error.
DeleteRow(c) ==
    LET s == sess[c] IN
    /\ s.stage = "cascade" /\ s.owned = {}
    /\ \/ /\ owner[s.doomed] # "deleted" /\ Works(c)
          /\ owner' = [owner EXCEPT ![s.doomed] = "deleted"]
          /\ Turn(c, [s EXCEPT !.stage = "refresh"])
       \/ /\ Fails(c) \/ (owner[s.doomed] = "deleted" /\ Works(c))
          /\ Turn(c, AtRoot(Doomless(s)))
          /\ UNCHANGED owner
    /\ UNCHANGED <<rows, holder, late, bound>>

\* refreshAndReturn: the roster again, or the old one without the character.
Refresh(c) ==
    LET s == sess[c] IN
    /\ s.stage = "refresh"
    /\ \/ /\ s.open /\ Works(c)
          /\ Turn(c, AtRoot([Doomless(s) EXCEPT !.chars = Roster(s.account)]))
       \/ /\ (~s.open /\ UNCHANGED faults) \/ (s.open /\ Fails(c))
          /\ Turn(c, AtRoot([Doomless(s) EXCEPT !.chars = @ \ {s.doomed}]))
    /\ UNCHANGED <<rows, things, bound>>

-----------------------------------------------------------------------------
(* The password and the settings.                                          *)

\* Mutant: the mask stays on.
LeavesMask(s) == AtRoot([s EXCEPT !.pending = None])

\* resetPasswordFlow and returnToRoot
ResetPasswordFlow(s) == AtRoot([s EXCEPT !.pending = None, !.masked = FALSE])

\* Any step of the flow given up, or answered wrong.
LeavePasswordFlow(c) ==
    /\ Asked(c, {"current", "new", "confirm"})
    /\ Turn(c, ResetPasswordFlow(sess[c]))
    /\ UNCHANGED <<rows, things, bound, faults>>

\* handleCurrentPassword, by the row as it is now.
CurrentPassword(c) ==
    LET s == sess[c] IN
    /\ Asked(c, {"current"})
    /\ Turn(c, [s EXCEPT !.step = "new"])
    /\ Works(c)
    /\ UNCHANGED <<rows, things, bound>>

\* handleNewPassword
NewPassword(c) ==
    LET s == sess[c] IN
    /\ Asked(c, {"new"})
    /\ \E p \in Passwords : Turn(c, [s EXCEPT !.pending = p, !.step = "confirm"])
    /\ UNCHANGED <<rows, things, bound, faults>>

\* handleConfirmNewPassword, the passwords being the same.
ConfirmNewPassword(c) ==
    LET s == sess[c] IN
    /\ Asked(c, {"confirm"})
    /\ \/ Works(c) /\ hash' = [hash EXCEPT ![s.account] = s.pending]
       \/ Fails(c) /\ UNCHANGED hash
    /\ Turn(c, ResetPasswordFlow(s))
    /\ UNCHANGED <<failed, lock, settings, things, bound>>

\* handleSettingsRootLine
PickSetting(c) ==
    /\ Asked(c, {"settings"})
    /\ \E k \in Keys : Turn(c, [sess[c] EXCEPT !.key = k, !.step = "edit"])
    /\ UNCHANGED <<rows, things, bound, faults>>

\* The setting is left as it is: [B]ack, or a value that is refused, which
\* asks again.
KeepSetting(c) ==
    LET s == sess[c] IN
    /\ Asked(c, {"edit"})
    /\ \/ Turn(c, [s EXCEPT !.key = None, !.step = "settings"])
       \/ Turn(c, s)
    /\ UNCHANGED <<rows, things, bound, faults>>

\* persistSettings writes the menu's whole copy, with the one key changed;
\* a failure keeps the copy and is told like a success.
EditSetting(c) ==
    LET s == sess[c]
        done == [s EXCEPT !.key = None, !.step = "settings"] IN
    /\ Asked(c, {"edit"})
    /\ \/ \E v \in BOOLEAN :
             LET next == [s.cfg EXCEPT ![s.key] = v] IN
             /\ settings' = [settings EXCEPT ![s.account] = next]
             /\ Turn(c, [done EXCEPT !.cfg = next])
             /\ Works(c)
       \/ Fails(c) /\ Turn(c, done) /\ UNCHANGED settings
    /\ UNCHANGED <<hash, failed, lock, things, bound>>

\* handleSecurityKick: every other bound session of the account.  There is
\* none while the session is bound itself; a displaced one finds its heir.
KickOthers(c) ==
    LET s == sess[c]
        peers == {d \in Conns \ {c} : bound[s.account] = d /\ sess[d].account = s.account} IN
    /\ Asked(c, {"security"})
    /\ sess' = [d \in Conns |-> IF d \in peers THEN [sess[d] EXCEPT !.open = FALSE] ELSE sess[d]]
    /\ inbox' = [inbox EXCEPT ![c] = IF s.open THEN Tail(@) ELSE << >>]
    /\ UNCHANGED <<rows, things, bound, exposed, faults>>

-----------------------------------------------------------------------------
LoginStep(c) == LoginName(c) \/ CheckRow(c) \/ WrongPassword(c) \/ RightPassword(c)
                \/ Admit(c) \/ PostAuth(c)

CreateStep(c) == CreateName(c) \/ CreatePassword(c) \/ CreateConfirm(c)

MenuStep(c) == RootChoice(c) \/ Back(c) \/ Play(c) \/ AbandonChargen(c) \/ FinishChargen(c)
               \/ Quit(c) \/ Handle(c)

DeleteStep(c) == PickDoomed(c) \/ StartDelete(c) \/ DeleteItem(c) \/ DeleteRow(c) \/ Refresh(c)

AccountStep(c) == LeavePasswordFlow(c) \/ CurrentPassword(c) \/ NewPassword(c)
                  \/ ConfirmNewPassword(c) \/ PickSetting(c) \/ KeepSetting(c) \/ EditSetting(c)
                  \/ KickOthers(c)

Next ==
    \/ \E c \in Conns : Type(c) \/ ReaderEnds(c) \/ Teardown(c) \/ LoginStep(c) \/ CreateStep(c)
                        \/ MenuStep(c) \/ DeleteStep(c) \/ AccountStep(c)
    \/ \E a \in Accounts : LockExpires(a)

Spec == Init /\ [][Next]_vars

-----------------------------------------------------------------------------
(* Properties.                                                             *)

TypeOK ==
    /\ hash \in [Accounts -> Passwords \cup {None}]
    /\ failed \in [Accounts -> 0..MaxFailed]
    /\ lock \in [Accounts -> {"never", "locked", "expired"}]
    /\ settings \in [Accounts -> [Keys -> BOOLEAN]]
    /\ owner \in [Chars -> Accounts \cup {None, "deleted"}]
    /\ holder \in [Items -> Chars \cup {"room", "gone"}]
    /\ late \in SUBSET Items
    /\ sess \in [Conns -> Sessions]
    /\ \A c \in Conns : sess[c].owned # {} => sess[c].stage = "cascade" /\ sess[c].doomed # None
    /\ inbox \in [Conns -> Seq(BOOLEAN)]
    /\ bound \in [Accounts -> Conns \cup {None}]
    /\ exposed \in SUBSET Conns
    /\ faults \in 0..MaxFaults

\* "A torn-down session never leaves password mode on ... or retains a
\* bcrypt hash" (account_menu.go:193-195), whichever way a flow is left: the
\* mask is on at password prompts only, in the menu at every one of them,
\* and the menu keeps a hash only while it waits for its repetition.
FlowsEndClean ==
    TypeOK /\ \A c \in Conns :
        LET s == sess[c] IN
        s.stage = "idle" =>
            /\ s.masked => s.step \in PasswordSteps
            /\ s.step \in MenuSteps => (s.masked <=> s.step \in PasswordSteps)
            /\ s.step \in MenuSteps => (s.pending # None <=> s.step = "confirm")
            /\ s.step = "confirmdelete" <=> s.doomed # None

\* The lockout under parallel attempts.  The count is in the row, but the
\* lock is set by the count that was read before the password was compared:
\* connections that compare at the same time overshoot the threshold, by no
\* more than their number.
LockoutBinds ==
    \A a \in Accounts : lock[a] = "never" => failed[a] <= Threshold - 2 + Cardinality(Conns)

Orphaned(i) == holder[i] \in Chars /\ owner[holder[i]] = "deleted"

\* "A partial item failure leaves a deletable character"
\* (account_menu_delete.go:131): however a cascade fails, and also when two
\* sessions of the account delete at once, the only items that outlive
\* their character are those it took up after they had been listed.
CascadeIsWhole == \A i \in Items : Orphaned(i) => i \in late

\* "The cleartext password must not enter logs ... passwords must not
\* survive into the history" (telnet/server.go:378-380).  A client that waits
\* for its prompts keeps its password private as long as no statement fails:
\* a row that cannot be read leaves the question open with the mask off.
PasswordsStayPrivate == faults = 0 => exposed = {}

\* No way through the password prompts, of one's own or cut short by another
\* login, leaves a prompt, a mask, a hash or a log that gives a password away.
PasswordsKept == FlowsEndClean /\ PasswordsStayPrivate
=============================================================================
