---------------------------- MODULE GroupManager ----------------------------
(***************************************************************************)
(* The party registry of internal/group/manager.go: invite, accept,        *)
(* decline, leave, kick, disband, and the logout hook ClearForCharacter.   *)
(* Every method holds Manager.mu from its first map read to its last map   *)
(* write, so every method is one action.  The two halves of `group kick`   *)
(* (internal/cmd/group.go reads the roster with Of, then calls Kick) are   *)
(* two critical sections; Kick re-checks everything the command looked at, *)
(* so the model lets a leader name any target.                             *)
(*                                                                         *)
(* A failing call changes nothing unless the code changes something on its *)
(* error path: those calls (a full invite that still creates the leader's  *)
(* group, an accept that throws the invite away) are part of the actions.  *)
(*                                                                         *)
(* strays is a history variable: who has invited somebody while a member   *)
(* of another's party.  Nothing in the commands forbids it, and Invite     *)
(* then gives the inviter a party of its own without taking it off the     *)
(* other roster: the rosters and byCharacter agree both ways for           *)
(* everybody else, and only one way for a stray.                           *)
(***************************************************************************)
EXTENDS Naturals, FiniteSets

CONSTANTS
    Chars,          \* the CharacterIDs that act (CharacterID 0 never does)
    MaxGroupSize,   \* errors.go: capacity of a party, leader included
    None            \* "the key is not in the map"

ASSUME CharsAssumption == IsFiniteSet(Chars) /\ None \notin Chars
ASSUME SizeAssumption == MaxGroupSize \in Nat /\ MaxGroupSize >= 1

VARIABLES
    groups,        \* leader -> Group.Members; {} when the leader has no entry
    byCharacter,   \* charID -> leader of the party it is in, or None
    invites,       \* invitee -> leader who invited it, or None
    strays         \* history: those who invited as a member of another's party

vars == <<groups, byCharacter, invites, strays>>

TypeOK ==
    /\ groups \in [Chars -> SUBSET Chars]
    /\ byCharacter \in [Chars -> Chars \cup {None}]
    /\ invites \in [Chars -> Chars \cup {None}]
    /\ strays \subseteq Chars

Init ==
    /\ groups = [c \in Chars |-> {}]
    /\ byCharacter = [c \in Chars |-> None]
    /\ invites = [c \in Chars |-> None]
    /\ strays = {}

-----------------------------------------------------------------------------
(* Helpers that run with the lock held.                                    *)

\* The registry has an entry for leader l.  (An entry always holds its own
\* leader, so the empty set can stand for "no entry"; see LeaderInOwnGroup.)
HasGroup(l) == groups[l] # {}

Full(members) == Cardinality(members) >= MaxGroupSize

\* ensureGroup: the members of l's party after the call.
EnsureGroup(l) == IF HasGroup(l) THEN groups[l] ELSE {l}

\* disbandLocked: every member is released, the entry goes, and so does every
\* invite that l has authored.
DisbandLocked(l) ==
    /\ byCharacter' = [c \in Chars |-> IF c \in groups[l] THEN None ELSE byCharacter[c]]
    /\ groups' = [groups EXCEPT ![l] = {}]
    /\ invites' = [c \in Chars |-> IF invites[c] = l THEN None ELSE invites[c]]
    /\ UNCHANGED strays

\* Mutant: who goes is not struck off the roster.
ReleaseMapOnly(l, c) ==
    /\ byCharacter' = [byCharacter EXCEPT ![c] = None]
    /\ UNCHANGED <<groups, strays>>

\* delete(g.Members, c); delete(m.byCharacter, c), with g the party of l.
Release(l, c) ==
    /\ groups' = [groups EXCEPT ![l] = @ \ {c}]
    /\ byCharacter' = [byCharacter EXCEPT ![c] = None]
    /\ UNCHANGED strays

-----------------------------------------------------------------------------
(* Operations.                                                             *)

\* Invite: the party of the inviter is created before its size is checked, and
\* ensureGroup points byCharacter[l] at the new party whatever it held before.
Invite(l, i) ==
    /\ l # i
    /\ byCharacter[i] = None
    /\ invites[i] = None
    /\ groups' = [groups EXCEPT ![l] = EnsureGroup(l)]
    /\ byCharacter' = [byCharacter EXCEPT ![l] = IF HasGroup(l) THEN @ ELSE l]
    /\ invites' = [invites EXCEPT ![i] = IF Full(EnsureGroup(l)) THEN @ ELSE l]
    /\ strays' = IF byCharacter[l] \in {None, l} THEN strays ELSE strays \cup {l}

\* Accept: an invitee that is in a party by now, or whose leader has gone,
\* loses the invite; a full party keeps it pending.
Accept(i) ==
    /\ invites[i] # None
    /\ LET l == invites[i]
           joins == byCharacter[i] = None /\ HasGroup(l) /\ ~Full(groups[l])
           keeps == byCharacter[i] = None /\ HasGroup(l) /\ Full(groups[l])
       IN /\ groups' = IF joins THEN [groups EXCEPT ![l] = @ \cup {i}] ELSE groups
          /\ byCharacter' = IF joins THEN [byCharacter EXCEPT ![i] = l] ELSE byCharacter
          /\ invites' = IF keeps THEN invites ELSE [invites EXCEPT ![i] = None]
    /\ UNCHANGED strays

Decline(i) ==
    /\ invites[i] # None
    /\ invites' = [invites EXCEPT ![i] = None]
    /\ UNCHANGED <<groups, byCharacter, strays>>

\* Leave: the leader's departure ends the party.
LeaveAsLeader(c) ==
    /\ byCharacter[c] = c
    /\ DisbandLocked(c)

LeaveAsMember(c) ==
    /\ byCharacter[c] \notin {None, c}
    /\ Release(byCharacter[c], c)
    /\ UNCHANGED invites

Kick(l, t) ==
    /\ l # t
    /\ HasGroup(l)
    /\ t \in groups[l]
    /\ Release(l, t)
    /\ UNCHANGED invites

Disband(l) ==
    /\ HasGroup(l)
    /\ DisbandLocked(l)

\* ClearForCharacter, called by handleConnection when the session of c ends:
\* c's own pending invite goes, then c leaves the party byCharacter names.
ClearForCharacter(c) ==
    LET l == byCharacter[c]
        dropOwn == [invites EXCEPT ![c] = None]
    IN  \/ /\ l = None
           /\ invites' = dropOwn
           /\ UNCHANGED <<groups, byCharacter, strays>>
        \/ /\ l = c
           /\ groups' = [groups EXCEPT ![c] = {}]
           /\ byCharacter' = [d \in Chars |-> IF d \in groups[c] THEN None ELSE byCharacter[d]]
           /\ invites' = [d \in Chars |-> IF dropOwn[d] = c THEN None ELSE dropOwn[d]]
           /\ UNCHANGED strays
        \/ /\ l \notin {None, c}
           /\ Release(l, c)
           /\ invites' = dropOwn

Next ==
    \/ \E l, i \in Chars : Invite(l, i)
    \/ \E i \in Chars : Accept(i)
    \/ \E i \in Chars : Decline(i)
    \/ \E c \in Chars : LeaveAsLeader(c)
    \/ \E c \in Chars : LeaveAsMember(c)
    \/ \E l, t \in Chars : Kick(l, t)
    \/ \E l \in Chars : Disband(l)
    \/ \E c \in Chars : ClearForCharacter(c)

Spec == Init /\ [][Next]_vars

-----------------------------------------------------------------------------
(* Properties.                                                             *)

\* A party's roster always holds its leader: whatever order kicks, leaves and
\* disbands come in, no code path can leave a registry entry behind that its
\* own leader is not in (manager.go:293-325).
LeaderInOwnGroup ==
    \A l \in Chars : HasGroup(l) => l \in groups[l]

\* byCharacter never names a party that is gone or does not list the
\* character: Leave, ClearForCharacter and MembersInRoom dereference
\* groups[byCharacter[c]] without a nil check (manager.go:177, 231, 287).
LeaderResolves ==
    \A c \in Chars : byCharacter[c] # None => c \in groups[byCharacter[c]]

\* A pending invite always names a party that still exists, although the
\* inviter may leave, be kicked or log out while it is pending
\* (manager.go:318-323).
InviteResolves ==
    \A i \in Chars : invites[i] # None => HasGroup(invites[i])

\* Whoever a roster lists, its leader included, byCharacter points back to that
\* roster, so that leaving, being kicked or logging out takes the character off
\* every roster (manager.go:266-270) -- unless it once invited somebody as a
\* member of another's party.  ensureGroup then overwrites byCharacter
\* (manager.go:293-303), and the old roster keeps a ghost that no departure of
\* the stray removes.
RosterPointsBack ==
    \A l \in Chars : \A c \in groups[l] \ strays : byCharacter[c] = l

\* However many invites are outstanding when a party fills up, no party ever
\* exceeds its capacity (manager.go:101, 146).
PartyWithinCap ==
    \A l \in Chars : Cardinality(groups[l]) <= MaxGroupSize

\* In whatever order invites, departures, kicks, disbands and logouts come:
\* byCharacter and invites name parties that exist and list who they should,
\* and a roster lists nobody that byCharacter does not point back from, except
\* strays.
MapsAgree ==
    TypeOK /\ LeaderInOwnGroup /\ LeaderResolves /\ InviteResolves /\ RosterPointsBack

\* No order of invites, departures and logouts makes the maps disagree about
\* anybody but a stray, or a party outgrow its capacity.
RegistrySound == MapsAgree /\ PartyWithinCap
=============================================================================
