------------------------------ MODULE Commands ------------------------------
(***************************************************************************)
(* The table of verbs, what is reloaded into it while the game runs, and   *)
(* how a line of input goes through it.                                    *)
(*                                                                         *)
(* telnet.Registry holds the verbs under their names and their aliases.    *)
(* The built-in ones are registered at the boot; those of the social       *)
(* catalog can be replaced by an admin (reload socials), one registry call *)
(* at a time while players type and another admin may be reloading too.    *)
(* The help catalog has the authored topics and one generated from every   *)
(* verb; reload help replaces it.                                          *)
(*                                                                         *)
(* A word is a number, its place in the lexical order.  Of a line only the *)
(* verbs of its segments are kept, of a verb its level; templates, bodies  *)
(* of topics, arguments and the lag of verbs are left out.                 *)
(***************************************************************************)
EXTENDS Naturals, Sequences, FiniteSets, Functions

CONSTANTS
    Words,       \* every name, alias, keyword and macro, in lexical order
    Begins,      \* word -> the words it is a prefix of
    NoVerb,      \* Lookup found nothing, or more than one
    Builtins,    \* name -> [also: aliases, level], the verbs of the boot
    Mute,        \* the names whose commands have neither Help nor Long
    SocialFiles, \* the social files as they may be found, sets of [id, also]
    TopicFiles,  \* the help files as they may be found, sets of [id, also]
    Admins, Players,
    Level,       \* player -> AuthLevel
    Lines,       \* what a player may type, sequences of verbs
    Shorthands,  \* the words players make aliases of
    Macros,      \* what a user alias may stand for, sequences of verbs
    MaxSegmentsPerLine, MaxAliasDepth

\* emote.Load and help.LoadFS refuse a name that is used twice.
WellFormed(file) ==
    /\ \A e \in file : e.id \notin e.also
    /\ \A e, f \in file : e # f => ({e.id} \union e.also) \intersect ({f.id} \union f.also) = {}

\* name -> aliases, or topic -> keywords
Index(file) == [i \in {e.id : e \in file} |-> (CHOOSE e \in file : e.id = i).also]

NamesOf(table) == DOMAIN table \union UNION {table[i] : i \in DOMAIN table}
ReservedWords == DOMAIN Builtins \union UNION {Builtins[b].also : b \in DOMAIN Builtins}

ASSUME CommandsAssumption ==
    /\ Words \subseteq Nat /\ NoVerb \notin Words
    /\ Begins \in [Words -> SUBSET Words]
    /\ DOMAIN Builtins \subseteq Words
    /\ \A b \in DOMAIN Builtins : /\ Builtins[b] \in [also : SUBSET Words, level : Nat]
                                  /\ Builtins[b].also \intersect DOMAIN Builtins = {}
    /\ \A b, c \in DOMAIN Builtins : b # c => Builtins[b].also \intersect Builtins[c].also = {}
    /\ SocialFiles \subseteq SUBSET [id : Words, also : SUBSET Words]
    /\ TopicFiles \subseteq SUBSET [id : Words, also : SUBSET Words]
    /\ Level \in [Players -> Nat]
    /\ Shorthands \subseteq Words /\ Lines \subseteq Seq(Words) /\ Macros \subseteq Seq(Words) \ {<<>>}
    /\ MaxSegmentsPerLine \in Nat \ {0} /\ MaxAliasDepth \in Nat

PlayerLevel == 1   \* AuthPlayer, the level of every social

VARIABLES
    verbs,    \* Registry.sorted: name -> [also, level]
    aliasOf,  \* Registry.aliases: alias -> the name of its command
    catalog,  \* emote.Catalog: id -> aliases
    topics,   \* help.Catalog.byID: id -> keywords
    keyed,    \* help.Catalog.byKeyword: keyword -> id
    reload,      \* the reload each admin's dispatcher is running
    logged,   \* the ids whose last Register or Unregister was logged as failed
    overlap,  \* two reloads of the socials have overlapped
    macros,   \* Session.Aliases: player -> word -> verbs
    chain,    \* the segments left at each level of dispatchOne's recursion
    heard     \* the answer to a player's last segment

tableVars == <<verbs, aliasOf>>
helpVars == <<topics, keyed>>
reloadVars == <<tableVars, helpVars, catalog, reload, logged, overlap>>
lineVars == <<macros, chain, heard>>
commandsVars == <<reloadVars, lineVars>>

NoReload == [at |-> "idle"]
NoMacros == [w \in {} |-> <<>>]

(***************************************************************************)
(* The registry                                                            *)
(***************************************************************************)
Taken(w) == w \in DOMAIN aliasOf \/ w \in DOMAIN verbs

\* Alias, then exact name, then the only name that begins so.
Lookup(w) ==
    LET found == DOMAIN verbs \intersect Begins[w]
    IN  IF w \in DOMAIN aliasOf THEN aliasOf[w]
        ELSE IF w \in DOMAIN verbs THEN w
        ELSE IF \E n \in found : found = {n} THEN CHOOSE n \in found : TRUE ELSE NoVerb

With(table, n, v) == [x \in DOMAIN table \union {n} |-> IF x = n THEN v ELSE table[x]]
Without(table, S) == [x \in DOMAIN table \ S |-> table[x]]

\* Refused as a whole if the name or an alias is in use.
CanRegister(n, also) == \A w \in {n} \union also : ~Taken(w)

Register(n, also) ==
    /\ verbs' = With(verbs, n, [also |-> also, level |-> PlayerLevel])
    /\ aliasOf' = [a \in DOMAIN aliasOf \union also |-> IF a \in also THEN n ELSE aliasOf[a]]

Unregister(n) ==
    /\ verbs' = Without(verbs, {n})
    /\ aliasOf' = Without(aliasOf, {a \in DOMAIN aliasOf : a \in verbs[n].also /\ aliasOf[a] = n})

(***************************************************************************)
(* reload socials                                                          *)
(***************************************************************************)
Reloading == {a \in Admins : reload[a].at \in {"ask", "apply", "back"}}

\* The file is parsed and the live catalog read once; what is added, removed and
\* kept is settled here, and which of the new names are to be looked up.
ReloadSocials(a) ==
    /\ reload[a] = NoReload
    /\ \E file \in SocialFiles :
         /\ WellFormed(file)
         /\ LET new == Index(file)
            IN  reload' = [reload EXCEPT ![a] =
                  [at |-> "ask", new |-> new, ask |-> NamesOf(new) \ NamesOf(catalog),
                   drop |-> DOMAIN catalog \ DOMAIN new,
                   keep |-> DOMAIN catalog \intersect DOMAIN new,
                   add |-> DOMAIN new \ DOMAIN catalog]]
    /\ overlap' = (overlap \/ Reloading # {})
    /\ UNCHANGED <<tableVars, helpVars, catalog, logged, lineVars>>

\* Mutant: nothing is looked up.
AskNothing(a) ==
    /\ reload[a].at = "ask"
    /\ \E w \in reload[a].ask : reload' = [reload EXCEPT ![a].ask = @ \ {w}]
    /\ UNCHANGED <<tableVars, helpVars, catalog, logged, overlap, lineVars>>

\* A name that resolves, even as a prefix, ends the reload.
Ask(a) ==
    /\ reload[a].at = "ask"
    /\ \E w \in reload[a].ask :
         \/ Lookup(w) = NoVerb /\ reload' = [reload EXCEPT ![a].ask = @ \ {w}]
         \/ Lookup(w) # NoVerb /\ reload' = [reload EXCEPT ![a] = NoReload]
    /\ UNCHANGED <<tableVars, helpVars, catalog, logged, overlap, lineVars>>

Replace(a) ==
    /\ reload[a].at = "ask" /\ reload[a].ask = {}
    /\ catalog' = reload[a].new
    /\ reload' = [reload EXCEPT ![a] = [at |-> "apply", new |-> @.new,
                                  drop |-> @.drop, keep |-> @.keep, add |-> @.add]]
    /\ UNCHANGED <<tableVars, helpVars, logged, overlap, lineVars>>

First(S) == {x \in S : \A y \in S : x <= y}

\* An id that cannot be taken out, or registered, is logged and left as it is.
Drop(id) ==
    IF id \in DOMAIN verbs
    THEN Unregister(id) /\ logged' = logged \ {id}
    ELSE UNCHANGED tableVars /\ logged' = logged \union {id}

Bring(id, also) ==
    IF CanRegister(id, also)
    THEN Register(id, also) /\ logged' = logged \ {id}
    ELSE UNCHANGED tableVars /\ logged' = logged \union {id}

\* The removed ids go first, in order.
UnregisterRemoved(a) ==
    /\ reload[a].at = "apply"
    /\ \E id \in First(reload[a].drop) :
         /\ Drop(id)
         /\ reload' = [reload EXCEPT ![a].drop = @ \ {id}]
    /\ UNCHANGED <<helpVars, catalog, overlap, lineVars>>

\* Then each kept id is taken out and put back: two calls.
UnregisterKept(a) ==
    /\ reload[a].at = "apply" /\ reload[a].drop = {}
    /\ \E id \in First(reload[a].keep) :
         /\ Drop(id)
         /\ \/ /\ id \in DOMAIN verbs
               /\ reload' = [reload EXCEPT ![a] = [at |-> "back", new |-> @.new, id |-> id,
                                               keep |-> @.keep \ {id}, add |-> @.add]]
            \/ id \notin DOMAIN verbs /\ reload' = [reload EXCEPT ![a].keep = @ \ {id}]
    /\ UNCHANGED <<helpVars, catalog, overlap, lineVars>>

RegisterKept(a) ==
    /\ reload[a].at = "back"
    /\ Bring(reload[a].id, reload[a].new[reload[a].id])
    /\ reload' = [reload EXCEPT ![a] = [at |-> "apply", new |-> @.new,
                                  drop |-> {}, keep |-> @.keep, add |-> @.add]]
    /\ UNCHANGED <<helpVars, catalog, overlap, lineVars>>

RegisterAdded(a) ==
    /\ reload[a].at = "apply" /\ reload[a].drop = {} /\ reload[a].keep = {}
    /\ \E id \in First(reload[a].add) :
         /\ Bring(id, reload[a].new[id])
         /\ reload' = [reload EXCEPT ![a].add = @ \ {id}]
    /\ UNCHANGED <<helpVars, catalog, overlap, lineVars>>

Applied(a) ==
    /\ reload[a].at = "apply" /\ reload[a].drop \union reload[a].keep \union reload[a].add = {}
    /\ reload' = [reload EXCEPT ![a] = [at |-> "list"]]
    /\ UNCHANGED <<tableVars, helpVars, catalog, logged, overlap, lineVars>>

(***************************************************************************)
(* reload help, and the topics generated from the verbs                    *)
(***************************************************************************)
\* ReloadFS swaps the catalog for the authored topics.
ReloadHelp(a) ==
    /\ reload[a] = NoReload
    /\ \E file \in TopicFiles :
         /\ WellFormed(file)
         /\ topics' = Index(file)
         /\ keyed' = [k \in UNION {e.also : e \in file} |-> (CHOOSE e \in file : k \in e.also).id]
    /\ reload' = [reload EXCEPT ![a] = [at |-> "list"]]
    /\ UNCHANGED <<tableVars, catalog, logged, overlap, lineVars>>

Generated == [n \in DOMAIN verbs \ Mute |-> verbs[n].also]

GenerateCommandTopics(a) ==
    /\ reload[a].at = "list"
    /\ reload' = [reload EXCEPT ![a] = [at |-> "merge", gen |-> Generated]]
    /\ UNCHANGED <<tableVars, helpVars, catalog, logged, overlap, lineVars>>

\* What is there wins: a generated topic whose id is in use is skipped, a keyword
\* in use is dropped from its topic.  No two verbs share a name, so the order in
\* which the topics are taken up does not matter.
InUse(w) == w \in DOMAIN topics \/ w \in DOMAIN keyed
Accepted(gen) == {n \in DOMAIN gen : ~InUse(n)}
Clean(gen, n) == {k \in gen[n] : ~InUse(k)}

MergeGenerated(a) ==
    /\ reload[a].at = "merge"
    /\ LET gen == reload[a].gen
           new == Accepted(gen)
           words == UNION {Clean(gen, n) : n \in new}
       IN  /\ topics' = [t \in DOMAIN topics \union new |-> IF t \in new THEN Clean(gen, t) ELSE topics[t]]
           /\ keyed' = [k \in DOMAIN keyed \union words |->
                          IF k \in words THEN CHOOSE n \in new : k \in Clean(gen, n) ELSE keyed[k]]
    /\ reload' = [reload EXCEPT ![a] = NoReload]
    /\ UNCHANGED <<tableVars, catalog, logged, overlap, lineVars>>

Reload(a) ==
    \/ ReloadSocials(a) \/ Ask(a) \/ Replace(a) \/ UnregisterRemoved(a) \/ UnregisterKept(a)
    \/ RegisterKept(a) \/ RegisterAdded(a) \/ Applied(a)
    \/ ReloadHelp(a) \/ GenerateCommandTopics(a) \/ MergeGenerated(a)

(***************************************************************************)
(* A line of input                                                         *)
(***************************************************************************)
\* The line is split at its semicolons and cut to MaxSegmentsPerLine.
Dispatch(p) ==
    /\ chain[p] = <<>>
    /\ \E line \in Lines :
         chain' = [chain EXCEPT ![p] =
                     <<IF Len(line) > MaxSegmentsPerLine THEN SubSeq(line, 1, MaxSegmentsPerLine) ELSE line>>]
    /\ UNCHANGED <<reloadVars, macros, heard>>

Depth(p) == Len(chain[p]) - 1
Top(p) == chain[p][Len(chain[p])]
\* The segments left once the first of the innermost level is taken.
Rest(p) == [chain[p] EXCEPT ![Len(chain[p])] = Tail(@)]

Splits(p, v) == v \in DOMAIN macros[p] /\ Depth(p) < MaxAliasDepth /\ Len(macros[p][v]) > 1

\* An expansion of several segments is dispatched segment by segment, one level
\* deeper.
ExpandAlias(p) ==
    /\ chain[p] # <<>> /\ Top(p) # <<>>
    /\ Splits(p, Head(Top(p)))
    /\ chain' = [chain EXCEPT ![p] = Append(Rest(p), macros[p][Head(Top(p))])]
    /\ UNCHANGED <<reloadVars, macros, heard>>

\* An expansion of one segment, or at the last level, is looked up as it is: there
\* the first verb of several may carry the semicolon with it and be unknown.
Says(p, w) ==
    LET n == Lookup(w)
    IN  IF n # NoVerb /\ Level[p] >= verbs[n].level THEN n ELSE NoVerb

RunVerb(p) ==
    /\ chain[p] # <<>> /\ Top(p) # <<>>
    /\ ~Splits(p, Head(Top(p)))
    /\ LET v == Head(Top(p))
       IN  \/ heard' = [heard EXCEPT ![p] = Says(p, IF v \in DOMAIN macros[p] THEN Head(macros[p][v]) ELSE v)]
           \/ /\ v \in DOMAIN macros[p] /\ Len(macros[p][v]) > 1
              /\ heard' = [heard EXCEPT ![p] = NoVerb]
    /\ chain' = [chain EXCEPT ![p] = Rest(p)]
    /\ UNCHANGED <<reloadVars, macros>>

\* dispatchOne and, at last, Dispatch return.
Return(p) ==
    /\ chain[p] # <<>> /\ Top(p) = <<>>
    /\ chain' = [chain EXCEPT ![p] = SubSeq(@, 1, Len(@) - 1)]
    /\ UNCHANGED <<reloadVars, macros, heard>>

\* What the verbs alias and unalias do, typed alone or reached in a line.
SetAlias(p) ==
    /\ \E w \in Shorthands, m \in Macros : macros' = [macros EXCEPT ![p] = With(@, w, m)]
    /\ UNCHANGED <<reloadVars, chain, heard>>

DeleteAlias(p) ==
    /\ \E w \in DOMAIN macros[p] : macros' = [macros EXCEPT ![p] = Without(@, {w})]
    /\ UNCHANGED <<reloadVars, chain, heard>>

Input(p) == Dispatch(p) \/ ExpandAlias(p) \/ RunVerb(p) \/ Return(p) \/ SetAlias(p) \/ DeleteAlias(p)

(***************************************************************************)
(* Specification                                                           *)
(***************************************************************************)
\* buildRegistry registers the built-in verbs and one verb per social and gives up
\* on a duplicate; main merges the generated topics before it listens.
Booted(socials, file) ==
    LET used == NamesOf(Index(file))
        new == {n \in DOMAIN verbs \ Mute : n \notin used}
        words == UNION {verbs[n].also \ used : n \in new}
    IN  /\ NamesOf(socials) \intersect ReservedWords = {}
        /\ verbs = [n \in DOMAIN Builtins \union DOMAIN socials |->
                      IF n \in DOMAIN Builtins THEN Builtins[n]
                      ELSE [also |-> socials[n], level |-> PlayerLevel]]
        /\ aliasOf = [a \in UNION {verbs[n].also : n \in DOMAIN verbs} |->
                        CHOOSE n \in DOMAIN verbs : a \in verbs[n].also]
        /\ topics = [t \in DOMAIN Index(file) \union new |->
                       IF t \in new THEN verbs[t].also \ used ELSE Index(file)[t]]
        /\ keyed = [k \in words \union UNION {e.also : e \in file} |->
                      IF k \in words THEN CHOOSE n \in new : k \in verbs[n].also
                      ELSE (CHOOSE e \in file : k \in e.also).id]

CommandsInit ==
    /\ \E file \in SocialFiles : WellFormed(file) /\ catalog = Index(file)
    /\ \E file \in TopicFiles : WellFormed(file) /\ Booted(catalog, file)
    /\ reload = [a \in Admins |-> NoReload]
    /\ logged = {} /\ overlap = FALSE
    /\ macros = [p \in Players |-> NoMacros] /\ chain = [p \in Players |-> <<>>]
    /\ heard = [p \in Players |-> NoVerb]

CommandsNext == (\E a \in Admins : Reload(a)) \/ (\E p \in Players : Input(p))

CommandsSpec == CommandsInit /\ [][CommandsNext]_commandsVars

(***************************************************************************)
(* Properties                                                              *)
(***************************************************************************)
CommandsTypes ==
    /\ DOMAIN verbs \subseteq Words
    /\ \A n \in DOMAIN verbs : verbs[n] \in [also : SUBSET Words, level : Nat]
    /\ DOMAIN catalog \subseteq Words /\ \A i \in DOMAIN catalog : catalog[i] \subseteq Words
    /\ logged \subseteq Words /\ overlap \in BOOLEAN
    /\ \A p \in Players :
         /\ chain[p] \in Seq(Seq(Words)) /\ Len(chain[p]) <= MaxAliasDepth + 1
         /\ DOMAIN macros[p] \subseteq Words /\ \A w \in DOMAIN macros[p] : macros[p][w] \in Macros
         /\ heard[p] \in Words \union {NoVerb}

\* The aliases are exactly those of the verbs in the table, and no word is both.
TableSound ==
    /\ DOMAIN aliasOf \intersect DOMAIN verbs = {}
    /\ \A a \in DOMAIN aliasOf : aliasOf[a] \in DOMAIN verbs /\ a \in verbs[aliasOf[a]].also
    /\ \A n \in DOMAIN verbs : \A a \in verbs[n].also : a \in DOMAIN aliasOf /\ aliasOf[a] = n

\* No reload takes a built-in verb away, changes it or comes before it.
BuiltinsServed ==
    \A b \in DOMAIN Builtins :
      /\ b \in DOMAIN verbs /\ verbs[b] = Builtins[b] /\ Lookup(b) = b
      /\ \A a \in Builtins[b].also : Lookup(a) = b

\* Unless two reloads overlapped, between reloads the socials that answer are those
\* of the catalog, with its aliases, but for the ids the log names.
Socials == DOMAIN verbs \ DOMAIN Builtins
CatalogServed ==
    ~overlap /\ (\A a \in Admins : reload[a].at \notin {"apply", "back"}) =>
      /\ Socials \subseteq DOMAIN catalog
      /\ \A i \in DOMAIN catalog : IF i \in Socials THEN verbs[i].also = catalog[i] ELSE i \in logged

\* A keyword belongs to one topic, and no id is a keyword.
TopicsSound ==
    /\ DOMAIN topics \intersect DOMAIN keyed = {}
    /\ \A k \in DOMAIN keyed : keyed[k] \in DOMAIN topics /\ k \in topics[keyed[k]]
    /\ \A t \in DOMAIN topics : \A k \in topics[t] : k \in DOMAIN keyed /\ keyed[k] = t

\* However reloads overlap, once all are done help has something on every verb.
HelpCovers ==
    (\A a \in Admins : reload[a] = NoReload) => \A n \in DOMAIN verbs \ Mute : InUse(n)

\* Whatever is reloaded and in whatever order the calls of two reloads come, verbs
\* and help resolve as the boot promised.
VerbsResolve ==
    /\ CommandsTypes
    /\ TableSound /\ BuiltinsServed /\ CatalogServed
    /\ TopicsSound /\ HelpCovers
=============================================================================
