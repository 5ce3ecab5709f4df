-------------------------- MODULE ExtendedConfigs --------------------------
(***************************************************************************)
(* The cache of tsconfig files that other tsconfig files extend            *)
(* (internal/project/ownercache.go, extendedconfigcache.go), and the       *)
(* recursion that goes through it (internal/tsoptions/tsconfigparsing.go). *)
(* An entry has a lock, which is held while its config is parsed, and      *)
(* parsing acquires the configs it extends, whose results become part of   *)
(* its own.  Entries belong to the snapshots that own them and go with the *)
(* last one.  A text is all that a file has; that two texts never have the *)
(* same hash is taken for granted.                                         *)
(***************************************************************************)
EXTENDS Integers, Sequences, FiniteSets, SequencesExt

CONSTANTS
    Config,
    Graphs,      \* the configs each config may extend, in order
    Owner,       \* snapshots
    Content,     \* Content[o][k]: the text of k that snapshot o sees
    Thread,      \* goroutines
    MaxCalls,    \* bound on the calls
    None

Entry == 1 .. Cardinality(Config) + Cardinality(Thread)   \* identities

ASSUME ConfigsAssumption ==
    /\ Graphs \subseteq [Config -> Seq(Config)]
    /\ IsFiniteSet(Config) /\ IsFiniteSet(Thread) /\ IsFiniteSet(Owner)
    /\ MaxCalls \in Nat
    /\ None \notin Config \cup Thread \cup Owner \cup Entry

VARIABLES
    entries,                \* the SyncMap: config to entry
    lock, owners, value,    \* an entry's mu, owners and value
    read,                   \* the texts that the parse of an entry is made of so far
    stack,                  \* per goroutine: the calls it is in, innermost last
    owner,                  \* the snapshot it works for
    owns,                   \* what each snapshot has acquired and not released
    disposed,               \* snapshots that are being, or were, disposed of
    calls,
    extends                 \* the graph of this behaviour's configs

vars == <<entries, lock, owners, value, read, stack, owner, owns, disposed, calls, extends>>

\* A call of LoadAndAcquire, AddOwner or Release: the config, the entry it is
\* at, how far it is, and the next config to go into.
Frame == [op : {"acquire", "add", "release"}, config : Config, entry : Entry \cup {None},
          at : {"load", "lock", "parse"}, next : Nat]

\* The map, the entries and the goroutines' stacks have their types, and a
\* goroutine works for a snapshot exactly while it is in a call of the cache.
TypeOK ==
    /\ entries \in [Config -> Entry \cup {None}]
    /\ lock \in [Entry -> Thread \cup {None}]
    /\ owners \in [Entry -> SUBSET Owner]
    /\ DOMAIN value = Entry /\ DOMAIN read = Entry
    /\ stack \in [Thread -> Seq(Frame)]
    /\ owner \in [Thread -> Owner \cup {None}]
    /\ \A t \in Thread : owner[t] = None <=> stack[t] = <<>>
    /\ owns \in [Owner -> SUBSET Config] /\ disposed \subseteq Owner
    /\ calls \in 0 .. MaxCalls

Init ==
    /\ entries = [k \in Config |-> None]
    /\ lock = [e \in Entry |-> None]
    /\ owners = [e \in Entry |-> {}]
    /\ value = [e \in Entry |-> [parsed |-> {}, hash |-> {}]]
    /\ read = [e \in Entry |-> {}]
    /\ stack = [t \in Thread |-> <<>>]
    /\ owner = [t \in Thread |-> None]
    /\ owns = [o \in Owner |-> {}] /\ disposed = {}
    /\ calls = 0
    /\ extends \in Graphs

Top(t) == Last(stack[t])
In(t, at) == stack[t] # <<>> /\ Top(t).at = at
Replace(t, f) == stack' = [stack EXCEPT ![t] = Append(Front(@), f)]
Pop(t) == stack' = [stack EXCEPT ![t] = Front(@)]
Call(op, k) == [op |-> op, config |-> k, entry |-> None, at |-> "load", next |-> 1]

\* What snapshot o sees of some configs, each with its text.
Texts(o, names) == {<<k, Content[o][k]>> : k \in names}

\* ExtendedFileNames, and the config's own.
Names(texts) == {p[1] : p \in texts}

\* Mutant: hash is that of the config's own text.
ExpiredOwn(t, e) == ~(Texts(owner[t], {Top(t).config}) \subseteq value[e].hash)

\* isExpired: the text of the config or of one it extends is not as hashed.
Expired(t, e) == value[e].hash # Texts(owner[t], Names(value[e].parsed))

-----------------------------------------------------------------------------
(* The calls.                                                              *)

Begin(t, o, f) ==
    /\ stack[t] = <<>> /\ calls < MaxCalls
    /\ stack' = [stack EXCEPT ![t] = <<f>>]
    /\ owner' = [owner EXCEPT ![t] = o]
    /\ calls' = calls + 1
    /\ UNCHANGED <<entries, lock, owners, value, read, extends>>

\* A goroutine that builds snapshot o comes to a config that extends k.
LoadAndAcquire(t, o, k) ==
    /\ o \notin disposed
    /\ Begin(t, o, Call("acquire", k))
    /\ UNCHANGED <<owns, disposed>>

\* o takes over a config of a snapshot that is kept alive meanwhile.
AddOwner(t, o, k) ==
    /\ o \notin disposed
    /\ \E p \in Owner \ {o} : k \in owns[p]
    /\ Begin(t, o, Call("add", k))
    /\ UNCHANGED <<owns, disposed>>

\* o is disposed of: nothing is built for it any more, nor from it.
Release(t, o, k) ==
    /\ k \in owns[o]
    /\ \A u \in Thread : owner[u] = o => Top(u).op = "release"
    /\ \A u \in Thread : stack[u] # <<>> /\ Top(u).op = "add" /\ Top(u).config = k
            => \E p \in Owner \ {o, owner[u]} : k \in owns[p]
    /\ Begin(t, o, Call("release", k))
    /\ owns' = [owns EXCEPT ![o] = @ \ {k}]
    /\ disposed' = disposed \cup {o}

\* NewEntry: &ownerCacheEntry, an identity nobody has a reference to.
NewEntry == CHOOSE e \in Entry :
    /\ \A k \in Config : entries[k] # e
    /\ \A t \in Thread : \A i \in DOMAIN stack[t] : stack[t][i].entry # e

\* The parse of an entry begins with the config's own text.
Reads(t, e) == read' = [read EXCEPT ![e] = Texts(owner[t], {Top(t).config})]

\* loadOrStoreLockedEntry and the two others up to the map's answer; AddOwner and
\* Release find an entry (OwnedStays).
Load(t) ==
    LET f == Top(t)
        e == entries[f.config]
    IN  /\ In(t, "load")
        /\ \/ /\ e # None
              /\ Replace(t, [f EXCEPT !.entry = e, !.at = "lock"])
              /\ UNCHANGED <<entries, lock, owners, read, owner>>
           \/ /\ e = None /\ f.op = "acquire"
              /\ entries' = [entries EXCEPT ![f.config] = NewEntry]
              /\ lock' = [lock EXCEPT ![NewEntry] = t]
              /\ owners' = [owners EXCEPT ![NewEntry] = {}]
              /\ Reads(t, NewEntry)
              /\ Replace(t, [f EXCEPT !.entry = NewEntry, !.at = "parse"])
              /\ UNCHANGED owner
        /\ UNCHANGED <<value, owns, disposed, calls, extends>>

Leave(t) == owner' = IF Len(stack[t]) = 1 THEN [owner EXCEPT ![t] = None] ELSE owner

\* A call returns: its entry is unlocked, and the goroutine is back in the
\* parse that made it, or done.
Return(t, e) ==
    /\ lock' = [lock EXCEPT ![e] = None]
    /\ Pop(t)
    /\ Leave(t)

\* The caller's own parse takes over what a call returned.
Gives(t, parsed) ==
    read' = IF Len(stack[t]) = 1 THEN read
            ELSE [read EXCEPT ![stack[t][Len(stack[t]) - 1].entry] = @ \cup parsed]

Own(t, e) ==
    /\ owners' = [owners EXCEPT ![e] = @ \cup {owner[t]}]
    /\ owns' = [owns EXCEPT ![owner[t]] = @ \cup {Top(t).config}]

\* Mutant: an entry found in the map is taken as it is.
GoneNever(e) == FALSE

\* The entry lost its last owner, and its place in the map, since it was loaded.
Gone(e) == owners[e] = {}

\* loadOrStoreLockedEntry, once it has the lock of an entry it found, and the
\* rest of LoadAndAcquire if there is nothing to parse.
LockAcquire(t) ==
    LET f == Top(t)
        e == f.entry
    IN  /\ In(t, "lock") /\ lock[e] = None /\ f.op = "acquire"
        /\ \/ /\ Gone(e)
              /\ Replace(t, [f EXCEPT !.entry = None, !.at = "load"])
              /\ UNCHANGED <<lock, owners, read, owner, owns>>
           \/ /\ ~Gone(e) /\ Expired(t, e)
              /\ lock' = [lock EXCEPT ![e] = t]
              /\ Reads(t, e)
              /\ Replace(t, [f EXCEPT !.at = "parse"])
              /\ UNCHANGED <<owners, owner, owns>>
           \/ /\ ~Gone(e) /\ ~Expired(t, e)
              /\ Own(t, e)
              /\ Gives(t, value[e].parsed)
              /\ Return(t, e)
        /\ UNCHANGED <<entries, value, disposed, calls, extends>>

\* AddOwner's critical section
LockAdd(t) ==
    /\ In(t, "lock") /\ lock[Top(t).entry] = None /\ Top(t).op = "add"
    /\ Own(t, Top(t).entry)
    /\ Return(t, Top(t).entry)
    /\ UNCHANGED <<entries, value, read, disposed, calls, extends>>

\* The entry leaves the map with its last owner.
Drop(k, left) == entries' = IF left = {} THEN [entries EXCEPT ![k] = None] ELSE entries

\* Release's critical section
LockRelease(t) ==
    LET e == Top(t).entry
        left == owners[e] \ {owner[t]}
    IN  /\ In(t, "lock") /\ lock[e] = None /\ Top(t).op = "release"
        /\ owners' = [owners EXCEPT ![e] = left]
        /\ Drop(Top(t).config, left)
        /\ Return(t, e)
        /\ UNCHANGED <<value, read, owns, disposed, calls, extends>>

-----------------------------------------------------------------------------
(* parseConfig, with the entry locked.                                     *)

\* Mutant: every config goes through the cache.
OnStackNever(t, k) == FALSE

\* The config is in resolutionStack: parsed without the cache, for its error.
OnStack(t, k) == \E i \in DOMAIN stack[t] : stack[t][i].config = k

\* getExtendedConfig, for the next config that this one extends.
getExtendedConfig(t) ==
    LET f == Top(t)
        k == extends[f.config][f.next]
    IN  /\ In(t, "parse") /\ f.next <= Len(extends[f.config])
        /\ stack' = [stack EXCEPT ![t] =
                Append(Front(@), [f EXCEPT !.next = @ + 1]) \o
                    (IF OnStack(t, k) THEN <<>> ELSE <<Call("acquire", k)>>)]
        /\ read' = IF OnStack(t, k)
                     THEN [read EXCEPT ![f.entry] = @ \cup Texts(owner[t], {k})] ELSE read
        /\ UNCHANGED <<entries, lock, owners, value, owner, owns, disposed, calls, extends>>

\* The config is parsed, and hashed: the rest of LoadAndAcquire.
Parsed(t) ==
    LET f == Top(t)
        e == f.entry
    IN  /\ In(t, "parse") /\ f.next > Len(extends[f.config])
        /\ value' = [value EXCEPT ![e] = [parsed |-> read[e],
                                          hash |-> Texts(owner[t], Names(read[e]))]]
        /\ Own(t, e)
        /\ Gives(t, read[e])
        /\ Return(t, e)
        /\ UNCHANGED <<entries, disposed, calls, extends>>

Rest == (\A t \in Thread : stack[t] = <<>>) /\ UNCHANGED vars

Blocked(t) == In(t, "lock") /\ lock[Top(t).entry] # None

\* The goroutines of S wait for each other's locks, or for their own.
Deadlocked(S) == S # {} /\ \A t \in S : Blocked(t) /\ lock[Top(t).entry] \in S

\* And they do so for ever.
Stuck == (\E S \in SUBSET Thread : Deadlocked(S)) /\ UNCHANGED vars

Work(t) ==
    \/ Load(t) \/ LockAcquire(t) \/ LockAdd(t) \/ LockRelease(t)
    \/ getExtendedConfig(t) \/ Parsed(t)

Next ==
    \/ \E t \in Thread :
            \/ Work(t)
            \/ \E o \in Owner, k \in Config :
                    LoadAndAcquire(t, o, k) \/ AddOwner(t, o, k) \/ Release(t, o, k)
    \/ Rest \/ Stuck

Spec == Init /\ [][Next]_vars

-----------------------------------------------------------------------------
(* Properties.                                                             *)

(***************************************************************************)
(* A config stays cached while a snapshot owns it (OwnerCache): another    *)
(* snapshot's Release, or an acquire that met the entry while it was being *)
(* released, never removes or replaces it.  So neither of AddOwner's       *)
(* panics, "entry not found" and "entry has no owners", can happen.        *)
(* Nothing is cached for nobody (Release): an entry that nobody is at work *)
(* on has an owner.                                                        *)
(***************************************************************************)
OwnedStays ==
    /\ TypeOK
    /\ \A o \in Owner : \A k \in owns[o] :
            entries[k] # None /\ o \in owners[entries[k]]
    /\ \A k \in Config : entries[k] # None /\ lock[entries[k]] = None
            => owners[entries[k]] # {}

\* No config extends itself, through however many others.
Acyclic ==
    \E rank \in [Config -> 0 .. Cardinality(Config)] :
        \A k \in Config : \A x \in Range(extends[k]) : rank[x] < rank[k]

Closed(names) == \A k \in names : Range(extends[k]) \subseteq names

(***************************************************************************)
(* A snapshot gets what its own files say (isExpired): whatever other      *)
(* snapshots put into this entry, or into those of the configs it extends, *)
(* what LoadAndAcquire returns is made of the texts this snapshot sees.    *)
(* And it is made of all that it should be: of the configs that this one   *)
(* extends and, unless configs extend each other in a cycle, of all that   *)
(* those extend.                                                           *)
(***************************************************************************)
FreshForSnapshot ==
    [][\A t \in Thread :
            stack[t] # <<>> /\ Top(t).op = "acquire" /\ Len(stack'[t]) < Len(stack[t]) =>
                LET k == Top(t).config
                    parsed == value'[Top(t).entry].parsed
                IN  /\ parsed = Texts(owner[t], Names(parsed))
                    /\ {k} \cup Range(extends[k]) \subseteq Names(parsed)
                    /\ Acyclic => Closed(Names(parsed))]_vars

(***************************************************************************)
(* Locks are held while other configs are acquired.  No goroutine waits    *)
(* for itself for all that, whatever the configs extend: the cache is      *)
(* bypassed for what is on its own resolutionStack (getExtendedConfig).    *)
(* And goroutines never wait for each other unless configs extend each     *)
(* other in a cycle.                                                       *)
(***************************************************************************)
OnlyCircularWaits ==
    \A S \in SUBSET Thread :
        Deadlocked(S) => ~Acyclic /\ \A t \in Thread : S # {t}

(***************************************************************************)
(* What getExtendedConfig's comment has the bypass for: configs in a cycle *)
(* end in parseConfig's circularity error, and not in a deadlock.          *)
(***************************************************************************)
NoCircularDeadlock == ~ \E S \in SUBSET Thread : Deadlocked(S)
=============================================================================
