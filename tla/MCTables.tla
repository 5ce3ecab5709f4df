------------------------------ MODULE MCTables ------------------------------
(***************************************************************************)
(* The three tables that the snapshots of a session share, each with       *)
(* counts or owners, for TLC: extended configs, parsed files, and what the *)
(* client watches.  A behaviour is of one of them, as part says, while the *)
(* others stay as they were.  The watches are updated one task after the   *)
(* other by a client that answers, or by tasks at once, which may fail.    *)
(***************************************************************************)
EXTENDS ExtendedConfigs, TLC

CONSTANTS a, b, d, o1, o2, Key, Holder, FileEntry
\* The watches that are updated one task after the other, and at once.
CONSTANTS Slot, SlotName, Glob, MaxUpdates, SlotAtOnce, GlobAtOnce, ExtensionAtOnce, MaxAtOnce

\* There is always an entry that nobody has a reference to.
ASSUME FilesAssumption ==
    /\ IsFiniteSet(Key) /\ IsFiniteSet(Holder) /\ IsFiniteSet(FileEntry)
    /\ Cardinality(FileEntry) > Cardinality(Key) + Cardinality(Holder)
    /\ None \notin Key \cup Holder \cup FileEntry

ASSUME WatchesAssumption == MaxUpdates \in Nat /\ MaxAtOnce \in Nat

\* a extends b, which extends d; or a and b extend each other.
Chain == (a :> <<b>>) @@ (b :> <<d>>) @@ (d :> <<>>)
Cycle == (a :> <<b>>) @@ (b :> <<a>>) @@ (d :> <<>>)
ChainAndCycle == {Chain, Cycle}

\* Two snapshots that see different texts of d.
Edited == (o1 :> ((a :> 1) @@ (b :> 1) @@ (d :> 1))) @@ (o2 :> ((a :> 1) @@ (b :> 1) @@ (d :> 2)))

\* Watches that share their name, as the typings of several projects do.
OneName == [s \in Slot \cup SlotAtOnce |-> "typings"]

VARIABLES
    part,
    fileEntries, fileLock, refCount, pc, op, key, at,
    updates, slots, extensions, count, globOwner, pending, watched, registration, tasks

fileVars  == <<fileEntries, fileLock, refCount, pc, op, key, at>>
watchVars == <<updates, slots, extensions, count, globOwner, pending, watched, registration,
               tasks>>

Files == INSTANCE RefCountCache WITH Entry <- FileEntry, entries <- fileEntries, lock <- fileLock

InOrder == INSTANCE Watches WITH
    Name <- SlotName, Extension <- {1}, Concurrent <- FALSE, Failing <- FALSE, Adopting <- FALSE, owner <- globOwner

AtOnce == INSTANCE Watches WITH
    Slot <- SlotAtOnce, Name <- SlotName, Glob <- GlobAtOnce, Extension <- ExtensionAtOnce, MaxUpdates <- MaxAtOnce,
    Concurrent <- TRUE, Failing <- TRUE, Adopting <- TRUE, owner <- globOwner

MCInit ==
    /\ part \in {"configs", "files", "in order", "at once"}
    /\ Init /\ (part # "configs" => extends = Chain)
    /\ Files!Init
    /\ IF part = "at once" THEN AtOnce!Init ELSE InOrder!Init

MCNext ==
    /\ part' = part
    /\ \/ /\ part = "configs" /\ Next /\ UNCHANGED <<fileVars, watchVars>>
       \/ part = "files" /\ Files!Next /\ UNCHANGED <<vars, watchVars>>
       \/ part = "in order" /\ InOrder!Next /\ UNCHANGED <<vars, fileVars>>
       \/ part = "at once" /\ AtOnce!Next /\ UNCHANGED <<vars, fileVars>>

MCSpec == MCInit /\ [][MCNext]_<<part, vars, fileVars, watchVars>>

-----------------------------------------------------------------------------
(* The properties of RefCountCache and Watches.                            *)

\* All who hold a reference to a file share one entry, it stays in the map for
\* as long as they do, and its count is theirs (Acquire): no retry, failure or
\* Deref at the same time loses, doubles or replaces it, and an entry that left
\* the map is seen to be dead by whoever still waits for its lock.
CountExact == Files!CountExact

\* Once updateWatches is done, one task after the other, each glob's count is
\* that of the current snapshot's watches with it (watchRegistry), and the
\* client watches exactly those globs.  With tasks at once, the registry and
\* what is registered have their types.
WatchesExact ==
    IF part = "at once" THEN AtOnce!TypeOK ELSE InOrder!TypeOK /\ InOrder!WatchesExact

\* Tasks that finish out of order never put an older snapshot's extensions
\* back (updateContentMapperRegistrations), whatever fails.
RegistrationForward == AtOnce!RegistrationForward
=============================================================================
