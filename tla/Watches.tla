------------------------------ MODULE Watches ------------------------------
(***************************************************************************)
(* What the session tells the client to watch (internal/project/watch.go,  *)
(* and updateWatch, updateWatches and updateContentMapperRegistrations of  *)
(* session.go).  Every snapshot update leaves a task in the background     *)
(* queue that compares the old snapshot's watches with the new one's: the  *)
(* globs of a watch that is new are counted in the registry and, when      *)
(* nobody had them before, registered with the client, which may fail;     *)
(* those of a watch that is gone are counted down and unregistered.  Tasks *)
(* of several updates run at once and in any order.  A snapshot that is    *)
(* adopted (adoptSnapshotChange) leaves no such task.                      *)
(*                                                                         *)
(* A snapshot has at most one watch in each of its slots (a config's root  *)
(* files, a project's files, its typings, the auto-imports).  A watch is   *)
(* known by its name, which the typings of all projects share, and a       *)
(* number, new whenever its globs are not its predecessor's; a clone that  *)
(* has the same globs gets the number 0 (Clone and Watchers of watch.go).  *)
(* An update changes one slot.                                             *)
(***************************************************************************)
EXTENDS Integers, FiniteSets

CONSTANTS
    Slot,
    Name,           \* of each slot's watches
    Glob,           \* numbers, in the order in which a watch lists them
    Extension,
    MaxUpdates,
    Concurrent,     \* several tasks at once
    Failing,        \* the client may fail, or answer too late
    Adopting        \* snapshots are adopted without a task

\* A watch is its number and its globs.  No watch at all has number -1.
NoWatch == [id |-> -1, globs |-> {}]

\* What a glob of a watch is registered as: the watch, and the glob's index.
WatcherID(s, w, g) == <<Name[s], w.id, Cardinality({h \in w.globs : h < g})>>
NoID == <<>>

VARIABLES
    updates,        \* how many snapshots there are besides the first
    slots,          \* the watches of each snapshot
    extensions,     \* each snapshot's content mapper extensions
    count, owner,   \* watchRegistry.entries: the count and the id of each glob
    pending,        \* watchRegistry.pending: name and number
    watched,        \* what the client has registered: each id's glob
    registration,   \* registeredContentMapperSnapshotID, and the extensions
    tasks

vars == <<updates, slots, extensions, count, owner, pending, watched, registration, tasks>>
snapshots == <<updates, slots, extensions>>
registry  == <<count, owner, pending>>

Init ==
    /\ updates = 0
    /\ slots = [n \in 0 .. MaxUpdates |-> [s \in Slot |-> NoWatch]]
    /\ extensions = [n \in 0 .. MaxUpdates |-> CHOOSE e \in Extension : TRUE]
    /\ count = [g \in Glob |-> 0] /\ owner = [g \in Glob |-> NoID]
    /\ pending = {} /\ watched = {}
    /\ registration = [id |-> 0, extensions |-> CHOOSE e \in Extension : TRUE]
    /\ tasks = {}

-----------------------------------------------------------------------------
(* Snapshots                                                               *)

NewTask(n, left) ==
    [n |-> n, at |-> "diff", left |-> left, slot |-> CHOOSE s \in Slot : TRUE,
     old |-> NoWatch, new |-> NoWatch, todo |-> {}, fresh |-> {}, failed |-> FALSE, removed |-> {}]

\* What the next snapshot has instead of a watch: none, another one with its
\* own number, or a clone with the same globs and the number 0.
Cloned(w) ==
    {NoWatch} \cup {[id |-> updates + 1, globs |-> gs] : gs \in (SUBSET Glob) \ {{}, w.globs}}
              \cup (IF w = NoWatch THEN {} ELSE {[w EXCEPT !.id = 0]})

NextSnapshot ==
    /\ updates < MaxUpdates
    /\ updates' = updates + 1
    /\ \E e \in Extension : extensions' = [extensions EXCEPT ![updates + 1] = e]
    /\ \E s \in Slot : \E w \in Cloned(slots[updates][s]) :
         slots' = [slots EXCEPT ![updates + 1] = [slots[updates] EXCEPT ![s] = w]]

updateSnapshot ==
    /\ Concurrent \/ tasks = {}
    /\ NextSnapshot
    /\ tasks' = tasks \cup {NewTask(updates + 1, Slot)}
    /\ UNCHANGED <<registry, watched, registration>>

adoptSnapshotChange ==
    /\ Adopting
    /\ NextSnapshot
    /\ UNCHANGED <<registry, watched, registration, tasks>>

-----------------------------------------------------------------------------
(* A task                                                                  *)

Step(t, u) == tasks' = (tasks \ {t}) \cup {u}

\* updateWatches takes the slots one after the other: a watch with another id
\* is updated, one with the same id only if an earlier attempt failed.
Diff(t) ==
    /\ t.at = "diff"
    /\ \E s \in t.left :
         LET old == slots[t.n - 1][s]
             new == slots[t.n][s]
             retry == old.id = new.id /\ <<Name[s], new.id>> \in pending
             rest == NewTask(t.n, t.left \ {s})
         IN  IF old.id = new.id /\ ~retry
               THEN Step(t, rest)
               ELSE Step(t, [rest EXCEPT !.at = IF new = NoWatch THEN "old" ELSE "acquire",
                                         !.slot = s, !.new = new,
                                         !.old = IF retry THEN NoWatch ELSE old,
                                         !.todo = IF new = NoWatch THEN old.globs ELSE new.globs])
    /\ UNCHANGED <<snapshots, registry, watched, registration>>

ID(t, g) == WatcherID(t.slot, t.new, g)

\* Acquire: the first count creates the entry, and is for the client to know.
IsNew(t, g) == count[g] = 0

Acquire(t) ==
    /\ t.at = "acquire"
    /\ \E g \in t.todo :
         /\ count' = [count EXCEPT ![g] = @ + 1]
         /\ owner' = IF count[g] = 0 THEN [owner EXCEPT ![g] = ID(t, g)] ELSE owner
         /\ LET left == t.todo \ {g}
                fresh == IF IsNew(t, g) THEN t.fresh \cup {g} ELSE t.fresh
            IN  Step(t, [t EXCEPT !.fresh = fresh,
                                  !.at = IF left = {} THEN "watch" ELSE "acquire",
                                  !.todo = IF left = {} THEN fresh ELSE left])
    /\ UNCHANGED <<snapshots, pending, watched, registration>>

\* WatchFiles of one glob; the same id again replaces what it stood for.  A
\* call that fails by its timeout may have reached the client all the same.
Watching(id, g) == {r \in watched : r[1] # id} \cup {<<id, g>>}

WatchFiles(t) ==
    /\ t.at = "watch"
    /\ \E g \in t.todo :
         \/ /\ watched' = Watching(ID(t, g), g)
            /\ Step(t, [t EXCEPT !.todo = @ \ {g}])
         \/ /\ Failing
            /\ watched' \in {watched, Watching(ID(t, g), g)}
            /\ Step(t, [t EXCEPT !.todo = @ \ {g}, !.failed = TRUE])
    /\ UNCHANGED <<snapshots, registry, registration>>

\* Mutant: the last count stays.
ReleaseKeepsLast(g) == count' = IF count[g] <= 1 THEN count ELSE [count EXCEPT ![g] = @ - 1]

\* Release of one glob: an entry that is not there is left alone, the last
\* count removes it and tells its id.
Release(g) == count' = IF count[g] = 0 THEN count ELSE [count EXCEPT ![g] = @ - 1]
RemovedIDs(g) == IF count[g] = 1 THEN {owner[g]} ELSE {}

\* After the calls the watch is not pending any more, unless one failed: then
\* the newly acquired globs are given back, one after the other.
ToOld(t) == [t EXCEPT !.at = "old", !.todo = t.old.globs]

Settle(t) ==
    /\ t.at = "watch" /\ t.todo = {}
    /\ IF t.failed
         THEN Step(t, [t EXCEPT !.at = "rollback", !.todo = t.fresh]) /\ UNCHANGED pending
         ELSE Step(t, ToOld(t)) /\ pending' = pending \ {<<Name[t.slot], t.new.id>>}
    /\ UNCHANGED <<snapshots, count, owner, watched, registration>>

Rollback(t) ==
    /\ t.at = "rollback"
    /\ IF t.todo = {}
         THEN Step(t, ToOld(t)) /\ pending' = pending \cup {<<Name[t.slot], t.new.id>>} /\ UNCHANGED count
         ELSE \E g \in t.todo : Release(g) /\ Step(t, [t EXCEPT !.todo = @ \ {g}]) /\ UNCHANGED pending
    /\ UNCHANGED <<snapshots, owner, watched, registration>>

\* The old watch's globs: what nobody has any more is not watched any more.
ReleaseOld(t) ==
    /\ t.at = "old"
    /\ IF t.todo = {}
         THEN Step(t, [t EXCEPT !.at = "unwatch"]) /\ UNCHANGED count
         ELSE \E g \in t.todo :
                /\ Release(g)
                /\ Step(t, [t EXCEPT !.todo = @ \ {g}, !.removed = @ \cup RemovedIDs(g)])
    /\ UNCHANGED <<snapshots, owner, pending, watched, registration>>

UnwatchFiles(t) ==
    /\ t.at = "unwatch"
    /\ IF t.removed = {}
         THEN Step(t, NewTask(t.n, t.left)) /\ UNCHANGED watched
         ELSE \E id \in t.removed :
                /\ Step(t, [t EXCEPT !.removed = @ \ {id}])
                /\ \/ watched' = {r \in watched : r[1] # id}
                   \/ Failing /\ UNCHANGED watched
    /\ UNCHANGED <<snapshots, registry, registration>>

\* Mutant: only the same snapshot is stale.
StaleSame(t) == t.n = registration.id

\* updateContentMapperRegistrations ends the task.  An older snapshot's
\* extensions never replace a newer one's; a failure leaves the state as it was.
Stale(t) == t.n <= registration.id

Register(t) ==
    /\ t.at = "diff" /\ t.left = {}
    /\ \/ registration' = IF Stale(t) THEN registration
                            ELSE [id |-> t.n, extensions |-> extensions[t.n]]
       \/ Failing /\ ~Stale(t) /\ extensions[t.n] # registration.extensions /\ UNCHANGED registration
    /\ tasks' = tasks \ {t}
    /\ UNCHANGED <<snapshots, registry, watched>>

-----------------------------------------------------------------------------
Task(t) ==
    \/ Diff(t) \/ Acquire(t) \/ WatchFiles(t) \/ Settle(t) \/ Rollback(t)
    \/ ReleaseOld(t) \/ UnwatchFiles(t) \/ Register(t)

\* No more updates, and no task is left.
Idle == updates = MaxUpdates /\ tasks = {} /\ UNCHANGED vars

Next == updateSnapshot \/ adoptSnapshotChange \/ (\E t \in tasks : Task(t)) \/ Idle

Spec == Init /\ [][Next]_vars

-----------------------------------------------------------------------------
(* Properties                                                              *)

\* The registry, the client's registrations and the tasks have their types.
TypeOK ==
    /\ count \in [Glob -> Nat] /\ pending \subseteq {Name[s] : s \in Slot} \X (0 .. MaxUpdates)
    /\ \A g \in Glob : count[g] > 0 => owner[g] # NoID
    /\ \A r \in watched : r[2] \in Glob
    /\ \A t \in tasks : t.n \in 1 .. updates /\ t.left \subseteq Slot /\ t.todo \subseteq Glob

\* The watches of the current snapshot that have g and are not to be retried.
Users(g) == {s \in Slot : LET w == slots[updates][s] IN g \in w.globs /\ <<Name[s], w.id>> \notin pending}

Watched(g) == \E r \in watched : r[2] = g

\* watchRegistry "tracks the current watch globs and how many individual
\* WatchedFiles reference each glob": once the tasks are done, each glob's
\* count is the number of the current snapshot's watches that have it, except
\* what is to be retried; and the client watches those globs and no others:
\* WatchFiles is sent with the first reference, UnwatchFiles with the last.
WatchesExact ==
    tasks = {} => \A g \in Glob :
        /\ count[g] = Cardinality(Users(g))
        /\ Watched(g) <=> Users(g) # {}

\* Tasks that finish out of order never put an older snapshot's extensions
\* back (updateContentMapperRegistrations), whatever fails.
RegistrationForward ==
    [][registration'.id >= registration.id
       /\ registration'.extensions = extensions[registration'.id]]_vars
============================================================================
