--------------------------- MODULE RefCountCache ---------------------------
(***************************************************************************)
(* The cache of parsed source files, shared by all snapshots and programs  *)
(* (internal/project/refcountcache.go, parsecache.go): a concurrent map    *)
(* whose entries have a lock and a count of references.  The map and the   *)
(* lock are taken one after the other, so an entry may be dead by the time *)
(* its lock is there.  A value is produced with the new entry's lock held, *)
(* and producing it may fail (AcquireOrError).                             *)
(*                                                                         *)
(* A holder is one reference: the goroutine that acquires it, and whoever  *)
(* drops it later.  DisableDeletion, which is for tests, is FALSE.         *)
(***************************************************************************)
EXTENDS Integers, FiniteSets

CONSTANTS Key, Holder, None,
    Entry       \* identities, more than there are keys and holders

VARIABLES
    entries,          \* the SyncMap: key to entry
    lock, refCount,   \* an entry's mu and refCount
    pc, op, key, at   \* of each holder: where it is, in which call, on what

vars == <<entries, lock, refCount, pc, op, key, at>>

Acquires == {"Acquire", "AcquireOrError"}
Calls    == Acquires \cup {"AcquireExisting", "Ref"}

\* The map and the holders have their types, and no count of references goes
\* below zero, by a failed produce or by a Deref.
TypeOK ==
    /\ entries \in [Key -> Entry \cup {None}]
    /\ lock \in [Entry -> Holder \cup {None}]
    /\ refCount \in [Entry -> Nat]
    /\ pc \in [Holder -> {"free", "load", "lock", "produce", "held", "deref", "dereflock"}]
    /\ op \in [Holder -> Calls]
    /\ key \in [Holder -> Key \cup {None}]
    /\ at \in [Holder -> Entry \cup {None}]

Init ==
    /\ entries = [k \in Key |-> None]
    /\ lock = [e \in Entry |-> None]
    /\ refCount = [e \in Entry |-> 0]
    /\ pc = [h \in Holder |-> "free"]
    /\ op = [h \in Holder |-> "Acquire"]
    /\ key = [h \in Holder |-> None]
    /\ at = [h \in Holder |-> None]

Go(h, place) == pc' = [pc EXCEPT ![h] = place]

\* The call is over, with no reference.
Free(h) ==
    /\ Go(h, "free")
    /\ op' = [op EXCEPT ![h] = "Acquire"]
    /\ key' = [key EXCEPT ![h] = None]
    /\ at' = [at EXCEPT ![h] = None]

Held(k) == {h \in Holder : pc[h] = "held" /\ key[h] = k}

-----------------------------------------------------------------------------
(* Taking a reference.                                                     *)

\* A call begins.  Ref is for files of a program whose own references stay
\* meanwhile (Project.CreateProgram).
Begin(h, o, k) ==
    /\ pc[h] = "free"
    /\ o = "Ref" => Held(k) # {}
    /\ Go(h, "load")
    /\ op' = [op EXCEPT ![h] = o]
    /\ key' = [key EXCEPT ![h] = k]
    /\ UNCHANGED <<entries, lock, refCount, at>>

\* &refCountCacheEntry: an entry nobody has a reference to.
NewEntry == CHOOSE e \in Entry :
    (\A k \in Key : entries[k] # e) /\ (\A h \in Holder : at[h] # e)

\* LoadOrStore, where the key is not there: a new entry, locked, with count 1.
StoreNew(h) ==
    /\ pc[h] = "load" /\ op[h] \in Acquires /\ entries[key[h]] = None
    /\ entries' = [entries EXCEPT ![key[h]] = NewEntry]
    /\ lock' = [lock EXCEPT ![NewEntry] = h]
    /\ refCount' = [refCount EXCEPT ![NewEntry] = 1]
    /\ at' = [at EXCEPT ![h] = NewEntry]
    /\ Go(h, "produce")
    /\ UNCHANGED <<op, key>>

\* LoadOrStore or Load, where it is.
LoadExisting(h) ==
    /\ pc[h] = "load" /\ entries[key[h]] # None
    /\ at' = [at EXCEPT ![h] = entries[key[h]]]
    /\ Go(h, "lock")
    /\ UNCHANGED <<entries, lock, refCount, op, key>>

\* AcquireExisting, where it is not; Ref would panic (CountExact).
LoadNothing(h) ==
    /\ pc[h] = "load" /\ op[h] = "AcquireExisting" /\ entries[key[h]] = None
    /\ Free(h)
    /\ UNCHANGED <<entries, lock, refCount>>

\* Mutant: the count is not looked at again under the lock.
DeadNever(e) == FALSE

\* The entry was deleted while its lock was being acquired.
Dead(e) == refCount[e] <= 0

\* The lock is there: one reference more,
LockLive(h) ==
    /\ pc[h] = "lock" /\ lock[at[h]] = None /\ ~Dead(at[h])
    /\ refCount' = [refCount EXCEPT ![at[h]] = @ + 1]
    /\ Go(h, "held")
    /\ UNCHANGED <<entries, lock, op, key, at>>

\* or a second try,
LockDead(h) ==
    /\ pc[h] = "lock" /\ lock[at[h]] = None /\ Dead(at[h])
    /\ op[h] \in Acquires
    /\ Go(h, "load")
    /\ at' = [at EXCEPT ![h] = None]
    /\ UNCHANGED <<entries, lock, refCount, op, key>>

\* or nothing.
LockNothing(h) ==
    /\ pc[h] = "lock" /\ lock[at[h]] = None /\ Dead(at[h])
    /\ op[h] = "AcquireExisting"
    /\ Free(h)
    /\ UNCHANGED <<entries, lock, refCount>>

\* parse, or a produce that succeeds.
Produce(h) ==
    /\ pc[h] = "produce"
    /\ lock' = [lock EXCEPT ![at[h]] = None]
    /\ Go(h, "held")
    /\ UNCHANGED <<entries, refCount, op, key, at>>

ZeroCount(h) == [refCount EXCEPT ![at[h]] = 0]

\* A produce that fails: the speculative entry is undone.
ProduceError(h) ==
    /\ pc[h] = "produce" /\ op[h] = "AcquireOrError"
    /\ refCount' = ZeroCount(h)
    /\ entries' = [entries EXCEPT ![key[h]] = None]
    /\ lock' = [lock EXCEPT ![at[h]] = None]
    /\ Free(h)

-----------------------------------------------------------------------------
(* Dropping it.                                                            *)

\* Deref begins; whoever is in Ref on the key still has somebody to rely on.
Deref(h) ==
    /\ pc[h] = "held"
    /\ (\E g \in Holder : pc[g] \in {"load", "lock"} /\ op[g] = "Ref" /\ key[g] = key[h])
            => Held(key[h]) # {h}
    /\ Go(h, "deref")
    /\ at' = [at EXCEPT ![h] = None]
    /\ UNCHANGED <<entries, lock, refCount, op, key>>

DerefLoad(h) ==
    /\ pc[h] = "deref" /\ entries[key[h]] # None
    /\ at' = [at EXCEPT ![h] = entries[key[h]]]
    /\ Go(h, "dereflock")
    /\ UNCHANGED <<entries, lock, refCount, op, key>>

\* The reference that goes is the last.
Last(e) == refCount[e] <= 1

DerefLock(h) ==
    /\ pc[h] = "dereflock" /\ lock[at[h]] = None
    /\ refCount' = [refCount EXCEPT ![at[h]] = @ - 1]
    /\ entries' = IF Last(at[h]) THEN [entries EXCEPT ![key[h]] = None] ELSE entries
    /\ Free(h)
    /\ UNCHANGED lock

Work(h) ==
    \/ StoreNew(h) \/ LoadExisting(h) \/ LoadNothing(h)
    \/ LockLive(h) \/ LockDead(h) \/ LockNothing(h)
    \/ Produce(h) \/ ProduceError(h) \/ DerefLoad(h) \/ DerefLock(h)

Next ==
    \E h \in Holder :
        \/ \E o \in Calls, k \in Key : Begin(h, o, k)
        \/ Work(h)
        \/ Deref(h)

Spec == Init /\ [][Next]_vars

-----------------------------------------------------------------------------
(* Properties.                                                             *)

\* The references that are counted in the entry of k.
Counted(k) == {h \in Holder : key[h] = k /\ pc[h] \in {"produce", "held", "deref", "dereflock"}}

(***************************************************************************)
(* All who hold a reference to a key share one entry, and so one value, it *)
(* stays in the map for as long as they do, and its count is theirs        *)
(* (Acquire): no retry, failure or Deref at the same time loses, doubles   *)
(* or replaces it, so that "cache entry not found" is never reached and    *)
(* nothing is parsed twice while it is held.  A failed produce is not      *)
(* cached (AcquireOrError), and an entry that left the map is seen to be   *)
(* dead by whoever still waits for its lock.                               *)
(***************************************************************************)
CountExact ==
    /\ TypeOK
    /\ \A k \in Key :
        /\ Counted(k) = {} <=> entries[k] = None
        /\ Counted(k) # {} => refCount[entries[k]] = Cardinality(Counted(k))
        /\ \A h \in Counted(k) : pc[h] # "deref" => at[h] = entries[k]
    /\ \A h \in Holder : pc[h] = "lock" =>
            (at[h] = entries[key[h]] <=> refCount[at[h]] > 0)
=============================================================================
