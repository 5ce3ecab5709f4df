----------------------------- MODULE TableProofs -----------------------------
(***************************************************************************)
(* Proofs about the tables that the snapshots of a session share: the      *)
(* cache of parsed files, for every set of files, of references to them    *)
(* and of entries; the cache of extended configs, for every set of         *)
(* configs, of graphs between them, of snapshots and of goroutines; and    *)
(* what the client watches, for every set of slots and of globs and for    *)
(* any number of updates.                                                  *)
(***************************************************************************)
EXTENDS MCTables, FiniteSetTheorems, WellFoundedInduction, TLAPS

\* A set with an element for each element of S at most.
LEMMA ImageBound ==
    ASSUME NEW S, IsFiniteSet(S), NEW f, f = [x \in S |-> f[x]]
    PROVE  LET T == {f[x] : x \in S} IN IsFiniteSet(T) /\ Cardinality(T) <= Cardinality(S)
<1> DEFINE T == {f[x] : x \in S}
<1>1. f \in Surjection(S, T)
  BY DEF Surjection
<1> QED
  BY <1>1, FS_Surjection

-----------------------------------------------------------------------------
(* The cache of parsed files.                                              *)

\* Where a holder is, and what it has in its hands there.
PlaceInv ==
    \A h \in Holder :
        /\ pc[h] = "free" <=> key[h] = None
        /\ at[h] = None <=> pc[h] \in {"free", "load", "deref"}

\* An entry's lock is held by whoever produces its value.
EntryLockInv ==
    \A e \in FileEntry, h \in Holder : fileLock[e] = h <=> pc[h] = "produce" /\ at[h] = e

\* An entry is in the map once, and those who are at it, dead or not, came
\* to it by the same key.
MapInv ==
    /\ \A j, k \in Key : fileEntries[j] = fileEntries[k] /\ fileEntries[j] # None => j = k
    /\ \A h \in Holder : at[h] # None => \A k \in Key \ {key[h]} : fileEntries[k] # at[h]

\* The count is that of the references.
CountInv ==
    \A k \in Key :
        /\ fileEntries[k] = None <=> Files!Counted(k) = {}
        /\ fileEntries[k] # None => refCount[fileEntries[k]] = Cardinality(Files!Counted(k))

\* Who is counted is at the entry of its key, alone while it produces, and
\* who waits for a lock can tell by the count whether the entry is there.
ShareInv ==
    \A h \in Holder :
        /\ pc[h] \in {"produce", "held", "dereflock"} => at[h] = fileEntries[key[h]]
        /\ pc[h] = "produce" => Files!Counted(key[h]) = {h}
        /\ pc[h] = "lock" => (at[h] = fileEntries[key[h]] <=> refCount[at[h]] > 0)

FilesInv == Files!TypeOK /\ PlaceInv /\ EntryLockInv /\ MapInv /\ CountInv /\ ShareInv

\* There is a new entry, and nobody is at it.
LEMMA NewEntryIsNew ==
    ASSUME Files!TypeOK
    PROVE  /\ Files!NewEntry \in FileEntry
           /\ \A k \in Key : fileEntries[k] # Files!NewEntry
           /\ \A h \in Holder : at[h] # Files!NewEntry
<1> DEFINE U == {fileEntries[k] : k \in Key} \cup {at[h] : h \in Holder}
<1>1. /\ IsFiniteSet({fileEntries[k] : k \in Key})
      /\ Cardinality({fileEntries[k] : k \in Key}) <= Cardinality(Key)
  <2>1. fileEntries = [k \in Key |-> fileEntries[k]]
    BY DEF Files!TypeOK
  <2> QED
    BY <2>1, ImageBound, FilesAssumption
<1>2. /\ IsFiniteSet({at[h] : h \in Holder})
      /\ Cardinality({at[h] : h \in Holder}) <= Cardinality(Holder)
  <2>1. at = [h \in Holder |-> at[h]]
    BY DEF Files!TypeOK
  <2> QED
    BY <2>1, ImageBound, FilesAssumption
<1>3. IsFiniteSet(U) /\ Cardinality(U) <= Cardinality(Key) + Cardinality(Holder)
  <2> DEFINE A == {fileEntries[k] : k \in Key}
             B == {at[h] : h \in Holder}
  <2> HIDE DEF A, B
  <2>1. IsFiniteSet(A \cup B) /\ Cardinality(A \cup B) = Cardinality(A) + Cardinality(B) - Cardinality(A \cap B)
    BY <1>1, <1>2, FS_Union DEF A, B
  <2>2. Cardinality(A \cap B) \in Nat
    BY <1>1, FS_Intersection, FS_CardinalityType DEF A
  <2>3. Cardinality(A) \in Nat /\ Cardinality(B) \in Nat
    BY <1>1, <1>2, FS_CardinalityType DEF A, B
  <2>4. Cardinality(Key) \in Nat /\ Cardinality(Holder) \in Nat
    BY FS_CardinalityType, FilesAssumption
  <2>5. Cardinality(A) <= Cardinality(Key) /\ Cardinality(B) <= Cardinality(Holder)
    BY <1>1, <1>2 DEF A, B
  <2>6. U = A \cup B
    BY DEF A, B
  <2> QED
    BY <2>1, <2>2, <2>3, <2>4, <2>5, <2>6
<1>4. ~(FileEntry \subseteq U)
  <2> HIDE DEF U
  <2> SUFFICES ASSUME FileEntry \subseteq U PROVE FALSE
    OBVIOUS
  <2>1. Cardinality(FileEntry) <= Cardinality(U)
    BY <1>3, FS_Subset
  <2>2. Cardinality(FileEntry) \in Nat /\ Cardinality(U) \in Nat /\ Cardinality(Key) \in Nat
          /\ Cardinality(Holder) \in Nat
    BY <1>3, FS_CardinalityType, FilesAssumption
  <2> QED
    BY <1>3, <2>1, <2>2, FilesAssumption
<1>5. \E e \in FileEntry : (\A k \in Key : fileEntries[k] # e) /\ (\A h \in Holder : at[h] # e)
  BY <1>4
<1> QED
  BY <1>5 DEF Files!NewEntry

\* The references to a file are finitely many.
LEMMA CountedFinite ==
    \A k : /\ IsFiniteSet(Files!Counted(k)) /\ Cardinality(Files!Counted(k)) \in Nat
           /\ Cardinality(Files!Counted(k)) = 0 <=> Files!Counted(k) = {}
<1> TAKE k
<1>1. Files!Counted(k) \in SUBSET Holder
  BY DEF Files!Counted
<1>2. IsFiniteSet(Files!Counted(k))
  BY <1>1, FS_Subset, FilesAssumption
<1> QED
  BY <1>2, FS_CardinalityType, FS_EmptySet

LEMMA FilesBegin ==
    ASSUME FilesInv, NEW h \in Holder, NEW o \in Files!Calls, NEW k \in Key, Files!Begin(h, o, k)
    PROVE  FilesInv'
<1> USE FilesAssumption DEF FilesInv, Files!TypeOK, PlaceInv
<1>1. Files!TypeOK'
  BY DEF Files!Begin, Files!Go, Files!Calls, Files!Acquires
<1>2. PlaceInv'
  BY DEF Files!Begin, Files!Go
<1>3. \A j \in Key : Files!Counted(j)' = Files!Counted(j)
  BY DEF Files!Begin, Files!Go, Files!Counted
<1>4. EntryLockInv'
  BY <1>3 DEF Files!Begin, Files!Go, EntryLockInv
<1>5. MapInv'
  BY <1>3 DEF Files!Begin, Files!Go, MapInv, CountInv, ShareInv
<1>6. CountInv'
  BY <1>3 DEF Files!Begin, Files!Go, CountInv, MapInv, ShareInv
<1>7. ShareInv'
  BY <1>3 DEF Files!Begin, Files!Go, ShareInv, CountInv, MapInv, EntryLockInv
<1> QED
  BY <1>1, <1>2, <1>4, <1>5, <1>6, <1>7

LEMMA FilesStoreNew ==
    ASSUME FilesInv, NEW h \in Holder, Files!StoreNew(h)
    PROVE  FilesInv'
<1> USE FilesAssumption DEF FilesInv, Files!TypeOK, PlaceInv
<1>0. /\ Files!NewEntry \in FileEntry
      /\ \A j \in Key : fileEntries[j] # Files!NewEntry
      /\ \A g \in Holder : at[g] # Files!NewEntry
  BY NewEntryIsNew
<1>1. Files!TypeOK'
  BY <1>0 DEF Files!StoreNew, Files!Go, Files!Calls, Files!Acquires
<1>2. PlaceInv'
  BY <1>0 DEF Files!StoreNew, Files!Go
<1>3. \A j \in Key : Files!Counted(j)' = IF j = key[h] THEN Files!Counted(j) \cup {h} ELSE Files!Counted(j)
  BY DEF Files!StoreNew, Files!Go, Files!Counted
<1>4. EntryLockInv'
  BY <1>0, <1>3 DEF Files!StoreNew, Files!Go, EntryLockInv
<1>5. MapInv'
  BY <1>0, <1>3 DEF Files!StoreNew, Files!Go, MapInv, CountInv, ShareInv
<1>6. CountInv'
  <2>0. PICK kh \in Key : kh = key[h]
    BY DEF Files!StoreNew
  <2>1. /\ fileEntries' = [fileEntries EXCEPT ![key[h]] = Files!NewEntry] /\ key[h] \in Key
        /\ refCount' = [refCount EXCEPT ![Files!NewEntry] = 1] /\ fileEntries[key[h]] = None
    BY DEF Files!StoreNew
  <2>2. Files!Counted(kh)' = {h}
    BY <2>0, <1>3, <2>1 DEF CountInv
  <2>3. Cardinality(Files!Counted(kh)') = 1
    BY <2>0, <2>2, FS_Singleton
  <2>4. ASSUME NEW j \in Key, j # key[h]
        PROVE  fileEntries'[j] = fileEntries[j] /\ Files!Counted(j)' = Files!Counted(j)
                 /\ (fileEntries[j] # None => refCount'[fileEntries[j]] = refCount[fileEntries[j]])
    BY <2>0, <1>0, <1>3, <2>1, <2>4
  <2>5. fileEntries'[kh] = Files!NewEntry /\ refCount'[Files!NewEntry] = 1 /\ Files!NewEntry # None
    BY <1>0, <2>0, <2>1
  <2>6. ASSUME NEW j \in Key
        PROVE  (/\ fileEntries[j] = None <=> Files!Counted(j) = {}
                /\ fileEntries[j] # None => refCount[fileEntries[j]] = Cardinality(Files!Counted(j)))'
    <3>1. CASE j = kh
      BY <2>2, <2>3, <2>5, <3>1
    <3>2. CASE j # kh
      BY <2>0, <2>4, <3>2 DEF CountInv
    <3> QED
      BY <3>1, <3>2
  <2> QED
    BY <2>6 DEF CountInv
<1>7. ShareInv'
  BY <1>0, <1>3 DEF Files!StoreNew, Files!Go, ShareInv, CountInv, MapInv, EntryLockInv
<1> QED
  BY <1>1, <1>2, <1>4, <1>5, <1>6, <1>7

LEMMA FilesLoadExisting ==
    ASSUME FilesInv, NEW h \in Holder, Files!LoadExisting(h)
    PROVE  FilesInv'
<1> USE FilesAssumption DEF FilesInv, Files!TypeOK, PlaceInv
<1>1. Files!TypeOK'
  BY DEF Files!LoadExisting, Files!Go, Files!Calls, Files!Acquires
<1>2. PlaceInv'
  BY DEF Files!LoadExisting, Files!Go
<1>3. \A j \in Key : Files!Counted(j)' = Files!Counted(j)
  BY DEF Files!LoadExisting, Files!Go, Files!Counted
<1>4. EntryLockInv'
  BY <1>3 DEF Files!LoadExisting, Files!Go, EntryLockInv
<1>5. MapInv'
  BY <1>3 DEF Files!LoadExisting, Files!Go, MapInv, CountInv, ShareInv
<1>6. CountInv'
  BY <1>3 DEF Files!LoadExisting, Files!Go, CountInv, MapInv, ShareInv
<1>7. ShareInv'
  <2>1. key[h] \in Key /\ refCount[fileEntries[key[h]]] > 0
    BY CountedFinite DEF Files!LoadExisting, CountInv
  <2> QED
    BY <1>3, <2>1 DEF Files!LoadExisting, Files!Go, ShareInv
<1> QED
  BY <1>1, <1>2, <1>4, <1>5, <1>6, <1>7

LEMMA FilesLoadNothing ==
    ASSUME FilesInv, NEW h \in Holder, Files!LoadNothing(h)
    PROVE  FilesInv'
<1> USE FilesAssumption DEF FilesInv, Files!TypeOK, PlaceInv
<1>1. Files!TypeOK'
  BY DEF Files!LoadNothing, Files!Free, Files!Go, Files!Calls, Files!Acquires
<1>2. PlaceInv'
  BY DEF Files!LoadNothing, Files!Free, Files!Go
<1>3. \A j \in Key : Files!Counted(j)' = Files!Counted(j)
  BY DEF Files!LoadNothing, Files!Free, Files!Go, Files!Counted
<1>4. EntryLockInv'
  BY <1>3 DEF Files!LoadNothing, Files!Free, Files!Go, EntryLockInv
<1>5. MapInv'
  BY <1>3 DEF Files!LoadNothing, Files!Free, Files!Go, MapInv, CountInv, ShareInv
<1>6. CountInv'
  BY <1>3 DEF Files!LoadNothing, Files!Free, Files!Go, CountInv, MapInv, ShareInv
<1>7. ShareInv'
  BY <1>3 DEF Files!LoadNothing, Files!Free, Files!Go, ShareInv, CountInv, MapInv, EntryLockInv
<1> QED
  BY <1>1, <1>2, <1>4, <1>5, <1>6, <1>7

LEMMA FilesLockLive ==
    ASSUME FilesInv, NEW h \in Holder, Files!LockLive(h)
    PROVE  FilesInv'
<1> USE FilesAssumption DEF FilesInv, Files!TypeOK, PlaceInv
<1>1. Files!TypeOK'
  BY DEF Files!LockLive, Files!Go, Files!Dead, Files!Calls, Files!Acquires
<1>2. PlaceInv'
  BY DEF Files!LockLive, Files!Go, Files!Dead
<1>3. \A j \in Key : Files!Counted(j)' = IF j = key[h] THEN Files!Counted(j) \cup {h} ELSE Files!Counted(j)
  BY DEF Files!LockLive, Files!Go, Files!Dead, Files!Counted
<1>4. EntryLockInv'
  BY <1>3 DEF Files!LockLive, Files!Go, Files!Dead, EntryLockInv
<1>5. MapInv'
  BY <1>3 DEF Files!LockLive, Files!Go, Files!Dead, MapInv, CountInv, ShareInv
<1>6. CountInv'
  <2>0. PICK kh \in Key : kh = key[h]
    BY DEF Files!LockLive
  <2>1. /\ at[h] = fileEntries[key[h]] /\ at[h] \in FileEntry /\ key[h] \in Key
        /\ fileEntries' = fileEntries /\ refCount' = [refCount EXCEPT ![at[h]] = @ + 1]
    BY DEF Files!LockLive, Files!Dead, ShareInv
  <2>2. h \notin Files!Counted(key[h])
    BY DEF Files!LockLive, Files!Counted
  <2>3. Cardinality(Files!Counted(kh)') = Cardinality(Files!Counted(key[h])) + 1
    <3>1. Files!Counted(kh)' = Files!Counted(kh) \cup {h} /\ h \notin Files!Counted(kh)
      BY <1>3, <2>0, <2>2
    <3>2. Cardinality(Files!Counted(kh) \cup {h}) = Cardinality(Files!Counted(kh)) + 1
      BY <3>1, CountedFinite, FS_AddElement
    <3> QED
      BY <2>0, <3>1, <3>2
  <2>4. refCount'[fileEntries[key[h]]] = Cardinality(Files!Counted(kh)')
    BY <2>0, <2>1, <2>3 DEF CountInv
  <2>5. Files!Counted(kh)' # {}
    BY <2>0, <1>3, <2>1
  <2>6. ASSUME NEW j \in Key, j # key[h]
        PROVE  Files!Counted(j)' = Files!Counted(j)
                 /\ (fileEntries[j] # None => refCount'[fileEntries[j]] = refCount[fileEntries[j]])
    BY <2>0, <1>3, <2>1, <2>6 DEF MapInv
  <2> QED
    BY <2>0, <2>1, <2>4, <2>5, <2>6 DEF CountInv
<1>7. ShareInv'
  BY <1>3 DEF Files!LockLive, Files!Go, Files!Dead, ShareInv, CountInv, MapInv, EntryLockInv
<1> QED
  BY <1>1, <1>2, <1>4, <1>5, <1>6, <1>7

LEMMA FilesLockDead ==
    ASSUME FilesInv, NEW h \in Holder, Files!LockDead(h)
    PROVE  FilesInv'
<1> USE FilesAssumption DEF FilesInv, Files!TypeOK, PlaceInv
<1>1. Files!TypeOK'
  BY DEF Files!LockDead, Files!Go, Files!Dead, Files!Calls, Files!Acquires
<1>2. PlaceInv'
  BY DEF Files!LockDead, Files!Go, Files!Dead
<1>3. \A j \in Key : Files!Counted(j)' = Files!Counted(j)
  BY DEF Files!LockDead, Files!Go, Files!Dead, Files!Counted
<1>4. EntryLockInv'
  BY <1>3 DEF Files!LockDead, Files!Go, Files!Dead, EntryLockInv
<1>5. MapInv'
  BY <1>3 DEF Files!LockDead, Files!Go, Files!Dead, MapInv, CountInv, ShareInv
<1>6. CountInv'
  BY <1>3 DEF Files!LockDead, Files!Go, Files!Dead, CountInv, MapInv, ShareInv
<1>7. ShareInv'
  BY <1>3 DEF Files!LockDead, Files!Go, Files!Dead, ShareInv, CountInv, MapInv, EntryLockInv
<1> QED
  BY <1>1, <1>2, <1>4, <1>5, <1>6, <1>7

LEMMA FilesLockNothing ==
    ASSUME FilesInv, NEW h \in Holder, Files!LockNothing(h)
    PROVE  FilesInv'
<1> USE FilesAssumption DEF FilesInv, Files!TypeOK, PlaceInv
<1>1. Files!TypeOK'
  BY DEF Files!LockNothing, Files!Free, Files!Go, Files!Dead, Files!Calls, Files!Acquires
<1>2. PlaceInv'
  BY DEF Files!LockNothing, Files!Free, Files!Go, Files!Dead
<1>3. \A j \in Key : Files!Counted(j)' = Files!Counted(j)
  BY DEF Files!LockNothing, Files!Free, Files!Go, Files!Dead, Files!Counted
<1>4. EntryLockInv'
  BY <1>3 DEF Files!LockNothing, Files!Free, Files!Go, Files!Dead, EntryLockInv
<1>5. MapInv'
  BY <1>3 DEF Files!LockNothing, Files!Free, Files!Go, Files!Dead, MapInv, CountInv, ShareInv
<1>6. CountInv'
  BY <1>3 DEF Files!LockNothing, Files!Free, Files!Go, Files!Dead, CountInv, MapInv, ShareInv
<1>7. ShareInv'
  BY <1>3 DEF Files!LockNothing, Files!Free, Files!Go, Files!Dead, ShareInv, CountInv, MapInv, EntryLockInv
<1> QED
  BY <1>1, <1>2, <1>4, <1>5, <1>6, <1>7

LEMMA FilesProduce ==
    ASSUME FilesInv, NEW h \in Holder, Files!Produce(h)
    PROVE  FilesInv'
<1> USE FilesAssumption DEF FilesInv, Files!TypeOK, PlaceInv
<1>1. Files!TypeOK'
  BY DEF Files!Produce, Files!Go, Files!Calls, Files!Acquires
<1>2. PlaceInv'
  BY DEF Files!Produce, Files!Go
<1>3. \A j \in Key : Files!Counted(j)' = Files!Counted(j)
  BY DEF Files!Produce, Files!Go, Files!Counted
<1>4. EntryLockInv'
  BY <1>3 DEF Files!Produce, Files!Go, EntryLockInv
<1>5. MapInv'
  BY <1>3 DEF Files!Produce, Files!Go, MapInv, CountInv, ShareInv
<1>6. CountInv'
  BY <1>3 DEF Files!Produce, Files!Go, CountInv, MapInv, ShareInv
<1>7. ShareInv'
  BY <1>3 DEF Files!Produce, Files!Go, ShareInv, CountInv, MapInv, EntryLockInv
<1> QED
  BY <1>1, <1>2, <1>4, <1>5, <1>6, <1>7

LEMMA FilesProduceError ==
    ASSUME FilesInv, NEW h \in Holder, Files!ProduceError(h)
    PROVE  FilesInv'
<1> USE FilesAssumption DEF FilesInv, Files!TypeOK, PlaceInv
<1>1. Files!TypeOK'
  BY DEF Files!ProduceError, Files!ZeroCount, Files!Free, Files!Go, Files!Calls, Files!Acquires
<1>2. PlaceInv'
  BY DEF Files!ProduceError, Files!ZeroCount, Files!Free, Files!Go
<1>3. \A j \in Key : Files!Counted(j)' = IF j = key[h] THEN Files!Counted(j) \ {h} ELSE Files!Counted(j)
  BY DEF Files!ProduceError, Files!ZeroCount, Files!Free, Files!Go, Files!Counted
<1>4. EntryLockInv'
  BY <1>3 DEF Files!ProduceError, Files!ZeroCount, Files!Free, Files!Go, EntryLockInv
<1>5. MapInv'
  BY <1>3 DEF Files!ProduceError, Files!ZeroCount, Files!Free, Files!Go, MapInv, CountInv, ShareInv
<1>6. CountInv'
  BY <1>3 DEF Files!ProduceError, Files!ZeroCount, Files!Free, Files!Go, CountInv, MapInv, ShareInv
<1>7. ShareInv'
  <2>1. /\ key[h] \in Key /\ at[h] \in FileEntry /\ at[h] = fileEntries[key[h]]
        /\ Files!Counted(key[h]) = {h}
    BY DEF Files!ProduceError, ShareInv
  <2>2. /\ refCount' = [refCount EXCEPT ![at[h]] = 0]
        /\ fileEntries' = [fileEntries EXCEPT ![key[h]] = None]
        /\ pc' = [pc EXCEPT ![h] = "free"] /\ key' = [key EXCEPT ![h] = None]
        /\ at' = [at EXCEPT ![h] = None]
    BY DEF Files!ProduceError, Files!ZeroCount, Files!Free, Files!Go
  <2>3. ASSUME NEW g \in Holder, pc'[g] \in {"produce", "held", "dereflock"}
        PROVE  g # h /\ key[g] \in Key /\ key[g] # key[h]
    BY <2>1, <2>2, <2>3 DEF Files!Counted
  <2>4. ASSUME NEW g \in Holder, pc'[g] = "lock"
        PROVE  at'[g] = fileEntries'[key'[g]] <=> refCount'[at'[g]] > 0
    <3>1. g # h /\ key[g] \in Key /\ at[g] \in FileEntry
      BY <2>2, <2>4
    <3>2. CASE key[g] = key[h]
      BY <2>1, <2>2, <2>4, <3>1, <3>2 DEF ShareInv
    <3>3. CASE key[g] # key[h]
      BY <2>1, <2>2, <2>4, <3>1, <3>3 DEF ShareInv, MapInv
    <3> QED
      BY <3>2, <3>3
  <2> QED
    BY <1>3, <2>1, <2>2, <2>3, <2>4 DEF ShareInv
<1> QED
  BY <1>1, <1>2, <1>4, <1>5, <1>6, <1>7

LEMMA FilesDeref ==
    ASSUME FilesInv, NEW h \in Holder, Files!Deref(h)
    PROVE  FilesInv'
<1> USE FilesAssumption DEF FilesInv, Files!TypeOK, PlaceInv
<1>1. Files!TypeOK'
  BY DEF Files!Deref, Files!Go, Files!Calls, Files!Acquires
<1>2. PlaceInv'
  BY DEF Files!Deref, Files!Go
<1>3. \A j \in Key : Files!Counted(j)' = Files!Counted(j)
  BY DEF Files!Deref, Files!Go, Files!Counted
<1>4. EntryLockInv'
  BY <1>3 DEF Files!Deref, Files!Go, EntryLockInv
<1>5. MapInv'
  BY <1>3 DEF Files!Deref, Files!Go, MapInv, CountInv, ShareInv
<1>6. CountInv'
  BY <1>3 DEF Files!Deref, Files!Go, CountInv, MapInv, ShareInv
<1>7. ShareInv'
  BY <1>3 DEF Files!Deref, Files!Go, ShareInv, CountInv, MapInv, EntryLockInv
<1> QED
  BY <1>1, <1>2, <1>4, <1>5, <1>6, <1>7

LEMMA FilesDerefLoad ==
    ASSUME FilesInv, NEW h \in Holder, Files!DerefLoad(h)
    PROVE  FilesInv'
<1> USE FilesAssumption DEF FilesInv, Files!TypeOK, PlaceInv
<1>1. Files!TypeOK'
  BY DEF Files!DerefLoad, Files!Go, Files!Calls, Files!Acquires
<1>2. PlaceInv'
  BY DEF Files!DerefLoad, Files!Go
<1>3. \A j \in Key : Files!Counted(j)' = Files!Counted(j)
  BY DEF Files!DerefLoad, Files!Go, Files!Counted
<1>4. EntryLockInv'
  BY <1>3 DEF Files!DerefLoad, Files!Go, EntryLockInv
<1>5. MapInv'
  BY <1>3 DEF Files!DerefLoad, Files!Go, MapInv, CountInv, ShareInv
<1>6. CountInv'
  BY <1>3 DEF Files!DerefLoad, Files!Go, CountInv, MapInv, ShareInv
<1>7. ShareInv'
  BY <1>3 DEF Files!DerefLoad, Files!Go, ShareInv, CountInv, MapInv, EntryLockInv
<1> QED
  BY <1>1, <1>2, <1>4, <1>5, <1>6, <1>7

LEMMA FilesDerefLock ==
    ASSUME FilesInv, NEW h \in Holder, Files!DerefLock(h)
    PROVE  FilesInv'
<1> USE FilesAssumption DEF FilesInv, Files!TypeOK, PlaceInv
<1>0. /\ key[h] \in Key /\ at[h] \in FileEntry /\ at[h] = fileEntries[key[h]]
      /\ h \in Files!Counted(key[h])
  BY DEF Files!DerefLock, ShareInv, Files!Counted
<1>10. refCount[at[h]] = Cardinality(Files!Counted(key[h])) /\ refCount[at[h]] > 0
  BY <1>0, CountedFinite DEF CountInv
<1>11. /\ pc' = [pc EXCEPT ![h] = "free"] /\ key' = [key EXCEPT ![h] = None]
       /\ at' = [at EXCEPT ![h] = None] /\ op' = [op EXCEPT ![h] = "Acquire"]
       /\ refCount' = [refCount EXCEPT ![at[h]] = @ - 1] /\ fileLock' = fileLock
       /\ fileEntries' = IF refCount[at[h]] <= 1 THEN [fileEntries EXCEPT ![key[h]] = None] ELSE fileEntries
       /\ pc[h] = "dereflock"
  BY DEF Files!DerefLock, Files!Last, Files!Free, Files!Go
<1>1. Files!TypeOK'
  <2>1. refCount' \in [FileEntry -> Nat]
    BY <1>0, <1>10, <1>11
  <2>2. fileEntries' \in [Key -> FileEntry \cup {None}]
    BY <1>11
  <2> QED
    BY <1>11, <2>1, <2>2 DEF Files!Calls, Files!Acquires
<1>2. PlaceInv'
  BY DEF Files!DerefLock, Files!Last, Files!Free, Files!Go
<1>3. \A j \in Key : Files!Counted(j)' = IF j = key[h] THEN Files!Counted(j) \ {h} ELSE Files!Counted(j)
  BY DEF Files!DerefLock, Files!Last, Files!Free, Files!Go, Files!Counted
<1>4. EntryLockInv'
  BY <1>3 DEF Files!DerefLock, Files!Last, Files!Free, Files!Go, EntryLockInv
<1>5. MapInv'
  BY <1>3 DEF Files!DerefLock, Files!Last, Files!Free, Files!Go, MapInv, CountInv, ShareInv
<1>6. CountInv'
  <2>0. PICK kh \in Key : kh = key[h]
    BY <1>0
  <2>1. Cardinality(Files!Counted(kh)') = refCount[at[h]] - 1
    <3>1. Files!Counted(kh)' = Files!Counted(kh) \ {h} /\ h \in Files!Counted(kh)
      BY <1>0, <1>3, <2>0
    <3>2. Cardinality(Files!Counted(kh) \ {h}) = Cardinality(Files!Counted(kh)) - 1
      BY <3>1, CountedFinite, FS_RemoveElement
    <3> QED
      BY <1>10, <2>0, <3>1, <3>2
  <2>2. Files!Counted(kh)' = {} <=> refCount[at[h]] <= 1
    <3>1. IsFiniteSet(Files!Counted(kh)')
      BY <2>0, <1>0, <1>3, CountedFinite, FS_RemoveElement
    <3>2. Files!Counted(kh)' = {} <=> Cardinality(Files!Counted(kh)') = 0
      BY <2>0, <3>1, FS_EmptySet
    <3> QED
      BY <2>0, <1>0, <1>10, <2>1, <3>2
  <2>3. ASSUME NEW j \in Key, j # key[h]
        PROVE  Files!Counted(j)' = Files!Counted(j) /\ fileEntries'[j] = fileEntries[j]
                 /\ (fileEntries[j] # None => refCount'[fileEntries[j]] = refCount[fileEntries[j]])
    BY <2>0, <1>0, <1>3, <1>11, <2>3 DEF MapInv
  <2>4. /\ fileEntries'[key[h]] = None <=> refCount[at[h]] <= 1
        /\ fileEntries'[key[h]] # None => refCount'[fileEntries'[key[h]]] = refCount[at[h]] - 1
    BY <2>0, <1>0, <1>11
  <2> QED
    BY <2>0, <2>1, <2>2, <2>3, <2>4 DEF CountInv
<1>7. ShareInv'
  <2>1. ASSUME NEW g \in Holder, pc'[g] \in {"produce", "held", "dereflock"}
        PROVE  at'[g] = fileEntries'[key'[g]]
    <3>1. g # h /\ key'[g] = key[g] /\ key[g] \in Key /\ at'[g] = at[g] /\ pc[g] = pc'[g]
      BY <1>11, <2>1
    <3>2. CASE key[g] = key[h]
      <4>1. g \in Files!Counted(key[g])'
        BY <1>0, <2>1, <3>1, <3>2 DEF Files!Counted
      <4>2. fileEntries'[key[h]] # None
        <5>1. PICK kg \in Key : kg = key[g] /\ kg = key'[g]
          BY <3>1
        <5>2. Files!Counted(kg)' # {}
          BY <4>1, <5>1
        <5> QED
          BY <1>6, <3>2, <5>1, <5>2 DEF CountInv
      <4> QED
        BY <1>0, <1>11, <3>1, <3>2, <4>2, <2>1 DEF ShareInv
    <3>3. CASE key[g] # key[h]
      BY <1>0, <1>11, <2>1, <3>1, <3>3 DEF ShareInv
    <3> QED
      BY <3>2, <3>3
  <2>2. ASSUME NEW g \in Holder, pc'[g] = "produce"
        PROVE  Files!Counted(key[g])' = {g}
    <3>1. g # h /\ pc[g] = "produce" /\ key'[g] = key[g] /\ key[g] \in Key
      BY <1>11, <2>2
    <3>2. Files!Counted(key[g]) = {g}
      BY <3>1 DEF ShareInv
    <3>3. key[g] # key[h]
      BY <1>0, <3>1, <3>2
    <3> QED
      BY <1>3, <3>1, <3>2, <3>3 DEF Files!Counted
  <2>3. ASSUME NEW g \in Holder, pc'[g] = "lock"
        PROVE  at'[g] = fileEntries'[key'[g]] <=> refCount'[at'[g]] > 0
    <3>1. g # h /\ pc[g] = "lock" /\ key'[g] = key[g] /\ key[g] \in Key /\ at'[g] = at[g] /\ at[g] \in FileEntry
      BY <1>11, <2>3
    <3>2. at[g] = fileEntries[key[g]] <=> refCount[at[g]] > 0
      BY <3>1 DEF ShareInv
    <3>3. CASE at[g] = at[h]
      <4>1. key[g] = key[h]
        BY <1>0, <3>1, <3>3 DEF MapInv
      <4> QED
        BY <1>0, <1>10, <1>11, <3>1, <3>3, <4>1
    <3>4. CASE at[g] # at[h]
      <4>1. refCount'[at'[g]] = refCount[at[g]]
        BY <1>0, <1>11, <3>1, <3>4
      <4>2. at[g] = fileEntries'[key[g]] <=> at[g] = fileEntries[key[g]]
        BY <1>0, <1>11, <3>1, <3>4
      <4> QED
        BY <3>1, <3>2, <4>1, <4>2
    <3> QED
      BY <3>3, <3>4
  <2> QED
    BY <2>1, <2>2, <2>3 DEF ShareInv
<1> QED
  BY <1>1, <1>2, <1>4, <1>5, <1>6, <1>7

LEMMA FilesInvariant == Files!Spec => []FilesInv
<1>1. Files!Init => FilesInv
  <2> SUFFICES ASSUME Files!Init PROVE FilesInv
    OBVIOUS
  <2>1. \A k \in Key : Files!Counted(k) = {}
    BY DEF Files!Init, Files!Counted
  <2> QED
    BY <2>1, FilesAssumption DEF Files!Init, FilesInv, Files!TypeOK, PlaceInv, EntryLockInv, MapInv,
       CountInv, ShareInv, Files!Calls, Files!Acquires
<1>2. FilesInv /\ UNCHANGED fileVars => FilesInv'
  <2> SUFFICES ASSUME FilesInv, UNCHANGED fileVars PROVE FilesInv'
    OBVIOUS
  <2>1. \A k : Files!Counted(k)' = Files!Counted(k)
    BY DEF fileVars, Files!Counted
  <2>2. (Files!TypeOK /\ PlaceInv /\ EntryLockInv /\ MapInv)'
    BY DEF fileVars, FilesInv, Files!TypeOK, PlaceInv, EntryLockInv, MapInv
  <2>3. (CountInv /\ ShareInv)'
    BY <2>1 DEF fileVars, FilesInv, CountInv, ShareInv
  <2> QED
    BY <2>2, <2>3 DEF FilesInv
<1>3. FilesInv /\ [Files!Next]_fileVars => FilesInv'
  BY <1>2, FilesBegin, FilesStoreNew, FilesLoadExisting, FilesLoadNothing, FilesLockLive,
     FilesLockDead, FilesLockNothing, FilesProduce, FilesProduceError, FilesDeref, FilesDerefLoad,
     FilesDerefLock DEF Files!Next, Files!Work
<1> QED
  BY <1>1, <1>3, PTL DEF Files!Spec, Files!vars, fileVars

(***************************************************************************)
(* All who hold a reference to a file share one entry, it stays in the map *)
(* for as long as they do, and its count is theirs (refcountcache.go), for *)
(* every number of files, references and goroutines: no retry, failed      *)
(* produce or Deref in between loses, doubles or replaces it.              *)
(***************************************************************************)
THEOREM ReferenceCount == Files!Spec => []CountExact
<1>1. FilesInv => CountExact
  <2> SUFFICES ASSUME FilesInv PROVE Files!CountExact
    BY DEF CountExact
  <2>1. \A k \in Key : \A h \in Files!Counted(k) :
            h \in Holder /\ key[h] = k /\ pc[h] \in {"produce", "held", "deref", "dereflock"}
    BY DEF Files!Counted
  <2>2. \A k \in Key : \A h \in Files!Counted(k) : pc[h] # "deref" => at[h] = fileEntries[k]
    BY <2>1 DEF FilesInv, ShareInv
  <2>3. \A k \in Key : /\ Files!Counted(k) = {} <=> fileEntries[k] = None
                       /\ Files!Counted(k) # {} => refCount[fileEntries[k]] = Cardinality(Files!Counted(k))
    BY DEF FilesInv, CountInv
  <2>4. \A h \in Holder : pc[h] = "lock" => (at[h] = fileEntries[key[h]] <=> refCount[at[h]] > 0)
    BY DEF FilesInv, ShareInv
  <2>5. \A S : Files!Cardinality(S) = Cardinality(S)
    BY DEF Files!Cardinality, Cardinality
  <2> QED
    BY <2>2, <2>3, <2>4, <2>5 DEF FilesInv, Files!CountExact
<1> QED
  BY <1>1, FilesInvariant, PTL

-----------------------------------------------------------------------------
(* Extended configs.                                                       *)

(***************************************************************************)
(* A goroutine's calls: all but the innermost are acquires that parse,     *)
(* each of another config, and what they parse is theirs and in the map.   *)
(***************************************************************************)
CallsInv ==
    \A t \in Thread : \A i \in 1 .. Len(stack[t]) :
        /\ i < Len(stack[t]) => stack[t][i].at = "parse"
        /\ stack[t][i].at = "parse" \/ Len(stack[t]) > 1 => stack[t][i].op = "acquire"
        /\ stack[t][i].at = "load" <=> stack[t][i].entry = None
        /\ stack[t][i].next >= 1
        /\ \A j \in 1 .. Len(stack[t]) : stack[t][i].config = stack[t][j].config => i = j

ParseInv ==
    /\ \A t \in Thread : \A i \in 1 .. Len(stack[t]) : stack[t][i].at = "parse" =>
            lock[stack[t][i].entry] = t /\ entries[stack[t][i].config] = stack[t][i].entry
    /\ \A e \in Entry : lock[e] # None =>
            \E i \in 1 .. Len(stack[lock[e]]) : stack[lock[e]][i].at = "parse" /\ stack[lock[e]][i].entry = e

\* An entry is in the map once, those who are at it came by the same config,
\* and one that left the map has no owners.
EntryInv ==
    /\ \A j, k \in Config : entries[j] = entries[k] /\ entries[j] # None => j = k
    /\ \A t \in Thread : \A i \in 1 .. Len(stack[t]) : stack[t][i].at = "lock" =>
            /\ \A k \in Config \ {stack[t][i].config} : entries[k] # stack[t][i].entry
            /\ \/ entries[stack[t][i].config] = stack[t][i].entry
               \/ owners[stack[t][i].entry] = {} /\ stack[t][i].op = "acquire"

\* A goroutine is in a call of that kind, for a snapshot and a config.
In1(t, ops) == stack[t] # <<>> /\ stack[t][1].op \in ops
Config1(t) == stack[t][1].config

\* What a snapshot owns is there, and so is what it is about to release, or
\* to take over; nothing is built for a snapshot that is disposed of.
OwnsInv ==
    /\ \A o \in Owner : \A k \in owns[o] : entries[k] # None /\ o \in owners[entries[k]]
    /\ \A k \in Config : entries[k] # None /\ lock[entries[k]] = None => owners[entries[k]] # {}

ReleaseInv ==
    /\ \A t \in Thread : In1(t, {"acquire", "add"}) => owner[t] \notin disposed
    /\ \A t \in Thread : In1(t, {"release"}) =>
            /\ owner[t] \in disposed /\ Config1(t) \notin owns[owner[t]]
            /\ entries[Config1(t)] # None /\ owner[t] \in owners[entries[Config1(t)]]
            /\ \A u \in Thread \ {t} : In1(u, {"release"}) /\ Config1(u) = Config1(t) => owner[u] # owner[t]
    /\ \A t \in Thread : In1(t, {"add"}) => \E p \in Owner \ {owner[t]} : Config1(t) \in owns[p]

ConfigsInv ==
    TypeOK /\ extends \in Graphs /\ CallsInv /\ ParseInv /\ EntryInv /\ OwnsInv /\ ReleaseInv

LEMMA OneOrMore == \A n \in Nat \ {0} : n > 1 \/ n = 1
  OBVIOUS

\* What the last frame of a stack is, and what becomes of a stack.
LEMMA TopFrame ==
    ASSUME TypeOK, NEW t \in Thread, stack[t] # <<>>
    PROVE  /\ Len(stack[t]) \in Nat \ {0} /\ Top(t) = stack[t][Len(stack[t])]
           /\ Len(stack[t]) \in 1 .. Len(stack[t])
           /\ \A i \in 1 .. Len(stack[t]) : stack[t][i] \in Frame
<1>1. stack[t] \in Seq(Frame)
  BY DEF TypeOK
<1>2. Len(stack[t]) # 0
  BY <1>1
<1> QED
  BY <1>1, <1>2 DEF Top, Last

LEMMA Replaced ==
    ASSUME TypeOK, NEW t \in Thread, stack[t] # <<>>, NEW f \in Frame, Replace(t, f)
    PROVE  /\ stack' \in [Thread -> Seq(Frame)]
           /\ \A u \in Thread \ {t} : stack'[u] = stack[u]
           /\ Len(stack'[t]) = Len(stack[t])
           /\ stack'[t][Len(stack[t])] = f
           /\ \A i \in 1 .. Len(stack[t]) - 1 : stack'[t][i] = stack[t][i]
<1>1. stack[t] \in Seq(Frame) /\ Len(stack[t]) \in Nat \ {0}
  BY TopFrame DEF TypeOK
<1> DEFINE s == Front(stack[t])
<1>2. s \in Seq(Frame) /\ Len(s) = Len(stack[t]) - 1
        /\ \A i \in 1 .. Len(stack[t]) - 1 : s[i] = stack[t][i]
  BY <1>1 DEF Front
<1>3. stack' = [stack EXCEPT ![t] = Append(s, f)]
  BY DEF Replace
<1> HIDE DEF s
<1>4. stack'[t] = Append(s, f) /\ \A u \in Thread \ {t} : stack'[u] = stack[u]
  BY <1>3 DEF TypeOK
<1>5. Append(s, f) \in Seq(Frame)
  BY <1>2
<1>6. stack' \in [Thread -> Seq(Frame)]
  BY <1>3, <1>5 DEF TypeOK
<1> QED
  BY <1>1, <1>2, <1>4, <1>6

LEMMA Popped ==
    ASSUME TypeOK, NEW t \in Thread, stack[t] # <<>>, Pop(t)
    PROVE  /\ stack' \in [Thread -> Seq(Frame)]
           /\ \A u \in Thread \ {t} : stack'[u] = stack[u]
           /\ Len(stack'[t]) = Len(stack[t]) - 1
           /\ \A i \in 1 .. Len(stack[t]) - 1 : stack'[t][i] = stack[t][i]
           /\ stack'[t] = <<>> <=> Len(stack[t]) = 1
<1>1. stack[t] \in Seq(Frame) /\ Len(stack[t]) \in Nat \ {0}
  BY TopFrame DEF TypeOK
<1> DEFINE s == Front(stack[t])
<1>2. s \in Seq(Frame) /\ Len(s) = Len(stack[t]) - 1
        /\ \A i \in 1 .. Len(stack[t]) - 1 : s[i] = stack[t][i]
  BY <1>1 DEF Front
<1>3. stack' = [stack EXCEPT ![t] = s]
  BY DEF Pop
<1> HIDE DEF s
<1>4. stack'[t] = s /\ \A u \in Thread \ {t} : stack'[u] = stack[u]
  BY <1>3 DEF TypeOK
<1>5. stack' \in [Thread -> Seq(Frame)]
  BY <1>2, <1>3 DEF TypeOK
<1>6. s = <<>> <=> Len(s) = 0
  <2>1. s \in Seq(Frame)
    BY <1>2
  <2> QED
    BY <2>1
<1> QED
  BY <1>1, <1>2, <1>4, <1>5, <1>6

\* A call begins.
LEMMA ConfigsBegin ==
    ASSUME TypeOK, CallsInv, ParseInv, EntryInv, extends \in Graphs,
           NEW t \in Thread, NEW o \in Owner, NEW q \in {"acquire", "add", "release"},
           NEW k \in Config, Begin(t, o, Call(q, k)),
           owns' \in [Owner -> SUBSET Config], disposed' \subseteq Owner
    PROVE  /\ TypeOK' /\ CallsInv' /\ ParseInv' /\ EntryInv' /\ (extends \in Graphs)'
           /\ stack'[t] = <<Call(q, k)>> /\ Len(stack'[t]) = 1
           /\ stack[t] = <<>> /\ owner'[t] = o
           /\ \A u \in Thread \ {t} : stack'[u] = stack[u] /\ owner'[u] = owner[u]
<1> DEFINE f == Call(q, k)
<1>1. f \in Frame /\ f.at = "load" /\ f.entry = None /\ f.next = 1
  BY DEF Call, Frame
<1> HIDE DEF f
<1>2. /\ stack' = [stack EXCEPT ![t] = <<f>>] /\ owner' = [owner EXCEPT ![t] = o]
      /\ stack[t] = <<>> /\ calls < MaxCalls /\ calls' = calls + 1
      /\ UNCHANGED <<entries, lock, owners, value, read, extends>>
  BY DEF Begin, f
<1>3. stack' \in [Thread -> Seq(Frame)] /\ stack'[t] = <<f>> /\ Len(stack'[t]) = 1
        /\ Len(stack[t]) = 0 /\ stack'[t][1] = f /\ stack'[t] # <<>>
  BY <1>1, <1>2 DEF TypeOK
<1>4. \A u \in Thread \ {t} : stack'[u] = stack[u] /\ owner'[u] = owner[u]
  BY <1>2 DEF TypeOK
<1>5. TypeOK'
  <2>1. owner'[t] = o /\ owner' \in [Thread -> Owner \cup {None}] /\ o # None
    BY <1>2, ConfigsAssumption DEF TypeOK
  <2>2. \A u \in Thread : owner'[u] = None <=> stack'[u] = <<>>
    BY <1>3, <1>4, <2>1 DEF TypeOK
  <2>3. calls' \in 0 .. MaxCalls
    BY <1>2, ConfigsAssumption DEF TypeOK
  <2> QED
    BY <1>2, <1>3, <2>1, <2>2, <2>3 DEF TypeOK
<1>6. CallsInv'
  <2>1. \A i \in 1 .. Len(stack'[t]) : i = 1 /\ stack'[t][i] = f
    BY <1>3
  <2>2. \A i \in 1 .. Len(stack'[t]) :
            /\ ~(i < Len(stack'[t])) /\ stack'[t][i].at = "load" /\ stack'[t][i].entry = None
            /\ stack'[t][i].next = 1 /\ ~(Len(stack'[t]) > 1)
    BY <1>1, <1>3, <2>1
  <2>3. ASSUME NEW u \in Thread \ {t} PROVE stack'[u] = stack[u]
    BY <1>4
  <2> QED
    BY <2>1, <2>2, <2>3 DEF CallsInv
<1>7. ParseInv'
  <2>1. \A e \in Entry : lock[e] # None => lock[e] \in Thread \ {t}
    BY <1>3 DEF ParseInv, TypeOK
  <2>2. \A e \in Entry : lock[e] # None => stack'[lock[e]] = stack[lock[e]]
    BY <2>1, <1>4
  <2> QED
    BY <1>1, <1>2, <1>3, <1>4, <2>2 DEF ParseInv
<1>8. EntryInv'
  <2>1. \A i \in 1 .. Len(stack'[t]) : stack'[t][i].at = "load"
    BY <1>1, <1>3
  <2>2. \A u \in Thread \ {t} : stack'[u] = stack[u]
    BY <1>4
  <2> QED
    BY <1>2, <2>1, <2>2, SMTT(60) DEF EntryInv
<1>9. stack'[t] = <<Call(q, k)>> /\ owner'[t] = o
  BY <1>2, <1>3 DEF f, TypeOK
<1> QED
  BY <1>2, <1>3, <1>4, <1>5, <1>6, <1>7, <1>8, <1>9

LEMMA ConfigsLoadAndAcquire ==
    ASSUME ConfigsInv, NEW t \in Thread, NEW o \in Owner, NEW k \in Config, LoadAndAcquire(t, o, k)
    PROVE  ConfigsInv'
<1>1. /\ o \notin disposed /\ owns' = owns /\ disposed' = disposed
      /\ entries' = entries /\ lock' = lock /\ owners' = owners
  BY DEF LoadAndAcquire, Begin
<1>2. Begin(t, o, Call("acquire", k))
  BY DEF LoadAndAcquire
<1>3. owns' \in [Owner -> SUBSET Config] /\ disposed' \subseteq Owner
  BY <1>1 DEF ConfigsInv, TypeOK
<1>4. /\ TypeOK' /\ CallsInv' /\ ParseInv' /\ EntryInv' /\ (extends \in Graphs)'
      /\ stack'[t] = <<Call("acquire", k)>> /\ Len(stack'[t]) = 1
      /\ stack[t] = <<>> /\ owner'[t] = o
      /\ \A u \in Thread \ {t} : stack'[u] = stack[u] /\ owner'[u] = owner[u]
  BY <1>2, <1>3, ConfigsBegin DEF ConfigsInv
<1>5. OwnsInv'
  BY <1>1 DEF ConfigsInv, OwnsInv
<1>6. stack'[t][1].op = "acquire"
  BY <1>4 DEF Call
<1>7. ReleaseInv'
  BY <1>1, <1>4, <1>6 DEF ConfigsInv, ReleaseInv, In1, Config1
<1> QED
  BY <1>4, <1>5, <1>7 DEF ConfigsInv

LEMMA ConfigsAddOwner ==
    ASSUME ConfigsInv, NEW t \in Thread, NEW o \in Owner, NEW k \in Config, AddOwner(t, o, k)
    PROVE  ConfigsInv'
<1>1. /\ o \notin disposed /\ owns' = owns /\ disposed' = disposed
      /\ entries' = entries /\ lock' = lock /\ owners' = owners
      /\ \E p \in Owner \ {o} : k \in owns[p]
  BY DEF AddOwner, Begin
<1>2. Begin(t, o, Call("add", k))
  BY DEF AddOwner
<1>3. owns' \in [Owner -> SUBSET Config] /\ disposed' \subseteq Owner
  BY <1>1 DEF ConfigsInv, TypeOK
<1>4. /\ TypeOK' /\ CallsInv' /\ ParseInv' /\ EntryInv' /\ (extends \in Graphs)'
      /\ stack'[t] = <<Call("add", k)>> /\ Len(stack'[t]) = 1
      /\ stack[t] = <<>> /\ owner'[t] = o
      /\ \A u \in Thread \ {t} : stack'[u] = stack[u] /\ owner'[u] = owner[u]
  BY <1>2, <1>3, ConfigsBegin DEF ConfigsInv
<1>5. OwnsInv'
  BY <1>1 DEF ConfigsInv, OwnsInv
<1>6. stack'[t][1].op = "add" /\ stack'[t][1].config = k
  BY <1>4 DEF Call
<1>7. ReleaseInv'
  BY <1>1, <1>4, <1>6 DEF ConfigsInv, ReleaseInv, In1, Config1
<1> QED
  BY <1>4, <1>5, <1>7 DEF ConfigsInv

\* A goroutine in a call other than acquire is in no other.
LEMMA OneCall ==
    ASSUME TypeOK, CallsInv, NEW u \in Thread, stack[u] # <<>>,
           Top(u).op # "acquire" \/ stack[u][1].op # "acquire"
    PROVE  Len(stack[u]) = 1 /\ Top(u) = stack[u][1]
<1>1. /\ Len(stack[u]) \in Nat \ {0} /\ Top(u) = stack[u][Len(stack[u])]
      /\ Len(stack[u]) \in 1 .. Len(stack[u]) /\ 1 \in 1 .. Len(stack[u])
  BY TopFrame
<1>2. Len(stack[u]) > 1 => stack[u][1].op = "acquire" /\ stack[u][Len(stack[u])].op = "acquire"
  BY <1>1 DEF CallsInv
<1>3. Top(u).op = stack[u][Len(stack[u])].op
  BY <1>1
<1>4. ~(Len(stack[u]) > 1)
  BY <1>2, <1>3
<1>5. Len(stack[u]) = 1
  BY <1>1, <1>4, OneOrMore
<1> QED
  BY <1>1, <1>5

LEMMA ConfigsRelease ==
    ASSUME ConfigsInv, NEW t \in Thread, NEW o \in Owner, NEW k \in Config, Release(t, o, k)
    PROVE  ConfigsInv'
<1> USE DEF ConfigsInv
<1>1. /\ k \in owns[o] /\ owns' = [owns EXCEPT ![o] = @ \ {k}] /\ disposed' = disposed \cup {o}
      /\ entries' = entries /\ lock' = lock /\ owners' = owners
  BY DEF Release, Begin
<1>2. Begin(t, o, Call("release", k))
  BY DEF Release
<1>3. /\ owns' \in [Owner -> SUBSET Config] /\ disposed' \subseteq Owner
      /\ owns'[o] = owns[o] \ {k} /\ \A p \in Owner \ {o} : owns'[p] = owns[p]
  BY <1>1 DEF TypeOK
<1>4. /\ TypeOK' /\ CallsInv' /\ ParseInv' /\ EntryInv' /\ (extends \in Graphs)'
      /\ stack'[t] = <<Call("release", k)>> /\ Len(stack'[t]) = 1
      /\ stack[t] = <<>> /\ owner'[t] = o
      /\ \A u \in Thread \ {t} : stack'[u] = stack[u] /\ owner'[u] = owner[u]
  BY <1>2, <1>3, ConfigsBegin
<1>5. OwnsInv'
  BY <1>1, <1>3 DEF OwnsInv
<1>6. stack'[t][1].op = "release" /\ stack'[t][1].config = k
  BY <1>4 DEF Call
<1>7. \A u \in Thread : In1(u, {"acquire", "add"}) => owner[u] # o
  <2> SUFFICES ASSUME NEW u \in Thread, In1(u, {"acquire", "add"}), owner[u] = o PROVE FALSE
    OBVIOUS
  <2>1. Top(u).op = "release"
    BY DEF Release
  <2>2. Top(u) = stack[u][1]
    BY <2>1, OneCall DEF In1
  <2> QED
    BY <2>1, <2>2 DEF In1
<1>8. \A u \in Thread : In1(u, {"add"}) =>
        \E p \in Owner \ {owner[u]} : Config1(u) \in owns'[p]
  <2> SUFFICES ASSUME NEW u \in Thread, In1(u, {"add"})
               PROVE  \E p \in Owner \ {owner[u]} : Config1(u) \in owns'[p]
    OBVIOUS
  <2>1. Top(u) = stack[u][1] /\ stack[u] # <<>> /\ Top(u).op = "add"
    BY OneCall DEF In1
  <2>2. Config1(u) = k => \E p \in Owner \ {o, owner[u]} : k \in owns[p]
    BY <2>1 DEF Release, Config1
  <2>3. \E p \in Owner \ {owner[u]} : Config1(u) \in owns[p]
    BY DEF ReleaseInv
  <2> QED
    BY <2>2, <2>3, <1>3
<1>9. \A u \in Thread \ {t} : In1(u, {"add"})' => In1(u, {"add"})
  BY <1>4 DEF In1
<1>10. \A u \in Thread : In1(u, {"acquire", "add"})' => owner'[u] \notin disposed'
  BY <1>1, <1>4, <1>6, <1>7 DEF ReleaseInv, In1
<1>11. \A u \in Thread : In1(u, {"add"})' => \E p \in Owner \ {owner'[u]} : Config1(u)' \in owns'[p]
  BY <1>4, <1>6, <1>8, <1>9 DEF In1, Config1
<1>12. \A u \in Thread \ {t} : In1(u, {"release"}) /\ Config1(u) = k => owner[u] # o
  BY <1>1 DEF ReleaseInv
<1>13. \A u \in Thread : In1(u, {"release"})' =>
            /\ owner'[u] \in disposed' /\ Config1(u)' \notin owns'[owner'[u]]
            /\ entries'[Config1(u)'] # None /\ owner'[u] \in owners'[entries'[Config1(u)']]
            /\ \A w \in Thread \ {u} : In1(w, {"release"})' /\ Config1(w)' = Config1(u)'
                    => owner'[w] # owner'[u]
  <2>1. entries[k] # None /\ o \in owners[entries[k]]
    BY <1>1 DEF OwnsInv
  <2>2. \A u \in Thread \ {t} : In1(u, {"release"}) => owner[u] \in Owner
    BY DEF In1, TypeOK
  <2> QED
    BY <1>1, <1>3, <1>4, <1>6, <1>12, <2>1, <2>2 DEF ReleaseInv, In1, Config1
<1>14. ReleaseInv'
  BY <1>10, <1>11, <1>13 DEF ReleaseInv
<1> QED
  BY <1>4, <1>5, <1>14

\* A frame goes on with the same call.
LEMMA Kept ==
    ASSUME TypeOK, NEW t \in Thread, stack[t] # <<>>, NEW f \in Frame, Replace(t, f),
           f.op = Top(t).op, f.config = Top(t).config
    PROVE  /\ \A u \in Thread : Len(stack'[u]) = Len(stack[u]) /\ (stack'[u] = <<>> <=> stack[u] = <<>>)
           /\ \A u \in Thread : \A i \in 1 .. Len(stack[u]) :
                /\ stack'[u][i].op = stack[u][i].op /\ stack'[u][i].config = stack[u][i].config
                /\ u # t \/ i # Len(stack[u]) => stack'[u][i] = stack[u][i]
           /\ \A u \in Thread : stack[u] # <<>> =>
                stack'[u][1].op = stack[u][1].op /\ Config1(u)' = Config1(u)
<1>1. /\ Len(stack[t]) \in Nat \ {0} /\ Top(t) = stack[t][Len(stack[t])]
  BY TopFrame
<1>2. /\ stack' \in [Thread -> Seq(Frame)]
      /\ \A u \in Thread \ {t} : stack'[u] = stack[u]
      /\ Len(stack'[t]) = Len(stack[t])
      /\ stack'[t][Len(stack[t])] = f
      /\ \A i \in 1 .. Len(stack[t]) - 1 : stack'[t][i] = stack[t][i]
  BY Replaced
<1>3. stack'[t] # <<>>
  <2>1. stack'[t] \in Seq(Frame) /\ Len(stack'[t]) # 0
    BY <1>1, <1>2
  <2> QED
    BY <2>1
<1>4. \A u \in Thread : Len(stack'[u]) = Len(stack[u]) /\ (stack'[u] = <<>> <=> stack[u] = <<>>)
  BY <1>2, <1>3
<1>5. \A u \in Thread : \A i \in 1 .. Len(stack[u]) :
                /\ stack'[u][i].op = stack[u][i].op /\ stack'[u][i].config = stack[u][i].config
                /\ u # t \/ i # Len(stack[u]) => stack'[u][i] = stack[u][i]
  <2>1. \A i \in 1 .. Len(stack[t]) : i # Len(stack[t]) => i \in 1 .. Len(stack[t]) - 1
    BY <1>1
  <2> QED
    BY <1>1, <1>2, <2>1
<1>6. \A u \in Thread : stack[u] # <<>> => 1 \in 1 .. Len(stack[u])
  BY TopFrame
<1> QED
  BY <1>4, <1>5, <1>6 DEF Config1

\* The entry of the map that Load finds.
LEMMA ConfigsLoadFound ==
    ASSUME ConfigsInv, NEW t \in Thread, In(t, "load"), entries[Top(t).config] # None,
           Replace(t, [Top(t) EXCEPT !.entry = entries[Top(t).config], !.at = "lock"]),
           DOMAIN read' = Entry,
           UNCHANGED <<entries, lock, owners, owner, value, owns, disposed, calls, extends>>
    PROVE  ConfigsInv'
<1> USE DEF ConfigsInv
<1>1. /\ stack[t] # <<>> /\ Len(stack[t]) \in Nat \ {0} /\ Top(t) = stack[t][Len(stack[t])]
      /\ Len(stack[t]) \in 1 .. Len(stack[t]) /\ Top(t) \in Frame /\ Top(t).at = "load"
      /\ Top(t).config \in Config
  BY TopFrame DEF In, Frame
<1> DEFINE f == [Top(t) EXCEPT !.entry = entries[Top(t).config], !.at = "lock"]
<1>2. /\ f \in Frame /\ f.op = Top(t).op /\ f.config = Top(t).config /\ f.at = "lock"
      /\ f.entry = entries[Top(t).config] /\ f.entry \in Entry /\ f.next = Top(t).next
      /\ f.entry # None
  BY <1>1 DEF Frame, TypeOK
<1>3. Replace(t, f)
  OBVIOUS
<1> HIDE DEF f
<1>4. /\ stack' \in [Thread -> Seq(Frame)]
      /\ stack'[t][Len(stack[t])] = f
  BY <1>1, <1>2, <1>3, Replaced
<1>5. /\ \A u \in Thread : Len(stack'[u]) = Len(stack[u]) /\ (stack'[u] = <<>> <=> stack[u] = <<>>)
      /\ \A u \in Thread : \A i \in 1 .. Len(stack[u]) :
            /\ stack'[u][i].op = stack[u][i].op /\ stack'[u][i].config = stack[u][i].config
            /\ u # t \/ i # Len(stack[u]) => stack'[u][i] = stack[u][i]
      /\ \A u \in Thread : stack[u] # <<>> =>
            stack'[u][1].op = stack[u][1].op /\ Config1(u)' = Config1(u)
  BY <1>1, <1>2, <1>3, Kept
<1>6. TypeOK'
  BY <1>4, <1>5 DEF TypeOK
<1>7. CallsInv'
  BY <1>1, <1>2, <1>4, <1>5 DEF CallsInv
<1>8. ParseInv'
  <2>1. \A u \in Thread : \A i \in 1 .. Len(stack[u]) :
            stack'[u][i].at = "parse" \/ stack[u][i].at = "parse" => stack'[u][i] = stack[u][i]
    BY <1>1, <1>2, <1>4, <1>5
  <2>2. \A u \in Thread : Len(stack'[u]) = Len(stack[u])
    BY <1>5
  <2>3. \A u \in Thread : \A i \in 1 .. Len(stack'[u]) : stack'[u][i].at = "parse" =>
            lock'[stack'[u][i].entry] = u /\ entries'[stack'[u][i].config] = stack'[u][i].entry
    BY <2>1, <2>2 DEF ParseInv
  <2>4. ASSUME NEW e \in Entry, lock[e] # None
        PROVE  \E i \in 1 .. Len(stack'[lock[e]]) :
                  stack'[lock[e]][i].at = "parse" /\ stack'[lock[e]][i].entry = e
    <3>1. lock[e] \in Thread
      BY <2>4 DEF TypeOK
    <3>2. PICK i \in 1 .. Len(stack[lock[e]]) : stack[lock[e]][i].at = "parse" /\ stack[lock[e]][i].entry = e
      BY <2>4 DEF ParseInv
    <3>3. stack'[lock[e]][i] = stack[lock[e]][i]
      BY <2>1, <3>1, <3>2
    <3> QED
      BY <2>2, <3>1, <3>2, <3>3
  <2> QED
    BY <2>3, <2>4 DEF ParseInv
<1>9. EntryInv'
  <2>1. \A u \in Thread : \A i \in 1 .. Len(stack'[u]) : stack'[u][i].at = "lock" =>
            \/ stack'[u][i] = stack[u][i] /\ i \in 1 .. Len(stack[u])
            \/ stack'[u][i].entry = entries[stack'[u][i].config] /\ stack'[u][i].config \in Config
                    /\ stack'[u][i].entry # None
    BY <1>1, <1>2, <1>4, <1>5
  <2>2. ASSUME NEW u \in Thread, NEW i \in 1 .. Len(stack'[u]), stack'[u][i].at = "lock"
        PROVE  /\ \A k \in Config \ {stack'[u][i].config} : entries[k] # stack'[u][i].entry
               /\ \/ entries[stack'[u][i].config] = stack'[u][i].entry
                  \/ owners[stack'[u][i].entry] = {} /\ stack'[u][i].op = "acquire"
    <3>1. CASE stack'[u][i] = stack[u][i] /\ i \in 1 .. Len(stack[u])
      BY <2>2, <3>1, SMTT(60) DEF EntryInv
    <3>2. CASE stack'[u][i].entry = entries[stack'[u][i].config] /\ stack'[u][i].config \in Config
                    /\ stack'[u][i].entry # None
      BY <3>2 DEF EntryInv
    <3> QED
      BY <2>1, <2>2, <3>1, <3>2
  <2>3. \A j, k \in Config : entries'[j] = entries'[k] /\ entries'[j] # None => j = k
    BY DEF EntryInv
  <2>4. \A u \in Thread : \A i \in 1 .. Len(stack'[u]) : stack'[u][i].at = "lock" =>
            /\ \A k \in Config \ {stack'[u][i].config} : entries'[k] # stack'[u][i].entry
            /\ \/ entries'[stack'[u][i].config] = stack'[u][i].entry
               \/ owners'[stack'[u][i].entry] = {} /\ stack'[u][i].op = "acquire"
    BY <2>2
  <2> QED
    BY <2>3, <2>4, ZenonT(30) DEF EntryInv
<1>10. OwnsInv'
  BY DEF OwnsInv
<1>11. ReleaseInv'
  BY <1>5, SMTT(30) DEF ReleaseInv, In1
<1> QED
  BY <1>6, <1>7, <1>8, <1>9, <1>10, <1>11

\* The entry is dead: back to the map.
LEMMA ConfigsLockGone ==
    ASSUME ConfigsInv, NEW t \in Thread, In(t, "lock"),
           Replace(t, [Top(t) EXCEPT !.entry = None, !.at = "load"]),
           DOMAIN read' = Entry,
           UNCHANGED <<entries, lock, owners, owner, value, owns, disposed, calls, extends>>
    PROVE  ConfigsInv'
<1> USE DEF ConfigsInv
<1>1. /\ stack[t] # <<>> /\ Len(stack[t]) \in Nat \ {0} /\ Top(t) = stack[t][Len(stack[t])]
      /\ Len(stack[t]) \in 1 .. Len(stack[t]) /\ Top(t) \in Frame /\ Top(t).at = "lock"
      /\ Top(t).config \in Config
  BY TopFrame DEF In, Frame
<1> DEFINE f == [Top(t) EXCEPT !.entry = None, !.at = "load"]
<1>2. /\ f \in Frame /\ f.op = Top(t).op /\ f.config = Top(t).config /\ f.at = "load"
      /\ f.entry = None /\ f.next = Top(t).next
  BY <1>1 DEF Frame, TypeOK
<1>3. Replace(t, f)
  OBVIOUS
<1> HIDE DEF f
<1>4. /\ stack' \in [Thread -> Seq(Frame)]
      /\ stack'[t][Len(stack[t])] = f
  BY <1>1, <1>2, <1>3, Replaced
<1>5. /\ \A u \in Thread : Len(stack'[u]) = Len(stack[u]) /\ (stack'[u] = <<>> <=> stack[u] = <<>>)
      /\ \A u \in Thread : \A i \in 1 .. Len(stack[u]) :
            /\ stack'[u][i].op = stack[u][i].op /\ stack'[u][i].config = stack[u][i].config
            /\ u # t \/ i # Len(stack[u]) => stack'[u][i] = stack[u][i]
      /\ \A u \in Thread : stack[u] # <<>> =>
            stack'[u][1].op = stack[u][1].op /\ Config1(u)' = Config1(u)
  BY <1>1, <1>2, <1>3, Kept
<1>6. TypeOK'
  BY <1>4, <1>5 DEF TypeOK
<1>7. CallsInv'
  BY <1>1, <1>2, <1>4, <1>5 DEF CallsInv
<1>8. ParseInv'
  <2>1. \A u \in Thread : \A i \in 1 .. Len(stack[u]) :
            stack'[u][i].at = "parse" \/ stack[u][i].at = "parse" => stack'[u][i] = stack[u][i]
    BY <1>1, <1>2, <1>4, <1>5
  <2>2. \A u \in Thread : Len(stack'[u]) = Len(stack[u])
    BY <1>5
  <2>3. \A u \in Thread : \A i \in 1 .. Len(stack'[u]) : stack'[u][i].at = "parse" =>
            lock'[stack'[u][i].entry] = u /\ entries'[stack'[u][i].config] = stack'[u][i].entry
    BY <2>1, <2>2 DEF ParseInv
  <2>4. ASSUME NEW e \in Entry, lock[e] # None
        PROVE  \E i \in 1 .. Len(stack'[lock[e]]) :
                  stack'[lock[e]][i].at = "parse" /\ stack'[lock[e]][i].entry = e
    <3>1. lock[e] \in Thread
      BY <2>4 DEF TypeOK
    <3>2. PICK i \in 1 .. Len(stack[lock[e]]) : stack[lock[e]][i].at = "parse" /\ stack[lock[e]][i].entry = e
      BY <2>4 DEF ParseInv
    <3>3. stack'[lock[e]][i] = stack[lock[e]][i]
      BY <2>1, <3>1, <3>2
    <3> QED
      BY <2>2, <3>1, <3>2, <3>3
  <2> QED
    BY <2>3, <2>4 DEF ParseInv
<1>9. EntryInv'
  <2>1. \A u \in Thread : \A i \in 1 .. Len(stack'[u]) : stack'[u][i].at = "lock" =>
            stack'[u][i] = stack[u][i] /\ i \in 1 .. Len(stack[u])
    BY <1>1, <1>2, <1>4, <1>5
  <2>2. ASSUME NEW u \in Thread, NEW i \in 1 .. Len(stack'[u]), stack'[u][i].at = "lock"
        PROVE  /\ \A k \in Config \ {stack'[u][i].config} : entries[k] # stack'[u][i].entry
               /\ \/ entries[stack'[u][i].config] = stack'[u][i].entry
                  \/ owners[stack'[u][i].entry] = {} /\ stack'[u][i].op = "acquire"
    <3>1. stack'[u][i] = stack[u][i] /\ i \in 1 .. Len(stack[u])
      BY <2>1, <2>2
    <3> QED
      BY <2>2, <3>1 DEF EntryInv
  <2> QED
    BY <2>2, SMTT(30) DEF EntryInv
<1>10. OwnsInv'
  BY DEF OwnsInv
<1>11. ReleaseInv'
  BY <1>5 DEF ReleaseInv, In1
<1> QED
  BY <1>6, <1>7, <1>8, <1>9, <1>10, <1>11

\* The entry is stale: it is parsed again.
LEMMA ConfigsLockExpired ==
    ASSUME ConfigsInv, NEW t \in Thread, In(t, "lock"), lock[Top(t).entry] = None,
           Top(t).op = "acquire", ~Gone(Top(t).entry),
           lock' = [lock EXCEPT ![Top(t).entry] = t],
           Replace(t, [Top(t) EXCEPT !.at = "parse"]),
           DOMAIN read' = Entry,
           UNCHANGED <<entries, owners, owner, value, owns, disposed, calls, extends>>
    PROVE  ConfigsInv'
<1> USE DEF ConfigsInv
<1>1. /\ stack[t] # <<>> /\ Len(stack[t]) \in Nat \ {0} /\ Top(t) = stack[t][Len(stack[t])]
      /\ Len(stack[t]) \in 1 .. Len(stack[t]) /\ Top(t) \in Frame /\ Top(t).at = "lock"
      /\ Top(t).config \in Config
  BY TopFrame DEF In, Frame
<1>a. Top(t).entry \in Entry /\ Top(t).entry # None /\ entries[Top(t).config] = Top(t).entry
  BY <1>1, SMTT(30) DEF Frame, CallsInv, EntryInv, Gone
<1> DEFINE f == [Top(t) EXCEPT !.at = "parse"]
           e == Top(t).entry
<1>2. /\ f \in Frame /\ f.op = "acquire" /\ f.op = Top(t).op /\ f.config = Top(t).config /\ f.at = "parse"
      /\ f.entry = e /\ f.next = Top(t).next
  BY <1>1 DEF Frame, TypeOK
<1>3. Replace(t, f)
  OBVIOUS
<1>b. /\ lock'[e] = t /\ \A x \in Entry \ {e} : lock'[x] = lock[x]
      /\ lock' \in [Entry -> Thread \cup {None}]
  BY <1>a DEF TypeOK
<1> HIDE DEF f
<1>4. /\ stack' \in [Thread -> Seq(Frame)]
      /\ stack'[t][Len(stack[t])] = f
  BY <1>1, <1>2, <1>3, Replaced
<1>5. /\ \A u \in Thread : Len(stack'[u]) = Len(stack[u]) /\ (stack'[u] = <<>> <=> stack[u] = <<>>)
      /\ \A u \in Thread : \A i \in 1 .. Len(stack[u]) :
            /\ stack'[u][i].op = stack[u][i].op /\ stack'[u][i].config = stack[u][i].config
            /\ u # t \/ i # Len(stack[u]) => stack'[u][i] = stack[u][i]
      /\ \A u \in Thread : stack[u] # <<>> =>
            stack'[u][1].op = stack[u][1].op /\ Config1(u)' = Config1(u)
  BY <1>1, <1>2, <1>3, Kept
<1>6. TypeOK'
  BY <1>4, <1>5, <1>b DEF TypeOK
<1>7. CallsInv'
  BY <1>1, <1>2, <1>4, <1>5, <1>a DEF CallsInv
<1>8. ParseInv'
  <2>1. \A u \in Thread : \A i \in 1 .. Len(stack[u]) :
            stack'[u][i].at = "parse" <=>
                (u = t /\ i = Len(stack[u])) \/ (stack[u][i].at = "parse" /\ stack'[u][i] = stack[u][i])
    BY <1>1, <1>2, <1>4, <1>5
  <2>2. \A u \in Thread : \A i \in 1 .. Len(stack[u]) :
            stack[u][i].at = "parse" => stack[u][i].entry # e /\ stack[u][i].entry \in Entry
    <3> SUFFICES ASSUME NEW u \in Thread, NEW i \in 1 .. Len(stack[u]), stack[u][i].at = "parse"
                 PROVE  stack[u][i].entry # e /\ stack[u][i].entry \in Entry
      OBVIOUS
    <3>1. stack[u][i] \in Frame
      BY DEF TypeOK
    <3> QED
      BY <3>1, ConfigsAssumption DEF ParseInv, CallsInv, Frame
  <2>3. \A u \in Thread : \A i \in 1 .. Len(stack'[u]) : stack'[u][i].at = "parse" =>
            lock'[stack'[u][i].entry] = u /\ entries'[stack'[u][i].config] = stack'[u][i].entry
    BY <1>1, <1>2, <1>4, <1>5, <1>a, <1>b, <2>1, <2>2 DEF ParseInv
  <2>4. \A x \in Entry : lock'[x] # None =>
            \E i \in 1 .. Len(stack'[lock'[x]]) :
                stack'[lock'[x]][i].at = "parse" /\ stack'[lock'[x]][i].entry = x
    <3> SUFFICES ASSUME NEW x \in Entry, lock'[x] # None
                 PROVE  \E i \in 1 .. Len(stack'[lock'[x]]) :
                          stack'[lock'[x]][i].at = "parse" /\ stack'[lock'[x]][i].entry = x
      OBVIOUS
    <3>1. CASE x = e
      BY <1>1, <1>2, <1>4, <1>5, <1>b, <3>1
    <3>2. CASE x # e
      <4>1. lock'[x] = lock[x] /\ lock[x] \in Thread
        BY <1>b, <3>2 DEF TypeOK
      <4>2. PICK i \in 1 .. Len(stack[lock[x]]) : stack[lock[x]][i].at = "parse" /\ stack[lock[x]][i].entry = x
        BY <4>1 DEF ParseInv
      <4>3. stack'[lock[x]][i] = stack[lock[x]][i]
        BY <1>1, <1>5, <4>1, <4>2
      <4> QED
        BY <1>5, <4>1, <4>2, <4>3
    <3> QED
      BY <3>1, <3>2
  <2> QED
    BY <2>3, <2>4 DEF ParseInv
<1>9. EntryInv'
  <2>1. \A u \in Thread : \A i \in 1 .. Len(stack'[u]) : stack'[u][i].at = "lock" =>
            stack'[u][i] = stack[u][i] /\ i \in 1 .. Len(stack[u])
    BY <1>1, <1>2, <1>4, <1>5
  <2>2. ASSUME NEW u \in Thread, NEW i \in 1 .. Len(stack'[u]), stack'[u][i].at = "lock"
        PROVE  /\ \A k \in Config \ {stack'[u][i].config} : entries[k] # stack'[u][i].entry
               /\ \/ entries[stack'[u][i].config] = stack'[u][i].entry
                  \/ owners[stack'[u][i].entry] = {} /\ stack'[u][i].op = "acquire"
    <3>1. stack'[u][i] = stack[u][i] /\ i \in 1 .. Len(stack[u])
      BY <2>1, <2>2
    <3> QED
      BY <2>2, <3>1, SMTT(30) DEF EntryInv
  <2> QED
    BY <2>2, ZenonT(30) DEF EntryInv
<1>10. OwnsInv'
  <2>1. \A k \in Config : entries[k] # None /\ lock'[entries[k]] = None => lock[entries[k]] = None
    BY <1>a, <1>b, ConfigsAssumption DEF TypeOK
  <2> QED
    BY <2>1 DEF OwnsInv
<1>11. ReleaseInv'
  BY <1>5, SMTT(30) DEF ReleaseInv, In1
<1> QED
  BY <1>6, <1>7, <1>8, <1>9, <1>10, <1>11

\* A call that takes ownership returns: a config found fresh, an AddOwner, or
\* a config that was parsed.
LEMMA ConfigsOwn ==
    ASSUME ConfigsInv, NEW t \in Thread, stack[t] # <<>>, NEW e \in Entry, Top(t).entry = e,
           entries[Top(t).config] = e, lock[e] \in {None, t}, Top(t).op \in {"acquire", "add"},
           Own(t, e), Return(t, e), DOMAIN value' = Entry, DOMAIN read' = Entry,
           UNCHANGED <<entries, disposed, calls, extends>>
    PROVE  ConfigsInv'
<1> USE DEF ConfigsInv
<1>1. /\ Len(stack[t]) \in Nat \ {0} /\ Top(t) = stack[t][Len(stack[t])]
      /\ Len(stack[t]) \in 1 .. Len(stack[t]) /\ 1 \in 1 .. Len(stack[t])
      /\ Top(t) \in Frame /\ Top(t).config \in Config
  BY TopFrame DEF Frame
<1>2. /\ stack' \in [Thread -> Seq(Frame)]
      /\ \A u \in Thread \ {t} : stack'[u] = stack[u]
      /\ Len(stack'[t]) = Len(stack[t]) - 1
      /\ \A i \in 1 .. Len(stack[t]) - 1 : stack'[t][i] = stack[t][i]
      /\ stack'[t] = <<>> <=> Len(stack[t]) = 1
  BY Popped DEF Return
<1>3. \A u \in Thread : \A i \in 1 .. Len(stack'[u]) :
            /\ i \in 1 .. Len(stack[u]) /\ stack'[u][i] = stack[u][i]
            /\ u = t => i < Len(stack[t])
  BY <1>1, <1>2
<1>4. \A u \in Thread : \A i \in 1 .. Len(stack[u]) : u # t \/ i < Len(stack[t]) => i \in 1 .. Len(stack'[u])
  BY <1>1, <1>2
<1>5. owner[t] \in Owner /\ \A u \in Thread : stack'[u] # <<>> => owner'[u] = owner[u] /\ stack[u] # <<>>
  BY <1>1, <1>2 DEF Return, Leave, TypeOK
<1>6. /\ owners'[e] = owners[e] \cup {owner[t]} /\ \A x \in Entry \ {e} : owners'[x] = owners[x]
      /\ owners' \in [Entry -> SUBSET Owner]
  BY <1>5 DEF Own, TypeOK
<1>7. /\ owns'[owner[t]] = owns[owner[t]] \cup {Top(t).config}
      /\ \A p \in Owner \ {owner[t]} : owns'[p] = owns[p]
      /\ owns' \in [Owner -> SUBSET Config]
  BY <1>1, <1>5 DEF Own, TypeOK
<1>8. /\ lock'[e] = None /\ \A x \in Entry \ {e} : lock'[x] = lock[x]
      /\ lock' \in [Entry -> Thread \cup {None}]
  BY DEF Return, TypeOK
<1>9. TypeOK'
  <2>1. owner' \in [Thread -> Owner \cup {None}]
    BY DEF Return, Leave, TypeOK
  <2>2. owner'[t] = None <=> stack'[t] = <<>>
    BY <1>1, <1>2, <1>5, ConfigsAssumption DEF Return, Leave, TypeOK
  <2>3. \A u \in Thread \ {t} : owner'[u] = None <=> stack'[u] = <<>>
    BY <1>2 DEF Return, Leave, TypeOK
  <2> QED
    BY <1>2, <1>6, <1>7, <1>8, <2>1, <2>2, <2>3 DEF TypeOK
<1>10. CallsInv'
  <2>1. \A u \in Thread : Len(stack'[u]) > 1 => Len(stack[u]) > 1
    BY <1>1, <1>2, SMTT(30)
  <2>2. \A u \in Thread : \A i \in 1 .. Len(stack'[u]) : i < Len(stack'[u]) => i < Len(stack[u])
    BY <1>1, <1>2
  <2> SUFFICES ASSUME NEW u \in Thread, NEW i \in 1 .. Len(stack'[u])
               PROVE  /\ i < Len(stack'[u]) => stack'[u][i].at = "parse"
                      /\ stack'[u][i].at = "parse" \/ Len(stack'[u]) > 1 => stack'[u][i].op = "acquire"
                      /\ stack'[u][i].at = "load" <=> stack'[u][i].entry = None
                      /\ stack'[u][i].next >= 1
                      /\ \A j \in 1 .. Len(stack'[u]) : stack'[u][i].config = stack'[u][j].config => i = j
    BY DEF CallsInv
  <2>3. /\ i \in 1 .. Len(stack[u]) /\ stack'[u][i] = stack[u][i]
        /\ \A j \in 1 .. Len(stack'[u]) : j \in 1 .. Len(stack[u]) /\ stack'[u][j] = stack[u][j]
    BY <1>3
  <2>4. /\ i < Len(stack[u]) => stack[u][i].at = "parse"
        /\ stack[u][i].at = "parse" \/ Len(stack[u]) > 1 => stack[u][i].op = "acquire"
        /\ stack[u][i].at = "load" <=> stack[u][i].entry = None
        /\ stack[u][i].next >= 1
        /\ \A j \in 1 .. Len(stack[u]) : stack[u][i].config = stack[u][j].config => i = j
    BY <2>3 DEF CallsInv
  <2> QED
    BY <2>1, <2>2, <2>3, <2>4
<1>11. ParseInv'
  <2>1. ASSUME NEW u \in Thread, NEW i \in 1 .. Len(stack'[u]), stack'[u][i].at = "parse"
        PROVE  lock'[stack'[u][i].entry] = u /\ entries'[stack'[u][i].config] = stack'[u][i].entry
    <3>1. stack'[u][i] = stack[u][i] /\ i \in 1 .. Len(stack[u]) /\ (u = t => i < Len(stack[t]))
      BY <1>3
    <3>2. /\ lock[stack[u][i].entry] = u /\ entries[stack[u][i].config] = stack[u][i].entry
          /\ stack[u][i].entry # None
      BY <2>1, <3>1 DEF ParseInv, CallsInv
    <3>3. stack[u][i].entry \in Entry /\ stack[u][i].config \in Config
      <4>1. stack[u][i] \in Frame
        BY <3>1 DEF TypeOK
      <4> QED
        BY <3>2, <4>1 DEF Frame
    <3>4. stack[u][i].entry # e
      <4> SUFFICES ASSUME stack[u][i].entry = e PROVE FALSE
        OBVIOUS
      <4>1. u = t
        BY <3>2, ConfigsAssumption
      <4>2. stack[t][i].config = stack[t][Len(stack[t])].config
        BY <1>1, <3>2, <3>3, <4>1 DEF EntryInv
      <4>3. i = Len(stack[t])
        BY <1>1, <3>1, <4>1, <4>2 DEF CallsInv
      <4> QED
        BY <1>1, <3>1, <4>1, <4>3
    <3> QED
      BY <1>8, <3>1, <3>2, <3>3, <3>4
  <2>2. ASSUME NEW x \in Entry, lock'[x] # None
        PROVE  \E i \in 1 .. Len(stack'[lock'[x]]) :
                  stack'[lock'[x]][i].at = "parse" /\ stack'[lock'[x]][i].entry = x
    <3>1. x # e /\ lock'[x] = lock[x] /\ lock[x] \in Thread
      BY <1>8, <2>2 DEF TypeOK
    <3>2. PICK i \in 1 .. Len(stack[lock[x]]) : stack[lock[x]][i].at = "parse" /\ stack[lock[x]][i].entry = x
      BY <2>2, <3>1 DEF ParseInv
    <3>3. lock[x] = t => i # Len(stack[t])
      BY <1>1, <3>1, <3>2
    <3>4. lock[x] = t => i < Len(stack[t])
      BY <1>1, <3>2, <3>3
    <3>5. i \in 1 .. Len(stack'[lock[x]])
      BY <1>4, <3>1, <3>4
    <3> QED
      BY <1>3, <3>1, <3>2, <3>5
  <2> QED
    BY <2>1, <2>2 DEF ParseInv
<1>12. EntryInv'
  <2>1. ASSUME NEW u \in Thread, NEW i \in 1 .. Len(stack'[u]), stack'[u][i].at = "lock"
        PROVE  /\ \A k \in Config \ {stack'[u][i].config} : entries[k] # stack'[u][i].entry
               /\ \/ entries[stack'[u][i].config] = stack'[u][i].entry
                  \/ owners'[stack'[u][i].entry] = {} /\ stack'[u][i].op = "acquire"
    <3>1. stack'[u][i] = stack[u][i] /\ i \in 1 .. Len(stack[u])
      BY <1>3
    <3>2. stack[u][i].entry # None /\ stack[u][i] \in Frame
      BY <2>1, <3>1 DEF CallsInv, TypeOK
    <3>3. stack[u][i].entry \in Entry
      BY <3>2 DEF Frame
    <3>4. /\ \A k \in Config \ {stack[u][i].config} : entries[k] # stack[u][i].entry
          /\ \/ entries[stack[u][i].config] = stack[u][i].entry
             \/ owners[stack[u][i].entry] = {} /\ stack[u][i].op = "acquire"
      BY <2>1, <3>1 DEF EntryInv
    <3>5. CASE stack[u][i].entry = e
      <4>1. stack[u][i].config = Top(t).config
        BY <1>1, <3>4, <3>5
      <4> QED
        BY <3>1, <3>4, <3>5, <4>1
    <3>6. CASE stack[u][i].entry # e
      BY <1>6, <3>1, <3>3, <3>4, <3>6
    <3> QED
      BY <3>5, <3>6
  <2> QED
    BY <2>1 DEF EntryInv
<1>13. OwnsInv'
  <2>1. \A o \in Owner : \A k \in owns'[o] : entries[k] # None /\ o \in owners'[entries[k]]
    <3> SUFFICES ASSUME NEW o \in Owner, NEW k \in owns'[o]
                 PROVE  entries[k] # None /\ o \in owners'[entries[k]]
      OBVIOUS
    <3>1. CASE k \in owns[o]
      <4>1. entries[k] # None /\ o \in owners[entries[k]] /\ k \in Config
        BY <3>1 DEF OwnsInv, TypeOK
      <4>2. entries[k] \in Entry
        BY <4>1 DEF TypeOK
      <4> QED
        BY <1>6, <4>1, <4>2
    <3>2. CASE k \notin owns[o]
      <4>1. o = owner[t] /\ k = Top(t).config
        BY <1>7, <3>2
      <4> QED
        BY <1>6, <4>1, ConfigsAssumption
    <3> QED
      BY <3>1, <3>2
  <2>2. \A k \in Config : entries[k] # None /\ lock'[entries[k]] = None => owners'[entries[k]] # {}
    <3> SUFFICES ASSUME NEW k \in Config, entries[k] # None, lock'[entries[k]] = None
                 PROVE  owners'[entries[k]] # {}
      OBVIOUS
    <3>1. entries[k] \in Entry
      BY DEF TypeOK
    <3> QED
      BY <1>6, <1>8, <3>1 DEF OwnsInv
  <2> QED
    BY <2>1, <2>2 DEF OwnsInv
<1>14. ReleaseInv'
  <2>1. owner[t] \notin disposed
    <3>1. stack[t][1].op \in {"acquire", "add"}
      <4>1. Len(stack[t]) > 1 => stack[t][1].op = "acquire"
        BY <1>1 DEF CallsInv
      <4>2. Len(stack[t]) = 1 => Top(t) = stack[t][1]
        BY <1>1
      <4>3. Len(stack[t]) > 1 \/ Len(stack[t]) = 1
        BY <1>1, OneOrMore
      <4> QED
        BY <4>1, <4>2, <4>3
    <3> QED
      BY <3>1 DEF ReleaseInv, In1
  <2>2. \A q : \A u \in Thread : In1(u, q)' => In1(u, q) /\ Config1(u)' = Config1(u) /\ owner'[u] = owner[u]
    <3> SUFFICES ASSUME NEW u \in Thread, NEW q, In1(u, q)'
                 PROVE  In1(u, q) /\ Config1(u)' = Config1(u) /\ owner'[u] = owner[u]
      OBVIOUS
    <3>1. stack'[u] # <<>> /\ stack'[u][1].op \in q
      BY DEF In1
    <3>2. 1 \in 1 .. Len(stack'[u])
      <4>1. stack'[u] \in Seq(Frame)
        BY <1>2
      <4> QED
        BY <3>1, <4>1
    <3>3. stack'[u][1] = stack[u][1]
      BY <1>3, <3>2
    <3> QED
      BY <1>5, <3>1, <3>3 DEF In1, Config1
  <2>3. \A u \in Thread : In1(u, {"release"}) =>
            /\ owner[u] # owner[t] /\ owner[u] \in Owner /\ Config1(u) \in Config
            /\ entries[Config1(u)] \in Entry
    <3> SUFFICES ASSUME NEW u \in Thread, In1(u, {"release"})
                 PROVE  /\ owner[u] # owner[t] /\ owner[u] \in Owner /\ Config1(u) \in Config
                        /\ entries[Config1(u)] \in Entry
      OBVIOUS
    <3>1. stack[u] # <<>> /\ stack[u][1] \in Frame
      <4>1. stack[u] # <<>>
        BY DEF In1
      <4>2. 1 \in 1 .. Len(stack[u]) /\ \A i \in 1 .. Len(stack[u]) : stack[u][i] \in Frame
        BY <4>1, TopFrame
      <4> QED
        BY <4>1, <4>2
    <3>2. Config1(u) \in Config
      BY <3>1 DEF Frame, Config1
    <3> QED
      BY <2>1, <3>1, <3>2 DEF ReleaseInv, TypeOK
  <2>4. \A u \in Thread : In1(u, {"acquire", "add"})' => owner'[u] \notin disposed'
    BY <2>2 DEF ReleaseInv
  <2>5. \A u \in Thread : In1(u, {"add"})' => \E p \in Owner \ {owner'[u]} : Config1(u)' \in owns'[p]
    BY <1>7, <2>2 DEF ReleaseInv
  <2>6. ASSUME NEW u \in Thread, In1(u, {"release"})'
        PROVE  /\ owner'[u] \in disposed' /\ Config1(u)' \notin owns'[owner'[u]]
               /\ entries'[Config1(u)'] # None /\ owner'[u] \in owners'[entries'[Config1(u)']]
               /\ \A w \in Thread \ {u} : In1(w, {"release"})' /\ Config1(w)' = Config1(u)'
                       => owner'[w] # owner'[u]
    <3>1. In1(u, {"release"}) /\ Config1(u)' = Config1(u) /\ owner'[u] = owner[u]
      BY <2>2, <2>6
    <3>2. /\ owner[u] \in disposed /\ Config1(u) \notin owns[owner[u]]
          /\ entries[Config1(u)] # None /\ owner[u] \in owners[entries[Config1(u)]]
      BY <3>1 DEF ReleaseInv
    <3>3. Config1(u) \notin owns'[owner[u]] /\ owner[u] \in owners'[entries[Config1(u)]]
      BY <1>6, <1>7, <2>3, <3>1, <3>2
    <3>4. \A w \in Thread \ {u} : In1(w, {"release"})' /\ Config1(w)' = Config1(u)'
                       => owner'[w] # owner'[u]
      BY <2>2, <3>1 DEF ReleaseInv
    <3> QED
      BY <3>1, <3>2, <3>3, <3>4
  <2> QED
    BY <2>4, <2>5, <2>6 DEF ReleaseInv
<1> QED
  BY <1>9, <1>10, <1>11, <1>12, <1>13, <1>14

\* Release's critical section.
LEMMA ConfigsLockRelease ==
    ASSUME ConfigsInv, NEW t \in Thread, LockRelease(t)
    PROVE  ConfigsInv'
<1> USE DEF ConfigsInv
<1>1. /\ stack[t] # <<>> /\ Top(t).at = "lock" /\ Top(t).op = "release" /\ lock[Top(t).entry] = None
      /\ Return(t, Top(t).entry) /\ UNCHANGED <<value, read, owns, disposed, calls, extends>>
      /\ owners' = [owners EXCEPT ![Top(t).entry] = owners[Top(t).entry] \ {owner[t]}]
      /\ Drop(Top(t).config, owners[Top(t).entry] \ {owner[t]})
  BY DEF LockRelease, In
<1>2. /\ Len(stack[t]) = 1 /\ Top(t) = stack[t][1] /\ 1 \in 1 .. Len(stack[t])
      /\ Top(t) \in Frame /\ Top(t).config \in Config
  <2>1. Len(stack[t]) = 1 /\ Top(t) = stack[t][1]
    BY <1>1, OneCall
  <2>2. stack[t][1] \in Frame
    BY <1>1, <2>1, TopFrame
  <2> QED
    BY <2>1, <2>2 DEF Frame
<1> DEFINE e == Top(t).entry
           k == Top(t).config
           left == owners[e] \ {owner[t]}
<1>3. e \in Entry /\ entries[k] = e
  BY <1>1, <1>2 DEF CallsInv, EntryInv, Frame
<1>4. /\ stack' \in [Thread -> Seq(Frame)]
      /\ \A u \in Thread \ {t} : stack'[u] = stack[u]
      /\ stack'[t] = <<>>
  BY <1>1, <1>2, Popped DEF Return
<1>5. \A u \in Thread : stack'[u] # <<>> => u # t /\ stack'[u] = stack[u]
  BY <1>4
<1>6. \A u \in Thread : \A i \in 1 .. Len(stack'[u]) : u # t /\ i \in 1 .. Len(stack[u]) /\ stack'[u][i] = stack[u][i]
  BY <1>4
<1>7. lock' = lock
  BY <1>1, <1>3 DEF Return, TypeOK
<1>8. /\ owners'[e] = left /\ \A x \in Entry \ {e} : owners'[x] = owners[x]
      /\ owners' \in [Entry -> SUBSET Owner]
  BY <1>1, <1>3 DEF TypeOK
<1>9. /\ entries' \in [Config -> Entry \cup {None}]
      /\ \A j \in Config \ {k} : entries'[j] = entries[j]
      /\ entries'[k] = IF left = {} THEN None ELSE e
  BY <1>1, <1>2, <1>3 DEF Drop, TypeOK
<1>10. owner[t] \in Owner /\ owner'[t] = None /\ owner' \in [Thread -> Owner \cup {None}]
        /\ \A u \in Thread \ {t} : owner'[u] = owner[u]
  BY <1>1, <1>2 DEF Return, Leave, TypeOK
<1> HIDE DEF e, k, left
<1>11. TypeOK'
  <2>1. \A u \in Thread : owner'[u] = None <=> stack'[u] = <<>>
    BY <1>4, <1>10 DEF TypeOK
  <2>2. DOMAIN value' = Entry /\ DOMAIN read' = Entry /\ owns' \in [Owner -> SUBSET Config] /\ disposed' \subseteq Owner
          /\ calls' \in 0 .. MaxCalls /\ lock' \in [Entry -> Thread \cup {None}]
    BY <1>1, <1>7 DEF TypeOK
  <2> QED
    BY <1>4, <1>8, <1>9, <1>10, <2>1, <2>2 DEF TypeOK
<1>12. CallsInv'
  <2>1. \A u \in Thread : \A i \in 1 .. Len(stack'[u]) : stack'[u] = stack[u]
    BY <1>4
  <2> QED
    BY <2>1 DEF CallsInv
<1>13. In1(t, {"release"}) /\ Config1(t) = k
  BY <1>1, <1>2 DEF In1, Config1, k
<1>14. \A u \in Thread : \A i \in 1 .. Len(stack[u]) :
            stack[u][i].at = "parse" => stack[u][i].config # k /\ stack[u][i].config \in Config
  <2> SUFFICES ASSUME NEW u \in Thread, NEW i \in 1 .. Len(stack[u]), stack[u][i].at = "parse"
               PROVE  stack[u][i].config # k /\ stack[u][i].config \in Config
    OBVIOUS
  <2>1. stack[u][i].config \in Config
    <3>1. stack[u][i] \in Frame
      BY DEF TypeOK
    <3> QED
      BY <3>1 DEF Frame
  <2> QED
    <3>1. lock[stack[u][i].entry] = u /\ entries[stack[u][i].config] = stack[u][i].entry
      BY DEF ParseInv
    <3>2. lock[e] # u
      BY <1>1, ConfigsAssumption DEF e
    <3> QED
      BY <1>3, <2>1, <3>1, <3>2
<1>15. ParseInv'
  <2>1. ASSUME NEW u \in Thread, NEW i \in 1 .. Len(stack'[u]), stack'[u][i].at = "parse"
        PROVE  lock'[stack'[u][i].entry] = u /\ entries'[stack'[u][i].config] = stack'[u][i].entry
    BY <1>6, <1>7, <1>9, <1>14, <2>1 DEF ParseInv
  <2>2. ASSUME NEW x \in Entry, lock[x] # None
        PROVE  \E i \in 1 .. Len(stack'[lock[x]]) :
                  stack'[lock[x]][i].at = "parse" /\ stack'[lock[x]][i].entry = x
    <3>1. lock[x] \in Thread
      BY <2>2 DEF TypeOK
    <3>2. PICK i \in 1 .. Len(stack[lock[x]]) : stack[lock[x]][i].at = "parse" /\ stack[lock[x]][i].entry = x
      BY <2>2 DEF ParseInv
    <3>3. lock[x] # t
      <4> SUFFICES ASSUME lock[x] = t PROVE FALSE
        OBVIOUS
      <4>1. i = 1
        BY <1>2, <3>2
      <4> QED
        BY <1>1, <1>2, <3>2, <4>1
    <3> QED
      BY <1>4, <3>1, <3>2, <3>3
  <2> QED
    BY <1>7, <2>1, <2>2 DEF ParseInv
<1>16. \A u \in Thread \ {t} : In1(u, {"release"}) /\ Config1(u) = k => owner[u] \in left /\ owner[u] # owner[t]
  BY <1>3, <1>13 DEF ReleaseInv, left, e
<1>17. \A p \in Owner : k \in owns[p] => p \in left
  BY <1>3, <1>13 DEF ReleaseInv, OwnsInv, left
<1>18. EntryInv'
  <2>1. \A j, l \in Config : entries'[j] = entries'[l] /\ entries'[j] # None => j = l
    BY <1>3, <1>9 DEF EntryInv
  <2>2. ASSUME NEW u \in Thread, NEW i \in 1 .. Len(stack'[u]), stack'[u][i].at = "lock"
        PROVE  /\ \A j \in Config \ {stack'[u][i].config} : entries'[j] # stack'[u][i].entry
               /\ \/ entries'[stack'[u][i].config] = stack'[u][i].entry
                  \/ owners'[stack'[u][i].entry] = {} /\ stack'[u][i].op = "acquire"
    <3>1. stack'[u][i] = stack[u][i] /\ i \in 1 .. Len(stack[u]) /\ u # t
      BY <1>6
    <3>2. stack[u][i] \in Frame /\ stack[u][i].entry # None
      BY <2>2, <3>1 DEF CallsInv, TypeOK
    <3>3. stack[u][i].entry \in Entry /\ stack[u][i].config \in Config
      BY <3>2 DEF Frame
    <3>4. /\ \A j \in Config \ {stack[u][i].config} : entries[j] # stack[u][i].entry
          /\ \/ entries[stack[u][i].config] = stack[u][i].entry
             \/ owners[stack[u][i].entry] = {} /\ stack[u][i].op = "acquire"
      BY <2>2, <3>1 DEF EntryInv
    <3>5. \A j \in Config \ {stack[u][i].config} : entries'[j] # stack[u][i].entry
      BY <1>3, <1>9, <3>2, <3>4
    <3>6. CASE stack[u][i].entry # e
      <4>1. entries[stack[u][i].config] = stack[u][i].entry => stack[u][i].config # k
        BY <1>3, <3>6
      <4> QED
        BY <1>8, <1>9, <3>1, <3>3, <3>4, <3>5, <3>6, <4>1
    <3>7. CASE stack[u][i].entry = e
      <4>1. stack[u][i].config = k
        BY <1>2, <1>3, <3>4, <3>7 DEF k
      <4>2. stack[u][i].op # "acquire" => left # {}
        <5> SUFFICES ASSUME stack[u][i].op # "acquire" PROVE left # {}
          OBVIOUS
        <5>1. stack[u] # <<>>
          BY <1>5, <3>1
        <5>2. i = 1
          <6>1. Len(stack[u]) \in Nat \ {0}
            BY <5>1, TopFrame
          <6>2. ~(Len(stack[u]) > 1)
            BY <3>1 DEF CallsInv
          <6>3. Len(stack[u]) = 1
            BY <6>1, <6>2, OneOrMore
          <6> QED
            BY <3>1, <6>3
        <5>3. stack[u][1].op \in {"add", "release"}
          BY <3>2, <5>2 DEF Frame
        <5>4. Config1(u) = k
          BY <4>1, <5>2 DEF Config1
        <5>5. CASE stack[u][1].op = "release"
          BY <1>16, <3>1, <5>1, <5>4, <5>5 DEF In1
        <5>6. CASE stack[u][1].op = "add"
          BY <1>17, <5>1, <5>4, <5>6 DEF In1, ReleaseInv
        <5> QED
          BY <5>3, <5>5, <5>6
      <4>3. CASE left = {}
        BY <1>8, <3>1, <3>5, <3>7, <4>2, <4>3
      <4>4. CASE left # {}
        BY <1>9, <3>1, <3>5, <3>7, <4>1, <4>4
      <4> QED
        BY <4>3, <4>4
    <3> QED
      BY <3>6, <3>7
  <2> QED
    BY <2>1, <2>2 DEF EntryInv
<1>19. OwnsInv'
  <2>1. ASSUME NEW o \in Owner, NEW j \in owns[o] PROVE entries'[j] # None /\ o \in owners'[entries'[j]]
    <3>1. entries[j] # None /\ o \in owners[entries[j]] /\ j \in Config /\ entries[j] \in Entry
      BY DEF OwnsInv, TypeOK
    <3>2. CASE j = k
      BY <1>3, <1>8, <1>9, <1>17, <3>1, <3>2
    <3>3. CASE j # k
      <4>1. entries[j] # e
        BY <1>2, <1>3, <3>1, <3>3 DEF EntryInv, k
      <4> QED
        BY <1>8, <1>9, <3>1, <3>3, <4>1
    <3> QED
      BY <3>2, <3>3
  <2>2. ASSUME NEW j \in Config, entries'[j] # None, lock[entries'[j]] = None PROVE owners'[entries'[j]] # {}
    <3>1. CASE j = k
      BY <1>8, <1>9, <2>2, <3>1
    <3>2. CASE j # k
      <4>1. entries'[j] = entries[j] /\ entries[j] \in Entry /\ owners[entries[j]] # {}
        BY <1>9, <2>2, <3>2 DEF OwnsInv, TypeOK
      <4>2. entries[j] # e
        BY <1>2, <1>3, <2>2, <3>2, <4>1 DEF EntryInv, k
      <4> QED
        BY <1>8, <4>1, <4>2
    <3> QED
      BY <3>1, <3>2
  <2> QED
    BY <1>1, <1>7, <2>1, <2>2 DEF OwnsInv
<1>20. ReleaseInv'
  <2>1. \A q : \A u \in Thread : In1(u, q)' => u # t /\ In1(u, q) /\ Config1(u)' = Config1(u) /\ owner'[u] = owner[u]
    BY <1>5, <1>10 DEF In1, Config1
  <2>2. \A u \in Thread : In1(u, {"acquire", "add"})' => owner'[u] \notin disposed'
    BY <1>1, <2>1 DEF ReleaseInv
  <2>3. \A u \in Thread : In1(u, {"add"})' => \E p \in Owner \ {owner'[u]} : Config1(u)' \in owns'[p]
    BY <1>1, <2>1 DEF ReleaseInv
  <2>4. ASSUME NEW u \in Thread, In1(u, {"release"})'
        PROVE  /\ owner'[u] \in disposed' /\ Config1(u)' \notin owns'[owner'[u]]
               /\ entries'[Config1(u)'] # None /\ owner'[u] \in owners'[entries'[Config1(u)']]
               /\ \A w \in Thread \ {u} : In1(w, {"release"})' /\ Config1(w)' = Config1(u)'
                       => owner'[w] # owner'[u]
    <3>1. u # t /\ In1(u, {"release"}) /\ Config1(u)' = Config1(u) /\ owner'[u] = owner[u]
      BY <2>1, <2>4
    <3>2. /\ owner[u] \in disposed /\ Config1(u) \notin owns[owner[u]]
          /\ entries[Config1(u)] # None /\ owner[u] \in owners[entries[Config1(u)]]
      BY <3>1 DEF ReleaseInv
    <3>3. Config1(u) \in Config
      <4>1. stack[u] # <<>>
        BY <3>1 DEF In1
      <4>2. 1 \in 1 .. Len(stack[u]) /\ \A i \in 1 .. Len(stack[u]) : stack[u][i] \in Frame
        BY <4>1, TopFrame
      <4> QED
        BY <4>2 DEF Frame, Config1
    <3>4. entries'[Config1(u)] # None /\ owner[u] \in owners'[entries'[Config1(u)]]
      <4>1. CASE Config1(u) = k
        BY <1>3, <1>8, <1>9, <1>16, <3>1, <4>1, ConfigsAssumption
      <4>2. CASE Config1(u) # k
        <5>1. entries[Config1(u)] # e /\ entries[Config1(u)] \in Entry
          BY <1>2, <1>3, <3>2, <3>3, <4>2 DEF EntryInv, TypeOK, k
        <5> QED
          BY <1>8, <1>9, <3>2, <3>3, <4>2, <5>1
      <4> QED
        BY <4>1, <4>2
    <3>5. \A w \in Thread \ {u} : In1(w, {"release"})' /\ Config1(w)' = Config1(u)'
                       => owner'[w] # owner'[u]
      BY <2>1, <3>1 DEF ReleaseInv
    <3> QED
      BY <1>1, <3>1, <3>2, <3>4, <3>5
  <2> QED
    BY <2>2, <2>3, <2>4 DEF ReleaseInv
<1>21. (extends \in Graphs)'
  BY <1>1
<1> QED
  BY <1>11, <1>12, <1>15, <1>18, <1>19, <1>20, <1>21

\* There is an entry that is not in the map and that nobody is at.
LEMMA NewConfigEntry ==
    ASSUME ConfigsInv, NEW c \in Config, entries[c] = None
    PROVE  /\ NewEntry \in Entry
           /\ \A k \in Config : entries[k] # NewEntry
           /\ \A t \in Thread : \A i \in 1 .. Len(stack[t]) : stack[t][i].entry # NewEntry
<1> DEFINE tops == [u \in Thread |-> IF stack[u] = <<>> THEN None ELSE Top(u).entry]
           A == {entries[k] : k \in Config}
           B == {tops[u] : u \in Thread}
<1>1. IsFiniteSet(A) /\ Cardinality(A) <= Cardinality(Config) /\ None \in A
  <2>1. entries = [k \in Config |-> entries[k]]
    BY DEF ConfigsInv, TypeOK
  <2>2. None \in A
    OBVIOUS
  <2> QED
    BY <2>1, <2>2, ImageBound, ConfigsAssumption
<1>2. IsFiniteSet(B) /\ Cardinality(B) <= Cardinality(Thread)
  <2>1. tops = [u \in Thread |-> tops[u]]
    OBVIOUS
  <2> HIDE DEF tops
  <2> QED
    BY <2>1, ImageBound, ConfigsAssumption
<1>3. ~(Entry \subseteq A \cup B)
  <2> HIDE DEF A, B
  <2> SUFFICES ASSUME Entry \subseteq A \cup B PROVE FALSE
    OBVIOUS
  <2>1. IsFiniteSet(A \cup B) /\ Cardinality(A \cup B) = Cardinality(A) + Cardinality(B) - Cardinality(A \cap B)
    BY <1>1, <1>2, FS_Union
  <2>2. Cardinality(A \cap B) \in Nat
    BY <1>1, FS_Intersection, FS_CardinalityType
  <2>3. Cardinality(A) \in Nat /\ Cardinality(B) \in Nat
    BY <1>1, <1>2, FS_CardinalityType
  <2>4. Cardinality(Config) \in Nat /\ Cardinality(Thread) \in Nat
    BY FS_CardinalityType, ConfigsAssumption
  <2>5. IsFiniteSet(Entry) /\ Cardinality(Entry) = Cardinality(Config) + Cardinality(Thread)
    <3> DEFINE n == Cardinality(Config) + Cardinality(Thread)
    <3>1. n \in Nat
      BY <2>4
    <3> HIDE DEF n
    <3>2. IsFiniteSet(1 .. n) /\ Cardinality(1 .. n) = n
      BY <3>1, FS_Interval
    <3> QED
      BY <3>2 DEF n, Entry
  <2>6. None \notin Entry
    BY ConfigsAssumption
  <2>7. IsFiniteSet(Entry \cup {None}) /\ Cardinality(Entry \cup {None}) = Cardinality(Entry) + 1
    BY <2>5, <2>6, FS_AddElement
  <2>8. Entry \cup {None} \subseteq A \cup B
    BY <1>1
  <2>9. Cardinality(Entry \cup {None}) <= Cardinality(A \cup B)
    BY <2>1, <2>8, FS_Subset
  <2> QED
    BY <1>1, <1>2, <2>1, <2>2, <2>3, <2>4, <2>5, <2>7, <2>9
<1>4. PICK e \in Entry : e \notin A /\ e \notin B
  BY <1>3
<1>5. \A t \in Thread : \A i \in 1 .. Len(stack[t]) : stack[t][i].entry # e
  <2> SUFFICES ASSUME NEW t \in Thread, NEW i \in 1 .. Len(stack[t]), stack[t][i].entry = e PROVE FALSE
    OBVIOUS
  <2>1. stack[t] # <<>> /\ stack[t] \in Seq(Frame) /\ stack[t][i].config \in Config
    <3>1. stack[t] \in Seq(Frame)
      BY DEF ConfigsInv, TypeOK
    <3>2. stack[t][i] \in Frame
      BY <3>1
    <3>3. stack[t] # <<>>
      BY <3>1
    <3> QED
      BY <3>1, <3>2, <3>3 DEF Frame
  <2>2. Top(t) = stack[t][Len(stack[t])]
    BY <2>1, TopFrame DEF ConfigsInv
  <2>3. CASE i = Len(stack[t])
    <3>1. tops[t] = e
      BY <2>1, <2>2, <2>3
    <3> QED
      BY <1>4, <3>1
  <2>4. CASE i # Len(stack[t])
    <3>1. i < Len(stack[t])
      BY <2>1, <2>4
    <3>2. entries[stack[t][i].config] = stack[t][i].entry
      BY <3>1 DEF ConfigsInv, CallsInv, ParseInv
    <3> QED
      BY <1>4, <2>1, <3>2
  <2> QED
    BY <2>3, <2>4
<1>6. \A k \in Config : entries[k] # e
  BY <1>4
<1>7. \A t \in Thread : DOMAIN stack[t] = 1 .. Len(stack[t])
  BY DEF ConfigsInv, TypeOK
<1>8. \E x \in Entry : /\ \A k \in Config : entries[k] # x
                       /\ \A t \in Thread : \A i \in DOMAIN stack[t] : stack[t][i].entry # x
  BY <1>5, <1>6, <1>7
<1> QED
  BY <1>7, <1>8 DEF NewEntry

LEMMA ConfigsLoadNew ==
    ASSUME ConfigsInv, NEW t \in Thread, In(t, "load"), entries[Top(t).config] = None,
           Top(t).op = "acquire", NEW e \in Entry,
           \A k \in Config : entries[k] # e,
           \A u \in Thread : \A i \in 1 .. Len(stack[u]) : stack[u][i].entry # e,
           entries' = [entries EXCEPT ![Top(t).config] = e],
           lock' = [lock EXCEPT ![e] = t], owners' = [owners EXCEPT ![e] = {}],
           Replace(t, [Top(t) EXCEPT !.entry = e, !.at = "parse"]),
           DOMAIN read' = Entry,
           UNCHANGED <<owner, value, owns, disposed, calls, extends>>
    PROVE  ConfigsInv'
<1> USE DEF ConfigsInv
<1>1. /\ stack[t] # <<>> /\ Len(stack[t]) \in Nat \ {0} /\ Top(t) = stack[t][Len(stack[t])]
      /\ Len(stack[t]) \in 1 .. Len(stack[t]) /\ Top(t) \in Frame /\ Top(t).at = "load"
      /\ Top(t).config \in Config
  BY TopFrame DEF In, Frame
<1> DEFINE f == [Top(t) EXCEPT !.entry = e, !.at = "parse"]
           c == Top(t).config
<1>2. /\ f \in Frame /\ f.op = "acquire" /\ f.op = Top(t).op /\ f.config = c /\ f.at = "parse"
      /\ f.entry = e /\ f.next = Top(t).next /\ f.config = Top(t).config
  BY <1>1 DEF Frame, TypeOK
<1>3. Replace(t, f)
  OBVIOUS
<1>a. e # None
  BY ConfigsAssumption
<1>b. /\ lock'[e] = t /\ \A x \in Entry \ {e} : lock'[x] = lock[x]
      /\ lock' \in [Entry -> Thread \cup {None}]
  BY DEF TypeOK
<1>c. /\ owners'[e] = {} /\ \A x \in Entry \ {e} : owners'[x] = owners[x]
      /\ owners' \in [Entry -> SUBSET Owner]
  BY DEF TypeOK
<1>d. /\ entries'[c] = e /\ \A k \in Config \ {c} : entries'[k] = entries[k]
      /\ entries' \in [Config -> Entry \cup {None}]
  BY <1>1 DEF TypeOK
<1> HIDE DEF f, c
<1>4. /\ stack' \in [Thread -> Seq(Frame)]
      /\ stack'[t][Len(stack[t])] = f
  BY <1>1, <1>2, <1>3, Replaced
<1>5. /\ \A u \in Thread : Len(stack'[u]) = Len(stack[u]) /\ (stack'[u] = <<>> <=> stack[u] = <<>>)
      /\ \A u \in Thread : \A i \in 1 .. Len(stack[u]) :
            /\ stack'[u][i].op = stack[u][i].op /\ stack'[u][i].config = stack[u][i].config
            /\ u # t \/ i # Len(stack[u]) => stack'[u][i] = stack[u][i]
      /\ \A u \in Thread : stack[u] # <<>> =>
            stack'[u][1].op = stack[u][1].op /\ Config1(u)' = Config1(u)
  BY <1>1, <1>2, <1>3, Kept
<1>6. TypeOK'
  BY <1>4, <1>5, <1>b, <1>c, <1>d DEF TypeOK
<1>7. CallsInv'
  BY <1>1, <1>2, <1>4, <1>5, <1>a, SMTT(30) DEF CallsInv
<1>8. \A u \in Thread : \A i \in 1 .. Len(stack'[u]) :
            \/ u = t /\ i = Len(stack[u]) /\ stack'[u][i] = f
            \/ /\ stack'[u][i] = stack[u][i] /\ i \in 1 .. Len(stack[u]) /\ stack[u][i].entry # e
               /\ stack[u][i] \in Frame
  BY <1>1, <1>4, <1>5 DEF TypeOK
<1>9. ParseInv'
  <2>1. ASSUME NEW u \in Thread, NEW i \in 1 .. Len(stack'[u]), stack'[u][i].at = "parse"
        PROVE  lock'[stack'[u][i].entry] = u /\ entries'[stack'[u][i].config] = stack'[u][i].entry
    <3>1. CASE u = t /\ stack'[u][i] = f
      BY <1>2, <1>b, <1>d, <3>1
    <3>2. CASE /\ stack'[u][i] = stack[u][i] /\ i \in 1 .. Len(stack[u]) /\ stack[u][i].entry # e
               /\ stack[u][i] \in Frame
      <4>1. /\ lock[stack[u][i].entry] = u /\ entries[stack[u][i].config] = stack[u][i].entry
            /\ stack[u][i].entry # None
        BY <2>1, <3>2 DEF ParseInv, CallsInv
      <4>2. stack[u][i].entry \in Entry /\ stack[u][i].config \in Config
        BY <3>2, <4>1 DEF Frame
      <4>3. stack[u][i].config # c
        BY <4>1 DEF c
      <4> QED
        BY <1>b, <1>d, <3>2, <4>1, <4>2, <4>3
    <3> QED
      BY <1>8, <3>1, <3>2
  <2>2. ASSUME NEW x \in Entry, lock'[x] # None
        PROVE  \E i \in 1 .. Len(stack'[lock'[x]]) :
                  stack'[lock'[x]][i].at = "parse" /\ stack'[lock'[x]][i].entry = x
    <3>1. CASE x = e
      BY <1>1, <1>2, <1>4, <1>5, <1>b, <3>1
    <3>2. CASE x # e
      <4>1. lock'[x] = lock[x] /\ lock[x] \in Thread
        BY <1>b, <2>2, <3>2 DEF TypeOK
      <4>2. PICK i \in 1 .. Len(stack[lock[x]]) : stack[lock[x]][i].at = "parse" /\ stack[lock[x]][i].entry = x
        BY <2>2, <4>1 DEF ParseInv
      <4>3. stack'[lock[x]][i] = stack[lock[x]][i]
        BY <1>1, <1>5, <4>1, <4>2
      <4> QED
        BY <1>5, <4>1, <4>2, <4>3
    <3> QED
      BY <3>1, <3>2
  <2> QED
    BY <2>1, <2>2 DEF ParseInv
<1>10. EntryInv'
  <2>1. \A j, k \in Config : entries'[j] = entries'[k] /\ entries'[j] # None => j = k
    BY <1>1, <1>d DEF EntryInv, c
  <2>2. ASSUME NEW u \in Thread, NEW i \in 1 .. Len(stack'[u]), stack'[u][i].at = "lock"
        PROVE  /\ \A k \in Config \ {stack'[u][i].config} : entries'[k] # stack'[u][i].entry
               /\ \/ entries'[stack'[u][i].config] = stack'[u][i].entry
                  \/ owners'[stack'[u][i].entry] = {} /\ stack'[u][i].op = "acquire"
    <3>1. /\ stack'[u][i] = stack[u][i] /\ i \in 1 .. Len(stack[u]) /\ stack[u][i].entry # e
          /\ stack[u][i] \in Frame
      BY <1>2, <1>8, <2>2
    <3>2. /\ \A k \in Config \ {stack[u][i].config} : entries[k] # stack[u][i].entry
          /\ \/ entries[stack[u][i].config] = stack[u][i].entry
             \/ owners[stack[u][i].entry] = {} /\ stack[u][i].op = "acquire"
          /\ stack[u][i].entry # None
      <4>1. stack[u][i].entry # None
        BY <2>2, <3>1 DEF CallsInv
      <4> QED
        BY <2>2, <3>1, <4>1 DEF EntryInv
    <3>3. stack[u][i].entry \in Entry /\ stack[u][i].config \in Config
      BY <3>1, <3>2 DEF Frame
    <3>4. \A k \in Config \ {stack[u][i].config} : entries'[k] # stack[u][i].entry
      BY <1>d, <3>1, <3>2
    <3>5. entries[stack[u][i].config] = stack[u][i].entry => stack[u][i].config # c
      BY <3>2 DEF c
    <3> QED
      BY <1>c, <1>d, <3>1, <3>2, <3>3, <3>4, <3>5
  <2> QED
    BY <2>1, <2>2 DEF EntryInv
<1>11. OwnsInv'
  <2>1. ASSUME NEW o \in Owner, NEW j \in owns[o] PROVE entries'[j] # None /\ o \in owners'[entries'[j]]
    <3>1. entries[j] # None /\ o \in owners[entries[j]] /\ j \in Config /\ entries[j] \in Entry /\ j # c
      BY DEF OwnsInv, TypeOK, c
    <3> QED
      BY <1>c, <1>d, <3>1
  <2>2. ASSUME NEW j \in Config, entries'[j] # None, lock'[entries'[j]] = None PROVE owners'[entries'[j]] # {}
    <3>1. j # c
      BY <1>b, <1>d, <2>2, ConfigsAssumption
    <3>2. entries'[j] = entries[j] /\ entries[j] \in Entry \ {e}
      BY <1>d, <2>2, <3>1 DEF TypeOK
    <3> QED
      BY <1>b, <1>c, <2>2, <3>2 DEF OwnsInv
  <2> QED
    BY <2>1, <2>2 DEF OwnsInv
<1>12. ReleaseInv'
  <2>1. \A q : \A u \in Thread : In1(u, q)' => In1(u, q) /\ Config1(u)' = Config1(u)
    BY <1>5 DEF In1
  <2>2. \A u \in Thread : In1(u, {"acquire", "add"})' => owner'[u] \notin disposed'
    BY <2>1 DEF ReleaseInv
  <2>3. \A u \in Thread : In1(u, {"add"})' => \E p \in Owner \ {owner'[u]} : Config1(u)' \in owns'[p]
    BY <2>1 DEF ReleaseInv
  <2>4. ASSUME NEW u \in Thread, In1(u, {"release"})'
        PROVE  /\ owner'[u] \in disposed' /\ Config1(u)' \notin owns'[owner'[u]]
               /\ entries'[Config1(u)'] # None /\ owner'[u] \in owners'[entries'[Config1(u)']]
               /\ \A w \in Thread \ {u} : In1(w, {"release"})' /\ Config1(w)' = Config1(u)'
                       => owner'[w] # owner'[u]
    <3>1. In1(u, {"release"}) /\ Config1(u)' = Config1(u)
      BY <2>1, <2>4
    <3>2. /\ owner[u] \in disposed /\ Config1(u) \notin owns[owner[u]]
          /\ entries[Config1(u)] # None /\ owner[u] \in owners[entries[Config1(u)]]
      BY <3>1 DEF ReleaseInv
    <3>3. Config1(u) \in Config
      <4>1. stack[u] # <<>>
        BY <3>1 DEF In1
      <4>2. 1 \in 1 .. Len(stack[u]) /\ \A i \in 1 .. Len(stack[u]) : stack[u][i] \in Frame
        BY <4>1, TopFrame
      <4> QED
        BY <4>2 DEF Frame, Config1
    <3>4. Config1(u) # c /\ entries[Config1(u)] \in Entry \ {e}
      BY <3>2, <3>3 DEF TypeOK, c
    <3>5. \A w \in Thread \ {u} : In1(w, {"release"})' /\ Config1(w)' = Config1(u)'
                       => owner'[w] # owner'[u]
      BY <2>1, <3>1 DEF ReleaseInv
    <3> QED
      BY <1>c, <1>d, <3>1, <3>2, <3>3, <3>4, <3>5
  <2> QED
    BY <2>2, <2>3, <2>4 DEF ReleaseInv
<1> QED
  BY <1>6, <1>7, <1>9, <1>10, <1>11, <1>12

\* A parse goes on to the next config, which it acquires unless it is on its
\* way to it already.
LEMMA ConfigsGetExtended ==
    ASSUME ConfigsInv, NEW t \in Thread, getExtendedConfig(t)
    PROVE  /\ ConfigsInv'
           /\ \A u \in Thread \ {t} : stack'[u] = stack[u]
           /\ Len(stack'[t]) >= Len(stack[t]) /\ Len(stack[t]) \in Nat \ {0}
           /\ \A i \in 1 .. Len(stack[t]) : stack'[t][i].config = stack[t][i].config
           /\ \A i \in 1 .. Len(stack'[t]) : i \notin 1 .. Len(stack[t]) =>
                /\ i = Len(stack[t]) + 1
                /\ \E j \in 1 .. Len(extends[stack[t][Len(stack[t])].config]) :
                        stack'[t][i].config = extends[stack[t][Len(stack[t])].config][j]
           /\ \A i \in 1 .. Len(stack[t]) - 1 : stack'[t][i] = stack[t][i]
           /\ stack'[t][Len(stack[t])] = [Top(t) EXCEPT !.next = @ + 1]
           /\ LET k == extends[Top(t).config][Top(t).next]
              IN  /\ Top(t).next \in 1 .. Len(extends[Top(t).config])
                  /\ OnStack(t, k) => Len(stack'[t]) = Len(stack[t])
                  /\ ~OnStack(t, k) => /\ Len(stack'[t]) = Len(stack[t]) + 1
                                       /\ stack'[t][Len(stack[t]) + 1] = Call("acquire", k)
<1> USE DEF ConfigsInv
<1> DEFINE n == Len(stack[t])
           f == Top(t)
           g == [f EXCEPT !.next = @ + 1]
           k == extends[f.config][f.next]
           s == Append(Front(stack[t]), g)
           r == IF OnStack(t, k) THEN <<>> ELSE <<Call("acquire", k)>>
<1>1. /\ stack[t] # <<>> /\ n \in Nat \ {0} /\ f = stack[t][n] /\ n \in 1 .. n
      /\ f \in Frame /\ f.at = "parse" /\ f.config \in Config /\ f.next \in Nat
  BY TopFrame DEF In, Frame, getExtendedConfig
<1>2. stack' = [stack EXCEPT ![t] = s \o r] /\ f.next <= Len(extends[f.config])
        /\ UNCHANGED <<entries, lock, owners, value, owner, owns, disposed, calls, extends>>
  BY DEF getExtendedConfig
<1>3. /\ g \in Frame /\ g.op = f.op /\ g.config = f.config /\ g.at = f.at /\ g.entry = f.entry
      /\ g.next = f.next + 1
  BY <1>1 DEF Frame
<1>4. s \in Seq(Frame) /\ Len(s) = n /\ s[n] = g /\ \A i \in 1 .. n - 1 : s[i] = stack[t][i]
  <2>1. stack[t] \in Seq(Frame)
    BY DEF TypeOK
  <2> DEFINE q == Front(stack[t])
  <2>2. q \in Seq(Frame) /\ Len(q) = n - 1 /\ \A i \in 1 .. n - 1 : q[i] = stack[t][i]
    BY <1>1, <2>1 DEF Front
  <2>3. s = Append(q, g)
    OBVIOUS
  <2> HIDE DEF q, s, g
  <2> QED
    BY <1>1, <1>3, <2>2, <2>3
<1> HIDE DEF n, f, g, s, k
<1>5. k \in Config /\ f.next \in 1 .. Len(extends[f.config])
  <2>1. extends[f.config] \in Seq(Config)
    BY <1>1, ConfigsAssumption
  <2>2. f.next >= 1
    BY <1>1 DEF CallsInv, n
  <2>3. Len(extends[f.config]) \in Nat
    BY <2>1
  <2>4. \A x, y \in Nat : x >= 1 /\ x <= y => x \in 1 .. y
    OBVIOUS
  <2>5. f.next \in 1 .. Len(extends[f.config])
    BY <1>1, <1>2, <2>2, <2>3, <2>4
  <2> QED
    BY <2>1, <2>5 DEF k
<1>6. Call("acquire", k) \in Frame
  BY <1>5 DEF Call, Frame
<1>7. r \in Seq(Frame) /\ Len(r) \in {0, 1} /\ (Len(r) = 1 <=> ~OnStack(t, k))
        /\ (Len(r) = 1 => r[1] = Call("acquire", k))
  BY <1>6
<1> HIDE DEF r
<1> DEFINE w == s \o r
<1>8. /\ w \in Seq(Frame) /\ Len(w) = n + Len(r)
      /\ \A i \in 1 .. n : w[i] = s[i]
      /\ Len(r) = 1 => w[n + 1] = Call("acquire", k)
  BY <1>1, <1>4, <1>7
<1> HIDE DEF w
<1>9. /\ stack' \in [Thread -> Seq(Frame)] /\ stack'[t] = w
      /\ \A u \in Thread \ {t} : stack'[u] = stack[u]
  BY <1>2, <1>8 DEF TypeOK, w
<1>10. /\ \A i \in 1 .. n - 1 : stack'[t][i] = stack[t][i]
       /\ stack'[t][n] = g /\ Len(stack'[t]) = n + Len(r)
       /\ Len(r) = 1 => stack'[t][n + 1] = Call("acquire", k)
  <2>1. \A i \in 1 .. n - 1 : i \in 1 .. n
    BY <1>1
  <2>2. \A i \in 1 .. n - 1 : stack'[t][i] = stack[t][i]
    BY <1>4, <1>8, <1>9, <2>1
  <2>3. stack'[t][n] = g
    <3>1. n \in 1 .. n /\ s[n] = g
      BY <1>1, <1>4
    <3> QED
      BY <1>8, <1>9, <3>1
  <2>4. Len(stack'[t]) = n + Len(r)
    BY <1>8, <1>9
  <2>5. Len(r) = 1 => stack'[t][n + 1] = Call("acquire", k)
    BY <1>8, <1>9
  <2> QED
    BY <2>2, <2>3, <2>4, <2>5
<1>11. \A i \in 1 .. n : /\ stack'[t][i].op = stack[t][i].op /\ stack'[t][i].config = stack[t][i].config
                         /\ stack'[t][i].at = stack[t][i].at /\ stack'[t][i].entry = stack[t][i].entry
                         /\ stack'[t][i].next >= 1
  <2>1. \A i \in 1 .. n : i = n \/ i \in 1 .. n - 1
    BY <1>1
  <2>2. \A i \in 1 .. n : stack[t][i].next >= 1
    BY DEF CallsInv, n
  <2>3. g.next >= 1
    BY <1>1, <1>3
  <2> QED
    BY <1>1, <1>3, <1>10, <2>1, <2>2, <2>3
<1>12. \A i \in 1 .. Len(stack'[t]) : i \in 1 .. n \/ (i = n + 1 /\ Len(r) = 1)
  <2>1. n \in Nat /\ Len(stack'[t]) = n + Len(r) /\ Len(r) \in {0, 1}
    BY <1>1, <1>7, <1>10
  <2>2. Len(r) = 0 => Len(stack'[t]) = n
    BY <2>1
  <2>3. Len(r) = 1 => Len(stack'[t]) = n + 1
    BY <2>1
  <2>4. \A i \in 1 .. n + 1 : i \in 1 .. n \/ i = n + 1
    BY <2>1
  <2> QED
    BY <2>1, <2>2, <2>3, <2>4
<1>13. \A i \in 1 .. Len(stack'[t]) : i \notin 1 .. n => i = n + 1 /\ stack'[t][i] = Call("acquire", k) /\ ~OnStack(t, k)
  BY <1>7, <1>10, <1>12
<1>a. n + 1 \notin 1 .. n /\ 1 .. n \subseteq 1 .. Len(stack'[t]) /\ Len(stack'[t]) >= n /\ 1 \in 1 .. n
  BY <1>1, <1>7, <1>10
<1>b. stack'[t] # <<>>
  <2>1. stack'[t] \in Seq(Frame)
    BY <1>9
  <2>2. 1 \in 1 .. Len(stack'[t])
    BY <1>a
  <2> QED
    BY <2>1, <2>2
<1>14. TypeOK'
  <2>1. DOMAIN read' = Entry
    BY DEF getExtendedConfig, TypeOK
  <2> QED
    BY <1>1, <1>2, <1>9, <1>b, <2>1 DEF TypeOK
<1>c. \A i \in 1 .. n : stack[t][i].at = "parse" /\ stack[t][i].op = "acquire"
  <2>1. \A i \in 1 .. n : i = n \/ i < n
    BY <1>1
  <2>2. \A i \in 1 .. n : stack[t][i].at = "parse"
    BY <1>1, <2>1 DEF CallsInv, n
  <2> QED
    BY <2>2 DEF CallsInv, n
<1>d. \A i \in 1 .. Len(stack'[t]) : stack'[t][i].op = "acquire"
  BY <1>11, <1>13, <1>c DEF Call
<1>15. CallsInv'
  <2>1. ASSUME NEW i \in 1 .. Len(stack'[t])
        PROVE  /\ i < Len(stack'[t]) => stack'[t][i].at = "parse"
               /\ stack'[t][i].at = "parse" \/ Len(stack'[t]) > 1 => stack'[t][i].op = "acquire"
               /\ stack'[t][i].at = "load" <=> stack'[t][i].entry = None
               /\ stack'[t][i].next >= 1
    <3>1. CASE i \in 1 .. n
      BY <1>11, <1>c, <1>d, <3>1 DEF CallsInv, n
    <3>2. CASE i \notin 1 .. n
      <4>1. i = n + 1 /\ stack'[t][i] = Call("acquire", k) /\ Len(stack'[t]) = n + 1 /\ n \in Nat
        BY <1>1, <1>10, <1>12, <1>13, <3>2
      <4>2. ~(i < Len(stack'[t]))
        BY <4>1
      <4>3. stack'[t][i].at = "load" /\ stack'[t][i].entry = None /\ stack'[t][i].next = 1
        BY <4>1 DEF Call
      <4> QED
        BY <1>d, <4>2, <4>3
    <3> QED
      BY <3>1, <3>2
  <2>2. ASSUME NEW i \in 1 .. Len(stack'[t]), NEW j \in 1 .. Len(stack'[t]),
               stack'[t][i].config = stack'[t][j].config
        PROVE  i = j
    <3>1. \A m \in 1 .. n : stack[t][m].config # k \/ OnStack(t, k)
      BY DEF OnStack, TypeOK, n
    <3>2. \A m \in 1 .. Len(stack'[t]) : m \notin 1 .. n => stack'[t][m].config = k /\ ~OnStack(t, k)
      BY <1>13 DEF Call
    <3>3. CASE i \in 1 .. n /\ j \in 1 .. n
      BY <1>11, <2>2, <3>3 DEF CallsInv, n
    <3>4. CASE i \in 1 .. n /\ j \notin 1 .. n
      BY <1>11, <2>2, <3>1, <3>2, <3>4
    <3>5. CASE i \notin 1 .. n /\ j \in 1 .. n
      BY <1>11, <2>2, <3>1, <3>2, <3>5
    <3>6. CASE i \notin 1 .. n /\ j \notin 1 .. n
      BY <1>13, <3>6
    <3> QED
      BY <3>3, <3>4, <3>5, <3>6
  <2>3. \A u \in Thread \ {t} : stack'[u] = stack[u]
    BY <1>9
  <2> QED
    BY <2>1, <2>2, <2>3 DEF CallsInv
<1>16. ParseInv'
  <2>1. ASSUME NEW u \in Thread, NEW i \in 1 .. Len(stack'[u]), stack'[u][i].at = "parse"
        PROVE  lock'[stack'[u][i].entry] = u /\ entries'[stack'[u][i].config] = stack'[u][i].entry
    <3>1. CASE u # t
      BY <1>2, <1>9, <2>1, <3>1 DEF ParseInv
    <3>2. CASE u = t
      <4>1. i \in 1 .. n
        BY <1>13, <2>1, <3>2 DEF Call
      <4> QED
        <5>1. /\ stack'[t][i].config = stack[t][i].config /\ stack'[t][i].entry = stack[t][i].entry
              /\ stack[t][i].at = "parse" /\ i \in 1 .. Len(stack[t])
          BY <1>11, <2>1, <3>2, <4>1 DEF n
        <5>2. lock[stack[t][i].entry] = t /\ entries[stack[t][i].config] = stack[t][i].entry
          BY <5>1 DEF ParseInv
        <5> QED
          BY <1>2, <3>2, <5>1, <5>2
    <3> QED
      BY <3>1, <3>2
  <2>2. ASSUME NEW x \in Entry, lock[x] # None
        PROVE  \E i \in 1 .. Len(stack'[lock[x]]) :
                  stack'[lock[x]][i].at = "parse" /\ stack'[lock[x]][i].entry = x
    <3>1. lock[x] \in Thread
      BY <2>2 DEF TypeOK
    <3>2. PICK i \in 1 .. Len(stack[lock[x]]) : stack[lock[x]][i].at = "parse" /\ stack[lock[x]][i].entry = x
      BY <2>2 DEF ParseInv
    <3>3. CASE lock[x] = t
      <4>1. i \in 1 .. n
        BY <3>2, <3>3 DEF n
      <4> QED
        BY <1>11, <1>a, <3>2, <3>3, <4>1
    <3>4. CASE lock[x] # t
      BY <1>9, <3>1, <3>2, <3>4
    <3> QED
      BY <3>3, <3>4
  <2> QED
    BY <1>2, <2>1, <2>2 DEF ParseInv
<1>17. EntryInv'
  <2>1. \A u \in Thread : \A i \in 1 .. Len(stack'[u]) : stack'[u][i].at = "lock" => stack'[u] = stack[u]
    <3>1. \A i \in 1 .. Len(stack'[t]) : stack'[t][i].at # "lock"
      BY <1>11, <1>13, <1>c DEF Call
    <3> QED
      BY <1>9, <3>1
  <2>2. ASSUME NEW u \in Thread, NEW i \in 1 .. Len(stack'[u]), stack'[u][i].at = "lock"
        PROVE  /\ \A j \in Config \ {stack'[u][i].config} : entries[j] # stack'[u][i].entry
               /\ \/ entries[stack'[u][i].config] = stack'[u][i].entry
                  \/ owners[stack'[u][i].entry] = {} /\ stack'[u][i].op = "acquire"
    <3>1. stack'[u] = stack[u]
      BY <2>1, <2>2
    <3> QED
      BY <2>2, <3>1 DEF EntryInv
  <2>3. entries' = entries /\ owners' = owners
    BY <1>2
  <2>4. \A j, l \in Config : entries[j] = entries[l] /\ entries[j] # None => j = l
    BY DEF EntryInv
  <2> QED
    BY <2>2, <2>3, <2>4 DEF EntryInv
<1>18. OwnsInv'
  BY <1>2 DEF OwnsInv
<1>19. ReleaseInv'
  <2>1. \A q : \A u \in Thread : In1(u, q)' => In1(u, q) /\ Config1(u)' = Config1(u)
    BY <1>1, <1>9, <1>11, <1>a DEF In1, Config1
  <2> QED
    BY <1>2, <2>1 DEF ReleaseInv
<1>20. \A i \in 1 .. Len(stack'[t]) : i \notin 1 .. n =>
                /\ i = n + 1
                /\ \E j \in 1 .. Len(extends[f.config]) : stack'[t][i].config = extends[f.config][j]
  BY <1>5, <1>13 DEF Call, k
<1>21. (extends \in Graphs)'
  BY <1>2
<1>22. ConfigsInv'
  BY <1>14, <1>15, <1>16, <1>17, <1>18, <1>19, <1>21
<1>23. f = stack[t][Len(stack[t])] /\ n = Len(stack[t])
  BY <1>1 DEF n
<1>24. \A i \in 1 .. n : stack'[t][i].config = stack[t][i].config
  BY <1>11
<1>25. /\ Len(r) = 0 => Len(stack'[t]) = n
       /\ Len(r) = 1 => Len(stack'[t]) = n + 1
  <2>1. n \in Nat /\ Len(stack'[t]) = n + Len(r) /\ Len(r) \in {0, 1}
    BY <1>1, <1>7, <1>10
  <2>2. Len(r) = 0 => Len(stack'[t]) = n
    BY <2>1
  <2>3. Len(r) = 1 => Len(stack'[t]) = n + 1
    BY <2>1
  <2> QED
    BY <2>2, <2>3
<1>26. LET kk == extends[Top(t).config][Top(t).next]
       IN  /\ Top(t).next \in 1 .. Len(extends[Top(t).config])
           /\ OnStack(t, kk) => Len(stack'[t]) = Len(stack[t])
           /\ ~OnStack(t, kk) => /\ Len(stack'[t]) = Len(stack[t]) + 1
                                 /\ stack'[t][Len(stack[t]) + 1] = Call("acquire", kk)
  BY <1>5, <1>7, <1>10, <1>25 DEF n, f, k
<1>27. stack'[t][Len(stack[t])] = [Top(t) EXCEPT !.next = @ + 1]
  BY <1>10 DEF n, f, g
<1>28. \A i \in 1 .. Len(stack[t]) - 1 : stack'[t][i] = stack[t][i]
  BY <1>10 DEF n
<1> QED
  BY <1>1, <1>9, <1>20, <1>22, <1>23, <1>24, <1>26, <1>27, <1>28, <1>a

\* What the goroutines do keeps the invariant.
LEMMA ConfigsWork ==
    ASSUME ConfigsInv, NEW t \in Thread, Work(t)
    PROVE  ConfigsInv'
<1>a. DOMAIN value = Entry /\ DOMAIN read = Entry
  BY DEF ConfigsInv, TypeOK
<1>b. \A x : Gives(t, x) => DOMAIN read' = Entry
  BY <1>a DEF Gives
<1>1. CASE Load(t)
  <2>1. In(t, "load") /\ UNCHANGED <<value, owns, disposed, calls, extends>>
    BY <1>1 DEF Load
  <2>2. CASE /\ entries[Top(t).config] # None
             /\ Replace(t, [Top(t) EXCEPT !.entry = entries[Top(t).config], !.at = "lock"])
             /\ UNCHANGED <<entries, lock, owners, read, owner>>
    BY <1>a, <2>1, <2>2, ConfigsLoadFound
  <2>3. CASE /\ entries[Top(t).config] = None /\ Top(t).op = "acquire"
             /\ entries' = [entries EXCEPT ![Top(t).config] = NewEntry]
             /\ lock' = [lock EXCEPT ![NewEntry] = t]
             /\ owners' = [owners EXCEPT ![NewEntry] = {}]
             /\ Replace(t, [Top(t) EXCEPT !.entry = NewEntry, !.at = "parse"])
             /\ Reads(t, NewEntry) /\ UNCHANGED owner
    <3>1. Top(t).config \in Config
      BY <2>1, TopFrame DEF ConfigsInv, In, Frame
    <3>2. PICK e : e = NewEntry
      OBVIOUS
    <3>3. /\ e \in Entry /\ \A k \in Config : entries[k] # e
          /\ \A u \in Thread : \A i \in 1 .. Len(stack[u]) : stack[u][i].entry # e
      BY <2>3, <3>1, <3>2, NewConfigEntry
    <3>4. /\ entries' = [entries EXCEPT ![Top(t).config] = e]
          /\ lock' = [lock EXCEPT ![e] = t]
          /\ owners' = [owners EXCEPT ![e] = {}]
          /\ Replace(t, [Top(t) EXCEPT !.entry = e, !.at = "parse"])
      BY <2>3, <3>2
    <3>5. DOMAIN read' = Entry
      BY <1>a, <2>3 DEF Reads
    <3> QED
      BY <2>1, <2>3, <3>3, <3>4, <3>5, ConfigsLoadNew
  <2> QED
    BY <1>1, <2>2, <2>3 DEF Load
<1>2. CASE LockAcquire(t)
  <2>1. /\ In(t, "lock") /\ lock[Top(t).entry] = None /\ Top(t).op = "acquire"
        /\ UNCHANGED <<entries, value, disposed, calls, extends>>
    BY <1>2 DEF LockAcquire
  <2>2. CASE /\ Replace(t, [Top(t) EXCEPT !.entry = None, !.at = "load"])
             /\ UNCHANGED <<lock, owners, read, owner, owns>>
    BY <1>a, <2>1, <2>2, ConfigsLockGone
  <2>3. CASE /\ ~Gone(Top(t).entry)
             /\ lock' = [lock EXCEPT ![Top(t).entry] = t]
             /\ Replace(t, [Top(t) EXCEPT !.at = "parse"])
             /\ Reads(t, Top(t).entry) /\ UNCHANGED <<owners, owner, owns>>
    <3>1. DOMAIN read' = Entry
      BY <1>a, <2>3 DEF Reads
    <3> QED
      BY <2>1, <2>3, <3>1, ConfigsLockExpired
  <2>4. CASE /\ ~Gone(Top(t).entry) /\ Own(t, Top(t).entry) /\ Return(t, Top(t).entry)
             /\ Gives(t, value[Top(t).entry].parsed)
    <3>1. /\ stack[t] # <<>> /\ Top(t) \in Frame /\ Len(stack[t]) \in 1 .. Len(stack[t])
          /\ Top(t) = stack[t][Len(stack[t])] /\ Top(t).at = "lock"
      BY <2>1, TopFrame DEF ConfigsInv, In
    <3>2. Top(t).entry \in Entry /\ entries[Top(t).config] = Top(t).entry
      <4>1. Top(t).entry # None
        BY <3>1 DEF ConfigsInv, CallsInv
      <4>2. \/ entries[Top(t).config] = Top(t).entry
            \/ owners[Top(t).entry] = {} /\ Top(t).op = "acquire"
        BY <3>1 DEF ConfigsInv, EntryInv
      <4> QED
        BY <2>4, <3>1, <4>1, <4>2 DEF Gone, Frame
    <3>3. DOMAIN value' = Entry /\ DOMAIN read' = Entry
      BY <1>a, <1>b, <2>1, <2>4
    <3> QED
      BY <2>1, <2>4, <3>1, <3>2, <3>3, ConfigsOwn
  <2> QED
    BY <1>2, <2>2, <2>3, <2>4 DEF LockAcquire
<1>3. CASE LockAdd(t)
  <2>1. /\ In(t, "lock") /\ lock[Top(t).entry] = None /\ Top(t).op = "add"
        /\ Own(t, Top(t).entry) /\ Return(t, Top(t).entry)
        /\ UNCHANGED <<entries, value, read, disposed, calls, extends>>
    BY <1>3 DEF LockAdd
  <2>2. /\ stack[t] # <<>> /\ Top(t) \in Frame /\ Len(stack[t]) \in 1 .. Len(stack[t])
        /\ Top(t) = stack[t][Len(stack[t])] /\ Top(t).at = "lock"
    BY <2>1, TopFrame DEF ConfigsInv, In
  <2>3. Top(t).entry \in Entry /\ entries[Top(t).config] = Top(t).entry
    BY <2>1, <2>2 DEF ConfigsInv, CallsInv, EntryInv, Frame
  <2>4. DOMAIN value' = Entry /\ DOMAIN read' = Entry
    BY <1>a, <2>1
  <2> QED
    BY <2>1, <2>2, <2>3, <2>4, ConfigsOwn
<1>4. CASE LockRelease(t)
  BY <1>4, ConfigsLockRelease
<1>5. CASE getExtendedConfig(t)
  BY <1>5, ConfigsGetExtended
<1>6. CASE Parsed(t)
  <2>1. /\ In(t, "parse") /\ DOMAIN value' = DOMAIN value /\ Gives(t, read[Top(t).entry])
        /\ Own(t, Top(t).entry) /\ Return(t, Top(t).entry)
        /\ UNCHANGED <<entries, disposed, calls, extends>>
    BY <1>6 DEF Parsed
  <2>2. /\ stack[t] # <<>> /\ Top(t) \in Frame /\ Len(stack[t]) \in 1 .. Len(stack[t])
        /\ Top(t) = stack[t][Len(stack[t])] /\ Top(t).at = "parse"
    BY <2>1, TopFrame DEF ConfigsInv, In
  <2>3. /\ Top(t).entry \in Entry /\ entries[Top(t).config] = Top(t).entry
        /\ lock[Top(t).entry] = t /\ Top(t).op = "acquire"
    BY <2>2 DEF ConfigsInv, CallsInv, ParseInv, Frame
  <2>4. DOMAIN value' = Entry /\ DOMAIN read' = Entry
    BY <1>a, <1>b, <2>1
  <2> QED
    BY <2>1, <2>2, <2>3, <2>4, ConfigsOwn
<1> QED
  BY <1>1, <1>2, <1>3, <1>4, <1>5, <1>6 DEF Work

LEMMA ConfigsStep ==
    ASSUME ConfigsInv, [Next]_vars
    PROVE  ConfigsInv'
<1>1. CASE UNCHANGED vars
  BY <1>1 DEF vars, ConfigsInv, TypeOK, CallsInv, ParseInv, EntryInv, OwnsInv, ReleaseInv, In1, Config1
<1>2. ASSUME NEW t \in Thread, Work(t) PROVE ConfigsInv'
  BY <1>2, ConfigsWork
<1>3. ASSUME NEW t \in Thread, NEW o \in Owner, NEW k \in Config, LoadAndAcquire(t, o, k) PROVE ConfigsInv'
  BY <1>3, ConfigsLoadAndAcquire
<1>4. ASSUME NEW t \in Thread, NEW o \in Owner, NEW k \in Config, AddOwner(t, o, k) PROVE ConfigsInv'
  BY <1>4, ConfigsAddOwner
<1>5. ASSUME NEW t \in Thread, NEW o \in Owner, NEW k \in Config, Release(t, o, k) PROVE ConfigsInv'
  BY <1>5, ConfigsRelease
<1>6. CASE Rest \/ Stuck
  BY <1>1, <1>6 DEF Rest, Stuck
<1> QED
  BY <1>1, <1>2, <1>3, <1>4, <1>5, <1>6 DEF Next

LEMMA ConfigsStart ==
    ASSUME Init
    PROVE  ConfigsInv
<1>1. /\ stack = [t \in Thread |-> <<>>] /\ owner = [t \in Thread |-> None]
      /\ entries = [k \in Config |-> None] /\ lock = [e \in Entry |-> None]
      /\ owners = [e \in Entry |-> {}]
      /\ DOMAIN value = Entry /\ DOMAIN read = Entry
      /\ owns = [o \in Owner |-> {}] /\ disposed = {} /\ calls = 0 /\ extends \in Graphs
  BY DEF Init
<1>2. \A t \in Thread : stack[t] = <<>> /\ Len(stack[t]) = 0 /\ 1 .. Len(stack[t]) = {}
  BY <1>1
<1>3. TypeOK
  BY <1>1, <1>2, ConfigsAssumption DEF TypeOK
<1>4. CallsInv /\ ParseInv
  BY <1>1, <1>2 DEF CallsInv, ParseInv
<1>5. EntryInv
  BY <1>1, <1>2 DEF EntryInv
<1>6. OwnsInv
  BY <1>1, <1>2 DEF OwnsInv
<1>7. ReleaseInv
  BY <1>1, <1>2 DEF ReleaseInv, In1
<1> QED
  BY <1>1, <1>3, <1>4, <1>5, <1>6, <1>7 DEF ConfigsInv

\* The invariant of the extended configs.
LEMMA ConfigsInvariant == Spec => []ConfigsInv
<1>1. Init => ConfigsInv
  BY ConfigsStart
<1>2. ConfigsInv /\ [Next]_vars => ConfigsInv'
  BY ConfigsStep
<1> QED
  BY <1>1, <1>2, PTL DEF Spec

(***************************************************************************)
(* For every set of configs, of graphs between them, of snapshots and of   *)
(* goroutines: a config stays cached while a snapshot owns it, and nothing *)
(* is cached for nobody (OwnerCache).                                      *)
(***************************************************************************)
THEOREM Owned == Spec => []OwnedStays
<1>1. ConfigsInv => OwnedStays
  BY DEF ConfigsInv, OwnsInv, OwnedStays
<1> QED
  BY <1>1, ConfigsInvariant, PTL

\* What a step of a goroutine does to the stacks: it goes on with its innermost
\* call, returns from it, or goes into another.
SameCalls(t) ==
    /\ Len(stack'[t]) = Len(stack[t])
    /\ \A i \in 1 .. Len(stack[t]) : stack'[t][i].config = stack[t][i].config

LEMMA WorkOnStack ==
    ASSUME ConfigsInv, NEW t \in Thread, Work(t)
    PROVE  /\ \A u \in Thread \ {t} : stack'[u] = stack[u]
           /\ extends' = extends /\ stack[t] # <<>>
           /\ SameCalls(t) \/ Pop(t) \/ getExtendedConfig(t)
<1> USE DEF ConfigsInv
<1>1. CASE getExtendedConfig(t)
  BY <1>1, ConfigsGetExtended DEF getExtendedConfig, In
<1>2. ASSUME stack[t] # <<>>, NEW f \in Frame, Replace(t, f), f.op = Top(t).op, f.config = Top(t).config
      PROVE  SameCalls(t) /\ \A u \in Thread \ {t} : stack'[u] = stack[u]
  <2>1. SameCalls(t)
    BY <1>2, Kept DEF SameCalls
  <2> QED
    BY <1>2, <2>1, Replaced
<1>3. ASSUME stack[t] # <<>>, Pop(t) PROVE \A u \in Thread \ {t} : stack'[u] = stack[u]
  BY <1>3, Popped
<1>4. stack[t] # <<>> => Top(t) \in Frame /\ Top(t).config \in Config
  BY TopFrame DEF Frame
<1>5. CASE Load(t)
  <2>1. stack[t] # <<>> /\ extends' = extends
    BY <1>5 DEF Load, In
  <2>2. CASE entries[Top(t).config] # None
    <3> DEFINE f == [Top(t) EXCEPT !.entry = entries[Top(t).config], !.at = "lock"]
    <3>1. f \in Frame /\ f.op = Top(t).op /\ f.config = Top(t).config
      BY <1>4, <2>1, <2>2 DEF Frame, TypeOK
    <3>2. Replace(t, f)
      BY <1>5, <2>2 DEF Load
    <3> HIDE DEF f
    <3> QED
      BY <1>2, <2>1, <3>1, <3>2
  <2>3. CASE entries[Top(t).config] = None
    <3> DEFINE f == [Top(t) EXCEPT !.entry = NewEntry, !.at = "parse"]
    <3>1. NewEntry \in Entry
      BY <1>4, <2>1, <2>3, NewConfigEntry
    <3>2. f \in Frame /\ f.op = Top(t).op /\ f.config = Top(t).config
      BY <1>4, <2>1, <3>1 DEF Frame
    <3>3. Replace(t, f)
      BY <1>5, <2>3 DEF Load
    <3> HIDE DEF f
    <3> QED
      BY <1>2, <2>1, <3>2, <3>3
  <2> QED
    BY <2>2, <2>3
<1>6. CASE LockAcquire(t)
  <2>1. stack[t] # <<>> /\ extends' = extends
    BY <1>6 DEF LockAcquire, In
  <2>2. CASE Replace(t, [Top(t) EXCEPT !.entry = None, !.at = "load"])
    <3> DEFINE f == [Top(t) EXCEPT !.entry = None, !.at = "load"]
    <3>1. f \in Frame /\ f.op = Top(t).op /\ f.config = Top(t).config
      BY <1>4, <2>1 DEF Frame
    <3>2. Replace(t, f)
      BY <2>2
    <3> HIDE DEF f
    <3> QED
      BY <1>2, <2>1, <3>1, <3>2
  <2>3. CASE Replace(t, [Top(t) EXCEPT !.at = "parse"])
    <3> DEFINE f == [Top(t) EXCEPT !.at = "parse"]
    <3>1. f \in Frame /\ f.op = Top(t).op /\ f.config = Top(t).config
      BY <1>4, <2>1 DEF Frame
    <3>2. Replace(t, f)
      BY <2>3
    <3> HIDE DEF f
    <3> QED
      BY <1>2, <2>1, <3>1, <3>2
  <2>4. CASE ~Expired(t, Top(t).entry) /\ Return(t, Top(t).entry)
    <3>1. Pop(t)
      BY <2>4 DEF Return
    <3> QED
      BY <1>3, <2>1, <3>1
  <2> QED
    BY <1>6, <2>2, <2>3, <2>4 DEF LockAcquire
<1>7. CASE LockAdd(t)
  <2>1. stack[t] # <<>> /\ extends' = extends /\ Top(t).op # "acquire" /\ Pop(t)
    BY <1>7 DEF LockAdd, In, Return
  <2> QED
    BY <1>3, <2>1
<1>8. CASE LockRelease(t)
  <2>1. stack[t] # <<>> /\ extends' = extends /\ Top(t).op # "acquire" /\ Pop(t)
    BY <1>8 DEF LockRelease, In, Return
  <2> QED
    BY <1>3, <2>1
<1>9. CASE Parsed(t)
  <2>1. stack[t] # <<>> /\ extends' = extends /\ Pop(t)
    BY <1>9 DEF Parsed, In, Return
  <2> QED
    BY <1>3, <2>1
<1> QED
  BY <1>1, <1>5, <1>6, <1>7, <1>8, <1>9 DEF Work

\* rank goes down from a config to those it extends.
Descends(rank) ==
    /\ rank \in [Config -> 0 .. Cardinality(Config)]
    /\ \A k \in Config : \A x \in Range(extends[k]) : rank[x] < rank[k]

\* Then it goes down along every stack.
RankInv(rank) ==
    \A t \in Thread : \A i, j \in 1 .. Len(stack[t]) :
        i < j => rank[stack[t][j].config] < rank[stack[t][i].config]

LEMMA RankNat ==
    ASSUME NEW rank, Descends(rank)
    PROVE  rank \in [Config -> Nat]
<1>1. Cardinality(Config) \in Nat
  BY ConfigsAssumption, FS_CardinalityType
<1>2. 0 .. Cardinality(Config) \subseteq Nat
  BY <1>1
<1> QED
  BY <1>2 DEF Descends

\* The same for every rank that there is.
RanksInv == \A rank : Descends(rank) => RankInv(rank)

LEMMA RankStep ==
    ASSUME NEW rank, Descends(rank), ConfigsInv, RankInv(rank), [Next]_vars
    PROVE  RankInv(rank)'
<1> USE DEF ConfigsInv
<1>r. rank \in [Config -> Nat]
  BY RankNat
<1>0. \A u \in Thread : Len(stack[u]) \in Nat
  BY DEF TypeOK
<1>1. CASE UNCHANGED vars
  BY <1>1 DEF vars, RankInv
<1>2. ASSUME NEW t \in Thread, Work(t) PROVE RankInv(rank)'
  <2>1. /\ \A u \in Thread \ {t} : stack'[u] = stack[u] /\ stack[t] # <<>>
        /\ SameCalls(t) \/ Pop(t) \/ getExtendedConfig(t)
    BY <1>2, WorkOnStack
  <2> SUFFICES ASSUME NEW i \in 1 .. Len(stack'[t]), NEW j \in 1 .. Len(stack'[t]), i < j
               PROVE  rank[stack'[t][j].config] < rank[stack'[t][i].config]
    BY <2>1 DEF RankInv
  <2>2. CASE SameCalls(t)
    BY <2>2 DEF SameCalls, RankInv
  <2>3. CASE Pop(t)
    <3>1. stack[t] # <<>>
      BY <1>2, WorkOnStack
    <3>2. /\ Len(stack'[t]) = Len(stack[t]) - 1
          /\ \A m \in 1 .. Len(stack[t]) - 1 : stack'[t][m] = stack[t][m]
      BY <2>3, <3>1, Popped
    <3>3. i \in 1 .. Len(stack[t]) /\ j \in 1 .. Len(stack[t])
      BY <1>0, <3>2
    <3> QED
      BY <3>2, <3>3 DEF RankInv
  <2>4. CASE getExtendedConfig(t)
    <3> DEFINE n == Len(stack[t])
    <3>1. /\ Len(stack'[t]) >= n /\ n \in Nat \ {0}
          /\ \A m \in 1 .. n : stack'[t][m].config = stack[t][m].config
          /\ \A m \in 1 .. Len(stack'[t]) : m \notin 1 .. n =>
                /\ m = n + 1
                /\ \E q \in 1 .. Len(extends[stack[t][n].config]) :
                        stack'[t][m].config = extends[stack[t][n].config][q]
      BY <2>4, ConfigsGetExtended
    <3>2. stack[t] \in Seq(Frame)
      BY DEF TypeOK
    <3>3. \A m \in 1 .. n : stack[t][m].config \in Config
      <4>1. \A m \in 1 .. n : stack[t][m] \in Frame
        BY <3>2
      <4> QED
        BY <4>1 DEF Frame
    <3>4. \A m \in 1 .. n : rank[stack[t][m].config] \in Nat
      BY <1>r, <3>3
    <3>5. n \in 1 .. n
      BY <3>1
    <3>6. extends[stack[t][n].config] \in Seq(Config)
      BY <3>3, <3>5, ConfigsAssumption
    <3> HIDE DEF n
    <3>7. CASE j \in 1 .. n
      <4>1. i \in 1 .. n
        BY <3>1, <3>7
      <4> QED
        BY <3>1, <3>7, <4>1 DEF RankInv, n
    <3>8. CASE j \notin 1 .. n
      <4>1. j = n + 1 /\ i \in 1 .. n
        BY <3>1, <3>8
      <4>2. PICK q \in 1 .. Len(extends[stack[t][n].config]) :
                stack'[t][j].config = extends[stack[t][n].config][q]
        BY <3>1, <3>8
      <4>3. extends[stack[t][n].config][q] \in Config
        BY <3>6
      <4>4. rank[extends[stack[t][n].config][q]] \in Nat
        BY <1>r, <4>3
      <4>5. rank[extends[stack[t][n].config][q]] < rank[stack[t][n].config]
        BY <3>3, <3>5, <3>6 DEF Descends, Range
      <4>6. i = n \/ i < n
        BY <3>1, <4>1
      <4>7. i < n => rank[stack[t][n].config] < rank[stack[t][i].config]
        BY <3>5, <4>1 DEF RankInv, n
      <4>8. rank[stack'[t][j].config] < rank[stack[t][i].config]
        <5> DEFINE x == rank[stack'[t][j].config]
                   y == rank[stack[t][n].config]
                   z == rank[stack[t][i].config]
        <5>1. x \in Nat /\ y \in Nat /\ z \in Nat /\ x < y /\ (y < z \/ y = z)
          BY <3>4, <3>5, <4>1, <4>2, <4>4, <4>5, <4>6, <4>7
        <5> HIDE DEF x, y, z
        <5>2. x < z
          BY <5>1
        <5> QED
          BY <5>2 DEF x, z
      <4> QED
        BY <3>1, <4>1, <4>8
    <3> QED
      BY <3>7, <3>8
  <2> QED
    BY <2>1, <2>2, <2>3, <2>4
<1>3. ASSUME NEW t \in Thread, NEW o \in Owner, NEW q, NEW k, Begin(t, o, Call(q, k)) PROVE RankInv(rank)'
  <2>1. stack'[t] = <<Call(q, k)>> /\ \A u \in Thread \ {t} : stack'[u] = stack[u]
    BY <1>3 DEF Begin, TypeOK
  <2>2. \A i, j \in 1 .. Len(stack'[t]) : ~(i < j)
    BY <2>1
  <2> QED
    BY <2>1, <2>2 DEF RankInv
<1>4. CASE Rest \/ Stuck
  BY <1>1, <1>4 DEF Rest, Stuck
<1> QED
  BY <1>1, <1>2, <1>3, <1>4 DEF Next, LoadAndAcquire, AddOwner, Release

\* The graph of the configs is that of the behaviour.
LEMMA SameGraph ==
    ASSUME ConfigsInv, [Next]_vars
    PROVE  extends' = extends
<1>1. \A t \in Thread : Work(t) => extends' = extends
  BY WorkOnStack
<1> QED
  BY <1>1 DEF Next, vars, LoadAndAcquire, AddOwner, Release, Begin, Rest, Stuck

LEMMA RanksInvariant == Spec => []RanksInv
<1>1. Init => RanksInv
  <2> SUFFICES ASSUME Init PROVE RanksInv
    OBVIOUS
  <2>1. \A t \in Thread : stack[t] = <<>> /\ 1 .. Len(stack[t]) = {}
    BY DEF Init
  <2> QED
    BY <2>1 DEF RanksInv, RankInv
<1>2. ConfigsInv /\ RanksInv /\ [Next]_vars => RanksInv'
  <2> SUFFICES ASSUME ConfigsInv, RanksInv, [Next]_vars, NEW rank, Descends(rank)'
               PROVE  RankInv(rank)'
    BY DEF RanksInv
  <2>1. Descends(rank)
    BY SameGraph DEF Descends
  <2>2. RankInv(rank)
    BY <2>1 DEF RanksInv
  <2> QED
    BY <2>1, <2>2, RankStep
<1> QED
  BY <1>1, <1>2, ConfigsInvariant, PTL DEF Spec

\* A nonempty set of threads has one whose rank is least.
LEMMA LeastRank ==
    ASSUME NEW S, S # {}, NEW r \in [S -> Nat]
    PROVE  \E t \in S : \A u \in S : ~(r[u] < r[t])
<1> DEFINE T == {r[t] : t \in S}
<1>1. T \subseteq Nat /\ T # {}
  OBVIOUS
<1>2. PICK x \in T : \A y \in T : ~(<<y, x>> \in OpToRel(<, Nat))
  BY <1>1, NatLessThanWellFounded, WFMin
<1>3. \A y \in T : ~(y < x)
  BY <1>1, <1>2 DEF OpToRel
<1>4. PICK t \in S : r[t] = x
  BY <1>2
<1> QED
  BY <1>3, <1>4

LEMMA RankNoCycle ==
    ASSUME NEW rank, Descends(rank), ConfigsInv, RankInv(rank)
    PROVE  ~ \E S \in SUBSET Thread : Deadlocked(S)
<1> USE DEF ConfigsInv
<1> SUFFICES ASSUME NEW S \in SUBSET Thread, S # {},
                    \A t \in S : Blocked(t) /\ lock[Top(t).entry] \in S
             PROVE  FALSE
  BY DEF Deadlocked
<1>1. \A t \in S : /\ t \in Thread /\ stack[t] # <<>> /\ Top(t).at = "lock" /\ lock[Top(t).entry] # None
  BY DEF Blocked, In
<1>2. \A t \in S : /\ Top(t) = stack[t][Len(stack[t])] /\ Len(stack[t]) \in 1 .. Len(stack[t])
                   /\ Len(stack[t]) \in Nat \ {0} /\ Top(t) \in Frame /\ Top(t).config \in Config
  BY <1>1, TopFrame DEF Frame
<1> DEFINE r == [t \in S |-> rank[Top(t).config]]
<1>3. r \in [S -> Nat]
  BY <1>2, RankNat
<1>4. PICK t \in S : \A u \in S : ~(r[u] < r[t])
  <2>1. S # {}
    OBVIOUS
  <2> HIDE DEF r
  <2> QED
    BY <1>3, <2>1, LeastRank
<1>5. PICK u \in S : u = lock[Top(t).entry]
  OBVIOUS
<1>6. Top(t).entry \in Entry
  BY <1>1, <1>2 DEF CallsInv, Frame
<1>7. PICK i \in 1 .. Len(stack[u]) : stack[u][i].at = "parse" /\ stack[u][i].entry = Top(t).entry
  BY <1>1, <1>5, <1>6 DEF ParseInv
<1>8. i # Len(stack[u])
  BY <1>1, <1>2, <1>7
<1>9. i < Len(stack[u])
  BY <1>2, <1>7, <1>8
<1>10. stack[u][i].config = Top(t).config
  <2>1. stack[u][i] \in Frame
    BY <1>1, <1>7, TopFrame
  <2>2. stack[u][i].config \in Config /\ entries[stack[u][i].config] = Top(t).entry
    BY <1>1, <1>7, <2>1 DEF ParseInv, Frame
  <2> QED
    BY <1>1, <1>2, <2>2 DEF EntryInv
<1>11. rank[Top(u).config] < rank[stack[u][i].config]
  BY <1>1, <1>2, <1>7, <1>9 DEF RankInv
<1> QED
  BY <1>4, <1>10, <1>11

\* What a goroutine waits for is not on its own stack.
LEMMA NotForItself ==
    ASSUME ConfigsInv, NEW t \in Thread, Blocked(t)
    PROVE  lock[Top(t).entry] # t
<1> USE DEF ConfigsInv
<1> SUFFICES ASSUME lock[Top(t).entry] = t
             PROVE  FALSE
  OBVIOUS
<1>1. /\ stack[t] # <<>> /\ Top(t).at = "lock" /\ Top(t) = stack[t][Len(stack[t])]
      /\ Len(stack[t]) \in 1 .. Len(stack[t]) /\ Top(t) \in Frame /\ Top(t).config \in Config
  BY TopFrame DEF Blocked, In, Frame
<1>2. Top(t).entry \in Entry /\ t # None
  BY <1>1, ConfigsAssumption DEF CallsInv, Frame
<1>3. PICK i \in 1 .. Len(stack[t]) : stack[t][i].at = "parse" /\ stack[t][i].entry = Top(t).entry
  BY <1>2 DEF ParseInv
<1>4. stack[t][i].config = Top(t).config
  <2>1. stack[t][i] \in Frame
    BY <1>1, TopFrame
  <2>2. stack[t][i].config \in Config /\ entries[stack[t][i].config] = Top(t).entry
    BY <1>3, <2>1 DEF ParseInv, Frame
  <2> QED
    BY <1>1, <2>2 DEF EntryInv
<1>5. i = Len(stack[t])
  BY <1>1, <1>4 DEF CallsInv
<1> QED
  BY <1>1, <1>3, <1>5

(***************************************************************************)
(* Whatever the configs extend and however many goroutines are at it, none *)
(* waits for itself, and a set of them waits for each other only if some   *)
(* config extends itself, through however many others (getExtendedConfig). *)
(***************************************************************************)
THEOREM Waits == Spec => []OnlyCircularWaits
<1>1. ConfigsInv /\ RanksInv => OnlyCircularWaits
  <2> SUFFICES ASSUME ConfigsInv, RanksInv, NEW S \in SUBSET Thread, Deadlocked(S)
               PROVE  ~Acyclic /\ \A t \in Thread : S # {t}
    BY DEF OnlyCircularWaits
  <2>1. ~Acyclic
    <3> SUFFICES ASSUME NEW rank, Descends(rank) PROVE FALSE
      BY DEF Acyclic, Descends
    <3> QED
      BY RankNoCycle DEF RanksInv
  <2>2. ASSUME NEW t \in Thread, S = {t} PROVE FALSE
    BY <2>2, NotForItself DEF Deadlocked
  <2> QED
    BY <2>1, <2>2
<1> QED
  BY <1>1, RanksInvariant, ConfigsInvariant, PTL

(***************************************************************************)
(* What the parse of f has read for snapshot o: texts that o sees, its own *)
(* among them, and those of the configs it has gone into, but for the one  *)
(* it is in now.  In a graph g without cycles, all those extend are there. *)
(***************************************************************************)
Made(g, acyclic, texts, f, o, now) ==
    /\ texts = Texts(o, Names(texts))
    /\ f.config \in Names(texts)
    /\ \A j \in 1 .. Len(g[f.config]) : j < f.next => g[f.config][j] \in Names(texts) \cup now
    /\ acyclic => \A k \in Names(texts) \ {f.config} : Range(g[k]) \subseteq Names(texts)

\* An entry's value is that of its config, and hashed as it was parsed.
Cached(g, acyclic, v, k) ==
    /\ v.hash = v.parsed
    /\ {k} \cup Range(g[k]) \subseteq Names(v.parsed)
    /\ acyclic => \A x \in Names(v.parsed) : Range(g[x]) \subseteq Names(v.parsed)

Now(t, i) == IF i < Len(stack[t]) THEN {stack[t][i + 1].config} ELSE {}

FramesMade(t) ==
    \A i \in 1 .. Len(stack[t]) :
        IF stack[t][i].at = "parse"
          THEN Made(extends, Acyclic, read[stack[t][i].entry], stack[t][i], owner[t], Now(t, i))
          ELSE stack[t][i].next = 1

AllCached ==
    \A k \in Config : entries[k] # None /\ owners[entries[k]] # {} =>
        Cached(extends, Acyclic, value[entries[k]], k)

TextInv == (\A t \in Thread : FramesMade(t)) /\ AllCached

LEMMA NamesOfTexts == ASSUME NEW o, NEW S PROVE Names(Texts(o, S)) = S
<1>1. \A x \in Names(Texts(o, S)) : x \in S
  BY DEF Names, Texts
<1>2. ASSUME NEW x \in S PROVE x \in Names(Texts(o, S))
  <2>1. <<x, Content[o][x]>> \in Texts(o, S)
    BY DEF Texts
  <2>2. <<x, Content[o][x]>>[1] = x
    OBVIOUS
  <2> QED
    BY <2>1, <2>2 DEF Names
<1> QED
  BY <1>1, <1>2

LEMMA TextsTogether ==
    ASSUME NEW o, NEW A, NEW B, A = Texts(o, Names(A)), B = Texts(o, Names(B))
    PROVE  /\ Names(A \cup B) = Names(A) \cup Names(B)
           /\ A \cup B = Texts(o, Names(A \cup B))
<1>1. Names(A \cup B) = Names(A) \cup Names(B)
  BY DEF Names
<1>2. \A S, T : Texts(o, S \cup T) = Texts(o, S) \cup Texts(o, T)
  BY DEF Texts
<1> QED
  BY <1>1, <1>2

\* The parse begins, with the config's own text.
LEMMA MadeStart ==
    ASSUME NEW g, NEW acyclic, NEW f, NEW o, f.next = 1
    PROVE  Made(g, acyclic, Texts(o, {f.config}), f, o, {})
<1>1. Names(Texts(o, {f.config})) = {f.config}
  BY NamesOfTexts
<1>2. \A j \in 1 .. Len(g[f.config]) : ~(j < f.next)
  OBVIOUS
<1> QED
  BY <1>1, <1>2 DEF Made

\* It takes over what a call returned.
LEMMA MadeOf ==
    ASSUME NEW g, NEW acyclic, NEW f, NEW o, NEW A, NEW B, NEW k,
           Made(g, acyclic, A, f, o, {k}), B = Texts(o, Names(B)), k \in Names(B),
           acyclic => \A x \in Names(B) : Range(g[x]) \subseteq Names(B)
    PROVE  Made(g, acyclic, A \cup B, f, o, {})
<1>a. A = Texts(o, Names(A))
  BY DEF Made
<1>1. /\ Names(A \cup B) = Names(A) \cup Names(B)
      /\ A \cup B = Texts(o, Names(A \cup B))
  BY <1>a, TextsTogether
<1>2. \A j \in 1 .. Len(g[f.config]) : j < f.next => g[f.config][j] \in Names(A \cup B)
  BY <1>1 DEF Made
<1>3. acyclic => \A x \in Names(A \cup B) \ {f.config} : Range(g[x]) \subseteq Names(A \cup B)
  BY <1>1 DEF Made
<1> QED
  BY <1>1, <1>2, <1>3 DEF Made

\* It goes into the next config, or bypasses the cache for it.
LEMMA MadeNext ==
    ASSUME NEW g, NEW acyclic, NEW f \in Frame, NEW o, NEW A, Made(g, acyclic, A, f, o, {}),
           f.next \in 1 .. Len(g[f.config]), Len(g[f.config]) \in Nat,
           NEW h, h.config = f.config, h.next = f.next + 1
    PROVE  LET k == g[f.config][f.next]
           IN  /\ Made(g, acyclic, A, h, o, {k})
               /\ ~acyclic => Made(g, acyclic, A \cup Texts(o, {k}), h, o, {})
<1> DEFINE k == g[f.config][f.next]
<1>1. \A j \in 1 .. Len(g[f.config]) : j < h.next => j < f.next \/ j = f.next
  OBVIOUS
<1>2. \A j \in 1 .. Len(g[f.config]) : j < h.next => g[f.config][j] \in Names(A) \cup {k}
  BY <1>1 DEF Made
<1> HIDE DEF k
<1>3. Made(g, acyclic, A, h, o, {k})
  BY <1>2 DEF Made
<1>4. ASSUME ~acyclic PROVE Made(g, acyclic, A \cup Texts(o, {k}), h, o, {})
  <2> DEFINE B == Texts(o, {k})
  <2>1. Names(B) = {k} /\ B = Texts(o, Names(B))
    BY NamesOfTexts
  <2>2. acyclic => \A x \in Names(B) : Range(g[x]) \subseteq Names(B)
    BY <1>4
  <2> HIDE DEF B
  <2>3. k \in Names(B)
    BY <2>1
  <2>4. Made(g, acyclic, A \cup B, h, o, {})
    BY <1>3, <2>1, <2>2, <2>3, MadeOf
  <2> QED
    BY <2>4 DEF B
<1> QED
  BY <1>3, <1>4 DEF k

\* It is over.
LEMMA MadeAll ==
    ASSUME NEW g \in Graphs, NEW acyclic, NEW f \in Frame, NEW o, NEW A,
           Made(g, acyclic, A, f, o, {}), f.next > Len(g[f.config])
    PROVE  /\ A = Texts(o, Names(A))
           /\ Cached(g, acyclic, [parsed |-> A, hash |-> Texts(o, Names(A))], f.config)
<1>1. f.config \in Config /\ f.next \in Nat
  BY DEF Frame
<1>2. g[f.config] \in Seq(Config)
  BY <1>1, ConfigsAssumption
<1>3. \A j \in 1 .. Len(g[f.config]) : j < f.next
  BY <1>1, <1>2
<1>4. Range(g[f.config]) \subseteq Names(A)
  BY <1>2, <1>3 DEF Made, Range
<1>5. A = Texts(o, Names(A)) /\ f.config \in Names(A)
  BY DEF Made
<1>6. acyclic => \A x \in Names(A) : Range(g[x]) \subseteq Names(A)
  BY <1>4 DEF Made
<1> QED
  BY <1>4, <1>5, <1>6 DEF Cached

\* The goroutines that do nothing.
LEMMA OthersMade ==
    ASSUME ConfigsInv, TextInv, NEW t \in Thread, extends' = extends,
           \A u \in Thread \ {t} : stack'[u] = stack[u] /\ owner'[u] = owner[u],
           \A e \in Entry : lock[e] \in Thread \ {t} => read'[e] = read[e]
    PROVE  \A u \in Thread \ {t} : FramesMade(u)'
<1> SUFFICES ASSUME NEW u \in Thread \ {t}
             PROVE  FramesMade(u)'
  OBVIOUS
<1>1. Acyclic' = Acyclic
  BY DEF Acyclic
<1>2. stack'[u] = stack[u] /\ owner'[u] = owner[u]
  OBVIOUS
<1>3. ASSUME NEW i \in 1 .. Len(stack[u])
      PROVE  Now(u, i)' = Now(u, i)
  BY <1>2 DEF Now
<1>4. ASSUME NEW i \in 1 .. Len(stack[u]), stack[u][i].at = "parse"
      PROVE  read'[stack[u][i].entry] = read[stack[u][i].entry]
  <2>1. stack[u][i] \in Frame
    BY DEF ConfigsInv, TypeOK
  <2>2. stack[u][i].entry \in Entry
    BY <1>4, <2>1 DEF ConfigsInv, CallsInv, Frame
  <2>3. lock[stack[u][i].entry] = u
    BY <1>4 DEF ConfigsInv, ParseInv
  <2> QED
    BY <2>2, <2>3
<1>5. FramesMade(u)
  BY DEF TextInv
<1> QED
  BY <1>1, <1>2, <1>3, <1>4, <1>5 DEF FramesMade

\* Entries of different frames that parse are different.
LEMMA OtherEntry ==
    ASSUME ConfigsInv, NEW t \in Thread, NEW i \in 1 .. Len(stack[t]), NEW j \in 1 .. Len(stack[t]),
           stack[t][i].at = "parse", stack[t][j].at = "parse", i # j
    PROVE  stack[t][i].entry # stack[t][j].entry
<1>1. stack[t][i] \in Frame /\ stack[t][j] \in Frame
  BY DEF ConfigsInv, TypeOK
<1>2. /\ entries[stack[t][i].config] = stack[t][i].entry
      /\ entries[stack[t][j].config] = stack[t][j].entry
  BY DEF ConfigsInv, ParseInv
<1>3. stack[t][i].entry # None
  BY DEF ConfigsInv, CallsInv
<1>4. stack[t][i].config # stack[t][j].config
  BY DEF ConfigsInv, CallsInv
<1> QED
  BY <1>1, <1>2, <1>3, <1>4 DEF ConfigsInv, EntryInv, Frame

\* A goroutine goes on with a call that has not begun to parse, or begins to.
LEMMA GoesOnMade ==
    ASSUME ConfigsInv, TextInv, NEW t \in Thread, stack[t] # <<>>, Top(t).at # "parse",
           extends' = extends, owner' = owner, NEW f \in Frame, Replace(t, f),
           f.op = Top(t).op, f.config = Top(t).config, f.next = Top(t).next,
           \/ f.at # "parse" /\ read' = read
           \/ /\ f.at = "parse" /\ f.entry \in Entry /\ lock[f.entry] = None
              /\ read' = [read EXCEPT ![f.entry] = Texts(owner[t], {f.config})]
    PROVE  \A u \in Thread : FramesMade(u)'
<1>a. TypeOK /\ DOMAIN read = Entry
  BY DEF ConfigsInv, TypeOK
<1>1. /\ \A u \in Thread \ {t} : stack'[u] = stack[u]
      /\ Len(stack'[t]) = Len(stack[t])
      /\ stack'[t][Len(stack[t])] = f
      /\ \A i \in 1 .. Len(stack[t]) - 1 : stack'[t][i] = stack[t][i]
  BY <1>a, Replaced
<1>2. \A i \in 1 .. Len(stack[t]) : stack'[t][i].config = stack[t][i].config
  BY <1>a, Kept
<1>3. \A e \in Entry : lock[e] \in Thread => read'[e] = read[e]
  BY <1>a, ConfigsAssumption
<1>4. \A u \in Thread \ {t} : FramesMade(u)'
  BY <1>1, <1>3, OthersMade
<1>5. Acyclic' = Acyclic
  BY DEF Acyclic
<1>6. Len(stack[t]) \in Nat \ {0} /\ Top(t) = stack[t][Len(stack[t])] /\ Len(stack[t]) \in 1 .. Len(stack[t])
  BY <1>a, TopFrame
<1>7. FramesMade(t)'
  <2> DEFINE n == Len(stack[t])
  <2> SUFFICES ASSUME NEW i \in 1 .. n
               PROVE  IF stack'[t][i].at = "parse"
                        THEN Made(extends, Acyclic, read'[stack'[t][i].entry], stack'[t][i], owner[t], Now(t, i)')
                        ELSE stack'[t][i].next = 1
    BY <1>1, <1>5 DEF FramesMade
  <2>1. CASE i = n
    <3>1. stack'[t][i] = f /\ f.next = 1
      BY <1>1, <1>6, <2>1 DEF TextInv, FramesMade
    <3>2. Now(t, i)' = {}
      BY <1>1, <1>6, <2>1 DEF Now
    <3>3. f.at = "parse" => read'[f.entry] = Texts(owner[t], {f.config})
      BY <1>a
    <3> QED
      BY <3>1, <3>2, <3>3, MadeStart
  <2>2. CASE i # n
    <3>1. i \in 1 .. n - 1 /\ i < n /\ i + 1 \in 1 .. n
      BY <1>6, <2>2
    <3>2. stack[t][i].at = "parse" /\ stack'[t][i] = stack[t][i]
      BY <1>1, <3>1 DEF ConfigsInv, CallsInv
    <3>3. stack[t][i].entry \in Entry /\ lock[stack[t][i].entry] = t
      <4>1. stack[t][i] \in Frame
        BY <1>a DEF TypeOK
      <4> QED
        BY <3>2, <4>1 DEF ConfigsInv, CallsInv, ParseInv, Frame
    <3>4. Now(t, i)' = Now(t, i)
      BY <1>1, <1>2, <3>1 DEF Now
    <3>5. Made(extends, Acyclic, read[stack[t][i].entry], stack[t][i], owner[t], Now(t, i))
      BY <3>2 DEF TextInv, FramesMade
    <3> QED
      BY <1>3, <3>2, <3>3, <3>4, <3>5
  <2> QED
    BY <2>1, <2>2
<1> QED
  BY <1>4, <1>7

\* What a call of LoadAndAcquire may return.
Whole(t, texts) ==
    /\ texts = Texts(owner[t], Names(texts))
    /\ {Top(t).config} \cup Range(extends[Top(t).config]) \subseteq Names(texts)
    /\ Acyclic => \A x \in Names(texts) : Range(extends[x]) \subseteq Names(texts)

\* It returns, to the parse that it is made for, or to nobody.
LEMMA ReturnsMade ==
    ASSUME ConfigsInv, TextInv, NEW t \in Thread, stack[t] # <<>>, Pop(t), Leave(t),
           extends' = extends, NEW texts, Gives(t, texts), Whole(t, texts)
    PROVE  \A u \in Thread : FramesMade(u)'
<1>a. TypeOK /\ DOMAIN read = Entry
  BY DEF ConfigsInv, TypeOK
<1> DEFINE n == Len(stack[t])
           p == stack[t][n - 1]
<1>1. /\ \A u \in Thread \ {t} : stack'[u] = stack[u]
      /\ Len(stack'[t]) = n - 1
      /\ \A i \in 1 .. n - 1 : stack'[t][i] = stack[t][i]
  BY <1>a, Popped
<1>2. n \in Nat \ {0} /\ Top(t) = stack[t][n] /\ n \in 1 .. n
  BY <1>a, TopFrame
<1>3. \A u \in Thread \ {t} : owner'[u] = owner[u]
  BY <1>a DEF Leave, TypeOK
<1>4. n # 1 => owner'[t] = owner[t]
  BY DEF Leave
<1>5. n # 1 => n - 1 \in 1 .. n /\ n - 1 < n /\ n - 1 \in Nat
  <2>1. \A m \in Nat \ {0} : m # 1 => m - 1 \in 1 .. m /\ m - 1 < m /\ m - 1 \in Nat
    OBVIOUS
  <2> QED
    BY <1>2, <2>1
<1>6. \A i \in 1 .. n - 1 : stack[t][i].at = "parse" /\ i \in 1 .. n
  BY <1>2 DEF ConfigsInv, CallsInv
<1>7. n # 1 => p \in Frame /\ p.entry \in Entry /\ lock[p.entry] = t
  <2> SUFFICES ASSUME n # 1 PROVE p \in Frame /\ p.entry \in Entry /\ lock[p.entry] = t
    OBVIOUS
  <2>1. p \in Frame
    BY <1>a, <1>5, TopFrame
  <2>2. n - 1 \in 1 .. n - 1
    BY <1>2, <1>5
  <2>3. p.at = "parse"
    BY <1>6, <2>2
  <2> QED
    BY <1>5, <2>1, <2>3 DEF ConfigsInv, CallsInv, ParseInv, Frame
<1>8. /\ n = 1 => read' = read
      /\ n # 1 => read' = [read EXCEPT ![p.entry] = @ \cup texts]
  BY DEF Gives
<1>9. \A e \in Entry : lock[e] \in Thread \ {t} => read'[e] = read[e]
  BY <1>a, <1>7, <1>8
<1>10. Acyclic' = Acyclic
  BY DEF Acyclic
<1>11. FramesMade(t)'
  <2> SUFFICES ASSUME NEW i \in 1 .. n - 1
               PROVE  Made(extends, Acyclic, read'[stack[t][i].entry], stack[t][i], owner'[t], Now(t, i)')
    BY <1>1, <1>6, <1>10 DEF FramesMade
  <2>1. n # 1
    BY <1>2
  <2>2. Made(extends, Acyclic, read[stack[t][i].entry], stack[t][i], owner[t], Now(t, i))
    BY <1>6 DEF TextInv, FramesMade
  <2>3. CASE i = n - 1
    <3>1. Now(t, i) = {Top(t).config}
      BY <1>2, <2>3 DEF Now
    <3>2. Now(t, i)' = {}
      BY <1>1, <1>2, <2>3 DEF Now
    <3>3. read'[p.entry] = read[p.entry] \cup texts
      BY <1>a, <1>7, <1>8, <2>1
    <3>4. Made(extends, Acyclic, read[p.entry], p, owner[t], {Top(t).config})
      BY <2>2, <2>3, <3>1
    <3> HIDE DEF p
    <3>5. Made(extends, Acyclic, read[p.entry] \cup texts, p, owner[t], {})
      BY <3>4, MadeOf DEF Whole
    <3> QED
      BY <1>4, <2>1, <2>3, <3>2, <3>3, <3>5 DEF p
  <2>4. CASE i # n - 1
    <3>1. i < n - 1 /\ i < n /\ i + 1 \in 1 .. n - 1
      BY <1>2, <2>4
    <3>2. Now(t, i)' = Now(t, i)
      BY <1>1, <3>1 DEF Now
    <3>3. stack[t][i].entry # p.entry
      <4>1. i \in 1 .. n /\ n - 1 \in 1 .. n /\ n - 1 \in 1 .. n - 1
        BY <1>2, <1>5, <2>1
      <4> QED
        BY <1>6, <2>4, <4>1, OtherEntry
    <3>4. read'[stack[t][i].entry] = read[stack[t][i].entry]
      <4>1. stack[t][i].entry \in Entry
        <5>1. stack[t][i] \in Frame
          BY <1>a, <1>6 DEF TypeOK
        <5> QED
          BY <1>6, <5>1 DEF ConfigsInv, CallsInv, Frame
      <4> QED
        BY <1>a, <1>7, <1>8, <2>1, <3>3, <4>1
    <3> QED
      BY <1>4, <2>1, <2>2, <3>2, <3>4
  <2> QED
    BY <2>3, <2>4
<1>12. \A u \in Thread \ {t} : FramesMade(u)'
  BY <1>1, <1>3, <1>9, OthersMade
<1> QED
  BY <1>11, <1>12

\* Without cycles no config comes back to one that is being parsed.
LEMMA NotOnStack ==
    ASSUME ConfigsInv, RanksInv, NEW t \in Thread, stack[t] # <<>>, Acyclic,
           NEW k \in Range(extends[Top(t).config])
    PROVE  ~OnStack(t, k)
<1> SUFFICES ASSUME NEW i \in DOMAIN stack[t], stack[t][i].config = k
             PROVE  FALSE
  BY DEF OnStack
<1>1. PICK rank : Descends(rank)
  BY DEF Acyclic, Descends
<1>2. RankInv(rank)
  BY <1>1 DEF RanksInv
<1>3. /\ Len(stack[t]) \in Nat \ {0} /\ Top(t) = stack[t][Len(stack[t])]
      /\ Len(stack[t]) \in 1 .. Len(stack[t]) /\ Top(t) \in Frame /\ Top(t).config \in Config
  BY TopFrame DEF ConfigsInv, Frame
<1>4. i \in 1 .. Len(stack[t])
  <2>1. stack[t] \in Seq(Frame)
    BY DEF ConfigsInv, TypeOK
  <2> QED
    BY <2>1
<1>5. rank[k] < rank[Top(t).config]
  BY <1>1, <1>3 DEF Descends
<1>6. k \in Config
  <2>1. stack[t][i] \in Frame
    BY <1>4, TopFrame DEF ConfigsInv
  <2> QED
    BY <2>1 DEF Frame
<1>7. rank[k] \in Nat /\ rank[Top(t).config] \in Nat
  BY <1>1, <1>3, <1>6, RankNat
<1>8. CASE i = Len(stack[t])
  BY <1>3, <1>5, <1>7, <1>8
<1>9. CASE i # Len(stack[t])
  <2>1. i < Len(stack[t])
    BY <1>3, <1>4, <1>9
  <2>2. rank[Top(t).config] < rank[k]
    BY <1>2, <1>3, <1>4, <2>1 DEF RankInv
  <2> QED
    BY <1>5, <1>7, <2>2
<1> QED
  BY <1>8, <1>9

\* A parse goes into the next config, or bypasses the cache for it.
LEMMA ExtendsMade ==
    ASSUME ConfigsInv, RanksInv, TextInv, NEW t \in Thread, getExtendedConfig(t)
    PROVE  \A u \in Thread : FramesMade(u)'
<1> DEFINE n == Len(stack[t])
           f == Top(t)
           h == [f EXCEPT !.next = @ + 1]
           k == extends[f.config][f.next]
<1>a. TypeOK /\ DOMAIN read = Entry
  BY DEF ConfigsInv, TypeOK
<1>1. /\ stack[t] # <<>> /\ f.at = "parse" /\ UNCHANGED <<owner, extends>>
      /\ read' = IF OnStack(t, k) THEN [read EXCEPT ![f.entry] = @ \cup Texts(owner[t], {k})] ELSE read
  BY DEF getExtendedConfig, In
<1>2. /\ n \in Nat \ {0} /\ f = stack[t][n] /\ n \in 1 .. n /\ f \in Frame /\ f.config \in Config
  BY <1>1, TopFrame DEF ConfigsInv, Frame
<1>3. /\ \A u \in Thread \ {t} : stack'[u] = stack[u]
      /\ \A i \in 1 .. n - 1 : stack'[t][i] = stack[t][i]
      /\ stack'[t][n] = h
      /\ f.next \in 1 .. Len(extends[f.config])
      /\ OnStack(t, k) => Len(stack'[t]) = n
      /\ ~OnStack(t, k) => Len(stack'[t]) = n + 1 /\ stack'[t][n + 1] = Call("acquire", k)
  BY ConfigsGetExtended
<1>4. f.entry \in Entry /\ lock[f.entry] = t
  BY <1>1, <1>2 DEF ConfigsInv, CallsInv, ParseInv, Frame
<1>5. \A e \in Entry : lock[e] \in Thread \ {t} => read'[e] = read[e]
  BY <1>a, <1>1, <1>4
<1>6. \A u \in Thread \ {t} : FramesMade(u)'
  BY <1>1, <1>3, <1>5, OthersMade
<1>7. Acyclic' = Acyclic
  BY <1>1 DEF Acyclic
<1>8. h \in Frame /\ h.config = f.config /\ h.next = f.next + 1 /\ h.at = "parse" /\ h.entry = f.entry
  BY <1>1, <1>2 DEF Frame
<1>9. Len(extends[f.config]) \in Nat /\ k \in Range(extends[f.config])
  <2>1. extends[f.config] \in Seq(Config)
    BY <1>2, ConfigsAssumption DEF ConfigsInv
  <2>2. \A s \in Seq(Config) : Len(s) \in Nat /\ DOMAIN s = 1 .. Len(s)
    OBVIOUS
  <2>3. f.next \in DOMAIN extends[f.config]
    BY <1>3, <2>1, <2>2
  <2> QED
    BY <2>1, <2>2, <2>3 DEF Range
<1>10. OnStack(t, k) => ~Acyclic
  BY <1>1, <1>9, NotOnStack
<1>11. Made(extends, Acyclic, read[f.entry], f, owner[t], {})
  <2>1. Now(t, n) = {}
    BY <1>2 DEF Now
  <2> QED
    BY <1>1, <1>2, <2>1 DEF TextInv, FramesMade
<1>12. /\ Made(extends, Acyclic, read[f.entry], h, owner[t], {k})
       /\ ~Acyclic => Made(extends, Acyclic, read[f.entry] \cup Texts(owner[t], {k}), h, owner[t], {})
  <2> HIDE DEF f, h
  <2> QED
    BY <1>2, <1>3, <1>8, <1>9, <1>11, MadeNext
<1>13. Call("acquire", k).at = "load" /\ Call("acquire", k).next = 1 /\ Call("acquire", k).config = k
  BY DEF Call
<1> HIDE DEF f, h, k
<1>14. FramesMade(t)'
  <2> SUFFICES ASSUME NEW i \in 1 .. Len(stack'[t])
               PROVE  IF stack'[t][i].at = "parse"
                        THEN Made(extends, Acyclic, read'[stack'[t][i].entry], stack'[t][i], owner[t], Now(t, i)')
                        ELSE stack'[t][i].next = 1
    BY <1>1, <1>7 DEF FramesMade
  <2>1. CASE i \in 1 .. n - 1
    <3>1. i < n /\ i + 1 \in 1 .. n /\ i \in 1 .. n /\ i # n
      BY <1>2, <2>1
    <3>2. stack'[t][i] = stack[t][i] /\ stack[t][i].at = "parse"
      BY <1>3, <2>1, <3>1 DEF ConfigsInv, CallsInv
    <3>3. stack'[t][i + 1].config = stack[t][i + 1].config
      <4>1. i + 1 \in 1 .. n - 1 \/ i + 1 = n
        BY <1>2, <2>1
      <4> QED
        BY <1>2, <1>3, <1>8, <4>1
    <3>4. i < Len(stack'[t])
      BY <1>2, <1>3, <3>1
    <3>5. Now(t, i)' = Now(t, i)
      BY <3>1, <3>3, <3>4 DEF Now
    <3>6. read'[stack[t][i].entry] = read[stack[t][i].entry]
      <4>1. stack[t][i].entry # f.entry
        BY <1>1, <1>2, <3>1, <3>2, OtherEntry
      <4>2. stack[t][i].entry \in Entry
        <5>1. stack[t][i] \in Frame
          BY <1>a, <3>1 DEF TypeOK
        <5> QED
          BY <3>1, <3>2, <5>1 DEF ConfigsInv, CallsInv, Frame
      <4> QED
        BY <1>a, <1>1, <1>4, <4>1, <4>2
    <3>7. Made(extends, Acyclic, read[stack[t][i].entry], stack[t][i], owner[t], Now(t, i))
      BY <3>1, <3>2 DEF TextInv, FramesMade
    <3> QED
      BY <3>2, <3>5, <3>6, <3>7
  <2>2. CASE i = n
    <3>1. CASE OnStack(t, k)
      <4>1. Now(t, i)' = {}
        BY <1>2, <1>3, <2>2, <3>1 DEF Now
      <4>2. read'[f.entry] = read[f.entry] \cup Texts(owner[t], {k})
        BY <1>a, <1>1, <1>4, <3>1
      <4> QED
        BY <1>3, <1>8, <1>10, <1>12, <2>2, <3>1, <4>1, <4>2
    <3>2. CASE ~OnStack(t, k)
      <4>1. Now(t, i)' = {k}
        BY <1>2, <1>3, <1>13, <2>2, <3>2 DEF Now
      <4> QED
        BY <1>1, <1>3, <1>8, <1>12, <2>2, <3>2, <4>1
    <3> QED
      BY <3>1, <3>2
  <2>3. CASE i \notin 1 .. n
    <3>1. ~OnStack(t, k) /\ i = n + 1
      BY <1>2, <1>3, <2>3
    <3> QED
      BY <1>3, <1>13, <3>1
  <2>4. i \in 1 .. n => i \in 1 .. n - 1 \/ i = n
    BY <1>2
  <2> QED
    BY <2>1, <2>2, <2>3, <2>4
<1> QED
  BY <1>6, <1>14

\* No entry has another value, or becomes somebody's.
LEMMA CachedStay ==
    ASSUME AllCached, extends' = extends,
           \A k \in Config : entries'[k] # None /\ owners'[entries'[k]] # {} =>
                /\ entries'[k] = entries[k] /\ owners[entries[k]] # {}
                /\ value'[entries[k]] = value[entries[k]]
    PROVE  AllCached'
<1>1. Acyclic' = Acyclic
  BY DEF Acyclic
<1> QED
  BY <1>1 DEF AllCached

\* An entry that is somebody's, or just parsed, gets another owner.
LEMMA OwnedCached ==
    ASSUME ConfigsInv, TextInv, NEW t \in Thread, stack[t] # <<>>, NEW e \in Entry,
           entries[Top(t).config] = e, Own(t, e), UNCHANGED <<entries, extends>>,
           \A x \in Entry \ {e} : value'[x] = value[x],
           Cached(extends, Acyclic, value'[e], Top(t).config)
    PROVE  AllCached'
<1>1. Acyclic' = Acyclic
  BY DEF Acyclic
<1>2. \A x \in Entry \ {e} : owners'[x] = owners[x]
  BY DEF Own, ConfigsInv, TypeOK
<1>3. Top(t).config \in Config
  BY TopFrame DEF ConfigsInv, Frame
<1> SUFFICES ASSUME NEW k \in Config, entries[k] # None, owners'[entries[k]] # {}
             PROVE  Cached(extends, Acyclic, value'[entries[k]], k)
  BY <1>1 DEF AllCached
<1>4. CASE entries[k] = e
  <2>1. k = Top(t).config
    BY <1>3, <1>4 DEF ConfigsInv, EntryInv
  <2> QED
    BY <1>4, <2>1
<1>5. CASE entries[k] # e
  <2>1. entries[k] \in Entry \ {e}
    BY <1>5 DEF ConfigsInv, TypeOK
  <2> QED
    BY <1>2, <2>1 DEF TextInv, AllCached
<1> QED
  BY <1>4, <1>5

\* A step of a goroutine.
LEMMA TextWork ==
    ASSUME ConfigsInv, RanksInv, TextInv, NEW t \in Thread, Work(t)
    PROVE  /\ TextInv'
           /\ Pop(t) /\ Top(t).op = "acquire" => Whole(t, value'[Top(t).entry].parsed)
<1> DEFINE f == Top(t)
           e == f.entry
<1>a. TypeOK /\ DOMAIN read = Entry /\ AllCached
  BY DEF ConfigsInv, TypeOK, TextInv
<1>b. stack[t] # <<>> /\ extends' = extends
  BY WorkOnStack
<1>c. /\ Len(stack[t]) \in Nat \ {0} /\ f = stack[t][Len(stack[t])]
      /\ Len(stack[t]) \in 1 .. Len(stack[t]) /\ f \in Frame /\ f.config \in Config
  BY <1>a, <1>b, TopFrame DEF Frame
<1>d. SameCalls(t) => ~Pop(t)
  BY <1>a, <1>b, <1>c, Popped DEF SameCalls
<1>e. ASSUME NEW g \in Frame, Replace(t, g), g.op = f.op, g.config = f.config
      PROVE  ~Pop(t)
  BY <1>a, <1>b, <1>d, <1>e, Kept DEF SameCalls
<1>1. CASE Load(t)
  <2>1. In(t, "load") /\ UNCHANGED <<value, owner>> /\ f.at = "load"
    BY <1>1 DEF Load, In
  <2>2. CASE /\ entries[f.config] # None
             /\ Replace(t, [f EXCEPT !.entry = entries[f.config], !.at = "lock"])
             /\ UNCHANGED <<entries, owners, read>>
    <3> DEFINE g == [f EXCEPT !.entry = entries[f.config], !.at = "lock"]
    <3>1. /\ g \in Frame /\ g.op = f.op /\ g.config = f.config /\ g.next = f.next /\ g.at = "lock"
      BY <1>a, <1>c, <2>2 DEF Frame, TypeOK
    <3>2. Replace(t, g)
      BY <2>2
    <3> HIDE DEF f, g
    <3>3. \A u \in Thread : FramesMade(u)'
      BY <1>b, <2>1, <2>2, <3>1, <3>2, GoesOnMade DEF f
    <3>4. AllCached'
      BY <1>a, <1>b, <2>1, <2>2, CachedStay
    <3> QED
      BY <1>e, <3>1, <3>2, <3>3, <3>4 DEF TextInv
  <2>3. CASE /\ entries[f.config] = None
             /\ entries' = [entries EXCEPT ![f.config] = NewEntry]
             /\ owners' = [owners EXCEPT ![NewEntry] = {}]
             /\ Reads(t, NewEntry)
             /\ Replace(t, [f EXCEPT !.entry = NewEntry, !.at = "parse"])
    <3>1. PICK x : x = NewEntry
      OBVIOUS
    <3>2. /\ x \in Entry /\ \A k \in Config : entries[k] # x
          /\ \A u \in Thread : \A i \in 1 .. Len(stack[u]) : stack[u][i].entry # x
      BY <1>c, <2>3, <3>1, NewConfigEntry
    <3>3. /\ entries' = [entries EXCEPT ![f.config] = x]
          /\ owners' = [owners EXCEPT ![x] = {}]
          /\ read' = [read EXCEPT ![x] = Texts(owner[t], {f.config})]
      BY <2>3, <3>1 DEF Reads
    <3> DEFINE g == [f EXCEPT !.entry = x, !.at = "parse"]
    <3>4. /\ g \in Frame /\ g.op = f.op /\ g.config = f.config /\ g.next = f.next
          /\ g.at = "parse" /\ g.entry = x
      BY <1>c, <3>2 DEF Frame
    <3>5. Replace(t, g)
      BY <2>3, <3>1
    <3>6. lock[x] = None
      <4>1. \A u \in Thread : \A i \in 1 .. Len(stack[u]) : stack[u][i].entry # x
        BY <3>2
      <4>2. lock[x] = None \/ lock[x] \in Thread
        BY <1>a, <3>2 DEF TypeOK
      <4> QED
        BY <3>2, <4>1, <4>2 DEF ConfigsInv, ParseInv
    <3> HIDE DEF f, g
    <3>7. \A u \in Thread : FramesMade(u)'
      BY <1>b, <2>1, <3>2, <3>3, <3>4, <3>5, <3>6, GoesOnMade DEF f
    <3>8. AllCached'
      <4>1. ASSUME NEW k \in Config, entries'[k] # None, owners'[entries'[k]] # {}
            PROVE  /\ entries'[k] = entries[k] /\ owners[entries[k]] # {}
                   /\ value'[entries[k]] = value[entries[k]]
        <5>1. k # f.config
          BY <1>a, <1>c, <3>2, <3>3, <4>1 DEF TypeOK
        <5>2. entries'[k] = entries[k] /\ entries[k] # x
          BY <1>a, <3>2, <3>3, <5>1 DEF TypeOK
        <5>3. entries[k] \in Entry
          BY <1>a, <4>1, <5>2 DEF TypeOK
        <5> QED
          BY <1>a, <2>1, <3>3, <4>1, <5>2, <5>3 DEF TypeOK
      <4> QED
        BY <1>a, <1>b, <4>1, CachedStay
    <3> QED
      BY <1>e, <3>4, <3>5, <3>7, <3>8 DEF TextInv
  <2> QED
    BY <1>1, <2>2, <2>3 DEF Load
<1>2. CASE LockAcquire(t)
  <2>1. /\ In(t, "lock") /\ lock[e] = None /\ f.op = "acquire" /\ f.at = "lock"
        /\ UNCHANGED <<entries, value>>
    BY <1>2 DEF LockAcquire, In
  <2>2. e \in Entry
    BY <1>c, <2>1 DEF ConfigsInv, CallsInv, Frame
  <2>3. CASE /\ Replace(t, [f EXCEPT !.entry = None, !.at = "load"])
             /\ UNCHANGED <<owners, read, owner>>
    <3> DEFINE g == [f EXCEPT !.entry = None, !.at = "load"]
    <3>1. g \in Frame /\ g.op = f.op /\ g.config = f.config /\ g.next = f.next /\ g.at = "load"
      BY <1>c DEF Frame
    <3>2. Replace(t, g)
      BY <2>3
    <3> HIDE DEF f, g
    <3>3. \A u \in Thread : FramesMade(u)'
      BY <1>b, <2>1, <2>3, <3>1, <3>2, GoesOnMade DEF f
    <3>4. AllCached'
      BY <1>a, <1>b, <2>1, <2>3, CachedStay
    <3> QED
      BY <1>e, <3>1, <3>2, <3>3, <3>4 DEF TextInv
  <2>4. CASE /\ Replace(t, [f EXCEPT !.at = "parse"])
             /\ Reads(t, e) /\ UNCHANGED <<owners, owner>>
    <3> DEFINE g == [f EXCEPT !.at = "parse"]
    <3>1. /\ g \in Frame /\ g.op = f.op /\ g.config = f.config /\ g.next = f.next
          /\ g.at = "parse" /\ g.entry = e
      BY <1>c DEF Frame
    <3>2. Replace(t, g)
      BY <2>4
    <3>3. read' = [read EXCEPT ![g.entry] = Texts(owner[t], {g.config})]
      BY <2>4, <3>1 DEF Reads
    <3> HIDE DEF f, g
    <3>4. \A u \in Thread : FramesMade(u)'
      BY <1>b, <2>1, <2>2, <2>4, <3>1, <3>2, <3>3, GoesOnMade DEF f
    <3>5. AllCached'
      BY <1>a, <1>b, <2>1, <2>4, CachedStay
    <3> QED
      BY <1>e, <3>1, <3>2, <3>4, <3>5 DEF TextInv
  <2>5. CASE /\ ~Gone(e) /\ ~Expired(t, e) /\ Own(t, e)
             /\ Gives(t, value[e].parsed) /\ Return(t, e)
    <3>1. entries[f.config] = e /\ owners[e] # {} /\ e # None
      <4>1. \/ entries[f.config] = e
            \/ owners[e] = {} /\ f.op = "acquire"
        BY <1>c, <2>1 DEF ConfigsInv, EntryInv
      <4> QED
        BY <2>2, <2>5, <4>1, ConfigsAssumption DEF Gone
    <3>2. Cached(extends, Acyclic, value[e], f.config)
      BY <1>a, <1>c, <3>1 DEF AllCached
    <3>3. Whole(t, value[e].parsed)
      BY <2>5, <3>2 DEF Cached, Expired, Whole
    <3>4. Pop(t) /\ Leave(t)
      BY <2>5 DEF Return
    <3>5. \A u \in Thread : FramesMade(u)'
      BY <1>b, <2>5, <3>3, <3>4, ReturnsMade
    <3>6. AllCached'
      BY <1>b, <2>1, <2>2, <2>5, <3>1, <3>2, OwnedCached
    <3> QED
      BY <2>1, <3>3, <3>5, <3>6 DEF TextInv
  <2> QED
    BY <1>2, <2>3, <2>4, <2>5 DEF LockAcquire
<1>3. ASSUME f.op # "acquire", Return(t, e), read' = read PROVE \A u \in Thread : FramesMade(u)'
  <2>1. Len(stack[t]) = 1
    BY <1>3, <1>b, OneCall DEF ConfigsInv
  <2>2. /\ stack'[t] = <<>> /\ \A u \in Thread \ {t} : stack'[u] = stack[u]
    BY <1>3, <1>a, <1>b, <2>1, Popped DEF Return
  <2>3. \A u \in Thread \ {t} : owner'[u] = owner[u]
    BY <1>3, <1>a DEF Return, Leave, TypeOK
  <2>4. \A u \in Thread \ {t} : FramesMade(u)'
    BY <1>3, <1>b, <2>2, <2>3, OthersMade
  <2>5. FramesMade(t)'
    <3>1. Len(stack'[t]) = 0
      BY <2>2
    <3> QED
      BY <3>1 DEF FramesMade
  <2> QED
    BY <2>4, <2>5
<1>4. CASE LockAdd(t)
  <2>1. /\ f.at = "lock" /\ f.op = "add" /\ Own(t, e) /\ Return(t, e)
        /\ UNCHANGED <<entries, value, read>>
    BY <1>4 DEF LockAdd, In
  <2>2. e \in Entry /\ entries[f.config] = e
    BY <1>c, <2>1 DEF ConfigsInv, CallsInv, EntryInv, Frame
  <2>3. owners[e] # {}
    BY <1>4, <1>c, <2>2, ConfigsAssumption DEF ConfigsInv, OwnsInv, LockAdd
  <2>4. Cached(extends, Acyclic, value[e], f.config)
    BY <1>a, <1>c, <2>2, <2>3, ConfigsAssumption DEF AllCached
  <2>5. AllCached'
    BY <1>b, <2>1, <2>2, <2>4, OwnedCached
  <2> QED
    BY <1>3, <2>1, <2>5 DEF TextInv
<1>5. CASE LockRelease(t)
  <2>1. /\ f.at = "lock" /\ f.op = "release" /\ Return(t, e) /\ UNCHANGED <<value, read>>
        /\ owners' = [owners EXCEPT ![e] = owners[e] \ {owner[t]}]
        /\ Drop(f.config, owners[e] \ {owner[t]})
    BY <1>5 DEF LockRelease, In
  <2>2. e \in Entry /\ entries[f.config] = e
    BY <1>c, <2>1 DEF ConfigsInv, CallsInv, EntryInv, Frame
  <2>3. ASSUME NEW k \in Config, entries'[k] # None, owners'[entries'[k]] # {}
        PROVE  /\ entries'[k] = entries[k] /\ owners[entries[k]] # {}
               /\ value'[entries[k]] = value[entries[k]]
    <3>1. entries'[k] = entries[k]
      BY <1>a, <1>c, <2>1, <2>3 DEF Drop, TypeOK
    <3>2. entries[k] \in Entry
      BY <1>a, <2>3, <3>1 DEF TypeOK
    <3>3. owners'[entries[k]] \subseteq owners[entries[k]]
      BY <1>a, <2>1, <2>2, <3>2 DEF TypeOK
    <3> QED
      BY <2>1, <2>3, <3>1, <3>3
  <2>4. AllCached'
    BY <1>a, <1>b, <2>3, CachedStay
  <2> QED
    BY <1>3, <2>1, <2>4 DEF TextInv
<1>6. CASE getExtendedConfig(t)
  <2>1. UNCHANGED <<entries, owners, value>>
    BY <1>6 DEF getExtendedConfig
  <2>2. AllCached'
    BY <1>a, <1>b, <2>1, CachedStay
  <2>3. Len(stack'[t]) >= Len(stack[t])
    BY <1>6, ConfigsGetExtended
  <2>4. ~Pop(t)
    BY <1>a, <1>b, <1>c, <2>3, Popped
  <2> QED
    BY <1>6, <2>2, <2>4, ExtendsMade DEF TextInv
<1>7. CASE Parsed(t)
  <2>1. /\ f.at = "parse" /\ f.next > Len(extends[f.config]) /\ UNCHANGED entries
        /\ value' = [value EXCEPT ![e] = [parsed |-> read[e], hash |-> Texts(owner[t], Names(read[e]))]]
        /\ Own(t, e) /\ Gives(t, read[e]) /\ Return(t, e)
    BY <1>7 DEF Parsed, In
  <2>2. e \in Entry /\ entries[f.config] = e
    BY <1>c, <2>1 DEF ConfigsInv, CallsInv, ParseInv, Frame
  <2>3. Made(extends, Acyclic, read[e], f, owner[t], {})
    <3>1. Now(t, Len(stack[t])) = {}
      BY <1>c DEF Now
    <3> QED
      BY <1>c, <2>1, <3>1 DEF TextInv, FramesMade
  <2>4. /\ value'[e] = [parsed |-> read[e], hash |-> Texts(owner[t], Names(read[e]))]
        /\ \A x \in Entry \ {e} : value'[x] = value[x]
    BY <2>1, <2>2 DEF ConfigsInv, TypeOK
  <2>5. /\ read[e] = Texts(owner[t], Names(read[e]))
        /\ Cached(extends, Acyclic, value'[e], f.config)
    <3>1. extends \in Graphs
      BY DEF ConfigsInv
    <3> HIDE DEF f
    <3> QED
      BY <1>c, <2>1, <2>3, <2>4, <3>1, MadeAll
  <2>6. value'[e].parsed = read[e]
    BY <2>4
  <2>7. Whole(t, read[e])
    BY <2>5, <2>6 DEF Cached, Whole
  <2>8. \A u \in Thread : FramesMade(u)'
    BY <1>b, <2>1, <2>7, ReturnsMade DEF Return
  <2>9. AllCached'
    BY <1>b, <2>1, <2>2, <2>4, <2>5, OwnedCached
  <2> QED
    BY <2>6, <2>7, <2>8, <2>9 DEF TextInv
<1> QED
  BY <1>1, <1>2, <1>4, <1>5, <1>6, <1>7 DEF Work

\* The invariant of the texts.
LEMMA TextInvariant == Spec => []TextInv
<1>1. Init => TextInv
  <2> SUFFICES ASSUME Init PROVE TextInv
    OBVIOUS
  <2>1. \A t \in Thread : stack[t] = <<>> /\ 1 .. Len(stack[t]) = {}
    BY DEF Init
  <2>2. \A k \in Config : entries[k] = None
    BY DEF Init
  <2> QED
    BY <2>1, <2>2 DEF TextInv, FramesMade, AllCached
<1>2. ASSUME ConfigsInv, RanksInv, TextInv, [Next]_vars PROVE TextInv'
  <2> USE <1>2
  <2>1. CASE UNCHANGED vars
    <3>1. UNCHANGED <<stack, owner, read, extends, entries, owners, value>>
      BY <2>1 DEF vars
    <3>2. Acyclic' = Acyclic
      BY <3>1 DEF Acyclic
    <3> QED
      BY <3>1, <3>2 DEF TextInv, FramesMade, AllCached, Now
  <2>2. ASSUME NEW t \in Thread, Work(t) PROVE TextInv'
    BY <2>2, TextWork
  <2>3. ASSUME NEW t \in Thread, NEW o \in Owner, NEW q, NEW k, Begin(t, o, Call(q, k)) PROVE TextInv'
    <3>1. /\ UNCHANGED <<entries, owners, value, read, extends>> /\ stack[t] = <<>>
          /\ stack' = [stack EXCEPT ![t] = <<Call(q, k)>>] /\ owner' = [owner EXCEPT ![t] = o]
      BY <2>3 DEF Begin
    <3>2. \A u \in Thread \ {t} : stack'[u] = stack[u] /\ owner'[u] = owner[u]
      BY <3>1 DEF ConfigsInv, TypeOK
    <3>3. \A u \in Thread \ {t} : FramesMade(u)'
      BY <3>1, <3>2, OthersMade
    <3>4. stack'[t] = <<Call(q, k)>>
      BY <3>1 DEF ConfigsInv, TypeOK
    <3>5. \A i \in 1 .. Len(stack'[t]) : stack'[t][i].at = "load" /\ stack'[t][i].next = 1
      BY <3>4 DEF Call
    <3>6. FramesMade(t)'
      BY <3>5 DEF FramesMade
    <3>7. AllCached'
      BY <3>1, CachedStay DEF TextInv
    <3> QED
      BY <3>3, <3>6, <3>7 DEF TextInv
  <2>4. CASE Rest \/ Stuck
    BY <2>1, <2>4 DEF Rest, Stuck
  <2> QED
    BY <2>1, <2>2, <2>3, <2>4 DEF Next, LoadAndAcquire, AddOwner, Release
<1> QED
  BY <1>1, <1>2, ConfigsInvariant, RanksInvariant, PTL DEF Spec

(***************************************************************************)
(* For every set of configs, of graphs between them, of snapshots, of what *)
(* these see and of goroutines: what LoadAndAcquire returns is made of the *)
(* texts that its snapshot sees, of all those it should be made of         *)
(* (isExpired, getExtendedConfig).                                         *)
(***************************************************************************)
THEOREM Fresh == Spec => FreshForSnapshot
<1> DEFINE P == \A t \in Thread :
                    stack[t] # <<>> /\ Top(t).op = "acquire" /\ Len(stack'[t]) < Len(stack[t])
                        => LET k == Top(t).config
                               parsed == value'[Top(t).entry].parsed
                           IN  /\ parsed = Texts(owner[t], Names(parsed))
                               /\ {k} \cup Range(extends[k]) \subseteq Names(parsed)
                               /\ Acyclic => Closed(Names(parsed))
<1>1. ASSUME ConfigsInv, RanksInv, TextInv, [Next]_vars PROVE [P]_vars
  <2> USE <1>1
  <2>0. TypeOK
    BY DEF ConfigsInv
  <2>a. \A u \in Thread : Len(stack[u]) \in Nat
    BY <2>0 DEF TypeOK
  <2>1. ASSUME NEW t \in Thread, Work(t) PROVE P
    <3>1. /\ \A u \in Thread \ {t} : stack'[u] = stack[u]
          /\ SameCalls(t) \/ Pop(t) \/ getExtendedConfig(t)
      BY <2>1, WorkOnStack
    <3>2. getExtendedConfig(t) => ~(Len(stack'[t]) < Len(stack[t]))
      <4> SUFFICES ASSUME getExtendedConfig(t) PROVE ~(Len(stack'[t]) < Len(stack[t]))
        OBVIOUS
      <4>1. ConfigsInv' /\ Len(stack'[t]) >= Len(stack[t])
        BY ConfigsGetExtended
      <4>2. stack'[t] \in Seq(Frame)
        BY <4>1 DEF ConfigsInv, TypeOK
      <4>3. Len(stack'[t]) \in Nat
        BY <4>2
      <4> QED
        BY <2>a, <4>1, <4>3
    <3>3. \A u \in Thread \ {t} : ~(Len(stack'[u]) < Len(stack[u]))
      BY <2>a, <3>1
    <3>4. Len(stack'[t]) < Len(stack[t]) => Pop(t)
      BY <2>a, <3>1, <3>2 DEF SameCalls
    <3>5. Len(stack'[t]) < Len(stack[t]) /\ Top(t).op = "acquire" =>
                Whole(t, value'[Top(t).entry].parsed)
      BY <2>1, <3>4, TextWork
    <3> QED
      BY <3>3, <3>5 DEF Whole, Closed
  <2>2. ASSUME NEW t \in Thread, NEW o \in Owner, NEW f, Begin(t, o, f) PROVE P
    <3>1. stack[t] = <<>> /\ \A u \in Thread \ {t} : stack'[u] = stack[u]
      BY <2>0, <2>2 DEF Begin, TypeOK
    <3>2. \A u \in Thread \ {t} : ~(Len(stack'[u]) < Len(stack[u]))
      BY <2>a, <3>1
    <3> HIDE DEF P
    <3> QED
      BY <3>1, <3>2 DEF P
  <2>3. CASE Rest \/ Stuck
    BY <2>3 DEF Rest, Stuck
  <2> HIDE DEF P
  <2> QED
    BY <2>1, <2>2, <2>3 DEF Next, LoadAndAcquire, AddOwner, Release
<1>2. [][P]_vars <=> FreshForSnapshot
  BY DEF FreshForSnapshot
<1> HIDE DEF P
<1> QED
  BY <1>1, <1>2, ConfigsInvariant, RanksInvariant, TextInvariant, PTL DEF Spec

-----------------------------------------------------------------------------
(* The registrations of content mapper extensions.                         *)

(***************************************************************************)
(* A task is of a snapshot that is there, and what is registered are the   *)
(* extensions of the snapshot it is said to be of.                         *)
(***************************************************************************)
RegistrationInv ==
    /\ updates \in Nat
    /\ \A t \in tasks : "n" \in DOMAIN t /\ t.n \in 1 .. updates
    /\ DOMAIN extensions = 0 .. MaxAtOnce
    /\ registration.id \in 0 .. updates
    /\ registration.extensions = extensions[registration.id]

\* A task that goes on is of the same snapshot; the registration stays.
LEMMA RegistrationStays ==
    ASSUME RegistrationInv, NEW t \in tasks, NEW u, AtOnce!Step(t, u), "n" \in DOMAIN u, u.n = t.n,
           UNCHANGED <<updates, extensions, registration>>
    PROVE  RegistrationInv'
  BY DEF RegistrationInv, AtOnce!Step

LEMMA NewTaskIs ==
    ASSUME NEW n, NEW left
    PROVE  "n" \in DOMAIN AtOnce!NewTask(n, left) /\ AtOnce!NewTask(n, left).n = n
  BY DEF AtOnce!NewTask

\* A new snapshot has a number of its own.
LEMMA RegistrationOfSnapshot ==
    ASSUME RegistrationInv, AtOnce!NextSnapshot, UNCHANGED registration,
           tasks' = tasks \/ (\E left : tasks' = tasks \cup {AtOnce!NewTask(updates + 1, left)})
    PROVE  RegistrationInv'
<1> USE DEF RegistrationInv
<1>1. updates' = updates + 1 /\ updates' \in Nat /\ registration.id # updates + 1
  BY DEF AtOnce!NextSnapshot
<1>2. DOMAIN extensions' = DOMAIN extensions /\ (\A k \in 0 .. updates : extensions'[k] = extensions[k])
  BY DEF AtOnce!NextSnapshot
<1>3. \A t \in tasks' : "n" \in DOMAIN t /\ t.n \in 1 .. updates'
  BY <1>1, NewTaskIs
<1> QED
  BY <1>1, <1>2, <1>3

\* The steps of a task: only the last one touches the registration, and does
\* not for a snapshot that is older than the one registered.
LEMMA RegistrationOfTask ==
    ASSUME RegistrationInv, NEW t \in tasks, AtOnce!Task(t)
    PROVE  /\ RegistrationInv'
           /\ registration'.id >= registration.id
           /\ registration'.extensions = extensions[registration'.id]
<1>1. "n" \in DOMAIN t /\ t.n \in 1 .. updates /\ updates \in Nat
  BY DEF RegistrationInv
<1>2. ASSUME NEW u, AtOnce!Step(t, u), "n" \in DOMAIN u, u.n = t.n, UNCHANGED <<updates, extensions, registration>>
      PROVE  /\ RegistrationInv'
             /\ registration'.id >= registration.id
             /\ registration'.extensions = extensions[registration'.id]
  BY <1>2, RegistrationStays DEF RegistrationInv
<1> USE DEF AtOnce!snapshots
<1>3. CASE AtOnce!Diff(t)
  <2>1. UNCHANGED <<updates, extensions, registration>>
    BY <1>3 DEF AtOnce!Diff
  <2>2. PICK s \in t.left :
          LET old == slots[t.n - 1][s]
              new == slots[t.n][s]
              retry == old.id = new.id /\ <<SlotName[s], new.id>> \in pending
              rest == AtOnce!NewTask(t.n, t.left \ {s})
          IN  IF old.id = new.id /\ ~retry
                THEN AtOnce!Step(t, rest)
                ELSE AtOnce!Step(t, [rest EXCEPT !.at = IF new = AtOnce!NoWatch THEN "old" ELSE "acquire",
                                                 !.slot = s, !.new = new,
                                                 !.old = IF retry THEN AtOnce!NoWatch ELSE old,
                                                 !.todo = IF new = AtOnce!NoWatch THEN old.globs ELSE new.globs])
    BY <1>3 DEF AtOnce!Diff
  <2> DEFINE old == slots[t.n - 1][s]
             new == slots[t.n][s]
             retry == old.id = new.id /\ <<SlotName[s], new.id>> \in pending
             rest == AtOnce!NewTask(t.n, t.left \ {s})
             u == [rest EXCEPT !.at = IF new = AtOnce!NoWatch THEN "old" ELSE "acquire",
                               !.slot = s, !.new = new,
                               !.old = IF retry THEN AtOnce!NoWatch ELSE old,
                               !.todo = IF new = AtOnce!NoWatch THEN old.globs ELSE new.globs]
  <2>3. AtOnce!Step(t, rest) \/ AtOnce!Step(t, u)
    BY <2>2
  <2>4. "n" \in DOMAIN rest /\ rest.n = t.n
    BY NewTaskIs
  <2> HIDE DEF rest, old, new, retry
  <2>5. "n" \in DOMAIN u /\ u.n = t.n
    BY <2>4
  <2> HIDE DEF u
  <2> QED
    BY <1>2, <2>1, <2>3, <2>4, <2>5
<1>4. CASE AtOnce!Acquire(t)
  <2>1. PICK g \in t.todo :
          LET left == t.todo \ {g}
              fresh == IF AtOnce!IsNew(t, g) THEN t.fresh \cup {g} ELSE t.fresh
          IN  AtOnce!Step(t, [t EXCEPT !.fresh = fresh,
                                       !.at = IF left = {} THEN "watch" ELSE "acquire",
                                       !.todo = IF left = {} THEN fresh ELSE left])
    BY <1>4 DEF AtOnce!Acquire
  <2> DEFINE left == t.todo \ {g}
             fresh == IF AtOnce!IsNew(t, g) THEN t.fresh \cup {g} ELSE t.fresh
             u == [t EXCEPT !.fresh = fresh, !.at = IF left = {} THEN "watch" ELSE "acquire",
                            !.todo = IF left = {} THEN fresh ELSE left]
  <2>2. AtOnce!Step(t, u)
    BY <2>1
  <2> HIDE DEF left, fresh
  <2>3. "n" \in DOMAIN u /\ u.n = t.n
    BY <1>1
  <2> HIDE DEF u
  <2>4. UNCHANGED <<updates, extensions, registration>>
    BY <1>4 DEF AtOnce!Acquire
  <2> QED
    BY <1>2, <2>2, <2>3, <2>4
<1>5. CASE AtOnce!WatchFiles(t)
  <2>1. PICK g \in t.todo :
          \/ AtOnce!Step(t, [t EXCEPT !.todo = @ \ {g}])
          \/ AtOnce!Step(t, [t EXCEPT !.todo = @ \ {g}, !.failed = TRUE])
    BY <1>5 DEF AtOnce!WatchFiles
  <2>2. UNCHANGED <<updates, extensions, registration>>
    BY <1>5 DEF AtOnce!WatchFiles
  <2> QED
    BY <1>1, <1>2, <2>1, <2>2
<1>6. CASE AtOnce!Settle(t)
  BY <1>1, <1>2, <1>6 DEF AtOnce!Settle, AtOnce!ToOld
<1>7. CASE AtOnce!Rollback(t)
  <2>1. AtOnce!Step(t, AtOnce!ToOld(t)) \/ \E g \in t.todo : AtOnce!Step(t, [t EXCEPT !.todo = @ \ {g}])
    BY <1>7 DEF AtOnce!Rollback
  <2>2. UNCHANGED <<updates, extensions, registration>>
    BY <1>7 DEF AtOnce!Rollback
  <2> QED
    BY <1>1, <1>2, <2>1, <2>2 DEF AtOnce!ToOld
<1>8. CASE AtOnce!ReleaseOld(t)
  <2>1. \/ AtOnce!Step(t, [t EXCEPT !.at = "unwatch"])
        \/ \E g \in t.todo :
             AtOnce!Step(t, [t EXCEPT !.todo = @ \ {g}, !.removed = @ \cup AtOnce!RemovedIDs(g)])
    BY <1>8 DEF AtOnce!ReleaseOld
  <2>2. UNCHANGED <<updates, extensions, registration>>
    BY <1>8 DEF AtOnce!ReleaseOld
  <2> QED
    BY <1>1, <1>2, <2>1, <2>2
<1>9. CASE AtOnce!UnwatchFiles(t)
  <2>1. \/ AtOnce!Step(t, AtOnce!NewTask(t.n, t.left))
        \/ \E id \in t.removed : AtOnce!Step(t, [t EXCEPT !.removed = @ \ {id}])
    BY <1>9 DEF AtOnce!UnwatchFiles
  <2>2. UNCHANGED <<updates, extensions, registration>>
    BY <1>9 DEF AtOnce!UnwatchFiles, AtOnce!registry
  <2> QED
    BY <1>1, <1>2, <2>1, <2>2, NewTaskIs
<1>10. CASE AtOnce!Register(t)
  <2>1. UNCHANGED <<updates, extensions>> /\ tasks' = tasks \ {t}
    BY <1>10 DEF AtOnce!Register
  <2>2. CASE registration' = registration
    BY <2>1, <2>2 DEF RegistrationInv
  <2>3. CASE registration' # registration
    <3>1. ~AtOnce!Stale(t) /\ registration' = [id |-> t.n, extensions |-> extensions[t.n]]
      BY <1>10, <2>3 DEF AtOnce!Register
    <3>2. registration'.id = t.n /\ registration'.extensions = extensions[t.n] /\ t.n > registration.id
      BY <1>1, <3>1 DEF AtOnce!Stale, RegistrationInv
    <3> QED
      BY <1>1, <2>1, <3>2 DEF RegistrationInv
  <2> QED
    BY <2>2, <2>3
<1> QED
  BY <1>3, <1>4, <1>5, <1>6, <1>7, <1>8, <1>9, <1>10 DEF AtOnce!Task

\* Tasks that finish out of order, fail, or compare adopted snapshots never put
\* an older snapshot's extensions back (updateContentMapperRegistrations), for
\* any number of updates, slots, globs and extensions.
THEOREM Registration == AtOnce!Spec => RegistrationForward
<1>1. AtOnce!Init => RegistrationInv
  BY WatchesAssumption DEF AtOnce!Init, RegistrationInv
<1>2. RegistrationInv /\ [AtOnce!Next]_(AtOnce!vars) =>
        /\ RegistrationInv'
        /\ [registration'.id >= registration.id
            /\ registration'.extensions = extensions[registration'.id]]_(AtOnce!vars)
  <2> SUFFICES ASSUME RegistrationInv, [AtOnce!Next]_(AtOnce!vars)
               PROVE  /\ RegistrationInv'
                      /\ \/ /\ registration'.id >= registration.id
                            /\ registration'.extensions = extensions[registration'.id]
                         \/ UNCHANGED AtOnce!vars
    OBVIOUS
  <2>1. CASE UNCHANGED AtOnce!vars
    BY <2>1 DEF AtOnce!vars, RegistrationInv
  <2>2. CASE AtOnce!updateSnapshot
    <3>1. RegistrationInv'
      BY <2>2, RegistrationOfSnapshot DEF AtOnce!updateSnapshot
    <3> QED
      BY <2>2, <3>1 DEF AtOnce!updateSnapshot, RegistrationInv
  <2>3. CASE AtOnce!adoptSnapshotChange
    <3>1. RegistrationInv'
      BY <2>3, RegistrationOfSnapshot DEF AtOnce!adoptSnapshotChange
    <3> QED
      BY <2>3, <3>1 DEF AtOnce!adoptSnapshotChange, RegistrationInv
  <2>4. CASE AtOnce!Idle
    BY <2>4 DEF AtOnce!Idle, AtOnce!vars, RegistrationInv
  <2> QED
    BY <2>1, <2>2, <2>3, <2>4, RegistrationOfTask DEF AtOnce!Next
<1> QED
  BY <1>1, <1>2, PTL DEF AtOnce!Spec, RegistrationForward, AtOnce!RegistrationForward

-----------------------------------------------------------------------------
(* What the client watches, with the tasks one after the other.            *)

\* A watch lists its globs, finitely many, in an order.
WatchNames == IsFiniteSet(Glob) /\ Glob \subseteq Int

Watch == [id : Int, globs : SUBSET Glob]

\* An update gives its number to one watch.
NumberedOnce ==
    \A i \in 1 .. updates, s \in Slot, r \in Slot : slots[i][s].id = i /\ slots[i][r].id = i => s = r

(***************************************************************************)
(* The snapshots so far: a watch's number is its slot's name for its globs *)
(* (NoWatch has none, and -1), and one that has another number than its    *)
(* predecessor is the update's own or has the same globs.                  *)
(***************************************************************************)
HistoryInv ==
    /\ updates \in 0 .. MaxUpdates
    /\ slots \in [0 .. MaxUpdates -> [Slot -> Watch]]
    /\ \A i \in 0 .. updates, s \in Slot :
         /\ slots[i][s].id <= i
         /\ slots[i][s].id = -1 => slots[i][s] = InOrder!NoWatch
    /\ \A i \in 1 .. updates, s \in Slot :
         LET old == slots[i - 1][s]
             new == slots[i][s]
         IN  IF old.id = new.id THEN old = new
             ELSE new.id = -1 \/ new.id = i \/ new.globs = old.globs
    /\ NumberedOnce

Works(t, s) == t.at # "diff" /\ s = t.slot

\* A slot's old watch has g in the registry, or its new one, for the task t:
\* its old one until it is released, its new one from when it is acquired.
OldHas(t, s, g) ==
    \/ s \in t.left /\ g \in slots[updates - 1][s].globs
    \/ Works(t, s) /\ t.at \in {"acquire", "watch"} /\ g \in t.old.globs
    \/ Works(t, s) /\ t.at = "old" /\ g \in t.todo
NewHas(t, s, g) ==
    /\ s \notin t.left /\ g \in slots[updates][s].globs
    /\ Works(t, s) /\ t.at = "acquire" => g \notin t.todo

\* The watches that have g: each is its slot and its number.
Counted(t, p, g) ==
    \/ OldHas(t, p[1], g) /\ p[2] = slots[updates - 1][p[1]].id
    \/ NewHas(t, p[1], g) /\ p[2] = slots[updates][p[1]].id
Having(t, g) == {p \in Slot \X Int : Counted(t, p, g)}

TaskFields == {"n", "at", "left", "slot", "old", "new", "todo", "fresh", "failed", "removed"}

TaskInv(t) ==
    /\ DOMAIN t = TaskFields
    /\ t.n = updates /\ t.left \subseteq Slot /\ t.todo \subseteq Glob /\ t.fresh \subseteq Glob /\ ~t.failed
    /\ t.at \in {"diff", "acquire", "watch", "old", "unwatch"}
    /\ updates = 0 => t.at = "diff" /\ t.left = {}
    /\ t.at # "diff" =>
         /\ t.slot \in Slot \ t.left /\ t.old.id # t.new.id
         /\ t.old = slots[updates - 1][t.slot] /\ t.new = slots[updates][t.slot]
    /\ t.at = "acquire" => t.todo \subseteq t.new.globs /\ t.new.id # -1
    /\ t.at = "old" => t.todo \subseteq t.old.globs
    /\ t.at \notin {"old", "unwatch"} => t.removed = {}

\* g is counted for the task's new watch, and the client is not told yet.
ToWatch(t, g) == \/ t.at = "acquire" /\ g \in t.fresh
                 \/ t.at = "watch" /\ g \in t.todo

HavingInv(t) == \A g \in Glob : IsFiniteSet(Having(t, g)) /\ count[g] = Cardinality(Having(t, g))

\* The id of a glob is from a watch that had a number of its own.
OwnerOf(g) ==
    \E i \in 1 .. updates, s \in Slot :
      /\ slots[i][s].id = i /\ g \in slots[i][s].globs
      /\ globOwner[g] = InOrder!WatcherID(s, slots[i][s], g)

OwnerInv(t) ==
    \A g \in Glob :
      /\ count[g] > 0 => OwnerOf(g) /\ globOwner[g] \notin t.removed
      /\ ToWatch(t, g) => count[g] > 0 /\ globOwner[g] = InOrder!ID(t, g)

\* The client has what is counted, and what the task is about to remove.
ClientInv(t) ==
    /\ \A g \in Glob : count[g] > 0 /\ ~ToWatch(t, g) => <<globOwner[g], g>> \in watched
    /\ \A r \in watched :
         /\ r = <<r[1], r[2]>> /\ r[2] \in Glob
         /\ r[1] \in t.removed \/ (count[r[2]] > 0 /\ r[1] = globOwner[r[2]] /\ ~ToWatch(t, r[2]))

WatchTypes ==
    pending = {} /\ count \in [Glob -> Nat] /\ DOMAIN globOwner = Glob

TaskState(t) == TaskInv(t) /\ HavingInv(t) /\ OwnerInv(t) /\ ClientInv(t)

\* The task there is, or one that has nothing left to do.
TheTask(t) ==
    \/ tasks = {} /\ t = InOrder!NewTask(updates, {})
    \/ tasks = {t} /\ updates > 0

WatchInv == HistoryInv /\ WatchTypes /\ \E t : TheTask(t) /\ TaskState(t)

\* Two globs have different ids.
LEMMA OwnersDiffer ==
    ASSUME WatchNames, HistoryInv, NEW g \in Glob, NEW h \in Glob, OwnerOf(g), OwnerOf(h),
           globOwner[g] = globOwner[h]
    PROVE  g = h
<1> DEFINE Before(w, x) == {y \in w.globs : y < x}
<1>1. PICK i \in 1 .. updates, s \in Slot :
        slots[i][s].id = i /\ g \in slots[i][s].globs /\ globOwner[g] = InOrder!WatcherID(s, slots[i][s], g)
  BY DEF OwnerOf
<1>2. PICK j \in 1 .. updates, r \in Slot :
        slots[j][r].id = j /\ h \in slots[j][r].globs /\ globOwner[h] = InOrder!WatcherID(r, slots[j][r], h)
  BY DEF OwnerOf
<1>3. \A S : InOrder!Cardinality(S) = Cardinality(S)
  BY DEF InOrder!Cardinality, Cardinality
<1>4. /\ globOwner[g] = <<SlotName[s], i, Cardinality(Before(slots[i][s], g))>>
      /\ globOwner[h] = <<SlotName[r], j, Cardinality(Before(slots[j][r], h))>>
  BY <1>1, <1>2, <1>3 DEF InOrder!WatcherID
<1> HIDE DEF Before
<1>5. s = r /\ i = j /\ Cardinality(Before(slots[i][s], g)) = Cardinality(Before(slots[i][s], h))
  <2>1. i = j /\ Cardinality(Before(slots[i][s], g)) = Cardinality(Before(slots[j][r], h))
    <3>1. \A x, y, m, n : <<x, i, m>> = <<y, j, n>> => i = j /\ m = n
      OBVIOUS
    <3>2. /\ <<SlotName[s], i, Cardinality(Before(slots[i][s], g))>>
               = <<SlotName[r], j, Cardinality(Before(slots[j][r], h))>>
      BY <1>4
    <3> QED
      BY <3>1, <3>2
  <2>2. s = r
    BY <1>1, <1>2, <2>1 DEF HistoryInv, NumberedOnce
  <2> QED
    BY <2>1, <2>2
<1> DEFINE w == slots[i][s]
<1>6. w.globs \subseteq Glob
  <2>1. i \in 0 .. MaxUpdates
    BY WatchesAssumption DEF HistoryInv
  <2> QED
    BY <2>1 DEF HistoryInv, Watch
<1>7. ASSUME NEW x \in w.globs, NEW y \in w.globs, x < y
      PROVE  Cardinality(Before(w, x)) # Cardinality(Before(w, y))
  <2>1. IsFiniteSet(Before(w, y))
    BY <1>6, FS_Subset DEF WatchNames, Before
  <2>2. x \in Int /\ y \in Int /\ \A z \in w.globs : z \in Int
    BY <1>6 DEF WatchNames
  <2>3. Before(w, x) \subseteq Before(w, y) /\ x \in Before(w, y) /\ x \notin Before(w, x)
    BY <1>7, <2>2 DEF Before
  <2> QED
    BY <2>1, <2>3, FS_Subset
<1>8. g \in w.globs /\ h \in w.globs /\ g \in Int /\ h \in Int
  BY <1>1, <1>2, <1>5 DEF WatchNames
<1>9. Cardinality(Before(w, g)) = Cardinality(Before(w, h))
  BY <1>5
<1> HIDE DEF w
<1>10. ~(g < h) /\ ~(h < g)
  BY <1>7, <1>8, <1>9
<1> QED
  BY <1>8, <1>10

-----------------------------------------------------------------------------
(* What the steps of a task have in common.                                *)

AState(t) == WatchNames /\ HistoryInv /\ WatchTypes /\ TheTask(t) /\ TaskState(t)

\* The snapshots and the registry's types stay, and the task becomes u.
Goes(t, u) ==
    /\ tasks = {t} /\ tasks' = {u} /\ updates > 0
    /\ UNCHANGED <<updates, slots, pending>>
    /\ count' \in [Glob -> Nat] /\ DOMAIN globOwner' = Glob

LEMMA GoesOn ==
    ASSUME NEW t, NEW u, AState(t), Goes(t, u), TaskState(u)'
    PROVE  WatchInv'
<1>1. HistoryInv'
  BY DEF AState, HistoryInv, NumberedOnce, Goes
<1>2. WatchTypes'
  BY DEF AState, WatchTypes, Goes
<1>3. TheTask(u)'
  BY DEF TheTask, Goes
<1> QED
  BY <1>1, <1>2, <1>3 DEF WatchInv

\* Nothing is counted, and the client is not called.
LEMMA SameHaving ==
    ASSUME NEW t, NEW u, AState(t), UNCHANGED count,
           \A p \in Slot \X Int, g \in Glob : Counted(u, p, g)' <=> Counted(t, p, g)
    PROVE  HavingInv(u)'
<1>1. \A g \in Glob : Having(u, g)' = Having(t, g)
  BY DEF Having
<1> QED
  BY <1>1 DEF AState, TaskState, HavingInv

LEMMA SameOwners ==
    ASSUME NEW t, NEW u, AState(t), UNCHANGED <<updates, slots, count, globOwner, watched>>,
           u.removed = t.removed,
           \A g \in Glob : ToWatch(u, g) <=> ToWatch(t, g),
           \A g \in Glob : ToWatch(u, g) => u.slot = t.slot /\ u.new = t.new
    PROVE  OwnerInv(u)' /\ ClientInv(u)'
<1>1. \A g \in Glob : ToWatch(u, g)' <=> ToWatch(t, g)
  BY DEF ToWatch
<1>2. \A g \in Glob : OwnerOf(g)' <=> OwnerOf(g)
  BY DEF OwnerOf
<1>3. \A g \in Glob : ToWatch(t, g) => InOrder!ID(u, g) = InOrder!ID(t, g)
  BY DEF InOrder!ID
<1>4. OwnerInv(u)'
  BY <1>1, <1>2, <1>3 DEF OwnerInv, AState, TaskState
<1>5. ClientInv(u)'
  BY <1>1 DEF ClientInv, AState, TaskState
<1> QED
  BY <1>4, <1>5

-----------------------------------------------------------------------------
(* The steps of a task.                                                    *)

LEMMA WatchDiff ==
    ASSUME NEW t, AState(t), tasks = {t}, updates > 0, InOrder!Diff(t)
    PROVE  WatchInv'
<1>0. /\ DOMAIN t = TaskFields /\ t.n = updates /\ t.left \subseteq Slot /\ t.at = "diff" /\ t.removed = {}
      /\ UNCHANGED <<updates, slots, count, globOwner, pending, watched>> /\ pending = {}
      /\ updates \in 1 .. MaxUpdates /\ updates - 1 \in 0 .. updates
      /\ slots \in [0 .. MaxUpdates -> [Slot -> Watch]]
  BY WatchesAssumption
     DEF AState, TaskState, TaskInv, WatchTypes, HistoryInv, InOrder!Diff, InOrder!snapshots, InOrder!registry
<1>1. PICK s \in t.left :
        LET old == slots[t.n - 1][s]
            new == slots[t.n][s]
            rest == InOrder!NewTask(t.n, t.left \ {s})
        IN  IF old.id = new.id
              THEN InOrder!Step(t, rest)
              ELSE InOrder!Step(t, [rest EXCEPT !.at = IF new = InOrder!NoWatch THEN "old" ELSE "acquire",
                                                !.slot = s, !.new = new, !.old = old,
                                                !.todo = IF new = InOrder!NoWatch THEN old.globs ELSE new.globs])
  BY <1>0 DEF InOrder!Diff
<1>2. PICK old : old = slots[updates - 1][s]
  OBVIOUS
<1>3. PICK new : new = slots[updates][s]
  OBVIOUS
<1>4. PICK rest : rest = InOrder!NewTask(updates, t.left \ {s})
  OBVIOUS
<1>5. /\ DOMAIN rest = TaskFields /\ rest.n = updates /\ rest.left = t.left \ {s} /\ rest.at = "diff"
      /\ rest.todo = {} /\ rest.fresh = {} /\ rest.removed = {} /\ ~rest.failed
  BY <1>4 DEF InOrder!NewTask, TaskFields
<1>6. s \in Slot /\ old \in Watch /\ new \in Watch
  <2>1. s \in Slot /\ updates \in 0 .. MaxUpdates /\ updates - 1 \in 0 .. MaxUpdates
    BY <1>0, <1>1, WatchesAssumption
  <2> QED
    BY <1>0, <1>2, <1>3, <2>1
<1>7. CASE old.id = new.id
  <2>1. Goes(t, rest)
    BY <1>0, <1>1, <1>2, <1>3, <1>4, <1>7 DEF Goes, InOrder!Step, AState, WatchTypes
  <2>2. TaskInv(rest)'
    BY <1>0, <1>5 DEF TaskInv
  <2>3. old = new
    <3>1. updates \in 1 .. updates
      BY <1>0
    <3> QED
      BY <1>2, <1>3, <1>6, <1>7, <3>1 DEF AState, HistoryInv
  <2>4. ASSUME NEW p \in Slot \X Int, NEW g \in Glob PROVE Counted(rest, p, g)' <=> Counted(t, p, g)
    <3>1. CASE p[1] = s
      BY <1>0, <1>1, <1>2, <1>3, <1>5, <2>3, <3>1 DEF Counted, OldHas, NewHas, Works
    <3>2. CASE p[1] # s
      BY <1>0, <1>5, <3>2 DEF Counted, OldHas, NewHas, Works
    <3> QED
      BY <3>1, <3>2
  <2>5. HavingInv(rest)'
    BY <1>0, <2>4, SameHaving
  <2>6. OwnerInv(rest)' /\ ClientInv(rest)'
    BY <1>0, <1>5, SameOwners DEF ToWatch
  <2> QED
    BY <2>1, <2>2, <2>5, <2>6, GoesOn DEF TaskState
<1>8. CASE old.id # new.id
  <2>1. PICK u : u = [rest EXCEPT !.at = IF new = InOrder!NoWatch THEN "old" ELSE "acquire",
                                  !.slot = s, !.new = new, !.old = old,
                                  !.todo = IF new = InOrder!NoWatch THEN old.globs ELSE new.globs]
    OBVIOUS
  <2>2. tasks' = {u}
    BY <1>0, <1>1, <1>2, <1>3, <1>4, <1>8, <2>1 DEF InOrder!Step
  <2>3. /\ DOMAIN u = TaskFields /\ u.n = updates /\ u.left = t.left \ {s}
        /\ u.at = (IF new = InOrder!NoWatch THEN "old" ELSE "acquire")
        /\ u.slot = s /\ u.new = new /\ u.old = old
        /\ u.todo = (IF new = InOrder!NoWatch THEN old.globs ELSE new.globs)
        /\ u.removed = {} /\ ~u.failed /\ u.fresh = {}
    <3>1. rest.fresh = {}
      BY <1>4 DEF InOrder!NewTask
    <3> QED
      BY <1>5, <2>1, <3>1 DEF TaskFields
  <2>4. Goes(t, u)
    BY <1>0, <2>2 DEF Goes, AState, WatchTypes
  <2>5. new = InOrder!NoWatch \/ new.id # -1
    BY <1>0, <1>3, <1>6 DEF AState, HistoryInv
  <2>6. TaskInv(u)'
    BY <1>0, <1>1, <1>2, <1>3, <1>6, <1>8, <2>3, <2>5 DEF TaskInv, Watch
  <2>7. ASSUME NEW p \in Slot \X Int, NEW g \in Glob PROVE Counted(u, p, g)' <=> Counted(t, p, g)
    <3>1. CASE p[1] = s
      <4>1. OldHas(t, s, g) <=> g \in old.globs
        BY <1>0, <1>1, <1>2 DEF OldHas, Works
      <4>2. ~NewHas(t, s, g)
        BY <1>1 DEF NewHas
      <4>3. OldHas(u, s, g)' <=> g \in old.globs
        BY <2>3 DEF OldHas, Works
      <4>4. ~NewHas(u, s, g)'
        BY <1>0, <1>3, <2>3 DEF NewHas, Works, InOrder!NoWatch
      <4> QED
        BY <1>0, <3>1, <4>1, <4>2, <4>3, <4>4 DEF Counted
    <3>2. CASE p[1] # s
      BY <1>0, <2>3, <3>2 DEF Counted, OldHas, NewHas, Works
    <3> QED
      BY <3>1, <3>2
  <2>8. HavingInv(u)'
    BY <1>0, <2>7, SameHaving
  <2>9. OwnerInv(u)' /\ ClientInv(u)'
    BY <1>0, <2>3, SameOwners DEF ToWatch
  <2> QED
    BY <2>4, <2>6, <2>8, <2>9, GoesOn DEF TaskState
<1> QED
  BY <1>7, <1>8

\* A task of an update knows its slot's old and new watch.
LEMMA AtWork ==
    ASSUME NEW t, AState(t), tasks = {t}, updates > 0
    PROVE  /\ DOMAIN t = TaskFields /\ t.n = updates /\ t.left \subseteq Slot /\ t.todo \subseteq Glob /\ ~t.failed
           /\ pending = {} /\ count \in [Glob -> Nat] /\ DOMAIN globOwner = Glob
           /\ t.at # "diff" =>
                /\ t.slot \in Slot \ t.left /\ t.old.id # t.new.id /\ t.old.id \in Int /\ t.new.id \in Int
                /\ t.old = slots[updates - 1][t.slot] /\ t.new = slots[updates][t.slot]
                /\ t.old.globs \subseteq Glob /\ t.new.globs \subseteq Glob
                /\ t.new.id = -1 \/ t.new.id = updates \/ t.new.globs = t.old.globs
                /\ updates \in 1 .. updates
<1>1. updates \in 1 .. MaxUpdates /\ updates - 1 \in 0 .. MaxUpdates /\ updates \in 0 .. MaxUpdates
      /\ updates \in 1 .. updates
  BY WatchesAssumption DEF AState, HistoryInv
<1>2. ASSUME NEW s \in Slot PROVE slots[updates - 1][s] \in Watch /\ slots[updates][s] \in Watch
  BY <1>1 DEF AState, HistoryInv
<1>3. ASSUME NEW s \in Slot, slots[updates - 1][s].id # slots[updates][s].id
      PROVE  \/ slots[updates][s].id = -1 \/ slots[updates][s].id = updates
             \/ slots[updates][s].globs = slots[updates - 1][s].globs
  BY <1>1, <1>3 DEF AState, HistoryInv
<1> QED
  BY <1>1, <1>2, <1>3 DEF AState, TaskState, TaskInv, WatchTypes, Watch

\* One watch more has g.
LEMMA OneMore ==
    ASSUME NEW t, NEW u, AState(t), NEW g \in Glob, NEW q \in Slot \X Int, ~Counted(t, q, g),
           count' = [count EXCEPT ![g] = @ + 1],
           \A p \in Slot \X Int, h \in Glob : Counted(u, p, h)' <=> Counted(t, p, h) \/ (p = q /\ h = g)
    PROVE  HavingInv(u)'
<1>1. Having(u, g)' = Having(t, g) \cup {q} /\ q \notin Having(t, g)
  BY DEF Having
<1>2. \A h \in Glob : h # g => Having(u, h)' = Having(t, h)
  BY DEF Having
<1>3. \A h \in Glob : count'[h] = IF h = g THEN count[h] + 1 ELSE count[h]
  BY DEF AState, WatchTypes
<1>4. \A h \in Glob : IsFiniteSet(Having(t, h)) /\ count[h] = Cardinality(Having(t, h))
  BY DEF AState, TaskState, HavingInv
<1>5. IsFiniteSet(Having(u, g)') /\ Cardinality(Having(u, g)') = count[g] + 1
  BY <1>1, <1>4, FS_AddElement
<1> QED
  BY <1>2, <1>3, <1>4, <1>5 DEF HavingInv

\* One watch less has g.
LEMMA OneLess ==
    ASSUME NEW t, NEW u, AState(t), NEW g \in Glob, NEW q \in Slot \X Int, Counted(t, q, g),
           count' = [count EXCEPT ![g] = @ - 1],
           \A p \in Slot \X Int, h \in Glob : Counted(u, p, h)' <=> Counted(t, p, h) /\ ~(p = q /\ h = g)
    PROVE  HavingInv(u)'
<1>1. Having(u, g)' = Having(t, g) \ {q} /\ q \in Having(t, g)
  BY DEF Having
<1>2. \A h \in Glob : h # g => Having(u, h)' = Having(t, h)
  BY DEF Having
<1>3. \A h \in Glob : count'[h] = IF h = g THEN count[h] - 1 ELSE count[h]
  BY DEF AState, WatchTypes
<1>4. \A h \in Glob : IsFiniteSet(Having(t, h)) /\ count[h] = Cardinality(Having(t, h))
  BY DEF AState, TaskState, HavingInv
<1>5. IsFiniteSet(Having(u, g)') /\ Cardinality(Having(u, g)') = count[g] - 1
  BY <1>1, <1>4, FS_RemoveElement
<1> QED
  BY <1>2, <1>3, <1>4, <1>5 DEF HavingInv

\* What a watch has is counted.
LEMMA HadIsCounted ==
    ASSUME NEW t, AState(t), NEW g \in Glob, NEW q \in Slot \X Int, Counted(t, q, g)
    PROVE  count[g] > 0
<1>1. q \in Having(t, g) /\ IsFiniteSet(Having(t, g)) /\ count[g] = Cardinality(Having(t, g)) /\ count[g] \in Nat
  BY DEF Having, AState, TaskState, HavingInv, WatchTypes
<1> QED
  BY <1>1, FS_EmptySet

LEMMA WatchAcquire ==
    ASSUME NEW t, AState(t), tasks = {t}, updates > 0, InOrder!Acquire(t)
    PROVE  WatchInv'
<1>0. /\ t.at = "acquire" /\ t.todo \subseteq t.new.globs /\ t.new.id # -1 /\ t.removed = {}
      /\ UNCHANGED <<updates, slots, pending, watched>>
  BY DEF InOrder!Acquire, InOrder!snapshots, AState, TaskState, TaskInv
<1>1. /\ DOMAIN t = TaskFields /\ t.n = updates /\ t.left \subseteq Slot /\ t.todo \subseteq Glob /\ ~t.failed
      /\ pending = {} /\ count \in [Glob -> Nat] /\ DOMAIN globOwner = Glob
      /\ t.slot \in Slot \ t.left /\ t.old.id # t.new.id /\ t.old.id \in Int /\ t.new.id \in Int
      /\ t.old = slots[updates - 1][t.slot] /\ t.new = slots[updates][t.slot]
      /\ t.old.globs \subseteq Glob /\ t.new.globs \subseteq Glob
      /\ t.new.id = updates \/ t.new.globs = t.old.globs
      /\ updates \in 1 .. updates
  BY <1>0, AtWork
<1>2. PICK g \in t.todo :
        /\ count' = [count EXCEPT ![g] = @ + 1]
        /\ globOwner' = IF count[g] = 0 THEN [globOwner EXCEPT ![g] = InOrder!ID(t, g)] ELSE globOwner
        /\ LET left == t.todo \ {g}
               fresh == IF count[g] = 0 THEN t.fresh \cup {g} ELSE t.fresh
           IN  InOrder!Step(t, [t EXCEPT !.fresh = fresh,
                                         !.at = IF left = {} THEN "watch" ELSE "acquire",
                                         !.todo = IF left = {} THEN fresh ELSE left])
  BY DEF InOrder!Acquire, InOrder!IsNew
<1>3. PICK fresh : fresh = IF count[g] = 0 THEN t.fresh \cup {g} ELSE t.fresh
  OBVIOUS
<1>4. PICK left : left = t.todo \ {g}
  OBVIOUS
<1>5. PICK u : u = [t EXCEPT !.fresh = fresh, !.at = IF left = {} THEN "watch" ELSE "acquire",
                             !.todo = IF left = {} THEN fresh ELSE left]
  OBVIOUS
<1>6. tasks' = {u}
  BY <1>2, <1>3, <1>4, <1>5 DEF InOrder!Step
<1>7. /\ DOMAIN u = TaskFields /\ u.n = updates /\ u.left = t.left /\ ~u.failed
      /\ u.slot = t.slot /\ u.old = t.old /\ u.new = t.new /\ u.removed = {}
      /\ u.fresh = fresh /\ u.at = (IF left = {} THEN "watch" ELSE "acquire")
      /\ u.todo = (IF left = {} THEN fresh ELSE left)
  BY <1>0, <1>1, <1>5 DEF TaskFields
<1>8. g \in Glob /\ g \in t.new.globs /\ count' \in [Glob -> Nat] /\ DOMAIN globOwner' = Glob
  BY <1>0, <1>1, <1>2
<1>9. \A h \in Glob : count'[h] = IF h = g THEN count[h] + 1 ELSE count[h]
  BY <1>1, <1>2
<1>10. count[g] = 0 => t.new.id = updates
  <2>1. CASE t.new.globs = t.old.globs
    <3>1. <<t.slot, t.old.id>> \in Slot \X Int /\ Counted(t, <<t.slot, t.old.id>>, g)
      BY <1>0, <1>1, <1>8, <2>1 DEF Counted, OldHas, Works
    <3> QED
      BY <1>8, <3>1, HadIsCounted
  <2>2. CASE t.new.id = updates
    BY <2>2
  <2> QED
    BY <1>1, <2>1, <2>2
<1>11. \A h \in Glob : ToWatch(u, h) <=> ToWatch(t, h) \/ (h = g /\ count[g] = 0)
  BY <1>0, <1>3, <1>7 DEF ToWatch
<1>13. TaskInv(u)'
  <2>1. t.fresh \subseteq Glob
    BY DEF AState, TaskState, TaskInv
  <2>2. u.todo \subseteq Glob /\ u.fresh \subseteq Glob
    BY <1>1, <1>3, <1>4, <1>7, <1>8, <2>1
  <2>3. u.at = "acquire" => u.todo \subseteq u.new.globs
    BY <1>0, <1>4, <1>7
  <2> QED
    BY <1>0, <1>1, <1>7, <2>2, <2>3 DEF TaskInv
<1>14. HavingInv(u)'
  <2>1. PICK q : q = <<t.slot, t.new.id>>
    OBVIOUS
  <2>2. q \in Slot \X Int /\ q[1] = t.slot /\ q[2] = t.new.id
    BY <1>1, <2>1
  <2>3. ~Counted(t, q, g)
    BY <1>0, <1>1, <2>2 DEF Counted, OldHas, NewHas, Works
  <2>4. ASSUME NEW p \in Slot \X Int, NEW h \in Glob
        PROVE  Counted(u, p, h)' <=> Counted(t, p, h) \/ (p = q /\ h = g)
    <3>1. CASE p[1] = t.slot
      <4>1. OldHas(u, t.slot, h)' <=> OldHas(t, t.slot, h)
        BY <1>0, <1>1, <1>7 DEF OldHas, Works
      <4>2. NewHas(u, t.slot, h)' <=> NewHas(t, t.slot, h) \/ h = g
        BY <1>0, <1>1, <1>4, <1>7, <1>8 DEF NewHas, Works
      <4>3. p[2] = t.new.id <=> p = q
        BY <2>1, <3>1
      <4> QED
        BY <1>0, <1>1, <3>1, <4>1, <4>2, <4>3 DEF Counted
    <3>2. CASE p[1] # t.slot
      <4>1. p # q
        BY <2>2, <3>2
      <4> QED
        BY <1>0, <1>7, <3>2, <4>1 DEF Counted, OldHas, NewHas, Works
    <3> QED
      BY <3>1, <3>2
  <2> QED
    BY <1>2, <1>8, <2>2, <2>3, <2>4, OneMore
<1>15. \A h \in Glob : InOrder!ID(u, h) = InOrder!ID(t, h)
  BY <1>7 DEF InOrder!ID
<1>16. /\ \A h \in Glob : h # g => globOwner'[h] = globOwner[h]
       /\ globOwner'[g] = IF count[g] = 0 THEN InOrder!ID(t, g) ELSE globOwner[g]
  BY <1>1, <1>2, <1>8
<1>17. OwnerInv(u)'
  <2>1. ASSUME NEW h \in Glob, count'[h] > 0 PROVE OwnerOf(h)'
    <3>1. CASE count[h] > 0
      <4>1. OwnerOf(h)
        BY <3>1 DEF AState, TaskState, OwnerInv
      <4>2. globOwner'[h] = globOwner[h]
        BY <1>1, <1>16, <3>1, <1>8
      <4> QED
        BY <1>0, <4>1, <4>2 DEF OwnerOf
    <3>2. CASE h = g /\ count[g] = 0
      <4>1. globOwner'[h] = InOrder!WatcherID(t.slot, slots[updates][t.slot], h)
        BY <1>1, <1>16, <3>2 DEF InOrder!ID
      <4> QED
        BY <1>0, <1>1, <1>8, <1>10, <3>2, <4>1 DEF OwnerOf
    <3> QED
      BY <1>1, <1>8, <1>9, <2>1, <3>1, <3>2
  <2>2. ASSUME NEW h \in Glob, ToWatch(u, h) PROVE count'[h] > 0 /\ globOwner'[h] = InOrder!ID(u, h)
    <3>1. CASE ToWatch(t, h)
      <4>1. count[h] > 0 /\ globOwner[h] = InOrder!ID(t, h)
        BY <3>1 DEF AState, TaskState, OwnerInv
      <4> QED
        BY <1>1, <1>8, <1>9, <1>15, <1>16, <4>1
    <3>2. CASE h = g /\ count[g] = 0
      BY <1>8, <1>9, <1>15, <1>16, <3>2
    <3> QED
      BY <1>11, <2>2, <3>1, <3>2
  <2> QED
    BY <1>7, <2>1, <2>2 DEF OwnerInv, ToWatch, InOrder!ID
<1>18. ClientInv(u)'
  <2>1. ASSUME NEW h \in Glob, count'[h] > 0, ~ToWatch(u, h) PROVE <<globOwner'[h], h>> \in watched'
    <3>1. count[h] > 0 /\ ~ToWatch(t, h) /\ globOwner'[h] = globOwner[h]
      BY <1>1, <1>9, <1>11, <1>16, <2>1
    <3> QED
      BY <1>0, <3>1 DEF AState, TaskState, ClientInv
  <2>2. ASSUME NEW r \in watched
        PROVE  /\ r = <<r[1], r[2]>> /\ r[2] \in Glob
               /\ count'[r[2]] > 0 /\ r[1] = globOwner'[r[2]] /\ ~ToWatch(u, r[2])
    <3>1. /\ r = <<r[1], r[2]>> /\ r[2] \in Glob
          /\ count[r[2]] > 0 /\ r[1] = globOwner[r[2]] /\ ~ToWatch(t, r[2])
      BY <1>0 DEF AState, TaskState, ClientInv
    <3> QED
      BY <1>1, <1>8, <1>9, <1>11, <1>16, <3>1
  <2> QED
    BY <1>0, <2>1, <2>2 DEF ClientInv, ToWatch
<1>19. Goes(t, u)
  BY <1>0, <1>6, <1>8 DEF Goes
<1> QED
  BY <1>13, <1>14, <1>17, <1>18, <1>19, GoesOn DEF TaskState

LEMMA WatchCall ==
    ASSUME NEW t, AState(t), tasks = {t}, updates > 0, InOrder!WatchFiles(t)
    PROVE  WatchInv'
<1>0. t.at = "watch" /\ t.removed = {} /\ UNCHANGED <<updates, slots, count, globOwner, pending>>
  BY DEF InOrder!WatchFiles, InOrder!snapshots, InOrder!registry, AState, TaskState, TaskInv
<1>1. /\ DOMAIN t = TaskFields /\ t.n = updates /\ t.left \subseteq Slot /\ t.todo \subseteq Glob /\ ~t.failed
      /\ pending = {} /\ count \in [Glob -> Nat] /\ DOMAIN globOwner = Glob
  BY AtWork
<1>2. PICK g \in t.todo :
        watched' = InOrder!Watching(InOrder!ID(t, g), g) /\ InOrder!Step(t, [t EXCEPT !.todo = @ \ {g}])
  BY DEF InOrder!WatchFiles
<1>3. PICK u : u = [t EXCEPT !.todo = @ \ {g}]
  OBVIOUS
<1>4. /\ DOMAIN u = TaskFields /\ u.n = updates /\ u.left = t.left /\ ~u.failed /\ u.at = t.at
      /\ u.slot = t.slot /\ u.old = t.old /\ u.new = t.new /\ u.removed = {} /\ u.todo = t.todo \ {g}
      /\ u.fresh = t.fresh
  BY <1>0, <1>1, <1>3 DEF TaskFields
<1>5. Goes(t, u)
  BY <1>0, <1>1, <1>2, <1>3 DEF Goes, InOrder!Step
<1>6. TaskInv(u)'
  BY <1>0, <1>4 DEF AState, TaskState, TaskInv
<1>7. HavingInv(u)'
  <2>1. \A p \in Slot \X Int, h \in Glob : Counted(u, p, h)' <=> Counted(t, p, h)
    BY <1>0, <1>4 DEF Counted, OldHas, NewHas, Works
  <2> QED
    BY <1>0, <2>1, SameHaving
<1>8. g \in Glob /\ count[g] > 0 /\ globOwner[g] = InOrder!ID(t, g)
  BY <1>0, <1>1, <1>2 DEF AState, TaskState, OwnerInv, ToWatch
<1>9. \A h \in Glob : ToWatch(u, h) <=> ToWatch(t, h) /\ h # g
  BY <1>0, <1>4 DEF ToWatch
<1>10. \A h \in Glob : count[h] > 0 /\ h # g => globOwner[h] # InOrder!ID(t, g)
  BY <1>8, OwnersDiffer DEF AState, TaskState, OwnerInv
<1>11. OwnerInv(u)'
  <2>1. \A h \in Glob : OwnerOf(h)' <=> OwnerOf(h)
    BY <1>0 DEF OwnerOf
  <2>2. \A h \in Glob : InOrder!ID(u, h) = InOrder!ID(t, h)
    BY <1>4 DEF InOrder!ID
  <2>3. \A h \in Glob : ToWatch(u, h)' <=> ToWatch(u, h)
    BY DEF ToWatch
  <2> QED
    BY <1>0, <1>4, <1>9, <2>1, <2>2, <2>3 DEF AState, TaskState, OwnerInv
<1>12. ClientInv(u)'
  <2>1. watched' = {r \in watched : r[1] # InOrder!ID(t, g)} \cup {<<InOrder!ID(t, g), g>>}
    BY <1>2 DEF InOrder!Watching
  <2>2. ASSUME NEW h \in Glob, count[h] > 0, ~ToWatch(u, h) PROVE <<globOwner[h], h>> \in watched'
    <3>1. CASE h = g
      BY <1>8, <2>1, <3>1
    <3>2. CASE h # g
      <4>1. <<globOwner[h], h>> \in watched
        BY <1>9, <2>2, <3>2 DEF AState, TaskState, ClientInv
      <4>2. globOwner[h] # InOrder!ID(t, g)
        BY <1>10, <2>2, <3>2
      <4> QED
        BY <2>1, <4>1, <4>2
    <3> QED
      BY <3>1, <3>2
  <2>3. ASSUME NEW r \in watched'
        PROVE  /\ r = <<r[1], r[2]>> /\ r[2] \in Glob
               /\ count[r[2]] > 0 /\ r[1] = globOwner[r[2]] /\ ~ToWatch(u, r[2])
    <3>1. CASE r = <<InOrder!ID(t, g), g>>
      BY <1>8, <1>9, <3>1
    <3>2. CASE r \in watched
      <4>1. /\ r = <<r[1], r[2]>> /\ r[2] \in Glob
            /\ count[r[2]] > 0 /\ r[1] = globOwner[r[2]] /\ ~ToWatch(t, r[2])
        BY <1>0, <3>2 DEF AState, TaskState, ClientInv
      <4> QED
        BY <1>9, <4>1
    <3> QED
      BY <2>1, <2>3, <3>1, <3>2
  <2>4. \A h \in Glob : ToWatch(u, h)' <=> ToWatch(u, h)
    BY DEF ToWatch
  <2> QED
    BY <1>0, <2>2, <2>3, <2>4 DEF ClientInv
<1> QED
  BY <1>5, <1>6, <1>7, <1>11, <1>12, GoesOn DEF TaskState

LEMMA WatchSettle ==
    ASSUME NEW t, AState(t), tasks = {t}, updates > 0, InOrder!Settle(t)
    PROVE  WatchInv'
<1>0. t.at = "watch" /\ t.todo = {} /\ t.removed = {} /\ UNCHANGED <<updates, slots, count, globOwner, watched>>
  BY DEF InOrder!Settle, InOrder!snapshots, AState, TaskState, TaskInv
<1>1. /\ DOMAIN t = TaskFields /\ t.n = updates /\ t.left \subseteq Slot /\ t.todo \subseteq Glob /\ ~t.failed
      /\ pending = {} /\ count \in [Glob -> Nat] /\ DOMAIN globOwner = Glob
      /\ t.slot \in Slot \ t.left /\ t.old.globs \subseteq Glob
  BY <1>0, AtWork
<1>2. InOrder!Step(t, InOrder!ToOld(t)) /\ pending' = {}
  BY <1>1 DEF InOrder!Settle
<1>3. PICK u : u = [t EXCEPT !.at = "old", !.todo = t.old.globs]
  OBVIOUS
<1>4. /\ DOMAIN u = TaskFields /\ u.n = updates /\ u.left = t.left /\ ~u.failed /\ u.at = "old"
      /\ u.slot = t.slot /\ u.old = t.old /\ u.new = t.new /\ u.removed = {} /\ u.todo = t.old.globs
      /\ u.fresh = t.fresh
  BY <1>0, <1>1, <1>3 DEF TaskFields
<1>5. Goes(t, u)
  BY <1>0, <1>1, <1>2, <1>3 DEF Goes, InOrder!Step, InOrder!ToOld
<1>6. TaskInv(u)'
  BY <1>0, <1>1, <1>4 DEF AState, TaskState, TaskInv
<1>7. HavingInv(u)'
  <2>1. \A p \in Slot \X Int, h \in Glob : Counted(u, p, h)' <=> Counted(t, p, h)
    BY <1>0, <1>1, <1>4 DEF Counted, OldHas, NewHas, Works
  <2> QED
    BY <1>0, <2>1, SameHaving
<1>8. OwnerInv(u)' /\ ClientInv(u)'
  BY <1>0, <1>4, SameOwners DEF ToWatch
<1> QED
  BY <1>5, <1>6, <1>7, <1>8, GoesOn DEF TaskState

LEMMA WatchReleaseOld ==
    ASSUME NEW t, AState(t), tasks = {t}, updates > 0, InOrder!ReleaseOld(t)
    PROVE  WatchInv'
<1>0. /\ t.at = "old" /\ t.todo \subseteq t.old.globs
      /\ UNCHANGED <<updates, slots, globOwner, pending, watched>>
  BY DEF InOrder!ReleaseOld, InOrder!snapshots, AState, TaskState, TaskInv
<1>1. /\ DOMAIN t = TaskFields /\ t.n = updates /\ t.left \subseteq Slot /\ t.todo \subseteq Glob /\ ~t.failed
      /\ pending = {} /\ count \in [Glob -> Nat] /\ DOMAIN globOwner = Glob
      /\ t.slot \in Slot \ t.left /\ t.old.id # t.new.id /\ t.old.id \in Int
      /\ t.old = slots[updates - 1][t.slot] /\ t.new = slots[updates][t.slot]
  BY <1>0, AtWork
<1>2. CASE t.todo = {}
  <2>1. PICK u : u = [t EXCEPT !.at = "unwatch"]
    OBVIOUS
  <2>2. /\ DOMAIN u = TaskFields /\ u.n = updates /\ u.left = t.left /\ ~u.failed /\ u.at = "unwatch"
        /\ u.slot = t.slot /\ u.old = t.old /\ u.new = t.new /\ u.removed = t.removed /\ u.todo = {}
        /\ u.fresh = t.fresh
    BY <1>1, <1>2, <2>1 DEF TaskFields
  <2>3. Goes(t, u) /\ count' = count
    BY <1>0, <1>1, <1>2, <2>1 DEF Goes, InOrder!ReleaseOld, InOrder!Step
  <2>4. TaskInv(u)'
    BY <1>0, <1>1, <2>2 DEF AState, TaskState, TaskInv
  <2>5. HavingInv(u)'
    <3>1. \A p \in Slot \X Int, h \in Glob : Counted(u, p, h)' <=> Counted(t, p, h)
      BY <1>0, <1>2, <2>2 DEF Counted, OldHas, NewHas, Works
    <3> QED
      BY <2>3, <3>1, SameHaving
  <2>6. OwnerInv(u)' /\ ClientInv(u)'
    BY <1>0, <2>2, <2>3, SameOwners DEF ToWatch
  <2> QED
    BY <2>3, <2>4, <2>5, <2>6, GoesOn DEF TaskState
<1>3. CASE t.todo # {}
  <2>1. PICK g \in t.todo :
          /\ InOrder!Release(g)
          /\ InOrder!Step(t, [t EXCEPT !.todo = @ \ {g}, !.removed = @ \cup InOrder!RemovedIDs(g)])
    BY <1>3 DEF InOrder!ReleaseOld
  <2>2. PICK q : q = <<t.slot, t.old.id>>
    OBVIOUS
  <2>3. g \in Glob /\ q \in Slot \X Int /\ q[1] = t.slot /\ q[2] = t.old.id /\ Counted(t, q, g)
    BY <1>0, <1>1, <2>2 DEF Counted, OldHas, Works
  <2>4. count[g] > 0 /\ count' = [count EXCEPT ![g] = @ - 1]
    BY <2>1, <2>3, HadIsCounted DEF InOrder!Release
  <2>5. /\ count' \in [Glob -> Nat] /\ count'[g] = count[g] - 1
        /\ \A h \in Glob : h # g => count'[h] = count[h]
    BY <1>1, <2>3, <2>4
  <2>6. PICK gone : gone = t.removed \cup InOrder!RemovedIDs(g)
    OBVIOUS
  <2>7. PICK u : u = [t EXCEPT !.todo = @ \ {g}, !.removed = gone]
    OBVIOUS
  <2>8. /\ DOMAIN u = TaskFields /\ u.n = updates /\ u.left = t.left /\ ~u.failed /\ u.at = "old"
        /\ u.slot = t.slot /\ u.old = t.old /\ u.new = t.new /\ u.removed = gone /\ u.todo = t.todo \ {g}
        /\ u.fresh = t.fresh
    BY <1>0, <1>1, <2>7 DEF TaskFields
  <2>9. Goes(t, u)
    BY <1>0, <1>1, <2>1, <2>5, <2>6, <2>7 DEF Goes, InOrder!Step
  <2>10. TaskInv(u)'
    BY <1>0, <1>1, <2>8 DEF AState, TaskState, TaskInv
  <2>11. HavingInv(u)'
    <3>1. ASSUME NEW p \in Slot \X Int, NEW h \in Glob
          PROVE  Counted(u, p, h)' <=> Counted(t, p, h) /\ ~(p = q /\ h = g)
      <4>1. CASE p[1] = t.slot
        <5>1. OldHas(u, t.slot, h)' <=> OldHas(t, t.slot, h) /\ h # g
          BY <1>0, <1>1, <2>8 DEF OldHas, Works
        <5>2. NewHas(u, t.slot, h)' <=> NewHas(t, t.slot, h)
          BY <1>0, <1>1, <2>8 DEF NewHas, Works
        <5>3. p[2] = t.old.id <=> p = q
          BY <2>2, <4>1
        <5> QED
          BY <1>0, <1>1, <4>1, <5>1, <5>2, <5>3 DEF Counted
      <4>2. CASE p[1] # t.slot
        <5>1. p # q
          BY <2>3, <4>2
        <5> QED
          BY <1>0, <2>8, <4>2, <5>1 DEF Counted, OldHas, NewHas, Works
      <4> QED
        BY <4>1, <4>2
    <3> QED
      BY <2>3, <2>4, <3>1, OneLess
  <2>12. \A h \in Glob : ~ToWatch(u, h) /\ ~ToWatch(t, h) /\ ~ToWatch(u, h)'
    BY <1>0, <2>8 DEF ToWatch
  <2>13. gone = IF count[g] = 1 THEN t.removed \cup {globOwner[g]} ELSE t.removed
    BY <2>6 DEF InOrder!RemovedIDs
  <2>14. \A h \in Glob : count[h] > 0 => OwnerOf(h) /\ OwnerOf(h)' /\ globOwner[h] \notin t.removed
    BY <1>0 DEF AState, TaskState, OwnerInv, OwnerOf
  <2>15. ASSUME NEW h \in Glob, count'[h] > 0 PROVE count[h] > 0 /\ globOwner[h] \notin gone
    <3>1. count[h] > 0
      BY <1>1, <2>3, <2>4, <2>5, <2>15
    <3>2. CASE count[g] = 1
      <4>1. h # g
        BY <2>5, <2>15, <3>2
      <4>2. globOwner[h] # globOwner[g]
        BY <2>3, <2>4, <2>14, <3>1, <4>1, OwnersDiffer DEF AState
      <4> QED
        BY <2>13, <2>14, <3>1, <3>2, <4>2
    <3>3. CASE count[g] # 1
      BY <2>13, <2>14, <3>1, <3>3
    <3> QED
      BY <3>1, <3>2, <3>3
  <2>16. OwnerInv(u)'
    BY <1>0, <2>8, <2>12, <2>14, <2>15 DEF OwnerInv
  <2>17. ClientInv(u)'
    <3>1. \A h \in Glob : count'[h] > 0 => <<globOwner[h], h>> \in watched
      BY <2>12, <2>15 DEF AState, TaskState, ClientInv
    <3>2. ASSUME NEW r \in watched
          PROVE  /\ r = <<r[1], r[2]>> /\ r[2] \in Glob
                 /\ r[1] \in gone \/ (count'[r[2]] > 0 /\ r[1] = globOwner[r[2]])
      <4>1. /\ r = <<r[1], r[2]>> /\ r[2] \in Glob
            /\ r[1] \in t.removed \/ (count[r[2]] > 0 /\ r[1] = globOwner[r[2]])
        BY DEF AState, TaskState, ClientInv
      <4>2. CASE r[1] \in t.removed
        BY <2>13, <4>1, <4>2
      <4>3. CASE count[r[2]] > 0 /\ r[1] = globOwner[r[2]]
        <5>1. count[r[2]] \in Nat
          BY <1>1, <4>1
        <5>2. r[2] # g => count'[r[2]] > 0
          BY <2>5, <4>1, <4>3
        <5>3. r[2] = g /\ count[g] # 1 => count'[g] > 0
          BY <2>5, <4>3, <5>1
        <5> QED
          BY <2>13, <4>1, <4>3, <5>2, <5>3
      <4> QED
        BY <4>1, <4>2, <4>3
    <3> QED
      BY <1>0, <2>8, <2>12, <3>1, <3>2 DEF ClientInv
  <2> QED
    BY <2>9, <2>10, <2>11, <2>16, <2>17, GoesOn DEF TaskState
<1> QED
  BY <1>2, <1>3

LEMMA WatchUnwatch ==
    ASSUME NEW t, AState(t), tasks = {t}, updates > 0, InOrder!UnwatchFiles(t)
    PROVE  WatchInv'
<1>0. t.at = "unwatch" /\ UNCHANGED <<updates, slots, count, globOwner, pending>>
  BY DEF InOrder!UnwatchFiles, InOrder!snapshots, InOrder!registry
<1>1. /\ DOMAIN t = TaskFields /\ t.n = updates /\ t.left \subseteq Slot /\ t.todo \subseteq Glob /\ ~t.failed
      /\ pending = {} /\ count \in [Glob -> Nat] /\ DOMAIN globOwner = Glob
  BY AtWork
<1>2. CASE t.removed = {}
  <2>1. PICK u : u = InOrder!NewTask(updates, t.left)
    OBVIOUS
  <2>2. /\ DOMAIN u = TaskFields /\ u.n = updates /\ u.left = t.left /\ u.at = "diff"
        /\ u.todo = {} /\ u.fresh = {} /\ u.removed = {} /\ ~u.failed
    BY <2>1 DEF InOrder!NewTask, TaskFields
  <2>3. Goes(t, u) /\ watched' = watched
    BY <1>0, <1>1, <1>2, <2>1 DEF Goes, InOrder!UnwatchFiles, InOrder!Step
  <2>4. TaskInv(u)'
    BY <1>0, <1>1, <2>2 DEF AState, TaskState, TaskInv
  <2>5. HavingInv(u)'
    <3>1. \A p \in Slot \X Int, h \in Glob : Counted(u, p, h)' <=> Counted(t, p, h)
      BY <1>0, <2>2 DEF Counted, OldHas, NewHas, Works
    <3> QED
      BY <1>0, <3>1, SameHaving
  <2>6. OwnerInv(u)' /\ ClientInv(u)'
    BY <1>0, <1>2, <2>2, <2>3, SameOwners DEF ToWatch
  <2> QED
    BY <2>3, <2>4, <2>5, <2>6, GoesOn DEF TaskState
<1>3. CASE t.removed # {}
  <2>1. PICK id \in t.removed :
          /\ InOrder!Step(t, [t EXCEPT !.removed = @ \ {id}])
          /\ watched' = {r \in watched : r[1] # id}
    BY <1>3 DEF InOrder!UnwatchFiles
  <2>2. PICK u : u = [t EXCEPT !.removed = @ \ {id}]
    OBVIOUS
  <2>3. /\ DOMAIN u = TaskFields /\ u.n = updates /\ u.left = t.left /\ ~u.failed /\ u.at = "unwatch"
        /\ u.slot = t.slot /\ u.old = t.old /\ u.new = t.new /\ u.removed = t.removed \ {id}
        /\ u.todo = t.todo /\ u.fresh = t.fresh
    BY <1>0, <1>1, <2>2 DEF TaskFields
  <2>4. Goes(t, u)
    BY <1>0, <1>1, <2>1, <2>2 DEF Goes, InOrder!Step
  <2>5. TaskInv(u)'
    BY <1>0, <2>3 DEF AState, TaskState, TaskInv
  <2>6. HavingInv(u)'
    <3>1. \A p \in Slot \X Int, h \in Glob : Counted(u, p, h)' <=> Counted(t, p, h)
      BY <1>0, <2>3 DEF Counted, OldHas, NewHas, Works
    <3> QED
      BY <1>0, <3>1, SameHaving
  <2>7. \A h \in Glob : ~ToWatch(t, h) /\ ~ToWatch(u, h) /\ ~ToWatch(u, h)'
    BY <1>0, <2>3 DEF ToWatch
  <2>8. \A h \in Glob : count[h] > 0 => OwnerOf(h)' /\ globOwner[h] \notin t.removed
    BY <1>0 DEF AState, TaskState, OwnerInv, OwnerOf
  <2>9. OwnerInv(u)'
    BY <1>0, <2>3, <2>7, <2>8 DEF OwnerInv
  <2>10. ClientInv(u)'
    <3>1. \A h \in Glob : count[h] > 0 => <<globOwner[h], h>> \in watched'
      BY <2>1, <2>7, <2>8 DEF AState, TaskState, ClientInv
    <3>2. ASSUME NEW r \in watched'
          PROVE  /\ r = <<r[1], r[2]>> /\ r[2] \in Glob
                 /\ r[1] \in t.removed \ {id} \/ (count[r[2]] > 0 /\ r[1] = globOwner[r[2]])
      BY <2>1, <3>2 DEF AState, TaskState, ClientInv
    <3> QED
      BY <1>0, <2>3, <2>7, <3>1, <3>2 DEF ClientInv
  <2> QED
    BY <2>4, <2>5, <2>6, <2>9, <2>10, GoesOn DEF TaskState
<1> QED
  BY <1>2, <1>3

\* The task that is done leaves nothing to do.
LEMMA WatchRegister ==
    ASSUME NEW t, AState(t), tasks = {t}, updates > 0, InOrder!Register(t)
    PROVE  WatchInv'
<1>0. /\ t.at = "diff" /\ t.left = {} /\ tasks' = {} /\ t.removed = {}
      /\ UNCHANGED <<updates, slots, count, globOwner, pending, watched>>
  BY DEF InOrder!Register, InOrder!snapshots, InOrder!registry, AState, TaskState, TaskInv
<1>1. PICK u : u = InOrder!NewTask(updates, {})
  OBVIOUS
<1>2. /\ DOMAIN u = TaskFields /\ u.n = updates /\ u.left = {} /\ u.at = "diff"
      /\ u.todo = {} /\ u.fresh = {} /\ u.removed = {} /\ ~u.failed
  BY <1>1 DEF InOrder!NewTask, TaskFields
<1>3. HistoryInv' /\ WatchTypes'
  BY <1>0 DEF AState, HistoryInv, NumberedOnce, WatchTypes
<1>4. TheTask(u)'
  BY <1>0, <1>1 DEF TheTask, InOrder!NewTask
<1>5. TaskInv(u)'
  BY <1>0, <1>2 DEF TaskInv
<1>6. HavingInv(u)'
  <2>1. \A p \in Slot \X Int, h \in Glob : Counted(u, p, h)' <=> Counted(t, p, h)
    BY <1>0, <1>2 DEF Counted, OldHas, NewHas, Works
  <2> QED
    BY <1>0, <2>1, SameHaving
<1>7. OwnerInv(u)' /\ ClientInv(u)'
  BY <1>0, <1>2, SameOwners DEF ToWatch
<1> QED
  BY <1>3, <1>4, <1>5, <1>6, <1>7 DEF WatchInv, TaskState

\* The next snapshot: it is compared with the one before it, slot by slot.
LEMMA WatchSnapshot ==
    ASSUME WatchNames, WatchInv, InOrder!updateSnapshot
    PROVE  WatchInv'
<1>0. /\ tasks = {} /\ updates < MaxUpdates /\ updates' = updates + 1
      /\ tasks' = {InOrder!NewTask(updates + 1, Slot)}
      /\ UNCHANGED <<count, globOwner, pending, watched>>
  BY DEF InOrder!updateSnapshot, InOrder!NextSnapshot, InOrder!registry
<1>1. PICK t : AState(t) /\ t = InOrder!NewTask(updates, {})
  BY <1>0 DEF WatchInv, TheTask, AState
<1>a. PICK s \in Slot : \E w \in InOrder!Cloned(slots[updates][s]) :
        slots' = [slots EXCEPT ![updates + 1] = [slots[updates] EXCEPT ![s] = w]]
  BY DEF InOrder!updateSnapshot, InOrder!NextSnapshot
<1>2. PICK w \in InOrder!Cloned(slots[updates][s]) :
        slots' = [slots EXCEPT ![updates + 1] = [slots[updates] EXCEPT ![s] = w]]
  BY <1>a
<1>3. /\ updates \in 0 .. MaxUpdates /\ updates + 1 \in 1 .. MaxUpdates /\ updates + 1 \in 0 .. MaxUpdates
      /\ slots \in [0 .. MaxUpdates -> [Slot -> Watch]] /\ slots[updates] \in [Slot -> Watch]
  BY <1>0, <1>1, WatchesAssumption DEF AState, HistoryInv
<1>4. /\ w \in Watch /\ w.id <= updates + 1 /\ (w.id = -1 => w = InOrder!NoWatch)
      /\ \/ w.id = -1 \/ w.id = updates + 1 \/ w.globs = slots[updates][s].globs
  <2>1. PICK v : v = slots[updates][s]
    OBVIOUS
  <2>2. v \in Watch
    BY <1>2, <1>3, <2>1
  <2>3. CASE w = InOrder!NoWatch
    BY <1>3, <2>3 DEF Watch, InOrder!NoWatch
  <2>4. CASE \E gs \in (SUBSET Glob) \ {{}, v.globs} : w = [id |-> updates + 1, globs |-> gs]
    BY <1>3, <2>4 DEF Watch
  <2>5. CASE w = [v EXCEPT !.id = 0]
    <3>1. w = [id |-> 0, globs |-> v.globs]
      BY <2>2, <2>5 DEF Watch
    <3> QED
      BY <1>3, <2>1, <2>2, <3>1 DEF Watch
  <2> QED
    BY <1>2, <2>1, <2>3, <2>4, <2>5 DEF InOrder!Cloned
<1>5. w.id = slots[updates][s].id => w = slots[updates][s]
  <2>1. PICK v : v = slots[updates][s]
    OBVIOUS
  <2>2. v \in Watch /\ v.id <= updates /\ (v.id = -1 => v = InOrder!NoWatch)
    BY <1>1, <1>2, <1>3, <2>1 DEF AState, HistoryInv
  <2>3. CASE w = InOrder!NoWatch
    BY <2>1, <2>2, <2>3 DEF InOrder!NoWatch
  <2>4. CASE w.id = updates + 1
    <3>1. v.id # updates + 1
      BY <1>3, <2>2 DEF Watch
    <3> QED
      BY <2>1, <2>4, <3>1
  <2>5. CASE w = [v EXCEPT !.id = 0]
    <3>1. w = [id |-> 0, globs |-> v.globs] /\ v = [id |-> v.id, globs |-> v.globs]
      BY <2>2, <2>5 DEF Watch
    <3> QED
      BY <2>1, <3>1
  <2> QED
    BY <1>2, <2>1, <2>3, <2>4, <2>5 DEF InOrder!Cloned
<1>6. /\ slots' \in [0 .. MaxUpdates -> [Slot -> Watch]]
      /\ \A i \in 0 .. MaxUpdates : i # updates + 1 => slots'[i] = slots[i]
      /\ \A r \in Slot : slots'[updates + 1][r] = IF r = s THEN w ELSE slots[updates][r]
  <2>0. PICK base : base = slots[updates]
    OBVIOUS
  <2>1. PICK f : f = [base EXCEPT ![s] = w]
    OBVIOUS
  <2>2. f \in [Slot -> Watch] /\ \A r \in Slot : f[r] = IF r = s THEN w ELSE slots[updates][r]
    <3>1. base \in [Slot -> Watch] /\ w \in Watch
      BY <1>3, <1>4, <2>0
    <3>2. f \in [Slot -> Watch] /\ \A r \in Slot : f[r] = IF r = s THEN w ELSE base[r]
      BY <2>1, <3>1
    <3> QED
      BY <2>0, <3>2
  <2>3. slots' = [slots EXCEPT ![updates + 1] = f]
    BY <1>2, <2>0, <2>1
  <2> QED
    BY <1>3, <2>2, <2>3
<1>7. \A i \in 0 .. updates : i \in 0 .. MaxUpdates /\ i # updates + 1 /\ slots'[i] = slots[i]
  BY <1>0, <1>3, <1>6, WatchesAssumption
<1>8. \A i \in 0 .. updates + 1 : i = updates + 1 \/ i \in 0 .. updates
  BY <1>3
<1>9. \A i \in 1 .. updates + 1 :
        i = updates + 1 \/ (i \in 1 .. updates /\ i \in 0 .. updates /\ i - 1 \in 0 .. updates)
  BY <1>3
<1>10. updates \in 0 .. updates /\ updates + 1 - 1 = updates
  BY <1>3
<1>11. HistoryInv'
  <2>1. ASSUME NEW i \in 0 .. updates + 1, NEW r \in Slot
        PROVE  slots'[i][r].id <= i /\ (slots'[i][r].id = -1 => slots'[i][r] = InOrder!NoWatch)
    <3>1. CASE i \in 0 .. updates
      BY <1>1, <1>7, <3>1 DEF AState, HistoryInv
    <3>2. CASE i = updates + 1
      <4>1. CASE r = s
        BY <1>4, <1>6, <3>2, <4>1
      <4>2. CASE r # s
        <5>1. /\ slots[updates][r].id <= updates /\ slots[updates][r].id \in Int
              /\ slots[updates][r].id = -1 => slots[updates][r] = InOrder!NoWatch
          BY <1>1, <1>3, <1>10 DEF AState, HistoryInv, Watch
        <5>2. slots'[i][r] = slots[updates][r]
          BY <1>6, <3>2, <4>2
        <5> QED
          BY <1>3, <3>2, <5>1, <5>2
      <4> QED
        BY <4>1, <4>2
    <3> QED
      BY <1>8, <3>1, <3>2
  <2>2. ASSUME NEW i \in 1 .. updates + 1, NEW r \in Slot
        PROVE  LET old == slots'[i - 1][r]
                   new == slots'[i][r]
               IN  IF old.id = new.id THEN old = new
                   ELSE new.id = -1 \/ new.id = i \/ new.globs = old.globs
    <3>1. CASE i \in 1 .. updates /\ i \in 0 .. updates /\ i - 1 \in 0 .. updates
      <4>1. slots'[i] = slots[i] /\ slots'[i - 1] = slots[i - 1]
        BY <1>7, <3>1
      <4> QED
        BY <1>1, <3>1, <4>1 DEF AState, HistoryInv
    <3>2. CASE i = updates + 1
      <4>1. slots'[i - 1] = slots[updates]
        BY <1>7, <1>10, <3>2
      <4>2. slots'[i][r] = IF r = s THEN w ELSE slots[updates][r]
        BY <1>6, <3>2
      <4>3. CASE r = s
        BY <1>4, <1>5, <3>2, <4>1, <4>2, <4>3
      <4>4. CASE r # s
        BY <4>1, <4>2, <4>4
      <4> QED
        BY <4>3, <4>4
    <3> QED
      BY <1>9, <3>1, <3>2
  <2>3. NumberedOnce'
    <3>1. ASSUME NEW i \in 1 .. updates + 1, NEW q \in Slot, NEW r \in Slot, slots'[i][q].id = i, slots'[i][r].id = i
          PROVE  q = r
      <4>1. CASE i \in 1 .. updates /\ i \in 0 .. updates
        BY <1>1, <1>7, <3>1, <4>1 DEF AState, HistoryInv, NumberedOnce
      <4>2. CASE i = updates + 1
        <5>1. \A p \in Slot : slots[updates][p].id <= updates /\ slots[updates][p].id \in Int
          BY <1>1, <1>3, <1>10 DEF AState, HistoryInv, Watch
        <5>2. \A p \in Slot : p # s => slots'[updates + 1][p].id # updates + 1
          BY <1>3, <1>6, <5>1
        <5> QED
          BY <3>1, <4>2, <5>2
      <4> QED
        BY <1>9, <4>1, <4>2
    <3> QED
      BY <1>0, <3>1 DEF NumberedOnce
  <2> QED
    BY <1>0, <1>3, <1>6, <2>1, <2>2, <2>3 DEF HistoryInv
<1>12. PICK u : u = InOrder!NewTask(updates + 1, Slot)
  OBVIOUS
<1>13. /\ DOMAIN u = TaskFields /\ u.n = updates + 1 /\ u.left = Slot /\ u.at = "diff"
       /\ u.todo = {} /\ u.fresh = {} /\ u.removed = {} /\ ~u.failed
  BY <1>12 DEF InOrder!NewTask, TaskFields
<1>14. t.at = "diff" /\ t.left = {} /\ t.todo = {} /\ t.fresh = {} /\ t.removed = {}
  BY <1>1 DEF InOrder!NewTask
<1>15. WatchTypes' /\ TheTask(u)' /\ TaskInv(u)'
  <2>1. WatchTypes'
    BY <1>0, <1>1 DEF AState, WatchTypes
  <2>2. TheTask(u)'
    BY <1>0, <1>3, <1>12 DEF TheTask
  <2>3. TaskInv(u)'
    BY <1>0, <1>3, <1>13 DEF TaskInv
  <2> QED
    BY <2>1, <2>2, <2>3
<1>16. HavingInv(u)'
  <2>1. ASSUME NEW p \in Slot \X Int, NEW g \in Glob PROVE Counted(u, p, g)' <=> Counted(t, p, g)
    <3>1. slots'[updates' - 1] = slots[updates]
      BY <1>0, <1>7, <1>10
    <3>2. /\ OldHas(u, p[1], g)' <=> g \in slots[updates][p[1]].globs
          /\ ~NewHas(u, p[1], g)'
      BY <1>13, <3>1 DEF OldHas, NewHas, Works
    <3>3. /\ ~OldHas(t, p[1], g)
          /\ NewHas(t, p[1], g) <=> g \in slots[updates][p[1]].globs
      BY <1>14 DEF OldHas, NewHas, Works
    <3> QED
      BY <3>1, <3>2, <3>3 DEF Counted
  <2> QED
    BY <1>0, <1>1, <2>1, SameHaving
<1>17. \A g \in Glob : ~ToWatch(t, g) /\ ~ToWatch(u, g)'
  BY <1>13, <1>14 DEF ToWatch
<1>18. OwnerInv(u)'
  <2>1. ASSUME NEW g \in Glob, OwnerOf(g) PROVE OwnerOf(g)'
    <3>1. PICK i \in 1 .. updates, r \in Slot :
            /\ slots[i][r].id = i /\ g \in slots[i][r].globs
            /\ globOwner[g] = InOrder!WatcherID(r, slots[i][r], g)
      BY <2>1 DEF OwnerOf
    <3>2. i \in 1 .. updates + 1 /\ i \in 0 .. updates
      BY <1>3
    <3>3. slots'[i] = slots[i]
      BY <1>7, <3>2
    <3> QED
      BY <1>0, <3>1, <3>2, <3>3 DEF OwnerOf
  <2> QED
    BY <1>0, <1>1, <1>13, <1>17, <2>1 DEF OwnerInv, AState, TaskState
<1>19. ClientInv(u)'
  BY <1>0, <1>1, <1>13, <1>14, <1>17 DEF ClientInv, AState, TaskState
<1> QED
  BY <1>11, <1>15, <1>16, <1>18, <1>19 DEF WatchInv, TaskState

\* At first nothing is counted and nothing is watched.
LEMMA WatchInit == InOrder!Init => WatchInv
<1> SUFFICES ASSUME InOrder!Init PROVE WatchInv
  OBVIOUS
<1>1. PICK t : t = InOrder!NewTask(updates, {})
  OBVIOUS
<1>2. /\ updates = 0 /\ pending = {} /\ watched = {} /\ tasks = {}
      /\ count \in [Glob -> Nat] /\ \A g \in Glob : count[g] = 0
      /\ DOMAIN globOwner = Glob
      /\ slots = [n \in 0 .. MaxUpdates |-> [s \in Slot |-> InOrder!NoWatch]]
  BY DEF InOrder!Init
<1>3. /\ DOMAIN t = TaskFields /\ t.n = updates /\ t.left = {} /\ t.at = "diff"
      /\ t.todo = {} /\ t.fresh = {} /\ t.removed = {} /\ ~t.failed
  BY <1>1 DEF InOrder!NewTask, TaskFields
<1>4. HistoryInv
  <2>1. InOrder!NoWatch \in Watch /\ InOrder!NoWatch.id = -1
    BY DEF InOrder!NoWatch, Watch
  <2>2. slots \in [0 .. MaxUpdates -> [Slot -> Watch]]
    BY <1>2, <2>1
  <2>3. 0 \in 0 .. MaxUpdates /\ (\A i \in 0 .. 0 : i = 0) /\ 1 .. 0 = {}
    BY WatchesAssumption
  <2>4. \A s \in Slot : slots[0][s] = InOrder!NoWatch
    BY <1>2, <2>3
  <2> QED
    BY <1>2, <2>1, <2>2, <2>3, <2>4 DEF HistoryInv, NumberedOnce
<1>5. TaskInv(t)
  BY <1>2, <1>3 DEF TaskInv
<1>6. ASSUME NEW g \in Glob PROVE Having(t, g) = {}
  <2>1. ASSUME NEW p \in Slot \X Int PROVE ~Counted(t, p, g)
    <3>1. 0 \in 0 .. MaxUpdates
      BY WatchesAssumption
    <3>2. slots[updates][p[1]].globs = {}
      BY <1>2, <3>1 DEF InOrder!NoWatch
    <3> QED
      BY <1>3, <3>2 DEF Counted, OldHas, NewHas, Works
  <2> QED
    BY <2>1 DEF Having
<1>7. HavingInv(t)
  BY <1>2, <1>6, FS_EmptySet DEF HavingInv
<1>8. \A g \in Glob : ~ToWatch(t, g)
  BY <1>3 DEF ToWatch
<1>9. OwnerInv(t) /\ ClientInv(t)
  BY <1>2, <1>8 DEF OwnerInv, ClientInv
<1> QED
  BY <1>1, <1>2, <1>4, <1>5, <1>7, <1>9 DEF WatchInv, WatchTypes, TheTask, TaskState

LEMMA WatchStep ==
    WatchNames /\ WatchInv /\ [InOrder!Next]_(InOrder!vars) => WatchInv'
<1> SUFFICES ASSUME WatchNames, WatchInv, [InOrder!Next]_(InOrder!vars) PROVE WatchInv'
  OBVIOUS
<1>1. CASE UNCHANGED InOrder!vars
  <2>1. UNCHANGED <<updates, slots, count, globOwner, pending, watched, tasks>>
    BY <1>1 DEF InOrder!vars
  <2>2. PICK t : AState(t)
    BY DEF WatchInv, AState
  <2>3. HistoryInv' /\ WatchTypes' /\ TheTask(t)'
    <3>1. NumberedOnce'
      BY <2>1, <2>2 DEF AState, HistoryInv, NumberedOnce
    <3>2. HistoryInv'
      BY <2>1, <2>2, <3>1 DEF AState, HistoryInv
    <3>3. WatchTypes'
      BY <2>1, <2>2 DEF AState, WatchTypes
    <3>4. TheTask(t)'
      BY <2>1, <2>2 DEF AState, TheTask, InOrder!NewTask
    <3> QED
      BY <3>2, <3>3, <3>4
  <2>4. TaskInv(t)'
    BY <2>1, <2>2 DEF AState, TaskState, TaskInv
  <2>5. HavingInv(t)'
    <3>1. \A p \in Slot \X Int, h \in Glob : Counted(t, p, h)' <=> Counted(t, p, h)
      BY <2>1 DEF Counted, OldHas, NewHas, Works
    <3> QED
      BY <2>1, <2>2, <3>1, SameHaving
  <2>6. OwnerInv(t)' /\ ClientInv(t)'
    BY <2>1, <2>2, SameOwners
  <2> QED
    BY <2>3, <2>4, <2>5, <2>6 DEF WatchInv, TaskState
<1>2. CASE InOrder!updateSnapshot
  BY <1>2, WatchSnapshot
<1>3. ASSUME NEW t \in tasks, InOrder!Task(t) PROVE WatchInv'
  <2>1. PICK u : AState(u)
    BY DEF WatchInv, AState
  <2>2. t = u /\ tasks = {t} /\ updates > 0
    BY <1>3, <2>1 DEF AState, TheTask
  <2>3. AState(t)
    BY <2>1, <2>2
  <2>4. ~InOrder!Rollback(t)
    BY <2>3 DEF InOrder!Rollback, AState, TaskState, TaskInv
  <2> QED
    BY <1>3, <2>2, <2>3, <2>4, WatchDiff, WatchAcquire, WatchCall, WatchSettle, WatchReleaseOld,
       WatchUnwatch, WatchRegister DEF InOrder!Task
<1>4. CASE InOrder!Idle
  BY <1>1, <1>4 DEF InOrder!Idle
<1>5. ~InOrder!adoptSnapshotChange
  BY DEF InOrder!adoptSnapshotChange
<1> QED
  BY <1>1, <1>2, <1>3, <1>4, <1>5 DEF InOrder!Next

-----------------------------------------------------------------------------
(* What it promises.                                                       *)

LEMMA WatchTyped == WatchNames /\ WatchInv => InOrder!TypeOK
<1> SUFFICES ASSUME WatchNames, WatchInv PROVE InOrder!TypeOK
  OBVIOUS
<1>1. PICK t : AState(t)
  BY DEF WatchInv, AState
<1>2. \A g \in Glob : count[g] > 0 => globOwner[g] # InOrder!NoID
  <2>1. ASSUME NEW g \in Glob, count[g] > 0 PROVE globOwner[g] # InOrder!NoID
    <3>1. PICK i \in 1 .. updates, s \in Slot : globOwner[g] = InOrder!WatcherID(s, slots[i][s], g)
      BY <1>1, <2>1 DEF AState, TaskState, OwnerInv, OwnerOf
    <3>2. \A x, y, z : <<x, y, z>> # <<>>
      OBVIOUS
    <3> QED
      BY <3>1, <3>2 DEF InOrder!NoID, InOrder!WatcherID
  <2> QED
    BY <2>1
<1>3. \A r \in watched : r[2] \in Glob
  BY <1>1 DEF AState, TaskState, ClientInv
<1>4. \A u \in tasks : u.n \in 1 .. updates /\ u.left \subseteq Slot /\ u.todo \subseteq Glob
  <2>1. ASSUME NEW u \in tasks PROVE u.n \in 1 .. updates /\ u.left \subseteq Slot /\ u.todo \subseteq Glob
    <3>1. u = t /\ updates > 0
      BY <1>1, <2>1 DEF AState, TheTask
    <3>2. updates \in 1 .. updates
      BY <1>1, <3>1 DEF AState, HistoryInv
    <3> QED
      BY <1>1, <3>1, <3>2 DEF AState, TaskState, TaskInv
  <2> QED
    BY <2>1
<1> QED
  BY <1>1, <1>2, <1>3, <1>4 DEF InOrder!TypeOK, AState, WatchTypes

\* A watch is one of its slot: as many have a glob as slots do.
LEMMA WatchPromise == WatchNames /\ WatchInv => InOrder!WatchesExact
<1> SUFFICES ASSUME WatchNames, WatchInv, tasks = {}, NEW g \in Glob
             PROVE  /\ count[g] = InOrder!Cardinality(InOrder!Users(g))
                    /\ InOrder!Watched(g) <=> InOrder!Users(g) # {}
  BY DEF InOrder!WatchesExact
<1>1. PICK t : AState(t) /\ t = InOrder!NewTask(updates, {})
  BY DEF WatchInv, AState, TheTask
<1>2. t.at = "diff" /\ t.left = {} /\ t.removed = {} /\ pending = {} /\ \A h \in Glob : ~ToWatch(t, h)
  BY <1>1 DEF InOrder!NewTask, AState, WatchTypes, ToWatch
<1>3. \A S : InOrder!Cardinality(S) = Cardinality(S)
  BY DEF InOrder!Cardinality, Cardinality
<1>4. InOrder!Users(g) = {s \in Slot : g \in slots[updates][s].globs}
  BY <1>2 DEF InOrder!Users
<1> DEFINE U == {s \in Slot : g \in slots[updates][s].globs}
           f == [p \in Having(t, g) |-> p[1]]
<1>5. \A s \in Slot : slots[updates][s].id \in Int
  BY <1>1 DEF AState, HistoryInv, Watch
<1>6. \A p \in Having(t, g) : p \in Slot \X Int /\ g \in slots[updates][p[1]].globs
                              /\ p[2] = slots[updates][p[1]].id
  BY <1>2 DEF Having, Counted, OldHas, NewHas, Works
<1>7. \A s \in U : <<s, slots[updates][s].id>> \in Having(t, g)
  BY <1>2, <1>5 DEF Having, Counted, OldHas, NewHas, Works
<1>8. f \in Bijection(Having(t, g), U)
  <2>1. f \in [Having(t, g) -> U]
    BY <1>6
  <2>2. ASSUME NEW p \in Having(t, g), NEW q \in Having(t, g), f[p] = f[q] PROVE p = q
    <3>1. p[1] = q[1] /\ p[2] = q[2]
      BY <1>6, <2>2
    <3> QED
      BY <1>6, <3>1
  <2>3. ASSUME NEW s \in U PROVE \E p \in Having(t, g) : f[p] = s
    <3>1. <<s, slots[updates][s].id>> \in Having(t, g)
      BY <1>7, <2>3
    <3>2. f[<<s, slots[updates][s].id>>] = s
      BY <3>1
    <3> QED
      BY <3>1, <3>2
  <2> HIDE DEF f, U
  <2>4. f \in Injection(Having(t, g), U)
    BY <2>1, <2>2 DEF Injection, IsInjective
  <2>5. f \in Surjection(Having(t, g), U)
    BY <2>1, <2>3 DEF Surjection
  <2> QED
    BY <2>4, <2>5 DEF Bijection
<1>9. IsFiniteSet(Having(t, g)) /\ count[g] = Cardinality(Having(t, g))
  BY <1>1 DEF AState, TaskState, HavingInv
<1>10. IsFiniteSet(U) /\ count[g] = Cardinality(U)
  <2>1. ExistsBijection(Having(t, g), U)
    BY <1>8 DEF ExistsBijection
  <2> QED
    BY <1>9, <2>1, FS_Bijection
<1>11. count[g] > 0 <=> U # {}
  <2>1. count[g] \in Nat
    BY <1>1 DEF AState, WatchTypes
  <2>2. Cardinality(U) = 0 <=> U = {}
    BY <1>10, FS_EmptySet
  <2> QED
    BY <1>10, <2>1, <2>2
<1>12. InOrder!Watched(g) <=> count[g] > 0
  <2>1. ASSUME NEW r \in watched, r[2] = g PROVE count[g] > 0
    BY <1>1, <1>2, <2>1 DEF AState, TaskState, ClientInv
  <2>2. ASSUME count[g] > 0 PROVE \E r \in watched : r[2] = g
    <3>1. <<globOwner[g], g>> \in watched
      BY <1>1, <1>2, <2>2 DEF AState, TaskState, ClientInv
    <3> QED
      BY <3>1
  <2> QED
    BY <2>1, <2>2 DEF InOrder!Watched
<1> QED
  BY <1>3, <1>4, <1>10, <1>11, <1>12

-----------------------------------------------------------------------------
(* The types of the registry when tasks run at once, and calls fail.       *)

WatchAtOnce == [id : -1 .. MaxAtOnce, globs : SUBSET GlobAtOnce]

TaskAtOnce(t) ==
    /\ DOMAIN t = TaskFields
    /\ t.n \in 1 .. updates /\ t.left \subseteq SlotAtOnce
    /\ t.todo \subseteq GlobAtOnce /\ t.fresh \subseteq GlobAtOnce /\ t.old.globs \subseteq GlobAtOnce
    /\ t.at # "diff" => t.slot \in SlotAtOnce
    /\ t.at \in {"acquire", "watch", "rollback"} => t.new.id \in 0 .. MaxAtOnce

SnapshotsAtOnce ==
    /\ updates \in 0 .. MaxAtOnce
    /\ slots \in [0 .. MaxAtOnce -> [SlotAtOnce -> WatchAtOnce]]
    /\ \A i \in 0 .. MaxAtOnce, s \in SlotAtOnce :
         slots[i][s].id = -1 => slots[i][s] = AtOnce!NoWatch

RegistryAtOnce ==
    /\ count \in [GlobAtOnce -> Nat] /\ DOMAIN globOwner = GlobAtOnce
    /\ \A g \in GlobAtOnce : count[g] > 0 => globOwner[g] # AtOnce!NoID
    /\ pending \subseteq {SlotName[s] : s \in SlotAtOnce} \X (0 .. MaxAtOnce)
    /\ \A r \in watched : r[2] \in GlobAtOnce

AtOnceInv == SnapshotsAtOnce /\ RegistryAtOnce /\ \A t \in tasks : TaskAtOnce(t)

LEMMA AtOnceInit == AtOnce!Init => AtOnceInv
<1> SUFFICES ASSUME AtOnce!Init PROVE AtOnceInv
  OBVIOUS
<1>1. AtOnce!NoWatch \in WatchAtOnce
  BY WatchesAssumption DEF AtOnce!NoWatch, WatchAtOnce
<1>2. SnapshotsAtOnce
  <2>1. updates \in 0 .. MaxAtOnce
    BY WatchesAssumption DEF AtOnce!Init
  <2>2. slots = [n \in 0 .. MaxAtOnce |-> [s \in SlotAtOnce |-> AtOnce!NoWatch]]
    BY DEF AtOnce!Init
  <2> QED
    BY <1>1, <2>1, <2>2 DEF SnapshotsAtOnce
<1>3. RegistryAtOnce /\ tasks = {}
  BY DEF AtOnce!Init, RegistryAtOnce
<1> QED
  BY <1>2, <1>3 DEF AtOnceInv

\* The next snapshot's watches are watches.
LEMMA AtOnceSnapshot ==
    ASSUME AtOnceInv, AtOnce!NextSnapshot
    PROVE  SnapshotsAtOnce' /\ updates' = updates + 1 /\ updates' \in 1 .. MaxAtOnce
<1>1. /\ updates \in 0 .. MaxAtOnce /\ updates' = updates + 1
      /\ updates' \in 1 .. MaxAtOnce /\ updates' \in 0 .. MaxAtOnce
  BY WatchesAssumption DEF AtOnceInv, SnapshotsAtOnce, AtOnce!NextSnapshot
<1>2. PICK s \in SlotAtOnce : \E w \in AtOnce!Cloned(slots[updates][s]) :
        slots' = [slots EXCEPT ![updates + 1] = [slots[updates] EXCEPT ![s] = w]]
  BY DEF AtOnce!NextSnapshot
<1>3. PICK w \in AtOnce!Cloned(slots[updates][s]) :
        slots' = [slots EXCEPT ![updates + 1] = [slots[updates] EXCEPT ![s] = w]]
  BY <1>2
<1>4. PICK base : base = slots[updates]
  OBVIOUS
<1>5. /\ base \in [SlotAtOnce -> WatchAtOnce]
      /\ \A r \in SlotAtOnce : base[r].id = -1 => base[r] = AtOnce!NoWatch
  BY <1>1, <1>4 DEF AtOnceInv, SnapshotsAtOnce
<1>6. w \in WatchAtOnce /\ (w.id = -1 => w = AtOnce!NoWatch)
  <2>1. PICK v : v = base[s]
    OBVIOUS
  <2>2. v \in WatchAtOnce
    BY <1>5, <2>1
  <2>3. CASE w = AtOnce!NoWatch
    BY <2>3, WatchesAssumption DEF AtOnce!NoWatch, WatchAtOnce
  <2>4. CASE \E gs \in (SUBSET GlobAtOnce) \ {{}, v.globs} : w = [id |-> updates + 1, globs |-> gs]
    BY <1>1, <2>4 DEF WatchAtOnce
  <2>5. CASE w = [v EXCEPT !.id = 0]
    BY <2>2, <2>5, WatchesAssumption DEF WatchAtOnce
  <2> QED
    BY <1>3, <1>4, <2>1, <2>3, <2>4, <2>5 DEF AtOnce!Cloned
<1>7. PICK f : f = [base EXCEPT ![s] = w]
  OBVIOUS
<1>8. /\ f \in [SlotAtOnce -> WatchAtOnce]
      /\ \A r \in SlotAtOnce : f[r].id = -1 => f[r] = AtOnce!NoWatch
  BY <1>5, <1>6, <1>7
<1>9. slots' = [slots EXCEPT ![updates'] = f]
  BY <1>1, <1>3, <1>4, <1>7
<1>10. slots' \in [0 .. MaxAtOnce -> [SlotAtOnce -> WatchAtOnce]]
  BY <1>1, <1>8, <1>9 DEF AtOnceInv, SnapshotsAtOnce
<1>11. \A i \in 0 .. MaxAtOnce : slots'[i] = IF i = updates' THEN f ELSE slots[i]
  BY <1>1, <1>9 DEF AtOnceInv, SnapshotsAtOnce
<1> QED
  BY <1>1, <1>8, <1>10, <1>11 DEF AtOnceInv, SnapshotsAtOnce

\* A task's step keeps the snapshots; it leaves the others as they are.
LEMMA AtOnceGoes ==
    ASSUME AtOnceInv, NEW t, NEW u, AtOnce!Step(t, u), UNCHANGED <<updates, slots>>,
           RegistryAtOnce', TaskAtOnce(u)
    PROVE  AtOnceInv'
<1>1. SnapshotsAtOnce'
  BY DEF AtOnceInv, SnapshotsAtOnce
<1>2. \A v \in tasks' : TaskAtOnce(v)'
  BY DEF AtOnceInv, AtOnce!Step, TaskAtOnce
<1> QED
  BY <1>1, <1>2 DEF AtOnceInv

LEMMA AtOnceDiff ==
    ASSUME AtOnceInv, NEW t \in tasks, AtOnce!Diff(t)
    PROVE  AtOnceInv'
<1>1. UNCHANGED <<updates, slots>> /\ RegistryAtOnce'
  BY DEF AtOnce!Diff, AtOnce!snapshots, AtOnce!registry, AtOnceInv, RegistryAtOnce
<1>2. TaskAtOnce(t)
  BY DEF AtOnceInv
<1>3. PICK s \in t.left :
        LET old == slots[t.n - 1][s]
            new == slots[t.n][s]
            retry == old.id = new.id /\ <<SlotName[s], new.id>> \in pending
            rest == AtOnce!NewTask(t.n, t.left \ {s})
        IN  IF old.id = new.id /\ ~retry
              THEN AtOnce!Step(t, rest)
              ELSE AtOnce!Step(t, [rest EXCEPT !.at = IF new = AtOnce!NoWatch THEN "old" ELSE "acquire",
                                               !.slot = s, !.new = new,
                                               !.old = IF retry THEN AtOnce!NoWatch ELSE old,
                                               !.todo = IF new = AtOnce!NoWatch THEN old.globs
                                                        ELSE new.globs])
  BY DEF AtOnce!Diff
<1>4. PICK old : old = slots[t.n - 1][s]
  OBVIOUS
<1>5. PICK new : new = slots[t.n][s]
  OBVIOUS
<1>6. PICK rest : rest = AtOnce!NewTask(t.n, t.left \ {s})
  OBVIOUS
<1>7. /\ DOMAIN rest = TaskFields /\ rest.n = t.n /\ rest.left = t.left \ {s} /\ rest.at = "diff"
      /\ rest.todo = {} /\ rest.fresh = {} /\ rest.old = AtOnce!NoWatch
  BY <1>6 DEF AtOnce!NewTask, TaskFields
<1>8. AtOnce!NoWatch.globs = {}
  BY DEF AtOnce!NoWatch
<1>9. TaskAtOnce(rest)
  BY <1>2, <1>7, <1>8 DEF TaskAtOnce
<1>10. /\ s \in SlotAtOnce /\ old.globs \subseteq GlobAtOnce /\ new.globs \subseteq GlobAtOnce
       /\ new.id \in -1 .. MaxAtOnce /\ (new.id = -1 => new = AtOnce!NoWatch)
  <2>1. s \in SlotAtOnce /\ t.n \in 0 .. MaxAtOnce /\ t.n - 1 \in 0 .. MaxAtOnce
    BY <1>2, <1>3, WatchesAssumption DEF TaskAtOnce, AtOnceInv, SnapshotsAtOnce
  <2>2. old \in WatchAtOnce /\ new \in WatchAtOnce
    BY <1>4, <1>5, <2>1 DEF AtOnceInv, SnapshotsAtOnce
  <2> QED
    BY <1>5, <2>1, <2>2 DEF AtOnceInv, SnapshotsAtOnce, WatchAtOnce
<1>11. new # AtOnce!NoWatch => new.id \in 0 .. MaxAtOnce
  BY <1>10, WatchesAssumption
<1>12. PICK u : u = [rest EXCEPT !.at = IF new = AtOnce!NoWatch THEN "old" ELSE "acquire",
                                 !.slot = s, !.new = new,
                                 !.old = IF old.id = new.id /\ <<SlotName[s], new.id>> \in pending
                                           THEN AtOnce!NoWatch ELSE old,
                                 !.todo = IF new = AtOnce!NoWatch THEN old.globs ELSE new.globs]
  OBVIOUS
<1>13. /\ DOMAIN u = TaskFields /\ u.n = t.n /\ u.left = t.left \ {s} /\ u.slot = s /\ u.new = new
       /\ u.at = (IF new = AtOnce!NoWatch THEN "old" ELSE "acquire") /\ u.fresh = {}
       /\ u.old \in {AtOnce!NoWatch, old}
       /\ u.todo \in {old.globs, new.globs}
  BY <1>7, <1>12 DEF TaskFields
<1>14. TaskAtOnce(u)
  BY <1>2, <1>8, <1>10, <1>11, <1>13 DEF TaskAtOnce
<1>15. AtOnce!Step(t, rest) \/ AtOnce!Step(t, u)
  BY <1>3, <1>4, <1>5, <1>6, <1>12
<1> QED
  BY <1>1, <1>9, <1>14, <1>15, AtOnceGoes

LEMMA AtOnceAcquire ==
    ASSUME AtOnceInv, NEW t \in tasks, AtOnce!Acquire(t)
    PROVE  AtOnceInv'
<1>1. TaskAtOnce(t) /\ t.at = "acquire" /\ UNCHANGED <<updates, slots, pending, watched>>
  BY DEF AtOnce!Acquire, AtOnce!snapshots, AtOnceInv
<1>2. PICK g \in t.todo :
        /\ count' = [count EXCEPT ![g] = @ + 1]
        /\ globOwner' = IF count[g] = 0 THEN [globOwner EXCEPT ![g] = AtOnce!ID(t, g)] ELSE globOwner
        /\ LET left == t.todo \ {g}
               fresh == IF count[g] = 0 THEN t.fresh \cup {g} ELSE t.fresh
           IN  AtOnce!Step(t, [t EXCEPT !.fresh = fresh,
                                        !.at = IF left = {} THEN "watch" ELSE "acquire",
                                        !.todo = IF left = {} THEN fresh ELSE left])
  BY DEF AtOnce!Acquire, AtOnce!IsNew
<1>3. PICK fresh : fresh = IF count[g] = 0 THEN t.fresh \cup {g} ELSE t.fresh
  OBVIOUS
<1>4. PICK u : u = [t EXCEPT !.fresh = fresh,
                             !.at = IF t.todo \ {g} = {} THEN "watch" ELSE "acquire",
                             !.todo = IF t.todo \ {g} = {} THEN fresh ELSE t.todo \ {g}]
  OBVIOUS
<1>5. AtOnce!Step(t, u)
  BY <1>2, <1>3, <1>4
<1>6. /\ DOMAIN u = TaskFields /\ u.n = t.n /\ u.left = t.left /\ u.slot = t.slot /\ u.new = t.new
      /\ u.old = t.old /\ u.at \in {"watch", "acquire"} /\ u.fresh = fresh
      /\ u.todo \in {fresh, t.todo \ {g}}
  BY <1>1, <1>4 DEF TaskAtOnce, TaskFields
<1>7. g \in GlobAtOnce /\ fresh \subseteq GlobAtOnce
  BY <1>1, <1>2, <1>3 DEF TaskAtOnce
<1>8. TaskAtOnce(u)
  BY <1>1, <1>6, <1>7 DEF TaskAtOnce
<1>9. RegistryAtOnce'
  <2>1. AtOnce!ID(t, g) # AtOnce!NoID
    <3>1. \A x, y, z : <<x, y, z>> # <<>>
      OBVIOUS
    <3> QED
      BY <3>1 DEF AtOnce!ID, AtOnce!WatcherID, AtOnce!NoID
  <2>2. /\ count' \in [GlobAtOnce -> Nat] /\ DOMAIN globOwner' = GlobAtOnce
        /\ \A h \in GlobAtOnce : h # g => count'[h] = count[h] /\ globOwner'[h] = globOwner[h]
        /\ globOwner'[g] = IF count[g] = 0 THEN AtOnce!ID(t, g) ELSE globOwner[g]
    BY <1>2, <1>7 DEF AtOnceInv, RegistryAtOnce
  <2>3. count[g] = 0 \/ count[g] > 0
    BY <1>7 DEF AtOnceInv, RegistryAtOnce
  <2>4. \A h \in GlobAtOnce : count'[h] > 0 => globOwner'[h] # AtOnce!NoID
    BY <2>1, <2>2, <2>3 DEF AtOnceInv, RegistryAtOnce
  <2> QED
    BY <1>1, <2>2, <2>4 DEF AtOnceInv, RegistryAtOnce
<1> QED
  BY <1>1, <1>5, <1>8, <1>9, AtOnceGoes

LEMMA AtOnceWatchFiles ==
    ASSUME AtOnceInv, NEW t \in tasks, AtOnce!WatchFiles(t)
    PROVE  AtOnceInv'
<1>1. TaskAtOnce(t) /\ t.at = "watch" /\ UNCHANGED <<updates, slots, count, globOwner, pending>>
  BY DEF AtOnce!WatchFiles, AtOnce!snapshots, AtOnce!registry, AtOnceInv
<1>2. PICK g \in t.todo :
        /\ watched' \in {watched, AtOnce!Watching(AtOnce!ID(t, g), g)}
        /\ \/ AtOnce!Step(t, [t EXCEPT !.todo = @ \ {g}])
           \/ AtOnce!Step(t, [t EXCEPT !.todo = @ \ {g}, !.failed = TRUE])
  BY DEF AtOnce!WatchFiles
<1>3. PICK u \in {[t EXCEPT !.todo = @ \ {g}], [t EXCEPT !.todo = @ \ {g}, !.failed = TRUE]} :
        AtOnce!Step(t, u)
  BY <1>2
<1>4. TaskAtOnce(u)
  BY <1>1, <1>3 DEF TaskAtOnce, TaskFields
<1>5. \A r \in watched' : r[2] \in GlobAtOnce
  <2>1. \A x, y : <<x, y>>[2] = y
    OBVIOUS
  <2> QED
    BY <1>1, <1>2, <2>1 DEF AtOnce!Watching, TaskAtOnce, AtOnceInv, RegistryAtOnce
<1>6. RegistryAtOnce'
  BY <1>1, <1>5 DEF AtOnceInv, RegistryAtOnce
<1> QED
  BY <1>1, <1>3, <1>4, <1>6, AtOnceGoes

\* A count that goes down stays a number.
LEMMA AtOnceRelease ==
    ASSUME AtOnceInv, NEW g \in GlobAtOnce, AtOnce!Release(g), UNCHANGED <<globOwner, watched, pending>>
    PROVE  RegistryAtOnce'
<1>1. count[g] \in Nat /\ count \in [GlobAtOnce -> Nat]
  BY DEF AtOnceInv, RegistryAtOnce
<1>2. CASE count[g] = 0
  BY <1>2 DEF AtOnce!Release, AtOnceInv, RegistryAtOnce
<1>3. CASE count[g] # 0
  <2>1. count[g] - 1 \in Nat /\ count[g] > 0
    BY <1>1, <1>3
  <2>2. /\ count' \in [GlobAtOnce -> Nat]
        /\ \A h \in GlobAtOnce : h # g => count'[h] = count[h]
    BY <1>1, <1>3, <2>1 DEF AtOnce!Release
  <2>3. \A h \in GlobAtOnce : count'[h] > 0 => count[h] > 0
    BY <2>1, <2>2
  <2> QED
    BY <2>2, <2>3 DEF AtOnceInv, RegistryAtOnce
<1> QED
  BY <1>2, <1>3

LEMMA AtOnceSettle ==
    ASSUME AtOnceInv, NEW t \in tasks, AtOnce!Settle(t) \/ AtOnce!Rollback(t) \/ AtOnce!ReleaseOld(t)
    PROVE  AtOnceInv'
<1>1. TaskAtOnce(t) /\ UNCHANGED <<updates, slots, globOwner, watched>>
  BY DEF AtOnce!Settle, AtOnce!Rollback, AtOnce!ReleaseOld, AtOnce!snapshots, AtOnceInv
<1>2. CASE AtOnce!Settle(t)
  <2>1. PICK u \in {[t EXCEPT !.at = "rollback", !.todo = t.fresh], AtOnce!ToOld(t)} : AtOnce!Step(t, u)
    BY <1>2 DEF AtOnce!Settle
  <2>2. TaskAtOnce(u)
    BY <1>1, <1>2, <2>1 DEF TaskAtOnce, TaskFields, AtOnce!ToOld, AtOnce!Settle
  <2>3. RegistryAtOnce'
    BY <1>1, <1>2 DEF AtOnce!Settle, AtOnceInv, RegistryAtOnce
  <2> QED
    BY <1>1, <2>1, <2>2, <2>3, AtOnceGoes
<1>3. CASE AtOnce!Rollback(t) /\ t.todo = {}
  <2>1. PICK u : u = AtOnce!ToOld(t)
    OBVIOUS
  <2>2. AtOnce!Step(t, u) /\ TaskAtOnce(u)
    BY <1>1, <1>3, <2>1 DEF TaskAtOnce, TaskFields, AtOnce!ToOld, AtOnce!Rollback
  <2>3. t.slot \in SlotAtOnce /\ t.new.id \in 0 .. MaxAtOnce
    BY <1>1, <1>3 DEF TaskAtOnce, AtOnce!Rollback
  <2>4. RegistryAtOnce'
    BY <1>1, <1>3, <2>3 DEF AtOnce!Rollback, AtOnceInv, RegistryAtOnce
  <2> QED
    BY <1>1, <2>2, <2>4, AtOnceGoes
<1>4. CASE AtOnce!Rollback(t) /\ t.todo # {}
  <2>1. PICK g \in t.todo : AtOnce!Release(g) /\ AtOnce!Step(t, [t EXCEPT !.todo = @ \ {g}])
    BY <1>4 DEF AtOnce!Rollback
  <2>2. TaskAtOnce([t EXCEPT !.todo = @ \ {g}])
    BY <1>1, <2>1 DEF TaskAtOnce, TaskFields
  <2>3. RegistryAtOnce'
    <3>1. g \in GlobAtOnce /\ pending' = pending
      BY <1>1, <1>4, <2>1 DEF TaskAtOnce, AtOnce!Rollback
    <3> QED
      BY <1>1, <2>1, <3>1, AtOnceRelease
  <2> QED
    BY <1>1, <2>1, <2>2, <2>3, AtOnceGoes
<1>5. CASE AtOnce!ReleaseOld(t) /\ t.todo = {}
  <2>1. PICK u : u = [t EXCEPT !.at = "unwatch"]
    OBVIOUS
  <2>2. AtOnce!Step(t, u) /\ TaskAtOnce(u)
    BY <1>1, <1>5, <2>1 DEF TaskAtOnce, TaskFields, AtOnce!ReleaseOld
  <2>3. RegistryAtOnce'
    BY <1>1, <1>5 DEF AtOnce!ReleaseOld, AtOnceInv, RegistryAtOnce
  <2> QED
    BY <1>1, <2>2, <2>3, AtOnceGoes
<1>6. CASE AtOnce!ReleaseOld(t) /\ t.todo # {}
  <2>1. PICK g \in t.todo :
          /\ AtOnce!Release(g)
          /\ AtOnce!Step(t, [t EXCEPT !.todo = @ \ {g}, !.removed = @ \cup AtOnce!RemovedIDs(g)])
    BY <1>6 DEF AtOnce!ReleaseOld
  <2>2. PICK gone : gone = t.removed \cup AtOnce!RemovedIDs(g)
    OBVIOUS
  <2>3. PICK u : u = [t EXCEPT !.todo = @ \ {g}, !.removed = gone]
    OBVIOUS
  <2>4. AtOnce!Step(t, u) /\ TaskAtOnce(u)
    <3>1. AtOnce!Step(t, u)
      BY <2>1, <2>2, <2>3
    <3>2. TaskAtOnce(u)
      BY <1>1, <2>3 DEF TaskAtOnce, TaskFields
    <3> QED
      BY <3>1, <3>2
  <2>5. RegistryAtOnce'
    <3>1. g \in GlobAtOnce /\ pending' = pending
      BY <1>1, <1>6, <2>1 DEF TaskAtOnce, AtOnce!ReleaseOld
    <3> QED
      BY <1>1, <2>1, <3>1, AtOnceRelease
  <2> QED
    BY <1>1, <2>4, <2>5, AtOnceGoes
<1> QED
  BY <1>2, <1>3, <1>4, <1>5, <1>6

LEMMA AtOnceUnwatch ==
    ASSUME AtOnceInv, NEW t \in tasks, AtOnce!UnwatchFiles(t)
    PROVE  AtOnceInv'
<1>1. /\ TaskAtOnce(t) /\ t.at = "unwatch" /\ UNCHANGED <<updates, slots, count, globOwner, pending>>
      /\ watched' \subseteq watched
  BY DEF AtOnce!UnwatchFiles, AtOnce!snapshots, AtOnce!registry, AtOnceInv
<1>2. RegistryAtOnce'
  BY <1>1 DEF AtOnceInv, RegistryAtOnce
<1>3. CASE t.removed = {}
  <2>1. PICK u : u = AtOnce!NewTask(t.n, t.left)
    OBVIOUS
  <2>2. /\ DOMAIN u = TaskFields /\ u.n = t.n /\ u.left = t.left /\ u.at = "diff"
        /\ u.todo = {} /\ u.fresh = {} /\ u.old.globs = {}
    BY <2>1 DEF AtOnce!NewTask, AtOnce!NoWatch, TaskFields
  <2>3. AtOnce!Step(t, u) /\ TaskAtOnce(u)
    BY <1>1, <1>3, <2>1, <2>2 DEF TaskAtOnce, AtOnce!UnwatchFiles
  <2> QED
    BY <1>1, <1>2, <2>3, AtOnceGoes
<1>4. CASE t.removed # {}
  <2>1. PICK id \in t.removed : AtOnce!Step(t, [t EXCEPT !.removed = @ \ {id}])
    BY <1>4 DEF AtOnce!UnwatchFiles
  <2>2. TaskAtOnce([t EXCEPT !.removed = @ \ {id}])
    BY <1>1 DEF TaskAtOnce, TaskFields
  <2> QED
    BY <1>1, <1>2, <2>1, <2>2, AtOnceGoes
<1> QED
  BY <1>3, <1>4

LEMMA AtOnceStep == AtOnceInv /\ [AtOnce!Next]_(AtOnce!vars) => AtOnceInv'
<1> SUFFICES ASSUME AtOnceInv, [AtOnce!Next]_(AtOnce!vars) PROVE AtOnceInv'
  OBVIOUS
<1>1. CASE UNCHANGED AtOnce!vars
  BY <1>1 DEF AtOnce!vars, AtOnceInv, SnapshotsAtOnce, RegistryAtOnce, TaskAtOnce
<1>2. CASE AtOnce!updateSnapshot \/ AtOnce!adoptSnapshotChange
  <2>1. /\ SnapshotsAtOnce' /\ updates' = updates + 1 /\ updates' \in 1 .. MaxAtOnce
        /\ tasks' \subseteq tasks \cup {AtOnce!NewTask(updates + 1, SlotAtOnce)}
        /\ UNCHANGED <<count, globOwner, pending, watched>>
    BY <1>2, AtOnceSnapshot
       DEF AtOnce!updateSnapshot, AtOnce!adoptSnapshotChange, AtOnce!registry
  <2>2. RegistryAtOnce'
    BY <2>1 DEF AtOnceInv, RegistryAtOnce
  <2>3. PICK u : u = AtOnce!NewTask(updates + 1, SlotAtOnce)
    OBVIOUS
  <2>4. /\ DOMAIN u = TaskFields /\ u.n = updates' /\ u.left = SlotAtOnce /\ u.at = "diff"
        /\ u.todo = {} /\ u.fresh = {} /\ u.old.globs = {}
    BY <2>1, <2>3 DEF AtOnce!NewTask, AtOnce!NoWatch, TaskFields
  <2>5. updates' \in 1 .. updates' /\ \A n \in 1 .. updates : n \in 1 .. updates'
    BY <2>1 DEF AtOnceInv, SnapshotsAtOnce
  <2>6. TaskAtOnce(u)' /\ \A t \in tasks : TaskAtOnce(t)'
    BY <2>4, <2>5 DEF AtOnceInv, TaskAtOnce
  <2> QED
    BY <2>1, <2>2, <2>3, <2>6 DEF AtOnceInv
<1>3. ASSUME NEW t \in tasks, AtOnce!Register(t) PROVE AtOnceInv'
  <2>1. tasks' \subseteq tasks /\ UNCHANGED <<updates, slots, count, globOwner, pending, watched>>
    BY <1>3 DEF AtOnce!Register, AtOnce!snapshots, AtOnce!registry
  <2> QED
    BY <2>1 DEF AtOnceInv, SnapshotsAtOnce, RegistryAtOnce, TaskAtOnce
<1>4. ASSUME NEW t \in tasks, AtOnce!Task(t) PROVE AtOnceInv'
  BY <1>3, <1>4, AtOnceDiff, AtOnceAcquire, AtOnceWatchFiles, AtOnceSettle, AtOnceUnwatch DEF AtOnce!Task
<1>5. CASE AtOnce!Idle
  BY <1>1, <1>5 DEF AtOnce!Idle
<1> QED
  BY <1>1, <1>2, <1>4, <1>5 DEF AtOnce!Next

LEMMA AtOnceTyped == AtOnceInv => AtOnce!TypeOK
  BY DEF AtOnceInv, SnapshotsAtOnce, RegistryAtOnce, TaskAtOnce, AtOnce!TypeOK

-----------------------------------------------------------------------------
(* Once updateWatches is done, one task after the other, each glob's count *)
(* in watchRegistry is that of the current snapshot's watches with it, and *)
(* the client watches those globs and no others: for all watches, updates  *)
(* and slots.  With tasks at once, which may fail, the registry keeps its  *)
(* types.                                                                  *)
THEOREM ExactWatches == WatchNames /\ MCSpec => []WatchesExact
<1> SUFFICES ASSUME WatchNames PROVE MCSpec => []WatchesExact
  OBVIOUS
<1> DEFINE Either == IF part = "at once" THEN AtOnceInv ELSE WatchInv
<1>1. MCInit => Either
  BY WatchInit, AtOnceInit DEF MCInit
<1>2. Either /\ [MCNext]_<<part, vars, fileVars, watchVars>> => Either'
  <2> SUFFICES ASSUME Either, [MCNext]_<<part, vars, fileVars, watchVars>> PROVE Either'
    OBVIOUS
  <2>1. /\ part' = part
        /\ \/ UNCHANGED watchVars
           \/ part = "in order" /\ InOrder!Next
           \/ part = "at once" /\ AtOnce!Next
    BY DEF MCNext
  <2>2. UNCHANGED watchVars => UNCHANGED InOrder!vars /\ UNCHANGED AtOnce!vars
    BY DEF watchVars, InOrder!vars, AtOnce!vars
  <2>3. CASE part = "at once"
    <3>1. [AtOnce!Next]_(AtOnce!vars)
      BY <2>1, <2>2, <2>3
    <3> QED
      BY <2>1, <2>3, <3>1, AtOnceStep
  <2>4. CASE part # "at once"
    <3>1. [InOrder!Next]_(InOrder!vars)
      BY <2>1, <2>2, <2>4
    <3> QED
      BY <2>1, <2>4, <3>1, WatchStep
  <2> QED
    BY <2>3, <2>4
<1>3. Either => WatchesExact
  BY WatchTyped, WatchPromise, AtOnceTyped DEF WatchesExact
<1> QED
  BY <1>1, <1>2, <1>3, PTL DEF MCSpec
=============================================================================
