--------------------------- MODULE SessionProofs ---------------------------
(***************************************************************************)
(* Proofs about the session, for every set of workers and of mixes, and    *)
(* every bound on snapshots, changes, preferences and timers: a snapshot   *)
(* has the references of those who will release it, no change gets lost,   *)
(* and the current snapshot never goes back.                               *)
(***************************************************************************)
EXTENDS Session, FiniteSetTheorems, WellFoundedInduction, TLAPS

\* What each task was made for is its own: a clone, a snapshot to warm, a timer.
Apart(t, u) ==
    /\ t.kind = "adopt" /\ u.kind = "adopt" /\ t.clone = u.clone => t = u
    /\ t.kind = "warm" /\ u.kind = "warm" /\ t.base = u.base => t = u
    /\ t.kind = "warm" /\ u.kind = "warm" /\ t.at = "adopt" /\ u.at = "adopt" /\ t.clone = u.clone => t = u
    /\ t.kind = "idle" /\ u.kind = "idle" /\ t.timer = u.timer => t = u

TasksInv == \A t, u \in tasks : Apart(t, u)

\* An armed timer's callback is not on its way.
TimerInv == idle.armed => \A t \in tasks : t.kind = "idle" => t.timer # idle.timer

\* What the update and the dispatch loop say of each other, up to the end.
PhaseInv ==
    /\ updater.by = None <=> updater = Free
    /\ updater.at = "flush" => updater.files = {} /\ updater.ata = {} /\ updater.config = 0
    /\ updater.by = "api" =>
         /\ "api" \in ops
         /\ dispatch \in {"ready", "opening", "updating", "schedule", "stopping"}
    /\ updater.by \in {"open", "request"} => dispatch = "updating"
    /\ dispatch \in {"closing", "idleWait", "queueWait", "closed"} => held = {}
    /\ dispatch \in {"idleWait", "queueWait", "closed"} => idle.closed /\ ~idle.armed
    /\ queueClosed = backgroundDone
    /\ backgroundDone <=> dispatch \in {"queueWait", "closed"}
    /\ snapshot = None <=> dispatch = "closed"
    /\ dispatch = "closed" => updater = Free /\ tasks = {}

One(P) == IF P THEN 1 ELSE 0

AdoptOf(s)  == \E t \in tasks : t.kind = "adopt" /\ t.clone = s
WarmOf(s)   == \E t \in tasks : t.kind = "warm" /\ t.at \in {"clone", "adopt"} /\ t.base = s
WarmedOf(s) == \E t \in tasks : t.kind = "warm" /\ t.at = "adopt" /\ t.clone = s

\* Those who are to release a reference of s.
Owed(s) ==
    One(snapshot = s) + Cardinality(Users(s)) + One(s \in held)
      + One(AdoptOf(s)) + One(WarmOf(s)) + One(WarmedOf(s))

\* A task dropped at shutdown leaves its reference behind.
RefsInv ==
    \A s \in Snap : /\ refCount[s] >= Owed(s)
                    /\ ~backgroundDone => refCount[s] = Owed(s)

\* A clone to be adopted is built from what its base is built from, as long as
\* that lives, and while an update has preferences there are no later ones.
Cloned(t) == t.kind = "adopt" \/ (t.kind = "warm" /\ t.at = "adopt")

BuiltInv ==
    /\ \A t \in tasks : Cloned(t) =>
         /\ t.base # t.clone
         /\ refCount[t.base] > 0 => built[t.clone] = built[t.base]
    /\ updater.config # 0 => \A s \in Snap : built[s].config <= updater.config

SessionInv == TypeOK /\ TasksInv /\ TimerInv /\ PhaseInv /\ RefsInv /\ BuiltInv

-----------------------------------------------------------------------------
(* Facts about identities, references and tasks.                           *)

\* The least of some identities is one of them.
LEMMA MinIn ==
    ASSUME NEW S, S # {}, S \subseteq Nat
    PROVE  Min(S) \in S
<1>1. PICK x \in S : \A y \in S : ~(<<y, x>> \in OpToRel(<, Nat))
  BY NatLessThanWellFounded, WFMin
<1>2. ASSUME NEW y \in S PROVE x <= y
  <2>1. ~(y < x)
    BY <1>1 DEF OpToRel
  <2> QED
    BY <2>1
<1> QED
  BY <1>2 DEF Min

\* There are finitely many identities, and None is not one.
LEMMA SnapFacts == Snap \subseteq Nat /\ IsFiniteSet(Snap) /\ None \notin Snap
<1>1. IsFiniteSet(0 .. MaxSnapshots)
  BY FS_Interval, SessionAssumption
<1> QED
  BY <1>1, SessionAssumption DEF Snap

\* What a task is, by its kind.
LEMMA TaskFacts ==
    ASSUME NEW t \in TaskType
    PROVE  /\ t.kind \in {"adopt", "warm", "ata", "scheduled", "idle"}
           /\ t.kind = "adopt" => t.base \in Snap /\ t.clone \in Snap /\ t.at = "start"
           /\ t.kind = "warm" => t.base \in Snap /\ t.at \in {"start", "ref", "clone", "adopt"}
           /\ t.kind = "warm" /\ t.at = "adopt" => t.clone \in Snap
           /\ t.kind = "ata" => t.at = "start"
           /\ t.kind = "scheduled" => t.gen \in Nat /\ t.at \in {"wait", "lock", "locked"}
           /\ t.kind = "idle" => t.timer \in Nat /\ t.at \in {"clear", "lock", "locked"}
  BY DEF TaskType

\* A task goes on, and remains what it is.
LEMMA TaskMoves ==
    ASSUME NEW t \in TaskType, NEW a, NEW u, u = [t EXCEPT !.at = a]
    PROVE  /\ u.at = a /\ u.kind = t.kind
           /\ t.kind = "idle" => u.timer = t.timer /\ (a \in {"lock", "locked"} => u \in TaskType)
           /\ t.kind = "scheduled" => (a \in {"lock", "locked"} => u \in TaskType)
           /\ t.kind = "warm" /\ t.at # "adopt" =>
                u.base = t.base /\ (a \in {"ref", "clone"} => u \in TaskType)
<1>1. CASE t \in [kind : {"adopt"}, base : Snap, clone : Snap, at : {"start"}]
  BY <1>1
<1>2. CASE t \in [kind : {"warm"}, base : Snap, at : {"start", "ref", "clone"}]
  BY <1>2 DEF TaskType
<1>3. CASE t \in [kind : {"warm"}, base : Snap, clone : Snap, at : {"adopt"}]
  BY <1>3
<1>4. CASE t \in [kind : {"ata"}, at : {"start"}]
  BY <1>4
<1>5. CASE t \in [kind : {"scheduled"}, gen : Nat, at : {"wait", "lock", "locked"}]
  BY <1>5 DEF TaskType
<1>6. CASE t \in [kind : {"idle"}, timer : Nat, at : {"clear", "lock", "locked"}]
  BY <1>6 DEF TaskType
<1> QED
  BY <1>1, <1>2, <1>3, <1>4, <1>5, <1>6 DEF TaskType

\* Finitely many workers use a snapshot.
LEMMA UsersFinite ==
    ASSUME NEW s
    PROVE  IsFiniteSet(Users(s)) /\ Cardinality(Users(s)) \in Nat
<1>1. Users(s) \subseteq Worker
  BY DEF Users
<1> QED
  BY <1>1, SessionAssumption, FS_Subset, FS_CardinalityType

\* Whoever is to release a reference of a snapshot keeps it alive.
LEMMA Alive ==
    ASSUME TypeOK, RefsInv
    PROVE  /\ snapshot \in Snap => refCount[snapshot] > 0
           /\ \A s \in held : refCount[s] > 0
           /\ \A w \in Worker : work[w].at # "none" => work[w].base \in Snap /\ refCount[work[w].base] > 0
           /\ \A t \in tasks : t.kind = "adopt" => refCount[t.clone] > 0
           /\ \A t \in tasks : t.kind = "warm" /\ t.at \in {"clone", "adopt"} => refCount[t.base] > 0
           /\ \A t \in tasks : t.kind = "warm" /\ t.at = "adopt" => refCount[t.clone] > 0
           /\ \A t \in tasks : t.kind = "warm" /\ t.at \in {"clone", "adopt"} /\ t.base = snapshot =>
                refCount[t.base] > 1
<1>1. ASSUME NEW s \in Snap
      PROVE  /\ refCount[s] \in Nat /\ refCount[s] >= Owed(s) /\ Cardinality(Users(s)) \in Nat
             /\ IsFiniteSet(Users(s))
  BY UsersFinite DEF TypeOK, RefsInv
<1>2. ASSUME NEW s \in Snap, snapshot = s \/ s \in held \/ AdoptOf(s) \/ WarmOf(s) \/ WarmedOf(s)
      PROVE  refCount[s] > 0
  BY <1>1, <1>2 DEF Owed, One
<1>3. ASSUME NEW s \in Snap, snapshot = s, WarmOf(s)
      PROVE  refCount[s] > 1
  BY <1>1, <1>3 DEF Owed, One
<1>4. ASSUME NEW w \in Worker, work[w].at # "none"
      PROVE  work[w].base \in Snap /\ refCount[work[w].base] > 0
  <2>1. work[w].base \in Snap
    BY <1>4 DEF TypeOK
  <2>2. w \in Users(work[w].base)
    BY <1>4 DEF Users
  <2>3. Cardinality(Users(work[w].base)) # 0
    BY <1>1, <2>1, <2>2, FS_EmptySet
  <2> QED
    BY <1>1, <2>1, <2>3 DEF Owed, One
<1>5. \A t \in tasks : t \in TaskType
  BY DEF TypeOK
<1>6. \A t \in tasks : t.kind = "adopt" => t.clone \in Snap /\ AdoptOf(t.clone)
  BY <1>5, TaskFacts DEF AdoptOf
<1>7. \A t \in tasks : t.kind = "warm" /\ t.at \in {"clone", "adopt"} => t.base \in Snap /\ WarmOf(t.base)
  BY <1>5, TaskFacts DEF WarmOf
<1>8. \A t \in tasks : t.kind = "warm" /\ t.at = "adopt" => t.clone \in Snap /\ WarmedOf(t.clone)
  BY <1>5, TaskFacts DEF WarmedOf
<1>9. held \subseteq Snap
  BY DEF TypeOK
<1> QED
  BY <1>2, <1>3, <1>4, <1>6, <1>7, <1>8, <1>9

\* A new identity: nobody has a reference of it, and no task looks at it.
LEMMA NewFree ==
    ASSUME TypeOK, RefsInv, Unused # {}
    PROVE  /\ New \in Unused /\ New \in Snap /\ refCount[New] = 0
           /\ snapshot # New /\ New \notin held /\ Users(New) = {}
           /\ \A t \in tasks : t.kind \in {"adopt", "warm"} => t.base # New
           /\ ~AdoptOf(New) /\ ~WarmOf(New) /\ ~WarmedOf(New)
<1>1. New \in Unused
  <2>1. Unused \subseteq Nat
    BY SnapFacts DEF Unused
  <2> QED
    BY <2>1, MinIn DEF New
<1>2. New \in Snap /\ refCount[New] = 0 /\ \A t \in tasks : t.kind \in {"adopt", "warm"} => t.base # New
  BY <1>1 DEF Unused
<1>3. Owed(New) <= 0 /\ IsFiniteSet(Users(New)) /\ Cardinality(Users(New)) \in Nat
  BY <1>2, UsersFinite DEF RefsInv, TypeOK, Owed, One
<1>4. /\ snapshot # New /\ New \notin held /\ Cardinality(Users(New)) = 0
      /\ ~AdoptOf(New) /\ ~WarmOf(New) /\ ~WarmedOf(New)
  BY <1>3 DEF Owed, One
<1> QED
  BY <1>1, <1>2, <1>3, <1>4, FS_EmptySet

\* While a snapshot may be kept there is an identity for it.
LEMMA RoomNew ==
    ASSUME TypeOK, Room
    PROVE  Unused # {}
<1> SUFFICES ASSUME Unused = {} PROVE FALSE
  OBVIOUS
<1> DEFINE C == IF snapshot # None /\ refCount[snapshot] = 1 THEN {snapshot} ELSE {}
<1>1. Kept = Snap \ C
  BY DEF Kept
<1>2. IsFiniteSet(Kept) /\ Cardinality(Kept) \in Nat /\ Cardinality(Snap) \in Nat
  BY <1>1, SnapFacts, FS_Subset, FS_CardinalityType
<1>3. Cardinality(Snap) <= Cardinality(Kept) + 1
  <2>1. Snap \subseteq Kept \cup {snapshot}
    BY <1>1
  <2>2. IsFiniteSet(Kept \cup {snapshot}) /\ Cardinality(Kept \cup {snapshot}) \in Nat
        /\ Cardinality(Kept \cup {snapshot}) <= Cardinality(Kept) + 1
    BY <1>2, FS_AddElement
  <2>3. Cardinality(Snap) <= Cardinality(Kept \cup {snapshot})
    BY <2>1, <2>2, FS_Subset
  <2> QED
    BY <1>2, <2>2, <2>3
<1> QED
  BY <1>2, <1>3 DEF Room

\* What stays in the queue or the timers and what comes is of different objects.
LEMMA TasksBy ==
    ASSUME TypeOK, TasksInv, NEW D, NEW N, tasks' = (tasks \ D) \cup N,
           IsFiniteSet(N), \A n \in N : n \in TaskType,
           \A n \in N : \A t \in (tasks \ D) \cup N : Apart(n, t) /\ Apart(t, n)
    PROVE  IsFiniteSet(tasks') /\ (\A t \in tasks' : t \in TaskType) /\ TasksInv'
<1>1. IsFiniteSet(tasks')
  BY FS_Difference, FS_Union DEF TypeOK
<1>2. \A t \in tasks' : t \in TaskType
  BY DEF TypeOK
<1>3. ASSUME NEW t \in tasks', NEW u \in tasks' PROVE Apart(t, u)
  <2>1. t \in (tasks \ D) \cup N /\ u \in (tasks \ D) \cup N
    BY <1>3
  <2>2. CASE t \in N
    BY <2>1, <2>2
  <2>3. CASE u \in N
    BY <2>1, <2>3
  <2>4. CASE t \in tasks /\ u \in tasks
    BY <2>4 DEF TasksInv
  <2> QED
    BY <2>1, <2>2, <2>3, <2>4
<1>4. TasksInv'
  BY <1>3 DEF TasksInv, Apart
<1> QED
  BY <1>1, <1>2, <1>4

\* Tasks that have a reference to release.
Bears(t) == t.kind = "adopt" \/ (t.kind = "warm" /\ t.at \in {"clone", "adopt"})

\* Tasks without a reference leave what is owed as it is.
LEMMA NoneBears ==
    ASSUME NEW D, NEW N, tasks' = (tasks \ D) \cup N,
           \A t \in tasks \cap D : ~Bears(t), \A t \in N : ~Bears(t), NEW s
    PROVE  /\ AdoptOf(s)' <=> AdoptOf(s)
           /\ WarmOf(s)' <=> WarmOf(s)
           /\ WarmedOf(s)' <=> WarmedOf(s)
           /\ \A t \in tasks' : Cloned(t) => t \in tasks
  BY DEF Bears, AdoptOf, WarmOf, WarmedOf, Cloned

\* What is due and what is counted change together.
LEMMA Balanced ==
    ASSUME TypeOK, RefsInv, backgroundDone => backgroundDone', DOMAIN refCount' = Snap,
           refCount' = [s \in Snap |-> refCount'[s]],
           NEW d, \A s \in Snap : d[s] \in Int /\ refCount'[s] = refCount[s] + d[s],
           \A s \in Snap : Owed(s)' = Owed(s) + d[s] \/ (backgroundDone' /\ Owed(s)' <= Owed(s) + d[s])
    PROVE  RefsInv' /\ refCount' \in [Snap -> Nat]
<1>1. ASSUME NEW s \in Snap
      PROVE  /\ Owed(s) \in Nat /\ Owed(s)' \in Nat /\ refCount[s] \in Nat
             /\ refCount[s] >= Owed(s) /\ (~backgroundDone => refCount[s] = Owed(s))
  <2>1. Cardinality(Users(s)) \in Nat
    BY UsersFinite
  <2>2. Cardinality(Users(s)') \in Nat
    <3>1. Users(s)' \subseteq Worker
      BY DEF Users
    <3> QED
      BY <3>1, SessionAssumption, FS_Subset, FS_CardinalityType
  <2> QED
    BY <2>1, <2>2 DEF Owed, One, RefsInv, TypeOK
<1>2. ASSUME NEW s \in Snap
      PROVE  /\ refCount'[s] >= Owed(s)' /\ (~backgroundDone' => refCount'[s] = Owed(s)')
             /\ refCount'[s] \in Nat
  BY <1>1
<1> QED
  BY <1>2 DEF RefsInv

\* No snapshot comes back to life but under a new identity, and what lives is
\* built from what it was built from.
Steady ==
    \A s \in Snap : /\ refCount[s] = 0 /\ refCount'[s] > 0 => s \in Unused
                    /\ refCount[s] > 0 /\ refCount'[s] > 0 => built'[s] = built[s]

\* No reference and nothing that is built changes.
LEMMA QuietRefs ==
    ASSUME SessionInv, UNCHANGED <<snapVars, work, held>>, backgroundDone => backgroundDone',
           NEW D, NEW N, tasks' = (tasks \ D) \cup N,
           (\A t \in tasks \cap D : ~Bears(t)) \/ backgroundDone', \A t \in N : ~Bears(t)
    PROVE  /\ RefsInv' /\ Steady /\ \A t \in tasks' : Cloned(t) => t \in tasks
<1> USE DEF SessionInv, snapVars
<1>1. \A t \in tasks' : Cloned(t) => t \in tasks
  BY DEF Cloned, Bears
<1>2. \A s \in Snap : Users(s)' = Users(s)
  BY DEF Users
<1>3. ASSUME NEW s \in Snap
      PROVE  /\ AdoptOf(s)' => AdoptOf(s)
             /\ WarmOf(s)' => WarmOf(s)
             /\ WarmedOf(s)' => WarmedOf(s)
  BY DEF Bears, AdoptOf, WarmOf, WarmedOf
<1>4. ASSUME NEW s \in Snap, ~backgroundDone'
      PROVE  /\ AdoptOf(s)' <=> AdoptOf(s)
             /\ WarmOf(s)' <=> WarmOf(s)
             /\ WarmedOf(s)' <=> WarmedOf(s)
  BY <1>4, NoneBears
<1>5. \A s \in Snap : Cardinality(Users(s)) \in Nat
  BY UsersFinite
<1> DEFINE d == [s \in Snap |-> 0]
<1>6. \A s \in Snap : d[s] \in Int /\ refCount'[s] = refCount[s] + d[s]
  BY DEF TypeOK
<1>7. \A s \in Snap : Owed(s)' = Owed(s) + d[s] \/ (backgroundDone' /\ Owed(s)' <= Owed(s) + d[s])
  BY <1>2, <1>3, <1>4, <1>5 DEF Owed, One
<1>8. RefsInv'
  <2> HIDE DEF d
  <2> QED
    BY <1>6, <1>7, Balanced DEF TypeOK
<1>9. Steady
  BY DEF Steady, TypeOK
<1> QED
  BY <1>1, <1>8, <1>9

\* Who is to release s, with one user more or less.
LEMMA UserComes ==
    ASSUME TypeOK, NEW w \in Worker, work[w].at = "none", NEW b \in Snap, NEW a \in {"run", "cloned"},
           work' = [work EXCEPT ![w] = [at |-> a, base |-> b]], NEW s \in Snap
    PROVE  Cardinality(Users(s)') = Cardinality(Users(s)) + (IF s = b THEN 1 ELSE 0)
<1>1. IsFiniteSet(Users(s)) /\ Cardinality(Users(s)) \in Nat /\ w \notin Users(s)
  BY UsersFinite DEF Users
<1>2. Users(s)' = IF s = b THEN Users(s) \cup {w} ELSE Users(s)
  <2>1. work'[w].at # "none" /\ work'[w].base = b /\ \A v \in Worker \ {w} : work'[v] = work[v]
    BY DEF TypeOK
  <2> QED
    BY <2>1 DEF Users
<1>3. Cardinality(Users(s) \cup {w}) = Cardinality(Users(s)) + 1
  BY <1>1, FS_AddElement
<1> QED
  BY <1>1, <1>2, <1>3

\* A worker gives its snapshot back.
LEMMA UserGoes ==
    ASSUME TypeOK, NEW w \in Worker, work[w].at # "none",
           work' = [work EXCEPT ![w] = [at |-> "none"]], NEW s \in Snap
    PROVE  Cardinality(Users(s)') = Cardinality(Users(s)) - (IF s = work[w].base THEN 1 ELSE 0)
<1>1. IsFiniteSet(Users(s)) /\ Cardinality(Users(s)) \in Nat
  BY UsersFinite
<1>2. Users(s)' = IF s = work[w].base THEN Users(s) \ {w} ELSE Users(s)
  <2>1. work'[w].at = "none" /\ \A v \in Worker \ {w} : work'[v] = work[v]
    BY DEF TypeOK
  <2> QED
    BY <2>1 DEF Users
<1>3. s = work[w].base => w \in Users(s)
  BY DEF Users
<1>4. s = work[w].base => Cardinality(Users(s) \ {w}) = Cardinality(Users(s)) - 1
  BY <1>1, <1>3, FS_RemoveElement
<1> QED
  BY <1>1, <1>2, <1>4

-----------------------------------------------------------------------------
(* References: what updates, clones and releases do.                       *)

RefsStep == RefsInv' /\ refCount' \in [Snap -> Nat] /\ Steady

\* Nobody else's snapshot changes when one is built, and what is disposed of
\* is built from nothing.
LEMMA CountedSteady ==
    ASSUME TypeOK, NEW count \in [Snap -> Int], NEW from, Counted(count, from),
           \A s \in Snap : refCount[s] = 0 /\ count[s] > 0 => s \in Unused,
           \A s \in Snap : refCount[s] > 0 => from[s] = built[s]
    PROVE  Steady /\ refCount' = count /\ \A s \in Snap : built'[s] = IF count[s] = 0 THEN Nothing ELSE from[s]
  BY DEF Counted, Steady

\* What a new clone does to the counts and to what is built.
LEMMA FreshCount ==
    ASSUME TypeOK, RefsInv, Unused # {}, NEW base \in Snap, refCount[base] > 0, NEW n \in {1, 2},
           Counted([refCount EXCEPT ![New] = n], Clone(base, {}, 0))
    PROVE  /\ New \in Snap /\ New # base
           /\ refCount' = [s \in Snap |-> refCount'[s]] /\ DOMAIN refCount' = Snap
           /\ \A s \in Snap : refCount'[s] = refCount[s] + (IF s = New THEN n ELSE 0)
           /\ Steady
           /\ built'[base] = built[base] /\ built'[New] = built[base]
           /\ \A s \in Snap \ {New} : built'[s] = IF refCount[s] = 0 THEN Nothing ELSE built[s]
<1> DEFINE count == [refCount EXCEPT ![New] = n]
<1>1. New \in Unused /\ New \in Snap /\ refCount[New] = 0
  BY NewFree
<1>2. /\ count \in [Snap -> Int] /\ count[New] = n
      /\ \A s \in Snap \ {New} : count[s] = refCount[s]
      /\ \A s \in Snap : refCount[s] \in Nat
  BY <1>1 DEF TypeOK
<1>3. built[base] = [changes |-> built[base].changes \cup {}, config |-> built[base].config]
  BY DEF TypeOK
<1>4. Clone(base, {}, 0)[New] = built[base] /\ \A s \in Snap \ {New} : Clone(base, {}, 0)[s] = built[s]
  BY <1>1, <1>3 DEF Clone, TypeOK
<1> HIDE DEF count
<1>5. Counted(count, Clone(base, {}, 0))
  BY DEF count
<1>6. /\ Steady /\ refCount' = count
      /\ \A s \in Snap : built'[s] = IF count[s] = 0 THEN Nothing ELSE Clone(base, {}, 0)[s]
  BY <1>1, <1>2, <1>4, <1>5, CountedSteady
<1>7. \A s \in Snap : refCount'[s] = refCount[s] + (IF s = New THEN n ELSE 0)
  BY <1>1, <1>2, <1>6
<1> QED
  BY <1>1, <1>2, <1>4, <1>6, <1>7

\* A snapshot that is released: its count, and what it was built from.
LEMMA ReleasedSteady ==
    ASSUME TypeOK, NEW count \in [Snap -> Int], Counted(count, built),
           \A s \in Snap : count[s] <= refCount[s]
    PROVE  /\ Steady /\ refCount' = count
           /\ \A s \in Snap : built'[s] = built[s] \/ built'[s] = Nothing
<1>1. \A s \in Snap : refCount[s] = 0 /\ count[s] > 0 => s \in Unused
  BY DEF TypeOK
<1>2. \A s \in Snap : refCount[s] > 0 => built[s] = built[s]
  OBVIOUS
<1> QED
  BY <1>1, <1>2, CountedSteady

\* Who refers to the new snapshot of an update, beside the session.
Referred(c) ==
    \/ c = 0 /\ UNCHANGED <<work, held>>
    \/ c = 1 /\ held' = held \cup {New} /\ UNCHANGED work
    \/ /\ c = 1 /\ UNCHANGED held
       /\ \E w \in Worker, a \in {"run", "cloned"} :
             work[w].at = "none" /\ work' = [work EXCEPT ![w] = [at |-> a, base |-> New]]

\* What an update does, field by field.
LEMMA UpdateFacts ==
    ASSUME TypeOK, RefsInv, snapshot \in Snap, NEW c \in {0, 1}, NEW done, updateSnapshot(c, done)
    PROVE  /\ New \in Snap /\ New # snapshot /\ snapshot' = New /\ updater' = Free
           /\ refCount' = [s \in Snap |-> refCount'[s]] /\ DOMAIN refCount' = Snap
           /\ \A s \in Snap : refCount'[s] =
                refCount[s] + (IF s = New THEN 1 + c ELSE IF s = snapshot THEN -1 ELSE 0)
           /\ Steady
           /\ built'[New] = [changes |-> built[snapshot].changes \cup (updater.files \cup updater.ata),
                             config |-> IF updater.config = 0 THEN built[snapshot].config ELSE updater.config]
           /\ \A s \in Snap \ {New} : built'[s] = built[s] \/ built'[s] = Nothing
           /\ \E N : tasks' = (tasks \ done) \cup N /\ N \subseteq AfterUpdate(TRUE) /\ (backgroundDone => N = {})
<1> DEFINE from == Clone(snapshot, updater.files \cup updater.ata, updater.config)
           count == [refCount EXCEPT ![New] = 1 + c, ![snapshot] = @ - 1]
<1>0. Unused # {} /\ snapshot' = New /\ updater' = Free /\ Counted(count, from)
  BY DEF updateSnapshot
<1>1. New \in Unused /\ New \in Snap /\ refCount[New] = 0 /\ New # snapshot
  BY <1>0, NewFree
<1>2. /\ count \in [Snap -> Int] /\ count[New] = 1 + c /\ count[snapshot] = refCount[snapshot] - 1
      /\ \A s \in Snap \ {New, snapshot} : count[s] = refCount[s]
      /\ \A s \in Snap : refCount[s] \in Nat
  BY <1>1 DEF TypeOK
<1>3. /\ from[New] = [changes |-> built[snapshot].changes \cup (updater.files \cup updater.ata),
                      config |-> IF updater.config = 0 THEN built[snapshot].config ELSE updater.config]
      /\ \A s \in Snap \ {New} : from[s] = built[s]
  BY <1>1 DEF Clone, TypeOK
<1> HIDE DEF count, from
<1>4. /\ Steady /\ refCount' = count
      /\ \A s \in Snap : built'[s] = IF count[s] = 0 THEN Nothing ELSE from[s]
  <2>1. \A s \in Snap : refCount[s] = 0 /\ count[s] > 0 => s \in Unused
    BY <1>1, <1>2
  <2>2. \A s \in Snap : refCount[s] > 0 => from[s] = built[s]
    BY <1>1, <1>3
  <2> QED
    BY <1>0, <1>2, <2>1, <2>2, CountedSteady
<1>5. \A s \in Snap : refCount'[s] =
                refCount[s] + (IF s = New THEN 1 + c ELSE IF s = snapshot THEN -1 ELSE 0)
  BY <1>1, <1>2, <1>4
<1>6. \E N : tasks' = (tasks \ done) \cup N /\ N \subseteq AfterUpdate(TRUE) /\ (backgroundDone => N = {})
  <2>1. PICK ata \in {FALSE, "ata" \in ops} :
           tasks' = (tasks \ done) \cup (IF queueClosed \/ backgroundDone THEN {} ELSE AfterUpdate(ata))
    BY DEF updateSnapshot
  <2>2. AfterUpdate(ata) \subseteq AfterUpdate(TRUE)
    BY DEF AfterUpdate
  <2> DEFINE N == IF queueClosed \/ backgroundDone THEN {} ELSE AfterUpdate(ata)
  <2>3. tasks' = (tasks \ done) \cup N /\ N \subseteq AfterUpdate(TRUE) /\ (backgroundDone => N = {})
    BY <2>1, <2>2
  <2> QED
    BY <2>3
<1>7. count[New] # 0
  BY <1>2
<1>8. /\ built'[New] = from[New]
      /\ \A s \in Snap \ {New} : built'[s] = built[s] \/ built'[s] = Nothing
  BY <1>1, <1>3, <1>4, <1>7
<1> QED
  BY <1>0, <1>1, <1>2, <1>3, <1>4, <1>5, <1>6, <1>8

\* What an update leaves to the queue has no reference.
LEMMA AfterBears ==
    \A t \in AfterUpdate(TRUE) : /\ ~Bears(t) /\ t.kind \in {"warm", "ata"}
                                 /\ t.kind = "warm" => t = [kind |-> "warm", base |-> New, at |-> "start"]
                                 /\ t.kind = "ata" => t = [kind |-> "ata", at |-> "start"]
  BY DEF AfterUpdate, Bears

\* An update's references: the session's goes from the old to the new snapshot.
LEMMA UpdateRefs ==
    ASSUME SessionInv, snapshot \in Snap, NEW c \in {0, 1}, NEW done, updateSnapshot(c, done),
           \A t \in tasks \cap done : ~Bears(t), UNCHANGED backgroundDone, Referred(c)
    PROVE  RefsStep /\ \A t \in tasks' : Cloned(t) => t \in tasks
<1> USE DEF SessionInv
<1> DEFINE d == [s \in Snap |-> IF s = New THEN 1 + c ELSE IF s = snapshot THEN -1 ELSE 0]
<1>1. PICK N : tasks' = (tasks \ done) \cup N /\ N \subseteq AfterUpdate(TRUE)
  BY UpdateFacts
<1>2. \A t \in N : ~Bears(t)
  BY <1>1, AfterBears
<1>3. ASSUME NEW s \in Snap
      PROVE  (AdoptOf(s)' <=> AdoptOf(s)) /\ (WarmOf(s)' <=> WarmOf(s)) /\ (WarmedOf(s)' <=> WarmedOf(s))
  BY <1>1, <1>2, NoneBears
<1>4. \A t \in tasks' : Cloned(t) => t \in tasks
  BY <1>1, <1>2 DEF Cloned, Bears
<1>5. /\ New \in Snap /\ New # snapshot /\ snapshot' = New /\ New \notin held
      /\ refCount' = [s \in Snap |-> refCount'[s]] /\ DOMAIN refCount' = Snap
      /\ \A s \in Snap : refCount'[s] =
                refCount[s] + (IF s = New THEN 1 + c ELSE IF s = snapshot THEN -1 ELSE 0)
      /\ Steady
  BY UpdateFacts, NewFree DEF updateSnapshot
<1>6. \A s \in Snap : d[s] \in Int /\ refCount'[s] = refCount[s] + d[s]
  BY <1>5
<1>7. ASSUME NEW s \in Snap
      PROVE  Owed(s)' = Owed(s) + d[s]
  <2>1. Cardinality(Users(s)) \in Nat
    BY UsersFinite
  <2>2. d[s] = IF s = New THEN 1 + c ELSE IF s = snapshot THEN -1 ELSE 0
    OBVIOUS
  <2>3. One(snapshot = s)' = One(snapshot = s) + (IF s = New THEN 1 ELSE IF s = snapshot THEN -1 ELSE 0)
    BY <1>5 DEF One
  <2> HIDE DEF d
  <2>4. CASE c = 0 /\ UNCHANGED <<work, held>>
    <3>1. Users(s)' = Users(s)
      BY <2>4 DEF Users
    <3> QED
      BY <1>3, <2>1, <2>2, <2>3, <2>4, <3>1 DEF Owed, One
  <2>5. CASE c = 1 /\ held' = held \cup {New} /\ UNCHANGED work
    <3>1. Users(s)' = Users(s)
      BY <2>5 DEF Users
    <3>2. One(s \in held)' = One(s \in held) + (IF s = New THEN 1 ELSE 0)
      BY <1>5, <2>5 DEF One
    <3> QED
      BY <1>3, <2>1, <2>2, <2>3, <2>5, <3>1, <3>2 DEF Owed, One
  <2>6. ASSUME c = 1, UNCHANGED held, NEW w \in Worker, work[w].at = "none", NEW a \in {"run", "cloned"},
               work' = [work EXCEPT ![w] = [at |-> a, base |-> New]]
        PROVE  Owed(s)' = Owed(s) + d[s]
    <3>1. Cardinality(Users(s)') = Cardinality(Users(s)) + (IF s = New THEN 1 ELSE 0)
      BY <1>5, <2>6, UserComes
    <3> QED
      BY <1>3, <2>1, <2>2, <2>3, <2>6, <3>1 DEF Owed, One
  <2> QED
    BY <2>4, <2>5, <2>6 DEF Referred
<1> HIDE DEF d
<1>8. RefsInv' /\ refCount' \in [Snap -> Nat]
  BY <1>5, <1>6, <1>7, Balanced
<1> QED
  BY <1>4, <1>5, <1>8 DEF RefsStep

\* A request with nothing flushed and a worker of its own.
LEMMA TakeRefs ==
    ASSUME SessionInv, snapshot \in Snap, NEW w \in Worker, work[w].at = "none",
           refCount' = [refCount EXCEPT ![snapshot] = @ + 1], UNCHANGED <<snapshot, built, tasks, held, backgroundDone>>,
           NEW a \in {"run", "cloned"}, work' = [work EXCEPT ![w] = [at |-> a, base |-> snapshot]]
    PROVE  RefsStep
<1> USE DEF SessionInv
<1> DEFINE d == [s \in Snap |-> IF s = snapshot THEN 1 ELSE 0]
<1>1. /\ refCount' = [s \in Snap |-> refCount'[s]] /\ DOMAIN refCount' = Snap
      /\ \A s \in Snap : refCount[s] \in Nat /\ d[s] \in Int /\ refCount'[s] = refCount[s] + d[s]
  <2>1. refCount' = [refCount EXCEPT ![snapshot] = @ + 1] /\ refCount \in [Snap -> Nat]
    BY DEF TypeOK
  <2>2. \A s \in Snap : refCount[s] \in Nat /\ refCount'[s] = refCount[s] + (IF s = snapshot THEN 1 ELSE 0)
    BY <2>1
  <2>3. refCount' = [s \in Snap |-> refCount'[s]] /\ DOMAIN refCount' = Snap
    BY <2>1
  <2>4. \A s \in Snap : d[s] = IF s = snapshot THEN 1 ELSE 0
    OBVIOUS
  <2> HIDE DEF d
  <2> QED
    BY <2>2, <2>3, <2>4
<1>2. ASSUME NEW s \in Snap
      PROVE  Owed(s)' = Owed(s) + d[s]
  <2>1. Cardinality(Users(s)) \in Nat
    BY UsersFinite
  <2>2. Cardinality(Users(s)') = Cardinality(Users(s)) + d[s]
    BY UserComes
  <2>3. (AdoptOf(s)' <=> AdoptOf(s)) /\ (WarmOf(s)' <=> WarmOf(s)) /\ (WarmedOf(s)' <=> WarmedOf(s))
    BY DEF AdoptOf, WarmOf, WarmedOf
  <2> HIDE DEF d
  <2> QED
    BY <1>1, <2>1, <2>2, <2>3 DEF Owed, One
<1>3. Steady
  BY Alive, <1>1 DEF Steady
<1> HIDE DEF d
<1>4. RefsInv' /\ refCount' \in [Snap -> Nat]
  BY <1>1, <1>2, Balanced
<1> QED
  BY <1>3, <1>4 DEF RefsStep

\* A task that is given the reference of a new clone, or is dropped with it.
LEMMA EnqueueAdopt ==
    ASSUME TypeOK, RefsInv, Unused # {}, UNCHANGED backgroundDone, PhaseInv, NEW base \in Snap,
           Enqueue({[kind |-> "adopt", base |-> base, clone |-> New, at |-> "start"]})
    PROVE  /\ \A s \in Snap : /\ AdoptOf(s)' <=> (AdoptOf(s) \/ (s = New /\ ~backgroundDone))
                              /\ WarmOf(s)' <=> WarmOf(s)
                              /\ WarmedOf(s)' <=> WarmedOf(s)
           /\ \A t \in tasks' : t \in tasks \/ t = [kind |-> "adopt", base |-> base, clone |-> New, at |-> "start"]
<1> DEFINE t0 == [kind |-> "adopt", base |-> base, clone |-> New, at |-> "start"]
<1>1. CASE backgroundDone
  BY <1>1 DEF Enqueue, AdoptOf, WarmOf, WarmedOf
<1>2. CASE ~backgroundDone
  <2>1. tasks' = tasks \cup {t0}
    BY <1>2 DEF Enqueue, PhaseInv
  <2>2. t0.kind = "adopt" /\ t0.clone = New
    OBVIOUS
  <2> HIDE DEF t0
  <2>3. ASSUME NEW s \in Snap
        PROVE  /\ AdoptOf(s)' <=> (AdoptOf(s) \/ s = New)
               /\ WarmOf(s)' <=> WarmOf(s)
               /\ WarmedOf(s)' <=> WarmedOf(s)
    BY <2>1, <2>2 DEF AdoptOf, WarmOf, WarmedOf
  <2> QED
    BY <1>2, <2>1, <2>3 DEF t0
<1> QED
  BY <1>1, <1>2

\* A worker gives the reference of its clone to a task.
LEMMA WorkerCloneRefs ==
    ASSUME SessionInv, NEW w \in Worker, work[w].at = "run", Unused # {},
           Counted([refCount EXCEPT ![New] = 1], Clone(work[w].base, {}, 0)),
           Enqueue({[kind |-> "adopt", base |-> work[w].base, clone |-> New, at |-> "start"]}),
           work' = [work EXCEPT ![w].at = "cloned"], UNCHANGED <<snapshot, held, backgroundDone>>
    PROVE  RefsStep
<1> USE DEF SessionInv
<1> DEFINE d == [s \in Snap |-> IF s = New THEN 1 ELSE 0]
<1>1. work[w].base \in Snap /\ refCount[work[w].base] > 0
  BY Alive
<1>2. /\ New \in Snap /\ refCount' = [s \in Snap |-> refCount'[s]] /\ DOMAIN refCount' = Snap
      /\ \A s \in Snap : refCount'[s] = refCount[s] + (IF s = New THEN 1 ELSE 0)
      /\ Steady
  BY <1>1, FreshCount
<1>3. \A s \in Snap : d[s] \in Int /\ refCount'[s] = refCount[s] + d[s]
  BY <1>2
<1>4. ASSUME NEW s \in Snap
      PROVE  Owed(s)' = Owed(s) + d[s] \/ (backgroundDone' /\ Owed(s)' <= Owed(s) + d[s])
  <2>1. Cardinality(Users(s)) \in Nat
    BY UsersFinite
  <2>2. Users(s)' = Users(s)
    BY DEF Users, TypeOK
  <2>3. /\ AdoptOf(s)' <=> (AdoptOf(s) \/ (s = New /\ ~backgroundDone))
        /\ (WarmOf(s)' <=> WarmOf(s)) /\ (WarmedOf(s)' <=> WarmedOf(s))
    BY <1>1, EnqueueAdopt
  <2>4. ~AdoptOf(New)
    BY NewFree
  <2>5. d[s] = IF s = New THEN 1 ELSE 0
    OBVIOUS
  <2> HIDE DEF d
  <2> QED
    BY <2>1, <2>2, <2>3, <2>4, <2>5 DEF Owed, One
<1> HIDE DEF d
<1>5. RefsInv' /\ refCount' \in [Snap -> Nat]
  BY <1>2, <1>3, <1>4, Balanced
<1> QED
  BY <1>2, <1>5 DEF RefsStep

\* The API keeps a reference of its clone beside the task's.
LEMMA APIPrepareRefs ==
    ASSUME SessionInv, NEW base \in held, Unused # {},
           Counted([refCount EXCEPT ![New] = 2], Clone(base, {}, 0)), held' = held \cup {New},
           Enqueue({[kind |-> "adopt", base |-> base, clone |-> New, at |-> "start"]}),
           UNCHANGED <<snapshot, work, backgroundDone>>
    PROVE  RefsStep
<1> USE DEF SessionInv
<1> DEFINE d == [s \in Snap |-> IF s = New THEN 2 ELSE 0]
<1>1. base \in Snap /\ refCount[base] > 0
  BY Alive DEF TypeOK
<1>2. /\ New \in Snap /\ refCount' = [s \in Snap |-> refCount'[s]] /\ DOMAIN refCount' = Snap
      /\ \A s \in Snap : refCount'[s] = refCount[s] + (IF s = New THEN 2 ELSE 0)
      /\ Steady
  BY <1>1, FreshCount
<1>3. \A s \in Snap : d[s] \in Int /\ refCount'[s] = refCount[s] + d[s]
  BY <1>2
<1>4. ASSUME NEW s \in Snap
      PROVE  Owed(s)' = Owed(s) + d[s] \/ (backgroundDone' /\ Owed(s)' <= Owed(s) + d[s])
  <2>1. Cardinality(Users(s)) \in Nat
    BY UsersFinite
  <2>2. Users(s)' = Users(s)
    BY DEF Users
  <2>3. /\ AdoptOf(s)' <=> (AdoptOf(s) \/ (s = New /\ ~backgroundDone))
        /\ (WarmOf(s)' <=> WarmOf(s)) /\ (WarmedOf(s)' <=> WarmedOf(s))
    BY <1>1, EnqueueAdopt
  <2>4. ~AdoptOf(New) /\ New \notin held
    BY NewFree
  <2>5. d[s] = IF s = New THEN 2 ELSE 0
    OBVIOUS
  <2>6. One(s \in held)' = One(s \in held) + (IF s = New THEN 1 ELSE 0)
    BY <2>4 DEF One
  <2> HIDE DEF d
  <2> QED
    BY <2>1, <2>2, <2>3, <2>4, <2>5, <2>6 DEF Owed, One
<1> HIDE DEF d
<1>5. RefsInv' /\ refCount' \in [Snap -> Nat]
  BY <1>2, <1>3, <1>4, Balanced
<1> QED
  BY <1>2, <1>5 DEF RefsStep

\* One reference of a snapshot is released.
LEMMA ReleaseOne ==
    ASSUME TypeOK, NEW b \in Snap, refCount[b] > 0, Counted([refCount EXCEPT ![b] = @ - 1], built)
    PROVE  /\ Steady
           /\ refCount' = [s \in Snap |-> refCount'[s]] /\ DOMAIN refCount' = Snap
           /\ \A s \in Snap : refCount'[s] = refCount[s] + (IF s = b THEN -1 ELSE 0)
           /\ \A s \in Snap : built'[s] = built[s] \/ built'[s] = Nothing
<1> DEFINE count == [refCount EXCEPT ![b] = @ - 1]
<1>1. /\ count \in [Snap -> Int] /\ \A s \in Snap : count[s] <= refCount[s]
      /\ \A s \in Snap : count[s] = refCount[s] + (IF s = b THEN -1 ELSE 0)
  BY DEF TypeOK
<1> HIDE DEF count
<1>2. Counted(count, built)
  BY DEF count
<1> QED
  BY <1>1, <1>2, ReleasedSteady

\* A worker releases its snapshot.
LEMMA WorkerReleaseRefs ==
    ASSUME SessionInv, NEW w \in Worker, WorkerReleases(w)
    PROVE  RefsStep
<1> USE DEF SessionInv
<1> DEFINE d == [s \in Snap |-> IF s = work[w].base THEN -1 ELSE 0]
<1>1. /\ work[w].at # "none" /\ Counted([refCount EXCEPT ![work[w].base] = @ - 1], built)
      /\ work' = [work EXCEPT ![w] = [at |-> "none"]]
      /\ UNCHANGED <<snapshot, held, tasks, backgroundDone>>
  BY DEF WorkerReleases, closeVars
<1>2. work[w].base \in Snap /\ refCount[work[w].base] > 0
  BY <1>1, Alive
<1>3. /\ Steady /\ refCount' = [s \in Snap |-> refCount'[s]] /\ DOMAIN refCount' = Snap
      /\ \A s \in Snap : d[s] \in Int /\ refCount'[s] = refCount[s] + d[s]
  BY <1>1, <1>2, ReleaseOne
<1>4. ASSUME NEW s \in Snap
      PROVE  Owed(s)' = Owed(s) + d[s]
  <2>1. Cardinality(Users(s)) \in Nat
    BY UsersFinite
  <2>2. Cardinality(Users(s)') = Cardinality(Users(s)) - (IF s = work[w].base THEN 1 ELSE 0)
    BY <1>1, UserGoes
  <2>3. (AdoptOf(s)' <=> AdoptOf(s)) /\ (WarmOf(s)' <=> WarmOf(s)) /\ (WarmedOf(s)' <=> WarmedOf(s))
    BY <1>1 DEF AdoptOf, WarmOf, WarmedOf
  <2>4. d[s] = IF s = work[w].base THEN -1 ELSE 0
    OBVIOUS
  <2> HIDE DEF d
  <2> QED
    BY <1>1, <2>1, <2>2, <2>3, <2>4 DEF Owed, One
<1> HIDE DEF d
<1>5. RefsInv' /\ refCount' \in [Snap -> Nat]
  BY <1>1, <1>3, <1>4, Balanced
<1> QED
  BY <1>3, <1>5 DEF RefsStep

\* The API releases a snapshot.
LEMMA APIReleaseRefs ==
    ASSUME SessionInv, NEW b \in held, APIReleases(b)
    PROVE  RefsStep
<1> USE DEF SessionInv
<1> DEFINE d == [s \in Snap |-> IF s = b THEN -1 ELSE 0]
<1>1. /\ Counted([refCount EXCEPT ![b] = @ - 1], built) /\ held' = held \ {b}
      /\ UNCHANGED <<snapshot, work, tasks, backgroundDone>>
  BY DEF APIReleases, closeVars
<1>2. b \in Snap /\ refCount[b] > 0
  BY Alive DEF TypeOK
<1>3. /\ Steady /\ refCount' = [s \in Snap |-> refCount'[s]] /\ DOMAIN refCount' = Snap
      /\ \A s \in Snap : d[s] \in Int /\ refCount'[s] = refCount[s] + d[s]
  BY <1>1, <1>2, ReleaseOne
<1>4. ASSUME NEW s \in Snap
      PROVE  Owed(s)' = Owed(s) + d[s]
  <2>1. Cardinality(Users(s)) \in Nat /\ Users(s)' = Users(s)
    BY <1>1, UsersFinite DEF Users
  <2>2. One(s \in held)' = One(s \in held) + d[s]
    BY <1>1 DEF One
  <2>3. (AdoptOf(s)' <=> AdoptOf(s)) /\ (WarmOf(s)' <=> WarmOf(s)) /\ (WarmedOf(s)' <=> WarmedOf(s))
    BY <1>1 DEF AdoptOf, WarmOf, WarmedOf
  <2> HIDE DEF d
  <2> QED
    BY <1>1, <1>3, <2>1, <2>2, <2>3 DEF Owed, One
<1> HIDE DEF d
<1>5. RefsInv' /\ refCount' \in [Snap -> Nat]
  BY <1>1, <1>3, <1>4, Balanced
<1> QED
  BY <1>3, <1>5 DEF RefsStep

\* Close releases the current snapshot.
LEMMA CloseSnapshotRefs ==
    ASSUME SessionInv, CloseSnapshot
    PROVE  RefsStep
<1> USE DEF SessionInv
<1> DEFINE d == [s \in Snap |-> IF s = snapshot THEN -1 ELSE 0]
<1>1. /\ Counted([refCount EXCEPT ![snapshot] = @ - 1], built) /\ snapshot' = None
      /\ UNCHANGED <<held, work, tasks, backgroundDone>>
      /\ snapshot \in Snap
  BY DEF CloseSnapshot, closeVars, PhaseInv, TypeOK
<1>2. refCount[snapshot] > 0 /\ None \notin Snap
  BY <1>1, Alive, SnapFacts
<1>3. /\ Steady /\ refCount' = [s \in Snap |-> refCount'[s]] /\ DOMAIN refCount' = Snap
      /\ \A s \in Snap : d[s] \in Int /\ refCount'[s] = refCount[s] + d[s]
  BY <1>1, <1>2, ReleaseOne
<1>4. ASSUME NEW s \in Snap
      PROVE  Owed(s)' = Owed(s) + d[s]
  <2>1. Cardinality(Users(s)) \in Nat /\ Users(s)' = Users(s)
    BY <1>1, UsersFinite DEF Users
  <2>2. One(snapshot = s)' = One(snapshot = s) + d[s]
    BY <1>1, <1>2 DEF One
  <2>3. (AdoptOf(s)' <=> AdoptOf(s)) /\ (WarmOf(s)' <=> WarmOf(s)) /\ (WarmedOf(s)' <=> WarmedOf(s))
    BY <1>1 DEF AdoptOf, WarmOf, WarmedOf
  <2> HIDE DEF d
  <2> QED
    BY <1>1, <1>3, <2>1, <2>2, <2>3 DEF Owed, One
<1> HIDE DEF d
<1>5. RefsInv' /\ refCount' \in [Snap -> Nat]
  BY <1>1, <1>3, <1>4, Balanced
<1> QED
  BY <1>3, <1>5 DEF RefsStep

\* The tasks that are to release a reference, when one of them is over, gets a
\* reference, or gets a clone.
LEMMA LosesAdopt ==
    ASSUME TypeOK, TasksInv, NEW t \in tasks, t.kind = "adopt", tasks' = tasks \ {t}, NEW s \in Snap
    PROVE  /\ AdoptOf(t.clone)
           /\ AdoptOf(s)' <=> (AdoptOf(s) /\ s # t.clone)
           /\ (WarmOf(s)' <=> WarmOf(s)) /\ (WarmedOf(s)' <=> WarmedOf(s))
<1>1. \A u \in tasks : u.kind = "adopt" /\ u.clone = t.clone => u = t
  BY DEF TasksInv, Apart
<1> QED
  BY <1>1 DEF AdoptOf, WarmOf, WarmedOf

\* A warming task ends with both of its references.
LEMMA LosesWarmed ==
    ASSUME TypeOK, TasksInv, NEW t \in tasks, t.kind = "warm", t.at = "adopt", tasks' = tasks \ {t}, NEW s \in Snap
    PROVE  /\ WarmOf(t.base) /\ WarmedOf(t.clone)
           /\ AdoptOf(s)' <=> AdoptOf(s)
           /\ WarmOf(s)' <=> (WarmOf(s) /\ s # t.base)
           /\ WarmedOf(s)' <=> (WarmedOf(s) /\ s # t.clone)
<1>1. \A u \in tasks : u.kind = "warm" /\ u.base = t.base => u = t
  BY DEF TasksInv, Apart
<1>2. \A u \in tasks : u.kind = "warm" /\ u.at = "adopt" /\ u.clone = t.clone => u = t
  BY DEF TasksInv, Apart
<1> QED
  BY <1>1, <1>2 DEF AdoptOf, WarmOf, WarmedOf

\* One that is canceled during its clone has the reference of its base.
LEMMA LosesWarm ==
    ASSUME TypeOK, TasksInv, NEW t \in tasks, t.kind = "warm", t.at = "clone", tasks' = tasks \ {t}, NEW s \in Snap
    PROVE  /\ WarmOf(t.base)
           /\ AdoptOf(s)' <=> AdoptOf(s)
           /\ WarmOf(s)' <=> (WarmOf(s) /\ s # t.base)
           /\ WarmedOf(s)' <=> WarmedOf(s)
<1>1. \A u \in tasks : u.kind = "warm" /\ u.base = t.base => u = t
  BY DEF TasksInv, Apart
<1> QED
  BY <1>1 DEF AdoptOf, WarmOf, WarmedOf

\* A warming task comes to a reference of its base.
LEMMA GetsReference ==
    ASSUME TypeOK, TasksInv, NEW t \in tasks, t.kind = "warm", t.at = "ref",
           NEW u, u.kind = "warm", u.at = "clone", u.base = t.base, tasks' = (tasks \ {t}) \cup {u}, NEW s \in Snap
    PROVE  /\ ~WarmOf(t.base)
           /\ AdoptOf(s)' <=> AdoptOf(s)
           /\ WarmOf(s)' <=> (WarmOf(s) \/ s = t.base)
           /\ WarmedOf(s)' <=> WarmedOf(s)
<1>1. \A v \in tasks : v.kind = "warm" /\ v.base = t.base => v = t
  BY DEF TasksInv, Apart
<1> QED
  BY <1>1 DEF AdoptOf, WarmOf, WarmedOf

\* A warming task comes to a clone.
LEMMA GetsClone ==
    ASSUME TypeOK, TasksInv, NEW t \in tasks, t.kind = "warm", t.at = "clone",
           NEW u, u.kind = "warm", u.at = "adopt", u.base = t.base, tasks' = (tasks \ {t}) \cup {u}, NEW s \in Snap
    PROVE  /\ AdoptOf(s)' <=> AdoptOf(s)
           /\ WarmOf(s)' <=> WarmOf(s)
           /\ WarmedOf(s)' <=> (WarmedOf(s) \/ s = u.clone)
  BY DEF AdoptOf, WarmOf, WarmedOf

\* tryRef counts what the warming task then owes.
LEMMA WarmRefRefs ==
    ASSUME SessionInv, NEW t \in tasks, WarmRefs(t), refCount[t.base] > 0,
           refCount' = [refCount EXCEPT ![t.base] = @ + 1], Move(t, [t EXCEPT !.at = "clone"])
    PROVE  RefsStep
<1> USE DEF SessionInv
<1> DEFINE d == [s \in Snap |-> IF s = t.base THEN 1 ELSE 0]
           u == [t EXCEPT !.at = "clone"]
<1>1. /\ t.kind = "warm" /\ t.at = "ref" /\ refCount' = [refCount EXCEPT ![t.base] = @ + 1]
      /\ tasks' = (tasks \ {t}) \cup {u}
      /\ UNCHANGED <<snapshot, built, held, work, backgroundDone>>
  BY DEF WarmRefs, Move, clientVars, closeVars
<1>2. t \in TaskType /\ t.base \in Snap
  BY <1>1, TaskFacts DEF TypeOK
<1>3. u.kind = "warm" /\ u.at = "clone" /\ u.base = t.base
  BY <1>1, <1>2, TaskMoves
<1> HIDE DEF u
<1>4. /\ refCount' = [s \in Snap |-> refCount'[s]] /\ DOMAIN refCount' = Snap
      /\ \A s \in Snap : refCount[s] \in Nat /\ d[s] \in Int /\ refCount'[s] = refCount[s] + d[s]
  <2>1. refCount \in [Snap -> Nat]
    BY DEF TypeOK
  <2>2. \A s \in Snap : refCount[s] \in Nat /\ refCount'[s] = refCount[s] + (IF s = t.base THEN 1 ELSE 0)
    BY <1>1, <1>2, <2>1
  <2>3. refCount' = [s \in Snap |-> refCount'[s]] /\ DOMAIN refCount' = Snap
    BY <1>1, <2>1
  <2>4. \A s \in Snap : d[s] = IF s = t.base THEN 1 ELSE 0
    OBVIOUS
  <2> HIDE DEF d
  <2> QED
    BY <2>2, <2>3, <2>4
<1>5. ASSUME NEW s \in Snap
      PROVE  Owed(s)' = Owed(s) + d[s]
  <2>1. Cardinality(Users(s)) \in Nat /\ Users(s)' = Users(s)
    BY <1>1, UsersFinite DEF Users
  <2>2. /\ ~WarmOf(t.base)
        /\ AdoptOf(s)' <=> AdoptOf(s)
        /\ WarmOf(s)' <=> (WarmOf(s) \/ s = t.base)
        /\ WarmedOf(s)' <=> WarmedOf(s)
    BY <1>1, <1>3, GetsReference
  <2>3. d[s] = IF s = t.base THEN 1 ELSE 0
    OBVIOUS
  <2> HIDE DEF d
  <2>4. One(WarmOf(s))' = One(WarmOf(s)) + d[s] /\ One(AdoptOf(s))' = One(AdoptOf(s))
    BY <2>2, <2>3 DEF One
  <2>5. /\ One(WarmedOf(s))' = One(WarmedOf(s)) /\ One(s \in held)' = One(s \in held)
        /\ One(snapshot = s)' = One(snapshot = s)
    BY <1>1, <2>2 DEF One
  <2>6. /\ One(snapshot = s) \in {0, 1} /\ One(AdoptOf(s)) \in {0, 1} /\ One(WarmOf(s)) \in {0, 1}
        /\ One(WarmedOf(s)) \in {0, 1} /\ One(s \in held) \in {0, 1} /\ d[s] \in Int
    BY <2>3 DEF One
  <2> QED
    BY <2>1, <2>4, <2>5, <2>6 DEF Owed
<1>6. Steady
  BY <1>1, <1>4 DEF Steady
<1> HIDE DEF d
<1>7. RefsInv' /\ refCount' \in [Snap -> Nat]
  BY <1>1, <1>4, <1>5, Balanced
<1> QED
  BY <1>6, <1>7 DEF RefsStep

\* A warming task has the reference of its clone.
LEMMA WarmCloneRefs ==
    ASSUME SessionInv, NEW t \in tasks, WarmClones(t), ~WarmDone(t)
    PROVE  RefsStep
<1> USE DEF SessionInv
<1> DEFINE d == [s \in Snap |-> IF s = New THEN 1 ELSE 0]
           u == [kind |-> "warm", at |-> "adopt", base |-> t.base, clone |-> New]
<1>1. /\ t.kind = "warm" /\ t.at = "clone" /\ Room /\ Counted([refCount EXCEPT ![New] = 1], Clone(t.base, {}, 0))
      /\ tasks' = (tasks \ {t}) \cup {u}
      /\ UNCHANGED <<snapshot, held, work, backgroundDone>>
  BY DEF WarmClones, Move, clientVars, closeVars
<1>2. Unused # {} /\ t.base \in Snap /\ refCount[t.base] > 0
  BY <1>1, RoomNew, TaskFacts, Alive DEF TypeOK
<1>3. u.kind = "warm" /\ u.at = "adopt" /\ u.base = t.base /\ u.clone = New
  OBVIOUS
<1> HIDE DEF u
<1>4. /\ New \in Snap /\ refCount' = [s \in Snap |-> refCount'[s]] /\ DOMAIN refCount' = Snap
      /\ \A s \in Snap : refCount'[s] = refCount[s] + (IF s = New THEN 1 ELSE 0)
      /\ Steady
  BY <1>1, <1>2, FreshCount
<1>5. \A s \in Snap : d[s] \in Int /\ refCount'[s] = refCount[s] + d[s]
  BY <1>4
<1>6. ASSUME NEW s \in Snap
      PROVE  Owed(s)' = Owed(s) + d[s]
  <2>1. Cardinality(Users(s)) \in Nat /\ Users(s)' = Users(s)
    BY <1>1, UsersFinite DEF Users
  <2>2. /\ AdoptOf(s)' <=> AdoptOf(s)
        /\ WarmOf(s)' <=> WarmOf(s)
        /\ WarmedOf(s)' <=> (WarmedOf(s) \/ s = New)
    BY <1>1, <1>3, GetsClone
  <2>3. ~WarmedOf(New)
    BY <1>2, NewFree
  <2>4. d[s] = IF s = New THEN 1 ELSE 0
    OBVIOUS
  <2> HIDE DEF d
  <2> QED
    BY <1>1, <2>1, <2>2, <2>3, <2>4 DEF Owed, One
<1> HIDE DEF d
<1>7. RefsInv' /\ refCount' \in [Snap -> Nat]
  BY <1>1, <1>4, <1>5, <1>6, Balanced
<1> QED
  BY <1>4, <1>7 DEF RefsStep

\* Canceled, it releases the reference of its base.
LEMMA WarmStopRefs ==
    ASSUME SessionInv, NEW t \in tasks, WarmClones(t), WarmDone(t)
    PROVE  /\ RefsStep
           /\ \A s \in Snap : built'[s] = built[s] \/ built'[s] = Nothing
<1> USE DEF SessionInv
<1> DEFINE count == [refCount EXCEPT ![t.base] = @ - 1]
           d == [s \in Snap |-> IF s = t.base THEN -1 ELSE 0]
<1>1. /\ t.kind = "warm" /\ t.at = "clone" /\ Counted(count, built) /\ tasks' = tasks \ {t}
      /\ UNCHANGED <<snapshot, held, work, backgroundDone>>
  BY DEF WarmClones, Finish, clientVars, closeVars
<1>2. t.base \in Snap
  BY <1>1, TaskFacts DEF TypeOK
<1>3. /\ count \in [Snap -> Int] /\ \A s \in Snap : count[s] <= refCount[s]
      /\ \A s \in Snap : refCount[s] \in Nat /\ d[s] \in Int /\ count[s] = refCount[s] + d[s]
  BY <1>2 DEF TypeOK
<1> HIDE DEF count
<1>4. /\ Steady /\ refCount' = count
      /\ \A s \in Snap : built'[s] = built[s] \/ built'[s] = Nothing
  BY <1>1, <1>3, ReleasedSteady
<1>5. refCount' = [s \in Snap |-> refCount'[s]] /\ DOMAIN refCount' = Snap
  BY <1>3, <1>4
<1>6. ASSUME NEW s \in Snap
      PROVE  Owed(s)' = Owed(s) + d[s]
  <2>1. Cardinality(Users(s)) \in Nat /\ Users(s)' = Users(s)
    BY <1>1, UsersFinite DEF Users
  <2>2. /\ WarmOf(t.base)
        /\ AdoptOf(s)' <=> AdoptOf(s)
        /\ WarmOf(s)' <=> (WarmOf(s) /\ s # t.base)
        /\ WarmedOf(s)' <=> WarmedOf(s)
    BY <1>1, LosesWarm
  <2>3. d[s] = IF s = t.base THEN -1 ELSE 0
    OBVIOUS
  <2> HIDE DEF d
  <2>4. One(WarmOf(s))' = One(WarmOf(s)) + d[s] /\ One(AdoptOf(s))' = One(AdoptOf(s))
    BY <2>2, <2>3 DEF One
  <2>5. /\ One(WarmedOf(s))' = One(WarmedOf(s)) /\ One(s \in held)' = One(s \in held)
        /\ One(snapshot = s)' = One(snapshot = s)
    BY <1>1, <2>2 DEF One
  <2>6. /\ One(snapshot = s) \in {0, 1} /\ One(AdoptOf(s)) \in {0, 1} /\ One(WarmOf(s)) \in {0, 1}
        /\ One(WarmedOf(s)) \in {0, 1} /\ One(s \in held) \in {0, 1} /\ d[s] \in Int
    BY <2>3 DEF One
  <2> QED
    BY <2>1, <2>4, <2>5, <2>6 DEF Owed
<1> HIDE DEF d
<1>7. RefsInv' /\ refCount' \in [Snap -> Nat]
  BY <1>1, <1>3, <1>4, <1>5, <1>6, Balanced
<1> QED
  BY <1>4, <1>7 DEF RefsStep

\* What adoptSnapshotChange makes of the counts: one reference is released of
\* the clone, or of the snapshot it replaces, and one of each in alsoDeref.
LEMMA AdoptionFacts ==
    ASSUME TypeOK, NEW base \in Snap, NEW clone \in Snap, NEW also, also \subseteq Snap,
           adoptSnapshotChange(base, clone, also)
    PROVE  /\ snapshot' = IF snapshot = base THEN clone ELSE snapshot
           /\ Steady
           /\ refCount' = [s \in Snap |-> refCount'[s]] /\ DOMAIN refCount' = Snap
           /\ \A s \in Snap : refCount'[s] = refCount[s]
                + ((IF s = (IF snapshot = base THEN base ELSE clone) THEN -1 ELSE 0)
                     + (IF s \in also THEN -1 ELSE 0))
           /\ \A s \in Snap : built'[s] = built[s] \/ built'[s] = Nothing
<1> DEFINE left == IF snapshot = base THEN base ELSE clone
           count == [s \in Snap |-> refCount[s] - (IF s = left THEN 1 ELSE 0)
                                              - (IF s \in also THEN 1 ELSE 0)]
<1>1. Counted(count, built) /\ snapshot' = IF snapshot = base THEN clone ELSE snapshot
  BY DEF adoptSnapshotChange, Adopting
<1>2. \A s \in Snap : refCount[s] \in Nat
  BY DEF TypeOK
<1>3. \A s \in Snap : count[s] = refCount[s] + ((IF s = left THEN -1 ELSE 0) + (IF s \in also THEN -1 ELSE 0))
  BY <1>2
<1>4. count = [s \in Snap |-> count[s]] /\ \A s \in Snap : count[s] \in Int /\ count[s] <= refCount[s]
  BY <1>2, <1>3
<1> HIDE DEF count
<1>5. count \in [Snap -> Int]
  BY <1>4
<1>6. /\ Steady /\ refCount' = count
      /\ \A s \in Snap : built'[s] = built[s] \/ built'[s] = Nothing
  BY <1>1, <1>4, <1>5, ReleasedSteady
<1> QED
  BY <1>1, <1>3, <1>5, <1>6

\* An adoption releases what is current no more, or the clone.
LEMMA AdoptRefs ==
    ASSUME SessionInv, NEW t \in tasks, Adopt(t)
    PROVE  RefsStep
<1> USE DEF SessionInv
<1> DEFINE left == IF snapshot = t.base THEN t.base ELSE t.clone
           d == [s \in Snap |-> IF s = left THEN -1 ELSE 0]
<1>1. /\ t.kind = "adopt" /\ adoptSnapshotChange(t.base, t.clone, {}) /\ tasks' = tasks \ {t}
      /\ UNCHANGED <<held, work, backgroundDone>>
  BY DEF Adopt, Finish, clientVars, closeVars
<1>2. t.base \in Snap /\ t.clone \in Snap /\ t.base # t.clone /\ {} \subseteq Snap
  BY <1>1, TaskFacts DEF TypeOK, BuiltInv, Cloned
<1>3. /\ snapshot' = IF snapshot = t.base THEN t.clone ELSE snapshot
      /\ Steady
      /\ refCount' = [s \in Snap |-> refCount'[s]] /\ DOMAIN refCount' = Snap
      /\ \A s \in Snap : refCount'[s] = refCount[s]
                + ((IF s = (IF snapshot = t.base THEN t.base ELSE t.clone) THEN -1 ELSE 0)
                     + (IF s \in {} THEN -1 ELSE 0))
  BY <1>1, <1>2, AdoptionFacts
<1>4. \A s \in Snap : refCount[s] \in Nat /\ d[s] \in Int /\ refCount'[s] = refCount[s] + d[s]
  BY <1>3 DEF TypeOK
<1>5. ASSUME NEW s \in Snap
      PROVE  Owed(s)' = Owed(s) + d[s]
  <2>1. Cardinality(Users(s)) \in Nat /\ Users(s)' = Users(s)
    BY <1>1, UsersFinite DEF Users
  <2>2. /\ AdoptOf(t.clone)
        /\ AdoptOf(s)' <=> (AdoptOf(s) /\ s # t.clone)
        /\ (WarmOf(s)' <=> WarmOf(s)) /\ (WarmedOf(s)' <=> WarmedOf(s))
    BY <1>1, LosesAdopt
  <2>3. One(AdoptOf(s))' = One(AdoptOf(s)) + (IF s = t.clone THEN -1 ELSE 0)
    BY <2>2 DEF One
  <2>4. d[s] = IF s = left THEN -1 ELSE 0
    OBVIOUS
  <2>5. One(snapshot = s)' = One(snapshot = s) + d[s] + (IF s = t.clone THEN 1 ELSE 0)
    BY <1>2, <1>3, <2>4 DEF One
  <2>6. One(snapshot = s) \in {0, 1} /\ One(AdoptOf(s)) \in {0, 1} /\ d[s] \in Int
    BY <1>4 DEF One
  <2> HIDE DEF d
  <2>7. One(WarmOf(s))' = One(WarmOf(s)) /\ One(WarmedOf(s))' = One(WarmedOf(s)) /\ One(s \in held)' = One(s \in held)
    BY <1>1, <2>2 DEF One
  <2>8. One(WarmOf(s)) \in {0, 1} /\ One(WarmedOf(s)) \in {0, 1} /\ One(s \in held) \in {0, 1}
    BY DEF One
  <2> QED
    BY <2>1, <2>3, <2>5, <2>6, <2>7, <2>8 DEF Owed
<1> HIDE DEF d
<1>6. RefsInv' /\ refCount' \in [Snap -> Nat]
  BY <1>1, <1>3, <1>4, <1>5, Balanced
<1> QED
  BY <1>3, <1>6 DEF RefsStep

\* At its end a warming task releases all that it has.
LEMMA WarmAdoptRefs ==
    ASSUME SessionInv, NEW t \in tasks, WarmAdopts(t)
    PROVE  /\ RefsStep
           /\ \/ UNCHANGED snapshot
              \/ snapshot = t.base /\ snapshot' = t.clone
           /\ \A s \in Snap : built'[s] = built[s] \/ built'[s] = Nothing
<1> USE DEF SessionInv
<1> DEFINE moves == snapshot = t.base
           left == IF moves THEN t.base ELSE t.clone
           d == [s \in Snap |-> (IF s = left THEN -1 ELSE 0) + (IF s = t.base THEN -1 ELSE 0)]
<1>1. /\ t.kind = "warm" /\ t.at = "adopt" /\ tasks' = tasks \ {t}
      /\ UNCHANGED <<held, work, backgroundDone>>
  BY DEF WarmAdopts, Finish, clientVars, closeVars
<1>2. t.base \in Snap /\ t.clone \in Snap /\ t.base # t.clone /\ {t.base} \subseteq Snap
  BY <1>1, TaskFacts DEF TypeOK, BuiltInv, Cloned
<1>3. /\ snapshot' = IF moves THEN t.clone ELSE snapshot
      /\ Steady
      /\ refCount' = [s \in Snap |-> refCount'[s]] /\ DOMAIN refCount' = Snap
      /\ \A s \in Snap : refCount'[s] = refCount[s]
                + ((IF s = left THEN -1 ELSE 0) + (IF s = t.base THEN -1 ELSE 0))
      /\ \A s \in Snap : built'[s] = built[s] \/ built'[s] = Nothing
  <2>1. adoptSnapshotChange(t.base, t.clone, {t.base})
    BY DEF WarmAdopts
  <2>2. /\ snapshot' = IF snapshot = t.base THEN t.clone ELSE snapshot
        /\ Steady
        /\ refCount' = [s \in Snap |-> refCount'[s]] /\ DOMAIN refCount' = Snap
        /\ \A s \in Snap : refCount'[s] = refCount[s]
              + ((IF s = (IF snapshot = t.base THEN t.base ELSE t.clone) THEN -1 ELSE 0)
                   + (IF s \in {t.base} THEN -1 ELSE 0))
        /\ \A s \in Snap : built'[s] = built[s] \/ built'[s] = Nothing
    BY <1>2, <2>1, AdoptionFacts
  <2> QED
    BY <2>2
<1>4. ASSUME NEW s \in Snap
      PROVE  /\ refCount[s] \in Nat /\ d[s] \in Int /\ refCount'[s] = refCount[s] + d[s]
             /\ d[s] = (IF s = left THEN -1 ELSE 0) + (IF s = t.base THEN -1 ELSE 0)
  <2>1. refCount[s] \in Nat
    BY DEF TypeOK
  <2>2. d[s] = (IF s = left THEN -1 ELSE 0) + (IF s = t.base THEN -1 ELSE 0)
    OBVIOUS
  <2> HIDE DEF d, left, moves
  <2> QED
    BY <1>3, <2>1, <2>2
<1>5. (moves => left = t.base /\ snapshot = t.base) /\ (~moves => left = t.clone)
  OBVIOUS
<1> HIDE DEF d, left, moves
<1>6. ASSUME NEW s \in Snap
      PROVE  Owed(s)' = Owed(s) + d[s]
  <2>1. Cardinality(Users(s)) \in Nat /\ Users(s)' = Users(s)
    BY <1>1, UsersFinite DEF Users
  <2>2. /\ WarmOf(t.base) /\ WarmedOf(t.clone)
        /\ AdoptOf(s)' <=> AdoptOf(s)
        /\ WarmOf(s)' <=> (WarmOf(s) /\ s # t.base)
        /\ WarmedOf(s)' <=> (WarmedOf(s) /\ s # t.clone)
    BY <1>1, LosesWarmed
  <2>3. One(WarmOf(s))' = One(WarmOf(s)) + (IF s = t.base THEN -1 ELSE 0)
    BY <2>2 DEF One
  <2>4. One(WarmedOf(s))' = One(WarmedOf(s)) + (IF s = t.clone THEN -1 ELSE 0)
    BY <2>2 DEF One
  <2>5. One(snapshot = s)' = One(snapshot = s) + (IF s = left THEN -1 ELSE 0) + (IF s = t.clone THEN 1 ELSE 0)
    BY <1>2, <1>3, <1>5 DEF One
  <2>6. One(AdoptOf(s))' = One(AdoptOf(s)) /\ One(s \in held)' = One(s \in held)
    BY <1>1, <2>2 DEF One
  <2>7. /\ One(snapshot = s) \in {0, 1} /\ One(AdoptOf(s)) \in {0, 1} /\ One(WarmOf(s)) \in {0, 1}
        /\ One(WarmedOf(s)) \in {0, 1} /\ One(s \in held) \in {0, 1}
    BY DEF One
  <2>8. d[s] = (IF s = left THEN -1 ELSE 0) + (IF s = t.base THEN -1 ELSE 0)
    BY <1>4
  <2> QED
    BY <2>1, <2>3, <2>4, <2>5, <2>6, <2>7, <2>8 DEF Owed
<1>7. RefsInv' /\ refCount' \in [Snap -> Nat]
  BY <1>1, <1>3, <1>4, <1>6, Balanced
<1> QED
  BY <1>3, <1>5, <1>7 DEF RefsStep

-----------------------------------------------------------------------------
(* What a step does to the snapshots.                                      *)

\* What an update's snapshot is built from.
Merged ==
    [changes |-> built[snapshot].changes \cup (updater.files \cup updater.ata),
     config |-> IF updater.config = 0 THEN built[snapshot].config ELSE updater.config]

\* A clone to be adopted was one before, or is built from what its base is.
Copies ==
    \A t \in tasks' : Cloned(t) =>
        t \in tasks \/ (t.base # t.clone /\ built'[t.clone] = built'[t.base])

\* The current snapshot stays, or an update or an adoption puts another in its
\* place, or the session is closed.
Onward ==
    \/ UNCHANGED snapshot
    \/ updater' = Free /\ snapshot \in Snap /\ snapshot' \in Snap /\ built'[snapshot'] = Merged
    \/ UNCHANGED updater /\ \E t \in tasks : Cloned(t) /\ snapshot = t.base /\ snapshot' = t.clone
    \/ snapshot' = None

\* Nothing else is built than copies and what updates merge.
Values ==
    \A s \in Snap :
        \/ built'[s] = Nothing
        \/ \E x \in Snap : built'[s] = built[x]
        \/ updater' = Free /\ snapshot \in Snap /\ built'[s] = Merged

HolderTypes ==
    /\ snapshot' \in Snap \cup {None} /\ held' \subseteq Snap
    /\ work' \in [Worker -> [at : {"none"}] \cup [at : {"run", "cloned"}, base : Snap]]
    /\ DOMAIN built' = Snap /\ built' = [s \in Snap |-> built'[s]]

SnapStep == RefsStep /\ Copies /\ Onward /\ Values /\ HolderTypes

\* A step that touches no snapshot, and no task with a reference.
LEMMA QuietStep ==
    ASSUME SessionInv, UNCHANGED <<snapVars, work, held>>, backgroundDone => backgroundDone',
           NEW D, NEW N, tasks' = (tasks \ D) \cup N,
           (\A t \in tasks \cap D : ~Bears(t)) \/ backgroundDone', \A t \in N : ~Bears(t)
    PROVE  SnapStep
<1>1. RefsInv' /\ Steady /\ Copies
  BY QuietRefs DEF Copies
<1>2. RefsStep
  BY <1>1 DEF RefsStep, SessionInv, TypeOK, snapVars
<1>3. Onward /\ Values
  BY DEF Onward, Values, snapVars
<1>4. HolderTypes
  BY DEF HolderTypes, SessionInv, TypeOK, snapVars
<1> QED
  BY <1>1, <1>2, <1>3, <1>4 DEF SnapStep

\* A task ends, or goes on as another.
LEMMA TaskStep ==
    ASSUME SessionInv, UNCHANGED <<snapVars, work, held>>, backgroundDone => backgroundDone',
           NEW t \in tasks, NEW u, tasks' = (tasks \ {t}) \cup {u}, ~Bears(t), ~Bears(u)
    PROVE  SnapStep
<1> DEFINE D == {t}
           N == {u}
<1>1. tasks' = (tasks \ D) \cup N
  OBVIOUS
<1>2. (\A x \in tasks \cap D : ~Bears(x)) /\ \A x \in N : ~Bears(x)
  OBVIOUS
<1> HIDE DEF D, N
<1> QED
  BY <1>1, <1>2, QuietStep

\* A task without a reference ends, or any when the queue drops it.
LEMMA FinishStep ==
    ASSUME SessionInv, UNCHANGED <<snapVars, work, held>>, backgroundDone => backgroundDone',
           NEW t \in tasks, Finish(t), ~Bears(t) \/ backgroundDone'
    PROVE  SnapStep
<1> DEFINE D == {t}
           N == {}
<1>1. tasks' = (tasks \ D) \cup N
  BY DEF Finish
<1>2. ((\A x \in tasks \cap D : ~Bears(x)) \/ backgroundDone') /\ \A x \in N : ~Bears(x)
  OBVIOUS
<1> HIDE DEF D, N
<1> QED
  BY <1>1, <1>2, QuietStep

\* Nothing happens to the tasks either.
LEMMA StillStep ==
    ASSUME SessionInv, UNCHANGED <<snapVars, work, held, tasks>>, backgroundDone => backgroundDone'
    PROVE  SnapStep
<1>1. tasks' = (tasks \ {}) \cup {} /\ \A t \in tasks \cap {} : ~Bears(t)
  OBVIOUS
<1> QED
  BY <1>1, QuietStep

\* Who has the lock finds a current snapshot.
LEMMA Updating ==
    ASSUME SessionInv, updater.by # None
    PROVE  snapshot \in Snap
  BY DEF SessionInv, PhaseInv, TypeOK, Free

\* An update, whoever makes it.
LEMMA UpdateStep ==
    ASSUME SessionInv, updater.by # None, NEW c \in {0, 1}, NEW done, updateSnapshot(c, done),
           \A t \in tasks \cap done : ~Bears(t), UNCHANGED backgroundDone, Referred(c)
    PROVE  SnapStep /\ updater' = Free
<1> USE DEF SessionInv
<1>1. snapshot \in Snap
  BY Updating
<1>2. RefsStep /\ Copies
  BY <1>1, UpdateRefs DEF Copies
<1>3. /\ New \in Snap /\ snapshot' = New /\ updater' = Free /\ built'[New] = Merged
      /\ \A s \in Snap \ {New} : built'[s] = built[s] \/ built'[s] = Nothing
  BY <1>1, UpdateFacts DEF Merged
<1>4. Onward
  BY <1>1, <1>3 DEF Onward
<1>5. Values
  BY <1>1, <1>3 DEF Values
<1>6. HolderTypes
  <2>1. built' = [s \in Snap |-> built'[s]] /\ DOMAIN built' = Snap
    BY DEF updateSnapshot, Counted
  <2>2. held' \subseteq Snap
    BY <1>3 DEF Referred, TypeOK
  <2>3. work' \in [Worker -> [at : {"none"}] \cup [at : {"run", "cloned"}, base : Snap]]
    <3>1. CASE UNCHANGED work
      BY <3>1 DEF TypeOK
    <3>2. ASSUME NEW w \in Worker, NEW a \in {"run", "cloned"},
                 work' = [work EXCEPT ![w] = [at |-> a, base |-> New]]
          PROVE  work' \in [Worker -> [at : {"none"}] \cup [at : {"run", "cloned"}, base : Snap]]
      <4>1. [at |-> a, base |-> New] \in [at : {"run", "cloned"}, base : Snap]
        BY <1>3
      <4> QED
        BY <3>2, <4>1 DEF TypeOK
    <3> QED
      BY <3>1, <3>2 DEF Referred
  <2> QED
    BY <1>3, <2>1, <2>2, <2>3 DEF HolderTypes
<1> QED
  BY <1>2, <1>3, <1>4, <1>5, <1>6 DEF SnapStep

\* A snapshot cloned without the lock.
LEMMA CloneStep ==
    ASSUME SessionInv, Unused # {}, NEW base \in Snap, refCount[base] > 0, NEW n \in {1, 2},
           Counted([refCount EXCEPT ![New] = n], Clone(base, {}, 0)), UNCHANGED snapshot, RefsStep,
           \A t \in tasks' : Cloned(t) => t \in tasks \/ (t.base = base /\ t.clone = New)
    PROVE  Copies /\ Onward /\ Values /\ DOMAIN built' = Snap /\ built' = [s \in Snap |-> built'[s]]
<1> USE DEF SessionInv
<1>1. /\ New \in Snap /\ New # base /\ built'[base] = built[base] /\ built'[New] = built[base]
      /\ \A s \in Snap \ {New} : built'[s] = IF refCount[s] = 0 THEN Nothing ELSE built[s]
  BY FreshCount
<1>2. Copies
  BY <1>1 DEF Copies
<1>3. Onward
  BY DEF Onward
<1>4. Values
  BY <1>1 DEF Values
<1>5. DOMAIN built' = Snap /\ built' = [s \in Snap |-> built'[s]]
  BY DEF Counted
<1> QED
  BY <1>2, <1>3, <1>4, <1>5

\* The steps that make, adopt and release snapshots, one by one.
LEMMA WorkerCloneStep ==
    ASSUME SessionInv, NEW w \in Worker, WorkerClones(w)
    PROVE  SnapStep
<1> USE DEF SessionInv
<1> DEFINE t0 == [kind |-> "adopt", base |-> work[w].base, clone |-> New, at |-> "start"]
<1>1. /\ work[w].at = "run" /\ Unused # {} /\ work' = [work EXCEPT ![w].at = "cloned"]
      /\ UNCHANGED <<snapshot, held, backgroundDone, queueClosed>>
  BY RoomNew DEF WorkerClones, closeVars
<1>2. work[w].base \in Snap /\ refCount[work[w].base] > 0
  BY <1>1, Alive
<1>3. HolderTypes <=> (DOMAIN built' = Snap /\ built' = [s \in Snap |-> built'[s]])
  <2>1. work[w] \in [at : {"run", "cloned"}, base : Snap]
    BY <1>1 DEF TypeOK
  <2>2. [work[w] EXCEPT !.at = "cloned"] \in [at : {"run", "cloned"}, base : Snap]
    BY <2>1
  <2>3. work' \in [Worker -> [at : {"none"}] \cup [at : {"run", "cloned"}, base : Snap]]
    BY <1>1, <2>2 DEF TypeOK
  <2> QED
    BY <1>1, <2>3 DEF HolderTypes, TypeOK
<1>4. ASSUME Counted([refCount EXCEPT ![New] = 1], Clone(work[w].base, {}, 0)), Enqueue({t0})
      PROVE  SnapStep
  <2>1. RefsStep
    BY <1>1, <1>4, WorkerCloneRefs
  <2>2. \A t \in tasks' : t \in tasks \/ t = t0
    BY <1>1, <1>2, <1>4, EnqueueAdopt
  <2>3. \A t \in tasks' : t \in tasks \/ (t.base = work[w].base /\ t.clone = New)
    BY <2>2
  <2>4. Copies /\ Onward /\ Values /\ DOMAIN built' = Snap /\ built' = [s \in Snap |-> built'[s]]
    BY <1>1, <1>2, <1>4, <2>1, <2>3, CloneStep
  <2> QED
    BY <1>3, <2>1, <2>4 DEF SnapStep
<1>5. ASSUME UNCHANGED <<refCount, built, tasks>>
      PROVE  SnapStep
  <2>1. RefsStep
    <3>1. \A s \in Snap : Users(s)' = Users(s)
      BY <1>1 DEF Users, TypeOK
    <3>2. ASSUME NEW s \in Snap PROVE Owed(s)' = Owed(s)
      <4>1. (AdoptOf(s)' <=> AdoptOf(s)) /\ (WarmOf(s)' <=> WarmOf(s)) /\ (WarmedOf(s)' <=> WarmedOf(s))
        BY <1>5 DEF AdoptOf, WarmOf, WarmedOf
      <4> QED
        BY <1>1, <3>1, <4>1 DEF Owed, One
    <3>3. RefsInv' /\ Steady
      BY <1>1, <1>5, <3>2 DEF RefsInv, Steady
    <3> QED
      BY <1>5, <3>3 DEF RefsStep, TypeOK
  <2>2. Copies /\ Onward /\ Values
    BY <1>1, <1>5 DEF Copies, Onward, Values
  <2>3. DOMAIN built' = Snap /\ built' = [s \in Snap |-> built'[s]]
    BY <1>5 DEF TypeOK
  <2> QED
    BY <1>3, <2>1, <2>2, <2>3 DEF SnapStep
<1> QED
  BY <1>4, <1>5 DEF WorkerClones

\* The API clones a snapshot that it has.
LEMMA APIPrepareStep ==
    ASSUME SessionInv, NEW base \in held, APIPrepares(base)
    PROVE  SnapStep
<1> USE DEF SessionInv
<1> DEFINE t0 == [kind |-> "adopt", base |-> base, clone |-> New, at |-> "start"]
<1>1. /\ Unused # {} /\ Counted([refCount EXCEPT ![New] = 2], Clone(base, {}, 0))
      /\ held' = held \cup {New} /\ Enqueue({t0})
      /\ UNCHANGED <<snapshot, work, backgroundDone, queueClosed>>
  BY RoomNew DEF APIPrepares, closeVars
<1>2. base \in Snap /\ refCount[base] > 0 /\ New \in Snap
  BY <1>1, Alive, NewFree DEF TypeOK
<1>3. RefsStep
  BY <1>1, APIPrepareRefs
<1>4. \A t \in tasks' : t \in tasks \/ t = t0
  BY <1>1, <1>2, EnqueueAdopt
<1>5. \A t \in tasks' : t \in tasks \/ (t.base = base /\ t.clone = New)
  BY <1>4
<1>6. Copies /\ Onward /\ Values /\ DOMAIN built' = Snap /\ built' = [s \in Snap |-> built'[s]]
  BY <1>1, <1>2, <1>3, <1>5, CloneStep
<1>7. HolderTypes
  BY <1>1, <1>2, <1>6 DEF HolderTypes, TypeOK
<1> QED
  BY <1>3, <1>6, <1>7 DEF SnapStep

\* A reference is released: what is built stays, or goes with its snapshot.
LEMMA ReleaseStep ==
    ASSUME SessionInv, RefsStep, NEW from, Counted(from, built), Onward,
           \A s \in Snap : built'[s] = built[s] \/ built'[s] = Nothing,
           \A t \in tasks' : Cloned(t) => t \in tasks,
           snapshot' \in Snap \cup {None}, held' \subseteq held,
           work' = work \/ \E w \in Worker : work' = [work EXCEPT ![w] = [at |-> "none"]]
    PROVE  SnapStep
<1> USE DEF SessionInv
<1>1. Copies /\ Values
  BY DEF Copies, Values
<1>2. work' \in [Worker -> [at : {"none"}] \cup [at : {"run", "cloned"}, base : Snap]]
  BY DEF TypeOK
<1>3. DOMAIN built' = Snap /\ built' = [s \in Snap |-> built'[s]]
  BY DEF Counted
<1>4. HolderTypes
  BY <1>2, <1>3 DEF HolderTypes, TypeOK
<1> QED
  BY <1>1, <1>4 DEF SnapStep

\* A worker is done with its snapshot.
LEMMA WorkerReleaseStep ==
    ASSUME SessionInv, NEW w \in Worker, WorkerReleases(w)
    PROVE  SnapStep
<1> USE DEF SessionInv
<1>1. /\ work[w].at # "none" /\ Counted([refCount EXCEPT ![work[w].base] = @ - 1], built)
      /\ work' = [work EXCEPT ![w] = [at |-> "none"]]
      /\ UNCHANGED <<snapshot, held, tasks, backgroundDone>>
  BY DEF WorkerReleases, closeVars
<1>2. RefsStep
  BY WorkerReleaseRefs
<1>3. work[w].base \in Snap /\ refCount[work[w].base] > 0
  BY <1>1, Alive
<1>4. \A s \in Snap : built'[s] = built[s] \/ built'[s] = Nothing
  BY <1>1, <1>3, ReleaseOne
<1>5. Onward /\ snapshot' \in Snap \cup {None}
  BY <1>1 DEF Onward, TypeOK
<1> QED
  BY <1>1, <1>2, <1>4, <1>5, ReleaseStep

\* The API is done with a snapshot.
LEMMA APIReleaseStep ==
    ASSUME SessionInv, NEW b \in held, APIReleases(b)
    PROVE  SnapStep
<1> USE DEF SessionInv
<1>1. /\ Counted([refCount EXCEPT ![b] = @ - 1], built) /\ held' = held \ {b}
      /\ UNCHANGED <<snapshot, work, tasks, backgroundDone>>
  BY DEF APIReleases, closeVars
<1>2. RefsStep
  BY APIReleaseRefs
<1>3. b \in Snap /\ refCount[b] > 0
  BY Alive DEF TypeOK
<1>4. \A s \in Snap : built'[s] = built[s] \/ built'[s] = Nothing
  BY <1>1, <1>3, ReleaseOne
<1>5. Onward /\ snapshot' \in Snap \cup {None}
  BY <1>1 DEF Onward, TypeOK
<1> QED
  BY <1>1, <1>2, <1>4, <1>5, ReleaseStep

\* The session ends.
LEMMA CloseSnapshotStep ==
    ASSUME SessionInv, CloseSnapshot
    PROVE  SnapStep
<1> USE DEF SessionInv
<1>1. /\ Counted([refCount EXCEPT ![snapshot] = @ - 1], built) /\ snapshot' = None
      /\ UNCHANGED <<held, work, tasks, backgroundDone>> /\ snapshot \in Snap
  BY DEF CloseSnapshot, closeVars, PhaseInv, TypeOK
<1>2. RefsStep
  BY CloseSnapshotRefs
<1>3. refCount[snapshot] > 0
  BY <1>1, Alive
<1>4. \A s \in Snap : built'[s] = built[s] \/ built'[s] = Nothing
  BY <1>1, <1>3, ReleaseOne
<1>5. Onward
  BY <1>1 DEF Onward
<1> QED
  BY <1>1, <1>2, <1>4, <1>5, ReleaseStep

\* A clone is adopted, or released.
LEMMA AdoptStep ==
    ASSUME SessionInv, NEW t \in tasks, Adopt(t)
    PROVE  SnapStep
<1> USE DEF SessionInv
<1>1. /\ t.kind = "adopt" /\ adoptSnapshotChange(t.base, t.clone, {}) /\ tasks' = tasks \ {t}
      /\ UNCHANGED <<held, work, backgroundDone, updater>>
  BY DEF Adopt, Finish, clientVars, closeVars
<1>2. t.base \in Snap /\ t.clone \in Snap /\ {} \subseteq Snap /\ Cloned(t)
  BY <1>1, TaskFacts DEF TypeOK, Cloned
<1>3. /\ snapshot' = IF snapshot = t.base THEN t.clone ELSE snapshot
      /\ \A s \in Snap : built'[s] = built[s] \/ built'[s] = Nothing
  BY <1>1, <1>2, AdoptionFacts
<1>4. PICK from : Counted(from, built)
  BY <1>1 DEF adoptSnapshotChange
<1>5. RefsStep
  BY AdoptRefs
<1>6. Onward
  BY <1>1, <1>2, <1>3 DEF Onward
<1>7. snapshot' \in Snap \cup {None}
  BY <1>2, <1>3 DEF TypeOK
<1> QED
  BY <1>1, <1>3, <1>4, <1>5, <1>6, <1>7, ReleaseStep

\* A warmed clone is adopted, or released.
LEMMA WarmAdoptStep ==
    ASSUME SessionInv, NEW t \in tasks, WarmAdopts(t)
    PROVE  SnapStep
<1> USE DEF SessionInv
<1>1. /\ t.kind = "warm" /\ t.at = "adopt" /\ tasks' = tasks \ {t}
      /\ UNCHANGED <<held, work, backgroundDone, updater>>
  BY DEF WarmAdopts, Finish, clientVars, closeVars
<1>2. t.base \in Snap /\ t.clone \in Snap /\ Cloned(t)
  BY <1>1, TaskFacts DEF TypeOK, Cloned
<1>3. /\ RefsStep
      /\ UNCHANGED snapshot \/ (snapshot = t.base /\ snapshot' = t.clone)
      /\ \A s \in Snap : built'[s] = built[s] \/ built'[s] = Nothing
  BY WarmAdoptRefs
<1>4. PICK from : Counted(from, built)
  BY DEF adoptSnapshotChange, WarmAdopts
<1>5. Onward
  BY <1>1, <1>2, <1>3 DEF Onward
<1>6. snapshot' \in Snap \cup {None}
  BY <1>2, <1>3 DEF TypeOK
<1> QED
  BY <1>1, <1>3, <1>4, <1>5, <1>6, ReleaseStep

\* A warming task takes a reference, if the snapshot lives.
LEMMA WarmRefStep ==
    ASSUME SessionInv, NEW t \in tasks, WarmRefs(t)
    PROVE  SnapStep
<1> USE DEF SessionInv
<1>1. t.kind = "warm" /\ t.at = "ref" /\ UNCHANGED <<snapshot, built, held, work, backgroundDone>>
  BY DEF WarmRefs, clientVars, closeVars
<1>2. CASE Finish(t) /\ UNCHANGED refCount
  <2>1. UNCHANGED <<snapVars, work, held>> /\ ~Bears(t)
    BY <1>1, <1>2 DEF snapVars, Bears
  <2> HIDE DEF SessionInv
  <2> QED
    BY <1>1, <1>2, <2>1, FinishStep
<1>3. CASE /\ refCount[t.base] > 0 /\ refCount' = [refCount EXCEPT ![t.base] = @ + 1]
           /\ Move(t, [t EXCEPT !.at = "clone"])
  <2> DEFINE u == [t EXCEPT !.at = "clone"]
  <2>1. tasks' = (tasks \ {t}) \cup {u}
    BY <1>3 DEF Move
  <2>2. u.kind = "warm" /\ u.at = "clone"
    BY <1>1, TaskMoves DEF TypeOK
  <2> HIDE DEF u
  <2>3. Copies
    BY <2>1, <2>2 DEF Copies, Cloned
  <2>4. RefsStep
    BY <1>3, WarmRefRefs
  <2>5. Onward /\ Values /\ HolderTypes
    BY <1>1 DEF Onward, Values, HolderTypes, TypeOK
  <2> QED
    BY <2>3, <2>4, <2>5 DEF SnapStep
<1> QED
  BY <1>2, <1>3 DEF WarmRefs

\* A warming task clones its snapshot.
LEMMA WarmCloneStep ==
    ASSUME SessionInv, NEW t \in tasks, WarmClones(t), ~WarmDone(t)
    PROVE  SnapStep
<1> USE DEF SessionInv
<1> DEFINE u == [kind |-> "warm", at |-> "adopt", base |-> t.base, clone |-> New]
<1>1. /\ t.kind = "warm" /\ t.at = "clone" /\ Room /\ Counted([refCount EXCEPT ![New] = 1], Clone(t.base, {}, 0))
      /\ tasks' = (tasks \ {t}) \cup {u}
      /\ UNCHANGED <<snapshot, held, work>>
  BY DEF WarmClones, Move, clientVars
<1>2. Unused # {} /\ t.base \in Snap /\ refCount[t.base] > 0
  BY <1>1, RoomNew, TaskFacts, Alive DEF TypeOK
<1>3. \A v \in tasks' : v \in tasks \/ (v.base = t.base /\ v.clone = New)
  BY <1>1
<1>4. RefsStep
  BY WarmCloneRefs
<1>5. Copies /\ Onward /\ Values /\ DOMAIN built' = Snap /\ built' = [s \in Snap |-> built'[s]]
  BY <1>1, <1>2, <1>3, <1>4, CloneStep
<1>6. HolderTypes
  BY <1>1, <1>5 DEF HolderTypes, TypeOK
<1> QED
  BY <1>4, <1>5, <1>6 DEF SnapStep

\* A canceled one gives up its clone.
LEMMA WarmStopStep ==
    ASSUME SessionInv, NEW t \in tasks, WarmClones(t), WarmDone(t)
    PROVE  SnapStep
<1> USE DEF SessionInv
<1>1. /\ t.kind = "warm" /\ tasks' = tasks \ {t}
      /\ UNCHANGED <<snapshot, held, work, backgroundDone, updater>>
  BY DEF WarmClones, Finish, clientVars, closeVars
<1>2. RefsStep /\ \A s \in Snap : built'[s] = built[s] \/ built'[s] = Nothing
  BY WarmStopRefs
<1>3. PICK from : Counted(from, built)
  BY DEF WarmClones
<1>4. Onward
  BY <1>1, <1>2 DEF Onward
<1>5. snapshot' \in Snap \cup {None}
  BY <1>1 DEF TypeOK
<1> QED
  BY <1>1, <1>2, <1>3, <1>4, <1>5, ReleaseStep

\* A request gets a new snapshot, or the current one.
LEMMA RequestGetStep ==
    ASSUME SessionInv, NEW w \in Worker \cup {None}, w # None => work[w].at = "none", RequestGets(w)
    PROVE  SnapStep
<1> USE DEF SessionInv
<1> DEFINE a == IF updater.by = "request" THEN "run" ELSE "cloned"
<1>0. /\ updater.by # None /\ UNCHANGED <<held, backgroundDone>> /\ a \in {"run", "cloned"}
      /\ work' = IF w = None THEN work ELSE [work EXCEPT ![w] = [at |-> a, base |-> snapshot']]
  BY SessionAssumption DEF RequestGets, closeVars, Locker
<1> HIDE DEF a
<1>1. snapshot \in Snap
  BY <1>0, Updating
<1>2. CASE updateSnapshot(IF w = None THEN 0 ELSE 1, {})
  <2>1. snapshot' = New
    BY <1>2 DEF updateSnapshot
  <2>2. CASE w = None
    <3>1. updateSnapshot(0, {}) /\ Referred(0)
      BY <1>0, <1>2, <2>2 DEF Referred
    <3> QED
      BY <1>0, <3>1, UpdateStep
  <2>3. CASE w # None
    <3>1. updateSnapshot(1, {}) /\ Referred(1)
      BY <1>0, <1>2, <2>1, <2>3 DEF Referred
    <3> QED
      BY <1>0, <3>1, UpdateStep
  <2> QED
    BY <2>2, <2>3
<1>3. CASE /\ UNCHANGED <<snapshot, built, tasks>>
           /\ refCount' = IF w = None THEN refCount ELSE [refCount EXCEPT ![snapshot] = @ + 1]
  <2>1. CASE w = None
    BY <1>0, <1>3, <2>1, StillStep DEF snapVars
  <2>2. CASE w # None
    <3>1. RefsStep
      BY <1>0, <1>1, <1>3, <2>2, TakeRefs
    <3>2. Copies /\ Onward /\ Values
      BY <1>3 DEF Copies, Onward, Values
    <3>3. work' \in [Worker -> [at : {"none"}] \cup [at : {"run", "cloned"}, base : Snap]]
      <4>1. work' = [work EXCEPT ![w] = [at |-> a, base |-> snapshot]]
        BY <1>0, <1>3, <2>2
      <4>2. [at |-> a, base |-> snapshot] \in [at : {"run", "cloned"}, base : Snap]
        BY <1>0, <1>1
      <4> QED
        BY <4>1, <4>2 DEF TypeOK
    <3>4. HolderTypes
      BY <1>0, <1>3, <3>3 DEF HolderTypes, TypeOK
    <3> QED
      BY <3>1, <3>2, <3>4 DEF SnapStep
  <2> QED
    BY <2>1, <2>2
<1> QED
  BY <1>2, <1>3 DEF RequestGets

\* Every step, by what it does to the snapshots.
LEMMA SnapSteps ==
    ASSUME SessionInv, [Next]_vars
    PROVE  SnapStep
<1>1. ASSUME UNCHANGED <<snapVars, work, held, tasks>>, backgroundDone => backgroundDone'
      PROVE  SnapStep
  BY <1>1, StillStep
<1>2. CASE \/ DidOpenFile \/ OpenLocks \/ Notify \/ WatcherNotes \/ Configure \/ RequestLocks \/ Shutdown
           \/ APIUpdate \/ Flush \/ APIFails \/ Close \/ closeIdleCacheClean
  BY <1>1, <1>2 DEF DidOpenFile, OpenLocks, Notify, WatcherNotes, Configure, RequestLocks, getSnapshot, Shutdown,
        APIUpdate, Flush, APIFails, Close, closeIdleCacheClean, clientVars, closeVars
<1>3. CASE CloseQueue \/ Over \/ UNCHANGED vars
  BY <1>1, <1>3 DEF CloseQueue, Over, vars, clientVars, closeVars
<1>4. CASE OpenUpdates \/ APIAgain
  <2>1. updater.by # None /\ updateSnapshot(0, {}) /\ UNCHANGED <<work, held, backgroundDone>>
    BY <1>4, SessionAssumption DEF OpenUpdates, APIAgain, clientVars, closeVars, Locker
  <2>2. Referred(0)
    BY <2>1 DEF Referred
  <2> QED
    BY <2>1, <2>2, UpdateStep
<1>5. CASE APISucceeds
  <2>1. updater.by # None /\ updateSnapshot(1, {}) /\ UNCHANGED <<work, backgroundDone>> /\ held' = held \cup {New}
    BY <1>5, SessionAssumption DEF APISucceeds, closeVars, Locker
  <2>2. Referred(1)
    BY <2>1 DEF Referred
  <2> QED
    BY <2>1, <2>2, UpdateStep
<1>6. CASE RequestAnswered
  BY <1>6, RequestGetStep DEF RequestAnswered
<1>7. CASE DispatchSchedules \/ WatcherSchedules
  <2> DEFINE N == IF queueClosed \/ backgroundDone THEN {}
                  ELSE {[kind |-> "scheduled", gen |-> generation', at |-> "wait"]}
  <2>1. UNCHANGED <<snapVars, work, held, backgroundDone>> /\ tasks' = (tasks \ {}) \cup N
    BY <1>7 DEF DispatchSchedules, WatcherSchedules, ScheduleSnapshotUpdate, Enqueue, closeVars
  <2>2. (\A t \in N : ~Bears(t)) /\ \A t \in tasks \cap {} : ~Bears(t)
    BY DEF Bears
  <2> HIDE DEF N
  <2> QED
    BY <2>1, <2>2, QuietStep
<1>8. CASE IdleFires
  <2> DEFINE N == {[kind |-> "idle", timer |-> idle.timer, at |-> "clear"]}
  <2>1. UNCHANGED <<snapVars, work, held, backgroundDone>> /\ tasks' = (tasks \ {}) \cup N
    BY <1>8 DEF IdleFires, clientVars, closeVars
  <2>2. (\A t \in N : ~Bears(t)) /\ \A t \in tasks \cap {} : ~Bears(t)
    BY DEF Bears
  <2> HIDE DEF N
  <2> QED
    BY <2>1, <2>2, QuietStep
<1>9. ASSUME NEW w \in Worker, WorkerReleases(w) PROVE SnapStep
  BY <1>9, WorkerReleaseStep
<1>10. ASSUME NEW s \in held, APIReleases(s) \/ APIPrepares(s) PROVE SnapStep
  BY <1>10, APIReleaseStep, APIPrepareStep
<1>11. ASSUME NEW w \in Worker, WorkerClones(w) PROVE SnapStep
  BY <1>11, WorkerCloneStep
<1>12. CASE CloseSnapshot
  BY <1>12, CloseSnapshotStep
<1>13. ASSUME NEW t \in tasks, Task(t) PROVE SnapStep
  <2>0. t \in TaskType
    BY DEF SessionInv, TypeOK
  <2>1. ASSUME NEW u, Move(t, u), ~Bears(t), ~Bears(u), UNCHANGED <<snapVars, work, held, backgroundDone>>
        PROVE  SnapStep
    BY <2>1, TaskStep DEF Move
  <2>2. ASSUME NEW a, Move(t, [t EXCEPT !.at = a]), t.kind \in {"idle", "scheduled"},
               UNCHANGED <<snapVars, work, held, backgroundDone>>
        PROVE  SnapStep
    <3> DEFINE u == [t EXCEPT !.at = a]
    <3>1. ~Bears(t) /\ ~Bears(u)
      BY <2>0, <2>2, TaskMoves DEF Bears
    <3>2. Move(t, u)
      BY <2>2
    <3> HIDE DEF u
    <3> QED
      BY <2>1, <2>2, <3>1, <3>2
  <2>3. ASSUME Finish(t), ~Bears(t), UNCHANGED <<snapVars, work, held, backgroundDone>>
        PROVE  SnapStep
    BY <2>3, FinishStep
  <2>4. CASE IdleClears(t)
    BY <2>2, <2>4 DEF IdleClears, clientVars, closeVars
  <2>5. CASE IdleLocks(t)
    BY <2>2, <2>5 DEF IdleLocks, clientVars, closeVars
  <2>6. CASE ScheduledLocks(t)
    BY <2>2, <2>6 DEF ScheduledLocks, clientVars, closeVars
  <2>7. CASE ScheduledWakes(t)
    <3>1. t.kind = "scheduled" /\ ~Bears(t) /\ UNCHANGED <<snapVars, work, held, backgroundDone>>
      BY <2>7 DEF ScheduledWakes, clientVars, closeVars, Bears
    <3> QED
      BY <2>2, <2>3, <2>7, <3>1 DEF ScheduledWakes
  <2>8. CASE ATADone(t)
    <3>1. ~Bears(t) /\ Finish(t) /\ UNCHANGED <<snapVars, work, held, backgroundDone>>
      BY <2>8 DEF ATADone, clientVars, closeVars, Bears
    <3> QED
      BY <2>3, <3>1
  <2>9. CASE WarmStarts(t)
    <3>1. t.kind = "warm" /\ t.at = "start" /\ ~Bears(t) /\ UNCHANGED <<snapVars, work, held, backgroundDone>>
      BY <2>9 DEF WarmStarts, clientVars, closeVars, Bears
    <3>2. CASE Finish(t)
      BY <2>3, <3>1, <3>2
    <3>3. CASE Move(t, [t EXCEPT !.at = "ref"])
      <4> DEFINE u == [t EXCEPT !.at = "ref"]
      <4>1. Move(t, u)
        BY <3>3
      <4>2. u.at = "ref" /\ u.kind = "warm"
        BY <2>0, <3>1, TaskMoves
      <4> HIDE DEF u
      <4>3. ~Bears(u)
        BY <4>2 DEF Bears
      <4> QED
        BY <2>1, <3>1, <4>1, <4>3
    <3> QED
      BY <2>9, <3>2, <3>3 DEF WarmStarts
  <2>10. CASE TaskDropped(t)
    <3>1. Finish(t) /\ UNCHANGED <<snapVars, work, held, backgroundDone>> /\ backgroundDone'
      BY <2>10 DEF TaskDropped, clientVars, closeVars
    <3> QED
      BY <3>1, FinishStep
  <2>11. CASE ScheduledUpdates(t)
    <3>1. t.kind = "scheduled" /\ ~Bears(t) /\ updater.by # None /\ UNCHANGED <<work, held, backgroundDone>>
      BY <2>11, SessionAssumption DEF ScheduledUpdates, clientVars, closeVars, Bears, Locker
    <3>2. CASE Finish(t) /\ UNCHANGED snapVars
      BY <2>3, <3>1, <3>2
    <3>3. CASE updateSnapshot(0, {t})
      <4>1. Referred(0) /\ \A u \in tasks \cap {t} : ~Bears(u)
        BY <3>1 DEF Referred
      <4> QED
        BY <3>1, <3>3, <4>1, UpdateStep
    <3> QED
      BY <2>11, <3>2, <3>3 DEF ScheduledUpdates
  <2>12. CASE IdleUpdates(t)
    <3>1. /\ t.kind = "idle" /\ ~Bears(t) /\ updater.by # None /\ UNCHANGED <<work, held, backgroundDone>>
          /\ updateSnapshot(0, {t})
      BY <2>12, SessionAssumption DEF IdleUpdates, clientVars, closeVars, Bears, Locker
    <3>2. Referred(0) /\ \A u \in tasks \cap {t} : ~Bears(u)
      BY <3>1 DEF Referred
    <3> QED
      BY <3>1, <3>2, UpdateStep
  <2> QED
    BY <1>13, <2>4, <2>5, <2>6, <2>7, <2>8, <2>9, <2>10, <2>11, <2>12,
       AdoptStep, WarmRefStep, WarmCloneStep, WarmStopStep, WarmAdoptStep DEF Task
<1> QED
  BY <1>2, <1>3, <1>4, <1>5, <1>6, <1>7, <1>8, <1>9, <1>10, <1>11, <1>12, <1>13 DEF Next, Going

-----------------------------------------------------------------------------
(* What a step does to the tasks and the idle timer.                       *)

IdleTasks == {t \in tasks : t.kind = "idle"}

TaskSet == IsFiniteSet(tasks) /\ (\A t \in tasks : t \in TaskType) /\ TasksInv

IdleInv ==
    /\ idle \in [timer : Nat, armed : BOOLEAN, wg : Nat, closed : BOOLEAN]
    /\ idle.wg = Cardinality(IdleTasks) + One(idle.armed)
    /\ TimerInv

\* Armed timers and callbacks on their way are what the group counts.
LEMMA IdleFinite ==
    ASSUME SessionInv
    PROVE  /\ IsFiniteSet(IdleTasks) /\ Cardinality(IdleTasks) \in Nat
           /\ idle.wg = Cardinality(IdleTasks) + One(idle.armed)
<1>1. IdleTasks \subseteq tasks /\ IsFiniteSet(tasks)
  BY DEF IdleTasks, SessionInv, TypeOK
<1> QED
  BY <1>1, FS_Subset, FS_CardinalityType DEF SessionInv, TypeOK, IdleTasks, One

\* Other tasks do not concern the timer.
LEMMA IdleKept ==
    ASSUME SessionInv, UNCHANGED idle, NEW D, NEW N, tasks' = (tasks \ D) \cup N,
           \A t \in (tasks \cap D) \cup N : t.kind # "idle"
    PROVE  IdleInv'
<1> USE DEF SessionInv
<1>1. IdleTasks' = IdleTasks
  BY DEF IdleTasks
<1>2. TimerInv'
  BY DEF TimerInv
<1>3. idle.wg = Cardinality(IdleTasks) + One(idle.armed)
  BY DEF TypeOK, IdleTasks, One
<1> QED
  BY <1>1, <1>2, <1>3 DEF IdleInv, TypeOK

\* Tasks only end.
LEMMA TasksEnd ==
    ASSUME SessionInv, tasks' \subseteq tasks
    PROVE  TaskSet'
<1> USE DEF SessionInv
<1>1. IsFiniteSet(tasks')
  BY FS_Subset DEF TypeOK
<1>2. (\A t \in tasks' : t \in TaskType) /\ TasksInv'
  BY DEF TypeOK, TasksInv, Apart
<1> QED
  BY <1>1, <1>2 DEF TaskSet

\* One goes on, or comes.
LEMMA TaskComes ==
    ASSUME SessionInv, NEW D, NEW u, tasks' = (tasks \ D) \cup {u}, u \in TaskType,
           \A t \in tasks \ D : Apart(u, t) /\ Apart(t, u)
    PROVE  TaskSet'
<1> USE DEF SessionInv
<1> DEFINE N == {u}
<1>1. IsFiniteSet(N) /\ \A n \in N : n \in TaskType
  BY FS_Singleton
<1>2. Apart(u, u)
  BY DEF Apart
<1>3. \A n \in N : \A t \in (tasks \ D) \cup N : Apart(n, t) /\ Apart(t, n)
  BY <1>2
<1>4. tasks' = (tasks \ D) \cup N
  OBVIOUS
<1> HIDE DEF N
<1> QED
  BY <1>1, <1>3, <1>4, TasksBy DEF TaskSet

\* What an update leaves is of no other task's snapshot.
LEMMA UpdateTasks ==
    ASSUME SessionInv, updater.by # None, NEW c \in {0, 1}, NEW done, updateSnapshot(c, done)
    PROVE  /\ TaskSet'
           /\ (UNCHANGED idle /\ \A t \in tasks \cap done : t.kind # "idle") => IdleInv'
<1> USE DEF SessionInv
<1>1. PICK N : tasks' = (tasks \ done) \cup N /\ N \subseteq AfterUpdate(TRUE)
  BY Updating, UpdateFacts
<1>2. Unused # {}
  BY DEF updateSnapshot
<1>3. New \in Snap /\ \A t \in tasks : t.kind \in {"adopt", "warm"} => t.base # New
  BY <1>2, NewFree
<1>4. IsFiniteSet(N)
  <2> DEFINE a == [kind |-> "warm", base |-> New, at |-> "start"]
             b == [kind |-> "ata", at |-> "start"]
  <2>1. AfterUpdate(TRUE) \subseteq {a} \cup {b}
    BY DEF AfterUpdate
  <2> HIDE DEF a, b
  <2>2. IsFiniteSet({a} \cup {b})
    BY FS_Singleton, FS_Union
  <2> QED
    BY <1>1, <2>1, <2>2, FS_Subset
<1>5. ASSUME NEW n \in N
      PROVE  /\ n \in TaskType /\ n.kind \in {"warm", "ata"}
             /\ n.kind = "warm" => n.at = "start" /\ n.base = New /\ \A m \in N : m.kind = "warm" => m = n
  <2>1. \A m \in N : /\ m.kind \in {"warm", "ata"}
                     /\ m.kind = "warm" => m = [kind |-> "warm", base |-> New, at |-> "start"]
                     /\ m.kind = "ata" => m = [kind |-> "ata", at |-> "start"]
    BY <1>1, AfterBears
  <2> QED
    BY <1>3, <2>1 DEF TaskType
<1>6. ASSUME NEW n \in N, NEW t \in (tasks \ done) \cup N PROVE Apart(n, t) /\ Apart(t, n)
  BY <1>3, <1>5, <1>6 DEF Apart
<1>7. TaskSet'
  BY <1>1, <1>4, <1>5, <1>6, TasksBy DEF TaskSet
<1>8. ASSUME UNCHANGED idle, \A t \in tasks \cap done : t.kind # "idle" PROVE IdleInv'
  <2>1. \A t \in (tasks \cap done) \cup N : t.kind # "idle"
    BY <1>5, <1>8
  <2> QED
    BY <1>1, <1>8, <2>1, IdleKept
<1> QED
  BY <1>7, <1>8

\* A clone's adoption is enqueued.
LEMMA AdoptEnqueued ==
    ASSUME SessionInv, Unused # {}, NEW base \in Snap, UNCHANGED idle,
           Enqueue({[kind |-> "adopt", base |-> base, clone |-> New, at |-> "start"]})
    PROVE  TaskSet' /\ IdleInv'
<1> USE DEF SessionInv
<1> DEFINE u == [kind |-> "adopt", base |-> base, clone |-> New, at |-> "start"]
<1>0. New \in Snap /\ ~AdoptOf(New)
  BY NewFree
<1>1. u \in TaskType /\ u.kind = "adopt" /\ u.clone = New
  BY <1>0 DEF TaskType
<1>2. tasks' = (tasks \ {}) \cup {u} \/ tasks' = tasks
  BY DEF Enqueue
<1> HIDE DEF u
<1>3. CASE tasks' = tasks
  <2>1. TaskSet'
    BY <1>3, TasksEnd
  <2>2. tasks' = (tasks \ {}) \cup {} /\ \A t \in (tasks \cap {}) \cup {} : t.kind # "idle"
    BY <1>3
  <2>3. IdleInv'
    BY <2>2, IdleKept
  <2> QED
    BY <2>1, <2>3
<1>4. CASE tasks' = (tasks \ {}) \cup {u}
  <2>1. \A t \in tasks \ {} : Apart(u, t) /\ Apart(t, u)
    BY <1>0, <1>1 DEF Apart, AdoptOf
  <2>2. TaskSet'
    BY <1>1, <1>4, <2>1, TaskComes
  <2> DEFINE N == {u}
  <2>3. tasks' = (tasks \ {}) \cup N /\ \A t \in (tasks \cap {}) \cup N : t.kind # "idle"
    BY <1>1, <1>4
  <2> HIDE DEF N
  <2>4. IdleInv'
    BY <2>3, IdleKept
  <2> QED
    BY <2>2, <2>4
<1> QED
  BY <1>2, <1>3, <1>4

\* The tasks stay, and the timer stays or is set anew.
LEMMA TasksStay ==
    ASSUME SessionInv, UNCHANGED tasks, UNCHANGED idle \/ scheduleIdleCacheClean
    PROVE  TaskSet' /\ IdleInv'
<1> USE DEF SessionInv
<1>1. TaskSet'
  BY TasksEnd
<1>2. CASE UNCHANGED idle
  <2> DEFINE D == {}
             N == {}
  <2>1. tasks' = (tasks \ D) \cup N /\ \A t \in (tasks \cap D) \cup N : t.kind # "idle"
    OBVIOUS
  <2> HIDE DEF D, N
  <2> QED
    BY <1>1, <1>2, <2>1, IdleKept
<1>3. CASE ~UNCHANGED idle /\ scheduleIdleCacheClean
  <2>1. PICK n \in (1 .. MaxTimers) \ TimersInUse :
           idle' = [idle EXCEPT !.timer = n, !.armed = TRUE, !.wg = IF idle.armed THEN @ ELSE @ + 1]
    BY <1>3 DEF scheduleIdleCacheClean
  <2>2. /\ idle \in [timer : Nat, armed : BOOLEAN, wg : Nat, closed : BOOLEAN] /\ n \in Nat
        /\ idle.wg = Cardinality(IdleTasks) + One(idle.armed) /\ Cardinality(IdleTasks) \in Nat
    BY SessionAssumption, IdleFinite DEF TypeOK, IdleTasks, One
  <2>3. /\ idle'.timer = n /\ idle'.armed = TRUE /\ idle'.wg = (IF idle.armed THEN idle.wg ELSE idle.wg + 1)
        /\ idle' = [timer |-> n, armed |-> TRUE, wg |-> (IF idle.armed THEN idle.wg ELSE idle.wg + 1),
                   closed |-> idle.closed]
    BY <2>1, <2>2
  <2>4. IdleTasks' = IdleTasks
    BY DEF IdleTasks
  <2>5. /\ idle' \in [timer : Nat, armed : BOOLEAN, wg : Nat, closed : BOOLEAN]
        /\ idle'.wg = Cardinality(IdleTasks) + One(idle'.armed)
    <3>1. idle.armed \in BOOLEAN /\ idle.wg \in Nat /\ idle.closed \in BOOLEAN
      BY <2>2
    <3>2. idle'.wg = Cardinality(IdleTasks) + 1 /\ idle'.wg \in Nat
      BY <2>2, <2>3, <3>1 DEF One
    <3>3. idle' \in [timer : Nat, armed : BOOLEAN, wg : Nat, closed : BOOLEAN]
      BY <2>2, <2>3, <3>1, <3>2
    <3>4. One(idle'.armed) = 1
      BY <2>3 DEF One
    <3> QED
      BY <3>2, <3>3, <3>4
  <2>6. TimerInv'
    BY <2>3 DEF TimerInv, TimersInUse
  <2> QED
    BY <1>1, <2>4, <2>5, <2>6 DEF IdleInv
<1> QED
  BY <1>2, <1>3

\* The idle timer fires: its callback is on its way.
LEMMA FiresTasks ==
    ASSUME SessionInv, IdleFires
    PROVE  TaskSet' /\ IdleInv'
<1> USE DEF SessionInv
<1> DEFINE u == [kind |-> "idle", timer |-> idle.timer, at |-> "clear"]
<1>1. /\ idle.armed /\ idle' = [idle EXCEPT !.armed = FALSE] /\ tasks' = (tasks \ {}) \cup {u}
      /\ idle \in [timer : Nat, armed : BOOLEAN, wg : Nat, closed : BOOLEAN]
  BY DEF IdleFires, TypeOK
<1>2. u \in TaskType /\ u.kind = "idle" /\ u.timer = idle.timer
  BY <1>1 DEF TaskType
<1> HIDE DEF u
<1>3. \A t \in tasks : t.kind = "idle" => t.timer # idle.timer
  BY <1>1 DEF TimerInv
<1>4. TaskSet'
  <2>1. \A t \in tasks \ {} : Apart(u, t) /\ Apart(t, u)
    BY <1>2, <1>3 DEF Apart
  <2> QED
    BY <1>1, <1>2, <2>1, TaskComes
<1>5. IdleTasks' = IdleTasks \cup {u} /\ u \notin IdleTasks
  BY <1>1, <1>2, <1>3 DEF IdleTasks
<1>6. /\ Cardinality(IdleTasks \cup {u}) = Cardinality(IdleTasks) + 1 /\ Cardinality(IdleTasks) \in Nat
      /\ idle.wg = Cardinality(IdleTasks) + 1
  BY <1>1, <1>5, FS_AddElement, IdleFinite DEF One
<1>7. /\ idle' \in [timer : Nat, armed : BOOLEAN, wg : Nat, closed : BOOLEAN]
      /\ idle'.armed = FALSE /\ idle'.wg = idle.wg
  BY <1>1
<1>8. idle'.wg = Cardinality(IdleTasks') + One(idle'.armed)
  BY <1>5, <1>6, <1>7 DEF One
<1>9. TimerInv'
  BY <1>7 DEF TimerInv
<1> QED
  BY <1>4, <1>7, <1>8, <1>9 DEF IdleInv

\* A task of the timer goes on as itself.
LEMMA IdleMoves ==
    ASSUME SessionInv, NEW t \in tasks, t.kind = "idle", NEW a \in {"lock", "locked"},
           Move(t, [t EXCEPT !.at = a]),
           idle' = idle \/ (idle.timer = t.timer /\ idle' = [idle EXCEPT !.timer = 0])
    PROVE  TaskSet' /\ IdleInv'
<1> USE DEF SessionInv
<1> DEFINE u == [t EXCEPT !.at = a]
<1>1. u.kind = "idle" /\ u.timer = t.timer /\ u \in TaskType
  <2>1. t \in TaskType
    BY DEF TypeOK
  <2> HIDE DEF SessionInv
  <2> QED
    BY <2>1, TaskMoves
<1>2. tasks' = (tasks \ {t}) \cup {u}
  BY DEF Move
<1> HIDE DEF u
<1>3. \A x \in tasks \ {t} : x.kind = "idle" => x.timer # t.timer
  BY DEF TasksInv, Apart
<1>4. TaskSet'
  <2>1. \A x \in tasks \ {t} : Apart(u, x) /\ Apart(x, u)
    BY <1>1, <1>3 DEF Apart
  <2> QED
    BY <1>1, <1>2, <2>1, TaskComes
<1>5. Cardinality(IdleTasks') = Cardinality(IdleTasks)
  <2>1. IdleTasks' = (IdleTasks \ {t}) \cup {u} /\ u \notin IdleTasks \ {t} /\ t \in IdleTasks
    BY <1>1, <1>2, <1>3 DEF IdleTasks
  <2>2. IsFiniteSet(IdleTasks) /\ Cardinality(IdleTasks) \in Nat
    BY IdleFinite
  <2>3. IsFiniteSet(IdleTasks \ {t}) /\ Cardinality(IdleTasks \ {t}) = Cardinality(IdleTasks) - 1
    BY <2>1, <2>2, FS_RemoveElement
  <2>4. Cardinality((IdleTasks \ {t}) \cup {u}) = Cardinality(IdleTasks \ {t}) + 1
    BY <2>1, <2>3, FS_AddElement
  <2> QED
    BY <2>1, <2>2, <2>3, <2>4
<1>6. /\ idle' \in [timer : Nat, armed : BOOLEAN, wg : Nat, closed : BOOLEAN]
      /\ idle'.armed = idle.armed /\ idle'.wg = idle.wg
      /\ idle'.timer = idle.timer \/ idle.timer = t.timer
  BY DEF TypeOK
<1>7. idle'.wg = Cardinality(IdleTasks') + One(idle'.armed)
  BY <1>5, <1>6, IdleFinite
<1>8. TimerInv'
  <2> SUFFICES ASSUME idle'.armed, NEW x \in tasks', x.kind = "idle" PROVE x.timer # idle'.timer
    BY DEF TimerInv
  <2>1. idle.armed /\ idle.timer # t.timer /\ idle'.timer = idle.timer
    BY <1>6 DEF TimerInv
  <2>2. x.timer = t.timer \/ (x \in tasks /\ x.timer # idle.timer)
    BY <1>1, <1>2, <2>1 DEF TimerInv
  <2> QED
    BY <2>1, <2>2
<1> QED
  BY <1>4, <1>6, <1>7, <1>8 DEF IdleInv

\* The timer's callback returns.
LEMMA IdleReturns ==
    ASSUME SessionInv, NEW t \in tasks, IdleUpdates(t)
    PROVE  TaskSet' /\ IdleInv'
<1> USE DEF SessionInv
<1>1. /\ t.kind = "idle" /\ updater.by # None /\ updateSnapshot(0, {t})
      /\ idle' = [idle EXCEPT !.wg = @ - 1]
  BY SessionAssumption DEF IdleUpdates, Locker
<1>2. TaskSet'
  BY <1>1, UpdateTasks
<1>3. PICK N : tasks' = (tasks \ {t}) \cup N /\ N \subseteq AfterUpdate(TRUE)
  BY <1>1, Updating, UpdateFacts
<1>4. IdleTasks' = IdleTasks \ {t} /\ t \in IdleTasks
  <2>1. \A n \in N : n.kind # "idle"
    BY <1>3, AfterBears
  <2> QED
    BY <1>1, <1>3, <2>1 DEF IdleTasks
<1>5. IsFiniteSet(IdleTasks) /\ Cardinality(IdleTasks) \in Nat /\ Cardinality(IdleTasks) # 0
  BY <1>4, IdleFinite, FS_EmptySet
<1>6. Cardinality(IdleTasks') = Cardinality(IdleTasks) - 1
  BY <1>4, <1>5, FS_RemoveElement
<1>7. /\ idle'.timer = idle.timer /\ idle'.armed = idle.armed /\ idle'.wg = idle.wg - 1
      /\ idle' = [timer |-> idle.timer, armed |-> idle.armed, wg |-> idle.wg - 1, closed |-> idle.closed]
      /\ idle.timer \in Nat /\ idle.armed \in BOOLEAN /\ idle.closed \in BOOLEAN /\ idle.wg \in Nat
  BY <1>1 DEF TypeOK
<1>8. idle'.wg = Cardinality(IdleTasks') + One(idle'.armed) /\ idle'.wg \in Nat
  BY <1>5, <1>6, <1>7, IdleFinite DEF One
<1>9. idle' \in [timer : Nat, armed : BOOLEAN, wg : Nat, closed : BOOLEAN]
  BY <1>7, <1>8
<1>10. TimerInv'
  <2>1. \A x \in tasks' : x.kind = "idle" => x \in tasks
    BY <1>4 DEF IdleTasks
  <2> QED
    BY <1>7, <2>1 DEF TimerInv
<1> QED
  BY <1>2, <1>8, <1>9, <1>10 DEF IdleInv

\* Close stops the timer.
LEMMA StopsTasks ==
    ASSUME SessionInv, closeIdleCacheClean
    PROVE  TaskSet' /\ IdleInv'
<1> USE DEF SessionInv
<1>1. /\ UNCHANGED tasks
      /\ idle' = [timer |-> 0, armed |-> FALSE, closed |-> TRUE,
                  wg |-> IF idle.armed THEN idle.wg - 1 ELSE idle.wg]
  BY DEF closeIdleCacheClean
<1>2. TaskSet'
  BY <1>1, TasksEnd
<1>3. /\ idle.armed \in BOOLEAN /\ idle.wg \in Nat /\ Cardinality(IdleTasks) \in Nat
      /\ idle.wg = Cardinality(IdleTasks) + One(idle.armed)
  BY IdleFinite DEF TypeOK
<1>4. /\ idle'.armed = FALSE /\ idle'.wg = IF idle.armed THEN idle.wg - 1 ELSE idle.wg
  BY <1>1
<1>5. idle'.wg = Cardinality(IdleTasks) /\ idle'.wg \in Nat
  BY <1>3, <1>4 DEF One
<1>6. IdleTasks' = IdleTasks
  BY <1>1 DEF IdleTasks
<1>7. idle'.wg = Cardinality(IdleTasks') + One(idle'.armed)
  BY <1>3, <1>4, <1>5, <1>6 DEF One
<1>8. idle' \in [timer : Nat, armed : BOOLEAN, wg : Nat, closed : BOOLEAN] /\ TimerInv'
  BY <1>1, <1>5 DEF TimerInv
<1> QED
  BY <1>2, <1>7, <1>8 DEF IdleInv

\* A task of another kind than the timer's goes on as itself.
LEMMA OtherMoves ==
    ASSUME SessionInv, UNCHANGED idle, NEW t \in tasks, t.kind \in {"scheduled", "warm"}, NEW u \in TaskType,
           u.kind = t.kind, t.kind = "warm" => u.base = t.base /\ (u.at = "adopt" => ~WarmedOf(u.clone)),
           tasks' = (tasks \ {t}) \cup {u}
    PROVE  TaskSet' /\ IdleInv'
<1> USE DEF SessionInv
<1>1. \A x \in tasks \ {t} : Apart(u, x) /\ Apart(x, u)
  BY DEF TasksInv, Apart, WarmedOf
<1>2. TaskSet'
  BY <1>1, TaskComes
<1> DEFINE D == {t}
           N == {u}
<1>3. tasks' = (tasks \ D) \cup N /\ \A x \in (tasks \cap D) \cup N : x.kind # "idle"
  OBVIOUS
<1> HIDE DEF D, N
<1>4. IdleInv'
  BY <1>3, IdleKept
<1> QED
  BY <1>2, <1>4

\* A task of another kind than the timer's ends.
LEMMA OtherEnds ==
    ASSUME SessionInv, UNCHANGED idle, NEW t \in tasks, t.kind # "idle", Finish(t)
    PROVE  TaskSet' /\ IdleInv'
<1>1. TaskSet'
  BY TasksEnd DEF Finish
<1> DEFINE D == {t}
           N == {}
<1>2. tasks' = (tasks \ D) \cup N /\ \A x \in (tasks \cap D) \cup N : x.kind # "idle"
  BY DEF Finish
<1> HIDE DEF D, N
<1>3. IdleInv'
  BY <1>2, IdleKept
<1> QED
  BY <1>1, <1>3

\* An update that ends no task.
LEMMA UpdateEnds ==
    ASSUME SessionInv, UNCHANGED idle, updater.by # None, NEW c \in {0, 1}, updateSnapshot(c, {})
    PROVE  TaskSet' /\ IdleInv'
<1> DEFINE done == {}
<1>1. updateSnapshot(c, done) /\ \A t \in tasks \cap done : t.kind # "idle"
  OBVIOUS
<1> HIDE DEF done
<1> QED
  BY <1>1, UpdateTasks

\* A request's update leaves tasks, or none.
LEMMA RequestTasks ==
    ASSUME SessionInv, NEW w, RequestGets(w)
    PROVE  TaskSet' /\ IdleInv'
<1>1. updater.by # None /\ UNCHANGED idle
  BY SessionAssumption DEF RequestGets, Locker
<1>2. CASE UNCHANGED tasks
  BY <1>1, <1>2, TasksStay
<1>3. CASE updateSnapshot(IF w = None THEN 0 ELSE 1, {})
  <2>1. updateSnapshot(0, {}) \/ updateSnapshot(1, {})
    BY <1>3
  <2> QED
    BY <1>1, <2>1, UpdateEnds
<1> QED
  BY <1>2, <1>3 DEF RequestGets

\* A warming task goes through its stages.
LEMMA WarmTasks ==
    ASSUME SessionInv, NEW t \in tasks, WarmStarts(t) \/ WarmRefs(t) \/ WarmClones(t)
    PROVE  TaskSet' /\ IdleInv'
<1> USE DEF SessionInv
<1>1. t.kind = "warm" /\ t.at \in {"start", "ref", "clone"} /\ UNCHANGED idle
  BY DEF WarmStarts, WarmRefs, WarmClones
<1>2. t \in TaskType
  BY DEF TypeOK
<1>3. CASE Finish(t)
  BY <1>1, <1>3, OtherEnds
<1>4. ASSUME NEW a \in {"ref", "clone"}, Move(t, [t EXCEPT !.at = a]) PROVE TaskSet' /\ IdleInv'
  <2> DEFINE u == [t EXCEPT !.at = a]
  <2>1. u.kind = "warm" /\ u.at # "adopt" /\ u.base = t.base /\ u \in TaskType
    <3> HIDE DEF SessionInv
    <3> QED
      BY <1>1, <1>2, TaskMoves
  <2>2. tasks' = (tasks \ {t}) \cup {u}
    BY <1>4 DEF Move
  <2> HIDE DEF u
  <2> QED
    BY <1>1, <2>1, <2>2, OtherMoves
<1>5. CASE WarmClones(t) /\ ~Finish(t)
  <2> DEFINE u == [kind |-> "warm", at |-> "adopt", base |-> t.base, clone |-> New]
  <2>1. Room /\ tasks' = (tasks \ {t}) \cup {u}
    BY <1>5 DEF WarmClones, Move
  <2>2. New \in Snap /\ ~WarmedOf(New)
    BY <2>1, RoomNew, NewFree
  <2>3. t.base \in Snap
    BY <1>1, <1>2, TaskFacts
  <2>4. u.kind = "warm" /\ u.base = t.base /\ u.clone = New /\ u \in TaskType
    BY <2>2, <2>3 DEF TaskType
  <2> HIDE DEF u
  <2> QED
    BY <1>1, <2>1, <2>2, <2>4, OtherMoves
<1> QED
  BY <1>3, <1>4, <1>5 DEF WarmStarts, WarmRefs

\* A debounced task goes through its stages.
LEMMA ScheduledTasks ==
    ASSUME SessionInv, NEW t \in tasks, ScheduledWakes(t) \/ ScheduledLocks(t) \/ ScheduledUpdates(t)
    PROVE  TaskSet' /\ IdleInv'
<1> USE DEF SessionInv
<1>1. t.kind = "scheduled" /\ UNCHANGED idle
  BY DEF ScheduledWakes, ScheduledLocks, ScheduledUpdates
<1>2. t \in TaskType
  BY DEF TypeOK
<1>3. CASE Finish(t)
  BY <1>1, <1>3, OtherEnds
<1>4. ASSUME NEW a \in {"lock", "locked"}, Move(t, [t EXCEPT !.at = a]) PROVE TaskSet' /\ IdleInv'
  <2> DEFINE u == [t EXCEPT !.at = a]
  <2>1. u.kind = "scheduled" /\ u \in TaskType
    <3> HIDE DEF SessionInv
    <3> QED
      BY <1>1, <1>2, TaskMoves
  <2>2. tasks' = (tasks \ {t}) \cup {u}
    BY <1>4 DEF Move
  <2> HIDE DEF u
  <2> QED
    BY <1>1, <2>1, <2>2, OtherMoves
<1>5. CASE ScheduledUpdates(t) /\ updateSnapshot(0, {t})
  <2>1. updater.by # None
    BY <1>5, SessionAssumption DEF ScheduledUpdates, Locker
  <2>2. \A x \in tasks \cap {t} : x.kind # "idle"
    BY <1>1
  <2> QED
    BY <1>1, <1>5, <2>1, <2>2, UpdateTasks
<1> QED
  BY <1>3, <1>4, <1>5 DEF ScheduledWakes, ScheduledLocks, ScheduledUpdates

\* Tasks that end in one step.
LEMMA AdoptTasks ==
    ASSUME SessionInv, NEW t \in tasks, TaskDropped(t) \/ Adopt(t) \/ ATADone(t) \/ WarmAdopts(t)
    PROVE  TaskSet' /\ IdleInv'
<1>1. t.kind # "idle" /\ Finish(t) /\ UNCHANGED idle
  BY DEF TaskDropped, Adopt, ATADone, WarmAdopts
<1> QED
  BY <1>1, OtherEnds

\* Every step, by what it does to the tasks and the timer.
LEMMA TaskSteps ==
    ASSUME SessionInv, [Next]_vars
    PROVE  TaskSet' /\ IdleInv'
<1> USE DEF SessionInv
<1>1. CASE \/ OpenLocks \/ Configure \/ RequestLocks \/ Shutdown \/ APIUpdate \/ Flush
           \/ APIFails \/ Close \/ DidOpenFile \/ Notify \/ WatcherNotes
  BY <1>1, TasksStay DEF DidOpenFile, OpenLocks, Notify, WatcherNotes, Configure, RequestLocks, getSnapshot, Shutdown,
        APIUpdate, Flush, APIFails, Close
<1>2. CASE CloseQueue \/ CloseSnapshot \/ Over \/ UNCHANGED vars
  BY <1>2, TasksStay DEF CloseQueue, CloseSnapshot, Over, vars
<1>3. CASE \/ \E w \in Worker : WorkerReleases(w)
           \/ \E s \in held : APIReleases(s)
  BY <1>3, TasksStay DEF WorkerReleases, APIReleases
<1>4. CASE OpenUpdates \/ APIAgain \/ APISucceeds
  <2>1. updater.by # None /\ (updateSnapshot(0, {}) \/ updateSnapshot(1, {})) /\ UNCHANGED idle
    BY <1>4, SessionAssumption DEF OpenUpdates, APIAgain, APISucceeds, Locker
  <2> QED
    BY <2>1, UpdateEnds
<1>5. CASE RequestAnswered
  BY <1>5, RequestTasks DEF RequestAnswered
<1>6. CASE DispatchSchedules \/ WatcherSchedules
  <2> DEFINE u == [kind |-> "scheduled", gen |-> generation', at |-> "wait"]
  <2>1. UNCHANGED idle /\ (UNCHANGED tasks \/ tasks' = (tasks \ {}) \cup {u})
    BY <1>6 DEF DispatchSchedules, WatcherSchedules, ScheduleSnapshotUpdate, Enqueue
  <2>2. u \in TaskType /\ u.kind = "scheduled"
    BY <1>6 DEF TaskType, DispatchSchedules, WatcherSchedules, ScheduleSnapshotUpdate, TypeOK
  <2> HIDE DEF u
  <2>3. ASSUME tasks' = (tasks \ {}) \cup {u} PROVE TaskSet' /\ IdleInv'
    <3>1. \A x \in tasks \ {} : Apart(u, x) /\ Apart(x, u)
      BY <2>2 DEF Apart
    <3> DEFINE N == {u}
               D == {}
    <3>2. TaskSet'
      BY <2>2, <2>3, <3>1, TaskComes
    <3>3. tasks' = (tasks \ D) \cup N /\ \A x \in (tasks \cap D) \cup N : x.kind # "idle"
      BY <2>2, <2>3
    <3> HIDE DEF D, N
    <3>4. IdleInv'
      BY <2>1, <3>3, IdleKept
    <3> QED
      BY <3>2, <3>4
  <2> QED
    BY <2>1, <2>3, TasksStay
<1>7. CASE IdleFires
  BY <1>7, FiresTasks
<1>8. CASE closeIdleCacheClean
  BY <1>8, StopsTasks
<1>9. ASSUME NEW w \in Worker, WorkerClones(w) PROVE TaskSet' /\ IdleInv'
  <2>1. work[w].base \in Snap /\ Unused # {} /\ UNCHANGED idle
    BY <1>9, Alive, RoomNew DEF WorkerClones
  <2>2. UNCHANGED tasks \/ Enqueue({[kind |-> "adopt", base |-> work[w].base, clone |-> New, at |-> "start"]})
    BY <1>9 DEF WorkerClones
  <2> QED
    BY <2>1, <2>2, TasksStay, AdoptEnqueued
<1>10. ASSUME NEW s \in held, APIPrepares(s) PROVE TaskSet' /\ IdleInv'
  <2>1. /\ s \in Snap /\ Unused # {} /\ UNCHANGED idle
        /\ Enqueue({[kind |-> "adopt", base |-> s, clone |-> New, at |-> "start"]})
    BY <1>10, RoomNew DEF APIPrepares, TypeOK
  <2> QED
    BY <2>1, AdoptEnqueued
<1>11. ASSUME NEW t \in tasks, Task(t) PROVE TaskSet' /\ IdleInv'
  <2>1. CASE IdleClears(t) \/ IdleLocks(t)
    <3>1. /\ t.kind = "idle"
          /\ Move(t, [t EXCEPT !.at = "lock"]) \/ Move(t, [t EXCEPT !.at = "locked"])
          /\ idle' = idle \/ (idle.timer = t.timer /\ idle' = [idle EXCEPT !.timer = 0])
      BY <2>1 DEF IdleClears, IdleLocks
    <3> QED
      BY <3>1, IdleMoves
  <2>2. CASE IdleUpdates(t)
    BY <2>2, IdleReturns
  <2> QED
    BY <1>11, <2>1, <2>2, ScheduledTasks, AdoptTasks, WarmTasks DEF Task
<1> QED
  BY <1>1, <1>2, <1>3, <1>4, <1>5, <1>6, <1>7, <1>8, <1>9, <1>10, <1>11 DEF Next, Going

-----------------------------------------------------------------------------
(* What a step does to the lock and to the changes.                        *)

UpdaterType ==
    [by : Locker \cup {None}, at : {"free", "flush", "update", "again"},
     files : SUBSET (1 .. arrived), ata : SUBSET (1 .. arrived), config : 0 .. preferences]

LockInv ==
    /\ updater \in UpdaterType
    /\ updater.by = None <=> updater = Free
    /\ updater.at = "flush" => updater.files = {} /\ updater.ata = {} /\ updater.config = 0

Numbers ==
    /\ arrived \in Nat /\ preferences \in Nat
    /\ pendingFileChanges \subseteq 1 .. arrived /\ pendingATAChanges \subseteq 1 .. arrived

\* The changes that no snapshot has yet.
Pending == pendingFileChanges \cup pendingATAChanges \cup updater.files \cup updater.ata

\* A change that arrives is pending, and one that was pending still is, unless
\* an update gives the lock back with a snapshot that has it.
Carried ==
    /\ 1 .. arrived' \subseteq (1 .. arrived) \cup Pending'
    /\ \/ Pending \subseteq Pending'
       \/ /\ Pending \subseteq Pending' \cup updater.files \cup updater.ata
          /\ built'[snapshot'] = Merged

\* The preferences an update has are those it had, or what is set.
Chosen ==
    \/ updater'.config \in {0, updater.config}
    \/ updater'.config = preferences /\ UNCHANGED built

ChangeStep ==
    /\ LockInv' /\ Numbers'
    /\ arrived <= arrived' /\ preferences <= preferences'
    /\ Carried /\ Chosen

\* A free lock has flushed nothing.
LEMMA FreeType ==
    ASSUME arrived' \in Nat, preferences' \in Nat, updater' = Free
    PROVE  LockInv'
<1>1. updater' \in UpdaterType'
  BY DEF UpdaterType, Free, Locker
<1> QED
  BY <1>1 DEF LockInv, Free

\* Neither the lock nor the changes are concerned.
LEMMA StillChanges ==
    ASSUME SessionInv, UNCHANGED <<pendingVars, preferences, updater>>
    PROVE  ChangeStep
<1> USE DEF SessionInv
<1>1. LockInv' /\ Numbers'
  BY DEF LockInv, Numbers, UpdaterType, TypeOK, PhaseInv, pendingVars, Free
<1>2. Pending' = Pending /\ arrived' = arrived
  BY DEF Pending, pendingVars
<1> QED
  BY <1>1, <1>2 DEF ChangeStep, Carried, Chosen, TypeOK

\* The lock is taken, with nothing flushed yet.
LEMMA LockChanges ==
    ASSUME SessionInv, UNCHANGED <<pendingVars, preferences>>, NEW who \in Locker, Locked(who, "flush")
    PROVE  ChangeStep
<1> USE DEF SessionInv
<1>1. /\ updater = Free /\ arrived' = arrived /\ preferences' = preferences
      /\ updater' = [by |-> who, at |-> "flush", files |-> {}, ata |-> {}, config |-> 0]
  BY DEF Locked, Free, pendingVars
<1>2. arrived \in Nat /\ preferences \in Nat /\ who # None
  BY SessionAssumption DEF TypeOK
<1>3. LockInv'
  <2>1. updater' \in UpdaterType'
    BY <1>1, <1>2 DEF UpdaterType
  <2> QED
    BY <1>1, <1>2, <2>1 DEF LockInv, Free
<1>4. Numbers'
  BY DEF Numbers, TypeOK, pendingVars
<1>5. Pending' = Pending
  BY <1>1 DEF Pending, pendingVars, Free
<1>6. updater'.config = 0
  BY <1>1
<1> QED
  BY <1>1, <1>2, <1>3, <1>4, <1>5, <1>6 DEF ChangeStep, Carried, Chosen

\* The lock is given back by an update, or by who had nothing to update.
LEMMA FreeChanges ==
    ASSUME SessionInv, UNCHANGED <<pendingVars, preferences>>, updater' = Free,
           (updater.files = {} /\ updater.ata = {}) \/ built'[snapshot'] = Merged
    PROVE  ChangeStep
<1> USE DEF SessionInv
<1>1. LockInv' /\ Numbers' /\ arrived' = arrived /\ preferences' = preferences
  BY FreeType DEF Numbers, TypeOK, pendingVars
<1>2. /\ Pending \subseteq Pending' \cup updater.files \cup updater.ata
      /\ updater.files = {} /\ updater.ata = {} => Pending \subseteq Pending'
  BY DEF Pending, pendingVars
<1>3. updater'.config = 0
  BY DEF Free
<1> QED
  BY <1>1, <1>2, <1>3 DEF ChangeStep, Carried, Chosen, TypeOK

\* An update gives the lock back with what it flushed built.
LEMMA UpdateChanges ==
    ASSUME SessionInv, UNCHANGED <<pendingVars, preferences>>, updater.by # None, NEW c \in {0, 1}, NEW done,
           updateSnapshot(c, done)
    PROVE  ChangeStep
<1>1. updater' = Free /\ built'[snapshot'] = Merged
  BY Updating, UpdateFacts DEF Merged, SessionInv
<1> QED
  BY <1>1, FreeChanges

\* A failed API request keeps what was flushed for it.
LEMMA FailChanges ==
    ASSUME SessionInv, APIFails
    PROVE  ChangeStep
<1> USE DEF SessionInv
<1>1. CASE updater' = Free /\ updater.files = {} /\ updater.ata = {}
  BY <1>1, FreeChanges DEF APIFails, configVars
<1>2. CASE updater' = [updater EXCEPT !.at = "again"]
  <2>1. /\ updater \in UpdaterType /\ updater.by = "api" /\ updater.by # None /\ UNCHANGED <<pendingVars, arrived, preferences>>
    BY SessionAssumption DEF APIFails, configVars, TypeOK, UpdaterType, Locker, pendingVars
  <2>2. /\ updater'.by = updater.by /\ updater'.at = "again" /\ updater'.files = updater.files
        /\ updater'.ata = updater.ata /\ updater'.config = updater.config /\ updater' \in UpdaterType'
    BY <1>2, <2>1 DEF UpdaterType
  <2>3. LockInv'
    BY <2>1, <2>2 DEF LockInv, Free
  <2>4. Numbers' /\ Pending' = Pending
    BY <2>1, <2>2 DEF Numbers, Pending, TypeOK, pendingVars
  <2> QED
    BY <2>1, <2>2, <2>3, <2>4 DEF ChangeStep, Carried, Chosen, TypeOK
<1> QED
  BY <1>1, <1>2 DEF APIFails

\* What was pending is flushed.
LEMMA FlushChanges ==
    ASSUME SessionInv, Flush
    PROVE  ChangeStep
<1> USE DEF SessionInv
<1> DEFINE config == IF pendingUserConfigChanges /\ updater.by # "api" THEN preferences ELSE 0
<1>1. /\ updater.at = "flush" /\ updater.files = {} /\ updater.ata = {} /\ updater \in UpdaterType
      /\ arrived' = arrived /\ preferences' = preferences /\ built' = built
      /\ pendingFileChanges' = {} /\ pendingATAChanges' = {}
      /\ updater' = [updater EXCEPT !.at = "update", !.files = pendingFileChanges, !.ata = pendingATAChanges,
                                    !.config = config]
  BY DEF Flush, snapVars, TypeOK, UpdaterType, PhaseInv
<1>2. arrived \in Nat /\ config \in 0 .. preferences /\ config \in {0, preferences}
      /\ pendingFileChanges \subseteq 1 .. arrived /\ pendingATAChanges \subseteq 1 .. arrived
  BY DEF TypeOK
<1> HIDE DEF config
<1>3. /\ updater'.by = updater.by /\ updater'.at = "update" /\ updater'.files = pendingFileChanges
      /\ updater'.ata = pendingATAChanges /\ updater'.config = config /\ updater' \in UpdaterType'
  BY <1>1, <1>2 DEF UpdaterType
<1>4. LockInv'
  <2>1. updater.by # None
    BY <1>1 DEF PhaseInv, Free
  <2> QED
    BY <1>3, <2>1 DEF LockInv, Free
<1>5. Numbers'
  BY <1>1, <1>2 DEF Numbers, TypeOK
<1>6. Pending' = Pending
  BY <1>1, <1>3 DEF Pending
<1>7. Carried /\ Chosen
  BY <1>1, <1>2, <1>3, <1>6 DEF Carried, Chosen
<1> QED
  BY <1>1, <1>2, <1>4, <1>5, <1>7 DEF ChangeStep, TypeOK

\* The changes of files are flushed, that of the opened one among them.
LEMMA OpenChanges ==
    ASSUME SessionInv, OpenLocks
    PROVE  ChangeStep
<1> USE DEF SessionInv
<1>1. /\ arrived' = arrived + 1 /\ preferences' = preferences /\ updater = Free
      /\ pendingFileChanges' = {} /\ pendingATAChanges' = pendingATAChanges
      /\ updater' = [by |-> "open", at |-> "update", files |-> pendingFileChanges \cup {arrived'},
                     ata |-> {}, config |-> 0]
  BY DEF OpenLocks, NewChange, configVars, Free
<1>2. /\ arrived \in Nat /\ preferences \in Nat /\ "open" # None
      /\ pendingFileChanges \subseteq 1 .. arrived /\ pendingATAChanges \subseteq 1 .. arrived
  BY SessionAssumption DEF TypeOK, Locker
<1>3. pendingFileChanges \cup {arrived'} \subseteq 1 .. arrived' /\ 1 .. arrived' = (1 .. arrived) \cup {arrived'}
  BY <1>1, <1>2
<1>4. LockInv'
  <2>1. updater' \in UpdaterType'
    BY <1>1, <1>2, <1>3 DEF UpdaterType, Locker
  <2> QED
    BY <1>1, <1>2, <2>1 DEF LockInv, Free
<1>5. Numbers'
  BY <1>1, <1>2 DEF Numbers
<1>6. Pending \cup {arrived'} \subseteq Pending'
  BY <1>1 DEF Pending, Free
<1>7. Carried /\ Chosen
  BY <1>1, <1>3, <1>6 DEF Carried, Chosen
<1> QED
  BY <1>1, <1>2, <1>4, <1>5, <1>7 DEF ChangeStep

\* A change is noted.
LEMMA NotedChanges ==
    ASSUME SessionInv, UNCHANGED <<updater, preferences>>,
           \/ arrived' = arrived + 1 /\ pendingFileChanges' = pendingFileChanges \cup {arrived'} /\ UNCHANGED pendingATAChanges
           \/ arrived' = arrived + 1 /\ pendingATAChanges' = pendingATAChanges \cup {arrived'} /\ UNCHANGED pendingFileChanges
    PROVE  ChangeStep
<1> USE DEF SessionInv
<1>1. /\ arrived \in Nat /\ preferences \in Nat /\ arrived' = arrived + 1
      /\ pendingFileChanges \subseteq 1 .. arrived /\ pendingATAChanges \subseteq 1 .. arrived
      /\ updater \in UpdaterType
  BY DEF TypeOK, UpdaterType
<1>2. 1 .. arrived' = (1 .. arrived) \cup {arrived'}
  BY <1>1
<1>3. updater' \in UpdaterType'
  BY <1>1, <1>2 DEF UpdaterType
<1>4. LockInv'
  BY <1>3 DEF LockInv, PhaseInv, Free
<1>5. Numbers'
  <2>1. arrived' \in Nat /\ preferences' \in Nat
    BY <1>1
  <2>2. pendingFileChanges' \subseteq 1 .. arrived' /\ pendingATAChanges' \subseteq 1 .. arrived'
    BY <1>1, <1>2
  <2> QED
    BY <2>1, <2>2 DEF Numbers
<1>6. Pending' = Pending \cup {arrived'}
  BY DEF Pending
<1>7. Carried /\ Chosen
  BY <1>2, <1>6 DEF Carried, Chosen
<1> QED
  BY <1>1, <1>4, <1>5, <1>7 DEF ChangeStep

\* The preferences are set.
LEMMA ConfigureChanges ==
    ASSUME SessionInv, Configure
    PROVE  ChangeStep
<1> USE DEF SessionInv
<1>1. /\ preferences' = preferences + 1 /\ UNCHANGED <<pendingFileChanges, pendingATAChanges, arrived, updater>>
      /\ arrived \in Nat /\ preferences \in Nat /\ updater \in UpdaterType
  BY DEF Configure, TypeOK, UpdaterType, pendingVars
<1>2. updater' \in UpdaterType'
  BY <1>1 DEF UpdaterType
<1>3. LockInv'
  BY <1>1, <1>2 DEF LockInv, PhaseInv, Free
<1>4. Numbers' /\ Pending' = Pending
  BY <1>1 DEF Numbers, Pending, TypeOK
<1> QED
  BY <1>1, <1>3, <1>4 DEF ChangeStep, Carried, Chosen

\* Every step, by what it does to the lock and to the changes.
LEMMA ChangeSteps ==
    ASSUME SessionInv, [Next]_vars
    PROVE  ChangeStep
<1> USE DEF SessionInv
<1>0. None \notin Locker
  BY SessionAssumption
<1>1. CASE DidOpenFile \/ DispatchSchedules \/ WatcherSchedules \/ Shutdown \/ Close \/ closeIdleCacheClean
  BY <1>1, StillChanges DEF DidOpenFile, DispatchSchedules, WatcherSchedules, ScheduleSnapshotUpdate, Shutdown,
        Close, closeIdleCacheClean, configVars
<1>2. CASE CloseQueue \/ CloseSnapshot \/ Over \/ UNCHANGED vars \/ IdleFires
  BY <1>2, StillChanges DEF CloseQueue, CloseSnapshot, Over, vars, IdleFires, configVars
<1>3. CASE \/ \E w \in Worker : WorkerReleases(w) \/ WorkerClones(w)
           \/ \E s \in held : APIReleases(s) \/ APIPrepares(s)
  BY <1>3, StillChanges DEF WorkerReleases, WorkerClones, APIReleases, APIPrepares, configVars
<1>4. CASE RequestLocks \/ APIUpdate
  BY <1>4, LockChanges DEF RequestLocks, getSnapshot, APIUpdate, configVars, Locker
<1>5. CASE OpenUpdates \/ APIAgain
  BY <1>0, <1>5, UpdateChanges DEF OpenUpdates, APIAgain, configVars, Locker
<1>6. CASE APISucceeds
  BY <1>0, <1>6, UpdateChanges DEF APISucceeds, configVars, Locker
<1>7. ASSUME NEW w, RequestGets(w) PROVE ChangeStep
  <2>1. UNCHANGED <<pendingVars, preferences>> /\ updater.by # None
    BY <1>0, <1>7 DEF RequestGets, configVars, Locker
  <2>2. CASE updater' = Free /\ NothingFlushed
    BY <2>1, <2>2, FreeChanges DEF NothingFlushed
  <2>3. CASE updateSnapshot(IF w = None THEN 0 ELSE 1, {})
    <3>1. updateSnapshot(0, {}) \/ updateSnapshot(1, {})
      BY <2>3
    <3> QED
      BY <2>1, <3>1, UpdateChanges
  <2> QED
    BY <1>7, <2>2, <2>3 DEF RequestGets
<1>8. CASE Notify \/ WatcherNotes
  <2>1. /\ UNCHANGED <<updater, preferences>>
        /\ arrived' = arrived + 1 /\ pendingFileChanges' = pendingFileChanges \cup {arrived'} /\ UNCHANGED pendingATAChanges
    BY <1>8 DEF Notify, WatcherNotes, NewChange, configVars
  <2> QED
    BY <2>1, NotedChanges
<1>9. ASSUME NEW t \in tasks, Task(t) PROVE ChangeStep
  <2>1. CASE IdleClears(t) \/ ScheduledWakes(t) \/ TaskDropped(t) \/ Adopt(t)
    BY <2>1, StillChanges DEF IdleClears, ScheduledWakes, TaskDropped, Adopt, configVars
  <2>2. CASE WarmStarts(t) \/ WarmRefs(t) \/ WarmClones(t) \/ WarmAdopts(t)
    BY <2>2, StillChanges DEF WarmStarts, WarmRefs, WarmClones, WarmAdopts, configVars
  <2>3. CASE IdleLocks(t)
    BY <2>3, LockChanges DEF IdleLocks, configVars, Locker
  <2>4. CASE ScheduledLocks(t)
    BY <2>4, LockChanges DEF ScheduledLocks, configVars, Locker
  <2>5. CASE IdleUpdates(t)
    BY <1>0, <2>5, UpdateChanges DEF IdleUpdates, configVars, Locker
  <2>6. CASE ScheduledUpdates(t)
    <3>1. UNCHANGED <<pendingVars, preferences>> /\ updater.by # None
      BY <1>0, <2>6 DEF ScheduledUpdates, configVars, Locker
    <3>2. CASE NothingFlushed /\ updater' = Free
      BY <3>1, <3>2, FreeChanges DEF NothingFlushed
    <3>3. CASE updateSnapshot(0, {t})
      BY <3>1, <3>3, UpdateChanges
    <3> QED
      BY <2>6, <3>2, <3>3 DEF ScheduledUpdates
  <2>7. CASE ATADone(t)
    <3>1. UNCHANGED <<updater, preferences, pendingFileChanges>>
      BY <2>7 DEF ATADone, configVars
    <3>2. CASE UNCHANGED <<arrived, pendingATAChanges>>
      BY <3>1, <3>2, StillChanges DEF pendingVars
    <3>3. CASE arrived' = arrived + 1 /\ pendingATAChanges' = pendingATAChanges \cup {arrived'}
      BY <3>1, <3>3, NotedChanges
    <3> QED
      BY <2>7, <3>2, <3>3 DEF ATADone, NewChange
  <2> QED
    BY <1>9, <2>1, <2>2, <2>3, <2>4, <2>5, <2>6, <2>7 DEF Task
<1> QED
  BY <1>1, <1>2, <1>3, <1>4, <1>5, <1>6, <1>7, <1>8, <1>9, FailChanges, FlushChanges, OpenChanges, ConfigureChanges
     DEF Next, Going, RequestAnswered

-----------------------------------------------------------------------------
(* The dispatch loop and the end of the session.                           *)

EndInv ==
    /\ updater.by = "api" =>
         /\ "api" \in ops
         /\ dispatch \in {"ready", "opening", "updating", "schedule", "stopping"}
    /\ updater.by \in {"open", "request"} => dispatch = "updating"
    /\ dispatch \in {"closing", "idleWait", "queueWait", "closed"} => held = {}
    /\ dispatch \in {"idleWait", "queueWait", "closed"} => idle.closed /\ ~idle.armed
    /\ queueClosed = backgroundDone
    /\ backgroundDone <=> dispatch \in {"queueWait", "closed"}
    /\ snapshot = None <=> dispatch = "closed"
    /\ dispatch = "closed" => updater = Free /\ tasks = {}

FlagTypes ==
    /\ generation \in Nat /\ scheduled \in BOOLEAN
    /\ queueClosed \in BOOLEAN /\ backgroundDone \in BOOLEAN
    /\ dispatch \in {"ready", "opening", "updating", "schedule", "stopping", "closing",
                     "idleWait", "queueWait", "closed"}
    /\ watcher \in {"ready", "schedule"}
    /\ ops \in Mixes /\ pendingUserConfigChanges \in BOOLEAN

\* The flags change as their types say.
LEMMA FlagSteps ==
    ASSUME SessionInv, [Next]_vars
    PROVE  FlagTypes'
<1>0. /\ FlagTypes
      /\ cancelScheduledSnapshotUpdate => generation' \in Nat /\ scheduled' \in BOOLEAN
      /\ generation + 1 \in Nat
  <2>1. FlagTypes
    BY DEF FlagTypes, SessionInv, TypeOK
  <2>2. generation \in Nat /\ generation + 1 \in Nat
    BY <2>1 DEF FlagTypes
  <2> QED
    BY <2>1, <2>2 DEF cancelScheduledSnapshotUpdate
<1> USE <1>0 DEF FlagTypes, clientVars, closeVars, schedVars, configVars
<1>1. CASE DidOpenFile \/ DispatchSchedules \/ WatcherSchedules \/ Shutdown \/ Close \/ closeIdleCacheClean
  BY <1>1 DEF DidOpenFile, DispatchSchedules, WatcherSchedules, ScheduleSnapshotUpdate, Shutdown, Close, closeIdleCacheClean
<1>2. CASE CloseQueue \/ CloseSnapshot \/ Over \/ UNCHANGED vars \/ IdleFires
  BY <1>2 DEF CloseQueue, CloseSnapshot, Over, vars, IdleFires
<1>3. ASSUME NEW w \in Worker, WorkerReleases(w) \/ WorkerClones(w) PROVE FlagTypes'
  <2>1. UNCHANGED <<generation, scheduled, queueClosed, backgroundDone, dispatch, watcher, ops, pendingUserConfigChanges>>
    BY <1>3 DEF WorkerReleases, WorkerClones
  <2> QED
    BY <2>1
<1>4. CASE RequestLocks \/ APIUpdate \/ OpenUpdates \/ APIAgain \/ APISucceeds \/ APIFails
  BY <1>4 DEF RequestLocks, getSnapshot, APIUpdate, OpenUpdates, APIAgain, APISucceeds, APIFails
<1>5. ASSUME NEW w, RequestGets(w) PROVE FlagTypes'
  BY <1>5 DEF RequestGets
<1>6. CASE Notify \/ WatcherNotes \/ Configure \/ Flush \/ OpenLocks
  BY <1>6 DEF Notify, WatcherNotes, Configure, Flush, OpenLocks
<1>7. ASSUME NEW t \in tasks, Task(t) PROVE FlagTypes'
  <2>1. CASE IdleClears(t) \/ ScheduledWakes(t) \/ TaskDropped(t) \/ Adopt(t)
    BY <2>1 DEF IdleClears, ScheduledWakes, TaskDropped, Adopt
  <2>2. CASE WarmStarts(t) \/ WarmRefs(t) \/ WarmClones(t) \/ WarmAdopts(t)
    BY <2>2 DEF WarmStarts, WarmRefs, WarmClones, WarmAdopts
  <2>3. CASE IdleLocks(t) \/ ScheduledLocks(t) \/ IdleUpdates(t) \/ ScheduledUpdates(t) \/ ATADone(t)
    BY <2>3 DEF IdleLocks, ScheduledLocks, IdleUpdates, ScheduledUpdates, ATADone
  <2> QED
    BY <1>7, <2>1, <2>2, <2>3 DEF Task
<1>8. ASSUME NEW s \in held, APIReleases(s) \/ APIPrepares(s) PROVE FlagTypes'
  <2>1. UNCHANGED <<generation, scheduled, queueClosed, backgroundDone, dispatch, watcher, ops, pendingUserConfigChanges>>
    BY <1>8 DEF APIReleases, APIPrepares
  <2> QED
    BY <2>1
<1> QED
  BY <1>1, <1>2, <1>3, <1>4, <1>5, <1>6, <1>7, <1>8 DEF Next, Going, RequestAnswered

\* After an update there is a current snapshot, and the lock is free.
LEMMA UpdatedTo ==
    ASSUME SessionInv, updater.by # None, NEW c \in {0, 1}, NEW done, updateSnapshot(c, done)
    PROVE  snapshot' # None /\ updater' = Free /\ updater'.by = None /\ dispatch # "closed"
<1>1. snapshot' \in Snap /\ updater' = Free
  BY Updating, UpdateFacts DEF SessionInv
<1>2. dispatch # "closed"
  BY DEF SessionInv, PhaseInv, Free
<1> QED
  BY <1>1, <1>2, SnapFacts DEF Free

\* Every step, by what it does to the loop.
LEMMA EndSteps ==
    ASSUME SessionInv, [Next]_vars
    PROVE  EndInv'
<1> USE DEF SessionInv
<1>0. /\ None \notin Locker /\ EndInv /\ (updater.by = None <=> updater = Free)
      /\ Free.by = None /\ None \notin Snap /\ snapshot \in Snap \cup {None}
  BY SessionAssumption, SnapFacts DEF EndInv, PhaseInv, Free, TypeOK
<1>1. CASE DidOpenFile \/ Notify
  <2>1. /\ dispatch = "ready" /\ dispatch' \in {"opening", "ready", "schedule"}
        /\ UNCHANGED <<snapshot, updater, held, ops, queueClosed, backgroundDone>>
    BY <1>1 DEF DidOpenFile, Notify, snapVars, closeVars
  <2> QED
    BY <1>0, <2>1 DEF EndInv
<1>2. CASE DispatchSchedules \/ Shutdown
  <2>1. /\ dispatch \in {"ready", "schedule"} /\ dispatch' \in {"ready", "stopping"}
        /\ UNCHANGED <<snapshot, updater, held, ops, queueClosed, backgroundDone>>
    BY <1>2 DEF DispatchSchedules, ScheduleSnapshotUpdate, Shutdown, snapVars, closeVars
  <2> QED
    BY <1>0, <2>1 DEF EndInv
<1>3. CASE Close
  BY <1>0, <1>3 DEF EndInv, Close, snapVars, closeVars
<1>4. CASE closeIdleCacheClean
  BY <1>0, <1>4 DEF EndInv, closeIdleCacheClean, snapVars, closeVars
<1>5. CASE CloseQueue
  BY <1>0, <1>5 DEF EndInv, CloseQueue, snapVars
<1>6. CASE CloseSnapshot
  <2>1. /\ dispatch = "queueWait" /\ dispatch' = "closed" /\ snapshot' = None /\ updater' = Free /\ tasks' = {}
        /\ updater = Free
        /\ UNCHANGED <<held, ops, queueClosed, backgroundDone, idle>>
    BY <1>6 DEF CloseSnapshot, closeVars
  <2> QED
    BY <1>0, <2>1 DEF EndInv
<1>7. CASE Over \/ UNCHANGED vars
  BY <1>0, <1>7 DEF EndInv, Over, vars, snapVars, closeVars, clientVars
<1>8. CASE IdleFires
  <2>1. /\ UNCHANGED <<dispatch, ops, held, updater, snapshot, closeVars>> /\ idle.armed
    BY <1>8 DEF IdleFires, snapVars, clientVars
  <2>2. dispatch \notin {"idleWait", "queueWait", "closed"}
    BY <1>0, <2>1 DEF EndInv
  <2> QED
    BY <1>0, <2>1, <2>2 DEF EndInv, closeVars
<1>9. ASSUME NEW w \in Worker, WorkerReleases(w) PROVE EndInv'
  BY <1>0, <1>9 DEF EndInv, WorkerReleases, closeVars
<1>10. ASSUME NEW w \in Worker, WorkerClones(w) PROVE EndInv'
  <2>1. /\ UNCHANGED <<dispatch, ops, held, updater, snapshot, queueClosed, backgroundDone, idle>>
        /\ backgroundDone => UNCHANGED tasks
    BY <1>10 DEF WorkerClones, closeVars, Enqueue
  <2> QED
    BY <1>0, <2>1 DEF EndInv
<1>11. ASSUME NEW s \in held, APIReleases(s) PROVE EndInv'
  <2>1. /\ UNCHANGED <<dispatch, ops, tasks, updater, snapshot, queueClosed, backgroundDone, idle>>
        /\ held' \subseteq held
    BY <1>11 DEF APIReleases, closeVars
  <2> QED
    BY <1>0, <2>1 DEF EndInv
<1>12. ASSUME NEW s \in held, APIPrepares(s) PROVE EndInv'
  <2>1. /\ UNCHANGED <<dispatch, ops, updater, snapshot, queueClosed, backgroundDone, idle>>
        /\ dispatch \in {"ready", "opening", "updating", "schedule"}
    BY <1>12 DEF APIPrepares, APIOpen, closeVars
  <2> QED
    BY <1>0, <2>1 DEF EndInv
<1>13. CASE RequestLocks
  <2>1. /\ UNCHANGED <<snapshot, held, ops, queueClosed, backgroundDone, idle>> /\ snapshot # None
        /\ \/ dispatch = "ready" /\ dispatch' = "updating" /\ updater'.by = "request"
           \/ dispatch' = dispatch /\ updater'.by = "handler"
    BY <1>13 DEF RequestLocks, getSnapshot, Locked, Free, snapVars, closeVars
  <2> QED
    BY <1>0, <2>1 DEF EndInv
<1>14. CASE APIUpdate
  <2>1. /\ dispatch \in {"ready", "opening", "updating", "schedule"} /\ "api" \in ops /\ updater'.by = "api"
        /\ UNCHANGED <<dispatch, snapshot, held, ops, queueClosed, backgroundDone>>
    BY <1>14 DEF APIUpdate, APIOpen, Locked, Free, snapVars, closeVars, clientVars
  <2> QED
    BY <1>0, <2>1 DEF EndInv
<1>15. CASE OpenLocks
  <2>1. /\ dispatch = "opening" /\ dispatch' = "updating" /\ updater'.by = "open"
        /\ UNCHANGED <<snapshot, held, ops, queueClosed, backgroundDone>>
    BY <1>15 DEF OpenLocks, Free, snapVars, closeVars
  <2> QED
    BY <1>0, <2>1 DEF EndInv
<1>16. CASE OpenUpdates
  <2>1. /\ updater.by = "open" /\ updater.by # None /\ dispatch' = "ready" /\ updateSnapshot(0, {})
        /\ UNCHANGED <<held, ops, queueClosed, backgroundDone>>
    BY <1>0, <1>16 DEF OpenUpdates, closeVars, Locker
  <2>2. snapshot' # None /\ updater'.by = None
    BY <2>1, UpdatedTo
  <2> QED
    BY <1>0, <2>1, <2>2 DEF EndInv, Locker
<1>17. ASSUME NEW w, RequestGets(w) PROVE EndInv'
  <2>1. /\ updater.by # None
        /\ \/ updater.by = "request" /\ dispatch' = "ready"
           \/ updater.by = "handler" /\ dispatch' = dispatch
        /\ UNCHANGED <<held, ops, queueClosed, backgroundDone, idle>>
    BY <1>0, <1>17 DEF RequestGets, closeVars, Locker
  <2>2. snapshot' # None /\ updater'.by = None
    <3>1. CASE updateSnapshot(IF w = None THEN 0 ELSE 1, {})
      <4>1. updateSnapshot(0, {}) \/ updateSnapshot(1, {})
        BY <3>1
      <4> QED
        BY <2>1, <4>1, UpdatedTo
    <3>2. CASE updater' = Free /\ UNCHANGED snapshot
      BY <1>0, <2>1, <3>2, Updating, SnapFacts DEF Free
    <3> QED
      BY <1>17, <3>1, <3>2 DEF RequestGets
  <2>3. dispatch # "closed"
    BY <1>0, <2>1 DEF EndInv
  <2> QED
    BY <1>0, <2>1, <2>2, <2>3 DEF EndInv, Locker
<1>18. CASE APISucceeds \/ APIAgain
  <2>1. /\ updater.by = "api" /\ updater.by # None /\ (updateSnapshot(0, {}) \/ updateSnapshot(1, {}))
        /\ UNCHANGED <<dispatch, ops, queueClosed, backgroundDone, idle>>
    BY <1>0, <1>18 DEF APISucceeds, APIAgain, closeVars, clientVars, Locker
  <2>2. snapshot' # None /\ updater'.by = None
    BY <2>1, UpdatedTo
  <2>3. dispatch \in {"ready", "opening", "updating", "schedule", "stopping"}
    BY <1>0, <2>1 DEF EndInv
  <2> QED
    BY <1>0, <2>1, <2>2, <2>3 DEF EndInv, Locker
<1>19. CASE APIFails
  <2>1. /\ updater.by = "api" /\ updater.by # None /\ updater'.by \in {"api", None}
        /\ UNCHANGED <<dispatch, ops, held, snapshot, queueClosed, backgroundDone, idle, tasks>>
    BY <1>0, <1>19 DEF APIFails, closeVars, clientVars, Locker, snapVars, Free, TypeOK
  <2>2. dispatch \in {"ready", "opening", "updating", "schedule", "stopping"}
    BY <1>0, <2>1 DEF EndInv
  <2> QED
    BY <1>0, <2>1, <2>2 DEF EndInv, Locker
<1>20. CASE Configure
  BY <1>0, <1>20 DEF EndInv, Configure, snapVars, closeVars, clientVars
<1>21. CASE Flush
  <2>1. /\ updater.at = "flush" /\ updater'.by = updater.by
        /\ UNCHANGED <<dispatch, ops, held, snapshot, queueClosed, backgroundDone, idle, tasks>>
    BY <1>21 DEF Flush, TypeOK, snapVars, closeVars, clientVars
  <2>2. dispatch # "closed"
    BY <1>0, <2>1 DEF EndInv, Free
  <2> QED
    BY <1>0, <2>1, <2>2 DEF EndInv
<1>22. ASSUME NEW t \in tasks, Task(t) PROVE EndInv'
  <2>1. dispatch # "closed" /\ snapshot \in Snap
    BY <1>0, <1>22 DEF EndInv
  <2>2. UNCHANGED <<dispatch, ops, held, queueClosed, backgroundDone>>
    BY <1>22 DEF Task, IdleClears, IdleLocks, IdleUpdates, ScheduledWakes, ScheduledLocks, ScheduledUpdates,
        TaskDropped, Adopt, ATADone, WarmStarts, WarmRefs, WarmClones, WarmAdopts, clientVars, closeVars
  <2>3. idle'.armed = idle.armed /\ idle'.closed = idle.closed
    BY <1>22 DEF Task, IdleClears, IdleLocks, IdleUpdates, ScheduledWakes, ScheduledLocks, ScheduledUpdates,
        TaskDropped, Adopt, ATADone, WarmStarts, WarmRefs, WarmClones, WarmAdopts, TypeOK
  <2>4. ASSUME snapshot' # None, updater'.by \in {None, updater.by, "scheduled", "idle"} PROVE EndInv'
    BY <1>0, <2>1, <2>2, <2>3, <2>4 DEF EndInv, Locker
  <2>5. CASE UNCHANGED <<snapshot, updater>>
    BY <1>0, <2>1, <2>4, <2>5
  <2>6. CASE IdleClears(t) \/ ScheduledWakes(t) \/ TaskDropped(t) \/ ATADone(t)
    BY <2>5, <2>6 DEF IdleClears, ScheduledWakes, TaskDropped, ATADone, snapVars
  <2>7. CASE WarmStarts(t) \/ WarmRefs(t) \/ WarmClones(t)
    BY <2>5, <2>7 DEF WarmStarts, WarmRefs, WarmClones, snapVars
  <2>8. CASE Adopt(t) \/ WarmAdopts(t)
    <3>1. t.clone \in Snap
      BY <2>8, TaskFacts DEF Adopt, WarmAdopts, TypeOK
    <3>2. UNCHANGED updater /\ snapshot' \in {snapshot, t.clone}
      BY <2>8 DEF Adopt, WarmAdopts, adoptSnapshotChange
    <3> QED
      BY <1>0, <2>1, <2>4, <3>1, <3>2
  <2>9. CASE IdleLocks(t) \/ ScheduledLocks(t)
    <3>1. UNCHANGED snapshot /\ updater'.by \in {"scheduled", "idle"}
      BY <2>9 DEF IdleLocks, ScheduledLocks, Locked, Free, snapVars
    <3> QED
      BY <1>0, <2>1, <2>4, <3>1
  <2>10. CASE IdleUpdates(t) \/ ScheduledUpdates(t)
    <3>1. updater.by # None
      BY <1>0, <2>10 DEF IdleUpdates, ScheduledUpdates, Locker
    <3>2. snapshot' # None /\ updater'.by = None
      <4>1. CASE updateSnapshot(0, {t})
        BY <3>1, <4>1, UpdatedTo
      <4>2. CASE updater' = Free /\ UNCHANGED snapVars
        BY <1>0, <2>1, <4>2 DEF snapVars
      <4> QED
        BY <2>10, <4>1, <4>2 DEF IdleUpdates, ScheduledUpdates
    <3> QED
      BY <2>4, <3>2
  <2> QED
    BY <1>22, <2>6, <2>7, <2>8, <2>9, <2>10 DEF Task
<1>23. CASE WatcherNotes \/ WatcherSchedules
  <2>1. /\ UNCHANGED <<dispatch, snapshot, updater, held, ops, queueClosed, backgroundDone>>
        /\ idle.closed => UNCHANGED idle
        /\ UNCHANGED tasks \/ ~backgroundDone
    BY <1>23 DEF WatcherNotes, WatcherSchedules, ScheduleSnapshotUpdate, scheduleIdleCacheClean, Enqueue, snapVars,
        closeVars
  <2> QED
    BY <1>0, <2>1 DEF EndInv
<1> QED
  BY <1>1, <1>2, <1>3, <1>4, <1>5, <1>6, <1>7, <1>8, <1>9, <1>10, <1>11, <1>12, <1>13, <1>14, <1>15, <1>16,
     <1>17, <1>18, <1>19, <1>20, <1>21, <1>22, <1>23 DEF Next, Going, RequestAnswered

-----------------------------------------------------------------------------
(* What the snapshots are built from.                                      *)

\* Who has a clone to be adopted has a reference of it, after the step too.
LEMMA CloneLives ==
    ASSUME RefsInv', (\A t \in tasks : t \in TaskType)', refCount' \in [Snap -> Nat],
           NEW t \in tasks', Cloned(t)
    PROVE  t.base \in Snap /\ t.clone \in Snap /\ refCount'[t.clone] > 0
<1>1. t \in TaskType /\ t.base \in Snap /\ t.clone \in Snap
  BY TaskFacts DEF Cloned
<1>2. AdoptOf(t.clone)' \/ WarmedOf(t.clone)'
  BY DEF Cloned, AdoptOf, WarmedOf
<1>3. Cardinality(Users(t.clone)') \in Nat
  <2>1. Users(t.clone)' \subseteq Worker
    BY DEF Users
  <2> QED
    BY <2>1, SessionAssumption, FS_Subset, FS_CardinalityType
<1>4. Owed(t.clone)' >= 1
  BY <1>2, <1>3 DEF Owed, One
<1>5. Owed(t.clone)' \in Nat
  BY <1>3 DEF Owed, One
<1> QED
  BY <1>1, <1>4, <1>5 DEF RefsInv

\* Every step, by what it does to what the snapshots are built from.
LEMMA BuiltSteps ==
    ASSUME SessionInv, SnapStep, ChangeStep, TaskSet'
    PROVE  BuiltInv' /\ built' \in [Snap -> [changes : SUBSET (1 .. arrived'), config : 0 .. preferences']]
<1> USE DEF SessionInv
<1>1. ASSUME NEW t \in tasks', Cloned(t)
      PROVE  t.base # t.clone /\ (refCount'[t.base] > 0 => built'[t.clone] = built'[t.base])
  <2>1. t.base \in Snap /\ t.clone \in Snap /\ refCount'[t.clone] > 0
    BY <1>1, CloneLives DEF SnapStep, RefsStep, TaskSet
  <2>2. CASE t \in tasks
    <3>1. t.base # t.clone /\ refCount[t.clone] > 0
      BY <1>1, <2>2, Alive DEF BuiltInv, Cloned
    <3>2. ASSUME refCount'[t.base] > 0 PROVE built'[t.clone] = built'[t.base]
      <4>1. t.base \notin Unused
        BY <1>1, <2>2 DEF Unused, Cloned
      <4>2. refCount[t.base] > 0
        BY <2>1, <3>2, <4>1 DEF SnapStep, RefsStep, Steady, TypeOK
      <4>3. built[t.clone] = built[t.base]
        BY <1>1, <2>2, <4>2 DEF BuiltInv
      <4>4. built'[t.base] = built[t.base] /\ built'[t.clone] = built[t.clone]
        BY <2>1, <3>1, <3>2, <4>2 DEF SnapStep, RefsStep, Steady
      <4> QED
        BY <4>3, <4>4
    <3> QED
      BY <3>1, <3>2
  <2>3. CASE t \notin tasks
    BY <1>1, <2>3 DEF SnapStep, Copies
  <2> QED
    BY <2>2, <2>3
<1>2. /\ arrived \in Nat /\ preferences \in Nat /\ arrived' \in Nat /\ preferences' \in Nat
      /\ arrived <= arrived' /\ preferences <= preferences'
  BY DEF TypeOK, ChangeStep, Numbers
<1>3. 1 .. arrived \subseteq 1 .. arrived' /\ 0 .. preferences \subseteq 0 .. preferences'
  BY <1>2
<1>4. ASSUME NEW s \in Snap
      PROVE  built[s] \in [changes : SUBSET (1 .. arrived), config : 0 .. preferences]
  BY DEF TypeOK
<1>5. ASSUME NEW s \in Snap
      PROVE  built'[s] \in [changes : SUBSET (1 .. arrived), config : 0 .. preferences]
  <2>1. CASE built'[s] = Nothing
    BY <1>2, <2>1 DEF Nothing
  <2>2. CASE \E x \in Snap : built'[s] = built[x]
    BY <1>4, <2>2
  <2>3. CASE snapshot \in Snap /\ built'[s] = Merged
    <3>1. /\ updater.files \subseteq 1 .. arrived /\ updater.ata \subseteq 1 .. arrived
          /\ updater.config \in 0 .. preferences
      BY DEF TypeOK
    <3>2. built[snapshot].changes \subseteq 1 .. arrived /\ built[snapshot].config \in 0 .. preferences
      BY <1>4, <2>3
    <3> QED
      BY <2>3, <3>1, <3>2 DEF Merged
  <2> QED
    BY <2>1, <2>2, <2>3 DEF SnapStep, Values
<1>6. built' \in [Snap -> [changes : SUBSET (1 .. arrived'), config : 0 .. preferences']]
  <2>1. ASSUME NEW s \in Snap
        PROVE  built'[s] \in [changes : SUBSET (1 .. arrived'), config : 0 .. preferences']
    BY <1>3, <1>5
  <2>2. built' = [s \in Snap |-> built'[s]]
    BY DEF SnapStep, HolderTypes
  <2> QED
    BY <2>1, <2>2
<1>7. ASSUME updater'.config # 0, NEW s \in Snap PROVE built'[s].config <= updater'.config
  <2>0. updater'.config \in Nat /\ updater.config \in Nat
    BY <1>2 DEF TypeOK, ChangeStep, LockInv, UpdaterType
  <2>1. CASE updater'.config = preferences
    BY <1>2, <1>5, <2>1
  <2>2. CASE updater'.config = updater.config
    <3>1. updater' # Free
      BY <1>7 DEF Free
    <3>2. CASE built'[s] = Nothing
      BY <2>0, <3>2 DEF Nothing
    <3>3. ASSUME NEW x \in Snap, built'[s] = built[x] PROVE built'[s].config <= updater'.config
      BY <1>7, <2>2, <3>3 DEF BuiltInv
    <3> QED
      BY <3>1, <3>2, <3>3 DEF SnapStep, Values
  <2> QED
    BY <1>7, <2>1, <2>2 DEF ChangeStep, Chosen
<1> QED
  BY <1>1, <1>6, <1>7 DEF BuiltInv

\* It holds at the start.
LEMMA SessionInit == Init => SessionInv
<1> SUFFICES ASSUME Init PROVE SessionInv
  OBVIOUS
<1> USE DEF Init
<1>1. 0 \in Snap /\ None \notin Snap /\ None \notin Locker
  BY SessionAssumption, SnapFacts DEF Snap
<1>2. /\ IsFiniteSet(tasks) /\ Cardinality({t \in tasks : t.kind = "idle"}) = 0
  <2>1. {t \in tasks : t.kind = "idle"} = {}
    OBVIOUS
  <2> QED
    BY <2>1, FS_EmptySet
<1>3. TypeOK
  <2>1. /\ snapshot \in Snap \cup {None} /\ refCount \in [Snap -> Nat]
        /\ built \in [Snap -> [changes : SUBSET (1 .. arrived), config : 0 .. preferences]]
    BY <1>1 DEF Nothing
  <2>2. updater \in [by : Locker \cup {None}, at : {"free", "flush", "update", "again"},
                     files : SUBSET (1 .. arrived), ata : SUBSET (1 .. arrived), config : 0 .. preferences]
    BY DEF Free
  <2>3. /\ idle \in [timer : Nat, armed : BOOLEAN, wg : Nat, closed : BOOLEAN]
        /\ idle.wg = 0 /\ ~idle.armed
    OBVIOUS
  <2>4. work \in [Worker -> [at : {"none"}] \cup [at : {"run", "cloned"}, base : Snap]]
    OBVIOUS
  <2>5. idle.wg = Cardinality({t \in tasks : t.kind = "idle"}) + (IF idle.armed THEN 1 ELSE 0)
    BY <1>2, <2>3
  <2> QED
    BY <1>2, <2>1, <2>2, <2>3, <2>4, <2>5 DEF TypeOK
<1>4. TasksInv /\ TimerInv
  BY DEF TasksInv, TimerInv
<1>5. PhaseInv
  BY <1>1 DEF PhaseInv, Free, Locker
<1>6. RefsInv
  <2>1. \A s \in Snap : Users(s) = {} /\ Cardinality(Users(s)) = 0
    BY FS_EmptySet DEF Users
  <2>2. \A s \in Snap : Owed(s) = IF s = 0 THEN 1 ELSE 0
    BY <2>1 DEF Owed, One, AdoptOf, WarmOf, WarmedOf
  <2> QED
    BY <1>3, <2>2 DEF RefsInv, TypeOK
<1>7. BuiltInv
  BY DEF BuiltInv, Free
<1> QED
  BY <1>3, <1>4, <1>5, <1>6, <1>7 DEF SessionInv

\* Every step keeps it.
LEMMA SessionNext ==
    ASSUME SessionInv, [Next]_vars
    PROVE  SessionInv'
<1>1. SnapStep /\ TaskSet' /\ IdleInv' /\ ChangeStep /\ FlagTypes' /\ EndInv'
  BY SnapSteps, TaskSteps, ChangeSteps, FlagSteps, EndSteps
<1>2. BuiltInv' /\ built' \in [Snap -> [changes : SUBSET (1 .. arrived'), config : 0 .. preferences']]
  BY <1>1, BuiltSteps
<1>3. RefsInv' /\ refCount' \in [Snap -> Nat]
  BY <1>1 DEF SnapStep, RefsStep
<1>4. PhaseInv'
  BY <1>1 DEF PhaseInv, EndInv, ChangeStep, LockInv
<1>5. TypeOK'
  <2>1. idle'.wg = Cardinality({t \in tasks : t.kind = "idle"}') + (IF idle'.armed THEN 1 ELSE 0)
    BY <1>1 DEF IdleInv, IdleTasks, One
  <2> QED
    BY <1>1, <1>2, <1>3, <2>1 DEF TypeOK, SnapStep, HolderTypes, TaskSet, IdleInv, FlagTypes, ChangeStep, LockInv,
        UpdaterType, Numbers
<1> QED
  BY <1>1, <1>2, <1>3, <1>4, <1>5 DEF SessionInv, TaskSet, IdleInv

-----------------------------------------------------------------------------
(* Theorems                                                                *)

\* The session's state is what its goroutines say of one another, always.
THEOREM Invariant == Spec => []SessionInv
<1>1. Init => SessionInv
  BY SessionInit
<1>2. SessionInv /\ [Next]_vars => SessionInv'
  BY SessionNext
<1> QED
  BY <1>1, <1>2, PTL DEF Spec

\* Of things that are all the same there is at most one.
LEMMA AtMostOne ==
    ASSUME NEW S, \A t, u \in S : t = u
    PROVE  Cardinality(S) = One(S # {})
<1>1. CASE S # {}
  <2>1. PICK t \in S : TRUE
    BY <1>1
  <2>2. S = {t}
    BY <2>1
  <2> QED
    BY <1>1, <2>2, FS_Singleton DEF One
<1>2. CASE S = {}
  BY <1>2, FS_EmptySet DEF One
<1> QED
  BY <1>1, <1>2

\* ref, tryRef and Deref (snapshot.go) balance: as long as the queue runs its
\* tasks, a snapshot's count is the number of those who will release it.
THEOREM References == Spec => []RefsExact
<1>1. SessionInv => RefsExact
  <2> SUFFICES ASSUME SessionInv PROVE RefsExact
    OBVIOUS
  <2>1. ASSUME NEW s \in Snap PROVE Holders(s) = Owed(s)
    <3> DEFINE A == {t \in tasks : t.kind = "adopt" /\ t.clone = s}
               B == {t \in tasks : t.kind = "warm" /\ t.at \in {"clone", "adopt"} /\ t.base = s}
               C == {t \in tasks : t.kind = "warm" /\ t.at = "adopt" /\ t.clone = s}
    <3>1. /\ \A t, u \in A : t = u
          /\ \A t, u \in B : t = u
          /\ \A t, u \in C : t = u
      BY DEF SessionInv, TasksInv, Apart
    <3>2. AdoptOf(s) <=> A # {}
      BY DEF AdoptOf
    <3>3. WarmOf(s) <=> B # {}
      BY DEF WarmOf
    <3>4. WarmedOf(s) <=> C # {}
      BY DEF WarmedOf
    <3>5. Holders(s) = One(snapshot = s) + Cardinality(Users(s)) + One(s \in held)
                         + Cardinality(A) + Cardinality(B) + Cardinality(C)
      BY DEF Holders, One
    <3> HIDE DEF A, B, C
    <3>6. Cardinality(A) = One(A # {}) /\ Cardinality(B) = One(B # {}) /\ Cardinality(C) = One(C # {})
      BY <3>1, AtMostOne
    <3>7. One(A # {}) = One(AdoptOf(s)) /\ One(B # {}) = One(WarmOf(s)) /\ One(C # {}) = One(WarmedOf(s))
      BY <3>2, <3>3, <3>4 DEF One
    <3> QED
      BY <3>5, <3>6, <3>7 DEF Owed
  <2> QED
    BY <2>1 DEF RefsExact, SessionInv, RefsInv
<1> QED
  BY <1>1, Invariant, PTL

-----------------------------------------------------------------------------
(* The current snapshot.                                                   *)

\* The current snapshot is alive after every step.
LEMMA CurrentLives ==
    ASSUME RefsInv', refCount' \in [Snap -> Nat], NEW s \in Snap, snapshot' = s
    PROVE  refCount'[s] > 0
<1>1. Cardinality(Users(s)') \in Nat
  <2>1. Users(s)' \subseteq Worker
    BY DEF Users
  <2> QED
    BY <2>1, SessionAssumption, FS_Subset, FS_CardinalityType
<1>2. Owed(s)' >= 1 /\ Owed(s)' \in Nat
  BY <1>1 DEF Owed, One
<1> QED
  BY <1>2 DEF RefsInv

\* A step goes on with what the current snapshot is built from, or adds what
\* the update has flushed.
LEMMA Continues ==
    ASSUME SessionInv, SessionInv', [Next]_vars, snapshot' # None
    PROVE  /\ snapshot \in Snap /\ snapshot' \in Snap
           /\ \/ built'[snapshot'] = built[snapshot]
              \/ updater' = Free /\ built'[snapshot'] = Merged
<1>1. SnapStep
  BY SnapSteps
<1>2. TypeOK /\ RefsInv /\ BuiltInv /\ RefsInv' /\ refCount' \in [Snap -> Nat] /\ snapshot' \in Snap
  BY DEF SessionInv, TypeOK
<1>3. PICK n \in Snap : n = snapshot'
  BY <1>2
<1>4. refCount'[n] > 0
  BY <1>2, <1>3, CurrentLives
<1>5. CASE UNCHANGED snapshot
  <2>1. snapshot = n /\ refCount[n] > 0
    BY <1>2, <1>3, <1>5, Alive
  <2>2. built'[n] = built[n]
    BY <1>1, <1>4, <2>1 DEF SnapStep, RefsStep, Steady
  <2> QED
    BY <1>3, <2>1, <2>2
<1>6. ASSUME NEW t \in tasks, Cloned(t), snapshot = t.base, n = t.clone
      PROVE  snapshot \in Snap /\ built'[n] = built[snapshot]
  <2>1. t \in TaskType
    BY <1>2 DEF TypeOK
  <2>2. t.base \in Snap /\ t.clone \in Snap /\ refCount[t.base] > 0 /\ refCount[t.clone] > 0
    BY <1>2, <1>6, <2>1, TaskFacts, Alive DEF Cloned
  <2>3. built[t.clone] = built[t.base]
    BY <1>2, <1>6, <2>2 DEF BuiltInv
  <2>4. built'[n] = built[n]
    BY <1>1, <1>4, <1>6, <2>2 DEF SnapStep, RefsStep, Steady
  <2> QED
    BY <1>6, <2>2, <2>3, <2>4
<1> QED
  BY <1>1, <1>2, <1>3, <1>5, <1>6 DEF SnapStep, Onward

\* adoptSnapshotChange and the updates together never put back a snapshot that
\* lacks a change, or has older preferences, than the one before.
THEOREM Forward == Spec => NeverBack
<1> DEFINE Step ==
        snapshot' # None =>
          /\ built[snapshot].changes \subseteq built'[snapshot'].changes
          /\ built[snapshot].config <= built'[snapshot'].config
<1>1. ASSUME SessionInv, SessionInv', [Next]_vars, snapshot' # None
      PROVE  /\ built[snapshot].changes \subseteq built'[snapshot'].changes
             /\ built[snapshot].config <= built'[snapshot'].config
  <2>1. snapshot \in Snap /\ built[snapshot].config \in Nat
    BY <1>1, Continues DEF SessionInv, TypeOK
  <2>2. CASE built'[snapshot'] = built[snapshot]
    BY <2>1, <2>2
  <2>3. CASE built'[snapshot'] = Merged
    <3>1. /\ built'[snapshot'].changes = built[snapshot].changes \cup (updater.files \cup updater.ata)
          /\ built'[snapshot'].config = IF updater.config = 0 THEN built[snapshot].config ELSE updater.config
      BY <2>3 DEF Merged
    <3>2. updater.config # 0 => built[snapshot].config <= updater.config
      BY <1>1, <2>1 DEF SessionInv, BuiltInv
    <3> QED
      BY <2>1, <3>1, <3>2
  <2> QED
    BY <1>1, <2>2, <2>3, Continues
<1>2. SessionInv /\ SessionInv' /\ [Next]_vars => [Step]_vars
  BY <1>1
<1>3. NeverBack <=> [][Step]_vars
  BY DEF NeverBack
<1> HIDE DEF Step
<1> QED
  BY <1>2, <1>3, Invariant, PTL DEF Spec

-----------------------------------------------------------------------------
(* Nothing is lost.                                                        *)

\* The part of NothingLost that is about changes.
ChangesKept ==
    snapshot # None => 1 .. arrived \subseteq Pending \cup built[snapshot].changes

\* Every step keeps the changes.
LEMMA ChangesStep ==
    ASSUME SessionInv, SessionInv', [Next]_vars, ChangesKept
    PROVE  ChangesKept'
<1> SUFFICES ASSUME snapshot' # None
             PROVE  1 .. arrived' \subseteq Pending' \cup built'[snapshot'].changes
  BY DEF ChangesKept
<1>1. /\ snapshot \in Snap
      /\ built'[snapshot'] = built[snapshot] \/ built'[snapshot'] = Merged
  BY Continues
<1>2. built[snapshot].changes \subseteq built'[snapshot'].changes
  BY <1>1 DEF Merged
<1>3. 1 .. arrived \subseteq Pending \cup built[snapshot].changes
  BY <1>1, SnapFacts DEF ChangesKept
<1>4. Carried
  BY ChangeSteps DEF ChangeStep
<1>5. CASE Pending \subseteq Pending'
  BY <1>2, <1>3, <1>4, <1>5 DEF Carried
<1>6. CASE /\ Pending \subseteq Pending' \cup updater.files \cup updater.ata
           /\ built'[snapshot'] = Merged
  <2>1. updater.files \cup updater.ata \subseteq built'[snapshot'].changes
    BY <1>6 DEF Merged
  <2> QED
    BY <1>2, <1>3, <1>4, <1>6, <2>1 DEF Carried
<1> QED
  BY <1>4, <1>5, <1>6 DEF Carried

\* The preferences that were set last, as long as no API connection updates
\* where a client configures.
Separate == \A mix \in Mixes : ~({"configure", "api"} \subseteq mix)

PrefsInv ==
    /\ pendingUserConfigChanges => "configure" \in ops
    /\ updater.by = "api" => updater.config = 0
    /\ snapshot # None =>
         pendingUserConfigChanges \/ preferences \in {updater.config, built[snapshot].config}

\* Whoever neither configures nor flushes leaves the preferences alone: an
\* update keeps those it has, begins without, or ends with a snapshot of them.
PrefsKept ==
    /\ UNCHANGED <<pendingUserConfigChanges, preferences, ops>>
    /\ \/ updater'.config = updater.config /\ updater'.by \in {None, updater.by}
       \/ updater = Free /\ updater'.config = 0
       \/ updater' = Free /\ built'[snapshot'] = Merged

\* An update ends with a snapshot of its preferences.
LEMMA UpdatePrefs ==
    ASSUME SessionInv, UNCHANGED <<configVars, ops>>, updater.by # None, NEW c \in {0, 1}, NEW done,
           updateSnapshot(c, done)
    PROVE  PrefsKept
<1>1. updater' = Free /\ built'[snapshot'] = Merged
  BY Updating, UpdateFacts DEF Merged, SessionInv
<1> QED
  BY <1>1 DEF PrefsKept, configVars

\* Every step, by what it does to the preferences.
LEMMA PrefsSteps ==
    ASSUME SessionInv, PrefsInv, [Next]_vars
    PROVE  Configure \/ Flush \/ PrefsKept
<1>0. None \notin Locker /\ Free.config = 0 /\ Free.by = None
  BY SessionAssumption DEF Free
<1>1. ASSUME UNCHANGED <<configVars, ops, updater>> PROVE PrefsKept
  BY <1>1 DEF PrefsKept, configVars
<1>2. CASE \/ DidOpenFile \/ Notify \/ WatcherNotes \/ DispatchSchedules \/ WatcherSchedules
           \/ Shutdown \/ Close \/ closeIdleCacheClean
  BY <1>1, <1>2 DEF DidOpenFile, Notify, WatcherNotes, DispatchSchedules, WatcherSchedules, ScheduleSnapshotUpdate,
        Shutdown, Close, closeIdleCacheClean
<1>3. CASE CloseQueue \/ CloseSnapshot \/ Over \/ UNCHANGED vars \/ IdleFires
  BY <1>1, <1>3 DEF CloseQueue, CloseSnapshot, Over, vars, IdleFires, clientVars
<1>4. CASE \/ \E w \in Worker : WorkerReleases(w) \/ WorkerClones(w)
           \/ \E s \in held : APIReleases(s) \/ APIPrepares(s)
  BY <1>1, <1>4 DEF WorkerReleases, WorkerClones, APIReleases, APIPrepares
<1>5. ASSUME UNCHANGED <<configVars, ops>>, NEW who, Locked(who, "flush") PROVE PrefsKept
  <2>1. updater = Free /\ updater'.config = 0
    BY <1>5 DEF Locked, Free
  <2> QED
    BY <1>5, <2>1 DEF PrefsKept, configVars
<1>6. CASE RequestLocks \/ APIUpdate
  BY <1>5, <1>6 DEF RequestLocks, getSnapshot, APIUpdate, clientVars
<1>7. CASE OpenLocks
  <2>1. updater = Free /\ updater'.config = 0 /\ UNCHANGED <<configVars, ops>>
    BY <1>7 DEF OpenLocks, Free
  <2> QED
    BY <2>1 DEF PrefsKept, configVars
<1>8. CASE OpenUpdates \/ APIAgain \/ APISucceeds
  <2>1. UNCHANGED <<configVars, ops>> /\ updater.by # None /\ (updateSnapshot(0, {}) \/ updateSnapshot(1, {}))
    BY <1>0, <1>8 DEF OpenUpdates, APIAgain, APISucceeds, clientVars, Locker
  <2> QED
    BY <2>1, UpdatePrefs
<1>9. CASE APIFails
  <2>1. updater.config = 0 /\ updater.by = "api" /\ UNCHANGED <<configVars, ops>>
    BY <1>9 DEF APIFails, PrefsInv, clientVars
  <2>2. updater'.config = 0 /\ updater'.by \in {None, updater.by}
    BY <1>0, <1>9, <2>1 DEF APIFails, SessionInv, TypeOK
  <2> QED
    BY <2>1, <2>2 DEF PrefsKept, configVars
<1>10. ASSUME NEW w, RequestGets(w) PROVE PrefsKept
  <2>1. UNCHANGED <<configVars, ops>> /\ updater.by # None
    BY <1>0, <1>10 DEF RequestGets, Locker
  <2>2. CASE updater' = Free /\ NothingFlushed
    BY <1>0, <2>1, <2>2 DEF NothingFlushed, PrefsKept, configVars
  <2>3. CASE updateSnapshot(IF w = None THEN 0 ELSE 1, {})
    <3>1. updateSnapshot(0, {}) \/ updateSnapshot(1, {})
      BY <2>3
    <3> QED
      BY <2>1, <3>1, UpdatePrefs
  <2> QED
    BY <1>10, <2>2, <2>3 DEF RequestGets
<1>11. ASSUME NEW t \in tasks, Task(t) PROVE PrefsKept
  <2>0. UNCHANGED <<configVars, ops>>
    BY <1>11 DEF Task, IdleClears, IdleLocks, IdleUpdates, ScheduledWakes, ScheduledLocks, ScheduledUpdates,
        TaskDropped, Adopt, ATADone, WarmStarts, WarmRefs, WarmClones, WarmAdopts, clientVars
  <2>1. CASE IdleClears(t) \/ ScheduledWakes(t) \/ TaskDropped(t) \/ Adopt(t) \/ ATADone(t)
    BY <1>1, <2>0, <2>1 DEF IdleClears, ScheduledWakes, TaskDropped, Adopt, ATADone
  <2>2. CASE WarmStarts(t) \/ WarmRefs(t) \/ WarmClones(t) \/ WarmAdopts(t)
    BY <1>1, <2>0, <2>2 DEF WarmStarts, WarmRefs, WarmClones, WarmAdopts
  <2>3. CASE IdleLocks(t) \/ ScheduledLocks(t)
    BY <1>5, <2>0, <2>3 DEF IdleLocks, ScheduledLocks
  <2>4. CASE IdleUpdates(t) \/ ScheduledUpdates(t)
    <3>1. updater.by # None
      BY <1>0, <2>4 DEF IdleUpdates, ScheduledUpdates, Locker
    <3>2. CASE updater' = Free /\ NothingFlushed
      BY <1>0, <2>0, <3>2 DEF NothingFlushed, PrefsKept, configVars
    <3>3. CASE updateSnapshot(0, {t})
      BY <2>0, <3>1, <3>3, UpdatePrefs
    <3> QED
      BY <2>4, <3>2, <3>3 DEF IdleUpdates, ScheduledUpdates
  <2> QED
    BY <1>11, <2>1, <2>2, <2>3, <2>4 DEF Task
<1> QED
  BY <1>2, <1>3, <1>4, <1>6, <1>7, <1>8, <1>9, <1>10, <1>11 DEF Next, Going, RequestAnswered

\* Every step keeps the preferences.
LEMMA PrefsStep ==
    ASSUME Separate, SessionInv, SessionInv', [Next]_vars, PrefsInv
    PROVE  PrefsInv'
<1>0. /\ updater \in UpdaterType /\ preferences \in Nat /\ updater.config \in Nat
      /\ snapshot \in Snap => built[snapshot].config \in 0 .. preferences
  BY DEF SessionInv, TypeOK, UpdaterType
<1>1. CASE Configure
  <2>1. pendingUserConfigChanges' /\ "configure" \in ops /\ ops' = ops /\ updater' = updater
    BY <1>1 DEF Configure, clientVars
  <2> QED
    BY <2>1 DEF PrefsInv
<1>2. CASE Flush
  <2>1. /\ ops' = ops /\ snapshot' = snapshot /\ built' = built /\ preferences' = preferences
        /\ ~pendingUserConfigChanges' /\ updater.config = 0
    BY <1>2 DEF Flush, snapVars, clientVars, SessionInv, PhaseInv
  <2>2. /\ updater'.by = updater.by
        /\ updater'.config = IF pendingUserConfigChanges /\ updater.by # "api" THEN preferences ELSE 0
    BY <1>0, <1>2 DEF Flush, UpdaterType
  <2>3. pendingUserConfigChanges => updater.by # "api"
    BY DEF PrefsInv, SessionInv, PhaseInv, TypeOK, Separate
  <2> QED
    BY <2>1, <2>2, <2>3 DEF PrefsInv
<1>3. CASE PrefsKept
  <2>1. PrefsKept /\ "api" # None /\ Free.by = None /\ Free.config = 0
    BY <1>3, SessionAssumption DEF Free, Locker
  <2>2. (pendingUserConfigChanges => "configure" \in ops)'
    BY <2>1 DEF PrefsKept, PrefsInv
  <2>3. updater'.by = "api" => updater'.config = 0
    BY <2>1 DEF PrefsKept, PrefsInv
  <2>4. ASSUME snapshot' # None, ~pendingUserConfigChanges'
        PROVE  preferences' \in {updater'.config, built'[snapshot'].config}
    <3>1. /\ snapshot \in Snap
          /\ built'[snapshot'] = built[snapshot] \/ built'[snapshot'] = Merged
      BY <2>4, Continues
    <3>2. /\ preferences' = preferences /\ preferences \in {updater.config, built[snapshot].config}
          /\ built[snapshot].config \in 0 .. preferences
      BY <1>0, <2>1, <2>4, <3>1, SnapFacts DEF PrefsKept, PrefsInv
    <3>3. updater.config # 0 => built[snapshot].config <= updater.config /\ updater.config <= preferences
      BY <1>0, <3>1 DEF SessionInv, BuiltInv, UpdaterType
    <3>4. CASE built'[snapshot'] = Merged
      <4>1. built'[snapshot'].config = IF updater.config = 0 THEN built[snapshot].config ELSE updater.config
        BY <3>4 DEF Merged
      <4> QED
        BY <1>0, <3>2, <3>3, <4>1
    <3>5. CASE built'[snapshot'] = built[snapshot] /\ updater'.config = updater.config
      BY <3>2, <3>5
    <3>6. CASE built'[snapshot'] = built[snapshot] /\ updater = Free
      BY <1>0, <2>1, <3>2, <3>6
    <3> QED
      BY <2>1, <3>1, <3>4, <3>5, <3>6 DEF PrefsKept
  <2> QED
    BY <2>2, <2>3, <2>4 DEF PrefsInv
<1> QED
  BY <1>1, <1>2, <1>3, PrefsSteps

\* Every change the session was told of stays pending, flushed or built,
\* whatever fails, is canceled or is adopted meanwhile.
THEOREM Changes == Spec => []ChangesKept
<1>1. Init => ChangesKept
  BY DEF Init, ChangesKept
<1>2. SessionInv /\ SessionInv' /\ [Next]_vars /\ ChangesKept => ChangesKept'
  BY ChangesStep
<1> QED
  BY <1>1, <1>2, Invariant, PTL DEF Spec

\* So do the preferences, where no API connection updates besides the client
\* that configures: APIUpdate drops those that are pending.
THEOREM Lossless ==
    ASSUME Separate
    PROVE  Spec => []NothingLost
<1>1. Init => PrefsInv
  <2>1. "api" # None
    BY SessionAssumption DEF Locker
  <2> QED
    BY <2>1 DEF Init, PrefsInv, Free
<1>2. SessionInv /\ SessionInv' /\ [Next]_vars /\ PrefsInv => PrefsInv'
  BY PrefsStep
<1>3. ChangesKept /\ PrefsInv => NothingLost
  BY DEF ChangesKept, PrefsInv, NothingLost, Pending
<1> QED
  BY <1>1, <1>2, <1>3, Changes, Invariant, PTL DEF Spec
=============================================================================
