------------------------------ MODULE Session ------------------------------
(***************************************************************************)
(* The language server's session (internal/project/session.go, api.go,     *)
(* and the reference count of snapshot.go): one current snapshot, replaced *)
(* by every update, while goroutines that read older ones hold references. *)
(*                                                                         *)
(* An update holds snapshotUpdateMu from before it flushes the pending     *)
(* changes until its clone is the current snapshot.  Who updates: the      *)
(* dispatch loop (a file opened, a request), a handler that it left work   *)
(* to, an API connection, a debounced background task, the idle timer.     *)
(* The builtin watcher tells of changes beside them, and a snapshot        *)
(* cloned without the lock, with auto-imports prepared, is adopted if the  *)
(* session has not moved on.                                               *)
(*                                                                         *)
(* snapshotMu is held only within single steps: nothing else can happen to *)
(* what it protects between its Lock and Unlock.  A snapshot is abstracted *)
(* to the changes and the preferences it was built from.                   *)
(***************************************************************************)
EXTENDS Integers, FiniteSets, FiniteSetsExt

CONSTANTS
    Worker,        \* goroutines of requests with a snapshot of their own
    Mixes,         \* what clients do: sets of operations, one for a behaviour
    MaxSnapshots, MaxChanges, MaxConfigs, MaxTimers,   \* bounds
    None

\* On whose behalf snapshotUpdateMu is taken.
Locker == {"open", "request", "handler", "scheduled", "idle", "api"}

ASSUME SessionAssumption ==
    /\ MaxSnapshots \in Nat /\ MaxChanges \in Nat /\ MaxConfigs \in Nat
    /\ MaxTimers \in Nat
    /\ Mixes \subseteq SUBSET {"open", "close", "change", "request", "retain", "configure",
                               "api", "ata", "warm", "idle", "shutdown", "handler", "watch"}
    /\ None \notin Nat \cup Locker \cup Worker /\ IsFiniteSet(Worker)

Snap   == 0 .. MaxSnapshots
Change == 1 .. MaxChanges

VARIABLES
    snapshot, refCount, built,  \* s.snapshot; each count, and what it was built from
    pendingFileChanges, pendingATAChanges, arrived,
    pendingUserConfigChanges, preferences,
    updater,                    \* who holds snapshotUpdateMu, and what it flushed
    generation, scheduled,      \* scheduledSnapshotUpdateGeneration, Cancel # nil
    tasks,                      \* goroutines of the background queue and the timer
    warm, warmCanceled,         \* whose warmAutoImportCancel it is; contexts canceled
    idle,                       \* idleCacheCleanTimer, and the WaitGroup
    queueClosed, backgroundDone,
    dispatch, watcher,          \* the dispatch loop, the builtin watcher's goroutine
    work, held,                 \* the workers, the API's snapshots
    ops                         \* the operations of this behaviour's clients

snapVars    == <<snapshot, refCount, built>>
pendingVars == <<pendingFileChanges, pendingATAChanges, arrived>>
configVars  == <<pendingUserConfigChanges, preferences>>
schedVars   == <<generation, scheduled>>
warmVars    == <<warm, warmCanceled>>
closeVars   == <<queueClosed, backgroundDone>>
clientVars  == <<dispatch, watcher, work, held, ops>>
vars == <<snapVars, pendingVars, configVars, updater, schedVars, tasks, warmVars,
          idle, closeVars, clientVars>>

Nothing == [changes |-> {}, config |-> 0]
Free == [by |-> None, at |-> "free", files |-> {}, ata |-> {}, config |-> 0]

Init ==
    /\ snapshot = 0
    /\ refCount = [s \in Snap |-> IF s = 0 THEN 1 ELSE 0]
    /\ built = [s \in Snap |-> Nothing]
    /\ pendingFileChanges = {} /\ pendingATAChanges = {} /\ arrived = 0
    /\ pendingUserConfigChanges = FALSE /\ preferences = 0
    /\ updater = Free
    /\ generation = 0 /\ scheduled = FALSE
    /\ tasks = {}
    /\ warm = None /\ warmCanceled = {}
    /\ idle = [timer |-> 0, armed |-> FALSE, wg |-> 0, closed |-> FALSE]
    /\ queueClosed = FALSE /\ backgroundDone = FALSE
    /\ dispatch = "ready" /\ watcher = "ready" /\ work = [w \in Worker |-> [at |-> "none"]] /\ held = {}
    /\ ops \in Mixes

\* Enqueue: a closed queue, or a context that is done, drops the task.
Enqueue(new) ==
    tasks' = IF queueClosed \/ backgroundDone THEN tasks ELSE tasks \cup new

Finish(t) == tasks' = tasks \ {t}
Move(t, u) == tasks' = (tasks \ {t}) \cup {u}

-----------------------------------------------------------------------------
(* Timers and cancellation                                                 *)

cancelScheduledSnapshotUpdate ==
    /\ scheduled' = FALSE
    /\ generation' = IF scheduled THEN generation + 1 ELSE generation

\* The cancel function does nothing once its warming task is over.
WarmCanceledNow ==
    warmCanceled \cup ({warm} \cap {t.base : t \in {u \in tasks : u.kind = "warm" /\ u.at # "start"}})

cancelWarmAutoImportCache == warm' = None /\ warmCanceled' = WarmCanceledNow

\* Timers still in use: the one that is stored, and those whose callback has
\* not compared itself with it yet.
TimersInUse == {idle.timer} \cup {t.timer : t \in {u \in tasks : u.kind = "idle"}}

\* A timer that Stop() still found armed gives its count of the group back.
scheduleIdleCacheClean ==
    IF idle.closed \/ "idle" \notin ops
      THEN UNCHANGED idle
      ELSE \E n \in (1 .. MaxTimers) \ TimersInUse :
             idle' = [idle EXCEPT !.timer = n, !.armed = TRUE,
                                  !.wg = IF idle.armed THEN @ ELSE @ + 1]

IdleFires ==
    /\ idle.armed
    /\ idle' = [idle EXCEPT !.armed = FALSE]
    /\ tasks' = tasks \cup {[kind |-> "idle", timer |-> idle.timer, at |-> "clear"]}
    /\ UNCHANGED <<snapVars, pendingVars, configVars, updater, schedVars, warmVars,
                   closeVars, clientVars>>

IdleClears(t) ==
    /\ t.kind = "idle" /\ t.at = "clear"
    /\ idle' = IF idle.timer = t.timer THEN [idle EXCEPT !.timer = 0] ELSE idle
    /\ Move(t, [t EXCEPT !.at = "lock"])
    /\ UNCHANGED <<snapVars, pendingVars, configVars, updater, schedVars, warmVars,
                   closeVars, clientVars>>

-----------------------------------------------------------------------------
(* Updates                                                                 *)

Locked(who, at) == updater = Free /\ updater' = [Free EXCEPT !.by = who, !.at = at]

\* flushChanges, all three kinds; APIUpdate drops the preferences it is given.
Flush ==
    /\ updater.at = "flush"
    /\ updater' = [updater EXCEPT
                     !.at = "update", !.files = pendingFileChanges, !.ata = pendingATAChanges,
                     !.config = IF pendingUserConfigChanges /\ updater.by # "api"
                                  THEN preferences ELSE 0]
    /\ pendingFileChanges' = {} /\ pendingATAChanges' = {}
    /\ pendingUserConfigChanges' = FALSE
    /\ UNCHANGED <<snapVars, arrived, preferences, schedVars, tasks, warmVars, idle,
                   closeVars, clientVars>>

NothingFlushed == updater.files = {} /\ updater.ata = {} /\ updater.config = 0

\* Identities a new snapshot can have: those of no snapshot that is alive or
\* that a task may still compare with the current one.
Unused == {s \in Snap : refCount[s] = 0}
            \ {t.base : t \in {u \in tasks : u.kind \in {"adopt", "warm"}}}
New == Min(Unused)

\* Bound: one more snapshot may be kept besides the current one and still
\* leave an identity for the next update.
Kept == (Snap \ Unused) \ (IF snapshot # None /\ refCount[snapshot] = 1 THEN {snapshot} ELSE {})
Room == Cardinality(Kept) + 3 <= Cardinality(Snap)

\* Deref: the last reference disposes of the snapshot.
Counted(count, from) ==
    /\ refCount' = count
    /\ built' = [s \in Snap |-> IF count[s] = 0 THEN Nothing ELSE from[s]]

\* Clone: the new snapshot is built from its base and the change.
Clone(base, changes, config) ==
    [built EXCEPT ![New] = [changes |-> built[base].changes \cup changes,
                            config |-> IF config = 0 THEN built[base].config ELSE config]]

\* What an update leaves to the queue: the installation of types, and, when
\* one file was edited, the warming of auto-imports.
AfterUpdate(ata) ==
    (IF Cardinality(updater.files) = 1 /\ "warm" \in ops
       THEN {[kind |-> "warm", base |-> New, at |-> "start"]} ELSE {})
      \cup (IF ata THEN {[kind |-> "ata", at |-> "start"]} ELSE {})

\* The clone's reference becomes the session's; the old one is released, and
\* callerRefs more are taken before snapshotMu is unlocked.
updateSnapshot(callerRefs, done) ==
    /\ Unused # {}
    /\ snapshot' = New
    /\ Counted([refCount EXCEPT ![New] = 1 + callerRefs, ![snapshot] = @ - 1],
               Clone(snapshot, updater.files \cup updater.ata, updater.config))
    /\ updater' = Free
    /\ \E ata \in {FALSE, "ata" \in ops} :
         tasks' = (tasks \ done) \cup (IF queueClosed \/ backgroundDone THEN {}
                                         ELSE AfterUpdate(ata))

-----------------------------------------------------------------------------
(* The dispatch loop                                                       *)

NewChange == arrived < MaxChanges /\ arrived' = arrived + 1

DidOpenFile ==
    /\ "open" \in ops /\ dispatch = "ready" /\ arrived < MaxChanges
    /\ cancelWarmAutoImportCache /\ scheduleIdleCacheClean
    /\ cancelScheduledSnapshotUpdate
    /\ dispatch' = "opening"
    /\ UNCHANGED <<snapVars, pendingVars, configVars, updater, tasks, closeVars, watcher, work, held, ops>>

\* Only the file changes are flushed here, the file's own among them.
OpenLocks ==
    /\ dispatch = "opening" /\ NewChange
    /\ updater = Free
    /\ updater' = [Free EXCEPT !.by = "open", !.at = "update",
                     !.files = pendingFileChanges \cup {arrived'}]
    /\ pendingFileChanges' = {}
    /\ dispatch' = "updating"
    /\ UNCHANGED <<snapVars, pendingATAChanges, configVars, schedVars, tasks, warmVars,
                   idle, closeVars, watcher, work, held, ops>>

OpenUpdates ==
    /\ updater.by = "open"
    /\ updateSnapshot(0, {})
    /\ dispatch' = "ready"
    /\ UNCHANGED <<pendingVars, configVars, schedVars, warmVars, idle, closeVars, watcher, work, held, ops>>

\* DidChangeFile and DidSaveFile only note the change, and DidSaveFile leaves
\* the warming alone; DidCloseFile, and DidChangeWatchedFiles for a config
\* file, go on to schedule an update.
Notify ==
    /\ dispatch = "ready" /\ NewChange
    /\ pendingFileChanges' = pendingFileChanges \cup {arrived'}
    /\ \/ "change" \in ops /\ dispatch' = "ready" /\ (cancelWarmAutoImportCache \/ UNCHANGED warmVars)
       \/ "close" \in ops /\ dispatch' = "schedule" /\ cancelWarmAutoImportCache
    /\ scheduleIdleCacheClean
    /\ UNCHANGED <<snapVars, pendingATAChanges, configVars, updater, schedVars, tasks,
                   closeVars, watcher, work, held, ops>>

ScheduleSnapshotUpdate ==
    /\ generation' = generation + 1 /\ scheduled' = TRUE
    /\ Enqueue({[kind |-> "scheduled", gen |-> generation', at |-> "wait"]})
    /\ UNCHANGED <<snapVars, pendingVars, configVars, updater, warmVars, idle, closeVars,
                   work, held, ops>>

DispatchSchedules ==
    /\ dispatch = "schedule" /\ dispatch' = "ready"
    /\ ScheduleSnapshotUpdate
    /\ UNCHANGED watcher

Configure ==
    /\ "configure" \in ops /\ dispatch = "ready" /\ preferences < MaxConfigs
    /\ preferences' = preferences + 1 /\ pendingUserConfigChanges' = TRUE
    /\ UNCHANGED <<snapVars, pendingVars, updater, schedVars, tasks, warmVars, idle,
                   closeVars, clientVars>>

\* getSnapshot locks, and only then cancels the scheduled update.
getSnapshot(who) ==
    /\ snapshot # None
    /\ Locked(who, "flush")
    /\ cancelScheduledSnapshotUpdate
    /\ UNCHANGED <<snapVars, pendingVars, configVars, tasks, warmVars, idle, closeVars, watcher,
                   work, held, ops>>

\* Called by dispatchLoop, or by a handler in its asynchronous part.
RequestLocks ==
    \/ "request" \in ops /\ dispatch = "ready" /\ dispatch' = "updating" /\ getSnapshot("request")
    \/ "handler" \in ops /\ dispatch' = dispatch /\ getSnapshot("handler")

\* The request's snapshot: a new one, or, with nothing flushed and nothing
\* to load, the current one.  A worker with callerRef holds a reference; only
\* one that dispatchLoop got it for may clone it.
RequestGets(w) ==
    /\ updater.by \in {"request", "handler"} /\ updater.at = "update"
    /\ dispatch' = IF updater.by = "request" THEN "ready" ELSE dispatch
    /\ \/ updateSnapshot(IF w = None THEN 0 ELSE 1, {})
       \/ /\ NothingFlushed
          /\ refCount' = IF w = None THEN refCount ELSE [refCount EXCEPT ![snapshot] = @ + 1]
          /\ updater' = Free
          /\ UNCHANGED <<snapshot, built, tasks>>
    /\ work' = IF w = None THEN work
               ELSE [work EXCEPT ![w] = [at |-> IF updater.by = "request" THEN "run" ELSE "cloned",
                                         base |-> snapshot']]
    /\ UNCHANGED <<pendingVars, configVars, schedVars, warmVars, idle, closeVars, watcher, held, ops>>

RequestAnswered ==
    \/ RequestGets(None)
    \/ \E w \in Worker : "retain" \in ops /\ work[w].at = "none" /\ Room /\ RequestGets(w)

-----------------------------------------------------------------------------
(* The builtin watcher: DidChangeWatchedFiles in a goroutine of its own     *)

\* An opened file has its number already.
WatcherNotes ==
    /\ "watch" \in ops /\ watcher = "ready" /\ snapshot # None
    /\ dispatch # "opening" /\ NewChange
    /\ pendingFileChanges' = pendingFileChanges \cup {arrived'}
    /\ watcher' \in {at \in {"ready", "schedule"} : at = "ready" => "change" \in ops}
    /\ cancelWarmAutoImportCache /\ scheduleIdleCacheClean
    /\ UNCHANGED <<snapVars, pendingATAChanges, configVars, updater, schedVars, tasks,
                   closeVars, dispatch, work, held, ops>>

WatcherSchedules ==
    /\ watcher = "schedule" /\ watcher' = "ready"
    /\ ScheduleSnapshotUpdate
    /\ UNCHANGED dispatch

-----------------------------------------------------------------------------
(* Clones made without snapshotUpdateMu, and their adoption                *)

\* GetLanguageServiceWithAutoImports.  Without a project for the file the
\* clone is released at once, and nothing has changed.
WorkerClones(w) ==
    /\ work[w].at = "run" /\ Room
    /\ \/ /\ Counted([refCount EXCEPT ![New] = 1], Clone(work[w].base, {}, 0))
          /\ Enqueue({[kind |-> "adopt", base |-> work[w].base, clone |-> New, at |-> "start"]})
       \/ UNCHANGED <<refCount, built, tasks>>
    /\ work' = [work EXCEPT ![w].at = "cloned"]
    /\ UNCHANGED <<snapshot, pendingVars, configVars, updater, schedVars, warmVars, idle,
                   closeVars, dispatch, watcher, held, ops>>

WorkerReleases(w) ==
    /\ work[w].at \in {"run", "cloned"}
    /\ Counted([refCount EXCEPT ![work[w].base] = @ - 1], built)
    /\ work' = [work EXCEPT ![w] = [at |-> "none"]]
    /\ UNCHANGED <<snapshot, pendingVars, configVars, updater, schedVars,
                   tasks, warmVars, idle, closeVars, dispatch, watcher, held, ops>>

\* Mutant: the clone is adopted whatever the session's snapshot is by now.
AdoptingAlways(base, clone) == TRUE

\* The snapshots an adoption releases, and the one that is current after it.
Adopting(base, clone) == snapshot = base

\* Mutant: the snapshot that is replaced keeps the session's reference.
adoptKeepingOld(base, clone, alsoDeref) ==
    /\ snapshot' = IF Adopting(base, clone) THEN clone ELSE snapshot
    /\ Counted([s \in Snap |-> refCount[s] - (IF s = clone /\ ~Adopting(base, clone) THEN 1 ELSE 0)
                                          - (IF s \in alsoDeref THEN 1 ELSE 0)], built)

adoptSnapshotChange(base, clone, alsoDeref) ==
    /\ snapshot' = IF Adopting(base, clone) THEN clone ELSE snapshot
    /\ LET left == IF Adopting(base, clone) THEN snapshot ELSE clone
       IN  Counted([s \in Snap |-> refCount[s] - (IF s = left THEN 1 ELSE 0)
                                              - (IF s \in alsoDeref THEN 1 ELSE 0)], built)

\* The queue's goroutine looks at the context again before it runs the task.
TaskDropped(t) ==
    /\ t.kind \in {"adopt", "warm", "ata"} /\ t.at = "start"
    /\ backgroundDone
    /\ Finish(t)
    /\ UNCHANGED <<snapVars, pendingVars, configVars, updater, schedVars, warmVars, idle,
                   closeVars, clientVars>>

\* It may have done so before the context ended.
Adopt(t) ==
    /\ t.kind = "adopt"
    /\ adoptSnapshotChange(t.base, t.clone, {})
    /\ Finish(t)
    /\ UNCHANGED <<pendingVars, configVars, updater, schedVars, warmVars,
                   idle, closeVars, clientVars>>

WarmStarts(t) ==
    /\ t.kind = "warm" /\ t.at = "start" /\ ~backgroundDone
    /\ \/ Finish(t) /\ UNCHANGED warmVars       \* prepared already, or not wanted
       \/ /\ warmCanceled' = WarmCanceledNow
          /\ warm' = t.base
          /\ Move(t, [t EXCEPT !.at = "ref"])
    /\ UNCHANGED <<snapVars, pendingVars, configVars, updater, schedVars, idle, closeVars,
                   clientVars>>

\* warmCtx is done.
WarmDone(t) == t.base \in warmCanceled \/ backgroundDone

\* tryRef: the snapshot may be gone by now, if warming was not canceled before.
WarmRefs(t) ==
    /\ t.kind = "warm" /\ t.at = "ref"
    /\ \/ /\ refCount[t.base] = 0 \/ WarmDone(t)
          /\ Finish(t)
          /\ warmCanceled' = warmCanceled \ {t.base}
          /\ UNCHANGED refCount
       \/ /\ refCount[t.base] > 0
          /\ refCount' = [refCount EXCEPT ![t.base] = @ + 1]
          /\ Move(t, [t EXCEPT !.at = "clone"])
          /\ UNCHANGED warmCanceled
    /\ UNCHANGED <<snapshot, built, pendingVars, configVars, updater, schedVars,
                   warm, idle, closeVars, clientVars>>

\* Clone, and whether warming was canceled during it: then the clone is released,
\* and so is the reference of the snapshot it was made from.
WarmClones(t) ==
    /\ t.kind = "warm" /\ t.at = "clone"
    /\ \/ /\ WarmDone(t)
          /\ Counted([refCount EXCEPT ![t.base] = @ - 1], built)
          /\ Finish(t)
          /\ warmCanceled' = warmCanceled \ {t.base}
       \/ /\ ~WarmDone(t) /\ Room
          /\ Counted([refCount EXCEPT ![New] = 1], Clone(t.base, {}, 0))
          /\ Move(t, [kind |-> "warm", at |-> "adopt", base |-> t.base, clone |-> New])
          /\ UNCHANGED warmCanceled
    /\ UNCHANGED <<snapshot, pendingVars, configVars, updater, schedVars, warm, idle,
                   closeVars, clientVars>>

\* Nothing keeps the clone from being adopted any more, whatever is canceled.
WarmAdopts(t) ==
    /\ t.kind = "warm" /\ t.at = "adopt"
    /\ adoptSnapshotChange(t.base, t.clone, {t.base})
    /\ Finish(t)
    /\ warmCanceled' = warmCanceled \ {t.base}
    /\ UNCHANGED <<pendingVars, configVars, updater, schedVars, warm, idle, closeVars, clientVars>>

\* The installation of types ends with a change of its own.
ATADone(t) ==
    /\ t.kind = "ata"
    /\ Finish(t)
    /\ \/ /\ dispatch # "opening" /\ NewChange      \* the opened file has its number
          /\ pendingATAChanges' = pendingATAChanges \cup {arrived'}
       \/ UNCHANGED <<arrived, pendingATAChanges>>
    /\ UNCHANGED <<snapVars, pendingFileChanges, configVars, updater, schedVars, warmVars,
                   idle, closeVars, clientVars>>

-----------------------------------------------------------------------------
(* Background updates                                                      *)

\* A debounced task whose context was canceled gives up, and so does one
\* whose delay has passed but whose generation has too.
Superseded(t) == t.gen # generation

ScheduledWakes(t) ==
    /\ t.kind = "scheduled" /\ t.at = "wait"
    /\ \/ (Superseded(t) \/ backgroundDone) /\ Finish(t) /\ UNCHANGED scheduled
       \/ /\ ~Superseded(t)
          /\ scheduled' = FALSE
          /\ Move(t, [t EXCEPT !.at = "lock"])
    /\ UNCHANGED <<snapVars, pendingVars, configVars, updater, generation, warmVars, idle,
                   closeVars, clientVars>>

ScheduledLocks(t) ==
    /\ t.kind = "scheduled" /\ t.at = "lock"
    /\ Locked("scheduled", "flush")
    /\ Move(t, [t EXCEPT !.at = "locked"])
    /\ UNCHANGED <<snapVars, pendingVars, configVars, schedVars, warmVars, idle, closeVars,
                   clientVars>>

ScheduledUpdates(t) ==
    /\ t.kind = "scheduled" /\ t.at = "locked"
    /\ updater.by = "scheduled" /\ updater.at = "update"
    /\ IF NothingFlushed
         THEN updater' = Free /\ Finish(t) /\ UNCHANGED snapVars
         ELSE updateSnapshot(0, {t})
    /\ UNCHANGED <<pendingVars, configVars, schedVars, warmVars, idle, closeVars, clientVars>>

IdleLocks(t) ==
    /\ t.kind = "idle" /\ t.at = "lock"
    /\ Locked("idle", "flush")
    /\ cancelScheduledSnapshotUpdate
    /\ Move(t, [t EXCEPT !.at = "locked"])
    /\ UNCHANGED <<snapVars, pendingVars, configVars, warmVars, idle, closeVars, clientVars>>

IdleUpdates(t) ==
    /\ t.kind = "idle" /\ t.at = "locked"
    /\ updater.by = "idle" /\ updater.at = "update"
    /\ updateSnapshot(0, {t})
    /\ idle' = [idle EXCEPT !.wg = @ - 1]
    /\ UNCHANGED <<pendingVars, configVars, schedVars, warmVars, closeVars, clientVars>>

-----------------------------------------------------------------------------
(* The API connection                                                      *)

APIOpen == "api" \in ops /\ dispatch \in {"ready", "opening", "updating", "schedule"}

APIUpdate ==
    /\ APIOpen
    /\ Locked("api", "flush")
    /\ cancelScheduledSnapshotUpdate
    /\ UNCHANGED <<snapVars, pendingVars, configVars, tasks, warmVars, idle, closeVars, clientVars>>

\* Mutant: the scheduled update is canceled after the flush.
APISucceedsThenCancels ==
    /\ updater.by = "api" /\ updater.at = "update" /\ Room
    /\ updateSnapshot(1, {})
    /\ held' = held \cup {New}
    /\ cancelScheduledSnapshotUpdate
    /\ UNCHANGED <<pendingVars, configVars, warmVars, idle, closeVars, dispatch, watcher, work, ops>>

APISucceeds ==
    /\ updater.by = "api" /\ updater.at = "update" /\ Room
    /\ updateSnapshot(1, {})
    /\ held' = held \cup {New}
    /\ UNCHANGED <<pendingVars, configVars, schedVars, warmVars, idle, closeVars, dispatch, watcher, work, ops>>

\* Mutant: what was flushed for the failed request is dropped with it.
APIFailsForgetting ==
    /\ updater.by = "api" /\ updater.at = "update"
    /\ updater' = Free
    /\ UNCHANGED <<snapVars, pendingVars, configVars, schedVars, tasks, warmVars, idle,
                   closeVars, clientVars>>

\* The clone of a failed request is never current: it is released.  What was
\* flushed for it goes into an update of its own.
APIFails ==
    /\ updater.by = "api" /\ updater.at = "update"
    /\ updater' = IF updater.files = {} /\ updater.ata = {}
                    THEN Free ELSE [updater EXCEPT !.at = "again"]
    /\ UNCHANGED <<snapVars, pendingVars, configVars, schedVars, tasks, warmVars, idle,
                   closeVars, clientVars>>

APIAgain ==
    /\ updater.by = "api" /\ updater.at = "again"
    /\ updateSnapshot(0, {})
    /\ UNCHANGED <<pendingVars, configVars, schedVars, warmVars, idle, closeVars, clientVars>>

\* TryAdoptSnapshotInBackground: the API keeps its reference of the clone
\* and takes another one for the task.
APIPrepares(base) ==
    /\ APIOpen /\ base \in held /\ Room
    /\ Counted([refCount EXCEPT ![New] = 2], Clone(base, {}, 0))
    /\ held' = held \cup {New}
    /\ Enqueue({[kind |-> "adopt", base |-> base, clone |-> New, at |-> "start"]})
    /\ UNCHANGED <<snapshot, pendingVars, configVars, updater, schedVars, warmVars, idle,
                   closeVars, dispatch, watcher, work, ops>>

APIReleases(s) ==
    /\ s \in held
    /\ held' = held \ {s}
    /\ Counted([refCount EXCEPT ![s] = @ - 1], built)
    /\ UNCHANGED <<snapshot, pendingVars, configVars, updater, schedVars,
                   tasks, warmVars, idle, closeVars, dispatch, watcher, work, ops>>

-----------------------------------------------------------------------------
(* Shutdown: handleShutdown stops the API, then Close runs to its end.     *)

Shutdown ==
    /\ "shutdown" \in ops /\ dispatch = "ready"
    /\ dispatch' = "stopping"
    /\ UNCHANGED <<snapVars, pendingVars, configVars, updater, schedVars, tasks, warmVars,
                   idle, closeVars, watcher, work, held, ops>>

Close ==
    /\ dispatch = "stopping" /\ held = {} /\ updater.by # "api"
    /\ cancelScheduledSnapshotUpdate /\ cancelWarmAutoImportCache
    /\ dispatch' = "closing"
    /\ UNCHANGED <<snapVars, pendingVars, configVars, updater, tasks, idle, closeVars, watcher, work, held, ops>>

\* Mutant: the timer is stopped, its count of the group stays.
closeIdleNotDone ==
    /\ dispatch = "closing"
    /\ idle' = [timer |-> 0, armed |-> FALSE, closed |-> TRUE, wg |-> idle.wg]
    /\ dispatch' = "idleWait"
    /\ UNCHANGED <<snapVars, pendingVars, configVars, updater, schedVars, tasks, warmVars,
                   closeVars, watcher, work, held, ops>>

closeIdleCacheClean ==
    /\ dispatch = "closing"
    /\ idle' = [timer |-> 0, armed |-> FALSE, closed |-> TRUE,
                wg |-> IF idle.armed THEN idle.wg - 1 ELSE idle.wg]
    /\ dispatch' = "idleWait"
    /\ UNCHANGED <<snapVars, pendingVars, configVars, updater, schedVars, tasks, warmVars,
                   closeVars, watcher, work, held, ops>>

CloseQueue ==
    /\ dispatch = "idleWait" /\ idle.wg = 0
    /\ backgroundDone' = TRUE /\ queueClosed' = TRUE
    /\ dispatch' = "queueWait"
    /\ UNCHANGED <<snapVars, pendingVars, configVars, updater, schedVars, tasks, warmVars,
                   idle, watcher, work, held, ops>>

CloseSnapshot ==
    /\ dispatch = "queueWait" /\ tasks = {} /\ updater = Free
    /\ snapshot' = None
    /\ Counted([refCount EXCEPT ![snapshot] = @ - 1], built)
    /\ dispatch' = "closed"
    /\ UNCHANGED <<pendingVars, configVars, updater, schedVars, tasks,
                   warmVars, idle, closeVars, watcher, work, held, ops>>

-----------------------------------------------------------------------------
Task(t) ==
    \/ IdleClears(t) \/ IdleLocks(t) \/ IdleUpdates(t)
    \/ ScheduledWakes(t) \/ ScheduledLocks(t) \/ ScheduledUpdates(t)
    \/ TaskDropped(t) \/ Adopt(t) \/ ATADone(t)
    \/ WarmStarts(t) \/ WarmRefs(t) \/ WarmClones(t) \/ WarmAdopts(t)

\* What goes on by itself, without a new message from a client.
Going ==
    \/ OpenLocks \/ OpenUpdates \/ DispatchSchedules \/ WatcherSchedules \/ RequestAnswered \/ Flush
    \/ IdleFires \/ APISucceeds \/ APIFails \/ APIAgain
    \/ \E s \in held : APIReleases(s)
    \/ \E w \in Worker : WorkerReleases(w)
    \/ Close \/ closeIdleCacheClean \/ CloseQueue \/ CloseSnapshot
    \/ \E t \in tasks : Task(t)

\* The session is closed, and nobody has a snapshot of it any more.
Over == dispatch = "closed" /\ (\A w \in Worker : work[w].at = "none") /\ UNCHANGED vars

Next ==
    \/ DidOpenFile \/ Notify \/ WatcherNotes \/ Configure \/ RequestLocks \/ Shutdown \/ APIUpdate
    \/ \E s \in held : APIPrepares(s)
    \/ \E w \in Worker : WorkerClones(w)
    \/ Going
    \/ Over

Spec == Init /\ [][Next]_vars

\* A task is told from the others of its kind by what it was made for.
TaskOf(kind, n) ==
    \E t \in tasks :
      /\ t.kind = kind
      /\ CASE kind = "scheduled" -> t.gen = n
           [] kind = "idle" -> t.timer = n
           [] kind = "adopt" -> t.clone = n
      /\ Task(t)

\* One step is next for who holds snapshotUpdateMu, unless it is a task.
HolderSteps == Flush \/ OpenUpdates \/ RequestAnswered \/ APISucceeds \/ APIFails \/ APIAgain

\* Every goroutine goes on, and a Go mutex is handed in the end to each one
\* that waits for it.  Clients need not send anything.
Fairness ==
    /\ WF_vars(HolderSteps)
    /\ WF_vars(DispatchSchedules) /\ WF_vars(WatcherSchedules)
    /\ WF_vars(Close \/ closeIdleCacheClean \/ CloseQueue) /\ SF_vars(CloseSnapshot)
    /\ \A g \in 1 .. 2 * MaxChanges - 1 : SF_vars(TaskOf("scheduled", g))
    /\ \A n \in 1 .. MaxTimers : SF_vars(TaskOf("idle", n))
    /\ \A s \in Snap : WF_vars(TaskOf("adopt", s))

-----------------------------------------------------------------------------
(* Properties                                                              *)

\* The goroutines of the queue and the timers, each with what it was made for.
TaskType ==
    [kind : {"adopt"}, base : Snap, clone : Snap, at : {"start"}]
      \cup [kind : {"warm"}, base : Snap, at : {"start", "ref", "clone"}]
      \cup [kind : {"warm"}, base : Snap, clone : Snap, at : {"adopt"}]
      \cup [kind : {"ata"}, at : {"start"}]
      \cup [kind : {"scheduled"}, gen : Nat, at : {"wait", "lock", "locked"}]
      \cup [kind : {"idle"}, timer : Nat, at : {"clear", "lock", "locked"}]

\* What is built, pending or flushed did arrive, and the idle timer's WaitGroup
\* counts the armed timer and the callbacks that have not returned.
TypeOK ==
    /\ snapshot \in Snap \cup {None}
    /\ refCount \in [Snap -> Nat]
    /\ built \in [Snap -> [changes : SUBSET (1 .. arrived), config : 0 .. preferences]]
    /\ arrived \in Nat /\ preferences \in Nat /\ pendingUserConfigChanges \in BOOLEAN
    /\ pendingFileChanges \subseteq 1 .. arrived /\ pendingATAChanges \subseteq 1 .. arrived
    /\ updater \in [by : Locker \cup {None}, at : {"free", "flush", "update", "again"},
                    files : SUBSET (1 .. arrived), ata : SUBSET (1 .. arrived),
                    config : 0 .. preferences]
    /\ generation \in Nat /\ scheduled \in BOOLEAN
    /\ IsFiniteSet(tasks) /\ \A t \in tasks : t \in TaskType
    /\ idle \in [timer : Nat, armed : BOOLEAN, wg : Nat, closed : BOOLEAN]
    /\ idle.wg = Cardinality({t \in tasks : t.kind = "idle"}) + (IF idle.armed THEN 1 ELSE 0)
    /\ queueClosed \in BOOLEAN /\ backgroundDone \in BOOLEAN
    /\ dispatch \in {"ready", "opening", "updating", "schedule", "stopping", "closing",
                     "idleWait", "queueWait", "closed"}
    /\ watcher \in {"ready", "schedule"}
    /\ work \in [Worker -> [at : {"none"}] \cup [at : {"run", "cloned"}, base : Snap]]
    /\ held \subseteq Snap /\ ops \in Mixes

Users(s) == {w \in Worker : work[w].at # "none" /\ work[w].base = s}

\* How many of the session, the workers, the API and the tasks are to release
\* a reference of s.
Holders(s) ==
    (IF snapshot = s THEN 1 ELSE 0)
    + Cardinality(Users(s))
    + (IF s \in held THEN 1 ELSE 0)
    + Cardinality({t \in tasks : t.kind = "adopt" /\ t.clone = s})
    + Cardinality({t \in tasks : t.kind = "warm" /\ t.at \in {"clone", "adopt"} /\ t.base = s})
    + Cardinality({t \in tasks : t.kind = "warm" /\ t.at = "adopt" /\ t.clone = s})

\* ref, tryRef and Deref (snapshot.go) balance: as long as the queue runs its
\* tasks, a snapshot's count is the number of those who will release it, so
\* that none is disposed of in use, counted below zero, or kept for nobody.
RefsExact ==
    /\ TypeOK
    /\ ~backgroundDone => \A s \in Snap : refCount[s] = Holders(s)

\* A file or typings change the session was told of is still pending, in the
\* hands of the update that flushed it, or part of the current snapshot,
\* whatever fails, is canceled or is adopted meanwhile.  The preferences that
\* Configure set last are pending, flushed by an update that is about to use
\* them, or part of the current snapshot.
NothingLost ==
    snapshot # None =>
      /\ 1 .. arrived \subseteq pendingFileChanges \cup pendingATAChanges
                                 \cup updater.files \cup updater.ata \cup built[snapshot].changes
      /\ \/ pendingUserConfigChanges
         \/ preferences \in {updater.config, built[snapshot].config}

\* adoptSnapshotChange and the updates together never put back a snapshot
\* that lacks a change, or has older preferences, than the one before.
NeverBack ==
    [][snapshot' # None =>
         /\ built[snapshot].changes \subseteq built'[snapshot'].changes
         /\ built[snapshot].config <= built'[snapshot'].config]_vars

\* ScheduleSnapshotUpdate: a change that schedules an update is flushed in the
\* end, however often updates are scheduled anew and canceled by others,
\* unless the session is being closed.
Flushed ==
    \A c \in Change : c \in pendingFileChanges ~>
        (c \notin pendingFileChanges \/ dispatch \in {"stopping", "closing", "queueWait", "closed"})

\* Close waits for the idle timer's callbacks and for the queue's tasks, which
\* wait for locks themselves; it comes to its end all the same.
Closes == dispatch = "stopping" ~> dispatch = "closed"
============================================================================
