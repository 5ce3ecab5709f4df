------------------------------ MODULE MCServer ------------------------------
(***************************************************************************)
(* What the language server owes its clients in the end, for TLC: of the   *)
(* loops and the queue (MCLsp), and of a session whose scheduled updates,  *)
(* and whose end, are to come.  In a behaviour one part runs, while the    *)
(* others stay as they are at first.                                       *)
(***************************************************************************)
EXTENDS MCLsp

CONSTANTS Worker, Mixes, MaxSnapshots, MaxChanges, MaxConfigs, MaxTimers, None

CONSTANTS p1, p2, r1, r2, w1

VARIABLES
    snapshot, refCount, built,
    pendingFileChanges, pendingATAChanges, arrived,
    pendingUserConfigChanges, preferences,
    updater, generation, scheduled, tasks, warm, warmCanceled,
    cleanTimer, queueClosed, backgroundDone,
    dispatch, watcher, workers, held, ops

Ses == INSTANCE Session WITH idle <- cleanTimer, work <- workers

sessionVars == <<snapshot, refCount, built, pendingFileChanges, pendingATAChanges, arrived,
                 pendingUserConfigChanges, preferences, updater, generation, scheduled, tasks,
                 warm, warmCanceled, cleanTimer, queueClosed, backgroundDone, dispatch, watcher,
                 workers, held, ops>>
serverVars == <<allVars, sessionVars>>

\* The mixes in which an update is scheduled, or the session is closed.
EndingMixes ==
    {{"watch", "request", "api"},
     {"close", "request", "handler", "idle", "shutdown"}}

ServerInit ==
    /\ Ses!Init
    /\ \/ MCInit /\ ops = CHOOSE mix \in Mixes : TRUE
       \/ /\ part = "session" /\ LoopsWait
          /\ Init /\ item = [p \in Process |-> CHOOSE i \in Item : TRUE]

ServerNext ==
    \/ MCNext /\ UNCHANGED sessionVars
    \/ part = "session" /\ Ses!Next /\ UNCHANGED allVars

ServerSpec ==
    /\ ServerInit /\ [][ServerNext]_serverVars
    /\ \/ part = "queue" /\ Fairness
       \/ part = "loops" /\ Lsp!Fairness
       \/ part = "session" /\ Ses!Fairness

-----------------------------------------------------------------------------
(* The properties of Session's ends.                                       *)

\* A change that schedules an update is flushed in the end, however often
\* updates are scheduled anew and canceled by others, unless the session is
\* being closed (ScheduleSnapshotUpdate, getSnapshot, APIUpdate).
Flushed == Ses!Flushed

\* Close waits for the idle timer's callbacks and for the queue's tasks, which
\* wait for locks themselves; it comes to its end all the same.
Closes == Ses!Closes
============================================================================
