---------------------------- MODULE CheckerPool ----------------------------
(***************************************************************************)
(* The language server's pool of type checkers                             *)
(* (internal/project/checkerpool.go).  A checker is not safe for use by    *)
(* two goroutines, and unusable once a check in it was canceled.  A        *)
(* goroutine that needs one first takes a token of the category's channel, *)
(* then takes p.mu once to look for the checker its request had before,    *)
(* and once more to take any; on release it gives the checker back under   *)
(* p.mu and the token after it.  Meanwhile requests end, a timer disposes  *)
(* of idle checkers, and the pool may be discarded.                        *)
(*                                                                         *)
(* Time is left out: an idle checker passes its timeout at some moment,    *)
(* and the timer, once set, fires at some moment.                          *)
(***************************************************************************)
EXTENDS Integers, FiniteSets, FiniteSetsExt

CONSTANTS
    Thread,       \* goroutines that call GetChecker
    Mixes,        \* what happens in a behaviour: lifetimes asked for, diagnostics found
    Request,      \* request IDs whose context can be canceled
    File,
    Diag,         \* global diagnostics a check may come upon
    MaxCheckers,  \* opts.MaxCheckers
    MaxCalls,     \* bound on the calls of GetChecker
    None

ASSUME PoolAssumption ==
    /\ MaxCheckers \in Nat /\ MaxCheckers >= 2 /\ MaxCalls \in Nat
    /\ IsFiniteSet(Thread) /\ IsFiniteSet(Diag)
    /\ Mixes \subseteq [lives : SUBSET {"diagnostics", "query", "api"}, diags : SUBSET Diag]
    /\ None \notin Request \cup File /\ None \notin 0 .. MaxCheckers /\ None # "<anonymous>"

Slot     == 0 .. MaxCheckers - 1      \* 0 is the diagnostics checker's
Query    == Slot \ {0}
API      == MaxCheckers               \* stands for persistentChecker
Lifetime == {"diagnostics", "query", "api"}
Checker  == 1 .. MaxCheckers + 1      \* identities; one that is gone is free
NoChecker == 0

\* What requestID is for holdTag: a caller without one holds anonymously.
Tag == Request \cup {"<anonymous>"}

VARIABLES
    pc, call,             \* where a goroutine is, and what it asked for
    got,                  \* the slot and the checker its release function has
    calls,
    sem,                  \* how many tokens each channel holds
    checkers, heldBy,     \* the pool's slots, API included
    lastReleased,         \* "zero", "recent", or past the idle timeout
    fileAssociations, requestAssociations,
    timer, firing,        \* cleanupTimer, and its callbacks that wait for p.mu
    discarded,
    canceled,             \* checkers with WasCanceled
    done, cleanups,       \* contexts that are done, AfterFuncs not run yet
    found,                \* the global diagnostics of the diagnostics checker
    accumulated, changed, counted,
    taken,                \* what was accumulated at the last take
    mix                   \* which mix this behaviour is of

threadVars == <<pc, call, got, calls>>
slotVars   == <<checkers, heldBy, lastReleased, fileAssociations, requestAssociations>>
timerVars  == <<timer, firing, discarded>>
reqVars    == <<done, cleanups>>
diagVars   == <<accumulated, changed, counted, taken, mix>>
vars == <<threadVars, sem, slotVars, timerVars, canceled, reqVars, found, diagVars>>

Call == [life : Lifetime, req : Request \cup {None}, file : File \cup {None}]
NoCall == [life |-> "query", req |-> None, file |-> None]

\* The pool's slots, tokens, associations and timer have their types: no token
\* is ever received from a channel that holds none (createRelease).
TypeOK ==
    /\ pc \in [Thread -> {"idle", "sem", "reacquire", "acquire", "holding", "token"}]
    /\ call \in [Thread -> Call]
    /\ got \in [Thread -> [slot : Slot \cup {API}, checker : Checker \cup {NoChecker}]]
    /\ calls \in 0 .. MaxCalls
    /\ sem \in [Lifetime -> Nat]
    /\ checkers \in [Slot \cup {API} -> Checker \cup {NoChecker}]
    /\ heldBy \in [Slot \cup {API} -> Tag \cup {None}]
    /\ lastReleased \in [Slot -> {"zero", "recent", "expired"}]
    /\ fileAssociations \in [File -> Query \cup {None}]
    /\ requestAssociations \in [Request -> Slot \cup {None}]
    /\ timer \in {"nil", "armed", "spent"} /\ firing \in Nat
    /\ discarded \in BOOLEAN
    /\ canceled \subseteq Checker
    /\ done \subseteq Request /\ cleanups \in [Request -> Nat]
    /\ found \subseteq Diag /\ accumulated \subseteq Diag /\ taken \subseteq Diag /\ changed \in BOOLEAN
    /\ counted \in [Slot -> Nat] /\ mix \in Mixes

\* newCheckerPool
Init ==
    /\ pc = [t \in Thread |-> "idle"]
    /\ call = [t \in Thread |-> NoCall]
    /\ got = [t \in Thread |-> [slot |-> 0, checker |-> NoChecker]]
    /\ calls = 0
    /\ sem = [l \in Lifetime |-> 0]
    /\ checkers = [i \in Slot \cup {API} |-> NoChecker]
    /\ heldBy = [i \in Slot \cup {API} |-> None]
    /\ lastReleased = [i \in Slot |-> "zero"]
    /\ fileAssociations = [f \in File |-> None]
    /\ requestAssociations = [r \in Request |-> None]
    /\ timer = "nil" /\ firing = 0 /\ discarded = FALSE
    /\ canceled = {}
    /\ done = {} /\ cleanups = [r \in Request |-> 0]
    /\ found = {} /\ accumulated = {} /\ taken = {} /\ changed = FALSE
    /\ counted = [i \in Slot |-> 0]
    /\ mix \in Mixes

-----------------------------------------------------------------------------
(* Taking a checker.                                                       *)

cap(life) == IF life = "query" THEN MaxCheckers - 1 ELSE 1

holdTag(r) == IF r = None THEN "<anonymous>" ELSE r

\* GetChecker, up to the send on the category's channel.
GetChecker(t) ==
    /\ pc[t] = "idle" /\ calls < MaxCalls
    /\ \E c \in Call :
            /\ c.life \in mix.lives /\ (c.file = None \/ c.life = "query")
            /\ c.req = None \/ c.life # "api"
            /\ call' = [call EXCEPT ![t] = c]
    /\ pc' = [pc EXCEPT ![t] = "sem"]
    /\ calls' = calls + 1
    /\ UNCHANGED <<got, sem, slotVars, timerVars, canceled, reqVars, found, diagVars>>

Token(t) ==
    /\ pc[t] = "sem"
    /\ sem[call[t].life] < cap(call[t].life)
    /\ sem' = [sem EXCEPT ![call[t].life] = @ + 1]
    /\ pc' = [pc EXCEPT ![t] = IF call[t].req = None THEN "acquire" ELSE "reacquire"]
    /\ UNCHANGED <<call, got, calls, slotVars, timerVars, canceled, reqVars,
                   found, diagVars>>

Hold(t, i, c) ==
    /\ pc' = [pc EXCEPT ![t] = "holding"]
    /\ got' = [got EXCEPT ![t] = [slot |-> i, checker |-> c]]
    /\ heldBy' = [heldBy EXCEPT ![i] = holdTag(call[t].req)]

\* Mutant: a request may have back a checker that is held.
ReusableHeld(i) == TRUE

Reusable(i) == heldBy[i] = None

\* tryReacquireForRequest, under p.mu: the request's own checker, if it is idle.
tryReacquireForRequest(t) ==
    LET i == requestAssociations[call[t].req]
        fits == i # None /\ (call[t].life = "diagnostics") = (i = 0)
                         /\ checkers[i] # NoChecker
    IN  /\ pc[t] = "reacquire"
        /\ requestAssociations' = IF i = None \/ fits THEN requestAssociations
                                  ELSE [requestAssociations EXCEPT ![call[t].req] = None]
        /\ IF fits /\ Reusable(i)
           THEN Hold(t, i, checkers[i])
           ELSE pc' = [pc EXCEPT ![t] = "acquire"] /\ UNCHANGED <<got, heldBy>>
        /\ UNCHANGED <<call, calls, sem, checkers, lastReleased, fileAssociations,
                       timerVars, canceled, reqVars, found, diagVars>>

\* checker.NewChecker: an identity nobody has a reference to.
NewChecker ==
    Min(Checker \ ({checkers[i] : i \in Slot \cup {API}} \cup {got[t].checker : t \in Thread}))

\* The slot takes a checker if it has none.
Filled(i) ==
    IF checkers[i] # NoChecker
    THEN UNCHANGED <<checkers, found>>
    ELSE /\ checkers' = [checkers EXCEPT ![i] = NewChecker]
         /\ found' = IF i = 0 THEN {} ELSE found

\* The request is associated, and its AfterFunc registered, unless it is already.
Associate(r, i) ==
    IF r # None /\ requestAssociations[r] = None
    THEN /\ requestAssociations' = [requestAssociations EXCEPT ![r] = i]
         /\ cleanups' = [cleanups EXCEPT ![r] = @ + 1]
    ELSE UNCHANGED <<requestAssociations, cleanups>>

Take(t, i) ==
    /\ Filled(i)
    /\ Hold(t, i, checkers'[i])
    /\ Associate(call[t].req, i)

\* The slots findOrCreateQueryCheckerLocked may use.
Available == {i \in Query : checkers[i] = NoChecker \/ heldBy[i] = None}

\* findOrCreateQueryCheckerLocked: an idle checker before an empty slot.
findOrCreateQueryChecker ==
    LET idle == {i \in Available : checkers[i] # NoChecker}
    IN  IF idle # {} THEN Min(idle) ELSE Min(Available)

\* getDiagnosticsChecker and getPersistentChecker, once they have the token.
AcquireOnly(t) ==
    /\ pc[t] = "acquire" /\ call[t].life # "query"
    /\ Take(t, IF call[t].life = "api" THEN API ELSE 0)
    /\ UNCHANGED <<call, calls, sem, lastReleased, fileAssociations, timerVars,
                   canceled, done, diagVars>>

\* getQueryChecker: the file's checker if it is idle, or any.
AcquireQuery(t) ==
    /\ pc[t] = "acquire" /\ call[t].life = "query"
    /\ LET f == call[t].file
           a == IF f = None THEN None ELSE fileAssociations[f]
       IN  IF a # None /\ checkers[a] # NoChecker /\ heldBy[a] = None
           THEN Take(t, a) /\ UNCHANGED fileAssociations
           ELSE /\ Available # {}
                /\ Take(t, findOrCreateQueryChecker)
                /\ fileAssociations' = IF f = None THEN fileAssociations ELSE
                       [fileAssociations EXCEPT ![f] = findOrCreateQueryChecker]
    /\ UNCHANGED <<call, calls, sem, lastReleased, timerVars, canceled, done, diagVars>>

-----------------------------------------------------------------------------
(* Using it, and giving it back.                                           *)

\* The context of the check is done while it runs: the checker is canceled.
Cancel(t) ==
    /\ pc[t] = "holding"
    /\ call[t].req = None \/ call[t].req \in done
    /\ canceled' = canceled \cup {got[t].checker}
    /\ UNCHANGED <<threadVars, sem, slotVars, timerVars, reqVars, found, diagVars>>

\* The check comes upon a global diagnostic; only the diagnostics checker's are
\* looked at.
Check(t) ==
    /\ pc[t] = "holding" /\ got[t].slot = 0 /\ got[t].checker \notin canceled
    /\ \E d \in mix.diags \ found : found' = found \cup {d}
    /\ UNCHANGED <<threadVars, sem, slotVars, timerVars, canceled, reqVars, diagVars>>

\* Mutant: a slot's count of global diagnostics outlives its checker.
NoCountKept(I) == UNCHANGED counted

NoCount(I) == counted' = [i \in Slot |-> IF i \in I THEN 0 ELSE counted[i]]

\* Mutant: the file associations of a slot outlive its checker.
DissociateRequests(I) ==
    /\ requestAssociations' = [r \in Request |->
            IF requestAssociations[r] \in I THEN None ELSE requestAssociations[r]]
    /\ UNCHANGED fileAssociations

Dissociate(I) ==
    /\ fileAssociations' = [f \in File |->
            IF fileAssociations[f] \in I THEN None ELSE fileAssociations[f]]
    /\ requestAssociations' = [r \in Request |->
            IF requestAssociations[r] \in I THEN None ELSE requestAssociations[r]]

\* disposeCheckerLocked, for each of the slots I.
disposeChecker(I) ==
    /\ checkers' = [i \in Slot \cup {API} |-> IF i \in I THEN NoChecker ELSE checkers[i]]
    /\ heldBy' = [i \in Slot \cup {API} |-> IF i \in I THEN None ELSE heldBy[i]]
    /\ lastReleased' = [i \in Slot |-> IF i \in I THEN "zero" ELSE lastReleased[i]]
    /\ NoCount(I)
    /\ Dissociate(I)

IdleLeft == \E i \in Slot : checkers'[i] # NoChecker /\ heldBy'[i] = None
                                /\ lastReleased'[i] # "zero"

\* Mutant: a timer that has fired is not reset.
scheduleOnce == timer' = IF ~IdleLeft THEN "nil" ELSE IF timer = "nil" THEN "armed" ELSE timer

\* scheduleCleanupLocked: the timer runs while a checker is idle.
scheduleCleanup == timer' = IF IdleLeft THEN "armed" ELSE "nil"

\* mergeGlobalDiagnosticsFromCheckerLocked
mergeGlobalDiagnostics ==
    IF Cardinality(found) = counted[0]
    THEN UNCHANGED <<accumulated, changed, counted>>
    ELSE /\ counted' = [counted EXCEPT ![0] = Cardinality(found)]
         /\ accumulated' = accumulated \cup found
         /\ changed' = (changed \/ Cardinality(accumulated') # Cardinality(accumulated))

\* createRelease's function, under p.mu.
Release(t) ==
    LET i == got[t].slot
        c == got[t].checker
    IN  /\ pc[t] = "holding" /\ i \in Slot
        /\ \/ /\ c \in canceled
              /\ disposeChecker({i})
              /\ canceled' = canceled \ {c}
              /\ UNCHANGED <<timer, accumulated, changed>>
           \/ /\ c \notin canceled
              /\ IF i = 0 THEN mergeGlobalDiagnostics
                          ELSE UNCHANGED <<accumulated, changed, counted>>
              /\ heldBy' = [heldBy EXCEPT ![i] = None]
              /\ lastReleased' = [lastReleased EXCEPT ![i] = "recent"]
              /\ UNCHANGED <<checkers, fileAssociations, requestAssociations, canceled>>
              /\ IF discarded THEN UNCHANGED timer ELSE scheduleCleanup
        /\ pc' = [pc EXCEPT ![t] = "token"]
        /\ got' = [got EXCEPT ![t].checker = NoChecker]
        /\ UNCHANGED <<call, calls, sem, firing, discarded, reqVars, found, taken, mix>>

Unusable(c) == c \in canceled

\* The function getPersistentChecker returns, under p.mu.
ReleasePersistent(t) ==
    /\ pc[t] = "holding" /\ got[t].slot = API
    /\ heldBy' = [heldBy EXCEPT ![API] = None]
    /\ checkers' = IF Unusable(got[t].checker) /\ checkers[API] = got[t].checker
                   THEN [checkers EXCEPT ![API] = NoChecker] ELSE checkers
    /\ canceled' = IF Unusable(got[t].checker) THEN canceled \ {got[t].checker} ELSE canceled
    /\ got' = [got EXCEPT ![t].checker = NoChecker]
    /\ pc' = [pc EXCEPT ![t] = "token"]
    /\ UNCHANGED <<call, calls, sem, lastReleased, fileAssociations,
                   requestAssociations, timerVars, reqVars, found, diagVars>>

TokenOf(t) == call[t].life

\* The receive from the channel, after p.mu is unlocked.
ReleaseToken(t) ==
    /\ pc[t] = "token"
    /\ sem' = [sem EXCEPT ![TokenOf(t)] = @ - 1]
    /\ pc' = [pc EXCEPT ![t] = "idle"]
    /\ call' = [call EXCEPT ![t] = NoCall]
    /\ got' = [got EXCEPT ![t].slot = 0]
    /\ UNCHANGED <<calls, slotVars, timerVars, canceled, reqVars, found, diagVars>>

-----------------------------------------------------------------------------
(* Requests, the cleanup timer and the end of the pool.                    *)

\* A request is answered, or canceled.
Done(r) ==
    /\ r \notin done
    /\ done' = done \cup {r}
    /\ UNCHANGED <<threadVars, sem, slotVars, timerVars, canceled, cleanups, found, diagVars>>

\* registerRequestCleanup's function
RequestCleanup(r) ==
    /\ r \in done /\ cleanups[r] > 0
    /\ cleanups' = [cleanups EXCEPT ![r] = @ - 1]
    /\ requestAssociations' = [requestAssociations EXCEPT ![r] = None]
    /\ UNCHANGED <<threadVars, sem, checkers, heldBy, lastReleased, fileAssociations,
                   timerVars, canceled, done, found, diagVars>>

\* An idle checker passes its timeout; lastReleased is not read while it is held.
Age(i) ==
    /\ lastReleased[i] = "recent" /\ heldBy[i] = None
    /\ lastReleased' = [lastReleased EXCEPT ![i] = "expired"]
    /\ UNCHANGED <<threadVars, sem, checkers, heldBy, fileAssociations,
                   requestAssociations, timerVars, canceled, reqVars, found, diagVars>>

\* The timer fires: its callback is on its way to p.mu.
Fire ==
    /\ timer = "armed"
    /\ timer' = "spent"
    /\ firing' = firing + 1
    /\ UNCHANGED <<threadVars, sem, slotVars, discarded, canceled, reqVars, found, diagVars>>

Expired == {i \in Slot : checkers[i] # NoChecker /\ heldBy[i] = None
                            /\ lastReleased[i] = "expired"}

\* Mutant: the callback does not look at discarded.
BailOutNever == FALSE

BailOut == discarded

cleanupIdleCheckers ==
    /\ firing > 0
    /\ firing' = firing - 1
    /\ IF BailOut
       THEN UNCHANGED <<slotVars, counted, timer>>
       ELSE disposeChecker(Expired) /\ scheduleCleanup
    /\ UNCHANGED <<threadVars, sem, discarded, canceled, reqVars, found,
                   accumulated, changed, taken, mix>>

Discard ==
    /\ ~discarded
    /\ discarded' = TRUE
    /\ timer' = "nil"
    /\ UNCHANGED <<threadVars, sem, slotVars, firing, canceled, reqVars, found, diagVars>>

\* TakeNewGlobalDiagnostics, and GetGlobalDiagnostics after it if it says so.
TakeNewGlobalDiagnostics ==
    /\ changed
    /\ changed' = FALSE
    /\ taken' = accumulated
    /\ UNCHANGED <<threadVars, sem, slotVars, timerVars, canceled, reqVars, found,
                   accumulated, counted, mix>>

\* All calls were made and answered.
Rest == (\A t \in Thread : pc[t] = "idle") /\ UNCHANGED vars

-----------------------------------------------------------------------------
Work(t) ==
    \/ GetChecker(t) \/ Token(t) \/ tryReacquireForRequest(t) \/ AcquireOnly(t) \/ AcquireQuery(t)
    \/ Release(t) \/ ReleasePersistent(t) \/ ReleaseToken(t)

Next ==
    \/ \E t \in Thread : Work(t) \/ Cancel(t) \/ Check(t)
    \/ \E r \in Request : Done(r) \/ RequestCleanup(r)
    \/ \E i \in Slot : Age(i)
    \/ Fire \/ cleanupIdleCheckers \/ Discard
    \/ TakeNewGlobalDiagnostics
    \/ Rest

Spec == Init /\ [][Next]_vars

-----------------------------------------------------------------------------
(* Properties.                                                             *)

Holders(i) == {t \in Thread : pc[t] = "holding" /\ got[t].slot = i}

(***************************************************************************)
(* A checker is used by one goroutine at a time (tryReacquireForRequest:   *)
(* "Request affinity is only a preference for an idle checker, not         *)
(* permission to reuse a held checker"), even when several calls share a   *)
(* request ID, and heldBy says by whom.  A holder's checker is still the   *)
(* slot's, which is what disposeCheckerLocked asserts.  And "no available  *)
(* query slot despite holding semaphore token" never happens               *)
(* (findOrCreateQueryCheckerLocked): whoever has a token finds a slot,     *)
(* though tokens and slots are given back one after the other.             *)
(***************************************************************************)
HeldExact ==
    /\ TypeOK
    /\ \A i \in Slot \cup {API} :
        /\ heldBy[i] = None <=> Holders(i) = {}
        /\ \A t \in Holders(i) :
                /\ Holders(i) = {t}
                /\ got[t].checker = checkers[i] /\ checkers[i] # NoChecker
                /\ heldBy[i] = holdTag(call[t].req)
    /\ \A t \in Thread : pc[t] = "acquire" =>
        CASE call[t].life = "query"       -> Available # {}
          [] call[t].life = "diagnostics" -> heldBy[0] = None
          [] call[t].life = "api"         -> heldBy[API] = None

(***************************************************************************)
(* The pool gives out nothing that is gone.  A canceled checker panics on  *)
(* reuse (getPersistentChecker): none is idle in the pool, whoever         *)
(* canceled it.  No association points at a slot that was emptied          *)
(* (disposeCheckerLocked).  And the map of associations does not grow with *)
(* completed request IDs (registerRequestCleanup): whatever deleted a      *)
(* request's association before, the one it has now has an AfterFunc that  *)
(* will delete it.                                                         *)
(***************************************************************************)
NothingStale ==
    /\ \A i \in Slot \cup {API} :
            heldBy[i] = None /\ checkers[i] # NoChecker => checkers[i] \notin canceled
    /\ \A f \in File : fileAssociations[f] # None =>
            checkers[fileAssociations[f]] # NoChecker
    /\ \A r \in Request : requestAssociations[r] # None =>
            checkers[requestAssociations[r]] # NoChecker /\ cleanups[r] > 0

(***************************************************************************)
(* An idle checker has a timer coming (scheduleCleanupLocked), in whatever *)
(* order releases, callbacks that were already under way, canceled checks  *)
(* and Discard happen.                                                     *)
(***************************************************************************)
CleanupComing ==
    (~discarded /\ \E i \in Slot : checkers[i] # NoChecker /\ heldBy[i] = None)
        => timer = "armed" \/ firing > 0

(***************************************************************************)
(* Global diagnostics are not missed (mergeGlobalDiagnosticsFromChecker-   *)
(* Locked looks only at how many there are): what the idle diagnostics     *)
(* checker has found is accumulated, whichever checker had the slot before.*)
(* What was accumulated since the last take is announced                   *)
(* (TakeNewGlobalDiagnostics): none waits for another one to come.         *)
(***************************************************************************)
GlobalsReported ==
    /\ heldBy[0] = None /\ checkers[0] # NoChecker => found \subseteq accumulated
    /\ accumulated # taken => changed

(***************************************************************************)
(* A discarded pool keeps its checkers (Discard), and the API checker      *)
(* keeps its identity (checkerPool) in any pool: neither is replaced but   *)
(* for a canceled check.                                                   *)
(***************************************************************************)
StableIdentity ==
    [][\A i \in Slot \cup {API} :
            (discarded \/ i = API) /\ checkers[i] # NoChecker /\ checkers'[i] # checkers[i]
                => checkers[i] \in canceled]_vars
=============================================================================
