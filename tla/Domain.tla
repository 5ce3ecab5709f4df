------------------------------- MODULE Domain -------------------------------
(***************************************************************************)
(* One domain of the cakebear runtime (backend/runtime: domain.go,         *)
(* promise.go, rejection.go, parked.go and the part of spawn.go that runs  *)
(* inside the spawned domain).                                             *)
(*                                                                         *)
(* A domain is where JavaScript code runs one piece at a time.  Its        *)
(* goroutines are the driver and one goroutine per async call.  They share *)
(* the domain without a lock: the right to touch it, the token, passes     *)
(* from goroutine to goroutine over the channels `resume' and `yield' of   *)
(* each call.  Nothing in the model stores who holds the token: it follows *)
(* from who is blocked in a receive, and that it is always exactly one     *)
(* goroutine is a property, not an assumption.                             *)
(*                                                                         *)
(* What the program's code does between two calls into the runtime is      *)
(* arbitrary: whoever holds the token takes any of the program actions.    *)
(***************************************************************************)
EXTENDS Integers, Sequences, FiniteSets

CONSTANTS
    Co,      \* the async calls the program makes, each once
    Made,    \* the promises it makes with `new Promise'
    Child,   \* the domains it spawns; each is also the promise of its result
    Delays,  \* the delays it passes to setTimeout, in milliseconds
    MaxTimers,  \* bound on the timers it sets
    MaxNow,  \* bound on the clock: a timer due later is not set
    Kind,    \* who drives the domain
    Driver,  \* the goroutine that drives it
    None

Promise   == Co \cup Made \cup Child
Goroutine == Co \cup {Driver}

(***************************************************************************)
(* "program": main, without a top-level await (Run, then Exit)             *)
(* "module":  main, whose top-level code is an async call (RunModule)      *)
(* "spawn":   a spawned function (spawn)                                   *)
(* "request": a request handler (serve and finishDetached)                 *)
(***************************************************************************)
Kinds == {"program", "module", "spawn", "request"}
Main  == Kind \in {"program", "module"}

ASSUME KindAssumption == Kind \in Kinds

ASSUME NamesAssumption ==
    /\ None \notin Promise \cup Goroutine
    /\ Driver \notin Promise
    /\ Co \cap Made = {} /\ Co \cap Child = {} /\ Made \cap Child = {}

ASSUME FiniteAssumption == IsFiniteSet(Co) /\ IsFiniteSet(Child)

ASSUME TimeAssumption == Delays \subseteq Nat /\ MaxTimers \in Nat /\ MaxNow \in Nat

VARIABLES
    pc,         \* where the driver is
    after,      \* where the drain it is in returns to
    outcome,    \* how the driver's work ended
    co,         \* where each async call's goroutine is
    wait,       \* the call whose `yield' a goroutine receives from, or None
    failed,     \* Co.failed: the call's body raised a Go panic
    aborted,    \* Co.aborted
    awaits,     \* the promise a call in Await was given
    parked,     \* Domain.parked
    parkedAt,   \* Co.parkedAt
    status,     \* settlement.settled and reason
    handled,    \* settlement.handled
    reactions,  \* settlement.reactions
    rejected,   \* Domain.rejected
    micro,      \* Domain.micro[microHead:]
    tick,       \* Domain.tick is not nil
    timers,     \* Domain.timers, and byID: the set of timers in the heap
    seq,        \* Domain.seq
    now,        \* the clock
    spawned,    \* Domain.spawned
    child,      \* where each spawned domain is, as far as this one can see
    inbox,      \* Domain.inbox
    batch,      \* what runInbox took and has still to run
    wake,       \* Domain.wake holds its one slot
    root,       \* the promise the first task's result is, or None
    delivered,  \* spawn's delivered
    cloned      \* the result went to the caller as a copy

driverVars  == <<pc, after, outcome, root, delivered, cloned>>
resultVars  == <<root, delivered, cloned>>
tokenVars   == <<co, wait, failed, aborted, awaits>>
parkedVars  == <<parked, parkedAt>>
promiseVars == <<status, handled, reactions, rejected, micro>>
timeVars    == <<timers, seq, now>>
spawnVars   == <<spawned, child, inbox, batch, wake>>
inside      == <<tokenVars, parkedVars, promiseVars>>
outside     == <<tick, timeVars, spawnVars>>
vars        == <<driverVars, inside, outside>>

-----------------------------------------------------------------------------
(* The state of a domain.                                                  *)

\* rejection.go: the microtasks from a module's rejection to its report.
moduleHops == 5

(***************************************************************************)
(* A microtask resumes an async call, or is the reaction to the first      *)
(* task's promise: failAfter with the hops left, or spawn's delivery.      *)
(***************************************************************************)
Resume(c) == [co |-> c, hops |-> 0]
Report(n) == [co |-> None, hops |-> n]
Task      == {Resume(c) : c \in Co} \cup {Report(n) : n \in 1 .. moduleHops}

Results   == {"fulfilled", "rejected", "panic", "none"}
Delivery  == [child : Child, result : Results]
TimerRec  == [when : Nat, seq : Nat]
DriverPC  == {"task", "drain", "check", "wait", "inbox", "batch", "fire",
              "abort", "ended"}
Outcomes  == {"none", "done", "unsettled", "throw", "rejection", "panic"}
CoState   == {"unborn", "running", "yielding", "parked", "resumed", "ending",
              "done"}

DriverType ==
    /\ pc \in DriverPC
    /\ after \in {"check", "inbox", "batch", "fire", "ended"}
    /\ outcome \in Outcomes
    /\ root \in Promise \cup {None}
    /\ delivered \in BOOLEAN /\ cloned \in BOOLEAN

TokenType ==
    /\ co \in [Co -> CoState]
    /\ wait \in [Goroutine -> Co \cup {None}]
    /\ failed \in [Co -> BOOLEAN] /\ aborted \in [Co -> BOOLEAN]
    /\ awaits \in [Co -> Promise \cup {None}]

ParkedType ==
    /\ parked \in Seq(Co)
    /\ parkedAt \in [Co -> Nat]

PromiseType ==
    /\ status \in [Promise -> {"none", "pending", "fulfilled", "rejected"}]
    /\ handled \in [Promise -> BOOLEAN]
    /\ reactions \in [Promise -> Seq(Task)]
    /\ rejected \in Seq(Promise)
    /\ micro \in Seq(Task)

OutsideType ==
    /\ tick \in BOOLEAN
    /\ timers \in SUBSET TimerRec /\ seq \in Nat /\ now \in Nat
    /\ spawned \in Int
    /\ child \in [Child -> {"unborn", "running", "posted", "done"}]
    /\ inbox \in Seq(Delivery) /\ batch \in Seq(Delivery)
    /\ wake \in BOOLEAN

\* The type of a domain.
TypeOK ==
    DriverType /\ TokenType /\ ParkedType /\ PromiseType /\ OutsideType

\* A domain starts with its driver in the first task.
Init ==
    /\ pc = "task"
    /\ after = IF Main THEN "inbox" ELSE "check"
    /\ outcome = "none"
    /\ root = None
    /\ co = [c \in Co |-> "unborn"]
    /\ wait = [g \in Goroutine |-> None]
    /\ status = [p \in Promise |-> "none"]
    /\ failed = [c \in Co |-> FALSE]
    /\ aborted = [c \in Co |-> FALSE]
    /\ awaits = [c \in Co |-> None]
    /\ parked = <<>>
    /\ parkedAt = [c \in Co |-> 0]
    /\ handled = [p \in Promise |-> FALSE]
    /\ reactions = [p \in Promise |-> <<>>]
    /\ rejected = <<>>
    /\ micro = <<>>
    /\ tick = FALSE
    /\ timers = {}
    /\ seq = 0
    /\ now = 0
    /\ spawned = 0
    /\ child = [s \in Child |-> "unborn"]
    /\ inbox = <<>>
    /\ batch = <<>>
    /\ wake = FALSE
    /\ delivered = FALSE
    /\ cloned = FALSE

\* pending: work that will run by itself.
pending == timers # {} \/ spawned > 0

\* Mutant: only work that runs by itself counts.
busyPending(queue) == pending

\* busy, of a domain whose queued microtasks are queue.
busy(queue) == pending \/ queue # <<>> \/ parked # <<>>

-----------------------------------------------------------------------------
(* Promises.                                                               *)

\* Mutant: the reactions are queued and kept.
settleKeepingReactions(p, how) ==
    /\ status' = [status EXCEPT ![p] = how]
    /\ micro' = micro \o reactions[p]
    /\ UNCHANGED <<handled, reactions>>

\* Mutant: the reactions overtake what is already queued.
settleAhead(p, how) ==
    /\ status' = [status EXCEPT ![p] = how]
    /\ micro' = reactions[p] \o micro
    /\ reactions' = [reactions EXCEPT ![p] = <<>>]
    /\ UNCHANGED handled

settle(p, how) ==
    /\ status' = [status EXCEPT ![p] = how]
    /\ micro' = micro \o reactions[p]
    /\ reactions' = [reactions EXCEPT ![p] = <<>>]
    /\ UNCHANGED handled

\* Mutant: without the check that p has not settled.
resolveAgain(p) == settle(p, "fulfilled") /\ UNCHANGED rejected

resolve(p) ==
    IF status[p] # "pending"
    THEN UNCHANGED promiseVars
    ELSE settle(p, "fulfilled") /\ UNCHANGED rejected

reject(p) ==
    IF status[p] # "pending"
    THEN UNCHANGED promiseVars
    ELSE /\ rejected' = IF handled[p] THEN rejected ELSE Append(rejected, p)
         /\ settle(p, "rejected")

then(p, r) ==
    /\ handled' = [handled EXCEPT ![p] = TRUE]
    /\ IF status[p] # "pending"
       THEN micro' = Append(micro, r) /\ UNCHANGED reactions
       ELSE /\ reactions' = [reactions EXCEPT ![p] = Append(@, r)]
            /\ UNCHANGED micro
    /\ UNCHANGED <<status, rejected>>

-----------------------------------------------------------------------------
(* The parked registry.                                                    *)

park(c) ==
    /\ parkedAt' = [parkedAt EXCEPT ![c] = Len(parked) + 1]
    /\ parked' = Append(parked, c)

\* The last call takes the place of the one that leaves.
unpark(c) ==
    LET last  == Len(parked)
        moved == parked[last]
        at    == parkedAt[c]
    IN  /\ parkedAt' = [parkedAt EXCEPT ![moved] = at]
        /\ parked' = SubSeq([parked EXCEPT ![at] = moved], 1, last - 1)

-----------------------------------------------------------------------------
(* The program's code, run by whoever holds the token.                     *)

\* The driver is in the domain's first task, not in a timer's callback.
First == after # "fire"

(***************************************************************************)
(* g runs the program's code: it has the token and is outside the runtime. *)
(* Main runs none after the call of a module's body, in its first task.    *)
(***************************************************************************)
Runs(g) ==
    /\ wait[g] = None
    /\ IF g = Driver
       THEN pc = "task" /\ ~(Kind = "module" /\ First /\ root # None)
       ELSE co[g] = "running"

\* Async: the caller hands the token to the call's goroutine, and waits.
Async(g, c) ==
    /\ Runs(g)
    /\ co[c] = "unborn"
    /\ co' = [co EXCEPT ![c] = "running"]
    /\ wait' = [wait EXCEPT ![g] = c]
    /\ status' = [status EXCEPT ![c] = "pending"]
    /\ UNCHANGED <<driverVars, failed, aborted, awaits, parkedVars, handled,
                   reactions, rejected, micro, outside>>

\* new Promise: what its executor does is code of the caller's.
NewPromise(g, p) ==
    /\ Runs(g)
    /\ status[p] = "none"
    /\ status' = [status EXCEPT ![p] = "pending"]
    /\ UNCHANGED <<driverVars, tokenVars, parkedVars, handled, reactions,
                   rejected, micro, outside>>

\* An executor's resolve, called by anyone, at any time, any number of times.
Resolve(g, p) ==
    /\ Runs(g)
    /\ status[p] # "none"
    /\ resolve(p)
    /\ UNCHANGED <<driverVars, tokenVars, parkedVars, outside>>

\* An executor's reject, or its throw.
Reject(g, p) ==
    /\ Runs(g)
    /\ status[p] # "none"
    /\ reject(p)
    /\ UNCHANGED <<driverVars, tokenVars, parkedVars, outside>>

\* Await, as far as its send on co.yield: the call has parked itself.
Await(c, p) ==
    /\ Runs(c)
    /\ status[p] # "none"
    /\ then(p, Resume(c))
    /\ park(c)
    /\ co' = [co EXCEPT ![c] = "yielding"]
    /\ awaits' = [awaits EXCEPT ![c] = p]
    /\ UNCHANGED <<driverVars, wait, failed, aborted, outside>>

\* The body returns.
Return(c) ==
    /\ Runs(c)
    /\ resolve(c)
    /\ co' = [co EXCEPT ![c] = "ending"]
    /\ UNCHANGED <<driverVars, wait, failed, aborted, awaits, parkedVars,
                   outside>>

\* A throw leaves the body, and rejects the call's promise.
Throw(c) ==
    /\ Runs(c)
    /\ reject(c)
    /\ co' = [co EXCEPT ![c] = "ending"]
    /\ UNCHANGED <<driverVars, wait, failed, aborted, awaits, parkedVars,
                   outside>>

\* A Go panic leaves the body, to be raised where the token goes.
Panic(c) ==
    /\ Runs(c)
    /\ failed' = [failed EXCEPT ![c] = TRUE]
    /\ co' = [co EXCEPT ![c] = "ending"]
    /\ UNCHANGED <<driverVars, wait, aborted, awaits, parkedVars, promiseVars,
                   outside>>

\* Node's coercion of a delay.
MaxInt32 == 2147483647
timerDelay(ms) == IF ms >= 1 /\ ms <= MaxInt32 THEN ms ELSE 1

\* A timer is known by its number, which is never used again.
SetTimeout(g, ms) ==
    /\ Runs(g)
    /\ seq < MaxTimers
    /\ now + timerDelay(ms) <= MaxNow
    /\ timers' = timers \cup {[when |-> now + timerDelay(ms), seq |-> seq + 1]}
    /\ seq' = seq + 1
    /\ UNCHANGED <<driverVars, inside, tick, now, spawnVars>>

\* An id that has fired or been cleared does nothing.
ClearTimeout(g, id) ==
    /\ Runs(g)
    /\ timers' = {t \in timers : t.seq # id}
    /\ UNCHANGED <<driverVars, inside, tick, seq, now, spawnVars>>

Spawn(g, s) ==
    /\ Runs(g)
    /\ child[s] = "unborn"
    /\ child' = [child EXCEPT ![s] = "running"]
    /\ status' = [status EXCEPT ![s] = "pending"]
    /\ spawned' = spawned + 1
    /\ UNCHANGED <<driverVars, tokenVars, parkedVars, handled, reactions,
                   rejected, micro, tick, timeVars, inbox, batch, wake>>

\* res.end(chunk) after the response ended: a throw due on the next tick.
WriteAfterEnd(g) ==
    /\ Kind = "request"
    /\ Runs(g)
    /\ tick' = TRUE
    /\ UNCHANGED <<driverVars, inside, timeVars, spawnVars>>

-----------------------------------------------------------------------------
(* The end of a task, and the ways a domain ends.                          *)

(***************************************************************************)
(* A panic on the driver ends the domain.  Main reports it and exits.  A   *)
(* request or a spawned domain is abandoned, the spawned one raising what  *)
(* it was in its caller if its result is still due.                        *)
(***************************************************************************)
fail(how) ==
    /\ outcome' = how
    /\ pc' = IF Main THEN "ended" ELSE "abort"
    /\ delivered' = (delivered \/ Kind = "spawn")
    /\ UNCHANGED <<after, root, cloned>>

\* deliver: the result goes to the caller, as a copy while the domain is busy.
deliver(queue) ==
    /\ delivered' = TRUE
    /\ cloned' = IF delivered THEN cloned ELSE busy(queue)

\* The driver's piece of the program ends, and the drain begins.
TaskReturn ==
    /\ Runs(Driver)
    /\ ~(Kind \in {"spawn", "module"} /\ First)
    /\ pc' = "drain"
    /\ UNCHANGED <<after, outcome, resultVars, inside, outside>>

(***************************************************************************)
(* The generated main of an entry module with a top-level await: once the  *)
(* modules it imports have run, it calls its own body as an async call,    *)
(***************************************************************************)
ModuleCall(c) ==
    /\ Kind = "module" /\ First
    /\ Runs(Driver)
    /\ co[c] = "unborn"
    /\ co' = [co EXCEPT ![c] = "running"]
    /\ wait' = [wait EXCEPT ![Driver] = c]
    /\ status' = [status EXCEPT ![c] = "pending"]
    /\ root' = c
    /\ UNCHANGED <<pc, after, outcome, delivered, cloned, failed, aborted,
                   awaits, parkedVars, handled, reactions, rejected, micro,
                   outside>>

\* and passes its promise to RunModule when it has returned or awaits.
ModuleReturn ==
    /\ Kind = "module" /\ First
    /\ pc = "task" /\ wait[Driver] = None /\ root # None
    /\ then(root, Report(moduleHops))
    /\ pc' = "drain"
    /\ UNCHANGED <<after, outcome, resultVars, tokenVars, parkedVars,
                   outside>>

\* Spawn: fn returned a value, or threw, which rejects the caller's promise.
SpawnReturn ==
    /\ Kind = "spawn" /\ First
    /\ Runs(Driver)
    /\ deliver(micro)
    /\ pc' = "drain"
    /\ UNCHANGED <<after, outcome, root, inside, outside>>

\* SpawnAsync: fn returned the promise p.
SpawnAsyncReturn(p) ==
    /\ Kind = "spawn" /\ First
    /\ Runs(Driver)
    /\ status[p] # "none"
    /\ root' = p
    /\ then(p, Report(1))
    /\ pc' = "drain"
    /\ UNCHANGED <<after, outcome, delivered, cloned, tokenVars, parkedVars,
                   outside>>

\* A throw leaves the driver's piece of the program, or a Go panic does.
TaskFail(how) ==
    /\ Runs(Driver)
    /\ how = "throw" => ~(Kind = "spawn" /\ First)
    /\ fail(how)
    /\ UNCHANGED <<inside, outside>>

-----------------------------------------------------------------------------
(* The token's handoffs.                                                   *)

\* Mutant: the driver does not wait for the token to come back.
handNoWait(c) ==
    /\ co[c] = "parked"
    /\ co' = [co EXCEPT ![c] = "resumed"]
    /\ UNCHANGED wait

\* The send on co.resume meets the receive in Await; the driver then waits.
hand(c) ==
    /\ co[c] = "parked"
    /\ co' = [co EXCEPT ![c] = "resumed"]
    /\ wait' = [wait EXCEPT ![Driver] = c]

\* The send on co.yield meets the receive in co.wait, or in abort.
Handback(g, c) ==
    /\ wait[g] = c
    /\ co[c] \in {"yielding", "ending"}
    /\ wait' = [wait EXCEPT ![g] = None]
    /\ LET blocked == [co EXCEPT ![c] = IF @ = "yielding" THEN "parked"
                                                          ELSE "done"]
       IN  \/ /\ ~failed[c]
              /\ co' = blocked
              /\ UNCHANGED <<driverVars, failed>>
           \/ /\ failed[c] /\ g = Driver
              /\ co' = blocked
              /\ fail("panic")
              /\ UNCHANGED failed
           \/ /\ failed[c] /\ g # Driver
              /\ co' = [blocked EXCEPT ![g] = "ending"]
              /\ failed' = [failed EXCEPT ![g] = TRUE]
              /\ UNCHANGED <<driverVars>>
    /\ UNCHANGED <<aborted, awaits, parkedVars, promiseVars, outside>>

\* Mutant: an aborted call goes on as if its promise had settled.
afterAwaitUnchecked(c) == "running"

\* What an Await does with the token it was handed: exit, if it was aborted.
afterAwait(c) == IF aborted[c] THEN "ending" ELSE "running"

\* The rest of Await, once the call has the token again.
Resumed(c) ==
    /\ co[c] = "resumed"
    /\ co' = [co EXCEPT ![c] = afterAwait(c)]
    /\ awaits' = [awaits EXCEPT ![c] = None]
    /\ UNCHANGED <<driverVars, wait, failed, aborted, parkedVars, promiseVars,
                   outside>>

-----------------------------------------------------------------------------
(* drain.                                                                  *)

Draining == pc = "drain" /\ wait[Driver] = None

RaiseTick ==
    /\ Draining /\ tick
    /\ tick' = FALSE
    /\ fail("throw")
    /\ UNCHANGED <<inside, timeVars, spawnVars>>

\* The microtask an Await left: unpark the call and hand it the token.
RunResume(c) ==
    /\ Draining /\ ~tick
    /\ micro # <<>> /\ Head(micro) = Resume(c)
    /\ micro' = Tail(micro)
    /\ unpark(c)
    /\ hand(c)
    /\ UNCHANGED <<driverVars, failed, aborted, awaits, status, handled,
                   reactions, rejected, outside>>

\* Mutant: the report is given up after one hop.
failAfterOnce(hops) ==
    IF status[root] = "rejected" /\ hops = 1
    THEN micro' = Tail(micro) /\ fail("throw")
    ELSE micro' = Tail(micro) /\ UNCHANGED driverVars

failAfter(hops) ==
    \/ /\ status[root] # "rejected"
       /\ micro' = Tail(micro)
       /\ UNCHANGED <<driverVars>>
    \/ /\ status[root] = "rejected" /\ hops > 1
       /\ micro' = Append(Tail(micro), Report(hops - 1))
       /\ UNCHANGED <<driverVars>>
    \/ /\ status[root] = "rejected" /\ hops = 1
       /\ micro' = Tail(micro)
       /\ fail("throw")

\* The reaction of the first task's promise: a module's, or a spawned fn's.
RunReport(n) ==
    /\ Draining /\ ~tick
    /\ micro # <<>> /\ Head(micro) = Report(n)
    /\ \/ Kind = "module" /\ failAfter(n)
       \/ /\ Kind = "spawn"
          /\ micro' = Tail(micro)
          /\ deliver(Tail(micro))
          /\ UNCHANGED <<pc, after, outcome, root>>
    /\ UNCHANGED <<tokenVars, parkedVars, status, handled, reactions,
                   rejected, outside>>

drained == ~tick /\ micro = <<>>

\* Mutant: only the first rejection is looked at again.
unhandledFirst == rejected # <<>> /\ ~handled[Head(rejected)]

unhandledRejection == \E i \in DOMAIN rejected : ~handled[rejected[i]]

\* checkRejections, and the drain's return.
EndDrain ==
    /\ Draining /\ drained
    /\ rejected' = <<>>
    /\ IF unhandledRejection
       THEN fail("rejection")
       ELSE /\ pc' = after
            /\ outcome' = IF after = "ended" THEN "done" ELSE outcome
            /\ UNCHANGED <<after, resultVars>>
    /\ UNCHANGED <<tokenVars, parkedVars, status, handled, reactions, micro,
                   outside>>

-----------------------------------------------------------------------------
(* The driver's loop: finish, and main's run.                              *)

\* Work is pending: wait.
Check ==
    /\ pc = "check" /\ pending
    /\ pc' = "wait"
    /\ UNCHANGED <<after, outcome, resultVars, inside, outside>>

(***************************************************************************)
(* Nothing is.  Main exits 13 if its module never settled, and else drains *)
(* once more (Exit); anyone else aborts what is parked, a spawned domain   *)
(* first releasing a caller it has no result for.                          *)
(***************************************************************************)
Leave ==
    /\ pc = "check" /\ ~pending
    /\ \/ /\ Main
          /\ IF Kind = "module" /\ status[root] = "pending"
             THEN pc' = "ended" /\ outcome' = "unsettled" /\ UNCHANGED after
             ELSE pc' = "drain" /\ after' = "ended" /\ UNCHANGED outcome
          /\ UNCHANGED delivered
       \/ /\ ~Main
          /\ pc' = "abort" /\ outcome' = "done"
          /\ delivered' = (delivered \/ Kind = "spawn")
          /\ UNCHANGED after
    /\ UNCHANGED <<root, cloned, inside, outside>>

\* Mutant: timers due at the same moment fire in any order.
DueAtOnce(t) ==
    /\ t \in timers
    /\ t.when <= now
    /\ \A u \in timers : t.when <= u.when

\* Less, on the heap: t is due, and no timer is before it.
Due(t) ==
    /\ t \in timers
    /\ t.when <= now
    /\ \A u \in timers : t.when < u.when \/ (t.when = u.when /\ t.seq <= u.seq)

\* The select: the clock, or a signal that something was posted.
WaitNext ==
    /\ pc = "wait"
    /\ \/ (\E t \in timers : Due(t)) /\ UNCHANGED wake
       \/ wake /\ wake' = FALSE
    /\ pc' = "inbox"
    /\ UNCHANGED <<after, outcome, resultVars, inside, tick, timeVars,
                   spawned, child, inbox, batch>>

\* runInbox takes all that was posted,
TakeInbox ==
    /\ pc = "inbox"
    /\ batch' = inbox
    /\ inbox' = <<>>
    /\ pc' = "batch"
    /\ UNCHANGED <<after, outcome, resultVars, inside, tick, timeVars,
                   spawned, child, wake>>

\* Mutant: a spawn that has no result to settle with is not counted back.
countBackSettled(r) ==
    spawned' = IF r \in {"fulfilled", "rejected"} THEN spawned - 1 ELSE spawned

countBack(r) == spawned' = spawned - 1

\* and runs each delivery as a task,
RunDelivery ==
    /\ pc = "batch" /\ wait[Driver] = None
    /\ batch # <<>>
    /\ batch' = Tail(batch)
    /\ countBack(Head(batch).result)
    /\ LET s == Head(batch).child
           r == Head(batch).result
       IN  \/ r = "fulfilled" /\ resolve(s)
           \/ r = "rejected" /\ reject(s)
           \/ r \in {"none", "panic"} /\ UNCHANGED promiseVars
    /\ IF Head(batch).result = "panic"
       THEN fail("panic")
       ELSE /\ pc' = "drain" /\ after' = "batch"
            /\ UNCHANGED <<outcome, resultVars>>
    /\ UNCHANGED <<tokenVars, parkedVars, tick, timeVars, child, inbox, wake>>

\* until there are none.
EndInbox ==
    /\ pc = "batch" /\ batch = <<>>
    /\ pc' = "fire"
    /\ UNCHANGED <<after, outcome, resultVars, inside, outside>>

\* Mutant: the heap's first timer is read and left in it.
poppedKeeping(t) == timers

popped(t) == timers \ {t}

\* fireDue: the first timer that is due runs as a task.
FireDue(t) ==
    /\ pc = "fire"
    /\ Due(t)
    /\ timers' = popped(t)
    /\ pc' = "task" /\ after' = "fire"
    /\ UNCHANGED <<outcome, resultVars, inside, tick, seq, now, spawnVars>>

EndFire ==
    /\ pc = "fire"
    /\ ~\E t \in timers : Due(t)
    /\ pc' = "check"
    /\ UNCHANGED <<after, outcome, resultVars, inside, outside>>

\* abort: the last parked call gets the token, marked, to exit with.
Abort ==
    /\ pc = "abort" /\ wait[Driver] = None
    /\ parked # <<>>
    /\ LET c == parked[Len(parked)]
       IN  /\ parked' = SubSeq(parked, 1, Len(parked) - 1)
           /\ aborted' = [aborted EXCEPT ![c] = TRUE]
           /\ hand(c)
    /\ UNCHANGED <<driverVars, failed, awaits, parkedAt, promiseVars,
                   outside>>

\* Mutant: the loop stops one call short.
EndAbortEarly ==
    /\ pc = "abort" /\ wait[Driver] = None
    /\ Len(parked) <= 1
    /\ pc' = "ended"
    /\ UNCHANGED <<after, outcome, resultVars, inside, outside>>

EndAbort ==
    /\ pc = "abort" /\ wait[Driver] = None
    /\ parked = <<>>
    /\ pc' = "ended"
    /\ UNCHANGED <<after, outcome, resultVars, inside, outside>>

-----------------------------------------------------------------------------
(* Other goroutines, and time.                                             *)

\* A spawned domain posts: under the lock it appends,
Post(s, r) ==
    /\ child[s] = "running"
    /\ child' = [child EXCEPT ![s] = "posted"]
    /\ inbox' = Append(inbox, [child |-> s, result |-> r])
    /\ UNCHANGED <<driverVars, inside, tick, timeVars, spawned, batch, wake>>

\* and after it fills the wake slot, if it is empty.
Signal(s) ==
    /\ child[s] = "posted"
    /\ child' = [child EXCEPT ![s] = "done"]
    /\ wake' = TRUE
    /\ UNCHANGED <<driverVars, inside, tick, timeVars, spawned, inbox, batch>>

Clock ==
    /\ now < MaxNow
    /\ now' = now + 1
    /\ UNCHANGED <<driverVars, inside, tick, timers, seq, spawnVars>>

\* The domain has ended: nothing drives it any more.
Ended == pc = "ended" /\ UNCHANGED vars

-----------------------------------------------------------------------------
\* What the code of the program may do, in the goroutine g.
Code(g) ==
    \/ \E c \in Co : Async(g, c)
    \/ \E p \in Made : NewPromise(g, p) \/ Resolve(g, p) \/ Reject(g, p)
    \/ \E ms \in Delays : SetTimeout(g, ms)
    \/ \E id \in 1 .. seq : ClearTimeout(g, id)
    \/ \E s \in Child : Spawn(g, s)
    \/ WriteAfterEnd(g)

\* How a piece of it ends, or suspends itself.
Finish(c) == Return(c) \/ Throw(c) \/ Panic(c)

FinishTask ==
    \/ TaskReturn
    \/ \E c \in Co : ModuleCall(c)
    \/ SpawnReturn
    \/ \E p \in Promise : SpawnAsyncReturn(p)
    \/ \E how \in {"throw", "panic"} : TaskFail(how)

\* What the runtime does by itself.
Step ==
    \/ \E g \in Goroutine, c \in Co : Handback(g, c)
    \/ \E c \in Co : Resumed(c) \/ RunResume(c)
    \/ \E n \in 1 .. moduleHops : RunReport(n)
    \/ \E t \in timers : FireDue(t)
    \/ ModuleReturn \/ RaiseTick \/ EndDrain \/ Check \/ Leave \/ WaitNext
    \/ TakeInbox \/ RunDelivery \/ EndInbox \/ EndFire \/ Abort \/ EndAbort

Next ==
    \/ \E g \in Goroutine : Code(g)
    \/ \E c \in Co : Finish(c)
    \/ \E c \in Co, p \in Promise : Await(c, p)
    \/ FinishTask
    \/ Step
    \/ \E s \in Child : Signal(s) \/ \E r \in Results : Post(s, r)
    \/ Clock
    \/ Ended

Spec == Init /\ [][Next]_vars

-----------------------------------------------------------------------------
(* Properties.                                                             *)

\* g is not blocked in a channel operation: it may touch the domain.
Active(g) ==
    /\ wait[g] = None
    /\ g # Driver => co[g] \in {"running", "yielding", "resumed", "ending"}

(***************************************************************************)
(* At any moment exactly one goroutine holds the domain's token and only   *)
(* it touches the domain (domain.go), which has no lock: whatever the      *)
(* nesting of calls, awaits, panics and aborts, the channel operations of  *)
(* Async, Await, the microtask that resumes a call, and abort leave one    *)
(* goroutine that is not blocked.                                          *)
(***************************************************************************)
OneTokenHolder ==
    \E g \in Goroutine : \A h \in Goroutine : Active(h) <=> h = g

\* The calls suspended in an Await.
Suspended == {c \in Co : co[c] \in {"yielding", "parked"}}

(***************************************************************************)
(* The parked registry is exactly the calls suspended in an Await, each    *)
(* once and where its parkedAt says, through any order of park, unpark's   *)
(* move of the last call into the gap, and abort.                          *)
(***************************************************************************)
ParkedExact ==
    /\ \A c \in Suspended : parkedAt[c] \in DOMAIN parked /\ parked[parkedAt[c]] = c
    /\ \A i \in DOMAIN parked : parked[i] \in Suspended /\ parkedAt[parked[i]] = i

Occurrences(q, r) == Cardinality({i \in DOMAIN q : q[i] = r})

(***************************************************************************)
(* Until the domain is abandoned a suspended call has exactly one wake-up  *)
(* coming: it is either a reaction of the very promise it awaits, which is *)
(* still pending, or one queued microtask.  No other call has any.  So no  *)
(* await is lost, and none resumes twice.  Await reads the promise only    *)
(* after it has settled: the value or reason it gives the program was      *)
(* there when the call was resumed.                                        *)
(***************************************************************************)
WakeupsExact ==
    \A c \in Co :
        LET queued == Occurrences(micro, Resume(c))
            waits  == {p \in Promise : Occurrences(reactions[p], Resume(c)) > 0}
        IN  IF c \in Suspended
            THEN \/ queued = 1 /\ waits = {} /\ status[awaits[c]] # "pending"
                 \/ /\ queued = 0 /\ waits = {awaits[c]}
                    /\ Occurrences(reactions[awaits[c]], Resume(c)) = 1
                    /\ status[awaits[c]] = "pending"
            ELSE \/ aborted[c]
                 \/ /\ queued = 0 /\ waits = {}
                    /\ co[c] = "resumed" => status[awaits[c]] \in {"fulfilled", "rejected"}

(***************************************************************************)
(* No rejection slips through: once a drain has ended and the driver goes  *)
(* on to other work, every promise rejected so far has been awaited        *)
(* (rejection.go), so a rejection nothing handles is never passed over.    *)
(***************************************************************************)
NoRejectionSlips ==
    pc \in {"check", "wait", "inbox", "batch", "fire"} \/ outcome = "done" =>
        \A p \in Promise : status[p] = "rejected" => handled[p]

(***************************************************************************)
(* Microtasks are always drained before anything asks whether work is      *)
(* pending (pending, domain.go), and so when the driver waits, takes its   *)
(* inbox, fires a timer or leaves; the drain of Exit finds nothing either. *)
(***************************************************************************)
DrainedBetweenTasks ==
    pc \in {"check", "wait", "inbox", "batch", "fire"}
        \/ (pc = "drain" /\ after = "ended") =>
    /\ micro = <<>> /\ rejected = <<>> /\ ~tick
    /\ \A c \in Co : co[c] \in {"unborn", "parked", "done"}

(***************************************************************************)
(* A request's or a spawned domain's driver leaves no goroutine behind:    *)
(* however the domain ended, each call has exited (parked.go).             *)
(***************************************************************************)
NoGoroutineLeft ==
    pc = "ended" /\ ~Main => \A c \in Co : co[c] \in {"unborn", "done"}

(***************************************************************************)
(* A result that reached the caller as it is, not as a copy, is out of the *)
(* spawned domain's reach: none of its code runs any more (busy, spawn).   *)
(***************************************************************************)
UnclonedOutOfReach ==
    delivered /\ ~cloned => \A g \in Goroutine : ~Runs(g)

(***************************************************************************)
(* spawned is exactly the spawns whose results have not come back, which   *)
(* are running, posted, or taken from the inbox: the domain cannot go idle *)
(* under one, and is not kept waiting by none.                             *)
(***************************************************************************)
SpawnedExact ==
    spawned = Cardinality({s \in Child : child[s] = "running"})
                + Len(inbox) + Len(batch)

(***************************************************************************)
(* A module's rejection is its program's failure: from the rejection no    *)
(* timer and no delivery runs (RunModule), and the program does not end    *)
(* as if nothing had happened.                                             *)
(***************************************************************************)
ModuleRejectionFails ==
    Kind = "module" /\ root # None /\ status[root] = "rejected" =>
        /\ pc \in {"task", "drain", "ended"}
        /\ pc = "ended" => outcome \in {"throw", "rejection", "panic"}

(***************************************************************************)
(* A promise settles once, and stays as it settled (R16), whoever calls    *)
(* resolve and reject and however often.                                   *)
(***************************************************************************)
SettlesOnce ==
    [][\A p \in Promise : status[p] \in {"fulfilled", "rejected"} =>
            status'[p] = status[p]]_vars

(***************************************************************************)
(* None of the program runs in an abandoned domain (parked.go): from the   *)
(* abort on no promise settles and no timer, promise or spawn is made.     *)
(***************************************************************************)
AbortRunsNothing ==
    [][(pc = "abort" \/ pc = "ended") =>
        UNCHANGED <<promiseVars, timers, spawned>>]_vars

-----------------------------------------------------------------------------
(* Fairness and liveness.                                                  *)

(***************************************************************************)
(* Go runs every goroutine that can run, and time passes: the runtime's    *)
(* steps are weakly fair.  So is each spawned domain's delivery.  The      *)
(* program's code comes to an end: a call that runs again and again        *)
(* returns or throws, and so does the driver's piece of the program.       *)
(***************************************************************************)
Fairness ==
    /\ WF_vars(Step)
    /\ WF_vars(Clock)
    /\ \A s \in Child : WF_vars(Signal(s) \/ \E r \in Results : Post(s, r))
    /\ \A c \in Co : SF_vars(Finish(c))
    /\ SF_vars(FinishTask)

FairSpec == Spec /\ Fairness

(***************************************************************************)
(* A domain comes to its end: the driver is never left waiting for a       *)
(* wake-up that does not come, and nothing waits on anything for ever, but *)
(* for the awaits of promises nothing settles, which do not keep it.  A    *)
(* result that was posted settles the caller's promise before, unless the  *)
(* caller has failed (waitNext, post).                                     *)
(***************************************************************************)
ComesToAnEnd ==
    /\ <>(pc = "ended")
    /\ \A s \in Child :
        (\E i \in DOMAIN inbox : inbox[i] = [child |-> s, result |-> "fulfilled"])
            ~> (status[s] = "fulfilled" \/ outcome \in {"throw", "rejection", "panic"})
=============================================================================
