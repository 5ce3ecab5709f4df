------------------------------ MODULE Process ------------------------------
(***************************************************************************)
(* The process: main's event loop (backend/runtime/loop.go), the domains   *)
(* that main, requests and other spawned domains spawn (spawn.go), the     *)
(* servers and their requests (http.go), and what keeps the process alive  *)
(* or ends it (loop.go, uncaught.go).                                      *)
(*                                                                         *)
(* Every domain has a goroutine that drives it, and they run in parallel.  *)
(* What happens inside a domain is Domain's: here a task of a domain, with *)
(* the microtasks that follow it, is a stretch in which it sets and clears *)
(* timers, spawns, logs, delivers its result or ends its response, and     *)
(* which ends or fails.  Timers are counted, and may be due at any moment. *)
(* A server is listened on for as long as the process lives: the           *)
(* declarations have no server.close.                                      *)
(***************************************************************************)
EXTENDS Integers, Sequences, FiniteSets

CONSTANTS
    Main,       \* the main program's domain
    Spawn,      \* the domains that may be spawned
    Request,    \* the requests that may arrive
    MaxEvents,  \* bound on the timers set and the requests that arrive
    Server,     \* the servers the program may listen on
    None

Domain == {Main} \cup Spawn \cup Request

ASSUME DomainsAssumption ==
    /\ IsFiniteSet(Spawn) /\ IsFiniteSet(Request) /\ IsFiniteSet(Server)
    /\ Main \notin Spawn \cup Request /\ Spawn \cap Request = {}
    /\ None \notin Domain

ASSUME BoundAssumption == MaxEvents \in Nat

VARIABLES
    exited,       \* "no", or how the process ended
    at,           \* where each domain's driver is
    after,        \* where the task it runs returns to
    timers,       \* how many timers each domain has set
    budget,       \* timers and requests that may still come
    spawned,      \* Domain.spawned
    inbox,        \* Domain.inbox
    batch,        \* what runInbox took and has still to run
    wakeup,       \* the domains whose Domain.wake holds its slot
    parent,       \* the domain that spawned a domain
    delivered,    \* the domains that have delivered: spawn's delivered
    held,         \* the domains that hold a handle: between ref and unref
    refing,       \* the domains whose goroutine is in ref, after the count
    liveHandles,
    wake,         \* loop.go's wake holds its slot
    buffered,     \* what is in the buffer, not written: see Owed
    ended,        \* the requests with ServerResponse.ended
    owner,        \* the domain that called a server's listen
    server,       \* how far its Listen, and its Serve, are
    queue, taken  \* loop.go's queue, and what takeQueue took from it

domainVars  == <<timers, budget, spawned, inbox, batch, wakeup>>
spawnVars   == <<parent, delivered>>
handleVars  == <<held, refing, liveHandles, wake, buffered>>
serverVars  == <<ended, owner, server, queue, taken>>
vars == <<exited, at, after, domainVars, spawnVars, handleVars, serverVars>>

Delivery == [child : Spawn, how : {"settle", "throw", "panic", "none"}]
Queued   == [what : {"callback", "serve"}, of : Server]
Place    == {"unborn", "task", "queue", "inbox", "batch", "fire", "loop",
             "idle", "select", "returned", "flushed", "finished", "failed"}

TypeOK ==
    /\ exited \in {"no", "normal", "failure", "signal"}
    /\ at \in [Domain -> Place]
    /\ after \in [Domain -> {"queue", "batch", "fire", "loop"}]
    /\ timers \in [Domain -> Nat] /\ budget \in Nat
    /\ spawned \in [Domain -> Nat]
    /\ inbox \in [Domain -> Seq(Delivery)] /\ batch \in [Domain -> Seq(Delivery)]
    /\ wakeup \subseteq Domain
    /\ parent \in [Spawn -> Domain \cup {None}]
    /\ delivered \subseteq Spawn
    /\ held \subseteq Domain /\ refing \subseteq Domain
    /\ liveHandles \in Nat
    /\ wake \in BOOLEAN /\ buffered \in SUBSET {"owed", "late"}
    /\ ended \subseteq Request
    /\ owner \in [Server -> Domain \cup {None}]
    /\ server \in [Server -> {"none", "bound", "announced", "queued", "serving"}]
    /\ queue \in Seq(Queued) /\ taken \in Seq(Queued)

\* The process starts in main's top-level code.
Init ==
    /\ exited = "no"
    /\ at = [d \in Domain |-> IF d = Main THEN "task" ELSE "unborn"]
    /\ after = [d \in Domain |-> IF d = Main THEN "queue" ELSE "loop"]
    /\ timers = [d \in Domain |-> 0] /\ budget = MaxEvents
    /\ spawned = [d \in Domain |-> 0]
    /\ inbox = [d \in Domain |-> <<>>] /\ batch = [d \in Domain |-> <<>>]
    /\ wakeup = {}
    /\ parent = [s \in Spawn |-> None]
    /\ delivered = {}
    /\ held = {} /\ refing = {}
    /\ liveHandles = 0
    /\ wake = FALSE /\ buffered = {}
    /\ ended = {}
    /\ owner = [v \in Server |-> None]
    /\ server = [v \in Server |-> "none"]
    /\ queue = <<>> /\ taken = <<>>

\* pending: work that will run by itself.
pending(d) == timers[d] > 0 \/ spawned[d] > 0

\* The driver of d is at a place of its own, and not inside ref.
Alive(d, place) == exited = "no" /\ at[d] = place /\ d \notin refing

-----------------------------------------------------------------------------
(* What keeps the process alive.                                           *)

\* ref: the count first,
ref(d) ==
    /\ liveHandles' = liveHandles + 1
    /\ refing' = refing \cup {d}
    /\ UNCHANGED <<wake, buffered>>

\* Mutant: what was logged before the handle is left in the buffer.
RefNotify(d) ==
    /\ exited = "no" /\ d \in refing
    /\ refing' = refing \ {d}
    /\ wake' = TRUE
    /\ UNCHANGED <<exited, at, after, domainVars, spawnVars, held, liveHandles,
                   buffered, serverVars>>

\* then Flush and notify.
RefFlush(d) ==
    /\ exited = "no" /\ d \in refing
    /\ refing' = refing \ {d}
    /\ buffered' = {}
    /\ wake' = TRUE
    /\ UNCHANGED <<exited, at, after, domainVars, spawnVars, held, liveHandles,
                   serverVars>>

\* Mutant: main is not woken.
unrefQuietly(d) ==
    /\ held' = held \ {d}
    /\ liveHandles' = liveHandles - 1
    /\ UNCHANGED <<refing, wake>>

unref(d) ==
    /\ held' = held \ {d}
    /\ liveHandles' = liveHandles - 1
    /\ wake' = TRUE
    /\ UNCHANGED refing

-----------------------------------------------------------------------------
(* What the code of a domain does in a task.                               *)

\* d's code runs: it is in a task, and not inside Listen.
InTask(d) ==
    /\ Alive(d, "task")
    /\ \A v \in Server : owner[v] = d => server[v] \in {"queued", "serving"}

SetTimeout(d) ==
    /\ InTask(d)
    /\ budget > 0
    /\ budget' = budget - 1
    /\ timers' = [timers EXCEPT ![d] = @ + 1]
    /\ UNCHANGED <<exited, at, after, spawned, inbox, batch, wakeup, spawnVars,
                   handleVars, serverVars>>

ClearTimeout(d) ==
    /\ InTask(d)
    /\ timers[d] > 0
    /\ timers' = [timers EXCEPT ![d] = @ - 1]
    /\ UNCHANGED <<exited, at, after, budget, spawned, inbox, batch, wakeup,
                   spawnVars, handleVars, serverVars>>

\* spawn: the spawned domain's goroutine starts with its first task.
spawn(d, s) ==
    /\ InTask(d)
    /\ at[s] = "unborn"
    /\ at' = [at EXCEPT ![s] = "task"]
    /\ parent' = [parent EXCEPT ![s] = d]
    /\ spawned' = [spawned EXCEPT ![d] = @ + 1]
    /\ UNCHANGED <<exited, after, timers, budget, inbox, batch, wakeup,
                   delivered, handleVars, serverVars>>

\* Main waits for d: it is main, or main spawned it and has no result yet.
Owed(d) == d = Main \/ (d \in Spawn /\ parent[d] = Main /\ d \notin delivered)

\* writeLine: what is in the buffer is written if a handle is live.
writeLine(d) ==
    /\ InTask(d)
    /\ buffered' = IF liveHandles > 0 THEN {}
                   ELSE buffered \cup {IF Owed(d) THEN "owed" ELSE "late"}
    /\ UNCHANGED <<exited, at, after, domainVars, spawnVars, held, refing,
                   liveHandles, wake, serverVars>>

\* post: append to the inbox of d, and fill its wake slot.
post(d, delivery) ==
    /\ inbox' = [inbox EXCEPT ![d] = Append(@, delivery)]
    /\ wakeup' = wakeup \cup {d}

\* deliver: only the first time.
deliver(s, how) ==
    IF s \in delivered
    THEN UNCHANGED <<inbox, wakeup, delivered>>
    ELSE /\ delivered' = delivered \cup {s}
         /\ post(parent[s], [child |-> s, how |-> how])

\* The spawned function has its result or throws, in some task: done and fail.
Deliver(s) ==
    /\ InTask(s)
    /\ s \notin delivered
    /\ deliver(s, "settle")
    /\ UNCHANGED <<exited, at, after, timers, budget, spawned, batch, parent,
                   handleVars, serverVars>>

\* Listen: the port is bound and counted,
Listen(d, v) ==
    /\ InTask(d)
    /\ server[v] = "none"
    /\ server' = [server EXCEPT ![v] = "bound"]
    /\ owner' = [owner EXCEPT ![v] = d]
    /\ ref(d)
    /\ UNCHANGED <<exited, at, after, domainVars, spawnVars, held, ended, queue,
                   taken>>

\* Mutant: the queue is a stack.
enqueueFirst(what, v) ==
    /\ queue' = <<[what |-> what, of |-> v]>> \o queue
    /\ wake' = TRUE

enqueue(what, v) ==
    /\ queue' = Append(queue, [what |-> what, of |-> v])
    /\ wake' = TRUE

\* the callback, if there is one, is queued for main,
EnqueueCallback(v) ==
    /\ server[v] = "bound" /\ Alive(owner[v], "task")
    /\ server' = [server EXCEPT ![v] = "announced"]
    /\ enqueue("callback", v)
    /\ UNCHANGED <<exited, at, after, domainVars, spawnVars, held, refing,
                   liveHandles, buffered, ended, owner, taken>>

\* and after it Serve.
EnqueueServe(v) ==
    /\ server[v] \in {"bound", "announced"} /\ Alive(owner[v], "task")
    /\ server' = [server EXCEPT ![v] = "queued"]
    /\ enqueue("serve", v)
    /\ UNCHANGED <<exited, at, after, domainVars, spawnVars, held, refing,
                   liveHandles, buffered, ended, owner, taken>>

\* The port cannot be bound, or Serve fails: fatalf.
Fatal ==
    /\ exited = "no"
    /\ \E v \in Server :
            \/ server[v] = "none" /\ \E d \in Domain : InTask(d)
            \/ server[v] = "serving"
    /\ exited' = "failure"
    /\ buffered' = {}
    /\ UNCHANGED <<at, after, domainVars, spawnVars, held, refing, liveHandles,
                   wake, serverVars>>

\* res.end(), of a response that has not ended.
End(r) ==
    /\ InTask(r)
    /\ r \notin ended
    /\ ended' = ended \cup {r}
    /\ UNCHANGED <<exited, at, after, domainVars, spawnVars, handleVars, owner,
                   server, queue, taken>>

\* The task and its microtasks have run.
EndTask(d) ==
    /\ InTask(d)
    /\ at' = [at EXCEPT ![d] = after[d]]
    /\ UNCHANGED <<exited, after, domainVars, spawnVars, handleVars, serverVars>>

-----------------------------------------------------------------------------
(* A throw nothing caught, a rejection nothing handled, or a Go panic.     *)

\* Mutant: a failure in the work after a result or a response keeps its handle.
failHolding(d, how) ==
    LET dies == d = Main \/ (d \in delivered /\ how = "throw"
                                /\ parent[d] = Main)
    IN  /\ exited' = IF dies THEN "failure" ELSE exited
        /\ at' = [at EXCEPT ![d] = "failed"]
        /\ held' = held \ {d}
        /\ UNCHANGED <<refing, liveHandles, wake, buffered>>
        /\ IF d \in Spawn THEN deliver(d, how)
                          ELSE UNCHANGED <<inbox, wakeup, delivered>>

(***************************************************************************)
(* In main it ends the process (Exit).  A spawned domain raises it in its  *)
(* caller, or after its result reports it (failedAfterResult), which for a *)
(* throw ends the process if main spawned it.  A request's is reported and *)
(* the request dropped (serve, finishDetached).  Whoever holds a handle    *)
(* lets it go.                                                             *)
(***************************************************************************)
fail(d, how) ==
    LET dies == d = Main \/ (d \in delivered /\ how = "throw"
                                /\ parent[d] = Main)
    IN  /\ exited' = IF dies THEN "failure" ELSE exited
        /\ at' = [at EXCEPT ![d] = "failed"]
        /\ IF d \in held /\ ~dies THEN unref(d)
                               ELSE UNCHANGED <<held, refing, liveHandles, wake>>
        /\ IF d \in Spawn THEN deliver(d, how)
                          ELSE UNCHANGED <<inbox, wakeup, delivered>>
        /\ buffered' = IF dies THEN {} ELSE buffered

FailTask(d, how) ==
    /\ InTask(d)
    /\ fail(d, how)
    /\ UNCHANGED <<after, timers, budget, spawned, batch, parent, serverVars>>

-----------------------------------------------------------------------------
(* runInbox and fireDue, in every domain.                                  *)

TakeInbox(d) ==
    /\ Alive(d, "inbox")
    /\ batch' = [batch EXCEPT ![d] = inbox[d]]
    /\ inbox' = [inbox EXCEPT ![d] = <<>>]
    /\ at' = [at EXCEPT ![d] = "batch"]
    /\ UNCHANGED <<exited, after, timers, budget, spawned, wakeup, spawnVars,
                   handleVars, serverVars>>

\* A delivery: the promise settles, and what awaits it runs.
RunDelivery(d) ==
    /\ Alive(d, "batch") /\ batch[d] # <<>>
    /\ Head(batch[d]).how \in {"settle", "none"}
    /\ batch' = [batch EXCEPT ![d] = Tail(@)]
    /\ spawned' = [spawned EXCEPT ![d] = @ - 1]
    /\ IF Head(batch[d]).how = "settle"
       THEN /\ at' = [at EXCEPT ![d] = "task"]
            /\ after' = [after EXCEPT ![d] = "batch"]
       ELSE UNCHANGED <<at, after>>
    /\ UNCHANGED <<exited, timers, budget, inbox, wakeup, spawnVars, handleVars,
                   serverVars>>

\* A failure before the result is raised where the result would have arrived.
RaiseDelivery(d) ==
    /\ Alive(d, "batch") /\ batch[d] # <<>>
    /\ Head(batch[d]).how \in {"throw", "panic"}
    /\ batch' = [batch EXCEPT ![d] = Tail(@)]
    /\ spawned' = [spawned EXCEPT ![d] = @ - 1]
    /\ fail(d, Head(batch[d]).how)
    /\ UNCHANGED <<after, timers, budget, parent, serverVars>>

EndInbox(d) ==
    /\ Alive(d, "batch") /\ batch[d] = <<>>
    /\ at' = [at EXCEPT ![d] = "fire"]
    /\ UNCHANGED <<exited, after, domainVars, spawnVars, handleVars, serverVars>>

\* A timer is due, and runs as a task.
FireDue(d) ==
    /\ Alive(d, "fire")
    /\ timers[d] > 0
    /\ timers' = [timers EXCEPT ![d] = @ - 1]
    /\ at' = [at EXCEPT ![d] = "task"]
    /\ after' = [after EXCEPT ![d] = "fire"]
    /\ UNCHANGED <<exited, budget, spawned, inbox, batch, wakeup, spawnVars,
                   handleVars, serverVars>>

\* No other timer is due.
EndFire(d) ==
    /\ Alive(d, "fire")
    /\ at' = [at EXCEPT ![d] = "loop"]
    /\ UNCHANGED <<exited, after, domainVars, spawnVars, handleVars, serverVars>>

-----------------------------------------------------------------------------
(* The loop of a spawned domain, and of a request.                         *)

\* What its goroutine waits for: the result, or the response.
Served(d) == IF d \in Spawn THEN d \in delivered ELSE d \in ended

\* waitNext, before the result or the response, and in finish after it.
WaitNext(d) ==
    /\ d # Main /\ Alive(d, "loop")
    /\ pending(d)
    /\ ~Served(d) \/ d \in held
    /\ \/ timers[d] > 0 /\ UNCHANGED wakeup
       \/ d \in wakeup /\ wakeup' = wakeup \ {d}
    /\ at' = [at EXCEPT ![d] = "inbox"]
    /\ UNCHANGED <<exited, after, timers, budget, spawned, inbox, batch,
                   spawnVars, handleVars, serverVars>>

\* The result is delivered or the response ended, and work is left.
Ref(d) ==
    /\ d # Main /\ Alive(d, "loop")
    /\ pending(d) /\ Served(d) /\ d \notin held
    /\ held' = held \cup {d}
    /\ ref(d)
    /\ UNCHANGED <<exited, at, after, domainVars, spawnVars, serverVars>>

\* Nothing is left: a spawned domain with no result releases its caller.
Finish(d) ==
    /\ d # Main /\ Alive(d, "loop")
    /\ ~pending(d)
    /\ at' = [at EXCEPT ![d] = "finished"]
    /\ IF d \in held THEN unref(d) ELSE UNCHANGED <<held, refing, liveHandles, wake>>
    /\ IF d \in Spawn THEN deliver(d, "none")
                      ELSE UNCHANGED <<inbox, wakeup, delivered>>
    /\ UNCHANGED <<exited, after, timers, budget, spawned, batch, parent,
                   buffered, serverVars>>

\* A request arrives at a server.
Arrive(r) ==
    /\ Alive(r, "unborn")
    /\ \E v \in Server : server[v] = "serving"
    /\ budget > 0
    /\ budget' = budget - 1
    /\ at' = [at EXCEPT ![r] = "task"]
    /\ UNCHANGED <<exited, after, timers, spawned, inbox, batch, wakeup, spawnVars,
                   handleVars, serverVars>>

-----------------------------------------------------------------------------
(* run: main's loop.                                                       *)

\* takeQueue,
TakeQueue ==
    /\ Alive(Main, "queue") /\ taken = <<>> /\ queue # <<>>
    /\ taken' = queue
    /\ queue' = <<>>
    /\ UNCHANGED <<exited, at, after, domainVars, spawnVars, handleVars, ended,
                   owner, server>>

\* a task for each callback in it; the one Listen queues last starts Serve.
RunQueued ==
    /\ Alive(Main, "queue") /\ taken # <<>>
    /\ taken' = Tail(taken)
    /\ \/ /\ Head(taken).what = "callback"
          /\ at' = [at EXCEPT ![Main] = "task"]
          /\ after' = [after EXCEPT ![Main] = "queue"]
          /\ UNCHANGED server
       \/ /\ Head(taken).what = "serve"
          /\ server' = [server EXCEPT ![Head(taken).of] = "serving"]
          /\ UNCHANGED <<at, after>>
    /\ UNCHANGED <<exited, domainVars, spawnVars, handleVars, ended, owner,
                   queue>>

EndQueue ==
    /\ Alive(Main, "queue") /\ taken = <<>>
    /\ at' = [at EXCEPT ![Main] = "inbox"]
    /\ UNCHANGED <<exited, after, domainVars, spawnVars, handleVars, serverVars>>

\* Mutant: only main's own work keeps the process alive.
ReadNoHandles ==
    /\ Alive(Main, "loop")
    /\ at' = [at EXCEPT ![Main] = "idle"]
    /\ UNCHANGED <<exited, after, domainVars, spawnVars, handleVars, serverVars>>

(***************************************************************************)
(* Is anything left?  liveHandles is read first, then the queue and main's *)
(* own pending work; other goroutines run between the two.                 *)
(***************************************************************************)
ReadHandles ==
    /\ Alive(Main, "loop")
    /\ at' = [at EXCEPT ![Main] = IF liveHandles = 0 THEN "idle" ELSE "select"]
    /\ UNCHANGED <<exited, after, domainVars, spawnVars, handleVars, serverVars>>

ReadRest ==
    /\ Alive(Main, "idle")
    /\ at' = [at EXCEPT ![Main] =
                 IF queue = <<>> /\ ~pending(Main) THEN "returned" ELSE "select"]
    /\ UNCHANGED <<exited, after, domainVars, spawnVars, handleVars, serverVars>>

\* Flush, then the select.
Select ==
    /\ Alive(Main, "select")
    /\ buffered' = {}
    /\ \/ wake /\ wake' = FALSE /\ UNCHANGED wakeup
       \/ Main \in wakeup /\ wakeup' = wakeup \ {Main} /\ UNCHANGED wake
       \/ timers[Main] > 0 /\ UNCHANGED <<wake, wakeup>>
    /\ at' = [at EXCEPT ![Main] = "queue"]
    /\ UNCHANGED <<exited, after, timers, budget, spawned, inbox, batch,
                   spawnVars, held, refing, liveHandles, serverVars>>

\* SIGINT or SIGTERM, in the select.
Interrupt ==
    /\ Alive(Main, "select")
    /\ exited' = "signal"
    /\ buffered' = {}
    /\ UNCHANGED <<at, after, domainVars, spawnVars, held, refing, liveHandles,
                   wake, serverVars>>

\* Exit, when nothing failed: Flush,
ExitFlush ==
    /\ Alive(Main, "returned")
    /\ at' = [at EXCEPT ![Main] = "flushed"]
    /\ buffered' = {}
    /\ UNCHANGED <<exited, after, domainVars, spawnVars, held, refing,
                   liveHandles, wake, serverVars>>

\* then main returns, and the process is gone with every other goroutine.
Exit ==
    /\ Alive(Main, "flushed")
    /\ exited' = "normal"
    /\ UNCHANGED <<at, after, domainVars, spawnVars, handleVars, serverVars>>

Gone == exited # "no" /\ UNCHANGED vars

-----------------------------------------------------------------------------
\* What the code in d may do in a task.
Code(d) ==
    \/ SetTimeout(d) \/ ClearTimeout(d) \/ writeLine(d)
    \/ \E s \in Spawn : spawn(d, s)
    \/ \E v \in Server : Listen(d, v)

\* How a task ends.
Progress(d) ==
    \/ EndTask(d)
    \/ \E how \in {"throw", "panic"} : FailTask(d, how)

\* What the goroutine of d does by itself.
Drive(d) ==
    \/ RefFlush(d) \/ TakeInbox(d) \/ RunDelivery(d) \/ RaiseDelivery(d)
    \/ EndInbox(d) \/ EndFire(d) \/ WaitNext(d) \/ Ref(d) \/ Finish(d)

DriveMain ==
    TakeQueue \/ RunQueued \/ EndQueue \/ ReadHandles \/ ReadRest \/ Select
        \/ ExitFlush \/ Exit

Enqueue(v) == EnqueueCallback(v) \/ EnqueueServe(v)

Next ==
    \/ \E d \in Domain : Code(d) \/ Progress(d) \/ Drive(d) \/ FireDue(d)
    \/ \E s \in Spawn : Deliver(s)
    \/ \E r \in Request : End(r) \/ Arrive(r)
    \/ \E v \in Server : Enqueue(v)
    \/ DriveMain
    \/ Interrupt
    \/ Fatal
    \/ Gone

Spec == Init /\ [][Next]_vars

-----------------------------------------------------------------------------
(* Properties.                                                             *)

(***************************************************************************)
(* liveHandles is the servers that listen and the domains that work on     *)
(* after their result or their response (loop.go), whatever the order in   *)
(* which they come, end and fail: a handle leaked keeps the process for    *)
(* ever, and one given back twice ends it under a server.                  *)
(***************************************************************************)
HandlesExact ==
    /\ TypeOK
    /\ liveHandles = Cardinality({v \in Server : server[v] # "none"})
                        + Cardinality(held)

\* What d spawned, and has not had back.
Outstanding(d) == {s \in Spawn : parent[s] = d /\ s \notin delivered}

(***************************************************************************)
(* Nothing that keeps the process is cut short.  The caller cannot go      *)
(* idle, and a program cannot exit, under a spawn (spawn.go): a domain     *)
(* that returned, or finished, has had back every result or failure, down  *)
(* the whole tree of spawns.  And a process that serves does not end by    *)
(* itself (run): no request has arrived, and none can, when main returns,  *)
(* though main reads liveHandles and the queue at different moments.       *)
(***************************************************************************)
NoEarlyEnd ==
    /\ \A d \in Domain : at[d] \in {"returned", "flushed", "finished"} =>
            Outstanding(d) = {} /\ inbox[d] = <<>> /\ batch[d] = <<>>
    /\ at[Main] \in {"returned", "flushed"} =>
            /\ \A v \in Server : server[v] # "serving"
            /\ \A r \in Request : at[r] = "unborn"

(***************************************************************************)
(* "listening on ..." is printed before any handler runs (Listen): a       *)
(* server serves only when its callback is no longer queued, wherever      *)
(* listen was called.                                                      *)
(***************************************************************************)
CallbackBeforeServe ==
    \A v \in Server : server[v] = "serving" =>
        \A q \in {queue, taken} : \A i \in DOMAIN q : q[i].of # v

(***************************************************************************)
(* While a handle is live console output is written through (liveHandles): *)
(* no line stays in the buffer, but for the moment in which a ref is on    *)
(* its way to flush it.  Exit writes the output so far before main returns *)
(* (uncaught.go), while other domains still log: no line that main logged, *)
(* or a domain while main waited for its result, is lost with the buffer.  *)
(***************************************************************************)
OutputWritten ==
    /\ buffered # {} /\ liveHandles > 0 => refing # {}
    /\ exited = "normal" => "owed" \notin buffered

(***************************************************************************)
(* What a spawned domain has left to do after its result keeps the process *)
(* alive (spawn.go:123, and TestSpawnedWorkAfterTheResultKeepsRunning): a  *)
(* normal exit leaves no spawned domain with work pending.                 *)
(***************************************************************************)
WorkAfterResultKeepsAlive ==
    exited = "normal" =>
        \A s \in Spawn : pending(s) => at[s] = "failed"

-----------------------------------------------------------------------------
(* Fairness and liveness.                                                  *)

(***************************************************************************)
(* Go runs every goroutine that can run, and a timer that stays set comes  *)
(* due.  The program's code comes to an end: a task that runs again and    *)
(* again ends.                                                             *)
(***************************************************************************)
Fairness ==
    /\ \A d \in Domain :
            /\ WF_vars(Drive(d) \/ (d = Main /\ DriveMain))
            /\ SF_vars(FireDue(d))
            /\ SF_vars(Progress(d))
    /\ \A v \in Server : WF_vars(Enqueue(v))

FairSpec == Spec /\ Fairness

(***************************************************************************)
(* A program that listens on nothing comes to its end: main is woken when  *)
(* the last handle goes, and for every result, and nobody waits for        *)
(* somebody who waits for him.  Every spawned domain and every request     *)
(* comes to its end too, while a server keeps the process.                 *)
(***************************************************************************)
EverybodyEnds ==
    /\ <>(exited # "no" \/ \E v \in Server : server[v] # "none")
    /\ \A d \in Spawn \cup Request : at[d] = "task" ~>
            (at[d] \in {"finished", "failed"} \/ exited # "no")
=============================================================================
