----------------------------- MODULE EventLoop -----------------------------
(***************************************************************************)
(* What a domain promises (domain.go): JavaScript's single thread.         *)
(*                                                                         *)
(* There are no goroutines here.  One piece of code runs at a time, the    *)
(* current one, and runs until it ends or awaits; then its caller goes on, *)
(* or, if the loop started it, the loop.  The loop runs promise jobs in    *)
(* the order they were queued, and only when there are none a timer, the   *)
(* earliest due and first set, or the delivery of a spawn's result.        *)
(***************************************************************************)
EXTENDS Naturals, Sequences

CONSTANTS
    Co,       \* async calls, each also the promise of its result
    Promise,  \* all promises
    Child,    \* those that a spawned domain settles
    Driver,   \* a task's own code, outside any async call
    None

VARIABLES
    current,    \* the code that runs, or None
    caller,     \* what goes on when a call that runs ends or awaits
    status,     \* of each promise
    reactions,  \* the jobs each promise queues when it settles
    jobs,       \* the job queue
    timers,     \* the timers that are set
    over        \* "no", "ended", or "failed"

promises == <<status, reactions, jobs>>
vars     == <<current, caller, promises, timers, over>>

Resume(c) == [co |-> c, hops |-> 0]
Report(n) == [co |-> None, hops |-> n]

Init ==
    /\ current = Driver
    /\ caller = [c \in Co |-> None]
    /\ status = [p \in Promise |-> "none"]
    /\ reactions = [p \in Promise |-> <<>>]
    /\ jobs = <<>>
    /\ timers = {}
    /\ over = "no"

settle(p, how) ==
    /\ status[p] = "pending"
    /\ status' = [status EXCEPT ![p] = how]
    /\ jobs' = jobs \o reactions[p]
    /\ reactions' = [reactions EXCEPT ![p] = <<>>]

then(p, job) ==
    /\ IF status[p] = "pending"
       THEN /\ reactions' = [reactions EXCEPT ![p] = Append(@, job)]
            /\ UNCHANGED jobs
       ELSE jobs' = Append(jobs, job) /\ UNCHANGED reactions
    /\ UNCHANGED status

-----------------------------------------------------------------------------
(* What the current code does.                                             *)

Make(p) ==
    /\ current # None
    /\ status[p] = "none"
    /\ status' = [status EXCEPT ![p] = "pending"]
    /\ UNCHANGED <<current, caller, reactions, jobs, timers, over>>

Settle(p) ==
    /\ current # None
    /\ \E how \in {"fulfilled", "rejected"} : settle(p, how)
    /\ UNCHANGED <<current, caller, timers, over>>

\* The numbers of timers grow, and are not used again.
SetTimer ==
    /\ current # None
    /\ \E t \in timers' : timers' = timers \cup {t} /\ \A u \in timers : u.seq < t.seq
    /\ UNCHANGED <<current, caller, promises, over>>

ClearTimer ==
    /\ current # None
    /\ \E t \in timers : timers' = timers \ {t}
    /\ UNCHANGED <<current, caller, promises, over>>

\* An async call runs at once, before its caller goes on.
Call(c) ==
    /\ current # None
    /\ status[c] = "none"
    /\ status' = [status EXCEPT ![c] = "pending"]
    /\ caller' = [caller EXCEPT ![c] = current]
    /\ current' = c
    /\ UNCHANGED <<reactions, jobs, timers, over>>

\* Control goes back from the call c.
leave(c) ==
    /\ current = c
    /\ current' = caller[c]
    /\ caller' = [caller EXCEPT ![c] = None]
    /\ UNCHANGED <<timers, over>>

Await(c, p) == leave(c) /\ status[p] # "none" /\ then(p, Resume(c))

Return(c) == leave(c) /\ \E how \in {"fulfilled", "rejected"} : settle(c, how)

\* A task's own code ends; a first task may leave a job on the promise it made.
EndPiece ==
    /\ current = Driver
    /\ current' = None
    /\ \/ UNCHANGED promises
       \/ \E p \in Promise, n \in {1, 5} : status[p] # "none" /\ then(p, Report(n))
    /\ UNCHANGED <<caller, timers, over>>

-----------------------------------------------------------------------------
(* What the loop does.                                                     *)

Idle == over = "no" /\ current = None

RunJob ==
    /\ Idle /\ jobs # <<>>
    /\ \/ \E c \in Co :
            /\ Head(jobs) = Resume(c)
            /\ current' = c
            /\ jobs' = Tail(jobs)
       \/ /\ Head(jobs).co = None
          /\ \/ jobs' = Tail(jobs)
             \/ jobs' = Append(Tail(jobs), Report(Head(jobs).hops - 1))
          /\ UNCHANGED current
    /\ UNCHANGED <<caller, status, reactions, timers, over>>

RunTimer(t) ==
    /\ Idle /\ jobs = <<>>
    /\ \A u \in timers : t.when < u.when \/ (t.when = u.when /\ t.seq <= u.seq)
    /\ timers' = timers \ {t}
    /\ current' = Driver
    /\ UNCHANGED <<caller, promises, over>>

Deliver(s) ==
    /\ Idle /\ jobs = <<>>
    /\ \E how \in {"fulfilled", "rejected"} : settle(s, how)
    /\ UNCHANGED <<current, caller, timers, over>>

-----------------------------------------------------------------------------
(* How it ends.                                                            *)

Stop(how) ==
    /\ over = "no"
    /\ over' = how
    /\ current' = None
    /\ caller' = [c \in Co |-> None]
    /\ UNCHANGED <<status, reactions, timers>>

\* A failure nothing catches, in the current code, in the loop, or in a job.
Fail ==
    /\ Stop("failed")
    /\ UNCHANGED jobs \/ (current = None /\ jobs # <<>> /\ jobs' = Tail(jobs))

\* Nothing is left to run.
End ==
    /\ Idle /\ jobs = <<>> /\ timers = {}
    /\ Stop("ended")
    /\ UNCHANGED jobs

Next ==
    \/ \E p \in Promise : Make(p) \/ Settle(p)
    \/ SetTimer \/ ClearTimer
    \/ \E c \in Co : Call(c) \/ Return(c) \/ \E p \in Promise : Await(c, p)
    \/ EndPiece
    \/ RunJob
    \/ \E t \in timers : RunTimer(t)
    \/ \E s \in Child : Deliver(s)
    \/ Fail
    \/ End

Spec == Init /\ [][Next]_vars
=============================================================================
