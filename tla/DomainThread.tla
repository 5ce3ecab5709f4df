---------------------------- MODULE DomainThread ----------------------------
(***************************************************************************)
(* A domain, with its goroutines and the token they pass around, is        *)
(* JavaScript's single thread: Domain implements EventLoop.                *)
(***************************************************************************)
EXTENDS Domain

\* A Go panic is on its way from call to caller: no code runs any more.
Unwinding == \E c \in Co : co[c] = "ending" /\ failed[c]

over ==
    IF pc \in {"abort", "ended"}
    THEN IF outcome \in {"done", "unsettled"} THEN "ended" ELSE "failed"
    ELSE IF Unwinding THEN "failed" ELSE "no"

\* The call c has the thread: its code runs, or is about to go on.
HasThread(c) == co[c] \in {"running", "resumed"}

(***************************************************************************)
(* What goes on after the call c: whoever waits for the token from it.     *)
(* The driver waits in the code of a task, or else in the loop.  A call    *)
(* that has awaited or ended, and only has the token to give back, is done *)
(* with the thread.                                                        *)
(***************************************************************************)
callerOf(c) ==
    LET waiting == {g \in Co : wait[g] = c}
    IN  IF waiting # {} THEN CHOOSE g \in waiting : TRUE
        ELSE IF wait[Driver] = c /\ pc = "task" THEN Driver ELSE None

caller ==
    [c \in Co |-> IF over = "no" /\ HasThread(c) THEN callerOf(c) ELSE None]

\* The code that runs: the call nobody called out of, or the driver's.
current ==
    LET deepest == {c \in Co : HasThread(c) /\ (wait[c] = None \/ ~HasThread(wait[c]))}
    IN  IF over # "no" THEN None
        ELSE IF deepest # {} THEN CHOOSE c \in deepest : TRUE
        ELSE IF pc = "task" THEN Driver ELSE None

Thread == INSTANCE EventLoop WITH jobs <- micro

(***************************************************************************)
(* Within a domain, code runs in exactly the order Node's queues would     *)
(* give it (domain.go): one piece at a time and to its end, an async call  *)
(* before its caller goes on, jobs in the order they were queued, then     *)
(* timers by due time and scheduling order, each after all jobs; and       *)
(* nothing runs or settles once the domain has failed or ended.            *)
(***************************************************************************)
SingleThread == Thread!Spec
=============================================================================
