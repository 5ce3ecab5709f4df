-------------------------- MODULE DomainPromiseProofs --------------------------
(***************************************************************************)
(* Proofs about promises and what hangs on them: they settle once, a       *)
(* rejection nothing handles is not passed over, a module's rejection ends *)
(* its program, and an await has one wake-up.  And about spawns: the count *)
(* of those whose results are due, and the result that is handed over      *)
(* without a copy.  Last, that a domain is JavaScript's single thread      *)
(* (DomainThread): it implements EventLoop.                                *)
(***************************************************************************)
EXTENDS DomainProofs, DomainThread, FiniteSetTheorems

USE DEF Promise, Goroutine

-----------------------------------------------------------------------------
(* The promise of a call or a spawn is made when it starts.                *)

BornInv ==
    /\ \A c \in Co : co[c] = "unborn" => status[c] = "none"
    /\ \A s \in Child : child[s] = "unborn" => status[s] = "none"

\* Nothing but a promise that is pending changes its status, and then it settles.
Kept ==
    \A p \in Promise : /\ status[p] # "pending" => status'[p] = status[p]
                       /\ status[p] = "pending" => status'[p] # "none"

LEMMA SettleKept ==
    ASSUME PromiseType, NEW p \in Promise, resolve(p) \/ reject(p)
    PROVE  Kept
  BY DEF resolve, reject, settle, PromiseType, promiseVars, Kept

\* The steps, by what becomes of the status of a promise.
LEMMA StatusSteps ==
    ASSUME TypeOK, [Next]_vars
    PROVE  \/ Kept
           \/ \E g \in Goroutine, c \in Co : Async(g, c)
           \/ \E c \in Co : ModuleCall(c)
           \/ \E g \in Goroutine, p \in Made : NewPromise(g, p)
           \/ \E g \in Goroutine, s \in Child : Spawn(g, s)
  <1> USE DEF inside, promiseVars
  <1>0. PromiseType
    BY DEF TypeOK
  <1>1. CASE UNCHANGED status
    BY <1>1 DEF Kept
  <1>2. ASSUME NEW g \in Goroutine, Code(g)
        PROVE  \/ Kept
               \/ \E c \in Co : Async(g, c)
               \/ \E p \in Made : NewPromise(g, p)
               \/ \E s \in Child : Spawn(g, s)
    <2>1. CASE \E p \in Made : Resolve(g, p) \/ Reject(g, p)
      <3>1. PICK p \in Made : resolve(p) \/ reject(p)
        BY <2>1 DEF Resolve, Reject
      <3> QED BY <1>0, <3>1, SettleKept
    <2>2. CASE \/ \E ms \in Delays : SetTimeout(g, ms)
               \/ \E id \in 1 .. seq : ClearTimeout(g, id)
               \/ WriteAfterEnd(g)
      <3>1. UNCHANGED status
        BY <2>2 DEF SetTimeout, ClearTimeout, WriteAfterEnd
      <3> QED BY <3>1 DEF Kept
    <2> QED BY <1>2, <2>1, <2>2 DEF Code
  <1>3. CASE \E c \in Co : Finish(c)
    BY <1>0, <1>1, <1>3, SettleKept DEF Finish, Return, Throw, Panic
  <1>4. CASE \E c \in Co, p \in Promise : Await(c, p)
    BY <1>1, <1>4 DEF Await, then
  <1>5. CASE FinishTask
    BY <1>1, <1>5
       DEF FinishTask, TaskReturn, SpawnReturn, SpawnAsyncReturn, TaskFail, then
  <1>6. CASE RunDelivery
    <2>1. Head(batch).child \in Promise
      <3>1. Head(batch) \in Delivery
        BY <1>6 DEF RunDelivery, TypeOK, OutsideType
      <3> QED BY <3>1 DEF Delivery
    <2> QED BY <1>0, <1>1, <1>6, <2>1, SettleKept DEF RunDelivery
  <1>7. CASE \/ \E g \in Goroutine, c \in Co : Handback(g, c)
             \/ \E c \in Co : Resumed(c) \/ RunResume(c)
             \/ \E n \in 1 .. moduleHops : RunReport(n)
             \/ \E t \in timers : FireDue(t)
    BY <1>1, <1>7 DEF Handback, Resumed, RunResume, RunReport, FireDue
  <1>8. CASE ModuleReturn \/ RaiseTick \/ EndDrain \/ Check \/ Leave \/ WaitNext
               \/ TakeInbox \/ EndInbox \/ EndFire \/ Abort \/ EndAbort
    BY <1>1, <1>8 DEF ModuleReturn, then, RaiseTick, EndDrain, Check, Leave,
                      WaitNext, TakeInbox, EndInbox, EndFire, Abort, EndAbort
  <1>9. CASE Clock \/ Ended \/ UNCHANGED vars
               \/ \E s \in Child : Signal(s) \/ \E r \in Results : Post(s, r)
    BY <1>1, <1>9 DEF Clock, Ended, vars, Signal, Post
  <1> QED BY <1>2, <1>3, <1>4, <1>5, <1>6, <1>7, <1>8, <1>9 DEF Next, Step

\* A call or a spawn that has started is not unborn again.
LEMMA StaysBorn ==
    ASSUME TypeOK, TokenInv, [Next]_vars
    PROVE  /\ \A c \in Co : co'[c] = "unborn" => co[c] = "unborn"
           /\ \A s \in Child : child'[s] = "unborn" => child[s] = "unborn"
  <1> USE DEF TypeOK, TokenType, OutsideType
  <1>1. \A c \in Co : co'[c] = "unborn" => co[c] = "unborn"
    <2> USE NamesAssumption
    <2>1. CASE UNCHANGED tokenVars
      BY <2>1 DEF tokenVars
    <2>2. CASE \/ \E g \in Goroutine, c \in Co : Async(g, c)
               \/ \E c \in Co : ModuleCall(c)
      BY <2>2 DEF Async, ModuleCall
    <2>3. CASE \E c \in Co, p \in Promise : Await(c, p)
      BY <2>3 DEF Await
    <2>4. CASE \E c \in Co : Finish(c) \/ Resumed(c)
      BY <2>4 DEF Finish, Return, Throw, Panic, Resumed, afterAwait
    <2>5. CASE \E g \in Goroutine, c \in Co : Handback(g, c)
      BY <2>5 DEF Handback
    <2>6. CASE \E c \in Co : RunResume(c)
      BY <2>6 DEF RunResume, hand
    <2>7. CASE Abort
      BY <2>7 DEF Abort, hand
    <2> QED BY <2>1, <2>2, <2>3, <2>4, <2>5, <2>6, <2>7, TokenSteps DEF vars, inside
  <1>2. \A s \in Child : child'[s] = "unborn" => child[s] = "unborn"
    <2> USE DEF outside, spawnVars
    <2>1. CASE \E g \in Goroutine : Code(g)
      BY <2>1 DEF Code, Async, NewPromise, Resolve, Reject, SetTimeout,
                  ClearTimeout, Spawn, WriteAfterEnd
    <2>2. CASE \E c \in Co : Finish(c) \/ \E p \in Promise : Await(c, p)
      BY <2>2 DEF Finish, Return, Throw, Panic, Await
    <2>3. CASE FinishTask
      BY <2>3 DEF FinishTask, TaskReturn, ModuleCall, SpawnReturn,
                  SpawnAsyncReturn, TaskFail
    <2>4. CASE Step
      BY <2>4 DEF Step, Handback, Resumed, RunResume, RunReport, FireDue,
                  ModuleReturn, RaiseTick, EndDrain, Check, Leave, WaitNext,
                  TakeInbox, RunDelivery, EndInbox, EndFire, Abort, EndAbort
    <2>5. CASE Clock \/ Ended \/ UNCHANGED vars
               \/ \E s \in Child : Signal(s) \/ \E r \in Results : Post(s, r)
      BY <2>5 DEF Clock, Ended, vars, Signal, Post
    <2> QED BY <2>1, <2>2, <2>3, <2>4, <2>5 DEF Next
  <1> QED BY <1>1, <1>2

LEMMA BornInit == Init => BornInv
  BY DEF Init, BornInv

LEMMA BornStep ==
    ASSUME IInv, BornInv, [Next]_vars
    PROVE  BornInv'
  <1>0. TypeOK /\ TokenInv /\ PromiseType /\ TokenType /\ OutsideType
    BY DEF IInv, TypeOK
  <1>1. /\ \A c \in Co : co'[c] = "unborn" => co[c] = "unborn"
        /\ \A s \in Child : child'[s] = "unborn" => child[s] = "unborn"
    BY <1>0, StaysBorn
  <1> USE NamesAssumption DEF PromiseType, TokenType, OutsideType
  <1>2. CASE Kept
    BY <1>1, <1>2 DEF BornInv, Kept
  <1>3. CASE \/ \E g \in Goroutine, c \in Co : Async(g, c)
             \/ \E c \in Co : ModuleCall(c)
    BY <1>0, <1>1, <1>3 DEF BornInv, Async, ModuleCall
  <1>4. CASE \E g \in Goroutine, p \in Made : NewPromise(g, p)
    BY <1>0, <1>1, <1>4 DEF BornInv, NewPromise
  <1>5. CASE \E g \in Goroutine, s \in Child : Spawn(g, s)
    BY <1>0, <1>1, <1>5 DEF BornInv, Spawn
  <1> QED BY <1>0, <1>2, <1>3, <1>4, <1>5, StatusSteps

LEMMA BornHolds == Spec => [](IInv /\ BornInv)
  <1>1. IInv /\ BornInv /\ [Next]_vars => BornInv'
    BY BornStep
  <1> QED BY <1>1, BornInit, IInvHolds, PTL DEF Spec

(***************************************************************************)
(* A promise settles once and keeps its settlement (R16), however often    *)
(* and by whomever resolve and reject are called.                          *)
(***************************************************************************)
THEOREM Once == Spec => SettlesOnce
  <1>1. IInv /\ BornInv /\ [Next]_vars =>
          [\A p \in Promise : status[p] \in {"fulfilled", "rejected"} =>
               status'[p] = status[p]]_vars
    <2> SUFFICES ASSUME IInv, BornInv, [Next]_vars, NEW p \in Promise,
                        status[p] \in {"fulfilled", "rejected"}
                 PROVE  status'[p] = status[p]
      OBVIOUS
    <2>0. TypeOK /\ PromiseType
      BY DEF IInv, TypeOK
    <2>1. CASE Kept
      BY <2>1 DEF Kept
    <2>2. CASE \/ \E g \in Goroutine, c \in Co : Async(g, c)
               \/ \E c \in Co : ModuleCall(c)
               \/ \E g \in Goroutine, q \in Made : NewPromise(g, q)
               \/ \E g \in Goroutine, s \in Child : Spawn(g, s)
      BY <2>0, <2>2 DEF BornInv, Async, ModuleCall, NewPromise, Spawn, PromiseType
    <2> QED BY <2>0, <2>1, <2>2, StatusSteps
  <1> QED BY <1>1, BornHolds, PTL DEF Spec, SettlesOnce

-----------------------------------------------------------------------------
(* Rejections.                                                             *)

(***************************************************************************)
(* A promise that was rejected and is not handled is on the list the next  *)
(* check goes through, unless the domain has failed.                       *)
(***************************************************************************)
Listed ==
    \A p \in Promise : status[p] = "rejected" /\ ~handled[p] =>
        \E i \in DOMAIN rejected : rejected[i] = p

RejectionInv ==
    /\ outcome \in {"none", "done"} => Listed
    /\ outcome # "none" => Over
    /\ outcome = "done" => rejected = <<>>

LEMMA SettleListed ==
    ASSUME PromiseType, Listed, NEW p \in Promise, resolve(p) \/ reject(p)
    PROVE  Listed'
  <1>1. CASE UNCHANGED promiseVars
    BY <1>1 DEF Listed, promiseVars
  <1>2. CASE settle(p, "fulfilled") /\ UNCHANGED rejected
    BY <1>2 DEF Listed, settle, PromiseType
  <1>3. CASE /\ rejected' = IF handled[p] THEN rejected ELSE Append(rejected, p)
             /\ settle(p, "rejected")
    <2>1. CASE handled[p]
      BY <1>3, <2>1 DEF Listed, settle, PromiseType
    <2>2. CASE ~handled[p]
      <3>1. /\ DOMAIN rejected' = 1 .. Len(rejected) + 1
            /\ rejected'[Len(rejected) + 1] = p
            /\ \A i \in DOMAIN rejected : i \in DOMAIN rejected' /\ rejected'[i] = rejected[i]
            /\ Len(rejected) + 1 \in 1 .. Len(rejected) + 1
        BY <1>3, <2>2 DEF PromiseType
      <3>2. \A q \in Promise : q # p => status'[q] = status[q]
        BY <1>3 DEF settle, PromiseType
      <3> QED BY <1>3, <3>1, <3>2 DEF Listed, settle
    <2> QED BY <2>1, <2>2
  <1> QED BY <1>1, <1>2, <1>3 DEF resolve, reject

LEMMA ThenListed ==
    ASSUME PromiseType, Listed, NEW p \in Promise, NEW r, then(p, r)
    PROVE  Listed'
  BY DEF Listed, then, PromiseType

\* A promise that is made is pending.
LEMMA MakeListed ==
    ASSUME PromiseType, Listed, NEW p \in Promise,
           status' = [status EXCEPT ![p] = "pending"], UNCHANGED <<handled, rejected>>
    PROVE  Listed'
  BY DEF Listed, PromiseType

\* What the program, and the runtime on its behalf, does to promises.
LEMMA ListedStep ==
    ASSUME TypeOK, RootInv, Listed, Next, ~EndDrain
    PROVE  Listed'
  <1> USE DEF inside, promiseVars
  <1>0. PromiseType
    BY DEF TypeOK
  <1>1. CASE UNCHANGED <<status, handled, rejected>>
    BY <1>1 DEF Listed
  <1>2. ASSUME NEW g \in Goroutine, Code(g)
        PROVE  Listed'
    <2>1. CASE \E p \in Made : Resolve(g, p) \/ Reject(g, p)
      <3>1. PICK p \in Made : resolve(p) \/ reject(p)
        BY <2>1 DEF Resolve, Reject
      <3> QED BY <1>0, <3>1, SettleListed
    <2>2. CASE \/ \E ms \in Delays : SetTimeout(g, ms)
               \/ \E id \in 1 .. seq : ClearTimeout(g, id)
               \/ WriteAfterEnd(g)
      BY <1>1, <2>2 DEF SetTimeout, ClearTimeout, WriteAfterEnd
    <2>3. ASSUME NEW c \in Co, Async(g, c) PROVE Listed'
      BY <1>0, <2>3, MakeListed DEF Async
    <2>4. ASSUME NEW p \in Made, NewPromise(g, p) PROVE Listed'
      BY <1>0, <2>4, MakeListed DEF NewPromise
    <2>5. ASSUME NEW s \in Child, Spawn(g, s) PROVE Listed'
      BY <1>0, <2>5, MakeListed DEF Spawn
    <2> QED BY <1>2, <2>1, <2>2, <2>3, <2>4, <2>5 DEF Code
  <1>3. ASSUME NEW c \in Co, Finish(c) PROVE Listed'
    BY <1>0, <1>1, <1>3, SettleListed DEF Finish, Return, Throw, Panic
  <1>4. ASSUME NEW c \in Co, NEW p \in Promise, Await(c, p) PROVE Listed'
    BY <1>0, <1>4, ThenListed DEF Await
  <1>5. CASE FinishTask
    <2>1. CASE TaskReturn \/ SpawnReturn \/ \E how \in {"throw", "panic"} : TaskFail(how)
      BY <1>1, <2>1 DEF TaskReturn, SpawnReturn, TaskFail
    <2>2. ASSUME NEW c \in Co, ModuleCall(c) PROVE Listed'
      BY <1>0, <2>2, MakeListed DEF ModuleCall
    <2>3. ASSUME NEW p \in Promise, SpawnAsyncReturn(p) PROVE Listed'
      BY <1>0, <2>3, ThenListed DEF SpawnAsyncReturn
    <2> QED BY <1>5, <2>1, <2>2, <2>3 DEF FinishTask
  <1>6. CASE RunDelivery
    <2>1. Head(batch).child \in Promise
      <3>1. Head(batch) \in Delivery
        BY <1>6 DEF RunDelivery, TypeOK, OutsideType
      <3> QED BY <3>1 DEF Delivery
    <2> QED BY <1>0, <1>1, <1>6, <2>1, SettleListed DEF RunDelivery
  <1>7. CASE ModuleReturn
    <2>1. root \in Promise
      BY <1>7 DEF ModuleReturn, RootInv
    <2> QED BY <1>0, <1>7, <2>1, ThenListed DEF ModuleReturn
  <1>8. CASE \/ \E g \in Goroutine, c \in Co : Handback(g, c)
             \/ \E c \in Co : Resumed(c) \/ RunResume(c)
             \/ \E n \in 1 .. moduleHops : RunReport(n)
             \/ \E t \in timers : FireDue(t)
    BY <1>1, <1>8 DEF Handback, Resumed, RunResume, RunReport, FireDue
  <1>9. CASE RaiseTick \/ Check \/ Leave \/ WaitNext \/ TakeInbox \/ EndInbox
               \/ EndFire \/ Abort \/ EndAbort
    BY <1>1, <1>9 DEF RaiseTick, Check, Leave, WaitNext, TakeInbox, EndInbox,
                      EndFire, Abort, EndAbort
  <1>10. CASE Clock \/ Ended
                \/ \E s \in Child : Signal(s) \/ \E r \in Results : Post(s, r)
    BY <1>1, <1>10 DEF Clock, Ended, vars, Signal, Post
  <1> QED BY <1>2, <1>3, <1>4, <1>5, <1>6, <1>7, <1>8, <1>9, <1>10 DEF Next, Step

\* How the outcome is set: with the domain over, and "done" with no rejection.
LEMMA OutcomeStep ==
    ASSUME Next, ~Over, QueuesInv
    PROVE  \/ UNCHANGED outcome
           \/ Over' /\ outcome' \notin {"none", "done"}
           \/ Over' /\ rejected' = <<>>
  <1> USE DEF inside, driverVars, promiseVars, Over
  <1>1. CASE \E g \in Goroutine : Code(g)
    BY <1>1 DEF Code, Async, NewPromise, Resolve, Reject, SetTimeout,
                ClearTimeout, Spawn, WriteAfterEnd
  <1>2. CASE \E c \in Co : Finish(c) \/ \E p \in Promise : Await(c, p)
    BY <1>2 DEF Finish, Return, Throw, Panic, Await
  <1>3. CASE FinishTask
    BY <1>3 DEF FinishTask, TaskReturn, ModuleCall, SpawnReturn,
                SpawnAsyncReturn, TaskFail, fail
  <1>4. CASE \E g \in Goroutine, c \in Co : Handback(g, c)
    BY <1>4 DEF Handback, fail
  <1>5. CASE \/ \E c \in Co : Resumed(c) \/ RunResume(c)
             \/ \E t \in timers : FireDue(t)
             \/ ModuleReturn \/ Check \/ WaitNext \/ TakeInbox \/ EndInbox
             \/ EndFire \/ Abort \/ EndAbort
    BY <1>5 DEF Resumed, RunResume, FireDue, ModuleReturn, Check, WaitNext,
                TakeInbox, EndInbox, EndFire, Abort, EndAbort
  <1>6. CASE RaiseTick \/ RunDelivery \/ \E n \in 1 .. moduleHops : RunReport(n)
    BY <1>6 DEF RaiseTick, RunDelivery, RunReport, failAfter, fail
  <1>7. CASE EndDrain
    BY <1>7 DEF EndDrain, fail
  <1>8. CASE Leave
    BY <1>8 DEF Leave, QueuesInv, Between
  <1>9. CASE Clock \/ Ended
               \/ \E s \in Child : Signal(s) \/ \E r \in Results : Post(s, r)
    BY <1>9 DEF Clock, Ended, vars, Signal, Post
  <1> QED BY <1>1, <1>2, <1>3, <1>4, <1>5, <1>6, <1>7, <1>8, <1>9 DEF Next, Step

LEMMA RejectionInit == Init => RejectionInv
  BY DEF Init, RejectionInv, Listed

LEMMA RejectionStep ==
    ASSUME IInv, Alone, PhaseInv, RejectionInv, [Next]_vars
    PROVE  RejectionInv'
  <1>1. CASE Over
    <2>1. Over' /\ UNCHANGED <<outcome, promiseVars, timers, spawned>>
      BY <1>1, OverStep
    <2> QED BY <2>1 DEF RejectionInv, Listed, promiseVars
  <1>2. CASE UNCHANGED vars
    BY <1>2 DEF RejectionInv, Listed, Over, vars, driverVars, inside, promiseVars
  <1>3. CASE ~Over /\ Next
    <2>1. outcome = "none" /\ Listed
      BY <1>3 DEF RejectionInv
    <2>2. \/ outcome' = "none"
          \/ Over' /\ outcome' \notin {"none", "done"}
          \/ Over' /\ rejected' = <<>>
      BY <1>3, <2>1, OutcomeStep DEF PhaseInv
    <2>3. outcome' \in {"none", "done"} => Listed'
      <3>1. CASE EndDrain
        <4>1. fail("rejection") \/ \A i \in DOMAIN rejected : handled[rejected[i]]
          BY <3>1 DEF EndDrain, unhandledRejection
        <4> QED BY <2>1, <3>1, <4>1 DEF EndDrain, fail, Listed
      <3>2. CASE ~EndDrain
        BY <1>3, <2>1, <3>2, ListedStep DEF IInv
      <3> QED BY <3>1, <3>2
    <2> QED BY <2>2, <2>3 DEF RejectionInv
  <1> QED BY <1>1, <1>2, <1>3

LEMMA RejectionHolds == Spec => [](IInv /\ Alone /\ PhaseInv /\ RejectionInv)
  <1>1. IInv /\ Alone /\ PhaseInv /\ RejectionInv /\ [Next]_vars => RejectionInv'
    BY RejectionStep
  <1> QED BY <1>1, RejectionInit, PhaseHolds, PTL DEF Spec

(***************************************************************************)
(* checkRejections passes nothing over: once a drain has ended, and when   *)
(* the domain ends as if nothing had happened, every promise rejected so   *)
(* far has been handled.                                                   *)
(***************************************************************************)
THEOREM Rejections == Spec => []NoRejectionSlips
  <1>1. IInv /\ Alone /\ PhaseInv /\ RejectionInv => NoRejectionSlips
    <2> SUFFICES ASSUME IInv, PhaseInv, RejectionInv,
                        pc \in {"check", "wait", "inbox", "batch", "fire"} \/ outcome = "done",
                        NEW p \in Promise, status[p] = "rejected"
                 PROVE  handled[p]
      BY DEF NoRejectionSlips
    <2>1. Listed /\ rejected = <<>>
      BY DEF RejectionInv, PhaseInv, QueuesInv, Between, Over
    <2> QED BY <2>1 DEF Listed
  <1> QED BY <1>1, RejectionHolds, PTL

-----------------------------------------------------------------------------
(* The count of spawns.                                                    *)

Running == {s \in Child : child[s] = "running"}

\* What runInbox took is run before it takes more.
BatchInv ==
    batch # <<>> => Over \/ pc = "batch" \/ (pc = "drain" /\ after = "batch")

CountInv == BatchInv /\ SpawnedExact

LEMMA RunningFinite == Cardinality(Running) \in Nat /\ IsFiniteSet(Running)
  BY FiniteAssumption, FS_Subset, FS_CardinalityType DEF Running

\* The steps that change what the count is about.
LEMMA CountSteps ==
    ASSUME Next
    PROVE  \/ UNCHANGED <<spawned, child, inbox, batch>>
           \/ \E g \in Goroutine, s \in Child : Spawn(g, s)
           \/ \E s \in Child : Signal(s)
           \/ \E s \in Child, r \in Results : Post(s, r)
           \/ TakeInbox \/ RunDelivery
  <1> USE DEF outside, spawnVars
  <1>1. ASSUME NEW g \in Goroutine, Code(g)
        PROVE  UNCHANGED <<spawned, child, inbox, batch>> \/ \E s \in Child : Spawn(g, s)
    BY <1>1 DEF Code, Async, NewPromise, Resolve, Reject, SetTimeout,
                ClearTimeout, WriteAfterEnd
  <1>2. CASE \E c \in Co : Finish(c) \/ \E p \in Promise : Await(c, p)
    BY <1>2 DEF Finish, Return, Throw, Panic, Await
  <1>3. CASE FinishTask
    BY <1>3 DEF FinishTask, TaskReturn, ModuleCall, SpawnReturn,
                SpawnAsyncReturn, TaskFail
  <1>4. CASE Step /\ ~TakeInbox /\ ~RunDelivery
    BY <1>4 DEF Step, Handback, Resumed, RunResume, RunReport, FireDue,
                ModuleReturn, RaiseTick, EndDrain, Check, Leave, WaitNext,
                EndInbox, EndFire, Abort, EndAbort
  <1>5. CASE Clock \/ Ended
    BY <1>5 DEF Clock, Ended, vars
  <1> QED BY <1>1, <1>2, <1>3, <1>4, <1>5 DEF Next

\* Where the driver is when runInbox has deliveries left.
LEMMA BatchStep ==
    ASSUME IInv, Alone, PhaseInv, BatchInv, [Next]_vars
    PROVE  BatchInv'
  <1>1. CASE Over
    BY <1>1, OverStep DEF BatchInv
  <1>2. CASE UNCHANGED vars
    BY <1>2 DEF BatchInv, Over, vars, driverVars, outside, spawnVars
  <1>3. CASE Next /\ ~Over
    <2> USE DEF inside, outside, driverVars, spawnVars, BatchInv, Over
    <2>1. CASE \E g \in Goroutine : Code(g)
      BY <1>3, <2>1 DEF Code, Async, NewPromise, Resolve, Reject, SetTimeout,
                        ClearTimeout, Spawn, WriteAfterEnd
    <2>2. CASE \E c \in Co : Finish(c) \/ \E p \in Promise : Await(c, p)
      BY <1>3, <2>2 DEF Finish, Return, Throw, Panic, Await
    <2>3. CASE FinishTask
      <3>1. pc = "task" /\ UNCHANGED batch
        BY <2>3 DEF FinishTask, TaskReturn, ModuleCall, SpawnReturn,
                    SpawnAsyncReturn, TaskFail, Runs
      <3> QED BY <1>3, <3>1
    <2>4. CASE \E g \in Goroutine, c \in Co : Handback(g, c)
      BY <1>3, <2>4 DEF Handback, fail
    <2>5. CASE \E c \in Co : Resumed(c) \/ RunResume(c)
      BY <1>3, <2>5 DEF Resumed, RunResume
    <2>6. CASE RaiseTick \/ RunDelivery \/ \E n \in 1 .. moduleHops : RunReport(n)
      BY <1>3, <2>6 DEF RaiseTick, RunDelivery, RunReport, failAfter, fail
    <2>7. CASE EndDrain
      BY <1>3, <2>7 DEF EndDrain, fail, Draining
    <2>8. CASE ModuleReturn \/ Check \/ WaitNext \/ TakeInbox \/ EndInbox \/ EndFire
                 \/ Abort \/ EndAbort \/ Leave \/ \E t \in timers : FireDue(t)
      BY <1>3, <2>8 DEF ModuleReturn, Check, WaitNext, TakeInbox, EndInbox,
                        EndFire, Abort, EndAbort, Leave, FireDue
    <2>9. CASE Clock \/ Ended
                 \/ \E s \in Child : Signal(s) \/ \E r \in Results : Post(s, r)
      BY <1>3, <2>9 DEF Clock, Ended, vars, Signal, Post
    <2> QED BY <1>3, <2>1, <2>2, <2>3, <2>4, <2>5, <2>6, <2>7, <2>8, <2>9
            DEF Next, Step
  <1> QED BY <1>1, <1>2, <1>3

LEMMA CountStep ==
    ASSUME IInv, Alone, PhaseInv, CountInv, [Next]_vars
    PROVE  SpawnedExact'
  <1>0. /\ OutsideType /\ BatchInv
        /\ spawned = Cardinality(Running) + Len(inbox) + Len(batch)
    BY DEF IInv, TypeOK, CountInv, SpawnedExact, Running
  <1>a. Len(inbox) \in Nat /\ Len(batch) \in Nat /\ spawned \in Int
    BY <1>0 DEF OutsideType
  <1>b. SUFFICES spawned' = Cardinality(Running') + Len(inbox') + Len(batch')
    BY DEF SpawnedExact, Running
  <1>1. CASE UNCHANGED <<spawned, child, inbox, batch>>
    BY <1>0, <1>1 DEF Running
  <1>2. ASSUME NEW g \in Goroutine, NEW s \in Child, Spawn(g, s)
        PROVE  spawned' = Cardinality(Running') + Len(inbox') + Len(batch')
    <2>1. Running' = Running \cup {s} /\ s \notin Running
      BY <1>0, <1>2 DEF Spawn, Running, OutsideType
    <2>2. Cardinality(Running') = Cardinality(Running) + 1
      BY <2>1, RunningFinite, FS_AddElement
    <2>3. spawned' = spawned + 1 /\ UNCHANGED <<inbox, batch>>
      BY <1>2 DEF Spawn
    <2> QED BY <1>0, <1>a, <2>2, <2>3, RunningFinite
  <1>3. ASSUME NEW s \in Child, Signal(s)
        PROVE  spawned' = Cardinality(Running') + Len(inbox') + Len(batch')
    <2>1. Running' = Running
      BY <1>0, <1>3 DEF Signal, Running, OutsideType
    <2> QED BY <1>0, <1>3, <2>1 DEF Signal
  <1>4. ASSUME NEW s \in Child, NEW r \in Results, Post(s, r)
        PROVE  spawned' = Cardinality(Running') + Len(inbox') + Len(batch')
    <2>1. Running' = Running \ {s} /\ s \in Running
      BY <1>0, <1>4 DEF Post, Running, OutsideType
    <2>2. Cardinality(Running') = Cardinality(Running) - 1
      BY <2>1, RunningFinite, FS_RemoveElement
    <2>3. Len(inbox') = Len(inbox) + 1 /\ UNCHANGED <<spawned, batch>>
      BY <1>0, <1>4 DEF Post, OutsideType
    <2> QED BY <1>0, <1>a, <2>2, <2>3, RunningFinite
  <1>5. CASE TakeInbox
    <2>1. batch = <<>>
      BY <1>0, <1>5 DEF TakeInbox, BatchInv, Over
    <2>2. Len(batch) = 0 /\ Len(inbox') = 0 /\ batch' = inbox /\ UNCHANGED <<spawned, child>>
      BY <1>5, <2>1 DEF TakeInbox
    <2> QED BY <1>0, <1>a, <2>2, RunningFinite DEF Running
  <1>6. CASE RunDelivery
    <2>1. Len(batch') = Len(batch) - 1
      BY <1>0, <1>6 DEF RunDelivery, OutsideType
    <2>2. spawned' = spawned - 1 /\ UNCHANGED <<child, inbox>>
      BY <1>6 DEF RunDelivery, countBack
    <2>3. Running' = Running
      BY <2>2 DEF Running
    <2> QED BY <1>0, <1>a, <2>1, <2>2, <2>3, RunningFinite
  <1> QED BY <1>1, <1>2, <1>3, <1>4, <1>5, <1>6, CountSteps
          DEF vars, outside, spawnVars

LEMMA CountInit == Init => CountInv
  <1> SUFFICES ASSUME Init PROVE CountInv
    OBVIOUS
  <1>1. {s \in Child : child[s] = "running"} = {}
    BY DEF Init
  <1>2. Cardinality({s \in Child : child[s] = "running"}) = 0
    BY <1>1, FS_EmptySet
  <1> QED BY <1>2 DEF Init, CountInv, BatchInv, SpawnedExact

LEMMA CountHolds == Spec => [](IInv /\ Alone /\ PhaseInv /\ CountInv)
  <1>1. IInv /\ Alone /\ PhaseInv /\ CountInv /\ [Next]_vars => CountInv'
    BY BatchStep, CountStep DEF CountInv
  <1> QED BY <1>1, CountInit, PhaseHolds, PTL DEF Spec

(***************************************************************************)
(* spawned counts exactly the spawns whose results have not come back,     *)
(* through any interleaving of Spawn, the posts and the inbox: each posts  *)
(* one delivery and each delivery counts one back.                         *)
(***************************************************************************)
THEOREM SpawnCount == Spec => []SpawnedExact
  <1>1. CountInv => SpawnedExact
    BY DEF CountInv
  <1> QED BY <1>1, CountHolds, PTL

-----------------------------------------------------------------------------
(* A result without a copy.                                                *)

(***************************************************************************)
(* Nothing is left that could run the domain's code again: what busy asks  *)
(* for, and that it stays so.                                              *)
(***************************************************************************)
Quiet ==
    /\ pc # "task" /\ wait[Driver] = None
    /\ timers = {} /\ spawned = 0 /\ micro = <<>> /\ parked = <<>>

UnclonedInv == delivered /\ ~cloned => Over \/ Quiet

LEMMA QuietNoCode ==
    ASSUME Alone, Quiet, NEW g \in Goroutine
    PROVE  ~Runs(g)
  BY DEF Alone, Quiet, Runs, Awake

LEMMA NotBusy ==
    ASSUME IInv, CountInv, ~pending
    PROVE  timers = {} /\ spawned = 0
  <1>1. Len(inbox) \in Nat /\ Len(batch) \in Nat /\ Cardinality(Running) \in Nat
    BY RunningFinite DEF IInv, TypeOK, OutsideType
  <1>2. spawned = Cardinality(Running) + Len(inbox) + Len(batch)
    BY DEF CountInv, SpawnedExact, Running
  <1>3. \A i, j, k \in Nat : ~(i + j + k > 0) => i + j + k = 0
    OBVIOUS
  <1> QED BY <1>1, <1>2, <1>3 DEF pending

LEMMA NoneDue ==
    ASSUME IInv, CountInv, spawned = 0
    PROVE  batch = <<>>
  <1>1. Len(inbox) \in Nat /\ Len(batch) \in Nat /\ Cardinality(Running) \in Nat
    BY RunningFinite DEF IInv, TypeOK, OutsideType
  <1>2. spawned = Cardinality(Running) + Len(inbox) + Len(batch)
    BY DEF CountInv, SpawnedExact, Running
  <1>3. \A i, j, k \in Nat : i + j + k = 0 => k = 0
    OBVIOUS
  <1>4. Len(batch) = 0
    BY <1>1, <1>2, <1>3
  <1> QED BY <1>4, EmptySeq DEF IInv, TypeOK, OutsideType

\* A quiet domain stays quiet until it is over.
LEMMA QuietStep ==
    ASSUME IInv, Alone, PhaseInv, CountInv, Quiet, Next
    PROVE  Over' \/ Quiet'
  <1> USE DEF inside, outside, tokenVars, promiseVars, parkedVars, timeVars,
              spawnVars, driverVars
  <1>1. \A g \in Goroutine : ~Code(g)
    BY QuietNoCode
       DEF Code, Async, NewPromise, Resolve, Reject, SetTimeout, ClearTimeout,
           Spawn, WriteAfterEnd
  <1>2. \A c \in Co : ~Finish(c) /\ \A p \in Promise : ~Await(c, p)
    BY QuietNoCode DEF Finish, Return, Throw, Panic, Await
  <1>3. ~FinishTask
    BY QuietNoCode
       DEF FinishTask, TaskReturn, ModuleCall, SpawnReturn, SpawnAsyncReturn, TaskFail
  <1>4. CASE Step
    <2>1. \A g \in Goroutine, c \in Co : ~Handback(g, c)
      BY DEF Handback, IInv, TokenInv, Alone, Quiet
    <2>2. \A c \in Co : ~Resumed(c)
      BY DEF Resumed, Alone, Quiet, Awake
    <2>3. ~RunDelivery
      BY NoneDue DEF RunDelivery, Quiet
    <2>4. /\ \A c \in Co : ~RunResume(c)
          /\ \A n \in 1 .. moduleHops : ~RunReport(n)
          /\ \A t \in timers : ~FireDue(t)
          /\ ~ModuleReturn /\ ~Abort
      BY DEF RunResume, RunReport, FireDue, ModuleReturn, Abort, Quiet
    <2>5. CASE RaiseTick
      BY <2>5 DEF RaiseTick, fail, Over
    <2>6. CASE EndDrain
      <3>1. CASE fail("rejection")
        BY <3>1 DEF fail, Over
      <3>2. CASE pc' = after
        BY <2>6, <3>2 DEF EndDrain, Quiet, IInv, TypeOK, DriverType
      <3> QED BY <2>6, <3>1, <3>2 DEF EndDrain
    <2>7. CASE Check \/ WaitNext \/ TakeInbox \/ EndInbox \/ EndFire \/ Leave
      BY <2>7 DEF Check, WaitNext, TakeInbox, EndInbox, EndFire, Leave, Quiet
    <2>8. CASE EndAbort
      BY <2>8 DEF EndAbort, Over
    <2> QED BY <1>4, <2>1, <2>2, <2>3, <2>4, <2>5, <2>6, <2>7, <2>8 DEF Step
  <1>5. CASE Clock \/ Ended
               \/ \E s \in Child : Signal(s) \/ \E r \in Results : Post(s, r)
    BY <1>5 DEF Clock, Ended, vars, Signal, Post, Quiet
  <1> QED BY <1>1, <1>2, <1>3, <1>4, <1>5 DEF Next

\* A result goes out in a domain that is over, by deliver, or not at all.
LEMMA DeliveredStep ==
    ASSUME Next
    PROVE  \/ UNCHANGED <<delivered, cloned>>
           \/ Over'
           \/ SpawnReturn
           \/ \E n \in 1 .. moduleHops : RunReport(n)
  <1> USE DEF driverVars, resultVars, Over
  <1>1. CASE \E g \in Goroutine : Code(g)
    BY <1>1 DEF Code, Async, NewPromise, Resolve, Reject, SetTimeout,
                ClearTimeout, Spawn, WriteAfterEnd
  <1>2. CASE \E c \in Co : Finish(c) \/ \E p \in Promise : Await(c, p)
    BY <1>2 DEF Finish, Return, Throw, Panic, Await
  <1>3. CASE FinishTask
    BY <1>3 DEF FinishTask, TaskReturn, ModuleCall, SpawnAsyncReturn, TaskFail, fail
  <1>4. CASE \E g \in Goroutine, c \in Co : Handback(g, c)
    BY <1>4 DEF Handback, fail
  <1>5. CASE \/ \E c \in Co : Resumed(c) \/ RunResume(c)
             \/ \E t \in timers : FireDue(t)
             \/ ModuleReturn \/ Check \/ WaitNext \/ TakeInbox \/ EndInbox
             \/ EndFire \/ Abort \/ EndAbort
    BY <1>5 DEF Resumed, RunResume, FireDue, ModuleReturn, Check, WaitNext,
                TakeInbox, EndInbox, EndFire, Abort, EndAbort
  <1>6. CASE RaiseTick \/ RunDelivery \/ EndDrain \/ Leave
    BY <1>6 DEF RaiseTick, RunDelivery, EndDrain, Leave, fail
  <1>7. CASE Clock \/ Ended
               \/ \E s \in Child : Signal(s) \/ \E r \in Results : Post(s, r)
    BY <1>7 DEF Clock, Ended, vars, Signal, Post
  <1> QED BY <1>1, <1>2, <1>3, <1>4, <1>5, <1>6, <1>7 DEF Next, Step

LEMMA UnclonedStep ==
    ASSUME IInv, Alone, PhaseInv, CountInv, UnclonedInv, [Next]_vars
    PROVE  UnclonedInv'
  <1> USE DEF inside, outside, tokenVars, promiseVars, parkedVars, timeVars,
              spawnVars, driverVars
  <1>1. CASE UNCHANGED vars
    BY <1>1 DEF UnclonedInv, Over, Quiet, vars
  <1>2. CASE Over
    BY <1>2, OverStep DEF UnclonedInv
  <1>3. CASE Next /\ ~Over
    <2>1. CASE UNCHANGED <<delivered, cloned>>
      BY <1>3, <2>1, QuietStep DEF UnclonedInv
    <2>2. CASE Over'
      BY <2>2 DEF UnclonedInv
    <2>3. CASE SpawnReturn
      <3>1. pc = "task" /\ wait[Driver] = None /\ deliver(micro)
        BY <2>3 DEF SpawnReturn, Runs
      <3>2. ~delivered \/ cloned
        BY <1>3, <3>1 DEF UnclonedInv, Quiet
      <3>3. CASE busy(micro)
        BY <3>1, <3>2, <3>3 DEF deliver, UnclonedInv
      <3>4. CASE ~busy(micro)
        <4>1. timers = {} /\ spawned = 0 /\ micro = <<>> /\ parked = <<>>
          BY <3>4, NotBusy DEF busy
        <4> QED BY <2>3, <3>1, <4>1 DEF SpawnReturn, UnclonedInv, Quiet
      <3> QED BY <3>3, <3>4
    <2>4. ASSUME NEW n \in 1 .. moduleHops, RunReport(n)
          PROVE  UnclonedInv'
      <3>1. pc = "drain" /\ wait[Driver] = None /\ micro # <<>>
        BY <2>4 DEF RunReport, Draining
      <3>2. ~delivered \/ cloned
        BY <1>3, <3>1 DEF UnclonedInv, Quiet
      <3>3. CASE failAfter(n)
        BY <3>2, <3>3 DEF failAfter, fail, Over, UnclonedInv
      <3>4. CASE /\ deliver(Tail(micro)) /\ micro' = Tail(micro)
                 /\ UNCHANGED <<pc, after, outcome, root>>
        <4>1. CASE busy(Tail(micro))
          BY <3>2, <3>4, <4>1 DEF deliver, UnclonedInv
        <4>2. CASE ~busy(Tail(micro))
          <5>1. timers = {} /\ spawned = 0 /\ Tail(micro) = <<>> /\ parked = <<>>
            BY <4>2, NotBusy DEF busy
          <5> QED BY <2>4, <3>1, <3>4, <5>1 DEF RunReport, UnclonedInv, Quiet
        <4> QED BY <4>1, <4>2
      <3> QED BY <2>4, <3>3, <3>4 DEF RunReport
    <2> QED BY <1>3, <2>1, <2>2, <2>3, <2>4, DeliveredStep
  <1> QED BY <1>1, <1>2, <1>3

LEMMA UnclonedInit == Init => UnclonedInv
  BY DEF Init, UnclonedInv

(***************************************************************************)
(* A result that a spawned domain hands over as it is, because busy found  *)
(* nothing left, is never within reach of its code again: no goroutine of  *)
(* the domain runs any of the program.                                     *)
(***************************************************************************)
THEOREM OutOfReach == Spec => []UnclonedOutOfReach
  <1>1. IInv /\ Alone /\ PhaseInv /\ CountInv /\ UnclonedInv /\ [Next]_vars =>
          UnclonedInv'
    BY UnclonedStep
  <1>2. IInv /\ Alone /\ PhaseInv /\ UnclonedInv => UnclonedOutOfReach
    BY NoCode, QuietNoCode DEF UnclonedInv, UnclonedOutOfReach
  <1> QED BY <1>1, <1>2, UnclonedInit, CountHolds, PTL DEF Spec

-----------------------------------------------------------------------------
(* A module's rejection.                                                   *)

(***************************************************************************)
(* RunModule's reaction is registered with the module's promise until that *)
(* settles; from its rejection on the report is among the microtasks, so   *)
(* that no drain ends before it.                                           *)
(***************************************************************************)
Registered == \E i \in DOMAIN reactions[root] : reactions[root][i].co = None
Reported   == \E i \in DOMAIN micro : micro[i].co = None

Watched ==
    /\ status[root] = "pending" => Registered
    /\ status[root] = "rejected" => Reported

\* The module's promise has not been passed to RunModule yet.
BeforeRun == pc = "task" /\ First

Failure == {"throw", "rejection", "panic"}

ModuleInv ==
    /\ pc # "abort"
    /\ root # None => status[root] \in {"pending", "fulfilled", "rejected"}
    /\ root = None => pc = "ended" \/ BeforeRun
    /\ root # None /\ pc # "ended" /\ ~BeforeRun => Watched
    /\ pc = "ended" /\ outcome \notin Failure => root # None /\ status[root] # "rejected"

LEMMA SettleWatched ==
    ASSUME PromiseType, Watched, root \in Promise, UNCHANGED root,
           NEW p \in Promise, resolve(p) \/ reject(p)
    PROVE  Watched'
  <1>1. CASE UNCHANGED promiseVars
    BY <1>1 DEF Watched, Registered, Reported, promiseVars
  <1>2. ASSUME NEW how \in {"fulfilled", "rejected"}, settle(p, how), status[p] = "pending"
        PROVE  Watched'
    <2>1. /\ status' = [status EXCEPT ![p] = how] /\ micro' = micro \o reactions[p]
          /\ reactions' = [reactions EXCEPT ![p] = <<>>]
          /\ micro \in Seq(Task) /\ reactions[p] \in Seq(Task)
      BY <1>2 DEF settle, PromiseType
    <2>2. /\ DOMAIN micro = 1 .. Len(micro) /\ Len(micro) \in Nat
          /\ DOMAIN reactions[p] = 1 .. Len(reactions[p]) /\ Len(reactions[p]) \in Nat
          /\ DOMAIN micro' = 1 .. Len(micro) + Len(reactions[p])
          /\ \A i \in 1 .. Len(micro) : micro'[i] = micro[i]
          /\ \A i \in 1 .. Len(reactions[p]) : micro'[Len(micro) + i] = reactions[p][i]
      BY <2>1
    <2>3. Reported => Reported'
      <3> SUFFICES ASSUME NEW i \in DOMAIN micro, micro[i].co = None
                   PROVE  Reported'
        BY DEF Reported
      <3>1. i \in DOMAIN micro' /\ micro'[i] = micro[i]
        BY <2>2
      <3> QED BY <3>1 DEF Reported
    <2>4. CASE p = root
      <3>1. Registered
        BY <1>2, <2>4 DEF Watched
      <3>2. PICK i \in DOMAIN reactions[p] : reactions[p][i].co = None
        BY <2>4, <3>1 DEF Registered
      <3>3. Len(micro) + i \in DOMAIN micro' /\ micro'[Len(micro) + i].co = None
        BY <2>2, <3>2
      <3>4. Reported'
        BY <3>3 DEF Reported
      <3>5. status'[root] = how
        BY <2>1, <2>4 DEF PromiseType
      <3> QED BY <3>4, <3>5 DEF Watched
    <2>5. CASE p # root
      <3>1. status'[root] = status[root] /\ reactions'[root] = reactions[root]
        BY <2>1, <2>5 DEF PromiseType
      <3> QED BY <2>3, <3>1 DEF Watched, Registered
    <2> QED BY <2>4, <2>5
  <1> QED BY <1>1, <1>2 DEF resolve, reject

LEMMA ThenWatched ==
    ASSUME PromiseType, root \in Promise, UNCHANGED root,
           NEW p \in Promise, NEW r \in Task, then(p, r),
           Watched \/ (p = root /\ r.co = None)
    PROVE  Watched'
  <1>1. status' = status
    BY DEF then
  <1>2. CASE status[p] # "pending"
    <2>1. reactions' = reactions /\ micro' = Append(micro, r) /\ micro \in Seq(Task)
      BY <1>2 DEF then, PromiseType
    <2>2. /\ DOMAIN micro = 1 .. Len(micro) /\ Len(micro) \in Nat
          /\ DOMAIN micro' = 1 .. Len(micro) + 1
          /\ \A i \in 1 .. Len(micro) : micro'[i] = micro[i]
          /\ micro'[Len(micro) + 1] = r
      BY <2>1
    <2>3. (Reported \/ r.co = None) => Reported'
      <3>1. ASSUME NEW i \in DOMAIN micro, micro[i].co = None PROVE Reported'
        <4>1. i \in DOMAIN micro' /\ micro'[i] = micro[i]
          BY <2>2
        <4> QED BY <3>1, <4>1 DEF Reported
      <3>2. ASSUME r.co = None PROVE Reported'
        <4>1. Len(micro) + 1 \in DOMAIN micro'
          BY <2>2
        <4> QED BY <2>2, <3>2, <4>1 DEF Reported
      <3> QED BY <3>1, <3>2 DEF Reported
    <2>4. Watched => Watched'
      BY <1>1, <2>1, <2>3 DEF Watched, Registered
    <2>5. p = root /\ r.co = None => Watched'
      BY <1>1, <1>2, <2>3 DEF Watched
    <2> QED BY <2>4, <2>5
  <1>3. CASE status[p] = "pending"
    <2>1. /\ reactions' = [reactions EXCEPT ![p] = Append(@, r)] /\ micro' = micro
          /\ reactions[p] \in Seq(Task) /\ reactions \in [Promise -> Seq(Task)]
      BY <1>3 DEF then, PromiseType
    <2>2. reactions'[p] = Append(reactions[p], r)
      BY <2>1
    <2>3. /\ DOMAIN reactions[p] = 1 .. Len(reactions[p]) /\ Len(reactions[p]) \in Nat
          /\ DOMAIN reactions'[p] = 1 .. Len(reactions[p]) + 1
          /\ \A i \in 1 .. Len(reactions[p]) : reactions'[p][i] = reactions[p][i]
          /\ reactions'[p][Len(reactions[p]) + 1] = r
      BY <2>1, <2>2
    <2>4. CASE p = root
      <3>1. ASSUME NEW i \in DOMAIN reactions[p], reactions[p][i].co = None PROVE Registered'
        <4>1. i \in DOMAIN reactions'[p] /\ reactions'[p][i] = reactions[p][i]
          BY <2>3
        <4> QED BY <2>4, <3>1, <4>1 DEF Registered
      <3>2. ASSUME r.co = None PROVE Registered'
        <4>1. Len(reactions[p]) + 1 \in DOMAIN reactions'[p]
          BY <2>3
        <4> QED BY <2>3, <2>4, <3>2, <4>1 DEF Registered
      <3>3. Registered'
        BY <1>3, <2>4, <3>1, <3>2 DEF Watched, Registered
      <3> QED BY <1>1, <1>3, <2>4, <3>3 DEF Watched
    <2>5. CASE p # root
      <3>1. reactions'[root] = reactions[root] /\ Watched
        BY <2>1, <2>5
      <3> QED BY <1>1, <2>1, <3>1 DEF Watched, Registered, Reported
    <2> QED BY <2>4, <2>5
  <1> QED BY <1>2, <1>3

\* The first microtask, which is not a report, or is one that goes on.
LEMMA HeadWatched ==
    ASSUME PromiseType, Watched, micro # <<>>, UNCHANGED <<root, status, reactions>>,
           \/ Head(micro).co # None /\ micro' = Tail(micro)
           \/ status[root] # "rejected"
           \/ \E r \in Task : r.co = None /\ micro' = Append(Tail(micro), r)
    PROVE  Watched'
  <1> SUFFICES ASSUME status[root] = "rejected" PROVE Reported'
    BY DEF Watched, Registered
  <1>1. Reported /\ micro \in Seq(Task)
    BY DEF Watched, PromiseType
  <1>2. /\ DOMAIN micro = 1 .. Len(micro) /\ Len(micro) \in Nat \ {0} /\ Head(micro) = micro[1]
        /\ Len(Tail(micro)) = Len(micro) - 1 /\ Tail(micro) \in Seq(Task)
        /\ \A i \in 1 .. Len(Tail(micro)) : Tail(micro)[i] = micro[i + 1]
    BY <1>1, HeadTailProperties, EmptySeq, LenProperties
  <1>3. CASE Head(micro).co # None /\ micro' = Tail(micro)
    <2>1. PICK i \in 1 .. Len(micro) : micro[i].co = None
      BY <1>1, <1>2 DEF Reported
    <2>2. i # 1
      BY <1>2, <1>3, <2>1
    <2>3. i - 1 \in 1 .. Len(Tail(micro)) /\ i - 1 + 1 = i
      BY <1>2, <2>2
    <2>4. DOMAIN micro' = 1 .. Len(Tail(micro))
      BY <1>2, <1>3, LenProperties
    <2>5. i - 1 \in DOMAIN micro' /\ micro'[i - 1] = micro[i - 1 + 1]
      BY <1>2, <1>3, <2>3, <2>4
    <2> QED BY <2>1, <2>3, <2>5 DEF Reported
  <1>4. ASSUME NEW r \in Task, r.co = None, micro' = Append(Tail(micro), r)
        PROVE  Reported'
    <2> DEFINE n == Len(Tail(micro)) + 1
    <2>1. n \in DOMAIN micro' /\ micro'[n] = r
      <3>1. \A t \in Seq(Task) : Len(t) + 1 \in DOMAIN Append(t, r) /\ Append(t, r)[Len(t) + 1] = r
        BY LenProperties
      <3> QED BY <1>2, <1>4, <3>1
    <2> HIDE DEF n
    <2> QED BY <1>4, <2>1 DEF Reported
  <1> QED BY <1>3, <1>4

LEMMA MakeWatched ==
    ASSUME PromiseType, Watched, root \in Promise, status[root] # "none", UNCHANGED <<root, reactions, micro>>,
           NEW p \in Promise, status[p] = "none", status' = [status EXCEPT ![p] = "pending"]
    PROVE  Watched'
  BY DEF PromiseType, Watched, Registered, Reported

\* Once RunModule has the promise every step keeps watch over it, up to the
\* report's own.
LEMMA WatchedStep ==
    ASSUME IInv, BornInv, Kind = "module", root # None, status[root] # "none",
           ~BeforeRun, Watched, Next
    PROVE  UNCHANGED root /\ (Watched' \/ fail("throw"))
  <1> USE DEF inside, promiseVars, driverVars, resultVars
  <1>0. PromiseType /\ root \in Co /\ root \in Promise
    BY DEF IInv, TypeOK, RootInv
  <1>1. ASSUME UNCHANGED <<root, status, reactions, micro>>
        PROVE  UNCHANGED root /\ Watched'
    BY <1>1 DEF Watched, Registered, Reported
  <1>2. ASSUME NEW g \in Goroutine, Code(g)
        PROVE  UNCHANGED root /\ Watched'
    <2>0. UNCHANGED root
      BY <1>2 DEF Code, Async, NewPromise, Resolve, Reject, SetTimeout, ClearTimeout,
                  Spawn, WriteAfterEnd
    <2>1. CASE \E p \in Made : Resolve(g, p) \/ Reject(g, p)
      <3>1. PICK p \in Made : resolve(p) \/ reject(p)
        BY <2>1 DEF Resolve, Reject
      <3> QED BY <1>0, <2>0, <3>1, SettleWatched
    <2>2. CASE \/ \E ms \in Delays : SetTimeout(g, ms)
               \/ \E id \in 1 .. seq : ClearTimeout(g, id)
               \/ WriteAfterEnd(g)
      BY <1>1, <2>2 DEF SetTimeout, ClearTimeout, WriteAfterEnd
    <2>3. ASSUME NEW c \in Co, Async(g, c) PROVE Watched'
      BY <1>0, <2>0, <2>3, MakeWatched DEF Async, BornInv
    <2>4. ASSUME NEW p \in Made, NewPromise(g, p) PROVE Watched'
      BY <1>0, <2>0, <2>4, MakeWatched DEF NewPromise
    <2>5. ASSUME NEW s \in Child, Spawn(g, s) PROVE Watched'
      BY <1>0, <2>0, <2>5, MakeWatched DEF Spawn, BornInv
    <2> QED BY <1>2, <2>0, <2>1, <2>2, <2>3, <2>4, <2>5 DEF Code
  <1>3. ASSUME NEW c \in Co, Finish(c) PROVE UNCHANGED root /\ Watched'
    BY <1>0, <1>1, <1>3, SettleWatched DEF Finish, Return, Throw, Panic
  <1>4. ASSUME NEW c \in Co, NEW p \in Promise, Await(c, p) PROVE UNCHANGED root /\ Watched'
    BY <1>0, <1>4, ThenWatched, TaskTypes DEF Await
  <1>5. CASE FinishTask
    <2>1. ~(\E c \in Co : ModuleCall(c)) /\ ~SpawnReturn /\ ~(\E p \in Promise : SpawnAsyncReturn(p))
      BY DEF ModuleCall, SpawnReturn, SpawnAsyncReturn, BeforeRun, Runs
    <2> QED BY <1>1, <1>5, <2>1 DEF FinishTask, TaskReturn, TaskFail, fail
  <1>6. CASE RunDelivery
    <2>1. Head(batch).child \in Promise
      <3>1. Head(batch) \in Delivery
        BY <1>6 DEF RunDelivery, IInv, TypeOK, OutsideType
      <3> QED BY <3>1 DEF Delivery
    <2>2. UNCHANGED root
      BY <1>6 DEF RunDelivery, fail
    <2> QED BY <1>0, <1>1, <1>6, <2>1, <2>2, SettleWatched DEF RunDelivery
  <1>7. ~ModuleReturn
    BY DEF ModuleReturn, BeforeRun
  <1>8. ASSUME NEW c \in Co, RunResume(c) PROVE UNCHANGED root /\ Watched'
    <2>1. Head(micro).co # None
      BY <1>8, NamesAssumption DEF RunResume, Resume
    <2> QED BY <1>0, <1>8, <2>1, HeadWatched DEF RunResume
  <1>9. ASSUME NEW n \in 1 .. moduleHops, RunReport(n)
        PROVE  UNCHANGED root /\ (Watched' \/ fail("throw"))
    <2>1. micro # <<>> /\ failAfter(n) /\ UNCHANGED <<status, reactions>>
      BY <1>9 DEF RunReport
    <2>2. Report(n - 1).co = None /\ (n > 1 => Report(n - 1) \in Task)
      BY TaskTypes DEF Report, moduleHops
    <2>3. UNCHANGED root
      BY <2>1 DEF failAfter, fail
    <2> QED BY <1>0, <2>1, <2>2, <2>3, HeadWatched DEF failAfter
  <1>10. CASE \/ \E g \in Goroutine, c \in Co : Handback(g, c)
              \/ \E c \in Co : Resumed(c)
              \/ \E t \in timers : FireDue(t)
    BY <1>1, <1>10 DEF Handback, Resumed, FireDue, fail
  <1>11. CASE RaiseTick \/ EndDrain \/ Check \/ Leave \/ WaitNext \/ TakeInbox \/ EndInbox
               \/ EndFire \/ Abort \/ EndAbort
    BY <1>1, <1>11 DEF RaiseTick, EndDrain, Check, Leave, WaitNext, TakeInbox, EndInbox,
                      EndFire, Abort, EndAbort, fail
  <1>12. CASE Clock \/ Ended
                \/ \E s \in Child : Signal(s) \/ \E r \in Results : Post(s, r)
    BY <1>1, <1>12 DEF Clock, Ended, vars, Signal, Post
  <1> QED BY <1>2, <1>3, <1>4, <1>5, <1>6, <1>7, <1>8, <1>9, <1>10, <1>11, <1>12 DEF Next, Step

\* Where the driver goes while RunModule waits: not back to the first task,
\* and to the end with a failure or with a promise that is not rejected.
LEMMA ModuleDriver ==
    ASSUME IInv, Alone, PhaseInv, Kind = "module", pc # "ended", pc # "abort", Next
    PROVE  \/ fail("throw") \/ fail("panic") \/ fail("rejection")
           \/ UNCHANGED <<pc, after>>
           \/ ~BeforeRun /\ pc' # "ended" /\ pc' # "abort" /\ ~BeforeRun'
           \/ EndDrain /\ pc' = "ended"
           \/ Leave /\ pc' = "ended"
           \/ ModuleReturn
  <1> USE DEF inside, driverVars, resultVars, BeforeRun, First
  <1>1. ASSUME NEW g \in Goroutine, Code(g) PROVE UNCHANGED <<pc, after>>
    BY <1>1 DEF Code, Async, NewPromise, Resolve, Reject, SetTimeout, ClearTimeout,
                Spawn, WriteAfterEnd
  <1>2. CASE \E c \in Co : Finish(c) \/ (\E p \in Promise : Await(c, p)) \/ Resumed(c) \/ RunResume(c)
    BY <1>2 DEF Finish, Return, Throw, Panic, Await, Resumed, RunResume
  <1>3. CASE FinishTask
    BY <1>3 DEF FinishTask, TaskReturn, ModuleCall, SpawnReturn, SpawnAsyncReturn, TaskFail, Runs
  <1>4. CASE \E g \in Goroutine, c \in Co : Handback(g, c)
    BY <1>4 DEF Handback
  <1>5. CASE RaiseTick \/ \E n \in 1 .. moduleHops : RunReport(n)
    BY <1>5 DEF RaiseTick, RunReport, failAfter
  <1>6. CASE EndDrain
    BY <1>6 DEF EndDrain, Draining, IInv, TypeOK, DriverType
  <1>7. CASE Check \/ WaitNext \/ TakeInbox \/ EndInbox \/ EndFire
    BY <1>7 DEF Check, WaitNext, TakeInbox, EndInbox, EndFire
  <1>8. CASE Leave
    BY <1>8 DEF Leave, Main
  <1>9. CASE RunDelivery
    BY <1>9 DEF RunDelivery
  <1>10. CASE \E t \in timers : FireDue(t)
    BY <1>10 DEF FireDue
  <1>11. CASE Abort \/ EndAbort
    BY <1>11 DEF Abort, EndAbort
  <1>12. CASE Clock \/ Ended
                \/ \E s \in Child : Signal(s) \/ \E r \in Results : Post(s, r)
    BY <1>12 DEF Clock, Ended, vars, Signal, Post
  <1> QED BY <1>1, <1>2, <1>3, <1>4, <1>5, <1>6, <1>7, <1>8, <1>9, <1>10, <1>11, <1>12 DEF Next, Step

\* A rejection among the microtasks ends no drain: the driver is in one.
LEMMA ModuleStep ==
    ASSUME IInv, Alone, PhaseInv, BornInv, Kind = "module", ModuleInv, [Next]_vars
    PROVE  ModuleInv'
  <1> USE DEF Failure
  <1>0. PromiseType /\ RootInv /\ Main /\ (root # None => root \in Co /\ root \in Promise)
    BY DEF IInv, TypeOK, RootInv, Main
  <1>1. CASE UNCHANGED vars
    BY <1>1 DEF ModuleInv, BeforeRun, First, Watched, Registered, Reported, vars, driverVars, inside, promiseVars
  <1>2. CASE Next /\ pc = "ended"
    <2>1. pc' = "ended" /\ UNCHANGED <<outcome, promiseVars, root>>
      <3>1. UNCHANGED <<outcome, promiseVars>>
        BY <1>2, OverStep DEF Over
      <3>2. \A g \in Goroutine : ~Runs(g)
        BY <1>2, NoCode DEF Over
      <3>3. pc' = "ended" /\ UNCHANGED root
        <4> USE DEF driverVars, inside, resultVars
        <4>1. ~(\E g \in Goroutine : Code(g))
          BY <3>2 DEF Code, Async, NewPromise, Resolve, Reject, SetTimeout, ClearTimeout,
                      Spawn, WriteAfterEnd
        <4>2. ~(\E c \in Co : Finish(c) \/ \E p \in Promise : Await(c, p))
          BY <3>2 DEF Finish, Return, Throw, Panic, Await
        <4>3. ~FinishTask
          BY <3>2 DEF FinishTask, TaskReturn, ModuleCall, SpawnReturn, SpawnAsyncReturn, TaskFail
        <4>4. ASSUME NEW g \in Goroutine, NEW c \in Co, Handback(g, c) PROVE pc' = "ended" /\ UNCHANGED root
          BY <1>0, <1>2, <4>4 DEF Handback, fail
        <4>5. CASE Step
          BY <1>2, <4>4, <4>5 DEF Step, Resumed, RunResume, RunReport, RaiseTick, EndDrain, Draining,
                  FireDue, ModuleReturn, Check, Leave, WaitNext, TakeInbox,
                  RunDelivery, EndInbox, EndFire, Abort, EndAbort
        <4>6. CASE Clock \/ Ended \/ \E s \in Child : Signal(s) \/ \E r \in Results : Post(s, r)
          BY <1>2, <4>6 DEF Clock, Ended, vars, Signal, Post
        <4> QED BY <1>2, <4>1, <4>2, <4>3, <4>5, <4>6 DEF Next
      <3> QED BY <3>1, <3>3
    <2> QED BY <1>2, <2>1 DEF ModuleInv, promiseVars
  <1>3. CASE Next /\ pc # "ended" /\ root = None
    <2>2. pc = "task" /\ First
      BY <1>3 DEF ModuleInv, BeforeRun
    <2>3. CASE \E c \in Co : ModuleCall(c)
      <3>1. PICK c \in Co : ModuleCall(c)
        BY <2>3
      <3>2. root' = c /\ status'[c] = "pending" /\ UNCHANGED <<pc, after, outcome>> /\ c # None
        BY <1>0, <3>1, NamesAssumption DEF ModuleCall, PromiseType
      <3> QED BY <2>2, <3>2 DEF ModuleInv, BeforeRun, First
    <2>4. CASE ~\E c \in Co : ModuleCall(c)
      <3>1. \/ UNCHANGED <<pc, after, root>>
            \/ fail("throw") \/ fail("panic")
        <4> USE DEF driverVars, inside, resultVars
        <4>1. CASE \E g \in Goroutine : Code(g)
          BY <4>1 DEF Code, Async, NewPromise, Resolve, Reject, SetTimeout, ClearTimeout,
                      Spawn, WriteAfterEnd
        <4>2. CASE \E c \in Co : Finish(c) \/ \E p \in Promise : Await(c, p)
          BY <4>2 DEF Finish, Return, Throw, Panic, Await
        <4>3. CASE FinishTask
          BY <1>3, <2>2, <2>4, <4>3 DEF FinishTask, TaskReturn, SpawnReturn, SpawnAsyncReturn, TaskFail
        <4>4. CASE Step
          BY <1>3, <2>2, <4>4 DEF Step, Handback, Resumed, RunResume, RunReport, RaiseTick, EndDrain, Draining,
                  FireDue, ModuleReturn, Check, Leave, WaitNext, TakeInbox,
                  RunDelivery, EndInbox, EndFire, Abort, EndAbort
        <4>5. CASE Clock \/ Ended \/ \E s \in Child : Signal(s) \/ \E r \in Results : Post(s, r)
          BY <4>5 DEF Clock, Ended, vars, Signal, Post
        <4> QED BY <1>3, <4>1, <4>2, <4>3, <4>4, <4>5 DEF Next
      <3> QED BY <1>0, <1>3, <2>2, <3>1 DEF ModuleInv, BeforeRun, First, fail
    <2> QED BY <2>3, <2>4
  <1>4. CASE Next /\ pc # "ended" /\ root # None
    <2>0. status[root] \in {"pending", "fulfilled", "rejected"} /\ pc # "abort"
      BY <1>4 DEF ModuleInv
    <2>1. UNCHANGED root
      <3> USE DEF driverVars, inside, resultVars
      <3>1. CASE \E g \in Goroutine : Code(g)
        BY <3>1 DEF Code, Async, NewPromise, Resolve, Reject, SetTimeout, ClearTimeout,
                    Spawn, WriteAfterEnd
      <3>2. CASE \E c \in Co : Finish(c) \/ \E p \in Promise : Await(c, p)
        BY <3>2 DEF Finish, Return, Throw, Panic, Await
      <3>3. CASE FinishTask
        BY <1>4, <3>3 DEF FinishTask, TaskReturn, ModuleCall, SpawnReturn, SpawnAsyncReturn, TaskFail, Runs, fail
      <3>4. CASE Step
        BY <3>4 DEF Step, Handback, Resumed, RunResume, RunReport, failAfter, RaiseTick, EndDrain, Draining,
                FireDue, ModuleReturn, Check, Leave, WaitNext, TakeInbox,
                RunDelivery, EndInbox, EndFire, Abort, EndAbort, fail
      <3>5. CASE Clock \/ Ended \/ \E s \in Child : Signal(s) \/ \E r \in Results : Post(s, r)
        BY <3>5 DEF Clock, Ended, vars, Signal, Post
      <3> QED BY <1>4, <3>1, <3>2, <3>3, <3>4, <3>5 DEF Next
    <2>2. status'[root] \in {"pending", "fulfilled", "rejected"}
      <3>1. status'[root] \in {"none", "pending", "fulfilled", "rejected"}
        <4>1. PromiseType'
          BY <1>4, StepIInv DEF IInv, TypeOK
        <4> QED BY <1>0, <1>4, <4>1 DEF PromiseType
      <3>2. CASE Kept
        BY <1>0, <1>4, <2>0, <3>1, <3>2 DEF Kept
      <3>3. CASE \/ \E g \in Goroutine, c \in Co : Async(g, c)
                 \/ \E c \in Co : ModuleCall(c)
                 \/ \E g \in Goroutine, p \in Made : NewPromise(g, p)
                 \/ \E g \in Goroutine, s \in Child : Spawn(g, s)
        BY <1>0, <1>4, <2>0, <3>3 DEF Async, ModuleCall, NewPromise, Spawn, PromiseType
      <3> QED BY <1>4, <3>2, <3>3, StatusSteps DEF IInv
    <2>3. CASE BeforeRun /\ ~ModuleReturn
      <3>1. UNCHANGED <<pc, after>> \/ fail("throw") \/ fail("panic") \/ fail("rejection")
        BY <1>4, <2>0, <2>3, ModuleDriver DEF EndDrain, Draining, Leave, BeforeRun
      <3> QED BY <1>0, <1>4, <2>1, <2>2, <2>3, <3>1 DEF ModuleInv, BeforeRun, First, fail
    <2>4. CASE BeforeRun /\ ModuleReturn
      <3>1. then(root, Report(moduleHops)) /\ pc' = "drain" /\ UNCHANGED after
        BY <2>4 DEF ModuleReturn
      <3>2. Report(moduleHops) \in Task /\ Report(moduleHops).co = None
        BY TaskTypes DEF Report, moduleHops
      <3>3. Watched'
        BY <1>0, <1>4, <2>1, <3>1, <3>2, ThenWatched
      <3> QED BY <1>4, <2>1, <2>2, <3>1, <3>3 DEF ModuleInv, BeforeRun
    <2>5. CASE ~BeforeRun
      <3>1. Watched /\ (Watched' \/ fail("throw"))
        BY <1>4, <2>0, <2>5, WatchedStep DEF ModuleInv
      <3>2. CASE fail("throw") \/ fail("panic") \/ fail("rejection")
        BY <1>0, <1>4, <2>1, <2>2, <3>2 DEF ModuleInv, fail
      <3>3. CASE ~fail("throw") /\ (UNCHANGED <<pc, after>> \/ (pc' # "ended" /\ pc' # "abort" /\ ~BeforeRun'))
        BY <1>4, <2>0, <2>1, <2>2, <3>1, <3>3 DEF ModuleInv
      <3>4. CASE ~fail("throw") /\ (EndDrain \/ Leave) /\ pc' = "ended"
        <4>1. micro = <<>> /\ UNCHANGED status
          BY <1>4, <3>4 DEF EndDrain, drained, Leave, PhaseInv, QueuesInv, Between, inside, promiseVars
        <4>2. status[root] # "rejected"
          <5>1. DOMAIN micro = {}
            BY <4>1
          <5> QED BY <3>1, <5>1 DEF Watched, Reported
        <4>3. status'[root] # "rejected"
          BY <2>1, <4>1, <4>2
        <4> QED BY <1>4, <2>1, <2>2, <3>4, <4>3 DEF ModuleInv
      <3>5. ~ModuleReturn
        BY <2>5 DEF ModuleReturn, BeforeRun
      <3> QED BY <1>4, <2>0, <3>1, <3>2, <3>3, <3>4, <3>5, ModuleDriver
    <2> QED BY <2>3, <2>4, <2>5
  <1> QED BY <1>1, <1>2, <1>3, <1>4

LEMMA ModuleHolds == Spec => [](IInv /\ PhaseInv /\ (Kind = "module" => ModuleInv))
  <1>1. Init => (Kind = "module" => ModuleInv)
    BY DEF Init, ModuleInv, BeforeRun, First, Main
  <1>2. IInv /\ Alone /\ PhaseInv /\ BornInv /\ (Kind = "module" => ModuleInv) /\ [Next]_vars =>
          (Kind = "module" => ModuleInv')
    BY ModuleStep
  <1>3. (Kind = "module" => ModuleInv)' <=> (Kind = "module" => ModuleInv')
    OBVIOUS
  <1> QED BY <1>1, <1>2, <1>3, BornHolds, PhaseHolds, PTL DEF Spec

(***************************************************************************)
(* A module's rejection is its program's failure (RunModule, failAfter):   *)
(* from it on the driver is in a task or a drain, so that no timer and no  *)
(* delivery runs, until the program ends with a failure.                   *)
(***************************************************************************)
THEOREM ModuleFails == Spec => []ModuleRejectionFails
  <1>1. IInv /\ PhaseInv /\ (Kind = "module" => ModuleInv) => ModuleRejectionFails
    <2> SUFFICES ASSUME IInv, PhaseInv, ModuleInv, root # None, status[root] = "rejected"
                 PROVE  /\ pc \in {"task", "drain", "ended"}
                        /\ pc = "ended" => outcome \in {"throw", "rejection", "panic"}
      BY DEF ModuleRejectionFails
    <2>1. Between => micro = <<>>
      BY DEF PhaseInv, QueuesInv
    <2>2. pc # "ended" /\ ~BeforeRun => Reported
      BY DEF ModuleInv, Watched
    <2>3. Between => ~Reported /\ ~BeforeRun /\ pc # "ended"
      BY <2>1 DEF Reported, Between, BeforeRun
    <2>4. ~Between /\ pc # "abort" /\ pc \in DriverPC
      BY <2>2, <2>3 DEF ModuleInv, IInv, TypeOK, DriverType
    <2> QED BY <2>4 DEF Between, DriverPC, ModuleInv, Failure
  <1> QED BY <1>1, ModuleHolds, PTL

-----------------------------------------------------------------------------
(* Wake-ups.                                                               *)

(***************************************************************************)
(* Where the wake-up of a suspended call is: among the reactions of the    *)
(* promise it awaits while that is pending, among the microtasks once it   *)
(* has settled; there once, and nowhere else.  A call that abort marked    *)
(* leaves its wake-up behind, in a domain that runs none any more.         *)
(***************************************************************************)
Settled == {"fulfilled", "rejected"}

QueuedInv ==
    /\ \A i \in DOMAIN micro : micro[i].co # None /\ ~aborted[micro[i].co] =>
         micro[i].co \in Suspended /\ status[awaits[micro[i].co]] \in Settled
    /\ \A i, j \in DOMAIN micro : micro[i].co # None /\ micro[i].co = micro[j].co => i = j

ReactionInv ==
    \A p \in Promise :
        /\ \A i \in DOMAIN reactions[p] : reactions[p][i].co # None /\ ~aborted[reactions[p][i].co] =>
             reactions[p][i].co \in Suspended /\ awaits[reactions[p][i].co] = p /\ status[p] = "pending"
        /\ \A i, j \in DOMAIN reactions[p] :
             reactions[p][i].co # None /\ reactions[p][i].co = reactions[p][j].co => i = j

SuspendedInv ==
    \A c \in Suspended :
        /\ awaits[c] \in Promise /\ status[awaits[c]] # "none"
        /\ status[awaits[c]] = "pending" =>
             \E i \in DOMAIN reactions[awaits[c]] : reactions[awaits[c]][i].co = c
        /\ status[awaits[c]] # "pending" => \E i \in DOMAIN micro : micro[i].co = c

AwakenedInv ==
    \A c \in Co : co[c] = "resumed" /\ ~aborted[c] =>
        awaits[c] \in Promise /\ status[awaits[c]] \in Settled

AbortedInv == \A c \in Co : aborted[c] => Over /\ c \notin Suspended

WakeInv == QueuedInv /\ ReactionInv /\ SuspendedInv /\ AwakenedInv /\ AbortedInv

\* A microtask is of a call or a report.
LEMMA TaskKinds ==
    /\ \A r \in Task : r.co # None => r.co \in Co /\ r = Resume(r.co)
    /\ \A c \in Co : Resume(c).co = c /\ c # None
    /\ \A n : Report(n).co = None
  BY NamesAssumption DEF Task, Resume, Report

LEMMA QueueTypes ==
    ASSUME PromiseType
    PROVE  /\ DOMAIN micro = 1 .. Len(micro) /\ Len(micro) \in Nat
           /\ \A i \in DOMAIN micro : micro[i] \in Task
           /\ \A p \in Promise : /\ DOMAIN reactions[p] = 1 .. Len(reactions[p]) /\ Len(reactions[p]) \in Nat
                                 /\ \A i \in DOMAIN reactions[p] : reactions[p][i] \in Task
  BY LenProperties, ElementOfSeq DEF PromiseType

\* No call is newly suspended, resumed or aborted, and none awaits another promise.
SameCalls ==
    /\ Suspended' = Suspended /\ aborted' = aborted
    /\ \A c \in Suspended : awaits'[c] = awaits[c]
    /\ \A c \in Co : co'[c] = "resumed" => co[c] = "resumed" /\ awaits'[c] = awaits[c]
    /\ Over => Over'

LEMMA PassiveWake ==
    ASSUME PromiseType, WakeInv, SameCalls, UNCHANGED <<status, reactions, micro>>
    PROVE  WakeInv'
  <1> USE DEF WakeInv, SameCalls
  <1>1. QueuedInv' /\ ReactionInv'
    BY QueueTypes, TaskKinds DEF QueuedInv, ReactionInv
  <1>2. SuspendedInv'
    BY DEF SuspendedInv
  <1>3. AwakenedInv' /\ AbortedInv'
    BY DEF AwakenedInv, AbortedInv
  <1> QED BY <1>1, <1>2, <1>3

LEMMA MakeWake ==
    ASSUME PromiseType, WakeInv, SameCalls, UNCHANGED <<reactions, micro>>,
           NEW p \in Promise, status[p] = "none", status' = [status EXCEPT ![p] = "pending"]
    PROVE  WakeInv'
  <1> USE DEF WakeInv, SameCalls, Settled
  <1>1. \A q \in Promise : status'[q] = IF q = p THEN "pending" ELSE status[q]
    BY DEF PromiseType
  <1>2. QueuedInv'
    <2>1. \A i \in DOMAIN micro : micro[i].co # None /\ ~aborted[micro[i].co] =>
            micro[i].co \in Suspended /\ awaits[micro[i].co] \in Promise
              /\ status[awaits[micro[i].co]] \in Settled
      BY DEF QueuedInv, SuspendedInv
    <2> QED BY <1>1, <2>1 DEF QueuedInv
  <1>3. ReactionInv'
    BY <1>1 DEF ReactionInv
  <1>4. SuspendedInv'
    BY <1>1 DEF SuspendedInv
  <1>5. AwakenedInv' /\ AbortedInv'
    BY <1>1 DEF AwakenedInv, AbortedInv
  <1> QED BY <1>2, <1>3, <1>4, <1>5

LEMMA SettleWake ==
    ASSUME PromiseType, WakeInv, SameCalls, ~Over, NEW p \in Promise, resolve(p) \/ reject(p)
    PROVE  WakeInv'
  <1>1. CASE UNCHANGED promiseVars
    BY <1>1, PassiveWake DEF promiseVars
  <1>2. ASSUME NEW how \in Settled, settle(p, how), status[p] = "pending"
        PROVE  WakeInv'
    <2> USE DEF WakeInv, SameCalls
    <2> DEFINE n == Len(micro)
               m == Len(reactions[p])
    <2>1. /\ status' = [status EXCEPT ![p] = how] /\ micro' = micro \o reactions[p]
          /\ reactions' = [reactions EXCEPT ![p] = <<>>]
          /\ micro \in Seq(Task) /\ reactions[p] \in Seq(Task)
      BY <1>2 DEF settle, PromiseType
    <2>2. /\ DOMAIN micro = 1 .. n /\ n \in Nat
          /\ DOMAIN reactions[p] = 1 .. m /\ m \in Nat
          /\ DOMAIN micro' = 1 .. n + m
          /\ \A i \in 1 .. n : micro'[i] = micro[i]
          /\ \A i \in 1 .. m : micro'[n + i] = reactions[p][i]
      BY <2>1
    <2> HIDE DEF n, m
    <2>3. \A c \in Co : ~aborted[c]
      BY DEF AbortedInv
    <2>4. /\ \A i \in 1 .. n : micro[i] \in Task
          /\ \A i \in 1 .. m : reactions[p][i] \in Task
      BY <2>1, <2>2, QueueTypes
    <2>5. \A q \in Promise : /\ status'[q] = IF q = p THEN how ELSE status[q]
                             /\ reactions'[q] = IF q = p THEN <<>> ELSE reactions[q]
      BY <2>1 DEF PromiseType
    <2>6. \A i \in 1 .. n : micro[i].co # None =>
            /\ micro[i].co \in Suspended /\ awaits[micro[i].co] \in Promise
            /\ awaits[micro[i].co] # p /\ status[awaits[micro[i].co]] \in Settled
      BY <1>2, <2>2, <2>3, <2>4, TaskKinds DEF QueuedInv, SuspendedInv, Settled
    <2>7. \A i \in 1 .. m : reactions[p][i].co # None =>
            reactions[p][i].co \in Suspended /\ awaits[reactions[p][i].co] = p
      BY <2>2, <2>3, <2>4, TaskKinds, SMTT(30) DEF ReactionInv
    <2>8. \A k \in 1 .. n + m : k \in 1 .. n \/ (k - n \in 1 .. m /\ k = n + (k - n))
      BY <2>2
    <2>9. \A k \in DOMAIN micro' : micro'[k].co # None =>
            micro'[k].co \in Suspended /\ status'[awaits[micro'[k].co]] \in Settled
      <3> SUFFICES ASSUME NEW k \in 1 .. n + m, micro'[k].co # None
                   PROVE  micro'[k].co \in Suspended /\ status'[awaits[micro'[k].co]] \in Settled
        BY <2>2
      <3>1. CASE k \in 1 .. n
        BY <2>2, <2>5, <2>6, <3>1
      <3>2. CASE k - n \in 1 .. m
        <4>1. micro'[k] = reactions[p][k - n]
          BY <2>2, <2>8, <3>2
        <4> QED BY <2>5, <2>7, <3>2, <4>1
      <3> QED BY <2>8, <3>1, <3>2
    <2>10. ASSUME NEW k \in DOMAIN micro', NEW l \in DOMAIN micro',
                  micro'[k].co # None, micro'[k].co = micro'[l].co
           PROVE  k = l
      <3>1. k \in 1 .. n + m /\ l \in 1 .. n + m
        BY <2>2
      <3>2. CASE k \in 1 .. n /\ l \in 1 .. n
        BY <2>2, <2>10, <3>2 DEF QueuedInv
      <3>3. ASSUME NEW x \in 1 .. n, NEW y \in 1 .. n + m, y - n \in 1 .. m,
                   micro'[x].co = micro'[y].co, micro'[x].co # None
            PROVE  FALSE
        <4>1. micro'[y] = reactions[p][y - n] /\ micro'[x] = micro[x]
          BY <2>2, <2>8, <3>3
        <4> QED BY <2>6, <2>7, <3>3, <4>1
      <3>4. CASE k - n \in 1 .. m /\ l - n \in 1 .. m
        <4>1. micro'[k] = reactions[p][k - n] /\ micro'[l] = reactions[p][l - n]
          BY <2>2, <2>8, <3>1, <3>4
        <4>2. k - n = l - n
          BY <2>2, <2>10, <3>4, <4>1 DEF ReactionInv
        <4> QED BY <2>2, <3>1, <4>2
      <3> QED BY <2>8, <2>10, <3>1, <3>2, <3>3, <3>4
    <2>11. QueuedInv'
      BY <2>9, <2>10 DEF QueuedInv
    <2>12. ReactionInv'
      BY <2>5 DEF ReactionInv
    <2>13. SuspendedInv'
      <3> SUFFICES ASSUME NEW c \in Suspended
                   PROVE  /\ awaits[c] \in Promise /\ status'[awaits[c]] # "none"
                          /\ status'[awaits[c]] = "pending" =>
                               \E i \in DOMAIN reactions'[awaits[c]] : reactions'[awaits[c]][i].co = c
                          /\ status'[awaits[c]] # "pending" => \E i \in DOMAIN micro' : micro'[i].co = c
        BY DEF SuspendedInv
      <3>1. CASE awaits[c] = p
        <4>1. PICK i \in 1 .. m : reactions[p][i].co = c
          BY <1>2, <2>2, <3>1 DEF SuspendedInv
        <4>2. n + i \in DOMAIN micro' /\ micro'[n + i] = reactions[p][i]
          BY <2>2
        <4> QED BY <2>5, <3>1, <4>1, <4>2 DEF Settled
      <3>2. CASE awaits[c] # p
        <4>1. \A i \in DOMAIN micro : i \in DOMAIN micro' /\ micro'[i] = micro[i]
          BY <2>2
        <4> QED BY <2>5, <3>2, <4>1 DEF SuspendedInv
      <3> QED BY <3>1, <3>2
    <2>14. AwakenedInv' /\ AbortedInv'
      BY <2>5 DEF AwakenedInv, AbortedInv
    <2> QED BY <2>11, <2>12, <2>13, <2>14
  <1> QED BY <1>1, <1>2 DEF resolve, reject, Settled

\* The reaction r is registered with p, or queued at once.
LEMMA ThenWake ==
    ASSUME PromiseType, WakeInv, aborted' = aborted, ~Over, NEW p \in Promise, status[p] # "none",
           NEW r \in Task, then(p, r),
           \A c \in Co : co'[c] = "resumed" => co[c] = "resumed" /\ awaits'[c] = awaits[c],
           \/ r.co = None /\ SameCalls
           \/ /\ r.co # None /\ r.co \notin Suspended /\ Suspended' = Suspended \cup {r.co}
              /\ awaits'[r.co] = p /\ \A c \in Suspended : awaits'[c] = awaits[c]
    PROVE  WakeInv'
  <1> USE DEF WakeInv
  <1>1. /\ status' = status /\ (\A c \in Co : ~aborted[c])
        /\ \A c \in Suspended : c \in Suspended' /\ awaits'[c] = awaits[c]
        /\ \A c \in Suspended' : c \in Suspended \/ (c = r.co /\ awaits'[c] = p /\ c # None)
        /\ r.co # None => r.co \in Suspended' /\ awaits'[r.co] = p
    BY TaskKinds DEF then, AbortedInv, SameCalls
  <1>2. /\ \A i \in DOMAIN micro : micro[i].co # None =>
             micro[i].co \in Suspended /\ status[awaits[micro[i].co]] \in Settled
        /\ \A q \in Promise : \A i \in DOMAIN reactions[q] : reactions[q][i].co # None =>
             reactions[q][i].co \in Suspended /\ awaits[reactions[q][i].co] = q /\ status[q] = "pending"
    BY <1>1, QueueTypes, TaskKinds DEF QueuedInv, ReactionInv
  <1>3. r.co # None => /\ \A i \in DOMAIN micro : micro[i].co # r.co
                       /\ \A q \in Promise : \A i \in DOMAIN reactions[q] : reactions[q][i].co # r.co
    BY <1>2
  <1>4. AwakenedInv' /\ AbortedInv'
    BY <1>1 DEF AwakenedInv, AbortedInv
  <1>5. CASE status[p] # "pending"
    <2>0. status[p] \in Settled
      BY <1>5 DEF PromiseType, Settled
    <2>1. reactions' = reactions /\ micro' = Append(micro, r) /\ micro \in Seq(Task)
      BY <1>5 DEF then, PromiseType
    <2>2. /\ DOMAIN micro = 1 .. Len(micro) /\ Len(micro) \in Nat
          /\ DOMAIN micro' = 1 .. Len(micro) + 1
          /\ \A i \in 1 .. Len(micro) : micro'[i] = micro[i]
          /\ micro'[Len(micro) + 1] = r
      BY <2>1
    <2>3. \A k \in DOMAIN micro' : micro'[k].co # None =>
            micro'[k].co \in Suspended' /\ status[awaits'[micro'[k].co]] \in Settled
      <3> SUFFICES ASSUME NEW k \in 1 .. Len(micro) + 1, micro'[k].co # None
                   PROVE  micro'[k].co \in Suspended' /\ status[awaits'[micro'[k].co]] \in Settled
        BY <2>2
      <3>1. CASE k = Len(micro) + 1
        BY <1>1, <2>0, <2>2, <3>1
      <3>2. CASE k # Len(micro) + 1
        <4>1. k \in DOMAIN micro /\ micro'[k] = micro[k]
          BY <2>2, <3>2
        <4> QED BY <1>1, <1>2, <4>1
      <3> QED BY <3>1, <3>2
    <2>4. ASSUME NEW k \in DOMAIN micro', NEW l \in DOMAIN micro',
                 micro'[k].co # None, micro'[k].co = micro'[l].co
          PROVE  k = l
      <3>1. \A x \in DOMAIN micro' : x = Len(micro) + 1 \/ (x \in DOMAIN micro /\ micro'[x] = micro[x])
        BY <2>2
      <3> QED BY <1>3, <2>2, <2>4, <3>1 DEF QueuedInv
    <2>5. QueuedInv'
      BY <1>1, <2>3, <2>4 DEF QueuedInv
    <2>6. ReactionInv'
      BY <1>1, <1>2, <2>1 DEF ReactionInv
    <2>7. SuspendedInv'
      <3>1. \A i \in DOMAIN micro : i \in DOMAIN micro' /\ micro'[i] = micro[i]
        BY <2>2
      <3>2. Len(micro) + 1 \in DOMAIN micro'
        BY <2>2
      <3>3. ASSUME NEW c \in Suspended', c \notin Suspended
            PROVE  awaits'[c] = p /\ \E i \in DOMAIN micro' : micro'[i].co = c
        BY <1>1, <2>2, <3>2, <3>3
      <3>4. ASSUME NEW c \in Suspended
            PROVE  /\ awaits'[c] \in Promise /\ status[awaits'[c]] # "none"
                   /\ status[awaits'[c]] = "pending" =>
                        \E i \in DOMAIN reactions[awaits'[c]] : reactions[awaits'[c]][i].co = c
                   /\ status[awaits'[c]] # "pending" => \E i \in DOMAIN micro' : micro'[i].co = c
        BY <1>1, <3>1 DEF SuspendedInv
      <3> QED BY <1>1, <1>5, <2>1, <3>3, <3>4 DEF SuspendedInv
    <2> QED BY <1>4, <2>5, <2>6, <2>7
  <1>6. CASE status[p] = "pending"
    <2> DEFINE n == Len(reactions[p])
    <2>1. /\ reactions' = [reactions EXCEPT ![p] = Append(@, r)] /\ micro' = micro
          /\ reactions[p] \in Seq(Task) /\ reactions \in [Promise -> Seq(Task)]
      BY <1>6 DEF then, PromiseType
    <2>2. \A q \in Promise : reactions'[q] = IF q = p THEN Append(reactions[p], r) ELSE reactions[q]
      BY <2>1
    <2>3. /\ DOMAIN reactions[p] = 1 .. n /\ n \in Nat
          /\ DOMAIN reactions'[p] = 1 .. n + 1
          /\ \A i \in 1 .. n : reactions'[p][i] = reactions[p][i]
          /\ reactions'[p][n + 1] = r
      BY <2>1, <2>2
    <2> HIDE DEF n
    <2>4. \A k \in DOMAIN reactions'[p] :
            (k = n + 1 /\ reactions'[p][k] = r) \/ (k \in DOMAIN reactions[p] /\ reactions'[p][k] = reactions[p][k])
      BY <2>3
    <2>5. QueuedInv'
      BY <1>1, <1>2, <2>1 DEF QueuedInv
    <2>6. ReactionInv'
      <3> SUFFICES ASSUME NEW q \in Promise
                   PROVE  /\ \A i \in DOMAIN reactions'[q] : reactions'[q][i].co # None =>
                               reactions'[q][i].co \in Suspended' /\ awaits'[reactions'[q][i].co] = q
                                 /\ status[q] = "pending"
                          /\ \A i, j \in DOMAIN reactions'[q] :
                               reactions'[q][i].co # None /\ reactions'[q][i].co = reactions'[q][j].co => i = j
        BY <1>1 DEF ReactionInv
      <3>1. CASE q = p
        <4>1. \A i \in DOMAIN reactions'[p] : reactions'[p][i].co # None =>
                reactions'[p][i].co \in Suspended' /\ awaits'[reactions'[p][i].co] = p
          BY <1>1, <1>2, <2>4
        <4>2. \A i, j \in DOMAIN reactions'[p] :
                reactions'[p][i].co # None /\ reactions'[p][i].co = reactions'[p][j].co => i = j
          BY <1>3, <2>4 DEF ReactionInv
        <4> QED BY <1>6, <3>1, <4>1, <4>2
      <3>2. CASE q # p
        BY <1>1, <1>2, <2>2, <3>2 DEF ReactionInv
      <3> QED BY <3>1, <3>2
    <2>7. SuspendedInv'
      <3>1. \A i \in DOMAIN reactions[p] : i \in DOMAIN reactions'[p] /\ reactions'[p][i] = reactions[p][i]
        BY <2>3
      <3>2. n + 1 \in DOMAIN reactions'[p]
        BY <2>3
      <3>3. ASSUME NEW c \in Suspended', c \notin Suspended
            PROVE  awaits'[c] = p /\ \E i \in DOMAIN reactions'[p] : reactions'[p][i].co = c
        BY <1>1, <2>3, <3>2, <3>3
      <3>4. ASSUME NEW c \in Suspended
            PROVE  /\ awaits'[c] \in Promise /\ status[awaits'[c]] # "none"
                   /\ status[awaits'[c]] = "pending" =>
                        \E i \in DOMAIN reactions'[awaits'[c]] : reactions'[awaits'[c]][i].co = c
                   /\ status[awaits'[c]] # "pending" => \E i \in DOMAIN micro : micro[i].co = c
        <4>1. CASE awaits[c] = p
          BY <1>1, <1>6, <3>1, <4>1 DEF SuspendedInv
        <4>2. CASE awaits[c] # p
          BY <1>1, <2>2, <4>2 DEF SuspendedInv
        <4> QED BY <4>1, <4>2
      <3> QED BY <1>1, <1>6, <2>1, <3>3, <3>4 DEF SuspendedInv
    <2> QED BY <1>4, <2>5, <2>6, <2>7
  <1> QED BY <1>5, <1>6

\* The first microtask has run, and a report may have been queued again.
Shifted ==
    /\ \A k \in DOMAIN micro' : micro'[k].co # None => k + 1 \in DOMAIN micro /\ micro'[k] = micro[k + 1]
    /\ \A i \in DOMAIN micro : i # 1 => \E k \in DOMAIN micro' : micro'[k] = micro[i]

LEMMA TailShifted ==
    ASSUME PromiseType, micro # <<>>,
           micro' = Tail(micro) \/ \E r \in Task : r.co = None /\ micro' = Append(Tail(micro), r)
    PROVE  /\ 1 \in DOMAIN micro /\ Head(micro) = micro[1]
           /\ DOMAIN micro \subseteq Nat \ {0} /\ DOMAIN micro' \subseteq Nat \ {0}
           /\ Shifted
  <1> DEFINE t == Tail(micro)
  <1>1. micro \in Seq(Task)
    BY DEF PromiseType
  <1>2. /\ DOMAIN micro = 1 .. Len(micro) /\ Len(micro) \in Nat \ {0} /\ Head(micro) = micro[1]
        /\ Len(t) = Len(micro) - 1 /\ t \in Seq(Task)
        /\ \A i \in 1 .. Len(t) : t[i] = micro[i + 1]
    BY <1>1, HeadTailProperties, EmptySeq, LenProperties
  <1> HIDE DEF t
  <1>3. /\ \A k \in 1 .. Len(t) : k + 1 \in 1 .. Len(micro)
        /\ \A i \in 1 .. Len(micro) : i # 1 => i - 1 \in 1 .. Len(t) /\ t[i - 1] = micro[i]
        /\ 1 \in 1 .. Len(micro) /\ Len(t) \in Nat
    BY <1>2
  <1>4. CASE micro' = t
    <2>1. DOMAIN micro' = 1 .. Len(t)
      BY <1>2, <1>4, LenProperties
    <2>2. Shifted
      BY <1>2, <1>3, <1>4, <2>1 DEF Shifted
    <2>3. \A k \in Nat : 1 .. k \subseteq Nat \ {0}
      OBVIOUS
    <2>4. DOMAIN micro \subseteq Nat \ {0} /\ DOMAIN micro' \subseteq Nat \ {0}
      BY <1>2, <1>3, <2>1, <2>3
    <2> QED BY <1>2, <1>3, <2>2, <2>4
  <1>5. ASSUME NEW r \in Task, r.co = None, micro' = Append(t, r)
        PROVE  DOMAIN micro' \subseteq Nat \ {0} /\ Shifted
    <2>1. \A s \in Seq(Task) : /\ DOMAIN Append(s, r) = 1 .. Len(s) + 1
                               /\ \A k \in 1 .. Len(s) : Append(s, r)[k] = s[k]
                               /\ Append(s, r)[Len(s) + 1] = r
      BY LenProperties
    <2>2. /\ DOMAIN micro' = 1 .. Len(t) + 1 /\ micro'[Len(t) + 1] = r
          /\ \A k \in 1 .. Len(t) : micro'[k] = t[k]
      BY <1>2, <1>5, <2>1
    <2>3. /\ \A k \in 1 .. Len(t) + 1 : k \in 1 .. Len(t) \/ k = Len(t) + 1
          /\ \A k \in 1 .. Len(t) : k \in 1 .. Len(t) + 1
      BY <1>3
    <2>4. ASSUME NEW k \in DOMAIN micro', micro'[k].co # None
          PROVE  k + 1 \in DOMAIN micro /\ micro'[k] = micro[k + 1]
      BY <1>2, <1>3, <1>5, <2>2, <2>3, <2>4
    <2>5. ASSUME NEW i \in DOMAIN micro, i # 1
          PROVE  \E k \in DOMAIN micro' : micro'[k] = micro[i]
      BY <1>2, <1>3, <2>2, <2>3, <2>5
    <2> QED BY <2>2, <2>4, <2>5 DEF Shifted
  <1> QED BY <1>2, <1>3, <1>4, <1>5 DEF t

\* The call whose wake-up was the first microtask is no longer suspended.
LEMMA HeadWake ==
    ASSUME PromiseType, WakeInv, ~Over, micro # <<>>,
           micro' = Tail(micro) \/ \E r \in Task : r.co = None /\ micro' = Append(Tail(micro), r),
           UNCHANGED <<status, reactions, aborted, awaits>>,
           Suspended' = Suspended \ {Head(micro).co},
           \A c \in Co : co'[c] = "resumed" => co[c] = "resumed" \/ c = Head(micro).co
    PROVE  WakeInv'
  <1> USE DEF WakeInv
  <1> DEFINE h == micro[1].co
  <1>1. /\ 1 \in DOMAIN micro /\ Suspended' = Suspended \ {h} /\ Shifted
        /\ DOMAIN micro \subseteq Nat \ {0} /\ DOMAIN micro' \subseteq Nat \ {0}
        /\ \A c \in Co : co'[c] = "resumed" => co[c] = "resumed" \/ c = h
    BY TailShifted
  <1>2. \A c \in Co : ~aborted[c]
    BY DEF AbortedInv
  <1>3. /\ \A i \in DOMAIN micro : micro[i].co # None =>
             micro[i].co \in Suspended /\ status[awaits[micro[i].co]] \in Settled
        /\ \A q \in Promise : \A i \in DOMAIN reactions[q] : reactions[q][i].co # None =>
             reactions[q][i].co \in Suspended /\ awaits[reactions[q][i].co] = q /\ status[q] = "pending"
    BY <1>2, QueueTypes, TaskKinds DEF QueuedInv, ReactionInv
  <1>4. \A i \in DOMAIN micro : micro[i].co = h /\ h # None => i = 1
    BY <1>1 DEF QueuedInv
  <1>5. /\ h # None => h \in Co /\ awaits[h] \in Promise /\ status[awaits[h]] \in Settled
        /\ h = None => h \notin Suspended
    BY <1>1, <1>3, NamesAssumption DEF SuspendedInv, Suspended
  <1> HIDE DEF h
  <1>6. ASSUME NEW k \in DOMAIN micro', micro'[k].co # None
        PROVE  micro'[k].co \in Suspended' /\ status[awaits[micro'[k].co]] \in Settled
    <2>1. k \in Nat \ {0} /\ k + 1 \in DOMAIN micro /\ micro'[k] = micro[k + 1]
      BY <1>1, <1>6 DEF Shifted
    <2>2. k + 1 # 1
      BY <2>1
    <2> QED BY <1>1, <1>3, <1>4, <1>6, <2>1, <2>2
  <1>7. ASSUME NEW k \in DOMAIN micro', NEW l \in DOMAIN micro', micro'[k].co # None, micro'[k].co = micro'[l].co
        PROVE  k = l
    <2>1. /\ k \in Int /\ k + 1 \in DOMAIN micro /\ micro'[k] = micro[k + 1]
          /\ l \in Int /\ l + 1 \in DOMAIN micro /\ micro'[l] = micro[l + 1]
      BY <1>1, <1>7 DEF Shifted
    <2>2. k + 1 = l + 1
      BY <1>7, <2>1 DEF QueuedInv
    <2> QED BY <2>1, <2>2
  <1>8. QueuedInv'
    BY <1>6, <1>7 DEF QueuedInv
  <1>9. ReactionInv'
    <2>1. \A q \in Promise : \A i \in DOMAIN reactions[q] : reactions[q][i].co # None =>
             reactions[q][i].co # h
      BY <1>3, <1>5 DEF Settled
    <2> QED BY <1>1, <1>3, <2>1 DEF ReactionInv
  <1>10. SuspendedInv'
    <2>1. ASSUME NEW c \in Suspended, c # h, NEW i \in DOMAIN micro, micro[i].co = c
          PROVE  \E k \in DOMAIN micro' : micro'[k].co = c
      <3>1. i # 1
        BY <2>1 DEF h
      <3> QED BY <1>1, <2>1, <3>1 DEF Shifted
    <2> QED BY <1>1, <2>1 DEF SuspendedInv
  <1>11. AwakenedInv' /\ AbortedInv'
    <2>1. \A c \in Co : co'[c] = "resumed" => awaits[c] \in Promise /\ status[awaits[c]] \in Settled
      BY <1>1, <1>2, <1>5, NamesAssumption DEF AwakenedInv
    <2> QED BY <1>2, <2>1 DEF AwakenedInv, AbortedInv
  <1> QED BY <1>8, <1>9, <1>10, <1>11

\* abort marks the call it takes from the registry.
LEMMA AbortWake ==
    ASSUME IInv, WakeInv, Abort
    PROVE  WakeInv'
  <1> USE DEF WakeInv
  <1>0. PromiseType /\ TokenType /\ Over /\ Over'
    BY DEF IInv, TypeOK, Abort, Over, driverVars
  <1>1. PICK c \in Co : /\ co[c] = "parked" /\ co' = [co EXCEPT ![c] = "resumed"]
                        /\ aborted' = [aborted EXCEPT ![c] = TRUE]
                        /\ UNCHANGED <<status, reactions, micro, awaits>>
    <2>1. parked[Len(parked)] \in Co
      BY DEF Abort, IInv, TypeOK, ParkedType
    <2> QED BY <2>1 DEF Abort, hand, promiseVars
  <1>2. /\ Suspended' = Suspended \ {c}
        /\ \A d \in Co : aborted'[d] = (aborted[d] \/ d = c) /\ (d # c => co'[d] = co[d])
    BY <1>0, <1>1 DEF Suspended, TokenType
  <1>3. QueuedInv' /\ ReactionInv'
    <2>1. /\ \A i \in DOMAIN micro : micro[i].co # None => micro[i].co \in Co
          /\ \A q \in Promise : \A i \in DOMAIN reactions[q] : reactions[q][i].co # None => reactions[q][i].co \in Co
      BY <1>0, QueueTypes, TaskKinds
    <2>2. QueuedInv'
      BY <1>1, <1>2, <2>1 DEF QueuedInv
    <2>3. \A q \in Promise : \A i \in DOMAIN reactions[q] :
            reactions[q][i].co # None /\ ~aborted'[reactions[q][i].co] =>
              /\ reactions[q][i].co \in Suspended' /\ awaits[reactions[q][i].co] = q
              /\ status[q] = "pending"
      BY <1>2, <2>1 DEF ReactionInv
    <2>4. ReactionInv'
      BY <1>1, <2>3 DEF ReactionInv
    <2> QED BY <2>2, <2>4
  <1>4. SuspendedInv'
    BY <1>1, <1>2 DEF SuspendedInv
  <1>5. AwakenedInv' /\ AbortedInv'
    BY <1>0, <1>1, <1>2 DEF AwakenedInv, AbortedInv
  <1> QED BY <1>3, <1>4, <1>5

LEMMA WakeInit == Init => WakeInv
  BY DEF Init, WakeInv, QueuedInv, ReactionInv, SuspendedInv, AwakenedInv, AbortedInv, Suspended

LEMMA WakeStep ==
    ASSUME IInv, Alone, PhaseInv, BornInv, Kind = "module" => ModuleInv, WakeInv, [Next]_vars
    PROVE  WakeInv'
  <1> USE DEF inside, promiseVars, driverVars, resultVars
  <1>0. PromiseType /\ TokenType
    BY DEF IInv, TypeOK
  <1>1. Over => Over' /\ UNCHANGED <<status, reactions, micro>>
    BY OverStep
  <1>2. ASSUME UNCHANGED tokenVars, UNCHANGED <<status, reactions, micro>>
        PROVE  WakeInv'
    <2>1. SameCalls
      BY <1>1, <1>2 DEF SameCalls, tokenVars, Suspended
    <2> QED BY <1>0, <1>2, <2>1, PassiveWake
  <1>3. ASSUME NEW g \in Goroutine, Code(g)
        PROVE  WakeInv'
    <2>1. ~Over
      BY <1>3, NoCode DEF Code, Async, NewPromise, Resolve, Reject, SetTimeout, ClearTimeout,
                          Spawn, WriteAfterEnd
    <2>2. CASE \E p \in Made : Resolve(g, p) \/ Reject(g, p)
      <3>1. PICK p \in Made : UNCHANGED tokenVars /\ (resolve(p) \/ reject(p))
        BY <2>2 DEF Resolve, Reject
      <3>2. SameCalls
        BY <2>1, <3>1 DEF SameCalls, tokenVars, Suspended
      <3> QED BY <1>0, <2>1, <3>1, <3>2, SettleWake
    <2>3. CASE \/ \E ms \in Delays : SetTimeout(g, ms)
               \/ \E id \in 1 .. seq : ClearTimeout(g, id)
               \/ WriteAfterEnd(g)
      BY <1>2, <2>3 DEF SetTimeout, ClearTimeout, WriteAfterEnd
    <2>4. ASSUME NEW c \in Co, Async(g, c) PROVE WakeInv'
      <3>1. SameCalls
        BY <1>0, <2>1, <2>4 DEF Async, SameCalls, Suspended, TokenType
      <3> QED BY <1>0, <2>4, <3>1, MakeWake DEF Async, BornInv
    <2>5. ASSUME NEW p \in Made, NewPromise(g, p) PROVE WakeInv'
      <3>1. SameCalls
        BY <2>1, <2>5 DEF NewPromise, SameCalls, tokenVars, Suspended
      <3> QED BY <1>0, <2>5, <3>1, MakeWake DEF NewPromise
    <2>6. ASSUME NEW s \in Child, Spawn(g, s) PROVE WakeInv'
      <3>1. SameCalls
        BY <2>1, <2>6 DEF Spawn, SameCalls, tokenVars, Suspended
      <3> QED BY <1>0, <2>6, <3>1, MakeWake DEF Spawn, BornInv
    <2> QED BY <1>3, <2>2, <2>3, <2>4, <2>5, <2>6 DEF Code
  <1>4. ASSUME NEW c \in Co, Finish(c) PROVE WakeInv'
    <2>1. ~Over /\ co[c] = "running" /\ co' = [co EXCEPT ![c] = "ending"] /\ UNCHANGED <<aborted, awaits>>
      <3>1. c # Driver /\ Runs(c)
        BY <1>4, NamesAssumption DEF Finish, Return, Throw, Panic
      <3>2. ~Over /\ co[c] = "running"
        BY <3>1, NoCode DEF Runs
      <3> QED BY <1>4, <3>2 DEF Finish, Return, Throw, Panic
    <2>2. SameCalls
      BY <1>0, <2>1 DEF SameCalls, Suspended, TokenType
    <2>3. CASE Panic(c)
      BY <1>0, <2>2, <2>3, PassiveWake DEF Panic
    <2>4. CASE Return(c) \/ Throw(c)
      BY <1>0, <2>1, <2>2, <2>4, SettleWake DEF Return, Throw
    <2> QED BY <1>4, <2>3, <2>4 DEF Finish
  <1>5. ASSUME NEW c \in Co, NEW p \in Promise, Await(c, p) PROVE WakeInv'
    <2>1. c # Driver /\ c # None /\ Runs(c)
      BY <1>5, NamesAssumption DEF Await
    <2>2. ~Over /\ co[c] = "running"
      BY <2>1, NoCode DEF Runs
    <2>3. Resume(c) \in Task /\ Resume(c).co = c
      BY DEF Resume, Task
    <2>4. /\ c \notin Suspended /\ Suspended' = Suspended \cup {c} /\ aborted' = aborted
          /\ \A d \in Co : awaits'[d] = IF d = c THEN p ELSE awaits[d]
          /\ \A d \in Co : co'[d] = IF d = c THEN "yielding" ELSE co[d]
      BY <1>0, <1>5, <2>2 DEF Await, Suspended, TokenType
    <2>5. /\ \A d \in Suspended : awaits'[d] = awaits[d]
          /\ \A d \in Co : co'[d] = "resumed" => co[d] = "resumed" /\ awaits'[d] = awaits[d]
          /\ awaits'[c] = p
      BY <2>4 DEF Suspended
    <2>6. status[p] # "none" /\ then(p, Resume(c))
      BY <1>5 DEF Await
    <2> QED BY <1>0, <2>1, <2>2, <2>3, <2>4, <2>5, <2>6, ThenWake
  <1>6. ASSUME NEW p \in Promise, NEW n \in 1 .. moduleHops, status[p] # "none", then(p, Report(n)),
               UNCHANGED tokenVars, ~Over
        PROVE  WakeInv'
    <2>1. Report(n) \in Task /\ Report(n).co = None
      BY DEF Report, Task
    <2>2. SameCalls /\ aborted' = aborted
          /\ \A d \in Co : co'[d] = "resumed" => co[d] = "resumed" /\ awaits'[d] = awaits[d]
      BY <1>6 DEF SameCalls, tokenVars, Suspended
    <2> QED BY <1>0, <1>6, <2>1, <2>2, ThenWake
  <1>7. CASE FinishTask
    <2>1. CASE TaskReturn \/ SpawnReturn \/ \E how \in {"throw", "panic"} : TaskFail(how)
      BY <1>2, <2>1 DEF TaskReturn, SpawnReturn, TaskFail
    <2>2. ASSUME NEW c \in Co, ModuleCall(c) PROVE WakeInv'
      <3>1. ~Over
        BY <2>2, NoCode DEF ModuleCall
      <3>2. SameCalls
        BY <1>0, <2>2, <3>1 DEF ModuleCall, SameCalls, Suspended, TokenType
      <3> QED BY <1>0, <2>2, <3>2, MakeWake DEF ModuleCall, BornInv
    <2>3. ASSUME NEW p \in Promise, SpawnAsyncReturn(p) PROVE WakeInv'
      <3>1. ~Over
        BY <2>3, NoCode DEF SpawnAsyncReturn
      <3>2. 1 \in 1 .. moduleHops
        BY DEF moduleHops
      <3> QED BY <1>6, <2>3, <3>1, <3>2 DEF SpawnAsyncReturn
    <2> QED BY <1>7, <2>1, <2>2, <2>3 DEF FinishTask
  <1>8. CASE ModuleReturn
    <2>1. root \in Promise /\ root \in Co
      BY <1>8 DEF ModuleReturn, IInv, RootInv
    <2>2. ~Over /\ moduleHops \in 1 .. moduleHops
      BY <1>8 DEF ModuleReturn, Over, moduleHops
    <2>3. status[root] # "none"
      BY <1>8 DEF ModuleReturn, ModuleInv
    <2> QED BY <1>6, <1>8, <2>1, <2>2, <2>3 DEF ModuleReturn
  <1>9. CASE RunDelivery
    <2>1. Head(batch).child \in Promise
      <3>1. Head(batch) \in Delivery
        BY <1>9 DEF RunDelivery, IInv, TypeOK, OutsideType
      <3> QED BY <3>1 DEF Delivery
    <2>2. ~Over /\ SameCalls
      BY <1>9 DEF RunDelivery, Over, SameCalls, tokenVars, Suspended
    <2> QED BY <1>0, <1>2, <1>9, <2>1, <2>2, SettleWake DEF RunDelivery
  <1>10. ASSUME NEW c \in Co, RunResume(c) PROVE WakeInv'
    <2>1. /\ ~Over /\ micro # <<>> /\ Head(micro).co = c /\ micro' = Tail(micro) /\ co[c] = "parked"
          /\ co' = [co EXCEPT ![c] = "resumed"] /\ UNCHANGED <<status, reactions, aborted, awaits>>
      BY <1>10 DEF RunResume, Draining, Over, hand, Resume
    <2>2. Suspended' = Suspended \ {c} /\ \A d \in Co : co'[d] = "resumed" => co[d] = "resumed" \/ d = c
      BY <1>0, <2>1 DEF Suspended, TokenType
    <2> QED BY <1>0, <2>1, <2>2, HeadWake
  <1>11. ASSUME NEW n \in 1 .. moduleHops, RunReport(n) PROVE WakeInv'
    <2>1. ~Over /\ micro # <<>> /\ Head(micro).co = None /\ UNCHANGED tokenVars /\ UNCHANGED <<status, reactions>>
      BY <1>11 DEF RunReport, Draining, Over, Report
    <2>2. micro' = Tail(micro) \/ \E r \in Task : r.co = None /\ micro' = Append(Tail(micro), r)
      <3>1. Report(n - 1).co = None /\ (n > 1 => Report(n - 1) \in Task)
        BY TaskTypes DEF Report, moduleHops
      <3> QED BY <1>11, <3>1 DEF RunReport, failAfter
    <2>3. None \notin Suspended
      BY NamesAssumption DEF Suspended
    <2>4. /\ Suspended' = Suspended \ {None} /\ UNCHANGED <<aborted, awaits>>
          /\ \A d \in Co : co'[d] = "resumed" => co[d] = "resumed" \/ d = None
      BY <2>1, <2>3 DEF Suspended, tokenVars
    <2> QED BY <1>0, <2>1, <2>2, <2>4, HeadWake
  <1>12. ASSUME NEW g \in Goroutine, NEW c \in Co, Handback(g, c) PROVE WakeInv'
    <2>1. /\ co[c] \in {"yielding", "ending"} /\ g # c
          /\ g \in Co => co[g] = "running"
      <3>1. g \in Co => co[g] = "running"
        BY <1>12, NamesAssumption DEF Handback, IInv, TokenInv
      <3> QED BY <1>12, <3>1 DEF Handback
    <2>2. /\ UNCHANGED <<aborted, awaits>>
          /\ \A d \in Co : \/ d = c /\ co[c] = "yielding" /\ co'[d] = "parked"
                           \/ d = c /\ co[c] = "ending" /\ co'[d] = "done"
                           \/ d # c /\ co'[d] = co[d]
                           \/ d = g /\ d # c /\ co[d] = "running" /\ co'[d] = "ending"
      BY <1>0, <1>12, <2>1, NamesAssumption DEF Handback, TokenType
    <2>3. SameCalls
      BY <1>1, <2>2 DEF SameCalls, Suspended
    <2> QED BY <1>0, <1>12, <2>3, PassiveWake DEF Handback
  <1>13. ASSUME NEW c \in Co, Resumed(c) PROVE WakeInv'
    <2>1. /\ aborted' = aborted /\ co[c] = "resumed"
          /\ \A d \in Co : d # c => co'[d] = co[d] /\ awaits'[d] = awaits[d]
          /\ co'[c] \in {"ending", "running"}
      BY <1>0, <1>13 DEF Resumed, afterAwait, TokenType
    <2>2. SameCalls
      BY <1>1, <2>1 DEF SameCalls, Suspended
    <2> QED BY <1>0, <1>13, <2>2, PassiveWake DEF Resumed
  <1>14. CASE RaiseTick \/ EndDrain \/ Check \/ Leave \/ WaitNext \/ TakeInbox \/ EndInbox
               \/ EndFire \/ EndAbort \/ \E t \in timers : FireDue(t)
    BY <1>2, <1>14 DEF RaiseTick, EndDrain, Check, Leave, WaitNext, TakeInbox, EndInbox,
                       EndFire, EndAbort, FireDue
  <1>15. CASE Clock \/ Ended \/ UNCHANGED vars
                \/ \E s \in Child : Signal(s) \/ \E r \in Results : Post(s, r)
    BY <1>2, <1>15 DEF Clock, Ended, vars, Signal, Post
  <1> QED BY <1>3, <1>4, <1>5, <1>7, <1>8, <1>9, <1>10, <1>11, <1>12, <1>13, <1>14, <1>15,
             AbortWake DEF Next, Step

LEMMA WakeHolds == Spec => [](IInv /\ WakeInv)
  <1>1. IInv /\ Alone /\ PhaseInv /\ BornInv /\ (Kind = "module" => ModuleInv) /\ WakeInv /\ [Next]_vars => WakeInv'
    BY WakeStep
  <1> QED BY <1>1, WakeInit, PhaseHolds, BornHolds, ModuleHolds, PTL DEF Spec

\* Counting: none, or the one there is.
LEMMA Counted ==
    ASSUME NEW q, NEW r
    PROVE  /\ (\A i \in DOMAIN q : q[i] # r) => Occurrences(q, r) = 0
           /\ \A k \in DOMAIN q : q[k] = r /\ (\A i \in DOMAIN q : q[i] = r => i = k) => Occurrences(q, r) = 1
  <1>1. ASSUME \A i \in DOMAIN q : q[i] # r
        PROVE  Occurrences(q, r) = 0
    <2>1. {i \in DOMAIN q : q[i] = r} = {}
      BY <1>1
    <2> QED BY <2>1, FS_EmptySet DEF Occurrences
  <1>2. ASSUME NEW k \in DOMAIN q, q[k] = r, \A i \in DOMAIN q : q[i] = r => i = k
        PROVE  Occurrences(q, r) = 1
    <2>1. {i \in DOMAIN q : q[i] = r} = {k}
      BY <1>2
    <2> QED BY <2>1, FS_Singleton DEF Occurrences
  <1> QED BY <1>1, <1>2

(***************************************************************************)
(* Every await has exactly one wake-up: with the promise while that is     *)
(* pending, among the microtasks once it has settled.  So no await is lost *)
(* however promises settle and calls are parked and resumed, none is       *)
(* resumed twice, and a call that is resumed finds its promise settled.    *)
(***************************************************************************)
THEOREM Wakeups == Spec => []WakeupsExact
  <1>1. IInv /\ WakeInv => WakeupsExact
    <2> SUFFICES ASSUME IInv, WakeInv, NEW c \in Co
                 PROVE  LET queued == Occurrences(micro, Resume(c))
                            waits  == {p \in Promise : Occurrences(reactions[p], Resume(c)) > 0}
                        IN  IF c \in Suspended
                            THEN \/ queued = 1 /\ waits = {} /\ status[awaits[c]] # "pending"
                                 \/ /\ queued = 0 /\ waits = {awaits[c]}
                                    /\ Occurrences(reactions[awaits[c]], Resume(c)) = 1
                                    /\ status[awaits[c]] = "pending"
                            ELSE \/ aborted[c]
                                 \/ /\ queued = 0 /\ waits = {}
                                    /\ co[c] = "resumed" => status[awaits[c]] \in {"fulfilled", "rejected"}
      BY DEF WakeupsExact
    <2> DEFINE queued == Occurrences(micro, Resume(c))
               waits  == {p \in Promise : Occurrences(reactions[p], Resume(c)) > 0}
    <2>0. PromiseType /\ c # None /\ Resume(c).co = c
      BY TaskKinds DEF IInv, TypeOK
    <2>1. /\ \A i \in DOMAIN micro : micro[i] = Resume(c) <=> micro[i].co = c
          /\ \A p \in Promise : \A i \in DOMAIN reactions[p] :
               reactions[p][i] = Resume(c) <=> reactions[p][i].co = c
      BY <2>0, QueueTypes, TaskKinds
    <2>2. /\ \A i, j \in DOMAIN micro : micro[i].co = c /\ micro[j].co = c => i = j
          /\ \A p \in Promise : \A i, j \in DOMAIN reactions[p] :
               reactions[p][i].co = c /\ reactions[p][j].co = c => i = j
      BY <2>0 DEF WakeInv, QueuedInv, ReactionInv
    <2>3. CASE c \in Suspended
      <3>1. /\ ~aborted[c] /\ awaits[c] \in Promise /\ status[awaits[c]] # "none"
            /\ status[awaits[c]] = "pending" =>
                 \E i \in DOMAIN reactions[awaits[c]] : reactions[awaits[c]][i].co = c
            /\ status[awaits[c]] # "pending" => \E i \in DOMAIN micro : micro[i].co = c
        BY <2>3 DEF WakeInv, SuspendedInv, AbortedInv
      <3>2. /\ \A i \in DOMAIN micro : micro[i].co = c => status[awaits[c]] \in Settled
            /\ \A p \in Promise : \A i \in DOMAIN reactions[p] :
                 reactions[p][i].co = c => awaits[c] = p /\ status[p] = "pending"
        BY <2>0, <3>1 DEF WakeInv, QueuedInv, ReactionInv
      <3>3. CASE status[awaits[c]] = "pending"
        <4>1. queued = 0
          BY <2>1, <3>2, <3>3, Counted DEF Settled
        <4>2. Occurrences(reactions[awaits[c]], Resume(c)) = 1
          BY <2>1, <2>2, <3>1, <3>3, Counted
        <4>3. \A p \in Promise : p # awaits[c] => Occurrences(reactions[p], Resume(c)) = 0
          BY <2>1, <3>2, Counted
        <4>4. waits = {awaits[c]}
          BY <3>1, <4>2, <4>3
        <4> QED BY <2>3, <3>3, <4>1, <4>2, <4>4
      <3>4. CASE status[awaits[c]] # "pending"
        <4>1. queued = 1
          BY <2>1, <2>2, <3>1, <3>4, Counted
        <4>2. \A p \in Promise : Occurrences(reactions[p], Resume(c)) = 0
          BY <2>1, <3>2, <3>4, Counted
        <4>3. waits = {}
          BY <4>2
        <4> QED BY <2>3, <3>4, <4>1, <4>3
      <3> QED BY <3>3, <3>4
    <2>4. CASE c \notin Suspended /\ ~aborted[c]
      <3>1. queued = 0
        BY <2>0, <2>1, <2>4, Counted DEF WakeInv, QueuedInv
      <3>2. \A p \in Promise : Occurrences(reactions[p], Resume(c)) = 0
        BY <2>0, <2>1, <2>4, Counted DEF WakeInv, ReactionInv
      <3>3. waits = {}
        BY <3>2
      <3>4. co[c] = "resumed" => status[awaits[c]] \in {"fulfilled", "rejected"}
        BY <2>4 DEF WakeInv, AwakenedInv, Settled
      <3> QED BY <2>4, <3>1, <3>3, <3>4
    <2> QED BY <2>3, <2>4
  <1> QED BY <1>1, WakeHolds, PTL

-----------------------------------------------------------------------------
(* The single thread.                                                      *)

\* Timers are numbered in the order in which they are set.
NumberedInv ==
    /\ \A t \in timers : t.seq <= seq
    /\ \A t, u \in timers : t.seq = u.seq => t = u

\* Nothing but its own end settles a call's promise.
UnsettledInv == \A c \in Co : co[c] \notin {"unborn", "ending", "done"} => status[c] = "pending"

\* Exit drains when no timer is left, and sets none.
ExitInv == pc = "drain" /\ after = "ended" => timers = {}

ThreadInv == NumberedInv /\ UnsettledInv /\ ExitInv

LEMMA ThreadInit == Init => ThreadInv
  BY DEF Init, ThreadInv, NumberedInv, UnsettledInv, ExitInv

LEMMA NumberedStep ==
    ASSUME TypeOK, NumberedInv, [Next]_vars
    PROVE  NumberedInv'
  <1> USE DEF NumberedInv, outside, timeVars
  <1>1. ASSUME UNCHANGED <<timers, seq>> PROVE NumberedInv'
    BY <1>1
  <1>2. ASSUME NEW g \in Goroutine, NEW ms \in Delays, SetTimeout(g, ms) PROVE NumberedInv'
    <2>1. seq \in Nat /\ \A t \in timers : t.seq \in Nat
      BY DEF TypeOK, OutsideType, TimerRec
    <2> DEFINE new == [when |-> now + timerDelay(ms), seq |-> seq + 1]
    <2>2. timers' = timers \cup {new} /\ seq' = seq + 1 /\ new.seq = seq + 1
      BY <1>2 DEF SetTimeout
    <2> HIDE DEF new
    <2> QED BY <2>1, <2>2
  <1>3. ASSUME timers' \subseteq timers, UNCHANGED seq PROVE NumberedInv'
    BY <1>3
  <1>4. ASSUME NEW g \in Goroutine, Code(g) PROVE NumberedInv'
    BY <1>1, <1>2, <1>3, <1>4 DEF Code, Async, NewPromise, Resolve, Reject, ClearTimeout, Spawn,
                                  WriteAfterEnd
  <1>5. CASE \E c \in Co : Finish(c) \/ \E p \in Promise : Await(c, p)
    BY <1>1, <1>5 DEF Finish, Return, Throw, Panic, Await
  <1>6. CASE FinishTask
    BY <1>1, <1>6 DEF FinishTask, TaskReturn, ModuleCall, SpawnReturn, SpawnAsyncReturn, TaskFail
  <1>7. CASE Step
    BY <1>1, <1>3, <1>7
       DEF Step, Handback, Resumed, RunResume, RunReport, FireDue, popped, ModuleReturn, RaiseTick,
           EndDrain, Check, Leave, WaitNext, TakeInbox, RunDelivery, EndInbox, EndFire, Abort, EndAbort
  <1>8. CASE Clock \/ Ended \/ UNCHANGED vars
               \/ \E s \in Child : Signal(s) \/ \E r \in Results : Post(s, r)
    BY <1>1, <1>8 DEF Clock, Ended, vars, Signal, Post
  <1> QED BY <1>4, <1>5, <1>6, <1>7, <1>8 DEF Next

\* No step but its end settles the promise of a call.
LEMMA CallsUnsettled ==
    ASSUME TypeOK, [Next]_vars, NEW c \in Co, status[c] = "pending", ~Finish(c)
    PROVE  status'[c] = "pending"
  <1> USE NamesAssumption DEF inside, promiseVars
  <1>0. PromiseType
    BY DEF TypeOK
  <1>1. ASSUME NEW p \in Promise, p # c, resolve(p) \/ reject(p) PROVE status'[c] = "pending"
    BY <1>0, <1>1 DEF resolve, reject, settle, PromiseType
  <1>2. CASE UNCHANGED status
    BY <1>2
  <1>3. CASE \/ \E g \in Goroutine, d \in Co : Async(g, d)
             \/ \E d \in Co : ModuleCall(d)
             \/ \E g \in Goroutine, p \in Made : NewPromise(g, p)
             \/ \E g \in Goroutine, s \in Child : Spawn(g, s)
    BY <1>0, <1>3 DEF Async, ModuleCall, NewPromise, Spawn, PromiseType
  <1>4. ASSUME NEW g \in Goroutine, Code(g) PROVE status'[c] = "pending"
    BY <1>1, <1>2, <1>3, <1>4 DEF Code, Resolve, Reject, SetTimeout, ClearTimeout, WriteAfterEnd
  <1>5. CASE \E d \in Co : Finish(d)
    BY <1>1, <1>2, <1>5 DEF Finish, Return, Throw, Panic
  <1>6. CASE \E d \in Co, p \in Promise : Await(d, p)
    BY <1>2, <1>6 DEF Await, then
  <1>7. CASE FinishTask
    BY <1>2, <1>3, <1>7 DEF FinishTask, TaskReturn, SpawnReturn, SpawnAsyncReturn, TaskFail, then
  <1>8. CASE RunDelivery
    <2>1. Head(batch).child \in Child
      <3>1. Head(batch) \in Delivery
        BY <1>8 DEF RunDelivery, TypeOK, OutsideType
      <3> QED BY <3>1 DEF Delivery
    <2> QED BY <1>1, <1>2, <1>8, <2>1 DEF RunDelivery
  <1>9. CASE Step
    BY <1>2, <1>8, <1>9
       DEF Step, Handback, Resumed, RunResume, RunReport, FireDue, ModuleReturn, then, RaiseTick,
           EndDrain, Check, Leave, WaitNext, TakeInbox, EndInbox, EndFire, Abort, EndAbort
  <1>10. CASE Clock \/ Ended \/ UNCHANGED vars
               \/ \E s \in Child : Signal(s) \/ \E r \in Results : Post(s, r)
    BY <1>2, <1>10 DEF Clock, Ended, vars, Signal, Post
  <1> QED BY <1>4, <1>5, <1>6, <1>7, <1>9, <1>10 DEF Next

LEMMA UnsettledStep ==
    ASSUME TypeOK, TokenInv, BornInv, UnsettledInv, [Next]_vars
    PROVE  UnsettledInv'
  <1> SUFFICES ASSUME NEW c \in Co, co'[c] \notin {"unborn", "ending", "done"}
               PROVE  status'[c] = "pending"
    BY DEF UnsettledInv
  <1> USE NamesAssumption DEF TypeOK, TokenType, CoState
  <1>1. ASSUME co[c] \notin {"unborn", "ending", "done"}, ~Finish(c) PROVE status'[c] = "pending"
    BY <1>1, CallsUnsettled DEF UnsettledInv
  <1>2. CASE Finish(c)
    BY <1>2 DEF Finish, Return, Throw, Panic
  <1>3. CASE UNCHANGED tokenVars
    BY <1>1, <1>2, <1>3 DEF tokenVars
  <1>4. CASE \/ \E g \in Goroutine, d \in Co : Async(g, d)
             \/ \E d \in Co : ModuleCall(d)
    <2>1. PICK d \in Co : co' = [co EXCEPT ![d] = "running"] /\ status' = [status EXCEPT ![d] = "pending"]
      BY <1>4 DEF Async, ModuleCall
    <2> QED BY <1>1, <1>2, <2>1 DEF PromiseType
  <1>5. CASE \E d \in Co, p \in Promise : Await(d, p)
    BY <1>1, <1>2, <1>5 DEF Await, Runs
  <1>6. CASE \E d \in Co : Finish(d)
    BY <1>1, <1>2, <1>6 DEF Finish, Return, Throw, Panic
  <1>7. CASE \E d \in Co : Resumed(d)
    BY <1>1, <1>2, <1>7 DEF Resumed, afterAwait
  <1>8. CASE \E g \in Goroutine, d \in Co : Handback(g, d)
    BY <1>1, <1>2, <1>8 DEF Handback
  <1>9. ASSUME NEW d \in Co, hand(d) PROVE status'[c] = "pending"
    BY <1>1, <1>2, <1>9 DEF hand
  <1>10. CASE Abort
    <2>1. parked[Len(parked)] \in Co
      BY <1>10 DEF Abort, ParkedType
    <2> QED BY <1>9, <1>10, <2>1 DEF Abort
  <1>11. CASE \E d \in Co : RunResume(d)
    BY <1>9, <1>11 DEF RunResume
  <1> QED BY <1>3, <1>4, <1>5, <1>6, <1>7, <1>8, <1>10, <1>11, TokenSteps DEF vars, inside

LEMMA ExitStep ==
    ASSUME IInv, Alone, PhaseInv, ExitInv, [Next]_vars
    PROVE  ExitInv'
  <1> USE DEF ExitInv, driverVars, outside, timeVars
  <1>1. ASSUME UNCHANGED <<pc, after>>, timers' \subseteq timers PROVE ExitInv'
    BY <1>1
  <1>2. ASSUME pc' # "drain" \/ after' # "ended" PROVE ExitInv'
    BY <1>2
  <1>3. ASSUME NEW g \in Goroutine, Code(g) PROVE ExitInv'
    <2>1. UNCHANGED <<pc, after>> /\ Runs(g)
      BY <1>3 DEF Code, Async, NewPromise, Resolve, Reject, SetTimeout, ClearTimeout, Spawn,
                  WriteAfterEnd
    <2> QED BY <2>1, NoCode DEF Between
  <1>4. CASE \E c \in Co : Finish(c) \/ \E p \in Promise : Await(c, p)
    BY <1>1, <1>4 DEF Finish, Return, Throw, Panic, Await
  <1>5. CASE FinishTask \/ ModuleReturn
    <2>1. after # "ended"
      BY <1>5 DEF FinishTask, TaskReturn, ModuleCall, SpawnReturn, SpawnAsyncReturn, TaskFail,
                  ModuleReturn, Runs, PhaseInv, DriverInv
    <2>2. UNCHANGED after
      BY <1>5 DEF FinishTask, TaskReturn, ModuleCall, SpawnReturn, SpawnAsyncReturn, TaskFail, fail,
                  ModuleReturn
    <2> QED BY <2>1, <2>2
  <1>6. CASE Leave
    BY <1>1, <1>2, <1>6 DEF Leave, pending
  <1>7. CASE RaiseTick \/ EndDrain \/ Check \/ WaitNext \/ TakeInbox \/ RunDelivery \/ EndInbox
               \/ EndFire \/ EndAbort \/ \E t \in timers : FireDue(t)
    BY <1>1, <1>2, <1>7 DEF RaiseTick, EndDrain, Check, WaitNext, TakeInbox, RunDelivery, EndInbox,
                            EndFire, EndAbort, FireDue, fail, IInv, TypeOK, DriverType
  <1>8. CASE \/ \E g \in Goroutine, c \in Co : Handback(g, c)
             \/ \E c \in Co : Resumed(c) \/ RunResume(c)
             \/ \E n \in 1 .. moduleHops : RunReport(n)
             \/ Abort
    BY <1>1, <1>2, <1>8 DEF Handback, Resumed, RunResume, RunReport, failAfter, fail, Abort
  <1>9. CASE Clock \/ Ended \/ UNCHANGED vars
               \/ \E s \in Child : Signal(s) \/ \E r \in Results : Post(s, r)
    BY <1>1, <1>9 DEF Clock, Ended, vars, Signal, Post
  <1> QED BY <1>3, <1>4, <1>5, <1>6, <1>7, <1>8, <1>9 DEF Next, Step

LEMMA ThreadHolds == Spec => [](IInv /\ Alone /\ PhaseInv /\ BornInv /\ ThreadInv)
  <1>1. IInv /\ Alone /\ PhaseInv /\ BornInv /\ ThreadInv /\ [Next]_vars => ThreadInv'
    BY NumberedStep, UnsettledStep, ExitStep DEF ThreadInv, IInv
  <1> QED BY <1>1, ThreadInit, PhaseHolds, BornHolds, PTL DEF Spec

-----------------------------------------------------------------------------
(* The goroutines seen as one thread.                                      *)

\* The code that g stands for: the driver's is a task's, or the loop.
CodeOf(g) == IF g = Driver /\ pc # "task" THEN None ELSE g

(***************************************************************************)
(* The mapping without choices.  The holder's code runs, or, if the call   *)
(* that holds the token is done with the thread, the code of whoever waits *)
(* for the token; after a call that is not done with it goes on the code   *)
(* of the goroutine that waits for it.                                     *)
(***************************************************************************)
Mapping ==
    /\ over # "no" => current = None /\ caller = [c \in Co |-> None]
    /\ over = "no" =>
         /\ \A g \in Goroutine :
              wait[g] = None /\ (g = Driver \/ HasThread(g)) => current = CodeOf(g)
         /\ \A g \in Goroutine, c \in Co :
              wait[g] = c => IF HasThread(c) THEN caller[c] = CodeOf(g) ELSE current = CodeOf(g)
         /\ caller = [c \in Co |-> caller[c]]
         /\ \A c \in Co : ~HasThread(c) => caller[c] = None

LEMMA OverCases ==
    /\ over \in {"no", "ended", "failed"}
    /\ over = "no" <=> ~Over /\ ~Unwinding
  BY DEF over, Over

\* The holder of the token is the one call a Go panic can be on its way from.
LEMMA HolderGoesOn ==
    ASSUME TokenType, TokenInv, ~Over,
           NEW g \in Goroutine, Active(g), g \in Co => ~failed[g] \/ co[g] # "ending"
    PROVE  over = "no"
  <1>1. ASSUME NEW c \in Co, co[c] = "ending", failed[c] PROVE FALSE
    <2>1. Active(c)
      BY <1>1, NamesAssumption DEF TokenInv, Active, TokenType
    <2> QED BY <1>1, <2>1 DEF TokenInv, OneTokenHolder
  <1> QED BY <1>1, OverCases DEF Unwinding

LEMMA MappingHolds == TypeOK /\ TokenInv => Mapping
  <1> SUFFICES ASSUME TypeOK, TokenInv PROVE Mapping
    OBVIOUS
  <1> USE NamesAssumption
  <1>0. TokenType
    BY DEF TypeOK
  <1>1. over # "no" => current = None /\ caller = [c \in Co |-> None]
    BY DEF current, caller
  <1> DEFINE deepest == {c \in Co : HasThread(c) /\ (wait[c] = None \/ ~HasThread(wait[c]))}
  <1>2. over = "no" => current = IF deepest # {} THEN CHOOSE c \in deepest : TRUE ELSE CodeOf(Driver)
    BY DEF current, CodeOf
  <1> HIDE DEF deepest
  <1>3. \A c \in Co : HasThread(c) => Awake(c)
    BY DEF HasThread, Awake
  <1>4. \A c \in Co : Awake(c) /\ ~HasThread(c) => wait[c] = None
    BY DEF HasThread, Awake, TokenInv
  <1>5. \A c \in Co : Awake(c) /\ wait[c] = None => Active(c)
    BY DEF Awake, Active
  \* Whoever is deepest holds the token, or waits for the call that does.
  <1>6. ASSUME NEW c \in deepest
        PROVE  c \in Co /\ HasThread(c) /\ (Active(c) \/ (wait[c] \in Co /\ Active(wait[c]) /\ ~HasThread(wait[c])))
    <2>1. c \in Co /\ HasThread(c) /\ (wait[c] = None \/ ~HasThread(wait[c]))
      BY <1>6 DEF deepest
    <2>2. ASSUME wait[c] # None PROVE wait[c] \in Co /\ Awake(wait[c])
      BY <1>0, <2>1, <2>2 DEF TokenType, TokenInv
    <2> QED BY <1>3, <1>4, <1>5, <2>1, <2>2
  <1>7. ASSUME over = "no", NEW g \in Goroutine, wait[g] = None, g = Driver \/ HasThread(g)
        PROVE  current = CodeOf(g)
    <2>1. CASE g = Driver
      <3>1. Active(Driver)
        BY <1>7, <2>1 DEF Active
      <3>2. deepest = {}
        BY <1>6, <3>1 DEF TokenInv, OneTokenHolder
      <3> QED BY <1>2, <1>7, <2>1, <3>2
    <2>2. CASE g \in Co
      <3>1. Active(g) /\ HasThread(g) /\ CodeOf(g) = g
        BY <1>3, <1>5, <1>7, <2>2 DEF CodeOf
      <3>2. g \in deepest
        BY <1>7, <2>2, <3>1 DEF deepest
      <3>3. \A c \in deepest : c = g
        BY <1>6, <3>1, <2>2 DEF TokenInv, OneTokenHolder
      <3>4. deepest = {g}
        BY <3>2, <3>3
      <3> QED BY <1>2, <1>7, <3>1, <3>4
    <2> QED BY <2>1, <2>2
  <1>8. ASSUME over = "no", NEW g \in Goroutine, NEW c \in Co, wait[g] = c, ~HasThread(c)
        PROVE  current = CodeOf(g)
    <2>1. Active(c)
      BY <1>4, <1>5, <1>8 DEF TokenInv
    <2>2. \A d \in deepest : d \in Co /\ HasThread(d) /\ wait[d] = c
      BY <1>6, <1>8, <2>1 DEF TokenInv, OneTokenHolder
    <2>3. \A d \in deepest : d = g
      BY <1>8, <2>2 DEF TokenInv
    <2>4. CASE g = Driver
      <3>1. deepest = {}
        BY <2>2, <2>3, <2>4
      <3> QED BY <1>2, <1>8, <2>4, <3>1
    <2>5. CASE g \in Co
      <3>1. HasThread(g) /\ CodeOf(g) = g
        BY <1>8, <2>5 DEF TokenInv, HasThread, CodeOf
      <3>2. g \in deepest
        BY <1>8, <2>5, <3>1 DEF deepest
      <3>3. deepest = {g}
        BY <2>3, <3>2
      <3> QED BY <1>2, <1>8, <3>1, <3>3
    <2> QED BY <2>4, <2>5
  <1>9. ASSUME over = "no"
        PROVE  /\ caller = [c \in Co |-> caller[c]]
               /\ \A c \in Co : caller[c] = IF HasThread(c) THEN callerOf(c) ELSE None
    BY <1>9 DEF caller
  <1>10. ASSUME over = "no", NEW g \in Goroutine, NEW c \in Co, wait[g] = c, HasThread(c)
         PROVE  caller[c] = CodeOf(g)
    <2> DEFINE waiting == {h \in Co : wait[h] = c}
    <2>1. caller[c] = IF waiting # {} THEN CHOOSE h \in waiting : TRUE
                      ELSE IF wait[Driver] = c /\ pc = "task" THEN Driver ELSE None
      BY <1>9, <1>10 DEF callerOf
    <2>2. \A h \in waiting : h = g
      BY <1>10 DEF TokenInv
    <2>3. CASE g = Driver
      <3>1. waiting = {}
        BY <2>2, <2>3
      <3> QED BY <1>10, <2>1, <2>3, <3>1 DEF CodeOf
    <2>4. CASE g \in Co
      <3>1. g \in waiting
        BY <1>10, <2>4
      <3>2. waiting = {g} /\ CodeOf(g) = g
        BY <2>2, <2>4, <3>1 DEF CodeOf
      <3> QED BY <2>1, <3>2
    <2> QED BY <2>3, <2>4
  <1> QED BY <1>1, <1>7, <1>8, <1>9, <1>10 DEF Mapping

\* What the steps below are proved from.
Orderly == IInv /\ Alone /\ PhaseInv /\ BornInv /\ ThreadInv /\ Mapping

LEMMA OrderlyTypes ==
    ASSUME Orderly
    PROVE  /\ TypeOK /\ TokenInv /\ TokenType /\ PromiseType /\ ParkedType /\ OutsideType /\ DriverType
           /\ Mapping
  BY DEF Orderly, IInv, TypeOK

\* Who runs code has the thread.
LEMMA RunsCurrent ==
    ASSUME Orderly, NEW g \in Goroutine, Runs(g)
    PROVE  over = "no" /\ current = g /\ Active(g) /\ ~Over
  <1>1. TokenType /\ TokenInv /\ Mapping
    BY OrderlyTypes
  <1>2. ~Over
    BY NoCode DEF Orderly
  <1>3. Active(g)
    BY DEF Runs, Active
  <1>4. g \in Co => ~failed[g] \/ co[g] # "ending"
    BY NamesAssumption DEF Runs
  <1>5. over = "no"
    BY <1>1, <1>2, <1>3, <1>4, HolderGoesOn
  <1>6. CodeOf(g) = g /\ wait[g] = None /\ (g = Driver \/ HasThread(g))
    BY DEF Runs, CodeOf, HasThread
  <1> QED BY <1>1, <1>2, <1>3, <1>5, <1>6 DEF Mapping

\* The loop: the driver has the token, outside a task.
LEMMA LoopIdle ==
    ASSUME Orderly, pc \notin {"task", "abort", "ended"}, wait[Driver] = None
    PROVE  over = "no" /\ current = None /\ ~Over
  <1>1. TokenType /\ TokenInv /\ Mapping
    BY OrderlyTypes
  <1>2. ~Over /\ Active(Driver) /\ Driver \notin Co
    BY NamesAssumption DEF Over, Active
  <1>3. over = "no"
    BY <1>1, <1>2, HolderGoesOn
  <1> QED BY <1>1, <1>2, <1>3 DEF Mapping, CodeOf

LEMMA OverKept ==
    ASSUME over = "no", ~Over', \A c \in Co : co'[c] = "ending" /\ failed'[c] => co[c] = "ending" /\ failed[c]
    PROVE  over' = "no"
  BY DEF over, Over, Unwinding

\* Nothing changes as long as everyone is where he was.
LEMMA ThreadStays ==
    ASSUME Orderly, Orderly', UNCHANGED <<co, wait>>, pc' = "task" <=> pc = "task", over' = over
    PROVE  UNCHANGED <<current, caller>>
  <1> USE NamesAssumption
  <1>1. TokenType /\ TokenInv /\ Mapping /\ TokenType' /\ TokenInv' /\ Mapping'
    BY DEF Orderly, IInv, TypeOK
  <1>2. CASE over # "no"
    BY <1>1, <1>2 DEF Mapping
  <1>3. CASE over = "no"
    <2>1. \A g : CodeOf(g)' = CodeOf(g)
      BY DEF CodeOf
    <2>2. \A c \in Co : HasThread(c)' <=> HasThread(c)
      BY DEF HasThread
    <2>3. current' = current
      <3>1. PICK h \in Goroutine : Active(h)
        BY <1>1 DEF TokenInv, OneTokenHolder
      <3>2. CASE h = Driver \/ HasThread(h)
        BY <1>1, <1>3, <2>1, <2>2, <3>1, <3>2 DEF Mapping, Active
      <3>3. CASE h # Driver /\ ~HasThread(h)
        <4>1. h \in Co /\ Awake(h)
          BY <3>1, <3>3 DEF Active, Awake
        <4>2. PICK g \in Goroutine : wait[g] = h
          BY <1>1, <4>1 DEF TokenInv
        <4> QED BY <1>1, <1>3, <2>1, <2>2, <3>3, <4>1, <4>2 DEF Mapping
      <3> QED BY <3>2, <3>3
    <2>4. \A c \in Co : caller'[c] = caller[c]
      <3> TAKE c \in Co
      <3>1. CASE HasThread(c)
        <4>1. PICK g \in Goroutine : wait[g] = c
          BY <1>1, <3>1 DEF TokenInv, HasThread, Awake
        <4> QED BY <1>1, <1>3, <2>1, <2>2, <3>1, <4>1 DEF Mapping
      <3> QED BY <1>1, <1>3, <2>2, <3>1 DEF Mapping
    <2> QED BY <1>1, <1>3, <2>3, <2>4 DEF Mapping
  <1> QED BY <1>2, <1>3

\* The goal of each step: a step of the thread, or none.
ThreadStep == Thread!Next \/ UNCHANGED Thread!vars

\* Nothing the thread has changes.
LEMMA ThreadStutters ==
    ASSUME Orderly, Orderly', UNCHANGED <<co, wait>>, pc' = "task" <=> pc = "task", over' = over,
           UNCHANGED <<status, reactions, micro, timers>>
    PROVE  ThreadStep
  BY ThreadStays DEF ThreadStep, Thread!vars, Thread!promises

\* Async, by whoever has the token.
LEMMA CallThread ==
    ASSUME Orderly, Orderly', NEW g \in Goroutine, NEW c \in Co, Runs(g), co[c] = "unborn",
           co' = [co EXCEPT ![c] = "running"], wait' = [wait EXCEPT ![g] = c],
           status' = [status EXCEPT ![c] = "pending"],
           UNCHANGED <<pc, outcome, failed, reactions, micro, timers>>
    PROVE  Thread!Call(c)
  <1> USE NamesAssumption
  <1>1. /\ TokenType /\ TokenInv /\ Mapping /\ TokenType' /\ TokenInv' /\ Mapping' /\ BornInv
        /\ FailedInv
    BY DEF Orderly, IInv, TypeOK, PhaseInv
  <1>2. over = "no" /\ current = g /\ ~Over
    BY RunsCurrent
  <1>3. over' = "no"
    BY <1>1, <1>2, OverKept DEF Over, TokenType
  <1>4. status[c] = "none"
    BY <1>1 DEF BornInv
  <1>5. wait[c] = None /\ c # g
    BY <1>1 DEF TokenInv, Runs
  <1>6. current' = c
    <2>1. wait'[c] = None /\ HasThread(c)' /\ CodeOf(c)' = c
      BY <1>1, <1>5 DEF TokenType, HasThread, CodeOf
    <2> QED BY <1>1, <1>3, <2>1 DEF Mapping
  <1>7. \A h \in Goroutine : CodeOf(h)' = CodeOf(h)
    BY DEF CodeOf
  <1>8. CodeOf(g) = g
    BY DEF CodeOf, Runs
  <1>9. caller'[c] = g
    <2>1. wait'[g] = c /\ HasThread(c)'
      BY <1>1 DEF TokenType, HasThread
    <2> QED BY <1>1, <1>3, <1>7, <1>8, <2>1 DEF Mapping
  <1>10. ASSUME NEW d \in Co, d # c PROVE caller'[d] = caller[d]
    <2>1. HasThread(d)' <=> HasThread(d)
      BY <1>1, <1>10 DEF HasThread, TokenType
    <2>2. CASE HasThread(d)
      <3>1. PICK h \in Goroutine : wait[h] = d
        BY <1>1, <2>2 DEF TokenInv, HasThread, Awake
      <3>2. wait'[h] = d
        BY <1>1, <3>1 DEF TokenType, Runs
      <3> QED BY <1>1, <1>2, <1>3, <1>7, <2>1, <2>2, <3>1, <3>2 DEF Mapping
    <2> QED BY <1>1, <1>2, <1>3, <2>1, <2>2 DEF Mapping
  <1>11. caller' = [caller EXCEPT ![c] = current]
    BY <1>1, <1>2, <1>3, <1>9, <1>10 DEF Mapping
  <1>12. current # None /\ over' = over
    BY <1>2, <1>3
  <1> QED BY <1>4, <1>6, <1>11, <1>12 DEF Thread!Call

\* The program's code.
LEMMA CodeThread ==
    ASSUME Orderly, Orderly', NEW g \in Goroutine, Code(g)
    PROVE  ThreadStep
  <1> USE NamesAssumption DEF inside, outside, tokenVars, promiseVars, driverVars, timeVars
  <1>1. Runs(g)
    BY DEF Code, Async, NewPromise, Resolve, Reject, SetTimeout, ClearTimeout, Spawn, WriteAfterEnd
  <1>2. over = "no" /\ current = g /\ current # None
    BY <1>1, RunsCurrent
  <1>3. PromiseType /\ OutsideType /\ ThreadInv /\ BornInv
    BY DEF Orderly, IInv, TypeOK
  <1>4. ASSUME UNCHANGED <<pc, outcome, co, wait, failed>>
        PROVE  UNCHANGED <<current, caller, over>>
    <2>1. over' = over
      BY <1>4 DEF over, Unwinding
    <2> QED BY <1>4, <2>1, ThreadStays
  <1>5. ASSUME NEW c \in Co, Async(g, c) PROVE ThreadStep
    <2>1. Thread!Call(c)
      BY <1>1, <1>5, CallThread DEF Async
    <2> QED BY <2>1 DEF ThreadStep, Thread!Next
  <1>6. ASSUME NEW p \in Promise, status[p] = "none", status' = [status EXCEPT ![p] = "pending"],
               UNCHANGED <<pc, outcome, co, wait, failed, reactions, micro, timers>>
        PROVE  ThreadStep
    <2>1. Thread!Make(p)
      BY <1>2, <1>4, <1>6 DEF Thread!Make
    <2> QED BY <2>1 DEF ThreadStep, Thread!Next
  <1>7. ASSUME NEW p \in Made, NewPromise(g, p) PROVE ThreadStep
    BY <1>6, <1>7 DEF NewPromise
  <1>8. ASSUME NEW s \in Child, Spawn(g, s) PROVE ThreadStep
    BY <1>3, <1>6, <1>8 DEF Spawn, BornInv
  <1>9. ASSUME NEW p \in Made, Resolve(g, p) \/ Reject(g, p) PROVE ThreadStep
    <2>1. UNCHANGED <<current, caller, over, timers>>
      BY <1>4, <1>9 DEF Resolve, Reject
    <2>2. CASE status[p] = "pending"
      <3>1. \E how \in {"fulfilled", "rejected"} : Thread!settle(p, how)
        BY <1>9, <2>2 DEF Resolve, Reject, resolve, reject, settle, Thread!settle
      <3>2. Thread!Settle(p)
        BY <1>2, <2>1, <3>1 DEF Thread!Settle
      <3> QED BY <3>2 DEF ThreadStep, Thread!Next
    <2>3. CASE status[p] # "pending"
      BY <1>9, <2>1, <2>3 DEF Resolve, Reject, resolve, reject, ThreadStep, Thread!vars, Thread!promises
    <2> QED BY <2>2, <2>3
  <1>10. ASSUME NEW ms \in Delays, SetTimeout(g, ms) PROVE ThreadStep
    <2>1. UNCHANGED <<current, caller, over, status, reactions, micro>>
      BY <1>4, <1>10 DEF SetTimeout
    <2> DEFINE new == [when |-> now + timerDelay(ms), seq |-> seq + 1]
    <2>2. timers' = timers \cup {new} /\ new.seq = seq + 1
      BY <1>10 DEF SetTimeout
    <2> HIDE DEF new
    <2>3. \A u \in timers : u.seq < new.seq
      BY <1>3, <2>2 DEF ThreadInv, NumberedInv, OutsideType, TimerRec
    <2>4. Thread!SetTimer
      BY <1>2, <2>1, <2>2, <2>3 DEF Thread!SetTimer, Thread!promises
    <2> QED BY <2>4 DEF ThreadStep, Thread!Next
  <1>11. ASSUME NEW id \in 1 .. seq, ClearTimeout(g, id) PROVE ThreadStep
    <2>1. UNCHANGED <<current, caller, over, status, reactions, micro>>
      BY <1>4, <1>11 DEF ClearTimeout
    <2>2. timers' = {t \in timers : t.seq # id}
      BY <1>11 DEF ClearTimeout
    <2>3. CASE \E t \in timers : t.seq = id
      <3>1. PICK t \in timers : t.seq = id
        BY <2>3
      <3>2. timers' = timers \ {t}
        BY <1>3, <2>2, <3>1 DEF ThreadInv, NumberedInv
      <3>3. Thread!ClearTimer
        BY <1>2, <2>1, <3>2 DEF Thread!ClearTimer, Thread!promises
      <3> QED BY <3>3 DEF ThreadStep, Thread!Next
    <2>4. CASE \A t \in timers : t.seq # id
      <3>1. timers' = timers
        BY <2>2, <2>4
      <3> QED BY <2>1, <3>1 DEF ThreadStep, Thread!vars, Thread!promises
    <2> QED BY <2>3, <2>4
  <1>12. ASSUME WriteAfterEnd(g) PROVE ThreadStep
    BY <1>4, <1>12 DEF WriteAfterEnd, ThreadStep, Thread!vars, Thread!promises
  <1> QED BY <1>5, <1>7, <1>8, <1>9, <1>10, <1>11, <1>12 DEF Code

\* A call awaits, returns or throws: whoever waits for the token goes on.
LEMMA LeaveThread ==
    ASSUME Orderly, Orderly', NEW c \in Co, Runs(c), NEW what \in {"yielding", "ending"},
           co' = [co EXCEPT ![c] = what], UNCHANGED <<pc, outcome, wait, failed, timers>>
    PROVE  Thread!leave(c)
  <1> USE NamesAssumption
  <1>1. /\ TokenType /\ TokenInv /\ Mapping /\ TokenType' /\ TokenInv' /\ Mapping'
        /\ FailedInv
    BY DEF Orderly, IInv, TypeOK, PhaseInv
  <1>2. over = "no" /\ current = c /\ ~Over
    BY RunsCurrent
  <1>3. co[c] = "running" /\ ~failed[c]
    BY <1>1 DEF Runs, FailedInv
  <1>4. over' = "no"
    <2>1. ~Over'
      BY <1>2 DEF Over
    <2> QED BY <1>1, <1>2, <1>3, <2>1, OverKept DEF TokenType
  <1>5. PICK g \in Goroutine : wait[g] = c
    BY <1>1, <1>3 DEF TokenInv, Awake
  <1>6. \A h \in Goroutine : CodeOf(h)' = CodeOf(h)
    BY DEF CodeOf
  <1>7. HasThread(c) /\ ~HasThread(c)'
    BY <1>1, <1>3 DEF HasThread, TokenType
  <1>8. current' = caller[c] /\ caller'[c] = None
    BY <1>1, <1>2, <1>4, <1>5, <1>6, <1>7 DEF Mapping
  <1>9. ASSUME NEW d \in Co, d # c PROVE caller'[d] = caller[d]
    <2>1. HasThread(d)' <=> HasThread(d)
      BY <1>1, <1>9 DEF HasThread, TokenType
    <2>2. CASE HasThread(d)
      <3>1. PICK h \in Goroutine : wait[h] = d
        BY <1>1, <2>2 DEF TokenInv, HasThread, Awake
      <3> QED BY <1>1, <1>2, <1>4, <1>6, <2>1, <2>2, <3>1 DEF Mapping
    <2> QED BY <1>1, <1>2, <1>4, <2>1, <2>2 DEF Mapping
  <1>10. caller' = [caller EXCEPT ![c] = None]
    BY <1>1, <1>2, <1>4, <1>8, <1>9 DEF Mapping
  <1>11. UNCHANGED <<timers, over>>
    BY <1>2, <1>4
  <1> QED BY <1>2, <1>8, <1>10, <1>11 DEF Thread!leave

\* then, on a promise that was made.
LEMMA ThenThread ==
    ASSUME NEW p, NEW r, then(p, r)
    PROVE  Thread!then(p, r)
  BY DEF then, Thread!then

LEMMA AwaitThread ==
    ASSUME Orderly, Orderly', NEW c \in Co, NEW p \in Promise, Await(c, p)
    PROVE  ThreadStep
  <1>1. Thread!leave(c)
    BY LeaveThread DEF Await, driverVars, outside, timeVars
  <1>2. status[p] # "none" /\ Thread!then(p, Thread!Resume(c))
    BY ThenThread DEF Await, Resume, Thread!Resume
  <1>3. Thread!Await(c, p)
    BY <1>1, <1>2 DEF Thread!Await
  <1> QED BY <1>3 DEF ThreadStep, Thread!Next

\* What fails while the domain is not over stops the thread.
LEMMA StopThread ==
    ASSUME Orderly', over = "no", over' = "failed", UNCHANGED <<status, reactions, timers>>,
           micro' = micro \/ (current = None /\ micro # <<>> /\ micro' = Tail(micro))
    PROVE  ThreadStep
  <1>1. Mapping'
    BY DEF Orderly
  <1>2. Thread!Stop("failed")
    BY <1>1 DEF Mapping, Thread!Stop
  <1>3. Thread!Fail
    BY <1>2 DEF Thread!Fail
  <1> QED BY <1>3 DEF ThreadStep, Thread!Next

LEMMA FinishThread ==
    ASSUME Orderly, Orderly', NEW c \in Co, Finish(c)
    PROVE  ThreadStep
  <1> USE NamesAssumption
  <1>1. Runs(c) /\ c # Driver
    BY DEF Finish, Return, Throw, Panic
  <1>2. co[c] = "running" /\ TokenType /\ PromiseType /\ UnsettledInv
    BY <1>1 DEF Runs, Orderly, IInv, TypeOK, ThreadInv
  <1>3. CASE Return(c) \/ Throw(c)
    <2>1. Thread!leave(c)
      BY <1>1, <1>3, LeaveThread DEF Return, Throw, driverVars, outside, timeVars
    <2>2. status[c] = "pending"
      BY <1>2 DEF UnsettledInv
    <2>3. \E how \in {"fulfilled", "rejected"} : Thread!settle(c, how)
      BY <1>3, <2>2 DEF Return, Throw, resolve, reject, settle, Thread!settle
    <2>4. Thread!Return(c)
      BY <2>1, <2>3 DEF Thread!Return
    <2> QED BY <2>4 DEF ThreadStep, Thread!Next
  <1>4. CASE Panic(c)
    <2>1. over = "no" /\ ~Over
      BY <1>1, RunsCurrent
    <2>2. pc' = pc /\ co'[c] = "ending" /\ failed'[c]
      BY <1>2, <1>4 DEF Panic, driverVars, TokenType
    <2>3. over' = "failed"
      BY <2>1, <2>2 DEF over, Over, Unwinding
    <2> QED BY <1>4, <2>1, <2>3, StopThread DEF Panic, promiseVars, outside, timeVars
  <1> QED BY <1>3, <1>4 DEF Finish

\* The end of a task's own code.
LEMMA EndPieceThread ==
    ASSUME Orderly, Orderly', pc = "task", wait[Driver] = None, pc' = "drain",
           UNCHANGED <<co, wait, failed, timers>>
    PROVE  /\ current = Driver /\ current' = None
           /\ UNCHANGED <<caller, timers, over>>
  <1> USE NamesAssumption
  <1>1. /\ TokenType /\ TokenInv /\ Mapping /\ TokenType' /\ TokenInv' /\ Mapping'
        /\ Alone
    BY DEF Orderly, IInv, TypeOK
  <1>2. Active(Driver) /\ ~Over /\ ~Over'
    BY DEF Active, Over
  <1>3. over = "no"
    BY <1>1, <1>2, HolderGoesOn
  <1>4. over' = "no"
    BY <1>2, <1>3, OverKept
  <1>5. current = Driver /\ current' = None
    BY <1>1, <1>3, <1>4 DEF Mapping, CodeOf
  <1>6. \A c \in Co : ~HasThread(c) /\ ~HasThread(c)'
    BY <1>1 DEF Alone, Awake, HasThread
  <1>7. caller' = caller
    BY <1>1, <1>3, <1>4, <1>6 DEF Mapping
  <1> QED BY <1>3, <1>4, <1>5, <1>7

LEMMA FinishTaskThread ==
    ASSUME Orderly, Orderly', FinishTask \/ ModuleReturn, Kind = "module" => ModuleInv
    PROVE  ThreadStep
  <1> USE NamesAssumption DEF inside, outside, tokenVars, promiseVars, driverVars, timeVars
  <1>1. CASE TaskReturn \/ SpawnReturn
    <2>1. /\ current = Driver /\ current' = None
          /\ UNCHANGED <<caller, timers, over, status, reactions, micro>>
      BY <1>1, EndPieceThread DEF TaskReturn, SpawnReturn, Runs
    <2>2. Thread!EndPiece
      BY <2>1 DEF Thread!EndPiece, Thread!promises
    <2> QED BY <2>2 DEF ThreadStep, Thread!Next
  <1>2. ASSUME NEW p \in Promise, status[p] # "none", NEW n \in {1, 5}, then(p, Report(n)),
               pc = "task", wait[Driver] = None, pc' = "drain", UNCHANGED <<co, wait, failed, timers>>
        PROVE  ThreadStep
    <2>1. /\ current = Driver /\ current' = None
          /\ UNCHANGED <<caller, timers, over>>
      BY <1>2, EndPieceThread
    <2>2. Thread!then(p, Thread!Report(n))
      BY <1>2, ThenThread DEF Report, Thread!Report
    <2>3. Thread!EndPiece
      BY <1>2, <2>1, <2>2 DEF Thread!EndPiece
    <2> QED BY <2>3 DEF ThreadStep, Thread!Next
  <1>3. ASSUME NEW p \in Promise, SpawnAsyncReturn(p) PROVE ThreadStep
    BY <1>2, <1>3 DEF SpawnAsyncReturn, Runs
  <1>4. CASE ModuleReturn
    <2>1. root \in Promise /\ status[root] # "none"
      BY <1>4 DEF ModuleReturn, Orderly, IInv, RootInv, ModuleInv
    <2> QED BY <1>2, <1>4, <2>1 DEF ModuleReturn, moduleHops
  <1>5. ASSUME NEW c \in Co, ModuleCall(c) PROVE ThreadStep
    <2>1. Thread!Call(c)
      BY <1>5, CallThread DEF ModuleCall
    <2> QED BY <2>1 DEF ThreadStep, Thread!Next
  <1>6. ASSUME NEW how \in {"throw", "panic"}, TaskFail(how) PROVE ThreadStep
    <2>1. over = "no"
      BY <1>6, RunsCurrent DEF TaskFail
    <2>2. over' = "failed"
      BY <1>6 DEF TaskFail, fail, over
    <2> QED BY <1>6, <2>1, <2>2, StopThread DEF TaskFail
  <1> QED BY <1>1, <1>3, <1>4, <1>5, <1>6 DEF FinishTask

(***************************************************************************)
(* The token goes back from a call that was done with the thread: for the  *)
(* thread nothing happens.  A panic that goes on in the caller had stopped *)
(* it when it was raised.                                                  *)
(***************************************************************************)
LEMMA HandbackThread ==
    ASSUME Orderly, Orderly', NEW g \in Goroutine, NEW c \in Co, Handback(g, c)
    PROVE  ThreadStep
  <1> USE NamesAssumption DEF inside, outside, promiseVars, driverVars, timeVars
  <1>1. /\ TokenType /\ TokenInv /\ Mapping /\ TokenType' /\ TokenInv' /\ Mapping'
        /\ FailedInv /\ OverInv
    BY DEF Orderly, IInv, TypeOK, PhaseInv
  <1>2. /\ wait[g] = c /\ co[c] \in {"yielding", "ending"} /\ Awake(c) /\ g # c
        /\ g \in Co => co[g] = "running"
        /\ UNCHANGED <<status, reactions, micro, timers>>
    <2>1. wait[g] = c /\ co[c] \in {"yielding", "ending"} /\ UNCHANGED <<status, reactions, micro, timers>>
      BY DEF Handback
    <2> QED BY <1>1, <2>1 DEF Awake, TokenInv
  <1>3. Active(c)
    BY <1>1, <1>2 DEF TokenInv, Active
  <1>4. CASE failed[c]
    <2>1. co[c] = "ending" /\ ~Over
      BY <1>1, <1>2, <1>4 DEF FailedInv, OverInv
    <2>2. over = "failed"
      BY <1>4, <2>1 DEF over, Over, Unwinding
    <2>3. ASSUME g = Driver PROVE over' = "failed"
      <3>1. fail("panic")
        BY <1>4, <2>3 DEF Handback
      <3> QED BY <3>1 DEF fail, over
    <2>4. ASSUME g # Driver PROVE over' = "failed"
      <3>1. co'[g] = "ending" /\ failed'[g] /\ g \in Co /\ pc' = pc
        BY <1>1, <1>4, <2>4 DEF Handback, TokenType
      <3> QED BY <2>1, <3>1 DEF over, Over, Unwinding
    <2>5. over' = "failed"
      BY <2>3, <2>4
    <2> QED BY <1>1, <1>2, <2>2, <2>5 DEF Mapping, ThreadStep, Thread!vars, Thread!promises
  <1>5. CASE ~failed[c]
    <2>1. /\ co' = [co EXCEPT ![c] = IF @ = "yielding" THEN "parked" ELSE "done"]
          /\ wait' = [wait EXCEPT ![g] = None]
          /\ UNCHANGED <<pc, outcome, failed>>
      BY <1>5 DEF Handback
    <2>2. \A d \in Co : d # c => co'[d] = co[d]
      BY <1>1, <2>1 DEF TokenType
    <2>3. co'[c] \in {"parked", "done"}
      BY <1>1, <2>1 DEF TokenType
    <2>4. over' = over
      <3>1. Unwinding' <=> Unwinding
        BY <1>5, <2>1, <2>2, <2>3 DEF Unwinding
      <3> QED BY <2>1, <3>1 DEF over
    <2>5. CASE over # "no"
      BY <1>1, <1>2, <2>4, <2>5 DEF Mapping, ThreadStep, Thread!vars, Thread!promises
    <2>6. CASE over = "no"
      <3>1. \A h \in Goroutine : CodeOf(h)' = CodeOf(h)
        BY <2>1 DEF CodeOf
      <3>2. ~HasThread(c) /\ ~HasThread(c)' /\ (g \in Co => HasThread(g)')
        BY <1>2, <2>2, <2>3 DEF HasThread
      <3>3. wait'[g] = None
        BY <1>1, <2>1 DEF TokenType
      <3>4. current' = current
        BY <1>1, <1>2, <2>4, <2>6, <3>1, <3>2, <3>3 DEF Mapping
      <3>5. ASSUME NEW d \in Co PROVE caller'[d] = caller[d]
        <4>1. HasThread(d)' <=> HasThread(d)
          BY <2>2, <3>2 DEF HasThread
        <4>2. CASE HasThread(d)
          <5>1. PICK h \in Goroutine : wait[h] = d
            BY <1>1, <4>2 DEF TokenInv, HasThread, Awake
          <5>2. wait'[h] = d
            BY <1>1, <1>2, <2>1, <3>2, <4>2, <5>1 DEF TokenType
          <5> QED BY <1>1, <2>4, <2>6, <3>1, <4>1, <4>2, <5>1, <5>2 DEF Mapping
        <4> QED BY <1>1, <2>4, <2>6, <4>1, <4>2 DEF Mapping
      <3>6. caller' = caller
        BY <1>1, <2>4, <2>6, <3>5 DEF Mapping
      <3> QED BY <1>2, <2>4, <3>4, <3>6 DEF ThreadStep, Thread!vars, Thread!promises
    <2> QED BY <2>5, <2>6
  <1> QED BY <1>4, <1>5

\* What a call does with the token it was handed: it goes on, or exits.
LEMMA ResumedThread ==
    ASSUME Orderly, Orderly', WakeInv, NEW c \in Co, Resumed(c)
    PROVE  ThreadStep
  <1> USE NamesAssumption DEF inside, outside, promiseVars, driverVars, timeVars
  <1>1. /\ TokenType /\ TokenInv /\ Mapping /\ TokenType' /\ TokenInv' /\ Mapping'
        /\ FailedInv /\ OverInv /\ AbortedInv
    BY DEF Orderly, IInv, TypeOK, PhaseInv, WakeInv
  <1>2. /\ co[c] = "resumed" /\ Awake(c) /\ co' = [co EXCEPT ![c] = afterAwait(c)]
        /\ UNCHANGED <<pc, outcome, wait, failed, status, reactions, micro, timers>>
    BY DEF Resumed, Awake
  <1>3. CASE aborted[c]
    <2>1. Over /\ Over'
      BY <1>1, <1>2, <1>3 DEF AbortedInv, Over
    <2>2. over' = over /\ over # "no"
      BY <1>2, <2>1 DEF over, Over
    <2> QED BY <1>1, <1>2, <2>2 DEF Mapping, ThreadStep, Thread!vars, Thread!promises
  <1>4. CASE ~aborted[c]
    <2>1. ~Over /\ ~Over' /\ co' = [co EXCEPT ![c] = "running"]
      BY <1>1, <1>2, <1>4 DEF OverInv, Over, afterAwait
    <2>2. Active(c)
      BY <1>1, <1>2 DEF TokenInv, Active
    <2>3. over = "no"
      BY <1>1, <1>2, <2>1, <2>2, HolderGoesOn
    <2>4. over' = "no"
      BY <1>1, <1>2, <2>1, <2>3, OverKept DEF TokenType
    <2>5. \A d \in Co : HasThread(d)' <=> HasThread(d)
      BY <1>1, <1>2, <2>1 DEF HasThread, TokenType
    <2>6. \A h \in Goroutine : CodeOf(h)' = CodeOf(h)
      BY <1>2 DEF CodeOf
    <2>7. current' = current
      <3>1. HasThread(c) /\ wait[c] = None
        BY <1>2, <2>2 DEF HasThread, Active
      <3> QED BY <1>1, <1>2, <2>3, <2>4, <2>5, <2>6, <3>1 DEF Mapping
    <2>8. ASSUME NEW d \in Co PROVE caller'[d] = caller[d]
      <3>1. CASE HasThread(d)
        <4>1. PICK h \in Goroutine : wait[h] = d
          BY <1>1, <3>1 DEF TokenInv, HasThread, Awake
        <4> QED BY <1>1, <1>2, <2>3, <2>4, <2>5, <2>6, <3>1, <4>1 DEF Mapping
      <3> QED BY <1>1, <2>3, <2>4, <2>5, <3>1 DEF Mapping
    <2>9. caller' = caller
      BY <1>1, <2>3, <2>4, <2>8 DEF Mapping
    <2> QED BY <1>2, <2>3, <2>4, <2>7, <2>9 DEF ThreadStep, Thread!vars, Thread!promises
  <1> QED BY <1>3, <1>4

\* The loop runs a job that resumes a call.
LEMMA RunResumeThread ==
    ASSUME Orderly, Orderly', NEW c \in Co, RunResume(c)
    PROVE  ThreadStep
  <1> USE NamesAssumption DEF inside, outside, promiseVars, driverVars, timeVars
  <1>1. /\ TokenType /\ TokenInv /\ Mapping /\ TokenType' /\ TokenInv' /\ Mapping'
        /\ Alone
    BY DEF Orderly, IInv, TypeOK
  <1>2. /\ pc = "drain" /\ wait[Driver] = None /\ micro # <<>> /\ Head(micro) = Resume(c) /\ micro' = Tail(micro)
        /\ co[c] = "parked" /\ co' = [co EXCEPT ![c] = "resumed"] /\ wait' = [wait EXCEPT ![Driver] = c]
        /\ UNCHANGED <<pc, outcome, failed, status, reactions, timers>>
    BY DEF RunResume, Draining, hand
  <1>3. over = "no" /\ current = None
    BY <1>2, LoopIdle
  <1>4. over' = "no"
    <2>1. ~Over'
      BY <1>2 DEF Over
    <2> QED BY <1>1, <1>2, <1>3, <2>1, OverKept DEF TokenType
  <1>5. /\ \A d \in Co : ~HasThread(d)
        /\ \A d \in Co : d # c => ~HasThread(d)'
    BY <1>1, <1>2 DEF Alone, Awake, HasThread, TokenType
  <1>6. HasThread(c)' /\ wait'[Driver] = c
    BY <1>1, <1>2 DEF HasThread, TokenType
  <1>7. wait'[c] = None
    <2>1. wait[c] = None
      BY <1>1, <1>2 DEF TokenInv
    <2> QED BY <1>1, <1>2, <2>1 DEF TokenType
  <1>8. current' = c
    BY <1>1, <1>4, <1>6, <1>7 DEF Mapping, CodeOf
  <1>9. caller'[c] = None
    BY <1>1, <1>2, <1>4, <1>6 DEF Mapping, CodeOf
  <1>10. caller' = caller
    BY <1>1, <1>3, <1>4, <1>5, <1>9 DEF Mapping
  <1>11. Thread!RunJob
    BY <1>2, <1>3, <1>4, <1>8, <1>10 DEF Thread!RunJob, Thread!Idle, Resume, Thread!Resume
  <1> QED BY <1>11 DEF ThreadStep, Thread!Next

\* The loop runs a job that reports on the first task's promise.
LEMMA RunReportThread ==
    ASSUME Orderly, Orderly', NEW n \in 1 .. moduleHops, RunReport(n)
    PROVE  ThreadStep
  <1> USE DEF inside, outside, tokenVars, promiseVars, driverVars, timeVars
  <1>1. /\ pc = "drain" /\ wait[Driver] = None /\ micro # <<>> /\ Head(micro) = Report(n)
        /\ UNCHANGED <<co, wait, failed, status, reactions, timers>>
    BY DEF RunReport, Draining
  <1>2. over = "no" /\ current = None
    BY <1>1, LoopIdle
  <1>3. CASE fail("throw") /\ micro' = Tail(micro)
    <2>1. over' = "failed"
      BY <1>3 DEF fail, over
    <2> QED BY <1>1, <1>2, <1>3, <2>1, StopThread
  <1>4. ASSUME UNCHANGED <<pc, outcome>>, micro' = Tail(micro) \/ micro' = Append(Tail(micro), Report(n - 1))
        PROVE  ThreadStep
    <2>1. over' = over
      BY <1>1, <1>4 DEF over, Unwinding
    <2>2. UNCHANGED <<current, caller, over>>
      BY <1>1, <1>4, <2>1, ThreadStays
    <2>3. Head(micro).co = None /\ Thread!Report(Head(micro).hops - 1) = Report(n - 1)
      BY <1>1 DEF Report, Thread!Report
    <2>4. Thread!RunJob
      BY <1>1, <1>2, <1>4, <2>2, <2>3 DEF Thread!RunJob, Thread!Idle
    <2> QED BY <2>4 DEF ThreadStep, Thread!Next
  <1> QED BY <1>3, <1>4 DEF RunReport, failAfter

\* Nothing is left: the thread ends.
LEMMA EndThread ==
    ASSUME Orderly, Orderly', over = "no", current = None, over' = "ended", timers = {}, micro = <<>>,
           UNCHANGED <<status, reactions, micro, timers>>
    PROVE  ThreadStep
  <1>1. Mapping'
    BY DEF Orderly
  <1>2. Thread!Stop("ended")
    BY <1>1 DEF Mapping, Thread!Stop
  <1>3. Thread!End
    BY <1>2 DEF Thread!End, Thread!Idle
  <1> QED BY <1>3 DEF ThreadStep, Thread!Next

\* The driver's steps between two tasks.
LEMMA DriverThread ==
    ASSUME Orderly, Orderly',
           \/ RaiseTick \/ EndDrain \/ Check \/ Leave \/ WaitNext \/ TakeInbox \/ RunDelivery
           \/ EndInbox \/ EndFire \/ \E t \in timers : FireDue(t)
    PROVE  ThreadStep
  <1> USE NamesAssumption DEF inside, outside, tokenVars, promiseVars, driverVars, timeVars
  <1>1. /\ PhaseInv /\ DriverInv /\ QueuesInv /\ ExitInv /\ TypeOK /\ Mapping /\ Mapping' /\ TokenType /\ OutsideType
        /\ DriverType
    BY DEF Orderly, IInv, TypeOK, ThreadInv, PhaseInv
  <1>2. pc \notin {"task", "abort", "ended"} /\ wait[Driver] = None
    BY <1>1 DEF RaiseTick, EndDrain, Draining, Check, Leave, WaitNext, TakeInbox, RunDelivery, EndInbox,
                EndFire, FireDue, DriverInv
  <1>3. over = "no" /\ current = None /\ ~Over
    BY <1>2, LoopIdle
  <1>4. ASSUME UNCHANGED <<co, wait, failed, status, reactions, micro, timers>>,
               pc' \notin {"task", "abort", "ended"}
        PROVE  ThreadStep
    <2>1. over' = over
      <3>1. Unwinding' <=> Unwinding
        BY <1>4 DEF Unwinding
      <3> QED BY <1>2, <1>4, <3>1 DEF over
    <2>2. (pc' = "task") <=> (pc = "task")
      BY <1>2, <1>4
    <2> QED BY <1>4, <2>1, <2>2, ThreadStutters
  <1>5. ASSUME NEW how \in {"throw", "rejection", "panic"}, fail(how),
               UNCHANGED <<status, reactions, micro, timers>>
        PROVE  ThreadStep
    <2>1. over' = "failed"
      BY <1>5 DEF fail, over
    <2> QED BY <1>3, <1>5, <2>1, StopThread
  <1>6. ASSUME pc' \in {"abort", "ended"}, outcome' \in {"done", "unsettled"}, timers = {}, micro = <<>>,
               UNCHANGED <<status, reactions, micro, timers>>
        PROVE  ThreadStep
    <2>1. over' = "ended"
      BY <1>6 DEF over
    <2> QED BY <1>3, <1>6, <2>1, EndThread
  <1>7. CASE RaiseTick
    BY <1>5, <1>7 DEF RaiseTick
  <1>8. CASE EndDrain
    <2>1. CASE unhandledRejection
      BY <1>5, <1>8, <2>1 DEF EndDrain
    <2>2. CASE ~unhandledRejection /\ after = "ended"
      BY <1>1, <1>6, <1>8, <2>2 DEF EndDrain, Draining, drained, ExitInv
    <2>3. CASE ~unhandledRejection /\ after # "ended"
      <3>1. pc' = after /\ after \in {"check", "inbox", "batch", "fire"}
        BY <1>1, <1>8, <2>3 DEF EndDrain, DriverType
      <3> QED BY <1>4, <1>8, <3>1 DEF EndDrain
    <2> QED BY <2>1, <2>2, <2>3
  <1>9. CASE Check \/ WaitNext \/ TakeInbox \/ EndInbox \/ EndFire
    BY <1>4, <1>9 DEF Check, WaitNext, TakeInbox, EndInbox, EndFire
  <1>10. CASE Leave
    <2>1. timers = {} /\ micro = <<>>
      BY <1>1, <1>10 DEF Leave, pending, QueuesInv, Between
    <2> QED BY <1>4, <1>6, <1>10, <2>1 DEF Leave
  <1>11. ASSUME NEW t \in timers, FireDue(t) PROVE ThreadStep
    <2>1. /\ pc' = "task" /\ timers' = timers \ {t} /\ UNCHANGED <<co, wait, failed, status, reactions, micro>>
          /\ \A u \in timers : t.when < u.when \/ (t.when = u.when /\ t.seq <= u.seq)
          /\ micro = <<>>
      BY <1>1, <1>11 DEF FireDue, Due, popped, QueuesInv, Between
    <2>2. over' = "no"
      <3>1. ~Over'
        BY <2>1 DEF Over
      <3> QED BY <1>3, <2>1, <3>1, OverKept
    <2>3. current' = Driver
      BY <1>1, <1>2, <2>1, <2>2 DEF Mapping, CodeOf
    <2>4. \A c \in Co : ~HasThread(c) /\ ~HasThread(c)'
      BY <1>2, <2>1 DEF Orderly, Alone, Awake, HasThread
    <2>5. caller' = caller
      BY <1>1, <1>3, <2>2, <2>4 DEF Mapping
    <2>6. Thread!RunTimer(t)
      BY <1>3, <2>1, <2>2, <2>3, <2>5 DEF Thread!RunTimer, Thread!Idle, Thread!promises
    <2> QED BY <2>6 DEF ThreadStep, Thread!Next
  <1>12. CASE RunDelivery
    <2>1. CASE Head(batch).result = "panic"
      BY <1>5, <1>12, <2>1 DEF RunDelivery
    <2>2. CASE Head(batch).result # "panic"
      <3> DEFINE s == Head(batch).child
      <3>1. /\ pc' = "drain" /\ micro = <<>> /\ UNCHANGED <<co, wait, failed, timers>>
            /\ resolve(s) \/ reject(s) \/ UNCHANGED promiseVars
        BY <1>1, <1>12, <2>2 DEF RunDelivery, QueuesInv, Between
      <3>2. s \in Child
        <4>1. Head(batch) \in Delivery
          BY <1>1, <1>12 DEF RunDelivery, OutsideType
        <4> QED BY <4>1 DEF Delivery
      <3> HIDE DEF s
      <3>3. CASE status[s] = "pending" /\ (resolve(s) \/ reject(s))
        <4>1. \E how \in {"fulfilled", "rejected"} : Thread!settle(s, how)
          BY <3>3 DEF resolve, reject, settle, Thread!settle
        <4>2. over' = over
          <5>1. Unwinding' <=> Unwinding
            BY <3>1 DEF Unwinding
          <5> QED BY <1>2, <3>1, <5>1 DEF over
        <4>3. UNCHANGED <<current, caller>>
          BY <1>2, <3>1, <4>2, ThreadStays
        <4>4. Thread!Deliver(s)
          BY <1>3, <3>1, <4>1, <4>2, <4>3 DEF Thread!Deliver, Thread!Idle
        <4> QED BY <3>2, <4>4 DEF ThreadStep, Thread!Next
      <3>4. CASE status[s] # "pending" \/ UNCHANGED promiseVars
        BY <1>4, <3>1, <3>4 DEF resolve, reject
      <3> QED BY <3>1, <3>3, <3>4
    <2> QED BY <2>1, <2>2
  <1> QED BY <1>7, <1>8, <1>9, <1>10, <1>11, <1>12

\* The domain is abandoned, or somebody else's step.
LEMMA RestThread ==
    ASSUME Orderly, Orderly',
           \/ Abort \/ EndAbort \/ Clock \/ Ended \/ UNCHANGED vars
           \/ \E s \in Child : Signal(s) \/ \E r \in Results : Post(s, r)
    PROVE  ThreadStep
  <1> USE DEF inside, outside, tokenVars, promiseVars, driverVars, timeVars
  <1>1. CASE Abort \/ EndAbort
    <2>1. Over /\ Over' /\ UNCHANGED <<outcome, status, reactions, micro, timers>>
      BY <1>1 DEF Abort, EndAbort, Over
    <2>2. over' = over /\ over # "no"
      BY <2>1 DEF over, Over
    <2> QED BY <2>1, <2>2 DEF Orderly, Mapping, ThreadStep, Thread!vars, Thread!promises
  <1>2. CASE Clock \/ Ended \/ UNCHANGED vars
               \/ \E s \in Child : Signal(s) \/ \E r \in Results : Post(s, r)
    <2>1. UNCHANGED <<pc, outcome, co, wait, failed, status, reactions, micro, timers>>
      BY <1>2 DEF Clock, Ended, vars, Signal, Post
    <2>2. over' = over
      BY <2>1 DEF over, Unwinding
    <2> QED BY <2>1, <2>2, ThreadStutters
  <1> QED BY <1>1, <1>2

LEMMA NextThread ==
    ASSUME Orderly, Orderly', WakeInv, Kind = "module" => ModuleInv, [Next]_vars
    PROVE  ThreadStep
  BY CodeThread, AwaitThread, FinishThread, FinishTaskThread, HandbackThread, ResumedThread,
     RunResumeThread, RunReportThread, DriverThread, RestThread
     DEF Next, Step

(***************************************************************************)
(* With all its goroutines, a domain is JavaScript's single thread: each   *)
(* step of a goroutine that has the token is a step of the one thread, or  *)
(* none, as when the token is handed back by a call that is done with it.  *)
(***************************************************************************)
THEOREM DomainIsThread == Spec => SingleThread
  <1>1. Init => Thread!Init
    <2> SUFFICES ASSUME Init PROVE Thread!Init
      OBVIOUS
    <2>1. over = "no"
      BY DEF Init, over, Unwinding
    <2>2. \A c \in Co : ~HasThread(c)
      BY DEF Init, HasThread
    <2>3. current = Driver /\ caller = [c \in Co |-> None]
      BY <2>1, <2>2, InitIInv, MappingHolds, NamesAssumption DEF Init, IInv, Mapping, CodeOf
    <2> QED BY <2>1, <2>3 DEF Init, Thread!Init
  <1>2. IInv => Mapping
    BY MappingHolds DEF IInv
  <1>3. Spec => []Orderly
    BY <1>2, ThreadHolds, PTL DEF Orderly
  <1>4. Orderly /\ Orderly' /\ WakeInv /\ (Kind = "module" => ModuleInv) /\ [Next]_vars => [Thread!Next]_Thread!vars
    BY NextThread DEF ThreadStep
  <1> QED BY <1>1, <1>3, <1>4, WakeHolds, ModuleHolds, PTL DEF Spec, SingleThread, Thread!Spec
=============================================================================
