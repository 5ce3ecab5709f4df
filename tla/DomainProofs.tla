---------------------------- MODULE DomainProofs ----------------------------
(***************************************************************************)
(* Proofs about Domain, for every set of calls, promises, spawns and       *)
(* timers, and every kind of driver: its types, its token, its goroutines, *)
(* and its phases (between two tasks, abandoned, ended).                   *)
(***************************************************************************)
EXTENDS Domain, SequenceTheorems, TLAPS

USE DEF Promise, Goroutine

-----------------------------------------------------------------------------
(* The operators on promises and on the parked registry.                   *)

LEMMA TaskTypes ==
    /\ \A c \in Co : Resume(c) \in Task
    /\ \A n \in 1 .. moduleHops : Report(n) \in Task
  BY DEF Task

LEMMA SettleType ==
    ASSUME PromiseType, NEW p \in Promise, NEW how \in {"fulfilled", "rejected"},
           settle(p, how)
    PROVE  /\ status' \in [Promise -> {"none", "pending", "fulfilled", "rejected"}]
           /\ handled' \in [Promise -> BOOLEAN]
           /\ reactions' \in [Promise -> Seq(Task)]
           /\ micro' \in Seq(Task)
  <1>1. micro \o reactions[p] \in Seq(Task)
    BY DEF PromiseType
  <1>2. <<>> \in Seq(Task)
    OBVIOUS
  <1> QED BY <1>1, <1>2 DEF PromiseType, settle

LEMMA ResolveType ==
    ASSUME PromiseType, NEW p \in Promise, resolve(p)
    PROVE  PromiseType'
  BY SettleType DEF resolve, PromiseType, promiseVars

LEMMA RejectType ==
    ASSUME PromiseType, NEW p \in Promise, reject(p)
    PROVE  PromiseType'
  <1>1. Append(rejected, p) \in Seq(Promise)
    BY DEF PromiseType
  <1> QED BY <1>1, SettleType DEF reject, PromiseType, promiseVars

LEMMA ThenType ==
    ASSUME PromiseType, NEW p \in Promise, NEW r \in Task, then(p, r)
    PROVE  PromiseType'
  <1>1. Append(micro, r) \in Seq(Task) /\ Append(reactions[p], r) \in Seq(Task)
    BY DEF PromiseType
  <1> QED BY <1>1 DEF then, PromiseType

\* The sequence without its last element.
LEMMA FrontFacts ==
    ASSUME NEW S, NEW s \in Seq(S), s # <<>>
    PROVE  LET t == SubSeq(s, 1, Len(s) - 1)
           IN  /\ t \in Seq(S) /\ Len(t) = Len(s) - 1
               /\ \A i \in 1 .. Len(s) - 1 : t[i] = s[i]
  <1>1. Len(s) \in Nat /\ Len(s) # 0
    BY EmptySeq
  <1>2. \A i \in 1 .. Len(s) - 1 : s[i] \in S
    BY <1>1
  <1> DEFINE n == Len(s) - 1
  <1>3. n \in Int /\ (1 <= n \/ n = 0)
    <2>1. \A k \in Nat : k # 0 => k - 1 \in Int /\ (1 <= k - 1 \/ k - 1 = 0)
      OBVIOUS
    <2> QED BY <1>1, <2>1
  <1>4. /\ SubSeq(s, 1, n) \in Seq(S)
        /\ Len(SubSeq(s, 1, n)) = IF 1 <= n THEN n - 1 + 1 ELSE 0
        /\ \A i \in 1 .. n - 1 + 1 : SubSeq(s, 1, n)[i] = s[1 + i - 1]
    BY <1>2, <1>3, SubSeqProperties
  <1> HIDE DEF n
  <1>5. n - 1 + 1 = n /\ \A i \in 1 .. n : 1 + i - 1 = i
    BY <1>3
  <1>6. /\ Len(SubSeq(s, 1, n)) = n
        /\ \A i \in 1 .. n : SubSeq(s, 1, n)[i] = s[i]
    BY <1>3, <1>4, <1>5
  <1> QED BY <1>4, <1>6 DEF n

-----------------------------------------------------------------------------
(* Who holds the token.                                                    *)

\* c's goroutine is started, has not ended and is not suspended in an Await.
Awake(c) == co[c] \in {"running", "yielding", "resumed", "ending"}

(***************************************************************************)
(* OneTokenHolder is not inductive: that one goroutine is unblocked says   *)
(* nothing of whose turn comes when it blocks.  The goroutines that wait   *)
(* form a chain from the driver to the holder: each awake call is waited   *)
(* for by exactly one goroutine, and only a call that runs waits itself.   *)
(***************************************************************************)
TokenInv ==
    /\ OneTokenHolder
    /\ \A g, h \in Goroutine : wait[g] = wait[h] /\ wait[g] # None => g = h
    /\ \A c \in Co : Awake(c) <=> \E g \in Goroutine : wait[g] = c
    /\ \A c \in Co : wait[c] # None => co[c] = "running"

\* The steps that hand the token over, or change where a call is.
LEMMA TokenSteps ==
    ASSUME Next
    PROVE  \/ UNCHANGED tokenVars
           \/ \E g \in Goroutine, c \in Co : Async(g, c)
           \/ \E c \in Co : ModuleCall(c)
           \/ \E c \in Co, p \in Promise : Await(c, p)
           \/ \E c \in Co : Finish(c)
           \/ \E g \in Goroutine, c \in Co : Handback(g, c)
           \/ \E c \in Co : Resumed(c)
           \/ \E c \in Co : RunResume(c)
           \/ Abort
  <1> USE DEF inside, outside
  <1>1. ASSUME NEW g \in Goroutine, Code(g)
        PROVE  UNCHANGED tokenVars \/ \E c \in Co : Async(g, c)
    BY <1>1 DEF Code, NewPromise, Resolve, Reject, SetTimeout, ClearTimeout,
                Spawn, WriteAfterEnd
  <1>2. CASE FinishTask
    BY <1>2 DEF FinishTask, TaskReturn, SpawnReturn, SpawnAsyncReturn, TaskFail
  <1>3. CASE \E s \in Child : Signal(s) \/ \E r \in Results : Post(s, r)
    BY <1>3 DEF Signal, Post
  <1>4. CASE Clock \/ Ended
    BY <1>4 DEF Clock, Ended, vars
  <1>5. CASE \E n \in 1 .. moduleHops : RunReport(n)
    BY <1>5 DEF RunReport
  <1>6. CASE \E t \in timers : FireDue(t)
    BY <1>6 DEF FireDue
  <1>7. CASE ModuleReturn \/ RaiseTick \/ EndDrain \/ Check \/ Leave \/ WaitNext
               \/ TakeInbox \/ RunDelivery \/ EndInbox \/ EndFire \/ EndAbort
    BY <1>7 DEF ModuleReturn, RaiseTick, EndDrain, Check, Leave, WaitNext,
                TakeInbox, RunDelivery, EndInbox, EndFire, EndAbort
  <1> QED BY <1>1, <1>2, <1>3, <1>4, <1>5, <1>6, <1>7 DEF Next, Step

LEMMA TokenInit == Init => TokenInv
  BY NamesAssumption DEF Init, TokenInv, OneTokenHolder, Active, Awake

LEMMA TokenStep ==
    ASSUME TokenType, ParkedType, TokenInv, [Next]_vars
    PROVE  TokenInv'
  <1> USE NamesAssumption DEF TokenType, CoState
  <1>1. CASE UNCHANGED tokenVars
    BY <1>1 DEF tokenVars, TokenInv, OneTokenHolder, Active, Awake
  <1>2. ASSUME NEW g \in Goroutine, NEW c \in Co, Async(g, c)
        PROVE  TokenInv'
    BY <1>2 DEF Async, Runs, TokenInv, OneTokenHolder, Active, Awake
  <1>2a. ASSUME NEW c \in Co, ModuleCall(c)
         PROVE  TokenInv'
    BY <1>2a DEF ModuleCall, Runs, TokenInv, OneTokenHolder, Active, Awake
  <1>3. ASSUME NEW c \in Co, NEW p \in Promise, Await(c, p)
        PROVE  TokenInv'
    BY <1>3 DEF Await, Runs, TokenInv, OneTokenHolder, Active, Awake
  <1>4. ASSUME NEW c \in Co, Finish(c)
        PROVE  TokenInv'
    BY <1>4 DEF Finish, Return, Throw, Panic, Runs, TokenInv, OneTokenHolder,
                Active, Awake
  <1>5. ASSUME NEW g \in Goroutine, NEW c \in Co, Handback(g, c)
        PROVE  TokenInv'
    BY <1>5 DEF Handback, TokenInv, OneTokenHolder, Active, Awake
  <1>6. ASSUME NEW c \in Co, Resumed(c)
        PROVE  TokenInv'
    BY <1>6 DEF Resumed, afterAwait, TokenInv, OneTokenHolder, Active, Awake
  <1>7. ASSUME NEW c \in Co, hand(c), wait[Driver] = None
        PROVE  TokenInv'
    BY <1>7 DEF hand, TokenInv, OneTokenHolder, Active, Awake
  <1>8. CASE \E c \in Co : RunResume(c)
    BY <1>7, <1>8 DEF RunResume, Draining
  <1>9. CASE Abort
    <2>1. parked[Len(parked)] \in Co
      BY <1>9 DEF Abort, ParkedType
    <2> QED BY <1>7, <1>9, <2>1 DEF Abort
  <1> QED BY <1>1, <1>2, <1>2a, <1>3, <1>4, <1>5, <1>6, <1>8, <1>9, TokenSteps
          DEF vars, inside, tokenVars

-----------------------------------------------------------------------------
(* The chain of goroutines that wait for each other.                       *)

(***************************************************************************)
(* From the driver, each goroutine of the chain waits for the next, and    *)
(* the last holds the token.  All that is awake is in it, which TokenInv   *)
(* does not say: two calls could be waiting for each other.                *)
(***************************************************************************)
Chain(s) ==
    /\ s \in Seq(Goroutine) /\ Len(s) \in Nat \ {0}
    /\ s[1] = Driver
    /\ \A i \in 1 .. Len(s) - 1 : wait[s[i]] = s[i + 1]
    /\ wait[s[Len(s)]] = None
    /\ \A c \in Co : Awake(c) <=> \E i \in 1 .. Len(s) : s[i] = c

ChainInv == \E s \in Seq(Goroutine) : Chain(s)

\* When the driver holds the token no call is awake.
LEMMA DriverAlone ==
    ASSUME TokenType, ChainInv, wait[Driver] = None
    PROVE  \A c \in Co : ~Awake(c)
  <1>1. PICK s \in Seq(Goroutine) : Chain(s)
    BY DEF ChainInv
  <1>2. Len(s) = 1
    <2>1. SUFFICES ASSUME Len(s) # 1 PROVE FALSE
      OBVIOUS
    <2>2. 1 \in 1 .. Len(s) - 1 /\ 1 + 1 \in 1 .. Len(s)
      <3>1. \A k \in Nat \ {0} : k # 1 => 1 \in 1 .. k - 1 /\ 1 + 1 \in 1 .. k
        OBVIOUS
      <3> QED BY <1>1, <2>1, <3>1 DEF Chain
    <2>3. wait[s[1]] = s[1 + 1] /\ s[1 + 1] \in Goroutine
      BY <1>1, <2>2 DEF Chain
    <2> QED BY <1>1, <2>3, NamesAssumption DEF Chain
  <1> QED BY <1>1, <1>2, NamesAssumption DEF Chain

LEMMA ChainInit == Init => ChainInv
  <1> SUFFICES ASSUME Init PROVE ChainInv
    OBVIOUS
  <1> DEFINE s == <<Driver>>
  <1>1. s \in Seq(Goroutine) /\ Len(s) = 1 /\ s[1] = Driver
    OBVIOUS
  <1>2. wait[Driver] = None /\ \A c \in Co : ~Awake(c)
    BY DEF Init, Awake
  <1> HIDE DEF s
  <1>3. Chain(s)
    BY <1>1, <1>2, NamesAssumption DEF Chain
  <1> QED BY <1>1, <1>3 DEF ChainInv

\* The holder hands the token to d, which was not awake, and waits for it.
LEMMA ChainPush ==
    ASSUME TokenType, TokenInv, ChainInv, NEW g \in Goroutine, NEW d \in Co,
           Active(g), ~Awake(d), wait' = [wait EXCEPT ![g] = d],
           \A c \in Co : Awake(c)' <=> (Awake(c) \/ c = d)
    PROVE  ChainInv'
  <1>1. PICK s \in Seq(Goroutine) : Chain(s)
    BY DEF ChainInv
  <1> DEFINE t == Append(s, d)
  <1>2. /\ t \in Seq(Goroutine) /\ Len(t) = Len(s) + 1 /\ t[Len(s) + 1] = d
        /\ \A i \in 1 .. Len(s) : t[i] = s[i] /\ s[i] \in Goroutine
        /\ Len(s) \in Nat \ {0}
    BY <1>1 DEF Chain
  <1> HIDE DEF t
  <1>3. s[Len(s)] = g
    <2>1. s[Len(s)] \in Goroutine /\ Active(s[Len(s)])
      BY <1>1, <1>2, NamesAssumption DEF Chain, Active, Awake
    <2> QED BY <2>1 DEF TokenInv, OneTokenHolder
  <1>4. \A i \in 1 .. Len(s) - 1 : s[i] # g
    <2>1. \A i \in 1 .. Len(s) - 1 : wait[s[i]] = s[i + 1] /\ s[i + 1] # None
      BY <1>1, <1>2, NamesAssumption DEF Chain
    <2> QED BY <2>1 DEF Active
  <1>5. wait[d] = None /\ d # g
    BY NamesAssumption DEF TokenInv, Active, Awake
  <1>6. \A i \in 1 .. Len(t) - 1 : wait'[t[i]] = t[i + 1]
    <2> TAKE i \in 1 .. Len(t) - 1
    <2>1. CASE i = Len(s)
      BY <1>2, <1>3, <2>1 DEF TokenType
    <2>2. CASE i # Len(s)
      <3>1. i \in 1 .. Len(s) - 1 /\ i + 1 \in 1 .. Len(s)
        BY <1>2, <2>2
      <3> QED BY <1>1, <1>2, <1>4, <3>1 DEF TokenType, Chain
    <2> QED BY <2>1, <2>2
  <1>7. wait'[t[Len(t)]] = None
    BY <1>2, <1>5 DEF TokenType
  <1>8. \A c \in Co : Awake(c)' <=> \E i \in 1 .. Len(t) : t[i] = c
    <2> TAKE c \in Co
    <2>1. ASSUME Awake(c) PROVE \E i \in 1 .. Len(t) : t[i] = c
      <3>1. PICK i \in 1 .. Len(s) : s[i] = c
        BY <1>1, <2>1 DEF Chain
      <3> QED BY <1>2, <3>1
    <2>2. ASSUME NEW i \in 1 .. Len(t), t[i] = c, c # d PROVE Awake(c)
      <3>1. i \in 1 .. Len(s)
        BY <1>2, <2>2
      <3> QED BY <1>1, <1>2, <2>2, <3>1 DEF Chain
    <2>3. d = t[Len(t)] /\ Len(t) \in 1 .. Len(t)
      BY <1>2
    <2> QED BY <2>1, <2>2, <2>3
  <1>9. Chain(t)'
    BY <1>1, <1>2, <1>6, <1>7, <1>8 DEF Chain
  <1> QED BY <1>2, <1>9 DEF ChainInv

\* The holder c hands the token back to g, which waited for it, and blocks.
LEMMA ChainPop ==
    ASSUME TokenType, TokenInv, ChainInv, NEW g \in Goroutine, NEW c \in Co,
           Active(c), wait[g] = c, wait' = [wait EXCEPT ![g] = None],
           \A d \in Co : Awake(d)' <=> (Awake(d) /\ d # c)
    PROVE  ChainInv'
  <1>1. PICK s \in Seq(Goroutine) : Chain(s)
    BY DEF ChainInv
  <1> DEFINE n == Len(s) - 1
             t == SubSeq(s, 1, n)
  <1>2. s[Len(s)] = c /\ Len(s) \in Nat \ {0}
    <2>1. s[Len(s)] \in Goroutine /\ Active(s[Len(s)]) /\ Len(s) \in Nat \ {0}
      BY <1>1, NamesAssumption DEF Chain, Active, Awake
    <2> QED BY <2>1 DEF TokenInv, OneTokenHolder
  <1>3. Len(s) # 1
    BY <1>1, <1>2, NamesAssumption DEF Chain
  <1>4. n \in Nat \ {0} /\ Len(s) = n + 1
    <2>1. \A k \in Nat \ {0} : k # 1 => k - 1 \in Nat \ {0} /\ k = (k - 1) + 1
      OBVIOUS
    <2> QED BY <1>2, <1>3, <2>1
  <1>5. /\ t \in Seq(Goroutine) /\ Len(t) = n
        /\ \A i \in 1 .. n : t[i] = s[i] /\ s[i] \in Goroutine
    <2>1. s # <<>>
      BY <1>2
    <2> QED BY <1>1, <1>4, <2>1, FrontFacts
  <1> HIDE DEF n, t
  <1>6. s[n] = g
    <2>1. wait[s[n]] = s[n + 1] /\ s[n] \in Goroutine
      BY <1>1, <1>4, <1>5 DEF Chain
    <2> QED BY <1>2, <1>4, <2>1, NamesAssumption DEF TokenInv
  <1>7. \A i \in 1 .. n : wait[s[i]] = s[i + 1]
    BY <1>1, <1>4 DEF Chain
  <1>8. \A i \in 1 .. n - 1 : s[i] # g
    <2> SUFFICES ASSUME NEW i \in 1 .. n - 1, s[i] = g PROVE FALSE
      OBVIOUS
    <2>1. i \in 1 .. n /\ i + 1 \in 1 .. n
      BY <1>4
    <2>2. wait[s[i + 1]] = s[i + 1 + 1] /\ s[i + 1] = c
      BY <1>7, <2>1
    <2>3. s[i + 1 + 1] # None
      BY <1>1, <1>2, <1>4, <2>1, NamesAssumption
    <2> QED BY <2>2, <2>3 DEF Active
  <1>9. \A i \in 1 .. n : s[i] # c
    <2>1. \A i \in 1 .. n : s[i + 1] # None
      BY <1>1, <1>4, NamesAssumption
    <2> QED BY <1>7, <2>1 DEF Active
  <1>10. \A i \in 1 .. n - 1 : wait'[t[i]] = t[i + 1]
    BY <1>4, <1>5, <1>7, <1>8 DEF TokenType
  <1>11. wait'[t[n]] = None
    BY <1>4, <1>5, <1>6 DEF TokenType
  <1>12. \A d \in Co : Awake(d)' <=> \E i \in 1 .. n : t[i] = d
    <2> TAKE d \in Co
    <2>1. ASSUME Awake(d), d # c PROVE \E i \in 1 .. n : t[i] = d
      <3>1. PICK i \in 1 .. Len(s) : s[i] = d
        BY <1>1, <2>1 DEF Chain
      <3>2. i \in 1 .. n
        BY <1>2, <1>4, <2>1, <3>1
      <3> QED BY <1>5, <3>1, <3>2
    <2>2. ASSUME NEW i \in 1 .. n, t[i] = d PROVE Awake(d) /\ d # c
      <3>1. i \in 1 .. Len(s)
        BY <1>4
      <3> QED BY <1>1, <1>5, <1>9, <2>2, <3>1 DEF Chain
    <2> QED BY <2>1, <2>2
  <1>13. Chain(t)'
    BY <1>1, <1>4, <1>5, <1>10, <1>11, <1>12 DEF Chain
  <1> QED BY <1>5, <1>13 DEF ChainInv

LEMMA ChainStep ==
    ASSUME TokenType, ParkedType, TokenInv, ChainInv, [Next]_vars
    PROVE  ChainInv'
  <1> USE NamesAssumption DEF TokenType, CoState
  <1>0. ASSUME UNCHANGED wait, \A c \in Co : Awake(c)' <=> Awake(c)
        PROVE  ChainInv'
    BY <1>0 DEF ChainInv, Chain
  <1>1. CASE UNCHANGED tokenVars
    BY <1>0, <1>1 DEF tokenVars, Awake
  <1>2. ASSUME NEW g \in Goroutine, NEW c \in Co, Async(g, c)
        PROVE  ChainInv'
    <2>1. Active(g) /\ ~Awake(c)
      BY <1>2 DEF Async, Runs, Active, Awake
    <2>2. \A d \in Co : Awake(d)' <=> (Awake(d) \/ d = c)
      BY <1>2 DEF Async, Awake
    <2> QED BY <1>2, <2>1, <2>2, ChainPush DEF Async
  <1>2a. ASSUME NEW c \in Co, ModuleCall(c)
         PROVE  ChainInv'
    <2>1. Active(Driver) /\ ~Awake(c)
      BY <1>2a DEF ModuleCall, Runs, Active, Awake
    <2>2. \A d \in Co : Awake(d)' <=> (Awake(d) \/ d = c)
      BY <1>2a DEF ModuleCall, Awake
    <2> QED BY <1>2a, <2>1, <2>2, ChainPush DEF ModuleCall
  <1>3. ASSUME NEW c \in Co, NEW p \in Promise, Await(c, p)
        PROVE  ChainInv'
    BY <1>0, <1>3 DEF Await, Runs, Awake
  <1>4. ASSUME NEW c \in Co, Finish(c)
        PROVE  ChainInv'
    BY <1>0, <1>4 DEF Finish, Return, Throw, Panic, Runs, Awake
  <1>5. ASSUME NEW g \in Goroutine, NEW c \in Co, Handback(g, c)
        PROVE  ChainInv'
    <2>1. Active(c)
      BY <1>5 DEF Handback, TokenInv, Active
    <2>2. \A d \in Co : Awake(d)' <=> (Awake(d) /\ d # c)
      BY <1>5 DEF Handback, TokenInv, Awake
    <2> QED BY <1>5, <2>1, <2>2, ChainPop DEF Handback
  <1>6. ASSUME NEW c \in Co, Resumed(c)
        PROVE  ChainInv'
    BY <1>0, <1>6 DEF Resumed, afterAwait, Awake
  <1>7. ASSUME NEW c \in Co, hand(c), wait[Driver] = None
        PROVE  ChainInv'
    <2>1. Active(Driver) /\ ~Awake(c)
      BY <1>7 DEF hand, Active, Awake
    <2>2. \A d \in Co : Awake(d)' <=> (Awake(d) \/ d = c)
      BY <1>7 DEF hand, Awake
    <2> QED BY <1>7, <2>1, <2>2, ChainPush DEF hand
  <1>8. CASE \E c \in Co : RunResume(c)
    BY <1>7, <1>8 DEF RunResume, Draining
  <1>9. CASE Abort
    <2>1. parked[Len(parked)] \in Co
      BY <1>9 DEF Abort, ParkedType
    <2> QED BY <1>7, <1>9, <2>1 DEF Abort
  <1> QED BY <1>1, <1>2, <1>2a, <1>3, <1>4, <1>5, <1>6, <1>8, <1>9, TokenSteps
          DEF vars, inside

-----------------------------------------------------------------------------
(* The parked registry.                                                    *)

LEMMA ParkedSteps ==
    ASSUME Next
    PROVE  \/ UNCHANGED parkedVars
           \/ \E c \in Co, p \in Promise : Await(c, p)
           \/ \E c \in Co : RunResume(c)
           \/ Abort
  <1> USE DEF inside, outside
  <1>1. CASE \E g \in Goroutine : Code(g)
    BY <1>1 DEF Code, Async, NewPromise, Resolve, Reject, SetTimeout,
                ClearTimeout, Spawn, WriteAfterEnd
  <1>2. CASE FinishTask
    BY <1>2 DEF FinishTask, TaskReturn, ModuleCall, SpawnReturn,
                SpawnAsyncReturn, TaskFail
  <1>3. CASE \E s \in Child : Signal(s) \/ \E r \in Results : Post(s, r)
    BY <1>3 DEF Signal, Post
  <1>4. CASE Clock \/ Ended
    BY <1>4 DEF Clock, Ended, vars
  <1>5. CASE \E n \in 1 .. moduleHops : RunReport(n)
    BY <1>5 DEF RunReport
  <1>6. CASE \E t \in timers : FireDue(t)
    BY <1>6 DEF FireDue
  <1>7. CASE ModuleReturn \/ RaiseTick \/ EndDrain \/ Check \/ Leave \/ WaitNext
               \/ TakeInbox \/ RunDelivery \/ EndInbox \/ EndFire \/ EndAbort
    BY <1>7 DEF ModuleReturn, RaiseTick, EndDrain, Check, Leave, WaitNext,
                TakeInbox, RunDelivery, EndInbox, EndFire, EndAbort
  <1>8. CASE \E c \in Co : Finish(c) \/ Resumed(c)
    BY <1>8 DEF Finish, Return, Throw, Panic, Resumed
  <1>9. CASE \E g \in Goroutine, c \in Co : Handback(g, c)
    BY <1>9 DEF Handback
  <1> QED BY <1>1, <1>2, <1>3, <1>4, <1>5, <1>6, <1>7, <1>8, <1>9 DEF Next, Step

\* The registry without c, whose place the last call took.
LEMMA UnparkFacts ==
    ASSUME ParkedType, ParkedExact, NEW c \in Suspended, unpark(c)
    PROVE  /\ parkedAt[c] \in 1 .. Len(parked)
           /\ parked' \in Seq(Co) /\ Len(parked') = Len(parked) - 1
           /\ \A i \in 1 .. Len(parked) - 1 :
                parked'[i] = IF i = parkedAt[c] THEN parked[Len(parked)]
                                                ELSE parked[i]
           /\ parkedAt' = [parkedAt EXCEPT ![parked[Len(parked)]] = parkedAt[c]]
           /\ parkedAt' \in [Co -> Nat]
  <1> DEFINE swapped == [parked EXCEPT ![parkedAt[c]] = parked[Len(parked)]]
  <1>1. c \in Co /\ parkedAt[c] \in 1 .. Len(parked) /\ Len(parked) \in Nat
    BY DEF ParkedType, ParkedExact, Suspended
  <1>2. parked[Len(parked)] \in Co
    BY <1>1 DEF ParkedType
  <1>3. swapped \in Seq(Co) /\ Len(swapped) = Len(parked)
    BY <1>1, <1>2 DEF ParkedType
  <1>4. parked' = SubSeq(swapped, 1, Len(parked) - 1)
    BY DEF unpark
  <1> HIDE DEF swapped
  <1>5. /\ parked' \in Seq(Co) /\ Len(parked') = Len(parked) - 1
        /\ \A i \in 1 .. Len(parked) - 1 : parked'[i] = swapped[i]
    BY <1>1, <1>3, <1>4, FrontFacts
  <1>6. \A i \in 1 .. Len(parked) :
            swapped[i] = IF i = parkedAt[c] THEN parked[Len(parked)] ELSE parked[i]
    BY <1>1 DEF swapped, ParkedType
  <1>7. parkedAt' = [parkedAt EXCEPT ![parked[Len(parked)]] = parkedAt[c]]
    BY DEF unpark
  <1>8. parkedAt' \in [Co -> Nat]
    BY <1>1, <1>7 DEF ParkedType
  <1> QED BY <1>1, <1>5, <1>6, <1>7, <1>8, SMTT(30)

LEMMA ParkedStep ==
    ASSUME TokenType, ParkedType, TokenInv, ParkedExact, [Next]_vars
    PROVE  ParkedType' /\ ParkedExact'
  <1> USE NamesAssumption
  <1>1. ASSUME UNCHANGED parkedVars, Suspended' = Suspended
        PROVE  ParkedType' /\ ParkedExact'
    BY <1>1 DEF ParkedType, ParkedExact, parkedVars
  <1>2. ASSUME NEW c \in Co, NEW p \in Promise, Await(c, p)
        PROVE  ParkedType' /\ ParkedExact'
    <2>1. c \notin Suspended /\ Suspended' = Suspended \cup {c}
      BY <1>2 DEF Await, Runs, Suspended, TokenType, CoState
    <2>2. /\ parked' = Append(parked, c)
          /\ parkedAt' = [parkedAt EXCEPT ![c] = Len(parked) + 1]
      BY <1>2 DEF Await, park
    <2> QED BY <2>1, <2>2 DEF ParkedType, ParkedExact, Suspended
  <1>3. ASSUME NEW c \in Co, RunResume(c)
        PROVE  ParkedType' /\ ParkedExact'
    <2>1. c \in Suspended /\ Suspended' = Suspended \ {c} /\ unpark(c)
      BY <1>3 DEF RunResume, hand, Suspended, TokenType, CoState
    <2> DEFINE last == parked[Len(parked)]
    <2>2. /\ parkedAt[c] \in 1 .. Len(parked) /\ Len(parked) \in Nat
          /\ Len(parked') = Len(parked) - 1
          /\ \A i \in 1 .. Len(parked) - 1 :
                parked'[i] = IF i = parkedAt[c] THEN last ELSE parked[i]
          /\ parkedAt' = [parkedAt EXCEPT ![last] = parkedAt[c]]
          /\ ParkedType'
      <3>1. Len(parked) \in Nat
        BY DEF ParkedType
      <3> QED BY <2>1, <3>1, UnparkFacts DEF ParkedType
    <2>3. /\ last \in Suspended /\ parkedAt[last] = Len(parked)
          /\ parked[parkedAt[c]] = c
      BY <2>1, <2>2 DEF ParkedType, ParkedExact
    <2> HIDE DEF last
    <2>4. ASSUME NEW d \in Suspended'
          PROVE  parkedAt'[d] \in DOMAIN parked' /\ parked'[parkedAt'[d]] = d
      <3>1. /\ d \in Co /\ d # c /\ parkedAt[d] \in 1 .. Len(parked)
            /\ parked[parkedAt[d]] = d
        BY <2>1, <2>4 DEF ParkedType, ParkedExact, Suspended
      <3>2. DOMAIN parked' = 1 .. Len(parked) - 1
        BY <2>2 DEF ParkedType
      <3>3. CASE d = last
        BY <2>2, <2>3, <3>1, <3>2, <3>3 DEF ParkedType
      <3>4. CASE d # last
        <4>1. parkedAt'[d] = parkedAt[d]
          BY <2>2, <3>1, <3>4 DEF ParkedType
        <4>2. parkedAt[d] # Len(parked)
          BY <3>1, <3>4 DEF last
        <4>3. parkedAt[d] # parkedAt[c]
          BY <2>3, <3>1
        <4> QED BY <2>2, <3>1, <3>2, <4>1, <4>2, <4>3
      <3> QED BY <3>3, <3>4
    <2>5. ASSUME NEW i \in DOMAIN parked'
          PROVE  parked'[i] \in Suspended' /\ parkedAt'[parked'[i]] = i
      <3>1. i \in 1 .. Len(parked) - 1
        BY <2>2, SMTT(30) DEF ParkedType
      <3>2. parked[i] \in Suspended /\ parkedAt[parked[i]] = i /\ i # Len(parked)
        BY <2>2, <3>1, SMTT(30) DEF ParkedType, ParkedExact
      <3>3. CASE i = parkedAt[c]
        BY <2>1, <2>2, <2>3, <3>1, <3>2, <3>3, SMTT(30) DEF ParkedType, Suspended
      <3>4. CASE i # parkedAt[c]
        BY <2>1, <2>2, <2>3, <3>1, <3>2, <3>4 DEF ParkedType, Suspended
      <3> QED BY <3>3, <3>4
    <2> QED BY <2>2, <2>4, <2>5 DEF ParkedExact
  <1>4. CASE Abort
    <2> DEFINE c == parked[Len(parked)]
    <2>1. c \in Co /\ Len(parked) \in Nat \ {0}
      BY <1>4 DEF Abort, ParkedType
    <2>2. Suspended' = Suspended \ {c}
      BY <1>4, <2>1 DEF Abort, hand, Suspended, TokenType, CoState
    <2>3. /\ parked' = SubSeq(parked, 1, Len(parked) - 1)
          /\ parkedAt' = parkedAt
      BY <1>4 DEF Abort
    <2>4. /\ parked' \in Seq(Co) /\ Len(parked') = Len(parked) - 1
          /\ \A i \in 1 .. Len(parked) - 1 : parked'[i] = parked[i]
      BY <1>4, <2>1, <2>3, FrontFacts DEF Abort, ParkedType
    <2> QED BY <2>1, <2>2, <2>3, <2>4 DEF ParkedType, ParkedExact, Suspended
  <1>5. ASSUME UNCHANGED parkedVars, Next
        PROVE  ParkedType' /\ ParkedExact'
    <2> USE DEF Suspended, TokenType, CoState
    <2>1. CASE UNCHANGED tokenVars
      BY <1>1, <1>5, <2>1 DEF tokenVars
    <2>2. ASSUME NEW g \in Goroutine, NEW d \in Co, Async(g, d)
          PROVE  Suspended' = Suspended
      BY <2>2 DEF Async
    <2>2a. ASSUME NEW d \in Co, ModuleCall(d)
           PROVE  Suspended' = Suspended
      BY <2>2a DEF ModuleCall
    <2>3. ASSUME NEW d \in Co, Finish(d)
          PROVE  Suspended' = Suspended
      BY <2>3 DEF Finish, Return, Throw, Panic, Runs
    <2>4. ASSUME NEW g \in Goroutine, NEW d \in Co, Handback(g, d)
          PROVE  Suspended' = Suspended
      BY <2>4 DEF Handback, TokenInv
    <2>5. ASSUME NEW d \in Co, Resumed(d)
          PROVE  Suspended' = Suspended
      BY <2>5 DEF Resumed, afterAwait
    <2> QED BY <1>1, <1>2, <1>3, <1>4, <1>5, <2>1, <2>2, <2>2a, <2>3, <2>4,
               <2>5, TokenSteps
  <1>6. CASE UNCHANGED vars
    BY <1>1, <1>6 DEF vars, inside, tokenVars, parkedVars, Suspended
  <1> QED BY <1>2, <1>3, <1>4, <1>5, <1>6, ParkedSteps

-----------------------------------------------------------------------------
(* Types.                                                                  *)

\* The promise of a module is its call's.
RootInv == Kind = "module" => root \in Co \cup {None}

LEMMA FailType ==
    ASSUME DriverType, NEW how \in Outcomes, fail(how)
    PROVE  DriverType' /\ root' = root
  BY DEF DriverType, fail, DriverPC, Outcomes

LEMMA TokenTypeStep ==
    ASSUME TokenType, ParkedType, Next
    PROVE  TokenType'
  <1> USE DEF TokenType, CoState
  <1>1. CASE UNCHANGED tokenVars
    BY <1>1 DEF tokenVars
  <1>2. CASE \E g \in Goroutine, c \in Co : Async(g, c)
    BY <1>2 DEF Async
  <1>2a. CASE \E c \in Co : ModuleCall(c)
    BY <1>2a DEF ModuleCall
  <1>3. CASE \E c \in Co, p \in Promise : Await(c, p)
    BY <1>3 DEF Await
  <1>4. CASE \E c \in Co : Finish(c)
    BY <1>4 DEF Finish, Return, Throw, Panic
  <1>5. ASSUME NEW g \in Goroutine, NEW c \in Co, Handback(g, c)
        PROVE  TokenType'
    <2>1. wait' \in [Goroutine -> Co \cup {None}]
      BY <1>5 DEF Handback
    <2>2. co' \in [Co -> CoState] /\ failed' \in [Co -> BOOLEAN]
      BY <1>5 DEF Handback
    <2> QED BY <1>5, <2>1, <2>2 DEF Handback
  <1>6. CASE \E c \in Co : Resumed(c)
    BY <1>6 DEF Resumed, afterAwait
  <1>7. CASE \E c \in Co : RunResume(c)
    BY <1>7 DEF RunResume, hand
  <1>8. CASE Abort
    <2>1. parked[Len(parked)] \in Co
      BY <1>8 DEF Abort, ParkedType
    <2> QED BY <1>8, <2>1 DEF Abort, hand
  <1> QED BY <1>1, <1>2, <1>2a, <1>3, <1>4, <1>5, <1>6, <1>7, <1>8, TokenSteps

LEMMA RestTypeStep ==
    ASSUME TypeOK, RootInv, Next
    PROVE  DriverType' /\ RootInv' /\ PromiseType' /\ OutsideType'
  <1> DEFINE Goal == DriverType' /\ RootInv' /\ PromiseType' /\ OutsideType'
  <1> USE TimeAssumption, TaskTypes DEF inside, outside
  <1>0. DriverType /\ PromiseType /\ OutsideType
    BY DEF TypeOK
  <1>a. ASSUME UNCHANGED driverVars PROVE DriverType' /\ RootInv'
    BY <1>0, <1>a DEF driverVars, DriverType, RootInv
  <1>b. ASSUME UNCHANGED promiseVars PROVE PromiseType'
    BY <1>0, <1>b DEF promiseVars, PromiseType
  <1>c. ASSUME UNCHANGED outside PROVE OutsideType'
    BY <1>0, <1>c DEF timeVars, spawnVars, OutsideType
  <1>d. ASSUME NEW l \in DriverPC, pc' = l, UNCHANGED <<after, outcome, resultVars>>
        PROVE  DriverType' /\ RootInv'
    BY <1>0, <1>d DEF DriverType, RootInv, resultVars
  <1>e. ASSUME NEW how \in Outcomes, fail(how) PROVE DriverType' /\ RootInv'
    BY <1>0, <1>e, FailType DEF RootInv
  <1>1. ASSUME NEW g \in Goroutine, Code(g) PROVE Goal
    <2>1. ASSUME NEW c \in Co, Async(g, c) PROVE Goal
      BY <1>0, <1>a, <1>c, <2>1 DEF Async, PromiseType
    <2>2. ASSUME NEW p \in Made, NewPromise(g, p) PROVE Goal
      BY <1>0, <1>a, <1>c, <2>2 DEF NewPromise, PromiseType
    <2>3. ASSUME NEW p \in Made, Resolve(g, p) PROVE Goal
      BY <1>0, <1>a, <1>c, <2>3, ResolveType DEF Resolve
    <2>4. ASSUME NEW p \in Made, Reject(g, p) PROVE Goal
      BY <1>0, <1>a, <1>c, <2>4, RejectType DEF Reject
    <2>5. ASSUME NEW ms \in Delays, SetTimeout(g, ms) PROVE Goal
      <3>1. timerDelay(ms) \in Nat
        BY DEF timerDelay
      <3> QED BY <1>0, <1>a, <1>b, <2>5, <3>1
              DEF SetTimeout, OutsideType, TimerRec, spawnVars
    <2>6. ASSUME NEW id \in 1 .. seq, ClearTimeout(g, id) PROVE Goal
      BY <1>0, <1>a, <1>b, <2>6 DEF ClearTimeout, OutsideType, spawnVars
    <2>7. ASSUME NEW s \in Child, Spawn(g, s) PROVE Goal
      <3>1. PromiseType'
        BY <1>0, <2>7 DEF Spawn, PromiseType
      <3>2. OutsideType'
        BY <1>0, <2>7 DEF Spawn, OutsideType, timeVars
      <3> QED BY <1>a, <2>7, <3>1, <3>2 DEF Spawn
    <2>8. CASE WriteAfterEnd(g)
      BY <1>0, <1>a, <1>b, <2>8 DEF WriteAfterEnd, OutsideType, timeVars, spawnVars
    <2> QED BY <1>1, <2>1, <2>2, <2>3, <2>4, <2>5, <2>6, <2>7, <2>8 DEF Code
  <1>2. ASSUME NEW c \in Co, Finish(c) PROVE Goal
    BY <1>0, <1>a, <1>b, <1>c, <1>2, ResolveType, RejectType
       DEF Finish, Return, Throw, Panic
  <1>3. ASSUME NEW c \in Co, NEW p \in Promise, Await(c, p) PROVE Goal
    BY <1>0, <1>a, <1>c, <1>3, ThenType DEF Await
  <1>4. CASE FinishTask
    <2>1. CASE TaskReturn
      BY <1>b, <1>c, <1>d, <2>1 DEF TaskReturn, DriverPC
    <2>1a. ASSUME NEW c \in Co, ModuleCall(c) PROVE Goal
      <3>1. PromiseType'
        BY <1>0, <2>1a DEF ModuleCall, PromiseType
      <3> QED BY <1>0, <1>c, <2>1a, <3>1 DEF ModuleCall, DriverType, RootInv
    <2>2. CASE SpawnReturn
      BY <1>0, <1>b, <1>c, <2>2
         DEF SpawnReturn, deliver, busy, pending, DriverType, RootInv, DriverPC
    <2>3. ASSUME NEW p \in Promise, SpawnAsyncReturn(p) PROVE Goal
      <3>1. PromiseType'
        BY <1>0, <2>3, ThenType DEF SpawnAsyncReturn, moduleHops
      <3> QED BY <1>0, <1>c, <2>3, <3>1
              DEF SpawnAsyncReturn, DriverType, RootInv, DriverPC
    <2>4. ASSUME NEW how \in {"throw", "panic"}, TaskFail(how) PROVE Goal
      BY <1>b, <1>c, <1>e, <2>4 DEF TaskFail, Outcomes
    <2> QED BY <1>4, <2>1, <2>1a, <2>2, <2>3, <2>4 DEF FinishTask
  <1>5. ASSUME NEW g \in Goroutine, NEW c \in Co, Handback(g, c) PROVE Goal
    BY <1>a, <1>b, <1>c, <1>e, <1>5
       DEF Handback, Outcomes, driverVars, resultVars
  <1>6. ASSUME NEW c \in Co, Resumed(c) PROVE Goal
    BY <1>a, <1>b, <1>c, <1>6 DEF Resumed
  <1>7. ASSUME NEW c \in Co, RunResume(c) PROVE Goal
    <2>1. Tail(micro) \in Seq(Task)
      BY <1>0, <1>7 DEF RunResume, PromiseType
    <2> QED BY <1>0, <1>a, <1>c, <1>7, <2>1 DEF RunResume, PromiseType
  <1>8. ASSUME NEW n \in 1 .. moduleHops, RunReport(n) PROVE Goal
    <2>1. Tail(micro) \in Seq(Task)
      BY <1>0, <1>8 DEF RunReport, PromiseType
    <2>2. n > 1 => Append(Tail(micro), Report(n - 1)) \in Seq(Task)
      BY <2>1 DEF moduleHops
    <2>3. PromiseType'
      BY <1>0, <1>8, <2>1, <2>2 DEF RunReport, failAfter, PromiseType
    <2>4. DriverType' /\ RootInv'
      BY <1>0, <1>a, <1>e, <1>8
         DEF RunReport, failAfter, deliver, busy, pending, driverVars, DriverType,
             RootInv, Outcomes
    <2> QED BY <1>c, <1>8, <2>3, <2>4 DEF RunReport
  <1>9. ASSUME NEW t \in timers, FireDue(t) PROVE Goal
    BY <1>0, <1>b, <1>9
       DEF FireDue, popped, DriverType, DriverPC, RootInv, resultVars,
           OutsideType, spawnVars
  <1>10. CASE ModuleReturn
    <2>1. root \in Promise /\ Report(moduleHops) \in Task
      BY <1>10 DEF ModuleReturn, RootInv, moduleHops
    <2> QED BY <1>0, <1>c, <1>d, <1>10, <2>1, ThenType DEF ModuleReturn, DriverPC
  <1>11. CASE RaiseTick
    BY <1>0, <1>b, <1>e, <1>11
       DEF RaiseTick, Outcomes, OutsideType, timeVars, spawnVars
  <1>12. CASE EndDrain
    <2>1. PromiseType'
      BY <1>0, <1>12 DEF EndDrain, PromiseType
    <2>2. DriverType' /\ RootInv'
      BY <1>0, <1>e, <1>12
         DEF EndDrain, Outcomes, DriverType, DriverPC, RootInv, resultVars
    <2> QED BY <1>c, <1>12, <2>1, <2>2 DEF EndDrain
  <1>13. CASE Check \/ EndInbox \/ EndFire \/ EndAbort
    BY <1>b, <1>c, <1>d, <1>13 DEF Check, EndInbox, EndFire, EndAbort, DriverPC
  <1>14. CASE Leave
    BY <1>0, <1>b, <1>c, <1>14
       DEF Leave, DriverType, DriverPC, Outcomes, RootInv
  <1>15. CASE WaitNext \/ TakeInbox
    <2>1. OutsideType'
      <3>1. CASE WaitNext
        <4>1. wake' \in BOOLEAN
          BY <1>0, <3>1 DEF WaitNext, OutsideType
        <4> QED BY <1>0, <3>1, <4>1 DEF WaitNext, OutsideType, timeVars
      <3>2. CASE TakeInbox
        BY <1>0, <3>2 DEF TakeInbox, OutsideType, timeVars
      <3> QED BY <1>15, <3>1, <3>2
    <2> QED BY <1>b, <1>d, <1>15, <2>1 DEF WaitNext, TakeInbox, DriverPC
  <1>16. CASE RunDelivery
    <2>1. Head(batch) \in Delivery /\ Tail(batch) \in Seq(Delivery)
      BY <1>0, <1>16 DEF RunDelivery, OutsideType
    <2>2. PromiseType'
      BY <1>0, <1>b, <1>16, <2>1, ResolveType, RejectType
         DEF RunDelivery, Delivery
    <2>3. OutsideType'
      BY <1>0, <1>16, <2>1 DEF RunDelivery, countBack, OutsideType, timeVars
    <2>4. DriverType' /\ RootInv'
      BY <1>0, <1>e, <1>16
         DEF RunDelivery, Outcomes, DriverType, DriverPC, RootInv, resultVars
    <2> QED BY <2>2, <2>3, <2>4
  <1>17. CASE Abort
    BY <1>a, <1>b, <1>c, <1>17 DEF Abort
  <1>18. ASSUME NEW s \in Child, Signal(s) \/ \E r \in Results : Post(s, r)
         PROVE  Goal
    <2>1. OutsideType'
      <3>1. CASE Signal(s)
        BY <1>0, <3>1 DEF Signal, OutsideType, timeVars
      <3>2. ASSUME NEW r \in Results, Post(s, r) PROVE OutsideType'
        <4>1. Append(inbox, [child |-> s, result |-> r]) \in Seq(Delivery)
          BY <1>0 DEF OutsideType, Delivery
        <4> QED BY <1>0, <3>2, <4>1 DEF Post, OutsideType, timeVars
      <3> QED BY <1>18, <3>1, <3>2
    <2> QED BY <1>a, <1>b, <1>18, <2>1 DEF Signal, Post
  <1>19. CASE Clock \/ Ended
    BY <1>0, <1>a, <1>b, <1>c, <1>19
       DEF Clock, Ended, vars, OutsideType, timeVars, spawnVars
  <1> QED BY <1>1, <1>2, <1>3, <1>4, <1>5, <1>6, <1>7, <1>8, <1>9, <1>10, <1>11,
             <1>12, <1>13, <1>14, <1>15, <1>16, <1>17, <1>18, <1>19 DEF Next, Step

-----------------------------------------------------------------------------
(* The inductive invariant, and the theorems that follow from it.          *)

IInv == TypeOK /\ RootInv /\ TokenInv /\ ParkedExact

LEMMA InitIInv == Init => IInv
  <1> SUFFICES ASSUME Init PROVE IInv
    OBVIOUS
  <1>1. TypeOK /\ RootInv
    <2>1. DriverType /\ RootInv
      BY KindAssumption
         DEF Init, Main, Kinds, RootInv, DriverType, DriverPC, Outcomes
    <2>2. TokenType
      BY KindAssumption, NamesAssumption DEF Init, Kinds, TokenType, CoState
    <2>3. PromiseType
      BY KindAssumption DEF Init, Kinds, PromiseType
    <2>4. ParkedType
      BY DEF Init, ParkedType
    <2>5. inbox \in Seq(Delivery) /\ batch \in Seq(Delivery)
      BY DEF Init
    <2>6. tick \in BOOLEAN /\ wake \in BOOLEAN /\ timers \in SUBSET TimerRec
      BY DEF Init
    <2>7. seq \in Nat /\ now \in Nat /\ spawned \in Int
            /\ child \in [Child -> {"unborn", "running", "posted", "done"}]
      BY DEF Init
    <2>8. OutsideType
      BY <2>5, <2>6, <2>7 DEF OutsideType
    <2> QED BY <2>1, <2>2, <2>3, <2>4, <2>8 DEF TypeOK
  <1>2. ParkedExact
    BY DEF Init, ParkedExact, Suspended
  <1> QED BY <1>1, <1>2, TokenInit DEF IInv

LEMMA StepIInv == IInv /\ [Next]_vars => IInv'
  <1> SUFFICES ASSUME IInv, [Next]_vars PROVE IInv'
    OBVIOUS
  <1>1. TypeOK /\ TokenType /\ ParkedType
    BY DEF IInv, TypeOK
  <1>2. TokenInv' /\ ParkedType' /\ ParkedExact'
    BY <1>1, TokenStep, ParkedStep DEF IInv
  <1>3. CASE Next
    BY <1>1, <1>2, <1>3, TokenTypeStep, RestTypeStep DEF IInv, TypeOK
  <1>4. CASE UNCHANGED vars
    BY <1>1, <1>2, <1>4
       DEF IInv, TypeOK, RootInv, vars, driverVars, inside, outside, tokenVars,
           promiseVars, timeVars, spawnVars, DriverType, TokenType, PromiseType,
           OutsideType
  <1> QED BY <1>3, <1>4

THEOREM IInvHolds == Spec => []IInv
  BY InitIInv, StepIInv, PTL DEF Spec

\* Every variable of a domain keeps its type.
THEOREM TypeCorrect == Spec => []TypeOK
  <1>1. IInv => TypeOK
    BY DEF IInv
  <1> QED BY <1>1, IInvHolds, PTL

(***************************************************************************)
(* Exactly one goroutine holds the domain's token, whatever the program    *)
(* does: Async, Await, the microtasks and abort need no lock.              *)
(***************************************************************************)
THEOREM Token == Spec => []OneTokenHolder
  <1>1. IInv => OneTokenHolder
    BY DEF IInv, TokenInv
  <1> QED BY <1>1, IInvHolds, PTL

(***************************************************************************)
(* park, unpark and abort keep the registry exact: no call suspended in an *)
(* Await is missing from it, and each is at its parkedAt.                  *)
(***************************************************************************)
THEOREM Registry == Spec => []ParkedExact
  <1>1. IInv => ParkedExact
    BY DEF IInv
  <1> QED BY <1>1, IInvHolds, PTL

-----------------------------------------------------------------------------
(* The driver and its calls.                                               *)

\* When the driver holds the token no call is awake.
Alone == wait[Driver] = None => \A c \in Co : ~Awake(c)

LEMMA ChainAlone == IInv /\ ChainInv => Alone
  BY DriverAlone DEF IInv, TypeOK, Alone

LEMMA ChainHolds == Spec => [](IInv /\ ChainInv)
  <1>1. IInv /\ ChainInv /\ [Next]_vars => ChainInv'
    BY ChainStep DEF IInv, TypeOK
  <1> QED BY <1>1, ChainInit, IInvHolds, PTL DEF Spec

LEMMA AloneHolds == Spec => [](IInv /\ Alone)
  BY ChainHolds, ChainAlone, PTL

-----------------------------------------------------------------------------
(* The phases.                                                             *)

\* The driver is between two tasks, or in the last drain, Exit's.
Between ==
    \/ pc \in {"check", "wait", "inbox", "batch", "fire"}
    \/ pc = "drain" /\ after = "ended"

\* The domain has failed, or has nothing left to do.
Over == pc \in {"abort", "ended"}

\* A call that raised a Go panic does not go on.
FailedInv == \A c \in Co : failed[c] => co[c] \in {"ending", "done"}

DriverInv ==
    /\ wait[Driver] # None => pc \in {"task", "drain", "abort"} /\ ~Between
    /\ after = "ended" => Main /\ pc \in {"drain", "ended"}

QueuesInv == Between => micro = <<>> /\ rejected = <<>> /\ ~tick

\* Only a call that abort has marked is awake, and it is on its way out.
OverInv ==
    /\ Over => \A c \in Co : Awake(c) =>
                  aborted[c] /\ ~failed[c] /\ co[c] \in {"resumed", "ending"}
    /\ pc = "ended" /\ ~Main => parked = <<>>

PhaseInv == FailedInv /\ DriverInv /\ QueuesInv /\ OverInv

LEMMA PhaseInit == Init => PhaseInv
  BY DEF Init, PhaseInv, FailedInv, DriverInv, QueuesInv, OverInv, Between, Over

\* Outside a task, and outside a drain, no code of the program runs.
LEMMA NoCode ==
    ASSUME IInv, Alone, PhaseInv, Between \/ Over, NEW g \in Goroutine
    PROVE  ~Runs(g)
  <1>1. CASE g = Driver
    BY <1>1 DEF Runs, Between, Over
  <1>2. CASE g # Driver /\ Between
    BY <1>2 DEF Runs, Alone, Awake, PhaseInv, DriverInv
  <1>3. CASE g # Driver /\ Over
    BY <1>3 DEF Runs, Awake, PhaseInv, OverInv
  <1> QED BY <1>1, <1>2, <1>3

LEMMA FailedStep ==
    ASSUME IInv, PhaseInv, [Next]_vars
    PROVE  FailedInv'
  <1> USE NamesAssumption DEF IInv, TypeOK, TokenType, CoState, PhaseInv, FailedInv
  <1>1. CASE UNCHANGED tokenVars
    BY <1>1 DEF tokenVars
  <1>2. ASSUME NEW g \in Goroutine, NEW c \in Co, Async(g, c)
        PROVE  FailedInv'
    BY <1>2 DEF Async
  <1>3. ASSUME NEW c \in Co, ModuleCall(c)
        PROVE  FailedInv'
    BY <1>3 DEF ModuleCall
  <1>4. ASSUME NEW c \in Co, NEW p \in Promise, Await(c, p)
        PROVE  FailedInv'
    BY <1>4 DEF Await, Runs
  <1>5. ASSUME NEW c \in Co, Finish(c)
        PROVE  FailedInv'
    BY <1>5 DEF Finish, Return, Throw, Panic
  <1>6. ASSUME NEW g \in Goroutine, NEW c \in Co, Handback(g, c)
        PROVE  FailedInv'
    BY <1>6 DEF Handback, TokenInv
  <1>7. ASSUME NEW c \in Co, Resumed(c)
        PROVE  FailedInv'
    BY <1>7 DEF Resumed
  <1>8. ASSUME NEW c \in Co, hand(c), UNCHANGED failed
        PROVE  FailedInv'
    BY <1>8 DEF hand
  <1>9. CASE \E c \in Co : RunResume(c)
    BY <1>8, <1>9 DEF RunResume
  <1>10. CASE Abort
    <2>1. parked[Len(parked)] \in Co
      BY <1>10 DEF Abort, ParkedType
    <2> QED BY <1>8, <1>10, <2>1 DEF Abort
  <1> QED BY <1>1, <1>2, <1>3, <1>4, <1>5, <1>6, <1>7, <1>9, <1>10, TokenSteps
          DEF vars, inside

(***************************************************************************)
(* Whatever fails does so in the driver, with no call awake.               *)
(***************************************************************************)
LEMMA FailPhase ==
    ASSUME NEW how, fail(how), Alone', wait'[Driver] = None,
           pc \notin {"ended", "abort"}, DriverInv
    PROVE  DriverInv' /\ QueuesInv' /\ OverInv'
  BY DEF fail, Alone, DriverInv, QueuesInv, OverInv, Between, Over

LEMMA PhaseStep ==
    ASSUME IInv, Alone, Alone', PhaseInv, [Next]_vars
    PROVE  PhaseInv'
  <1> DEFINE Goal == DriverInv /\ QueuesInv /\ OverInv
  <1> SUFFICES Goal'
    BY FailedStep DEF PhaseInv
  <1>0. /\ TokenType /\ DriverType /\ ParkedType
        /\ DriverInv /\ QueuesInv /\ OverInv /\ FailedInv /\ TokenInv
    BY DEF IInv, TypeOK, PhaseInv
  <1> USE NamesAssumption
  <1>1. ASSUME NEW g \in Goroutine, Code(g)
        PROVE  Goal'
    <2>1. Runs(g) /\ ~Between /\ ~Over
      BY <1>1, NoCode
         DEF Code, Async, NewPromise, Resolve, Reject, SetTimeout, ClearTimeout,
             Spawn, WriteAfterEnd
    <2>2. UNCHANGED <<pc, after>> /\ (wait'[Driver] # None => wait[Driver] # None \/ pc = "task")
      BY <1>0, <1>1, <2>1
         DEF Code, Async, NewPromise, Resolve, Reject, SetTimeout, ClearTimeout,
             Spawn, WriteAfterEnd, driverVars, inside, tokenVars, Runs, TokenType
    <2> QED BY <1>0, <2>1, <2>2 DEF DriverInv, QueuesInv, OverInv, Between, Over
  <1>2. ASSUME NEW c \in Co, Finish(c) \/ \E p \in Promise : Await(c, p)
        PROVE  Goal'
    <2>1. Runs(c) /\ ~Between /\ ~Over
      BY <1>2, NoCode DEF Finish, Return, Throw, Panic, Await
    <2>2. UNCHANGED <<pc, after, wait>>
      BY <1>2 DEF Finish, Return, Throw, Panic, Await, driverVars
    <2> QED BY <1>0, <2>1, <2>2 DEF DriverInv, QueuesInv, OverInv, Between, Over
  <1>3. CASE FinishTask \/ ModuleReturn
    <2>1. pc = "task" /\ wait[Driver] = None /\ ~Between /\ ~Over /\ after # "ended"
      BY <1>0, <1>3
         DEF FinishTask, TaskReturn, ModuleCall, SpawnReturn, SpawnAsyncReturn,
             TaskFail, ModuleReturn, Runs, Between, Over, DriverInv
    <2>2. CASE TaskReturn \/ SpawnReturn \/ ModuleReturn
                 \/ \E p \in Promise : SpawnAsyncReturn(p)
      <3>1. pc' = "drain" /\ UNCHANGED <<after, wait>>
        BY <2>2 DEF TaskReturn, SpawnReturn, SpawnAsyncReturn, ModuleReturn,
                    inside, tokenVars
      <3> QED BY <1>0, <2>1, <3>1 DEF DriverInv, QueuesInv, OverInv, Between, Over
    <2>3. CASE \E c \in Co : ModuleCall(c)
      <3>1. UNCHANGED <<pc, after>>
        BY <2>3 DEF ModuleCall
      <3> QED BY <1>0, <2>1, <3>1 DEF DriverInv, QueuesInv, OverInv, Between, Over
    <2>4. ASSUME NEW how \in {"throw", "panic"}, TaskFail(how)
          PROVE  Goal'
      <3>1. fail(how) /\ wait'[Driver] = None
        BY <2>1, <2>4 DEF TaskFail, inside, tokenVars
      <3> QED BY <1>0, <2>1, <3>1, FailPhase
    <2> QED BY <1>3, <2>2, <2>3, <2>4 DEF FinishTask
  <1>4. ASSUME NEW g \in Goroutine, NEW c \in Co, Handback(g, c)
        PROVE  Goal'
    <2>1. UNCHANGED <<micro, rejected, tick, parked>>
      BY <1>4 DEF Handback, promiseVars, parkedVars, outside
    <2>2. wait'[Driver] # None => wait[Driver] # None
      BY <1>0, <1>4 DEF Handback, TokenType
    <2>3. CASE failed[c] /\ g = Driver
      <3>1. Awake(c) /\ ~Over
        BY <1>0, <1>4, <2>3 DEF Handback, TokenInv, OverInv
      <3>2. fail("panic") /\ wait'[Driver] = None
        BY <1>0, <1>4, <2>3 DEF Handback, TokenType
      <3> QED BY <1>0, <3>1, <3>2, FailPhase DEF Over
    <2>4. CASE ~(failed[c] /\ g = Driver)
      <3>1. UNCHANGED driverVars
        BY <1>4, <2>4 DEF Handback
      <3>2. ASSUME Over PROVE \A d \in Co : Awake(d)' =>
                   aborted'[d] /\ ~failed'[d] /\ co'[d] \in {"resumed", "ending"}
        <4>1. Awake(c) /\ ~failed[c]
          BY <1>0, <1>4, <3>2 DEF Handback, TokenInv, OverInv
        <4>2. UNCHANGED <<failed, aborted>>
                /\ \A d \in Co : d # c => co'[d] = co[d]
          BY <1>0, <1>4, <4>1 DEF Handback, TokenType
        <4>3. ~Awake(c)'
          BY <1>0, <1>4, <4>1 DEF Handback, TokenType, Awake
        <4> QED BY <1>0, <3>2, <4>2, <4>3 DEF OverInv, Awake
      <3> QED BY <1>0, <2>1, <2>2, <3>1, <3>2
              DEF DriverInv, QueuesInv, OverInv, Between, Over, driverVars
    <2> QED BY <2>3, <2>4
  <1>5. ASSUME NEW c \in Co, Resumed(c)
        PROVE  Goal'
    <2>1. UNCHANGED <<driverVars, wait, parked, failed, aborted, micro, rejected, tick>>
      BY <1>5 DEF Resumed, parkedVars, promiseVars, outside
    <2>2. Over => \A d \in Co : Awake(d)' =>
             aborted'[d] /\ ~failed'[d] /\ co'[d] \in {"resumed", "ending"}
      BY <1>0, <1>5, <2>1 DEF Resumed, afterAwait, OverInv, Awake, TokenType
    <2> QED BY <1>0, <2>1, <2>2
            DEF DriverInv, QueuesInv, OverInv, Between, Over, driverVars
  <1>6. ASSUME NEW c \in Co, RunResume(c)
        PROVE  Goal'
    <2>1. pc = "drain" /\ UNCHANGED <<pc, after>> /\ ~Between
      BY <1>0, <1>6 DEF RunResume, Draining, driverVars, QueuesInv
    <2> QED BY <1>0, <2>1 DEF DriverInv, QueuesInv, OverInv, Between, Over
  <1>7. CASE RaiseTick
    <2>1. pc = "drain" /\ fail("throw") /\ wait'[Driver] = None
      BY <1>7 DEF RaiseTick, Draining, inside, tokenVars
    <2> QED BY <1>0, <2>1, FailPhase
  <1>8. ASSUME NEW n \in 1 .. moduleHops, RunReport(n)
        PROVE  Goal'
    <2>1. pc = "drain" /\ wait'[Driver] = None /\ ~Between
      BY <1>0, <1>8 DEF RunReport, Draining, tokenVars, QueuesInv
    <2>2. CASE fail("throw")
      BY <1>0, <2>1, <2>2, FailPhase
    <2>3. CASE UNCHANGED <<pc, after>>
      BY <1>0, <2>1, <2>3 DEF DriverInv, QueuesInv, OverInv, Between, Over
    <2> QED BY <1>8, <2>2, <2>3 DEF RunReport, failAfter, driverVars
  <1>9. CASE EndDrain
    <2>1. /\ pc = "drain" /\ wait'[Driver] = None
          /\ micro' = <<>> /\ rejected' = <<>> /\ ~tick'
      BY <1>9 DEF EndDrain, Draining, drained, tokenVars, outside
    <2>2. CASE fail("rejection")
      BY <1>0, <2>1, <2>2, FailPhase
    <2>3. CASE pc' = after /\ UNCHANGED after
      BY <1>0, <2>1, <2>3 DEF DriverInv, QueuesInv, OverInv, Alone, Over, DriverType
    <2> QED BY <1>9, <2>2, <2>3 DEF EndDrain
  <1>10. CASE Check \/ WaitNext \/ TakeInbox \/ EndInbox \/ EndFire
    <2>1. /\ pc \in {"check", "wait", "inbox", "batch", "fire"}
          /\ pc' \in {"check", "wait", "inbox", "batch", "fire"}
          /\ UNCHANGED <<after, wait, micro, rejected, tick>>
      BY <1>10 DEF Check, WaitNext, TakeInbox, EndInbox, EndFire, inside, outside,
                   tokenVars, promiseVars
    <2> QED BY <1>0, <2>1 DEF DriverInv, QueuesInv, OverInv, Between, Over
  <1>11. CASE Leave
    <2>1. /\ pc = "check" /\ UNCHANGED <<wait, micro, rejected, tick>>
          /\ wait[Driver] = None
      BY <1>0, <1>11 DEF Leave, inside, outside, tokenVars, promiseVars,
                         DriverInv, Between
    <2>2. \/ Main /\ pc' = "ended" /\ UNCHANGED after
          \/ Main /\ pc' = "drain" /\ after' = "ended"
          \/ ~Main /\ pc' = "abort" /\ UNCHANGED after
      BY <1>11 DEF Leave
    <2> QED BY <1>0, <2>1, <2>2
            DEF DriverInv, QueuesInv, OverInv, Between, Over, Alone
  <1>12. CASE RunDelivery
    <2>1. pc = "batch" /\ wait'[Driver] = None
      BY <1>12 DEF RunDelivery, tokenVars
    <2>2. CASE fail("panic")
      BY <1>0, <2>1, <2>2, FailPhase
    <2>3. CASE pc' = "drain" /\ after' = "batch"
      BY <1>0, <2>1, <2>3 DEF DriverInv, QueuesInv, OverInv, Between, Over
    <2> QED BY <1>12, <2>2, <2>3 DEF RunDelivery
  <1>13. CASE \E t \in timers : FireDue(t)
    <2>1. pc = "fire" /\ pc' = "task" /\ after' = "fire" /\ UNCHANGED wait
      BY <1>13 DEF FireDue, inside, tokenVars
    <2> QED BY <1>0, <2>1 DEF DriverInv, QueuesInv, OverInv, Between, Over
  <1>14. CASE Abort
    <2> DEFINE c == parked[Len(parked)]
    <2>1. c \in Co
      BY <1>0, <1>14 DEF Abort, ParkedType
    <2>2. pc = "abort" /\ wait[Driver] = None /\ UNCHANGED <<driverVars, failed>>
      BY <1>14 DEF Abort
    <2>3. co[c] = "parked" /\ hand(c) /\ aborted' = [aborted EXCEPT ![c] = TRUE]
      BY <1>14 DEF Abort, hand
    <2> HIDE DEF c
    <2>4. ~failed[c] /\ \A d \in Co : d # c => ~Awake(d)'
      BY <1>0, <2>1, <2>2, <2>3 DEF hand, FailedInv, Alone, Awake, TokenType
    <2>5. \A d \in Co : Awake(d)' =>
             aborted'[d] /\ ~failed'[d] /\ co'[d] \in {"resumed", "ending"}
      BY <1>0, <2>1, <2>2, <2>3, <2>4 DEF hand, TokenType
    <2> QED BY <1>0, <2>2, <2>5
            DEF DriverInv, QueuesInv, OverInv, Between, Over, driverVars
  <1>15. CASE EndAbort
    <2>1. pc = "abort" /\ pc' = "ended" /\ parked' = <<>> /\ wait'[Driver] = None
            /\ UNCHANGED after
      BY <1>15 DEF EndAbort, inside, tokenVars, parkedVars
    <2> QED BY <1>0, <2>1 DEF DriverInv, QueuesInv, OverInv, Between, Over, Alone
  <1>16. CASE UNCHANGED <<driverVars, inside, tick>>
    BY <1>0, <1>16 DEF DriverInv, QueuesInv, OverInv, Between, Over, driverVars,
                       inside, tokenVars, parkedVars, promiseVars, Awake
  <1>17. CASE Clock \/ \E s \in Child : Signal(s) \/ \E r \in Results : Post(s, r)
    BY <1>16, <1>17 DEF Clock, Signal, Post
  <1>18. CASE Ended \/ UNCHANGED vars
    BY <1>16, <1>18 DEF Ended, vars, outside
  <1> QED BY <1>1, <1>2, <1>3, <1>4, <1>5, <1>6, <1>7, <1>8, <1>9, <1>10, <1>11,
             <1>12, <1>13, <1>14, <1>15, <1>17, <1>18 DEF Next, Step

LEMMA PhaseHolds == Spec => [](IInv /\ Alone /\ PhaseInv)
  <1>1. IInv /\ Alone /\ Alone' /\ PhaseInv /\ [Next]_vars => PhaseInv'
    BY PhaseStep
  <1> QED BY <1>1, PhaseInit, AloneHolds, PTL DEF Spec

-----------------------------------------------------------------------------
(* What is over stays over.                                                *)

LEMMA OverStep ==
    ASSUME IInv, Alone, PhaseInv, [Next]_vars, Over
    PROVE  Over' /\ UNCHANGED <<outcome, promiseVars, timers, spawned>>
  <1> USE DEF inside, outside, timeVars, spawnVars, driverVars, Over
  <1>1. \A g \in Goroutine : ~Code(g)
    BY NoCode
       DEF Code, Async, NewPromise, Resolve, Reject, SetTimeout, ClearTimeout,
           Spawn, WriteAfterEnd
  <1>2. \A c \in Co : ~Finish(c) /\ \A p \in Promise : ~Await(c, p)
    BY NoCode DEF Finish, Return, Throw, Panic, Await
  <1>3. ~FinishTask
    BY NoCode
       DEF FinishTask, TaskReturn, ModuleCall, SpawnReturn, SpawnAsyncReturn, TaskFail
  <1>4. ASSUME NEW g \in Goroutine, NEW c \in Co, Handback(g, c)
        PROVE  Over' /\ UNCHANGED <<outcome, promiseVars, timers, spawned>>
    <2>1. ~failed[c]
      BY <1>4 DEF Handback, IInv, TokenInv, PhaseInv, OverInv
    <2> QED BY <1>4, <2>1 DEF Handback
  <1>5. CASE Step
    <2>1. \/ \E g \in Goroutine, c \in Co : Handback(g, c)
          \/ \E c \in Co : Resumed(c)
          \/ Abort \/ EndAbort
      BY <1>5 DEF Step, RunResume, RunReport, RaiseTick, EndDrain, Draining,
                  FireDue, ModuleReturn, Check, Leave, WaitNext, TakeInbox,
                  RunDelivery, EndInbox, EndFire
    <2> QED BY <1>4, <2>1 DEF Resumed, Abort, EndAbort
  <1>6. CASE Clock \/ Ended \/ UNCHANGED vars
               \/ \E s \in Child : Signal(s) \/ \E r \in Results : Post(s, r)
    BY <1>6 DEF Clock, Ended, vars, Signal, Post
  <1> QED BY <1>1, <1>2, <1>3, <1>5, <1>6 DEF Next

-----------------------------------------------------------------------------
(* The theorems.                                                           *)

(***************************************************************************)
(* When the driver asks for pending work, waits, takes its inbox or looks  *)
(* for a timer, no microtask, rejection or tick is left and every call is  *)
(* suspended or has ended.                                                 *)
(***************************************************************************)
THEOREM Drained == Spec => []DrainedBetweenTasks
  <1>1. IInv /\ Alone /\ PhaseInv => DrainedBetweenTasks
    <2> SUFFICES ASSUME IInv, Alone, PhaseInv, Between
                 PROVE  /\ micro = <<>> /\ rejected = <<>> /\ ~tick
                        /\ \A c \in Co : co[c] \in {"unborn", "parked", "done"}
      BY DEF DrainedBetweenTasks, Between
    <2>1. \A c \in Co : ~Awake(c)
      BY DEF PhaseInv, DriverInv, Alone
    <2> QED BY <2>1 DEF IInv, TypeOK, TokenType, CoState, Awake, PhaseInv, QueuesInv
  <1> QED BY <1>1, PhaseHolds, PTL

(***************************************************************************)
(* However a request's or a spawned domain ended, and however many calls   *)
(* were suspended, none of their goroutines is left.                       *)
(***************************************************************************)
THEOREM AllExited == Spec => []NoGoroutineLeft
  <1>1. IInv /\ Alone /\ PhaseInv => NoGoroutineLeft
    <2> SUFFICES ASSUME IInv, Alone, PhaseInv, pc = "ended", ~Main, NEW c \in Co
                 PROVE  co[c] \in {"unborn", "done"}
      BY DEF NoGoroutineLeft
    <2>1. ~Awake(c)
      BY DEF PhaseInv, DriverInv, Alone
    <2>2. c \notin Suspended
      BY DEF PhaseInv, OverInv, IInv, ParkedExact
    <2> QED BY <2>1, <2>2 DEF IInv, TypeOK, TokenType, CoState, Awake, Suspended
  <1> QED BY <1>1, PhaseHolds, PTL

(***************************************************************************)
(* From the moment a domain is abandoned or has ended nothing settles, no  *)
(* microtask is queued or run, and no timer, promise or spawn is made.     *)
(***************************************************************************)
THEOREM NothingRuns == Spec => AbortRunsNothing
  <1>1. IInv /\ Alone /\ PhaseInv /\ [Next]_vars =>
          [(pc = "abort" \/ pc = "ended") =>
              UNCHANGED <<promiseVars, timers, spawned>>]_vars
    BY OverStep DEF Over
  <1> QED BY <1>1, PhaseHolds, PTL DEF Spec, AbortRunsNothing
=============================================================================
