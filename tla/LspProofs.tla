----------------------------- MODULE LspProofs -----------------------------
(***************************************************************************)
(* Proofs about the language server's loops and the queue between them.    *)
(* The token of dynamic_queue.go is in one place, its channel says whether *)
(* there are items, and the queue implements Fifo: for any processes and   *)
(* items, and however often they put, get and are canceled.  A request has *)
(* one answer at most and leaves nothing in the server's tables, for any   *)
(* set of requests.                                                        *)
(***************************************************************************)
EXTENDS MCLsp, FiniteSetTheorems, SequenceTheorems, TLAPS

-----------------------------------------------------------------------------
(* The queue                                                               *)

\* The three invariants are inductive together: who has the token is alone
\* with the items, so that what the channel said when it was taken is still
\* true when it is put back.
IInv == TypeOK /\ OneToken /\ ChannelFits

\* Nobody has the token at first: it is idle, and there are no items.
LEMMA InitIInv == Init => IInv
<1> SUFFICES ASSUME Init PROVE IInv OBVIOUS
<1>1. TypeOK
  <2>1. items \in Seq(Item)
    BY EmptySeq DEF Init
  <2>2. at \in [Process -> {"out", "put", "get", "putting", "getting"}]
    BY DEF Init
  <2> QED BY <2>1, <2>2 DEF Init, TypeOK
<1>2. Holders = {} /\ \A p \in Process : at[p] # "getting"
  BY DEF Init, Holders
<1> QED BY <1>1, <1>2 DEF Init, IInv, OneToken, ChannelFits

\* A process that gives up, is canceled or starts leaves token and items alone.
LEMMA OutsideSteps ==
  ASSUME IInv, NEW p \in Process,
         Cancel(p) \/ (\E i \in Item : StartPut(p, i)) \/ StartGet(p) \/ GiveUp(p)
  PROVE  IInv'
<1>1. TypeOK'
  BY DynamicQueueAssumption DEF IInv, TypeOK, Cancel, StartPut, StartGet, GiveUp, To
<1>2. Holders' = Holders /\ UNCHANGED <<idle, ready, items>>
  BY DEF IInv, TypeOK, Cancel, StartPut, StartGet, GiveUp, To, Holders
<1>3. \A q \in Process : at'[q] = "getting" <=> at[q] = "getting"
  BY DEF IInv, TypeOK, Cancel, StartPut, StartGet, GiveUp, To
<1> QED BY <1>1, <1>2, <1>3 DEF IInv, OneToken, ChannelFits

\* getAny and getReady: the token goes from its channel to p.
LEMMA TakeToken ==
  ASSUME IInv, NEW p \in Process, getAny(p) \/ getReady(p)
  PROVE  IInv'
<1>1. TypeOK'
  BY DEF IInv, TypeOK, getAny, getReady, MayGet, To
<1>2. Holders = {} /\ ~idle' /\ ~ready' /\ UNCHANGED items
  BY DEF IInv, TypeOK, OneToken, getAny, getReady, MayGet
<1>3. Holders' = {p}
  BY <1>2 DEF IInv, TypeOK, getAny, getReady, To, Holders
<1>4. at'[p] = "getting" => items # <<>>
  BY DEF IInv, TypeOK, ChannelFits, getAny, getReady, MayGet, To
<1>5. \A q \in Process : at'[q] = "getting" => q = p
  BY <1>3 DEF Holders
<1> QED BY <1>1, <1>2, <1>3, <1>4, <1>5 DEF IInv, OneToken, ChannelFits

\* Put and Get: p, alone with the items, puts the token where they say.
LEMMA GiveToken ==
  ASSUME IInv, NEW p \in Process, Put(p) \/ Get(p)
  PROVE  IInv'
<1>1. p \in Holders /\ Holders = {p} /\ ~idle /\ ~ready
  BY DEF IInv, OneToken, Put, Get, Holders
<1>2. Holders' = {}
  BY <1>1 DEF IInv, TypeOK, Put, Get, To, Holders
<1>3. \A q \in Process : at'[q] # "getting"
  BY <1>2 DEF Holders
<1>4. CASE Put(p)
  <2>1. items' = Append(items, item[p]) /\ item[p] \in Item /\ items \in Seq(Item)
    BY <1>4 DEF IInv, TypeOK, Put
  <2>2. items' \in Seq(Item) /\ items' # <<>>
    BY <2>1
  <2>3. TypeOK'
    BY <1>4, <2>2 DEF IInv, TypeOK, Put, To
  <2> QED BY <1>1, <1>2, <1>3, <1>4, <2>2, <2>3 DEF IInv, OneToken, ChannelFits, Put
<1>5. CASE Get(p)
  <2>1. items \in Seq(Item) /\ items # <<>> /\ items' = Tail(items)
    BY <1>5 DEF IInv, TypeOK, ChannelFits, Get, Rest
  <2>2. items' \in Seq(Item) /\ Head(items) \in Item /\ (items' = <<>> <=> Len(items') = 0)
    BY <2>1, HeadTailProperties, EmptySeq
  <2>3. idle' = (Len(items') = 0) /\ ready' = ~(Len(items') = 0)
    BY <1>5 DEF Get, Rest, IsEmpty
  <2>4. TypeOK'
    BY <1>5, <2>2, <2>3 DEF IInv, TypeOK, Get, To
  <2> QED BY <1>2, <1>3, <2>2, <2>3, <2>4 DEF IInv, OneToken, ChannelFits
<1> QED BY <1>4, <1>5

\* A step is one of these, or changes nothing.
LEMMA NextIInv == IInv /\ [Next]_vars => IInv'
<1> SUFFICES ASSUME IInv, [Next]_vars PROVE IInv' OBVIOUS
<1>1. CASE UNCHANGED vars
  BY <1>1 DEF vars, IInv, TypeOK, OneToken, ChannelFits, Holders
<1>2. CASE Next
  <2>1. PICK p \in Process : Cancel(p) \/ (\E i \in Item : StartPut(p, i)) \/ StartGet(p) \/ Step(p)
    BY <1>2 DEF Next
  <2> QED BY <2>1, OutsideSteps, TakeToken, GiveToken DEF Step
<1> QED BY <1>1, <1>2

\* The token is in one place, and the channel it is in says whether there are
\* items, in every state of the queue.
THEOREM QueueInvariant == Spec => [](TypeOK /\ OneToken /\ ChannelFits)
  BY InitIInv, NextIInv, PTL DEF Spec, IInv

\* dynamic_queue.go implements the first-in first-out queue: its first state
\* is one of Fifo's, and each step is a Put or a Get of Fifo, or leaves items
\* and results as they are.
THEOREM QueueImplementsFifo == Spec => ImplementsFifo
<1>1. Init => Abstract!Init
  BY DEF Init, Abstract!Init
<1>2. IInv /\ [Next]_vars => [Abstract!Next]_(Abstract!vars)
  <2> SUFFICES ASSUME IInv, Next PROVE Abstract!Next \/ UNCHANGED Abstract!vars
    BY DEF vars, Abstract!vars
  <2>1. PICK p \in Process : Cancel(p) \/ (\E i \in Item : StartPut(p, i)) \/ StartGet(p) \/ Step(p)
    BY DEF Next
  <2>2. CASE Put(p)
    <3>1. item[p] \in Item
      BY DEF IInv, TypeOK
    <3>2. Abstract!Put(item[p])
      BY <2>2 DEF Put, Abstract!Put
    <3> QED BY <3>1, <3>2 DEF Abstract!Next
  <2>3. CASE Get(p)
    <3>1. Abstract!Get(p)
      BY <2>3 DEF IInv, ChannelFits, Get, Rest, Abstract!Get
    <3> QED BY <3>1 DEF Abstract!Next
  <2>4. CASE ~Put(p) /\ ~Get(p)
    BY <2>1, <2>4 DEF Step, Cancel, StartPut, StartGet, getAny, getReady, GiveUp, Abstract!vars
  <2> QED BY <2>2, <2>3, <2>4
<1> QED BY <1>1, <1>2, InitIInv, NextIInv, PTL DEF Spec, ImplementsFifo, Abstract!Spec

-----------------------------------------------------------------------------
(* The loops                                                               *)

Stages == {"none", "queued", "sync", "async", "asking", "waiting", "asked", "answered", "done"}

Incoming == [kind : {"request", "exit"}, of : Request \cup {Nobody}]
Outgoing == [kind : {"result", "error", "ask"}, of : Request]

\* The loops' variables have their types.
LoopTypes ==
    /\ requestQueue \in Seq(Incoming) /\ outgoingQueue \in Seq(Outgoing)
    /\ handled \in Request \cup {Nobody}
    /\ work \in [Request -> Stages] /\ written \in [Request -> Nat]
    /\ pendingClientRequests \subseteq Request /\ pendingServerRequests \subseteq Request

\* What waits to be dispatched is queued once, and nobody works on it.
WaitingInv ==
    /\ \A i \in 1 .. Len(requestQueue) : requestQueue[i].kind = "request" =>
         requestQueue[i].of \in Request /\ work[requestQueue[i].of] = "queued"
    /\ \A i, j \in 1 .. Len(requestQueue) :
         requestQueue[i].kind = "request" /\ requestQueue[j].kind = "request"
           /\ requestQueue[i].of = requestQueue[j].of => i = j

\* An answer is queued once, and is not written before; there is none before
\* the request is answered.
Replied(r) == work[r] \in {"answered", "done"}

AnswersInv ==
    /\ \A r \in Request : written[r] <= 1 /\ (written[r] = 1 => Replied(r))
    /\ \A i \in 1 .. Len(outgoingQueue) : outgoingQueue[i].kind # "ask" =>
         Replied(outgoingQueue[i].of) /\ written[outgoingQueue[i].of] = 0
    /\ \A i, j \in 1 .. Len(outgoingQueue) :
         outgoingQueue[i].kind # "ask" /\ outgoingQueue[j].kind # "ask"
           /\ outgoingQueue[i].of = outgoingQueue[j].of => i = j

\* The tables hold a request for as long as somebody works on it, and the
\* channel of one that asks the client is there until it is answered.
EntriesInv ==
    /\ \A r \in pendingClientRequests : work[r] \notin {"none", "queued", "done"}
    /\ \A r \in pendingServerRequests : work[r] \in {"asking", "waiting", "asked"}
    /\ \A r \in Request : work[r] \in {"asking", "waiting"} =>
         r \in pendingServerRequests \cup answered

\* The dispatcher has a request in hand exactly while it handles it.
HandledInv ==
    /\ (handled # Nobody) <=> (dispatcher = "handle")
    /\ handled # Nobody => work[handled] \in {"sync", "answered"}

LspInv == LoopTypes /\ WaitingInv /\ AnswersInv /\ EntriesInv /\ HandledInv

\* What Append and Tail make of a queue.
LEMMA Appended ==
    ASSUME NEW S, NEW q \in Seq(S), NEW m \in S
    PROVE  /\ Append(q, m) \in Seq(S) /\ Len(q) \in Nat /\ Len(Append(q, m)) = Len(q) + 1
           /\ \A i \in 1 .. Len(q) : Append(q, m)[i] = q[i]
           /\ Append(q, m)[Len(q) + 1] = m
  OBVIOUS

LEMMA Shifted ==
    ASSUME NEW S, NEW q \in Seq(S), q # <<>>
    PROVE  /\ Tail(q) \in Seq(S) /\ Len(q) \in Nat \ {0} /\ Len(Tail(q)) = Len(q) - 1
           /\ \A i \in 1 .. Len(Tail(q)) : i + 1 \in 1 .. Len(q) /\ Tail(q)[i] = q[i + 1]
           /\ Head(q) = q[1] /\ q[1] \in S
<1>1. Len(q) \in Nat \ {0}
  BY EmptySeq
<1> QED
  BY <1>1, HeadTailProperties, ElementOfSeq

\* No loop has begun: the queues are empty and nothing is pending.
LEMMA LspInitInv == Lsp!Init => LspInv
<1> SUFFICES ASSUME Lsp!Init PROVE LspInv
  OBVIOUS
<1>1. requestQueue \in Seq(Incoming) /\ outgoingQueue \in Seq(Outgoing)
  BY EmptySeq DEF Lsp!Init
<1>2. Len(requestQueue) = 0 /\ Len(outgoingQueue) = 0
  BY DEF Lsp!Init
<1>3. LoopTypes
  BY <1>1 DEF LoopTypes, Lsp!Init, Stages
<1> QED
  BY <1>2, <1>3 DEF LspInv, WaitingInv, AnswersInv, EntriesInv, HandledInv, Lsp!Init

\* send of an answer, or its failure, when none was sent before.
LEMMA AnswerSent ==
    ASSUME LoopTypes, AnswersInv, NEW r \in Request, NEW k \in {"result", "error"},
           NEW s \in {"answered", "done"}, ~Replied(r),
           Lsp!Send(Lsp!Message(k, r)), Lsp!Set(r, s), UNCHANGED written
    PROVE  /\ outgoingQueue' \in Seq(Outgoing) /\ work' \in [Request -> Stages]
           /\ AnswersInv'
<1>1. work' = [work EXCEPT ![r] = s] /\ work \in [Request -> Stages]
  BY DEF Lsp!Set, LoopTypes
<1>2. work' \in [Request -> Stages] /\ (\A q \in Request : work'[q] = IF q = r THEN s ELSE work[q])
  BY <1>1 DEF Stages
<1>3. \A q \in Request : Replied(q) => Replied(q)'
  BY <1>2 DEF Replied
<1>4. written \in [Request -> Nat] /\ written' = written
  BY DEF LoopTypes
<1>5. written[r] = 0
  BY <1>4 DEF AnswersInv
<1>6. \A q \in Request : written'[q] <= 1 /\ (written'[q] = 1 => Replied(q)')
  BY <1>3, <1>4 DEF AnswersInv
<1>7. \A i \in 1 .. Len(outgoingQueue) :
        outgoingQueue[i].kind # "ask" => outgoingQueue[i].of \in Request /\ outgoingQueue[i].of # r
  <2> SUFFICES ASSUME NEW i \in 1 .. Len(outgoingQueue), outgoingQueue[i].kind # "ask"
               PROVE  outgoingQueue[i].of \in Request /\ outgoingQueue[i].of # r
    OBVIOUS
  <2>1. outgoingQueue[i] \in Outgoing
    BY ElementOfSeq DEF LoopTypes
  <2> QED
    BY <2>1 DEF Outgoing, AnswersInv
<1>8. CASE backgroundCtx
  <2>1. outgoingQueue' = outgoingQueue
    BY <1>8 DEF Lsp!Send
  <2> QED
    BY <1>2, <1>3, <1>4, <1>6, <1>7, <2>1 DEF AnswersInv, LoopTypes
<1>9. CASE ~backgroundCtx
  <2> DEFINE m == Lsp!Message(k, r)
  <2>1. outgoingQueue' = Append(outgoingQueue, m)
    BY <1>9 DEF Lsp!Send
  <2>2. m \in Outgoing /\ m.kind = k /\ m.of = r
    BY DEF Lsp!Message, Outgoing
  <2> HIDE DEF m
  <2>3. /\ outgoingQueue' \in Seq(Outgoing) /\ Len(outgoingQueue) \in Nat
        /\ Len(outgoingQueue') = Len(outgoingQueue) + 1
        /\ \A i \in 1 .. Len(outgoingQueue) : outgoingQueue'[i] = outgoingQueue[i]
        /\ outgoingQueue'[Len(outgoingQueue) + 1] = m
    BY <2>1, <2>2, Appended DEF LoopTypes
  <2>4. Replied(r)'
    BY <1>2 DEF Replied
  <2>5. ASSUME NEW i \in 1 .. Len(outgoingQueue'), outgoingQueue'[i].kind # "ask"
        PROVE  work'[outgoingQueue'[i].of] \in {"answered", "done"} /\ written'[outgoingQueue'[i].of] = 0
    <3>1. CASE i = Len(outgoingQueue) + 1
      <4>1. outgoingQueue'[i].of = r
        BY <2>2, <2>3, <3>1
      <4> QED
        BY <4>1, <2>4, <1>4, <1>5 DEF Replied
    <3>2. CASE i # Len(outgoingQueue) + 1
      <4>1. i \in 1 .. Len(outgoingQueue) /\ outgoingQueue'[i] = outgoingQueue[i]
        BY <2>3, <3>2
      <4>2. Replied(outgoingQueue[i].of) /\ written[outgoingQueue[i].of] = 0 /\ outgoingQueue[i].of \in Request
        BY <4>1, <2>5, <1>7 DEF AnswersInv
      <4> QED
        BY <4>1, <4>2, <1>2, <1>4 DEF Replied
    <3> QED
      BY <3>1, <3>2
  <2>6. ASSUME NEW i \in 1 .. Len(outgoingQueue'), NEW j \in 1 .. Len(outgoingQueue'),
               outgoingQueue'[i].kind # "ask", outgoingQueue'[j].kind # "ask",
               outgoingQueue'[i].of = outgoingQueue'[j].of
        PROVE  i = j
    <3>1. CASE i = Len(outgoingQueue) + 1 \/ j = Len(outgoingQueue) + 1
      BY <2>2, <2>3, <2>6, <3>1, <1>7
    <3>2. CASE i # Len(outgoingQueue) + 1 /\ j # Len(outgoingQueue) + 1
      <4>1. i \in 1 .. Len(outgoingQueue) /\ j \in 1 .. Len(outgoingQueue)
        BY <2>3, <3>2
      <4> QED
        BY <4>1, <2>3, <2>6 DEF AnswersInv
    <3> QED
      BY <3>1, <3>2
  <2> QED
    BY <1>2, <1>6, <2>3, <2>5, <2>6 DEF AnswersInv, Replied
<1> QED
  BY <1>8, <1>9

\* A request that has no answer yet, and gets none by the step.
LEMMA NoAnswer ==
    ASSUME LoopTypes, AnswersInv, NEW r \in Request, NEW s \in Stages, ~Replied(r) \/ s = "done",
           Lsp!Set(r, s), UNCHANGED <<outgoingQueue, written>>
    PROVE  work' \in [Request -> Stages] /\ AnswersInv'
<1>1. work' = [work EXCEPT ![r] = s] /\ work \in [Request -> Stages]
  BY DEF Lsp!Set, LoopTypes
<1>2. work' \in [Request -> Stages] /\ (\A q \in Request : work'[q] = IF q = r THEN s ELSE work[q])
  BY <1>1
<1>3. \A q \in Request : Replied(q) => Replied(q)'
  BY <1>2 DEF Replied
<1>4. \A i \in 1 .. Len(outgoingQueue) : outgoingQueue[i].of \in Request
  <2>1. \A i \in 1 .. Len(outgoingQueue) : outgoingQueue[i] \in Outgoing
    BY ElementOfSeq DEF LoopTypes
  <2> QED
    BY <2>1 DEF Outgoing
<1> QED
  BY <1>2, <1>3, <1>4 DEF AnswersInv, Replied

\* What waits to be dispatched does so while others are worked on.
LEMMA StillWaiting ==
    ASSUME LoopTypes, WaitingInv, NEW r \in Request, NEW s \in Stages, work[r] # "queued",
           Lsp!Set(r, s), UNCHANGED requestQueue
    PROVE  WaitingInv'
<1>1. \A q \in Request : work'[q] = IF q = r THEN s ELSE work[q]
  BY DEF Lsp!Set, LoopTypes
<1> QED
  BY <1>1 DEF WaitingInv

\* readLoop: a request is answered at once, or waits.
LEMMA KeepsReadRequest ==
    ASSUME LspInv, NEW r \in Request, Lsp!ReadRequest(r)
    PROVE  LspInv'
<1> USE DEF LspInv
<1>1. /\ work[r] = "none" /\ ~Replied(r)
      /\ UNCHANGED <<dispatcher, handled, pendingClientRequests, pendingServerRequests, answered, written>>
  BY DEF Lsp!ReadRequest, Lsp!loops, Lsp!client, Replied
<1>2. r \notin pendingClientRequests /\ r \notin pendingServerRequests /\ handled # r
  BY <1>1, LspAssumption DEF EntriesInv, HandledInv
<1>3. CASE /\ requestQueue' = Append(requestQueue, Lsp!Message("request", r))
           /\ Lsp!Set(r, "queued") /\ outgoingQueue' = outgoingQueue
  <2> DEFINE m == Lsp!Message("request", r)
  <2>1. requestQueue' = Append(requestQueue, m) /\ Lsp!Set(r, "queued") /\ outgoingQueue' = outgoingQueue
    BY <1>3
  <2>2. m \in Incoming /\ m.kind = "request" /\ m.of = r
    BY DEF Lsp!Message, Incoming
  <2> HIDE DEF m
  <2>3. /\ requestQueue' \in Seq(Incoming) /\ Len(requestQueue) \in Nat
        /\ Len(requestQueue') = Len(requestQueue) + 1
        /\ \A i \in 1 .. Len(requestQueue) : requestQueue'[i] = requestQueue[i]
        /\ requestQueue'[Len(requestQueue) + 1] = m
    BY <2>1, <2>2, Appended DEF LoopTypes
  <2>4. \A q \in Request : work'[q] = IF q = r THEN "queued" ELSE work[q]
    BY <2>1 DEF Lsp!Set, LoopTypes
  <2>5. work' \in [Request -> Stages] /\ AnswersInv'
    BY <1>1, <2>1, NoAnswer DEF Stages
  <2>6. LoopTypes'
    BY <1>1, <2>1, <2>3, <2>5 DEF LoopTypes
  <2>7. ASSUME NEW i \in 1 .. Len(requestQueue'), requestQueue'[i].kind = "request"
        PROVE  requestQueue'[i].of \in Request /\ work'[requestQueue'[i].of] = "queued"
    <3>1. CASE i = Len(requestQueue) + 1
      BY <3>1, <2>2, <2>3, <2>4
    <3>2. CASE i # Len(requestQueue) + 1
      <4>1. i \in 1 .. Len(requestQueue) /\ requestQueue'[i] = requestQueue[i]
        BY <2>3, <3>2
      <4> QED
        BY <4>1, <2>4, <2>7 DEF WaitingInv
    <3> QED
      BY <3>1, <3>2
  <2>8. \A i \in 1 .. Len(requestQueue) : requestQueue[i].kind = "request" => requestQueue[i].of # r
    BY <1>1 DEF WaitingInv
  <2>9. ASSUME NEW i \in 1 .. Len(requestQueue'), NEW j \in 1 .. Len(requestQueue'),
               requestQueue'[i].kind = "request", requestQueue'[j].kind = "request",
               requestQueue'[i].of = requestQueue'[j].of
        PROVE  i = j
    <3>1. CASE i = Len(requestQueue) + 1 \/ j = Len(requestQueue) + 1
      BY <2>2, <2>3, <2>8, <2>9, <3>1
    <3>2. CASE i # Len(requestQueue) + 1 /\ j # Len(requestQueue) + 1
      <4>1. i \in 1 .. Len(requestQueue) /\ j \in 1 .. Len(requestQueue)
        BY <2>3, <3>2
      <4> QED
        BY <4>1, <2>3, <2>9 DEF WaitingInv
    <3> QED
      BY <3>1, <3>2
  <2>10. WaitingInv'
    BY <2>7, <2>9 DEF WaitingInv
  <2>11. EntriesInv'
    BY <1>1, <1>2, <2>4 DEF EntriesInv, LoopTypes
  <2>12. HandledInv'
    BY <1>1, <1>2, <2>4 DEF HandledInv, LoopTypes
  <2> QED
    BY <2>5, <2>6, <2>10, <2>11, <2>12
<1>4. CASE /\ \E k \in {"result", "error"} : Lsp!Send(Lsp!Message(k, r))
           /\ Lsp!Set(r, "done") /\ requestQueue' = requestQueue
  <2>1. PICK k \in {"result", "error"} : Lsp!Send(Lsp!Message(k, r))
    BY <1>4
  <2>2. Lsp!Set(r, "done") /\ requestQueue' = requestQueue
    BY <1>4
  <2>3. outgoingQueue' \in Seq(Outgoing) /\ work' \in [Request -> Stages] /\ AnswersInv'
    BY <1>1, <2>1, <2>2, AnswerSent
  <2>4. \A q \in Request : work'[q] = IF q = r THEN "done" ELSE work[q]
    BY <2>2 DEF Lsp!Set, LoopTypes
  <2>5. LoopTypes'
    BY <1>1, <2>2, <2>3 DEF LoopTypes
  <2>6. WaitingInv'
    BY <1>1, <2>2, StillWaiting DEF Stages
  <2>7. EntriesInv'
    BY <1>1, <1>2, <2>4 DEF EntriesInv, LoopTypes
  <2>8. HandledInv'
    BY <1>1, <1>2, <2>4 DEF HandledInv, LoopTypes
  <2> QED
    BY <2>3, <2>5, <2>6, <2>7, <2>8
<1> QED
  BY <1>3, <1>4 DEF Lsp!ReadRequest

\* readLoop: exit waits like a request, and is none.
LEMMA KeepsReadExit ==
    ASSUME LspInv, Lsp!ReadExit
    PROVE  LspInv'
<1> USE DEF LspInv
<1> DEFINE m == Lsp!Message("exit", Nobody)
<1>1. /\ requestQueue' = Append(requestQueue, m)
      /\ UNCHANGED <<dispatcher, outgoingQueue, handled, work, pendingClientRequests,
                     pendingServerRequests, answered, written>>
  BY DEF Lsp!ReadExit, Lsp!loops, Lsp!client
<1>2. m \in Incoming /\ m.kind = "exit"
  BY DEF Lsp!Message, Incoming
<1> HIDE DEF m
<1>3. /\ requestQueue' \in Seq(Incoming) /\ Len(requestQueue) \in Nat
      /\ Len(requestQueue') = Len(requestQueue) + 1
      /\ \A i \in 1 .. Len(requestQueue) : requestQueue'[i] = requestQueue[i]
      /\ requestQueue'[Len(requestQueue) + 1] = m
  BY <1>1, <1>2, Appended DEF LoopTypes
<1>4. \A i \in 1 .. Len(requestQueue') : requestQueue'[i].kind = "request" =>
        i \in 1 .. Len(requestQueue) /\ requestQueue'[i] = requestQueue[i]
  BY <1>2, <1>3
<1>5. WaitingInv'
  BY <1>1, <1>4 DEF WaitingInv
<1>6. LoopTypes' /\ AnswersInv' /\ EntriesInv' /\ HandledInv'
  BY <1>1, <1>3 DEF LoopTypes, AnswersInv, Replied, EntriesInv, HandledInv
<1> QED
  BY <1>5, <1>6

\* readLoop: the client's answer goes into the channel that was registered.
LEMMA KeepsReadResponse ==
    ASSUME LspInv, NEW r \in Request, Lsp!ReadResponse(r)
    PROVE  LspInv'
<1> USE DEF LspInv
<1>1. /\ answered' = answered \cup (pendingServerRequests \cap {r})
      /\ pendingServerRequests' = pendingServerRequests \ {r}
      /\ UNCHANGED <<dispatcher, requestQueue, outgoingQueue, handled, work, pendingClientRequests, written>>
  BY DEF Lsp!ReadResponse, Lsp!loops
<1>2. LoopTypes' /\ WaitingInv' /\ AnswersInv' /\ HandledInv'
  BY <1>1 DEF LoopTypes, WaitingInv, AnswersInv, Replied, HandledInv
<1>3. EntriesInv'
  BY <1>1 DEF EntriesInv
<1> QED
  BY <1>2, <1>3

\* dispatchLoop: the first message leaves the queue, and is handled if it is a request.
LEMMA KeepsDispatch ==
    ASSUME LspInv, Lsp!Dispatch
    PROVE  LspInv'
<1> USE DEF LspInv
<1>1. /\ dispatcher = "get" /\ requestQueue # <<>> /\ requestQueue' = Tail(requestQueue)
      /\ UNCHANGED <<outgoingQueue, pendingServerRequests, answered, written>>
  BY DEF Lsp!Dispatch, Lsp!client
<1>2. handled = Nobody
  BY <1>1 DEF HandledInv
<1>3. /\ requestQueue' \in Seq(Incoming) /\ Len(requestQueue) \in Nat \ {0}
      /\ Len(requestQueue') = Len(requestQueue) - 1
      /\ \A i \in 1 .. Len(requestQueue') :
           i + 1 \in 1 .. Len(requestQueue) /\ requestQueue'[i] = requestQueue[i + 1]
      /\ Head(requestQueue) = requestQueue[1]
  BY <1>1, Shifted DEF LoopTypes
<1>4. 1 \in 1 .. Len(requestQueue)
  BY <1>3
<1>5. \A i, j \in 1 .. Len(requestQueue') :
        requestQueue'[i].kind = "request" /\ requestQueue'[j].kind = "request"
          /\ requestQueue'[i].of = requestQueue'[j].of => i = j
  <2> SUFFICES ASSUME NEW i \in 1 .. Len(requestQueue'), NEW j \in 1 .. Len(requestQueue'),
                      requestQueue'[i].kind = "request", requestQueue'[j].kind = "request",
                      requestQueue'[i].of = requestQueue'[j].of
               PROVE  i = j
    OBVIOUS
  <2>1. i + 1 = j + 1
    BY <1>3, SMTT(30) DEF WaitingInv
  <2> QED
    BY <2>1, <1>3
<1>6. CASE Head(requestQueue).kind = "exit"
  <2>1. dispatcher' = "top" /\ UNCHANGED <<handled, work, pendingClientRequests>>
    BY <1>6 DEF Lsp!Dispatch
  <2>2. WaitingInv'
    BY <1>3, <1>5, <2>1 DEF WaitingInv
  <2>3. LoopTypes' /\ AnswersInv' /\ EntriesInv'
    BY <1>1, <1>3, <2>1 DEF LoopTypes, AnswersInv, Replied, EntriesInv
  <2>4. HandledInv'
    BY <1>2, <2>1 DEF HandledInv
  <2> QED
    BY <2>2, <2>3, <2>4
<1>7. CASE Head(requestQueue).kind = "request"
  <2>1. PICK r : r = requestQueue[1].of
    OBVIOUS
  <2>2. r \in Request /\ work[r] = "queued" /\ ~Replied(r) /\ r # Nobody
    BY <1>3, <1>4, <1>7, <2>1, LspAssumption DEF WaitingInv, Replied
  <2>3. /\ pendingClientRequests' = pendingClientRequests \cup {r}
        /\ handled' = r /\ Lsp!Set(r, "sync") /\ dispatcher' = "handle"
    BY <1>3, <1>7, <2>1 DEF Lsp!Dispatch
  <2>4. work' \in [Request -> Stages] /\ AnswersInv'
    BY <1>1, <2>2, <2>3, NoAnswer DEF Stages
  <2>5. \A q \in Request : work'[q] = IF q = r THEN "sync" ELSE work[q]
    BY <2>3, <2>2 DEF Lsp!Set, LoopTypes
  <2>6. \A i \in 1 .. Len(requestQueue') : requestQueue'[i].kind = "request" =>
          requestQueue'[i].of \in Request /\ requestQueue'[i].of # r
            /\ work[requestQueue'[i].of] = "queued"
    <3> SUFFICES ASSUME NEW i \in 1 .. Len(requestQueue'), requestQueue'[i].kind = "request"
                 PROVE  requestQueue'[i].of \in Request /\ requestQueue'[i].of # r
                          /\ work[requestQueue'[i].of] = "queued"
      OBVIOUS
    <3>1. i + 1 \in 1 .. Len(requestQueue) /\ requestQueue'[i] = requestQueue[i + 1] /\ i + 1 # 1
      BY <1>3
    <3>2. requestQueue[i + 1].of # r
      BY <3>1, <1>3, <1>4, <1>7, <2>1 DEF WaitingInv
    <3> QED
      BY <3>1, <3>2 DEF WaitingInv
  <2>7. WaitingInv'
    BY <1>5, <2>5, <2>6 DEF WaitingInv
  <2>8. LoopTypes'
    BY <1>1, <1>3, <2>2, <2>3, <2>4 DEF LoopTypes
  <2>9. EntriesInv'
    BY <1>1, <2>2, <2>3, <2>5 DEF EntriesInv, LoopTypes
  <2>10. HandledInv'
    BY <2>2, <2>3, <2>5 DEF HandledInv
  <2> QED
    BY <2>4, <2>7, <2>8, <2>9, <2>10
<1> QED
  BY <1>6, <1>7 DEF Lsp!Dispatch

\* An answer is sent by who works on the request, and by nobody after him.
LEMMA KeepsAnswer ==
    ASSUME LspInv, NEW r \in Request, work[r] \in {"sync", "async", "asked"}, Lsp!Answer(r),
           pendingServerRequests' = pendingServerRequests \ {r},
           UNCHANGED <<dispatcher, requestQueue, handled, pendingClientRequests, answered, written>>
    PROVE  LspInv'
<1> USE DEF LspInv
<1>1. PICK k \in {"result", "error"} : Lsp!Send(Lsp!Message(k, r))
  BY DEF Lsp!Answer, Lsp!AnswerKinds
<1>2. Lsp!Set(r, "answered") /\ ~Replied(r)
  BY DEF Lsp!Answer, Replied
<1>3. outgoingQueue' \in Seq(Outgoing) /\ work' \in [Request -> Stages] /\ AnswersInv'
  BY <1>1, <1>2, AnswerSent
<1>4. \A q \in Request : work'[q] = IF q = r THEN "answered" ELSE work[q]
  BY <1>2 DEF Lsp!Set, LoopTypes
<1>5. LoopTypes'
  BY <1>3 DEF LoopTypes
<1>6. WaitingInv'
  BY <1>2, StillWaiting DEF Stages
<1>7. EntriesInv'
  BY <1>4 DEF EntriesInv, LoopTypes
<1>8. HandledInv'
  BY <1>4 DEF HandledInv, LoopTypes
<1> QED
  BY <1>3, <1>5, <1>6, <1>7, <1>8

\* The handler's synchronous part answers, or leaves the rest to a goroutine.
LEMMA KeepsHandleSync ==
    ASSUME LspInv, Lsp!HandleSync
    PROVE  LspInv'
<1> USE DEF LspInv
<1>1. PICK r : r = handled
  OBVIOUS
<1>2. r \in Request /\ r # Nobody /\ work[r] = "sync" /\ ~Replied(r)
  BY <1>1 DEF Lsp!HandleSync, HandledInv, LoopTypes, Replied
<1>3. r \notin pendingServerRequests
  BY <1>2 DEF EntriesInv
<1>4. UNCHANGED <<requestQueue, pendingClientRequests, pendingServerRequests, answered, written>>
  BY DEF Lsp!HandleSync, Lsp!client
<1>5. CASE Lsp!Answer(r) /\ UNCHANGED <<dispatcher, handled>>
  BY <1>2, <1>3, <1>4, <1>5, KeepsAnswer
<1>6. CASE Lsp!Set(r, "async") /\ dispatcher' = "top" /\ handled' = Nobody /\ UNCHANGED outgoingQueue
  <2>1. work' \in [Request -> Stages] /\ AnswersInv'
    BY <1>2, <1>4, <1>6, NoAnswer DEF Stages
  <2>2. \A q \in Request : work'[q] = IF q = r THEN "async" ELSE work[q]
    BY <1>2, <1>6 DEF Lsp!Set, LoopTypes
  <2>3. LoopTypes'
    BY <1>4, <1>6, <2>1 DEF LoopTypes
  <2>4. WaitingInv'
    BY <1>2, <1>4, <1>6, StillWaiting DEF Stages
  <2>5. EntriesInv'
    BY <1>2, <1>3, <1>4, <2>2 DEF EntriesInv, LoopTypes
  <2>6. HandledInv'
    BY <1>6 DEF HandledInv
  <2> QED
    BY <2>1, <2>3, <2>4, <2>5, <2>6
<1> QED
  BY <1>1, <1>5, <1>6 DEF Lsp!HandleSync

\* The goroutine answers, or registers the channel for what it asks the client.
LEMMA KeepsDoAsyncWork ==
    ASSUME LspInv, NEW r \in Request, Lsp!DoAsyncWork(r)
    PROVE  LspInv'
<1> USE DEF LspInv
<1>1. /\ work[r] = "async" /\ ~Replied(r)
      /\ UNCHANGED <<dispatcher, requestQueue, handled, pendingClientRequests, answered, written>>
  BY DEF Lsp!DoAsyncWork, Lsp!loops, Replied
<1>2. r \notin pendingServerRequests /\ handled # r
  BY <1>1, LspAssumption DEF EntriesInv, HandledInv
<1>3. CASE Lsp!Answer(r) /\ UNCHANGED pendingServerRequests
  BY <1>1, <1>2, <1>3, KeepsAnswer
<1>4. CASE pendingServerRequests' = Lsp!Registered(r) /\ Lsp!Set(r, "asking") /\ UNCHANGED outgoingQueue
  <2>1. work' \in [Request -> Stages] /\ AnswersInv'
    BY <1>1, <1>4, NoAnswer DEF Stages
  <2>2. \A q \in Request : work'[q] = IF q = r THEN "asking" ELSE work[q]
    BY <1>4 DEF Lsp!Set, LoopTypes
  <2>3. LoopTypes'
    BY <1>1, <1>4, <2>1 DEF LoopTypes, Lsp!Registered
  <2>4. WaitingInv'
    BY <1>1, <1>4, StillWaiting DEF Stages
  <2>5. EntriesInv'
    BY <1>1, <1>4, <2>2 DEF EntriesInv, LoopTypes, Lsp!Registered
  <2>6. HandledInv'
    BY <1>1, <1>2, <2>2 DEF HandledInv, LoopTypes
  <2> QED
    BY <2>1, <2>3, <2>4, <2>5, <2>6
<1> QED
  BY <1>3, <1>4 DEF Lsp!DoAsyncWork

\* What is asked of the client is no answer to it.
LEMMA KeepsSendClientRequest ==
    ASSUME LspInv, NEW r \in Request, Lsp!SendClientRequest(r)
    PROVE  LspInv'
<1> USE DEF LspInv
<1> DEFINE m == Lsp!Message("ask", r)
           s == IF backgroundCtx THEN "asked" ELSE "waiting"
<1>1. /\ work[r] = "asking" /\ ~Replied(r)
      /\ outgoingQueue' = (IF backgroundCtx THEN outgoingQueue ELSE Append(outgoingQueue, m))
      /\ Lsp!Set(r, s) /\ s \in {"asked", "waiting"}
      /\ UNCHANGED <<dispatcher, requestQueue, handled, pendingClientRequests, pendingServerRequests,
                     answered, written>>
  BY DEF Lsp!SendClientRequest, Lsp!Send, Lsp!loops, Lsp!client, Replied
<1>2. m \in Outgoing /\ m.kind = "ask"
  BY DEF Lsp!Message, Outgoing
<1> HIDE DEF m, s
<1>3. \A q \in Request : work'[q] = IF q = r THEN s ELSE work[q]
  BY <1>1 DEF Lsp!Set, LoopTypes
<1>4. /\ outgoingQueue' \in Seq(Outgoing)
      /\ \A i \in 1 .. Len(outgoingQueue') : outgoingQueue'[i].kind # "ask" =>
           i \in 1 .. Len(outgoingQueue) /\ outgoingQueue'[i] = outgoingQueue[i]
  <2>1. CASE backgroundCtx
    BY <1>1, <2>1 DEF LoopTypes
  <2>2. CASE ~backgroundCtx
    <3>1. outgoingQueue' = Append(outgoingQueue, m)
      BY <1>1, <2>2
    <3>2. /\ outgoingQueue' \in Seq(Outgoing) /\ Len(outgoingQueue) \in Nat
          /\ Len(outgoingQueue') = Len(outgoingQueue) + 1
          /\ \A i \in 1 .. Len(outgoingQueue) : outgoingQueue'[i] = outgoingQueue[i]
          /\ outgoingQueue'[Len(outgoingQueue) + 1] = m
      BY <1>2, <3>1, Appended DEF LoopTypes
    <3> QED
      BY <1>2, <3>2
  <2> QED
    BY <2>1, <2>2
<1>5. work' \in [Request -> Stages]
  BY <1>1 DEF Lsp!Set, LoopTypes, Stages
<1>6. LoopTypes'
  BY <1>1, <1>4, <1>5 DEF LoopTypes
<1>7. \A i \in 1 .. Len(outgoingQueue) : outgoingQueue[i].of \in Request
  <2>1. \A i \in 1 .. Len(outgoingQueue) : outgoingQueue[i] \in Outgoing
    BY ElementOfSeq DEF LoopTypes
  <2> QED
    BY <2>1 DEF Outgoing
<1>8. AnswersInv'
  BY <1>1, <1>3, <1>4, <1>7 DEF AnswersInv, Replied
<1>9. WaitingInv'
  BY <1>1, StillWaiting DEF Stages
<1>10. EntriesInv'
  BY <1>1, <1>3 DEF EntriesInv, LoopTypes
<1>11. HandledInv'
  BY <1>1, <1>3 DEF HandledInv, LoopTypes
<1> QED
  BY <1>6, <1>8, <1>9, <1>10, <1>11

\* Whatever ends the wait for the client, the request has no answer yet.
LEMMA KeepsClientAnswered ==
    ASSUME LspInv, NEW r \in Request, Lsp!ClientAnswered(r)
    PROVE  LspInv'
<1> USE DEF LspInv
<1>1. /\ work[r] = "waiting" /\ ~Replied(r) /\ Lsp!Set(r, "asked")
      /\ UNCHANGED <<dispatcher, requestQueue, outgoingQueue, handled, pendingClientRequests,
                     pendingServerRequests, answered, written>>
  BY DEF Lsp!ClientAnswered, Lsp!loops, Lsp!client, Replied
<1>2. work' \in [Request -> Stages] /\ AnswersInv'
  BY <1>1, NoAnswer DEF Stages
<1>3. \A q \in Request : work'[q] = IF q = r THEN "asked" ELSE work[q]
  BY <1>1 DEF Lsp!Set, LoopTypes
<1>4. LoopTypes'
  BY <1>1, <1>2 DEF LoopTypes
<1>5. WaitingInv'
  BY <1>1, StillWaiting DEF Stages
<1>6. EntriesInv'
  BY <1>1, <1>3 DEF EntriesInv, LoopTypes
<1>7. HandledInv'
  BY <1>1, <1>3 DEF HandledInv, LoopTypes
<1> QED
  BY <1>2, <1>4, <1>5, <1>6, <1>7

\* The deferred function of sendClientRequest, and the answer.
LEMMA KeepsAskOver ==
    ASSUME LspInv, NEW r \in Request, Lsp!AskOver(r)
    PROVE  LspInv'
<1>1. /\ work[r] = "asked" /\ Lsp!Answer(r)
      /\ pendingServerRequests' = pendingServerRequests \ {r}
      /\ UNCHANGED <<dispatcher, requestQueue, handled, pendingClientRequests, answered, written>>
  BY DEF Lsp!AskOver, Lsp!loops
<1> QED
  BY <1>1, KeepsAnswer

\* A request that is done is removed, and dispatchLoop goes on if it was its own.
LEMMA KeepsRemoveRequest ==
    ASSUME LspInv, NEW r \in Request, Lsp!removeRequest(r)
    PROVE  LspInv'
<1> USE DEF LspInv
<1>1. /\ work[r] = "answered" /\ Lsp!Set(r, "done") /\ pendingClientRequests' = pendingClientRequests \ {r}
      /\ IF handled = r THEN dispatcher' = "top" /\ handled' = Nobody ELSE UNCHANGED <<dispatcher, handled>>
      /\ UNCHANGED <<requestQueue, outgoingQueue, pendingServerRequests, answered, written>>
  BY DEF Lsp!removeRequest, Lsp!Remaining, Lsp!client
<1>2. work' \in [Request -> Stages] /\ AnswersInv'
  BY <1>1, NoAnswer DEF Stages
<1>3. \A q \in Request : work'[q] = IF q = r THEN "done" ELSE work[q]
  BY <1>1 DEF Lsp!Set, LoopTypes
<1>4. LoopTypes'
  BY <1>1, <1>2 DEF LoopTypes
<1>5. WaitingInv'
  BY <1>1, StillWaiting DEF Stages
<1>6. EntriesInv'
  BY <1>1, <1>3 DEF EntriesInv, LoopTypes
<1>7. HandledInv'
  BY <1>1, <1>3, LspAssumption DEF HandledInv, LoopTypes
<1> QED
  BY <1>2, <1>4, <1>5, <1>6, <1>7

\* What is left in the queue after its first message: each request's answer at
\* most once, and none for which the first message was the answer.
LEMMA AnswersLeft ==
    ASSUME LoopTypes, AnswersInv, outgoingQueue # <<>>
    PROVE  LET q == Tail(outgoingQueue)
               m == Head(outgoingQueue)
           IN  /\ q \in Seq(Outgoing) /\ Len(q) \in Nat /\ m \in Outgoing
               /\ \A i \in 1 .. Len(q) : q[i] \in Outgoing /\ (q[i].kind # "ask" =>
                    /\ Replied(q[i].of) /\ written[q[i].of] = 0
                    /\ m.kind # "ask" => q[i].of # m.of)
               /\ \A i, j \in 1 .. Len(q) :
                    q[i].kind # "ask" /\ q[j].kind # "ask" /\ q[i].of = q[j].of => i = j
               /\ m.kind # "ask" => Replied(m.of) /\ written[m.of] = 0
<1> DEFINE q == Tail(outgoingQueue)
           m == Head(outgoingQueue)
<1>1. /\ Tail(outgoingQueue) \in Seq(Outgoing) /\ Len(outgoingQueue) \in Nat \ {0}
      /\ Len(Tail(outgoingQueue)) = Len(outgoingQueue) - 1
      /\ \A i \in 1 .. Len(Tail(outgoingQueue)) :
           i + 1 \in 1 .. Len(outgoingQueue) /\ Tail(outgoingQueue)[i] = outgoingQueue[i + 1]
      /\ Head(outgoingQueue) = outgoingQueue[1] /\ outgoingQueue[1] \in Outgoing
  BY Shifted DEF LoopTypes
<1>2. q \in Seq(Outgoing) /\ Len(q) \in Nat /\ m \in Outgoing /\ 1 \in 1 .. Len(outgoingQueue)
      /\ m = outgoingQueue[1]
  BY <1>1
<1>3. \A i \in 1 .. Len(q) : i + 1 \in 1 .. Len(outgoingQueue) /\ q[i] = outgoingQueue[i + 1] /\ i + 1 # 1
  BY <1>1
<1> HIDE DEF q, m
<1>4. ASSUME NEW i \in 1 .. Len(q)
      PROVE  q[i] \in Outgoing /\ (q[i].kind # "ask" =>
               /\ Replied(q[i].of) /\ written[q[i].of] = 0
               /\ m.kind # "ask" => q[i].of # m.of)
  <2>1. i + 1 \in 1 .. Len(outgoingQueue) /\ q[i] = outgoingQueue[i + 1] /\ i + 1 # 1
    BY <1>3
  <2>2. q[i] \in Outgoing
    BY <2>1, ElementOfSeq DEF LoopTypes
  <2>3. q[i].kind # "ask" => Replied(q[i].of) /\ written[q[i].of] = 0
    BY <2>1 DEF AnswersInv
  <2>4. q[i].kind # "ask" /\ m.kind # "ask" => q[i].of # m.of
    BY <2>1, <1>2 DEF AnswersInv
  <2> QED
    BY <2>2, <2>3, <2>4
<1>5. ASSUME NEW i \in 1 .. Len(q), NEW j \in 1 .. Len(q),
             q[i].kind # "ask", q[j].kind # "ask", q[i].of = q[j].of
      PROVE  i = j
  <2>1. i + 1 = j + 1
    BY <1>3, <1>5 DEF AnswersInv
  <2> QED
    BY <2>1, <1>2
<1>6. m.kind # "ask" => Replied(m.of) /\ written[m.of] = 0
  BY <1>2 DEF AnswersInv
<1> QED
  BY <1>2, <1>4, <1>5, <1>6 DEF q, m

\* writeLoop: an answer that is written was queued, and is queued no more.
LEMMA KeepsWrite ==
    ASSUME LspInv, Lsp!Write
    PROVE  LspInv'
<1> USE DEF LspInv
<1> DEFINE q == Tail(outgoingQueue)
           m == Head(outgoingQueue)
<1>1. /\ outgoingQueue # <<>> /\ outgoingQueue' = q
      /\ written' = (IF m.kind = "ask" THEN written ELSE [written EXCEPT ![m.of] = @ + 1])
      /\ UNCHANGED <<dispatcher, requestQueue, handled, work, pendingClientRequests, pendingServerRequests,
                     answered>>
  BY DEF Lsp!Write
<1>2. /\ q \in Seq(Outgoing) /\ m \in Outgoing
      /\ \A i \in 1 .. Len(q) : q[i] \in Outgoing /\ (q[i].kind # "ask" =>
           /\ Replied(q[i].of) /\ written[q[i].of] = 0
           /\ m.kind # "ask" => q[i].of # m.of)
      /\ \A i, j \in 1 .. Len(q) :
           q[i].kind # "ask" /\ q[j].kind # "ask" /\ q[i].of = q[j].of => i = j
      /\ m.kind # "ask" => Replied(m.of) /\ written[m.of] = 0
  BY <1>1, AnswersLeft
<1> HIDE DEF q, m
<1>3. m.of \in Request /\ (\A i \in 1 .. Len(q) : q[i].of \in Request)
  BY <1>2 DEF Outgoing
<1>4. /\ written' \in [Request -> Nat]
      /\ \A r \in Request : written'[r] = IF m.kind # "ask" /\ r = m.of THEN written[r] + 1 ELSE written[r]
  BY <1>1, <1>3 DEF LoopTypes
<1>5. \A r \in Request : Replied(r)' <=> Replied(r)
  BY <1>1 DEF Replied
<1>6. LoopTypes'
  BY <1>1, <1>2, <1>4 DEF LoopTypes
<1>7. \A r \in Request : written'[r] <= 1 /\ (written'[r] = 1 => Replied(r)')
  BY <1>2, <1>3, <1>4, <1>5 DEF AnswersInv, LoopTypes
<1>8. \A i \in 1 .. Len(q) : q[i].kind # "ask" => Replied(q[i].of) /\ written'[q[i].of] = 0
  BY <1>2, <1>3, <1>4
<1>9. AnswersInv'
  BY <1>1, <1>2, <1>7, <1>8 DEF AnswersInv, Replied
<1>10. WaitingInv' /\ EntriesInv' /\ HandledInv'
  BY <1>1 DEF WaitingInv, EntriesInv, HandledInv
<1> QED
  BY <1>6, <1>9, <1>10

\* writeLoop: the error that replaces a result is the request's only answer.
LEMMA KeepsWriteFailing ==
    ASSUME LspInv, Lsp!WriteFailing
    PROVE  LspInv'
<1> USE DEF LspInv
<1> DEFINE q == Tail(outgoingQueue)
           m == Head(outgoingQueue)
           e == Lsp!Message("error", m.of)
<1>1. /\ outgoingQueue # <<>>
      /\ outgoingQueue' = q \/ (m.kind = "result" /\ outgoingQueue' = Append(q, e))
      /\ UNCHANGED <<dispatcher, requestQueue, handled, work, pendingClientRequests, pendingServerRequests,
                     answered, written>>
  BY DEF Lsp!WriteFailing, Lsp!Replaced, Lsp!client
<1>2. /\ q \in Seq(Outgoing) /\ m \in Outgoing
      /\ \A i \in 1 .. Len(q) : q[i] \in Outgoing /\ (q[i].kind # "ask" =>
           /\ Replied(q[i].of) /\ written[q[i].of] = 0
           /\ m.kind # "ask" => q[i].of # m.of)
      /\ \A i, j \in 1 .. Len(q) :
           q[i].kind # "ask" /\ q[j].kind # "ask" /\ q[i].of = q[j].of => i = j
      /\ m.kind # "ask" => Replied(m.of) /\ written[m.of] = 0
  BY <1>1, AnswersLeft
<1>3. m.of \in Request /\ e \in Outgoing /\ e.kind = "error" /\ e.of = m.of
  BY <1>2 DEF Outgoing, Lsp!Message
<1> HIDE DEF q, m, e
<1>4. WaitingInv' /\ EntriesInv' /\ HandledInv'
  BY <1>1 DEF WaitingInv, EntriesInv, HandledInv
<1>5. \A r \in Request : written'[r] <= 1 /\ (written'[r] = 1 => Replied(r)')
  BY <1>1 DEF AnswersInv, Replied
<1>6. CASE outgoingQueue' = q
  <2>1. LoopTypes'
    BY <1>1, <1>2, <1>6 DEF LoopTypes
  <2>2. AnswersInv'
    BY <1>1, <1>2, <1>5, <1>6 DEF AnswersInv, Replied
  <2> QED
    BY <1>4, <2>1, <2>2
<1>7. CASE m.kind = "result" /\ outgoingQueue' = Append(q, e)
  <2>1. /\ outgoingQueue' \in Seq(Outgoing) /\ Len(q) \in Nat /\ Len(outgoingQueue') = Len(q) + 1
        /\ \A i \in 1 .. Len(q) : outgoingQueue'[i] = q[i]
        /\ outgoingQueue'[Len(q) + 1] = e
    BY <1>2, <1>3, <1>7, Appended
  <2>2. LoopTypes'
    BY <1>1, <2>1 DEF LoopTypes
  <2>3. Replied(m.of) /\ written[m.of] = 0 /\ (\A i \in 1 .. Len(q) : q[i].kind # "ask" => q[i].of # m.of)
    BY <1>2, <1>7
  <2>4. ASSUME NEW i \in 1 .. Len(outgoingQueue'), outgoingQueue'[i].kind # "ask"
        PROVE  work'[outgoingQueue'[i].of] \in {"answered", "done"} /\ written'[outgoingQueue'[i].of] = 0
    <3>1. CASE i = Len(q) + 1
      BY <3>1, <1>1, <1>3, <2>1, <2>3 DEF Replied
    <3>2. CASE i # Len(q) + 1
      <4>1. i \in 1 .. Len(q) /\ outgoingQueue'[i] = q[i]
        BY <2>1, <3>2
      <4> QED
        BY <4>1, <1>1, <1>2, <2>4 DEF Replied
    <3> QED
      BY <3>1, <3>2
  <2>5. ASSUME NEW i \in 1 .. Len(outgoingQueue'), NEW j \in 1 .. Len(outgoingQueue'),
               outgoingQueue'[i].kind # "ask", outgoingQueue'[j].kind # "ask",
               outgoingQueue'[i].of = outgoingQueue'[j].of
        PROVE  i = j
    <3>1. CASE i = Len(q) + 1 \/ j = Len(q) + 1
      BY <1>3, <2>1, <2>3, <2>5, <3>1
    <3>2. CASE i # Len(q) + 1 /\ j # Len(q) + 1
      <4>1. i \in 1 .. Len(q) /\ j \in 1 .. Len(q)
        BY <2>1, <3>2
      <4> QED
        BY <4>1, <1>2, <2>1, <2>5
    <3> QED
      BY <3>1, <3>2
  <2>6. AnswersInv'
    BY <1>5, <2>4, <2>5 DEF AnswersInv, Replied
  <2> QED
    BY <1>4, <2>2, <2>6
<1> QED
  BY <1>1, <1>6, <1>7

\* A step of the loops, the handlers or the client is one of these, or leaves
\* the queues, the tables and the requests as they are.
LEMMA LspNextInv == LspInv /\ [Lsp!Next]_(Lsp!vars) => LspInv'
<1> SUFFICES ASSUME LspInv, [Lsp!Next]_(Lsp!vars) PROVE LspInv'
  OBVIOUS
<1> DEFINE Kept == UNCHANGED <<requestQueue, outgoingQueue, handled, work, pendingServerRequests, answered,
                               written>>
<1>1. ASSUME Kept, pendingClientRequests' \subseteq pendingClientRequests,
             dispatcher' = dispatcher \/ (dispatcher # "handle" /\ dispatcher' # "handle")
      PROVE  LspInv'
  BY <1>1 DEF LspInv, LoopTypes, WaitingInv, AnswersInv, Replied, EntriesInv, HandledInv
<1>2. CASE UNCHANGED Lsp!vars
  BY <1>1, <1>2 DEF Lsp!vars
<1>3. CASE Lsp!Reading
  <2>1. CASE Lsp!ReadEnds
    BY <1>1, <2>1 DEF Lsp!ReadEnds, Lsp!client
  <2>2. ASSUME NEW r \in Request, Lsp!ReadCancel(r) PROVE LspInv'
    BY <1>1, <2>2 DEF Lsp!ReadCancel, Lsp!client, Lsp!loops
  <2> QED
    BY <1>3, <2>1, <2>2, KeepsReadExit, KeepsReadRequest, KeepsReadResponse DEF Lsp!Reading
<1>4. CASE Lsp!Dispatching
  <2>1. CASE Lsp!DispatchTop
    BY <1>1, <2>1 DEF Lsp!DispatchTop, Lsp!client
  <2>2. CASE Lsp!DispatchEnds
    BY <1>1, <2>2 DEF Lsp!DispatchEnds, Lsp!client
  <2> QED
    BY <1>4, <2>1, <2>2, KeepsDispatch, KeepsHandleSync DEF Lsp!Dispatching
<1>5. CASE Lsp!Writing
  <2>1. CASE Lsp!WriteTop
    BY <1>1, <2>1 DEF Lsp!WriteTop, Lsp!client
  <2>2. CASE Lsp!WriteEnds
    BY <1>1, <2>2 DEF Lsp!WriteEnds, Lsp!client
  <2> QED
    BY <1>5, <2>1, <2>2, KeepsWrite, KeepsWriteFailing DEF Lsp!Writing
<1>6. ASSUME NEW r \in Request, Lsp!Working(r) PROVE LspInv'
  BY <1>6, KeepsDoAsyncWork, KeepsSendClientRequest, KeepsClientAnswered, KeepsAskOver, KeepsRemoveRequest
     DEF Lsp!Working
<1>7. CASE Lsp!Quiet
  BY <1>1, <1>7 DEF Lsp!Quiet, Lsp!vars
<1> QED
  BY <1>2, <1>3, <1>4, <1>5, <1>6, <1>7 DEF Lsp!Next

\* No request ever has two answers, queued or written, whatever is canceled,
\* fails or ends (sendResult, sendError, writeLoop), and a request that is done
\* is in neither table (removeRequest, sendClientRequest's deferred function):
\* for any set of requests, whether or not the client exits and writes fail.
THEOREM Requests == Lsp!Spec => []RequestsExact
<1>1. LspInv => RequestsExact
  <2> SUFFICES ASSUME LspInv PROVE Lsp!RequestsExact
    BY DEF RequestsExact
  <2> USE DEF LspInv
  <2>1. Lsp!TypeOK
    BY DEF Lsp!TypeOK, HandledInv, EntriesInv
  <2>2. ASSUME NEW r \in Request PROVE written[r] + Lsp!Queued(r) <= 1
    <3> DEFINE A == {i \in 1 .. Len(outgoingQueue) : outgoingQueue[i].of = r /\ outgoingQueue[i].kind # "ask"}
    <3>1. Lsp!Queued(r) = Cardinality(A)
      BY DEF Lsp!Queued, Lsp!Cardinality, Cardinality
    <3>2. \A i, j \in A : i = j
      BY DEF AnswersInv
    <3>3. A # {} => written[r] = 0
      BY DEF AnswersInv
    <3>4. written[r] \in Nat /\ written[r] <= 1
      BY DEF AnswersInv, LoopTypes
    <3> HIDE DEF A
    <3>5. CASE A = {}
      BY <3>1, <3>4, <3>5, FS_EmptySet
    <3>6. CASE A # {}
      <4>1. PICK i : A = {i}
        BY <3>2, <3>6
      <4>2. Cardinality(A) = 1
        BY <4>1, FS_Singleton
      <4> QED
        BY <3>1, <3>3, <3>6, <4>2
    <3> QED
      BY <3>5, <3>6
  <2>3. ASSUME NEW r \in Request, work[r] = "done"
        PROVE  r \notin pendingClientRequests \cup pendingServerRequests
    BY <2>3 DEF EntriesInv
  <2> QED
    BY <2>1, <2>2, <2>3 DEF Lsp!RequestsExact
<1> QED
  BY <1>1, LspInitInv, LspNextInv, PTL DEF Lsp!Spec
============================================================================
