----------------------------- MODULE LspServer -----------------------------
(***************************************************************************)
(* The language server's loops (internal/lsp/server.go).  readLoop answers *)
(* requests before initialize, and those it cannot read, hands the         *)
(* client's answers to who asked, cancels requests, and queues the rest.   *)
(* dispatchLoop takes one message at a time, does its synchronous part,    *)
(* and leaves the rest of a request to a goroutine.  Those may ask the     *)
(* client something, and wait (sendClientRequest).  writeLoop writes what  *)
(* was queued for the client; an answer that cannot be marshalled is       *)
(* replaced by an error.  A loop that ends, ends the others.               *)
(*                                                                         *)
(* The queues are first-in first-out, which DynamicQueue is about.  What a *)
(* handler computes is left out: it has a result or an error (a panic is   *)
(* one, by recover), in its synchronous part or after it.                  *)
(***************************************************************************)
EXTENDS Integers, Sequences, FiniteSets

CONSTANTS
    Request,
    Nobody,
    Exiting,        \* the client sends exit, or goes away
    WriteFails      \* what cannot be marshalled or written

VARIABLES
    initialized,
    reader, dispatcher, writer,     \* where the loops are
    requestQueue, outgoingQueue,
    handled,        \* the request dispatchLoop is at
    work,           \* how far each request is
    pendingClientRequests,
    canceled,       \* the requests whose context cancelRequest has canceled
    pendingServerRequests,          \* whose request to the client is pending
    asked, answered,                \* whose has been written, and answered
    lspExit,        \* dispatchLoop's context is canceled
    backgroundCtx,  \* the group's context is canceled
    written         \* how many answers each request has got

vars == <<initialized, reader, dispatcher, writer, requestQueue, outgoingQueue, handled, work,
          pendingClientRequests, canceled, pendingServerRequests, asked, answered, lspExit, backgroundCtx, written>>
loops  == <<reader, dispatcher, writer>>
client == <<pendingServerRequests, asked, answered>>

Init ==
    /\ initialized = FALSE
    /\ reader = "read" /\ dispatcher = "top" /\ writer = "top"
    /\ requestQueue = <<>> /\ outgoingQueue = <<>> /\ handled = Nobody
    /\ work = [r \in Request |-> "none"]
    /\ pendingClientRequests = {} /\ canceled = {}
    /\ pendingServerRequests = {} /\ asked = {} /\ answered = {}
    /\ lspExit = FALSE /\ backgroundCtx = FALSE
    /\ written = [r \in Request |-> 0]

Message(kind, r) == [kind |-> kind, of |-> r]

\* send: nothing is queued once the loops are to end, and the sender knows.
Send(m) == outgoingQueue' = IF backgroundCtx THEN outgoingQueue ELSE Append(outgoingQueue, m)

Set(r, s) == work' = [work EXCEPT ![r] = s]

-----------------------------------------------------------------------------
(* readLoop                                                                *)

\* Requests are queued once initialize has been read.  Before it they are
\* answered at once, initialize with a result, and so is, at any time, a
\* request whose parameters cannot be read.
ReadRequest(r) ==
    /\ reader = "read" /\ work[r] = "none"
    /\ \/ /\ initialized
          /\ requestQueue' = Append(requestQueue, Message("request", r)) /\ Set(r, "queued")
          /\ UNCHANGED <<initialized, outgoingQueue>>
       \/ /\ initialized' \in {initialized, TRUE} /\ Set(r, "done")
          /\ Send(Message(IF initialized' = initialized THEN "error" ELSE "result", r))
          /\ UNCHANGED requestQueue
    /\ UNCHANGED <<loops, handled, pendingClientRequests, canceled, client, lspExit, backgroundCtx, written>>

\* cancelRequest: a request that was not dispatched yet, or is done, is not there.
ReadCancel(r) ==
    /\ reader = "read" /\ r \in pendingClientRequests
    /\ canceled' = canceled \cup {r}
    /\ pendingClientRequests' = pendingClientRequests \ {r}
    /\ UNCHANGED <<initialized, loops, requestQueue, outgoingQueue, handled, work, client, lspExit, backgroundCtx, written>>

\* The client's answer, into the channel of the one that waits.
ReadResponse(r) ==
    /\ reader = "read" /\ r \in asked \ answered
    /\ answered' = answered \cup (pendingServerRequests \cap {r})
    /\ pendingServerRequests' = pendingServerRequests \ {r}
    /\ asked' = asked \ {r}
    /\ UNCHANGED <<initialized, loops, requestQueue, outgoingQueue, handled, work, pendingClientRequests,
                   canceled, lspExit, backgroundCtx, written>>

\* Notifications are queued before initialize too.
ReadExit ==
    /\ Exiting /\ reader = "read"
    /\ \A i \in 1 .. Len(requestQueue) : requestQueue[i].kind # "exit"
    /\ requestQueue' = Append(requestQueue, Message("exit", Nobody))
    /\ UNCHANGED <<initialized, loops, outgoingQueue, handled, work, pendingClientRequests, canceled, client,
                   lspExit, backgroundCtx, written>>

\* The input ends, or the context was canceled when the last message was read:
\* Run's group ends.
ReadEnds ==
    /\ reader = "read" /\ (Exiting \/ backgroundCtx)
    /\ reader' = "stopped" /\ backgroundCtx' = TRUE
    /\ UNCHANGED <<initialized, dispatcher, writer, requestQueue, outgoingQueue, handled, work, pendingClientRequests,
                   canceled, client, lspExit, written>>

-----------------------------------------------------------------------------
(* dispatchLoop                                                            *)

Stopping == lspExit \/ backgroundCtx

\* Get looks at the context first, and at both while it waits.
DispatchTop ==
    /\ dispatcher = "top"
    /\ dispatcher' = IF Stopping THEN "stop" ELSE "get"
    /\ UNCHANGED <<initialized, reader, writer, requestQueue, outgoingQueue, handled, work, pendingClientRequests,
                   canceled, client, lspExit, backgroundCtx, written>>

\* A request is pending before its handler starts; exit's handler is its error.
Dispatch ==
    /\ dispatcher = "get" /\ requestQueue # <<>>
    /\ requestQueue' = Tail(requestQueue)
    /\ LET m == Head(requestQueue) IN
         \/ /\ m.kind = "exit"
            /\ lspExit' = TRUE /\ dispatcher' = "top"
            /\ UNCHANGED <<handled, work, pendingClientRequests>>
         \/ /\ m.kind = "request"
            /\ pendingClientRequests' = pendingClientRequests \cup {m.of}
            /\ handled' = m.of /\ Set(m.of, "sync") /\ dispatcher' = "handle"
            /\ UNCHANGED lspExit
    /\ UNCHANGED <<initialized, reader, writer, outgoingQueue, canceled, client, backgroundCtx, written>>

DispatchEnds ==
    /\ \/ dispatcher = "get" /\ Stopping
       \/ dispatcher = "stop"
    /\ dispatcher' = "stopped" /\ lspExit' = TRUE /\ backgroundCtx' = TRUE
    /\ UNCHANGED <<initialized, reader, writer, requestQueue, outgoingQueue, handled, work, pendingClientRequests,
                   canceled, client, written>>

\* A request's context is a child of dispatchLoop's.
CtxDone(r) == r \in canceled \/ Stopping

\* sendResult, or handleError's sendError: that the context is done is seen
\* when the work is, and a failed send ends the loop.
AnswerKinds(r) == IF CtxDone(r) THEN {"error"} ELSE {"result", "error"}

Answer(r) ==
    /\ \E kind \in AnswerKinds(r) : Send(Message(kind, r))
    /\ lspExit' = (lspExit \/ backgroundCtx)
    /\ Set(r, "answered")

\* The handler's synchronous part: an answer, or work to be done.
HandleSync ==
    /\ dispatcher = "handle" /\ work[handled] = "sync"
    /\ \/ Answer(handled) /\ UNCHANGED <<dispatcher, handled>>
       \/ /\ Set(handled, "async")
          /\ dispatcher' = "top" /\ handled' = Nobody
          /\ UNCHANGED <<outgoingQueue, lspExit>>
    /\ UNCHANGED <<initialized, reader, writer, requestQueue, pendingClientRequests, canceled, client,
                   backgroundCtx, written>>

\* Mutant: the channel is registered when the request has been sent.
RegisteredLater(r) == pendingServerRequests

Registered(r) == pendingServerRequests \cup {r}

\* doAsyncWork: it may ask the client before it answers.
DoAsyncWork(r) ==
    /\ work[r] = "async"
    /\ \/ Answer(r) /\ UNCHANGED pendingServerRequests
       \/ /\ pendingServerRequests' = Registered(r)
          /\ r \notin asked \cup answered
          /\ Set(r, "asking") /\ UNCHANGED <<outgoingQueue, lspExit>>
    /\ UNCHANGED <<initialized, loops, requestQueue, handled, pendingClientRequests, canceled, asked, answered,
                   backgroundCtx, written>>

\* sendClientRequest.  Its channel is registered before the request is sent.
SendClientRequest(r) ==
    /\ work[r] = "asking"
    /\ Send(Message("ask", r))
    /\ Set(r, IF backgroundCtx THEN "asked" ELSE "waiting")
    /\ UNCHANGED <<initialized, loops, requestQueue, handled, pendingClientRequests, canceled, client, lspExit,
                   backgroundCtx, written>>

ClientAnswered(r) ==
    /\ work[r] = "waiting" /\ (r \in answered \/ CtxDone(r))
    /\ Set(r, "asked")
    /\ UNCHANGED <<initialized, loops, requestQueue, outgoingQueue, handled, pendingClientRequests, canceled, client,
                   lspExit, backgroundCtx, written>>

\* Its deferred function: nobody waits on the channel any more.
AskOver(r) ==
    /\ work[r] = "asked"
    /\ pendingServerRequests' = pendingServerRequests \ {r}
    /\ Answer(r)
    /\ UNCHANGED <<initialized, loops, requestQueue, handled, pendingClientRequests, canceled, asked, answered,
                   backgroundCtx, written>>

\* Mutant: a canceled request's entry is the only one removed.
RemainingCanceled(r) == pendingClientRequests \ ({r} \cap canceled)

Remaining(r) == pendingClientRequests \ {r}

removeRequest(r) ==
    /\ work[r] = "answered"
    /\ pendingClientRequests' = Remaining(r)
    /\ Set(r, "done")
    /\ IF handled = r THEN dispatcher' = "top" /\ handled' = Nobody ELSE UNCHANGED <<dispatcher, handled>>
    /\ UNCHANGED <<initialized, reader, writer, requestQueue, outgoingQueue, canceled, client, lspExit, backgroundCtx,
                   written>>

-----------------------------------------------------------------------------
(* writeLoop                                                               *)

WriteTop ==
    /\ writer = "top"
    /\ writer' = IF backgroundCtx THEN "stop" ELSE "get"
    /\ UNCHANGED <<initialized, reader, dispatcher, requestQueue, outgoingQueue, handled, work, pendingClientRequests,
                   canceled, client, lspExit, backgroundCtx, written>>

WriteEnds ==
    /\ \/ writer = "get" /\ backgroundCtx
       \/ writer = "stop"
    /\ writer' = "stopped" /\ backgroundCtx' = TRUE
    /\ UNCHANGED <<initialized, reader, dispatcher, requestQueue, outgoingQueue, handled, work, pendingClientRequests,
                   canceled, client, lspExit, written>>

Write ==
    /\ writer = "get" /\ outgoingQueue # <<>>
    /\ LET m == Head(outgoingQueue) IN
         /\ written' = IF m.kind = "ask" THEN written ELSE [written EXCEPT ![m.of] = @ + 1]
         /\ asked' = IF m.kind = "ask" THEN asked \cup {m.of} ELSE asked
    /\ outgoingQueue' = Tail(outgoingQueue) /\ writer' = "top"
    /\ UNCHANGED <<initialized, reader, dispatcher, requestQueue, handled, work, pendingClientRequests, canceled,
                   pendingServerRequests, answered, lspExit, backgroundCtx>>

Replaced(m) == Append(Tail(outgoingQueue), Message("error", m.of))

\* A message that cannot be marshalled: a result becomes an error, at the end
\* of the queue, and anything else ends the loop, as a failing Write does.
WriteFailing ==
    /\ WriteFails /\ writer = "get" /\ outgoingQueue # <<>>
    /\ LET m == Head(outgoingQueue) IN
         \/ /\ m.kind = "result" /\ ~backgroundCtx
            /\ outgoingQueue' = Replaced(m) /\ writer' = "top"
         \/ outgoingQueue' = Tail(outgoingQueue) /\ writer' = "stop"
    /\ UNCHANGED <<initialized, reader, dispatcher, requestQueue, handled, work, pendingClientRequests, canceled,
                   client, lspExit, backgroundCtx, written>>

-----------------------------------------------------------------------------
Dispatching == DispatchTop \/ Dispatch \/ DispatchEnds \/ HandleSync
Working(r) == DoAsyncWork(r) \/ SendClientRequest(r) \/ ClientAnswered(r) \/ AskOver(r) \/ removeRequest(r)
Writing == WriteTop \/ Write \/ WriteFailing \/ WriteEnds
Reading == ReadExit \/ ReadEnds \/ \E r \in Request : ReadRequest(r) \/ ReadCancel(r) \/ ReadResponse(r)

\* Everybody has stopped, or waits for a message that never comes.
Quiet ==
    /\ \A r \in Request : \/ work[r] = "done"
                          \/ work[r] = "none" /\ reader = "stopped"
                          \/ work[r] = "queued" /\ dispatcher = "stopped"
    /\ writer = "stopped" \/ (writer = "get" /\ outgoingQueue = <<>>)
    /\ dispatcher = "stopped" \/ (dispatcher = "get" /\ requestQueue = <<>>)
    /\ UNCHANGED vars

Next == Reading \/ Dispatching \/ Writing \/ (\E r \in Request : Working(r)) \/ Quiet

Spec == Init /\ [][Next]_vars

\* The goroutines go on, and a client that was asked answers; that it sends
\* anything else is not assumed.
Fairness ==
    /\ WF_vars(Dispatching) /\ WF_vars(Write) /\ WF_vars(WriteTop \/ WriteEnds)
    /\ \A r \in Request : WF_vars(Working(r)) /\ WF_vars(ReadResponse(r))

-----------------------------------------------------------------------------
(* Properties                                                              *)

Queued(r) == Cardinality({i \in 1 .. Len(outgoingQueue) :
                            outgoingQueue[i].of = r /\ outgoingQueue[i].kind # "ask"})

\* Who is at work is where the loops say.
TypeOK ==
    /\ (handled # Nobody) <=> (dispatcher = "handle")
    /\ handled # Nobody => work[handled] \in {"sync", "answered"}
    /\ \A r \in Request : work[r] = "waiting" => r \in pendingServerRequests \cup answered

\* No request ever has two answers, queued or written: not by a cancellation
\* that races the result, nor by an answer that had to be replaced.  Nothing
\* is left in the two tables for a request that is done: removeRequest and
\* sendClientRequest's deferred function run on every path.
RequestsExact ==
    /\ TypeOK
    /\ \A r \in Request :
        /\ written[r] + Queued(r) <= 1
        /\ work[r] = "done" => r \notin pendingClientRequests \cup pendingServerRequests

\* Every request that was read is answered, canceled or not, unless the
\* server is told to end or cannot write; and every one that was dispatched
\* comes to an end, whatever it waits for when the loops end
\* (sendClientRequest).  exit ends dispatchLoop and writeLoop.
AllServed ==
    /\ \A r \in Request :
        /\ work[r] # "none" ~> (written[r] = 1 \/ backgroundCtx)
        /\ work[r] = "sync" ~> work[r] = "done"
    /\ lspExit ~> (dispatcher = "stopped" /\ writer = "stopped")
============================================================================
