----------------------------- MODULE AsyncConn -----------------------------
(***************************************************************************)
(* A JSON-RPC connection that handles every incoming request in a          *)
(* goroutine of its own (internal/ipc/conn_async.go).  Run reads; a        *)
(* response goes to the call that waits for it, a request to a new         *)
(* handler.  A call registers a channel under pendingMu, writes, and waits *)
(* for its context, an answer, or the channel's end.  The connection's     *)
(* first failure is its terminal error: it ends the calls that wait, and   *)
(* later ones at once.                                                     *)
(*                                                                         *)
(* Handlers make calls too: a caller is a handler, with Run's context, or  *)
(* somebody outside, with a context of its own.  Each caller makes at most *)
(* one call, known by its name.  A write fails when the transport is       *)
(* closed, and may fail when it is not.                                    *)
(***************************************************************************)
EXTENDS FiniteSets

CONSTANTS Handler, Outside, NoCall

ASSUME AsyncConnAssumption ==
    /\ IsFiniteSet(Handler \cup Outside) /\ Handler \cap Outside = {} /\ NoCall \notin Handler \cup Outside

Caller == Handler \cup Outside

VARIABLES
    run,            \* where Run is
    runErr,         \* the error it returns: "nil", or what it is
    hand,           \* the call whose channel handleResponse has in its hands
    ctx,            \* Run's context is canceled
    handlerCtx,     \* and the handlers', which Run cancels when it ends
    open,           \* the transport
    handler,        \* each handler's goroutine
    call,           \* each caller's call
    canceled,       \* whose context outside is canceled
    sent,           \* the calls whose request was written
    pending,        \* c.pending: the calls whose channel is registered
    full, closed,   \* the calls whose channel has the answer in it, and is closed
    terminal,       \* "nil", "closed", or "cause": c.terminal and c.hasCause
    requestErrors   \* the channel of that name, which holds one: "empty" or "full"

vars == <<run, runErr, hand, ctx, handlerCtx, open, handler, call, canceled, sent, pending, full, closed,
          terminal, requestErrors>>
reader == <<run, runErr, hand, ctx, handlerCtx>>
calls  == <<call, canceled, sent, pending, full, closed>>

Init ==
    /\ run = "top" /\ runErr = "nil" /\ hand = NoCall
    /\ ctx = FALSE /\ handlerCtx = FALSE /\ open = TRUE
    /\ handler = [h \in Handler |-> "none"]
    /\ call = [c \in Caller |-> "none"]
    /\ canceled = {} /\ sent = {} /\ pending = {}
    /\ full = {} /\ closed = {}
    /\ terminal = "nil"
    /\ requestErrors = "empty"

-----------------------------------------------------------------------------
(* What happens outside                                                    *)

\* The one who called Run cancels its context, and a caller its own.
CancelRun ==
    /\ ~ctx /\ ctx' = TRUE /\ handlerCtx' = TRUE
    /\ UNCHANGED <<run, runErr, hand, open, handler, calls, terminal, requestErrors>>

CancelCall(c) ==
    /\ c \in Outside \ canceled /\ canceled' = canceled \cup {c}
    /\ UNCHANGED <<reader, open, handler, call, sent, pending, full, closed, terminal, requestErrors>>

\* The peer goes away, or the one who has the transport closes it.
Disconnect ==
    /\ open /\ open' = FALSE
    /\ UNCHANGED <<reader, handler, calls, terminal, requestErrors>>

-----------------------------------------------------------------------------
(* The terminal error, under pendingMu                                     *)

\* recordTerminalErrorLocked: whether this is the first cause.
FirstCause(failed) == failed /\ terminal # "cause"

recordTerminalErrorLocked(failed) ==
    terminal' = IF failed \/ terminal = "cause" THEN "cause" ELSE "closed"

closePendingCallsLocked ==
    /\ closed' = closed \cup pending
    /\ pending' = {}

-----------------------------------------------------------------------------
(* Run                                                                     *)

\* The context is looked at between two messages, not while one is awaited.
RunTop ==
    /\ run = "top"
    /\ IF ctx THEN run' = "closing" /\ runErr' = "canceled"
              ELSE run' = "read" /\ UNCHANGED runErr
    /\ UNCHANGED <<hand, ctx, handlerCtx, open, handler, calls, terminal, requestErrors>>

ReadRequest(h) ==
    /\ run = "read" /\ open /\ handler[h] = "none"
    /\ handler' = [handler EXCEPT ![h] = "handling"]
    /\ run' = "top"
    /\ UNCHANGED <<runErr, hand, ctx, handlerCtx, open, calls, terminal, requestErrors>>

\* Mutant: the channel stays registered while it is filled.
TakenLater(c) == pending

Taken(c) == pending \ {c}

\* handleResponse.  An answer to a call that is not pending any more, or
\* the second one to a call, is dropped.
ReadResponse(c) ==
    /\ run = "read" /\ open /\ c \in sent
    /\ IF c \in pending
         THEN pending' = Taken(c) /\ hand' = c /\ run' = "send"
         ELSE run' = "top" /\ UNCHANGED <<pending, hand>>
    /\ UNCHANGED <<runErr, ctx, handlerCtx, open, handler, call, canceled, sent, full, closed, terminal, requestErrors>>

Deliver ==
    \/ /\ run = "send" /\ hand \notin full
       /\ full' = full \cup {hand}
       /\ run' = "close"
       /\ UNCHANGED <<hand, closed, runErr, ctx, handlerCtx, open, handler, call, canceled, sent, pending, terminal, requestErrors>>
    \/ /\ run = "close"
       /\ closed' = closed \cup {hand}
       /\ run' = "top" /\ hand' = NoCall
       /\ UNCHANGED <<full, runErr, ctx, handlerCtx, open, handler, call, canceled, sent, pending, terminal, requestErrors>>

\* ReadMessage fails: at the end of the stream, which is no error, or else.
ReadFails ==
    /\ run = "read"
    /\ \/ runErr' = "nil" /\ ~open
       \/ runErr' = "failed"
    /\ run' = "closing"
    /\ UNCHANGED <<hand, ctx, handlerCtx, open, handler, calls, terminal, requestErrors>>

\* The deferred function: end the calls, cancel the handlers, wait for them
\* and take a request's error along.
closePendingCalls ==
    /\ run = "closing"
    /\ recordTerminalErrorLocked(runErr # "nil")
    /\ closePendingCallsLocked
    /\ run' = "canceling"
    /\ UNCHANGED <<runErr, hand, ctx, handlerCtx, open, handler, call, canceled, sent, full, requestErrors>>

CancelHandlers ==
    /\ run = "canceling" /\ run' = "waiting" /\ handlerCtx' = TRUE
    /\ UNCHANGED <<runErr, hand, ctx, open, handler, calls, terminal, requestErrors>>

Return ==
    /\ run = "waiting" /\ \A h \in Handler : handler[h] \in {"none", "done", "gave up"}
    /\ run' = "returned"
    /\ runErr' = IF requestErrors = "full" /\ runErr = "nil" THEN "request" ELSE runErr
    /\ requestErrors' = "empty"
    /\ UNCHANGED <<hand, ctx, handlerCtx, open, handler, calls, terminal>>

-----------------------------------------------------------------------------
(* A handler                                                               *)

\* A request is answered, after a call of its own has come back; a
\* notification is not.
Answer(h) ==
    /\ handler[h] = "handling" /\ call[h] \in {"none", "answered", "failed", "empty"}
    /\ \/ handler' = [handler EXCEPT ![h] = "done"]     \* a notification, or the answer is written
       \/ handler' = [handler EXCEPT ![h] = "failed"]
    /\ UNCHANGED <<reader, open, calls, terminal, requestErrors>>

\* recordRequestError.  The send into requestErrors is made under pendingMu.
recordRequestError(h) ==
    /\ handler[h] = "failed"
    /\ recordTerminalErrorLocked(TRUE)
    /\ IF FirstCause(TRUE)
         THEN /\ requestErrors = "empty" /\ requestErrors' = "full"
              /\ closePendingCallsLocked
              /\ handler' = [handler EXCEPT ![h] = "recorded"]
         ELSE /\ handler' = [handler EXCEPT ![h] = "gave up"]
              /\ UNCHANGED <<requestErrors, closed, pending>>
    /\ UNCHANGED <<reader, open, call, canceled, sent, full>>

CloseTransport(h) ==
    /\ handler[h] = "recorded"
    /\ open' = FALSE
    /\ handler' = [handler EXCEPT ![h] = "gave up"]
    /\ UNCHANGED <<reader, calls, terminal, requestErrors>>

-----------------------------------------------------------------------------
(* A call                                                                  *)

To(c, s) == call' = [call EXCEPT ![c] = s]

\* Mutant: a call is made whatever has happened.
RefusedNever(c) == FALSE

Refused(c) == terminal # "nil"

\* The check of terminal and the registration are one critical section.
Register(c) ==
    /\ call[c] = "none" /\ (c \in Handler => handler[c] = "handling")
    /\ IF Refused(c)
         THEN To(c, "failed") /\ UNCHANGED pending
         ELSE To(c, "write") /\ pending' = pending \cup {c}
    /\ UNCHANGED <<reader, open, handler, canceled, sent, full, closed, terminal, requestErrors>>

WriteRequest(c) ==
    /\ call[c] = "write"
    /\ \/ open /\ sent' = sent \cup {c} /\ To(c, "select")
       \/ To(c, "end failed") /\ UNCHANGED sent
    /\ UNCHANGED <<reader, open, handler, canceled, pending, full, closed, terminal, requestErrors>>

CtxDone(c) == IF c \in Handler THEN handlerCtx ELSE c \in canceled

Received(c) == c \in full

Select(c) ==
    /\ call[c] = "select"
    /\ \/ CtxDone(c) /\ To(c, "end failed")
       \/ Received(c) /\ To(c, "end answered")
       \/ ~Received(c) /\ c \in closed /\ To(c, IF terminal # "nil" THEN "end failed" ELSE "end empty")
    /\ UNCHANGED <<reader, open, handler, canceled, sent, pending, full, closed, terminal, requestErrors>>

\* The deferred function: whoever is still registered closes its channel.
Unregister(c) ==
    /\ call[c] \in {"end failed", "end answered", "end empty"}
    /\ To(c, CASE call[c] = "end failed" -> "failed" [] call[c] = "end answered" -> "answered" [] OTHER -> "empty")
    /\ pending' = pending \ {c}
    /\ closed' = IF c \in pending THEN closed \cup {c} ELSE closed
    /\ UNCHANGED <<reader, open, handler, canceled, sent, full, terminal, requestErrors>>

-----------------------------------------------------------------------------
Ended == {"answered", "failed", "empty"}

Run == RunTop \/ (\E h \in Handler : ReadRequest(h)) \/ (\E c \in Caller : ReadResponse(c)) \/ Deliver
       \/ ReadFails \/ closePendingCalls \/ CancelHandlers \/ Return
HandleRequest(h) == Answer(h) \/ recordRequestError(h) \/ CloseTransport(h)
Calling(c) == Register(c) \/ WriteRequest(c) \/ Select(c) \/ Unregister(c)

\* Run has returned, and no call goes on.
Over ==
    /\ run = "returned" /\ \A c \in Caller : call[c] \in Ended \cup {"none"}
    /\ UNCHANGED vars

Next ==
    \/ CancelRun \/ Disconnect \/ (\E c \in Caller : CancelCall(c))
    \/ Run \/ (\E h \in Handler : HandleRequest(h)) \/ (\E c \in Caller : Calling(c)) \/ Over

Spec == Init /\ [][Next]_vars

-----------------------------------------------------------------------------
(* Properties                                                              *)

\* The goroutines are where they can be.
TypeOK ==
    /\ run \in {"top", "read", "send", "close", "closing", "canceling", "waiting", "returned"}
    /\ runErr \in {"nil", "canceled", "failed", "request"}
    /\ hand \in Caller \cup {NoCall} /\ (run \in {"send", "close"} <=> hand # NoCall)
    /\ ctx \in BOOLEAN /\ handlerCtx \in BOOLEAN /\ open \in BOOLEAN
    /\ handler \in [Handler -> {"none", "handling", "done", "failed", "recorded", "gave up"}]
    /\ call \in [Caller -> Ended \cup {"none", "write", "select", "end failed", "end answered", "end empty"}]
    /\ canceled \subseteq Outside /\ pending \subseteq Caller /\ sent \subseteq Caller
    /\ full \subseteq Caller /\ closed \subseteq Caller
    /\ terminal \in {"nil", "closed", "cause"}
    /\ requestErrors \in {"empty", "full"}

\* No goroutine ever sends on a closed channel or closes one twice: what is
\* registered is open and empty, and what handleResponse took is nobody
\* else's (handleResponse deletes under the lock, the others close what
\* they find under it).  So a call never comes back with neither an answer
\* nor an error: its channel is closed unused only when there is a terminal
\* error.
ChannelsOwned ==
    /\ TypeOK
    /\ \A c \in pending : c \notin closed /\ c \notin full
    /\ run \in {"send", "close"} => hand \notin pending /\ hand \notin closed
    /\ run = "send" => hand \notin full
    /\ \A c \in Caller : call[c] \notin {"end empty", "empty"}

\* The terminal error reaches everybody.  recordRequestError's send never
\* blocks, which it would do with pendingMu in its hands: the second cause is
\* not the first one.  Run does not return nil when a handler failed to write
\* its answer.  And nobody registers a channel that nothing would close: a
\* call that waits after the terminal error has its channel closed or an
\* answer on its way into it.
ErrorReaches ==
    /\ \A h \in Handler : handler[h] = "failed" /\ FirstCause(TRUE) => requestErrors = "empty"
    /\ run = "returned" /\ runErr = "nil" => \A h \in Handler : handler[h] # "gave up"
    /\ \A c \in Caller :
            terminal # "nil" /\ call[c] = "select" /\ ~(run \in {"send", "close"} /\ hand = c)
                => c \in closed
============================================================================
