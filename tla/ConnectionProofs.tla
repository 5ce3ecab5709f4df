-------------------------- MODULE ConnectionProofs --------------------------
(***************************************************************************)
(* Proofs about the two kinds of API connection: the asynchronous one, for *)
(* every set of handlers and of callers outside; the synchronous one, for  *)
(* every set of requests and of calls.                                     *)
(***************************************************************************)
EXTENDS MCConnections, SequenceTheorems, FiniteSetTheorems, TLAPS

-----------------------------------------------------------------------------
(* The asynchronous connection: who has a channel in his hands.            *)

(***************************************************************************)
(* A call's channel is registered, in handleResponse's hands, or closed,   *)
(* from the call's registration on; before it, and while it is registered, *)
(* the channel is as it was made.                                          *)
(***************************************************************************)
InHand(c) == run \in {"send", "close"} /\ hand = c

ChannelInv ==
    /\ \A c \in Caller : c \in pending \/ call[c] = "none" => c \notin closed \cup full
    /\ \A c \in Caller : call[c] = "none" => c \notin pending /\ ~InHand(c)
    /\ \A c \in Caller : InHand(c) => c \notin pending \cup closed
    /\ run = "send" => hand \notin full
    /\ run = "close" => hand \in full
    /\ \A c \in Caller : call[c] \in {"write", "select"} => c \in pending \cup closed \/ InHand(c)
    /\ \A c \in closed \ full : terminal # "nil" \/ call[c] \in Ended
    /\ \A c \in Caller : call[c] \notin {"end empty", "empty"}
    /\ terminal # "nil" => pending = {}

(***************************************************************************)
(* Where a cause of the terminal error is, until Run returns it: in        *)
(* requestErrors, or in the error with which Run ends.                     *)
(***************************************************************************)
CauseInv ==
    /\ requestErrors = "full" => terminal = "cause"
    /\ runErr # "nil" => run \in {"closing", "canceling", "waiting", "returned"}
    /\ run # "returned" /\ terminal = "cause" => requestErrors = "full" \/ runErr # "nil"
    /\ run = "returned" => \A h \in Handler : handler[h] \in {"none", "done", "gave up"}
    /\ run = "returned" /\ runErr = "nil" => terminal # "cause"
    /\ \A h \in Handler : handler[h] \in {"recorded", "gave up"} => terminal = "cause"

AsyncInv == TypeOK /\ ChannelInv /\ CauseInv

\* The goroutines of the connection stay where they can be.
LEMMA AsyncTypes == TypeOK /\ [Next]_vars => TypeOK'
<1> SUFFICES ASSUME TypeOK, [Next]_vars PROVE TypeOK'
  OBVIOUS
<1>0. NoCall \notin Caller /\ Handler \subseteq Caller /\ Outside \subseteq Caller
  BY AsyncConnAssumption DEF Caller
<1> USE <1>0 DEF TypeOK, Ended, calls, reader
<1>1. CASE CancelRun
  BY <1>1 DEF CancelRun
<1>2. ASSUME NEW c \in Caller, CancelCall(c) PROVE TypeOK'
  BY <1>2 DEF CancelCall
<1>3. CASE Disconnect
  BY <1>3 DEF Disconnect
<1>4. CASE RunTop
  BY <1>4 DEF RunTop
<1>5. ASSUME NEW h \in Handler, ReadRequest(h) PROVE TypeOK'
  BY <1>5 DEF ReadRequest
<1>6. ASSUME NEW c \in Caller, ReadResponse(c) PROVE TypeOK'
  BY <1>6 DEF ReadResponse, Taken
<1>7. CASE Deliver
  BY <1>7 DEF Deliver
<1>8. CASE ReadFails
  BY <1>8 DEF ReadFails
<1>9. CASE closePendingCalls
  BY <1>9 DEF closePendingCalls, closePendingCallsLocked, recordTerminalErrorLocked
<1>10. CASE CancelHandlers
  BY <1>10 DEF CancelHandlers
<1>11. CASE Return
  BY <1>11 DEF Return
<1>12. ASSUME NEW h \in Handler, Answer(h) PROVE TypeOK'
  BY <1>12, ZenonT(60) DEF Answer
<1>13. ASSUME NEW h \in Handler, recordRequestError(h) PROVE TypeOK'
  <2>1. terminal' = "cause"
    BY <1>13 DEF recordRequestError, recordTerminalErrorLocked
  <2>2. requestErrors' \in {"empty", "full"} /\ closed' \subseteq Caller /\ pending' \subseteq Caller
    BY <1>13 DEF recordRequestError, closePendingCallsLocked
  <2>3. handler' \in [Handler -> {"none", "handling", "done", "failed", "recorded", "gave up"}]
    BY <1>13 DEF recordRequestError
  <2> QED
    BY <1>13, <2>1, <2>2, <2>3 DEF recordRequestError
<1>14. ASSUME NEW h \in Handler, CloseTransport(h) PROVE TypeOK'
  BY <1>14 DEF CloseTransport
<1>15. ASSUME NEW c \in Caller, Register(c) PROVE TypeOK'
  BY <1>15, ZenonT(60) DEF Register, To
<1>16. ASSUME NEW c \in Caller, WriteRequest(c) PROVE TypeOK'
  BY <1>16, ZenonT(60) DEF WriteRequest, To
<1>17. ASSUME NEW c \in Caller, Select(c) PROVE TypeOK'
  <2>1. PICK s \in {"end failed", "end answered", "end empty"} : To(c, s)
    BY <1>17 DEF Select
  <2>2. call' \in [Caller -> Ended \cup {"none", "write", "select", "end failed", "end answered", "end empty"}]
    BY <2>1 DEF To
  <2> QED
    BY <1>17, <2>2 DEF Select
<1>18. ASSUME NEW c \in Caller, Unregister(c) PROVE TypeOK'
  <2>1. PICK s \in Ended : To(c, s)
    BY <1>18 DEF Unregister
  <2> QED
    BY <1>18, <2>1, ZenonT(60) DEF Unregister, To
<1>19. CASE UNCHANGED vars
  BY <1>19, ZenonT(60) DEF vars
<1> QED
  BY <1>1, <1>2, <1>3, <1>4, <1>5, <1>6, <1>7, <1>8, <1>9, <1>10, <1>11, <1>12, <1>13, <1>14,
     <1>15, <1>16, <1>17, <1>18, <1>19 DEF Next, Run, HandleRequest, Calling, Over

\* No step takes a channel out of the hands it is in.
LEMMA ChannelsStay == TypeOK /\ ChannelInv /\ [Next]_vars => ChannelInv'
<1> SUFFICES ASSUME TypeOK, ChannelInv, [Next]_vars PROVE ChannelInv'
  OBVIOUS
<1>0. NoCall \notin Caller /\ Handler \subseteq Caller /\ Outside \subseteq Caller
  BY AsyncConnAssumption DEF Caller
<1> USE <1>0 DEF TypeOK, ChannelInv, InHand, Ended, calls, reader
<1>1. CASE CancelRun
  BY <1>1 DEF CancelRun
<1>2. ASSUME NEW c \in Caller, CancelCall(c) PROVE ChannelInv'
  BY <1>2 DEF CancelCall
<1>3. CASE Disconnect
  BY <1>3 DEF Disconnect
<1>4. CASE RunTop
  BY <1>4 DEF RunTop
<1>5. ASSUME NEW h \in Handler, ReadRequest(h) PROVE ChannelInv'
  BY <1>5 DEF ReadRequest
<1>6. ASSUME NEW c \in Caller, ReadResponse(c) PROVE ChannelInv'
  <2>1. CASE c \in pending
    <3>1. pending' = pending \ {c} /\ hand' = c /\ run' = "send"
      BY <1>6, <2>1 DEF ReadResponse, Taken
    <3> QED
      BY <1>6, <2>1, <3>1, ZenonT(60) DEF ReadResponse
  <2>2. CASE c \notin pending
    BY <1>6, <2>2 DEF ReadResponse
  <2> QED
    BY <2>1, <2>2
<1>7. CASE Deliver
  BY <1>7 DEF Deliver
<1>8. CASE ReadFails
  BY <1>8 DEF ReadFails
<1>9. CASE closePendingCalls
  BY <1>9 DEF closePendingCalls, closePendingCallsLocked, recordTerminalErrorLocked
<1>10. CASE CancelHandlers
  BY <1>10 DEF CancelHandlers
<1>11. CASE Return
  BY <1>11 DEF Return
<1>12. ASSUME NEW h \in Handler, Answer(h) PROVE ChannelInv'
  BY <1>12 DEF Answer
<1>13. ASSUME NEW h \in Handler, recordRequestError(h) PROVE ChannelInv'
  <2>1. terminal' = "cause"
    BY <1>13 DEF recordRequestError, recordTerminalErrorLocked
  <2>2. CASE terminal # "cause"
    <3>1. closed' = closed \cup pending /\ pending' = {}
      BY <1>13, <2>2 DEF recordRequestError, closePendingCallsLocked, FirstCause
    <3> QED
      BY <1>13, <2>1, <3>1 DEF recordRequestError
  <2>3. CASE terminal = "cause"
    <3>1. UNCHANGED <<closed, pending>>
      BY <1>13, <2>3 DEF recordRequestError, FirstCause
    <3> QED
      BY <1>13, <2>1, <2>3, <3>1 DEF recordRequestError
  <2> QED
    BY <2>2, <2>3
<1>14. ASSUME NEW h \in Handler, CloseTransport(h) PROVE ChannelInv'
  BY <1>14 DEF CloseTransport
<1>15. ASSUME NEW c \in Caller, Register(c) PROVE ChannelInv'
  <2>1. CASE terminal # "nil"
    <3>1. call' = [call EXCEPT ![c] = "failed"] /\ pending' = pending
      BY <1>15, <2>1 DEF Register, To, Refused
    <3> QED
      BY <1>15, <2>1, <3>1 DEF Register
  <2>2. CASE terminal = "nil"
    <3>1. call' = [call EXCEPT ![c] = "write"] /\ pending' = pending \cup {c}
      BY <1>15, <2>2 DEF Register, To, Refused
    <3> QED
      BY <1>15, <2>2, <3>1 DEF Register
  <2> QED
    BY <2>1, <2>2
<1>16. ASSUME NEW c \in Caller, WriteRequest(c) PROVE ChannelInv'
  <2>1. PICK s \in {"select", "end failed"} : call' = [call EXCEPT ![c] = s]
    BY <1>16 DEF WriteRequest, To
  <2> QED
    BY <1>16, <2>1, ZenonT(60) DEF WriteRequest
<1>17. ASSUME NEW c \in Caller, Select(c) PROVE ChannelInv'
  <2>1. PICK s \in {"end failed", "end answered"} : call' = [call EXCEPT ![c] = s]
    BY <1>17 DEF Select, To, Received
  <2> QED
    BY <1>17, <2>1, ZenonT(60) DEF Select
<1>18. ASSUME NEW c \in Caller, Unregister(c) PROVE ChannelInv'
  <2>1. PICK s \in {"failed", "answered"} : call' = [call EXCEPT ![c] = s]
    BY <1>18 DEF Unregister, To
  <2>2. /\ pending' = pending \ {c}
        /\ closed' = IF c \in pending THEN closed \cup {c} ELSE closed
        /\ UNCHANGED <<run, hand, full, terminal>>
    BY <1>18 DEF Unregister
  <2>3. call[c] # "none"
    BY <1>18 DEF Unregister
  <2>4. \A d \in Caller : call'[d] = IF d = c THEN s ELSE call[d]
    BY <2>1
  <2>5. CASE c \in pending
    <3>1. (\A d \in Caller : d \in pending \/ call[d] = "none" => d \notin closed \cup full)'
      BY <2>2, <2>3, <2>4, <2>5
    <3>2. (\A d \in Caller : call[d] = "none" => d \notin pending /\ ~InHand(d))'
      BY <2>2, <2>3, <2>4, <2>5
    <3>3. (\A d \in Caller : InHand(d) => d \notin pending \cup closed)'
      BY <2>2, <2>3, <2>4, <2>5
    <3>4. (\A d \in Caller : call[d] \in {"write", "select"} => d \in pending \cup closed \/ InHand(d))'
      BY <2>2, <2>3, <2>4, <2>5, ZenonT(60)
    <3>5. (\A d \in closed \ full : terminal # "nil" \/ call[d] \in Ended)'
      BY <2>2, <2>3, <2>4, <2>5
    <3>6. (\A d \in Caller : call[d] \notin {"end empty", "empty"})'
      BY <2>2, <2>3, <2>4, <2>5
    <3> QED
      BY <2>2, <3>1, <3>2, <3>3, <3>4, <3>5, <3>6
  <2>6. CASE c \notin pending
    BY <2>2, <2>3, <2>4, <2>6
  <2> QED
    BY <2>5, <2>6
<1>19. CASE UNCHANGED vars
  BY <1>19 DEF vars
<1> QED
  BY <1>1, <1>2, <1>3, <1>4, <1>5, <1>6, <1>7, <1>8, <1>9, <1>10, <1>11, <1>12, <1>13, <1>14,
     <1>15, <1>16, <1>17, <1>18, <1>19 DEF Next, Run, HandleRequest, Calling, Over

\* No step loses a cause.
LEMMA CauseStays == TypeOK /\ CauseInv /\ [Next]_vars => CauseInv'
<1> SUFFICES ASSUME TypeOK, CauseInv, [Next]_vars PROVE CauseInv'
  OBVIOUS
<1>0. NoCall \notin Caller /\ Handler \subseteq Caller /\ Outside \subseteq Caller
  BY AsyncConnAssumption DEF Caller
<1> USE <1>0 DEF TypeOK, CauseInv, Ended, calls, reader
<1>1. CASE CancelRun
  BY <1>1 DEF CancelRun
<1>2. ASSUME NEW c \in Caller, CancelCall(c) PROVE CauseInv'
  BY <1>2 DEF CancelCall
<1>3. CASE Disconnect
  BY <1>3 DEF Disconnect
<1>4. CASE RunTop
  BY <1>4 DEF RunTop
<1>5. ASSUME NEW h \in Handler, ReadRequest(h) PROVE CauseInv'
  BY <1>5 DEF ReadRequest
<1>6. ASSUME NEW c \in Caller, ReadResponse(c) PROVE CauseInv'
  BY <1>6 DEF ReadResponse, Taken
<1>7. CASE Deliver
  BY <1>7 DEF Deliver
<1>8. CASE ReadFails
  BY <1>8 DEF ReadFails
<1>9. CASE closePendingCalls
  BY <1>9 DEF closePendingCalls, closePendingCallsLocked, recordTerminalErrorLocked
<1>10. CASE CancelHandlers
  BY <1>10 DEF CancelHandlers
<1>11. CASE Return
  <2>1. ASSUME terminal = "cause" PROVE runErr' # "nil"
    <3>0. run = "waiting"
      BY <1>11 DEF Return
    <3>1. requestErrors = "full" \/ runErr # "nil"
      BY <2>1, <3>0
    <3>2. runErr' = IF requestErrors = "full" /\ runErr = "nil" THEN "request" ELSE runErr
      BY <1>11 DEF Return
    <3> QED
      BY <3>1, <3>2
  <2>2. requestErrors' = "empty" /\ run' = "returned" /\ handler' = handler /\ terminal' = terminal
    BY <1>11 DEF Return
  <2> QED
    BY <1>11, <2>1, <2>2 DEF Return
<1>12. ASSUME NEW h \in Handler, Answer(h) PROVE CauseInv'
  BY <1>12 DEF Answer
<1>13. ASSUME NEW h \in Handler, recordRequestError(h) PROVE CauseInv'
  <2>1. terminal' = "cause"
    BY <1>13 DEF recordRequestError, recordTerminalErrorLocked
  <2>2. CASE terminal # "cause"
    <3>1. requestErrors' = "full" /\ handler' = [handler EXCEPT ![h] = "recorded"]
      BY <1>13, <2>2 DEF recordRequestError, FirstCause
    <3> QED
      BY <1>13, <2>1, <3>1 DEF recordRequestError
  <2>3. CASE terminal = "cause"
    <3>1. requestErrors' = requestErrors /\ handler' = [handler EXCEPT ![h] = "gave up"]
      BY <1>13, <2>3 DEF recordRequestError, FirstCause
    <3> QED
      BY <1>13, <2>1, <2>3, <3>1 DEF recordRequestError
  <2> QED
    BY <2>2, <2>3
<1>14. ASSUME NEW h \in Handler, CloseTransport(h) PROVE CauseInv'
  BY <1>14 DEF CloseTransport
<1>15. ASSUME NEW c \in Caller, Register(c) PROVE CauseInv'
  BY <1>15 DEF Register, To, Refused
<1>16. ASSUME NEW c \in Caller, WriteRequest(c) PROVE CauseInv'
  BY <1>16 DEF WriteRequest, To
<1>17. ASSUME NEW c \in Caller, Select(c) PROVE CauseInv'
  BY <1>17 DEF Select, To, Received
<1>18. ASSUME NEW c \in Caller, Unregister(c) PROVE CauseInv'
  BY <1>18 DEF Unregister, To
<1>19. CASE UNCHANGED vars
  BY <1>19 DEF vars
<1> QED
  BY <1>1, <1>2, <1>3, <1>4, <1>5, <1>6, <1>7, <1>8, <1>9, <1>10, <1>11, <1>12, <1>13, <1>14,
     <1>15, <1>16, <1>17, <1>18, <1>19 DEF Next, Run, HandleRequest, Calling, Over

-----------------------------------------------------------------------------
(* What the connection promises.                                           *)

LEMMA AsyncInvariant == Spec => []AsyncInv
<1>1. Init => AsyncInv
  BY AsyncConnAssumption
     DEF Init, AsyncInv, TypeOK, ChannelInv, CauseInv, InHand, Ended, Caller
<1>2. AsyncInv /\ [Next]_vars => AsyncInv'
  BY AsyncTypes, ChannelsStay, CauseStays DEF AsyncInv
<1> QED
  BY <1>1, <1>2, PTL DEF Spec

(***************************************************************************)
(* No goroutine sends on a closed channel, closes one twice, or comes back *)
(* from a call with neither an answer nor an error (handleResponse,        *)
(* closePendingCallsLocked, Call), with any number of handlers and callers.*)
(***************************************************************************)
THEOREM Channels == Spec => []ChannelsOwned
<1>1. AsyncInv => ChannelsOwned
  BY DEF AsyncInv, ChannelsOwned, TypeOK, ChannelInv, InHand
<1> QED
  BY <1>1, AsyncInvariant, PTL

(***************************************************************************)
(* The terminal error reaches Run's caller and everybody who waits, and    *)
(* recordRequestError never blocks with pendingMu in its hands.            *)
(***************************************************************************)
THEOREM Errors == Spec => []ErrorReaches
<1>1. AsyncInv => ErrorReaches
  BY DEF AsyncInv, ErrorReaches, TypeOK, ChannelInv, CauseInv, InHand, FirstCause
<1> QED
  BY <1>1, AsyncInvariant, PTL

-----------------------------------------------------------------------------
(* The synchronous connection, for any calls with any methods, with and    *)
(* without notifications while a call is served.                           *)

\* Calls and requests have names of their own; and notifications come while a
\* call is served only where one call is made.
SyncNames ==
    /\ Request \cap SyncCall = {}
    /\ {Sync!Run, Sync!Free} \cap (Request \cup SyncCall) = {}
OneCall == \A m \in SyncMixes : m.notes => \E c : m.calls = {c}

Item == Request \cup SyncCall
Message == [kind : {"request", "notification", "response"}, of : Item]
Frame == [by : SyncCall \cup {Sync!Run, Sync!Free}, depth : Int, note : BOOLEAN]
Places == {"none", "call", "lock", "read", "handle", "relock", "done", "failed"}
Serving(c) == at[c] \in {"read", "handle", "relock"}
OpenRequest(r) == frame[r].by # Sync!Free /\ ~frame[r].note
OpenNote(r) == frame[r].by # Sync!Free /\ frame[r].note

(***************************************************************************)
(* The stack: what the server has open, a request, the call one of its     *)
(* handler's goroutines made, the request the client sent to serve that,   *)
(* and so on.                                                              *)
(***************************************************************************)
Stacked(s) ==
    /\ \A i \in 1 .. Len(s) : s[i] \in Request =>
         /\ OpenRequest(s[i]) /\ i = 2 * frame[s[i]].depth + 1
         /\ frame[s[i]].by = IF i = 1 THEN Sync!Run ELSE s[i - 1]
    /\ \A i \in 1 .. Len(s) : s[i] \in SyncCall =>
         /\ Serving(s[i]) /\ i = 2 * depth[s[i]]
         /\ i < Len(s) => at[s[i]] = "handle"
    /\ \A r \in Request : OpenRequest(r) =>
         2 * frame[r].depth + 1 \in 1 .. Len(s) /\ s[2 * frame[r].depth + 1] = r
    /\ \A c \in SyncCall : Serving(c) => 2 * depth[c] \in 1 .. Len(s) /\ s[2 * depth[c]] = c

TopCall(s) == Len(s) > 0 /\ s[Len(s)] \in SyncCall
TopRequest(s) == Len(s) > 0 /\ s[Len(s)] \in Request

\* The mutex, and the fields it protects, as the top of the stack has them.
Locked(s) ==
    /\ Len(s) = 2 * syncCalls \/ Len(s) = 2 * syncCalls + 1
    /\ Len(s) = 0 =>
         /\ at[Sync!Run] \in {"lock", "read", "handle"} /\ ~reading
         /\ mu = IF at[Sync!Run] = "read" THEN Sync!Run ELSE Sync!Free
    /\ Len(s) > 0 => at[Sync!Run] = "handle"
    /\ TopRequest(s) => ~reading /\ mu = Sync!Free
    /\ TopCall(s) =>
         LET c == s[Len(s)] IN
         \/ /\ at[c] \in {"read", "relock"} /\ reading
            /\ mu = IF at[c] = "read" THEN c ELSE Sync!Free
         \/ at[c] = "handle" /\ ~reading /\ mu = Sync!Free /\ mix.notes

\* A notification is handled at the top of the stack, one at a time.
Noted(s) ==
    /\ \A r \in Request : OpenNote(r) =>
         /\ ~TopRequest(s)
         /\ frame[r].by = IF Len(s) = 0 THEN Sync!Run ELSE s[Len(s)]
         /\ at[frame[r].by] = "handle"
         /\ 2 * frame[r].depth = Len(s)
    /\ \A q, r \in Request : OpenNote(q) /\ OpenNote(r) => q = r

\* What is on its way to the server: notifications, and one more message.
Sent(s) ==
    /\ \A i \in 1 .. Len(toServer) :
         LET m == toServer[i] IN
         /\ i < Len(toServer) => m.kind = "notification"
         /\ m.kind # "response" => m.of \in Request /\ frame[m.of].by = Sync!Free
         /\ m.kind = "notification" => ~TopRequest(s) /\ (Len(s) > 0 => mix.notes)
    /\ \A i, j \in 1 .. Len(toServer) : toServer[i].of = toServer[j].of => i = j

LastIs(kind) == toServer # <<>> /\ toServer[Len(toServer)].kind = kind
OnlyNotes == toServer = <<>> \/ LastIs("notification")

\* The first n of the client's stack are the server's.
Agree(s, n) == \A i \in 1 .. n : client[i] = s[i]

(***************************************************************************)
(* The client has the server's stack; but for a request or an answer that  *)
(* is on its way.                                                          *)
(***************************************************************************)
Ahead(s)  == Len(client) = Len(s) + 1 /\ Agree(s, Len(s)) /\ ~TopRequest(s) /\ client[Len(client)] \in Request
Behind(s) == Len(s) = Len(client) + 1 /\ Agree(s, Len(client)) /\ TopCall(s)

Phase(s) ==
    \/ OnlyNotes /\ toClient = <<>> /\ Len(client) = Len(s) /\ Agree(s, Len(s))
    \/ LastIs("request") /\ toClient = <<>> /\ Ahead(s) /\ toServer[Len(toServer)].of = client[Len(client)]
    \/ LastIs("response") /\ toClient = <<>> /\ Behind(s) /\ toServer[Len(toServer)].of = s[Len(s)]
    \/ toServer = <<>> /\ Behind(s) /\ toClient = <<s[Len(s)]>>
    \/ toServer = <<>> /\ Ahead(s) /\ toClient = <<client[Len(client)]>>

\* A call that is made is one of this behaviour's.
CallersInv == mix \in SyncMixes /\ \A c \in SyncCall : at[c] # "none" => c \in mix.calls

CallsInv ==
    /\ \A c \in SyncCall : at[c] = "call" => parent[c] \in Request /\ OpenRequest(parent[c])
    /\ \A c \in SyncCall : at[c] = "done" => got[c] = c
    /\ wrong = FALSE

SyncType ==
    /\ client \in Seq(Item) /\ toClient \in Seq(Item) /\ toServer \in Seq(Message)
    /\ syncCalls \in Int /\ reading \in BOOLEAN /\ wrong \in BOOLEAN
    /\ mu \in SyncCall \cup {Sync!Run, Sync!Free}
    /\ at \in [{Sync!Run} \cup SyncCall -> Places]
    /\ frame \in [Request -> Frame]
    /\ depth \in [SyncCall -> Int]
    /\ parent \in [SyncCall -> Request \cup {Sync!Free}]
    /\ got \in [SyncCall -> Item \cup {Sync!Free}]
    /\ \A c \in SyncCall : at[c] \notin {"lock", "failed"}

StackInv(s) == Stacked(s) /\ Locked(s) /\ Noted(s) /\ Sent(s) /\ Phase(s)

SyncInv == SyncType /\ CallersInv /\ CallsInv /\ \E s \in Seq(Item) : StackInv(s)

-----------------------------------------------------------------------------
(* What a step does to a sequence.                                         *)

LEMMA PushFacts ==
    ASSUME NEW S, NEW s \in Seq(S), NEW x \in S
    PROVE  /\ Append(s, x) \in Seq(S) /\ Len(Append(s, x)) = Len(s) + 1 /\ Len(s) \in Nat
           /\ Append(s, x)[Len(s) + 1] = x
           /\ \A i \in 1 .. Len(s) : Append(s, x)[i] = s[i]
  OBVIOUS

LEMMA PopFacts ==
    ASSUME NEW S, NEW s \in Seq(S), s # <<>>
    PROVE  LET t == SubSeq(s, 1, Len(s) - 1) IN
           /\ t \in Seq(S) /\ Len(t) = Len(s) - 1 /\ Len(s) \in Nat \ {0}
           /\ \A i \in 1 .. Len(s) - 1 : t[i] = s[i]
  <1>1. Len(s) \in Nat /\ Len(s) # 0
    BY EmptySeq
  <1>2. \A i \in 1 .. Len(s) - 1 : s[i] \in S
    BY <1>1
  <1> DEFINE n == Len(s) - 1
  <1>3. n \in Int /\ (1 <= n \/ n = 0)
    <2>1. \A k \in Nat : k # 0 => k - 1 \in Int /\ (1 <= k - 1 \/ k - 1 = 0)
      OBVIOUS
    <2> QED BY <1>1, <2>1
  <1>4. /\ SubSeq(s, 1, n) \in Seq(S)
        /\ Len(SubSeq(s, 1, n)) = IF 1 <= n THEN n - 1 + 1 ELSE 0
        /\ \A i \in 1 .. n - 1 + 1 : SubSeq(s, 1, n)[i] = s[1 + i - 1]
    BY <1>2, <1>3, SubSeqProperties
  <1> HIDE DEF n
  <1>5. n - 1 + 1 = n /\ \A i \in 1 .. n : 1 + i - 1 = i
    BY <1>3
  <1>6. /\ Len(SubSeq(s, 1, n)) = n
        /\ \A i \in 1 .. n : SubSeq(s, 1, n)[i] = s[i]
    BY <1>3, <1>4, <1>5
  <1> QED BY <1>1, <1>4, <1>6 DEF n

LEMMA RestFacts ==
    ASSUME NEW S, NEW s \in Seq(S), s # <<>>
    PROVE  /\ Tail(s) \in Seq(S) /\ Len(Tail(s)) = Len(s) - 1 /\ Len(s) \in Nat \ {0}
           /\ Head(s) = s[1] /\ Head(s) \in S
           /\ \A i \in 1 .. Len(Tail(s)) : Tail(s)[i] = s[i + 1]
  OBVIOUS

-----------------------------------------------------------------------------
(* Each step keeps the types.                                              *)

LEMMA SyncTypes == SyncNames /\ SyncType /\ [Sync!Next]_Sync!vars => SyncType'
<1> SUFFICES ASSUME SyncNames, SyncType, [Sync!Next]_Sync!vars PROVE SyncType'
  OBVIOUS
<1>0. Sync!Run \notin SyncCall /\ Sync!Free \notin SyncCall
  BY DEF SyncNames
<1> USE <1>0 DEF SyncType, Item
<1>1. ASSUME NEW r \in Request, Sync!Sends(r) PROVE SyncType'
  <2>1. [kind |-> "request", of |-> r] \in Message /\ [kind |-> "notification", of |-> r] \in Message
    BY DEF Message
  <2>2. Append(toServer, [kind |-> "request", of |-> r]) \in Seq(Message)
         /\ Append(toServer, [kind |-> "notification", of |-> r]) \in Seq(Message)
    BY <2>1, PushFacts
  <2>3. toServer' \in Seq(Message)
    BY <1>1, <2>2 DEF Sync!Sends
  <2>5. Append(client, r) \in Seq(Item)
    BY PushFacts
  <2>4. client' \in Seq(Item)
    BY <1>1, <2>5 DEF Sync!Sends
  <2> QED
    BY <1>1, <2>3, <2>4 DEF Sync!Sends
<1>2. CASE Sync!Reads
  <2>1. client # <<>>
    BY <1>2, SyncNames DEF Sync!Reads, Sync!Top, SyncNames
  <2>2. SubSeq(client, 1, Len(client) - 1) \in Seq(Item)
    BY <2>1, PopFacts
  <2>3. Head(toClient) \in Item /\ Tail(toClient) \in Seq(Item)
    BY <1>2, RestFacts DEF Sync!Reads
  <2>4. client' \in Seq(Item) /\ toClient' \in Seq(Item) /\ wrong' \in BOOLEAN
    BY <1>2, <2>2, <2>3 DEF Sync!Reads, Sync!Popped
  <2> QED
    BY <1>2, <2>4 DEF Sync!Reads
<1>3. CASE Sync!Answers
  <2>1. client # <<>>
    BY <1>3 DEF Sync!Answers, Sync!Top
  <2>2. client' \in Seq(Item)
    BY <1>3, <2>1, PopFacts DEF Sync!Answers, Sync!Popped
  <2>3. [kind |-> "response", of |-> Sync!Top] \in Message
    BY <1>3 DEF Sync!Answers, Message
  <2> QED
    BY <1>3, <2>2, <2>3 DEF Sync!Answers
<1>4. CASE Sync!RunLocks
  BY <1>4 DEF Sync!RunLocks, Places
<1>5. CASE Sync!RunReads
  <2>1. Head(toServer) \in Message /\ toServer' \in Seq(Message)
    BY <1>5, RestFacts DEF Sync!RunReads
  <2>2. wrong' \in BOOLEAN /\ at' \in [{Sync!Run} \cup SyncCall -> Places] /\ \A c \in SyncCall : at'[c] = at[c]
    BY <1>5 DEF Sync!RunReads, Sync!Handle, Places
  <2>3. ASSUME NEW m \in Message,
               frame' = [frame EXCEPT ![m.of] = [by |-> Sync!Run, depth |-> 0, note |-> m.kind = "notification"]]
         PROVE  frame' \in [Request -> Frame]
    <3>1. (m.kind = "notification") \in BOOLEAN
      OBVIOUS
    <3>2. \A b \in BOOLEAN : [by |-> Sync!Run, depth |-> 0, note |-> b] \in Frame
      BY DEF Frame
    <3> QED
      BY <2>3, <3>1, <3>2
  <2>4. frame' \in [Request -> Frame]
    BY <1>5, <2>1, <2>3 DEF Sync!RunReads, Sync!Handle
  <2> QED
    BY <1>5, <2>1, <2>2, <2>4 DEF Sync!RunReads
<1>6. ASSUME NEW c \in SyncCall, Sync!CallReads(c) PROVE SyncType'
  <2>1. Head(toServer) \in Message /\ toServer' \in Seq(Message)
    BY <1>6, RestFacts DEF Sync!CallReads
  <2>2. wrong' \in BOOLEAN /\ at' \in [{Sync!Run} \cup SyncCall -> Places]
         /\ \A e \in SyncCall : at'[e] \notin {"lock", "failed"}
    BY <1>6 DEF Sync!CallReads, Sync!Handle, Sync!CallEnds, Places
  <2>3. ASSUME NEW m \in Message,
               frame' = [frame EXCEPT ![m.of] = [by |-> c, depth |-> depth[c], note |-> m.kind = "notification"]]
         PROVE  frame' \in [Request -> Frame]
    <3>1. (m.kind = "notification") \in BOOLEAN
      OBVIOUS
    <3>2. \A b \in BOOLEAN : [by |-> c, depth |-> depth[c], note |-> b] \in Frame
      BY DEF Frame
    <3> QED
      BY <2>3, <3>1, <3>2
  <2>6. frame' \in [Request -> Frame]
    BY <1>6, <2>1, <2>3 DEF Sync!CallReads, Sync!Handle
  <2>4. got' \in [SyncCall -> Item \cup {Sync!Free}]
    BY <1>6, <2>1 DEF Sync!CallReads, Message
  <2>5. syncCalls' \in Int /\ reading' = FALSE /\ mu' = Sync!Free
    BY <1>6 DEF Sync!CallReads, Sync!CallEnds
  <2> QED
    BY <1>6, <2>1, <2>2, <2>3, <2>4, <2>5, <2>6 DEF Sync!CallReads
<1>7. ASSUME NEW c \in SyncCall, Sync!Calls(c) PROVE SyncType'
  <2>1. toClient' \in Seq(Item)
    BY <1>7 DEF Sync!Calls
  <2> QED
    BY <1>7, <2>1 DEF Sync!Calls, Places
<1>8. ASSUME NEW c \in SyncCall, Sync!Relock(c) PROVE SyncType'
  BY <1>8 DEF Sync!Relock, Places
<1>9. ASSUME NEW c \in SyncCall, NEW r \in Request, Sync!Starts(c, r) PROVE SyncType'
  BY <1>9 DEF Sync!Starts, Places
<1>10. ASSUME NEW r \in Request, Sync!AnswerRequest(r) PROVE SyncType'
  <2>1. toClient' \in Seq(Item)
    BY <1>10 DEF Sync!AnswerRequest
  <2>2. frame' \in [Request -> Frame]
    BY <1>10 DEF Sync!AnswerRequest, Sync!Over, Frame
  <2>3. frame[r].by \in SyncCall \cup {Sync!Run} /\ frame[r].depth \in Int
    BY <1>10 DEF Sync!AnswerRequest, Sync!Current, Frame
  <2>4. at' \in [{Sync!Run} \cup SyncCall -> Places] /\ \A c \in SyncCall : at'[c] \notin {"lock", "failed"}
    BY <1>10, <2>3 DEF Sync!AnswerRequest, Places
  <2> QED
    BY <1>10, <2>1, <2>2, <2>3, <2>4 DEF Sync!AnswerRequest
<1>11. ASSUME NEW r \in Request, Sync!NotificationOver(r) PROVE SyncType'
  <2>0. frame' = [frame EXCEPT ![r].by = Sync!Free]
    BY <1>11 DEF Sync!NotificationOver, Sync!Over
  <2>1. frame' \in [Request -> Frame]
    BY <2>0 DEF Frame
  <2>2. at' \in [{Sync!Run} \cup SyncCall -> Places] /\ (\A c \in SyncCall : at'[c] \notin {"lock", "failed"})
         /\ mu' \in SyncCall \cup {Sync!Run, Sync!Free} /\ reading' \in BOOLEAN
    BY <1>11 DEF Sync!NotificationOver, Places, Frame
  <2> QED
    BY <1>11, <2>1, <2>2 DEF Sync!NotificationOver
<1>12. CASE UNCHANGED Sync!vars
  BY <1>12 DEF Sync!vars
<1> QED
  BY <1>1, <1>2, <1>3, <1>4, <1>5, <1>6, <1>7, <1>8, <1>9, <1>10, <1>11, <1>12
     DEF Sync!Next, Sync!Client, Sync!Server, Sync!Quiet

-----------------------------------------------------------------------------
(* The top of the two stacks.                                              *)

LEMMA Names ==
    SyncNames => /\ Sync!Run \notin Item /\ Sync!Free \notin Item /\ Request \cap SyncCall = {}
                 /\ Sync!Run # Sync!Free
  BY DEF SyncNames, Item, Sync!Run, Sync!Free

\* A request is at an odd place of the stack, a call at an even one.
LEMMA Tops ==
    ASSUME SyncNames, SyncType, NEW s \in Seq(Item), Stacked(s), Locked(s)
    PROVE  /\ Len(s) \in Nat /\ syncCalls \in Int
           /\ TopRequest(s) <=> Len(s) = 2 * syncCalls + 1
           /\ Len(s) = 0 \/ TopCall(s) <=> Len(s) = 2 * syncCalls
           /\ ~(TopRequest(s) /\ TopCall(s))
           /\ Len(s) > 0 => TopRequest(s) \/ TopCall(s)
  <1> DEFINE n == Len(s)
  <1>1. n \in Nat /\ syncCalls \in Int /\ \A i \in 1 .. n : s[i] \in Item
    BY DEF SyncType
  <1>2. n > 0 => n \in 1 .. n
    BY <1>1
  <1>3. ASSUME TopRequest(s) PROVE \E d \in Int : n = 2 * d + 1
    <2>1. s[n] \in Request /\ n = 2 * frame[s[n]].depth + 1
      BY <1>2, <1>3 DEF TopRequest, Stacked
    <2>2. frame[s[n]].depth \in Int
      BY <2>1 DEF SyncType, Frame
    <2> QED
      BY <2>1, <2>2
  <1>4. ASSUME TopCall(s) PROVE \E d \in Int : n = 2 * d
    <2>1. s[n] \in SyncCall /\ n = 2 * depth[s[n]]
      BY <1>2, <1>4 DEF TopCall, Stacked
    <2>2. depth[s[n]] \in Int
      BY <2>1 DEF SyncType
    <2> QED
      BY <2>1, <2>2
  <1>5. n > 0 => TopRequest(s) \/ TopCall(s)
    BY <1>1, <1>2 DEF TopRequest, TopCall, Item
  <1>6. ~(TopRequest(s) /\ TopCall(s))
    BY Names DEF TopRequest, TopCall
  <1>7. n = 2 * syncCalls \/ n = 2 * syncCalls + 1
    BY DEF Locked
  <1>8. TopRequest(s) \/ TopCall(s) => n > 0
    BY DEF TopRequest, TopCall
  <1> HIDE DEF n
  <1>9. n = 0 => n # 2 * syncCalls + 1
    BY <1>1
  <1>10. TopRequest(s) => n = 2 * syncCalls + 1
    BY <1>1, <1>3, <1>7
  <1>11. TopCall(s) => n = 2 * syncCalls
    BY <1>1, <1>4, <1>7
  <1>12. n = 2 * syncCalls => n # 2 * syncCalls + 1
    BY <1>1
  <1>13. n = 0 \/ n > 0
    BY <1>1
  <1> QED
    BY <1>1, <1>5, <1>6, <1>7, <1>8, <1>9, <1>10, <1>11, <1>12, <1>13 DEF n

\* The client is idle or in a call: it has the server's stack, and what it
\* sent are notifications.
LEMMA ClientFree ==
    ASSUME SyncNames, SyncType, NEW s \in Seq(Item), StackInv(s), Sync!Top \notin Request
    PROVE  OnlyNotes /\ toClient = <<>> /\ Len(client) = Len(s) /\ Agree(s, Len(s)) /\ ~TopRequest(s)
  <1>0. Len(s) \in Nat /\ Len(client) \in Nat /\ client \in Seq(Item)
    BY DEF SyncType
  <1>1. ~Ahead(s)
    <2> SUFFICES ASSUME Ahead(s) PROVE FALSE
      OBVIOUS
    <2>1. client # <<>> /\ client[Len(client)] \in Request
      BY <1>0 DEF Ahead
    <2> QED
      BY <2>1 DEF Sync!Top
  <1>2. ~Behind(s)
    <2> SUFFICES ASSUME Behind(s) PROVE FALSE
      OBVIOUS
    <2>1. TopCall(s) /\ Len(s) = Len(client) + 1 /\ Agree(s, Len(client)) /\ Len(s) \in 1 .. Len(s)
      BY <1>0 DEF Behind
    <2>2. Serving(s[Len(s)]) /\ Len(s) = 2 * depth[s[Len(s)]] /\ depth[s[Len(s)]] \in Int
      BY <2>1 DEF StackInv, Stacked, TopCall, SyncType
    <2>3. Len(client) # 0 /\ Len(client) \in 1 .. Len(s)
      BY <1>0, <2>1, <2>2
    <2>4. s[Len(client)] \in SyncCall => Len(client) = 2 * depth[s[Len(client)]] /\ depth[s[Len(client)]] \in Int
      BY <2>3 DEF StackInv, Stacked, SyncType
    <2>5. s[Len(client)] \notin SyncCall
      BY <1>0, <2>1, <2>2, <2>4
    <2>6. s[Len(client)] \in Request
      BY <2>3, <2>5 DEF Item
    <2>7. client[Len(client)] \in Request /\ client # <<>>
      BY <1>0, <2>1, <2>3, <2>6 DEF Agree
    <2> QED
      BY <2>7 DEF Sync!Top
  <1>3. OnlyNotes /\ toClient = <<>> /\ Len(client) = Len(s) /\ Agree(s, Len(s))
    BY <1>1, <1>2 DEF StackInv, Phase
  <1>4. ~TopRequest(s)
    BY <1>0, <1>3 DEF TopRequest, Agree, Sync!Top
  <1> QED
    BY <1>3, <1>4

-----------------------------------------------------------------------------
(* The client's steps: the server's stack stays.                           *)

serverVars == <<mu, syncCalls, reading, at, frame, depth>>

LEMMA ServerStays ==
    ASSUME NEW s \in Seq(Item), UNCHANGED serverVars, mix' = mix, StackInv(s)
    PROVE  Stacked(s)' /\ Locked(s)' /\ Noted(s)'
  <1>1. \A r \in Request : (OpenRequest(r)' <=> OpenRequest(r)) /\ (OpenNote(r)' <=> OpenNote(r))
    BY DEF serverVars, OpenRequest, OpenNote
  <1>2. \A c \in SyncCall : Serving(c)' <=> Serving(c)
    BY DEF serverVars, Serving
  <1>3. Stacked(s)'
    BY <1>1, <1>2 DEF serverVars, StackInv, Stacked
  <1>4. Locked(s)'
    BY DEF serverVars, StackInv, Locked, TopRequest, TopCall
  <1>5. Noted(s)'
    BY <1>1 DEF serverVars, StackInv, Noted, TopRequest
  <1> QED
    BY <1>3, <1>4, <1>5

LEMMA SendsStack ==
    ASSUME SyncNames, SyncType, SyncType', mix' = mix, NEW s \in Seq(Item), StackInv(s), NEW r \in Request, Sync!Sends(r)
    PROVE  StackInv(s)'
<1>0. /\ client \in Seq(Item) /\ toServer \in Seq(Message)
      /\ Len(s) \in Nat /\ Len(toServer) \in Nat /\ Len(client) \in Nat
  BY DEF SyncType
<1>1. Sync!Top \notin Request
  BY Names DEF Sync!Sends, Item
<1>2. OnlyNotes /\ toClient = <<>> /\ Len(client) = Len(s) /\ Agree(s, Len(s)) /\ ~TopRequest(s)
  BY <1>1, ClientFree
<1>3. UNCHANGED serverVars /\ UNCHANGED toClient
  BY DEF Sync!Sends, serverVars
<1>4. PICK k \in {"request", "notification"} :
        /\ toServer' = Append(toServer, [kind |-> k, of |-> r])
        /\ k = "request" => client' = Append(client, r)
        /\ k = "notification" => (mix.notes \/ Sync!Top = Sync!Free) /\ client' = client
  BY DEF Sync!Sends
<1>5. /\ Len(toServer') = Len(toServer) + 1 /\ toServer'[Len(toServer) + 1] = [kind |-> k, of |-> r]
      /\ \A i \in 1 .. Len(toServer) : toServer'[i] = toServer[i]
  <2>1. [kind |-> k, of |-> r] \in Message
    BY DEF Message, Item
  <2> QED
    BY <1>0, <1>4, <2>1, PushFacts
<1>6. frame[r].by = Sync!Free /\ \A i \in 1 .. Len(toServer) : toServer[i].of # r
  BY DEF Sync!Sends, Sync!Fresh, Sync!NoFrame
<1>7. k = "notification" => (Len(s) > 0 => mix.notes)
  <2>1. client = <<>> \/ client[Len(client)] \in Item
    BY <1>0
  <2>2. Sync!Top = Sync!Free => Len(client) = 0
    BY <2>1, <1>0, Names DEF Sync!Top
  <2> QED
    BY <1>2, <1>4, <2>2
<1>8. \A i \in 1 .. Len(toServer) : toServer[i].kind = "notification"
  <2>1. toServer # <<>> => LastIs("notification")
    BY <1>2 DEF OnlyNotes
  <2> QED
    BY <1>0, <2>1 DEF StackInv, Sent, LastIs
<1>9. Sent(s)'
  <2>1. \A i \in 1 .. Len(toServer') : i \in 1 .. Len(toServer) \/ i = Len(toServer')
    BY <1>0, <1>5
  <2>2. ASSUME NEW i \in 1 .. Len(toServer)
        PROVE  /\ toServer[i].kind # "response" => toServer[i].of \in Request /\ frame[toServer[i].of].by = Sync!Free
               /\ toServer[i].kind = "notification" => ~TopRequest(s) /\ (Len(s) > 0 => mix.notes)
    BY <1>8 DEF StackInv, Sent
  <2>3. ASSUME NEW i \in 1 .. Len(toServer')
        PROVE  /\ i < Len(toServer') => toServer'[i].kind = "notification"
               /\ toServer'[i].kind # "response" => toServer'[i].of \in Request /\ frame[toServer'[i].of].by = Sync!Free
               /\ toServer'[i].kind = "notification" => ~TopRequest(s) /\ (Len(s) > 0 => mix.notes)
    <3>1. CASE i \in 1 .. Len(toServer)
      BY <1>5, <1>8, <2>2, <3>1
    <3>2. CASE i = Len(toServer')
      BY <1>2, <1>5, <1>6, <1>7, <3>2
    <3> QED
      BY <2>1, <3>1, <3>2
  <2>4. \A i, j \in 1 .. Len(toServer) : toServer[i].of = toServer[j].of => i = j
    BY DEF StackInv, Sent
  <2>5. \A i, j \in 1 .. Len(toServer') : toServer'[i].of = toServer'[j].of => i = j
    <3>1. \A i \in 1 .. Len(toServer) : toServer'[i].of = toServer[i].of /\ toServer'[i].of # r
      BY <1>5, <1>6
    <3>2. toServer'[Len(toServer')].of = r
      BY <1>5
    <3> QED
      BY <2>1, <2>4, <3>1, <3>2
  <2>6. TopRequest(s)' <=> TopRequest(s)
    BY DEF TopRequest
  <2> QED
    BY <1>3, <2>3, <2>5, <2>6 DEF Sent, serverVars
<1>10. Phase(s)'
  <2>0. /\ toServer' # <<>> /\ Len(toServer') \in Nat
        /\ toServer'[Len(toServer')].kind = k /\ toServer'[Len(toServer')].of = r
    BY <1>0, <1>5
  <2>1. CASE k = "request"
    <3>1. /\ Len(client') = Len(client) + 1 /\ client'[Len(client) + 1] = r
          /\ \A i \in 1 .. Len(client) : client'[i] = client[i]
      BY <1>0, <1>4, <2>1, PushFacts DEF Item
    <3>2. Ahead(s)' /\ LastIs("request")'
      BY <1>0, <1>2, <2>0, <2>1, <3>1 DEF Ahead, LastIs, Agree, TopRequest
    <3> QED
      BY <1>2, <1>3, <2>0, <3>1, <3>2, <1>0 DEF Phase
  <2>2. CASE k = "notification"
    <3>1. OnlyNotes' /\ client' = client
      BY <1>4, <2>0, <2>2 DEF OnlyNotes, LastIs
    <3> QED
      BY <1>2, <1>3, <3>1 DEF Phase, Agree
  <2> QED
    BY <2>1, <2>2
<1> QED
  BY <1>3, <1>9, <1>10, ServerStays DEF StackInv

LEMMA ReadsStack ==
    ASSUME SyncNames, SyncType, SyncType', mix' = mix, NEW s \in Seq(Item), StackInv(s), Sync!Reads
    PROVE  StackInv(s)' /\ wrong' = wrong
<1>0. /\ client \in Seq(Item) /\ Len(s) \in Nat /\ Len(client) \in Nat \ {0} /\ client # <<>>
      /\ client[Len(client)] \in Request /\ toClient # <<>> /\ Sync!Top = client[Len(client)]
  BY Names DEF SyncType, Sync!Reads, Sync!Top, Item
<1>1. UNCHANGED serverVars /\ toServer' = toServer
  BY DEF Sync!Reads, serverVars
<1>2. toServer = <<>> /\ (\/ Behind(s) /\ toClient = <<s[Len(s)]>>
                          \/ Ahead(s) /\ toClient = <<client[Len(client)]>>)
  BY <1>0 DEF StackInv, Phase
<1>3. Sent(s)'
  BY <1>1, <1>2 DEF Sent
<1>4. CASE Behind(s) /\ toClient = <<s[Len(s)]>>
  <2>1. Head(toClient) = s[Len(s)] /\ Tail(toClient) = <<>> /\ s[Len(s)] \in SyncCall
    BY <1>4 DEF Behind, TopCall
  <2>2. client' = Append(client, s[Len(s)]) /\ toClient' = <<>> /\ wrong' = wrong
    BY <2>1, Names DEF Sync!Reads, SyncType
  <2>3. /\ Len(client') = Len(client) + 1 /\ client'[Len(client) + 1] = s[Len(s)]
        /\ \A i \in 1 .. Len(client) : client'[i] = client[i]
    BY <1>0, <2>1, <2>2, PushFacts DEF Item
  <2>4. Len(client') = Len(s) /\ Agree(s, Len(s))'
    BY <1>0, <1>4, <2>3 DEF Behind, Agree
  <2>5. Phase(s)'
    BY <1>1, <1>2, <2>2, <2>4 DEF Phase, OnlyNotes
  <2> QED
    BY <1>1, <1>3, <2>2, <2>5, ServerStays DEF StackInv
<1>5. CASE Ahead(s) /\ toClient = <<client[Len(client)]>>
  <2>1. Head(toClient) = client[Len(client)] /\ Tail(toClient) = <<>>
    BY <1>5
  <2>2. client' = SubSeq(client, 1, Len(client) - 1) /\ toClient' = <<>> /\ wrong' = wrong
    BY <1>0, <2>1, Names DEF Sync!Reads, SyncType, Sync!Popped
  <2>3. Len(client') = Len(client) - 1 /\ \A i \in 1 .. Len(client) - 1 : client'[i] = client[i]
    BY <1>0, <2>2, PopFacts
  <2>4. Len(client') = Len(s) /\ Agree(s, Len(s))'
    BY <1>0, <1>5, <2>3 DEF Ahead, Agree
  <2>5. Phase(s)'
    BY <1>1, <1>2, <2>2, <2>4 DEF Phase, OnlyNotes
  <2> QED
    BY <1>1, <1>3, <2>2, <2>5, ServerStays DEF StackInv
<1> QED
  BY <1>2, <1>4, <1>5

LEMMA AnswersStack ==
    ASSUME SyncNames, SyncType, SyncType', mix' = mix, NEW s \in Seq(Item), StackInv(s), Sync!Answers
    PROVE  StackInv(s)'
<1>0. /\ client \in Seq(Item) /\ toServer \in Seq(Message)
      /\ Len(s) \in Nat /\ Len(toServer) \in Nat /\ Len(client) \in Nat
  BY DEF SyncType
<1>1. Sync!Top \notin Request
  BY Names DEF Sync!Answers
<1>2. OnlyNotes /\ toClient = <<>> /\ Len(client) = Len(s) /\ Agree(s, Len(s)) /\ ~TopRequest(s)
  BY <1>1, ClientFree
<1>3. UNCHANGED serverVars /\ UNCHANGED toClient
  BY DEF Sync!Answers, serverVars
<1>4. client # <<>> /\ Sync!Top = client[Len(client)] /\ client[Len(client)] \in SyncCall
  BY Names DEF Sync!Answers, Sync!Top, Item
<1>5. PICK c \in SyncCall : c = s[Len(s)] /\ Sync!Top = c /\ Len(s) > 0
  BY <1>0, <1>2, <1>4 DEF Agree
<1>6. /\ Len(toServer') = Len(toServer) + 1 /\ toServer'[Len(toServer) + 1] = [kind |-> "response", of |-> c]
      /\ \A i \in 1 .. Len(toServer) : toServer'[i] = toServer[i]
  <2>1. [kind |-> "response", of |-> c] \in Message
    BY DEF Message, Item
  <2>2. toServer' = Append(toServer, [kind |-> "response", of |-> c])
    BY <1>5 DEF Sync!Answers
  <2> QED
    BY <1>0, <2>1, <2>2, PushFacts
<1>7. Len(client') = Len(client) - 1 /\ \A i \in 1 .. Len(client) - 1 : client'[i] = client[i]
  BY <1>0, <1>4, PopFacts DEF Sync!Answers, Sync!Popped
<1>8. \A i \in 1 .. Len(toServer) :
        toServer[i].kind = "notification" /\ toServer[i].of \in Request /\ toServer[i].of # c
  <2>1. toServer # <<>> => LastIs("notification")
    BY <1>2 DEF OnlyNotes
  <2>2. \A i \in 1 .. Len(toServer) : toServer[i].kind = "notification"
    BY <1>0, <2>1 DEF StackInv, Sent, LastIs
  <2> QED
    BY <2>2, Names DEF StackInv, Sent
<1>9. Sent(s)'
  <2>1. \A i \in 1 .. Len(toServer') : i \in 1 .. Len(toServer) \/ i = Len(toServer')
    BY <1>0, <1>6
  <2>2. ASSUME NEW i \in 1 .. Len(toServer)
        PROVE  /\ toServer[i].kind # "response" => toServer[i].of \in Request /\ frame[toServer[i].of].by = Sync!Free
               /\ toServer[i].kind = "notification" => ~TopRequest(s) /\ (Len(s) > 0 => mix.notes)
    BY <1>8 DEF StackInv, Sent
  <2>3. ASSUME NEW i \in 1 .. Len(toServer')
        PROVE  /\ i < Len(toServer') => toServer'[i].kind = "notification"
               /\ toServer'[i].kind # "response" => toServer'[i].of \in Request /\ frame[toServer'[i].of].by = Sync!Free
               /\ toServer'[i].kind = "notification" => ~TopRequest(s) /\ (Len(s) > 0 => mix.notes)
    <3>1. CASE i \in 1 .. Len(toServer)
      BY <1>6, <1>8, <2>2, <3>1
    <3>2. CASE i = Len(toServer')
      BY <1>6, <3>2
    <3> QED
      BY <2>1, <3>1, <3>2
  <2>4. \A i, j \in 1 .. Len(toServer) : toServer[i].of = toServer[j].of => i = j
    BY DEF StackInv, Sent
  <2>5. \A i, j \in 1 .. Len(toServer') : toServer'[i].of = toServer'[j].of => i = j
    <3>1. \A i \in 1 .. Len(toServer) : toServer'[i].of = toServer[i].of /\ toServer'[i].of # c
      BY <1>6, <1>8
    <3>2. toServer'[Len(toServer')].of = c
      BY <1>6
    <3> QED
      BY <2>1, <2>4, <3>1, <3>2
  <2>6. TopRequest(s)' <=> TopRequest(s)
    BY DEF TopRequest
  <2> QED
    BY <1>3, <2>3, <2>5, <2>6 DEF Sent, serverVars
<1>10. Phase(s)'
  <2>1. toServer' # <<>> /\ LastIs("response")' /\ toServer'[Len(toServer')].of = s[Len(s)]
    BY <1>0, <1>5, <1>6 DEF LastIs
  <2>2. Behind(s)'
    BY <1>0, <1>2, <1>5, <1>7 DEF Behind, Agree, TopCall
  <2> QED
    BY <1>2, <1>3, <2>1, <2>2 DEF Phase
<1> QED
  BY <1>3, <1>9, <1>10, ServerStays DEF StackInv

-----------------------------------------------------------------------------
(* The server's steps: where its goroutines are.                           *)

\* Who reads, or waits for the mutex, is at the top of the stack, and no
\* notification is handled.
LEMMA AtTop ==
    ASSUME SyncNames, SyncType, NEW s \in Seq(Item), StackInv(s), NEW g \in {Sync!Run} \cup SyncCall,
           at[g] \in {"lock", "read", "relock"}
    PROVE  /\ \/ g = Sync!Run /\ Len(s) = 0 /\ syncCalls = 0
              \/ g \in SyncCall /\ TopCall(s) /\ g = s[Len(s)] /\ Len(s) = 2 * depth[g] /\ Len(s) = 2 * syncCalls
           /\ ~TopRequest(s)
           /\ \A r \in Request : ~OpenNote(r)
  <1>0. Len(s) \in Nat /\ Stacked(s) /\ Locked(s) /\ Noted(s) /\ syncCalls \in Int
    BY DEF StackInv, SyncType
  <1>1. CASE g = Sync!Run
    <2>1. Len(s) = 0
      BY <1>0, <1>1 DEF Locked
    <2>2. ~TopRequest(s)
      BY <2>1 DEF TopRequest
    <2>3. syncCalls = 0
      BY <1>0, <2>1 DEF Locked
    <2> QED
      BY <1>0, <1>1, <2>1, <2>2, <2>3 DEF Noted
  <1>2. CASE g \in SyncCall
    <2>1. Serving(g)
      BY <1>2 DEF Serving, SyncType
    <2>2. 2 * depth[g] \in 1 .. Len(s) /\ s[2 * depth[g]] = g
      BY <1>0, <1>2, <2>1 DEF Stacked
    <2>3. 2 * depth[g] = Len(s)
      BY <1>0, <1>2, <2>2 DEF Stacked
    <2>4. TopCall(s) /\ g = s[Len(s)]
      BY <1>0, <1>2, <2>2, <2>3 DEF TopCall
    <2>5. ~TopRequest(s) /\ Len(s) = 2 * syncCalls
      BY <1>0, <2>4, Tops
    <2>6. \A r \in Request : ~OpenNote(r)
      BY <1>0, <2>2, <2>3, <2>4 DEF Noted
    <2> QED
      BY <1>2, <2>3, <2>4, <2>5, <2>6
  <1> QED
    BY <1>1, <1>2

\* A notification at the front is followed by what was behind it; anything
\* else is alone.
LEMMA HeadFacts ==
    ASSUME SyncType, NEW s \in Seq(Item), StackInv(s), toServer # <<>>
    PROVE  /\ Head(toServer) = toServer[1] /\ Head(toServer) \in Message /\ Len(toServer) \in Nat \ {0}
           /\ Head(toServer).kind # "notification" => Tail(toServer) = <<>> /\ LastIs(Head(toServer).kind)
  <1>1. /\ Head(toServer) = toServer[1] /\ Head(toServer) \in Message /\ Len(toServer) \in Nat \ {0}
        /\ Tail(toServer) \in Seq(Message) /\ Len(Tail(toServer)) = Len(toServer) - 1
    BY RestFacts DEF SyncType
  <1>2. ASSUME Head(toServer).kind # "notification" PROVE Len(toServer) = 1
    BY <1>1, <1>2 DEF StackInv, Sent
  <1>3. Len(toServer) = 1 => Tail(toServer) = <<>>
    <2>1. Len(toServer) = 1 => Len(Tail(toServer)) = 0
      BY <1>1
    <2> QED
      BY <1>1, <2>1, EmptySeq
  <1> QED
    BY <1>1, <1>2, <1>3 DEF LastIs

LEMMA RunLocksStack ==
    ASSUME SyncNames, SyncType, SyncType', mix' = mix, NEW s \in Seq(Item), StackInv(s), Sync!RunLocks
    PROVE  StackInv(s)'
<1>1. at[Sync!Run] = "lock" /\ mu' = Sync!Run /\ at' = [at EXCEPT ![Sync!Run] = "read"]
      /\ UNCHANGED <<toServer, toClient, client, syncCalls, reading, frame, depth>>
  BY DEF Sync!RunLocks
<1>2. Len(s) = 0 /\ syncCalls = 0 /\ \A r \in Request : ~OpenNote(r)
  BY <1>1, AtTop, Names DEF Item
<1>3. Stacked(s)'
  BY <1>1, <1>2 DEF StackInv, Stacked, OpenRequest, Serving, SyncType
<1>4. Locked(s)'
  BY <1>1, <1>2 DEF StackInv, Locked, TopRequest, TopCall, SyncType
<1>5. Noted(s)'
  BY <1>1, <1>2 DEF Noted, OpenNote
<1>6. Sent(s)'
  BY <1>1 DEF StackInv, Sent, TopRequest
<1>7. Phase(s)'
  BY <1>1 DEF StackInv, Phase, OnlyNotes, LastIs, Ahead, Behind, Agree, TopRequest, TopCall
<1> QED
  BY <1>3, <1>4, <1>5, <1>6, <1>7 DEF StackInv

LEMMA RelockStack ==
    ASSUME SyncNames, SyncType, SyncType', mix' = mix, NEW s \in Seq(Item), StackInv(s), NEW c \in SyncCall, Sync!Relock(c)
    PROVE  StackInv(s)'
<1>1. at[c] = "relock" /\ mu' = c /\ at' = [at EXCEPT ![c] = "read"]
      /\ UNCHANGED <<toServer, toClient, client, syncCalls, reading, frame, depth>>
  BY DEF Sync!Relock
<1>2. TopCall(s) /\ c = s[Len(s)] /\ ~TopRequest(s) /\ \A r \in Request : ~OpenNote(r)
  BY <1>1, AtTop, Names DEF Item
<1>3. Stacked(s)'
  <2>1. \A e \in SyncCall : (Serving(e)' <=> Serving(e)) /\ (at[e] = "handle" => at'[e] = "handle")
    BY <1>1 DEF Serving, SyncType
  <2> QED
    BY <1>1, <2>1 DEF StackInv, Stacked, OpenRequest
<1>4. Locked(s)'
  BY <1>1, <1>2, Names DEF StackInv, Locked, TopRequest, TopCall, SyncType, Item
<1>5. Noted(s)'
  BY <1>1, <1>2 DEF Noted, OpenNote
<1>6. Sent(s)'
  BY <1>1 DEF StackInv, Sent, TopRequest
<1>7. Phase(s)'
  BY <1>1 DEF StackInv, Phase, OnlyNotes, LastIs, Ahead, Behind, Agree, TopRequest, TopCall
<1> QED
  BY <1>3, <1>4, <1>5, <1>6, <1>7 DEF StackInv

LEMMA StartsStack ==
    ASSUME SyncNames, SyncType, SyncType', mix' = mix, NEW s \in Seq(Item), StackInv(s), NEW c \in SyncCall, NEW r \in Request,
           Sync!Starts(c, r)
    PROVE  StackInv(s)'
<1>1. at[c] = "none" /\ at' = [at EXCEPT ![c] = "call"]
      /\ UNCHANGED <<toServer, toClient, client, mu, syncCalls, reading, frame, depth>>
  BY DEF Sync!Starts
<1>2. \A e \in SyncCall : (Serving(e)' <=> Serving(e)) /\ (Serving(e) => at'[e] = at[e])
  BY <1>1 DEF Serving, SyncType
<1>3. at'[Sync!Run] = at[Sync!Run]
  BY <1>1, Names DEF SyncType, Item
<1>4. Stacked(s)'
  BY <1>1, <1>2 DEF StackInv, Stacked, OpenRequest
<1>5. Locked(s)'
  <2>1. TopCall(s) => Serving(s[Len(s)])
    BY DEF StackInv, Stacked, TopCall
  <2> QED
    BY <1>1, <1>2, <1>3, <2>1 DEF StackInv, Locked, TopRequest, TopCall
<1>6. Noted(s)'
  <2>1. \A g \in {Sync!Run} \cup SyncCall : at[g] = "handle" => at'[g] = "handle"
    BY <1>1 DEF SyncType
  <2>2. \A q \in Request : OpenNote(q) => frame[q].by \in {Sync!Run} \cup SyncCall
    BY DEF OpenNote, SyncType, Frame
  <2> QED
    BY <1>1, <2>1, <2>2 DEF StackInv, Noted, OpenNote, TopRequest
<1>7. Sent(s)'
  BY <1>1 DEF StackInv, Sent, TopRequest
<1>8. Phase(s)'
  BY <1>1 DEF StackInv, Phase, OnlyNotes, LastIs, Ahead, Behind, Agree, TopRequest, TopCall
<1> QED
  BY <1>4, <1>5, <1>6, <1>7, <1>8 DEF StackInv

(***************************************************************************)
(* Run, or a call, reads what the client sent: a request goes on top of    *)
(* the stack, a notification is handled beside it.                         *)
(***************************************************************************)
Handles(g, d, s) ==
    /\ \/ g = Sync!Run /\ Len(s) = 0
       \/ g \in SyncCall /\ TopCall(s) /\ g = s[Len(s)]
    /\ 2 * d = Len(s) /\ d = syncCalls
    /\ at[g] = "read" /\ toServer # <<>> /\ Head(toServer).kind # "response"
    /\ toServer' = Tail(toServer) /\ mu' = Sync!Free /\ reading' = FALSE
    /\ Sync!Handle(g, Head(toServer), d)
    /\ UNCHANGED <<toClient, client, syncCalls, depth>>

LEMMA HandlesStack ==
    ASSUME SyncNames, SyncType, SyncType', mix' = mix, NEW s \in Seq(Item), StackInv(s),
           NEW g \in {Sync!Run} \cup SyncCall, NEW d \in Int, Handles(g, d, s)
    PROVE  \E t \in Seq(Item) : StackInv(t)'
<1>0. Len(s) \in Nat /\ syncCalls \in Int /\ Len(client) \in Nat /\ client \in Seq(Item) /\ toServer \in Seq(Message)
  BY DEF SyncType
<1>1. ~TopRequest(s) /\ \A q \in Request : ~OpenNote(q)
  BY AtTop DEF Handles
<1>2. PICK m \in Message : m = Head(toServer)
  BY HeadFacts DEF Handles
<1>3. /\ m = toServer[1] /\ m.kind \in {"request", "notification"} /\ m.of \in Request
      /\ frame[m.of].by = Sync!Free
  <2>1. m = toServer[1] /\ m.kind # "response" /\ 1 \in 1 .. Len(toServer)
    BY <1>2, HeadFacts DEF Handles
  <2> QED
    BY <2>1 DEF Message, StackInv, Sent
<1>4. PICK r \in Request : r = m.of
  BY <1>3
<1>5. /\ frame' = [frame EXCEPT ![r] = [by |-> g, depth |-> d, note |-> m.kind = "notification"]]
      /\ at' = [at EXCEPT ![g] = "handle"]
  BY <1>2, <1>4 DEF Handles, Sync!Handle
<1>6. /\ frame'[r].by = g /\ frame'[r].depth = d /\ (frame'[r].note <=> m.kind = "notification")
      /\ \A q \in Request : q # r => frame'[q] = frame[q]
  BY <1>5 DEF SyncType
<1>7. at'[g] = "handle" /\ \A h \in {Sync!Run} \cup SyncCall : h # g => at'[h] = at[h]
  BY <1>5 DEF SyncType
<1>8. ~OpenRequest(r) /\ ~OpenNote(r) /\ g # Sync!Free
  BY <1>3, <1>4, Names DEF OpenRequest, OpenNote, Item
<1>9. /\ Len(toServer) \in Nat \ {0} /\ Len(toServer') = Len(toServer) - 1
      /\ \A i \in 1 .. Len(toServer') : toServer'[i] = toServer[i + 1]
  BY <1>0, RestFacts DEF Handles
<1>10. \A q \in Request : q # r => (OpenRequest(q)' <=> OpenRequest(q)) /\ (OpenNote(q)' <=> OpenNote(q))
  BY <1>6 DEF OpenRequest, OpenNote
<1>11. \A c \in SyncCall : (Serving(c)' <=> Serving(c)) /\ (at[c] = "handle" => at'[c] = "handle")
  BY <1>7 DEF Serving, Handles
<1>12. mu' = Sync!Free /\ reading' = FALSE /\ UNCHANGED <<toClient, client, syncCalls, depth>>
  BY DEF Handles
<1>13. \A c \in SyncCall : c # Sync!Run
  BY Names DEF Item
<1>14. CASE m.kind = "request"
  <2>1. PICK t \in Seq(Item) : t = Append(s, r)
    BY PushFacts DEF Item
  <2>2. Len(t) = Len(s) + 1 /\ t[Len(s) + 1] = r /\ \A i \in 1 .. Len(s) : t[i] = s[i]
    BY <2>1, PushFacts DEF Item
  <2>3. \A i \in 1 .. Len(t) : i \in 1 .. Len(s) \/ i = Len(s) + 1
    BY <1>0, <2>2
  <2>4. OpenRequest(r)' /\ ~OpenNote(r)'
    BY <1>6, <1>8, <1>14 DEF OpenRequest, OpenNote
  <2>5. Tail(toServer) = <<>> /\ LastIs("request")
    BY <1>2, <1>14, HeadFacts DEF Handles
  <2>6. Ahead(s) /\ r = client[Len(client)] /\ toClient = <<>>
    <3>1. Len(toServer) = 1
      <4>1. Len(toServer') = 0
        BY <2>5 DEF Handles
      <4> QED
        BY <1>9, <4>1
    <3>2. ~LastIs("notification") /\ ~LastIs("response") /\ toServer # <<>>
      BY <2>5 DEF LastIs
    <3> QED
      BY <1>3, <1>4, <3>1, <3>2 DEF StackInv, Phase, OnlyNotes
  <2>7. TopRequest(t) /\ ~TopCall(t) /\ Len(t) = 2 * syncCalls + 1 /\ Len(t) > 0
    <3>0. 2 * syncCalls = Len(s)
      BY DEF Handles
    <3>1. Len(t) = 2 * syncCalls + 1 /\ Len(t) > 0
      BY <1>0, <2>2, <3>0
    <3>2. t[Len(t)] = r /\ r \notin SyncCall
      BY <2>2, Names
    <3> QED
      BY <3>1, <3>2 DEF TopRequest, TopCall
  <2>8. Stacked(t)'
    <3>1. ASSUME NEW i \in 1 .. Len(t), t[i] \in Request
          PROVE  /\ OpenRequest(t[i])' /\ i = 2 * frame'[t[i]].depth + 1
                 /\ frame'[t[i]].by = IF i = 1 THEN Sync!Run ELSE t[i - 1]
      <4>1. CASE i \in 1 .. Len(s)
        <5>1. t[i] = s[i] /\ (i # 1 => t[i - 1] = s[i - 1])
          BY <1>0, <2>2, <4>1
        <5>2. /\ OpenRequest(s[i]) /\ i = 2 * frame[s[i]].depth + 1
              /\ frame[s[i]].by = IF i = 1 THEN Sync!Run ELSE s[i - 1]
          BY <3>1, <4>1, <5>1 DEF StackInv, Stacked
        <5>3. s[i] # r /\ s[i] \in Request
          BY <1>8, <3>1, <5>1, <5>2
        <5> QED
          BY <1>6, <1>10, <5>1, <5>2, <5>3
      <4>2. CASE i = Len(s) + 1
        <5>1. t[i] = r /\ i = 2 * d + 1
          BY <2>2, <4>2 DEF Handles
        <5>2. g = IF i = 1 THEN Sync!Run ELSE t[i - 1]
          <6>1. CASE Len(s) = 0
            BY <4>2, <6>1 DEF Handles, TopCall
          <6>2. CASE Len(s) > 0
            BY <1>0, <2>2, <4>2, <6>2 DEF Handles
          <6> QED
            BY <1>0, <6>1, <6>2
        <5> QED
          BY <1>6, <2>4, <5>1, <5>2
      <4> QED
        BY <2>3, <4>1, <4>2
    <3>2. ASSUME NEW i \in 1 .. Len(t), t[i] \in SyncCall
          PROVE  /\ Serving(t[i])' /\ i = 2 * depth'[t[i]]
                 /\ i < Len(t) => at'[t[i]] = "handle"
      <4>1. i \in 1 .. Len(s) /\ t[i] = s[i]
        BY <2>2, <2>3, <3>2, Names
      <4>2. Serving(s[i]) /\ i = 2 * depth[s[i]] /\ (i < Len(s) => at[s[i]] = "handle")
        BY <3>2, <4>1 DEF StackInv, Stacked
      <4>3. i = Len(s) => s[i] = g
        BY <3>2, <4>1, <1>0 DEF Handles
      <4>4. at'[s[i]] = "handle"
        BY <1>0, <1>7, <1>11, <3>2, <4>1, <4>2, <4>3
      <4> QED
        BY <1>11, <1>12, <3>2, <4>1, <4>2, <4>4
    <3>3. ASSUME NEW q \in Request, OpenRequest(q)'
          PROVE  2 * frame'[q].depth + 1 \in 1 .. Len(t) /\ t[2 * frame'[q].depth + 1] = q
      <4>1. CASE q = r
        <5>1. 2 * d + 1 = Len(s) + 1 /\ Len(s) + 1 \in 1 .. Len(t)
          BY <1>0, <2>2 DEF Handles
        <5> QED
          BY <1>6, <2>2, <4>1, <5>1
      <4>2. CASE q # r
        <5>1. 2 * frame[q].depth + 1 \in 1 .. Len(s) /\ s[2 * frame[q].depth + 1] = q /\ frame'[q] = frame[q]
          BY <1>6, <1>10, <3>3, <4>2 DEF StackInv, Stacked
        <5> QED
          BY <1>0, <2>2, <5>1
      <4> QED
        BY <4>1, <4>2
    <3>4. ASSUME NEW c \in SyncCall, Serving(c)' PROVE 2 * depth'[c] \in 1 .. Len(t) /\ t[2 * depth'[c]] = c
      <4>1. 2 * depth[c] \in 1 .. Len(s) /\ s[2 * depth[c]] = c /\ depth'[c] = depth[c]
        BY <1>11, <1>12, <3>4 DEF StackInv, Stacked
      <4> QED
        BY <1>0, <2>2, <4>1
    <3> QED
      BY <3>1, <3>2, <3>3, <3>4 DEF Stacked
  <2>9. Locked(t)'
    <3>1. at'[Sync!Run] = "handle"
      BY <1>7 DEF StackInv, Locked, Handles, TopCall
    <3> QED
      BY <1>12, <2>7, <3>1 DEF Locked, TopRequest, TopCall
  <2>10. Noted(t)'
    <3>1. \A q \in Request : ~OpenNote(q)'
      BY <1>1, <1>10, <2>4
    <3> QED
      BY <3>1 DEF Noted
  <2>11. toServer' = <<>>
    BY <2>5 DEF Handles
  <2>12. Sent(t)'
    BY <2>11 DEF Sent
  <2>13. Phase(t)'
    <3>1. Len(client') = Len(t) /\ Agree(t, Len(t))'
      BY <1>0, <1>12, <2>2, <2>3, <2>6 DEF Ahead, Agree
    <3> QED
      BY <1>12, <2>6, <2>11, <3>1 DEF Phase, OnlyNotes
  <2> QED
    BY <2>8, <2>9, <2>10, <2>12, <2>13 DEF StackInv
<1>15. CASE m.kind = "notification"
  <2>1. Len(s) > 0 => mix.notes
    <3>1. 1 \in 1 .. Len(toServer) /\ toServer[1].kind = "notification"
      BY <1>3, <1>9, <1>15
    <3> QED
      BY <3>1 DEF StackInv, Sent
  <2>2. ~OpenRequest(r)' /\ OpenNote(r)'
    BY <1>6, <1>8, <1>15 DEF OpenRequest, OpenNote
  <2>3. Stacked(s)'
    <3>1. \A q \in Request : (OpenRequest(q)' <=> OpenRequest(q)) /\ (OpenRequest(q) => frame'[q] = frame[q])
      BY <1>6, <1>8, <1>10, <2>2
    <3> QED
      BY <1>11, <1>12, <3>1 DEF StackInv, Stacked
  <2>4. Locked(s)'
    <3>1. Len(s) = 0 => g = Sync!Run
      BY DEF Handles, TopCall
    <3>2. Len(s) > 0 => at'[Sync!Run] = "handle"
      BY <1>7, <1>13 DEF StackInv, Locked
    <3>3. TopCall(s) => at'[s[Len(s)]] = "handle"
      BY <1>7 DEF Handles, TopCall
    <3> QED
      BY <1>0, <1>1, <1>7, <1>12, <2>1, <3>1, <3>2, <3>3 DEF StackInv, Locked, TopRequest, TopCall
  <2>5. Noted(s)'
    <3>1. \A q \in Request : OpenNote(q)' => q = r
      BY <1>1, <1>10
    <3>2. frame'[r].by = IF Len(s) = 0 THEN Sync!Run ELSE s[Len(s)]
      BY <1>6 DEF Handles, TopCall
    <3>3. 2 * frame'[r].depth = Len(s)
      BY <1>6 DEF Handles
    <3> QED
      BY <1>1, <1>6, <1>7, <3>1, <3>2, <3>3 DEF Noted, TopRequest
  <2>6. Sent(s)'
    <3>1. \A i \in 1 .. Len(toServer') : i + 1 \in 1 .. Len(toServer) /\ toServer'[i] = toServer[i + 1]
      BY <1>9
    <3>2. \A i \in 1 .. Len(toServer) : toServer[i].of = r => i = 1
      BY <1>3, <1>4, <1>9 DEF StackInv, Sent
    <3>3. ASSUME NEW i \in 1 .. Len(toServer')
          PROVE  /\ i < Len(toServer') => toServer'[i].kind = "notification"
                 /\ toServer'[i].kind # "response" =>
                      toServer'[i].of \in Request /\ frame'[toServer'[i].of].by = Sync!Free
                 /\ toServer'[i].kind = "notification" => ~TopRequest(s) /\ (Len(s) > 0 => mix.notes)
      <4>1. PICK j \in 1 .. Len(toServer) : j = i + 1
        BY <3>1
      <4>2. toServer'[i] = toServer[j] /\ toServer[j].of # r /\ (i < Len(toServer') => j < Len(toServer))
        BY <1>9, <3>1, <3>2, <4>1
      <4>3. /\ j < Len(toServer) => toServer[j].kind = "notification"
            /\ toServer[j].kind # "response" => toServer[j].of \in Request /\ frame[toServer[j].of].by = Sync!Free
            /\ toServer[j].kind = "notification" => ~TopRequest(s) /\ (Len(s) > 0 => mix.notes)
        BY DEF StackInv, Sent
      <4> QED
        BY <1>6, <4>2, <4>3
    <3>4. \A i, j \in 1 .. Len(toServer') : toServer'[i].of = toServer'[j].of => i = j
      <4> SUFFICES ASSUME NEW i \in 1 .. Len(toServer'), NEW j \in 1 .. Len(toServer'),
                          toServer'[i].of = toServer'[j].of
                   PROVE  i = j
        OBVIOUS
      <4>1. i + 1 = j + 1
        BY <3>1 DEF StackInv, Sent
      <4> QED
        BY <4>1, <1>9
    <3> QED
      BY <3>3, <3>4 DEF Sent, TopRequest
  <2>7. Phase(s)'
    <3>1. CASE Len(toServer) = 1
      <4>1. toServer' = <<>>
        BY <1>9, <3>1, EmptySeq DEF SyncType
      <4>2. ~LastIs("request") /\ ~LastIs("response") /\ toServer # <<>>
        BY <1>3, <1>15, <3>1 DEF LastIs, Handles
      <4>3. toClient = <<>> /\ Len(client) = Len(s) /\ Agree(s, Len(s))
        BY <4>2 DEF StackInv, Phase
      <4> QED
        BY <1>12, <4>1, <4>3 DEF Phase, OnlyNotes, Agree
    <3>2. CASE Len(toServer) # 1
      <4>1. /\ toServer # <<>> /\ toServer' # <<>>
            /\ toServer'[Len(toServer')] = toServer[Len(toServer)]
        BY <1>9, <3>2
      <4>2. \A k \in {"request", "response", "notification"} : LastIs(k)' <=> LastIs(k)
        BY <4>1 DEF LastIs
      <4>3. OnlyNotes' <=> OnlyNotes
        BY <4>1, <4>2 DEF OnlyNotes
      <4> QED
        BY <1>12, <4>1, <4>2, <4>3 DEF StackInv, Phase, Agree, Ahead, Behind, TopRequest, TopCall
    <3> QED
      BY <3>1, <3>2
  <2> QED
    BY <2>3, <2>4, <2>5, <2>6, <2>7 DEF StackInv
<1> QED
  BY <1>3, <1>14, <1>15

LEMMA RunReadsStack ==
    ASSUME SyncNames, SyncType, SyncType', mix' = mix, NEW s \in Seq(Item), StackInv(s), Sync!RunReads
    PROVE  (\E t \in Seq(Item) : StackInv(t)') /\ wrong' = wrong
<1>1. at[Sync!Run] = "read" /\ toServer # <<>>
  BY DEF Sync!RunReads
<1>2. Len(s) = 0 /\ syncCalls = 0 /\ ~TopCall(s)
  BY <1>1, AtTop, Names DEF Item, TopCall
<1>3. Head(toServer).kind # "response"
  <2> SUFFICES ASSUME Head(toServer).kind = "response" PROVE FALSE
    OBVIOUS
  <2>1. LastIs("response")
    BY <1>1, HeadFacts
  <2>2. ~LastIs("request") /\ ~LastIs("notification")
    BY <2>1 DEF LastIs
  <2> QED
    BY <1>1, <1>2, <2>1, <2>2 DEF StackInv, Phase, OnlyNotes, Behind
<1>4. reading = FALSE
  BY <1>2 DEF StackInv, Locked, SyncType
<1>5. Handles(Sync!Run, 0, s) /\ wrong' = wrong
  BY <1>1, <1>2, <1>3, <1>4 DEF Handles, Sync!RunReads
<1>6. 0 \in Int /\ Sync!Run \in {Sync!Run} \cup SyncCall
  OBVIOUS
<1>7. \E t \in Seq(Item) : StackInv(t)'
  BY <1>5, <1>6, HandlesStack
<1> QED
  BY <1>5, <1>7

\* Without its top the stack is one that is less.
LEMMA StackLess ==
    ASSUME SyncNames, SyncType, SyncType', mix' = mix, NEW s \in Seq(Item), StackInv(s), Len(s) > 0,
           NEW t \in Seq(Item), t = SubSeq(s, 1, Len(s) - 1), UNCHANGED depth,
           \A r \in Request : OpenRequest(r)' <=> OpenRequest(r) /\ r # s[Len(s)],
           \A r \in Request : OpenRequest(r)' => frame'[r] = frame[r],
           \A c \in SyncCall : Serving(c)' <=> Serving(c) /\ c # s[Len(s)],
           \A c \in SyncCall : at[c] = "handle" /\ c # s[Len(s)] => at'[c] = "handle" \/ (TopCall(t) /\ c = t[Len(t)])
    PROVE  /\ Len(t) \in Nat /\ Len(t) = Len(s) - 1 /\ (\A i \in 1 .. Len(t) : t[i] = s[i])
           /\ Stacked(t)'
<1>1. s # <<>>
  OBVIOUS
<1>2. Len(t) = Len(s) - 1 /\ Len(s) \in Nat \ {0} /\ \A i \in 1 .. Len(s) - 1 : t[i] = s[i]
  BY <1>1, PopFacts
<1>3. \A i \in 1 .. Len(t) : i \in 1 .. Len(s) /\ t[i] = s[i] /\ i < Len(s)
  BY <1>2
<1>4. \A i \in 1 .. Len(t) : t[i] # s[Len(s)]
  <2> SUFFICES ASSUME NEW i \in 1 .. Len(t), s[i] = s[Len(s)] PROVE FALSE
    BY <1>3
  <2>0. i \in 1 .. Len(s) /\ Len(s) \in 1 .. Len(s) /\ i # Len(s) /\ s[i] \in Item
    BY <1>2, <1>3
  <2>1. CASE s[i] \in Request
    BY <2>0, <2>1 DEF StackInv, Stacked
  <2>2. CASE s[i] \in SyncCall
    BY <2>0, <2>2 DEF StackInv, Stacked
  <2> QED
    BY <2>0, <2>1, <2>2 DEF Item
<1>5. ASSUME NEW i \in 1 .. Len(t), t[i] \in Request
      PROVE  /\ OpenRequest(t[i])' /\ i = 2 * frame'[t[i]].depth + 1
             /\ frame'[t[i]].by = IF i = 1 THEN Sync!Run ELSE t[i - 1]
  <2>1. /\ OpenRequest(s[i]) /\ i = 2 * frame[s[i]].depth + 1
        /\ frame[s[i]].by = IF i = 1 THEN Sync!Run ELSE s[i - 1]
    BY <1>3, <1>5 DEF StackInv, Stacked
  <2>2. i # 1 => i - 1 \in 1 .. Len(t)
    BY <1>2
  <2>3. i # 1 => t[i - 1] = s[i - 1]
    BY <1>3, <2>2
  <2>4. OpenRequest(t[i])' /\ frame'[t[i]] = frame[t[i]]
    BY <1>3, <1>4, <1>5, <2>1
  <2> QED
    BY <1>3, <2>1, <2>3, <2>4
<1>6. ASSUME NEW i \in 1 .. Len(t), t[i] \in SyncCall
      PROVE  Serving(t[i])' /\ i = 2 * depth'[t[i]] /\ (i < Len(t) => at'[t[i]] = "handle")
  <2>1. Serving(s[i]) /\ i = 2 * depth[s[i]] /\ at[s[i]] = "handle"
    BY <1>3, <1>6 DEF StackInv, Stacked
  <2>2. Serving(t[i])' /\ i = 2 * depth'[t[i]]
    BY <1>3, <1>4, <1>6, <2>1
  <2>3. ASSUME i < Len(t) PROVE at'[t[i]] = "handle"
    <3>1. t[i] # t[Len(t)]
      <4>1. TopCall(t) => t[Len(t)] \in SyncCall /\ Len(t) \in 1 .. Len(s) /\ t[Len(t)] = s[Len(t)]
        BY <1>2, <1>3 DEF TopCall
      <4>2. t[Len(t)] \in SyncCall => Len(t) = 2 * depth[t[Len(t)]]
        <5>1. Len(t) \in 1 .. Len(s) /\ t[Len(t)] = s[Len(t)]
          BY <1>2, <1>3, <2>3
        <5> QED
          BY <5>1 DEF StackInv, Stacked
      <4> QED
        BY <1>3, <1>6, <2>1, <2>3, <4>2
    <3> QED
      BY <1>3, <1>4, <1>6, <2>1, <3>1
  <2> QED
    BY <2>2, <2>3
<1>7. ASSUME NEW q \in Request, OpenRequest(q)'
      PROVE  2 * frame'[q].depth + 1 \in 1 .. Len(t) /\ t[2 * frame'[q].depth + 1] = q
  <2>1. PICK i \in 1 .. Len(s) : i = 2 * frame[q].depth + 1 /\ s[i] = q /\ frame'[q] = frame[q] /\ q # s[Len(s)]
    BY <1>7 DEF StackInv, Stacked
  <2>2. i \in 1 .. Len(t)
    BY <1>2, <2>1
  <2> QED
    BY <1>3, <2>1, <2>2
<1>8. ASSUME NEW c \in SyncCall, Serving(c)' PROVE 2 * depth'[c] \in 1 .. Len(t) /\ t[2 * depth'[c]] = c
  <2>1. PICK i \in 1 .. Len(s) : i = 2 * depth[c] /\ s[i] = c /\ c # s[Len(s)]
    BY <1>8 DEF StackInv, Stacked
  <2>2. i \in 1 .. Len(t)
    BY <1>2, <2>1
  <2> QED
    BY <1>3, <2>1, <2>2
<1> QED
  <2>1. Stacked(t)'
    BY <1>5, <1>6, <1>7, <1>8 DEF Stacked
  <2>2. Len(t) \in Nat
    BY <1>2
  <2> QED
    BY <1>2, <1>3, <2>1, <2>2

\* A call reads its own answer, and is off the stack; or a request to handle.
LEMMA CallReadsStack ==
    ASSUME SyncNames, SyncType, SyncType', mix' = mix, NEW s \in Seq(Item), StackInv(s), NEW c \in SyncCall,
           Sync!CallReads(c)
    PROVE  /\ \E t \in Seq(Item) : StackInv(t)'
           /\ wrong = FALSE => wrong' = FALSE
           /\ at'[c] \in {"handle", "done"} /\ (at'[c] = "done" => got'[c] = c)
<1>0. Len(s) \in Nat /\ syncCalls \in Int /\ Len(client) \in Nat
  BY DEF SyncType
<1>1. at[c] = "read" /\ toServer # <<>> /\ toServer' = Tail(toServer)
      /\ UNCHANGED <<toClient, client, depth, parent>>
  BY DEF Sync!CallReads
<1>2. /\ TopCall(s) /\ c = s[Len(s)] /\ Len(s) = 2 * depth[c] /\ Len(s) = 2 * syncCalls /\ ~TopRequest(s)
      /\ \A q \in Request : ~OpenNote(q)
  BY <1>1, AtTop, Names DEF Item
<1>3. Len(s) > 0 /\ depth[c] \in Int /\ depth[c] = syncCalls
  <2>1. depth[c] \in Int
    BY DEF SyncType
  <2>2. Len(s) > 0
    BY <1>2 DEF TopCall
  <2>3. 2 * depth[c] = 2 * syncCalls
    BY <1>2
  <2> QED
    BY <1>0, <2>1, <2>2, <2>3
<1>4. CASE Head(toServer).kind # "response"
  <2>1. Sync!Handle(c, Head(toServer), depth[c]) /\ reading' = FALSE /\ mu' = Sync!Free
        /\ UNCHANGED <<syncCalls, got, wrong>>
    BY <1>4 DEF Sync!CallReads
  <2>2. Handles(c, depth[c], s)
    BY <1>1, <1>2, <1>3, <1>4, <2>1 DEF Handles
  <2>3. c \in {Sync!Run} \cup SyncCall
    OBVIOUS
  <2>4. \E t \in Seq(Item) : StackInv(t)'
    BY <1>3, <2>2, <2>3, HandlesStack
  <2>5. at'[c] = "handle"
    BY <2>1 DEF Sync!Handle, SyncType
  <2> QED
    BY <2>1, <2>4, <2>5
<1>5. CASE Head(toServer).kind = "response"
  <2>1. /\ got' = [got EXCEPT ![c] = Head(toServer).of]
        /\ wrong' = (wrong \/ ~Sync!Matches(c, Head(toServer)))
        /\ syncCalls' = syncCalls - 1 /\ reading' = FALSE /\ mu' = Sync!Free
        /\ at' = [at EXCEPT ![c] = "done"] /\ frame' = frame
    BY <1>5 DEF Sync!CallReads, Sync!CallEnds
  <2>2. /\ LastIs("response") /\ Tail(toServer) = <<>> /\ Head(toServer) = toServer[1]
        /\ Len(toServer) \in Nat \ {0}
    BY <1>1, <1>5, HeadFacts
  <2>3. /\ Behind(s) /\ toServer[Len(toServer)].of = s[Len(s)] /\ toClient = <<>>
    <3>1. ~LastIs("notification") /\ ~LastIs("request") /\ toServer # <<>>
      BY <1>1, <2>2 DEF LastIs
    <3> QED
      BY <3>1 DEF StackInv, Phase, OnlyNotes
  <2>4. Len(toServer) = 1
    <3>1. 1 \in 1 .. Len(toServer) /\ toServer[1].kind # "notification"
      BY <1>5, <2>2
    <3>2. 1 < Len(toServer) => toServer[1].kind = "notification"
      BY <3>1 DEF StackInv, Sent
    <3>3. ~(1 < Len(toServer)) /\ Len(toServer) \in Nat /\ Len(toServer) # 0
      BY <2>2, <3>1, <3>2
    <3>4. \A n \in Nat : n # 0 /\ ~(1 < n) => n = 1
      OBVIOUS
    <3> QED
      BY <3>3, <3>4
  <2>5. Head(toServer).of = c
    BY <1>2, <2>2, <2>3, <2>4
  <2>6. got'[c] = c /\ wrong' = wrong /\ at'[c] = "done"
    BY <2>1, <2>5 DEF SyncType, Sync!Matches
  <2>7. PICK t \in Seq(Item) : t = SubSeq(s, 1, Len(s) - 1)
    <3>1. s # <<>>
      BY <1>3
    <3> QED
      BY <3>1, PopFacts
  <2>8. \A e \in SyncCall : (Serving(e)' <=> Serving(e) /\ e # c) /\ (e # c => at'[e] = at[e])
    BY <2>1 DEF Serving, SyncType
  <2>9. \A q \in Request : OpenRequest(q)' <=> OpenRequest(q) /\ q # s[Len(s)]
    BY <1>2, <2>1, Names DEF OpenRequest
  <2>10. /\ Len(t) \in Nat /\ Len(t) = Len(s) - 1 /\ (\A i \in 1 .. Len(t) : t[i] = s[i])
         /\ Stacked(t)'
    BY <1>1, <1>2, <1>3, <2>1, <2>7, <2>8, <2>9, StackLess
  <2>11. at'[Sync!Run] = "handle"
    <3>1. at[Sync!Run] = "handle" /\ Sync!Run # c
      BY <1>3, Names DEF StackInv, Locked, Item
    <3> QED
      BY <2>1, <3>1 DEF SyncType
  <2>12. Len(t) = 2 * syncCalls' + 1 /\ Len(t) # 0
    BY <1>0, <1>2, <2>1, <2>10
  <2>13. ~TopCall(t)
    <3> SUFFICES ASSUME TopCall(t) PROVE FALSE
      OBVIOUS
    <3>1. Len(t) = 2 * depth'[t[Len(t)]] /\ depth'[t[Len(t)]] \in Int
      <4>1. Len(t) \in 1 .. Len(t) /\ t[Len(t)] \in SyncCall
        BY <2>10, <2>12 DEF TopCall
      <4> QED
        BY <2>10, <4>1 DEF Stacked, SyncType
    <3> QED
      BY <1>0, <2>1, <2>12, <3>1
  <2>14. Locked(t)'
    BY <2>1, <2>11, <2>12, <2>13 DEF Locked, TopCall, TopRequest
  <2>15. Noted(t)'
    BY <1>2, <2>1 DEF Noted, OpenNote
  <2>16. Sent(t)' /\ Phase(t)'
    <3>1. toServer' = <<>> /\ toClient' = <<>>
      BY <1>1, <2>2, <2>3
    <3>2. Len(client') = Len(t) /\ Agree(t, Len(t))'
      BY <1>0, <1>1, <2>3, <2>10 DEF Behind, Agree
    <3> QED
      BY <3>1, <3>2 DEF Sent, Phase, OnlyNotes
  <2>17. StackInv(t)'
    BY <2>10, <2>14, <2>15, <2>16 DEF StackInv
  <2> QED
    BY <2>6, <2>17
<1> QED
  BY <1>4, <1>5

\* With a request on top of the stack nothing is on its way.
LEMMA Silent ==
    ASSUME SyncType, NEW s \in Seq(Item), StackInv(s), TopRequest(s), ~TopCall(s)
    PROVE  toServer = <<>> /\ toClient = <<>> /\ Len(client) = Len(s) /\ Agree(s, Len(s))
<1>1. ~Ahead(s) /\ ~Behind(s)
  BY DEF Ahead, Behind
<1>2. OnlyNotes /\ toClient = <<>> /\ Len(client) = Len(s) /\ Agree(s, Len(s))
  BY <1>1 DEF StackInv, Phase
<1>3. ~LastIs("notification")
  <2> SUFFICES ASSUME LastIs("notification") PROVE FALSE
    OBVIOUS
  <2>1. Len(toServer) \in 1 .. Len(toServer)
    BY DEF LastIs, SyncType
  <2> QED
    BY <2>1 DEF LastIs, StackInv, Sent
<1> QED
  BY <1>2, <1>3 DEF OnlyNotes

\* A call starts from the request on top.
LEMMA CallsStack ==
    ASSUME SyncNames, OneCall, SyncType, SyncType', CallsInv, CallersInv, mix' = mix, NEW s \in Seq(Item), StackInv(s), NEW c \in SyncCall,
           Sync!Calls(c)
    PROVE  \E t \in Seq(Item) : StackInv(t)'
<1>0. Len(s) \in Nat /\ syncCalls \in Int /\ Len(client) \in Nat
  BY DEF SyncType
<1>1. /\ at[c] = "call" /\ mu = Sync!Free /\ reading = FALSE
      /\ mu' = c /\ syncCalls' = syncCalls + 1 /\ reading' = TRUE
      /\ depth' = [depth EXCEPT ![c] = syncCalls + 1]
      /\ toClient' = Append(toClient, c) /\ at' = [at EXCEPT ![c] = "read"]
      /\ UNCHANGED <<toServer, client, frame>>
  BY DEF Sync!Calls, Sync!MayCall, SyncType
<1>2. Len(s) > 0
  <2>1. parent[c] \in Request /\ OpenRequest(parent[c])
    BY <1>1 DEF CallsInv
  <2>2. 2 * frame[parent[c]].depth + 1 \in 1 .. Len(s)
    BY <2>1 DEF StackInv, Stacked
  <2> QED
    BY <1>0, <2>2
<1>3. ~TopCall(s)
  <2> SUFFICES ASSUME TopCall(s) PROVE FALSE
    OBVIOUS
  <2>1. at[s[Len(s)]] = "handle" /\ mix.notes
    BY <1>1 DEF StackInv, Locked
  <2>2. s[Len(s)] \in mix.calls /\ c \in mix.calls
    BY <1>1, <2>1 DEF CallersInv, TopCall
  <2>3. s[Len(s)] = c
    BY <2>1, <2>2 DEF CallersInv, OneCall
  <2> QED
    BY <1>1, <2>1, <2>3
<1>4. TopRequest(s) /\ Len(s) = 2 * syncCalls + 1
  BY <1>2, <1>3, Tops DEF StackInv
<1>5. PICK t \in Seq(Item) : t = Append(s, c)
  BY PushFacts DEF Item
<1>6. Len(t) = Len(s) + 1 /\ t[Len(s) + 1] = c /\ \A i \in 1 .. Len(s) : t[i] = s[i]
  BY <1>5, PushFacts DEF Item
<1>7. \A i \in 1 .. Len(t) : i \in 1 .. Len(s) \/ i = Len(s) + 1
  BY <1>0, <1>6
<1>8. /\ ~Serving(c) /\ Serving(c)'
      /\ \A e \in SyncCall : e # c => (Serving(e)' <=> Serving(e)) /\ at'[e] = at[e] /\ depth'[e] = depth[e]
  BY <1>1 DEF Serving, SyncType
<1>9. depth'[c] = syncCalls + 1 /\ at'[c] = "read"
  BY <1>1 DEF SyncType
<1>10. toServer = <<>> /\ toClient = <<>> /\ Len(client) = Len(s) /\ Agree(s, Len(s))
  BY <1>3, <1>4, Silent
<1>11. Stacked(t)'
  <2>1. ASSUME NEW i \in 1 .. Len(t), t[i] \in Request
        PROVE  /\ OpenRequest(t[i])' /\ i = 2 * frame'[t[i]].depth + 1
               /\ frame'[t[i]].by = IF i = 1 THEN Sync!Run ELSE t[i - 1]
    <3>1. i \in 1 .. Len(s) /\ t[i] = s[i]
      BY <1>6, <1>7, <2>1, Names
    <3>2. i # 1 => t[i - 1] = s[i - 1]
      BY <1>0, <1>6, <3>1
    <3> QED
      BY <1>1, <2>1, <3>1, <3>2 DEF StackInv, Stacked, OpenRequest
  <2>2. ASSUME NEW i \in 1 .. Len(t), t[i] \in SyncCall
        PROVE  Serving(t[i])' /\ i = 2 * depth'[t[i]] /\ (i < Len(t) => at'[t[i]] = "handle")
    <3>1. CASE i \in 1 .. Len(s)
      <4>1. t[i] = s[i] /\ Serving(s[i]) /\ i = 2 * depth[s[i]] /\ (i < Len(s) => at[s[i]] = "handle")
        BY <1>6, <2>2, <3>1 DEF StackInv, Stacked
      <4>2. i # Len(s)
        BY <1>3, <2>2, <3>1, <4>1, <1>2 DEF TopCall
      <4> QED
        BY <1>0, <1>8, <2>2, <3>1, <4>1, <4>2
    <3>2. CASE i = Len(s) + 1
      <4>1. t[i] = c /\ i = 2 * (syncCalls + 1) /\ ~(i < Len(t))
        BY <1>0, <1>4, <1>6, <3>2
      <4> QED
        BY <1>8, <1>9, <4>1
    <3> QED
      BY <1>7, <3>1, <3>2
  <2>3. ASSUME NEW q \in Request, OpenRequest(q)'
        PROVE  2 * frame'[q].depth + 1 \in 1 .. Len(t) /\ t[2 * frame'[q].depth + 1] = q
    <3>1. 2 * frame[q].depth + 1 \in 1 .. Len(s) /\ s[2 * frame[q].depth + 1] = q /\ frame' = frame
      BY <1>1, <2>3 DEF StackInv, Stacked, OpenRequest
    <3> QED
      BY <1>0, <1>6, <3>1
  <2>4. ASSUME NEW e \in SyncCall, Serving(e)' PROVE 2 * depth'[e] \in 1 .. Len(t) /\ t[2 * depth'[e]] = e
    <3>1. CASE e = c
      <4>1. 2 * (syncCalls + 1) = Len(s) + 1 /\ Len(s) + 1 \in 1 .. Len(t)
        BY <1>0, <1>4, <1>6
      <4> QED
        BY <1>6, <1>9, <3>1, <4>1
    <3>2. CASE e # c
      <4>1. 2 * depth[e] \in 1 .. Len(s) /\ s[2 * depth[e]] = e /\ depth'[e] = depth[e]
        BY <1>8, <2>4, <3>2 DEF StackInv, Stacked
      <4> QED
        BY <1>0, <1>6, <4>1
    <3> QED
      BY <3>1, <3>2
  <2> QED
    BY <2>1, <2>2, <2>3, <2>4 DEF Stacked
<1>12. TopCall(t) /\ t[Len(t)] = c /\ ~TopRequest(t) /\ Len(t) = 2 * syncCalls' /\ Len(t) > 0
  BY <1>0, <1>1, <1>4, <1>6, Names DEF TopCall, TopRequest
<1>13. Locked(t)'
  <2>1. at'[Sync!Run] = "handle"
    <3>1. at[Sync!Run] = "handle" /\ Sync!Run # c
      BY <1>2, Names DEF StackInv, Locked, Item
    <3> QED
      BY <1>1, <3>1 DEF SyncType
  <2> QED
    BY <1>1, <1>9, <1>12, <2>1 DEF Locked, TopCall, TopRequest
<1>14. Noted(t)'
  <2>1. \A q \in Request : ~OpenNote(q)
    BY <1>4 DEF StackInv, Noted
  <2> QED
    BY <1>1, <2>1 DEF Noted, OpenNote
<1>15. Sent(t)'
  BY <1>1, <1>10 DEF Sent
<1>16. Phase(t)'
  <2>1. toClient' = <<c>> /\ t[Len(t)] = c /\ toServer' = <<>>
    BY <1>1, <1>10, <1>12
  <2>2. Behind(t)'
    BY <1>0, <1>1, <1>6, <1>10, <1>12 DEF Behind, Agree, TopCall
  <2> QED
    BY <2>1, <2>2 DEF Phase
<1> QED
  BY <1>11, <1>13, <1>14, <1>15, <1>16 DEF StackInv

\* lockTurn: only the request on top of the stack can be answered.
LEMMA AnswerRequestStack ==
    ASSUME SyncNames, SyncType, SyncType', mix' = mix, NEW s \in Seq(Item), StackInv(s), NEW r \in Request,
           Sync!AnswerRequest(r)
    PROVE  /\ \E t \in Seq(Item) : StackInv(t)'
           /\ \A c \in SyncCall : (at'[c] = "done" => at[c] = "done") /\ (Serving(c)' <=> Serving(c))
<1>0. Len(s) \in Nat /\ syncCalls \in Int /\ Len(client) \in Nat
  BY DEF SyncType
<1>1. PICK g \in {Sync!Run} \cup SyncCall : g = frame[r].by
  BY DEF Sync!AnswerRequest, Sync!Current, SyncType, Frame
<1>2. /\ OpenRequest(r) /\ mu = Sync!Free /\ syncCalls = frame[r].depth /\ reading' = (syncCalls > 0)
      /\ toClient' = Append(toClient, r)
      /\ at' = [at EXCEPT ![g] = IF g = Sync!Run THEN "lock" ELSE "relock"]
      /\ frame' = [frame EXCEPT ![r].by = Sync!Free]
      /\ UNCHANGED <<toServer, client, mu, syncCalls, depth>>
  BY <1>1 DEF Sync!AnswerRequest, Sync!Current, Sync!Turn, Sync!Over, OpenRequest
<1>3. /\ Len(s) = 2 * syncCalls + 1 /\ s[Len(s)] = r /\ TopRequest(s) /\ ~TopCall(s)
      /\ g = IF Len(s) = 1 THEN Sync!Run ELSE s[Len(s) - 1]
  <2>1. 2 * syncCalls + 1 \in 1 .. Len(s) /\ s[2 * syncCalls + 1] = r
    BY <1>2 DEF StackInv, Stacked
  <2>2. Len(s) = 2 * syncCalls \/ Len(s) = 2 * syncCalls + 1
    BY DEF StackInv, Locked
  <2>3. Len(s) = 2 * syncCalls + 1
    BY <1>0, <2>1, <2>2
  <2>4. s[Len(s)] = r /\ Len(s) \in 1 .. Len(s)
    BY <2>1, <2>3
  <2>5. TopRequest(s) /\ ~TopCall(s)
    BY <1>0, <2>3, <2>4, Names DEF TopRequest, TopCall
  <2> QED
    BY <1>1, <2>3, <2>4, <2>5 DEF StackInv, Stacked
<1>4. PICK t \in Seq(Item) : t = SubSeq(s, 1, Len(s) - 1)
  <2>1. s # <<>>
    BY <1>3 DEF TopRequest
  <2> QED
    BY <2>1, PopFacts
<1>5. Len(t) = Len(s) - 1 /\ \A i \in 1 .. Len(s) - 1 : t[i] = s[i]
  <2>1. s # <<>>
    BY <1>3 DEF TopRequest
  <2> QED
    BY <1>4, <2>1, PopFacts
<1>6. Len(t) = 2 * syncCalls /\ g = IF Len(t) = 0 THEN Sync!Run ELSE t[Len(t)]
  <2>1. Len(t) = 2 * syncCalls /\ (Len(t) = 0 <=> Len(s) = 1)
    BY <1>0, <1>3, <1>5
  <2>2. Len(t) # 0 => Len(t) = Len(s) - 1 /\ Len(t) \in 1 .. Len(s) - 1
    BY <1>0, <1>3, <1>5
  <2>3. Len(t) # 0 => t[Len(t)] = s[Len(s) - 1]
    BY <1>5, <2>2
  <2> QED
    BY <1>3, <2>1, <2>3
<1>7. ~TopRequest(t) /\ (Len(t) > 0 => TopCall(t) /\ g \in SyncCall /\ Serving(g) /\ at[g] = "handle")
  <2> SUFFICES ASSUME Len(t) > 0 PROVE TopCall(t) /\ g \in SyncCall /\ Serving(g) /\ at[g] = "handle" /\ ~TopRequest(t)
    BY DEF TopRequest
  <2>1. Len(t) \in 1 .. Len(s) /\ Len(t) < Len(s) /\ s[Len(t)] = g /\ t[Len(t)] = g
    BY <1>0, <1>3, <1>5, <1>6
  <2>2. g \in Item
    BY <2>1
  <2>3. g \notin Request
    <3> SUFFICES ASSUME g \in Request PROVE FALSE
      OBVIOUS
    <3>1. Len(t) = 2 * frame[g].depth + 1 /\ frame[g].depth \in Int
      BY <2>1 DEF StackInv, Stacked, SyncType, Frame
    <3> QED
      BY <1>0, <1>6, <3>1
  <2>4. g \in SyncCall
    BY <2>2, <2>3 DEF Item
  <2>5. Serving(g) /\ at[g] = "handle"
    BY <2>1, <2>4 DEF StackInv, Stacked
  <2> QED
    BY <2>1, <2>3, <2>4, <2>5 DEF TopCall, TopRequest
<1>8. \A e \in SyncCall : e # g => at'[e] = at[e]
  BY <1>2 DEF SyncType
<1>9. at'[g] = IF g = Sync!Run THEN "lock" ELSE "relock"
  BY <1>2 DEF SyncType
<1>10. g \in SyncCall => g # Sync!Run /\ Len(t) > 0
  BY <1>0, <1>5, <1>6, Names DEF Item
<1>11. \A e \in SyncCall : Serving(e)' <=> Serving(e)
  BY <1>7, <1>8, <1>9, <1>10 DEF Serving
<1>12. \A q \in Request : OpenRequest(q)' <=> OpenRequest(q) /\ q # r
  BY <1>2 DEF OpenRequest, SyncType, Frame
<1>13. \A q \in Request : q # r => frame'[q] = frame[q]
  BY <1>2 DEF SyncType
<1>14. Stacked(t)' /\ Len(t) \in Nat
  <2>1. Len(s) > 0
    BY <1>3 DEF TopRequest
  <2>2. \A q \in Request : OpenRequest(q)' <=> OpenRequest(q) /\ q # s[Len(s)]
    BY <1>3, <1>12
  <2>3. \A q \in Request : OpenRequest(q)' => frame'[q] = frame[q]
    BY <1>12, <1>13
  <2>4. \A e \in SyncCall : Serving(e)' <=> Serving(e) /\ e # s[Len(s)]
    BY <1>3, <1>11, Names
  <2>5. \A e \in SyncCall : at[e] = "handle" /\ e # s[Len(s)] => at'[e] = "handle" \/ (TopCall(t) /\ e = t[Len(t)])
    BY <1>6, <1>7, <1>8, <1>10
  <2>6. UNCHANGED depth
    BY <1>2
  <2> QED
    BY <1>4, <2>1, <2>2, <2>3, <2>4, <2>5, <2>6, StackLess
<1>15. Locked(t)'
  <2>1. CASE Len(t) = 0
    <3>0. ~(syncCalls > 0) /\ g = Sync!Run
      BY <1>0, <1>6, <2>1
    <3>1. at'[Sync!Run] = "lock" /\ ~reading' /\ mu' = Sync!Free
      BY <1>2, <1>9, <3>0
    <3>2. ~TopCall(t) /\ ~TopRequest(t) /\ ~(Len(t) > 0)
      BY <2>1 DEF TopCall, TopRequest
    <3> QED
      BY <1>2, <1>6, <2>1, <3>1, <3>2 DEF Locked, TopCall, TopRequest
  <2>2. CASE Len(t) > 0
    <3>0. syncCalls > 0 /\ g = t[Len(t)] /\ g # Sync!Run
      BY <1>0, <1>6, <1>7, <1>10, <2>2
    <3>1. at'[g] = "relock" /\ reading' = TRUE /\ mu' = Sync!Free
      BY <1>2, <1>9, <3>0
    <3>2. at'[Sync!Run] = "handle"
      <4>1. at[Sync!Run] = "handle"
        BY <1>3 DEF StackInv, Locked, TopRequest
      <4> QED
        BY <1>2, <1>7, <1>10, <2>2, <4>1 DEF SyncType
    <3> QED
      BY <1>2, <1>6, <1>7, <2>2, <3>0, <3>1, <3>2 DEF Locked, TopCall, TopRequest
  <2> QED
    BY <1>14, <2>1, <2>2
<1>16. Noted(t)'
  <2>1. \A q \in Request : ~OpenNote(q)
    BY <1>3 DEF StackInv, Noted
  <2>2. \A q \in Request : ~OpenNote(q)'
    BY <1>2, <2>1 DEF OpenNote, OpenRequest, SyncType, Frame
  <2> QED
    BY <2>2 DEF Noted
<1>17. toServer = <<>> /\ toClient = <<>> /\ Len(client) = Len(s) /\ Agree(s, Len(s))
  BY <1>3, Silent
<1>18. Sent(t)' /\ Phase(t)'
  <2>1. client[Len(client)] = r /\ Len(client) = Len(t) + 1 /\ client[Len(client)] \in Request
    <3>1. Len(s) \in 1 .. Len(s)
      BY <1>0, <1>3
    <3> QED
      BY <1>0, <1>3, <1>5, <1>17, <3>1 DEF Agree
  <2>2. toServer' = <<>> /\ toClient' = <<client[Len(client)]>> /\ client' = client
    BY <1>2, <1>17, <2>1
  <2>3. \A i \in 1 .. Len(t) : client[i] = t[i]
    BY <1>0, <1>3, <1>5, <1>17 DEF Agree
  <2>4. Ahead(t)'
    BY <1>7, <2>1, <2>2, <2>3 DEF Ahead, Agree, TopRequest
  <2> QED
    BY <2>2, <2>4 DEF Sent, Phase
<1>19. \A c \in SyncCall : at'[c] = "done" => at[c] = "done"
  BY <1>8, <1>9
<1> QED
  BY <1>11, <1>14, <1>15, <1>16, <1>18, <1>19 DEF StackInv

\* What is read is not open, so no request is forgotten.
LEMMA ReadsFresh ==
    ASSUME SyncType, NEW s \in Seq(Item), StackInv(s), toServer # <<>>
    PROVE  Head(toServer).kind # "response" =>
             /\ frame[Head(toServer).of].by = Sync!Free
             /\ \A q \in Request : OpenRequest(q) => q # Head(toServer).of
<1>1. Head(toServer) = toServer[1] /\ 1 \in 1 .. Len(toServer)
  BY HeadFacts
<1> QED
  BY <1>1 DEF StackInv, Sent, OpenRequest

\* A notification is over: who handled it reads on.
LEMMA NotificationOverStack ==
    ASSUME SyncNames, SyncType, SyncType', mix' = mix, NEW s \in Seq(Item), StackInv(s), NEW r \in Request,
           Sync!NotificationOver(r)
    PROVE  /\ StackInv(s)'
           /\ \A c \in SyncCall : (at'[c] = "done" => at[c] = "done") /\ (Serving(c)' <=> Serving(c))
<1>0. Len(s) \in Nat /\ syncCalls \in Int
  BY DEF SyncType
<1>1. PICK g \in {Sync!Run} \cup SyncCall : g = frame[r].by
  BY DEF Sync!NotificationOver, Sync!Current, SyncType, Frame
<1>2. /\ OpenNote(r) /\ ~OpenRequest(r) /\ frame' = [frame EXCEPT ![r].by = Sync!Free]
      /\ UNCHANGED <<toServer, toClient, client, syncCalls, depth>>
      /\ \/ g = Sync!Run /\ at' = [at EXCEPT ![g] = "lock"] /\ UNCHANGED <<mu, reading>>
         \/ /\ g \in SyncCall /\ mu = Sync!Free /\ mu' = g /\ reading' = TRUE
            /\ at' = [at EXCEPT ![g] = "read"]
  BY <1>1 DEF Sync!NotificationOver, Sync!Current, Sync!Turn, Sync!Over, OpenNote, OpenRequest
<1>3. /\ ~TopRequest(s) /\ g = IF Len(s) = 0 THEN Sync!Run ELSE s[Len(s)]
      /\ at[g] = "handle" /\ \A q \in Request : OpenNote(q) => q = r
  BY <1>1, <1>2 DEF StackInv, Noted
<1>4. Len(s) > 0 => TopCall(s)
  BY <1>3, Tops DEF StackInv
<1>5. \/ Len(s) = 0 /\ g = Sync!Run /\ g \notin SyncCall
      \/ TopCall(s) /\ g = s[Len(s)] /\ g \in SyncCall /\ g # Sync!Run /\ Len(s) > 0
  BY <1>0, <1>3, <1>4, Names DEF Item, TopCall
<1>6. at'[g] = (IF g = Sync!Run THEN "lock" ELSE "read")
      /\ \A h \in {Sync!Run} \cup SyncCall : h # g => at'[h] = at[h]
  BY <1>2, <1>5 DEF SyncType
<1>7. \A e \in SyncCall : (Serving(e)' <=> Serving(e)) /\ (at[e] = "handle" /\ e # g => at'[e] = "handle")
  BY <1>3, <1>5, <1>6 DEF Serving
<1>8. \A q \in Request : (OpenRequest(q)' <=> OpenRequest(q)) /\ (OpenRequest(q) => frame'[q] = frame[q])
  BY <1>2 DEF OpenRequest, SyncType, Frame
<1>9. Stacked(s)'
  <2>1. ASSUME NEW i \in 1 .. Len(s), s[i] \in SyncCall
        PROVE  Serving(s[i])' /\ i = 2 * depth'[s[i]] /\ (i < Len(s) => at'[s[i]] = "handle")
    <3>1. Serving(s[i]) /\ i = 2 * depth[s[i]] /\ (i < Len(s) => at[s[i]] = "handle")
      BY <2>1 DEF StackInv, Stacked
    <3>2. ASSUME i < Len(s), s[i] = g PROVE FALSE
      <4>1. Len(s) \in 1 .. Len(s) /\ s[Len(s)] = g /\ g \in SyncCall
        BY <1>0, <1>5, <3>2
      <4>2. Len(s) = 2 * depth[g]
        BY <4>1 DEF StackInv, Stacked
      <4> QED
        BY <3>1, <3>2, <4>2
    <3> QED
      BY <1>2, <1>7, <2>1, <3>1, <3>2
  <2>2. \A i \in 1 .. Len(s) : s[i] \in Request =>
          /\ OpenRequest(s[i])' /\ i = 2 * frame'[s[i]].depth + 1
          /\ frame'[s[i]].by = IF i = 1 THEN Sync!Run ELSE s[i - 1]
    BY <1>8 DEF StackInv, Stacked
  <2>3. \A q \in Request : OpenRequest(q)' =>
          2 * frame'[q].depth + 1 \in 1 .. Len(s) /\ s[2 * frame'[q].depth + 1] = q
    BY <1>8 DEF StackInv, Stacked
  <2>4. \A e \in SyncCall : Serving(e)' => 2 * depth'[e] \in 1 .. Len(s) /\ s[2 * depth'[e]] = e
    BY <1>2, <1>7 DEF StackInv, Stacked
  <2> QED
    BY <2>1, <2>2, <2>3, <2>4 DEF Stacked
<1>10. Locked(s)'
  <2>1. CASE Len(s) = 0
    <3>1. g = Sync!Run /\ at'[Sync!Run] = "lock" /\ UNCHANGED <<mu, reading, syncCalls>>
      BY <1>2, <1>5, <1>6, <2>1, Names DEF Item
    <3>2. ~reading /\ mu = Sync!Free
      BY <1>3, <2>1, <3>1 DEF StackInv, Locked
    <3> QED
      BY <1>3, <2>1, <3>1, <3>2 DEF StackInv, Locked, TopCall, TopRequest
  <2>2. CASE TopCall(s) /\ g = s[Len(s)] /\ g \in SyncCall /\ g # Sync!Run /\ Len(s) > 0
    <3>1. at'[g] = "read" /\ mu' = g /\ reading' = TRUE /\ at'[Sync!Run] = at[Sync!Run] /\ syncCalls' = syncCalls
      BY <1>2, <1>6, <2>2
    <3>2. at[Sync!Run] = "handle" /\ (Len(s) = 2 * syncCalls \/ Len(s) = 2 * syncCalls + 1)
      BY <2>2 DEF StackInv, Locked
    <3> QED
      BY <1>0, <1>3, <2>2, <3>1, <3>2 DEF Locked, TopCall, TopRequest
  <2> QED
    BY <1>5, <2>1, <2>2
<1>11. Noted(s)'
  <2>1. \A q \in Request : ~OpenNote(q)'
    BY <1>2, <1>3 DEF OpenNote, SyncType, Frame
  <2> QED
    BY <2>1 DEF Noted
<1>12. Sent(s)'
  <2>1. \A q \in Request : frame[q].by = Sync!Free => frame'[q].by = Sync!Free
    BY <1>2 DEF SyncType, Frame
  <2> QED
    BY <1>2, <2>1 DEF StackInv, Sent, TopRequest
<1>13. Phase(s)'
  BY <1>2 DEF StackInv, Phase, OnlyNotes, LastIs, Ahead, Behind, Agree, TopRequest, TopCall
<1>14. \A c \in SyncCall : at'[c] = "done" => at[c] = "done"
  BY <1>6
<1> QED
  BY <1>7, <1>9, <1>10, <1>11, <1>12, <1>13, <1>14 DEF StackInv

-----------------------------------------------------------------------------
(* What the connection promises.                                           *)

LEMMA SyncStarts == Sync!Init /\ SyncNames => SyncInv
<1> SUFFICES ASSUME Sync!Init, SyncNames PROVE SyncInv
  OBVIOUS
<1>1. /\ toServer = <<>> /\ toClient = <<>> /\ client = <<>> /\ mu = Sync!Free /\ syncCalls = 0 /\ reading = FALSE
      /\ wrong = FALSE /\ at[Sync!Run] = "lock" /\ (\A c \in SyncCall : at[c] = "none")
      /\ \A r \in Request : frame[r].by = Sync!Free
  BY Names DEF Sync!Init, Sync!NoFrame, Item
<1>2. SyncType
  <2>1. Sync!NoFrame \in Frame
    BY DEF Sync!NoFrame, Frame
  <2>2. at \in [{Sync!Run} \cup SyncCall -> Places]
    BY DEF Sync!Init, Places
  <2>3. <<>> \in Seq(Item) /\ <<>> \in Seq(Message)
    OBVIOUS
  <2>4. frame \in [Request -> Frame] /\ depth \in [SyncCall -> Int] /\ parent \in [SyncCall -> Request \cup {Sync!Free}]
         /\ got \in [SyncCall -> Item \cup {Sync!Free}]
    BY <2>1 DEF Sync!Init
  <2>5. client \in Seq(Item) /\ toClient \in Seq(Item) /\ toServer \in Seq(Message)
    BY <1>1, <2>3
  <2>6. syncCalls \in Int /\ mu \in SyncCall \cup {Sync!Run, Sync!Free}
    BY <1>1
  <2>8. reading \in BOOLEAN /\ wrong \in BOOLEAN
    BY <1>1
  <2>7. \A c \in SyncCall : at[c] \notin {"lock", "failed"}
    BY <1>1
  <2> QED
    BY <2>2, <2>4, <2>5, <2>6, <2>7, <2>8 DEF SyncType
<1>3. CallsInv /\ CallersInv
  BY <1>1 DEF CallsInv, CallersInv, Sync!Init
<1>4. PICK s \in Seq(Item) : s = <<>>
  <2>1. <<>> \in Seq(Item)
    OBVIOUS
  <2> QED
    BY <2>1
<1>5. Len(s) = 0 /\ ~TopRequest(s) /\ ~TopCall(s)
  BY <1>4 DEF TopRequest, TopCall
<1>6. \A r \in Request : ~OpenRequest(r) /\ ~OpenNote(r)
  BY <1>1 DEF OpenRequest, OpenNote
<1>7. Stacked(s) /\ Locked(s) /\ Noted(s) /\ Sent(s)
  BY <1>1, <1>5, <1>6 DEF Stacked, Locked, Noted, Sent, Serving, TopRequest, TopCall
<1>8. Phase(s)
  BY <1>1, <1>5 DEF Phase, OnlyNotes, Agree
<1> QED
  BY <1>2, <1>3, <1>7, <1>8 DEF SyncInv, StackInv

\* Which call returned, with what, and who may yet call.
LEMMA CallsStay ==
    ASSUME SyncNames, OneCall, SyncInv, [Sync!Next]_Sync!vars, SyncType', mix' = mix
    PROVE  CallsInv'
<1>0. PICK s \in Seq(Item) : StackInv(s)
  BY DEF SyncInv
<1>1. ASSUME UNCHANGED <<at, frame, parent, got, wrong>> PROVE CallsInv'
  BY <1>1 DEF SyncInv, CallsInv, OpenRequest
<1>2. ASSUME NEW r \in Request, Sync!Sends(r) PROVE CallsInv'
  BY <1>1, <1>2 DEF Sync!Sends
<1>3. CASE Sync!Reads
  BY <1>0, <1>1, <1>3, ReadsStack DEF Sync!Reads, SyncInv
<1>4. CASE Sync!Answers
  BY <1>1, <1>4 DEF Sync!Answers
<1>5. CASE Sync!RunLocks
  BY <1>5, Names DEF Sync!RunLocks, SyncInv, CallsInv, OpenRequest, SyncType, Item
<1>6. CASE Sync!RunReads
  <2>1. wrong' = wrong /\ UNCHANGED <<parent, got>>
    BY <1>0, <1>6, RunReadsStack DEF Sync!RunReads, SyncInv
  <2>2. \A c \in SyncCall : at'[c] = at[c]
    BY <1>6, Names DEF Sync!RunReads, Sync!Handle, SyncInv, SyncType, Item
  <2>3. \A r \in Request : OpenRequest(r) => OpenRequest(r)'
    <3>1. \/ frame' = frame
          \/ \E v : Head(toServer).kind # "response" /\ frame' = [frame EXCEPT ![Head(toServer).of] = v]
      BY <1>6 DEF Sync!RunReads, Sync!Handle
    <3>2. toServer # <<>>
      BY <1>6 DEF Sync!RunReads
    <3>3. ASSUME NEW q \in Request, OpenRequest(q) PROVE frame'[q] = frame[q]
      BY <1>0, <3>1, <3>2, <3>3, ReadsFresh DEF SyncInv, SyncType
    <3> QED
      BY <3>3 DEF OpenRequest
  <2> QED
    BY <2>1, <2>2, <2>3 DEF SyncInv, CallsInv
<1>7. ASSUME NEW c \in SyncCall, Sync!CallReads(c) PROVE CallsInv'
  <2>1. at'[c] \in {"handle", "done"} /\ (at'[c] = "done" => got'[c] = c) /\ wrong' = FALSE
    BY <1>0, <1>7, CallReadsStack DEF SyncInv, CallsInv
  <2>2. \A e \in SyncCall : e # c => at'[e] = at[e] /\ got'[e] = got[e]
    BY <1>7 DEF Sync!CallReads, Sync!Handle, Sync!CallEnds, SyncInv, SyncType
  <2>3. \A r \in Request : OpenRequest(r) => OpenRequest(r)'
    <3>1. \/ frame' = frame
          \/ \E v : Head(toServer).kind # "response" /\ frame' = [frame EXCEPT ![Head(toServer).of] = v]
      BY <1>7 DEF Sync!CallReads, Sync!Handle
    <3>2. toServer # <<>>
      BY <1>7 DEF Sync!CallReads
    <3>3. ASSUME NEW q \in Request, OpenRequest(q) PROVE frame'[q] = frame[q]
      BY <1>0, <3>1, <3>2, <3>3, ReadsFresh DEF SyncInv, SyncType
    <3> QED
      BY <3>3 DEF OpenRequest
  <2>4. parent' = parent
    BY <1>7 DEF Sync!CallReads
  <2> QED
    BY <2>1, <2>2, <2>3, <2>4 DEF SyncInv, CallsInv
<1>8. ASSUME NEW c \in SyncCall, Sync!Calls(c) PROVE CallsInv'
  BY <1>8 DEF Sync!Calls, SyncInv, CallsInv, OpenRequest, SyncType
<1>9. ASSUME NEW c \in SyncCall, Sync!Relock(c) PROVE CallsInv'
  BY <1>9 DEF Sync!Relock, SyncInv, CallsInv, OpenRequest, SyncType
<1>10. ASSUME NEW c \in SyncCall, NEW r \in Request, Sync!Starts(c, r) PROVE CallsInv'
  BY <1>10 DEF Sync!Starts, SyncInv, CallsInv, OpenRequest, SyncType
<1>11. ASSUME NEW r \in Request, Sync!AnswerRequest(r) PROVE CallsInv'
  <2>1. UNCHANGED <<parent, got, wrong>> /\ frame' = [frame EXCEPT ![r].by = Sync!Free] /\ Sync!HandlerOver(r)
    BY <1>11 DEF Sync!AnswerRequest, Sync!Over, Sync!Current
  <2>2. \A c \in SyncCall : at'[c] = "done" => at[c] = "done"
    BY <1>0, <1>11, AnswerRequestStack DEF SyncInv
  <2>3. \A c \in SyncCall : at'[c] = "call" => at[c] = "call"
    BY <1>11 DEF Sync!AnswerRequest, SyncInv, SyncType
  <2>4. \A q \in Request : q # r => frame'[q] = frame[q]
    BY <2>1 DEF SyncInv, SyncType
  <2> QED
    BY <2>1, <2>2, <2>3, <2>4 DEF SyncInv, CallsInv, OpenRequest, Sync!HandlerOver
<1>12. ASSUME NEW r \in Request, Sync!NotificationOver(r) PROVE CallsInv'
  <2>1. UNCHANGED <<parent, got, wrong>> /\ frame' = [frame EXCEPT ![r].by = Sync!Free] /\ frame[r].note
    BY <1>12 DEF Sync!NotificationOver, Sync!Over
  <2>2. \A c \in SyncCall : at'[c] = "done" => at[c] = "done"
    BY <1>0, <1>12, NotificationOverStack DEF SyncInv
  <2>3. \A c \in SyncCall : at'[c] = "call" => at[c] = "call"
    BY <1>12 DEF Sync!NotificationOver, SyncInv, SyncType
  <2>4. \A q \in Request : q # r => frame'[q] = frame[q]
    BY <2>1 DEF SyncInv, SyncType
  <2> QED
    BY <2>1, <2>2, <2>3, <2>4 DEF SyncInv, CallsInv, OpenRequest
<1>13. CASE UNCHANGED Sync!vars
  BY <1>1, <1>13 DEF Sync!vars
<1> QED
  BY <1>2, <1>3, <1>4, <1>5, <1>6, <1>7, <1>8, <1>9, <1>10, <1>11, <1>12, <1>13
     DEF Sync!Next, Sync!Client, Sync!Server, Sync!Quiet

\* Who handles a request or a notification is on the stack, or Run.
LEMMA HandlerWorks ==
    ASSUME SyncNames, SyncType, NEW s \in Seq(Item), StackInv(s), NEW r \in Request, OpenRequest(r) \/ OpenNote(r)
    PROVE  at[frame[r].by] # "none"
<1>1. ASSUME OpenNote(r) PROVE at[frame[r].by] # "none"
  BY <1>1 DEF StackInv, Noted
<1>2. ASSUME OpenRequest(r) PROVE at[frame[r].by] # "none"
  <2> DEFINE i == 2 * frame[r].depth + 1
  <2>1. i \in 1 .. Len(s) /\ s[i] = r /\ Len(s) \in Nat
    BY <1>2 DEF StackInv, Stacked
  <2>2. frame[r].by = IF i = 1 THEN Sync!Run ELSE s[i - 1]
    BY <2>1 DEF StackInv, Stacked
  <2>3. CASE i = 1
    BY <2>1, <2>2, <2>3 DEF StackInv, Locked
  <2>4. CASE i # 1
    <3>1. i - 1 \in 1 .. Len(s) /\ i - 1 = 2 * frame[r].depth
      <4>1. frame[r].depth \in Int
        BY DEF SyncType, Frame
      <4> QED
        BY <2>1, <2>4, <4>1
    <3>2. s[i - 1] \in SyncCall
      <4>1. s[i - 1] \in Item
        BY <3>1
      <4>2. ASSUME s[i - 1] \in Request PROVE FALSE
        <5>1. i - 1 = 2 * frame[s[i - 1]].depth + 1 /\ frame[s[i - 1]].depth \in Int
          BY <3>1, <4>2 DEF StackInv, Stacked, SyncType, Frame
        <5>2. frame[r].depth \in Int
          BY DEF SyncType, Frame
        <5> QED
          BY <3>1, <5>1, <5>2
      <4> QED
        BY <4>1, <4>2 DEF Item
    <3>3. Serving(s[i - 1])
      BY <3>1, <3>2 DEF StackInv, Stacked
    <3> QED
      BY <2>2, <2>4, <3>3 DEF Serving
  <2> QED
    BY <2>3, <2>4
<1> QED
  BY <1>1, <1>2

LEMMA CallersStay ==
    ASSUME SyncNames, SyncInv, [Sync!Next]_Sync!vars, mix' = mix
    PROVE  CallersInv'
<1>0. CallersInv /\ SyncType /\ Sync!Run \notin SyncCall
  BY Names DEF SyncInv, Item
<1>1. ASSUME \A c \in SyncCall : at'[c] # "none" => at[c] # "none" \/ c \in mix.calls PROVE CallersInv'
  BY <1>0, <1>1 DEF CallersInv
<1>2. ASSUME NEW g, at[g] # "none" \/ g \in mix.calls, NEW v, at' = [at EXCEPT ![g] = v] PROVE CallersInv'
  BY <1>0, <1>1, <1>2 DEF SyncType
<1>3. ASSUME at' = at PROVE CallersInv'
  BY <1>1, <1>3
<1>4. ASSUME NEW r \in Request, Sync!Sends(r) PROVE CallersInv'
  BY <1>3, <1>4 DEF Sync!Sends
<1>5. CASE Sync!Reads \/ Sync!Answers
  BY <1>3, <1>5 DEF Sync!Reads, Sync!Answers
<1>6. CASE Sync!RunLocks \/ Sync!RunReads
  BY <1>2, <1>6 DEF Sync!RunLocks, Sync!RunReads, Sync!Handle
<1>7. ASSUME NEW c \in SyncCall, Sync!CallReads(c) \/ Sync!Calls(c) \/ Sync!Relock(c) PROVE CallersInv'
  BY <1>2, <1>7 DEF Sync!CallReads, Sync!Handle, Sync!CallEnds, Sync!Calls, Sync!Relock
<1>8. ASSUME NEW c \in SyncCall, NEW r \in Request, Sync!Starts(c, r) PROVE CallersInv'
  BY <1>2, <1>8 DEF Sync!Starts
<1>9. ASSUME NEW r \in Request, Sync!AnswerRequest(r) \/ Sync!NotificationOver(r) PROVE CallersInv'
  <2>0. PICK s \in Seq(Item) : StackInv(s)
    BY DEF SyncInv
  <2>1. OpenRequest(r) \/ OpenNote(r)
    BY <1>9 DEF Sync!AnswerRequest, Sync!NotificationOver, Sync!Current, OpenRequest, OpenNote
  <2>2. at[frame[r].by] # "none"
    BY <1>0, <1>9, <2>0, <2>1, HandlerWorks
  <2> QED
    BY <1>2, <1>9, <2>2 DEF Sync!AnswerRequest, Sync!NotificationOver
<1>10. CASE UNCHANGED Sync!vars
  BY <1>3, <1>10 DEF Sync!vars
<1> QED
  BY <1>4, <1>5, <1>6, <1>7, <1>8, <1>9, <1>10
     DEF Sync!Next, Sync!Client, Sync!Server, Sync!Quiet

\* calls counts the calls that are on the stack.
ServingCalls == {c \in SyncCall : Serving(c)}
CountInv == IsFiniteSet(ServingCalls) /\ Cardinality(ServingCalls) = syncCalls

LEMMA CountStays ==
    ASSUME SyncNames, OneCall, SyncInv, CountInv, [Sync!Next]_Sync!vars, SyncType', mix' = mix
    PROVE  CountInv'
<1>0. PICK s \in Seq(Item) : StackInv(s)
  BY DEF SyncInv
<1>1. ASSUME syncCalls' = syncCalls, \A c \in SyncCall : Serving(c)' <=> Serving(c) PROVE CountInv'
  <2>1. ServingCalls' = ServingCalls
    BY <1>1 DEF ServingCalls
  <2> QED
    BY <1>1, <2>1 DEF CountInv
<1>2. ASSUME UNCHANGED <<at, syncCalls>> PROVE CountInv'
  BY <1>1, <1>2 DEF Serving
<1>3. ASSUME NEW r \in Request, Sync!Sends(r) PROVE CountInv'
  BY <1>2, <1>3 DEF Sync!Sends
<1>4. CASE Sync!Reads
  BY <1>2, <1>4 DEF Sync!Reads
<1>5. CASE Sync!Answers
  BY <1>2, <1>5 DEF Sync!Answers
<1>6. CASE Sync!RunLocks
  BY <1>1, <1>6, Names DEF Sync!RunLocks, Serving, SyncInv, SyncType, Item
<1>7. CASE Sync!RunReads
  BY <1>1, <1>7, Names DEF Sync!RunReads, Sync!Handle, Serving, SyncInv, SyncType, Item
<1>8. ASSUME NEW c \in SyncCall, Sync!CallReads(c) PROVE CountInv'
  <2>1. CASE Head(toServer).kind = "response"
    <3>1. syncCalls' = syncCalls - 1 /\ at' = [at EXCEPT ![c] = "done"] /\ at[c] = "read"
      BY <1>8, <2>1 DEF Sync!CallReads, Sync!CallEnds
    <3>2. ServingCalls' = ServingCalls \ {c} /\ c \in ServingCalls
      BY <3>1 DEF ServingCalls, Serving, SyncInv, SyncType
    <3> QED
      BY <3>1, <3>2, FS_RemoveElement DEF CountInv
  <2>2. CASE Head(toServer).kind # "response"
    BY <1>1, <1>8, <2>2 DEF Sync!CallReads, Sync!Handle, Serving, SyncInv, SyncType
  <2> QED
    BY <2>1, <2>2
<1>9. ASSUME NEW c \in SyncCall, Sync!Calls(c) PROVE CountInv'
  <2>1. syncCalls' = syncCalls + 1 /\ at' = [at EXCEPT ![c] = "read"] /\ at[c] = "call"
    BY <1>9 DEF Sync!Calls
  <2>2. ServingCalls' = ServingCalls \cup {c} /\ c \notin ServingCalls
    BY <2>1 DEF ServingCalls, Serving, SyncInv, SyncType
  <2> QED
    BY <2>1, <2>2, FS_AddElement DEF CountInv
<1>10. ASSUME NEW c \in SyncCall, Sync!Relock(c) PROVE CountInv'
  BY <1>1, <1>10 DEF Sync!Relock, Serving, SyncInv, SyncType
<1>11. ASSUME NEW c \in SyncCall, NEW r \in Request, Sync!Starts(c, r) PROVE CountInv'
  BY <1>1, <1>11 DEF Sync!Starts, Serving, SyncInv, SyncType
<1>12. ASSUME NEW r \in Request, Sync!AnswerRequest(r) PROVE CountInv'
  BY <1>0, <1>1, <1>12, AnswerRequestStack DEF Sync!AnswerRequest, SyncInv
<1>13. ASSUME NEW r \in Request, Sync!NotificationOver(r) PROVE CountInv'
  BY <1>0, <1>1, <1>13, NotificationOverStack DEF Sync!NotificationOver, SyncInv
<1>14. CASE UNCHANGED Sync!vars
  BY <1>2, <1>14 DEF Sync!vars
<1> QED
  BY <1>3, <1>4, <1>5, <1>6, <1>7, <1>8, <1>9, <1>10, <1>11, <1>12, <1>13, <1>14
     DEF Sync!Next, Sync!Client, Sync!Server, Sync!Quiet

LEMMA MixStays == [Sync!Next]_Sync!vars => mix' = mix
  BY DEF Sync!Next, Sync!Client, Sync!Server, Sync!Quiet, Sync!vars, Sync!Sends, Sync!Reads, Sync!Answers,
         Sync!RunLocks, Sync!RunReads, Sync!CallReads, Sync!Calls, Sync!Relock, Sync!Starts,
         Sync!AnswerRequest, Sync!NotificationOver

LEMMA SyncStep ==
    ASSUME SyncNames, OneCall, SyncInv, [Sync!Next]_Sync!vars, mix' = mix
    PROVE  SyncInv'
<1>0. SyncType' /\ CallsInv' /\ CallersInv'
  BY SyncTypes, CallsStay, CallersStay DEF SyncInv
<1>1. PICK s \in Seq(Item) : StackInv(s)
  BY DEF SyncInv
<1>2. SyncType /\ CallsInv /\ CallersInv
  BY DEF SyncInv
<1>3. \E t \in Seq(Item) : StackInv(t)'
  <2>1. ASSUME NEW r \in Request, Sync!Sends(r) PROVE StackInv(s)'
    BY <1>0, <1>1, <1>2, <2>1, SendsStack
  <2>2. CASE Sync!Reads
    BY <1>0, <1>1, <1>2, <2>2, ReadsStack
  <2>3. CASE Sync!Answers
    BY <1>0, <1>1, <1>2, <2>3, AnswersStack
  <2>4. CASE Sync!RunLocks
    BY <1>0, <1>1, <1>2, <2>4, RunLocksStack
  <2>5. CASE Sync!RunReads
    BY <1>0, <1>1, <1>2, <2>5, RunReadsStack
  <2>6. ASSUME NEW c \in SyncCall, Sync!CallReads(c) PROVE \E t \in Seq(Item) : StackInv(t)'
    BY <1>0, <1>1, <1>2, <2>6, CallReadsStack
  <2>7. ASSUME NEW c \in SyncCall, Sync!Calls(c) PROVE \E t \in Seq(Item) : StackInv(t)'
    BY <1>0, <1>1, <1>2, <2>7, CallsStack
  <2>8. ASSUME NEW c \in SyncCall, Sync!Relock(c) PROVE StackInv(s)'
    BY <1>0, <1>1, <1>2, <2>8, RelockStack
  <2>9. ASSUME NEW c \in SyncCall, NEW r \in Request, Sync!Starts(c, r) PROVE StackInv(s)'
    BY <1>0, <1>1, <1>2, <2>9, StartsStack
  <2>10. ASSUME NEW r \in Request, Sync!AnswerRequest(r) PROVE \E t \in Seq(Item) : StackInv(t)'
    BY <1>0, <1>1, <1>2, <2>10, AnswerRequestStack
  <2>11. ASSUME NEW r \in Request, Sync!NotificationOver(r) PROVE StackInv(s)'
    BY <1>0, <1>1, <1>2, <2>11, NotificationOverStack
  <2>12. CASE UNCHANGED Sync!vars
    <3>1. UNCHANGED serverVars /\ UNCHANGED <<toServer, toClient, client>>
      BY <2>12 DEF Sync!vars, serverVars
    <3>2. Stacked(s)' /\ Locked(s)' /\ Noted(s)'
      BY <1>1, <3>1, ServerStays
    <3>3. Sent(s)' /\ Phase(s)'
      BY <1>1, <3>1 DEF serverVars, StackInv, Sent, Phase, OnlyNotes, LastIs, Ahead, Behind, Agree, TopRequest, TopCall
    <3> QED
      BY <3>2, <3>3 DEF StackInv
  <2> QED
    BY <2>1, <2>2, <2>3, <2>4, <2>5, <2>6, <2>7, <2>8, <2>9, <2>10, <2>11, <2>12
       DEF Sync!Next, Sync!Client, Sync!Server, Sync!Quiet
<1> QED
  BY <1>0, <1>3 DEF SyncInv

LEMMA SyncPromise ==
    ASSUME SyncNames, SyncInv, CountInv
    PROVE  Sync!OwnAnswer
<1>0. PICK s \in Seq(Item) : StackInv(s)
  BY DEF SyncInv
<1>1. Len(s) \in Nat /\ SyncType /\ CallsInv
  BY DEF SyncInv
<1>2. syncCalls = Cardinality({c \in SyncCall : at[c] \in {"read", "handle", "relock"}})
  BY DEF CountInv, ServingCalls, Serving
<1>3. ASSUME NEW g \in {Sync!Run} \cup SyncCall, at[g] = "read" PROVE mu = g
  <2>1. \/ g = Sync!Run /\ Len(s) = 0
        \/ TopCall(s) /\ g = s[Len(s)]
    BY <1>0, <1>1, <1>3, AtTop
  <2> QED
    BY <1>0, <1>3, <2>1 DEF StackInv, Locked
<1>4. ASSUME NEW g \in {Sync!Run} \cup SyncCall, mu = g PROVE at[g] = "read"
  <2>0. g # Sync!Free
    BY Names DEF Item
  <2>1. CASE Len(s) = 0
    BY <1>0, <1>4, <2>0, <2>1 DEF StackInv, Locked
  <2>2. CASE TopRequest(s)
    BY <1>0, <1>4, <2>0, <2>2 DEF StackInv, Locked
  <2>3. CASE TopCall(s)
    BY <1>0, <1>4, <2>0, <2>3 DEF StackInv, Locked
  <2> QED
    BY <1>0, <1>1, <2>1, <2>2, <2>3, Tops DEF StackInv
<1>5. Sync!TypeOK
  <2>1. \A g \in {Sync!Run} \cup SyncCall : at[g] = "read" <=> mu = g
    BY <1>3, <1>4
  <2> QED
    BY <1>2, <2>1 DEF Sync!TypeOK, Sync!Cardinality, Cardinality
<1> QED
  BY <1>1, <1>5 DEF CallsInv, Sync!OwnAnswer

(***************************************************************************)
(* Whatever the goroutines of the handlers do and however deep requests    *)
(* and calls are nested, nobody reads a message that is not for him, and a *)
(* call returns its own answer, for any calls with any methods (Call,      *)
(* lockTurn); where notifications come while a call is served, for one     *)
(* call.                                                                   *)
(***************************************************************************)
THEOREM Answers == SyncNames /\ OneCall /\ MCSpec => []OwnAnswer
<1> SUFFICES ASSUME SyncNames, OneCall PROVE MCSpec => []OwnAnswer
  OBVIOUS
<1>1. MCInit => SyncInv /\ CountInv
  <2>1. Sync!Init => ServingCalls = {} /\ syncCalls = 0
    BY Names DEF Sync!Init, ServingCalls, Serving, Item
  <2> QED
    BY <2>1, SyncStarts, FS_EmptySet DEF CountInv, MCInit
<1>2. SyncInv /\ CountInv /\ [MCNext]_<<part, vars, syncVars>> => (SyncInv /\ CountInv)'
  <2> SUFFICES ASSUME SyncInv, CountInv, [MCNext]_<<part, vars, syncVars>>
               PROVE  (SyncInv /\ CountInv)'
    OBVIOUS
  <2>1. [Sync!Next]_Sync!vars
    BY DEF MCNext, syncVars, Sync!vars
  <2>2. SyncType'
    BY <2>1, SyncTypes DEF SyncInv
  <2>3. mix' = mix
    BY <2>1, MixStays
  <2> QED
    BY <2>1, <2>2, <2>3, SyncStep, CountStays
<1>3. SyncInv /\ CountInv => OwnAnswer
  BY SyncPromise DEF OwnAnswer
<1> QED
  BY <1>1, <1>2, <1>3, PTL DEF MCSpec
=============================================================================
