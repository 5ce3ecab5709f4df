------------------------------ MODULE SyncConn ------------------------------
(***************************************************************************)
(* The connection of a synchronous API client (internal/ipc/conn_sync.go). *)
(* Run reads a request and handles it on the spot; what the handler needs  *)
(* of the client it asks for with Call, from any of its goroutines, and    *)
(* Call reads the answer itself.  While it serves a call the client may    *)
(* send requests of its own: the Call that reads one handles it, with the  *)
(* protocol's mutex released, before it reads on.  calls counts the calls  *)
(* that are open, reading says that one of them reads, and an answer is    *)
(* written when the calls opened since the request came are over           *)
(* (lockTurn).  The answer to a call is known by the call's method only.   *)
(*                                                                         *)
(* The client is external: one thread, which sends, and reads only while   *)
(* it waits for an answer.  A handler is over when its calls are, and a    *)
(* notification's makes none (api/session.go, HandleNotification).         *)
(***************************************************************************)
EXTENDS Integers, Sequences, FiniteSets

CONSTANTS
    Request,    \* what the client sends, a notification or a request
    Call,       \* the calls that handlers make
    Method,     \* each call's method
    Mixes       \* which calls are made, and whether notifications come while one is served

Run == "run"    \* the goroutine of Run; the others are known by their call
Free == "free"

VARIABLES
    toServer, toClient,     \* the two directions of the stream
    client,                 \* what the client is in: requests it waits for, calls it serves
    mu, calls, reading,     \* SyncConn's fields
    at,                     \* where each goroutine is
    frame,                  \* each request: who handles it, and at which depth
    depth,                  \* each call's depth
    parent,                 \* the request whose handler makes the call
    got,                    \* the call whose answer a call returned
    wrong,                  \* somebody read what was not expected there
    mix                     \* which of Mixes this is

vars == <<toServer, toClient, client, mu, calls, reading, at, frame, depth, parent, got, wrong, mix>>

NoFrame == [by |-> Free, depth |-> -1, note |-> FALSE]

Init ==
    /\ toServer = <<>> /\ toClient = <<>> /\ client = <<>>
    /\ mu = Free /\ calls = 0 /\ reading = FALSE
    /\ at = [g \in {Run} \cup Call |-> IF g = Run THEN "lock" ELSE "none"]
    /\ frame = [r \in Request |-> NoFrame]
    /\ depth = [c \in Call |-> 0] /\ parent = [c \in Call |-> Free] /\ got = [c \in Call |-> Free]
    /\ wrong = FALSE
    /\ mix \in Mixes

-----------------------------------------------------------------------------
(* The client                                                              *)

Top == IF client = <<>> THEN Free ELSE client[Len(client)]
Popped == SubSeq(client, 1, Len(client) - 1)
Fresh(r) == frame[r] = NoFrame /\ \A i \in 1 .. Len(toServer) : toServer[i].of # r

\* Idle or in a call, it sends a request and waits, or a notification.
Sends(r) ==
    /\ Fresh(r) /\ Top \in Call \cup {Free}
    /\ \/ toServer' = Append(toServer, [kind |-> "request", of |-> r]) /\ client' = Append(client, r)
       \/ (mix.notes \/ Top = Free)
          /\ toServer' = Append(toServer, [kind |-> "notification", of |-> r]) /\ UNCHANGED client
    /\ UNCHANGED <<toClient, mu, calls, reading, at, frame, depth, parent, got, wrong, mix>>

\* Waiting, it reads: the answer it waits for, or a call to serve.
Reads ==
    /\ Top \in Request /\ toClient # <<>>
    /\ toClient' = Tail(toClient)
    /\ LET m == Head(toClient) IN
         /\ client' = IF m \in Call THEN Append(client, m) ELSE Popped
         /\ wrong' = (wrong \/ m \in Request \ {Top})
    /\ UNCHANGED <<toServer, mu, calls, reading, at, frame, depth, parent, got, mix>>

Answers ==
    /\ Top \in Call
    /\ toServer' = Append(toServer, [kind |-> "response", of |-> Top])
    /\ client' = Popped
    /\ UNCHANGED <<toClient, mu, calls, reading, at, frame, depth, parent, got, wrong, mix>>

-----------------------------------------------------------------------------
(* Reading                                                                 *)

\* What g reads becomes its to handle, with the mutex released.
Handle(g, m, d) ==
    /\ frame' = [frame EXCEPT ![m.of] = [by |-> g, depth |-> d, note |-> m.kind = "notification"]]
    /\ at' = [at EXCEPT ![g] = "handle"]

\* Run takes the mutex for as long as it reads.
RunLocks ==
    /\ at[Run] = "lock" /\ mu = Free
    /\ mu' = Run /\ at' = [at EXCEPT ![Run] = "read"]
    /\ UNCHANGED <<toServer, toClient, client, calls, reading, frame, depth, parent, got, wrong, mix>>

RunReads ==
    /\ at[Run] = "read" /\ toServer # <<>>
    /\ toServer' = Tail(toServer) /\ mu' = Free
    /\ LET m == Head(toServer) IN
         IF m.kind = "response" THEN wrong' = TRUE /\ at' = [at EXCEPT ![Run] = "failed"] /\ UNCHANGED frame
                                ELSE Handle(Run, m, 0) /\ UNCHANGED wrong
    /\ UNCHANGED <<toClient, client, calls, reading, depth, parent, got, mix>>

\* A call's end, deferred: one call less, and the next may read.
CallEnds(c) ==
    /\ calls' = calls - 1 /\ reading' = FALSE /\ mu' = Free
    /\ at' = [at EXCEPT ![c] = "done"]

Matches(c, m) == Method[m.of] = Method[c]

CallReads(c) ==
    /\ at[c] = "read" /\ mu = c /\ toServer # <<>>
    /\ toServer' = Tail(toServer)
    /\ LET m == Head(toServer) IN
         \/ /\ m.kind = "response"
            /\ got' = [got EXCEPT ![c] = m.of] /\ wrong' = (wrong \/ ~Matches(c, m))
            /\ CallEnds(c)
            /\ UNCHANGED frame
         \/ /\ m.kind # "response"
            /\ Handle(c, m, depth[c])
            /\ reading' = FALSE /\ mu' = Free
            /\ UNCHANGED <<calls, got, wrong>>
    /\ UNCHANGED <<toClient, client, depth, parent, mix>>

-----------------------------------------------------------------------------
(* Calling                                                                 *)

\* A call starts when no other one reads.
MayCall == mu = Free /\ ~reading

Starts(c, r) ==
    /\ c \in mix.calls /\ at[c] = "none" /\ frame[r].by # Free /\ ~frame[r].note
    /\ parent' = [parent EXCEPT ![c] = r] /\ at' = [at EXCEPT ![c] = "call"]
    /\ UNCHANGED <<toServer, toClient, client, mu, calls, reading, frame, depth, got, wrong, mix>>

Calls(c) ==
    /\ at[c] = "call" /\ MayCall
    /\ mu' = c /\ calls' = calls + 1 /\ reading' = TRUE
    /\ depth' = [depth EXCEPT ![c] = calls + 1]
    /\ toClient' = Append(toClient, c)
    /\ at' = [at EXCEPT ![c] = "read"]
    /\ UNCHANGED <<toServer, client, frame, parent, got, wrong, mix>>

-----------------------------------------------------------------------------
(* Answering                                                               *)

\* The handler's goroutines are over before it is.
HandlerOver(r) == \A c \in Call : parent[c] = r => at[c] = "done"

\* Mutant: an answer is written as soon as the mutex is free.
TurnAlways(d) == mu = Free

\* lockTurn.
Turn(d) == mu = Free /\ calls = d

Current(r) == frame[r].by # Free /\ HandlerOver(r)
Over(r) == frame' = [frame EXCEPT ![r].by = Free]

\* A request's answer is written in its turn, and the mutex released; the
\* call that handled it locks it again.
AnswerRequest(r) ==
    LET d == frame[r].depth
        g == frame[r].by
    IN  /\ Current(r) /\ ~frame[r].note /\ Turn(d)
        /\ reading' = (d > 0)
        /\ toClient' = Append(toClient, r)
        /\ at' = [at EXCEPT ![g] = IF g = Run THEN "lock" ELSE "relock"]
        /\ Over(r)
        /\ UNCHANGED <<toServer, client, mu, calls, depth, parent, got, wrong, mix>>

Relock(c) ==
    /\ at[c] = "relock" /\ mu = Free
    /\ mu' = c /\ at' = [at EXCEPT ![c] = "read"]
    /\ UNCHANGED <<toServer, toClient, client, calls, reading, frame, depth, parent, got, wrong, mix>>

\* A notification has no answer: Run goes on, a call waits for its turn.
NotificationOver(r) ==
    LET d == frame[r].depth
        g == frame[r].by
    IN  /\ Current(r) /\ frame[r].note
        /\ Over(r)
        /\ \/ /\ g = Run
              /\ at' = [at EXCEPT ![g] = "lock"]
              /\ UNCHANGED <<mu, reading>>
           \/ /\ g \in Call /\ Turn(d)
              /\ mu' = g /\ reading' = TRUE
              /\ at' = [at EXCEPT ![g] = "read"]
        /\ UNCHANGED <<toServer, toClient, client, calls, depth, parent, got, wrong, mix>>

-----------------------------------------------------------------------------
Client == (\E r \in Request : Sends(r)) \/ Reads \/ Answers
Server ==
    \/ RunLocks \/ RunReads
    \/ \E c \in Call : CallReads(c) \/ Calls(c) \/ Relock(c)
    \/ \E c \in Call, r \in Request : Starts(c, r)
    \/ \E r \in Request : AnswerRequest(r) \/ NotificationOver(r)

\* The client has sent everything and Run waits for more.
Quiet ==
    /\ client = <<>> /\ toServer = <<>> /\ \A r \in Request : ~Fresh(r)
    /\ at[Run] = "read" /\ \A c \in Call : at[c] \in {"none", "done"}
    /\ UNCHANGED vars

Next == Client \/ Server \/ Quiet

Spec == Init /\ [][Next]_vars

-----------------------------------------------------------------------------
(* Properties                                                              *)

\* The counters and the mutex fit the goroutines.
TypeOK ==
    /\ calls = Cardinality({c \in Call : at[c] \in {"read", "handle", "relock"}})
    /\ \A g \in {Run} \cup Call : at[g] = "read" <=> mu = g

\* Whatever the goroutines of the handlers do and however deep the requests
\* are nested, neither Run nor a Call nor the client reads a message that is
\* not for it: answers come in the order of a stack (lockTurn).  And although
\* an answer is known by its method only, a call returns its own.
OwnAnswer ==
    /\ TypeOK
    /\ ~wrong
    /\ \A c \in Call : at[c] = "done" => got[c] = c
============================================================================
