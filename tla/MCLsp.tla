------------------------------- MODULE MCLsp -------------------------------
(***************************************************************************)
(* The language server's loops, and the queue that lies between them, for  *)
(* TLC: in a behaviour either the loops run or the queue is used, as part  *)
(* says, while the other stays as it was.                                  *)
(***************************************************************************)
EXTENDS DynamicQueue

CONSTANTS Request, Nobody, Exiting, WriteFails

ASSUME LspAssumption == Nobody \notin Request

VARIABLES
    part,
    initialized, reader, dispatcher, writer, requestQueue, outgoingQueue, handled, work,
    pendingClientRequests, canceled, pendingServerRequests, asked, answered, lspExit,
    backgroundCtx, written

Lsp == INSTANCE LspServer

lspVars == <<initialized, reader, dispatcher, writer, requestQueue, outgoingQueue, handled,
             work, pendingClientRequests, canceled, pendingServerRequests, asked, answered,
             lspExit, backgroundCtx, written>>
allVars == <<part, vars, lspVars>>

\* The loops that wait for a message: no step of theirs is due.
LoopsWait ==
    /\ initialized = FALSE
    /\ reader = "read" /\ dispatcher = "get" /\ writer = "get"
    /\ requestQueue = <<>> /\ outgoingQueue = <<>> /\ handled = Nobody
    /\ work = [r \in Request |-> "none"]
    /\ pendingClientRequests = {} /\ canceled = {}
    /\ pendingServerRequests = {} /\ asked = {} /\ answered = {}
    /\ lspExit = FALSE /\ backgroundCtx = FALSE
    /\ written = [r \in Request |-> 0]

MCInit ==
    /\ Init
    /\ \/ part = "queue" /\ LoopsWait
       \/ /\ part = "loops" /\ Lsp!Init
          /\ item = [p \in Process |-> CHOOSE i \in Item : TRUE]

\* Nobody need use the queue.
Unused == part = "queue" /\ UNCHANGED allVars

MCNext ==
    \/ part = "queue" /\ Next /\ UNCHANGED <<part, lspVars>>
    \/ part = "loops" /\ Lsp!Next /\ UNCHANGED <<part, vars>>
    \/ Unused

MCSpec ==
    /\ MCInit /\ [][MCNext]_allVars
    /\ Fairness
    /\ Lsp!Fairness

-----------------------------------------------------------------------------
(* The properties of LspServer.                                            *)

\* No request ever has two answers, queued or written, and nothing is left in
\* the two tables for a request that is done (removeRequest, writeLoop).
RequestsExact == Lsp!RequestsExact

\* Every request that was read is answered, canceled or not, unless the loops
\* are told to end or cannot write; every one that was dispatched comes to an
\* end; and exit ends the loops (dispatchLoop, writeLoop, sendClientRequest).
AllServed == Lsp!AllServed
============================================================================
