--------------------------- MODULE MCConnections ---------------------------
(***************************************************************************)
(* The two kinds of API connection for TLC.  A behaviour is of one kind of *)
(* connection, as part says, while the other stays as it was: of the       *)
(* asynchronous one, or of the synchronous one, with any calls nested in   *)
(* requests, or with one call and notifications while it is served.        *)
(***************************************************************************)
EXTENDS AsyncConn, TLC

CONSTANTS Request, SyncCall, SyncMethod, SyncMixes

\* All calls have one method: nothing but their order tells answers apart.
OneMethod == [c \in SyncCall |-> "m"]

\* All the calls; or one of them, and notifications while it is served.
AllOrNoted ==
    {[calls |-> SyncCall, notes |-> FALSE]}
      \cup {[calls |-> {c}, notes |-> TRUE] : c \in {CHOOSE c \in SyncCall : TRUE}}

VARIABLES
    part,
    toServer, toClient, client, mu, syncCalls, reading, at, frame, depth, parent, got, wrong, mix

syncVars == <<toServer, toClient, client, mu, syncCalls, reading, at, frame, depth, parent,
              got, wrong, mix>>

Sync == INSTANCE SyncConn WITH Call <- SyncCall, Method <- SyncMethod, Mixes <- SyncMixes,
                                  calls <- syncCalls

MCInit ==
    /\ part \in {"async", "sync"} /\ Init /\ Sync!Init
    /\ part = "async" => mix = CHOOSE m \in SyncMixes : TRUE

MCNext ==
    \/ part = "async" /\ Next /\ UNCHANGED <<part, syncVars>>
    \/ part = "sync" /\ Sync!Next /\ UNCHANGED <<part, vars>>

MCSpec == MCInit /\ [][MCNext]_<<part, vars, syncVars>>

-----------------------------------------------------------------------------
(* The property of SyncConn.                                               *)

\* Answers come in the order of a stack, and a call returns its own although
\* answers are known by their methods only (Call), unless notifications come
\* while several calls are open.
OwnAnswer == Sync!OwnAnswer
============================================================================
