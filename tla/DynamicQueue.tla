---------------------------- MODULE DynamicQueue ----------------------------
(***************************************************************************)
(* The queue between the language server's loops (internal/lsp/            *)
(* dynamic_queue.go).  Its state is a token in one of two channels of      *)
(* capacity one: "ready" when there are items, "idle" when there are none. *)
(* Put takes the token from either, Get from "ready" only, and puts it     *)
(* back into the channel that fits; a canceled context is looked at first, *)
(* and while the token is awaited.                                         *)
(*                                                                         *)
(* A process that puts or gets is not also doing the other.                *)
(***************************************************************************)
EXTENDS Integers, Sequences

CONSTANTS Process, Item, MaxPuts

ASSUME DynamicQueueAssumption == MaxPuts \in Nat /\ Process # {} /\ Item # {}

VARIABLES
    idle, ready,    \* whether the token is in the channel
    items,          \* the state's items
    at,             \* what each process does: and whether it has the token
    item,           \* what it puts
    got,            \* what it got last
    ctx,            \* the processes whose context is canceled
    puts            \* bounds the calls of Put

vars == <<idle, ready, items, at, item, got, ctx, puts>>

Init ==
    /\ idle = TRUE /\ ready = FALSE /\ items = <<>>
    /\ at = [p \in Process |-> "out"]
    /\ item \in [Process -> Item] /\ got = item
    /\ ctx = {} /\ puts = 0

To(p, s) == at' = [at EXCEPT ![p] = s]

Cancel(p) ==
    /\ ctx' = ctx \cup {p} /\ p \notin ctx
    /\ UNCHANGED <<idle, ready, items, at, item, got, puts>>

\* Put and Get with a canceled context do nothing.
StartPut(p, i) ==
    /\ at[p] = "out" /\ p \notin ctx /\ puts < MaxPuts
    /\ To(p, "put") /\ item' = [item EXCEPT ![p] = i] /\ puts' = puts + 1
    /\ UNCHANGED <<idle, ready, items, got, ctx>>

StartGet(p) ==
    /\ at[p] = "out" /\ p \notin ctx
    /\ To(p, "get")
    /\ UNCHANGED <<idle, ready, items, item, got, ctx, puts>>

\* Mutant: Put waits for an empty queue.
getAnyIdle(p) ==
    /\ at[p] = "put" /\ idle /\ idle' = FALSE
    /\ To(p, "putting")
    /\ UNCHANGED <<ready, items, item, got, ctx, puts>>

\* getAny and getReady: the token, or the context's end.
getAny(p) ==
    /\ at[p] = "put"
    /\ \/ idle /\ idle' = FALSE /\ UNCHANGED ready
       \/ ready /\ ready' = FALSE /\ UNCHANGED idle
    /\ To(p, "putting")
    /\ UNCHANGED <<items, item, got, ctx, puts>>

MayGet == ready

getReady(p) ==
    /\ at[p] = "get" /\ MayGet
    /\ ready' = FALSE
    /\ To(p, "getting")
    /\ UNCHANGED <<idle, items, item, got, ctx, puts>>

GiveUp(p) ==
    /\ at[p] \in {"put", "get"} /\ p \in ctx
    /\ To(p, "out")
    /\ UNCHANGED <<idle, ready, items, item, got, ctx, puts>>

\* With the token in hand nobody else is at the items.
Put(p) ==
    /\ at[p] = "putting"
    /\ items' = Append(items, item[p]) /\ ready' = TRUE
    /\ To(p, "out")
    /\ UNCHANGED <<idle, item, got, ctx, puts>>

\* Mutant: the slice loses its other end.
RestInit(s) == SubSeq(s, 1, Len(s) - 1)

\* What is left in the slice, and whether that is nothing.
IsEmpty(s) == Len(s) = 0
Rest(s) == Tail(s)

Get(p) ==
    /\ at[p] = "getting"
    /\ got' = [got EXCEPT ![p] = Head(items)] /\ items' = Rest(items)
    /\ idle' = IsEmpty(Rest(items)) /\ ready' = ~IsEmpty(Rest(items))
    /\ To(p, "out")
    /\ UNCHANGED <<item, ctx, puts>>

Step(p) == getAny(p) \/ getReady(p) \/ GiveUp(p) \/ Put(p) \/ Get(p)

Next ==
    \E p \in Process : Cancel(p) \/ (\E i \in Item : StartPut(p, i)) \/ StartGet(p) \/ Step(p)

Spec == Init /\ [][Next]_vars

\* The select of a goroutine that waits for a channel which is filled again
\* and again is served in turn.
Fairness == \A p \in Process : SF_vars(getAny(p)) /\ SF_vars(getReady(p)) /\ WF_vars(Step(p))

-----------------------------------------------------------------------------
(* Properties                                                              *)

\* The processes that have the token.
Holders == {p \in Process : at[p] \in {"putting", "getting"}}

\* The queue's variables have their types.
TypeOK ==
    /\ idle \in BOOLEAN /\ ready \in BOOLEAN
    /\ items \in Seq(Item)
    /\ at \in [Process -> {"out", "put", "get", "putting", "getting"}]
    /\ item \in [Process -> Item] /\ got \in [Process -> Item]
    /\ ctx \subseteq Process /\ puts \in Nat

\* The token is in one place, wherever the contexts are canceled: no send
\* into a channel blocks, and nobody is at the items with another.
OneToken ==
    /\ ~(idle /\ ready)
    /\ idle \/ ready => Holders = {}
    /\ ~idle /\ ~ready => Holders # {}
    /\ \A p, q \in Holders : p = q

\* The channel says whether there are items: Get never takes from an empty
\* queue, and never waits while there is something in it.
ChannelFits ==
    /\ idle => items = <<>>
    /\ ready => items # <<>>
    /\ \A p \in Process : at[p] = "getting" => items # <<>>

\* The queue is a first-in first-out queue: dynamic_queue.go implements Fifo.
Abstract == INSTANCE Fifo WITH queue <- items
ImplementsFifo == Abstract!Spec

\* A Put comes back whatever the others do; so does a Get whose context is
\* canceled, also from an empty queue.
AllReturn ==
    \A p \in Process :
        at[p] = "put" \/ (at[p] = "get" /\ p \in ctx) ~> at[p] = "out"
============================================================================
