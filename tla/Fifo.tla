-------------------------------- MODULE Fifo --------------------------------
(***************************************************************************)
(* What the users of a queue of internal/lsp/dynamic_queue.go rely on: an  *)
(* unbounded first-in first-out queue whose operations happen at once.     *)
(***************************************************************************)
EXTENDS Sequences

CONSTANTS Process, Item

VARIABLES
    queue,
    got         \* the last item each process got

vars == <<queue, got>>

Init == queue = <<>> /\ got \in [Process -> Item]

Put(i) == queue' = Append(queue, i) /\ UNCHANGED got

Get(p) ==
    /\ queue # <<>>
    /\ queue' = Tail(queue)
    /\ got' = [got EXCEPT ![p] = Head(queue)]

Next == (\E i \in Item : Put(i)) \/ (\E p \in Process : Get(p))

Spec == Init /\ [][Next]_vars
============================================================================
