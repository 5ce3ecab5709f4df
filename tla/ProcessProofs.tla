--------------------------- MODULE ProcessProofs ---------------------------
(***************************************************************************)
(* Proofs about the process, for every number of domains, of requests and  *)
(* of servers, and with no bound on the timers: what keeps it alive is     *)
(* counted exactly, nothing that keeps it is cut short, a server serves    *)
(* after its callback, and no output is lost.                              *)
(***************************************************************************)
EXTENDS Process, FiniteSetTheorems, TLAPS

\* A domain that may be spawned has a parent once it is.
BornInv ==
    \A s \in Spawn :
        /\ at[s] = "unborn" <=> parent[s] = None
        /\ s \in delivered => parent[s] # None

\* runInbox leaves nothing of what it took, unless it fails.
BatchInv ==
    \A d \in Domain : batch[d] # <<>> =>
        at[d] \in {"batch", "failed"} \/ (at[d] = "task" /\ after[d] = "batch")

\* Domain.spawned counts the results that are outstanding, those that arrived
\* and those that are being run.
SpawnInv ==
    \A d \in Domain :
        spawned[d] = Cardinality(Outstanding(d)) + Len(inbox[d]) + Len(batch[d])

DoneInv == \A d \in Domain : at[d] \in {"returned", "flushed", "finished"} => spawned[d] = 0

HandlesInv ==
    liveHandles = Cardinality({v \in Server : server[v] # "none"}) + Cardinality(held)

\* Only main starts a server, and has not when it finds nothing left to do.
ServeInv ==
    /\ at[Main] \in {"idle", "returned", "flushed"} => \A v \in Server : server[v] # "serving"
    /\ (\A v \in Server : server[v] # "serving") => \A r \in Request : at[r] = "unborn"

\* What is queued is of servers on their way to serve, and a server's Serve
\* comes after all else of it.
QueuedInv(q) ==
    \A i \in 1 .. Len(q) :
        /\ server[q[i].of] \in {"announced", "queued"}
        /\ q[i].what = "serve" =>
            server[q[i].of] = "queued" /\ \A j \in 1 .. Len(q) : j > i => q[j].of # q[i].of

QueueInv ==
    /\ QueuedInv(queue) /\ QueuedInv(taken)
    /\ \A i \in 1 .. Len(taken), j \in 1 .. Len(queue) : taken[i].what = "serve" => queue[j].of # taken[i].of

OutputInv ==
    /\ buffered # {} /\ liveHandles > 0 => refing # {}
    /\ at[Main] = "flushed" \/ exited = "normal" => "owed" \notin buffered

ProcessInv ==
    /\ TypeOK /\ BornInv /\ BatchInv /\ SpawnInv /\ DoneInv /\ HandlesInv /\ ServeInv
    /\ QueueInv /\ OutputInv

-----------------------------------------------------------------------------
(* Facts about domains, deliveries and handles.                            *)

LEMMA Domains ==
    /\ Main \in Domain /\ Spawn \subseteq Domain /\ Request \subseteq Domain
    /\ Main \notin Spawn /\ Main \notin Request /\ Spawn \cap Request = {}
    /\ None \notin Domain /\ IsFiniteSet(Domain)
<1>1. IsFiniteSet({Main})
  BY FS_Singleton
<1>2. IsFiniteSet({Main} \cup Spawn)
  BY <1>1, FS_Union, DomainsAssumption
<1>3. IsFiniteSet(Domain)
  BY <1>2, FS_Union, DomainsAssumption DEF Domain
<1> QED
  BY <1>3, DomainsAssumption DEF Domain

LEMMA OutstandingFinite ==
    \A d : IsFiniteSet(Outstanding(d)) /\ Cardinality(Outstanding(d)) \in Nat
             /\ (Cardinality(Outstanding(d)) = 0 <=> Outstanding(d) = {})
<1> TAKE d
<1>1. Outstanding(d) \subseteq Spawn
  BY DEF Outstanding
<1>2. IsFiniteSet(Outstanding(d))
  BY <1>1, FS_Subset, DomainsAssumption
<1> QED
  BY <1>2, FS_CardinalityType, FS_EmptySet

LEMMA HandlesFinite ==
    ASSUME TypeOK
    PROVE  /\ IsFiniteSet(held) /\ Cardinality(held) \in Nat
           /\ (Cardinality(held) = 0 <=> held = {})
           /\ IsFiniteSet({v \in Server : server[v] # "none"})
           /\ Cardinality({v \in Server : server[v] # "none"}) \in Nat
           /\ Cardinality({v \in Server : server[v] # "none"}) = 0
                <=> {v \in Server : server[v] # "none"} = {}
<1>1. IsFiniteSet(held)
  BY Domains, FS_Subset DEF TypeOK
<1> DEFINE S == {v \in Server : server[v] # "none"}
<1>2. S \subseteq Server
  OBVIOUS
<1>3. IsFiniteSet(S)
  BY <1>2, FS_Subset, DomainsAssumption
<1> HIDE DEF S
<1>4. Cardinality(S) \in Nat /\ (Cardinality(S) = 0 <=> S = {})
  BY <1>3, FS_CardinalityType, FS_EmptySet
<1>5. Cardinality(held) \in Nat /\ (Cardinality(held) = 0 <=> held = {})
  BY <1>1, FS_CardinalityType, FS_EmptySet
<1> QED
  BY <1>1, <1>3, <1>4, <1>5 DEF S

\* A domain takes a handle, or gives it back.
LEMMA HeldAdd ==
    ASSUME TypeOK, NEW d \in Domain, d \notin held, held' = held \cup {d}
    PROVE  Cardinality(held') = Cardinality(held) + 1
  BY HandlesFinite, FS_AddElement

LEMMA HeldRemove ==
    ASSUME TypeOK, NEW d \in Domain, d \in held, held' = held \ {d}
    PROVE  Cardinality(held') = Cardinality(held) - 1 /\ Cardinality(held) > 0
<1>1. IsFiniteSet(held) /\ Cardinality(held) \in Nat /\ Cardinality(held) # 0
  BY HandlesFinite
<1>2. Cardinality(held \ {d}) = Cardinality(held) - 1
  BY <1>1, FS_RemoveElement
<1> QED
  BY <1>1, <1>2

\* deliver moves what is outstanding to the parent's inbox, at most once.
LEMMA Delivers ==
    ASSUME TypeOK, BornInv, NEW s \in Spawn, at[s] # "unborn", NEW how \in {"settle", "throw", "panic", "none"},
           deliver(s, how), parent' = parent
    PROVE  /\ inbox' \in [Domain -> Seq(Delivery)] /\ wakeup' \subseteq Domain
           /\ delivered' \subseteq Spawn
           /\ delivered' = delivered \cup {s}
           /\ \A d \in Domain : Cardinality(Outstanding(d))' + Len(inbox'[d])
                                    = Cardinality(Outstanding(d)) + Len(inbox[d])
<1>1. CASE s \in delivered
  <2>1. inbox' = inbox /\ wakeup' = wakeup /\ delivered' = delivered
    BY <1>1 DEF deliver
  <2>2. \A d : Outstanding(d)' = Outstanding(d)
    BY <2>1 DEF Outstanding
  <2> QED
    BY <1>1, <2>1, <2>2 DEF TypeOK
<1>2. CASE s \notin delivered
  <2> DEFINE x == [child |-> s, how |-> how]
  <2>1. PICK p \in Domain : p = parent[s]
    BY DEF BornInv, TypeOK
  <2>2. /\ delivered' = delivered \cup {s} /\ inbox' = [inbox EXCEPT ![p] = Append(@, x)]
        /\ wakeup' = wakeup \cup {p}
    BY <1>2, <2>1 DEF deliver, post
  <2>3. x \in Delivery
    BY DEF Delivery
  <2> HIDE DEF x
  <2>4. /\ inbox' \in [Domain -> Seq(Delivery)] /\ Len(inbox'[p]) = Len(inbox[p]) + 1
        /\ \A d \in Domain \ {p} : inbox'[d] = inbox[d]
    <3>1. inbox[p] \in Seq(Delivery)
      BY <2>1 DEF TypeOK
    <3>2. Append(inbox[p], x) \in Seq(Delivery) /\ Len(Append(inbox[p], x)) = Len(inbox[p]) + 1
      BY <2>3, <3>1
    <3> QED
      BY <2>1, <2>2, <3>2 DEF TypeOK
  <2>5. \A d \in Domain \ {p} : Outstanding(d)' = Outstanding(d)
    BY <2>1, <2>2 DEF Outstanding
  <2>6. Outstanding(p)' = Outstanding(p) \ {s} /\ s \in Outstanding(p)
    BY <1>2, <2>1, <2>2 DEF Outstanding
  <2>7. Cardinality(Outstanding(p))' = Cardinality(Outstanding(p)) - 1 /\ Cardinality(Outstanding(p)) \in Nat
    <3>1. IsFiniteSet(Outstanding(p)) /\ Cardinality(Outstanding(p)) \in Nat
      BY OutstandingFinite
    <3>2. Cardinality(Outstanding(p) \ {s}) = Cardinality(Outstanding(p)) - 1
      BY <2>6, <3>1, FS_RemoveElement
    <3> QED
      BY <2>6, <3>1, <3>2
  <2>8. Len(inbox[p]) \in Nat
    BY <2>1 DEF TypeOK
  <2>9. Cardinality(Outstanding(p))' + Len(inbox'[p]) = Cardinality(Outstanding(p)) + Len(inbox[p])
    BY <2>4, <2>7, <2>8
  <2>10. \A d \in Domain \ {p} : Cardinality(Outstanding(d))' + Len(inbox'[d])
                                    = Cardinality(Outstanding(d)) + Len(inbox[d])
    BY <2>4, <2>5
  <2>11. delivered' \subseteq Spawn /\ wakeup' \subseteq Domain
    BY <2>1, <2>2 DEF TypeOK
  <2>12. \A d \in Domain : Cardinality(Outstanding(d))' + Len(inbox'[d])
                                    = Cardinality(Outstanding(d)) + Len(inbox[d])
    <3> SUFFICES ASSUME NEW d \in Domain
                 PROVE  Cardinality(Outstanding(d))' + Len(inbox'[d])
                                    = Cardinality(Outstanding(d)) + Len(inbox[d])
      OBVIOUS
    <3>1. CASE d = p
      BY <2>9, <3>1
    <3>2. CASE d # p
      BY <2>10, <3>2
    <3> QED
      BY <3>1, <3>2
  <2>13. inbox' \in [Domain -> Seq(Delivery)]
    BY <2>4
  <2>14. delivered' = delivered \cup {s}
    BY <2>2
  <2> QED
    BY <2>11, <2>12, <2>13, <2>14
<1> QED
  BY <1>1, <1>2

-----------------------------------------------------------------------------
(* What the code of a domain does in a task.                               *)

LEMMA KeepsSetTimeout ==
    ASSUME ProcessInv, NEW d \in Domain, SetTimeout(d)
    PROVE  ProcessInv'
<1> USE DEF ProcessInv
<1>1. /\ UNCHANGED <<exited, at, after, spawned, inbox, batch, wakeup, parent,
                     delivered, held, refing, liveHandles, wake, buffered,
                     ended, owner, server, queue, taken>>
      /\ budget > 0 /\ budget' = budget - 1
      /\ timers' = [timers EXCEPT ![d] = @ + 1]
  BY DEF SetTimeout, domainVars, spawnVars, handleVars, serverVars
<1>a. TypeOK'
  BY <1>1 DEF TypeOK
<1>b. BornInv'
  BY <1>1 DEF BornInv
<1>c. BatchInv'
  BY <1>1 DEF BatchInv
<1>d. SpawnInv'
  BY <1>1 DEF SpawnInv, Outstanding
<1>e. DoneInv'
  BY <1>1 DEF DoneInv
<1>f. HandlesInv'
  BY <1>1 DEF HandlesInv
<1>g. ServeInv'
  BY <1>1 DEF ServeInv
<1>h. QueueInv'
  BY <1>1 DEF QueueInv, QueuedInv
<1>i. OutputInv'
  BY <1>1 DEF OutputInv
<1> QED
  BY <1>a, <1>b, <1>c, <1>d, <1>e, <1>f, <1>g, <1>h, <1>i

LEMMA KeepsClearTimeout ==
    ASSUME ProcessInv, NEW d \in Domain, ClearTimeout(d)
    PROVE  ProcessInv'
<1> USE DEF ProcessInv
<1>1. /\ UNCHANGED <<exited, at, after, budget, spawned, inbox, batch, wakeup, parent,
                     delivered, held, refing, liveHandles, wake, buffered,
                     ended, owner, server, queue, taken>>
      /\ timers[d] > 0 /\ timers' = [timers EXCEPT ![d] = @ - 1]
  BY DEF ClearTimeout, domainVars, spawnVars, handleVars, serverVars
<1>a. TypeOK'
  BY <1>1 DEF TypeOK
<1>b. BornInv'
  BY <1>1 DEF BornInv
<1>c. BatchInv'
  BY <1>1 DEF BatchInv
<1>d. SpawnInv'
  BY <1>1 DEF SpawnInv, Outstanding
<1>e. DoneInv'
  BY <1>1 DEF DoneInv
<1>f. HandlesInv'
  BY <1>1 DEF HandlesInv
<1>g. ServeInv'
  BY <1>1 DEF ServeInv
<1>h. QueueInv'
  BY <1>1 DEF QueueInv, QueuedInv
<1>i. OutputInv'
  BY <1>1 DEF OutputInv
<1> QED
  BY <1>a, <1>b, <1>c, <1>d, <1>e, <1>f, <1>g, <1>h, <1>i

LEMMA KeepsWriteLine ==
    ASSUME ProcessInv, NEW d \in Domain, writeLine(d)
    PROVE  ProcessInv'
<1> USE DEF ProcessInv
<1>1. /\ UNCHANGED <<exited, at, after, timers, budget, spawned, inbox, batch, wakeup,
                     parent, delivered, held, refing, liveHandles, wake,
                     ended, owner, server, queue, taken>>
      /\ exited = "no" /\ at[d] = "task"
      /\ buffered' = IF liveHandles > 0 THEN {}
                      ELSE buffered \cup {IF Owed(d) THEN "owed" ELSE "late"}
  BY DEF writeLine, InTask, Alive, domainVars, spawnVars, handleVars, serverVars
<1>2. at[Main] = "flushed" => ~Owed(d)
  <2> SUFFICES ASSUME at[Main] = "flushed", Owed(d) PROVE FALSE
    OBVIOUS
  <2>1. d \in Spawn /\ d \in Outstanding(Main)
    BY <1>1 DEF Owed, Outstanding
  <2>2. spawned[Main] = 0
    BY Domains DEF DoneInv
  <2>3. Cardinality(Outstanding(Main)) # 0 /\ Cardinality(Outstanding(Main)) \in Nat
    BY <2>1, OutstandingFinite
  <2>4. spawned[Main] = Cardinality(Outstanding(Main)) + Len(inbox[Main]) + Len(batch[Main])
    BY Domains DEF SpawnInv
  <2>5. Len(inbox[Main]) \in Nat /\ Len(batch[Main]) \in Nat
    BY Domains DEF TypeOK
  <2> QED
    BY <2>2, <2>3, <2>4, <2>5
<1>a. TypeOK'
  BY <1>1 DEF TypeOK
<1>b. BornInv'
  BY <1>1 DEF BornInv
<1>c. BatchInv'
  BY <1>1 DEF BatchInv
<1>d. SpawnInv'
  BY <1>1 DEF SpawnInv, Outstanding
<1>e. DoneInv'
  BY <1>1 DEF DoneInv
<1>f. HandlesInv'
  BY <1>1 DEF HandlesInv
<1>g. ServeInv'
  BY <1>1 DEF ServeInv
<1>h. QueueInv'
  BY <1>1 DEF QueueInv, QueuedInv
<1>i. OutputInv'
  BY <1>1, <1>2 DEF OutputInv, TypeOK
<1> QED
  BY <1>a, <1>b, <1>c, <1>d, <1>e, <1>f, <1>g, <1>h, <1>i

LEMMA KeepsSpawn ==
    ASSUME ProcessInv, NEW d \in Domain, NEW s \in Spawn, spawn(d, s)
    PROVE  ProcessInv'
<1> USE DEF ProcessInv
<1>1. /\ UNCHANGED <<exited, after, timers, budget, inbox, batch, wakeup, delivered,
                     held, refing, liveHandles, wake, buffered, ended, owner,
                     server, queue, taken>>
      /\ at[d] = "task" /\ at[s] = "unborn" /\ at' = [at EXCEPT ![s] = "task"]
      /\ parent' = [parent EXCEPT ![s] = d]
      /\ spawned' = [spawned EXCEPT ![d] = @ + 1]
  BY DEF spawn, InTask, Alive, domainVars, spawnVars, handleVars, serverVars
<1>2. at'[s] = "task" /\ \A e \in Domain \ {s} : at'[e] = at[e]
  BY <1>1, Domains DEF TypeOK
<1>3. parent[s] = None /\ s \notin delivered /\ d # None
  BY <1>1, Domains DEF BornInv
<1>a. TypeOK'
  <2>1. at' \in [Domain -> Place]
    BY <1>1 DEF TypeOK, Place
  <2>2. parent' \in [Spawn -> Domain \cup {None}]
    BY <1>1 DEF TypeOK
  <2>3. spawned' \in [Domain -> Nat]
    BY <1>1 DEF TypeOK
  <2> QED
    BY <1>1, <2>1, <2>2, <2>3 DEF TypeOK
<1>b. BornInv'
  BY <1>1, <1>2, Domains, <1>3, SMTT(30) DEF BornInv, TypeOK
<1>c. BatchInv'
  BY <1>1, <1>2, Domains, <1>3 DEF BatchInv, TypeOK
<1>d. SpawnInv'
  <2>1. \A e \in Domain \ {d} : Outstanding(e)' = Outstanding(e)
    BY <1>1, <1>3, Domains DEF Outstanding, TypeOK
  <2>2. Outstanding(d)' = Outstanding(d) \cup {s} /\ s \notin Outstanding(d)
    BY <1>1, <1>3 DEF Outstanding, TypeOK
  <2>3. IsFiniteSet(Outstanding(d)) /\ Cardinality(Outstanding(d)) \in Nat
    BY OutstandingFinite
  <2>4. Cardinality(Outstanding(d) \cup {s}) = Cardinality(Outstanding(d)) + 1
    BY <2>2, <2>3, FS_AddElement
  <2>5. Cardinality(Outstanding(d))' = Cardinality(Outstanding(d)) + 1
    BY <2>2, <2>4
  <2>6. spawned'[d] = spawned[d] + 1 /\ \A e \in Domain \ {d} : spawned'[e] = spawned[e]
    BY <1>1 DEF TypeOK
  <2>7. Len(inbox[d]) \in Nat /\ Len(batch[d]) \in Nat
    BY DEF TypeOK
  <2>8. spawned'[d] = Cardinality(Outstanding(d))' + Len(inbox'[d]) + Len(batch'[d])
    BY <1>1, <2>3, <2>5, <2>6, <2>7, SMTT(30) DEF SpawnInv
  <2>9. \A e \in Domain \ {d} : spawned'[e] = Cardinality(Outstanding(e))' + Len(inbox'[e]) + Len(batch'[e])
    BY <1>1, <2>1, <2>6 DEF SpawnInv
  <2> QED
    BY <2>8, <2>9 DEF SpawnInv
<1>e. DoneInv'
  BY <1>1, <1>2, Domains, <1>3 DEF DoneInv, TypeOK
<1>f. HandlesInv'
  BY <1>1 DEF HandlesInv
<1>g. ServeInv'
  <2>1. at'[Main] = at[Main] /\ \A r \in Request : at'[r] = at[r]
    BY <1>2, Domains
  <2> QED
    BY <1>1, <2>1 DEF ServeInv
<1>h. QueueInv'
  BY <1>1 DEF QueueInv, QueuedInv
<1>i. OutputInv'
  BY <1>1, <1>2, Domains, <1>3 DEF OutputInv, TypeOK
<1> QED
  BY <1>a, <1>b, <1>c, <1>d, <1>e, <1>f, <1>g, <1>h, <1>i

LEMMA KeepsDeliver ==
    ASSUME ProcessInv, NEW s \in Spawn, Deliver(s)
    PROVE  ProcessInv'
<1> USE DEF ProcessInv
<1>1. /\ UNCHANGED <<exited, at, after, timers, budget, spawned, batch, parent, held,
                     refing, liveHandles, wake, buffered, ended, owner,
                     server, queue, taken>>
      /\ at[s] = "task" /\ deliver(s, "settle")
  BY DEF Deliver, InTask, Alive, domainVars, spawnVars, handleVars, serverVars
<1>2. /\ inbox' \in [Domain -> Seq(Delivery)] /\ wakeup' \subseteq Domain
      /\ delivered' \subseteq Spawn /\ delivered' = delivered \cup {s}
      /\ \A d \in Domain : Cardinality(Outstanding(d))' + Len(inbox'[d])
                                = Cardinality(Outstanding(d)) + Len(inbox[d])
  BY <1>1, Delivers
<1>a. TypeOK'
  BY <1>1, <1>2 DEF TypeOK
<1>b. BornInv'
  BY <1>1, <1>2 DEF BornInv
<1>c. BatchInv'
  BY <1>1 DEF BatchInv
<1>d. SpawnInv'
  BY <1>1, <1>2 DEF SpawnInv
<1>e. DoneInv'
  BY <1>1 DEF DoneInv
<1>f. HandlesInv'
  BY <1>1 DEF HandlesInv
<1>g. ServeInv'
  BY <1>1 DEF ServeInv
<1>h. QueueInv'
  BY <1>1 DEF QueueInv, QueuedInv
<1>i. OutputInv'
  BY <1>1 DEF OutputInv
<1> QED
  BY <1>a, <1>b, <1>c, <1>d, <1>e, <1>f, <1>g, <1>h, <1>i

LEMMA KeepsListen ==
    ASSUME ProcessInv, NEW d \in Domain, NEW v \in Server, Listen(d, v)
    PROVE  ProcessInv'
<1> USE DEF ProcessInv
<1>1. /\ UNCHANGED <<exited, at, after, timers, budget, spawned, inbox, batch, wakeup,
                     parent, delivered, held, wake, buffered, ended, queue,
                     taken>>
      /\ server[v] = "none" /\ server' = [server EXCEPT ![v] = "bound"]
      /\ owner' = [owner EXCEPT ![v] = d]
      /\ liveHandles' = liveHandles + 1 /\ refing' = refing \cup {d}
  BY DEF Listen, ref, domainVars, spawnVars, handleVars, serverVars
<1>2. server'[v] = "bound" /\ \A w \in Server \ {v} : server'[w] = server[w]
  BY <1>1 DEF TypeOK
<1>3. \A q \in Seq(Queued) : \A i \in 1 .. Len(q) : server[q[i].of] # "none" => server'[q[i].of] = server[q[i].of]
  <2> SUFFICES ASSUME NEW q \in Seq(Queued), NEW i \in 1 .. Len(q), server[q[i].of] # "none"
               PROVE  server'[q[i].of] = server[q[i].of]
    OBVIOUS
  <2>1. q[i] \in Queued
    OBVIOUS
  <2>2. q[i].of \in Server
    BY <2>1 DEF Queued
  <2> QED
    BY <1>1, <1>2, <2>2
<1>a. TypeOK'
  BY <1>1 DEF TypeOK
<1>b. BornInv'
  BY <1>1 DEF BornInv
<1>c. BatchInv'
  BY <1>1 DEF BatchInv
<1>d. SpawnInv'
  BY <1>1 DEF SpawnInv, Outstanding
<1>e. DoneInv'
  BY <1>1 DEF DoneInv
<1>f. HandlesInv'
  <2> DEFINE S == {w \in Server : server[w] # "none"}
             T == {w \in Server : server'[w] # "none"}
  <2>1. T = S \cup {v} /\ v \notin S
    BY <1>1, <1>2
  <2>2. IsFiniteSet(S) /\ Cardinality(S) \in Nat /\ Cardinality(held) \in Nat
    BY HandlesFinite
  <2>a. liveHandles = Cardinality(S) + Cardinality(held)
    BY DEF HandlesInv
  <2> HIDE DEF S, T
  <2>3. Cardinality(T) = Cardinality(S) + 1
    BY <2>1, <2>2, FS_AddElement
  <2>4. liveHandles' = Cardinality(T) + Cardinality(held')
    BY <1>1, <2>2, <2>3, <2>a
  <2> QED
    BY <2>4 DEF HandlesInv, T
<1>g. ServeInv'
  BY <1>1, <1>2 DEF ServeInv
<1>h. QueueInv'
  <2>0. queue \in Seq(Queued) /\ taken \in Seq(Queued)
    BY DEF TypeOK
  <2>1. \A i \in 1 .. Len(queue) : server'[queue[i].of] = server[queue[i].of]
    <3>1. \A i \in 1 .. Len(queue) : server[queue[i].of] # "none"
      BY DEF QueueInv, QueuedInv
    <3> QED
      BY <1>3, <2>0, <3>1
  <2>2. \A i \in 1 .. Len(taken) : server'[taken[i].of] = server[taken[i].of]
    <3>1. \A i \in 1 .. Len(taken) : server[taken[i].of] # "none"
      BY DEF QueueInv, QueuedInv
    <3> QED
      BY <1>3, <2>0, <3>1
  <2> QED
    BY <1>1, <2>1, <2>2 DEF QueueInv, QueuedInv
<1>i. OutputInv'
  BY <1>1 DEF OutputInv
<1> QED
  BY <1>a, <1>b, <1>c, <1>d, <1>e, <1>f, <1>g, <1>h, <1>i

LEMMA KeepsEnqueueCallback ==
    ASSUME ProcessInv, NEW v \in Server, EnqueueCallback(v)
    PROVE  ProcessInv'
<1> USE DEF ProcessInv
<1>1. /\ UNCHANGED <<exited, at, after, timers, budget, spawned, inbox, batch, wakeup,
                     parent, delivered, held, refing, liveHandles, buffered,
                     ended, owner, taken>>
      /\ server[v] \in {"bound"} /\ server' = [server EXCEPT ![v] = "announced"]
      /\ queue' = Append(queue, [what |-> "callback", of |-> v]) /\ wake' = TRUE
  BY DEF EnqueueCallback, enqueue, domainVars, spawnVars, handleVars, serverVars
<1>2. server'[v] = "announced" /\ \A w \in Server \ {v} : server'[w] = server[w]
  BY <1>1 DEF TypeOK
<1> DEFINE x == [what |-> "callback", of |-> v]
<1>3. x \in Queued /\ x.what = "callback" /\ x.of = v
  BY DEF Queued
<1>4. queue' = Append(queue, x) /\ queue \in Seq(Queued) /\ taken \in Seq(Queued) /\ taken' = taken
  BY <1>1 DEF TypeOK
<1> HIDE DEF x
<1>5. /\ queue' \in Seq(Queued) /\ Len(queue') = Len(queue) + 1 /\ Len(queue) \in Nat
      /\ queue'[Len(queue) + 1] = x
      /\ \A i \in 1 .. Len(queue) : queue'[i] = queue[i]
  BY <1>3, <1>4
<1>6. \A i \in 1 .. Len(queue') : i \in 1 .. Len(queue) \/ i = Len(queue) + 1
  BY <1>5
<1>7. \A q \in Seq(Queued) : \A i \in 1 .. Len(q) : q[i].of \in Server /\ q[i].what \in {"callback", "serve"}
  <2> SUFFICES ASSUME NEW q \in Seq(Queued), NEW i \in 1 .. Len(q)
               PROVE  q[i].of \in Server /\ q[i].what \in {"callback", "serve"}
    OBVIOUS
  <2>1. q[i] \in Queued
    OBVIOUS
  <2> QED
    BY <2>1 DEF Queued
<1>8. \A i \in 1 .. Len(queue) : queue[i].what = "serve" => queue[i].of # v
  BY <1>1 DEF QueueInv, QueuedInv
<1>9. \A i \in 1 .. Len(taken) : taken[i].what = "serve" => taken[i].of # v
  BY <1>1 DEF QueueInv, QueuedInv
<1>a. TypeOK'
  BY <1>1, <1>5 DEF TypeOK
<1>b. BornInv'
  BY <1>1 DEF BornInv
<1>c. BatchInv'
  BY <1>1 DEF BatchInv
<1>d. SpawnInv'
  BY <1>1 DEF SpawnInv, Outstanding
<1>e. DoneInv'
  BY <1>1 DEF DoneInv
<1>f. HandlesInv'
  <2>1. {w \in Server : server'[w] # "none"} = {w \in Server : server[w] # "none"}
    BY <1>1, <1>2
  <2> QED
    BY <1>1, <2>1 DEF HandlesInv
<1>g. ServeInv'
  BY <1>1, <1>2 DEF ServeInv
<1>h. QueueInv'
  <2>1. ASSUME NEW i \in 1 .. Len(queue')
        PROVE  /\ server'[queue'[i].of] \in {"announced", "queued"}
               /\ queue'[i].what = "serve" =>
                    server'[queue'[i].of] = "queued" /\ \A j \in 1 .. Len(queue') : j > i => queue'[j].of # queue'[i].of
    <3>1. CASE i = Len(queue) + 1
      <4>1. queue'[i] = x /\ \A j \in 1 .. Len(queue') : ~(j > i)
        BY <1>5, <3>1
      <4> QED
        BY <1>2, <1>3, <4>1
    <3>2. CASE i \in 1 .. Len(queue)
      <4>1. queue'[i] = queue[i] /\ queue[i].of \in Server
        BY <1>4, <1>5, <1>7, <3>2
      <4>2. server'[queue[i].of] \in {"announced", "queued"}
        BY <1>2, <3>2, <4>1 DEF QueueInv, QueuedInv
      <4>3. ASSUME queue[i].what = "serve" PROVE server'[queue[i].of] = "queued"
        BY <1>2, <1>8, <3>2, <4>1, <4>3 DEF QueueInv, QueuedInv
      <4>4. ASSUME queue[i].what = "serve", NEW j \in 1 .. Len(queue'), j > i PROVE queue'[j].of # queue[i].of
        <5>1. CASE j \in 1 .. Len(queue)
          BY <1>5, <3>2, <4>4, <5>1 DEF QueueInv, QueuedInv
        <5>2. CASE j = Len(queue) + 1
          BY <1>3, <1>5, <1>8, <3>2, <4>4, <5>2
        <5> QED
          BY <1>6, <5>1, <5>2
      <4> QED
        BY <4>1, <4>2, <4>3, <4>4
    <3> QED
      BY <1>6, <3>1, <3>2
  <2>2. ASSUME NEW i \in 1 .. Len(taken)
        PROVE  /\ server'[taken[i].of] \in {"announced", "queued"}
               /\ taken[i].what = "serve" =>
                    server'[taken[i].of] = "queued" /\ \A j \in 1 .. Len(taken) : j > i => taken[j].of # taken[i].of
    <3>1. taken[i].of \in Server
      BY <1>4, <1>7
    <3>2. /\ server[taken[i].of] \in {"announced", "queued"}
          /\ taken[i].what = "serve" =>
                    server[taken[i].of] = "queued" /\ \A j \in 1 .. Len(taken) : j > i => taken[j].of # taken[i].of
      BY DEF QueueInv, QueuedInv
    <3> QED
      BY <1>2, <1>9, <3>1, <3>2
  <2>3. ASSUME NEW i \in 1 .. Len(taken), NEW j \in 1 .. Len(queue'), taken[i].what = "serve"
        PROVE  queue'[j].of # taken[i].of
    <3>1. CASE j \in 1 .. Len(queue)
      BY <1>5, <2>3, <3>1 DEF QueueInv
    <3>2. CASE j = Len(queue) + 1
      BY <1>3, <1>5, <1>9, <2>3, <3>2
    <3> QED
      BY <1>6, <3>1, <3>2
  <2> QED
    BY <1>4, <2>1, <2>2, <2>3 DEF QueueInv, QueuedInv
<1>i. OutputInv'
  BY <1>1 DEF OutputInv
<1> QED
  BY <1>a, <1>b, <1>c, <1>d, <1>e, <1>f, <1>g, <1>h, <1>i

LEMMA KeepsEnqueueServe ==
    ASSUME ProcessInv, NEW v \in Server, EnqueueServe(v)
    PROVE  ProcessInv'
<1> USE DEF ProcessInv
<1>1. /\ UNCHANGED <<exited, at, after, timers, budget, spawned, inbox, batch, wakeup,
                     parent, delivered, held, refing, liveHandles, buffered,
                     ended, owner, taken>>
      /\ server[v] \in {"bound", "announced"} /\ server' = [server EXCEPT ![v] = "queued"]
      /\ queue' = Append(queue, [what |-> "serve", of |-> v]) /\ wake' = TRUE
  BY DEF EnqueueServe, enqueue, domainVars, spawnVars, handleVars, serverVars
<1>2. server'[v] = "queued" /\ \A w \in Server \ {v} : server'[w] = server[w]
  BY <1>1 DEF TypeOK
<1> DEFINE x == [what |-> "serve", of |-> v]
<1>3. x \in Queued /\ x.what = "serve" /\ x.of = v
  BY DEF Queued
<1>4. queue' = Append(queue, x) /\ queue \in Seq(Queued) /\ taken \in Seq(Queued) /\ taken' = taken
  BY <1>1 DEF TypeOK
<1> HIDE DEF x
<1>5. /\ queue' \in Seq(Queued) /\ Len(queue') = Len(queue) + 1 /\ Len(queue) \in Nat
      /\ queue'[Len(queue) + 1] = x
      /\ \A i \in 1 .. Len(queue) : queue'[i] = queue[i]
  BY <1>3, <1>4
<1>6. \A i \in 1 .. Len(queue') : i \in 1 .. Len(queue) \/ i = Len(queue) + 1
  BY <1>5
<1>7. \A q \in Seq(Queued) : \A i \in 1 .. Len(q) : q[i].of \in Server /\ q[i].what \in {"callback", "serve"}
  <2> SUFFICES ASSUME NEW q \in Seq(Queued), NEW i \in 1 .. Len(q)
               PROVE  q[i].of \in Server /\ q[i].what \in {"callback", "serve"}
    OBVIOUS
  <2>1. q[i] \in Queued
    OBVIOUS
  <2> QED
    BY <2>1 DEF Queued
<1>8. \A i \in 1 .. Len(queue) : queue[i].what = "serve" => queue[i].of # v
  BY <1>1 DEF QueueInv, QueuedInv
<1>9. \A i \in 1 .. Len(taken) : taken[i].what = "serve" => taken[i].of # v
  BY <1>1 DEF QueueInv, QueuedInv
<1>a. TypeOK'
  BY <1>1, <1>5 DEF TypeOK
<1>b. BornInv'
  BY <1>1 DEF BornInv
<1>c. BatchInv'
  BY <1>1 DEF BatchInv
<1>d. SpawnInv'
  BY <1>1 DEF SpawnInv, Outstanding
<1>e. DoneInv'
  BY <1>1 DEF DoneInv
<1>f. HandlesInv'
  <2>1. {w \in Server : server'[w] # "none"} = {w \in Server : server[w] # "none"}
    BY <1>1, <1>2
  <2> QED
    BY <1>1, <2>1 DEF HandlesInv
<1>g. ServeInv'
  BY <1>1, <1>2 DEF ServeInv
<1>h. QueueInv'
  <2>1. ASSUME NEW i \in 1 .. Len(queue')
        PROVE  /\ server'[queue'[i].of] \in {"announced", "queued"}
               /\ queue'[i].what = "serve" =>
                    server'[queue'[i].of] = "queued" /\ \A j \in 1 .. Len(queue') : j > i => queue'[j].of # queue'[i].of
    <3>1. CASE i = Len(queue) + 1
      <4>1. queue'[i] = x /\ \A j \in 1 .. Len(queue') : ~(j > i)
        BY <1>5, <3>1
      <4> QED
        BY <1>2, <1>3, <4>1
    <3>2. CASE i \in 1 .. Len(queue)
      <4>1. queue'[i] = queue[i] /\ queue[i].of \in Server
        BY <1>4, <1>5, <1>7, <3>2
      <4>2. server'[queue[i].of] \in {"announced", "queued"}
        BY <1>2, <3>2, <4>1 DEF QueueInv, QueuedInv
      <4>3. ASSUME queue[i].what = "serve" PROVE server'[queue[i].of] = "queued"
        BY <1>2, <1>8, <3>2, <4>1, <4>3 DEF QueueInv, QueuedInv
      <4>4. ASSUME queue[i].what = "serve", NEW j \in 1 .. Len(queue'), j > i PROVE queue'[j].of # queue[i].of
        <5>1. CASE j \in 1 .. Len(queue)
          BY <1>5, <3>2, <4>4, <5>1 DEF QueueInv, QueuedInv
        <5>2. CASE j = Len(queue) + 1
          BY <1>3, <1>5, <1>8, <3>2, <4>4, <5>2
        <5> QED
          BY <1>6, <5>1, <5>2
      <4> QED
        BY <4>1, <4>2, <4>3, <4>4
    <3> QED
      BY <1>6, <3>1, <3>2
  <2>2. ASSUME NEW i \in 1 .. Len(taken)
        PROVE  /\ server'[taken[i].of] \in {"announced", "queued"}
               /\ taken[i].what = "serve" =>
                    server'[taken[i].of] = "queued" /\ \A j \in 1 .. Len(taken) : j > i => taken[j].of # taken[i].of
    <3>1. taken[i].of \in Server
      BY <1>4, <1>7
    <3>2. /\ server[taken[i].of] \in {"announced", "queued"}
          /\ taken[i].what = "serve" =>
                    server[taken[i].of] = "queued" /\ \A j \in 1 .. Len(taken) : j > i => taken[j].of # taken[i].of
      BY DEF QueueInv, QueuedInv
    <3> QED
      BY <1>2, <1>9, <3>1, <3>2
  <2>3. ASSUME NEW i \in 1 .. Len(taken), NEW j \in 1 .. Len(queue'), taken[i].what = "serve"
        PROVE  queue'[j].of # taken[i].of
    <3>1. CASE j \in 1 .. Len(queue)
      BY <1>5, <2>3, <3>1 DEF QueueInv
    <3>2. CASE j = Len(queue) + 1
      BY <1>3, <1>5, <1>9, <2>3, <3>2
    <3> QED
      BY <1>6, <3>1, <3>2
  <2> QED
    BY <1>4, <2>1, <2>2, <2>3 DEF QueueInv, QueuedInv
<1>i. OutputInv'
  BY <1>1 DEF OutputInv
<1> QED
  BY <1>a, <1>b, <1>c, <1>d, <1>e, <1>f, <1>g, <1>h, <1>i

LEMMA KeepsFatal ==
    ASSUME ProcessInv, Fatal
    PROVE  ProcessInv'
<1> USE DEF ProcessInv
<1>1. /\ UNCHANGED <<at, after, timers, budget, spawned, inbox, batch, wakeup, parent,
                     delivered, held, refing, liveHandles, wake, ended,
                     owner, server, queue, taken>>
      /\ exited' = "failure" /\ buffered' = {}
  BY DEF Fatal, domainVars, spawnVars, handleVars, serverVars
<1>a. TypeOK'
  BY <1>1 DEF TypeOK
<1>b. BornInv'
  BY <1>1 DEF BornInv
<1>c. BatchInv'
  BY <1>1 DEF BatchInv
<1>d. SpawnInv'
  BY <1>1 DEF SpawnInv, Outstanding
<1>e. DoneInv'
  BY <1>1 DEF DoneInv
<1>f. HandlesInv'
  BY <1>1 DEF HandlesInv
<1>g. ServeInv'
  BY <1>1 DEF ServeInv
<1>h. QueueInv'
  BY <1>1 DEF QueueInv, QueuedInv
<1>i. OutputInv'
  BY <1>1 DEF OutputInv, TypeOK
<1> QED
  BY <1>a, <1>b, <1>c, <1>d, <1>e, <1>f, <1>g, <1>h, <1>i

LEMMA KeepsEnd ==
    ASSUME ProcessInv, NEW r \in Request, End(r)
    PROVE  ProcessInv'
<1> USE DEF ProcessInv
<1>1. /\ UNCHANGED <<exited, at, after, timers, budget, spawned, inbox, batch, wakeup,
                     parent, delivered, held, refing, liveHandles, wake,
                     buffered, owner, server, queue, taken>>
      /\ ended' = ended \cup {r}
  BY DEF End, domainVars, spawnVars, handleVars, serverVars
<1>a. TypeOK'
  BY <1>1 DEF TypeOK
<1>b. BornInv'
  BY <1>1 DEF BornInv
<1>c. BatchInv'
  BY <1>1 DEF BatchInv
<1>d. SpawnInv'
  BY <1>1 DEF SpawnInv, Outstanding
<1>e. DoneInv'
  BY <1>1 DEF DoneInv
<1>f. HandlesInv'
  BY <1>1 DEF HandlesInv
<1>g. ServeInv'
  BY <1>1 DEF ServeInv
<1>h. QueueInv'
  BY <1>1 DEF QueueInv, QueuedInv
<1>i. OutputInv'
  BY <1>1 DEF OutputInv
<1> QED
  BY <1>a, <1>b, <1>c, <1>d, <1>e, <1>f, <1>g, <1>h, <1>i

LEMMA KeepsEndTask ==
    ASSUME ProcessInv, NEW d \in Domain, EndTask(d)
    PROVE  ProcessInv'
<1> USE DEF ProcessInv
<1>1. /\ UNCHANGED <<exited, after, timers, budget, spawned, inbox, batch, wakeup,
                     parent, delivered, held, refing, liveHandles, wake,
                     buffered, ended, owner, server, queue, taken>>
      /\ at[d] = "task" /\ at' = [at EXCEPT ![d] = after[d]]
  BY DEF EndTask, InTask, Alive, domainVars, spawnVars, handleVars, serverVars
<1>2. at'[d] = after[d] /\ \A e \in Domain \ {d} : at'[e] = at[e]
  BY <1>1, Domains DEF TypeOK
<1>3. after[d] \in {"queue", "batch", "fire", "loop"}
  BY DEF TypeOK
<1>a. TypeOK'
  BY <1>1, <1>3 DEF TypeOK, Place
<1>b. BornInv'
  BY <1>1, <1>2, Domains, <1>3 DEF BornInv, TypeOK
<1>c. BatchInv'
  BY <1>1, <1>2, Domains, <1>3 DEF BatchInv, TypeOK
<1>d. SpawnInv'
  BY <1>1 DEF SpawnInv, Outstanding
<1>e. DoneInv'
  BY <1>1, <1>2, Domains, <1>3 DEF DoneInv, TypeOK
<1>f. HandlesInv'
  BY <1>1 DEF HandlesInv
<1>g. ServeInv'
  BY <1>1, <1>2, Domains, <1>3 DEF ServeInv, TypeOK
<1>h. QueueInv'
  BY <1>1 DEF QueueInv, QueuedInv
<1>i. OutputInv'
  BY <1>1, <1>2, Domains, <1>3 DEF OutputInv, TypeOK
<1> QED
  BY <1>a, <1>b, <1>c, <1>d, <1>e, <1>f, <1>g, <1>h, <1>i


LEMMA Unrefs ==
    ASSUME TypeOK, HandlesInv, NEW d \in Domain, d \in held, unref(d), server' = server
    PROVE  /\ held' \subseteq Domain /\ liveHandles' \in Nat /\ wake' \in BOOLEAN /\ HandlesInv'
           /\ liveHandles' <= liveHandles
<1>1. held' = held \ {d} /\ liveHandles' = liveHandles - 1 /\ wake' = TRUE
  BY DEF unref
<1>2. Cardinality(held') = Cardinality(held) - 1 /\ Cardinality(held) > 0
  BY <1>1, HeldRemove
<1>3. Cardinality(held) \in Nat /\ Cardinality({v \in Server : server[v] # "none"}) \in Nat
  BY HandlesFinite
<1> DEFINE S == {v \in Server : server[v] # "none"}
<1>4. liveHandles = Cardinality(S) + Cardinality(held) /\ liveHandles \in Nat
  BY DEF HandlesInv, TypeOK
<1>5. liveHandles' = Cardinality(S) + Cardinality(held')
  <2> HIDE DEF S
  <2> QED
    BY <1>1, <1>2, <1>3, <1>4 DEF S
<1>6. HandlesInv'
  BY <1>5 DEF HandlesInv
<1>7. liveHandles' \in Nat /\ liveHandles' <= liveHandles
  BY <1>1, <1>2, <1>3, <1>4
<1> QED
  BY <1>1, <1>6, <1>7 DEF TypeOK

\* What a failure leaves.
LEMMA Fails ==
    ASSUME ProcessInv, NEW d \in Domain, at[d] # "unborn", NEW how \in {"throw", "panic"}, fail(d, how),
           parent' = parent, server' = server
    PROVE  /\ inbox' \in [Domain -> Seq(Delivery)] /\ wakeup' \subseteq Domain /\ delivered' \subseteq Spawn
           /\ delivered \subseteq delivered' /\ delivered' \subseteq delivered \cup {d}
           /\ \A e \in Domain : Cardinality(Outstanding(e))' + Len(inbox'[e])
                                    = Cardinality(Outstanding(e)) + Len(inbox[e])
           /\ at' = [at EXCEPT ![d] = "failed"]
           /\ at'[d] = "failed" /\ \A e \in Domain \ {d} : at'[e] = at[e]
           /\ exited' \in {exited, "failure"} /\ (d = Main => exited' = "failure" /\ buffered' = {})
           /\ buffered' \in {buffered, {}} /\ refing' = refing
           /\ held' \subseteq Domain /\ liveHandles' \in Nat /\ wake' \in BOOLEAN /\ HandlesInv'
           /\ liveHandles' <= liveHandles
<1> USE DEF ProcessInv
<1>1. /\ at' = [at EXCEPT ![d] = "failed"]
      /\ at'[d] = "failed" /\ \A e \in Domain \ {d} : at'[e] = at[e]
  BY DEF fail, TypeOK
<1>2. exited' \in {exited, "failure"} /\ buffered' \in {buffered, {}} /\ refing' = refing
        /\ (d = Main => exited' = "failure" /\ buffered' = {})
  BY DEF fail, unref
<1>3. /\ inbox' \in [Domain -> Seq(Delivery)] /\ wakeup' \subseteq Domain /\ delivered' \subseteq Spawn
      /\ delivered \subseteq delivered' /\ delivered' \subseteq delivered \cup {d}
      /\ \A e \in Domain : Cardinality(Outstanding(e))' + Len(inbox'[e])
                              = Cardinality(Outstanding(e)) + Len(inbox[e])
  <2>1. CASE d \in Spawn
    <3>1. deliver(d, how)
      BY <2>1 DEF fail
    <3> QED
      BY <2>1, <3>1, Delivers
  <2>2. CASE d \notin Spawn
    <3>1. inbox' = inbox /\ wakeup' = wakeup /\ delivered' = delivered
      BY <2>2 DEF fail
    <3>2. \A e : Outstanding(e)' = Outstanding(e)
      BY <3>1 DEF Outstanding
    <3> QED
      BY <3>1, <3>2 DEF TypeOK
  <2> QED
    BY <2>1, <2>2
<1>4. held' \subseteq Domain /\ liveHandles' \in Nat /\ wake' \in BOOLEAN /\ HandlesInv' /\ liveHandles' <= liveHandles
  <2>1. CASE d \in held /\ unref(d)
    BY <2>1, Unrefs
  <2>2. CASE held' = held /\ liveHandles' = liveHandles /\ wake' = wake
    BY <2>2 DEF TypeOK, HandlesInv
  <2> QED
    BY <2>1, <2>2 DEF fail
<1> QED
  BY <1>1, <1>2, <1>3, <1>4

LEMMA KeepsFailTask ==
    ASSUME ProcessInv, NEW d \in Domain, NEW how \in {"throw", "panic"}, FailTask(d, how)
    PROVE  ProcessInv'
<1> USE DEF ProcessInv
<1>1. /\ UNCHANGED <<after, timers, budget, spawned, batch, parent, ended, owner,
                     server, queue, taken>>
      /\ at[d] = "task" /\ fail(d, how)
  BY DEF FailTask, InTask, Alive, domainVars, spawnVars, handleVars, serverVars
<1>2. /\ inbox' \in [Domain -> Seq(Delivery)] /\ wakeup' \subseteq Domain /\ delivered' \subseteq Spawn
      /\ delivered \subseteq delivered' /\ delivered' \subseteq delivered \cup {d}
      /\ \A e \in Domain : Cardinality(Outstanding(e))' + Len(inbox'[e])
                                = Cardinality(Outstanding(e)) + Len(inbox[e])
      /\ at' = [at EXCEPT ![d] = "failed"]
      /\ at'[d] = "failed" /\ \A e \in Domain \ {d} : at'[e] = at[e]
      /\ exited' \in {exited, "failure"} /\ (d = Main => exited' = "failure" /\ buffered' = {})
      /\ buffered' \in {buffered, {}} /\ refing' = refing
      /\ held' \subseteq Domain /\ liveHandles' \in Nat /\ wake' \in BOOLEAN /\ HandlesInv'
      /\ liveHandles' <= liveHandles
  BY <1>1, Fails
<1>a. TypeOK'
  <2>1. at' \in [Domain -> Place] /\ exited' \in {"no", "normal", "failure", "signal"}
          /\ buffered' \in SUBSET {"owed", "late"}
    BY <1>2 DEF TypeOK, Place
  <2> QED
    BY <1>1, <1>2, <2>1 DEF TypeOK
<1>b. BornInv'
  <2>1. \A s \in Spawn : at'[s] = "unborn" <=> at[s] = "unborn"
    BY <1>1, <1>2, Domains
  <2>2. \A s \in Spawn : s \in delivered' => parent[s] # None
    BY <1>1, <1>2 DEF BornInv
  <2> QED
    BY <1>1, <2>1, <2>2 DEF BornInv
<1>c. BatchInv'
  BY <1>1, <1>2 DEF BatchInv
<1>d. SpawnInv'
  BY <1>1, <1>2 DEF SpawnInv
<1>e. DoneInv'
  BY <1>1, <1>2 DEF DoneInv
<1>f. HandlesInv'
  BY <1>2
<1>g. ServeInv'
  <2>1. at'[Main] = at[Main] \/ at'[Main] = "failed"
    BY <1>2, Domains
  <2>2. \A r \in Request : at[r] = "unborn" => at'[r] = "unborn"
    BY <1>1, <1>2, Domains
  <2> QED
    BY <1>1, <2>1, <2>2 DEF ServeInv
<1>h. QueueInv'
  BY <1>1 DEF QueueInv, QueuedInv
<1>i. OutputInv'
  <2>1. at'[Main] = "flushed" => at[Main] = "flushed"
    BY <1>2, Domains
  <2>2. liveHandles' > 0 => liveHandles > 0
    BY <1>2 DEF TypeOK
  <2> QED
    BY <1>1, <1>2, <2>1, <2>2 DEF OutputInv
<1> QED
  BY <1>a, <1>b, <1>c, <1>d, <1>e, <1>f, <1>g, <1>h, <1>i

-----------------------------------------------------------------------------
(* runInbox and fireDue.                                                   *)

LEMMA KeepsTakeInbox ==
    ASSUME ProcessInv, NEW d \in Domain, TakeInbox(d)
    PROVE  ProcessInv'
<1> USE DEF ProcessInv
<1>1. /\ UNCHANGED <<exited, after, timers, budget, spawned, wakeup, parent,
                     delivered, held, refing, liveHandles, wake, buffered,
                     ended, owner, server, queue, taken>>
      /\ at[d] = "inbox" /\ at' = [at EXCEPT ![d] = "batch"]
      /\ batch' = [batch EXCEPT ![d] = inbox[d]] /\ inbox' = [inbox EXCEPT ![d] = <<>>]
  BY DEF TakeInbox, Alive, domainVars, spawnVars, handleVars, serverVars
<1>2. at'[d] = "batch" /\ \A e \in Domain \ {d} : at'[e] = at[e]
  BY <1>1, Domains DEF TypeOK
<1>3. /\ batch'[d] = inbox[d] /\ inbox'[d] = <<>>
      /\ \A e \in Domain \ {d} : batch'[e] = batch[e] /\ inbox'[e] = inbox[e]
  BY <1>1 DEF TypeOK
<1>4. batch[d] = <<>>
  BY <1>1 DEF BatchInv
<1>a. TypeOK'
  <2>1. at' \in [Domain -> Place] /\ batch' \in [Domain -> Seq(Delivery)] /\ inbox' \in [Domain -> Seq(Delivery)]
    BY <1>1 DEF TypeOK, Place
  <2> QED
    BY <1>1, <2>1 DEF TypeOK
<1>b. BornInv'
  BY <1>1, <1>2, Domains DEF BornInv, TypeOK
<1>c. BatchInv'
  BY <1>1, <1>2, <1>3 DEF BatchInv
<1>d. SpawnInv'
  <2>1. \A e : Outstanding(e)' = Outstanding(e)
    BY <1>1 DEF Outstanding
  <2>2. Len(inbox[d]) \in Nat /\ Len(batch[d]) = 0 /\ Len(inbox'[d]) = 0 /\ Len(batch'[d]) = Len(inbox[d])
    BY <1>3, <1>4 DEF TypeOK
  <2>3. Cardinality(Outstanding(d)) \in Nat
    BY OutstandingFinite
  <2>4. spawned[d] = Cardinality(Outstanding(d)) + Len(inbox'[d]) + Len(batch'[d])
    BY <2>2, <2>3 DEF SpawnInv
  <2> QED
    BY <1>1, <1>3, <2>1, <2>4 DEF SpawnInv
<1>e. DoneInv'
  BY <1>1, <1>2, Domains DEF DoneInv, TypeOK
<1>f. HandlesInv'
  BY <1>1 DEF HandlesInv
<1>g. ServeInv'
  BY <1>1, <1>2, Domains DEF ServeInv, TypeOK
<1>h. QueueInv'
  BY <1>1 DEF QueueInv, QueuedInv
<1>i. OutputInv'
  BY <1>1, <1>2, Domains DEF OutputInv, TypeOK
<1> QED
  BY <1>a, <1>b, <1>c, <1>d, <1>e, <1>f, <1>g, <1>h, <1>i

LEMMA KeepsRunDelivery ==
    ASSUME ProcessInv, NEW d \in Domain, RunDelivery(d)
    PROVE  ProcessInv'
<1> USE DEF ProcessInv
<1>1. /\ UNCHANGED <<exited, timers, budget, inbox, wakeup, parent, delivered, held,
                     refing, liveHandles, wake, buffered, ended, owner,
                     server, queue, taken>>
      /\ at[d] = "batch" /\ batch[d] # <<>>
      /\ batch' = [batch EXCEPT ![d] = Tail(@)] /\ spawned' = [spawned EXCEPT ![d] = @ - 1]
      /\ \/ at' = [at EXCEPT ![d] = "task"] /\ after' = [after EXCEPT ![d] = "batch"]
         \/ at' = at /\ after' = after
  BY DEF RunDelivery, Alive, domainVars, spawnVars, handleVars, serverVars
<1>2. /\ at'[d] = "batch" \/ (at'[d] = "task" /\ after'[d] = "batch")
      /\ \A e \in Domain \ {d} : at'[e] = at[e] /\ after'[e] = after[e]
      /\ at' \in [Domain -> Place] /\ after' \in [Domain -> {"queue", "batch", "fire", "loop"}]
  <2>1. CASE at' = [at EXCEPT ![d] = "task"] /\ after' = [after EXCEPT ![d] = "batch"]
    <3>1. at'[d] = "task" /\ after'[d] = "batch"
      BY <2>1 DEF TypeOK
    <3>2. \A e \in Domain \ {d} : at'[e] = at[e] /\ after'[e] = after[e]
      BY <2>1 DEF TypeOK
    <3>3. at' \in [Domain -> Place] /\ after' \in [Domain -> {"queue", "batch", "fire", "loop"}]
      BY <2>1 DEF TypeOK, Place
    <3> QED
      BY <3>1, <3>2, <3>3
  <2>2. CASE at' = at /\ after' = after
    BY <1>1, <2>2 DEF TypeOK
  <2> QED
    BY <1>1, <2>1, <2>2
<1>3. /\ batch[d] \in Seq(Delivery) /\ Len(batch[d]) \in Nat \ {0}
      /\ Tail(batch[d]) \in Seq(Delivery) /\ Len(Tail(batch[d])) = Len(batch[d]) - 1
  BY <1>1 DEF TypeOK
<1>4. /\ batch' \in [Domain -> Seq(Delivery)] /\ Len(batch'[d]) = Len(batch[d]) - 1
      /\ \A e \in Domain \ {d} : batch'[e] = batch[e]
  BY <1>1, <1>3 DEF TypeOK
<1>5. spawned[d] = Cardinality(Outstanding(d)) + Len(inbox[d]) + Len(batch[d])
        /\ Cardinality(Outstanding(d)) \in Nat /\ Len(inbox[d]) \in Nat
  BY OutstandingFinite DEF SpawnInv, TypeOK
<1>6. /\ spawned'[d] = spawned[d] - 1 /\ spawned'[d] \in Nat
      /\ \A e \in Domain \ {d} : spawned'[e] = spawned[e]
  BY <1>1, <1>3, <1>5 DEF TypeOK
<1>7. spawned' \in [Domain -> Nat]
  BY <1>1, <1>6 DEF TypeOK
<1>a. TypeOK'
  BY <1>1, <1>2, <1>4, <1>7 DEF TypeOK
<1>b. BornInv'
  BY <1>1, <1>2, Domains DEF BornInv
<1>c. BatchInv'
  BY <1>1, <1>2, <1>4 DEF BatchInv
<1>d. SpawnInv'
  <2>1. \A e : Outstanding(e)' = Outstanding(e)
    BY <1>1 DEF Outstanding
  <2>2. spawned'[d] = Cardinality(Outstanding(d)) + Len(inbox[d]) + Len(batch'[d])
    BY <1>3, <1>4, <1>5, <1>6, SMTT(30)
  <2> QED
    BY <1>1, <1>4, <1>6, <2>1, <2>2 DEF SpawnInv
<1>e. DoneInv'
  BY <1>2, <1>6 DEF DoneInv
<1>f. HandlesInv'
  BY <1>1 DEF HandlesInv
<1>g. ServeInv'
  <2>1. \A e \in Domain : at'[e] = at[e] \/ (at[e] = "batch" /\ at'[e] = "task")
    BY <1>1, <1>2
  <2> QED
    BY <1>1, <2>1, Domains DEF ServeInv
<1>h. QueueInv'
  BY <1>1 DEF QueueInv, QueuedInv
<1>i. OutputInv'
  BY <1>1, <1>2, Domains DEF OutputInv
<1> QED
  BY <1>a, <1>b, <1>c, <1>d, <1>e, <1>f, <1>g, <1>h, <1>i

LEMMA KeepsRaiseDelivery ==
    ASSUME ProcessInv, NEW d \in Domain, RaiseDelivery(d)
    PROVE  ProcessInv'
<1> USE DEF ProcessInv
<1>1. /\ UNCHANGED <<after, timers, budget, parent, ended, owner, server, queue,
                     taken>>
      /\ at[d] = "batch" /\ batch[d] # <<>>
      /\ batch' = [batch EXCEPT ![d] = Tail(@)] /\ spawned' = [spawned EXCEPT ![d] = @ - 1]
      /\ Head(batch[d]).how \in {"throw", "panic"} /\ fail(d, Head(batch[d]).how)
  BY DEF RaiseDelivery, Alive, domainVars, spawnVars, handleVars, serverVars
<1>2. /\ inbox' \in [Domain -> Seq(Delivery)] /\ wakeup' \subseteq Domain /\ delivered' \subseteq Spawn
      /\ delivered \subseteq delivered' /\ delivered' \subseteq delivered \cup {d}
      /\ \A e \in Domain : Cardinality(Outstanding(e))' + Len(inbox'[e])
                                = Cardinality(Outstanding(e)) + Len(inbox[e])
      /\ at' = [at EXCEPT ![d] = "failed"]
      /\ at'[d] = "failed" /\ \A e \in Domain \ {d} : at'[e] = at[e]
      /\ exited' \in {exited, "failure"} /\ (d = Main => exited' = "failure" /\ buffered' = {})
      /\ buffered' \in {buffered, {}} /\ refing' = refing
      /\ held' \subseteq Domain /\ liveHandles' \in Nat /\ wake' \in BOOLEAN /\ HandlesInv'
      /\ liveHandles' <= liveHandles
  BY <1>1, Fails
<1>3. /\ batch[d] \in Seq(Delivery) /\ Len(batch[d]) \in Nat \ {0}
      /\ Tail(batch[d]) \in Seq(Delivery) /\ Len(Tail(batch[d])) = Len(batch[d]) - 1
  BY <1>1 DEF TypeOK
<1>4. /\ batch' \in [Domain -> Seq(Delivery)] /\ Len(batch'[d]) = Len(batch[d]) - 1
      /\ \A e \in Domain \ {d} : batch'[e] = batch[e]
  BY <1>1, <1>3 DEF TypeOK
<1>5. spawned[d] = Cardinality(Outstanding(d)) + Len(inbox[d]) + Len(batch[d])
        /\ Cardinality(Outstanding(d)) \in Nat /\ Len(inbox[d]) \in Nat
  BY OutstandingFinite DEF SpawnInv, TypeOK
<1>6. /\ spawned'[d] = spawned[d] - 1 /\ spawned'[d] \in Nat
      /\ \A e \in Domain \ {d} : spawned'[e] = spawned[e]
  BY <1>1, <1>3, <1>5 DEF TypeOK
<1>7. spawned' \in [Domain -> Nat]
  BY <1>1, <1>6 DEF TypeOK
<1>a. TypeOK'
  <2>1. at' \in [Domain -> Place] /\ exited' \in {"no", "normal", "failure", "signal"}
          /\ buffered' \in SUBSET {"owed", "late"}
    BY <1>2 DEF TypeOK, Place
  <2> QED
    BY <1>1, <1>2, <1>4, <1>7, <2>1 DEF TypeOK
<1>b. BornInv'
  <2>1. \A s \in Spawn : at'[s] = "unborn" <=> at[s] = "unborn"
    BY <1>1, <1>2, Domains
  <2>2. \A s \in Spawn : s \in delivered' => parent[s] # None
    BY <1>1, <1>2 DEF BornInv
  <2> QED
    BY <1>1, <2>1, <2>2 DEF BornInv
<1>c. BatchInv'
  BY <1>1, <1>2, <1>4 DEF BatchInv
<1>d. SpawnInv'
  <2>1. \A e \in Domain \ {d} : spawned'[e] = Cardinality(Outstanding(e))' + Len(inbox'[e]) + Len(batch'[e])
    BY <1>2, <1>4, <1>6 DEF SpawnInv
  <2>2. Cardinality(Outstanding(d))' + Len(inbox'[d]) = Cardinality(Outstanding(d)) + Len(inbox[d])
    BY <1>2
  <2>3. spawned'[d] = Cardinality(Outstanding(d))' + Len(inbox'[d]) + Len(batch'[d])
    BY <1>3, <1>4, <1>5, <1>6, <2>2, SMTT(30)
  <2> QED
    BY <2>1, <2>3 DEF SpawnInv
<1>e. DoneInv'
  BY <1>1, <1>2, <1>6 DEF DoneInv
<1>f. HandlesInv'
  BY <1>2
<1>g. ServeInv'
  <2>1. at'[Main] = at[Main] \/ at'[Main] = "failed"
    BY <1>2, Domains
  <2>2. \A r \in Request : at[r] = "unborn" => at'[r] = "unborn"
    BY <1>1, <1>2, Domains
  <2> QED
    BY <1>1, <2>1, <2>2 DEF ServeInv
<1>h. QueueInv'
  BY <1>1 DEF QueueInv, QueuedInv
<1>i. OutputInv'
  <2>1. at'[Main] = "flushed" => at[Main] = "flushed"
    BY <1>2, Domains
  <2>2. liveHandles' > 0 => liveHandles > 0
    BY <1>2 DEF TypeOK
  <2> QED
    BY <1>1, <1>2, <2>1, <2>2 DEF OutputInv
<1> QED
  BY <1>a, <1>b, <1>c, <1>d, <1>e, <1>f, <1>g, <1>h, <1>i

LEMMA KeepsEndInbox ==
    ASSUME ProcessInv, NEW d \in Domain, EndInbox(d)
    PROVE  ProcessInv'
<1> USE DEF ProcessInv
<1>1. /\ UNCHANGED <<exited, after, timers, budget, spawned, inbox, batch, wakeup,
                     parent, delivered, held, refing, liveHandles, wake,
                     buffered, ended, owner, server, queue, taken>>
      /\ at[d] = "batch" /\ batch[d] = <<>> /\ at' = [at EXCEPT ![d] = "fire"]
  BY DEF EndInbox, Alive, domainVars, spawnVars, handleVars, serverVars
<1>2. at'[d] = "fire" /\ \A e \in Domain \ {d} : at'[e] = at[e]
  BY <1>1, Domains DEF TypeOK
<1>a. TypeOK'
  BY <1>1, Domains DEF TypeOK, Place
<1>b. BornInv'
  BY <1>1, <1>2, Domains DEF BornInv, TypeOK
<1>c. BatchInv'
  BY <1>1, <1>2, Domains DEF BatchInv, TypeOK
<1>d. SpawnInv'
  BY <1>1 DEF SpawnInv, Outstanding
<1>e. DoneInv'
  BY <1>1, <1>2, Domains DEF DoneInv, TypeOK
<1>f. HandlesInv'
  BY <1>1 DEF HandlesInv
<1>g. ServeInv'
  BY <1>1, <1>2, Domains DEF ServeInv, TypeOK
<1>h. QueueInv'
  BY <1>1 DEF QueueInv, QueuedInv
<1>i. OutputInv'
  BY <1>1, <1>2, Domains DEF OutputInv, TypeOK
<1> QED
  BY <1>a, <1>b, <1>c, <1>d, <1>e, <1>f, <1>g, <1>h, <1>i

LEMMA KeepsEndFire ==
    ASSUME ProcessInv, NEW d \in Domain, EndFire(d)
    PROVE  ProcessInv'
<1> USE DEF ProcessInv
<1>1. /\ UNCHANGED <<exited, after, timers, budget, spawned, inbox, batch, wakeup,
                     parent, delivered, held, refing, liveHandles, wake,
                     buffered, ended, owner, server, queue, taken>>
      /\ at[d] = "fire" /\ at' = [at EXCEPT ![d] = "loop"]
  BY DEF EndFire, Alive, domainVars, spawnVars, handleVars, serverVars
<1>2. at'[d] = "loop" /\ \A e \in Domain \ {d} : at'[e] = at[e]
  BY <1>1, Domains DEF TypeOK
<1>a. TypeOK'
  BY <1>1, Domains DEF TypeOK, Place
<1>b. BornInv'
  BY <1>1, <1>2, Domains DEF BornInv, TypeOK
<1>c. BatchInv'
  BY <1>1, <1>2, Domains DEF BatchInv, TypeOK
<1>d. SpawnInv'
  BY <1>1 DEF SpawnInv, Outstanding
<1>e. DoneInv'
  BY <1>1, <1>2, Domains DEF DoneInv, TypeOK
<1>f. HandlesInv'
  BY <1>1 DEF HandlesInv
<1>g. ServeInv'
  BY <1>1, <1>2, Domains DEF ServeInv, TypeOK
<1>h. QueueInv'
  BY <1>1 DEF QueueInv, QueuedInv
<1>i. OutputInv'
  BY <1>1, <1>2, Domains DEF OutputInv, TypeOK
<1> QED
  BY <1>a, <1>b, <1>c, <1>d, <1>e, <1>f, <1>g, <1>h, <1>i

LEMMA KeepsFireDue ==
    ASSUME ProcessInv, NEW d \in Domain, FireDue(d)
    PROVE  ProcessInv'
<1> USE DEF ProcessInv
<1>1. /\ UNCHANGED <<exited, budget, spawned, inbox, batch, wakeup, parent, delivered,
                     held, refing, liveHandles, wake, buffered, ended, owner,
                     server, queue, taken>>
      /\ at[d] = "fire" /\ at' = [at EXCEPT ![d] = "task"] /\ after' = [after EXCEPT ![d] = "fire"]
      /\ timers[d] > 0 /\ timers' = [timers EXCEPT ![d] = @ - 1]
  BY DEF FireDue, Alive, domainVars, spawnVars, handleVars, serverVars
<1>2. at'[d] = "task" /\ \A e \in Domain \ {d} : at'[e] = at[e]
  BY <1>1, Domains DEF TypeOK
<1>a. TypeOK'
  <2>1. at' \in [Domain -> Place] /\ after' \in [Domain -> {"queue", "batch", "fire", "loop"}]
    BY <1>1 DEF TypeOK, Place
  <2>2. timers' \in [Domain -> Nat]
    BY <1>1 DEF TypeOK
  <2> QED
    BY <1>1, <2>1, <2>2 DEF TypeOK
<1>b. BornInv'
  BY <1>1, <1>2, Domains DEF BornInv, TypeOK
<1>c. BatchInv'
  BY <1>1, <1>2, Domains DEF BatchInv, TypeOK
<1>d. SpawnInv'
  BY <1>1 DEF SpawnInv, Outstanding
<1>e. DoneInv'
  BY <1>1, <1>2, Domains DEF DoneInv, TypeOK
<1>f. HandlesInv'
  BY <1>1 DEF HandlesInv
<1>g. ServeInv'
  BY <1>1, <1>2, Domains DEF ServeInv, TypeOK
<1>h. QueueInv'
  BY <1>1 DEF QueueInv, QueuedInv
<1>i. OutputInv'
  BY <1>1, <1>2, Domains DEF OutputInv, TypeOK
<1> QED
  BY <1>a, <1>b, <1>c, <1>d, <1>e, <1>f, <1>g, <1>h, <1>i

-----------------------------------------------------------------------------
(* The loop of a spawned domain, and of a request.                         *)

LEMMA KeepsWaitNext ==
    ASSUME ProcessInv, NEW d \in Domain, WaitNext(d)
    PROVE  ProcessInv'
<1> USE DEF ProcessInv
<1>1. /\ UNCHANGED <<exited, after, timers, budget, spawned, inbox, batch, parent,
                     delivered, held, refing, liveHandles, wake, buffered,
                     ended, owner, server, queue, taken>>
      /\ at[d] = "loop" /\ at' = [at EXCEPT ![d] = "inbox"]
      /\ wakeup' \in {wakeup, wakeup \ {d}}
  BY DEF WaitNext, Alive, domainVars, spawnVars, handleVars, serverVars
<1>2. at'[d] = "inbox" /\ \A e \in Domain \ {d} : at'[e] = at[e]
  BY <1>1, Domains DEF TypeOK
<1>a. TypeOK'
  <2>1. at' \in [Domain -> Place] /\ wakeup' \subseteq Domain
    BY <1>1 DEF TypeOK, Place
  <2> QED
    BY <1>1, <2>1 DEF TypeOK
<1>b. BornInv'
  BY <1>1, <1>2, Domains DEF BornInv, TypeOK
<1>c. BatchInv'
  BY <1>1, <1>2, Domains DEF BatchInv, TypeOK
<1>d. SpawnInv'
  BY <1>1 DEF SpawnInv, Outstanding
<1>e. DoneInv'
  BY <1>1, <1>2, Domains DEF DoneInv, TypeOK
<1>f. HandlesInv'
  BY <1>1 DEF HandlesInv
<1>g. ServeInv'
  BY <1>1, <1>2, Domains DEF ServeInv, TypeOK
<1>h. QueueInv'
  BY <1>1 DEF QueueInv, QueuedInv
<1>i. OutputInv'
  BY <1>1, <1>2, Domains DEF OutputInv, TypeOK
<1> QED
  BY <1>a, <1>b, <1>c, <1>d, <1>e, <1>f, <1>g, <1>h, <1>i

LEMMA KeepsRefFlush ==
    ASSUME ProcessInv, NEW d \in Domain, RefFlush(d)
    PROVE  ProcessInv'
<1> USE DEF ProcessInv
<1>1. /\ UNCHANGED <<exited, at, after, timers, budget, spawned, inbox, batch, wakeup,
                     parent, delivered, held, liveHandles, ended, owner,
                     server, queue, taken>>
      /\ refing' = refing \ {d} /\ wake' = TRUE /\ buffered' = {}
  BY DEF RefFlush, domainVars, spawnVars, handleVars, serverVars
<1>a. TypeOK'
  BY <1>1 DEF TypeOK
<1>b. BornInv'
  BY <1>1 DEF BornInv
<1>c. BatchInv'
  BY <1>1 DEF BatchInv
<1>d. SpawnInv'
  BY <1>1 DEF SpawnInv, Outstanding
<1>e. DoneInv'
  BY <1>1 DEF DoneInv
<1>f. HandlesInv'
  BY <1>1 DEF HandlesInv
<1>g. ServeInv'
  BY <1>1 DEF ServeInv
<1>h. QueueInv'
  BY <1>1 DEF QueueInv, QueuedInv
<1>i. OutputInv'
  BY <1>1 DEF OutputInv
<1> QED
  BY <1>a, <1>b, <1>c, <1>d, <1>e, <1>f, <1>g, <1>h, <1>i

LEMMA KeepsRef ==
    ASSUME ProcessInv, NEW d \in Domain, Ref(d)
    PROVE  ProcessInv'
<1> USE DEF ProcessInv
<1>1. /\ UNCHANGED <<exited, at, after, timers, budget, spawned, inbox, batch, wakeup,
                     parent, delivered, wake, buffered, ended, owner, server,
                     queue, taken>>
      /\ d \notin held /\ held' = held \cup {d} /\ refing' = refing \cup {d}
      /\ liveHandles' = liveHandles + 1
  BY DEF Ref, ref, domainVars, spawnVars, handleVars, serverVars
<1>a. TypeOK'
  BY <1>1 DEF TypeOK
<1>b. BornInv'
  BY <1>1 DEF BornInv
<1>c. BatchInv'
  BY <1>1 DEF BatchInv
<1>d. SpawnInv'
  BY <1>1 DEF SpawnInv, Outstanding
<1>e. DoneInv'
  BY <1>1 DEF DoneInv
<1>f. HandlesInv'
  <2> DEFINE S == {v \in Server : server[v] # "none"}
  <2>1. liveHandles = Cardinality(S) + Cardinality(held)
    BY DEF HandlesInv
  <2>2. Cardinality(S) \in Nat /\ Cardinality(held) \in Nat /\ Cardinality(held') = Cardinality(held) + 1
    BY <1>1, HandlesFinite, HeldAdd
  <2>3. liveHandles' = Cardinality(S) + Cardinality(held')
    <3> HIDE DEF S
    <3> QED
      BY <1>1, <2>1, <2>2
  <2> QED
    BY <1>1, <2>3 DEF HandlesInv
<1>g. ServeInv'
  BY <1>1 DEF ServeInv
<1>h. QueueInv'
  BY <1>1 DEF QueueInv, QueuedInv
<1>i. OutputInv'
  BY <1>1 DEF OutputInv
<1> QED
  BY <1>a, <1>b, <1>c, <1>d, <1>e, <1>f, <1>g, <1>h, <1>i

LEMMA KeepsFinish ==
    ASSUME ProcessInv, NEW d \in Domain, Finish(d)
    PROVE  ProcessInv'
<1> USE DEF ProcessInv
<1>1. /\ UNCHANGED <<exited, after, timers, budget, spawned, batch, parent, buffered,
                     ended, owner, server, queue, taken>>
      /\ at[d] = "loop" /\ at' = [at EXCEPT ![d] = "finished"] /\ d # Main /\ ~pending(d)
      /\ \/ d \in held /\ unref(d)
         \/ UNCHANGED <<held, refing, liveHandles, wake>>
      /\ \/ d \in Spawn /\ deliver(d, "none")
         \/ UNCHANGED <<inbox, wakeup, delivered>>
  BY DEF Finish, Alive, domainVars, spawnVars, handleVars, serverVars
<1>2. at'[d] = "finished" /\ \A e \in Domain \ {d} : at'[e] = at[e]
  BY <1>1, Domains DEF TypeOK
<1>3. /\ held' \subseteq Domain /\ liveHandles' \in Nat /\ wake' \in BOOLEAN /\ HandlesInv'
      /\ liveHandles' <= liveHandles /\ refing' = refing
  <2>1. CASE d \in held /\ unref(d)
    BY <1>1, <2>1, Unrefs DEF unref
  <2>2. CASE UNCHANGED <<held, refing, liveHandles, wake>>
    BY <1>1, <2>2 DEF TypeOK, HandlesInv
  <2> QED
    BY <1>1, <2>1, <2>2
<1>4. /\ inbox' \in [Domain -> Seq(Delivery)] /\ wakeup' \subseteq Domain /\ delivered' \subseteq Spawn
      /\ delivered' \subseteq delivered \cup {d}
      /\ \A e \in Domain : Cardinality(Outstanding(e))' + Len(inbox'[e])
                              = Cardinality(Outstanding(e)) + Len(inbox[e])
  <2>1. CASE d \in Spawn /\ deliver(d, "none")
    BY <1>1, <2>1, Delivers
  <2>2. CASE UNCHANGED <<inbox, wakeup, delivered>>
    <3>1. \A e : Outstanding(e)' = Outstanding(e)
      BY <1>1, <2>2 DEF Outstanding
    <3> QED
      BY <2>2, <3>1 DEF TypeOK
  <2> QED
    BY <1>1, <2>1, <2>2
<1>a. TypeOK'
  <2>1. at' \in [Domain -> Place]
    BY <1>1 DEF TypeOK, Place
  <2> QED
    BY <1>1, <1>3, <1>4, <2>1 DEF TypeOK
<1>b. BornInv'
  <2>1. \A s \in Spawn : at'[s] = "unborn" <=> at[s] = "unborn"
    BY <1>1, <1>2, Domains
  <2>2. \A s \in Spawn : s \in delivered' => parent[s] # None
    BY <1>1, <1>4 DEF BornInv
  <2> QED
    BY <1>1, <2>1, <2>2 DEF BornInv
<1>c. BatchInv'
  BY <1>1, <1>2 DEF BatchInv
<1>d. SpawnInv'
  BY <1>1, <1>4 DEF SpawnInv
<1>e. DoneInv'
  <2>1. spawned[d] = 0
    BY <1>1 DEF pending, TypeOK
  <2> QED
    BY <1>1, <1>2, <2>1 DEF DoneInv
<1>f. HandlesInv'
  BY <1>3
<1>g. ServeInv'
  <2>1. at'[Main] = at[Main] /\ \A r \in Request : at[r] = "unborn" => at'[r] = "unborn"
    BY <1>1, <1>2, Domains
  <2> QED
    BY <1>1, <2>1 DEF ServeInv
<1>h. QueueInv'
  BY <1>1 DEF QueueInv, QueuedInv
<1>i. OutputInv'
  <2>1. at'[Main] = at[Main]
    BY <1>1, <1>2, Domains
  <2>2. liveHandles' > 0 => liveHandles > 0
    BY <1>3 DEF TypeOK
  <2> QED
    BY <1>1, <1>3, <2>1, <2>2 DEF OutputInv
<1> QED
  BY <1>a, <1>b, <1>c, <1>d, <1>e, <1>f, <1>g, <1>h, <1>i

LEMMA KeepsArrive ==
    ASSUME ProcessInv, NEW r \in Request, Arrive(r)
    PROVE  ProcessInv'
<1> USE DEF ProcessInv
<1>1. /\ UNCHANGED <<exited, after, timers, spawned, inbox, batch, wakeup, parent,
                     delivered, held, refing, liveHandles, wake, buffered,
                     ended, owner, server, queue, taken>>
      /\ at[r] = "unborn" /\ at' = [at EXCEPT ![r] = "task"]
      /\ budget > 0 /\ budget' = budget - 1
      /\ \E v \in Server : server[v] = "serving"
  BY DEF Arrive, Alive, domainVars, spawnVars, handleVars, serverVars
<1>2. at'[r] = "task" /\ \A e \in Domain \ {r} : at'[e] = at[e]
  BY <1>1, Domains DEF TypeOK
<1>a. TypeOK'
  <2>1. at' \in [Domain -> Place] /\ budget' \in Nat
    BY <1>1, Domains DEF TypeOK, Place
  <2> QED
    BY <1>1, <2>1 DEF TypeOK
<1>b. BornInv'
  BY <1>1, <1>2, Domains DEF BornInv, TypeOK
<1>c. BatchInv'
  <2>1. batch[r] = <<>>
    BY <1>1, Domains DEF BatchInv
  <2> QED
    BY <1>1, <1>2, <2>1 DEF BatchInv
<1>d. SpawnInv'
  BY <1>1 DEF SpawnInv, Outstanding
<1>e. DoneInv'
  BY <1>1, <1>2, Domains DEF DoneInv, TypeOK
<1>f. HandlesInv'
  BY <1>1 DEF HandlesInv
<1>g. ServeInv'
  <2>1. at'[Main] = at[Main]
    BY <1>2, Domains
  <2> QED
    BY <1>1, <2>1 DEF ServeInv
<1>h. QueueInv'
  BY <1>1 DEF QueueInv, QueuedInv
<1>i. OutputInv'
  BY <1>1, <1>2, Domains DEF OutputInv, TypeOK
<1> QED
  BY <1>a, <1>b, <1>c, <1>d, <1>e, <1>f, <1>g, <1>h, <1>i

-----------------------------------------------------------------------------
(* run: main's loop.                                                       *)

LEMMA KeepsTakeQueue ==
    ASSUME ProcessInv, TakeQueue
    PROVE  ProcessInv'
<1> USE DEF ProcessInv
<1>1. /\ UNCHANGED <<exited, at, after, timers, budget, spawned, inbox, batch, wakeup,
                     parent, delivered, held, refing, liveHandles, wake,
                     buffered, ended, owner, server>>
      /\ taken' = queue /\ queue' = <<>>
  BY DEF TakeQueue, domainVars, spawnVars, handleVars, serverVars
<1>a. TypeOK'
  BY <1>1 DEF TypeOK
<1>b. BornInv'
  BY <1>1 DEF BornInv
<1>c. BatchInv'
  BY <1>1 DEF BatchInv
<1>d. SpawnInv'
  BY <1>1 DEF SpawnInv, Outstanding
<1>e. DoneInv'
  BY <1>1 DEF DoneInv
<1>f. HandlesInv'
  BY <1>1 DEF HandlesInv
<1>g. ServeInv'
  BY <1>1 DEF ServeInv
<1>h. QueueInv'
  <2>1. Len(queue') = 0
    BY <1>1
  <2> QED
    BY <1>1, <2>1 DEF QueueInv, QueuedInv
<1>i. OutputInv'
  BY <1>1 DEF OutputInv
<1> QED
  BY <1>a, <1>b, <1>c, <1>d, <1>e, <1>f, <1>g, <1>h, <1>i

LEMMA KeepsRunQueued ==
    ASSUME ProcessInv, RunQueued
    PROVE  ProcessInv'
<1> USE DEF ProcessInv
<1>1. /\ UNCHANGED <<exited, timers, budget, spawned, inbox, batch, wakeup, parent,
                     delivered, held, refing, liveHandles, wake, buffered,
                     ended, owner, queue>>
      /\ at[Main] = "queue" /\ taken # <<>> /\ taken' = Tail(taken)
      /\ \/ /\ at' = [at EXCEPT ![Main] = "task"] /\ after' = [after EXCEPT ![Main] = "queue"]
            /\ server' = server
         \/ /\ Head(taken).what = "serve" /\ server' = [server EXCEPT ![Head(taken).of] = "serving"]
            /\ at' = at /\ after' = after
  BY DEF RunQueued, Alive, domainVars, spawnVars, handleVars, serverVars
<1>2. /\ taken \in Seq(Queued) /\ Len(taken) \in Nat /\ Len(taken) >= 1 /\ Head(taken) = taken[1]
      /\ taken' \in Seq(Queued) /\ Len(taken') = Len(taken) - 1
      /\ \A i \in 1 .. Len(taken') : taken'[i] = taken[i + 1]
  BY <1>1 DEF TypeOK
<1>3. /\ at'[Main] \in {"queue", "task"} /\ \A e \in Domain \ {Main} : at'[e] = at[e]
      /\ at' \in [Domain -> Place] /\ after' \in [Domain -> {"queue", "batch", "fire", "loop"}]
      /\ \A e \in Domain \ {Main} : after'[e] = after[e]
  <2>1. CASE at' = [at EXCEPT ![Main] = "task"] /\ after' = [after EXCEPT ![Main] = "queue"]
    <3>1. at' \in [Domain -> Place] /\ after' \in [Domain -> {"queue", "batch", "fire", "loop"}]
      BY <2>1, Domains DEF TypeOK, Place
    <3> QED
      BY <2>1, <3>1, Domains DEF TypeOK
  <2>2. CASE at' = at /\ after' = after
    BY <1>1, <2>2 DEF TypeOK
  <2> QED
    BY <1>1, <2>1, <2>2
<1> DEFINE w == taken[1].of
<1>4. w \in Server
  <2>1. taken[1] \in Queued
    BY <1>2
  <2> QED
    BY <2>1 DEF Queued
<1>5. server[w] \in {"announced", "queued"}
  BY <1>2 DEF QueueInv, QueuedInv
<1>6. /\ server' \in [Server -> {"none", "bound", "announced", "queued", "serving"}]
      /\ \A v \in Server \ {w} : server'[v] = server[v]
      /\ server'[w] # "none"
      /\ \/ server' = server
         \/ taken[1].what = "serve" /\ server'[w] = "serving"
  <2> HIDE DEF w
  <2>1. CASE server' = server
    BY <1>5, <2>1 DEF TypeOK
  <2>2. CASE taken[1].what = "serve" /\ server' = [server EXCEPT ![w] = "serving"]
    BY <1>4, <2>2 DEF TypeOK
  <2> QED
    BY <1>1, <1>2, <2>1, <2>2 DEF w
<1> HIDE DEF w
<1>a. TypeOK'
  BY <1>1, <1>2, <1>3, <1>6 DEF TypeOK
<1>b. BornInv'
  BY <1>1, <1>3, Domains DEF BornInv
<1>c. BatchInv'
  <2>1. batch[Main] = <<>>
    BY <1>1, Domains DEF BatchInv
  <2> QED
    BY <1>1, <1>3, <2>1 DEF BatchInv
<1>d. SpawnInv'
  BY <1>1 DEF SpawnInv, Outstanding
<1>e. DoneInv'
  BY <1>1, <1>3 DEF DoneInv
<1>f. HandlesInv'
  <2>1. {v \in Server : server'[v] # "none"} = {v \in Server : server[v] # "none"}
    BY <1>4, <1>5, <1>6
  <2> QED
    BY <1>1, <2>1 DEF HandlesInv
<1>g. ServeInv'
  <2>1. \A r \in Request : at'[r] = at[r]
    BY <1>3, Domains
  <2> QED
    BY <1>3, <1>4, <1>6, <2>1 DEF ServeInv
<1>h. QueueInv'
  <2>1. ASSUME NEW i \in 1 .. Len(taken')
        PROVE  /\ i + 1 \in 1 .. Len(taken) /\ taken'[i] = taken[i + 1] /\ taken[i + 1].of \in Server
    <3>1. i + 1 \in 1 .. Len(taken) /\ taken'[i] = taken[i + 1]
      BY <1>2
    <3>2. taken[i + 1] \in Queued
      BY <1>2, <3>1
    <3> QED
      BY <3>1, <3>2 DEF Queued
  <2>2. ASSUME NEW v \in Server, \E i \in 1 .. Len(taken') : taken'[i].of = v
        PROVE  server'[v] = server[v]
    <3>1. PICK i \in 1 .. Len(taken') : taken'[i].of = v
      BY <2>2
    <3>2. CASE taken[1].what = "serve"
      <4>1. taken[i + 1].of # taken[1].of
        <5>1. i + 1 \in 1 .. Len(taken) /\ i + 1 > 1 /\ 1 \in 1 .. Len(taken)
          BY <2>1, <1>2
        <5> QED
          BY <3>2, <5>1 DEF QueueInv, QueuedInv
      <4> QED
        BY <1>6, <2>1, <3>1, <4>1 DEF w
    <3> QED
      BY <1>6, <3>2
  <2>3. ASSUME NEW v \in Server, \E j \in 1 .. Len(queue) : queue[j].of = v
        PROVE  server'[v] = server[v]
    <3>1. CASE taken[1].what = "serve"
      <4>1. 1 \in 1 .. Len(taken)
        BY <1>2
      <4>2. v # taken[1].of
        BY <2>3, <3>1, <4>1 DEF QueueInv
      <4> QED
        BY <1>6, <4>2 DEF w
    <3> QED
      BY <1>6, <3>1
  <2>4. ASSUME NEW i \in 1 .. Len(taken')
        PROVE  /\ server'[taken'[i].of] \in {"announced", "queued"}
               /\ taken'[i].what = "serve" =>
                    server'[taken'[i].of] = "queued" /\ \A j \in 1 .. Len(taken') : j > i => taken'[j].of # taken'[i].of
    <3>1. server'[taken'[i].of] = server[taken'[i].of]
      BY <2>1, <2>2
    <3>2. /\ server[taken[i + 1].of] \in {"announced", "queued"}
          /\ taken[i + 1].what = "serve" => server[taken[i + 1].of] = "queued"
      BY <2>1 DEF QueueInv, QueuedInv
    <3>3. ASSUME NEW j \in 1 .. Len(taken'), j > i, taken'[i].what = "serve"
          PROVE  taken'[j].of # taken'[i].of
      <4>1. i + 1 \in 1 .. Len(taken) /\ j + 1 \in 1 .. Len(taken) /\ j + 1 > i + 1
        BY <1>2, <3>3, <2>1
      <4>2. taken[j + 1].of # taken[i + 1].of
        BY <2>1, <3>3, <4>1 DEF QueueInv, QueuedInv
      <4> QED
        BY <2>1, <4>2
    <3> QED
      BY <2>1, <3>1, <3>2, <3>3
  <2>5. ASSUME NEW j \in 1 .. Len(queue)
        PROVE  /\ server'[queue[j].of] \in {"announced", "queued"}
               /\ queue[j].what = "serve" =>
                    server'[queue[j].of] = "queued" /\ \A k \in 1 .. Len(queue) : k > j => queue[k].of # queue[j].of
    <3>1. queue[j].of \in Server
      <4>1. queue[j] \in Queued
        BY DEF TypeOK
      <4> QED
        BY <4>1 DEF Queued
    <3>2. server'[queue[j].of] = server[queue[j].of]
      BY <2>3, <3>1
    <3> QED
      BY <3>2 DEF QueueInv, QueuedInv
  <2>6. ASSUME NEW i \in 1 .. Len(taken'), NEW j \in 1 .. Len(queue), taken'[i].what = "serve"
        PROVE  queue[j].of # taken'[i].of
    BY <2>1, <2>6 DEF QueueInv
  <2> QED
    BY <1>1, <2>4, <2>5, <2>6 DEF QueueInv, QueuedInv
<1>i. OutputInv'
  BY <1>1, <1>3 DEF OutputInv
<1> QED
  BY <1>a, <1>b, <1>c, <1>d, <1>e, <1>f, <1>g, <1>h, <1>i

LEMMA KeepsEndQueue ==
    ASSUME ProcessInv, EndQueue
    PROVE  ProcessInv'
<1> USE DEF ProcessInv
<1>1. /\ UNCHANGED <<exited, after, timers, budget, spawned, inbox, batch, wakeup,
                     parent, delivered, held, refing, liveHandles, wake,
                     buffered, ended, owner, server, queue, taken>>
      /\ at[Main] = "queue" /\ at' = [at EXCEPT ![Main] = "inbox"]
  BY DEF EndQueue, Alive, domainVars, spawnVars, handleVars, serverVars
<1>2. at'[Main] = "inbox" /\ \A e \in Domain \ {Main} : at'[e] = at[e]
  BY <1>1, Domains DEF TypeOK
<1>a. TypeOK'
  BY <1>1, Domains DEF TypeOK, Place
<1>b. BornInv'
  BY <1>1, <1>2, Domains DEF BornInv, TypeOK
<1>c. BatchInv'
  BY <1>1, <1>2, Domains DEF BatchInv, TypeOK
<1>d. SpawnInv'
  BY <1>1 DEF SpawnInv, Outstanding
<1>e. DoneInv'
  BY <1>1, <1>2, Domains DEF DoneInv, TypeOK
<1>f. HandlesInv'
  BY <1>1 DEF HandlesInv
<1>g. ServeInv'
  BY <1>1, <1>2, Domains DEF ServeInv, TypeOK
<1>h. QueueInv'
  BY <1>1 DEF QueueInv, QueuedInv
<1>i. OutputInv'
  BY <1>1, <1>2, Domains DEF OutputInv, TypeOK
<1> QED
  BY <1>a, <1>b, <1>c, <1>d, <1>e, <1>f, <1>g, <1>h, <1>i

LEMMA KeepsReadHandles ==
    ASSUME ProcessInv, ReadHandles
    PROVE  ProcessInv'
<1> USE DEF ProcessInv
<1>1. /\ UNCHANGED <<exited, after, timers, budget, spawned, inbox, batch, wakeup,
                     parent, delivered, held, refing, liveHandles, wake,
                     buffered, ended, owner, server, queue, taken>>
      /\ at[Main] = "loop" /\ at' = [at EXCEPT ![Main] = (IF liveHandles = 0 THEN "idle" ELSE "select")]
  BY DEF ReadHandles, Alive, domainVars, spawnVars, handleVars, serverVars
<1>2. at'[Main] = (IF liveHandles = 0 THEN "idle" ELSE "select") /\ \A e \in Domain \ {Main} : at'[e] = at[e]
  BY <1>1, Domains DEF TypeOK
<1>a. TypeOK'
  BY <1>1, Domains DEF TypeOK, Place
<1>b. BornInv'
  BY <1>1, <1>2, Domains DEF BornInv, TypeOK
<1>c. BatchInv'
  BY <1>1, <1>2, Domains DEF BatchInv, TypeOK
<1>d. SpawnInv'
  BY <1>1 DEF SpawnInv, Outstanding
<1>e. DoneInv'
  BY <1>1, <1>2, Domains DEF DoneInv, TypeOK
<1>f. HandlesInv'
  BY <1>1 DEF HandlesInv
<1>g. ServeInv'
  <2>1. ASSUME liveHandles = 0 PROVE \A v \in Server : server[v] # "serving"
    <3> DEFINE S == {v \in Server : server[v] # "none"}
    <3>1. Cardinality(S) \in Nat /\ Cardinality(held) \in Nat /\ (Cardinality(S) = 0 <=> S = {})
      BY HandlesFinite
    <3>2. Cardinality(S) + Cardinality(held) = 0
      BY <2>1 DEF HandlesInv
    <3>3. S = {}
      <4> HIDE DEF S
      <4> QED
        BY <3>1, <3>2
    <3> QED
      BY <3>3
  <2>2. \A r \in Request : at'[r] = at[r]
    BY <1>2, Domains
  <2> QED
    BY <1>1, <1>2, <2>1, <2>2 DEF ServeInv
<1>h. QueueInv'
  BY <1>1 DEF QueueInv, QueuedInv
<1>i. OutputInv'
  BY <1>1, <1>2, Domains DEF OutputInv, TypeOK
<1> QED
  BY <1>a, <1>b, <1>c, <1>d, <1>e, <1>f, <1>g, <1>h, <1>i

LEMMA KeepsReadRest ==
    ASSUME ProcessInv, ReadRest
    PROVE  ProcessInv'
<1> USE DEF ProcessInv
<1>1. /\ UNCHANGED <<exited, after, timers, budget, spawned, inbox, batch, wakeup,
                     parent, delivered, held, refing, liveHandles, wake,
                     buffered, ended, owner, server, queue, taken>>
      /\ at[Main] = "idle" /\ at' = [at EXCEPT ![Main] = (IF queue = <<>> /\ ~pending(Main) THEN "returned" ELSE "select")]
  BY DEF ReadRest, Alive, domainVars, spawnVars, handleVars, serverVars
<1>2. at'[Main] = (IF queue = <<>> /\ ~pending(Main) THEN "returned" ELSE "select") /\ \A e \in Domain \ {Main} : at'[e] = at[e]
  BY <1>1, Domains DEF TypeOK
<1>a. TypeOK'
  BY <1>1, Domains DEF TypeOK, Place
<1>b. BornInv'
  BY <1>1, <1>2, Domains DEF BornInv, TypeOK
<1>c. BatchInv'
  BY <1>1, <1>2, Domains DEF BatchInv, TypeOK
<1>d. SpawnInv'
  BY <1>1 DEF SpawnInv, Outstanding
<1>e. DoneInv'
  <2>1. ~pending(Main) => spawned[Main] = 0
    BY Domains DEF pending, TypeOK
  <2> QED
    BY <1>1, <1>2, <2>1 DEF DoneInv
<1>f. HandlesInv'
  BY <1>1 DEF HandlesInv
<1>g. ServeInv'
  <2>1. \A r \in Request : at'[r] = at[r]
    BY <1>2, Domains
  <2> QED
    BY <1>1, <1>2, <2>1 DEF ServeInv
<1>h. QueueInv'
  BY <1>1 DEF QueueInv, QueuedInv
<1>i. OutputInv'
  BY <1>1, <1>2, Domains DEF OutputInv, TypeOK
<1> QED
  BY <1>a, <1>b, <1>c, <1>d, <1>e, <1>f, <1>g, <1>h, <1>i

LEMMA KeepsSelect ==
    ASSUME ProcessInv, Select
    PROVE  ProcessInv'
<1> USE DEF ProcessInv
<1>1. /\ UNCHANGED <<exited, after, timers, budget, spawned, inbox, batch, parent,
                     delivered, held, refing, liveHandles, ended, owner,
                     server, queue, taken>>
      /\ at[Main] = "select" /\ at' = [at EXCEPT ![Main] = "queue"]
      /\ buffered' = {} /\ wake' \in {wake, FALSE} /\ wakeup' \in {wakeup, wakeup \ {Main}}
  BY DEF Select, Alive, domainVars, spawnVars, handleVars, serverVars
<1>2. at'[Main] = "queue" /\ \A e \in Domain \ {Main} : at'[e] = at[e]
  BY <1>1, Domains DEF TypeOK
<1>a. TypeOK'
  <2>1. at' \in [Domain -> Place] /\ wakeup' \subseteq Domain
    BY <1>1, Domains DEF TypeOK, Place
  <2>2. wake' \in BOOLEAN
    BY <1>1 DEF TypeOK
  <2> QED
    BY <1>1, <2>1, <2>2 DEF TypeOK
<1>b. BornInv'
  BY <1>1, <1>2, Domains DEF BornInv, TypeOK
<1>c. BatchInv'
  BY <1>1, <1>2, Domains DEF BatchInv, TypeOK
<1>d. SpawnInv'
  BY <1>1 DEF SpawnInv, Outstanding
<1>e. DoneInv'
  BY <1>1, <1>2, Domains DEF DoneInv, TypeOK
<1>f. HandlesInv'
  BY <1>1 DEF HandlesInv
<1>g. ServeInv'
  BY <1>1, <1>2, Domains DEF ServeInv, TypeOK
<1>h. QueueInv'
  BY <1>1 DEF QueueInv, QueuedInv
<1>i. OutputInv'
  BY <1>1, <1>2, Domains DEF OutputInv
<1> QED
  BY <1>a, <1>b, <1>c, <1>d, <1>e, <1>f, <1>g, <1>h, <1>i

LEMMA KeepsInterrupt ==
    ASSUME ProcessInv, Interrupt
    PROVE  ProcessInv'
<1> USE DEF ProcessInv
<1>1. /\ UNCHANGED <<at, after, timers, budget, spawned, inbox, batch, wakeup, parent,
                     delivered, held, refing, liveHandles, wake, ended,
                     owner, server, queue, taken>>
      /\ exited' = "signal" /\ buffered' = {}
  BY DEF Interrupt, domainVars, spawnVars, handleVars, serverVars
<1>a. TypeOK'
  BY <1>1 DEF TypeOK
<1>b. BornInv'
  BY <1>1 DEF BornInv
<1>c. BatchInv'
  BY <1>1 DEF BatchInv
<1>d. SpawnInv'
  BY <1>1 DEF SpawnInv, Outstanding
<1>e. DoneInv'
  BY <1>1 DEF DoneInv
<1>f. HandlesInv'
  BY <1>1 DEF HandlesInv
<1>g. ServeInv'
  BY <1>1 DEF ServeInv
<1>h. QueueInv'
  BY <1>1 DEF QueueInv, QueuedInv
<1>i. OutputInv'
  BY <1>1 DEF OutputInv
<1> QED
  BY <1>a, <1>b, <1>c, <1>d, <1>e, <1>f, <1>g, <1>h, <1>i

LEMMA KeepsExitFlush ==
    ASSUME ProcessInv, ExitFlush
    PROVE  ProcessInv'
<1> USE DEF ProcessInv
<1>1. /\ UNCHANGED <<exited, after, timers, budget, spawned, inbox, batch, wakeup,
                     parent, delivered, held, refing, liveHandles, wake,
                     ended, owner, server, queue, taken>>
      /\ at[Main] = "returned" /\ at' = [at EXCEPT ![Main] = "flushed"]
      /\ buffered' = {}
  BY DEF ExitFlush, Alive, domainVars, spawnVars, handleVars, serverVars
<1>2. at'[Main] = "flushed" /\ \A e \in Domain \ {Main} : at'[e] = at[e]
  BY <1>1, Domains DEF TypeOK
<1>a. TypeOK'
  BY <1>1, Domains DEF TypeOK, Place
<1>b. BornInv'
  BY <1>1, <1>2, Domains DEF BornInv, TypeOK
<1>c. BatchInv'
  BY <1>1, <1>2, Domains DEF BatchInv, TypeOK
<1>d. SpawnInv'
  BY <1>1 DEF SpawnInv, Outstanding
<1>e. DoneInv'
  BY <1>1, <1>2, Domains DEF DoneInv, TypeOK
<1>f. HandlesInv'
  BY <1>1 DEF HandlesInv
<1>g. ServeInv'
  BY <1>1, <1>2, Domains DEF ServeInv, TypeOK
<1>h. QueueInv'
  BY <1>1 DEF QueueInv, QueuedInv
<1>i. OutputInv'
  BY <1>1, <1>2, Domains DEF OutputInv
<1> QED
  BY <1>a, <1>b, <1>c, <1>d, <1>e, <1>f, <1>g, <1>h, <1>i

LEMMA KeepsExit ==
    ASSUME ProcessInv, Exit
    PROVE  ProcessInv'
<1> USE DEF ProcessInv
<1>1. /\ UNCHANGED <<at, after, timers, budget, spawned, inbox, batch, wakeup, parent,
                     delivered, held, refing, liveHandles, wake, buffered,
                     ended, owner, server, queue, taken>>
      /\ exited' = "normal" /\ at[Main] = "flushed"
  BY DEF Exit, Alive, domainVars, spawnVars, handleVars, serverVars
<1>a. TypeOK'
  BY <1>1 DEF TypeOK
<1>b. BornInv'
  BY <1>1 DEF BornInv
<1>c. BatchInv'
  BY <1>1 DEF BatchInv
<1>d. SpawnInv'
  BY <1>1 DEF SpawnInv, Outstanding
<1>e. DoneInv'
  BY <1>1 DEF DoneInv
<1>f. HandlesInv'
  BY <1>1 DEF HandlesInv
<1>g. ServeInv'
  BY <1>1 DEF ServeInv
<1>h. QueueInv'
  BY <1>1 DEF QueueInv, QueuedInv
<1>i. OutputInv'
  BY <1>1 DEF OutputInv
<1> QED
  BY <1>a, <1>b, <1>c, <1>d, <1>e, <1>f, <1>g, <1>h, <1>i

-----------------------------------------------------------------------------
(* The invariant, and what follows from it.                                *)

LEMMA Begins == Init => ProcessInv
<1> SUFFICES ASSUME Init PROVE ProcessInv
  OBVIOUS
<1>1. TypeOK
  <2>1. at \in [Domain -> Place] /\ after \in [Domain -> {"queue", "batch", "fire", "loop"}]
    BY DEF Init, Place
  <2>2. inbox \in [Domain -> Seq(Delivery)] /\ batch \in [Domain -> Seq(Delivery)]
    BY DEF Init
  <2>3. queue \in Seq(Queued) /\ taken \in Seq(Queued)
    BY DEF Init
  <2>4. timers \in [Domain -> Nat] /\ budget \in Nat /\ spawned \in [Domain -> Nat] /\ liveHandles \in Nat
    BY BoundAssumption DEF Init
  <2>5. wake \in BOOLEAN /\ exited \in {"no", "normal", "failure", "signal"} /\ buffered \in SUBSET {"owed", "late"}
    BY DEF Init
  <2>6. /\ owner \in [Server -> Domain \cup {None}]
        /\ server \in [Server -> {"none", "bound", "announced", "queued", "serving"}]
        /\ parent \in [Spawn -> Domain \cup {None}]
    BY DEF Init
  <2> QED
    BY <2>1, <2>2, <2>3, <2>4, <2>5, <2>6 DEF Init, TypeOK
<1>2. BornInv /\ BatchInv /\ ServeInv /\ OutputInv /\ DoneInv
  BY Domains DEF Init, BornInv, BatchInv, ServeInv, OutputInv, DoneInv
<1>3. SpawnInv
  <2>1. \A d \in Domain : Outstanding(d) = {}
    BY Domains DEF Init, Outstanding
  <2>2. \A d \in Domain : Cardinality(Outstanding(d)) = 0
    BY <2>1, FS_EmptySet
  <2>3. \A d \in Domain : spawned[d] = 0 /\ Len(inbox[d]) = 0 /\ Len(batch[d]) = 0
    BY DEF Init
  <2> QED
    BY <2>2, <2>3 DEF SpawnInv
<1>4. HandlesInv
  <2>1. {v \in Server : server[v] # "none"} = {} /\ held = {} /\ liveHandles = 0
    BY DEF Init
  <2>2. Cardinality({}) = 0
    BY FS_EmptySet
  <2> QED
    BY <2>1, <2>2 DEF HandlesInv
<1>5. QueueInv
  <2>1. Len(queue) = 0 /\ Len(taken) = 0
    BY DEF Init
  <2> QED
    BY <2>1 DEF QueueInv, QueuedInv
<1> QED
  BY <1>1, <1>2, <1>3, <1>4, <1>5 DEF ProcessInv

LEMMA Stutters ==
    ASSUME ProcessInv, UNCHANGED vars
    PROVE  ProcessInv'
<1>1. UNCHANGED <<exited, at, after, timers, budget, spawned, inbox, batch, wakeup, parent, delivered,
                  held, refing, liveHandles, wake, buffered, ended, owner, server, queue, taken>>
  BY DEF vars, domainVars, spawnVars, handleVars, serverVars
<1>2. TypeOK' /\ BornInv' /\ BatchInv' /\ DoneInv'
  BY <1>1 DEF ProcessInv, TypeOK, BornInv, BatchInv, DoneInv
<1>3. SpawnInv' /\ HandlesInv' /\ ServeInv'
  BY <1>1 DEF ProcessInv, SpawnInv, Outstanding, HandlesInv, ServeInv
<1>4. QueueInv' /\ OutputInv'
  BY <1>1 DEF ProcessInv, QueueInv, QueuedInv, OutputInv
<1> QED
  BY <1>2, <1>3, <1>4 DEF ProcessInv

LEMMA ProcessStep ==
    ASSUME ProcessInv, [Next]_vars
    PROVE  ProcessInv'
<1>1. ASSUME NEW d \in Domain, Code(d) PROVE ProcessInv'
  BY <1>1, KeepsSetTimeout, KeepsClearTimeout, KeepsWriteLine, KeepsSpawn, KeepsListen DEF Code
<1>2. ASSUME NEW d \in Domain, Progress(d) PROVE ProcessInv'
  BY <1>2, KeepsEndTask, KeepsFailTask DEF Progress
<1>3. ASSUME NEW d \in Domain, Drive(d) PROVE ProcessInv'
  BY <1>3, KeepsRefFlush, KeepsTakeInbox, KeepsRunDelivery, KeepsRaiseDelivery, KeepsEndInbox,
     KeepsEndFire, KeepsWaitNext, KeepsRef, KeepsFinish DEF Drive
<1>4. ASSUME DriveMain PROVE ProcessInv'
  BY <1>4, KeepsTakeQueue, KeepsRunQueued, KeepsEndQueue, KeepsReadHandles, KeepsReadRest,
     KeepsSelect, KeepsExitFlush, KeepsExit DEF DriveMain
<1>5. ASSUME NEW v \in Server, Enqueue(v) PROVE ProcessInv'
  BY <1>5, KeepsEnqueueCallback, KeepsEnqueueServe DEF Enqueue
<1>6. ASSUME Gone \/ UNCHANGED vars PROVE ProcessInv'
  BY <1>6, Stutters DEF Gone
<1> QED
  BY <1>1, <1>2, <1>3, <1>4, <1>5, <1>6, KeepsFireDue, KeepsDeliver, KeepsEnd, KeepsArrive,
     KeepsInterrupt, KeepsFatal DEF Next

LEMMA ProcessInvariant == Spec => []ProcessInv
  BY Begins, ProcessStep, PTL DEF Spec

(***************************************************************************)
(* liveHandles (loop.go) counts exactly the servers that listen and the    *)
(* domains that hold a handle, whatever number of domains spawn, fail and  *)
(* finish in whatever order.                                               *)
(***************************************************************************)
THEOREM Handles == Spec => []HandlesExact
<1>1. ProcessInv => HandlesExact
  BY DEF ProcessInv, HandlesInv, HandlesExact
<1> QED
  BY <1>1, ProcessInvariant, PTL

(***************************************************************************)
(* No domain returns or finishes with a result outstanding (spawn.go), and *)
(* main does not return from a process that serves (run), though it reads  *)
(* liveHandles and what else is left at different moments.                 *)
(***************************************************************************)
THEOREM EarlyEnd == Spec => []NoEarlyEnd
<1>1. ASSUME ProcessInv PROVE NoEarlyEnd
  <2>1. ASSUME NEW d \in Domain, at[d] \in {"returned", "flushed", "finished"}
        PROVE  Outstanding(d) = {} /\ inbox[d] = <<>> /\ batch[d] = <<>>
    <3>1. spawned[d] = 0
      BY <1>1, <2>1 DEF ProcessInv, DoneInv
    <3>2. Cardinality(Outstanding(d)) + Len(inbox[d]) + Len(batch[d]) = 0
      BY <1>1, <3>1 DEF ProcessInv, SpawnInv
    <3>3. inbox[d] \in Seq(Delivery) /\ batch[d] \in Seq(Delivery)
      BY <1>1 DEF ProcessInv, TypeOK
    <3>4. Len(inbox[d]) \in Nat /\ Len(batch[d]) \in Nat
      BY <3>3
    <3>5. Cardinality(Outstanding(d)) = 0 /\ Len(inbox[d]) = 0 /\ Len(batch[d]) = 0
      <4>1. Cardinality(Outstanding(d)) \in Nat
        BY OutstandingFinite
      <4> QED
        BY <3>2, <3>4, <4>1
    <3> QED
      BY <3>3, <3>5, OutstandingFinite
  <2>2. at[Main] \in {"returned", "flushed"} =>
            /\ \A v \in Server : server[v] # "serving"
            /\ \A r \in Request : at[r] = "unborn"
    BY <1>1 DEF ProcessInv, ServeInv
  <2> QED
    BY <2>1, <2>2 DEF NoEarlyEnd
<1> QED
  BY <1>1, ProcessInvariant, PTL

(***************************************************************************)
(* A server whose Serve runs has nothing left in loop.go's queue, nor in   *)
(* what takeQueue took: its callback has been run.                         *)
(***************************************************************************)
THEOREM Callback == Spec => []CallbackBeforeServe
<1>1. ASSUME ProcessInv PROVE CallbackBeforeServe
  <2>1. ASSUME NEW v \in Server, server[v] = "serving", NEW q \in {queue, taken}, NEW i \in DOMAIN q
        PROVE  q[i].of # v
    <3>1. QueuedInv(q) /\ q \in Seq(Queued)
      BY <1>1 DEF ProcessInv, QueueInv, TypeOK
    <3>2. i \in 1 .. Len(q)
      BY <3>1
    <3> QED
      BY <2>1, <3>1, <3>2 DEF QueuedInv
  <2> QED
    BY <2>1 DEF CallbackBeforeServe
<1> QED
  BY <1>1, ProcessInvariant, PTL

(***************************************************************************)
(* While a handle is live no line stays in the buffer, and a normal exit   *)
(* loses none that main, or a domain it waited for, logged (writeLine,     *)
(* ref, Exit).                                                             *)
(***************************************************************************)
THEOREM Output == Spec => []OutputWritten
<1>1. ProcessInv => OutputWritten
  BY DEF ProcessInv, OutputInv, OutputWritten
<1> QED
  BY <1>1, ProcessInvariant, PTL
=============================================================================
