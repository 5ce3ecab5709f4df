------------------------- MODULE CheckerPoolProofs -------------------------
(***************************************************************************)
(* Proofs about the pool of checkers, for every number of goroutines, of   *)
(* checkers, requests and files: a checker is used by one goroutine at a   *)
(* time, what the pool keeps is not stale, an idle checker has a timer     *)
(* coming, global diagnostics are reported, and identities are stable.     *)
(***************************************************************************)
EXTENDS CheckerPool, FiniteSetTheorems, WellFoundedInduction, TLAPS

AnySlot == Slot \cup {API}

\* Where a goroutine is fits what it asked for and what it has.
CallInv ==
    \A t \in Thread :
        /\ call[t].life = "api" => call[t].req = None
        /\ pc[t] = "reacquire" => call[t].req # None
        /\ pc[t] = "holding" => (got[t].slot = 0 <=> call[t].life = "diagnostics")
                                    /\ (got[t].slot = API <=> call[t].life = "api")
        /\ pc[t] # "holding" => got[t].checker = NoChecker

\* Whoever holds a checker is noted in its slot, and is the only one.
HoldInv ==
    /\ \A t \in Thread : pc[t] = "holding" =>
            /\ got[t].checker = checkers[got[t].slot] /\ got[t].checker # NoChecker
            /\ heldBy[got[t].slot] = holdTag(call[t].req)
    /\ \A i \in AnySlot : heldBy[i] # None => \E t \in Thread : pc[t] = "holding" /\ got[t].slot = i
    /\ \A t, u \in Thread :
            pc[t] = "holding" /\ pc[u] = "holding" /\ got[t].slot = got[u].slot => t = u

\* Those who have a token of a channel.
HaveToken(l) ==
    {t \in Thread : pc[t] \in {"reacquire", "acquire", "holding", "token"} /\ call[t].life = l}

TokenInv == \A l \in Lifetime : sem[l] = Cardinality(HaveToken(l)) /\ sem[l] <= cap(l)

\* No checker is in two slots.
IdentityInv ==
    \A i, j \in AnySlot : i # j /\ checkers[i] # NoChecker => checkers[i] # checkers[j]

\* Whoever canceled a checker still holds it.
CanceledInv == \A c \in canceled : \E t \in Thread : pc[t] = "holding" /\ got[t].checker = c

AssocInv ==
    /\ \A f \in File : fileAssociations[f] # None => checkers[fileAssociations[f]] # NoChecker
    /\ \A r \in Request : requestAssociations[r] # None =>
            checkers[requestAssociations[r]] # NoChecker /\ cleanups[r] > 0

IdleInv ==
    \A i \in Slot : checkers[i] # NoChecker /\ heldBy[i] = None =>
        lastReleased[i] # "zero" /\ (discarded \/ timer = "armed" \/ firing > 0)

\* What counted counts was found, and is accumulated.
DiagInv ==
    /\ checkers[0] = NoChecker => counted[0] = 0
    /\ checkers[0] # NoChecker => \E S \in SUBSET Diag :
            S \subseteq found /\ S \subseteq accumulated /\ counted[0] = Cardinality(S)
    /\ checkers[0] # NoChecker /\ heldBy[0] = None => found \subseteq accumulated
    /\ accumulated # taken => changed

PoolInv ==
    /\ TypeOK /\ CallInv /\ HoldInv /\ TokenInv /\ IdentityInv /\ CanceledInv /\ AssocInv
    /\ IdleInv /\ DiagInv

-----------------------------------------------------------------------------
(* Facts about slots, identities and tokens.                               *)

LEMMA Slots ==
    /\ AnySlot = 0 .. MaxCheckers /\ Slot \subseteq AnySlot /\ 0 \in Slot /\ API \in AnySlot /\ API \notin Slot
    /\ AnySlot \ {0, API} = Query /\ Slot \ {0} = Query /\ Query \subseteq Nat /\ 0 # API
    /\ None \notin AnySlot /\ NoChecker \notin Checker
    /\ IsFiniteSet(AnySlot) /\ Cardinality(AnySlot) = MaxCheckers + 1
    /\ IsFiniteSet(Checker) /\ Cardinality(Checker) = MaxCheckers + 1
    /\ IsFiniteSet(Query) /\ Cardinality(Query) = MaxCheckers - 1
<1>1. AnySlot = 0 .. MaxCheckers /\ Slot \subseteq AnySlot /\ 0 \in Slot /\ API \in AnySlot /\ API \notin Slot
        /\ 0 # API /\ Query = 1 .. MaxCheckers - 1
  BY PoolAssumption DEF AnySlot, Slot, API, Query
<1>2. AnySlot \ {0, API} = Query /\ Slot \ {0} = Query /\ Query \subseteq Nat
  BY PoolAssumption, <1>1 DEF Slot, API, Query
<1>3. None \notin AnySlot /\ NoChecker \notin Checker
  BY PoolAssumption, <1>1 DEF NoChecker, Checker
<1>4. IsFiniteSet(AnySlot) /\ Cardinality(AnySlot) = MaxCheckers + 1
  <2>1. IsFiniteSet(0 .. MaxCheckers) /\ Cardinality(0 .. MaxCheckers) = MaxCheckers - 0 + 1
    BY PoolAssumption, FS_Interval
  <2> QED
    BY <1>1, <2>1, PoolAssumption
<1>5. IsFiniteSet(Checker) /\ Cardinality(Checker) = MaxCheckers + 1
  <2>1. IsFiniteSet(1 .. MaxCheckers + 1) /\ Cardinality(1 .. MaxCheckers + 1) = MaxCheckers + 1 - 1 + 1
    BY PoolAssumption, FS_Interval
  <2> QED
    BY <2>1, PoolAssumption DEF Checker
<1>6. IsFiniteSet(Query) /\ Cardinality(Query) = MaxCheckers - 1
  <2>1. IsFiniteSet(1 .. MaxCheckers - 1) /\ Cardinality(1 .. MaxCheckers - 1) = MaxCheckers - 1 - 1 + 1
    BY PoolAssumption, FS_Interval
  <2> QED
    BY <1>1, <2>1, PoolAssumption
<1> QED
  BY <1>1, <1>2, <1>3, <1>4, <1>5, <1>6

\* The image of a finite set is no larger.
LEMMA Image ==
    ASSUME NEW S, IsFiniteSet(S), NEW f, f = [x \in S |-> f[x]]
    PROVE  LET R == {f[x] : x \in S} IN IsFiniteSet(R) /\ Cardinality(R) <= Cardinality(S)
<1> DEFINE R == {f[x] : x \in S}
<1>1. f \in Surjection(S, R)
  BY DEF Surjection
<1> QED
  BY <1>1, FS_Surjection

LEMMA MinIn ==
    ASSUME NEW S, S # {}, S \subseteq Nat
    PROVE  Min(S) \in S
<1>1. PICK x \in S : \A y \in S : ~(<<y, x>> \in OpToRel(<, Nat))
  BY NatLessThanWellFounded, WFMin
<1>2. ASSUME NEW y \in S PROVE x <= y
  <2>1. ~(y < x)
    BY <1>1 DEF OpToRel
  <2> QED
    BY <2>1
<1> QED
  BY <1>2 DEF Min

\* NewChecker finds an identity: if a slot is empty one is free.
LEMMA Fresh ==
    ASSUME TypeOK, CallInv, HoldInv, NEW i \in AnySlot, checkers[i] = NoChecker
    PROVE  /\ NewChecker \in Checker /\ \A j \in AnySlot : checkers[j] # NewChecker
           /\ \A t \in Thread : got[t].checker # NewChecker
<1> DEFINE U == {checkers[j] : j \in AnySlot}
           B == {got[t].checker : t \in Thread}
<1>1. IsFiniteSet(U) /\ Cardinality(U) <= MaxCheckers + 1
  <2>1. checkers = [j \in AnySlot |-> checkers[j]]
    BY DEF TypeOK, AnySlot
  <2>2. IsFiniteSet(AnySlot)
    BY Slots
  <2>3. IsFiniteSet(U) /\ Cardinality(U) <= Cardinality(AnySlot)
    BY <2>1, <2>2, Image
  <2> QED
    BY <2>3, Slots
<1>2. B \subseteq U
  <2>1. ASSUME NEW t \in Thread PROVE got[t].checker \in U
    <3>1. CASE pc[t] = "holding"
      <4>1. got[t].slot \in AnySlot /\ got[t].checker = checkers[got[t].slot]
        BY <3>1 DEF TypeOK, HoldInv, AnySlot
      <4> QED
        BY <4>1
    <3>2. CASE pc[t] # "holding"
      BY <3>2 DEF CallInv
    <3> QED
      BY <3>1, <3>2
  <2> QED
    BY <2>1
<1>3. NoChecker \in U
  OBVIOUS
<1>4. Checker \ U # {}
  <2> HIDE DEF U
  <2> SUFFICES ASSUME Checker \subseteq U PROVE FALSE
    OBVIOUS
  <2>1. IsFiniteSet(Checker \cup {NoChecker}) /\ Cardinality(Checker \cup {NoChecker}) = MaxCheckers + 2
    <3>1. Cardinality(Checker \cup {NoChecker}) = Cardinality(Checker) + 1 /\ IsFiniteSet(Checker \cup {NoChecker})
      BY Slots, FS_AddElement
    <3> QED
      BY <3>1, Slots, PoolAssumption
  <2>2. Checker \cup {NoChecker} \subseteq U
    BY <1>3
  <2>3. Cardinality(Checker \cup {NoChecker}) <= Cardinality(U)
    BY <1>1, <2>2, FS_Subset
  <2>4. Cardinality(U) \in Nat
    BY <1>1, FS_CardinalityType
  <2> QED
    BY <1>1, <2>1, <2>3, <2>4, PoolAssumption
<1>5. NewChecker = Min(Checker \ (U \cup B))
  BY DEF NewChecker, AnySlot
<1>6. Checker \ (U \cup B) = Checker \ U
  BY <1>2
<1>7. Checker \subseteq Nat
  BY PoolAssumption DEF Checker
<1>8. NewChecker \in Checker \ U
  <2> HIDE DEF U, B
  <2> QED
    BY <1>4, <1>5, <1>6, <1>7, MinIn
<1> QED
  BY <1>2, <1>8

LEMMA Tokens ==
    \A l : IsFiniteSet(HaveToken(l)) /\ Cardinality(HaveToken(l)) \in Nat
<1> TAKE l
<1>1. HaveToken(l) \subseteq Thread
  BY DEF HaveToken
<1> QED
  BY <1>1, FS_Subset, FS_CardinalityType, PoolAssumption

LEMMA Tags ==
    ASSUME TypeOK, NEW t \in Thread
    PROVE  holdTag(call[t].req) \in Tag /\ holdTag(call[t].req) # None
<1>1. call[t].req \in Request \cup {None}
  BY DEF TypeOK, Call
<1> QED
  BY <1>1, PoolAssumption DEF holdTag, Tag

\* Nobody holds a checker a goroutine with the category's only token may take.
LEMMA OnlyOne ==
    ASSUME PoolInv, NEW t \in Thread, pc[t] = "acquire", call[t].life \in {"diagnostics", "api"}
    PROVE  heldBy[IF call[t].life = "api" THEN API ELSE 0] = None
<1> USE DEF PoolInv
<1> DEFINE l == call[t].life
           i == IF l = "api" THEN API ELSE 0
<1>0. i \in AnySlot
  BY Slots
<1> SUFFICES ASSUME heldBy[i] # None PROVE FALSE
  OBVIOUS
<1>1. PICK u \in Thread : pc[u] = "holding" /\ got[u].slot = i
  BY <1>0 DEF HoldInv
<1>2. call[u].life = l
  BY <1>1, Slots DEF CallInv
<1>3. t # u /\ {t, u} \subseteq HaveToken(l)
  BY <1>1, <1>2 DEF HaveToken
<1>4. Cardinality(HaveToken(l)) <= 1
  <2>1. cap(l) = 1 /\ l \in Lifetime
    BY DEF cap, Lifetime
  <2> QED
    BY <2>1, Tokens DEF TokenInv
<1>5. Cardinality({t} \cup {u}) = 2
  <2>1. IsFiniteSet({t}) /\ Cardinality({t}) = 1
    BY FS_Singleton
  <2>2. Cardinality({t} \cup {u}) = Cardinality({t}) + 1
    BY <1>3, <2>1, FS_AddElement
  <2> QED
    BY <2>1, <2>2
<1>6. Cardinality({t} \cup {u}) <= Cardinality(HaveToken(l))
  <2>1. {t} \cup {u} \subseteq HaveToken(l)
    BY <1>3
  <2> QED
    BY <2>1, Tokens, FS_Subset
<1> QED
  BY <1>4, <1>5, <1>6, Tokens

\* "no available query slot despite holding semaphore token": there is one.
LEMMA SlotLeft ==
    ASSUME PoolInv, NEW t \in Thread, pc[t] = "acquire", call[t].life = "query"
    PROVE  Available # {}
<1> USE DEF PoolInv
<1> SUFFICES ASSUME Available = {} PROVE FALSE
  OBVIOUS
<1> DEFINE H == HaveToken("query") \ {t}
           f == [u \in H |-> got[u].slot]
           R == {f[u] : u \in H}
<1>1. IsFiniteSet(H) /\ Cardinality(H) = Cardinality(HaveToken("query")) - 1
  <2>1. t \in HaveToken("query")
    BY DEF HaveToken
  <2> QED
    BY <2>1, Tokens, FS_RemoveElement
<1>2. Cardinality(HaveToken("query")) <= MaxCheckers - 1
  <2>1. cap("query") = MaxCheckers - 1 /\ "query" \in Lifetime
    BY DEF cap, Lifetime
  <2> QED
    BY <2>1 DEF TokenInv
<1>3. IsFiniteSet(R) /\ Cardinality(R) <= Cardinality(H)
  <2>1. f = [u \in H |-> f[u]]
    OBVIOUS
  <2> HIDE DEF f, H
  <2> QED
    BY <1>1, <2>1, Image
<1>4. Query \subseteq R
  <2> SUFFICES ASSUME NEW i \in Query PROVE i \in R
    OBVIOUS
  <2>1. heldBy[i] # None
    BY DEF Available
  <2>2. i \in AnySlot
    BY Slots DEF Query
  <2>3. PICK u \in Thread : pc[u] = "holding" /\ got[u].slot = i
    BY <2>1, <2>2 DEF HoldInv
  <2>4. i # 0 /\ i # API
    BY Slots DEF Query
  <2>5. call[u].life = "query"
    BY <2>3, <2>4 DEF CallInv, TypeOK, Call, Lifetime
  <2>6. u \in H
    BY <2>3, <2>5 DEF HaveToken
  <2> QED
    BY <2>3, <2>6
<1>5. Cardinality(Query) <= Cardinality(R)
  <2> HIDE DEF R
  <2> QED
    BY <1>3, <1>4, FS_Subset
<1>6. Cardinality(R) \in Nat /\ Cardinality(H) \in Nat
  BY <1>1, <1>3, FS_CardinalityType
<1> HIDE DEF R, H
<1> QED
  BY <1>1, <1>2, <1>3, <1>5, <1>6, Slots, Tokens, PoolAssumption


-----------------------------------------------------------------------------
(* Taking a checker.                                                       *)

LEMMA Holds ==
    ASSUME TypeOK, CallInv, HoldInv, TokenInv, CanceledInv, NEW t \in Thread, pc[t] \in {"acquire", "reacquire"},
           NEW i \in AnySlot, NEW c \in Checker, heldBy[i] = None, Hold(t, i, c),
           checkers'[i] = c, \A j \in AnySlot \ {i} : checkers'[j] = checkers[j],
           call' = call, sem' = sem, canceled' = canceled,
           i = 0 <=> call[t].life = "diagnostics", i = API <=> call[t].life = "api"
    PROVE  /\ pc' \in [Thread -> {"idle", "sem", "reacquire", "acquire", "holding", "token"}]
           /\ got' \in [Thread -> [slot : Slot \cup {API}, checker : Checker \cup {NoChecker}]]
           /\ heldBy' \in [Slot \cup {API} -> Tag \cup {None}]
           /\ heldBy'[i] # None /\ \A j \in AnySlot \ {i} : heldBy'[j] = heldBy[j]
           /\ CallInv' /\ HoldInv' /\ TokenInv' /\ CanceledInv'
<1>1. /\ pc' \in [Thread -> {"idle", "sem", "reacquire", "acquire", "holding", "token"}]
      /\ pc'[t] = "holding" /\ \A u \in Thread \ {t} : pc'[u] = pc[u]
  BY DEF Hold, TypeOK
<1>2. /\ got' \in [Thread -> [slot : Slot \cup {API}, checker : Checker \cup {NoChecker}]]
      /\ got'[t].slot = i /\ got'[t].checker = c /\ \A u \in Thread \ {t} : got'[u] = got[u]
  BY DEF Hold, TypeOK, AnySlot
<1>3. /\ heldBy' \in [Slot \cup {API} -> Tag \cup {None}]
      /\ heldBy'[i] = holdTag(call[t].req) /\ \A j \in AnySlot \ {i} : heldBy'[j] = heldBy[j]
      /\ heldBy'[i] # None
  BY Tags DEF Hold, TypeOK, AnySlot
<1>4. c # NoChecker
  BY Slots
<1>5. ASSUME NEW u \in Thread \ {t}, pc[u] = "holding" PROVE got[u].slot \in AnySlot \ {i}
  <2>1. got[u].slot \in AnySlot
    BY DEF TypeOK, AnySlot
  <2>2. heldBy[got[u].slot] # None
    BY <1>5, Tags DEF HoldInv
  <2> QED
    BY <2>1, <2>2
<1>6. CallInv'
  <2> SUFFICES ASSUME NEW u \in Thread
               PROVE  /\ call[u].life = "api" => call[u].req = None
                      /\ pc'[u] = "reacquire" => call[u].req # None
                      /\ pc'[u] = "holding" => (got'[u].slot = 0 <=> call[u].life = "diagnostics")
                                                  /\ (got'[u].slot = API <=> call[u].life = "api")
                      /\ pc'[u] # "holding" => got'[u].checker = NoChecker
    BY DEF CallInv
  <2>1. CASE u = t
    BY <1>1, <1>2, <2>1 DEF CallInv
  <2>2. CASE u # t
    BY <1>1, <1>2, <2>2 DEF CallInv
  <2> QED
    BY <2>1, <2>2
<1>7. HoldInv'
  <2>1. ASSUME NEW u \in Thread, pc'[u] = "holding"
        PROVE  /\ got'[u].checker = checkers'[got'[u].slot] /\ got'[u].checker # NoChecker
               /\ heldBy'[got'[u].slot] = holdTag(call[u].req)
    <3>1. CASE u = t
      BY <1>2, <1>3, <1>4, <3>1
    <3>2. CASE u # t
      <4>1. pc[u] = "holding" /\ got'[u] = got[u] /\ got[u].slot \in AnySlot \ {i}
        BY <1>1, <1>2, <1>5, <2>1, <3>2
      <4>2. heldBy'[got[u].slot] = heldBy[got[u].slot] /\ checkers'[got[u].slot] = checkers[got[u].slot]
        BY <1>3, <4>1
      <4> QED
        BY <4>1, <4>2 DEF HoldInv
    <3> QED
      BY <3>1, <3>2
  <2>2. ASSUME NEW j \in AnySlot, heldBy'[j] # None
        PROVE  \E u \in Thread : pc'[u] = "holding" /\ got'[u].slot = j
    <3>1. CASE j = i
      BY <1>1, <1>2, <3>1
    <3>2. CASE j # i
      <4>1. heldBy[j] # None
        BY <1>3, <2>2, <3>2
      <4>2. PICK u \in Thread : pc[u] = "holding" /\ got[u].slot = j
        BY <4>1 DEF HoldInv
      <4>3. u # t
        BY <4>2
      <4> QED
        BY <1>1, <1>2, <4>2, <4>3
    <3> QED
      BY <3>1, <3>2
  <2>3. ASSUME NEW u \in Thread, NEW v \in Thread, pc'[u] = "holding", pc'[v] = "holding", got'[u].slot = got'[v].slot
        PROVE  u = v
    BY <1>1, <1>2, <1>5, <2>3 DEF HoldInv
  <2> QED
    BY <2>1, <2>2, <2>3 DEF HoldInv, AnySlot, holdTag
<1>8. TokenInv'
  <2>1. \A l : HaveToken(l)' = HaveToken(l)
    BY <1>1 DEF HaveToken
  <2> QED
    BY <2>1 DEF TokenInv, cap
<1>9. CanceledInv'
  <2> SUFFICES ASSUME NEW x \in canceled PROVE \E u \in Thread : pc'[u] = "holding" /\ got'[u].checker = x
    BY DEF CanceledInv
  <2>1. PICK u \in Thread : pc[u] = "holding" /\ got[u].checker = x
    BY DEF CanceledInv
  <2>2. u # t
    BY <2>1
  <2> QED
    BY <1>1, <1>2, <2>1, <2>2
<1> QED
  BY <1>1, <1>2, <1>3, <1>6, <1>7, <1>8, <1>9

\* A slot that is not held is taken, with a new checker if it is empty.
LEMMA Takes ==
    ASSUME PoolInv, NEW t \in Thread, pc[t] = "acquire", NEW i \in AnySlot, heldBy[i] = None,
           Take(t, i), i = 0 <=> call[t].life = "diagnostics", i = API <=> call[t].life = "api",
           UNCHANGED <<call, calls, sem, lastReleased, timer, firing, discarded, canceled, done,
                       accumulated, changed, counted, taken, mix>>,
           fileAssociations' \in [File -> Query \cup {None}],
           \A f \in File : fileAssociations'[f] \in {fileAssociations[f], i}
    PROVE  PoolInv'
<1> USE DEF PoolInv
<1>1. /\ checkers' \in [Slot \cup {API} -> Checker \cup {NoChecker}]
      /\ checkers'[i] \in Checker /\ \A j \in AnySlot \ {i} : checkers'[j] = checkers[j]
      /\ checkers[i] # NoChecker => checkers' = checkers /\ found' = found
      /\ checkers[i] = NoChecker => \A j \in AnySlot \ {i} : checkers[j] # checkers'[i]
      /\ i # 0 => found' = found
      /\ checkers[i] = NoChecker /\ i = 0 => found' = {}
  <2>1. CASE checkers[i] # NoChecker
    <3>1. checkers' = checkers /\ found' = found
      BY <2>1 DEF Take, Filled
    <3> QED
      BY <2>1, <3>1 DEF TypeOK, AnySlot
  <2>2. CASE checkers[i] = NoChecker
    <3>1. checkers' = [checkers EXCEPT ![i] = NewChecker] /\ found' = IF i = 0 THEN {} ELSE found
      BY <2>2 DEF Take, Filled
    <3>2. NewChecker \in Checker /\ \A j \in AnySlot : checkers[j] # NewChecker
      BY <2>2, Fresh
    <3> HIDE DEF NewChecker
    <3> QED
      BY <2>2, <3>1, <3>2 DEF TypeOK, AnySlot
  <2> QED
    BY <2>1, <2>2
<1>2. Hold(t, i, checkers'[i])
  BY DEF Take
<1>3. /\ pc' \in [Thread -> {"idle", "sem", "reacquire", "acquire", "holding", "token"}]
      /\ got' \in [Thread -> [slot : Slot \cup {API}, checker : Checker \cup {NoChecker}]]
      /\ heldBy' \in [Slot \cup {API} -> Tag \cup {None}]
      /\ heldBy'[i] # None /\ \A j \in AnySlot \ {i} : heldBy'[j] = heldBy[j]
      /\ CallInv' /\ HoldInv' /\ TokenInv' /\ CanceledInv'
  <2>1. PICK c \in Checker : c = checkers'[i]
    BY <1>1
  <2>2. Hold(t, i, c)
    BY <1>2, <2>1
  <2> QED
    BY <1>1, <2>1, <2>2, Holds
<1>4. checkers'[i] # NoChecker /\ \A j \in AnySlot : checkers[j] # NoChecker => checkers'[j] # NoChecker
  BY <1>1, Slots
<1>5. /\ requestAssociations' \in [Request -> Slot \cup {None}] /\ cleanups' \in [Request -> Nat]
      /\ \A r \in Request : requestAssociations'[r] # None =>
            /\ requestAssociations'[r] \in {requestAssociations[r], i} /\ cleanups'[r] > 0
  <2> DEFINE r == call[t].req
  <2>1. CASE r # None /\ requestAssociations[r] = None
    <3>1. /\ requestAssociations' = [requestAssociations EXCEPT ![r] = i]
          /\ cleanups' = [cleanups EXCEPT ![r] = @ + 1]
      BY <2>1 DEF Take, Associate
    <3>2. r \in Request /\ call[t].life # "api"
      BY <2>1 DEF TypeOK, Call, CallInv
    <3>3. i \in Slot
      BY <3>2 DEF AnySlot
    <3> HIDE DEF r
    <3>4. requestAssociations' \in [Request -> Slot \cup {None}] /\ cleanups' \in [Request -> Nat]
      BY <3>1, <3>2, <3>3 DEF TypeOK
    <3>5. cleanups'[r] > 0 /\ requestAssociations'[r] = i
      BY <3>1, <3>2 DEF TypeOK
    <3>6. \A q \in Request \ {r} : requestAssociations'[q] = requestAssociations[q] /\ cleanups'[q] = cleanups[q]
      BY <3>1 DEF TypeOK
    <3> QED
      BY <3>4, <3>5, <3>6 DEF AssocInv
  <2>2. CASE ~(r # None /\ requestAssociations[r] = None)
    <3>1. requestAssociations' = requestAssociations /\ cleanups' = cleanups
      BY <2>2 DEF Take, Associate
    <3> QED
      BY <3>1 DEF TypeOK, AssocInv
  <2> QED
    BY <2>1, <2>2
<1>6. TypeOK'
  <2>1. found' \subseteq Diag
    BY <1>1 DEF TypeOK
  <2> QED
    BY <1>1, <1>3, <1>5, <2>1 DEF TypeOK
<1>7. IdentityInv'
  <2> SUFFICES ASSUME NEW j \in AnySlot, NEW k \in AnySlot, j # k, checkers'[j] # NoChecker
               PROVE  checkers'[j] # checkers'[k]
    BY DEF IdentityInv, AnySlot
  <2>1. CASE checkers[i] # NoChecker
    BY <1>1, <2>1 DEF IdentityInv
  <2>2. CASE checkers[i] = NoChecker
    <3>1. CASE j = i
      BY <1>1, <2>2, <3>1
    <3>2. CASE k = i
      BY <1>1, <2>2, <3>2
    <3>3. CASE j # i /\ k # i
      BY <1>1, <3>3 DEF IdentityInv
    <3> QED
      BY <3>1, <3>2, <3>3
  <2> QED
    BY <2>1, <2>2
<1>8. AssocInv'
  <2>1. ASSUME NEW f \in File, fileAssociations'[f] # None PROVE checkers'[fileAssociations'[f]] # NoChecker
    <3>1. CASE fileAssociations'[f] = i
      BY <1>4, <3>1
    <3>2. CASE fileAssociations'[f] = fileAssociations[f]
      <4>1. fileAssociations[f] \in AnySlot
        BY <2>1, <3>2, Slots DEF TypeOK
      <4> QED
        BY <1>4, <2>1, <3>2, <4>1 DEF AssocInv
    <3> QED
      BY <3>1, <3>2
  <2>2. ASSUME NEW r \in Request, requestAssociations'[r] # None
        PROVE  checkers'[requestAssociations'[r]] # NoChecker /\ cleanups'[r] > 0
    <3>1. cleanups'[r] > 0
      BY <1>5, <2>2
    <3>2. CASE requestAssociations'[r] = i
      BY <1>4, <3>1, <3>2
    <3>3. CASE requestAssociations'[r] = requestAssociations[r]
      <4>1. requestAssociations[r] \in AnySlot
        BY <2>2, <3>3, Slots DEF TypeOK
      <4> QED
        BY <1>4, <2>2, <3>1, <3>3, <4>1 DEF AssocInv
    <3> QED
      BY <1>5, <2>2, <3>2, <3>3
  <2> QED
    BY <2>1, <2>2 DEF AssocInv
<1>9. IdleInv'
  BY <1>1, <1>3, Slots DEF IdleInv
<1>10. DiagInv'
  <2>1. CASE i # 0
    BY <1>1, <1>3, <2>1, Slots DEF DiagInv
  <2>2. CASE i = 0 /\ checkers[i] # NoChecker
    BY <1>1, <1>3, <2>2 DEF DiagInv
  <2>3. CASE i = 0 /\ checkers[i] = NoChecker
    <3>1. found' = {} /\ counted[0] = 0 /\ checkers'[0] # NoChecker /\ heldBy'[0] # None
      BY <1>1, <1>3, <1>4, <2>3 DEF DiagInv
    <3>2. Cardinality({}) = 0
      BY FS_EmptySet
    <3> QED
      BY <3>1, <3>2 DEF DiagInv
  <2> QED
    BY <2>1, <2>2, <2>3
<1> QED
  BY <1>3, <1>6, <1>7, <1>8, <1>9, <1>10

LEMMA KeepsGetChecker ==
    ASSUME PoolInv, NEW t \in Thread, GetChecker(t)
    PROVE  PoolInv'
<1> USE DEF PoolInv
<1>1. /\ UNCHANGED <<got, sem, checkers, heldBy, lastReleased, fileAssociations,
                     requestAssociations, timer, firing, discarded, canceled,
                     done, cleanups, found, accumulated, changed, counted,
                     taken, mix>>
      /\ pc[t] = "idle" /\ pc' = [pc EXCEPT ![t] = "sem"]
      /\ calls < MaxCalls /\ calls' = calls + 1
      /\ \E c \in Call : (c.req = None \/ c.life # "api") /\ call' = [call EXCEPT ![t] = c]
  BY DEF GetChecker, threadVars, slotVars, timerVars, reqVars, diagVars
<1>2. PICK c \in Call : (c.req = None \/ c.life # "api") /\ call' = [call EXCEPT ![t] = c]
  BY <1>1
<1>3. call'[t] = c /\ (\A u \in Thread \ {t} : call'[u] = call[u]) /\ call' \in [Thread -> Call]
  BY <1>2 DEF TypeOK
<1>4. pc'[t] = "sem" /\ (\A u \in Thread \ {t} : pc'[u] = pc[u])
        /\ pc' \in [Thread -> {"idle", "sem", "reacquire", "acquire", "holding", "token"}]
  BY <1>1 DEF TypeOK
<1>a. TypeOK'
  <2>1. calls' \in 0 .. MaxCalls
    BY <1>1, PoolAssumption DEF TypeOK
  <2> QED
    BY <1>1, <1>3, <1>4, <2>1 DEF TypeOK
<1>b. CallInv'
  BY <1>1, <1>2, <1>3, <1>4 DEF CallInv
<1>c. HoldInv'
  <2>1. \A u \in Thread : (pc'[u] = "holding" <=> pc[u] = "holding") /\ (pc[u] = "holding" => call'[u] = call[u])
    BY <1>1, <1>3, <1>4
  <2> QED
    BY <1>1, <2>1 DEF HoldInv, AnySlot, holdTag
<1>d. TokenInv'
  <2>1. \A l : HaveToken(l)' = HaveToken(l)
    BY <1>1, <1>3, <1>4 DEF HaveToken
  <2> QED
    BY <1>1, <2>1 DEF TokenInv, cap
<1>e. IdentityInv'
  BY <1>1 DEF IdentityInv
<1>f. CanceledInv'
  BY <1>1, <1>4 DEF CanceledInv
<1>g. AssocInv'
  BY <1>1 DEF AssocInv
<1>h. IdleInv'
  BY <1>1 DEF IdleInv
<1>i. DiagInv'
  BY <1>1 DEF DiagInv
<1> QED
  BY <1>a, <1>b, <1>c, <1>d, <1>e, <1>f, <1>g, <1>h, <1>i

LEMMA KeepsToken ==
    ASSUME PoolInv, NEW t \in Thread, Token(t)
    PROVE  PoolInv'
<1> USE DEF PoolInv
<1>1. /\ UNCHANGED <<call, got, calls, checkers, heldBy, lastReleased,
                     fileAssociations, requestAssociations, timer, firing,
                     discarded, canceled, done, cleanups, found, accumulated,
                     changed, counted, taken, mix>>
      /\ pc[t] = "sem" /\ pc' = [pc EXCEPT ![t] = IF call[t].req = None THEN "acquire" ELSE "reacquire"]
      /\ sem[call[t].life] < cap(call[t].life) /\ sem' = [sem EXCEPT ![call[t].life] = @ + 1]
  BY DEF Token, threadVars, slotVars, timerVars, reqVars, diagVars
<1> DEFINE k == call[t].life
<1>2. k \in Lifetime
  BY DEF TypeOK, Call
<1>3. /\ pc'[t] = (IF call[t].req = None THEN "acquire" ELSE "reacquire") /\ (\A u \in Thread \ {t} : pc'[u] = pc[u])
      /\ pc' \in [Thread -> {"idle", "sem", "reacquire", "acquire", "holding", "token"}]
  BY <1>1 DEF TypeOK
<1>4. sem' \in [Lifetime -> Nat] /\ sem'[k] = sem[k] + 1 /\ (\A l \in Lifetime \ {k} : sem'[l] = sem[l]) /\ sem[k] \in Nat
  BY <1>1, <1>2 DEF TypeOK
<1>a. TypeOK'
  BY <1>1, <1>3, <1>4 DEF TypeOK
<1>b. CallInv'
  BY <1>1, <1>3 DEF CallInv
<1>c. HoldInv'
  <2>1. \A u \in Thread : pc'[u] = "holding" <=> pc[u] = "holding"
    BY <1>1, <1>3
  <2> QED
    BY <1>1, <2>1 DEF HoldInv, AnySlot, holdTag
<1>d. TokenInv'
  <2>1. \A l \in Lifetime \ {k} : HaveToken(l)' = HaveToken(l)
    BY <1>1, <1>3 DEF HaveToken
  <2>2. HaveToken(k)' = HaveToken(k) \cup {t} /\ t \notin HaveToken(k)
    BY <1>1, <1>3 DEF HaveToken
  <2>3. Cardinality(HaveToken(k) \cup {t}) = Cardinality(HaveToken(k)) + 1
    BY <2>2, Tokens, FS_AddElement
  <2>4. sem'[k] = Cardinality(HaveToken(k) \cup {t}) /\ sem'[k] <= cap(k)
    <3>1. sem[k] = Cardinality(HaveToken(k)) /\ cap(k) \in Int
      BY <1>2, PoolAssumption DEF TokenInv, cap
    <3> QED
      BY <1>1, <1>4, <2>3, <3>1
  <2>5. ASSUME NEW l \in Lifetime PROVE sem'[l] = Cardinality(HaveToken(l))' /\ sem'[l] <= cap(l)
    <3>1. CASE l = k
      BY <1>1, <2>2, <2>4, <3>1
    <3>2. CASE l # k
      BY <1>4, <2>1, <3>2 DEF TokenInv
    <3> QED
      BY <3>1, <3>2
  <2> QED
    BY <2>5 DEF TokenInv, cap
<1>e. IdentityInv'
  BY <1>1 DEF IdentityInv
<1>f. CanceledInv'
  BY <1>1, <1>3 DEF CanceledInv
<1>g. AssocInv'
  BY <1>1 DEF AssocInv
<1>h. IdleInv'
  BY <1>1 DEF IdleInv
<1>i. DiagInv'
  BY <1>1 DEF DiagInv
<1> QED
  BY <1>a, <1>b, <1>c, <1>d, <1>e, <1>f, <1>g, <1>h, <1>i

LEMMA KeepsTryReacquire ==
    ASSUME PoolInv, NEW t \in Thread, tryReacquireForRequest(t)
    PROVE  PoolInv'
<1> USE DEF PoolInv
<1> DEFINE r == call[t].req
           i == requestAssociations[r]
           fits == i # None /\ (call[t].life = "diagnostics") = (i = 0) /\ checkers[i] # NoChecker
<1>1. /\ UNCHANGED <<call, calls, sem, checkers, lastReleased, fileAssociations, timer, firing,
                     discarded, canceled, done, cleanups, found, accumulated, changed, counted,
                     taken, mix>>
      /\ pc[t] = "reacquire"
      /\ requestAssociations' \in {requestAssociations, [requestAssociations EXCEPT ![r] = None]}
      /\ \/ fits /\ Reusable(i) /\ Hold(t, i, checkers[i])
         \/ pc' = [pc EXCEPT ![t] = "acquire"] /\ got' = got /\ heldBy' = heldBy
  BY DEF tryReacquireForRequest, timerVars, reqVars, diagVars
<1>2. r \in Request /\ call[t].life # "api"
  BY <1>1 DEF CallInv, TypeOK, Call
<1>3. /\ requestAssociations' \in [Request -> Slot \cup {None}]
      /\ \A q \in Request : requestAssociations'[q] \in {requestAssociations[q], None}
  <2> HIDE DEF r
  <2> QED
    BY <1>1, <1>2 DEF TypeOK
<1>a. IdentityInv'
  BY <1>1 DEF IdentityInv
<1>b. AssocInv'
  BY <1>1, <1>3 DEF AssocInv
<1>4. CASE fits /\ Reusable(i) /\ Hold(t, i, checkers[i])
  <2>1. i \in Slot /\ i \in AnySlot /\ heldBy[i] = None /\ checkers[i] # NoChecker
          /\ (i = 0 <=> call[t].life = "diagnostics")
    BY <1>2, <1>4, Slots DEF TypeOK, Reusable
  <2>2. i = API <=> call[t].life = "api"
    BY <1>2, <2>1, Slots
  <2>3. PICK k \in AnySlot : k = i
    BY <2>1
  <2>4. PICK c \in Checker : c = checkers[i]
    BY <2>1 DEF TypeOK
  <2> HIDE DEF i
  <2>5. /\ pc' \in [Thread -> {"idle", "sem", "reacquire", "acquire", "holding", "token"}]
        /\ got' \in [Thread -> [slot : Slot \cup {API}, checker : Checker \cup {NoChecker}]]
        /\ heldBy' \in [Slot \cup {API} -> Tag \cup {None}]
        /\ heldBy'[k] # None /\ \A j \in AnySlot \ {k} : heldBy'[j] = heldBy[j]
        /\ CallInv' /\ HoldInv' /\ TokenInv' /\ CanceledInv'
    <3>1. Hold(t, k, c) /\ heldBy[k] = None /\ checkers'[k] = c /\ checkers' = checkers
      BY <1>1, <1>4, <2>1, <2>3, <2>4
    <3> QED
      BY <1>1, <2>1, <2>2, <2>3, <3>1, Holds
  <2>6. TypeOK'
    BY <1>1, <1>3, <2>5 DEF TypeOK
  <2>7. IdleInv'
    BY <1>1, <2>5, Slots DEF IdleInv
  <2>8. DiagInv'
    <3>1. heldBy'[0] = None => heldBy[0] = None
      BY <2>5, Slots, <2>1, <2>3
    <3> QED
      BY <1>1, <3>1 DEF DiagInv
  <2> QED
    BY <1>a, <1>b, <2>5, <2>6, <2>7, <2>8
<1>5. CASE pc' = [pc EXCEPT ![t] = "acquire"] /\ got' = got /\ heldBy' = heldBy
  <2>1. /\ pc'[t] = "acquire" /\ (\A u \in Thread \ {t} : pc'[u] = pc[u])
        /\ pc' \in [Thread -> {"idle", "sem", "reacquire", "acquire", "holding", "token"}]
    BY <1>5 DEF TypeOK
  <2>2. TypeOK'
    BY <1>1, <1>3, <1>5, <2>1 DEF TypeOK
  <2>3. CallInv'
    BY <1>1, <1>5, <2>1 DEF CallInv
  <2>4. \A u \in Thread : pc'[u] = "holding" <=> pc[u] = "holding"
    BY <1>1, <2>1
  <2>5. HoldInv' /\ CanceledInv'
    BY <1>1, <1>5, <2>4 DEF HoldInv, AnySlot, holdTag, CanceledInv
  <2>6. TokenInv'
    <3>1. \A l : HaveToken(l)' = HaveToken(l)
      BY <1>1, <2>1 DEF HaveToken
    <3> QED
      BY <1>1, <3>1 DEF TokenInv, cap
  <2>7. IdleInv' /\ DiagInv'
    BY <1>1, <1>5 DEF IdleInv, DiagInv
  <2> QED
    BY <1>a, <1>b, <2>2, <2>3, <2>5, <2>6, <2>7
<1> QED
  BY <1>1, <1>4, <1>5

LEMMA KeepsAcquireOnly ==
    ASSUME PoolInv, NEW t \in Thread, AcquireOnly(t)
    PROVE  PoolInv'
<1> DEFINE i == IF call[t].life = "api" THEN API ELSE 0
<1>1. /\ UNCHANGED <<call, calls, sem, lastReleased, fileAssociations, timer, firing, discarded, canceled, done,
                     accumulated, changed, counted, taken, mix>>
      /\ pc[t] = "acquire" /\ call[t].life # "query" /\ Take(t, i)
  BY DEF AcquireOnly, timerVars, diagVars
<1>2. call[t].life \in {"diagnostics", "api"}
  BY <1>1 DEF PoolInv, TypeOK, Call, Lifetime
<1>3. heldBy[i] = None
  BY <1>1, <1>2, OnlyOne
<1>4. i \in AnySlot /\ (i = 0 <=> call[t].life = "diagnostics") /\ (i = API <=> call[t].life = "api")
  BY <1>2, Slots
<1>5. PICK k \in AnySlot : k = i
  BY <1>4
<1>6. fileAssociations' \in [File -> Query \cup {None}] /\ \A f \in File : fileAssociations'[f] \in {fileAssociations[f], k}
  BY <1>1 DEF PoolInv, TypeOK
<1> HIDE DEF i
<1>7. Take(t, k) /\ heldBy[k] = None
  BY <1>1, <1>3, <1>5
<1> QED
  BY <1>1, <1>4, <1>5, <1>6, <1>7, Takes

LEMMA KeepsAcquireQuery ==
    ASSUME PoolInv, NEW t \in Thread, AcquireQuery(t)
    PROVE  PoolInv'
<1> DEFINE f == call[t].file
           a == IF f = None THEN None ELSE fileAssociations[f]
           o == findOrCreateQueryChecker
<1>1. /\ UNCHANGED <<call, calls, sem, lastReleased, timer, firing, discarded, canceled, done,
                     accumulated, changed, counted, taken, mix>>
      /\ pc[t] = "acquire" /\ call[t].life = "query"
      /\ \/ /\ a # None /\ checkers[a] # NoChecker /\ heldBy[a] = None
            /\ Take(t, a) /\ fileAssociations' = fileAssociations
         \/ /\ Available # {} /\ Take(t, o)
            /\ fileAssociations' = IF f = None THEN fileAssociations ELSE [fileAssociations EXCEPT ![f] = o]
  BY DEF AcquireQuery, timerVars, diagVars
<1>2. f \in File \cup {None}
  BY DEF PoolInv, TypeOK, Call
<1>3. ASSUME NEW i \in Query, heldBy[i] = None, Take(t, i),
             fileAssociations' \in {fileAssociations, [fileAssociations EXCEPT ![f] = i]}
      PROVE  PoolInv'
  <2>1. i \in AnySlot /\ i # 0 /\ i # API
    BY Slots DEF Query
  <2>2. fileAssociations' \in [File -> Query \cup {None}] /\ \A g \in File : fileAssociations'[g] \in {fileAssociations[g], i}
    <3> HIDE DEF f
    <3> QED
      BY <1>2, <1>3 DEF PoolInv, TypeOK
  <2>3. i = 0 <=> call[t].life = "diagnostics"
    BY <1>1, <2>1
  <2>4. i = API <=> call[t].life = "api"
    BY <1>1, <2>1
  <2> QED
    BY <1>1, <1>3, <2>1, <2>2, <2>3, <2>4, Takes
<1>4. CASE a # None /\ checkers[a] # NoChecker /\ heldBy[a] = None /\ Take(t, a) /\ fileAssociations' = fileAssociations
  <2>1. a \in Query
    BY <1>2, <1>4 DEF PoolInv, TypeOK
  <2> QED
    BY <1>3, <1>4, <2>1
<1>5. CASE Available # {} /\ Take(t, o)
              /\ fileAssociations' = IF f = None THEN fileAssociations ELSE [fileAssociations EXCEPT ![f] = o]
  <2>1. Available \subseteq Query /\ \A i \in Available : heldBy[i] = None
    <3>1. ASSUME NEW i \in Available, heldBy[i] # None PROVE FALSE
      <4>1. i \in AnySlot /\ checkers[i] = NoChecker
        BY <3>1, Slots DEF Available, Query
      <4> QED
        BY <3>1, <4>1 DEF PoolInv, HoldInv
    <3> QED
      BY <3>1 DEF Available
  <2>2. o \in Available
    <3> DEFINE idle == {i \in Available : checkers[i] # NoChecker}
    <3>1. Available \subseteq Nat /\ idle \subseteq Nat
      BY <2>1, Slots
    <3>2. CASE idle # {}
      <4>1. o = Min(idle)
        BY <3>2 DEF findOrCreateQueryChecker
      <4>2. Min(idle) \in idle
        <5> HIDE DEF idle
        <5> QED
          BY <3>1, <3>2, MinIn
      <4> QED
        BY <4>1, <4>2
    <3>3. CASE idle = {}
      <4>1. o = Min(Available)
        BY <3>3 DEF findOrCreateQueryChecker
      <4> QED
        BY <1>5, <3>1, <4>1, MinIn
    <3> QED
      BY <3>2, <3>3
  <2> HIDE DEF o
  <2> QED
    BY <1>3, <1>5, <2>1, <2>2
<1> QED
  BY <1>1, <1>4, <1>5

-----------------------------------------------------------------------------
(* Using it, and giving it back.                                           *)

LEMMA KeepsCancel ==
    ASSUME PoolInv, NEW t \in Thread, Cancel(t)
    PROVE  PoolInv'
<1> USE DEF PoolInv
<1>1. /\ UNCHANGED <<pc, call, got, calls, sem, checkers, heldBy, lastReleased,
                     fileAssociations, requestAssociations, timer, firing,
                     discarded, done, cleanups, found, accumulated, changed,
                     counted, taken, mix>>
      /\ pc[t] = "holding" /\ canceled' = canceled \cup {got[t].checker}
  BY DEF Cancel, threadVars, slotVars, timerVars, reqVars, diagVars
<1>2. got[t].checker \in Checker
  BY <1>1 DEF TypeOK, HoldInv
<1>a. TypeOK'
  BY <1>1, <1>2 DEF TypeOK
<1>b. CallInv'
  BY <1>1 DEF CallInv
<1>c. HoldInv'
  BY <1>1 DEF HoldInv
<1>d. TokenInv'
  BY <1>1 DEF TokenInv, HaveToken
<1>e. IdentityInv'
  BY <1>1 DEF IdentityInv
<1>f. CanceledInv'
  BY <1>1 DEF CanceledInv
<1>g. AssocInv'
  BY <1>1 DEF AssocInv
<1>h. IdleInv'
  BY <1>1 DEF IdleInv
<1>i. DiagInv'
  BY <1>1 DEF DiagInv
<1> QED
  BY <1>a, <1>b, <1>c, <1>d, <1>e, <1>f, <1>g, <1>h, <1>i

LEMMA KeepsCheck ==
    ASSUME PoolInv, NEW t \in Thread, Check(t)
    PROVE  PoolInv'
<1> USE DEF PoolInv
<1>1. /\ UNCHANGED <<pc, call, got, calls, sem, checkers, heldBy, lastReleased,
                     fileAssociations, requestAssociations, timer, firing,
                     discarded, canceled, done, cleanups, accumulated,
                     changed, counted, taken, mix>>
      /\ pc[t] = "holding" /\ got[t].slot = 0
      /\ \E d \in mix.diags \ found : found' = found \cup {d}
  BY DEF Check, HoldInv, threadVars, slotVars, timerVars, reqVars, diagVars
<1>2. PICK d \in Diag : found' = found \cup {d}
  <2>1. mix.diags \subseteq Diag
    BY PoolAssumption DEF TypeOK
  <2> QED
    BY <1>1, <2>1
<1>a. TypeOK'
  BY <1>1, <1>2 DEF TypeOK
<1>b. CallInv'
  BY <1>1 DEF CallInv
<1>c. HoldInv'
  BY <1>1 DEF HoldInv
<1>d. TokenInv'
  BY <1>1 DEF TokenInv, HaveToken
<1>e. IdentityInv'
  BY <1>1 DEF IdentityInv
<1>f. CanceledInv'
  BY <1>1 DEF CanceledInv
<1>g. AssocInv'
  BY <1>1 DEF AssocInv
<1>h. IdleInv'
  BY <1>1 DEF IdleInv
<1>i. DiagInv'
  <2>1. heldBy[0] # None
    BY <1>1, Tags DEF HoldInv
  <2>2. checkers[0] # NoChecker => \E S \in SUBSET Diag :
            S \subseteq found' /\ S \subseteq accumulated /\ counted[0] = Cardinality(S)
    BY <1>2 DEF DiagInv
  <2> QED
    BY <1>1, <2>1, <2>2 DEF DiagInv
<1> QED
  BY <1>a, <1>b, <1>c, <1>d, <1>e, <1>f, <1>g, <1>h, <1>i


\* A holder gives its checker back: what it knows of the others is as it was.
LEMMA Releases ==
    ASSUME TypeOK, CallInv, HoldInv, TokenInv, CanceledInv, NEW t \in Thread, pc[t] = "holding",
           NEW i \in AnySlot, i = got[t].slot,
           pc' = [pc EXCEPT ![t] = "token"], got' = [got EXCEPT ![t].checker = NoChecker],
           heldBy'[i] = None, \A j \in AnySlot \ {i} : heldBy'[j] = heldBy[j] /\ checkers'[j] = checkers[j],
           call' = call, sem' = sem, canceled' \subseteq canceled, got[t].checker \notin canceled'
    PROVE  /\ pc' \in [Thread -> {"idle", "sem", "reacquire", "acquire", "holding", "token"}]
           /\ got' \in [Thread -> [slot : Slot \cup {API}, checker : Checker \cup {NoChecker}]]
           /\ CallInv' /\ HoldInv' /\ TokenInv' /\ CanceledInv'
<1>1. /\ pc' \in [Thread -> {"idle", "sem", "reacquire", "acquire", "holding", "token"}]
      /\ pc'[t] = "token" /\ \A u \in Thread \ {t} : pc'[u] = pc[u]
  BY DEF TypeOK
<1>2. /\ got' \in [Thread -> [slot : Slot \cup {API}, checker : Checker \cup {NoChecker}]]
      /\ got'[t].checker = NoChecker /\ \A u \in Thread \ {t} : got'[u] = got[u]
  BY DEF TypeOK
<1>3. CallInv'
  BY <1>1, <1>2 DEF CallInv
<1>4. ASSUME NEW u \in Thread \ {t}, pc[u] = "holding" PROVE got[u].slot \in AnySlot \ {i}
  BY <1>4 DEF HoldInv, TypeOK, AnySlot
<1>5. HoldInv'
  <2>1. ASSUME NEW u \in Thread, pc'[u] = "holding"
        PROVE  /\ got'[u].checker = checkers'[got'[u].slot] /\ got'[u].checker # NoChecker
               /\ heldBy'[got'[u].slot] = holdTag(call[u].req)
    <3>1. u # t /\ pc[u] = "holding" /\ got'[u] = got[u] /\ got[u].slot \in AnySlot \ {i}
      BY <1>1, <1>2, <1>4, <2>1
    <3>2. heldBy'[got[u].slot] = heldBy[got[u].slot] /\ checkers'[got[u].slot] = checkers[got[u].slot]
      BY <3>1
    <3> QED
      BY <3>1, <3>2 DEF HoldInv
  <2>2. ASSUME NEW j \in AnySlot, heldBy'[j] # None
        PROVE  \E u \in Thread : pc'[u] = "holding" /\ got'[u].slot = j
    <3>1. j # i /\ heldBy[j] # None
      BY <2>2
    <3>2. PICK u \in Thread : pc[u] = "holding" /\ got[u].slot = j
      BY <3>1 DEF HoldInv
    <3> QED
      BY <1>1, <1>2, <3>1, <3>2
  <2>3. ASSUME NEW u \in Thread, NEW v \in Thread, pc'[u] = "holding", pc'[v] = "holding", got'[u].slot = got'[v].slot
        PROVE  u = v
    BY <1>1, <1>2, <2>3 DEF HoldInv
  <2> QED
    BY <2>1, <2>2, <2>3 DEF HoldInv, AnySlot, holdTag
<1>6. TokenInv'
  <2>1. \A l : HaveToken(l)' = HaveToken(l)
    BY <1>1 DEF HaveToken
  <2> QED
    BY <2>1 DEF TokenInv, cap
<1>7. CanceledInv'
  <2> SUFFICES ASSUME NEW x \in canceled' PROVE \E u \in Thread : pc'[u] = "holding" /\ got'[u].checker = x
    BY DEF CanceledInv
  <2>1. PICK u \in Thread : pc[u] = "holding" /\ got[u].checker = x
    BY DEF CanceledInv
  <2>2. u # t
    BY <2>1
  <2> QED
    BY <1>1, <1>2, <2>1, <2>2
<1> QED
  BY <1>1, <1>2, <1>3, <1>5, <1>6, <1>7

\* disposeCheckerLocked leaves nothing of the slots it empties.
LEMMA Disposes ==
    ASSUME TypeOK, IdentityInv, AssocInv, NEW I \in SUBSET Slot, disposeChecker(I), cleanups' = cleanups
    PROVE  /\ checkers' \in [Slot \cup {API} -> Checker \cup {NoChecker}]
           /\ heldBy' \in [Slot \cup {API} -> Tag \cup {None}]
           /\ lastReleased' \in [Slot -> {"zero", "recent", "expired"}]
           /\ counted' \in [Slot -> Nat]
           /\ fileAssociations' \in [File -> Query \cup {None}]
           /\ requestAssociations' \in [Request -> Slot \cup {None}]
           /\ \A i \in I : checkers'[i] = NoChecker /\ heldBy'[i] = None /\ counted'[i] = 0
           /\ \A i \in AnySlot \ I : checkers'[i] = checkers[i] /\ heldBy'[i] = heldBy[i]
           /\ \A i \in Slot \ I : lastReleased'[i] = lastReleased[i] /\ counted'[i] = counted[i]
           /\ IdentityInv' /\ AssocInv'
<1>1. /\ checkers' = [i \in Slot \cup {API} |-> IF i \in I THEN NoChecker ELSE checkers[i]]
      /\ heldBy' = [i \in Slot \cup {API} |-> IF i \in I THEN None ELSE heldBy[i]]
      /\ lastReleased' = [i \in Slot |-> IF i \in I THEN "zero" ELSE lastReleased[i]]
      /\ counted' = [i \in Slot |-> IF i \in I THEN 0 ELSE counted[i]]
      /\ fileAssociations' = [f \in File |-> IF fileAssociations[f] \in I THEN None ELSE fileAssociations[f]]
      /\ requestAssociations' = [r \in Request |->
            IF requestAssociations[r] \in I THEN None ELSE requestAssociations[r]]
  BY DEF disposeChecker, NoCount, Dissociate
<1>2. /\ checkers' \in [Slot \cup {API} -> Checker \cup {NoChecker}]
      /\ heldBy' \in [Slot \cup {API} -> Tag \cup {None}]
  BY <1>1 DEF TypeOK
<1>3. /\ lastReleased' \in [Slot -> {"zero", "recent", "expired"}] /\ counted' \in [Slot -> Nat]
  BY <1>1 DEF TypeOK
<1>4. /\ fileAssociations' \in [File -> Query \cup {None}]
      /\ requestAssociations' \in [Request -> Slot \cup {None}]
  BY <1>1 DEF TypeOK
<1>5. /\ \A i \in I : checkers'[i] = NoChecker /\ heldBy'[i] = None /\ counted'[i] = 0
      /\ \A i \in AnySlot \ I : checkers'[i] = checkers[i] /\ heldBy'[i] = heldBy[i]
      /\ \A i \in Slot \ I : lastReleased'[i] = lastReleased[i] /\ counted'[i] = counted[i]
  BY <1>1 DEF AnySlot
<1>6. IdentityInv'
  <2> SUFFICES ASSUME NEW j \in AnySlot, NEW k \in AnySlot, j # k, checkers'[j] # NoChecker
               PROVE  checkers'[j] # checkers'[k]
    BY DEF IdentityInv, AnySlot
  <2>1. j \notin I /\ checkers'[j] = checkers[j]
    BY <1>5
  <2> QED
    BY <1>5, <2>1 DEF IdentityInv
<1>7. AssocInv'
  <2>1. ASSUME NEW f \in File, fileAssociations'[f] # None PROVE checkers'[fileAssociations'[f]] # NoChecker
    <3>1. fileAssociations'[f] = fileAssociations[f] /\ fileAssociations[f] \notin I
      BY <1>1, <2>1
    <3>2. fileAssociations[f] \in AnySlot \ I
      BY <2>1, <3>1, Slots DEF TypeOK
    <3> QED
      BY <1>5, <2>1, <3>1, <3>2 DEF AssocInv
  <2>2. ASSUME NEW r \in Request, requestAssociations'[r] # None
        PROVE  checkers'[requestAssociations'[r]] # NoChecker /\ cleanups'[r] > 0
    <3>1. requestAssociations'[r] = requestAssociations[r] /\ requestAssociations[r] \notin I
      BY <1>1, <2>2
    <3>2. requestAssociations[r] \in AnySlot \ I
      BY <2>2, <3>1, Slots DEF TypeOK
    <3> QED
      BY <1>5, <2>2, <3>1, <3>2 DEF AssocInv
  <2> QED
    BY <2>1, <2>2 DEF AssocInv
<1> QED
  BY <1>2, <1>3, <1>4, <1>5, <1>6, <1>7


\* What is merged: all that the checker has found, and announced if it is new.
LEMMA Merges ==
    ASSUME TypeOK, DiagInv, checkers[0] # NoChecker, mergeGlobalDiagnostics, taken' = taken, found' = found
    PROVE  /\ accumulated' \subseteq Diag /\ changed' \in BOOLEAN /\ counted' \in [Slot -> Nat]
           /\ found \subseteq accumulated'
           /\ \E S \in SUBSET Diag : S \subseteq found /\ S \subseteq accumulated' /\ counted'[0] = Cardinality(S)
           /\ accumulated' # taken' => changed'
<1>1. IsFiniteSet(found) /\ IsFiniteSet(accumulated) /\ Cardinality(found) \in Nat /\ Cardinality(accumulated) \in Nat
  <2>1. IsFiniteSet(found) /\ IsFiniteSet(accumulated)
    BY PoolAssumption, FS_Subset DEF TypeOK
  <2> QED
    BY <2>1, FS_CardinalityType
<1>2. CASE Cardinality(found) = counted[0]
  <2>1. accumulated' = accumulated /\ changed' = changed /\ counted' = counted
    BY <1>2 DEF mergeGlobalDiagnostics
  <2>2. PICK S \in SUBSET Diag : S \subseteq found /\ S \subseteq accumulated /\ counted[0] = Cardinality(S)
    BY DEF DiagInv
  <2>3. S = found
    BY <1>1, <1>2, <2>2, FS_Subset
  <2> QED
    BY <2>1, <2>2, <2>3 DEF TypeOK, DiagInv
<1>3. CASE Cardinality(found) # counted[0]
  <2>1. /\ counted' = [counted EXCEPT ![0] = Cardinality(found)] /\ accumulated' = accumulated \cup found
        /\ changed' = (changed \/ Cardinality(accumulated') # Cardinality(accumulated))
    BY <1>3 DEF mergeGlobalDiagnostics
  <2>2. counted' \in [Slot -> Nat] /\ counted'[0] = Cardinality(found)
    BY <1>1, <2>1, Slots DEF TypeOK
  <2>3. accumulated' \subseteq Diag /\ found \subseteq accumulated' /\ accumulated \subseteq accumulated'
    BY <2>1 DEF TypeOK
  <2>4. changed' \in BOOLEAN
    BY <2>1
  <2>5. accumulated' # taken' => changed'
    <3>1. CASE accumulated # taken
      BY <2>1, <3>1 DEF DiagInv
    <3>2. CASE accumulated = taken /\ accumulated' # taken
      <4>1. IsFiniteSet(accumulated')
        BY <2>3, PoolAssumption, FS_Subset
      <4>2. accumulated' # accumulated
        BY <3>2
      <4>3. Cardinality(accumulated') # Cardinality(accumulated)
        BY <2>3, <4>1, <4>2, FS_Subset
      <4> QED
        BY <2>1, <4>3
    <3> QED
      BY <3>1, <3>2
  <2>6. found \in SUBSET Diag
    BY DEF TypeOK
  <2> QED
    BY <2>2, <2>3, <2>4, <2>5, <2>6
<1> QED
  BY <1>2, <1>3

LEMMA KeepsRelease ==
    ASSUME PoolInv, NEW t \in Thread, Release(t)
    PROVE  PoolInv'
<1> USE DEF PoolInv
<1>1. PICK i \in Slot : i = got[t].slot
  BY DEF Release
<1>2. PICK c : c = got[t].checker
  OBVIOUS
<1>3. /\ UNCHANGED <<call, calls, sem, firing, discarded, done, cleanups, found, taken, mix>>
      /\ pc[t] = "holding" /\ pc' = [pc EXCEPT ![t] = "token"]
      /\ got' = [got EXCEPT ![t].checker = NoChecker]
  BY DEF Release, reqVars
<1>4. i \in AnySlot /\ checkers[i] = c /\ c # NoChecker /\ heldBy[i] # None
  BY <1>1, <1>2, <1>3, Slots, Tags DEF HoldInv
<1>5. CASE c \in canceled
  <2>1. disposeChecker({i}) /\ canceled' = canceled \ {c} /\ timer' = timer /\ accumulated' = accumulated
          /\ changed' = changed
    BY <1>1, <1>2, <1>5 DEF Release
  <2>2. /\ checkers' \in [Slot \cup {API} -> Checker \cup {NoChecker}]
        /\ heldBy' \in [Slot \cup {API} -> Tag \cup {None}]
        /\ lastReleased' \in [Slot -> {"zero", "recent", "expired"}]
        /\ counted' \in [Slot -> Nat]
        /\ fileAssociations' \in [File -> Query \cup {None}]
        /\ requestAssociations' \in [Request -> Slot \cup {None}]
        /\ checkers'[i] = NoChecker /\ heldBy'[i] = None /\ counted'[i] = 0
        /\ \A j \in AnySlot \ {i} : checkers'[j] = checkers[j] /\ heldBy'[j] = heldBy[j]
        /\ \A j \in Slot \ {i} : lastReleased'[j] = lastReleased[j] /\ counted'[j] = counted[j]
        /\ IdentityInv' /\ AssocInv'
    <3>1. {i} \in SUBSET Slot /\ i \in {i}
      OBVIOUS
    <3> QED
      BY <1>3, <2>1, <3>1, Disposes
  <2>3. canceled' \subseteq canceled /\ got[t].checker \notin canceled'
    BY <1>2, <2>1
  <2>4. /\ pc' \in [Thread -> {"idle", "sem", "reacquire", "acquire", "holding", "token"}]
        /\ got' \in [Thread -> [slot : Slot \cup {API}, checker : Checker \cup {NoChecker}]]
        /\ CallInv' /\ HoldInv' /\ TokenInv' /\ CanceledInv'
    BY <1>1, <1>3, <1>4, <2>2, <2>3, Releases
  <2>5. TypeOK'
    BY <1>3, <2>1, <2>2, <2>3, <2>4 DEF TypeOK
  <2>6. IdleInv'
    BY <1>3, <2>1, <2>2, Slots DEF IdleInv
  <2>7. DiagInv'
    <3>1. CASE i = 0
      BY <1>3, <2>1, <2>2, <3>1 DEF DiagInv
    <3>2. CASE i # 0
      <4>1. checkers'[0] = checkers[0] /\ heldBy'[0] = heldBy[0] /\ counted'[0] = counted[0]
        BY <2>2, <3>2, Slots
      <4> QED
        BY <1>3, <2>1, <4>1 DEF DiagInv
    <3> QED
      BY <3>1, <3>2
  <2> QED
    BY <2>2, <2>4, <2>5, <2>6, <2>7
<1>6. CASE c \notin canceled
  <2>1. /\ heldBy' = [heldBy EXCEPT ![i] = None] /\ lastReleased' = [lastReleased EXCEPT ![i] = "recent"]
        /\ checkers' = checkers /\ fileAssociations' = fileAssociations
        /\ requestAssociations' = requestAssociations /\ canceled' = canceled
        /\ \/ i = 0 /\ mergeGlobalDiagnostics
           \/ i # 0 /\ accumulated' = accumulated /\ changed' = changed /\ counted' = counted
        /\ \/ discarded /\ timer' = timer
           \/ scheduleCleanup
    BY <1>1, <1>2, <1>6 DEF Release
  <2>2. /\ heldBy' \in [Slot \cup {API} -> Tag \cup {None}] /\ heldBy'[i] = None
        /\ \A j \in AnySlot \ {i} : heldBy'[j] = heldBy[j]
    BY <1>4, <2>1 DEF TypeOK, AnySlot
  <2>3. /\ lastReleased' \in [Slot -> {"zero", "recent", "expired"}] /\ lastReleased'[i] = "recent"
        /\ \A j \in Slot \ {i} : lastReleased'[j] = lastReleased[j]
    BY <2>1 DEF TypeOK
  <2>4. /\ pc' \in [Thread -> {"idle", "sem", "reacquire", "acquire", "holding", "token"}]
        /\ got' \in [Thread -> [slot : Slot \cup {API}, checker : Checker \cup {NoChecker}]]
        /\ CallInv' /\ HoldInv' /\ TokenInv' /\ CanceledInv'
    BY <1>1, <1>2, <1>3, <1>4, <1>6, <2>1, <2>2, Releases, ZenonT(60)
  <2>5. /\ accumulated' \subseteq Diag /\ changed' \in BOOLEAN /\ counted' \in [Slot -> Nat] /\ DiagInv'
    <3>1. CASE i = 0 /\ mergeGlobalDiagnostics
      <4>1. /\ accumulated' \subseteq Diag /\ changed' \in BOOLEAN /\ counted' \in [Slot -> Nat]
            /\ found \subseteq accumulated'
            /\ \E S \in SUBSET Diag : S \subseteq found /\ S \subseteq accumulated' /\ counted'[0] = Cardinality(S)
            /\ accumulated' # taken' => changed'
        BY <1>3, <1>4, <3>1, Merges
      <4> QED
        BY <1>3, <1>4, <2>1, <3>1, <4>1 DEF DiagInv
    <3>2. CASE i # 0 /\ accumulated' = accumulated /\ changed' = changed /\ counted' = counted
      <4>1. heldBy'[0] = heldBy[0]
        BY <2>2, <3>2, Slots
      <4> QED
        BY <1>3, <2>1, <3>2, <4>1 DEF DiagInv, TypeOK
    <3> QED
      BY <2>1, <3>1, <3>2
  <2>6. timer' \in {"nil", "armed", "spent"}
    BY <2>1 DEF scheduleCleanup, TypeOK
  <2>7. TypeOK'
    BY <1>3, <2>1, <2>2, <2>3, <2>4, <2>5, <2>6 DEF TypeOK
  <2>8. IdentityInv' /\ AssocInv'
    BY <1>3, <2>1 DEF IdentityInv, AssocInv
  <2>9. ASSUME NEW j \in Slot, checkers'[j] # NoChecker, heldBy'[j] = None
        PROVE  lastReleased'[j] # "zero" /\ (discarded' \/ timer' = "armed" \/ firing' > 0)
    <3>1. lastReleased'[j] # "zero"
      BY <2>1, <2>2, <2>3, <2>9, Slots DEF IdleInv
    <3>2. CASE scheduleCleanup
      BY <2>9, <3>1, <3>2 DEF scheduleCleanup, IdleLeft
    <3>3. CASE discarded
      BY <1>3, <3>1, <3>3
    <3> QED
      BY <2>1, <3>1, <3>2, <3>3
  <2>10. IdleInv'
    BY <2>9 DEF IdleInv
  <2> QED
    BY <2>4, <2>5, <2>7, <2>8, <2>10
<1> QED
  BY <1>5, <1>6

LEMMA KeepsReleasePersistent ==
    ASSUME PoolInv, NEW t \in Thread, ReleasePersistent(t)
    PROVE  PoolInv'
<1> USE DEF PoolInv
<1>1. /\ UNCHANGED <<call, calls, sem, lastReleased, fileAssociations,
                     requestAssociations, timer, firing, discarded, done,
                     cleanups, found, accumulated, changed, counted, taken,
                     mix>>
      /\ pc[t] = "holding" /\ got[t].slot = API /\ pc' = [pc EXCEPT ![t] = "token"]
      /\ heldBy' = [heldBy EXCEPT ![API] = None] /\ got' = [got EXCEPT ![t].checker = NoChecker]
      /\ checkers' \in {checkers, [checkers EXCEPT ![API] = NoChecker]}
      /\ canceled' = IF got[t].checker \in canceled THEN canceled \ {got[t].checker} ELSE canceled
  BY DEF ReleasePersistent, Unusable, threadVars, slotVars, timerVars, reqVars, diagVars
<1>2. /\ heldBy' \in [Slot \cup {API} -> Tag \cup {None}] /\ heldBy'[API] = None
      /\ \A j \in AnySlot \ {API} : heldBy'[j] = heldBy[j]
  BY <1>1, Slots DEF TypeOK, AnySlot
<1>3. /\ checkers' \in [Slot \cup {API} -> Checker \cup {NoChecker}] /\ checkers'[API] \in {checkers[API], NoChecker}
      /\ \A j \in AnySlot \ {API} : checkers'[j] = checkers[j]
  BY <1>1, Slots DEF TypeOK, AnySlot
<1>4. canceled' \subseteq canceled /\ got[t].checker \notin canceled'
  BY <1>1
<1>5. /\ pc' \in [Thread -> {"idle", "sem", "reacquire", "acquire", "holding", "token"}]
      /\ got' \in [Thread -> [slot : Slot \cup {API}, checker : Checker \cup {NoChecker}]]
      /\ CallInv' /\ HoldInv' /\ TokenInv' /\ CanceledInv'
  <2>1. PICK k \in AnySlot : k = API
    BY Slots
  <2>2. k = got[t].slot /\ heldBy'[k] = None /\ \A j \in AnySlot \ {k} : heldBy'[j] = heldBy[j] /\ checkers'[j] = checkers[j]
    BY <1>1, <1>2, <1>3, <2>1
  <2> QED
    BY <1>1, <1>4, <2>2, Releases
<1>6. \A j \in Slot : j \in AnySlot \ {API}
  BY Slots
<1>a. TypeOK'
  BY <1>1, <1>2, <1>3, <1>4, <1>5 DEF TypeOK
<1>b. CallInv'
  BY <1>5
<1>c. HoldInv'
  BY <1>5
<1>d. TokenInv'
  BY <1>5
<1>e. IdentityInv'
  <2> SUFFICES ASSUME NEW j \in AnySlot, NEW k \in AnySlot, j # k, checkers'[j] # NoChecker
               PROVE  checkers'[j] # checkers'[k]
    BY DEF IdentityInv, AnySlot
  <2>1. checkers'[j] = checkers[j] /\ checkers'[k] \in {checkers[k], NoChecker}
    BY <1>3
  <2> QED
    BY <2>1 DEF IdentityInv
<1>f. CanceledInv'
  BY <1>5
<1>g. AssocInv'
  <2>1. \A f \in File : fileAssociations[f] # None => fileAssociations[f] \in Slot
    BY Slots DEF TypeOK
  <2>2. \A r \in Request : requestAssociations[r] # None => requestAssociations[r] \in Slot
    BY DEF TypeOK
  <2> QED
    BY <1>1, <1>3, <1>6, <2>1, <2>2 DEF AssocInv
<1>h. IdleInv'
  BY <1>1, <1>2, <1>3, <1>6 DEF IdleInv
<1>i. DiagInv'
  <2>1. checkers'[0] = checkers[0] /\ heldBy'[0] = heldBy[0]
    BY <1>2, <1>3, <1>6, Slots
  <2> QED
    BY <1>1, <2>1 DEF DiagInv
<1> QED
  BY <1>a, <1>b, <1>c, <1>d, <1>e, <1>f, <1>g, <1>h, <1>i

LEMMA KeepsReleaseToken ==
    ASSUME PoolInv, NEW t \in Thread, ReleaseToken(t)
    PROVE  PoolInv'
<1> USE DEF PoolInv
<1>1. /\ UNCHANGED <<calls, checkers, heldBy, lastReleased, fileAssociations,
                     requestAssociations, timer, firing, discarded, canceled,
                     done, cleanups, found, accumulated, changed, counted,
                     taken, mix>>
      /\ pc[t] = "token" /\ pc' = [pc EXCEPT ![t] = "idle"] /\ call' = [call EXCEPT ![t] = NoCall]
      /\ got' = [got EXCEPT ![t].slot = 0] /\ sem' = [sem EXCEPT ![call[t].life] = @ - 1]
  BY DEF ReleaseToken, TokenOf, threadVars, slotVars, timerVars, reqVars, diagVars
<1>2. PICK k \in Lifetime : k = call[t].life
  BY DEF TypeOK, Call
<1>3. /\ pc'[t] = "idle" /\ (\A u \in Thread \ {t} : pc'[u] = pc[u])
      /\ pc' \in [Thread -> {"idle", "sem", "reacquire", "acquire", "holding", "token"}]
  BY <1>1 DEF TypeOK
<1>4. call'[t] = NoCall /\ (\A u \in Thread \ {t} : call'[u] = call[u]) /\ call' \in [Thread -> Call]
  <2>1. NoCall \in Call
    BY DEF NoCall, Call, Lifetime
  <2> QED
    BY <1>1, <2>1 DEF TypeOK
<1>5. /\ got'[t].checker = got[t].checker /\ (\A u \in Thread \ {t} : got'[u] = got[u])
      /\ got' \in [Thread -> [slot : Slot \cup {API}, checker : Checker \cup {NoChecker}]]
  <2> DEFINE Rec == [slot : Slot \cup {API}, checker : Checker \cup {NoChecker}]
             g == [got[t] EXCEPT !.slot = 0]
  <2>1. got \in [Thread -> Rec] /\ got' = [got EXCEPT ![t] = g]
    BY <1>1 DEF TypeOK
  <2>2. got[t] \in Rec /\ 0 \in Slot
    BY <2>1, Slots
  <2>3. g \in Rec /\ g.checker = got[t].checker
    BY <2>2
  <2> HIDE DEF Rec, g
  <2>4. got' \in [Thread -> Rec] /\ got'[t] = g /\ \A u \in Thread \ {t} : got'[u] = got[u]
    BY <2>1, <2>3
  <2> QED
    BY <2>3, <2>4 DEF Rec
<1>6. HaveToken(k)' = HaveToken(k) \ {t} /\ t \in HaveToken(k) /\ \A l \in Lifetime \ {k} : HaveToken(l)' = HaveToken(l)
  BY <1>1, <1>2, <1>3, <1>4 DEF HaveToken
<1>7. Cardinality(HaveToken(k) \ {t}) = Cardinality(HaveToken(k)) - 1 /\ Cardinality(HaveToken(k)) \in Nat
        /\ Cardinality(HaveToken(k)) # 0
  <2>1. IsFiniteSet(HaveToken(k)) /\ Cardinality(HaveToken(k)) \in Nat
    BY Tokens
  <2>2. Cardinality(HaveToken(k) \ {t}) = Cardinality(HaveToken(k)) - 1
    BY <1>6, <2>1, FS_RemoveElement
  <2>3. Cardinality(HaveToken(k)) # 0
    BY <1>6, <2>1, FS_EmptySet
  <2> QED
    BY <2>1, <2>2, <2>3
<1>8. sem[k] = Cardinality(HaveToken(k)) /\ sem[k] <= cap(k) /\ cap(k) \in Int
  BY PoolAssumption DEF TokenInv, cap
<1>9. sem' \in [Lifetime -> Nat] /\ sem'[k] = sem[k] - 1 /\ (\A l \in Lifetime \ {k} : sem'[l] = sem[l])
  <2>1. sem[k] - 1 \in Nat
    BY <1>7, <1>8
  <2>2. sem' = [sem EXCEPT ![k] = sem[k] - 1]
    BY <1>1, <1>2
  <2> QED
    BY <2>1, <2>2 DEF TypeOK
<1>a. TypeOK'
  BY <1>1, <1>3, <1>4, <1>5, <1>9 DEF TypeOK
<1>b. CallInv'
  <2>1. NoCall.life = "query" /\ NoCall.req = None
    BY DEF NoCall
  <2> QED
    BY <1>1, <1>3, <1>4, <1>5, <2>1 DEF CallInv
<1>c. HoldInv'
  <2>1. \A u \in Thread : /\ pc'[u] = "holding" <=> pc[u] = "holding"
                          /\ pc[u] = "holding" => call'[u] = call[u] /\ got'[u] = got[u]
    BY <1>1, <1>3, <1>4, <1>5
  <2> QED
    BY <1>1, <2>1 DEF HoldInv, AnySlot, holdTag
<1>d. TokenInv'
  <2>1. sem'[k] = Cardinality(HaveToken(k) \ {t}) /\ sem'[k] <= cap(k)
    BY <1>7, <1>8, <1>9
  <2>2. ASSUME NEW l \in Lifetime PROVE sem'[l] = Cardinality(HaveToken(l))' /\ sem'[l] <= cap(l)
    <3>1. CASE l = k
      BY <1>6, <2>1, <3>1
    <3>2. CASE l # k
      BY <1>6, <1>9, <3>2 DEF TokenInv
    <3> QED
      BY <3>1, <3>2
  <2> QED
    BY <2>2 DEF TokenInv, cap
<1>e. IdentityInv'
  BY <1>1 DEF IdentityInv
<1>f. CanceledInv'
  <2>1. \A u \in Thread : pc[u] = "holding" => pc'[u] = "holding" /\ got'[u] = got[u]
    BY <1>1, <1>3, <1>5
  <2> QED
    BY <1>1, <2>1 DEF CanceledInv
<1>g. AssocInv'
  BY <1>1 DEF AssocInv
<1>h. IdleInv'
  BY <1>1 DEF IdleInv
<1>i. DiagInv'
  BY <1>1 DEF DiagInv
<1> QED
  BY <1>a, <1>b, <1>c, <1>d, <1>e, <1>f, <1>g, <1>h, <1>i

-----------------------------------------------------------------------------
(* Requests, the cleanup timer and the end of the pool.                    *)

LEMMA KeepsDone ==
    ASSUME PoolInv, NEW r \in Request, Done(r)
    PROVE  PoolInv'
<1> USE DEF PoolInv
<1>1. /\ UNCHANGED <<pc, call, got, calls, sem, checkers, heldBy, lastReleased,
                     fileAssociations, requestAssociations, timer, firing,
                     discarded, canceled, cleanups, found, accumulated,
                     changed, counted, taken, mix>>
      /\ done' = done \cup {r}
  BY DEF Done, threadVars, slotVars, timerVars, reqVars, diagVars
<1>a. TypeOK'
  BY <1>1 DEF TypeOK
<1>b. CallInv'
  BY <1>1 DEF CallInv
<1>c. HoldInv'
  BY <1>1 DEF HoldInv
<1>d. TokenInv'
  BY <1>1 DEF TokenInv, HaveToken
<1>e. IdentityInv'
  BY <1>1 DEF IdentityInv
<1>f. CanceledInv'
  BY <1>1 DEF CanceledInv
<1>g. AssocInv'
  BY <1>1 DEF AssocInv
<1>h. IdleInv'
  BY <1>1 DEF IdleInv
<1>i. DiagInv'
  BY <1>1 DEF DiagInv
<1> QED
  BY <1>a, <1>b, <1>c, <1>d, <1>e, <1>f, <1>g, <1>h, <1>i

LEMMA KeepsRequestCleanup ==
    ASSUME PoolInv, NEW r \in Request, RequestCleanup(r)
    PROVE  PoolInv'
<1> USE DEF PoolInv
<1>1. /\ UNCHANGED <<pc, call, got, calls, sem, checkers, heldBy, lastReleased,
                     fileAssociations, timer, firing, discarded, canceled,
                     done, found, accumulated, changed, counted, taken, mix>>
      /\ cleanups[r] > 0 /\ cleanups' = [cleanups EXCEPT ![r] = @ - 1]
      /\ requestAssociations' = [requestAssociations EXCEPT ![r] = None]
  BY DEF RequestCleanup, threadVars, slotVars, timerVars, reqVars, diagVars
<1>a. TypeOK'
  BY <1>1 DEF TypeOK
<1>b. CallInv'
  BY <1>1 DEF CallInv
<1>c. HoldInv'
  BY <1>1 DEF HoldInv
<1>d. TokenInv'
  BY <1>1 DEF TokenInv, HaveToken
<1>e. IdentityInv'
  BY <1>1 DEF IdentityInv
<1>f. CanceledInv'
  BY <1>1 DEF CanceledInv
<1>g. AssocInv'
  <2>1. /\ requestAssociations'[r] = None
        /\ \A q \in Request \ {r} : requestAssociations'[q] = requestAssociations[q] /\ cleanups'[q] = cleanups[q]
    BY <1>1 DEF TypeOK
  <2> QED
    BY <1>1, <2>1 DEF AssocInv
<1>h. IdleInv'
  BY <1>1 DEF IdleInv
<1>i. DiagInv'
  BY <1>1 DEF DiagInv
<1> QED
  BY <1>a, <1>b, <1>c, <1>d, <1>e, <1>f, <1>g, <1>h, <1>i

LEMMA KeepsAge ==
    ASSUME PoolInv, NEW i \in Slot, Age(i)
    PROVE  PoolInv'
<1> USE DEF PoolInv
<1>1. /\ UNCHANGED <<pc, call, got, calls, sem, checkers, heldBy, fileAssociations,
                     requestAssociations, timer, firing, discarded, canceled,
                     done, cleanups, found, accumulated, changed, counted,
                     taken, mix>>
      /\ lastReleased' = [lastReleased EXCEPT ![i] = "expired"]
  BY DEF Age, threadVars, slotVars, timerVars, reqVars, diagVars
<1>a. TypeOK'
  BY <1>1 DEF TypeOK
<1>b. CallInv'
  BY <1>1 DEF CallInv
<1>c. HoldInv'
  BY <1>1 DEF HoldInv
<1>d. TokenInv'
  BY <1>1 DEF TokenInv, HaveToken
<1>e. IdentityInv'
  BY <1>1 DEF IdentityInv
<1>f. CanceledInv'
  BY <1>1 DEF CanceledInv
<1>g. AssocInv'
  BY <1>1 DEF AssocInv
<1>h. IdleInv'
  BY <1>1 DEF IdleInv, TypeOK
<1>i. DiagInv'
  BY <1>1 DEF DiagInv
<1> QED
  BY <1>a, <1>b, <1>c, <1>d, <1>e, <1>f, <1>g, <1>h, <1>i

LEMMA KeepsFire ==
    ASSUME PoolInv, Fire
    PROVE  PoolInv'
<1> USE DEF PoolInv
<1>1. /\ UNCHANGED <<pc, call, got, calls, sem, checkers, heldBy, lastReleased,
                     fileAssociations, requestAssociations, discarded,
                     canceled, done, cleanups, found, accumulated, changed,
                     counted, taken, mix>>
      /\ timer' = "spent" /\ firing' = firing + 1
  BY DEF Fire, threadVars, slotVars, timerVars, reqVars, diagVars
<1>a. TypeOK'
  BY <1>1 DEF TypeOK
<1>b. CallInv'
  BY <1>1 DEF CallInv
<1>c. HoldInv'
  BY <1>1 DEF HoldInv
<1>d. TokenInv'
  BY <1>1 DEF TokenInv, HaveToken
<1>e. IdentityInv'
  BY <1>1 DEF IdentityInv
<1>f. CanceledInv'
  BY <1>1 DEF CanceledInv
<1>g. AssocInv'
  BY <1>1 DEF AssocInv
<1>h. IdleInv'
  BY <1>1 DEF IdleInv, TypeOK
<1>i. DiagInv'
  BY <1>1 DEF DiagInv
<1> QED
  BY <1>a, <1>b, <1>c, <1>d, <1>e, <1>f, <1>g, <1>h, <1>i

LEMMA KeepsDiscard ==
    ASSUME PoolInv, Discard
    PROVE  PoolInv'
<1> USE DEF PoolInv
<1>1. /\ UNCHANGED <<pc, call, got, calls, sem, checkers, heldBy, lastReleased,
                     fileAssociations, requestAssociations, firing, canceled,
                     done, cleanups, found, accumulated, changed, counted,
                     taken, mix>>
      /\ discarded' = TRUE /\ timer' = "nil"
  BY DEF Discard, threadVars, slotVars, timerVars, reqVars, diagVars
<1>a. TypeOK'
  BY <1>1 DEF TypeOK
<1>b. CallInv'
  BY <1>1 DEF CallInv
<1>c. HoldInv'
  BY <1>1 DEF HoldInv
<1>d. TokenInv'
  BY <1>1 DEF TokenInv, HaveToken
<1>e. IdentityInv'
  BY <1>1 DEF IdentityInv
<1>f. CanceledInv'
  BY <1>1 DEF CanceledInv
<1>g. AssocInv'
  BY <1>1 DEF AssocInv
<1>h. IdleInv'
  BY <1>1 DEF IdleInv, TypeOK
<1>i. DiagInv'
  BY <1>1 DEF DiagInv
<1> QED
  BY <1>a, <1>b, <1>c, <1>d, <1>e, <1>f, <1>g, <1>h, <1>i

LEMMA KeepsTakeNewGlobalDiagnostics ==
    ASSUME PoolInv, TakeNewGlobalDiagnostics
    PROVE  PoolInv'
<1> USE DEF PoolInv
<1>1. /\ UNCHANGED <<pc, call, got, calls, sem, checkers, heldBy, lastReleased,
                     fileAssociations, requestAssociations, timer, firing,
                     discarded, canceled, done, cleanups, found, accumulated,
                     counted, mix>>
      /\ changed' = FALSE /\ taken' = accumulated
  BY DEF TakeNewGlobalDiagnostics, threadVars, slotVars, timerVars, reqVars, diagVars
<1>a. TypeOK'
  BY <1>1 DEF TypeOK
<1>b. CallInv'
  BY <1>1 DEF CallInv
<1>c. HoldInv'
  BY <1>1 DEF HoldInv
<1>d. TokenInv'
  BY <1>1 DEF TokenInv, HaveToken
<1>e. IdentityInv'
  BY <1>1 DEF IdentityInv
<1>f. CanceledInv'
  BY <1>1 DEF CanceledInv
<1>g. AssocInv'
  BY <1>1 DEF AssocInv
<1>h. IdleInv'
  BY <1>1 DEF IdleInv
<1>i. DiagInv'
  BY <1>1 DEF DiagInv, TypeOK
<1> QED
  BY <1>a, <1>b, <1>c, <1>d, <1>e, <1>f, <1>g, <1>h, <1>i

LEMMA KeepsCleanupIdleCheckers ==
    ASSUME PoolInv, cleanupIdleCheckers
    PROVE  PoolInv'
<1> USE DEF PoolInv
<1>1. /\ UNCHANGED <<pc, call, got, calls, sem, discarded, canceled, done, cleanups, found,
                     accumulated, changed, taken, mix>>
      /\ firing > 0 /\ firing' = firing - 1
      /\ \/ discarded /\ UNCHANGED <<checkers, heldBy, lastReleased, fileAssociations, requestAssociations,
                                     counted, timer>>
         \/ disposeChecker(Expired) /\ scheduleCleanup
  BY DEF cleanupIdleCheckers, BailOut, threadVars, slotVars, reqVars
<1>2. firing' \in Nat
  BY <1>1 DEF TypeOK
<1>3. CallInv' /\ TokenInv' /\ CanceledInv'
  <2>1. \A l : HaveToken(l)' = HaveToken(l)
    BY <1>1 DEF HaveToken
  <2>2. TokenInv'
    BY <1>1, <2>1 DEF TokenInv, cap
  <2> QED
    BY <1>1, <2>2 DEF CallInv, CanceledInv
<1>4. CASE discarded /\ UNCHANGED <<checkers, heldBy, lastReleased, fileAssociations, requestAssociations,
                                    counted, timer>>
  <2>1. TypeOK'
    BY <1>1, <1>2, <1>4 DEF TypeOK
  <2>2. HoldInv' /\ IdentityInv' /\ AssocInv'
    BY <1>1, <1>4 DEF HoldInv, IdentityInv, AssocInv
  <2>3. IdleInv' /\ DiagInv'
    BY <1>1, <1>4 DEF IdleInv, DiagInv
  <2> QED
    BY <1>3, <2>1, <2>2, <2>3
<1>5. CASE disposeChecker(Expired) /\ scheduleCleanup
  <2>1. PICK I \in SUBSET Slot : I = Expired
    BY DEF Expired
  <2>2. \A i \in I : heldBy[i] = None
    BY <2>1 DEF Expired
  <2>3. /\ checkers' \in [Slot \cup {API} -> Checker \cup {NoChecker}]
        /\ heldBy' \in [Slot \cup {API} -> Tag \cup {None}]
        /\ lastReleased' \in [Slot -> {"zero", "recent", "expired"}]
        /\ counted' \in [Slot -> Nat]
        /\ fileAssociations' \in [File -> Query \cup {None}]
        /\ requestAssociations' \in [Request -> Slot \cup {None}]
        /\ \A i \in I : checkers'[i] = NoChecker /\ heldBy'[i] = None /\ counted'[i] = 0
        /\ \A i \in AnySlot \ I : checkers'[i] = checkers[i] /\ heldBy'[i] = heldBy[i]
        /\ \A i \in Slot \ I : lastReleased'[i] = lastReleased[i] /\ counted'[i] = counted[i]
        /\ IdentityInv' /\ AssocInv'
    BY <1>1, <1>5, <2>1, Disposes
  <2>4. timer' \in {"nil", "armed", "spent"}
    BY <1>5 DEF scheduleCleanup
  <2>5. TypeOK'
    BY <1>1, <1>2, <2>3, <2>4 DEF TypeOK
  <2>6. HoldInv'
    <3>1. ASSUME NEW u \in Thread, pc[u] = "holding"
          PROVE  /\ got[u].checker = checkers'[got[u].slot] /\ got[u].checker # NoChecker
                 /\ heldBy'[got[u].slot] = holdTag(call[u].req)
      <4>1. got[u].slot \in AnySlot /\ heldBy[got[u].slot] # None
        BY <3>1, Tags DEF HoldInv, TypeOK, AnySlot
      <4>2. got[u].slot \in AnySlot \ I
        BY <2>2, <4>1
      <4> QED
        BY <2>3, <3>1, <4>2 DEF HoldInv
    <3>2. \A i \in AnySlot : heldBy'[i] # None => heldBy[i] # None
      BY <2>3
    <3> QED
      BY <1>1, <3>1, <3>2 DEF HoldInv, AnySlot, holdTag
  <2>7. ASSUME NEW j \in Slot, checkers'[j] # NoChecker, heldBy'[j] = None
        PROVE  lastReleased'[j] # "zero" /\ timer' = "armed"
    <3>1. j \in AnySlot \ I /\ j \in Slot \ I
      BY <2>3, <2>7, Slots
    <3>2. lastReleased'[j] # "zero"
      BY <2>3, <2>7, <3>1 DEF IdleInv
    <3> QED
      BY <1>5, <2>7, <3>2 DEF scheduleCleanup, IdleLeft
  <2>8. IdleInv'
    BY <2>7 DEF IdleInv
  <2>9. DiagInv'
    <3>1. CASE 0 \in I
      BY <1>1, <2>3, <3>1 DEF DiagInv
    <3>2. CASE 0 \notin I
      <4>1. checkers'[0] = checkers[0] /\ heldBy'[0] = heldBy[0] /\ counted'[0] = counted[0]
        BY <2>3, <3>2, Slots
      <4> QED
        BY <1>1, <4>1 DEF DiagInv
    <3> QED
      BY <3>1, <3>2
  <2> QED
    BY <1>3, <2>3, <2>5, <2>6, <2>8, <2>9
<1> QED
  BY <1>1, <1>4, <1>5

-----------------------------------------------------------------------------
(* The invariant, and what follows from it.                                *)

LEMMA PoolBegins == Init => PoolInv
<1> SUFFICES ASSUME Init PROVE PoolInv
  OBVIOUS
<1>1. TypeOK
  <2>1. NoCall \in Call
    BY DEF NoCall, Call, Lifetime
  <2>2. pc \in [Thread -> {"idle", "sem", "reacquire", "acquire", "holding", "token"}] /\ call \in [Thread -> Call]
    BY <2>1 DEF Init
  <2>3. got \in [Thread -> [slot : Slot \cup {API}, checker : Checker \cup {NoChecker}]]
    BY Slots DEF Init
  <2>4. calls \in 0 .. MaxCalls /\ firing \in Nat /\ sem \in [Lifetime -> Nat] /\ counted \in [Slot -> Nat]
          /\ cleanups \in [Request -> Nat]
    BY PoolAssumption DEF Init
  <2>5. discarded \in BOOLEAN /\ changed \in BOOLEAN
    BY DEF Init
  <2> QED
    BY <2>2, <2>3, <2>4, <2>5 DEF Init, TypeOK
<1>2. CallInv
  <2>1. NoCall.life = "query"
    BY DEF NoCall
  <2> QED
    BY <2>1 DEF Init, CallInv
<1>3. HoldInv /\ IdentityInv /\ CanceledInv
  BY DEF Init, HoldInv, IdentityInv, CanceledInv, AnySlot
<1>4. AssocInv /\ IdleInv /\ DiagInv
  BY Slots DEF Init, AssocInv, IdleInv, DiagInv
<1>5. TokenInv
  <2>1. \A l \in Lifetime : HaveToken(l) = {} /\ sem[l] = 0
    BY DEF Init, HaveToken
  <2>2. Cardinality({}) = 0
    BY FS_EmptySet
  <2>3. \A l \in Lifetime : 0 <= cap(l)
    BY PoolAssumption DEF cap
  <2> QED
    BY <2>1, <2>2, <2>3 DEF TokenInv
<1> QED
  BY <1>1, <1>2, <1>3, <1>4, <1>5 DEF PoolInv

LEMMA PoolStutters ==
    ASSUME PoolInv, UNCHANGED vars
    PROVE  PoolInv'
<1>1. UNCHANGED <<pc, call, got, calls, sem, checkers, heldBy, lastReleased, fileAssociations, requestAssociations,
                  timer, firing, discarded, canceled, done, cleanups, found, accumulated, changed, counted,
                  taken, mix>>
  BY DEF vars, threadVars, slotVars, timerVars, reqVars, diagVars
<1>2. TypeOK' /\ CallInv' /\ HoldInv'
  BY <1>1 DEF PoolInv, TypeOK, CallInv, HoldInv
<1>3. TokenInv' /\ IdentityInv' /\ CanceledInv' /\ AssocInv'
  <2>1. \A l : HaveToken(l)' = HaveToken(l)
    BY <1>1 DEF HaveToken
  <2>2. TokenInv'
    BY <1>1, <2>1 DEF PoolInv, TokenInv, cap
  <2> QED
    BY <1>1, <2>2 DEF PoolInv, IdentityInv, CanceledInv, AssocInv
<1>4. IdleInv' /\ DiagInv'
  BY <1>1 DEF PoolInv, IdleInv, DiagInv
<1> QED
  BY <1>2, <1>3, <1>4 DEF PoolInv

LEMMA PoolStep ==
    ASSUME PoolInv, [Next]_vars
    PROVE  PoolInv'
<1>1. ASSUME NEW t \in Thread, Work(t) PROVE PoolInv'
  BY <1>1, KeepsGetChecker, KeepsToken, KeepsTryReacquire, KeepsAcquireOnly, KeepsAcquireQuery,
     KeepsRelease, KeepsReleasePersistent, KeepsReleaseToken DEF Work
<1>2. ASSUME Rest \/ UNCHANGED vars PROVE PoolInv'
  BY <1>2, PoolStutters DEF Rest
<1> QED
  BY <1>1, <1>2, KeepsCancel, KeepsCheck, KeepsDone, KeepsRequestCleanup, KeepsAge, KeepsFire,
     KeepsCleanupIdleCheckers, KeepsDiscard, KeepsTakeNewGlobalDiagnostics DEF Next

LEMMA PoolInvariant == Spec => []PoolInv
  BY PoolBegins, PoolStep, PTL DEF Spec

(***************************************************************************)
(* A checker is used by one goroutine at a time, and whoever holds a token *)
(* finds a slot: the panic of findOrCreateQueryCheckerLocked, and the      *)
(* assertion of disposeCheckerLocked, never fail, for any number of        *)
(* checkers and goroutines.                                                *)
(***************************************************************************)
THEOREM Held == Spec => []HeldExact
<1>1. ASSUME PoolInv PROVE HeldExact
  <2> USE <1>1 DEF PoolInv
  <2>1. ASSUME NEW i \in AnySlot
        PROVE  /\ heldBy[i] = None <=> Holders(i) = {}
               /\ \A t \in Holders(i) :
                    /\ Holders(i) = {t}
                    /\ got[t].checker = checkers[i] /\ checkers[i] # NoChecker
                    /\ heldBy[i] = holdTag(call[t].req)
    <3>1. ASSUME NEW t \in Holders(i)
          PROVE  /\ Holders(i) = {t}
                 /\ got[t].checker = checkers[i] /\ checkers[i] # NoChecker
                 /\ heldBy[i] = holdTag(call[t].req) /\ heldBy[i] # None
      <4>1. t \in Thread /\ pc[t] = "holding" /\ got[t].slot = i
        BY DEF Holders
      <4>2. Holders(i) = {t}
        BY <4>1 DEF Holders, HoldInv
      <4> QED
        BY <4>1, <4>2, Tags DEF HoldInv
    <3>2. heldBy[i] # None => Holders(i) # {}
      BY DEF HoldInv, Holders
    <3> QED
      BY <3>1, <3>2
  <2>2. ASSUME NEW t \in Thread, pc[t] = "acquire"
        PROVE  CASE call[t].life = "query"       -> Available # {}
                 [] call[t].life = "diagnostics" -> heldBy[0] = None
                 [] call[t].life = "api"         -> heldBy[API] = None
    <3>1. call[t].life \in {"diagnostics", "query", "api"}
      BY DEF TypeOK, Call, Lifetime
    <3>2. call[t].life = "query" => Available # {}
      BY <2>2, SlotLeft
    <3>3. call[t].life = "diagnostics" => heldBy[0] = None
      BY <2>2, OnlyOne
    <3>4. call[t].life = "api" => heldBy[API] = None
      BY <2>2, OnlyOne
    <3> QED
      BY <3>1, <3>2, <3>3, <3>4
  <2> QED
    BY <2>1, <2>2 DEF HeldExact, AnySlot
<1> QED
  BY <1>1, PoolInvariant, PTL

(***************************************************************************)
(* No idle checker of the pool is canceled, no association points at an    *)
(* emptied slot (disposeCheckerLocked), and every association of a request *)
(* has an AfterFunc coming (registerRequestCleanup).                       *)
(***************************************************************************)
THEOREM Stale == Spec => []NothingStale
<1>1. ASSUME PoolInv PROVE NothingStale
  <2> USE <1>1 DEF PoolInv
  <2>1. ASSUME NEW i \in AnySlot, heldBy[i] = None, checkers[i] # NoChecker, checkers[i] \in canceled PROVE FALSE
    <3>1. PICK t \in Thread : pc[t] = "holding" /\ got[t].checker = checkers[i]
      BY <2>1 DEF CanceledInv
    <3>2. got[t].slot \in AnySlot /\ checkers[got[t].slot] = checkers[i] /\ heldBy[got[t].slot] # None
      BY <3>1, Tags DEF HoldInv, TypeOK, AnySlot
    <3> QED
      BY <2>1, <3>2 DEF IdentityInv
  <2> QED
    BY <2>1 DEF NothingStale, AssocInv, AnySlot
<1> QED
  BY <1>1, PoolInvariant, PTL

(***************************************************************************)
(* While the pool is not discarded an idle checker has the timer set, or   *)
(* a callback of it under way (scheduleCleanupLocked).                     *)
(***************************************************************************)
THEOREM Cleanup == Spec => []CleanupComing
<1>1. PoolInv => CleanupComing
  BY DEF PoolInv, IdleInv, CleanupComing
<1> QED
  BY <1>1, PoolInvariant, PTL

(***************************************************************************)
(* What the idle diagnostics checker found is accumulated, though          *)
(* mergeGlobalDiagnosticsFromCheckerLocked only compares counts, and what  *)
(* was accumulated since the last take is announced.                       *)
(***************************************************************************)
THEOREM Globals == Spec => []GlobalsReported
<1>1. PoolInv => GlobalsReported
  BY DEF PoolInv, DiagInv, GlobalsReported
<1> QED
  BY <1>1, PoolInvariant, PTL

(***************************************************************************)
(* In a discarded pool, and for the API's checker in any pool, a checker   *)
(* is replaced only after a canceled check (Discard, checkerPool).         *)
(***************************************************************************)
THEOREM Identity == Spec => StableIdentity
<1> DEFINE Stable == \A i \in Slot \cup {API} :
            (discarded \/ i = API) /\ checkers[i] # NoChecker /\ checkers'[i] # checkers[i]
                => checkers[i] \in canceled
<1>1. ASSUME PoolInv, Next PROVE Stable
  <2> SUFFICES ASSUME NEW i \in AnySlot, discarded \/ i = API, checkers[i] # NoChecker, checkers'[i] # checkers[i]
               PROVE  checkers[i] \in canceled
    BY DEF AnySlot
  <2> USE <1>1 DEF PoolInv
  <2>1. ASSUME NEW k \in AnySlot, Filled(k) PROVE checkers'[i] = checkers[i]
    BY <2>1 DEF Filled, TypeOK, AnySlot
  <2>2. ASSUME NEW t \in Thread, AcquireOnly(t) PROVE FALSE
    <3>1. PICK k \in AnySlot : Take(t, k)
      BY <2>2, Slots DEF AcquireOnly
    <3> QED
      BY <2>1, <3>1 DEF Take
  <2>3. ASSUME NEW t \in Thread, AcquireQuery(t) PROVE FALSE
    <3>1. ASSUME NEW k, Take(t, k), checkers[k] # NoChecker \/ k \in AnySlot PROVE FALSE
      <4>1. Filled(k)
        BY <3>1 DEF Take
      <4> QED
        BY <2>1, <3>1, <4>1 DEF Filled
    <3>2. findOrCreateQueryChecker \in AnySlot \/ Available = {}
      <4> DEFINE idle == {j \in Available : checkers[j] # NoChecker}
      <4>1. Available \subseteq AnySlot /\ Available \subseteq Nat /\ idle \subseteq Available
        BY Slots DEF Available, Query
      <4>2. CASE idle # {}
        <5>1. findOrCreateQueryChecker = Min(idle)
          BY <4>2 DEF findOrCreateQueryChecker
        <5>2. Min(idle) \in idle
          <6> HIDE DEF idle
          <6> QED
            BY <4>1, <4>2, MinIn
        <5> QED
          BY <4>1, <5>1, <5>2
      <4>3. CASE idle = {} /\ Available # {}
        <5>1. findOrCreateQueryChecker = Min(Available)
          BY <4>3 DEF findOrCreateQueryChecker
        <5> QED
          BY <4>1, <4>3, <5>1, MinIn
      <4> QED
        BY <4>2, <4>3
    <3> DEFINE f == call[t].file
               a == IF f = None THEN None ELSE fileAssociations[f]
    <3>3. \/ checkers[a] # NoChecker /\ Take(t, a)
          \/ Available # {} /\ Take(t, findOrCreateQueryChecker)
      BY <2>3 DEF AcquireQuery
    <3> QED
      BY <3>1, <3>2, <3>3
  <2>4. ASSUME NEW t \in Thread, Release(t) PROVE checkers[i] \in canceled
    <3>1. got[t].slot \in AnySlot /\ got[t].checker = checkers[got[t].slot]
      BY <2>4 DEF Release, HoldInv, TypeOK, AnySlot
    <3>2. got[t].checker \in canceled /\ disposeChecker({got[t].slot})
      BY <2>4 DEF Release
    <3>3. i = got[t].slot
      BY <3>2 DEF disposeChecker, AnySlot
    <3> QED
      BY <3>1, <3>2, <3>3
  <2>5. ASSUME NEW t \in Thread, ReleasePersistent(t) PROVE checkers[i] \in canceled
    BY <2>5 DEF ReleasePersistent, Unusable, TypeOK, AnySlot
  <2>6. ASSUME cleanupIdleCheckers PROVE FALSE
    <3>1. CASE discarded
      BY <2>6, <3>1 DEF cleanupIdleCheckers, BailOut, slotVars
    <3>2. CASE ~discarded
      <4>1. disposeChecker(Expired) /\ i = API
        BY <2>6, <3>2 DEF cleanupIdleCheckers, BailOut
      <4>2. API \notin Expired
        BY Slots DEF Expired
      <4> QED
        BY <4>1, <4>2 DEF disposeChecker, AnySlot
    <3> QED
      BY <3>1, <3>2
  <2>7. ASSUME NEW t \in Thread, GetChecker(t) \/ Token(t) \/ tryReacquireForRequest(t) \/ ReleaseToken(t)
                                    \/ Cancel(t) \/ Check(t)
        PROVE  FALSE
    BY <2>7 DEF GetChecker, Token, tryReacquireForRequest, ReleaseToken, Cancel, Check, slotVars
  <2>8. ASSUME \/ \E r \in Request : Done(r) \/ RequestCleanup(r)
               \/ \E j \in Slot : Age(j)
               \/ Fire \/ Discard \/ TakeNewGlobalDiagnostics \/ Rest
        PROVE  FALSE
    BY <2>8 DEF Done, RequestCleanup, Age, Fire, Discard, TakeNewGlobalDiagnostics, Rest, slotVars, vars
  <2> QED
    BY <1>1, <2>2, <2>3, <2>4, <2>5, <2>6, <2>7, <2>8 DEF Next, Work
<1>2. PoolInv /\ [Next]_vars => [Stable]_vars
  BY <1>1
<1> QED
  BY <1>2, PoolInvariant, PTL DEF Spec, StableIdentity
=============================================================================
