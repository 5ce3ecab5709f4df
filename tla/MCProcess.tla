------------------------------ MODULE MCProcess ------------------------------
(***************************************************************************)
(* Small instances of Process for TLC.  Domains of one kind, and servers,  *)
(* are interchangeable.                                                    *)
(***************************************************************************)
EXTENDS Process, TLC

\* Two domains are spawned, or two servers listen, or there is one of each.
\* Nothing that has to happen is kept from happening: no spawn, and no listen,
\* is owed.
AtMostTwo ==
    Cardinality({s \in Spawn : at[s] # "unborn"})
        + Cardinality({v \in Server : server[v] # "none"}) <= 2

MCSpec == Init /\ [][Next /\ AtMostTwo']_vars

Symmetry == Permutations(Spawn) \cup Permutations(Request) \cup Permutations(Server)
=============================================================================
