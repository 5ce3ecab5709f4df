--------------------------- MODULE MCCheckerPool ---------------------------
(***************************************************************************)
(* Small instances of CheckerPool for TLC.  Goroutines, requests, files    *)
(* and diagnostics are interchangeable; slots and checkers are not, since  *)
(* the pool goes through them in order.                                    *)
(***************************************************************************)
EXTENDS CheckerPool, TLC

\* Calls of every pair of lifetimes; global diagnostics where only the
\* diagnostics checker is used.
Pairs ==
    {[lives |-> {"query", "api"}, diags |-> {}],
     [lives |-> {"query", "diagnostics"}, diags |-> {}],
     [lives |-> {"diagnostics", "api"}, diags |-> Diag]}

Symmetry == Permutations(Thread) \cup Permutations(Request) \cup Permutations(File)
                \cup Permutations(Diag)
=============================================================================
