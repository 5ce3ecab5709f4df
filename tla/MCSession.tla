----------------------------- MODULE MCSession -----------------------------
(* Instances of Session.                                                   *)
EXTENDS Session

CONSTANT w1

\* The mixes of operations whose interplay is looked at; preferences and API
\* updates are kept apart.
AllMixes ==
    {{"open", "close", "change", "request", "configure", "ata", "idle"},
     {"change", "request", "retain", "warm"},
     {"close", "api"},
     {"open", "request", "watch", "change"},
     {"request", "handler", "retain", "shutdown"},
     {"close", "request", "handler", "idle", "shutdown"}}
============================================================================
