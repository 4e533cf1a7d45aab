---------------------------- MODULE MC_Sessions ----------------------------
(* Two sessions, one Execute call each: a session closed by its user and   *)
(* by db.Close at once, next to one that is not.                           *)
EXTENDS Sessions
CONSTANTS s1, s2
MCSess == {s1, s2}

\* The state without the ghosts cancelled, waited, ranClosed and unguarded:
\* no guard reads them, so two states that differ only in them have the
\* same futures, and the liveness properties do not mention them.
NoGhosts == << created, sessions, dbmu, smu, closed, cancelFn, wg, cb, epc,
               round, cpc, dpc, dcur, todo >>
=============================================================================
