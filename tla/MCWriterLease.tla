----------------------------- MODULE MCWriterLease -----------------------------
(* A small instance of WriterLease for TLC: two windows with one attempt each, *)
(* room for faults and foreign files, and a third process that can get the pid *)
(* of the first window once that is dead.                                      *)
EXTENDS WriterLease, TLC

CONSTANTS a1, a2, h1, h2, h3, p1, p2

PairAttempts == {a1, a2}
MCHosts == {h1, h2, h3}
MCPids == {p1, p2}
PairHostOf == (a1 :> h1) @@ (a2 :> h2)
PairPidOf == (h1 :> p1) @@ (h2 :> p2) @@ (h3 :> p1)

===============================================================================
