-------------------------- MODULE MCHassDispatcher --------------------------
(* HassDispatcher on small instances: which goroutines and events there are. *)
EXTENDS HassDispatcher, TLC

CONSTANTS e1, e2, e3, p1, p2, c1, c2

ThreeEvents == {e1, e2, e3}
Callers2    == {p1, p2}
Closers2    == {c1, c2}

\* Events, producers and closers are interchangeable (safety runs only).
SymmEvents == Permutations(ThreeEvents)
Symm3 == SymmEvents \cup Permutations(Callers2) \cup Permutations(Closers2)
=============================================================================
