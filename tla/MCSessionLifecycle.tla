------------------------- MODULE MCSessionLifecycle -------------------------
(* Instances of SessionLifecycle for TLC. *)
EXTENDS SessionLifecycle, TLC

(* Goroutines of a kind are interchangeable, and so are session ids. *)
Symmetry == Permutations(Sessions) \cup Permutations(Clients) \cup Permutations(Conns)
=============================================================================
