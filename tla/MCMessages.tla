---------------------------- MODULE MCMessages -----------------------------
(* Instances of Messages for TLC. *)
EXTENDS Messages, TLC

(* Rows are interchangeable, and so are sids and callback handlers. *)
Symmetry == Permutations(Messages) \cup Permutations(Sids) \cup Permutations(Hooks)

(* Two messages where nothing goes wrong, one where crashes and faults do. *)
TroubleWithOneMessage ==
    crashes + faults > 0 => Cardinality({m \in Messages : spc[m] # "idle"}) <= 1
=============================================================================
