---------------------------- MODULE MCCampaigns ----------------------------
(* Instances of Campaigns for TLC. *)
EXTENDS Campaigns, TLC

(* Requests are interchangeable, and so are contacts. *)
Symmetry == Permutations(Requests) \cup Permutations(Contacts)

(* The contacts a behaviour has had to do with. *)
InPlay ==
    todo \cup optedSnap \cup optedOut
      \cup {c \in Contacts : c = cur \/ \E r \in Requests : sent[r][c] > 0}

(* Two contacts where nothing goes wrong, one where crashes and faults do. *)
TroubleWithOneContact ==
    crashes + faults > 0 =>
        /\ Cardinality(InPlay) <= 1
        /\ row.totalContacts <= 1
        /\ \A r \in Requests : req[r].matched <= 1
=============================================================================
