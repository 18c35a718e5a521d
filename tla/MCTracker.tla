----------------------------- MODULE MCTracker -----------------------------
(* Instance of Tracker for TLC: symmetry over clients and names. *)
EXTENDS Tracker, TLC

Symmetry == Permutations(Clients) \cup Permutations(Names)
              \cup Permutations(FileNames) \cup Permutations(Hashes)
=============================================================================
