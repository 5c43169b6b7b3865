----------------------------- MODULE MCShares -----------------------------
(***************************************************************************)
(* Small instances of Shares for TLC.                                      *)
(***************************************************************************)
EXTENDS Shares, TLC

Symmetry == Permutations(Doc) \cup Permutations(Share) \cup Permutations(Owner)
            \cup Permutations(Visitor)

=============================================================================
