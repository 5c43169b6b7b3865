---------------------------- MODULE MCSessions ----------------------------
(***************************************************************************)
(* Small instances of Sessions for TLC.                                    *)
(***************************************************************************)
EXTENDS Sessions, TLC

Symmetry == Permutations(Session) \cup Permutations(Request)
            \cup Permutations(Touch)

=============================================================================
