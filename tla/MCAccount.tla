----------------------------- MODULE MCAccount -----------------------------
(***************************************************************************)
(* Instances of Account for TLC.                                           *)
(***************************************************************************)
EXTENDS Account, TLC

OneBrowser == [t \in Tab |-> CHOOSE b \in Browser : TRUE]

\* The accounts, the passwords, the draws and the tabs of one browser are
\* interchangeable.
Symmetry == Permutations(User) \cup Permutations(Password)
              \cup Permutations(Draw) \cup Permutations(Tab)

=============================================================================
