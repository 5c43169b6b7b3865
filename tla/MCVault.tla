------------------------------ MODULE MCVault ------------------------------
(***************************************************************************)
(* Small instances of Vault for TLC.                                       *)
(***************************************************************************)
EXTENDS Vault, TLC

\* All documents are uploaded with one name, or each with its own.
SameName == [d \in Doc |-> "report.pdf"]
OwnNames == [d \in Doc |-> d]

Symmetry == Permutations(Request) \cup Permutations(Folder)
            \cup Permutations(Doc)

=============================================================================
