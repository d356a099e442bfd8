----------------------------- MODULE MCWorkbench -----------------------------
(* Small instances of Workbench for TLC.                                     *)
EXTENDS Workbench, TLC

Symmetry == Permutations(Sessions) \union Permutations(Events)

=============================================================================
