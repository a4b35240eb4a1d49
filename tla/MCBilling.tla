------------------------------- MODULE MCBilling -------------------------------
EXTENDS Billing, TLC

CONSTANTS p1, p2

Symmetry == Permutations(Procs)

=============================================================================
