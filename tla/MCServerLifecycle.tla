--------------------------- MODULE MCServerLifecycle ---------------------------
(* Instances of ServerLifecycle for TLC: one server, nodes as model values. *)
EXTENDS ServerLifecycle, TLC

CONSTANTS s1, n1, n2

\* No node is told from another one but by its state.
Symmetry == Permutations(Nodes)
=============================================================================
