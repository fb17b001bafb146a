----------------------------- MODULE MCPairing ------------------------------
(***************************************************************************)
(* Two nodes; the configurations choose what happens to them.  No          *)
(* definition tells nodes or addresses apart, so the safety run permutes   *)
(* both and starts at every choice of homes.  The run in which nodes move  *)
(* starts at one: the others are the same up to the names of addresses.    *)
(***************************************************************************)
EXTENDS Pairing, TLC

\* No two nodes have one address.
Injective == {h \in [Nodes -> Addrs] : \A n, m \in Nodes : h[n] = h[m] => n = m}

OneHome == {CHOOSE h \in Injective : TRUE}

NodeSymmetry == Permutations(Nodes) \cup Permutations(Addrs)
=============================================================================
