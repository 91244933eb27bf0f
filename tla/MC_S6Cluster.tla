----------------------------- MODULE MC_S6Cluster -----------------------------
(* Instantiation of S6Cluster for TLC: a few worker ids as model values. *)
EXTENDS S6Cluster

CONSTANTS c1, c2, c3, h1, h2

MC_Cids2 == {c1, c2}
MC_Cids3 == {c1, c2, c3}
MC_Rogue == {c2}
=============================================================================
