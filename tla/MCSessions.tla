----------------------------- MODULE MCSessions -----------------------------
(* One engine, memory for three sessions beside its primary one, of which  *)
(* two fit into the registry.                                              *)
EXTENDS Sessions, TLC

CONSTANTS main, s1, s2, s3, m1, m2, audio, video

MCHandles == {main, s1, s2, s3}
MCModules == {m1, m2}
MCKeys == {audio, video}
MCSymmetry ==
  Permutations({s1, s2, s3}) \union Permutations(MCModules)
    \union Permutations(MCKeys)
=============================================================================
