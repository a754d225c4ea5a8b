---------------------------- MODULE MCKeyLocker ----------------------------
(***************************************************************************)
(* An instance of KeyLocker for TLC: two keys, wanted alone and together   *)
(* in both orders.                                                         *)
(***************************************************************************)
EXTENDS KeyLocker

CONSTANTS g1, g2, ka, kb, m1, m2, m3, m4

MCGoroutines == {g1, g2}
MCKeys       == {ka, kb}
\* A mutex per key, and one per goroutine that may be about to use a lost one.
MCMutexes    == {m1, m2, m3, m4}
MCBatches    == {<<ka>>, <<kb>>, <<ka, kb>>, <<kb, ka>>}
=============================================================================
