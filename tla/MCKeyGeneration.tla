-------------------------- MODULE MCKeyGeneration --------------------------
(***************************************************************************)
(* Instances of KeyGeneration for TLC.                                     *)
(***************************************************************************)
EXTENDS KeyGeneration, TLC

CONSTANTS r1, r2

\* For safety only.
Symmetry == Permutations({r1, r2})

Ask(home, account, threshold, n) ==
  [home |-> home, account |-> account, threshold |-> threshold, n |-> n,
   allowed |-> TRUE]

\* Two servers; both may be asked for one account, and for another one at
\* the same time: the servers' mutexes are shared by all accounts.
PairRequests ==
  {Ask(1, "acc", 2, 2), Ask(2, "acc", 2, 2), Ask(2, "other", 2, 2)}

\* Three servers asked for 2-of-3 and 3-of-3, and what is refused.
TripleRequests ==
  {Ask(1, "acc", 2, 3), Ask(3, "acc", 3, 3), Ask(1, "acc", 1, 3),
   Ask(1, "acc", 2, 1), [Ask(2, "acc", 2, 3) EXCEPT !.allowed = FALSE]}
=============================================================================
