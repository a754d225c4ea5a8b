------------------------------ MODULE KeyLock ------------------------------
(***************************************************************************)
(* What the locker promises: one lock per public key.  Its state is seen   *)
(* from both sides: holder is what the next caller who asks for the key    *)
(* meets, held what each goroutine has been given and not yet given back.  *)
(* They move together, so a key cannot become free under the goroutine     *)
(* that holds it, and only that goroutine gives it back.                   *)
(***************************************************************************)
CONSTANTS Goroutines, Keys, NoOne

VARIABLES holder, held

lockVars == <<holder, held>>

Init ==
  /\ holder = [k \in Keys |-> NoOne]
  /\ held = [g \in Goroutines |-> {}]

Acquire(g, k) ==
  /\ holder[k] = NoOne
  /\ holder' = [holder EXCEPT ![k] = g]
  /\ held' = [held EXCEPT ![g] = held[g] \cup {k}]

Release(g, k) ==
  /\ holder[k] = g /\ k \in held[g]
  /\ holder' = [holder EXCEPT ![k] = NoOne]
  /\ held' = [held EXCEPT ![g] = held[g] \ {k}]

Next == \E g \in Goroutines, k \in Keys : Acquire(g, k) \/ Release(g, k)

Spec == Init /\ [][Next]_lockVars
=============================================================================
