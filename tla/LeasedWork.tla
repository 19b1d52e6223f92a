----------------------------- MODULE LeasedWork -----------------------------
(***************************************************************************)
(* What the outbox promises its workers: nobody starts on an item while    *)
(* somebody else is at work on it or after it is done, and done is final.  *)
(* A hold may lapse at any time; an item that nobody holds may still be    *)
(* finished by a worker whose last transaction was already under way.      *)
(***************************************************************************)
CONSTANTS Items, Workers, Nobody

VARIABLES
  at,     \* the worker at work on each item, or Nobody
  done    \* the items finished

vars == <<at, done>>

Init ==
  /\ at = [i \in Items |-> Nobody]
  /\ done = {}

\* A worker starts on some items.
Start(w, items) ==
  /\ \A i \in items : at[i] = Nobody /\ i \notin done
  /\ at' = [i \in Items |-> IF i \in items THEN w ELSE at[i]]
  /\ UNCHANGED done

\* Holds lapse.
Lapse(items) ==
  /\ at' = [i \in Items |-> IF i \in items THEN Nobody ELSE at[i]]
  /\ UNCHANGED done

\* An item is finished, by the worker at work on it if there is one.
Finish(w, i) ==
  /\ at[i] \in {w, Nobody} /\ i \notin done
  /\ at' = [at EXCEPT ![i] = Nobody]
  /\ done' = done \cup {i}

Next ==
  \/ \E w \in Workers, items \in SUBSET Items : Start(w, items)
  \/ \E items \in SUBSET Items : Lapse(items)
  \/ \E w \in Workers, i \in Items : Finish(w, i)

Spec == Init /\ [][Next]_vars
=============================================================================
