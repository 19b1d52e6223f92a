--------------------------- MODULE OptimisticLog ---------------------------
(***************************************************************************)
(* What the event store promises its callers.  A request names an          *)
(* aggregate, how many events the caller has seen there, and how many it   *)
(* adds; it is accepted whole, at most once, and only while nothing else   *)
(* has been added to that aggregate since.                                 *)
(***************************************************************************)
EXTENDS Integers

CONSTANTS Aggregates, Commands, Sizes, Unprepared

VARIABLES
  request,    \* what each command asks for, Unprepared before it exists
  size,       \* how many events each aggregate has
  accepted    \* the commands accepted

vars == <<request, size, accepted>>

Init ==
  /\ request = [c \in Commands |-> Unprepared]
  /\ size = [a \in Aggregates |-> 0]
  /\ accepted = {}

Ask(c) ==
  /\ request[c] = Unprepared
  /\ \E a \in Aggregates, n \in Sizes :
       request' = [request EXCEPT ![c] =
                     [aggregate |-> a, expected |-> size[a], size |-> n]]
  /\ UNCHANGED <<size, accepted>>

Accept(c) ==
  /\ request[c] # Unprepared /\ c \notin accepted
  /\ size[request[c].aggregate] = request[c].expected
  /\ size' = [size EXCEPT ![request[c].aggregate] = @ + request[c].size]
  /\ accepted' = accepted \cup {c}
  /\ UNCHANGED request

Next == \E c \in Commands : Ask(c) \/ Accept(c)

Spec == Init /\ [][Next]_vars
=============================================================================
