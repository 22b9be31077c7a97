--------------------------- MODULE MCTriggerDispatch ---------------------------
(* Instances of TriggerDispatch for TLC. *)
EXTENDS TriggerDispatch, TLC

CONSTANTS d, g, a, b,     \* docker, gotify, an agent's trigger, a batch one
          c1, c2

\* gotify is set to an order before docker's.
NotifyFirst == (g :> 1) @@ (d :> 2) @@ (a :> 3) @@ (b :> 4)

\* The default order: by id.
ByName == (d :> 1) @@ (g :> 2)

\* A label of the second container excludes docker's trigger.
DockerIgnores == {<<d, c2>>}
===============================================================================
