--------------------------- MODULE MCContainerStore ---------------------------
(* Instances of ContainerStore for TLC. *)
EXTENDS ContainerStore, TLC

\* All containers are re-creations under one name.
OneName == [i \in Id |-> CHOOSE n \in Name : TRUE]
===============================================================================
