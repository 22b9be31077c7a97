---------------------------- MODULE MCDockerUpdate ----------------------------
(* Instances of DockerUpdate for TLC: update slots that do the same are interchangeable. *)
EXTENDS DockerUpdate, TLC

TaskSymmetry == Permutations(Task \ DryRun)
===============================================================================
