--------------------------- MODULE MCWorkerBoot ---------------------------
(* WorkerBoot on the workers, prompts and bound its configurations name.   *)
EXTENDS WorkerBoot
=============================================================================
