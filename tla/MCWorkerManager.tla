-------------------------- MODULE MCWorkerManager --------------------------
(* Model values and symmetry for the runs of WorkerManager.                *)
EXTENDS WorkerManager, TLC

AllRequests == AllActs
ExpireRequests == {"expire"}
NoRequests == {}

\* The statuses the code leaves in the table.
LeftStatuses == {"CREATED", "STARTING", "RUNNING", "STOPPING", "STOPPED",
                 "ERROR", "RECOVERING", "SUSPENDED"}
OnlineStatuses == {"RUNNING", "STARTING"}

Symmetry == Permutations(Bots) \cup Permutations(Slots) \cup Permutations(Requests)
=============================================================================
