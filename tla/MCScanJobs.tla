----------------------------- MODULE MCScanJobs -----------------------------
(* Small instances of ScanJobs for TLC.                                    *)
EXTENDS ScanJobs, TLC

CONSTANTS tA, tB, cA, cB, j1

\* One collector for each of two tenants.
TenantOfTwo == cA :> tA @@ cB :> tB

\* A connector of one of them has the number of the job.
ConnOfOne == j1 :> tB

\* Requests in progress are interchangeable.
Symmetry == Permutations(Polls) \cup Permutations(Submits)
=============================================================================
