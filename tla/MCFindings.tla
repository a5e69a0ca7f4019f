----------------------------- MODULE MCFindings -----------------------------
(* Small instances of Findings for TLC: findings, tickets and slots are    *)
(* interchangeable.                                                        *)
EXTENDS Findings, TLC

Symmetry == Permutations(Events) \cup Permutations(Tickets)
              \cup Permutations(Scans) \cup Permutations(Drafts)
=============================================================================
