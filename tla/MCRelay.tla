------------------------------ MODULE MCRelay ------------------------------
(* Small instances of Relay for TLC: results of each kind.                 *)
EXTENDS Relay, TLC

CONSTANTS r1, r2, r3

\* One result of each kind.
ResultsMixed == {r1, r2, r3}
KindMixed == r1 :> "ok" @@ r2 :> "nojob" @@ r3 :> "malformed"

\* Two deliverable results and one without a job.
KindGood == r1 :> "ok" @@ r2 :> "ok" @@ r3 :> "nojob"

\* A deliverable result and a malformed one.
ResultsPoison == {r1, r3}
KindPoison == r1 :> "ok" @@ r3 :> "malformed"
=============================================================================
