--------------------------- MODULE Governance_proofs ---------------------------
(***************************************************************************)
(* What the policies, the readiness answers, the catalog, the posture and  *)
(* the assessments promise, for any number of policies, criteria,          *)
(* frameworks, controls, findings and requests, in whatever order.         *)
(***************************************************************************)
EXTENDS Catalog, Policies, Readiness, Posture, Assessment, FiniteSetTheorems, FunctionTheorems,
        SequenceTheorems, WellFoundedInduction, TLAPS

\* A set of numbers that is not empty has a least one.
LEMMA LeastIsThere ==
  ASSUME NEW S, S \subseteq Nat, S # {}
  PROVE  \E n \in S : \A m \in S : n <= m
<1>1. IsWellFoundedOn(OpToRel(<,Nat), Nat)
  BY NatLessThanWellFounded
<1>2. PICK n \in S : \A m \in S : <<m, n>> \notin OpToRel(<,Nat)
  BY <1>1, WFMin
<1>3. \A m \in S : ~(m < n)
  BY <1>2 DEF OpToRel
<1>. QED  BY <1>3

-------------------------------------------------------------------------------
(* Policies.  An evaluation carries a copy of each row it loaded.  A row   *)
(* that was written as often as its copy was is its copy still, so that    *)
(* what a commit finds changed tells whether another came between.         *)

\* When the connectors and the events of a verdict were read, and since when
\* its evaluation was under way.
ReadMoments == [since : Nat, first : Nat, second : Nat]
ReadIn(read) ==
  /\ read \in ReadMoments
  /\ 1 <= read.since /\ read.since <= read.first /\ read.first <= read.second /\ read.second <= Last

\* A policy's row: also one that is not there yet, or not any more.
PolicyRows ==
  [rule : PolicyRules \cup {Absent.rule}, status : Verdicts \cup {"none", "deleted"},
   result : Verdicts \cup {"none"}, basis : SUBSET ReadMoments, writes : Nat]

Evaluation(r) ==
  /\ r = [ids |-> r.ids, loaded |-> r.loaded, since |-> r.since, read |-> r.read, verdict |-> r.verdict]
  /\ r.ids \subseteq PolicyIds
  /\ DOMAIN r.read \subseteq r.ids /\ DOMAIN r.verdict \subseteq DOMAIN r.read

PoliciesTyped ==
  /\ worlds \in Seq(Worlds) /\ Last \in Nat /\ Last >= 1
  /\ policy \in [PolicyIds -> PolicyRows]
  /\ evaluation = [e \in Evaluators |-> evaluation[e]]
  /\ \A e \in Evaluators : Evaluation(evaluation[e])

\* A row is a status that stands for its verdict, and an attested policy's row
\* no verdict at all.
RowSound(p, row) ==
  /\ row.rule.mode # "none" => row.status \in Verdicts
  /\ row.rule.mode = "manual" => row.status = "not_assessed"
  /\ p \notin muddled /\ row.rule.mode # "none" =>
       IF row.result = "none" THEN row.status = "not_assessed"
       ELSE /\ row.status = row.result
            /\ row.rule.mode # "manual" =>
                 \E read \in row.basis : ReadIn(read) /\ row.status = VerdictOf(row.rule, read)
RowsSound == \A p \in PolicyIds : RowSound(p, policy[p])

\* A copy of a row is a row there was: the row still, or older.
CopyOf(p, c) ==
  /\ c \in PolicyRows /\ c.rule.mode # "none"
  /\ c.rule.mode = "manual" => c.status = "not_assessed"
  /\ Exists(p) => /\ policy[p].rule = c.rule /\ c.writes <= policy[p].writes
                  /\ c.writes = policy[p].writes => policy[p] = c
  /\ ~Exists(p) => policy[p].status = "deleted"
CopiesSound == \A e \in Evaluators : \A p \in evaluation[e].ids : CopyOf(p, evaluation[e].loaded[p])

\* An evaluation reads after it began.
SlotReads(r) ==
  /\ r.ids # {} => r.since \in Nat /\ 1 <= r.since /\ r.since <= Last
  /\ \A p \in DOMAIN r.read : ReadIn(r.read[p]) /\ r.read[p].since = r.since
ReadsSound == \A e \in Evaluators : SlotReads(evaluation[e])

\* What a copy was found to be, by what there was when it was read.
FoundThen(c, v, read) ==
  /\ v \in Verdicts
  /\ IF c.rule.mode = "manual" THEN v = c.status ELSE v = VerdictOf(c.rule, read)
SlotFound(r) == \A p \in DOMAIN r.verdict : FoundThen(r.loaded[p], r.verdict[p], r.read[p])
VerdictsSound == \A e \in Evaluators : SlotFound(evaluation[e])

PoliciesInv == PoliciesTyped /\ RowsSound /\ CopiesSound /\ ReadsSound /\ VerdictsSound

-------------------------------------------------------------------------------
\* A verdict is one of the three.
LEMMA VerdictTyped ==
  ASSUME NEW rule, NEW read
  PROVE  VerdictOf(rule, read) \in Verdicts
BY DEF VerdictOf, Verdict, Verdicts

\* What was read stays what it was, whatever becomes of connectors and events.
LEMMA ReadStays ==
  ASSUME PoliciesTyped, NEW rule, NEW read, ReadIn(read),
         \/ worlds' = worlds
         \/ \E w : worlds' = Append(worlds, w)
  PROVE  ReadIn(read)' /\ VerdictOf(rule, read)' = VerdictOf(rule, read)
<1>1. PICK n : n = Len(worlds)
  OBVIOUS
<1>2. n \in Nat /\ worlds \in Seq(Worlds)
  BY <1>1 DEF PoliciesTyped, Last
<1>3. Len(worlds') \in Nat /\ n <= Len(worlds') /\ \A i \in 1..n : worlds'[i] = worlds[i]
  <2>1. CASE worlds' = worlds
    BY <1>1, <1>2, <2>1
  <2>2. CASE \E w : worlds' = Append(worlds, w)
    BY <1>1, <1>2, <2>2
  <2>. QED  BY <2>1, <2>2
<1>4. read.first \in 1..n /\ read.second \in 1..n
  BY <1>1, <1>2 DEF ReadIn, ReadMoments, Last
<1>5. worlds'[read.first] = worlds[read.first] /\ worlds'[read.second] = worlds[read.second]
  BY <1>3, <1>4
<1>6. ReadIn(read)'
  BY <1>1, <1>2, <1>3 DEF ReadIn, ReadMoments, Last
<1>7. VerdictOf(rule, read)' = VerdictOf(rule, read)
  BY <1>5 DEF VerdictOf
<1>. QED  BY <1>6, <1>7

\* Nothing is loaded by a slot that rests.
LEMMA RestingTyped ==
  Evaluation(Resting) /\ Resting.ids = {} /\ DOMAIN Resting.read = {} /\ DOMAIN Resting.verdict = {}
BY DEF Evaluation, Resting

\* The invariant looks at the slots one by one: a step that leaves the rows and
\* changes one slot has that slot to account for.
LEMMA OneSlotMoves ==
  ASSUME PoliciesInv, NEW e \in Evaluators, NEW r, Evaluation(r),
         evaluation' = [evaluation EXCEPT ![e] = r],
         UNCHANGED <<worlds, policy, muddled>>,
         \A p \in r.ids : CopyOf(p, r.loaded[p]),
         SlotReads(r), SlotFound(r)
  PROVE  PoliciesInv'
<1>0. \A d \in Evaluators : evaluation'[d] = IF d = e THEN r ELSE evaluation[d]
  BY DEF PoliciesInv, PoliciesTyped
<1>1. PoliciesTyped'
  BY DEF PoliciesInv, PoliciesTyped, Last
<1>2. RowsSound'
  BY DEF PoliciesInv, RowsSound, RowSound, ReadIn, Last, VerdictOf
<1>3. CopiesSound'
  BY <1>0 DEF PoliciesInv, CopiesSound, CopyOf, Exists
<1>4. ReadsSound'
  BY <1>0 DEF PoliciesInv, ReadsSound, SlotReads, ReadIn, Last
<1>5. VerdictsSound'
  BY <1>0 DEF PoliciesInv, VerdictsSound, SlotFound, FoundThen, VerdictOf
<1>. QED  BY <1>1, <1>2, <1>3, <1>4, <1>5 DEF PoliciesInv

\* An evaluation that has loaded its rows has read and judged nothing.
LEMMA LoadingTyped ==
  ASSUME NEW ids, NEW loaded, ids \subseteq PolicyIds
  PROVE  LET r == Loading(ids, loaded)
         IN  /\ Evaluation(r) /\ r.ids = ids /\ r.loaded = loaded /\ r.since = Last
             /\ DOMAIN r.read = {} /\ DOMAIN r.verdict = {}
<1>1. PICK none : none = <<>>
  OBVIOUS
<1>2. PICK o : o = [Resting EXCEPT !.ids = ids]
  OBVIOUS
<1>3. o = [ids |-> ids, loaded |-> none, since |-> 0, read |-> none, verdict |-> none]
  BY <1>1, <1>2 DEF Resting
<1>4. PICK u : u = [o EXCEPT !.loaded = loaded]
  OBVIOUS
<1>5. u = [ids |-> ids, loaded |-> loaded, since |-> 0, read |-> none, verdict |-> none]
  BY <1>3, <1>4
<1>6. PICK r : r = [u EXCEPT !.since = Last]
  OBVIOUS
<1>7. r = [ids |-> ids, loaded |-> loaded, since |-> Last, read |-> none, verdict |-> none]
  BY <1>5, <1>6
<1>8. /\ Evaluation(r) /\ r.ids = ids /\ r.loaded = loaded /\ r.since = Last
      /\ DOMAIN r.read = {} /\ DOMAIN r.verdict = {}
  BY <1>1, <1>7 DEF Evaluation
<1>. QED  BY <1>2, <1>4, <1>6, <1>8 DEF Loading

\* EvaluateAll loads what is there.
LEMMA EvaluateAllSound ==
  ASSUME PoliciesInv, NEW e \in Evaluators, EvaluateAll(e)
  PROVE  PoliciesInv'
<1>1. PICK all : all = {p \in PolicyIds : Exists(p)}
  OBVIOUS
<1>2. PICK r : r = Loading(all, [p \in all |-> policy[p]])
  OBVIOUS
<1>3. evaluation' = [evaluation EXCEPT ![e] = r] /\ UNCHANGED <<worlds, policy, muddled>>
  BY <1>1, <1>2 DEF EvaluateAll
<1>4. /\ Evaluation(r) /\ r.ids = all /\ r.loaded = [p \in all |-> policy[p]] /\ r.since = Last
      /\ DOMAIN r.read = {} /\ DOMAIN r.verdict = {}
  <2>1. all \subseteq PolicyIds
    BY <1>1
  <2>. QED  BY <1>2, <2>1, LoadingTyped
<1>5. \A p \in r.ids : CopyOf(p, r.loaded[p])
  <2>. SUFFICES ASSUME NEW p \in PolicyIds, Exists(p) PROVE CopyOf(p, policy[p])
    BY <1>1, <1>4
  <2>. QED  BY DEF PoliciesInv, PoliciesTyped, PolicyRows, RowsSound, RowSound, CopyOf, Exists
<1>6. SlotReads(r) /\ SlotFound(r)
  BY <1>4 DEF PoliciesInv, PoliciesTyped, SlotReads, SlotFound
<1>. QED  BY <1>3, <1>4, <1>5, <1>6, OneSlotMoves

\* Turn reads, within the evaluation's time, and judges nothing yet.
LEMMA TurnSound ==
  ASSUME PoliciesInv, NEW e \in Evaluators, NEW p \in PolicyIds, Turn(e, p)
  PROVE  PoliciesInv'
<1>1. PICK o : o = evaluation[e]
  OBVIOUS
<1>2. PICK now : now = [since |-> o.since, first |-> Last, second |-> Last]
  OBVIOUS
<1>3. PICK read : read = With(o.read, p, now)
  OBVIOUS
<1>4. Evaluation(o) /\ SlotReads(o) /\ SlotFound(o)
  BY <1>1 DEF PoliciesInv, PoliciesTyped, ReadsSound, VerdictsSound
<1>5. p \in o.ids /\ p \notin DOMAIN o.read /\ UNCHANGED <<worlds, policy, muddled>>
  BY <1>1 DEF Turn
<1>6. PICK r : r = [ids |-> o.ids, loaded |-> o.loaded, since |-> o.since, read |-> read, verdict |-> o.verdict]
  OBVIOUS
<1>7. evaluation' = [evaluation EXCEPT ![e] = r]
  <2>1. [o EXCEPT !.read = read] = r
    BY <1>4, <1>6 DEF Evaluation
  <2>2. evaluation' = [evaluation EXCEPT ![e] = [o EXCEPT !.read = read]]
    BY <1>1, <1>2, <1>3 DEF Turn
  <2>. QED  BY <2>1, <2>2
<1>8. /\ DOMAIN read = DOMAIN o.read \cup {p} /\ read[p] = now
      /\ \A q \in DOMAIN o.read : read[q] = o.read[q]
  BY <1>3, <1>5 DEF With
<1>9. Evaluation(r)
  BY <1>4, <1>5, <1>6, <1>8 DEF Evaluation
<1>10. \A q \in r.ids : CopyOf(q, r.loaded[q])
  BY <1>1, <1>6 DEF PoliciesInv, CopiesSound
<1>11. ReadIn(now) /\ now.since = o.since
  <2>1. Last \in Nat /\ o.since \in Nat /\ 1 <= o.since /\ o.since <= Last
    BY <1>4, <1>5 DEF SlotReads, PoliciesInv, PoliciesTyped
  <2>2. now \in ReadMoments /\ now.since = o.since /\ now.first = Last /\ now.second = Last
    BY <1>2, <2>1 DEF ReadMoments
  <2>. QED  BY <2>1, <2>2 DEF ReadIn
<1>12. SlotReads(r)
  BY <1>4, <1>6, <1>8, <1>11 DEF SlotReads
<1>13. SlotFound(r)
  <2>1. DOMAIN o.verdict \subseteq DOMAIN o.read
    BY <1>4 DEF Evaluation
  <2>. QED  BY <1>4, <1>6, <1>8, <2>1 DEF SlotFound
<1>. QED  BY <1>5, <1>7, <1>9, <1>10, <1>12, <1>13, OneSlotMoves

\* Judge adds one verdict, on the copy that was loaded.
LEMMA JudgeSound ==
  ASSUME PoliciesInv, NEW e \in Evaluators, NEW p \in PolicyIds, Judge(e, p)
  PROVE  PoliciesInv'
<1>1. PICK o : o = evaluation[e]
  OBVIOUS
<1>2. PICK now : now = [since |-> o.since, first |-> o.read[p].first, second |-> Last]
  OBVIOUS
<1>3. PICK v : v = Outcome(o, p)
  OBVIOUS
<1>4. PICK read : read = With(o.read, p, now)
  OBVIOUS
<1>5. PICK verdict : verdict = With(o.verdict, p, v)
  OBVIOUS
<1>6. Evaluation(o) /\ SlotReads(o) /\ SlotFound(o)
  BY <1>1 DEF PoliciesInv, PoliciesTyped, ReadsSound, VerdictsSound
<1>7. p \in DOMAIN o.read /\ p \notin DOMAIN o.verdict /\ p \in o.ids /\ UNCHANGED <<worlds, policy, muddled>>
  BY <1>1, <1>6 DEF Judge, Evaluation
<1>8. PICK r : r = [ids |-> o.ids, loaded |-> o.loaded, since |-> o.since, read |-> read, verdict |-> verdict]
  OBVIOUS
<1>9. evaluation' = [evaluation EXCEPT ![e] = r]
  <2>1. PICK half : half = [o EXCEPT !.read = read]
    OBVIOUS
  <2>2. half = [ids |-> o.ids, loaded |-> o.loaded, since |-> o.since, read |-> read, verdict |-> o.verdict]
    BY <1>6, <2>1 DEF Evaluation
  <2>3. [half EXCEPT !.verdict = verdict] = r
    BY <1>8, <2>2
  <2>4. evaluation' = [evaluation EXCEPT ![e] = [half EXCEPT !.verdict = verdict]]
    BY <1>1, <1>2, <1>3, <1>4, <1>5, <2>1 DEF Judge
  <2>. QED  BY <2>3, <2>4
<1>10. /\ DOMAIN read = DOMAIN o.read \cup {p} /\ read[p] = now
       /\ \A q \in DOMAIN o.read : q # p => read[q] = o.read[q]
       /\ DOMAIN verdict = DOMAIN o.verdict \cup {p} /\ verdict[p] = v
       /\ \A q \in DOMAIN o.verdict : q # p /\ verdict[q] = o.verdict[q]
  BY <1>4, <1>5, <1>7 DEF With
<1>11. Evaluation(r)
  BY <1>6, <1>7, <1>8, <1>10 DEF Evaluation
<1>12. \A q \in r.ids : CopyOf(q, r.loaded[q])
  BY <1>1, <1>8 DEF PoliciesInv, CopiesSound
<1>13. ReadIn(now) /\ now.since = o.since
  <2>1. Last \in Nat /\ ReadIn(o.read[p]) /\ o.read[p].since = o.since
    BY <1>6, <1>7 DEF SlotReads, PoliciesInv, PoliciesTyped
  <2>2. /\ o.since \in Nat /\ o.read[p].first \in Nat /\ 1 <= o.since
        /\ o.since <= o.read[p].first /\ o.read[p].first <= Last
    BY <2>1 DEF ReadIn, ReadMoments
  <2>3. now \in ReadMoments /\ now.since = o.since /\ now.first = o.read[p].first /\ now.second = Last
    BY <1>2, <2>1, <2>2 DEF ReadMoments
  <2>. QED  BY <2>1, <2>2, <2>3 DEF ReadIn
<1>14. SlotReads(r)
  BY <1>6, <1>8, <1>10, <1>13 DEF SlotReads
<1>15. SlotFound(r)
  <2>1. ASSUME NEW q \in DOMAIN o.verdict
        PROVE  FoundThen(r.loaded[q], r.verdict[q], r.read[q])
    <3>1. q \in DOMAIN o.read /\ q # p
      BY <1>6, <1>7 DEF Evaluation
    <3>. QED  BY <1>6, <1>8, <1>10, <3>1 DEF SlotFound
  <2>2. FoundThen(o.loaded[p], v, now)
    <3>1. CopyOf(p, o.loaded[p])
      BY <1>1, <1>7 DEF PoliciesInv, CopiesSound
    <3>2. CASE o.loaded[p].rule.mode = "manual"
      BY <1>3, <3>1, <3>2 DEF Outcome, CopyOf, FoundThen, Verdicts
    <3>3. CASE o.loaded[p].rule.mode # "manual"
      <4>1. v = VerdictOf(o.loaded[p].rule, now)
        BY <1>2, <1>3, <3>3 DEF Outcome, VerdictOf
      <4>. QED  BY <3>3, <4>1, VerdictTyped DEF FoundThen
    <3>. QED  BY <3>2, <3>3
  <2>. QED  BY <1>8, <1>10, <2>1, <2>2 DEF SlotFound
<1>. QED  BY <1>7, <1>9, <1>11, <1>12, <1>14, <1>15, OneSlotMoves

\* A policy is created in a row that never was a policy's.
LEMMA CreateSound ==
  ASSUME PoliciesInv, NEW e \in Evaluators, NEW rule \in GivenRules, Create(e, rule)
  PROVE  PoliciesInv'
<1>1. PICK p : p = CHOOSE q \in PolicyIds : policy[q] = Absent /\ \A r \in PolicyIds : r < q => policy[r] # Absent
  OBVIOUS
<1>2. PICK row : row = [Absent EXCEPT !.rule = rule, !.status = "not_assessed"]
  OBVIOUS
<1>3. p \in PolicyIds /\ policy[p] = Absent
  <2>1. PICK free : free = {q \in PolicyIds : policy[q] = Absent}
    OBVIOUS
  <2>2. PICK q \in free : \A r \in free : q <= r
    <3>1. free \subseteq Nat /\ free # {}
      BY <2>1, PoliciesAssumption DEF Create
    <3>. QED  BY <3>1, LeastIsThere
  <2>3. PolicyIds \subseteq Nat
    BY PoliciesAssumption
  <2>4. \A r \in PolicyIds : r < q => policy[r] # Absent
    BY <2>1, <2>2, <2>3
  <2>. QED  BY <1>1, <2>1, <2>2, <2>4
<1>4. row = [rule |-> rule, status |-> "not_assessed", result |-> "none", basis |-> {}, writes |-> 0]
  <2>1. PICK half : half = [Absent EXCEPT !.rule = rule]
    OBVIOUS
  <2>2. half = [rule |-> rule, status |-> "none", result |-> "none", basis |-> {}, writes |-> 0]
    BY <2>1 DEF Absent
  <2>3. row = [half EXCEPT !.status = "not_assessed"]
    BY <1>2, <2>1
  <2>. QED  BY <2>2, <2>3
<1>5. rule \in PolicyRules /\ rule.mode # "none"
  BY RulesAssumption DEF PolicyRules, Operators
<1>6. row \in PolicyRows /\ row.rule = rule /\ row.status = "not_assessed" /\ row.result = "none" /\ row.writes = 0
  BY <1>4, <1>5 DEF PolicyRows, Verdicts
<1>7. policy' = [policy EXCEPT ![p] = row] /\ UNCHANGED <<worlds, muddled>>
  BY <1>1, <1>2 DEF Create
<1>8. policy[p].rule.mode = "none" /\ policy[p].status = "none"
  BY <1>3 DEF Absent
<1>9. DOMAIN policy = PolicyIds /\ policy'[p] = row /\ \A q \in PolicyIds : q # p => policy'[q] = policy[q]
  BY <1>3, <1>7 DEF PoliciesInv, PoliciesTyped
<1>10. ASSUME NEW q \in PolicyIds, NEW c, CopyOf(q, c) PROVE CopyOf(q, c)'
  BY <1>8, <1>9, <1>10 DEF CopyOf, Exists
<1>11. CopyOf(p, row)'
  BY <1>5, <1>6, <1>9 DEF CopyOf, Exists
<1>12. RowsSound'
  <2>. SUFFICES ASSUME NEW q \in PolicyIds PROVE RowSound(q, policy[q])'
    BY DEF RowsSound
  <2>1. CASE q = p
    BY <1>6, <1>9, <2>1 DEF RowSound, Verdicts
  <2>2. CASE q # p
    BY <1>7, <1>9, <2>2 DEF PoliciesInv, RowsSound, RowSound, ReadIn, Last, VerdictOf
  <2>. QED  BY <2>1, <2>2
<1>13. policy' \in [PolicyIds -> PolicyRows]
  BY <1>6, <1>7 DEF PoliciesInv, PoliciesTyped
<1>14. PICK r : /\ Evaluation(r) /\ SlotReads(r) /\ SlotFound(r)
                /\ \A q \in r.ids : q = p /\ r.loaded[q] = row
                /\ evaluation' = [evaluation EXCEPT ![e] = r]
  <2>1. CASE rule.mode = "manual"
    <3>1. evaluation' = evaluation /\ evaluation[e] = Resting
      BY <2>1 DEF Create, Vacant
    <3>2. evaluation' = [evaluation EXCEPT ![e] = Resting]
      BY <3>1 DEF PoliciesInv, PoliciesTyped
    <3>. QED  BY <3>2, RestingTyped DEF SlotReads, SlotFound
  <2>2. CASE rule.mode # "manual"
    <3>1. PICK ids : ids = {p}
      OBVIOUS
    <3>2. PICK r : r = Loading(ids, [q \in ids |-> row])
      OBVIOUS
    <3>3. evaluation' = [evaluation EXCEPT ![e] = r]
      BY <1>1, <1>2, <2>2, <3>1, <3>2 DEF Create
    <3>4. /\ Evaluation(r) /\ r.ids = ids /\ r.loaded = [q \in ids |-> row] /\ r.since = Last
          /\ DOMAIN r.read = {} /\ DOMAIN r.verdict = {}
      <4>1. ids \subseteq PolicyIds
        BY <1>3, <3>1
      <4>. QED  BY <3>2, <4>1, LoadingTyped
    <3>5. SlotReads(r) /\ SlotFound(r)
      BY <3>4 DEF PoliciesInv, PoliciesTyped, SlotReads, SlotFound
    <3>. QED  BY <3>1, <3>3, <3>4, <3>5
  <2>. QED  BY <2>1, <2>2
<1>15. PoliciesTyped'
  BY <1>7, <1>13, <1>14 DEF PoliciesInv, PoliciesTyped, Last
<1>16. CopiesSound'
  <2>. SUFFICES ASSUME NEW d \in Evaluators, NEW q \in evaluation'[d].ids
                PROVE  CopyOf(q, evaluation[d].loaded[q])'
    BY DEF CopiesSound
  <2>1. CASE d = e
    <3>1. evaluation'[d] = r
      BY <1>14, <2>1 DEF PoliciesInv, PoliciesTyped
    <3>2. q = p /\ r.loaded[q] = row
      BY <1>14, <3>1
    <3>. QED  BY <1>11, <3>1, <3>2 DEF CopyOf, Exists
  <2>2. CASE d # e
    <3>1. evaluation'[d] = evaluation[d]
      BY <1>14, <2>2 DEF PoliciesInv, PoliciesTyped
    <3>2. PICK c : c = evaluation[d].loaded[q]
      OBVIOUS
    <3>3. q \in PolicyIds /\ CopyOf(q, c)
      BY <3>1, <3>2 DEF PoliciesInv, PoliciesTyped, Evaluation, CopiesSound
    <3>4. CopyOf(q, c)'
      BY <1>10, <3>3
    <3>. QED  BY <3>1, <3>2, <3>4 DEF CopyOf, Exists
  <2>. QED  BY <2>1, <2>2
<1>17. \A d \in Evaluators : evaluation'[d] = IF d = e THEN r ELSE evaluation[d]
  BY <1>14 DEF PoliciesInv, PoliciesTyped
<1>18. ReadsSound'
  BY <1>7, <1>14, <1>17 DEF PoliciesInv, ReadsSound, SlotReads, ReadIn, Last
<1>19. VerdictsSound'
  BY <1>7, <1>14, <1>17 DEF PoliciesInv, VerdictsSound, SlotFound, FoundThen, VerdictOf
<1>. QED  BY <1>12, <1>15, <1>16, <1>18, <1>19 DEF PoliciesInv

\* What Judged makes of a row, field by field.
Rewritten(row, status, result, basis, writes) ==
  [row EXCEPT !.status = status, !.result = result, !.basis = basis, !.writes = writes]
LEMMA RewrittenRow ==
  ASSUME NEW row \in PolicyRows, NEW status, NEW result, NEW basis, NEW writes
  PROVE  Rewritten(row, status, result, basis, writes)
           = [rule |-> row.rule, status |-> status, result |-> result, basis |-> basis, writes |-> writes]
<1>1. PICK r1 : r1 = [row EXCEPT !.status = status]
  OBVIOUS
<1>2. PICK r2 : r2 = [r1 EXCEPT !.result = result]
  OBVIOUS
<1>3. PICK r3 : r3 = [r2 EXCEPT !.basis = basis]
  OBVIOUS
<1>4. PICK r4 : r4 = [r3 EXCEPT !.writes = writes]
  OBVIOUS
<1>5. r1 = [rule |-> row.rule, status |-> status, result |-> row.result, basis |-> row.basis, writes |-> row.writes]
  BY <1>1 DEF PolicyRows
<1>6. r2 = [rule |-> row.rule, status |-> status, result |-> result, basis |-> row.basis, writes |-> row.writes]
  BY <1>2, <1>5
<1>7. r3 = [rule |-> row.rule, status |-> status, result |-> result, basis |-> basis, writes |-> row.writes]
  BY <1>3, <1>6
<1>8. r4 = [rule |-> row.rule, status |-> status, result |-> result, basis |-> basis, writes |-> writes]
  BY <1>4, <1>7
<1>. QED  BY <1>1, <1>2, <1>3, <1>4, <1>8 DEF Rewritten

\* One row and the verdict it gets: a row that changed since it was loaded is
\* muddled, another stands for its verdict.
LEMMA JudgedSound ==
  ASSUME PoliciesInv, NEW e \in Evaluators, NEW p \in evaluation[e].ids,
         p \in DOMAIN evaluation[e].verdict, Exists(p),
         NEW row, row = Judged(evaluation[e], p)
  PROVE  /\ row \in PolicyRows /\ row.rule = policy[p].rule /\ row.writes = policy[p].writes + 1
         /\ row.status \in Verdicts
         /\ row.rule.mode = "manual" => row.status = "not_assessed"
         /\ policy[p].writes = evaluation[e].loaded[p].writes =>
              /\ row.result # "none" /\ row.status = row.result
              /\ row.rule.mode # "manual" =>
                   \E read \in row.basis : ReadIn(read) /\ row.status = VerdictOf(row.rule, read)
<1>1. PICK c : c = evaluation[e].loaded[p]
  OBVIOUS
<1>2. PICK v : v = evaluation[e].verdict[p]
  OBVIOUS
<1>3. PICK b : b = evaluation[e].read[p]
  OBVIOUS
<1>4. p \in PolicyIds
  BY DEF PoliciesInv, PoliciesTyped, Evaluation
<1>5. PICK now : now = policy[p] /\ now \in PolicyRows
  BY <1>4 DEF PoliciesInv, PoliciesTyped
<1>6. CopyOf(p, c) /\ FoundThen(c, v, b) /\ ReadIn(b)
  <2>1. p \in DOMAIN evaluation[e].read
    BY DEF PoliciesInv, PoliciesTyped, Evaluation
  <2>. QED  BY <1>1, <1>2, <1>3, <2>1 DEF PoliciesInv, CopiesSound, VerdictsSound, SlotFound, ReadsSound, SlotReads
<1>7. now.rule = c.rule /\ now.rule.mode # "none" /\ (c.writes = now.writes => now = c)
  BY <1>5, <1>6 DEF CopyOf, Exists
<1>8. /\ now.status \in Verdicts /\ now.result \in Verdicts \cup {"none"} /\ now.writes \in Nat
      /\ now.rule.mode = "manual" => now.status = "not_assessed"
  BY <1>4, <1>5, <1>7 DEF PoliciesInv, RowsSound, RowSound, PolicyRows
<1>9. /\ v \in Verdicts /\ b \in ReadMoments
      /\ c.rule.mode = "manual" => v = c.status
      /\ c.rule.mode # "manual" => v = VerdictOf(c.rule, b)
  BY <1>6 DEF FoundThen, ReadIn
<1>10. PICK status : status = Kept(c.status, now.status, v)
  OBVIOUS
<1>11. PICK result : result = Kept(c.result, now.result, v)
  OBVIOUS
<1>12. PICK writes : writes = now.writes + 1
  OBVIOUS
<1>13. row = [rule |-> now.rule, status |-> status, result |-> result, basis |-> {b}, writes |-> writes]
  <2>1. PICK basis : basis = {b}
    OBVIOUS
  <2>2. row = Rewritten(now, status, result, basis, writes)
    BY <1>1, <1>2, <1>3, <1>5, <1>10, <1>11, <1>12, <2>1 DEF Judged, Rewritten
  <2>3. Rewritten(now, status, result, basis, writes)
          = [rule |-> now.rule, status |-> status, result |-> result, basis |-> basis, writes |-> writes]
    BY <1>5, RewrittenRow
  <2>. QED  BY <2>1, <2>2, <2>3
<1>14. status \in Verdicts /\ result \in Verdicts \cup {"none"} /\ writes \in Nat
  BY <1>8, <1>9, <1>10, <1>11, <1>12 DEF Kept
<1>15. row \in PolicyRows
  BY <1>5, <1>9, <1>13, <1>14 DEF PolicyRows
<1>16. c.rule.mode = "manual" => c.status = "not_assessed"
  BY <1>6 DEF CopyOf
<1>17. now.rule.mode = "manual" => status = "not_assessed"
  BY <1>7, <1>8, <1>9, <1>10, <1>16 DEF Kept
<1>18. c.writes = now.writes => status = v /\ result = v
  BY <1>7, <1>10, <1>11 DEF Kept
<1>. QED  BY <1>1, <1>5, <1>6, <1>7, <1>9, <1>12, <1>13, <1>14, <1>15, <1>17, <1>18 DEF Verdicts

\* A copy stays a copy of a row that is rewritten, and of one that is deleted.
LEMMA CopyKept ==
  ASSUME NEW p, NEW c, CopyOf(p, c), policy[p].writes \in Nat, c.writes \in Nat,
         \/ policy'[p] = policy[p]
         \/ policy'[p].rule = policy[p].rule /\ policy'[p].writes = policy[p].writes + 1
            /\ Exists(p)
         \/ policy'[p].rule.mode = "none" /\ policy'[p].status = "deleted"
  PROVE  CopyOf(p, c)'
BY DEF CopyOf, Exists

\* Commit writes what the evaluation found, and rests.
LEMMA CommitSound ==
  ASSUME PoliciesInv, NEW e \in Evaluators, Commit(e)
  PROVE  PoliciesInv'
<1>1. PICK r : r = evaluation[e]
  OBVIOUS
<1>2. r.ids \subseteq PolicyIds /\ DOMAIN r.verdict = r.ids
  BY <1>1 DEF PoliciesInv, PoliciesTyped, Evaluation, Commit
<1>3. evaluation' = [evaluation EXCEPT ![e] = Resting] /\ UNCHANGED worlds
  BY DEF Commit
<1>4. /\ evaluation'[e] = Resting
      /\ \A d \in Evaluators : d # e => evaluation'[d] = evaluation[d]
  BY <1>3 DEF PoliciesInv, PoliciesTyped
<1>5. /\ policy' \in [PolicyIds -> PolicyRows]
      /\ \A p \in PolicyIds :
           \/ policy'[p] = policy[p]
           \/ policy'[p].rule = policy[p].rule /\ policy'[p].writes = policy[p].writes + 1 /\ Exists(p)
      /\ RowsSound'
  <2>1. CASE \A p \in r.ids : Exists(p)
    <3>1. /\ policy' = [p \in PolicyIds |-> IF p \in r.ids THEN Judged(r, p) ELSE policy[p]]
          /\ muddled' = (muddled \ r.ids) \cup {p \in r.ids : policy[p].writes # r.loaded[p].writes}
      BY <1>1, <2>1 DEF Commit
    <3>2. ASSUME NEW p \in r.ids
          PROVE  /\ policy'[p] \in PolicyRows /\ policy'[p].rule = policy[p].rule
                 /\ policy'[p].writes = policy[p].writes + 1 /\ Exists(p)
                 /\ RowSound(p, policy[p])'
      <4>1. policy'[p] = Judged(r, p)
        BY <1>2, <3>1
      <4>2. /\ policy'[p] \in PolicyRows /\ policy'[p].rule = policy[p].rule
            /\ policy'[p].writes = policy[p].writes + 1
            /\ policy'[p].status \in Verdicts
            /\ policy'[p].rule.mode = "manual" => policy'[p].status = "not_assessed"
            /\ policy[p].writes = r.loaded[p].writes =>
                 /\ policy'[p].result # "none" /\ policy'[p].status = policy'[p].result
                 /\ policy'[p].rule.mode # "manual" =>
                      \E read \in policy'[p].basis : ReadIn(read) /\ policy'[p].status = VerdictOf(policy'[p].rule, read)
        BY <1>1, <1>2, <2>1, <4>1, JudgedSound
      <4>3. p \notin muddled' => policy[p].writes = r.loaded[p].writes
        BY <3>1
      <4>. QED  BY <1>3, <2>1, <4>2, <4>3 DEF RowSound, ReadIn, Last, VerdictOf
    <3>3. ASSUME NEW p \in PolicyIds \ r.ids
          PROVE  policy'[p] = policy[p] /\ policy[p] \in PolicyRows /\ RowSound(p, policy[p])'
      <4>1. policy'[p] = policy[p] /\ policy[p] \in PolicyRows
        BY <3>1 DEF PoliciesInv, PoliciesTyped
      <4>2. p \in muddled' <=> p \in muddled
        BY <3>1
      <4>3. RowSound(p, policy[p])
        BY DEF PoliciesInv, RowsSound
      <4>. QED  BY <1>3, <4>1, <4>2, <4>3 DEF RowSound, ReadIn, Last, VerdictOf
    <3>4. policy' \in [PolicyIds -> PolicyRows]
      <4>1. \A p \in PolicyIds : policy'[p] \in PolicyRows
        BY <3>2, <3>3
      <4>2. policy' = [p \in PolicyIds |-> policy'[p]]
        BY <3>1
      <4>. QED  BY <4>1, <4>2
    <3>. QED  BY <3>2, <3>3, <3>4 DEF RowsSound
  <2>2. CASE ~(\A p \in r.ids : Exists(p))
    <3>1. UNCHANGED <<policy, muddled>>
      BY <1>1, <2>2 DEF Commit
    <3>. QED  BY <1>3, <3>1 DEF PoliciesInv, PoliciesTyped, RowsSound, RowSound, ReadIn, Last, VerdictOf
  <2>. QED  BY <2>1, <2>2
<1>6. PoliciesTyped'
  <2>1. \A d \in Evaluators : Evaluation(evaluation'[d])
    BY <1>4, RestingTyped DEF PoliciesInv, PoliciesTyped
  <2>2. evaluation' = [d \in Evaluators |-> evaluation'[d]]
    BY <1>3 DEF PoliciesInv, PoliciesTyped
  <2>. QED  BY <1>3, <1>5, <2>1, <2>2 DEF PoliciesInv, PoliciesTyped, Last
<1>7. CopiesSound'
  <2>. SUFFICES ASSUME NEW d \in Evaluators, NEW p \in evaluation'[d].ids
                PROVE  CopyOf(p, evaluation[d].loaded[p])'
    BY DEF CopiesSound
  <2>1. d # e /\ evaluation'[d] = evaluation[d]
    BY <1>4, RestingTyped
  <2>2. PICK c : c = evaluation[d].loaded[p]
    OBVIOUS
  <2>3. p \in PolicyIds /\ CopyOf(p, c)
    BY <2>1, <2>2 DEF PoliciesInv, PoliciesTyped, Evaluation, CopiesSound
  <2>4. policy[p].writes \in Nat /\ c.writes \in Nat
    BY <2>3 DEF PoliciesInv, PoliciesTyped, PolicyRows, CopyOf
  <2>5. CopyOf(p, c)'
    BY <1>5, <2>3, <2>4, CopyKept
  <2>. QED  BY <2>1, <2>2, <2>5 DEF CopyOf, Exists
<1>8. ReadsSound'
  <2>1. SlotReads(Resting)'
    BY RestingTyped DEF SlotReads
  <2>. QED  BY <1>3, <1>4, <2>1 DEF PoliciesInv, ReadsSound, SlotReads, ReadIn, Last
<1>9. VerdictsSound'
  <2>1. SlotFound(Resting)'
    BY RestingTyped DEF SlotFound
  <2>. QED  BY <1>3, <1>4, <2>1 DEF PoliciesInv, VerdictsSound, SlotFound, FoundThen, VerdictOf
<1>. QED  BY <1>5, <1>6, <1>7, <1>8, <1>9 DEF PoliciesInv

\* A deleted policy's copies are copies of a deleted policy.
LEMMA DeleteSound ==
  ASSUME PoliciesInv, NEW p \in PolicyIds, Delete(p)
  PROVE  PoliciesInv'
<1>1. PICK row : row = [Absent EXCEPT !.status = "deleted"]
  OBVIOUS
<1>2. row = [rule |-> Absent.rule, status |-> "deleted", result |-> "none", basis |-> {}, writes |-> 0]
      /\ Absent.rule.mode = "none"
  BY <1>1 DEF Absent
<1>3. policy' = [policy EXCEPT ![p] = row] /\ UNCHANGED <<worlds, evaluation, muddled>>
  BY <1>1 DEF Delete
<1>4. row \in PolicyRows /\ row.rule.mode = "none" /\ row.status = "deleted"
  BY <1>2 DEF PolicyRows, Verdicts
<1>5. policy'[p] = row /\ \A q \in PolicyIds : q # p => policy'[q] = policy[q]
  BY <1>3 DEF PoliciesInv, PoliciesTyped
<1>6. PoliciesTyped'
  BY <1>3, <1>4 DEF PoliciesInv, PoliciesTyped, Last
<1>7. RowsSound'
  <2>. SUFFICES ASSUME NEW q \in PolicyIds PROVE RowSound(q, policy[q])'
    BY DEF RowsSound
  <2>1. CASE q = p
    BY <1>4, <1>5, <2>1 DEF RowSound
  <2>2. CASE q # p
    BY <1>3, <1>5, <2>2 DEF PoliciesInv, RowsSound, RowSound, ReadIn, Last, VerdictOf
  <2>. QED  BY <2>1, <2>2
<1>8. CopiesSound'
  <2>. SUFFICES ASSUME NEW d \in Evaluators, NEW q \in evaluation'[d].ids
                PROVE  CopyOf(q, evaluation[d].loaded[q])'
    BY DEF CopiesSound
  <2>1. PICK c : c = evaluation[d].loaded[q]
    OBVIOUS
  <2>2. q \in PolicyIds /\ CopyOf(q, c)
    BY <1>3, <2>1 DEF PoliciesInv, PoliciesTyped, Evaluation, CopiesSound
  <2>3. policy[q].writes \in Nat /\ c.writes \in Nat
    BY <2>2 DEF PoliciesInv, PoliciesTyped, PolicyRows, CopyOf
  <2>4. CopyOf(q, c)'
    BY <1>4, <1>5, <2>2, <2>3, CopyKept
  <2>. QED  BY <1>3, <2>1, <2>4 DEF CopyOf, Exists
<1>9. ReadsSound'
  BY <1>3 DEF PoliciesInv, ReadsSound, SlotReads, ReadIn, Last
<1>10. VerdictsSound'
  BY <1>3 DEF PoliciesInv, VerdictsSound, SlotFound, FoundThen, VerdictOf
<1>. QED  BY <1>6, <1>7, <1>8, <1>9, <1>10 DEF PoliciesInv

\* Connectors and events that come and go leave a world: one more.
LEMMA WorldsTyped ==
  ASSUME PoliciesTyped, ScansChange
  PROVE  \E w \in Worlds : worlds' = Append(worlds, w)
<1>1. PICK w : w = World
  OBVIOUS
<1>2. w \in Worlds
  BY <1>1 DEF PoliciesTyped, World, Last
<1>3. ASSUME NEW connectors \in SUBSET Sources PROVE [w EXCEPT !.connectors = connectors] \in Worlds
  BY <1>2 DEF Worlds
<1>4. ASSUME NEW events \in SUBSET Events PROVE [w EXCEPT !.events = events] \in Worlds
  BY <1>2 DEF Worlds
<1>5. w.connectors \subseteq Sources /\ w.events \subseteq Events
  BY <1>2 DEF Worlds
<1>6. CASE \E s \in Sources \ w.connectors : Becomes([w EXCEPT !.connectors = @ \cup {s}])
  <2>1. PICK s \in Sources : Becomes([w EXCEPT !.connectors = w.connectors \cup {s}])
    BY <1>6
  <2>2. w.connectors \cup {s} \in SUBSET Sources
    BY <1>5
  <2>. QED  BY <1>3, <2>1, <2>2 DEF Becomes
<1>7. CASE \E s \in w.connectors : Becomes([w EXCEPT !.connectors = @ \ {s}])
  <2>1. PICK s : Becomes([w EXCEPT !.connectors = w.connectors \ {s}])
    BY <1>7
  <2>2. w.connectors \ {s} \in SUBSET Sources
    BY <1>5
  <2>. QED  BY <1>3, <2>1, <2>2 DEF Becomes
<1>8. CASE \E s \in Sources, v \in Values :
             Becomes([w EXCEPT !.events = @ \cup {[of |-> s, open |-> TRUE, field |-> v]}])
  <2>1. PICK s \in Sources, v \in Values :
             Becomes([w EXCEPT !.events = w.events \cup {[of |-> s, open |-> TRUE, field |-> v]}])
    BY <1>8
  <2>2. [of |-> s, open |-> TRUE, field |-> v] \in Events
    BY DEF Events
  <2>3. w.events \cup {[of |-> s, open |-> TRUE, field |-> v]} \in SUBSET Events
    BY <1>5, <2>2
  <2>. QED  BY <1>4, <2>1, <2>3 DEF Becomes
<1>9. CASE \E e \in w.events : Becomes([w EXCEPT !.events = @ \ {e}])
  <2>1. PICK e : Becomes([w EXCEPT !.events = w.events \ {e}])
    BY <1>9
  <2>2. w.events \ {e} \in SUBSET Events
    BY <1>5
  <2>. QED  BY <1>4, <2>1, <2>2 DEF Becomes
<1>10. CASE \E e \in w.events :
              e.open /\ Becomes([w EXCEPT !.events = (@ \ {e}) \cup {[e EXCEPT !.open = FALSE]}])
  <2>1. PICK e \in w.events : Becomes([w EXCEPT !.events = (w.events \ {e}) \cup {[e EXCEPT !.open = FALSE]}])
    BY <1>10
  <2>2. e \in Events
    BY <1>5
  <2>3. [e EXCEPT !.open = FALSE] \in Events
    BY <2>2 DEF Events
  <2>4. (w.events \ {e}) \cup {[e EXCEPT !.open = FALSE]} \in SUBSET Events
    BY <1>5, <2>3
  <2>. QED  BY <1>4, <2>1, <2>4 DEF Becomes
<1>. QED  BY <1>1, <1>6, <1>7, <1>8, <1>9, <1>10 DEF ScansChange

\* What scans change was read before or is read later.
LEMMA ScansChangeSound ==
  ASSUME PoliciesInv, ScansChange
  PROVE  PoliciesInv'
<1>1. PICK w \in Worlds : worlds' = Append(worlds, w)
  BY WorldsTyped DEF PoliciesInv
<1>2. UNCHANGED <<policy, evaluation, muddled>>
  BY DEF ScansChange
<1>3. PoliciesTyped
  BY DEF PoliciesInv
<1>4. worlds' \in Seq(Worlds) /\ Last' = Last + 1 /\ Last \in Nat
  <2>1. worlds \in Seq(Worlds) /\ Len(worlds) \in Nat
    BY <1>3 DEF PoliciesTyped, Last
  <2>. QED  BY <1>1, <2>1 DEF Last
<1>5. PoliciesTyped'
  BY <1>2, <1>3, <1>4 DEF PoliciesTyped
<1>6. ASSUME NEW rule, NEW read, ReadIn(read)
      PROVE  ReadIn(read)' /\ VerdictOf(rule, read)' = VerdictOf(rule, read)
  BY <1>1, <1>3, <1>6, ReadStays
<1>7. RowsSound'
  <2>. SUFFICES ASSUME NEW p \in PolicyIds PROVE RowSound(p, policy[p])'
    BY DEF RowsSound
  <2>1. PICK row : row = policy[p]
    OBVIOUS
  <2>2. RowSound(p, row) /\ policy'[p] = row
    BY <1>2, <2>1 DEF PoliciesInv, RowsSound
  <2>3. ASSUME NEW read \in row.basis, ReadIn(read), row.status = VerdictOf(row.rule, read)
        PROVE  ReadIn(read)' /\ row.status = VerdictOf(row.rule, read)'
    BY <1>6, <2>3
  <2>4. \A read \in row.basis : ReadIn(read) /\ row.status = VerdictOf(row.rule, read)
                                  => ReadIn(read)' /\ row.status = VerdictOf(row.rule, read)'
    BY <2>3
  <2>. QED  BY <1>2, <2>2, <2>4 DEF RowSound
<1>8. CopiesSound'
  BY <1>2 DEF PoliciesInv, CopiesSound, CopyOf, Exists
<1>9. ReadsSound'
  <2>. SUFFICES ASSUME NEW e \in Evaluators PROVE SlotReads(evaluation[e])'
    BY DEF ReadsSound
  <2>1. PICK r : r = evaluation[e]
    OBVIOUS
  <2>2. SlotReads(r) /\ evaluation'[e] = r
    BY <1>2, <2>1 DEF PoliciesInv, ReadsSound
  <2>3. \A p \in DOMAIN r.read : ReadIn(r.read[p])'
    BY <1>6, <2>2 DEF SlotReads
  <2>. QED  BY <1>4, <2>2, <2>3 DEF SlotReads
<1>10. VerdictsSound'
  <2>. SUFFICES ASSUME NEW e \in Evaluators, NEW p \in DOMAIN evaluation'[e].verdict
                PROVE  FoundThen(evaluation[e].loaded[p], evaluation[e].verdict[p], evaluation[e].read[p])'
    BY DEF VerdictsSound, SlotFound
  <2>1. PICK r : r = evaluation[e]
    OBVIOUS
  <2>2. Evaluation(r) /\ SlotReads(r) /\ SlotFound(r) /\ evaluation'[e] = r
    BY <1>2, <2>1 DEF PoliciesInv, PoliciesTyped, ReadsSound, VerdictsSound
  <2>3. p \in DOMAIN r.verdict /\ p \in DOMAIN r.read
    BY <2>2 DEF Evaluation
  <2>4. ReadIn(r.read[p]) /\ FoundThen(r.loaded[p], r.verdict[p], r.read[p])
    BY <2>2, <2>3 DEF SlotReads, SlotFound
  <2>. QED  BY <1>2, <1>6, <2>1, <2>2, <2>4 DEF FoundThen
<1>. QED  BY <1>5, <1>7, <1>8, <1>9, <1>10 DEF PoliciesInv

LEMMA PoliciesTold == PoliciesInv => PoliciesHonest
<1>. SUFFICES ASSUME PoliciesInv PROVE PoliciesHonest
  OBVIOUS
<1>1. StatusTellsResult
  BY DEF PoliciesInv, RowsSound, RowSound, ReadIn, StatusTellsResult, Exists
<1>2. ManualUnattested
  BY DEF PoliciesInv, RowsSound, RowSound, ManualUnattested
<1>. QED  BY <1>1, <1>2 DEF PoliciesHonest

LEMMA PoliciesInitInv == PoliciesInit => PoliciesInv
<1>. SUFFICES ASSUME PoliciesInit PROVE PoliciesInv
  OBVIOUS
<1>1. worlds \in Seq(Worlds) /\ Last = 1
  <2>1. PICK w \in GivenWorlds : worlds = <<w>>
    BY DEF PoliciesInit
  <2>2. w \in Worlds
    BY WorldsAssumption
  <2>. QED  BY <2>1, <2>2 DEF Last
<1>2. Absent \in PolicyRows /\ Absent.rule.mode = "none" /\ Absent.result = "none"
  BY DEF Absent, PolicyRows, Verdicts
<1>3. SlotReads(Resting) /\ SlotFound(Resting)
  BY RestingTyped DEF SlotReads, SlotFound
<1>. QED
  BY <1>1, <1>2, <1>3, RestingTyped
  DEF PoliciesInit, PoliciesInv, PoliciesTyped, RowsSound, RowSound, CopiesSound, ReadsSound, VerdictsSound

LEMMA PoliciesStep == PoliciesInv /\ [PoliciesNext]_policyVars => PoliciesInv'
<1>. SUFFICES ASSUME PoliciesInv, [PoliciesNext]_policyVars PROVE PoliciesInv'
  OBVIOUS
<1>1. CASE ScansChange
  BY <1>1, ScansChangeSound
<1>2. ASSUME NEW e \in Evaluators, EvaluateAll(e) PROVE PoliciesInv'
  BY <1>2, EvaluateAllSound
<1>3. ASSUME NEW e \in Evaluators, Commit(e) PROVE PoliciesInv'
  BY <1>3, CommitSound
<1>4. ASSUME NEW e \in Evaluators, NEW rule \in GivenRules, Create(e, rule) PROVE PoliciesInv'
  BY <1>4, CreateSound
<1>5. ASSUME NEW e \in Evaluators, NEW p \in PolicyIds, Turn(e, p) PROVE PoliciesInv'
  BY <1>5, TurnSound
<1>6. ASSUME NEW e \in Evaluators, NEW p \in PolicyIds, Judge(e, p) PROVE PoliciesInv'
  BY <1>6, JudgeSound
<1>7. ASSUME NEW p \in PolicyIds, Delete(p) PROVE PoliciesInv'
  BY <1>7, DeleteSound
<1>8. CASE UNCHANGED policyVars
  BY <1>8 DEF policyVars, PoliciesInv, PoliciesTyped, RowsSound, RowSound, CopiesSound, CopyOf, Exists,
              ReadsSound, SlotReads, ReadIn, VerdictsSound, SlotFound, FoundThen, VerdictOf, Last
<1>. QED  BY <1>1, <1>2, <1>3, <1>4, <1>5, <1>6, <1>7, <1>8 DEF PoliciesNext

\* The requests under way.
Busy == {e \in Evaluators : evaluation[e] # Resting}

\* No policy was written more often than requests were begun and have ended.
WritesCounted ==
  /\ evaluations \in 0..MaxEvaluations /\ Last \in 1..(MaxScanned + 1) /\ muddled \subseteq PolicyIds
  /\ IsFiniteSet(Busy)
  /\ Cardinality(Busy) <= evaluations
  /\ \A p \in PolicyIds : policy[p].writes + Cardinality(Busy) <= evaluations

LEMMA PoliciesTypes == PoliciesInv /\ WritesCounted => PoliciesTypeOK
<1>. SUFFICES ASSUME PoliciesInv, WritesCounted PROVE PoliciesTypeOK
  OBVIOUS
<1>1. \A i \in 1..Last : worlds[i] \in Worlds
  BY DEF PoliciesInv, PoliciesTyped, Last
<1>2. ASSUME NEW p \in PolicyIds, Exists(p)
      PROVE  /\ policy[p].rule \in PolicyRules /\ policy[p].status \in Verdicts
             /\ policy[p].result \in Verdicts \cup {"none"} /\ policy[p].writes \in 0..MaxEvaluations
  <2>1. policy[p] \in PolicyRows /\ RowSound(p, policy[p])
    BY DEF PoliciesInv, PoliciesTyped, RowsSound
  <2>2. policy[p].rule \in PolicyRules /\ policy[p].status \in Verdicts /\ policy[p].result \in Verdicts \cup {"none"}
        /\ policy[p].writes \in Nat
    BY <1>2, <2>1 DEF PolicyRows, RowSound, Exists, Absent
  <2>3. Cardinality(Busy) \in Nat
    BY FS_CardinalityType DEF WritesCounted
  <2>. QED  BY <2>2, <2>3, PoliciesAssumption DEF WritesCounted
<1>. QED  BY <1>1, <1>2 DEF PoliciesTypeOK, WritesCounted

LEMMA CountedInit == PoliciesInit => WritesCounted
<1>. SUFFICES ASSUME PoliciesInit PROVE WritesCounted
  OBVIOUS
<1>1. Busy = {}
  BY DEF PoliciesInit, Busy
<1>2. \A p \in PolicyIds : policy[p].writes = 0
  BY DEF PoliciesInit, Absent
<1>3. Last = 1
  BY DEF PoliciesInit, Last
<1>. QED  BY <1>1, <1>2, <1>3, FS_EmptySet, PoliciesAssumption DEF PoliciesInit, WritesCounted

\* A request begins: one more is under way.
LEMMA OneMoreBusy ==
  ASSUME PoliciesInv, WritesCounted, NEW e \in Evaluators, evaluation[e] = Resting, NEW r, r # Resting,
         evaluation' = [evaluation EXCEPT ![e] = r],
         evaluations < MaxEvaluations, evaluations' = evaluations + 1,
         \A p \in PolicyIds : policy'[p].writes = policy[p].writes,
         UNCHANGED <<worlds, muddled>>
  PROVE  WritesCounted'
<1>1. Busy' = Busy \cup {e} /\ e \notin Busy
  BY DEF Busy, PoliciesInv, PoliciesTyped
<1>2. IsFiniteSet(Busy') /\ Cardinality(Busy') = Cardinality(Busy) + 1 /\ Cardinality(Busy) \in Nat
  BY <1>1, FS_AddElement, FS_CardinalityType DEF WritesCounted
<1>3. ASSUME NEW p \in PolicyIds PROVE policy'[p].writes + Cardinality(Busy') <= evaluations'
  <2>1. policy[p].writes \in Nat
    BY DEF PoliciesInv, PoliciesTyped, PolicyRows
  <2>. QED  BY <1>2, <2>1 DEF WritesCounted
<1>. QED  BY <1>2, <1>3, PoliciesAssumption DEF WritesCounted, Last

\* As many are under way.
LEMMA AsManyBusy ==
  ASSUME PoliciesInv, WritesCounted, Busy' = Busy,
         \A p \in PolicyIds : policy'[p].writes \in {0, policy[p].writes},
         evaluations' = evaluations, Last' \in 1..(MaxScanned + 1), muddled' = muddled
  PROVE  WritesCounted'
<1>1. Cardinality(Busy) \in Nat
  BY FS_CardinalityType DEF WritesCounted
<1>2. ASSUME NEW p \in PolicyIds PROVE policy'[p].writes + Cardinality(Busy) <= evaluations
  BY <1>1 DEF WritesCounted
<1>. QED  BY <1>2 DEF WritesCounted

LEMMA CountedStep == PoliciesInv /\ WritesCounted /\ [PoliciesNext]_policyVars => WritesCounted'
<1>. SUFFICES ASSUME PoliciesInv, WritesCounted, [PoliciesNext]_policyVars PROVE WritesCounted'
  OBVIOUS
<1>0. /\ policy \in [PolicyIds -> PolicyRows] /\ DOMAIN evaluation = Evaluators
      /\ Last \in 1..(MaxScanned + 1) /\ Last \in Nat
  BY DEF PoliciesInv, PoliciesTyped, WritesCounted
<1>1. CASE ScansChange
  <2>1. Busy' = Busy
    BY <1>1 DEF ScansChange, Busy
  <2>2. Last' \in 1..(MaxScanned + 1) /\ UNCHANGED <<policy, evaluations, muddled>>
    <3>1. PICK w \in Worlds : worlds' = Append(worlds, w)
      BY <1>1, WorldsTyped DEF PoliciesInv
    <3>2. worlds \in Seq(Worlds)
      BY DEF PoliciesInv, PoliciesTyped
    <3>3. Last' = Last + 1
      BY <3>1, <3>2 DEF Last
    <3>. QED  BY <1>0, <1>1, <3>3, PoliciesAssumption DEF ScansChange
  <2>. QED  BY <2>1, <2>2, AsManyBusy
<1>2. ASSUME NEW e \in Evaluators, EvaluateAll(e) PROVE WritesCounted'
  <2>. PICK all : all = {p \in PolicyIds : Exists(p)}
    OBVIOUS
  <2>. PICK r : r = Loading(all, [p \in all |-> policy[p]])
    OBVIOUS
  <2>1. r.ids = all /\ all # {} /\ Resting.ids = {}
    BY <1>2, LoadingTyped DEF EvaluateAll, Resting
  <2>2. evaluation' = [evaluation EXCEPT ![e] = r] /\ evaluation[e] = Resting /\ evaluations < MaxEvaluations
        /\ evaluations' = evaluations + 1 /\ UNCHANGED <<worlds, policy, muddled>>
    BY <1>2 DEF EvaluateAll, Vacant
  <2>. QED  BY <2>1, <2>2, OneMoreBusy
<1>3. ASSUME NEW e \in Evaluators, Commit(e) PROVE WritesCounted'
  <2>. PICK r : r = evaluation[e]
    OBVIOUS
  <2>1. r.ids # {} /\ Resting.ids = {} /\ e \in Busy
    BY <1>3 DEF Commit, Resting, Busy
  <2>2. Busy' = Busy \ {e}
    BY <1>0, <1>3 DEF Commit, Busy
  <2>3. IsFiniteSet(Busy') /\ Cardinality(Busy') = Cardinality(Busy) - 1 /\ Cardinality(Busy) \in Nat
    BY <2>1, <2>2, FS_RemoveElement, FS_CardinalityType DEF WritesCounted
  <2>4. Cardinality(Busy') \in Nat
    BY <2>3, FS_CardinalityType
  <2>5. evaluations' = evaluations /\ Last' = Last
    BY <1>3 DEF Commit, Last
  <2>6. ASSUME NEW p \in PolicyIds PROVE policy'[p].writes <= policy[p].writes + 1 /\ policy'[p].writes \in Nat
    <3>1. policy[p] \in PolicyRows /\ policy[p].writes \in Nat
      BY <1>0 DEF PolicyRows
    <3>2. CASE policy' = policy
      BY <3>1, <3>2
    <3>3. CASE policy' = [q \in PolicyIds |-> IF q \in r.ids THEN Judged(r, q) ELSE policy[q]]
      <4>1. Judged(r, p).writes = policy[p].writes + 1
        BY <3>1 DEF Judged, PolicyRows
      <4>. QED  BY <3>1, <3>3, <4>1
    <3>. QED  BY <1>3, <3>2, <3>3 DEF Commit
  <2>7. ASSUME NEW p \in PolicyIds PROVE policy'[p].writes + Cardinality(Busy') <= evaluations'
    <3>1. policy[p].writes + Cardinality(Busy) <= evaluations /\ policy[p].writes \in Nat /\ evaluations \in Nat
      BY <1>0 DEF WritesCounted, PolicyRows
    <3>. QED  BY <2>3, <2>5, <2>6, <3>1
  <2>8. muddled' \subseteq PolicyIds
    <3>1. r.ids \subseteq PolicyIds /\ muddled \subseteq PolicyIds
      BY DEF PoliciesInv, PoliciesTyped, Evaluation, WritesCounted
    <3>. QED  BY <1>3, <3>1 DEF Commit
  <2>9. Cardinality(Busy') <= evaluations' /\ evaluations' \in 0..MaxEvaluations /\ Last' \in 1..(MaxScanned + 1)
    BY <2>3, <2>5 DEF WritesCounted
  <2>. QED  BY <2>3, <2>7, <2>8, <2>9 DEF WritesCounted
<1>4. ASSUME NEW e \in Evaluators, NEW rule \in GivenRules, Create(e, rule) PROVE WritesCounted'
  <2>. PICK p : p = CHOOSE q \in PolicyIds : policy[q] = Absent /\ \A s \in PolicyIds : s < q => policy[s] # Absent
    OBVIOUS
  <2>. PICK row : row = [Absent EXCEPT !.rule = rule, !.status = "not_assessed"]
    OBVIOUS
  <2>1. policy' = [policy EXCEPT ![p] = row] /\ row.writes = 0 /\ UNCHANGED <<worlds, muddled>>
    BY <1>4 DEF Create, Absent
  <2>2. \A q \in PolicyIds : policy'[q].writes \in {0, policy[q].writes}
    BY <1>0, <2>1
  <2>3. CASE rule.mode = "manual"
    <3>1. UNCHANGED <<evaluation, evaluations>>
      BY <1>4, <2>3 DEF Create
    <3>. QED  BY <1>0, <2>1, <2>2, <3>1, AsManyBusy DEF Busy, Last
  <2>4. CASE rule.mode # "manual"
    <3>. PICK r : r = Loading({p}, [q \in {p} |-> row])
      OBVIOUS
    <3>1. r.ids = {p} /\ Resting.ids = {}
      BY DEF Loading, Resting
    <3>2. evaluation' = [evaluation EXCEPT ![e] = r] /\ evaluation[e] = Resting /\ evaluations < MaxEvaluations
          /\ evaluations' = evaluations + 1
      BY <1>4, <2>4 DEF Create, Vacant
    <3>3. Busy' = Busy \cup {e} /\ e \notin Busy
      BY <1>0, <3>1, <3>2 DEF Busy
    <3>4. IsFiniteSet(Busy') /\ Cardinality(Busy') = Cardinality(Busy) + 1 /\ Cardinality(Busy) \in Nat
      BY <3>3, FS_AddElement, FS_CardinalityType DEF WritesCounted
    <3>5. ASSUME NEW q \in PolicyIds PROVE policy'[q].writes + Cardinality(Busy') <= evaluations'
      <4>1. policy[q].writes \in Nat
        BY <1>0 DEF PolicyRows
      <4>2. policy'[q].writes = 0 \/ policy'[q].writes = policy[q].writes
        BY <2>2
      <4>3. evaluations \in Nat /\ Cardinality(Busy) <= evaluations /\ policy[q].writes + Cardinality(Busy) <= evaluations
        BY DEF WritesCounted
      <4>. QED  BY <3>2, <3>4, <4>1, <4>2, <4>3
    <3>6. evaluations \in 0..MaxEvaluations /\ Cardinality(Busy) <= evaluations
      BY DEF WritesCounted
    <3>7. evaluations' \in 0..MaxEvaluations /\ Cardinality(Busy') <= evaluations'
      BY <3>2, <3>4, <3>6, PoliciesAssumption
    <3>8. Last' = Last /\ Last \in 1..(MaxScanned + 1) /\ muddled' = muddled /\ muddled \subseteq PolicyIds
      BY <2>1 DEF WritesCounted, Last
    <3>9. Last' \in 1..(MaxScanned + 1) /\ muddled' \subseteq PolicyIds
      BY <3>8
    <3>. QED  BY <3>4, <3>5, <3>7, <3>9 DEF WritesCounted
  <2>. QED  BY <2>3, <2>4
<1>5. ASSUME NEW e \in Evaluators, NEW p \in PolicyIds, Turn(e, p) \/ Judge(e, p) PROVE WritesCounted'
  <2>1. evaluation'[e].ids = evaluation[e].ids /\ \A d \in Evaluators : d # e => evaluation'[d] = evaluation[d]
    <3>1. Evaluation(evaluation[e])
      BY DEF PoliciesInv, PoliciesTyped
    <3>2. CASE Turn(e, p)
      <4>1. PICK read : evaluation' = [evaluation EXCEPT ![e].read = read]
        BY <3>2 DEF Turn
      <4>2. evaluation'[e] = [evaluation[e] EXCEPT !.read = read]
        BY <1>0, <4>1
      <4>. QED  BY <1>0, <3>1, <4>1, <4>2 DEF Evaluation
    <3>3. CASE Judge(e, p)
      <4>1. PICK read, verdict : evaluation' = [evaluation EXCEPT ![e].read = read, ![e].verdict = verdict]
        BY <3>3 DEF Judge
      <4>2. evaluation'[e] = [evaluation[e] EXCEPT !.read = read, !.verdict = verdict]
        BY <1>0, <4>1
      <4>. QED  BY <1>0, <3>1, <4>1, <4>2 DEF Evaluation
    <3>. QED  BY <1>5, <3>2, <3>3
  <2>2. evaluation[e].ids # {} /\ Resting.ids = {}
    <3>1. Evaluation(evaluation[e])
      BY DEF PoliciesInv, PoliciesTyped
    <3>. QED  BY <1>5, <3>1 DEF Turn, Judge, Evaluation, Resting
  <2>3. Busy' = Busy
    BY <2>1, <2>2 DEF Busy
  <2>4. UNCHANGED <<worlds, policy, evaluations, muddled>>
    BY <1>5 DEF Turn, Judge
  <2>. QED  BY <1>0, <2>3, <2>4, AsManyBusy DEF Last
<1>6. ASSUME NEW p \in PolicyIds, Delete(p) PROVE WritesCounted'
  <2>1. Busy' = Busy /\ UNCHANGED <<worlds, evaluations, muddled>>
    BY <1>6 DEF Delete, Busy
  <2>2. \A q \in PolicyIds : policy'[q].writes \in {0, policy[q].writes}
    <3>. PICK row : row = [Absent EXCEPT !.status = "deleted"]
      OBVIOUS
    <3>1. policy' = [policy EXCEPT ![p] = row] /\ row.writes = 0
      BY <1>6 DEF Delete, Absent
    <3>. QED  BY <1>0, <3>1
  <2>. QED  BY <1>0, <2>1, <2>2, AsManyBusy DEF Last
<1>7. CASE UNCHANGED policyVars
  BY <1>7 DEF policyVars, WritesCounted, Busy, Last
<1>. QED  BY <1>1, <1>2, <1>3, <1>4, <1>5, <1>6, <1>7 DEF PoliciesNext

\* However many requests create, judge and delete policies at once, while
\* connectors and findings come and go: a judged policy stands as its last
\* evaluation found it, in that evaluation's own time, by the connectors of one
\* moment and the events of a later one, whatever its operator compares, and
\* nothing attests a manual one (PolicyEngine.evaluate_policy and
\* evaluate_all_policies); and rows and history stay within their types.
THEOREM PoliciesInvariance == PoliciesSpec => [](PoliciesTypeOK /\ PoliciesHonest)
<1>1. PoliciesInit => PoliciesInv /\ WritesCounted
  BY PoliciesInitInv, CountedInit
<1>2. PoliciesInv /\ WritesCounted /\ [PoliciesNext]_policyVars => (PoliciesInv /\ WritesCounted)'
  BY PoliciesStep, CountedStep
<1>3. PoliciesInv /\ WritesCounted => PoliciesTypeOK /\ PoliciesHonest
  BY PoliciesTypes, PoliciesTold
<1>. QED  BY <1>1, <1>2, <1>3, PTL DEF PoliciesSpec

-------------------------------------------------------------------------------
(* Readiness.  Only a setup gives rows ids, newer than any a request has   *)
(* read: where the readiness that is there is still the one a setup read,  *)
(* the statuses are the ones it read too.                                  *)

Same(rows) == \A r, s \in rows : r = s
ReadinessTyped ==
  /\ DOMAIN asked = Askers /\ lastRow \in Nat
  /\ \A r \in readiness : /\ r = [id |-> r.id, criteria |-> r.criteria, overall |-> r.overall]
                          /\ r.id \in 1..lastRow
  /\ \A c \in criterion : c = [id |-> c.id, name |-> c.name, mark |-> c.mark]

\* What a setup has read.
SettingUp(r) ==
  r.at \in {"setup", "cleared"} =>
    /\ r.criteria \subseteq Criteria
    /\ \A i \in IdsOf(r.old) : i \in 1..lastRow
    /\ r.at = "cleared" /\ IdsOf(r.old) = IdsOf(readiness) => IdsOf(r.statuses) = IdsOf(criterion)
SetupsSound == \A a \in Askers : SettingUp(asked[a])

OneEach ==
  ~doubled =>
    /\ Same(readiness)
    /\ \A r \in readiness : {c.name : c \in criterion} = r.criteria
    /\ \A c, d \in criterion : c.name = d.name => c = d

\* A request that will put the figure right, or find that it cannot.
Agrees == \A r \in readiness : r.overall \in Shares(criterion)
Mends(r) ==
  \/ r.at = "summary"
  \/ /\ r.at = "computed"
     /\ r.statuses = criterion => \A s \in readiness : \E o \in r.row : o.id = s.id /\ o.overall = s.overall
FigureMended == ~doubled /\ ~outdated /\ ~Agrees => \E a \in Askers : Mends(asked[a])

ReadinessInv == ReadinessTyped /\ SetupsSound /\ OneEach /\ FigureMended

\* A step that leaves the rows, and one request's turn.
LEMMA OneAskerMoves ==
  ASSUME ReadinessInv, NEW a \in Askers, NEW r,
         asked' = [asked EXCEPT ![a] = r],
         UNCHANGED <<readiness, criterion, lastRow, doubled, outdated>>,
         SettingUp(r),
         Mends(asked[a]) => Mends(r) \/ readiness = {}
  PROVE  ReadinessInv'
<1>1. asked'[a] = r /\ \A b \in Askers : b # a => asked'[b] = asked[b]
  BY DEF ReadinessInv, ReadinessTyped
<1>2. ReadinessTyped'
  BY DEF ReadinessInv, ReadinessTyped
<1>3. SetupsSound'
  BY <1>1 DEF ReadinessInv, SetupsSound, SettingUp
<1>4. OneEach'
  BY DEF ReadinessInv, OneEach, Same
<1>5. FigureMended'
  <2>. SUFFICES ASSUME ~doubled, ~outdated, ~Agrees
                PROVE  \E b \in Askers : Mends(asked[b])'
    BY DEF FigureMended, Agrees
  <2>1. PICK b \in Askers : Mends(asked[b])
    BY DEF ReadinessInv, FigureMended
  <2>2. readiness # {}
    BY DEF Agrees
  <2>3. CASE b = a
    <3>1. Mends(r)
      BY <2>1, <2>2, <2>3
    <3>. QED  BY <1>1, <3>1 DEF Mends
  <2>4. CASE b # a
    BY <1>1, <2>1, <2>4 DEF Mends
  <2>. QED  BY <2>3, <2>4
<1>. QED  BY <1>2, <1>3, <1>4, <1>5 DEF ReadinessInv

LEMMA SetupBeginsSound ==
  ASSUME ReadinessInv, NEW a \in Askers, NEW given \in SUBSET (Criteria \ Mandatory), SetupBegins(a, given)
  PROVE  ReadinessInv'
<1>1. PICK r : r = [at |-> "setup", old |-> readiness, criteria |-> CriteriaFor(given)]
  OBVIOUS
<1>2. asked' = [asked EXCEPT ![a] = r] /\ asked[a] = NotAsked
  BY <1>1 DEF SetupBegins, Asks
<1>3. UNCHANGED <<readiness, criterion, lastRow, doubled, outdated>>
  BY DEF SetupBegins
<1>4. SettingUp(r)
  BY <1>1, ReadinessAssumption DEF SettingUp, CriteriaFor, ReadinessInv, ReadinessTyped, IdsOf
<1>5. ~Mends(asked[a])
  BY <1>2 DEF Mends, NotAsked
<1>. QED  BY <1>2, <1>3, <1>4, <1>5, OneAskerMoves

LEMMA SetupClearsSound ==
  ASSUME ReadinessInv, NEW a \in Askers, SetupClears(a)
  PROVE  ReadinessInv'
<1>1. PICK o : o = asked[a]
  OBVIOUS
<1>2. PICK r : r = [at |-> "cleared", old |-> o.old, criteria |-> o.criteria, statuses |-> criterion]
  OBVIOUS
<1>3. /\ asked' = [asked EXCEPT ![a] = r] /\ o.at = "setup"
      /\ UNCHANGED <<readiness, criterion, lastRow, doubled, outdated>>
  BY <1>1, <1>2 DEF SetupClears, GoesOn
<1>4. SettingUp(o)
  BY <1>1 DEF ReadinessInv, SetupsSound
<1>5. SettingUp(r)
  BY <1>2, <1>3, <1>4 DEF SettingUp
<1>6. ~Mends(asked[a])
  BY <1>1, <1>3 DEF Mends
<1>. QED  BY <1>3, <1>5, <1>6, OneAskerMoves

\* A setup whose readiness is still there replaces it and all its statuses; one
\* that another overtook is noted.
LEMMA SetupCommitsSound ==
  ASSUME ReadinessInv, NEW a \in Askers, NEW gaps, SetupCommits(a, gaps)
  PROVE  ReadinessInv'
<1>1. PICK r : r = asked[a]
  OBVIOUS
<1>2. r.at = "cleared" /\ SettingUp(r) /\ r.criteria \subseteq Criteria
  BY <1>1 DEF SetupCommits, ReadinessInv, SetupsSound, SettingUp
<1>3. PICK size : size = Cardinality(r.criteria)
  OBVIOUS
<1>4. size \in Nat
  BY <1>2, <1>3, ReadinessAssumption, FS_Subset, FS_CardinalityType
<1>5. lastRow' = lastRow + 1 + size /\ lastRow \in Nat
  BY <1>1, <1>3 DEF SetupCommits, ReadinessInv, ReadinessTyped
<1>6. PICK new : new = [id |-> lastRow', criteria |-> r.criteria, overall |-> 0]
  OBVIOUS
<1>7. PICK starts : starts = NewStatuses(r, gaps)
  OBVIOUS
<1>8. /\ readiness' = {s \in readiness : s.id \notin IdsOf(r.old)} \cup {new}
      /\ criterion' = SetupLeaves(r, criterion) \cup starts
      /\ doubled' = (doubled \/ IdsOf(readiness) # IdsOf(r.old))
      /\ ~outdated'
      /\ asked' = [asked EXCEPT ![a] = [at |-> "summary"]]
  BY <1>1, <1>6, <1>7 DEF SetupCommits, GoesOn
<1>9. /\ \A c \in starts : c = [id |-> c.id, name |-> c.name, mark |-> c.mark]
      /\ {c.name : c \in starts} = r.criteria
      /\ \A c, d \in starts : c.name = d.name => c = d
  <2>1. PICK f : /\ starts = {f[c] : c \in r.criteria}
                 /\ \A c \in r.criteria :
                      f[c].name = c /\ f[c] = [id |-> f[c].id, name |-> f[c].name, mark |-> f[c].mark]
    <3>. DEFINE numbered == CHOOSE s \in [r.criteria -> 1..Cardinality(r.criteria)] :
                              \A c, d \in r.criteria : s[c] = s[d] => c = d
                g == [c \in r.criteria |->
                        [id |-> lastRow + numbered[c], name |-> c,
                         mark |-> IF c \in gaps THEN "gap" ELSE "not_started"]]
    <3>1. starts = {g[c] : c \in r.criteria}
      BY <1>7 DEF NewStatuses
    <3>2. ASSUME NEW c \in r.criteria
          PROVE  g[c].name = c /\ g[c] = [id |-> g[c].id, name |-> g[c].name, mark |-> g[c].mark]
      <4>1. PICK i, m : g[c] = [id |-> i, name |-> c, mark |-> m]
        BY Zenon
      <4>. HIDE DEF g
      <4>. QED  BY <4>1
    <3>. HIDE DEF g
    <3>. QED  BY <3>1, <3>2
  <2>2. \A c \in starts : c = [id |-> c.id, name |-> c.name, mark |-> c.mark]
    BY <2>1
  <2>3. {c.name : c \in starts} = r.criteria
    <3>1. \A c \in starts : c.name \in r.criteria
      BY <2>1
    <3>2. ASSUME NEW n \in r.criteria PROVE \E c \in starts : c.name = n
      <4>1. f[n] \in starts /\ f[n].name = n
        BY <2>1
      <4>. QED  BY <4>1
    <3>. QED  BY <3>1, <3>2
  <2>4. ASSUME NEW c \in starts, NEW d \in starts, c.name = d.name PROVE c = d
    <3>1. PICK m \in r.criteria : c = f[m]
      BY <2>1
    <3>2. PICK n \in r.criteria : d = f[n]
      BY <2>1
    <3>. QED  BY <2>1, <2>4, <3>1, <3>2
  <2>. QED  BY <2>2, <2>3, <2>4
<1>10. asked'[a].at = "summary" /\ \A b \in Askers : b # a => asked'[b] = asked[b]
  BY <1>8 DEF ReadinessInv, ReadinessTyped
<1>11. ReadinessTyped'
  <2>1. /\ new = [id |-> new.id, criteria |-> new.criteria, overall |-> new.overall]
        /\ new.id \in 1..lastRow'
    BY <1>4, <1>5, <1>6
  <2>2. ASSUME NEW s \in readiness, s # new
        PROVE  /\ s = [id |-> s.id, criteria |-> s.criteria, overall |-> s.overall]
               /\ s.id \in 1..lastRow'
    BY <1>4, <1>5 DEF ReadinessInv, ReadinessTyped
  <2>3. \A c \in criterion' : c = [id |-> c.id, name |-> c.name, mark |-> c.mark]
    BY <1>8, <1>9 DEF SetupLeaves, ReadinessInv, ReadinessTyped
  <2>4. DOMAIN asked' = Askers /\ lastRow' \in Nat
    BY <1>4, <1>5, <1>8 DEF ReadinessInv, ReadinessTyped
  <2>. QED  BY <1>8, <2>1, <2>2, <2>3, <2>4 DEF ReadinessTyped
<1>12. SetupsSound'
  <2>. SUFFICES ASSUME NEW b \in Askers, asked'[b].at \in {"setup", "cleared"}
                PROVE  SettingUp(asked[b])'
    BY DEF SetupsSound, SettingUp
  <2>1. PICK o : o = asked[b]
    OBVIOUS
  <2>2. asked'[b] = o
    BY <1>10, <2>1
  <2>3. o.criteria \subseteq Criteria /\ \A i \in IdsOf(o.old) : i \in 1..lastRow
    BY <2>1, <2>2 DEF ReadinessInv, SetupsSound, SettingUp
  <2>4. lastRow' \in IdsOf(readiness') /\ lastRow' \notin IdsOf(o.old)
    BY <1>4, <1>5, <1>6, <1>8, <2>3 DEF IdsOf
  <2>5. \A i \in IdsOf(o.old) : i \in 1..lastRow'
    BY <1>4, <1>5, <2>3
  <2>. QED  BY <2>2, <2>3, <2>4, <2>5 DEF SettingUp, IdsOf
<1>13. OneEach'
  <2>. SUFFICES ASSUME ~doubled'
                PROVE  /\ Same(readiness')
                       /\ \A s \in readiness' : {c.name : c \in criterion'} = s.criteria
                       /\ \A c, d \in criterion' : c.name = d.name => c = d
    BY DEF OneEach, Same
  <2>1. IdsOf(readiness) = IdsOf(r.old)
    BY <1>8
  <2>2. readiness' = {new}
    BY <1>8, <2>1 DEF IdsOf
  <2>3. IdsOf(r.statuses) = IdsOf(criterion)
    BY <1>2, <2>1 DEF SettingUp
  <2>4. criterion' = starts
    BY <1>8, <2>3 DEF SetupLeaves, IdsOf
  <2>. QED  BY <1>6, <1>9, <2>2, <2>4 DEF Same
<1>14. FigureMended'
  BY <1>10 DEF FigureMended, Mends
<1>. QED  BY <1>11, <1>12, <1>13, <1>14 DEF ReadinessInv

LEMMA UpdateBeginsSound ==
  ASSUME ReadinessInv, NEW a \in Askers, NEW name, UpdateBegins(a, name)
  PROVE  ReadinessInv'
<1>1. PICK ids : ids = {c.id : c \in {d \in criterion : d.name = name}}
  OBVIOUS
<1>2. PICK r : r = [at |-> "update", row |-> ids]
  OBVIOUS
<1>3. /\ asked' = [asked EXCEPT ![a] = r] /\ asked[a] = NotAsked
      /\ UNCHANGED <<readiness, criterion, lastRow, doubled, outdated>>
  BY <1>1, <1>2 DEF UpdateBegins, Asks
<1>4. SettingUp(r) /\ ~Mends(asked[a])
  BY <1>2, <1>3 DEF SettingUp, Mends, NotAsked
<1>. QED  BY <1>3, <1>4, OneAskerMoves

\* A status that is rewritten keeps its id and its criterion.
LEMMA UpdateCommitsSound ==
  ASSUME ReadinessInv, NEW a \in Askers, NEW mark, UpdateCommits(a, mark)
  PROVE  ReadinessInv'
<1>1. PICK mine : mine = {c \in criterion : c.id \in asked[a].row}
  OBVIOUS
<1>2. PICK marked : marked = [c \in mine |-> [c EXCEPT !.mark = mark]]
  OBVIOUS
<1>3. /\ criterion' = (criterion \ mine) \cup {marked[c] : c \in mine}
      /\ asked' = [asked EXCEPT ![a] = IF mine = {} THEN NotAsked ELSE [at |-> "summary"]]
      /\ asked[a].at = "update"
      /\ UNCHANGED <<readiness, lastRow, doubled, outdated>>
  BY <1>1, <1>2 DEF UpdateCommits, GoesOn
<1>4. ASSUME NEW c \in mine
      PROVE  /\ marked[c].id = c.id /\ marked[c].name = c.name
             /\ marked[c] = [id |-> marked[c].id, name |-> marked[c].name, mark |-> marked[c].mark]
  <2>1. c = [id |-> c.id, name |-> c.name, mark |-> c.mark] /\ marked[c] = [c EXCEPT !.mark = mark]
    BY <1>1, <1>2 DEF ReadinessInv, ReadinessTyped
  <2>2. marked[c] = [id |-> c.id, name |-> c.name, mark |-> mark]
    BY <2>1
  <2>. QED  BY <2>2
<1>5. mine \subseteq criterion
  BY <1>1
<1>6. CASE mine = {}
  <2>1. asked' = [asked EXCEPT ![a] = NotAsked] /\ criterion' = criterion
    BY <1>3, <1>6
  <2>2. SettingUp(NotAsked) /\ ~Mends(asked[a])
    BY <1>3 DEF SettingUp, NotAsked, Mends
  <2>. QED  BY <1>3, <2>1, <2>2, OneAskerMoves
<1>7. CASE mine # {}
  <2>1. asked'[a].at = "summary" /\ DOMAIN asked' = Askers
        /\ \A b \in Askers : b # a => asked'[b] = asked[b]
    BY <1>3, <1>7 DEF ReadinessInv, ReadinessTyped
  <2>2. ReadinessTyped'
    BY <1>3, <1>4, <1>5, <2>1 DEF ReadinessInv, ReadinessTyped
  <2>3. IdsOf(criterion') = IdsOf(criterion) /\ {c.name : c \in criterion'} = {c.name : c \in criterion}
    <3>1. \A c \in criterion : \E d \in criterion' : d.id = c.id /\ d.name = c.name
      <4>1. ASSUME NEW c \in mine PROVE \E d \in criterion' : d.id = c.id /\ d.name = c.name
        <5>1. marked[c] \in criterion'
          BY <1>3
        <5>. QED  BY <1>4, <5>1
      <4>. QED  BY <1>3, <4>1
    <3>2. \A d \in criterion' : \E c \in criterion : d.id = c.id /\ d.name = c.name
      <4>. SUFFICES ASSUME NEW d \in criterion'
                    PROVE  \E c \in criterion : d.id = c.id /\ d.name = c.name
        OBVIOUS
      <4>1. CASE d \in criterion
        BY <4>1
      <4>2. ASSUME NEW c \in mine, d = marked[c]
            PROVE  d.id = c.id /\ d.name = c.name /\ c \in criterion
        BY <1>4, <1>5, <4>2
      <4>. QED  BY <1>3, <4>1, <4>2
    <3>. QED  BY <3>1, <3>2 DEF IdsOf
  <2>4. SetupsSound'
    <3>. SUFFICES ASSUME NEW b \in Askers, asked'[b].at \in {"setup", "cleared"}
                  PROVE  SettingUp(asked[b])'
      BY DEF SetupsSound, SettingUp
    <3>1. asked'[b] = asked[b]
      BY <2>1
    <3>. QED  BY <1>3, <2>3, <3>1 DEF ReadinessInv, SetupsSound, SettingUp, IdsOf
  <2>5. OneEach'
    <3>. SUFFICES ASSUME ~doubled
                  PROVE  /\ Same(readiness)
                         /\ \A s \in readiness : {c.name : c \in criterion'} = s.criteria
                         /\ \A c, d \in criterion' : c.name = d.name => c = d
      BY <1>3 DEF OneEach, Same
    <3>1. /\ Same(readiness)
          /\ \A s \in readiness : {c.name : c \in criterion} = s.criteria
          /\ \A c, d \in criterion : c.name = d.name => c = d
      BY DEF ReadinessInv, OneEach
    <3>2. ASSUME NEW c \in criterion', NEW d \in criterion', c.name = d.name PROVE c = d
      <4>1. \A e \in criterion' : \/ e \in criterion \ mine
                                 \/ \E o \in mine : e = marked[o] /\ e.name = o.name
        <5>. SUFFICES ASSUME NEW o \in mine PROVE marked[o].name = o.name
          BY <1>3
        <5>. QED  BY <1>4
      <4>. QED  BY <1>5, <3>1, <3>2, <4>1
    <3>. QED  BY <1>3, <2>3, <3>1, <3>2
  <2>6. FigureMended'
    BY <2>1 DEF FigureMended, Mends
  <2>. QED  BY <2>2, <2>4, <2>5, <2>6 DEF ReadinessInv
<1>. QED  BY <1>6, <1>7

LEMMA ViewSound ==
  ASSUME ReadinessInv, NEW a \in Askers, View(a)
  PROVE  ReadinessInv'
<1>1. PICK r : r = [at |-> "summary"]
  OBVIOUS
<1>2. /\ asked' = [asked EXCEPT ![a] = r] /\ asked[a] = NotAsked
      /\ UNCHANGED <<readiness, criterion, lastRow, doubled, outdated>>
  BY <1>1 DEF View, Asks
<1>3. SettingUp(r) /\ ~Mends(asked[a])
  BY <1>1, <1>2 DEF SettingUp, Mends, NotAsked
<1>. QED  BY <1>2, <1>3, OneAskerMoves

\* The summary reads the figure with the statuses it computes it from.
LEMMA SummaryReadsSound ==
  ASSUME ReadinessInv, NEW a \in Askers, SummaryReads(a)
  PROVE  ReadinessInv'
<1>1. UNCHANGED <<readiness, criterion, lastRow, doubled, outdated>>
  BY DEF SummaryReads
<1>2. CASE Cardinality(readiness) = 1
  <2>1. PICK r : r = [at |-> "computed", row |-> readiness, statuses |-> criterion]
    OBVIOUS
  <2>2. asked' = [asked EXCEPT ![a] = r]
    BY <1>2, <2>1 DEF SummaryReads, GoesOn
  <2>3. SettingUp(r) /\ Mends(r)
    BY <2>1 DEF SettingUp, Mends
  <2>. QED  BY <1>1, <2>2, <2>3, OneAskerMoves
<1>3. CASE Cardinality(readiness) # 1 /\ (readiness = {} \/ doubled)
  <2>1. asked' = [asked EXCEPT ![a] = NotAsked]
    BY <1>3 DEF SummaryReads, GoesOn
  <2>2. SettingUp(NotAsked)
    BY DEF SettingUp, NotAsked
  <2>3. CASE readiness = {}
    BY <1>1, <2>1, <2>2, <2>3, OneAskerMoves
  <2>4. CASE doubled
    <3>1. ReadinessTyped' /\ OneEach' /\ FigureMended'
      BY <1>1, <2>1, <2>4 DEF ReadinessInv, ReadinessTyped, OneEach, FigureMended
    <3>2. SetupsSound'
      BY <1>1, <2>1, <2>2 DEF ReadinessInv, ReadinessTyped, SetupsSound, SettingUp
    <3>. QED  BY <3>1, <3>2 DEF ReadinessInv
  <2>. QED  BY <1>3, <2>3, <2>4
<1>4. CASE Cardinality(readiness) # 1 /\ readiness # {} /\ ~doubled
  <2>1. PICK s : s \in readiness
    BY <1>4
  <2>2. readiness = {s}
    BY <1>4, <2>1 DEF ReadinessInv, OneEach, Same
  <2>. QED  BY <1>4, <2>2, FS_Singleton
<1>. QED  BY <1>2, <1>3, <1>4

\* The row, with the figure if it is another than the one that was loaded.
Keeping(s, rows, share) ==
  IF \E o \in rows : o.id = s.id /\ o.overall # share THEN [s EXCEPT !.overall = share] ELSE s

\* Keeping a figure that was computed from the statuses there are puts it
\* right; keeping nothing leaves it to who would have.
LEMMA SummaryKeepsSound ==
  ASSUME ReadinessInv, NEW a \in Askers, SummaryKeeps(a)
  PROVE  ReadinessInv'
<1>1. PICK r : r = asked[a]
  OBVIOUS
<1>2. PICK share \in Shares(r.statuses) : readiness' = {Keeping(s, r.row, share) : s \in readiness}
  <2>1. \E share \in Shares(asked[a].statuses) :
           readiness' = {Keeping(s, asked[a].row, share) : s \in readiness}
    BY DEF SummaryKeeps, Keeping
  <2>. QED  BY <1>1, <2>1
<1>3. PICK kept : kept = [s \in readiness |-> Keeping(s, r.row, share)]
  OBVIOUS
<1>4. readiness' = {kept[s] : s \in readiness}
  BY <1>2, <1>3
<1>5. ASSUME NEW s \in readiness
      PROVE  /\ kept[s].id = s.id /\ kept[s].criteria = s.criteria
             /\ kept[s] = [id |-> kept[s].id, criteria |-> kept[s].criteria, overall |-> kept[s].overall]
             /\ kept[s] # s => kept[s].overall = share
             /\ \A o \in r.row : o.id = s.id /\ o.overall # share => kept[s].overall = share
  <2>1. s = [id |-> s.id, criteria |-> s.criteria, overall |-> s.overall]
    BY DEF ReadinessInv, ReadinessTyped
  <2>2. PICK t : t = [s EXCEPT !.overall = share]
    OBVIOUS
  <2>3. t = [id |-> s.id, criteria |-> s.criteria, overall |-> share]
    BY <2>1, <2>2
  <2>4. kept[s] = IF \E o \in r.row : o.id = s.id /\ o.overall # share THEN t ELSE s
    BY <1>3, <2>2 DEF Keeping
  <2>. QED  BY <2>1, <2>3, <2>4
<1>6. /\ r.at = "computed"
      /\ outdated' = (r.statuses # criterion \/ (outdated /\ readiness' = readiness))
      /\ asked' = [asked EXCEPT ![a] = NotAsked]
      /\ UNCHANGED <<criterion, lastRow, doubled>>
  BY <1>1 DEF SummaryKeeps, GoesOn
<1>7. asked'[a] = NotAsked /\ \A b \in Askers : b # a => asked'[b] = asked[b]
  BY <1>6 DEF ReadinessInv, ReadinessTyped
<1>8. /\ \A t \in readiness' : \E s \in readiness : t = kept[s]
      /\ \A s \in readiness : kept[s] \in readiness'
      /\ IdsOf(readiness') = IdsOf(readiness)
  <2>1. \A t \in readiness' : \E s \in readiness : t = kept[s]
    BY <1>4
  <2>2. \A s \in readiness : kept[s] \in readiness'
    BY <1>4
  <2>3. \A s \in readiness : kept[s].id = s.id
    BY <1>5
  <2>. QED  BY <2>1, <2>2, <2>3 DEF IdsOf
<1>9. ReadinessTyped'
  <2>1. ASSUME NEW t \in readiness'
        PROVE  t = [id |-> t.id, criteria |-> t.criteria, overall |-> t.overall] /\ t.id \in 1..lastRow
    <3>1. PICK s \in readiness : t = kept[s]
      BY <1>8
    <3>2. s.id \in 1..lastRow
      BY DEF ReadinessInv, ReadinessTyped
    <3>. QED  BY <1>5, <3>1, <3>2
  <2>. QED  BY <1>6, <2>1 DEF ReadinessInv, ReadinessTyped
<1>10. SetupsSound'
  <2>. SUFFICES ASSUME NEW b \in Askers, asked'[b].at \in {"setup", "cleared"}
                PROVE  SettingUp(asked[b])'
    BY DEF SetupsSound, SettingUp
  <2>1. asked'[b] = asked[b]
    BY <1>7 DEF NotAsked
  <2>. QED  BY <1>6, <1>8, <2>1 DEF ReadinessInv, SetupsSound, SettingUp, IdsOf
<1>11. OneEach'
  <2>. SUFFICES ASSUME ~doubled
                PROVE  /\ \A t, u \in readiness' : t = u
                       /\ \A t \in readiness' : {c.name : c \in criterion} = t.criteria
                       /\ \A c, d \in criterion : c.name = d.name => c = d
    BY <1>6 DEF OneEach, Same
  <2>1. /\ \A s, t \in readiness : s = t
        /\ \A s \in readiness : {c.name : c \in criterion} = s.criteria
        /\ \A c, d \in criterion : c.name = d.name => c = d
    BY DEF ReadinessInv, OneEach, Same
  <2>2. \A s \in readiness : kept[s].criteria = s.criteria
    BY <1>5
  <2>. QED  BY <1>8, <2>1, <2>2
<1>12. FigureMended'
  <2>. SUFFICES ASSUME ~doubled, ~outdated', ~Agrees'
                PROVE  \E b \in Askers : Mends(asked[b])'
    BY <1>6 DEF FigureMended
  <2>1. r.statuses = criterion /\ (~outdated \/ readiness' # readiness)
    BY <1>6
  <2>2. \A s \in readiness : kept[s] = s
    <3>. SUFFICES ASSUME NEW s \in readiness, kept[s] # s
                  PROVE  FALSE
      OBVIOUS
    <3>1. readiness' = {kept[s]}
      BY <1>4 DEF ReadinessInv, OneEach, Same
    <3>2. kept[s].overall \in Shares(criterion)
      BY <1>2, <1>5, <2>1
    <3>. QED  BY <1>6, <3>1, <3>2 DEF Agrees
  <2>3. readiness' = readiness
    BY <1>4, <2>2
  <2>4. ~outdated /\ ~Agrees
    BY <1>6, <2>1, <2>3 DEF Agrees
  <2>5. PICK b \in Askers : Mends(asked[b])
    BY <2>4 DEF ReadinessInv, FigureMended
  <2>6. CASE b = a
    <3>1. PICK s \in readiness : s.overall \notin Shares(criterion)
      BY <2>4 DEF Agrees
    <3>2. PICK o \in r.row : o.id = s.id /\ o.overall = s.overall
      BY <1>1, <1>6, <2>1, <2>5, <2>6 DEF Mends
    <3>3. o.overall # share
      BY <1>2, <2>1, <3>1, <3>2
    <3>. QED  BY <1>2, <1>5, <2>1, <2>2, <3>1, <3>2, <3>3
  <2>7. CASE b # a
    BY <1>6, <1>7, <2>3, <2>5, <2>7 DEF Mends
  <2>. QED  BY <2>6, <2>7
<1>. QED  BY <1>9, <1>10, <1>11, <1>12 DEF ReadinessInv

LEMMA ReadinessStopsSound ==
  ASSUME ReadinessInv, ReadinessStops
  PROVE  ReadinessInv'
BY DEF ReadinessStops, ReadinessInv, ReadinessTyped, SetupsSound, SettingUp, OneEach, Same, FigureMended, NotAsked

LEMMA ReadinessIsTold == ReadinessInv => ReadinessTold
<1>. SUFFICES ASSUME ReadinessInv PROVE ReadinessTold
  OBVIOUS
<1>1. ASSUME ~doubled PROVE OneRow(readiness)
  <2>1. Same(readiness)
    BY <1>1 DEF ReadinessInv, OneEach
  <2>2. CASE readiness = {}
    BY <2>2, FS_EmptySet DEF OneRow
  <2>3. CASE readiness # {}
    <3>1. PICK s : s \in readiness
      BY <2>3
    <3>2. readiness = {s}
      BY <2>1, <3>1 DEF Same
    <3>. QED  BY <3>2, FS_Singleton DEF OneRow
  <2>. QED  BY <2>2, <2>3
<1>2. OneReadiness
  BY <1>1 DEF ReadinessInv, OneEach, OneReadiness
<1>3. OverallAgrees
  BY DEF ReadinessInv, FigureMended, Mends, OverallAgrees, Agrees, NotAsked
<1>. QED  BY <1>2, <1>3 DEF ReadinessTold

LEMMA ReadinessInitInv == ReadinessInit => ReadinessInv
  BY DEF ReadinessInit, ReadinessInv, ReadinessTyped, SetupsSound, SettingUp, OneEach, Same, FigureMended,
         Agrees, NotAsked

LEMMA ReadinessStep == ReadinessInv /\ [ReadinessNext]_readinessVars => ReadinessInv'
<1>. SUFFICES ASSUME ReadinessInv, [ReadinessNext]_readinessVars PROVE ReadinessInv'
  OBVIOUS
<1>1. CASE ReadinessStops
  BY <1>1, ReadinessStopsSound
<1>2. ASSUME NEW a \in Askers, NEW given \in SUBSET (Criteria \ Mandatory), SetupBegins(a, given)
      PROVE  ReadinessInv'
  BY <1>2, SetupBeginsSound
<1>3. ASSUME NEW a \in Askers, SetupClears(a) PROVE ReadinessInv'
  BY <1>3, SetupClearsSound
<1>4. ASSUME NEW a \in Askers, NEW gaps, SetupCommits(a, gaps) PROVE ReadinessInv'
  BY <1>4, SetupCommitsSound
<1>5. ASSUME NEW a \in Askers, NEW c, UpdateBegins(a, c) PROVE ReadinessInv'
  BY <1>5, UpdateBeginsSound
<1>6. ASSUME NEW a \in Askers, NEW mark, UpdateCommits(a, mark) PROVE ReadinessInv'
  BY <1>6, UpdateCommitsSound
<1>7. ASSUME NEW a \in Askers, View(a) PROVE ReadinessInv'
  BY <1>7, ViewSound
<1>8. ASSUME NEW a \in Askers, SummaryReads(a) PROVE ReadinessInv'
  BY <1>8, SummaryReadsSound
<1>9. ASSUME NEW a \in Askers, SummaryKeeps(a) PROVE ReadinessInv'
  BY <1>9, SummaryKeepsSound
<1>10. CASE UNCHANGED readinessVars
  BY <1>10 DEF readinessVars, ReadinessInv, ReadinessTyped, SetupsSound, SettingUp, OneEach, Same,
               FigureMended, Agrees, Mends
<1>. QED  BY <1>1, <1>2, <1>3, <1>4, <1>5, <1>6, <1>7, <1>8, <1>9, <1>10 DEF ReadinessNext

\* The numbering of a finite set that the rows' ids are given by exists.
LEMMA NumberingIsThere ==
  ASSUME NEW S, IsFiniteSet(S)
  PROVE  LET n == CHOOSE s \in [S -> 1..Cardinality(S)] : \A j, k \in S : s[j] = s[k] => j = k
         IN  /\ Cardinality(S) \in Nat
             /\ n \in [S -> 1..Cardinality(S)]
             /\ \A j, k \in S : n[j] = n[k] => j = k
<1>1. Cardinality(S) \in Nat /\ ExistsBijection(1..Cardinality(S), S)
  BY FS_CardinalityType
<1>2. ExistsBijection(S, 1..Cardinality(S))
  BY <1>1, Fun_ExistsBijSymmetric
<1>3. PICK s : s \in Bijection(S, 1..Cardinality(S))
  BY <1>2 DEF ExistsBijection
<1>4. s \in [S -> 1..Cardinality(S)] /\ \A j, k \in S : s[j] = s[k] => j = k
  BY <1>3 DEF Bijection, Injection, IsInjective
<1>. QED  BY <1>1, <1>4

\* Ids, criteria, marks and the figure, and that what a request counts is finite.
FiguresTyped ==
  /\ \A r \in readiness : r.criteria \subseteq Criteria /\ r.overall \in 0..100
  /\ \A c \in criterion : c.id \in 1..lastRow /\ c.name \in Criteria /\ c.mark \in Marks
  /\ IsFiniteSet(criterion)
  /\ \A a \in Askers : asked[a].at = "computed" => IsFiniteSet(asked[a].statuses)
  /\ asks \in 0..MaxAsks /\ doubled \in BOOLEAN /\ outdated \in BOOLEAN

LEMMA ReadinessTypes == ReadinessInv /\ FiguresTyped => ReadinessTypeOK
<1>. SUFFICES ASSUME ReadinessInv, FiguresTyped PROVE ReadinessTypeOK
  OBVIOUS
<1>1. \A r \in readiness : r.id \in 1..lastRow
  BY DEF ReadinessInv, ReadinessTyped
<1>. QED  BY <1>1 DEF FiguresTyped, ReadinessTypeOK

\* A share of a whole is at most a hundred per cent, rounded as well.
LEMMA SharesArePercents ==
  ASSUME NEW statuses, IsFiniteSet(statuses)
  PROVE  Shares(statuses) \subseteq 0..100
<1>. PICK ready : ready = {c \in statuses : c.mark = "ready"}
  OBVIOUS
<1>. PICK t, n : t = Cardinality(statuses) /\ n = Cardinality(ready)
  OBVIOUS
<1>1. t \in Nat /\ n \in Nat /\ n <= t
  BY FS_CardinalityType, FS_Subset
<1>2. CASE t = 0
  BY <1>2 DEF Shares
<1>3. CASE t # 0
  <2>1. Shares(statuses) = {s \in {(100 * n) \div t, (100 * n) \div t + 1} :
                              2 * s * t - 2 * (100 * n) <= t /\ 2 * (100 * n) - 2 * s * t <= t}
    BY <1>3 DEF Shares
  <2>. PICK q : q = (100 * n) \div t
    OBVIOUS
  <2>2. q \in Nat /\ q * t <= 100 * n
    BY <1>1, <1>3
  <2>3. q <= 100
    <3>1. q * t <= 100 * t
      BY <1>1, <2>2
    <3>. QED  BY <1>1, <1>3, <2>2, <3>1
  <2>4. ASSUME NEW s \in Shares(statuses) PROVE s \in 0..100
    <3>1. s \in {q, q + 1} /\ 2 * s * t - 2 * (100 * n) <= t
      BY <2>1
    <3>2. s \in Nat
      BY <2>2, <3>1
    <3>3. ~(s >= 101)
      <4>. SUFFICES ASSUME s >= 101 PROVE FALSE
        OBVIOUS
      <4>1. s * t >= 101 * t /\ s * t \in Nat
        BY <1>1, <3>2
      <4>2. 2 * s * t = 2 * (s * t)
        BY <1>1, <3>2
      <4>. QED  BY <1>1, <1>3, <3>1, <4>1, <4>2
    <3>. QED  BY <3>2, <3>3
  <2>. QED  BY <2>4
<1>. QED  BY <1>2, <1>3

\* The statuses a setup gives.
LEMMA NewStatusesTyped ==
  ASSUME NEW r, r.criteria \subseteq Criteria, NEW gaps, lastRow \in Nat
  PROVE  /\ IsFiniteSet(NewStatuses(r, gaps))
         /\ Cardinality(r.criteria) \in Nat
         /\ \A c \in NewStatuses(r, gaps) :
              c.id \in 1..(lastRow + 1 + Cardinality(r.criteria)) /\ c.name \in Criteria /\ c.mark \in Marks
<1>. PICK S : S = r.criteria
  OBVIOUS
<1>1. IsFiniteSet(S) /\ S \subseteq Criteria
  BY ReadinessAssumption, FS_Subset
<1>. PICK size : size = Cardinality(S)
  OBVIOUS
<1>2. size \in Nat
  BY <1>1, FS_CardinalityType
<1>3. PICK place \in [S -> 1..size] :
        NewStatuses(r, gaps) = {[id |-> lastRow + place[c], name |-> c,
                                 mark |-> IF c \in gaps THEN "gap" ELSE "not_started"] : c \in S}
  <2>. DEFINE numbered == CHOOSE s \in [r.criteria -> 1..Cardinality(r.criteria)] :
                            \A c, d \in r.criteria : s[c] = s[d] => c = d
  <2>1. numbered \in [S -> 1..size]
    BY <1>1, NumberingIsThere
  <2>2. NewStatuses(r, gaps) = {[id |-> lastRow + numbered[c], name |-> c,
                                 mark |-> IF c \in gaps THEN "gap" ELSE "not_started"] : c \in r.criteria}
    BY DEF NewStatuses
  <2>. QED  BY <2>1, <2>2
<1>. PICK f : f = [c \in S |-> [id |-> lastRow + place[c], name |-> c,
                                mark |-> IF c \in gaps THEN "gap" ELSE "not_started"]]
  OBVIOUS
<1>4. NewStatuses(r, gaps) = {f[c] : c \in S}
  BY <1>3
<1>5. IsFiniteSet({f[c] : c \in S})
  <2>1. {f[c] : c \in S} = Range(f)
    BY DEF Range
  <2>2. f \in Surjection(S, Range(f))
    BY DEF Surjection, Range
  <2>. QED  BY <1>1, <2>1, <2>2, FS_Surjection
<1>6. ASSUME NEW c \in S
      PROVE  f[c].id \in 1..(lastRow + 1 + size) /\ f[c].name \in Criteria /\ f[c].mark \in Marks
  <2>1. f[c].id = lastRow + place[c] /\ f[c].name = c /\ f[c].mark \in {"gap", "not_started"}
    OBVIOUS
  <2>2. PICK n \in 1..size : f[c].id = lastRow + n
    BY <2>1
  <2>3. lastRow + n \in 1..(lastRow + 1 + size)
    BY <1>2
  <2>4. f[c].id \in 1..(lastRow + 1 + size)
    BY <2>2, <2>3
  <2>. QED  BY <1>1, <2>1, <2>4 DEF Marks
<1>. QED  BY <1>2, <1>4, <1>5, <1>6

LEMMA FiguresInit == ReadinessInit => FiguresTyped
<1>. SUFFICES ASSUME ReadinessInit PROVE FiguresTyped
  OBVIOUS
<1>1. asks \in 0..MaxAsks
  BY ReadinessAssumption DEF ReadinessInit
<1>2. doubled \in BOOLEAN /\ outdated \in BOOLEAN /\ readiness = {} /\ criterion = {}
  BY DEF ReadinessInit
<1>3. \A a \in Askers : asked[a].at = "idle"
  BY DEF ReadinessInit, NotAsked
<1>. QED  BY <1>1, <1>2, <1>3, FS_EmptySet DEF FiguresTyped

LEMMA FiguresStep == ReadinessInv /\ FiguresTyped /\ [ReadinessNext]_readinessVars => FiguresTyped'
<1>. SUFFICES ASSUME ReadinessInv, FiguresTyped, [ReadinessNext]_readinessVars PROVE FiguresTyped'
  OBVIOUS
<1>0. lastRow \in Nat /\ DOMAIN asked = Askers
  BY DEF ReadinessInv, ReadinessTyped
<1>1. ASSUME NEW a \in Askers, NEW r, asked' = [asked EXCEPT ![a] = r], r.at # "computed" \/ IsFiniteSet(r.statuses)
      PROVE  \A b \in Askers : asked'[b].at = "computed" => IsFiniteSet(asked'[b].statuses)
  BY <1>0, <1>1 DEF FiguresTyped
<1>2. ASSUME UNCHANGED <<readiness, criterion, lastRow, doubled>>, outdated' \in BOOLEAN, asks' \in {asks, asks + 1},
             asks' = asks \/ asks < MaxAsks,
             \A b \in Askers : asked'[b].at = "computed" => IsFiniteSet(asked'[b].statuses)
      PROVE  FiguresTyped'
  <2>1. asks' \in 0..MaxAsks
    BY <1>2, ReadinessAssumption DEF FiguresTyped
  <2>. QED  BY <1>2, <2>1 DEF FiguresTyped
<1>3. CASE ReadinessStops
  BY <1>0, <1>2, <1>3 DEF ReadinessStops, NotAsked
<1>4. ASSUME NEW a \in Askers, NEW given, SetupBegins(a, given) PROVE FiguresTyped'
  BY <1>1, <1>2, <1>4 DEF SetupBegins, Asks, FiguresTyped
<1>5. ASSUME NEW a \in Askers, SetupClears(a) PROVE FiguresTyped'
  BY <1>1, <1>2, <1>5 DEF SetupClears, GoesOn, FiguresTyped
<1>6. ASSUME NEW a \in Askers, NEW gaps, SetupCommits(a, gaps) PROVE FiguresTyped'
  <2>. PICK r : r = asked[a]
    OBVIOUS
  <2>. PICK starts, size : starts = NewStatuses(r, gaps) /\ size = Cardinality(r.criteria)
    OBVIOUS
  <2>1. r.criteria \subseteq Criteria
    BY <1>6 DEF SetupCommits, ReadinessInv, SetupsSound, SettingUp
  <2>2. /\ IsFiniteSet(starts) /\ size \in Nat
        /\ \A c \in starts : c.id \in 1..(lastRow + 1 + size) /\ c.name \in Criteria /\ c.mark \in Marks
    BY <1>0, <2>1, NewStatusesTyped
  <2>. PICK new : new = [id |-> lastRow', criteria |-> r.criteria, overall |-> 0]
    OBVIOUS
  <2>3. /\ lastRow' = lastRow + 1 + size
        /\ readiness' \subseteq readiness \cup {new}
        /\ criterion' \subseteq criterion \cup starts
        /\ asked' = [asked EXCEPT ![a] = [at |-> "summary"]] /\ asks' = asks
    BY <1>6 DEF SetupCommits, SetupLeaves, GoesOn
  <2>4. doubled' \in BOOLEAN /\ outdated' \in BOOLEAN
    BY <1>6 DEF SetupCommits
  <2>5. new.criteria = r.criteria /\ new.overall = 0
    OBVIOUS
  <2>6. \A s \in readiness' : s.criteria \subseteq Criteria /\ s.overall \in 0..100
    BY <2>1, <2>3, <2>5 DEF FiguresTyped
  <2>7. \A c \in criterion' : c.id \in 1..lastRow' /\ c.name \in Criteria /\ c.mark \in Marks
    BY <1>0, <2>2, <2>3 DEF FiguresTyped
  <2>8. IsFiniteSet(criterion')
    BY <2>2, <2>3, FS_Union, FS_Subset DEF FiguresTyped
  <2>9. \A b \in Askers : asked'[b].at = "computed" => IsFiniteSet(asked'[b].statuses)
    BY <1>1, <2>3
  <2>. QED  BY <2>3, <2>4, <2>6, <2>7, <2>8, <2>9 DEF FiguresTyped
<1>7. ASSUME NEW a \in Askers, NEW c, UpdateBegins(a, c) PROVE FiguresTyped'
  BY <1>1, <1>2, <1>7 DEF UpdateBegins, Asks, FiguresTyped
<1>8. ASSUME NEW a \in Askers, NEW mark \in {"ready", "in_progress"}, UpdateCommits(a, mark) PROVE FiguresTyped'
  <2>. PICK mine : mine = {c \in criterion : c.id \in asked[a].row}
    OBVIOUS
  <2>. PICK f : f = [c \in mine |-> [c EXCEPT !.mark = mark]]
    OBVIOUS
  <2>1. /\ criterion' = (criterion \ mine) \cup {f[c] : c \in mine}
        /\ asks' = asks /\ UNCHANGED <<readiness, lastRow, doubled, outdated>>
    BY <1>8 DEF UpdateCommits, GoesOn
  <2>2. \A b \in Askers : asked'[b].at = "computed" => IsFiniteSet(asked'[b].statuses)
    BY <1>1, <1>8 DEF UpdateCommits, GoesOn, NotAsked
  <2>3. IsFiniteSet(mine) /\ IsFiniteSet(criterion \ mine)
    BY FS_Subset DEF FiguresTyped
  <2>4. IsFiniteSet({f[c] : c \in mine})
    <3>1. {f[c] : c \in mine} = Range(f)
      BY DEF Range
    <3>2. f \in Surjection(mine, Range(f))
      BY DEF Surjection, Range
    <3>. QED  BY <2>3, <3>1, <3>2, FS_Surjection
  <2>5. IsFiniteSet(criterion')
    BY <2>1, <2>3, <2>4, FS_Union
  <2>6. ASSUME NEW c \in mine
        PROVE  f[c].id \in 1..lastRow /\ f[c].name \in Criteria /\ f[c].mark \in Marks
    <3>1. /\ c = [id |-> c.id, name |-> c.name, mark |-> c.mark]
          /\ c.id \in 1..lastRow /\ c.name \in Criteria
      BY DEF ReadinessInv, ReadinessTyped, FiguresTyped
    <3>2. f[c].id = c.id /\ f[c].name = c.name /\ f[c].mark = mark
      BY <3>1
    <3>. QED  BY <3>1, <3>2 DEF Marks
  <2>7. \A c \in criterion' : c.id \in 1..lastRow' /\ c.name \in Criteria /\ c.mark \in Marks
    BY <2>1, <2>6 DEF FiguresTyped
  <2>. QED  BY <2>1, <2>2, <2>5, <2>7 DEF FiguresTyped
<1>9. ASSUME NEW a \in Askers, View(a) PROVE FiguresTyped'
  BY <1>1, <1>2, <1>9 DEF View, Asks, FiguresTyped
<1>10. ASSUME NEW a \in Askers, SummaryReads(a) PROVE FiguresTyped'
  <2>1. PICK r : asked' = [asked EXCEPT ![a] = r] /\ (r.at # "computed" \/ r.statuses = criterion)
    <3>1. CASE GoesOn(a, [at |-> "computed", row |-> readiness, statuses |-> criterion])
      <4>1. PICK r : r = [at |-> "computed", row |-> readiness, statuses |-> criterion]
        OBVIOUS
      <4>2. asked' = [asked EXCEPT ![a] = r]
        BY <3>1, <4>1 DEF GoesOn
      <4>3. r.statuses = criterion
        BY <4>1
      <4>. QED  BY <4>2, <4>3
    <3>2. CASE GoesOn(a, NotAsked)
      <4>1. NotAsked.at # "computed"
        BY DEF NotAsked
      <4>. QED  BY <3>2, <4>1 DEF GoesOn
    <3>. QED  BY <1>10, <3>1, <3>2 DEF SummaryReads
  <2>2. asks' = asks /\ UNCHANGED <<readiness, criterion, lastRow, doubled, outdated>>
    BY <1>10 DEF SummaryReads, GoesOn
  <2>3. r.at # "computed" \/ IsFiniteSet(r.statuses)
    BY <2>1 DEF FiguresTyped
  <2>. QED  BY <1>1, <1>2, <2>1, <2>2, <2>3 DEF FiguresTyped
<1>11. ASSUME NEW a \in Askers, SummaryKeeps(a) PROVE FiguresTyped'
  <2>. PICK r : r = asked[a]
    OBVIOUS
  <2>1. PICK share \in Shares(r.statuses) : readiness' = {Keeping(s, r.row, share) : s \in readiness}
    <3>1. \E share \in Shares(asked[a].statuses) :
             readiness' = {Keeping(s, asked[a].row, share) : s \in readiness}
      BY <1>11 DEF SummaryKeeps, Keeping
    <3>. QED  BY <3>1
  <2>2. share \in 0..100
    BY <1>11, SharesArePercents DEF SummaryKeeps, FiguresTyped
  <2>3. ASSUME NEW s \in readiness' PROVE s.criteria \subseteq Criteria /\ s.overall \in 0..100
    <3>1. PICK o \in readiness : s \in {o, [o EXCEPT !.overall = share]}
      BY <2>1 DEF Keeping
    <3>2. o = [id |-> o.id, criteria |-> o.criteria, overall |-> o.overall]
          /\ o.criteria \subseteq Criteria /\ o.overall \in 0..100
      BY DEF ReadinessInv, ReadinessTyped, FiguresTyped
    <3>. QED  BY <2>2, <3>1, <3>2
  <2>4. outdated' \in BOOLEAN
    BY <1>11 DEF SummaryKeeps
  <2>5. asks' = asks /\ UNCHANGED <<criterion, lastRow, doubled>>
        /\ \A b \in Askers : asked'[b].at = "computed" => IsFiniteSet(asked'[b].statuses)
    BY <1>1, <1>11 DEF SummaryKeeps, GoesOn, NotAsked
  <2>. QED  BY <2>3, <2>4, <2>5 DEF FiguresTyped
<1>12. CASE UNCHANGED readinessVars
  BY <1>12 DEF readinessVars, FiguresTyped
<1>. QED
  BY <1>3, <1>4, <1>5, <1>6, <1>7, <1>8, <1>9, <1>10, <1>11, <1>12 DEF ReadinessNext

\* However many requests set the readiness up, update criteria and ask for the
\* figure at once, and wherever the platform stops: unless two setups overlap a
\* tenant has one readiness with one status for each of its criteria, and
\* between requests its figure is that of its statuses, but for the history
\* OverallAgrees excepts (setup_soc2, update_criterion and _build_summary).
THEOREM ReadinessInvariance == ReadinessSpec => [](ReadinessTypeOK /\ ReadinessTold)
<1>1. ReadinessInit => ReadinessInv /\ FiguresTyped
  BY ReadinessInitInv, FiguresInit
<1>2. ReadinessInv /\ FiguresTyped /\ [ReadinessNext]_readinessVars => (ReadinessInv /\ FiguresTyped)'
  BY ReadinessStep, FiguresStep
<1>3. ReadinessInv /\ FiguresTyped => ReadinessTypeOK /\ ReadinessTold
  BY ReadinessTypes, ReadinessIsTold
<1>. QED  BY <1>1, <1>2, <1>3, PTL DEF ReadinessSpec

-------------------------------------------------------------------------------
(* Catalog.  Ids are given once: what a request has read of a row stays    *)
(* true of the row with that id, or the row is gone.                       *)

CatalogTyped ==
  /\ release \in DOMAIN Releases /\ edits \in 0..MaxEdits
  /\ lastId \in [framework : Nat, control : Nat]
  /\ DOMAIN edit = Editors
FrameworksTyped ==
  /\ frameworks \subseteq FrameworkRow
  /\ \A f \in frameworks : f.id \in 1..lastId.framework
  /\ \A f, g \in frameworks : f.id = g.id => f = g
ControlsTyped ==
  /\ controls \subseteq ControlRow
  /\ \A c \in controls : c.id \in 1..lastId.control
  /\ \A c, d \in controls : c.id = d.id => c = d
ControlsPlaced == \A c \in controls : \E f \in frameworks : c.of = f.id

\* What a request has read, of the rows that are still there.
EditSound(r) ==
  /\ r.op = "create" =>
       /\ r.by \in Owners /\ r.key \in Names /\ \A i \in r.seen : i \in 1..lastId.framework
       /\ ~r.clash => \A f \in frameworks : f.id \in r.seen /\ f.owner \in {r.by, Shared} => f.key # <<r.key, 0>>
  /\ r.op = "delete" => r.of \in 1..lastId.framework /\ \A f \in frameworks : f.id = r.of => ~f.builtin
  /\ r.op = "write" => /\ r.by \in Owners /\ r.of \in 1..lastId.framework
                       /\ \A f \in frameworks : f.id = r.of => f.owner \in {r.by, Shared}
  /\ r.op \in {"rewrite", "remove"} =>
       /\ r.by \in Owners /\ r.control \in 1..lastId.control
       /\ \A c \in controls : c.id = r.control =>
            \A f \in frameworks : f.id = c.of => f.owner \in {r.by, Shared}
EditsSound == \A e \in Editors : EditSound(edit[e])

\* The code's frameworks: each key once, and none missing once there are any.
BuiltinsOnce ==
  /\ \A f, g \in frameworks : f.builtin /\ g.builtin /\ f.key = g.key => f = g
  /\ frameworks # {} => \A k \in Releases[release] : \E f \in frameworks : f.builtin /\ f.key = <<k, 0>>

CatalogInv ==
  /\ CatalogTyped /\ FrameworksTyped /\ ControlsTyped /\ ControlsPlaced /\ EditsSound
  /\ BuiltinsOnce /\ KeysDistinct /\ OwnControls

\* What a request has read outlasts every step that gives ids only once.
LEMMA EditKept ==
  ASSUME CatalogInv, NEW r, EditSound(r),
         lastId' \in [framework : Nat, control : Nat],
         lastId.framework <= lastId'.framework, lastId.control <= lastId'.control,
         \A f \in frameworks' : f \in frameworks \/ f.id \notin 1..lastId.framework,
         \A c \in controls' : \/ \E d \in controls : d.id = c.id /\ d.of = c.of
                              \/ c.id \notin 1..lastId.control
  PROVE  EditSound(r)'
<1>1. lastId.framework \in Nat /\ lastId.control \in Nat /\ lastId'.framework \in Nat /\ lastId'.control \in Nat
  BY DEF CatalogInv, CatalogTyped
<1>2. /\ \A i : i \in 1..lastId.framework => i \in 1..lastId'.framework
      /\ \A i : i \in 1..lastId.control => i \in 1..lastId'.control
  BY <1>1
<1>3. \A d \in controls : d.of \in 1..lastId.framework
  BY DEF CatalogInv, ControlsPlaced, FrameworksTyped
<1>4. r.op = "create" =>
       /\ r.by \in Owners /\ r.key \in Names /\ \A i \in r.seen : i \in 1..lastId'.framework
       /\ ~r.clash => \A f \in frameworks' : f.id \in r.seen /\ f.owner \in {r.by, Shared} => f.key # <<r.key, 0>>
  BY <1>2 DEF EditSound
<1>5. r.op = "delete" => r.of \in 1..lastId'.framework /\ \A f \in frameworks' : f.id = r.of => ~f.builtin
  BY <1>2 DEF EditSound
<1>6. r.op = "write" => /\ r.by \in Owners /\ r.of \in 1..lastId'.framework
                        /\ \A f \in frameworks' : f.id = r.of => f.owner \in {r.by, Shared}
  BY <1>2 DEF EditSound
<1>7. r.op \in {"rewrite", "remove"} =>
       /\ r.by \in Owners /\ r.control \in 1..lastId'.control
       /\ \A c \in controls' : c.id = r.control =>
            \A f \in frameworks' : f.id = c.of => f.owner \in {r.by, Shared}
  <2>. SUFFICES ASSUME r.op \in {"rewrite", "remove"}, NEW c \in controls', c.id = r.control,
                       NEW f \in frameworks', f.id = c.of
                PROVE  f.owner \in {r.by, Shared}
    BY <1>2 DEF EditSound
  <2>1. PICK d \in controls : d.id = c.id /\ d.of = c.of
    BY DEF EditSound
  <2>2. f \in frameworks
    BY <1>3, <2>1
  <2>. QED  BY <2>1, <2>2 DEF EditSound
<1>. QED  BY <1>4, <1>5, <1>6, <1>7 DEF EditSound

\* A request that begins changes no row.
LEMMA EditBegins ==
  ASSUME CatalogInv, NEW e \in Editors, NEW r, Takes(e, r), Untouched, EditSound(r)
  PROVE  CatalogInv'
<1>1. /\ edit' = [edit EXCEPT ![e] = r] /\ edits < MaxEdits /\ edits' = edits + 1
      /\ UNCHANGED <<release, frameworks, controls, lastId, excused>>
  BY DEF Takes, Untouched
<1>2. CatalogTyped'
  BY <1>1, CatalogAssumption DEF CatalogInv, CatalogTyped
<1>3. EditsSound'
  BY <1>1 DEF CatalogInv, CatalogTyped, EditsSound, EditSound
<1>4. FrameworksTyped' /\ ControlsTyped' /\ ControlsPlaced' /\ BuiltinsOnce' /\ KeysDistinct' /\ OwnControls'
  BY <1>1 DEF CatalogInv, FrameworksTyped, ControlsTyped, ControlsPlaced, BuiltinsOnce, KeysDistinct, OwnControls,
              Visible, ControlsOf
<1>. QED  BY <1>2, <1>3, <1>4 DEF CatalogInv

LEMMA CreateBeginsSound ==
  ASSUME CatalogInv, NEW e \in Editors, NEW t \in Owners, NEW k \in Names, CreateBegins(e, t, k)
  PROVE  CatalogInv'
<1>1. PICK clash \in BOOLEAN : clash = (Framework(<<k, 0>>, t) # {})
  OBVIOUS
<1>2. PICK r : r = [op |-> "create", by |-> t, key |-> k, seen |-> {f.id : f \in frameworks}, clash |-> clash]
  OBVIOUS
<1>3. Takes(e, r) /\ Untouched
  BY <1>1, <1>2 DEF CreateBegins
<1>4. /\ r.op = "create" /\ r.by = t /\ r.key = k /\ r.seen = {f.id : f \in frameworks} /\ r.clash = clash
  BY <1>2
<1>5. ~clash => \A f \in frameworks : f.owner \in {t, Shared} => f.key # <<k, 0>>
  BY <1>1 DEF Framework, Visible
<1>6. \A i \in {f.id : f \in frameworks} : i \in 1..lastId.framework
  BY DEF CatalogInv, FrameworksTyped
<1>7. EditSound(r)
  BY <1>4, <1>5, <1>6 DEF EditSound
<1>. QED  BY <1>3, <1>7, EditBegins

LEMMA DeleteBeginsSound ==
  ASSUME CatalogInv, NEW e \in Editors, NEW t \in Owners, NEW f \in frameworks, DeleteBegins(e, t, f)
  PROVE  CatalogInv'
<1>1. PICK r : r = [op |-> "delete", by |-> t, of |-> f.id, read |-> {c.id : c \in ControlsOf(f.id)}]
  OBVIOUS
<1>2. Takes(e, r) /\ Untouched /\ ~f.builtin
  BY <1>1 DEF DeleteBegins
<1>3. EditSound(r)
  BY <1>1, <1>2 DEF EditSound, CatalogInv, FrameworksTyped
<1>. QED  BY <1>2, <1>3, EditBegins

LEMMA WriteBeginsSound ==
  ASSUME CatalogInv, NEW e \in Editors, NEW t \in Owners, NEW f \in Editable(t), NEW replace,
         WriteBegins(e, t, f, replace)
  PROVE  CatalogInv'
<1>1. PICK r : r = [op |-> "write", by |-> t, of |-> f.id, replace |-> replace,
                    read |-> IF replace THEN {c.id : c \in ControlsOf(f.id)} ELSE {}]
  OBVIOUS
<1>2. Takes(e, r) /\ Untouched
  BY <1>1 DEF WriteBegins
<1>3. EditSound(r)
  BY <1>1 DEF EditSound, CatalogInv, FrameworksTyped, Editable, Visible
<1>. QED  BY <1>2, <1>3, EditBegins

LEMMA ChangeBeginsSound ==
  ASSUME CatalogInv, NEW e \in Editors, NEW t \in Owners, NEW c \in controls, NEW op \in {"rewrite", "remove"},
         ChangeBegins(e, t, c, op)
  PROVE  CatalogInv'
<1>1. PICK r : r = [op |-> op, by |-> t, control |-> c.id]
  OBVIOUS
<1>2. Takes(e, r) /\ Untouched /\ \E f \in Editable(t) : f.id = c.of
  BY <1>1 DEF ChangeBegins
<1>3. EditSound(r)
  BY <1>1, <1>2 DEF EditSound, CatalogInv, FrameworksTyped, ControlsTyped, Editable, Visible
<1>. QED  BY <1>2, <1>3, EditBegins

\* A request that ends leaves the others'.
LEMMA EditEnds ==
  ASSUME CatalogInv, NEW e \in Editors, Ends(e),
         lastId' \in [framework : Nat, control : Nat],
         lastId.framework <= lastId'.framework, lastId.control <= lastId'.control,
         \A f \in frameworks' : f \in frameworks \/ f.id \notin 1..lastId.framework,
         \A c \in controls' : \/ \E d \in controls : d.id = c.id /\ d.of = c.of
                              \/ c.id \notin 1..lastId.control
  PROVE  CatalogTyped' /\ EditsSound'
<1>1. edit' = [edit EXCEPT ![e] = NoEdit] /\ UNCHANGED <<edits, release>>
  BY DEF Ends
<1>2. CatalogTyped'
  BY <1>1 DEF CatalogInv, CatalogTyped
<1>3. ASSUME NEW d \in Editors PROVE EditSound(edit[d])'
  <2>1. CASE d = e
    BY <1>1, <2>1 DEF CatalogInv, CatalogTyped, EditSound, NoEdit
  <2>2. CASE d # e
    <3>1. edit'[d] = edit[d]
      BY <1>1, <2>2 DEF CatalogInv, CatalogTyped
    <3>2. PICK r : r = edit[d]
      OBVIOUS
    <3>3. EditSound(r)
      BY <3>2 DEF CatalogInv, EditsSound
    <3>4. EditSound(r)'
      BY <3>3, EditKept
    <3>. QED  BY <3>1, <3>2, <3>4 DEF EditSound
  <2>. QED  BY <2>1, <2>2
<1>. QED  BY <1>2, <1>3 DEF EditsSound

\* A new framework's key is new to its tenant, but for those that came since it
\* was looked up and those stamped in the same second.
LEMMA CreateEndsSound ==
  ASSUME CatalogInv, NEW e \in Editors, NEW second \in 1..MaxSecond, CreateEnds(e, second), frameworks # {}
  PROVE  CatalogInv'
<1>1. PICK r : r = edit[e]
  OBVIOUS
<1>2. PICK key : key = IF r.clash THEN <<r.key, second>> ELSE <<r.key, 0>>
  OBVIOUS
<1>3. PICK new : new = [id |-> lastId.framework + 1, owner |-> r.by, builtin |-> FALSE, key |-> key]
  OBVIOUS
<1>4. PICK last : last = [lastId EXCEPT !.framework = @ + 1]
  OBVIOUS
<1>5. /\ r.op = "create" /\ Ends(e)
      /\ frameworks' = frameworks \cup {new} /\ lastId' = last
      /\ excused' = excused \cup
           {{new.id, f.id} : f \in {g \in frameworks : g.id \notin r.seen \/ (r.clash /\ g.key = new.key)}}
      /\ controls' = controls
  BY <1>1, <1>2, <1>3, <1>4 DEF CreateEnds
<1>6. /\ r.by \in Owners /\ r.key \in Names
      /\ ~r.clash => \A f \in frameworks : f.id \in r.seen /\ f.owner \in {r.by, Shared} => f.key # <<r.key, 0>>
  BY <1>1, <1>5 DEF CatalogInv, EditsSound, EditSound
<1>7. /\ last \in [framework : Nat, control : Nat] /\ last.framework = lastId.framework + 1
      /\ last.control = lastId.control /\ lastId.framework \in Nat /\ lastId.control \in Nat
  BY <1>4 DEF CatalogInv, CatalogTyped
<1>8. new.id = lastId.framework + 1 /\ new.owner = r.by /\ new.builtin = FALSE /\ new.key = key
  BY <1>3
<1>9. new.id \notin 1..lastId.framework /\ new.id \in 1..last.framework
  BY <1>7, <1>8
<1>10. CatalogTyped' /\ EditsSound'
  BY <1>5, <1>7, <1>9, EditEnds
<1>11. FrameworksTyped'
  <2>1. key \in FreeKeys
    BY <1>2, <1>6, CatalogAssumption DEF FreeKeys
  <2>2. new \in FrameworkRow
    BY <1>3, <1>6, <1>7, <2>1 DEF FrameworkRow
  <2>3. \A f \in frameworks : f.id \in 1..lastId.framework /\ f.id \in 1..last.framework
    BY <1>7 DEF CatalogInv, FrameworksTyped
  <2>. QED  BY <1>5, <1>9, <2>2, <2>3 DEF CatalogInv, FrameworksTyped
<1>12. ControlsTyped' /\ ControlsPlaced'
  BY <1>5, <1>7 DEF CatalogInv, ControlsTyped, ControlsPlaced
<1>13. BuiltinsOnce'
  <2>1. release' = release
    BY <1>5 DEF Ends
  <2>. QED  BY <1>5, <1>8, <2>1 DEF CatalogInv, BuiltinsOnce
<1>14. OwnControls'
  <2>1. \A c \in controls : c.of # new.id
    BY <1>9 DEF CatalogInv, ControlsPlaced, FrameworksTyped
  <2>. QED  BY <1>5, <2>1 DEF CatalogInv, OwnControls, ControlsOf
<1>15. KeysDistinct'
  <2>. SUFFICES ASSUME NEW t \in Owners, NEW f \in frameworks', NEW g \in frameworks',
                       f.owner \in {t, Shared}, g.owner \in {t, Shared}, f # g, f.key = g.key
                PROVE  {f.id, g.id} \in excused'
    BY DEF KeysDistinct, Visible
  <2>1. ASSUME NEW h \in frameworks, h.owner \in {r.by, Shared}, h.key = new.key
        PROVE  {new.id, h.id} \in excused'
    <3>1. h.id \notin r.seen \/ r.clash
      BY <1>2, <1>6, <1>8, <2>1
    <3>. QED  BY <1>5, <2>1, <3>1
  <2>2. new.owner # Shared
    BY <1>6, <1>8, CatalogAssumption
  <2>3. CASE f = new
    BY <1>5, <1>8, <2>1, <2>2, <2>3
  <2>4. CASE g = new
    <3>1. {new.id, f.id} \in excused'
      BY <1>5, <1>8, <2>1, <2>2, <2>4
    <3>2. {f.id, g.id} = {new.id, f.id}
      BY <2>4
    <3>. QED  BY <3>1, <3>2
  <2>5. CASE f # new /\ g # new
    BY <1>5, <2>5 DEF CatalogInv, KeysDistinct, Visible
  <2>. QED  BY <2>3, <2>4, <2>5
<1>. QED  BY <1>10, <1>11, <1>12, <1>13, <1>14, <1>15 DEF CatalogInv

\* What is deleted is not the code's.
LEMMA DeleteEndsSound ==
  ASSUME CatalogInv, NEW e \in Editors, DeleteEnds(e)
  PROVE  CatalogInv'
<1>1. PICK r : r = edit[e]
  OBVIOUS
<1>2. /\ r.op = "delete" /\ Ends(e) /\ UNCHANGED <<lastId, excused>>
      /\ \/ /\ \A c \in controls : c.id \notin r.read => c.of # r.of
            /\ controls' = {c \in controls : c.id \notin r.read}
            /\ frameworks' = {f \in frameworks : f.id # r.of}
         \/ UNCHANGED <<controls, frameworks>>
  BY <1>1 DEF DeleteEnds
<1>3. \A f \in frameworks : f.id = r.of => ~f.builtin
  BY <1>1, <1>2 DEF CatalogInv, EditsSound, EditSound
<1>4. frameworks' \subseteq frameworks /\ controls' \subseteq controls
  BY <1>2
<1>5. CatalogTyped' /\ EditsSound'
  BY <1>2, <1>4, EditEnds DEF CatalogInv, CatalogTyped
<1>6. FrameworksTyped' /\ ControlsTyped'
  BY <1>2, <1>4 DEF CatalogInv, FrameworksTyped, ControlsTyped
<1>7. ControlsPlaced'
  BY <1>2 DEF CatalogInv, ControlsPlaced
<1>8. BuiltinsOnce'
  <2>1. release' = release
    BY <1>2 DEF Ends
  <2>2. \A f \in frameworks : f.builtin => f \in frameworks'
    BY <1>2, <1>3
  <2>. QED  BY <1>4, <2>1, <2>2 DEF CatalogInv, BuiltinsOnce
<1>9. KeysDistinct' /\ OwnControls'
  BY <1>2, <1>4 DEF CatalogInv, KeysDistinct, OwnControls, Visible, ControlsOf
<1>. QED  BY <1>5, <1>6, <1>7, <1>8, <1>9 DEF CatalogInv

\* The rows a request writes are its tenant's, in a framework it is shown.
LEMMA WriteEndsSound ==
  ASSUME CatalogInv, NEW e \in Editors, NEW names \in SUBSET ControlNames, WriteEnds(e, names)
  PROVE  CatalogInv'
<1>1. PICK r : r = edit[e]
  OBVIOUS
<1>2. PICK size : size = Cardinality(names)
  OBVIOUS
<1>3. PICK place : place = CHOOSE s \in [names -> 1..Cardinality(names)] : \A j, k \in names : s[j] = s[k] => j = k
  OBVIOUS
<1>4. PICK new : new = [n \in names |-> [id |-> lastId.control + place[n], of |-> r.of, name |-> n, by |-> r.by]]
  OBVIOUS
<1>5. PICK last : last = [lastId EXCEPT !.control = @ + size]
  OBVIOUS
<1>6. IsFiniteSet(names)
  BY CatalogAssumption, FS_Subset
<1>7. /\ size \in Nat /\ place \in [names -> 1..size] /\ \A j, k \in names : place[j] = place[k] => j = k
  BY <1>2, <1>3, <1>6, NumberingIsThere
<1>8. /\ r.op = "write" /\ Ends(e) /\ lastId' = last /\ UNCHANGED <<frameworks, excused>>
      /\ IF names = {} \/ \E f \in frameworks : f.id = r.of
         THEN controls' = {c \in controls : c.id \notin r.read} \cup {new[n] : n \in names}
         ELSE UNCHANGED controls
  <2>1. Numbered(r, names) = {new[n] : n \in names}
    BY <1>3, <1>4 DEF Numbered
  <2>. QED  BY <1>1, <1>2, <1>5, <2>1 DEF WriteEnds
<1>9. /\ r.by \in Owners /\ r.of \in 1..lastId.framework
      /\ \A f \in frameworks : f.id = r.of => f.owner \in {r.by, Shared}
  BY <1>1, <1>8 DEF CatalogInv, EditsSound, EditSound
<1>10. /\ last \in [framework : Nat, control : Nat] /\ last.framework = lastId.framework
       /\ last.control = lastId.control + size /\ lastId.framework \in Nat /\ lastId.control \in Nat
  BY <1>5, <1>7 DEF CatalogInv, CatalogTyped
<1>11. ASSUME NEW n \in names
       PROVE  /\ new[n] \in ControlRow /\ new[n].of = r.of /\ new[n].by = r.by
              /\ new[n].id = lastId.control + place[n]
              /\ new[n].id \notin 1..lastId.control /\ new[n].id \in 1..last.control
  <2>1. new[n] = [id |-> lastId.control + place[n], of |-> r.of, name |-> n, by |-> r.by]
    BY <1>4
  <2>2. place[n] \in 1..size
    BY <1>7
  <2>3. r.of \in Nat /\ n \in ControlNames
    BY <1>9, <1>10
  <2>. QED  BY <1>7, <1>9, <1>10, <2>1, <2>2, <2>3 DEF ControlRow
<1>12. ASSUME NEW c \in controls'
       PROVE  \/ c \in controls
              \/ \E n \in names : c = new[n] /\ \E f \in frameworks : f.id = r.of
  BY <1>8
<1>13. CatalogTyped' /\ EditsSound'
  <2>1. \A c \in controls' : (\E d \in controls : d.id = c.id /\ d.of = c.of) \/ c.id \notin 1..lastId.control
    BY <1>11, <1>12
  <2>. QED  BY <1>7, <1>8, <1>10, <2>1, EditEnds
<1>14. FrameworksTyped'
  BY <1>8, <1>10 DEF CatalogInv, FrameworksTyped
<1>15. ControlsTyped'
  <2>1. \A c \in controls : c \in ControlRow /\ c.id \in 1..lastId.control /\ c.id \in 1..last.control
    BY <1>7, <1>10 DEF CatalogInv, ControlsTyped
  <2>2. \A c \in controls' : c \in ControlRow /\ c.id \in 1..last.control
    BY <1>11, <1>12, <2>1
  <2>3. ASSUME NEW c \in controls', NEW d \in controls', c.id = d.id PROVE c = d
    <3>1. CASE c \in controls /\ d \in controls
      BY <2>3, <3>1 DEF CatalogInv, ControlsTyped
    <3>2. CASE c \notin controls /\ d \notin controls
      <4>1. PICK n \in names : c = new[n]
        BY <1>12, <3>2
      <4>2. PICK m \in names : d = new[m]
        BY <1>12, <3>2
      <4>3. lastId.control + place[n] = lastId.control + place[m]
        BY <1>11, <2>3, <4>1, <4>2
      <4>4. place[n] \in Nat /\ place[m] \in Nat
        BY <1>7
      <4>5. place[n] = place[m]
        BY <1>10, <4>3, <4>4
      <4>. QED  BY <1>7, <4>1, <4>2, <4>5
    <3>3. CASE c \in controls /\ d \notin controls
      BY <1>11, <1>12, <2>1, <2>3, <3>3
    <3>4. CASE c \notin controls /\ d \in controls
      BY <1>11, <1>12, <2>1, <2>3, <3>4
    <3>. QED  BY <3>1, <3>2, <3>3, <3>4
  <2>. QED  BY <1>8, <2>2, <2>3 DEF ControlsTyped
<1>16. ControlsPlaced'
  <2>. SUFFICES ASSUME NEW c \in controls' PROVE \E f \in frameworks : c.of = f.id
    BY <1>8 DEF ControlsPlaced
  <2>1. CASE c \in controls
    BY <2>1 DEF CatalogInv, ControlsPlaced
  <2>2. ASSUME NEW n \in names, c = new[n], NEW f \in frameworks, f.id = r.of PROVE c.of = f.id
    BY <1>11, <2>2
  <2>. QED  BY <1>12, <2>1, <2>2
<1>17. OwnControls'
  <2>. SUFFICES ASSUME NEW f \in frameworks, f.owner # Shared, NEW c \in controls', c.of = f.id
                PROVE  c.by = f.owner
    BY <1>8 DEF OwnControls, ControlsOf
  <2>1. CASE c \in controls
    BY <2>1 DEF CatalogInv, OwnControls, ControlsOf
  <2>2. ASSUME NEW n \in names, c = new[n] PROVE c.by = f.owner
    BY <1>9, <1>11, <2>2
  <2>. QED  BY <1>12, <2>1, <2>2
<1>18. BuiltinsOnce' /\ KeysDistinct'
  <2>1. release' = release
    BY <1>8 DEF Ends
  <2>. QED  BY <1>8, <2>1 DEF CatalogInv, BuiltinsOnce, KeysDistinct, Visible
<1>. QED  BY <1>13, <1>14, <1>15, <1>16, <1>17, <1>18 DEF CatalogInv

\* A rewritten control is its writer's, in a framework the writer is shown.
LEMMA ChangeEndsSound ==
  ASSUME CatalogInv, NEW e \in Editors, NEW name \in ControlNames, ChangeEnds(e, name)
  PROVE  CatalogInv'
<1>1. PICK r : r = edit[e]
  OBVIOUS
<1>2. PICK old : old = {c \in controls : c.id = r.control}
  OBVIOUS
<1>3. PICK new : new = [c \in old |-> [c EXCEPT !.name = name, !.by = r.by]]
  OBVIOUS
<1>4. /\ r.op \in {"rewrite", "remove"} /\ Ends(e) /\ UNCHANGED <<frameworks, lastId, excused>>
      /\ \A c \in controls' : c \in controls \ old \/ \E o \in old : c = new[o]
  <2>1. r.op \in {"rewrite", "remove"} /\ Ends(e) /\ UNCHANGED <<frameworks, lastId, excused>>
    BY <1>1 DEF ChangeEnds
  <2>2. {[c EXCEPT !.name = name, !.by = r.by] : c \in old} = {new[c] : c \in old}
    BY <1>3
  <2>3. controls' = (controls \ old) \cup IF r.op = "rewrite" THEN {new[c] : c \in old} ELSE {}
    BY <1>1, <1>2, <2>2 DEF ChangeEnds
  <2>. QED  BY <2>1, <2>3
<1>5. /\ r.by \in Owners
      /\ \A c \in old : \A f \in frameworks : f.id = c.of => f.owner \in {r.by, Shared}
  BY <1>1, <1>2, <1>4 DEF CatalogInv, EditsSound, EditSound
<1>6. ASSUME NEW c \in old
      PROVE  /\ c \in controls /\ new[c] \in ControlRow
             /\ new[c].id = c.id /\ new[c].of = c.of /\ new[c].by = r.by
  <2>1. c \in controls /\ c \in ControlRow
    BY <1>2 DEF CatalogInv, ControlsTyped
  <2>2. PICK half : half = [c EXCEPT !.name = name]
    OBVIOUS
  <2>3. half = [id |-> c.id, of |-> c.of, name |-> name, by |-> c.by]
    BY <2>1, <2>2 DEF ControlRow
  <2>4. new[c] = [half EXCEPT !.by = r.by]
    BY <1>3, <2>2
  <2>5. new[c] = [id |-> c.id, of |-> c.of, name |-> name, by |-> r.by]
    BY <2>3, <2>4
  <2>. QED  BY <1>5, <2>1, <2>5 DEF ControlRow
<1>7. ASSUME NEW c \in controls'
      PROVE  /\ \E d \in controls : d.id = c.id /\ d.of = c.of
             /\ c \in controls \ old \/ \E o \in old : c = new[o]
  BY <1>4, <1>6
<1>8. CatalogTyped' /\ EditsSound'
  BY <1>4, <1>7, EditEnds DEF CatalogInv, CatalogTyped
<1>9. FrameworksTyped' /\ BuiltinsOnce' /\ KeysDistinct'
  <2>1. release' = release
    BY <1>4 DEF Ends
  <2>. QED  BY <1>4, <2>1 DEF CatalogInv, FrameworksTyped, BuiltinsOnce, KeysDistinct, Visible
<1>10. ControlsTyped'
  <2>1. \A c \in controls : c \in ControlRow /\ c.id \in 1..lastId.control
    BY DEF CatalogInv, ControlsTyped
  <2>2. \A c \in controls' : c \in ControlRow
    BY <1>6, <1>7, <2>1
  <2>3. ASSUME NEW c \in controls', NEW d \in controls', c.id = d.id PROVE c = d
    <3>1. \A a \in controls, b \in controls : a.id = b.id => a = b
      BY DEF CatalogInv, ControlsTyped
    <3>2. CASE c \in controls \ old /\ d \in controls \ old
      BY <2>3, <3>1, <3>2
    <3>3. ASSUME NEW o \in old, c = new[o], d \in controls \ old PROVE FALSE
      BY <1>2, <1>6, <2>3, <3>3
    <3>4. ASSUME NEW o \in old, d = new[o], c \in controls \ old PROVE FALSE
      BY <1>2, <1>6, <2>3, <3>4
    <3>5. ASSUME NEW o \in old, NEW p \in old, c = new[o], d = new[p] PROVE c = d
      <4>1. o \in controls /\ p \in controls /\ o.id = p.id
        BY <1>6, <2>3, <3>5
      <4>. QED  BY <3>1, <3>5, <4>1
    <3>. QED  BY <1>7, <3>2, <3>3, <3>4, <3>5
  <2>. QED  BY <1>4, <1>7, <2>1, <2>2, <2>3 DEF ControlsTyped
<1>11. ControlsPlaced'
  BY <1>4, <1>7 DEF CatalogInv, ControlsPlaced
<1>12. OwnControls'
  <2>. SUFFICES ASSUME NEW f \in frameworks, f.owner # Shared, NEW c \in controls', c.of = f.id
                PROVE  c.by = f.owner
    BY <1>4 DEF OwnControls, ControlsOf
  <2>1. CASE c \in controls \ old
    BY <2>1 DEF CatalogInv, OwnControls, ControlsOf
  <2>2. ASSUME NEW o \in old, c = new[o] PROVE c.by = f.owner
    BY <1>5, <1>6, <2>2
  <2>. QED  BY <1>7, <2>1, <2>2
<1>. QED  BY <1>8, <1>9, <1>10, <1>11, <1>12 DEF CatalogInv

\* Startup adds what no built-in has the key of, and excuses what it meets.
LEMMA StartupSound ==
  ASSUME CatalogInv, NEW n \in DOMAIN Releases, n >= release, Startup(n)
  PROVE  CatalogInv'
<1>1. PICK new : new = Missing(Releases[n])
  OBVIOUS
<1>2. PICK size : size = Cardinality(new)
  OBVIOUS
<1>3. PICK place : place = CHOOSE s \in [new -> 1..Cardinality(new)] : \A j, k \in new : s[j] = s[k] => j = k
  OBVIOUS
<1>4. PICK first : first = OneControl
  OBVIOUS
<1>5. PICK row : row = [k \in new |-> [id |-> lastId.framework + place[k], key |-> <<k, 0>>, owner |-> Shared,
                                       builtin |-> TRUE]]
  OBVIOUS
<1>6. PICK ctl : ctl = [k \in new |-> [id |-> lastId.control + place[k], of |-> lastId.framework + place[k],
                                       name |-> first, by |-> Shared]]
  OBVIOUS
<1>7. PICK born : born = {row[k] : k \in new}
  OBVIOUS
<1>8. /\ release' = n /\ frameworks' = frameworks \cup born
      /\ controls' = controls \cup {ctl[k] : k \in new}
      /\ lastId' = [framework |-> lastId.framework + size, control |-> lastId.control + size]
      /\ excused' = excused \cup {{f.id, g.id} : f \in born, g \in frameworks}
      /\ edit' = [e \in Editors |-> NoEdit] /\ edits' = edits
  <2>1. born = {[id |-> lastId.framework + place[k], key |-> <<k, 0>>, owner |-> Shared, builtin |-> TRUE] : k \in new}
    BY <1>5, <1>7
  <2>2. {ctl[k] : k \in new}
          = {[id |-> lastId.control + place[k], of |-> lastId.framework + place[k],
              name |-> OneControl, by |-> Shared] : k \in new}
    BY <1>4, <1>6
  <2>3. frameworks' = frameworks \cup born
    BY <1>1, <1>3, <2>1 DEF Startup
  <2>4. controls' = controls \cup {ctl[k] : k \in new}
    <3>1. controls' = controls \cup
            {[id |-> lastId.control + place[k], of |-> lastId.framework + place[k],
              name |-> OneControl, by |-> Shared] : k \in new}
      BY <1>1, <1>3 DEF Startup
    <3>. QED  BY <2>2, <3>1
  <2>5. excused' = excused \cup {{f.id, g.id} : f \in born, g \in frameworks}
    BY <1>1, <1>3, <2>1 DEF Startup
  <2>6. /\ release' = n /\ edit' = [e \in Editors |-> NoEdit] /\ edits' = edits
        /\ lastId' = [framework |-> lastId.framework + size, control |-> lastId.control + size]
    BY <1>1, <1>2 DEF Startup
  <2>. QED  BY <2>3, <2>4, <2>5, <2>6
<1>9. IsFiniteSet(new) /\ new \subseteq Releases[n]
  BY <1>1, CatalogAssumption, FS_Subset DEF Missing
<1>10. /\ size \in Nat /\ place \in [new -> 1..size] /\ \A j, k \in new : place[j] = place[k] => j = k
  BY <1>2, <1>3, <1>9, NumberingIsThere
<1>11. lastId.framework \in Nat /\ lastId.control \in Nat
  BY DEF CatalogInv, CatalogTyped
<1>12. PICK last : last = lastId.framework + size /\ last \in Nat
  BY <1>10, <1>11
<1>13. PICK lastc : lastc = lastId.control + size /\ lastc \in Nat
  BY <1>10, <1>11
<1>14. lastId' = [framework |-> last, control |-> lastc]
  BY <1>8, <1>12, <1>13
<1>15. ASSUME NEW k \in new
       PROVE  /\ row[k].id = lastId.framework + place[k] /\ row[k].key = <<k, 0>> /\ row[k].owner = Shared
              /\ row[k].builtin = TRUE /\ row[k] \in FrameworkRow
              /\ row[k].id \notin 1..lastId.framework /\ row[k].id \in 1..last
              /\ row[k] \in born
  <2>1. row[k] = [id |-> lastId.framework + place[k], key |-> <<k, 0>>, owner |-> Shared, builtin |-> TRUE]
    BY <1>5
  <2>2. place[k] \in 1..size
    BY <1>10
  <2>3. <<k, 0>> \in FreeKeys
    BY <1>9, CatalogAssumption DEF FreeKeys
  <2>4. lastId.framework + place[k] \in Nat
    BY <1>10, <1>11, <2>2
  <2>5. row[k] \in FrameworkRow
    BY <2>1, <2>3, <2>4 DEF FrameworkRow
  <2>6. row[k].id = lastId.framework + place[k] /\ row[k].key = <<k, 0>> /\ row[k].owner = Shared
        /\ row[k].builtin = TRUE
    BY <2>1
  <2>7. lastId.framework + place[k] \notin 1..lastId.framework /\ lastId.framework + place[k] \in 1..last
    BY <1>10, <1>11, <1>12, <2>2
  <2>8. row[k] \in born
    BY <1>7
  <2>. QED  BY <2>5, <2>6, <2>7, <2>8
<1>16. ASSUME NEW k \in new
       PROVE  /\ ctl[k].id = lastId.control + place[k] /\ ctl[k].of = row[k].id /\ ctl[k].by = Shared
              /\ ctl[k] \in ControlRow
              /\ ctl[k].id \notin 1..lastId.control /\ ctl[k].id \in 1..lastc
  <2>1. ctl[k] = [id |-> lastId.control + place[k], of |-> lastId.framework + place[k], name |-> first, by |-> Shared]
    BY <1>6
  <2>2. place[k] \in 1..size
    BY <1>10
  <2>3. first \in ControlNames
    BY <1>4, CatalogAssumption DEF OneControl
  <2>4. lastId.control + place[k] \in Nat /\ lastId.framework + place[k] \in Nat
    BY <1>10, <1>11, <2>2
  <2>5. ctl[k] \in ControlRow
    BY <2>1, <2>3, <2>4 DEF ControlRow
  <2>6. /\ ctl[k].id = lastId.control + place[k] /\ ctl[k].of = lastId.framework + place[k]
        /\ ctl[k].by = Shared
    BY <2>1
  <2>7. lastId.control + place[k] \notin 1..lastId.control /\ lastId.control + place[k] \in 1..lastc
    BY <1>10, <1>11, <1>13, <2>2
  <2>8. row[k].id = lastId.framework + place[k]
    BY <1>15
  <2>. QED  BY <2>5, <2>6, <2>7, <2>8
<1>17. \A k \in new : row[k].key = <<k, 0>> /\ row[k].owner = Shared
  BY <1>15
<1>18. \A j, k \in new : row[j].key = row[k].key => j = k
  BY <1>17
<1>19. \A k \in new : row[k] \in born /\ row[k].id \notin 1..lastId.framework
  BY <1>15
<1>20. ASSUME NEW f \in frameworks' PROVE f \in frameworks \/ \E k \in new : f = row[k]
  BY <1>7, <1>8
<1>21. CatalogTyped'
  BY <1>8, <1>12, <1>13, <1>14 DEF CatalogInv, CatalogTyped
<1>22. FrameworksTyped'
  <2>1. \A f \in frameworks : f \in FrameworkRow /\ f.id \in 1..lastId.framework /\ f.id \in 1..last
    BY <1>10, <1>11, <1>12 DEF CatalogInv, FrameworksTyped
  <2>2. \A f \in frameworks' : f \in FrameworkRow /\ f.id \in 1..last
    BY <1>15, <1>20, <2>1
  <2>3. ASSUME NEW f \in frameworks', NEW g \in frameworks', f.id = g.id PROVE f = g
    <3>1. CASE f \in frameworks /\ g \in frameworks
      BY <2>3, <3>1 DEF CatalogInv, FrameworksTyped
    <3>2. ASSUME NEW k \in new, f = row[k], g \in frameworks PROVE FALSE
      BY <1>15, <2>1, <2>3, <3>2
    <3>3. ASSUME NEW k \in new, g = row[k], f \in frameworks PROVE FALSE
      BY <1>15, <2>1, <2>3, <3>3
    <3>4. ASSUME NEW j \in new, NEW k \in new, f = row[j], g = row[k] PROVE f = g
      <4>1. lastId.framework + place[j] = lastId.framework + place[k]
        BY <1>15, <2>3, <3>4
      <4>2. place[j] \in Nat /\ place[k] \in Nat
        BY <1>10
      <4>3. place[j] = place[k]
        BY <1>11, <4>1, <4>2
      <4>. QED  BY <1>10, <3>4, <4>3
    <3>. QED  BY <1>20, <3>1, <3>2, <3>3, <3>4
  <2>. QED  BY <1>14, <2>2, <2>3 DEF FrameworksTyped
<1>23. ASSUME NEW c \in controls' PROVE c \in controls \/ \E k \in new : c = ctl[k]
  BY <1>8
<1>24. ControlsTyped'
  <2>1. \A c \in controls : c \in ControlRow /\ c.id \in 1..lastId.control /\ c.id \in 1..lastc
    BY <1>10, <1>11, <1>13 DEF CatalogInv, ControlsTyped
  <2>2. \A c \in controls' : c \in ControlRow /\ c.id \in 1..lastc
    BY <1>16, <1>23, <2>1
  <2>3. ASSUME NEW c \in controls', NEW d \in controls', c.id = d.id PROVE c = d
    <3>1. CASE c \in controls /\ d \in controls
      BY <2>3, <3>1 DEF CatalogInv, ControlsTyped
    <3>2. ASSUME NEW k \in new, c = ctl[k], d \in controls PROVE FALSE
      BY <1>16, <2>1, <2>3, <3>2
    <3>3. ASSUME NEW k \in new, d = ctl[k], c \in controls PROVE FALSE
      BY <1>16, <2>1, <2>3, <3>3
    <3>4. ASSUME NEW j \in new, NEW k \in new, c = ctl[j], d = ctl[k] PROVE c = d
      <4>1. lastId.control + place[j] = lastId.control + place[k]
        BY <1>16, <2>3, <3>4
      <4>2. place[j] \in Nat /\ place[k] \in Nat
        BY <1>10
      <4>3. place[j] = place[k]
        BY <1>11, <4>1, <4>2
      <4>. QED  BY <1>10, <3>4, <4>3
    <3>. QED  BY <1>23, <3>1, <3>2, <3>3, <3>4
  <2>. QED  BY <1>14, <2>2, <2>3 DEF ControlsTyped
<1>25. ControlsPlaced'
  <2>1. \A k \in new : row[k] \in frameworks'
    BY <1>8, <1>15
  <2>2. ASSUME NEW c \in controls PROVE \E f \in frameworks' : c.of = f.id
    BY <1>8 DEF CatalogInv, ControlsPlaced
  <2>3. ASSUME NEW k \in new PROVE \E f \in frameworks' : ctl[k].of = f.id
    BY <1>16, <2>1
  <2>. QED  BY <1>23, <2>2, <2>3 DEF ControlsPlaced
<1>26. EditsSound'
  BY <1>8 DEF EditsSound, EditSound, NoEdit
<1>27. BuiltinsOnce'
  <2>1. ASSUME NEW f \in frameworks, NEW k \in new, f.builtin PROVE f.key # row[k].key
    BY <1>1, <1>15, <2>1 DEF Missing
  <2>2. ASSUME NEW f \in frameworks', NEW g \in frameworks', f.builtin, g.builtin, f.key = g.key PROVE f = g
    <3>1. CASE f \in frameworks /\ g \in frameworks
      BY <2>2, <3>1 DEF CatalogInv, BuiltinsOnce
    <3>2. ASSUME NEW j \in new, NEW k \in new, f = row[j], g = row[k] PROVE f = g
      BY <1>18, <2>2, <3>2
    <3>. QED  BY <1>20, <2>1, <2>2, <3>1, <3>2
  <2>3. ASSUME NEW k \in Releases[n] PROVE \E f \in frameworks' : f.builtin /\ f.key = <<k, 0>>
    <3>1. CASE k \in new
      BY <1>8, <1>15, <3>1
    <3>2. CASE k \notin new
      BY <1>1, <1>8, <3>2 DEF Missing
    <3>. QED  BY <3>1, <3>2
  <2>. QED  BY <1>8, <2>2, <2>3 DEF BuiltinsOnce
<1>28. KeysDistinct'
  <2>. SUFFICES ASSUME NEW t \in Owners, NEW f \in frameworks', NEW g \in frameworks',
                       f.owner \in {t, Shared}, g.owner \in {t, Shared}, f # g, f.key = g.key
                PROVE  {f.id, g.id} \in excused'
    BY DEF KeysDistinct, Visible
  <2>1. CASE f \in frameworks /\ g \in frameworks
    BY <1>8, <2>1 DEF CatalogInv, KeysDistinct, Visible
  <2>2. ASSUME NEW j \in new, NEW k \in new, f = row[j], g = row[k] PROVE FALSE
    BY <1>18, <2>2
  <2>3. ASSUME NEW k \in new, f = row[k], g \in frameworks PROVE {f.id, g.id} \in excused'
    BY <1>8, <1>19, <2>3
  <2>4. ASSUME NEW k \in new, g = row[k], f \in frameworks PROVE {f.id, g.id} \in excused'
    <3>1. {g.id, f.id} \in excused'
      BY <1>8, <1>19, <2>4
    <3>2. {f.id, g.id} = {g.id, f.id}
      OBVIOUS
    <3>. QED  BY <3>1, <3>2
  <2>. QED  BY <1>20, <2>1, <2>2, <2>3, <2>4
<1>29. OwnControls'
  <2>. SUFFICES ASSUME NEW f \in frameworks', f.owner # Shared, NEW c \in controls', c.of = f.id
                PROVE  c.by = f.owner
    BY DEF OwnControls, ControlsOf
  <2>1. f \in frameworks /\ f.id \in 1..lastId.framework
    BY <1>20, <1>17 DEF CatalogInv, FrameworksTyped
  <2>2. c \in controls
    BY <1>16, <1>23, <1>19, <2>1
  <2>. QED  BY <2>1, <2>2 DEF CatalogInv, OwnControls, ControlsOf
<1>. QED  BY <1>21, <1>22, <1>24, <1>25, <1>26, <1>27, <1>28, <1>29 DEF CatalogInv

LEMMA CatalogIsSound == CatalogInv => CatalogTypeOK /\ CatalogSound
<1>. SUFFICES ASSUME CatalogInv PROVE CatalogTypeOK /\ CatalogSound
  OBVIOUS
<1>1. CatalogTypeOK
  BY DEF CatalogInv, CatalogTyped, FrameworksTyped, ControlsTyped, ControlsPlaced, CatalogTypeOK
<1>2. BuiltinsStay
  <2>. SUFFICES ASSUME frameworks # {}, NEW k \in Releases[release]
                PROVE  Cardinality({f \in frameworks : f.builtin /\ f.key = <<k, 0>>}) = 1
    BY DEF BuiltinsStay
  <2>1. PICK f \in frameworks : f.builtin /\ f.key = <<k, 0>>
    BY DEF CatalogInv, BuiltinsOnce
  <2>2. {g \in frameworks : g.builtin /\ g.key = <<k, 0>>} = {f}
    BY <2>1 DEF CatalogInv, BuiltinsOnce
  <2>. QED  BY <2>2, FS_Singleton
<1>. QED  BY <1>1, <1>2 DEF CatalogInv, CatalogSound

\* One step of the catalog.
LEMMA CatalogStep == CatalogInv /\ [CatalogNext]_catalogVars => CatalogInv'
<1>. SUFFICES ASSUME CatalogInv, [CatalogNext]_catalogVars PROVE CatalogInv'
  OBVIOUS
<1>1. ASSUME NEW n \in DOMAIN Releases, n >= release, Startup(n) PROVE CatalogInv'
  BY <1>1, StartupSound
<1>2. ASSUME NEW e \in Editors, NEW t \in Owners, NEW k \in Names, CreateBegins(e, t, k) PROVE CatalogInv'
  BY <1>2, CreateBeginsSound
<1>3. ASSUME NEW e \in Editors, NEW t \in Owners, NEW f \in frameworks, DeleteBegins(e, t, f) PROVE CatalogInv'
  BY <1>3, DeleteBeginsSound
<1>4. ASSUME NEW e \in Editors, NEW t \in Owners, NEW f \in Editable(t), NEW replace \in BOOLEAN,
             WriteBegins(e, t, f, replace)
      PROVE  CatalogInv'
  BY <1>4, WriteBeginsSound
<1>5. ASSUME NEW e \in Editors, NEW t \in Owners, NEW c \in controls, NEW op \in {"rewrite", "remove"},
             ChangeBegins(e, t, c, op)
      PROVE  CatalogInv'
  BY <1>5, ChangeBeginsSound
<1>6. ASSUME NEW e \in Editors, NEW second \in 1..MaxSecond, CreateEnds(e, second), frameworks # {} PROVE CatalogInv'
  BY <1>6, CreateEndsSound
<1>7. ASSUME NEW e \in Editors, DeleteEnds(e) PROVE CatalogInv'
  BY <1>7, DeleteEndsSound
<1>8. ASSUME NEW e \in Editors, NEW names \in SUBSET ControlNames, WriteEnds(e, names) PROVE CatalogInv'
  BY <1>8, WriteEndsSound
<1>9. ASSUME NEW e \in Editors, NEW name \in ControlNames, ChangeEnds(e, name) PROVE CatalogInv'
  BY <1>9, ChangeEndsSound
<1>10. CASE UNCHANGED catalogVars
  BY <1>10 DEF catalogVars, CatalogInv, CatalogTyped, FrameworksTyped, ControlsTyped, ControlsPlaced, EditsSound,
               EditSound, BuiltinsOnce, KeysDistinct, OwnControls, Visible, ControlsOf
<1>. QED  BY <1>1, <1>2, <1>3, <1>4, <1>5, <1>6, <1>7, <1>8, <1>9, <1>10 DEF CatalogNext

LEMMA CatalogInitInv == CatalogInit => CatalogInv
<1>1. 1 \in DOMAIN Releases
  BY CatalogAssumption
<1>. QED
  BY <1>1, CatalogAssumption
  DEF CatalogInit, CatalogInv, CatalogTyped, FrameworksTyped, ControlsTyped, ControlsPlaced, EditsSound, EditSound,
      NoEdit, BuiltinsOnce, KeysDistinct, OwnControls, Visible, ControlsOf

\* However many tenants edit at once, and however often the platform starts,
\* with whatever release: two frameworks that a tenant is shown have different
\* keys, but for those KeysDistinct excepts; each of the code's is there once;
\* and a tenant's own framework holds what its own users wrote (the routes of
\* frameworks_admin.py and sync_builtin_frameworks).
THEOREM CatalogInvariance == CatalogSpec => [](CatalogTypeOK /\ CatalogSound)
<1>. QED  BY CatalogInitInv, CatalogStep, CatalogIsSound, PTL DEF CatalogSpec

(***************************************************************************)
(* Posture.                                                                *)
(***************************************************************************)

\* What is kept of a framework's row, of a moment, and of a report under way.
ARow == [total : Nat, failing : SUBSET Ids, pct : Int]
SomeRows == UNION {[K -> ARow] : K \in SUBSET Keys}
Moment == [open : SUBSET Alarms, shown : UNION {[K -> SUBSET Ids] : K \in SUBSET Keys}]
AReading == [kind : Kinds \cup {"none"}, left : Seq(Keys), there : SUBSET Keys, ids : SUBSET Ids,
             at : {"none", "controls", "open"}, rows : SomeRows, moments : SUBSET Moment]

IdsAt(m, k) == IF k \in DOMAIN m.shown THEN m.shown[k] ELSE {}
Listed(k, s) == \E n \in 1..Len(s) : s[n] = k

PostureTyped ==
  /\ open \subseteq Alarms /\ shown \in UNION {[K -> SUBSET Ids] : K \in SUBSET Keys}
  /\ chosen \in Seq(Keys) /\ active \in Keys
  /\ reading \in AReading /\ IsFiniteSet(reading.moments)

\* The present is among the moments a report has passed through, and so is the
\* moment it read the frameworks at.
UnderWay ==
  /\ reading.kind = "none" <=> reading.at = "none"
  /\ reading.kind # "none" =>
       Now \in reading.moments /\ \E m \in reading.moments : reading.there = DOMAIN m.shown

\* Each row so far is of controls and findings of such moments.
RowsRead ==
  \A k \in DOMAIN reading.rows : \E m \in reading.moments, n \in reading.moments :
    reading.rows[k] \in Rows(k, reading.kind, IdsAt(m, k), n.open)

\* The controls just read are those of the framework that is next.
AtFramework ==
  reading.at = "open" =>
    /\ reading.left # <<>> /\ Head(reading.left) \in reading.there
    /\ \E m \in reading.moments : reading.ids = IdsAt(m, Head(reading.left))

\* The frameworks there were, of those selected, have a row or are still left.
Walked ==
  reading.kind \notin {"none", "detail"} =>
    /\ DOMAIN reading.rows \subseteq reading.there
    /\ \A k \in reading.there :
         Listed(k, Selected) <=> k \in DOMAIN reading.rows \/ Listed(k, reading.left)

PostureInv == PostureTyped /\ UnderWay /\ RowsRead /\ AtFramework /\ Walked /\ PostureFaithful

\* The frameworks of a list are its first and those of the rest.
LEMMA FirstAndRest ==
  ASSUME NEW s \in Seq(Keys), s # <<>>
  PROVE  /\ Head(s) \in Keys /\ Tail(s) \in Seq(Keys)
         /\ \A k : Listed(k, s) <=> k = Head(s) \/ Listed(k, Tail(s))
<1>1. Head(s) \in Keys /\ Tail(s) \in Seq(Keys) /\ Len(s) \in Nat /\ Len(s) # 0
  OBVIOUS
<1>2. Len(Tail(s)) = Len(s) - 1 /\ Head(s) = s[1]
      /\ \A n \in 1..(Len(s) - 1) : Tail(s)[n] = s[n + 1]
  BY <1>1
<1>3. ASSUME NEW k, NEW n \in 1..Len(s), s[n] = k PROVE k = Head(s) \/ Listed(k, Tail(s))
  <2>1. CASE n = 1
    BY <1>2, <1>3, <2>1
  <2>2. CASE n # 1
    <3>1. n - 1 \in 1..(Len(s) - 1) /\ (n - 1) + 1 = n
      BY <1>1, <2>2
    <3>2. Tail(s)[n - 1] = k
      BY <1>2, <1>3, <3>1
    <3>. QED  BY <1>2, <3>1, <3>2 DEF Listed
  <2>. QED  BY <2>1, <2>2
<1>4. ASSUME NEW k, NEW n \in 1..Len(Tail(s)), Tail(s)[n] = k PROVE Listed(k, s)
  <2>1. n \in 1..(Len(s) - 1) /\ n + 1 \in 1..Len(s)
    BY <1>1, <1>2
  <2>. QED  BY <1>2, <1>4, <2>1 DEF Listed
<1>5. \A k : k = Head(s) => Listed(k, s)
  BY <1>1, <1>2 DEF Listed
<1>. QED  BY <1>1, <1>3, <1>4, <1>5 DEF Listed

\* A count of the rows of a framework: what it totals, what fails of it.
LEMMA RowIs ==
  ASSUME NEW k \in Keys, NEW kind, NEW ids \in SUBSET Ids, NEW alarms \in SUBSET Alarms,
         NEW row \in Rows(k, kind, ids, alarms)
  PROVE  /\ row \in ARow
         /\ row.total = Cardinality(ids) /\ row.failing = Failing(k, ids, alarms)
         /\ row.pct = Full(kind) /\ row.total < 200 => row.failing = {}
<1>. PICK total, failing, full :
       total = Cardinality(ids) /\ failing = Failing(k, ids, alarms) /\ full = Full(kind)
  OBVIOUS
<1>1. failing \in SUBSET ids /\ IsFiniteSet(ids)
  BY PostureAssumption, FS_Subset DEF Failing
<1>2. total \in Nat /\ Cardinality(failing) \in Nat /\ IsFiniteSet(failing)
      /\ Cardinality(failing) <= total
  BY <1>1, FS_CardinalityType, FS_Subset
<1>3. Cardinality(failing) = 0 => failing = {}
  BY <1>2, FS_EmptySet
<1>4. full \in {100, 1000}
  BY DEF Full
<1>5. row \in [total : {total}, failing : {failing},
               pct : Readiness(total - Cardinality(failing), total, full)]
  BY DEF Rows
<1>6. row.total = total /\ row.failing = failing
      /\ row.pct \in Readiness(total - Cardinality(failing), total, full)
  BY <1>5
<1>. PICK passing : passing = total - Cardinality(failing)
  OBVIOUS
<1>7. passing \in Nat /\ full * passing \in Nat
  BY <1>2, <1>4
<1>8. row.pct \in Int
  BY <1>2, <1>6, <1>7 DEF Readiness, Nearest
<1>9. ASSUME row.pct = full, total < 200 PROVE failing = {}
  <2>1. total # 0
    BY <1>4, <1>6, <1>9 DEF Readiness
  <2>2. full \in Nearest(full * passing, total)
    BY <1>6, <1>9, <2>1 DEF Readiness
  <2>3. 2 * full * total - 2 * (full * passing) <= total
    BY <2>2 DEF Nearest
  <2>4. CASE full = 100
    BY <1>2, <1>3, <1>7, <1>9, <2>1, <2>3, <2>4
  <2>5. CASE full = 1000
    BY <1>2, <1>3, <1>7, <1>9, <2>1, <2>3, <2>5
  <2>. QED  BY <1>4, <2>4, <2>5
<1>10. row \in ARow
  BY <1>1, <1>2, <1>5, <1>6, <1>8 DEF ARow
<1>. QED  BY <1>6, <1>9, <1>10

LEMMA Fields ==
  ASSUME PostureTyped
  PROVE  /\ reading.kind \in Kinds \cup {"none"} /\ reading.left \in Seq(Keys)
         /\ reading.there \in SUBSET Keys /\ reading.ids \in SUBSET Ids
         /\ reading.at \in {"none", "controls", "open"} /\ reading.rows \in SomeRows
         /\ reading.moments \in SUBSET Moment
  BY DEF PostureTyped, AReading

LEMMA NowIs == PostureTyped => Now \in Moment /\ Now.open = open /\ Now.shown = shown
  BY DEF PostureTyped, Now, Moment

\* FrozenFaithfully, of report r when sel is what was selected.
FrozenOf(r, sel) ==
  r.kind \in Kinds \ {"detail"} /\ Cardinality(r.moments) = 1 =>
    \A m \in r.moments :
      /\ DOMAIN r.rows = {sel[n] : n \in DOMAIN sel} \cap DOMAIN m.shown
      /\ \A k \in DOMAIN r.rows :
           r.rows[k].failing = Failing(k, m.shown[k], m.open) /\ r.rows[k].total = Cardinality(m.shown[k])
      /\ r.kind = "ciso" => r.risk = Cardinality({a \in m.open : Deduction[a] >= 4})

LEMMA FrozenAs ==
  /\ FrozenFaithfully <=> FrozenOf(report, Selected)
  /\ FrozenFaithfully' <=> FrozenOf(report', Selected')
  BY DEF FrozenFaithfully, FrozenOf

\* A report that stands, stands as it was.
LEMMA SameReport ==
  ASSUME PostureFaithful, UNCHANGED <<report, chosen, active>>
  PROVE  PostureFaithful'
<1>1. RowsOfTheReading'
  BY DEF PostureFaithful, RowsOfTheReading
<1>2. FrozenFaithfully'
  <2>1. Selected' = Selected
    BY DEF Selected
  <2>. QED  BY <2>1, FrozenAs DEF PostureFaithful
<1>3. AuditAgrees'
  BY DEF PostureFaithful, AuditAgrees
<1>4. FullMarksEarned'
  BY DEF PostureFaithful, FullMarksEarned
<1>. QED  BY <1>1, <1>2, <1>3, <1>4 DEF PostureFaithful

LEMMA NoRows == <<>> \in SomeRows /\ DOMAIN <<>> = {}
<1>1. <<>> \in [{} -> ARow]
  OBVIOUS
<1>. QED  BY <1>1 DEF SomeRows

LEMMA NothingReported ==
  ASSUME report' = NoReport
  PROVE  PostureFaithful'
<1>1. report'.kind = "none" /\ report'.rows = <<>>
  BY DEF NoReport
<1>. QED
  BY <1>1, NoRows
  DEF PostureFaithful, RowsOfTheReading, FrozenFaithfully, AuditAgrees, FullMarksEarned, Kinds

LEMMA PostureInitInv == PostureInit => PostureInv
<1>. SUFFICES ASSUME PostureInit PROVE PostureInv
  OBVIOUS
<1>1. reading = NoReading /\ report = NoReport
  BY DEF PostureInit
<1>2. NoReading \in AReading
  BY NoRows DEF NoReading, AReading
<1>3. IsFiniteSet({})
  BY FS_EmptySet
<1>4. shown \in UNION {[K -> SUBSET Ids] : K \in SUBSET Keys}
  <2>1. [k \in Keys |-> Ids] \in [Keys -> SUBSET Ids]
    OBVIOUS
  <2>2. Code \in [DOMAIN Code -> SUBSET Ids] /\ DOMAIN Code \in SUBSET Keys
    BY PostureAssumption
  <2>. QED  BY <2>1, <2>2 DEF PostureInit
<1>5. chosen \in Seq(Keys)
  <2>1. \A s \in [1..2 -> Keys] : s \in Seq(Keys)
    <3>1. 2 \in Nat
      OBVIOUS
    <3>. QED  BY <3>1, SeqDef
  <2>2. <<>> \in Seq(Keys)
    OBVIOUS
  <2>. QED  BY <2>1, <2>2 DEF PostureInit
<1>6. PostureTyped
  BY <1>1, <1>2, <1>3, <1>4, <1>5 DEF PostureTyped, NoReading, PostureInit
<1>7. UnderWay /\ AtFramework /\ Walked
  BY <1>1 DEF NoReading, UnderWay, AtFramework, Walked
<1>8. RowsRead
  BY <1>1, NoRows DEF NoReading, RowsRead
<1>9. PostureFaithful
  BY <1>1, NoRows
  DEF NoReport, PostureFaithful, RowsOfTheReading, FrozenFaithfully, AuditAgrees, FullMarksEarned, Kinds
<1>. QED  BY <1>6, <1>7, <1>8, <1>9 DEF PostureInv

\* Others change findings or controls: the report under way passes by the new
\* moment.
LEMMA OthersMove ==
  ASSUME PostureInv, PassedBy(Now'), UNCHANGED <<chosen, active, report>>,
         open' \subseteq Alarms, shown' \in UNION {[K -> SUBSET Ids] : K \in SUBSET Keys}
  PROVE  PostureInv'
<1>0. PostureTyped
  BY DEF PostureInv
<1>1. PICK now : now = Now'
  OBVIOUS
<1>2. now \in Moment
  BY <1>1 DEF Now, Moment
<1>3. CASE reading.kind = "none"
  <2>1. reading' = reading
    BY <1>3 DEF PassedBy
  <2>2. PostureTyped'
    BY <1>0, <2>1 DEF PostureTyped
  <2>3. UnderWay' /\ RowsRead' /\ AtFramework' /\ Walked'
    BY <1>3, <2>1 DEF PostureInv, UnderWay, RowsRead, AtFramework, Walked, IdsAt, Listed, Selected
  <2>. QED  BY <2>2, <2>3, SameReport DEF PostureInv
<1>4. CASE reading.kind # "none"
  <2>1. reading' = [reading EXCEPT !.moments = @ \cup {now}]
    BY <1>1, <1>4 DEF PassedBy
  <2>2. /\ reading'.kind = reading.kind /\ reading'.left = reading.left /\ reading'.there = reading.there
        /\ reading'.ids = reading.ids /\ reading'.at = reading.at /\ reading'.rows = reading.rows
        /\ reading'.moments = reading.moments \cup {now}
    BY <1>0, <2>1 DEF PostureTyped, AReading
  <2>3. reading' \in AReading
    BY <1>0, <1>2, <2>1, Fields DEF PostureTyped, AReading
  <2>4. IsFiniteSet(reading.moments \cup {now})
    BY <1>0, FS_AddElement DEF PostureTyped
  <2>5. PostureTyped'
    BY <1>0, <2>2, <2>3, <2>4 DEF PostureTyped
  <2>6. UnderWay'
    BY <1>1, <1>4, <2>2 DEF PostureInv, UnderWay
  <2>7. RowsRead'
    BY <2>2 DEF PostureInv, RowsRead, IdsAt
  <2>8. AtFramework'
    BY <2>2 DEF PostureInv, AtFramework, IdsAt
  <2>9. Walked'
    BY <2>2 DEF PostureInv, Walked, Listed, Selected
  <2>. QED  BY <2>5, <2>6, <2>7, <2>8, <2>9, SameReport DEF PostureInv
<1>. QED  BY <1>3, <1>4

LEMMA FindingsMove ==
  ASSUME PostureInv, NEW a \in Alarms, FindingMoves(a)
  PROVE  PostureInv'
<1>1. open' \subseteq Alarms /\ shown' = shown
  BY DEF FindingMoves, PostureInv, PostureTyped
<1>2. PassedBy(Now') /\ UNCHANGED <<chosen, active, report>>
  BY <1>1 DEF FindingMoves, Now
<1>3. shown' \in UNION {[K -> SUBSET Ids] : K \in SUBSET Keys}
  BY <1>1 DEF PostureInv, PostureTyped
<1>. QED  BY <1>1, <1>2, <1>3, OthersMove

LEMMA FrameworksMove ==
  ASSUME PostureInv, NEW k \in Keys, FrameworkMoves(k)
  PROVE  PostureInv'
<1>1. DOMAIN shown \in SUBSET Keys /\ \A j \in DOMAIN shown : shown[j] \in SUBSET Ids
  BY DEF PostureInv, PostureTyped
<1>2. shown' \in UNION {[K -> SUBSET Ids] : K \in SUBSET Keys}
  <2>1. ASSUME NEW ids \in SUBSET Ids,
               shown' = [j \in DOMAIN shown \cup {k} |-> IF j = k THEN ids ELSE shown[j]]
        PROVE  shown' \in [DOMAIN shown \cup {k} -> SUBSET Ids]
    BY <1>1, <2>1
  <2>2. ASSUME shown' = [j \in DOMAIN shown \ {k} |-> shown[j]]
        PROVE  shown' \in [DOMAIN shown \ {k} -> SUBSET Ids]
    BY <1>1, <2>2
  <2>3. DOMAIN shown \cup {k} \in SUBSET Keys /\ DOMAIN shown \ {k} \in SUBSET Keys
    BY <1>1
  <2>. QED  BY <2>1, <2>2, <2>3 DEF FrameworkMoves
<1>3. PassedBy(Now') /\ UNCHANGED <<chosen, active, report>> /\ open' = open
  BY DEF FrameworkMoves, Now
<1>4. open' \subseteq Alarms
  BY <1>3 DEF PostureInv, PostureTyped
<1>. QED  BY <1>2, <1>3, <1>4, OthersMove

LEMMA Begun ==
  ASSUME PostureInv, NEW kind \in Kinds, Begin(kind)
  PROVE  PostureInv'
<1>0. PostureTyped
  BY DEF PostureInv
<1>1. PICK k, left, there, moments :
        /\ k \in Keys
        /\ left = IF kind = "detail" THEN <<k>> ELSE Selected
        /\ there = DOMAIN shown /\ moments = {Now}
        /\ reading' = [kind |-> kind, left |-> left, there |-> there, ids |-> {}, at |-> "controls",
                       rows |-> <<>>, moments |-> moments]
  BY DEF Begin
<1>2. Selected \in Seq(Keys)
  BY <1>0 DEF PostureTyped, Selected
<1>3. left \in Seq(Keys) /\ there \in SUBSET Keys /\ moments \in SUBSET Moment
  <2>1. <<k>> \in Seq(Keys)
    BY <1>1
  <2>. QED  BY <1>0, <1>1, <1>2, <2>1, NowIs DEF PostureTyped
<1>4. /\ reading'.kind = kind /\ reading'.left = left /\ reading'.there = there /\ reading'.ids = {}
      /\ reading'.at = "controls" /\ reading'.rows = <<>> /\ reading'.moments = moments
  BY <1>1
<1>5. reading' \in AReading
  BY <1>1, <1>3, NoRows DEF AReading
<1>6. UNCHANGED <<open, shown, chosen, active>> /\ report' = NoReport
  BY DEF Begin
<1>7. IsFiniteSet(moments)
  BY <1>1, FS_Singleton
<1>8. PostureTyped'
  BY <1>0, <1>4, <1>5, <1>6, <1>7 DEF PostureTyped
<1>9. UnderWay'
  <2>1. Now' = Now
    BY <1>6 DEF Now
  <2>2. kind # "none"
    BY DEF Kinds
  <2>. QED  BY <1>0, <1>1, <1>4, <2>1, <2>2, NowIs DEF UnderWay
<1>10. RowsRead' /\ AtFramework'
  BY <1>4, NoRows DEF RowsRead, AtFramework
<1>11. Walked'
  <2>1. kind # "detail" => left = Selected
    BY <1>1
  <2>2. Selected' = Selected
    BY <1>6 DEF Selected
  <2>. QED  BY <1>4, <2>1, <2>2, NoRows DEF Walked, Listed
<1>. QED  BY <1>6, <1>8, <1>9, <1>10, <1>11, NothingReported DEF PostureInv

LEMMA ControlsRead ==
  ASSUME PostureInv, ReadControls
  PROVE  PostureInv'
<1>0. PostureTyped /\ reading.at = "controls" /\ reading.left # <<>>
  BY DEF PostureInv, ReadControls
<1>1. PICK k, rest : k = Head(reading.left) /\ rest = Tail(reading.left)
  OBVIOUS
<1>2. k \in Keys /\ rest \in Seq(Keys) /\ \A j : Listed(j, reading.left) <=> j = k \/ Listed(j, rest)
  BY <1>0, <1>1, FirstAndRest, Fields
<1>3. UNCHANGED <<open, shown, chosen, active, report>>
  BY DEF ReadControls
<1>4. PostureFaithful' /\ Now' = Now /\ Selected' = Selected
  BY <1>3, SameReport DEF PostureInv, Now, Selected
<1>5. CASE k \in reading.there
  <2>1. PICK ids \in SUBSET Ids : ids = IdsAt(Now, k)
    BY <1>0, NowIs DEF PostureTyped, IdsAt
  <2>2. PICK half \in AReading : half = [reading EXCEPT !.at = "open"]
    BY <1>0, Fields DEF PostureTyped, AReading
  <2>3. /\ half.kind = reading.kind /\ half.left = reading.left /\ half.there = reading.there
        /\ half.at = "open" /\ half.rows = reading.rows /\ half.moments = reading.moments
    BY <1>0, <2>2 DEF PostureTyped, AReading
  <2>4. reading' = [half EXCEPT !.ids = ids]
    BY <1>0, <1>1, <1>5, <2>1, <2>2, NowIs DEF ReadControls, IdsAt, PostureTyped, AReading
  <2>5. /\ reading'.kind = reading.kind /\ reading'.left = reading.left /\ reading'.there = reading.there
        /\ reading'.ids = ids /\ reading'.at = "open" /\ reading'.rows = reading.rows
        /\ reading'.moments = reading.moments /\ reading' \in AReading
    BY <2>1, <2>3, <2>4 DEF AReading
  <2>6. PostureTyped'
    BY <1>0, <1>3, <2>5 DEF PostureTyped
  <2>7. reading.kind # "none"
    BY <1>0 DEF PostureInv, UnderWay
  <2>8. UnderWay'
    BY <1>4, <2>5, <2>7 DEF PostureInv, UnderWay
  <2>9. RowsRead'
    BY <2>5 DEF PostureInv, RowsRead
  <2>10. AtFramework'
    BY <1>0, <1>1, <1>5, <2>1, <2>5, <2>7 DEF PostureInv, UnderWay, AtFramework
  <2>11. Walked'
    BY <1>4, <2>5 DEF PostureInv, Walked
  <2>. QED  BY <1>4, <2>6, <2>8, <2>9, <2>10, <2>11 DEF PostureInv
<1>6. CASE k \notin reading.there
  <2>1. reading' = [reading EXCEPT !.left = rest]
    BY <1>1, <1>6 DEF ReadControls, PassOver
  <2>2. /\ reading'.kind = reading.kind /\ reading'.left = rest /\ reading'.there = reading.there
        /\ reading'.ids = reading.ids /\ reading'.at = reading.at /\ reading'.rows = reading.rows
        /\ reading'.moments = reading.moments /\ reading' \in AReading
    BY <1>0, <1>2, <2>1 DEF PostureTyped, AReading
  <2>3. PostureTyped'
    BY <1>0, <1>3, <2>2 DEF PostureTyped
  <2>4. UnderWay' /\ RowsRead' /\ AtFramework'
    BY <1>0, <1>4, <2>2 DEF PostureInv, UnderWay, RowsRead, AtFramework
  <2>5. Walked'
    BY <1>2, <1>4, <1>6, <2>2 DEF PostureInv, Walked
  <2>. QED  BY <1>4, <2>3, <2>4, <2>5 DEF PostureInv
<1>. QED  BY <1>5, <1>6

LEMMA FindingsRead ==
  ASSUME PostureInv, ReadOpen
  PROVE  PostureInv'
<1>0. PostureTyped /\ reading.at = "open" /\ reading.left # <<>> /\ reading.kind # "none"
  BY DEF PostureInv, ReadOpen, AtFramework, UnderWay
<1>1. PICK k, rest : k = Head(reading.left) /\ rest = Tail(reading.left)
  OBVIOUS
<1>2. k \in Keys /\ rest \in Seq(Keys) /\ \A j : Listed(j, reading.left) <=> j = k \/ Listed(j, rest)
  BY <1>0, <1>1, FirstAndRest, Fields
<1>3. UNCHANGED <<open, shown, chosen, active, report>>
  BY DEF ReadOpen
<1>4. PostureFaithful' /\ Now' = Now /\ Selected' = Selected
  BY <1>3, SameReport DEF PostureInv, Now, Selected
<1>5. PICK row \in Rows(k, reading.kind, reading.ids, open) :
        reading' = [reading EXCEPT !.at = "controls", !.left = Tail(@), !.ids = {},
                      !.rows = [j \in DOMAIN @ \cup {Head(reading.left)} |->
                                  IF j = Head(reading.left) THEN row ELSE @[j]]]
  BY <1>1, Zenon DEF ReadOpen
<1>6. row \in ARow
  BY <1>0, <1>2, <1>5, RowIs, Fields DEF PostureTyped
<1>7. PICK rows : rows = [j \in DOMAIN reading.rows \cup {k} |-> IF j = k THEN row ELSE reading.rows[j]]
  OBVIOUS
<1>8. DOMAIN rows = DOMAIN reading.rows \cup {k} /\ rows[k] = row
      /\ \A j \in DOMAIN reading.rows : j # k => rows[j] = reading.rows[j]
  BY <1>7
<1>9. rows \in SomeRows
  <2>1. reading.rows \in SomeRows
    BY <1>0, Fields
  <2>2. DOMAIN reading.rows \in SUBSET Keys /\ \A j \in DOMAIN reading.rows : reading.rows[j] \in ARow
    BY <2>1 DEF SomeRows
  <2>3. rows \in [DOMAIN reading.rows \cup {k} -> ARow]
    BY <1>6, <1>7, <2>2
  <2>4. DOMAIN reading.rows \cup {k} \in SUBSET Keys
    BY <1>2, <2>2
  <2>. QED  BY <2>3, <2>4 DEF SomeRows
<1>10. PICK one \in AReading : one = [reading EXCEPT !.at = "controls"]
  BY <1>0, Fields DEF PostureTyped, AReading
<1>11. PICK two \in AReading : two = [one EXCEPT !.left = rest]
  BY <1>2, <1>10 DEF AReading
<1>12. PICK three \in AReading : three = [two EXCEPT !.ids = {}]
  BY <1>11 DEF AReading
<1>13. /\ one.kind = reading.kind /\ one.there = reading.there /\ one.moments = reading.moments
       /\ one.rows = reading.rows /\ one.at = "controls"
  BY <1>0, <1>10 DEF PostureTyped, AReading
<1>14. /\ three.kind = reading.kind /\ three.there = reading.there /\ three.moments = reading.moments
       /\ three.rows = reading.rows /\ three.at = "controls" /\ three.left = rest /\ three.ids = {}
  BY <1>11, <1>12, <1>13 DEF AReading
<1>15. reading' = [three EXCEPT !.rows = rows]
  <2>1. rows = [j \in DOMAIN reading.rows \cup {Head(reading.left)} |->
                  IF j = Head(reading.left) THEN row ELSE reading.rows[j]]
    BY <1>1, <1>7, Zenon
  <2>2. reading' = [reading EXCEPT !.at = "controls", !.left = rest, !.ids = {}, !.rows = rows]
    BY <1>1, <1>5, <2>1
  <2>. QED  BY <1>0, <1>10, <1>11, <1>12, <2>2 DEF PostureTyped, AReading
<1>16. /\ reading'.kind = reading.kind /\ reading'.left = rest /\ reading'.there = reading.there
       /\ reading'.at = "controls" /\ reading'.rows = rows
       /\ reading'.moments = reading.moments /\ reading' \in AReading
  BY <1>9, <1>14, <1>15 DEF AReading
<1>17. PostureTyped'
  BY <1>0, <1>3, <1>16 DEF PostureTyped
<1>18. UnderWay' /\ AtFramework'
  BY <1>0, <1>4, <1>16 DEF PostureInv, UnderWay, AtFramework
<1>19. RowsRead'
  <2>1. \E m \in reading.moments : row \in Rows(k, reading.kind, IdsAt(m, k), Now.open)
    BY <1>0, <1>1, <1>5, NowIs DEF PostureInv, AtFramework
  <2>2. \E m \in reading.moments, n \in reading.moments : row \in Rows(k, reading.kind, IdsAt(m, k), n.open)
    BY <1>0, <2>1 DEF PostureInv, UnderWay
  <2>3. \A j \in DOMAIN rows : \E m \in reading.moments, n \in reading.moments :
          rows[j] \in Rows(j, reading.kind, IdsAt(m, j), n.open)
    BY <1>8, <2>2 DEF PostureInv, RowsRead
  <2>. QED  BY <1>16, <2>3 DEF RowsRead
<1>20. Walked'
  <2>1. k \in reading.there
    BY <1>0, <1>1 DEF PostureInv, AtFramework
  <2>2. \A j : j \in DOMAIN rows \/ Listed(j, rest) <=> j \in DOMAIN reading.rows \/ Listed(j, reading.left)
    BY <1>2, <1>8
  <2>. QED  BY <1>4, <1>8, <1>16, <2>1, <2>2 DEF PostureInv, Walked
<1>. QED  BY <1>4, <1>17, <1>18, <1>19, <1>20 DEF PostureInv

\* A report that ends is faithful to the moments it has passed through.
LEMMA ReportEnded ==
  ASSUME PostureInv, NEW kinds \in SUBSET Kinds, NEW overalls, NEW risk,
         ReportEnds(kinds, overalls, risk),
         "ciso" \in kinds => risk = Cardinality({a \in open : Deduction[a] >= 4})
  PROVE  PostureInv'
<1>0. PostureTyped /\ reading.kind \in kinds /\ reading.at = "controls" /\ reading.left = <<>>
      /\ reading.kind \in Kinds /\ reading.kind # "none"
  BY DEF PostureInv, ReportEnds, Kinds
<1>1. PICK kind, rows, moments : kind = reading.kind /\ rows = reading.rows /\ moments = reading.moments
  OBVIOUS
<1>2. report'.kind = kind /\ report'.rows = rows /\ report'.risk = risk /\ report'.moments = moments
  BY <1>1 DEF ReportEnds
<1>3. UNCHANGED <<open, shown, chosen, active>> /\ reading' = NoReading
  BY DEF ReportEnds
<1>4. Selected' = Selected /\ Selected \in Seq(Keys)
  BY <1>0, <1>3 DEF Selected, PostureTyped
<1>5. \A k \in DOMAIN rows : \E m \in moments, n \in moments : rows[k] \in Rows(k, kind, IdsAt(m, k), n.open)
  BY <1>1 DEF PostureInv, RowsRead
<1>6. DOMAIN rows \in SUBSET Keys /\ moments \in SUBSET Moment /\ IsFiniteSet(moments)
  <2>1. rows \in SomeRows
    BY <1>0, <1>1, Fields
  <2>. QED  BY <1>0, <1>1, <2>1, Fields DEF PostureTyped, SomeRows
<1>7. \A m \in moments, k \in Keys : IdsAt(m, k) \in SUBSET Ids /\ m.open \in SUBSET Alarms
  BY <1>6 DEF Moment, IdsAt
<1>8. RowsOfTheReading'
  BY <1>2, <1>5 DEF RowsOfTheReading, IdsAt
<1>9. FullMarksEarned'
  <2>1. ASSUME NEW k \in DOMAIN rows, rows[k].pct = Full(kind), rows[k].total < 200
        PROVE  rows[k].failing = {}
    <3>1. PICK m \in moments, n \in moments : rows[k] \in Rows(k, kind, IdsAt(m, k), n.open)
      BY <1>5
    <3>2. k \in Keys /\ IdsAt(m, k) \in SUBSET Ids /\ n.open \in SUBSET Alarms
      BY <1>6, <1>7
    <3>3. rows[k].pct = Full(kind) /\ rows[k].total < 200 => rows[k].failing = {}
      BY <3>1, <3>2, RowIs
    <3>. QED  BY <2>1, <3>3
  <2>. QED  BY <1>2, <2>1 DEF FullMarksEarned
<1>10. AuditAgrees'
  BY <1>0, <1>1, <1>2 DEF AuditAgrees, Kinds
<1>11. FrozenFaithfully'
  <2>1. SUFFICES ASSUME kind # "detail", Cardinality(moments) = 1
                 PROVE  FrozenOf(report', Selected)
    <3>1. FrozenFaithfully' <=> FrozenOf(report', Selected)
      BY <1>4, FrozenAs
    <3>2. ~(kind # "detail" /\ Cardinality(moments) = 1) => FrozenOf(report', Selected)
      BY <1>2 DEF FrozenOf
    <3>. QED  BY <3>1, <3>2
  <2>2. PICK m : moments = {m}
    BY <1>6, <2>1, FS_Singleton
  <2>3. m = Now /\ reading.there = DOMAIN m.shown
    BY <1>0, <1>1, <2>2 DEF PostureInv, UnderWay
  <2>4. m.open = open
    BY <1>0, <2>3, NowIs
  <2>5. \A k : ~Listed(k, <<>>)
    BY DEF Listed
  <2>6. DOMAIN rows \subseteq DOMAIN m.shown
        /\ \A k \in DOMAIN m.shown : Listed(k, Selected) <=> k \in DOMAIN rows
    BY <1>0, <1>1, <2>1, <2>3, <2>5 DEF PostureInv, Walked
  <2>7. \A k : Listed(k, Selected) <=> k \in {Selected[n] : n \in DOMAIN Selected}
    BY <1>4 DEF Listed
  <2>8. DOMAIN rows = {Selected[n] : n \in DOMAIN Selected} \cap DOMAIN m.shown
    BY <2>6, <2>7
  <2>9. ASSUME NEW k \in DOMAIN rows
        PROVE  rows[k].failing = Failing(k, m.shown[k], m.open) /\ rows[k].total = Cardinality(m.shown[k])
    <3>1. rows[k] \in Rows(k, kind, IdsAt(m, k), m.open)
      BY <1>5, <2>2
    <3>2. IdsAt(m, k) = m.shown[k]
      BY <2>6 DEF IdsAt
    <3>3. k \in Keys /\ IdsAt(m, k) \in SUBSET Ids /\ m.open \in SUBSET Alarms
      BY <1>6, <1>7, <2>2
    <3>. PICK row : row = rows[k]
      OBVIOUS
    <3>4. PICK ids \in SUBSET Ids, alarms \in SUBSET Alarms : ids = IdsAt(m, k) /\ alarms = m.open
      BY <3>3
    <3>5. k \in Keys /\ row \in Rows(k, kind, ids, alarms)
      BY <3>1, <3>3, <3>4
    <3>6. row.total = Cardinality(ids) /\ row.failing = Failing(k, ids, alarms)
      BY <3>5, RowIs
    <3>. QED  BY <3>2, <3>4, <3>6
  <2>10. kind = "ciso" => risk = Cardinality({a \in m.open : Deduction[a] >= 4})
    BY <1>0, <1>1, <2>4
  <2>. QED  BY <1>2, <2>2, <2>8, <2>9, <2>10 DEF FrozenOf
<1>12. PostureTyped'
  <2>1. NoReading \in AReading
    BY NoRows DEF NoReading, AReading
  <2>2. IsFiniteSet({}) /\ NoReading.moments = {}
    BY FS_EmptySet DEF NoReading
  <2>. QED  BY <1>0, <1>3, <2>1, <2>2 DEF PostureTyped
<1>13. UnderWay' /\ AtFramework' /\ Walked' /\ RowsRead'
  BY <1>3, NoRows DEF NoReading, UnderWay, AtFramework, Walked, RowsRead
<1>. QED  BY <1>8, <1>9, <1>10, <1>11, <1>12, <1>13 DEF PostureInv, PostureFaithful

\* The dashboard's figures and the audit report are of one moment.
LEMMA ReadOnce ==
  ASSUME PostureInv, NEW kind \in {"score", "audit"}, OneRead(kind)
  PROVE  PostureInv'
<1>0. PostureTyped
  BY DEF PostureInv
<1>1. PICK ids : ids = IF active \in DOMAIN Code THEN Code[active] ELSE {}
  OBVIOUS
<1>2. PICK row, rows, score :
        /\ row \in Rows(active, kind, ids, open)
        /\ rows = IF kind = "audit" THEN [k \in {active} |-> row] ELSE <<>>
        /\ report' = [NoReport EXCEPT !.kind = kind, !.score = score, !.moments = {Now}, !.rows = rows]
  BY <1>1 DEF OneRead
<1>3. report'.kind = kind /\ report'.moments = {Now} /\ report'.rows = rows
  BY <1>2 DEF NoReport
<1>4. UNCHANGED <<open, shown, chosen, active, reading>>
  BY DEF OneRead
<1>5. ids \in SUBSET Ids /\ open \in SUBSET Alarms /\ active \in Keys
  BY <1>0, <1>1, PostureAssumption DEF PostureTyped
<1>6. RowsOfTheReading' /\ FrozenFaithfully'
  BY <1>3 DEF RowsOfTheReading, FrozenFaithfully, Kinds
<1>7. AuditAgrees'
  <2>1. SUFFICES ASSUME kind = "audit", active \in DOMAIN Now.shown \cap DOMAIN Code,
                        Now.shown[active] = Code[active]
                 PROVE  rows[active] \in Rows(active, "live", Now.shown[active], Now.open)
    BY <1>3, <1>4 DEF AuditAgrees
  <2>2. rows[active] = row /\ ids = Now.shown[active] /\ Now.open = open
    BY <1>0, <1>1, <1>2, <2>1, NowIs
  <2>3. Rows(active, "audit", ids, open) = Rows(active, "live", ids, open)
    BY DEF Rows, Full
  <2>. QED  BY <1>2, <2>1, <2>2, <2>3
<1>8. FullMarksEarned'
  <2>1. ASSUME NEW k \in DOMAIN rows, rows[k].pct = Full(kind), rows[k].total < 200
        PROVE  rows[k].failing = {}
    <3>1. rows[k] = row
      BY <1>2, <2>1, NoRows
    <3>2. row \in Rows(active, kind, ids, open)
      BY <1>2
    <3>3. row.pct = Full(kind) /\ row.total < 200 => row.failing = {}
      BY <1>5, <3>2, RowIs
    <3>. QED  BY <2>1, <3>1, <3>3
  <2>. QED  BY <1>3, <2>1 DEF FullMarksEarned
<1>9. Now' = Now /\ Selected' = Selected
  BY <1>4 DEF Now, Selected
<1>10. PostureTyped' /\ UnderWay' /\ RowsRead' /\ AtFramework'
  BY <1>0, <1>4, <1>9 DEF PostureInv, PostureTyped, UnderWay, RowsRead, AtFramework
<1>11. Walked'
  BY <1>4, <1>9 DEF PostureInv, Walked
<1>. QED  BY <1>6, <1>7, <1>8, <1>10, <1>11 DEF PostureInv, PostureFaithful

LEMMA PostureStep == PostureInv /\ [PostureNext]_postureVars => PostureInv'
<1>. SUFFICES ASSUME PostureInv, [PostureNext]_postureVars PROVE PostureInv'
  OBVIOUS
<1>1. CASE UNCHANGED postureVars
  <2>1. Now' = Now /\ Selected' = Selected
    BY <1>1 DEF postureVars, Now, Selected
  <2>. QED
    BY <1>1, <2>1, SameReport
    DEF postureVars, PostureInv, PostureTyped, UnderWay, RowsRead, AtFramework, Walked
<1>2. CASE ComplianceBegins \/ DetailBegins \/ SnapshotBegins \/ CISOBegins \/ LevelBegins
  BY <1>2, Begun DEF ComplianceBegins, DetailBegins, SnapshotBegins, CISOBegins, LevelBegins, Kinds
<1>3. CASE ViewEnds \/ SnapshotEnds \/ CISOEnds \/ LevelEnds
  <2>1. {"live", "detail"} \in SUBSET Kinds /\ {"snapshot"} \in SUBSET Kinds
        /\ {"ciso"} \in SUBSET Kinds /\ {"level"} \in SUBSET Kinds
    BY DEF Kinds
  <2>2. ASSUME ViewEnds \/ SnapshotEnds PROVE PostureInv'
    BY <2>1, <2>2, ReportEnded DEF ViewEnds, SnapshotEnds
  <2>3. ASSUME CISOEnds PROVE PostureInv'
    BY <2>1, <2>3, ReportEnded DEF CISOEnds
  <2>4. ASSUME LevelEnds PROVE PostureInv'
    BY <2>1, <2>4, ReportEnded DEF LevelEnds
  <2>. QED  BY <1>3, <2>2, <2>3, <2>4
<1>4. CASE Dashboard \/ AuditReport
  BY <1>4, ReadOnce DEF Dashboard, AuditReport
<1>. QED
  BY <1>1, <1>2, <1>3, <1>4, FindingsMove, FrameworksMove, ControlsRead, FindingsRead DEF PostureNext

ReportKind == report.kind \in Kinds \cup {"none", "audit", "score"}

LEMMA PostureTypes == PostureInv /\ ReportKind => PostureTypeOK
<1>. SUFFICES ASSUME PostureInv, ReportKind PROVE PostureTypeOK
  OBVIOUS
<1>1. open \subseteq Alarms /\ DOMAIN shown \subseteq Keys /\ \A k \in DOMAIN shown : shown[k] \subseteq Ids
  BY DEF PostureInv, PostureTyped
<1>2. reading.kind \in Kinds \cup {"none"}
  BY Fields DEF PostureInv, PostureTyped
<1>. QED  BY <1>1, <1>2 DEF PostureTypeOK, ReportKind

LEMMA ReportKindInit == PostureInit => ReportKind
  BY DEF PostureInit, ReportKind, NoReport

LEMMA ReportKindStep == PostureInv /\ ReportKind /\ [PostureNext]_postureVars => ReportKind'
<1>. SUFFICES ASSUME PostureInv, ReportKind, [PostureNext]_postureVars PROVE ReportKind'
  OBVIOUS
<1>1. CASE UNCHANGED report
  BY <1>1 DEF ReportKind
<1>2. ASSUME NEW kind \in Kinds, Begin(kind) PROVE ReportKind'
  BY <1>2 DEF Begin, ReportKind, NoReport
<1>3. ASSUME NEW kinds \in SUBSET Kinds, NEW overalls, NEW risk, ReportEnds(kinds, overalls, risk)
      PROVE  ReportKind'
  BY <1>3 DEF ReportEnds, ReportKind
<1>4. ASSUME NEW kind \in {"score", "audit"}, OneRead(kind) PROVE ReportKind'
  <2>1. PICK score, rows : report' = [NoReport EXCEPT !.kind = kind, !.score = score, !.moments = {Now}, !.rows = rows]
    BY <1>4 DEF OneRead
  <2>2. report'.kind = kind
    BY <2>1 DEF NoReport
  <2>. QED  BY <2>2 DEF ReportKind
<1>5. CASE ComplianceBegins \/ DetailBegins \/ SnapshotBegins \/ CISOBegins \/ LevelBegins
  BY <1>2, <1>5 DEF ComplianceBegins, DetailBegins, SnapshotBegins, CISOBegins, LevelBegins, Kinds
<1>6. CASE ViewEnds \/ SnapshotEnds \/ CISOEnds \/ LevelEnds
  <2>1. {"live", "detail"} \in SUBSET Kinds /\ {"snapshot"} \in SUBSET Kinds
        /\ {"ciso"} \in SUBSET Kinds /\ {"level"} \in SUBSET Kinds
    BY DEF Kinds
  <2>. QED  BY <1>3, <1>6, <2>1 DEF ViewEnds, SnapshotEnds, CISOEnds, LevelEnds
<1>7. CASE Dashboard \/ AuditReport
  BY <1>4, <1>7 DEF Dashboard, AuditReport
<1>8. CASE (\E a \in Alarms : FindingMoves(a)) \/ (\E k \in Keys : FrameworkMoves(k)) \/ ReadControls
           \/ ReadOpen \/ UNCHANGED postureVars
  BY <1>1, <1>8 DEF FindingMoves, FrameworkMoves, ReadControls, ReadOpen, postureVars
<1>. QED  BY <1>5, <1>6, <1>7, <1>8 DEF PostureNext

\* A compliance view, snapshot or report counts only what was so at moments it
\* passed through, is the posture of that moment if nothing changed meanwhile,
\* the audit report agrees with it for a framework nobody edited, and 100 % is
\* shown of a framework of fewer than 200 controls only if none fails: for any
\* frameworks, controls, findings and selections (governance.py,
\* snapshot_service.py, reports_service.py, auditor.py).
THEOREM PostureInvariance == PostureSpec => [](PostureTypeOK /\ PostureFaithful)
<1>1. PostureInit => PostureInv /\ ReportKind
  BY PostureInitInv, ReportKindInit
<1>2. PostureInv /\ ReportKind /\ [PostureNext]_postureVars => (PostureInv /\ ReportKind)'
  BY PostureStep, ReportKindStep
<1>3. PostureInv /\ ReportKind => PostureTypeOK /\ PostureFaithful
  BY PostureTypes DEF PostureInv
<1>. QED  BY <1>1, <1>2, <1>3, PTL DEF PostureSpec

(***************************************************************************)
(* Assessment: the controls the checks map to.                             *)
(***************************************************************************)

\* A check's controls show in some framework's posture; in that of SOC 2, if
\* they name it. None names the framework of no scan, "all".
Shows(S) ==
  /\ S \cap FRAMEWORKS # {}
  /\ \A c \in S : c[1] # "all"
  /\ (\E c \in S : c[1] = "soc2") => \E c \in S \cap FRAMEWORKS : c[1] = "soc2"

SocIds == {"CC6.1", "CC6.2", "CC6.3", "CC6.6", "CC6.7", "CC6.8", "CC7.2"}

LEMMA SocControls == \A x \in SocIds : <<"soc2", x>> \in FRAMEWORKS
  BY DEF SocIds, FRAMEWORKS, SOC2

LEMMA NamesOf ==
  ASSUME NEW S
  PROVE  /\ \A c \in PCI(S) : c[1] = "pci_dss"
         /\ \A c \in ISO(S) : c[1] = "iso27001"
         /\ \A c \in NIST(S) : c[1] = "nist_csf"
         /\ \A c \in SOC2(S) : c[1] = "soc2"
         /\ \A x \in S : <<"soc2", x>> \in SOC2(S)
  BY DEF PCI, ISO, NIST, SOC2

LEMMA SocShows ==
  ASSUME NEW S, NEW x \in SocIds, <<"soc2", x>> \in S, \A c \in S : c[1] # "all"
  PROVE  Shows(S)
<1>. PICK c : c = <<"soc2", x>>
  OBVIOUS
<1>1. c \in S \cap FRAMEWORKS /\ c[1] = "soc2"
  BY SocControls
<1>. QED  BY <1>1 DEF Shows

LEMMA ToShows ==
  ASSUME NEW pci, NEW iso, NEW x \in SocIds
  PROVE  Shows(To(pci, iso, x)) /\ \A T : Shows(To(pci, iso, x) \cup NIST(T))
<1>1. <<"soc2", x>> \in To(pci, iso, x) /\ \A c \in To(pci, iso, x) : c[1] # "all"
  BY NamesOf DEF To
<1>. QED  BY <1>1, SocShows, NamesOf

LEMMA PostgresShows == \A f \in DOMAIN PostgresControls : Shows(PostgresControls[f])
  BY ToShows DEF PostgresControls, SocIds

LEMMA MySQLShows == \A f \in DOMAIN MySQLControls : Shows(MySQLControls[f])
  BY ToShows DEF MySQLControls, SocIds

LEMMA MSSQLShows == \A f \in DOMAIN MSSQLControls : Shows(MSSQLControls[f])
  BY ToShows DEF MSSQLControls, SocIds

LEMMA HistoryShows == Shows(PCI({"8.3.7"}) \cup ISO({"A.5.17"}))
<1>. PICK c : c = <<"iso27001", "A.5.17">>
  OBVIOUS
<1>1. c \in FRAMEWORKS /\ c \in ISO({"A.5.17"})
  BY DEF FRAMEWORKS, ISO
<1>. QED  BY <1>1, NamesOf DEF Shows

LEMMA WindowsShows == \A f \in DOMAIN WindowsControls : Shows(WindowsControls[f])
<1>1. /\ Shows(WindowsControls.min_length) /\ Shows(WindowsControls.complexity)
      /\ Shows(WindowsControls.max_age_days) /\ Shows(WindowsControls.history_count)
  BY ToShows, HistoryShows DEF WindowsControls, SocIds
<1>2. /\ Shows(WindowsControls.threshold) /\ Shows(WindowsControls.logon)
      /\ Shows(WindowsControls.policy_change) /\ Shows(WindowsControls.smbv1_enabled)
  BY ToShows DEF WindowsControls, SocIds
<1>3. /\ Shows(WindowsControls.rdp_nla_required) /\ Shows(WindowsControls.guest_account_enabled)
      /\ Shows(WindowsControls.lm_hash_stored) /\ Shows(WindowsControls.telnet_running)
  BY ToShows DEF WindowsControls, SocIds
<1>4. /\ Shows(WindowsControls.ftp_running) /\ Shows(WindowsControls.domain_profile)
      /\ Shows(WindowsControls.private_profile) /\ Shows(WindowsControls.public_profile)
  BY ToShows DEF WindowsControls, SocIds
<1>5. DOMAIN WindowsControls =
        {"min_length", "complexity", "max_age_days", "history_count", "threshold", "logon",
         "policy_change", "smbv1_enabled", "rdp_nla_required", "guest_account_enabled",
         "lm_hash_stored", "telnet_running", "ftp_running", "domain_profile",
         "private_profile", "public_profile"}
  BY DEF WindowsControls
<1>. QED  BY <1>1, <1>2, <1>3, <1>4, <1>5

LEMMA PaloAltoShows == \A f \in DOMAIN PaloAltoControls : Shows(PaloAltoControls[f])
<1>1. ASSUME NEW P, NEW I, NEW N, NEW S, NEW x \in SocIds, x \in S
      PROVE  /\ Shows(PCI(P) \cup ISO(I) \cup NIST(N) \cup SOC2(S))
             /\ Shows(PCI(P) \cup ISO(I) \cup SOC2(S) \cup NIST(N))
             /\ Shows(PCI(P) \cup ISO(I) \cup SOC2(S))
  BY <1>1, SocShows, NamesOf
<1>2. Shows(PaloAltoControls.permissive_any_any)
  <2>1. "CC6.1" \in SocIds /\ "CC6.1" \in {"CC6.1", "CC6.6"}
    BY DEF SocIds
  <2>. QED  BY <1>1, <2>1 DEF PaloAltoControls
<1>3. Shows(PaloAltoControls.rule_no_logging)
  <2>1. "CC7.2" \in SocIds /\ "CC7.2" \in {"CC7.2"}
    BY DEF SocIds
  <2>. QED  BY <1>1, <2>1 DEF PaloAltoControls
<1>4. Shows(PaloAltoControls.mgmt_not_restricted)
  <2>1. "CC6.1" \in SocIds /\ "CC6.1" \in {"CC6.1"}
    BY DEF SocIds
  <2>. QED  BY <1>1, <2>1 DEF PaloAltoControls
<1>5. Shows(PaloAltoControls.rule_any_application) /\ Shows(PaloAltoControls.rule_no_security_profile)
  BY ToShows DEF PaloAltoControls, SocIds
<1>6. Shows(PaloAltoControls.insecure_mgmt_service)
  <2>1. "CC6.7" \in SocIds /\ "CC6.7" \in {"CC6.7"}
    BY DEF SocIds
  <2>. QED  BY <1>1, <2>1 DEF PaloAltoControls
<1>7. DOMAIN PaloAltoControls = {"permissive_any_any", "rule_no_logging", "rule_any_application",
        "mgmt_not_restricted", "insecure_mgmt_service", "rule_no_security_profile"}
  BY DEF PaloAltoControls
<1>. QED  BY <1>2, <1>3, <1>4, <1>5, <1>6, <1>7

\* Some control of the mappings S is one there is.
Hits(S) == S \cap FRAMEWORKS # {}

LEMMA PCIHits ==
  \A x \in {"1.1", "1.2", "2.2", "3.4", "4.2", "5.2", "6.3", "7.2", "8.2", "8.4", "10.2", "10.3"} :
    Hits(PCI({x})) /\ \A y : Hits(PCI({x, y}))
<1>. SUFFICES ASSUME NEW x \in {"1.1", "1.2", "2.2", "3.4", "4.2", "5.2", "6.3", "7.2", "8.2",
                                "8.4", "10.2", "10.3"}, NEW T, x \in T
              PROVE  Hits(PCI(T))
  OBVIOUS
<1>. PICK c : c = <<"pci_dss", x>>
  OBVIOUS
<1>1. c \in FRAMEWORKS /\ c \in PCI(T)
  BY DEF FRAMEWORKS, PCI
<1>. QED  BY <1>1 DEF Hits

LEMMA MoreHits == \A S, T : Hits(S) => Hits(S \cup T)
  BY DEF Hits

LEMMA EventsShow ==
  \A s \in DOMAIN EVENT_TEMPLATES : \A n \in DOMAIN EVENT_TEMPLATES[s] :
    Hits(EVENT_TEMPLATES[s][n])
<1>1. \A n \in DOMAIN EVENT_TEMPLATES.network : Hits(EVENT_TEMPLATES.network[n])
  <2>1. DOMAIN EVENT_TEMPLATES.network = 1..5
    BY DEF EVENT_TEMPLATES
  <2>2. Hits(EVENT_TEMPLATES.network[1]) /\ Hits(EVENT_TEMPLATES.network[2])
    BY PCIHits, MoreHits DEF EVENT_TEMPLATES
  <2>3. Hits(EVENT_TEMPLATES.network[3]) /\ Hits(EVENT_TEMPLATES.network[4])
    BY PCIHits, MoreHits DEF EVENT_TEMPLATES
  <2>4. Hits(EVENT_TEMPLATES.network[5])
    BY PCIHits, MoreHits DEF EVENT_TEMPLATES
  <2>. QED  BY <2>1, <2>2, <2>3, <2>4
<1>2. \A n \in DOMAIN EVENT_TEMPLATES.server : Hits(EVENT_TEMPLATES.server[n])
  <2>1. DOMAIN EVENT_TEMPLATES.server = 1..6
    BY DEF EVENT_TEMPLATES
  <2>2. Hits(EVENT_TEMPLATES.server[1]) /\ Hits(EVENT_TEMPLATES.server[2])
    BY PCIHits, MoreHits DEF EVENT_TEMPLATES
  <2>3. Hits(EVENT_TEMPLATES.server[3]) /\ Hits(EVENT_TEMPLATES.server[4])
    BY PCIHits, MoreHits DEF EVENT_TEMPLATES
  <2>4. Hits(EVENT_TEMPLATES.server[5]) /\ Hits(EVENT_TEMPLATES.server[6])
    BY PCIHits, MoreHits DEF EVENT_TEMPLATES
  <2>. QED  BY <2>1, <2>2, <2>3, <2>4
<1>3. \A n \in DOMAIN EVENT_TEMPLATES.identity : Hits(EVENT_TEMPLATES.identity[n])
  <2>1. DOMAIN EVENT_TEMPLATES.identity = 1..5
    BY DEF EVENT_TEMPLATES
  <2>2. Hits(EVENT_TEMPLATES.identity[1]) /\ Hits(EVENT_TEMPLATES.identity[2])
    BY PCIHits, MoreHits DEF EVENT_TEMPLATES
  <2>3. Hits(EVENT_TEMPLATES.identity[3]) /\ Hits(EVENT_TEMPLATES.identity[4])
    BY PCIHits, MoreHits DEF EVENT_TEMPLATES
  <2>4. Hits(EVENT_TEMPLATES.identity[5])
    BY PCIHits, MoreHits DEF EVENT_TEMPLATES
  <2>. QED  BY <2>1, <2>2, <2>3, <2>4
<1>4. \A n \in DOMAIN EVENT_TEMPLATES.cloud : Hits(EVENT_TEMPLATES.cloud[n])
  <2>1. DOMAIN EVENT_TEMPLATES.cloud = 1..5
    BY DEF EVENT_TEMPLATES
  <2>2. Hits(EVENT_TEMPLATES.cloud[1]) /\ Hits(EVENT_TEMPLATES.cloud[2])
    BY PCIHits, MoreHits DEF EVENT_TEMPLATES
  <2>3. Hits(EVENT_TEMPLATES.cloud[3]) /\ Hits(EVENT_TEMPLATES.cloud[4])
    BY PCIHits, MoreHits DEF EVENT_TEMPLATES
  <2>4. Hits(EVENT_TEMPLATES.cloud[5])
    BY PCIHits, MoreHits DEF EVENT_TEMPLATES
  <2>. QED  BY <2>1, <2>2, <2>3, <2>4
<1>5. \A n \in DOMAIN EVENT_TEMPLATES.database : Hits(EVENT_TEMPLATES.database[n])
  <2>1. DOMAIN EVENT_TEMPLATES.database = 1..3
    BY DEF EVENT_TEMPLATES
  <2>2. Hits(EVENT_TEMPLATES.database[1]) /\ Hits(EVENT_TEMPLATES.database[2])
    BY PCIHits, MoreHits DEF EVENT_TEMPLATES
  <2>3. Hits(EVENT_TEMPLATES.database[3])
    BY PCIHits, MoreHits DEF EVENT_TEMPLATES
  <2>. QED  BY <2>1, <2>2, <2>3
<1>6. \A n \in DOMAIN EVENT_TEMPLATES.siem : Hits(EVENT_TEMPLATES.siem[n])
  <2>1. DOMAIN EVENT_TEMPLATES.siem = 1..3
    BY DEF EVENT_TEMPLATES
  <2>2. Hits(EVENT_TEMPLATES.siem[1]) /\ Hits(EVENT_TEMPLATES.siem[2])
    BY PCIHits, MoreHits DEF EVENT_TEMPLATES
  <2>3. Hits(EVENT_TEMPLATES.siem[3])
    BY PCIHits, MoreHits DEF EVENT_TEMPLATES
  <2>. QED  BY <2>1, <2>2, <2>3
<1>7. DOMAIN EVENT_TEMPLATES = {"network", "server", "identity", "cloud", "database", "siem"}
  BY DEF EVENT_TEMPLATES
<1>. QED  BY <1>1, <1>2, <1>3, <1>4, <1>5, <1>6, <1>7

(***************************************************************************)
(* Records.                                                                *)
(***************************************************************************)

\* FailuresMerged, record by record.
MergedByRecord ==
  system \in Clouds =>
    /\ \A k : k \in DOMAIN findings <=> \E n \in 1..taken : records[n].fail /\ Key(records[n]) = k
    /\ \A k \in DOMAIN findings, n \in 1..taken : records[n].fail /\ Key(records[n]) = k =>
         Rank(findings[k].severity) >= Rank(records[n].severity)
           /\ Mappings(records[n]) \subseteq findings[k].maps
    /\ \A k \in DOMAIN findings : \E n \in 1..taken :
         records[n].fail /\ Key(records[n]) = k /\ findings[k].severity = records[n].severity
    /\ \A k \in DOMAIN findings : \A x \in findings[k].maps : \E n \in 1..taken :
         records[n].fail /\ Key(records[n]) = k /\ x \in Mappings(records[n])

RecordsTyped ==
  /\ records \in Seq(Records) /\ taken \in 0..Len(records)
  /\ step \in {"asked", "running"} => records = <<>> /\ taken = 0 /\ findings = <<>>

\* The key of a service account is on disk while Google's scanner runs.
KeyKept == keyFile => system = "gcp" /\ step \in {"running", "killed"}

LEMMA RankOf == Rank("low") = 1 /\ Rank("high") = 3
  BY DEF Rank, Severities

LEMMA RanksCompare ==
  ASSUME NEW r \in Records
  PROVE  Rank(r.severity) \in Nat
  BY RankOf DEF Records

LEMMA MergedMeans == MergedByRecord => FailuresMerged
<1>. SUFFICES ASSUME MergedByRecord, system \in Clouds PROVE FailuresMerged
  BY DEF FailuresMerged
<1>. PICK failed : failed = {n \in 1..taken : records[n].fail}
  OBVIOUS
<1>. DEFINE of(k) == {n \in failed : Key(records[n]) = k}
<1>1. DOMAIN findings = {Key(records[n]) : n \in failed}
  <2>1. \A k : k \in DOMAIN findings <=> \E n \in failed : Key(records[n]) = k
    BY DEF MergedByRecord
  <2>. QED  BY <2>1
<1>2. ASSUME NEW k \in DOMAIN findings
      PROVE  /\ \A n \in of(k) : Rank(findings[k].severity) >= Rank(records[n].severity)
             /\ \E m \in of(k) : findings[k].severity = records[m].severity
             /\ findings[k].maps = UNION {Mappings(records[m]) : m \in of(k)}
  <2>1. \A n \in of(k) : Rank(findings[k].severity) >= Rank(records[n].severity)
    BY DEF MergedByRecord
  <2>2. \E m \in of(k) : findings[k].severity = records[m].severity
    BY DEF MergedByRecord
  <2>3. ASSUME NEW x \in findings[k].maps PROVE \E n \in of(k) : x \in Mappings(records[n])
    BY DEF MergedByRecord
  <2>4. ASSUME NEW n \in of(k) PROVE Mappings(records[n]) \subseteq findings[k].maps
    BY DEF MergedByRecord
  <2>5. \A x : x \in UNION {Mappings(records[m]) : m \in of(k)} <=> \E n \in of(k) : x \in Mappings(records[n])
    OBVIOUS
  <2>6. findings[k].maps \subseteq UNION {Mappings(records[m]) : m \in of(k)}
    BY <2>3, <2>5
  <2>7. UNION {Mappings(records[m]) : m \in of(k)} \subseteq findings[k].maps
    BY <2>4, <2>5
  <2>. QED  BY <2>1, <2>2, <2>6, <2>7
<1>. QED  BY <1>1, <1>2 DEF FailuresMerged

\* The records taken in stay taken in.
LEMMA SameRecords ==
  ASSUME MergedByRecord, UNCHANGED <<system, records, taken, findings>>
  PROVE  MergedByRecord'
  BY DEF MergedByRecord

LEMMA NoneTaken ==
  ASSUME taken' = 0, findings' = <<>>
  PROVE  MergedByRecord'
<1>1. DOMAIN findings' = {} /\ 1..taken' = {}
  OBVIOUS
<1>. QED  BY <1>1 DEF MergedByRecord

LEMMA Taken ==
  ASSUME MergedByRecord, RecordsTyped, taken < Len(records), TakeProwler(records[taken + 1])
  PROVE  MergedByRecord'
<1>. PICK t, r, k, maps : t = taken + 1 /\ r = records[t] /\ k = Key(r) /\ maps = Mappings(r)
  OBVIOUS
<1>1. /\ t \in Nat /\ t \in 1..Len(records) /\ taken' = t /\ r \in Records
      /\ \A n : n \in 1..t <=> n \in 1..taken \/ n = t
  BY DEF RecordsTyped, TakeProwler, TakeNext
<1>2. UNCHANGED <<system, records>> /\ system \in Clouds
  BY DEF TakeProwler, TakeNext
<1>3. \A n \in 1..taken : records[n] \in Records
  BY DEF RecordsTyped
<1>4. \A n \in 1..t : Rank(records[n].severity) \in Nat
  BY <1>1, <1>3, RanksCompare
<1>5. CASE ~r.fail /\ UNCHANGED findings
  BY <1>1, <1>2, <1>5 DEF MergedByRecord
<1>6. CASE r.fail /\ k \notin DOMAIN findings /\ findings' = Reported(k, [severity |-> r.severity, maps |-> maps])
  <2>1. /\ DOMAIN findings' = DOMAIN findings \cup {k}
        /\ findings'[k].severity = r.severity /\ findings'[k].maps = maps
        /\ \A j \in DOMAIN findings : j # k /\ findings'[j] = findings[j]
    BY <1>6 DEF Reported
  <2>2. \A n \in 1..taken : records[n].fail => Key(records[n]) # k
    BY <1>2, <1>6 DEF MergedByRecord
  <2>3. \A j : j \in DOMAIN findings' <=> \E n \in 1..t : records[n].fail /\ Key(records[n]) = j
    BY <1>1, <1>2, <1>6, <2>1 DEF MergedByRecord
  <2>4. ASSUME NEW j \in DOMAIN findings', NEW n \in 1..t, records[n].fail, Key(records[n]) = j
        PROVE  Rank(findings'[j].severity) >= Rank(records[n].severity)
                 /\ Mappings(records[n]) \subseteq findings'[j].maps
    <3>1. CASE n = t
      BY <1>4, <2>1, <2>4, <3>1
    <3>2. CASE n # t
      <4>1. n \in 1..taken /\ j # k /\ j \in DOMAIN findings
        BY <1>1, <2>1, <2>2, <2>4, <3>2
      <4>. QED  BY <1>2, <2>1, <2>4, <4>1 DEF MergedByRecord
    <3>. QED  BY <3>1, <3>2
  <2>5. \A j \in DOMAIN findings' : \E n \in 1..t :
          records[n].fail /\ Key(records[n]) = j /\ findings'[j].severity = records[n].severity
    BY <1>1, <1>2, <1>6, <2>1 DEF MergedByRecord
  <2>6. \A j \in DOMAIN findings' : \A x \in findings'[j].maps : \E n \in 1..t :
          records[n].fail /\ Key(records[n]) = j /\ x \in Mappings(records[n])
    BY <1>1, <1>2, <1>6, <2>1 DEF MergedByRecord
  <2>. QED  BY <1>1, <1>2, <2>3, <2>4, <2>5, <2>6 DEF MergedByRecord
<1>7. CASE r.fail /\ k \in DOMAIN findings /\ findings' = Reported(k, MergedFinding(findings[k], r))
  <2>. PICK old, new : old = findings[k] /\ new = MergedFinding(old, r)
    OBVIOUS
  <2>0. PICK m \in 1..taken : records[m].fail /\ Key(records[m]) = k /\ old.severity = records[m].severity
    BY <1>2, <1>7 DEF MergedByRecord
  <2>a. Rank(old.severity) \in Nat /\ Rank(r.severity) \in Nat
    BY <1>1, <1>4, <2>0
  <2>b. /\ new.maps = old.maps \cup maps
        /\ new.severity = r.severity \/ new.severity = old.severity
        /\ Rank(new.severity) >= Rank(old.severity) /\ Rank(new.severity) >= Rank(r.severity)
        /\ Rank(new.severity) \in Nat
    BY <2>a DEF MergedFinding
  <2>1. /\ DOMAIN findings' = DOMAIN findings /\ findings'[k] = new
        /\ \A j \in DOMAIN findings : j # k => findings'[j] = findings[j]
    BY <1>7 DEF Reported
  <2>3. \A j : j \in DOMAIN findings' <=> \E n \in 1..t : records[n].fail /\ Key(records[n]) = j
    BY <1>1, <1>2, <1>7, <2>1 DEF MergedByRecord
  <2>4. ASSUME NEW j \in DOMAIN findings', NEW n \in 1..t, records[n].fail, Key(records[n]) = j
        PROVE  Rank(findings'[j].severity) >= Rank(records[n].severity)
                 /\ Mappings(records[n]) \subseteq findings'[j].maps
    <3>1. CASE j # k
      BY <1>1, <1>2, <2>1, <2>4, <3>1 DEF MergedByRecord
    <3>2. CASE j = k /\ n = t
      BY <2>1, <2>b, <3>2
    <3>3. CASE j = k /\ n # t
      <4>1. Rank(old.severity) >= Rank(records[n].severity) /\ Mappings(records[n]) \subseteq old.maps
        BY <1>1, <1>2, <1>7, <2>4, <3>3 DEF MergedByRecord
      <4>2. Rank(records[n].severity) \in Nat
        BY <1>4
      <4>. QED  BY <2>1, <2>a, <2>b, <3>3, <4>1, <4>2
    <3>. QED  BY <3>1, <3>2, <3>3
  <2>5. \A j \in DOMAIN findings' : \E n \in 1..t :
          records[n].fail /\ Key(records[n]) = j /\ findings'[j].severity = records[n].severity
    BY <1>1, <1>2, <1>7, <2>0, <2>1, <2>b DEF MergedByRecord
  <2>6. ASSUME NEW j \in DOMAIN findings', NEW x \in findings'[j].maps
        PROVE  \E n \in 1..t : records[n].fail /\ Key(records[n]) = j /\ x \in Mappings(records[n])
    <3>1. CASE j # k \/ x \in old.maps
      <4>1. j \in DOMAIN findings /\ x \in findings[j].maps
        BY <1>7, <2>1, <2>6, <3>1
      <4>2. \E n \in 1..taken : records[n].fail /\ Key(records[n]) = j /\ x \in Mappings(records[n])
        BY <1>2, <4>1 DEF MergedByRecord
      <4>. QED  BY <1>1, <4>2
    <3>2. CASE j = k /\ x \in maps
      BY <1>1, <1>7, <3>2
    <3>. QED  BY <2>1, <2>6, <2>b, <3>1, <3>2
  <2>. QED  BY <1>1, <1>2, <2>3, <2>4, <2>5, <2>6 DEF MergedByRecord
<1>. QED  BY <1>5, <1>6, <1>7 DEF TakeProwler

(***************************************************************************)
(* Documents.                                                              *)
(***************************************************************************)

LEMMA HostTables ==
  /\ Controls("postgres") = PostgresControls /\ Controls("mysql") = MySQLControls
  /\ Controls("mssql") = MSSQLControls /\ Controls("windows_server") = WindowsControls
  BY DEF Controls

LEMMA HostsShow == \A s \in Hosts4 : \A f \in DOMAIN Controls(s) : Shows(Controls(s)[f])
  BY HostTables, PostgresShows, MySQLShows, MSSQLShows, WindowsShows DEF Hosts4

\* What a narrowed check still fails.
KeepsTo(S, h) ==
  /\ S # {} /\ ((\E c \in S : c[1] = h) => \A c \in S : c[1] = h)
  /\ h \in {"all", "soc2"} => S \cap FRAMEWORKS # {}

LEMMA ScopedKeeps ==
  ASSUME NEW S, NEW h, Shows(S)
  PROVE  KeepsTo(Scoped(S, h), h)
<1>. PICK own : own = {c \in S : c[1] = h}
  OBVIOUS
<1>1. S # {} /\ S \cap FRAMEWORKS # {}
  BY DEF Shows
<1>2. CASE own = {}
  <2>1. Scoped(S, h) = S
    BY <1>2 DEF Scoped
  <2>. QED  BY <1>1, <1>2, <2>1 DEF KeepsTo
<1>3. CASE own # {}
  <2>1. Scoped(S, h) = own
    BY <1>3 DEF Scoped
  <2>2. h = "all" => own = {}
    BY DEF Shows
  <2>3. h = "soc2" => own \cap FRAMEWORKS # {}
    BY <1>3 DEF Shows
  <2>. QED  BY <1>3, <2>1, <2>2, <2>3 DEF KeepsTo
<1>. QED  BY <1>2, <1>3

LEMMA FoundIs ==
  ASSUME NEW table, NEW failing \in SUBSET DOMAIN table, NEW h,
         \A f \in DOMAIN table : Shows(table[f])
  PROVE  /\ {r.setting : r \in Found(table, failing, h)} = failing
         /\ \A r \in Found(table, failing, h) : KeepsTo(r.maps, h)
<1>1. ASSUME NEW r \in Found(table, failing, h)
      PROVE  r.setting \in failing /\ r.maps = Scoped(table[r.setting], h)
  <2>. PICK f \in failing : r = [setting |-> f, maps |-> Scoped(table[f], h)]
    BY DEF Found
  <2>. QED  OBVIOUS
<1>2. ASSUME NEW f \in failing PROVE \E r \in Found(table, failing, h) : r.setting = f
  <2>. PICK r : r = [setting |-> f, maps |-> Scoped(table[f], h)]
    OBVIOUS
  <2>1. r \in Found(table, failing, h) /\ r.setting = f
    BY DEF Found
  <2>. QED  BY <2>1
<1>3. \A r \in Found(table, failing, h) : KeepsTo(r.maps, h)
  BY <1>1, ScopedKeeps
<1>. QED  BY <1>1, <1>2, <1>3

\* Document d says of a setting what there is, unless it could not be read; and
\* says of every weak one but the two of SQL Server that are never asked for.
ReadsRight(d) ==
  /\ DOMAIN d \subseteq DOMAIN Controls(system)
  /\ \A f \in DOMAIN d \ unread : d[f] = Level(f, weak)
  /\ \A f \in weak \ unread : f \in DOMAIN d \/ (system = "mssql" /\ f \in MSSQLNeverAsked)
  /\ system = "mssql" => MSSQLNeverAsked \cap DOMAIN d = {}

HostsTyped == system \in Hosts4 => weak \subseteq DOMAIN Controls(system)

LEMMA ScanReads ==
  ASSUME system \in Hosts4, HostsTyped, Scan(system) # <<>>
  PROVE  ReadsRight(Scan(system))
<1>. PICK d : d = Scan(system)
  OBVIOUS
<1>0. weak \subseteq DOMAIN Controls(system)
  BY DEF HostsTyped
<1>1. CASE system = "postgres"
  <2>1. d = ScanPostgres(weak, unread)
    BY <1>1 DEF Scan
  <2>2. d = [f \in DOMAIN PostgresControls |-> IF f \in unread THEN "null" ELSE Level(f, weak)]
    BY <2>1 DEF ScanPostgres
  <2>. QED  BY <1>0, <1>1, <2>2, HostTables DEF ReadsRight
<1>2. CASE system = "mysql"
  <2>1. d = ScanMySQL(weak, unread)
    BY <1>2 DEF Scan
  <2>2. DOMAIN d = DOMAIN MySQLControls /\ \A f \in DOMAIN d \ unread : d[f] = Level(f, weak)
    BY <2>1 DEF ScanMySQL
  <2>. QED  BY <1>0, <1>2, <2>2, HostTables DEF ReadsRight
<1>3. CASE system = "mssql"
  <2>1. d = ScanMSSQL(weak, unread)
    BY <1>3 DEF Scan
  <2>. PICK options : options = {"xp_cmdshell", "ole_automation_procedures", "clr_enabled", "cross_db_ownership_chaining"}
    OBVIOUS
  <2>2. /\ DOMAIN d = (DOMAIN MSSQLControls) \ (MSSQLNeverAsked \cup (unread \ options))
        /\ \A f \in DOMAIN d \ unread : d[f] = Level(f, weak)
    BY <2>1 DEF ScanMSSQL
  <2>. QED  BY <1>0, <1>3, <2>2, HostTables DEF ReadsRight
<1>4. CASE system = "windows_server"
  <2>1. d = ScanWindows(weak, unread)
    BY <1>4 DEF Scan
  <2>2. DOMAIN d = DOMAIN WindowsControls /\ \A f \in DOMAIN d \ unread : d[f] = Level(f, weak)
    BY <2>1 DEF ScanWindows
  <2>. QED  BY <1>0, <1>4, <2>2, HostTables DEF ReadsRight
<1>. QED  BY <1>1, <1>2, <1>3, <1>4 DEF Hosts4

\* What is raised about a host, from a document that reads it right.
LEMMA HostAssessed ==
  ASSUME system \in Hosts4, HostsTyped, ReadsRight(doc)
  PROVE  \E failing \in SUBSET DOMAIN Controls(system) :
           /\ Assessed(system, doc) = Found(Controls(system), failing, hint)
           /\ failing \ weak \subseteq unread \cup {"login_auditing"}
           /\ weak \ failing \subseteq unread \cup {"force_encryption"}
<1>. PICK gaps : gaps = {f \in DOMAIN doc : doc[f] = "gap"}
  OBVIOUS
<1>1. gaps \subseteq DOMAIN Controls(system) /\ gaps \ weak \subseteq unread
  BY DEF ReadsRight, Level
<1>2. \A f \in weak \ (gaps \cup unread) : system = "mssql" /\ f \in MSSQLNeverAsked
  BY DEF ReadsRight, Level
<1>3. CASE system = "postgres"
  <2>. PICK none : none = {f \in DOMAIN doc : f = "log_statement" /\ doc[f] = "null"}
    OBVIOUS
  <2>1. none \subseteq unread /\ none \subseteq DOMAIN Controls(system)
    BY DEF ReadsRight, Level
  <2>2. Assessed(system, doc) = Found(Controls(system), gaps \cup none, hint)
    BY <1>3, HostTables DEF Assessed, AssessPostgres
  <2>. QED  BY <1>1, <1>2, <1>3, <2>1, <2>2
<1>4. CASE system = "mysql"
  <2>1. Assessed(system, doc) = Found(Controls(system), gaps, hint)
    BY <1>4, HostTables DEF Assessed, AssessMySQL
  <2>. QED  BY <1>1, <1>2, <1>4, <2>1
<1>5. CASE system = "mssql"
  <2>. PICK absent : absent = {"login_auditing"} \ DOMAIN doc
    OBVIOUS
  <2>1. Assessed(system, doc) = Found(Controls(system), gaps \cup absent, hint)
    BY <1>5, HostTables DEF Assessed, AssessMSSQL
  <2>2. absent = {"login_auditing"}
    BY <1>5 DEF ReadsRight, MSSQLNeverAsked
  <2>3. "login_auditing" \in DOMAIN Controls(system)
    BY <1>5, HostTables DEF MSSQLControls
  <2>4. MSSQLNeverAsked = {"force_encryption", "login_auditing"}
    BY DEF MSSQLNeverAsked
  <2>. QED  BY <1>1, <1>2, <2>1, <2>2, <2>3, <2>4
<1>6. CASE system = "windows_server"
  <2>1. Assessed(system, doc) = Found(Controls(system), gaps, hint)
    BY <1>6, HostTables DEF Assessed, AssessWindows
  <2>. QED  BY <1>1, <1>2, <1>6, <2>1
<1>. QED  BY <1>3, <1>4, <1>5, <1>6 DEF Hosts4

\* What is known of the findings a document or a simulated system gives.
Told == GapsReported /\ HintKept /\ FailuresShown /\ RulesReported

LEMMA SystemsDiffer ==
  /\ Hosts4 \cap DOMAIN EVENT_TEMPLATES = {} /\ "paloalto" \notin DOMAIN EVENT_TEMPLATES
  /\ "paloalto" \notin Hosts4 /\ Clouds \cap (Hosts4 \cup {"paloalto", "linux"} \cup DOMAIN EVENT_TEMPLATES) = {}
  /\ "linux" \notin Hosts4 \cup {"paloalto"} \cup DOMAIN EVENT_TEMPLATES
<1>1. DOMAIN EVENT_TEMPLATES = {"network", "server", "identity", "cloud", "database", "siem"}
  BY DEF EVENT_TEMPLATES
<1>. QED  BY <1>1 DEF Hosts4, Clouds

LEMMA NothingRaised ==
  ASSUME raised' = {}, step' # "done"
  PROVE  Told'
  BY DEF Told, GapsReported, HintKept, FailuresShown, RulesReported

LEMMA SameRaised ==
  ASSUME Told, UNCHANGED <<system, hint, weak, unread, step, doc, raised>>
  PROVE  Told'
<1>1. GapsReported'
  BY DEF Told, GapsReported
<1>2. HintKept' /\ FailuresShown'
  BY DEF Told, HintKept, FailuresShown
<1>3. RulesReported'
  BY DEF Told, RulesReported
<1>. QED  BY <1>1, <1>2, <1>3 DEF Told

LEMMA HostTold ==
  ASSUME system \in Hosts4, HostsTyped, ReadsRight(doc), raised' = Assessed(system, doc),
         UNCHANGED <<system, hint, weak, unread, doc>>
  PROVE  Told'
<1>. PICK failing \in SUBSET DOMAIN Controls(system) :
       /\ Assessed(system, doc) = Found(Controls(system), failing, hint)
       /\ failing \ weak \subseteq unread \cup {"login_auditing"}
       /\ weak \ failing \subseteq unread \cup {"force_encryption"}
  BY HostAssessed
<1>1. /\ {r.setting : r \in raised'} = failing
      /\ \A r \in raised' : KeepsTo(r.maps, hint)
  BY HostsShow, FoundIs
<1>2. GapsReported'
  BY <1>1 DEF GapsReported
<1>3. HintKept'
  BY <1>1 DEF HintKept, KeepsTo
<1>4. FailuresShown'
  BY <1>1, SystemsDiffer DEF FailuresShown, KeepsTo
<1>5. RulesReported'
  BY SystemsDiffer DEF RulesReported
<1>. QED  BY <1>2, <1>3, <1>4, <1>5 DEF Told

LEMMA SimulatedTold ==
  ASSUME NEW category \in DOMAIN EVENT_TEMPLATES, Simulate(category)
  PROVE  Told'
<1>. PICK events : events = EVENT_TEMPLATES[category]
  OBVIOUS
<1>1. UNCHANGED <<system, hint>> /\ system = category
  BY DEF Simulate
<1>2. \A r \in raised' : Hits(r.maps)
  <2>1. PICK few \in SUBSET DOMAIN events :
          raised' = {[setting |-> <<category, n>>, maps |-> events[n]] : n \in few}
    BY DEF Simulate
  <2>2. \A n \in few : Hits(events[n])
    BY EventsShow
  <2>. QED  BY <2>1, <2>2
<1>3. FailuresShown'
  BY <1>2 DEF FailuresShown, Hits
<1>4. GapsReported' /\ HintKept' /\ RulesReported'
  BY <1>1, SystemsDiffer DEF GapsReported, HintKept, RulesReported
<1>. QED  BY <1>3, <1>4 DEF Told

LEMMA RulesFinite == IsFiniteSet(Rules)
<1>. PICK names, gaps : names = {"n1", "n2"} /\ gaps = {{}, {"rule_no_logging"}}
  OBVIOUS
<1>a. \A x, y : IsFiniteSet({x, y})
  <2>. SUFFICES ASSUME NEW x, NEW y PROVE IsFiniteSet({x, y})
    OBVIOUS
  <2>1. IsFiniteSet({x} \cup {y})
    BY FS_Singleton, FS_AddElement
  <2>2. {x, y} = {x} \cup {y}
    OBVIOUS
  <2>. QED  BY <2>1, <2>2
<1>1. IsFiniteSet(names) /\ IsFiniteSet(BOOLEAN) /\ IsFiniteSet(gaps)
  <2>1. BOOLEAN = {TRUE, FALSE}
    OBVIOUS
  <2>. QED  BY <1>a, <2>1
<1>2. IsFiniteSet(names \X (BOOLEAN \X gaps))
  BY <1>1, FS_Product
<1>. PICK f : f = [r \in Rules |-> <<r.name, <<r.allow, r.gaps>>>>]
  OBVIOUS
<1>3. f \in [Rules -> names \X (BOOLEAN \X gaps)]
  BY DEF Rules
<1>4. ASSUME NEW r \in Rules, NEW s \in Rules, f[r] = f[s] PROVE r = s
  <2>1. r.name = s.name /\ r.allow = s.allow /\ r.gaps = s.gaps
    BY <1>4
  <2>. QED  BY <2>1 DEF Rules
<1>5. f \in Injection(Rules, names \X (BOOLEAN \X gaps))
  <2>. PICK T : T = names \X (BOOLEAN \X gaps)
    OBVIOUS
  <2>1. f \in [Rules -> T] /\ IsInjective(f)
    BY <1>3, <1>4 DEF IsInjective
  <2>. QED  BY <2>1 DEF Injection
<1>. QED  BY <1>2, <1>5, FS_Injection

\* What is raised about a firewall: of a check and a rule, or of how it is
\* managed.
LEMMA PaloAltoRaises ==
  ASSUME NEW rules, NEW restricted, NEW insecure, NEW h, NEW R,
         R = AssessPaloAlto(rules, restricted, insecure, h)
  PROVE  /\ \A r \in R : /\ r.setting[1] \in DOMAIN PaloAltoControls
                         /\ r.maps = Scoped(PaloAltoControls[r.setting[1]], h)
         /\ \A r \in R : r.setting[1] = "rule_no_logging" =>
              \E u \in rules : u.allow /\ "rule_no_logging" \in u.gaps
                                 /\ r.setting = <<"rule_no_logging", u.name>>
         /\ \A r \in R : r = [setting |-> r.setting, maps |-> r.maps]
         /\ \A u \in rules : u.allow /\ "rule_no_logging" \in u.gaps =>
              [setting |-> <<"rule_no_logging", u.name>>,
               maps |-> Scoped(PaloAltoControls["rule_no_logging"], h)] \in R
<1>. PICK checks : checks = DOMAIN PaloAltoControls
  OBVIOUS
<1>0. /\ {"rule_no_logging", "mgmt_not_restricted", "insecure_mgmt_service"} \subseteq checks
  BY DEF PaloAltoControls
<1>. PICK pairs : pairs = {q \in checks \X rules : q[2].allow /\ q[1] \in q[2].gaps}
  OBVIOUS
<1>. PICK failed : failed = {<<p[1], p[2].name>> : p \in pairs}
                \cup (IF restricted THEN {} ELSE {<<"mgmt_not_restricted", "mgmt">>})
                \cup {<<"insecure_mgmt_service", p>> : p \in insecure}
  OBVIOUS
<1>1. R = {[setting |-> k, maps |-> Scoped(PaloAltoControls[k[1]], h)] : k \in failed}
  BY DEF AssessPaloAlto
<1>2. ASSUME NEW k \in failed
      PROVE  /\ k[1] \in checks
             /\ k[1] = "rule_no_logging" =>
                  \E u \in rules : u.allow /\ "rule_no_logging" \in u.gaps /\ k = <<"rule_no_logging", u.name>>
  <2>1. CASE \E p \in pairs : k = <<p[1], p[2].name>>
    <3>. PICK p \in pairs : k = <<p[1], p[2].name>>
      BY <2>1
    <3>. PICK c, u : c = p[1] /\ u = p[2]
      OBVIOUS
    <3>1. c \in checks /\ u \in rules /\ u.allow /\ c \in u.gaps /\ k = <<c, u.name>> /\ k[1] = c
      OBVIOUS
    <3>. QED  BY <3>1
  <2>2. CASE k = <<"mgmt_not_restricted", "mgmt">> \/ \E p \in insecure : k = <<"insecure_mgmt_service", p>>
    BY <1>0, <2>2
  <2>. QED  BY <2>1, <2>2
<1>3. ASSUME NEW u \in rules, u.allow, "rule_no_logging" \in u.gaps
      PROVE  <<"rule_no_logging", u.name>> \in failed
  <2>. PICK p : p = <<"rule_no_logging", u>>
    OBVIOUS
  <2>1. p \in checks \X rules /\ p[1] = "rule_no_logging" /\ p[2] = u
    BY <1>0
  <2>2. p \in pairs
    BY <1>3, <2>1
  <2>. QED  BY <2>1, <2>2
<1>4. ASSUME NEW r \in R
      PROVE  \E k \in failed : /\ r.setting = k /\ r.maps = Scoped(PaloAltoControls[k[1]], h)
                               /\ r = [setting |-> r.setting, maps |-> r.maps]
  <2>. PICK k \in failed : r = [setting |-> k, maps |-> Scoped(PaloAltoControls[k[1]], h)]
    BY <1>1
  <2>. QED  OBVIOUS
<1>5. ASSUME NEW u \in rules, u.allow, "rule_no_logging" \in u.gaps
      PROVE  [setting |-> <<"rule_no_logging", u.name>>,
              maps |-> Scoped(PaloAltoControls["rule_no_logging"], h)] \in R
  <2>. PICK k : k = <<"rule_no_logging", u.name>>
    OBVIOUS
  <2>1. k \in failed /\ k[1] = "rule_no_logging"
    BY <1>3, <1>5
  <2>. QED  BY <1>1, <2>1
<1>. QED  BY <1>2, <1>4, <1>5

LEMMA FirewallTold ==
  ASSUME system = "paloalto", doc.rules \in SUBSET Rules, raised' = Assessed(system, doc),
         UNCHANGED <<system, hint, weak, unread, doc>>
  PROVE  Told'
<1>. PICK rules, h, R : rules = doc.rules /\ h = hint /\ R = raised'
  OBVIOUS
<1>0. R = AssessPaloAlto(rules, doc.restricted, doc.insecure, h)
  BY DEF Assessed
<1>1. \A r \in R : KeepsTo(r.maps, h)
  BY <1>0, PaloAltoRaises, PaloAltoShows, ScopedKeeps
<1>2. HintKept'
  BY <1>1 DEF HintKept, KeepsTo
<1>3. FailuresShown'
  BY <1>1, SystemsDiffer DEF FailuresShown, KeepsTo
<1>4. GapsReported'
  BY SystemsDiffer DEF GapsReported
<1>5. ASSUME \A r \in rules, s \in rules : r.name = s.name => r = s
      PROVE  Cardinality({r \in R : r.setting[1] = "rule_no_logging"}) =
               Cardinality({r \in rules : r.allow /\ "rule_no_logging" \in r.gaps})
  <2>. PICK S, T : S = {r \in rules : r.allow /\ "rule_no_logging" \in r.gaps}
                     /\ T = {r \in R : r.setting[1] = "rule_no_logging"}
    OBVIOUS
  <2>. PICK maps : maps = Scoped(PaloAltoControls["rule_no_logging"], h)
    OBVIOUS
  <2>. PICK f : f = [u \in S |-> [setting |-> <<"rule_no_logging", u.name>>, maps |-> maps]]
    OBVIOUS
  <2>1. ASSUME NEW u \in S PROVE f[u] \in T /\ f[u].setting[2] = u.name
    BY <1>0, PaloAltoRaises
  <2>2. ASSUME NEW r \in T PROVE \E u \in S : f[u] = r
    <3>1. PICK u \in rules : u.allow /\ "rule_no_logging" \in u.gaps /\ r.setting = <<"rule_no_logging", u.name>>
      BY <1>0, PaloAltoRaises
    <3>2. r = [setting |-> r.setting, maps |-> r.maps] /\ r.maps = maps
      BY <1>0, PaloAltoRaises
    <3>. QED  BY <3>1, <3>2
  <2>3. f \in [S -> T]
    BY <2>1
  <2>4. \A u \in S, v \in S : f[u] = f[v] => u = v
    BY <1>5, <2>1
  <2>5. f \in Bijection(S, T)
    <3>1. IsInjective(f)
      BY <2>3, <2>4 DEF IsInjective
    <3>2. f \in Injection(S, T)
      BY <2>3, <3>1 DEF Injection
    <3>3. f \in Surjection(S, T)
      BY <2>2, <2>3 DEF Surjection
    <3>. QED  BY <3>2, <3>3 DEF Bijection
  <2>6. IsFiniteSet(S)
    BY RulesFinite, FS_Subset
  <2>. QED  BY <2>5, <2>6, FS_Bijection DEF ExistsBijection
<1>6. RulesReported'
  BY <1>5 DEF RulesReported
<1>. QED  BY <1>2, <1>3, <1>4, <1>6 DEF Told

(***************************************************************************)
(* Assessment: the inductive invariant.                                    *)
(***************************************************************************)

\* A document that waits to be assessed reads its host right; a firewall's holds
\* rules.
DocRight ==
  step = "collected" =>
    /\ system \in Hosts4 => ReadsRight(doc)
    /\ system = "paloalto" => doc.rules \in SUBSET Rules

AssessmentInv ==
  /\ RecordsTyped /\ KeyKept /\ MergedByRecord /\ HostsTyped /\ DocRight /\ Told
  /\ step # "done" => raised = {}

LEMMA OutputsAre == Outputs \subseteq Seq(Records)
  BY SeqDef, AssessmentAssumption DEF Outputs

LEMMA AssessmentBegins == AssessmentInit => AssessmentInv
<1>. SUFFICES ASSUME AssessmentInit PROVE AssessmentInv
  OBVIOUS
<1>1. RecordsTyped /\ KeyKept
  BY DEF AssessmentInit, RecordsTyped, KeyKept
<1>2. MergedByRecord
  BY DEF AssessmentInit, MergedByRecord
<1>3. HostsTyped
  BY DEF AssessmentInit, HostsTyped, AtMost
<1>4. DocRight /\ raised = {}
  BY DEF AssessmentInit, DocRight
<1>5. Told
  BY <1>4 DEF AssessmentInit, Told, GapsReported, HintKept, FailuresShown, RulesReported
<1>. QED  BY <1>1, <1>2, <1>3, <1>4, <1>5 DEF AssessmentInv

\* A scan that has not begun or only runs has no records to keep.
LEMMA NotYet ==
  ASSUME AssessmentInv, step \in {"asked", "running"}
  PROVE  records = <<>> /\ taken = 0 /\ findings = <<>> /\ raised = {}
  BY DEF AssessmentInv, RecordsTyped

\* A step of the documents, that leaves the records alone.
LEMMA DocumentStep ==
  ASSUME AssessmentInv, step = "asked", step' \in {"collected", "error", "done"},
         UNCHANGED <<system, hint, weak, unread, records, taken, findings, keyFile>>
  PROVE  RecordsTyped' /\ KeyKept' /\ MergedByRecord' /\ HostsTyped'
<1>1. MergedByRecord'
  BY SameRecords DEF AssessmentInv
<1>2. RecordsTyped' /\ KeyKept' /\ HostsTyped'
  BY DEF AssessmentInv, RecordsTyped, KeyKept, HostsTyped
<1>. QED  BY <1>1, <1>2

\* A step of the records before any is taken in.
LEMMA ScannerStep ==
  ASSUME AssessmentInv, step \in {"asked", "running"}, step' # "done",
         system \notin Hosts4 \cup {"paloalto"},
         records' \in Seq(Records), step' \in {"asked", "running"} => records' = <<>>,
         UNCHANGED <<system, hint, weak, unread, doc, raised, taken, findings>>, KeyKept'
  PROVE  AssessmentInv'
<1>1. raised' = {} /\ taken' = 0 /\ findings' = <<>>
  BY NotYet
<1>2. MergedByRecord' /\ Told'
  BY <1>1, NoneTaken, NothingRaised
<1>3. RecordsTyped'
  BY <1>1 DEF RecordsTyped
<1>4. HostsTyped' /\ DocRight'
  BY DEF HostsTyped, DocRight
<1>. QED  BY <1>1, <1>2, <1>3, <1>4 DEF AssessmentInv

LEMMA SimulateStep ==
  ASSUME AssessmentInv, NEW category \in DOMAIN EVENT_TEMPLATES, Simulate(category)
  PROVE  AssessmentInv'
<1>1. RecordsTyped' /\ KeyKept' /\ MergedByRecord' /\ HostsTyped'
  BY DocumentStep DEF Simulate
<1>2. Told'
  BY SimulatedTold
<1>3. DocRight' /\ step' = "done"
  BY DEF DocRight, Simulate
<1>. QED  BY <1>1, <1>2, <1>3 DEF AssessmentInv

LEMMA HostScanStep ==
  ASSUME AssessmentInv, AgentScan \/ AgentFails \/ Upload
  PROVE  AssessmentInv'
<1>1. /\ step = "asked" /\ step' \in {"collected", "error"} /\ system \in Hosts4
      /\ UNCHANGED <<system, hint, weak, unread, raised, records, taken, findings, keyFile>>
  BY DEF AgentScan, AgentFails, Upload, Hosts4
<1>2. RecordsTyped' /\ KeyKept' /\ MergedByRecord' /\ HostsTyped'
  BY <1>1, DocumentStep
<1>3. raised' = {} /\ Told'
  BY <1>1, NotYet, NothingRaised
<1>4. ASSUME step' = "collected" PROVE ReadsRight(doc')
  <2>1. CASE AgentScan
    <3>1. Scan(system) # <<>> /\ doc' = Scan(system)
      BY <1>4, <2>1 DEF AgentScan
    <3>. QED  BY <1>1, <3>1, ScanReads DEF AssessmentInv
  <2>2. CASE AgentFails
    BY <1>4, <2>2 DEF AgentFails
  <2>3. CASE Upload
    <3>1. doc' = [f \in (DOMAIN Controls(system)) \ unread |-> Level(f, weak)] /\ system # "mssql"
      BY <2>3 DEF Upload
    <3>2. weak \subseteq DOMAIN Controls(system)
      BY <1>1 DEF AssessmentInv, HostsTyped
    <3>. QED  BY <3>1, <3>2 DEF ReadsRight
  <2>. QED  BY <2>1, <2>2, <2>3
<1>5. DocRight'
  BY <1>1, <1>4, SystemsDiffer DEF DocRight, ReadsRight
<1>. QED  BY <1>2, <1>3, <1>5 DEF AssessmentInv

LEMMA FirewallStep ==
  ASSUME AssessmentInv, NEW rules \in SUBSET Rules, NEW restricted, NEW insecure,
         RunPaloAlto(rules, restricted, insecure)
  PROVE  AssessmentInv'
<1>1. /\ step = "asked" /\ step' = "collected" /\ system = "paloalto"
      /\ UNCHANGED <<system, hint, weak, unread, raised, records, taken, findings, keyFile>>
      /\ doc'.rules = rules
  BY DEF RunPaloAlto
<1>2. RecordsTyped' /\ KeyKept' /\ MergedByRecord' /\ HostsTyped'
  BY <1>1, DocumentStep
<1>3. raised' = {} /\ Told'
  BY <1>1, NotYet, NothingRaised
<1>4. DocRight'
  BY <1>1, SystemsDiffer DEF DocRight
<1>. QED  BY <1>2, <1>3, <1>4 DEF AssessmentInv

LEMMA AssessStep ==
  ASSUME AssessmentInv, Assess
  PROVE  AssessmentInv'
<1>1. /\ step = "collected" /\ step' = "done" /\ raised' = Assessed(system, doc)
      /\ UNCHANGED <<system, hint, weak, unread, doc, records, taken, findings, keyFile>>
      /\ system \in Hosts4 \cup {"paloalto"}
  BY DEF Assess
<1>2. Told'
  BY <1>1, HostTold, FirewallTold DEF AssessmentInv, DocRight
<1>3. MergedByRecord'
  BY <1>1, SameRecords DEF AssessmentInv
<1>4. RecordsTyped' /\ KeyKept' /\ HostsTyped' /\ DocRight'
  BY <1>1 DEF AssessmentInv, RecordsTyped, KeyKept, HostsTyped, DocRight
<1>. QED  BY <1>1, <1>2, <1>3, <1>4 DEF AssessmentInv

LEMMA KilledStep ==
  ASSUME AssessmentInv, Killed
  PROVE  AssessmentInv'
<1>1. /\ step = "running" /\ step' = "killed"
      /\ UNCHANGED <<system, hint, weak, unread, doc, raised, records, taken, findings, keyFile>>
  BY DEF Killed
<1>2. raised' = {} /\ Told'
  BY <1>1, NotYet, NothingRaised
<1>3. MergedByRecord'
  BY <1>1, SameRecords DEF AssessmentInv
<1>4. RecordsTyped' /\ KeyKept' /\ HostsTyped' /\ DocRight'
  BY <1>1 DEF AssessmentInv, RecordsTyped, KeyKept, HostsTyped, DocRight
<1>. QED  BY <1>2, <1>3, <1>4 DEF AssessmentInv

LEMMA BeginsStep ==
  ASSUME AssessmentInv, NEW s \in Clouds \cup {"linux"}, NEW given, NEW key,
         key => s = "gcp" /\ given, ScannerBegins(s, given, key)
  PROVE  AssessmentInv'
<1>1. /\ step = "asked" /\ system = s /\ step' = IF given THEN "running" ELSE "error"
      /\ keyFile' = key
      /\ UNCHANGED <<system, hint, weak, unread, doc, raised, records, taken, findings>>
  BY DEF ScannerBegins
<1>2. KeyKept'
  BY <1>1 DEF KeyKept
<1>3. system \notin Hosts4 \cup {"paloalto"}
  BY <1>1, SystemsDiffer
<1>4. records' = <<>> /\ records' \in Seq(Records)
  BY <1>1, NotYet
<1>. QED  BY <1>1, <1>2, <1>3, <1>4, ScannerStep

LEMMA EndsStep ==
  ASSUME AssessmentInv, NEW s \in Clouds \cup {"linux"}, NEW output \in Outputs,
         ScannerEnds(s, output), keyFile' = FALSE \/ (s # "gcp" /\ UNCHANGED keyFile)
  PROVE  AssessmentInv'
<1>1. /\ step = "running" /\ system = s /\ step' \in {"error", "collected"}
      /\ records' = output
      /\ UNCHANGED <<system, hint, weak, unread, doc, raised, taken, findings>>
  BY DEF ScannerEnds
<1>2. KeyKept'
  BY <1>1 DEF AssessmentInv, KeyKept
<1>3. system \notin Hosts4 \cup {"paloalto"}
  BY <1>1, SystemsDiffer
<1>4. records' \in Seq(Records)
  BY <1>1, OutputsAre
<1>. QED  BY <1>1, <1>2, <1>3, <1>4, ScannerStep

LEMMA LinuxStep ==
  ASSUME AssessmentInv, NEW content \in BOOLEAN, NEW output \in Outputs, ScanLinux(content, output)
  PROVE  AssessmentInv'
<1>1. /\ step = "asked" /\ system = "linux" /\ step' \in {"error", "collected"}
      /\ records' \in {output, <<>>}
      /\ UNCHANGED <<system, hint, weak, unread, doc, raised, taken, findings, keyFile>>
  BY DEF ScanLinux
<1>2. KeyKept'
  BY <1>1 DEF AssessmentInv, KeyKept
<1>3. system \notin Hosts4 \cup {"paloalto"}
  BY <1>1, SystemsDiffer
<1>4. records' \in Seq(Records)
  BY <1>1, OutputsAre, EmptySeq
<1>. QED  BY <1>1, <1>2, <1>3, <1>4, ScannerStep

LEMMA TakeStep ==
  ASSUME AssessmentInv, taken < Len(records), NEW r, r = records[taken + 1],
         TakeProwler(r) \/ TakeOpenSCAP(r)
  PROVE  AssessmentInv'
<1>1. /\ step = "collected" /\ taken' = taken + 1
      /\ UNCHANGED <<system, hint, weak, unread, step, doc, raised, records, keyFile>>
  BY DEF TakeProwler, TakeOpenSCAP, TakeNext
<1>2. Told'
  BY <1>1, SameRaised DEF AssessmentInv
<1>3. MergedByRecord'
  <2>1. CASE TakeProwler(r)
    BY <2>1, Taken DEF AssessmentInv
  <2>2. CASE TakeOpenSCAP(r)
    BY <1>1, <2>2 DEF TakeOpenSCAP, MergedByRecord, Clouds
  <2>. QED  BY <2>1, <2>2
<1>4. RecordsTyped'
  BY <1>1 DEF AssessmentInv, RecordsTyped
<1>5. KeyKept' /\ HostsTyped'
  BY <1>1 DEF AssessmentInv, KeyKept, HostsTyped
<1>6. DocRight'
  BY <1>1 DEF AssessmentInv, DocRight, ReadsRight
<1>. QED  BY <1>1, <1>2, <1>3, <1>4, <1>5, <1>6 DEF AssessmentInv

LEMMA AssessmentStutters ==
  ASSUME AssessmentInv, UNCHANGED assessVars
  PROVE  AssessmentInv'
<1>1. UNCHANGED <<system, hint, weak, unread, step, doc, raised, records, taken, findings, keyFile>>
  BY DEF assessVars
<1>2. Told' /\ MergedByRecord'
  BY <1>1, SameRaised, SameRecords DEF AssessmentInv
<1>3. RecordsTyped' /\ KeyKept' /\ HostsTyped' /\ DocRight'
  BY <1>1 DEF AssessmentInv, RecordsTyped, KeyKept, HostsTyped, DocRight, ReadsRight
<1>. QED  BY <1>1, <1>2, <1>3 DEF AssessmentInv

LEMMA AssessmentSteps == AssessmentInv /\ [AssessmentNext]_assessVars => AssessmentInv'
<1>. SUFFICES ASSUME AssessmentInv, [AssessmentNext]_assessVars PROVE AssessmentInv'
  OBVIOUS
<1>1. CASE \E category \in DOMAIN EVENT_TEMPLATES : Simulate(category)
  BY <1>1, SimulateStep
<1>2. CASE AgentScan \/ AgentFails \/ Upload
  BY <1>2, HostScanStep
<1>3. CASE Assess \/ Killed
  BY <1>3, AssessStep, KilledStep
<1>4. CASE \E rules \in AtMost(MaxRules, Rules), restricted \in BOOLEAN, insecure \in SUBSET {"http", "telnet"} :
             RunPaloAlto(rules, restricted, insecure)
  BY <1>4, FirewallStep DEF AtMost
<1>5. CASE ProwlerAWSBegins \/ \E given \in BOOLEAN :
             ProwlerAzureBegins(given) \/ ProwlerGCPBegins(given) \/ OpenSCAPBegins(given)
  <2>1. "aws" \in Clouds /\ "azure" \in Clouds /\ "gcp" \in Clouds
    BY DEF Clouds
  <2>2. CASE ProwlerAWSBegins
    BY <2>1, <2>2, BeginsStep DEF ProwlerAWSBegins
  <2>3. ASSUME NEW given \in BOOLEAN, ProwlerAzureBegins(given) PROVE AssessmentInv'
    BY <2>1, <2>3, BeginsStep DEF ProwlerAzureBegins
  <2>4. ASSUME NEW given \in BOOLEAN, ProwlerGCPBegins(given) PROVE AssessmentInv'
    BY <2>1, <2>4, BeginsStep DEF ProwlerGCPBegins
  <2>5. ASSUME NEW given \in BOOLEAN, OpenSCAPBegins(given) PROVE AssessmentInv'
    BY <2>5, BeginsStep DEF OpenSCAPBegins
  <2>. QED  BY <1>5, <2>2, <2>3, <2>4, <2>5
<1>6. CASE \E output \in Outputs :
             \/ ProwlerAWSEnds(output) \/ ProwlerAzureEnds(output) \/ ProwlerGCPEnds(output)
             \/ OpenSCAPEnds(output)
  <2>1. /\ "aws" \in Clouds /\ "azure" \in Clouds /\ "gcp" \in Clouds
        /\ "aws" # "gcp" /\ "azure" # "gcp" /\ "linux" # "gcp"
    BY DEF Clouds
  <2>. PICK output \in Outputs : \/ ProwlerAWSEnds(output) \/ ProwlerAzureEnds(output)
                                 \/ ProwlerGCPEnds(output) \/ OpenSCAPEnds(output)
    BY <1>6
  <2>2. CASE ProwlerAWSEnds(output)
    BY <2>1, <2>2, EndsStep DEF ProwlerAWSEnds
  <2>3. CASE ProwlerAzureEnds(output)
    BY <2>1, <2>3, EndsStep DEF ProwlerAzureEnds
  <2>4. CASE ProwlerGCPEnds(output)
    BY <2>1, <2>4, EndsStep DEF ProwlerGCPEnds
  <2>5. CASE OpenSCAPEnds(output)
    BY <2>1, <2>5, EndsStep DEF OpenSCAPEnds
  <2>. QED  BY <2>2, <2>3, <2>4, <2>5
<1>7. CASE \E output \in Outputs, content \in BOOLEAN : ScanLinux(content, output)
  BY <1>7, LinuxStep
<1>8. CASE taken < Len(records) /\ \E r \in {records[taken + 1]} : TakeProwler(r) \/ TakeOpenSCAP(r)
  BY <1>8, TakeStep
<1>9. CASE UNCHANGED assessVars
  BY <1>9, AssessmentStutters
<1>. QED  BY <1>1, <1>2, <1>3, <1>4, <1>5, <1>6, <1>7, <1>8, <1>9 DEF AssessmentNext

LEMMA AssessmentInvMeans == AssessmentInv => ScansFaithful
<1>1. AssessmentInv => KeyRemoved
  BY DEF AssessmentInv, KeyKept, KeyRemoved
<1>. QED  BY <1>1, MergedMeans DEF AssessmentInv, Told, ScansFaithful

LEMMA AssessmentTypes ==
  ASSUME AssessmentInv, AssessmentTypeOK, [AssessmentNext]_assessVars
  PROVE  AssessmentTypeOK'
<1>1. AssessmentInv'
  BY AssessmentSteps
<1>2. taken' \in 0..Len(records')
  BY <1>1 DEF AssessmentInv, RecordsTyped
<1>3. UNCHANGED <<system, hint, weak, unread>>
  BY DEF AssessmentNext, assessVars, Simulate, AgentScan, AgentFails, Upload, Assess, Killed, RunPaloAlto,
         ProwlerAWSBegins, ProwlerAzureBegins, ProwlerGCPBegins, OpenSCAPBegins, ScannerBegins,
         ProwlerAWSEnds, ProwlerAzureEnds, ProwlerGCPEnds, OpenSCAPEnds, ScannerEnds, ScanLinux,
         TakeProwler, TakeOpenSCAP, TakeNext
<1>4. step' \in {step, "running", "collected", "done", "error", "killed"} /\ keyFile' \in {keyFile} \cup BOOLEAN
  <2>1. CASE AgentScan \/ AgentFails \/ Upload \/ Assess \/ Killed \/ UNCHANGED assessVars
    BY <2>1 DEF AgentScan, AgentFails, Upload, Assess, Killed, assessVars
  <2>2. CASE \E category \in DOMAIN EVENT_TEMPLATES : Simulate(category)
    BY <2>2 DEF Simulate
  <2>3. CASE \E rules \in AtMost(MaxRules, Rules), restricted \in BOOLEAN, insecure \in SUBSET {"http", "telnet"} :
               RunPaloAlto(rules, restricted, insecure)
    BY <2>3 DEF RunPaloAlto
  <2>4. CASE ProwlerAWSBegins \/ \E given \in BOOLEAN :
               ProwlerAzureBegins(given) \/ ProwlerGCPBegins(given) \/ OpenSCAPBegins(given)
    BY <2>4 DEF ProwlerAWSBegins, ProwlerAzureBegins, ProwlerGCPBegins, OpenSCAPBegins, ScannerBegins
  <2>5. CASE \E output \in Outputs :
               \/ ProwlerAWSEnds(output) \/ ProwlerAzureEnds(output) \/ ProwlerGCPEnds(output)
               \/ OpenSCAPEnds(output)
    BY <2>5 DEF ProwlerAWSEnds, ProwlerAzureEnds, ProwlerGCPEnds, OpenSCAPEnds, ScannerEnds
  <2>6. CASE \E output \in Outputs, content \in BOOLEAN : ScanLinux(content, output)
    BY <2>6 DEF ScanLinux
  <2>7. CASE \E r \in {records[taken + 1]} : TakeProwler(r) \/ TakeOpenSCAP(r)
    BY <2>7 DEF TakeProwler, TakeOpenSCAP, TakeNext
  <2>. QED  BY <2>1, <2>2, <2>3, <2>4, <2>5, <2>6, <2>7 DEF AssessmentNext
<1>. QED  BY <1>2, <1>3, <1>4 DEF AssessmentTypeOK

LEMMA AssessmentBeginsTyped == AssessmentInit => AssessmentTypeOK
<1>. SUFFICES ASSUME AssessmentInit PROVE AssessmentTypeOK
  OBVIOUS
<1>1. taken \in 0..Len(records) /\ keyFile \in BOOLEAN
  <2>1. records = <<>> /\ taken = 0 /\ keyFile = FALSE
    BY DEF AssessmentInit
  <2>2. Len(records) = 0
    BY <2>1
  <2>3. taken \in 0..Len(records)
    BY <2>1, <2>2
  <2>. QED  BY <2>1, <2>3
<1>2. system \in Systems /\ hint \in Hints /\ step = "asked" /\ (system \notin Hosts4 => weak = {} /\ unread = {})
  BY DEF AssessmentInit
<1>. QED  BY <1>1, <1>2 DEF AssessmentTypeOK

\* What a scan reports is what there was to report, for every host, firewall,
\* cloud and event category (app/connectors and the agents' scanners): a weak
\* setting that was read is a finding and a good one is none, narrowed to the
\* framework of the scan; a cloud's records, however many and in whatever order,
\* are one finding for each check and resource that failed; and no service
\* account's key is left on disk by a scan that ended.
THEOREM AssessmentInvariance == AssessmentSpec => [](AssessmentTypeOK /\ ScansFaithful)
<1>1. AssessmentInit => AssessmentInv /\ AssessmentTypeOK
  BY AssessmentBegins, AssessmentBeginsTyped
<1>2. AssessmentInv /\ AssessmentTypeOK /\ [AssessmentNext]_assessVars => (AssessmentInv /\ AssessmentTypeOK)'
  BY AssessmentSteps, AssessmentTypes
<1>. QED  BY <1>1, <1>2, AssessmentInvMeans, PTL DEF AssessmentSpec
===============================================================================
