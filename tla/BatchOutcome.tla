---------------------------- MODULE BatchOutcome ----------------------------
(***************************************************************************)
(* A batch from its plan to its collections: BatchPlan followed by         *)
(* CollectBatch (and through it the runner's ledger and revalidate).       *)
(* Every command of the second part begins with load_batch_plan.           *)
(***************************************************************************)
EXTENDS CollectBatch, BatchPlan

outcomeVars == <<planVars, allVars>>

\* The plan can be loaded.  Bounds of the instance: the plans that go on have
\* the shards of its ledger and, of the plans that differ in the names of
\* their records only, the first names; and the planners that lost the race,
\* which share nothing with the rest, have noticed.
Usable ==
  /\ \A p \in Planners : phase[p] = "idle"
  /\ DOMAIN folder.shards = Shards
  /\ folder.asked = 1..folder.count
  /\ Loads(folder)

OutcomeInit == PlanInit /\ CollectInit

OutcomeNext ==
  \/ PlanNext /\ UNCHANGED allVars
  \/ Usable /\ CollectNext /\ UNCHANGED planVars

OutcomeSpec == OutcomeInit /\ [][OutcomeNext]_outcomeVars

OutcomeTypeOK == PlanTypeOK /\ CollectTypeOK

\* The outputs of a profile that answer a record.
Answers(profile, record) ==
  {s \in Shards : /\ record \in folder.shards[s]
                  /\ result.taken[<<profile, s>>] # NoTake}

\* "fail closed on coverage", end to end: a sealed PASS answers every record
\* of the membership the plan was asked for exactly once per profile.
PassAnswersEveryRecord ==
  result.status = "PASS" =>
    \A profile \in Profiles, record \in folder.asked :
      Cardinality(Answers(profile, record)) = 1
=============================================================================
