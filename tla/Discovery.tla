----------------------------- MODULE Discovery -----------------------------
(***************************************************************************)
(* Day-0 discovery: the reducer's projection of the discovery events       *)
(* (internal/state), and the read-only analysis that folds the same        *)
(* journal a second time and lists what blocks specification readiness     *)
(* (internal/principal/discovery).  The ledger and the problem model are   *)
(* records stored without their events, so the analysis may meet any.      *)
(***************************************************************************)
EXTENDS Naturals, FiniteSets

CONSTANTS
  Models, Ambiguities, Decisions,
  MaxRevision,   \* bound on problem model revisions
  NoName         \* the empty string

ASSUME MaxRevisionAssumption == MaxRevision \in Nat \ {0}

ASSUME NoNameAssumption == NoName \notin Models \cup Ambiguities \cup Decisions

VARIABLES
  problem,     \* [id, revision, unverified] of the current problem model
  openAmb,     \* openAmbiguities
  decided,     \* productDecisionStatus
  requirement, \* the status of one requirement
  verdict,     \* the recorded readiness: [ref, revision]
  judged,      \* the model the recorded readiness names, which is not kept
  replaced,    \* another model became current since
  fold         \* what foldJournal makes of the same events

discoveryVars == <<problem, openAmb, decided, requirement, verdict, judged,
                   replaced, fold>>

Revisions == 1 .. MaxRevision

(* Whether only the human can settle it, and whether it is material        *)
(* (architectural_impact medium or higher).                                *)
Question == [human : BOOLEAN, material : BOOLEAN]
NoQuestion == [human |-> FALSE, material |-> FALSE, none |-> TRUE]

DecisionStatuses == {"confirmed", "superseded", "withdrawn"}

InitDiscovery ==
  /\ problem = [id |-> NoName, revision |-> 0, unverified |-> 0]
  /\ openAmb = [a \in Ambiguities |-> NoQuestion]
  /\ decided = [d \in Decisions |-> "none"]
  /\ requirement = "none"
  /\ verdict = [ref |-> FALSE, revision |-> 0]
  /\ judged = NoName /\ replaced = FALSE
  /\ fold = [open |-> openAmb, decided |-> decided, anomaly |-> FALSE]

IsOpen(a) == openAmb[a] # NoQuestion

-----------------------------------------------------------------------------
(* The second fold: anomalies are reported, nothing is refused.            *)

FoldOpened(f, a, q) ==
  [f EXCEPT !.open[a] = q, !.anomaly = f.anomaly \/ f.open[a] # NoQuestion]

FoldResolved(f, a) ==
  [f EXCEPT !.open[a] = NoQuestion, !.anomaly = f.anomaly \/ f.open[a] = NoQuestion]

FoldDecision(f, d, status, supersedes, resolves) ==
  LET g == IF resolves = NoName THEN f ELSE FoldResolved(f, resolves) IN
  [g EXCEPT !.decided = [e \in Decisions |->
     CASE e = d -> status [] e # d /\ e = supersedes -> "superseded"
       [] OTHER -> g.decided[e]]]

-----------------------------------------------------------------------------
(* The reducer.                                                            *)

ProblemModelRevised(m, r, unverified) ==
  /\ ~(problem.id = m /\ r <= problem.revision)
  /\ problem' = [id |-> m, revision |-> r, unverified |-> unverified]
  /\ replaced' = (replaced \/ (verdict.ref /\ m # judged))
  /\ UNCHANGED <<openAmb, decided, requirement, verdict, judged, fold>>

AmbiguityOpened(a, q) ==
  /\ ~IsOpen(a)
  /\ openAmb' = [openAmb EXCEPT ![a] = q]
  /\ fold' = FoldOpened(fold, a, q)
  /\ UNCHANGED <<problem, decided, requirement, verdict, judged, replaced>>

(* An answer or a bounded deferral, by whoever settled it.                 *)
AmbiguityResolved(a) ==
  /\ IsOpen(a)
  /\ openAmb' = [openAmb EXCEPT ![a] = NoQuestion]
  /\ fold' = FoldResolved(fold, a)
  /\ UNCHANGED <<problem, decided, requirement, verdict, judged, replaced>>

(* Mutation: the decision leaves the question it answers open.             *)
StillOpen(resolves) == openAmb

Answered(resolves) ==
  [a \in Ambiguities |-> IF a = resolves THEN NoQuestion ELSE openAmb[a]]

ProductDecisionRecorded(d, status, supersedes, resolves) ==
  /\ resolves # NoName => IsOpen(resolves)
  /\ supersedes # NoName => decided[supersedes] # "none"
  /\ openAmb' = Answered(resolves)
  /\ decided' = [e \in Decisions |->
       CASE e = d -> status [] e # d /\ e = supersedes -> "superseded"
         [] OTHER -> decided[e]]
  /\ fold' = FoldDecision(fold, d, status, supersedes, resolves)
  /\ UNCHANGED <<problem, requirement, verdict, judged, replaced>>

(* Confirmed from a decision that was recorded and is not withdrawn, or of *)
(* any status from another source.                                         *)
RequirementRecorded(status, source) ==
  /\ status = "confirmed" /\ source \in Decisions =>
       decided[source] \notin {"none", "withdrawn"}
  /\ requirement' = status
  /\ UNCHANGED <<problem, openAmb, decided, verdict, judged,
                   replaced, fold>>

SpecificationReadinessRecorded(m, r) ==
  /\ problem.id # NoName => m = problem.id
  /\ problem.revision # 0 => r <= problem.revision
  /\ verdict' = [ref |-> TRUE, revision |-> r]
  /\ judged' = m /\ replaced' = FALSE
  /\ UNCHANGED <<problem, openAmb, decided, requirement, fold>>

NextDiscovery ==
  \/ \E m \in Models, r \in Revisions :
       \/ \E unverified \in {0, 1} : ProblemModelRevised(m, r, unverified)
       \/ SpecificationReadinessRecorded(m, r)
  \/ \E a \in Ambiguities :
       AmbiguityResolved(a) \/ \E q \in Question : AmbiguityOpened(a, q)
  \/ \E d \in Decisions, status \in DecisionStatuses,
        supersedes \in Decisions \cup {NoName},
        resolves \in Ambiguities \cup {NoName} :
       ProductDecisionRecorded(d, status, supersedes, resolves)
  \/ \E status \in {"proposed", "confirmed"},
        source \in Decisions \cup {NoName} :
       RequirementRecorded(status, source)

SpecDiscovery == InitDiscovery /\ [][NextDiscovery]_discoveryVars

-----------------------------------------------------------------------------
(* What clients are shown.                                                 *)

OpenMaterialAmbiguities == {a \in Ambiguities : openAmb[a].material}
AwaitingHumanAmbiguities == {a \in Ambiguities : openAmb[a].human}

(* Mutation: any recorded verdict is shown.                                *)
AnyVerdict == verdict.ref

VerdictShown == verdict.ref /\ verdict.revision = problem.revision

(* Entries of the ledger record: absent, live, or settled in some way.     *)
LedgerEntries ==
  {"absent", "live", "deferred", "answered", "evidenced", "bare"}

LedgerEntryViolated(a, entry) ==
  \/ (entry = "live") # (fold.open[a] # NoQuestion)
  \/ entry = "bare"

Blockers(ledger, problemBound) ==
  {b \in {"no_problem_model", "problem_model_record_missing",
          "open_material_ambiguities", "awaiting_human_questions",
          "unverified_material_assumptions", "consistency_violations",
          "recorded_readiness_stale", "no_recorded_readiness"} :
     CASE b = "no_problem_model" -> problem.id = NoName
       [] b = "problem_model_record_missing" ->
            problem.id # NoName /\ ~problemBound
       [] b = "open_material_ambiguities" -> OpenMaterialAmbiguities # {}
       [] b = "awaiting_human_questions" -> AwaitingHumanAmbiguities # {}
       [] b = "unverified_material_assumptions" -> problem.unverified > 0
       [] b = "consistency_violations" ->
            \/ fold.anomaly
            \/ \E a \in Ambiguities : LedgerEntryViolated(a, ledger[a])
       [] b = "recorded_readiness_stale" -> verdict.ref /\ ~VerdictShown
       [] b = "no_recorded_readiness" -> ~verdict.ref}
  \cup {"human_reflection_unverifiable", "independent_review_unverifiable"}

-----------------------------------------------------------------------------
(* Properties.                                                             *)

(* The reducer and the analysis fold one journal twice, one refusing and   *)
(* the other reporting what does not fit (crossCheckProjection): of a      *)
(* journal the reducer accepts they make the same open questions and the   *)
(* same decisions, with no anomaly.                                        *)
FoldsAgree ==
  /\ fold.open = openAmb
  /\ fold.decided = decided
  /\ ~fold.anomaly

(* "A later revision invalidates the verdict rather than inheriting it"    *)
(* (discoveryState): unless another problem model became current in the    *)
(* meantime, a shown verdict was given for the shown model and revision.   *)
(* An analysis with no blocker but the two that always stand has such a    *)
(* verdict, and no human question left in the journal, whatever ledger is  *)
(* stored.                                                                 *)
ReadinessIsCurrent ==
  /\ VerdictShown /\ ~replaced =>
       judged = problem.id /\ verdict.revision = problem.revision
  /\ \A ledger \in [Ambiguities -> LedgerEntries] :
       Cardinality(Blockers(ledger, TRUE)) = 2 =>
         /\ verdict.revision = problem.revision
         /\ \A a \in Ambiguities : ~fold.open[a].human

=============================================================================
