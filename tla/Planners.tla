------------------------------ MODULE Planners ------------------------------
(***************************************************************************)
(* Planning with a model's advice (internal/cognition/workflowplanner,     *)
(* planner, plannerdriver, and the workflow validator and budget           *)
(* authorizer): one call at a time asks for the workflow of a task or for  *)
(* alternative portfolios, may consult a model through a session, and      *)
(* falls back or refuses when the answer does not survive validation.      *)
(*                                                                         *)
(* "" stands for an optional field that is absent.  What a model may say   *)
(* is a set of decoded answers; text that does not decode is "malformed".  *)
(* Prompts, digests and identifiers made from them are left out.           *)
(***************************************************************************)
EXTENDS Portfolios

CONSTANTS Tasks,             \* [risky, dual, deterministic]
          PlanPortfolios,    \* active portfolios to plan with
          PlanPolicies,      \* owner's bounds: [stages, retries, timeout]
          PlanBudgets,       \* observed budget states
          ModelPlans,        \* stage lists a model may propose
          PlanFacts,         \* facts a recommendation is judged against
          DriverSets,        \* endpoint -> "none", "plain" or "worktree"
          IntentSets,        \* what a caller may ask for
          ModelPortfolios    \* alternatives a model may propose

(* A proposal that decodes has the fields of a stage, and integers where   *)
(* the code has them.                                                      *)
StageFields == {"id", "role", "kind", "review", "order", "deps", "pool",
                "timeout", "endpoint", "channel", "profile", "retries",
                "escalation", "gate"}
ASSUME ModelPlansAssumption ==
  \A c \in ModelPlans :
     /\ Len(c.stages) \in Nat /\ DOMAIN c.stages = 1 .. Len(c.stages)
     /\ \A i \in DOMAIN c.stages :
          DOMAIN c.stages[i] = StageFields /\ c.stages[i].order \in Int
ASSUME ModelPortfoliosAssumption ==
  \A c \in ModelPortfolios : \A a \in Range(c) :
     {"intent", "portfolio"} \subseteq DOMAIN a

VARIABLES planStep,          \* idle, asked, turn, answered, done
          planCall,          \* the request in progress
          planAnswer,        \* what the model said, and from where
          planSessions,      \* driver sessions that are open
          planResult         \* what the call returned

plannersVars == <<planStep, planCall, planAnswer, planSessions, planResult>>

NoAnswer == [endpoint |-> "", said |-> "nothing", content |-> <<>>]
NoResult == [plans |-> {}, usedModel |-> FALSE, accepted |-> {}]
NoCall == [kind |-> "none"]

InitPlanners ==
  /\ planStep = "idle" /\ planCall = NoCall /\ planAnswer = NoAnswer
  /\ planSessions = 0 /\ planResult = NoResult

-----------------------------------------------------------------------------
(* WorkflowPlan.Validate and WorkflowStage.Validate. *)

ValidStage(s) ==
  /\ s.role # "" /\ s.pool # "" /\ s.order >= 1 /\ s.timeout >= 1
  /\ s.retries >= 0
  /\ s.gate = (s.kind = "deterministic")

StageIds(plan) == {s.id : s \in Range(plan.stages)}
StageOf(plan, id) == CHOOSE s \in Range(plan.stages) : s.id = id
ReviewStages(plan) == {s \in Range(plan.stages) : s.review}
Dependent(s, t) == IF s.endpoint # "" /\ t.endpoint # ""
                   THEN s.endpoint = t.endpoint ELSE s.role = t.role

ValidWorkflowPlan(plan) ==
  /\ plan.stages # <<>>
  /\ \A s \in Range(plan.stages) : ValidStage(s)
  /\ \A i, j \in DOMAIN plan.stages :
        \/ plan.stages[i].id = plan.stages[j].id
        \/ plan.stages[i].order = plan.stages[j].order
        => i = j
  /\ \A s \in Range(plan.stages) : \A d \in s.deps :
        d \in StageIds(plan) /\ StageOf(plan, d).order < s.order
  /\ plan.topology = "dual_independent_review" =>
       /\ Cardinality(ReviewStages(plan)) >= 2
       /\ \A s, t \in ReviewStages(plan) : s # t => ~Dependent(s, t)
  /\ plan.topology = "deterministic_only" =>
       \A s \in Range(plan.stages) : s.kind = "deterministic"

(* WorkflowValidator.Validate, rules R0 to R7. *)
ValidPolicy(policy) == policy.stages > 0 /\ policy.retries > 0
                       /\ policy.timeout > 0
RoleTuples(p, role) ==
  UNION {Range(RoutesOf(b)) : b \in {x \in Range(p.bindings) : x.role = role}}
Matches(r, s) ==
  /\ s.endpoint \in {"", r.endpoint} /\ s.channel \in {"", r.channel}
  /\ s.profile \in {"", r.profile} /\ s.pool = r.pool
RetryCap(p, policy) == IF p.defaults.retries > 0 THEN p.defaults.retries
                       ELSE policy.retries
StageAllowed(p, policy, plan, s) ==
  /\ s.retries <= RetryCap(p, policy) /\ s.timeout <= policy.timeout
  /\ s.kind = "cognition" =>
       \E r \in RoleTuples(p, s.role) : Matches(r, s)
  /\ s.kind = "deterministic" =>
       s.endpoint = "" /\ s.channel = "" /\ s.profile = ""
  /\ HasPool(p, s.pool)
  /\ s.escalation # "" =>
       /\ s.escalation \in StageIds(plan)
       /\ StageOf(plan, s.escalation).order > s.order
  /\ s.review => s.kind = "cognition"
TotalRetries(plan) ==
  FoldSeq(LAMBDA s, n : s.retries + n, 0, plan.stages)
ValidateWorkflow(plan, p, policy) ==
  /\ ValidPolicy(policy) /\ ValidWorkflowPlan(plan) /\ ValidPortfolio(p)
  /\ Len(plan.stages) <= policy.stages
  /\ \A s \in Range(plan.stages) : StageAllowed(p, policy, plan, s)
  /\ TotalRetries(plan) <= policy.retries

(* AuthorizeWorkflowBudget; both records were validated before. *)
StageAffordable(p, budgets, allowUnknown, s) ==
  LET pool == PoolOf(p, s.pool)
      unknownAllowed == pool.regime = "local_compute" /\ allowUnknown
  IN  IF s.pool \notin DOMAIN budgets THEN unknownAllowed
      ELSE /\ Drained(budgets[s.pool]) =>
                pool.overage /\ pool.regime \in {"metered_api", "enterprise"}
           /\ budgets[s.pool].status = "unknown" => unknownAllowed
AuthorizeWorkflowBudget(plan, p, budgets, allowUnknown) ==
  \A s \in Range(plan.stages) : StageAffordable(p, budgets, allowUnknown, s)

-----------------------------------------------------------------------------
(* PlanWorkflow: the deterministic baseline. *)

NeedsDualReview(task) == task.dual \/ task.risky
SelectTopology(task) ==
  CASE task.deterministic -> "deterministic_only"
    [] ~task.deterministic /\ NeedsDualReview(task) ->
         "dual_independent_review"
    [] OTHER -> "single_pass"

DefaultWorkflowPolicy == [stages |-> 8, retries |-> 6, timeout |-> 3600]
Effective(policy) == IF policy.timeout > 0 THEN policy
                     ELSE DefaultWorkflowPolicy
DefaultTimeout(p, policy) ==
  Min({Effective(policy).timeout,
       IF p.defaults.timeout > 0 THEN p.defaults.timeout ELSE 1800})

SanitizedId(order) == CASE order = 1 -> "stage-1" [] order = 2 -> "stage-2"
                        [] OTHER -> "stage-3"
NewStage(p, policy, role, order) ==
  [id |-> SanitizedId(order), role |-> role, kind |-> "cognition",
   review |-> FALSE, order |-> order, deps |-> {}, pool |-> "",
   timeout |-> DefaultTimeout(p, policy), endpoint |-> "", channel |-> "",
   profile |-> "", retries |-> p.defaults.retries, escalation |-> "",
   gate |-> FALSE]

FirstPool(p) == IF p.pools = <<>> THEN "" ELSE p.pools[1].id
FindDeterministicPool(p) ==
  LET local == SelectSeq(p.pools, LAMBDA q : q.regime = "local_compute")
  IN  IF local = <<>> THEN FirstPool(p) ELSE local[1].id
PrimaryBindings(p, role) ==
  {b \in Range(p.bindings) :
     /\ b.role = role
     /\ \A c \in Range(p.bindings) : c.role = role => b.priority <= c.priority}
BoundTo(s, r) ==
  [s EXCEPT !.endpoint = r.endpoint, !.channel = r.channel,
            !.profile = r.profile, !.pool = r.pool]
BindRole(p, s) ==
  IF PrimaryBindings(p, s.role) = {} THEN [s EXCEPT !.pool = FirstPool(p)]
  ELSE BoundTo(s, (CHOOSE b \in PrimaryBindings(p, s.role) : TRUE).primary)

(* The second reviewer: the verifier, unless it runs where the first
   reviewer does and the reviewer has a fallback that does not. *)
Elsewhere(p, endpoint) ==
  IF PrimaryBindings(p, "reviewer") = {} THEN <<>>
  ELSE SelectSeq(
         (CHOOSE b \in PrimaryBindings(p, "reviewer") : TRUE).fallbacks,
         LAMBDA r : r.endpoint # endpoint)
SecondReview(p, policy, first) ==
  LET review == [NewStage(p, policy, "verifier", 3) EXCEPT
                   !.review = TRUE, !.deps = {"stage-1"}]
      verifier == BindRole(p, review)
      elsewhere == Elsewhere(p, first.endpoint)
      clash == verifier.endpoint \in {"", first.endpoint}
  IN  IF clash /\ elsewhere # <<>>
      THEN BoundTo([review EXCEPT !.role = "reviewer"], elsewhere[1])
      ELSE verifier

SynthesizeStages(task, p, policy) ==
  LET build == BindRole(p, NewStage(p, policy, "implementer", 1))
      review == BindRole(p, [NewStage(p, policy, "reviewer", 2) EXCEPT
                               !.review = TRUE, !.deps = {"stage-1"}])
      check == [NewStage(p, policy, "verifier", 1) EXCEPT
                  !.kind = "deterministic", !.gate = TRUE,
                  !.pool = FindDeterministicPool(p)]
  IN  CASE SelectTopology(task) = "deterministic_only" -> <<check>>
        [] SelectTopology(task) = "dual_independent_review" ->
             <<build, review, SecondReview(p, policy, review)>>
        [] OTHER -> <<build>>

PlanWorkflow(task, p, policy) ==
  LET plan == [topology |-> SelectTopology(task),
               stages |-> SynthesizeStages(task, p, policy)]
  IN  IF ValidateWorkflow(plan, p, policy) THEN {plan} ELSE {}

-----------------------------------------------------------------------------
(* PlanWorkflowWithModel: what becomes of a proposal. *)

MaxStages(policy) == IF policy.stages > 0 THEN policy.stages ELSE 8
DecodeModelStages(answer, policy) ==
  answer.said = "plan" /\ Len(answer.content.stages) \in 1..MaxStages(policy)

OrderOf(ps, i) == IF ps[i].order > 0 THEN ps[i].order ELSE i
(* The table of old identifiers is filled stage by stage, so the last stage
   that claims an identifier gets it. *)
Remap(ps, id) ==
  LET claims == {i \in DOMAIN ps :
                   id \in {ps[i].id, SanitizedId(OrderOf(ps, i))}}
  IN  IF claims = {} \/ id = "" THEN id
      ELSE SanitizedId(OrderOf(ps, Max(claims)))
Sanitize(ps, i, p, policy) ==
  [ps[i] EXCEPT
     !.id = SanitizedId(OrderOf(ps, i)), !.order = OrderOf(ps, i),
     !.deps = {Remap(ps, d) : d \in @},
     !.escalation = Remap(ps, @),
     !.timeout = Min({Effective(policy).timeout,
                      IF @ > 0 THEN @ ELSE DefaultTimeout(p, policy)}),
     !.retries = IF @ > 0 THEN @ ELSE p.defaults.retries]

Topologies == {"single_pass", "iterative_escalation",
               "dual_independent_review", "deterministic_only"}
ModelTopologyTrusted(task, proposed) ==
  IF proposed \in Topologies THEN proposed ELSE SelectTopology(task)
(* A model may not talk a risky task out of its second review. *)
ModelTopology(task, proposed) ==
  IF proposed \notin Topologies THEN SelectTopology(task)
  ELSE IF NeedsDualReview(task) THEN "dual_independent_review"
  ELSE proposed

AssemblePlan(task, content, p, policy) ==
  [topology |-> ModelTopology(task, content.topology),
   stages |-> [i \in DOMAIN content.stages |->
                 Sanitize(content.stages, i, p, policy)]]

Affordable(plan, call) ==
  AuthorizeWorkflowBudget(plan, call.portfolio, call.budgets,
                          call.allowUnknown)
FallbackToBaseline(call) ==
  [NoResult EXCEPT !.plans =
     {plan \in PlanWorkflow(call.task, call.portfolio, call.policy) :
        Affordable(plan, call)}]
PlanWorkflowWithModel(call, answer) ==
  IF ~DecodeModelStages(answer, call.policy) THEN FallbackToBaseline(call)
  ELSE LET plan == AssemblePlan(call.task, answer.content, call.portfolio,
                                call.policy)
       IN  IF /\ ValidateWorkflow(plan, call.portfolio, call.policy)
              /\ Affordable(plan, call)
           THEN [NoResult EXCEPT !.plans = {plan}, !.usedModel = TRUE]
           ELSE FallbackToBaseline(call)

-----------------------------------------------------------------------------
(* planner.Plan: each alternative is renamed, checked as a record and put
   to the portfolio validator. *)

DecodeOutput(answer, intents) ==
  /\ answer.said = "alternatives"
  /\ Len(answer.content) \in 1 .. Cardinality(intents)
  /\ \A a \in Range(answer.content) : a.intent \in intents
  /\ \A i, j \in DOMAIN answer.content :
        answer.content[i].intent = answer.content[j].intent => i = j
BuildRecommendation(alt) ==
  [alt EXCEPT !.portfolio = [@ EXCEPT !.id = alt.intent]]
ValidRecommendation(rec) ==
  rec.explained /\ rec.confident /\ ValidPortfolio(rec.portfolio)
PlanPortfolio(call, answer) ==
  IF ~DecodeOutput(answer, call.intents) THEN NoResult
  ELSE [NoResult EXCEPT !.accepted =
          {rec \in {BuildRecommendation(a) : a \in Range(answer.content)} :
             ValidRecommendation(rec) /\ Validate(rec.portfolio, call.facts)}]

-----------------------------------------------------------------------------
(* The calls. *)

AskWorkflow(task, p, policy, budgets, allowUnknown, invoker) ==
  /\ planStep = "idle"
  /\ planCall' = [kind |-> "workflow", task |-> task, portfolio |-> p,
                  policy |-> policy, budgets |-> budgets,
                  allowUnknown |-> allowUnknown]
  /\ planStep' = IF invoker /\ ~task.deterministic THEN "asked"
                 ELSE "answered"
  /\ UNCHANGED <<planAnswer, planSessions, planResult>>

(* ExecutePlanning: a viable endpoint with a driver that touches no
   worktree, if there is one. *)
Eligible(facts, drivers) ==
  {e.id : e \in {x \in facts.inventory :
                   EndpointViable(x) /\ drivers[x.id] = "plain"}}
AskPortfolio(facts, drivers, intents) ==
  /\ planStep = "idle"
  /\ planCall' = [kind |-> "portfolio", facts |-> facts,
                  drivers |-> drivers, intents |-> intents]
  /\ IF Eligible(facts, drivers) = {}
     THEN planStep' = "answered" /\ UNCHANGED planAnswer
     ELSE /\ planStep' = "asked"
          /\ \E e \in Eligible(facts, drivers) :
                planAnswer' = [NoAnswer EXCEPT !.endpoint = e]
  /\ UNCHANGED <<planSessions, planResult>>

(* Invoker.Invoke: a session of its own, one turn, and always closed. *)
StartSession(started) ==
  /\ planStep = "asked"
  /\ planStep' = IF started THEN "turn" ELSE "answered"
  /\ planSessions' = planSessions + IF started THEN 1 ELSE 0
  /\ UNCHANGED <<planCall, planAnswer, planResult>>

(* A turn that fails, calls tools or pauses answers nothing. *)
ExecuteTurn(said, content) ==
  /\ planStep = "turn"
  /\ planAnswer' = [planAnswer EXCEPT !.said = said, !.content = content]
  /\ planSessions' = planSessions - 1
  /\ planStep' = "answered"
  /\ UNCHANGED <<planCall, planResult>>

(* The caller's context ends: the session is closed and there is an error. *)
CancelPlanning ==
  /\ planStep \in {"asked", "turn"}
  /\ planSessions' = 0 /\ planStep' = "done"
  /\ UNCHANGED <<planCall, planAnswer, planResult>>

DecidePlan ==
  /\ planStep = "answered"
  /\ planResult' = IF planCall.kind = "workflow"
                   THEN PlanWorkflowWithModel(planCall, planAnswer)
                   ELSE PlanPortfolio(planCall, planAnswer)
  /\ planStep' = "done"
  /\ UNCHANGED <<planCall, planAnswer, planSessions>>

ReturnPlan ==
  /\ planStep = "done"
  /\ planStep' = "idle" /\ planCall' = NoCall /\ planAnswer' = NoAnswer
  /\ planResult' = NoResult /\ UNCHANGED planSessions

NextPlanners ==
  \/ \E task \in Tasks, p \in PlanPortfolios, policy \in PlanPolicies,
        budgets \in PlanBudgets, allowUnknown, invoker \in BOOLEAN :
        AskWorkflow(task, p, policy, budgets, allowUnknown, invoker)
  \/ \E f \in PlanFacts, d \in DriverSets, intents \in IntentSets :
        AskPortfolio(f, d, intents)
  \/ \E started \in BOOLEAN : StartSession(started)
  \/ \E said \in {"nothing", "malformed"} : ExecuteTurn(said, <<>>)
  \/ planCall.kind = "workflow"
       /\ \E c \in ModelPlans : ExecuteTurn("plan", c)
  \/ planCall.kind = "portfolio"
       /\ \E c \in ModelPortfolios : ExecuteTurn("alternatives", c)
  \/ CancelPlanning \/ DecidePlan \/ ReturnPlan

SpecPlanners == InitPlanners /\ [][NextPlanners]_plannersVars

-----------------------------------------------------------------------------
(* A task that is risky or asks for it gets two reviews that can be told
   apart; following dependencies or escalations always ends; every stage
   that thinks can be routed by the portfolio, and every stage can be paid
   for by what is known of its pool. *)
WellFounded(plan, Next(_)) ==
  \A S \in SUBSET Range(plan.stages) :
     S # {} => \E s \in S : Next(s) \cap {t.id : t \in S} = {}
SoundPlan(plan, call) ==
  /\ NeedsDualReview(call.task) /\ ~call.task.deterministic =>
       \E s, t \in Range(plan.stages) :
          /\ s # t /\ s.review /\ t.review
          /\ s.kind = "cognition" /\ t.kind = "cognition"
          /\ s.endpoint # t.endpoint \/ s.role # t.role
  /\ WellFounded(plan, LAMBDA s : s.deps)
  /\ WellFounded(plan, LAMBDA s : {s.escalation} \ {""})
  /\ \A s \in Range(plan.stages) :
        /\ s.kind = "cognition" =>
             \E b \in Range(call.portfolio.bindings) :
                b.role = s.role /\ \E r \in Range(RoutesOf(b)) :
                   r.pool = s.pool /\ s.endpoint \in {"", r.endpoint}
        /\ s.pool \in DOMAIN call.budgets
             \/ PoolOf(call.portfolio, s.pool).regime = "local_compute"
        /\ s.pool \in DOMAIN call.budgets
             /\ Drained(call.budgets[s.pool])
             => PoolOf(call.portfolio, s.pool).overage
(* What is recommended was asked for, runs on endpoints that work, within
   the policy's exposure, and was proposed by an endpoint that works and
   cannot touch a worktree. *)
SoundRecommendation(rec, call, answer) ==
  /\ rec.intent \in call.intents
  /\ \A b \in Range(rec.portfolio.bindings) : \A r \in Range(RoutesOf(b)) :
        LET e == FactsOf(call.facts, r.endpoint)
        IN  EndpointViable(e) /\ ExposureRank(e.exposure)
                                   <= ExposureRank(call.facts.policy.exposure)
  /\ \E e \in call.facts.inventory :
        e.id = answer.endpoint /\ EndpointViable(e)
  /\ call.drivers[answer.endpoint] = "plain"

(* Whatever a model proposed, and however its turn went, what a planning
   call returns is sound and no session of it is left open
   (PlanWorkflowWithModel, planner.Plan and plannerdriver). *)
AdviceIsOnlyAdvice ==
  planStep = "done" =>
    /\ planSessions = 0
    /\ \A plan \in planResult.plans : SoundPlan(plan, planCall)
    /\ \A rec \in planResult.accepted :
          SoundRecommendation(rec, planCall, planAnswer)
=============================================================================
