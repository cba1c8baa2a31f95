-------------------------- MODULE PortfolioSamples --------------------------
(***************************************************************************)
(* The portfolios and facts the runs use: a sound one of each, and others  *)
(* that differ from it in one respect, so that every check of the          *)
(* validator decides about something.                                      *)
(***************************************************************************)
EXTENDS Portfolios

Graded(grade, prov) == [d \in {"implementation", "review", "architecture"} |->
                          [grade |-> grade, prov |-> prov]]
SampleOllama == [LocalEndpoint("ollama", "ready", "declared", TRUE) EXCEPT
                   !.caps = Graded("strong", "measured"),
                   !.accel = [backend |-> "metal", state |-> "verified",
                              probe |-> 1]]
SampleMLX == [LocalEndpoint("mlx", "ready", "unknown", TRUE) EXCEPT
                !.caps = Graded("medium", "configured")]
SampleAPI == [RemoteEndpoint("authenticated", "remote_economy") EXCEPT
                !.health = "ready", !.caps = Graded("strong", "configured")]

SamplePool(id, regime, hard, overage, toMetered) ==
  [id |-> id, regime |-> regime, hard |-> hard, overage |-> overage,
   toMetered |-> toMetered]
SampleChannel(id, endpoint, control) ==
  [id |-> id, endpoint |-> endpoint, control |-> control,
   cache |-> "unknown"]
OnOllama == Route4("ollama", "cho", "ctxo", "local")
OnMLX == Route4("mlx", "chm", "ctxm", "local")
OnAPI == Route4("api", "cha", "ctxa", "metered")
SampleBinding(role, priority, primary, fallbacks) ==
  [role |-> role, priority |-> priority, primary |-> primary,
   fallbacks |-> fallbacks]

BasePortfolio ==
  [id |-> "p1", exposure |-> "focused_snippets", excluded |-> {"cli"},
   channels |-> {SampleChannel("cho", "ollama", "full"),
                 SampleChannel("chm", "mlx", "full"),
                 SampleChannel("cha", "api", "full")},
   pools |-> <<SamplePool("local", "local_compute", 0, FALSE, TRUE),
               SamplePool("metered", "metered_api", 10, TRUE, FALSE)>>,
   bindings |-> <<SampleBinding("implementer", 1, OnOllama, <<OnAPI>>),
                  SampleBinding("correctness_reviewer", 1, OnAPI, <<>>),
                  SampleBinding("architecture_reviewer", 1, OnOllama, <<>>)>>,
   reservations |-> [id \in {"metered"} |-> 5],
   distinctReviewers |-> TRUE,
   escalations |-> {[from |-> "implementer", to |-> "architecture_reviewer"]},
   defaults |-> [timeout |-> 3, retries |-> 1]]

SampleCandidates ==
  {BasePortfolio,
   [BasePortfolio EXCEPT !.id = "p2", !.bindings[1].fallbacks = <<>>],
   [BasePortfolio EXCEPT !.id = "silent", !.pools[1].toMetered = FALSE],
   [BasePortfolio EXCEPT !.id = "excluding", !.excluded = {"api"}],
   [BasePortfolio EXCEPT !.id = "crossed",
                         !.bindings[1].primary.channel = "chm"],
   [BasePortfolio EXCEPT !.id = "nowhere",
      !.escalations = {[from |-> "implementer", to |-> "scout"]}],
   [BasePortfolio EXCEPT !.id = "reserved",
                         !.reservations = [id \in {"metered"} |-> 11]],
   [BasePortfolio EXCEPT !.id = "overdrawn", !.pools[1].overage = TRUE],
   [BasePortfolio EXCEPT !.id = "open", !.exposure = "unrestricted"],
   [BasePortfolio EXCEPT !.id = "closed", !.exposure = "local_only"],
   [BasePortfolio EXCEPT !.id = "shared",
                         !.bindings[2].primary.profile = "ctxo"],
   [BasePortfolio EXCEPT !.id = "twice",
                         !.bindings[2].role = "architecture_reviewer"],
   [BasePortfolio EXCEPT !.id = "circular",
      !.bindings[1].fallbacks = <<[OnOllama EXCEPT !.pool = "metered"]>>],
   [BasePortfolio EXCEPT !.id = "alike",
                         !.bindings[2].primary = OnOllama],
   [BasePortfolio EXCEPT !.id = "weak", !.bindings[1].primary = OnMLX]}

SamplePolicy ==
  [exposure |-> "focused_snippets", cost |-> "remote_economy", regimes |-> {},
   forbidMetered |-> FALSE, measured |-> FALSE, knownBudgets |-> TRUE,
   knownControl |-> FALSE, knownHosts |-> FALSE, minLimit |-> 0,
   verifiedAccel |-> FALSE]
SampleHost == [active |-> 1, max |-> 2, unknown |-> FALSE]
BaseFacts ==
  [profile |-> {SampleOllama, SampleMLX, SampleAPI},
   inventory |-> {SampleOllama, SampleMLX, SampleAPI},
   contexts |-> [id \in {} |-> id], budgeted |-> TRUE,
   budgets |-> [id \in {"local", "metered"} |->
                  [status |-> "available", balance |-> 7]],
   hosts |-> {SampleHost}, backends |-> {"metal", "cpu"}, fresh |-> TRUE,
   sameMachine |-> TRUE, policy |-> SamplePolicy]

Metered(status, balance) ==
  [BaseFacts EXCEPT !.budgets["metered"] =
     [status |-> status, balance |-> balance]]
Remote(e) == [BaseFacts EXCEPT !.profile = {SampleOllama, SampleMLX, e}]
SampleFacts ==
  {BaseFacts,
   Remote([SampleAPI EXCEPT !.auth = "unauthenticated"]),
   Remote([SampleAPI EXCEPT !.health = "unhealthy"]),
   Remote([SampleAPI EXCEPT !.caps = Graded("weak", "measured")]),
   Remote([SampleAPI EXCEPT !.caps = Graded("strong", "unknown")]),
   [BaseFacts EXCEPT !.profile = {SampleOllama}],
   [BaseFacts EXCEPT !.profile = {SampleOllama},
                     !.inventory = {SampleOllama}],
   Metered("unknown", 7), Metered("exhausted", 7), Metered("available", 0),
   [BaseFacts EXCEPT !.budgets = [id \in {} |-> id]],
   [BaseFacts EXCEPT !.budgeted = FALSE],
   [BaseFacts EXCEPT !.hosts = {[SampleHost EXCEPT !.active = 2]}],
   [BaseFacts EXCEPT !.hosts = {[SampleHost EXCEPT !.unknown = TRUE]},
                     !.policy.knownHosts = TRUE],
   [BaseFacts EXCEPT !.backends = {"cpu"}],
   [BaseFacts EXCEPT !.fresh = FALSE],
   [BaseFacts EXCEPT !.sameMachine = FALSE],
   [BaseFacts EXCEPT !.policy.exposure = "semantic"],
   [BaseFacts EXCEPT !.policy.cost = "subscription"],
   [BaseFacts EXCEPT !.policy.regimes = {"local_compute"}],
   [BaseFacts EXCEPT !.policy.forbidMetered = TRUE],
   [BaseFacts EXCEPT !.policy.measured = TRUE],
   [BaseFacts EXCEPT !.policy.minLimit = 10000],
   [BaseFacts EXCEPT !.policy.knownControl = TRUE,
      !.contexts = [id \in {"ctxo"} |->
         [endpoint |-> "ollama", channel |-> "cho", control |-> "unknown",
          cache |-> "unknown", limit |-> 0]]]}

-----------------------------------------------------------------------------
(* Planning calls. *)

SampleTask(risky, dual, deterministic) ==
  [risky |-> risky, dual |-> dual, deterministic |-> deterministic]
SampleTasks == {SampleTask(FALSE, FALSE, FALSE), SampleTask(TRUE, FALSE, FALSE),
                SampleTask(FALSE, TRUE, FALSE), SampleTask(TRUE, TRUE, TRUE)}

(* Verifier apart from the reviewer; in its place, with and without a
   fallback elsewhere; missing; and defaults too generous for the policy. *)
WorkflowPortfolio ==
  [BasePortfolio EXCEPT
     !.bindings = <<SampleBinding("implementer", 1, OnOllama, <<OnAPI>>),
                    SampleBinding("reviewer", 2, OnMLX, <<>>),
                    SampleBinding("reviewer", 1, OnAPI, <<>>),
                    SampleBinding("verifier", 1, OnMLX, <<>>)>>,
     !.escalations = {}]
SameReviewers == [WorkflowPortfolio EXCEPT !.bindings[4].primary = OnAPI]
SamplePlanPortfolios ==
  {WorkflowPortfolio, SameReviewers,
   [SameReviewers EXCEPT !.bindings[3].fallbacks = <<OnOllama>>],
   [WorkflowPortfolio EXCEPT !.bindings = SubSeq(@, 1, 1)],
   [WorkflowPortfolio EXCEPT !.defaults = [timeout |-> 9, retries |-> 3]],
   [WorkflowPortfolio EXCEPT !.defaults = [timeout |-> 0, retries |-> 0],
                             !.pools[1].toMetered = FALSE]}
SamplePlanPolicies == {[stages |-> 3, retries |-> 4, timeout |-> 5],
                       [stages |-> 3, retries |-> 0, timeout |-> 0]}
SamplePlanBudgets ==
  {BaseFacts.budgets, [id \in {} |-> id],
   [BaseFacts.budgets EXCEPT !["metered"].status = "exhausted"],
   [BaseFacts.budgets EXCEPT !["metered"].status = "unknown",
                             !["local"].status = "unknown"],
   [BaseFacts.budgets EXCEPT !["local"].balance = 0]}

Proposed(id, role, order, deps, pool, review) ==
  [id |-> id, role |-> role, kind |-> "cognition", review |-> review,
   order |-> order, deps |-> deps, pool |-> pool, timeout |-> 0,
   endpoint |-> "", channel |-> "", profile |-> "", retries |-> 0,
   escalation |-> "", gate |-> FALSE]
ProposedStages ==
  <<Proposed("build", "implementer", 0, {}, "local", FALSE),
    Proposed("look", "reviewer", 0, {"build"}, "metered", TRUE),
    Proposed("check", "verifier", 0, {"build"}, "local", TRUE)>>
Proposal(topology, stages) == [topology |-> topology, stages |-> stages]
Dual(stages) == Proposal("dual_independent_review", stages)
SampleModelPlans ==
  {Dual(ProposedStages),
   Proposal("", ProposedStages),
   Proposal("single_pass", SubSeq(ProposedStages, 1, 1)),
   Proposal("single_pass", ProposedStages),
   Proposal("single_pass", <<>>),
   Dual(ProposedStages \o ProposedStages),
   Dual([ProposedStages EXCEPT ![3].role = "reviewer"]),
   Dual([ProposedStages EXCEPT ![1].escalation = "check"]),
   Dual([ProposedStages EXCEPT ![3].escalation = "build"]),
   Dual([ProposedStages EXCEPT ![1].deps = {"check"}]),
   Dual([ProposedStages EXCEPT ![1].deps = {"elsewhere"}]),
   Dual([ProposedStages EXCEPT ![3].id = "build"]),
   Dual([ProposedStages EXCEPT ![2].order = 3, ![3].order = 3]),
   Dual([ProposedStages EXCEPT ![2].endpoint = "mlx"]),
   Dual([ProposedStages EXCEPT ![2].role = "painter"]),
   Dual([ProposedStages EXCEPT ![2].pool = "other"]),
   Dual([ProposedStages EXCEPT ![2].retries = 5]),
   Dual([ProposedStages EXCEPT ![2].timeout = 50]),
   Dual([ProposedStages EXCEPT ![3].kind = "deterministic",
                               ![3].gate = TRUE]),
   Proposal("deterministic_only",
     <<[ProposedStages[1] EXCEPT !.kind = "deterministic", !.gate = TRUE]>>)}

PlanningFacts ==
  [BaseFacts EXCEPT !.contexts =
     SynthesizeContextProfiles(BasePortfolio, [id \in {} |-> id])]
SamplePlanFacts ==
  {PlanningFacts,
   [PlanningFacts EXCEPT !.profile = {SampleOllama, SampleMLX},
                         !.inventory = {SampleOllama, SampleMLX}],
   [PlanningFacts EXCEPT !.policy.exposure = "local_only"]}
SampleDrivers(ollama, api) ==
  [id \in {"ollama", "mlx", "api"} |->
     CASE id = "ollama" -> ollama [] id = "api" -> api [] OTHER -> "none"]
SampleDriverSets == {SampleDrivers("plain", "plain"),
                     SampleDrivers("none", "worktree")}
SampleIntentSets == {{"balanced"}, {"balanced", "privacy_first"}}
Alternative(intent, p) == [intent |-> intent, portfolio |-> p,
                           explained |-> TRUE, confident |-> TRUE]
SampleModelPortfolios ==
  {<<Alternative("balanced", p)>> : p \in SampleCandidates}
  \cup {<<>>,
        <<Alternative("privacy_first", BasePortfolio)>>,
        <<Alternative("balanced", BasePortfolio),
          Alternative("balanced", BasePortfolio)>>,
        <<Alternative("balanced", BasePortfolio),
          [Alternative("privacy_first", BasePortfolio) EXCEPT
             !.explained = FALSE]>>}
=============================================================================
