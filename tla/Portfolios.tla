----------------------------- MODULE Portfolios -----------------------------
(***************************************************************************)
(* Cognition portfolios (internal/cognition/portfolio_validator*.go and    *)
(* internal/protocol/portfolio.go): what a portfolio is, the facts it is   *)
(* judged against, and the eight dimensions of the deterministic           *)
(* validator.  Activation.tla and Planners.tla use them.                   *)
(*                                                                         *)
(* A route is the tuple <endpoint, channel, context profile, budget pool>. *)
(* Diagnostics are abstracted to the verdict they decide; identifiers that *)
(* nothing compares (names, units, periods, revisions) are left out.       *)
(***************************************************************************)
EXTENDS Cognition, Sequences, SequencesExt

Route4(endpoint, channel, profile, pool) ==
  [endpoint |-> endpoint, channel |-> channel, profile |-> profile,
   pool |-> pool]
RoutesOf(binding) == <<binding.primary>> \o binding.fallbacks
AllRoutes(p) == FlattenSeq([i \in DOMAIN p.bindings |->
                              RoutesOf(p.bindings[i])])

ChannelOf(p, id) == CHOOSE c \in p.channels : c.id = id
HasChannel(p, id) == \E c \in p.channels : c.id = id
PoolOf(p, id) == CHOOSE q \in Range(p.pools) : q.id = id
HasPool(p, id) == \E q \in Range(p.pools) : q.id = id
RolesOf(p) == {b.role : b \in Range(p.bindings)}

-----------------------------------------------------------------------------
(* CognitionPortfolio.Validate: the record alone. *)

ValidPool(q) ==
  /\ q.hard >= 0
  /\ q.overage => q.regime \notin
       {"local_compute", "subscription_quota", "unknown_custom"}

ValidRoute(p, r) ==
  /\ HasChannel(p, r.channel)
  /\ ChannelOf(p, r.channel).endpoint = r.endpoint
  /\ HasPool(p, r.pool)
  /\ r.endpoint \notin p.excluded

(* No silent metered fallback: the primary's pool has to allow it. *)
ValidFallback(p, b, r) ==
  /\ r.endpoint # b.primary.endpoint
  /\ ValidRoute(p, r)
  /\ PoolOf(p, r.pool).regime = "metered_api"
       => PoolOf(p, b.primary.pool).toMetered

ValidBinding(p, b) ==
  /\ b.priority >= 1
  /\ ValidRoute(p, b.primary)
  /\ \A r \in Range(b.fallbacks) : ValidFallback(p, b, r)

ValidReservations(p) ==
  \A id \in DOMAIN p.reservations :
     /\ HasPool(p, id)
     /\ p.reservations[id] \in 0 .. PoolOf(p, id).hard

ValidPortfolio(p) ==
  /\ \A c, d \in p.channels : c.id = d.id => c = d
  /\ \A q \in Range(p.pools) : ValidPool(q)
  /\ \A i, j \in DOMAIN p.pools : p.pools[i].id = p.pools[j].id => i = j
  /\ \A b \in Range(p.bindings) : ValidBinding(p, b)
  /\ \A i, j \in DOMAIN p.bindings :
        /\ p.bindings[i].role = p.bindings[j].role
        /\ p.bindings[i].priority = p.bindings[j].priority
        => i = j
  /\ ValidReservations(p)
  /\ \A e \in p.escalations : e.from \in RolesOf(p) /\ e.to \in RolesOf(p)

-----------------------------------------------------------------------------
(* The facts: the machine profile (full endpoint records), the inventory
   (summaries of the same endpoints), and what the caller knows of context
   profiles, budgets and hosts, under a project policy. *)

Unlisted == Endpoint("none", "unknown", "unknown", "local_compute",
                     "local_only", "unknown", FALSE)
InProfile(f, id) == \E e \in f.profile : e.id = id
InInventory(f, id) == \E e \in f.inventory : e.id = id
FactsOf(f, id) ==
  CASE InProfile(f, id) -> CHOOSE e \in f.profile : e.id = id
    [] ~InProfile(f, id) /\ InInventory(f, id) ->
         CHOOSE e \in f.inventory : e.id = id
    [] OTHER -> Unlisted

(* Dimension 1: what the portfolio names exists. *)
EndpointExists(p, f, id) ==
  id \notin p.excluded /\ (InProfile(f, id) \/ InInventory(f, id))
RouteExists(p, f, r) ==
  /\ EndpointExists(p, f, r.endpoint)
  /\ HasChannel(p, r.channel)
  /\ r.profile \in DOMAIN f.contexts
  /\ HasPool(p, r.pool)

(* Dimensions 2 and 3: health, authentication, and - for a role the policy
   has a requirement for - features, grade and provenance.  An endpoint only
   the inventory knows has no features or grades to show. *)
Required(role) == role \in {"scout", "classifier", "implementer",
                            "correctness_reviewer", "architecture_reviewer"}
IsLocal(e) == e.id # "none" /\ KindOf(e.id) = "local_runtime"
CapableOf(f, req, e, inProfile) ==
  req.min # "unknown" =>
    /\ inProfile
    /\ GradeRank(Capability(e, req.dim).grade) >= GradeRank(req.min)
    /\ Capability(e, req.dim).prov # "unknown"
    /\ f.policy.measured =>
         Capability(e, req.dim).prov \in {"measured", "evaluated"}
FeaturesOf(f, req, e, inProfile) ==
  req.so => inProfile /\ e.structured \in {"probe_passed", "declared"}

RouteCapable(f, role, r) ==
  LET e == FactsOf(f, r.endpoint)
      inProfile == InProfile(f, r.endpoint)
  IN  /\ e.health = "ready"
      /\ IsLocal(e) \/ e.auth \in {"authenticated", "not_applicable"}
      /\ Required(role) =>
           /\ FeaturesOf(f, Requirement(role), e, inProfile)
           /\ CapableOf(f, Requirement(role), e, inProfile)

(* Dimensions 4 and 5: source exposure, cost, regimes, budgets. *)
RouteAllowed(p, f, r) ==
  LET e == FactsOf(f, r.endpoint)
  IN  /\ ExposureRank(e.exposure) <= ExposureRank(p.exposure)
      /\ ExposureRank(e.exposure) <= ExposureRank(f.policy.exposure)
      /\ CostRank(e.cost) <= CostRank(f.policy.cost)

RegimesAllowed(p, f) ==
  \A q \in Range(p.pools) :
     /\ f.policy.regimes # {} => q.regime \in f.policy.regimes
     /\ ~(f.policy.forbidMetered /\ q.regime = "metered_api")

Silent(p, b, r) ==
  /\ HasPool(p, b.primary.pool) /\ HasPool(p, r.pool)
  /\ PoolOf(p, r.pool).regime = "metered_api"
  /\ ~PoolOf(p, b.primary.pool).toMetered
NoSilentMetering(p) ==
  \A b \in Range(p.bindings) :
     \A r \in Range(b.fallbacks) : ~Silent(p, b, r)

(* A used pool that spends has to be known; a pool that is known to be
   empty has to allow overage.  Without budget states nothing is checked. *)
BudgetKnown(f, id) ==
  id \in DOMAIN f.budgets /\ f.budgets[id].status # "unknown"
Drained(state) == state.status = "exhausted" \/ state.balance = 0
BudgetsAllow(p, f) ==
  f.budgeted =>
    /\ f.policy.knownBudgets =>
         \A r \in Range(AllRoutes(p)) :
            HasPool(p, r.pool)
              /\ PoolOf(p, r.pool).regime # "local_compute"
            => BudgetKnown(f, r.pool)
    /\ \A q \in Range(p.pools) :
          q.id \in DOMAIN f.budgets /\ Drained(f.budgets[q.id]) => q.overage

(* Dimension 6: the profile describes the route's own endpoint and channel,
   and agrees with the channel about the context. *)
Agree(a, b) == a = "unknown" \/ b = "unknown" \/ a = b
ContextFits(p, f, r) ==
  HasChannel(p, r.channel) /\ r.profile \in DOMAIN f.contexts =>
    LET ch == ChannelOf(p, r.channel)
        cp == f.contexts[r.profile]
    IN  /\ cp.endpoint = r.endpoint /\ cp.channel = r.channel
        /\ Agree(cp.control, ch.control) /\ Agree(cp.cache, ch.cache)
        /\ f.policy.knownControl => "unknown" \notin {cp.control, ch.control}
        /\ ~(cp.limit > 0 /\ cp.limit < f.policy.minLimit)

(* Dimension 7: the host has the backend a local endpoint runs on, and
   room for another session. *)
MachineFits(f, r) ==
  LET e == FactsOf(f, r.endpoint)
  IN  IsLocal(e) /\ e.accel.backend \notin {"none", "cpu", "unknown"} =>
        /\ e.accel.backend \in f.backends
        /\ f.policy.verifiedAccel => e.accel.state = "verified"
HostsFit(f) ==
  \A h \in f.hosts : h.active < h.max
                     /\ ~(f.policy.knownHosts /\ h.unknown)

(* Dimension 8: review roles on different endpoints, if required.  The
   rules on providers and models compare two more columns the same way. *)
IsReviewRole(role) == role \in {"reviewer", "correctness_reviewer",
                                "architecture_reviewer"}
Diverse(p) ==
  p.distinctReviewers =>
    \A i, j \in DOMAIN p.bindings :
       /\ i < j
       /\ IsReviewRole(p.bindings[i].role) /\ IsReviewRole(p.bindings[j].role)
       => p.bindings[i].primary.endpoint # p.bindings[j].primary.endpoint

ValidateBindings(p, f) ==
  \A b \in Range(p.bindings) :
     \A r \in Range(RoutesOf(b)) :
        /\ RouteExists(p, f, r)
        /\ RouteCapable(f, b.role, r)
        /\ RouteAllowed(p, f, r)
        /\ ContextFits(p, f, r)
        /\ MachineFits(f, r)

(* PortfolioValidator.Validate; expected is the caller's inventory digest,
   abstracted to whether it still names this inventory. *)
Validate(p, f) ==
  /\ f.fresh
  /\ ValidPortfolio(p)
  /\ \A c \in p.channels : EndpointExists(p, f, c.endpoint)
  /\ ValidateBindings(p, f)
  /\ ExposureRank(p.exposure) <= ExposureRank(f.policy.exposure)
  /\ RegimesAllowed(p, f)
  /\ NoSilentMetering(p)
  /\ BudgetsAllow(p, f)
  /\ HostsFit(f)
  /\ Diverse(p)

-----------------------------------------------------------------------------
(* DiffPortfolios: which items were added, removed or modified under their
   key, and which policy fields changed.  Of a pool only the fields the code
   compares count: overage and the fallback to metered pools are not among
   them, nor are reservations and escalations among the policy fields. *)

ItemDiffs(old, new) ==
  LET same == {k \in DOMAIN old \cap DOMAIN new : old[k] = new[k]}
  IN  [k \in (DOMAIN old \cup DOMAIN new) \ same |->
         CASE k \notin DOMAIN old -> "added"
           [] k \notin DOMAIN new -> "removed"
           [] OTHER               -> "modified"]
diffChannels(base, cand) ==
  LET ById(cs) == [k \in {c.id : c \in cs} |->
                     CHOOSE c \in cs : c.id = k]
  IN  ItemDiffs(ById(base), ById(cand))
diffRoleBindings(base, cand) ==
  LET ByRank(bs) == [k \in {<<b.role, b.priority>> : b \in bs} |->
                       CHOOSE b \in bs : <<b.role, b.priority>> = k]
  IN  ItemDiffs(ByRank(base), ByRank(cand))
diffBudgetPools(base, cand) ==
  LET Limits(qs, k) == LET q == CHOOSE q \in qs : q.id = k
                       IN  <<q.regime, q.hard>>
      ById(qs) == [k \in {q.id : q \in qs} |-> Limits(qs, k)]
  IN  ItemDiffs(ById(base), ById(cand))
diffPolicies(base, cand) ==
  {x \in {"exposure", "excluded", "distinctReviewers", "defaults"} :
     base[x] # cand[x]}

(* base is empty, or holds one portfolio: without one everything is new. *)
DiffPortfolios(base, cand) ==
  LET old == IF base = <<>> THEN [channels |-> {}, bindings |-> <<>>,
                                  pools |-> <<>>] ELSE base[1]
  IN  [channels |-> diffChannels(old.channels, cand.channels),
       bindings |-> diffRoleBindings(Range(old.bindings),
                                     Range(cand.bindings)),
       pools    |-> diffBudgetPools(Range(old.pools), Range(cand.pools)),
       policies |-> IF base = <<>> THEN {"exposure"}
                    ELSE diffPolicies(old, cand)]

(* synthesizeContextProfiles: a route whose context profile nobody supplied
   gets a provisional one, the first route to name it deciding for whom. *)
Provisional(p, r) ==
  LET known == HasChannel(p, r.channel)
      ch == ChannelOf(p, r.channel)
  IN  [endpoint |-> r.endpoint, channel |-> r.channel,
       control |-> IF known THEN ch.control ELSE "unknown",
       cache |-> IF known THEN ch.cache ELSE "unknown", limit |-> 8874]
SynthesizeContextProfiles(p, contexts) ==
  LET rs == AllRoutes(p)
      missing == {r.profile : r \in Range(rs)} \ DOMAIN contexts
      First(id) == rs[CHOOSE i \in DOMAIN rs :
                        /\ rs[i].profile = id
                        /\ \A j \in 1 .. i - 1 : rs[j].profile # id]
  IN  [id \in DOMAIN contexts \cup missing |->
         IF id \in DOMAIN contexts THEN contexts[id]
         ELSE Provisional(p, First(id))]
=============================================================================
