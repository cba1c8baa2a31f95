----------------------------- MODULE Cognition -----------------------------
(***************************************************************************)
(* Cognition endpoints (internal/cognition): what each adapter discovers,  *)
(* what an inference probe establishes, how acceleration evidence is       *)
(* judged, and how a role is routed.  All of it is a function of what the  *)
(* machine answered, so the module has no state; Doctor.tla runs it.       *)
(*                                                                         *)
(* An adapter serves at most one endpoint here.  Text (findings, reasons,  *)
(* measurements, versions) is left out; a Boolean or a status stands for   *)
(* each condition the code tests.                                          *)
(***************************************************************************)
EXTENDS Integers, FiniteSets

Adapters == {"ollama", "mlx", "cli", "api"}
LocalRuntimes == {"ollama", "mlx"}

KindOf(id) == CASE id \in LocalRuntimes -> "local_runtime"
                [] id = "cli"           -> "authenticated_cli"
                [] id = "api"           -> "remote_api"
LocalityOf(id) == CASE id \in LocalRuntimes -> "local"
                    [] id = "cli" -> "remote_inference_local_tools"
                    [] id = "api" -> "remote"

NoAcceleration == [backend |-> "none", state |-> "none", probe |-> 0]
CostRank(c) == CASE c = "local_compute" -> 0 [] c = "subscription" -> 1
                 [] c = "remote_economy" -> 2 [] c = "remote_strong" -> 3
                 [] c = "frontier" -> 4 [] OTHER -> 5
ExposureRank(x) == CASE x = "local_only" -> 0 [] x = "semantic" -> 1
                     [] x = "focused_snippets" -> 2 [] x = "files" -> 3
                     [] x = "tool_mediated_worktree" -> 4
                     [] x = "unrestricted" -> 5 [] OTHER -> 6
GradeRank(g) == CASE g = "weak" -> 1 [] g = "medium" -> 2
                  [] g = "strong" -> 3 [] OTHER -> 0
ProvenanceRank(p) == CASE p = "evaluated" -> 3 [] p = "measured" -> 2
                       [] p = "configured" -> 1 [] OTHER -> 0

(* Capabilities are a partial function from dimension to graded claim. *)
NoCapabilities == [d \in {} |-> d]
Capability(e, d) == IF d \in DOMAIN e.caps THEN e.caps[d]
                    ELSE [grade |-> "unknown", prov |-> "unknown"]

Endpoint(id, health, auth, cost, exposure, structured, model) ==
  [id |-> id, health |-> health, auth |-> auth, cost |-> cost,
   exposure |-> exposure, structured |-> structured, model |-> model,
   accel |-> NoAcceleration, caps |-> NoCapabilities]
LocalEndpoint(id, health, structured, model) ==
  Endpoint(id, health, "not_applicable", "local_compute", "local_only",
           structured, model)
CLIEndpoint(health) ==
  Endpoint("cli", health, "unknown", "unknown", "tool_mediated_worktree",
           "unknown", TRUE)
RemoteEndpoint(auth, cost) ==
  Endpoint("api", "unverified", auth, cost, "focused_snippets", "declared",
           TRUE)

AccelerationVerified(e) ==
  e.accel.state = "verified" /\ e.accel.backend # "cpu"

(* What "usable" means to the readiness report, the portfolio validator and
   the planner's choice of an endpoint alike. *)
EndpointViable(e) ==
  /\ e.health = "ready"
  /\ \/ KindOf(e.id) = "local_runtime"
     \/ e.auth \in {"authenticated", "not_applicable"}

(* CognitionEndpoint.Validate and MachineCapabilityProfile.Validate: the
   rules that relate fields to each other. *)
ValidEndpoint(e) ==
  /\ e.accel # NoAcceleration => LocalityOf(e.id) = "local"
  /\ KindOf(e.id) = "local_runtime" => e.auth \in {"not_applicable", "unknown"}
ValidProfile(p) ==
  /\ \A e \in p.endpoints : ValidEndpoint(e)
  /\ \A e, f \in p.endpoints : e.id = f.id => e = f
  /\ p.depth # "inference" => \A e \in p.endpoints : e.accel.state # "verified"

-----------------------------------------------------------------------------
(* Discovery.  c is what the adapter meets on the machine.  No adapter
   reports "ready": only a probe does. *)

OllamaEndpoint(health, structured, model) ==
  LocalEndpoint("ollama", health, structured, model)
DiscoverOllama(c) ==
  CASE c = "absent"   -> {}
    [] c = "old"      -> {OllamaEndpoint("unsupported", "unknown", FALSE)}
    [] c = "down"     -> {OllamaEndpoint("unhealthy", "declared", FALSE)}
    [] c = "no_model" -> {OllamaEndpoint("not_configured", "declared", FALSE)}
    [] c = "serving"  -> {OllamaEndpoint("unverified", "declared", TRUE)}

DiscoverMLX(c) ==
  CASE c = "absent"       -> {}
    [] c = "garbled" -> {LocalEndpoint("mlx", "unhealthy", "unknown", FALSE)}
    [] c = "unimportable" ->
         {LocalEndpoint("mlx", "not_installed", "unknown", FALSE)}
    [] c \in {"silent", "no_mlx_lm", "no_model"} ->
         {LocalEndpoint("mlx", "not_configured", "unknown", FALSE)}
    [] c = "cached" -> {LocalEndpoint("mlx", "unverified", "unknown", TRUE)}

DiscoverCLI(c) ==
  CASE c = "absent"    -> {}
    [] c = "old"       -> {CLIEndpoint("unsupported")}
    [] c = "installed" -> {CLIEndpoint("installed")}

(* A client that fails to describe costs this adapter its endpoints only. *)
DiscoverAPI(c) ==
  IF c \in {"none", "describe_error"} THEN {}
  ELSE {RemoteEndpoint(c, "remote_economy")}

Discover(m) == DiscoverOllama(m.ollama) \cup DiscoverMLX(m.mlx)
               \cup DiscoverCLI(m.cli) \cup DiscoverAPI(m.api)

(* setCapability: an operator's declaration (always "configured") never
   replaces a stronger provenance. *)
ApplyDeclaration(e, declared) ==
  [e EXCEPT !.caps = [d \in DOMAIN e.caps \cup DOMAIN declared |->
     IF d \notin DOMAIN declared
        \/ ProvenanceRank(Capability(e, d).prov) > ProvenanceRank("configured")
     THEN e.caps[d]
     ELSE [grade |-> declared[d], prov |-> "configured"]]]

-----------------------------------------------------------------------------
(* Probing.  An answer is what the runtime did with the synthetic prompt. *)

Signal(trust, backend, offloaded) ==
  [trust |-> trust, backend |-> backend, offloaded |-> offloaded]

ProbeResult(status, auth, backend, signals) ==
  [status |-> status, auth |-> auth, backend |-> backend, signals |-> signals]
NoBackend(status) == ProbeResult(status, "", "", {})

(* Residency is read after generating; a runtime that offloaded does not say
   through which backend. *)
ProbeOllama(answer) ==
  CASE answer = "gpu" -> ProbeResult("observed", "", "unknown",
                           {Signal("authoritative", "unknown", TRUE)})
    [] answer = "cpu" -> ProbeResult("observed", "", "cpu",
                           {Signal("authoritative", "cpu", FALSE)})
    [] answer = "unobserved" -> NoBackend("observed")
    [] OTHER -> NoBackend(answer)

ProbeMLX(answer) ==
  CASE answer \in {"gpu", "gpu_disputed"} ->
         ProbeResult("observed", "", "metal",
           {Signal("authoritative", "metal", TRUE),
            Signal("corroborating", "metal", answer = "gpu")})
    [] answer = "cpu" -> ProbeResult("observed", "", "metal",
                           {Signal("authoritative", "cpu", FALSE)})
    [] answer = "unobserved" -> ProbeResult("observed", "", "unknown", {})
    [] OTHER -> NoBackend(answer)

(* Remote inference: no backend to describe, and text may only downgrade
   the authentication state. *)
ProbeRemote(answer) ==
  CASE answer = "answered"  -> NoBackend("observed")
    [] answer = "signed_out" -> ProbeResult("error", "unauthenticated", "", {})
    [] OTHER -> NoBackend(answer)

Answers(id) ==
  CASE id = "ollama" -> {"gpu", "cpu", "unobserved", "timeout", "broken"}
    [] id = "mlx" -> {"gpu", "gpu_disputed", "cpu", "unobserved", "error"}
    [] OTHER -> {"answered", "signed_out", "timeout"}

Probe(id, answer) == CASE id = "ollama" -> ProbeOllama(answer)
                       [] id = "mlx"    -> ProbeMLX(answer)
                       [] OTHER         -> ProbeRemote(answer)

Accelerated(candidates) ==
  {c \in candidates : c.backend # "cpu" /\ c.support = "supported"}

(* The backend a probe is judged against: the adapter's, the machine's best
   candidate, or - for an offload nobody named - the only supported one. *)
SupportRank(l) == CASE l = "supported" -> 3 [] l = "uncertain" -> 2
                    [] l = "unknown" -> 1 [] OTHER -> 0
ExpectedBackend(candidates) ==
  LET acc == {c \in candidates : c.backend # "cpu"}
  IN  IF acc = {} THEN "cpu"
      ELSE (CHOOSE c \in acc : \A d \in acc :
              SupportRank(c.support) >= SupportRank(d.support)).backend
ResolveUnnamedBackend(candidates) ==
  IF Cardinality(Accelerated(candidates)) = 1
  THEN (CHOOSE c \in Accelerated(candidates) : TRUE).backend ELSE "unknown"

JudgedBackend(result, candidates) ==
  LET b == IF result.backend = "" THEN ExpectedBackend(candidates)
           ELSE result.backend
  IN  IF b = "unknown" THEN ResolveUnnamedBackend(candidates) ELSE b
JudgedSignals(result, candidates) ==
  {IF s.backend = "unknown" /\ result.backend = "unknown"
   THEN [s EXCEPT !.backend = ResolveUnnamedBackend(candidates)] ELSE s :
     s \in result.signals}

(* EvaluateAcceleration: verified only by an authoritative offload signal
   that nothing contradicts, on a backend not assessed unsupported. *)
EvaluateAcceleration(backend, candidates, signals, succeeded) ==
  LET assessed == {c \in candidates : c.backend = backend}
      offload == \E s \in signals : s.trust = "authoritative"
                                    /\ s.backend = backend /\ s.offloaded
      fallback == \E s \in signals : s.trust = "authoritative"
                     /\ ~s.offloaded /\ s.backend \in {backend, "cpu"}
      disputed == offload /\ \E s \in signals : s.trust = "corroborating"
                     /\ s.backend = backend /\ ~s.offloaded
      candidateState == IF assessed = {} THEN "unknown" ELSE "candidate"
  IN  CASE \E c \in assessed : c.support = "unsupported" -> "unsupported"
        [] OTHER -> CASE ~succeeded -> candidateState
                      [] succeeded /\ (disputed \/ (offload /\ fallback))
                           -> "unverified"
                      [] succeeded /\ ~disputed /\ offload /\ ~fallback
                           -> "verified"
                      [] succeeded /\ ~offload /\ fallback -> "failed"
                      [] OTHER -> "unverified"

(* applyProbeResult: health, the downgrade-only authentication, and - for a
   local endpoint - the acceleration evidence of probe number n. *)
ApplyProbeResult(e, result, candidates, n) ==
  LET succeeded == result.status = "observed"
      backend   == JudgedBackend(result, candidates)
      state     == EvaluateAcceleration(backend, candidates,
                     JudgedSignals(result, candidates), succeeded)
  IN  [e EXCEPT
         !.health = IF succeeded THEN "ready"
                    ELSE IF @ \in {"ready", "unverified"} THEN "unhealthy"
                    ELSE @,
         !.auth = IF result.auth # "" THEN result.auth ELSE @,
         !.accel = IF LocalityOf(e.id) # "local" THEN @
                   ELSE [backend |-> backend, state |-> state, probe |-> n]]

(* probeEndpoints: only the named endpoint is invoked; one without a model
   has nothing to run, and a transport error makes it unhealthy. *)
ProbeEndpoint(e, target, answer, candidates, n) ==
  CASE e.id # target \/ e.health \in {"not_installed", "unsupported"} -> e
    [] OTHER ->
        IF answer = "broken" /\ e.model THEN [e EXCEPT !.health = "unhealthy"]
        ELSE ApplyProbeResult(e, IF e.model THEN Probe(e.id, answer)
                                 ELSE NoBackend("absent"), candidates, n)

(* Assess: the verdict a profile carries. *)
Assess(endpoints, git) ==
  LET usable == {e \in endpoints : e.health = "ready"}
  IN  CASE ~git -> "partially_ready"
        [] git /\ usable = {} -> "model_cognition_unavailable"
        [] git /\ \E e \in usable :
             GradeRank(Capability(e, "implementation").grade)
               >= GradeRank("strong") -> "ready"
        [] OTHER -> "ready_with_reduced_capability"

(* Profile: discovery, declarations, and at inference depth one probe. *)
Profile(m, declared, target, answer, n) ==
  LET found == {ApplyDeclaration(e, declared) : e \in Discover(m)}
      endpoints == IF target = "" THEN found
                   ELSE {ProbeEndpoint(e, target, answer, m.candidates, n) :
                           e \in found}
  IN  [depth |-> IF target = "" THEN "health" ELSE "inference",
       endpoints |-> endpoints, assessment |-> Assess(endpoints, m.git)]

-----------------------------------------------------------------------------
(* Routing: hard constraints, then preference, cost, exposure, grade, id. *)

Requirement(role) ==
  CASE role = "scout" ->
         [dim |-> "repository", min |-> "unknown", so |-> FALSE]
    [] role = "classifier" ->
         [dim |-> "repository", min |-> "unknown", so |-> TRUE]
    [] role = "implementer" ->
         [dim |-> "implementation", min |-> "strong", so |-> FALSE]
    [] role = "correctness_reviewer" ->
         [dim |-> "review", min |-> "medium", so |-> FALSE]
    [] role = "architecture_reviewer" ->
         [dim |-> "architecture", min |-> "strong", so |-> FALSE]

DefaultPolicy == [exposure |-> "focused_snippets", cost |-> "remote_economy"]

Routable(e, req, policy) ==
  /\ e.health = "ready"
  /\ e.auth \notin {"unauthenticated", "expired", "error"}
  /\ ExposureRank(e.exposure) <= ExposureRank(policy.exposure)
  /\ CostRank(e.cost) <= CostRank(policy.cost)
  /\ req.min # "unknown" =>
       GradeRank(Capability(e, req.dim).grade) >= GradeRank(req.min)
  /\ req.so => e.structured = "probe_passed"

Ahead(e, f, req) ==
  \/ CostRank(e.cost) < CostRank(f.cost)
  \/ /\ CostRank(e.cost) = CostRank(f.cost)
     /\ \/ ExposureRank(e.exposure) < ExposureRank(f.exposure)
        \/ /\ ExposureRank(e.exposure) = ExposureRank(f.exposure)
           /\ GradeRank(Capability(e, req.dim).grade)
                >= GradeRank(Capability(f, req.dim).grade)

Route(role, policy, endpoints) ==
  LET req == Requirement(role)
      eligible == {e \in endpoints : Routable(e, req, policy)}
  IN  IF eligible = {} THEN ""
      ELSE (CHOOSE e \in eligible : \A f \in eligible : Ahead(e, f, req)).id
=============================================================================
