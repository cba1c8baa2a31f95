------------------------------ MODULE Doctor ------------------------------
(***************************************************************************)
(* `devcadence doctor` (internal/setup/doctor.go): concurrent runs over    *)
(* one profile cache.  A run reads the cached profile, probes the machine, *)
(* merges what only an inference probe can know into a shallower profile,  *)
(* archives the result and may refresh the cache.  The hazard is evidence  *)
(* that outlives the probe that earned it: across expiry, another machine, *)
(* a restart between the steps, or the write of a run that read earlier.   *)
(***************************************************************************)
EXTENDS Cognition

CONSTANTS
  MaxDoctors,      \* doctor processes that run at the same time
  MaxDoctorRuns,   \* runs altogether
  MaxVerified,     \* of them, runs with an inference probe
  MaxDoctorTime,   \* the clock stops here
  CacheTTL         \* DefaultCacheTTL, in ticks

ASSUME DoctorAssumption ==
  /\ MaxDoctors \in Nat /\ MaxDoctorRuns \in Nat
  /\ MaxVerified \in Nat /\ MaxDoctorTime \in Nat
  /\ CacheTTL \in Nat \ {0}

VARIABLES
  hostFacts,    \* the facts of the machine, which its fingerprint covers
  server,       \* the ollama server, which it does not
  doctorTime,
  slot,         \* the mutable latest profile: {} or one envelope
  doctors,      \* the runs in progress
  doctorRuns,   \* the number of runs so far, which numbers them
  earned,       \* history: the inference probes, by run
  report        \* the report just returned; NoReport after any other step

doctorVars == <<hostFacts, server, doctorTime, slot, doctors, doctorRuns,
                earned, report>>

-----------------------------------------------------------------------------
(* Two machines.                                                           *)

Laptop ==
  [fp |-> "laptop", mlx |-> "cached",
   cli |-> "installed", api |-> "authenticated", git |-> TRUE,
   stateRoot |-> "ready", hosts |-> {"cursor"},
   candidates |-> {[backend |-> "metal", support |-> "supported"],
                   [backend |-> "cpu", support |-> "supported"]},
   unified |-> TRUE, total |-> 64, vram |-> 0]
Machines ==
  {Laptop,
   [Laptop EXCEPT !.fp = "desktop", !.mlx = "absent", !.api = "expired",
      !.stateRoot = "dirs_missing", !.hosts = {}, !.unified = FALSE,
      !.candidates = {[backend |-> "rocm", support |-> "supported"],
                      [backend |-> "vulkan", support |-> "supported"]}]}

NoReport == [status |-> "none"]
NoProfile == [depth |-> "none", endpoints |-> {}, assessment |-> "none"]

InitDoctor ==
  /\ hostFacts = Laptop
  /\ server = "serving"
  /\ doctorTime = 0
  /\ slot = {}
  /\ doctors = {}
  /\ doctorRuns = 0
  /\ earned = {}
  /\ report = NoReport

-----------------------------------------------------------------------------
(* The cache.  Another machine's envelope is as good as none, an expired   *)
(* one is returned with the flag.                                          *)

ReadEnvelope(fp) == {env \in slot : env.fp = fp}
Expired(env) == doctorTime >= env.expires

WriteWithExpiresAt(fp, profile, expires) ==
  slot' = {[fp |-> fp, profile |-> profile, expires |-> expires]}

-----------------------------------------------------------------------------
(* Merging cached inference into a health profile.                         *)

MergeCapabilities(e, old) ==
  [d \in DOMAIN e.caps \cup DOMAIN old.caps |->
     IF ProvenanceRank(Capability(e, d).prov)
          < ProvenanceRank(Capability(old, d).prov) \/ d \notin DOMAIN e.caps
     THEN old.caps[d] ELSE e.caps[d]]

MergeEndpoint(e, old) ==
  [e EXCEPT
     !.accel = IF AccelerationVerified(old) /\ ~AccelerationVerified(e)
               THEN old.accel ELSE @,
     !.caps = MergeCapabilities(e, old),
     !.structured = IF old.structured = "probe_passed"
                    THEN old.structured ELSE @]

UsesCachedInference(e, old) ==
  \/ AccelerationVerified(old) /\ ~AccelerationVerified(e)
  \/ \E d \in DOMAIN old.caps :
       IF d \in DOMAIN e.caps
       THEN ProvenanceRank(e.caps[d].prov) < ProvenanceRank(old.caps[d].prov)
       ELSE old.caps[d].prov \in {"evaluated", "measured"}
  \/ e.structured # "probe_passed" /\ old.structured = "probe_passed"

(* discoverEndpoints after the probe: the profile to use, and whether      *)
(* cached inference is part of it.                                         *)
Combine(profile, cached) ==
  LET olds == UNION {env.profile.endpoints : env \in cached}
      match(e) == {old \in olds : old.id = e.id}
      used == \E e \in profile.endpoints : \E old \in match(e) :
                UsesCachedInference(e, old)
      combined == [profile EXCEPT !.depth = "inference",
                   !.endpoints =
                     {IF match(e) = {} THEN e
                      ELSE MergeEndpoint(e, CHOOSE old \in match(e) : TRUE) :
                        e \in @}]
  IN IF profile.depth = "health" /\ used /\ ValidProfile(combined)
     THEN [profile |-> combined, used |-> TRUE]
     ELSE [profile |-> profile, used |-> FALSE]

EvidenceStatus(run, used) ==
  CASE used /\ run.expired  -> "stale_inference_retained"
    [] used /\ ~run.expired -> "refreshed_health"
    [] OTHER                -> "live"

(* The mutable slot: merged evidence keeps the expiry of the probe that    *)
(* earned it, and expired evidence is never written back.  A failed write  *)
(* is ignored.                                                             *)
RefreshCacheWithNewExpiry(run, profile, used) ==
  IF used /\ run.expired THEN UNCHANGED slot
  ELSE WriteWithExpiresAt(run.facts.fp, profile, doctorTime + CacheTTL)
RefreshCache(run, profile, used) ==
  IF used /\ run.expired THEN UNCHANGED slot
  ELSE WriteWithExpiresAt(run.facts.fp, profile,
         IF used THEN (CHOOSE env \in run.cached : TRUE).expires
         ELSE doctorTime + CacheTTL)

-----------------------------------------------------------------------------
(* Findings and readiness.                                                 *)

Finding(code, severity) == [code |-> code, severity |-> severity]

checkStateRoot(m) ==
  CASE m.stateRoot = "ready" -> {Finding("STATE_ROOT_READY", "info")}
    [] m.stateRoot = "dirs_missing" ->
         {Finding("STATE_DIRS_MISSING", "warning")}
    [] OTHER -> {Finding("STATE_ROOT_UNWRITABLE", "error")}
checkGit(m) == {IF m.git THEN Finding("GIT_READY", "info")
                ELSE Finding("GIT_NOT_FOUND", "error")}
checkHardware(m) ==
  {IF Accelerated(m.candidates) # {} THEN Finding("HARDWARE_READY", "info")
   ELSE Finding("ACCELERATOR_UNVERIFIED", "warning")}
endpointFinding(e) ==
  CASE EndpointViable(e) -> Finding("ENDPOINT_READY", "info")
    [] ~EndpointViable(e) /\ e.health = "ready" ->
         IF e.auth = "unknown" THEN Finding("AUTH_UNKNOWN", "info")
         ELSE Finding("AUTH_INVALID", "warning")
    [] OTHER -> Finding("ENDPOINT_UNHEALTHY", "warning")
Findings(m, endpoints) ==
  checkStateRoot(m) \cup checkGit(m) \cup checkHardware(m)
    \cup {endpointFinding(e) : e \in endpoints}
    \cup IF \E e \in endpoints : EndpointViable(e) THEN {}
         ELSE {Finding("NO_CODING_ENDPOINT", "warning")}

EvaluateScopeReadiness(findings, endpoints, hosts) ==
  LET local == {e \in endpoints : KindOf(e.id) = "local_runtime"}
      clis == {e \in endpoints : KindOf(e.id) = "authenticated_cli"}
      path(es) == CASE \E e \in es : EndpointViable(e) -> "ready"
                    [] (\A e \in es : ~EndpointViable(e)) /\
                       (\E e \in es : e.health = "ready" /\ e.auth = "unknown")
                         -> "unknown"
                    [] es = {} -> "unavailable"
                    [] OTHER -> "not_ready"
      localStatus == CASE local = {} -> "unavailable"
                       [] \E e \in local : e.health = "ready" -> "ready"
                       [] OTHER -> "not_ready"
  IN [setup |-> IF \E f \in findings : f.severity = "error"
                THEN "not_ready" ELSE "ready",
      cognition |-> path(endpoints), inference |-> localStatus,
      model |-> localStatus, cli |-> path(clis),
      host |-> IF hosts = {} THEN "unavailable" ELSE "ready"]

(* Where a profile looks for a role's endpoint.                            *)
CandidateEndpoints(profile, role, local, remote) ==
  CASE profile \in {"offline", "local_heavy"} -> local
    [] profile = "cloud_cognition" -> remote
    [] profile = "hybrid_thin" ->
         CASE role \in {"scout", "classifier"} -> local
           [] role \in {"implementer", "architecture_reviewer"} -> remote
           [] OTHER -> local \cup remote
    [] profile \in {"custom", "none"} -> local \cup remote

ProfileSatisfied(profile, local, remote) ==
  CASE profile = "cloud_cognition" -> remote # {}
    [] profile = "offline" -> local # {}
    [] profile = "local_heavy" -> \E e \in local : AccelerationVerified(e)
    [] profile = "hybrid_thin" -> local # {} /\ remote # {}
    [] profile \in {"custom", "none"} -> local \cup remote # {}

Roles == {"scout", "classifier", "implementer", "correctness_reviewer",
          "architecture_reviewer"}

evaluateReadiness(scope, findings, endpoints) ==
  LET viable == {e \in endpoints : EndpointViable(e)}
      local == {e \in viable : KindOf(e.id) = "local_runtime"}
      remote == viable \ local
      routed(role) ==
        /\ role \in Roles
        /\ Route(role, DefaultPolicy,
                 CandidateEndpoints(scope.profile, role, local, remote)) # ""
      severe(s) == \E f \in findings : f.severity = s
  IN CASE severe("error") -> "action_required"
       [] ~severe("error") /\
          (\/ ~ProfileSatisfied(scope.profile, local, remote)
           \/ \E role \in scope.roles : ~routed(role)) -> "partially_ready"
       [] OTHER -> IF scope.evidence = "stale_inference_retained"
                      \/ severe("warning")
                   THEN "ready_with_reduced_capability" ELSE "ready"

(* Recommend: the eligible profile that comes first, with no preference    *)
(* given.  The recommendation decides nothing else.                        *)
Recommend(m, endpoints) ==
  LET ready == {e \in endpoints : e.health = "ready"}
      local == {e \in ready : KindOf(e.id) = "local_runtime"}
      remote == {e \in ready \ local :
        /\ ExposureRank(e.exposure) <= ExposureRank(DefaultPolicy.exposure)
        /\ CostRank(e.cost) <= CostRank(DefaultPolicy.cost)}
      routes(role, es) == Route(role, DefaultPolicy, es) # ""
      heavyMem == /\ Accelerated(m.candidates) # {}
                  /\ (m.unified /\ m.total >= 64) \/ m.vram >= 24
      thinMem == m.total >= 16 \/ m.vram >= 8
      heavy == /\ heavyMem
               /\ \E e \in local : AccelerationVerified(e)
               /\ routes("implementer", local)
      cloud == routes("implementer", remote)
      offline == thinMem /\ routes("scout", local)
  IN CASE heavy -> "local_heavy"
       [] ~heavy /\ offline /\ cloud -> "hybrid_thin"
       [] ~heavy /\ ~offline /\ cloud -> "cloud_cognition"
       [] ~heavy /\ offline /\ ~cloud -> "offline"
       [] OTHER -> "none"

(* What a caller may ask readiness for; with evidence "" the run fills in   *)
(* what it found, and the command line asks with "live".                   *)
Scopes ==
  {[profile |-> "none", roles |-> {}, evidence |-> ""],
   [profile |-> "local_heavy", roles |-> {"scout"}, evidence |-> "live"],
   [profile |-> "hybrid_thin", roles |-> {"scout", "painter"},
    evidence |-> ""]}

-----------------------------------------------------------------------------
(* A run.                                                                  *)

(* NewDoctor and the beginning of Run: the facts, their fingerprint and    *)
(* the cached profile, if it belongs to this machine.                      *)
StartDoctor(verify) ==
  LET cached == ReadEnvelope(hostFacts.fp)
  IN /\ Cardinality(doctors) < MaxDoctors
     /\ doctorRuns < MaxDoctorRuns
     /\ verify # "" =>
          Cardinality(earned)
            + Cardinality({d \in doctors : d.verify # ""}) < MaxVerified
     /\ doctorRuns' = doctorRuns + 1
     /\ doctors' = doctors \cup
          {[stage |-> "read", id |-> doctorRuns + 1, facts |-> hostFacts,
            verify |-> verify, cached |-> cached, readAt |-> doctorTime,
            expired |-> \E env \in cached : Expired(env),
            profile |-> NoProfile]}
     /\ report' = NoReport
     /\ UNCHANGED <<hostFacts, server, doctorTime, slot, earned>>

(* What the adapters meet: the facts of the run and the server as it is now. *)
Seen(facts, now) ==
  [x \in DOMAIN facts \cup {"ollama"} |->
     IF x = "ollama" THEN now ELSE facts[x]]

(* cognition.Service.Profile at health depth, or at inference depth for    *)
(* the endpoint to verify; no declarations are passed.                     *)
ProbeMachine(run, answer) ==
  LET seen == Seen(run.facts, server)
  IN /\ run.stage = "read"
     /\ IF run.verify = "" THEN answer = "none"
        ELSE answer \in Answers(run.verify)
     /\ doctors' = (doctors \ {run}) \cup
          {[run EXCEPT !.stage = "probed",
              !.profile = Profile(seen, NoCapabilities, run.verify, answer,
                                  run.id)]}
     /\ earned' = IF run.verify = "" THEN earned
                  ELSE earned \cup
                       {[run |-> run.id, endpoint |-> run.verify,
                         offloaded |-> answer = "gpu", fp |-> run.facts.fp,
                         until |-> 0]}
     /\ report' = NoReport
     /\ UNCHANGED <<hostFacts, server, doctorTime, slot, doctorRuns>>

Report(run, merged) ==
  LET endpoints == merged.profile.endpoints
      status == EvidenceStatus(run, merged.used)
      findings == Findings(run.facts, endpoints)
      asked(s) == [s EXCEPT !.evidence = IF @ = "" THEN status ELSE @]
  IN [status |-> status, id |-> run.id, fp |-> run.facts.fp,
      readAt |-> run.readAt, profile |-> merged.profile,
      scopes |-> EvaluateScopeReadiness(findings, endpoints, run.facts.hosts),
      readiness |-> [s \in Scopes |->
                       evaluateReadiness(asked(s), findings, endpoints)],
      recommended |-> Recommend(run.facts, endpoints)]

(* The rest of Run: the profile goes to the archive (its id is fresh) and  *)
(* then to the cache; a cache that cannot be written is ignored.           *)
FinishDoctor(run, written) ==
  LET merged == Combine(run.profile, run.cached)
  IN /\ run.stage = "probed"
     /\ doctors' = doctors \ {run}
     /\ IF written THEN RefreshCache(run, merged.profile, merged.used)
        ELSE UNCHANGED slot
     /\ earned' = {IF p.run # run.id THEN p
                   ELSE [p EXCEPT !.until = doctorTime + CacheTTL] :
                     p \in earned}
     /\ report' = Report(run, merged)
     /\ UNCHANGED <<hostFacts, server, doctorTime, doctorRuns>>

(* archiveProfile fails: no report, and the cache is left alone.           *)
FailDoctor(run) ==
  /\ run.stage = "probed"
  /\ doctors' = doctors \ {run}
  /\ report' = NoReport
  /\ UNCHANGED <<hostFacts, server, doctorTime, slot, doctorRuns, earned>>

(* CacheManager.Remove, from setup's remove_stale_cache.                   *)
RemoveCache ==
  /\ slot # {} /\ slot' = {} /\ report' = NoReport
  /\ UNCHANGED <<hostFacts, server, doctorTime, doctors, doctorRuns, earned>>

ServerStops ==
  /\ server = "serving" /\ server' = "down"
  /\ report' = NoReport
  /\ UNCHANGED <<hostFacts, doctorTime, slot, doctors, doctorRuns, earned>>

(* The state directory on another machine, where no run is in progress.    *)
MachineChanges(m) ==
  /\ m # hostFacts
  /\ hostFacts' = m
  /\ doctors' = {}
  /\ report' = NoReport
  /\ UNCHANGED <<server, doctorTime, slot, doctorRuns, earned>>

DoctorTick ==
  /\ doctorTime < MaxDoctorTime
  /\ doctorTime' = doctorTime + 1
  /\ report' = NoReport
  /\ UNCHANGED <<hostFacts, server, slot, doctors, doctorRuns, earned>>

NextDoctor ==
  \/ \E verify \in {"", "ollama", "mlx"} : StartDoctor(verify)
  \/ \E run \in doctors,
        answer \in {"none", "gpu", "gpu_disputed"} :
       ProbeMachine(run, answer)
  \/ \E run \in doctors, written \in BOOLEAN : FinishDoctor(run, written)
  \/ \E run \in doctors : FailDoctor(run)
  \/ RemoveCache
  \/ ServerStops
  \/ \E m \in Machines : MachineChanges(m)
  \/ DoctorTick

SpecDoctor == InitDoctor /\ [][NextDoctor]_doctorVars

-----------------------------------------------------------------------------
(* Acceleration is reported as verified only where a probe of that         *)
(* endpoint on this machine saw it offloaded, undisputed; and unless the   *)
(* run says stale_inference_retained, the profile of that probe had not    *)
(* outlived CacheTTL when the run read it, however often health runs       *)
(* wrote the evidence back in between.  The profile is valid whatever was  *)
(* merged into it (discoverEndpoints).                                     *)
EvidenceIsEarned ==
  report # NoReport =>
    /\ ValidProfile(report.profile)
    /\ \A e \in report.profile.endpoints :
         AccelerationVerified(e) =>
           \E p \in earned :
             /\ p.run = e.accel.probe /\ p.endpoint = e.id
             /\ p.offloaded /\ p.fp = report.fp
             /\ \/ report.status = "stale_inference_retained"
                \/ p.run = report.id
                \/ report.readAt < p.until

=============================================================================
