--------------------------- MODULE SetupPlanner ---------------------------
(***************************************************************************)
(* The remediation planner: from a doctor report and the facts of the      *)
(* machine to the plan that Setup applies.  The plan is built by one call  *)
(* without side effects; what is hard is that each of its many inputs      *)
(* switches actions on and off, and that the result must pass              *)
(* SetupPlan.Validate whatever the combination.                            *)
(***************************************************************************)
EXTENDS Naturals, Sequences, FiniteSets, SequencesExt

CONSTANTS
  NumDevices   \* accelerators of a machine that has any

ASSUME NumDevicesAssumption == NumDevices \in Nat \ {0}

VARIABLES
  observed,   \* the doctor report and the facts, "none" before doctor ran
  proposal    \* the plan, or why there is none

plannerVars == <<observed, proposal>>

-----------------------------------------------------------------------------
(* What can be observed of the machine.                                    *)

(* A driver is bound to it, its architecture was recognised, and the       *)
(* process runs natively on it.                                            *)
AcceleratorDevices ==
  [vendor : {"nvidia"}, bound : BOOLEAN, arch : {""}, native : {TRUE}]
    \cup [vendor : {"amd"}, bound : BOOLEAN, arch : {"", "supported"},
          native : {TRUE}]
    \cup [vendor : {"apple"}, bound : {TRUE}, arch : {""}, native : BOOLEAN]
    \cup [vendor : {"intel"}, bound : {TRUE}, arch : {""}, native : {TRUE}]

(* The same kind of device in every slot, or a mixed pair.                 *)
Accelerators ==
  {<<>>} \cup {[i \in 1..NumDevices |-> d] : d \in AcceleratorDevices}
    \cup {[i \in 1..NumDevices |->
             [vendor |-> IF i = 1 THEN "amd" ELSE "nvidia",
              bound |-> FALSE, arch |-> "supported", native |-> TRUE]]}

EnvironmentFacts ==
  [devices : Accelerators, nodes : BOOLEAN,
   software : {{}, {"ollama", "hf"}, {"mlx-lm", "loader"}},
   sameMachine : BOOLEAN]

DiscoveredEndpoints ==
  {<<[id |-> "ollama", health |-> h, auth |-> "not_required", ref |-> ""],
     [id |-> "codex", health |-> "ready", auth |-> "expired", ref |-> "cred"],
     [id |-> "claude", health |-> "ready", auth |-> "expired", ref |-> ""]>> :
     h \in {"not_configured", "unhealthy"}}

DoctorReports ==
  [missing : SUBSET {"state_dirs", "git"}, endpoints : DiscoveredEndpoints,
   stale : BOOLEAN]

NoObservation == [report |-> "none"]

InitPlanner == observed = NoObservation /\ proposal = [status |-> "none"]

Diagnose ==
  /\ observed = NoObservation
  /\ observed' \in [report : DoctorReports, facts : EnvironmentFacts]
  /\ UNCHANGED proposal

-----------------------------------------------------------------------------
(* AssessBackends: per device the backends that could drive it, each with  *)
(* the software it still lacks.                                            *)

presentRuntimes(facts) == facts.software \cap {"mlx-lm", "ollama"}

Candidate(backend, i, lacks) ==
  [backend |-> backend, device |-> i, lacks |-> lacks]

RuntimeLacks(facts) == IF presentRuntimes(facts) = {} THEN {"ollama"} ELSE {}

appleCandidate(facts, i) ==
  Candidate("metal", i,
            IF facts.devices[i].native /\ presentRuntimes(facts) = {}
            THEN {"ollama", "mlx-lm"} ELSE {})

nvidiaCandidate(facts, i) ==
  Candidate("cuda", i,
            IF ~facts.devices[i].bound THEN {"nvidia-driver"}
            ELSE RuntimeLacks(facts) \cup
                 IF facts.nodes THEN {} ELSE {"nvidia-driver-device-access"})

rocmCandidate(facts, i) ==
  LET d == facts.devices[i]
  IN Candidate("rocm", i,
       (IF d.arch = "" THEN {"amdkfd-compute-topology"} ELSE {}) \cup
       (IF ~d.bound THEN {"amdgpu-driver"}
        ELSE IF ~facts.nodes THEN {"amdkfd-device-access"}
        ELSE IF d.arch = "supported" THEN RuntimeLacks(facts)
        ELSE {}))

vulkanCandidate(facts, i) ==
  LET loader == "loader" \in facts.software
  IN Candidate("vulkan", i,
       IF facts.nodes /\ loader THEN RuntimeLacks(facts)
       ELSE (IF loader THEN {} ELSE {"vulkan-loader"}) \cup
            (IF facts.nodes THEN {} ELSE {"drm-render-node-access"}))

BackendsFor(vendor) ==
  CASE vendor = "apple" -> {"metal"} [] vendor = "nvidia" -> {"cuda"}
    [] vendor = "amd" -> {"rocm", "vulkan"} [] vendor = "intel" -> {"vulkan"}

CandidateFor(backend, facts, i) ==
  CASE backend = "cuda" -> nvidiaCandidate(facts, i)
    [] backend = "metal" -> appleCandidate(facts, i)
    [] backend = "rocm" -> rocmCandidate(facts, i)
    [] backend = "vulkan" -> vulkanCandidate(facts, i)

(* Sorted by backend, then by device.                                      *)
CandidatesOf(backend, facts) ==
  FlattenSeq([i \in DOMAIN facts.devices |->
                IF backend \in BackendsFor(facts.devices[i].vendor)
                THEN <<CandidateFor(backend, facts, i)>> ELSE <<>>])
AssessBackends(facts) ==
  CandidatesOf("cuda", facts) \o CandidatesOf("metal", facts)
    \o CandidatesOf("rocm", facts) \o CandidatesOf("vulkan", facts)

-----------------------------------------------------------------------------
(* Actions.  An action gets its id, which ends in its place, when the plan *)
(* is put together; `key` is its idempotency key, and a manual action has  *)
(* no operation.                                                           *)

AuthorityRank == [read_only |-> 0, user_confirmation |-> 1,
                  privileged_confirmation |-> 2, high_impact_manual |-> 3]

IntrinsicPolicy(kind) ==
  IF kind = "ensure_local_model"
  THEN [effects |-> {"network_access", "model_download", "filesystem_write"},
        authority |-> "user_confirmation"]
  ELSE [effects |-> {"filesystem_write"}, authority |-> "user_confirmation"]

Automatic(kind, key, deps, post) ==
  [id |-> <<>>, label |-> kind, op |-> kind, key |-> key, deps |-> deps,
   post |-> post, effects |-> IntrinsicPolicy(kind).effects,
   authority |-> IntrinsicPolicy(kind).authority]

Manual(label, key, effects, deps, post) ==
  [id |-> <<>>, label |-> label, op |-> "none", key |-> key, deps |-> deps,
   post |-> post, effects |-> effects, authority |-> "high_impact_manual"]

NewCreateDirectoryAction(loc) ==
  Automatic("create_directory", <<"create_dir", loc>>, {},
            {<<"managed_dir_exists", loc>>})

NewWriteManagedConfigAction(profile, deps) ==
  Automatic("write_managed_config", <<"config_set", profile>>, deps,
            {<<"managed_dir_exists", "state">>})

NewRemoveStaleCacheAction(deps) ==
  Automatic("remove_stale_cache", <<"remove_cache", "profile">>, deps, {})

NewManualGitAction ==
  Manual("git", <<"manual_install_git">>,
         {"package_download", "filesystem_write"}, {},
         {<<"command_available", "git">>})

NewManualReauthenticateAction(ep) ==
  Manual("auth", <<"reauthenticate", ep.id>>, {"authentication"}, {},
         {<<"endpoint_authenticated", ep.id, ep.ref>>})

(* Mutation: the key of a driver action does not name the device.          *)
NewManualDriverActionAnyDevice(c, node) ==
  Manual("driver", <<"manual_install_driver", c.backend>>,
         {"privilege_elevation", "device_permission_change",
          "package_download"}, {},
         {<<"kernel_driver_bound", c.device>>, <<"device_node", node>>})

(* The NVIDIA and the ROCm driver.                                         *)
NewManualDriverAction(c, node) ==
  Manual("driver", <<"manual_install_driver", c.backend, c.device>>,
         {"privilege_elevation", "device_permission_change",
          "package_download"}, {},
         {<<"kernel_driver_bound", c.device>>, <<"device_node", node>>})

NewManualPermissionsAction(c, node) ==
  Manual("perm", <<"manual_device_access", c.backend, c.device>>,
         {"privilege_elevation", "device_permission_change"}, {},
         {<<"device_node", node>>})

(* One local model: pulled by an executable whose path and version are     *)
(* known for this very machine, or by hand; the postcondition names the    *)
(* resolved revision either way.                                           *)
ensureLocalModelAction(runtime, command, in, deps) ==
  LET post == {<<"model_present", runtime, "pinned">>}
  IN IF in.facts.sameMachine /\ command \in in.facts.software
     THEN Automatic("ensure_local_model", <<runtime, "pull">>, deps, post)
     ELSE Manual("pull_model", <<"manual", runtime, "pull">>,
                 {"package_download", "filesystem_write"}, deps, post)

-----------------------------------------------------------------------------
(* PlanWithContext, block by block.                                        *)

SetupTargets == {"all", "hardware", "inference", "cognition", "auth"}

DirActions(in, target) ==
  IF "state_dirs" \in in.report.missing /\ target \in {"all", "hardware"}
  THEN [i \in 1..3 |->
          NewCreateDirectoryAction(<<"state", "artifacts_setup", "tmp">>[i])]
  ELSE <<>>

GitActions(in, target) ==
  IF "git" \in in.report.missing /\ target \in {"all", "hardware"}
  THEN <<NewManualGitAction>> ELSE <<>>

DriverAction(c) ==
  LET node == IF c.backend = "cuda" THEN "nvidiactl" ELSE "kfd"
  IN CASE c.lacks \cap {"nvidia-driver", "amdgpu-driver"} # {} ->
            <<NewManualDriverAction(c, node)>>
       [] c.lacks \cap {"nvidia-driver-device-access",
                        "amdkfd-device-access"} # {} ->
            <<NewManualPermissionsAction(c, node)>>
       [] OTHER -> <<>>

HardwareActions(in, target, deps) ==
  IF target \in {"all", "hardware"}
  THEN LET candidates == AssessBackends(in.facts)
       IN FlattenSeq([i \in DOMAIN candidates |->
                        DriverAction(candidates[i])])
       \o (IF in.report.stale
           THEN <<NewRemoveStaleCacheAction(deps)>> ELSE <<>>)
  ELSE <<>>

(* Only an expired endpoint with a credential that can be checked.         *)
AuthActions(in, target) ==
  IF target \in {"all", "auth"}
  THEN FlattenSeq([i \in DOMAIN in.report.endpoints |->
         LET ep == in.report.endpoints[i]
         IN IF ep.auth = "expired" /\ ep.ref # ""
            THEN <<NewManualReauthenticateAction(ep)>> ELSE <<>>])
  ELSE <<>>

WantsOllama(in, selected) ==
  \/ "ollama" \in selected
  \/ \E i \in DOMAIN in.report.endpoints :
       /\ in.report.endpoints[i].id = "ollama"
       /\ in.report.endpoints[i].health \in {"ready", "not_configured"}

(* Apple silicon only.                                                     *)
WantsMlx(in, selected) ==
  /\ in.facts.devices # <<>> /\ in.facts.devices[1].vendor = "apple"
  /\ "mlx" \in selected \/ "mlx-lm" \in in.facts.software

ModelActions(in, target, selected, deps) ==
  IF target \in {"all", "cognition", "inference"}
  THEN (IF WantsOllama(in, selected)
        THEN <<ensureLocalModelAction("ollama", "ollama", in, deps)>>
        ELSE <<>>)
       \o (IF WantsMlx(in, selected)
           THEN <<ensureLocalModelAction("mlx", "hf", in, deps)>> ELSE <<>>)
  ELSE <<>>

ConfigActions(target, profile, deps) ==
  IF profile # "" /\ target \in {"all", "cognition"}
  THEN <<NewWriteManagedConfigAction(profile, deps)>> ELSE <<>>

(* The ids of the directory actions, which come first.                     *)
DirActionIds(in, target) ==
  {<<"create_directory", i>> : i \in DOMAIN DirActions(in, target)}

PlanActions(in, target, profile, selected) ==
  LET deps == DirActionIds(in, target)
      acts == DirActions(in, target) \o GitActions(in, target)
                \o HardwareActions(in, target, deps)
                \o AuthActions(in, target)
                \o ModelActions(in, target, selected, deps)
                \o ConfigActions(target, profile, deps)
  IN [i \in DOMAIN acts |-> [acts[i] EXCEPT !.id = <<acts[i].label, i>>]]

MaxAuthority(acts) ==
  CHOOSE a \in DOMAIN AuthorityRank :
    /\ a = "read_only" \/ \E i \in DOMAIN acts : acts[i].authority = a
    /\ \A i \in DOMAIN acts :
         AuthorityRank[acts[i].authority] <= AuthorityRank[a]

TotalEffects(acts) == UNION {acts[i].effects : i \in DOMAIN acts}

(* ResolveModel, ResolvedModel.Validate and verifyResolvedIdentity: a      *)
(* model that cannot be pinned refuses the whole plan.                     *)
Refused(in, target, selected, resolves) ==
  ~resolves /\ ModelActions(in, target, selected, {}) # <<>>

PlanWithContext(target, profile, selected, resolves) ==
  LET acts == PlanActions(observed, target, profile, selected)
  IN /\ observed # NoObservation
     /\ proposal.status = "none"
     /\ proposal' = IF Refused(observed, target, selected, resolves)
                    THEN [status |-> "refused"]
                    ELSE [status |-> "planned", actions |-> acts,
                          authority |-> MaxAuthority(acts),
                          effects |-> TotalEffects(acts)]
     /\ UNCHANGED observed

NextPlanner ==
  \/ Diagnose
  \/ \E target \in SetupTargets, profile \in {"", "offline"},
        selected \in {{}, {"ollama", "mlx"}}, resolves \in BOOLEAN :
       PlanWithContext(target, profile, selected, resolves)

SpecPlanner == InitPlanner /\ [][NextPlanner]_plannerVars

-----------------------------------------------------------------------------
(* SetupAction.Validate and SetupPlan.Validate.                            *)

ValidAction(a) ==
  /\ (a.authority = "high_impact_manual") = (a.op = "none")
  /\ a.op = "none" => a.post # {}
  /\ a.op # "none" =>
       /\ AuthorityRank[a.authority]
            >= AuthorityRank[IntrinsicPolicy(a.op).authority]
       /\ IntrinsicPolicy(a.op).effects \subseteq a.effects
  /\ a.op = "ensure_local_model" =>
       \E c \in a.post : c[1] = "model_present" /\ c[2] = a.key[1]

ValidPlan(p) ==
  LET acts == p.actions
  IN /\ \A i \in DOMAIN acts : ValidAction(acts[i])
     /\ \A i, j \in DOMAIN acts :
          i # j => acts[i].id # acts[j].id /\ acts[i].key # acts[j].key
     /\ \A i \in DOMAIN acts : \A d \in acts[i].deps :
          \E j \in 1..(i - 1) : acts[j].id = d
     /\ acts # <<>> => p.authority = MaxAuthority(acts)
     /\ p.effects = TotalEffects(acts)

(* Whatever was observed and asked for, the plan passes SetupPlan.Validate *)
(* (PlanWithContext never ends in its internal error), every automatic     *)
(* action that uses the managed directories waits for those that create    *)
(* them, and no program is run for a model that was not observed on the    *)
(* machine the plan is for.                                                *)
PlanIsSound ==
  proposal.status = "planned" =>
    /\ ValidPlan(proposal)
    /\ \A i, j \in DOMAIN proposal.actions :
         LET a == proposal.actions[i]
             b == proposal.actions[j]
         IN a.op = "create_directory" /\ b.op \notin {"none", a.op}
              => a.id \in b.deps
    /\ \A i \in DOMAIN proposal.actions :
         proposal.actions[i].op = "ensure_local_model" =>
           observed.facts.sameMachine /\ observed.facts.software # {}

=============================================================================
