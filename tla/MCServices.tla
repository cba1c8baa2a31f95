----------------------------- MODULE MCServices -----------------------------
(***************************************************************************)
(* The services around the control plane, which share no state: `part`     *)
(* names the one that moves, and the others stay in their initial state,   *)
(* so that one run explores each of them by itself.                        *)
(***************************************************************************)
EXTENDS Worktrees, Processes, Validation, Discovery, FlightJournal, Setup,
        SetupPlanner, Doctor, Activation, Planners, Receipts, Sessions,
        PortfolioSamples, ReceiptSamples

VARIABLE part

Parts == {"worktrees", "processes", "validation", "discovery", "flight",
          "setup", "planner", "doctor", "activation", "planners", "receipts",
          "sessions"}

InitServices ==
  /\ part \in Parts
  /\ InitWorktrees
  /\ InitProcesses
  /\ InitValidation
  /\ InitDiscovery
  /\ InitFlight
  /\ InitSetup
  /\ InitPlanner
  /\ InitDoctor
  /\ InitActivation
  /\ InitPlanners
  /\ InitReceipts
  /\ InitSessions

(* All of the state but that of the part which moves.                       *)
Rest(p) ==
  /\ UNCHANGED part
  /\ p # "worktrees" => UNCHANGED worktreeVars
  /\ p # "processes" => UNCHANGED processVars
  /\ p # "validation" => UNCHANGED validationVars
  /\ p # "discovery" => UNCHANGED discoveryVars
  /\ p # "flight" => UNCHANGED flightVars
  /\ p # "setup" => UNCHANGED setupVars
  /\ p # "planner" => UNCHANGED plannerVars
  /\ p # "doctor" => UNCHANGED doctorVars
  /\ p # "activation" => UNCHANGED activationVars
  /\ p # "planners" => UNCHANGED plannersVars
  /\ p # "receipts" => UNCHANGED receiptsVars
  /\ p # "sessions" => UNCHANGED sessionVars

NextServices ==
  \/ part = "worktrees" /\ NextWorktrees /\ Rest("worktrees")
  \/ part = "processes" /\ NextProcesses /\ Rest("processes")
  \/ part = "validation" /\ NextValidation /\ Rest("validation")
  \/ part = "discovery" /\ NextDiscovery /\ Rest("discovery")
  \/ part = "flight" /\ NextFlight /\ Rest("flight")
  \/ part = "setup" /\ NextSetup /\ Rest("setup")
  \/ part = "planner" /\ NextPlanner /\ Rest("planner")
  \/ part = "doctor" /\ NextDoctor /\ Rest("doctor")
  \/ part = "activation" /\ NextActivation /\ Rest("activation")
  \/ part = "planners" /\ NextPlanners /\ Rest("planners")
  \/ part = "receipts" /\ NextReceipts /\ Rest("receipts")
  \/ part = "sessions" /\ NextSessions /\ Rest("sessions")

servicesVars ==
  <<part, worktreeVars, processVars, validationVars, discoveryVars,
    flightVars, setupVars, plannerVars, doctorVars, activationVars,
    plannersVars, receiptsVars, sessionVars>>

SpecServices == InitServices /\ [][NextServices]_servicesVars

=============================================================================
