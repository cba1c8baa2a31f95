------------------------------ MODULE Receipts ------------------------------
(***************************************************************************)
(* Operator receipts (internal/operator/receipts): a human signs a         *)
(* statement with an enrolled key; a program that wants the effect it      *)
(* allows verifies the receipt against the operator's protected files and  *)
(* spends it in the transaction that has the effect.                       *)
(*                                                                         *)
(* Anyone may put files into the receipts directory.  A receipt's key is   *)
(* the key that signed exactly this statement, "forged" when none did.     *)
(* Receipt identifiers are numbers, in the order of their text, and 0 is   *)
(* "no identifier"; "" is an absent digest.  A file is named by a number   *)
(* too, and need not hold the receipt it is named after.                   *)
(***************************************************************************)
EXTENDS Integers, FiniteSets

CONSTANTS ReceiptFiles,      \* files that may appear: [name, stmt, key]
          AuthorityRequests, \* what programs ask for
          AnchorDocs,        \* contents of anchors.json, each a set of anchors
          Consumers,         \* programs, each wanting an effect of its own
          CustodyChanges,    \* path and [owner, open, link] it may get
          TrustedOwners, OperatorOwner,  \* who may own the protected paths
          MaxScanned,        \* files a search looks at (256 in the code)
          MaxReceiptTime, MaxFileDrops, MaxOperatorActs, MaxSpent

(* Times are times; no enrolled key is the key of a forgery; and a signed
   identifier is the issuer's, who gives none to both a grant and a receipt
   for one use. *)
ASSUME ReceiptsAssumption ==
  /\ AnchorDocs # {}
  /\ \A doc \in AnchorDocs : \A a \in doc :
       a.key # "forged" /\ a.notBefore \in Int /\ a.notAfter \in Int
  /\ \A r \in ReceiptFiles : r.stmt.issued \in Int /\ r.stmt.until \in Int
  /\ \A r, q \in ReceiptFiles :
       r.stmt.id = q.stmt.id /\ "forged" \notin {r.key, q.key} =>
         r.stmt.use = q.stmt.use

VARIABLES authorityTime,     \* the clock
          anchorsJson,       \* the operator's anchors.json
          revokedJson,       \* the operator's revoked.json
          custody,           \* owner and permissions of the paths above them
          receiptsDir,       \* the files dropped so far
          pinnedAnchors,     \* what the running process pinned, {} when none
          claims,            \* consumer -> its verification in progress
          consumptions,      \* ReceiptConsumption records of the project
          authorised,        \* effects that happened, and what allowed them
          operatorActs

receiptsVars == <<authorityTime, anchorsJson, revokedJson, custody,
                  receiptsDir, pinnedAnchors, claims, consumptions,
                  authorised, operatorActs>>

NoClaim == [step |-> "idle"]
CustodyPaths == {"root", "dir", "anchors.json", "revoked.json"}
ProtectedPath(name) == [owner |-> IF name = "root" THEN "root"
                                  ELSE OperatorOwner,
                        open |-> FALSE, link |-> FALSE]

InitReceipts ==
  /\ authorityTime = 0
  /\ anchorsJson = CHOOSE d \in AnchorDocs : TRUE
  /\ revokedJson = [receipts |-> {}, anchors |-> {}]
  /\ custody = [name \in CustodyPaths |-> ProtectedPath(name)]
  /\ receiptsDir = {} /\ pinnedAnchors = {}
  /\ claims = [c \in Consumers |-> NoClaim]
  /\ consumptions = {} /\ authorised = {} /\ operatorActs = 0

-----------------------------------------------------------------------------
(* Purposes, statements and requests. *)

InputPurposes == {"product_decision", "requirement_confirm", "reflection",
                  "accepted_risk"}
DiscoveryPurposes == InputPurposes \cup {"ledger_resolution"}
GrantPurposes == {"acceptance_policy", "execution_policy", "campaign"}
Purposes == DiscoveryPurposes \cup GrantPurposes \cup {"host_plan"}
ExpectedUse(p) == IF p \in GrantPurposes THEN "grant" ELSE "once"

(* The clock ticks once every five minutes or less often: what matters is
   that a once receipt outlives the tolerated skew and a grant both.       *)
Skew == 1
MaxValidity(p) == CASE p \in GrantPurposes \ {"campaign"} -> 4
                    [] p = "campaign" -> 3
                    [] OTHER -> 2

ValidStatement(s) ==
  /\ s.id > 0 /\ s.purpose \in Purposes /\ s.use = ExpectedUse(s.purpose)
  /\ s.project # "" /\ s.digest # "" /\ s.textIntact
  /\ (s.input # "") = (s.purpose \in InputPurposes)
  /\ s.until > s.issued /\ s.until - s.issued <= MaxValidity(s.purpose)
ValidRequest(q) ==
  q.purpose \in Purposes /\ q.project # "" /\ q.digest # ""

(* HumanReceipts.Verify and HostPlanApprovals.VerifyApproval ask for a named
   receipt, for a purpose of theirs, with the digests they computed. *)
AdapterAllows(q) ==
  CASE q.via = "human" -> /\ q.id > 0 /\ q.purpose \in DiscoveryPurposes
                          /\ q.purpose \in InputPurposes => q.input # ""
    [] q.via = "host"  -> q.id > 0 /\ q.purpose = "host_plan" /\ q.input = ""
    [] OTHER           -> TRUE

VerifyStatementCommon(r, q, anchor, at) ==
  LET s == r.stmt IN
  /\ ValidStatement(s)
  /\ s.purpose = q.purpose /\ s.project = q.project
  /\ s.subject = q.subject /\ s.digest = q.digest
  /\ q.input \in {"", s.input}
  /\ anchor.actor = s.actor /\ q.purpose \in anchor.purposes
  /\ at >= anchor.notBefore /\ at <= anchor.notAfter
  /\ at >= s.issued - Skew /\ at <= s.until
  /\ r.key = anchor.key

-----------------------------------------------------------------------------
(* CheckPathProtection: every component above a protected path belongs to
   root or the operator and only its owner may write it; the path itself
   and the directory it is in are the operator's. *)
ComponentProtected(name) ==
  /\ ~custody[name].link /\ ~custody[name].open
  /\ custody[name].owner \in TrustedOwners \cap {"root", OperatorOwner}
CheckPathProtection(name) ==
  /\ \A above \in {"root", "dir", name} : ComponentProtected(above)
  /\ custody[name].owner = OperatorOwner
  /\ name # "dir" => custody["dir"].owner = OperatorOwner
OperatorFilesProtected ==
  \A name \in CustodyPaths \ {"root"} : CheckPathProtection(name)

(* NewFileVerifier pins anchors.json; it refuses to be its own operator. *)
NewFileVerifier ==
  /\ pinnedAnchors = {}
  /\ OperatorOwner \in TrustedOwners /\ "self" \notin TrustedOwners
  /\ OperatorFilesProtected /\ anchorsJson # {}
  /\ pinnedAnchors' = anchorsJson
  /\ UNCHANGED <<authorityTime, anchorsJson, revokedJson, custody,
                 receiptsDir, claims, consumptions, authorised, operatorActs>>

(* FileVerifier.Verify reads the operator's files, and then the receipts. *)
AnchorsUnchangedUnchecked == TRUE
AnchorsUnchanged == anchorsJson = pinnedAnchors
BeginVerify(c, q) ==
  /\ claims[c] = NoClaim /\ pinnedAnchors # {}
  /\ ValidRequest(q) /\ AdapterAllows(q)
  /\ OperatorFilesProtected /\ AnchorsUnchanged
  /\ claims' = [claims EXCEPT ![c] =
                  [step |-> "reading", request |-> q, at |-> authorityTime,
                   anchors |-> anchorsJson, revoked |-> revokedJson]]
  /\ UNCHANGED <<authorityTime, anchorsJson, revokedJson, custody,
                 receiptsDir, pinnedAnchors, consumptions, authorised,
                 operatorActs>>

Revoked(s, list) == s.id \in list.receipts \/ s.anchor \in list.anchors
Verifies(r, claim) ==
  /\ ~Revoked(r.stmt, claim.revoked)
  /\ \E a \in pinnedAnchors :
        /\ a.id = r.stmt.anchor
        /\ VerifyStatementCommon(r, claim.request, a, claim.at)
(* The first files of the directory in the order of their names. *)
Scanned ==
  {r \in receiptsDir :
     Cardinality({q \in receiptsDir : q.name < r.name}) < MaxScanned}
Newer(r, q) == \/ r.stmt.issued > q.stmt.issued
               \/ r.stmt.issued = q.stmt.issued /\ r.stmt.id > q.stmt.id
Found(claim) ==
  LET named == {r \in receiptsDir : /\ r.name = claim.request.id
                                    /\ r.stmt.id = claim.request.id}
      eligible == {r \in Scanned : Verifies(r, claim)}
  IN  IF claim.request.id > 0
      THEN {r \in named : Verifies(r, claim)}
      ELSE {r \in eligible : \A q \in eligible : ~Newer(q, r)}

FinishVerify(c) ==
  /\ claims[c].step = "reading"
  /\ IF Found(claims[c]) = {} THEN claims' = [claims EXCEPT ![c] = NoClaim]
     ELSE \E r \in Found(claims[c]) :
            claims' = [claims EXCEPT ![c] =
              [step |-> "verified", request |-> claims[c].request,
               at |-> claims[c].at, anchors |-> claims[c].anchors,
               revoked |-> claims[c].revoked, receipt |-> r]]
  /\ UNCHANGED <<authorityTime, anchorsJson, revokedJson, custody,
                 receiptsDir, pinnedAnchors, consumptions, authorised,
                 operatorActs>>

-----------------------------------------------------------------------------
(* Spending: ConsumeOnce and AuditGrantUse make the record that is stored
   in the same batch as the effect. *)
Consumption(s, e) ==
  [id |-> <<s.id, IF s.use = "grant" THEN e ELSE "once">>,
   purpose |-> s.purpose, actor |-> s.actor, anchor |-> s.anchor,
   digest |-> s.digest, input |-> s.input, effect |-> e]

(* The guard of the batch refuses a receipt that was consumed; a second
   record of one grant and effect is refused by the store. *)
ReplayedGrant(record) ==
  record.id[2] # "once" /\ record.id \in {x.id : x \in consumptions}
Replayed(record) == record.id \in {x.id : x \in consumptions}

CommitEffect(c) ==
  /\ claims[c].step = "verified"
  /\ claims[c].request.via # "host"
  /\ LET record == Consumption(claims[c].receipt.stmt, c)
     IN  IF Replayed(record) THEN UNCHANGED <<consumptions, authorised>>
         ELSE /\ Cardinality(consumptions) < MaxSpent
              /\ consumptions' = consumptions \cup {record}
              /\ authorised' = authorised \cup
                   {[record |-> record, claim |-> claims[c]]}
  /\ claims' = [claims EXCEPT ![c] = NoClaim]
  /\ UNCHANGED <<authorityTime, anchorsJson, revokedJson, custody,
                 receiptsDir, pinnedAnchors, operatorActs>>

(* A batch refused for another reason leaves the verified receipt with its
   holder, to try again or to let it go; a host plan is only shown to the
   operator. *)
ReleaseClaim(c) ==
  /\ claims[c].step = "verified"
  /\ claims' = [claims EXCEPT ![c] = NoClaim]
  /\ UNCHANGED <<authorityTime, anchorsJson, revokedJson, custody,
                 receiptsDir, pinnedAnchors, consumptions, authorised,
                 operatorActs>>

-----------------------------------------------------------------------------
(* Around it: time, the receipts directory, the operator, restarts. *)

PassTime ==
  /\ authorityTime < MaxReceiptTime
  /\ authorityTime' = authorityTime + 1
  /\ UNCHANGED <<anchorsJson, revokedJson, custody, receiptsDir,
                 pinnedAnchors, claims, consumptions, authorised,
                 operatorActs>>

DropReceipt(r) ==
  /\ Cardinality(receiptsDir) < MaxFileDrops
  /\ r.name \notin {x.name : x \in receiptsDir}
  /\ receiptsDir' = receiptsDir \cup {r}
  /\ UNCHANGED <<authorityTime, anchorsJson, revokedJson, custody,
                 pinnedAnchors, claims, consumptions, authorised,
                 operatorActs>>

OperatorAct ==
  /\ operatorActs < MaxOperatorActs /\ operatorActs' = operatorActs + 1
  /\ UNCHANGED <<authorityTime, receiptsDir, pinnedAnchors, claims,
                 consumptions, authorised>>
Enroll(doc) ==
  /\ doc # anchorsJson /\ anchorsJson' = doc
  /\ UNCHANGED <<revokedJson, custody>> /\ OperatorAct
RevokeReceipt(id) ==
  /\ id \notin revokedJson.receipts
  /\ revokedJson' = [revokedJson EXCEPT !.receipts = @ \cup {id}]
  /\ UNCHANGED <<anchorsJson, custody>> /\ OperatorAct
RevokeAnchor(id) ==
  /\ id \notin revokedJson.anchors
  /\ revokedJson' = [revokedJson EXCEPT !.anchors = @ \cup {id}]
  /\ UNCHANGED <<anchorsJson, custody>> /\ OperatorAct
ChangeCustody(name, entry) ==
  /\ entry # custody[name]
  /\ custody' = [custody EXCEPT ![name] = entry]
  /\ UNCHANGED <<anchorsJson, revokedJson>> /\ OperatorAct

RestartConsumers ==
  /\ pinnedAnchors # {}
  /\ pinnedAnchors' = {} /\ claims' = [c \in Consumers |-> NoClaim]
  /\ UNCHANGED <<authorityTime, anchorsJson, revokedJson, custody,
                 receiptsDir, consumptions, authorised, operatorActs>>

NextReceipts ==
  \/ NewFileVerifier \/ PassTime \/ RestartConsumers
  \/ \E c \in Consumers :
       \/ \E q \in AuthorityRequests : BeginVerify(c, q)
       \/ FinishVerify(c) \/ ReleaseClaim(c) \/ CommitEffect(c)
  \/ \E r \in ReceiptFiles : DropReceipt(r) \/ RevokeReceipt(r.stmt.id)
  \/ \E doc \in AnchorDocs : Enroll(doc)
  \/ \E a \in UNION AnchorDocs : RevokeAnchor(a.id)
  \/ \E change \in CustodyChanges : ChangeCustody(change[1], change[2])

SpecReceipts == InitReceipts /\ [][NextReceipts]_receiptsVars

-----------------------------------------------------------------------------
(* A receipt for one use allows one effect, however many programs verified
   it before the first spent it, and whatever restarts came between; every
   effect has its consumption record, and no two effects share one
   (ConsumeOnce and its batch guard). *)
OnceMeansOnce ==
  /\ \A x, y \in authorised :
        /\ x.claim.receipt.stmt.id = y.claim.receipt.stmt.id
        /\ x.claim.receipt.stmt.use = "once"
        => x = y
  /\ \A x \in authorised : x.record \in consumptions
  /\ \A x, y \in authorised : x.record = y.record => x = y
  /\ \A x, y \in consumptions : x.id = y.id => x = y

(* What happened was allowed by a human: a key the operator had enrolled in
   anchors.json for this purpose, not just one the process remembers, signed
   exactly the subject, input and project the program asked about, and when
   the revocations were read neither receipt nor key was among them and both
   were in their time (FileVerifier.Verify). *)
AuthorityIsHuman ==
  \A x \in authorised :
    LET s == x.claim.receipt.stmt
        q == x.claim.request
    IN  /\ \E a \in x.claim.anchors :
             /\ a.id = s.anchor /\ a.key = x.claim.receipt.key
             /\ a.actor = s.actor /\ s.purpose \in a.purposes
             /\ x.claim.at \in a.notBefore .. a.notAfter
        /\ s.id \notin x.claim.revoked.receipts
        /\ s.anchor \notin x.claim.revoked.anchors
        /\ s.subject = q.subject /\ s.digest = q.digest
        /\ s.project = q.project /\ s.purpose = q.purpose
        /\ q.via = "human" => s.input = q.input
        /\ x.claim.at \in (s.issued - Skew) .. s.until
        /\ s.use = "once" => s.purpose \notin GrantPurposes
=============================================================================
