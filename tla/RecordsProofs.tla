---------------------------- MODULE RecordsProofs ----------------------------
(***************************************************************************)
(* Proofs about the records that others rely on: operator receipts         *)
(* (Receipts) and the flight recorder's journal (FlightJournal).  They     *)
(* hold for any receipts, requests, anchors and consumers, and for all     *)
(* sizes of segments and queues and all bounds.                            *)
(*                                                                         *)
(* A verification takes two steps, and an effect a third; anchors, clock,  *)
(* revocations and files may change in between.  What makes the effect     *)
(* legitimate is kept in the claim itself (Justified), and the invariant   *)
(* says that the claim's anchors are the pinned ones as long as it lives.  *)
(*                                                                         *)
(* An operation of the journal's writer is a function of the writer; each  *)
(* one, whichever of its I/O calls fails, hands over a writer whose next   *)
(* sequence is above the whole journal (WriterInv) and keeps what was      *)
(* synced (Keeps).                                                         *)
(***************************************************************************)
EXTENDS Receipts, FlightJournal, FiniteSetTheorems, WellFoundedInduction,
        TLAPS

-----------------------------------------------------------------------------
(* Operator receipts.                                                      *)

(* What a verification has established about its claim, whatever changes   *)
(* afterwards.                                                             *)
Asked(claim) ==
  /\ claim.anchors \in AnchorDocs
  /\ claim.at \in Int
  /\ AdapterAllows(claim.request)

Justified(claim) ==
  /\ Asked(claim)
  /\ claim.receipt \in ReceiptFiles
  /\ ~Revoked(claim.receipt.stmt, claim.revoked)
  /\ \E a \in claim.anchors :
       /\ a.id = claim.receipt.stmt.anchor
       /\ VerifyStatementCommon(claim.receipt, claim.request, a, claim.at)

(* A verification in progress works with the anchors the process pinned.   *)
ClaimInv(c) ==
  claims[c] # NoClaim =>
    /\ claims[c].anchors = pinnedAnchors /\ pinnedAnchors # {}
    /\ Asked(claims[c])
    /\ claims[c].step = "verified" => Justified(claims[c])

ClaimsHold ==
  /\ claims = [c \in Consumers |-> claims[c]]
  /\ \A c \in Consumers : ClaimInv(c)

FilesTyped ==
  /\ authorityTime \in Int
  /\ anchorsJson \in AnchorDocs
  /\ receiptsDir \subseteq ReceiptFiles

(* What happened, and the record it left.                                  *)
Spent ==
  /\ \A x \in authorised :
       /\ x.record \in consumptions
       /\ Justified(x.claim)
       /\ x.claim.receipt.stmt.use = "once" =>
            x.record.id = <<x.claim.receipt.stmt.id, "once">>
  /\ \A x, y \in authorised : x.record = y.record => x = y
  /\ \A x, y \in consumptions : x.id = y.id => x = y

ReceiptsInv == FilesTyped /\ ClaimsHold /\ Spent

-----------------------------------------------------------------------------
(* Facts used throughout.                                                  *)

(* A claim in progress is not the absence of one.                          *)
LEMMA NoClaimIdle == NoClaim.step = "idle"
  BY DEF NoClaim

(* One consumer's claim is replaced.                                       *)
LEMMA OneClaim ==
  ASSUME ReceiptsInv, NEW c \in Consumers, NEW n,
         claims' = [claims EXCEPT ![c] = n], UNCHANGED pinnedAnchors,
         n # NoClaim =>
           /\ n.anchors = pinnedAnchors /\ pinnedAnchors # {}
           /\ Asked(n)
           /\ n.step = "verified" => Justified(n)
  PROVE  ClaimsHold'
<1>1. claims = [d \in Consumers |-> claims[d]]
  BY DEF ReceiptsInv, ClaimsHold
<1>2. claims' = [d \in Consumers |-> IF d = c THEN n ELSE claims[d]]
  BY <1>1
<1>3. claims'[c] = n /\ \A d \in Consumers \ {c} : claims'[d] = claims[d]
  BY <1>2
<1>4. ASSUME NEW d \in Consumers PROVE ClaimInv(d)'
  <2>1. CASE d = c
    BY <1>3, <2>1 DEF ClaimInv
  <2>2. CASE d # c
    BY <1>3, <2>2 DEF ReceiptsInv, ClaimsHold, ClaimInv
  <2> QED BY <2>1, <2>2
<1>5. claims' = [d \in Consumers |-> claims'[d]]
  BY <1>2
<1> QED BY <1>4, <1>5 DEF ClaimsHold

(* Nobody's claim and nobody's anchors change.                             *)
LEMMA ClaimsQuiet ==
  ASSUME ReceiptsInv, UNCHANGED <<claims, pinnedAnchors>>
  PROVE  ClaimsHold'
  BY DEF ReceiptsInv, ClaimsHold, ClaimInv

(* Nothing is spent.                                                       *)
LEMMA SpentQuiet ==
  ASSUME ReceiptsInv, UNCHANGED <<consumptions, authorised>>
  PROVE  Spent'
  BY DEF ReceiptsInv, Spent

(* Between two times.                                                      *)
LEMMA InRange ==
  ASSUME NEW t \in Int, NEW lo \in Int, NEW hi \in Int, t >= lo, t <= hi
  PROVE  t \in lo .. hi
  OBVIOUS

(* A justified receipt was signed by a key that is in anchors.json.        *)
LEMMA NotForged ==
  ASSUME NEW claim, Justified(claim)
  PROVE  claim.receipt \in ReceiptFiles /\ claim.receipt.key # "forged"
<1>1. PICK a \in claim.anchors : claim.receipt.key = a.key
  BY DEF Justified, VerifyStatementCommon
<1>2. a.key # "forged"
  BY ReceiptsAssumption DEF Justified, Asked
<1> QED BY <1>1, <1>2 DEF Justified

-----------------------------------------------------------------------------
(* The steps.                                                              *)

(* Nothing is pinned, claimed or spent.                                    *)
LEMMA ReceiptsInit == InitReceipts => ReceiptsInv
<1> SUFFICES ASSUME InitReceipts PROVE ReceiptsInv
  OBVIOUS
<1>1. anchorsJson \in AnchorDocs
  BY ReceiptsAssumption DEF InitReceipts
<1>2. FilesTyped
  BY <1>1 DEF InitReceipts, FilesTyped
<1>3. ClaimsHold
  BY DEF InitReceipts, ClaimsHold, ClaimInv
<1>4. Spent
  BY DEF InitReceipts, Spent
<1> QED BY <1>2, <1>3, <1>4 DEF ReceiptsInv

(* The anchors are compared with the pinned ones before they are used.     *)
LEMMA BeginStep ==
  ASSUME ReceiptsInv, NEW c \in Consumers, NEW q, BeginVerify(c, q)
  PROVE  ReceiptsInv'
<1> DEFINE n == [step |-> "reading", request |-> q, at |-> authorityTime,
                 anchors |-> anchorsJson, revoked |-> revokedJson]
<1>1. n.step = "reading" /\ n.request = q /\ n.at = authorityTime
      /\ n.anchors = anchorsJson
  OBVIOUS
<1>2. /\ claims' = [claims EXCEPT ![c] = n] /\ AdapterAllows(q)
      /\ anchorsJson = pinnedAnchors /\ pinnedAnchors # {}
      /\ UNCHANGED <<authorityTime, anchorsJson, receiptsDir, pinnedAnchors,
                     consumptions, authorised>>
  BY DEF BeginVerify, AnchorsUnchanged
<1> HIDE DEF n
<1>3. Asked(n)
  BY <1>1, <1>2 DEF Asked, ReceiptsInv, FilesTyped
<1>4. ClaimsHold'
  BY <1>1, <1>2, <1>3, OneClaim
<1>5. Spent'
  BY <1>2, SpentQuiet
<1> QED BY <1>2, <1>4, <1>5 DEF ReceiptsInv, FilesTyped

(* A verified receipt is a file of the directory that an anchor of the     *)
(* claim verifies.                                                         *)
LEMMA FinishStep ==
  ASSUME ReceiptsInv, NEW c \in Consumers, FinishVerify(c)
  PROVE  ReceiptsInv'
<1>1. UNCHANGED <<authorityTime, anchorsJson, receiptsDir, pinnedAnchors,
                  consumptions, authorised>>
  BY DEF FinishVerify
<1>2. Spent' /\ FilesTyped'
  BY <1>1, SpentQuiet DEF ReceiptsInv, FilesTyped
<1>3. CASE claims' = [claims EXCEPT ![c] = NoClaim]
  <2>1. ClaimsHold'
    BY <1>1, <1>3, OneClaim
  <2> QED BY <1>2, <2>1 DEF ReceiptsInv
<1>4. ASSUME NEW r \in Found(claims[c]),
             claims' = [claims EXCEPT ![c] =
               [step |-> "verified", request |-> claims[c].request,
                at |-> claims[c].at, anchors |-> claims[c].anchors,
                revoked |-> claims[c].revoked, receipt |-> r]]
      PROVE  ReceiptsInv'
  <2> DEFINE n == [step |-> "verified", request |-> claims[c].request,
                   at |-> claims[c].at, anchors |-> claims[c].anchors,
                   revoked |-> claims[c].revoked, receipt |-> r]
  <2>1. /\ n.step = "verified" /\ n.request = claims[c].request
        /\ n.at = claims[c].at /\ n.anchors = claims[c].anchors
        /\ n.revoked = claims[c].revoked /\ n.receipt = r
        /\ claims' = [claims EXCEPT ![c] = n]
    BY <1>4
  <2> HIDE DEF n
  <2>2. claims[c] # NoClaim
    BY NoClaimIdle DEF FinishVerify
  <2>3. /\ claims[c].anchors = pinnedAnchors /\ pinnedAnchors # {}
        /\ Asked(claims[c])
    BY <2>2 DEF ReceiptsInv, ClaimsHold, ClaimInv
  <2>4. r \in receiptsDir /\ Verifies(r, claims[c])
    BY <1>4 DEF Found, Scanned
  <2>5. Justified(n)
    <3>1. Asked(n)
      BY <2>1, <2>3 DEF Asked
    <3>2. ~Revoked(n.receipt.stmt, n.revoked)
      BY <2>1, <2>4 DEF Verifies
    <3>3. \E a \in n.anchors :
            /\ a.id = n.receipt.stmt.anchor
            /\ VerifyStatementCommon(n.receipt, n.request, a, n.at)
      BY <2>1, <2>3, <2>4 DEF Verifies
    <3>4. n.receipt \in ReceiptFiles
      BY <2>1, <2>4 DEF ReceiptsInv, FilesTyped
    <3> QED BY <3>1, <3>2, <3>3, <3>4 DEF Justified
  <2>6. ClaimsHold'
    <3>1. Asked(n) /\ n.anchors = pinnedAnchors
      BY <2>1, <2>3, <2>5 DEF Justified
    <3> QED BY <1>1, <2>1, <2>3, <2>5, <3>1, OneClaim
  <2> QED BY <1>2, <2>6 DEF ReceiptsInv
<1> QED
  BY <1>3, <1>4 DEF FinishVerify

(* Spending: the record is new, so it is no other effect's.                *)
LEMMA CommitStep ==
  ASSUME ReceiptsInv, NEW c \in Consumers, CommitEffect(c)
  PROVE  ReceiptsInv'
<1> DEFINE s == claims[c].receipt.stmt
           record == Consumption(s, c)
           new == [record |-> record, claim |-> claims[c]]
<1>1. /\ UNCHANGED <<authorityTime, anchorsJson, receiptsDir, pinnedAnchors>>
      /\ claims' = [claims EXCEPT ![c] = NoClaim]
      /\ claims[c].step = "verified"
  BY DEF CommitEffect
<1>2. ClaimsHold' /\ FilesTyped'
  BY <1>1, OneClaim DEF ReceiptsInv, FilesTyped
<1>3. CASE UNCHANGED <<consumptions, authorised>>
  BY <1>2, <1>3, SpentQuiet DEF ReceiptsInv
<1>4. CASE /\ ~Replayed(record)
           /\ consumptions' = consumptions \cup {record}
           /\ authorised' = authorised \cup {new}
  <2>1. claims[c] # NoClaim
    BY <1>1, NoClaimIdle
  <2>2. Justified(claims[c])
    BY <1>1, <2>1 DEF ReceiptsInv, ClaimsHold, ClaimInv
  <2>3. s.use = "once" => record.id = <<s.id, "once">>
    BY DEF Consumption
  <2>4. new.record = record /\ new.claim = claims[c]
    OBVIOUS
  <2>5. \A x \in consumptions : x.id # record.id /\ x # record
    BY <1>4 DEF Replayed
  <2>6. Spent
    BY DEF ReceiptsInv
  <2> HIDE DEF record, new
  <2>7. \A x \in authorised' :
          /\ x.record \in consumptions'
          /\ Justified(x.claim)
          /\ x.claim.receipt.stmt.use = "once" =>
               x.record.id = <<x.claim.receipt.stmt.id, "once">>
    BY <1>4, <2>2, <2>3, <2>4, <2>6 DEF Spent
  <2>8. \A x, y \in authorised' : x.record = y.record => x = y
    BY <1>4, <2>4, <2>5, <2>6 DEF Spent
  <2>9. \A x, y \in consumptions' : x.id = y.id => x = y
    BY <1>4, <2>5, <2>6 DEF Spent
  <2> QED BY <1>2, <2>7, <2>8, <2>9 DEF ReceiptsInv, Spent
<1> QED
  BY <1>3, <1>4 DEF CommitEffect

(* Every step of the consumers, the operator and the clock keeps the       *)
(* invariant.                                                              *)
LEMMA ReceiptsStep ==
  ASSUME ReceiptsInv, [NextReceipts]_receiptsVars
  PROVE  ReceiptsInv'
<1>1. CASE UNCHANGED receiptsVars
  <2>1. UNCHANGED <<authorityTime, anchorsJson, receiptsDir, pinnedAnchors,
                    claims, consumptions, authorised>>
    BY <1>1 DEF receiptsVars
  <2> QED BY <2>1, ClaimsQuiet, SpentQuiet DEF ReceiptsInv, FilesTyped
<1>2. CASE NewFileVerifier
  <2>1. /\ pinnedAnchors = {} /\ anchorsJson # {}
        /\ UNCHANGED <<authorityTime, anchorsJson, receiptsDir, claims,
                       consumptions, authorised>>
    BY <1>2 DEF NewFileVerifier
  <2>2. ASSUME NEW c \in Consumers PROVE ClaimInv(c)'
    <3>1. CASE claims[c] = NoClaim
      BY <2>1, <3>1 DEF ClaimInv
    <3>2. CASE claims[c] # NoClaim
      BY <2>1, <3>2, <1>2 DEF ReceiptsInv, ClaimsHold, ClaimInv
    <3> QED BY <3>1, <3>2
  <2>3. ClaimsHold'
    BY <2>1, <2>2 DEF ReceiptsInv, ClaimsHold
  <2> QED BY <2>1, <2>3, SpentQuiet DEF ReceiptsInv, FilesTyped
<1>3. CASE PassTime
  <2>1. /\ authorityTime' = authorityTime + 1
        /\ UNCHANGED <<anchorsJson, receiptsDir, pinnedAnchors, claims,
                       consumptions, authorised>>
    BY <1>3 DEF PassTime
  <2> QED BY <2>1, ClaimsQuiet, SpentQuiet DEF ReceiptsInv, FilesTyped
<1>4. CASE RestartConsumers
  <2>1. /\ claims' = [c \in Consumers |-> NoClaim]
        /\ UNCHANGED <<authorityTime, anchorsJson, receiptsDir, consumptions,
                       authorised>>
    BY <1>4 DEF RestartConsumers
  <2>2. ClaimsHold'
    BY <2>1 DEF ClaimsHold, ClaimInv
  <2> QED BY <2>1, <2>2, SpentQuiet DEF ReceiptsInv, FilesTyped
<1>5. ASSUME NEW c \in Consumers, ReleaseClaim(c) PROVE ReceiptsInv'
  <2>1. /\ claims' = [claims EXCEPT ![c] = NoClaim]
        /\ UNCHANGED <<authorityTime, anchorsJson, receiptsDir, pinnedAnchors,
                       consumptions, authorised>>
    BY <1>5 DEF ReleaseClaim
  <2> QED BY <2>1, OneClaim, SpentQuiet DEF ReceiptsInv, FilesTyped
<1>6. ASSUME NEW r \in ReceiptFiles, DropReceipt(r) PROVE ReceiptsInv'
  <2>1. /\ receiptsDir' = receiptsDir \cup {r}
        /\ UNCHANGED <<authorityTime, anchorsJson, pinnedAnchors, claims,
                       consumptions, authorised>>
    BY <1>6 DEF DropReceipt
  <2> QED BY <2>1, ClaimsQuiet, SpentQuiet DEF ReceiptsInv, FilesTyped
<1>7. ASSUME anchorsJson' \in AnchorDocs, OperatorAct PROVE ReceiptsInv'
  <2>1. UNCHANGED <<authorityTime, receiptsDir, pinnedAnchors, claims,
                    consumptions, authorised>>
    BY <1>7 DEF OperatorAct
  <2> QED BY <1>7, <2>1, ClaimsQuiet, SpentQuiet DEF ReceiptsInv, FilesTyped
<1>8. ASSUME NEW doc \in AnchorDocs, Enroll(doc) PROVE ReceiptsInv'
  BY <1>7, <1>8 DEF Enroll
<1>9. ASSUME NEW id, RevokeReceipt(id) \/ RevokeAnchor(id) PROVE ReceiptsInv'
  BY <1>7, <1>9 DEF RevokeReceipt, RevokeAnchor, ReceiptsInv, FilesTyped
<1>10. ASSUME NEW name, NEW entry, ChangeCustody(name, entry)
       PROVE  ReceiptsInv'
  BY <1>7, <1>10 DEF ChangeCustody, ReceiptsInv, FilesTyped
<1> QED
  BY <1>1, <1>2, <1>3, <1>4, <1>5, <1>6, <1>8, <1>9, <1>10, BeginStep,
     FinishStep, CommitStep, Zenon DEF NextReceipts

(* The invariant holds in every reachable state.                           *)
THEOREM ReceiptsInvariant == SpecReceipts => []ReceiptsInv
  BY ReceiptsInit, ReceiptsStep, PTL DEF SpecReceipts

-----------------------------------------------------------------------------
(* The properties.                                                         *)

(* A receipt for one use allows one effect, whichever programs verified it *)
(* before it was spent and whatever restarts came between (ConsumeOnce).   *)
THEOREM OnceIsOnce == SpecReceipts => []OnceMeansOnce
<1>1. ASSUME ReceiptsInv, NEW x \in authorised, NEW y \in authorised,
             x.claim.receipt.stmt.id = y.claim.receipt.stmt.id,
             x.claim.receipt.stmt.use = "once"
      PROVE  x = y
  <2>1. /\ x.record \in consumptions /\ y.record \in consumptions
        /\ Justified(x.claim) /\ Justified(y.claim)
        /\ x.record.id = <<x.claim.receipt.stmt.id, "once">>
    BY <1>1 DEF ReceiptsInv, Spent
  <2>2. /\ x.claim.receipt \in ReceiptFiles /\ x.claim.receipt.key # "forged"
        /\ y.claim.receipt \in ReceiptFiles /\ y.claim.receipt.key # "forged"
    BY <2>1, NotForged
  <2>3. y.claim.receipt.stmt.use = "once"
    BY <1>1, <2>2, ReceiptsAssumption
  <2>4. y.record.id = <<y.claim.receipt.stmt.id, "once">>
    BY <1>1, <2>3 DEF ReceiptsInv, Spent
  <2>5. x.record = y.record
    BY <1>1, <2>1, <2>4 DEF ReceiptsInv, Spent
  <2> QED BY <1>1, <2>5 DEF ReceiptsInv, Spent
<1>2. ReceiptsInv => OnceMeansOnce
  BY <1>1 DEF ReceiptsInv, Spent, OnceMeansOnce
<1> QED BY <1>2, ReceiptsInvariant, PTL

(* Every effect was allowed by a key the operator had enrolled for that    *)
(* purpose when it was verified, over exactly what the program asked for,  *)
(* in its time and not revoked (FileVerifier.Verify).                      *)
THEOREM HumanAuthority == SpecReceipts => []AuthorityIsHuman
<1>1. ASSUME ReceiptsInv, NEW x \in authorised
      PROVE  LET s == x.claim.receipt.stmt
                 q == x.claim.request
             IN  /\ \E a \in x.claim.anchors :
                      /\ a.id = s.anchor /\ a.key = x.claim.receipt.key
                      /\ a.actor = s.actor /\ s.purpose \in a.purposes
                      /\ x.claim.at \in a.notBefore .. a.notAfter
                 /\ s.id \notin x.claim.revoked.receipts
                 /\ s.anchor \notin x.claim.revoked.anchors
                 /\ s.subject = q.subject /\ s.digest = q.digest
                 /\ s.project = q.project /\ s.purpose = q.purpose
                 /\ q.via = "human" => s.input = q.input
                 /\ x.claim.at \in (s.issued - Skew) .. s.until
                 /\ s.use = "once" => s.purpose \notin GrantPurposes
  <2> DEFINE s == x.claim.receipt.stmt
             q == x.claim.request
             r == x.claim.receipt
             at == x.claim.at
  <2>1. Justified(x.claim)
    BY <1>1 DEF ReceiptsInv, Spent
  <2>2. /\ r \in ReceiptFiles /\ at \in Int /\ AdapterAllows(q)
        /\ x.claim.anchors \in AnchorDocs /\ ~Revoked(s, x.claim.revoked)
    BY <2>1 DEF Justified, Asked
  <2>3. PICK a \in x.claim.anchors :
          a.id = s.anchor /\ VerifyStatementCommon(r, q, a, at)
    BY <2>1 DEF Justified
  <2>4. /\ ValidStatement(s)
        /\ s.purpose = q.purpose /\ s.project = q.project
        /\ s.subject = q.subject /\ s.digest = q.digest
        /\ q.input \in {"", s.input}
        /\ a.actor = s.actor /\ q.purpose \in a.purposes
        /\ at >= a.notBefore /\ at <= a.notAfter
        /\ at >= s.issued - Skew /\ at <= s.until
        /\ r.key = a.key
    BY <2>3 DEF VerifyStatementCommon
  <2>5. /\ a.notBefore \in Int /\ a.notAfter \in Int
        /\ s.issued - Skew \in Int /\ s.until \in Int
    BY <2>2, ReceiptsAssumption DEF Skew
  <2>6. /\ at \in a.notBefore .. a.notAfter
        /\ at \in (s.issued - Skew) .. s.until
    BY <2>2, <2>4, <2>5, InRange, Zenon
  <2>7. s.id \notin x.claim.revoked.receipts /\ s.anchor \notin x.claim.revoked.anchors
    BY <2>2 DEF Revoked
  <2>8. q.via = "human" => s.input = q.input
    <3>1. ASSUME q.via = "human" PROVE s.input = q.input
      <4>1. /\ q.purpose \in DiscoveryPurposes
            /\ q.purpose \in InputPurposes => q.input # ""
        BY <2>2, <3>1 DEF AdapterAllows
      <4>2. (s.input # "") = (s.purpose \in InputPurposes)
        BY <2>4 DEF ValidStatement
      <4>3. CASE q.purpose \in InputPurposes
        BY <2>4, <4>1, <4>3
      <4>4. CASE q.purpose \notin InputPurposes
        BY <2>4, <4>2, <4>4
      <4> QED BY <4>3, <4>4
    <3> QED BY <3>1
  <2>9. s.use = "once" => s.purpose \notin GrantPurposes
    BY <2>4 DEF ValidStatement, ExpectedUse
  <2> QED
    BY <2>3, <2>4, <2>6, <2>7, <2>8, <2>9
<1>2. ReceiptsInv => AuthorityIsHuman
  BY <1>1 DEF AuthorityIsHuman
<1> QED BY <1>2, ReceiptsInvariant, PTL

-----------------------------------------------------------------------------
(* The flight recorder's journal.                                          *)

FrameKinds == {"damaged", "health", "critical", "diagnostic"}
Frame == [seq : Nat, kind : FrameKinds]
Segment ==
  [index : Nat, first : Nat, header : BOOLEAN, frames : Seq(Frame),
   synced : Nat]
WriterRecord ==
  [running : BOOLEAN, ok : BOOLEAN, luck : Nat, files : Seq(Segment),
   active : BOOLEAN, index : Nat, nextSeq : Nat,
   segStart : {"none", "started", "reopen", "rotated"}, writerErr : BOOLEAN,
   dropped : Nat, reported : Nat, queue : Nat]

(* A segment whose frames have sequences from its first up to before n,    *)
(* each more than the ones before it.                                      *)
SegmentBelow(s, n) ==
  /\ s.synced <= Len(s.frames)
  /\ s.header => s.first \in 1 .. n
  /\ \A k \in DOMAIN s.frames : s.frames[k] # Damaged =>
       /\ s.header /\ s.first <= s.frames[k].seq /\ s.frames[k].seq < n
       /\ \A l \in DOMAIN s.frames :
            s.frames[l] # Damaged /\ k < l =>
              s.frames[k].seq < s.frames[l].seq

(* A whole segment starts behind the segments before it.                   *)
StartsBehind(s, r) ==
  s.header /\ r.header =>
    /\ r.first <= s.first
    /\ \A k \in DOMAIN r.frames :
         r.frames[k] # Damaged => r.frames[k].seq < s.first

(* A journal whose next sequence may be n.                                 *)
JournalBelow(disk, n) ==
  /\ disk \in Seq(Segment) /\ n \in Nat \ {0}
  /\ \A i \in DOMAIN disk : SegmentBelow(disk[i], n)
  /\ \A i, j \in DOMAIN disk : i < j => StartsBehind(disk[j], disk[i])

(* The writer appends to the last segment, which is whole.                 *)
LastIsWhole(disk) == disk # << >> /\ disk[Len(disk)].header

(* A writer in the middle of an operation.                                 *)
WriterInv(v) ==
  /\ v \in WriterRecord
  /\ JournalBelow(v.files, v.nextSeq)
  /\ v.active => LastIsWhole(v.files)

(* A critical record with sequence n is in the journal, synced.            *)
SyncedRecord(disk, n) ==
  \E i \in DOMAIN disk : \E k \in 1 .. disk[i].synced :
    /\ disk[i].header
    /\ disk[i].frames[k] = [seq |-> n, kind |-> "critical"]

(* Every segment is below the next sequence and behind the ones before    *)
(* it; what was acknowledged is synced in one of them.                     *)
FlightInv ==
  /\ jw \in WriterRecord
  /\ \E n \in Nat \ {0} : JournalBelow(files, n)
  /\ jw.running =>
       JournalBelow(files, jw.nextSeq) /\ (jw.active => LastIsWhole(files))
  /\ acked \subseteq Nat \ {0}
  /\ \A n \in acked : SyncedRecord(files, n)

(* The last frame of the last segment.                                     *)
LastFrame(disk, n, kind) ==
  LET s == disk[Len(disk)] IN
  /\ Len(s.frames) \in DOMAIN s.frames
  /\ s.frames[Len(s.frames)] = [seq |-> n, kind |-> kind]

(* The last segment has the same frames, now all synced.                   *)
SyncedLast(F, G) ==
  LET r == F[Len(F)]
      s == G[Len(F)]
  IN /\ Len(G) = Len(F) /\ s.frames = r.frames /\ s.synced = Len(r.frames)

(* What a death leaves of a segment.                                       *)
Dimmed(r, s) ==
  /\ s \in Segment /\ s.header = r.header /\ s.first = r.first
  /\ s.synced = r.synced
  /\ Len(s.frames) = Len(r.frames) /\ DOMAIN s.frames = DOMAIN r.frames
  /\ \A k \in DOMAIN r.frames :
       s.frames[k] = r.frames[k] \/ s.frames[k] = Damaged
  /\ \A k \in 1 .. r.synced : s.frames[k] = r.frames[k]

-----------------------------------------------------------------------------
(* Sequences that a scan finds.                                            *)

(* A bounded set of natural numbers has a largest.                         *)
LEMMA MaxOf ==
  ASSUME NEW S, S \subseteq Nat, S # {}, NEW b \in Nat, \A x \in S : x <= b
  PROVE  Max(S) \in S /\ \A x \in S : x <= Max(S)
<1> DEFINE T == {u \in Nat : \A x \in S : x <= u}
<1>1. PICK m \in T : \A u \in T : ~(<<u, m>> \in OpToRel(<, Nat))
  <2>1. T \subseteq Nat /\ T # {}
    OBVIOUS
  <2> HIDE DEF T
  <2> QED BY <2>1, NatLessThanWellFounded, WFMin
<1>2. \A u \in T : ~(u < m)
  BY <1>1 DEF OpToRel
<1>3. m \in S
  <2> SUFFICES ASSUME m \notin S PROVE FALSE
    OBVIOUS
  <2>1. m \in Nat /\ \A x \in S : x < m
    OBVIOUS
  <2>2. m - 1 \in Nat /\ m - 1 < m
    <3>1. PICK x \in S : TRUE
      OBVIOUS
    <3>2. x \in Nat /\ x < m
      BY <2>1
    <3> QED BY <2>1, <3>2
  <2>3. \A x \in S : x <= m - 1
    BY <2>1, <2>2
  <2> QED BY <1>2, <2>2, <2>3
<1>4. \A x \in S : m >= x
  OBVIOUS
<1>5. Max(S) \in S /\ \A x \in S : Max(S) >= x
  BY <1>3, <1>4 DEF Max
<1> QED BY <1>5

(* The fields of a segment.                                                *)
LEMMA FramesOf ==
  ASSUME NEW s \in Segment
  PROVE  /\ s.frames \in Seq(Frame) /\ Len(s.frames) \in Nat
         /\ DOMAIN s.frames = 1 .. Len(s.frames)
         /\ s.first \in Nat /\ s.synced \in Nat /\ s.header \in BOOLEAN
         /\ \A k \in DOMAIN s.frames :
              s.frames[k] \in Frame /\ s.frames[k].seq \in Nat
<1>1. /\ s.frames \in Seq(Frame)
      /\ s.first \in Nat /\ s.synced \in Nat /\ s.header \in BOOLEAN
  BY DEF Segment
<1>2. /\ Len(s.frames) \in Nat /\ DOMAIN s.frames = 1 .. Len(s.frames)
  BY <1>1
<1>3. ASSUME NEW k \in DOMAIN s.frames
      PROVE  s.frames[k] \in Frame /\ s.frames[k].seq \in Nat
  <2>1. s.frames[k] \in Frame
    BY <1>1, <1>2
  <2> QED BY <2>1 DEF Frame
<1> QED BY <1>1, <1>2, <1>3

(* The effective last sequence of a whole segment is the largest of its    *)
(* valid frames, or the one before its first: anything above all of these  *)
(* is above it.                                                            *)
LEMMA EffectiveOf ==
  ASSUME NEW s \in Segment, NEW n \in Nat \ {0}, SegmentBelow(s, n), s.header
  PROVE  /\ EffectiveLast(s) \in Nat /\ s.first - 1 <= EffectiveLast(s)
         /\ \A k \in DOMAIN s.frames :
              s.frames[k] # Damaged => s.frames[k].seq <= EffectiveLast(s)
         /\ \A m \in Nat :
              /\ s.first <= m
              /\ \A k \in DOMAIN s.frames :
                   s.frames[k] # Damaged => s.frames[k].seq < m
              => EffectiveLast(s) < m
<1>1. /\ s.first \in Nat \ {0} /\ s.first - 1 \in Nat
  BY FramesOf DEF SegmentBelow
<1>2. /\ DOMAIN s.frames \subseteq Nat /\ Len(s.frames) \in Nat
      /\ \A k \in DOMAIN s.frames : k <= Len(s.frames)
      /\ \A k \in DOMAIN s.frames : s.frames[k].seq \in Nat
  BY FramesOf
<1>3. Delivered(s) = {k \in DOMAIN s.frames : s.frames[k] # Damaged}
  BY DEF Delivered
<1>4. CASE Delivered(s) = {}
  BY <1>1, <1>3, <1>4 DEF EffectiveLast
<1>5. CASE Delivered(s) # {}
  <2>1. PICK m \in Delivered(s) : /\ m = Max(Delivered(s))
                                  /\ \A k \in Delivered(s) : k <= m
    BY <1>2, <1>3, <1>5, MaxOf
  <2>2. EffectiveLast(s) = s.frames[m].seq
    BY <1>5, <2>1 DEF EffectiveLast
  <2>3. m \in DOMAIN s.frames /\ s.frames[m] # Damaged /\ m \in Nat
    BY <1>2, <1>3, <2>1
  <2>4. s.first <= s.frames[m].seq /\ s.frames[m].seq \in Nat
    BY <1>2, <2>3 DEF SegmentBelow
  <2>5. ASSUME NEW k \in DOMAIN s.frames, s.frames[k] # Damaged
        PROVE  s.frames[k].seq <= s.frames[m].seq
    <3>1. k \in Nat /\ k <= m
      BY <1>2, <1>3, <2>1, <2>5
    <3>2. CASE k = m
      BY <2>4, <3>2
    <3>3. CASE k < m
      <4>1. s.frames[k].seq < s.frames[m].seq
        BY <2>3, <2>5, <3>3 DEF SegmentBelow
      <4> QED BY <1>2, <2>3, <2>5, <4>1
    <3> QED BY <2>3, <3>1, <3>2, <3>3
  <2>6. s.first - 1 <= s.frames[m].seq
    BY <1>1, <2>4
  <2>7. \A top \in Nat :
          (\A k \in DOMAIN s.frames :
             s.frames[k] # Damaged => s.frames[k].seq < top)
          => s.frames[m].seq < top
    BY <2>3
  <2> QED BY <2>2, <2>4, <2>5, <2>6, <2>7
<1> QED BY <1>4, <1>5

(* LastSequence is below the next sequence of the journal, and no whole    *)
(* segment has an effective last sequence above it.                        *)
LEMMA LastOf ==
  ASSUME NEW disk, NEW n, JournalBelow(disk, n)
  PROVE  /\ LastSequence(disk) \in Nat /\ LastSequence(disk) < n
         /\ \A i \in WholeSegments(disk) :
              EffectiveLast(disk[i]) <= LastSequence(disk)
<1> DEFINE S == {0} \cup {EffectiveLast(disk[i]) : i \in WholeSegments(disk)}
<1>1. ASSUME NEW i \in WholeSegments(disk)
      PROVE  EffectiveLast(disk[i]) \in Nat /\ EffectiveLast(disk[i]) < n
  <2>1. /\ disk[i] \in Segment /\ n \in Nat \ {0} /\ SegmentBelow(disk[i], n)
        /\ disk[i].header
    BY DEF WholeSegments, JournalBelow
  <2>2. /\ disk[i].first <= n
        /\ \A k \in DOMAIN disk[i].frames :
             disk[i].frames[k] # Damaged => disk[i].frames[k].seq < n
    BY <2>1 DEF SegmentBelow
  <2> QED BY <2>1, <2>2, EffectiveOf
<1>2. /\ S \subseteq Nat /\ S # {} /\ n \in Nat
      /\ \A x \in S : x < n /\ x <= n
  BY <1>1 DEF JournalBelow
<1>3. Max(S) \in S /\ \A x \in S : x <= Max(S)
  <2> HIDE DEF S
  <2> QED BY <1>2, MaxOf
<1>4. LastSequence(disk) = Max(S)
  BY DEF LastSequence
<1> QED BY <1>2, <1>3, <1>4

(* The writer resumes behind everything a scan delivers.                   *)
LEMMA ResumesBehind ==
  ASSUME NEW disk, NEW n, JournalBelow(disk, n)
  PROVE  JournalBelow(disk, ResumeAt(disk))
<1> DEFINE m == LastSequence(disk) + 1
<1>1. /\ LastSequence(disk) \in Nat /\ m \in Nat \ {0}
      /\ \A i \in WholeSegments(disk) :
           EffectiveLast(disk[i]) <= LastSequence(disk)
  BY LastOf
<1>2. ASSUME NEW i \in DOMAIN disk
      PROVE  SegmentBelow(disk[i], m)
  <2>1. disk[i] \in Segment /\ n \in Nat \ {0} /\ SegmentBelow(disk[i], n)
    BY DEF JournalBelow
  <2>2. CASE ~disk[i].header
    BY <2>1, <2>2 DEF SegmentBelow
  <2>3. CASE disk[i].header
    <3>1. /\ EffectiveLast(disk[i]) \in Nat
          /\ disk[i].first - 1 <= EffectiveLast(disk[i])
          /\ \A k \in DOMAIN disk[i].frames :
               disk[i].frames[k] # Damaged =>
                 disk[i].frames[k].seq <= EffectiveLast(disk[i])
      BY <2>1, <2>3, EffectiveOf
    <3>2. EffectiveLast(disk[i]) <= LastSequence(disk)
      BY <1>1, <2>3 DEF WholeSegments
    <3>3. /\ disk[i].first \in Nat \ {0}
          /\ \A k \in DOMAIN disk[i].frames : disk[i].frames[k].seq \in Nat
      BY <2>1, <2>3, FramesOf DEF SegmentBelow
    <3>4. disk[i].first \in 1 .. m
      BY <1>1, <3>1, <3>2, <3>3
    <3>5. \A k \in DOMAIN disk[i].frames :
             disk[i].frames[k] # Damaged => disk[i].frames[k].seq < m
      BY <1>1, <3>1, <3>2, <3>3
    <3> HIDE DEF m
    <3> QED BY <2>1, <3>4, <3>5 DEF SegmentBelow
  <2> QED BY <2>2, <2>3
<1>3. JournalBelow(disk, m)
  <2> HIDE DEF m
  <2> QED BY <1>1, <1>2 DEF JournalBelow
<1> QED BY <1>3 DEF ResumeAt

(* No regression.                                                          *)
LEMMA NeverRegresses ==
  ASSUME NEW disk, NEW n, JournalBelow(disk, n)
  PROVE  ~SequenceRegresses(disk)
<1>1. ASSUME NEW j \in WholeSegments(disk), NEW l \in Delivered(disk[j]),
             NEW k \in Delivered(disk[j])
      PROVE  /\ ~(disk[j].frames[l].seq < disk[j].first)
             /\ ~(k < l /\ disk[j].frames[k].seq >= disk[j].frames[l].seq)
  <2>1. /\ disk[j] \in Segment /\ SegmentBelow(disk[j], n)
        /\ n \in Nat \ {0}
    BY DEF WholeSegments, JournalBelow
  <2>2. /\ disk[j].first \in Nat
        /\ k \in DOMAIN disk[j].frames /\ disk[j].frames[k] # Damaged
        /\ l \in DOMAIN disk[j].frames /\ disk[j].frames[l] # Damaged
    BY <2>1, FramesOf DEF Delivered
  <2>3. disk[j].frames[k].seq \in Nat /\ disk[j].frames[l].seq \in Nat
    BY <2>1, <2>2, FramesOf
  <2> QED BY <2>1, <2>2, <2>3 DEF SegmentBelow
<1>2. ASSUME NEW i \in WholeSegments(disk), NEW j \in WholeSegments(disk),
             i < j
      PROVE  ~(EffectiveLast(disk[i]) >= disk[j].first)
  <2>1. /\ disk[i] \in Segment /\ SegmentBelow(disk[i], n)
        /\ disk[i].header /\ n \in Nat \ {0} /\ disk[j] \in Segment
        /\ StartsBehind(disk[j], disk[i]) /\ disk[j].header
    BY <1>2 DEF WholeSegments, JournalBelow
  <2>2. disk[j].first \in Nat
    BY <2>1 DEF Segment
  <2>3. EffectiveLast(disk[i]) \in Nat
        /\ EffectiveLast(disk[i]) < disk[j].first
    BY <2>1, <2>2, EffectiveOf DEF StartsBehind
  <2> QED BY <2>2, <2>3
<1> QED BY <1>1, <1>2 DEF SequenceRegresses

(* A sequence has one frame.                                               *)
LEMMA OneFrame ==
  ASSUME NEW disk, NEW n, JournalBelow(disk, n),
         NEW i \in DOMAIN disk, NEW k \in DOMAIN disk[i].frames,
         disk[i].frames[k] # Damaged,
         NEW j \in DOMAIN disk, NEW l \in DOMAIN disk[j].frames,
         disk[j].frames[l] # Damaged,
         disk[i].frames[k].seq = disk[j].frames[l].seq
  PROVE  i = j /\ k = l
<1>1. /\ disk[i] \in Segment /\ disk[j] \in Segment
      /\ SegmentBelow(disk[i], n) /\ SegmentBelow(disk[j], n)
      /\ i \in Nat /\ j \in Nat
  BY DEF JournalBelow
<1>2. /\ disk[i].frames[k].seq \in Nat /\ k \in Nat
      /\ disk[j].frames[l].seq \in Nat /\ l \in Nat
      /\ disk[i].first \in Nat /\ disk[j].first \in Nat
  BY <1>1, FramesOf
<1>3. /\ disk[i].header /\ disk[j].header
      /\ disk[i].first <= disk[i].frames[k].seq
      /\ disk[j].first <= disk[j].frames[l].seq
  BY <1>1 DEF SegmentBelow
<1>4. ~(i < j)
  <2> SUFFICES ASSUME i < j PROVE FALSE
    OBVIOUS
  <2>1. disk[i].frames[k].seq < disk[j].first
    BY <1>3 DEF JournalBelow, StartsBehind
  <2> QED BY <1>2, <1>3, <2>1
<1>5. ~(j < i)
  <2> SUFFICES ASSUME j < i PROVE FALSE
    OBVIOUS
  <2>1. disk[j].frames[l].seq < disk[i].first
    BY <1>3 DEF JournalBelow, StartsBehind
  <2> QED BY <1>2, <1>3, <2>1
<1>6. i = j
  BY <1>1, <1>4, <1>5
<1>7. ~(k < l) /\ ~(l < k)
  BY <1>1, <1>2, <1>6 DEF SegmentBelow
<1> QED BY <1>2, <1>6, <1>7

(* A synced record is delivered, and by one frame only.                    *)
LEMMA DeliveredOnce ==
  ASSUME NEW disk, NEW n, JournalBelow(disk, n), NEW x \in Nat \ {0},
         SyncedRecord(disk, x)
  PROVE  Cardinality({p \in UNION {{i} \X Delivered(disk[i]) :
                                     i \in DOMAIN disk} :
                        /\ disk[p[1]].frames[p[2]].seq = x
                        /\ disk[p[1]].frames[p[2]].kind = "critical"}) = 1
<1> DEFINE All == UNION {{i} \X Delivered(disk[i]) : i \in DOMAIN disk}
           Those == {p \in All : /\ disk[p[1]].frames[p[2]].seq = x
                                 /\ disk[p[1]].frames[p[2]].kind = "critical"}
<1>0. PICK i \in DOMAIN disk : \E k \in 1 .. disk[i].synced :
        /\ disk[i].header
        /\ disk[i].frames[k] = [seq |-> x, kind |-> "critical"]
  BY DEF SyncedRecord
<1>1. PICK k \in 1 .. disk[i].synced :
        /\ disk[i].header
        /\ disk[i].frames[k] = [seq |-> x, kind |-> "critical"]
  BY <1>0
<1>2. disk[i] \in Segment /\ disk[i].synced <= Len(disk[i].frames)
  BY DEF JournalBelow, SegmentBelow
<1>3. k \in DOMAIN disk[i].frames
  BY <1>2, FramesOf
<1>4. /\ disk[i].frames[k].seq = x /\ disk[i].frames[k].kind = "critical"
      /\ disk[i].frames[k] # Damaged
  BY <1>1 DEF Damaged
<1>5. <<i, k>> \in All
  BY <1>1, <1>3, <1>4 DEF Delivered
<1>6. ASSUME NEW p \in Those
      PROVE  p = <<i, k>>
  <2>1. PICK j \in DOMAIN disk : p \in {j} \X Delivered(disk[j])
    OBVIOUS
  <2>2. PICK l \in Delivered(disk[j]) : p = <<j, l>>
    BY <2>1
  <2>3. /\ l \in DOMAIN disk[j].frames /\ disk[j].frames[l] # Damaged
        /\ disk[j].frames[l].seq = x
    BY <2>2 DEF Delivered
  <2> QED BY <1>3, <1>4, <2>2, <2>3, OneFrame
<1>7. Those = {<<i, k>>}
  <2>1. <<i, k>> \in Those
    BY <1>4, <1>5
  <2> HIDE DEF Those
  <2> QED BY <1>6, <2>1
<1>8. Cardinality(Those) = 1
  <2> HIDE DEF Those
  <2> QED BY <1>7, FS_Singleton
<1> QED BY <1>8

-----------------------------------------------------------------------------
(* One step of the writer.                                                 *)

(* What was synced stays.                                                  *)
Keeps(F, G) ==
  /\ DOMAIN F \subseteq DOMAIN G
  /\ \A i \in DOMAIN F :
       /\ G[i].header = F[i].header /\ F[i].synced <= G[i].synced
       /\ \A k \in 1 .. F[i].synced : G[i].frames[k] = F[i].frames[k]

(* What the operations hand to each other.                                 *)
Continues(v, w) == WriterInv(w) /\ Keeps(v.files, w.files)
Ready(v) == v.ok => v.active

(* A synced record stays one in a journal that keeps what was synced.      *)
LEMMA KeepsSynced ==
  ASSUME NEW F, NEW n, JournalBelow(F, n), NEW G, NEW m, JournalBelow(G, m),
         Keeps(F, G), NEW x, SyncedRecord(F, x)
  PROVE  SyncedRecord(G, x)
<1>0. PICK i \in DOMAIN F : \E k \in 1 .. F[i].synced :
        /\ F[i].header /\ F[i].frames[k] = [seq |-> x, kind |-> "critical"]
  BY DEF SyncedRecord
<1>1. PICK k \in 1 .. F[i].synced :
        /\ F[i].header /\ F[i].frames[k] = [seq |-> x, kind |-> "critical"]
  BY <1>0
<1>2. i \in DOMAIN G /\ F[i] \in Segment /\ G[i] \in Segment
  BY DEF Keeps, JournalBelow
<1>3. F[i].synced \in Nat /\ G[i].synced \in Nat
  BY <1>2, FramesOf
<1>4. k \in 1 .. G[i].synced
  BY <1>3 DEF Keeps
<1> QED BY <1>1, <1>2, <1>4 DEF Keeps, SyncedRecord

(* One operation after the other.                                          *)
LEMMA KeepsTransitive ==
  ASSUME NEW u, NEW v, NEW w, WriterInv(u), Continues(u, v), Continues(v, w)
  PROVE  Continues(u, w)
<1> DEFINE F == u.files
           G == v.files
           H == w.files
<1>1. ASSUME NEW i \in DOMAIN F
      PROVE  /\ H[i].header = F[i].header /\ F[i].synced <= H[i].synced
             /\ \A k \in 1 .. F[i].synced : H[i].frames[k] = F[i].frames[k]
  <2>1. i \in DOMAIN G /\ i \in DOMAIN H
    BY DEF Continues, Keeps
  <2>2. F[i] \in Segment /\ G[i] \in Segment /\ H[i] \in Segment
    BY <2>1 DEF Continues, WriterInv, JournalBelow
  <2>3. F[i].synced \in Nat /\ G[i].synced \in Nat /\ H[i].synced \in Nat
    BY <2>2, FramesOf
  <2>4. F[i].synced <= G[i].synced /\ G[i].synced <= H[i].synced
    BY <2>1 DEF Continues, Keeps
  <2>5. \A k \in 1 .. F[i].synced : k \in 1 .. G[i].synced
    BY <2>3, <2>4
  <2> QED BY <2>1, <2>3, <2>4, <2>5 DEF Continues, Keeps
<1>2. DOMAIN F \subseteq DOMAIN H
  BY DEF Continues, Keeps
<1> QED BY <1>1, <1>2 DEF Continues, Keeps

(* A journal keeps what it has.                                            *)
LEMMA KeepsItself ==
  ASSUME NEW disk, NEW n, JournalBelow(disk, n)
  PROVE  Keeps(disk, disk)
<1>1. \A i \in DOMAIN disk : disk[i].synced \in Nat
  BY FramesOf DEF JournalBelow
<1> QED BY <1>1 DEF Keeps

(* A step of the writer that leaves the files alone.                       *)
LEMMA FilesAlone ==
  ASSUME NEW v, WriterInv(v), NEW w \in WriterRecord,
         w.files = v.files, w.nextSeq = v.nextSeq, w.active => v.active
  PROVE  Continues(v, w)
BY KeepsItself DEF WriterInv, Continues

(* A poisoned writer has the same files and sequence, and no segment.      *)
LEMMA Poisoned ==
  ASSUME NEW v, v \in WriterRecord
  PROVE  /\ poisonLocked(v) \in WriterRecord
         /\ poisonLocked(v).files = v.files
         /\ poisonLocked(v).nextSeq = v.nextSeq
         /\ poisonLocked(v).active = FALSE /\ poisonLocked(v).ok = FALSE
BY DEF poisonLocked, WriterRecord

(* The bound on a segment's sequences may be raised.                       *)
LEMMA BelowMore ==
  ASSUME NEW s \in Segment, NEW n \in Nat, SegmentBelow(s, n)
  PROVE  SegmentBelow(s, n + 1)
<1>1. /\ s.first \in Nat
      /\ \A k \in DOMAIN s.frames : s.frames[k].seq \in Nat
  BY FramesOf
<1>2. s.header => s.first \in 1 .. n + 1
  BY <1>1 DEF SegmentBelow
<1>3. \A k \in DOMAIN s.frames :
        s.frames[k] # Damaged => s.frames[k].seq < n + 1
  BY <1>1 DEF SegmentBelow
<1> QED BY <1>2, <1>3 DEF SegmentBelow

Grown(F, n, G) ==
  JournalBelow(G, n) /\ Keeps(F, G) /\ G \in Seq(Segment)

(* A new segment starts at the next sequence.                              *)
LEMMA SegmentAppended ==
  ASSUME NEW F, NEW n, JournalBelow(F, n), NEW i \in Nat,
         NEW h \in BOOLEAN, NEW G, G = Append(F, NewSegmentFile(i, n, h))
  PROVE  Grown(F, n, G) /\ (h => LastIsWhole(G))
<1>1. PICK s : s = NewSegmentFile(i, n, h)
  OBVIOUS
<1>2. /\ s \in Segment /\ s.first = n /\ s.header = h /\ s.synced = 0
      /\ s.frames = << >> /\ n \in Nat \ {0}
  BY <1>1 DEF NewSegmentFile, Segment, JournalBelow
<1>3. /\ F \in Seq(Segment) /\ Len(F) \in Nat /\ DOMAIN F = 1 .. Len(F)
  BY DEF JournalBelow
<1>4. /\ G \in Seq(Segment) /\ Len(G) = Len(F) + 1
      /\ DOMAIN G = DOMAIN F \cup {Len(F) + 1} /\ G[Len(F) + 1] = s
      /\ \A j \in DOMAIN F : G[j] = F[j]
  <2>1. G = Append(F, s)
    BY <1>1
  <2>2. /\ G \in Seq(Segment) /\ Len(G) = Len(F) + 1 /\ G[Len(F) + 1] = s
        /\ \A j \in DOMAIN F : G[j] = F[j]
    BY <1>2, <1>3, <2>1
  <2>3. DOMAIN G = DOMAIN F \cup {Len(F) + 1}
    BY <1>3, <2>2
  <2> QED BY <2>2, <2>3
<1>5. SegmentBelow(s, n)
  BY <1>2 DEF SegmentBelow
<1>6. ASSUME NEW j \in DOMAIN F
      PROVE  StartsBehind(s, F[j])
  <2>1. F[j] \in Segment /\ SegmentBelow(F[j], n)
    BY DEF JournalBelow
  <2> QED BY <1>2, <2>1, FramesOf DEF SegmentBelow, StartsBehind
<1>7. JournalBelow(G, n)
  <2>1. \A j, k \in DOMAIN G : j < k => StartsBehind(G[k], G[j])
    <3>1. \A j \in DOMAIN F : ~(Len(F) + 1 < j)
      BY <1>3
    <3>2. ~(Len(F) + 1 < Len(F) + 1)
      BY <1>3
    <3> QED BY <1>4, <1>6, <3>1, <3>2 DEF JournalBelow
  <2>2. \A j \in DOMAIN G : SegmentBelow(G[j], n)
    BY <1>4, <1>5 DEF JournalBelow
  <2> QED BY <1>2, <1>4, <2>1, <2>2 DEF JournalBelow
<1>8. Keeps(F, G)
  BY <1>4, KeepsItself DEF Keeps
<1>9. h => LastIsWhole(G)
  <2>1. G # << >>
    BY <1>3, <1>4
  <2>2. G[Len(G)] = s
    BY <1>4
  <2> QED BY <1>2, <2>1, <2>2 DEF LastIsWhole
<1> QED BY <1>4, <1>7, <1>8, <1>9 DEF Grown

(* The last segment F[Len(F)] is replaced by s, which keeps what is synced.*)
Longer(F, s, G) ==
  /\ s \in Segment /\ s.header /\ s.first = F[Len(F)].first
  /\ F[Len(F)].synced <= s.synced
  /\ \A k \in 1 .. F[Len(F)].synced : s.frames[k] = F[Len(F)].frames[k]
  /\ G = [F EXCEPT ![Len(F)] = s]
Replaced(F, s, m, G) ==
  /\ JournalBelow(G, m) /\ LastIsWhole(G) /\ Keeps(F, G)
  /\ Len(G) = Len(F) /\ G[Len(F)] = s /\ G \in Seq(Segment)

(* The last segment gets longer, or more of it is synced.                  *)
LEMMA LastReplaced ==
  ASSUME NEW F, NEW n, JournalBelow(F, n), LastIsWhole(F),
         NEW m, m = n \/ m = n + 1, NEW s, SegmentBelow(s, m),
         NEW G, Longer(F, s, G)
  PROVE  Replaced(F, s, m, G)
<1>1. /\ F \in Seq(Segment) /\ Len(F) \in DOMAIN F
      /\ DOMAIN F = 1 .. Len(F) /\ Len(F) \in Nat
      /\ n \in Nat \ {0} /\ m \in Nat \ {0}
      /\ s \in Segment /\ G = [F EXCEPT ![Len(F)] = s]
  BY DEF JournalBelow, LastIsWhole, Longer
<1>2. /\ G \in Seq(Segment) /\ DOMAIN G = DOMAIN F /\ Len(G) = Len(F)
      /\ G[Len(F)] = s /\ \A i \in DOMAIN F : i # Len(F) => G[i] = F[i]
  <2>1. /\ DOMAIN G = DOMAIN F /\ G[Len(F)] = s
        /\ \A i \in DOMAIN F : i # Len(F) => G[i] = F[i]
    BY <1>1
  <2>2. G \in Seq(Segment)
    BY <1>1
  <2>3. Len(G) = Len(F)
    BY <1>1, <2>1, <2>2
  <2> QED BY <2>1, <2>2, <2>3
<1>3. \A i \in DOMAIN G : SegmentBelow(G[i], m)
  <2>1. \A i \in DOMAIN F : F[i] \in Segment /\ SegmentBelow(F[i], n)
    BY DEF JournalBelow
  <2>2. \A i \in DOMAIN F : SegmentBelow(F[i], m)
    BY <1>1, <2>1, BelowMore
  <2> QED BY <1>2, <2>2
<1>4. ASSUME NEW i \in DOMAIN G, NEW j \in DOMAIN G, i < j
      PROVE  StartsBehind(G[j], G[i])
  <2>1. i # Len(F)
    BY <1>1, <1>2, <1>4
  <2>2. StartsBehind(F[j], F[i])
    BY <1>2, <1>4 DEF JournalBelow
  <2>3. CASE j = Len(F)
    BY <1>2, <2>1, <2>2, <2>3 DEF StartsBehind, LastIsWhole, Longer
  <2>4. CASE j # Len(F)
    BY <1>2, <2>1, <2>2, <2>4
  <2> QED BY <2>3, <2>4
<1>5. JournalBelow(G, m)
  BY <1>1, <1>2, <1>3, <1>4 DEF JournalBelow
<1>6. Keeps(F, G)
  <2>1. Keeps(F, F)
    BY KeepsItself
  <2> QED BY <1>2, <2>1 DEF Keeps, LastIsWhole, Longer
<1>7. LastIsWhole(G)
  <2>1. s.header
    BY DEF Longer
  <2>2. G # << >>
    BY <1>1, <1>2
  <2> QED BY <1>2, <2>1, <2>2 DEF LastIsWhole
<1> QED BY <1>2, <1>5, <1>6, <1>7 DEF Replaced

(* A frame with the next sequence, or a damaged one, at the end: the next  *)
(* sequence is m then.                                                     *)
FrameAdds(F, n, f, m, G) ==
  /\ f \in Frame
  /\ \/ f = Damaged /\ m = n
     \/ f.seq = n /\ m = n + 1
  /\ G = [F EXCEPT ![Len(F)].frames = Append(@, f)]
FrameAdded(F, f, m, G) ==
  /\ JournalBelow(G, m) /\ LastIsWhole(G) /\ Keeps(F, G)
  /\ G \in Seq(Segment)
  /\ Len(G[Len(G)].frames) \in DOMAIN G[Len(G)].frames
  /\ G[Len(G)].frames[Len(G[Len(G)].frames)] = f

(* The journal with that frame is one whose next sequence is m, and what   *)
(* was synced is kept.                                                     *)
LEMMA FramePut ==
  ASSUME NEW F, NEW n, JournalBelow(F, n), LastIsWhole(F),
         NEW f, NEW m, NEW G, FrameAdds(F, n, f, m, G)
  PROVE  FrameAdded(F, f, m, G)
<1>0. /\ f \in Frame
      /\ \/ f = Damaged /\ m = n
         \/ f.seq = n /\ m = n + 1
      /\ G = [F EXCEPT ![Len(F)].frames = Append(@, f)]
  BY DEF FrameAdds
<1>1. PICK r, s : /\ r = F[Len(F)]
                  /\ s = [r EXCEPT !.frames = Append(r.frames, f)]
  OBVIOUS
<1>2. /\ r \in Segment /\ SegmentBelow(r, n) /\ r.header
      /\ n \in Nat \ {0} /\ m \in {n, n + 1}
  <2>1. Len(F) \in DOMAIN F
    BY DEF JournalBelow, LastIsWhole
  <2> QED BY <1>0, <1>1, <2>1 DEF JournalBelow, LastIsWhole
<1>3. /\ r.frames \in Seq(Frame) /\ Len(r.frames) \in Nat
      /\ DOMAIN r.frames = 1 .. Len(r.frames) /\ r.synced \in Nat
      /\ r.first \in Nat
      /\ \A k \in DOMAIN r.frames : r.frames[k].seq \in Nat
  BY <1>2, FramesOf
<1>4. PICK fs : fs = Append(r.frames, f)
  OBVIOUS
<1>5. /\ fs \in Seq(Frame) /\ Len(fs) = Len(r.frames) + 1
      /\ DOMAIN fs = DOMAIN r.frames \cup {Len(r.frames) + 1}
      /\ fs[Len(r.frames) + 1] = f
      /\ \A k \in DOMAIN r.frames : fs[k] = r.frames[k]
  <2>1. /\ fs \in Seq(Frame) /\ Len(fs) = Len(r.frames) + 1
        /\ fs[Len(r.frames) + 1] = f
        /\ \A k \in DOMAIN r.frames : fs[k] = r.frames[k]
    BY <1>0, <1>3, <1>4
  <2>2. DOMAIN fs = 1 .. Len(fs)
    BY <2>1
  <2>3. 1 .. (Len(r.frames) + 1) = 1 .. Len(r.frames) \cup {Len(r.frames) + 1}
    BY <1>3
  <2> QED BY <1>3, <2>1, <2>2, <2>3
<1>6. /\ s \in Segment /\ s.frames = fs /\ s.synced = r.synced
      /\ s.first = r.first /\ s.header = r.header
  BY <1>1, <1>2, <1>4, <1>5 DEF Segment
<1>7. SegmentBelow(s, m)
  <2>1. s.synced <= Len(s.frames)
    <3>1. r.synced <= Len(r.frames)
      BY <1>2 DEF SegmentBelow
    <3>2. r.synced <= Len(r.frames) + 1
      BY <1>3, <3>1
    <3> QED BY <1>5, <1>6, <3>2
  <2>2. s.first \in 1 .. m
    BY <1>2, <1>3, <1>6 DEF SegmentBelow
  <2>3. ASSUME NEW k \in DOMAIN s.frames, s.frames[k] # Damaged
        PROVE  /\ s.first <= s.frames[k].seq /\ s.frames[k].seq < m
               /\ \A l \in DOMAIN s.frames :
                    s.frames[l] # Damaged /\ k < l =>
                      s.frames[k].seq < s.frames[l].seq
    <3>1. CASE k \in DOMAIN r.frames
      <4>1. /\ r.first <= r.frames[k].seq /\ r.frames[k].seq < n
            /\ r.frames[k].seq \in Nat /\ r.frames[k] # Damaged
            /\ s.frames[k] = r.frames[k]
        BY <1>2, <1>3, <1>5, <1>6, <2>3, <3>1 DEF SegmentBelow
      <4>2. ASSUME NEW l \in DOMAIN s.frames, s.frames[l] # Damaged, k < l
            PROVE  s.frames[k].seq < s.frames[l].seq
        <5>1. CASE l \in DOMAIN r.frames
          BY <1>2, <1>5, <1>6, <3>1, <4>1, <4>2, <5>1 DEF SegmentBelow
        <5>2. CASE l = Len(r.frames) + 1
          <6>1. s.frames[l] = f /\ f.seq = n
            BY <1>0, <1>5, <1>6, <4>2, <5>2
          <6> QED BY <4>1, <6>1
        <5> QED BY <1>5, <1>6, <5>1, <5>2
      <4>3. r.frames[k].seq < m
        BY <1>2, <4>1
      <4> QED BY <1>6, <4>1, <4>2, <4>3
    <3>2. CASE k = Len(r.frames) + 1
      <4>1. s.frames[k] = f /\ f.seq = n /\ m = n + 1
        BY <1>0, <1>5, <1>6, <2>3, <3>2
      <4>2. \A l \in DOMAIN s.frames : ~(k < l)
        BY <1>3, <1>5, <1>6, <3>2
      <4>3. r.first <= n
        BY <1>2, <1>3 DEF SegmentBelow
      <4> QED BY <1>2, <1>6, <4>1, <4>2, <4>3
    <3> QED BY <1>5, <1>6, <3>1, <3>2
  <2> QED BY <1>2, <1>6, <2>1, <2>2, <2>3 DEF SegmentBelow
<1>8. /\ r.synced <= s.synced
      /\ \A k \in 1 .. r.synced : s.frames[k] = r.frames[k]
  <2>1. \A k \in 1 .. r.synced : k \in DOMAIN r.frames
    BY <1>2, <1>3 DEF SegmentBelow
  <2> QED BY <1>3, <1>5, <1>6, <2>1
<1>9. /\ G = [F EXCEPT ![Len(F)] = s] /\ s.first = F[Len(F)].first
      /\ F[Len(F)].synced <= s.synced /\ s.header
      /\ \A k \in 1 .. F[Len(F)].synced :
           s.frames[k] = F[Len(F)].frames[k]
  BY <1>0, <1>1, <1>2, <1>6, <1>8
<1>10. /\ JournalBelow(G, m) /\ LastIsWhole(G) /\ Keeps(F, G)
       /\ Len(G) = Len(F) /\ G[Len(F)] = s /\ G \in Seq(Segment)
  <2>1. Longer(F, s, G)
    BY <1>6, <1>9 DEF Longer
  <2>2. m = n \/ m = n + 1
    BY <1>2
  <2>3. Replaced(F, s, m, G)
    BY <1>7, <2>1, <2>2, LastReplaced
  <2> QED BY <2>3 DEF Replaced
<1> QED BY <1>3, <1>5, <1>6, <1>10 DEF FrameAdded

(* The next segment: a failed creation leaves nothing, or a segment        *)
(* without frames, behind.                                                 *)
LEMMA NewSegment ==
  ASSUME NEW v, WriterInv(v), NEW left \in Lefts,
         NEW w, w = newSegmentLocked(v, left)
  PROVE  Continues(v, w) /\ Ready(w)
<1> DEFINE i == v.index + 1
           made(h) == Append(v.files, NewSegmentFile(i, v.nextSeq, h))
<1>1. /\ v \in WriterRecord /\ JournalBelow(v.files, v.nextSeq)
      /\ v.index \in Nat /\ v.luck \in Nat /\ i \in Nat
      /\ v.files \in Seq(Segment) /\ v.nextSeq \in Nat
  BY DEF WriterInv, WriterRecord
<1>2. PICK T, U : T = made(TRUE) /\ U = made(FALSE)
  OBVIOUS
<1>6. /\ Grown(v.files, v.nextSeq, T) /\ LastIsWhole(T)
      /\ Grown(v.files, v.nextSeq, U)
  <2>1. PICK F, n, j : F = v.files /\ n = v.nextSeq /\ j = i
    OBVIOUS
  <2>2. JournalBelow(F, n) /\ j \in Nat
    BY <1>1, <2>1
  <2>3. /\ T = Append(F, NewSegmentFile(j, n, TRUE))
        /\ U = Append(F, NewSegmentFile(j, n, FALSE))
    BY <1>2, <2>1
  <2>4. Grown(F, n, T) /\ LastIsWhole(T)
    BY <2>2, <2>3, SegmentAppended
  <2>5. Grown(F, n, U)
    BY <2>2, <2>3, SegmentAppended
  <2> QED BY <2>1, <2>4, <2>5
<1>3. CASE i > MaxSegments
  <2>1. w = poisonLocked(v)
    BY <1>3 DEF newSegmentLocked
  <2>2. /\ w \in WriterRecord /\ w.files = v.files /\ w.nextSeq = v.nextSeq
        /\ w.active = FALSE /\ w.ok = FALSE
    BY <1>1, <2>1, Poisoned
  <2> QED BY <2>2, FilesAlone DEF Ready
<1>4. CASE ~(i > MaxSegments) /\ v.luck = 0
  <2>1. PICK F : F = CASE left = "nothing" -> v.files
                       [] left = "torn" -> made(FALSE)
                       [] left = "header" -> made(TRUE)
    OBVIOUS
  <2>2. PICK u : u = [v EXCEPT !.index = i, !.files = F]
    OBVIOUS
  <2>3. w = poisonLocked(u)
    BY <1>4, <2>1, <2>2 DEF newSegmentLocked
  <2>4. F = v.files \/ F = U \/ F = T
    BY <1>2, <2>1 DEF Lefts
  <2>5. /\ F \in Seq(Segment) /\ JournalBelow(F, v.nextSeq)
        /\ Keeps(v.files, F)
    BY <1>1, <1>6, <2>4, KeepsItself DEF Grown
  <2>6. u \in WriterRecord /\ u.files = F /\ u.nextSeq = v.nextSeq
    <3> HIDE DEF i
    <3> QED BY <1>1, <2>2, <2>5 DEF WriterRecord
  <2>7. /\ w \in WriterRecord /\ w.files = F /\ w.nextSeq = v.nextSeq
        /\ w.active = FALSE /\ w.ok = FALSE
    BY <2>3, <2>6, Poisoned
  <2> QED BY <2>5, <2>7 DEF Continues, WriterInv, Ready
<1>5. CASE ~(i > MaxSegments) /\ v.luck # 0
  <2>1. w = [v EXCEPT !.index = i, !.luck = v.luck - 1, !.active = TRUE,
                      !.files = made(TRUE)]
    BY <1>5 DEF newSegmentLocked
  <2>2. PICK F : F = T
    OBVIOUS
  <2>3. /\ F \in Seq(Segment) /\ JournalBelow(F, v.nextSeq)
        /\ Keeps(v.files, F) /\ LastIsWhole(F)
    BY <1>6, <2>2 DEF Grown
  <2>4. PICK k : k = v.luck - 1
    OBVIOUS
  <2>5. k \in Nat
    BY <1>1, <1>5, <2>4
  <2>6. w = [v EXCEPT !.index = i, !.luck = k, !.active = TRUE, !.files = F]
    BY <1>2, <2>1, <2>2, <2>4
  <2>7. /\ w \in WriterRecord /\ w.files = F /\ w.nextSeq = v.nextSeq
        /\ w.active = TRUE
    <3> HIDE DEF i
    <3> QED BY <1>1, <2>3, <2>5, <2>6 DEF WriterRecord
  <2> QED BY <2>3, <2>7 DEF Continues, WriterInv, Ready
<1> QED BY <1>3, <1>4, <1>5

(* A frame is written whole, with the next sequence, or damages the end of *)
(* the segment and poisons the writer.                                     *)
LEMMA FrameWritten ==
  ASSUME NEW v, WriterInv(v), v.active, NEW kind \in FrameKinds,
         NEW w, w = writeFrameLocked(v, kind)
  PROVE  /\ Continues(v, w) /\ Ready(w)
         /\ w.ok => LastFrame(w.files, v.nextSeq, kind)
                      /\ w.nextSeq = v.nextSeq + 1
<1>1. /\ v \in WriterRecord /\ JournalBelow(v.files, v.nextSeq)
      /\ v.luck \in Nat /\ v.nextSeq \in Nat /\ LastIsWhole(v.files)
  BY DEF WriterInv, WriterRecord
<1>2. CASE v.luck = 0
  <2>1. PICK F : F = [v.files EXCEPT ![Len(v.files)].frames =
                                       Append(@, Damaged)]
    OBVIOUS
  <2>2. PICK u : u = [v EXCEPT !.files = F]
    OBVIOUS
  <2>3. w = poisonLocked(u)
    BY <1>2, <2>1, <2>2 DEF writeFrameLocked, lastFile
  <2>4. /\ JournalBelow(F, v.nextSeq) /\ LastIsWhole(F) /\ Keeps(v.files, F)
        /\ F \in Seq(Segment)
    <3>1. Damaged \in Frame
      BY DEF Damaged, Frame, FrameKinds
    <3>2. PICK E, n : E = v.files /\ n = v.nextSeq
      OBVIOUS
    <3>3. FrameAdds(E, n, Damaged, n, F) /\ JournalBelow(E, n) /\ LastIsWhole(E)
      BY <1>1, <2>1, <3>1, <3>2 DEF FrameAdds
    <3>4. FrameAdded(E, Damaged, n, F)
      BY <3>3, FramePut
    <3> QED BY <3>2, <3>4 DEF FrameAdded
  <2>5. u \in WriterRecord /\ u.files = F /\ u.nextSeq = v.nextSeq
    BY <1>1, <2>2, <2>4 DEF WriterRecord
  <2>6. /\ w \in WriterRecord /\ w.files = F /\ w.nextSeq = v.nextSeq
        /\ w.active = FALSE /\ w.ok = FALSE
    BY <2>3, <2>5, Poisoned
  <2> QED BY <2>4, <2>6 DEF Continues, WriterInv, Ready
<1>3. CASE v.luck # 0
  <2>1. PICK f : f = [seq |-> v.nextSeq, kind |-> kind]
    OBVIOUS
  <2>2. PICK F : F = [v.files EXCEPT ![Len(v.files)].frames = Append(@, f)]
    OBVIOUS
  <2>3. PICK k, m : k = v.luck - 1 /\ m = v.nextSeq + 1
    OBVIOUS
  <2>4. w = [v EXCEPT !.luck = k, !.nextSeq = m, !.files = F]
    BY <1>3, <2>1, <2>2, <2>3 DEF writeFrameLocked, lastFile
  <2>5. k \in Nat /\ m \in Nat
    BY <1>1, <1>3, <2>3
  <2>6. f \in Frame /\ f.seq = v.nextSeq
    BY <1>1, <2>1 DEF Frame
  <2>7. /\ JournalBelow(F, m) /\ LastIsWhole(F) /\ Keeps(v.files, F)
        /\ F \in Seq(Segment) /\ Len(F[Len(F)].frames) \in DOMAIN F[Len(F)].frames
        /\ F[Len(F)].frames[Len(F[Len(F)].frames)] = f
    <3>1. PICK E, n : E = v.files /\ n = v.nextSeq
      OBVIOUS
    <3>2. FrameAdds(E, n, f, m, F) /\ JournalBelow(E, n) /\ LastIsWhole(E)
      BY <1>1, <2>2, <2>3, <2>6, <3>1 DEF FrameAdds
    <3>3. FrameAdded(E, f, m, F)
      BY <3>2, FramePut
    <3> QED BY <3>1, <3>3 DEF FrameAdded
  <2>8. /\ w \in WriterRecord /\ w.files = F /\ w.nextSeq = m /\ w.active
    BY <1>1, <2>4, <2>5, <2>7 DEF WriterRecord
  <2> QED BY <2>1, <2>3, <2>7, <2>8 DEF Continues, WriterInv, Ready, LastFrame
<1> QED BY <1>2, <1>3

-----------------------------------------------------------------------------
(* The writer's functions.                                                 *)

Goes(v, w) == Continues(v, w) /\ Ready(w)

(* A step and the step after it.                                           *)
LEMMA WriterGoesOn ==
  ASSUME NEW u, NEW v, NEW w, WriterInv(u), Continues(u, v), Goes(v, w)
  PROVE  Goes(u, w)
BY KeepsTransitive DEF Goes

(* The step that does nothing.                                             *)
LEMMA StaysGoing ==
  ASSUME NEW v, WriterInv(v), Ready(v)
  PROVE  Goes(v, v) /\ Continues(v, v)
<1>1. v \in WriterRecord
  BY DEF WriterInv
<1> QED BY <1>1, FilesAlone DEF Goes

(* A field other than the files, the sequence and the segment changes.     *)
LEMMA FieldsSettled ==
  ASSUME NEW v, WriterInv(v), NEW w, Goes(v, w), NEW u \in WriterRecord,
         u.files = w.files, u.nextSeq = w.nextSeq, u.active = w.active,
         u.ok = w.ok
  PROVE  Goes(v, u)
<1>1. WriterInv(w) /\ Ready(w)
  BY DEF Goes, Continues
<1>2. Goes(w, u)
  BY <1>1, FilesAlone DEF Goes, Ready
<1>3. Continues(v, w)
  BY DEF Goes
<1> QED BY <1>2, <1>3, WriterGoesOn

(* Each of the health records is a frame, and settles its own flag alone.  *)
LEMMA Reports ==
  ASSUME NEW v, WriterInv(v), Ready(v), v.ok
  PROVE  /\ Goes(v, StartReported(writeFrameLocked(v, "health")))
         /\ Goes(v, ErrorReported(writeFrameLocked(v, "health")))
         /\ Goes(v, DropsReported(writeFrameLocked(v, "health")))
<1>1. PICK h : h = writeFrameLocked(v, "health")
  OBVIOUS
<1>2. Goes(v, h)
  <2>1. v.active
    BY DEF Ready
  <2> QED BY <1>1, <2>1, FrameWritten DEF FrameKinds, Goes
<1>3. h \in WriterRecord
  BY <1>2 DEF Goes, Continues, WriterInv
<1>4. Goes(v, StartReported(h))
  <2>1. CASE h.ok
    <3>1. PICK u : u = [h EXCEPT !.segStart = "none"]
      OBVIOUS
    <3>2. /\ u \in WriterRecord /\ u.files = h.files /\ u.nextSeq = h.nextSeq
          /\ u.active = h.active /\ u.ok = h.ok
      BY <1>3, <3>1 DEF WriterRecord
    <3>3. Goes(v, u)
      BY <1>2, <3>2, FieldsSettled
    <3> QED BY <2>1, <3>1, <3>3 DEF StartReported
  <2>2. CASE ~h.ok
    BY <1>2, <2>2 DEF StartReported
  <2> QED BY <2>1, <2>2
<1>5. Goes(v, ErrorReported(h))
  <2>1. CASE h.ok
    <3>1. PICK u : u = [h EXCEPT !.writerErr = FALSE]
      OBVIOUS
    <3>2. /\ u \in WriterRecord /\ u.files = h.files /\ u.nextSeq = h.nextSeq
          /\ u.active = h.active /\ u.ok = h.ok
      BY <1>3, <3>1 DEF WriterRecord
    <3>3. Goes(v, u)
      BY <1>2, <3>2, FieldsSettled
    <3> QED BY <2>1, <3>1, <3>3 DEF ErrorReported
  <2>2. CASE ~h.ok
    BY <1>2, <2>2 DEF ErrorReported
  <2> QED BY <2>1, <2>2
<1>6. Goes(v, DropsReported(h))
  <2>1. CASE h.ok
    <3>1. PICK u : u = [h EXCEPT !.reported = h.dropped]
      OBVIOUS
    <3>2. /\ u \in WriterRecord /\ u.files = h.files /\ u.nextSeq = h.nextSeq
          /\ u.active = h.active /\ u.ok = h.ok
      BY <1>3, <3>1 DEF WriterRecord
    <3>3. Goes(v, u)
      BY <1>2, <3>2, FieldsSettled
    <3> QED BY <2>1, <3>1, <3>3 DEF DropsReported
  <2>2. CASE ~h.ok
    BY <1>2, <2>2 DEF DropsReported
  <2> QED BY <2>1, <2>2
<1> QED BY <1>1, <1>4, <1>5, <1>6

(* The pending health records.                                             *)
LEMMA HealthFlushed ==
  ASSUME NEW v, WriterInv(v), Ready(v)
  PROVE  Goes(v, flushPendingHealthLocked(v))
<1>1. PICK a, b, c : /\ a = ReportStart(v) /\ b = ReportError(a)
                     /\ c = ReportDrops(b)
  OBVIOUS
<1>2. Goes(v, a)
  BY <1>1, StaysGoing, Reports DEF ReportStart
<1>3. Goes(a, b)
  <2>1. WriterInv(a) /\ Ready(a)
    BY <1>2 DEF Goes, Continues
  <2> QED BY <1>1, <2>1, StaysGoing, Reports DEF ReportError
<1>4. Goes(b, c)
  <2>1. WriterInv(b) /\ Ready(b)
    BY <1>3 DEF Goes, Continues
  <2> QED BY <1>1, <2>1, StaysGoing, Reports DEF ReportDrops
<1>5. Goes(a, c)
  <2>1. WriterInv(a) /\ Continues(a, b)
    BY <1>2, <1>3 DEF Goes, Continues
  <2> QED BY <1>4, <2>1, WriterGoesOn
<1>6. Goes(v, c)
  BY <1>2, <1>5, WriterGoesOn DEF Goes
<1> QED BY <1>1, <1>6 DEF flushPendingHealthLocked

(* openNextLocked: the new segment, and the pending health records in it.  *)
LEMMA NextOpened ==
  ASSUME NEW v, WriterInv(v), NEW left \in Lefts
  PROVE  Goes(v, openNextLocked(v, left))
<1>1. PICK a, b : /\ a = newSegmentLocked(v, left)
                  /\ b = flushPendingHealthLocked(a)
  OBVIOUS
<1>2. Continues(v, a) /\ Ready(a) /\ WriterInv(a)
  BY <1>1, NewSegment DEF Continues
<1>3. Goes(a, b)
  BY <1>1, <1>2, HealthFlushed
<1> QED BY <1>1, <1>2, <1>3, WriterGoesOn DEF openNextLocked

(* ensureActiveLocked: afterwards the writer has a segment or failed.      *)
LEMMA ActiveEnsured ==
  ASSUME NEW v, WriterInv(v), NEW left \in Lefts
  PROVE  Goes(v, ensureActiveLocked(v, left))
<1>1. v \in WriterRecord
  BY DEF WriterInv
<1>2. CASE v.active
  BY <1>2, StaysGoing DEF ensureActiveLocked, Ready
<1>3. CASE ~v.active
  <2>1. PICK u : u = IF v.segStart = "none"
                     THEN [v EXCEPT !.segStart = "rotated"] ELSE v
    OBVIOUS
  <2>2. /\ u \in WriterRecord /\ u.files = v.files /\ u.nextSeq = v.nextSeq
        /\ u.active = v.active
    BY <1>1, <2>1 DEF WriterRecord
  <2>3. Continues(v, u) /\ WriterInv(u)
    BY <2>2, FilesAlone DEF Continues
  <2>4. Goes(u, openNextLocked(u, left))
    BY <2>3, NextOpened
  <2>5. Goes(v, openNextLocked(u, left))
    BY <2>3, <2>4, WriterGoesOn
  <2> QED BY <1>3, <2>1, <2>5 DEF ensureActiveLocked
<1> QED BY <1>2, <1>3

(* A sync covers the last segment, or fails.                               *)
LEMMA LastSynced ==
  ASSUME NEW v, WriterInv(v), NEW w, w = syncLocked(v)
  PROVE  /\ Continues(v, w) /\ (Ready(v) => Ready(w))
         /\ w.ok => v.ok
         /\ v.active /\ w.ok => SyncedLast(v.files, w.files)
<1>1. /\ v \in WriterRecord /\ JournalBelow(v.files, v.nextSeq)
      /\ v.luck \in Nat
  BY DEF WriterInv, WriterRecord
<1>2. PICK r : r = v.files[Len(v.files)]
  OBVIOUS
<1>3. CASE ~v.active
  <2>1. w = v
    BY <1>3 DEF syncLocked
  <2> QED BY <1>1, <1>3, <2>1, FilesAlone
<1>4. CASE v.active /\ r.synced = Len(r.frames)
  <2>1. w = v
    BY <1>2, <1>4 DEF syncLocked, lastFile
  <2>2. Continues(v, w)
    BY <1>1, <2>1, FilesAlone
  <2> QED BY <1>2, <1>4, <2>1, <2>2 DEF SyncedLast
<1>5. CASE v.active /\ r.synced # Len(r.frames) /\ v.luck = 0
  <2>1. w = poisonLocked(v)
    BY <1>2, <1>5 DEF syncLocked, lastFile
  <2>2. /\ w \in WriterRecord /\ w.files = v.files /\ w.nextSeq = v.nextSeq
        /\ w.active = FALSE /\ w.ok = FALSE
    BY <1>1, <2>1, Poisoned
  <2>3. Continues(v, w)
    BY <2>2, FilesAlone
  <2> QED BY <2>2, <2>3 DEF Ready
<1>6. CASE v.active /\ r.synced # Len(r.frames) /\ v.luck # 0
  <2>1. PICK k : k = v.luck - 1
    OBVIOUS
  <2>2. k \in Nat
    BY <1>1, <1>6, <2>1
  <2>3. PICK F, G, s, n :
          /\ F = v.files /\ n = v.nextSeq
          /\ s = [r EXCEPT !.synced = Len(r.frames)]
          /\ G = [F EXCEPT ![Len(F)] = s]
    OBVIOUS
  <2>4. w = [v EXCEPT !.luck = k, !.files = G]
    <3>1. w = [v EXCEPT !.luck = @ - 1,
                        !.files[Len(v.files)].synced = Len(r.frames)]
      BY <1>2, <1>6 DEF syncLocked, lastFile
    <3> QED BY <1>1, <1>2, <2>1, <2>3, <3>1 DEF WriterRecord
  <2>5. /\ JournalBelow(F, n) /\ LastIsWhole(F) /\ r = F[Len(F)]
        /\ r \in Segment /\ SegmentBelow(r, n)
    <3>1. JournalBelow(F, n) /\ LastIsWhole(F) /\ r = F[Len(F)]
      BY <1>1, <1>2, <1>6, <2>3 DEF WriterInv
    <3>2. Len(F) \in DOMAIN F
      BY <3>1 DEF JournalBelow, LastIsWhole
    <3> QED BY <3>1, <3>2 DEF JournalBelow
  <2>6. /\ r.synced \in Nat /\ Len(r.frames) \in Nat
        /\ r.synced <= Len(r.frames)
    BY <2>5, FramesOf DEF SegmentBelow
  <2>7. /\ s \in Segment /\ s.frames = r.frames /\ s.header = r.header
        /\ s.first = r.first /\ s.synced = Len(r.frames)
    BY <2>3, <2>5, <2>6 DEF Segment
  <2>8. SegmentBelow(s, n)
    BY <2>5, <2>6, <2>7 DEF SegmentBelow
  <2>9. Longer(F, s, G)
    BY <2>3, <2>5, <2>6, <2>7 DEF Longer, LastIsWhole
  <2>10. Replaced(F, s, n, G)
    BY <2>5, <2>8, <2>9, LastReplaced
  <2>11. /\ w \in WriterRecord /\ w.files = G /\ w.nextSeq = v.nextSeq
         /\ w.active = v.active /\ w.ok = v.ok
    BY <1>1, <2>2, <2>4, <2>10 DEF WriterRecord, Replaced
  <2>12. Continues(v, w)
    BY <2>3, <2>10, <2>11 DEF Continues, WriterInv, Replaced
  <2>13. SyncedLast(v.files, w.files)
    BY <1>2, <2>3, <2>7, <2>10, <2>11 DEF SyncedLast, Replaced
  <2> QED BY <2>11, <2>12, <2>13 DEF Ready
<1> QED BY <1>3, <1>4, <1>5, <1>6

(* rotateLocked: the full segment is synced first; a failed sync opens     *)
(* nothing.                                                                *)
LEMMA Rotated ==
  ASSUME NEW v, WriterInv(v), Ready(v), NEW left \in Lefts
  PROVE  Goes(v, rotateLocked(v, left))
<1>1. PICK s : s = syncLocked(v)
  OBVIOUS
<1>2. Goes(v, s) /\ WriterInv(s) /\ s \in WriterRecord
  <2>1. Continues(v, s) /\ Ready(s)
    BY <1>1, LastSynced
  <2> QED BY <2>1 DEF Goes, Continues, WriterInv
<1>3. CASE ~s.ok
  BY <1>1, <1>2, <1>3 DEF rotateLocked, OpenAfter
<1>4. CASE s.ok
  <2>1. PICK u : u = [s EXCEPT !.active = FALSE, !.segStart = "rotated"]
    OBVIOUS
  <2>2. /\ u \in WriterRecord /\ u.files = s.files /\ u.nextSeq = s.nextSeq
        /\ u.active = FALSE
    BY <1>2, <2>1 DEF WriterRecord
  <2>3. Continues(s, u) /\ WriterInv(u)
    BY <1>2, <2>2, FilesAlone DEF Continues
  <2>4. Goes(s, openNextLocked(u, left))
    BY <1>2, <2>3, NextOpened, WriterGoesOn
  <2>5. Goes(v, openNextLocked(u, left))
    BY <1>2, <2>4, WriterGoesOn DEF Goes
  <2> QED BY <1>1, <1>4, <2>1, <2>5 DEF rotateLocked, OpenAfter
<1> QED BY <1>3, <1>4

(* MakeRoom: the health records in this segment, or the next one.          *)
LEMMA RoomMade ==
  ASSUME NEW v, WriterInv(v), Ready(v), NEW left \in Lefts
  PROVE  Goes(v, MakeRoom(v, left))
BY StaysGoing, HealthFlushed, Rotated DEF MakeRoom

(* A record that was appended is the last frame.                           *)
LEMMA Appended ==
  ASSUME NEW v, WriterInv(v), NEW left \in Lefts, NEW kind \in FrameKinds,
         NEW w, w = appendLocked(v, kind, left)
  PROVE  /\ Goes(v, w)
         /\ w.ok => LastFrame(w.files, w.nextSeq - 1, kind)
<1>1. PICK e, m : /\ e = ensureActiveLocked(v, left)
                  /\ m = MakeRoom(e, left) /\ w = WriteRecord(m, kind)
  BY DEF appendLocked
<1>2. Goes(v, e)
  BY <1>1, ActiveEnsured
<1>3. WriterInv(e) /\ Ready(e)
  BY <1>2 DEF Goes, Continues
<1>4. Goes(e, m)
  BY <1>1, <1>3, RoomMade
<1>5. WriterInv(m) /\ Ready(m) /\ m \in WriterRecord
  BY <1>4 DEF Goes, Continues, WriterInv
<1>6. Goes(m, w) /\ (w.ok => LastFrame(w.files, w.nextSeq - 1, kind))
  <2>1. CASE ~m.ok
    <3>1. w = m
      BY <1>1, <2>1 DEF WriteRecord
    <3> QED BY <1>5, <2>1, <3>1, StaysGoing
  <2>2. CASE m.ok
    <3>1. w = writeFrameLocked(m, kind) /\ m.active
      BY <1>1, <1>5, <2>2 DEF WriteRecord, Ready
    <3>2. /\ Goes(m, w)
          /\ w.ok => LastFrame(w.files, m.nextSeq, kind)
                       /\ w.nextSeq = m.nextSeq + 1
      BY <1>5, <3>1, FrameWritten DEF Goes
    <3>3. m.nextSeq \in Nat
      BY <1>5 DEF WriterRecord
    <3>4. w.nextSeq = m.nextSeq + 1 => w.nextSeq - 1 = m.nextSeq
      BY <3>3
    <3> QED BY <3>2, <3>4
  <2> QED BY <2>1, <2>2
<1>7. Goes(e, w)
  BY <1>3, <1>4, <1>6, WriterGoesOn DEF Goes
<1>8. Goes(v, w)
  BY <1>2, <1>7, WriterGoesOn DEF Goes
<1> QED BY <1>6, <1>8

(* flushHealthLocked, which does nothing when nothing is pending.          *)
LEMMA HealthReported ==
  ASSUME NEW v, WriterInv(v), NEW left \in Lefts
  PROVE  Continues(v, flushHealthLocked(v, left))
<1>1. PICK e : e = ensureActiveLocked(v, left)
  OBVIOUS
<1>2. Goes(v, e)
  BY <1>1, ActiveEnsured
<1>3. Goes(e, flushPendingHealthLocked(e))
  BY <1>2, HealthFlushed DEF Goes, Continues
<1>4. Goes(v, flushPendingHealthLocked(e))
  BY <1>2, <1>3, WriterGoesOn DEF Goes
<1>5. Continues(v, v)
  BY FilesAlone DEF WriterInv
<1> QED BY <1>1, <1>4, <1>5 DEF flushHealthLocked, Goes

(* One record of the queue, appended or counted as dropped.                *)
LEMMA DrainedOne ==
  ASSUME NEW v, WriterInv(v), v.queue > 0, NEW left \in Lefts
  PROVE  Continues(v, drainOne(v, left))
<1>1. v \in WriterRecord /\ v.queue \in Nat
  BY DEF WriterInv, WriterRecord
<1>2. PICK k, q, a : /\ k = v.queue - 1 /\ q = [v EXCEPT !.queue = k]
                     /\ a = appendLocked(q, "diagnostic", left)
  OBVIOUS
<1>3. k \in Nat
  BY <1>1, <1>2
<1>4. q \in WriterRecord /\ q.files = v.files /\ q.nextSeq = v.nextSeq
      /\ q.active = v.active
  BY <1>1, <1>2, <1>3 DEF WriterRecord
<1>5. Continues(v, q) /\ WriterInv(q)
  BY <1>4, FilesAlone DEF Continues
<1>6. Goes(q, a)
  BY <1>2, <1>5, Appended DEF FrameKinds
<1>7. WriterInv(a) /\ a \in WriterRecord /\ Continues(q, a)
  BY <1>6 DEF Goes, Continues, WriterInv
<1>8. Continues(a, CountDrop(a))
  <2>1. CASE a.ok
    BY <1>7, <2>1, FilesAlone DEF CountDrop
  <2>2. CASE ~a.ok
    <3>1. PICK d, u : /\ d = a.dropped + 1
                      /\ u = [a EXCEPT !.ok = TRUE, !.dropped = d]
      OBVIOUS
    <3>2. d \in Nat
      BY <1>7, <3>1 DEF WriterRecord
    <3>3. u \in WriterRecord /\ u.files = a.files /\ u.nextSeq = a.nextSeq
          /\ u.active = a.active
      BY <1>7, <3>1, <3>2 DEF WriterRecord
    <3>4. Continues(a, u)
      BY <1>7, <3>3, FilesAlone
    <3> QED BY <2>2, <3>1, <3>4 DEF CountDrop
  <2> QED BY <2>1, <2>2
<1>9. Continues(v, a)
  BY <1>5, <1>7, KeepsTransitive
<1>10. Continues(v, CountDrop(a))
  BY <1>8, <1>9, KeepsTransitive
<1> QED BY <1>2, <1>10 DEF drainOne

(* A record that was appended and synced is there to stay.                 *)
LEMMA RecordSynced ==
  ASSUME NEW a, WriterInv(a), Ready(a), NEW n \in Nat,
         a.ok => LastFrame(a.files, n, "critical"),
         NEW v, v = AckSynced(a)
  PROVE  /\ Continues(a, v)
         /\ v.ok => SyncedRecord(v.files, n)
<1>0. a \in WriterRecord
  BY DEF WriterInv
<1>1. CASE ~a.ok
  BY <1>0, <1>1, FilesAlone DEF AckSynced
<1>2. CASE a.ok
  <2>1. v = syncLocked(a) /\ a.active
    BY <1>2 DEF AckSynced, Ready
  <2>2. Continues(a, v) /\ (v.ok => SyncedLast(a.files, v.files))
    BY <2>1, LastSynced
  <2>3. ASSUME v.ok
        PROVE  SyncedRecord(v.files, n)
    <3>1. PICK F, G : F = a.files /\ G = v.files
      OBVIOUS
    <3>2. /\ SyncedLast(F, G) /\ LastFrame(F, n, "critical")
          /\ Keeps(F, G) /\ LastIsWhole(F) /\ F \in Seq(Segment)
          /\ G \in Seq(Segment)
      BY <1>2, <2>1, <2>2, <2>3, <3>1
         DEF Continues, WriterInv, JournalBelow
    <3>3. /\ Len(F) \in DOMAIN F /\ Len(F) \in DOMAIN G
          /\ F[Len(F)].header /\ F[Len(F)] \in Segment
      BY <3>2 DEF LastIsWhole, Keeps
    <3>4. G[Len(F)].header
      BY <3>2, <3>3 DEF Keeps
    <3>5. PICK r, s : r = F[Len(F)] /\ s = G[Len(F)]
      OBVIOUS
    <3>6. /\ s.frames = r.frames /\ s.synced = Len(r.frames)
          /\ Len(r.frames) \in DOMAIN r.frames
          /\ r.frames[Len(r.frames)] = [seq |-> n, kind |-> "critical"]
      BY <3>2, <3>5 DEF SyncedLast, LastFrame
    <3>7. Len(r.frames) \in 1 .. s.synced
      BY <3>3, <3>5, <3>6, FramesOf
    <3> QED BY <3>1, <3>3, <3>4, <3>5, <3>6, <3>7 DEF SyncedRecord
  <2> QED BY <2>2, <2>3
<1> QED BY <1>1, <1>2

-----------------------------------------------------------------------------
(* The operations.                                                         *)

(* Only positive sequences are in a journal.                               *)
LEMMA RecordPositive ==
  ASSUME NEW disk, NEW n, JournalBelow(disk, n), NEW x, SyncedRecord(disk, x)
  PROVE  x \in Nat \ {0}
<1>0. PICK i \in DOMAIN disk : \E k \in 1 .. disk[i].synced :
        /\ disk[i].header
        /\ disk[i].frames[k] = [seq |-> x, kind |-> "critical"]
  BY DEF SyncedRecord
<1>1. PICK k \in 1 .. disk[i].synced :
        /\ disk[i].header
        /\ disk[i].frames[k] = [seq |-> x, kind |-> "critical"]
  BY <1>0
<1>2. disk[i] \in Segment /\ SegmentBelow(disk[i], n)
  BY DEF JournalBelow
<1>3. k \in DOMAIN disk[i].frames
  BY <1>2, FramesOf DEF SegmentBelow
<1>4. disk[i].frames[k].seq = x /\ disk[i].frames[k] # Damaged
  BY <1>1 DEF Damaged
<1>5. x \in Nat /\ disk[i].first \in Nat \ {0} /\ disk[i].first <= x
  BY <1>1, <1>2, <1>3, <1>4, FramesOf DEF SegmentBelow
<1> QED BY <1>5

(* An operation of a running writer begins in a state its functions        *)
(* expect.                                                                 *)
LEMMA Begun ==
  ASSUME FlightInv, jw.running, NEW luck \in Lucks \cup {0, MaxLuck}
  PROVE  /\ WriterInv(Begin(luck)) /\ Begin(luck).files = files
         /\ Begin(luck).queue = jw.queue
<1>1. luck \in Nat
  BY DEF Lucks, MaxLuck
<1>2. files \in Seq(Segment) /\ jw \in WriterRecord
  BY DEF FlightInv, JournalBelow
<1>3. /\ Begin(luck) \in WriterRecord /\ Begin(luck).files = files
      /\ Begin(luck).nextSeq = jw.nextSeq /\ Begin(luck).active = jw.active
      /\ Begin(luck).queue = jw.queue
  BY <1>1, <1>2 DEF Begin, WriterRecord
<1> QED BY <1>3 DEF FlightInv, WriterInv

(* What an operation that ends at w leaves: the files of v and, unless the *)
(* writer is over, its next sequence and its segment.                      *)
LEMMA Ended ==
  ASSUME FlightInv, NEW v, WriterInv(v), Keeps(files, v.files),
         NEW w \in WriterRecord, End(w), w.files = v.files,
         w.running => w.nextSeq = v.nextSeq /\ w.active = v.active,
         \A n \in acked' : n \in acked \/ SyncedRecord(v.files, n)
  PROVE  FlightInv'
<1>1. /\ files' = v.files
      /\ jw' = [w EXCEPT !.luck = 0, !.files = << >>]
  BY DEF End
<1>2. /\ jw' \in WriterRecord /\ jw'.running = w.running
      /\ jw'.nextSeq = w.nextSeq /\ jw'.active = w.active
      /\ jw'.ok \in BOOLEAN
  <2>1. PICK u, E : E = << >> /\ u = [w EXCEPT !.luck = 0, !.files = E]
    OBVIOUS
  <2>2. E \in Seq(Segment)
    BY <2>1
  <2>3. /\ u \in WriterRecord /\ u.running = w.running
        /\ u.nextSeq = w.nextSeq /\ u.active = w.active /\ u.ok \in BOOLEAN
    BY <2>1, <2>2 DEF WriterRecord
  <2> QED BY <1>1, <2>1, <2>3
<1>3. /\ JournalBelow(v.files, v.nextSeq) /\ v.nextSeq \in Nat \ {0}
      /\ v.active => LastIsWhole(v.files)
  BY DEF WriterInv, JournalBelow
<1>4. /\ \E n \in Nat \ {0} : JournalBelow(files', n)
      /\ jw'.running => /\ JournalBelow(files', jw'.nextSeq)
                        /\ jw'.active => LastIsWhole(files')
  BY <1>1, <1>2, <1>3
<1>5. \A n \in acked' : SyncedRecord(files', n)
  <2>1. PICK m \in Nat \ {0} : JournalBelow(files, m)
    BY DEF FlightInv
  <2>2. ASSUME NEW n \in acked
        PROVE  SyncedRecord(v.files, n)
    <3>1. SyncedRecord(files, n)
      BY DEF FlightInv
    <3>2. PICK F, G, k : F = files /\ G = v.files /\ k = v.nextSeq
      OBVIOUS
    <3>3. SyncedRecord(G, n)
      <4>1. /\ JournalBelow(F, m) /\ JournalBelow(G, k) /\ Keeps(F, G)
            /\ SyncedRecord(F, n)
        BY <1>3, <2>1, <3>1, <3>2
      <4> QED BY <4>1, KeepsSynced
    <3> QED BY <3>2, <3>3
  <2> QED BY <1>1, <2>2
<1>6. acked' \subseteq Nat \ {0}
  <2>1. \A n \in acked' : SyncedRecord(v.files, n)
    BY <1>1, <1>5
  <2> QED BY <1>3, <2>1, RecordPositive
<1> QED BY <1>2, <1>4, <1>5, <1>6 DEF FlightInv

(* The writer of an operation is what the operation leaves.                *)
LEMMA OperationEnded ==
  ASSUME FlightInv, jw.running, NEW luck \in Lucks \cup {0, MaxLuck},
         NEW v, Continues(Begin(luck), v), End(v),
         \A n \in acked' : n \in acked \/ SyncedRecord(v.files, n)
  PROVE  FlightInv'
<1>1. WriterInv(v) /\ v \in WriterRecord /\ Keeps(files, v.files)
  BY Begun DEF Continues, WriterInv
<1> QED BY <1>1, Ended

(* AppendCritical acknowledges a sequence only when the sync covers the    *)
(* last frame, which is that record.                                       *)
LEMMA CriticalStep ==
  ASSUME FlightInv, NEW luck \in Lucks, NEW left \in Lefts,
         AppendCritical(luck, left)
  PROVE  FlightInv'
<1>1. PICK b, a, v, n :
        /\ b = Begin(luck) /\ a = appendLocked(b, "critical", left)
        /\ v = AckSynced(a) /\ n = a.nextSeq - 1
  OBVIOUS
<1>2. /\ jw.running /\ End(v)
      /\ acked' = IF v.ok THEN acked \cup {n} ELSE acked
  BY <1>1 DEF AppendCritical
<1>3. WriterInv(b)
  BY <1>1, <1>2, Begun
<1>4. Goes(b, a) /\ (a.ok => LastFrame(a.files, n, "critical"))
  <2>1. /\ Goes(b, a)
        /\ (a.ok => LastFrame(a.files, a.nextSeq - 1, "critical"))
    BY <1>1, <1>3, Appended DEF FrameKinds
  <2> QED BY <1>1, <2>1
<1>5. Continues(b, a) /\ WriterInv(a) /\ Ready(a) /\ n \in Nat
  <2>1. Continues(b, a) /\ WriterInv(a) /\ Ready(a)
    BY <1>4 DEF Goes, Continues
  <2>2. a.nextSeq \in Nat \ {0}
    BY <2>1 DEF WriterInv, JournalBelow
  <2> QED BY <1>1, <2>1, <2>2
<1>6. Continues(a, v) /\ (v.ok => SyncedRecord(v.files, n))
  BY <1>1, <1>4, <1>5, RecordSynced
<1>7. Continues(b, v)
  BY <1>3, <1>5, <1>6, KeepsTransitive
<1>8. \A x \in acked' : x \in acked \/ SyncedRecord(v.files, x)
  BY <1>2, <1>6
<1> QED BY <1>1, <1>2, <1>7, <1>8, OperationEnded

(* The background goroutine's record.                                      *)
LEMMA DrainStep ==
  ASSUME FlightInv, NEW luck \in Lucks, NEW left \in Lefts,
         Drain(luck, left)
  PROVE  FlightInv'
<1>1. PICK b, v : b = Begin(luck) /\ v = drainOne(b, left)
  OBVIOUS
<1>2. jw.running /\ End(v) /\ acked' = acked /\ jw.queue > 0
  BY <1>1 DEF Drain
<1>3. WriterInv(b) /\ b.queue > 0
  BY <1>1, <1>2, Begun
<1>4. Continues(b, v)
  BY <1>1, <1>3, DrainedOne
<1> QED BY <1>1, <1>2, <1>4, OperationEnded

(* The periodic sync.                                                      *)
LEMMA TickStep ==
  ASSUME FlightInv, NEW luck \in {0, MaxLuck}, Tick(luck)
  PROVE  FlightInv'
<1>1. PICK b, v : b = Begin(luck) /\ v = syncLocked(b)
  OBVIOUS
<1>2. jw.running /\ End(v) /\ acked' = acked
  BY <1>1 DEF Tick
<1>3. Continues(b, v)
  BY <1>1, <1>2, Begun, LastSynced
<1> QED BY <1>1, <1>2, <1>3, OperationEnded

(* Flush reports health, then syncs.                                       *)
LEMMA FlushStep ==
  ASSUME FlightInv, NEW luck \in Lucks, NEW left \in Lefts,
         Flush(luck, left)
  PROVE  FlightInv'
<1>1. PICK b, h, v : /\ b = Begin(luck) /\ h = flushHealthLocked(b, left)
                     /\ v = syncLocked(h)
  OBVIOUS
<1>2. jw.running /\ End(v) /\ acked' = acked
  BY <1>1 DEF Flush
<1>3. WriterInv(b)
  BY <1>1, <1>2, Begun
<1>4. Continues(b, h) /\ WriterInv(h)
  BY <1>1, <1>3, HealthReported DEF Continues
<1>5. Continues(h, v)
  BY <1>1, <1>4, LastSynced
<1>6. Continues(b, v)
  BY <1>3, <1>4, <1>5, KeepsTransitive
<1> QED BY <1>1, <1>2, <1>6, OperationEnded

(* Close reports the discarded records, syncs, and ends the writer; what   *)
(* failed on the way stays on disk as any operation leaves it.             *)
LEMMA CloseStep ==
  ASSUME FlightInv, NEW luck \in Lucks, NEW left \in Lefts,
         CloseWriter(luck, left)
  PROVE  FlightInv'
<1>1. PICK b, d, h, v, w :
        /\ b = Begin(luck)
        /\ d = [b EXCEPT !.queue = 0, !.dropped = @ + jw.queue]
        /\ h = flushHealthLocked(d, left) /\ v = syncLocked(h)
        /\ w = [NoWriter EXCEPT !.files = v.files]
  OBVIOUS
<1>2. jw.running /\ End(w) /\ acked' = acked
  BY <1>1 DEF CloseWriter
<1>3. WriterInv(b) /\ b \in WriterRecord /\ b.files = files
  BY <1>1, <1>2, Begun DEF WriterInv
<1>4. Continues(b, d) /\ WriterInv(d)
  <2>1. jw.queue \in Nat /\ b.dropped \in Nat
    BY <1>3 DEF FlightInv, WriterRecord
  <2>2. PICK k : k = b.dropped + jw.queue
    OBVIOUS
  <2>3. k \in Nat
    BY <2>1, <2>2
  <2>4. d = [b EXCEPT !.queue = 0, !.dropped = k]
    BY <1>1, <2>2
  <2>5. /\ d \in WriterRecord /\ d.files = b.files
        /\ d.nextSeq = b.nextSeq /\ d.active = b.active
    BY <1>3, <2>3, <2>4 DEF WriterRecord
  <2> QED BY <1>3, <2>5, FilesAlone DEF Continues
<1>5. Continues(d, h) /\ WriterInv(h)
  BY <1>1, <1>4, HealthReported DEF Continues
<1>6. Continues(h, v)
  BY <1>1, <1>5, LastSynced
<1>7. Continues(b, v) /\ WriterInv(v)
  BY <1>3, <1>4, <1>5, <1>6, KeepsTransitive DEF Continues
<1>8. w \in WriterRecord /\ w.files = v.files /\ w.running = FALSE
  <2>1. v.files \in Seq(Segment)
    BY <1>7 DEF WriterInv, WriterRecord
  <2> QED BY <1>1, <2>1 DEF NoWriter, WriterRecord
<1>9. Keeps(files, v.files)
  BY <1>3, <1>7 DEF Continues
<1> QED BY <1>2, <1>7, <1>8, <1>9, Ended

(* Open resumes behind what its scan found, in a segment of its own.       *)
LEMMA OpenStep ==
  ASSUME FlightInv, NEW luck \in Lucks, NEW left \in Lefts,
         OpenWriter(luck, left)
  PROVE  FlightInv'
<1>1. PICK new, fresh, o, v, w :
        /\ new = [NoWriter EXCEPT !.luck = luck, !.files = files]
        /\ fresh = IF files = << >> THEN [new EXCEPT !.segStart = "started"]
                   ELSE [new EXCEPT !.index = files[Len(files)].index,
                                    !.nextSeq = ResumeAt(files),
                                    !.segStart = "reopen"]
        /\ o = openNextLocked(fresh, left) /\ v = syncLocked(o)
        /\ w = IF v.ok THEN [v EXCEPT !.running = TRUE]
               ELSE [NoWriter EXCEPT !.files = v.files]
  OBVIOUS
<1>2. End(w) /\ acked' = acked
  BY <1>1 DEF OpenWriter
<1>3. luck \in Nat /\ \E n \in Nat \ {0} : JournalBelow(files, n)
  BY DEF Lucks, MaxLuck, FlightInv
<1>4. PICK n \in Nat \ {0} : JournalBelow(files, n)
  BY <1>3
<1>5. files \in Seq(Segment)
  BY <1>4 DEF JournalBelow
<1>6. /\ new \in WriterRecord /\ new.files = files /\ new.active = FALSE
      /\ new.nextSeq = 1 /\ new.index = 0
  BY <1>1, <1>3, <1>5 DEF NoWriter, WriterRecord
<1>7. WriterInv(fresh) /\ fresh.files = files
  <2>1. CASE files = << >>
    <3>1. /\ fresh \in WriterRecord /\ fresh.files = files
          /\ fresh.active = FALSE /\ fresh.nextSeq = 1
      BY <1>1, <1>6, <2>1 DEF WriterRecord
    <3>2. JournalBelow(files, 1)
      BY <1>5, <2>1 DEF JournalBelow
    <3> QED BY <3>1, <3>2 DEF WriterInv
  <2>2. CASE files # << >>
    <3>1. PICK i, m : i = files[Len(files)].index /\ m = ResumeAt(files)
      OBVIOUS
    <3>2. JournalBelow(files, m)
      BY <1>4, <3>1, ResumesBehind
    <3>3. i \in Nat /\ m \in Nat
      <4>1. files[Len(files)] \in Segment
        BY <1>5, <2>2
      <4> QED BY <3>1, <3>2, <4>1 DEF Segment, JournalBelow
    <3>4. /\ fresh \in WriterRecord /\ fresh.files = files
          /\ fresh.active = FALSE /\ fresh.nextSeq = m
      BY <1>1, <1>6, <2>2, <3>1, <3>3 DEF WriterRecord
    <3> QED BY <3>2, <3>4 DEF WriterInv
  <2> QED BY <2>1, <2>2
<1>8. Continues(fresh, o) /\ WriterInv(o)
  BY <1>1, <1>7, NextOpened DEF Goes, Continues
<1>9. Continues(o, v)
  BY <1>1, <1>8, LastSynced
<1>10. WriterInv(v) /\ Keeps(files, v.files)
  BY <1>7, <1>8, <1>9, KeepsTransitive DEF Continues
<1>11. /\ w \in WriterRecord /\ w.files = v.files
       /\ w.running => w.nextSeq = v.nextSeq /\ w.active = v.active
  <2>1. v \in WriterRecord /\ v.files \in Seq(Segment)
    BY <1>10 DEF WriterInv, WriterRecord
  <2>2. CASE v.ok
    BY <1>1, <2>1, <2>2 DEF WriterRecord
  <2>3. CASE ~v.ok
    <3>1. w = [NoWriter EXCEPT !.files = v.files]
      BY <1>1, <2>3
    <3> QED BY <2>1, <3>1 DEF NoWriter, WriterRecord
  <2> QED BY <2>2, <2>3
<1> QED BY <1>2, <1>10, <1>11, Ended

(* The queue of diagnostics touches no file.                               *)
LEMMA DiagnosticStep ==
  ASSUME FlightInv, AppendDiagnostic
  PROVE  FlightInv'
<1>1. PICK q, d, u : /\ q = jw.queue + 1 /\ d = jw.dropped + 1
                     /\ u = IF jw.queue < QueueSize
                            THEN [jw EXCEPT !.queue = q]
                            ELSE [jw EXCEPT !.dropped = d]
  OBVIOUS
<1>2. jw' = u /\ files' = files /\ acked' = acked
  BY <1>1 DEF AppendDiagnostic
<1>3. jw \in WriterRecord /\ q \in Nat /\ d \in Nat
  <2>1. jw \in WriterRecord /\ jw.queue \in Nat /\ jw.dropped \in Nat
    BY DEF FlightInv, WriterRecord
  <2> QED BY <1>1, <2>1
<1>4. /\ u \in WriterRecord /\ u.ok \in BOOLEAN /\ u.running = jw.running
      /\ u.nextSeq = jw.nextSeq /\ u.active = jw.active
  BY <1>1, <1>3 DEF WriterRecord
<1> QED BY <1>2, <1>4 DEF FlightInv

(* What a death damages was not synced.                                    *)
LEMMA DeathStep ==
  ASSUME FlightInv, ProcessDies
  PROVE  FlightInv'
<1>1. PICK lost \in SUBSET UNION
          {{i} \X (files[i].synced + 1 .. Len(files[i].frames)) :
             i \in DOMAIN files} :
       files' = [i \in DOMAIN files |->
         [files[i] EXCEPT !.frames = [k \in DOMAIN files[i].frames |->
            IF <<i, k>> \in lost THEN Damaged ELSE files[i].frames[k]]]]
  BY DEF ProcessDies
<1>2. PICK m \in Nat \ {0} : JournalBelow(files, m)
  BY DEF FlightInv
<1>3. PICK F, G : F = files /\ G = files'
  OBVIOUS
<1>4. /\ F \in Seq(Segment) /\ DOMAIN F = 1 .. Len(F) /\ Len(F) \in Nat
      /\ DOMAIN G = DOMAIN F /\ JournalBelow(F, m)
  BY <1>1, <1>2, <1>3 DEF JournalBelow
<1>5. ASSUME NEW i \in DOMAIN F
      PROVE  Dimmed(F[i], G[i])
  <2>1. F[i] \in Segment /\ SegmentBelow(F[i], m)
    BY <1>4 DEF JournalBelow
  <2>2. PICK r, s, fs :
          /\ r = F[i] /\ s = G[i]
          /\ fs = [k \in DOMAIN r.frames |->
                     IF <<i, k>> \in lost THEN Damaged ELSE r.frames[k]]
    OBVIOUS
  <2>3. s = [r EXCEPT !.frames = fs]
    BY <1>1, <1>3, <2>2
  <2>4. /\ r.frames \in Seq(Frame) /\ DOMAIN r.frames = 1 .. Len(r.frames)
        /\ Len(r.frames) \in Nat /\ r.synced \in Nat
        /\ \A k \in DOMAIN r.frames : r.frames[k] \in Frame
    BY <2>1, <2>2, FramesOf
  <2>5. /\ DOMAIN fs = 1 .. Len(r.frames)
        /\ \A k \in DOMAIN fs :
             fs[k] \in Frame /\ (fs[k] = r.frames[k] \/ fs[k] = Damaged)
    <3>1. Damaged \in Frame
      BY DEF Damaged, Frame, FrameKinds
    <3> QED BY <2>2, <2>4, <3>1
  <2>6. fs \in Seq(Frame) /\ Len(fs) = Len(r.frames)
    <3>1. fs \in [1 .. Len(r.frames) -> Frame]
      <4>1. fs = [k \in DOMAIN fs |-> fs[k]]
        BY <2>2
      <4> QED BY <2>5, <4>1
    <3>2. fs \in Seq(Frame)
      BY <2>4, <3>1
    <3> QED BY <2>4, <2>5, <3>2
  <2>7. \A k \in 1 .. r.synced : fs[k] = r.frames[k]
    <3> SUFFICES ASSUME NEW k \in 1 .. r.synced
                 PROVE  fs[k] = r.frames[k]
      OBVIOUS
    <3>1. k \in DOMAIN r.frames
      BY <2>1, <2>2, <2>4 DEF SegmentBelow
    <3>2. <<i, k>> \notin lost
      <4>1. ~(k \in r.synced + 1 .. Len(r.frames))
        BY <2>4
      <4>2. ASSUME <<i, k>> \in lost
            PROVE  FALSE
        <5>1. PICK j \in DOMAIN files :
                <<i, k>> \in
                  {j} \X (files[j].synced + 1 .. Len(files[j].frames))
          BY <4>2
        <5>2. j = i /\ k \in files[j].synced + 1 .. Len(files[j].frames)
          BY <5>1
        <5> QED BY <1>3, <2>2, <4>1, <5>2
      <4> QED BY <4>2
    <3> QED BY <2>2, <3>1, <3>2
  <2>8. /\ s \in Segment /\ s.frames = fs /\ s.header = r.header
        /\ s.first = r.first /\ s.synced = r.synced
    BY <2>1, <2>2, <2>3, <2>6 DEF Segment
  <2> QED BY <2>2, <2>4, <2>5, <2>6, <2>7, <2>8 DEF Dimmed
<1>6. G \in Seq(Segment)
  <2>1. \A i \in DOMAIN F : G[i] \in Segment
    BY <1>5 DEF Dimmed
  <2>2. G = [i \in DOMAIN G |-> G[i]]
    BY <1>1, <1>3
  <2>3. G \in [1 .. Len(F) -> Segment]
    BY <1>4, <2>1, <2>2
  <2> QED BY <1>4, <2>3
<1>7. JournalBelow(G, m)
  <2>1. ASSUME NEW i \in DOMAIN F
        PROVE  SegmentBelow(G[i], m)
    BY <1>4, <1>5 DEF Dimmed, JournalBelow, SegmentBelow
  <2>2. ASSUME NEW i \in DOMAIN F, NEW j \in DOMAIN F, i < j
        PROVE  StartsBehind(G[j], G[i])
    <3>1. StartsBehind(F[j], F[i])
      BY <1>4, <2>2 DEF JournalBelow
    <3> QED BY <1>5, <3>1 DEF Dimmed, StartsBehind
  <2> QED BY <1>4, <1>6, <2>1, <2>2 DEF JournalBelow
<1>8. Keeps(F, G)
  <2>1. \A i \in DOMAIN F : F[i].synced \in Nat
    BY <1>4, FramesOf DEF JournalBelow
  <2> QED BY <1>4, <1>5, <2>1 DEF Dimmed, Keeps
<1>9. acked' = acked /\ jw' = NoWriter
  BY DEF ProcessDies
<1>10. ASSUME NEW x \in acked
       PROVE  SyncedRecord(G, x)
  <2>1. SyncedRecord(F, x)
    BY <1>3 DEF FlightInv
  <2> QED BY <1>4, <1>7, <1>8, <2>1, KeepsSynced
<1>11. jw' \in WriterRecord /\ jw'.ok \in BOOLEAN /\ jw'.running = FALSE
  BY <1>9 DEF NoWriter, WriterRecord
<1> QED BY <1>3, <1>7, <1>9, <1>10, <1>11 DEF FlightInv

(* FlightInv is an invariant of the journal, for all sizes of segments and *)
(* queues and all bounds on failures and deaths.                           *)
THEOREM FlightInvariant == SpecFlight => []FlightInv
<1>1. InitFlight => FlightInv
  <2> SUFFICES ASSUME InitFlight PROVE FlightInv
    OBVIOUS
  <2>1. jw \in WriterRecord /\ jw.ok \in BOOLEAN /\ jw.running = FALSE
    BY DEF InitFlight, NoWriter, WriterRecord
  <2>2. JournalBelow(files, 1)
    BY DEF InitFlight, JournalBelow
  <2> QED BY <2>1, <2>2 DEF InitFlight, FlightInv
<1>2. FlightInv /\ [NextFlight]_flightVars => FlightInv'
  <2> SUFFICES ASSUME FlightInv, [NextFlight]_flightVars
               PROVE  FlightInv'
    OBVIOUS
  <2>1. CASE \E luck \in Lucks, left \in Lefts :
               \/ OpenWriter(luck, left) \/ AppendCritical(luck, left)
               \/ Drain(luck, left) \/ Flush(luck, left)
               \/ CloseWriter(luck, left)
    BY <2>1, OpenStep, CriticalStep, DrainStep, FlushStep, CloseStep
  <2>2. CASE \E luck \in {0, MaxLuck} : Tick(luck)
    BY <2>2, TickStep
  <2>3. CASE AppendDiagnostic
    BY <2>3, DiagnosticStep
  <2>4. CASE ProcessDies
    BY <2>4, DeathStep
  <2>5. CASE UNCHANGED flightVars
    BY <2>5 DEF flightVars, FlightInv
  <2> QED BY <2>1, <2>2, <2>3, <2>4, <2>5 DEF NextFlight
<1> QED BY <1>1, <1>2, PTL DEF SpecFlight

(* A critical record whose append returned nil is delivered by every scan  *)
(* afterwards, exactly once: whichever I/O call of whichever operation     *)
(* fails, however often the process dies, and for all sizes of segments    *)
(* and queues.                                                             *)
THEOREM AcknowledgedAlwaysSurvives == SpecFlight => []AcknowledgedSurvives
<1>1. FlightInv => AcknowledgedSurvives
  <2> SUFFICES ASSUME FlightInv, NEW n \in acked
               PROVE  Cardinality(
                 {p \in UNION {{i} \X Delivered(files[i]) :
                                 i \in DOMAIN files} :
                    /\ files[p[1]].frames[p[2]].seq = n
                    /\ files[p[1]].frames[p[2]].kind = "critical"}) = 1
    BY DEF AcknowledgedSurvives
  <2>1. n \in Nat \ {0} /\ SyncedRecord(files, n)
    BY DEF FlightInv
  <2>2. PICK m \in Nat \ {0} : JournalBelow(files, m)
    BY DEF FlightInv
  <2> QED BY <2>1, <2>2, DeliveredOnce
<1> QED BY <1>1, FlightInvariant, PTL

(* No journal this writer produces, under any failures and deaths and for  *)
(* all bounds, has a sequence regression or a segment out of order, and a  *)
(* running writer is ahead of every sequence on disk.                      *)
THEOREM SequencesAlwaysAdvance == SpecFlight => []SequencesAdvance
<1>1. FlightInv => SequencesAdvance
  <2> SUFFICES ASSUME FlightInv
               PROVE  SequencesAdvance
    OBVIOUS
  <2>1. PICK m \in Nat \ {0} : JournalBelow(files, m)
    BY DEF FlightInv
  <2>2. ~SequenceRegresses(files)
    BY <2>1, NeverRegresses
  <2>3. ASSUME jw.running
        PROVE  jw.nextSeq > LastSequence(files)
    <3>1. JournalBelow(files, jw.nextSeq) /\ jw.nextSeq \in Nat
      BY <2>3 DEF FlightInv, JournalBelow
    <3>2. LastSequence(files) \in Nat /\ LastSequence(files) < jw.nextSeq
      BY <3>1, LastOf
    <3> QED BY <3>1, <3>2
  <2> QED BY <2>2, <2>3 DEF SequencesAdvance
<1> QED BY <1>1, FlightInvariant, PTL

=============================================================================
