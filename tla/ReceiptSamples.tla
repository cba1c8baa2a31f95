--------------------------- MODULE ReceiptSamples ---------------------------
(***************************************************************************)
(* Receipts, requests and trust anchors small enough to enumerate: two     *)
(* humans with a key each, one of whose keys is replaced; a decision, a    *)
(* forgery of it, a grant issued twice and a host plan; requests that name *)
(* a receipt and that search for one; custody lost in two ways.            *)
(***************************************************************************)
EXTENDS Integers

Ann(key) == [id |-> "ann-key", key |-> key, actor |-> "ann",
             purposes |-> {"product_decision", "ledger_resolution"},
             notBefore |-> 0, notAfter |-> 2]
Bob == [id |-> "bob-key", key |-> "k2", actor |-> "bob",
        purposes |-> {"campaign", "host_plan"}, notBefore |-> 1,
        notAfter |-> 3]
SampleAnchorDocs == {{Ann("k1"), Bob}, {Ann("k3"), Bob}}

Decision(id, issued) ==
  [id |-> id, purpose |-> "product_decision", use |-> "once",
   project |-> "p", subject |-> "decision", digest |-> "d", input |-> "i",
   textIntact |-> TRUE, actor |-> "ann", anchor |-> "ann-key",
   issued |-> issued, until |-> issued + 2]
Campaign == [Decision(4, 1) EXCEPT
  !.purpose = "campaign", !.use = "grant", !.subject = "campaign",
  !.input = "", !.actor = "bob", !.anchor = "bob-key", !.until = 3]
HostPlan == [Campaign EXCEPT
  !.id = 5, !.purpose = "host_plan", !.use = "once", !.subject = "plan"]

SampleReceiptFiles ==
  {[name |-> 1, stmt |-> Decision(1, 0), key |-> "k1"],
   [name |-> 3, stmt |-> [Campaign EXCEPT !.id = 3, !.issued = 0],
    key |-> "k2"],
   [name |-> 1, stmt |-> Decision(1, 1), key |-> "forged"],
   [name |-> 4, stmt |-> Campaign, key |-> "k2"],
   [name |-> 5, stmt |-> HostPlan, key |-> "k2"]}

Ask(via, id, s) ==
  [via |-> via, id |-> id, purpose |-> s.purpose, project |-> s.project,
   subject |-> s.subject, digest |-> s.digest, input |-> s.input]
SampleRequests ==
  {Ask("human", 1, Decision(1, 0)), Ask("direct", 0, Campaign),
   Ask("host", 5, HostPlan)}

SampleCustodyChanges ==
  {<<"dir", [owner |-> "operator", open |-> TRUE, link |-> FALSE]>>,
   <<"revoked.json", [owner |-> "root", open |-> FALSE, link |-> FALSE]>>}
=============================================================================
