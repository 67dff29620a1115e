------------------------------ MODULE Actions ------------------------------
(***************************************************************************)
(* The closed action algebra: five tags, each with an exact field set.     *)
(* Parsing accepts a proposal or refuses it; the record it builds has the  *)
(* fields of the proposal, so an accepted proposal is its own action.      *)
(***************************************************************************)
EXTENDS Labels

\* Fields every action carries besides its own.
Header == {"t", "nonce", "expected_state_hash"}

\* What the five parsers share: a closed field set, all of it present, the
\* text fields texts, the hashes in sha256 form, the labels valid.
ParseFields(r, texts, hashes, labels) ==
  /\ NoUnknownFields(r, Header \cup texts \cup labels)
  /\ RequireTextFields(r, {"nonce", "expected_state_hash"} \cup texts)
  /\ \A f \in labels : f \in DOMAIN r /\ Valid(r[f])
  /\ \A f \in hashes \cup {"expected_state_hash"} : ValidSha256(r[f])

ParseReadInvoice(r) == ParseFields(r, {"invoice_id"}, {}, {})

ParseCreateDraft(r) ==
  ParseFields(r, {"thread_id", "invoice_id", "customer_id", "body"},
              {}, {"body_label"})

ParseApproveDraft(r) ==
  ParseFields(r, {"draft_hash", "approver_id"}, {"draft_hash"}, {})

ParseSubmitDraft(r) ==
  ParseFields(r, {"draft_hash", "recipient"}, {"draft_hash"},
              {"recipient_label"})

ParsePostToSlack(r) ==
  ParseFields(r, {"draft_hash", "channel_id"}, {"draft_hash"},
              {"channel_label"})

Parses(p) ==
  /\ p # Malformed
  /\ RequireTextFields(p, {"t"})
  /\ \/ p.t = "read_invoice"  /\ ParseReadInvoice(p)
     \/ p.t = "create_draft"  /\ ParseCreateDraft(p)
     \/ p.t = "approve_draft" /\ ParseApproveDraft(p)
     \/ p.t = "submit_draft"  /\ ParseSubmitDraft(p)
     \/ p.t = "post_to_slack" /\ ParsePostToSlack(p)

ActionHash(a) == TaggedDigest("confine.action.v1", a)
=============================================================================
