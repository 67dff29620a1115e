----------------------------- MODULE Transition -----------------------------
(***************************************************************************)
(* engine.apply_with_receipt as a function of its arguments: parse, policy,*)
(* certificate, execution, receipt, and the state linked to the receipt.   *)
(* One configuration is in force throughout.                               *)
(***************************************************************************)
EXTENDS Receipts

CONSTANT Config  \* policy, capabilities, broker_secret and the business data

\* config.validate accepts Config.
ConfigValid(config) ==
  LET pol == config.policy IN
  /\ {"policy", "capabilities", "broker_secret", "invoices", "threads"} \subseteq DOMAIN config
  /\ StrLen(config.broker_secret) >= 32
  /\ {"version", "min_nonce_length", "max_draft_chars", "max_total_drafts",
      "max_total_submissions", "max_total_slack_posts", "approver_role",
      "require_separation_of_duties", "approved_recipients",
      "approved_slack_channels"} \subseteq DOMAIN pol
  /\ IsText(pol.version)
  /\ \A limit \in {"min_nonce_length", "max_draft_chars", "max_total_drafts",
                   "max_total_submissions", "max_total_slack_posts"} :
       pol[limit] \in Nat \ {0}
  /\ IsText(pol.approver_role)
  /\ pol.require_separation_of_duties \in BOOLEAN
  /\ \A f \in {"approved_recipients", "approved_slack_channels"} :
       pol[f] # Malformed
  /\ CapabilitiesValid(config.capabilities)
  /\ config.invoices # Malformed /\ config.threads # Malformed

ASSUME ConfigAssumption == ConfigValid(Config)

CertificateFor(s, p, actor) ==
  Issue(s, p, actor, Config.capabilities, Config.policy,
        ObligationsForAction(s, p), Config.broker_secret)

Allowed(s, p, actor) == Verify(s, p, actor, Config.capabilities, Config.policy)

Executes(s, p, actor) ==
  ExecutorAccepts(s, p, actor, Config.capabilities, Config.policy,
                  CertificateFor(s, p, actor), Config.broker_secret)

\* The call returns "committed".
Commits(s, p, actor) ==
  Parses(p) /\ Allowed(s, p, actor) /\ Executes(s, p, actor)

ReceiptFor(s, p, actor) ==
  CreateReceipt(s, p, actor, CertificateFor(s, p, actor),
                ExecutionResult(s, p, actor), ExecutionState(s, p, actor))

\* The state a committed call returns.
NextState(s, p, actor) ==
  WithPreviousReceipt(ExecutionState(s, p, actor),
                      ReceiptFor(s, p, actor).receipt_hash)

\* The stage a rejected call names; its state is the one it was given.
RejectionStage(s, p, actor) ==
  CASE ~Parses(p)                            -> "parse"
    [] Parses(p) /\ ~Allowed(s, p, actor)    -> "policy"
    [] OTHER                                 -> "execution"
=============================================================================
