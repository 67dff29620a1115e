----------------------------- MODULE MCBusiness -----------------------------
(***************************************************************************)
(* A small business for the model checker: two customers with an invoice   *)
(* and a thread each, a drafter, an approver who also submits, and an      *)
(* actor who may both write and approve, and posts.                        *)
(***************************************************************************)
EXTENDS Labels

MCStrLen(x) ==
  CASE x = "dear customer" -> 2
    [] x = "final notice"  -> 3
    [] x = "" -> 0
    [] x = "a broker secret of 32 characters" -> 32
    [] OTHER -> 12

WithPii(c) ==
  [kind |-> "customer", owner |-> c, compartments |-> <<"pii", "customer_data">>]

MCPolicy ==
  [version |-> "v1", min_nonce_length |-> 12, max_draft_chars |-> 3,
   max_total_drafts |-> 3, max_total_submissions |-> 2,
   max_total_slack_posts |-> 1, approver_role |-> "approver",
   require_separation_of_duties |-> TRUE,
   approved_recipients |-> [cust_1 |-> {"billing@1"}, cust_2 |-> {"accounts@2"}],
   approved_slack_channels |->
     [finance |-> [label |-> InternalLabel], team_1 |-> [label |-> WithPii("cust_1")]]]

MCActors ==
  [drafter  |-> [role |-> "drafter", operations |-> {"read_invoice", "create_draft"}],
   approver |-> [role |-> "approver", operations |-> {"approve_draft", "submit_draft"}],
   dual     |-> [role |-> "approver",
                 operations |-> {"create_draft", "approve_draft", "post_to_slack"}]]

MCConfig ==
  [policy_version |-> "v1", policy |-> MCPolicy,
   capabilities |-> [actors |-> MCActors, operations |-> {"read_invoice"}],
   broker_secret |-> "a broker secret of 32 characters",
   invoices |-> [inv_1 |-> [customer_id |-> "cust_1", status |-> "open",
                            amount_cents |-> 1, label |-> WithPii("cust_1")],
                 inv_2 |-> [customer_id |-> "cust_2", status |-> "paid",
                            amount_cents |-> 2, label |-> CustomerLabel("cust_2")]],
   threads |-> [thread_1 |-> [customer_id |-> "cust_1"],
                thread_2 |-> [customer_id |-> "cust_2"]]]

MCActorIds == {"drafter", "approver", "dual"}
=============================================================================
