--------------------------- MODULE MCCommitStore ---------------------------
(***************************************************************************)
(* Racing callers of one store: two that write with the same nonce, and    *)
(* one that approves.                                                      *)
(***************************************************************************)
EXTENDS CommitStore, MCBusiness, TLC

CONSTANTS n1, n2, a, b, c

MCCallers == {a, b, c}
MCActorOf == (a :> "drafter") @@ (b :> "dual") @@ (c :> "approver")
MCNonceOf == (a :> n1) @@ (b :> n1) @@ (c :> n2)

\* Two callers that repeat their calls with the nonce they have.
TwoCallers == {a, c}
TwoActorOf == (a :> "drafter") @@ (c :> "approver")
TwoNonceOf == (a :> n1) @@ (c :> n2)

MCNonces == {n1, n2}
MCOffered(s) == Nonces
MCInvoiceIds == {"inv_1"}
MCThreadIds == {"thread_1"}
MCCustomerIds == {"cust_1"}
MCBodies == {"dear customer"}
MCLabels == {WithPii("cust_1")}
MCRecipients == {"billing@1"}
MCChannels == {"team_1"}

\* No deliveries: the callers only write and approve.
Nowhere == {}
=============================================================================
