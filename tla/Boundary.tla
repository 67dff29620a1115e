------------------------------ MODULE Boundary ------------------------------
(***************************************************************************)
(* The execution boundary on its own: execute_exact called with whatever   *)
(* certificate the caller has.  Certificates are signed by somebody who    *)
(* holds the broker secret and need not have asked the policy kernel; one  *)
(* is kept, altered, presented for an altered action or for another actor, *)
(* and presented again after the state or the configuration has changed.   *)
(***************************************************************************)
EXTENDS Proposals

CONSTANT Configs   \* the configurations that come into force, Config first

\* All of them are valid and serve the same business data.
ASSUME ConfigsAssumption ==
  /\ Config \in Configs
  /\ \A c \in Configs : /\ ConfigValid(c)
                        /\ c.invoices = Config.invoices
                        /\ c.threads = Config.threads

VARIABLES
  state,    \* the state returned by the last execution
  config,   \* the configuration in force
  held,     \* the certificate somebody keeps, with its action and actor, and
            \* the configuration that was in force when it was signed
  log       \* what was executed: by whom, with what, signed and executed under
            \* which configurations

vars == <<state, config, held, log>>

Init ==
  /\ state = Initial(Config)
  /\ config = Config
  /\ held = Null
  /\ log = <<>>

\* Actions made against the present state.
Actions(s) == {a \in Offers(s) : a.expected_state_hash = HashState(s)}

\* The signer looks the obligations up, or writes none.
Signable(s, a) ==
  {<<>>} \cup (IF a.t = "read_invoice" /\ ~HasInvoice(s, a.invoice_id)
               THEN {} ELSE {ObligationsForAction(s, a)})

\* certificate.issue for any action and actor, unasked of the kernel.
Sign(a, actor, obligations) ==
  /\ held' = [action |-> a, actor |-> actor,
              certificate |-> Issue(state, a, actor, config.capabilities,
                                    config.policy, obligations,
                                    config.broker_secret),
              signedUnder |-> config]
  /\ UNCHANGED <<state, config, log>>

\* The kept action as it was, or made against the present state.
Retries == {held.action, [held.action EXCEPT !.expected_state_hash = HashState(state)]}

\* The kept certificate as it is or, without the secret, made out to another
\* actor, brought up to date for a retry, or moved to the rule in force.
Versions(a) ==
  LET c == held.certificate IN
  {c, [c EXCEPT !.prior_state_hash = HashState(state),
                !.sequence = state.sequence, !.action_hash = ActionHash(a)],
      [c EXCEPT !.policy_hash = PolicyDigest(config.policy),
                !.capability_hash = CapabilitiesDigest(config.capabilities)]}
  \cup {[c EXCEPT !.actor_id = x] : x \in ActorIds}

\* execute_exact returns ok; the caller takes over the state it returns.
Execute(a, actor, c) ==
  /\ ExecutorAccepts(state, a, actor, config.capabilities, config.policy, c,
                     config.broker_secret)
  /\ state' = ExecutionState(state, a, actor)
  /\ log' = Append(log, [certificate |-> c, action |-> a, actor |-> actor,
                         signedUnder |-> held.signedUnder, ruling |-> config])
  /\ UNCHANGED <<config, held>>

\* The policy, the capabilities or the secret are replaced.
Rotate(c) ==
  /\ config' = c
  /\ UNCHANGED <<state, held, log>>

Next ==
  \/ \E a \in Actions(state), actor \in ActorIds :
       \E obligations \in Signable(state, a) : Sign(a, actor, obligations)
  \/ /\ held # Null
     /\ \E a \in Retries, actor \in ActorIds :
          \E c \in Versions(a) : Execute(a, actor, c)
  \/ \E c \in Configs \ {config} : Rotate(c)

Spec == Init /\ [][Next]_vars

-----------------------------------------------------------------------------

\* A certificate is good for one execution, however long it is kept and
\* whatever comes into force and goes out of force again: each execution moves
\* the sequence and consumes the nonce the certificate is bound to.
CertificateSpentOnce ==
  \A i, j \in DOMAIN log : log[i].certificate = log[j].certificate => i = j

\* Nothing is executed on a certificate that nobody signed, be it only brought
\* up to date: what verify accepts is the certificate as it was issued.
AlteredNeverExecutes ==
  [][log' # log => log'[Len(log')].certificate = held.certificate]_vars

\* A certificate does not outlive the rule it was signed under, whatever it is
\* made to say afterwards: between signing and execution rules come into force
\* and go, and the rule in force at execution is the one at signing.
NoStaleRuling ==
  \A k \in DOMAIN log :
    /\ log[k].signedUnder.policy = log[k].ruling.policy
    /\ log[k].signedUnder.capabilities = log[k].ruling.capabilities

\* Whoever signed for it, what execute_exact did is what the rule then in force
\* allows: the actor had the operation, an approver had the role and was not
\* the author where that mattered, and a mail of an approved draft went to a
\* recipient then approved.
RuledInForce ==
  \A k \in DOMAIN log :
    LET a     == log[k].action
        actor == log[k].actor
        rule  == log[k].ruling
        draft == state.drafts[a.draft_hash]
    IN
    /\ OperationAllowed(rule.capabilities, actor, a.t)
    /\ a.t = "approve_draft" =>
         /\ a.draft_hash \in DOMAIN state.drafts
         /\ ActorRole(rule.capabilities, actor) = rule.policy.approver_role
         /\ rule.policy.require_separation_of_duties => actor # draft.created_by
    /\ a.t = "submit_draft" =>
         /\ a.draft_hash \in DOMAIN state.approvals
         /\ RecipientAllowed(rule.policy, draft.customer_id, a.recipient)
=============================================================================
