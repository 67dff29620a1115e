---------------------------- MODULE PortExecutor ----------------------------
(***************************************************************************)
(* The Rust port's execution boundary.  It judges, and leaves it to its    *)
(* caller to take the step and to commit it.                               *)
(***************************************************************************)
EXTENDS PortCertificate

Ok(obligations) == [ok |-> TRUE, obligations |-> obligations]
Err(code) == [ok |-> FALSE, code |-> code]

\* Mutant: the obligations are compared, but the policy kernel is run again only
\* for what goes out.
execute_judging_deliveries(state, action, actor_id, capabilities, policy, certificate, broker_secret) ==
  LET invalid == certificate_verify(certificate, state, action, actor_id,
                                    capabilities, policy, broker_secret)
  IN  IF invalid # Null THEN Err(invalid)
      ELSE IF /\ action.variant \in {"SubmitDraft", "PostToSlack"}
              /\ ~is_allow(policy_verify(state, action, actor_id, capabilities, policy))
           THEN Err("EXECUTOR_POLICY_DENIED")
      ELSE IF nonce_consumed(state, action.nonce)
           THEN Err("NONCE_REPLAY_AT_EXECUTOR")
      ELSE Ok(certificate.obligations)

execute_exact(state, action, actor_id, capabilities, policy, certificate, broker_secret) ==
  LET invalid  == certificate_verify(certificate, state, action, actor_id,
                                     capabilities, policy, broker_secret)
      decision == policy_verify(state, action, actor_id, capabilities, policy)
  IN  IF invalid # Null THEN Err(invalid)
      ELSE IF ~is_allow(decision) THEN Err("EXECUTOR_POLICY_DENIED")
      ELSE IF obligations_value(certificate.obligations)
                # obligations_value(decision.obligations)
           THEN Err("CERTIFICATE_OBLIGATION_MISMATCH")
      ELSE IF nonce_consumed(state, action.nonce)
           THEN Err("NONCE_REPLAY_AT_EXECUTOR")
      ELSE Ok(decision.obligations)
=============================================================================
