-------------------------- MODULE PortCertificate ---------------------------
(***************************************************************************)
(* The Rust port's certificates: a struct without tag and version, which   *)
(* the signed value adds, and whose mac is the empty text until signed.    *)
(***************************************************************************)
EXTENDS PortPolicy

\* The empty text, which is no digest.
NoMac == Null

\* Mutant: the sequence is not signed.
unsequenced_value(c) ==
  [t |-> "transition_certificate", version |-> 1, sequence |-> 0,
   prior_state_hash |-> c.prior_state_hash, action_hash |-> c.action_hash,
   actor_id |-> c.actor_id, policy_hash |-> c.policy_hash,
   capability_hash |-> c.capability_hash, nonce |-> c.nonce,
   obligations |-> obligations_value(c.obligations)]

unsigned_value(c) ==
  [t |-> "transition_certificate", version |-> 1,
   prior_state_hash |-> c.prior_state_hash, action_hash |-> c.action_hash,
   actor_id |-> c.actor_id, policy_hash |-> c.policy_hash,
   capability_hash |-> c.capability_hash, nonce |-> c.nonce,
   sequence |-> c.sequence, obligations |-> obligations_value(c.obligations)]

\* HMAC is modelled as unforgeable: the pair of the key and what it signs.
certificate_mac_v1_fard(secret, value) ==
  TaggedDigest("confine.certificate.mac.v1", <<secret, value>>)

unsigned_certificate(state, action, actor_id, capabilities, policy, obligations) ==
  [prior_state_hash |-> hash_state(state),
   action_hash |-> action_hash(action),
   actor_id |-> actor_id,
   policy_hash |-> policy_digest(policy),
   capability_hash |-> capability_digest(capabilities),
   nonce |-> action.nonce,
   sequence |-> state.sequence,
   obligations |-> obligations,
   mac |-> NoMac]

issue(state, action, actor_id, capabilities, policy, obligations, broker_secret) ==
  LET unsigned == unsigned_certificate(state, action, actor_id, capabilities,
                                       policy, obligations)
  IN  [unsigned EXCEPT
         !.mac = certificate_mac_v1_fard(broker_secret, unsigned_value(unsigned))]

\* Mutant: the sequence is compared before the state it is part of.
verify_sequence_first(c, state, action, actor_id, capabilities, policy, broker_secret) ==
  IF c.mac = NoMac THEN "CERTIFICATE_MISSING_MAC"
  ELSE IF c.mac # certificate_mac_v1_fard(broker_secret, unsigned_value(c))
       THEN "CERTIFICATE_MAC_MISMATCH"
  ELSE IF c.sequence # state.sequence THEN "CERTIFICATE_SEQUENCE_MISMATCH"
  ELSE IF c.prior_state_hash # hash_state(state) THEN "CERTIFICATE_STATE_MISMATCH"
  ELSE Null

\* The code of the error, Null when there is none.
certificate_verify(c, state, action, actor_id, capabilities, policy, broker_secret) ==
  IF c.mac = NoMac THEN "CERTIFICATE_MISSING_MAC"
  ELSE IF c.mac # certificate_mac_v1_fard(broker_secret, unsigned_value(c))
       THEN "CERTIFICATE_MAC_MISMATCH"
  ELSE IF c.prior_state_hash # hash_state(state) THEN "CERTIFICATE_STATE_MISMATCH"
  ELSE IF c.action_hash # action_hash(action) THEN "CERTIFICATE_ACTION_MISMATCH"
  ELSE IF c.actor_id # actor_id THEN "CERTIFICATE_ACTOR_MISMATCH"
  ELSE IF c.policy_hash # policy_digest(policy) THEN "CERTIFICATE_POLICY_MISMATCH"
  ELSE IF c.capability_hash # capability_digest(capabilities)
       THEN "CERTIFICATE_CAPABILITY_MISMATCH"
  ELSE IF c.nonce # action.nonce THEN "CERTIFICATE_NONCE_MISMATCH"
  ELSE IF c.sequence # state.sequence THEN "CERTIFICATE_SEQUENCE_MISMATCH"
  ELSE Null
=============================================================================
