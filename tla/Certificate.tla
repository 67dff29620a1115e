---------------------------- MODULE Certificate ----------------------------
(***************************************************************************)
(* Transition certificates: a policy decision bound to the exact state,    *)
(* action, actor, policy and capabilities it was taken for, and signed     *)
(* with the broker secret.  HMAC is modelled as unforgeable: a mac is the  *)
(* pair of the key and the signed record.                                  *)
(***************************************************************************)
EXTENDS Policy

UnsignedCertificate(s, a, actor, caps, pol, obligations) ==
  [t                |-> "transition_certificate",
   version          |-> 1,
   prior_state_hash |-> HashState(s),
   action_hash      |-> ActionHash(a),
   actor_id         |-> actor,
   policy_hash      |-> PolicyDigest(pol),
   capability_hash  |-> CapabilitiesDigest(caps),
   nonce            |-> a.nonce,
   sequence         |-> s.sequence,
   obligations      |-> obligations]

Mac(secret, unsigned) ==
  TaggedDigest("confine.certificate.mac.v1", <<secret, unsigned>>)

Issue(s, a, actor, caps, pol, obligations, secret) ==
  LET unsigned == UnsignedCertificate(s, a, actor, caps, pol, obligations)
  IN  RecSet(unsigned, "mac", Mac(secret, unsigned))

StripMac(certificate) == RecRemove(certificate, "mac")

\* Mutant: the sequence of the next state is expected.
VerifyAgainstNextSequence(c, s, a, actor, caps, pol, secret) ==
  /\ "mac" \in DOMAIN c
  /\ c.mac = Mac(secret, StripMac(c))
  /\ c.prior_state_hash = HashState(s)
  /\ c.action_hash = ActionHash(a)
  /\ c.actor_id = actor
  /\ c.policy_hash = PolicyDigest(pol)
  /\ c.capability_hash = CapabilitiesDigest(caps)
  /\ c.nonce = a.nonce
  /\ c.sequence = s.sequence + 1

\* Mutant: the rule it was signed under is not compared.
VerifyUnderAnyRule(c, s, a, actor, caps, pol, secret) ==
  /\ "mac" \in DOMAIN c
  /\ c.mac = Mac(secret, StripMac(c))
  /\ c.prior_state_hash = HashState(s)
  /\ c.action_hash = ActionHash(a)
  /\ c.actor_id = actor
  /\ c.nonce = a.nonce
  /\ c.sequence = s.sequence

\* Mutant: only the presence of a mac is checked.
VerifyMacPresent(c, s, a, actor, caps, pol, secret) ==
  /\ "mac" \in DOMAIN c
  /\ c.prior_state_hash = HashState(s)
  /\ c.action_hash = ActionHash(a)
  /\ c.actor_id = actor
  /\ c.policy_hash = PolicyDigest(pol)
  /\ c.capability_hash = CapabilitiesDigest(caps)
  /\ c.nonce = a.nonce
  /\ c.sequence = s.sequence

\* certificate.verify returns ok.
VerifyCertificate(c, s, a, actor, caps, pol, secret) ==
  /\ "mac" \in DOMAIN c
  /\ c.mac = Mac(secret, StripMac(c))
  /\ c.prior_state_hash = HashState(s)
  /\ c.action_hash = ActionHash(a)
  /\ c.actor_id = actor
  /\ c.policy_hash = PolicyDigest(pol)
  /\ c.capability_hash = CapabilitiesDigest(caps)
  /\ c.nonce = a.nonce
  /\ c.sequence = s.sequence

CertificateDigest(c) == TaggedDigest("confine.certificate.v1", c)
=============================================================================
