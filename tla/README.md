# confine in TLA+

`confine` is an authority boundary between an untrusted proposer (a language
model) and a small business: a proposal is parsed into a closed set of actions,
judged by a policy kernel, certified, executed under a second run of the kernel,
and recorded in a hash-chained receipt. This directory holds a formal model of
the FARD reference implementation (`packages/confine/`) and of its Rust port
(`ports/rust/`), the TLC runs that check them on small instances, and proofs,
checked by TLAPS, that hold for every configuration and every set of inputs.

## 1. The system

| part | state it keeps | operations | what makes it correct |
|---|---|---|---|
| `canonical.fard` | none | canonical text, tagged digests, field checks | a digest commits to its tag and value |
| `labels.fard` | none | `valid`, `flows_to`, `join` | flows compose; customers and secrets stay in their own domain |
| `capabilities.fard` | none | `validate`, `operation_allowed`, `actor_role` | no default-allow |
| `actions.fard` | none | `parse`, `action_hash` | closed tags and fields: nothing but an action gets through |
| `state.fard` | the state record: business data, drafts, approvals, mails, posts, consumed nonces, counters, link to the last receipt | `initial`, `hash_state`, accessors | the hash commits to everything but the link |
| `policy.fard` | none | `verify`, `obligations_for_action` | deny unless every rule holds |
| `certificate.fard` | none | `issue`, `verify` | a certificate is good for one call on one state under one configuration |
| `executor.fard` | none | `execute_exact` and its five branches | nothing the kernel denies is executed |
| `receipts.fard` | none | `create`, `verify_chain` | the ledger tells what happened, in order |
| `engine.fard` | none (state in, state out) | `apply_with_receipt` | a rejected call changes nothing, a committed one exactly one action's worth |
| `commit_store.fard` | one state behind a mutex | `new_store`, `current_state`, `commit` | commits are serialised; losers of a race are told |
| `config.fard` | none | `validate` | the kernel can run on what is accepted |
| `ports/rust` | none | hashes, `verify`, certificates, `execute_exact` | the same digests, decisions and certificates as the reference |
| `ports/python`, `ports/js` | none | the same again | the same decisions as the Rust port, for the same codes |
| callers (outside `src/`) | states and receipts they were given, certificates they kept | reading, proposing, retrying, going back to an older state, keeping receipts | none of it is trusted |

A caller reads the state (`current_state`), builds a proposal against its hash,
and calls `commit`; `commit` takes the mutex, compares the hash, and calls
`apply_with_receipt`, which calls the parser, `policy.verify`,
`certificate.issue`, `executor.execute_exact` (which calls `certificate.verify`
and `policy.verify` again) and `receipts.create`. Nothing is persisted: a crash
loses the store, so there is no recovery to model. Concurrency exists around the
mutex of the commit store, and around the ports: these stop at judging and
signing and leave the state, and the order of what is done to it, to their host.
The engine is a function of the state it is given, so a caller may also go on
from a state that others have left and fork the lineage. What is hard elsewhere
is long sequences of legal calls: a draft is identified by the hash of its content and
author, so it can be written again after it was approved or delivered, and
approvals, delivery marks, nonces, counters, effects and receipts are separate
pieces of state that must go on telling one story.

`PROJECT.json` lists the hazards of this code line by line, with the properties
that would notice each going wrong.

## 2. The modules

```
Canonical <- Labels <- Actions \
Canonical <- State, Capabilities -> Policy <- Certificate <- Executor <- Receipts <- Transition
Transition <- Proposals, Evaluation
              Proposals, Evaluation <- Engine <- EngineAuthority --INSTANCE--> Authority
              Proposals <- Boundary
                           Engine <- CommitStore
                           Engine <- Audit
Canonical <- PortLabels <- PortState <- PortPolicy <- PortCertificate <- PortExecutor
Engine, PortExecutor    <- Conformance <- PortHost
Canonical <- PortPython, PortJavaScript
                           Conformance <- PortLengths --INSTANCE--> PortPython, PortJavaScript
PortEncoding (on its own)

proofs:  Engine <- EngineProofs <- EngineLedgerProofs
         EngineAuthority, EngineLedgerProofs <- EngineFlowProofs
         Audit, EngineLedgerProofs <- AuditProofs
         CommitStore, EngineFlowProofs <- CommitStoreProofs
         PortHost, PortLengths, EngineFlowProofs <- PortProofs
         Boundary <- BoundaryProofs
         PortEncoding <- PortEncodingProofs
```

Up to `Transition` the modules are the FARD modules, one for one, and hold
operators only: the code is purely functional, and an operator has the name of
its function where TLA+ allows. A rule that denies in the code is a conjunct of
the operator that admits, in the same order. `Transition` is
`engine.apply_with_receipt`: `Commits` says when a call commits, `NextState` and
`ReceiptFor` what it returns, `RejectionStage` which stage refuses.

* **Proposals** is the environment: proposals with any combination of texts,
  claimed labels, recipients, channels, known and unknown draft hashes, used and
  fresh nonces, made against the current state or the initial one. The parser's
  verdict on records of other shapes is in `Actions` and is not enumerated.
* **Evaluation** says what a call reads. FARD stops with a runtime error where a
  field is read that a record lacks. `Evaluates` holds of a state, a proposal and an
  actor when every field is there, with a value its operation is defined on, that
  the kernel, the certificate, the executor and the receipt read after the look-ups
  that come first: of the invoice a read returns, its status and amount included
  (`executor.fard:21`). The other modules read without asking, as the code does.
* **Engine** is a lineage of calls: `state` is what the last committed call
  returned, `receipts` what all of them issued. One action per operation, each
  the whole of `apply_with_receipt`; rejected calls change nothing and are not
  steps. `Admitted` tests the rules that read only the header of a proposal
  before its other fields are enumerated; `Commit` tests them again, so this
  changes the search and not the behaviour.
* **Authority** is the promise without the machinery: texts are written,
  approved by someone entitled, mailed and posted within budgets, at most once
  per writing and sink. **EngineAuthority** maps the engine's state to it.
* **Audit** adds a second lineage and an auditor. `Keep` and `GoBack` let the
  callers set a state aside and go on from it later, so that two lineages share a
  beginning and consume the same nonces; `File` hands the auditor any receipt of
  either, so that his copy loses, repeats, reorders and mixes them.
* **CommitStore** adds the mutex and the callers. A call is `Call` (read under
  the mutex, make up a proposal), `Lock`, and one of `Conflict`, `Reject` and
  `Commit`. The mutex is FARD's `std/mutex`, which hands over the value on lock
  and takes it back on unlock. What callers do around calls is outside `src/`'s
  store and is left open: any proposal, a value that is no record, a repeated
  nonce, and after a conflict the old proposal with a fresh hash (`CallAgain`).
* **Boundary** leaves the engine out and calls `execute_exact` directly. Whoever
  holds the secret may `Sign` for any action and actor without asking the
  kernel; one certificate is kept, and presented as it is or altered, for its
  action or a retry of it against the new state, after any number of other
  executions and changes of policy and capabilities (`Rotate`). With the
  certificate goes what no field of it says: the configuration that was in force
  when it was signed (`signedUnder`).
* **PortLabels**, **PortState**, **PortPolicy**, **PortCertificate** and
  **PortExecutor** are the files of the Rust port (`action.rs` in PortState,
  `capabilities.rs` in PortPolicy), with the names of its functions, the order of
  its checks and the code each denies with. A struct is a record of its fields, an
  `Option` is `Null` or the value, and the `*_value` operators build the protocol
  value that is hashed, which is where struct and engine record differ.
* **Conformance** converts the engine's records to the port's structs (`As...`)
  and compares, in every state the engine reaches and for every offer, digests,
  decisions, obligations, certificates and what the executors accept, of
  certificates made by either side, forged and stale ones included. `Portable` is
  the condition under which this is claimed (section 4): the engine's records have a
  place in Rust's structs, and the port measures texts as the engine does.
* **PortHost** is the caller the port needs and `src/` does not have: workers that
  read, `Certify`, keep and copy certificates, forge them with the secret
  (`Forge`), hand them to `execute_exact` (`Accept`, `Refuse`) and commit what it
  accepted by compare-and-swap (`HostCommit`, `Conflict`). It is external, in
  the way `commit_store.fard:27-31` says a deployment without the store has to be.
* **PortPython** and **PortJavaScript** are the kernels of the other two ports with
  what they call (labels, capability look-ups, the state hash), each translated from
  its own source and neither from the Rust port. Python keeps its state
  in dataclasses with the fields of Rust's structs and measures texts in code points.
  JavaScript has camel-cased objects, measures in UTF-16 units, takes a missing limit
  of posts for 10 and a missing map of channels for an empty one, and compares the two
  labels of a post by `JSON.stringify` (`policy.js:102`), which writes the keys in the
  order they were put in: a label is modelled with that order (`keys`).
* **PortLengths** puts the three side by side: the engine's records as each of them
  takes them, and what each answers to an offer, as one value (`RustAnswer`,
  `PythonAnswer`, `JavaScriptAnswer`).
* **PortEncoding** is what the ideal digests of the other modules rest on: the
  port's `Value`, the canonical text `encode` makes of it, and the bytes a tagged
  digest is taken of. `encode_into` is a recursive function that appends to a
  buffer; here it is a machine with the buffer (`out`) and the stack of its calls
  (`calls`), whose step appends what the innermost call writes next and enters the
  call for the next part of an array or an object, or returns. `encode` works on
  its own and always ends the same way. Two runs of it are made side by side, of
  any two values, so that what it makes of them can be compared while it is made.
  The function `encode` says what text a value has, part by part; `EncodesCanonically`
  holds the machine against it. Values are finite trees: they have a `Depth`, and
  their parts are less deep.
  `Decimal`, `Hex` and `KeysOf` are the library's: the digits of an integer, the
  digits of an escape and the order of a `BTreeMap`.
* The **MC** modules give the constants their small values.

Definitions marked *Mutant* are plausible mistakes in the definition below them;
`PROJECT.json` says which property refutes each.

### What is abstracted

* SHA-256 and HMAC are ideal: `TaggedDigest(tag, v)` is the pair of both, a MAC is
  the pair of key and record. Canonical text is the value itself, except in
  PortEncoding, where it is proved that no two values have one text.
* Texts are model values or short strings, and `str.len` is the operator
  constant `StrLen`; a port's measure is `TextLen`. A value of the wrong type is
  the one value `Malformed`, and the text that is no mac (`NoMac`) is `Null`.
* A map used as a set (`consumed_nonces`, `deliveries.slack`) is a set; a list
  searched only for membership (operations, recipients) is a set.
* Of the FARD modules, denial codes, messages and error data are left out: a denial
  is the absence of an allow, and which rule is named when several fail is not
  told. Of the Rust port the codes are kept, because its holder of a certificate
  acts on them (`RefusedOnlyAsStale`); they are not compared with FARD's.
* One configuration is in force throughout (`Config`, assumed to be one that
  `config.validate` accepts), except in Boundary, where it changes.

## 3. The properties and the runs

| run | module, cfg | what it asks |
|---|---|---|
| `engine_wide` | MCEngine, MCEngineWide | every mix of two customers' data over 5 commits; the engine implements Authority |
| `engine_long` | MCEngine, MCEngineLong | one text over 6 commits: written, approved, delivered again; all quotas reached; no call raises |
| `mailed_once` | MCEngine, MCMailedOnce | expected violation: one draft hash is mailed twice |
| `boundary` | MCBoundary, MCBoundary | `execute_exact` called directly, two configurations, 3 executions |
| `store_race` | MCCommitStore, MCCommitStore | three racing callers, two sharing a nonce |
| `store_live` | MCCommitStore, MCCommitStoreLive | two callers repeat their calls; every call returns; retries settle |
| `audit` | MCAudit, MCAudit | two forked lineages, what a receipt tells of them, a copy with receipts lost, repeated, reordered and mixed |
| `audit_genesis` | MCAudit, MCAuditGenesis | expected violation: a copy without its beginning verifies |
| `port_conformance` | MCConformance, MCConformance | the Rust port against the engine in every state of 4 commits |
| `port_host` | MCPortHost, MCPortHost | two workers on the Rust port race, retry, copy and forge |
| `port_lengths` | MCPortLengths, MCPortLengths | expected violation: the ports disagree on a text at the limit |
| `port_encoding` | MCPortEncoding, MCPortEncoding | two runs of the encoding, of every two of 170 values; tagged preimages |

Of the engine: `ContentAddressed` (a draft stays under the hash of its content
and author), `SeparationOfDuties`, `ChainOfCustody` (a delivery follows an
approval that follows a writing of exactly that body), `ApprovalIsFinal`,
`NoLeak` (the two label checks, invoice to body and body to sink, compose),
`CustomerIsolation`, `Quotas` (of the effects, not of the counters only),
`NonceAccounting`, `LedgerIntact` (the chain verifies and has both its ends),
`EffectsAudited` (the effects are those of the receipts, one for one, in ledger
order),
`MailedOncePerWriting`, `ImplementsAuthority`, and `NoCallRaises`: in no state stops
any call that could be made with a runtime error, whatever earlier calls have read,
written, approved, mailed and posted, and however often. In the commit store such an
error would come between `lock` and `unlock` and leave the mutex taken for good. What
can be at fault is an entry of the configuration that lacks a field, because
`config.validate` checks the maps but not what is in them: `EntriesComplete` names
every field that is read of an entry, and the invoices of the runs have them all.

Of the boundary alone: `CertificateSpentOnce` (kept however long),
`AlteredNeverExecutes`, `NoStaleRuling`, and `RuledInForce`: a valid signature does
not replace the kernel, since what is executed obeys the rule in force whoever signed
for it. `NoStaleRuling` compares the rule in force at the execution with the rule that
was in force when the certificate was signed, and neither with what the certificate
says: between the two, rules come and go, and the certificate may have been moved to
the present rule by editing its fields. It needs the digests and the MAC together.

Of the store: `OneWinner`, `NonceOnce`, `ExecutionAgrees` (what policy admits is
never refused at execution), `ConflictIsHonest`, `Serialised` (the store with
all its callers is one lineage of `Engine`), `EveryCallReturns` and `RetriesSettle`.

Of the auditor: `AcceptedIffSegment` says exactly what `verify_chain` is good for.
It accepts a copy if and only if this is an unbroken stretch of one lineage. The
"only if" is the hard half: states of two lineages may have one hash (the hash
leaves the link out), nonces may recur, and only the link tells them apart.
`ReceiptTellsHistory` says what one receipt hash is good for: two lineages that
have one in common were one up to it, call by call, and where both end in it they
are in the same state. Two forks that read different invoices reach one state
hash, so this too rests on the link, and on its being part of what is hashed.
`WholeBetweenEnds` says what an auditor has to add. `verify_chain` compares neither
the first receipt with the genesis value, as the specification asks
(`AcceptedFromGenesis` is violated), nor the last with the state; whoever makes these
two comparisons knows that nothing is missing, at either end or between.

Of the Rust port: `HashesAgree`, `DecisionsAgree` and `ExecutionsAgree` with the
reference; `ImplementsEngine`, `OneReceiptPerCertificate` and `RefusedOnlyAsStale`
of a host built on it, although `execute_exact` itself consumes nothing and would
accept one certificate for ever. Of its encoding: `EncodesCanonically` (the machine
writes what the function gives), `EncodedApart` (no two values have one
text) and `DomainsApart` (no two pairs of a tag and a value have one preimage).

### Bounds

The number of nonces bounds the number of commits; every other bound is the
policy's own quota, so reaching it is part of the behaviour. Nonces are compared
for equality and length only, so `MCOffered` offers the consumed ones and one
fresh one. Four commits let each delivery follow its writing and approval, and five
leave a call to spare for another customer's data; six are the shortest lineage in
which a draft is written, approved, mailed, written again, mailed again, and the
mail quota of two is met; the draft quota of three, the Slack quota of one and
the refusal beyond them are reached as well. In Boundary one certificate is kept
at a time, signing another replaces it: each property is about one certificate
or one execution. Three nonces let a draft be written, approved and mailed. The
two configurations share the secret, because with another secret the MAC alone
would refuse and the digests would not be tested. In the store `MaxCalls` bounds the
*decided* calls of a caller (one in `store_race`, two in `store_live`); conflicts
and retries are not counted.

`audit` has three nonces and reads of two invoices by one actor, so the lineages
fork at any point and have up to three receipts each, and a copy has three
(`MaxArchive`): one receipt on either side of any break. Reads are enough there,
because `verify_chain` reads hashes, numbers and nonces only and a read leaves the
state hash the same whichever invoice it is of, which is the case that is hard.
`port_conformance` offers in each state an unknown invoice, thread and channel,
the empty, a full and an overlong text, a consumed and a short nonce, so that the
kernels have something to deny as well as to allow. `port_host` has three nonces for written,
approved, mailed; a constraint (`OneForgery`) lets the two workers hold one forged
certificate at a time, which the theorems about the host do without; `HostSymmetry`
swaps the workers, over which every property quantifies. `port_encoding`
takes every two of 170 values: scalars, arrays of up to two parts and objects of up
to two keys of them, and arrays and objects of such again. Their texts and keys are
made of what the encoding itself writes (quotes, escapes, commas, colons, `null`),
their integers and the tags have common beginnings, and one tag holds the
separator; the constants of a run are the values, so nothing else bounds it.

Deadlock is not checked: every lineage ends when its nonces are used up, and a
caller need not call.

### Fairness

Only `store_live` assumes fairness, weak and of single callers: a call that
waits for the mutex gets it if it stays free (`Lock`), a call that holds it runs
to its end (`Answer`: the code between lock and unlock does not block), and a
caller that met a conflict tries again (`Retry`: README, "the loser ... must
retry"). Nobody is obliged to make a first call. `std/mutex` promises no queue,
and weak fairness assumes none; that a waiting caller is served rests on the
others making boundedly many decided calls (`MaxCalls`). With callers that never
stop, a caller may wait, or lose races, for ever, as with any optimistic store.

### The findings

* `mailed_once`. `policy.fard:95` denies a second mail of a draft hash with
  `ALREADY_SUBMITTED`, and the state is described as keeping "per-effect delivery
  tracking" (`README.md:32`). `MailedOnce` states it and is violated:
  `executor.fard:27-31` stores a draft with fresh deliveries under a hash that does
  not depend on the nonce, and the approval of that hash stays, so writing the same
  content again lets the same draft be mailed again without a new approval. What
  does hold is `MailedOncePerWriting`; Authority is stated with that strength.
* `audit_genesis`. `Protocal Specification V2.md:226` asks that the first receipt of
  a chain name the genesis value. `receipts.fard:45` compares nothing at index 0, so a
  ledger without its first receipts is accepted. `AcceptedIffSegment` is the
  promise that remains.
* `port_lengths`. Each port calls itself a port of `policy.fard`, branch by branch
  (`policy.rs:3-4`, `policy.py:3-4`), but `max_draft_chars` is compared with bytes in
  Rust, code points in Python and UTF-16 units in JavaScript, so a text at the limit
  with one letter that is not ASCII is admitted by one and denied by another.
  The order of the keys of a label is a second difference, of the JavaScript port alone;
  it is proved (`KeyOrderMattersToPosts`), and section 4 says what of it is claimed.

## 4. The proofs

For every `Config` and every set of inputs:

| module | theorem | states |
|---|---|---|
| EngineProofs | `TypeCorrect` | `Spec => []TypeOK` |
| | `DraftsContentAddressed` | `Spec => []ContentAddressed` |
| | `ApprovalsAreFinal` | `Spec => ApprovalIsFinal` |
| | `NoncesAccountedFor` | `Spec => []NonceAccounting` |
| | `DutiesSeparated` | `Spec => []SeparationOfDuties` |
| EngineLedgerProofs | `LedgerStaysIntact`, `ReceiptsOrdered` | `Spec => []LedgerIntact`; receipts numbered without a gap |
| | `QuotasHold` | `Spec => []Quotas` |
| | `DeliveriesInCustody` | `Spec => []ChainOfCustody` |
| | `MailedPerWriting` | `Spec => []MailedOncePerWriting` |
| | `EffectsAreAudited` | `Spec => []EffectsAudited` |
| EngineFlowProofs | `FlowsReflexive`, `FlowsTransitive` | `FlowsTo` is a preorder on the valid labels |
| | `CustomersSeparated`, `JoinIsLeast` | no flow between owners; the join is the least upper bound |
| | `NothingLeaks` | `Spec => []NoLeak` |
| | `CustomersIsolated` | `Spec => []CustomerIsolation` |
| | `EngineImplementsAuthority` | `Spec => ImplementsAuthority` |
| | `LineagesAreSafe` | `Spec => []LineageSafety`: all of the invariants above |
| AuditProofs | `OnlySegmentsAccepted` | `AuditSpec => []AcceptedIffSegment` |
| | `ReceiptsTellHistories` | `AuditSpec => []ReceiptTellsHistory` |
| | `NothingMissingBetweenEnds` | `AuditSpec => []WholeBetweenEnds` |
| BoundaryProofs | `KeptCertificatesSpentOnce` | `Spec => []CertificateSpentOnce` |
| | `RulingsNeverStale`, `SignaturesGrantNothing` | `Spec => []NoStaleRuling`, `Spec => []RuledInForce` |
| | `AlterationsRefused` | `Spec => AlteredNeverExecutes` |
| CommitStoreProofs | `StoreTypeCorrect`, `ExecutionNeverDisagrees` | `StoreSpec => []StoreTypeOK`, `StoreSpec => []ExecutionAgrees` |
| | `StoreRefinesEngine` | `StoreSpec => Serialised` |
| | `StoreIsSafe`, `StoreImplementsAuthority` | `StoreSpec => []LineageSafety /\ ApprovalIsFinal`, `StoreSpec => ImplementsAuthority` |
| | `AtMostOneWinner`, `NoncesCommitOnce` | `StoreSpec => []OneWinner`, `StoreSpec => []NonceOnce` |
| | `CallsNeverRaise` | `StoreSpec => [](NoCallRaises /\ HeldCallReturns)` |
| | `ConflictsAreHonest` | `StoreSpec => ConflictIsHonest` |
| PortProofs | `PortHashesAgree`, `PortDecisionsAgree`, `PortExecutionsAgree` | the port agrees with the reference in every reachable state, if `Portable` |
| | `PortAcceptsOnlyIssued` | of all certificates, `execute_exact` accepts for an offer the one the engine would issue, if the kernel allows the offer |
| | `HostRefinesEngine` | `HostSpec => ImplementsEngine` |
| | `HostIsSafe`, `HostImplementsAuthority` | `HostSpec => []LineageSafety /\ ApprovalIsFinal`, `HostSpec => ImplementsAuthority` |
| | `CertificatesSpentOnce`, `AskersRefusedOnlyAsStale` | `HostSpec => []OneReceiptPerCertificate`, `HostSpec => []RefusedOnlyAsStale` |
| | `PortsAgreeWhereMeasuredAlike` | `Spec => []PortsDecideAlike`, if no text lies on two sides of a limit |
| | `KeyOrderMattersToPosts` | `Spec => []KeyOrderDecidesPosts`: with another order of keys a lawful post is denied by JavaScript, and nothing else changes |
| PortEncodingProofs | `TextsApart`, `PreimagesTell` | `Spec => []EncodedApart`, `Spec => []DomainsApart` |
| | `RunsEncode` | `Spec => []EncodesCanonically` |

The inductive invariant is `IInv == TypeOK /\ ContentAddressed`. `ContentAddressed`
is what makes overwriting harmless: since a digest commits to its value, a draft
that is stored again under its hash has the content and the author it had
(`ContentKept`), so an approval still approves what it approved and its approver
is still not the author. The argument has three layers: what each execution
branch does to each field of a state (`ReadFields` ... `PostFields`), what a
committed call of each operation does to the variables (`ReadEffect` ...
`PostEffect`), and one summary of any commit (`NextIsOneCommit`).

Each further property adds its own invariant to `IInv`:

* `FlowInv`: every stored draft was lawfully written, and every mail and post
  lawfully made of the content of its draft. Neither `NoLeak` nor
  `CustomerIsolation` is inductive alone, because they relate an effect to the
  invoice of its draft and the check at delivery only sees the body's label;
  `FlowsTransitive` joins the two checks.
* `LedgerInv`: the chain is intact, the last receipt's sequence is the state's,
  and the nonces of all receipts are consumed, so the next one repeats none.
* `QuotaInv`: the counters count the effects and the key sets are finite. That
  the approvals are as many as the counter says needs that no draft is approved
  twice, and that the drafts are at most as many as were written needs that a
  second writing may overwrite.

* `CustodyInv`: every stored draft has a writing in the ledger and every approved
  one a writing before its approval. `ChainOfCustody` speaks of receipts and the
  kernel looks at the state; this is what connects them.
* `WritingsInv`: a draft that has not been mailed since it was last written has a
  writing to spare. That is the strengthening `MailedOncePerWriting` needs, and the
  exact sense in which writing again undoes a delivery mark.
* `EffectsAudited` is inductive with `IInv`. It says of the receipts of an operation
  that the effect of each is in the state at the receipt's place among them; places
  are counted (`Place`), so that a commit adds one behind all others and moves none
  (`PlacesGrow`), where filtering the ledger would have asked for an induction.

`EngineImplementsAuthority` maps each of the five operations to the abstract action
of its name; the guards of Authority follow from the kernel's rules and `FlowInv`.

**AuditInv** says that both lineages are ledgers that lead to their states
(`Ledger`, `LeadsTo`), that where they have the same receipt they have the same
beginning (`Parted`), and that a copy whose links verify is a part of one of them.
A receipt that continues a verifying copy names the one before it by a digest; a
digest commits to its receipt, so that receipt is in the lineage the new one is
taken from, at the place before it (`NamesBefore`), and the rest of the copy with it.
Forks matter in `Parted` only: that two lineages share nonces or state hashes is
no assumption. `ReceiptTellsHistory` follows from `Parted` and `LeadsTo`: a state is
what its hash covers and the link to the last receipt, and both are in the receipt.
`WholeBetweenEnds` needs both ends: a part that begins at the genesis value skips
none (`PartFromGenesis`: every other receipt names a digest), and one that ends in
the state's link ends where the state's ledger does (`PartUpToLink`), `Parted` doing
the rest when it was copied from the other lineage.

**The store.** `StoreInv` is the type invariant with what a caller has in hand.
`Serialised` needs one fact: under the mutex, the state compared is the state
stepped from. `OneWinner` and `NonceOnce` are then facts of the ledger
(`ReceiptsOrdered`, `LedgerInv`), inherited along the refinement, and so is
everything else that is proved of a lineage (`StoreIsSafe`), the refinement of
Authority included: the state a store holds never leaks, overdraws or loses its
ledger, however many callers race for it. `CallsNeverRaise` is where the engine's type
invariant pays: `StateEvaluatesAlways` and `DraftsEvaluate` read off it that no
operation, in any order, drops a field, and the rest is `ConfigAssumption` and the
look-ups. It is proved of every parsed proposal and every actor (`CallsEvaluate`), so
it holds also of the old proposals that callers send again; `HeldCallReturns` says so
of the one call that has the mutex.

**The boundary.** `BoundaryInv` says of the log of executions that their nonces are
consumed and all different, and that each obeys the rule it was executed under.
`HeldSigned` says that a kept certificate has the mac of what it says, under some
secret, so that an altered one cannot have the mac of anything else. `HeldNamesRule`
says that it names the digests of the rule it was signed under; since only the
certificate as it was signed is accepted (`SignedExecutes`), and only for the digests
of the rule in force, the two rules are one (`NoStaleRuling`).

**The port.** PortProofs goes through the port's modules in their order:
each conversion is injective and commutes with the accessors, so the hashes agree;
the kernel is compared rule by rule, the certificate field by field. `HostInv` says
of each worker that the state its job was accepted on is the present one or behind
it, that a certificate the kernel allowed stays good until the state moves, and
that, until then, the action of any certificate is one that may be proposed in the
state; so that a commit is a step `Engine` could have taken.

The Python and the JavaScript kernels are compared with the Rust port's rule by rule
(`PythonReads` ... `PythonPosts`, `JavaScriptReads` ... `JavaScriptPosts`), in the
order in which each makes its checks, so that the code of the first denial is compared
too. `PortsAgreeWhereMeasuredAlike` is the other side of the finding `port_lengths`:
its hypothesis `MeasuredAlike` says that no nonce and no body comes to lie on two sides
of a limit, measured in bytes and in code points or UTF-16 units, and what that run
offers is exactly a body that does. It speaks of labels as the constructors of
`labels.js` make them, in the action and in the policy. `KeyOrderMattersToPosts` is
about the others: with any other order of keys in the action, a post that Rust and
Python allow is denied with `CHANNEL_LABEL_MISMATCH`, and the answer to every other
action is the same. Two things are outside both theorems. A policy of the engine always
has `max_total_slack_posts` (`config.fard:19` refuses one without), so the default of
10 that Python and JavaScript put in its place (`policy.py:25`, `policy.js:105`) is
never taken. An identifier such as `constructor` names a member of every
JavaScript object, so that a look-up finds what nobody put there; such identifiers are
left out.

**The encoding.** Two runs stay in step as long as what they write is the same
(`InStep`: the same text, the same stack but for the values still to be
told apart). Where it stops being so they part (`Parted`): they have clashed in one
character, or one value has ended, as a shorter integer does, where the other goes
on, and next comes a mark that closes or separates in one and a digit in the
other. No value begins with such a mark, which is what makes the text of an array tell
where its parts end. Once parted, two texts never become equal again. This
argument goes by steps of `encode_into` and not by depth of the value, so it needs no
induction over values; a text in a text (`escape`) is settled character by character.
`DomainsApart` adds that a canonical text holds no raw newline, so that the last
newline of a preimage is the separator, whatever is in the tags.

`EncodesCanonically` does need induction. The provers cannot instantiate the library's
induction theorems, which take a predicate, but they can its theorem that a set has
minimal elements in a well-founded relation (`WFMin`), which takes a set; `Induction`
states it of a set of naturals. By induction over `Depth`, the recursive definition
of `encode` has a solution (`EncodeUnfolds`) and gives texts (`EncodeType`); by
induction over places, `FlattenSeq` is the last of the prefixes it goes through
(`Flattened`), and the pieces of a value make its text (`UptoAll`). The invariant is
then short (`Written`): what has been written is, for each call on the stack, what
was there when it was called and the pieces it has behind it; a call that returns
leaves all of its value's text behind what its caller had. (`encode` has the array
first among its cases because tlapm 1.4.5 misses that a function is recursive when
the first case of its CASE is not.)

What is assumed beyond the modules' own assumptions, each as a named hypothesis of
the theorems that use it:

* `Portable` (the port) has three parts. The records fit: policy, capabilities,
  invoices, threads and claimed labels have the fields of Rust's structs and no
  further ones, which a struct would drop. The texts and identifiers offered are texts:
  none of them is the value that stands for a wrong type. And the port measures every
  nonce and every body as the engine does (`TextLen(x) = StrLen(x)`). The last is a
  real restriction: `len()` of Rust counts bytes, so what is proved of the port's
  decisions, certificates and host is proved for texts of which the two measures agree,
  such as ASCII. What happens to others is the finding `port_lengths`. TLC evaluates
  `Portable` of both instances (`HoldsInStructs`).
* `NoneIsNone`, `MalformedIsApart` (the port): the value that stands for "no error"
  is no error code, the one that stands for a wrong type is no digest or proposal.
  TLC's model values are so by themselves.
* `NoncesOffered` (the store): the environment of `Engine` offers every nonce in
  every state, as the callers of the store may use theirs at any time. `Offered`
  exists to spare TLC nonces that are alike; MCCommitStore does not use it.
* `MeasuredAlike` (`PortsAgreeWhereMeasuredAlike` and `KeyOrderMattersToPosts` only),
  as above, and `NoneIsNoDenial`: the value for "no denial" is no denial.
* `LengthsAssumption`, `ConfigAssumption`, `ConfigsAssumption`, `CallersAssumption`
  and, of the encoding, `ValuesAssumption`, `TagsAssumption`, `DecimalAssumption`,
  `HexAssumption`, `KeysAssumption` and `DepthAssumption` (integers and control
  characters have digits of their own, a map is gone through key by key, and values
  are finite trees) are `ASSUME`s of their modules
  and evaluated on every run.

All proofs but those of the encoding rest on digests being injective by definition;
those of the encoding show that nothing is lost before SHA-256. `QuotasHold` uses of
`Config` that its limits are naturals, which `config.validate` checks.

Only model-checked: the three expected violations, which are single behaviours, and
liveness (`EveryCallReturns`, `RetriesSettle`), since fairness and ENABLED are beyond
the prover.

## 5. The plan

What is left, in order:

1. **Config**: what `config.validate` accepts and the kernel cannot evaluate or
   can never admit (`policy_version` is not compared with `policy.version`).
2. **Parser**: which records parse, over all shapes with a field missing, added
   or malformed, nested labels included, with the code of the first error.
3. Certificates and executors of the Python and JavaScript ports.

## 6. Not modelled

* SHA-256 and HMAC themselves; `certificate_mac` (the v2 mac), `hmac_sha256` and
  `sha256_text` of the Rust port, which nothing in it calls.
* The certificates and the executors of the Python and JavaScript ports; identifiers
  that name a member of JavaScript's `Object.prototype`.
* Runtime errors of FARD as steps: what would raise one is modelled (`Evaluation`)
  and never happens (`NoCallRaises`, `CallsNeverRaise`) with a configuration whose
  entries are complete. With one that `config.validate` accepts and the kernel cannot
  evaluate, such as a channel entry without a label, a call may still stop inside
  `commit` and keep the mutex (`commit_store.fard:48`).
* The integer and boolean field readers of `canonical.fard`, used by no module.
* The reference configuration and the example program, a straight line of calls;
  the tests, read as a source of claims.
* Adapters that would send the recorded effects are not part of the repository,
  and neither is persistence: nothing survives a crash, so there is no recovery.
