-------------------------- MODULE EngineFlowProofs --------------------------
(***************************************************************************)
(* Where data may go: what the flow relation does when flows are composed, *)
(* and NoLeak and CustomerIsolation, for every configuration and every set *)
(* of inputs.  The inductive invariant says of every stored draft what     *)
(* create_draft established of it, and of every effect what its delivery   *)
(* established of the draft it carries; the two compose because the        *)
(* content of a draft never changes.  At the end, that the engine          *)
(* implements the authority (ImplementsAuthority).                         *)
(***************************************************************************)
EXTENDS EngineAuthority, EngineLedgerProofs

-----------------------------------------------------------------------------
(***************************************************************************)
(* Labels.  The flow relation is a preorder on valid labels, and the join  *)
(* of two labels, where it exists, is their least upper bound: for labels  *)
(* of any owner, with any compartments and any further fields.             *)
(***************************************************************************)

Kinds == {"public", "internal", "customer", "secret"}

\* The ranks of the four kinds.
LEMMA RankOfKinds ==
  /\ Rank("public") = 0
  /\ Rank("internal") = 1
  /\ Rank("customer") = 2
  /\ Rank("secret") = 3
  /\ \A kind : kind \notin Kinds => Rank(kind) = 100
  BY DEF Rank, Kinds

\* A valid label has one of the four kinds.
LEMMA ValidKind == ASSUME NEW a, Valid(a) PROVE a.kind \in Kinds
  BY RankOfKinds DEF Valid

\* What is at least internal is anything but public.
LEMMA AtLeastInternal ==
  ASSUME NEW kind \in Kinds
  PROVE  Rank(kind) >= 1 <=> kind # "public"
  BY RankOfKinds DEF Kinds

\* The flow relation with the ranks read off.
LEMMA FlowCases ==
  ASSUME NEW a, NEW b
  PROVE  FlowsTo(a, b) <=>
           /\ Valid(a)
           /\ Valid(b)
           /\ \/ a.kind = "public"
              \/ a.kind = "internal" /\ b.kind # "public"
              \/ a.kind \in {"customer", "secret"} /\ SameDomain(a, b)
  BY ValidKind, AtLeastInternal DEF FlowsTo

\* Containing all compartments is transitive,
LEMMA ContainsTransitive ==
  ASSUME NEW x, NEW y, NEW z, ContainsAll(y, x), ContainsAll(z, y)
  PROVE  ContainsAll(z, x)
  BY DEF ContainsAll

\* and so is being of the same domain.
LEMMA SameDomainTransitive ==
  ASSUME NEW a, NEW b, NEW c, SameDomain(a, b), SameDomain(b, c)
  PROVE  SameDomain(a, c)
  BY ContainsTransitive DEF SameDomain

\* Every valid label flows to itself.
THEOREM FlowsReflexive == ASSUME NEW a, Valid(a) PROVE FlowsTo(a, a)
<1>1. SameDomain(a, a)
  BY DEF SameDomain, ContainsAll
<1> QED
  BY <1>1, ValidKind, FlowCases DEF Kinds

\* Flows compose: what may flow from a to b and from b to c may flow from a to
\* c, so two checks at two places are worth one from end to end.
THEOREM FlowsTransitive ==
  ASSUME NEW a, NEW b, NEW c, FlowsTo(a, b), FlowsTo(b, c)
  PROVE  FlowsTo(a, c)
<1>1. Valid(a) /\ Valid(b) /\ Valid(c)
  BY DEF FlowsTo
<1>2. CASE a.kind = "public"
  BY <1>1, <1>2, FlowCases
<1>3. CASE a.kind = "internal"
  <2>1. b.kind # "public"
    BY <1>3, FlowCases
  <2>2. c.kind # "public"
    BY <2>1, FlowCases DEF SameDomain
  <2> QED
    BY <1>1, <1>3, <2>2, FlowCases
<1>4. CASE a.kind \in {"customer", "secret"}
  <2>1. SameDomain(a, b)
    BY <1>4, FlowCases
  <2>2. b.kind \in {"customer", "secret"}
    BY <1>4, <2>1 DEF SameDomain
  <2>3. SameDomain(b, c)
    BY <2>2, FlowCases
  <2>4. SameDomain(a, c)
    BY <2>1, <2>3, SameDomainTransitive
  <2> QED
    BY <1>1, <1>4, <2>4, FlowCases
<1> QED
  BY <1>1, <1>2, <1>3, <1>4, ValidKind DEF Kinds

\* Nothing of a customer reaches a label of another owner, or a public or
\* internal one, through any chain of flows.
THEOREM CustomersSeparated ==
  ASSUME NEW a, NEW b, FlowsTo(a, b), a.kind = "customer"
  PROVE  b.kind = "customer" /\ b.owner = a.owner
  BY FlowCases DEF SameDomain

\* The join of two labels is an upper bound and the least one.
THEOREM JoinIsLeast ==
  ASSUME NEW a, NEW b, Joinable(a, b)
  PROVE  /\ FlowsTo(a, Join(a, b))
         /\ FlowsTo(b, Join(a, b))
         /\ \A c : FlowsTo(a, c) /\ FlowsTo(b, c) => FlowsTo(Join(a, b), c)
<1>1. Valid(a) /\ Valid(b)
  BY DEF Joinable, FlowsTo
<1> QED
  BY <1>1, FlowsReflexive DEF Joinable, Join

-----------------------------------------------------------------------------
(***************************************************************************)
(* What a call establishes of the draft it writes or delivers.             *)
(***************************************************************************)

InvoiceOf(c) == Config.invoices[c.invoice_id]

\* What create_draft establishes of the content of a draft.
LawfulWriting(c) ==
  /\ FlowsTo(InvoiceOf(c).label, c.body_label)
  /\ InvoiceOf(c).customer_id = c.customer_id
  /\ Config.threads[c.thread_id].customer_id = c.customer_id

\* What submit_draft establishes of a mail and the content it carries.
LawfulMail(e, c) ==
  /\ FlowsTo(c.body_label, e.recipient_label)
  /\ e.thread_id = c.thread_id
  /\ RecipientAllowed(Config.policy, c.customer_id, e.recipient)
  /\ e.recipient_label.owner = c.customer_id

\* What post_to_slack establishes of a post and the content it carries.
LawfulPost(e, c) ==
  FlowsTo(c.body_label, Config.policy.approved_slack_channels[e.channel_id].label)

DraftsLawful ==
  \A h \in DOMAIN state.drafts : LawfulWriting(Content(state.drafts[h]))

MailsLawful ==
  \A e \in Elements(state.submissions) :
    /\ e.draft_hash \in DOMAIN state.drafts
    /\ LawfulMail(e, Content(state.drafts[e.draft_hash]))

PostsLawful ==
  \A e \in Elements(state.slack_posts) :
    /\ e.draft_hash \in DOMAIN state.drafts
    /\ LawfulPost(e, Content(state.drafts[e.draft_hash]))

FlowInv == DraftsLawful /\ MailsLawful /\ PostsLawful

-----------------------------------------------------------------------------

\* The elements of a sequence after one is appended.
LEMMA ElementsOfAppend ==
  ASSUME NEW s, s \in Seq(Elements(s)), NEW x
  PROVE  Elements(Append(s, x)) = Elements(s) \cup {x}
<1> DEFINE t == Append(s, x)
<1>1. s \in Seq(Elements(s) \cup {x})
  <2>1. \A i \in 1..Len(s) : s[i] \in Elements(s)
    BY DEF Elements
  <2> QED
    BY <2>1
<1>2. /\ DOMAIN s = 1..Len(s)
      /\ DOMAIN t = 1..(Len(s) + 1)
      /\ \A i \in 1..Len(s) : t[i] = s[i]
      /\ t[Len(s) + 1] = x
  BY <1>1
<1>3. Len(s) \in Nat
  BY <1>1
<1>4. Elements(t) \subseteq Elements(s) \cup {x}
  BY <1>2, <1>3 DEF Elements
<1>5. Elements(s) \subseteq Elements(t) /\ x \in Elements(t)
  BY <1>2, <1>3 DEF Elements
<1> QED
  BY <1>4, <1>5

\* A step that keeps the list of mails keeps what is true of them; likewise
\* the posts and the drafts.
LEMMA KeptLawful ==
  ASSUME IInv, IInv', FlowInv, DOMAIN state.drafts \subseteq DOMAIN state'.drafts
  PROVE  /\ \A h \in DOMAIN state.drafts : LawfulWriting(Content(state'.drafts[h]))
         /\ \A e \in Elements(state.submissions) :
              /\ e.draft_hash \in DOMAIN state'.drafts
              /\ LawfulMail(e, Content(state'.drafts[e.draft_hash]))
         /\ \A e \in Elements(state.slack_posts) :
              /\ e.draft_hash \in DOMAIN state'.drafts
              /\ LawfulPost(e, Content(state'.drafts[e.draft_hash]))
  BY ContentKept DEF FlowInv, DraftsLawful, MailsLawful, PostsLawful

\* A committed read_invoice keeps every draft and effect lawful.
LEMMA ReadKeepsFlow ==
  ASSUME IInv, IInv', FlowInv,
         NEW actor \in ActorIds, NEW h \in Admitted("read_invoice", actor),
         ReadInvoice(actor, h)
  PROVE  FlowInv'
<1>1. PICK p \in ReadProposals(h) : Commit(p, actor)
  BY DEF ReadInvoice
<1>2. p.t = "read_invoice" /\ DOMAIN state = StateFields
  BY DEF ReadProposals, Admitted, Headers, IInv, TypeOK
<1>3. /\ state'.drafts = state.drafts
      /\ state'.submissions = state.submissions
      /\ state'.slack_posts = state.slack_posts
  BY <1>1, <1>2, ReadEffect DEF StateFields
<1> QED
  BY <1>3 DEF FlowInv, DraftsLawful, MailsLawful, PostsLawful

\* A committed create_draft keeps every draft and effect lawful.
LEMMA CreateKeepsFlow ==
  ASSUME IInv, IInv', FlowInv,
         NEW actor \in ActorIds, NEW h \in Admitted("create_draft", actor),
         CreateDraft(actor, h)
  PROVE  FlowInv'
<1>1. PICK p \in CreateProposals(h) : Commit(p, actor)
  BY DEF CreateDraft
<1> DEFINE d == NewDraft(p, actor)
<1>2. p.t = "create_draft" /\ DOMAIN state = StateFields
  BY DEF CreateProposals, Admitted, Headers, IInv, TypeOK
<1>3. /\ VerifyCreateDraft(state, p, Config.policy)
      /\ state'.drafts = RecSet(state.drafts, d.draft_hash, d)
  BY <1>1, <1>2, CreateEffect
<1>4. /\ state'.submissions = state.submissions
      /\ state'.slack_posts = state.slack_posts
  BY <1>1, <1>2, CreateEffect DEF StateFields
<1>5. /\ DOMAIN state'.drafts = DOMAIN state.drafts \cup {d.draft_hash}
      /\ state'.drafts[d.draft_hash] = d
  BY <1>3 DEF RecSet
<1>6. LawfulWriting(Content(d))
  BY <1>3 DEF VerifyCreateDraft, IInv, TypeOK, LawfulWriting, InvoiceOf,
              Content, NewDraft, DraftContent
<1>7. DraftsLawful'
  BY <1>5, <1>6, KeptLawful DEF DraftsLawful
<1>8. MailsLawful' /\ PostsLawful'
  BY <1>4, <1>5, KeptLawful DEF MailsLawful, PostsLawful
<1> QED
  BY <1>7, <1>8 DEF FlowInv

\* A committed approve_draft keeps every draft and effect lawful.
LEMMA ApproveKeepsFlow ==
  ASSUME IInv, IInv', FlowInv,
         NEW actor \in ActorIds, NEW h \in Admitted("approve_draft", actor),
         ApproveDraft(actor, h)
  PROVE  FlowInv'
<1>1. PICK p \in ApproveProposals(h, state) : Commit(p, actor)
  BY DEF ApproveDraft
<1>2. p.t = "approve_draft" /\ DOMAIN state = StateFields
  BY DEF ApproveProposals, Admitted, Headers, IInv, TypeOK
<1>3. /\ state'.drafts = state.drafts
      /\ state'.submissions = state.submissions
      /\ state'.slack_posts = state.slack_posts
  BY <1>1, <1>2, ApproveEffect DEF StateFields
<1> QED
  BY <1>3 DEF FlowInv, DraftsLawful, MailsLawful, PostsLawful

\* A committed submit_draft keeps every draft and effect lawful.
LEMMA SubmitKeepsFlow ==
  ASSUME IInv, IInv', FlowInv,
         NEW actor \in ActorIds, NEW h \in Admitted("submit_draft", actor),
         SubmitDraft(actor, h)
  PROVE  FlowInv'
<1>1. PICK p \in SubmitProposals(h, state) : Commit(p, actor)
  BY DEF SubmitDraft
<1> DEFINE g == p.draft_hash
           e == EmailEffect(state, p)
<1>2. p.t = "submit_draft" /\ DOMAIN state = StateFields
  BY DEF SubmitProposals, Admitted, Headers, IInv, TypeOK
<1>3. /\ VerifySubmitDraft(state, p, Config.policy)
      /\ state'.drafts = RecSet(state.drafts, g, Submitted(state.drafts[g], p.recipient))
      /\ state'.submissions = Append(state.submissions, e)
  BY <1>1, <1>2, SubmitEffect
<1>4. state'.slack_posts = state.slack_posts
  BY <1>1, <1>2, SubmitEffect DEF StateFields
<1>5. g \in DOMAIN state.drafts
  BY <1>3 DEF VerifySubmitDraft, HasDraft
<1>6. DOMAIN state'.drafts = DOMAIN state.drafts
  BY <1>3, <1>5 DEF RecSet
<1>7. Content(state'.drafts[g]) = Content(state.drafts[g])
  BY <1>5, <1>6, ContentKept
<1>8. e.draft_hash = g /\ LawfulMail(e, Content(state.drafts[g]))
  BY <1>3 DEF VerifySubmitDraft, LawfulMail, EmailEffect, Content
<1>9. DraftsLawful' /\ PostsLawful'
  BY <1>4, <1>6, KeptLawful DEF DraftsLawful, PostsLawful
<1>10. MailsLawful'
  <2>1. Elements(state'.submissions) = Elements(state.submissions) \cup {e}
    BY <1>3, ElementsOfAppend DEF IInv, TypeOK
  <2> HIDE DEF e, g
  <2>2. /\ e.draft_hash \in DOMAIN state'.drafts
        /\ LawfulMail(e, Content(state'.drafts[e.draft_hash]))
    BY <1>5, <1>6, <1>7, <1>8
  <2>3. \A x \in Elements(state.submissions) :
          /\ x.draft_hash \in DOMAIN state'.drafts
          /\ LawfulMail(x, Content(state'.drafts[x.draft_hash]))
    BY <1>6, KeptLawful
  <2> QED
    BY <2>1, <2>2, <2>3 DEF MailsLawful
<1> QED
  BY <1>9, <1>10 DEF FlowInv

\* A committed post_to_slack keeps every draft and effect lawful.
LEMMA PostKeepsFlow ==
  ASSUME IInv, IInv', FlowInv,
         NEW actor \in ActorIds, NEW h \in Admitted("post_to_slack", actor),
         PostToSlack(actor, h)
  PROVE  FlowInv'
<1>1. PICK p \in PostProposals(h, state) : Commit(p, actor)
  BY DEF PostToSlack
<1> DEFINE g == p.draft_hash
           e == SlackEffect(state, p)
<1>2. p.t = "post_to_slack" /\ DOMAIN state = StateFields
  BY DEF PostProposals, Admitted, Headers, IInv, TypeOK
<1>3. /\ VerifyPostToSlack(state, p, Config.policy)
      /\ state'.drafts = RecSet(state.drafts, g, Posted(state.drafts[g], p.channel_id))
      /\ state'.slack_posts = Append(state.slack_posts, e)
  BY <1>1, <1>2, PostEffect
<1>4. state'.submissions = state.submissions
  BY <1>1, <1>2, PostEffect DEF StateFields
<1>5. g \in DOMAIN state.drafts
  BY <1>3 DEF VerifyPostToSlack, HasDraft
<1>6. DOMAIN state'.drafts = DOMAIN state.drafts
  BY <1>3, <1>5 DEF RecSet
<1>7. Content(state'.drafts[g]) = Content(state.drafts[g])
  BY <1>5, <1>6, ContentKept
<1>8. e.draft_hash = g /\ LawfulPost(e, Content(state.drafts[g]))
  BY <1>3 DEF VerifyPostToSlack, LawfulPost, SlackEffect, Content
<1>9. DraftsLawful' /\ MailsLawful'
  BY <1>4, <1>6, KeptLawful DEF DraftsLawful, MailsLawful
<1>10. PostsLawful'
  <2>1. Elements(state'.slack_posts) = Elements(state.slack_posts) \cup {e}
    BY <1>3, ElementsOfAppend DEF IInv, TypeOK
  <2> HIDE DEF e, g
  <2>2. /\ e.draft_hash \in DOMAIN state'.drafts
        /\ LawfulPost(e, Content(state'.drafts[e.draft_hash]))
    BY <1>5, <1>6, <1>7, <1>8
  <2>3. \A x \in Elements(state.slack_posts) :
          /\ x.draft_hash \in DOMAIN state'.drafts
          /\ LawfulPost(x, Content(state'.drafts[x.draft_hash]))
    BY <1>6, KeptLawful
  <2> QED
    BY <2>1, <2>2, <2>3 DEF PostsLawful
<1> QED
  BY <1>9, <1>10 DEF FlowInv

\* Stored drafts, mails and posts were lawful when they were made and stay so.
THEOREM SpecFlowInv == Spec => []FlowInv
<1>1. Init => FlowInv
  BY DEF Init, Initial, EmptyRec, Elements, FlowInv, DraftsLawful, MailsLawful,
         PostsLawful
<1>2. ASSUME IInv, IInv', FlowInv, [Next]_vars
      PROVE  FlowInv'
  <2>1. CASE UNCHANGED vars
    BY <1>2, <2>1 DEF vars, FlowInv, DraftsLawful, MailsLawful, PostsLawful
  <2>2. CASE Next
    BY <1>2, <2>2, ReadKeepsFlow, CreateKeepsFlow, ApproveKeepsFlow,
       SubmitKeepsFlow, PostKeepsFlow DEF Next
  <2> QED
    BY <1>2, <2>1, <2>2
<1> QED
  BY <1>1, <1>2, SpecIInv, PTL DEF Spec

\* Invoice data reaches only sinks its own label flows to: the check of
\* create_draft and the check of the delivery compose (FlowsTransitive).
THEOREM NothingLeaks == Spec => []NoLeak
<1>1. IInv /\ FlowInv => NoLeak
  BY FlowsTransitive DEF IInv, TypeOK, FlowInv, DraftsLawful, MailsLawful,
     PostsLawful, LawfulWriting, LawfulMail, LawfulPost, InvoiceOf, Content, NoLeak
<1> QED
  BY <1>1, SpecIInv, SpecFlowInv, PTL

\* A mail goes to an approved recipient of the one customer who owns its
\* thread and its invoice, under a label of that customer.
THEOREM CustomersIsolated == Spec => []CustomerIsolation
<1>1. IInv /\ FlowInv => CustomerIsolation
  BY DEF IInv, TypeOK, FlowInv, DraftsLawful, MailsLawful, LawfulWriting,
     LawfulMail, InvoiceOf, Content, CustomerIsolation
<1> QED
  BY <1>1, SpecIInv, SpecFlowInv, PTL

-----------------------------------------------------------------------------
(***************************************************************************)
(* The engine implements the authority.                                    *)
(***************************************************************************)

\* A hash of a draft names one content, and a content has one hash.
LEMMA Naming ==
  /\ \A c : ContentOf(DraftHash(c)) = c
  /\ \A h \in DraftHashes : DraftHash(ContentOf(h)) = h
<1>1. \A c : ContentOf(DraftHash(c)) = c
  BY DEF ContentOf, DraftHash, TaggedDigest
<1> QED
  BY <1>1 DEF DraftHashes

\* The texts that some draft hashes name.
TextsOf(hashes) == {ContentOf(h) : h \in hashes}

\* The texts of some draft hashes are those whose hash is among them.
LEMMA TextsAreHashed ==
  ASSUME NEW D, D \subseteq DraftHashes, NEW c
  PROVE  c \in TextsOf(D) <=> DraftHash(c) \in D
  BY Naming DEF TextsOf

\* The abstract variables, as the refinement mapping reads them off the state.
Unmailed == TextsOf({g \in DOMAIN state.drafts : ~state.drafts[g].deliveries.email.submitted})
Approver == [c \in TextsOf(DOMAIN state.approvals) |-> state.approvals[DraftHash(c)].approver_id]
RoomsOf  == [c \in TextsOf(DOMAIN state.drafts) |-> state.drafts[DraftHash(c)].deliveries.slack]
Mailed   == [i \in DOMAIN state.submissions |->
               <<ContentOf(state.submissions[i].draft_hash), state.submissions[i].recipient>>]
PostedTo == [i \in DOMAIN state.slack_posts |->
               <<ContentOf(state.slack_posts[i].draft_hash), state.slack_posts[i].channel_id>>]

\* The abstract variables as a whole.
AbstractState ==
  <<state.counters.drafted_total, TextsOf(DOMAIN state.drafts), Approver, Unmailed, RoomsOf,
    Mailed, PostedTo>>

\* The initial state is an initial state of the authority.
LEMMA InitImplements == Init => Abstract!Init
<1> SUFFICES ASSUME Init PROVE Abstract!Init
  OBVIOUS
<1>1. /\ state.counters.drafted_total = 0
      /\ DOMAIN state.drafts = {}
      /\ DOMAIN state.approvals = {}
      /\ state.submissions = <<>>
      /\ state.slack_posts = <<>>
  BY DEF Init, Initial, EmptyRec
<1> QED
  BY <1>1 DEF Abstract!Init

\* What leaves the mapped values alone is a stutter of the authority.
LEMMA Same == AbstractState' = AbstractState => UNCHANGED Abstract!vars
  BY DEF AbstractState, Abstract!vars, Unmailed, Approver, RoomsOf, Mailed, PostedTo, TextsOf

\* A committed read_invoice changes nothing the authority knows of.
LEMMA ReadStutters ==
  ASSUME IInv, NEW actor \in ActorIds, NEW h \in Admitted("read_invoice", actor),
         ReadInvoice(actor, h)
  PROVE  UNCHANGED Abstract!vars
<1>1. PICK p \in ReadProposals(h) : Commit(p, actor)
  BY DEF ReadInvoice
<1>2. p.t = "read_invoice"
  BY DEF ReadProposals, Admitted, Headers
<1>3. \A f \in {"counters", "drafts", "approvals", "submissions", "slack_posts"} :
        state'[f] = state[f]
  BY <1>1, <1>2, ReadEffect DEF IInv, TypeOK, StateFields
<1>4. /\ state'.counters = state.counters
      /\ state'.drafts = state.drafts
      /\ state'.approvals = state.approvals
      /\ state'.submissions = state.submissions
      /\ state'.slack_posts = state.slack_posts
  BY <1>3
<1>5. AbstractState' = AbstractState
  BY <1>4 DEF AbstractState, Unmailed, Approver, RoomsOf, Mailed, PostedTo
<1> QED
  BY <1>5, Same

\* A committed create_draft writes the text.
LEMMA CreateWrites ==
  ASSUME IInv, NEW actor \in ActorIds, NEW h \in Admitted("create_draft", actor),
         CreateDraft(actor, h)
  PROVE  \E x \in Contents : Abstract!Write(x)
<1>1. PICK p \in CreateProposals(h) : Commit(p, actor)
  BY DEF CreateDraft
<1> DEFINE d == NewDraft(p, actor)
           x == DraftContent(p, actor)
           g == DraftHash(x)
<1>2. p.t = "create_draft" /\ DOMAIN state = StateFields
  BY DEF CreateProposals, Admitted, Headers, IInv, TypeOK
<1>3. /\ CommonChecks(state, p, actor, Config.capabilities, Config.policy)
      /\ VerifyCreateDraft(state, p, Config.policy)
      /\ state'.counters = Count(state.counters, "drafted_total")
      /\ state'.drafts = RecSet(state.drafts, d.draft_hash, d)
  BY <1>1, <1>2, CreateEffect
<1>4. /\ state'.submissions = state.submissions
      /\ state'.slack_posts = state.slack_posts
      /\ state'.approvals = state.approvals
  BY <1>1, <1>2, CreateEffect DEF StateFields
<1>5. /\ x \in Contents
      /\ x.invoice_id = p.invoice_id /\ x.thread_id = p.thread_id
      /\ x.customer_id = p.customer_id /\ x.body = p.body
      /\ x.body_label = p.body_label /\ x.created_by = actor
      /\ p.body \in Bodies
  BY DEF CreateProposals, DraftContent, Contents
<1>6. /\ d.draft_hash = g
      /\ ~d.deliveries.email.submitted
      /\ d.deliveries.slack = {}
  BY DEF NewDraft, NoDeliveries
<1>7. g \in DraftHashes /\ ContentOf(g) = x
  BY <1>5, Naming DEF DraftHashes
<1> HIDE DEF d, x, g
<1>8. LawfulContent(x)
  <2>1. StrLen(x.body) \in 1..Config.policy.max_draft_chars
    BY <1>3, <1>5, LengthsAssumption, ConfigAssumption DEF VerifyCreateDraft, ConfigValid
  <2>2. state.invoices = Config.invoices /\ state.threads = Config.threads
    BY DEF IInv, TypeOK
  <2> QED
    BY <1>2, <1>3, <1>5, <2>1, <2>2
       DEF LawfulContent, VerifyCreateDraft, CommonChecks, HasInvoice, HasThread
<1>9. /\ state.counters.drafted_total < Config.policy.max_total_drafts
      /\ state'.counters.drafted_total = state.counters.drafted_total + 1
  BY <1>3, CountType DEF VerifyCreateDraft, IInv, TypeOK, Counters
<1>10. /\ DOMAIN state.drafts \subseteq DraftHashes
       /\ DOMAIN state'.drafts = DOMAIN state.drafts \cup {g}
       /\ state'.drafts[g] = d
       /\ \A k \in DOMAIN state.drafts \ {g} : state'.drafts[k] = state.drafts[k]
  BY <1>3, <1>6 DEF RecSet, IInv, TypeOK
<1>11. TextsOf(DOMAIN state'.drafts) = TextsOf(DOMAIN state.drafts) \cup {x}
  BY <1>7, <1>10 DEF TextsOf
<1>12. Unmailed' = Unmailed \cup {x}
  <2> DEFINE D == {k \in DOMAIN state.drafts : ~state.drafts[k].deliveries.email.submitted}
             E == {k \in DOMAIN state'.drafts : ~state'.drafts[k].deliveries.email.submitted}
  <2>1. E = D \cup {g}
    BY <1>6, <1>10
  <2>2. Unmailed = TextsOf(D) /\ Unmailed' = TextsOf(E)
    BY DEF Unmailed, TextsOf
  <2> HIDE DEF D, E
  <2> QED
    BY <1>7, <2>1, <2>2 DEF TextsOf
<1>13. RoomsOf' = [y \in TextsOf(DOMAIN state.drafts) \cup {x} |->
                     IF y = x THEN {} ELSE RoomsOf[y]]
  <2>1. ASSUME NEW y \in TextsOf(DOMAIN state.drafts) \cup {x}
        PROVE  state'.drafts[DraftHash(y)].deliveries.slack
                 = IF y = x THEN {} ELSE RoomsOf[y]
    <3>1. CASE y = x
      BY <1>6, <1>10, <3>1 DEF g
    <3>2. CASE y # x
      <4>1. y \in TextsOf(DOMAIN state.drafts)
        BY <3>2
      <4>2. DraftHash(y) \in DOMAIN state.drafts
        BY <1>10, <4>1, TextsAreHashed
      <4>3. DraftHash(y) # g
        BY <3>2, Naming DEF g
      <4> QED
        BY <1>10, <3>2, <4>1, <4>2, <4>3 DEF RoomsOf
    <3> QED
      BY <3>1, <3>2
  <2>2. RoomsOf' = [y \in TextsOf(DOMAIN state'.drafts) |->
                      state'.drafts[DraftHash(y)].deliveries.slack]
    BY DEF RoomsOf, TextsOf
  <2> QED
    BY <1>11, <2>1, <2>2
<1>14. Approver' = Approver /\ Mailed' = Mailed /\ PostedTo' = PostedTo
  BY <1>4 DEF Approver, Mailed, PostedTo, TextsOf
<1>15. Abstract!Write(x)
  BY <1>8, <1>9, <1>11, <1>12, <1>13, <1>14
     DEF Abstract!Write, Unmailed, RoomsOf, Approver, Mailed, PostedTo, TextsOf
<1> QED
  BY <1>5, <1>15

\* A stored draft's text is its content, of its hash.
LEMMA TextOfDraft ==
  ASSUME IInv, NEW g \in DOMAIN state.drafts
  PROVE  /\ g \in DraftHashes
         /\ ContentOf(g) = Content(state.drafts[g])
         /\ DraftHash(ContentOf(g)) = g
         /\ ContentOf(g) \in Contents
<1>1. g \in DraftHashes /\ g = DraftHash(Content(state.drafts[g]))
  BY DEF IInv, TypeOK, ContentAddressed
<1> QED
  BY <1>1, Naming DEF DraftHashes

\* A committed approve_draft approves the text, by someone entitled to.
LEMMA ApproveApproves ==
  ASSUME IInv, NEW actor \in ActorIds, NEW h \in Admitted("approve_draft", actor),
         ApproveDraft(actor, h)
  PROVE  \E x \in Contents : Abstract!Approve(x, actor)
<1>1. PICK p \in ApproveProposals(h, state) : Commit(p, actor)
  BY DEF ApproveDraft
<1> DEFINE g == p.draft_hash
           x == ContentOf(g)
           ap == Approval(state, p, actor)
<1>2. p.t = "approve_draft" /\ DOMAIN state = StateFields
  BY DEF ApproveProposals, Admitted, Headers, IInv, TypeOK
<1>3. /\ CommonChecks(state, p, actor, Config.capabilities, Config.policy)
      /\ VerifyApproveDraft(state, p, actor, Config.capabilities, Config.policy)
      /\ state'.counters = Count(state.counters, "approved_total")
      /\ state'.approvals = RecSet(state.approvals, g, ap)
  BY <1>1, <1>2, ApproveEffect
<1>4. /\ state'.submissions = state.submissions
      /\ state'.slack_posts = state.slack_posts
      /\ state'.drafts = state.drafts
  BY <1>1, <1>2, ApproveEffect DEF StateFields
<1>5. /\ g \in DOMAIN state.drafts \ DOMAIN state.approvals
      /\ g \in DraftHashes /\ x \in Contents
      /\ x = Content(state.drafts[g])
      /\ DraftHash(x) = g
  BY <1>3, TextOfDraft DEF VerifyApproveDraft, HasDraft, HasApproval
<1>6. ap.approver_id = actor
  BY DEF Approval
<1> HIDE DEF x, g, ap
<1>7. EntitledTo(x, actor)
  <2>1. x.created_by = state.drafts[g].created_by
    BY <1>5 DEF Content
  <2> QED
    BY <1>2, <1>3, <2>1 DEF EntitledTo, VerifyApproveDraft, CommonChecks, g
<1>8. state'.counters.drafted_total = state.counters.drafted_total
  <2>1. state.counters \in [Counters -> Nat]
    BY DEF IInv, TypeOK
  <2> QED
    BY <1>3, <2>1 DEF Count, Counters
<1>9. /\ DOMAIN state.drafts \subseteq DraftHashes
      /\ DOMAIN state.approvals \subseteq DraftHashes
      /\ DOMAIN state'.approvals = DOMAIN state.approvals \cup {g}
      /\ state'.approvals[g] = ap
      /\ \A k \in DOMAIN state.approvals \ {g} : state'.approvals[k] = state.approvals[k]
  <2>1. /\ DOMAIN state.drafts \subseteq DraftHashes
        /\ DOMAIN state.approvals \subseteq DraftHashes
    BY DEF IInv, TypeOK
  <2> QED
    BY <1>3, <2>1 DEF RecSet
<1>10. x \in TextsOf(DOMAIN state.drafts) \ TextsOf(DOMAIN state.approvals)
  BY <1>5, <1>9, TextsAreHashed
<1>11. TextsOf(DOMAIN state'.approvals) = TextsOf(DOMAIN state.approvals) \cup {x}
  BY <1>9 DEF TextsOf, x
<1>12. Approver' = [y \in TextsOf(DOMAIN state.approvals) \cup {x} |->
                      IF y = x THEN actor ELSE Approver[y]]
  <2>1. ASSUME NEW y \in TextsOf(DOMAIN state.approvals) \cup {x}
        PROVE  state'.approvals[DraftHash(y)].approver_id
                 = IF y = x THEN actor ELSE Approver[y]
    <3>1. CASE y = x
      BY <1>5, <1>6, <1>9, <3>1
    <3>2. CASE y # x
      <4>1. y \in TextsOf(DOMAIN state.approvals)
        BY <3>2
      <4>2. DraftHash(y) \in DOMAIN state.approvals
        BY <1>9, <4>1, TextsAreHashed
      <4>3. DraftHash(y) # g
        BY <3>2, Naming DEF x
      <4> QED
        BY <1>9, <3>2, <4>1, <4>2, <4>3 DEF Approver
    <3> QED
      BY <3>1, <3>2
  <2>2. Approver' = [y \in TextsOf(DOMAIN state'.approvals) |->
                       state'.approvals[DraftHash(y)].approver_id]
    BY DEF Approver, TextsOf
  <2> QED
    BY <1>11, <2>1, <2>2
<1>13. DOMAIN Approver = TextsOf(DOMAIN state.approvals)
  BY DEF Approver
<1>14. Unmailed' = Unmailed /\ RoomsOf' = RoomsOf /\ Mailed' = Mailed /\ PostedTo' = PostedTo
  BY <1>4 DEF Unmailed, RoomsOf, Mailed, PostedTo, TextsOf
<1>15. Abstract!Approve(x, actor)
  BY <1>4, <1>7, <1>8, <1>10, <1>12, <1>13, <1>14
     DEF Abstract!Approve, Unmailed, RoomsOf, Approver, Mailed, PostedTo, TextsOf
<1> QED
  BY <1>5, <1>15

\* A sequence that has grown by one element.
LEMMA GrownByOne ==
  ASSUME NEW s, s \in Seq(Elements(s)), NEW e, NEW t, t = Append(s, e)
  PROVE  DOMAIN s \subseteq DOMAIN t /\ Len(t) \in DOMAIN t /\ t[Len(t)] = e
<1>1. s \in Seq(Elements(s) \cup {e})
  <2>1. \A i \in 1..Len(s) : s[i] \in Elements(s)
    BY DEF Elements
  <2> QED
    BY <2>1
<1> QED
  BY <1>1

\* The lists m and n are read off s and t alike, v being read off the last of t.
ReadOff(m, s, n, t, v) ==
  /\ m = [i \in DOMAIN s |-> m[i]]
  /\ n = [i \in DOMAIN t |-> n[i]]
  /\ n[Len(t)] = v
  /\ \A i \in DOMAIN s : s[i] = t[i] => n[i] = m[i]

\* One element is appended to s.
Grows(s, e, t) == s \in Seq(Elements(s)) /\ t = Append(s, e)

\* A list that is read off a list grows by one as that one does.
LEMMA MappedAppend ==
  ASSUME NEW s, NEW e, NEW t, Grows(s, e, t),
         NEW m, NEW n, NEW v, ReadOff(m, s, n, t, v)
  PROVE  /\ Len(m) = Len(s)
         /\ n = Append(m, v)
<1> USE DEF Grows
<1>1. /\ DOMAIN s = 1..Len(s) /\ Len(s) \in Nat
      /\ Len(t) = Len(s) + 1
      /\ DOMAIN t = 1..(Len(s) + 1)
      /\ \A i \in 1..Len(s) : t[i] = s[i]
  <2>1. s \in Seq(Elements(s) \cup {e})
    <3>1. \A i \in 1..Len(s) : s[i] \in Elements(s)
      BY DEF Elements
    <3> QED
      BY <3>1
  <2> QED
    BY <2>1
<1> DEFINE S == {m[i] : i \in DOMAIN s} \cup {v}
           a == Append(m, v)
<1>2. m \in Seq(S) /\ Len(m) = Len(s)
  <2>1. m = [i \in 1..Len(s) |-> m[i]] /\ \A i \in 1..Len(s) : m[i] \in S
    BY <1>1 DEF ReadOff
  <2> HIDE DEF S
  <2> QED
    BY <1>1, <2>1
<1> HIDE DEF S
<1>3. /\ DOMAIN a = 1..(Len(s) + 1)
      /\ a = [i \in DOMAIN a |-> a[i]]
      /\ \A i \in 1..Len(s) : a[i] = m[i]
      /\ a[Len(s) + 1] = v
  <2>1. v \in S
    BY DEF S
  <2>2. a \in Seq(S) /\ Len(a) = Len(s) + 1
    BY <1>2, <2>1
  <2>3. \A i \in 1..Len(s) : a[i] = m[i]
    BY <1>1, <1>2, <2>1
  <2>4. a[Len(s) + 1] = v
    BY <1>1, <1>2, <2>1
  <2> HIDE DEF a
  <2>5. DOMAIN a = 1..(Len(s) + 1)
    BY <2>2
  <2>6. a = [i \in DOMAIN a |-> a[i]]
    BY <2>2
  <2> QED
    BY <2>3, <2>4, <2>5, <2>6
<1> HIDE DEF a
<1>4. DOMAIN n = DOMAIN a
  BY <1>1, <1>3 DEF ReadOff
<1>5. ASSUME NEW i \in DOMAIN a PROVE n[i] = a[i]
  <2>1. CASE i \in 1..Len(s)
    BY <1>1, <1>3, <2>1 DEF ReadOff
  <2>2. CASE i = Len(s) + 1
    BY <1>1, <1>3, <2>2 DEF ReadOff
  <2> QED
    BY <1>1, <1>3, <2>1, <2>2
<1>6. DOMAIN t = DOMAIN a
  BY <1>1, <1>3
<1>7. n = a
  <2>1. [i \in DOMAIN t |-> n[i]] = [i \in DOMAIN a |-> a[i]]
    BY <1>4, <1>5, <1>6
  <2>2. n = [i \in DOMAIN t |-> n[i]]
    BY DEF ReadOff
  <2> QED
    BY <1>3, <2>1, <2>2, Zenon
<1> QED
  BY <1>2, <1>7 DEF a

\* A delivery leaves the texts and the other drafts as they were.
LEMMA DeliveryKeepsTexts ==
  ASSUME IInv, NEW g \in DOMAIN state.drafts, NEW d,
         state'.drafts = RecSet(state.drafts, g, d)
  PROVE  /\ DOMAIN state'.drafts = DOMAIN state.drafts
         /\ DOMAIN state.drafts \subseteq DraftHashes
         /\ state'.drafts[g] = d
         /\ \A k \in DOMAIN state.drafts \ {g} : state'.drafts[k] = state.drafts[k]
         /\ TextsOf(DOMAIN state'.drafts) = TextsOf(DOMAIN state.drafts)
<1>1. /\ DOMAIN state'.drafts = DOMAIN state.drafts
      /\ state'.drafts[g] = d
      /\ \A k \in DOMAIN state.drafts \ {g} : state'.drafts[k] = state.drafts[k]
  BY DEF RecSet
<1> QED
  BY <1>1 DEF IInv, TypeOK

\* A committed submit_draft mails the text.
LEMMA SubmitMails ==
  ASSUME IInv, Quotas, NEW actor \in ActorIds, NEW h \in Admitted("submit_draft", actor),
         SubmitDraft(actor, h)
  PROVE  \E x \in Contents, a \in Recipients : Abstract!Mail(x, a)
<1>1. PICK p \in SubmitProposals(h, state) : Commit(p, actor)
  BY DEF SubmitDraft
<1> DEFINE g == p.draft_hash
           x == ContentOf(g)
           d == Submitted(state.drafts[g], p.recipient)
           e == EmailEffect(state, p)
<1>2. p.t = "submit_draft" /\ DOMAIN state = StateFields /\ p.recipient \in Recipients
  BY DEF SubmitProposals, Admitted, Headers, IInv, TypeOK
<1>3. /\ VerifySubmitDraft(state, p, Config.policy)
      /\ state'.counters = Count(state.counters, "submitted_total")
      /\ state'.drafts = RecSet(state.drafts, g, d)
      /\ state'.submissions = Append(state.submissions, e)
  BY <1>1, <1>2, SubmitEffect
<1>4. state'.slack_posts = state.slack_posts /\ state'.approvals = state.approvals
  BY <1>1, <1>2, SubmitEffect DEF StateFields
<1>5. /\ g \in DOMAIN state.drafts \cap DOMAIN state.approvals
      /\ ~state.drafts[g].deliveries.email.submitted
      /\ RecipientAllowed(Config.policy, state.drafts[g].customer_id, p.recipient)
      /\ state.counters.submitted_total < Config.policy.max_total_submissions
  BY <1>3 DEF VerifySubmitDraft, HasDraft, HasApproval
<1>6. /\ x \in Contents
      /\ x = Content(state.drafts[g])
      /\ DraftHash(x) = g
  BY <1>5, TextOfDraft
<1>7. /\ d.deliveries.email.submitted
      /\ d.deliveries.slack = state.drafts[g].deliveries.slack
  <2>1. state.drafts[g] \in Drafts
    BY <1>5 DEF IInv, TypeOK
  <2> QED
    BY <2>1 DEF Submitted, Drafts
<1>8. e.draft_hash = g /\ e.recipient = p.recipient
  BY DEF EmailEffect
<1> HIDE DEF x, g, d, e
<1>9. AddressableTo(x, p.recipient)
  BY <1>5, <1>6 DEF AddressableTo, Content
<1>10. state'.counters.drafted_total = state.counters.drafted_total
  <2>1. state.counters \in [Counters -> Nat]
    BY DEF IInv, TypeOK
  <2> QED
    BY <1>3, <2>1 DEF Count, Counters
<1>11. /\ DOMAIN state'.drafts = DOMAIN state.drafts
       /\ DOMAIN state.drafts \subseteq DraftHashes
       /\ state'.drafts[g] = d
       /\ \A k \in DOMAIN state.drafts \ {g} : state'.drafts[k] = state.drafts[k]
       /\ TextsOf(DOMAIN state'.drafts) = TextsOf(DOMAIN state.drafts)
  BY <1>3, <1>5, DeliveryKeepsTexts
<1>12. x \in Unmailed /\ Unmailed' = Unmailed \ {x}
  <2> DEFINE D == {k \in DOMAIN state.drafts : ~state.drafts[k].deliveries.email.submitted}
             E == {k \in DOMAIN state'.drafts : ~state'.drafts[k].deliveries.email.submitted}
  <2>1. E = D \ {g} /\ g \in D /\ D \subseteq DraftHashes /\ E \subseteq DraftHashes
    BY <1>5, <1>7, <1>11
  <2>2. Unmailed = TextsOf(D) /\ Unmailed' = TextsOf(E)
    BY DEF Unmailed, TextsOf
  <2> HIDE DEF D, E
  <2>3. ASSUME NEW y PROVE y \in TextsOf(E) <=> y \in TextsOf(D) \ {x}
    <3>1. y \in TextsOf(E) <=> DraftHash(y) \in E
      BY <2>1, TextsAreHashed
    <3>2. y \in TextsOf(D) <=> DraftHash(y) \in D
      BY <2>1, TextsAreHashed
    <3>3. y = x <=> DraftHash(y) = g
      BY <1>6, Naming
    <3> QED
      BY <2>1, <3>1, <3>2, <3>3
  <2>4. x \in TextsOf(D)
    BY <1>6, <2>1, TextsAreHashed
  <2> QED
    BY <2>2, <2>3, <2>4
<1>13. RoomsOf' = RoomsOf
  <2>1. ASSUME NEW y \in TextsOf(DOMAIN state.drafts)
        PROVE  state'.drafts[DraftHash(y)].deliveries.slack
                 = state.drafts[DraftHash(y)].deliveries.slack
    <3>1. DraftHash(y) \in DOMAIN state.drafts
      BY <1>11, TextsAreHashed
    <3> QED
      BY <1>7, <1>11, <3>1
  <2>2. RoomsOf' = [y \in TextsOf(DOMAIN state'.drafts) |->
                      state'.drafts[DraftHash(y)].deliveries.slack]
    BY DEF RoomsOf, TextsOf
  <2> QED
    BY <1>11, <2>1, <2>2 DEF RoomsOf
<1>14. Approver' = Approver /\ PostedTo' = PostedTo
  BY <1>4 DEF Approver, PostedTo, TextsOf
<1>15. x \in DOMAIN Approver
  <2>1. DOMAIN state.approvals \subseteq DraftHashes
    BY DEF IInv, TypeOK
  <2> QED
    BY <1>5, <1>6, <2>1, TextsAreHashed DEF Approver
<1>16. /\ Len(Mailed) = Len(state.submissions)
       /\ Mailed' = Append(Mailed, <<x, p.recipient>>)
  <2> DEFINE s == state.submissions
             t == state'.submissions
             m == Mailed
             n == Mailed'
             v == <<x, p.recipient>>
  <2>1. s \in Seq(Elements(s)) /\ t = Append(s, e)
    BY <1>3 DEF IInv, TypeOK
  <2>2. /\ m = [i \in DOMAIN s |-> m[i]]
        /\ \A i \in DOMAIN s : m[i] = <<ContentOf(s[i].draft_hash), s[i].recipient>>
    BY DEF Mailed
  <2>3. /\ n = [i \in DOMAIN t |-> n[i]]
        /\ \A i \in DOMAIN t : n[i] = <<ContentOf(t[i].draft_hash), t[i].recipient>>
    BY DEF Mailed
  <2>4. DOMAIN s \subseteq DOMAIN t /\ Len(t) \in DOMAIN t /\ t[Len(t)] = e
    BY <2>1, GrownByOne
  <2> HIDE DEF s, t, m, n, v
  <2>5. n[Len(t)] = v
    BY <1>8, <2>3, <2>4 DEF x, v
  <2>6. \A i \in DOMAIN s : s[i] = t[i] => n[i] = m[i]
    BY <2>2, <2>3, <2>4
  <2>7. ReadOff(m, s, n, t, v)
    BY <2>2, <2>3, <2>5, <2>6 DEF ReadOff
  <2>8. Len(m) = Len(s) /\ n = Append(m, v)
    <3>1. Grows(s, e, t)
      BY <2>1 DEF Grows
    <3> QED
      BY <3>1, <2>7, MappedAppend
  <2> QED
    BY <2>8 DEF s, m, n, v
<1>17. Len(Mailed) < Config.policy.max_total_submissions
  BY <1>5, <1>16 DEF Quotas
<1>18. Abstract!Mail(x, p.recipient)
  BY <1>9, <1>10, <1>11, <1>12, <1>13, <1>14, <1>15, <1>16, <1>17
     DEF Abstract!Mail, Unmailed, RoomsOf, Approver, Mailed, PostedTo, TextsOf
<1> QED
  BY <1>2, <1>6, <1>18

\* A committed post_to_slack posts the text.
LEMMA PostPosts ==
  ASSUME IInv, Quotas, NEW actor \in ActorIds, NEW h \in Admitted("post_to_slack", actor),
         PostToSlack(actor, h)
  PROVE  \E x \in Contents, r \in ChannelIds : Abstract!Post(x, r)
<1>1. PICK p \in PostProposals(h, state) : Commit(p, actor)
  BY DEF PostToSlack
<1> DEFINE g == p.draft_hash
           x == ContentOf(g)
           r == p.channel_id
           d == Posted(state.drafts[g], r)
           e == SlackEffect(state, p)
<1>2. p.t = "post_to_slack" /\ DOMAIN state = StateFields /\ r \in ChannelIds
  BY DEF PostProposals, Admitted, Headers, IInv, TypeOK
<1>3. /\ VerifyPostToSlack(state, p, Config.policy)
      /\ state'.counters = Count(state.counters, "slack_posted_total")
      /\ state'.drafts = RecSet(state.drafts, g, d)
      /\ state'.slack_posts = Append(state.slack_posts, e)
  BY <1>1, <1>2, PostEffect
<1>4. state'.submissions = state.submissions /\ state'.approvals = state.approvals
  BY <1>1, <1>2, PostEffect DEF StateFields
<1>5. /\ g \in DOMAIN state.drafts \cap DOMAIN state.approvals
      /\ r \in DOMAIN Config.policy.approved_slack_channels
      /\ FlowsTo(state.drafts[g].body_label, Config.policy.approved_slack_channels[r].label)
      /\ r \notin state.drafts[g].deliveries.slack
      /\ state.counters.slack_posted_total < Config.policy.max_total_slack_posts
  BY <1>3 DEF VerifyPostToSlack, HasDraft, HasApproval
<1>6. /\ x \in Contents
      /\ x = Content(state.drafts[g])
      /\ DraftHash(x) = g
  BY <1>5, TextOfDraft
<1>7. /\ d.deliveries.email = state.drafts[g].deliveries.email
      /\ d.deliveries.slack = state.drafts[g].deliveries.slack \cup {r}
  <2>1. state.drafts[g] \in Drafts
    BY <1>5 DEF IInv, TypeOK
  <2> QED
    BY <2>1 DEF Posted, Drafts
<1>8. e.draft_hash = g /\ e.channel_id = r
  BY DEF SlackEffect
<1> HIDE DEF x, g, r, d, e
<1>9. PostableTo(x, r)
  BY <1>5, <1>6 DEF PostableTo, Content
<1>10. state'.counters.drafted_total = state.counters.drafted_total
  <2>1. state.counters \in [Counters -> Nat]
    BY DEF IInv, TypeOK
  <2> QED
    BY <1>3, <2>1 DEF Count, Counters
<1>11. /\ DOMAIN state'.drafts = DOMAIN state.drafts
       /\ DOMAIN state.drafts \subseteq DraftHashes
       /\ state'.drafts[g] = d
       /\ \A k \in DOMAIN state.drafts \ {g} : state'.drafts[k] = state.drafts[k]
       /\ TextsOf(DOMAIN state'.drafts) = TextsOf(DOMAIN state.drafts)
  BY <1>3, <1>5, DeliveryKeepsTexts
<1>12. Unmailed' = Unmailed
  <2>1. {k \in DOMAIN state'.drafts : ~state'.drafts[k].deliveries.email.submitted}
          = {k \in DOMAIN state.drafts : ~state.drafts[k].deliveries.email.submitted}
    BY <1>7, <1>11
  <2> QED
    BY <2>1 DEF Unmailed, TextsOf
<1>13. /\ DOMAIN RoomsOf = TextsOf(DOMAIN state.drafts)
       /\ RoomsOf[x] = state.drafts[g].deliveries.slack
       /\ RoomsOf' = [RoomsOf EXCEPT ![x] = RoomsOf[x] \cup {r}]
  <2>1. x \in TextsOf(DOMAIN state.drafts)
    BY <1>5, <1>6, <1>11, TextsAreHashed
  <2>2. DOMAIN RoomsOf = TextsOf(DOMAIN state.drafts)
    BY DEF RoomsOf
  <2>3. RoomsOf[x] = state.drafts[g].deliveries.slack
    BY <1>6, <2>1 DEF RoomsOf
  <2>4. ASSUME NEW y \in TextsOf(DOMAIN state.drafts)
        PROVE  state'.drafts[DraftHash(y)].deliveries.slack
                 = IF y = x THEN RoomsOf[x] \cup {r} ELSE RoomsOf[y]
    <3>1. CASE y = x
      BY <1>6, <1>7, <1>11, <2>3, <3>1
    <3>2. CASE y # x
      <4>1. DraftHash(y) \in DOMAIN state.drafts
        BY <1>11, TextsAreHashed
      <4>2. DraftHash(y) # g
        BY <1>6, <3>2, Naming
      <4> QED
        BY <1>11, <3>2, <4>1, <4>2 DEF RoomsOf
    <3> QED
      BY <3>1, <3>2
  <2>5. RoomsOf' = [y \in TextsOf(DOMAIN state'.drafts) |->
                      state'.drafts[DraftHash(y)].deliveries.slack]
    BY DEF RoomsOf, TextsOf
  <2>6. RoomsOf' = [y \in TextsOf(DOMAIN state.drafts) |->
                      IF y = x THEN RoomsOf[x] \cup {r} ELSE RoomsOf[y]]
    BY <1>11, <2>4, <2>5
  <2> QED
    BY <2>2, <2>3, <2>6
<1>14. Approver' = Approver /\ Mailed' = Mailed
  BY <1>4 DEF Approver, Mailed, TextsOf
<1>15. x \in DOMAIN Approver
  <2>1. DOMAIN state.approvals \subseteq DraftHashes
    BY DEF IInv, TypeOK
  <2> QED
    BY <1>5, <1>6, <2>1, TextsAreHashed DEF Approver
<1>16. /\ Len(PostedTo) = Len(state.slack_posts)
       /\ PostedTo' = Append(PostedTo, <<x, r>>)
  <2> DEFINE s == state.slack_posts
             t == state'.slack_posts
             m == PostedTo
             n == PostedTo'
             v == <<x, r>>
  <2>1. s \in Seq(Elements(s)) /\ t = Append(s, e)
    BY <1>3 DEF IInv, TypeOK
  <2>2. /\ m = [i \in DOMAIN s |-> m[i]]
        /\ \A i \in DOMAIN s : m[i] = <<ContentOf(s[i].draft_hash), s[i].channel_id>>
    BY DEF PostedTo
  <2>3. /\ n = [i \in DOMAIN t |-> n[i]]
        /\ \A i \in DOMAIN t : n[i] = <<ContentOf(t[i].draft_hash), t[i].channel_id>>
    BY DEF PostedTo
  <2>4. DOMAIN s \subseteq DOMAIN t /\ Len(t) \in DOMAIN t /\ t[Len(t)] = e
    BY <2>1, GrownByOne
  <2> HIDE DEF s, t, m, n, v
  <2>5. n[Len(t)] = v
    BY <1>8, <2>3, <2>4 DEF x, v
  <2>6. \A i \in DOMAIN s : s[i] = t[i] => n[i] = m[i]
    BY <2>2, <2>3, <2>4
  <2>7. ReadOff(m, s, n, t, v)
    BY <2>2, <2>3, <2>5, <2>6 DEF ReadOff
  <2>8. Len(m) = Len(s) /\ n = Append(m, v)
    <3>1. Grows(s, e, t)
      BY <2>1 DEF Grows
    <3> QED
      BY <3>1, <2>7, MappedAppend
  <2> QED
    BY <2>8 DEF s, m, n, v
<1>17. Len(PostedTo) < Config.policy.max_total_slack_posts
  BY <1>5, <1>16 DEF Quotas
<1>18. r \notin RoomsOf[x]
  BY <1>5, <1>13
<1>19. Abstract!Post(x, r)
  BY <1>9, <1>10, <1>11, <1>12, <1>13, <1>14, <1>15, <1>16, <1>17, <1>18
     DEF Abstract!Post, Unmailed, RoomsOf, Approver, Mailed, PostedTo, TextsOf
<1> QED
  BY <1>2, <1>6, <1>19

\* Every lineage of the engine is a behaviour of the authority, which knows no
\* hashes, nonces, certificates, receipts or claimed labels: each committed call
\* is one lawful step of it, or a read.
THEOREM EngineImplementsAuthority == Spec => ImplementsAuthority
<1>1. IInv /\ Quotas /\ [Next]_vars => [Abstract!Next]_(Abstract!vars)
  <2> SUFFICES ASSUME IInv, Quotas, [Next]_vars
               PROVE  Abstract!Next \/ UNCHANGED Abstract!vars
    OBVIOUS
  <2>1. CASE UNCHANGED vars
    BY <2>1 DEF vars, Abstract!vars
  <2>2. ASSUME NEW actor \in ActorIds, NEW h \in Admitted("read_invoice", actor),
               ReadInvoice(actor, h)
        PROVE  UNCHANGED Abstract!vars
    BY <2>2, ReadStutters
  <2>3. ASSUME NEW actor \in ActorIds, NEW h \in Admitted("create_draft", actor),
               CreateDraft(actor, h)
        PROVE  Abstract!Next
    BY <2>3, CreateWrites DEF Abstract!Next
  <2>4. ASSUME NEW actor \in ActorIds, NEW h \in Admitted("approve_draft", actor),
               ApproveDraft(actor, h)
        PROVE  Abstract!Next
    BY <2>4, ApproveApproves DEF Abstract!Next
  <2>5. ASSUME NEW actor \in ActorIds, NEW h \in Admitted("submit_draft", actor),
               SubmitDraft(actor, h)
        PROVE  Abstract!Next
    BY <2>5, SubmitMails DEF Abstract!Next
  <2>6. ASSUME NEW actor \in ActorIds, NEW h \in Admitted("post_to_slack", actor),
               PostToSlack(actor, h)
        PROVE  Abstract!Next
    BY <2>6, PostPosts DEF Abstract!Next
  <2> QED
    BY <2>1, <2>2, <2>3, <2>4, <2>5, <2>6 DEF Next
<1> QED
  BY InitImplements, <1>1, SpecIInv, QuotasHold, PTL DEF Spec, Abstract!Spec, ImplementsAuthority

-----------------------------------------------------------------------------
(***************************************************************************)
(* A lineage as a whole.  Whatever implements Spec inherits all of it: the *)
(* commit store with its callers, and a host built on the port.            *)
(***************************************************************************)

\* Of the state: drafts are named by their content, duties are separated, data
\* flows only where it may and stays with its customer, and counts are true.
StateSafety ==
  /\ ContentAddressed
  /\ SeparationOfDuties
  /\ CustomerIsolation
  /\ NoLeak
  /\ Quotas
  /\ MailedOncePerWriting
  /\ NonceAccounting

\* Of the state and its receipts: the ledger verifies, and the effects are the
\* ones it accounts for, each delivered in custody.
LedgerSafety ==
  /\ LedgerIntact
  /\ ReceiptsInOrder
  /\ EffectsAudited
  /\ ChainOfCustody

LineageSafety == StateSafety /\ LedgerSafety

\* A lineage of apply_with_receipt calls keeps all its promises at once.
THEOREM LineagesAreSafe == Spec => []LineageSafety
<1>1. Spec => []StateSafety
  BY DraftsContentAddressed, DutiesSeparated, CustomersIsolated, NothingLeaks, QuotasHold,
     MailedPerWriting, NoncesAccountedFor, PTL DEF StateSafety
<1>2. Spec => []LedgerSafety
  BY LedgerStaysIntact, ReceiptsOrdered, EffectsAreAudited, DeliveriesInCustody, PTL
     DEF LedgerSafety
<1> QED
  BY <1>1, <1>2, PTL DEF LineageSafety
=============================================================================
