----------------------------- MODULE Authority -----------------------------
(***************************************************************************)
(* What the boundary promises, without its machinery: no hashes, nonces,   *)
(* certificates, receipts or labels.  Texts are written, approved by       *)
(* someone entitled to, and delivered only once approved, each time at     *)
(* most once per writing and per sink, within three budgets.               *)
(***************************************************************************)
EXTENDS Integers, Sequences

CONSTANTS
  Texts,             \* everything that could be written
  People, Addresses, Rooms,
  Lawful(_),         \* may a text be written at all
  Entitled(_, _),    \* may a person approve a text
  Addressable(_, _), \* may a text go to an address
  Postable(_, _),    \* may a text go to a room
  MaxWritten, MaxMailed, MaxPosted

VARIABLES
  written,   \* how many texts were written so far
  texts,     \* the texts that were written
  approver,  \* approved text -> who approved it
  unmailed,  \* texts not mailed since they were last written
  roomsOf,   \* text -> rooms it was posted to since it was last written
  mailed,    \* the mails, in order
  posted     \* the posts, in order

vars == <<written, texts, approver, unmailed, roomsOf, mailed, posted>>

Init ==
  /\ written = 0
  /\ texts = {}
  /\ approver = [x \in {} |-> x]
  /\ unmailed = {}
  /\ roomsOf = [x \in {} |-> x]
  /\ mailed = <<>>
  /\ posted = <<>>

Write(x) ==
  /\ Lawful(x)
  /\ written < MaxWritten
  /\ written' = written + 1
  /\ texts' = texts \cup {x}
  /\ unmailed' = unmailed \cup {x}
  /\ roomsOf' = [y \in texts \cup {x} |-> IF y = x THEN {} ELSE roomsOf[y]]
  /\ UNCHANGED <<approver, mailed, posted>>

Approve(x, p) ==
  /\ x \in texts \ DOMAIN approver
  /\ Entitled(x, p)
  /\ approver' = [y \in DOMAIN approver \cup {x} |->
                    IF y = x THEN p ELSE approver[y]]
  /\ UNCHANGED <<written, texts, unmailed, roomsOf, mailed, posted>>

Mail(x, a) ==
  /\ x \in DOMAIN approver \cap unmailed
  /\ Addressable(x, a)
  /\ Len(mailed) < MaxMailed
  /\ mailed' = Append(mailed, <<x, a>>)
  /\ unmailed' = unmailed \ {x}
  /\ UNCHANGED <<written, texts, approver, roomsOf, posted>>

Post(x, r) ==
  /\ x \in DOMAIN approver
  /\ r \notin roomsOf[x]
  /\ Postable(x, r)
  /\ Len(posted) < MaxPosted
  /\ posted' = Append(posted, <<x, r>>)
  /\ roomsOf' = [roomsOf EXCEPT ![x] = @ \cup {r}]
  /\ UNCHANGED <<written, texts, approver, unmailed, mailed>>

Next ==
  \E x \in Texts :
    \/ Write(x)
    \/ \E p \in People    : Approve(x, p)
    \/ \E a \in Addresses : Mail(x, a)
    \/ \E r \in Rooms     : Post(x, r)

Spec == Init /\ [][Next]_vars
=============================================================================
