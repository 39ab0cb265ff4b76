-------------------------- MODULE UploaderInvariant --------------------------
(***************************************************************************)
(* The inductive invariant of Uploader.  A handler makes many calls, each  *)
(* of which changes the object, and an answer leaves its part between two  *)
(* of them: the parts are predicates of an object u and of the set L of    *)
(* the parts that are loaded, but still counted by their entries.          *)
(***************************************************************************)
EXTENDS Uploader

Entries == [item : Items, sent : Nat, waits : Nat, docSent : Nat, docWaits : Nat]

Requests == [item : Items, doc : BOOLEAN, no : Nat, filePart : Nat,
             session : Nat, queued : Nat, fresh : BOOLEAN]

UploaderType ==
  [ queue : Seq(Entries), requests : Seq(Requests), sent : Seq(Nat),
    fast : SUBSET Nat, pending : Seq(Requests), waiting : SUBSET Videos,
    media : SUBSET Covers, paused : BOOLEAN, nextTimer : BOOLEAN,
    stopTimer : BOOLEAN, posted : BOOLEAN,
    told : [Items -> {"no", "ready", "failed"}] ]

TypeOK ==
  /\ up \in UploaderType /\ unread \subseteq Items
  /\ saved \subseteq Items \X BOOLEAN \X Nat \X Nat
  /\ failures \in Nat /\ byUser \in Nat

\* What tells the parts that are out from one another.
Key(r) == <<r.item, r.doc, r.no>>

Keys(s) == { Key(s[k]) : k \in DOMAIN s }

\* The parts that are with the server or wait to be sent again.
Held(u) == Keys(u.requests) \cup Keys(u.pending)

Numbers(H, i, doc) == { h[3] : h \in { x \in H : x[1] = i /\ x[2] = doc } }

InQueue(u, i) == \E k \in DOMAIN u.queue : u.queue[k].item = i

-----------------------------------------------------------------------------
\* A session carries what is noted for it.
AmountsOK(u) ==
  /\ \A r \in ToSet(u.requests) : r.session \in DOMAIN u.sent
  /\ \A s \in DOMAIN u.sent : u.sent[s] = Carried(ToSet(u.requests), s)
  /\ u.fast \subseteq DOMAIN u.sent

\* No two members of s are the same part.
Distinct(s) == \A j, k \in DOMAIN s : Key(s[j]) = Key(s[k]) => j = k

\* No part is in two places.
PlacesOK(u, L) ==
  /\ Distinct(u.requests) /\ Distinct(u.pending)
  /\ Keys(u.requests) \cap Keys(u.pending) = {}
  /\ L \cap Held(u) = {}

\* An upload is in the queue once, and not when it is over or waits for its
\* cover, which comes into the queue after it.
QueueOK(u) ==
  /\ \A j, k \in DOMAIN u.queue : u.queue[j].item = u.queue[k].item => j = k
  /\ \A i \in Items \ Covers : InQueue(u, i) => u.told[i] = "no" /\ i \notin u.waiting
  /\ \A v \in Videos : InQueue(u, CoverOf[v]) => u.told[v] # "no" \/ v \in u.waiting

\* The entry e counts the parts of it that are out, which are some of those it sent.
EntryOK(e, H) ==
  /\ e.sent <= Parts[e.item] /\ e.docSent <= DocParts[e.item]
  /\ e.waits = Cardinality(Numbers(H, e.item, FALSE))
  /\ e.docWaits = Cardinality(Numbers(H, e.item, TRUE))
  /\ Numbers(H, e.item, FALSE) \subseteq 0 .. e.sent - 1
  /\ Numbers(H, e.item, TRUE) \subseteq 0 .. e.docSent - 1

EntriesOK(u, H) ==
  /\ \A k \in DOMAIN u.queue : EntryOK(u.queue[k], H)
  /\ \A h \in H : InQueue(u, h[1])

\* Each part of a document that was sent is in its place or out for it.
DocsOK(u, sv, H) ==
  /\ \A r \in ToSet(u.requests) : r.doc => r.filePart = r.no
  /\ \A k \in DOMAIN u.queue :
       LET e == u.queue[k]
       IN \A n \in 0 .. e.docSent - 1 :
            <<e.item, TRUE, n, n>> \in sv \/ <<e.item, TRUE, n>> \in H

\* All parts of the documents that were told, or wait for a cover, are.
DoneOK(u, sv) ==
  \A i \in Items : u.told[i] = "ready" \/ i \in u.waiting =>
    \A n \in 0 .. DocParts[i] - 1 : <<i, TRUE, n, n>> \in sv

UpOK(u, sv, L) ==
  /\ u \in UploaderType
  /\ AmountsOK(u) /\ PlacesOK(u, L) /\ QueueOK(u)
  /\ EntriesOK(u, Held(u) \cup L) /\ DocsOK(u, sv, Held(u) \cup L) /\ DoneOK(u, sv)

IInv == TypeOK /\ UpOK(up, saved, {})
=============================================================================
