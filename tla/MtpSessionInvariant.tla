------------------------- MODULE MtpSessionInvariant -------------------------
(***************************************************************************)
(* The inductive invariant behind the theorems about MtpSession.  The two  *)
(* threads change the maps under different locks, so what a step relies on *)
(* is spread over them: whose callback is out, which request an id stands  *)
(* for, and in which one of the maps a request is.                         *)
(***************************************************************************)
EXTENDS MtpSession

Told == {"new", "asked", "answered", "cancelled"}

\* What the main thread can be in the middle of: the callback is out of its
\* map (Taking, and "restore"), or cancel() goes through the maps.
Taking == {"result", "retry", "again"}
Cancelling == {"toSend", "haveSent", "parser"}

MainTypes == [at : {"free", "restore"} \cup Taking \cup Cancelling,
              r : Requests \cup {0}, id : Nat]

TypeOK ==
  /\ told \in [Requests -> Told] /\ parser \subseteq Requests /\ delayed \subseteq Requests
  /\ main \in MainTypes
  /\ toSend \subseteq Requests /\ haveSent \subseteq Nat \X Requests
  /\ msgId \in [Requests -> Nat] /\ forced \subseteq Requests
  /\ received \subseteq [r : Requests, kind : Taking] /\ wake \in BOOLEAN
  /\ state \in {"none", "off", "connecting", "connected"}
  /\ salt \in BOOLEAN /\ binding \in BOOLEAN /\ started \in BOOLEAN
  /\ lastId \in Nat /\ resending \subseteq Nat \X Requests /\ acked \subseteq Nat \X Requests
  /\ containers \subseteq Nat \X SUBSET Nat
  /\ todo \subseteq Nat /\ hold \subseteq Nat \X Requests /\ sending \in Requests \cup {0}
  /\ wire \subseteq Nat \X Requests /\ fresh \in BOOLEAN /\ troubles \in Nat
  /\ slipped \subseteq Requests /\ rejected \subseteq Requests

Waiting == { r \in Requests : Asked(r) }

\* A callback is in its map, but while its answer is dealt with; a cancelled
\* request's stays there until cancel() comes to it.
MainOK ==
  /\ main.at = "free" => main = Free /\ parser = Waiting
  /\ main.at \in Taking \cup {"restore"} =>
       main.r \in Waiting /\ main.id = 0 /\ parser = Waiting \ {main.r}
  /\ main.at \in Cancelling =>
       main.r \in Requests /\ told[main.r] = "cancelled" /\ parser = Waiting \cup {main.r}

\* Ids and the requests they were made for, wherever they are kept.
Written == { p \in { <<msgId[r], r>> : r \in Requests } \cup {<<main.id, main.r>>} : p[1] # 0 }

Pairs == haveSent \cup hold \cup resending \cup wire \cup Written

\* An id was made for one request.
IdsOK ==
  /\ \A p \in Pairs : p[1] \in 1 .. lastId
  /\ \A p, q \in Pairs : p[1] = q[1] => p[2] = q[2]

\* SendWatched, and for the end of the send of a single request.
WakeOK ==
  /\ (state = "none" \/ CanSend) /\ toSend \cap Waiting # {}
       => wake \/ todo # {} \/ hold # {}
  /\ sending # 0 => started /\ CanSend
  /\ wire # {} => started

\* RequestKept, and for the end of what the main thread is in the middle of.
KeptOK ==
  \A r \in Waiting \ slipped :
    \/ r \in toSend \cup Owners(haveSent \cup hold) \cup {sending} \cup delayed
    \/ \E a \in received : a.r = r
    \/ main.at \in Taking /\ main.r = r

\* An answer of the server to r waits for the main thread, or is dealt with.
InReceived(r) == \E a \in received : a.r = r
InMain(r) == main.at \in Taking /\ main.r = r

Queued(r) == r \in toSend \cup {sending}
Sent(r) == r \in Owners(haveSent \cup hold)

\* A request that the client neither cancelled nor answered for itself is in
\* one map at most, under its own id; when its answer came it is in none, and
\* the server has no more to answer.
InOnePlace(r) ==
  /\ \A p \in haveSent \cup hold \cup resending \cup wire : p[2] = r => p[1] = msgId[r]
  /\ Queued(r) => ~Sent(r)
  /\ r \in Owners(hold) => r \notin Owners(haveSent)
  /\ r \in toSend => r # sending
  /\ r \in Owners(resending) => r \in toSend \cap forced
  /\ Queued(r) /\ r \in Owners(wire) => r \in Owners(resending)
  /\ ~Asked(r) \/ r \in delayed \/ InReceived(r) \/ InMain(r) =>
       ~Queued(r) /\ ~Sent(r) /\ r \notin Owners(resending \cup wire)
  /\ r \in delayed \/ InReceived(r) => Asked(r) /\ ~InMain(r)
  /\ r \in delayed => ~InReceived(r)
  /\ \A a, b \in received : a.r = r /\ b.r = r => a = b

PlacesOK == \A r \in Requests \ rejected : told[r] # "cancelled" => InOnePlace(r)

IInv == MainOK /\ IdsOK /\ WakeOK /\ KeptOK /\ PlacesOK
=============================================================================
