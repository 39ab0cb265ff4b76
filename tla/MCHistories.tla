---------------------------- MODULE MCHistories ----------------------------
(* Histories on small instances. *)
EXTENDS Histories, TLC, FiniteSetsExt

Symmetry == Permutations(Chats)

-----------------------------------------------------------------------------
(* What may happen together in one behaviour of the reads: all of it in one
   chat, or two chats, or the switch and reads without an end, on fewer
   messages. *)

BothChats == Cardinality({ h \in Chats : server[h].top > 0 }) > 1
Switching == spent.toggles + spent.unended > 0
Messages == MapThenSumSet(LAMBDA h : server[h].top, Chats)

\* No read of another device is on its way, and at most one message.
Plain ==
  Len(inbox) <= 1 /\ \A i \in DOMAIN inbox : inbox[i].kind # "read"

Bounded ==
  /\ Messages > 2 \/ Switching =>
       spent.entries + spent.failures + Max2(spent.toggles, spent.unended) <= 1
  /\ BothChats => /\ spent.entries + spent.failures = 0 /\ Plain
                  /\ \A h \in Chats : server[h].top <= 2
  /\ Switching => Plain /\ Messages <= 2
  /\ Messages > 2 => Len(inbox) <= 1
=============================================================================
