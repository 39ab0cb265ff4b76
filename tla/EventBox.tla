------------------------------ MODULE EventBox ------------------------------
(***************************************************************************)
(* What an update box promises to the rest of the client (abstract): a     *)
(* number "upto" that only grows, and the data always holds the effect of  *)
(* every event up to it.  Beyond it the data may hold some events, each of *)
(* them made by the server.                                                *)
(***************************************************************************)
EXTENDS Naturals

CONSTANT Pts       \* the numbers a box can reach

VARIABLES made,   \* pts of the events the server has made
          seen,   \* those whose effect the data of the client holds
          upto    \* the pts the client has reached

vars == <<made, seen, upto>>

Init == made = {} /\ seen = {} /\ upto \in Pts

\* Events are made one by one, each after all others.
Make(p) ==
  /\ p > upto
  /\ \A q \in made : q < p
  /\ made' = made \cup {p}
  /\ UNCHANGED <<seen, upto>>

\* Events come on their own, before or after the box is there.
See(S) ==
  /\ seen' = seen \cup S
  /\ UNCHANGED <<made, upto>>

\* The box moves on; no event is stepped over, none is seen ahead of it.
Advance(p) ==
  /\ p > upto
  /\ upto' = p
  /\ seen' = seen \cup { q \in made : q <= p }
  /\ UNCHANGED made

Next == \/ \E p \in Pts : Make(p) \/ Advance(p)
        \/ \E S \in SUBSET made : See(S)

Spec == Init /\ [][Next]_vars
=============================================================================
