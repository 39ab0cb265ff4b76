------------------------------ MODULE EventLog ------------------------------
(***************************************************************************)
(* The events of one box as the server numbers them: an event takes the    *)
(* pts - count + 1 .. pts, and they follow one another.                    *)
(***************************************************************************)
EXTENDS Integers

\* The pts an event takes, and those that the events ending in S take.
Span(e) == (e.pts - e.count + 1) .. e.pts

SpanOf(events, S) == UNION { Span(e) : e \in { x \in events : x.pts \in S } }

\* Events follow one another, the last one ends at top at most.
Follow(events, top) ==
  /\ top \in Nat
  /\ \A e \in events : /\ e.pts \in Nat /\ e.count \in Nat \ {0}
                       /\ e.count <= e.pts /\ e.pts <= top
  /\ \A e, f \in events : e.pts < f.pts => e.pts <= f.pts - f.count
  /\ \A e, f \in events : e.pts = f.pts => e = f

\* No event takes pts on both sides of p.
Between(events, p) == \A e \in events : e.pts > p => e.pts - e.count >= p
=============================================================================
