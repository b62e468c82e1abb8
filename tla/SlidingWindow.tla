---------------------------- MODULE SlidingWindow ----------------------------
(***************************************************************************)
(* What a limiter of sends promises: in any span of Window, at most Max    *)
(* calls with the same key are admitted.  It says nothing of how the       *)
(* limiter remembers them.                                                 *)
(***************************************************************************)
EXTENDS Naturals, FiniteSets

CONSTANTS Keys, Callers, Max, Window

VARIABLES
  clock,
  admitted      \* admissions of each key: when, and of which caller

InWindow(k) == {a \in admitted[k] : a.at + Window > clock}

Init == clock = 0 /\ admitted = [k \in Keys |-> {}]

Admit(k, c) ==
  /\ Cardinality(InWindow(k)) < Max
  /\ admitted' = [admitted EXCEPT ![k] = @ \cup {[at |-> clock, by |-> c]}]
  /\ UNCHANGED clock

Pass == clock' = clock + 1 /\ UNCHANGED admitted

Next == Pass \/ \E k \in Keys, c \in Callers : Admit(k, c)

Spec == Init /\ [][Next]_<<clock, admitted>>

(* In any span of Window, wherever it begins, at most Max calls with the   *)
(* same key are admitted (internal/send/ratelimit.go:9).                   *)
Span(k, t) == {a \in admitted[k] : t <= a.at /\ a.at < t + Window}
AnySpan    == \A k \in Keys, t \in 0..clock : Cardinality(Span(k, t)) <= Max
=============================================================================
