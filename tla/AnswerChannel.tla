---------------------------- MODULE AnswerChannel ----------------------------
(***************************************************************************)
(* What the assistant promises of one answer, whatever lies between the    *)
(* model and the analyst: the texts of the answer are shown in the order   *)
(* in which they were said, each once and nothing else, and an answer that *)
(* ends undisturbed was shown whole.                                       *)
(***************************************************************************)
EXTENDS Naturals, Sequences

CONSTANT Stream   \* one question and its answer

VARIABLES
  said,     \* how many texts of the answer were said
  spoken,   \* is everything said?
  shown,    \* the texts shown so far, by number
  outcome   \* how the answer ended

vars == <<said, spoken, shown, outcome>>

TypeOK ==
  /\ said \in [Stream -> Nat]
  /\ spoken \in [Stream -> BOOLEAN]
  /\ shown \in [Stream -> Seq(Nat)]
  /\ outcome \in [Stream -> {"open", "whole", "broken"}]

Init ==
  /\ said = [s \in Stream |-> 0]
  /\ spoken = [s \in Stream |-> FALSE]
  /\ shown = [s \in Stream |-> << >>]
  /\ outcome = [s \in Stream |-> "open"]

Say(s) ==
  /\ ~spoken[s]
  /\ said' = [said EXCEPT ![s] = @ + 1]
  /\ spoken' \in {spoken, [spoken EXCEPT ![s] = TRUE]}
  /\ UNCHANGED <<shown, outcome>>

FallSilent(s) ==
  /\ spoken' = [spoken EXCEPT ![s] = TRUE]
  /\ UNCHANGED <<said, shown, outcome>>

Show(s) ==
  /\ outcome[s] = "open"
  /\ Len(shown[s]) < said[s]
  /\ shown' = [shown EXCEPT ![s] = Append(@, Len(@) + 1)]
  /\ UNCHANGED <<said, spoken, outcome>>

End(s) ==
  /\ outcome[s] = "open"
  /\ spoken[s]
  /\ Len(shown[s]) = said[s]
  /\ outcome' = [outcome EXCEPT ![s] = "whole"]
  /\ UNCHANGED <<said, spoken, shown>>

(* The connection is lost, the question refused, or the analyst leaves. *)
Break(s) ==
  /\ outcome[s] = "open"
  /\ outcome' = [outcome EXCEPT ![s] = "broken"]
  /\ UNCHANGED <<said, spoken, shown>>

Next ==
  \E s \in Stream :
    Say(s) \/ FallSilent(s) \/ Show(s) \/ End(s) \/ Break(s)

Spec == Init /\ [][Next]_vars
=============================================================================
