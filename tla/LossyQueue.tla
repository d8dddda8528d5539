------------------------------ MODULE LossyQueue ------------------------------
(***************************************************************************)
(* What OutputController is to the two sides of a screen output plugin: a  *)
(* queue of numbered frames that may lose any of them, and hands on what   *)
(* is left one by one, always the oldest.  AvOutput implements it.         *)
(***************************************************************************)
EXTENDS Naturals, Sequences

VARIABLES
    sent,       \* frames accepted so far
    waiting,    \* frames accepted, and neither handed on nor lost
    out         \* frames handed on

queueVars == <<sent, waiting, out>>

Init == sent = 0 /\ waiting = {} /\ out = <<>>

\* A frame that comes in may push others out.
Accept ==
    /\ sent' = sent + 1
    /\ sent' \in waiting' /\ waiting' \subseteq waiting \cup {sent'}
    /\ UNCHANGED out

Lose == waiting' \subseteq waiting /\ UNCHANGED <<sent, out>>

HandOn(f) ==
    /\ f \in waiting /\ \A g \in waiting : f <= g
    /\ out' = Append(out, f)
    /\ waiting' = waiting \ {f}
    /\ UNCHANGED sent

Next == Accept \/ Lose \/ \E f \in waiting : HandOn(f)

Spec == Init /\ [][Next]_queueVars
=============================================================================
