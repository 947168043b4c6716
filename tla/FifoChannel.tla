---------------------------- MODULE FifoChannel ----------------------------
(***************************************************************************)
(* What the L2TP control channel promises in one direction: the messages of  *)
(* one side are handled by the other in the order they were sent, each once.  *)
(***************************************************************************)
EXTENDS Naturals, Sequences

CONSTANT Messages

VARIABLES
  sent,     \* the messages of the sender
  handled   \* the messages the receiver has acted upon

Init == sent = <<>> /\ handled = <<>>

Send(m) == sent' = Append(sent, m) /\ UNCHANGED handled

Handle ==
  /\ Len(handled) < Len(sent)
  /\ handled' = Append(handled, sent[Len(handled) + 1])
  /\ UNCHANGED sent

Next == Handle \/ \E m \in Messages : Send(m)

Spec == Init /\ [][Next]_<<sent, handled>>
=============================================================================
