------------------------------- MODULE Channel --------------------------------
(***************************************************************************)
(* What the control channel of CommThread promises one worker connection: *)
(* the messages handed to send() reach the worker whole, in the order     *)
(* they were sent, each once, and every one of them eventually.           *)
(***************************************************************************)
EXTENDS Naturals, Sequences

CONSTANT Msgs     \* the messages the controller may send

VARIABLES sent,   \* the messages handed to send(), in order
          recvd   \* the messages the worker has received whole, in order

vars == <<sent, recvd>>

Init == sent = <<>> /\ recvd = <<>>

Submit(m) == sent' = Append(sent, m) /\ UNCHANGED recvd

\* One transfer hands the worker one or more of the next messages.
Deliver == \E k \in Len(recvd) + 1 .. Len(sent) :
              /\ recvd' = SubSeq(sent, 1, k)
              /\ UNCHANGED sent

Next == (\E m \in Msgs : Submit(m)) \/ Deliver

SafeSpec == Init /\ [][Next]_vars
Spec == SafeSpec /\ WF_vars(Deliver)

================================================================================
