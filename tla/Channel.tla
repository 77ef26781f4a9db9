------------------------------- MODULE Channel -------------------------------
(***************************************************************************)
(* What a message channel promises, whoever holds its ends and wherever:   *)
(* each end receives what was posted to it, once and in order.  Messages   *)
(* are numbered per end in the order of their posting.  A broken channel   *)
(* may lose what was on its way, but still repeats and reorders nothing.   *)
(***************************************************************************)
EXTENDS Naturals, Sequences

CONSTANT Ends

VARIABLES posted,     \* how many messages were posted to each end
          received    \* the messages it has received

Init == /\ posted = [e \in Ends |-> 0]
        /\ received = [e \in Ends |-> <<>>]

Post(e) == /\ posted' = [posted EXCEPT ![e] = @ + 1]
           /\ UNCHANGED received

Receive(e) == /\ Len(received[e]) < posted[e]
              /\ received' = [received EXCEPT ![e] = Append(@, Len(@) + 1)]
              /\ UNCHANGED posted

Next == \E e \in Ends: Post(e) \/ Receive(e)

Spec == Init /\ [][Next]_<<posted, received>>
=============================================================================
