--------------------------------- MODULE Fifo ---------------------------------
(***************************************************************************)
(* What a KCP session promises to the programs: in each direction the        *)
(* messages written are read once each, in the order they were written.      *)
(***************************************************************************)
EXTENDS Sequences

CONSTANTS
    Ends,  \* the two ends of the session
    Msg    \* the messages

VARIABLE queue  \* end -> messages written for it and not yet read

Init == queue = [e \in Ends |-> <<>>]

Put(e) == queue' \in {[queue EXCEPT ![e] = Append(@, m)] : m \in Msg}

Take(e) == queue[e] # <<>> /\ queue' = [queue EXCEPT ![e] = Tail(@)]

Next == \E e \in Ends : Put(e) \/ Take(e)

Spec == Init /\ [][Next]_queue
=============================================================================
