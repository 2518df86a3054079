----------------------------- MODULE CallStream -----------------------------
(***************************************************************************)
(* What the sending half of a connection promises for each of its calls,   *)
(* seen from the peer: the messages written to a call arrive once, in      *)
(* order, except those dropped before they began to arrive; a finished     *)
(* call ends, with its trailers, only when every kept message has arrived. *)
(* SendPath implements it.                                                 *)
(***************************************************************************)
EXTENDS Naturals, Sequences

CONSTANT Streams

VARIABLES
    state,       \* open, finished, ended (trailers arrived) or reset
    last,        \* messages written so far; they are numbered from 1
    queue,       \* messages kept and not yet arrived completely
    delivered    \* messages that arrived, in order

vars == <<state, last, queue, delivered>>

Init ==
    /\ state = [s \in Streams |-> "open"]
    /\ last = [s \in Streams |-> 0]
    /\ queue = [s \in Streams |-> << >>]
    /\ delivered = [s \in Streams |-> << >>]

Drop(q, i) == SubSeq(q, 1, i - 1) \o SubSeq(q, i + 1, Len(q))

Write(s) ==
    /\ state[s] = "open"
    /\ last' = [last EXCEPT ![s] = @ + 1]
    /\ \E kept \in {queue[s]} \cup {Drop(queue[s], i) : i \in DOMAIN queue[s]} :
           queue' = [queue EXCEPT ![s] = Append(kept, last[s] + 1)]
    /\ UNCHANGED <<state, delivered>>

Deliver(s) ==
    /\ \E n \in DOMAIN queue[s] :
        /\ delivered' = [delivered EXCEPT ![s] = @ \o SubSeq(queue[s], 1, n)]
        /\ queue' = [queue EXCEPT ![s] = SubSeq(@, n + 1, Len(@))]
    /\ state[s] # "ended"
    /\ UNCHANGED <<state, last>>

Finish(s) ==
    /\ state[s] = "open"
    /\ state' = [state EXCEPT ![s] = "finished"]
    /\ UNCHANGED <<last, queue, delivered>>

End(s) ==
    /\ state[s] = "finished" /\ queue[s] = << >>
    /\ state' = [state EXCEPT ![s] = "ended"]
    /\ UNCHANGED <<last, queue, delivered>>

Reset(s) ==
    /\ state[s] \in {"open", "finished"}
    /\ state' = [state EXCEPT ![s] = "reset"]
    /\ UNCHANGED <<last, queue, delivered>>

Next == \E s \in Streams : Write(s) \/ Deliver(s) \/ Finish(s) \/ End(s) \/ Reset(s)

Spec == Init /\ [][Next]_vars

=============================================================================
