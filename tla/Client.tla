------------------------------ MODULE Client ------------------------------
(***************************************************************************)
(* The blocking client of the grpcuds crate (src/rust/grpcuds/src/         *)
(* client.rs).  It has the core client's connection, CallState and pump,   *)
(* and differs in three places: a unary call returns as soon as it has a   *)
(* message and a status, with its stream perhaps still open; a call        *)
(* without a grpc-status succeeds when the response headers came; and an   *)
(* expiry that finds the server gone does not mark the connection broken.  *)
(***************************************************************************)
EXTENDS ClientSession

reconnect_once == Reconnect \/ ReconnectFails("Unavailable")

submit ==
    \/ \E P \in SUBSET (unsent \cup {call}) : Submit(P)
    \/ SubmitRefused("Internal")
    \/ SubmitFails("Unavailable")

unary_ends == cs.closed \/ (cs.messages # << >> /\ cs.status # None)

Pumps ==
    /\ pc = "call"
    /\ \/ mode = "unary" /\ ~unary_ends
       \/ mode = "streaming" /\ cs.messages = << >> /\ ~cs.closed

expire_call == Expire(broken)

\* CallState and its callbacks are the core client's.
feed(n)       == PumpRead(n)
flush_send(P) == PumpFlush(P)

pump ==
    /\ Pumps
    /\ \/ \E P \in SUBSET unsent : flush_send(P)
       \/ \E n \in 1..Len(inbox) : feed(n)
       \/ PumpEof
       \/ PumpFails("Unavailable", "Internal")
       \/ expire_call

final_status ==
    IF cs.status # None THEN cs.status ELSE IF cs.http THEN "Ok" ELSE "Unavailable"

unary ==
    /\ pc = "call" /\ mode = "unary" /\ unary_ends
    /\ CASE final_status # "Ok" -> Finish(final_status, << >>)
         [] final_status = "Ok" /\ cs.messages # << >> -> Finish("Ok", <<Head(cs.messages)>>)
         [] OTHER -> Finish("Internal", << >>)

message_some == pc = "call" /\ mode = "streaming" /\ Take

message_none ==
    /\ pc = "call" /\ mode = "streaming" /\ cs.messages = << >> /\ cs.closed
    /\ Finish(final_status, << >>)

Returns == unary \/ message_some \/ message_none

Next ==
    \/ \E m \in Modes : Begin(m)
    \/ reconnect_once \/ submit \/ pump \/ Returns \/ Environment

Spec == Init /\ [][Next]_vars

Ends == (Pumps /\ expire_call) \/ Returns

=============================================================================
