----------------------------- MODULE CppClient -----------------------------
(***************************************************************************)
(* The client of C and C++: the handles of the C ABI                       *)
(* (grpcuds-ffi-impl/src/client.rs) over the core client, and the C++      *)
(* classes over the handles (cpp/include/grpcudspp/client.h).  A NULL      *)
(* response is UNAVAILABLE, a NULL stream has the status UNKNOWN, and a    *)
(* stream handle keeps the status the stream ended with.                   *)
(*                                                                         *)
(* Messages of a stream are taken to decode: when one does not, Read()     *)
(* returns false as at the end of the stream, and an application that      *)
(* then stops has abandoned it (see Abandon).                              *)
(***************************************************************************)
EXTENDS ClientSession

Core == INSTANCE ClientConn

\* What a NULL of grpcuds_client_unary or grpcuds_client_server_streaming becomes.
null_status == IF mode = "unary" THEN "Unavailable" ELSE "Unknown"

grpcuds_client_call == Core!reconnect_once(null_status) \/ Core!submit(null_status)

\* ClientConn::unary within grpcuds_client_unary; recv_current within
\* grpcuds_stream_next, where an error sets the status 14.
drive == Core!pump("Unavailable")

\* Client::Unary over grpcuds_client_unary's response: a status other than 0 is the
\* result, else the body is decoded; a response without a message has an empty body,
\* which decodes when every field has a default.
Unary ==
    /\ pc = "call" /\ mode = "unary" /\ cs.closed
    /\ IF Core!call_status # "Ok" THEN Finish(Core!call_status, << >>)
       ELSE \/ Finish("Ok", IF cs.messages = << >> THEN << >> ELSE <<Head(cs.messages)>>)
            \/ Finish("Internal", << >>)

\* ClientReader::Read over grpcuds_stream_next.
Read == pc = "call" /\ mode = "streaming" /\ Take

\* grpcuds_stream_next at the end of the stream: last_status().unwrap_or(0).
stream_status == IF cs.status = None THEN "Ok" ELSE cs.status

Read_end ==
    /\ pc = "call" /\ mode = "streaming" /\ cs.messages = << >> /\ cs.closed
    /\ Finish(stream_status, << >>)

Returns == Unary \/ Read \/ Read_end

Next ==
    \/ \E m \in Modes : Begin(m)
    \/ grpcuds_client_call \/ drive \/ Returns \/ Environment

Spec == Init /\ [][Next]_vars

Ends == (Core!Pumps /\ Core!expire_call) \/ Returns

=============================================================================
