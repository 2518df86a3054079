---------------------------- MODULE ClientConn ----------------------------
(***************************************************************************)
(* The blocking client of grpcuds-core (src/rust/grpcuds-core/src/         *)
(* client.rs), which the C ABI and the C++ client use.  A unary call pumps *)
(* until its stream has closed; a stream returns messages until it is      *)
(* drained and closed.  (The loops' other exit, an idle session with a     *)
(* status, is subsumed: a session that wants neither to read nor to write  *)
(* has closed the stream.)                                                 *)
(***************************************************************************)
EXTENDS ClientSession

\* err is what the caller makes of a ClientError.
reconnect_once(err) == Reconnect \/ ReconnectFails(err)

submit(err) ==
    \/ \E P \in SUBSET (unsent \cup {call}) : Submit(P)
    \/ SubmitRefused(err)
    \/ SubmitFails(err)

unary_pumps == mode = "unary" /\ ~cs.closed
recv_pumps == mode = "streaming" /\ cs.messages = << >> /\ ~cs.closed
Pumps == pc = "call" /\ (unary_pumps \/ recv_pumps)

expire_call == Expire(TRUE)

pump(err) ==
    /\ Pumps
    /\ \/ \E P \in SUBSET unsent : PumpFlush(P)
       \/ \E n \in 1..Len(inbox) : PumpRead(n)
       \/ PumpEof
       \/ PumpFails(err, err)
       \/ expire_call

\* Mutant: a missing status is OK.
call_status_Ok == IF cs.status = None THEN "Ok" ELSE cs.status

\* ClientCall::status
call_status == IF cs.status = None THEN "Unknown" ELSE cs.status

unary_return ==
    /\ pc = "call" /\ mode = "unary" /\ cs.closed
    /\ Finish(call_status, IF cs.messages = << >> THEN << >> ELSE <<Head(cs.messages)>>)

recv_message == pc = "call" /\ mode = "streaming" /\ Take

recv_end ==
    /\ pc = "call" /\ mode = "streaming" /\ cs.messages = << >> /\ cs.closed
    /\ Finish(call_status, << >>)

Client ==
    \/ \E m \in Modes : Begin(m)
    \/ reconnect_once("Transport") \/ submit("Transport") \/ pump("Transport")
    \/ unary_return \/ recv_message \/ recv_end

\* An application that reads every stream to its end.
Next == Client \/ Environment
Spec == Init /\ [][Next]_vars

\* One that may also drop a stream before.
AbandonSpec == Init /\ [][Next \/ Abandon]_vars

\* What ends a call whatever the server does: a pump looks at the deadline, and a
\* call that is over returns.
Ends == (Pumps /\ expire_call) \/ unary_return \/ recv_message \/ recv_end

=============================================================================
