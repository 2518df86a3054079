------------------------------ MODULE Clients ------------------------------
(***************************************************************************)
(* The clients of this repository side by side: the core client, the one   *)
(* of the grpcuds crate and the one of C and C++.  Each connects with      *)
(* connect_wait and then makes calls on the connection.                    *)
(***************************************************************************)
EXTENDS ClientSession, ConnectWait, Codec

CONSTANT Flavours   \* the clients considered: core, rust, cpp

VARIABLE flavour

Core == INSTANCE ClientConn
Rust == INSTANCE Client
Cpp  == INSTANCE CppClient

allVars == <<vars, wait, flavour>>

ClientsInit == Init /\ WaitInit /\ flavour \in Flavours

Connects == connect_wait /\ UNCHANGED <<vars, flavour>>

Is(f) == flavour = f /\ wait.at = "connected" /\ UNCHANGED <<wait, flavour>>

Next ==
    \/ Connects
    \/ Is("core") /\ Core!Next
    \/ Is("rust") /\ Rust!Next
    \/ Is("cpp") /\ Cpp!Next

Spec == ClientsInit /\ [][Next]_allVars

\* Time passes, and the client's thread runs: a pump looks at the deadline, and a
\* call that is over returns.
Ends ==
    \/ Is("core") /\ Core!Ends
    \/ Is("rust") /\ Rust!Ends
    \/ Is("cpp") /\ Cpp!Ends

Ticks == clock /\ UNCHANGED <<wait, flavour>>

FairSpec == Spec /\ WF_allVars(Ends) /\ WF_allVars(Ticks)

-----------------------------------------------------------------------------
(* Properties that some of the clients have.                               *)

\* SentOwn and OneInFlight for the clients that pump until the stream has closed; the
\* grpcuds crate's unary returns before.
SentOwnByCore == flavour # "rust" => SentOwn
OneInFlightByCore == flavour # "rust" => OneInFlight

\* OkIsComplete for the core client, and for the unary calls of C and C++.
OkIsCompleteByCore == (flavour = "core" \/ (flavour = "cpp" /\ mode = "unary")) => OkIsComplete

\* Once a client is connected, whatever timeout it sets for a call is the deadline the
\* server arms, when it has at most eight digits (fmt_ms_value, parse_grpc_timeout_ms);
\* a longer one is ignored.  Finer units round up, and never to zero.
TimeoutArrives == wait.at = "connected" => TimeoutsAgree

\* Once a client is connected, whatever UTF-8 message the server ends a call with is
\* read as it was given (percent_encode_message, percent_decode).
MessageArrives == wait.at = "connected" => MessagesAgree

\* Once a client is connected, wherever its reads split the responses, deframe has the
\* messages that are complete by then, up to the first that is too long.
FramesSurviveSplits == wait.at = "connected" => FramesAgree

=============================================================================
