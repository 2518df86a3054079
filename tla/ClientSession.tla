--------------------------- MODULE ClientSession ---------------------------
(***************************************************************************)
(* What the two blocking clients have in common (grpcuds-core/src/         *)
(* client.rs and grpcuds/src/client.rs): one connection, its nghttp2       *)
(* session, and one CallState that every call of the connection uses in    *)
(* turn and that the session's callbacks fill.                             *)
(*                                                                         *)
(* nghttp2 and the server are external.  The n-th call has stream id n.    *)
(* The server's bytes travel in units: response headers, the two halves of *)
(* a message, or one message that is longer than MAX_MESSAGE_LEN, the      *)
(* grpc-status of the trailers, the end of the trailers, and RST_STREAM.   *)
(* nghttp2 reports a header as soon as it has decoded it, so a read may    *)
(* end between the last two.  A request body goes out when nghttp2 pulls   *)
(* it, which flow control may delay.                                       *)
(***************************************************************************)
EXTENDS Naturals, Sequences, FiniteSets, SequencesExt

CONSTANTS
    MaxCalls,   \* bound: calls made
    MaxMsgs,    \* bound: messages in one response
    Modes       \* kinds of calls made: unary, streaming

ASSUME ClientAssumption ==
    /\ {MaxCalls, MaxMsgs} \subseteq Nat
    /\ Modes \subseteq {"unary", "streaming"}

Calls    == 1..MaxCalls
Codes    == {"Ok", "App", "DeadlineExceeded"}
None     == "none"
Junk     == [call |-> 0, n |-> 0]   \* bytes that are no message of any call
Received == [call : Calls, n : 1..MaxMsgs] \cup {Junk}
Unit     == [kind : {"headers", "half", "rest", "long", "status", "end", "rst"},
             call : Calls, n : 0..MaxMsgs, code : Codes]

VARIABLES
    pc,         \* idle between calls; reconnect, submit and call within one
    call,       \* the last call begun
    mode,       \* its kind
    cs,         \* CallState
    broken,
    deadline,   \* deadline_ms: none, armed, due (no timeout: armed, and no clock)
    open,       \* nghttp2: streams not closed; cs is the user data of each
    unsent,     \* nghttp2: those whose request body it has not pulled to the end
    ended,      \* nghttp2: those of them whose END_STREAM has arrived
    inbox,      \* units in the socket
    peer,       \* the server's end of the connection: up, closed
    progress,   \* server: none, request, headers, over for each call
    sent,       \* server: messages sent for each call
    body,       \* history: the requests whose bytes went out on each stream
    status,     \* history: the status the server sent for the last call
    got,        \* history: the messages the application got from the last call
    outcome     \* history: how the last call ended for the application

callVars    == <<pc, call, mode>>
sessionVars == <<open, unsent, ended>>
serverVars  == <<peer, progress, sent>>
resultVars  == <<got, outcome>>
vars == <<callVars, cs, broken, deadline, sessionVars, inbox, serverVars, body, status,
          resultVars>>

TypeOK ==
    /\ pc \in {"idle", "reconnect", "submit", "call"}
    /\ call \in 0..MaxCalls
    /\ mode \in Modes \cup {None}
    /\ cs \in [req : 0..MaxCalls, drained : BOOLEAN, http : BOOLEAN,
               status : Codes \cup {None}, inbuf : Seq(Unit),
               messages : Seq(Received), closed : BOOLEAN]
    /\ Len(cs.inbuf) < 2
    /\ broken \in BOOLEAN
    /\ deadline \in {"none", "armed", "due"}
    /\ open \subseteq Calls /\ unsent \subseteq open /\ ended \subseteq unsent
    /\ inbox \in Seq(Unit)
    /\ peer \in {"up", "closed"}
    /\ progress \in [Calls -> {"none", "request", "headers", "over"}]
    /\ sent \in [Calls -> 0..MaxMsgs]
    /\ body \in [Calls -> Seq(Calls)]
    /\ status \in Codes \cup {None}
    /\ got \in Seq(Received)
    /\ outcome \in Codes \cup {None, "Transport", "Unknown", "Unavailable", "Internal",
                             "Abandoned"}

\* Mutant: the bytes of an unfinished message survive.
Reset_KeepsInbuf(c) ==
    [req |-> c, drained |-> FALSE, http |-> FALSE, status |-> None,
     inbuf |-> IF c = 0 THEN << >> ELSE cs.inbuf, messages |-> << >>, closed |-> FALSE]

\* CallState::reset for the request of call c.
Reset(c) ==
    [req |-> c, drained |-> FALSE, http |-> FALSE, status |-> None,
     inbuf |-> << >>, messages |-> << >>, closed |-> FALSE]

\* A connection just made: a fresh CallState, no stream, nothing received.
Fresh == [Reset(0) EXCEPT !.drained = TRUE]

Init ==
    /\ pc = "idle" /\ call = 0 /\ mode = None
    /\ cs = Fresh /\ broken = FALSE /\ deadline = "none"
    /\ open = {} /\ unsent = {} /\ ended = {}
    /\ inbox = << >> /\ peer = "up"
    /\ progress = [c \in Calls |-> "none"]
    /\ sent = [c \in Calls |-> 0]
    /\ body = [c \in Calls |-> << >>]
    /\ status = None /\ got = << >> /\ outcome = None

-----------------------------------------------------------------------------
(* The callbacks.                                                          *)

\* A buffer that starts with a frame decode_header refuses: it is never consumed.
Stuck(inbuf) == inbuf # << >> /\ inbuf[1].kind = "long"

\* deframe: two halves of one message make it; anything else that fills the
\* buffer parses as something no server sent.
deframe(st) ==
    IF Stuck(st.inbuf) THEN [st EXCEPT !.inbuf = <<Head(@)>>]
    ELSE IF Len(st.inbuf) < 2 THEN st
    ELSE LET a == st.inbuf[1]
             b == st.inbuf[2]
             m == IF a.kind = "half" /\ b.kind = "rest" /\ a.call = b.call
                  THEN [call |-> a.call, n |-> a.n] ELSE Junk
         IN  [st EXCEPT !.inbuf = << >>, !.messages = Append(@, m)]

on_header(st, u) ==
    IF u.kind = "headers" THEN [st EXCEPT !.http = TRUE]
    ELSE [st EXCEPT !.status = u.code]

on_data(st, u) == deframe([st EXCEPT !.inbuf = Append(@, u)])

on_close(st) == [st EXCEPT !.closed = TRUE]

\* nghttp2_session_mem_recv of one unit; s has the CallState and the session.
\* A stream closes when both sides have ended it, or with RST_STREAM; what
\* arrives for a closed stream is ignored.
mem_recv(s, u) ==
    IF u.call \notin s.open THEN s
    ELSE CASE u.kind \in {"headers", "status"} -> [s EXCEPT !.cs = on_header(@, u)]
           [] u.kind \in {"half", "rest", "long"} -> [s EXCEPT !.cs = on_data(@, u)]
           [] u.kind = "end" /\ u.call \in s.unsent ->
                  [s EXCEPT !.ended = @ \cup {u.call}]
           [] OTHER -> [cs |-> on_close(s.cs), open |-> s.open \ {u.call},
                        unsent |-> s.unsent \ {u.call}, ended |-> s.ended \ {u.call}]

\* The client has read the first n units.
Receive(n) ==
    LET s == FoldLeft(mem_recv,
                      [cs |-> cs, open |-> open, unsent |-> unsent, ended |-> ended],
                      SubSeq(inbox, 1, n))
    IN  /\ cs' = s.cs /\ open' = s.open /\ unsent' = s.unsent /\ ended' = s.ended
        /\ inbox' = SubSeq(inbox, n + 1, Len(inbox))

\* data_read: the provider of every stream reads cs.req, whose request that is.
data_read(st) ==
    [bytes |-> IF st.drained THEN << >> ELSE <<st.req>>,
     state |-> [st EXCEPT !.drained = TRUE]]

\* nghttp2 pulls the request body of stream s; w has the CallState, the session
\* and the bodies sent.
Pull(w, s) ==
    LET r == data_read(w.cs)
    IN  [cs |-> IF s \in w.ended THEN on_close(r.state) ELSE r.state,
         open |-> IF s \in w.ended THEN w.open \ {s} ELSE w.open,
         unsent |-> w.unsent \ {s}, ended |-> w.ended \ {s},
         body |-> [w.body EXCEPT ![s] = @ \o r.bytes]]

\* flush_send from w: flow control lets the bodies of the streams in P through,
\* oldest first.
Flush(w, P) ==
    LET s == FoldLeft(Pull, w, SetToSortSeq(P, <))
    IN  /\ cs' = s.cs /\ open' = s.open /\ unsent' = s.unsent /\ ended' = s.ended
        /\ body' = s.body

-----------------------------------------------------------------------------
(* The steps of a call that both clients take.  err is what the            *)
(* application is told.                                                    *)

\* The call returns o to the application, and ms are the messages it got now.
Return(o, ms) ==
    /\ pc' = "idle"
    /\ outcome' = o
    /\ got' = got \o ms
    /\ UNCHANGED <<call, mode, status>>

\* A call begins; a connection known to be broken is replaced first.  (The streams
\* that are closed are of no more interest to the server.)
Begin(m) ==
    /\ pc = "idle" /\ call < MaxCalls
    /\ call' = call + 1
    /\ mode' = m
    /\ pc' = IF broken THEN "reconnect" ELSE "submit"
    /\ status' = None /\ got' = << >> /\ outcome' = None
    /\ sent' = [c \in Calls |-> IF c \in open THEN sent[c] ELSE 0]
    /\ progress' = [c \in Calls |-> IF c \in open \/ c > call THEN progress[c] ELSE "over"]
    /\ UNCHANGED <<cs, broken, deadline, sessionVars, inbox, peer, body>>

\* *self = fresh: the old socket and session are dropped with all their streams.
Reconnect ==
    /\ pc = "reconnect"
    /\ pc' = "submit"
    /\ cs' = Fresh /\ broken' = FALSE /\ deadline' = "none"
    /\ open' = {} /\ unsent' = {} /\ ended' = {}
    /\ inbox' = << >> /\ peer' = "up"
    /\ progress' = [c \in Calls |-> IF progress[c] = "none" THEN "none" ELSE "over"]
    /\ UNCHANGED <<call, mode, sent, body, status, got, outcome>>

ReconnectFails(err) ==
    /\ pc = "reconnect"
    /\ Return(err, << >>)
    /\ UNCHANGED <<cs, broken, deadline, sessionVars, inbox, serverVars, body>>

\* Mutant: the request goes out before the CallState is reset.
Submit_ResetLate(P) ==
    /\ pc = "submit" /\ peer = "up"
    /\ pc' = "call"
    /\ Flush([cs |-> [cs EXCEPT !.closed = FALSE, !.status = None], open |-> open \cup {call},
              unsent |-> unsent \cup {call}, ended |-> ended, body |-> body], P)
    /\ deadline' = "armed"
    /\ progress' = [progress EXCEPT ![call] = "request"]
    /\ UNCHANGED <<call, mode, broken, inbox, peer, sent, status, resultVars>>

\* reset, submit_request, arm the deadline, flush; P are the bodies sent now.
Submit(P) ==
    /\ pc = "submit" /\ peer = "up"
    /\ pc' = "call"
    /\ Flush([cs |-> Reset(call), open |-> open \cup {call},
              unsent |-> unsent \cup {call}, ended |-> ended, body |-> body], P)
    /\ deadline' = "armed"
    /\ progress' = [progress EXCEPT ![call] = "request"]
    /\ UNCHANGED <<call, mode, broken, inbox, peer, sent, status, resultVars>>

\* nghttp2 refuses the request: out of stream ids or of memory.
SubmitRefused(err) ==
    /\ pc = "submit"
    /\ cs' = Reset(call)
    /\ Return(err, << >>)
    /\ UNCHANGED <<broken, deadline, sessionVars, inbox, serverVars, body>>

\* The server is gone, and the flush finds out.
SubmitFails(err) ==
    /\ pc = "submit" /\ peer = "closed"
    /\ cs' = Reset(call) /\ broken' = TRUE
    /\ deadline' = "armed"
    /\ open' = open \cup {call} /\ unsent' = unsent \cup {call}
    /\ Return(err, << >>)
    /\ UNCHANGED <<ended, inbox, serverVars, body>>

\* pump, when it only flushes, or flushes and reads n units.
PumpFlush(P) ==
    /\ P # {} /\ peer = "up"
    /\ Flush([cs |-> cs, open |-> open, unsent |-> unsent, ended |-> ended,
              body |-> body], P)
    /\ UNCHANGED <<callVars, broken, deadline, inbox, serverVars, status, resultVars>>

PumpRead(n) ==
    /\ deadline # "due"
    /\ Receive(n)
    /\ UNCHANGED <<callVars, broken, deadline, serverVars, body, status, resultVars>>

\* The server closed the connection: the call ends with what it has.
PumpEof ==
    /\ deadline # "due" /\ peer = "closed" /\ inbox = << >>
    /\ cs' = [cs EXCEPT !.closed = TRUE]
    /\ broken' = TRUE
    /\ UNCHANGED <<callVars, deadline, sessionVars, inbox, serverVars, body, status,
                   resultVars>>

\* A write or a read fails with io, or nghttp2 rejects what was read with proto.
PumpFails(io, proto) ==
    /\ \/ peer = "closed" /\ UNCHANGED <<cs, inbox>> /\ Return(io, << >>)
       \/ /\ deadline # "due" /\ peer = "closed"
          /\ cs' = [cs EXCEPT !.closed = TRUE] /\ inbox' = << >> /\ Return(io, << >>)
       \/ deadline # "due" /\ inbox # << >> /\ UNCHANGED <<cs, inbox>> /\ Return(proto, << >>)
    /\ broken' = TRUE
    /\ UNCHANGED <<deadline, sessionVars, serverVars, body>>

\* Mutants: the stream is not cancelled; the call is not marked closed.
Expire_NoReset(lost) ==
    /\ deadline = "due"
    /\ cs' = [cs EXCEPT !.status = "DeadlineExceeded", !.closed = TRUE]
    /\ deadline' = "none"
    /\ UNCHANGED <<callVars, broken, sessionVars, inbox, serverVars, body, status, resultVars>>

Expire_NotClosed(lost) ==
    /\ deadline = "due"
    /\ cs' = [cs EXCEPT !.status = "DeadlineExceeded"]
    /\ deadline' = "none"
    /\ UNCHANGED <<callVars, broken, sessionVars, inbox, serverVars, body, status, resultVars>>

\* The deadline passed: the call has its status, and RST_STREAM closes the stream.
\* lost is what broken becomes when the server is gone and the flush fails.
Expire(lost) ==
    /\ deadline = "due"
    /\ cs' = [cs EXCEPT !.status = "DeadlineExceeded", !.closed = TRUE]
    /\ deadline' = "none"
    /\ \/ /\ peer = "up"
          /\ open' = open \ {call} /\ unsent' = unsent \ {call}
          /\ ended' = ended \ {call} /\ UNCHANGED broken
       \/ peer = "closed" /\ broken' = lost /\ UNCHANGED sessionVars
    /\ UNCHANGED <<callVars, inbox, serverVars, body, status, resultVars>>

\* The application takes the next message of a stream.
Take ==
    /\ cs.messages # << >>
    /\ cs' = [cs EXCEPT !.messages = Tail(@)]
    /\ got' = Append(got, Head(cs.messages))
    /\ UNCHANGED <<callVars, broken, deadline, sessionVars, inbox, serverVars, body, status,
                   outcome>>

\* The call ends for the application with o and the messages ms.
Finish(o, ms) ==
    /\ Return(o, ms)
    /\ UNCHANGED <<cs, broken, deadline, sessionVars, inbox, serverVars, body>>

\* The application drops a stream it has not read to the end; nothing is cancelled.
Abandon ==
    /\ pc = "call" /\ mode = "streaming"
    /\ Finish("Abandoned", << >>)

-----------------------------------------------------------------------------
(* The server, the network and the clock.                                  *)

answer(k, c, n, code) == [kind |-> k, call |-> c, n |-> n, code |-> code]

\* Bound: what arrives after the last call is of no interest; and what arrives while
\* a call is set up might as well have arrived before it.
Running == pc = "call" \/ (pc = "idle" /\ call < MaxCalls)

\* What is sent for a stream that the client has closed is ignored by mem_recv and
\* changes nothing, so it is not generated.
Answers(c, stages) ==
    Running /\ peer = "up" /\ c \in open /\ progress[c] \in stages

clientVars == <<callVars, cs, broken, sessionVars, body, resultVars>>

server_headers(c) ==
    /\ Answers(c, {"request"})
    /\ progress' = [progress EXCEPT ![c] = "headers"]
    /\ inbox' = Append(inbox, answer("headers", c, 0, "Ok"))
    /\ UNCHANGED <<peer, sent, status, clientVars, deadline>>

\* A message the client can take, or one past its limit (the server's is larger).
server_data(c, units) ==
    /\ Answers(c, {"headers"}) /\ sent[c] < MaxMsgs
    /\ sent' = [sent EXCEPT ![c] = @ + 1]
    /\ inbox' = inbox \o [i \in DOMAIN units |-> answer(units[i], c, sent'[c], "Ok")]
    /\ UNCHANGED <<peer, progress, status, clientVars, deadline>>

server_trailers(c, code) ==
    /\ Answers(c, {"headers"})
    /\ progress' = [progress EXCEPT ![c] = "over"]
    /\ status' = IF c = call THEN code ELSE status
    /\ inbox' = inbox \o <<answer("status", c, 0, code), answer("end", c, 0, code)>>
    /\ UNCHANGED <<peer, sent, clientVars, deadline>>

server_reset(c) ==
    /\ Answers(c, {"request", "headers"})
    /\ progress' = [progress EXCEPT ![c] = "over"]
    /\ inbox' = Append(inbox, answer("rst", c, 0, "Ok"))
    /\ UNCHANGED <<peer, sent, status, clientVars, deadline>>

\* The server exits or drops the connection; what is in flight may be cut anywhere.
server_close ==
    /\ Running /\ peer = "up"
    /\ peer' = "closed"
    /\ \E n \in 0..Len(inbox) : inbox' = SubSeq(inbox, 1, n)
    /\ UNCHANGED <<progress, sent, status, clientVars, deadline>>

clock ==
    /\ deadline = "armed" /\ pc = "call"
    /\ deadline' = "due"
    /\ UNCHANGED <<clientVars, inbox, serverVars, status>>

Environment ==
    \/ \E c \in Calls : \/ server_headers(c) \/ server_reset(c)
                        \/ server_data(c, <<"half", "rest">>) \/ server_data(c, <<"long">>)
                        \/ \E code \in {"Ok", "App"} : server_trailers(c, code)
    \/ server_close \/ clock

-----------------------------------------------------------------------------
(* Properties of a client.                                                 *)

\* A call sees its own response only: the messages the application gets are those the
\* server sent for this call, in order and without a gap, and an application error is
\* one the server reported for it.  All calls of a connection share one CallState.
GotOwn ==
    /\ \A i \in DOMAIN got : got[i] = [call |-> call, n |-> i]
    /\ outcome = "App" => status = "App"

\* The request that goes out on a stream is the one of its call, once: the data
\* providers of all streams read the one CallState.
SentOwn == \A c \in Calls : body[c] \in {<< >>, <<c>>}

\* "exactly one call is in flight at a time": while a call runs, no stream of an
\* earlier one is open and can still write to the CallState.
OneInFlight == pc = "call" => open \subseteq {call}

\* A call that ends with OK got a complete response: the server's trailers said OK,
\* and the application has every message of a stream, unless deframe stopped at one
\* that is too long: that message and all after it are lost, and the call is still OK.
OkIsComplete ==
    outcome = "Ok" =>
        /\ status = "Ok"
        /\ mode = "streaming" => Len(got) = sent[call] \/ Stuck(cs.inbuf)

\* A call with a timeout returns whatever the server sends or does not send, once its
\* requests are in the socket: pump looks at the deadline before it waits.
CallEnds == pc = "call" ~> pc = "idle"

=============================================================================
