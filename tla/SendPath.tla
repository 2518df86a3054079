------------------------------ MODULE SendPath ------------------------------
(***************************************************************************)
(* How the responses of one connection reach its socket                    *)
(* (grpcuds-core/src): the calls' outbound queues (conn/out_queue.rs), the *)
(* data provider (conn/dispatch.rs), the NO_COPY send_data callback        *)
(* (conn/callbacks.rs), write_call / finish_call (conn/state.rs) and       *)
(* flush_writes with its pending tail (uds.rs).                            *)
(*                                                                         *)
(* Everything runs on the I/O thread; what interleaves is the application, *)
(* which writes and finishes between two flushes, the peer, which may      *)
(* reset a stream, and the socket, which takes any number of bytes.        *)
(*                                                                         *)
(* nghttp2's sending half is external: its queue of HEADERS and trailers,  *)
(* which go before DATA; the state of each stream's data source; and the   *)
(* promised DATA frame it re-offers after WOULDBLOCK.  A frame header is   *)
(* one unit of the wire.                                                   *)
(***************************************************************************)
EXTENDS OutQueue

CONSTANTS
    Streams,     \* calls of the connection, already received
    NoCopyMin,   \* NOCOPY_MIN
    FrameLens,   \* DATA lengths nghttp2 may ask the data provider for
    Bodies,      \* payload lengths of the messages
    Policies,    \* backpressure settings the application may ask for
    MaxMsgs      \* bound: messages written to one call

ASSUME SendAssumption ==
    /\ NoCopyMin \in Nat \ {0}
    /\ FrameLens \subseteq Nat \ {0}
    /\ Bodies \subseteq Nat
    /\ Policies \subseteq Bounded \cup {Unbounded}
    /\ MaxMsgs \in Nat
    /\ Unbounded \notin Bounded

VARIABLES
    phase,         \* "idle", "flush" (inside flush_writes), "failed"
    live,          \* streams of ConnState::streams
    out,           \* StreamCtx::out of each stream
    backpressure,
    finished,      \* streams with out.finished
    source,        \* nghttp2: none, attached (HEADERS not sent yet), ready,
                   \* deferred, ended
    regular,       \* nghttp2: HEADERS and trailers to send
    promise,       \* nghttp2: the NO_COPY frame it is sending, or NoPromise
    out_pending,   \* the tail of a partial write
    wire,          \* history: what the socket took
    written,       \* history: the messages enqueued, by id
    dropped        \* history: the ids DropOldest removed

queueVars == <<live, out, backpressure, finished>>
sendVars  == <<source, regular, promise>>
pastVars  == <<written, dropped>>
vars == <<phase, queueVars, sendVars, out_pending, wire, pastVars>>

Ids == 1..MaxMsgs
Msg == [id : Ids, body : Bodies]
NoPromise == [stream |-> 0, length |-> 0]

\* What goes over the wire: frame headers (of a DATA frame, with its length)
\* and payload bytes, each with the stream it belongs to.
Frame(kind, s)  == [kind |-> kind, stream |-> s, length |-> 0, byte |-> << >>]
DataFrame(s, n) == [kind |-> "DATA", stream |-> s, length |-> n, byte |-> << >>]
Payload(s, bs)  == [i \in DOMAIN bs |->
                      [kind |-> "byte", stream |-> s, length |-> 0, byte |-> bs[i]]]

Unit == [kind : {"HEADERS", "DATA", "TRAILERS", "byte"}, stream : Streams,
         length : Nat, byte : (Ids \X Nat) \cup {<< >>}]

TypeOK ==
    /\ phase \in {"idle", "flush", "failed"}
    /\ live \in SUBSET Streams
    /\ out \in [Streams -> [messages : Seq(Msg), front_offset : Nat,
                            front_committed : BOOLEAN]]
    /\ backpressure \in [Streams -> Policies \cup {Unbounded}]
    /\ finished \in SUBSET Streams
    /\ source \in [Streams -> {"none", "attached", "ready", "deferred", "ended"}]
    /\ regular \in Seq({"HEADERS", "TRAILERS"} \X Streams)
    /\ promise \in [stream : Streams, length : Nat \ {0}] \cup {NoPromise}
    /\ out_pending \in Seq(Unit)
    /\ wire \in Seq(Unit)
    /\ written \in [Streams -> Seq(Msg)]
    /\ dropped \in [Streams -> SUBSET Ids]

Init ==
    /\ phase = "idle"
    /\ live = Streams
    /\ out = [s \in Streams |-> new]
    /\ backpressure \in [Streams -> Policies \cup {Unbounded}]   \* MethodEntry's
    /\ finished = {}
    /\ source = [s \in Streams |-> "none"]
    /\ regular = << >>
    /\ promise = NoPromise
    /\ out_pending = << >>
    /\ wire = << >>
    /\ written = [s \in Streams |-> << >>]
    /\ dropped = [s \in Streams |-> {}]

-----------------------------------------------------------------------------
(* The application, and the end of dispatch.                               *)

\* nghttp2_session_resume_data, which write_call and finish_call make once the
\* response was submitted: it only has an effect on a deferred source.
Resumed_Never(s) == source

Resumed(s) == IF source[s] = "deferred" THEN [source EXCEPT ![s] = "ready"] ELSE source

submit_response_for(s) ==
    /\ phase = "idle" /\ s \in live /\ source[s] = "none"
    /\ source' = [source EXCEPT ![s] = "attached"]
    /\ regular' = Append(regular, <<"HEADERS", s>>)
    /\ UNCHANGED <<phase, queueVars, promise, out_pending, wire, pastVars>>

\* A write that QueueFull does not refuse.
write_call(s, body) ==
    /\ phase = "idle" /\ s \in live /\ s \notin finished
    /\ Len(written[s]) < MaxMsgs
    /\ ~Rejects(out[s], backpressure[s])
    /\ LET m    == [id |-> Len(written[s]) + 1, body |-> body]
           drop == DropIndex(out[s], backpressure[s])
       IN /\ out' = [out EXCEPT ![s] = enqueue_owned(@, m, backpressure[s])]
          /\ written' = [written EXCEPT ![s] = Append(@, m)]
          /\ dropped' = IF drop = 0 THEN dropped
                        ELSE [dropped EXCEPT ![s] = @ \cup {out[s].messages[drop].id}]
    /\ source' = Resumed(s)
    /\ UNCHANGED <<phase, live, backpressure, finished, regular, promise, out_pending,
                   wire>>

set_stream_policy(s, bp) ==
    /\ phase = "idle" /\ s \in live
    /\ backpressure' = [backpressure EXCEPT ![s] = bp]
    /\ UNCHANGED <<phase, live, out, finished, sendVars, out_pending, wire, pastVars>>

finish_call(s) ==
    /\ phase = "idle" /\ s \in live
    /\ finished' = finished \cup {s}
    /\ source' = Resumed(s)
    /\ UNCHANGED <<phase, live, out, backpressure, regular, promise, out_pending, wire,
                   pastVars>>

\* RST_STREAM: on_stream_close drops the call, nghttp2 what it would send for it.
Closing(s) ==
    /\ live' = live \ {s}
    /\ source' = [source EXCEPT ![s] = "ended"]
    /\ regular' = Only(regular, {"HEADERS", "TRAILERS"} \X (Streams \ {s}))
    /\ promise' = IF promise.stream = s THEN NoPromise ELSE promise

on_stream_close(s) ==
    /\ phase = "idle" /\ s \in live
    /\ Closing(s)
    /\ UNCHANGED <<phase, out, backpressure, finished, out_pending, wire, pastVars>>

-----------------------------------------------------------------------------
(* flush_writes.                                                           *)

start_flush ==
    /\ phase = "idle"
    /\ phase' = "flush"
    /\ UNCHANGED <<queueVars, sendVars, out_pending, wire, pastVars>>

\* The socket takes the first k units of a chunk; the rest becomes the pending
\* tail, and the flush is over, if k is not all of it.
Emit(chunk, k) ==
    /\ wire' = wire \o SubSeq(chunk, 1, k)
    /\ out_pending' = SubSeq(chunk, k + 1, Len(chunk))
    /\ phase' = IF k < Len(chunk) THEN "idle" ELSE "flush"

flush_pending ==
    /\ phase = "flush" /\ out_pending # << >>
    /\ \E k \in 0..Len(out_pending) : Emit(out_pending, k)
    /\ UNCHANGED <<queueVars, sendVars, pastVars>>

\* pull_send is reached with the tail flushed; nghttp2 goes on with the frame it
\* was sending, then with HEADERS and trailers, then with DATA.
Pulling_Overtakes == phase = "flush"
Pulling == phase = "flush" /\ out_pending = << >>

pull_regular ==
    /\ Pulling /\ promise = NoPromise /\ regular # << >>
    /\ LET kind == Head(regular)[1]
           s    == Head(regular)[2]
       IN /\ \E k \in 0..1 : Emit(<<Frame(kind, s)>>, k)
          /\ regular' = Tail(regular)
          /\ source' = [source EXCEPT ![s] = IF kind = "HEADERS" THEN "ready" ELSE "ended"]
          /\ live' = IF kind = "HEADERS" THEN live ELSE live \ {s}
    /\ UNCHANGED <<out, backpressure, finished, promise, pastVars>>

CanPullData(s) ==
    /\ Pulling /\ promise = NoPromise /\ regular = << >>
    /\ source[s] = "ready"

\* data_provider_read, asked for n bytes: a large head message is promised ...
read_promise(s, n) ==
    /\ CanPullData(s)
    /\ front_remaining(out[s]) >= NoCopyMin
    /\ promise' = [stream |-> s, length |-> promised(out[s], n)]
    /\ out' = [out EXCEPT ![s] = promise_front(@, n)]
    /\ UNCHANGED <<phase, live, backpressure, finished, source, regular, out_pending, wire,
                   pastVars>>

\* ... anything else is copied into nghttp2's frame; with nothing to copy, a
\* finished call ends its data and submits the trailers, another is deferred.
ReadCopy(s, n) ==
    /\ CanPullData(s)
    /\ front_remaining(out[s]) < NoCopyMin
    /\ out' = [out EXCEPT ![s] = drain_into(@, n).queue]

read_copy(s, n) ==
    /\ ReadCopy(s, n)
    /\ LET copied == drain_into(out[s], n).copied
           chunk  == <<DataFrame(s, Len(copied))>> \o Payload(s, copied)
       IN /\ copied # << >>
          /\ \E k \in 0..Len(chunk) : Emit(chunk, k)
    /\ UNCHANGED <<live, backpressure, finished, sendVars, pastVars>>

EndsData_Early(s, n) == s \in finished
EndsData(s, n) == drain_into(out[s], n).copied = << >> /\ s \in finished

read_eof(s, n) ==
    /\ ReadCopy(s, n)
    /\ EndsData(s, n)
    /\ \E k \in 0..1 : Emit(<<DataFrame(s, 0)>>, k)
    /\ regular' = Append(regular, <<"TRAILERS", s>>)
    /\ source' = [source EXCEPT ![s] = "ended"]
    /\ UNCHANGED <<live, backpressure, finished, promise, pastVars>>

read_deferred(s, n) ==
    /\ ReadCopy(s, n)
    /\ drain_into(out[s], n).copied = << >> /\ s \notin finished
    /\ source' = [source EXCEPT ![s] = "deferred"]
    /\ UNCHANGED <<phase, live, backpressure, finished, regular, promise, out_pending,
                   wire, pastVars>>

\* send_data for the promised frame.  A promise the queue cannot keep resets the
\* stream; a socket that takes nothing keeps the frame for a retry.
Stale == Len(front_regions(out[promise.stream], promise.length)) # promise.length

send_data ==
    /\ Pulling /\ promise # NoPromise
    /\ LET s     == promise.stream
           n     == promise.length
           chunk == <<DataFrame(s, n)>> \o Payload(s, front_regions(out[s], n))
       IN IF Stale
          THEN Closing(s) /\ UNCHANGED <<phase, out, out_pending, wire>>
          ELSE \/ /\ phase' = "idle"
                  /\ UNCHANGED <<out, promise, live, source, regular, out_pending, wire>>
               \/ /\ \E k \in 1..Len(chunk) : Emit(chunk, k)
                  /\ out' = [out EXCEPT ![s] = consume_front(@, n)]
                  /\ promise' = NoPromise
                  /\ UNCHANGED <<live, source, regular>>
    /\ UNCHANGED <<backpressure, finished, pastVars>>

\* pull_send has nothing (more): all sources wait, or the peer's window is shut.
flush_done ==
    /\ Pulling /\ promise = NoPromise /\ regular = << >>
    /\ phase' = "idle"
    /\ UNCHANGED <<queueVars, sendVars, out_pending, wire, pastVars>>

\* A write error ends the connection.
flush_error ==
    /\ phase = "flush"
    /\ phase' = "failed"
    /\ UNCHANGED <<queueVars, sendVars, out_pending, wire, pastVars>>

PullData == \E s \in Streams, n \in FrameLens :
                read_promise(s, n) \/ read_copy(s, n) \/ read_eof(s, n) \/ read_deferred(s, n)

Flush == start_flush \/ flush_pending \/ pull_regular \/ PullData \/ send_data \/ flush_done

Application ==
    \E s \in Streams :
        \/ submit_response_for(s) \/ finish_call(s) \/ on_stream_close(s)
        \/ \E body \in Bodies : write_call(s, body)
        \/ \E bp \in Policies : set_stream_policy(s, bp)

Next == Flush \/ Application \/ flush_error

Spec == Init /\ [][Next]_vars

-----------------------------------------------------------------------------
(* Properties.                                                             *)

\* What has left the queues: the wire, then the tail it still has to take.
Emitted == wire \o out_pending

\* The payload bytes among units that are of stream s.
BytesIn(units, s) ==
    Joined([i \in DOMAIN units |->
              IF units[i].kind = "byte" /\ units[i].stream = s THEN <<units[i].byte>> ELSE << >>])

BytesOf(s) == BytesIn(Emitted, s)

QueueBytes(q) ==
    SubSeq(AllBytes(q.messages), q.front_offset + 1, Len(AllBytes(q.messages)))

Kept(s) == Only(written[s], [id : Ids \ dropped[s], body : Bodies])

\* Nothing is lost, duplicated, reordered or cut: for a live call, what it has
\* sent followed by what its queue still holds is exactly the messages written
\* to it, without the ones DropOldest removed, which never shipped a byte.
NoByteLost ==
    \A s \in live :
        BytesOf(s) \o QueueBytes(out[s]) = AllBytes(Kept(s))

\* Frames never mix: a DATA header is followed by exactly its length of payload
\* bytes of its stream, whatever partial writes, retries and pending tails there
\* were (the "ordering rules" of send_data).
FramesContiguous ==
    \A i \in DOMAIN Emitted :
        LET u == Emitted[i] IN
        /\ u.kind = "DATA" =>
              /\ i + u.length <= Len(Emitted)
              /\ \A j \in (i + 1)..(i + u.length) :
                    Emitted[j].kind = "byte" /\ Emitted[j].stream = u.stream
        /\ u.kind = "byte" =>
              \E h \in 1..(i - 1) :
                  /\ Emitted[h].kind = "DATA" /\ Emitted[h].stream = u.stream
                  /\ i <= h + Emitted[h].length

\* callbacks.rs calls a stale promise impossible: while nghttp2 holds a promised
\* frame, the head message still has the promised bytes and is pinned, whatever
\* the application wrote, dropped or finished in between.
PromiseKept ==
    promise # NoPromise =>
        /\ ~Stale
        /\ out[promise.stream].front_committed

\* Messages of a call whose last byte the socket took.
Arrived(s) ==
    SelectSeq(Kept(s), LAMBDA m : \E i \in DOMAIN wire :
        wire[i].kind = "byte" /\ wire[i].stream = s /\ wire[i].byte = <<m.id, len(m)>>)

IdsOf(ms) == [i \in DOMAIN ms |-> ms[i].id]

Has(seq, u) == \E i \in DOMAIN seq : seq[i] = u

Wiped(s) == s \notin live /\ ~Has(Emitted, Frame("TRAILERS", s))

Promised == INSTANCE CallStream WITH
    state <- [s \in Streams |->
                IF Has(wire, Frame("TRAILERS", s)) THEN "ended"
                ELSE IF Wiped(s) THEN "reset"
                ELSE IF s \in finished THEN "finished" ELSE "open"],
    last <- [s \in Streams |-> Len(written[s])],
    queue <- [s \in Streams |->
                IdsOf(SelectSeq(Kept(s), LAMBDA m : ~Has(Arrived(s), m)))],
    delivered <- [s \in Streams |-> IdsOf(Arrived(s))]

\* The send path implements CallStream: over all its partial writes, promises,
\* retries, drops and resets, the peer sees each kept message once and in order,
\* and the trailers only after the last of them.
DeliversInOrder == Promised!Spec

\* The host keeps calling flush_writes while the connection wants to write; a
\* peer that keeps reading and opening its window makes the socket take bytes
\* whenever it is tried often enough.
Fairness ==
    /\ WF_vars(start_flush)
    /\ WF_vars(flush_done)
    /\ SF_vars(flush_pending /\ wire' # wire)
    /\ SF_vars(pull_regular)
    /\ SF_vars(send_data /\ wire' # wire)
    /\ \A s \in Streams : SF_vars(\E n \in FrameLens :
            read_promise(s, n) \/ read_copy(s, n) \/ read_eof(s, n) \/ read_deferred(s, n))

FairSpec == Spec /\ Fairness

\* A call that is finished and answered does not hang: its trailers reach the
\* socket, unless the peer resets it or the connection fails.
FinishedEnds ==
    \A s \in Streams :
        (s \in finished /\ source[s] # "none") ~>
            (Has(wire, Frame("TRAILERS", s)) \/ Wiped(s) \/ phase = "failed")

=============================================================================
