--------------------------- MODULE SendPathProofs ---------------------------
(***************************************************************************)
(* The send path, for any streams, messages, frame lengths and policies: a *)
(* promised frame can be sent (PromiseKept), frames never mix              *)
(* (FramesContiguous), and what a call has sent and what its queue holds   *)
(* are the messages written to it (NoByteLost).                            *)
(***************************************************************************)
EXTENDS SendQueueProofs

\* Assigning one member of a function.
LEMMA FnUpdate ==
    ASSUME NEW A, NEW R, NEW f \in [A -> R], NEW a \in A, NEW x, NEW g,
           g = [f EXCEPT ![a] = x]
    PROVE  /\ x \in R => g \in [A -> R]
           /\ g[a] = x /\ \A b \in A : b # a => g[b] = f[b]
OBVIOUS

\* The types of the variables, one by one, for the steps that need only some.
LEMMA Types ==
    ASSUME TypeOK
    PROVE  /\ live \in SUBSET Streams
           /\ out \in [Streams -> Queue]
           /\ source \in [Streams -> {"none", "attached", "ready", "deferred", "ended"}]
           /\ regular \in Seq({"HEADERS", "TRAILERS"} \X Streams)
           /\ out_pending \in Seq(Unit) /\ wire \in Seq(Unit)
           /\ written \in [Streams -> Seq(Msg)]
           /\ dropped \in [Streams -> SUBSET Ids]
           /\ backpressure \in [Streams -> Policies \cup {Unbounded}]
           /\ promise \in [stream : Streams, length : Nat \ {0}] \cup {NoPromise}
BY Zenon DEF TypeOK, Queue

\* The queue can ship the n bytes promised to nghttp2, and its head is pinned.
Covers(q, n) == q.messages # << >> /\ q.front_committed /\ n <= front_remaining(q)

\* The inductive invariant behind PromiseKept.
QInv ==
    /\ TypeOK
    /\ \A s \in Streams : QueueOK(out[s])
    /\ promise # NoPromise => Covers(out[promise.stream], promise.length)

\* It holds initially.
LEMMA QInvInit == Init => QInv
<1> SUFFICES ASSUME Init PROVE QInv OBVIOUS
<1>1. new \in Queue /\ QueueOK(new)
  <2>1. << >> \in Seq(Msg) OBVIOUS
  <2> QED BY <2>1 DEF new, Queue, QueueOK
<1>2. out \in [Streams -> Queue] BY <1>1 DEF Init
<1>3. \A s \in Streams : QueueOK(out[s]) BY <1>1 DEF Init
<1>4. /\ regular \in Seq({"HEADERS", "TRAILERS"} \X Streams)
      /\ out_pending \in Seq(Unit) /\ wire \in Seq(Unit)
  BY DEF Init
<1>5. written \in [Streams -> Seq(Msg)]
  <2>1. << >> \in Seq(Msg) OBVIOUS
  <2> QED BY <2>1 DEF Init
<1>6. dropped \in [Streams -> SUBSET Ids] BY DEF Init
<1>7. source \in [Streams -> {"none", "attached", "ready", "deferred", "ended"}] BY DEF Init
<1>8. phase \in {"idle", "flush", "failed"} /\ live \in SUBSET Streams /\ finished \in SUBSET Streams
  BY DEF Init
<1>9. promise = NoPromise /\ backpressure \in [Streams -> Policies \cup {Unbounded}] BY DEF Init
<1>10. TypeOK BY <1>2, <1>4, <1>5, <1>6, <1>7, <1>8, <1>9, Zenon DEF TypeOK, Queue
<1> QED BY <1>3, <1>9, <1>10, Zenon DEF QInv

\* A promise still holds after a write: the head is pinned.
LEMMA EnqueueCovers ==
    ASSUME NEW q, QueueOK(q), NEW m \in Msg, NEW bp, NEW n, Covers(q, n)
    PROVE  Covers(enqueue_owned(q, m, bp), n)
<1>1. PICK r : r = enqueue_owned(q, m, bp) BY Zenon
<1>2. q.messages # << >> /\ q.front_committed /\ n <= front_remaining(q) BY Zenon DEF Covers
<1>3. InFlight(q) BY <1>2, Zenon DEF InFlight
<1>4. /\ r.front_offset = q.front_offset /\ r.front_committed = q.front_committed
      /\ r.messages # << >> /\ Head(r.messages) = Head(q.messages)
  <2>1. /\ r.front_offset = q.front_offset /\ r.front_committed = q.front_committed
        /\ r.messages # << >>
        /\ (InFlight(q) /\ q.messages # << >>) => Head(r.messages) = Head(q.messages)
    BY <1>1, EnqueueKeeps
  <2> QED BY <1>2, <1>3, <2>1, Zenon
<1>5. front_remaining(r) = front_remaining(q) BY <1>2, <1>4, Zenon DEF front_remaining
<1> QED BY <1>1, <1>2, <1>4, <1>5, Zenon DEF Covers

\* Concatenation of units is associative.
LEMMA UnitAssoc == \A s, t, u \in Seq(Unit) : s \o (t \o u) = (s \o t) \o u
BY SMT

\* What Emit does to the wire and the tail.
LEMMA EmitAppends ==
    ASSUME wire \in Seq(Unit), NEW chunk, chunk \in Seq(Unit), NEW k \in 0..Len(chunk),
           Emit(chunk, k)
    PROVE  /\ wire' \in Seq(Unit) /\ out_pending' \in Seq(Unit)
           /\ Emitted' = wire \o chunk
           /\ phase' \in {"idle", "flush"}
<1>1. PICK w, a, b : w = wire /\ a = SubSeq(chunk, 1, k) /\ b = SubSeq(chunk, k + 1, Len(chunk))
  BY Zenon
<1>2. wire' = w \o a /\ out_pending' = b /\ phase' \in {"idle", "flush"} BY <1>1 DEF Emit
<1>3. Len(chunk) \in Nat /\ k \in Nat /\ k <= Len(chunk) OBVIOUS
<1>4. a \in Seq(Unit) /\ b \in Seq(Unit)
  <2>1. 1 \in Nat \ {0} /\ k + 1 \in Nat \ {0} /\ Len(chunk) <= Len(chunk) BY <1>3
  <2> QED BY <1>1, <1>3, <2>1, SubSeqType, Zenon
<1>5. a \o b = chunk
  <2>1. a \o b = SubSeq(chunk, 1, Len(chunk))
    <3>1. Len(chunk) <= Len(chunk) BY <1>3
    <3> QED BY <1>1, <1>3, <3>1, CutJoins, Zenon
  <2> QED BY <2>1, WholeSubSeq, Zenon
<1>6. w \in Seq(Unit) BY <1>1, Zenon
<1>7. (w \o a) \o b = w \o (a \o b) BY <1>4, <1>6, UnitAssoc, ZenonT(30)
<1>8. w \o a \in Seq(Unit) BY <1>4, <1>6, ConcatType, Zenon
<1>9. Emitted' = wire' \o out_pending' BY DEF Emitted
<1> QED BY <1>1, <1>2, <1>4, <1>5, <1>7, <1>8, <1>9, Zenon

\* Replacing one queue by a good one.
LEMMA QueueUpdate ==
    ASSUME TypeOK, \A t \in Streams : QueueOK(out[t]), NEW s \in Streams, NEW r, QueueOK(r),
           out' = [out EXCEPT ![s] = r]
    PROVE  /\ out' \in [Streams -> Queue]
           /\ \A t \in Streams : QueueOK(out'[t])
           /\ out'[s] = r /\ \A t \in Streams : t # s => out'[t] = out[t]
<1>1. out \in [Streams -> Queue] BY Types, Zenon
<1>2. r \in Queue BY DEF QueueOK
<1>3. out' \in [Streams -> Queue] /\ out'[s] = r /\ \A t \in Streams : t # s => out'[t] = out[t]
  BY <1>1, <1>2
<1> QED BY <1>3, Zenon
-----------------------------------------------------------------------------
(* What a step does: whole frames go out, and the bytes in them leave the  *)
(* queues.  Only write_call is different: it adds a message.               *)

Ships ==
    \E chunk \in Seq(Unit) :
        /\ Contiguous(chunk)
        /\ Emitted' = Emitted \o chunk
        /\ \A t \in Streams : Shipped(out[t], BytesIn(chunk, t), out'[t])

\* No bytes leave the queues while the wire and the tail stay.
LEMMA ShipsSilently ==
    ASSUME QInv, Emitted' = Emitted, \A t \in Streams : Shipped(out[t], << >>, out'[t])
    PROVE  Ships
<1>1. << >> \in Seq(Unit) /\ Contiguous(<< >>) BY DEF Contiguous
<1>2. Emitted' = Emitted \o << >>
  <2>1. wire \in Seq(Unit) /\ out_pending \in Seq(Unit) BY Types, Zenon DEF QInv
  <2>2. PICK e : e = Emitted BY Zenon
  <2>3. e \in Seq(Unit) BY <2>1, <2>2, ConcatType, Zenon DEF Emitted
  <2>4. e \o << >> = e BY <2>3, ConcatEmpty, Zenon
  <2> QED BY <2>2, <2>4, Zenon
<1>3. ASSUME NEW t \in Streams PROVE Shipped(out[t], BytesIn(<< >>, t), out'[t])
  <2>1. BytesIn(<< >>, t) = << >> BY BytesInNothing, Zenon
  <2> QED BY <2>1, Zenon
<1> QED BY <1>1, <1>2, <1>3, Zenon DEF Ships

\* Nothing leaves a queue that stays.
LEMMA StaysShipped ==
    ASSUME QInv, out' = out
    PROVE  \A t \in Streams : Shipped(out[t], << >>, out'[t])
<1> TAKE t \in Streams
<1>1. QueueOK(out[t]) BY Zenon DEF QInv
<1>2. Shipped(out[t], << >>, out[t]) BY <1>1, ShippedNothing, Zenon
<1> QED BY <1>2, Zenon

\* With the tail flushed, Emit puts its chunk after what is out.
LEMMA EmitAfter ==
    ASSUME QInv, out_pending = << >>, NEW chunk, chunk \in Seq(Unit), NEW k \in 0..Len(chunk),
           Emit(chunk, k)
    PROVE  Emitted' = Emitted \o chunk
<1>1. wire \in Seq(Unit) BY Types, Zenon DEF QInv
<1>2. wire \o << >> = wire BY <1>1, ConcatEmpty, Zenon
<1>3. Emitted = wire BY <1>2 DEF Emitted
<1>4. Emitted' = wire \o chunk BY <1>1, EmitAppends, Zenon
<1> QED BY <1>3, <1>4, Zenon

\* A frame without payload.
LEMMA ShipsFrame ==
    ASSUME QInv, out_pending = << >>, NEW u \in Unit, u.kind # "byte", u.length = 0,
           NEW k \in 0..1, Emit(<<u>>, k),
           \A t \in Streams : Shipped(out[t], << >>, out'[t])
    PROVE  /\ Ships /\ wire' \in Seq(Unit) /\ out_pending' \in Seq(Unit)
           /\ phase' \in {"idle", "flush"}
<1>1. PICK c : c = <<u>> BY Zenon
<1>2. c \in Seq(Unit) /\ Len(c) = 1 BY <1>1
<1>3. Contiguous(c) BY <1>1, ContiguousFrame, Zenon
<1>4. k \in 0..Len(c) /\ Emit(c, k) BY <1>1, <1>2, Zenon
<1>5. Emitted' = Emitted \o c BY <1>2, <1>4, EmitAfter, Zenon
<1>6. ASSUME NEW t \in Streams PROVE Shipped(out[t], BytesIn(c, t), out'[t])
  <2>1. BytesIn(c, t) = << >> BY <1>1, BytesInFrame, Zenon
  <2> QED BY <2>1, Zenon
<1>7. Ships BY <1>2, <1>3, <1>5, <1>6, Zenon DEF Ships
<1>8. wire \in Seq(Unit) BY Types, Zenon DEF QInv
<1>9. wire' \in Seq(Unit) /\ out_pending' \in Seq(Unit) /\ phase' \in {"idle", "flush"}
  BY <1>2, <1>4, <1>8, EmitAppends, Zenon
<1> QED BY <1>7, <1>9, Zenon

\* A DATA frame with the bytes that leave the queue of its stream.
LEMMA ShipsData ==
    ASSUME QInv, out_pending = << >>, NEW s \in Streams, NEW bs, bs \in Seq(Byte), NEW chunk,
           chunk = <<DataFrame(s, Len(bs))>> \o Payload(s, bs),
           NEW k \in 0..Len(chunk), Emit(chunk, k),
           Shipped(out[s], bs, out'[s]), \A t \in Streams : t # s => out'[t] = out[t]
    PROVE  /\ Ships /\ wire' \in Seq(Unit) /\ out_pending' \in Seq(Unit)
           /\ phase' \in {"idle", "flush"}
<1>1. /\ chunk \in Seq(Unit) /\ Contiguous(chunk)
      /\ \A t : BytesIn(chunk, t) = IF s = t THEN bs ELSE << >>
  <2>1. /\ <<DataFrame(s, Len(bs))>> \o Payload(s, bs) \in Seq(Unit)
        /\ Contiguous(<<DataFrame(s, Len(bs))>> \o Payload(s, bs))
        /\ \A t : BytesIn(<<DataFrame(s, Len(bs))>> \o Payload(s, bs), t) =
                     IF s = t THEN bs ELSE << >>
    BY ContiguousData, Zenon
  <2> QED BY <2>1, Zenon
<1>2. Emitted' = Emitted \o chunk BY <1>1, EmitAfter, Zenon
<1>3. ASSUME NEW t \in Streams PROVE Shipped(out[t], BytesIn(chunk, t), out'[t])
  <2>1. CASE s = t
    <3>1. BytesIn(chunk, t) = bs BY <1>1, <2>1, Zenon
    <3> QED BY <2>1, <3>1, Zenon
  <2>2. CASE s # t
    <3>1. BytesIn(chunk, t) = << >> BY <1>1, <2>2, Zenon
    <3>2. QueueOK(out[t]) BY Zenon DEF QInv
    <3>3. Shipped(out[t], << >>, out[t]) BY <3>2, ShippedNothing, Zenon
    <3>4. out'[t] = out[t] BY <2>2, Zenon
    <3> QED BY <3>1, <3>3, <3>4, Zenon
  <2> QED BY <2>1, <2>2
<1>4. Ships BY <1>1, <1>2, <1>3, Zenon DEF Ships
<1>5. wire \in Seq(Unit) BY Types, Zenon DEF QInv
<1>6. wire' \in Seq(Unit) /\ out_pending' \in Seq(Unit) /\ phase' \in {"idle", "flush"}
  BY <1>1, <1>5, EmitAppends, Zenon
<1> QED BY <1>4, <1>6, Zenon

-----------------------------------------------------------------------------
(* The steps, one lemma per action.                                        *)

\* What every step but write_call does.
Sound == QInv' /\ live' \subseteq live /\ Ships /\ written' = written /\ dropped' = dropped

\* The steps that leave queues and wire alone.
LEMMA QuietStep ==
    ASSUME QInv, out' = out, wire' = wire, out_pending' = out_pending,
           written' = written, dropped' = dropped,
           phase' \in {"idle", "flush", "failed"}, live' \subseteq live,
           backpressure' \in [Streams -> Policies \cup {Unbounded}], finished' \in SUBSET Streams,
           source' \in [Streams -> {"none", "attached", "ready", "deferred", "ended"}],
           regular' \in Seq({"HEADERS", "TRAILERS"} \X Streams),
           promise' = promise \/ promise' = NoPromise
    PROVE  Sound
<1>1. Ships
  <2>1. Emitted' = Emitted BY Zenon DEF Emitted
  <2>2. \A t \in Streams : Shipped(out[t], << >>, out'[t]) BY StaysShipped, Zenon
  <2> QED BY <2>1, <2>2, ShipsSilently, Zenon
<1>2. TypeOK BY DEF QInv
<1>3. live' \in SUBSET Streams
  <2>1. live \in SUBSET Streams BY <1>2, Types, Zenon
  <2> QED BY <2>1
<1>4. promise' \in [stream : Streams, length : Nat \ {0}] \cup {NoPromise}
  <2>1. promise \in [stream : Streams, length : Nat \ {0}] \cup {NoPromise}
    BY <1>2, Types, Zenon
  <2> QED BY <2>1
<1>5. TypeOK' BY <1>2, <1>3, <1>4, Zenon DEF TypeOK
<1>6. \A s \in Streams : QueueOK(out'[s]) BY Zenon DEF QInv
<1>7. promise' # NoPromise => Covers(out'[promise'.stream], promise'.length)
  BY Zenon DEF QInv
<1>8. QInv' BY <1>5, <1>6, <1>7, Zenon DEF QInv
<1> QED BY <1>1, <1>8, Zenon DEF Sound

\* What Resumed gives is a state of each source.
LEMMA ResumedType ==
    ASSUME TypeOK, NEW s \in Streams
    PROVE  Resumed(s) \in [Streams -> {"none", "attached", "ready", "deferred", "ended"}]
<1>1. source \in [Streams -> {"none", "attached", "ready", "deferred", "ended"}]
  BY Types, Zenon
<1> QED BY <1>1 DEF Resumed

\* submit_response_for queues HEADERS.
LEMMA SubmitStep == ASSUME QInv, NEW s \in Streams, submit_response_for(s) PROVE Sound
<1>1. TypeOK BY DEF QInv
<1>2. /\ out' = out /\ wire' = wire /\ out_pending' = out_pending
      /\ written' = written /\ dropped' = dropped /\ promise' = promise
      /\ phase' = phase /\ live' = live /\ backpressure' = backpressure /\ finished' = finished
      /\ source' = [source EXCEPT ![s] = "attached"]
      /\ regular' = Append(regular, <<"HEADERS", s>>)
  BY DEF submit_response_for, queueVars, pastVars
<1>3. source' \in [Streams -> {"none", "attached", "ready", "deferred", "ended"}]
  <2>1. source \in [Streams -> {"none", "attached", "ready", "deferred", "ended"}]
    BY <1>1, Types, Zenon
  <2> QED BY <1>2, <2>1
<1>4. regular' \in Seq({"HEADERS", "TRAILERS"} \X Streams)
  <2>1. regular \in Seq({"HEADERS", "TRAILERS"} \X Streams) BY <1>1, Types, Zenon
  <2> QED BY <1>2, <2>1
<1>5. /\ phase' \in {"idle", "flush", "failed"} /\ live' \subseteq live
      /\ backpressure' \in [Streams -> Policies \cup {Unbounded}] /\ finished' \in SUBSET Streams
  BY <1>1, <1>2, Zenon DEF TypeOK
<1> QED BY <1>2, <1>3, <1>4, <1>5, QuietStep, Zenon

\* set_stream_policy changes what later writes may drop, nothing that is queued.
LEMMA PolicyStep ==
    ASSUME QInv, NEW s \in Streams, NEW bp \in Policies, set_stream_policy(s, bp)
    PROVE  Sound
<1>1. TypeOK BY DEF QInv
<1>2. /\ out' = out /\ wire' = wire /\ out_pending' = out_pending
      /\ written' = written /\ dropped' = dropped /\ promise' = promise
      /\ phase' = phase /\ live' = live /\ finished' = finished
      /\ source' = source /\ regular' = regular
      /\ backpressure' = [backpressure EXCEPT ![s] = bp]
  BY DEF set_stream_policy, sendVars, pastVars
<1>3. backpressure' \in [Streams -> Policies \cup {Unbounded}]
  <2>1. backpressure \in [Streams -> Policies \cup {Unbounded}] BY <1>1, Types, Zenon
  <2> QED BY <1>2, <2>1
<1>4. /\ phase' \in {"idle", "flush", "failed"} /\ live' \subseteq live /\ finished' \in SUBSET Streams
      /\ source' \in [Streams -> {"none", "attached", "ready", "deferred", "ended"}]
      /\ regular' \in Seq({"HEADERS", "TRAILERS"} \X Streams)
  BY <1>1, <1>2, Zenon DEF TypeOK
<1> QED BY <1>2, <1>3, <1>4, QuietStep, Zenon

\* finish_call may resume the data source.
LEMMA FinishStep == ASSUME QInv, NEW s \in Streams, finish_call(s) PROVE Sound
<1>1. TypeOK BY DEF QInv
<1>2. /\ out' = out /\ wire' = wire /\ out_pending' = out_pending
      /\ written' = written /\ dropped' = dropped /\ promise' = promise
      /\ phase' = phase /\ live' = live /\ backpressure' = backpressure
      /\ regular' = regular /\ finished' = finished \cup {s} /\ source' = Resumed(s)
  BY DEF finish_call, pastVars
<1>3. source' \in [Streams -> {"none", "attached", "ready", "deferred", "ended"}]
  BY <1>1, <1>2, ResumedType, Zenon
<1>4. finished' \in SUBSET Streams
  <2>1. finished \in SUBSET Streams BY <1>1, Zenon DEF TypeOK
  <2> QED BY <1>2, <2>1
<1>5. /\ phase' \in {"idle", "flush", "failed"} /\ live' \subseteq live
      /\ backpressure' \in [Streams -> Policies \cup {Unbounded}]
      /\ regular' \in Seq({"HEADERS", "TRAILERS"} \X Streams)
  BY <1>1, <1>2, Zenon DEF TypeOK
<1> QED BY <1>2, <1>3, <1>4, <1>5, QuietStep, Zenon

\* The part of a reset that on_stream_close and a stale promise share.
LEMMA ClosingTypes ==
    ASSUME QInv, NEW s \in Streams, Closing(s)
    PROVE  /\ live' \subseteq live
           /\ source' \in [Streams -> {"none", "attached", "ready", "deferred", "ended"}]
           /\ regular' \in Seq({"HEADERS", "TRAILERS"} \X Streams)
           /\ promise' = promise \/ promise' = NoPromise
<1>1. TypeOK BY DEF QInv
<1>2. live' \subseteq live BY DEF Closing
<1>3. source' \in [Streams -> {"none", "attached", "ready", "deferred", "ended"}]
  <2>1. source \in [Streams -> {"none", "attached", "ready", "deferred", "ended"}]
    BY <1>1, Types, Zenon
  <2> QED BY <2>1 DEF Closing
<1>4. regular' \in Seq({"HEADERS", "TRAILERS"} \X Streams)
  <2>1. PICK X, S : X = {"HEADERS", "TRAILERS"} \X Streams
                    /\ S = {"HEADERS", "TRAILERS"} \X (Streams \ {s})
    BY Zenon
  <2>2. regular \in Seq(X) BY <1>1, <2>1, Types, Zenon
  <2>3. regular' = Only(regular, S) BY <2>1, Zenon DEF Closing
  <2>4. regular' \in Seq(X \cap S) BY <2>2, <2>3, OnlyType, Zenon
  <2>5. regular' \in Seq(X) BY <2>4
  <2> QED BY <2>1, <2>5, Zenon
<1>5. promise' = promise \/ promise' = NoPromise BY DEF Closing
<1> QED BY <1>2, <1>3, <1>4, <1>5, Zenon

\* A reset forgets the call and its promise.
LEMMA CloseStep == ASSUME QInv, NEW s \in Streams, on_stream_close(s) PROVE Sound
<1>1. TypeOK BY DEF QInv
<1>2. /\ out' = out /\ wire' = wire /\ out_pending' = out_pending
      /\ written' = written /\ dropped' = dropped
      /\ phase' = phase /\ backpressure' = backpressure /\ finished' = finished
  BY DEF on_stream_close, pastVars
<1>3. Closing(s) BY DEF on_stream_close
<1>4. /\ live' \subseteq live
      /\ source' \in [Streams -> {"none", "attached", "ready", "deferred", "ended"}]
      /\ regular' \in Seq({"HEADERS", "TRAILERS"} \X Streams)
      /\ promise' = promise \/ promise' = NoPromise
  BY <1>3, ClosingTypes, Zenon
<1>5. /\ phase' \in {"idle", "flush", "failed"} /\ finished' \in SUBSET Streams
      /\ backpressure' \in [Streams -> Policies \cup {Unbounded}]
  BY <1>1, <1>2, Zenon DEF TypeOK
<1> QED BY <1>2, <1>4, <1>5, QuietStep, Zenon

\* start_flush, flush_done, flush_error and stuttering change the phase at most.
LEMMA PhaseStep ==
    ASSUME QInv, start_flush \/ flush_done \/ flush_error \/ UNCHANGED vars PROVE Sound
<1>1. TypeOK BY DEF QInv
<1>2. /\ out' = out /\ wire' = wire /\ out_pending' = out_pending
      /\ written' = written /\ dropped' = dropped /\ promise' = promise
      /\ live' = live /\ backpressure' = backpressure /\ finished' = finished
      /\ regular' = regular /\ source' = source
      /\ (phase' = phase \/ phase' \in {"idle", "flush", "failed"})
  BY DEF start_flush, flush_done, flush_error, vars, queueVars, sendVars, pastVars
<1>3. /\ phase' \in {"idle", "flush", "failed"} /\ live' \subseteq live /\ finished' \in SUBSET Streams
      /\ source' \in [Streams -> {"none", "attached", "ready", "deferred", "ended"}]
      /\ regular' \in Seq({"HEADERS", "TRAILERS"} \X Streams)
      /\ backpressure' \in [Streams -> Policies \cup {Unbounded}]
  BY <1>1, <1>2, Zenon DEF TypeOK
<1> QED BY <1>2, <1>3, QuietStep, Zenon

\* The steps that ship something.
LEMMA ShippingStep ==
    ASSUME QInv, Ships, written' = written, dropped' = dropped,
           backpressure' = backpressure, finished' = finished,
           phase' \in {"idle", "flush", "failed"}, live' \subseteq live,
           wire' \in Seq(Unit), out_pending' \in Seq(Unit),
           out' \in [Streams -> Queue], \A t \in Streams : QueueOK(out'[t]),
           source' \in [Streams -> {"none", "attached", "ready", "deferred", "ended"}],
           regular' \in Seq({"HEADERS", "TRAILERS"} \X Streams),
           promise' = NoPromise
    PROVE  Sound
<1>1. TypeOK BY DEF QInv
<1>2. live' \in SUBSET Streams
  <2>1. live \in SUBSET Streams BY <1>1, Types, Zenon
  <2> QED BY <2>1
<1>3. promise' \in [stream : Streams, length : Nat \ {0}] \cup {NoPromise} OBVIOUS
<1>4. TypeOK' BY <1>1, <1>2, <1>3, Zenon DEF TypeOK, Queue
<1>5. QInv' BY <1>4, Zenon DEF QInv
<1> QED BY <1>5, Zenon DEF Sound

\* flush_writes takes up the tail: what is out stays the same.
LEMMA PendingStep == ASSUME QInv, flush_pending PROVE Sound
<1>1. TypeOK BY DEF QInv
<1>2. /\ out' = out /\ written' = written /\ dropped' = dropped /\ promise' = promise
      /\ live' = live /\ backpressure' = backpressure /\ finished' = finished
      /\ regular' = regular /\ source' = source
  BY DEF flush_pending, queueVars, sendVars, pastVars
<1>3. PICK k \in 0..Len(out_pending) : Emit(out_pending, k) BY Zenon DEF flush_pending
<1>4. wire \in Seq(Unit) /\ out_pending \in Seq(Unit) BY <1>1, Types, Zenon
<1>5. /\ wire' \in Seq(Unit) /\ out_pending' \in Seq(Unit)
      /\ Emitted' = wire \o out_pending /\ phase' \in {"idle", "flush"}
  BY <1>3, <1>4, EmitAppends, Zenon
<1>6. Emitted' = Emitted BY <1>5, Zenon DEF Emitted
<1>7. Ships
  <2>1. \A t \in Streams : Shipped(out[t], << >>, out'[t]) BY <1>2, StaysShipped, Zenon
  <2> QED BY <1>6, <2>1, ShipsSilently, Zenon
<1>8. phase' \in {"idle", "flush", "failed"} BY <1>5
<1>9. TypeOK' BY <1>1, <1>2, <1>5, <1>8, Zenon DEF TypeOK
<1>10. QInv' BY <1>2, <1>9, Zenon DEF QInv
<1>11. live' \subseteq live BY <1>2
<1> QED BY <1>2, <1>7, <1>10, <1>11, Zenon DEF Sound

\* A HEADERS or trailers frame goes out between two DATA frames.
LEMMA RegularStep == ASSUME QInv, pull_regular PROVE Sound
<1>1. TypeOK BY DEF QInv
<1>2. PICK kind, s : kind = Head(regular)[1] /\ s = Head(regular)[2] BY Zenon
<1>3. /\ out_pending = << >> /\ promise = NoPromise /\ regular # << >>
      /\ out' = out /\ backpressure' = backpressure /\ finished' = finished
      /\ promise' = promise /\ written' = written /\ dropped' = dropped
      /\ regular' = Tail(regular)
      /\ source' = [source EXCEPT ![s] = IF kind = "HEADERS" THEN "ready" ELSE "ended"]
      /\ live' = IF kind = "HEADERS" THEN live ELSE live \ {s}
  BY <1>2 DEF pull_regular, Pulling, pastVars
<1>4. regular \in Seq({"HEADERS", "TRAILERS"} \X Streams) BY <1>1, Types, Zenon
<1>5. /\ regular' \in Seq({"HEADERS", "TRAILERS"} \X Streams)
      /\ kind \in {"HEADERS", "TRAILERS"} /\ s \in Streams
  <2>1. /\ Head(regular) \in {"HEADERS", "TRAILERS"} \X Streams
        /\ Tail(regular) \in Seq({"HEADERS", "TRAILERS"} \X Streams)
    BY <1>3, <1>4, HeadTail, Zenon
  <2>2. kind \in {"HEADERS", "TRAILERS"} /\ s \in Streams BY <1>2, <2>1
  <2> QED BY <1>3, <2>1, <2>2, Zenon
<1>6. PICK k \in 0..1 : Emit(<<Frame(kind, s)>>, k) BY <1>2, Zenon DEF pull_regular
<1>7. PICK u : u = Frame(kind, s) BY Zenon
<1>8. u \in Unit /\ u.kind # "byte" /\ u.length = 0 BY <1>5, <1>7 DEF Frame, Unit
<1>9. Emit(<<u>>, k) BY <1>6, <1>7, Zenon
<1>10. \A t \in Streams : Shipped(out[t], << >>, out'[t]) BY <1>3, StaysShipped, Zenon
<1>11. /\ Ships /\ wire' \in Seq(Unit) /\ out_pending' \in Seq(Unit)
       /\ phase' \in {"idle", "flush"}
  BY <1>3, <1>8, <1>9, <1>10, ShipsFrame, Zenon
<1>12. source' \in [Streams -> {"none", "attached", "ready", "deferred", "ended"}]
  <2>1. source \in [Streams -> {"none", "attached", "ready", "deferred", "ended"}]
    BY <1>1, Types, Zenon
  <2> QED BY <1>3, <2>1, Zenon
<1>13. live' \subseteq live /\ phase' \in {"idle", "flush", "failed"} BY <1>3, <1>11
<1>14. out' \in [Streams -> Queue] /\ \A t \in Streams : QueueOK(out'[t])
  BY <1>1, <1>3, Types, Zenon DEF QInv
<1>15. promise' = NoPromise BY <1>3, Zenon
<1> QED BY <1>3, <1>5, <1>11, <1>12, <1>13, <1>14, <1>15, ShippingStep, ZenonT(30)

\* What the two readers share: nothing is promised, nothing waits in front of DATA, and
\* the queue drains.
LEMMA ReadFacts ==
    ASSUME QInv, NEW s \in Streams, NEW n \in FrameLens, ReadCopy(s, n), NEW d,
           d = drain_into(out[s], n)
    PROVE  /\ out_pending = << >> /\ promise = NoPromise
           /\ d.copied \in Seq(Byte) /\ Shipped(out[s], d.copied, out'[s])
           /\ out' \in [Streams -> Queue] /\ \A t \in Streams : QueueOK(out'[t])
           /\ \A t \in Streams : t # s => out'[t] = out[t]
<1>1. n \in Nat BY SendAssumption
<1>2. TypeOK /\ \A t \in Streams : QueueOK(out[t]) BY DEF QInv
<1>3. out_pending = << >> /\ promise = NoPromise BY DEF ReadCopy, CanPullData, Pulling
<1>4. out' = [out EXCEPT ![s] = d.queue] BY DEF ReadCopy
<1>5. Draining(out[s], d, n) BY <1>1, <1>2, DrainShips, Zenon
<1>6. QueueOK(d.queue) /\ d.copied \in Seq(Byte) /\ Shipped(out[s], d.copied, d.queue)
  BY <1>5, Zenon DEF Draining
<1>7. /\ out' \in [Streams -> Queue] /\ \A t \in Streams : QueueOK(out'[t])
      /\ out'[s] = d.queue /\ \A t \in Streams : t # s => out'[t] = out[t]
  BY <1>2, <1>4, <1>6, QueueUpdate, Zenon
<1> QED BY <1>3, <1>6, <1>7, Zenon

\* A copied DATA frame carries what drain_into took from the queue.
LEMMA CopyStep ==
    ASSUME QInv, NEW s \in Streams, NEW n \in FrameLens, read_copy(s, n) PROVE Sound
<1>1. TypeOK BY DEF QInv
<1>2. PICK d : d = drain_into(out[s], n) BY Zenon
<1>3. PICK chunk : chunk = <<DataFrame(s, Len(d.copied))>> \o Payload(s, d.copied) BY Zenon
<1>4. ReadCopy(s, n) BY DEF read_copy
<1>5. PICK k \in 0..Len(chunk) : Emit(chunk, k) BY <1>2, <1>3, Zenon DEF read_copy
<1>6. /\ backpressure' = backpressure /\ finished' = finished /\ live' = live
      /\ written' = written /\ dropped' = dropped
      /\ source' = source /\ regular' = regular /\ promise' = promise
  BY DEF read_copy, sendVars, pastVars
<1>7. /\ out_pending = << >> /\ promise = NoPromise
      /\ d.copied \in Seq(Byte) /\ Shipped(out[s], d.copied, out'[s])
      /\ out' \in [Streams -> Queue] /\ \A t \in Streams : QueueOK(out'[t])
      /\ \A t \in Streams : t # s => out'[t] = out[t]
  BY <1>2, <1>4, ReadFacts, Zenon
<1>8. /\ Ships /\ wire' \in Seq(Unit) /\ out_pending' \in Seq(Unit)
      /\ phase' \in {"idle", "flush"}
  BY <1>3, <1>5, <1>7, ShipsData, Zenon
<1>9. /\ source' \in [Streams -> {"none", "attached", "ready", "deferred", "ended"}]
      /\ regular' \in Seq({"HEADERS", "TRAILERS"} \X Streams)
  BY <1>1, <1>6, Types, Zenon
<1>10. live' \subseteq live /\ phase' \in {"idle", "flush", "failed"} BY <1>6, <1>8
<1>11. promise' = NoPromise BY <1>6, <1>7, Zenon
<1> QED BY <1>6, <1>7, <1>8, <1>9, <1>10, <1>11, ShippingStep, Zenon

\* The end of the data goes out as an empty DATA frame.
LEMMA EofStep ==
    ASSUME QInv, NEW s \in Streams, NEW n \in FrameLens, read_eof(s, n) PROVE Sound
<1>1. TypeOK BY DEF QInv
<1>2. PICK d : d = drain_into(out[s], n) BY Zenon
<1>3. ReadCopy(s, n) /\ d.copied = << >> BY <1>2, Zenon DEF read_eof, EndsData
<1>4. PICK k \in 0..1 : Emit(<<DataFrame(s, 0)>>, k) BY Zenon DEF read_eof
<1>5. /\ backpressure' = backpressure /\ finished' = finished /\ live' = live
      /\ written' = written /\ dropped' = dropped /\ promise' = promise
      /\ source' = [source EXCEPT ![s] = "ended"]
      /\ regular' = Append(regular, <<"TRAILERS", s>>)
  BY DEF read_eof, pastVars
<1>6. /\ out_pending = << >> /\ promise = NoPromise
      /\ d.copied \in Seq(Byte) /\ Shipped(out[s], d.copied, out'[s])
      /\ out' \in [Streams -> Queue] /\ \A t \in Streams : QueueOK(out'[t])
      /\ \A t \in Streams : t # s => out'[t] = out[t]
  BY <1>2, <1>3, ReadFacts, Zenon
<1>7. \A t \in Streams : Shipped(out[t], << >>, out'[t])
  <2> TAKE t \in Streams
  <2>1. CASE t = s BY <1>3, <1>6, <2>1, Zenon
  <2>2. CASE t # s
    <3>1. QueueOK(out[t]) BY Zenon DEF QInv
    <3>2. Shipped(out[t], << >>, out[t]) BY <3>1, ShippedNothing, Zenon
    <3> QED BY <1>6, <2>2, <3>2, Zenon
  <2> QED BY <2>1, <2>2
<1>8. PICK u : u = DataFrame(s, 0) BY Zenon
<1>9. u \in Unit /\ u.kind # "byte" /\ u.length = 0 BY <1>8 DEF DataFrame, Unit
<1>10. Emit(<<u>>, k) BY <1>4, <1>8, Zenon
<1>11. /\ Ships /\ wire' \in Seq(Unit) /\ out_pending' \in Seq(Unit)
       /\ phase' \in {"idle", "flush"}
  BY <1>6, <1>7, <1>9, <1>10, ShipsFrame, Zenon
<1>12. source' \in [Streams -> {"none", "attached", "ready", "deferred", "ended"}]
  <2>1. source \in [Streams -> {"none", "attached", "ready", "deferred", "ended"}]
    BY <1>1, Types, Zenon
  <2> QED BY <1>5, <2>1
<1>13. regular' \in Seq({"HEADERS", "TRAILERS"} \X Streams)
  <2>1. regular \in Seq({"HEADERS", "TRAILERS"} \X Streams) BY <1>1, Types, Zenon
  <2> QED BY <1>5, <2>1
<1>14. live' \subseteq live /\ phase' \in {"idle", "flush", "failed"} BY <1>5, <1>11
<1>15. promise' = NoPromise BY <1>5, <1>6, Zenon
<1> QED BY <1>5, <1>6, <1>11, <1>12, <1>13, <1>14, <1>15, ShippingStep, ZenonT(30)

\* A deferred source ships nothing.
LEMMA DeferredStep ==
    ASSUME QInv, NEW s \in Streams, NEW n \in FrameLens, read_deferred(s, n) PROVE Sound
<1>1. TypeOK BY DEF QInv
<1>2. PICK d : d = drain_into(out[s], n) BY Zenon
<1>3. ReadCopy(s, n) /\ d.copied = << >> BY <1>2, Zenon DEF read_deferred
<1>4. /\ backpressure' = backpressure /\ finished' = finished /\ live' = live
      /\ written' = written /\ dropped' = dropped /\ promise' = promise
      /\ wire' = wire /\ out_pending' = out_pending /\ phase' = phase /\ regular' = regular
      /\ source' = [source EXCEPT ![s] = "deferred"]
  BY DEF read_deferred, pastVars
<1>5. /\ promise = NoPromise
      /\ d.copied \in Seq(Byte) /\ Shipped(out[s], d.copied, out'[s])
      /\ out' \in [Streams -> Queue] /\ \A t \in Streams : QueueOK(out'[t])
      /\ \A t \in Streams : t # s => out'[t] = out[t]
  BY <1>2, <1>3, ReadFacts, Zenon
<1>6. \A t \in Streams : Shipped(out[t], << >>, out'[t])
  <2> TAKE t \in Streams
  <2>1. CASE t = s BY <1>3, <1>5, <2>1, Zenon
  <2>2. CASE t # s
    <3>1. QueueOK(out[t]) BY Zenon DEF QInv
    <3>2. Shipped(out[t], << >>, out[t]) BY <3>1, ShippedNothing, Zenon
    <3> QED BY <1>5, <2>2, <3>2, Zenon
  <2> QED BY <2>1, <2>2
<1>7. Ships
  <2>1. Emitted' = Emitted BY <1>4, Zenon DEF Emitted
  <2> QED BY <1>6, <2>1, ShipsSilently, Zenon
<1>8. source' \in [Streams -> {"none", "attached", "ready", "deferred", "ended"}]
  <2>1. source \in [Streams -> {"none", "attached", "ready", "deferred", "ended"}]
    BY <1>1, Types, Zenon
  <2> QED BY <1>4, <2>1
<1>9. /\ wire' \in Seq(Unit) /\ out_pending' \in Seq(Unit)
      /\ regular' \in Seq({"HEADERS", "TRAILERS"} \X Streams)
      /\ phase' \in {"idle", "flush", "failed"}
  BY <1>1, <1>4, Zenon DEF TypeOK
<1>10. live' \subseteq live BY <1>4
<1>11. promise' = NoPromise BY <1>4, <1>5, Zenon
<1> QED BY <1>4, <1>5, <1>7, <1>8, <1>9, <1>10, <1>11, ShippingStep, ZenonT(30)

\* A promise pins a head that has the promised bytes, and ships nothing.
LEMMA PromiseCovers ==
    ASSUME NEW q, QueueOK(q), NEW n \in Nat \ {0}, front_remaining(q) >= NoCopyMin
    PROVE  /\ QueueOK(promise_front(q, n)) /\ promised(q, n) \in Nat \ {0}
           /\ Covers(promise_front(q, n), promised(q, n))
           /\ Shipped(q, << >>, promise_front(q, n))
<1>1. PICK r, fr, p : r = promise_front(q, n) /\ fr = front_remaining(q) /\ p = promised(q, n)
  BY Zenon
<1>2. n \in Nat OBVIOUS
<1>3. /\ QueueOK(r) /\ r.messages = q.messages /\ r.front_offset = q.front_offset
      /\ (p > 0 => r.front_committed)
  BY <1>1, <1>2, PromisePins, Zenon
<1>4. NoCopyMin \in Nat \ {0} BY SendAssumption
<1>5. q.messages # << >>
  <2>1. ASSUME q.messages = << >> PROVE FALSE
    <3>1. fr = 0 BY <1>1, <2>1, Zenon DEF front_remaining
    <3> QED BY <1>1, <1>4, <3>1
  <2> QED BY <2>1
<1>6. fr \in Nat \ {0}
  <2>1. PICK h : h = Head(q.messages) BY Zenon
  <2>2. h \in Msg /\ q.front_offset \in 0..len(h) BY <1>5, <2>1, QueueFacts, Zenon
  <2>3. len(h) \in Nat BY <2>2, BytesType
  <2>4. fr = len(h) - q.front_offset BY <1>1, <1>5, <2>1, Zenon DEF front_remaining
  <2>5. fr \in Nat BY <2>2, <2>3, <2>4
  <2> QED BY <1>1, <1>4, <2>5
<1>7. p = IF fr <= n THEN fr ELSE n BY <1>1, Zenon DEF promised, least
<1>8. p \in Nat \ {0} /\ p > 0 /\ p <= fr BY <1>6, <1>7
<1>9. front_remaining(r) = fr BY <1>1, <1>3, <1>5, Zenon DEF front_remaining
<1>10. Covers(r, p) BY <1>3, <1>5, <1>8, <1>9, Zenon DEF Covers
<1>11. Shipped(q, << >>, r)
  <2>1. Front(r) = Front(q) BY <1>3, Zenon DEF Front
  <2>2. Shipped(q, << >>, q) BY ShippedNothing, Zenon
  <2> QED BY <1>3, <2>1, <2>2, Zenon DEF Shipped
<1> QED BY <1>1, <1>3, <1>8, <1>10, <1>11, Zenon

\* data_provider_read promises bytes the pinned head has.
LEMMA PromiseStep ==
    ASSUME QInv, NEW s \in Streams, NEW n \in FrameLens, read_promise(s, n) PROVE Sound
<1>1. TypeOK /\ \A t \in Streams : QueueOK(out[t]) BY DEF QInv
<1>2. n \in Nat \ {0} BY SendAssumption
<1>3. PICK r, p : r = promise_front(out[s], n) /\ p = promised(out[s], n) BY Zenon
<1>4. /\ front_remaining(out[s]) >= NoCopyMin
      /\ promise' = [stream |-> s, length |-> p] /\ out' = [out EXCEPT ![s] = r]
      /\ phase' = phase /\ live' = live /\ backpressure' = backpressure /\ finished' = finished
      /\ source' = source /\ regular' = regular /\ out_pending' = out_pending /\ wire' = wire
      /\ written' = written /\ dropped' = dropped
  BY <1>3 DEF read_promise, pastVars
<1>5. QueueOK(out[s]) BY <1>1
<1>6. QueueOK(r) /\ p \in Nat \ {0} /\ Covers(r, p) /\ Shipped(out[s], << >>, r)
  BY <1>2, <1>3, <1>4, <1>5, PromiseCovers, Zenon
<1>7. /\ out' \in [Streams -> Queue] /\ \A t \in Streams : QueueOK(out'[t])
      /\ out'[s] = r /\ \A t \in Streams : t # s => out'[t] = out[t]
  BY <1>1, <1>4, <1>6, QueueUpdate, Zenon
<1>8. Ships
  <2>1. Emitted' = Emitted BY <1>4, Zenon DEF Emitted
  <2>2. \A t \in Streams : Shipped(out[t], << >>, out'[t])
    <3> TAKE t \in Streams
    <3>1. CASE t = s BY <1>6, <1>7, <3>1, Zenon
    <3>2. CASE t # s
      <4>1. Shipped(out[t], << >>, out[t]) BY <1>1, ShippedNothing, Zenon
      <4> QED BY <1>7, <3>2, <4>1, Zenon
    <3> QED BY <3>1, <3>2
  <2> QED BY <2>1, <2>2, ShipsSilently, Zenon
<1>9. /\ promise' \in [stream : Streams, length : Nat \ {0}] \cup {NoPromise}
      /\ promise'.stream = s /\ promise'.length = p
  BY <1>4, <1>6
<1>10. TypeOK' BY <1>1, <1>4, <1>7, <1>9, Zenon DEF TypeOK, Queue
<1>11. Covers(out'[promise'.stream], promise'.length) BY <1>6, <1>7, <1>9, Zenon
<1>12. QInv' BY <1>7, <1>10, <1>11, Zenon DEF QInv
<1>13. live' \subseteq live BY <1>4
<1> QED BY <1>4, <1>8, <1>12, <1>13, Zenon DEF Sound

\* A promise the queue covers is not stale.
LEMMA CoveredNotStale ==
    ASSUME NEW q, QueueOK(q), NEW n \in Nat, Covers(q, n)
    PROVE  Len(front_regions(q, n)) = n
<1>1. Len(front_regions(q, n)) = least(n, front_remaining(q)) BY ConsumeShips, Zenon
<1>2. n <= front_remaining(q) BY Zenon DEF Covers
<1> QED BY <1>1, <1>2, Zenon DEF least

\* send_data finds its promise kept, and ships it or waits.
LEMMA SendStep == ASSUME QInv, send_data PROVE Sound
<1>1. TypeOK /\ \A t \in Streams : QueueOK(out[t]) BY DEF QInv
<1>2. PICK s, n : s = promise.stream /\ n = promise.length BY Zenon
<1>3. out_pending = << >> /\ promise # NoPromise BY DEF send_data, Pulling
<1>4. s \in Streams /\ n \in Nat \ {0}
  <2>1. promise \in [stream : Streams, length : Nat \ {0}] BY <1>1, <1>3, Types, Zenon
  <2> QED BY <1>2, <2>1
<1>5. QueueOK(out[s]) /\ Covers(out[s], n) BY <1>1, <1>2, <1>3, <1>4, Zenon DEF QInv
<1>6. PICK bs, r : bs = front_regions(out[s], n) /\ r = consume_front(out[s], n) BY Zenon
<1>7. n \in Nat BY <1>4
<1>8. Len(bs) = n BY <1>5, <1>6, <1>7, CoveredNotStale, Zenon
<1>9. ~Stale BY <1>2, <1>6, <1>8, Zenon DEF Stale
<1>10. /\ bs \in Seq(Byte) /\ QueueOK(r) /\ Shipped(out[s], bs, r)
  BY <1>5, <1>6, <1>7, ConsumeShips, Zenon
<1>11. PICK chunk : chunk = <<DataFrame(s, Len(bs))>> \o Payload(s, bs) BY Zenon
<1>12. /\ backpressure' = backpressure /\ finished' = finished
       /\ written' = written /\ dropped' = dropped
  BY DEF send_data, pastVars
<1>13. \/ /\ phase' = "idle"
          /\ UNCHANGED <<out, promise, live, source, regular, out_pending, wire>>
       \/ /\ \E k \in 1..Len(chunk) : Emit(chunk, k)
          /\ out' = [out EXCEPT ![s] = r]
          /\ promise' = NoPromise
          /\ UNCHANGED <<live, source, regular>>
  <2>1. chunk = <<DataFrame(s, n)>> \o Payload(s, bs) BY <1>8, <1>11, Zenon
  <2> QED BY <1>2, <1>6, <1>9, <2>1, Zenon DEF send_data
<1>14. /\ phase \in {"idle", "flush", "failed"} /\ backpressure' \in [Streams -> Policies \cup {Unbounded}]
       /\ source \in [Streams -> {"none", "attached", "ready", "deferred", "ended"}]
       /\ regular \in Seq({"HEADERS", "TRAILERS"} \X Streams) /\ finished' \in SUBSET Streams
  BY <1>1, <1>12, Zenon DEF TypeOK
<1>15. CASE /\ phase' = "idle"
            /\ UNCHANGED <<out, promise, live, source, regular, out_pending, wire>>
  <2>1. /\ out' = out /\ promise' = promise /\ live' = live /\ source' = source
        /\ regular' = regular /\ out_pending' = out_pending /\ wire' = wire
    BY <1>15
  <2>2. phase' \in {"idle", "flush", "failed"} /\ live' \subseteq live BY <1>15, <2>1
  <2>3. /\ source' \in [Streams -> {"none", "attached", "ready", "deferred", "ended"}]
        /\ regular' \in Seq({"HEADERS", "TRAILERS"} \X Streams)
    BY <1>14, <2>1, Zenon
  <2> QED BY <1>12, <1>14, <2>1, <2>2, <2>3, QuietStep, ZenonT(30)
<1>16. CASE /\ \E k \in 1..Len(chunk) : Emit(chunk, k)
            /\ out' = [out EXCEPT ![s] = r]
            /\ promise' = NoPromise
            /\ UNCHANGED <<live, source, regular>>
  <2>1. /\ out' = [out EXCEPT ![s] = r] /\ promise' = NoPromise
        /\ live' = live /\ source' = source /\ regular' = regular
    BY <1>16
  <2>2. /\ out' \in [Streams -> Queue] /\ \A t \in Streams : QueueOK(out'[t])
        /\ out'[s] = r /\ \A t \in Streams : t # s => out'[t] = out[t]
    BY <1>1, <1>4, <1>10, <2>1, QueueUpdate, Zenon
  <2>3. PICK k \in 1..Len(chunk) : Emit(chunk, k) BY <1>16, Zenon
  <2>4. k \in 0..Len(chunk) OBVIOUS
  <2>5. Shipped(out[s], bs, out'[s]) BY <1>10, <2>2, Zenon
  <2>6. /\ Ships /\ wire' \in Seq(Unit) /\ out_pending' \in Seq(Unit)
        /\ phase' \in {"idle", "flush"}
    BY <1>3, <1>4, <1>10, <1>11, <2>2, <2>3, <2>4, <2>5, ShipsData, ZenonT(30)
  <2>7. live' \subseteq live /\ phase' \in {"idle", "flush", "failed"} BY <2>1, <2>6
  <2>8. /\ source' \in [Streams -> {"none", "attached", "ready", "deferred", "ended"}]
        /\ regular' \in Seq({"HEADERS", "TRAILERS"} \X Streams)
    BY <1>14, <2>1, Zenon
  <2> QED BY <1>12, <2>1, <2>2, <2>6, <2>7, <2>8, ShippingStep, Zenon
<1> QED BY <1>13, <1>15, <1>16, Zenon

\* Ids number the messages of w in their order of writing: the kept ones K have
\* different ids, and neither they nor the dropped ones d are past the last.
Numbered(K, d, n) ==
    /\ DistinctIds(K)
    /\ \A i \in 1..Len(K) : K[i].id <= n
    /\ \A x \in d : x <= n

\* A new message gets a new id.
LEMMA NumberedAppend ==
    ASSUME NEW K \in Seq(Msg), NEW d \in SUBSET Ids, NEW n \in Nat, Numbered(K, d, n), NEW m \in Msg,
           m.id = n + 1
    PROVE  Numbered(K \o <<m>>, d, n + 1) /\ m.id \notin d
<1>1. PICK v, l : v = K \o <<m>> /\ l = Len(K) BY Zenon
<1>2. v = Append(K, m) BY <1>1, AppendIsConcat, Zenon
<1>3. /\ l \in Nat /\ Len(v) = l + 1 /\ v[l + 1] = m /\ \A i \in 1..l : v[i] = K[i]
  BY <1>1, <1>2
<1>4. \A i \in 1..l : v[i].id \in Nat /\ v[i].id <= n
  <2> TAKE i \in 1..l
  <2>1. K[i] \in Msg BY <1>1
  <2>2. K[i].id \in Nat BY <2>1, SendAssumption DEF Msg, Ids
  <2>3. K[i].id <= n BY <1>1, Zenon DEF Numbered
  <2> QED BY <1>3, <2>2, <2>3, Zenon
<1>5. \A i, j \in 1..l : i # j => v[i].id # v[j].id
  <2> TAKE i, j \in 1..l
  <2>1. i # j => K[i].id # K[j].id BY <1>1, Zenon DEF Numbered, DistinctIds
  <2> QED BY <1>3, <2>1, Zenon
<1>6. \A i \in 1..l : v[i].id # v[l + 1].id
  <2> TAKE i \in 1..l
  <2>1. v[i].id \in Nat /\ v[i].id <= n BY <1>4
  <2>2. v[l + 1].id = n + 1 BY <1>3, Zenon
  <2> QED BY <2>1, <2>2
<1>7. DistinctIds(v)
  <2> SUFFICES ASSUME NEW i \in 1..Len(v), NEW j \in 1..Len(v), i # j
               PROVE  v[i].id # v[j].id
    BY Zenon DEF DistinctIds
  <2>1. (i \in 1..l \/ i = l + 1) /\ (j \in 1..l \/ j = l + 1) BY <1>3
  <2> QED BY <1>5, <1>6, <2>1, Zenon
<1>8. \A i \in 1..Len(v) : v[i].id <= n + 1
  <2> TAKE i \in 1..Len(v)
  <2>1. CASE i \in 1..l
    <3>1. v[i].id \in Nat /\ v[i].id <= n BY <1>4, <2>1
    <3> QED BY <3>1
  <2>2. CASE i = l + 1
    <3>1. v[i].id = n + 1 BY <1>3, <2>2, Zenon
    <3> QED BY <3>1
  <2>3. i \in 1..l \/ i = l + 1 BY <1>3
  <2> QED BY <2>1, <2>2, <2>3
<1>9. \A x \in d : x <= n BY Zenon DEF Numbered
<1>10. m.id \notin d
  <2>1. ASSUME m.id \in d PROVE FALSE
    <3>1. n + 1 <= n BY <1>9, <2>1, Zenon
    <3> QED BY <3>1
  <2> QED BY <2>1
<1>11. \A x \in d : x <= n + 1 BY <1>9, SendAssumption DEF Ids
<1> QED BY <1>1, <1>7, <1>8, <1>10, <1>11, Zenon DEF Numbered
\* The ids dropped from a call after an enqueue, d being those before it.
DroppedBy(q, bp, d) ==
    IF DropIndex(q, bp) = 0 THEN d ELSE d \cup {q.messages[DropIndex(q, bp)].id}

\* A write to a call: w its messages, d the dropped ids, K the kept messages, B the
\* bytes sent, q the queue; m the new message, r, e and L the next q, d and K.
Writing(w, d, K, B, q, m, bp, r, e, L) ==
    /\ w \in Seq(Msg) /\ d \in SUBSET Ids /\ m \in Msg
    /\ QueueOK(q) /\ Account(K, B, q) /\ Numbered(K, d, Len(w))
    /\ m.id = Len(w) + 1
    /\ K = Only(w, Others(d))
    /\ r = enqueue_owned(q, m, bp)
    /\ e = DroppedBy(q, bp, d)
    /\ L = Only(Append(w, m), Others(e))

\* What a call keeps of its messages after a write is what it accounts for.
LEMMA WriteAccounts ==
    ASSUME NEW w, NEW d, NEW K, NEW B, NEW q, NEW m, NEW bp, NEW r, NEW e, NEW L,
           Writing(w, d, K, B, q, m, bp, r, e, L)
    PROVE  Account(L, B, r) /\ Numbered(L, e, Len(w) + 1)
<1>1. PICK n, idx, ms, S : /\ n = Len(w) /\ idx = DropIndex(q, bp) /\ ms = q.messages
                           /\ S = Others(e)
  BY Zenon
<1>11. w \in Seq(Msg) /\ d \in SUBSET Ids /\ m \in Msg BY Zenon DEF Writing
<1>12. QueueOK(q) /\ Account(K, B, q) BY Zenon DEF Writing
<1>13. Numbered(K, d, n) /\ m.id = n + 1 BY <1>1, Zenon DEF Writing
<1>14. K = Only(w, Others(d)) BY Zenon DEF Writing
<1>15. r = enqueue_owned(q, m, bp) BY Zenon DEF Writing
<1>16. L = Only(Append(w, m), S) BY <1>1, Zenon DEF Writing
<1>17. e = IF idx = 0 THEN d ELSE d \cup {ms[idx].id} BY <1>1, Zenon DEF Writing, DroppedBy
<1>2. n \in Nat BY <1>1, <1>11
<1>3. K \in Seq(Msg) /\ \A i \in 1..Len(K) : K[i].id \notin d
  <2>1. K \in Seq(Msg \cap Others(d)) BY <1>11, <1>14, OnlyType, Zenon
  <2>2. K \in Seq(Msg) /\ \A i \in 1..Len(K) : K[i] \in Others(d) BY <2>1
  <2> QED BY <2>2 DEF Others
<1>4. Numbered(K \o <<m>>, d, n + 1) /\ m.id \notin d
  BY <1>2, <1>3, <1>11, <1>13, NumberedAppend, Zenon
<1>5. /\ r.messages = Append(Without(ms, idx), m) /\ Front(r) = Front(q)
  <2>1. r.messages = Append(Without(q.messages, DropIndex(q, bp)), m) /\ Front(r) = Front(q)
    BY <1>11, <1>12, <1>15, EnqueueKeeps
  <2> QED BY <1>1, <2>1, Zenon
<1>6. idx \in {0, 1, 2} /\ idx <= Len(ms) BY <1>1, <1>12, DropIndexRange, Zenon
<1>7. ms \in Seq(Msg) BY <1>1, <1>12, QueueFacts, Zenon
<1>8. L = Only(w, S) \o Only(<<m>>, S)
  <2>1. Append(w, m) = w \o <<m>> /\ <<m>> \in Seq(Msg) BY <1>11, AppendIsConcat, Zenon
  <2>2. Only(w \o <<m>>, S) = Only(w, S) \o Only(<<m>>, S) BY <1>11, <2>1, OnlyConcat, Zenon
  <2> QED BY <1>16, <2>1, <2>2, Zenon
<1>9. CASE idx = 0
  <2>1. e = d BY <1>17, <1>9, Zenon
  <2>2. m \in S BY <1>1, <1>4, <1>11, <2>1 DEF Others, Msg
  <2>3. Only(<<m>>, S) = <<m>> BY <1>11, <2>2, OnlySingle, Zenon
  <2>4. L = K \o <<m>> BY <1>1, <1>8, <1>14, <2>1, <2>3, Zenon
  <2>5. r.messages = Append(q.messages, m) BY <1>1, <1>5, <1>9, Zenon DEF Without
  <2>6. Front(r) = Front(q) BY <1>5, Zenon
  <2>7. Account(K \o <<m>>, B, r) BY <1>11, <1>12, <2>5, <2>6, AppendAccounts, Zenon
  <2> QED BY <1>1, <1>4, <2>1, <2>4, <2>7, Zenon
<1>10. CASE idx # 0
  <2>1. idx \in 1..Len(ms) BY <1>6, <1>7, <1>10
  <2>2. PICK a, b, x : /\ a \in Seq(Msg) /\ b \in Seq(Msg) /\ x \in Msg
                       /\ ms = (a \o <<x>>) \o b /\ Without(ms, idx) = a \o b /\ x = ms[idx]
    BY <1>7, <2>1, WithoutSplits, Zenon
  <2>3. a \in Seq(Msg) /\ b \in Seq(Msg) /\ x \in Msg BY <2>2, Zenon
  <2>4. e = d \cup {x.id} BY <1>17, <1>10, <2>2, Zenon
  <2>5. q.messages = (a \o <<x>>) \o b /\ r.messages = Append(a \o b, m)
    BY <1>1, <1>5, <2>2, Zenon
  <2>6. PICK p : p \in Seq(Msg) /\ K = (p \o <<x>>) \o b /\ Account((p \o b) \o <<m>>, B, r)
    <3>1. Front(r) = Front(q) BY <1>5, Zenon
    <3>2. Dropping(K, B, r, x, b, m) BY <1>11, <1>12, <2>3, <2>5, <3>1, DropAccounts, Zenon
    <3> QED BY <3>2, Zenon DEF Dropping
  <2>7. PICK v : v = p \o b BY Zenon
  <2>8. DistinctIds(K) /\ \A i \in 1..Len(K) : K[i].id <= n BY <1>13, Zenon DEF Numbered
  <2>9. /\ Only(K, S) = v /\ DistinctIds(v)
        /\ \A i \in 1..Len(v) : \E j \in 1..Len(K) : v[i] = K[j]
        /\ \E j \in 1..Len(K) : x = K[j]
    <3>1. S = Others(d \cup {x.id}) BY <1>1, <2>4, Zenon
    <3>2. p \in Seq(Msg) /\ K = (p \o <<x>>) \o b BY <2>6, Zenon
    <3>3. DistinctIds(K) /\ \A i \in 1..Len(K) : K[i].id \notin d BY <1>3, <2>8, Zenon
    <3>4. DroppedOne(K, v, x, d) BY <2>3, <2>7, <3>2, <3>3, DropOne, Zenon
    <3> QED BY <3>1, <3>4, Zenon DEF DroppedOne
  <2>10. Only(w, S) = v
    <3>1. Only(Only(w, Others(d)), S) = Only(w, Others(d) \cap S)
      <4>1. PICK R : R = Others(d) BY Zenon
      <4>2. \A y \in Seq(Msg) : Only(Only(y, R), S) = Only(y, R \cap S) BY OnlyOnly
      <4> QED BY <1>11, <4>1, <4>2, Zenon
    <3>2. Others(d) \cap S = S BY <1>1, <2>4, Zenon DEF Others
    <3> QED BY <1>14, <2>9, <3>1, <3>2, Zenon
  <2>11. v \in Seq(Msg) BY <2>3, <2>6, <2>7, MsgSeqs, Zenon
  <2>12. x.id <= n BY <2>8, <2>9, Zenon
  <2>13. e \in SUBSET Ids /\ \A y \in e : y <= n
    <3>1. x.id \in Ids BY <2>3 DEF Msg
    <3>2. \A y \in d : y <= n BY <1>13, Zenon DEF Numbered
    <3> QED BY <1>11, <2>4, <2>12, <3>1, <3>2, SMTT(30)
  <2>14. Numbered(v, e, n)
    <3>1. \A i \in 1..Len(v) : v[i].id <= n BY <2>8, <2>9, Zenon
    <3> QED BY <2>9, <2>13, <3>1, Zenon DEF Numbered
  <2>15. Numbered(v \o <<m>>, e, n + 1) /\ m.id \notin e
    BY <1>2, <1>11, <1>13, <2>11, <2>13, <2>14, NumberedAppend, ZenonT(30)
  <2>16. m \in S BY <1>1, <1>11, <2>15, SMTT(30) DEF Others, Msg
  <2>17. Only(<<m>>, S) = <<m>> BY <1>11, <2>16, OnlySingle, Zenon
  <2>18. L = v \o <<m>> BY <1>8, <2>10, <2>17, Zenon
  <2> QED BY <1>1, <2>6, <2>7, <2>15, <2>18, Zenon
<1> QED BY <1>9, <1>10

\* write_call adds a message to the end of one queue, with the next id.
Adds(s) ==
    /\ live' = live /\ Emitted' = Emitted
    /\ \A t \in Streams : t # s => /\ out'[t] = out[t] /\ written'[t] = written[t]
                                   /\ dropped'[t] = dropped[t]
    /\ \E m \in Msg :
          /\ m.id = Len(written[s]) + 1
          /\ out'[s] = enqueue_owned(out[s], m, backpressure[s])
          /\ written'[s] = Append(written[s], m)
          /\ dropped'[s] = DroppedBy(out[s], backpressure[s], dropped[s])

\* A write that is not refused keeps the invariant, a promise to nghttp2 included.
LEMMA WriteStep ==
    ASSUME QInv, NEW s \in Streams, NEW body \in Bodies, write_call(s, body)
    PROVE  QInv' /\ Adds(s)
<1>1. TypeOK /\ \A t \in Streams : QueueOK(out[t]) BY DEF QInv
<1>2. PICK m, drop, bp, q : /\ m = [id |-> Len(written[s]) + 1, body |-> body]
                            /\ drop = DropIndex(out[s], backpressure[s])
                            /\ bp = backpressure[s] /\ q = out[s]
  BY Zenon
<1>3. PICK r : r = enqueue_owned(q, m, bp) BY Zenon
<1>4. /\ Len(written[s]) < MaxMsgs
      /\ out' = [out EXCEPT ![s] = r]
      /\ written' = [written EXCEPT ![s] = Append(written[s], m)]
      /\ dropped' = IF drop = 0 THEN dropped
                    ELSE [dropped EXCEPT ![s] = dropped[s] \cup {out[s].messages[drop].id}]
      /\ source' = Resumed(s)
      /\ phase' = phase /\ live' = live /\ backpressure' = backpressure
      /\ finished' = finished /\ regular' = regular /\ promise' = promise
      /\ out_pending' = out_pending /\ wire' = wire
  BY <1>2, <1>3 DEF write_call
<1>5. written[s] \in Seq(Msg) /\ dropped[s] \in SUBSET Ids
  <2>1. written \in [Streams -> Seq(Msg)] /\ dropped \in [Streams -> SUBSET Ids]
    BY <1>1, Types, ZenonT(30)
  <2> QED BY <2>1, Zenon
<1>6. m \in Msg /\ m.id = Len(written[s]) + 1
  <2>1. Len(written[s]) \in Nat BY <1>5
  <2> QED BY <1>2, <1>4, <2>1, SendAssumption, SMTT(30) DEF Msg, Ids
<1>7. QueueOK(q) BY <1>1, <1>2, Zenon
<1>8. QueueOK(r) BY <1>3, <1>6, <1>7, EnqueueKeeps
<1>9. /\ out' \in [Streams -> Queue] /\ \A t \in Streams : QueueOK(out'[t])
      /\ out'[s] = r /\ \A t \in Streams : t # s => out'[t] = out[t]
  BY <1>1, <1>4, <1>8, QueueUpdate, Zenon
<1>10. Append(written[s], m) \in Seq(Msg) BY <1>5, <1>6
<1>11. /\ written' \in [Streams -> Seq(Msg)] /\ written'[s] = Append(written[s], m)
       /\ \A t \in Streams : t # s => written'[t] = written[t]
  <2>1. written \in [Streams -> Seq(Msg)] BY <1>1, Types, Zenon
  <2> QED BY <1>4, <1>10, <2>1, FnUpdate, Zenon
<1>12. drop # 0 => out[s].messages[drop].id \in Ids
  <2>1. drop \in {0, 1, 2} /\ drop <= Len(q.messages) BY <1>2, <1>7, DropIndexRange, Zenon
  <2>2. q.messages \in Seq(Msg) BY <1>7, QueueFacts, Zenon
  <2>3. drop # 0 => q.messages[drop] \in Msg BY <2>1, <2>2
  <2>4. \A x \in Msg : x.id \in Ids BY DEF Msg
  <2> QED BY <1>2, <2>3, <2>4, Zenon
<1>13. /\ dropped' \in [Streams -> SUBSET Ids]
       /\ \A t \in Streams : t # s => dropped'[t] = dropped[t]
       /\ dropped'[s] = IF drop = 0 THEN dropped[s]
                        ELSE dropped[s] \cup {out[s].messages[drop].id}
  <2>1. dropped \in [Streams -> SUBSET Ids] BY <1>1, Types, Zenon
  <2>2. CASE drop = 0
    <3>1. dropped' = dropped BY <1>4, <2>2, Zenon
    <3> QED BY <2>1, <2>2, <3>1, Zenon
  <2>3. CASE drop # 0
    <3>1. PICK e : e = dropped[s] \cup {out[s].messages[drop].id} BY Zenon
    <3>2. e \in SUBSET Ids BY <1>5, <1>12, <2>3, <3>1
    <3>3. dropped' = [dropped EXCEPT ![s] = e] BY <1>4, <2>3, <3>1, Zenon
    <3>4. /\ dropped' \in [Streams -> SUBSET Ids] /\ dropped'[s] = e
          /\ \A t \in Streams : t # s => dropped'[t] = dropped[t]
      BY <2>1, <3>2, <3>3, FnUpdate, Zenon
    <3> QED BY <2>3, <3>1, <3>4, Zenon
  <2> QED BY <2>2, <2>3
<1>14. source' \in [Streams -> {"none", "attached", "ready", "deferred", "ended"}]
  BY <1>1, <1>4, ResumedType, Zenon
<1>15. TypeOK' BY <1>1, <1>4, <1>9, <1>11, <1>13, <1>14, Zenon DEF TypeOK, Queue
<1>16. ASSUME promise' # NoPromise PROVE Covers(out'[promise'.stream], promise'.length)
  <2>1. PICK t, n : t = promise.stream /\ n = promise.length BY Zenon
  <2>2. promise # NoPromise BY <1>4, <1>16, Zenon
  <2>3. t \in Streams
    <3>1. promise \in [stream : Streams, length : Nat \ {0}] BY <1>1, <2>2, Types, Zenon
    <3> QED BY <2>1, <3>1
  <2>4. Covers(out[t], n) BY <2>1, <2>2, Zenon DEF QInv
  <2>5. CASE t = s
    <3>1. Covers(q, n) BY <1>2, <2>4, <2>5, Zenon
    <3>2. Covers(r, n) BY <1>3, <1>6, <1>7, <3>1, EnqueueCovers, Zenon
    <3> QED BY <1>4, <1>9, <2>1, <2>5, <3>2, Zenon
  <2>6. CASE t # s BY <1>4, <1>9, <2>1, <2>3, <2>4, <2>6, Zenon
  <2> QED BY <2>5, <2>6
<1>17. QInv' BY <1>9, <1>15, <1>16, Zenon DEF QInv
<1>18. Emitted' = Emitted BY <1>4, Zenon DEF Emitted
<1>19. Adds(s)
  <2>1. out'[s] = enqueue_owned(out[s], m, backpressure[s]) BY <1>2, <1>3, <1>9, Zenon
  <2>2. dropped'[s] = DroppedBy(out[s], backpressure[s], dropped[s])
    BY <1>2, <1>13, Zenon DEF DroppedBy
  <2>3. \A t \in Streams : t # s => /\ out'[t] = out[t] /\ written'[t] = written[t]
                                    /\ dropped'[t] = dropped[t]
    BY <1>9, <1>11, <1>13, Zenon
  <2> QED BY <1>4, <1>6, <1>11, <1>18, <2>1, <2>2, <2>3, Zenon DEF Adds
<1> QED BY <1>17, <1>19

\* Every step ships whole frames, or adds a message.
LEMMA Steps == ASSUME QInv, [Next]_vars
               PROVE  Sound \/ (QInv' /\ \E s \in Streams : Adds(s))
<1>1. CASE start_flush BY <1>1, PhaseStep, Zenon
<1>2. CASE flush_pending BY <1>2, PendingStep, Zenon
<1>3. CASE pull_regular BY <1>3, RegularStep, Zenon
<1>4. CASE PullData
  <2>1. PICK s \in Streams, n \in FrameLens :
            read_promise(s, n) \/ read_copy(s, n) \/ read_eof(s, n) \/ read_deferred(s, n)
    BY <1>4, Zenon DEF PullData
  <2>2. CASE read_promise(s, n) BY <2>2, PromiseStep, Zenon
  <2>3. CASE read_copy(s, n) BY <2>3, CopyStep, ZenonT(30)
  <2>4. CASE read_eof(s, n) BY <2>4, EofStep, Zenon
  <2>5. CASE read_deferred(s, n) BY <2>5, DeferredStep, Zenon
  <2> QED BY <2>1, <2>2, <2>3, <2>4, <2>5, Zenon
<1>5. CASE send_data BY <1>5, SendStep, Zenon
<1>6. CASE flush_done BY <1>6, PhaseStep, Zenon
<1>7. CASE Application
  <2>1. PICK s \in Streams :
            \/ submit_response_for(s) \/ finish_call(s) \/ on_stream_close(s)
            \/ \E body \in Bodies : write_call(s, body)
            \/ \E bp \in Policies : set_stream_policy(s, bp)
    BY <1>7, Zenon DEF Application
  <2>2. CASE submit_response_for(s) BY <2>2, SubmitStep, Zenon
  <2>3. CASE finish_call(s) BY <2>3, FinishStep, Zenon
  <2>4. CASE on_stream_close(s) BY <2>4, CloseStep, Zenon
  <2>5. CASE \E body \in Bodies : write_call(s, body) BY <2>5, WriteStep, Zenon
  <2>6. CASE \E bp \in Policies : set_stream_policy(s, bp) BY <2>6, PolicyStep, Zenon
  <2> QED BY <2>1, <2>2, <2>3, <2>4, <2>5, <2>6, Zenon
<1>8. CASE flush_error BY <1>8, PhaseStep, Zenon
<1>9. CASE UNCHANGED vars BY <1>9, PhaseStep, Zenon
<1> QED BY <1>1, <1>2, <1>3, <1>4, <1>5, <1>6, <1>7, <1>8, <1>9, ZenonT(30) DEF Next, Flush

\* What is out is a sequence of units, and FramesContiguous is about it.
LEMMA EmittedFacts ==
    ASSUME QInv
    PROVE  /\ Emitted \in Seq(Unit)
           /\ \A s : BytesOf(s) \in Seq(Byte)
           /\ FramesContiguous <=> Contiguous(Emitted)
<1>1. wire \in Seq(Unit) /\ out_pending \in Seq(Unit) BY Types, Zenon DEF QInv
<1>2. Emitted \in Seq(Unit) BY <1>1, ConcatType, Zenon DEF Emitted
<1>3. DOMAIN Emitted = 1..Len(Emitted) BY <1>2
<1>4. FramesContiguous <=> Contiguous(Emitted) BY <1>3, Zenon DEF FramesContiguous, Contiguous
<1>5. \A s : BytesOf(s) \in Seq(Byte) BY <1>2, BytesInType, Zenon DEF BytesOf
<1> QED BY <1>2, <1>4, <1>5

\* The inductive invariant behind NoByteLost.
AInv ==
    \A s \in live :
        /\ Account(Kept(s), BytesOf(s), out[s])
        /\ Numbered(Kept(s), dropped[s], Len(written[s]))

\* Shipping keeps it ...
LEMMA ShippingAccounts ==
    ASSUME QInv, AInv, Sound
    PROVE  AInv'
<1>1. PICK chunk : /\ chunk \in Seq(Unit) /\ Emitted' = Emitted \o chunk
                   /\ \A t \in Streams : Shipped(out[t], BytesIn(chunk, t), out'[t])
  BY Zenon DEF Sound, Ships
<1>2. QInv' /\ live' \subseteq live /\ written' = written /\ dropped' = dropped
  BY Zenon DEF Sound
<1>3. live \subseteq Streams BY Types DEF QInv
<1>4. Emitted \in Seq(Unit) BY EmittedFacts, Zenon
<1>5. ASSUME NEW s \in live'
      PROVE  /\ Account(Kept(s)', BytesOf(s)', out'[s])
             /\ Numbered(Kept(s)', dropped'[s], Len(written'[s]))
  <2>1. s \in live /\ s \in Streams BY <1>2, <1>3
  <2>2. PICK B, c, K : B = BytesOf(s) /\ c = BytesIn(chunk, s) /\ K = Kept(s) BY Zenon
  <2>3. BytesOf(s)' = B \o c
    <3>1. BytesIn(Emitted \o chunk, s) = BytesIn(Emitted, s) \o BytesIn(chunk, s)
      BY <1>1, <1>4, BytesInConcat, Zenon
    <3>2. BytesOf(s)' = BytesIn(Emitted', s) BY DEF BytesOf
    <3> QED BY <1>1, <2>2, <3>1, <3>2, Zenon DEF BytesOf
  <2>4. c \in Seq(Byte) BY <1>1, <2>2, BytesInType, Zenon
  <2>5. Kept(s)' = K BY <1>2, <2>2, Zenon DEF Kept
  <2>6. Account(K, B, out[s]) /\ Numbered(K, dropped[s], Len(written[s]))
    BY <2>1, <2>2, Zenon DEF AInv
  <2>7. QueueOK(out[s]) /\ QueueOK(out'[s]) BY <1>2, <2>1, Zenon DEF QInv
  <2>8. Shipped(out[s], c, out'[s]) BY <1>1, <2>1, <2>2, Zenon
  <2>9. Account(K, B \o c, out'[s]) BY <2>4, <2>6, <2>7, <2>8, ShipAccounts, Zenon
  <2> QED BY <1>2, <2>3, <2>5, <2>6, <2>9, Zenon
<1> QED BY <1>5, Zenon DEF AInv

\* ... and so does a write.
LEMMA AddingAccounts ==
    ASSUME QInv, AInv, NEW s \in Streams, Adds(s)
    PROVE  AInv'
<1>1. /\ live' = live /\ Emitted' = Emitted
      /\ \A t \in Streams : t # s => /\ out'[t] = out[t] /\ written'[t] = written[t]
                                     /\ dropped'[t] = dropped[t]
  BY Zenon DEF Adds
<1>2. live \subseteq Streams BY Types DEF QInv
<1>3. \A t : BytesOf(t)' = BytesOf(t) BY <1>1, Zenon DEF BytesOf
<1>4. ASSUME NEW t \in live'
      PROVE  /\ Account(Kept(t)', BytesOf(t)', out'[t])
             /\ Numbered(Kept(t)', dropped'[t], Len(written'[t]))
  <2>1. t \in live /\ t \in Streams BY <1>1, <1>2
  <2>2. Account(Kept(t), BytesOf(t), out[t]) /\ Numbered(Kept(t), dropped[t], Len(written[t]))
    BY <2>1, Zenon DEF AInv
  <2>3. CASE t # s
    <3>1. out'[t] = out[t] /\ written'[t] = written[t] /\ dropped'[t] = dropped[t]
      BY <1>1, <2>1, <2>3, Zenon
    <3>2. Kept(t)' = Kept(t) BY <3>1, Zenon DEF Kept
    <3> QED BY <1>3, <2>2, <3>1, <3>2, Zenon
  <2>4. CASE t = s
    <3>1. PICK w, d, K, B, q, bp : /\ w = written[t] /\ d = dropped[t] /\ K = Kept(t)
                                   /\ B = BytesOf(t) /\ q = out[t] /\ bp = backpressure[t]
      BY Zenon
    <3>2. PICK m \in Msg : /\ m.id = Len(w) + 1 /\ out'[t] = enqueue_owned(q, m, bp)
                           /\ written'[t] = Append(w, m)
                           /\ dropped'[t] = DroppedBy(q, bp, d)
      BY <2>4, <3>1, Zenon DEF Adds
    <3>3. PICK r, e, L : r = out'[t] /\ e = dropped'[t] /\ L = Kept(t)' BY Zenon
    <3>4. w \in Seq(Msg) /\ d \in SUBSET Ids
      <4>1. written \in [Streams -> Seq(Msg)] /\ dropped \in [Streams -> SUBSET Ids]
        BY Types, Zenon DEF QInv
      <4> QED BY <2>1, <3>1, <4>1, Zenon
    <3>5. K = Only(w, Others(d)) BY <3>1, Zenon DEF Kept, Others
    <3>6. L = Only(Append(w, m), Others(e)) BY <3>2, <3>3, Zenon DEF Kept, Others
    <3>7. QueueOK(q) BY <2>1, <3>1, Zenon DEF QInv
    <3>8. Account(K, B, q) /\ Numbered(K, d, Len(w)) BY <2>2, <3>1, Zenon
    <3>9. /\ m.id = Len(w) + 1 /\ r = enqueue_owned(q, m, bp)
          /\ e = DroppedBy(q, bp, d)
      BY <3>2, <3>3, Zenon
    <3>10. Account(L, B, r) /\ Numbered(L, e, Len(w) + 1)
      <4>1. Writing(w, d, K, B, q, m, bp, r, e, L)
        BY <3>4, <3>5, <3>6, <3>7, <3>8, <3>9, Zenon DEF Writing
      <4> QED BY <4>1, WriteAccounts, Zenon
    <3>11. Len(written'[t]) = Len(w) + 1
      <4>1. Len(Append(w, m)) = Len(w) + 1 BY <3>4
      <4> QED BY <3>2, <4>1, Zenon
    <3>12. Account(Kept(t)', BytesOf(t)', out'[t]) BY <1>3, <3>1, <3>3, <3>10, Zenon
    <3>13. Numbered(Kept(t)', dropped'[t], Len(written'[t])) BY <3>3, <3>10, <3>11, Zenon
    <3> QED BY <3>12, <3>13
  <2> QED BY <2>3, <2>4
<1> QED BY <1>4, Zenon DEF AInv

\* The account is empty at the start.
LEMMA AInvInit == Init => AInv
<1> SUFFICES ASSUME Init, NEW s \in live
             PROVE  /\ Account(Kept(s), BytesOf(s), out[s])
                    /\ Numbered(Kept(s), dropped[s], Len(written[s]))
  BY Zenon DEF AInv
<1>1. s \in Streams BY DEF Init
<1>2. out[s] = new /\ written[s] = << >> /\ dropped[s] = {} BY <1>1 DEF Init
<1>3. Kept(s) = << >> BY <1>2, OnlyEmpty, Zenon DEF Kept
<1>4. Emitted = << >> BY DEF Init, Emitted
<1>5. BytesOf(s) = << >> BY <1>4, BytesInNothing, Zenon DEF BytesOf
<1>6. new.messages = << >> BY DEF new
<1>7. Front(new) = << >> BY <1>6, Zenon DEF Front
<1>8. << >> \in Seq(Msg) /\ << >> \o << >> = << >> OBVIOUS
<1>9. Account(<< >>, << >>, new) BY <1>6, <1>7, <1>8, AllBytesEmpty, Zenon DEF Account
<1>10. Numbered(<< >>, {}, Len(<< >>)) BY DEF Numbered, DistinctIds
<1> QED BY <1>2, <1>3, <1>5, <1>9, <1>10, Zenon

\* QInv is inductive.
LEMMA QInvStep == QInv /\ [Next]_vars => QInv'
BY Steps, Zenon DEF Sound

\* From QInv, whatever is promised can be sent.
LEMMA QInvPromise == QInv => PromiseKept
<1> SUFFICES ASSUME QInv, promise # NoPromise
             PROVE  ~Stale /\ out[promise.stream].front_committed
  BY Zenon DEF PromiseKept
<1>1. PICK s, n : s = promise.stream /\ n = promise.length BY Zenon
<1>2. s \in Streams /\ n \in Nat
  <2>1. promise \in [stream : Streams, length : Nat \ {0}] BY Types, Zenon DEF QInv
  <2> QED BY <1>1, <2>1
<1>3. QueueOK(out[s]) /\ Covers(out[s], n) BY <1>1, <1>2, Zenon DEF QInv
<1>4. Len(front_regions(out[s], n)) = n BY <1>2, <1>3, CoveredNotStale, Zenon
<1>5. ~Stale BY <1>1, <1>4, Zenon DEF Stale
<1> QED BY <1>1, <1>3, <1>5, Zenon DEF Covers

\* callbacks.rs's send_data never finds its promise stale: however the application
\* writes, drops and finishes between data_provider_read's promise and the frame's
\* sending, the head message stays pinned and still has the promised bytes.
THEOREM PromisesAreKept == Spec => []PromiseKept
<1>1. Spec => []QInv BY QInvInit, QInvStep, PTL DEF Spec
<1> QED BY <1>1, QInvPromise, PTL

\* Whole frames stay whole.
LEMMA FramesStep == QInv /\ FramesContiguous /\ [Next]_vars => FramesContiguous'
<1> SUFFICES ASSUME QInv, FramesContiguous, [Next]_vars PROVE FramesContiguous'
  OBVIOUS
<1>1. Emitted \in Seq(Unit) /\ Contiguous(Emitted) BY EmittedFacts, Zenon
<1>2. QInv' BY QInvStep, Zenon
<1>3. FramesContiguous' <=> Contiguous(Emitted')
  <2>1. wire' \in Seq(Unit) /\ out_pending' \in Seq(Unit) BY <1>2, Zenon DEF QInv, TypeOK
  <2>2. Emitted' \in Seq(Unit) BY <2>1, ConcatType, Zenon DEF Emitted
  <2>3. DOMAIN Emitted' = 1..Len(Emitted') BY <2>2
  <2> QED BY <2>3, Zenon DEF FramesContiguous, Contiguous
<1>4. CASE Sound
  <2>1. PICK chunk : /\ chunk \in Seq(Unit) /\ Contiguous(chunk)
                     /\ Emitted' = Emitted \o chunk
    BY <1>4, Zenon DEF Sound, Ships
  <2>2. PICK e : e = Emitted BY Zenon
  <2>3. Contiguous(e \o chunk) BY <1>1, <2>1, <2>2, ContiguousConcat, Zenon
  <2> QED BY <1>3, <2>1, <2>2, <2>3, Zenon
<1>5. CASE \E s \in Streams : Adds(s)
  <2>1. Emitted' = Emitted BY <1>5, Zenon DEF Adds
  <2> QED BY <1>1, <1>3, <2>1, Zenon
<1> QED BY <1>4, <1>5, Steps, Zenon

\* The bytes of flush_writes and send_data stay in whole frames: a DATA header is
\* followed by exactly its payload, over all partial writes and pending tails.
THEOREM FramesStayWhole == Spec => []FramesContiguous
<1>1. Init => FramesContiguous
  <2> SUFFICES ASSUME Init PROVE FramesContiguous OBVIOUS
  <2>1. Emitted = << >> BY DEF Init, Emitted
  <2> QED BY <2>1 DEF FramesContiguous
<1> QED BY <1>1, QInvInit, QInvStep, FramesStep, PTL DEF Spec

\* For every live call, the bytes sent and the bytes its queue holds are the messages
\* write_call took, in order, without those DropOldest removed: nothing is lost,
\* repeated, reordered or cut by promises, partial writes, drains or drops.
THEOREM NothingIsLost == Spec => []NoByteLost
<1>1. QInv /\ AInv /\ [Next]_vars => AInv'
  BY Steps, ShippingAccounts, AddingAccounts, Zenon
<1>2. QInv /\ AInv => NoByteLost
  <2> SUFFICES ASSUME QInv, AInv, NEW s \in live
               PROVE  BytesOf(s) \o QueueBytes(out[s]) = AllBytes(Kept(s))
    BY Zenon DEF NoByteLost
  <2>1. s \in Streams BY Types DEF QInv
  <2>2. QueueOK(out[s]) BY <2>1, Zenon DEF QInv
  <2>3. Account(Kept(s), BytesOf(s), out[s]) BY Zenon DEF AInv
  <2> QED BY <2>2, <2>3, AccountAddsUp, Zenon
<1> QED BY <1>1, <1>2, QInvInit, AInvInit, QInvStep, PTL DEF Spec

=============================================================================
