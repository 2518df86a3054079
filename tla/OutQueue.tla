------------------------------ MODULE OutQueue ------------------------------
(***************************************************************************)
(* The outbound queue of one call (grpcuds-core/src/conn/out_queue.rs), as *)
(* operators over its record.                                              *)
(*                                                                         *)
(* A message is [id, body], body being the length of its payload.  On the  *)
(* wire it is HeaderLen + body bytes; byte i of message m is <<m.id, i>>.  *)
(***************************************************************************)
EXTENDS Naturals, Sequences

CONSTANTS
    HeaderLen,   \* FRAME_HEADER_LEN
    Unbounded    \* Backpressure::Unbounded

ASSUME HeaderAssumption == HeaderLen \in Nat \ {0}

Bounded == [capacity : Nat \ {0}, policy : {"Reject", "DropOldest"}]

least(a, b) == IF a <= b THEN a ELSE b

len(m) == HeaderLen + m.body

bytes(m) == [i \in 1..len(m) |-> <<m.id, i>>]

\* Sequences put one after the other.
Joined(ss) ==
    LET upto[i \in 0..Len(ss)] == IF i = 0 THEN << >> ELSE upto[i - 1] \o ss[i]
    IN  upto[Len(ss)]

\* The members of S in a sequence, in its order.
Only(seq, S) == Joined([i \in DOMAIN seq |-> IF seq[i] \in S THEN <<seq[i]>> ELSE << >>])

AllBytes(ms) == Joined([i \in DOMAIN ms |-> bytes(ms[i])])

new == [messages |-> << >>, front_offset |-> 0, front_committed |-> FALSE]

\* The head message is partly shipped, or promised to a NO_COPY frame.
InFlight(q) == q.front_offset > 0 \/ q.front_committed

unstarted_count(q) ==
    IF InFlight(q) /\ q.messages # << >> THEN Len(q.messages) - 1 ELSE Len(q.messages)

front_remaining(q) ==
    IF q.messages = << >> THEN 0 ELSE len(Head(q.messages)) - q.front_offset

\* What promise_front returns, and the queue it leaves.
promised(q, max) == least(front_remaining(q), max)

promise_front_Unpinned(q, max) == q

promise_front(q, max) ==
    [q EXCEPT !.front_committed = @ \/ promised(q, max) > 0]

\* The bytes that front_regions covers: n of the head's, from front_offset on,
\* or fewer when the head has fewer left.
front_regions(q, n) ==
    IF q.messages = << >> THEN << >>
    ELSE SubSeq(bytes(Head(q.messages)), q.front_offset + 1,
                q.front_offset + least(n, front_remaining(q)))

consume_front(q, n) ==
    LET off  == q.front_offset + least(n, front_remaining(q))
        done == q.messages # << >> /\ off = len(Head(q.messages))
    IN  [messages |-> IF done THEN Tail(q.messages) ELSE q.messages,
         front_offset |-> IF done THEN 0 ELSE off,
         front_committed |-> FALSE]

-----------------------------------------------------------------------------
(* enqueue_owned under a backpressure setting bp.                          *)

Full(q, bp) == bp # Unbounded /\ unstarted_count(q) >= bp.capacity

\* Err(QueueFull).
Rejects(q, bp) == Full(q, bp) /\ bp.policy = "Reject"

\* The index (from 1) of the message that DropOldest removes, 0 for none.
DropIndex(q, bp) ==
    LET idx == IF InFlight(q) THEN 2 ELSE 1
    IN  IF Full(q, bp) /\ bp.policy = "DropOldest" /\ idx <= Len(q.messages)
        THEN idx ELSE 0

Without(seq, idx) ==
    IF idx = 0 THEN seq ELSE SubSeq(seq, 1, idx - 1) \o SubSeq(seq, idx + 1, Len(seq))

\* The queue after an enqueue that is not rejected.
enqueue_owned(q, m, bp) ==
    [q EXCEPT !.messages = Append(Without(@, DropIndex(q, bp)), m)]

-----------------------------------------------------------------------------
(* drain_into a buffer of n bytes.                                         *)

\* One turn of its loop.  d holds the queue and the bytes copied so far.  The
\* turn ends early when the header alone fills the buffer: a message without a
\* payload then stays at the head with nothing left to ship.
drain_turn_Drops(d, n) ==
    IF Len(d.copied) >= n \/ d.queue.messages = << >> THEN d
    ELSE [queue |-> [d.queue EXCEPT !.messages = Tail(@), !.front_offset = 0],
          copied |-> d.copied \o front_regions(d.queue, n - Len(d.copied))]

drain_turn(d, n) ==
    IF Len(d.copied) >= n \/ d.queue.messages = << >> THEN d
    ELSE LET front == Head(d.queue.messages)
             off   == d.queue.front_offset
             room  == n - Len(d.copied)
             hdr   == IF off < HeaderLen THEN least(HeaderLen - off, room) ELSE 0
             early == off < HeaderLen /\ hdr = room
             body  == IF early THEN 0 ELSE least(len(front) - off - hdr, room - hdr)
             end   == off + hdr + body
             done  == ~early /\ end = len(front)
         IN  [queue |-> [d.queue EXCEPT
                           !.messages = IF done THEN Tail(@) ELSE @,
                           !.front_offset = IF done THEN 0 ELSE end],
              copied |-> d.copied \o SubSeq(bytes(front), off + 1, end)]

drain_into(q, n) ==
    LET turn[i \in 0..(Len(q.messages) + 1)] ==
            IF i = 0 THEN [queue |-> q, copied |-> << >>] ELSE drain_turn(turn[i - 1], n)
    IN  turn[Len(q.messages) + 1]

=============================================================================
