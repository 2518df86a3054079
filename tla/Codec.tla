------------------------------- MODULE Codec -------------------------------
(***************************************************************************)
(* What the client and the server write for each other to read             *)
(* (grpcuds-core/src/headers.rs, framing.rs and client.rs): the            *)
(* grpc-timeout value, the percent-encoded grpc-message and the            *)
(* length-prefixed messages.  A byte is its number, an Option a sequence   *)
(* of at most one value.  Each property compares a reader with a writer,   *)
(* or with what it should compute, over bounded inputs.                    *)
(***************************************************************************)
EXTENDS Integers, Sequences, SequencesExt

CONSTANTS
    TimeoutValues,    \* timeouts, in units
    ByteValues,       \* bytes of a grpc-message
    MaxMessageBytes,  \* bound: length of a grpc-message
    PayloadLens,      \* payload lengths of messages
    MaxPayload        \* MAX_MESSAGE_LEN

ASSUME CodecAssumption ==
    /\ TimeoutValues \subseteq Nat
    /\ ByteValues \subseteq 0..255
    /\ MaxMessageBytes \in Nat
    /\ PayloadLens \subseteq Nat /\ MaxPayload \in Nat

-----------------------------------------------------------------------------
(* grpc-timeout.                                                           *)

RECURSIVE digits(_)
digits(v) == IF v < 10 THEN <<48 + v>> ELSE Append(digits(v \div 10), 48 + (v % 10))

\* The units S, m, u and n.
Seconds == 83
Millis  == 109
Micros  == 117
Nanos   == 110

\* The clients' value: the digits, however many, and the unit m.
fmt_ms_value(ms) == Append(digits(ms), Millis)

number(ds) == FoldLeft(LAMBDA x, d : x * 10 + (d - 48), 0, ds)

div_ceil(x, k) == (x + k - 1) \div k

\* Mutant: a fraction of a millisecond is cut off.
in_ms_Down(x, unit) ==
    CASE unit = Seconds -> x * 1000
      [] unit = Millis  -> x
      [] unit = Micros  -> x \div 1000
      [] unit = Nanos   -> x \div 1000000

in_ms(x, unit) ==
    CASE unit = Seconds -> x * 1000
      [] unit = Millis  -> x
      [] unit = Micros  -> div_ceil(x, 1000)
      [] unit = Nanos   -> div_ceil(x, 1000000)

\* The server's reading: one to eight digits and a unit (H and M are like S).
parse_grpc_timeout_ms(v) ==
    IF \/ Len(v) \notin 2..9
       \/ Last(v) \notin {Seconds, Millis, Micros, Nanos}
       \/ ~(ToSet(Front(v)) \subseteq 48..57)
    THEN << >>
    ELSE LET ms == in_ms(number(Front(v)), Last(v)) IN <<IF ms = 0 THEN 1 ELSE ms>>

\* The server arms the deadline that the client asked for, in milliseconds, when it
\* has at most eight digits; a longer one it ignores, and the server's call has no
\* deadline at all.  Finer units never make a deadline shorter than was asked for, nor
\* longer by a millisecond, nor zero.
TimeoutsAgree ==
    /\ \A t \in TimeoutValues \ {0} :
           parse_grpc_timeout_ms(fmt_ms_value(t)) = IF t < 100000000 THEN <<t>> ELSE << >>
    /\ \A t \in {x \in TimeoutValues : x < 100000000} :
           \A fine \in {[unit |-> Micros, per |-> 1000], [unit |-> Nanos, per |-> 1000000]} :
               \E ms \in 1..100000 :
                   /\ parse_grpc_timeout_ms(Append(digits(t), fine.unit)) = <<ms>>
                   /\ ms = 1 \/ (ms - 1) * fine.per < t
                   /\ t \div fine.per <= ms /\ (t % fine.per # 0 => t \div fine.per < ms)

-----------------------------------------------------------------------------
(* grpc-message.                                                           *)

hex(d) == IF d < 10 THEN 48 + d ELSE 55 + d

\* Mutant: the escape character itself is not escaped.
escape_Printable(b) == IF b \notin 32..126 THEN <<37, hex(b \div 16), hex(b % 16)>> ELSE <<b>>

escape(b) ==
    IF b \notin 32..126 \/ b = 37 THEN <<37, hex(b \div 16), hex(b % 16)>> ELSE <<b>>

percent_encode_message(msg) == FoldLeft(LAMBDA out, b : out \o escape(b), << >>, msg)

to_digit(b) == CASE b \in 48..57 -> b - 48 [] b \in 65..70 -> b - 55 [] b \in 97..102 -> b - 87
HexDigits == (48..57) \cup (65..70) \cup (97..102)

\* An escape that is cut short or not hexadecimal is passed through.
RECURSIVE unescape(_)
unescape(v) ==
    IF v = << >> THEN << >>
    ELSE IF v[1] = 37 /\ Len(v) > 2 /\ {v[2], v[3]} \subseteq HexDigits
         THEN <<16 * to_digit(v[2]) + to_digit(v[3])>> \o unescape(SubSeq(v, 4, Len(v)))
         ELSE <<v[1]>> \o unescape(Tail(v))

\* str::from_utf8 for characters of one or two bytes.
is_utf8(bs) ==
    \A i \in DOMAIN bs :
        \/ bs[i] \in 0..127
        \/ bs[i] \in 194..223 /\ i < Len(bs) /\ bs[i + 1] \in 128..191
        \/ bs[i] \in 128..191 /\ i > 1 /\ bs[i - 1] \in 194..223

percent_decode(v) == IF is_utf8(unescape(v)) THEN <<unescape(v)>> ELSE << >>

\* A status message reaches the client as it was given to finish, whatever bytes it
\* has, as long as it is UTF-8; one that is not is lost as a whole.  What goes into the
\* header is printable ASCII.
MessagesAgree ==
    \A msg \in SeqOf(ByteValues, MaxMessageBytes) :
        /\ ToSet(percent_encode_message(msg)) \subseteq 32..126
        /\ percent_decode(percent_encode_message(msg)) = IF is_utf8(msg) THEN <<msg>> ELSE << >>

-----------------------------------------------------------------------------
(* Length-prefixed messages.                                               *)

FRAME_HEADER_LEN == 5

\* The length in four bytes, big end first.  (No length here needs the first two.)
encode_header(len) == <<0, 0, 0, len \div 256, len % 256>>

\* The payload length, or nothing when more bytes are needed, the message is
\* compressed or it is too long.
decode_header(buf) ==
    IF Len(buf) < FRAME_HEADER_LEN \/ buf[1] # 0 THEN << >>
    ELSE LET len == buf[4] * 256 + buf[5]
         IN  IF buf[2] # 0 \/ buf[3] # 0 \/ len > MaxPayload THEN << >> ELSE <<len>>

\* Mutant: the last byte of a payload is not waited for.
total_Short(len) == FRAME_HEADER_LEN + (IF len = 0 THEN 0 ELSE len - 1)

total(len) == FRAME_HEADER_LEN + len

\* CallState::deframe: the messages at the head of the buffer, and what is left.
RECURSIVE deframe_bytes(_)
deframe_bytes(st) ==
    LET h == decode_header(st.inbuf)
    IN  IF h = << >> \/ Len(st.inbuf) < total(h[1]) THEN st
        ELSE deframe_bytes(
                 [inbuf |-> SubSeq(st.inbuf, total(h[1]) + 1, Len(st.inbuf)),
                  messages |-> Append(st.messages,
                                      SubSeq(st.inbuf, FRAME_HEADER_LEN + 1, total(h[1])))])

on_data_bytes(st, bytes) == deframe_bytes([st EXCEPT !.inbuf = @ \o bytes])

\* A payload that looks like headers.
payload(len) == [i \in 1..len |-> 0]
framed(lens) == FlattenSeq([i \in DOMAIN lens |-> encode_header(lens[i]) \o payload(lens[i])])

\* The messages of lens that are complete in the first k bytes, up to the first that is
\* too long, at which deframe stops for good.
Whole(lens, k) ==
    LET count == CHOOSE c \in 0..Len(lens) :
                     /\ \A i \in 1..c : lens[i] <= MaxPayload
                     /\ Len(framed(SubSeq(lens, 1, c))) <= k
                     /\ c < Len(lens) => \/ lens[c + 1] > MaxPayload
                                         \/ Len(framed(SubSeq(lens, 1, c + 1))) > k
    IN  [i \in 1..count |-> payload(lens[i])]

\* Wherever a read ends, in a header or in a payload, the client has exactly the
\* messages that are complete by then, and the rest once the rest has arrived.
FramesAgree ==
    \A lens \in SeqOf(PayloadLens, 2) :
        LET bytes == framed(lens)
        IN  \A k \in 0..Len(bytes) :
                LET half == on_data_bytes([inbuf |-> << >>, messages |-> << >>],
                                          SubSeq(bytes, 1, k))
                    full == on_data_bytes(half, SubSeq(bytes, k + 1, Len(bytes)))
                IN  /\ half.messages = Whole(lens, k)
                    /\ full.messages = Whole(lens, Len(bytes))

=============================================================================
