------------------------------ MODULE WireLog ------------------------------
(***************************************************************************)
(* The wire log (grpcuds-core/src/wirelog.rs): every connection of the     *)
(* process appends what crosses its socket, as the packets of a made-up    *)
(* TCP stream, to one pcap file that is rotated when it is full.           *)
(*                                                                         *)
(* Threads share the sink under a spinlock, which is held across the       *)
(* system calls.  They are one step each, so that the process may be       *)
(* killed between any two of them, or in the middle of a write, and be     *)
(* started again on the files it left.  A call of open or write may fail.  *)
(*                                                                         *)
(* A file is the sequence of what was written to it; a byte string is its  *)
(* length.  File 0 is the live one, file i is <path>.i.                    *)
(***************************************************************************)
EXTENDS Integers, Sequences, FiniteSets, SequencesExt, TLC

CONSTANTS
    Threads,          \* each has one connection
    KeepFiles,        \* keep_files
    MaxFile,          \* max_file
    PCAP_HEADER_LEN,
    REC_OVERHEAD,
    Segments,         \* payload lengths, at most MAX_SEGMENT
    MaxConns,         \* bound: connections opened, over all processes
    MaxChunks,        \* bound: chunks logged, over all connections
    MaxCrashes,       \* bound: times the process is killed
    MaxFailures       \* bound: calls of open or write that fail

LongestRecord == REC_OVERHEAD + CHOOSE n \in Segments : \A k \in Segments : k <= n

\* MIN_FILE_KB: the header and any one record fit.
ASSUME WireLogAssumption ==
    /\ KeepFiles \in Nat \ {0}
    /\ {PCAP_HEADER_LEN, REC_OVERHEAD} \subseteq Nat \ {0, 1}
    /\ Segments \subseteq Nat \ {0} /\ Segments # {}
    /\ MaxFile \in Nat /\ PCAP_HEADER_LEN + LongestRecord <= MaxFile
    /\ {MaxConns, MaxChunks, MaxCrashes, MaxFailures} \subseteq Nat

VARIABLES
    mode,      \* STATE: ST_UNINIT, ST_DISABLED, ST_ENABLED
    g,         \* Globals: whether fd is open, and written
    owner,     \* who holds LOCK, or None
    job,       \* the system calls it has yet to make
    conn,      \* the WirelogConn of each thread
    files,     \* what each file has in it
    present,   \* the files that exist
    process,   \* history: how often the process was started
    opened,    \* history: connections opened
    chunks,    \* history: chunks logged
    failures,  \* history: calls that failed
    logged     \* history: how many records were written, whole or not

sinkVars == <<mode, g, owner, job>>
diskVars == <<files, present>>
usedVars == <<opened, chunks>>
pastVars == <<process, failures, logged>>
vars == <<sinkVars, conn, diskVars, usedVars, pastVars>>

None == "None"
Dirs == {"c2s", "s2c"}
Slots == 0..(KeepFiles - 1)

\* A record: the connection it belongs to, and what the TCP header says.
Record == [conn : Nat \X Threads, dir : Dirs, seq : Nat, ack : Nat, syn : BOOLEAN,
           payload : Nat]
\* What is in a file: the pcap header or a record, whole or torn; nth (history) is how
\* many records had been written with it.
Header == [conn |-> <<0, None>>, dir |-> "c2s", seq |-> 0, ack |-> 0, syn |-> FALSE,
           payload |-> 0]
Item == [what : {Header} \cup Record, whole : BOOLEAN, nth : Nat]

\* Closed: no connection; off: conn_open returned None; else the packets of the
\* handshake to come, and the sequence numbers.
Closed == [at |-> "closed", shakes |-> 0, seq_c |-> 0, seq_s |-> 0]

TypeOK ==
    /\ mode \in {"uninit", "disabled", "enabled"}
    /\ g \in [fd : BOOLEAN, written : Nat]
    /\ owner \in Threads \cup {None}
    /\ job \in Seq([call : {"close", "unlink", "rename", "open", "header", "enable", "write"},
                    file : Slots, rec : {Header} \cup Record])
    /\ conn \in [Threads -> [at : {"closed", "opening", "open", "off"}, shakes : 0..3,
                             seq_c : Nat, seq_s : Nat]]
    /\ files \in [Slots -> Seq(Item)]
    /\ present \subseteq Slots
    /\ process \in 1..(MaxCrashes + 1)
    /\ opened \in 0..MaxConns /\ chunks \in 0..MaxChunks
    /\ failures \in 0..MaxFailures
    /\ logged \in Nat

Length(rec) == IF rec = Header THEN PCAP_HEADER_LEN ELSE REC_OVERHEAD + rec.payload

\* A torn record has one byte in the file.
Size(file) == FoldLeft(LAMBDA n, i : n + (IF i.whole THEN Length(i.what) ELSE 1), 0, file)

Init ==
    /\ mode = "uninit" /\ g = [fd |-> FALSE, written |-> 0]
    /\ owner = None /\ job = << >>
    /\ conn = [t \in Threads |-> Closed]
    /\ files = [f \in Slots |-> << >>] /\ present = {}
    /\ process = 1 /\ opened = 0 /\ chunks = 0 /\ failures = 0 /\ logged = 0

-----------------------------------------------------------------------------
(* The system calls that the holder of the lock makes.                     *)

do(call, file, rec) == [call |-> call, file |-> file, rec |-> rec]

\* The next call is c, which was made: the lock is free after the last one.
Made(c) ==
    /\ job # << >> /\ Head(job).call = c
    /\ job' = Tail(job)
    /\ owner' = IF Tail(job) = << >> THEN None ELSE owner

close ==
    /\ Made("close")
    /\ g' = [g EXCEPT !.fd = FALSE]
    /\ UNCHANGED <<mode, conn, diskVars, usedVars, pastVars>>

unlink ==
    /\ Made("unlink")
    /\ present' = present \ {Head(job).file}
    /\ files' = [files EXCEPT ![Head(job).file] = << >>]
    /\ UNCHANGED <<mode, g, conn, usedVars, pastVars>>

\* <path>.(i-1) becomes <path>.i; there may be none.
rename ==
    /\ Made("rename")
    /\ LET to == Head(job).file
       IN  IF to - 1 \in present
           THEN /\ present' = (present \ {to - 1}) \cup {to}
                /\ files' = [files EXCEPT ![to] = files[to - 1], ![to - 1] = << >>]
           ELSE UNCHANGED diskVars
    /\ UNCHANGED <<mode, g, conn, usedVars, pastVars>>

\* Mutant: the header goes into every file that is opened.
NeedsHeader_Always(file) == TRUE

NeedsHeader(file) == Size(file) = 0

\* open_live up to fstat.
open_live ==
    /\ job # << >> /\ Head(job).call = "open"
    /\ present' = present \cup {0}
    /\ g' = [fd |-> TRUE, written |-> Size(files[0])]
    /\ job' = IF NeedsHeader(files[0]) THEN <<do("header", 0, Header)>> \o Tail(job)
                                       ELSE Tail(job)
    /\ owner' = IF job' = << >> THEN None ELSE owner
    /\ UNCHANGED <<mode, conn, usedVars, files, pastVars>>

\* open or fstat fails: there will be no capture for the rest of the process.
open_fails ==
    /\ job # << >> /\ Head(job).call = "open" /\ failures < MaxFailures
    /\ failures' = failures + 1
    /\ mode' = "disabled"
    /\ job' = << >> /\ owner' = None
    /\ UNCHANGED <<g, conn, usedVars, diskVars, process, logged>>

enable ==
    /\ Made("enable")
    /\ mode' = "enabled"
    /\ UNCHANGED <<g, conn, usedVars, diskVars, pastVars>>

Put(rec, whole) ==
    /\ logged' = IF rec = Header THEN logged ELSE logged + 1
    /\ files' = [files EXCEPT ![0] = Append(@, [what |-> rec, whole |-> whole, nth |-> logged'])]

\* What written is after the header or a record: all of it is taken to be in the file.
Written(rec) == IF rec = Header THEN PCAP_HEADER_LEN ELSE g.written + Length(rec)

\* write_fully; when write fails, what is left of the record is forgotten.
write_fully(c) ==
    /\ Made(c)
    /\ g' = [g EXCEPT !.written = Written(Head(job).rec)]
    /\ \/ Put(Head(job).rec, TRUE) /\ UNCHANGED failures
       \/ /\ failures < MaxFailures /\ failures' = failures + 1
          /\ \/ Put(Head(job).rec, FALSE)
             \/ UNCHANGED <<files, logged>>
    /\ UNCHANGED <<mode, conn, usedVars, present, process>>

-----------------------------------------------------------------------------
(* The connections.                                                        *)

\* ensure_init under the lock: a path is set, or not.
ensure_init(t) ==
    /\ owner = None /\ mode = "uninit" /\ conn[t].at = "closed"
    /\ \/ /\ job' = <<do("open", 0, Header), do("enable", 0, Header)>>
          /\ owner' = t /\ UNCHANGED mode
       \/ mode' = "disabled" /\ UNCHANGED <<owner, job>>
    /\ UNCHANGED <<g, conn, diskVars, usedVars, pastVars>>

\* conn_open, once STATE is decided.
conn_open(t) ==
    /\ owner # t /\ mode # "uninit" /\ conn[t].at = "closed"
    /\ opened < MaxConns /\ opened' = opened + 1
    /\ conn' = [conn EXCEPT ![t] =
                  IF mode = "disabled" THEN [Closed EXCEPT !.at = "off"]
                  ELSE [Closed EXCEPT !.at = "opening", !.shakes = 3]]
    /\ UNCHANGED <<sinkVars, diskVars, chunks, pastVars>>

\* Mutant: the youngest file is moved first.
rotate_Upwards ==
    [i \in 1..(KeepFiles - 1) |-> do("rename", i, Header)]

\* unlink the oldest file, then move the others up, the live one last.
rotate_files ==
    IF KeepFiles = 1 THEN <<do("unlink", 0, Header)>>
    ELSE <<do("unlink", KeepFiles - 1, Header)>>
         \o [i \in 1..(KeepFiles - 1) |-> do("rename", KeepFiles - i, Header)]

rotate == <<do("close", 0, Header)>> \o rotate_files \o <<do("open", 0, Header)>>

\* Mutant: the record to come is not counted.
Overflows_Late(rec) == g.written >= MaxFile

Overflows(rec) == g.written + Length(rec) > MaxFile

\* append_record, up to its first system call.
append_record(t, rec) ==
    /\ owner = None
    /\ IF ~g.fd THEN UNCHANGED <<owner, job>>
       ELSE /\ owner' = t
            /\ job' = (IF Overflows(rec) THEN rotate ELSE << >>) \o <<do("write", 0, rec)>>
    /\ UNCHANGED <<mode, g, diskVars, pastVars>>

packet(t, dir, seq, ack, syn, payload) ==
    [conn |-> <<process, t>>, dir |-> dir, seq |-> seq, ack |-> ack, syn |-> syn,
     payload |-> payload]

\* The SYN, SYN-ACK and ACK of conn_open.
handshake(t) ==
    /\ conn[t].at = "opening"
    /\ append_record(t, CASE conn[t].shakes = 3 -> packet(t, "c2s", 0, 0, TRUE, 0)
                          [] conn[t].shakes = 2 -> packet(t, "s2c", 0, 1, TRUE, 0)
                          [] conn[t].shakes = 1 -> packet(t, "c2s", 1, 1, FALSE, 0))
    /\ conn' = [conn EXCEPT ![t] =
                  IF @.shakes > 1 THEN [@ EXCEPT !.shakes = @ - 1]
                  ELSE [@ EXCEPT !.at = "open", !.shakes = 0, !.seq_c = 1, !.seq_s = 1]]
    /\ UNCHANGED usedVars

\* log, for one chunk.
log(t, dir, n) ==
    /\ conn[t].at = "open" /\ chunks < MaxChunks
    /\ append_record(t, IF dir = "c2s" THEN packet(t, dir, conn[t].seq_c, conn[t].seq_s, FALSE, n)
                                       ELSE packet(t, dir, conn[t].seq_s, conn[t].seq_c, FALSE, n))
    /\ conn' = [conn EXCEPT ![t].seq_c = IF dir = "c2s" THEN @ + n ELSE @,
                            ![t].seq_s = IF dir = "s2c" THEN @ + n ELSE @]
    /\ chunks' = chunks + 1
    /\ UNCHANGED opened

\* The process is killed, perhaps with the first bytes of a write in the file, and is
\* started again.
killed ==
    /\ process <= MaxCrashes
    /\ process' = process + 1
    /\ mode' = "uninit" /\ g' = [fd |-> FALSE, written |-> 0]
    /\ owner' = None /\ job' = << >>
    /\ conn' = [t \in Threads |-> Closed]
    /\ \/ UNCHANGED <<files, logged>>
       \/ /\ job # << >> /\ Head(job).call \in {"header", "write"}
          /\ Put(Head(job).rec, FALSE)
    /\ UNCHANGED <<present, usedVars, failures>>

Sink ==
    \/ close \/ unlink \/ rename \/ open_live \/ open_fails \/ enable
    \/ write_fully("header") \/ write_fully("write")

Next ==
    \/ Sink \/ killed
    \/ \E t \in Threads :
           \/ ensure_init(t) \/ conn_open(t) \/ handshake(t)
           \/ \E dir \in Dirs, n \in Segments : log(t, dir, n)

Spec == Init /\ [][Next]_vars

\* The threads are interchangeable.
Symmetry == Permutations(Threads)

-----------------------------------------------------------------------------
(* Properties.                                                             *)

\* What the files hold, from the oldest to the live one.
Kept ==
    LET all == FoldLeft(LAMBDA items, k : items \o files[KeepFiles - k], << >>,
                        [k \in 1..KeepFiles |-> k])
    IN  SelectSeq(all, LAMBDA i : i.what # Header)

\* The files, from the oldest to the live one, hold the last records that were written,
\* without a gap and in order: at every step of a rotation, and so also when the
\* process is killed in the middle of one and the next process rotates again.
CaptureIsSuffix ==
    \A i \in DOMAIN Kept : Kept[i].nth = logged - Len(Kept) + i

\* "at most 3 files / 3 MiB on disk including the live one": no file grows past its cap,
\* also when it is continued after a restart or a write failed.
Capped == \A f \in Slots : Size(files[f]) <= MaxFile

NextSeq(r) == r.seq + r.payload + (IF r.syn THEN 1 ELSE 0)

\* Later packets of a connection continue the sequence numbers of the last one before
\* them in their direction, and acknowledge the last one in the other.
Seamless(recs) ==
    \A b \in DOMAIN recs : \A dir \in Dirs :
        LET before == {a \in 1..(b - 1) : recs[a].what.conn = recs[b].what.conn
                                          /\ recs[a].what.dir = dir}
            last == CHOOSE x \in before : \A y \in before : y <= x
        IN  before # {} =>
                NextSeq(recs[last].what) = IF recs[b].what.dir = dir THEN recs[b].what.seq
                                                                    ELSE recs[b].what.ack

\* A capture can be read: unless a call failed, every file begins with the one pcap
\* header it has, which a kill may leave torn, and no packet of a connection is missing
\* between two others, although rotation and other threads come between them.
Readable ==
    failures = 0 =>
        /\ \A f \in Slots : \A i \in DOMAIN files[f] : files[f][i].what = Header <=> i = 1
        /\ Seamless(Kept)

=============================================================================
