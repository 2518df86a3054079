------------------------------- MODULE Health -------------------------------
(***************************************************************************)
(* grpc.health.v1.Health of the C ABI (grpcuds-ffi-impl/src/health.rs) and *)
(* of its C++ twin (grpcudspp/health.h), which take the same steps: the    *)
(* registry under its mutex, set_status on any thread, Check and Watch on  *)
(* the I/O thread, the cancel hook, and connections that come and go.      *)
(*                                                                         *)
(* Each connection makes one call, whose id is the same on every           *)
(* connection, so a call handle is its connection's address.  A critical   *)
(* section is one step.  FfiMailbox has the mailbox in detail; here it is  *)
(* its queue, replayed item by item, and its tombstones.                   *)
(***************************************************************************)
EXTENDS Naturals, Sequences, FiniteSets, SequencesExt

CONSTANTS
    Producers,  \* threads other than the I/O thread
    IO,         \* the I/O thread
    Addrs,      \* addresses the allocator gives to a connection
    Null,       \* the null handle, and no status, no watcher
    Services,   \* service names; "" is the server overall
    MaxConns,   \* bound: connections accepted
    MaxChanges  \* bound: changes of a status, the seed included

ASSUME HealthAssumption ==
    /\ IO \notin Producers
    /\ Null \notin Addrs
    /\ "" \in Services
    /\ {MaxConns, MaxChanges} \subseteq Nat

Conns    == 1..MaxConns
Threads  == Producers \cup {IO}
Statuses == {"SERVING", "NOT_SERVING"}

\* HealthCheckResponse.  History: the connection it is for, the change it tells of
\* (for a first message the last one made before), whether it is a first message.
Message == [status : Statuses \cup {"SERVICE_UNKNOWN"}, conn : Conns, n : 0..MaxChanges,
            first : BOOLEAN]

\* A watcher; "conn" is history, the connection that call stood for.
Watcher == [call : Addrs, conn : Conns, service : Services, live : BOOLEAN]

VARIABLES
    statuses,   \* the status of each service, Null if it is not registered
    seeded,     \* "" has been set to SERVING
    watchers,   \* the registry's watchers
    conns,      \* the connection at each address, 0 for none
    addr,       \* the address each connection was given
    call,       \* per connection: its call, none, open, finished, cancelled or gone
    service,    \* per connection: the service its Watch asks for
    hook,       \* connections whose call has on_cancel installed, for its own watcher
    dead,       \* the mailbox's tombstones
    queue,      \* the mailbox's queue
    io,         \* the I/O thread: loop, or inside watch_tr
    thread,     \* per thread: the writes its set_status still has to make
    heard,      \* per connection: the messages its call took, in order
    log         \* history: the changes made

connVars == <<conns, addr, call, service>>
vars == <<statuses, seeded, watchers, connVars, hook, dead, queue, io, thread, heard, log>>

Write == [call : Addrs \cup {Null}, msg : Message]

TypeOK ==
    /\ statuses \in [Services -> Statuses \cup {Null}]
    /\ seeded \in BOOLEAN
    /\ watchers \in Seq(Watcher)
    /\ conns \in [Addrs -> 0..MaxConns]
    /\ addr \in [Conns -> Addrs \cup {Null}]
    /\ call \in [Conns -> {"none", "open", "finished", "cancelled", "gone"}]
    /\ service \in [Conns -> Services \cup {Null}]
    /\ hook \subseteq Conns
    /\ dead \subseteq Addrs
    /\ queue \in Seq(Write)
    /\ io \in [at : {"loop", "hook", "write"}, conn : 0..MaxConns, msg : Message \cup {Null}]
    /\ thread \in [Threads -> Seq(Write)]
    /\ heard \in [Conns -> Seq(Message)]
    /\ log \in Seq([service : Services, by : Threads])

Loop == [at |-> "loop", conn |-> 0, msg |-> Null]

Init ==
    /\ statuses = [s \in Services |-> Null]
    /\ seeded = FALSE
    /\ watchers = << >>
    /\ conns = [a \in Addrs |-> 0]
    /\ addr = [g \in Conns |-> Null]
    /\ call = [g \in Conns |-> "none"]
    /\ service = [g \in Conns |-> Null]
    /\ hook = {}
    /\ dead = {}
    /\ queue = << >>
    /\ io = Loop
    /\ thread = [t \in Threads |-> << >>]
    /\ heard = [g \in Conns |-> << >>]
    /\ log = << >>

IoIdle == io = Loop /\ thread[IO] = << >>

Accepted(g) == addr[g] # Null
Open(g) == Accepted(g) /\ conns[addr[g]] = g

\* The core's write_call: a call that is not there or has finished takes nothing.
\* What a write to the address of a freed connection does is undefined; here it
\* changes no other call.
Delivered(a, msg) ==
    LET g == conns[a]
    IN  IF g # 0 /\ call[g] = "open" THEN [heard EXCEPT ![g] = Append(@, msg)] ELSE heard

-----------------------------------------------------------------------------
(* The registry.                                                           *)

find(s) == statuses[s]

find_orUnknown(s) == IF find(s) = Null THEN "SERVICE_UNKNOWN" ELSE find(s)

\* HealthState::set, FindOrAddStatus
set(s, status, t) ==
    /\ statuses' = [statuses EXCEPT ![s] = status]
    /\ log' = Append(log, [service |-> s, by |-> t])

\* grpcuds_health_register, the HealthService constructor: "" starts as SERVING,
\* once per process.
health_register ==
    /\ IoIdle /\ ~seeded /\ Len(log) < MaxChanges
    /\ seeded' = TRUE
    /\ set("", "SERVING", IO)
    /\ UNCHANGED <<watchers, connVars, hook, dead, queue, io, thread, heard>>

Told_First(s) ==
    LET told == SelectSeq(watchers, LAMBDA w : w.live /\ w.service = s)
    IN  IF told = << >> THEN told ELSE <<Head(told)>>

\* The watchers that set_status finds under the lock.
Told(s) == SelectSeq(watchers, LAMBDA w : w.live /\ w.service = s)

\* set_status up to the unlock: the writes are still to be made.
set_status(t, s, status) ==
    /\ thread[t] = << >> /\ (t = IO => IoIdle)
    /\ Len(log) < MaxChanges
    /\ set(s, status, t)
    /\ LET To(w) == [call |-> w.call,
                     msg |-> [status |-> status, conn |-> w.conn, n |-> Len(log) + 1,
                              first |-> FALSE]]
           told == Told(s)
       IN  thread' = [thread EXCEPT ![t] = [i \in DOMAIN told |-> To(told[i])]]
    /\ UNCHANGED <<seeded, watchers, connVars, hook, dead, queue, io, heard>>

\* grpcuds_call_write for the next of them: direct on the I/O thread, else pushed.
call_write(t) ==
    /\ thread[t] # << >>
    /\ thread' = [thread EXCEPT ![t] = Tail(@)]
    /\ LET w == Head(thread[t])
       IN  IF t = IO THEN heard' = Delivered(w.call, w.msg) /\ queue' = queue
           ELSE queue' = Append(queue, w) /\ heard' = heard
    /\ UNCHANGED <<statuses, seeded, watchers, connVars, hook, dead, io, log>>

-----------------------------------------------------------------------------
(* Handlers, on the I/O thread.                                            *)

Called(g) == IoIdle /\ seeded /\ Open(g) /\ call[g] = "none"

\* decode_check_request fails: either method finishes with INVALID_ARGUMENT.
decode_fails(g) ==
    /\ Called(g)
    /\ call' = [call EXCEPT ![g] = "finished"]
    /\ UNCHANGED <<statuses, seeded, watchers, conns, addr, service, hook, dead, queue, io,
                   thread, heard, log>>

Response(g, status) == [status |-> status, conn |-> g, n |-> Len(log), first |-> TRUE]

\* Check: NOT_FOUND, or the status and OK.
check_tr(g, s) ==
    /\ Called(g)
    /\ call' = [call EXCEPT ![g] = "finished"]
    /\ heard' = IF find(s) = Null THEN heard
                ELSE [heard EXCEPT ![g] = <<Response(g, find(s))>>]
    /\ UNCHANGED <<statuses, seeded, watchers, conns, addr, service, hook, dead, queue, io,
                   thread, log>>

Reaped_All == << >>

\* Watchers cancelled since the last Watch go.
Reaped == SelectSeq(watchers, LAMBDA w : w.live)

\* Watch, the part under the lock.
watch_tr(g, s) ==
    /\ Called(g)
    /\ call' = [call EXCEPT ![g] = "open"]
    /\ service' = [service EXCEPT ![g] = s]
    /\ watchers' = Append(Reaped, [call |-> addr[g], conn |-> g, service |-> s, live |-> TRUE])
    /\ io' = [at |-> "hook", conn |-> g, msg |-> Response(g, find_orUnknown(s))]
    /\ UNCHANGED <<statuses, seeded, conns, addr, hook, dead, queue, thread, heard, log>>

watch_hook ==
    /\ io.at = "hook"
    /\ io' = [io EXCEPT !.at = "write"]
    /\ hook' = hook \cup {io.conn}
    /\ UNCHANGED <<statuses, seeded, watchers, connVars, dead, queue, thread, heard, log>>

watch_write_Queued ==
    /\ io.at = "write"
    /\ io' = Loop
    /\ queue' = Append(queue, [call |-> addr[io.conn], msg |-> io.msg])
    /\ UNCHANGED <<statuses, seeded, watchers, connVars, hook, dead, thread, heard, log>>

\* The first message, written directly and after the unlock.
watch_write ==
    /\ io.at = "write"
    /\ io' = Loop
    /\ heard' = Delivered(addr[io.conn], io.msg)
    /\ UNCHANGED <<statuses, seeded, watchers, connVars, hook, dead, queue, thread, log>>

\* The peer resets the call or its deadline expires: the hook fires, if it is
\* there, and takes the lock.
on_cancel(g) ==
    /\ IoIdle /\ Open(g) /\ call[g] = "open"
    /\ call' = [call EXCEPT ![g] = "cancelled"]
    /\ watchers' = [i \in DOMAIN watchers |->
                       IF g \in hook /\ watchers[i].conn = g
                       THEN [watchers[i] EXCEPT !.live = FALSE] ELSE watchers[i]]
    /\ hook' = hook \ {g}
    /\ UNCHANGED <<statuses, seeded, conns, addr, service, dead, queue, io, thread, heard, log>>

-----------------------------------------------------------------------------
(* Connections and the mailbox, on the I/O thread.                         *)

\* grpcuds_server_accept
accept(a) ==
    /\ IoIdle /\ conns[a] = 0
    /\ \E g \in Conns :
          /\ ~Accepted(g) /\ \A h \in 1..(g - 1) : Accepted(h)
          /\ conns' = [conns EXCEPT ![a] = g]
          /\ addr' = [addr EXCEPT ![g] = a]
    /\ dead' = dead \ {a}
    /\ UNCHANGED <<statuses, seeded, watchers, call, service, hook, queue, io, thread, heard,
                   log>>

\* grpcuds_conn_free after EOF or an error: tombstone and scrub.  The calls go with
\* the session, and no hook fires.
conn_free(a) ==
    /\ IoIdle /\ conns[a] # 0
    /\ conns' = [conns EXCEPT ![a] = 0]
    /\ call' = [call EXCEPT ![conns[a]] = "gone"]
    /\ hook' = hook \ {conns[a]}
    /\ dead' = dead \cup {a}
    /\ queue' = [i \in DOMAIN queue |->
                    IF queue[i].call = a THEN [queue[i] EXCEPT !.call = Null] ELSE queue[i]]
    /\ UNCHANGED <<statuses, seeded, watchers, addr, service, io, thread, heard, log>>

drain ==
    /\ IoIdle /\ queue # << >>
    /\ queue' = Tail(queue)
    /\ LET w == Head(queue)
       IN  heard' = IF w.call = Null \/ w.call \in dead THEN heard ELSE Delivered(w.call, w.msg)
    /\ UNCHANGED <<statuses, seeded, watchers, connVars, hook, dead, io, thread, log>>

-----------------------------------------------------------------------------

Registry ==
    \/ health_register
    \/ \E t \in Threads : call_write(t)
    \/ \E t \in Threads, s \in Services, status \in Statuses : set_status(t, s, status)

Handler ==
    \/ \E g \in Conns : decode_fails(g) \/ on_cancel(g)
    \/ \E g \in Conns, s \in Services : check_tr(g, s) \/ watch_tr(g, s)
    \/ watch_hook \/ watch_write

Next == Registry \/ Handler \/ drain \/ \E a \in Addrs : accept(a) \/ conn_free(a)

Spec == Init /\ [][Next]_vars

-----------------------------------------------------------------------------
(* Properties.                                                             *)

\* The messages of a call that are meant for it.
Own(g) == SelectSeq(heard[g], LAMBDA m : m.conn = g)

\* health.h: "initial status stays first on the wire".  Although a watcher is
\* registered before its first message is written, that message comes first, and
\* every later one tells of a change made since.
InitialFirst ==
    \A g \in Conns : \A i \in DOMAIN Own(g) :
        IF i = 1 THEN Own(g)[i].first ELSE ~Own(g)[i].first /\ Own(g)[i].n > Own(g)[1].n

\* The watcher that an installed hook points to is still in the registry: reaping
\* frees none that on_cancel may yet write to.
HooksOwned == \A g \in hook : \E i \in DOMAIN watchers : watchers[i].conn = g

\* Nothing is on its way to the call of g.
Settled(g) ==
    /\ io = Loop
    /\ \A i \in DOMAIN queue : queue[i].msg.conn # g
    /\ \A t \in Threads : \A i \in DOMAIN thread[t] : thread[t][i].msg.conn # g

\* The changes of its service since the first message of g.
Since(g) == {n \in (Own(g)[1].n + 1)..Len(log) : log[n].service = service[g]}

\* "then every change": once nothing is under way, an open Watch has heard of every
\* change of its service since its first message, of each once; and if one thread
\* made them all, the last message is the status that the registry holds.
CaughtUp ==
    \A g \in Conns : call[g] = "open" /\ Settled(g) =>
        /\ Own(g) # << >>
        /\ {Own(g)[i].n : i \in 2..Len(Own(g))} = Since(g)
        /\ Len(Own(g)) = Cardinality(Since(g)) + 1
        /\ Cardinality({log[n].by : n \in Since(g)}) <= 1 =>
               Last(Own(g)).status = find_orUnknown(service[g])

\* grpcuds.h on cancel hooks: they fire when the stream is closed with an error
\* ("peer RST_STREAM, protocol error, connection drop").  So a watcher that is
\* still live has an open call, and set_status writes to no other.
LiveIsOpen == \A i \in DOMAIN watchers : watchers[i].live => call[watchers[i].conn] = "open"

=============================================================================
