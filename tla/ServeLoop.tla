------------------------------ MODULE ServeLoop ------------------------------
(***************************************************************************)
(* The Rust server's I/O loop and its outbound mailbox                     *)
(* (rust/grpcuds/src/server.rs): Server::serve, Mailbox, ServerWriter,     *)
(* CallShared and the trampoline.                                          *)
(*                                                                         *)
(* One I/O thread owns every connection.  Any thread may hold a clone of a *)
(* call's ServerWriter; its operations are queued in the mailbox and       *)
(* applied by the I/O thread.  Every point where a thread can be preempted *)
(* between two accesses to shared memory is a step boundary here.          *)
(*                                                                         *)
(* The core connection (Conn) is seen through the results serve() acts on: *)
(* whether the stream exists, is finished, and has room in its queue.      *)
(***************************************************************************)
EXTENDS Naturals, Sequences, FiniteSets

CONSTANTS
    Producers,   \* threads, other than the I/O thread, holding writer clones
    IO,          \* the I/O thread, when it runs a handler
    CallIds,     \* HTTP/2 stream ids used on one connection
    MaxConns,    \* bound: connections accepted over the run
    MaxOps,      \* bound: ServerWriter operations per producer
    MaxHandlerOps,   \* bound: ServerWriter operations made inside handlers
    Policies,    \* backpressure settings a writer may ask for
    Unbounded    \* Backpressure::Unbounded

ASSUME ProducersAssumption == IO \notin Producers /\ IsFiniteSet(Producers)
ASSUME BoundsAssumption == {MaxConns, MaxOps, MaxHandlerOps} \subseteq Nat
ASSUME PolicyAssumption ==
    \A bp \in Policies :
        bp = Unbounded \/ bp \in [capacity : Nat \ {0}, reject : BOOLEAN]

Tokens  == 1..MaxConns
Calls   == Tokens \X CallIds
Threads == Producers \cup {IO}
None    == << >>
Deadline == << "deadline" >>   \* finished by the core, not by a writer

\* OutOp with its OpKind: who queued it, its number among that thread's
\* operations (standing for the payload), and the policy of a Policy op.
Op == [call : Calls, kind : {"Write", "Finish", "Policy"},
       from : Threads, n : Nat, bp : Policies \cup {Unbounded}]

VARIABLES
    ops,        \* Mailbox::ops
    wakeup,     \* the eventfd is readable (its counter is not 0)
    io,         \* where the I/O thread is in serve(): "tick" between two
                \* connections, "dispatch" inside the tick of one
    revents,    \* pfds[1].revents as the last poll returned it
    polled,     \* connections of this poll round not yet ticked (0..n_polled)
    running,    \* the call whose streaming handler is running, or None
    batch,      \* what take() returned and is not yet applied
    conns,      \* ConnSlot per token: absent, live, dead (to be retained out)
    next_token,
    shutdown,   \* the AtomicBool serve() was given
    finished, dead, overflow,   \* the calls whose CallShared has the flag set
    thread,     \* progress of each thread inside a ServerWriter operation
    count,      \* operations each thread has queued so far
    stream,     \* core: the call's stream; removed when closed (completed) or
                \* reset (RST_STREAM, or its connection is dropped)
    queued,     \* core: unstarted messages in the call's OutQueue
    policy,     \* core: the OutQueue's backpressure
    applied,    \* history: messages the core accepted, in order
    returned,   \* history: writes that returned Ok
    finishedBy  \* history: the op that finished the stream, Deadline or None

mailVars   == <<ops, wakeup>>
loopVars   == <<io, revents, polled, running, batch>>
connVars   == <<conns, next_token, shutdown>>
shared     == <<finished, dead, overflow>>
writerVars == <<shared, thread, count>>
coreVars   == <<stream, queued, policy, applied, finishedBy>>
pastVars   == <<returned>>
vars == <<mailVars, loopVars, connVars, writerVars, coreVars, pastVars>>

Idle == [step |-> "idle", op |-> None]

TypeOK ==
    /\ ops \in Seq(Op)
    /\ wakeup \in BOOLEAN
    /\ io \in {"check", "poll", "accept", "tick", "dispatch", "apply", "flush",
              "stopped"}
    /\ revents \in BOOLEAN
    /\ polled \in SUBSET Tokens
    /\ running \in Calls \cup {None}
    /\ batch \in Seq(Op)
    /\ conns \in [Tokens -> {"absent", "live", "dead"}]
    /\ next_token \in 1..(MaxConns + 1)
    /\ shutdown \in BOOLEAN
    /\ finished \in SUBSET Calls
    /\ dead \in SUBSET Calls
    /\ overflow \in SUBSET Calls
    /\ thread \in [Threads -> [step : {"idle", "swap", "push", "poke"},
                               op : Op \cup {None}]]
    /\ \A t \in Threads : thread[t].step \in {"swap", "push"} => thread[t].op \in Op
    /\ count \in [Threads -> Nat]
    /\ stream \in [Calls -> {"none", "open", "finished", "closed", "reset"}]
    /\ queued \in [Calls -> Nat]
    /\ policy \in [Calls -> Policies \cup {Unbounded}]
    /\ applied \in [Calls -> Seq(Threads \X Nat)]
    /\ returned \in SUBSET (Calls \X Threads \X Nat)
    /\ finishedBy \in [Calls -> {None, Deadline} \cup (Threads \X Nat)]

Init ==
    /\ ops = << >>
    /\ wakeup = FALSE
    /\ io = "check"
    /\ revents = FALSE
    /\ polled = {}
    /\ running = None
    /\ batch = << >>
    /\ conns = [t \in Tokens |-> "absent"]
    /\ next_token = 1
    /\ shutdown = FALSE
    /\ finished = {}
    /\ dead = {}
    /\ overflow = {}
    /\ thread = [t \in Threads |-> Idle]
    /\ count = [t \in Threads |-> 0]
    /\ stream = [c \in Calls |-> "none"]
    /\ queued = [c \in Calls |-> 0]
    /\ policy = [c \in Calls |-> Unbounded]
    /\ applied = [c \in Calls |-> << >>]
    /\ returned = {}
    /\ finishedBy = [c \in Calls |-> None]

-----------------------------------------------------------------------------
(* ServerWriter, on any thread.                                            *)

closed(c) == c \in finished \/ c \in dead

\* A call's writer exists from its dispatch on.  The I/O thread uses it only
\* inside the handler; producers may keep it for ever.
HoldsWriter(t, c) ==
    /\ stream[c] # "none"
    /\ t = IO => running = c

MayCall(t) == count[t] < IF t = IO THEN MaxHandlerOps ELSE MaxOps

NewOp(t, c, kind, bp) ==
    [call |-> c, kind |-> kind, from |-> t, n |-> count[t] + 1, bp |-> bp]

\* The two loads of closed() are one step: both flags only ever rise, so
\* "both were false" was true at the first load.
write(t, c) ==
    /\ thread[t].step = "idle" /\ MayCall(t)
    /\ HoldsWriter(t, c)
    /\ ~closed(c)
    /\ thread' = [thread EXCEPT ![t] =
                    [step |-> "push", op |-> NewOp(t, c, "Write", Unbounded)]]
    /\ count' = [count EXCEPT ![t] = @ + 1]
    /\ UNCHANGED <<mailVars, loopVars, connVars, shared, coreVars, pastVars>>

set_backpressure(t, c, bp) ==
    /\ thread[t].step = "idle" /\ MayCall(t)
    /\ HoldsWriter(t, c)
    /\ ~closed(c)
    /\ thread' = [thread EXCEPT ![t] =
                    [step |-> "push", op |-> NewOp(t, c, "Policy", bp)]]
    /\ count' = [count EXCEPT ![t] = @ + 1]
    /\ UNCHANGED <<mailVars, loopVars, connVars, shared, coreVars, pastVars>>

\* finish: `dead` is loaded, and `finished` swapped in a second access.
finish(t, c) ==
    /\ thread[t].step = "idle" /\ MayCall(t)
    /\ HoldsWriter(t, c)
    /\ c \notin dead
    /\ thread' = [thread EXCEPT ![t] =
                    [step |-> "swap", op |-> NewOp(t, c, "Finish", Unbounded)]]
    /\ count' = [count EXCEPT ![t] = @ + 1]
    /\ UNCHANGED <<mailVars, loopVars, connVars, shared, coreVars, pastVars>>

LostSwap_Ignored(c) == c \in dead
LostSwap(c) == c \in finished

finish_swap(t) ==
    /\ thread[t].step = "swap"
    /\ LET c == thread[t].op.call IN
       /\ thread' = IF LostSwap(c)
                    THEN [thread EXCEPT ![t] = Idle]          \* Err(Closed)
                    ELSE [thread EXCEPT ![t].step = "push"]
       /\ finished' = finished \cup {c}
    /\ UNCHANGED <<mailVars, loopVars, connVars, dead, overflow, count, coreVars,
                   pastVars>>

\* Mailbox::push under its lock, and the decision whether a poke is due.
NeedsPoke_Late(t) == Len(ops) = 1 /\ t # IO
NeedsPoke(t) == ops = << >> /\ t # IO

push(t) ==
    /\ thread[t].step = "push"
    /\ LET op == thread[t].op
       IN /\ ops' = Append(ops, op)
          /\ thread' = [thread EXCEPT ![t] =
                          IF NeedsPoke(t)
                          THEN [step |-> "poke", op |-> None] ELSE Idle]
          /\ returned' = IF op.kind = "Write"
                         THEN returned \cup {<<op.call, t, op.n>>} ELSE returned
    /\ UNCHANGED <<wakeup, loopVars, connVars, shared, count, coreVars>>

poke(t) ==
    /\ thread[t].step = "poke"
    /\ wakeup' = TRUE
    /\ thread' = [thread EXCEPT ![t] = Idle]
    /\ UNCHANGED <<ops, loopVars, connVars, shared, count, coreVars,
                   pastVars>>

ThreadStep(t) ==
    \/ \E c \in Calls : write(t, c) \/ finish(t, c)
    \/ \E c \in Calls, bp \in Policies : set_backpressure(t, c, bp)
    \/ finish_swap(t)
    \/ push(t)
    \/ poke(t)

-----------------------------------------------------------------------------
(* serve(), on the I/O thread.                                             *)

Live == {t \in Tokens : conns[t] = "live"}

\* serve() returns: its connections are dropped with it.
Leave ==
    /\ io' = "stopped"
    /\ conns' = [t \in Tokens |-> "absent"]
    /\ stream' = [c \in Calls |->
                    IF stream[c] \in {"open", "finished"} THEN "reset" ELSE stream[c]]
    /\ UNCHANGED polled

\* Loop head: leave on shutdown, else build the poll set.
check_shutdown ==
    /\ io = "check"
    /\ IF shutdown
       THEN Leave
       ELSE io' = "poll" /\ polled' = Live /\ UNCHANGED <<conns, stream>>
    /\ UNCHANGED <<mailVars, revents, running, batch, next_token, shutdown,
                   writerVars, queued, policy, applied, finishedBy, pastVars>>

poll_NoTimeout ==
    /\ io = "poll" /\ wakeup
    /\ io' = "accept"
    /\ revents' = wakeup
    /\ UNCHANGED <<mailVars, polled, running, batch, connVars, writerVars, coreVars,
                   pastVars>>

\* poll(2) returns on an event or after 100 ms, reporting the eventfd as it is.
poll ==
    /\ io = "poll"
    /\ io' = "accept"
    /\ revents' = wakeup
    /\ UNCHANGED <<mailVars, polled, running, batch, connVars, writerVars,
                   coreVars, pastVars>>

\* EINTR starts the loop over; any other error ends serve().
poll_error ==
    /\ io = "poll"
    /\ \/ io' = "check" /\ UNCHANGED <<polled, conns, stream>>
       \/ Leave
    /\ UNCHANGED <<mailVars, revents, running, batch, next_token, shutdown,
                   writerVars, queued, policy, applied, finishedBy, pastVars>>

\* One accepted connection.  It is not in this round's poll set.
accept ==
    /\ io = "accept"
    /\ next_token <= MaxConns
    /\ conns' = [conns EXCEPT ![next_token] = "live"]
    /\ next_token' = next_token + 1
    /\ UNCHANGED <<mailVars, loopVars, shutdown, writerVars, coreVars,
                   pastVars>>

\* accept() has no more; the eventfd counter is cleared if poll reported it.
drain_wakeup ==
    /\ io = "accept"
    /\ io' = "tick"
    /\ wakeup' = IF revents THEN FALSE ELSE wakeup
    /\ UNCHANGED <<ops, revents, polled, running, batch, connVars,
                   writerVars, coreVars, pastVars>>

\* Connections are ticked in slot order, which is token order.
First(t) == t \in polled /\ \A u \in polled : t <= u

OpenOn(T) == {c \in Calls : c[1] \in T /\ stream[c] = "open"}

\* A tick starts: expire_deadlines finishes the calls in expired, then the
\* reads remove the streams in resets that the peer gave up.  A connection
\* without events is a tick that does nothing.
tick_begin(t) ==
    /\ io = "tick" /\ First(t)
    /\ io' = "dispatch"
    /\ \E expired \in SUBSET OpenOn({t}),
          resets \in SUBSET {c \in Calls : c[1] = t /\ stream[c] \in {"open", "finished"}} :
        /\ stream' = [c \in Calls |-> IF c \in resets THEN "reset"
                                      ELSE IF c \in expired THEN "finished"
                                      ELSE stream[c]]
        /\ finishedBy' = [c \in Calls |->
                            IF c \in expired THEN Deadline ELSE finishedBy[c]]
    /\ UNCHANGED <<mailVars, revents, polled, running, batch, connVars,
                   writerVars, queued, policy, applied, pastVars>>

Dispatching(t) == io = "dispatch" /\ running = None /\ First(t)

\* dispatch reaches the trampoline with a unary method: the framework queues
\* the message (Ok) and the finish; nobody else has the writer.
unary(c, ok) ==
    /\ Dispatching(c[1]) /\ stream[c] = "none"
    /\ stream' = [stream EXCEPT ![c] = "open"]
    /\ finished' = finished \cup {c}
    /\ LET w == NewOp(IO, c, "Write", Unbounded)
           f == [call |-> c, kind |-> "Finish", from |-> IO, n |-> count[IO] + 2,
                 bp |-> Unbounded]
       IN /\ ops' = ops \o (IF ok THEN <<w, f>> ELSE <<f>>)
          /\ returned' = IF ok THEN returned \cup {<<c, IO, w.n>>} ELSE returned
    /\ count' = [count EXCEPT ![IO] = @ + 2]
    /\ UNCHANGED <<wakeup, loopVars, connVars, dead, overflow, thread, queued,
                   policy, applied, finishedBy>>

\* ... or with a streaming method: the handler starts, and may give clones of
\* the writer away before it returns.
streaming(c) ==
    /\ Dispatching(c[1]) /\ stream[c] = "none"
    /\ stream' = [stream EXCEPT ![c] = "open"]
    /\ running' = c
    /\ UNCHANGED <<mailVars, io, revents, polled, batch, connVars,
                   writerVars, queued, policy, applied, finishedBy, pastVars>>

\* The handler returns: OK leaves the stream to the producers, an error goes
\* through finish unless some clone already finished.
streaming_return(ok) ==
    /\ running # None /\ thread[IO].step = "idle"
    /\ running' = None
    /\ LET c == running
           aborts == ~ok /\ ~closed(c)
       IN /\ ops' = IF aborts THEN Append(ops, NewOp(IO, c, "Finish", Unbounded)) ELSE ops
          /\ finished' = IF aborts THEN finished \cup {c} ELSE finished
          /\ count' = IF aborts THEN [count EXCEPT ![IO] = @ + 1] ELSE count
    /\ UNCHANGED <<wakeup, io, revents, polled, batch, connVars, dead, overflow,
                   thread, coreVars, pastVars>>

\* What tick_write does to the streams of the connections in T, some of whose
\* open calls (expired) it finishes first: the connections in gone fail; the
\* other queues shrink to left, and a finished stream whose queue is empty is
\* closed once its trailers are out too (done).
QueueBound == 1 + MaxHandlerOps + MaxOps * Cardinality(Producers)

Flushing(T, gone, expired) ==
    \E left \in [Calls -> 0..QueueBound] :
        /\ \A c \in Calls : IF c[1] \in T \ gone THEN left[c] <= queued[c]
                                                ELSE left[c] = queued[c]
        /\ queued' = left
        /\ \E done \in SUBSET {c \in Calls :
                  /\ c[1] \in T \ gone /\ left[c] = 0
                  /\ stream[c] = "finished" \/ c \in expired} :
             stream' = [c \in Calls |->
                 IF c[1] \in gone /\ stream[c] \in {"open", "finished"} THEN "reset"
                 ELSE IF c \in done THEN "closed"
                 ELSE IF c \in expired THEN "finished"
                 ELSE stream[c]]

\* The tick of one polled connection ends with a flush, Live or not.
tick_end(t) ==
    /\ Dispatching(t)
    /\ io' = "tick"
    /\ polled' = polled \ {t}
    /\ \E gone \in {{}, {t}} :
        /\ Flushing({t}, gone, {})
        /\ conns' = [conns EXCEPT ![t] = IF t \in gone THEN "dead" ELSE @]
    /\ UNCHANGED <<mailVars, revents, running, batch, next_token,
                   shutdown, writerVars, policy, applied, finishedBy, pastVars>>

Taken_Stack == [i \in DOMAIN ops |-> ops[Len(ops) + 1 - i]]
Taken_FinishLast ==
    SelectSeq(Taken_Stack, LAMBDA op : op.kind # "Finish")
        \o SelectSeq(ops, LAMBDA op : op.kind = "Finish")
Taken == ops

\* Mailbox::take, once every polled connection was ticked.
take ==
    /\ io = "tick" /\ polled = {}
    /\ batch' = Taken
    /\ ops' = << >>
    /\ io' = "apply"
    /\ revents' = FALSE   \* not read again
    /\ UNCHANGED <<wakeup, polled, running, connVars, writerVars,
                   coreVars, pastVars>>

Room(c) == policy[c] = Unbounded \/ queued[c] < policy[c].capacity

\* write_call_owned, finish_call[_msg] and set_stream_policy, by result.
OpResult(op) ==
    IF conns[op.call[1]] # "live" \/ stream[op.call] \in {"closed", "reset"}
    THEN "not_found"
    ELSE IF op.kind = "Write" /\ stream[op.call] = "finished" THEN "finished"
    ELSE IF op.kind = "Write" /\ ~Room(op.call) /\ policy[op.call].reject
    THEN "full"
    ELSE "ok"

\* How a result is reported through CallShared.
MarksDead(res) == res \in {"not_found", "finished"}

MarksOverflow_Never(res) == FALSE
MarksOverflow(res) == res = "full"

\* One op of the batch is applied on its connection, or bounces.
apply ==
    /\ io = "apply" /\ batch # << >>
    /\ batch' = Tail(batch)
    /\ LET op  == Head(batch)
           c   == op.call
           res == OpResult(op)
       IN /\ dead' = IF MarksDead(res) THEN dead \cup {c} ELSE dead
          /\ overflow' = IF MarksOverflow(res) THEN overflow \cup {c} ELSE overflow
          /\ applied' = IF res = "ok" /\ op.kind = "Write"
                        THEN [applied EXCEPT ![c] = Append(@, <<op.from, op.n>>)]
                        ELSE applied
          /\ queued' = IF res = "ok" /\ op.kind = "Write" /\ Room(c)
                       THEN [queued EXCEPT ![c] = @ + 1] ELSE queued
          /\ policy' = IF res = "ok" /\ op.kind = "Policy"
                       THEN [policy EXCEPT ![c] = op.bp] ELSE policy
          /\ IF res = "ok" /\ op.kind = "Finish" /\ stream[c] = "open"
             THEN /\ stream' = [stream EXCEPT ![c] = "finished"]
                  /\ finishedBy' = [finishedBy EXCEPT ![c] = <<op.from, op.n>>]
             ELSE UNCHANGED <<stream, finishedBy>>
    /\ UNCHANGED <<mailVars, io, revents, polled, running, connVars, finished,
                   thread, count, pastVars>>

apply_done ==
    /\ io = "apply" /\ batch = << >>
    /\ io' = "flush"
    /\ UNCHANGED <<mailVars, revents, polled, running, batch, connVars,
                   writerVars, coreVars, pastVars>>

\* tick_write on the connections the ops made writable (deadlines expire there
\* too), then conns.retain(|s| !s.dead).
flush ==
    /\ io = "flush"
    /\ io' = "check"
    /\ \E gone \in SUBSET Live, expired \in SUBSET OpenOn(Live) :
        /\ Flushing(Live, gone, expired)
        /\ finishedBy' = [c \in Calls |->
                            IF c \in expired THEN Deadline ELSE finishedBy[c]]
        /\ conns' = [t \in Tokens |-> IF conns[t] = "live" /\ t \notin gone
                                      THEN "live" ELSE "absent"]
    /\ UNCHANGED <<mailVars, revents, polled, running, batch, next_token,
                   shutdown, writerVars, policy, applied, pastVars>>

\* Running::shutdown, from any thread.
request_shutdown ==
    /\ ~shutdown
    /\ shutdown' = TRUE
    /\ UNCHANGED <<mailVars, loopVars, conns, next_token, writerVars,
                   coreVars, pastVars>>

Step ==
    \/ check_shutdown \/ poll \/ drain_wakeup \/ take \/ apply \/ apply_done
    \/ flush
    \/ \E t \in Tokens : tick_begin(t) \/ tick_end(t)
    \/ \E ok \in BOOLEAN : streaming_return(ok)

Environment ==
    \/ poll_error \/ accept \/ request_shutdown
    \/ \E c \in Calls : streaming(c) \/ \E ok \in BOOLEAN : unary(c, ok)

Next == Step \/ Environment \/ \E t \in Threads : ThreadStep(t)

Spec == Init /\ [][Next]_vars

\* The I/O thread is scheduled, inside the writer operations of a handler too, a
\* handler returns, and signals do not interrupt every single poll.  The other
\* threads may stop anywhere.
Fairness ==
    /\ WF_vars(Step \/ finish_swap(IO) \/ push(IO) \/ poke(IO))
    /\ SF_vars(poll)

FairSpec == Spec /\ Fairness

-----------------------------------------------------------------------------
(* Properties.                                                             *)

\* A queued op never waits for an unrelated event: whenever the I/O thread can
\* reach its next poll without passing take(), a non-empty mailbox means that
\* the eventfd is readable or that the thread which made it non-empty is about
\* to poke it.  This is what lets push() elide the other pokes.
NoLostWakeup ==
    (io \in {"check", "poll", "apply", "flush"} /\ ops # << >>) =>
        wakeup \/ \E t \in Producers : thread[t].step = "poke"

Queued(op) == \E s \in {ops, batch} : \E i \in DOMAIN s : s[i] = op

\* A write that returned Ok is never dropped in silence: it is still on its way,
\* the core has accepted it, or the writer can see that it bounced (dead,
\* overflow), unless serve() has returned.
NoSilentLoss ==
    \A w \in returned :
        \/ Queued([call |-> w[1], kind |-> "Write", from |-> w[2], n |-> w[3],
                   bp |-> Unbounded])
        \/ \E i \in DOMAIN applied[w[1]] : applied[w[1]][i] = <<w[2], w[3]>>
        \/ w[1] \in dead \cup overflow
        \/ io = "stopped"

\* Messages that one thread writes to a call reach the call's stream in the
\* order of the writes, and none twice.
WritesInOrder ==
    \A c \in Calls : \A i, j \in DOMAIN applied[c] :
        (i < j /\ applied[c][i][1] = applied[c][j][1]) =>
            applied[c][i][2] < applied[c][j][2]

Finishing(t, c) ==
    thread[t].step = "push" /\ thread[t].op.kind = "Finish" /\ thread[t].op.call = c

ByWriter(c) == finishedBy[c] \notin {None, Deadline}

FinishOps(s, c) == {i \in DOMAIN s : s[i].kind = "Finish" /\ s[i].call = c}

\* The finishes of a call on their way: in push, in the mailbox, in the batch.
FinishesOf(c) ==
    ({"push"} \X {t \in Threads : Finishing(t, c)})
    \cup ({"mailbox"} \X FinishOps(ops, c)) \cup ({"batch"} \X FinishOps(batch, c))

\* Whatever number of clones race to finish a call, at most one Finish op is in
\* flight, and none once a writer's finish has been applied.
FirstFinishWins ==
    \A c \in Calls :
        /\ \A x, y \in FinishesOf(c) : x = y
        /\ ByWriter(c) => FinishesOf(c) = {}

\* A finish that takes effect closes a complete response: unless the writer can
\* see an overflow, every write the finishing thread made before it and that
\* returned Ok was accepted by the core before the finish.
FinishIsComplete ==
    \A c \in Calls : ByWriter(c) /\ c \notin overflow =>
        \A w \in returned :
            (w[1] = c /\ w[2] = finishedBy[c][1] /\ w[3] < finishedBy[c][2]) =>
                \E i \in DOMAIN applied[c] : applied[c][i] = <<w[2], w[3]>>

\* Shutdown ends serve() without any traffic (the 100 ms poll timeout).
ShutdownStops == shutdown ~> io = "stopped"

=============================================================================
