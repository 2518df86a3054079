----------------------------- MODULE FfiMailbox -----------------------------
(***************************************************************************)
(* The process-global outbound mailbox of the C ABI                        *)
(* (grpcuds-ffi-impl/src/mailbox.rs), the entry points that use it         *)
(* (grpcuds-ffi-impl/src/server.rs), the generated stubs on top of them    *)
(* (Stubs) and the teardown of ServerThread.                               *)
(*                                                                         *)
(* A call handle is the address of its connection.  Connections are told   *)
(* apart by a number here, and each has one call: the peer's first stream, *)
(* whose id is the same on every connection.                               *)
(***************************************************************************)
EXTENDS Stubs

CONSTANTS
    Producers,  \* threads other than the I/O thread
    IO,         \* the I/O thread
    Addrs,      \* addresses the allocator gives to a connection
    Null,       \* the null handle
    MaxConns,   \* bound: connections accepted
    MaxOps,     \* bound: operations of one producer
    MaxDirect,  \* bound: operations of the I/O thread before it makes no more of its own
    Handlings   \* what handlers do, out of Handling

ASSUME MailboxAssumption ==
    /\ IO \notin Producers
    /\ Null \notin Addrs
    /\ {MaxConns, MaxOps, MaxDirect} \subseteq Nat
    /\ Handlings \subseteq {h \in Handling : ~IsRust(h.style)}

Conns   == 1..MaxConns
Threads == Producers \cup {IO}

\* mailbox::Item.  Its payload is the thread and the number of the operation; "conn"
\* and "early" are history: the connection the handle was given for, and whether that
\* one was still open at the push.
Item == [call : Addrs \cup {Null}, conn : Conns, by : Threads, n : Nat,
         finish : BOOLEAN, status : Codes \cup {"UNKNOWN"}, early : BOOLEAN]

VARIABLES
    conns,      \* the connection at each address, 0 for none
    addr,       \* the address each connection was given
    accepted,   \* connections accepted so far
    dead,       \* Mailbox::dead, the tombstones
    queue,      \* Mailbox::queue
    wakeup,     \* the eventfd's counter is not 0
    batch,      \* the items drain has taken
    io,         \* the I/O thread: loop, take, replay, stopped
    stopping,   \* the loop has left its for, the teardown runs
    thread,     \* per producer: where it is, and the items it still has to push
    count,      \* history: operations begun by each thread
    call,       \* per connection: its call, and who completes it
    answer,     \* per connection: the operations its call took, in order
    strayed     \* history: drain used the address of a freed connection

mailVars == <<dead, queue, wakeup>>
vars == <<conns, addr, accepted, mailVars, batch, io, stopping, thread, count, call, answer, strayed>>

None == "None"
New  == [at |-> "new", style |-> None, by |-> None]

TypeOK ==
    /\ conns \in [Addrs -> 0..MaxConns]
    /\ addr \in [Conns -> Addrs \cup {Null}]
    /\ accepted \in 0..MaxConns
    /\ dead \subseteq Addrs
    /\ queue \in Seq(Item)
    /\ wakeup \in BOOLEAN
    /\ batch \in Seq(Item)
    /\ io \in {"loop", "take", "replay", "stopped"}
    /\ stopping \in BOOLEAN
    /\ thread \in [Producers -> [at : {"idle", "push", "poke"}, items : Seq(Item)]]
    /\ count \in [Threads -> Nat]
    /\ call \in [Conns -> [at : {"new", "open", "done"}, style : Styles \cup {None},
                           by : Threads \cup {None}]]
    /\ answer \in [Conns -> Seq(Item)]
    /\ strayed \in BOOLEAN

Init ==
    /\ conns = [a \in Addrs |-> 0]
    /\ addr = [g \in Conns |-> Null]
    /\ accepted = 0
    /\ dead = {}
    /\ queue = << >>
    /\ wakeup = FALSE
    /\ batch = << >>
    /\ io = "loop"
    /\ stopping = FALSE
    /\ thread = [p \in Producers |-> [at |-> "idle", items |-> << >>]]
    /\ count = [t \in Threads |-> 0]
    /\ call = [g \in Conns |-> New]
    /\ answer = [g \in Conns |-> << >>]
    /\ strayed = FALSE

Open(g) == addr[g] # Null /\ conns[addr[g]] = g

\* finish_call and write_call of the core: nothing after the first finish counts.
Answer(taken, item) ==
    IF \E i \in DOMAIN taken : taken[i].finish THEN taken ELSE Append(taken, item)

\* The same for items one after the other.
Answers(taken, items) ==
    LET upto[k \in 0..Len(items)] == IF k = 0 THEN taken ELSE Answer(upto[k - 1], items[k])
    IN  upto[Len(items)]

-----------------------------------------------------------------------------
(* Threads.  A handle stays with the thread it was given to, also after its *)
(* connection is gone.                                                      *)

\* The operations ops of thread t on the call of connection g.
Items(t, g, ops, early) ==
    [k \in DOMAIN ops |->
        [call |-> addr[g], conn |-> g, by |-> t, n |-> count[t] + k, finish |-> ops[k].finish,
         status |-> ops[k].status, early |-> early]]

\* A unary call is completed by the thread its handler left it to, a stream is
\* anybody's.
MayUse(t, g) == call[g].at = "open" /\ (Unary(call[g].style) => call[g].by = t)

begin(p, g, kind) ==
    /\ thread[p].at = "idle" /\ count[p] < MaxOps
    /\ MayUse(p, g)
    /\ LET ops == completion_ops(call[g].style, kind)
       IN  /\ ops # << >>
           /\ thread' = [thread EXCEPT ![p] = [at |-> "push", items |-> Items(p, g, ops, FALSE)]]
           /\ count' = [count EXCEPT ![p] = @ + Len(ops)]
    /\ UNCHANGED <<conns, addr, accepted, mailVars, batch, io, stopping, call, answer, strayed>>

\* Mutant: a message is put before those that wait.
Pushed_Front(item) == IF item.finish THEN Append(queue, item) ELSE <<item>> \o queue

Pushed(item) == Append(queue, item)

\* Mailbox::push, the part under the lock.
push(p) ==
    /\ thread[p].at = "push"
    /\ LET item == [Head(thread[p].items) EXCEPT !.early = Open(Head(thread[p].items).conn)]
       IN  queue' = Pushed(item)
    /\ thread' = [thread EXCEPT ![p].at = "poke"]
    /\ UNCHANGED <<conns, addr, accepted, dead, wakeup, batch, io, stopping, count, call, answer, strayed>>

Poked_IfEmpty == IF queue = << >> THEN TRUE ELSE wakeup
Poked == TRUE

\* Mailbox::poke; the operation has returned success.
poke(p) ==
    /\ thread[p].at = "poke"
    /\ wakeup' = Poked
    /\ LET rest == Tail(thread[p].items)
       IN  thread' = [thread EXCEPT ![p] =
                         [at |-> IF rest = << >> THEN "idle" ELSE "push", items |-> rest]]
    /\ UNCHANGED <<conns, addr, accepted, dead, queue, batch, io, stopping, count, call,
                   answer, strayed>>

\* Operations on the I/O thread: the core answers at once.
Direct(g, ops) ==
    /\ answer' = [answer EXCEPT ![g] = Answers(@, Items(IO, g, ops, TRUE))]
    /\ count' = [count EXCEPT ![IO] = @ + Len(ops)]
    /\ UNCHANGED <<conns, addr, accepted, mailVars, batch, io, stopping, thread, strayed>>

\* The request of connection g is complete: its handler runs, in tick_read.
dispatch(g, h, t) ==
    /\ io = "loop" /\ ~stopping /\ Open(g) /\ call[g].at = "new"
    /\ Direct(g, dispatch_ops(h))
    /\ call' = [call EXCEPT ![g] =
                  [at |-> IF IsDone(h) THEN "done" ELSE "open", style |-> h.style,
                   by |-> IF IsDone(h) \/ ~Unary(h.style) THEN None ELSE t]]

\* A call that was left open is used on the I/O thread.
call_direct(g, kind) ==
    /\ io = "loop" /\ ~stopping /\ Open(g) /\ count[IO] < MaxDirect
    /\ MayUse(IO, g)
    /\ Direct(g, completion_ops(call[g].style, kind))
    /\ UNCHANGED call

-----------------------------------------------------------------------------
(* The I/O thread.                                                          *)

\* register_call
Untombed(a) == dead \ {a}

\* grpcuds_server_accept
accept(a) ==
    /\ io = "loop" /\ ~stopping
    /\ conns[a] = 0 /\ accepted < MaxConns
    /\ accepted' = accepted + 1
    /\ conns' = [conns EXCEPT ![a] = accepted + 1]
    /\ addr' = [addr EXCEPT ![accepted + 1] = a]
    /\ dead' = Untombed(a)
    /\ UNCHANGED <<queue, wakeup, batch, io, stopping, thread, count, call, answer, strayed>>

\* unregister_call: the tombstone, and the queued items of the address in S.
Tombed(S) == dead \cup S

Scrubbed_Not(S) == queue
Scrubbed(S) ==
    [i \in DOMAIN queue |->
        IF queue[i].call \in S THEN [queue[i] EXCEPT !.call = Null] ELSE queue[i]]

\* grpcuds_conn_free of the connections at S.
FreeConns(S) ==
    /\ dead' = Tombed(S)
    /\ queue' = Scrubbed(S)
    /\ conns' = [a \in Addrs |-> IF a \in S THEN 0 ELSE conns[a]]

conn_free(a) ==
    /\ io = "loop" /\ ~stopping /\ conns[a] # 0
    /\ FreeConns({a})
    /\ UNCHANGED <<addr, accepted, wakeup, batch, io, stopping, thread, count, call, answer, strayed>>

\* poll reports the wakeup fd, or the teardown drains once more.
Drains == wakeup \/ stopping

\* drain reads the counter down to 0 before it takes the queue.
drain_wakeup ==
    /\ io = "loop" /\ Drains
    /\ io' = "take"
    /\ wakeup' = FALSE
    /\ UNCHANGED <<conns, addr, accepted, dead, queue, batch, stopping, thread, count,
                   call, answer, strayed>>

drain_take ==
    /\ io = "take"
    /\ io' = "replay"
    /\ batch' = queue
    /\ queue' = << >>
    /\ UNCHANGED <<conns, addr, accepted, dead, wakeup, stopping, thread, count, call, answer, strayed>>

Skips_NullOnly(item) == item.call = Null
Skips(item) == item.call = Null \/ item.call \in dead

drain_replay ==
    /\ io = "replay" /\ batch # << >>
    /\ batch' = Tail(batch)
    /\ LET item == Head(batch)
           g == conns[item.call]
       IN  IF Skips(item) THEN UNCHANGED <<answer, strayed>>
           ELSE /\ strayed' = (strayed \/ g = 0)
                /\ answer' = IF g = 0 THEN answer ELSE [answer EXCEPT ![g] = Answer(@, item)]
    /\ UNCHANGED <<conns, addr, accepted, mailVars, io, stopping, thread, count, call>>

drain_done ==
    /\ io = "replay" /\ batch = << >> /\ ~stopping
    /\ io' = "loop"
    /\ UNCHANGED <<conns, addr, accepted, mailVars, batch, stopping, thread, count, call, answer, strayed>>

\* The loop sees the stop fd and leaves: on_quiesce, then the last drain.
stop ==
    /\ io = "loop" /\ ~stopping
    /\ stopping' = TRUE
    /\ UNCHANGED <<conns, addr, accepted, mailVars, batch, io, thread, count, call, answer, strayed>>

\* After the last drain every connection is ticked and freed.
teardown ==
    /\ io = "replay" /\ batch = << >> /\ stopping
    /\ io' = "stopped"
    /\ FreeConns({a \in Addrs : conns[a] # 0})
    /\ UNCHANGED <<addr, accepted, wakeup, batch, stopping, thread, count, call, answer, strayed>>

-----------------------------------------------------------------------------

ThreadStep(p) == push(p) \/ poke(p)

Drain == drain_wakeup \/ drain_take \/ drain_replay \/ drain_done \/ teardown

Next ==
    \/ \E p \in Producers :
           ThreadStep(p) \/ \E g \in Conns : \E kind \in Kinds(call[g].style) : begin(p, g, kind)
    \/ \E g \in Conns : \E kind \in Kinds(call[g].style) : call_direct(g, kind)
    \/ \E g \in Conns, h \in Handlings, t \in Threads : dispatch(g, h, t)
    \/ \E a \in Addrs : accept(a) \/ conn_free(a)
    \/ Drain \/ stop

Spec == Init /\ [][Next]_vars

\* Threads get the processor, and the I/O thread's poll returns when the wakeup
\* fd is readable.
Fairness == WF_vars(Drain) /\ \A p \in Producers : WF_vars(ThreadStep(p))

FairSpec == Spec /\ Fairness

-----------------------------------------------------------------------------
(* Properties.                                                             *)

\* drain never uses the address of a freed connection, whatever producers push
\* before, during and after grpcuds_conn_free (the SAFETY comment of drain).
NeverFreed == ~strayed

\* An operation pushed while its connection was open reaches that connection or
\* none: the scrub of unregister_call keeps it from the next one at the address.
EarlyGoesHome ==
    \A g \in Conns : \A i \in DOMAIN answer[g] : answer[g][i].early => answer[g][i].conn = g

\* The operations of one thread on one call take effect in the order it made them.
InOrder ==
    \A g \in Conns : \A i, j \in DOMAIN answer[g] :
        (i < j /\ answer[g][i].by = answer[g][j].by) => answer[g][i].n < answer[g][j].n

\* Every queued item is replayed or dropped, unless the thread has stopped.
MailboxDrains == (queue # << >>) ~> (queue = << >> \/ io = "stopped")

Finishes(g) == {i \in DOMAIN answer[g] : answer[g][i].finish}
Messages(g) == DOMAIN answer[g] \ Finishes(g)

\* What a handler that is done with its call leaves: the call is finished, with the
\* status it meant and a message if that is OK.
AllAnswered ==
    \A h \in Handling : IsDone(h) =>
        LET taken == Answers(<< >>, dispatch_ops(h))
        IN  /\ {taken[i].status : i \in {i \in DOMAIN taken : taken[i].finish}} = Meant(h)
            /\ Unary(h.style) => (Len(taken) = 2 <=> "OK" \in Meant(h))

\* A request that is still to be handled will be answered as its handler returns, and as
\* the handler means, whatever it does if it is done with the call; although a
\* trampoline may finish a call by an operation, by its return code or by both.
HandledIsAnswered == (\E g \in Conns : Open(g) /\ call[g].at = "new") => AllAnswered

\* The client of a unary call sees OK exactly when it gets one message, also when the
\* call is completed late, more than once, from another thread or by a response that
\* does not encode; unless a thread that kept the handle of a connection since freed
\* at that address uses it.
UnaryContract ==
    \A g \in Conns : \A i \in Finishes(g) :
        (Unary(call[g].style) /\ \A k \in DOMAIN answer[g] : answer[g][k].conn = g)
            => (answer[g][i].status = "OK" <=> \E m \in Messages(g) : Messages(g) = {m})

=============================================================================
