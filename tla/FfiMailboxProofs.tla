-------------------------- MODULE FfiMailboxProofs --------------------------
(***************************************************************************)
(* What the mailbox of the C ABI promises, for any number of producers,    *)
(* connections, addresses and operations: drain never uses the address of  *)
(* a freed connection, an operation pushed in time goes to its connection  *)
(* or to none, and those of a thread keep their order.                     *)
(***************************************************************************)
EXTENDS FfiMailbox, WellFoundedInduction, TLAPS

\* An operation of Stubs.
Ops == [finish : BOOLEAN, status : Codes \cup {"UNKNOWN"}]

\* A handle that drain may look at: null, tombstoned, or of a connection that lives.
Safe(c) == c = Null \/ (c \in Addrs /\ (c \in dead \/ conns[c] # 0))

AllSafe(items) == \A i \in DOMAIN items : Safe(items[i].call)

\* The part of TypeOK that the argument needs.
Types ==
    /\ conns \in [Addrs -> 0..MaxConns]
    /\ addr \in [Conns -> Addrs \cup {Null}]
    /\ accepted \in 0..MaxConns
    /\ dead \subseteq Addrs
    /\ queue \in Seq(Item)
    /\ batch \in Seq(Item)
    /\ thread \in [Producers -> [at : {"idle", "push", "poke"}, items : Seq(Item)]]
    /\ \A p \in Producers : thread[p].at # "idle" => thread[p].items # << >>
    /\ count \in [Threads -> Nat]

\* Wherever a handle is kept (by the application, by a thread that is pushing, in the
\* queue, in the batch of drain), it is safe: an address leaves the tombstones only
\* when a connection is put there.
IInv ==
    /\ Types
    /\ \A g \in Conns : Safe(addr[g])
    /\ \A p \in Producers : AllSafe(thread[p].items)
    /\ AllSafe(queue)
    /\ AllSafe(batch)
    /\ ~strayed

-----------------------------------------------------------------------------
(* Lemmas.                                                                 *)

\* What typed helpers do to a call later is a sequence of operations.
LEMMA CompletionOps ==
    ASSUME NEW style, NEW kind \in Kinds(style)
    PROVE  completion_ops(style, kind) \in Seq(Ops)
<1>1. Write \in Ops /\ Finish("OK") \in Ops /\ Finish("INTERNAL") \in Ops
      /\ Finish("NOT_FOUND") \in Ops
  BY DEF Write, Finish, status_from_c, Ops, Codes
<1>2. kind \in {"Respond", "Garbled", "Fail", "Write", "Finish"}
  BY DEF Kinds
<1>3. QED
  BY <1>1, <1>2 DEF completion_ops, respond, Respond, send

\* So is what a handler's trampoline and dispatch do.
LEMMA DispatchOps ==
    ASSUME NEW h \in Handlings
    PROVE  dispatch_ops(h) \in Seq(Ops)
<1>1. \A c \in Codes : Finish(c) \in Ops
  BY DEF Finish, status_from_c, Ops, Codes
<1>2. Write \in Ops
  BY DEF Write, Ops, Codes
<1>3. h \in Handling /\ ~IsRust(h.style)
  BY MailboxAssumption
<1>4. /\ h.inline \in Seq(Ops)
      /\ h.returns \in {"OK", "NOT_FOUND", "DEFERRED"}
      /\ h.style \in {"c_unary", "c_streaming", "cpp_unary", "cpp_streaming"}
  <2>1. /\ h.inline \in {<< >>, <<Write>>, <<Write, Finish("OK")>>}
        /\ h.returns \in {"OK", "NOT_FOUND", "DEFERRED"}
        /\ h.style \in Styles
    BY <1>3 DEF Handling
  <2>2. Finish("OK") \in Ops
    BY <1>1 DEF Codes
  <2>3. h.inline \in Seq(Ops)
    <3>1. << >> \in Seq(Ops) /\ <<Write>> \in Seq(Ops)
      BY <1>2
    <3>2. <<Write, Finish("OK")>> \in Seq(Ops)
      BY <1>2, <2>2
    <3>3. QED
      BY <2>1, <3>1, <3>2, Zenon
  <2>4. h.style \in {"c_unary", "c_streaming", "cpp_unary", "cpp_streaming"}
    BY <2>1, <1>3, StylesAssumption, Zenon DEF IsRust
  <2>5. QED
    BY <2>1, <2>3, <2>4
<1>5. \A c \in Codes : <<Finish(c)>> \in Seq(Ops)
  BY <1>1
<1>6. respond(h.encodes, h.memory) \in Seq(Ops) /\ Respond(h.encodes, h.memory) \in Seq(Ops)
  BY <1>1, <1>2 DEF respond, Respond, Codes
<1>7. deferred_overload(h) \in Seq(Ops)
  BY <1>4, <1>5, <1>6 DEF deferred_overload, Codes
<1>8. c_trampoline(h).ops \in Seq(Ops) /\ c_trampoline(h).rc \in Codes
  <2>1. CASE ~h.decodes
    BY <2>1 DEF c_trampoline, Codes
  <2>2. CASE h.decodes /\ ~Unary(h.style)
    BY <2>2, <1>4 DEF c_trampoline, Codes
  <2>3. CASE h.decodes /\ Unary(h.style)
    BY <2>3, <1>4, <1>6 DEF c_trampoline, Codes
  <2>4. QED
    BY <2>1, <2>2, <2>3, <1>4
<1>9. cpp_trampoline(h).ops \in Seq(Ops) /\ cpp_trampoline(h).rc \in Codes
  <2>1. CASE ~h.decodes
    BY <2>1, <1>5 DEF cpp_trampoline, Codes
  <2>2. CASE h.decodes /\ Unary(h.style)
    BY <2>2, <1>7 DEF cpp_trampoline, Codes
  <2>3. CASE h.decodes /\ ~Unary(h.style)
    <3>1. h.returns \in Codes
      BY <1>4 DEF Codes
    <3>2. Append(h.inline, Finish(h.returns)) \in Seq(Ops)
      BY <3>1, <1>1, <1>4
    <3>3. QED
      BY <2>3, <3>1, <3>2, <1>4 DEF cpp_trampoline
  <2>4. QED
    BY <2>1, <2>2, <2>3, <1>4
<1>10. trampoline(h).ops \in Seq(Ops) /\ trampoline(h).rc \in Codes
  <2>1. CASE h.style \in {"c_unary", "c_streaming"}
    <3>1. trampoline(h) = c_trampoline(h)
      BY <2>1 DEF trampoline, IsRust
    <3>2. QED
      BY <3>1, <1>8
  <2>2. CASE h.style \in {"cpp_unary", "cpp_streaming"}
    <3>1. trampoline(h) = cpp_trampoline(h)
      BY <2>2 DEF trampoline, IsRust
    <3>2. QED
      BY <3>1, <1>9
  <2>3. QED
    BY <2>1, <2>2, <1>4
<1>11. QED
  BY <1>5, <1>10 DEF dispatch_ops

\* Operations on a connection's call, as mailbox items, carry its handle.
LEMMA ItemsOf ==
    ASSUME Types, NEW t \in Threads, NEW g \in Conns, NEW ops \in Seq(Ops), NEW e \in BOOLEAN
    PROVE  /\ Items(t, g, ops, e) \in Seq(Item)
           /\ Len(Items(t, g, ops, e)) = Len(ops)
           /\ \A i \in DOMAIN Items(t, g, ops, e) : Items(t, g, ops, e)[i].call = addr[g]
<1>1. DOMAIN ops = 1..Len(ops) /\ Len(ops) \in Nat /\ count[t] \in Nat
      /\ addr[g] \in Addrs \cup {Null}
  BY DEF Types
<1>2. ASSUME NEW k \in 1..Len(ops)
      PROVE  [call |-> addr[g], conn |-> g, by |-> t, n |-> count[t] + k,
              finish |-> ops[k].finish, status |-> ops[k].status, early |-> e] \in Item
  <2>1. ops[k] \in Ops
    OBVIOUS
  <2>2. ops[k].finish \in BOOLEAN /\ ops[k].status \in Codes \cup {"UNKNOWN"}
    BY <2>1 DEF Ops
  <2>3. QED
    BY <1>1, <2>2 DEF Item
<1>3. QED
  BY <1>1, <1>2 DEF Items

\* Direct answers a call and changes nothing that this proof is about but the count.
LEMMA DirectOnly ==
    ASSUME NEW g, NEW ops, Direct(g, ops)
    PROVE  /\ UNCHANGED <<conns, addr, accepted, dead, queue, batch, thread, strayed>>
           /\ count' = [count EXCEPT ![IO] = @ + Len(ops)]
  BY DEF Direct, mailVars

-----------------------------------------------------------------------------
(* The invariant.                                                          *)

\* Before anything is accepted there is no handle.
LEMMA IInvInit == Init => IInv
<1> SUFFICES ASSUME Init PROVE IInv
  OBVIOUS
<1>1. Types
  BY MailboxAssumption DEF Init, Types, Conns, Threads
<1>2. \A g \in Conns : Safe(addr[g])
  BY DEF Init, Safe
<1>3. \A p \in Producers : AllSafe(thread[p].items)
  BY DEF Init, AllSafe
<1>4. QED
  BY <1>1, <1>2, <1>3 DEF Init, IInv, AllSafe

\* A step that leaves alone what the invariant is about.
LEMMA Elsewhere ==
    ASSUME IInv,
           UNCHANGED <<conns, addr, accepted, dead, queue, batch, thread, count, strayed>>
    PROVE  IInv'
<1>1. Types'
  BY DEF IInv, Types
<1>2. \A c : Safe(c) => Safe(c)'
  BY DEF Safe
<1>3. QED
  BY <1>1, <1>2 DEF IInv, AllSafe

\* What is left of items that may be used may be used.
LEMMA TailSafe ==
    ASSUME NEW s \in Seq(Item), s # << >>, AllSafe(s)
    PROVE  Tail(s) \in Seq(Item) /\ AllSafe(Tail(s))
<1>1. Tail(s) \in Seq(Item) OBVIOUS
<1>2. \A i \in DOMAIN Tail(s) : \E j \in DOMAIN s : Tail(s)[i] = s[j]
  <2> SUFFICES ASSUME NEW i \in DOMAIN Tail(s) PROVE \E j \in DOMAIN s : Tail(s)[i] = s[j]
    BY Zenon
  <2>1. i + 1 \in DOMAIN s /\ Tail(s)[i] = s[i + 1] OBVIOUS
  <2> QED BY <2>1, Zenon
<1> QED BY <1>1, <1>2, Zenon DEF AllSafe

\* Steps of the producers: what they push is a handle they were given.
LEMMA ProducerSteps ==
    ASSUME IInv, NEW p \in Producers,
           \/ \E g \in Conns : \E kind \in Kinds(call[g].style) : begin(p, g, kind)
           \/ push(p) \/ poke(p)
    PROVE  IInv'
<1>1. CASE \E g \in Conns : \E kind \in Kinds(call[g].style) : begin(p, g, kind)
  <2>1. PICK g \in Conns : \E kind \in Kinds(call[g].style) : begin(p, g, kind)
    BY <1>1
  <2>2. PICK kind \in Kinds(call[g].style) : begin(p, g, kind)
    BY <2>1
  <2> DEFINE ops == completion_ops(call[g].style, kind)
             its == Items(p, g, ops, FALSE)
  <2>3. ops \in Seq(Ops)
    BY CompletionOps
  <2> HIDE DEF ops
  <2>4. /\ its \in Seq(Item) /\ Len(its) = Len(ops)
        /\ \A i \in DOMAIN its : its[i].call = addr[g]
    BY <2>3, ItemsOf, Zenon DEF Threads, IInv
  <2> HIDE DEF its
  <2>5. /\ ops # << >>
        /\ thread' = [thread EXCEPT ![p] = [at |-> "push", items |-> its]]
        /\ count' = [count EXCEPT ![p] = @ + Len(ops)]
        /\ UNCHANGED <<conns, addr, accepted, dead, queue, batch, strayed>>
    BY <2>2 DEF begin, mailVars, ops, its
  <2>6. its # << >>
    BY <2>3, <2>4, <2>5
  <2>7. Types'
    BY <2>3, <2>4, <2>5, <2>6 DEF Types, Threads, IInv
  <2>8. AllSafe(its)
    BY <2>4 DEF AllSafe, IInv
  <2>9. \A q \in Producers : AllSafe(thread'[q].items)
    <3>1. \A q \in Producers : thread'[q].items = IF q = p THEN its ELSE thread[q].items
      BY <2>5, SMTT(30) DEF Types, IInv
    <3>2. QED
      BY <3>1, <2>8 DEF IInv
  <2>10. QED
    BY <2>5, <2>7, <2>9 DEF AllSafe, Safe, IInv
<1>2. CASE push(p)
  <2> DEFINE first == Head(thread[p].items)
             item == [first EXCEPT !.early = Open(first.conn)]
  <2>1. thread[p].items \in Seq(Item) /\ thread[p].items # << >>
    BY <1>2 DEF push, Types, IInv
  <2>2. first \in Item /\ Safe(first.call)
    BY <2>1 DEF AllSafe, IInv
  <2>3. Open(first.conn) \in BOOLEAN
    BY DEF Open
  <2>4. item \in Item /\ item.call = first.call
    BY <2>2, <2>3 DEF Item
  <2>5. /\ queue' = Append(queue, item)
        /\ thread' = [thread EXCEPT ![p].at = "poke"]
        /\ UNCHANGED <<conns, addr, accepted, dead, batch, count, strayed>>
    BY <1>2 DEF push, Pushed
  <2> HIDE DEF first, item
  <2>6. Types'
    <3>1. thread[p] \in [at : {"idle", "push", "poke"}, items : Seq(Item)]
      BY DEF Types, IInv
    <3>2. [thread[p] EXCEPT !.at = "poke"] = [at |-> "poke", items |-> thread[p].items]
      BY <3>1
    <3>3. thread' = [thread EXCEPT ![p] = [at |-> "poke", items |-> thread[p].items]]
      BY <2>5, <3>2, Zenon
    <3>4. /\ thread' \in [Producers -> [at : {"idle", "push", "poke"}, items : Seq(Item)]]
          /\ \A q \in Producers : thread'[q].at # "idle" => thread'[q].items # << >>
      BY <2>1, <3>3 DEF Types, IInv
    <3>5. queue' \in Seq(Item)
      BY <2>4, <2>5 DEF Types, IInv
    <3>6. QED
      BY <2>5, <3>4, <3>5 DEF Types, IInv
  <2>7. AllSafe(queue')
    BY <2>2, <2>4, <2>5 DEF AllSafe, Types, IInv
  <2>8. \A q \in Producers : AllSafe(thread'[q].items)
    <3>1. \A q \in Producers : thread'[q].items = thread[q].items
      BY <2>5 DEF Types, IInv
    <3>2. QED
      BY <3>1 DEF IInv
  <2>9. QED
    BY <2>5, <2>6, <2>7, <2>8, Zenon DEF AllSafe, Safe, IInv
<1>3. CASE poke(p)
  <2> DEFINE rest == Tail(thread[p].items)
  <2>1. thread[p].items \in Seq(Item) /\ thread[p].items # << >>
    BY <1>3, Zenon DEF poke, Types, IInv
  <2>2. rest \in Seq(Item) /\ AllSafe(rest)
    <3>1. AllSafe(thread[p].items) BY Zenon DEF IInv
    <3> QED BY <2>1, <3>1, TailSafe, Zenon
  <2>3. /\ thread' = [thread EXCEPT ![p] =
                         [at |-> IF rest = << >> THEN "idle" ELSE "push", items |-> rest]]
        /\ UNCHANGED <<conns, addr, accepted, dead, queue, batch, count, strayed>>
    BY <1>3 DEF poke
  <2> HIDE DEF rest
  <2>4. Types'
    BY <2>2, <2>3 DEF Types, IInv
  <2>5. \A q \in Producers : AllSafe(thread'[q].items)
    BY <2>2, <2>3 DEF Types, IInv
  <2>6. QED
    <3>1. AllSafe(queue)' /\ AllSafe(batch)' BY <2>3, Zenon DEF AllSafe, Safe, IInv
    <3>2. (\A q \in Producers : AllSafe(thread[q].items))'
      BY <2>3, <2>5, Zenon DEF AllSafe, Safe
    <3>3. ~strayed' /\ (\A g \in Conns : Safe(addr[g]))' BY <2>3, Zenon DEF Safe, IInv
    <3> QED BY <2>4, <3>1, <3>2, <3>3, Zenon DEF IInv
<1>4. QED
  BY <1>1, <1>2, <1>3

\* grpcuds_conn_free of the connections at S: they are tombstoned in the same step.
LEMMA Frees ==
    ASSUME IInv, NEW S \in SUBSET Addrs, FreeConns(S),
           UNCHANGED <<addr, accepted, batch, thread, count, strayed>>
    PROVE  IInv'
<1> USE DEF IInv
<1>1. /\ dead' = dead \cup S
      /\ conns' = [a \in Addrs |-> IF a \in S THEN 0 ELSE conns[a]]
      /\ queue' = [i \in DOMAIN queue |->
                     IF queue[i].call \in S THEN [queue[i] EXCEPT !.call = Null] ELSE queue[i]]
  BY DEF FreeConns, Tombed, Scrubbed
<1>2. \A c : Safe(c) => Safe(c)'
  BY <1>1 DEF Safe
<1>3. DOMAIN queue = 1..Len(queue) /\ Len(queue) \in Nat
  BY DEF Types
<1>4. ASSUME NEW i \in 1..Len(queue)
      PROVE  queue'[i] \in Item /\ Safe(queue[i].call)'
  <2>1. queue[i] \in Item /\ Safe(queue[i].call)
    BY <1>3 DEF Types, AllSafe
  <2>2. CASE queue[i].call \in S
    <3>1. queue'[i] = [queue[i] EXCEPT !.call = Null]
      BY <1>1, <1>3, <2>2
    <3>2. queue'[i] \in Item /\ queue'[i].call = Null
      BY <2>1, <3>1 DEF Item
    <3>3. QED
      BY <3>2 DEF Safe
  <2>3. CASE queue[i].call \notin S
    <3>1. queue'[i] = queue[i]
      BY <1>1, <1>3, <2>3
    <3>2. QED
      BY <1>2, <2>1, <3>1
  <2>4. QED
    BY <2>2, <2>3
<1>5. queue' \in Seq(Item) /\ DOMAIN queue' = 1..Len(queue)
  BY <1>1, <1>3, <1>4
<1>6. Types'
  BY <1>1, <1>5, MailboxAssumption DEF Types
<1>7. AllSafe(queue)'
  BY <1>4, <1>5 DEF AllSafe
<1>8. /\ \A g \in Conns : Safe(addr[g])'
      /\ \A q \in Producers : AllSafe(thread[q].items)'
      /\ AllSafe(batch)'
  BY <1>2 DEF AllSafe
<1>9. QED
  BY <1>6, <1>7, <1>8

\* Steps of the I/O thread.  accept takes an address out of the tombstones as it puts a
\* connection there, and drain_replay looks at a handle that is neither null nor
\* tombstoned, whose connection therefore lives.
LEMMA IoSteps ==
    ASSUME IInv,
           \/ \E g \in Conns : \E kind \in Kinds(call[g].style) : call_direct(g, kind)
           \/ \E g \in Conns, h \in Handlings, t \in Threads : dispatch(g, h, t)
           \/ \E a \in Addrs : accept(a) \/ conn_free(a)
           \/ Drain \/ stop
    PROVE  IInv'
<1>1. ASSUME NEW g \in Conns, NEW ops \in Seq(Ops), Direct(g, ops)
      PROVE  IInv'
  <2>1. /\ UNCHANGED <<conns, addr, accepted, dead, queue, batch, thread, strayed>>
        /\ count' = [count EXCEPT ![IO] = @ + Len(ops)]
    BY <1>1, DirectOnly
  <2>2. Len(ops) \in Nat
    OBVIOUS
  <2>3. count' \in [Threads -> Nat]
    BY <2>1, <2>2 DEF Types, Threads, IInv
  <2>4. QED
    BY <2>1, <2>3, Zenon DEF Types, AllSafe, Safe, IInv
<1>2. CASE \E g \in Conns : \E kind \in Kinds(call[g].style) : call_direct(g, kind)
  BY <1>1, <1>2, CompletionOps DEF call_direct
<1>3. CASE \E g \in Conns, h \in Handlings, t \in Threads : dispatch(g, h, t)
  BY <1>1, <1>3, DispatchOps DEF dispatch
<1>4. ASSUME NEW a \in Addrs, accept(a)
      PROVE  IInv'
  <2>1. /\ conns[a] = 0 /\ accepted < MaxConns /\ accepted' = accepted + 1
        /\ conns' = [conns EXCEPT ![a] = accepted + 1]
        /\ addr' = [addr EXCEPT ![accepted + 1] = a]
        /\ dead' = dead \ {a}
        /\ UNCHANGED <<queue, batch, thread, count, strayed>>
    BY <1>4 DEF accept, Untombed
  <2>2. MaxConns \in Nat /\ accepted + 1 \in Conns /\ accepted + 1 # 0
    BY <2>1, MailboxAssumption DEF Types, Conns, IInv
  <2>3. \A c : Safe(c) => Safe(c)'
    BY <2>1, <2>2 DEF Safe, Types, IInv
  <2>4. Safe(a)'
    BY <2>1, <2>2 DEF Safe, Types, IInv
  <2>5. Types'
    BY <2>1, <2>2 DEF Types, Conns, IInv
  <2>6. \A g \in Conns : Safe(addr[g])'
    BY <2>1, <2>2, <2>3, <2>4 DEF Types, IInv
  <2>7. QED
    BY <2>1, <2>3, <2>5, <2>6 DEF AllSafe, IInv
<1>5. ASSUME NEW a \in Addrs, conn_free(a)
      PROVE  IInv'
  BY <1>5, Frees DEF conn_free
<1>6. CASE drain_wakeup \/ drain_done \/ stop
  <2>1. UNCHANGED <<conns, addr, accepted, dead, queue, batch, thread, count, strayed>>
    <3>1. CASE drain_wakeup
      BY <3>1 DEF drain_wakeup
    <3>2. CASE drain_done
      BY <3>2 DEF drain_done, mailVars
    <3>3. CASE stop
      BY <3>3 DEF stop, mailVars
    <3>4. QED
      BY <1>6, <3>1, <3>2, <3>3
  <2>2. QED
    BY <2>1, Elsewhere
<1>7. CASE drain_take
  <2>1. batch' = queue /\ queue' = << >>
        /\ UNCHANGED <<conns, addr, accepted, dead, thread, count, strayed>>
    BY <1>7, SMTT(30) DEF drain_take
  <2>2. Types'
    <3>1. batch' \in Seq(Item) /\ queue' \in Seq(Item)
      BY <2>1, SMTT(30) DEF Types, IInv
    <3>2. QED
      BY <2>1, <3>1 DEF Types, IInv
  <2>3. QED
    <3>1. AllSafe(queue)'
      <4>1. DOMAIN queue' = {} BY <2>1
      <4> QED BY <4>1, Zenon DEF AllSafe
    <3>2. AllSafe(batch)' BY <2>1, Zenon DEF AllSafe, Safe, IInv
    <3> QED BY <2>1, <2>2, <3>1, <3>2, Zenon DEF AllSafe, Safe, IInv
<1>8. CASE drain_replay
  <2>1. /\ batch # << >> /\ batch' = Tail(batch)
        /\ UNCHANGED <<conns, addr, accepted, dead, queue, thread, count>>
        /\ ~Skips(Head(batch)) => strayed' = (strayed \/ conns[Head(batch).call] = 0)
        /\ Skips(Head(batch)) => strayed' = strayed
    <3>1. batch # << >> /\ batch' = Tail(batch) BY <1>8, Zenon DEF drain_replay
    <3>2. UNCHANGED <<conns, addr, accepted, dead, queue, thread, count>>
      BY <1>8, Zenon DEF drain_replay, mailVars
    <3>3. ~Skips(Head(batch)) => strayed' = (strayed \/ conns[Head(batch).call] = 0)
      BY <1>8, Zenon DEF drain_replay
    <3>4. Skips(Head(batch)) => strayed' = strayed BY <1>8, Zenon DEF drain_replay
    <3> QED BY <3>1, <3>2, <3>3, <3>4, Zenon
  <2>2. Safe(Head(batch).call)
    BY <2>1 DEF AllSafe, Types, IInv
  <2>3. ~strayed'
    BY <2>1, <2>2, Zenon DEF Safe, Skips, IInv
  <2>4. Tail(batch) \in Seq(Item) /\ AllSafe(Tail(batch))
    <3>1. batch \in Seq(Item) /\ AllSafe(batch) BY Zenon DEF Types, IInv
    <3> QED BY <2>1, <3>1, TailSafe, Zenon
  <2>5. Types'
    BY <2>1, <2>4 DEF Types, IInv
  <2>6. QED
    BY <2>1, <2>3, <2>4, <2>5, Zenon DEF AllSafe, Safe, IInv
<1>9. CASE teardown
  <2>1. {a \in Addrs : conns[a] # 0} \in SUBSET Addrs
    OBVIOUS
  <2>2. QED
    BY <1>9, <2>1, Frees DEF teardown
<1>10. QED
  BY <1>2, <1>3, <1>4, <1>5, <1>6, <1>7, <1>8, <1>9 DEF Drain

\* Every step keeps the invariant.
LEMMA IInvStep == IInv /\ [Next]_vars => IInv'
<1> SUFFICES ASSUME IInv, [Next]_vars PROVE IInv'
  OBVIOUS
<1>1. CASE UNCHANGED vars
  <2>1. UNCHANGED <<conns, addr, accepted, dead, queue, batch, thread, count, strayed>>
    BY <1>1 DEF vars, mailVars
  <2>2. QED
    BY <2>1, Elsewhere
<1>2. CASE Next
  BY <1>2, ProducerSteps, IoSteps DEF Next, ThreadStep
<1>3. QED
  BY <1>1, <1>2

\* For any number of producers, connections and addresses, drain never uses the address
\* of a connection that grpcuds_conn_free has freed, also when the allocator gives the
\* address to another one.
THEOREM DrainNeverUsesFreed == Spec => []NeverFreed
<1>1. IInv => NeverFreed
  BY DEF IInv, NeverFreed
<1>2. QED
  BY <1>1, IInvInit, IInvStep, PTL DEF Spec

-----------------------------------------------------------------------------
(* What the steps do to the items on their way, for the other properties.  *)

\* What becomes of an item: its connection, its thread and number, and what it does.
\* A push changes only its early, a scrub only its call.
OpOf(x) == [conn |-> x.conn, by |-> x.by, n |-> x.n, finish |-> x.finish, status |-> x.status]

\* The items that thread p has still to push.
Todo(p) == IF thread[p].at = "poke" THEN Tail(thread[p].items) ELSE thread[p].items

\* drain has a batch only while it replays, and an idle thread has nothing to push.
Tidy ==
    /\ io # "replay" => batch = << >>
    /\ \A p \in Producers : thread[p].at = "idle" => thread[p].items = << >>

\* What all the properties below rest on.
Base == IInv /\ Tidy /\ answer \in [Conns -> Seq(Item)]

\* Items as Answers takes them up, one by one.
TakesUpTo(f, taken, items, n) ==
    f = [k \in 0..n |-> IF k = 0 THEN taken ELSE Answer(f[k - 1], items[k])]

\* A call that has taken s is finished.
Ended(s) == \E i \in DOMAIN s : s[i].finish

\* A call takes a first part of what is done to it.
Prefix(taken, items, r) == \E n \in 0..Len(items) : r = taken \o SubSeq(items, 1, n)

\* A set of naturals that holds 0 and all successors holds them all, from the
\* well-foundedness of <.
LEMMA Induction ==
    ASSUME NEW T \in SUBSET Nat, 0 \in T, \A n \in T : n + 1 \in T
    PROVE  T = Nat
<1> DEFINE R == OpToRel(<, Nat)
<1>1. IsWellFoundedOn(R, Nat) BY NatLessThanWellFounded, Zenon
<1>2. \A x, y \in Nat : <<x, y>> \in R <=> x < y BY DEF OpToRel
<1> HIDE DEF R
<1> SUFFICES ASSUME Nat \ T # {} PROVE FALSE BY Zenon
<1>3. PICK n \in Nat \ T : \A m \in Nat \ T : ~(<<m, n>> \in R)
  BY <1>1, WFMin, Zenon
<1>4. n # 0 /\ n - 1 \in Nat /\ n - 1 < n BY <1>3
<1>5. n - 1 \in T BY <1>2, <1>3, <1>4, Zenon
<1> QED BY <1>3, <1>4, <1>5

\* Answers goes through the items of any sequence.
LEMMA TakesExist ==
    ASSUME NEW taken, NEW items, NEW n \in Nat
    PROVE  \E f : TakesUpTo(f, taken, items, n)
<1> DEFINE T == {k \in Nat : \E f : TakesUpTo(f, taken, items, k)}
<1>1. 0 \in T
  <2>1. TakesUpTo([k \in 0..0 |-> taken], taken, items, 0) BY DEF TakesUpTo
  <2> QED BY <2>1
<1>2. ASSUME NEW k \in T PROVE k + 1 \in T
  <2>1. PICK f : TakesUpTo(f, taken, items, k) OBVIOUS
  <2> DEFINE g == [i \in 0..(k + 1) |-> IF i = k + 1 THEN Answer(f[k], items[k + 1]) ELSE f[i]]
  <2>2. TakesUpTo(g, taken, items, k + 1) BY <2>1 DEF TakesUpTo
  <2>3. k + 1 \in Nat OBVIOUS
  <2> HIDE DEF g
  <2> QED BY <2>2, <2>3
<1> HIDE DEF T
<1>3. T \subseteq Nat BY DEF T
<1>4. T = Nat BY <1>1, <1>2, <1>3, Induction
<1> QED BY <1>4 DEF T

\* r is what a call has taken after k items: all of them, or those up to a finish.
TookUpTo(r, taken, items, k) ==
    \E n \in 0..k : r = taken \o SubSeq(items, 1, n) /\ (Ended(r) \/ n = k)

\* Appending to the second of two sequences.
LEMMA AppendConcat ==
    ASSUME NEW a \in Seq(Item), NEW b \in Seq(Item), NEW x \in Item
    PROVE  Append(a \o b, x) = a \o Append(b, x)
<1>1. a \o b \in Seq(Item) /\ Len(a \o b) = Len(a) + Len(b) OBVIOUS
<1>2. Append(b, x) \in Seq(Item) /\ Len(Append(b, x)) = Len(b) + 1 OBVIOUS
<1> QED BY <1>1, <1>2

\* One item more.
LEMMA TakesOne ==
    ASSUME NEW taken \in Seq(Item), NEW items \in Seq(Item), NEW k \in Nat, k + 1 <= Len(items),
           NEW r, TookUpTo(r, taken, items, k)
    PROVE  TookUpTo(Answer(r, items[k + 1]), taken, items, k + 1)
<1>1. PICK n \in 0..k : r = taken \o SubSeq(items, 1, n) /\ (Ended(r) \/ n = k)
  BY Zenon DEF TookUpTo
<1>2. CASE Ended(r)
  <2>1. Answer(r, items[k + 1]) = r BY <1>2, Zenon DEF Answer, Ended
  <2>2. n \in 0..(k + 1) OBVIOUS
  <2> QED BY <1>1, <1>2, <2>1, <2>2, Zenon DEF TookUpTo
<1>3. CASE ~Ended(r)
  <2>1. Answer(r, items[k + 1]) = Append(r, items[k + 1]) BY <1>3, Zenon DEF Answer, Ended
  <2>2. n = k BY <1>1, <1>3, Zenon
  <2>3. PICK s, x : s = SubSeq(items, 1, k) /\ x = items[k + 1] BY Zenon
  <2>4. s \in Seq(Item) /\ x \in Item BY <2>3
  <2>5. Append(taken \o s, x) = taken \o Append(s, x) BY <2>4, AppendConcat, Zenon
  <2>8. Append(s, x) = SubSeq(items, 1, k + 1) BY <2>3
  <2>6. Append(r, x) = taken \o SubSeq(items, 1, k + 1) BY <1>1, <2>2, <2>3, <2>5, <2>8, Zenon
  <2>7. k + 1 \in 0..(k + 1) OBVIOUS
  <2> QED BY <2>1, <2>3, <2>6, <2>7, Zenon DEF TookUpTo
<1> QED BY <1>2, <1>3, Zenon

\* A call takes what is done to it up to the first finish, and nothing after that.
LEMMA AnswersTakes ==
    ASSUME NEW taken \in Seq(Item), NEW items \in Seq(Item)
    PROVE  Prefix(taken, items, Answers(taken, items))
<1> DEFINE F == CHOOSE f : f = [k \in 0..Len(items) |->
                                  IF k = 0 THEN taken ELSE Answer(f[k - 1], items[k])]
<1>1. Answers(taken, items) = F[Len(items)] BY SMTT(30) DEF Answers
<1>2. Len(items) \in Nat OBVIOUS
<1>3. F = [k \in 0..Len(items) |-> IF k = 0 THEN taken ELSE Answer(F[k - 1], items[k])]
  <2>1. \E f : TakesUpTo(f, taken, items, Len(items)) BY <1>2, TakesExist, Zenon
  <2>2. \E f : f = [k \in 0..Len(items) |-> IF k = 0 THEN taken ELSE Answer(f[k - 1], items[k])]
    BY <2>1, Zenon DEF TakesUpTo
  <2> QED BY <2>2, Zenon
<1> HIDE DEF F
<1> DEFINE T == {k \in Nat : k <= Len(items) => TookUpTo(F[k], taken, items, k)}
<1>4. 0 \in T
  <2>1. F[0] = taken BY <1>2, <1>3
  <2>2. taken \o SubSeq(items, 1, 0) = taken OBVIOUS
  <2>3. 0 \in 0..0 OBVIOUS
  <2>4. TookUpTo(F[0], taken, items, 0) BY <2>1, <2>2, <2>3, Zenon DEF TookUpTo
  <2> QED BY <2>4
<1>5. ASSUME NEW k \in T PROVE k + 1 \in T
  <2>0. k \in Nat /\ k + 1 \in Nat OBVIOUS
  <2>1. ASSUME k + 1 <= Len(items) PROVE TookUpTo(F[k + 1], taken, items, k + 1)
    <3>1. TookUpTo(F[k], taken, items, k) BY <2>1
    <3>2. F[k + 1] = Answer(F[k], items[k + 1]) BY <1>2, <1>3, <2>0, <2>1
    <3>3. TookUpTo(Answer(F[k], items[k + 1]), taken, items, k + 1)
      BY <2>0, <2>1, <3>1, TakesOne, Zenon
    <3> QED BY <3>2, <3>3, Zenon
  <2> QED BY <2>0, <2>1, Zenon
<1> HIDE DEF T
<1>6. T \subseteq Nat BY DEF T
<1>7. T = Nat BY <1>4, <1>5, <1>6, Induction
<1>8. TookUpTo(F[Len(items)], taken, items, Len(items)) BY <1>2, <1>7 DEF T
<1> QED BY <1>1, <1>8, Zenon DEF TookUpTo, Prefix

\* It takes items.
LEMMA PrefixType ==
    ASSUME NEW taken \in Seq(Item), NEW items \in Seq(Item), NEW r, Prefix(taken, items, r)
    PROVE  r \in Seq(Item)
BY DEF Prefix

\* The members of r are members of s and of u.
Mixed(r, s, u) ==
    \A i \in DOMAIN r : \/ \E j \in DOMAIN s : r[i] = s[j]
                        \/ \E j \in DOMAIN u : r[i] = u[j]

\* They are items it had taken, and items done to it now.
LEMMA PrefixMembers ==
    ASSUME NEW taken \in Seq(Item), NEW items \in Seq(Item), NEW r, Prefix(taken, items, r)
    PROVE  Mixed(r, taken, items)
<1>1. PICK n \in 0..Len(items) : r = taken \o SubSeq(items, 1, n) BY Zenon DEF Prefix
<1> SUFFICES ASSUME NEW i \in DOMAIN r
             PROVE  \/ \E j \in DOMAIN taken : r[i] = taken[j]
                    \/ \E j \in DOMAIN items : r[i] = items[j]
  BY Zenon DEF Mixed
<1>2. i \in 1..(Len(taken) + n) BY <1>1
<1>3. CASE i <= Len(taken)
  <2>1. i \in DOMAIN taken /\ r[i] = taken[i] BY <1>1, <1>2, <1>3
  <2> QED BY <2>1, Zenon
<1>4. CASE i > Len(taken)
  <2>1. i - Len(taken) \in DOMAIN items /\ r[i] = items[i - Len(taken)] BY <1>1, <1>2, <1>4
  <2> QED BY <2>1, Zenon
<1>5. i <= Len(taken) \/ i > Len(taken) BY <1>2
<1> QED BY <1>3, <1>4, <1>5, Zenon

-----------------------------------------------------------------------------
(* The steps, by what they do to the items on their way.                   *)

\* What threads have still to push stays.
SameTodo == \A q \in Producers : Todo(q)' = Todo(q)

\* Nothing of it changes.
Rests == SameTodo /\ UNCHANGED <<conns, addr, accepted, queue, batch, count, call, answer>>

\* Thread p begins the operations ops on the call of connection g.
Begins(p, g, ops) ==
    /\ MayUse(p, g) /\ ops \in Seq(Ops)
    /\ \E kind \in Kinds(call[g].style) : ops = completion_ops(call[g].style, kind)
    /\ Todo(p) = << >> /\ Todo(p)' = Items(p, g, ops, FALSE)
    /\ \A q \in Producers \ {p} : Todo(q)' = Todo(q)
    /\ count' = [count EXCEPT ![p] = @ + Len(ops)]
    /\ UNCHANGED <<conns, addr, accepted, queue, batch, call, answer>>

\* Thread p pushes its next item, as x.
Pushes(p, x) ==
    /\ Todo(p) \in Seq(Item) /\ Todo(p) # << >>
    /\ x \in Item /\ OpOf(x) = OpOf(Head(Todo(p))) /\ x.call = Head(Todo(p)).call
    /\ x.early = Open(x.conn)
    /\ queue' = Append(queue, x)
    /\ Todo(p)' = Tail(Todo(p))
    /\ \A q \in Producers \ {p} : Todo(q)' = Todo(q)
    /\ UNCHANGED <<conns, addr, accepted, batch, count, call, answer>>

\* Operations ops of the I/O thread on the call of connection g.
Directs(g, ops) ==
    /\ ops \in Seq(Ops) /\ Open(g)
    /\ answer' = [answer EXCEPT ![g] = Answers(@, Items(IO, g, ops, TRUE))]
    /\ count' = [count EXCEPT ![IO] = @ + Len(ops)]
    /\ SameTodo /\ UNCHANGED <<conns, addr, accepted, queue, batch>>

\* They are those of a call left to it, or of a handler.
Completes(g, ops) ==
    /\ MayUse(IO, g) /\ UNCHANGED call
    /\ \E kind \in Kinds(call[g].style) : ops = completion_ops(call[g].style, kind)

Handles(g, ops) ==
    \E h \in Handlings, t \in Threads :
        /\ call[g].at = "new" /\ ops = dispatch_ops(h)
        /\ call' = [call EXCEPT ![g] =
                      [at |-> IF IsDone(h) THEN "done" ELSE "open", style |-> h.style,
                       by |-> IF IsDone(h) \/ ~Unary(h.style) THEN None ELSE t]]

\* The connections at S are freed.
Closes(S) ==
    /\ S \subseteq Addrs /\ batch = << >>
    /\ queue' = Scrubbed(S)
    /\ conns' = [a \in Addrs |-> IF a \in S THEN 0 ELSE conns[a]]
    /\ SameTodo /\ UNCHANGED <<addr, accepted, batch, count, call, answer>>

\* drain takes the queue ...
Takes ==
    /\ batch = << >> /\ batch' = queue /\ queue' = << >>
    /\ SameTodo /\ UNCHANGED <<conns, addr, accepted, count, call, answer>>

\* ... and replays an item of it, on the connection at its address.
Replays ==
    /\ batch # << >> /\ batch' = Tail(batch)
    /\ LET x == Head(batch)
           g == conns[x.call]
       IN  \/ answer' = answer /\ Skips(x)
           \/ ~Skips(x) /\ g \in Conns /\ answer' = [answer EXCEPT ![g] = Answer(@, x)]
    /\ SameTodo /\ UNCHANGED <<conns, addr, accepted, queue, count, call>>

\* A connection is accepted at address a.
Accepts(a) ==
    /\ conns[a] = 0 /\ accepted + 1 \in Conns /\ accepted' = accepted + 1
    /\ conns' = [conns EXCEPT ![a] = accepted + 1]
    /\ addr' = [addr EXCEPT ![accepted + 1] = a]
    /\ SameTodo /\ UNCHANGED <<queue, batch, count, call, answer>>

\* A step of any kind.
Steps ==
    \/ Rests \/ Takes \/ Replays
    \/ \E p \in Producers : \/ \E g \in Conns, ops \in Seq(Ops) : Begins(p, g, ops)
                            \/ \E x \in Item : Pushes(p, x)
    \/ \E g \in Conns, ops \in Seq(Ops) : Directs(g, ops) /\ (Completes(g, ops) \/ Handles(g, ops))
    \/ \E S \in SUBSET Addrs : Closes(S)
    \/ \E a \in Addrs : Accepts(a)

\* Steps that leave the threads alone.
LEMMA ThreadsAlone ==
    ASSUME UNCHANGED thread
    PROVE  SameTodo
BY DEF SameTodo, Todo

\* The items of a thread are a sequence, of those it has still to push or one more.
LEMMA TodoType ==
    ASSUME Types, NEW p \in Producers
    PROVE  /\ thread[p].items \in Seq(Item) /\ Todo(p) \in Seq(Item)
           /\ thread[p].at # "poke" => Todo(p) = thread[p].items
<1>1. thread[p].items \in Seq(Item) /\ (thread[p].at # "idle" => thread[p].items # << >>)
  BY DEF Types
<1>2. CASE thread[p].at = "poke"
  <2>1. Todo(p) = Tail(thread[p].items) /\ thread[p].items # << >> BY <1>1, <1>2 DEF Todo
  <2> QED BY <1>1, <1>2, <2>1
<1>3. CASE thread[p].at # "poke"
  <2>1. Todo(p) = thread[p].items BY <1>3 DEF Todo
  <2> QED BY <1>1, <2>1
<1> QED BY <1>2, <1>3

\* A step of one thread changes the items of no other.
LEMMA OneThread ==
    ASSUME Types, NEW p \in Producers, NEW v, thread' = [thread EXCEPT ![p] = v]
    PROVE  /\ thread'[p] = v
           /\ \A q \in Producers \ {p} : thread'[q] = thread[q] /\ Todo(q)' = Todo(q)
<1>1. thread'[p] = v /\ \A q \in Producers \ {p} : thread'[q] = thread[q] BY DEF Types
<1> QED BY <1>1 DEF Todo

\* begin
LEMMA BeginKind ==
    ASSUME Base, NEW p \in Producers, NEW g \in Conns, NEW kind \in Kinds(call[g].style),
           begin(p, g, kind)
    PROVE  Steps /\ Tidy'
<1>1. PICK ops : ops = completion_ops(call[g].style, kind) BY Zenon
<1>2. ops \in Seq(Ops) BY <1>1, CompletionOps, Zenon
<1>3. Types /\ Tidy /\ p \in Threads BY Zenon DEF Base, IInv, Threads
<1>4. PICK its : its = Items(p, g, ops, FALSE) BY Zenon
<1>5. /\ thread[p].at = "idle" /\ MayUse(p, g) /\ ops # << >>
      /\ thread' = [thread EXCEPT ![p] = [at |-> "push", items |-> its]]
      /\ count' = [count EXCEPT ![p] = @ + Len(ops)]
      /\ UNCHANGED <<conns, addr, accepted, queue, batch, call, answer, io>>
  BY <1>1, <1>4 DEF begin, mailVars
<1>6. /\ thread'[p] = [at |-> "push", items |-> its]
      /\ \A q \in Producers \ {p} : thread'[q] = thread[q] /\ Todo(q)' = Todo(q)
  BY <1>3, <1>5, OneThread, Zenon
<1>7. Todo(p)' = its BY <1>6 DEF Todo
<1>8. Todo(p) = << >> BY <1>3, <1>5 DEF Todo, Tidy
<1>9. Begins(p, g, ops) BY <1>1, <1>2, <1>4, <1>5, <1>6, <1>7, <1>8, Zenon DEF Begins
<1>10. Tidy'
  <2>0. [at |-> "push", items |-> its].at = "push" OBVIOUS
  <2>1. thread'[p].at = "push" BY <1>6, <2>0, Zenon
  <2>2. \A q \in Producers : thread'[q].at = "idle" => q # p BY <2>1
  <2>3. \A q \in Producers : thread'[q].at = "idle" => thread'[q].items = << >>
    BY <1>3, <1>6, <2>2, Zenon DEF Tidy
  <2>4. io' # "replay" => batch' = << >> BY <1>3, <1>5, Zenon DEF Tidy
  <2> QED BY <2>3, <2>4, Zenon DEF Tidy
<1> QED BY <1>2, <1>9, <1>10, Zenon DEF Steps

\* push
LEMMA PushKind ==
    ASSUME Base, NEW p \in Producers, push(p)
    PROVE  Steps /\ Tidy'
<1>1. Types /\ Tidy BY Zenon DEF Base, IInv
<1>2. PICK first : first = Head(thread[p].items) BY Zenon
<1>3. PICK x : x = [first EXCEPT !.early = Open(first.conn)] BY Zenon
<1>4. /\ thread[p].at = "push" /\ queue' = Append(queue, x)
      /\ thread' = [thread EXCEPT ![p].at = "poke"]
      /\ UNCHANGED <<conns, addr, accepted, batch, count, call, answer, io>>
  BY <1>2, <1>3 DEF push, Pushed
<1>5. thread[p] \in [at : {"idle", "push", "poke"}, items : Seq(Item)] /\ thread[p].items # << >>
  BY <1>1, <1>4 DEF Types
<1>6. Todo(p) = thread[p].items /\ Todo(p) \in Seq(Item) BY <1>1, <1>4, TodoType
<1>7. first \in Item /\ Open(first.conn) \in BOOLEAN BY <1>2, <1>5 DEF Open
<1>8. /\ x \in Item /\ x.call = first.call /\ x.conn = first.conn /\ x.by = first.by /\ x.n = first.n
      /\ x.finish = first.finish /\ x.status = first.status /\ x.early = Open(first.conn)
  BY <1>3, <1>7 DEF Item
<1>9. OpOf(x) = OpOf(first) /\ x.early = Open(x.conn) BY <1>8 DEF OpOf
<1>10. thread' = [thread EXCEPT ![p] = [at |-> "poke", items |-> thread[p].items]]
  <2>1. [thread[p] EXCEPT !.at = "poke"] = [at |-> "poke", items |-> thread[p].items] BY <1>5
  <2> QED BY <1>4, <2>1, Zenon
<1>11. /\ thread'[p] = [at |-> "poke", items |-> thread[p].items]
       /\ \A q \in Producers \ {p} : thread'[q] = thread[q] /\ Todo(q)' = Todo(q)
  BY <1>1, <1>10, OneThread, Zenon
<1>12. Todo(p)' = Tail(Todo(p)) BY <1>6, <1>11 DEF Todo
<1>13. Pushes(p, x)
  BY <1>2, <1>4, <1>5, <1>6, <1>8, <1>9, <1>11, <1>12, Zenon DEF Pushes
<1>14. Tidy'
  <2>0. [at |-> "poke", items |-> thread[p].items].at = "poke" OBVIOUS
  <2>1. thread'[p].at = "poke" BY <1>11, <2>0, Zenon
  <2>2. \A q \in Producers : thread'[q].at = "idle" => q # p BY <2>1
  <2>3. \A q \in Producers : thread'[q].at = "idle" => thread'[q].items = << >>
    BY <1>1, <1>11, <2>2, Zenon DEF Tidy
  <2>4. io' # "replay" => batch' = << >> BY <1>1, <1>4, Zenon DEF Tidy
  <2> QED BY <2>3, <2>4, Zenon DEF Tidy
<1> QED BY <1>8, <1>13, <1>14, Zenon DEF Steps

\* poke
LEMMA PokeKind ==
    ASSUME Base, NEW p \in Producers, poke(p)
    PROVE  Steps /\ Tidy'
<1>1. Types /\ Tidy BY Zenon DEF Base, IInv
<1>2. PICK rest : rest = Tail(thread[p].items) BY Zenon
<1>3. PICK at : at = IF rest = << >> THEN "idle" ELSE "push" BY Zenon
<1>4. /\ thread[p].at = "poke"
      /\ thread' = [thread EXCEPT ![p] = [at |-> at, items |-> rest]]
      /\ UNCHANGED <<conns, addr, accepted, queue, batch, count, call, answer, io>>
  BY <1>2, <1>3 DEF poke
<1>5. /\ thread'[p] = [at |-> at, items |-> rest]
      /\ \A q \in Producers \ {p} : thread'[q] = thread[q] /\ Todo(q)' = Todo(q)
  BY <1>1, <1>4, OneThread, Zenon
<1>6. thread'[p].at = at /\ thread'[p].items = rest /\ at # "poke" BY <1>3, <1>5
<1>7. Todo(p)' = rest /\ Todo(p) = rest BY <1>2, <1>4, <1>6 DEF Todo
<1>8. SameTodo BY <1>5, <1>7 DEF SameTodo
<1>9. Rests BY <1>4, <1>8, Zenon DEF Rests
<1>10. Tidy'
  <2>1. at = "idle" => rest = << >> BY <1>3
  <2>2. ASSUME NEW q \in Producers, thread'[q].at = "idle" PROVE thread'[q].items = << >>
    BY <1>1, <1>5, <1>6, <2>1, <2>2, Zenon DEF Tidy
  <2>3. io' # "replay" => batch' = << >> BY <1>1, <1>4, Zenon DEF Tidy
  <2> QED BY <2>2, <2>3, Zenon DEF Tidy
<1> QED BY <1>9, <1>10, Zenon DEF Steps

\* The steps that only move the I/O thread.
LEMMA RestKinds ==
    ASSUME Base, drain_wakeup \/ drain_done \/ stop \/ UNCHANGED vars
    PROVE  Steps /\ Tidy'
<1>1. Tidy BY Zenon DEF Base
<1>2. /\ UNCHANGED <<conns, addr, accepted, queue, batch, count, call, answer, thread>>
      /\ io' # "replay" => io # "replay" \/ batch = << >>
  <2>1. CASE drain_wakeup BY <2>1 DEF drain_wakeup
  <2>2. CASE drain_done BY <2>2 DEF drain_done, mailVars
  <2>3. CASE stop BY <2>3 DEF stop, mailVars
  <2>4. CASE UNCHANGED vars BY <2>4 DEF vars, mailVars
  <2> QED BY <2>1, <2>2, <2>3, <2>4, Zenon
<1>3. Rests BY <1>2, ThreadsAlone, Zenon DEF Rests
<1>4. Tidy' BY <1>1, <1>2 DEF Tidy
<1> QED BY <1>3, <1>4, Zenon DEF Steps

\* Operations on the I/O thread.
LEMMA DirectKinds ==
    ASSUME Base, NEW g \in Conns,
           \/ \E kind \in Kinds(call[g].style) : call_direct(g, kind)
           \/ \E h \in Handlings, t \in Threads : dispatch(g, h, t)
    PROVE  Steps /\ Tidy'
<1>1. Tidy BY Zenon DEF Base
<1>2. ASSUME NEW ops \in Seq(Ops), Direct(g, ops), Open(g), Completes(g, ops) \/ Handles(g, ops)
      PROVE  Steps /\ Tidy'
  <2>1. /\ answer' = [answer EXCEPT ![g] = Answers(@, Items(IO, g, ops, TRUE))]
        /\ count' = [count EXCEPT ![IO] = @ + Len(ops)]
        /\ UNCHANGED <<conns, addr, accepted, queue, batch, thread, io>>
    BY <1>2, Zenon DEF Direct, mailVars
  <2>2. SameTodo BY <2>1, ThreadsAlone, Zenon
  <2>3. Directs(g, ops) BY <1>2, <2>1, <2>2, Zenon DEF Directs
  <2>4. Tidy' BY <1>1, <2>1 DEF Tidy
  <2> QED BY <1>2, <2>3, <2>4, Zenon DEF Steps
<1>3. ASSUME NEW kind \in Kinds(call[g].style), call_direct(g, kind) PROVE Steps /\ Tidy'
  <2>1. PICK ops : ops = completion_ops(call[g].style, kind) BY Zenon
  <2>2. ops \in Seq(Ops) BY <2>1, CompletionOps, Zenon
  <2>3. Direct(g, ops) /\ Open(g) /\ MayUse(IO, g) /\ UNCHANGED call
    BY <1>3, <2>1, Zenon DEF call_direct
  <2>4. Completes(g, ops) BY <2>1, <2>3, Zenon DEF Completes
  <2> QED BY <1>2, <2>2, <2>3, <2>4, Zenon
<1>4. ASSUME NEW h \in Handlings, NEW t \in Threads, dispatch(g, h, t) PROVE Steps /\ Tidy'
  <2>1. PICK ops : ops = dispatch_ops(h) BY Zenon
  <2>2. ops \in Seq(Ops) BY <2>1, DispatchOps, Zenon
  <2>3. /\ Direct(g, ops) /\ Open(g) /\ call[g].at = "new"
        /\ call' = [call EXCEPT ![g] =
                      [at |-> IF IsDone(h) THEN "done" ELSE "open", style |-> h.style,
                       by |-> IF IsDone(h) \/ ~Unary(h.style) THEN None ELSE t]]
    BY <1>4, <2>1, Zenon DEF dispatch
  <2>4. Handles(g, ops) BY <2>1, <2>3, Zenon DEF Handles
  <2> QED BY <1>2, <2>2, <2>3, <2>4, Zenon
<1> QED BY <1>3, <1>4, Zenon

\* Connections that come and go.
LEMMA ConnKinds ==
    ASSUME Base, teardown \/ \E a \in Addrs : accept(a) \/ conn_free(a)
    PROVE  Steps /\ Tidy'
<1>1. Tidy /\ Types BY Zenon DEF Base, IInv
<1>2. ASSUME NEW a \in Addrs, accept(a) PROVE Steps /\ Tidy'
  <2>1. /\ conns[a] = 0 /\ accepted < MaxConns /\ accepted' = accepted + 1
        /\ conns' = [conns EXCEPT ![a] = accepted + 1]
        /\ addr' = [addr EXCEPT ![accepted + 1] = a]
        /\ UNCHANGED <<queue, batch, count, call, answer, thread, io>>
    BY <1>2 DEF accept
  <2>2. accepted + 1 \in Conns BY <1>1, <2>1, MailboxAssumption DEF Types, Conns
  <2>3. Accepts(a) BY <2>1, <2>2, ThreadsAlone, Zenon DEF Accepts
  <2>4. Tidy' BY <1>1, <2>1 DEF Tidy
  <2> QED BY <2>3, <2>4, Zenon DEF Steps
<1>3. ASSUME NEW S \in SUBSET Addrs, FreeConns(S), batch = << >>,
             UNCHANGED <<addr, accepted, batch, count, call, answer, thread>>
      PROVE  Steps /\ Tidy'
  <2>1. /\ queue' = Scrubbed(S)
        /\ conns' = [a \in Addrs |-> IF a \in S THEN 0 ELSE conns[a]]
    BY <1>3, Zenon DEF FreeConns
  <2>2. Closes(S) BY <1>3, <2>1, ThreadsAlone, Zenon DEF Closes
  <2>3. Tidy' BY <1>1, <1>3 DEF Tidy
  <2> QED BY <2>2, <2>3, Zenon DEF Steps
<1>4. ASSUME NEW a \in Addrs, conn_free(a) PROVE Steps /\ Tidy'
  <2>1. FreeConns({a}) /\ io = "loop" /\ UNCHANGED <<addr, accepted, batch, count, call, answer, thread>>
    BY <1>4 DEF conn_free
  <2>2. batch = << >> BY <1>1, <2>1 DEF Tidy
  <2>3. {a} \in SUBSET Addrs OBVIOUS
  <2> QED BY <1>3, <2>1, <2>2, <2>3, Zenon
<1>5. ASSUME teardown PROVE Steps /\ Tidy'
  <2>1. PICK S : S = {a \in Addrs : conns[a] # 0} BY Zenon
  <2>2. FreeConns(S) /\ batch = << >> /\ UNCHANGED <<addr, accepted, batch, count, call, answer, thread>>
    BY <1>5, <2>1 DEF teardown
  <2>3. S \in SUBSET Addrs BY <2>1
  <2> QED BY <1>3, <2>2, <2>3, Zenon
<1> QED BY <1>2, <1>4, <1>5, Zenon

\* The mailbox's drain.
LEMMA DrainKinds ==
    ASSUME Base, drain_take \/ drain_replay
    PROVE  Steps /\ Tidy'
<1>1. Tidy /\ Types /\ AllSafe(batch) BY Zenon DEF Base, IInv
<1>2. CASE drain_take
  <2>1. /\ io = "take" /\ io' = "replay" /\ batch' = queue /\ queue' = << >>
        /\ UNCHANGED <<conns, addr, accepted, count, call, answer, thread>>
    BY <1>2 DEF drain_take
  <2>2. batch = << >> BY <1>1, <2>1 DEF Tidy
  <2>3. Takes BY <2>1, <2>2, ThreadsAlone, Zenon DEF Takes
  <2>4. Tidy' BY <1>1, <2>1 DEF Tidy
  <2> QED BY <2>3, <2>4, Zenon DEF Steps
<1>3. CASE drain_replay
  <2>1. PICK x, g : x = Head(batch) /\ g = conns[x.call] BY Zenon
  <2>2. /\ io = "replay" /\ batch # << >> /\ batch' = Tail(batch)
        /\ UNCHANGED <<conns, addr, accepted, queue, count, call, thread, io>>
        /\ Skips(x) => answer' = answer
        /\ ~Skips(x) => answer' = IF g = 0 THEN answer ELSE [answer EXCEPT ![g] = Answer(@, x)]
    BY <1>3, <2>1, ZenonT(30) DEF drain_replay, mailVars
  <2>3. Safe(x.call) BY <1>1, <2>1, <2>2 DEF AllSafe, Types
  <2>4. ~Skips(x) => g \in Conns /\ g # 0
    BY <1>1, <2>1, <2>3, MailboxAssumption DEF Safe, Skips, Types, Conns
  <2>5. \/ answer' = answer /\ Skips(x)
        \/ ~Skips(x) /\ g \in Conns /\ answer' = [answer EXCEPT ![g] = Answer(@, x)]
    BY <2>2, <2>4
  <2>6. Replays BY <2>1, <2>2, <2>5, ThreadsAlone, Zenon DEF Replays
  <2>7. Tidy' BY <1>1, <2>2 DEF Tidy
  <2> QED BY <2>6, <2>7, Zenon DEF Steps
<1> QED BY <1>2, <1>3, Zenon

\* Every step is of one of the kinds.
LEMMA StepKinds ==
    ASSUME Base, [Next]_vars
    PROVE  Steps /\ Tidy'
<1>1. CASE UNCHANGED vars BY <1>1, RestKinds, Zenon
<1>2. CASE Next
  BY <1>2, RestKinds, DirectKinds, ConnKinds, DrainKinds, BeginKind, PushKind, PokeKind, Zenon
  DEF Next, ThreadStep, Drain
<1> QED BY <1>1, <1>2, Zenon

\* What the call of g takes of the I/O thread's operations.
LEMMA DirectTakes ==
    ASSUME Base, NEW g \in Conns, NEW ops \in Seq(Ops), Directs(g, ops)
    PROVE  /\ Items(IO, g, ops, TRUE) \in Seq(Item)
           /\ Prefix(answer[g], Items(IO, g, ops, TRUE), answer'[g]) /\ answer'[g] \in Seq(Item)
           /\ \A f \in Conns \ {g} : answer'[f] = answer[f]
           /\ answer' \in [Conns -> Seq(Item)]
<1>1. PICK its : its = Items(IO, g, ops, TRUE) BY Zenon
<1>2. PICK r : r = Answers(answer[g], its) BY Zenon
<1>3. Types /\ answer \in [Conns -> Seq(Item)] /\ IO \in Threads BY Zenon DEF Base, IInv, Threads
<1>4. its \in Seq(Item) BY <1>1, <1>3, ItemsOf, Zenon
<1>5. answer[g] \in Seq(Item) BY <1>3
<1>6. Prefix(answer[g], its, r) BY <1>2, <1>4, <1>5, AnswersTakes, Zenon
<1>7. r \in Seq(Item) BY <1>4, <1>5, <1>6, PrefixType, Zenon
<1>8. answer' = [answer EXCEPT ![g] = r] BY <1>1, <1>2, Zenon DEF Directs
<1>9. /\ answer'[g] = r /\ answer' \in [Conns -> Seq(Item)]
      /\ \A f \in Conns \ {g} : answer'[f] = answer[f]
  BY <1>3, <1>7, <1>8
<1> QED BY <1>1, <1>4, <1>6, <1>7, <1>9, Zenon

\* What a call takes of an item that drain replays on it.
LEMMA ReplayTakes ==
    ASSUME Base, Replays
    PROVE  /\ Head(batch) \in Item /\ Tail(batch) \in Seq(Item)
           /\ answer' \in [Conns -> Seq(Item)]
           /\ \A g \in Conns :
                \/ answer'[g] = answer[g]
                \/ /\ answer'[g] = Append(answer[g], Head(batch)) /\ ~Ended(answer[g])
                   /\ Head(batch).call # Null /\ conns[Head(batch).call] = g
<1>1. Types /\ answer \in [Conns -> Seq(Item)] BY Zenon DEF Base, IInv
<1>2. batch \in Seq(Item) /\ batch # << >> BY <1>1, Zenon DEF Types, Replays
<1>3. PICK x : x = Head(batch) BY Zenon
<1>4. x \in Item /\ Tail(batch) \in Seq(Item) BY <1>2, <1>3
<1>5. CASE answer' = answer BY <1>1, <1>3, <1>4, <1>5, Zenon
<1>6. CASE answer' # answer
  <2>1. PICK g : g = conns[x.call] BY Zenon
  <2>2. ~Skips(x) /\ g \in Conns /\ answer' = [answer EXCEPT ![g] = Answer(@, x)]
    BY <1>3, <1>6, <2>1, Zenon DEF Replays
  <2>3. PICK r : r = Answer(answer[g], x) BY Zenon
  <2>4. answer[g] \in Seq(Item) BY <1>1, <2>2
  <2>5. r = answer[g] \/ (r = Append(answer[g], x) /\ ~Ended(answer[g]))
    BY <2>3, Zenon DEF Answer, Ended
  <2>6. r \in Seq(Item)
    <3>1. Append(answer[g], x) \in Seq(Item) BY <1>4, <2>4
    <3> QED BY <2>4, <2>5, <3>1, Zenon
  <2>7. /\ answer'[g] = r /\ answer' \in [Conns -> Seq(Item)]
        /\ \A f \in Conns \ {g} : answer'[f] = answer[f]
    BY <1>1, <2>2, <2>3, <2>6
  <2>8. x.call # Null BY <2>2, Zenon DEF Skips
  <2> QED BY <1>3, <1>4, <2>1, <2>5, <2>7, <2>8, Zenon
<1> QED BY <1>5, <1>6, Zenon

\* Base holds before anything is done ...
LEMMA BaseInit == Init => Base
<1> SUFFICES ASSUME Init PROVE Base BY Zenon
<1>1. IInv BY IInvInit, Zenon
<1>2. Tidy /\ answer \in [Conns -> Seq(Item)] BY DEF Init, Tidy
<1> QED BY <1>1, <1>2, Zenon DEF Base

\* ... and every step keeps it.
LEMMA BaseStep ==
    ASSUME Base, [Next]_vars
    PROVE  Base'
<1>1. Steps /\ Tidy' BY StepKinds, Zenon
<1>2. IInv' BY IInvStep, Zenon DEF Base
<1>3. answer' \in [Conns -> Seq(Item)]
  <2>1. CASE answer' = answer BY <2>1, Zenon DEF Base
  <2>2. CASE answer' # answer
    <3>1. Replays \/ \E g \in Conns, ops \in Seq(Ops) : Directs(g, ops)
      BY <1>1, <2>2, Zenon DEF Steps, Rests, Takes, Begins, Pushes, Closes, Accepts
    <3> QED BY <3>1, DirectTakes, ReplayTakes, Zenon
  <2> QED BY <2>1, <2>2, Zenon
<1> QED BY <1>1, <1>2, <1>3, Zenon DEF Base

-----------------------------------------------------------------------------
(* EarlyGoesHome.                                                          *)

\* An item pushed while its connection was open has its address, or none, and as long
\* as it has, that connection is there.
Home(x) == x.early /\ x.call # Null => conns[x.call] = x.conn

\* An item to be pushed has the address of its connection.
Given(x) == x.call \in {Null, addr[x.conn]}

HomeInv ==
    /\ \A g \in Conns : g > accepted => addr[g] = Null
    /\ \A p \in Producers : \A i \in DOMAIN Todo(p) : Given(Todo(p)[i])
    /\ \A i \in DOMAIN queue : Home(queue[i])
    /\ \A i \in DOMAIN batch : Home(batch[i])
    /\ EarlyGoesHome

\* It holds before anything is accepted.
LEMMA HomeInit == Init => HomeInv
<1> SUFFICES ASSUME Init PROVE HomeInv BY Zenon
<1>1. \A p \in Producers : Todo(p) = << >> BY DEF Init, Todo
<1>2. \A g \in Conns : addr[g] = Null /\ answer[g] = << >> BY DEF Init
<1>3. queue = << >> /\ batch = << >> BY DEF Init
<1> QED BY <1>1, <1>2, <1>3 DEF HomeInv, EarlyGoesHome

\* Items made from operations of thread t on the call of g, numbered on from its last.
Made(its, t, g, ops, e) ==
    /\ DOMAIN its = 1..Len(ops)
    /\ \A i \in DOMAIN its :
          /\ its[i].call = addr[g] /\ its[i].conn = g /\ its[i].by = t
          /\ its[i].n = count[t] + i /\ its[i].early = e
          /\ its[i].finish = ops[i].finish /\ its[i].status = ops[i].status

\* Items makes them.
LEMMA ItemsMade ==
    ASSUME NEW t, NEW g, NEW ops \in Seq(Ops), NEW e
    PROVE  Made(Items(t, g, ops, e), t, g, ops, e)
<1>1. DOMAIN ops = 1..Len(ops) OBVIOUS
<1> QED BY <1>1 DEF Items, Made

\* Steps that leave the connections alone keep it, when the new items do.
LEMMA HomeMoves ==
    ASSUME Base, HomeInv, UNCHANGED <<conns, addr, accepted>>,
           \A p \in Producers : \A i \in DOMAIN Todo(p)' : Given(Todo(p)'[i]),
           \A i \in DOMAIN queue' : Home(queue'[i]),
           \A i \in DOMAIN batch' : Home(batch'[i]),
           EarlyGoesHome'
    PROVE  HomeInv'
<1>1. (\A g \in Conns : g > accepted => addr[g] = Null)' BY Zenon DEF HomeInv
<1>2. (\A p \in Producers : \A i \in DOMAIN Todo(p) : Given(Todo(p)[i]))' BY Zenon DEF Given
<1>3. (\A i \in DOMAIN queue : Home(queue[i]))' BY Zenon DEF Home
<1>4. (\A i \in DOMAIN batch : Home(batch[i]))' BY Zenon DEF Home
<1> QED BY <1>1, <1>2, <1>3, <1>4, Zenon DEF HomeInv

\* The threads' and the mailbox's steps keep it.
LEMMA HomeQueues ==
    ASSUME Base, HomeInv,
           \/ Rests \/ Takes
           \/ \E p \in Producers : \/ \E g \in Conns, ops \in Seq(Ops) : Begins(p, g, ops)
                                   \/ \E x \in Item : Pushes(p, x)
    PROVE  HomeInv'
<1>1. UNCHANGED <<conns, addr, accepted, answer>> BY Zenon DEF Rests, Takes, Begins, Pushes
<1>2. EarlyGoesHome' BY <1>1, Zenon DEF HomeInv, EarlyGoesHome
<1>3. Types BY Zenon DEF Base, IInv
<1>4. /\ \A p \in Producers : \A i \in DOMAIN Todo(p) : Given(Todo(p)[i])
      /\ \A i \in DOMAIN queue : Home(queue[i])
      /\ \A i \in DOMAIN batch : Home(batch[i])
  BY Zenon DEF HomeInv
<1>5. CASE Rests
  <2>1. queue' = queue /\ batch' = batch /\ \A p \in Producers : Todo(p)' = Todo(p)
    BY <1>5, Zenon DEF Rests, SameTodo
  <2> QED BY <1>1, <1>2, <1>4, <2>1, HomeMoves, Zenon
<1>6. CASE Takes
  <2>1. queue' = << >> /\ batch' = queue /\ \A p \in Producers : Todo(p)' = Todo(p)
    BY <1>6, Zenon DEF Takes, SameTodo
  <2>2. \A i \in DOMAIN queue' : Home(queue'[i]) BY <2>1
  <2> QED BY <1>1, <1>2, <1>4, <2>1, <2>2, HomeMoves, Zenon
<1>7. ASSUME NEW p \in Producers, NEW g \in Conns, NEW ops \in Seq(Ops), Begins(p, g, ops)
      PROVE  HomeInv'
  <2>1. /\ queue' = queue /\ batch' = batch
        /\ Todo(p)' = Items(p, g, ops, FALSE)
        /\ \A q \in Producers \ {p} : Todo(q)' = Todo(q)
    BY <1>7, Zenon DEF Begins
  <2>2. PICK its : its = Items(p, g, ops, FALSE) BY Zenon
  <2>3. Made(its, p, g, ops, FALSE) BY <2>2, ItemsMade, Zenon
  <2>4. \A i \in DOMAIN its : Given(its[i]) BY <2>3 DEF Given, Made
  <2>5. \A q \in Producers : \A i \in DOMAIN Todo(q)' : Given(Todo(q)'[i])
    BY <1>4, <2>1, <2>2, <2>4, Zenon
  <2> QED BY <1>1, <1>2, <1>4, <2>1, <2>5, HomeMoves, Zenon
<1>8. ASSUME NEW p \in Producers, NEW x \in Item, Pushes(p, x)
      PROVE  HomeInv'
  <2>1. /\ Todo(p) \in Seq(Item) /\ Todo(p) # << >>
        /\ OpOf(x) = OpOf(Head(Todo(p))) /\ x.call = Head(Todo(p)).call
        /\ x.early = Open(x.conn)
        /\ queue' = Append(queue, x) /\ batch' = batch
        /\ Todo(p)' = Tail(Todo(p))
        /\ \A q \in Producers \ {p} : Todo(q)' = Todo(q)
    BY <1>8, Zenon DEF Pushes
  <2>2. PICK todo : todo = Todo(p) BY Zenon
  <2>3. todo \in Seq(Item) /\ todo # << >> /\ \A i \in DOMAIN todo : Given(todo[i])
    BY <1>4, <2>1, <2>2, Zenon
  <2>4. Given(Head(todo)) /\ \A i \in DOMAIN Tail(todo) : Given(Tail(todo)[i])
    <3>1. 1 \in DOMAIN todo /\ Head(todo) = todo[1] BY <2>3
    <3>2. \A i \in DOMAIN Tail(todo) : i + 1 \in DOMAIN todo /\ Tail(todo)[i] = todo[i + 1]
      BY <2>3
    <3> QED BY <2>3, <3>1, <3>2, Zenon
  <2>5. x.conn = Head(todo).conn BY <2>1, <2>2 DEF OpOf
  <2>6. Home(x)
    BY <2>1, <2>2, <2>4, <2>5, Zenon DEF Given, Home, Open
  <2>7. \A i \in DOMAIN queue' : Home(queue'[i])
    <3>1. queue \in Seq(Item) BY <1>3, Zenon DEF Types
    <3>2. \A i \in DOMAIN queue' : queue'[i] = x \/ (i \in DOMAIN queue /\ queue'[i] = queue[i])
      BY <2>1, <3>1
    <3> QED BY <1>4, <2>6, <3>2, Zenon
  <2>8. \A q \in Producers : \A i \in DOMAIN Todo(q)' : Given(Todo(q)'[i])
    BY <1>4, <2>1, <2>2, <2>4, Zenon
  <2> QED BY <1>1, <1>2, <1>4, <2>1, <2>7, <2>8, HomeMoves, Zenon
<1> QED BY <1>5, <1>6, <1>7, <1>8, Zenon

\* Operations on the I/O thread are on the call of the connection itself.
LEMMA HomeDirect ==
    ASSUME Base, HomeInv, NEW g \in Conns, NEW ops \in Seq(Ops), Directs(g, ops)
    PROVE  HomeInv'
<1>1. /\ UNCHANGED <<conns, addr, accepted, queue, batch>>
      /\ \A p \in Producers : Todo(p)' = Todo(p)
  BY Zenon DEF Directs, SameTodo
<1>2. PICK its : its = Items(IO, g, ops, TRUE) BY Zenon
<1>3. /\ its \in Seq(Item) /\ Prefix(answer[g], its, answer'[g])
      /\ \A f \in Conns \ {g} : answer'[f] = answer[f]
  BY <1>2, DirectTakes, Zenon
<1>4. answer[g] \in Seq(Item) /\ EarlyGoesHome BY DEF Base, HomeInv
<1>5. Made(its, IO, g, ops, TRUE) BY <1>2, ItemsMade, Zenon
<1>6. PICK r : r = answer'[g] BY Zenon
<1>7. Mixed(r, answer[g], its) BY <1>3, <1>4, <1>6, PrefixMembers, Zenon
<1>8. \A i \in DOMAIN r : r[i].early => r[i].conn = g
  <2>1. \A i \in DOMAIN its : its[i].conn = g BY <1>5 DEF Made
  <2>2. \A i \in DOMAIN answer[g] : answer[g][i].early => answer[g][i].conn = g
    BY <1>4, Zenon DEF EarlyGoesHome
  <2> QED BY <1>7, <2>1, <2>2, Zenon DEF Mixed
<1>9. EarlyGoesHome'
  BY <1>3, <1>4, <1>6, <1>8, Zenon DEF EarlyGoesHome
<1> QED BY <1>1, <1>9, HomeMoves, Zenon DEF HomeInv

\* drain replays an item on the connection at its address.
LEMMA HomeReplay ==
    ASSUME Base, HomeInv, Replays
    PROVE  HomeInv'
<1>1. /\ UNCHANGED <<conns, addr, accepted, queue>> /\ batch # << >> /\ batch' = Tail(batch)
      /\ \A p \in Producers : Todo(p)' = Todo(p)
  BY Zenon DEF Replays, SameTodo
<1>2. PICK x : x = Head(batch) BY Zenon
<1>3. \A g \in Conns : \/ answer'[g] = answer[g]
                       \/ /\ answer'[g] = Append(answer[g], x)
                          /\ x.call # Null /\ conns[x.call] = g
  BY <1>2, ReplayTakes, Zenon
<1>4. batch \in Seq(Item) /\ \A i \in DOMAIN batch : Home(batch[i]) BY DEF Base, IInv, Types, HomeInv
<1>5. Home(x) /\ \A i \in DOMAIN batch' : Home(batch'[i]) BY <1>1, <1>2, <1>4
<1>6. EarlyGoesHome'
  <2> SUFFICES ASSUME NEW g \in Conns
               PROVE  \A i \in DOMAIN answer'[g] : answer'[g][i].early => answer'[g][i].conn = g
    BY Zenon DEF EarlyGoesHome
  <2>1. answer[g] \in Seq(Item) BY DEF Base
  <2>2. \A i \in DOMAIN answer[g] : answer[g][i].early => answer[g][i].conn = g
    BY Zenon DEF HomeInv, EarlyGoesHome
  <2>3. CASE answer'[g] = answer[g] BY <2>2, <2>3, Zenon
  <2>4. CASE answer'[g] = Append(answer[g], x) /\ x.call # Null /\ conns[x.call] = g
    <3>1. x.early => x.conn = g BY <1>5, <2>4 DEF Home
    <3> QED BY <2>1, <2>2, <2>4, <3>1
  <2> QED BY <1>3, <2>3, <2>4, Zenon
<1> QED BY <1>1, <1>5, <1>6, HomeMoves, Zenon DEF HomeInv

\* The scrub takes the address from the items of the connections that are freed.
LEMMA HomeCloses ==
    ASSUME Base, HomeInv, NEW S \in SUBSET Addrs, Closes(S)
    PROVE  HomeInv'
<1>1. /\ UNCHANGED <<addr, accepted, answer>> /\ batch = << >> /\ batch' = batch
      /\ queue' = Scrubbed(S) /\ conns' = [a \in Addrs |-> IF a \in S THEN 0 ELSE conns[a]]
      /\ \A p \in Producers : Todo(p)' = Todo(p)
  BY Zenon DEF Closes, SameTodo
<1>2. queue \in Seq(Item) /\ \A i \in DOMAIN queue : Home(queue[i]) BY DEF Base, IInv, Types, HomeInv
<1>3. ASSUME NEW i \in DOMAIN queue' PROVE Home(queue[i])'
  <2>1. i \in DOMAIN queue /\ queue[i] \in Item BY <1>1, <1>2 DEF Scrubbed
  <2>2. CASE queue[i].call \in S
    <3>1. queue'[i] = [queue[i] EXCEPT !.call = Null] BY <1>1, <2>1, <2>2 DEF Scrubbed
    <3>2. queue'[i].call = Null BY <2>1, <3>1 DEF Item
    <3> QED BY <3>2 DEF Home
  <2>3. CASE queue[i].call \notin S
    <3>1. queue'[i] = queue[i] BY <1>1, <2>1, <2>3 DEF Scrubbed
    <3>2. queue[i].call \in Addrs \cup {Null} BY <2>1 DEF Item
    <3> QED BY <1>1, <1>2, <2>1, <2>3, <3>1, <3>2 DEF Home
  <2> QED BY <2>2, <2>3, Zenon
<1>4. (\A i \in DOMAIN batch : Home(batch[i]))' BY <1>1
<1>5. EarlyGoesHome' BY <1>1, Zenon DEF HomeInv, EarlyGoesHome
<1>6. \A p \in Producers : (\A i \in DOMAIN Todo(p) : Given(Todo(p)[i]))'
  BY <1>1, Zenon DEF HomeInv, Given
<1>7. \A g \in Conns : g > accepted' => addr'[g] = Null BY <1>1, Zenon DEF HomeInv
<1> QED BY <1>3, <1>4, <1>5, <1>6, <1>7, Zenon DEF HomeInv

\* An address that is given again has no early items left.
LEMMA HomeAccepts ==
    ASSUME Base, HomeInv, NEW a \in Addrs, Accepts(a)
    PROVE  HomeInv'
<1>1. /\ UNCHANGED <<answer, queue, batch>>
      /\ conns[a] = 0 /\ accepted + 1 \in Conns /\ accepted' = accepted + 1
      /\ conns' = [conns EXCEPT ![a] = accepted + 1]
      /\ addr' = [addr EXCEPT ![accepted + 1] = a]
      /\ \A p \in Producers : Todo(p)' = Todo(p)
  BY Zenon DEF Accepts, SameTodo
<1>2. Types BY Zenon DEF Base, IInv
<1>3. ASSUME NEW x \in Item, Home(x) PROVE Home(x)'
  <2>1. x.conn \in Conns /\ x.call \in Addrs \cup {Null} BY DEF Item
  <2>2. 0 \notin Conns BY DEF Conns
  <2> QED BY <1>1, <1>2, <1>3, <2>1, <2>2 DEF Home, Types
<1>4. ASSUME NEW x \in Item, Given(x) PROVE Given(x)'
  <2>1. x.conn \in Conns BY DEF Item
  <2>2. accepted + 1 > accepted BY <1>2 DEF Types
  <2>3. addr[accepted + 1] = Null BY <1>1, <2>2 DEF HomeInv
  <2>4. CASE x.conn = accepted + 1 BY <1>4, <2>3, <2>4 DEF Given
  <2>5. CASE x.conn # accepted + 1
    <3>1. addr'[x.conn] = addr[x.conn] BY <1>1, <1>2, <2>1, <2>5 DEF Types
    <3> QED BY <1>4, <3>1 DEF Given
  <2> QED BY <2>4, <2>5, Zenon
<1>5. /\ \A i \in DOMAIN queue : queue[i] \in Item
      /\ \A i \in DOMAIN batch : batch[i] \in Item
  BY <1>2 DEF Types
<1>6. ASSUME NEW p \in Producers, NEW i \in DOMAIN Todo(p) PROVE Todo(p)[i] \in Item
  <2>1. Todo(p) \in Seq(Item) BY <1>2, TodoType, Zenon
  <2> QED BY <2>1
<1>7. /\ (\A i \in DOMAIN queue : Home(queue[i]))'
      /\ (\A i \in DOMAIN batch : Home(batch[i]))'
  BY <1>1, <1>3, <1>5, Zenon DEF HomeInv
<1>8. \A p \in Producers : (\A i \in DOMAIN Todo(p) : Given(Todo(p)[i]))'
  BY <1>1, <1>4, <1>6, Zenon DEF HomeInv
<1>9. EarlyGoesHome' BY <1>1, Zenon DEF HomeInv, EarlyGoesHome
<1>10. \A g \in Conns : g > accepted' => addr'[g] = Null
  <2> SUFFICES ASSUME NEW g \in Conns, g > accepted' PROVE addr'[g] = Null BY Zenon
  <2>1. g \in Nat /\ accepted \in Nat BY <1>2 DEF Types, Conns
  <2>2. g > accepted /\ g # accepted + 1 BY <1>1, <2>1
  <2>3. addr'[g] = addr[g]
    <3>1. addr \in [Conns -> Addrs \cup {Null}] BY <1>2, Zenon DEF Types
    <3> QED BY <1>1, <2>2, <3>1, Zenon
  <2> QED BY <2>2, <2>3, Zenon DEF HomeInv
<1> QED BY <1>7, <1>8, <1>9, <1>10, Zenon DEF HomeInv

\* Every step keeps it.
LEMMA HomeStep ==
    ASSUME Base, HomeInv, [Next]_vars
    PROVE  HomeInv'
BY StepKinds, HomeQueues, HomeDirect, HomeReplay, HomeCloses, HomeAccepts, Zenon DEF Steps

\* For any number of threads, connections and addresses, an operation that was pushed
\* while its connection was open takes effect on that connection or on none, also when
\* grpcuds_conn_free runs before the drain and the address is given again.
THEOREM EarlyOpsGoHome == Spec => []EarlyGoesHome
<1>1. HomeInv => EarlyGoesHome BY Zenon DEF HomeInv
<1>2. Base /\ HomeInv /\ [Next]_vars => Base' /\ HomeInv' BY BaseStep, HomeStep, Zenon
<1> QED BY <1>1, <1>2, BaseInit, HomeInit, PTL DEF Spec

-----------------------------------------------------------------------------
(* InOrder.                                                                *)

\* The operations of each thread are in its order in s, are all before x, are all after
\* x, and are in s before those in u.
Sorted(s) == \A i, j \in DOMAIN s : (i < j /\ s[i].by = s[j].by) => s[i].n < s[j].n
Precedes(s, x) == \A i \in DOMAIN s : s[i].by = x.by => s[i].n < x.n
Follows(s, x) == \A i \in DOMAIN s : s[i].by = x.by => x.n < s[i].n
Before(s, u) == \A i \in DOMAIN s, j \in DOMAIN u : s[i].by = u[j].by => s[i].n < u[j].n

\* The threads of s have begun its operations, as c counts them, and are producers.
Counted(s, c) == \A i \in DOMAIN s : s[i].n <= c[s[i].by]
Known(s, c) == Counted(s, c) /\ \A i \in DOMAIN s : s[i].by \in Producers

\* An operation moves from its thread by the queue and the batch to a call, and behind
\* it are only later ones of its thread.
OrderInv ==
    /\ Sorted(batch) /\ Known(batch, count) /\ Sorted(queue) /\ Known(queue, count) /\ Before(batch, queue)
    /\ \A p \in Producers :
         /\ Sorted(Todo(p)) /\ Known(Todo(p), count) /\ \A i \in DOMAIN Todo(p) : Todo(p)[i].by = p
         /\ Before(batch, Todo(p)) /\ Before(queue, Todo(p))
    /\ \A g \in Conns :
         /\ Sorted(answer[g]) /\ Counted(answer[g], count)
         /\ Before(answer[g], batch) /\ Before(answer[g], queue)
         /\ \A p \in Producers : Before(answer[g], Todo(p))

\* It holds while nothing has been done.
LEMMA OrderInit == Init => OrderInv
<1> SUFFICES ASSUME Init PROVE OrderInv BY Zenon
<1>1. \A p \in Producers : Todo(p) = << >> BY DEF Init, Todo
<1>2. \A g \in Conns : answer[g] = << >> BY DEF Init
<1>3. queue = << >> /\ batch = << >> BY DEF Init
<1>4. /\ Sorted(<< >>) /\ Known(<< >>, count) /\ Counted(<< >>, count)
      /\ Before(<< >>, << >>) /\ \A p \in Producers : \A i \in DOMAIN << >> : << >>[i].by = p
  BY DEF Sorted, Before, Known, Counted
<1> QED BY <1>1, <1>2, <1>3, <1>4, Zenon DEF OrderInv

\* One item more at the end.
LEMMA OrderAppend ==
    ASSUME NEW s \in Seq(Item), NEW x \in Item
    PROVE  /\ Sorted(s) /\ Precedes(s, x) => Sorted(Append(s, x))
           /\ \A u \in Seq(Item) : /\ Before(u, s) /\ Precedes(u, x) => Before(u, Append(s, x))
                                   /\ Before(s, u) /\ Follows(u, x) => Before(Append(s, x), u)
           /\ Known(s, count) /\ x.by \in Producers /\ x.n <= count[x.by] => Known(Append(s, x), count)
           /\ Counted(s, count) /\ x.n <= count[x.by] => Counted(Append(s, x), count)
<1>1. PICK t : t = Append(s, x) BY Zenon
<1>2. /\ t \in Seq(Item) /\ DOMAIN t = DOMAIN s \cup {Len(s) + 1} /\ t[Len(s) + 1] = x
      /\ \A i \in DOMAIN s : t[i] = s[i] /\ i < Len(s) + 1 /\ i \in Nat
      /\ Len(s) \in Nat
  BY <1>1
<1>3. Sorted(s) /\ Precedes(s, x) => Sorted(t)
  <2> SUFFICES ASSUME Sorted(s), Precedes(s, x), NEW i \in DOMAIN t, NEW j \in DOMAIN t,
                      i < j, t[i].by = t[j].by
               PROVE  t[i].n < t[j].n
    BY Zenon DEF Sorted
  <2>1. i \in DOMAIN s BY <1>2
  <2>2. CASE j \in DOMAIN s BY <1>2, <2>1, <2>2 DEF Sorted
  <2>3. CASE j = Len(s) + 1 BY <1>2, <2>1, <2>3 DEF Precedes
  <2> QED BY <1>2, <2>2, <2>3
<1>4. ASSUME NEW u \in Seq(Item)
      PROVE  /\ Before(u, s) /\ Precedes(u, x) => Before(u, t)
             /\ Before(s, u) /\ Follows(u, x) => Before(t, u)
  <2>1. Before(u, s) /\ Precedes(u, x) => Before(u, t) BY <1>2, Zenon DEF Before, Precedes
  <2>2. Before(s, u) /\ Follows(u, x) => Before(t, u) BY <1>2, Zenon DEF Before, Follows
  <2> QED BY <2>1, <2>2, Zenon
<1>5. Counted(s, count) /\ x.n <= count[x.by] => Counted(t, count) BY <1>2, Zenon DEF Counted
<1>6. Known(s, count) /\ x.by \in Producers /\ x.n <= count[x.by] => Known(t, count)
  BY <1>2, <1>5, Zenon DEF Known
<1> QED BY <1>1, <1>3, <1>4, <1>5, <1>6, Zenon

\* One item less at the front.
LEMMA OrderTail ==
    ASSUME NEW s \in Seq(Item), s # << >>
    PROVE  /\ Sorted(s) => Sorted(Tail(s)) /\ Follows(Tail(s), Head(s))
           /\ \A u \in Seq(Item) : /\ Before(s, u) => Before(Tail(s), u) /\ Follows(u, Head(s))
                                   /\ Before(u, s) => Before(u, Tail(s)) /\ Precedes(u, Head(s))
           /\ Known(s, count) => /\ Known(Tail(s), count) /\ Head(s).by \in Producers
                          /\ Head(s).n <= count[Head(s).by]
<1>1. PICK x, t : x = Head(s) /\ t = Tail(s) BY Zenon
<1>2. /\ 1 \in DOMAIN s /\ x = s[1] /\ x \in Item /\ t \in Seq(Item)
      /\ \A i \in DOMAIN t : i \in Nat /\ i + 1 \in DOMAIN s /\ t[i] = s[i + 1] /\ 1 < i + 1
  BY <1>1
<1>3. Sorted(s) => Sorted(t) /\ Follows(t, x)
  <2>1. ASSUME Sorted(s), NEW i \in DOMAIN t, NEW j \in DOMAIN t, i < j, t[i].by = t[j].by
        PROVE  t[i].n < t[j].n
    <3>1. i + 1 < j + 1 BY <1>2, <2>1
    <3> QED BY <1>2, <2>1, <3>1, Zenon DEF Sorted
  <2>2. Sorted(s) => Follows(t, x) BY <1>2, Zenon DEF Sorted, Follows
  <2> QED BY <2>1, <2>2, Zenon DEF Sorted
<1>4. ASSUME NEW u \in Seq(Item)
      PROVE  /\ Before(s, u) => Before(t, u) /\ Follows(u, x)
             /\ Before(u, s) => Before(u, t) /\ Precedes(u, x)
  <2>1. Before(s, u) => Before(t, u) BY <1>2, Zenon DEF Before
  <2>2. Before(s, u) => Follows(u, x) BY <1>2, Zenon DEF Before, Follows
  <2>3. Before(u, s) => Before(u, t) BY <1>2, Zenon DEF Before
  <2>4. Before(u, s) => Precedes(u, x) BY <1>2, Zenon DEF Before, Precedes
  <2> QED BY <2>1, <2>2, <2>3, <2>4, Zenon
<1>5. Known(s, count) => Known(t, count) /\ x.by \in Producers /\ x.n <= count[x.by]
  BY <1>2, Zenon DEF Known, Counted
<1> QED BY <1>1, <1>3, <1>4, <1>5, Zenon

\* Operations begun by a thread count from then on.
LEMMA OrderCount ==
    ASSUME Types, NEW t \in Threads, NEW k \in Nat, count' = [count EXCEPT ![t] = @ + k],
           NEW s \in Seq(Item)
    PROVE  /\ Counted(s, count) => Counted(s, count')
           /\ Known(s, count) => Known(s, count')
<1>0. \A i \in DOMAIN s : s[i] \in Item OBVIOUS
<1>1. \A i \in DOMAIN s : s[i].by \in Threads /\ s[i].n \in Nat BY <1>0 DEF Item
<1>2. \A q \in Threads : count[q] \in Nat /\ count'[q] \in Nat /\ count[q] <= count'[q] BY DEF Types
<1>3. Counted(s, count) => Counted(s, count') BY <1>1, <1>2 DEF Counted
<1> QED BY <1>3, Zenon DEF Known

\* The items of new operations are in order, and after all of their thread.
LEMMA OrderMade ==
    ASSUME Types, NEW t \in Threads, NEW g, NEW ops \in Seq(Ops), NEW e, NEW its \in Seq(Item),
           Made(its, t, g, ops, e), count' = [count EXCEPT ![t] = @ + Len(ops)]
    PROVE  /\ Sorted(its) /\ Counted(its, count')
           /\ \A s \in Seq(Item) : Counted(s, count) => Before(s, its)
<1>1. count[t] \in Nat /\ count'[t] = count[t] + Len(ops) /\ Len(ops) \in Nat BY DEF Types
<1>2. \A i \in DOMAIN its : /\ i \in Nat /\ 1 <= i /\ i <= Len(ops)
                            /\ its[i].by = t /\ its[i].n = count[t] + i
  BY DEF Made
<1>3. Sorted(its) BY <1>1, <1>2 DEF Sorted
<1>4. Counted(its, count') BY <1>1, <1>2 DEF Counted
<1>5. ASSUME NEW s \in Seq(Item), Counted(s, count), NEW i \in DOMAIN s, NEW j \in DOMAIN its,
             s[i].by = its[j].by
      PROVE  s[i].n < its[j].n
  <2>0. s[i] \in Item OBVIOUS
  <2>1. s[i].n \in Nat BY <2>0 DEF Item
  <2>2. s[i].n <= count[t] BY <1>2, <1>5 DEF Counted
  <2> QED BY <1>1, <1>2, <2>1, <2>2
<1> QED BY <1>3, <1>4, <1>5, Zenon DEF Before

\* begin
LEMMA OrderBegins ==
    ASSUME Base, OrderInv, NEW p \in Producers, NEW g \in Conns, NEW ops \in Seq(Ops),
           Begins(p, g, ops)
    PROVE  OrderInv'
<1>1. /\ queue' = queue /\ batch' = batch /\ answer' = answer
      /\ Todo(p)' = Items(p, g, ops, FALSE)
      /\ \A q \in Producers \ {p} : Todo(q)' = Todo(q)
      /\ count' = [count EXCEPT ![p] = @ + Len(ops)]
  BY Zenon DEF Begins
<1>2. Types /\ p \in Threads BY Zenon DEF Base, IInv, Threads
<1>3. PICK its : its = Items(p, g, ops, FALSE) BY Zenon
<1>4. its \in Seq(Item) BY <1>2, <1>3, ItemsOf, Zenon
<1>5. Made(its, p, g, ops, FALSE) BY <1>3, ItemsMade, Zenon
<1>6. /\ Sorted(its) /\ Counted(its, count')
      /\ \A s \in Seq(Item) : Counted(s, count) => Before(s, its)
  BY <1>1, <1>2, <1>4, <1>5, OrderMade, Zenon
<1>7. \A i \in DOMAIN its : its[i].by = p BY <1>5, Zenon DEF Made
<1>8. Known(its, count') BY <1>6, <1>7, Zenon DEF Known
<1>9. Len(ops) \in Nat OBVIOUS
<1>10. \A s \in Seq(Item) : /\ Counted(s, count) => Counted(s, count')
                            /\ Known(s, count) => Known(s, count')
  BY <1>1, <1>2, <1>9, OrderCount, Zenon
<1>11. batch \in Seq(Item) /\ queue \in Seq(Item) /\ \A f \in Conns : answer[f] \in Seq(Item)
  BY <1>2 DEF Types, Base
<1>12. \A q \in Producers : Todo(q) \in Seq(Item) BY <1>2, TodoType, Zenon
<1>13. Sorted(batch) /\ Known(batch, count) /\ Sorted(queue) /\ Known(queue, count) /\ Before(batch, queue)
  BY Zenon DEF OrderInv
<1>14. (Sorted(batch) /\ Known(batch, count) /\ Sorted(queue) /\ Known(queue, count) /\ Before(batch, queue))'
  BY <1>1, <1>10, <1>11, <1>13, Zenon
<1>15. ASSUME NEW q \in Producers
       PROVE  (/\ Sorted(Todo(q)) /\ Known(Todo(q), count) /\ \A i \in DOMAIN Todo(q) : Todo(q)[i].by = q
               /\ Before(batch, Todo(q)) /\ Before(queue, Todo(q)))'
  <2>1. CASE q = p
    <3>1. Before(batch, its) /\ Before(queue, its) BY <1>6, <1>11, <1>13, Zenon DEF Known
    <3> QED BY <1>1, <1>3, <1>6, <1>7, <1>8, <2>1, <3>1, Zenon
  <2>2. CASE q # p
    <3>1. Todo(q)' = Todo(q) BY <1>1, <2>2, Zenon
    <3>2. /\ Sorted(Todo(q)) /\ Known(Todo(q), count) /\ \A i \in DOMAIN Todo(q) : Todo(q)[i].by = q
          /\ Before(batch, Todo(q)) /\ Before(queue, Todo(q))
      BY Zenon DEF OrderInv
    <3>3. Known(Todo(q), count') BY <1>10, <1>12, <3>2, Zenon
    <3> QED BY <1>1, <3>1, <3>2, <3>3, Zenon
  <2> QED BY <2>1, <2>2, Zenon
<1>16. ASSUME NEW f \in Conns
       PROVE  (/\ Sorted(answer[f]) /\ Counted(answer[f], count)
               /\ Before(answer[f], batch) /\ Before(answer[f], queue)
               /\ \A q \in Producers : Before(answer[f], Todo(q)))'
  <2>1. /\ Sorted(answer[f]) /\ Counted(answer[f], count)
        /\ Before(answer[f], batch) /\ Before(answer[f], queue)
        /\ \A q \in Producers : Before(answer[f], Todo(q))
    BY Zenon DEF OrderInv
  <2>2. Counted(answer[f], count') /\ Before(answer[f], its) BY <1>6, <1>10, <1>11, <2>1, Zenon
  <2>3. \A q \in Producers : Before(answer[f], Todo(q)') BY <1>1, <1>3, <2>1, <2>2, Zenon
  <2> QED BY <1>1, <2>1, <2>2, <2>3, Zenon
<1> QED BY <1>14, <1>15, <1>16, Zenon DEF OrderInv

\* push
LEMMA OrderPushes ==
    ASSUME Base, OrderInv, NEW p \in Producers, NEW x \in Item, Pushes(p, x)
    PROVE  OrderInv'
<1>1. /\ Todo(p) \in Seq(Item) /\ Todo(p) # << >> /\ OpOf(x) = OpOf(Head(Todo(p)))
      /\ queue' = Append(queue, x) /\ batch' = batch /\ answer' = answer /\ count' = count
      /\ Todo(p)' = Tail(Todo(p))
      /\ \A q \in Producers \ {p} : Todo(q)' = Todo(q)
  BY Zenon DEF Pushes
<1>2. Types BY Zenon DEF Base, IInv
<1>3. PICK todo, y, rest : todo = Todo(p) /\ y = Head(todo) /\ rest = Tail(todo) BY Zenon
<1>4. todo \in Seq(Item) /\ todo # << >> /\ y \in Item /\ rest \in Seq(Item) BY <1>1, <1>3, SMTT(30)
<1>5. x.by = y.by /\ x.n = y.n BY <1>1, <1>3 DEF OpOf
<1>6. batch \in Seq(Item) /\ queue \in Seq(Item) /\ \A f \in Conns : answer[f] \in Seq(Item)
  BY <1>2 DEF Types, Base
<1>7. /\ Sorted(todo) /\ Known(todo, count) /\ \A i \in DOMAIN todo : todo[i].by = p
      /\ Before(batch, todo) /\ Before(queue, todo)
  BY <1>3, Zenon DEF OrderInv
<1>8. y.by = p /\ \A i \in DOMAIN rest : rest[i].by = p BY <1>3, <1>4, <1>7
<1>9. Sorted(rest) /\ Follows(rest, y) BY <1>3, <1>4, <1>7, OrderTail, Zenon
<1>10. Known(rest, count) /\ y.n <= count[y.by] BY <1>3, <1>4, <1>7, OrderTail, Zenon
<1>11. \A u \in Seq(Item) : Before(u, todo) => Before(u, rest) /\ Precedes(u, y)
  BY <1>3, <1>4, OrderTail, Zenon
<1>12. Follows(rest, x) BY <1>5, <1>9, Zenon DEF Follows
<1>13. \A u \in Seq(Item) : Before(u, todo) => Before(u, rest) /\ Precedes(u, x)
  BY <1>5, <1>11, Zenon DEF Precedes
<1>14. PICK q2 : q2 = Append(queue, x) BY Zenon
<1>15. Sorted(queue) /\ Known(queue, count) /\ Sorted(batch) /\ Known(batch, count) /\ Before(batch, queue)
  BY Zenon DEF OrderInv
<1>16. Sorted(q2) BY <1>6, <1>7, <1>13, <1>14, <1>15, OrderAppend, Zenon
<1>17. Known(q2, count) BY <1>5, <1>6, <1>8, <1>10, <1>14, <1>15, OrderAppend, Zenon
<1>18. Before(batch, q2) BY <1>6, <1>7, <1>13, <1>14, <1>15, OrderAppend, Zenon
<1>19. \A u \in Seq(Item) : Before(queue, u) /\ Follows(u, x) => Before(q2, u)
  BY <1>6, <1>14, OrderAppend, Zenon
<1>20. ASSUME NEW q \in Producers
       PROVE  (/\ Sorted(Todo(q)) /\ Known(Todo(q), count) /\ \A i \in DOMAIN Todo(q) : Todo(q)[i].by = q
               /\ Before(batch, Todo(q)) /\ Before(queue, Todo(q)))'
  <2>1. CASE q = p
    <3>1. Todo(q)' = rest BY <1>1, <1>3, <2>1, Zenon
    <3>2. Before(batch, rest) /\ Before(queue, rest) BY <1>6, <1>7, <1>13, Zenon
    <3>3. Before(q2, rest) BY <1>4, <1>12, <1>19, <3>2, Zenon
    <3> QED BY <1>1, <1>8, <1>9, <1>10, <1>14, <2>1, <3>1, <3>2, <3>3, Zenon
  <2>2. CASE q # p
    <3>1. Todo(q)' = Todo(q) BY <1>1, <2>2, Zenon
    <3>2. /\ Sorted(Todo(q)) /\ Known(Todo(q), count) /\ \A i \in DOMAIN Todo(q) : Todo(q)[i].by = q
          /\ Before(batch, Todo(q)) /\ Before(queue, Todo(q))
      BY Zenon DEF OrderInv
    <3>3. Follows(Todo(q), x) BY <1>5, <1>8, <2>2, <3>2, Zenon DEF Follows
    <3>4. Todo(q) \in Seq(Item) BY <1>2, TodoType, Zenon
    <3>5. Before(q2, Todo(q)) BY <1>19, <3>2, <3>3, <3>4, Zenon
    <3> QED BY <1>1, <1>14, <3>1, <3>2, <3>5, Zenon
  <2> QED BY <2>1, <2>2, Zenon
<1>21. ASSUME NEW f \in Conns
       PROVE  (/\ Sorted(answer[f]) /\ Counted(answer[f], count)
               /\ Before(answer[f], batch) /\ Before(answer[f], queue)
               /\ \A q \in Producers : Before(answer[f], Todo(q)))'
  <2>1. /\ Sorted(answer[f]) /\ Counted(answer[f], count)
        /\ Before(answer[f], batch) /\ Before(answer[f], queue)
        /\ \A q \in Producers : Before(answer[f], Todo(q))
    BY Zenon DEF OrderInv
  <2>2. PICK taken : taken = answer[f] BY Zenon
  <2>3. taken \in Seq(Item) BY <1>6, <2>2, Zenon
  <2>4. Before(taken, rest) /\ Precedes(taken, x) BY <1>3, <1>13, <2>1, <2>2, <2>3, Zenon
  <2>5. Before(taken, q2) BY <1>6, <1>14, <2>1, <2>2, <2>3, <2>4, OrderAppend, Zenon
  <2>6. \A q \in Producers : Before(taken, Todo(q)') BY <1>1, <1>3, <2>1, <2>2, <2>4, Zenon
  <2> QED BY <1>1, <1>14, <2>1, <2>2, <2>5, <2>6, Zenon
<1>22. (Sorted(batch) /\ Known(batch, count) /\ Sorted(queue) /\ Known(queue, count) /\ Before(batch, queue))'
  BY <1>1, <1>14, <1>15, <1>16, <1>17, <1>18, Zenon
<1> QED BY <1>20, <1>21, <1>22, Zenon DEF OrderInv

\* What a call takes of items that are all later is in order, and before what the items
\* that it had and those done to it now are before.
LEMMA OrderPrefix ==
    ASSUME NEW taken \in Seq(Item), NEW its \in Seq(Item), NEW r, Prefix(taken, its, r),
           Sorted(taken), Sorted(its), Before(taken, its)
    PROVE  /\ Sorted(r)
           /\ \A u : Before(taken, u) /\ Before(its, u) => Before(r, u)
           /\ \A c : Counted(taken, c) /\ Counted(its, c) => Counted(r, c)
<1>1. PICK n \in 0..Len(its) : r = taken \o SubSeq(its, 1, n) BY Zenon DEF Prefix
<1>2. PICK k : k = Len(taken) BY Zenon
<1>3. /\ k \in Nat
      /\ \A i \in DOMAIN r : /\ i \in Nat
                             /\ i <= k => i \in DOMAIN taken /\ r[i] = taken[i]
                             /\ i > k => i - k \in DOMAIN its /\ r[i] = its[i - k]
  <2>1. k \in Nat /\ DOMAIN taken = 1..k BY <1>2
  <2>2. DOMAIN r = 1..(k + n) BY <1>1, <1>2
  <2> SUFFICES ASSUME NEW i \in DOMAIN r
               PROVE  /\ i \in Nat
                      /\ i <= k => i \in DOMAIN taken /\ r[i] = taken[i]
                      /\ i > k => i - k \in DOMAIN its /\ r[i] = its[i - k]
    BY <2>1, Zenon
  <2>3. i \in 1..(k + n) BY <2>2
  <2>4. ASSUME i <= k PROVE i \in DOMAIN taken /\ r[i] = taken[i] BY <1>1, <1>2, <2>1, <2>3, <2>4
  <2>5. ASSUME i > k PROVE i - k \in DOMAIN its /\ r[i] = its[i - k] BY <1>1, <1>2, <2>1, <2>3, <2>5
  <2> QED BY <2>3, <2>4, <2>5
<1>4. Mixed(r, taken, its) BY PrefixMembers, Zenon
<1>5. Sorted(r)
  <2> SUFFICES ASSUME NEW i \in DOMAIN r, NEW j \in DOMAIN r, i < j, r[i].by = r[j].by
               PROVE  r[i].n < r[j].n
    BY Zenon DEF Sorted
  <2>1. CASE j <= k
    <3>1. i <= k BY <1>3, <2>1
    <3> QED BY <1>3, <2>1, <3>1, Zenon DEF Sorted
  <2>2. CASE i <= k /\ j > k BY <1>3, <2>2, Zenon DEF Before
  <2>3. CASE i > k
    <3>1. j > k /\ i - k < j - k BY <1>3, <2>3
    <3> QED BY <1>3, <2>3, <3>1, Zenon DEF Sorted
  <2>4. j <= k \/ (i <= k /\ j > k) \/ i > k BY <1>3
  <2> QED BY <2>1, <2>2, <2>3, <2>4, Zenon
<1>6. \A u : Before(taken, u) /\ Before(its, u) => Before(r, u) BY <1>4, Zenon DEF Mixed, Before
<1>7. \A c : Counted(taken, c) /\ Counted(its, c) => Counted(r, c) BY <1>4, Zenon DEF Mixed, Counted
<1> QED BY <1>5, <1>6, <1>7, Zenon

\* Operations on the I/O thread go by no queue.
LEMMA OrderDirect ==
    ASSUME Base, OrderInv, NEW g \in Conns, NEW ops \in Seq(Ops), Directs(g, ops)
    PROVE  OrderInv'
<1>1. /\ UNCHANGED <<queue, batch>> /\ count' = [count EXCEPT ![IO] = @ + Len(ops)]
      /\ \A p \in Producers : Todo(p)' = Todo(p)
  BY Zenon DEF Directs, SameTodo
<1>2. Types /\ IO \in Threads /\ IO \notin Producers
  BY MailboxAssumption, Zenon DEF Base, IInv, Threads
<1>3. PICK its : its = Items(IO, g, ops, TRUE) BY Zenon
<1>4. /\ its \in Seq(Item) /\ Prefix(answer[g], its, answer'[g])
      /\ \A f \in Conns \ {g} : answer'[f] = answer[f]
  BY <1>3, DirectTakes, Zenon
<1>5. Made(its, IO, g, ops, TRUE) BY <1>3, ItemsMade, Zenon
<1>6. /\ Sorted(its) /\ Counted(its, count')
      /\ \A s \in Seq(Item) : Counted(s, count) => Before(s, its)
  BY <1>1, <1>2, <1>4, <1>5, OrderMade, Zenon
<1>7. Len(ops) \in Nat OBVIOUS
<1>8. \A s \in Seq(Item) : /\ Counted(s, count) => Counted(s, count')
                           /\ Known(s, count) => Known(s, count')
  BY <1>1, <1>2, <1>7, OrderCount, Zenon
<1>9. batch \in Seq(Item) /\ queue \in Seq(Item) /\ \A f \in Conns : answer[f] \in Seq(Item)
  BY <1>2 DEF Types, Base
<1>10. \A q \in Producers : Todo(q) \in Seq(Item) BY <1>2, TodoType, Zenon
<1>11. \A i \in DOMAIN its : its[i].by = IO BY <1>5, Zenon DEF Made
<1>12. \A u : Known(u, count) => Before(its, u) BY <1>2, <1>11, Zenon DEF Known, Before
<1>13. Sorted(batch) /\ Known(batch, count) /\ Sorted(queue) /\ Known(queue, count) /\ Before(batch, queue)
  BY Zenon DEF OrderInv
<1>14. (Sorted(batch) /\ Known(batch, count) /\ Sorted(queue) /\ Known(queue, count) /\ Before(batch, queue))'
  BY <1>1, <1>8, <1>9, <1>13, Zenon
<1>15. ASSUME NEW q \in Producers
       PROVE  (/\ Sorted(Todo(q)) /\ Known(Todo(q), count) /\ \A i \in DOMAIN Todo(q) : Todo(q)[i].by = q
               /\ Before(batch, Todo(q)) /\ Before(queue, Todo(q)))'
  <2>1. /\ Sorted(Todo(q)) /\ Known(Todo(q), count) /\ \A i \in DOMAIN Todo(q) : Todo(q)[i].by = q
        /\ Before(batch, Todo(q)) /\ Before(queue, Todo(q))
    BY Zenon DEF OrderInv
  <2>2. Known(Todo(q), count') BY <1>8, <1>10, <2>1, Zenon
  <2> QED BY <1>1, <2>1, <2>2, Zenon
<1>16. ASSUME NEW f \in Conns
       PROVE  (/\ Sorted(answer[f]) /\ Counted(answer[f], count)
               /\ Before(answer[f], batch) /\ Before(answer[f], queue)
               /\ \A q \in Producers : Before(answer[f], Todo(q)))'
  <2>1. /\ Sorted(answer[f]) /\ Counted(answer[f], count)
        /\ Before(answer[f], batch) /\ Before(answer[f], queue)
        /\ \A q \in Producers : Before(answer[f], Todo(q))
    BY Zenon DEF OrderInv
  <2>2. PICK taken, r : taken = answer[f] /\ r = answer'[f] BY Zenon
  <2>3. taken \in Seq(Item) BY <1>9, <2>2, Zenon
  <2>4. Counted(taken, count') BY <1>8, <2>1, <2>2, <2>3, Zenon
  <2>5. CASE f = g
    <3>1. Prefix(taken, its, r) BY <1>4, <2>2, <2>5, Zenon
    <3>2. Sorted(taken) /\ Before(taken, its) BY <1>6, <2>1, <2>2, <2>3, Zenon
    <3>3. /\ Sorted(r)
          /\ \A u : Before(taken, u) /\ Before(its, u) => Before(r, u)
          /\ \A c : Counted(taken, c) /\ Counted(its, c) => Counted(r, c)
      BY <1>4, <1>6, <2>3, <3>1, <3>2, OrderPrefix, Zenon
    <3>4. Counted(r, count') BY <1>6, <2>4, <3>3, Zenon
    <3>5. Before(r, batch) /\ Before(r, queue) BY <1>12, <1>13, <2>1, <2>2, <3>3, Zenon
    <3>6. \A q \in Producers : Before(r, Todo(q))
      BY <1>12, <2>1, <2>2, <3>3, Zenon DEF OrderInv
    <3> QED BY <1>1, <2>2, <3>3, <3>4, <3>5, <3>6, Zenon
  <2>6. CASE f # g
    <3>1. r = taken BY <1>4, <2>2, <2>6, Zenon
    <3> QED BY <1>1, <2>1, <2>2, <2>4, <3>1, Zenon
  <2> QED BY <2>5, <2>6, Zenon
<1> QED BY <1>14, <1>15, <1>16, Zenon DEF OrderInv

\* drain replays its items in order.
LEMMA OrderReplay ==
    ASSUME Base, OrderInv, Replays
    PROVE  OrderInv'
<1>1. /\ UNCHANGED <<queue, count>> /\ batch # << >> /\ batch' = Tail(batch)
      /\ \A p \in Producers : Todo(p)' = Todo(p)
  BY Zenon DEF Replays, SameTodo
<1>2. Types BY Zenon DEF Base, IInv
<1>3. PICK x, rest : x = Head(batch) /\ rest = Tail(batch) BY Zenon
<1>4. batch \in Seq(Item) /\ queue \in Seq(Item) /\ \A f \in Conns : answer[f] \in Seq(Item)
  BY <1>2 DEF Types, Base
<1>5. \A q \in Producers : Todo(q) \in Seq(Item) BY <1>2, TodoType, Zenon
<1>6. /\ x \in Item /\ rest \in Seq(Item)
      /\ \A f \in Conns : answer'[f] = answer[f] \/ answer'[f] = Append(answer[f], x)
  BY <1>3, ReplayTakes, Zenon
<1>7. Sorted(batch) /\ Known(batch, count) /\ Sorted(queue) /\ Known(queue, count) /\ Before(batch, queue)
  BY Zenon DEF OrderInv
<1>8. Sorted(rest) /\ Follows(rest, x) BY <1>1, <1>3, <1>4, <1>7, OrderTail, Zenon
<1>9. Known(rest, count) /\ x.n <= count[x.by] BY <1>1, <1>3, <1>4, <1>7, OrderTail, Zenon
<1>10. \A u \in Seq(Item) : /\ Before(batch, u) => Before(rest, u) /\ Follows(u, x)
                            /\ Before(u, batch) => Before(u, rest) /\ Precedes(u, x)
  BY <1>1, <1>3, <1>4, OrderTail, Zenon
<1>11. Before(rest, queue) /\ Follows(queue, x) BY <1>4, <1>7, <1>10, Zenon
<1>12. (Sorted(batch) /\ Known(batch, count) /\ Sorted(queue) /\ Known(queue, count) /\ Before(batch, queue))'
  BY <1>1, <1>3, <1>7, <1>8, <1>9, <1>11, Zenon
<1>13. ASSUME NEW q \in Producers
       PROVE  (/\ Sorted(Todo(q)) /\ Known(Todo(q), count) /\ \A i \in DOMAIN Todo(q) : Todo(q)[i].by = q
               /\ Before(batch, Todo(q)) /\ Before(queue, Todo(q)))'
  <2>1. /\ Sorted(Todo(q)) /\ Known(Todo(q), count) /\ \A i \in DOMAIN Todo(q) : Todo(q)[i].by = q
        /\ Before(batch, Todo(q)) /\ Before(queue, Todo(q))
    BY Zenon DEF OrderInv
  <2>2. Before(rest, Todo(q)) BY <1>5, <1>10, <2>1, Zenon
  <2> QED BY <1>1, <1>3, <2>1, <2>2, Zenon
<1>14. ASSUME NEW f \in Conns
       PROVE  (/\ Sorted(answer[f]) /\ Counted(answer[f], count)
               /\ Before(answer[f], batch) /\ Before(answer[f], queue)
               /\ \A q \in Producers : Before(answer[f], Todo(q)))'
  <2>1. /\ Sorted(answer[f]) /\ Counted(answer[f], count)
        /\ Before(answer[f], batch) /\ Before(answer[f], queue)
        /\ \A q \in Producers : Before(answer[f], Todo(q))
    BY Zenon DEF OrderInv
  <2>2. PICK taken, r : taken = answer[f] /\ r = answer'[f] BY Zenon
  <2>3. taken \in Seq(Item) BY <1>4, <2>2, Zenon
  <2>4. Before(taken, rest) /\ Precedes(taken, x) BY <1>10, <2>1, <2>2, <2>3, Zenon
  <2>5. CASE r = taken BY <1>1, <1>3, <2>1, <2>2, <2>4, <2>5, Zenon
  <2>6. CASE r = Append(taken, x)
    <3>1. Sorted(r) BY <1>6, <2>1, <2>2, <2>3, <2>4, <2>6, OrderAppend, Zenon
    <3>2. Counted(r, count) BY <1>6, <1>9, <2>1, <2>2, <2>3, <2>6, OrderAppend, Zenon
    <3>3. \A u \in Seq(Item) : Before(taken, u) /\ Follows(u, x) => Before(r, u)
      BY <1>6, <2>3, <2>6, OrderAppend, Zenon
    <3>4. Before(r, rest) /\ Before(r, queue)
      BY <1>4, <1>6, <1>8, <1>11, <2>1, <2>2, <2>4, <3>3, Zenon
    <3>5. ASSUME NEW q \in Producers PROVE Before(r, Todo(q))
      <4>1. Before(batch, Todo(q)) /\ Todo(q) \in Seq(Item) BY <1>5, Zenon DEF OrderInv
      <4>2. Follows(Todo(q), x) BY <1>10, <4>1, Zenon
      <4> QED BY <2>1, <2>2, <3>3, <4>1, <4>2, Zenon
    <3> QED BY <1>1, <1>3, <2>2, <3>1, <3>2, <3>4, <3>5, Zenon
  <2> QED BY <1>6, <2>2, <2>5, <2>6, Zenon
<1> QED BY <1>12, <1>13, <1>14, Zenon DEF OrderInv

\* The steps that leave the order of what is on its way: a scrub only takes addresses.
LEMMA OrderStays ==
    ASSUME Base, OrderInv,
           \/ Rests \/ Takes \/ \E a \in Addrs : Accepts(a)
           \/ \E S \in SUBSET Addrs : Closes(S)
    PROVE  OrderInv'
<1>1. UNCHANGED <<count, answer>> /\ \A p \in Producers : Todo(p)' = Todo(p)
  BY Zenon DEF Rests, Takes, Accepts, Closes, SameTodo
<1>2. CASE UNCHANGED <<queue, batch>> BY <1>1, <1>2, Zenon DEF OrderInv
<1>3. CASE Takes
  <2>1. batch' = queue /\ queue' = << >> BY <1>3, Zenon DEF Takes
  <2>2. \A s : Before(s, << >>) /\ Before(<< >>, s) BY DEF Before
  <2>3. Sorted(<< >>) /\ Known(<< >>, count) BY DEF Sorted, Known, Counted
  <2> QED BY <1>1, <2>1, <2>2, <2>3, Zenon DEF OrderInv
<1>4. ASSUME NEW S \in SUBSET Addrs, Closes(S) PROVE OrderInv'
  <2>1. batch' = batch /\ queue' = Scrubbed(S) BY <1>4, Zenon DEF Closes
  <2>2. PICK q : q = Scrubbed(S) BY Zenon
  <2>3. queue \in Seq(Item) BY DEF Base, IInv, Types
  <2>4. DOMAIN q = DOMAIN queue BY <2>2, Zenon DEF Scrubbed
  <2>5. ASSUME NEW i \in DOMAIN queue PROVE q[i].by = queue[i].by /\ q[i].n = queue[i].n
    <3>1. queue[i] \in Item BY <2>3
    <3>2. q[i] = queue[i] \/ q[i] = [queue[i] EXCEPT !.call = Null] BY <2>2 DEF Scrubbed
    <3> QED BY <3>1, <3>2 DEF Item
  <2>6. Sorted(queue) => Sorted(q) BY <2>4, <2>5, Zenon DEF Sorted
  <2>7. Known(queue, count) => Known(q, count) BY <2>4, <2>5, Zenon DEF Known, Counted
  <2>8. \A s : (Before(s, queue) => Before(s, q)) /\ (Before(queue, s) => Before(q, s))
    BY <2>4, <2>5, Zenon DEF Before
  <2> QED BY <1>1, <2>1, <2>2, <2>6, <2>7, <2>8, Zenon DEF OrderInv
<1> QED BY <1>2, <1>3, <1>4, Zenon DEF Rests, Accepts

\* Every step keeps it.
LEMMA OrderStep ==
    ASSUME Base, OrderInv, [Next]_vars
    PROVE  OrderInv'
BY StepKinds, OrderBegins, OrderPushes, OrderDirect, OrderReplay, OrderStays, Zenon DEF Steps

\* For any number of threads, connections and addresses, the operations of a thread take
\* effect on a call in the order it made them, however the pushes of several threads and
\* the drain interleave.
THEOREM OpsKeepTheirOrder == Spec => []InOrder
<1>1. OrderInv => InOrder BY Zenon DEF OrderInv, InOrder, Sorted
<1>2. Base /\ OrderInv /\ [Next]_vars => Base' /\ OrderInv' BY BaseStep, OrderStep, Zenon
<1> QED BY <1>1, <1>2, BaseInit, OrderInit, PTL DEF Spec

=============================================================================
