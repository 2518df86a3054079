--------------------------- MODULE FfiUnaryProofs ---------------------------
(***************************************************************************)
(* What generated stubs promise the client of a unary call over the        *)
(* mailbox of the C ABI, for any number of threads, connections and        *)
(* addresses: UnaryContract, from the inductive invariant UnaryInv and     *)
(* the order of operations in FfiMailboxProofs.                            *)
(***************************************************************************)
EXTENDS FfiMailboxProofs

\* A connection is at the one address it was given, and that has no tombstone.
Lively ==
    \A a \in Addrs : conns[a] # 0 => a \notin dead /\ conns[a] \in Conns /\ addr[conns[a]] = a

\* A tombstone is put and taken with the connection.
LEMMA LivelyStep ==
    ASSUME Base, HomeInv, Lively, [Next]_vars
    PROVE  Lively'
<1>1. Types BY Zenon DEF Base, IInv
<1>2. CASE UNCHANGED <<conns, addr, dead>> BY <1>2 DEF Lively
<1>3. ASSUME NEW S \in SUBSET Addrs, FreeConns(S), addr' = addr PROVE Lively'
  <2>1. dead' = dead \cup S /\ conns' = [a \in Addrs |-> IF a \in S THEN 0 ELSE conns[a]]
    BY <1>3 DEF FreeConns, Tombed
  <2> QED BY <1>3, <2>1 DEF Lively
<1>4. ASSUME NEW a \in Addrs, accept(a) PROVE Lively'
  <2>1. /\ conns[a] = 0 /\ accepted < MaxConns
        /\ conns' = [conns EXCEPT ![a] = accepted + 1]
        /\ addr' = [addr EXCEPT ![accepted + 1] = a]
        /\ dead' = dead \ {a}
    BY <1>4 DEF accept, Untombed
  <2>2. accepted + 1 \in Conns /\ accepted + 1 > accepted
    BY <1>1, <2>1, MailboxAssumption DEF Types, Conns
  <2>3. addr[accepted + 1] = Null BY <2>2, Zenon DEF HomeInv
  <2> SUFFICES ASSUME NEW b \in Addrs, conns'[b] # 0
               PROVE  b \notin dead' /\ conns'[b] \in Conns /\ addr'[conns'[b]] = b
    BY Zenon DEF Lively
  <2>4. CASE b = a BY <1>1, <2>1, <2>2, <2>4 DEF Types
  <2>5. CASE b # a
    <3>1. conns'[b] = conns[b] BY <1>1, <2>1, <2>5 DEF Types
    <3>2. b \notin dead /\ conns[b] \in Conns /\ addr[conns[b]] = b BY <3>1, Zenon DEF Lively
    <3>3. conns[b] # accepted + 1 BY <2>3, <3>2, MailboxAssumption
    <3>4. addr'[conns[b]] = addr[conns[b]] BY <1>1, <2>1, <3>2, <3>3 DEF Types
    <3> QED BY <2>1, <3>1, <3>2, <3>4
  <2> QED BY <2>4, <2>5, Zenon
<1>5. ASSUME NEW a \in Addrs, conn_free(a) PROVE Lively'
  <2>1. FreeConns({a}) /\ addr' = addr BY <1>5 DEF conn_free
  <2>2. {a} \in SUBSET Addrs OBVIOUS
  <2> QED BY <1>3, <2>1, <2>2, Zenon
<1>6. ASSUME teardown PROVE Lively'
  <2>1. PICK S : S = {a \in Addrs : conns[a] # 0} BY Zenon
  <2>2. FreeConns(S) /\ addr' = addr BY <1>6, <2>1 DEF teardown
  <2>3. S \in SUBSET Addrs BY <2>1
  <2> QED BY <1>3, <2>2, <2>3, Zenon
<1>7. ASSUME \E p \in Producers : ThreadStep(p)
                 \/ \E g \in Conns : \E kind \in Kinds(call[g].style) : begin(p, g, kind)
      PROVE  UNCHANGED <<conns, addr, dead>>
  BY <1>7, Zenon DEF ThreadStep, push, poke, begin, mailVars
<1>8. ASSUME \/ \E g \in Conns : \E kind \in Kinds(call[g].style) : call_direct(g, kind)
             \/ \E g \in Conns, h \in Handlings, t \in Threads : dispatch(g, h, t)
      PROVE  UNCHANGED <<conns, addr, dead>>
  BY <1>8, Zenon DEF call_direct, dispatch, Direct, mailVars
<1>9. ASSUME drain_wakeup \/ drain_take \/ drain_replay \/ drain_done \/ stop \/ UNCHANGED vars
      PROVE  UNCHANGED <<conns, addr, dead>>
  BY <1>9, Zenon DEF drain_wakeup, drain_take, drain_replay, drain_done, stop, mailVars, vars
<1> QED BY <1>2, <1>4, <1>5, <1>6, <1>7, <1>8, <1>9, Zenon DEF Next, Drain

\* The operations in a sequence of items, and those on their way.
OpsIn(s) == {OpOf(s[i]) : i \in DOMAIN s}
Waiting == OpsIn(batch) \cup OpsIn(queue) \cup UNION {OpsIn(Todo(p)) : p \in Producers}

\* The call of g has taken operations for it only.
Own(g) == \A k \in DOMAIN answer[g] : answer[g][k].conn = g

\* Operation y is the finish of message x.
Pair(x, y) ==
    /\ x.conn = y.conn /\ x.by = y.by /\ y.n = x.n + 1
    /\ ~x.finish /\ y.finish /\ y.status = "OK"

\* What a unary call may have taken: nothing, a message, an error, or a message and OK.
Message(s) == Len(s) = 1 /\ ~s[1].finish
Shape(s) ==
    \/ s = << >>
    \/ Message(s)
    \/ Len(s) = 1 /\ s[1].finish /\ s[1].status # "OK"
    \/ Len(s) = 2 /\ ~s[1].finish /\ s[2].finish /\ s[2].status = "OK"

IsUnary(g) == Unary(call[g].style)

\* A handle on its way is that of its connection as long as this is open: the one at
\* address ad[g] in cs.
Addressed(s, cs, ad) ==
    \A i \in DOMAIN s :
        (ad[s[i].conn] # Null /\ cs[ad[s[i].conn]] = s[i].conn) => s[i].call = ad[s[i].conn]

\* Only the thread that a unary call was left to has operations on it under way, and a
\* message goes with the finish made with it, right behind it.
Owned ==
    \A x \in Waiting :
        /\ call[x.conn].at = "open" /\ (IsUnary(x.conn) => call[x.conn].by = x.by)
        /\ (IsUnary(x.conn) /\ ~x.finish) => \E y \in Waiting : Pair(x, y)

\* A finish with OK has its message before it, on the way or taken.
Preceded ==
    \A y \in Waiting : (IsUnary(y.conn) /\ y.finish /\ y.status = "OK") =>
        \/ \E x \in Waiting : Pair(x, y)
        \/ ~Open(y.conn) \/ ~Own(y.conn) \/ answer[y.conn] # << >>

\* A unary call has taken what it may, and behind a message comes its finish.
Shaped ==
    \A g \in Conns : (IsUnary(g) /\ Own(g)) =>
        /\ Shape(answer[g])
        /\ (Open(g) /\ Message(answer[g])) => \E y \in Waiting : Pair(answer[g][1], y)

\* A call that no handler has seen has taken nothing of its own.
Unseen ==
    /\ call = [g \in Conns |-> call[g]]
    /\ \A g \in Conns : /\ g > accepted => call[g].at = "new"
                        /\ call[g].at = "new" => \A k \in DOMAIN answer[g] : answer[g][k].conn # g

UnaryInv ==
    /\ Lively /\ Owned /\ Preceded /\ Shaped /\ Unseen
    /\ Addressed(batch, conns, addr) /\ Addressed(queue, conns, addr)
    /\ \A p \in Producers : Addressed(Todo(p), conns, addr)

\* It holds while nothing has been done.
LEMMA UnaryInit == Init => UnaryInv
<1> SUFFICES ASSUME Init PROVE UnaryInv BY Zenon
<1>1. \A p \in Producers : Todo(p) = << >> BY DEF Init, Todo
<1>2. \A g \in Conns : answer[g] = << >> /\ call[g].at = "new" BY DEF Init, New
<1>3. queue = << >> /\ batch = << >> BY DEF Init
<1>4. Waiting = {}
  <2>1. OpsIn(<< >>) = {} BY DEF OpsIn
  <2> QED BY <1>1, <1>3, <2>1 DEF Waiting
<1>5. Lively BY DEF Init, Lively
<1>6. Owned /\ Preceded BY <1>4, Zenon DEF Owned, Preceded
<1>7. Shaped
  <2>1. Shape(<< >>) /\ ~Message(<< >>) BY DEF Shape, Message
  <2> QED BY <1>2, <2>1, Zenon DEF Shaped
<1>8. Unseen
  <2>1. call = [g \in Conns |-> call[g]] BY DEF Init
  <2> QED BY <1>2, <2>1 DEF Unseen
<1>9. Addressed(<< >>, conns, addr) BY DEF Addressed
<1> QED BY <1>1, <1>3, <1>5, <1>6, <1>7, <1>8, <1>9, Zenon DEF UnaryInv

\* An operation keeps what its item says.
LEMMA OpFields ==
    ASSUME NEW x
    PROVE  /\ OpOf(x).conn = x.conn /\ OpOf(x).by = x.by /\ OpOf(x).n = x.n
           /\ OpOf(x).finish = x.finish /\ OpOf(x).status = x.status
BY DEF OpOf

\* One item more, or less.
LEMMA OpsInSeq ==
    ASSUME NEW s \in Seq(Item)
    PROVE  /\ \A x \in Item : OpsIn(Append(s, x)) = OpsIn(s) \cup {OpOf(x)}
           /\ s # << >> => OpsIn(s) = {OpOf(Head(s))} \cup OpsIn(Tail(s))
<1>1. ASSUME NEW x \in Item PROVE OpsIn(Append(s, x)) = OpsIn(s) \cup {OpOf(x)}
  <2>1. PICK t : t = Append(s, x) BY Zenon
  <2>2. /\ DOMAIN t = DOMAIN s \cup {Len(s) + 1} /\ t[Len(s) + 1] = x
        /\ \A i \in DOMAIN s : t[i] = s[i]
    BY <2>1
  <2>3. OpsIn(t) = OpsIn(s) \cup {OpOf(x)} BY <2>2, Zenon DEF OpsIn
  <2> QED BY <2>1, <2>3, Zenon
<1>2. ASSUME s # << >> PROVE OpsIn(s) = {OpOf(Head(s))} \cup OpsIn(Tail(s))
  <2>1. PICK x, t : x = Head(s) /\ t = Tail(s) BY Zenon
  <2>2. /\ 1 \in DOMAIN s /\ s[1] = x
        /\ \A i \in DOMAIN t : i + 1 \in DOMAIN s /\ t[i] = s[i + 1]
        /\ \A i \in DOMAIN s : i = 1 \/ (i - 1 \in DOMAIN t /\ t[i - 1] = s[i])
    BY <1>2, <2>1
  <2>3. OpsIn(s) \subseteq {OpOf(x)} \cup OpsIn(t) BY <2>2, Zenon DEF OpsIn
  <2>4. {OpOf(x)} \cup OpsIn(t) \subseteq OpsIn(s) BY <2>2, Zenon DEF OpsIn
  <2> QED BY <2>1, <2>3, <2>4, Zenon
<1> QED BY <1>1, <1>2, Zenon

\* Operations under way are of producers and on connections.
LEMMA WaitingType ==
    ASSUME Base, OrderInv, NEW y \in Waiting
    PROVE  y.n \in Nat /\ y.by \in Producers /\ y.conn \in Conns
<1>1. ASSUME NEW s \in Seq(Item), Known(s, count), y \in OpsIn(s)
      PROVE  y.n \in Nat /\ y.by \in Producers /\ y.conn \in Conns
  <2>1. PICK i \in DOMAIN s : y = OpOf(s[i]) BY <1>1, Zenon DEF OpsIn
  <2>2. s[i] \in Item OBVIOUS
  <2>3. s[i].n \in Nat /\ s[i].conn \in Conns BY <2>2 DEF Item
  <2>4. s[i].by \in Producers BY <1>1, Zenon DEF Known
  <2> QED BY <2>1, <2>3, <2>4, OpFields, Zenon
<1>2. batch \in Seq(Item) /\ queue \in Seq(Item) BY Zenon DEF Base, IInv, Types
<1>3. \A p \in Producers : Todo(p) \in Seq(Item) BY TodoType, Zenon DEF Base, IInv
<1>4. Known(batch, count) /\ Known(queue, count) /\ \A p \in Producers : Known(Todo(p), count)
  BY Zenon DEF OrderInv
<1> QED BY <1>1, <1>2, <1>3, <1>4, Zenon DEF Waiting

\* Steps that begin and replay nothing leave the same operations under way.
LEMMA WaitingStays ==
    ASSUME Base,
           \/ Rests \/ Takes \/ \E a \in Addrs : Accepts(a)
           \/ \E g \in Conns, ops \in Seq(Ops) : Directs(g, ops)
           \/ \E S \in SUBSET Addrs : Closes(S)
           \/ \E p \in Producers, x \in Item : Pushes(p, x)
    PROVE  Waiting' = Waiting
<1>1. batch \in Seq(Item) /\ queue \in Seq(Item) BY Zenon DEF Base, IInv, Types
<1>2. CASE SameTodo /\ UNCHANGED <<queue, batch>> BY <1>2, Zenon DEF SameTodo, Waiting
<1>3. CASE Takes
  <2>1. SameTodo /\ batch = << >> /\ batch' = queue /\ queue' = << >> BY <1>3, Zenon DEF Takes
  <2> QED BY <2>1, Zenon DEF SameTodo, Waiting
<1>4. ASSUME NEW S \in SUBSET Addrs, Closes(S) PROVE Waiting' = Waiting
  <2>1. SameTodo /\ batch' = batch /\ queue' = Scrubbed(S) BY <1>4, Zenon DEF Closes
  <2>2. PICK q : q = Scrubbed(S) BY Zenon
  <2>3. DOMAIN q = DOMAIN queue BY <2>2, Zenon DEF Scrubbed
  <2>4. ASSUME NEW i \in DOMAIN queue PROVE OpOf(q[i]) = OpOf(queue[i])
    <3>1. queue[i] \in Item BY <1>1
    <3>2. q[i] = queue[i] \/ q[i] = [queue[i] EXCEPT !.call = Null] BY <2>2 DEF Scrubbed
    <3>3. CASE q[i] = queue[i] BY <3>3, Zenon
    <3>4. CASE q[i] = [queue[i] EXCEPT !.call = Null]
      <4>1. /\ q[i].conn = queue[i].conn /\ q[i].by = queue[i].by /\ q[i].n = queue[i].n
            /\ q[i].finish = queue[i].finish /\ q[i].status = queue[i].status
        BY <3>1, <3>4 DEF Item
      <4> QED BY <4>1, Zenon DEF OpOf
    <3> QED BY <3>2, <3>3, <3>4, Zenon
  <2>5. OpsIn(q) = OpsIn(queue) BY <2>3, <2>4, Zenon DEF OpsIn
  <2> QED BY <2>1, <2>2, <2>5, Zenon DEF SameTodo, Waiting
<1>5. ASSUME NEW p \in Producers, NEW x \in Item, Pushes(p, x) PROVE Waiting' = Waiting
  <2>1. /\ Todo(p) \in Seq(Item) /\ Todo(p) # << >> /\ OpOf(x) = OpOf(Head(Todo(p)))
        /\ queue' = Append(queue, x) /\ batch' = batch /\ Todo(p)' = Tail(Todo(p))
        /\ \A q \in Producers \ {p} : Todo(q)' = Todo(q)
    BY <1>5, Zenon DEF Pushes
  <2>2. PICK todo, rest : todo = Todo(p) /\ rest = Tail(todo) BY Zenon
  <2>3. OpsIn(queue') = OpsIn(queue) \cup {OpOf(x)} BY <1>1, <2>1, OpsInSeq, Zenon
  <2>4. OpsIn(todo) = {OpOf(x)} \cup OpsIn(rest) BY <2>1, <2>2, OpsInSeq, Zenon
  <2>5. Todo(p)' = rest /\ Todo(p) = todo BY <2>1, <2>2, Zenon
  <2>6. ASSUME NEW y \in Waiting PROVE y \in Waiting'
    <3>1. CASE y \in OpsIn(batch) \cup OpsIn(queue) BY <2>1, <2>3, <3>1, Zenon DEF Waiting
    <3>2. CASE \E q \in Producers : y \in OpsIn(Todo(q))
      <4>1. PICK q \in Producers : y \in OpsIn(Todo(q)) BY <3>2, Zenon
      <4>2. CASE q = p BY <2>3, <2>4, <2>5, <4>1, <4>2, Zenon DEF Waiting
      <4>3. CASE q # p BY <2>1, <4>1, <4>3, Zenon DEF Waiting
      <4> QED BY <4>2, <4>3, Zenon
    <3> QED BY <3>1, <3>2, Zenon DEF Waiting
  <2>7. ASSUME NEW y \in Waiting' PROVE y \in Waiting
    <3>1. CASE y \in OpsIn(batch') \cup OpsIn(queue')
      BY <2>1, <2>3, <2>4, <2>5, <3>1, Zenon DEF Waiting
    <3>2. CASE \E q \in Producers : y \in OpsIn(Todo(q)')
      <4>1. PICK q \in Producers : y \in OpsIn(Todo(q)') BY <3>2, Zenon
      <4>2. CASE q = p BY <2>4, <2>5, <4>1, <4>2, Zenon DEF Waiting
      <4>3. CASE q # p BY <2>1, <4>1, <4>3, Zenon DEF Waiting
      <4> QED BY <4>2, <4>3, Zenon
    <3> QED BY <3>1, <3>2, Zenon DEF Waiting
  <2> QED BY <2>6, <2>7, Zenon
<1> QED BY <1>2, <1>3, <1>4, <1>5, Zenon DEF Rests, Accepts, Directs

\* A thread adds the operations it begins.
LEMMA WaitingBegins ==
    ASSUME Base, NEW p \in Producers, NEW g \in Conns, NEW ops \in Seq(Ops), Begins(p, g, ops)
    PROVE  Waiting' = Waiting \cup OpsIn(Items(p, g, ops, FALSE))
<1>1. /\ queue' = queue /\ batch' = batch /\ Todo(p) = << >>
      /\ Todo(p)' = Items(p, g, ops, FALSE)
      /\ \A q \in Producers \ {p} : Todo(q)' = Todo(q)
  BY Zenon DEF Begins
<1>2. PICK its : its = Items(p, g, ops, FALSE) BY Zenon
<1>3. OpsIn(<< >>) = {} BY DEF OpsIn
<1>4. ASSUME NEW y \in Waiting PROVE y \in Waiting'
  <2>1. CASE y \in OpsIn(batch) \cup OpsIn(queue) BY <1>1, <2>1, Zenon DEF Waiting
  <2>2. CASE \E q \in Producers : y \in OpsIn(Todo(q)) BY <1>1, <1>3, <2>2, Zenon DEF Waiting
  <2> QED BY <2>1, <2>2, Zenon DEF Waiting
<1>5. ASSUME NEW y \in Waiting' PROVE y \in Waiting \cup OpsIn(its)
  <2>1. CASE y \in OpsIn(batch') \cup OpsIn(queue') BY <1>1, <2>1, Zenon DEF Waiting
  <2>2. CASE \E q \in Producers : y \in OpsIn(Todo(q)') BY <1>1, <1>2, <2>2, Zenon DEF Waiting
  <2> QED BY <2>1, <2>2, Zenon DEF Waiting
<1>6. OpsIn(its) \subseteq Waiting' BY <1>1, <1>2, Zenon DEF Waiting
<1> QED BY <1>2, <1>4, <1>5, <1>6, Zenon

\* drain takes away an operation before all those of its thread.
LEMMA WaitingReplays ==
    ASSUME Base, OrderInv, Replays
    PROVE  /\ Waiting = Waiting' \cup {OpOf(Head(batch))}
           /\ \A y \in Waiting' : y.by = Head(batch).by => Head(batch).n < y.n
<1>1. /\ queue' = queue /\ batch # << >> /\ batch' = Tail(batch)
      /\ \A p \in Producers : Todo(p)' = Todo(p)
  BY Zenon DEF Replays, SameTodo
<1>2. PICK x, rest : x = Head(batch) /\ rest = Tail(batch) BY Zenon
<1>3. batch \in Seq(Item) /\ queue \in Seq(Item) BY Zenon DEF Base, IInv, Types
<1>4. \A p \in Producers : Todo(p) \in Seq(Item) BY TodoType, Zenon DEF Base, IInv
<1>5. OpsIn(batch) = {OpOf(x)} \cup OpsIn(rest) BY <1>1, <1>2, <1>3, OpsInSeq, Zenon
<1>6. Waiting = Waiting' \cup {OpOf(x)} BY <1>1, <1>2, <1>5, Zenon DEF Waiting
<1>7. Follows(rest, x) BY <1>1, <1>2, <1>3, OrderTail, Zenon DEF OrderInv
<1>8. \A u \in Seq(Item) : Before(batch, u) => Follows(u, x) BY <1>1, <1>2, <1>3, OrderTail, Zenon
<1>9. Follows(queue, x) /\ \A p \in Producers : Follows(Todo(p), x)
  BY <1>3, <1>4, <1>8, Zenon DEF OrderInv
<1>10. ASSUME NEW s, Follows(s, x), NEW y \in OpsIn(s), y.by = x.by PROVE x.n < y.n
  <2>1. PICK i \in DOMAIN s : y = OpOf(s[i]) BY Zenon DEF OpsIn
  <2>2. y.by = s[i].by /\ y.n = s[i].n BY <2>1, OpFields, Zenon
  <2> QED BY <1>10, <2>2, Zenon DEF Follows
<1>11. \A y \in Waiting' : y.by = x.by => x.n < y.n
  BY <1>1, <1>2, <1>7, <1>9, <1>10, Zenon DEF Waiting
<1> QED BY <1>2, <1>6, <1>11, Zenon

\* What is done to a unary call at once: nothing, a message and OK, or errors.
Terse(ops) ==
    \/ ops = << >>
    \/ Len(ops) = 2 /\ ~ops[1].finish /\ ops[2].finish /\ ops[2].status = "OK"
    \/ Len(ops) \in {1, 2} /\ \A i \in 1..Len(ops) : ops[i].finish /\ ops[i].status # "OK"

\* Such are the operations that complete a call ...
LEMMA TerseCompletion ==
    ASSUME NEW style, Unary(style), NEW kind \in Kinds(style)
    PROVE  Terse(completion_ops(style, kind))
<1>1. kind \in {"Respond", "Garbled", "Fail"} BY DEF Kinds
<1>2. /\ Terse(<< >>) /\ Terse(<<Write, Finish("OK")>>)
      /\ Terse(<<Finish("INTERNAL")>>) /\ Terse(<<Finish("NOT_FOUND")>>)
  BY DEF Terse, Write, Finish, status_from_c
<1> QED BY <1>1, <1>2, Zenon DEF completion_ops, respond, Respond

\* ... and those of a handler.
LEMMA TerseDispatch ==
    ASSUME NEW h \in Handlings, Unary(h.style)
    PROVE  Terse(dispatch_ops(h))
<1>1. h \in Handling /\ ~IsRust(h.style) BY MailboxAssumption
<1>2. h.returns \in {"OK", "NOT_FOUND", "DEFERRED"} /\ h.style \in {"c_unary", "cpp_unary"}
  BY <1>1 DEF Handling, IsRust, Unary
<1>3. /\ Terse(<< >>) /\ Terse(<<Write, Finish("OK")>>)
      /\ Terse(<<Finish("INTERNAL")>>) /\ Terse(<<Finish("NOT_FOUND")>>)
      /\ Terse(<<Finish("INVALID_ARGUMENT")>>)
  BY DEF Terse, Write, Finish, status_from_c
<1>4. PICK r : r = trampoline(h) BY Zenon
<1>5. dispatch_ops(h) = r.ops \o IF r.rc = "OK" THEN << >> ELSE <<Finish(r.rc)>>
  BY <1>4, Zenon DEF dispatch_ops
<1>6. CASE h.style = "c_unary"
  <2>1. r = c_trampoline(h) BY <1>4, <1>6 DEF trampoline, IsRust
  <2>2. CASE ~h.decodes
    <3>1. r = [ops |-> << >>, rc |-> "INVALID_ARGUMENT"] BY <2>1, <2>2 DEF c_trampoline
    <3>2. dispatch_ops(h) = <<Finish("INVALID_ARGUMENT")>> BY <1>5, <3>1
    <3> QED BY <1>3, <3>2, Zenon
  <2>3. CASE h.decodes /\ h.returns = "DEFERRED"
    <3>1. r = [ops |-> << >>, rc |-> "OK"] BY <2>1, <2>3 DEF c_trampoline
    <3>2. dispatch_ops(h) = << >> BY <1>5, <3>1
    <3> QED BY <1>3, <3>2, Zenon
  <2>4. CASE h.decodes /\ h.returns = "NOT_FOUND"
    <3>1. r = [ops |-> << >>, rc |-> "NOT_FOUND"] BY <2>1, <2>4 DEF c_trampoline
    <3>2. dispatch_ops(h) = <<Finish("NOT_FOUND")>> BY <1>5, <3>1
    <3> QED BY <1>3, <3>2, Zenon
  <2>5. CASE h.decodes /\ h.returns = "OK"
    <3>1. r = [ops |-> respond(h.encodes, h.memory),
               rc |-> IF h.encodes /\ h.memory THEN "OK" ELSE "INTERNAL"]
      BY <2>1, <2>5 DEF c_trampoline
    <3>2. CASE h.encodes /\ h.memory
      <4>1. r.ops = <<Write, Finish("OK")>> /\ r.rc = "OK" BY <3>1, <3>2 DEF respond
      <4>2. dispatch_ops(h) = <<Write, Finish("OK")>> BY <1>5, <4>1
      <4> QED BY <1>3, <4>2, Zenon
    <3>3. CASE ~(h.encodes /\ h.memory)
      <4>1. r.ops = << >> /\ r.rc = "INTERNAL" BY <3>1, <3>3 DEF respond
      <4>2. dispatch_ops(h) = <<Finish("INTERNAL")>> BY <1>5, <4>1
      <4> QED BY <1>3, <4>2, Zenon
    <3> QED BY <3>2, <3>3, Zenon
  <2> QED BY <1>2, <2>2, <2>3, <2>4, <2>5
<1>7. CASE h.style = "cpp_unary"
  <2>1. r = cpp_trampoline(h) BY <1>4, <1>7 DEF trampoline, IsRust
  <2>2. CASE ~h.decodes
    <3>1. r = [ops |-> <<Finish("INVALID_ARGUMENT")>>, rc |-> "INVALID_ARGUMENT"]
      BY <2>1, <2>2 DEF cpp_trampoline
    <3>2. PICK f : f = Finish("INVALID_ARGUMENT") BY Zenon
    <3>3. r.ops = <<f>> /\ r.rc = "INVALID_ARGUMENT" BY <3>1, <3>2
    <3>4. dispatch_ops(h) = <<f>> \o <<f>>
      <4>1. r.rc # "OK" BY <3>3
      <4>2. dispatch_ops(h) = r.ops \o <<Finish(r.rc)>> BY <1>5, <4>1, Zenon
      <4> QED BY <3>2, <3>3, <4>2, Zenon
    <3>5. f \in Ops /\ f.finish /\ f.status # "OK" BY <3>2 DEF Finish, status_from_c, Ops, Codes
    <3>6. PICK s, q : s = <<f>> /\ q = s \o s BY Zenon
    <3>7. s \in Seq(Ops) /\ Len(s) = 1 /\ s[1] = f BY <3>5, <3>6
    <3>8. Len(q) = 2 /\ q[1] = f /\ q[2] = f BY <3>6, <3>7
    <3>9. Terse(q) BY <3>5, <3>8 DEF Terse
    <3> QED BY <3>4, <3>6, <3>9, Zenon
  <2>3. CASE h.decodes
    <3>1. r = [ops |-> deferred_overload(h), rc |-> "OK"] BY <2>1, <2>3 DEF cpp_trampoline
    <3>2. deferred_overload(h) \in
              {<< >>, <<Finish("NOT_FOUND")>>, <<Finish("INTERNAL")>>, <<Write, Finish("OK")>>}
      BY <1>2 DEF deferred_overload, Respond
    <3>3. PICK ops : ops = deferred_overload(h) BY Zenon
    <3>4. ops \o << >> = ops BY <3>2, <3>3
    <3>5. dispatch_ops(h) = ops BY <1>5, <3>1, <3>3, <3>4
    <3> QED BY <1>3, <3>2, <3>3, <3>5, Zenon
  <2> QED BY <2>2, <2>3, Zenon
<1> QED BY <1>2, <1>6, <1>7, Zenon

\* Answers on no, one or two items.
LEMMA AnswersFew ==
    ASSUME NEW taken, NEW its \in Seq(Item)
    PROVE  /\ Len(its) = 0 => Answers(taken, its) = taken
           /\ Len(its) = 1 => Answers(taken, its) = Answer(taken, its[1])
           /\ Len(its) = 2 => Answers(taken, its) = Answer(Answer(taken, its[1]), its[2])
<1> DEFINE F == CHOOSE f : f = [k \in 0..Len(its) |->
                                  IF k = 0 THEN taken ELSE Answer(f[k - 1], its[k])]
<1>1. Answers(taken, its) = F[Len(its)] BY SMTT(30) DEF Answers
<1>2. Len(its) \in Nat OBVIOUS
<1>3. F = [k \in 0..Len(its) |-> IF k = 0 THEN taken ELSE Answer(F[k - 1], its[k])]
  <2>1. \E f : TakesUpTo(f, taken, its, Len(its)) BY <1>2, TakesExist, Zenon
  <2>2. \E f : f = [k \in 0..Len(its) |-> IF k = 0 THEN taken ELSE Answer(f[k - 1], its[k])]
    BY <2>1, Zenon DEF TakesUpTo
  <2> QED BY <2>2, Zenon
<1> HIDE DEF F
<1>4. F[0] = taken BY <1>2, <1>3
<1>5. Len(its) \in {1, 2} => F[1] = Answer(F[0], its[1]) BY <1>2, <1>3
<1>6. Len(its) = 2 => F[2] = Answer(F[1], its[2]) BY <1>2, <1>3
<1> QED BY <1>1, <1>4, <1>5, <1>6, Zenon

\* A unary call that has taken nothing takes a message with OK or an error; one that is
\* finished takes nothing.
Settles(its) ==
    /\ Answers(<< >>, its) = << >>
       \/ (Shape(Answers(<< >>, its)) /\ ~Message(Answers(<< >>, its)))
    /\ \A s : Ended(s) => Answers(s, its) = s

\* That is what the items of few operations do.
LEMMA TerseTakes ==
    ASSUME NEW t, NEW g, NEW ops \in Seq(Ops), NEW e, Terse(ops),
           NEW its \in Seq(Item), Made(its, t, g, ops, e)
    PROVE  Settles(its)
<1>1. Len(its) = Len(ops) /\ Len(ops) \in Nat BY DEF Made
<1>2. Len(ops) \in {0, 1, 2} BY DEF Terse
<1>3. \A i \in 1..Len(ops) : its[i].finish = ops[i].finish /\ its[i].status = ops[i].status
  BY DEF Made
<1>4. \A s, x : Ended(s) => Answer(s, x) = s BY Zenon DEF Answer, Ended
<1>5. \A x : Answer(<< >>, x) = <<x>>
  <2>1. ~Ended(<< >>) BY DEF Ended
  <2>2. \A x : Answer(<< >>, x) = Append(<< >>, x) BY <2>1, Zenon DEF Answer, Ended
  <2> QED BY <2>2
<1>6. ASSUME NEW s, Ended(s) PROVE Answers(s, its) = s
  <2>1. CASE Len(its) = 0 BY <2>1, AnswersFew, Zenon
  <2>2. CASE Len(its) = 1 BY <1>4, <1>6, <2>2, AnswersFew, Zenon
  <2>3. CASE Len(its) = 2
    <3>1. Answers(s, its) = Answer(Answer(s, its[1]), its[2]) BY <2>3, AnswersFew, Zenon
    <3>2. Answer(s, its[1]) = s /\ Answer(s, its[2]) = s BY <1>4, <1>6, Zenon
    <3> QED BY <3>1, <3>2, Zenon
  <2> QED BY <1>1, <1>2, <2>1, <2>2, <2>3
<1>7. PICK r : r = Answers(<< >>, its) BY Zenon
<1>8. CASE ops = << >>
  <2>1. Len(its) = 0 BY <1>1, <1>8
  <2> QED BY <2>1, <1>6, AnswersFew, Zenon DEF Settles
<1>9. CASE Len(ops) = 2 /\ ~ops[1].finish /\ ops[2].finish /\ ops[2].status = "OK"
  <2>1. PICK a, b : a = its[1] /\ b = its[2] BY Zenon
  <2>2. ~a.finish /\ b.finish /\ b.status = "OK" BY <1>3, <1>9, <2>1
  <2>3. Len(its) = 2 BY <1>1, <1>9
  <2>4. r = Answer(<<a>>, b)
    <3>1. r = Answer(Answer(<< >>, a), b) BY <1>7, <2>1, <2>3, AnswersFew, Zenon
    <3>2. Answer(<< >>, a) = <<a>> BY <1>5, Zenon
    <3> QED BY <3>1, <3>2, Zenon
  <2>5. ~Ended(<<a>>) BY <2>2 DEF Ended
  <2>6. Answer(<<a>>, b) = Append(<<a>>, b) BY <2>5, Zenon DEF Answer, Ended
  <2>7. r = <<a, b>> BY <2>4, <2>6
  <2>8. Shape(r) /\ ~Message(r) BY <2>2, <2>7 DEF Shape, Message
  <2> QED BY <1>6, <1>7, <2>8, Zenon DEF Settles
<1>10. CASE Len(ops) \in {1, 2} /\ \A i \in 1..Len(ops) : ops[i].finish /\ ops[i].status # "OK"
  <2>1. PICK a : a = its[1] BY Zenon
  <2>0. 1 \in 1..Len(ops)
    <3>1. \A n \in {1, 2} : 1 \in 1..n OBVIOUS
    <3> QED BY <1>10, <3>1, Zenon
  <2>2. a.finish /\ a.status # "OK"
    <3>1. ops[1].finish /\ ops[1].status # "OK" BY <1>10, <2>0, Zenon
    <3>2. a.finish = ops[1].finish /\ a.status = ops[1].status BY <1>3, <2>0, <2>1, Zenon
    <3> QED BY <3>1, <3>2
  <2>3. Ended(<<a>>) BY <2>2 DEF Ended
  <2>5. r = <<a>>
    <3>1. CASE Len(its) = 1 BY <1>5, <1>7, <2>1, <3>1, AnswersFew, Zenon
    <3>2. CASE Len(its) = 2
      <4>1. r = Answer(Answer(<< >>, a), its[2]) BY <1>7, <2>1, <3>2, AnswersFew, Zenon
      <4>2. Answer(<< >>, a) = <<a>> /\ Answer(<<a>>, its[2]) = <<a>> BY <1>4, <1>5, <2>3, Zenon
      <4> QED BY <4>1, <4>2, Zenon
    <3> QED BY <1>1, <1>10, <3>1, <3>2
  <2>6. Shape(r) /\ ~Message(r) BY <2>2, <2>5 DEF Shape, Message
  <2> QED BY <1>6, <1>7, <2>6, Zenon DEF Settles
<1> QED BY <1>8, <1>9, <1>10, Zenon DEF Terse

\* What no step but those of a call's own does to it: connections that close are no more
\* of interest, and one that opens has a call that nothing was done to.
LEMMA UnaryStays ==
    ASSUME Base, OrderInv, UnaryInv, UNCHANGED <<call, answer>>, Waiting' = Waiting,
           accepted' \in Nat, accepted <= accepted',
           \A g \in Conns : Open(g)' => Open(g) \/ call[g].at = "new"
    PROVE  (Owned /\ Preceded /\ Shaped /\ Unseen)'
<1>1. \A g : (Own(g)' <=> Own(g)) /\ (IsUnary(g)' <=> IsUnary(g)) BY Zenon DEF Own, IsUnary
<1>2. Owned /\ Preceded /\ Shaped /\ Unseen BY Zenon DEF UnaryInv
<1>3. Owned' BY <1>1, <1>2, Zenon DEF Owned
<1>4. Preceded'
  <2> SUFFICES ASSUME NEW y \in Waiting, IsUnary(y.conn), y.finish /\ y.status = "OK"
               PROVE  \/ \E x \in Waiting : Pair(x, y)
                      \/ ~Open(y.conn)' \/ ~Own(y.conn) \/ answer[y.conn] # << >>
    BY <1>1, Zenon DEF Preceded
  <2>1. y.conn \in Conns BY WaitingType, Zenon
  <2>2. call[y.conn].at = "open" BY <1>2, Zenon DEF Owned
  <2>3. call[y.conn].at # "new" BY <2>2
  <2>4. Open(y.conn)' => Open(y.conn) BY <2>1, <2>3, Zenon
  <2> QED BY <1>2, <2>4, Zenon DEF Preceded
<1>5. Shaped'
  <2> SUFFICES ASSUME NEW g \in Conns, IsUnary(g), Own(g)
               PROVE  /\ Shape(answer[g])
                      /\ (Open(g)' /\ Message(answer[g])) => \E y \in Waiting : Pair(answer[g][1], y)
    BY <1>1, Zenon DEF Shaped
  <2>1. ASSUME Message(answer[g]) PROVE call[g].at # "new"
    <3>1. answer[g] \in Seq(Item) BY DEF Base
    <3>2. 1 \in DOMAIN answer[g] BY <2>1, <3>1 DEF Message
    <3> QED BY <1>2, <3>2, Zenon DEF Unseen, Own
  <2> QED BY <1>2, <2>1, Zenon DEF Shaped
<1>6. Unseen'
  <2>1. \A g \in Conns : g > accepted' => g > accepted BY DEF Base, IInv, Types, Conns
  <2> QED BY <1>2, <2>1, Zenon DEF Unseen
<1> QED BY <1>3, <1>4, <1>5, <1>6, Zenon

\* A thread leaves a finish behind each message for a unary call.
LEMMA UnaryBegins ==
    ASSUME Base, OrderInv, UnaryInv, NEW p \in Producers, NEW g \in Conns, NEW ops \in Seq(Ops),
           Begins(p, g, ops)
    PROVE  (Owned /\ Preceded /\ Shaped /\ Unseen)'
<1>1. /\ UNCHANGED <<conns, addr, accepted, call, answer>> /\ MayUse(p, g)
      /\ \E kind \in Kinds(call[g].style) : ops = completion_ops(call[g].style, kind)
  BY Zenon DEF Begins
<1>2. \A f : (Own(f)' <=> Own(f)) /\ (IsUnary(f)' <=> IsUnary(f)) /\ (Open(f)' <=> Open(f))
  BY <1>1, Zenon DEF Own, IsUnary, Open
<1>3. Owned /\ Preceded /\ Shaped /\ Unseen BY Zenon DEF UnaryInv
<1>4. PICK its : its = Items(p, g, ops, FALSE) BY Zenon
<1>5. Types /\ p \in Threads BY Zenon DEF Base, IInv, Threads
<1>6. its \in Seq(Item) BY <1>4, <1>5, ItemsOf, Zenon
<1>7. Made(its, p, g, ops, FALSE) BY <1>4, ItemsMade, Zenon
<1>8. Waiting' = Waiting \cup OpsIn(its) BY <1>4, WaitingBegins, Zenon
<1>9. IsUnary(g) => Terse(ops) BY <1>1, TerseCompletion, Zenon DEF IsUnary
<1>10. ASSUME NEW x \in OpsIn(its)
       PROVE  /\ x.conn = g /\ x.by = p
              /\ (IsUnary(g) /\ ~x.finish) => \E y \in OpsIn(its) : Pair(x, y)
              /\ (IsUnary(g) /\ x.finish /\ x.status = "OK") => \E y \in OpsIn(its) : Pair(y, x)
  <2>1. PICK i \in DOMAIN its : x = OpOf(its[i]) BY Zenon DEF OpsIn
  <2>2. /\ its[i].conn = g /\ its[i].by = p /\ its[i].n = count[p] + i
        /\ its[i].finish = ops[i].finish /\ its[i].status = ops[i].status
    BY <1>7, Zenon DEF Made
  <2>3. x.conn = g /\ x.by = p BY <2>1, <2>2, OpFields, Zenon
  <2>4. ASSUME IsUnary(g), ~x.finish \/ x.status = "OK"
        PROVE  /\ DOMAIN its = {1, 2} /\ Pair(OpOf(its[1]), OpOf(its[2]))
               /\ ~x.finish => i = 1
               /\ x.finish => i = 2
    <3>1. DOMAIN its = 1..Len(ops) /\ Len(ops) \in Nat /\ count[p] \in Nat
      BY <1>5, <1>7 DEF Made, Types
    <3>2. x.finish = ops[i].finish /\ x.status = ops[i].status BY <2>1, <2>2, OpFields, Zenon
    <3>3. Len(ops) = 2 /\ ~ops[1].finish /\ ops[2].finish /\ ops[2].status = "OK"
      <4>1. ops # << >> BY <3>1
      <4>2. ASSUME \A j \in 1..Len(ops) : ops[j].finish /\ ops[j].status # "OK" PROVE FALSE
        <5>1. ops[i].finish /\ ops[i].status # "OK" BY <3>1, <4>2, Zenon
        <5> QED BY <2>4, <3>2, <5>1, Zenon
      <4> QED BY <1>9, <2>4, <4>1, <4>2, Zenon DEF Terse
    <3>4. DOMAIN its = {1, 2} BY <3>1, <3>3
    <3>5. /\ its[1].conn = g /\ its[1].by = p /\ its[1].n = count[p] + 1 /\ its[1].finish = ops[1].finish
          /\ its[2].conn = g /\ its[2].by = p /\ its[2].n = count[p] + 2 /\ its[2].finish = ops[2].finish
          /\ its[2].status = ops[2].status
      BY <1>7, <3>4 DEF Made
    <3>6. /\ OpOf(its[1]).conn = its[1].conn /\ OpOf(its[1]).by = its[1].by
          /\ OpOf(its[1]).n = its[1].n /\ OpOf(its[1]).finish = its[1].finish
          /\ OpOf(its[2]).conn = its[2].conn /\ OpOf(its[2]).by = its[2].by
          /\ OpOf(its[2]).n = its[2].n /\ OpOf(its[2]).finish = its[2].finish
          /\ OpOf(its[2]).status = its[2].status
      BY OpFields, Zenon
    <3>7. Pair(OpOf(its[1]), OpOf(its[2])) BY <3>1, <3>3, <3>5, <3>6 DEF Pair
    <3>8. i = 1 \/ i = 2 BY <3>4
    <3>9. (~x.finish => i = 1) /\ (x.finish => i = 2) BY <3>2, <3>3, <3>8, Zenon
    <3> QED BY <3>4, <3>7, <3>9, Zenon
  <2>5. ASSUME IsUnary(g), ~x.finish PROVE \E y \in OpsIn(its) : Pair(x, y)
    <3>1. i = 1 /\ 2 \in DOMAIN its /\ Pair(OpOf(its[1]), OpOf(its[2])) BY <2>4, <2>5
    <3> QED BY <2>1, <3>1, Zenon DEF OpsIn
  <2>6. ASSUME IsUnary(g), x.finish, x.status = "OK" PROVE \E y \in OpsIn(its) : Pair(y, x)
    <3>1. i = 2 /\ 1 \in DOMAIN its /\ Pair(OpOf(its[1]), OpOf(its[2])) BY <2>4, <2>6
    <3> QED BY <2>1, <3>1, Zenon DEF OpsIn
  <2> QED BY <2>3, <2>5, <2>6, Zenon
<1>11. Owned'
  <2> SUFFICES ASSUME NEW x \in Waiting'
               PROVE  /\ call[x.conn].at = "open" /\ (IsUnary(x.conn) => call[x.conn].by = x.by)
                      /\ (IsUnary(x.conn) /\ ~x.finish) => \E y \in Waiting' : Pair(x, y)
    BY <1>1, <1>2, Zenon DEF Owned
  <2>1. CASE x \in Waiting BY <1>3, <1>8, <2>1, Zenon DEF Owned
  <2>2. CASE x \in OpsIn(its) BY <1>1, <1>8, <1>10, <2>2, Zenon DEF MayUse, IsUnary
  <2> QED BY <1>8, <2>1, <2>2, Zenon
<1>12. Preceded'
  <2> SUFFICES ASSUME NEW y \in Waiting', IsUnary(y.conn), y.finish /\ y.status = "OK"
               PROVE  \/ \E x \in Waiting' : Pair(x, y)
                      \/ ~Open(y.conn) \/ ~Own(y.conn) \/ answer[y.conn] # << >>
    BY <1>1, <1>2, Zenon DEF Preceded
  <2>1. CASE y \in Waiting BY <1>3, <1>8, <2>1, Zenon DEF Preceded
  <2>2. CASE y \in OpsIn(its) BY <1>8, <1>10, <2>2, Zenon
  <2> QED BY <1>8, <2>1, <2>2, Zenon
<1>13. Shaped' BY <1>1, <1>2, <1>3, <1>8, Zenon DEF Shaped
<1>14. Unseen' BY <1>1, <1>3, Zenon DEF Unseen
<1> QED BY <1>11, <1>12, <1>13, <1>14, Zenon

\* The members of s are where they are in r.
Keeps(r, s) == \A i \in DOMAIN s : i \in DOMAIN r /\ r[i] = s[i]

\* What a call had taken stays.
LEMMA PrefixKeeps ==
    ASSUME NEW taken \in Seq(Item), NEW its \in Seq(Item), NEW r, Prefix(taken, its, r)
    PROVE  Keeps(r, taken)
<1>1. PICK n \in 0..Len(its) : r = taken \o SubSeq(its, 1, n) BY Zenon DEF Prefix
<1> QED BY <1>1 DEF Keeps

\* On the I/O thread a message and its finish are taken at once.
LEMMA UnaryDirect ==
    ASSUME Base, HomeInv, OrderInv, UnaryInv, NEW g \in Conns, NEW ops \in Seq(Ops),
           Directs(g, ops), Completes(g, ops) \/ Handles(g, ops)
    PROVE  (Owned /\ Preceded /\ Shaped /\ Unseen)'
<1>1. UNCHANGED <<conns, addr, accepted>> /\ Open(g) BY Zenon DEF Directs
<1>2. Waiting' = Waiting BY WaitingStays, Zenon
<1>3. Owned /\ Preceded /\ Shaped /\ Unseen BY Zenon DEF UnaryInv
<1>4. PICK its : its = Items(IO, g, ops, TRUE) BY Zenon
<1>5. /\ its \in Seq(Item) /\ Prefix(answer[g], its, answer'[g])
      /\ \A f \in Conns \ {g} : answer'[f] = answer[f]
  BY <1>4, DirectTakes, Zenon
<1>6. Made(its, IO, g, ops, TRUE) BY <1>4, ItemsMade, Zenon
<1>7. answer[g] \in Seq(Item) /\ answer'[g] = Answers(answer[g], its)
  BY <1>4 DEF Base, Directs
<1>8. /\ call' = [f \in Conns |-> call'[f]]
      /\ \A f \in Conns \ {g} : call'[f] = call[f]
      /\ call'[g].at # "new"
  <2>1. CASE Completes(g, ops)
    <3>1. call' = call /\ call[g].at = "open" BY <2>1, Zenon DEF Completes, MayUse
    <3> QED BY <1>3, <3>1 DEF Unseen
  <2>2. CASE Handles(g, ops)
    <3>1. PICK h \in Handlings, t \in Threads :
              call' = [call EXCEPT ![g] =
                         [at |-> IF IsDone(h) THEN "done" ELSE "open", style |-> h.style,
                          by |-> IF IsDone(h) \/ ~Unary(h.style) THEN None ELSE t]]
      BY <2>2, Zenon DEF Handles
    <3>2. PICK at : at = IF IsDone(h) THEN "done" ELSE "open" BY Zenon
    <3>3. at # "new" BY <3>2
    <3>4. PICK v : v = [at |-> at, style |-> h.style,
                        by |-> IF IsDone(h) \/ ~Unary(h.style) THEN None ELSE t]
      BY Zenon
    <3>5. v.at # "new" BY <3>3, <3>4
    <3>6. call' = [call EXCEPT ![g] = v] BY <3>1, <3>2, <3>4, Zenon
    <3> QED BY <1>3, <3>5, <3>6 DEF Unseen
  <2> QED BY <2>1, <2>2, Zenon
<1>9. \A f \in Conns \ {g} : (Own(f)' <=> Own(f)) /\ (IsUnary(f)' <=> IsUnary(f))
  BY <1>5, <1>8, Zenon DEF Own, IsUnary
<1>10. \A f : Open(f)' <=> Open(f) BY <1>1, Zenon DEF Open
<1>11. IsUnary(g)' => Terse(ops)
  <2>1. CASE Completes(g, ops) BY <2>1, TerseCompletion, Zenon DEF Completes, IsUnary
  <2>2. CASE Handles(g, ops)
    <3>1. PICK h \in Handlings : ops = dispatch_ops(h) /\ call'[g].style = h.style
      BY <1>3, <2>2 DEF Handles, Unseen
    <3> QED BY <3>1, TerseDispatch, Zenon DEF IsUnary
  <2> QED BY <2>1, <2>2, Zenon
<1>12. ASSUME NEW x \in Waiting
       PROVE  /\ call'[x.conn].at = "open" /\ (IsUnary(x.conn)' => IsUnary(x.conn))
              /\ IsUnary(x.conn)' => call'[x.conn].by = x.by /\ x.conn # g
  <2>1. x.conn \in Conns /\ x.by \in Producers BY WaitingType, Zenon
  <2>2. call[x.conn].at = "open" /\ (IsUnary(x.conn) => call[x.conn].by = x.by)
    BY <1>3, Zenon DEF Owned
  <2>3. CASE Completes(g, ops)
    <3>1. call' = call /\ MayUse(IO, g) BY <2>3, Zenon DEF Completes
    <3>2. IsUnary(x.conn)' <=> IsUnary(x.conn) BY <3>1, Zenon DEF IsUnary
    <3>3. IO # x.by BY <2>1, MailboxAssumption, Zenon
    <3> QED BY <2>2, <3>1, <3>2, <3>3, Zenon DEF MayUse, IsUnary
  <2>4. CASE Handles(g, ops)
    <3>1. call[g].at = "new" BY <2>4, Zenon DEF Handles
    <3>2. x.conn # g BY <2>2, <3>1
    <3> QED BY <1>8, <1>9, <2>1, <2>2, <3>2, Zenon
  <2> QED BY <2>3, <2>4, Zenon
<1>13. Own(g)' => Own(g)
  <2>1. PICK taken, r : taken = answer[g] /\ r = answer'[g] BY Zenon
  <2>2. Keeps(r, taken) BY <1>5, <1>7, <2>1, PrefixKeeps, Zenon
  <2>3. (\A k \in DOMAIN r : r[k].conn = g) => \A k \in DOMAIN taken : taken[k].conn = g
    BY <2>2 DEF Keeps
  <2> QED BY <2>1, <2>3, Zenon DEF Own
<1>14. ASSUME IsUnary(g)', Own(g)' PROVE Shape(answer'[g]) /\ ~Message(answer'[g])
  <2>0. Settles(its)
    <3>1. its \in Seq(Item) /\ Terse(ops) BY <1>5, <1>11, <1>14, Zenon
    <3> QED BY <1>6, <3>1, TerseTakes, Zenon
  <2>1. PICK taken, r : taken = answer[g] /\ r = answer'[g] BY Zenon
  <2>2. r = Answers(taken, its) BY <1>7, <2>1, Zenon
  <2>3. Own(g) BY <1>13, <1>14, Zenon
  <2>4. CASE taken = << >>
    <3>1. Shape(<< >>) /\ ~Message(<< >>) BY DEF Shape, Message
    <3>2. Answers(<< >>, its) = << >>
             \/ (Shape(Answers(<< >>, its)) /\ ~Message(Answers(<< >>, its)))
      BY <2>0, Zenon DEF Settles
    <3>3. r = Answers(<< >>, its) BY <2>2, <2>4, Zenon
    <3>4. Shape(r) /\ ~Message(r) BY <3>1, <3>2, <3>3, Zenon
    <3> QED BY <2>1, <3>4, Zenon
  <2>5. ASSUME Ended(taken), Shape(taken) PROVE Shape(r) /\ ~Message(r)
    <3>1. r = taken
      <4>1. \A s : Ended(s) => Answers(s, its) = s BY <2>0, Zenon DEF Settles
      <4>2. Answers(taken, its) = taken BY <2>5, <4>1, Zenon
      <4> QED BY <2>2, <4>2, Zenon
    <3>2. taken \in Seq(Item) BY <1>7, <2>1, Zenon
    <3>3. ~Message(taken) BY <2>5, <3>2 DEF Message, Ended
    <3> QED BY <2>5, <3>1, <3>3, Zenon
  <2>6. CASE Completes(g, ops)
    <3>1. IsUnary(g) BY <1>14, <2>6, Zenon DEF Completes, IsUnary
    <3>2. Shape(taken) BY <1>3, <2>1, <2>3, <3>1, Zenon DEF Shaped
    <3>3. ~Message(taken)
      <4>1. ASSUME Message(taken) PROVE FALSE
        <5>1. PICK y \in Waiting : Pair(answer[g][1], y)
          BY <1>1, <1>3, <2>1, <2>3, <3>1, <4>1, Zenon DEF Shaped
        <5>2. 1 \in DOMAIN answer[g] BY <1>7, <2>1, <4>1 DEF Message
        <5>3. y.conn = g BY <2>3, <5>1, <5>2, Zenon DEF Own, Pair
        <5> QED BY <1>12, <1>14, <5>3, Zenon
      <4> QED BY <4>1, Zenon
    <3>4. taken = << >> \/ Ended(taken)
      <4>1. taken \in Seq(Item) BY <1>7, <2>1, Zenon
      <4> QED BY <3>2, <3>3, <4>1 DEF Shape, Ended
    <3> QED BY <2>1, <2>4, <2>5, <3>2, <3>4, Zenon
  <2>7. CASE Handles(g, ops)
    <3>1. call[g].at = "new" BY <2>7, Zenon DEF Handles
    <3>2. \A k \in DOMAIN taken : FALSE BY <1>3, <2>1, <2>3, <3>1, Zenon DEF Unseen, Own
    <3>3. taken = << >>
      <4>1. taken \in Seq(Item) BY <1>7, <2>1, Zenon
      <4>2. taken # << >> => 1 \in DOMAIN taken BY <4>1
      <4> QED BY <3>2, <4>2, Zenon
    <3> QED BY <2>4, <3>3, Zenon
  <2> QED BY <2>6, <2>7, Zenon
<1>15. Owned'
  <2> SUFFICES ASSUME NEW x \in Waiting
               PROVE  /\ call'[x.conn].at = "open" /\ (IsUnary(x.conn)' => call'[x.conn].by = x.by)
                      /\ (IsUnary(x.conn)' /\ ~x.finish) => \E y \in Waiting : Pair(x, y)
    BY <1>2, Zenon DEF Owned
  <2> QED BY <1>3, <1>12, Zenon DEF Owned
<1>16. Preceded'
  <2> SUFFICES ASSUME NEW y \in Waiting, IsUnary(y.conn)', y.finish /\ y.status = "OK"
               PROVE  \/ \E x \in Waiting : Pair(x, y)
                      \/ ~Open(y.conn) \/ ~Own(y.conn)' \/ answer'[y.conn] # << >>
    BY <1>2, <1>10, Zenon DEF Preceded
  <2>1. y.conn \in Conns \ {g} /\ IsUnary(y.conn) BY <1>12, WaitingType, Zenon
  <2> QED BY <1>3, <1>5, <1>9, <2>1, Zenon DEF Preceded
<1>17. Shaped'
  <2> SUFFICES ASSUME NEW f \in Conns, IsUnary(f)', Own(f)'
               PROVE  /\ Shape(answer'[f])
                      /\ (Open(f) /\ Message(answer'[f])) => \E y \in Waiting : Pair(answer'[f][1], y)
    BY <1>2, <1>10, Zenon DEF Shaped
  <2>1. CASE f = g BY <1>14, <2>1, Zenon
  <2>2. CASE f # g BY <1>3, <1>5, <1>9, <2>2, Zenon DEF Shaped
  <2> QED BY <2>1, <2>2, Zenon
<1>18. Unseen'
  <2>1. ~(g > accepted) BY <1>1, Zenon DEF HomeInv, Open
  <2>2. ASSUME NEW f \in Conns
        PROVE  /\ f > accepted' => call'[f].at = "new"
               /\ call'[f].at = "new" => \A k \in DOMAIN answer'[f] : answer'[f][k].conn # f
    <3>1. CASE f = g BY <1>1, <1>8, <2>1, <3>1, Zenon
    <3>2. CASE f # g
      <4>1. accepted' = accepted /\ call'[f] = call[f] /\ answer'[f] = answer[f]
        BY <1>1, <1>5, <1>8, <3>2, Zenon
      <4> QED BY <1>3, <4>1, Zenon DEF Unseen
    <3> QED BY <3>1, <3>2, Zenon
  <2> QED BY <1>8, <2>2, Zenon DEF Unseen
<1> QED BY <1>15, <1>16, <1>17, <1>18, Zenon

\* One item more.
LEMMA OneMore ==
    ASSUME NEW s \in Seq(Item), NEW x \in Item
    PROVE  /\ Append(s, x) # << >> /\ Append(s, x) # s
           /\ Len(s) = 1 => /\ Len(Append(s, x)) = 2
                            /\ Append(s, x)[1] = s[1] /\ Append(s, x)[2] = x
<1>1. PICK r : r = Append(s, x) BY Zenon
<1>2. Len(r) = Len(s) + 1 /\ Len(s) \in Nat /\ r[Len(s) + 1] = x BY <1>1, SMTT(30)
<1>3. Len(<< >>) = 0 OBVIOUS
<1>4. r # << >> /\ r # s
  <2>1. Len(r) # 0 /\ Len(r) # Len(s) BY <1>2
  <2> QED BY <1>3, <2>1, Zenon
<1>5. ASSUME Len(s) = 1 PROVE Len(r) = 2 /\ r[1] = s[1] /\ r[2] = x
  <2>1. Len(r) = 2 /\ r[2] = x BY <1>2, <1>5
  <2>2. r[1] = s[1] BY <1>1, <1>5, SMTT(30)
  <2> QED BY <2>1, <2>2, Zenon
<1> QED BY <1>1, <1>4, <1>5, Zenon

\* What drain does to the call of an item: it reaches the connection it was meant for
\* if that is open, and nothing but an open one.
LEMMA ReplayReaches ==
    ASSUME Base, UnaryInv, Replays
    PROVE  /\ Open(Head(batch).conn) =>
                /\ answer'[Head(batch).conn] # << >>
                /\ Ended(answer[Head(batch).conn])
                     \/ answer'[Head(batch).conn] = Append(answer[Head(batch).conn], Head(batch))
           /\ \A g \in Conns : conns[Head(batch).call] = g /\ Head(batch).call # Null => Open(g)
<1>1. Types /\ answer \in [Conns -> Seq(Item)] /\ Lively /\ Addressed(batch, conns, addr)
  BY Zenon DEF Base, IInv, UnaryInv
<1>2. batch \in Seq(Item) /\ batch # << >> BY <1>1, Zenon DEF Types, Replays
<1>3. PICK x : x = Head(batch) BY Zenon
<1>4. x \in Item /\ 1 \in DOMAIN batch /\ x = batch[1] BY <1>2, <1>3
<1>5. x.call \in Addrs \cup {Null} /\ x.conn \in Conns BY <1>4 DEF Item
<1>6. 0 \notin Conns BY MailboxAssumption DEF Conns
<1>7. ASSUME NEW g \in Conns, conns[x.call] = g, x.call # Null PROVE Open(g)
  <2>1. x.call \in Addrs /\ conns[x.call] # 0 BY <1>5, <1>6, <1>7, Zenon
  <2>2. addr[g] = x.call BY <1>1, <1>7, <2>1, Zenon DEF Lively
  <2> QED BY <1>7, <2>2, Zenon DEF Open
<1>8. ASSUME Open(x.conn)
      PROVE  /\ answer'[x.conn] # << >>
             /\ Ended(answer[x.conn]) \/ answer'[x.conn] = Append(answer[x.conn], x)
  <2>1. x.call = addr[x.conn] BY <1>1, <1>4, <1>8, Zenon DEF Addressed, Open
  <2>2. x.call # Null /\ conns[x.call] = x.conn BY <1>8, <2>1, Zenon DEF Open
  <2>3. x.call \in Addrs /\ conns[x.call] # 0 BY <1>5, <1>6, <2>2, Zenon
  <2>4. x.call \notin dead BY <1>1, <2>3, Zenon DEF Lively
  <2>5. ~Skips(x) BY <2>2, <2>4, Zenon DEF Skips
  <2>6. PICK g : g = x.conn BY Zenon
  <2>7. g \in Conns /\ answer' = [answer EXCEPT ![g] = Answer(@, x)]
    BY <1>3, <1>5, <2>2, <2>5, <2>6, Zenon DEF Replays
  <2>8. PICK s, r : s = answer[g] /\ r = Answer(s, x) BY Zenon
  <2>9. answer'[g] = r /\ s \in Seq(Item) BY <1>1, <2>7, <2>8
  <2>10. Ended(s) => s # << >> /\ r = s
    <3>1. Ended(s) => s # << >> BY DEF Ended
    <3> QED BY <2>8, <3>1, Zenon DEF Answer, Ended
  <2>11. ~Ended(s) => r = Append(s, x) BY <2>8, Zenon DEF Answer, Ended
  <2>12. Append(s, x) # << >> BY <1>4, <2>9, OneMore, Zenon
  <2> QED BY <2>6, <2>8, <2>9, <2>10, <2>11, <2>12, Zenon
<1> QED BY <1>3, <1>7, <1>8, Zenon

\* drain replays a message before its finish.
LEMMA UnaryReplays ==
    ASSUME Base, OrderInv, UnaryInv, Replays
    PROVE  (Owned /\ Preceded /\ Shaped /\ Unseen)'
<1>1. UNCHANGED <<conns, addr, accepted, call>> BY Zenon DEF Replays
<1>2. Owned /\ Preceded /\ Shaped /\ Unseen BY Zenon DEF UnaryInv
<1>3. PICK x, w : x = Head(batch) /\ w = OpOf(x) BY Zenon
<1>4. /\ x \in Item /\ answer' \in [Conns -> Seq(Item)]
      /\ \A g \in Conns :
           \/ answer'[g] = answer[g]
           \/ /\ answer'[g] = Append(answer[g], x) /\ ~Ended(answer[g])
              /\ x.call # Null /\ conns[x.call] = g
  BY <1>3, ReplayTakes, Zenon
<1>5. Waiting = Waiting' \cup {w} /\ \A y \in Waiting' : y.by = w.by => w.n < y.n
  BY <1>3, WaitingReplays, OpFields, Zenon
<1>6. /\ w.conn = x.conn /\ w.by = x.by /\ w.n = x.n /\ w.finish = x.finish /\ w.status = x.status
      /\ w \in Waiting
  BY <1>3, <1>5, OpFields, Zenon
<1>7. w.n \in Nat /\ w.conn \in Conns /\ \A y \in Waiting : y.n \in Nat BY <1>6, WaitingType, Zenon
<1>8. /\ Open(x.conn) => /\ answer'[x.conn] # << >>
                         /\ Ended(answer[x.conn]) \/ answer'[x.conn] = Append(answer[x.conn], x)
      /\ \A g \in Conns : conns[x.call] = g /\ x.call # Null => Open(g)
  BY <1>3, ReplayReaches, Zenon
<1>9. \A g : (IsUnary(g)' <=> IsUnary(g)) /\ (Open(g)' <=> Open(g)) BY <1>1, Zenon DEF IsUnary, Open
<1>10. ASSUME NEW g \in Conns
       PROVE  /\ Own(g)' => Own(g) /\ (answer'[g] # answer[g] => x.conn = g)
              /\ answer[g] # << >> => answer'[g] # << >>
  <2>1. PICK s, r : s = answer[g] /\ r = answer'[g] BY Zenon
  <2>2. s \in Seq(Item) BY <2>1 DEF Base
  <2>3. r = s \/ r = Append(s, x) BY <1>4, <2>1, Zenon
  <2>4. CASE r = s BY <2>1, <2>4, Zenon DEF Own
  <2>5. CASE r = Append(s, x)
    <3>1. /\ \A k \in DOMAIN s : k \in DOMAIN r /\ r[k] = s[k]
          /\ \E k \in DOMAIN r : r[k] = x
          /\ r # << >>
      <4>1. Len(s) + 1 \in DOMAIN r /\ r[Len(s) + 1] = x BY <1>4, <2>2, <2>5
      <4> QED BY <1>4, <2>2, <2>5, <4>1
    <3> QED BY <2>1, <3>1, Zenon DEF Own
  <2> QED BY <2>3, <2>4, <2>5, Zenon
<1>11. Owned'
  <2> SUFFICES ASSUME NEW z \in Waiting'
               PROVE  /\ call[z.conn].at = "open" /\ (IsUnary(z.conn) => call[z.conn].by = z.by)
                      /\ (IsUnary(z.conn) /\ ~z.finish) => \E y \in Waiting' : Pair(z, y)
    BY <1>1, <1>9, Zenon DEF Owned
  <2>1. z \in Waiting BY <1>5, Zenon
  <2>2. ASSUME IsUnary(z.conn), ~z.finish PROVE \E y \in Waiting' : Pair(z, y)
    <3>1. PICK y \in Waiting : Pair(z, y) BY <1>2, <2>1, <2>2, Zenon DEF Owned
    <3>2. y # w
      <4>1. ASSUME y = w PROVE FALSE
        <5>1. z.by = w.by /\ w.n = z.n + 1 BY <3>1, <4>1, Zenon DEF Pair
        <5>2. w.n < z.n BY <1>5, <5>1, Zenon
        <5> QED BY <1>7, <2>1, <5>1, <5>2
      <4> QED BY <4>1, Zenon
    <3> QED BY <1>5, <3>1, <3>2, Zenon
  <2> QED BY <1>2, <2>1, <2>2, Zenon DEF Owned
<1>12. Preceded'
  <2> SUFFICES ASSUME NEW y \in Waiting', IsUnary(y.conn), y.finish /\ y.status = "OK"
               PROVE  \/ \E z \in Waiting' : Pair(z, y)
                      \/ ~Open(y.conn) \/ ~Own(y.conn)' \/ answer'[y.conn] # << >>
    BY <1>1, <1>9, Zenon DEF Preceded
  <2>1. y \in Waiting BY <1>5, Zenon
  <2>2. y.conn \in Conns BY <2>1, WaitingType, Zenon
  <2>3. CASE \E z \in Waiting : Pair(z, y)
    <3>1. PICK z \in Waiting : Pair(z, y) BY <2>3, Zenon
    <3>2. CASE z = w
      <4>1. x.conn = y.conn BY <1>6, <3>1, <3>2, Zenon DEF Pair
      <4> QED BY <1>8, <4>1, Zenon
    <3> QED BY <1>5, <3>1, <3>2, Zenon
  <2> QED BY <1>2, <1>10, <2>1, <2>2, <2>3, Zenon DEF Preceded
<1>13. ASSUME NEW g \in Conns, IsUnary(g), Own(g)'
       PROVE  /\ Shape(answer'[g])
              /\ (Open(g) /\ Message(answer'[g])) => \E y \in Waiting' : Pair(answer'[g][1], y)
  <2>1. PICK s, r : s = answer[g] /\ r = answer'[g] BY Zenon
  <2>2. s \in Seq(Item) BY <2>1 DEF Base
  <2>3. Own(g) BY <1>10, <1>13, Zenon
  <2>4. Shape(s) /\ ((Open(g) /\ Message(s)) => \E y \in Waiting : Pair(s[1], y))
    BY <1>2, <1>13, <2>1, <2>3, Zenon DEF Shaped
  <2>5. ASSUME Message(s) PROVE ~Ended(s) /\ s[1].conn = g /\ 1 \in DOMAIN s
    <3>1. 1 \in DOMAIN s /\ DOMAIN s = {1} /\ ~s[1].finish BY <2>2, <2>5 DEF Message
    <3>2. ~Ended(s) BY <3>1 DEF Ended
    <3> QED BY <2>1, <2>3, <3>1, <3>2, Zenon DEF Own
  <2>6. CASE r = s
    <3>1. ASSUME Open(g), Message(s) PROVE \E y \in Waiting' : Pair(s[1], y)
      <4>1. PICK y \in Waiting : Pair(s[1], y) BY <2>4, <3>1, Zenon
      <4>2. ASSUME y = w PROVE FALSE
        <5>1. x.conn = g BY <1>6, <2>5, <3>1, <4>1, <4>2, Zenon DEF Pair
        <5>2. r = Append(s, x) BY <1>8, <2>1, <2>5, <3>1, <5>1, Zenon
        <5>3. Append(s, x) # s BY <1>4, <2>2, OneMore, Zenon
        <5> QED BY <2>6, <5>2, <5>3
      <4> QED BY <1>5, <4>1, <4>2, Zenon
    <3> QED BY <2>1, <2>4, <2>6, <3>1, Zenon
  <2>7. CASE r # s
    <3>1. r = Append(s, x) /\ ~Ended(s) /\ Open(g) /\ x.conn = g
      BY <1>4, <1>8, <1>10, <1>13, <2>1, <2>7, Zenon
    <3>2. s = << >> \/ Message(s) BY <2>2, <2>4, <3>1 DEF Shape, Ended
    <3>3. CASE s = << >>
      <4>1. Len(r) = 1 /\ r[1] = x BY <1>4, <3>1, <3>3
      <4>2. CASE ~x.finish
        <5>1. ~w.finish /\ IsUnary(w.conn) BY <1>6, <1>13, <3>1, <4>2, Zenon
        <5>2. PICK y \in Waiting : Pair(w, y) BY <1>2, <1>6, <5>1, Zenon DEF Owned
        <5>3. y.n = w.n + 1 BY <5>2, Zenon DEF Pair
        <5>4. y # w BY <1>7, <5>3
        <5>5. Pair(x, y) BY <1>6, <5>2, Zenon DEF Pair
        <5>6. Shape(r) BY <4>1, <4>2 DEF Shape, Message
        <5> QED BY <1>5, <2>1, <4>1, <5>2, <5>4, <5>5, <5>6, Zenon
      <4>3. CASE x.finish /\ x.status = "OK"
        <5>1. w.finish /\ w.status = "OK" /\ IsUnary(w.conn) BY <1>6, <1>13, <3>1, <4>3, Zenon
        <5>2. PICK z \in Waiting : Pair(z, w)
          BY <1>2, <1>6, <2>1, <2>3, <3>1, <3>3, <5>1, Zenon DEF Preceded
        <5>3. w.n = z.n + 1 /\ z.by = w.by BY <5>2, Zenon DEF Pair
        <5>4. z # w BY <1>7, <5>3
        <5>5. w.n < z.n BY <1>5, <5>2, <5>3, <5>4, Zenon
        <5> QED BY <1>7, <5>3, <5>5
      <4>4. CASE x.finish /\ x.status # "OK"
        <5>1. Shape(r) /\ ~Message(r) BY <4>1, <4>4 DEF Shape, Message
        <5> QED BY <2>1, <5>1, Zenon
      <4> QED BY <4>2, <4>3, <4>4, Zenon
    <3>4. CASE Message(s)
      <4>1. PICK y \in Waiting : Pair(s[1], y) BY <2>4, <3>1, <3>4, Zenon
      <4>2. s[1].conn = y.conn /\ s[1].by = y.by /\ y.n = s[1].n + 1 BY <4>1, Zenon DEF Pair
      <4>3. y.conn = g BY <2>5, <3>4, <4>2, Zenon
      <4>4. y.by = w.by
        <5>1. y.by = call[g].by BY <1>2, <1>13, <4>3, Zenon DEF Owned
        <5>2. w.by = call[g].by BY <1>2, <1>6, <1>13, <3>1, Zenon DEF Owned
        <5> QED BY <5>1, <5>2, Zenon
      <4>5. y = w
        <5>1. ASSUME y # w PROVE FALSE
          <6>1. w.n < y.n BY <1>5, <4>4, <5>1, Zenon
          <6>2. 1 \in DOMAIN batch /\ batch[1] = x
            <7>1. batch \in Seq(Item) /\ batch # << >> BY Zenon DEF Base, IInv, Types, Replays
            <7> QED BY <1>3, <7>1
          <6>3. Before(s, batch) BY <2>1, Zenon DEF OrderInv
          <6>4. s[1].n < w.n BY <1>6, <2>5, <3>4, <4>2, <4>4, <6>2, <6>3, Zenon DEF Before
          <6>5. s[1].n \in Nat
            <7>1. s[1] \in Item BY <2>2, <2>5, <3>4
            <7> QED BY <7>1 DEF Item
          <6> QED BY <1>7, <4>2, <6>1, <6>4, <6>5
        <5> QED BY <5>1, Zenon
      <4>6. x.finish /\ x.status = "OK" BY <1>6, <4>1, <4>5, Zenon DEF Pair
      <4>7. Len(r) = 2 /\ r[1] = s[1] /\ r[2] = x BY <1>4, <2>2, <3>1, <3>4, OneMore, Zenon DEF Message
      <4>8. ~s[1].finish BY <3>4, Zenon DEF Message
      <4>9. Shape(r) /\ ~Message(r) BY <4>6, <4>7, <4>8 DEF Shape, Message
      <4> QED BY <2>1, <4>9, Zenon
    <3> QED BY <3>2, <3>3, <3>4, Zenon
  <2> QED BY <2>6, <2>7, Zenon
<1>14. Shaped' BY <1>9, <1>13, Zenon DEF Shaped
<1>15. Unseen'
  <2>1. ASSUME NEW g \in Conns, call[g].at = "new", NEW k \in DOMAIN answer'[g]
        PROVE  answer'[g][k].conn # g
    <3>1. PICK s, r : s = answer[g] /\ r = answer'[g] BY Zenon
    <3>2. s \in Seq(Item) BY <3>1 DEF Base
    <3>3. \A i \in DOMAIN s : s[i].conn # g BY <1>2, <2>1, <3>1, Zenon DEF Unseen
    <3>4. x.conn # g
      <4>1. call[w.conn].at = "open" BY <1>2, <1>6, Zenon DEF Owned
      <4> QED BY <1>6, <2>1, <4>1
    <3>5. r = s \/ r = Append(s, x) BY <1>4, <3>1, Zenon
    <3>6. (k \in DOMAIN s /\ r[k] = s[k]) \/ r[k] = x
      <4>1. k \in DOMAIN r BY <2>1, <3>1, Zenon
      <4> QED BY <1>4, <3>2, <3>5, <4>1
    <3> QED BY <3>1, <3>3, <3>4, <3>6, Zenon
  <2> QED BY <1>1, <1>2, <2>1, Zenon DEF Unseen
<1> QED BY <1>11, <1>12, <1>14, <1>15, Zenon

\* Handles on their way stay those of their connections when these stay as they are, ...
LEMMA AddressedKeeps ==
    ASSUME Base, UnaryInv,
           \/ Rests \/ Takes \/ Replays
           \/ \E p \in Producers : \/ \E g \in Conns, ops \in Seq(Ops) : Begins(p, g, ops)
                                   \/ \E x \in Item : Pushes(p, x)
           \/ \E g \in Conns, ops \in Seq(Ops) : Directs(g, ops)
    PROVE  /\ conns' = conns /\ addr' = addr
           /\ Addressed(batch', conns, addr) /\ Addressed(queue', conns, addr)
           /\ \A p \in Producers : Addressed(Todo(p)', conns, addr)
<1>1. /\ Addressed(batch, conns, addr) /\ Addressed(queue, conns, addr)
      /\ \A p \in Producers : Addressed(Todo(p), conns, addr)
  BY Zenon DEF UnaryInv
<1>2. Types /\ batch \in Seq(Item) /\ queue \in Seq(Item) BY Zenon DEF Base, IInv, Types
<1>3. conns' = conns /\ addr' = addr
  BY Zenon DEF Rests, Takes, Replays, Begins, Pushes, Directs
<1>4. CASE SameTodo /\ UNCHANGED <<queue, batch>> BY <1>1, <1>3, <1>4, Zenon DEF SameTodo
<1>5. CASE Takes
  <2>1. SameTodo /\ batch' = queue /\ queue' = << >> BY <1>5, Zenon DEF Takes
  <2>2. Addressed(<< >>, conns, addr) BY DEF Addressed
  <2> QED BY <1>1, <1>3, <2>1, <2>2, Zenon DEF SameTodo
<1>6. ASSUME NEW s \in Seq(Item), s # << >>, Addressed(s, conns, addr)
      PROVE  Addressed(Tail(s), conns, addr)
  <2>1. PICK t : t = Tail(s) BY Zenon
  <2>2. \A i \in DOMAIN t : i + 1 \in DOMAIN s /\ t[i] = s[i + 1] BY <1>6, <2>1
  <2>3. Addressed(t, conns, addr) BY <1>6, <2>2, Zenon DEF Addressed
  <2> QED BY <2>1, <2>3, Zenon
<1>7. CASE Replays
  <2>1. SameTodo /\ batch # << >> /\ batch' = Tail(batch) /\ queue' = queue BY <1>7, Zenon DEF Replays
  <2> QED BY <1>1, <1>2, <1>3, <1>6, <2>1, Zenon DEF SameTodo
<1>8. ASSUME NEW p \in Producers, NEW g \in Conns, NEW ops \in Seq(Ops), Begins(p, g, ops)
      PROVE  /\ Addressed(batch', conns, addr) /\ Addressed(queue', conns, addr)
             /\ \A q \in Producers : Addressed(Todo(q)', conns, addr)
  <2>1. /\ queue' = queue /\ batch' = batch /\ Todo(p)' = Items(p, g, ops, FALSE)
        /\ \A q \in Producers \ {p} : Todo(q)' = Todo(q)
    BY <1>8, Zenon DEF Begins
  <2>2. PICK its : its = Items(p, g, ops, FALSE) BY Zenon
  <2>3. Made(its, p, g, ops, FALSE) BY <2>2, ItemsMade, Zenon
  <2>4. Addressed(its, conns, addr) BY <2>3, Zenon DEF Made, Addressed
  <2> QED BY <1>1, <2>1, <2>2, <2>4, Zenon
<1>9. ASSUME NEW p \in Producers, NEW x \in Item, Pushes(p, x)
      PROVE  /\ Addressed(batch', conns, addr) /\ Addressed(queue', conns, addr)
             /\ \A q \in Producers : Addressed(Todo(q)', conns, addr)
  <2>1. PICK todo : todo = Todo(p) BY Zenon
  <2>2. /\ todo \in Seq(Item) /\ todo # << >> /\ OpOf(x) = OpOf(Head(todo)) /\ x.call = Head(todo).call
        /\ queue' = Append(queue, x) /\ batch' = batch /\ Todo(p)' = Tail(todo)
        /\ \A q \in Producers \ {p} : Todo(q)' = Todo(q)
    BY <1>9, <2>1, Zenon DEF Pushes
  <2>3. Addressed(todo, conns, addr) BY <1>1, <2>1, Zenon
  <2>4. Addressed(Tail(todo), conns, addr) BY <1>6, <2>2, <2>3, Zenon
  <2>5. PICK y : y = Head(todo) BY Zenon
  <2>6. 1 \in DOMAIN todo /\ y = todo[1] BY <2>2, <2>5
  <2>7. x.conn = y.conn /\ x.call = y.call BY <2>2, <2>5, OpFields, Zenon
  <2>8. (addr[x.conn] # Null /\ conns[addr[x.conn]] = x.conn) => x.call = addr[x.conn]
    <3>1. (addr[y.conn] # Null /\ conns[addr[y.conn]] = y.conn) => y.call = addr[y.conn]
      BY <2>3, <2>6, Zenon DEF Addressed
    <3> QED BY <2>7, <3>1, Zenon
  <2>9. PICK q : q = Append(queue, x) BY Zenon
  <2>10. \A i \in DOMAIN q : q[i] = x \/ (i \in DOMAIN queue /\ q[i] = queue[i]) BY <1>2, <2>9
  <2>11. Addressed(q, conns, addr) BY <1>1, <2>8, <2>10, Zenon DEF Addressed
  <2> QED BY <1>1, <2>2, <2>4, <2>9, <2>11, Zenon
<1> QED BY <1>3, <1>4, <1>5, <1>7, <1>8, <1>9, Zenon DEF Rests, Directs

\* ... when some are closed, whose handles in the queue go, ...
LEMMA AddressedCloses ==
    ASSUME Base, UnaryInv, NEW S \in SUBSET Addrs, Closes(S)
    PROVE  /\ addr' = addr /\ \A g \in Conns : Open(g)' => Open(g)
           /\ Addressed(batch', conns', addr) /\ Addressed(queue', conns', addr)
           /\ \A p \in Producers : Addressed(Todo(p)', conns', addr)
<1>1. /\ Addressed(batch, conns, addr) /\ Addressed(queue, conns, addr)
      /\ \A p \in Producers : Addressed(Todo(p), conns, addr)
  BY Zenon DEF UnaryInv
<1>2. Types /\ batch \in Seq(Item) /\ queue \in Seq(Item) BY Zenon DEF Base, IInv, Types
<1>3. \A p \in Producers : Todo(p) \in Seq(Item) BY <1>2, TodoType, Zenon
<1>4. /\ SameTodo /\ addr' = addr /\ batch' = batch /\ queue' = Scrubbed(S)
      /\ conns' = [a \in Addrs |-> IF a \in S THEN 0 ELSE conns[a]]
  BY Zenon DEF Closes
<1>5. PICK cs : cs = conns' BY Zenon
<1>6. ASSUME NEW g \in Conns, addr[g] # Null, cs[addr[g]] = g
      PROVE  conns[addr[g]] = g /\ addr[g] \notin S
  <2>1. addr[g] \in Addrs BY <1>2, <1>6 DEF Types
  <2>2. g # 0 BY MailboxAssumption DEF Conns
  <2>3. cs = [a \in Addrs |-> IF a \in S THEN 0 ELSE conns[a]] BY <1>4, <1>5, Zenon
  <2> QED BY <1>6, <2>1, <2>2, <2>3
<1>7. ASSUME NEW s \in Seq(Item), Addressed(s, conns, addr) PROVE Addressed(s, cs, addr)
  <2>1. \A i \in DOMAIN s : s[i].conn \in Conns
    <3>1. \A i \in DOMAIN s : s[i] \in Item OBVIOUS
    <3> QED BY <3>1 DEF Item
  <2> QED BY <1>6, <1>7, <2>1, Zenon DEF Addressed
<1>8. Addressed(Scrubbed(S), cs, addr)
  <2>1. PICK q : q = Scrubbed(S) BY Zenon
  <2>2. DOMAIN q = DOMAIN queue BY <2>1 DEF Scrubbed
  <2>3. ASSUME NEW i \in DOMAIN queue, addr[q[i].conn] # Null, cs[addr[q[i].conn]] = q[i].conn
        PROVE  q[i].call = addr[q[i].conn]
    <3>1. PICK x : x = queue[i] BY Zenon
    <3>2. x \in Item BY <1>2, <3>1
    <3>3. q[i] = IF x.call \in S THEN [x EXCEPT !.call = Null] ELSE x BY <2>1, <3>1 DEF Scrubbed
    <3>4. q[i].conn = x.conn /\ x.conn \in Conns BY <3>2, <3>3 DEF Item
    <3>5. conns[addr[x.conn]] = x.conn /\ addr[x.conn] \notin S BY <1>6, <2>3, <3>4, Zenon
    <3>6. x.call = addr[x.conn] BY <1>1, <2>3, <3>1, <3>4, <3>5, Zenon DEF Addressed
    <3>7. q[i] = x BY <3>3, <3>5, <3>6, Zenon
    <3> QED BY <3>6, <3>7, Zenon
  <2>4. Addressed(q, cs, addr) BY <2>2, <2>3, Zenon DEF Addressed
  <2> QED BY <2>1, <2>4, Zenon
<1>9. \A g \in Conns : Open(g)' => Open(g) BY <1>4, <1>5, <1>6, Zenon DEF Open
<1> QED BY <1>1, <1>2, <1>3, <1>4, <1>5, <1>7, <1>8, <1>9, Zenon DEF SameTodo

\* ... and when one is accepted, at the address of which handles may be on their way.
LEMMA AddressedAccepts ==
    ASSUME Base, HomeInv, OrderInv, UnaryInv, NEW a \in Addrs, Accepts(a)
    PROVE  /\ \A g \in Conns : Open(g)' => Open(g) \/ call[g].at = "new"
           /\ Addressed(batch', conns', addr') /\ Addressed(queue', conns', addr')
           /\ \A p \in Producers : Addressed(Todo(p)', conns', addr')
<1>1. /\ Addressed(batch, conns, addr) /\ Addressed(queue, conns, addr)
      /\ \A p \in Producers : Addressed(Todo(p), conns, addr)
      /\ Owned /\ Unseen
  BY Zenon DEF UnaryInv
<1>2. Types BY Zenon DEF Base, IInv
<1>3. PICK n : n = accepted + 1 BY Zenon
<1>4. /\ SameTodo /\ batch' = batch /\ queue' = queue
      /\ n \in Conns /\ conns' = [conns EXCEPT ![a] = n] /\ addr' = [addr EXCEPT ![n] = a]
  BY <1>3, Zenon DEF Accepts
<1>5. PICK cs, ad : cs = conns' /\ ad = addr' BY Zenon
<1>6. ASSUME NEW g \in Conns, g # n
      PROVE  ad[g] = addr[g] /\ (ad[g] # Null /\ cs[ad[g]] = g => conns[addr[g]] = g)
  <2>1. ad[g] = addr[g] BY <1>2, <1>4, <1>5, <1>6 DEF Types
  <2>2. ASSUME ad[g] # Null, cs[ad[g]] = g PROVE conns[addr[g]] = g
    <3>1. addr[g] \in Addrs BY <1>2, <2>1, <2>2 DEF Types
    <3>2. \A b \in Addrs : cs[b] = IF b = a THEN n ELSE conns[b] BY <1>2, <1>4, <1>5 DEF Types
    <3> QED BY <1>6, <2>1, <2>2, <3>1, <3>2, Zenon
  <2> QED BY <2>1, <2>2, Zenon
<1>7. call[n].at = "new"
  <2>1. n > accepted BY <1>2, <1>3 DEF Types
  <2> QED BY <1>1, <1>4, <2>1, Zenon DEF Unseen
<1>8. ASSUME NEW s, OpsIn(s) \subseteq Waiting, Addressed(s, conns, addr)
      PROVE  Addressed(s, cs, ad)
  <2>1. ASSUME NEW i \in DOMAIN s PROVE s[i].conn \in Conns /\ s[i].conn # n
    <3>1. PICK y : y = OpOf(s[i]) BY Zenon
    <3>2. y \in Waiting BY <1>8, <3>1, Zenon DEF OpsIn
    <3>3. y.conn \in Conns /\ call[y.conn].at = "open" BY <1>1, <3>2, WaitingType, Zenon DEF Owned
    <3>4. y.conn # n BY <1>7, <3>3
    <3> QED BY <3>1, <3>3, <3>4, OpFields, Zenon
  <2> QED BY <1>6, <1>8, <2>1, Zenon DEF Addressed
<1>9. \A g \in Conns : Open(g)' => Open(g) \/ call[g].at = "new"
  BY <1>5, <1>6, <1>7, Zenon DEF Open
<1> QED BY <1>1, <1>4, <1>5, <1>8, <1>9, Zenon DEF SameTodo, Waiting

\* Every step keeps it.
LEMMA UnaryStep ==
    ASSUME Base, HomeInv, OrderInv, UnaryInv, [Next]_vars
    PROVE  UnaryInv'
<1>1. Steps BY StepKinds, Zenon
<1>2. Lively' BY LivelyStep, Zenon DEF UnaryInv
<1>3. accepted \in Nat /\ accepted <= accepted BY DEF Base, IInv, Types
<1>4. ASSUME Rests \/ Takes \/ \E p \in Producers, x \in Item : Pushes(p, x)
      PROVE  (Owned /\ Preceded /\ Shaped /\ Unseen)'
  <2>1. UNCHANGED <<conns, addr, accepted, call, answer>>
    BY <1>4, Zenon DEF Rests, Takes, Pushes
  <2>2. \A g \in Conns : Open(g)' => Open(g) BY <2>1, Zenon DEF Open
  <2>3. Waiting' = Waiting BY <1>4, WaitingStays, Zenon
  <2> QED BY <1>3, <2>1, <2>2, <2>3, UnaryStays, Zenon
<1>5. ASSUME NEW S \in SUBSET Addrs, Closes(S) PROVE (Owned /\ Preceded /\ Shaped /\ Unseen)'
  <2>1. UNCHANGED <<accepted, call, answer>> BY <1>5, Zenon DEF Closes
  <2>2. \A g \in Conns : Open(g)' => Open(g) BY <1>5, AddressedCloses, Zenon
  <2>3. Waiting' = Waiting BY <1>5, WaitingStays, Zenon
  <2> QED BY <1>3, <2>1, <2>2, <2>3, UnaryStays, Zenon
<1>6. ASSUME NEW a \in Addrs, Accepts(a) PROVE (Owned /\ Preceded /\ Shaped /\ Unseen)'
  <2>1. UNCHANGED <<call, answer>> /\ accepted' = accepted + 1 BY <1>6, Zenon DEF Accepts
  <2>2. accepted' \in Nat /\ accepted <= accepted' BY <1>3, <2>1
  <2>3. \A g \in Conns : Open(g)' => Open(g) \/ call[g].at = "new"
    BY <1>6, AddressedAccepts, Zenon
  <2>4. Waiting' = Waiting BY <1>6, WaitingStays, Zenon
  <2> QED BY <2>1, <2>2, <2>3, <2>4, UnaryStays, Zenon
<1>7. (Owned /\ Preceded /\ Shaped /\ Unseen)'
  BY <1>1, <1>4, <1>5, <1>6, UnaryBegins, UnaryDirect, UnaryReplays, Zenon DEF Steps
<1>8. /\ Addressed(batch', conns', addr') /\ Addressed(queue', conns', addr')
      /\ \A p \in Producers : Addressed(Todo(p)', conns', addr')
  <2>1. CASE \E S \in SUBSET Addrs : Closes(S) BY <2>1, AddressedCloses, Zenon
  <2>2. CASE \E a \in Addrs : Accepts(a) BY <2>2, AddressedAccepts, Zenon
  <2>3. CASE /\ ~\E S \in SUBSET Addrs : Closes(S)
             /\ ~\E a \in Addrs : Accepts(a)
    <3>1. \/ Rests \/ Takes \/ Replays
          \/ \E p \in Producers : \/ \E g \in Conns, ops \in Seq(Ops) : Begins(p, g, ops)
                                  \/ \E x \in Item : Pushes(p, x)
          \/ \E g \in Conns, ops \in Seq(Ops) : Directs(g, ops)
      BY <1>1, <2>3, Zenon DEF Steps
    <3> QED BY <3>1, AddressedKeeps, Zenon
  <2> QED BY <2>1, <2>2, <2>3, Zenon
<1> QED BY <1>2, <1>7, <1>8, Zenon DEF UnaryInv

\* Where the messages are in s, and that there is one.
MessagesIn(s) == DOMAIN s \ {k \in DOMAIN s : s[k].finish}
One(M) == \E m \in M : M = {m}

\* What the shape of a unary call's answer says of its status and its messages.
LEMMA ShapeKeepsContract ==
    ASSUME NEW s \in Seq(Item), Shape(s), NEW i \in DOMAIN s, s[i].finish
    PROVE  s[i].status = "OK" <=> One(MessagesIn(s))
<1> DEFINE M == MessagesIn(s)
<1>1. CASE Len(s) = 1 /\ s[1].finish /\ s[1].status # "OK"
  <2>1. DOMAIN s = {1} BY <1>1
  <2>2. M = {} /\ i = 1 BY <1>1, <2>1 DEF MessagesIn
  <2> QED BY <1>1, <2>2, Zenon DEF One
<1>2. CASE Len(s) = 2 /\ ~s[1].finish /\ s[2].finish /\ s[2].status = "OK"
  <2>1. DOMAIN s = {1, 2} BY <1>2
  <2>2. M = {1} /\ i = 2 BY <1>2, <2>1 DEF MessagesIn
  <2> QED BY <1>2, <2>2, Zenon DEF One
<1>3. s # << >> /\ ~Message(s)
  <2>1. Message(s) => DOMAIN s = {1} /\ ~s[1].finish BY DEF Message
  <2>2. s # << >> OBVIOUS
  <2> QED BY <2>1, <2>2
<1> QED BY <1>1, <1>2, <1>3, Zenon DEF Shape

\* For any number of threads, connections and addresses, and all that generated stubs do,
\* the client of a unary call sees OK exactly when it gets one message, also when the
\* call is completed late, more than once, from the thread it was left to or by a
\* response that does not encode; unless it took an operation meant for an earlier
\* connection at its address.
THEOREM UnaryCallsKeepContract == Spec => []UnaryContract
<1>1. Base /\ UnaryInv => UnaryContract
  <2> SUFFICES ASSUME Base, UnaryInv, NEW g \in Conns, NEW i \in Finishes(g), IsUnary(g), Own(g)
               PROVE  answer[g][i].status = "OK" <=> \E m \in Messages(g) : Messages(g) = {m}
    BY Zenon DEF UnaryContract, IsUnary, Own
  <2>1. PICK s : s = answer[g] BY Zenon
  <2>2. s \in Seq(Item) BY <2>1 DEF Base
  <2>3. Shape(s) BY <2>1, Zenon DEF UnaryInv, Shaped
  <2>4. i \in DOMAIN s /\ s[i].finish BY <2>1 DEF Finishes
  <2>5. Messages(g) = MessagesIn(s) BY <2>1, Zenon DEF Messages, Finishes, MessagesIn
  <2>6. s[i].status = "OK" <=> One(MessagesIn(s)) BY <2>2, <2>3, <2>4, ShapeKeepsContract, Zenon
  <2> QED BY <2>1, <2>5, <2>6, Zenon DEF One
<1>2. Base /\ HomeInv /\ OrderInv /\ UnaryInv /\ [Next]_vars
      => Base' /\ HomeInv' /\ OrderInv' /\ UnaryInv'
  BY BaseStep, HomeStep, OrderStep, UnaryStep, Zenon
<1> QED BY <1>1, <1>2, BaseInit, HomeInit, OrderInit, UnaryInit, PTL DEF Spec

=============================================================================
