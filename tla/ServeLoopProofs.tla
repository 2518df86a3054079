-------------------------- MODULE ServeLoopProofs --------------------------
(***************************************************************************)
(* Type correctness of ServeLoop and the absence of lost wakeups, for any  *)
(* number of producers, connections, calls and operations; then what each  *)
(* step does to the ops on their way from a writer to the core; then what  *)
(* serve() and the mailbox promise the writers of a call: FirstFinishWins, *)
(* WritesInOrder, NoSilentLoss and FinishIsComplete, from one inductive    *)
(* invariant, WInv.                                                        *)
(***************************************************************************)
EXTENDS ServeLoop, TLAPS

\* Counting one more event of x keeps a table of counters well-typed.
LEMMA Increment ==
    ASSUME NEW S, NEW f \in [S -> Nat], NEW x \in S
    PROVE  [f EXCEPT ![x] = f[x] + 1] \in [S -> Nat]
OBVIOUS

\* NewOp builds a value of type Op (OutOp, server.rs).
LEMMA NewOpType ==
    ASSUME TypeOK, NEW t \in Threads, NEW c \in Calls,
           NEW kind \in {"Write", "Finish", "Policy"},
           NEW bp \in Policies \cup {Unbounded}
    PROVE  /\ NewOp(t, c, kind, bp) \in Op
           /\ NewOp(t, c, kind, bp).kind = kind
           /\ NewOp(t, c, kind, bp).n = count[t] + 1
BY DEF TypeOK, NewOp, Op

\* flush and the end of a tick leave well-typed streams and queues.
LEMMA FlushingType ==
    ASSUME TypeOK, NEW T, NEW gone, NEW expired, Flushing(T, gone, expired)
    PROVE  /\ stream' \in [Calls -> {"none", "open", "finished", "closed", "reset"}]
           /\ queued' \in [Calls -> Nat]
<1>1. PICK left \in [Calls -> 0..QueueBound] :
        /\ \A c \in Calls : IF c[1] \in T \ gone THEN left[c] <= queued[c]
                                                 ELSE left[c] = queued[c]
        /\ queued' = left
        /\ \E done \in SUBSET {c \in Calls :
                  /\ c[1] \in T \ gone /\ left[c] = 0
                  /\ stream[c] = "finished" \/ c \in expired} :
             stream' = [c \in Calls |->
                 IF c[1] \in gone /\ stream[c] \in {"open", "finished"} THEN "reset"
                 ELSE IF c \in done THEN "closed"
                 ELSE IF c \in expired THEN "finished"
                 ELSE stream[c]]
  BY Zenon DEF Flushing
<1>2. queued' \in [Calls -> Nat]
  BY <1>1
<1>3. stream' \in [Calls -> {"none", "open", "finished", "closed", "reset"}]
  BY <1>1 DEF TypeOK
<1> QED BY <1>2, <1>3, Zenon

\* Only the dispatch phase runs a handler, and only a running handler puts the
\* I/O thread inside a ServerWriter operation (server.rs trampoline).
HandlersInDispatch ==
    /\ running # None => io = "dispatch"
    /\ thread[IO].step # "idle" => running # None

IInv == TypeOK /\ HandlersInDispatch /\ NoLostWakeup

ThreadTyped ==
    /\ thread \in [Threads -> [step : {"idle", "swap", "push", "poke"},
                               op : Op \cup {None}]]
    /\ \A t \in Threads : thread[t].step \in {"swap", "push"} => thread[t].op \in Op

\* Everything a thread does inside a ServerWriter operation keeps the types.
LEMMA ThreadStepType ==
    ASSUME TypeOK, NEW t \in Threads, ThreadStep(t)
    PROVE  TypeOK'
<1>1. CASE \E c \in Calls : write(t, c)
  <2>1. PICK c \in Calls : write(t, c) BY <1>1, Zenon
  <2>2. NewOp(t, c, "Write", Unbounded) \in Op BY NewOpType, Zenon
  <2>3. ThreadTyped' BY <2>1, <2>2, Zenon DEF write, TypeOK, ThreadTyped
  <2>4. count' \in [Threads -> Nat] BY <2>1 DEF write, TypeOK
  <2> QED BY <2>1, <2>3, <2>4, ZenonT(30) DEF write, TypeOK, ThreadTyped, shared, mailVars, loopVars, connVars, coreVars, pastVars
<1>2. CASE \E c \in Calls : finish(t, c)
  <2>1. PICK c \in Calls : finish(t, c) BY <1>2, Zenon
  <2>2. NewOp(t, c, "Finish", Unbounded) \in Op BY NewOpType, Zenon
  <2>3. ThreadTyped' BY <2>1, <2>2, Zenon DEF finish, TypeOK, ThreadTyped
  <2>4. count' \in [Threads -> Nat] BY <2>1 DEF finish, TypeOK
  <2> QED BY <2>1, <2>3, <2>4, ZenonT(30) DEF finish, TypeOK, ThreadTyped, shared, mailVars, loopVars, connVars, coreVars, pastVars
<1>3. CASE \E c \in Calls, bp \in Policies : set_backpressure(t, c, bp)
  <2>1. PICK c \in Calls, bp \in Policies : set_backpressure(t, c, bp) BY <1>3, Zenon
  <2>2. NewOp(t, c, "Policy", bp) \in Op BY NewOpType, Zenon
  <2>3. ThreadTyped' BY <2>1, <2>2, Zenon DEF set_backpressure, TypeOK, ThreadTyped
  <2>4. count' \in [Threads -> Nat] BY <2>1 DEF set_backpressure, TypeOK
  <2> QED BY <2>1, <2>3, <2>4, ZenonT(30) DEF set_backpressure, TypeOK, ThreadTyped, shared, mailVars, loopVars, connVars, coreVars, pastVars
<1>4. CASE finish_swap(t)
  <2>1. thread[t].op.call \in Calls BY <1>4, Zenon DEF finish_swap, TypeOK, Op
  <2>2. ThreadTyped' BY <1>4, ZenonT(30) DEF finish_swap, TypeOK, ThreadTyped, Idle
  <2>3. finished' \in SUBSET Calls BY <1>4, <2>1, Zenon DEF finish_swap, TypeOK
  <2> QED BY <1>4, <2>2, <2>3, ZenonT(30)
          DEF finish_swap, TypeOK, ThreadTyped, shared, mailVars, loopVars, connVars, coreVars, pastVars
<1>5. CASE push(t)
  <2>1. thread[t].op \in Op BY <1>5, Zenon DEF push, TypeOK
  <2>2. ops' \in Seq(Op) BY <1>5, <2>1 DEF push, TypeOK
  <2>3. returned' \in SUBSET (Calls \X Threads \X Nat)
    BY <1>5, <2>1, SMTT(30) DEF push, TypeOK, Op
  <2>4. ThreadTyped' BY <1>5, Zenon DEF push, TypeOK, ThreadTyped, Idle
  <2> QED BY <1>5, <2>2, <2>3, <2>4, Zenon
          DEF push, TypeOK, ThreadTyped, shared, loopVars, connVars, coreVars
<1>6. CASE poke(t)
  BY <1>6, Zenon DEF poke, TypeOK, Idle, shared, loopVars, connVars, coreVars, pastVars
<1> QED BY <1>1, <1>2, <1>3, <1>4, <1>5, <1>6, Zenon DEF ThreadStep

\* Returning from serve() leaves well-typed connections and streams.
LEMMA LeaveType ==
    ASSUME TypeOK, Leave
    PROVE  /\ io' = "stopped"
           /\ polled' \in SUBSET Tokens
           /\ conns' \in [Tokens -> {"absent", "live", "dead"}]
           /\ stream' \in [Calls -> {"none", "open", "finished", "closed", "reset"}]
BY Zenon DEF TypeOK, Leave

\* Every step of serve() keeps the types.
LEMMA StepType ==
    ASSUME TypeOK, Step
    PROVE  TypeOK'
<1>1. CASE check_shutdown
  <2>1. CASE Leave
    BY <1>1, <2>1, LeaveType, Zenon
       DEF check_shutdown, TypeOK, mailVars, writerVars, shared, pastVars
  <2>2. CASE io' = "poll" /\ polled' = Live /\ UNCHANGED <<conns, stream>>
    BY <1>1, <2>2, Zenon DEF check_shutdown, Live, TypeOK, mailVars, writerVars, shared, pastVars
  <2> QED BY <1>1, <2>1, <2>2, Zenon DEF check_shutdown
<1>2. CASE poll
  BY <1>2, Zenon DEF poll, TypeOK, mailVars, connVars, writerVars, shared, coreVars, pastVars
<1>3. CASE drain_wakeup
  BY <1>3, Zenon DEF drain_wakeup, TypeOK, connVars, writerVars, shared, coreVars, pastVars
<1>4. CASE take
  <2>1. ops' \in Seq(Op) /\ batch' \in Seq(Op) BY <1>4 DEF take, Taken, TypeOK
  <2> QED BY <1>4, <2>1, Zenon DEF take, TypeOK, connVars, writerVars, shared, coreVars, pastVars
<1>5. CASE apply
  <2> DEFINE op  == Head(batch)
             c   == op.call
             res == OpResult(op)
  <2>1. batch # << >> /\ batch' = Tail(batch) BY <1>5, Zenon DEF apply
  <2>2. op \in Op /\ batch' \in Seq(Op) BY <2>1 DEF TypeOK
  <2>3. c \in Calls /\ op.n \in Nat /\ op.from \in Threads
        /\ op.bp \in Policies \cup {Unbounded}
    BY <2>2, Zenon DEF Op
  <2>4. dead' \in SUBSET Calls /\ overflow' \in SUBSET Calls
    BY <1>5, <2>3, Zenon DEF apply, TypeOK
  <2>5. applied' \in [Calls -> Seq(Threads \X Nat)]
    <3>1. \/ applied' = applied
          \/ applied' = [applied EXCEPT ![c] = Append(applied[c], <<op.from, op.n>>)]
      BY <1>5, Zenon DEF apply
    <3>2. Append(applied[c], <<op.from, op.n>>) \in Seq(Threads \X Nat)
      BY <2>3, SMTT(30) DEF TypeOK
    <3> QED BY <3>1, <3>2, Zenon DEF TypeOK
  <2>6. queued' \in [Calls -> Nat]
    <3>1. queued' = queued \/ queued' = [queued EXCEPT ![c] = queued[c] + 1]
      BY <1>5, Zenon DEF apply
    <3>2. queued \in [Calls -> Nat] BY Zenon DEF TypeOK
    <3> HIDE DEF op, c, res
    <3> QED BY <2>3, <3>1, <3>2, Increment
  <2>8. policy' \in [Calls -> Policies \cup {Unbounded}]
    <3>1. policy' = policy \/ policy' = [policy EXCEPT ![c] = op.bp]
      BY <1>5, Zenon DEF apply
    <3> QED BY <2>3, <3>1, Zenon DEF TypeOK
  <2>7. /\ stream' \in [Calls -> {"none", "open", "finished", "closed", "reset"}]
        /\ finishedBy' \in [Calls -> {None, Deadline} \cup (Threads \X Nat)]
    <3>1. \/ UNCHANGED <<stream, finishedBy>>
          \/ /\ stream' = [stream EXCEPT ![c] = "finished"]
             /\ finishedBy' = [finishedBy EXCEPT ![c] = <<op.from, op.n>>]
      BY <1>5, Zenon DEF apply
    <3>2. <<op.from, op.n>> \in {None, Deadline} \cup (Threads \X Nat) BY <2>3, Zenon
    <3>3. /\ stream \in [Calls -> {"none", "open", "finished", "closed", "reset"}]
          /\ finishedBy \in [Calls -> {None, Deadline} \cup (Threads \X Nat)]
      BY Zenon DEF TypeOK
    <3> HIDE DEF op, c, res
    <3> QED BY <2>3, <3>1, <3>2, <3>3
  <2> HIDE DEF op, c, res
  <2> QED BY <1>5, <2>2, <2>4, <2>5, <2>6, <2>7, <2>8, Zenon
          DEF apply, TypeOK, mailVars, connVars, pastVars
<1>6. CASE apply_done
  BY <1>6, Zenon DEF apply_done, TypeOK, mailVars, connVars, writerVars, shared, coreVars, pastVars
<1>7. CASE flush
  <2>1. PICK gone \in SUBSET Live, expired \in SUBSET OpenOn(Live) :
          /\ Flushing(Live, gone, expired)
          /\ finishedBy' = [c \in Calls |->
                              IF c \in expired THEN Deadline ELSE finishedBy[c]]
          /\ conns' = [t \in Tokens |-> IF conns[t] = "live" /\ t \notin gone
                                        THEN "live" ELSE "absent"]
    BY <1>7, Zenon DEF flush
  <2>2. /\ stream' \in [Calls -> {"none", "open", "finished", "closed", "reset"}]
        /\ queued' \in [Calls -> Nat]
    BY <2>1, FlushingType, Zenon
  <2>3. finishedBy' \in [Calls -> {None, Deadline} \cup (Threads \X Nat)]
    BY <2>1, Zenon DEF TypeOK
  <2>4. conns' \in [Tokens -> {"absent", "live", "dead"}]
    BY <2>1, Zenon
  <2> QED BY <1>7, <2>2, <2>3, <2>4, Zenon DEF flush, TypeOK, mailVars, writerVars, shared, pastVars
<1>8. ASSUME NEW t \in Tokens, tick_begin(t) PROVE TypeOK'
  <2>1. /\ stream' \in [Calls -> {"none", "open", "finished", "closed", "reset"}]
        /\ finishedBy' \in [Calls -> {None, Deadline} \cup (Threads \X Nat)]
    BY <1>8 DEF tick_begin, TypeOK
  <2> QED BY <1>8, <2>1, Zenon DEF tick_begin, TypeOK, mailVars, connVars, writerVars, shared, pastVars
<1>9. ASSUME NEW t \in Tokens, tick_end(t) PROVE TypeOK'
  <2>1. PICK gone \in {{}, {t}} :
          /\ Flushing({t}, gone, {})
          /\ conns' = [conns EXCEPT ![t] = IF t \in gone THEN "dead" ELSE @]
    BY <1>9, Zenon DEF tick_end
  <2>2. /\ stream' \in [Calls -> {"none", "open", "finished", "closed", "reset"}]
        /\ queued' \in [Calls -> Nat]
    BY <2>1, FlushingType, Zenon
  <2> QED BY <1>9, <2>1, <2>2, Zenon DEF tick_end, TypeOK, mailVars, writerVars, shared, pastVars
<1>10. ASSUME NEW ok \in BOOLEAN, streaming_return(ok) PROVE TypeOK'
  <2> DEFINE c == running
             f == NewOp(IO, c, "Finish", Unbounded)
  <2>1. c \in Calls BY <1>10, Zenon DEF streaming_return, TypeOK
  <2>2. f \in Op BY <2>1, NewOpType, Zenon DEF Threads
  <2>3. ops' \in Seq(Op) BY <1>10, <2>2 DEF streaming_return, TypeOK
  <2>4. finished' \in SUBSET Calls BY <1>10, <2>1, Zenon DEF streaming_return, TypeOK
  <2>5. count' \in [Threads -> Nat] BY <1>10, SMTT(30) DEF streaming_return, TypeOK, Threads
  <2> QED BY <1>10, <2>3, <2>4, <2>5, Zenon
          DEF streaming_return, TypeOK, connVars, coreVars, pastVars
<1> QED BY <1>1, <1>2, <1>3, <1>4, <1>5, <1>6, <1>7, <1>8, <1>9, <1>10, Zenon DEF Step

\* So does everything the peers and the owner of the server do.
LEMMA EnvironmentType ==
    ASSUME TypeOK, Environment
    PROVE  TypeOK'
<1>1. CASE poll_error
  <2>1. CASE Leave
    BY <1>1, <2>1, LeaveType, Zenon DEF poll_error, TypeOK, mailVars, writerVars, shared, pastVars
  <2>2. CASE io' = "check" /\ UNCHANGED <<polled, conns, stream>>
    BY <1>1, <2>2, Zenon DEF poll_error, TypeOK, mailVars, writerVars, shared, pastVars
  <2> QED BY <1>1, <2>1, <2>2, Zenon DEF poll_error
<1>2. CASE accept
  <2>1. next_token \in Tokens /\ next_token' \in 1..(MaxConns + 1)
    BY <1>2, BoundsAssumption DEF accept, Tokens, TypeOK
  <2>2. conns' \in [Tokens -> {"absent", "live", "dead"}]
    BY <1>2, <2>1, Zenon DEF accept, TypeOK
  <2> QED BY <1>2, <2>1, <2>2, Zenon
          DEF accept, TypeOK, mailVars, loopVars, writerVars, shared, coreVars, pastVars
<1>3. CASE request_shutdown
  BY <1>3, Zenon DEF request_shutdown, TypeOK, mailVars, loopVars, writerVars, shared, coreVars, pastVars
<1>4. ASSUME NEW c \in Calls, streaming(c) PROVE TypeOK'
  BY <1>4, Zenon DEF streaming, TypeOK, mailVars, connVars, writerVars, shared, pastVars
<1>5. ASSUME NEW c \in Calls, NEW ok \in BOOLEAN, unary(c, ok) PROVE TypeOK'
  <2> DEFINE w == NewOp(IO, c, "Write", Unbounded)
             f == [call |-> c, kind |-> "Finish", from |-> IO, n |-> count[IO] + 2,
                   bp |-> Unbounded]
  <2>1. w \in Op /\ w.n = count[IO] + 1 BY NewOpType, ZenonT(30) DEF Threads
  <2>2. f \in Op
    <3>2. count[IO] \in Nat /\ IO \in Threads BY Zenon DEF TypeOK, Threads
    <3> QED BY <3>2 DEF Op
  <2>3. <<w, f>> \in Seq(Op) /\ <<f>> \in Seq(Op) BY <2>1, <2>2
  <2>4. ops' = ops \o (IF ok THEN <<w, f>> ELSE <<f>>) BY <1>5, Zenon DEF unary
  <2>5. ops' \in Seq(Op) BY <2>3, <2>4 DEF TypeOK
  <2>6. finished' \in SUBSET Calls BY <1>5, Zenon DEF unary, TypeOK
  <2>7. returned' \in SUBSET (Calls \X Threads \X Nat)
    BY <1>5, <2>1, SMTT(30) DEF unary, TypeOK, Threads, Op
  <2>8. count' \in [Threads -> Nat] BY <1>5 DEF unary, TypeOK, Threads
  <2> QED BY <1>5, <2>5, <2>6, <2>7, <2>8, ZenonT(30)
          DEF unary, TypeOK, loopVars, connVars
<1> QED BY <1>1, <1>2, <1>3, <1>4, <1>5, Zenon DEF Environment

\* Every step of the system, and stuttering, keeps the types.
LEMMA NextType == TypeOK /\ [Next]_vars => TypeOK'
<1> SUFFICES ASSUME TypeOK, [Next]_vars PROVE TypeOK' BY Zenon
<1>1. CASE Step BY <1>1, StepType, Zenon
<1>2. CASE Environment BY <1>2, EnvironmentType, Zenon
<1>3. ASSUME NEW t \in Threads, ThreadStep(t) PROVE TypeOK' BY <1>3, ThreadStepType, Zenon
<1>4. CASE UNCHANGED vars
  BY <1>4, Zenon DEF vars, TypeOK, mailVars, loopVars, connVars, writerVars, shared, coreVars, pastVars
<1> QED BY <1>1, <1>2, <1>3, <1>4, Zenon DEF Next

\* The state serve() starts in is well-typed.
LEMMA InitType == Init => TypeOK
<1> SUFFICES ASSUME Init PROVE TypeOK BY Zenon
<1>1. Idle \in [step : {"idle", "swap", "push", "poke"}, op : Op \cup {None}]
      /\ Idle.step = "idle"
  BY Zenon DEF Idle
<1>2. next_token \in 1..(MaxConns + 1) BY BoundsAssumption DEF Init
<1>3. << >> \in Seq(Op) /\ << >> \in Seq(Threads \X Nat) OBVIOUS
<1>4. /\ thread \in [Threads -> [step : {"idle", "swap", "push", "poke"}, op : Op \cup {None}]]
      /\ \A t \in Threads : thread[t].step \in {"swap", "push"} => thread[t].op \in Op
  BY <1>1, Zenon DEF Init
<1>5. /\ ops \in Seq(Op) /\ batch \in Seq(Op)
      /\ applied \in [Calls -> Seq(Threads \X Nat)]
  BY <1>3, Zenon DEF Init
<1>6. /\ count \in [Threads -> Nat]
      /\ stream \in [Calls -> {"none", "open", "finished", "closed", "reset"}]
      /\ queued \in [Calls -> Nat]
      /\ policy \in [Calls -> Policies \cup {Unbounded}]
      /\ finishedBy \in [Calls -> {None, Deadline} \cup (Threads \X Nat)]
      /\ conns \in [Tokens -> {"absent", "live", "dead"}]
  BY Zenon DEF Init
<1> QED BY <1>2, <1>4, <1>5, <1>6, Zenon DEF Init, TypeOK

\* Every variable of serve(), of the mailbox and of the writers keeps its type.
THEOREM TypeCorrect == Spec => []TypeOK
<1>1. Init => TypeOK BY InitType, Zenon
<1>2. TypeOK /\ [Next]_vars => TypeOK' BY NextType, Zenon
<1> QED BY <1>1, <1>2, PTL DEF Spec

-----------------------------------------------------------------------------
(* No lost wakeup.                                                         *)

\* A thread inside a writer operation leaves the loop's position alone; only a
\* running handler lets the I/O thread start one.
LEMMA ThreadStepHandlers ==
    ASSUME TypeOK, HandlersInDispatch, NEW t \in Threads, ThreadStep(t)
    PROVE  HandlersInDispatch'
<1>1. UNCHANGED <<running, io>>
  BY Zenon DEF ThreadStep, write, finish, set_backpressure, finish_swap, push, poke, loopVars
<1>2. t # IO => thread'[IO] = thread[IO]
  BY Zenon DEF ThreadStep, write, finish, set_backpressure, finish_swap, push, poke, TypeOK, Threads
<1>3. t = IO => running # None
  <2>1. ASSUME t = IO, thread[t].step = "idle" PROVE running # None
    <3>1. PICK c \in Calls : HoldsWriter(t, c)
      BY <2>1, Zenon DEF ThreadStep, write, finish, set_backpressure, finish_swap, push, poke
    <3>2. c # None
      <4>1. PICK a \in Tokens, b \in CallIds : c = <<a, b>> BY DEF Calls
      <4>2. Len(<<a, b>>) = 2 /\ Len(<< >>) = 0 BY Zenon
      <4> QED BY <4>1, <4>2, Zenon DEF None
    <3> QED BY <2>1, <3>1, <3>2, Zenon DEF HoldsWriter
  <2> QED BY <2>1, Zenon DEF HandlersInDispatch
<1> QED BY <1>1, <1>2, <1>3, Zenon DEF HandlersInDispatch

\* A handler runs on the I/O thread only inside dispatch (trampoline, server.rs).
LEMMA NextHandlers ==
    ASSUME TypeOK, HandlersInDispatch, [Next]_vars
    PROVE  HandlersInDispatch'
<1>1. CASE Step
  BY <1>1, Zenon DEF HandlersInDispatch, Step, check_shutdown, Leave, poll, drain_wakeup, take, apply,
     apply_done, flush, tick_begin, tick_end, Dispatching, streaming_return, writerVars
<1>2. CASE Environment
  BY <1>2, ZenonT(30) DEF HandlersInDispatch, Environment, poll_error, Leave, accept, request_shutdown,
     streaming, unary, Dispatching, loopVars, writerVars
<1>3. ASSUME NEW t \in Threads, ThreadStep(t) PROVE HandlersInDispatch'
  BY <1>3, ThreadStepHandlers, Zenon
<1>4. CASE UNCHANGED vars
  BY <1>4, Zenon DEF vars, HandlersInDispatch, loopVars, writerVars
<1> QED BY <1>1, <1>2, <1>3, <1>4, Zenon DEF Next

\* A thread inside a ServerWriter operation keeps NoLostWakeup: a push that found the
\* queue empty is followed by its poke, unless the I/O thread itself pushed.
LEMMA ThreadStepWakeup ==
    ASSUME TypeOK, HandlersInDispatch, NoLostWakeup, NEW t \in Threads, ThreadStep(t)
    PROVE  NoLostWakeup'
<1> DEFINE Waiting == io \in {"check", "poll", "apply", "flush"}
<1>1. io' = io
  BY Zenon DEF ThreadStep, write, finish, set_backpressure, finish_swap, push, poke, loopVars
<1>2. CASE poke(t) BY <1>2, Zenon DEF poke, NoLostWakeup
<1>3. CASE push(t)
  <2> SUFFICES ASSUME Waiting
               PROVE  wakeup' \/ \E u \in Producers : thread'[u].step = "poke"
    BY <1>1, Zenon DEF NoLostWakeup
  <2>1. t # IO BY <1>3, Zenon DEF push, HandlersInDispatch
  <2>2. t \in Producers BY <2>1, Zenon DEF Threads
  <2>3. CASE ops = << >>
    <3>1. thread'[t].step = "poke" BY <1>3, <2>1, <2>3, Zenon DEF push, NeedsPoke, TypeOK
    <3> QED BY <2>2, <3>1, Zenon
  <2>4. CASE ops # << >>
    <3>1. CASE wakeup BY <1>3, <3>1, Zenon DEF push
    <3>2. CASE \E u \in Producers : thread[u].step = "poke"
      <4>1. PICK u \in Producers : thread[u].step = "poke" BY <3>2, Zenon
      <4>2. u # t BY <1>3, <4>1, Zenon DEF push
      <4>3. thread'[u] = thread[u] BY <1>3, <4>2, Zenon DEF push, TypeOK, Threads
      <4> QED BY <4>1, <4>3, Zenon
    <3> QED BY <2>4, <3>1, <3>2, Zenon DEF NoLostWakeup
  <2> QED BY <2>3, <2>4, Zenon
<1>4. CASE ~push(t) /\ ~poke(t)
  <2>1. UNCHANGED mailVars
    BY <1>4, Zenon DEF ThreadStep, write, finish, set_backpressure, finish_swap, push, poke
  <2>2. thread[t].step # "poke"
    BY <1>4, Zenon DEF ThreadStep, write, finish, set_backpressure, finish_swap
  <2>3. \A u \in Producers : u # t => thread'[u] = thread[u]
    BY <1>4, Zenon DEF ThreadStep, write, finish, set_backpressure, finish_swap, TypeOK, Threads
  <2> QED BY <1>1, <2>1, <2>2, <2>3, Zenon DEF NoLostWakeup, mailVars
<1> QED BY <1>2, <1>3, <1>4, Zenon

\* Every step keeps NoLostWakeup: serve() clears the eventfd before it takes the queue.
LEMMA NextWakeup ==
    ASSUME TypeOK, HandlersInDispatch, NoLostWakeup, [Next]_vars
    PROVE  NoLostWakeup'
<1>1. CASE Step
  <2>1. CASE take BY <2>1, Zenon DEF take, NoLostWakeup
  <2>2. CASE check_shutdown \/ poll \/ drain_wakeup
    BY <2>2, Zenon DEF NoLostWakeup, check_shutdown, Leave, poll, drain_wakeup, mailVars, writerVars
  <2>3. CASE apply \/ apply_done \/ flush
    BY <2>3, Zenon DEF NoLostWakeup, apply, apply_done, flush, mailVars, writerVars
  <2>4. ASSUME NEW t \in Tokens, tick_begin(t) \/ tick_end(t) PROVE NoLostWakeup'
    BY <2>4, Zenon DEF NoLostWakeup, tick_begin, tick_end
  <2>5. ASSUME NEW ok \in BOOLEAN, streaming_return(ok) PROVE NoLostWakeup'
    BY <2>5, Zenon DEF NoLostWakeup, HandlersInDispatch, streaming_return
  <2> QED BY <1>1, <2>1, <2>2, <2>3, <2>4, <2>5, Zenon DEF Step
<1>2. CASE Environment
  BY <1>2, ZenonT(30) DEF NoLostWakeup, Environment, poll_error, Leave, accept, request_shutdown,
     streaming, unary, Dispatching, mailVars, loopVars, writerVars
<1>3. ASSUME NEW t \in Threads, ThreadStep(t) PROVE NoLostWakeup'
  BY <1>3, ThreadStepWakeup, Zenon
<1>4. CASE UNCHANGED vars
  BY <1>4, Zenon DEF vars, NoLostWakeup, mailVars, loopVars, writerVars
<1> QED BY <1>1, <1>2, <1>3, <1>4, Zenon DEF Next

\* push() may elide every poke but the one of the push that made the mailbox
\* non-empty: an op that waits for serve() always has a wakeup, set or on its way.
THEOREM NoWakeupIsLost == Spec => []NoLostWakeup
<1>1. Init => IInv
  BY InitType DEF IInv, Init, HandlersInDispatch, NoLostWakeup, Threads, Idle
<1>2. IInv /\ [Next]_vars => IInv'
  BY NextType, NextHandlers, NextWakeup, Zenon DEF IInv
<1>3. IInv => NoLostWakeup BY Zenon DEF IInv
<1> QED BY <1>1, <1>2, <1>3, PTL DEF Spec

-----------------------------------------------------------------------------
(* The way of an op from a writer to the core: what the invariants behind   *)
(* WritesInOrder, NoSilentLoss, FirstFinishWins and FinishIsComplete speak  *)
(* of, and what a step can do to it.                                        *)

\* The elements of a sequence.
Range(s) == {s[i] : i \in DOMAIN s}

\* Concatenation is associative.
LEMMA ConcatAssociative ==
    ASSUME NEW S, NEW s \in Seq(S), NEW u \in Seq(S), NEW v \in Seq(S)
    PROVE  s \o (u \o v) = (s \o u) \o v
BY SMTT(30)

\* Appending is concatenating one element.
LEMMA AppendIsConcat ==
    ASSUME NEW S, NEW s \in Seq(S), NEW x \in S
    PROVE  Append(s, x) = s \o <<x>>
OBVIOUS

\* The elements of a sequence over S are in S.
LEMMA RangeOfSeq ==
    ASSUME NEW S, NEW s \in Seq(S)
    PROVE  Range(s) \in SUBSET S
BY DEF Range

\* The elements of two sequences put together.
LEMMA RangeConcatenation ==
    ASSUME NEW S, NEW s \in Seq(S), NEW u \in Seq(S)
    PROVE  Range(s \o u) = Range(s) \cup Range(u)
<1>1. \A i \in DOMAIN s : i \in DOMAIN (s \o u) /\ (s \o u)[i] = s[i]
  OBVIOUS
<1>2. \A i \in DOMAIN u : Len(s) + i \in DOMAIN (s \o u) /\ (s \o u)[Len(s) + i] = u[i]
  OBVIOUS
<1>3. \A i \in DOMAIN (s \o u) : \/ i \in DOMAIN s /\ (s \o u)[i] = s[i]
                                 \/ i - Len(s) \in DOMAIN u /\ (s \o u)[i] = u[i - Len(s)]
  OBVIOUS
<1>4. Range(s) \subseteq Range(s \o u) BY <1>1, Zenon DEF Range
<1>5. Range(u) \subseteq Range(s \o u) BY <1>2, Zenon DEF Range
<1>6. Range(s \o u) \subseteq Range(s) \cup Range(u) BY <1>3, Zenon DEF Range
<1> QED BY <1>4, <1>5, <1>6, Zenon

\* The ops on their way from a writer to the core, in the order they were queued.
Pipe == batch \o ops

\* Thread f has queued its n-th operation.
Behind(f, n) ==
    n <= count[f] /\ (thread[f].step \in {"swap", "push"} => n < thread[f].op.n)

Over == {"finished", "closed", "reset"}

BatchInApply == io # "apply" => batch = << >>

\* An op is made from the writer of a call that was dispatched, and numbered by its thread.
OpsOwned ==
    /\ \A t \in Threads : thread[t].step \in {"swap", "push"} =>
          /\ thread[t].op.from = t
          /\ thread[t].op.n = count[t]
          /\ stream[thread[t].op.call] # "none"
          /\ thread[t].op.kind = "Write" => thread[t].op.bp = Unbounded
          /\ thread[t].step = "swap" => thread[t].op.kind = "Finish"
    /\ \A op \in Range(Pipe) :
          /\ stream[op.call] # "none"
          /\ op.kind = "Write" => op.bp = Unbounded
    /\ running # None => stream[running] # "none"
    /\ \A c \in finished : stream[c] # "none"

Sorted(s) ==
    \A i, j \in DOMAIN s : (i < j /\ s[i].from = s[j].from) => s[i].n < s[j].n

PipeInOrder ==
    /\ Sorted(Pipe)
    /\ \A op \in Range(Pipe) : Behind(op.from, op.n)

\* No operation of thread f up to its n-th is on its way or still to come.
Passed(f, n) ==
    Behind(f, n) /\ \A op \in Range(Pipe) : op.from = f => n < op.n

PastInOrder ==
    \A c \in Calls, f \in Threads, n \in Nat :
        <<f, n>> \in Range(applied[c]) \cup {finishedBy[c]} => Passed(f, n)

\* op is a finish of call c.
FinishFor(op, c) == op.kind = "Finish" /\ op.call = c

-----------------------------------------------------------------------------

\* The step leaves the ops on their way and what became of them alone.
Quiet ==
    /\ UNCHANGED <<ops, batch, thread, count, applied, returned, finished, dead, overflow>>
    /\ \A c \in Calls :
        /\ stream[c] = "open" => stream'[c] # "none"
        /\ stream[c] \in Over => stream'[c] \in Over
        /\ \/ finishedBy'[c] = finishedBy[c]
           \/ stream[c] = "open" /\ finishedBy'[c] = Deadline

\* Thread t starts operation op.
Begins(t, op) ==
    /\ thread[t].step = "idle"
    /\ op.from = t /\ op.n = count[t] + 1 /\ stream[op.call] # "none"
    /\ op.kind = "Write" => op.bp = Unbounded
    /\ thread' = [thread EXCEPT ![t] =
                    [step |-> IF op.kind = "Finish" THEN "swap" ELSE "push", op |-> op]]
    /\ count' = [count EXCEPT ![t] = @ + 1]
    /\ UNCHANGED <<mailVars, loopVars, connVars, shared, coreVars, pastVars>>

\* What flush and the end of a tick do to one stream.
LEMMA FlushingStreams ==
    ASSUME TypeOK, NEW T, NEW gone, NEW expired, Flushing(T, gone, expired),
           expired \subseteq OpenOn(Tokens), NEW c \in Calls
    PROVE  /\ stream[c] = "none" => stream'[c] = "none"
           /\ stream[c] = "open" => stream'[c] # "none"
           /\ stream[c] \in Over => stream'[c] \in Over
           /\ c[1] \in gone => stream'[c] \notin {"open", "finished"}
           /\ stream'[c] \in {"open", "finished"} => stream[c] \in {"open", "finished"}
           /\ stream[c] = "open" /\ c \in expired => stream'[c] \in Over
<1>1. PICK left \in [Calls -> 0..QueueBound] :
        \E done \in SUBSET {d \in Calls :
                  /\ d[1] \in T \ gone /\ left[d] = 0
                  /\ stream[d] = "finished" \/ d \in expired} :
             stream' = [d \in Calls |->
                 IF d[1] \in gone /\ stream[d] \in {"open", "finished"} THEN "reset"
                 ELSE IF d \in done THEN "closed"
                 ELSE IF d \in expired THEN "finished"
                 ELSE stream[d]]
  BY Zenon DEF Flushing
<1>2. PICK done \in SUBSET {d \in Calls :
                  /\ d[1] \in T \ gone /\ left[d] = 0
                  /\ stream[d] = "finished" \/ d \in expired} :
             stream' = [d \in Calls |->
                 IF d[1] \in gone /\ stream[d] \in {"open", "finished"} THEN "reset"
                 ELSE IF d \in done THEN "closed"
                 ELSE IF d \in expired THEN "finished"
                 ELSE stream[d]]
  BY <1>1, Zenon
<1>3. stream'[c] = IF c[1] \in gone /\ stream[c] \in {"open", "finished"} THEN "reset"
                 ELSE IF c \in done THEN "closed"
                 ELSE IF c \in expired THEN "finished"
                 ELSE stream[c]
  BY <1>2, Zenon
<1>4. c \in expired => stream[c] = "open"
  BY Zenon DEF OpenOn
<1>5. c \in done => stream[c] = "finished" \/ c \in expired
  BY <1>2, Zenon
<1>6. stream[c] \in {"none", "open", "finished", "closed", "reset"}
  BY Zenon DEF TypeOK
<1> QED BY <1>3, <1>4, <1>5, <1>6, Zenon DEF Over

\* Every step of serve() other than take, apply and the return of a handler.
LEMMA StepQuiet ==
    ASSUME TypeOK, Step
    PROVE  Quiet \/ take \/ apply \/ \E ok \in BOOLEAN : streaming_return(ok)
<1>1. CASE check_shutdown
  <2>1. UNCHANGED <<ops, batch, thread, count, applied, returned, finished, dead, overflow, finishedBy>>
    BY <1>1, Zenon DEF check_shutdown, mailVars, writerVars, shared, pastVars
  <2>2. \/ stream' = stream
        \/ stream' = [c \in Calls |->
                    IF stream[c] \in {"open", "finished"} THEN "reset" ELSE stream[c]]
    BY <1>1, Zenon DEF check_shutdown, Leave
  <2> QED BY <2>1, <2>2, Zenon DEF Quiet, Over
<1>2. CASE poll \/ drain_wakeup \/ apply_done
  BY <1>2, Zenon DEF poll, drain_wakeup, apply_done, Quiet, mailVars, connVars, writerVars, shared, coreVars, pastVars
<1>3. CASE flush
  <2>1. PICK gone \in SUBSET Live, expired \in SUBSET OpenOn(Live) :
          /\ Flushing(Live, gone, expired)
          /\ finishedBy' = [c \in Calls |->
                              IF c \in expired THEN Deadline ELSE finishedBy[c]]
    BY <1>3, Zenon DEF flush
  <2>2. expired \subseteq OpenOn(Tokens) BY <2>1, Zenon DEF OpenOn, Live
  <2>3. \A c \in Calls : /\ stream[c] = "open" => stream'[c] # "none"
                         /\ stream[c] \in Over => stream'[c] \in Over
    BY <2>1, <2>2, FlushingStreams, Zenon
  <2>4. \A c \in Calls : \/ finishedBy'[c] = finishedBy[c]
                         \/ stream[c] = "open" /\ finishedBy'[c] = Deadline
    BY <2>1, Zenon DEF OpenOn
  <2>5. UNCHANGED <<ops, batch, thread, count, applied, returned, finished, dead, overflow>>
    BY <1>3, Zenon DEF flush, mailVars, writerVars, shared, pastVars
  <2> QED BY <2>3, <2>4, <2>5, Zenon DEF Quiet
<1>4. ASSUME NEW t \in Tokens, tick_begin(t) PROVE Quiet
  <2>1. UNCHANGED <<ops, batch, thread, count, applied, returned, finished, dead, overflow>>
    BY <1>4, Zenon DEF tick_begin, mailVars, connVars, writerVars, shared, pastVars
  <2>2. \A c \in Calls : /\ stream[c] = "open" => stream'[c] # "none"
                         /\ stream[c] \in Over => stream'[c] \in Over
                         /\ \/ finishedBy'[c] = finishedBy[c]
                            \/ stream[c] = "open" /\ finishedBy'[c] = Deadline
    BY <1>4, Zenon DEF tick_begin, OpenOn, Over
  <2> QED BY <2>1, <2>2, Zenon DEF Quiet
<1>5. ASSUME NEW t \in Tokens, tick_end(t) PROVE Quiet
  <2>1. PICK gone \in {{}, {t}} : Flushing({t}, gone, {})
    BY <1>5, Zenon DEF tick_end
  <2>3. \A c \in Calls : /\ stream[c] = "open" => stream'[c] # "none"
                         /\ stream[c] \in Over => stream'[c] \in Over
    BY <2>1, FlushingStreams
  <2>5. UNCHANGED <<ops, batch, thread, count, applied, returned, finished, dead, overflow, finishedBy>>
    BY <1>5, Zenon DEF tick_end, mailVars, writerVars, shared, pastVars
  <2> QED BY <2>3, <2>5, Zenon DEF Quiet
<1> QED BY <1>1, <1>2, <1>3, <1>4, <1>5, Zenon DEF Step

\* ... and every step of the environment other than a unary call.
LEMMA EnvironmentQuiet ==
    ASSUME TypeOK, Environment
    PROVE  Quiet \/ \E c \in Calls, ok \in BOOLEAN : unary(c, ok)
<1>1. CASE poll_error
  <2>1. UNCHANGED <<ops, batch, thread, count, applied, returned, finished, dead, overflow, finishedBy>>
    BY <1>1, Zenon DEF poll_error, mailVars, writerVars, shared, pastVars
  <2>2. \/ stream' = stream
        \/ stream' = [c \in Calls |->
                    IF stream[c] \in {"open", "finished"} THEN "reset" ELSE stream[c]]
    BY <1>1, Zenon DEF poll_error, Leave
  <2> QED BY <2>1, <2>2, Zenon DEF Quiet, Over
<1>2. CASE accept \/ request_shutdown
  BY <1>2, Zenon DEF accept, request_shutdown, Quiet, mailVars, loopVars, writerVars, shared, coreVars, pastVars
<1>3. ASSUME NEW c \in Calls, streaming(c) PROVE Quiet
  <2>1. UNCHANGED <<ops, batch, thread, count, applied, returned, finished, dead, overflow, finishedBy>>
    BY <1>3, Zenon DEF streaming, mailVars, connVars, writerVars, shared, pastVars
  <2>2. stream[c] = "none" /\ stream' = [stream EXCEPT ![c] = "open"]
    BY <1>3, Zenon DEF streaming
  <2> QED BY <2>1, <2>2, Zenon DEF Quiet, Over, TypeOK
<1> QED BY <1>1, <1>2, <1>3, Zenon DEF Environment

\* A thread starts an operation (write, finish, set_backpressure), or goes on with one.
LEMMA ThreadBegins ==
    ASSUME TypeOK, NEW t \in Threads, ThreadStep(t)
    PROVE  (\E op \in Op : Begins(t, op)) \/ finish_swap(t) \/ push(t) \/ poke(t)
<1>1. ASSUME NEW c \in Calls, write(t, c) PROVE \E op \in Op : Begins(t, op)
  <2> DEFINE op == NewOp(t, c, "Write", Unbounded)
  <2>1. op \in Op BY NewOpType, Zenon
  <2>2. Begins(t, op) BY <1>1, Zenon DEF write, Begins, NewOp, HoldsWriter
  <2> QED BY <2>1, <2>2, Zenon
<1>2. ASSUME NEW c \in Calls, finish(t, c) PROVE \E op \in Op : Begins(t, op)
  <2> DEFINE op == NewOp(t, c, "Finish", Unbounded)
  <2>1. op \in Op BY NewOpType, Zenon
  <2>2. Begins(t, op) BY <1>2, Zenon DEF finish, Begins, NewOp, HoldsWriter
  <2> QED BY <2>1, <2>2, Zenon
<1>3. ASSUME NEW c \in Calls, NEW bp \in Policies, set_backpressure(t, c, bp)
      PROVE \E op \in Op : Begins(t, op)
  <2> DEFINE op == NewOp(t, c, "Policy", bp)
  <2>1. op \in Op BY NewOpType, Zenon
  <2>2. Begins(t, op) BY <1>3, Zenon DEF set_backpressure, Begins, NewOp, HoldsWriter
  <2> QED BY <2>1, <2>2, Zenon
<1> QED BY <1>1, <1>2, <1>3, Zenon DEF ThreadStep

\* The steps that matter to the ops on their way; all others are quiet.
LEMMA NextCases ==
    ASSUME TypeOK, [Next]_vars
    PROVE  \/ Quiet \/ take \/ apply
           \/ \E ok \in BOOLEAN : streaming_return(ok)
           \/ \E c \in Calls, ok \in BOOLEAN : unary(c, ok)
           \/ \E t \in Threads : \/ \E op \in Op : Begins(t, op)
                                 \/ finish_swap(t) \/ push(t) \/ poke(t)
<1>1. CASE UNCHANGED vars
  BY <1>1, Zenon DEF vars, Quiet, mailVars, loopVars, connVars, writerVars, shared, coreVars, pastVars
<1> QED BY <1>1, StepQuiet, EnvironmentQuiet, ThreadBegins, Zenon DEF Next

\* What take() returned is applied completely before serve() does anything else.
LEMMA NextBatch ==
    ASSUME TypeOK, BatchInApply, [Next]_vars
    PROVE  BatchInApply'
<1>1. CASE Step
  BY <1>1, Zenon DEF BatchInApply, Step, check_shutdown, Leave, poll, drain_wakeup, take, apply,
     apply_done, flush, tick_begin, tick_end, Dispatching, streaming_return
<1>2. CASE Environment
  BY <1>2, Zenon DEF BatchInApply, Environment, poll_error, Leave, accept, request_shutdown,
     streaming, unary, Dispatching, loopVars
<1>3. ASSUME NEW t \in Threads, ThreadStep(t) PROVE BatchInApply'
  BY <1>3, Zenon DEF BatchInApply, ThreadStep, write, finish, set_backpressure, finish_swap, push, poke, loopVars
<1>4. CASE UNCHANGED vars
  BY <1>4, Zenon DEF vars, BatchInApply, loopVars
<1> QED BY <1>1, <1>2, <1>3, <1>4, Zenon DEF Next

\* What a thread has queued stays queued.
LEMMA BehindStable ==
    ASSUME TypeOK, OpsOwned, [Next]_vars,
           NEW f \in Threads, NEW n \in Nat, Behind(f, n)
    PROVE  Behind(f, n)'
<1> USE DEF Behind
<1>1. CASE UNCHANGED <<thread, count>> BY <1>1, Zenon
<1>2. ASSUME NEW t \in Threads, NEW op \in Op, Begins(t, op) PROVE Behind(f, n)'
  <2>1. /\ count'[f] = IF f = t THEN count[f] + 1 ELSE count[f]
        /\ f # t => thread'[f] = thread[f]
        /\ f = t => thread'[f].op.n = count[f] + 1
    BY <1>2, Zenon DEF Begins, TypeOK
  <2> QED BY <2>1 DEF TypeOK
<1>3. ASSUME NEW t \in Threads, finish_swap(t) PROVE Behind(f, n)'
  <2>1. /\ count' = count
        /\ f # t => thread'[f] = thread[f]
        /\ f = t => thread'[f].step = "idle" \/ thread'[f].op = thread[f].op
        /\ f = t => thread[f].step = "swap"
    BY <1>3, Zenon DEF finish_swap, TypeOK, Idle
  <2> QED BY <2>1, Zenon DEF TypeOK
<1>4. ASSUME NEW t \in Threads, push(t) \/ poke(t) PROVE Behind(f, n)'
  <2>1. /\ count' = count
        /\ f # t => thread'[f] = thread[f]
        /\ f = t => thread'[f].step \in {"idle", "poke"}
    BY <1>4 DEF push, poke, TypeOK, Idle
  <2> QED BY <2>1, Zenon DEF TypeOK
<1>5. ASSUME NEW c \in Calls, NEW ok \in BOOLEAN, unary(c, ok) PROVE Behind(f, n)'
  <2>1. /\ thread' = thread
        /\ count'[f] = IF f = IO THEN count[f] + 2 ELSE count[f]
    BY <1>5, Zenon DEF unary, TypeOK, Threads
  <2> QED BY <2>1 DEF TypeOK
<1>6. ASSUME NEW ok \in BOOLEAN, streaming_return(ok) PROVE Behind(f, n)'
  <2>1. /\ thread' = thread
        /\ count'[f] = count[f] \/ count'[f] = count[f] + 1
    BY <1>6, Zenon DEF streaming_return, TypeOK, Threads
  <2> QED BY <2>1 DEF TypeOK
<1>7. take \/ apply \/ Quiet => UNCHANGED <<thread, count>>
  BY Zenon DEF take, apply, Quiet, writerVars
<1> HIDE DEF Behind
<1> QED BY <1>1, <1>2, <1>3, <1>4, <1>5, <1>6, <1>7, NextCases, Zenon

-----------------------------------------------------------------------------
(* The ops enter the pipe at its end and leave it at its head.             *)

\* One op is a sorted queue, and so are two in the order of their numbers.
LEMMA SingleSeq ==
    ASSUME NEW S, NEW x \in S
    PROVE  <<x>> \in Seq(S) /\ Range(<<x>>) = {x} /\ Sorted(<<x>>)
BY DEF Range, Sorted

\* Likewise for two ops.
LEMMA PairSeq ==
    ASSUME NEW S, NEW x \in S, NEW y \in S
    PROVE  /\ <<x, y>> \in Seq(S) /\ Range(<<x, y>>) = {x, y}
           /\ x.n < y.n => Sorted(<<x, y>>)
<1>1. <<x, y>> \in Seq(S) /\ Len(<<x, y>>) = 2 /\ <<x, y>>[1] = x /\ <<x, y>>[2] = y
      /\ DOMAIN <<x, y>> = 1..2
  OBVIOUS
<1>2. Range(<<x, y>>) = {x, y} BY <1>1 DEF Range
<1>3. x.n < y.n => Sorted(<<x, y>>) BY <1>1 DEF Sorted
<1> QED BY <1>1, <1>2, <1>3, Zenon

\* The pipe is a sequence of ops.
LEMMA PipeType ==
    ASSUME TypeOK
    PROVE  Pipe \in Seq(Op) /\ Range(Pipe) \subseteq Op
<1>1. Pipe \in Seq(Op) BY DEF Pipe, TypeOK
<1> QED BY <1>1, RangeOfSeq, Zenon

\* Ops queued in the mailbox join the pipe at its end.
LEMMA PipeConcat ==
    ASSUME TypeOK, NEW s \in Seq(Op), ops' = ops \o s, batch' = batch
    PROVE  Pipe' = Pipe \o s /\ Range(Pipe') = Range(Pipe) \cup Range(s)
<1>1. Pipe' = Pipe \o s
  <2>1. batch \in Seq(Op) /\ ops \in Seq(Op) BY Zenon DEF TypeOK
  <2>2. PICK b \in Seq(Op), o \in Seq(Op) : b = batch /\ o = ops BY <2>1, Zenon
  <2>3. b \o (o \o s) = (b \o o) \o s BY ConcatAssociative, SMT
  <2> QED BY <2>2, <2>3, Zenon DEF Pipe
<1> QED BY <1>1, PipeType, RangeConcatenation

\* Two sorted queues make one when the first has the smaller numbers of each thread.
LEMMA SortedConcat ==
    ASSUME NEW p \in Seq(Op), NEW s \in Seq(Op), Sorted(p), Sorted(s),
           \A x \in Range(p), y \in Range(s) : x.from = y.from => x.n < y.n
    PROVE  Sorted(p \o s)
<1> SUFFICES ASSUME NEW i \in DOMAIN (p \o s), NEW j \in DOMAIN (p \o s), i < j,
                    (p \o s)[i].from = (p \o s)[j].from
             PROVE  (p \o s)[i].n < (p \o s)[j].n
  BY Zenon DEF Sorted
<1>1. CASE j <= Len(p)
  <2>1. (p \o s)[i] = p[i] /\ (p \o s)[j] = p[j] /\ i \in DOMAIN p /\ j \in DOMAIN p
    BY <1>1
  <2> QED BY <2>1, Zenon DEF Sorted
<1>2. CASE i > Len(p)
  <2>1. (p \o s)[i] = s[i - Len(p)] /\ (p \o s)[j] = s[j - Len(p)]
        /\ i - Len(p) \in DOMAIN s /\ j - Len(p) \in DOMAIN s /\ i - Len(p) < j - Len(p)
    BY <1>2
  <2> QED BY <2>1, Zenon DEF Sorted
<1>3. CASE i <= Len(p) /\ j > Len(p)
  <2>1. (p \o s)[i] = p[i] /\ (p \o s)[j] = s[j - Len(p)]
        /\ i \in DOMAIN p /\ j - Len(p) \in DOMAIN s
    BY <1>3
  <2>2. p[i] \in Range(p) /\ s[j - Len(p)] \in Range(s) BY <2>1, Zenon DEF Range
  <2> QED BY <2>1, <2>2, Zenon
<1>4. i \in 1..(Len(p) + Len(s)) /\ j \in 1..(Len(p) + Len(s)) /\ Len(p) \in Nat /\ Len(s) \in Nat
  OBVIOUS
<1> QED BY <1>1, <1>2, <1>3, <1>4

\* The head of a sorted queue is the oldest op of its thread, and the rest is sorted.
LEMMA SortedTail ==
    ASSUME NEW p \in Seq(Op), p # << >>, Sorted(p)
    PROVE  /\ Tail(p) \in Seq(Op) /\ Sorted(Tail(p)) /\ Head(p) \in Op
           /\ Range(p) = Range(Tail(p)) \cup {Head(p)}
           /\ \A x \in Range(Tail(p)) : x.from = Head(p).from => Head(p).n < x.n
<1>1. /\ Tail(p) \in Seq(Op) /\ Len(p) \in Nat \ {0} /\ Len(Tail(p)) = Len(p) - 1
      /\ \A i \in 1..(Len(p) - 1) : Tail(p)[i] = p[i + 1]
      /\ Head(p) = p[1] /\ Head(p) \in Op
  OBVIOUS
<1>2. DOMAIN p = 1..Len(p) /\ DOMAIN Tail(p) = 1..(Len(p) - 1) BY <1>1
<1>3. Sorted(Tail(p)) BY <1>1, <1>2 DEF Sorted
<1>4. \A x \in Range(Tail(p)) : x.from = Head(p).from => Head(p).n < x.n
  BY <1>1, <1>2 DEF Sorted, Range
<1>5. Range(p) = Range(Tail(p)) \cup {Head(p)}
  <2>1. ASSUME NEW x \in Range(p) PROVE x \in Range(Tail(p)) \cup {Head(p)}
    <3>1. PICK i \in 1..Len(p) : x = p[i] BY <1>2, Zenon DEF Range
    <3>2. CASE i = 1 BY <1>1, <3>1, <3>2, Zenon
    <3>3. CASE i # 1
      <4>1. i - 1 \in DOMAIN Tail(p) /\ Tail(p)[i - 1] = x BY <1>1, <1>2, <3>1, <3>3
      <4> QED BY <4>1, Zenon DEF Range
    <3> QED BY <3>2, <3>3, Zenon
  <2>2. ASSUME NEW x \in Range(Tail(p)) PROVE x \in Range(p)
    <3>1. PICK i \in 1..(Len(p) - 1) : x = Tail(p)[i] BY <1>2, Zenon DEF Range
    <3>2. i + 1 \in DOMAIN p /\ p[i + 1] = x BY <1>1, <1>2, <3>1
    <3> QED BY <3>2, Zenon DEF Range
  <2>3. Head(p) \in Range(p) BY <1>1, <1>2 DEF Range
  <2> QED BY <2>1, <2>2, <2>3, Zenon
<1> QED BY <1>1, <1>3, <1>4, <1>5, Zenon

Writes(w) == [call |-> w[1], kind |-> "Write", from |-> w[2], n |-> w[3], bp |-> Unbounded]

\* The ops s of thread t are queued.
Enqueues(t, s) ==
    /\ Sorted(s) /\ ops' = ops \o s /\ batch' = batch
    /\ \A x \in Range(s) :
        /\ x.from = t /\ stream'[x.call] # "none"
        /\ x.kind = "Write" => x.bp = Unbounded
        /\ \A n \in Nat : Behind(t, n) => n < x.n
        /\ Behind(t, x.n)'
        /\ x.kind = "Finish" => /\ Finishing(t, x.call) \/ x.call \notin finished
                                /\ x.call \in finished'
                                /\ \A y \in Range(s) : y.kind = "Finish" => y = x
    /\ \A u \in Threads, c \in Calls : Finishing(u, c)' => Finishing(u, c) /\ u # t
    /\ finished \subseteq finished'
    /\ \A w \in returned' : w \in returned \/ Writes(w) \in Range(s)
    /\ \A c \in Calls : stream'[c] = stream[c] \/ (stream[c] = "none" /\ stream'[c] = "open")
    /\ UNCHANGED <<applied, finishedBy, dead, overflow, io>>

\* The fields of an op.
LEMMA OpFields ==
    ASSUME NEW op \in Op
    PROVE  /\ op.call \in Calls /\ op.from \in Threads /\ op.n \in Nat
           /\ op.kind \in {"Write", "Finish", "Policy"}
           /\ op = [call |-> op.call, kind |-> op.kind, from |-> op.from, n |-> op.n, bp |-> op.bp]
BY Zenon DEF Op

\* Mailbox::push queues the op of its thread.
LEMMA PushEnqueues ==
    ASSUME TypeOK, OpsOwned, NEW t \in Threads, push(t),
           \A c \in Calls : Finishing(t, c) => c \in finished
    PROVE  \E s \in Seq(Op) : Enqueues(t, s)
<1>0. PICK op : op = thread[t].op BY Zenon
<1>1. op \in Op /\ thread[t].step = "push" BY <1>0, Zenon DEF push, TypeOK
<1>2. op.from = t /\ op.n = count[t] /\ stream[op.call] # "none" /\ (op.kind = "Write" => op.bp = Unbounded)
  BY <1>0, <1>1, Zenon DEF OpsOwned
<1>3. ops' = ops \o <<op>> BY <1>0, <1>1, AppendIsConcat DEF push, TypeOK
<1>4. Range(<<op>>) = {op} /\ Sorted(<<op>>) BY <1>1, SingleSeq, Zenon
<1>5. /\ batch' = batch /\ stream' = stream /\ count' = count
      /\ UNCHANGED <<applied, finishedBy, dead, overflow, io, finished>>
  BY Zenon DEF push, loopVars, coreVars, shared
<1>6. \A n \in Nat : Behind(t, n) => n < op.n BY <1>0, <1>1, Zenon DEF Behind
<1>7. thread'[t].step \in {"idle", "poke"} /\ \A u \in Threads : u # t => thread'[u] = thread[u]
  BY Zenon DEF push, TypeOK, Idle
<1>8. Behind(t, op.n)' BY <1>2, <1>5, <1>7 DEF Behind, TypeOK
<1>9. op.kind = "Finish" => Finishing(t, op.call) /\ op.call \in finished
  BY <1>0, <1>1, OpFields, Zenon DEF Finishing
<1>10. \A u \in Threads, c \in Calls : Finishing(u, c)' => Finishing(u, c) /\ u # t
  BY <1>7, Zenon DEF Finishing
<1>11. \A w \in returned' : w \in returned \/ Writes(w) \in Range(<<op>>)
  <2> SUFFICES ASSUME NEW w \in returned', w \notin returned PROVE Writes(w) = op
    BY <1>4, Zenon
  <2>1. op.kind = "Write" /\ w = <<op.call, t, op.n>> BY <1>0, Zenon DEF push
  <2>2. w[1] = op.call /\ w[2] = t /\ w[3] = op.n BY <2>1, Zenon
  <2> QED BY <1>1, <1>2, <2>1, <2>2, OpFields, Zenon DEF Writes
<1>12. <<op>> \in Seq(Op) BY <1>1, SingleSeq, Zenon
<1>13. Enqueues(t, <<op>>)
  <2>1. \A x \in {op} :
        /\ x.from = t /\ stream'[x.call] # "none"
        /\ x.kind = "Write" => x.bp = Unbounded
        /\ \A n \in Nat : Behind(t, n) => n < x.n
        /\ Behind(t, x.n)'
        /\ x.kind = "Finish" => /\ Finishing(t, x.call) \/ x.call \notin finished
                                /\ x.call \in finished'
                                /\ \A y \in {op} : y.kind = "Finish" => y = x
    <3>1. stream'[op.call] # "none" /\ (op.kind = "Finish" => op.call \in finished')
      BY <1>2, <1>5, <1>9, Zenon
    <3> QED BY <1>2, <1>6, <1>8, <1>9, <3>1, Zenon
  <2> QED BY <1>3, <1>4, <1>5, <1>10, <1>11, <2>1, Zenon DEF Enqueues
<1> QED BY <1>12, <1>13, Zenon

\* The trampoline of a unary method queues the message and the finish of a call that
\* nobody else can have finished.
LEMMA UnaryEnqueues ==
    ASSUME TypeOK, HandlersInDispatch, NEW c \in Calls, NEW ok \in BOOLEAN, unary(c, ok),
           \A d \in Calls : d \in finished => stream[d] # "none"
    PROVE  \E s \in Seq(Op) : Enqueues(IO, s)
<1> DEFINE w == NewOp(IO, c, "Write", Unbounded)
           f == [call |-> c, kind |-> "Finish", from |-> IO, n |-> count[IO] + 2,
                 bp |-> Unbounded]
           s == IF ok THEN <<w, f>> ELSE <<f>>
<1>1. IO \in Threads /\ count[IO] \in Nat BY Zenon DEF TypeOK, Threads
<1>2. w \in Op /\ w = [call |-> c, kind |-> "Write", from |-> IO, n |-> count[IO] + 1, bp |-> Unbounded]
  BY <1>1, NewOpType, Zenon DEF NewOp
<1>3. f \in Op BY <1>1 DEF Op
<1>4. s \in Seq(Op) /\ Sorted(s) /\ Range(s) = IF ok THEN {w, f} ELSE {f}
  <2>1. w.n < f.n BY <1>1, <1>2
  <2> HIDE DEF w, f
  <2>2. CASE ok
    <3>1. <<w, f>> \in Seq(Op) /\ Sorted(<<w, f>>) /\ Range(<<w, f>>) = {w, f}
      BY <1>2, <1>3, <2>1, PairSeq
    <3> QED BY <2>2, <3>1, Zenon
  <2>3. CASE ~ok
    <3>1. <<f>> \in Seq(Op) /\ Sorted(<<f>>) /\ Range(<<f>>) = {f} BY <1>3, SingleSeq, Zenon
    <3> QED BY <2>3, <3>1, Zenon
  <2> QED BY <2>2, <2>3, Zenon
<1>5. thread[IO].step = "idle" BY Zenon DEF unary, Dispatching, HandlersInDispatch
<1>6. /\ thread' = thread /\ count'[IO] = count[IO] + 2
      /\ stream[c] = "none" /\ stream' = [stream EXCEPT ![c] = "open"]
      /\ ops' = ops \o s /\ batch' = batch
      /\ finished' = finished \cup {c}
      /\ returned' = IF ok THEN returned \cup {<<c, IO, w.n>>} ELSE returned
      /\ UNCHANGED <<applied, finishedBy, dead, overflow, io>>
  BY <1>1, Zenon DEF unary, TypeOK, loopVars
<1>7. \A x \in Range(s) : x \in {w, f} BY <1>4, Zenon
<1>8. \A x \in {w, f} :
        /\ x.from = IO /\ x.call = c
        /\ x.kind = "Write" => x.bp = Unbounded
        /\ x.n \in Nat /\ count[IO] < x.n /\ x.n <= count[IO] + 2
        /\ x.kind = "Finish" => x = f
  BY <1>1, <1>2
<1>9. \A x \in {w, f} : \A n \in Nat : Behind(IO, n) => n < x.n
  BY <1>1, <1>8 DEF Behind
<1>10. \A x \in {w, f} : Behind(IO, x.n)'
  BY <1>5, <1>6, <1>8, Zenon DEF Behind
<1>11. \A u \in Threads, d \in Calls : Finishing(u, d)' => Finishing(u, d) /\ u # IO
  BY <1>5, <1>6, Zenon DEF Finishing
<1>12. \A v \in returned' : v \in returned \/ Writes(v) \in Range(s)
  <2> SUFFICES ASSUME NEW v \in returned', v \notin returned PROVE Writes(v) \in Range(s)
    BY Zenon
  <2>1. ok /\ v = <<c, IO, w.n>> BY <1>6, Zenon
  <2>2. Writes(v) = w BY <1>2, <2>1 DEF Writes
  <2> QED BY <1>4, <2>1, <2>2, Zenon
<1>13. c \notin finished BY <1>6, Zenon
<1>14. stream'[c] = "open" /\ \A d \in Calls : stream'[d] = stream[d] \/ (stream[d] = "none" /\ stream'[d] = "open")
  BY <1>6, Zenon DEF TypeOK
<1> HIDE DEF w, f, s
<1>15. Enqueues(IO, s)
  <2>1. \A x \in Range(s) :
        /\ x.from = IO /\ stream'[x.call] # "none"
        /\ x.kind = "Write" => x.bp = Unbounded
        /\ \A n \in Nat : Behind(IO, n) => n < x.n
        /\ Behind(IO, x.n)'
        /\ x.kind = "Finish" => /\ Finishing(IO, x.call) \/ x.call \notin finished
                                /\ x.call \in finished'
                                /\ \A y \in Range(s) : y.kind = "Finish" => y = x
    BY <1>6, <1>7, <1>8, <1>9, <1>10, <1>13, <1>14, ZenonT(30)
  <2>2. finished \subseteq finished' BY <1>6, Zenon
  <2> QED BY <1>4, <1>6, <1>11, <1>12, <1>14, <2>1, <2>2, Zenon DEF Enqueues
<1> QED BY <1>4, <1>15, Zenon

\* The trampoline of a streaming method queues the finish of an aborted call, or nothing.
LEMMA ReturnEnqueues ==
    ASSUME TypeOK, OpsOwned, NEW ok \in BOOLEAN, streaming_return(ok)
    PROVE  \E s \in Seq(Op) : Enqueues(IO, s)
<1>1. IO \in Threads /\ count[IO] \in Nat /\ running \in Calls /\ thread[IO].step = "idle"
  BY Zenon DEF streaming_return, TypeOK, Threads
<1>2. PICK f : f = NewOp(IO, running, "Finish", Unbounded) BY Zenon
<1>3. f \in Op /\ f.call = running /\ f.from = IO /\ f.n = count[IO] + 1 /\ f.kind = "Finish"
  BY <1>1, <1>2, NewOpType, Zenon DEF NewOp
<1>4. /\ thread' = thread /\ batch' = batch /\ stream' = stream /\ returned' = returned
      /\ UNCHANGED <<applied, finishedBy, dead, overflow, io>>
  BY Zenon DEF streaming_return, coreVars, pastVars
<1>5. \A u \in Threads, d \in Calls : Finishing(u, d)' => Finishing(u, d) /\ u # IO
  BY <1>1, <1>4, Zenon DEF Finishing
<1>6. CASE ~ok /\ ~closed(running)
  <2>1. /\ ops' = Append(ops, f) /\ finished' = finished \cup {running}
        /\ count'[IO] = count[IO] + 1 /\ running \notin finished
    BY <1>1, <1>2, <1>6, Zenon DEF streaming_return, closed, TypeOK
  <2>2. ops' = ops \o <<f>> BY <1>3, <2>1, AppendIsConcat DEF TypeOK
  <2>3. <<f>> \in Seq(Op) /\ Range(<<f>>) = {f} /\ Sorted(<<f>>) BY <1>3, SingleSeq, Zenon
  <2>4. \A x \in {f} :
        /\ x.from = IO /\ stream'[x.call] # "none"
        /\ x.kind = "Write" => x.bp = Unbounded
        /\ \A n \in Nat : Behind(IO, n) => n < x.n
        /\ Behind(IO, x.n)'
        /\ x.kind = "Finish" => /\ Finishing(IO, x.call) \/ x.call \notin finished
                                /\ x.call \in finished'
                                /\ \A y \in {f} : y.kind = "Finish" => y = x
    <3>1. stream[running] # "none" BY Zenon DEF OpsOwned, streaming_return
    <3>2. \A n \in Nat : Behind(IO, n) => n < f.n BY <1>1, <1>3 DEF Behind
    <3>3. Behind(IO, f.n)' BY <1>1, <1>3, <1>4, <2>1 DEF Behind
    <3> QED BY <1>3, <1>4, <2>1, <3>1, <3>2, <3>3, Zenon
  <2>5. finished \subseteq finished' BY <2>1, Zenon
  <2>6. Enqueues(IO, <<f>>) BY <1>4, <1>5, <2>2, <2>3, <2>4, <2>5, Zenon DEF Enqueues
  <2> QED BY <2>3, <2>6, Zenon
<1>7. CASE ok \/ closed(running)
  <2>1. ops' = ops /\ finished' = finished BY <1>7, Zenon DEF streaming_return
  <2>2. ops' = ops \o << >> /\ << >> \in Seq(Op) BY <2>1 DEF TypeOK
  <2>3. Range(<< >>) = {} /\ Sorted(<< >>) BY DEF Range, Sorted
  <2>4. Enqueues(IO, << >>) BY <1>4, <1>5, <2>1, <2>2, <2>3, Zenon DEF Enqueues
  <2> QED BY <2>2, <2>4, Zenon
<1> QED BY <1>6, <1>7, Zenon

\* However many clones of a call's writer race, its finish is in one place only.
OneFinishOf(c) ==
    /\ c \notin finished =>
          /\ ~ByWriter(c)
          /\ \A t \in Threads : ~Finishing(t, c)
          /\ \A x \in Range(Pipe) : ~FinishFor(x, c)
    /\ \A t \in Threads : Finishing(t, c) =>
          /\ ~ByWriter(c)
          /\ \A u \in Threads : Finishing(u, c) => u = t
          /\ \A x \in Range(Pipe) : ~FinishFor(x, c)
    /\ \A x \in Range(Pipe) : FinishFor(x, c) =>
          /\ ~ByWriter(c)
          /\ \A y \in Range(Pipe) : FinishFor(y, c) => x = y

OneFinish == \A c \in Calls : OneFinishOf(c)

\* What a step does to the ops on their way.
LEMMA StepKinds ==
    ASSUME TypeOK, HandlersInDispatch, OpsOwned, OneFinish, [Next]_vars
    PROVE  \/ Quiet \/ take \/ apply
           \/ \E t \in Threads : \/ \E s \in Seq(Op) : Enqueues(t, s)
                                 \/ \E op \in Op : Begins(t, op)
                                 \/ finish_swap(t) \/ poke(t)
<1>1. IO \in Threads BY Zenon DEF Threads
<1>2. \A t \in Threads, c \in Calls : Finishing(t, c) => c \in finished BY Zenon DEF OneFinish, OneFinishOf
<1>3. \A t \in Threads : push(t) => \E s \in Seq(Op) : Enqueues(t, s)
  BY <1>2, PushEnqueues, Zenon
<1>4. \A c \in Calls, ok \in BOOLEAN : unary(c, ok) => \E s \in Seq(Op) : Enqueues(IO, s)
  BY UnaryEnqueues, Zenon DEF OpsOwned
<1>5. \A ok \in BOOLEAN : streaming_return(ok) => \E s \in Seq(Op) : Enqueues(IO, s)
  BY ReturnEnqueues, Zenon
<1> QED BY <1>1, <1>3, <1>4, <1>5, NextCases, Zenon

\* take() moves the whole mailbox into an empty batch, so the pipe stays as it is.
LEMMA PipeSame ==
    ASSUME TypeOK, BatchInApply,
           \/ Quiet \/ take
           \/ \E t \in Threads : (\E op \in Op : Begins(t, op)) \/ finish_swap(t) \/ poke(t)
    PROVE  Pipe' = Pipe
<1>1. CASE take
  <2>1. batch = << >> /\ batch' = ops /\ ops' = << >> BY <1>1, Zenon DEF take, Taken, BatchInApply
  <2>2. << >> \o ops = ops /\ ops \o << >> = ops BY DEF TypeOK
  <2> QED BY <2>1, <2>2, Zenon DEF Pipe
<1>2. CASE UNCHANGED <<ops, batch>> BY <1>2, Zenon DEF Pipe
<1> QED BY <1>1, <1>2, Zenon DEF Quiet, Begins, finish_swap, poke, mailVars, loopVars

\* serve() applies the head of the pipe.
LEMMA ApplyPipe ==
    ASSUME TypeOK, PipeInOrder, apply
    PROVE  /\ Pipe # << >> /\ Head(Pipe) = Head(batch) /\ Pipe' = Tail(Pipe)
           /\ Head(batch) \in Op /\ Head(batch) \in Range(Pipe)
           /\ Sorted(Pipe') /\ Range(Pipe) = Range(Pipe') \cup {Head(batch)}
           /\ \A x \in Range(Pipe') : x.from = Head(batch).from => Head(batch).n < x.n
<1>1. batch # << >> /\ batch' = Tail(batch) /\ ops' = ops BY Zenon DEF apply, mailVars
<1>2. Len(batch) \in Nat \ {0} /\ Len(ops) \in Nat BY <1>1 DEF TypeOK
<1>3. Pipe \in Seq(Op) BY PipeType, Zenon
<1>4. Len(Pipe) = Len(batch) + Len(ops) BY DEF Pipe, TypeOK
<1>5. Pipe # << >> /\ Head(Pipe) = Head(batch)
  BY <1>1, <1>2, <1>3, <1>4 DEF Pipe, TypeOK
<1>6. Pipe' = Tail(Pipe)
  <2>1. Tail(batch \o ops) = Tail(batch) \o ops BY <1>1, <1>2 DEF TypeOK
  <2> QED BY <1>1, <2>1, Zenon DEF Pipe
<1>7. Sorted(Pipe) BY Zenon DEF PipeInOrder
<1> HIDE DEF Pipe
<1> QED BY <1>3, <1>5, <1>6, <1>7, SortedTail, Zenon

\* A stream that exists is never forgotten.
LEMMA StreamStays ==
    ASSUME TypeOK, HandlersInDispatch, OpsOwned, OneFinish, [Next]_vars, NEW c \in Calls
    PROVE  /\ stream[c] # "none" => stream'[c] # "none"
           /\ stream[c] \in Over => stream'[c] \in Over
<1>1. CASE Quiet
  <2>1. stream[c] \in {"none", "open", "finished", "closed", "reset"} BY Zenon DEF TypeOK
  <2> QED BY <1>1, <2>1, Zenon DEF Quiet, Over
<1>2. CASE apply BY <1>2, Zenon DEF apply, TypeOK, Over
<1>3. ASSUME NEW t \in Threads, NEW s \in Seq(Op), Enqueues(t, s)
      PROVE  /\ stream[c] # "none" => stream'[c] # "none"
             /\ stream[c] \in Over => stream'[c] \in Over
  BY <1>3, Zenon DEF Enqueues, Over
<1>4. CASE take \/ \E t \in Threads : (\E op \in Op : Begins(t, op)) \/ finish_swap(t) \/ poke(t)
  BY <1>4, Zenon DEF take, Begins, finish_swap, poke, coreVars
<1> QED BY <1>1, <1>2, <1>3, <1>4, StepKinds, Zenon

\* The call of a running handler has a stream.
LEMMA RunningStream ==
    ASSUME TypeOK, HandlersInDispatch, OpsOwned, OneFinish, [Next]_vars
    PROVE  running' # None => stream'[running'] # "none"
<1>1. CASE running' = running
  <2>1. running # None => running \in Calls /\ stream[running] # "none" BY Zenon DEF TypeOK, OpsOwned
  <2> QED BY <1>1, <2>1, StreamStays, Zenon
<1>2. ASSUME NEW c \in Calls, streaming(c) PROVE stream'[running'] # "none"
  BY <1>2, Zenon DEF streaming, TypeOK
<1>3. running' = running \/ running' = None \/ \E c \in Calls : streaming(c)
  <2>1. CASE Step
    BY <2>1, Zenon DEF Step, check_shutdown, poll, drain_wakeup, take, apply,
       apply_done, flush, tick_begin, tick_end, streaming_return
  <2>2. CASE Environment
    BY <2>2, Zenon DEF Environment, poll_error, accept, request_shutdown, unary, loopVars
  <2>3. ASSUME NEW t \in Threads, ThreadStep(t) PROVE running' = running
    BY <2>3, Zenon DEF ThreadStep, write, finish, set_backpressure, finish_swap, push, poke, loopVars
  <2>4. CASE UNCHANGED vars BY <2>4, Zenon DEF vars, loopVars
  <2> QED BY <2>1, <2>2, <2>3, <2>4, Zenon DEF Next
<1> QED BY <1>1, <1>2, <1>3, Zenon

-----------------------------------------------------------------------------
(* What serve() and the mailbox promise the writers of a call.             *)

\* The part of OpsOwned about the operation that thread u is in.
Owned(u) ==
    thread[u].step \in {"swap", "push"} =>
        /\ thread[u].op.from = u
        /\ thread[u].op.n = count[u]
        /\ stream[thread[u].op.call] # "none"
        /\ thread[u].op.kind = "Write" => thread[u].op.bp = Unbounded
        /\ thread[u].step = "swap" => thread[u].op.kind = "Finish"

\* Every step keeps what is known of the operation a thread is in.
LEMMA NextOwned ==
    ASSUME TypeOK, HandlersInDispatch, OpsOwned, OneFinish, [Next]_vars,
           NEW u \in Threads
    PROVE  Owned(u)'
<1>1. Owned(u) BY Zenon DEF OpsOwned, Owned
<1>2. CASE thread'[u] = thread[u] /\ count'[u] = count[u]
  <2>1. thread[u].step \in {"swap", "push"} => thread[u].op \in Op BY Zenon DEF TypeOK
  <2>2. thread[u].step \in {"swap", "push"} => stream'[thread[u].op.call] # "none"
    BY <1>1, <2>1, OpFields, StreamStays, Zenon DEF Owned
  <2> QED BY <1>1, <1>2, <2>2, Zenon DEF Owned
<1>3. CASE thread'[u].step \in {"idle", "poke"} BY <1>3, Zenon DEF Owned
<1>4. ASSUME NEW t \in Threads, NEW op \in Op, Begins(t, op) PROVE Owned(u)'
  <2>1. CASE u # t BY <1>2, <1>4, <2>1, Zenon DEF Begins, TypeOK
  <2>2. CASE u = t
    <3>1. /\ thread'[u].op = op /\ count'[u] = count[u] + 1
          /\ thread'[u].step = IF op.kind = "Finish" THEN "swap" ELSE "push"
          /\ stream' = stream
      BY <1>4, <2>2, Zenon DEF Begins, TypeOK, coreVars
    <3> QED BY <1>4, <2>2, <3>1 DEF Begins, Owned
  <2> QED BY <2>1, <2>2, Zenon
<1>5. ASSUME NEW t \in Threads, finish_swap(t) PROVE Owned(u)'
  <2>1. /\ u # t => thread'[u] = thread[u]
        /\ u = t => \/ thread'[u].step = "idle"
                    \/ thread'[u].step = "push" /\ thread'[u].op = thread[u].op
        /\ count' = count /\ stream' = stream
        /\ u = t => thread[u].step = "swap"
    BY <1>5, ZenonT(30) DEF finish_swap, TypeOK, Idle, coreVars
  <2> QED BY <1>1, <2>1, Zenon DEF Owned
<1>6. ASSUME NEW t \in Threads, push(t) \/ poke(t) PROVE Owned(u)'
  <2>1. /\ u # t => thread'[u] = thread[u]
        /\ u = t => thread'[u].step \in {"idle", "poke"}
        /\ count' = count
    BY <1>6 DEF push, poke, TypeOK, Idle
  <2> QED BY <1>2, <1>3, <2>1, Zenon
<1>7. ASSUME NEW c \in Calls, NEW ok \in BOOLEAN, unary(c, ok) PROVE Owned(u)'
  <2>1. thread' = thread /\ (u # IO => count'[u] = count[u]) BY <1>7, Zenon DEF unary, TypeOK
  <2>2. thread[IO].step = "idle" BY <1>7, Zenon DEF unary, Dispatching, HandlersInDispatch
  <2> QED BY <1>2, <1>3, <2>1, <2>2, Zenon
<1>8. ASSUME NEW ok \in BOOLEAN, streaming_return(ok) PROVE Owned(u)'
  <2>1. thread' = thread /\ (u # IO => count'[u] = count[u]) /\ thread[IO].step = "idle"
    BY <1>8, Zenon DEF streaming_return, TypeOK
  <2> QED BY <1>2, <1>3, <2>1, Zenon
<1>9. CASE Quiet \/ take \/ apply
  BY <1>2, <1>9, Zenon DEF Quiet, take, apply, writerVars
<1> QED BY <1>4, <1>5, <1>6, <1>7, <1>8, <1>9, NextCases, Zenon

\* Where the ops of the next state's pipe come from.
LEMMA PipeGrows ==
    ASSUME TypeOK, HandlersInDispatch, BatchInApply, OpsOwned, PipeInOrder, OneFinish, [Next]_vars,
           NEW x \in Range(Pipe')
    PROVE  \/ x \in Range(Pipe)
           \/ \E t \in Threads, s \in Seq(Op) : Enqueues(t, s) /\ x \in Range(s)
<1>1. CASE apply BY <1>1, ApplyPipe, Zenon
<1>2. ASSUME NEW t \in Threads, NEW s \in Seq(Op), Enqueues(t, s)
      PROVE  x \in Range(Pipe) \/ x \in Range(s)
  <2>1. Range(Pipe') = Range(Pipe) \cup Range(s) BY <1>2, PipeConcat, Zenon DEF Enqueues
  <2> QED BY <2>1, Zenon
<1>3. CASE Pipe' = Pipe BY <1>3, Zenon
<1> QED BY <1>1, <1>2, <1>3, StepKinds, PipeSame, Zenon

\* Every step keeps OpsOwned.
LEMMA NextOpsOwned ==
    ASSUME TypeOK, TypeOK', HandlersInDispatch, BatchInApply, OpsOwned, PipeInOrder, OneFinish, [Next]_vars
    PROVE  OpsOwned'
<1>1. \A u \in Threads : Owned(u)' BY NextOwned, Zenon
<1>2. ASSUME NEW x \in Range(Pipe')
      PROVE  stream'[x.call] # "none" /\ (x.kind = "Write" => x.bp = Unbounded)
  <2>1. CASE x \in Range(Pipe)
    <3>1. x \in Op BY <2>1, PipeType, Zenon
    <3> QED BY <2>1, <3>1, OpFields, StreamStays, Zenon DEF OpsOwned
  <2>2. ASSUME NEW t \in Threads, NEW s \in Seq(Op), Enqueues(t, s), x \in Range(s)
        PROVE  stream'[x.call] # "none" /\ (x.kind = "Write" => x.bp = Unbounded)
    BY <2>2, Zenon DEF Enqueues
  <2> QED BY <2>1, <2>2, PipeGrows, Zenon
<1>3. \A c \in finished' : stream'[c] # "none"
  <2> SUFFICES ASSUME NEW c \in finished' PROVE stream'[c] # "none" BY Zenon
  <2>1. c \in Calls BY Zenon DEF TypeOK
  <2>2. CASE c \in finished BY <2>1, <2>2, StreamStays, Zenon DEF OpsOwned
  <2>3. ASSUME c \notin finished, NEW t \in Threads, finish_swap(t) PROVE stream'[c] # "none"
    <3>1. c = thread[t].op.call /\ thread[t].step = "swap" BY <2>3, Zenon DEF finish_swap
    <3> QED BY <2>1, <3>1, StreamStays, Zenon DEF OpsOwned
  <2>4. ASSUME c \notin finished, NEW d \in Calls, NEW ok \in BOOLEAN, unary(d, ok)
        PROVE  stream'[c] # "none"
    BY <2>4, Zenon DEF unary, TypeOK
  <2>5. ASSUME c \notin finished, NEW ok \in BOOLEAN, streaming_return(ok) PROVE stream'[c] # "none"
    <3>1. c = running /\ running # None /\ stream' = stream BY <2>5, Zenon DEF streaming_return, coreVars
    <3> QED BY <3>1, Zenon DEF OpsOwned
  <2>6. ASSUME \/ Quiet \/ take \/ apply
               \/ \E t \in Threads : (\E op \in Op : Begins(t, op)) \/ push(t) \/ poke(t)
        PROVE  finished' = finished
    BY <2>6, Zenon DEF Quiet, take, apply, Begins, push, poke, writerVars, shared
  <2> QED BY <2>2, <2>3, <2>4, <2>5, <2>6, NextCases, Zenon
<1> QED BY <1>1, <1>2, <1>3, RunningStream, Zenon DEF OpsOwned, Owned

\* Append adds one element.
LEMMA RangeAppend ==
    ASSUME NEW S, NEW s \in Seq(S), NEW x \in S
    PROVE  Range(Append(s, x)) = Range(s) \cup {x}
<1>1. Append(s, x) = s \o <<x>> BY AppendIsConcat, Zenon
<1>2. <<x>> \in Seq(S) /\ Range(<<x>>) = {x} BY SingleSeq, Zenon
<1>3. PICK u \in Seq(S) : u = <<x>> BY <1>2, Zenon
<1>4. Range(s \o u) = Range(s) \cup Range(u) BY RangeConcatenation, SMT
<1> QED BY <1>1, <1>2, <1>3, <1>4, Zenon

\* The ops of one thread stay in the order in which it made them (Mailbox::push, take).
LEMMA NextPipeInOrder ==
    ASSUME TypeOK, HandlersInDispatch, BatchInApply, OpsOwned, PipeInOrder, OneFinish, [Next]_vars
    PROVE  PipeInOrder'
<1>0. Pipe \in Seq(Op) /\ Range(Pipe) \subseteq Op BY PipeType, Zenon
<1>1. ASSUME NEW x \in Range(Pipe') PROVE Behind(x.from, x.n)'
  <2>1. CASE x \in Range(Pipe) BY <1>0, <2>1, OpFields, BehindStable, Zenon DEF PipeInOrder
  <2>2. ASSUME NEW t \in Threads, NEW s \in Seq(Op), Enqueues(t, s), x \in Range(s)
        PROVE  Behind(x.from, x.n)'
    BY <2>2, Zenon DEF Enqueues
  <2> QED BY <2>1, <2>2, PipeGrows, Zenon
<1>2. Sorted(Pipe')
  <2>1. CASE apply BY <2>1, ApplyPipe, Zenon
  <2>2. ASSUME NEW t \in Threads, NEW s \in Seq(Op), Enqueues(t, s) PROVE Sorted(Pipe')
    <3>1. Pipe' = Pipe \o s BY <2>2, PipeConcat, Zenon DEF Enqueues
    <3>2. \A x \in Range(Pipe), y \in Range(s) : x.from = y.from => x.n < y.n
      BY <1>0, <2>2, OpFields, ZenonT(30) DEF Enqueues, PipeInOrder
    <3>3. Sorted(Pipe) /\ Sorted(s) BY <2>2, Zenon DEF Enqueues, PipeInOrder
    <3> QED BY <1>0, <3>1, <3>2, <3>3, SortedConcat, Zenon
  <2>3. CASE Pipe' = Pipe BY <2>3, Zenon DEF PipeInOrder
  <2> QED BY <2>1, <2>2, <2>3, StepKinds, PipeSame, Zenon
<1> QED BY <1>1, <1>2, Zenon DEF PipeInOrder

\* What a thread's ops have passed they never meet again.
LEMMA PassedStable ==
    ASSUME TypeOK, HandlersInDispatch, BatchInApply, OpsOwned, PipeInOrder, OneFinish, [Next]_vars,
           NEW f \in Threads, NEW n \in Nat, Passed(f, n)
    PROVE  Passed(f, n)'
<1>1. Behind(f, n)' BY BehindStable, Zenon DEF Passed
<1>2. ASSUME NEW x \in Range(Pipe'), x.from = f PROVE n < x.n
  <2>1. CASE x \in Range(Pipe) BY <1>2, <2>1, Zenon DEF Passed
  <2>2. ASSUME NEW t \in Threads, NEW s \in Seq(Op), Enqueues(t, s), x \in Range(s)
        PROVE  n < x.n
    BY <1>2, <2>2, Zenon DEF Enqueues, Passed
  <2> QED BY <2>1, <2>2, PipeGrows, Zenon
<1> QED BY <1>1, <1>2, Zenon DEF Passed

\* The head of the pipe is passed once it is applied.
LEMMA ApplyPassed ==
    ASSUME TypeOK, OpsOwned, PipeInOrder, [Next]_vars, apply, NEW x, x = Head(batch)
    PROVE  Passed(x.from, x.n)'
<1>1. x \in Op /\ x \in Range(Pipe) BY ApplyPipe, Zenon
<1>2. Behind(x.from, x.n)' BY <1>1, OpFields, BehindStable, Zenon DEF PipeInOrder
<1>3. \A y \in Range(Pipe') : y.from = x.from => x.n < y.n BY ApplyPipe, Zenon
<1> QED BY <1>2, <1>3, Zenon DEF Passed

\* What changes in the records of a call.
LEMMA PastSteps ==
    ASSUME TypeOK, HandlersInDispatch, OpsOwned, OneFinish, [Next]_vars, NEW c \in Calls
    PROVE  /\ \/ applied'[c] = applied[c]
              \/ /\ apply /\ Head(batch).call = c /\ Head(batch).kind = "Write"
                 /\ OpResult(Head(batch)) = "ok"
                 /\ applied'[c] = Append(applied[c], <<Head(batch).from, Head(batch).n>>)
           /\ \/ finishedBy'[c] = finishedBy[c]
              \/ stream[c] = "open" /\ finishedBy'[c] = Deadline
              \/ /\ apply /\ Head(batch).call = c /\ Head(batch).kind = "Finish"
                 /\ OpResult(Head(batch)) = "ok" /\ stream[c] = "open"
                 /\ finishedBy'[c] = <<Head(batch).from, Head(batch).n>>
<1>1. CASE Quiet BY <1>1, Zenon DEF Quiet
<1>2. CASE apply
  <2>1. \/ applied' = applied
        \/ /\ Head(batch).kind = "Write" /\ OpResult(Head(batch)) = "ok"
           /\ applied' = [applied EXCEPT ![Head(batch).call] = Append(@, <<Head(batch).from, Head(batch).n>>)]
    BY <1>2, Zenon DEF apply
  <2>2. \/ finishedBy' = finishedBy
        \/ /\ Head(batch).kind = "Finish" /\ OpResult(Head(batch)) = "ok"
           /\ stream[Head(batch).call] = "open"
           /\ finishedBy' = [finishedBy EXCEPT ![Head(batch).call] = <<Head(batch).from, Head(batch).n>>]
    BY <1>2, Zenon DEF apply
  <2>3. applied \in [Calls -> Seq(Threads \X Nat)] /\ DOMAIN finishedBy = Calls BY Zenon DEF TypeOK
  <2> QED BY <1>2, <2>1, <2>2, <2>3, Zenon
<1>3. CASE take \/ \E t \in Threads : \/ \E s \in Seq(Op) : Enqueues(t, s)
                                      \/ \E op \in Op : Begins(t, op)
                                      \/ finish_swap(t) \/ poke(t)
  BY <1>3, Zenon DEF take, Enqueues, Begins, finish_swap, poke, coreVars
<1> QED BY <1>1, <1>2, <1>3, StepKinds, Zenon

\* Every step keeps PastInOrder: what is applied is the oldest op of its thread.
LEMMA NextPastInOrder ==
    ASSUME TypeOK, HandlersInDispatch, BatchInApply, OpsOwned, PipeInOrder, OneFinish,
           PastInOrder, [Next]_vars
    PROVE  PastInOrder'
<1> SUFFICES ASSUME NEW c \in Calls, NEW f \in Threads, NEW n \in Nat,
                    <<f, n>> \in Range(applied'[c]) \cup {finishedBy'[c]}
             PROVE  Passed(f, n)'
  BY Zenon DEF PastInOrder
<1>1. CASE <<f, n>> \in Range(applied[c]) \cup {finishedBy[c]}
  BY <1>1, PassedStable, Zenon DEF PastInOrder
<1>2. CASE apply /\ <<f, n>> = <<Head(batch).from, Head(batch).n>>
  <2>1. PICK x : x = Head(batch) BY Zenon
  <2>2. f = x.from /\ n = x.n BY <1>2, <2>1, Zenon
  <2> QED BY <1>2, <2>1, <2>2, ApplyPassed, Zenon
<1>3. \/ Range(applied'[c]) = Range(applied[c])
      \/ apply /\ Range(applied'[c]) = Range(applied[c]) \cup {<<Head(batch).from, Head(batch).n>>}
  <2>1. CASE applied'[c] = applied[c] BY <2>1, Zenon
  <2>2. CASE apply /\ applied'[c] = Append(applied[c], <<Head(batch).from, Head(batch).n>>)
    <3>1. Head(batch) \in Op BY <2>2, ApplyPipe, Zenon
    <3>2. <<Head(batch).from, Head(batch).n>> \in Threads \X Nat BY <3>1, OpFields, Zenon
    <3>3. applied[c] \in Seq(Threads \X Nat) BY Zenon DEF TypeOK
    <3> QED BY <2>2, <3>2, <3>3, RangeAppend, SMTT(30)
  <2> QED BY <2>1, <2>2, PastSteps, Zenon
<1>4. <<f, n>> # Deadline
  <2>1. Len(<<f, n>>) = 2 /\ Len(<< "deadline" >>) = 1 BY Zenon
  <2> QED BY <2>1, Zenon DEF Deadline
<1> QED BY <1>1, <1>2, <1>3, <1>4, PastSteps

\* Every step keeps WritesInOrder.
LEMMA NextWritesInOrder ==
    ASSUME TypeOK, HandlersInDispatch, OpsOwned, PipeInOrder, OneFinish,
           PastInOrder, WritesInOrder, [Next]_vars
    PROVE  WritesInOrder'
<1> SUFFICES ASSUME NEW c \in Calls, NEW i \in DOMAIN applied'[c], NEW j \in DOMAIN applied'[c],
                    i < j, applied'[c][i][1] = applied'[c][j][1]
             PROVE  applied'[c][i][2] < applied'[c][j][2]
  BY Zenon DEF WritesInOrder
<1>0. applied[c] \in Seq(Threads \X Nat) BY Zenon DEF TypeOK
<1>1. CASE applied'[c] = applied[c] BY <1>1, Zenon DEF WritesInOrder
<1>2. CASE apply /\ applied'[c] = Append(applied[c], <<Head(batch).from, Head(batch).n>>)
  <2>1. PICK x : x = Head(batch) BY Zenon
  <2>2. x \in Op /\ x \in Range(Pipe) BY <1>2, <2>1, ApplyPipe, Zenon
  <2>3. /\ i \in 1..(Len(applied[c]) + 1) /\ j \in 1..(Len(applied[c]) + 1) /\ Len(applied[c]) \in Nat
        /\ applied'[c][Len(applied[c]) + 1] = <<x.from, x.n>>
        /\ \A k \in 1..Len(applied[c]) : applied'[c][k] = applied[c][k] /\ k \in DOMAIN applied[c]
    <3>0. <<x.from, x.n>> \in Threads \X Nat BY <2>2, OpFields, Zenon
    <3>1. PICK p \in Seq(Threads \X Nat), y \in Threads \X Nat :
            p = applied[c] /\ y = <<x.from, x.n>>
      BY <1>0, <3>0, Zenon
    <3>2. applied'[c] = Append(p, y) BY <1>2, <2>1, <3>1, Zenon
    <3>3. /\ DOMAIN Append(p, y) = 1..(Len(p) + 1) /\ Len(p) \in Nat
          /\ Append(p, y)[Len(p) + 1] = y
          /\ \A k \in 1..Len(p) : Append(p, y)[k] = p[k] /\ k \in DOMAIN p
      OBVIOUS
    <3>4. i \in DOMAIN Append(p, y) /\ j \in DOMAIN Append(p, y) BY <3>2, Zenon
    <3> QED BY <3>1, <3>2, <3>3, <3>4, Zenon
  <2>4. CASE j = Len(applied[c]) + 1
    <3>1. i \in DOMAIN applied[c] /\ applied'[c][i] = applied[c][i] BY <2>3, <2>4
    <3>2. Passed(applied[c][i][1], applied[c][i][2])
      <4>1. PICK f \in Threads, n \in Nat : applied[c][i] = <<f, n>>
        <5>1. applied[c][i] \in Threads \X Nat BY <1>0, <3>1
        <5> QED BY <5>1
      <4>2. <<f, n>> \in Range(applied[c]) BY <3>1, <4>1, Zenon DEF Range
      <4>3. Passed(f, n) BY <4>2, Zenon DEF PastInOrder
      <4> QED BY <4>1, <4>3
    <3>3. x.from = applied[c][i][1] BY <2>3, <2>4, <3>1
    <3> QED BY <2>2, <2>3, <2>4, <3>1, <3>2, <3>3 DEF Passed
  <2>5. CASE j # Len(applied[c]) + 1
    <3>1. i \in 1..Len(applied[c]) /\ j \in 1..Len(applied[c]) BY <2>3, <2>5
    <3> QED BY <2>3, <3>1, Zenon DEF WritesInOrder
  <2> QED BY <2>4, <2>5, Zenon
<1> QED BY <1>1, <1>2, PastSteps, Zenon

\* Every step keeps OneFinish: only the winner of the swap on `finished` queues a finish.
LEMMA NextOneFinish ==
    ASSUME TypeOK, HandlersInDispatch, BatchInApply, OpsOwned, PipeInOrder, OneFinish, [Next]_vars
    PROVE  OneFinish'
<1> SUFFICES ASSUME NEW c \in Calls PROVE OneFinishOf(c)'
  BY Zenon DEF OneFinish
<1>0. OneFinishOf(c) BY Zenon DEF OneFinish
\* Steps that leave the pipe and do not finish a thread's swap.
<1>1. CASE /\ Pipe' = Pipe /\ finished \subseteq finished'
           /\ ByWriter(c)' => ByWriter(c)
           /\ \A t \in Threads : Finishing(t, c)' => Finishing(t, c)
  BY <1>0, <1>1, Zenon DEF OneFinishOf
<1>2. CASE Quiet \/ take
  <2>1. Pipe' = Pipe BY <1>2, PipeSame, Zenon
  <2>2. thread' = thread /\ finished' = finished
        /\ (finishedBy'[c] = finishedBy[c] \/ finishedBy'[c] = Deadline)
    BY <1>2, Zenon DEF Quiet, take, writerVars, shared, coreVars
  <2> QED BY <1>1, <2>1, <2>2, Zenon DEF ByWriter, Finishing
<1>3. ASSUME NEW t \in Threads, poke(t) \/ \E op \in Op : Begins(t, op)
      PROVE  OneFinishOf(c)'
  <2>1. Pipe' = Pipe BY <1>3, PipeSame, Zenon
  <2>2. finished' = finished /\ finishedBy' = finishedBy
    BY <1>3, Zenon DEF poke, Begins, shared, coreVars
  <2>3. ASSUME NEW u \in Threads, Finishing(u, c)' PROVE Finishing(u, c)
    <3>1. CASE poke(t) BY <2>3, <3>1, Zenon DEF poke, Finishing, TypeOK, Idle
    <3>2. ASSUME NEW op \in Op, Begins(t, op) PROVE Finishing(u, c)
      <4>1. u # t => thread'[u] = thread[u] BY <3>2, Zenon DEF Begins, TypeOK
      <4>2. u = t => /\ thread'[u].op = op
                     /\ thread'[u].step = IF op.kind = "Finish" THEN "swap" ELSE "push"
        BY <3>2, Zenon DEF Begins, TypeOK
      <4> QED BY <2>3, <4>1, <4>2, Zenon DEF Finishing
    <3> QED BY <1>3, <3>1, <3>2, Zenon
  <2> QED BY <1>1, <2>1, <2>2, <2>3, Zenon DEF ByWriter
<1>4. ASSUME NEW t \in Threads, finish_swap(t) PROVE OneFinishOf(c)'
  <2>1. Pipe' = Pipe BY <1>4, PipeSame, Zenon
  <2>2. finishedBy' = finishedBy /\ thread[t].step = "swap"
        /\ finished' = finished \cup {thread[t].op.call}
    BY <1>4, Zenon DEF finish_swap, coreVars
  <2>3. \A u \in Threads : u # t => thread'[u] = thread[u] BY <1>4, Zenon DEF finish_swap, TypeOK
  <2>4. CASE thread[t].op.call \in finished
    <3>1. thread'[t].step = "idle" BY <1>4, <2>4, Zenon DEF finish_swap, LostSwap, TypeOK, Idle
    <3> QED BY <1>1, <2>1, <2>2, <2>3, <3>1, Zenon DEF ByWriter, Finishing
  <2>5. CASE thread[t].op.call \notin finished /\ thread[t].op.call # c
    <3>1. thread'[t].op = thread[t].op BY <1>4, <2>5, Zenon DEF finish_swap, LostSwap, TypeOK
    <3> QED BY <1>1, <2>1, <2>2, <2>3, <2>5, <3>1, Zenon DEF ByWriter, Finishing
  <2>6. CASE thread[t].op.call \notin finished /\ thread[t].op.call = c
    <3>1. c \notin finished /\ c \in finished' BY <2>2, <2>6, Zenon
    <3>2. ~ByWriter(c)' BY <1>0, <2>2, <3>1, Zenon DEF ByWriter, OneFinishOf
    <3>3. \A u \in Threads : Finishing(u, c)' => u = t
      BY <1>0, <2>3, <3>1, Zenon DEF Finishing, OneFinishOf
    <3>4. \A x \in Range(Pipe') : ~FinishFor(x, c) BY <1>0, <2>1, <3>1, Zenon DEF OneFinishOf
    <3> QED BY <3>1, <3>2, <3>3, <3>4, Zenon DEF OneFinishOf
  <2> QED BY <2>4, <2>5, <2>6, Zenon
<1>6. ASSUME NEW t \in Threads, NEW s \in Seq(Op), Enqueues(t, s)
      PROVE  OneFinishOf(c)'
  <2>1. Range(Pipe') = Range(Pipe) \cup Range(s) BY <1>6, PipeConcat, Zenon DEF Enqueues
  <2>2. ByWriter(c)' => ByWriter(c) BY <1>6, Zenon DEF Enqueues, ByWriter
  <2>3. \A u \in Threads : Finishing(u, c)' => Finishing(u, c) /\ u # t BY <1>6, Zenon DEF Enqueues
  <2>4. finished \subseteq finished' BY <1>6, Zenon DEF Enqueues
  <2>5. \A x \in Range(s) : FinishFor(x, c) =>
           /\ Finishing(t, c) \/ c \notin finished
           /\ c \in finished'
           /\ \A y \in Range(s) : FinishFor(y, c) => y = x
    BY <1>6, Zenon DEF Enqueues, FinishFor
  <2>6. CASE \A x \in Range(s) : ~FinishFor(x, c)
    BY <1>0, <2>1, <2>2, <2>3, <2>4, <2>6, Zenon DEF OneFinishOf
  <2>7. CASE \E x \in Range(s) : FinishFor(x, c)
    <3>1. Finishing(t, c) \/ c \notin finished BY <2>5, <2>7, Zenon
    <3>2. c \in finished' BY <2>5, <2>7, Zenon
    <3>3. ~ByWriter(c)' /\ \A x \in Range(Pipe) : ~FinishFor(x, c) BY <1>0, <2>2, <3>1, Zenon DEF OneFinishOf
    <3>4. \A u \in Threads : ~Finishing(u, c)' BY <1>0, <2>3, <3>1, Zenon DEF OneFinishOf
    <3> QED BY <2>1, <2>5, <3>2, <3>3, <3>4, Zenon DEF OneFinishOf
  <2> QED BY <2>6, <2>7, Zenon
<1>7. CASE apply
  <2>1. PICK h : h = Head(batch) BY Zenon
  <2>2. h \in Range(Pipe) /\ Range(Pipe) = Range(Pipe') \cup {h} /\ h \in Op
        /\ \A x \in Range(Pipe') : x.from = h.from => h.n < x.n
    BY <1>7, <2>1, ApplyPipe, Zenon
  <2>3. h \notin Range(Pipe') BY <2>2, OpFields
  <2>4. thread' = thread /\ finished' = finished BY <1>7, Zenon DEF apply
  <2>5. \A u \in Threads : Finishing(u, c)' => Finishing(u, c) BY <2>4, Zenon DEF Finishing
  <2>6. ByWriter(c)' => ByWriter(c) \/ FinishFor(h, c)
    BY <1>7, <2>1, PastSteps, Zenon DEF ByWriter, FinishFor
  <2>7. CASE FinishFor(h, c)
    <3>1. \A x \in Range(Pipe') : ~FinishFor(x, c) BY <1>0, <2>2, <2>3, <2>7, Zenon DEF OneFinishOf
    <3>2. \A u \in Threads : ~Finishing(u, c) BY <1>0, <2>2, <2>7, Zenon DEF OneFinishOf
    <3>3. c \in finished BY <1>0, <2>2, <2>7, Zenon DEF OneFinishOf
    <3> QED BY <2>4, <2>5, <3>1, <3>2, <3>3, Zenon DEF OneFinishOf
  <2>8. CASE ~FinishFor(h, c)
    BY <1>0, <2>2, <2>4, <2>5, <2>6, <2>8, Zenon DEF OneFinishOf
  <2> QED BY <2>7, <2>8, Zenon
<1> QED BY <1>2, <1>3, <1>4, <1>6, <1>7, StepKinds, Zenon

\* What became of a write that returned Ok.
Fate(w) ==
    \/ Writes(w) \in Range(Pipe)
    \/ <<w[2], w[3]>> \in Range(applied[w[1]])
    \/ w[1] \in dead \cup overflow
    \/ io = "stopped"

\* The ops of the pipe are those of the batch and of the mailbox.
LEMMA RangeIsUnion ==
    ASSUME TypeOK
    PROVE  Range(Pipe) = Range(batch) \cup Range(ops)
BY RangeConcatenation DEF Pipe, TypeOK

\* NoSilentLoss in terms of the pipe.
LEMMA LossIsFate ==
    ASSUME TypeOK
    PROVE  NoSilentLoss <=> \A w \in returned : Fate(w)
<1>1. \A op : Queued(op) <=> op \in Range(Pipe)
  <2>1. \A op : Queued(op) <=> op \in Range(batch) \/ op \in Range(ops) BY Zenon DEF Queued, Range
  <2> QED BY <2>1, RangeIsUnion, Zenon
<1>2. \A w \in returned : (\E i \in DOMAIN applied[w[1]] : applied[w[1]][i] = <<w[2], w[3]>>)
                              <=> <<w[2], w[3]>> \in Range(applied[w[1]])
  BY Zenon DEF Range
<1> QED BY <1>1, <1>2, Zenon DEF NoSilentLoss, Fate, Writes

\* Nothing the core has accepted, and nothing a writer can see, is taken back.
LEMMA Monotone ==
    ASSUME TypeOK, HandlersInDispatch, OpsOwned, PipeInOrder, OneFinish, [Next]_vars
    PROVE  /\ \A c \in Calls : Range(applied[c]) \subseteq Range(applied'[c])
           /\ dead \subseteq dead' /\ overflow \subseteq overflow'
           /\ io = "stopped" => io' = "stopped"
<1>1. ASSUME NEW c \in Calls PROVE Range(applied[c]) \subseteq Range(applied'[c])
  <2>1. CASE applied'[c] = applied[c] BY <2>1, Zenon
  <2>2. CASE apply /\ applied'[c] = Append(applied[c], <<Head(batch).from, Head(batch).n>>)
    <3>1. Head(batch) \in Op BY <2>2, ApplyPipe, Zenon
    <3>2. <<Head(batch).from, Head(batch).n>> \in Threads \X Nat BY <3>1, OpFields, Zenon
    <3>3. applied[c] \in Seq(Threads \X Nat) BY Zenon DEF TypeOK
    <3>4. PICK e \in Threads \X Nat : e = <<Head(batch).from, Head(batch).n>> BY <3>2
    <3>5. Range(Append(applied[c], e)) = Range(applied[c]) \cup {e} BY <3>3, RangeAppend
    <3> QED BY <2>2, <3>4, <3>5, Zenon
  <2> QED BY <2>1, <2>2, PastSteps, Zenon
<1>2. dead \subseteq dead' /\ overflow \subseteq overflow'
  BY StepKinds, Zenon DEF Quiet, take, apply, Enqueues, Begins, finish_swap, poke, writerVars, shared
<1>3. io = "stopped" => io' = "stopped"
  <2>1. CASE Step
    BY <2>1, Zenon DEF Step, check_shutdown, poll, drain_wakeup, take, apply,
       apply_done, flush, tick_begin, tick_end, Dispatching, streaming_return
  <2>2. CASE Environment
    BY <2>2, Zenon DEF Environment, poll_error, accept, request_shutdown, unary, streaming, loopVars
  <2>3. ASSUME NEW t \in Threads, ThreadStep(t) PROVE io' = io
    BY <2>3, Zenon DEF ThreadStep, write, finish, set_backpressure, finish_swap, push, poke, loopVars
  <2>4. CASE UNCHANGED vars BY <2>4, Zenon DEF vars, loopVars
  <2> QED BY <2>1, <2>2, <2>3, <2>4, Zenon DEF Next
<1> QED BY <1>1, <1>2, <1>3, Zenon

\* The writes that return in a step are the ones it queues.
LEMMA ReturnedSteps ==
    ASSUME TypeOK, HandlersInDispatch, OpsOwned, OneFinish, [Next]_vars,
           NEW w \in returned', w \notin returned
    PROVE  \E t \in Threads, s \in Seq(Op) : Enqueues(t, s) /\ Writes(w) \in Range(s)
<1>1. ASSUME \/ Quiet \/ take \/ apply
             \/ \E t \in Threads : (\E op \in Op : Begins(t, op)) \/ finish_swap(t) \/ poke(t)
      PROVE  returned' = returned
  BY <1>1, Zenon DEF Quiet, take, apply, Begins, finish_swap, poke, pastVars
<1> QED BY <1>1, StepKinds, Zenon DEF Enqueues

\* Every step keeps the fate of a write: serve() accepts it or marks its call.
LEMMA NextFate ==
    ASSUME TypeOK, HandlersInDispatch, BatchInApply, OpsOwned, PipeInOrder, OneFinish,
           \A w \in returned : Fate(w), [Next]_vars, NEW w \in returned'
    PROVE  Fate(w)'
<1>1. CASE w \notin returned
  <2>1. PICK t \in Threads, s \in Seq(Op) : Enqueues(t, s) /\ Writes(w) \in Range(s)
    BY <1>1, ReturnedSteps, Zenon
  <2>2. Range(Pipe') = Range(Pipe) \cup Range(s) BY <2>1, PipeConcat, Zenon DEF Enqueues
  <2> QED BY <2>1, <2>2, Zenon DEF Fate
<1>2. CASE w \in returned
  <2>0. w[1] \in Calls BY <1>2, Zenon DEF TypeOK
  <2>1. CASE ~(Writes(w) \in Range(Pipe))
    BY <1>2, <2>0, <2>1, Monotone, Zenon DEF Fate
  <2>2. CASE Writes(w) \in Range(Pipe) /\ ~apply
    <3>1. Range(Pipe) \subseteq Range(Pipe')
      <4>1. ASSUME NEW t \in Threads, NEW s \in Seq(Op), Enqueues(t, s)
            PROVE  Range(Pipe) \subseteq Range(Pipe')
        <5>1. Range(Pipe') = Range(Pipe) \cup Range(s) BY <4>1, PipeConcat, Zenon DEF Enqueues
        <5> QED BY <5>1, Zenon
      <4> QED BY <2>2, <4>1, StepKinds, PipeSame, Zenon
    <3> QED BY <2>2, <3>1, Zenon DEF Fate
  <2>3. CASE Writes(w) \in Range(Pipe) /\ apply /\ Writes(w) # Head(batch)
    <3>1. Range(Pipe) = Range(Pipe') \cup {Head(batch)} BY <2>3, ApplyPipe, Zenon
    <3> QED BY <2>3, <3>1, Zenon DEF Fate
  <2>4. CASE apply /\ Writes(w) = Head(batch)
    <3>1. PICK h : h = Head(batch) BY Zenon
    <3>2. h.call = w[1] /\ h.kind = "Write" /\ h.from = w[2] /\ h.n = w[3]
      BY <2>4, <3>1 DEF Writes
    <3>3. PICK res : res = OpResult(h) BY Zenon
    <3>4. res \in {"not_found", "finished", "full", "ok"} BY <3>3, Zenon DEF OpResult
    <3>5. CASE res \in {"not_found", "finished"}
      BY <2>4, <3>1, <3>2, <3>3, <3>5, Zenon DEF apply, MarksDead, Fate
    <3>6. CASE res = "full"
      BY <2>4, <3>1, <3>2, <3>3, <3>6, Zenon DEF apply, MarksOverflow, Fate
    <3>7. CASE res = "ok"
      <4>1. applied' = [applied EXCEPT ![h.call] = Append(@, <<h.from, h.n>>)]
        BY <2>4, <3>1, <3>2, <3>3, <3>7, Zenon DEF apply
      <4>2. h \in Op BY <2>4, <3>1, ApplyPipe, Zenon
      <4>3. <<h.from, h.n>> \in Threads \X Nat /\ h.call \in Calls BY <4>2, OpFields, Zenon
      <4>4. applied \in [Calls -> Seq(Threads \X Nat)] BY Zenon DEF TypeOK
      <4>5. applied'[h.call] = Append(applied[h.call], <<h.from, h.n>>) BY <4>1, <4>3, <4>4, Zenon
      <4>6. Range(Append(applied[h.call], <<h.from, h.n>>))
              = Range(applied[h.call]) \cup {<<h.from, h.n>>}
        <5>1. applied[h.call] \in Seq(Threads \X Nat) BY <4>3, <4>4, Zenon
        <5>2. PICK a \in Seq(Threads \X Nat), p \in Threads \X Nat :
                a = applied[h.call] /\ p = <<h.from, h.n>>
          BY <4>3, <5>1, Zenon
        <5>3. Range(Append(a, p)) = Range(a) \cup {p} BY RangeAppend
        <5> QED BY <5>2, <5>3, Zenon
      <4> QED BY <3>2, <4>5, <4>6, Zenon DEF Fate
    <3> QED BY <3>4, <3>5, <3>6, <3>7, Zenon
  <2> QED BY <2>1, <2>2, <2>3, <2>4, Zenon
<1> QED BY <1>1, <1>2, Zenon

-----------------------------------------------------------------------------

\* A stream is open only on a live connection, and a call whose writers were told that
\* it is dead, or whose finish took effect, has a stream that is over.
StreamsLive ==
    /\ \A c \in dead : stream[c] \in Over
    /\ \A c \in Calls : ByWriter(c) => stream[c] \in Over
    /\ \A c \in Calls : stream[c] \in {"open", "finished"} => conns[c[1]] = "live"
    /\ io # "stopped" => \A t \in polled : conns[t] = "live"
    /\ io \in {"apply", "flush"} => polled = {}

\* Every step keeps the part of StreamsLive about calls that are over.
LEMMA NextOver ==
    ASSUME TypeOK, HandlersInDispatch, OpsOwned, PipeInOrder, OneFinish, StreamsLive, [Next]_vars
    PROVE  /\ \A c \in dead' : stream'[c] \in Over
           /\ \A c \in Calls : ByWriter(c)' => stream'[c] \in Over
<1>1. ASSUME NEW c \in dead' PROVE stream'[c] \in Over
  <2>1. CASE c \in dead
    <3>1. c \in Calls BY <2>1, Zenon DEF TypeOK
    <3> QED BY <2>1, <3>1, StreamStays, Zenon DEF StreamsLive
  <2>2. CASE apply /\ c = Head(batch).call /\ OpResult(Head(batch)) \in {"not_found", "finished"}
    <3>1. PICK h : h = Head(batch) BY Zenon
    <3>2. h \in Op /\ h \in Range(Pipe) BY <2>2, <3>1, ApplyPipe, Zenon
    <3>3. c \in Calls /\ stream[c] # "none" BY <2>2, <3>1, <3>2, OpFields, Zenon DEF OpsOwned
    <3>4. stream[c] \in {"open", "finished", "closed", "reset"} BY <3>3, Zenon DEF TypeOK
    <3>5. stream[c] \in Over
      BY <2>2, <3>1, <3>3, <3>4, Zenon DEF OpResult, StreamsLive, Over
    <3> QED BY <3>3, <3>5, StreamStays, Zenon
  <2>3. c \in dead \/ (apply /\ c = Head(batch).call /\ OpResult(Head(batch)) \in {"not_found", "finished"})
    BY StepKinds, Zenon DEF Quiet, take, apply, MarksDead, Enqueues, Begins, finish_swap, poke, writerVars, shared
  <2> QED BY <2>1, <2>2, <2>3, Zenon
<1>2. ASSUME NEW c \in Calls, ByWriter(c)' PROVE stream'[c] \in Over
  <2>1. CASE finishedBy'[c] = finishedBy[c]
    BY <1>2, <2>1, StreamStays, Zenon DEF ByWriter, StreamsLive
  <2>2. CASE finishedBy'[c] = Deadline BY <1>2, <2>2, ZenonT(30) DEF ByWriter
  <2>3. CASE /\ apply /\ Head(batch).call = c /\ Head(batch).kind = "Finish"
             /\ OpResult(Head(batch)) = "ok" /\ stream[c] = "open"
    BY <2>3, Zenon DEF apply, TypeOK, Over
  <2> QED BY <2>1, <2>2, <2>3, PastSteps, Zenon
<1> QED BY <1>1, <1>2, Zenon

\* The parts of StreamsLive about the connections.
OpenIsLive  == \A c \in Calls : stream[c] \in {"open", "finished"} => conns[c[1]] = "live"
PolledLive  == io # "stopped" => \A t \in polled : conns[t] = "live"
AllTicked   == io \in {"apply", "flush"} => polled = {}

\* Every step keeps streams on live connections, and ticks live connections only.
LEMMA NextConns ==
    ASSUME TypeOK, OpenIsLive, PolledLive, AllTicked, [Next]_vars
    PROVE  OpenIsLive' /\ PolledLive' /\ AllTicked'
<1> USE DEF OpenIsLive, PolledLive, AllTicked
<1>0. \A c \in Calls : c[1] \in Tokens BY Zenon DEF Calls
<1>1. ASSUME Leave PROVE OpenIsLive' /\ PolledLive' /\ AllTicked'
  BY <1>1, Zenon DEF Leave, TypeOK
<1>2. CASE Step
  <2>1. CASE check_shutdown
    BY <1>1, <2>1, Zenon DEF check_shutdown, Live
  <2>2. CASE poll \/ drain_wakeup \/ take \/ apply_done
    BY <2>2, Zenon DEF poll, drain_wakeup, take, apply_done, connVars, coreVars
  <2>3. CASE apply
    <3>1. UNCHANGED <<io, polled, conns>> BY <2>3, Zenon DEF apply, connVars
    <3>2. \A c \in Calls : stream'[c] = stream[c] \/ stream[c] = "open"
      BY <2>3, Zenon DEF apply, TypeOK
    <3> QED BY <3>1, <3>2, Zenon
  <2>4. CASE flush
    <3>1. PICK gone \in SUBSET Live, expired \in SUBSET OpenOn(Live) :
            /\ Flushing(Live, gone, expired)
            /\ conns' = [t \in Tokens |-> IF conns[t] = "live" /\ t \notin gone
                                          THEN "live" ELSE "absent"]
      BY <2>4, Zenon DEF flush
    <3>2. expired \subseteq OpenOn(Tokens) BY <3>1, Zenon DEF OpenOn, Live
    <3>3. polled' = {} /\ io' = "check" BY <2>4, Zenon DEF flush
    <3>4. ASSUME NEW c \in Calls, stream'[c] \in {"open", "finished"} PROVE conns'[c[1]] = "live"
      <4>1. c[1] \notin gone /\ stream[c] \in {"open", "finished"}
        BY <3>1, <3>2, <3>4, FlushingStreams, Zenon
      <4> QED BY <1>0, <3>1, <4>1, Zenon
    <3> QED BY <3>3, <3>4, Zenon
  <2>5. ASSUME NEW t \in Tokens, tick_begin(t) PROVE OpenIsLive' /\ PolledLive' /\ AllTicked'
    <3>1. UNCHANGED <<polled, conns>> /\ io = "tick" /\ io' = "dispatch"
      BY <2>5, Zenon DEF tick_begin, connVars
    <3>2. \A c \in Calls : stream'[c] \in {"open", "finished"} => stream[c] \in {"open", "finished"}
      BY <2>5, Zenon DEF tick_begin, OpenOn
    <3> QED BY <3>1, <3>2, Zenon
  <2>6. ASSUME NEW t \in Tokens, tick_end(t) PROVE OpenIsLive' /\ PolledLive' /\ AllTicked'
    <3>1. PICK gone \in {{}, {t}} :
            /\ Flushing({t}, gone, {})
            /\ conns' = [conns EXCEPT ![t] = IF t \in gone THEN "dead" ELSE @]
      BY <2>6, Zenon DEF tick_end
    <3>2. polled' = polled \ {t} /\ io = "dispatch" /\ io' = "tick"
      BY <2>6, Zenon DEF tick_end, Dispatching
    <3>3. ASSUME NEW c \in Calls, stream'[c] \in {"open", "finished"} PROVE conns'[c[1]] = "live"
      <4>1. c[1] \notin gone /\ stream[c] \in {"open", "finished"}
        BY <3>1, <3>3, FlushingStreams, Zenon
      <4> QED BY <1>0, <3>1, <4>1, Zenon DEF TypeOK
    <3>4. \A u \in polled' : conns'[u] = "live" BY <3>1, <3>2, Zenon DEF TypeOK
    <3> QED BY <3>2, <3>3, <3>4, Zenon
  <2>7. ASSUME NEW ok \in BOOLEAN, streaming_return(ok) PROVE OpenIsLive' /\ PolledLive' /\ AllTicked'
    BY <2>7, Zenon DEF streaming_return, connVars, coreVars
  <2> QED BY <1>2, <2>1, <2>2, <2>3, <2>4, <2>5, <2>6, <2>7, Zenon DEF Step
<1>3. CASE Environment
  <2>1. CASE poll_error BY <1>1, <2>1, Zenon DEF poll_error
  <2>2. CASE accept
    <3>1. io = "accept" /\ UNCHANGED <<io, polled, stream>> BY <2>2, Zenon DEF accept, loopVars, coreVars
    <3>2. \A t \in Tokens : conns'[t] = conns[t] \/ conns'[t] = "live" BY <2>2, Zenon DEF accept, TypeOK
    <3> QED BY <1>0, <3>1, <3>2, Zenon DEF TypeOK
  <2>3. CASE request_shutdown BY <2>3, Zenon DEF request_shutdown, loopVars, coreVars
  <2>4. ASSUME NEW c \in Calls, streaming(c) \/ \E ok \in BOOLEAN : unary(c, ok)
        PROVE  OpenIsLive' /\ PolledLive' /\ AllTicked'
    <3>1. io = "dispatch" /\ c[1] \in polled /\ UNCHANGED <<io, polled, conns>>
          /\ stream' = [stream EXCEPT ![c] = "open"]
      BY <2>4, Zenon DEF streaming, unary, Dispatching, First, connVars, loopVars
    <3>2. conns[c[1]] = "live" BY <3>1, Zenon
    <3>3. \A d \in Calls : d # c => stream'[d] = stream[d] BY <3>1, Zenon DEF TypeOK
    <3> QED BY <3>1, <3>2, <3>3, Zenon
  <2> QED BY <1>3, <2>1, <2>2, <2>3, <2>4, Zenon DEF Environment
<1>4. ASSUME NEW t \in Threads, ThreadStep(t) PROVE OpenIsLive' /\ PolledLive' /\ AllTicked'
  BY <1>4, Zenon DEF ThreadStep, write, finish, set_backpressure, finish_swap, push, poke, loopVars,
     connVars, coreVars
<1>5. CASE UNCHANGED vars BY <1>5, Zenon DEF vars, loopVars, connVars, coreVars
<1> QED BY <1>2, <1>3, <1>4, <1>5, Zenon DEF Next

\* Every step keeps StreamsLive.
LEMMA NextStreamsLive ==
    ASSUME TypeOK, HandlersInDispatch, OpsOwned, PipeInOrder, OneFinish, StreamsLive, [Next]_vars
    PROVE  StreamsLive'
<1>1. OpenIsLive /\ PolledLive /\ AllTicked BY Zenon DEF StreamsLive, OpenIsLive, PolledLive, AllTicked
<1>2. OpenIsLive' /\ PolledLive' /\ AllTicked' BY <1>1, NextConns, Zenon
<1> QED BY <1>2, NextOver, Zenon DEF StreamsLive, OpenIsLive, PolledLive, AllTicked

\* FinishIsComplete in terms of the core's record of a call.
LEMMA CompleteIsAccepted ==
    FinishIsComplete <=>
        \A c \in Calls : ByWriter(c) /\ c \notin overflow =>
            \A w \in returned :
                (w[1] = c /\ w[2] = finishedBy[c][1] /\ w[3] < finishedBy[c][2]) =>
                    <<w[2], w[3]>> \in Range(applied[c])
BY Zenon DEF FinishIsComplete, Range

\* Every step keeps FinishIsComplete: a finish overtakes no write of its thread.
LEMMA NextComplete ==
    ASSUME TypeOK, TypeOK', HandlersInDispatch, BatchInApply, OpsOwned, PipeInOrder, OneFinish,
           PastInOrder, StreamsLive, \A w \in returned : Fate(w), FinishIsComplete, [Next]_vars
    PROVE  FinishIsComplete'
<1> SUFFICES ASSUME NEW c \in Calls, ByWriter(c)', c \notin overflow', NEW w \in returned',
                    w[1] = c, w[2] = finishedBy'[c][1], w[3] < finishedBy'[c][2]
             PROVE  <<w[2], w[3]>> \in Range(applied'[c])
  BY Zenon DEF FinishIsComplete, Range
<1>0. w[2] \in Threads /\ w[3] \in Nat BY Zenon DEF TypeOK
<1>1. CASE finishedBy'[c] = finishedBy[c]
  <2>1. ByWriter(c) /\ c \notin overflow BY <1>1, Monotone, Zenon DEF ByWriter
  <2>2. PICK f \in Threads, n \in Nat : finishedBy[c] = <<f, n>>
    <3>1. finishedBy[c] \in Threads \X Nat BY <2>1, Zenon DEF TypeOK, ByWriter
    <3> QED BY <3>1
  <2>3. Passed(f, n) BY <2>2, Zenon DEF PastInOrder
  <2>4. CASE w \in returned
    <3>1. <<w[2], w[3]>> \in Range(applied[c]) BY <1>1, <2>1, <2>4, CompleteIsAccepted, Zenon
    <3>2. Range(applied[c]) \subseteq Range(applied'[c]) BY Monotone, Zenon
    <3> QED BY <3>1, <3>2, Zenon
  <2>5. CASE w \notin returned
    <3>1. PICK t \in Threads, s \in Seq(Op) : Enqueues(t, s) /\ Writes(w) \in Range(s)
      BY <2>5, ReturnedSteps, Zenon
    <3>2. Writes(w).from = w[2] /\ Writes(w).n = w[3] BY Zenon DEF Writes
    <3>3. w[2] = t /\ \A m \in Nat : Behind(t, m) => m < w[3] BY <3>1, <3>2, Zenon DEF Enqueues
    <3>4. w[2] = f /\ w[3] < n BY <1>1, <2>2
    <3>5. n < w[3] BY <2>3, <3>3, <3>4, Zenon DEF Passed
    <3> QED BY <1>0, <2>2, <3>4, <3>5
  <2> QED BY <2>4, <2>5, Zenon
<1>2. CASE finishedBy'[c] = Deadline BY <1>2, Zenon DEF ByWriter
<1>3. CASE /\ apply /\ Head(batch).call = c /\ Head(batch).kind = "Finish"
           /\ OpResult(Head(batch)) = "ok" /\ stream[c] = "open"
           /\ finishedBy'[c] = <<Head(batch).from, Head(batch).n>>
  <2>1. PICK h : h = Head(batch) BY Zenon
  <2>2. h \in Op /\ Range(Pipe) = Range(Pipe') \cup {h}
        /\ \A x \in Range(Pipe') : x.from = h.from => h.n < x.n
    BY <1>3, <2>1, ApplyPipe, Zenon
  <2>3. w \in returned /\ overflow' = overflow /\ io = "apply"
    BY <1>3, Zenon DEF apply, pastVars, MarksOverflow
  <2>4. w[2] = h.from /\ w[3] < h.n BY <1>3, <2>1
  <2>5. Writes(w) \notin Range(Pipe)
    <3>1. Writes(w).kind = "Write" /\ Writes(w).from = w[2] /\ Writes(w).n = w[3] BY Zenon DEF Writes
    <3>2. Writes(w) # h BY <1>3, <2>1, <3>1, Zenon
    <3>3. h.n \in Nat BY <2>2, OpFields, Zenon
    <3> QED BY <1>0, <2>2, <2>4, <3>1, <3>2, <3>3
  <2>6. c \notin dead BY <1>3, Zenon DEF StreamsLive, Over
  <2>7. <<w[2], w[3]>> \in Range(applied[c])
    BY <2>3, <2>5, <2>6, Zenon DEF Fate
  <2> QED BY <2>7, Monotone, Zenon
<1> QED BY <1>1, <1>2, <1>3, PastSteps, Zenon

\* No op is in a sorted queue twice.
LEMMA SortedIsInjective ==
    ASSUME NEW p \in Seq(Op), Sorted(p), NEW i \in DOMAIN p, NEW j \in DOMAIN p, p[i] = p[j]
    PROVE  i = j
<1>1. i \in Nat /\ j \in Nat /\ p[i] \in Op /\ p[j] \in Op OBVIOUS
<1>2. p[i].n \in Nat BY <1>1, OpFields, Zenon
<1> QED BY <1>1, <1>2 DEF Sorted

\* One finish on its way makes FirstFinishWins.
LEMMA OneFinishWins ==
    ASSUME TypeOK, PipeInOrder, OneFinish
    PROVE  FirstFinishWins
<1> SUFFICES ASSUME NEW c \in Calls
             PROVE  /\ \A x, y \in FinishesOf(c) : x = y
                    /\ ByWriter(c) => FinishesOf(c) = {}
  BY Zenon DEF FirstFinishWins
<1> DEFINE A == {t \in Threads : Finishing(t, c)}
           B == FinishOps(ops, c)
           D == FinishOps(batch, c)
<1>0. OneFinishOf(c) BY Zenon DEF OneFinish
<1>1. /\ Pipe \in Seq(Op) /\ Sorted(Pipe)
      /\ DOMAIN Pipe = 1..(Len(batch) + Len(ops)) /\ Len(batch) \in Nat /\ Len(ops) \in Nat
  <2>1. Pipe \in Seq(Op) BY PipeType, Zenon
  <2>2. Sorted(Pipe) BY Zenon DEF PipeInOrder
  <2>3. DOMAIN Pipe = 1..(Len(batch) + Len(ops)) /\ Len(batch) \in Nat /\ Len(ops) \in Nat
    BY DEF Pipe, TypeOK
  <2> QED BY <2>1, <2>2, <2>3, Zenon
<1>2. \A i \in D : i \in 1..Len(batch) /\ Pipe[i] = batch[i] /\ i \in DOMAIN Pipe /\ FinishFor(Pipe[i], c)
  BY DEF FinishOps, Pipe, TypeOK, FinishFor
<1>3. \A i \in B : /\ i \in 1..Len(ops) /\ Pipe[Len(batch) + i] = ops[i]
                   /\ Len(batch) + i \in DOMAIN Pipe /\ FinishFor(Pipe[Len(batch) + i], c)
  BY SMTT(30) DEF FinishOps, Pipe, TypeOK, FinishFor
<1>4. \A k \in DOMAIN Pipe : Pipe[k] \in Range(Pipe) BY Zenon DEF Range
<1>5. \A i, j \in DOMAIN Pipe : FinishFor(Pipe[i], c) /\ FinishFor(Pipe[j], c) => i = j
  BY <1>0, <1>1, <1>4, SortedIsInjective, Zenon DEF OneFinishOf
<1>6. \A i, j \in D : i = j BY <1>2, <1>5, Zenon
<1>7. \A i, j \in B : i = j
  <2> SUFFICES ASSUME NEW i \in B, NEW j \in B PROVE i = j BY Zenon
  <2>1. Len(batch) + i = Len(batch) + j BY <1>3, <1>5, Zenon
  <2>2. i \in Nat /\ j \in Nat BY <1>3
  <2> QED BY <1>1, <2>1, <2>2
<1>8. B # {} => D = {}
  <2> SUFFICES ASSUME NEW i \in B, NEW j \in D PROVE FALSE BY Zenon
  <2>1. Len(batch) + i = j BY <1>2, <1>3, <1>5, Zenon
  <2>2. i \in 1..Len(ops) /\ j \in 1..Len(batch) BY <1>2, <1>3, Zenon
  <2> QED BY <1>1, <2>1, <2>2
<1>9. \A t, u \in A : t = u BY <1>0, Zenon DEF OneFinishOf
<1>10. A # {} => B = {} /\ D = {} /\ ~ByWriter(c)
  BY <1>0, <1>2, <1>3, <1>4, Zenon DEF OneFinishOf
<1>11. B # {} \/ D # {} => ~ByWriter(c)
  BY <1>0, <1>2, <1>3, <1>4, Zenon DEF OneFinishOf
<1> HIDE DEF A, B, D
<1>12. FinishesOf(c) = ({"push"} \X A) \cup ({"mailbox"} \X B) \cup ({"batch"} \X D)
  BY Zenon DEF FinishesOf, A, B, D
<1>13. \A x, y \in FinishesOf(c) : x = y BY <1>6, <1>7, <1>8, <1>9, <1>10, <1>12
<1>14. ByWriter(c) => FinishesOf(c) = {} BY <1>10, <1>11, <1>12, Zenon
<1> QED BY <1>13, <1>14, Zenon

-----------------------------------------------------------------------------

WInv ==
    /\ TypeOK /\ HandlersInDispatch /\ BatchInApply /\ OpsOwned
    /\ PipeInOrder /\ OneFinish /\ PastInOrder /\ WritesInOrder
    /\ \A w \in returned : Fate(w)
    /\ StreamsLive /\ FinishIsComplete

\* WInv holds when serve() starts.
LEMMA InitWriters == Init => WInv
<1> SUFFICES ASSUME Init PROVE WInv BY Zenon
<1>1. TypeOK BY InitType, Zenon
<1>2. Pipe = << >> /\ Range(Pipe) = {} BY DEF Init, Pipe, Range
<1>3. \A t \in Threads : thread[t].step = "idle" BY Zenon DEF Init, Idle
<1>4. HandlersInDispatch /\ BatchInApply BY <1>3, Zenon DEF Init, HandlersInDispatch, BatchInApply, Threads
<1>5. OpsOwned BY <1>2, <1>3, Zenon DEF Init, OpsOwned
<1>6. PipeInOrder BY <1>2 DEF PipeInOrder, Sorted
<1>7. \A c \in Calls : applied[c] = << >> /\ finishedBy[c] = None /\ ~ByWriter(c)
  BY Zenon DEF Init, ByWriter
<1>8. OneFinish BY <1>2, <1>3, <1>7, Zenon DEF OneFinish, OneFinishOf, Finishing
<1>9. PastInOrder
  <2> SUFFICES ASSUME NEW c \in Calls, NEW f \in Threads, NEW n \in Nat
               PROVE  <<f, n>> \notin Range(applied[c]) \cup {finishedBy[c]}
    BY Zenon DEF PastInOrder
  <2>1. Range(applied[c]) = {} BY <1>7 DEF Range
  <2>2. <<f, n>> # << >>
    <3>1. Len(<<f, n>>) = 2 /\ Len(<< >>) = 0 BY Zenon
    <3> QED BY <3>1, Zenon
  <2> QED BY <1>7, <2>1, <2>2, Zenon DEF None
<1>10. WritesInOrder BY <1>7 DEF WritesInOrder
<1>11. (\A w \in returned : Fate(w)) /\ FinishIsComplete BY Zenon DEF Init, FinishIsComplete
<1>12. StreamsLive BY <1>7, Zenon DEF Init, StreamsLive
<1> QED BY <1>1, <1>4, <1>5, <1>6, <1>8, <1>9, <1>10, <1>11, <1>12, Zenon DEF WInv

\* Every step of the system keeps WInv.
LEMMA NextWriters == WInv /\ [Next]_vars => WInv'
<1> SUFFICES ASSUME WInv, [Next]_vars PROVE WInv' BY Zenon
<1>0. /\ TypeOK /\ HandlersInDispatch /\ BatchInApply /\ OpsOwned
      /\ PipeInOrder /\ OneFinish /\ PastInOrder /\ WritesInOrder
      /\ \A w \in returned : Fate(w)
      /\ StreamsLive /\ FinishIsComplete
  BY Zenon DEF WInv
<1>1. TypeOK' BY <1>0, NextType, Zenon
<1>2. HandlersInDispatch' BY <1>0, NextHandlers, Zenon
<1>3. BatchInApply' BY <1>0, NextBatch, Zenon
<1>4. OpsOwned' BY <1>0, <1>1, NextOpsOwned, Zenon
<1>5. PipeInOrder' BY <1>0, NextPipeInOrder, Zenon
<1>6. OneFinish' BY <1>0, NextOneFinish, Zenon
<1>7. PastInOrder' BY <1>0, NextPastInOrder, Zenon
<1>8. WritesInOrder' BY <1>0, NextWritesInOrder, Zenon
<1>9. \A w \in returned' : Fate(w)' BY <1>0, NextFate, Zenon
<1>10. StreamsLive' BY <1>0, NextStreamsLive, Zenon
<1>11. FinishIsComplete' BY <1>0, <1>1, NextComplete, Zenon
<1> QED BY <1>1, <1>2, <1>3, <1>4, <1>5, <1>6, <1>7, <1>8, <1>9, <1>10, <1>11, Zenon DEF WInv

\* WInv is an invariant of the server.
LEMMA WritersInvariant == Spec => []WInv
BY InitWriters, NextWriters, PTL DEF Spec

\* ServerWriter::finish takes effect once, however many clones of a call's writer race:
\* at most one Finish op is ever on its way, and none once one was applied.
THEOREM FirstFinishAlwaysWins == Spec => []FirstFinishWins
<1>1. WInv => FirstFinishWins BY OneFinishWins, Zenon DEF WInv
<1> QED BY <1>1, WritersInvariant, PTL

\* The core accepts the messages that one thread writes to a call in the order of the
\* writes, and none twice, whatever other threads and connections do.
THEOREM WritesStayInOrder == Spec => []WritesInOrder
<1>1. WInv => WritesInOrder BY Zenon DEF WInv
<1> QED BY <1>1, WritersInvariant, PTL

\* A write that returned Ok is on its way, accepted by the core, or visible to its writer
\* as bounced (dead, overflow), until serve() returns.
THEOREM NothingLostInSilence == Spec => []NoSilentLoss
<1>1. WInv => NoSilentLoss BY LossIsFate, Zenon DEF WInv
<1> QED BY <1>1, WritersInvariant, PTL

\* A finish that takes effect finds every earlier write of its thread accepted, unless
\* the writer can see an overflow.
THEOREM FinishClosesCompleteResponse == Spec => []FinishIsComplete
<1>1. WInv => FinishIsComplete BY Zenon DEF WInv
<1> QED BY <1>1, WritersInvariant, PTL

=============================================================================
