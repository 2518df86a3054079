-------------------------------- MODULE Conn --------------------------------
(***************************************************************************)
(* The life of the calls of one server connection (grpcuds-core/src):      *)
(* nghttp2's receive callbacks (conn/callbacks.rs), dispatch               *)
(* (conn/dispatch.rs), finish, deadlines and cancel hooks (conn/state.rs)  *)
(* and the order of a tick (uds.rs).                                       *)
(*                                                                         *)
(* The host calls tick_read or tick_write, and between two ticks the       *)
(* application may write, finish or install hooks; so may a handler, while *)
(* it runs.  What a response's bytes go through is SendPath's subject: a   *)
(* queue is the number of its messages here.                               *)
(***************************************************************************)
EXTENDS Naturals, Sequences, FiniteSets

CONSTANTS
    MaxCalls,    \* bound: calls opened on the connection
    MaxHooks,    \* bound: cancel hooks installed, on all calls
    MaxWrites,   \* bound: messages written, to all calls
    Requests,    \* what arrives: a good request, a bad frame, an unknown path
    ExpireMax,   \* the 8 of expire_deadlines
    Submits      \* outcomes of nghttp2_submit_response: TRUE, or FALSE for an error

ASSUME ConnAssumption ==
    /\ {MaxCalls, MaxHooks, MaxWrites} \subseteq Nat
    /\ Requests \subseteq {"good", "bad", "unknown"}
    /\ ExpireMax \in Nat \ {0}
    /\ Submits \subseteq BOOLEAN

Calls    == 1..MaxCalls     \* stream ids, in the order the peer opens them
Hooks    == 1..MaxHooks
Statuses == {"Ok", "App", "Internal", "Unimplemented", "DeadlineExceeded"}
None     == "None"

VARIABLES
    phase,      \* where the tick is: idle, read, dispatch, handler, flush;
                \* closed when the connection is dropped
    streams,    \* ConnState::streams, in Vec order
    opened,     \* calls opened so far
    state,      \* StreamCtx::state ("absent" when not in streams)
    request,    \* what dispatch finds: a good request, a bad frame, a path
                \* without a method
    deadline,   \* StreamCtx::deadline_ms: none, armed, due
    hook,       \* StreamCtx::cancel_hook: 0 for none
    finished,   \* calls with out.finished
    final_status,
    response_started,   \* calls with out.response_started
    queue,      \* messages in the call's OutQueue
    source,     \* nghttp2: the response's data is absent, ready, deferred, ended
    index,      \* dispatch's loop variable
    installed,  \* history: hooks installed on each call
    fired,      \* history: how often each hook of each call fired
    decided,    \* history: the first status the call was to end with, or None
    expired,    \* history: calls whose deadline expired
    trailers,   \* history: the status sent, or None
    ran,        \* history: handler invocations per call
    writes,     \* history: messages written
    ended       \* history: how the stream closed: open, clean, error

streamVars == <<streams, opened, state, request>>
callVars   == <<deadline, hook, finished, final_status>>
sendVars   == <<response_started, queue, source>>
pastVars   == <<installed, fired, decided, expired, trailers, ran, writes, ended>>
vars == <<phase, streamVars, callVars, sendVars, index, pastVars>>

TypeOK ==
    /\ phase \in {"idle", "read", "dispatch", "handler", "flush", "closed"}
    /\ streams \in Seq(Calls)
    /\ opened \in 0..MaxCalls
    /\ state \in [Calls -> {"absent", "HeadersIn", "BodyIn", "Complete", "Dispatched",
                         "Cancelled"}]
    /\ request \in [Calls -> {"good", "bad", "unknown"}]
    /\ deadline \in [Calls -> {"none", "armed", "due"}]
    /\ hook \in [Calls -> Hooks \cup {0}]
    /\ finished \in SUBSET Calls
    /\ final_status \in [Calls -> Statuses]
    /\ response_started \in SUBSET Calls
    /\ queue \in [Calls -> Nat]
    /\ source \in [Calls -> {"absent", "ready", "deferred", "ended"}]
    /\ index \in Nat
    /\ installed \in [Calls -> 0..MaxHooks]
    /\ fired \in [Calls -> [Hooks -> Nat]]
    /\ decided \in [Calls -> Statuses \cup {None}]
    /\ expired \in SUBSET Calls
    /\ trailers \in [Calls -> Statuses \cup {None}]
    /\ ran \in [Calls -> Nat]
    /\ writes \in 0..MaxWrites
    /\ ended \in [Calls -> {"open", "clean", "error"}]

Init ==
    /\ phase = "idle"
    /\ streams = << >>
    /\ opened = 0
    /\ state = [c \in Calls |-> "absent"]
    /\ request = [c \in Calls |-> "good"]
    /\ deadline = [c \in Calls |-> "none"]
    /\ hook = [c \in Calls |-> 0]
    /\ finished = {}
    /\ final_status = [c \in Calls |-> "Ok"]
    /\ response_started = {}
    /\ queue = [c \in Calls |-> 0]
    /\ source = [c \in Calls |-> "absent"]
    /\ index = 1
    /\ installed = [c \in Calls |-> 0]
    /\ fired = [c \in Calls |-> [h \in Hooks |-> 0]]
    /\ decided = [c \in Calls |-> None]
    /\ expired = {}
    /\ trailers = [c \in Calls |-> None]
    /\ ran = [c \in Calls |-> 0]
    /\ writes = 0
    /\ ended = [c \in Calls |-> "open"]

Here == {streams[i] : i \in DOMAIN streams}

\* Vec::swap_remove of the call's position.
swap_remove(seq, c) ==
    LET pos == CHOOSE i \in DOMAIN seq : seq[i] = c
    IN  SubSeq([seq EXCEPT ![pos] = seq[Len(seq)]], 1, Len(seq) - 1)

-----------------------------------------------------------------------------
(* finish_call and the statuses a call may end with.                       *)

\* nghttp2_session_resume_data for the calls in S.
Resumed(S) == [c \in Calls |-> IF c \in S /\ source[c] = "deferred" THEN "ready" ELSE source[c]]

\* finish_call on every call of S: the first status stays.
Decide_Last(S, status) ==
    /\ finished' = finished \cup S
    /\ final_status' = [c \in Calls |-> IF c \in S THEN status ELSE final_status[c]]
    /\ decided' = [c \in Calls |-> IF c \in S /\ decided[c] = None THEN status ELSE decided[c]]

Decide(S, status) ==
    /\ finished' = finished \cup S
    /\ final_status' = [c \in Calls |->
                          IF c \in S \ finished THEN status ELSE final_status[c]]
    /\ decided' = [c \in Calls |-> IF c \in S /\ decided[c] = None THEN status ELSE decided[c]]

\* The hooks of the calls in S fire and are taken.
Fired(S) == [c \in Calls |-> IF c \in S /\ hook[c] # 0
                             THEN [fired[c] EXCEPT ![hook[c]] = @ + 1] ELSE fired[c]]

Taken_Kept(S) == hook
Taken(S) == [c \in Calls |-> IF c \in S THEN 0 ELSE hook[c]]

-----------------------------------------------------------------------------
(* A tick begins: expire_deadlines.                                        *)

Due(c) == state[c] = "Dispatched" /\ c \notin finished /\ deadline[c] = "due"

Expiring_FirstSlots ==
    {streams[i] : i \in {k \in DOMAIN streams : k <= ExpireMax /\ Due(streams[k])}}

\* At most ExpireMax calls, in Vec order; the rest wait for the next tick.
Expiring ==
    LET Before(k) == {j \in 1..(k - 1) : Due(streams[j])}
    IN  {streams[i] : i \in {k \in DOMAIN streams :
                               Due(streams[k]) /\ Cardinality(Before(k)) < ExpireMax}}

Disarmed(S) == [c \in Calls |-> IF c \in S THEN "none" ELSE deadline[c]]

expire_deadlines ==
    /\ deadline' = Disarmed(Expiring)
    /\ fired' = Fired(Expiring)
    /\ hook' = Taken(Expiring)
    /\ expired' = expired \cup Expiring
    /\ Decide(Expiring, "DeadlineExceeded")
    /\ source' = Resumed(Expiring)

tick_read ==
    /\ phase = "idle"
    /\ phase' = "read"
    /\ expire_deadlines
    /\ UNCHANGED <<streamVars, response_started, queue, index, installed, trailers, ran,
                   writes, ended>>

tick_write ==
    /\ phase = "idle"
    /\ phase' = "flush"
    /\ expire_deadlines
    /\ UNCHANGED <<streamVars, response_started, queue, index, installed, trailers, ran,
                   writes, ended>>

-----------------------------------------------------------------------------
(* drain_reads: nghttp2's callbacks for what the peer sent.                *)

\* on_begin_headers, with the on_header calls for :path and grpc-timeout.
on_begin_headers(req, dl) ==
    /\ phase = "read" /\ opened < MaxCalls
    /\ opened' = opened + 1
    /\ streams' = Append(streams, opened + 1)
    /\ state' = [state EXCEPT ![opened + 1] = "HeadersIn"]
    /\ request' = [request EXCEPT ![opened + 1] = req]
    /\ deadline' = [deadline EXCEPT ![opened + 1] = dl]
    /\ UNCHANGED <<phase, hook, finished, final_status, sendVars, index, pastVars>>

\* on_frame_recv of HEADERS or DATA, the last one with END_STREAM.
on_frame_recv(c, end_stream) ==
    /\ phase = "read" /\ state[c] \in {"HeadersIn", "BodyIn"}
    /\ state' = [state EXCEPT ![c] = IF end_stream THEN "Complete" ELSE "BodyIn"]
    /\ UNCHANGED <<phase, streams, opened, request, callVars, sendVars, index, pastVars>>

FiresOnClose(error) == error

\* The contexts of the calls in S are dropped, with all they hold.
Dropped(S) ==
    /\ state' = [c \in Calls |-> IF c \in S THEN "absent" ELSE state[c]]
    /\ request' = [c \in Calls |-> IF c \in S THEN "good" ELSE request[c]]
    /\ deadline' = Disarmed(S)
    /\ hook' = [c \in Calls |-> IF c \in S THEN 0 ELSE hook[c]]
    /\ finished' = finished \ S
    /\ final_status' = [c \in Calls |-> IF c \in S THEN "Ok" ELSE final_status[c]]
    /\ response_started' = response_started \ S
    /\ queue' = [c \in Calls |-> IF c \in S THEN 0 ELSE queue[c]]
    /\ source' = [c \in Calls |-> IF c \in S THEN "absent" ELSE source[c]]

\* on_stream_close: the context is dropped, its hook fires on an error.
Close(c, error) ==
    /\ streams' = swap_remove(streams, c)
    /\ fired' = IF FiresOnClose(error) THEN Fired({c}) ELSE fired
    /\ ended' = [ended EXCEPT ![c] = IF error THEN "error" ELSE "clean"]
    /\ Dropped({c})

\* RST_STREAM: the peer's, with any code, or nghttp2's own, which is an error.
on_stream_close(c, error) ==
    /\ phase = "read" \/ (phase = "flush" /\ error)
    /\ c \in Here
    /\ Close(c, error)
    /\ UNCHANGED <<phase, opened, index, installed, decided, trailers, ran, writes, expired>>

\* The socket would block: dispatch follows.
reads_done ==
    /\ phase = "read"
    /\ phase' = "dispatch"
    /\ index' = 1
    /\ UNCHANGED <<streamVars, callVars, sendVars, pastVars>>

\* EOF, a read or write error, a request past max_message_len, or the host frees
\* the connection: it is dropped with its contexts, and nghttp2 calls nothing back.
drop ==
    /\ phase \in {"idle", "read", "flush"}
    /\ phase' = "closed"
    /\ streams' = << >>
    /\ Dropped(Calls)
    /\ UNCHANGED <<opened, index, pastVars>>

-----------------------------------------------------------------------------
(* dispatch.                                                               *)

Current == streams[index]

\* submit_response_for: HEADERS and the data provider, unless nghttp2 refuses.
submit_response_for(c, ok) ==
    /\ response_started' = IF ok THEN response_started \cup {c} ELSE response_started
    /\ source' = IF ok THEN [source EXCEPT ![c] = "ready"] ELSE source

dispatch_skip ==
    /\ phase = "dispatch" /\ index <= Len(streams)
    /\ state[Current] # "Complete"
    /\ index' = index + 1
    /\ UNCHANGED <<phase, streamVars, callVars, sendVars, pastVars>>

\* finalize_error: a frame that does not decode, or no method for the path.  An
\* error of submit_response_for is ignored.
finalize_error(ok) ==
    /\ phase = "dispatch" /\ index <= Len(streams)
    /\ state[Current] = "Complete" /\ request[Current] # "good"
    /\ state' = [state EXCEPT ![Current] = "Dispatched"]
    /\ LET status == IF request[Current] = "bad" THEN "Internal" ELSE "Unimplemented"
       IN  /\ finished' = finished \cup {Current}
           /\ final_status' = [final_status EXCEPT ![Current] = status]
           /\ decided' = [decided EXCEPT ![Current] = IF @ = None THEN status ELSE @]
    /\ submit_response_for(Current, ok)
    /\ index' = index + 1
    /\ UNCHANGED <<phase, streams, opened, request, deadline, hook, queue, installed, fired,
                   trailers, ran, writes, ended, expired>>

handler_start ==
    /\ phase = "dispatch" /\ index <= Len(streams)
    /\ state[Current] = "Complete" /\ request[Current] = "good"
    /\ phase' = "handler"
    /\ ran' = [ran EXCEPT ![Current] = @ + 1]
    /\ UNCHANGED <<streamVars, callVars, sendVars, index, installed, fired, decided,
                   trailers, writes, ended, expired>>

Handled_Forgotten(ok) == "Complete"
Handled(ok) == IF ok THEN "Dispatched" ELSE "Cancelled"

\* The handler returns rc: a non-OK one finishes the call unless it is finished.
\* A response that cannot be submitted leaves the call Cancelled.
handler_return(rc, ok) ==
    /\ phase = "handler"
    /\ phase' = "dispatch"
    /\ state' = [state EXCEPT ![Current] = Handled(ok)]
    /\ IF rc = "Ok" THEN UNCHANGED <<finished, final_status, decided>>
                    ELSE Decide({Current}, rc)
    /\ submit_response_for(Current, ok)
    /\ index' = index + 1
    /\ UNCHANGED <<streams, opened, request, deadline, hook, queue, installed, fired,
                   trailers, ran, writes, ended, expired>>

dispatch_done ==
    /\ phase = "dispatch" /\ index > Len(streams)
    /\ phase' = "flush"
    /\ index' = 1
    /\ UNCHANGED <<streamVars, callVars, sendVars, pastVars>>

-----------------------------------------------------------------------------
(* The application, in a handler or between two ticks, for calls whose     *)
(* handler has run.                                                        *)

MayUse(c) == phase \in {"idle", "handler"} /\ c \in Here /\ ran[c] > 0

Wakes(c) == IF state[c] = "Dispatched" /\ c \in response_started THEN {c} ELSE {}

write_call(c) ==
    /\ MayUse(c) /\ c \notin finished /\ writes < MaxWrites
    /\ queue' = [queue EXCEPT ![c] = @ + 1]
    /\ writes' = writes + 1
    /\ source' = Resumed(Wakes(c))
    /\ UNCHANGED <<phase, streamVars, callVars, response_started, index, installed, fired,
                   decided, trailers, ran, ended, expired>>

finish_call(c, status) ==
    /\ MayUse(c)
    /\ Decide({c}, status)
    /\ source' = Resumed(Wakes(c))
    /\ UNCHANGED <<phase, streamVars, deadline, hook, response_started, queue, index,
                   installed, fired, trailers, ran, writes, ended, expired>>

\* The hooks installed so far.
Installed == {x \in Calls \X Hooks : x[2] <= installed[x[1]]}

\* set_cancel_hook replaces the hook the call has.
set_cancel_hook(c) ==
    /\ MayUse(c) /\ Cardinality(Installed) < MaxHooks
    /\ \E h \in Hooks :
        /\ h = installed[c] + 1
        /\ installed' = [installed EXCEPT ![c] = h]
        /\ hook' = [hook EXCEPT ![c] = h]
    /\ UNCHANGED <<phase, streamVars, deadline, finished, final_status, sendVars, index,
                   fired, decided, trailers, ran, writes, ended, expired>>

-----------------------------------------------------------------------------
(* flush_writes, by what data_provider_read does for one call.             *)

HasData(c) == queue[c] > 0

flush_data(c) ==
    /\ phase = "flush" /\ source[c] = "ready" /\ HasData(c)
    /\ queue' = [queue EXCEPT ![c] = @ - 1]
    /\ UNCHANGED <<phase, streamVars, callVars, response_started, source, index, pastVars>>

flush_deferred(c) ==
    /\ phase = "flush" /\ source[c] = "ready" /\ ~HasData(c) /\ c \notin finished
    /\ source' = [source EXCEPT ![c] = "deferred"]
    /\ UNCHANGED <<phase, streamVars, callVars, response_started, queue, index, pastVars>>

\* The trailers end the stream, which nghttp2 then closes without an error.
flush_trailers(c) ==
    /\ phase = "flush" /\ source[c] = "ready" /\ ~HasData(c) /\ c \in finished
    /\ trailers' = [trailers EXCEPT ![c] = final_status[c]]
    /\ Close(c, FALSE)
    /\ UNCHANGED <<phase, opened, index, installed, decided, ran, writes, expired>>

\* Nothing more to send, or the socket is full.
flush_done ==
    /\ phase = "flush"
    /\ phase' = "idle"
    /\ UNCHANGED <<streamVars, callVars, sendVars, index, pastVars>>

\* The clock reaches a call's deadline.
clock(c) ==
    /\ phase # "closed" /\ deadline[c] = "armed"
    /\ deadline' = [deadline EXCEPT ![c] = "due"]
    /\ UNCHANGED <<phase, streamVars, hook, finished, final_status, sendVars, index, pastVars>>

FlushCall(c) == flush_data(c) \/ flush_deferred(c) \/ flush_trailers(c)

Dispatch ==
    \/ dispatch_skip \/ handler_start \/ dispatch_done
    \/ \E ok \in Submits : \/ finalize_error(ok)
                           \/ \E rc \in {"Ok", "App"} : handler_return(rc, ok)

Tick == tick_read \/ reads_done \/ Dispatch \/ flush_done

Peer ==
    \/ \E req \in Requests, dl \in {"none", "armed"} :
           on_begin_headers(req, dl)
    \/ \E c \in Calls, b \in BOOLEAN : on_frame_recv(c, b) \/ on_stream_close(c, b)

Application ==
    \E c \in Calls : \/ write_call(c) \/ set_cancel_hook(c)
                     \/ \E status \in {"Ok", "App"} : finish_call(c, status)

Next ==
    \/ Tick \/ tick_write \/ Peer \/ Application \/ drop
    \/ \E c \in Calls : FlushCall(c) \/ clock(c)

Spec == Init /\ [][Next]_vars

\* The host ticks and handlers return.
Fairness == WF_vars(Tick)

FairSpec == Spec /\ Fairness

-----------------------------------------------------------------------------
(* Properties.                                                             *)

\* A cancel hook fires at most once, however a deadline, a reset and a replacement of
\* the hook come together.  When a stream closes with an error, the last hook installed
\* on its call has fired, then or for the deadline before; a hook that fired belongs to
\* a call that was reset or whose deadline expired, never to one that just ended.
HookMatchesEnd ==
    \A c \in Calls :
        /\ \A h \in Hooks : fired[c][h] <= IF h <= installed[c] THEN 1 ELSE 0
        /\ (ended[c] = "error" /\ installed[c] > 0) => fired[c][installed[c]] = 1
        /\ (\E h \in Hooks : fired[c][h] > 0) =>
               ended[c] = "error" \/ c \in expired

\* Whatever a handler's return value, finish_call and the deadline say, and in
\* whatever order, the trailers carry the status that was decided first.
FirstStatusWins ==
    \A c \in Calls : trailers[c] # None => trailers[c] = decided[c]

\* A request is handled once, however the Vec is reordered by the calls that
\* close and whether or not its response could be submitted.
HandledOnce == \A c \in Calls : ran[c] <= 1

\* A deadline that is due ends the call, however many expire at once: each tick
\* takes ExpireMax of them.
DeadlinesExpire ==
    \A c \in Calls : Due(c) ~> (~Due(c) \/ phase = "closed")

=============================================================================
