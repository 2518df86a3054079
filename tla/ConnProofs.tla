----------------------------- MODULE ConnProofs -----------------------------
(***************************************************************************)
(* The calls of a server connection, for any number of calls, hooks and    *)
(* writes: each is handled once (HandledOnce), ends with the status decided *)
(* first (FirstStatusWins), and its cancel hooks fire as it ended           *)
(* (HookMatchesEnd).  First the types, and what each step does to one call. *)
(***************************************************************************)
EXTENDS Conn, TLAPS

\* Hooks that fire are counted in a well-typed table.
LEMMA FiredType ==
    ASSUME TypeOK, NEW S
    PROVE  Fired(S) \in [Calls -> [Hooks -> Nat]]
<1> SUFFICES ASSUME NEW c \in Calls
             PROVE  (IF c \in S /\ hook[c] # 0 THEN [fired[c] EXCEPT ![hook[c]] = @ + 1] ELSE fired[c])
                      \in [Hooks -> Nat]
  BY DEF Fired
<1>1. fired[c] \in [Hooks -> Nat] BY DEF TypeOK
<1>2. ASSUME hook[c] # 0 PROVE hook[c] \in Hooks BY <1>2 DEF TypeOK
<1> QED BY <1>1, <1>2

\* The calls whose deadline a tick expires are dispatched and have no status.
LEMMA ExpiringDue ==
    ASSUME TypeOK
    PROVE  Expiring \subseteq {c \in Calls : c \in Here /\ Due(c)}
<1> SUFFICES ASSUME NEW c \in Expiring PROVE c \in Calls /\ c \in Here /\ Due(c)
  OBVIOUS
<1>1. PICK k \in DOMAIN streams : Due(streams[k]) /\ c = streams[k] BY Zenon DEF Expiring
<1>2. streams[k] \in Calls BY DEF TypeOK
<1> QED BY <1>1, <1>2 DEF Here

\* finish_call keeps statuses well-typed.
LEMMA DecideType ==
    ASSUME TypeOK, NEW S \in SUBSET Calls, NEW status \in Statuses, Decide(S, status)
    PROVE  /\ finished' \in SUBSET Calls
           /\ final_status' \in [Calls -> Statuses]
           /\ decided' \in [Calls -> Statuses \cup {None}]
BY DEF Decide, TypeOK

\* nghttp2_session_resume_data keeps its table well-typed.
LEMMA ResumedType ==
    ASSUME TypeOK, NEW S
    PROVE  Resumed(S) \in [Calls -> {"absent", "ready", "deferred", "ended"}]
BY DEF Resumed, TypeOK

\* expire_deadlines keeps its tables well-typed.
LEMMA ExpireType ==
    ASSUME TypeOK, expire_deadlines
    PROVE  /\ deadline' \in [Calls -> {"none", "armed", "due"}]
           /\ fired' \in [Calls -> [Hooks -> Nat]]
           /\ hook' \in [Calls -> Hooks \cup {0}]
           /\ expired' \in SUBSET Calls
           /\ source' \in [Calls -> {"absent", "ready", "deferred", "ended"}]
           /\ finished' \in SUBSET Calls
           /\ final_status' \in [Calls -> Statuses]
           /\ decided' \in [Calls -> Statuses \cup {None}]
<1>1. Expiring \in SUBSET Calls BY ExpiringDue
<1>2. "DeadlineExceeded" \in Statuses BY DEF Statuses
<1>3. /\ finished' \in SUBSET Calls /\ final_status' \in [Calls -> Statuses]
      /\ decided' \in [Calls -> Statuses \cup {None}]
  BY <1>1, <1>2, DecideType DEF expire_deadlines
<1>4. fired' \in [Calls -> [Hooks -> Nat]] BY FiredType DEF expire_deadlines
<1>5. source' \in [Calls -> {"absent", "ready", "deferred", "ended"}] BY ResumedType DEF expire_deadlines
<1> QED BY <1>1, <1>3, <1>4, <1>5 DEF expire_deadlines, Disarmed, Taken, TypeOK

\* The part of TypeOK about what a StreamCtx holds.
ContextsTyped ==
    /\ state \in [Calls -> {"absent", "HeadersIn", "BodyIn", "Complete", "Dispatched", "Cancelled"}]
    /\ request \in [Calls -> {"good", "bad", "unknown"}]
    /\ deadline \in [Calls -> {"none", "armed", "due"}]
    /\ hook \in [Calls -> Hooks \cup {0}]
    /\ finished \in SUBSET Calls
    /\ final_status \in [Calls -> Statuses]
    /\ response_started \in SUBSET Calls
    /\ queue \in [Calls -> Nat]
    /\ source \in [Calls -> {"absent", "ready", "deferred", "ended"}]

\* Contexts that are dropped leave well-typed tables.
LEMMA DroppedType ==
    ASSUME TypeOK, NEW S, Dropped(S)
    PROVE  ContextsTyped'
<1>1. state' \in [Calls -> {"absent", "HeadersIn", "BodyIn", "Complete", "Dispatched", "Cancelled"}]
  BY DEF Dropped, TypeOK
<1>2. request' \in [Calls -> {"good", "bad", "unknown"}] /\ deadline' \in [Calls -> {"none", "armed", "due"}]
  BY DEF Dropped, Disarmed, TypeOK
<1>3. hook' \in [Calls -> Hooks \cup {0}] /\ finished' \in SUBSET Calls
  BY DEF Dropped, TypeOK
<1>4. final_status' \in [Calls -> Statuses] BY DEF Dropped, TypeOK, Statuses
<1>5. response_started' \in SUBSET Calls /\ queue' \in [Calls -> Nat] BY DEF Dropped, TypeOK
<1>6. source' \in [Calls -> {"absent", "ready", "deferred", "ended"}] BY DEF Dropped, TypeOK
<1> QED BY <1>1, <1>2, <1>3, <1>4, <1>5, <1>6 DEF ContextsTyped

-----------------------------------------------------------------------------
(* Vec::swap_remove.                                                       *)

\* The calls in a Vec.
Elements(s) == {s[i] : i \in DOMAIN s}

\* No call is in the Vec twice.
Distinct(s) == \A i, j \in DOMAIN s : s[i] = s[j] => i = j

\* swap_remove takes the call out of the Vec and keeps all others, each once.
LEMMA SwapRemove ==
    ASSUME NEW s \in Seq(Calls), Distinct(s), NEW c, \E i \in DOMAIN s : s[i] = c
    PROVE  /\ swap_remove(s, c) \in Seq(Calls) /\ Distinct(swap_remove(s, c))
           /\ Elements(swap_remove(s, c)) = Elements(s) \ {c}
<1> DEFINE pos == CHOOSE i \in DOMAIN s : s[i] = c
           n == Len(s)
           t == [s EXCEPT ![pos] = s[n]]
           r == swap_remove(s, c)
<1>1. pos \in DOMAIN s /\ s[pos] = c OBVIOUS
<1>2. n \in Nat /\ DOMAIN s = 1..n /\ n > 0 BY <1>1
<1>3. r = SubSeq(t, 1, n - 1) BY DEF swap_remove
<1> HIDE DEF pos, n, r
<1>4. t \in Seq(Calls) /\ Len(t) = n /\ \A i \in 1..n : t[i] = IF i = pos THEN s[n] ELSE s[i]
  BY <1>1, <1>2 DEF n
<1> HIDE DEF t
<1>5. r \in Seq(Calls) /\ DOMAIN r = 1..(n - 1) /\ \A i \in 1..(n - 1) : r[i] = t[i]
  BY <1>2, <1>3, <1>4
<1>6. \A i \in 1..(n - 1) : r[i] = IF i = pos THEN s[n] ELSE s[i]
  BY <1>2, <1>4, <1>5
<1>7. Distinct(r) BY <1>1, <1>2, <1>5, <1>6 DEF Distinct
<1>8. ASSUME NEW i \in DOMAIN r PROVE r[i] \in {s[k] : k \in DOMAIN s} \ {c}
  BY <1>1, <1>2, <1>5, <1>6 DEF Distinct
<1>9. ASSUME NEW k \in DOMAIN s, s[k] # c PROVE \E i \in DOMAIN r : r[i] = s[k]
  <2>1. CASE k = n
    <3>1. pos \in 1..(n - 1) BY <1>1, <1>2, <1>9, <2>1
    <3> QED BY <1>5, <1>6, <2>1, <3>1, SMTT(30)
  <2>2. CASE k # n BY <1>1, <1>2, <1>5, <1>6, <1>9, <2>2
  <2> QED BY <2>1, <2>2
<1>10. Elements(r) = Elements(s) \ {c} BY <1>8, <1>9 DEF Elements
<1> QED BY <1>5, <1>7, <1>10 DEF r

-----------------------------------------------------------------------------
(* Types.                                                                  *)

\* The connection starts well-typed.
LEMMA InitType == Init => TypeOK
BY ConnAssumption DEF Init, TypeOK, Statuses

\* A call in Vec order is a call.
LEMMA CurrentType ==
    ASSUME TypeOK, index <= Len(streams), index >= 1
    PROVE  Current \in Calls
BY DEF TypeOK, Current

\* on_stream_close takes the call out of the Vec.
LEMMA CloseType ==
    ASSUME TypeOK, Distinct(streams), NEW c \in Here, NEW error \in BOOLEAN, Close(c, error)
    PROVE  /\ streams' \in Seq(Calls)
           /\ Here' = Here \ {c} /\ Distinct(streams')
           /\ fired' \in [Calls -> [Hooks -> Nat]]
           /\ ended' \in [Calls -> {"open", "clean", "error"}]
<1>1. streams \in Seq(Calls) /\ \E i \in DOMAIN streams : streams[i] = c BY DEF TypeOK, Here
<1>2. streams' \in Seq(Calls) /\ Distinct(streams') /\ Elements(streams') = Elements(streams) \ {c}
  <2>1. streams' = swap_remove(streams, c) BY DEF Close
  <2> QED BY <1>1, <2>1, SwapRemove, Zenon
<1>3. fired' \in [Calls -> [Hooks -> Nat]] BY FiredType, Zenon DEF Close, TypeOK
<1>4. ended' \in [Calls -> {"open", "clean", "error"}] BY Zenon DEF Close, TypeOK
<1> QED BY <1>2, <1>3, <1>4, Zenon DEF Here, Elements

\* Every step of the connection keeps its state well-typed.
LEMMA NextType ==
    ASSUME TypeOK, Distinct(streams), index >= 1, [Next]_vars,
           \A c \in Calls : source[c] # "absent" => c \in Here,
           phase = "handler" => index <= Len(streams)
    PROVE  TypeOK'
<1> USE ConnAssumption
<1>1. CASE tick_read \/ tick_write
  <2>1. expire_deadlines /\ phase' \in {"read", "flush"} BY <1>1 DEF tick_read, tick_write
  <2>2. UNCHANGED <<streams, opened, state, request, response_started, queue, index, installed,
                    trailers, ran, writes, ended>>
    BY <1>1 DEF tick_read, tick_write, streamVars
  <2> QED BY <2>1, <2>2, ExpireType, Zenon DEF TypeOK
<1>2. ASSUME NEW req \in Requests, NEW dl \in {"none", "armed"}, on_begin_headers(req, dl)
      PROVE  TypeOK'
  <2>1. opened + 1 \in Calls /\ opened + 1 \in 0..MaxCalls BY <1>2 DEF on_begin_headers, TypeOK, Calls
  <2>2. streams' \in Seq(Calls) BY <1>2, <2>1 DEF on_begin_headers, TypeOK
  <2>3. state' \in [Calls -> {"absent", "HeadersIn", "BodyIn", "Complete", "Dispatched", "Cancelled"}]
    BY <1>2, Zenon DEF on_begin_headers, TypeOK
  <2>4. /\ request' \in [Calls -> {"good", "bad", "unknown"}]
        /\ deadline' \in [Calls -> {"none", "armed", "due"}]
    BY <1>2, Zenon DEF on_begin_headers, TypeOK
  <2>5. opened' \in 0..MaxCalls BY <1>2, <2>1 DEF on_begin_headers
  <2> QED BY <1>2, <2>2, <2>3, <2>4, <2>5, Zenon DEF on_begin_headers, TypeOK, sendVars, pastVars
<1>3. ASSUME NEW c \in Calls, NEW b \in BOOLEAN, on_frame_recv(c, b) PROVE TypeOK'
  BY <1>3, SMTT(30) DEF on_frame_recv, TypeOK, callVars, sendVars, pastVars
<1>4. ASSUME NEW c \in Calls, NEW b \in BOOLEAN, on_stream_close(c, b) PROVE TypeOK'
  <2>1. c \in Here /\ Close(c, b) /\ Dropped({c}) BY <1>4 DEF on_stream_close, Close
  <2>2. ContextsTyped' BY <2>1, DroppedType
  <2>3. /\ streams' \in Seq(Calls) /\ fired' \in [Calls -> [Hooks -> Nat]]
        /\ ended' \in [Calls -> {"open", "clean", "error"}]
    BY <2>1, CloseType
  <2>4. UNCHANGED <<phase, opened, index, installed, decided, trailers, ran, writes, expired>>
    BY <1>4 DEF on_stream_close
  <2> QED BY <2>2, <2>3, <2>4, Zenon DEF ContextsTyped, TypeOK
<1>5. CASE reads_done BY <1>5 DEF reads_done, TypeOK, streamVars, callVars, sendVars, pastVars
<1>6. CASE drop
  <2>1. Dropped(Calls) BY <1>6 DEF drop
  <2>2. ContextsTyped' BY <2>1, DroppedType
  <2>3. phase' = "closed" /\ streams' \in Seq(Calls) /\ UNCHANGED <<opened, index, pastVars>>
    BY <1>6 DEF drop
  <2> QED BY <2>2, <2>3, SMTT(30) DEF ContextsTyped, TypeOK, pastVars
<1>7. CASE dispatch_skip
  <2>1. index' \in Nat BY <1>7 DEF dispatch_skip, TypeOK
  <2> QED BY <1>7, <2>1, Zenon DEF dispatch_skip, TypeOK, streamVars, callVars, sendVars, pastVars
<1>8. ASSUME NEW ok \in Submits, finalize_error(ok) PROVE TypeOK'
  <2>1. Current \in Calls BY <1>8, CurrentType DEF finalize_error
  <2>2. /\ finished' \in SUBSET Calls /\ final_status' \in [Calls -> Statuses]
        /\ decided' \in [Calls -> Statuses \cup {None}]
    BY <1>8, <2>1, SMTT(30) DEF finalize_error, TypeOK, Statuses
  <2>3. state' \in [Calls -> {"absent", "HeadersIn", "BodyIn", "Complete", "Dispatched", "Cancelled"}]
    BY <1>8, Zenon DEF finalize_error, TypeOK
  <2>4. /\ response_started' \in SUBSET Calls
        /\ source' \in [Calls -> {"absent", "ready", "deferred", "ended"}]
    BY <1>8, <2>1, Zenon DEF finalize_error, submit_response_for, TypeOK
  <2>5. index' \in Nat BY <1>8 DEF finalize_error, TypeOK
  <2>6. UNCHANGED <<phase, streams, opened, request, deadline, hook, queue, installed, fired,
                    trailers, ran, writes, ended, expired>>
    BY <1>8 DEF finalize_error
  <2> QED BY <2>2, <2>3, <2>4, <2>5, <2>6, SMTT(30) DEF TypeOK
<1>9. CASE handler_start
  <2>1. Current \in Calls BY <1>9, CurrentType DEF handler_start
  <2>2. ran' = [ran EXCEPT ![Current] = ran[Current] + 1] /\ ran \in [Calls -> Nat]
    BY <1>9 DEF handler_start, TypeOK
  <2>3. ran' \in [Calls -> Nat] BY <2>1, <2>2
  <2> QED BY <1>9, <2>3, ZenonT(30) DEF handler_start, TypeOK, streamVars, callVars, sendVars
<1>10. ASSUME NEW ok \in Submits, NEW rc \in {"Ok", "App"}, handler_return(rc, ok) PROVE TypeOK'
  <2>1. Current \in Calls BY <1>10, CurrentType DEF handler_return
  <2>2. {Current} \in SUBSET Calls /\ rc \in Statuses BY <2>1 DEF Statuses
  <2>3. /\ finished' \in SUBSET Calls /\ final_status' \in [Calls -> Statuses]
        /\ decided' \in [Calls -> Statuses \cup {None}]
    BY <1>10, <2>2, DecideType, ZenonT(30) DEF handler_return, TypeOK
  <2>20. submit_response_for(Current, ok) /\ response_started \in SUBSET Calls
         /\ source \in [Calls -> {"absent", "ready", "deferred", "ended"}]
    BY <1>10, Zenon DEF handler_return, TypeOK
  <2>4. Handled(ok) \in {"Dispatched", "Cancelled"} BY DEF Handled
  <2>5. state' \in [Calls -> {"absent", "HeadersIn", "BodyIn", "Complete", "Dispatched", "Cancelled"}]
    BY <1>10, <2>4, Zenon DEF handler_return, TypeOK
  <2>6. /\ response_started' \in SUBSET Calls
        /\ source' \in [Calls -> {"absent", "ready", "deferred", "ended"}]
    BY <2>1, <2>20 DEF submit_response_for
  <2>7. index' \in Nat /\ phase' = "dispatch" BY <1>10 DEF handler_return, TypeOK
  <2>8. UNCHANGED <<streams, opened, request, deadline, hook, queue, installed, fired,
                    trailers, ran, writes, ended, expired>>
    BY <1>10 DEF handler_return
  <2> QED BY <2>3, <2>5, <2>6, <2>7, <2>8 DEF TypeOK
<1>11. CASE dispatch_done
  BY <1>11, SMTT(30) DEF dispatch_done, TypeOK, streamVars, callVars, sendVars, pastVars
<1>12. ASSUME NEW c \in Calls, write_call(c) PROVE TypeOK'
  <2>1. queue' \in [Calls -> Nat] BY <1>12 DEF write_call, TypeOK
  <2>2. writes' \in 0..MaxWrites BY <1>12 DEF write_call, TypeOK
  <2> QED BY <1>12, <2>1, <2>2, ResumedType, Zenon DEF write_call, TypeOK, streamVars, callVars
<1>13. ASSUME NEW c \in Calls, NEW status \in {"Ok", "App"}, finish_call(c, status) PROVE TypeOK'
  <2>1. {c} \in SUBSET Calls /\ status \in Statuses BY DEF Statuses
  <2>2. /\ finished' \in SUBSET Calls /\ final_status' \in [Calls -> Statuses]
        /\ decided' \in [Calls -> Statuses \cup {None}]
    BY <1>13, <2>1, DecideType, Zenon DEF finish_call
  <2> QED BY <1>13, <2>2, ResumedType, Zenon DEF finish_call, TypeOK, streamVars
<1>14. ASSUME NEW c \in Calls, set_cancel_hook(c) PROVE TypeOK'
  <2>1. installed' \in [Calls -> 0..MaxHooks] /\ hook' \in [Calls -> Hooks \cup {0}]
    BY <1>14, SMTT(30) DEF set_cancel_hook, TypeOK, Hooks
  <2> QED BY <1>14, <2>1, Zenon DEF set_cancel_hook, TypeOK, streamVars, sendVars
<1>15. ASSUME NEW c \in Calls, FlushCall(c) PROVE TypeOK'
  <2>1. CASE flush_data(c)
    BY <2>1, SMTT(30) DEF flush_data, HasData, TypeOK, streamVars, callVars, pastVars
  <2>2. CASE flush_deferred(c)
    BY <2>2, SMTT(30) DEF flush_deferred, TypeOK, streamVars, callVars, pastVars
  <2>3. CASE flush_trailers(c)
    <3>1. c \in Here /\ Close(c, FALSE) /\ Dropped({c}) BY <2>3, Zenon DEF flush_trailers, Close
    <3>2. ContextsTyped' BY <3>1, DroppedType
    <3>3. /\ streams' \in Seq(Calls) /\ fired' \in [Calls -> [Hooks -> Nat]]
          /\ ended' \in [Calls -> {"open", "clean", "error"}]
      BY <3>1, CloseType, Zenon
    <3>4. trailers' \in [Calls -> Statuses \cup {None}] BY <2>3, SMTT(30) DEF flush_trailers, TypeOK
    <3>5. UNCHANGED <<phase, opened, index, installed, decided, ran, writes, expired>>
      BY <2>3 DEF flush_trailers
    <3> QED BY <3>2, <3>3, <3>4, <3>5, Zenon DEF ContextsTyped, TypeOK
  <2> QED BY <1>15, <2>1, <2>2, <2>3 DEF FlushCall
<1>16. CASE flush_done
  BY <1>16 DEF flush_done, TypeOK, streamVars, callVars, sendVars, pastVars
<1>17. ASSUME NEW c \in Calls, clock(c) PROVE TypeOK'
  BY <1>17, SMTT(30) DEF clock, TypeOK, streamVars, sendVars, pastVars
<1>18. CASE UNCHANGED vars
  BY <1>18 DEF vars, TypeOK, streamVars, callVars, sendVars, pastVars
<1> QED BY <1>1, <1>2, <1>3, <1>4, <1>5, <1>6, <1>7, <1>8, <1>9, <1>10, <1>11, <1>12, <1>13,
           <1>14, <1>15, <1>16, <1>17, <1>18 DEF Next, Tick, Dispatch, Peer, Application

-----------------------------------------------------------------------------
(* The inductive invariant, by what it is about.                           *)

\* A call the peer has not opened.
NotYet(c) ==
    /\ state[c] = "absent" /\ ran[c] = 0 /\ decided[c] = None /\ trailers[c] = None
    /\ installed[c] = 0 /\ ended[c] = "open"

StreamOf(c) ==
    /\ c \in Here <=> state[c] # "absent"
    /\ c > opened => NotYet(c)
    /\ source[c] # "absent" => c \in Here
    /\ ended[c] # "open" => c \notin Here

\* The Vec holds each open call once, and only open calls have a response.
StreamsInv == Distinct(streams) /\ \A c \in Calls : StreamOf(c)

InHandler(c) == phase = "handler" /\ c = Current

HandlerOf(c) ==
    /\ ran[c] <= 1
    /\ state[c] \in {"HeadersIn", "BodyIn"} => ran[c] = 0
    /\ state[c] = "Complete" => ran[c] = 0 \/ InHandler(c)

\* A call is handled when it is complete, and no longer complete after its handler.
HandlerInv ==
    /\ index >= 1
    /\ phase = "handler" => /\ index <= Len(streams)
                            /\ state[Current] = "Complete" /\ ran[Current] = 1
    /\ \A c \in Calls : HandlerOf(c)

StatusOf(c) ==
    /\ c \in finished => c \in Here /\ decided[c] # None /\ final_status[c] = decided[c]
    /\ c \in Here \ finished => decided[c] = None
    /\ state[c] \in {"HeadersIn", "BodyIn", "Complete"} /\ ran[c] = 0 => c \notin finished
    /\ trailers[c] # None => trailers[c] = decided[c]

\* out.final_status is the status decided first, from then until the context is dropped.
StatusInv == \A c \in Calls : StatusOf(c)

HookOf(c) ==
    /\ hook[c] # 0 => c \in Here /\ hook[c] = installed[c] /\ fired[c][hook[c]] = 0
    /\ c \in Here /\ installed[c] > 0 => hook[c] = installed[c] \/ fired[c][installed[c]] = 1

\* A call's hook is the last one installed, until it fires.
HookInv == \A c \in Calls : HookOf(c)

CallInv ==
    /\ TypeOK /\ StreamsInv /\ HandlerInv /\ StatusInv /\ HookInv /\ HookMatchesEnd

-----------------------------------------------------------------------------

\* A step that concerns no call: only the tick's place, a deadline or a queue changes.
Still ==
    /\ UNCHANGED <<streams, opened, state, hook, finished, final_status, installed, fired,
                   decided, expired, trailers, ran, ended>>
    /\ \A c \in Calls : source'[c] # "absent" => source[c] # "absent"
    /\ phase = "handler" => UNCHANGED <<phase, index>>
    /\ phase' = "handler" => phase = "handler"
    /\ index >= 1 => index' >= 1

\* The stream of call c closes, with its trailers or before them.
Closes(c, error) ==
    /\ c \in Here /\ Close(c, error)
    /\ phase \in {"read", "flush"}
    /\ UNCHANGED <<phase, opened, index, installed, decided, ran, expired>>
    /\ \/ trailers' = trailers
       \/ c \in finished /\ trailers' = [trailers EXCEPT ![c] = final_status[c]]

\* What a step can be, for the calls.
LEMMA NextKinds ==
    ASSUME TypeOK, \A c \in Calls : source[c] # "absent" => c \in Here, [Next]_vars
    PROVE  \/ Still
           \/ tick_read \/ tick_write
           \/ \E req \in Requests, dl \in {"none", "armed"} : on_begin_headers(req, dl)
           \/ \E c \in Calls, b \in BOOLEAN : on_frame_recv(c, b)
           \/ \E c \in Calls, b \in BOOLEAN : Closes(c, b)
           \/ drop
           \/ \E ok \in Submits : finalize_error(ok)
           \/ handler_start
           \/ \E ok \in Submits, rc \in {"Ok", "App"} : handler_return(rc, ok)
           \/ \E c \in Calls, status \in {"Ok", "App"} : finish_call(c, status)
           \/ \E c \in Calls : set_cancel_hook(c)
<1>1. CASE reads_done \/ dispatch_skip \/ dispatch_done \/ flush_done
  <2>1. Still
    BY <1>1 DEF reads_done, dispatch_skip, dispatch_done, flush_done, Still, streamVars,
       callVars, sendVars, pastVars, TypeOK
  <2> QED BY <2>1
<1>2. ASSUME NEW c \in Calls, write_call(c) PROVE Still
  BY <1>2 DEF write_call, Resumed, Still, streamVars, callVars
<1>3. ASSUME NEW c \in Calls, flush_data(c) \/ flush_deferred(c) \/ clock(c) PROVE Still
  BY <1>3 DEF flush_data, flush_deferred, clock, Still, streamVars, callVars, sendVars,
     pastVars, TypeOK
<1>4. ASSUME NEW c \in Calls, flush_trailers(c) PROVE Closes(c, FALSE)
  BY <1>4, Zenon DEF flush_trailers, Closes, TypeOK
<1>5. ASSUME NEW c \in Calls, NEW b \in BOOLEAN, on_stream_close(c, b) PROVE Closes(c, b)
  BY <1>5, Zenon DEF on_stream_close, Closes
<1>6. CASE UNCHANGED vars
  <2>1. Still BY <1>6 DEF vars, Still, streamVars, callVars, sendVars, pastVars
  <2> QED BY <2>1
<1> QED BY <1>1, <1>2, <1>3, <1>4, <1>5, <1>6, Zenon
        DEF Next, Tick, Dispatch, Peer, Application, FlushCall

\* The call that dispatch is at is an open one.
LEMMA CurrentHere ==
    ASSUME TypeOK, index >= 1, index <= Len(streams)
    PROVE  Current \in Calls /\ Current \in Here
<1>1. index \in DOMAIN streams BY SMTT(30) DEF TypeOK
<1> QED BY <1>1, CurrentType DEF Current, Here

\* What expire_deadlines leaves of a call: one that expires was dispatched and open.
LEMMA ExpireEffect ==
    ASSUME TypeOK, tick_read \/ tick_write
    PROVE  /\ UNCHANGED <<streams, opened, state, index, installed, trailers, ran, ended>>
           /\ phase # "handler" /\ phase' # "handler"
           /\ expire_deadlines
           /\ \A c \in Calls : source'[c] # "absent" => source[c] # "absent"
           /\ \A c \in Calls : decided'[c] # decided[c] => c \in Expiring
BY DEF tick_read, tick_write, streamVars, expire_deadlines, Decide, Resumed, TypeOK

\* A call that the peer opens joins the Vec.
LEMMA OpensEffect ==
    ASSUME TypeOK, NEW req \in Requests, NEW dl \in {"none", "armed"}, on_begin_headers(req, dl),
           NEW n, n = opened + 1
    PROVE  /\ n \in Calls /\ n > opened /\ opened \in Nat
           /\ Here' = Here \cup {n}
           /\ state'[n] = "HeadersIn" /\ \A d \in Calls : d # n => state'[d] = state[d]
<1>1. n \in Calls /\ n > opened /\ opened \in Nat
  <2>1. opened \in 0..MaxCalls /\ opened < MaxCalls BY DEF on_begin_headers, TypeOK
  <2> QED BY <2>1, ConnAssumption DEF Calls
<1>2. streams \in Seq(Calls) /\ streams' = Append(streams, n) BY DEF on_begin_headers, TypeOK
<1>3. /\ DOMAIN streams' = 1..(Len(streams) + 1) /\ DOMAIN streams = 1..Len(streams)
      /\ Len(streams) \in Nat /\ streams'[Len(streams) + 1] = n
      /\ \A k \in 1..Len(streams) : streams'[k] = streams[k]
  BY <1>1, <1>2
<1>4. Here' = Here \cup {n} BY <1>3 DEF Here
<1>5. state'[n] = "HeadersIn" /\ \A d \in Calls : d # n => state'[d] = state[d]
  BY <1>1, SMTT(30) DEF on_begin_headers, TypeOK
<1> QED BY <1>1, <1>4, <1>5

\* What the close of a stream leaves of its call and of the others.
LEMMA ClosesEffect ==
    ASSUME TypeOK, Distinct(streams), NEW c \in Calls, NEW error \in BOOLEAN, Closes(c, error)
    PROVE  /\ c \in Here /\ Here' = Here \ {c} /\ Distinct(streams')
           /\ state'[c] = "absent" /\ source'[c] = "absent" /\ hook'[c] = 0 /\ c \notin finished'
           /\ ended'[c] = IF error THEN "error" ELSE "clean"
           /\ \A d \in Calls : d # c =>
                 /\ state'[d] = state[d] /\ source'[d] = source[d] /\ hook'[d] = hook[d]
                 /\ d \in finished' <=> d \in finished
                 /\ final_status'[d] = final_status[d] /\ ended'[d] = ended[d]
                 /\ trailers'[d] = trailers[d] /\ fired'[d] = fired[d]
<1>1. c \in Here /\ Close(c, error) /\ Dropped({c}) BY DEF Closes, Close
<1>2. Here' = Here \ {c} /\ Distinct(streams') BY <1>1, CloseType
<1>3. /\ state'[c] = "absent" /\ source'[c] = "absent" /\ hook'[c] = 0 /\ c \notin finished'
      /\ \A d \in Calls : d # c =>
            /\ state'[d] = state[d] /\ source'[d] = source[d] /\ hook'[d] = hook[d]
            /\ d \in finished' <=> d \in finished
            /\ final_status'[d] = final_status[d]
  BY <1>1 DEF Dropped
<1>4. /\ ended'[c] = IF error THEN "error" ELSE "clean"
      /\ \A d \in Calls : d # c => ended'[d] = ended[d] /\ fired'[d] = fired[d]
  BY <1>1 DEF Close, Fired, TypeOK
<1>5. \A d \in Calls : d # c => trailers'[d] = trailers[d] BY DEF Closes, TypeOK
<1> QED BY <1>1, <1>2, <1>3, <1>4, <1>5

\* drop leaves no call.
LEMMA DropEffect ==
    ASSUME TypeOK, drop
    PROVE  /\ Here' = {} /\ Distinct(streams')
           /\ UNCHANGED <<opened, index, installed, fired, decided, expired, trailers, ran, ended>>
           /\ phase # "handler" /\ phase' # "handler"
           /\ \A d \in Calls : /\ state'[d] = "absent" /\ source'[d] = "absent"
                               /\ hook'[d] = 0 /\ d \notin finished'
<1>1. Here' = {} /\ Distinct(streams') BY DEF drop, Here, Distinct
<1>2. /\ UNCHANGED <<opened, index, installed, fired, decided, expired, trailers, ran, ended>>
      /\ phase # "handler" /\ phase' # "handler" /\ Dropped(Calls)
  BY SMTT(30) DEF drop, pastVars
<1>3. ASSUME NEW d \in Calls
      PROVE  state'[d] = "absent" /\ source'[d] = "absent" /\ hook'[d] = 0 /\ d \notin finished'
  BY <1>2 DEF Dropped
<1> QED BY <1>1, <1>2, <1>3, Zenon

\* finalize_error ends the call that dispatch is at.
LEMMA FinalizeEffect ==
    ASSUME TypeOK, index >= 1, NEW ok \in Submits, finalize_error(ok)
    PROVE  /\ Current \in Calls /\ Current \in Here
           /\ phase = "dispatch" /\ phase' = "dispatch"
           /\ index <= Len(streams) /\ index' = index + 1
           /\ UNCHANGED <<streams, opened, hook, installed, fired, expired, trailers, ran, ended>>
           /\ state[Current] = "Complete" /\ state'[Current] = "Dispatched"
           /\ Current \in finished'
           /\ final_status'[Current] \in Statuses
           /\ decided'[Current] = IF decided[Current] = None THEN final_status'[Current]
                                  ELSE decided[Current]
           /\ \A d \in Calls : d # Current =>
                 /\ state'[d] = state[d] /\ source'[d] = source[d] /\ decided'[d] = decided[d]
                 /\ (d \in finished' <=> d \in finished) /\ final_status'[d] = final_status[d]
<1>1. Current \in Calls /\ Current \in Here BY CurrentHere DEF finalize_error
<1>2. /\ phase = "dispatch" /\ phase' = "dispatch"
      /\ index <= Len(streams) /\ index' = index + 1 /\ state[Current] = "Complete"
      /\ UNCHANGED <<streams, opened, hook, installed, fired, expired, trailers, ran, ended>>
  BY Zenon DEF finalize_error
<1>3. state' = [state EXCEPT ![Current] = "Dispatched"] BY DEF finalize_error
<1>4. PICK status \in Statuses :
        /\ finished' = finished \cup {Current}
        /\ final_status' = [final_status EXCEPT ![Current] = status]
        /\ decided' = [decided EXCEPT ![Current] = IF decided[Current] = None THEN status
                                                  ELSE decided[Current]]
  BY Zenon DEF finalize_error, Statuses
<1>5. source' = source \/ source' = [source EXCEPT ![Current] = "ready"]
  BY DEF finalize_error, submit_response_for
<1>6. PICK x \in Calls : x = Current BY <1>1
<1>7. /\ state \in [Calls -> {"absent", "HeadersIn", "BodyIn", "Complete", "Dispatched", "Cancelled"}]
      /\ DOMAIN final_status = Calls /\ DOMAIN decided = Calls /\ DOMAIN source = Calls
  BY DEF TypeOK
<1>8. state'[x] = "Dispatched" /\ \A d \in Calls : d # x => state'[d] = state[d]
  BY <1>3, <1>6, <1>7
<1>9. \A d \in Calls : d # x => source'[d] = source[d] BY <1>5, <1>6, <1>7
<1>10. /\ x \in finished' /\ final_status'[x] = status
       /\ decided'[x] = IF decided[x] = None THEN status ELSE decided[x]
       /\ \A d \in Calls : d # x =>
             /\ decided'[d] = decided[d] /\ (d \in finished' <=> d \in finished)
             /\ final_status'[d] = final_status[d]
  BY <1>4, <1>6, <1>7
<1> QED BY <1>1, <1>2, <1>6, <1>8, <1>9, <1>10, Zenon

\* A handler that returns leaves its call dispatched or cancelled.
LEMMA ReturnEffect ==
    ASSUME TypeOK, index >= 1, index <= Len(streams), NEW ok \in Submits, NEW rc \in {"Ok", "App"},
           handler_return(rc, ok)
    PROVE  /\ Current \in Calls /\ Current \in Here
           /\ phase' = "dispatch" /\ index' = index + 1
           /\ UNCHANGED <<streams, opened, hook, installed, fired, expired, trailers, ran, ended>>
           /\ state'[Current] \in {"Dispatched", "Cancelled"}
           /\ UNCHANGED <<finished, final_status, decided>> \/ Decide({Current}, rc)
           /\ \A d \in Calls : d # Current =>
                 state'[d] = state[d] /\ source'[d] = source[d] /\ decided'[d] = decided[d]
<1>1. Current \in Calls /\ Current \in Here BY CurrentHere
<1>2. /\ phase' = "dispatch" /\ index' = index + 1
      /\ UNCHANGED <<streams, opened, hook, installed, fired, expired, trailers, ran, ended>>
  BY Zenon DEF handler_return
<1>3. state' = [state EXCEPT ![Current] = Handled(ok)] /\ Handled(ok) \in {"Dispatched", "Cancelled"}
  BY DEF handler_return, Handled
<1>4. source' = source \/ source' = [source EXCEPT ![Current] = "ready"]
  BY DEF handler_return, submit_response_for
<1>5. UNCHANGED <<finished, final_status, decided>> \/ Decide({Current}, rc)
  BY Zenon DEF handler_return
<1>6. PICK x \in Calls : x = Current BY <1>1
<1>7. /\ state \in [Calls -> {"absent", "HeadersIn", "BodyIn", "Complete", "Dispatched", "Cancelled"}]
      /\ DOMAIN source = Calls
  BY DEF TypeOK
<1>8. /\ state'[x] \in {"Dispatched", "Cancelled"}
      /\ \A d \in Calls : d # x => state'[d] = state[d]
  BY <1>3, <1>6, <1>7
<1>9. \A d \in Calls : d # x => source'[d] = source[d] BY <1>4, <1>6, <1>7
<1>10. \A d \in Calls : d # x => decided'[d] = decided[d] BY <1>5, <1>6 DEF Decide
<1> QED BY <1>1, <1>2, <1>5, <1>6, <1>8, <1>9, <1>10

\* The handler of the call that dispatch is at starts.
LEMMA StartEffect ==
    ASSUME TypeOK, index >= 1, handler_start
    PROVE  /\ Current \in Calls /\ Current \in Here /\ Current' = Current
           /\ phase = "dispatch" /\ phase' = "handler" /\ index <= Len(streams)
           /\ UNCHANGED <<streams, opened, state, index, hook, finished, final_status, source,
                          installed, fired, decided, expired, trailers, ended>>
           /\ state[Current] = "Complete"
           /\ ran'[Current] = ran[Current] + 1 /\ ran[Current] \in Nat
           /\ \A d \in Calls : d # Current => ran'[d] = ran[d]
<1>1. Current \in Calls /\ Current \in Here BY CurrentHere DEF handler_start
<1>2. /\ phase = "dispatch" /\ phase' = "handler" /\ index <= Len(streams)
      /\ UNCHANGED <<streams, opened, state, index, hook, finished, final_status, source,
                     installed, fired, decided, expired, trailers, ended>>
      /\ state[Current] = "Complete"
  BY Zenon DEF handler_start, streamVars, callVars, sendVars
<1>3. ran' = [ran EXCEPT ![Current] = ran[Current] + 1] /\ ran \in [Calls -> Nat]
  BY DEF handler_start, TypeOK
<1>4. PICK x \in Calls : x = Current BY <1>1
<1>5. ran'[x] = ran[x] + 1 /\ ran[x] \in Nat /\ \A d \in Calls : d # x => ran'[d] = ran[d]
  BY <1>3, <1>4
<1>6. Current' = Current BY <1>2, SMTT(30) DEF Current
<1> QED BY <1>1, <1>2, <1>4, <1>5, <1>6

\* The application finishes a call or installs a hook.
LEMMA FinishEffect ==
    ASSUME TypeOK, NEW c \in Calls, NEW status \in {"Ok", "App"}, finish_call(c, status)
    PROVE  /\ c \in Here /\ ran[c] > 0 /\ status \in Statuses /\ Decide({c}, status)
           /\ UNCHANGED <<phase, streams, opened, state, index, hook, installed, fired, expired,
                          trailers, ran, ended>>
           /\ \A d \in Calls : /\ source'[d] # "absent" => source[d] # "absent"
                               /\ d # c => decided'[d] = decided[d]
<1>1. c \in Here /\ ran[c] > 0 /\ status \in Statuses /\ Decide({c}, status)
  BY DEF finish_call, MayUse, Statuses
<1>2. UNCHANGED <<phase, streams, opened, state, index, hook, installed, fired, expired, trailers,
                  ran, ended>>
  BY Zenon DEF finish_call, streamVars
<1>3. \A d \in Calls : source'[d] # "absent" => source[d] # "absent" BY SMTT(30) DEF finish_call, Resumed
<1>4. \A d \in Calls : d # c => decided'[d] = decided[d] BY <1>1 DEF Decide
<1> QED BY <1>1, <1>2, <1>3, <1>4

\* set_cancel_hook installs the next hook of an open call.
LEMMA HookEffect ==
    ASSUME TypeOK, NEW c \in Calls, set_cancel_hook(c)
    PROVE  /\ c \in Here
           /\ UNCHANGED <<phase, streams, opened, state, index, source, finished, final_status, fired,
                          decided, expired, trailers, ran, ended>>
           /\ \E h \in Hooks : h = installed[c] + 1 /\ installed'[c] = h /\ hook'[c] = h
           /\ \A d \in Calls : d # c => installed'[d] = installed[d] /\ hook'[d] = hook[d]
<1>1. c \in Here BY Zenon DEF set_cancel_hook, MayUse
<1>2. UNCHANGED <<phase, streams, opened, state, index, source, finished, final_status, fired,
                  decided, expired, trailers, ran, ended>>
  BY Zenon DEF set_cancel_hook, streamVars, sendVars
<1>3. PICK h \in Hooks : /\ h = installed[c] + 1
                         /\ installed' = [installed EXCEPT ![c] = h]
                         /\ hook' = [hook EXCEPT ![c] = h]
  BY Zenon DEF set_cancel_hook
<1>4. DOMAIN installed = Calls /\ DOMAIN hook = Calls BY DEF TypeOK
<1> QED BY <1>1, <1>2, <1>3, <1>4

-----------------------------------------------------------------------------
(* The invariants of the calls, and the theorems.                          *)

\* Every step keeps StreamsInv.
LEMMA NextStreams ==
    ASSUME TypeOK, TypeOK', StreamsInv, HandlerInv, [Next]_vars
    PROVE  StreamsInv'
<1>0. \A c \in Calls : source[c] # "absent" => c \in Here BY Zenon DEF StreamsInv, StreamOf
<1>1. CASE Still
  <2>1. Here' = Here BY <1>1, Zenon DEF Still, Here
  <2> SUFFICES ASSUME NEW d \in Calls PROVE StreamOf(d)'
    BY <1>1, Zenon DEF Still, StreamsInv, Distinct
  <2>2. StreamOf(d) BY Zenon DEF StreamsInv
  <2> QED BY <1>1, <2>1, <2>2, Zenon DEF Still, StreamOf, NotYet
<1>2. CASE tick_read \/ tick_write
  <2>1. Here' = Here /\ Distinct(streams') BY <1>2, ExpireEffect, Zenon DEF Here, StreamsInv, Distinct
  <2> SUFFICES ASSUME NEW d \in Calls PROVE StreamOf(d)'
    BY <2>1, Zenon DEF StreamsInv
  <2>2. StreamOf(d) BY Zenon DEF StreamsInv
  <2>3. decided'[d] # decided[d] => d \in Here BY <1>2, ExpireEffect, ExpiringDue, Zenon
  <2> QED BY <1>2, <2>1, <2>2, <2>3, ExpireEffect, Zenon DEF StreamOf, NotYet
<1>3. ASSUME NEW req \in Requests, NEW dl \in {"none", "armed"}, on_begin_headers(req, dl)
      PROVE  StreamsInv'
  <2>0. PICK n : n = opened + 1 BY Zenon
  <2>1. n \in Calls /\ n > opened /\ opened \in Nat BY <1>3, <2>0, OpensEffect, Zenon
  <2>2. n \notin Here /\ NotYet(n) BY <2>1, Zenon DEF StreamsInv, StreamOf, NotYet
  <2>3. /\ streams' = Append(streams, n) /\ streams \in Seq(Calls) /\ opened' = n
        /\ UNCHANGED <<source, ended, ran, decided, trailers, installed>>
    BY <1>3, <2>0, Zenon DEF on_begin_headers, TypeOK, sendVars, pastVars
  <2>4. /\ state'[n] = "HeadersIn" /\ \A d \in Calls : d # n => state'[d] = state[d]
        /\ Here' = Here \cup {n}
    BY <1>3, <2>0, OpensEffect, Zenon
  <2>5. Distinct(streams')
    <3>1. /\ DOMAIN streams' = 1..(Len(streams) + 1) /\ DOMAIN streams = 1..Len(streams)
          /\ Len(streams) \in Nat /\ streams'[Len(streams) + 1] = n
          /\ \A k \in 1..Len(streams) : streams'[k] = streams[k]
      BY <2>1, <2>3
    <3>2. \A k \in DOMAIN streams : streams[k] # n BY <2>2, Zenon DEF Here
    <3>3. \A i, j \in DOMAIN streams : streams[i] = streams[j] => i = j
      BY Zenon DEF StreamsInv, Distinct
    <3>4. ASSUME NEW i \in DOMAIN streams', NEW j \in DOMAIN streams', streams'[i] = streams'[j]
          PROVE  i = j
      <4>1. /\ i = Len(streams) + 1 \/ i \in DOMAIN streams
            /\ j = Len(streams) + 1 \/ j \in DOMAIN streams
        BY <3>1, SMTT(30)
      <4>2. CASE i \in DOMAIN streams /\ j \in DOMAIN streams BY <3>1, <3>3, <3>4, <4>2, Zenon
      <4>3. CASE i = Len(streams) + 1 /\ j \in DOMAIN streams BY <3>1, <3>2, <3>4, <4>3, Zenon
      <4>4. CASE i \in DOMAIN streams /\ j = Len(streams) + 1 BY <3>1, <3>2, <3>4, <4>4, Zenon
      <4> QED BY <4>1, <4>2, <4>3, <4>4, Zenon
    <3> QED BY <3>4, Zenon DEF Distinct
  <2> SUFFICES ASSUME NEW d \in Calls PROVE StreamOf(d)'
    BY <2>5, Zenon DEF StreamsInv
  <2>6. StreamOf(d) /\ d \in Nat BY DEF StreamsInv, Calls
  <2>7. CASE d = n BY <2>1, <2>2, <2>3, <2>4, <2>5, <2>6, <2>7 DEF StreamOf, NotYet
  <2>8. CASE d # n
    <3>1. d > opened' => d > opened BY <2>1, <2>3, <2>6
    <3> QED BY <2>3, <2>4, <2>5, <2>6, <2>8, <3>1, Zenon DEF StreamOf, NotYet
  <2> QED BY <2>7, <2>8, Zenon
<1>4. ASSUME NEW c \in Calls, NEW b \in BOOLEAN, on_frame_recv(c, b) PROVE StreamsInv'
  <2>1. Here' = Here /\ Distinct(streams') BY <1>4, Zenon DEF on_frame_recv, Here, StreamsInv, Distinct
  <2> SUFFICES ASSUME NEW d \in Calls PROVE StreamOf(d)'
    BY <2>1, Zenon DEF StreamsInv
  <2>2. StreamOf(d) BY Zenon DEF StreamsInv
  <2>3. /\ state'[d] # "absent" <=> state[d] # "absent"
        /\ UNCHANGED <<opened, ran, decided, trailers, installed, ended, source>>
    BY <1>4 DEF on_frame_recv, TypeOK, sendVars, pastVars
  <2> QED BY <2>1, <2>2, <2>3, Zenon DEF StreamOf, NotYet
<1>5. ASSUME NEW c \in Calls, NEW b \in BOOLEAN, Closes(c, b) PROVE StreamsInv'
  <2>1. Distinct(streams) BY Zenon DEF StreamsInv
  <2>2. Distinct(streams') BY <1>5, <2>1, ClosesEffect, Zenon
  <2> SUFFICES ASSUME NEW d \in Calls PROVE StreamOf(d)'
    BY <2>2, Zenon DEF StreamsInv
  <2>3. StreamOf(d) /\ StreamOf(c) BY Zenon DEF StreamsInv
  <2>4. UNCHANGED <<opened, installed, decided, ran>> BY <1>5, Zenon DEF Closes
  <2>5. CASE d = c
    BY <1>5, <2>1, <2>3, <2>4, <2>5, ClosesEffect, Zenon DEF StreamOf, NotYet
  <2>6. CASE d # c
    BY <1>5, <2>1, <2>3, <2>4, <2>6, ClosesEffect, ZenonT(30) DEF StreamOf, NotYet
  <2> QED BY <2>5, <2>6, Zenon
<1>6. CASE drop
  <2>1. Here' = {} /\ Distinct(streams') BY <1>6, DropEffect, Zenon
  <2> SUFFICES ASSUME NEW d \in Calls PROVE StreamOf(d)'
    BY <2>1, Zenon DEF StreamsInv
  <2>2. StreamOf(d) BY Zenon DEF StreamsInv
  <2>3. /\ state'[d] = "absent" /\ source'[d] = "absent"
        /\ UNCHANGED <<opened, ran, decided, trailers, installed, ended>>
    BY <1>6, DropEffect, Zenon
  <2> QED BY <2>1, <2>2, <2>3, Zenon DEF StreamOf, NotYet
<1>7. ASSUME NEW c \in Here, c \in Calls,
             UNCHANGED <<streams, opened, trailers, installed, ended>>,
             \A d \in Calls \ {c} : /\ state'[d] = state[d] /\ source'[d] = source[d]
                                    /\ ran'[d] = ran[d] /\ decided'[d] = decided[d],
             state'[c] # "absent"
      PROVE  StreamsInv'
  <2>1. Here' = Here /\ Distinct(streams')
    <3>1. streams' = streams /\ Distinct(streams) BY <1>7, Zenon DEF StreamsInv
    <3>2. Here' = Here BY <3>1, Zenon DEF Here
    <3>3. Distinct(streams') BY <3>1, Zenon
    <3> QED BY <3>2, <3>3, Zenon
  <2> SUFFICES ASSUME NEW d \in Calls PROVE StreamOf(d)'
    BY <2>1, Zenon DEF StreamsInv
  <2>2. StreamOf(d) BY Zenon DEF StreamsInv
  <2>3. CASE d = c BY <1>7, <2>1, <2>2, <2>3, Zenon DEF StreamOf, NotYet
  <2>4. CASE d # c BY <1>7, <2>1, <2>2, <2>4, Zenon DEF StreamOf, NotYet
  <2> QED BY <2>3, <2>4, Zenon
<1>8. index >= 1 BY Zenon DEF HandlerInv
<1>9. ASSUME NEW ok \in Submits, finalize_error(ok) PROVE StreamsInv'
  <2>1. PICK c : c = Current BY Zenon
  <2> QED BY <1>7, <1>8, <1>9, <2>1, FinalizeEffect, Zenon
<1>10. CASE handler_start
  <2>1. PICK c : c = Current BY Zenon
  <2> QED BY <1>7, <1>8, <1>10, <2>1, StartEffect, Zenon
<1>11. ASSUME NEW ok \in Submits, NEW rc \in {"Ok", "App"}, handler_return(rc, ok) PROVE StreamsInv'
  <2>1. index <= Len(streams) BY <1>11, Zenon DEF handler_return, HandlerInv
  <2>2. PICK c : c = Current BY Zenon
  <2> QED BY <1>7, <1>8, <1>11, <2>1, <2>2, ReturnEffect, Zenon
<1>12. ASSUME NEW c \in Calls, NEW status \in {"Ok", "App"}, finish_call(c, status) PROVE StreamsInv'
  <2>1. /\ c \in Here /\ UNCHANGED <<streams, opened, state, ran, trailers, installed, ended>>
        /\ \A d \in Calls : /\ source'[d] # "absent" => source[d] # "absent"
                            /\ d # c => decided'[d] = decided[d]
    BY <1>12, FinishEffect, Zenon
  <2>2. Here' = Here /\ Distinct(streams') BY <2>1, Zenon DEF Here, StreamsInv, Distinct
  <2> SUFFICES ASSUME NEW d \in Calls PROVE StreamOf(d)'
    BY <2>2, Zenon DEF StreamsInv
  <2>3. StreamOf(d) BY Zenon DEF StreamsInv
  <2> QED BY <2>1, <2>2, <2>3, Zenon DEF StreamOf, NotYet
<1>13. ASSUME NEW c \in Calls, set_cancel_hook(c) PROVE StreamsInv'
  <2>1. /\ c \in Here /\ UNCHANGED <<streams, opened, state, source, ran, trailers, decided, ended>>
        /\ \A d \in Calls : d # c => installed'[d] = installed[d]
    BY <1>13, HookEffect, Zenon
  <2>2. Here' = Here /\ Distinct(streams') BY <2>1, Zenon DEF Here, StreamsInv, Distinct
  <2> SUFFICES ASSUME NEW d \in Calls PROVE StreamOf(d)'
    BY <2>2, Zenon DEF StreamsInv
  <2>3. StreamOf(d) BY Zenon DEF StreamsInv
  <2> QED BY <2>1, <2>2, <2>3, Zenon DEF StreamOf, NotYet
<1> QED BY <1>0, <1>1, <1>2, <1>3, <1>4, <1>5, <1>6, <1>9, <1>10, <1>11, <1>12, <1>13, NextKinds, Zenon

-----------------------------------------------------------------------------

\* Every step keeps HandlerInv.
LEMMA NextHandler ==
    ASSUME TypeOK, TypeOK', StreamsInv, HandlerInv, [Next]_vars
    PROVE  HandlerInv'
<1>0. \A c \in Calls : source[c] # "absent" => c \in Here BY Zenon DEF StreamsInv, StreamOf
<1>1. CASE Still
  <2>1. phase' = "handler" => phase = "handler" /\ Current' = Current /\ index' = index
    BY <1>1, Zenon DEF Still, Current
  <2>2. phase = "handler" => phase' = "handler" /\ Current' = Current BY <1>1, Zenon DEF Still, Current
  <2>3. UNCHANGED <<state, ran, streams>> /\ index' >= 1 BY <1>1, Zenon DEF Still, HandlerInv
  <2> QED BY <2>1, <2>2, <2>3, Zenon DEF HandlerInv, HandlerOf, InHandler
\* Steps outside of a handler, on calls whose state they leave or that become absent.
<1>2. ASSUME phase # "handler", phase' # "handler", index' >= 1, ran' = ran,
             \A d \in Calls : state'[d] \in {state[d], "absent"}
      PROVE  HandlerInv'
  <2> SUFFICES ASSUME NEW d \in Calls PROVE HandlerOf(d)'
    BY <1>2, Zenon DEF HandlerInv
  <2>1. HandlerOf(d) BY Zenon DEF HandlerInv
  <2>2. state'[d] \in {state[d], "absent"} BY <1>2, Zenon
  <2> QED BY <1>2, <2>1, <2>2, Zenon DEF HandlerOf, InHandler
<1>3. CASE tick_read \/ tick_write BY <1>2, <1>3, ExpireEffect, Zenon DEF HandlerInv
<1>4. ASSUME NEW req \in Requests, NEW dl \in {"none", "armed"}, on_begin_headers(req, dl)
      PROVE  HandlerInv'
  <2>0. PICK n : n = opened + 1 BY Zenon
  <2>1. n \in Calls /\ n > opened BY <1>4, <2>0, OpensEffect, Zenon
  <2>2. ran[n] = 0 BY <2>1, Zenon DEF StreamsInv, StreamOf, NotYet
  <2>3. phase = "read" /\ phase' = "read" /\ ran' = ran /\ index' = index
    BY <1>4, Zenon DEF on_begin_headers, pastVars
  <2>4. state'[n] = "HeadersIn" /\ \A d \in Calls : d # n => state'[d] = state[d]
    BY <1>4, <2>0, OpensEffect, Zenon
  <2> SUFFICES ASSUME NEW d \in Calls PROVE HandlerOf(d)'
    BY <2>3, Zenon DEF HandlerInv
  <2>5. HandlerOf(d) BY Zenon DEF HandlerInv
  <2> QED BY <2>2, <2>3, <2>4, <2>5, Zenon DEF HandlerOf, InHandler
<1>5. ASSUME NEW c \in Calls, NEW b \in BOOLEAN, on_frame_recv(c, b) PROVE HandlerInv'
  <2>1. phase = "read" /\ phase' = "read" /\ ran' = ran /\ index' = index
    BY <1>5, Zenon DEF on_frame_recv, pastVars
  <2>2. state[c] \in {"HeadersIn", "BodyIn"} /\ \A d \in Calls : d # c => state'[d] = state[d]
    BY <1>5 DEF on_frame_recv, TypeOK
  <2> SUFFICES ASSUME NEW d \in Calls PROVE HandlerOf(d)'
    BY <2>1, Zenon DEF HandlerInv
  <2>3. HandlerOf(d) BY Zenon DEF HandlerInv
  <2> QED BY <2>1, <2>2, <2>3, Zenon DEF HandlerOf, InHandler
<1>6. ASSUME NEW c \in Calls, NEW b \in BOOLEAN, Closes(c, b) PROVE HandlerInv'
  <2>1. Distinct(streams) BY Zenon DEF StreamsInv
  <2>2. \A d \in Calls : state'[d] \in {state[d], "absent"} BY <1>6, <2>1, ClosesEffect, Zenon
  <2> QED BY <1>2, <1>6, <2>2, Zenon DEF Closes, HandlerInv
<1>7. CASE drop
  <2>1. \A d \in Calls : state'[d] \in {state[d], "absent"} BY <1>7, DropEffect, Zenon
  <2> QED BY <1>2, <1>7, <2>1, DropEffect, Zenon DEF HandlerInv
\* Steps after which the call that dispatch was at is no longer complete.
<1>8. ASSUME index >= 1, index <= Len(streams), phase' = "dispatch", index' = index + 1, ran' = ran,
             state'[Current] \in {"Dispatched", "Cancelled"},
             \A d \in Calls : d # Current => state'[d] = state[d]
      PROVE  HandlerInv'
  <2> SUFFICES ASSUME NEW d \in Calls PROVE HandlerOf(d)'
    BY <1>8 DEF HandlerInv, TypeOK
  <2>1. HandlerOf(d) BY Zenon DEF HandlerInv
  <2>2. CASE d = Current BY <1>8, <2>1, <2>2, Zenon DEF HandlerOf
  <2>3. CASE d # Current BY <1>8, <2>1, <2>3, Zenon DEF HandlerOf, InHandler
  <2> QED BY <2>2, <2>3, Zenon
<1>9. ASSUME NEW ok \in Submits, finalize_error(ok) PROVE HandlerInv'
  <2>1. index >= 1 BY Zenon DEF HandlerInv
  <2> QED BY <1>8, <1>9, <2>1, FinalizeEffect, Zenon
<1>10. ASSUME NEW ok \in Submits, NEW rc \in {"Ok", "App"}, handler_return(rc, ok) PROVE HandlerInv'
  <2>1. index >= 1 /\ index <= Len(streams) BY <1>10, Zenon DEF handler_return, HandlerInv
  <2> QED BY <1>8, <1>10, <2>1, ReturnEffect, Zenon
<1>11. CASE handler_start
  <2>1. index >= 1 BY Zenon DEF HandlerInv
  <2>2. PICK x \in Calls : x = Current BY <1>11, <2>1, StartEffect, Zenon
  <2>3. /\ phase = "dispatch" /\ phase' = "handler" /\ index <= Len(streams) /\ Current' = x
        /\ UNCHANGED <<streams, index, state>> /\ state[x] = "Complete"
        /\ ran'[x] = ran[x] + 1 /\ \A d \in Calls : d # x => ran'[d] = ran[d]
    BY <1>11, <2>1, <2>2, StartEffect, Zenon
  <2>4. ran[x] = 0 BY <2>2, <2>3, Zenon DEF HandlerInv, HandlerOf, InHandler
  <2>41. ran'[x] = 1 BY <2>3, <2>4
  <2>42. /\ index' >= 1 /\ index' <= Len(streams')
         /\ state'[Current'] = "Complete" /\ ran'[Current'] = 1
    BY <2>1, <2>3, <2>41, Zenon
  <2> SUFFICES ASSUME NEW d \in Calls PROVE HandlerOf(d)'
    BY <2>42, Zenon DEF HandlerInv
  <2>5. HandlerOf(d) BY Zenon DEF HandlerInv
  <2>6. CASE d = x BY <2>3, <2>4, <2>6 DEF HandlerOf, InHandler
  <2>7. CASE d # x BY <2>3, <2>5, <2>7, Zenon DEF HandlerOf, InHandler
  <2> QED BY <2>6, <2>7, Zenon
<1>12. ASSUME UNCHANGED <<phase, index, streams, state, ran>> PROVE HandlerInv'
  BY <1>12, Zenon DEF HandlerInv, HandlerOf, InHandler, Current
<1>13. ASSUME NEW c \in Calls, NEW status \in {"Ok", "App"}, finish_call(c, status) PROVE HandlerInv'
  BY <1>12, <1>13, FinishEffect, Zenon
<1>14. ASSUME NEW c \in Calls, set_cancel_hook(c) PROVE HandlerInv'
  BY <1>12, <1>14, HookEffect, Zenon
<1> QED BY <1>0, <1>1, <1>3, <1>4, <1>5, <1>6, <1>7, <1>9, <1>10, <1>11, <1>13, <1>14, NextKinds, Zenon

-----------------------------------------------------------------------------

\* finish_call, by whomever, keeps StatusOf: the first status stays.
LEMMA DecideStatus ==
    ASSUME TypeOK, NEW d \in Calls, StatusOf(d), NEW S \in SUBSET Calls, NEW status \in Statuses,
           Decide(S, status), d \in S => d \in Here,
           Here' = Here, trailers' = trailers,
           (state'[d] \in {"HeadersIn", "BodyIn", "Complete"} /\ ran'[d] = 0) =>
               d \notin S /\ state[d] \in {"HeadersIn", "BodyIn", "Complete"} /\ ran[d] = 0
    PROVE  StatusOf(d)'
<1>1. status # None BY Zenon DEF Statuses, None
<1>2. /\ d \in finished' <=> d \in finished \/ d \in S
      /\ final_status'[d] = IF d \in S /\ d \notin finished THEN status ELSE final_status[d]
      /\ decided'[d] = IF d \in S /\ decided[d] = None THEN status ELSE decided[d]
  BY Zenon DEF Decide
<1> QED BY <1>1, <1>2, Zenon DEF StatusOf

\* Every step keeps StatusInv.
LEMMA NextStatus ==
    ASSUME TypeOK, TypeOK', StreamsInv, HandlerInv, StatusInv, [Next]_vars
    PROVE  StatusInv'
<1>0. \A c \in Calls : source[c] # "absent" => c \in Here BY Zenon DEF StreamsInv, StreamOf
<1> SUFFICES ASSUME NEW d \in Calls PROVE StatusOf(d)'
  BY Zenon DEF StatusInv
<1>00. StatusOf(d) /\ StreamOf(d) /\ HandlerOf(d) BY Zenon DEF StatusInv, StreamsInv, HandlerInv
<1>1. CASE Still
  BY <1>00, <1>1, Zenon DEF Still, StatusOf, Here
<1>2. CASE tick_read \/ tick_write
  <2>1. Expiring \in SUBSET Calls /\ "DeadlineExceeded" \in Statuses BY ExpiringDue, Zenon DEF Statuses
  <2>2. d \in Expiring => d \in Here /\ state[d] = "Dispatched" BY ExpiringDue, Zenon DEF Due
  <2>3. Here' = Here /\ trailers' = trailers /\ state' = state /\ ran' = ran
    BY <1>2, ExpireEffect, Zenon DEF Here
  <2>4. Decide(Expiring, "DeadlineExceeded") BY <1>2, ExpireEffect, Zenon DEF expire_deadlines
  <2> QED BY <1>00, <2>1, <2>2, <2>3, <2>4, DecideStatus, Zenon
<1>3. ASSUME NEW req \in Requests, NEW dl \in {"none", "armed"}, on_begin_headers(req, dl)
      PROVE  StatusOf(d)'
  <2>0. PICK n : n = opened + 1 BY Zenon
  <2>1. n \in Calls /\ n > opened BY <1>3, <2>0, OpensEffect, Zenon
  <2>2. n \notin Here /\ NotYet(n) /\ n \notin finished
    BY <2>1, Zenon DEF StreamsInv, StreamOf, NotYet, StatusInv, StatusOf
  <2>3. UNCHANGED <<finished, final_status, decided, trailers, ran>>
    BY <1>3, Zenon DEF on_begin_headers, pastVars
  <2>4. d # n => state'[d] = state[d] BY <1>3, <2>0, OpensEffect, Zenon
  <2>5. d # n => (d \in Here' <=> d \in Here) BY <1>3, <2>0, OpensEffect, ZenonT(30)
  <2>6. CASE d = n BY <2>2, <2>3, <2>6, Zenon DEF StatusOf, NotYet
  <2>7. CASE d # n BY <1>00, <2>3, <2>4, <2>5, <2>7, Zenon DEF StatusOf
  <2> QED BY <2>6, <2>7, Zenon
<1>4. ASSUME NEW c \in Calls, NEW b \in BOOLEAN, on_frame_recv(c, b) PROVE StatusOf(d)'
  <2>1. Here' = Here BY <1>4, Zenon DEF on_frame_recv, Here
  <2>2. UNCHANGED <<finished, final_status, decided, trailers, ran>>
    BY <1>4, Zenon DEF on_frame_recv, callVars, pastVars
  <2>3. state[c] \in {"HeadersIn", "BodyIn"} /\ (d # c => state'[d] = state[d])
    BY <1>4 DEF on_frame_recv, TypeOK
  <2> QED BY <1>00, <2>1, <2>2, <2>3, Zenon DEF StatusOf
<1>5. ASSUME NEW c \in Calls, NEW b \in BOOLEAN, Closes(c, b) PROVE StatusOf(d)'
  <2>1. Distinct(streams) BY Zenon DEF StreamsInv
  <2>2. UNCHANGED <<decided, ran>> BY <1>5, Zenon DEF Closes
  <2>3. CASE d = c
    <3>1. trailers'[c] = trailers[c] \/ (c \in finished /\ trailers'[c] = final_status[c])
      BY <1>5, SMTT(30) DEF Closes, TypeOK
    <3>2. c \notin Here' /\ c \notin finished' BY <1>5, <2>1, ClosesEffect, Zenon
    <3> QED BY <1>00, <2>2, <2>3, <3>1, <3>2, Zenon DEF StatusOf
  <2>4. CASE d # c
    <3>1. /\ d \in Here' <=> d \in Here
          /\ d \in finished' <=> d \in finished
          /\ state'[d] = state[d] /\ final_status'[d] = final_status[d] /\ trailers'[d] = trailers[d]
      BY <1>5, <2>1, <2>4, ClosesEffect, ZenonT(30)
    <3> QED BY <1>00, <2>2, <3>1, Zenon DEF StatusOf
  <2> QED BY <2>3, <2>4, Zenon
<1>6. CASE drop
  <2>1. Here' = {} /\ d \notin finished' /\ UNCHANGED <<decided, trailers>> BY <1>6, DropEffect, Zenon
  <2> QED BY <1>00, <2>1, Zenon DEF StatusOf
<1>7. index >= 1 BY Zenon DEF HandlerInv
<1>8. ASSUME NEW ok \in Submits, finalize_error(ok) PROVE StatusOf(d)'
  <2>1. Here' = Here BY <1>7, <1>8, FinalizeEffect, Zenon DEF Here
  <2>2. UNCHANGED <<trailers, ran>> /\ phase # "handler" BY <1>7, <1>8, FinalizeEffect, Zenon
  <2>3. CASE d = Current
    <3>1. /\ d \in Here /\ state[d] = "Complete" /\ state'[d] = "Dispatched" /\ d \in finished'
          /\ final_status'[d] \in Statuses
          /\ decided'[d] = IF decided[d] = None THEN final_status'[d] ELSE decided[d]
      BY <1>7, <1>8, <2>3, FinalizeEffect, Zenon
    <3>2. d \notin finished /\ decided[d] = None
      BY <1>00, <2>2, <3>1, Zenon DEF HandlerOf, InHandler, StatusOf
    <3>3. final_status'[d] # None BY <3>1, Zenon DEF Statuses, None
    <3> QED BY <1>00, <2>1, <2>2, <3>1, <3>2, <3>3, Zenon DEF StatusOf
  <2>4. CASE d # Current
    <3>1. /\ d \in finished' <=> d \in finished
          /\ final_status'[d] = final_status[d] /\ decided'[d] = decided[d] /\ state'[d] = state[d]
      BY <1>7, <1>8, <2>4, FinalizeEffect, Zenon
    <3> QED BY <1>00, <2>1, <2>2, <3>1, Zenon DEF StatusOf
  <2> QED BY <2>3, <2>4, Zenon
<1>9. CASE handler_start
  <2>1. /\ UNCHANGED <<streams, state, finished, final_status, decided, trailers>>
        /\ ran'[d] = 0 => ran[d] = 0
    <3>1. /\ UNCHANGED <<streams, state, finished, final_status, decided, trailers>>
          /\ ran'[Current] = ran[Current] + 1 /\ ran[Current] \in Nat
          /\ d # Current => ran'[d] = ran[d]
      BY <1>7, <1>9, StartEffect, Zenon
    <3> QED BY <3>1
  <2> QED BY <1>00, <2>1, Zenon DEF StatusOf, Here
<1>10. ASSUME NEW ok \in Submits, NEW rc \in {"Ok", "App"}, handler_return(rc, ok) PROVE StatusOf(d)'
  <2>1. index <= Len(streams) BY <1>10, Zenon DEF handler_return, HandlerInv
  <2>2. PICK x \in Calls : x = Current BY <1>7, <1>10, <2>1, ReturnEffect, Zenon
  <2>3. /\ x \in Here /\ UNCHANGED <<streams, trailers, ran>>
        /\ IF d = x THEN state'[d] \in {"Dispatched", "Cancelled"} ELSE state'[d] = state[d]
        /\ UNCHANGED <<finished, final_status, decided>> \/ Decide({x}, rc)
    BY <1>7, <1>10, <2>1, <2>2, ReturnEffect, Zenon
  <2>4. Here' = Here BY <2>3, Zenon DEF Here
  <2>5. CASE UNCHANGED <<finished, final_status, decided>>
    BY <1>00, <2>3, <2>4, <2>5, Zenon DEF StatusOf
  <2>6. CASE Decide({x}, rc)
    <3>1. rc \in Statuses BY Zenon DEF Statuses
    <3>2. PICK S \in SUBSET Calls : S = {x} BY Zenon
    <3> QED BY <1>00, <2>3, <2>4, <2>6, <3>1, <3>2, DecideStatus, Zenon
  <2> QED BY <2>3, <2>5, <2>6, Zenon
<1>11. ASSUME NEW c \in Calls, NEW status \in {"Ok", "App"}, finish_call(c, status)
       PROVE  StatusOf(d)'
  <2>1. /\ Decide({c}, status) /\ status \in Statuses /\ c \in Here /\ ran[c] > 0
        /\ UNCHANGED <<streams, state, ran, trailers>>
    BY <1>11, FinishEffect, Zenon
  <2>2. Here' = Here BY <2>1, Zenon DEF Here
  <2>3. PICK S \in SUBSET Calls : S = {c} BY Zenon
  <2>4. d \in S => d \in Here /\ ran[d] # 0 BY <2>1, <2>3
  <2> QED BY <1>00, <2>1, <2>2, <2>3, <2>4, DecideStatus, Zenon
<1>12. ASSUME NEW c \in Calls, set_cancel_hook(c) PROVE StatusOf(d)'
  <2>1. UNCHANGED <<streams, state, finished, final_status, decided, trailers, ran>>
    BY <1>12, HookEffect, Zenon
  <2> QED BY <1>00, <2>1, Zenon DEF StatusOf, Here
<1> QED BY <1>0, <1>1, <1>2, <1>3, <1>4, <1>5, <1>6, <1>8, <1>9, <1>10, <1>11, <1>12, NextKinds, Zenon

-----------------------------------------------------------------------------

\* HookMatchesEnd, of one call.
EndOf(c) ==
    /\ \A h \in Hooks : fired[c][h] <= IF h <= installed[c] THEN 1 ELSE 0
    /\ (ended[c] = "error" /\ installed[c] > 0) => fired[c][installed[c]] = 1
    /\ (\E h \in Hooks : fired[c][h] > 0) => ended[c] = "error" \/ c \in expired

\* The types of a call's hooks.
LEMMA HookTypes ==
    ASSUME TypeOK, NEW c \in Calls
    PROVE  /\ hook[c] \in Nat /\ installed[c] \in Nat /\ Hooks \subseteq Nat \ {0}
           /\ \A h \in Hooks : fired[c][h] \in Nat
           /\ hook[c] # 0 => hook[c] \in Hooks
           /\ installed[c] > 0 => installed[c] \in Hooks
<1>1. Hooks \subseteq Nat \ {0} BY DEF Hooks
<1>2. hook[c] \in Hooks \cup {0} /\ installed[c] \in 0..MaxHooks /\ fired[c] \in [Hooks -> Nat]
  BY Zenon DEF TypeOK
<1>3. installed[c] \in Nat /\ (installed[c] > 0 => installed[c] \in Hooks) BY <1>2 DEF Hooks
<1>4. \A h \in Hooks : fired[c][h] \in Nat BY <1>2, Zenon
<1>5. hook[c] \in Nat /\ (hook[c] # 0 => hook[c] \in Hooks)
  <2>1. CASE hook[c] = 0 BY <2>1
  <2>2. CASE hook[c] \in Hooks BY <1>1, <2>2, Zenon
  <2> QED BY <1>2, <2>1, <2>2, Zenon
<1> QED BY <1>1, <1>3, <1>4, <1>5, Zenon

\* A call's hook fires, for the first time.
LEMMA FiredEffect ==
    ASSUME TypeOK, NEW S, NEW c \in Calls
    PROVE  /\ c \notin S \/ hook[c] = 0 => Fired(S)[c] = fired[c]
           /\ c \in S /\ hook[c] # 0 =>
                 /\ Fired(S)[c][hook[c]] = fired[c][hook[c]] + 1
                 /\ \A h \in Hooks : h # hook[c] => Fired(S)[c][h] = fired[c][h]
<1>1. Fired(S)[c] = IF c \in S /\ hook[c] # 0 THEN [fired[c] EXCEPT ![hook[c]] = fired[c][hook[c]] + 1]
                    ELSE fired[c]
  BY Zenon DEF Fired
<1>2. fired[c] \in [Hooks -> Nat] BY Zenon DEF TypeOK
<1>3. hook[c] # 0 => hook[c] \in Hooks BY HookTypes, Zenon
<1> QED BY <1>1, <1>2, <1>3, Zenon

\* Every step keeps HookInv and HookMatchesEnd.
LEMMA NextHooks ==
    ASSUME TypeOK, TypeOK', StreamsInv, HookInv, HookMatchesEnd, [Next]_vars, HandlerInv
    PROVE  HookInv' /\ HookMatchesEnd'
<1>0. \A c \in Calls : source[c] # "absent" => c \in Here BY Zenon DEF StreamsInv, StreamOf
<1> SUFFICES ASSUME NEW d \in Calls PROVE HookOf(d)' /\ EndOf(d)'
  BY Zenon DEF HookInv, HookMatchesEnd, EndOf
<1>00. HookOf(d) /\ StreamOf(d) /\ EndOf(d) BY Zenon DEF HookInv, StreamsInv, HookMatchesEnd, EndOf
<1>1. ASSUME UNCHANGED <<hook, installed, fired, ended, expired>>,
             d \in Here => d \in Here', d \in Here' => d \in Here \/ installed[d] = 0
      PROVE  HookOf(d)' /\ EndOf(d)'
  BY <1>00, <1>1, Zenon DEF HookOf, EndOf
<1>2. CASE UNCHANGED <<hook, installed, fired, ended, expired, streams>>
  BY <1>1, <1>2, Zenon DEF Here
<1>3. CASE Still BY <1>2, <1>3, Zenon DEF Still
<1>4. CASE tick_read \/ tick_write
  <2>1. /\ Here' = Here /\ UNCHANGED <<installed, ended>>
        /\ fired'[d] = Fired(Expiring)[d] /\ hook'[d] = IF d \in Expiring THEN 0 ELSE hook[d]
        /\ expired' = expired \cup Expiring
    BY <1>4, ExpireEffect DEF expire_deadlines, Taken, Here
  <2>2. CASE d \in Expiring
    <3>1. CASE hook[d] = 0
      <4>1. fired'[d] = fired[d] /\ hook'[d] = hook[d] /\ installed'[d] = installed[d]
            /\ ended'[d] = ended[d]
        BY <2>1, <2>2, <3>1, FiredEffect, Zenon
      <4>2. d \in expired => d \in expired' BY <2>1, Zenon
      <4>3. HookOf(d)' BY <1>00, <2>1, <4>1, Zenon DEF HookOf
      <4>4. EndOf(d)' BY <1>00, <4>1, <4>2, Zenon DEF EndOf
      <4> QED BY <4>3, <4>4, Zenon
    <3>2. CASE hook[d] # 0
      <4>1. d \in Here /\ hook[d] = installed[d] /\ fired[d][hook[d]] = 0 BY <1>00, <3>2, Zenon DEF HookOf
      <4>2. /\ fired'[d][hook[d]] = 1
            /\ \A h \in Hooks : h # hook[d] => fired'[d][h] = fired[d][h]
        <5>1. /\ fired'[d][hook[d]] = fired[d][hook[d]] + 1
              /\ \A h \in Hooks : h # hook[d] => fired'[d][h] = fired[d][h]
          <6>1. PICK f : f = Fired(Expiring)[d] BY Zenon
          <6>2. f[hook[d]] = fired[d][hook[d]] + 1 /\ \A h \in Hooks : h # hook[d] => f[h] = fired[d][h]
            BY <2>2, <3>2, <6>1, FiredEffect, Zenon
          <6>3. fired'[d] = f BY <2>1, <6>1, Zenon
          <6> QED BY <6>2, <6>3, Zenon
        <5> QED BY <4>1, <5>1
      <4>3. HookOf(d)' BY <2>1, <2>2, <4>1, <4>2, Zenon DEF HookOf
      <4>4. ASSUME NEW h \in Hooks PROVE fired'[d][h] <= IF h <= installed'[d] THEN 1 ELSE 0
        <5>1. CASE h = hook[d]
          <6>1. fired'[d][h] = 1 /\ h = installed'[d] BY <2>1, <4>1, <4>2, <5>1, Zenon
          <6>2. h \in Nat BY HookTypes, Zenon
          <6> QED BY <6>1, <6>2
        <5>2. CASE h # hook[d]
          <6>1. fired'[d][h] = fired[d][h] /\ installed'[d] = installed[d]
            BY <2>1, <4>2, <5>2, Zenon
          <6> QED BY <1>00, <6>1, Zenon DEF EndOf
        <5> QED BY <5>1, <5>2, Zenon
      <4>5. d \in expired' /\ (installed'[d] > 0 => fired'[d][installed'[d]] = 1)
        BY <2>1, <2>2, <4>1, <4>2, Zenon
      <4> QED BY <4>3, <4>4, <4>5, Zenon DEF EndOf
    <3> QED BY <3>1, <3>2, Zenon
  <2>3. CASE d \notin Expiring
    BY <1>00, <2>1, <2>3, FiredEffect, ZenonT(30) DEF HookOf, EndOf
  <2> QED BY <2>2, <2>3, Zenon
<1>5. ASSUME NEW req \in Requests, NEW dl \in {"none", "armed"}, on_begin_headers(req, dl)
      PROVE  HookOf(d)' /\ EndOf(d)'
  <2>0. PICK n : n = opened + 1 BY Zenon
  <2>1. n \in Calls /\ n > opened /\ Here' = Here \cup {n} BY <1>5, <2>0, OpensEffect, Zenon
  <2>2. installed[n] = 0 BY <2>1, Zenon DEF StreamsInv, StreamOf, NotYet
  <2>3. UNCHANGED <<hook, installed, fired, ended, expired>> BY <1>5, Zenon DEF on_begin_headers, pastVars
  <2> QED BY <1>1, <2>1, <2>2, <2>3, Zenon
<1>6. ASSUME NEW c \in Calls, NEW b \in BOOLEAN, on_frame_recv(c, b) PROVE HookOf(d)' /\ EndOf(d)'
  BY <1>2, <1>6, Zenon DEF on_frame_recv, callVars, pastVars
<1>7. ASSUME NEW c \in Calls, NEW b \in BOOLEAN, Closes(c, b) PROVE HookOf(d)' /\ EndOf(d)'
  <2>1. Distinct(streams) BY Zenon DEF StreamsInv
  <2>2. UNCHANGED <<installed, expired>> BY <1>7, Zenon DEF Closes
  <2>3. CASE d = c
    <3>1. /\ d \in Here /\ hook'[d] = 0 /\ d \notin Here'
          /\ ended'[d] = IF b THEN "error" ELSE "clean"
      BY <1>7, <2>1, <2>3, ClosesEffect, Zenon
    <3>2. fired' = IF b THEN Fired({d}) ELSE fired BY <1>7, <2>3, Zenon DEF Closes, Close, FiresOnClose
    <3>3. ended[d] = "open" BY <1>00, <3>1, Zenon DEF StreamOf, TypeOK
    <3>4. CASE ~b \/ hook[d] = 0
      <4>1. fired'[d] = fired[d] BY <3>2, <3>4, FiredEffect, Zenon
      <4> QED BY <1>00, <2>2, <3>1, <3>3, <3>4, <4>1, HookTypes, Zenon DEF HookOf, EndOf
    <3>5. CASE b /\ hook[d] # 0
      <4>1. hook[d] = installed[d] /\ fired[d][hook[d]] = 0 BY <1>00, <3>5, Zenon DEF HookOf
      <4>2. /\ fired'[d][hook[d]] = 1
            /\ \A h \in Hooks : h # hook[d] => fired'[d][h] = fired[d][h]
        BY <3>2, <3>5, <4>1, FiredEffect
      <4>3. ASSUME NEW h \in Hooks PROVE fired'[d][h] <= IF h <= installed'[d] THEN 1 ELSE 0
        BY <1>00, <2>2, <3>5, <4>1, <4>2, HookTypes DEF EndOf
      <4> QED BY <2>2, <3>1, <3>5, <4>1, <4>2, <4>3, Zenon DEF HookOf, EndOf
    <3> QED BY <3>4, <3>5, Zenon
  <2>4. CASE d # c
    <3>1. /\ d \in Here' <=> d \in Here
          /\ hook'[d] = hook[d] /\ ended'[d] = ended[d] /\ fired'[d] = fired[d]
      BY <1>7, <2>1, <2>4, ClosesEffect, ZenonT(30)
    <3> QED BY <1>00, <2>2, <3>1, Zenon DEF HookOf, EndOf
  <2> QED BY <2>3, <2>4, Zenon
<1>8. CASE drop
  <2>1. Here' = {} /\ hook'[d] = 0 /\ UNCHANGED <<installed, fired, ended, expired>>
    BY <1>8, DropEffect, Zenon
  <2> QED BY <1>00, <2>1, Zenon DEF HookOf, EndOf
<1>9. index >= 1 BY Zenon DEF HandlerInv
<1>10. ASSUME NEW ok \in Submits, finalize_error(ok) PROVE HookOf(d)' /\ EndOf(d)'
  <2>1. UNCHANGED <<hook, installed, fired, ended, expired, streams>>
    BY <1>9, <1>10, FinalizeEffect, Zenon
  <2> QED BY <1>2, <2>1, Zenon
<1>11. CASE handler_start BY <1>2, <1>9, <1>11, StartEffect, Zenon
<1>12. ASSUME NEW ok \in Submits, NEW rc \in {"Ok", "App"}, handler_return(rc, ok)
       PROVE  HookOf(d)' /\ EndOf(d)'
  <2>1. UNCHANGED <<hook, installed, fired, ended, expired, streams>>
    BY <1>12, Zenon DEF handler_return
  <2> QED BY <1>2, <2>1, Zenon
<1>13. ASSUME NEW c \in Calls, NEW status \in {"Ok", "App"}, finish_call(c, status)
       PROVE  HookOf(d)' /\ EndOf(d)'
  BY <1>2, <1>13, FinishEffect, Zenon
<1>14. ASSUME NEW c \in Calls, set_cancel_hook(c) PROVE HookOf(d)' /\ EndOf(d)'
  <2>1. c \in Here /\ UNCHANGED <<streams, fired, ended, expired>> BY <1>14, HookEffect, Zenon
  <2>2. Here' = Here BY <2>1, Zenon DEF Here
  <2>3. CASE d = c
    <3>1. PICK h \in Hooks : h = installed[d] + 1 /\ installed'[d] = h /\ hook'[d] = h
      BY <1>14, <2>3, HookEffect, Zenon
    <3>2. fired[d][h] = 0
      <4>1. fired[d][h] <= (IF h <= installed[d] THEN 1 ELSE 0) BY <1>00, Zenon DEF EndOf
      <4>2. fired[d][h] \in Nat /\ installed[d] \in Nat BY HookTypes, Zenon
      <4> QED BY <3>1, <4>1, <4>2
    <3>3. ended[d] = "open" BY <1>00, <2>1, <2>3, Zenon DEF StreamOf
    <3>4. ASSUME NEW g \in Hooks PROVE fired[d][g] <= IF g <= h THEN 1 ELSE 0
      <4>1. fired[d][g] <= (IF g <= installed[d] THEN 1 ELSE 0) BY <1>00, Zenon DEF EndOf
      <4>2. fired[d][g] \in Nat /\ installed[d] \in Nat /\ g \in Nat BY HookTypes, Zenon
      <4>3. h = installed[d] + 1 BY <3>1, Zenon
      <4> QED BY <4>1, <4>2, <4>3
    <3> QED BY <1>00, <2>1, <2>2, <2>3, <3>1, <3>2, <3>3, <3>4, Zenon DEF HookOf, EndOf
  <2>4. CASE d # c
    <3>1. installed'[d] = installed[d] /\ hook'[d] = hook[d] BY <1>14, <2>4, HookEffect, Zenon
    <3> QED BY <1>00, <2>1, <2>2, <3>1, Zenon DEF HookOf, EndOf
  <2> QED BY <2>3, <2>4, Zenon
<1> QED BY <1>0, <1>3, <1>4, <1>5, <1>6, <1>7, <1>8, <1>10, <1>11, <1>12, <1>13, <1>14, NextKinds, Zenon

-----------------------------------------------------------------------------

\* CallInv holds for a new connection.
LEMMA InitCalls == Init => CallInv
<1> SUFFICES ASSUME Init PROVE CallInv BY Zenon
<1>1. TypeOK BY InitType, Zenon
<1>2. Here = {} /\ Distinct(streams) BY DEF Init, Here, Distinct
<1>3. StreamsInv BY <1>2, Zenon DEF Init, StreamsInv, StreamOf, NotYet
<1>4. HandlerInv BY DEF Init, HandlerInv, HandlerOf
<1>5. StatusInv BY <1>2, Zenon DEF Init, StatusInv, StatusOf
<1>6. HookInv BY <1>2, Zenon DEF Init, HookInv, HookOf
<1>7. HookMatchesEnd BY DEF Init, HookMatchesEnd
<1> QED BY <1>1, <1>3, <1>4, <1>5, <1>6, <1>7, Zenon DEF CallInv

\* Every step of the connection keeps CallInv.
LEMMA NextCalls == CallInv /\ [Next]_vars => CallInv'
<1> SUFFICES ASSUME CallInv, [Next]_vars PROVE CallInv' BY Zenon
<1>1. TypeOK /\ StreamsInv /\ HandlerInv /\ StatusInv /\ HookInv /\ HookMatchesEnd BY Zenon DEF CallInv
<1>2. /\ Distinct(streams) /\ index >= 1 /\ (phase = "handler" => index <= Len(streams))
      /\ \A c \in Calls : source[c] # "absent" => c \in Here
  BY <1>1, Zenon DEF StreamsInv, StreamOf, HandlerInv
<1>3. TypeOK' BY <1>1, <1>2, NextType, Zenon
<1> QED BY <1>1, <1>3, NextStreams, NextHandler, NextStatus, NextHooks, Zenon DEF CallInv

\* CallInv is an invariant of a connection.
LEMMA CallsInvariant == Spec => []CallInv
BY InitCalls, NextCalls, PTL DEF Spec

\* dispatch runs the handler of a request once at most, however swap_remove reorders the
\* Vec it goes through and whether or not nghttp2 takes the response.
THEOREM RequestsHandledOnce == Spec => []HandledOnce
<1>1. CallInv => HandledOnce BY Zenon DEF CallInv, HandlerInv, HandlerOf, HandledOnce
<1> QED BY <1>1, CallsInvariant, PTL

\* The trailers carry the status that finish_call, the handler's return, finalize_error or
\* the deadline decided first, whatever the others say later.
THEOREM FirstStatusAlwaysWins == Spec => []FirstStatusWins
<1>1. CallInv => FirstStatusWins BY Zenon DEF CallInv, StatusInv, StatusOf, FirstStatusWins
<1> QED BY <1>1, CallsInvariant, PTL

\* A cancel hook fires at most once, the last one fires when its stream is reset, and none
\* fires for a call that was neither reset nor expired.
THEOREM HooksMatchEnds == Spec => []HookMatchesEnd
<1>1. CallInv => HookMatchesEnd BY Zenon DEF CallInv
<1> QED BY <1>1, CallsInvariant, PTL

=============================================================================
