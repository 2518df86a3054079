------------------------------- MODULE Stubs -------------------------------
(***************************************************************************)
(* The typed servers: the code that protoc-gen-grpcudspp generates for a   *)
(* service (protoc-gen-grpcudspp/src/main.rs), and the prost adapters that *)
(* code generated by grpcuds-build registers (grpcuds/src/server.rs).  How *)
(* a trampoline of the C mode, of the C++ mode and of Rust turns what the  *)
(* application's handler does into operations on the call and a return     *)
(* code, and what the typed helpers do to a call later.  Each is an        *)
(* operator that gives the operations, in order; FfiMailbox performs those *)
(* of C and C++, ServeLoop has the writers of Rust.                        *)
(***************************************************************************)
EXTENDS Naturals, Sequences

CONSTANT Styles    \* the methods there are: c, cpp or rust, unary or streaming

ASSUME StylesAssumption ==
    Styles \subseteq {"c_unary", "c_streaming", "cpp_unary", "cpp_streaming",
                      "rust_unary", "rust_streaming"}

\* The codes the generated code gives itself, one of the application's, and one that
\* is no gRPC status: what C handlers return to keep a call open.
Codes == {"OK", "INVALID_ARGUMENT", "INTERNAL", "NOT_FOUND", "DEFERRED"}

\* grpc_status_from_i32, status_from_c: a code outside 0..16 is UNKNOWN.
status_from_c(code) == IF code = "DEFERRED" THEN "UNKNOWN" ELSE code

Write        == [finish |-> FALSE, status |-> "OK"]
Finish(code) == [finish |-> TRUE, status |-> status_from_c(code)]

Unary(style)  == style \in {"c_unary", "cpp_unary", "rust_unary"}
IsRust(style) == style \in {"rust_unary", "rust_streaming"}

\* A request and what becomes of it: whether it decodes, what a streaming handler does
\* before it returns, what the handler returns (DEFERRED in C++: the overload with a
\* responder), whether the response encodes and memory for it is found.
Handling ==
    {h \in [style : Styles, decodes : BOOLEAN, inline : {<< >>, <<Write>>, <<Write, Finish("OK")>>},
            returns : {"OK", "NOT_FOUND", "DEFERRED"}, encodes : BOOLEAN, memory : BOOLEAN] :
        /\ Unary(h.style) => h.inline = << >>
        /\ (h.returns = "DEFERRED") => h.style \in {"c_unary", "cpp_unary"}}

\* Mutant: the message is written after the call is finished.
Respond_FinishFirst(encodes, memory) == <<Finish("OK"), Write>>

\* ServerWriter<T>::Write, and {prefix}_{method}_send of the C mode.
send(encodes) == IF encodes THEN <<Write>> ELSE << >>

\* {prefix}_{method}_respond of the C mode.
respond(encodes, memory) == IF encodes /\ memory THEN <<Write, Finish("OK")>> ELSE << >>

\* UnaryResponder<T>::Respond of the C++ mode.
Respond(encodes, memory) ==
    IF ~encodes THEN <<Finish("INTERNAL")>>
    ELSE IF memory THEN <<Write, Finish("OK")>> ELSE << >>

\* {prefix}_{method}_tr
c_trampoline(h) ==
    CASE ~h.decodes -> [ops |-> << >>, rc |-> "INVALID_ARGUMENT"]
      [] h.decodes /\ ~Unary(h.style) -> [ops |-> h.inline, rc |-> h.returns]
      [] h.decodes /\ Unary(h.style) /\ h.returns = "DEFERRED" -> [ops |-> << >>, rc |-> "OK"]
      [] h.decodes /\ Unary(h.style) /\ h.returns = "NOT_FOUND" ->
             [ops |-> << >>, rc |-> "NOT_FOUND"]
      [] h.decodes /\ Unary(h.style) /\ h.returns = "OK" ->
             [ops |-> respond(h.encodes, h.memory),
              rc |-> IF h.encodes /\ h.memory THEN "OK" ELSE "INTERNAL"]

\* The overload with a responder that calls the synchronous handler, or the
\* application's own, which keeps the responder.
deferred_overload(h) ==
    CASE h.returns = "DEFERRED"  -> << >>
      [] h.returns = "NOT_FOUND" -> <<Finish("NOT_FOUND")>>
      [] h.returns = "OK"        -> Respond(h.encodes, h.memory)

\* {Service}::{Method}Trampoline
cpp_trampoline(h) ==
    CASE ~h.decodes -> [ops |-> <<Finish("INVALID_ARGUMENT")>>, rc |-> "INVALID_ARGUMENT"]
      [] h.decodes /\ Unary(h.style) -> [ops |-> deferred_overload(h), rc |-> "OK"]
      [] h.decodes /\ ~Unary(h.style) ->
             [ops |-> IF h.returns = "OK" THEN h.inline ELSE Append(h.inline, Finish(h.returns)),
              rc |-> h.returns]

\* add_unary_msg over the trampoline's Handler::Unary.
add_unary_msg(h) ==
    IF ~h.decodes THEN <<Finish("INTERNAL")>>
    ELSE IF h.returns = "OK" THEN <<Write, Finish("OK")>> ELSE <<Finish(h.returns)>>

\* add_server_streaming_msg over Handler::ServerStreaming, which finishes a call that
\* the handler has not finished.
add_server_streaming_msg(h) ==
    IF ~h.decodes THEN <<Finish("INTERNAL")>>
    ELSE h.inline \o IF h.returns = "OK" \/ Len(h.inline) = 2 THEN << >> ELSE <<Finish(h.returns)>>

\* The registration that grpcuds-build generates picks the adapter of the method's kind.
add_service(h) ==
    [ops |-> IF Unary(h.style) THEN add_unary_msg(h) ELSE add_server_streaming_msg(h),
     rc |-> "OK"]

trampoline(h) ==
    CASE h.style \in {"c_unary", "c_streaming"}     -> c_trampoline(h)
      [] h.style \in {"cpp_unary", "cpp_streaming"} -> cpp_trampoline(h)
      [] IsRust(h.style)                            -> add_service(h)

\* Mutant: the code of the handler is not looked at.
dispatch_ops_NoCode(h) == trampoline(h).ops

\* Conn::dispatch_complete: a code other than OK finishes the call, if nothing else has.
dispatch_ops(h) ==
    trampoline(h).ops
    \o IF trampoline(h).rc = "OK" THEN << >> ELSE <<Finish(trampoline(h).rc)>>

\* Mutant: the message is written after the call is finished.
completion_ops_FinishFirst(style, kind) ==
    IF kind = "Respond" THEN Respond_FinishFirst(TRUE, TRUE) ELSE <<Finish("NOT_FOUND")>>

\* What is done to a call later: Respond and Fail of a responder, {method}_respond and
\* grpcuds_call_finish; Write and Finish of a writer, {method}_send and {method}_finish.
completion_ops(style, kind) ==
    CASE kind = "Respond" -> IF style = "c_unary" THEN respond(TRUE, TRUE) ELSE Respond(TRUE, TRUE)
      [] kind = "Garbled" -> IF style = "c_unary" THEN respond(FALSE, TRUE) ELSE Respond(FALSE, TRUE)
      [] kind = "Fail"    -> <<Finish("NOT_FOUND")>>
      [] kind = "Write"   -> send(TRUE)
      [] kind = "Finish"  -> <<Finish("OK")>>

Kinds(style) == IF Unary(style) THEN {"Respond", "Garbled", "Fail"} ELSE {"Write", "Finish"}

\* The handler is done with the call when it returns.
IsDone(h) ==
    \/ ~h.decodes \/ h.returns = "NOT_FOUND"
    \/ Unary(h.style) /\ h.returns = "OK"

\* What a handler that is done with its call means to answer; nothing when Respond of
\* the C++ mode finds no memory, which only its result tells.
Meant(h) ==
    IF ~h.decodes THEN {IF IsRust(h.style) THEN "INTERNAL" ELSE "INVALID_ARGUMENT"}
    ELSE IF h.inline = <<Write, Finish("OK")>> THEN {"OK"}
    ELSE IF h.returns = "NOT_FOUND" THEN {"NOT_FOUND"}
    ELSE IF h.style = "cpp_unary" /\ h.encodes /\ ~h.memory THEN {}
    ELSE IF IsRust(h.style) \/ (h.encodes /\ h.memory) THEN {"OK"} ELSE {"INTERNAL"}
=============================================================================
