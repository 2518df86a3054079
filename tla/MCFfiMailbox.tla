---------------------------- MODULE MCFfiMailbox ----------------------------
(* FfiMailbox for TLC.                                                      *)
EXTENDS FfiMailbox

\* Handlers that leave their call open: a unary one, and one that has begun a stream.
MCHandlings ==
    {h \in Handling :
        /\ h.decodes /\ h.encodes /\ h.memory
        /\ \/ h.style = "cpp_unary" /\ h.returns = "DEFERRED"
           \/ h.style = "c_streaming" /\ h.returns = "OK" /\ h.inline = <<Write>>}

=============================================================================
