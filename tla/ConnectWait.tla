---------------------------- MODULE ConnectWait ----------------------------
(***************************************************************************)
(* connect_wait of the clients (grpcuds-core/src/client.rs, and its copy   *)
(* in grpcuds/src/client.rs): attempts to connect, each of bounded length, *)
(* with growing, jittered naps between them until a deadline.  Times are   *)
(* milliseconds since the call.                                            *)
(***************************************************************************)
EXTENDS Integers

CONSTANTS
    Timeouts,    \* values of timeout_ms
    Durations,   \* how long an attempt that fails may take
    Jitters      \* values of xorshift64 modulo 41

CONNECT_BACKOFF_INITIAL_MS == 50
CONNECT_BACKOFF_MAX_MS     == 1000
CONNECT_ATTEMPT_TIMEOUT_MS == 250

ASSUME ConnectAssumption ==
    /\ Timeouts \subseteq Nat
    /\ Durations \subseteq 0..CONNECT_ATTEMPT_TIMEOUT_MS
    /\ Jitters \subseteq 0..40

VARIABLE wait   \* where connect_wait is: attempt, nap, connected, failed; the
                \* time, its deadline and its back-off

lesser(a, b) == IF a <= b THEN a ELSE b

next_backoff_ms(cur) == lesser((cur * 8) \div 5, CONNECT_BACKOFF_MAX_MS)

apply_jitter(ms, r) == (ms * (80 + r)) \div 100

WaitInit == \E t \in Timeouts :
    wait = [at |-> "attempt", now |-> 0, deadline |-> t, backoff |-> CONNECT_BACKOFF_INITIAL_MS]

\* The server accepts.  Nothing of the loop outlives it.
attempt_succeeds ==
    /\ wait.at = "attempt"
    /\ wait' = [at |-> "connected", now |-> 0, deadline |-> 0, backoff |-> 0]

\* connect_uds fails: no socket file, no listener, a full backlog (EAGAIN), or a poll
\* that runs into CONNECT_ATTEMPT_TIMEOUT_MS.
attempt_fails(d) ==
    /\ wait.at = "attempt"
    /\ wait' = [at |-> IF wait.now + d >= wait.deadline THEN "failed" ELSE "nap",
                now |-> wait.now + d, deadline |-> wait.deadline, backoff |-> wait.backoff]

\* Mutant: the nap is not cut at the deadline.
nap_length_Whole(r) == apply_jitter(wait.backoff, r)

nap_length(r) == lesser(apply_jitter(wait.backoff, r), wait.deadline - wait.now)

\* sleep_ms; a signal ends it at once.
nap(r, interrupted) ==
    /\ wait.at = "nap"
    /\ wait' = [at |-> "attempt",
                now |-> IF interrupted THEN wait.now ELSE wait.now + nap_length(r),
                deadline |-> wait.deadline, backoff |-> next_backoff_ms(wait.backoff)]

connect_wait ==
    \/ attempt_succeeds
    \/ \E d \in Durations : attempt_fails(d)
    \/ \E r \in Jitters, interrupted \in BOOLEAN : nap(r, interrupted)

\* connect_wait by itself.
WaitSpec == WaitInit /\ [][connect_wait]_wait

\* connect_wait gives up neither before its deadline nor more than one attempt after
\* it: every attempt, the last one included, begins by the deadline, so a server that
\* listens by then and answers is found; with a timeout of 0 there is one attempt.
ConnectsInTime ==
    /\ wait.at = "attempt" => wait.now <= wait.deadline
    /\ wait.at = "failed" =>
           /\ wait.deadline <= wait.now
           /\ wait.now <= wait.deadline + CONNECT_ATTEMPT_TIMEOUT_MS
           /\ wait.deadline = 0 => wait.backoff = CONNECT_BACKOFF_INITIAL_MS

=============================================================================
