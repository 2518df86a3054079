------------------------- MODULE ConnectWaitProofs -------------------------
(***************************************************************************)
(* connect_wait keeps to its deadline, for every timeout, every length of  *)
(* the attempts and every jitter.                                          *)
(***************************************************************************)
EXTENDS ConnectWait, TLAPS

\* What holds between any two steps of the loop: the time is within the deadline
\* except after the attempt that fails, and a nap is only taken before the deadline,
\* so with a timeout of 0 the back-off is still the first one.
WaitInv ==
    /\ wait \in [at : {"attempt", "nap", "connected", "failed"}, now : Nat, deadline : Nat,
                 backoff : Nat]
    /\ wait.at = "attempt" => wait.now <= wait.deadline
    /\ wait.at = "nap" => wait.now < wait.deadline
    /\ wait.at = "failed" =>
           /\ wait.deadline <= wait.now
           /\ wait.now <= wait.deadline + CONNECT_ATTEMPT_TIMEOUT_MS
    /\ (wait.at # "connected" /\ wait.deadline = 0) =>
           wait.backoff = CONNECT_BACKOFF_INITIAL_MS

\* apply_jitter and next_backoff_ms, in integer arithmetic, give natural numbers.
LEMMA BackoffIsNat ==
    ASSUME NEW ms \in Nat, NEW r \in 0..40
    PROVE  apply_jitter(ms, r) \in Nat /\ next_backoff_ms(ms) \in Nat
<1>1. ms * (80 + r) \in Nat
  OBVIOUS
<1>2. \A n \in Nat : n \div 100 \in Nat /\ n \div 5 \in Nat
  OBVIOUS
<1>3. apply_jitter(ms, r) \in Nat
  BY <1>1, <1>2 DEF apply_jitter
<1>4. ms * 8 \in Nat
  OBVIOUS
<1>5. next_backoff_ms(ms) \in Nat
  BY <1>2, <1>4 DEF next_backoff_ms, lesser, CONNECT_BACKOFF_MAX_MS
<1>6. QED
  BY <1>3, <1>5

\* WaitInv holds when connect_wait is called.
LEMMA WaitInvInit == WaitInit => WaitInv
  BY ConnectAssumption DEF WaitInit, WaitInv, CONNECT_BACKOFF_INITIAL_MS

\* Every step of connect_wait keeps WaitInv.
LEMMA WaitInvStep == WaitInv /\ [connect_wait]_wait => WaitInv'
<1> SUFFICES ASSUME WaitInv, [connect_wait]_wait PROVE WaitInv'
  OBVIOUS
<1>1. CASE attempt_succeeds
  BY <1>1 DEF WaitInv, attempt_succeeds
<1>2. CASE \E d \in Durations : attempt_fails(d)
  <2>1. PICK d \in Durations : attempt_fails(d)
    BY <1>2
  <2>2. d \in 0..250
    BY ConnectAssumption DEF CONNECT_ATTEMPT_TIMEOUT_MS
  <2>3. /\ wait.at = "attempt" /\ wait.now <= wait.deadline
        /\ {wait.now, wait.deadline, wait.backoff} \subseteq Nat
    BY <2>1 DEF WaitInv, attempt_fails
  <2>4. /\ wait' \in [at : {"attempt", "nap", "connected", "failed"}, now : Nat,
                     deadline : Nat, backoff : Nat]
        /\ wait'.now = wait.now + d /\ wait'.deadline = wait.deadline
        /\ wait'.backoff = wait.backoff
        /\ wait'.at = IF wait.now + d >= wait.deadline THEN "failed" ELSE "nap"
    BY <2>1, <2>2, <2>3 DEF WaitInv, attempt_fails
  <2>5. wait.deadline = 0 => wait.backoff = CONNECT_BACKOFF_INITIAL_MS
    BY <2>3 DEF WaitInv
  <2>6. QED
    BY <2>2, <2>3, <2>4, <2>5 DEF WaitInv, CONNECT_ATTEMPT_TIMEOUT_MS
<1>3. CASE \E r \in Jitters, interrupted \in BOOLEAN : nap(r, interrupted)
  <2>1. PICK r \in Jitters, interrupted \in BOOLEAN : nap(r, interrupted)
    BY <1>3
  <2>2. apply_jitter(wait.backoff, r) \in Nat /\ next_backoff_ms(wait.backoff) \in Nat
    BY BackoffIsNat, ConnectAssumption, Zenon DEF WaitInv
  <2>3. wait.now < wait.deadline
    BY <2>1 DEF WaitInv, nap
  <2>4. nap_length(r) \in Nat /\ wait.now + nap_length(r) <= wait.deadline
    BY <2>2, <2>3 DEF nap_length, lesser, WaitInv
  <2>5. QED
    BY <2>1, <2>2, <2>3, <2>4 DEF WaitInv, nap
<1>4. CASE UNCHANGED wait
  BY <1>4 DEF WaitInv
<1>5. QED
  BY <1>1, <1>2, <1>3, <1>4 DEF connect_wait

\* For every timeout, connect_wait of the clients gives up neither before its deadline
\* nor more than one attempt after it, and begins every attempt by the deadline.
THEOREM ConnectWaitInTime == WaitSpec => []ConnectsInTime
<1>1. WaitInv => ConnectsInTime
  BY DEF WaitInv, ConnectsInTime
<1>2. QED
  BY <1>1, WaitInvInit, WaitInvStep, PTL DEF WaitSpec

=============================================================================
