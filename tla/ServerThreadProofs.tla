------------------------- MODULE ServerThreadProofs -------------------------
(***************************************************************************)
(* The rounds of the C++ ServerThread's loop, for any number of            *)
(* connections: they tick polled connections only (TicksPolledOnly).       *)
(***************************************************************************)
EXTENDS ServerThread, TLAPS

\* Connection c was in the poll set of this round.
WasPolled(c) == \E j \in DOMAIN polled : polled[j] = c

\* Between poll and the ticks the vector is the one polled; in the tick loop its first
\* cap connections have been polled, and each has a slot of revents.
RoundInv ==
    /\ accepted + backlog <= MaxConns
    /\ i >= 1
    /\ pc \in {"drain", "accept"} => conns = polled /\ Len(pfds) = Len(conns)
    /\ pc = "tick" => /\ cap <= Len(conns) /\ cap <= Len(pfds)
                      /\ \A k \in 1..cap : WasPolled(conns[k])

ThreadInv == TypeOK /\ RoundInv

\* What erase does to a vector.
LEMMA ErasedType ==
    ASSUME NEW S, NEW s \in Seq(S), NEW k \in 1..Len(s)
    PROVE  /\ Erased(s, k) \in Seq(S) /\ Len(Erased(s, k)) = Len(s) - 1
           /\ \A j \in 1..(Len(s) - 1) : \E m \in {j, j + 1} :
                 Erased(s, k)[j] = s[m] /\ m \in 1..Len(s) /\ (m = j + 1 => j >= k)
<1>1. Len(s) - 1 \in Nat OBVIOUS
<1>2. ASSUME NEW j \in 1..(Len(s) - 1)
      PROVE  (IF j < k THEN s[j] ELSE s[j + 1]) \in S
  OBVIOUS
<1>3. Erased(s, k) \in [1..(Len(s) - 1) -> S] BY <1>2 DEF Erased
<1>4. Erased(s, k) \in Seq(S) /\ Len(Erased(s, k)) = Len(s) - 1 BY <1>1, <1>3
<1>5. ASSUME NEW j \in 1..(Len(s) - 1)
      PROVE  \E m \in {j, j + 1} :
                 Erased(s, k)[j] = s[m] /\ m \in 1..Len(s) /\ (m = j + 1 => j >= k)
  <2>1. CASE j < k BY <2>1 DEF Erased
  <2>2. CASE ~(j < k) BY <2>2 DEF Erased
  <2> QED BY <2>1, <2>2
<1> QED BY <1>4, <1>5

\* The connections accepted are numbered on, up to MaxConns.
LEMMA AcceptedType ==
    ASSUME TypeOK, RoundInv
    PROVE  /\ Waiting \in 0..backlog
           /\ [k \in 1..Waiting |-> accepted + k] \in Seq(Conns)
           /\ accepted + Waiting \in 0..MaxConns /\ backlog - Waiting \in 0..MaxConns
<1>0. MaxConns \in Nat BY ThreadAssumption
<1>1. Waiting \in 0..backlog BY <1>0 DEF Waiting, TypeOK
<1>2. ASSUME NEW k \in 1..Waiting PROVE accepted + k \in Conns
  BY <1>0, <1>1 DEF TypeOK, RoundInv, Conns
<1>3. Waiting \in Nat BY <1>1 DEF TypeOK
<1>4. [k \in 1..Waiting |-> accepted + k] \in Seq(Conns) BY <1>2, <1>3
<1>5. accepted + Waiting \in 0..MaxConns /\ backlog - Waiting \in 0..MaxConns
  BY <1>0, <1>1 DEF TypeOK, RoundInv
<1> QED BY <1>1, <1>4, <1>5

\* The connection under the tick loop is in the vector.
LEMMA TickingHere ==
    ASSUME TypeOK, RoundInv, Ticking
    PROVE  i \in 1..cap /\ i \in 1..Len(conns) /\ conns[i] \in Conns /\ cap - 1 \in Nat
BY SMTT(30) DEF TypeOK, RoundInv, Ticking

LEMMA InitRound == Init => ThreadInv
<1> SUFFICES ASSUME Init PROVE TypeOK /\ RoundInv
  BY DEF ThreadInv
<1>0. MaxConns \in Nat /\ MaxInputs \in Nat /\ MaxMails \in Nat BY ThreadAssumption
<1>1. conns \in Seq(Conns) /\ polled \in Seq(Conns) /\ pfds \in Seq(Revents)
  BY DEF Init
<1>2. /\ input \in [Conns -> {"none", "data", "eof"}] /\ output \subseteq Conns
      /\ deadline \in [Conns -> {"none", "armed", "due"}] /\ arrivals \in [Conns -> 0..MaxInputs]
  BY <1>0 DEF Init
<1>3. /\ pc = "poll" /\ i \in Nat /\ cap \in Nat /\ backlog \in 0..MaxConns
      /\ accepted \in 0..MaxConns /\ mails \in 0..MaxMails
  BY <1>0 DEF Init
<1>4. woken \in BOOLEAN /\ knocked \in BOOLEAN /\ mail \in BOOLEAN /\ stop \in BOOLEAN
  BY Zenon DEF Init
<1>5. TypeOK BY <1>1, <1>2, <1>3, <1>4 DEF TypeOK
<1>6. RoundInv BY <1>0 DEF Init, RoundInv
<1> QED BY <1>5, <1>6

\* Every step keeps the types.
LEMMA NextType ==
    ASSUME TypeOK, RoundInv, [Next]_vars
    PROVE  TypeOK'
<1>0. MaxConns \in Nat /\ MaxInputs \in Nat /\ MaxMails \in Nat BY ThreadAssumption
<1>1. CASE UNCHANGED vars
  BY <1>1 DEF vars, loopVars, pollVars, connVars, mailVars, TypeOK
<1>2. CASE poll
  <2>1. [k \in DOMAIN conns |-> Reported(conns[k])] \in Seq(Revents)
    <3>1. ASSUME NEW c PROVE Reported(c) \in Revents BY DEF Reported, Revents
    <3>2. DOMAIN conns = 1..Len(conns) /\ Len(conns) \in Nat BY DEF TypeOK
    <3> QED BY <3>1, <3>2
  <2>2. woken' \in BOOLEAN /\ knocked' \in BOOLEAN BY <1>2 DEF poll, Woken, TypeOK
  <2>3. pfds' \in Seq(Revents) /\ polled' \in Seq(Conns) BY <1>2, <2>1 DEF poll, TypeOK
  <2>4. pc' \in {"teardown", "drain"} BY <1>2 DEF poll
  <2>5. UNCHANGED <<conns, i, cap, backlog, accepted, connVars, mailVars, stop>> BY <1>2 DEF poll
  <2> QED BY <2>2, <2>3, <2>4, <2>5 DEF connVars, mailVars, TypeOK
<1>3. CASE accept
  <2>1. /\ conns' \in Seq(Conns) /\ accepted' \in 0..MaxConns /\ backlog' \in 0..MaxConns
    BY <1>3, AcceptedType DEF accept, TypeOK
  <2>2. pc' = "tick" /\ i' \in Nat /\ cap' \in Nat BY <1>3 DEF accept, Existing, TypeOK
  <2>3. UNCHANGED <<pollVars, connVars, mailVars, stop>> BY <1>3 DEF accept
  <2> QED BY <2>1, <2>2, <2>3, SMTT(30) DEF pollVars, connVars, mailVars, TypeOK
<1>4. CASE tick_erase
  <2>1. i \in 1..Len(conns) /\ conns[i] \in Conns /\ cap - 1 \in Nat
    BY <1>4, TickingHere DEF tick_erase
  <2>2. conns' \in Seq(Conns) BY <1>4, <2>1, ErasedType DEF tick_erase, TypeOK
  <2>3. /\ cap' \in Nat /\ output' \subseteq Conns
        /\ input' \in [Conns -> {"none", "data", "eof"}]
        /\ deadline' \in [Conns -> {"none", "armed", "due"}]
    BY <1>4, <2>1 DEF tick_erase, Shrunk, TypeOK
  <2>4. UNCHANGED <<pc, pollVars, i, backlog, accepted, arrivals, mailVars, stop>>
    BY <1>4 DEF tick_erase
  <2> QED BY <2>2, <2>3, <2>4 DEF pollVars, mailVars, TypeOK
<1>5. CASE tick_skip
  BY <1>5, SMTT(30) DEF tick_skip, pollVars, connVars, mailVars, TypeOK
<1>6. CASE ticks_done \/ poll_error \/ listener_error
  BY <1>6, SMTT(30) DEF ticks_done, poll_error, listener_error, loopVars, pollVars, connVars, mailVars, TypeOK
<1>7. CASE teardown
  <2>1. conns' \in Seq(Conns) BY <1>7 DEF teardown
  <2> QED BY <1>7, <2>1, Zenon DEF teardown, pollVars, mailVars, TypeOK
<1>8. ASSUME NEW S \in SUBSET Conns, drain(S) PROVE TypeOK'
  <2>1. output' \subseteq Conns /\ mail' \in BOOLEAN BY <1>8 DEF drain, TypeOK
  <2>2. pc' = "accept" BY <1>8 DEF drain
  <2>3. UNCHANGED <<loopVars, backlog, accepted, input, deadline, arrivals, mails, stop>>
    BY <1>8 DEF drain
  <2> QED BY <2>1, <2>2, <2>3 DEF loopVars, pollVars, TypeOK
<1>9. ASSUME NEW dl \in {"none", "armed"}, NEW out \in BOOLEAN, tick(dl, out) PROVE TypeOK'
  <2>1. conns[i] \in Conns BY <1>9, TickingHere DEF tick
  <2>2. PICK c \in Conns : c = conns[i] BY <2>1
  <2>3. conn_tick(c, TickRead(c), dl, out) BY <1>9, <2>2 DEF tick
  <2>4. /\ input' \in [Conns -> {"none", "data", "eof"}] /\ output' \subseteq Conns
        /\ deadline' \in [Conns -> {"none", "armed", "due"}]
    BY <2>3 DEF conn_tick, TypeOK
  <2>5. i' \in Nat BY <1>9 DEF tick, TypeOK
  <2>6. UNCHANGED <<pc, conns, pollVars, cap, backlog, accepted, arrivals, mailVars, stop>>
    BY <1>9 DEF tick
  <2> QED BY <2>4, <2>5, <2>6 DEF pollVars, mailVars, TypeOK
<1>10. CASE peer_connects
  <2>1. backlog' \in 0..MaxConns BY <1>0, <1>10 DEF peer_connects, TypeOK
  <2> QED BY <1>10, <2>1 DEF peer_connects, loopVars, pollVars, connVars, mailVars, TypeOK
<1>11. CASE producer_pokes
  <2>1. mails' \in 0..MaxMails /\ mail' \in BOOLEAN BY <1>0, <1>11 DEF producer_pokes, TypeOK
  <2> QED BY <1>11, <2>1 DEF producer_pokes, loopVars, pollVars, connVars, TypeOK
<1>12. CASE Stop
  BY <1>12 DEF Stop, loopVars, pollVars, connVars, mailVars, TypeOK
<1>13. ASSUME NEW c \in Conns, clock(c) PROVE TypeOK'
  BY <1>13 DEF clock, loopVars, pollVars, mailVars, TypeOK
<1>14. ASSUME NEW c \in Conns, NEW what \in {"data", "eof"}, peer_sends(c, what) PROVE TypeOK'
  <2>1. /\ input' \in [Conns -> {"none", "data", "eof"}]
        /\ arrivals' \in [Conns -> 0..MaxInputs]
    BY <1>0, <1>14 DEF peer_sends, TypeOK
  <2> QED BY <1>14, <2>1 DEF peer_sends, loopVars, pollVars, mailVars, TypeOK
<1> QED BY <1>1, <1>2, <1>3, <1>4, <1>5, <1>6, <1>7, <1>8, <1>9, <1>10, <1>11, <1>12, <1>13, <1>14
        DEF Next, Run, World

\* Every step keeps the round's invariant.
LEMMA NextRound ==
    ASSUME TypeOK, RoundInv, [Next]_vars
    PROVE  RoundInv'
<1>1. ASSUME UNCHANGED <<conns, pfds, polled, i, cap>>, accepted' + backlog' <= MaxConns,
             pc' = pc \/ pc' \in {"teardown", "poll"} \/ (pc = "drain" /\ pc' = "accept")
      PROVE  RoundInv'
  BY <1>1 DEF RoundInv, WasPolled, TypeOK
<1>2. accepted + backlog <= MaxConns BY DEF RoundInv
<1>3. CASE UNCHANGED vars BY <1>1, <1>2, <1>3 DEF vars, loopVars, pollVars
<1>4. CASE poll
  <2>1. pc' \in {"teardown", "drain"} /\ polled' = conns /\ UNCHANGED <<conns, i, accepted, backlog>>
    BY <1>4 DEF poll
  <2>2. Len(pfds') = Len(conns)
    <3>1. DOMAIN conns = 1..Len(conns) /\ Len(conns) \in Nat BY DEF TypeOK
    <3>2. pfds' = [k \in 1..Len(conns) |-> Reported(conns[k])] BY <1>4, <3>1 DEF poll
    <3> QED BY <3>1, <3>2
  <2> QED BY <2>1, <2>2 DEF RoundInv
<1>5. CASE accept
  <2>1. /\ pc = "accept" /\ pc' = "tick" /\ i' = 1 /\ cap' = Len(pfds)
        /\ conns' = conns \o [k \in 1..Waiting |-> accepted + k]
        /\ UNCHANGED <<pfds, polled>>
        /\ accepted' = accepted + Waiting /\ backlog' = backlog - Waiting
    BY <1>5 DEF accept, Existing, pollVars
  <2>2. conns = polled /\ Len(pfds) = Len(conns) BY <2>1 DEF RoundInv
  <2>3. accepted' + backlog' <= MaxConns
    <3>1. Waiting \in 0..backlog BY AcceptedType
    <3>2. accepted \in Nat /\ backlog \in Nat BY ThreadAssumption DEF TypeOK
    <3> QED BY <1>2, <2>1, <3>1, <3>2
  <2>4. /\ Len(conns) \in Nat /\ Len(conns') \in Nat /\ Len(conns') >= Len(conns)
        /\ \A k \in 1..Len(conns) : conns'[k] = conns[k]
    <3>1. PICK w \in Seq(Conns) : w = [k \in 1..Waiting |-> accepted + k] BY AcceptedType, Zenon
    <3>2. conns \in Seq(Conns) BY DEF TypeOK
    <3>3. conns' = conns \o w BY <2>1, <3>1
    <3> QED BY <3>2, <3>3
  <2>5. ASSUME NEW k \in 1..cap' PROVE \E j \in DOMAIN polled' : polled'[j] = conns'[k]
    <3>1. k \in 1..Len(conns) BY <2>1, <2>2
    <3>2. conns'[k] = polled'[k] BY <2>1, <2>2, <2>4, <3>1
    <3>3. k \in DOMAIN polled' BY <2>1, <2>2, <3>1 DEF TypeOK
    <3> QED BY <3>2, <3>3, Zenon
  <2>6. cap' <= Len(conns') /\ cap' <= Len(pfds')
    <3>1. cap' = Len(conns) /\ pfds' = pfds BY <2>1, <2>2
    <3> QED BY <2>2, <2>4, <3>1
  <2>7. i' >= 1 BY <2>1
  <2>8. \A k \in 1..cap' : \E j \in DOMAIN polled' : polled'[j] = conns'[k] BY <2>5
  <2> QED BY <2>1, <2>3, <2>6, <2>7, <2>8, Zenon DEF RoundInv, WasPolled
<1>6. CASE tick_erase
  <2>1. /\ pc = "tick" /\ pc' = "tick" /\ UNCHANGED <<i, pfds, polled, accepted, backlog>>
        /\ conns' = Erased(conns, i) /\ cap' = cap - 1
    BY <1>6 DEF tick_erase, Ticking, Shrunk, pollVars
  <2>2. i \in 1..cap /\ i \in 1..Len(conns) BY <1>6, TickingHere DEF tick_erase
  <2>3. cap \in Nat /\ cap <= Len(conns) /\ cap <= Len(pfds) /\ Len(conns) \in Nat /\ Len(pfds) \in Nat
    BY <2>1 DEF RoundInv, TypeOK
  <2>4. /\ Len(conns') = Len(conns) - 1
        /\ \A j \in 1..(Len(conns) - 1) : \E m \in {j, j + 1} :
              conns'[j] = conns[m] /\ m \in 1..Len(conns) /\ (m = j + 1 => j >= i)
    BY <2>1, <2>2, ErasedType, ZenonT(30) DEF TypeOK
  <2>5. ASSUME NEW k \in 1..cap' PROVE \E j \in DOMAIN polled' : polled'[j] = conns'[k]
    <3>1. k \in 1..(Len(conns) - 1) /\ k + 1 \in 1..cap BY <2>1, <2>3
    <3>2. PICK m \in {k, k + 1} : conns'[k] = conns[m] BY <2>4, <3>1
    <3>3. m \in 1..cap BY <3>1, <2>3
    <3>4. WasPolled(conns[m]) BY <2>1, <3>3 DEF RoundInv
    <3> QED BY <2>1, <3>2, <3>4 DEF WasPolled
  <2>6. cap' <= Len(conns') /\ cap' <= Len(pfds') BY <2>1, <2>3, <2>4
  <2>7. i' >= 1 /\ accepted' + backlog' <= MaxConns BY <1>2, <2>1, <2>2
  <2> QED BY <2>1, <2>5, <2>6, <2>7 DEF RoundInv, WasPolled
<1>7. ASSUME NEW dl, NEW out, tick(dl, out) PROVE RoundInv'
  <2>1. UNCHANGED <<pc, conns, pfds, polled, cap, accepted, backlog>> /\ i' = i + 1 /\ pc = "tick"
    BY <1>7 DEF tick, pollVars, Ticking
  <2> QED BY <2>1 DEF RoundInv, WasPolled, TypeOK
<1>8. CASE tick_skip
  <2>1. UNCHANGED <<pc, conns, pfds, polled, cap, accepted, backlog>> /\ i' = i + 1 /\ pc = "tick"
    BY <1>8 DEF tick_skip, pollVars, Ticking
  <2> QED BY <2>1 DEF RoundInv, WasPolled, TypeOK
<1>9. CASE ticks_done \/ poll_error \/ listener_error
  BY <1>1, <1>2, <1>9 DEF ticks_done, poll_error, listener_error, loopVars, pollVars
<1>10. CASE teardown BY <1>2, <1>10 DEF teardown, pollVars, RoundInv
<1>11. ASSUME NEW S, drain(S) PROVE RoundInv' BY <1>1, <1>2, <1>11 DEF drain, loopVars, pollVars
<1>12. CASE peer_connects
  <2>1. accepted' + backlog' <= MaxConns /\ UNCHANGED <<pc, conns, pfds, polled, i, cap>>
    BY <1>12, ThreadAssumption DEF peer_connects, loopVars, pollVars, TypeOK
  <2> QED BY <1>1, <2>1
<1>13. CASE producer_pokes \/ Stop
  BY <1>1, <1>2, <1>13 DEF producer_pokes, Stop, loopVars, pollVars
<1>14. ASSUME NEW c, clock(c) PROVE RoundInv' BY <1>1, <1>2, <1>14 DEF clock, loopVars, pollVars
<1>15. ASSUME NEW c, NEW what, peer_sends(c, what) PROVE RoundInv'
  BY <1>1, <1>2, <1>15 DEF peer_sends, loopVars, pollVars
<1> QED BY <1>3, <1>4, <1>5, <1>6, <1>7, <1>8, <1>9, <1>10, <1>11, <1>12, <1>13, <1>14, <1>15
        DEF Next, Run, World

\* The round's invariant holds in every state.
LEMMA RoundInvariant == Spec => []ThreadInv
<1>1. ThreadInv /\ [Next]_vars => ThreadInv' BY NextType, NextRound DEF ThreadInv
<1> QED BY <1>1, InitRound, PTL DEF Spec

\* The loop of ServerThread::Run ticks connections of its own poll set only, with an
\* index inside the vector, whatever is erased or accepted meanwhile.
THEOREM RoundsTickPolledOnly == Spec => []TicksPolledOnly
<1>1. ThreadInv => TicksPolledOnly
  <2> SUFFICES ASSUME ThreadInv, Ticking
               PROVE  i <= Len(conns) /\ \E k \in DOMAIN polled : polled[k] = conns[i]
    BY DEF TicksPolledOnly
  <2>1. i \in 1..cap /\ i \in 1..Len(conns) BY TickingHere DEF ThreadInv
  <2>2. WasPolled(conns[i]) BY <2>1 DEF ThreadInv, RoundInv, Ticking
  <2> QED BY <2>1, <2>2, SMTT(30) DEF WasPolled, ThreadInv, TypeOK
<1> QED BY <1>1, RoundInvariant, PTL

=============================================================================
