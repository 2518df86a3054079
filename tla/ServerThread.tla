---------------------------- MODULE ServerThread ----------------------------
(***************************************************************************)
(* The I/O loop of the C++ ServerThread (cpp/include/grpcudspp/            *)
(* server_thread.h): one poll over the listener, the connections, the      *)
(* mailbox's wakeup fd and the stop fd; then the mailbox, the listener and *)
(* every connection polled, in index order.                                *)
(*                                                                         *)
(* What a tick does inside a connection is Conn's subject, what drain does *)
(* is FfiMailbox's.  Here a connection has input or not, output or not, a  *)
(* deadline or not.  poll is level-triggered: what a round leaves unread   *)
(* is reported again.                                                      *)
(***************************************************************************)
EXTENDS Integers, Sequences

CONSTANTS
    MaxConns,   \* bound: connections accepted
    MaxInputs,  \* bound: arrivals on one connection
    MaxMails    \* bound: pokes of the mailbox

ASSUME ThreadAssumption == {MaxConns, MaxInputs, MaxMails} \subseteq Nat

Conns == 1..MaxConns

VARIABLES
    pc,         \* poll, drain, accept, tick, teardown, stopped
    conns,      \* the vector of connections
    pfds,       \* revents of the connections in the poll set, in its order
    polled,     \* history: the connections those revents are for
    woken,      \* poll reported the wakeup fd
    knocked,    \* poll reported the listener
    i, cap,     \* the tick loop's variables (i counts from 1)
    backlog,    \* connections the listener holds
    accepted,   \* connections accepted so far
    input,      \* per connection: none, data, eof
    output,     \* connections with output pending (wants_write)
    deadline,   \* per connection: none, armed, due
    arrivals,   \* inputs that arrived, per connection
    mail,       \* the wakeup fd is readable
    mails,      \* pokes so far
    stop        \* the stop fd is readable

connVars == <<input, output, deadline, arrivals>>
pollVars == <<pfds, polled, woken, knocked>>
loopVars == <<conns, pollVars, i, cap>>
mailVars == <<mail, mails>>
vars == <<pc, loopVars, backlog, accepted, connVars, mailVars, stop>>

Revents == SUBSET {"IN", "OUT"}

TypeOK ==
    /\ pc \in {"poll", "drain", "accept", "tick", "teardown", "stopped"}
    /\ conns \in Seq(Conns) /\ polled \in Seq(Conns)
    /\ pfds \in Seq(Revents)
    /\ woken \in BOOLEAN /\ knocked \in BOOLEAN
    /\ i \in Nat /\ cap \in Nat
    /\ backlog \in 0..MaxConns /\ accepted \in 0..MaxConns
    /\ input \in [Conns -> {"none", "data", "eof"}]
    /\ output \subseteq Conns
    /\ deadline \in [Conns -> {"none", "armed", "due"}]
    /\ arrivals \in [Conns -> 0..MaxInputs]
    /\ mail \in BOOLEAN /\ mails \in 0..MaxMails /\ stop \in BOOLEAN

Init ==
    /\ pc = "poll"
    /\ conns = << >> /\ polled = << >> /\ pfds = << >>
    /\ woken = FALSE /\ knocked = FALSE
    /\ i = 1 /\ cap = 0
    /\ backlog = 0 /\ accepted = 0
    /\ input = [c \in Conns |-> "none"]
    /\ output = {}
    /\ deadline = [c \in Conns |-> "none"]
    /\ arrivals = [c \in Conns |-> 0]
    /\ mail = FALSE /\ mails = 0 /\ stop = FALSE

Held == {conns[k] : k \in DOMAIN conns}

-----------------------------------------------------------------------------
(* The world: peers, producers, the clock, Stop.                           *)

peer_connects ==
    /\ accepted + backlog < MaxConns
    /\ backlog' = backlog + 1
    /\ UNCHANGED <<pc, loopVars, accepted, connVars, mailVars, stop>>

\* Bytes, or the end, of a connection the server holds.
peer_sends(c, what) ==
    /\ c \in Held /\ input[c] # "eof" /\ arrivals[c] < MaxInputs
    /\ input' = [input EXCEPT ![c] = what]
    /\ arrivals' = [arrivals EXCEPT ![c] = @ + 1]
    /\ UNCHANGED <<pc, loopVars, backlog, accepted, output, deadline, mailVars, stop>>

producer_pokes ==
    /\ mails < MaxMails
    /\ mail' = TRUE /\ mails' = mails + 1
    /\ UNCHANGED <<pc, loopVars, backlog, accepted, connVars, stop>>

clock(c) ==
    /\ c \in Held /\ deadline[c] = "armed"
    /\ deadline' = [deadline EXCEPT ![c] = "due"]
    /\ UNCHANGED <<pc, loopVars, backlog, accepted, input, output, arrivals, mailVars, stop>>

Stop ==
    /\ ~stop /\ stop' = TRUE
    /\ UNCHANGED <<pc, loopVars, backlog, accepted, connVars, mailVars>>

-----------------------------------------------------------------------------
(* Run.                                                                    *)

wants_write(c) == c \in output

next_deadline_due(c) == deadline[c] = "due"

\* What poll reports of a connection: input always, room for output if asked.
Reported(c) == (IF input[c] = "none" THEN {} ELSE {"IN"}) \cup
               (IF wants_write(c) THEN {"OUT"} ELSE {})

\* The timeout is the earliest deadline, so poll returns when one is due.
TimesOut_Never == FALSE
TimesOut == \E c \in Held : next_deadline_due(c)

Woken == mail

Leaves_Never == FALSE
Leaves == stop

poll ==
    /\ pc = "poll"
    /\ \/ stop \/ mail \/ backlog > 0 \/ TimesOut
       \/ \E c \in Held : Reported(c) # {}
    /\ polled' = conns
    /\ pfds' = [k \in DOMAIN conns |-> Reported(conns[k])]
    /\ woken' = Woken /\ knocked' = (backlog > 0)
    /\ pc' = IF Leaves THEN "teardown" ELSE "drain"
    /\ UNCHANGED <<conns, i, cap, backlog, accepted, connVars, mailVars, stop>>

\* poll fails, other than by EINTR: the loop ends.
poll_error ==
    /\ pc = "poll" /\ pc' = "teardown"
    /\ UNCHANGED <<loopVars, backlog, accepted, connVars, mailVars, stop>>

\* DrainOutbound, when the wakeup fd was reported: it gives connections output.
drain(S) ==
    /\ pc = "drain" /\ pc' = "accept"
    /\ S \subseteq Held /\ (~woken => S = {})
    /\ output' = output \cup S
    /\ mail' = (mail /\ ~woken)
    /\ UNCHANGED <<loopVars, backlog, accepted, input, deadline, arrivals, mails, stop>>

\* The listener fails: the loop ends.
listener_error ==
    /\ pc = "accept" /\ pc' = "teardown"
    /\ UNCHANGED <<loopVars, backlog, accepted, connVars, mailVars, stop>>

Existing_OffByOne == IF pfds = << >> THEN 0 ELSE Len(pfds) - 1
Existing == Len(pfds)

Waiting == IF knocked THEN backlog ELSE 0

\* Accept until none is left, when the listener was reported; new connections go
\* behind the polled ones.
accept ==
    /\ pc = "accept" /\ pc' = "tick"
    /\ conns' = conns \o [k \in 1..Waiting |-> accepted + k]
    /\ accepted' = accepted + Waiting
    /\ backlog' = backlog - Waiting
    /\ i' = 1 /\ cap' = Existing
    /\ UNCHANGED <<pollVars, connVars, mailVars, stop>>

revents == pfds[i]

Ticking == pc = "tick" /\ i <= cap

TickRead(c)  == "IN" \in revents \/ ("OUT" \notin revents /\ next_deadline_due(c))
TickWrite(c) == "IN" \notin revents /\ "OUT" \in revents

\* grpcuds_conn_tick_read or _tick_write on a connection that stays: it leaves output
\* or not; a deadline that is due ends its call, one that is not may stay, and a call
\* that was read may bring one.
conn_tick(c, read, dl, out) ==
    /\ ~(read /\ input[c] = "eof")
    /\ dl = "armed" => deadline[c] = "armed" \/ (read /\ input[c] = "data")
    /\ input' = IF read THEN [input EXCEPT ![c] = "none"] ELSE input
    /\ deadline' = [deadline EXCEPT ![c] = dl]
    /\ output' = IF out THEN output \cup {c} ELSE output \ {c}

tick(dl, out) ==
    /\ Ticking
    /\ TickRead(conns[i]) \/ TickWrite(conns[i])
    /\ conn_tick(conns[i], TickRead(conns[i]), dl, out)
    /\ i' = i + 1
    /\ UNCHANGED <<pc, conns, pollVars, cap, backlog, accepted, arrivals, mailVars, stop>>

Shrunk_Not == cap
Shrunk == cap - 1

\* What vector::erase leaves.
Erased(s, k) == [j \in 1..(Len(s) - 1) |-> IF j < k THEN s[j] ELSE s[j + 1]]

\* The tick reports the end or an error: grpcuds_conn_free and erase.
tick_erase ==
    /\ Ticking
    /\ LET c == conns[i]
       IN  /\ TickRead(c) \/ TickWrite(c)
           /\ output' = output \ {c}
           /\ input' = [input EXCEPT ![c] = "none"]
           /\ deadline' = [deadline EXCEPT ![c] = "none"]
    /\ conns' = Erased(conns, i)
    /\ cap' = Shrunk
    /\ UNCHANGED <<pc, pollVars, i, backlog, accepted, arrivals, mailVars, stop>>

tick_skip ==
    /\ Ticking /\ ~TickRead(conns[i]) /\ ~TickWrite(conns[i])
    /\ i' = i + 1
    /\ UNCHANGED <<pc, conns, pollVars, cap, backlog, accepted, connVars, mailVars, stop>>

ticks_done ==
    /\ pc = "tick" /\ i > cap
    /\ pc' = "poll"
    /\ UNCHANGED <<loopVars, backlog, accepted, connVars, mailVars, stop>>

\* on_quiesce, the last drain, a tick for each connection, and all are freed.
teardown ==
    /\ pc = "teardown" /\ pc' = "stopped"
    /\ mail' = FALSE
    /\ conns' = << >>
    /\ output' = {}
    /\ input' = [c \in Conns |-> "none"]
    /\ deadline' = [c \in Conns |-> "none"]
    /\ UNCHANGED <<pollVars, i, cap, backlog, accepted, arrivals, mails, stop>>

-----------------------------------------------------------------------------

Run ==
    \/ poll \/ accept \/ tick_erase \/ tick_skip \/ ticks_done \/ teardown
    \/ \E S \in SUBSET Conns : drain(S)
    \/ \E dl \in {"none", "armed"}, out \in BOOLEAN : tick(dl, out)

World ==
    \/ peer_connects \/ producer_pokes \/ Stop
    \/ \E c \in Conns : clock(c) \/ \E what \in {"data", "eof"} : peer_sends(c, what)

Next == Run \/ World \/ poll_error \/ listener_error

Spec == Init /\ [][Next]_vars

\* The thread gets the processor and poll returns when it has something to report.
FairSpec == Spec /\ WF_vars(Run)

-----------------------------------------------------------------------------
(* Properties.                                                             *)

\* A round ticks only connections that its poll covered: the tick loop stays among
\* them while connections are erased, and never reaches one accepted since.
TicksPolledOnly == Ticking => i <= Len(conns) /\ \E k \in DOMAIN polled : polled[k] = conns[i]

\* A connection's input is read, even when other connections are erased in the
\* same round and its revents are looked up at another index.
InputIsRead ==
    \A c \in Conns : (input[c] # "none") ~> (input[c] = "none")

\* A due deadline is ticked on a connection with no traffic.
DeadlineIsTicked ==
    \A c \in Conns : (deadline[c] = "due") ~> (deadline[c] # "due")

\* Stop() joins: the loop ends and frees every connection.
StopJoins == stop ~> (pc = "stopped" /\ conns = << >>)

=============================================================================
