---------------------------- MODULE HighDelivery ----------------------------
(***************************************************************************)
(* Reliable delivery of High-priority encrypted commands: the High send    *)
(* queue with its unique-key deduplication, PendingH and its retries, the  *)
(* acknowledgement bitmap that comes with a Ping (TmpSlider, then          *)
(* RecvdSlider), and the hard reconnect, which restarts message numbers    *)
(* while packets and Pings of the old session may still be in flight.      *)
(*                                                                         *)
(* Time is abstract: `due' is the set of pending commands whose path delay *)
(* has passed at a writer tick.  A session is a number; a packet carries   *)
(* the session whose keys encrypted it, which is all the server needs to   *)
(* tell whether it decrypts.  The network loses, duplicates and reorders:  *)
(* what is in `net' or `pings' may be received any number of times or      *)
(* never.  The server is external: it keeps the same window and answers    *)
(* with the same half of it.                                               *)
(***************************************************************************)
EXTENDS Slider, SequencesExt

CONSTANTS
    Keys,         \* unique keys; NoKey marks a command without one
    NoKey,
    RetryCounts,  \* values of max_retries in use
    MaxCmds,      \* bound: commands the application sends
    MaxSessions   \* bound: hard sessions

ASSUME HighAssumption ==
    /\ NoKey \notin Keys
    /\ RetryCounts \subseteq Nat \ {0}
    /\ MaxCmds \in Nat
    /\ MaxSessions \in Nat

VARIABLES
    queue,        \* send_queues.high
    pending_h,    \* commands sent and waiting for an acknowledgement
    counter,      \* crypt_msg_counter
    tmp_slider,   \* send_lock.tmp_slider: the last bitmap read
    recvd_slider, \* recv.recvd_slider: the writer's copy of it
    cipher,       \* session of encode_cipher, 0 before the first handshake
    ack_session,  \* ack_session32_value, 0 after full_reset
    phase,        \* where the connection is
    net,          \* packets ever sent
    pings,        \* acknowledgement bitmaps ever sent by the server
    srv_session, srv_slider, srv_got,  \* the server's session, window, history
    next_id,      \* next command
    xmit          \* history: transmissions of each command

client == <<queue, pending_h, counter, tmp_slider, recvd_slider, cipher,
            ack_session, phase>>
server == <<srv_session, srv_slider, srv_got>>
vars == <<client, server, net, pings, next_id, xmit>>

\* Idle: a hard session must be begun at the next tick.  Hello: waiting for
\* WhoAreYou.  AwaitFine: PrimaryImFriendSent, or a rebind after the socket
\* was recreated.  Up: authorized.
Phases == {"Idle", "Hello", "AwaitFine", "Up"}

CmdIds == 1 .. MaxCmds
Items == [id : CmdIds, key : Keys \cup {NoKey}, num : Nat, left : Nat]

\* INITIAL_CRYPTED_MSG_COUNTER: the first number of a session opens the tail
\* half of a fresh window, the half that is acknowledged.
InitialCounter == (SliderLen * WordBits) \div 2 - 1

Init ==
    /\ queue = <<>> /\ pending_h = <<>> /\ counter = InitialCounter
    /\ tmp_slider = NewSlider /\ recvd_slider = NewSlider
    /\ cipher = 0 /\ ack_session = 0 /\ phase = "Idle"
    /\ net = {} /\ pings = {}
    /\ srv_session = 0 /\ srv_slider = NewSlider /\ srv_got = {}
    /\ next_id = 1 /\ xmit = [i \in CmdIds |-> 0]

\* Removes the first item with the key, as Vec::position and remove do.
DropKey(s, key) ==
    IF key = NoKey THEN s ELSE RemoveFirstMatch(s, LAMBDA d : d.key = key)

\* Mutant: the first transmission is not counted.
EnqueueFullBudget(key, max_retries) ==
    /\ next_id <= MaxCmds
    /\ queue' = Append(DropKey(queue, key),
                       [id |-> next_id, key |-> key, num |-> 0, left |-> max_retries])
    /\ next_id' = next_id + 1
    /\ UNCHANGED <<pending_h, counter, tmp_slider, recvd_slider, cipher,
                   ack_session, phase, server, net, pings, xmit>>

\* send_cmd_keyed and push_send_cmd_int.  `left' is initial_retry_left.
Enqueue(key, max_retries) ==
    /\ next_id <= MaxCmds
    /\ queue' = Append(DropKey(queue, key),
                       [id |-> next_id, key |-> key, num |-> 0,
                        left |-> max_retries - 1])
    /\ next_id' = next_id + 1
    /\ UNCHANGED <<pending_h, counter, tmp_slider, recvd_slider, cipher,
                   ack_session, phase, server, net, pings, xmit>>

\* copy_tmp_slider: the writer's copy changes only when there is news.
CopiedSlider == IF tmp_slider.has_new_data THEN tmp_slider ELSE recvd_slider

\* apply_regular_hl_ack.
Unacked == IF CopiedSlider.has_new_data
           THEN SelectSeq(pending_h, LAMBDA d : ~ AckConfirms(CopiedSlider, d.num))
           ELSE pending_h

\* Mutant: no cleanup by key.
NotSuperseded == Unacked

\* apply_high_send_u_key_cleanup over the copied High items.
Superseded == FoldLeft(LAMBDA p, item : DropKey(p, item.key), Unacked, queue)

\* send_h_item for the copied items: each takes the next number, and without
\* a cipher the number is taken and the packet is dropped.
Numbered == [i \in 1 .. Len(queue) |-> [queue[i] EXCEPT !.num = counter + i]]
FirstSends == IF cipher = 0 THEN <<>> ELSE Numbered

\* Mutant: the last transmission of a budget is never made.
RetriedItemsBeforeLast(due) ==
    {i \in DOMAIN Superseded : Superseded[i].id \in due /\ Superseded[i].left > 1}

\* retry_pending_h: due items go out again under the number they have, and
\* leave when their budget is used up.  An item sent in this very tick is
\* not due.
RetriedItems(due) == {i \in DOMAIN Superseded : Superseded[i].id \in due}

\* Mutant: an item whose budget is used up stays.
AfterRetryKeepsSpent(due) ==
    [i \in DOMAIN Superseded |->
        IF i \in RetriedItems(due)
        THEN [Superseded[i] EXCEPT !.left = @ - 1] ELSE Superseded[i]] \o FirstSends

AfterRetry(due) ==
    LET spent == [i \in DOMAIN Superseded |->
                    IF i \in RetriedItems(due)
                    THEN [Superseded[i] EXCEPT !.left = @ - 1] ELSE Superseded[i]]
        fresh == SelectSeq(FirstSends, LAMBDA d : d.left > 0)
    IN  SelectSeq(spent, LAMBDA d : d.left > 0) \o fresh

Sent(due) == ToSet(FirstSends) \cup {Superseded[i] : i \in RetriedItems(due)}

\* Mutant: begin_primary_hello leaves PendingH alone.
TailPendingKept(due) == AfterRetry(due)

\* PendingH after the reconnect tail of the tick: begin_primary_hello clears
\* it (clear_outbound_session_data).
TailPending(due) == IF phase = "Idle" THEN <<>> ELSE AfterRetry(due)

\* One writer tick: copy_send_ack_and_check_sening_data with the sends of
\* check_sening_data in its order, then the reconnect tail, which begins a
\* hard session when one is wanted (begin_primary_hello: full_reset and
\* clear_outbound_session_data).  Nothing in it waits for authorization.
Tick(due) ==
    /\ due \subseteq {pending_h[i].id : i \in DOMAIN pending_h}
    /\ queue' = <<>>
    /\ net' = net \cup {[sess |-> cipher, num |-> d.num, id |-> d.id, key |-> d.key] :
                          d \in Sent(due)}
    /\ xmit' = [i \in CmdIds |-> xmit[i] + Cardinality({d \in Sent(due) : d.id = i})]
    /\ pending_h' = TailPending(due)
    /\ IF phase = "Idle"
       THEN /\ counter' = InitialCounter
            /\ tmp_slider' = NewSlider
            /\ recvd_slider' = NewSlider
            /\ ack_session' = 0
            /\ phase' = "Hello"
       ELSE /\ counter' = counter + Len(queue)
            /\ tmp_slider' = [tmp_slider EXCEPT !.has_new_data = FALSE]
            /\ recvd_slider' = [CopiedSlider EXCEPT !.has_new_data = FALSE]
            /\ UNCHANGED <<ack_session, phase>>
    /\ UNCHANGED <<cipher, server, pings, next_id>>

\* on_who_are_you and apply_hello_and_build_imfriend: keys and
\* acknowledgement session of a new hard session.
OnWhoAreYou ==
    /\ phase = "Hello"
    /\ srv_session < MaxSessions
    /\ srv_session' = srv_session + 1
    /\ srv_slider' = NewSlider
    /\ cipher' = srv_session'
    /\ ack_session' = srv_session'
    /\ phase' = "AwaitFine"
    /\ UNCHANGED <<queue, pending_h, counter, tmp_slider, recvd_slider, srv_got,
                   net, pings, next_id, xmit>>

OnFine ==
    /\ phase = "AwaitFine"
    /\ phase' = "Up"
    /\ UNCHANGED <<queue, pending_h, counter, tmp_slider, recvd_slider, cipher,
                   ack_session, server, net, pings, next_id, xmit>>

\* The soft do_force_disconnect: nothing outbound is touched.
SoftDisconnect ==
    /\ phase = "Up"
    /\ phase' = "AwaitFine"
    /\ UNCHANGED <<queue, pending_h, counter, tmp_slider, recvd_slider, cipher,
                   ack_session, server, net, pings, next_id, xmit>>

\* apply_want_new_hello: full_reset, which keeps PendingH and the keys.
OnWantNewHello ==
    /\ phase \in {"AwaitFine", "Up"}
    /\ phase' = "Idle"
    /\ counter' = InitialCounter
    /\ tmp_slider' = NewSlider
    /\ recvd_slider' = NewSlider
    /\ ack_session' = 0
    /\ UNCHANGED <<queue, pending_h, cipher, server, net, pings, next_id, xmit>>

\* A handshake that timed out: the hard do_force_disconnect.
HardDisconnect ==
    /\ phase \in {"Hello", "AwaitFine"}
    /\ phase' = "Idle"
    /\ pending_h' = <<>>
    /\ counter' = InitialCounter
    /\ tmp_slider' = NewSlider
    /\ recvd_slider' = NewSlider
    /\ ack_session' = 0
    /\ UNCHANGED <<queue, cipher, server, net, pings, next_id, xmit>>

\* Mutant: a bitmap of any session counts.
RecvPingAnySession(p) ==
    /\ phase = "Up"
    /\ tmp_slider' = ApplyAck(tmp_slider, p.ack)
    /\ UNCHANGED <<queue, pending_h, counter, recvd_slider, cipher, ack_session,
                   phase, server, net, pings, next_id, xmit>>

\* on_new_ping: the bitmap counts only when it is of this hard session; a
\* Ping before authorization is ignored.
RecvPing(p) ==
    /\ phase = "Up"
    /\ p.sess = ack_session
    /\ tmp_slider' = ApplyAck(tmp_slider, p.ack)
    /\ UNCHANGED <<queue, pending_h, counter, recvd_slider, cipher, ack_session,
                   phase, server, net, pings, next_id, xmit>>

\* The server, external: it decrypts what its keys encrypted, refuses
\* replays, and sends its acknowledgement half.
SrvRecv(m) ==
    /\ m.sess = srv_session
    /\ srv_slider' = AfterCheckRevd(srv_slider, m.num)
    /\ srv_got' = IF CheckRevd(srv_slider, m.num) THEN srv_got \cup {m} ELSE srv_got
    /\ UNCHANGED <<client, srv_session, net, pings, next_id, xmit>>

SrvPing ==
    /\ srv_session > 0
    /\ pings' = pings \cup {[sess |-> srv_session, ack |-> BuildAckHalf(srv_slider)]}
    /\ UNCHANGED <<client, server, net, next_id, xmit>>

Next ==
    \/ \E key \in Keys \cup {NoKey}, r \in RetryCounts : Enqueue(key, r)
    \/ \E due \in SUBSET CmdIds : Tick(due)
    \/ OnWhoAreYou
    \/ OnFine
    \/ SoftDisconnect
    \/ OnWantNewHello
    \/ HardDisconnect
    \/ \E p \in pings : RecvPing(p)
    \/ \E m \in net : SrvRecv(m)
    \/ SrvPing

Spec == Init /\ [][Next]_vars

\* The writer thread ticks for ever, and in the end the path delay of every
\* pending command passes.  Nothing is assumed of the server or the network.
FairSpec == Spec /\ WF_vars(Tick({pending_h[i].id : i \in DOMAIN pending_h}))
-----------------------------------------------------------------------------
TypeOK ==
    /\ queue \in Seq(Items) /\ pending_h \in Seq(Items)
    /\ counter \in Nat
    /\ tmp_slider \in Windows /\ recvd_slider \in Windows /\ srv_slider \in Windows
    /\ cipher \in 0 .. MaxSessions /\ ack_session \in 0 .. MaxSessions
    /\ srv_session \in 0 .. MaxSessions
    /\ phase \in Phases
    /\ next_id \in 1 .. MaxCmds + 1
    /\ xmit \in [CmdIds -> Nat]

\* A bitmap that is about to be applied confirms a pending command only if
\* the server has accepted that very command, under the keys the client now
\* encrypts with.  Message numbers start again with every hard session, so
\* this needs the session filter on the Ping and both window resets.
AckMeansReceived ==
    \A d \in ToSet(pending_h) :
        CopiedSlider.has_new_data /\ AckConfirms(CopiedSlider, d.num) =>
            \E m \in srv_got : m.sess = cipher /\ m.num = d.num /\ m.id = d.id

\* A retry never revives an outdated command: no command with the same
\* unique key that was issued later has been sent, and there is at most one
\* pending command per key.
RetryIsNewest ==
    \A d \in ToSet(pending_h) : d.key # NoKey =>
        /\ \A m \in net : m.key = d.key => m.id <= d.id
        /\ Cardinality({i \in DOMAIN pending_h : pending_h[i].key = d.key}) = 1

\* A command goes on the wire at most max_retries times, the first time
\* included; a pending command has exactly the rest of that budget left.
Budget ==
    /\ \A i \in CmdIds : \E r \in RetryCounts : xmit[i] <= r
    /\ \A d \in ToSet(pending_h) : xmit[d.id] + d.left \in RetryCounts

\* Two commands waiting in PendingH share a message number only between
\* apply_want_new_hello and the begin_primary_hello of the same tick, so one
\* bit of a bitmap never stands for two of them.
NumbersDistinct ==
    phase # "Idle" =>
        \A i, j \in DOMAIN pending_h : i # j => pending_h[i].num # pending_h[j].num

\* A command given to the client does not stay in its queues for ever: it is
\* acknowledged, replaced, cleared by a hard reconnect or out of budget, also
\* when the server never answers.
CommandSettles ==
    \A i \in CmdIds :
        (\E d \in ToSet(queue) \cup ToSet(pending_h) : d.id = i)
        ~> (\A d \in ToSet(queue) \cup ToSet(pending_h) : d.id # i)
=============================================================================
