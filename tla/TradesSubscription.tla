-------------------------- MODULE TradesSubscription --------------------------
(***************************************************************************)
(* Keeping the server's all-trades subscription equal to what the          *)
(* application wants: the intent in the subscription registry, the         *)
(* requests sent for it, and the three ways it is repaired.  A new session *)
(* starts unsubscribed and a rebind may have missed requests, so           *)
(* tick_trades_reconnect_sequence unsubscribes, waits for the answer and   *)
(* subscribes again until the stream is seen; it also does so when a       *)
(* stream that should run is silent.  A stream that runs and should not is *)
(* unsubscribed by repair_unwanted_trades_stream.                          *)
(*                                                                         *)
(* Init is over (domain_ready) and market indexes are synchronized.        *)
(* Requests and answers reach the other side at most once; they may be     *)
(* lost or overtake one another, and die with their session; what is sent  *)
(* between two sessions (a token of 0) may still reach the next one.  Time *)
(* is abstract: a tick is told which of its intervals have passed.  The    *)
(* market-maker flag and the storage scope of a subscription are left out. *)
(***************************************************************************)
EXTENDS Naturals

CONSTANTS
    Uids,         \* request identifiers, and so a bound on requests in flight
    MaxChanges,   \* bound: calls of the application
    MaxSessions   \* bound: hard sessions

ASSUME TradesAssumption == /\ Uids \subseteq Nat \ {0}
                           /\ MaxChanges \in Nat /\ MaxSessions \in Nat

VARIABLES
    intent,     \* all_trades_intent
    tok,        \* server_token, 0 for none
    auth,       \* authorized
    sub_wait,   \* last_trades_subscribe_request_ms is not NEVER_TIME_MS
    unsub_wait, \* request_uid of pending_trades_unsubscribe, 0 for none
    resub,      \* pending_trades_resubscribe_after_ms is set
    seen,       \* last_trades_stream_ms is not NEVER_TIME_MS
    trades_tok, \* trades_server_token of the dispatcher
    net,        \* requests and answers in flight
    srv,        \* the server: session, subscription, packets still on their way
    changes,    \* calls of the application so far
    seq         \* history: uid of the last sequence's unsubscribe, and whether
                \* the sequence stopped waiting for its answer

vars == <<intent, tok, auth, sub_wait, unsub_wait, resub, seen, trades_tok, net, srv, changes, seq>>

Intents == {"Unspecified", "Subscribed", "Unsubscribed"}
Kinds == {"Subscribe", "Unsubscribe"}
Packets == [to : {"server", "client"}, kind : Kinds, uid : Uids]

Init ==
    /\ intent = "Unspecified"
    /\ tok = 1 /\ auth = TRUE /\ trades_tok = 0
    /\ sub_wait = FALSE /\ unsub_wait = 0 /\ resub = FALSE /\ seen = FALSE
    /\ net = {}
    /\ srv = [tok |-> 1, on |-> FALSE, late |-> FALSE]
    /\ changes = 0
    /\ seq = [uid |-> 0, gave_up |-> FALSE]

-----------------------------------------------------------------------------
\* Mutant: the request goes out without its uid.
SendNoUid(kind, u) ==
    net' = net \cup {[to |-> "server", kind |-> kind, uid |-> 0]}

\* send_api_request_at, for a request with uid u.  What an earlier request
\* with that uid left on the way is lost.
Send(kind, u) ==
    net' = {m \in net : m.uid # u} \cup {[to |-> "server", kind |-> kind, uid |-> u]}

FreshUid(u) == u \in Uids \ {unsub_wait, seq.uid}

\* try_subscribe_trades_with_scope, with another intent or another
\* market-maker flag.
Subscribe(u) ==
    /\ changes < MaxChanges /\ changes' = changes + 1
    /\ FreshUid(u)
    /\ intent' = "Subscribed"
    /\ sub_wait' = TRUE
    /\ UNCHANGED <<tok, auth, unsub_wait, resub, seen, trades_tok, srv, seq>>
    /\ Send("Subscribe", u)

\* try_unsubscribe_all_trades.
Unsubscribe(u) ==
    /\ changes < MaxChanges /\ changes' = changes + 1
    /\ FreshUid(u)
    /\ intent' = "Unsubscribed"
    /\ UNCHANGED <<tok, auth, sub_wait, unsub_wait, resub, seen, trades_tok, srv, seq>>
    /\ Send("Unsubscribe", u)

-----------------------------------------------------------------------------
\* tick_trades_reconnect_sequence, by its early returns.

Blocked(passed) == sub_wait /\ ~ passed.answer

\* The wait for the unsubscribe's answer ends without it.
TickGiveUp(passed) ==
    /\ ~ Blocked(passed)
    /\ unsub_wait # 0 /\ passed.answer
    /\ unsub_wait' = 0 /\ resub' = TRUE
    /\ seq' = [seq EXCEPT !.gave_up = TRUE]
    /\ UNCHANGED <<intent, tok, auth, sub_wait, seen, trades_tok, net, srv, changes>>

\* Mutant: the delayed subscribe does not look at the intent again.
TickResubscribeBlindly(u, passed) ==
    /\ ~ Blocked(passed)
    /\ unsub_wait = 0 /\ resub /\ passed.delay
    /\ FreshUid(u)
    /\ resub' = FALSE
    /\ UNCHANGED <<intent, tok, auth, unsub_wait, seen, trades_tok, srv, changes, seq>>
    /\ sub_wait' = TRUE
    /\ Send("Subscribe", u)

TickResubscribe(u, passed) ==
    /\ ~ Blocked(passed)
    /\ unsub_wait = 0 /\ resub /\ passed.delay
    /\ FreshUid(u)
    /\ resub' = FALSE
    /\ UNCHANGED <<intent, tok, auth, unsub_wait, seen, trades_tok, srv, changes, seq>>
    /\ IF intent = "Subscribed" THEN sub_wait' = TRUE /\ Send("Subscribe", u)
       ELSE UNCHANGED <<sub_wait, net>>

\* start_trades_reconnect_sequence.
TickStart(u, passed) ==
    /\ ~ Blocked(passed)
    /\ unsub_wait = 0 /\ ~ resub
    /\ intent = "Subscribed" /\ tok # 0
    /\ tok = trades_tok => seen /\ passed.silence
    /\ passed.throttle
    /\ FreshUid(u)
    /\ unsub_wait' = u
    /\ seq' = [uid |-> u, gave_up |-> FALSE]
    /\ UNCHANGED <<intent, tok, auth, sub_wait, resub, seen, trades_tok, srv, changes>>
    /\ Send("Unsubscribe", u)

\* The throttle is shorter than the silence.
Intervals == {p \in [answer : BOOLEAN, delay : BOOLEAN, silence : BOOLEAN, throttle : BOOLEAN] :
                 p.silence => p.throttle}

Tick(passed) == \/ TickGiveUp(passed)
                \/ \E u \in Uids : TickResubscribe(u, passed) \/ TickStart(u, passed)

-----------------------------------------------------------------------------
\* apply_engine_response_client_bookkeeping.

RecvSubscribed(m) ==
    /\ auth /\ m \in net /\ m.to = "client" /\ m.kind = "Subscribe"
    /\ sub_wait' = FALSE
    /\ net' = net \ {m}
    /\ UNCHANGED <<intent, tok, auth, unsub_wait, resub, seen, trades_tok, srv, changes, seq>>

\* Mutant: any answer to an unsubscribe ends the wait.
ClosesAnyWait(m) == unsub_wait # 0

\* close_trades_unsubscribe_wait_if_matches.
ClosesWait(m) == unsub_wait = m.uid

RecvUnsubscribed(m) ==
    /\ auth /\ m \in net /\ m.to = "client" /\ m.kind = "Unsubscribe"
    /\ net' = net \ {m}
    /\ IF ClosesWait(m) THEN unsub_wait' = 0 /\ resub' = TRUE ELSE UNCHANGED <<unsub_wait, resub>>
    /\ UNCHANGED <<intent, tok, auth, sub_wait, seen, trades_tok, srv, changes, seq>>

\* Mutant: packets of an unwanted stream are only dropped.
NoRepair(throttle) == FALSE

\* repair_unwanted_trades_stream goes on to unsubscribe.
Repairs(throttle) == intent = "Unsubscribed" /\ throttle

\* client_new_data for a TradesStream packet, and the dispatcher's note of the
\* token.
RecvStream(u, throttle) ==
    /\ auth /\ (srv.on \/ srv.late)
    /\ FreshUid(u)
    /\ seen' = TRUE
    /\ trades_tok' = IF intent = "Subscribed" THEN tok ELSE trades_tok
    /\ srv' = [srv EXCEPT !.late = FALSE]
    /\ UNCHANGED <<intent, tok, auth, sub_wait, unsub_wait, resub, changes, seq>>
    /\ IF Repairs(throttle) THEN Send("Unsubscribe", u) ELSE UNCHANGED net

-----------------------------------------------------------------------------
\* begin_primary_hello: the session ends; what was on its way ends with it.
LoseSession ==
    /\ tok # 0 /\ srv.tok < MaxSessions
    /\ tok' = 0 /\ auth' = FALSE /\ net' = {}
    /\ UNCHANGED <<intent, sub_wait, unsub_wait, resub, seen, trades_tok, srv, changes, seq>>

\* apply_hello_and_build_imfriend: a new session has a token.
WhoAreYou ==
    /\ tok = 0
    /\ tok' = srv.tok + 1
    /\ srv' = [tok |-> srv.tok + 1, on |-> FALSE, late |-> FALSE]
    /\ UNCHANGED <<intent, auth, sub_wait, unsub_wait, resub, seen, trades_tok, net, changes, seq>>

\* apply_fine_auth_done and restore_domain_after_reconnect, at the end of a
\* handshake and of a rebind.
Fine(u) ==
    /\ tok # 0 /\ FreshUid(u)
    /\ auth' = TRUE
    /\ UNCHANGED <<intent, tok, sub_wait, unsub_wait, resub, seen, trades_tok, srv, changes, seq>>
    /\ IF intent = "Unsubscribed" THEN Send("Unsubscribe", u) ELSE UNCHANGED net

\* The server, external: a request sets the state it names and is answered.
SrvRequest(m) ==
    /\ tok # 0 /\ m \in net /\ m.to = "server"
    /\ srv' = [srv EXCEPT !.on = m.kind = "Subscribe",
                          !.late = @ \/ (srv.on /\ m.kind = "Unsubscribe")]
    /\ net' = (net \ {m}) \cup {[m EXCEPT !.to = "client"]}
    /\ UNCHANGED <<intent, tok, auth, sub_wait, unsub_wait, resub, seen, trades_tok, changes, seq>>

Lose(m) ==
    /\ m \in net
    /\ net' = net \ {m}
    /\ UNCHANGED <<intent, tok, auth, sub_wait, unsub_wait, resub, seen, trades_tok, srv, changes, seq>>

Next ==
    \/ \E u \in Uids : \/ Subscribe(u) \/ Unsubscribe(u)
                       \/ Fine(u)
                       \/ \E throttle \in BOOLEAN : RecvStream(u, throttle)
    \/ \E passed \in Intervals : Tick(passed)
    \/ \E m \in net : RecvSubscribed(m) \/ RecvUnsubscribed(m) \/ SrvRequest(m) \/ Lose(m)
    \/ LoseSession \/ WhoAreYou

Spec == Init /\ [][Next]_vars

\* The runtime loop ticks every few milliseconds and time passes; a handshake
\* ends; a packet that is sent again and again arrives.
AllPassed == [answer |-> TRUE, delay |-> TRUE, silence |-> TRUE, throttle |-> TRUE]
Fairness ==
    /\ WF_vars(Tick(AllPassed))
    /\ WF_vars(WhoAreYou)
    /\ WF_vars(~ auth /\ \E u \in Uids : Fine(u))
    /\ SF_vars(\E u \in Uids : RecvStream(u, TRUE))
    /\ \A kind \in Kinds :
         /\ SF_vars(\E m \in net : m.kind = kind /\ SrvRequest(m))
         /\ SF_vars(\E m \in net : m.kind = kind /\ (RecvSubscribed(m) \/ RecvUnsubscribed(m)))

FairSpec == Spec /\ Fairness
-----------------------------------------------------------------------------
TypeOK ==
    /\ intent \in Intents
    /\ tok \in 0 .. MaxSessions /\ trades_tok \in 0 .. MaxSessions
    /\ auth \in BOOLEAN /\ sub_wait \in BOOLEAN /\ resub \in BOOLEAN /\ seen \in BOOLEAN
    /\ unsub_wait \in Uids \cup {0}
    /\ net \subseteq Packets
    /\ srv \in [tok : 1 .. MaxSessions, on : BOOLEAN, late : BOOLEAN]
    /\ changes \in 0 .. MaxChanges
    /\ seq \in [uid : Uids \cup {0}, gave_up : BOOLEAN]

\* A request on its way to the server that was not there before.
Queued(kind) == \E m \in net' \ net : m.to = "server" /\ m.kind = kind

\* After an explicit unsubscribe nothing subscribes again, whatever part of a
\* reconnect sequence was under way when the application called.
OffStaysOff == [][Queued("Subscribe") => intent' = "Subscribed"]_vars

\* The sequence subscribes only when its own unsubscribe can no longer reach
\* the server after the subscribe, unless it stopped waiting for the answer.
ResubscribeIsLast ==
    resub /\ ~ seq.gave_up =>
        \A m \in net : m.uid = seq.uid => m.to = "client"

\* Once the application and the sessions come to rest, the server is again
\* and again found in the state that the application asked for.
SubscriptionConverges ==
    []<>(/\ intent = "Subscribed" => srv.on /\ trades_tok = tok
         /\ intent = "Unsubscribed" => ~ srv.on)
===============================================================================
