------------------------------- MODULE Session -------------------------------
(***************************************************************************)
(* The handshake and the reconnect logic: Hello, WhoAreYou, ImFriend, Fine *)
(* for a hard session, HelloAgain and Fine for a rebind, WantNewHello when *)
(* the server no longer knows the session, NeedHelloAgain when it asks for *)
(* a rebind, the timeouts that recreate the socket, and the lifecycle      *)
(* events made from the changes of auth_status.                            *)
(*                                                                         *)
(* run_step handles at most one datagram and then runs the writer tick, so *)
(* each receiving action ends with a tick.  Time is abstract: a tick is    *)
(* told which of the intervals it tests have passed.  Replies may be lost, *)
(* repeated, delayed and reordered, requests lost, delayed and reordered;  *)
(* the client repeats those itself.  The server is external and may        *)
(* restart.                                                                *)
(*                                                                         *)
(* A session is named by the random number of the Hello that began it, the *)
(* server's app token and, as a server may answer a repeated Hello with a  *)
(* new token, a generation.  PrimaryHelloCold and PrimaryHelloNewSession   *)
(* are treated alike by every handler and are one state here.              *)
(***************************************************************************)
EXTENDS Integers, FiniteSets

CONSTANTS
    Rnds,       \* random numbers of handshakes
    NoRnd,      \* none yet
    MaxUpsets   \* bound: restarts, losses of the session and new tokens at
                \* the server

ASSUME SessionAssumption == /\ NoRnd \notin Rnds
                            /\ \A a, b \in Rnds : Rnds \ {a, b} # {}
                            /\ MaxUpsets \in Nat

Boots == 1 .. MaxUpsets + 1
NoSession == [rnd |-> NoRnd, boot |-> 0, gen |-> 0]
Sessions == [rnd : Rnds, boot : Boots, gen : 0 .. MaxUpsets]

VARIABLES
    c,            \* the client
    prev_status,  \* prev_auth_status
    event,        \* the last lifecycle event the application saw
    announced,    \* history: a Connected event followed the last change of keys
    last_peer,    \* history: app token of the last session authorized
    told,         \* history: this handshake emitted ServerRestart
    unreported,   \* history: a handshake changed the app token and did not
    net,          \* handshake messages in flight
    srv,          \* the server: boot, generation, session offered, session
                  \* live, upsets
    fines         \* history: the attempts the server answered with Fine

vars == <<c, prev_status, event, announced, last_peer, told, unreported, net, srv, fines>>

Waits == {"Idle", "PrimaryHello", "PrimaryImFriendSent", "RebindHelloAgain"}
Statuses == {"Base", "Connected", "AuthDone", "Offline"}

Msg(t, rnd, s) == [t |-> t, rnd |-> rnd, s |-> s]

\* Bound: the network carries one packet of each type.  One more is lost, or
\* is the loss of the other.
Outcomes(N, S) ==
    LET same == {o \in N : \E m \in S : o.t = m.t}
    IN  IF same \subseteq S THEN {N \cup S} ELSE {N, (N \ same) \cup S}

\* sent and began say that a hello went out or a wait began in this very
\* tick; out is what the tick sends.  `sending' tells the kept sliced datagrams
\* encrypted with the current keys from those encrypted with earlier ones.
Init ==
    /\ c = [wait |-> "Idle", need_connect |-> TRUE, soft_reconnect |-> FALSE,
            authorized |-> FALSE, auth_status |-> "Base",
            server_token |-> NoSession, handshake_rnd |-> NoRnd,
            cipher |-> NoSession, peer_app_token |-> 0, was_ever |-> FALSE,
            never_sent |-> TRUE, sending |-> {},
            sent |-> FALSE, began |-> FALSE, out |-> {}]
    /\ prev_status = "Base" /\ event = "None" /\ announced = FALSE
    /\ last_peer = 0 /\ told = FALSE /\ unreported = FALSE
    /\ net = {}
    /\ srv = [boot |-> 1, gen |-> 0, offer |-> NoSession, live |-> NoSession, upsets |-> 0]
    /\ fines = {}

-----------------------------------------------------------------------------
\* The parts of the tick, as functions on the client.

\* Mutant: the attempt keeps the random number of the last one.
StartWaitKeepsRnd(x, wait, rnd) == [x EXCEPT !.wait = wait, !.began = TRUE]

StartWait(x, wait, rnd) == [x EXCEPT !.wait = wait, !.handshake_rnd = rnd, !.began = TRUE]

\* full_reset, as far as the handshake sees it.
FullReset(x) == [x EXCEPT !.never_sent = TRUE, !.wait = "Idle"]

\* Mutant: the token of the last session stays.
BeginPrimaryKeepsToken(x, rnd) ==
    LET y == [FullReset(x) EXCEPT !.soft_reconnect = FALSE, !.sending = {},
                !.peer_app_token = 0, !.authorized = FALSE,
                !.out = @ \cup {Msg("Hello", rnd, NoSession)}]
    IN  StartWait(y, "PrimaryHello", rnd)

BeginPrimaryHello(x, rnd) ==
    LET y == [FullReset(x) EXCEPT !.soft_reconnect = FALSE, !.sending = {},
                !.server_token = NoSession, !.peer_app_token = 0,
                !.authorized = FALSE,
                !.out = @ \cup {Msg("Hello", rnd, NoSession)}]
    IN  StartWait(y, "PrimaryHello", rnd)

SendHelloAgain(x) ==
    IF x.server_token = NoSession THEN x
    ELSE [x EXCEPT !.out = @ \cup {Msg("HelloAgain", x.handshake_rnd, x.server_token)}]

SendRebindHelloAgain(x, rnd, new_window) ==
    SendHelloAgain(IF new_window THEN StartWait(x, "RebindHelloAgain", rnd)
                   ELSE [x EXCEPT !.wait = "RebindHelloAgain"])

\* check_hello_send.
CheckHelloSend(x, passed, rnd) ==
    LET y == CASE x.wait = "Idle" ->
                    IF x.soft_reconnect /\ x.server_token # NoSession
                    THEN SendRebindHelloAgain(x, rnd, TRUE) ELSE BeginPrimaryHello(x, rnd)
               [] x.wait = "PrimaryHello" ->
                    [x EXCEPT !.out = @ \cup {Msg("Hello", x.handshake_rnd, NoSession)}]
               [] x.wait = "PrimaryImFriendSent" ->
                    [x EXCEPT !.out = @ \cup {Msg("ImFriend", x.handshake_rnd, x.cipher)}]
               [] x.wait = "RebindHelloAgain" -> SendHelloAgain(x)
    IN  IF x.need_connect /\ (x.never_sent \/ passed.resend)
        THEN [y EXCEPT !.never_sent = FALSE, !.sent = TRUE] ELSE x

\* check_offline_reconnect.
CheckOfflineReconnect(x, passed, rnd) ==
    LET waiting_rebind == x.wait = "RebindHelloAgain"
        stale == x.authorized /\ ~ x.need_connect /\ passed.silence
        y     == [x EXCEPT !.auth_status = "Offline"]
    IN  IF ~ (waiting_rebind \/ stale) \/ x.sent \/ ~ (x.never_sent \/ passed.throttle) THEN x
        ELSE IF x.server_token = NoSession
        THEN [x EXCEPT !.auth_status = "Connected", !.authorized = FALSE,
                       !.need_connect = TRUE, !.soft_reconnect = FALSE,
                       !.never_sent = TRUE, !.wait = "Idle"]
        ELSE [SendRebindHelloAgain(y, rnd, ~ waiting_rebind)
                EXCEPT !.never_sent = FALSE, !.sent = TRUE]

\* do_force_disconnect.
DoForceDisconnect(x) ==
    LET y == IF x.soft_reconnect THEN x ELSE [FullReset(x) EXCEPT !.sending = {}]
    IN  [y EXCEPT !.authorized = FALSE, !.wait = "Idle"]

\* Mutant: after a timeout the client waits for its peer to come back.
TimeoutGivesUp(x, passed) ==
    IF x.wait # "Idle" /\ ~ x.began /\ passed.waiting
    THEN DoForceDisconnect([x EXCEPT
            !.soft_reconnect = x.wait = "RebindHelloAgain" /\ x.server_token # NoSession,
            !.need_connect = FALSE])
    ELSE x

\* check_reconnect_timeout and the do_force_disconnect at the end of the tail.
CheckReconnectTimeout(x, passed) ==
    LET soft == x.wait = "RebindHelloAgain" /\ x.server_token # NoSession
    IN  IF x.wait # "Idle" /\ ~ x.began /\ passed.waiting
        THEN DoForceDisconnect([x EXCEPT !.soft_reconnect = soft, !.need_connect = TRUE,
                                         !.never_sent = IF soft THEN @ ELSE TRUE])
        ELSE x

\* check_dead_zone.
CheckDeadZone(x, passed) ==
    IF ~ x.authorized /\ ~ x.need_connect /\ passed.silence
    THEN DoForceDisconnect([x EXCEPT !.soft_reconnect = FALSE, !.need_connect = TRUE])
    ELSE x

\* The send phase: the application has a command that needs slicing, which is
\* encrypted with the keys at hand and kept until it is acknowledged.  Bound:
\* one is kept at a time.
CreateSliced(x, app) ==
    IF app /\ x.cipher # NoSession /\ x.sending = {}
    THEN [x EXCEPT !.sending = {"current"}] ELSE x

\* check_lifecycle_transition, from the prologue of the next step: the event
\* for a change from status a to status b.
LifecycleEvent(a, b, was_ever) ==
    CASE a # b /\ b = "AuthDone" -> IF was_ever THEN "Connected" ELSE "ConnectedFresh"
      [] a \in {"Base", "Offline"} /\ b = "Connected" -> "Connecting"
      [] a = "AuthDone" /\ b = "Offline" -> "Reconnecting"
      [] OTHER -> "None"

\* A fresh random number is one the client has no memory of.  Nothing can come
\* of the packets, the offer and the session it had in an earlier use, which
\* Forget takes away: they are of an attempt before the last but one.
FreshRnds == Rnds \ {c.handshake_rnd, c.server_token.rnd, c.cipher.rnd}

Forget(S, old) == {y \in S : y.rnd \notin old /\ y.s.rnd \notin old}
ForgetSession(s, old) == IF s.rnd \in old THEN NoSession ELSE s

\* Stands for all fresh numbers in a tick that takes none.
AnyFresh == CHOOSE r \in FreshRnds : TRUE

\* The intervals of a tick, where they matter to it.  The one between two
\* hellos is longer than the throttle.
Intervals ==
    {p \in [resend : BOOLEAN, throttle : BOOLEAN, silence : BOOLEAN, waiting : BOOLEAN] :
       /\ p.resend => p.throttle /\ c.need_connect
       /\ p.throttle => ~ c.never_sent /\ (p.resend \/ p.silence \/ c.wait = "RebindHelloAgain")
       /\ p.silence => ~ c.need_connect /\ (c.authorized => p.throttle \/ c.never_sent)
       /\ p.waiting => c.wait # "Idle"}
NonePassed == [resend |-> FALSE, throttle |-> FALSE, silence |-> FALSE, waiting |-> FALSE]

\* The writer tick of a step whose handler left the client as x: the tail,
\* and the prologue of the next step.
RunTick(x, passed) == \E rnd \in FreshRnds :
    LET c1 == CheckOfflineReconnect(CheckHelloSend(x, passed, rnd), passed, rnd)
        c2 == CheckDeadZone(CheckReconnectTimeout(c1, passed), passed)
        ev == LifecycleEvent(prev_status, c2.auth_status, c2.was_ever)
        old == {c2.handshake_rnd} \cap FreshRnds
    IN
    /\ rnd \in {c2.handshake_rnd, AnyFresh}
    /\ net' \in Outcomes(Forget(net, old), c2.out)
    /\ c' = [c2 EXCEPT !.sent = FALSE, !.began = FALSE, !.out = {},
                       !.was_ever = @ \/ c2.auth_status = "AuthDone"]
    /\ prev_status' = c2.auth_status
    /\ event' = IF ev = "None" THEN event ELSE ev
    /\ announced' = (ev \in {"Connected", "ConnectedFresh"} \/ (announced /\ c2.cipher = c.cipher))
    /\ fines' = {f \in Forget(fines, old) : f.s = c2.cipher}
    /\ srv' = [srv EXCEPT !.offer = ForgetSession(@, old), !.live = ForgetSession(@, old)]

-----------------------------------------------------------------------------
\* The client's steps.

history == <<last_peer, told, unreported>>

\* No datagram.  A sliced command of the application may be sent, or an
\* earlier one be done with (acknowledged or given up).
Tick(passed, app) == RunTick(CreateSliced(c, app), passed) /\ UNCHANGED history

SlicedDone(k) == /\ k \in c.sending
                 /\ c' = [c EXCEPT !.sending = @ \ {k}]
                 /\ UNCHANGED <<prev_status, event, announced, history, net, srv, fines>>

\* apply_recv_side_effects, which every valid packet but WantNewHello has.
Touched == [c EXCEPT !.auth_status = IF @ = "Base" THEN "Connected" ELSE @]

\* The first packet, one whose handler does nothing.
RecvOther ==
    /\ c.auth_status = "Base" /\ net # {}
    /\ RunTick(Touched, NonePassed)
    /\ UNCHANGED history

\* apply_hello_and_build_imfriend: the keys of the session, and ImFriend.
Introduced(m) ==
    [Touched EXCEPT !.server_token = m.s, !.peer_app_token = m.s.boot, !.cipher = m.s,
        !.wait = "PrimaryImFriendSent", !.began = TRUE,
        !.sending = IF @ = {} THEN {} ELSE {"earlier"},
        !.out = {Msg("ImFriend", m.rnd, m.s)}]

WhoAreYouStep(m) ==
    /\ RunTick(Introduced(m), NonePassed)
    /\ told' = (c.peer_app_token \notin {0, m.s.boot})
    /\ UNCHANGED <<last_peer, unreported>>

\* Mutant: a WhoAreYou is taken in any state.
RecvWhoAreYouAnytime(m) ==
    m.t = "WhoAreYou" /\ m.rnd = c.handshake_rnd /\ WhoAreYouStep(m)

\* on_who_are_you.
RecvWhoAreYou(m) ==
    /\ m.t = "WhoAreYou" /\ m.rnd = c.handshake_rnd
    /\ c.wait = "PrimaryHello" /\ c.server_token = NoSession
    /\ WhoAreYouStep(m)

AuthDone(x) == [x EXCEPT !.need_connect = FALSE, !.auth_status = "AuthDone",
                         !.authorized = TRUE, !.wait = "Idle"]

FineStep ==
    /\ RunTick(AuthDone(Touched), NonePassed)
    /\ last_peer' = c.peer_app_token
    /\ unreported' = (unreported \/ (last_peer \notin {0, last_peer'} /\ ~ told))
    /\ UNCHANGED told

\* Mutant: a Fine of an earlier attempt counts.
RecvAnyFine(m) ==
    /\ m.t = "Fine" /\ m.s = c.cipher
    /\ c.wait \in {"PrimaryImFriendSent", "RebindHelloAgain"}
    /\ FineStep

\* on_fine and apply_fine_auth_done: the packet decrypts under the session's
\* key and carries the random number of this attempt.
RecvFine(m) ==
    /\ m.t = "Fine" /\ m.s = c.cipher /\ m.rnd = c.handshake_rnd
    /\ c.wait \in {"PrimaryImFriendSent", "RebindHelloAgain"}
    /\ FineStep

\* Mutant: the status stays what it was when the server forgot the session.
RecvWantNewHelloSilent(m) ==
    /\ m.t = "WantNewHello"
    /\ c.wait = "RebindHelloAgain" /\ m.rnd = c.handshake_rnd
    /\ RunTick([FullReset(c) EXCEPT !.authorized = FALSE,
                   !.need_connect = TRUE, !.soft_reconnect = FALSE], NonePassed)
    /\ UNCHANGED history

\* on_handshake_control.
RecvWantNewHello(m) ==
    /\ m.t = "WantNewHello"
    /\ c.wait = "RebindHelloAgain" /\ m.rnd = c.handshake_rnd
    /\ RunTick([FullReset(c) EXCEPT !.auth_status = "Connected", !.authorized = FALSE,
                   !.need_connect = TRUE, !.soft_reconnect = FALSE], NonePassed)
    /\ UNCHANGED history

RecvWrongHello(m) ==
    /\ m.t = "WrongHello"
    /\ c.wait \in {"PrimaryHello", "PrimaryImFriendSent"}
    /\ RunTick([c EXCEPT !.auth_status = "Connected"], NonePassed)
    /\ UNCHANGED history

\* apply_need_hello_again, past its throttle.
RecvNeedHelloAgain(m) ==
    /\ m.t = "NeedHelloAgain"
    /\ c.authorized /\ m.s = c.cipher
    /\ RunTick([c EXCEPT !.need_connect = TRUE, !.soft_reconnect = TRUE,
                   !.never_sent = TRUE,
                   !.wait = IF @ = "RebindHelloAgain" THEN @ ELSE "Idle"], NonePassed)
    /\ UNCHANGED history

\* on_new_ping, as far as it touches the connection.
RecvPing ==
    /\ c.authorized /\ c.auth_status = "AuthDone" /\ c.need_connect
    /\ RunTick([c EXCEPT !.need_connect = FALSE], NonePassed)
    /\ UNCHANGED history

-----------------------------------------------------------------------------
\* The server, external.

client == <<c, prev_status, event, announced, history>>

SrvHello(m) ==
    /\ m.t = "Hello"
    /\ LET s == [rnd |-> m.rnd, boot |-> srv.boot, gen |-> srv.gen] IN
       /\ srv' = [srv EXCEPT !.offer = s]
       /\ net' \in Outcomes(net \ {m}, {Msg("WhoAreYou", m.rnd, s)})
    /\ UNCHANGED <<client, fines>>

SrvFine(m) == /\ net' \in Outcomes(net \ {m}, {Msg("Fine", m.rnd, m.s)})
              /\ fines' = fines \cup {[rnd |-> m.rnd, s |-> m.s]}

SrvImFriend(m) ==
    /\ m.t = "ImFriend"
    /\ IF m.s \in {srv.offer, srv.live}
       THEN srv' = [srv EXCEPT !.offer = NoSession, !.live = m.s] /\ SrvFine(m)
       ELSE /\ net' \in Outcomes(net \ {m}, {Msg("WrongHello", m.rnd, NoSession)})
            /\ UNCHANGED <<srv, fines>>
    /\ UNCHANGED client

SrvHelloAgain(m) ==
    /\ m.t = "HelloAgain"
    /\ IF m.s = srv.live THEN SrvFine(m)
       ELSE net' \in Outcomes(net \ {m}, {Msg("WantNewHello", m.rnd, NoSession)}) /\ UNCHANGED fines
    /\ UNCHANGED <<client, srv>>

SrvNeedHelloAgain ==
    /\ srv.live # NoSession
    /\ net' \in Outcomes(net, {Msg("NeedHelloAgain", srv.live.rnd, srv.live)})
    /\ UNCHANGED <<client, srv, fines>>

\* A restart gives a new app token, a timeout only loses the session, and the
\* next Hello, be it a copy of one already answered, may get another token.
SrvUpset ==
    /\ srv.upsets < MaxUpsets
    /\ \/ \E boot \in {srv.boot, srv.boot + 1} :
            srv' = [srv EXCEPT !.boot = boot, !.offer = NoSession, !.live = NoSession,
                               !.upsets = @ + 1]
       \/ srv' = [srv EXCEPT !.gen = @ + 1, !.upsets = @ + 1]
    /\ UNCHANGED <<client, net, fines>>

Next ==
    \/ \E passed \in Intervals : Tick(passed, FALSE)
    \/ Tick(NonePassed, TRUE)
    \/ \E m \in net : \/ RecvWhoAreYou(m) \/ RecvFine(m) \/ RecvWantNewHello(m)
                      \/ RecvWrongHello(m) \/ RecvNeedHelloAgain(m)
    \/ RecvPing
    \/ RecvOther
    \/ \E k \in c.sending : SlicedDone(k)
    \/ \E m \in net : SrvHello(m) \/ SrvImFriend(m) \/ SrvHelloAgain(m)
    \/ SrvNeedHelloAgain
    \/ SrvUpset

Spec == Init /\ [][Next]_vars
-----------------------------------------------------------------------------
TypeOK ==
    /\ c.wait \in Waits /\ c.auth_status \in Statuses /\ prev_status \in Statuses
    /\ {c.need_connect, c.soft_reconnect, c.authorized, c.was_ever, c.never_sent}
         \subseteq BOOLEAN
    /\ {c.server_token, c.cipher, srv.offer, srv.live} \subseteq Sessions \cup {NoSession}
    /\ c.sending \subseteq {"current", "earlier"}
    /\ c.handshake_rnd \in IF c.wait = "Idle" THEN Rnds \cup {NoRnd} ELSE Rnds
    /\ c.peer_app_token \in Boots \cup {0}

\* An authorized client holds the keys of a session that the server has
\* accepted, and the token it would rebind with is of the same session.
AuthorizedMeansAccepted ==
    c.authorized => /\ c.cipher = c.server_token
                    /\ \E f \in fines : f.s = c.cipher

\* The client never comes to rest without a session: while it is not
\* authorized it wants to connect.  This is the state that check_dead_zone
\* is there to leave.
AlwaysConnecting == c.authorized \/ c.need_connect

\* What the client waits for is possible: a WhoAreYou is accepted only while
\* there is no token, ImFriend and HelloAgain can only be built with one.
WaitIsAnswerable ==
    /\ c.wait = "PrimaryHello" => c.server_token = NoSession /\ ~ c.authorized
    /\ c.wait \in {"PrimaryImFriendSent", "RebindHelloAgain"} =>
           c.server_token # NoSession /\ c.cipher = c.server_token

\* A client that ends a wait authorized does so because the server confirmed
\* this very attempt: a Fine that was late from an earlier rebind says
\* nothing about the session being alive now.
FineAnswersThisAttempt ==
    [][c.wait # "Idle" /\ c'.wait = "Idle" /\ c'.auth_status = "AuthDone"
         /\ c'.need_connect = FALSE /\ c'.authorized
       => [rnd |-> c.handshake_rnd, s |-> c.cipher] \in fines]_vars

\* Sliced datagrams of an earlier session are not kept in a later one, as the
\* comment on clear_outbound_session_data demands.
NothingKeptFromOldSession ==
    c.authorized /\ c.wait = "Idle" => "earlier" \notin c.sending

\* ServerRestart is emitted during a successful handshake when the peer's app
\* token changes (apply_hello_and_build_imfriend).
RestartIsReported == ~ unreported

\* No session begins behind the application's back: a client that is authorized
\* with new keys has emitted Connected for them.  The events are made from
\* samples of auth_status, and a rebind asked for by the server, its timeouts
\* and the fall-back to a hard handshake all set out from AuthDone: were one such
\* path to come back to AuthDone without a sample of another status, the
\* server would be new and the application told nothing.
NewKeysAreAnnounced == c.authorized /\ c.auth_status = "AuthDone" => announced
=============================================================================
