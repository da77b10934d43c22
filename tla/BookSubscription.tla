--------------------------- MODULE BookSubscription ---------------------------
(***************************************************************************)
(* Market indexes and order-book subscriptions over reconnects.  A server  *)
(* that restarted (another app token) numbers its markets anew, so the     *)
(* subscriptions of the registry are replayed only once GetMarketsIndexes  *)
(* was answered; the replay is repeated until the session's token is       *)
(* confirmed.                                                              *)
(*                                                                         *)
(* The start is the end of Init: indexes are known, the books wanted so    *)
(* far are requested.  Requests and answers reach the other side at most   *)
(* once; they may be lost or overtake one another, and die with their      *)
(* session; what is sent between two sessions (a token of 0) may still     *)
(* reach the next one.  Time is abstract: a tick is told which of its      *)
(* intervals have passed.  The UpdateMarketsList that follows the indexes  *)
(* and the reset of the books' caches are left out.                        *)
(***************************************************************************)
EXTENDS Naturals

CONSTANTS
    Markets,
    FetchIndexes, \* fetch_indexes of the Init
    Uids,         \* request identifiers, and so a bound on requests in flight
    MaxChanges,   \* bound: calls of the application
    MaxSessions   \* bound: hard sessions

ASSUME BookAssumption == /\ Uids \subseteq Nat \ {0} /\ FetchIndexes \in BOOLEAN
                         /\ MaxChanges \in Nat /\ MaxSessions \in Nat \ {0}

VARIABLES
    books,       \* orderbook_subs of the registry
    tok, app,    \* server_token and peer_app_token, 0 for none
    auth,        \* authorized
    tracked,     \* tracked_indexes_peer_app_token
    fetching,    \* indexes_fetch_in_flight
    after,       \* restore_orderbooks_after_indexes
    book_tok,    \* subscribed_book_server_token
    sub_wait,    \* last_orderbook_subscribe_request_uid while its clock runs
    replay,      \* pending_orderbook_resubscribe_uid, 0 for none
    net,         \* requests and answers in flight
    srv,         \* the server: session, app token, books it sends
    changes,     \* calls of the application so far
    full         \* history: a request for the whole registry was confirmed in
                 \* this session

restore == <<tracked, fetching, after, book_tok, sub_wait, replay>>
vars == <<books, tok, app, auth, restore, net, srv, changes, full>>

\* all: the request named every book of the registry.
Packet(to, kind, uid, names, all) ==
    [to |-> to, kind |-> kind, uid |-> uid, names |-> names, all |-> all]

Init ==
    /\ books \in SUBSET Markets
    /\ tok = 1 /\ app = 1 /\ auth = TRUE
    /\ tracked = 1 /\ fetching = FALSE /\ after = FALSE
    /\ book_tok = 0 /\ replay = 0
    /\ \E u \in Uids :
         IF books = {} THEN sub_wait = 0 /\ net = {}
         ELSE sub_wait = u /\ net = {Packet("server", "Subscribe", u, books, TRUE)}
    /\ srv = [tok |-> 1, app |-> 1, subs |-> {}]
    /\ changes = 0
    /\ full = FALSE

-----------------------------------------------------------------------------
\* market_indexes_current_for_peer and domain_restore_needs_indexes, for the
\* app token a and the index token t.
IndexesCurrent(a, t) == a # 0 /\ a = t
NeedsIndexes == FetchIndexes \/ books # {}
IndexesStale(a) == a # 0 /\ ~ IndexesCurrent(a, tracked)

FreshUid(u) == u \in Uids \ {sub_wait, replay}

\* send_api_request_at, next to the packets of rest.  What an earlier request
\* with that uid left on the way is lost.
Send(rest, kind, u, names) ==
    net' = {m \in rest : m.uid # u} \cup {Packet("server", kind, u, names, names = books')}

\* try_subscribe_orderbooks.
Subscribe(M, u) ==
    /\ changes < MaxChanges /\ changes' = changes + 1
    /\ M \ books # {} /\ FreshUid(u)
    /\ books' = books \cup M
    /\ sub_wait' = u
    /\ UNCHANGED <<tok, app, auth, tracked, fetching, after, book_tok, replay, srv, full>>
    /\ Send(net, "Subscribe", u, M \ books)

\* try_unsubscribe_orderbooks and try_unsubscribe_all_orderbooks.
Unsubscribe(M, u) ==
    /\ changes < MaxChanges /\ changes' = changes + 1
    /\ M # {} /\ FreshUid(u)
    /\ books' = books \ M
    /\ UNCHANGED <<tok, app, auth, restore, srv, full>>
    /\ Send(net, "Unsubscribe", u, M)

-----------------------------------------------------------------------------
\* restore_orderbook_subscriptions_as_reconnect_batch.
Replay(rest, u) ==
    IF books = {} THEN net' = rest /\ UNCHANGED <<sub_wait, replay>>
    ELSE sub_wait' = u /\ replay' = u /\ Send(rest, "Subscribe", u, books)

\* send_markets_indexes_restore_request; nothing looks at the uid.
IndexesRequest == Packet("server", "Indexes", 0, {}, FALSE)

\* Mutant: a lost answer is waited for for ever.
NeverGivesUp(passed) == FALSE

\* check_indexes_fetch_timeout: the request in flight is given up.
GivesUpFetch(passed) == fetching /\ passed

\* check_indexes_fetch_timeout, and tick_periodic_refresh_at when the indexes
\* are stale.
TickIndexes(passed) ==
    /\ GivesUpFetch(passed) \/ (~ fetching /\ auth /\ IndexesStale(app) /\ NeedsIndexes)
    /\ UNCHANGED <<books, tok, app, auth, tracked, after, book_tok, sub_wait, replay, srv, changes, full>>
    /\ fetching' = (IndexesStale(app) /\ NeedsIndexes)
    /\ net' = net \cup IF fetching' THEN {IndexesRequest} ELSE {}

\* tick_orderbook_reconnect_sequence, past its throttle; answer: the wait for
\* the last subscribe's answer is over.
TickBooks(u, answer) ==
    /\ FreshUid(u)
    /\ tok # 0 /\ IndexesCurrent(app, tracked)
    /\ tok # book_tok
    /\ sub_wait # 0 => answer
    /\ books # {}
    /\ UNCHANGED <<books, tok, app, auth, tracked, fetching, after, book_tok, srv, changes, full>>
    /\ Replay(net, u)

-----------------------------------------------------------------------------
\* apply_engine_response_client_bookkeeping.

\* The indexes came, the books may have waited for them.
RecvIndexes(m, u) ==
    /\ auth /\ m \in net /\ m.to = "client" /\ m.kind = "Indexes"
    /\ FreshUid(u)
    /\ fetching' = FALSE
    /\ tracked' = app
    /\ after' = FALSE
    /\ UNCHANGED <<books, tok, app, auth, book_tok, srv, changes, full>>
    /\ IF after THEN Replay(net \ {m}, u)
       ELSE net' = net \ {m} /\ UNCHANGED <<sub_wait, replay>>

\* Mutant: an answer confirms the session even if it is not the replay's.
ConfirmsAny(m) == m.kind = "Subscribe"

\* The answer confirms the session's token.
Confirms(m) == m.kind = "Subscribe" /\ (book_tok = 0 \/ replay = m.uid)

\* The answer to an unsubscribe has no effect.
RecvBooks(m) ==
    /\ auth /\ m \in net /\ m.to = "client" /\ m.kind \in {"Subscribe", "Unsubscribe"}
    /\ net' = net \ {m}
    /\ book_tok' = IF Confirms(m) THEN tok ELSE book_tok
    /\ full' = (full \/ (m.kind = "Subscribe" /\ m.all))
    /\ IF m.kind = "Subscribe"
       THEN /\ sub_wait' = IF sub_wait = m.uid THEN 0 ELSE sub_wait
            /\ replay' = IF replay = m.uid THEN 0 ELSE replay
       ELSE UNCHANGED <<sub_wait, replay>>
    /\ UNCHANGED <<books, tok, app, auth, tracked, fetching, after, srv, changes>>

\* A request the server refused: the wait ends, nothing is confirmed.
RecvRefused(m) ==
    /\ auth /\ m \in net /\ m.to = "refused"
    /\ net' = net \ {m}
    /\ fetching' = (fetching /\ m.kind # "Indexes")
    /\ sub_wait' = IF m.kind = "Subscribe" /\ sub_wait = m.uid THEN 0 ELSE sub_wait
    /\ replay' = IF m.kind = "Subscribe" /\ replay = m.uid THEN 0 ELSE replay
    /\ UNCHANGED <<books, tok, app, auth, tracked, after, book_tok, srv, changes, full>>

-----------------------------------------------------------------------------
\* Mutant: the client stays authorized without a session.
LoseSessionAuthorized ==
    /\ tok # 0 /\ srv.tok < MaxSessions
    /\ tok' = 0 /\ app' = 0 /\ net' = {}
    /\ UNCHANGED <<books, auth, restore, srv, changes, full>>

\* begin_primary_hello: the session ends, and what was on its way with it.
LoseSession ==
    /\ tok # 0 /\ srv.tok < MaxSessions
    /\ tok' = 0 /\ app' = 0 /\ auth' = FALSE /\ net' = {}
    /\ UNCHANGED <<books, restore, srv, changes, full>>

\* apply_hello_and_build_imfriend: a new session has tokens, of a server that
\* may have restarted.
WhoAreYou(restarted) ==
    /\ tok = 0
    /\ tok' = srv.tok + 1
    /\ app' = IF restarted THEN srv.app + 1 ELSE srv.app
    /\ srv' = [tok |-> tok', app |-> app', subs |-> {}]
    /\ full' = FALSE
    /\ UNCHANGED <<books, auth, restore, net, changes>>

\* Mutant: the replay does not wait for the indexes.
DelaysBooksNever == FALSE

\* orderbooks_need_fresh_indexes of restore_domain_after_reconnect.
DelaysBooks == books # {} /\ IndexesStale(app)

\* apply_fine_auth_done and restore_domain_after_reconnect, at the end of a
\* handshake and of a rebind.
Fine(u) ==
    /\ tok # 0 /\ FreshUid(u)
    /\ auth' = TRUE
    /\ after' = (after \/ DelaysBooks)
    /\ UNCHANGED <<books, tok, app, tracked, book_tok, srv, changes, full>>
    /\ LET asks == IndexesStale(app) /\ NeedsIndexes /\ ~ fetching
           rest == net \cup IF asks THEN {IndexesRequest} ELSE {} IN
       /\ fetching' = (fetching \/ asks)
       /\ IF DelaysBooks THEN net' = rest /\ UNCHANGED <<sub_wait, replay>> ELSE Replay(rest, u)

\* The server, external.
SrvRequest(m) ==
    /\ tok # 0 /\ m \in net /\ m.to = "server"
    /\ srv' = [srv EXCEPT !.subs = CASE m.kind = "Subscribe" -> @ \cup m.names
                                     [] m.kind = "Unsubscribe" -> @ \ m.names
                                     [] OTHER -> @]
    /\ net' = (net \ {m}) \cup {[m EXCEPT !.to = "client"]}
    /\ UNCHANGED <<books, tok, app, auth, restore, changes, full>>

SrvRefuse(m) ==
    /\ tok # 0 /\ m \in net /\ m.to = "server"
    /\ net' = (net \ {m}) \cup {[m EXCEPT !.to = "refused"]}
    /\ UNCHANGED <<books, tok, app, auth, restore, srv, changes, full>>

Lose(m) ==
    /\ m \in net
    /\ net' = net \ {m}
    /\ UNCHANGED <<books, tok, app, auth, restore, srv, changes, full>>

Next ==
    \/ \E u \in Uids :
         \/ \E M \in SUBSET Markets : Subscribe(M, u) \/ Unsubscribe(M, u)
         \/ \E passed \in BOOLEAN : TickBooks(u, passed)
         \/ Fine(u)
         \/ \E m \in net : RecvIndexes(m, u)
    \/ \E m \in net : RecvBooks(m) \/ RecvRefused(m) \/ SrvRequest(m) \/ SrvRefuse(m) \/ Lose(m)
    \/ \E passed \in BOOLEAN : TickIndexes(passed)
    \/ LoseSession
    \/ \E restarted \in BOOLEAN : WhoAreYou(restarted)

Spec == Init /\ [][Next]_vars

\* The runtime loop ticks and time passes; a handshake ends; a request that is
\* sent again and again arrives, is accepted, and so does its answer.
Fairness ==
    /\ WF_vars(TickIndexes(TRUE))
    /\ WF_vars(\E u \in Uids : TickBooks(u, TRUE))
    /\ WF_vars(\E restarted \in BOOLEAN : WhoAreYou(restarted))
    /\ WF_vars(~ auth /\ \E u \in Uids : Fine(u))
    /\ SF_vars(\E m \in net : m.kind = "Subscribe" /\ m.uid = replay /\ SrvRequest(m))
    /\ SF_vars(\E m \in net : m.kind = "Indexes" /\ SrvRequest(m))
    /\ SF_vars(\E m \in net : m.kind = "Subscribe" /\ m.uid = replay /\ RecvBooks(m))
    /\ SF_vars(\E m \in net, u \in Uids : RecvIndexes(m, u))

FairSpec == Spec /\ Fairness
-----------------------------------------------------------------------------
TypeOK ==
    /\ books \subseteq Markets
    /\ tok \in 0 .. MaxSessions /\ book_tok \in 0 .. MaxSessions
    /\ app \in 0 .. MaxSessions /\ tracked \in 0 .. MaxSessions
    /\ {auth, fetching, after, full} \subseteq BOOLEAN
    /\ auth => tok # 0 /\ app # 0
    /\ sub_wait \in Uids \cup {0} /\ replay \in Uids \cup {0}
    /\ \A m \in net : m.uid \in Uids \cup {0} /\ m.names \subseteq Markets
    /\ srv.subs \subseteq Markets
    /\ changes \in 0 .. MaxChanges

\* The registry is replayed only with indexes of the server that is connected:
\* at every reconnect, and by every later repetition.
ReplayNeedsIndexes == [][replay' \notin {0, replay} => IndexesCurrent(app', tracked')]_vars

\* After the first session the stream is let through again (book_tok is the
\* session's token) only once the server accepted the whole registry: the
\* answer to a single market's subscribe that comes first does not open it.
ConfirmedByReplay == [][book_tok' # book_tok /\ book_tok # 0 => full']_vars

\* Once the application and the sessions come to rest, the indexes are those
\* of the connected server and the session is confirmed for the books.
BooksConverge ==
    []<>(/\ tok # 0
         /\ NeedsIndexes => IndexesCurrent(app, tracked)
         /\ books # {} => book_tok = tok)
===============================================================================
