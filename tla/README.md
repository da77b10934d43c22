# MoonProto in TLA+

Specifications of the MoonProto client runtime (the Rust crate under `src/`):
TLA+ modules translated from its code, TLC configurations that check them on
small instances, and TLAPS proofs for instances of every size. `PROJECT.json`
maps each definition to the lines it models and lists runs, mutants, findings,
hazards and theorems.

## The system

MoonProto connects an application to a MoonBot core over UDP. One runtime
thread owns the client. `run_step` (`client/protocol_core.rs`) handles at most
one datagram, then runs the writer tick: acknowledgements, sends and retries,
periodic repairs of subscriptions, and the reconnect tail. Calls of the
application are commands handled on the same thread, so a call is one atomic
step; what interleaves is the network, the core, time and the application.

| Part | State | What makes it hard |
| --- | --- | --- |
| Replay window | 64 words of 64 bits, start number | slides by any distance; half of it is the acknowledgement |
| Encrypted inbox | window, commands deferred before Fine | repeats around the drain; soft and hard reconnects |
| High delivery | queue, PendingH, message counter, bitmaps | numbers restart with each session; newer commands replace older ones |
| Sliced datagrams | blocks held, repeat clock per slot, acknowledged blocks, retry clocks | ageing, slot collisions, byte limit per tick |
| Session | hello wait, tokens, keys, auth status | late answers of earlier attempts, timeouts at any moment, server restarts |
| Trades subscription | intent, pending unsubscribe, delayed subscribe | requests overtake each other; calls in the middle of a sequence |
| Indexes, books, candles | registry, index token, confirmed token | indexes of another server process; lost and refused requests |
| Trades gaps | 50 buckets over 16-bit numbers | wrap-around, overflow, resend budget |
| Order books | reordering cache, corrupted flag | wrap-around, full refresh racing diffs |
| Orders, strategies | epochs, snapshots | stale updates, snapshots racing updates |
| Reports | schema, pages, apply barrier | application acknowledgement racing a new session |
| Engine API requests | pending table, chunks | answers after the timeout, lost chunks |
| Init, runtime loop | step machine, command channel | commands before Init is over, shutdown |
| Retained history | rings, worker, cursors | overwriting under a reader's cursor |

Framing, cryptography, payload codecs, the shared configuration, time and
telemetry have no protocol of their own and are not modelled; packets are taken
to open only under the key they were sealed with.

## Modules

**Slider** — `protocol/slider.rs` as operators on a window of `SliderLen` words
of `WordBits` bits (64 and 64 in the code): `CheckRevd`, `AfterCheckRevd`,
`BuildAckHalf`, `AckConfirms`.

**CryptedInbox** — receiving encrypted commands. Any number may arrive at any
time and any number of times. Before Fine, numbers up to `PreAuthMax` are kept
and delivered by the drain inside the handler of Fine.

**HighDelivery** — sending High commands: the queue with unique keys, PendingH,
retries, the Ping bitmap with its session filter, soft and hard reconnects. The
server keeps the same window.

**ReliableTransfer** — what sliced transfer promises: a datagram is delivered at
most once and confirmed only after delivery.
**SlicedTransfer** — the receiver with its repeat clock and cleanup and the
sender's acknowledgement bookkeeping. It implements ReliableTransfer as long as
no datagram ages out and no two share a slot. All datagrams have one size and
numbers are not used again, so the branch that begins an entry anew when
`max_block_num` differs (`protocol/slicing.rs:443-457`) is not modelled.
**SlicedRetry** — the clocks that decide which blocks are repeated in which
tick under the byte limit, and when a datagram is given up. A block is one unit
of the limit; acknowledgements are for blocks that were sent.

**Session** — handshake, rebind and reconnect. The parts of the tick are
functions on the client record, applied in the order of the code; every
receiving action ends with a tick, as in `run_step`. A lifecycle event is made
from the status seen at consecutive prologues; `announced` remembers whether a
Connected event followed the last change of keys.

**TradesSubscription** — keeping the core's all-trades subscription at what the
application asked for.

**BookSubscription** — GetMarketsIndexes after a reconnect and the replay of
the order-book registry.

In the subscription modules a request and its answer arrive at most once,
because the High and sliced layers below see to that; they can still be lost
(retry budget) and reordered, and die with the session. `WhoAreYou` and `Fine`
are the two steps of a handshake they depend on; what the application sends in
between is possible too. These modules use Session's guarantees and are not yet
composed with it.

## Runs

| Run | Shows |
| --- | --- |
| `crypted_inbox` | at-most-once delivery, exact window and acknowledgement, complete drain |
| `high_delivery` | no acknowledgement is taken for another command; superseded commands are not revived; budget; distinct numbers; no command stays queued or pending for ever |
| `sliced_aging` | a confirmed datagram was delivered unless it aged out or collided; no repeat within the window |
| `sliced_reliable` | refinement of ReliableTransfer, and settling |
| `sliced_retry` | the gate costs at most a round trip; the blocks of a datagram take turns; none is given up before its retry time is over and every missing block was sent |
| `session` | authorized only by the attempt at hand, never idle without session, waits are answerable, no session with new keys goes unannounced |
| `trades_subscription` | off stays off; the sequence's subscribe comes after its unsubscribe; the core reaches the state asked for |
| `book_subscription` | replay only with current indexes; a later session is confirmed only by the whole registry |
| `books_converge` | indexes and subscription are restored whatever was lost |

Three further runs end in a violation and are the findings below.

### Bounds

Window: 4 words of 2 bits in `crypted_inbox`, so that numbers slide it by less
and by more than its length; 2 words of 1 bit in the High runs, where the second
number of a session already slides it. High: two commands, one key, two
sessions, budgets of one and of several transmissions. Sliced: two datagrams of
two blocks; a repeat window of 2 and time up to 5, so that entries expire twice;
one slot for collisions, two without. In `sliced_reliable` time ends inside the
repeat window: that is the condition of the refinement. SlicedRetry: three
datagrams of one block, which can fill every tick of a path delay and keep a
larger one waiting, and one of five blocks, more than a path delay has ticks; one
block per tick, until tick 12, where the large one is given up in the worst case;
it stops there, hence no deadlock check.
Session: three random numbers (this attempt, the one that gave the keys, a
fresh one), one upset of the server (a restart, the loss of the session, or
another token for the next Hello), one packet of each type on the network, one
sliced datagram kept at a time.
Subscriptions: three request identifiers, two sessions, one to three calls;
`books_converge` has one market, as whole and partial subscribes are told apart
only by the safety properties, and an Init that fetches indexes in any case.

Symmetry is used for random numbers, market names and the datagrams of one block,
which are only compared.

### Fairness

The runtime loop ticks for ever, which is weak fairness of the ticks: all their
intervals pass in the end. High delivery needs nothing else, not even a core.
Settling of sliced datagrams needs weak fairness of their repetition and, as
`net` keeps every block ever sent, of their receipt. A block that never gets
through is met as the sender giving its datagram up. Convergence of the
subscriptions needs weak fairness of the two steps of the handshake (Session
keeps trying) and that a request repeated for ever gets through, is accepted and
is answered: strong fairness of the server's and the receiving actions for those
requests. No fairness is assumed of losses, of session changes or of the
application's subscription calls.

## Findings

- `sliced_full_ack`: an incomplete datagram that aged out is acknowledged in
  full, against the comment at `protocol/slicing.rs:428`. The test
  `clear_old_refreshes_duplicate_window` (`protocol/slicing/tests.rs:361`) pins
  that full acknowledgement.
- `session_restart`: `ServerRestart` is never emitted, since the app token is
  cleared before the handshake that would compare it
  (`client/protocol_recv_state.rs:48`).
- `session_kept`: a sliced command made between the new Hello and WhoAreYou
  carries the old session's encryption and is retried in the new one
  (`client/protocol_sliced_send.rs:104`).

What the retry code does not promise, and no property claims: a datagram with more
blocks than fit into a path delay is given up with some blocks sent only once,
because the budget counts path delays and not repetitions; and since fewer blocks
go first, small datagrams that fill every tick keep a larger one waiting until
they are confirmed or given up. Both happen in `sliced_retry`.

Noted while modelling, and not asked by a run: `check_lifecycle_transition`
(`client/lifecycle.rs:108`) has no event for AuthDone to Connected, so that the
Hello that follows a WantNewHello is not always announced by `Connecting`; and
in the first session the answer to a single market's subscribe sets
`subscribed_book_server_token` (`client/protocol_api.rs:75`), which is why
`ConfirmedByReplay` speaks of later sessions.

## Proofs

`SliderTheorems` proves `CheckRevdRecords` for every `SliderLen` and `WordBits`
(both positive): which numbers are accepted and what the window
records afterwards. Its lemmas are about division into words and bits, setting
a bit, and sliding.

`CryptedInboxProofs` proves for every window and every set of numbers the type
invariant (`TypeCorrect`), at-most-once delivery (`DeliveryAtMostOnce`), the
exact window (`WindowIsExact`) and the complete drain (`DrainIsComplete`).
The invariants are not inductive one by one. `IInv` joins the type invariant,
at-most-once delivery and these: the window is aligned (sliding then shifts
whole words); it records exactly the delivered numbers it covers, and nothing
beyond its end was delivered (the words that sliding brings in are rightly
empty); deferred numbers are at most `PreAuthMax` (the drain does not slide the
window). Each action passes messages through `check_revd`, so that each step is
`CheckRevdRecords` and a case analysis. The assumptions are the named ASSUMEs of
`Slider` and `CryptedInbox`.

Everything else is model-checked only. Liveness is out of the prover's reach.

## Plan

Modules still to come, in this order, each with a run of its own:

| Module | Code | Questions and bounds |
| --- | --- | --- |
| TradesGap | `state/trades.rs`, `state/trades/` | no packet is counted as received twice or forgotten while its bucket lives; numbers modulo 8 or so in place of 2^16, two or three buckets in place of 50 |
| OrderBook | `state/order_books.rs`, `state/order_books/` | a book is never built from a diff out of order; a corrupted book is refreshed in the end; numbers modulo 8, a cache of two |
| Requests | `api_pending.rs`, `commands/chunked_response.rs` | every request ends exactly once, with its answer or its timeout; two requests, two chunks |
| Orders | `state/orders.rs`, `state/orders/`, `state/epoch.rs` | a stale update never replaces a newer one, also at the wrap of the epoch |
| Init, RuntimeLoop | `client/init/`, `client/runtime_dispatcher.rs`, `client/active_runtime/` | Init ends, is resumed or fails; no command is lost at shutdown |
| Report, Strats | `state/report.rs`, `state/strats.rs`, `state/strats/` | snapshots racing updates, barrier and session change |
| History | `state/seq_ring.rs`, the history worker | a cursor that was overtaken notices it |

Abstract specifications planned beside ReliableTransfer: a request table (each
request is answered once) for Requests, and a sequence applied in order for
TradesGap and OrderBook.

Compositions: sliced completion with the deferral before Fine (SlicedTransfer
and CryptedInbox); Session with the two subscription modules, whose `WhoAreYou`
and `Fine` are its steps; sessions in SlicedTransfer. Candle subscriptions follow
the books' pattern and join BookSubscription. `disconnect()` and liveness of the
handshake join Session.

Theorems, in this order: type correctness and `WaitIsAnswerable`,
`AlwaysConnecting` of Session; `OffStaysOff`, `ResubscribeIsLast` of
TradesSubscription; `ReplayNeedsIndexes`, `ConfirmedByReplay` of BookSubscription;
`NumbersDistinct`, `AckMeansReceived` of HighDelivery on top of
`CheckRevdRecords`; the refinement of ReliableTransfer by SlicedTransfer.
