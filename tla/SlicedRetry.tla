----------------------------- MODULE SlicedRetry -----------------------------
(***************************************************************************)
(* When the sender repeats the blocks of its sliced datagrams, and when it *)
(* gives one up: retry_sliced with the clocks of SentSliced.  Each block   *)
(* has the time it was last sent, a datagram the oldest of those times     *)
(* among its unacknowledged blocks, and the whole list a time before which *)
(* nothing needs to be looked at.  A byte limit per writer tick is shared  *)
(* by all datagrams; a block counts as one unit of it.                     *)
(*                                                                         *)
(* Time is counted in writer ticks.  Acknowledgements come at any time,    *)
(* for any blocks that were sent.                                          *)
(***************************************************************************)
EXTENDS Integers, SequencesExt

CONSTANTS
    Dgrams,       \* sliced datagrams
    Size,         \* blocks_count of each
    Rtt,          \* retry_round_trip_delay
    PathDelay,    \* path_delay, longer than the round trip
    Limit,        \* client_limit, in blocks per tick
    MaxRetries,   \* max_retry_count
    MaxTime       \* bound: last tick

ASSUME RetryAssumption ==
    /\ Size \in [Dgrams -> Nat \ {0}]
    /\ Rtt \in Nat /\ PathDelay \in Nat /\ Rtt < PathDelay
    /\ Limit \in Nat \ {0} /\ MaxRetries \in Nat /\ MaxTime \in Nat

Blocks(d) == 0 .. Size[d] - 1

VARIABLES
    now,                  \* time of the last tick
    sending,              \* Client.sending, in the order of the code
    st,                   \* state of each datagram
    last_checked_slices,
    created,              \* history: datagrams created so far
    dropped,              \* history: datagrams given up
    used                  \* history: bytes_sent_at_once of the last tick

vars == <<now, sending, st, last_checked_slices, created, dropped, used>>

NewSent(d) == [piece |-> [b \in Blocks(d) |-> 0],  \* piece_last_checked
               acked |-> {},                       \* ack_flags
               last_checked |-> 0,
               retry_count |-> 0,
               last_inc |-> 0,                     \* last_retry_inc
               tries |-> [b \in Blocks(d) |-> 0],  \* history: times sent
               since |-> 0]                        \* history: last progress

Unacked(d, s) == Blocks(d) \ s.acked

\* refresh_last_checked_from_unacked, for a datagram not fully acknowledged.
Oldest(d, s) == Min({s.piece[b] : b \in Unacked(d, s)})

\* The clock starts past the path delay, as a client's does once a session
\* is up.
Init == /\ now = PathDelay + 1
        /\ sending = <<>>
        /\ st = [d \in Dgrams |-> NewSent(d)]
        /\ last_checked_slices = 0
        /\ created = {}
        /\ dropped = {}
        /\ used = 0

\* Where create_sliced_and_send puts a datagram: fewer blocks go first.
Inserted(d) ==
    LET larger == SelectInSeq(sending, LAMBDA e : Size[e] > Size[d])
    IN  IF larger = 0 THEN Append(sending, d) ELSE InsertAt(sending, larger, d)

\* Mutant: a new datagram waits for the gate of the others.
CreateBehindGate(d) ==
    /\ d \notin created
    /\ created' = created \cup {d}
    /\ sending' = Inserted(d)
    /\ st' = [st EXCEPT ![d].since = now]
    /\ UNCHANGED <<now, last_checked_slices, dropped, used>>

\* The end of create_sliced_and_send.
Create(d) ==
    /\ d \notin created
    /\ created' = created \cup {d}
    /\ sending' = Inserted(d)
    /\ st' = [st EXCEPT ![d].since = now]
    /\ last_checked_slices' = 0
    /\ UNCHANGED <<now, dropped, used>>

\* A datagram that leaves the list takes its state along.
Removed(gone) == SelectSeq(sending, LAMBDA e : e \notin gone)

\* merge_ack_flags and the reset of the retry budget.
Merged(d, flags) == [st[d] EXCEPT !.acked = @ \cup flags, !.retry_count = 0, !.since = now]

\* Mutant: an acknowledgement leaves the datagram's clock as it was.
AckNoRefresh(d, flags) ==
    LET s == Merged(d, flags) IN
    /\ d \in ToSet(sending)
    /\ ~ (flags \subseteq st[d].acked)
    /\ IF Unacked(d, s) = {}
       THEN sending' = Removed({d}) /\ st' = [st EXCEPT ![d] = NewSent(d)]
       ELSE st' = [st EXCEPT ![d] = s] /\ UNCHANGED sending
    /\ UNCHANGED <<now, last_checked_slices, created, dropped, used>>

\* apply_sliced_ack: flags that add nothing are ignored; progress starts the
\* retry budget again.
Ack(d, flags) ==
    LET s == Merged(d, flags) IN
    /\ d \in ToSet(sending)
    /\ ~ (flags \subseteq st[d].acked)
    /\ IF Unacked(d, s) = {}
       THEN sending' = Removed({d}) /\ st' = [st EXCEPT ![d] = NewSent(d)]
       ELSE /\ st' = [st EXCEPT ![d] = [s EXCEPT !.last_checked = Oldest(d, s)]]
            /\ UNCHANGED sending
    /\ UNCHANGED <<now, last_checked_slices, created, dropped, used>>

\* Mutant: every block past the path delay is due, not the oldest alone.
AnyBlockDue(d, s, b, cur) == b \in Unacked(d, s) /\ cur - s.piece[b] > PathDelay

\* block_due_for_retry: only the blocks with the datagram's oldest time.
BlockDue(d, s, b, cur) == /\ b \in Unacked(d, s)
                          /\ s.piece[b] = s.last_checked
                          /\ cur - s.piece[b] > PathDelay

\* Mutant: every tick that repeats a block counts, however soon.
CountsEveryTick(s, new, cur) ==
    /\ s.last_checked # new.last_checked
    /\ \E b \in DOMAIN s.piece : s.piece[b] > 0 /\ new.piece[b] # s.piece[b]

\* should_increment_retry with mark_block_sent's answer: some block went out
\* that had gone out before, the clock moved, and the last count is old.
CountsAsRetry(s, new, cur) == /\ s.last_checked # new.last_checked
                              /\ \E b \in DOMAIN s.piece : s.piece[b] > 0 /\ new.piece[b] # s.piece[b]
                              /\ cur - s.last_inc > PathDelay

\* Mutant: one retry more than allowed.
SpentLate(s) == s.retry_count > MaxRetries + 1

Spent(s) == s.retry_count > MaxRetries

\* One datagram in the loop of retry_sliced at time cur.  acc.used is
\* bytes_sent_at_once, acc.lcs is last_checked_slices.
RetryOne(cur, acc, d) ==
    LET s     == acc.st[d]
        due   == {b \in Blocks(d) : BlockDue(d, s, b, cur)}
        out   == {b \in due : acc.used + Cardinality({c \in due : c < b}) < Limit}
        sent  == [s EXCEPT !.piece = [b \in Blocks(d) |-> IF b \in out THEN cur ELSE s.piece[b]],
                           !.tries = [b \in Blocks(d) |-> s.tries[b] + IF b \in out THEN 1 ELSE 0]]
        fresh == [sent EXCEPT !.last_checked = Oldest(d, sent)]
        final == IF CountsAsRetry(s, fresh, cur)
                 THEN [fresh EXCEPT !.retry_count = @ + 1, !.last_inc = cur] ELSE fresh
    IN  IF cur - s.last_checked <= PathDelay THEN acc
        ELSE [used |-> acc.used + Cardinality(out),
              lcs  |-> Min({acc.lcs, final.last_checked}),
              st   |-> [acc.st EXCEPT ![d] = final],
              gone |-> IF Spent(final) THEN acc.gone \cup {d} ELSE acc.gone]

\* A writer tick: retry_sliced.
Tick ==
    LET cur == now + 1
        end == FoldLeft(LAMBDA acc, d : RetryOne(cur, acc, d),
                        [used |-> 0, lcs |-> cur, st |-> st, gone |-> {}], sending)
    IN
    /\ now < MaxTime
    /\ now' = cur
    /\ IF sending = <<>> \/ cur - last_checked_slices <= Rtt
       THEN used' = 0 /\ UNCHANGED <<sending, st, last_checked_slices, dropped>>
       ELSE /\ used' = end.used
            /\ st' = [d \in Dgrams |-> IF d \in end.gone THEN NewSent(d) ELSE end.st[d]]
            /\ last_checked_slices' = end.lcs
            /\ sending' = Removed(end.gone)
            /\ dropped' = dropped \cup end.gone
    /\ UNCHANGED created

\* Flags for several blocks at once do what those of one after the other do in
\* the same tick.
Next == \/ Tick
        \/ \E d \in Dgrams : \/ Create(d)
                             \/ \E b \in Blocks(d) : st[d].tries[b] > 0 /\ Ack(d, {b})

Spec == Init /\ [][Next]_vars
-----------------------------------------------------------------------------
TypeOK ==
    /\ now \in Nat
    /\ sending \in Seq(Dgrams)
    /\ \A d \in Dgrams : /\ st[d].piece \in [Blocks(d) -> 0 .. now]
                         /\ st[d].acked \subseteq Blocks(d)
                         /\ st[d].last_checked \in 0 .. now
                         /\ st[d].retry_count \in 0 .. MaxRetries
                         /\ st[d].last_inc \in 0 .. now
                         /\ st[d].tries \in [Blocks(d) -> Nat]
                         /\ st[d].since \in 0 .. now
    /\ last_checked_slices \in 0 .. now
    /\ created \subseteq Dgrams /\ dropped \subseteq created
    /\ used \in 0 .. Limit

\* A datagram's clock is the time of its oldest unacknowledged block.  Only
\* blocks with exactly that time are sent again, so a clock that is off by
\* anything stops the datagram for good.
ClockIsOldest == \A d \in ToSet(sending) : st[d].last_checked = Oldest(d, st[d])

\* The gate of last_checked_slices costs a datagram at most a round trip.  In
\* every tick that finds a datagram waiting for longer than the path delay and
\* a round trip, either all of its oldest blocks go out and its clock moves, or
\* the limit is used up.  The gate leaves out of its minimum the datagrams that
\* are not due yet, and one tick sends only one age of a datagram's blocks.
NoTickWasted ==
    [][now' # now =>
         \A d \in ToSet(sending) \cap ToSet(sending') :
            now' - st[d].last_checked > PathDelay + Rtt =>
                st'[d].last_checked > st[d].last_checked \/ used' = Limit]_vars

\* The unacknowledged blocks of a datagram take turns: one that was sent
\* earlier was sent as often as one sent later, or once less.  With the limit
\* cutting a tick short anywhere and acknowledgements taking blocks out of the
\* turn, no block is repeated again before the others were.
BlocksTakeTurns ==
    \A d \in ToSet(sending) : \A b, e \in Unacked(d, st[d]) :
        st[d].piece[b] <= st[d].piece[e] => st[d].tries[e] - st[d].tries[b] \in {0, 1}

\* A datagram is given up only when every block still missing was sent, and
\* not before max_retry_count times the path delay passed since its last
\* progress.  That each block was repeated is not promised: the budget counts
\* path delays, and a datagram with more blocks than fit into one is given up
\* with some blocks sent once.
GivenUpLate ==
    [][\A d \in dropped' \ dropped :
         /\ \A b \in Unacked(d, st[d]) : st[d].tries[b] > 0
         /\ now' - st[d].since > MaxRetries * (PathDelay + 1)]_vars

=============================================================================
