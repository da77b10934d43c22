--------------------------- MODULE SlicedTransfer ---------------------------
(***************************************************************************)
(* Sliced datagrams: a command too large for one UDP packet is cut into    *)
(* blocks, the receiver acknowledges with the set of blocks it holds, and  *)
(* the sender repeats the blocks not acknowledged.                         *)
(*                                                                         *)
(* The receiver is SlicingReceiver (protocol/slicing.rs) with its          *)
(* per-slot repeat clock, driven by the packets the client reads.  The     *)
(* sender is the client's SentSliced bookkeeping (merge_ack_flags,         *)
(* apply_sliced_ack); the core runs the mirror image of both.  When blocks *)
(* are repeated and when the sender gives up is left open here and modelled *)
(* in SlicedRetry.  Blocks and acknowledgements may be lost, duplicated,   *)
(* delayed and reordered.                                                  *)
(***************************************************************************)
EXTENDS Integers, FiniteSets

CONSTANTS
    Dgrams,        \* datagram numbers in use
    MaxBlock,      \* number of the last block of every datagram
    Slots,         \* LAST_RECVD_BUF_SIZE, size of the repeat clock table
    RepeatWindow,  \* TIME_WHEN_CAN_RECEIVE_RPT
    CleanEvery,    \* period of do_cleanup
    MaxTime        \* bound: how long the model runs

ASSUME SlicedAssumption ==
    /\ Dgrams \subseteq Nat
    /\ MaxBlock \in Nat
    /\ Slots \in Nat \ {0}
    /\ RepeatWindow \in Nat
    /\ CleanEvery \in Nat
    /\ MaxTime \in Nat

Blocks == 0 .. MaxBlock
SlotIds == 0 .. Slots - 1
Slot(d) == d % Slots

\* NEVER_RECEIVED_MS: outside the repeat window at time 0.
Never == -RepeatWindow - 1

VARIABLES
    now,            \* monotonic client time
    receiving,      \* blocks held of each datagram, {} when it has no entry
    last_recvd_ts,  \* repeat clock of each slot
    last_cleaned,   \* last_cleaned_received
    sending,        \* datagrams in the sender's list
    ack_flags,      \* blocks of each datagram the sender counts as received
    net,            \* blocks ever sent
    acks,           \* acknowledgements ever sent
    sent, arrivals, confirmed, abandoned,  \* history, see ReliableTransfer
    begun,          \* history: when the reassembly of a datagram last began
    owner,          \* history: datagram that last set a slot's clock
    expired,        \* history: datagrams discarded incomplete because of age
    collided        \* history: datagrams taken for another one in their slot

recv == <<receiving, last_recvd_ts, last_cleaned, arrivals, begun, owner,
          expired, collided>>
send == <<sending, ack_flags, sent, confirmed, abandoned>>
vars == <<now, recv, send, net, acks>>

NoDgram == -1

Init ==
    /\ now = 0
    /\ receiving = [d \in Dgrams |-> {}]
    /\ last_recvd_ts = [i \in SlotIds |-> Never]
    /\ last_cleaned = 0
    /\ sending = {} /\ ack_flags = [d \in Dgrams |-> {}]
    /\ net = {} /\ acks = {}
    /\ sent = {} /\ arrivals = [d \in Dgrams |-> 0]
    /\ confirmed = {} /\ abandoned = {}
    /\ begun = [d \in Dgrams |-> Never]
    /\ owner = [i \in SlotIds |-> NoDgram]
    /\ expired = {} /\ collided = {}

\* Time passes.
Tick == /\ now < MaxTime
        /\ now' = now + 1
        /\ UNCHANGED <<recv, send, net, acks>>

-----------------------------------------------------------------------------
\* The receiver.  Every packet read sets last_online to its time and runs
\* do_cleanup before it is handled.

\* Mutant: the edge of the window counts as outside.
IsOldInclusive(ts, i) == now - ts[i] >= RepeatWindow

\* is_new_datagram, and the test of clear_old.
IsOld(ts, i) == now - ts[i] > RepeatWindow

\* do_cleanup and clear_old: incomplete datagrams whose slot clock is old are
\* dropped, and the clock of their slot starts again.  Of several in one slot
\* only the first goes, as the restarted clock saves the others; which one
\* that is depends on the order of the hash map.
CleanupDue == now - last_cleaned > CleanEvery
OldEntries == {d \in Dgrams : receiving[d] # {} /\ IsOld(last_recvd_ts, Slot(d))}
DropChoices ==
    IF CleanupDue
    THEN {S \in SUBSET OldEntries :
            \A d \in OldEntries : \E e \in S : /\ Slot(e) = Slot(d)
                                               /\ \A f \in S : Slot(f) = Slot(d) => f = e}
    ELSE {{}}
CleanReceiving(drop) == [d \in Dgrams |-> IF d \in drop THEN {} ELSE receiving[d]]
CleanTs(drop) == [i \in SlotIds |->
                    IF \E d \in drop : Slot(d) = i THEN now ELSE last_recvd_ts[i]]
CleanOwner(drop) == [i \in SlotIds |->
                       IF \E d \in drop : Slot(d) = i
                       THEN CHOOSE d \in drop : Slot(d) = i ELSE owner[i]]

\* Mutant: the time of the next cleanup is kept in place of the last one's.
CleanupDeadline == last_cleaned' = IF CleanupDue THEN now + CleanEvery ELSE last_cleaned

Cleanup == last_cleaned' = IF CleanupDue THEN now ELSE last_cleaned

\* A packet that is not a block: of what its handler does only the cleanup
\* before it concerns the receiver.
RecvOther(drop) ==
    /\ receiving' = CleanReceiving(drop)
    /\ last_recvd_ts' = CleanTs(drop)
    /\ Cleanup
    /\ expired' = expired \cup drop
    /\ owner' = CleanOwner(drop)
    /\ UNCHANGED <<now, arrivals, begun, collided, send, net, acks>>

FullAck(d) == [dgram |-> d, flags |-> Blocks]

\* The end of on_new_sliced: a completed datagram is dispatched and loses its
\* entry.
KeptAfterDispatch(held) == IF held = Blocks THEN {} ELSE held

\* on_new_sliced_with_session for block b of datagram d: is_new_datagram,
\* then either a fresh entry, a full acknowledgement for a datagram that has
\* no entry, or one more piece (receive_piece).  An entry is never begun again
\* for another max_block_num: the datagrams have one size, and their numbers
\* are not used again.
RecvBlock(d, b, drop) ==
    LET i      == Slot(d)
        is_new == IsOld(CleanTs(drop), i)
        known  == CleanReceiving(drop)[d] # {}
        held   == {b} \cup IF is_new THEN {} ELSE CleanReceiving(drop)[d]
    IN
    /\ <<d, b>> \in net
    /\ Cleanup
    /\ expired' = expired \cup drop \cup IF is_new /\ known THEN {d} ELSE {}
    /\ \/ /\ is_new \/ known
          /\ last_recvd_ts' = IF is_new THEN [CleanTs(drop) EXCEPT ![i] = now]
                                        ELSE CleanTs(drop)
          /\ owner' = IF is_new THEN [CleanOwner(drop) EXCEPT ![i] = d]
                                ELSE CleanOwner(drop)
          /\ begun' = IF is_new THEN [begun EXCEPT ![d] = now] ELSE begun
          /\ receiving' = [CleanReceiving(drop) EXCEPT
                             ![d] = KeptAfterDispatch(held)]
          /\ arrivals' = IF held = Blocks THEN [arrivals EXCEPT ![d] = @ + 1]
                                          ELSE arrivals
          /\ acks' = acks \cup {[dgram |-> d, flags |-> held]}
          /\ UNCHANGED collided
       \/ /\ ~ is_new
          /\ ~ known
          /\ last_recvd_ts' = CleanTs(drop)
          /\ receiving' = CleanReceiving(drop)
          /\ acks' = acks \cup {FullAck(d)}
          /\ collided' = IF CleanOwner(drop)[i] # d THEN collided \cup {d} ELSE collided
          /\ owner' = CleanOwner(drop)
          /\ UNCHANGED <<arrivals, begun>>
    /\ UNCHANGED <<now, send, net>>

-----------------------------------------------------------------------------
\* The sender.

\* create_sliced_and_send.
StartSend(d) ==
    /\ d \notin sent
    /\ sent' = sent \cup {d}
    /\ sending' = sending \cup {d}
    /\ UNCHANGED <<now, recv, ack_flags, confirmed, abandoned, net, acks>>

\* retry_sliced sends a block that is not acknowledged.
SendBlock(d, b) ==
    /\ d \in sending
    /\ b \notin ack_flags[d]
    /\ net' = net \cup {<<d, b>>}
    /\ UNCHANGED <<now, recv, send, acks>>

\* retry_sliced removes a datagram whose retry budget is used up.
GiveUp(d) ==
    /\ d \in sending
    /\ sending' = sending \ {d}
    /\ abandoned' = abandoned \cup {d}
    /\ UNCHANGED <<now, recv, ack_flags, sent, confirmed, net, acks>>

\* Mutant: the last block does not count.
FullyAckedButOne(flags) == Cardinality(flags) >= MaxBlock

\* Mutant: more than all blocks are wanted.
FullyAckedStrict(flags) == Cardinality(flags) > MaxBlock + 1

\* is_fully_acked.
FullyAcked(flags) == Blocks \subseteq flags

\* apply_sliced_ack: the flags are united; a datagram with all of them set
\* is finished.
RecvAck(a) ==
    /\ a.dgram \in sending
    /\ ack_flags' = [ack_flags EXCEPT ![a.dgram] = @ \cup a.flags]
    /\ IF FullyAcked(ack_flags'[a.dgram])
       THEN /\ sending' = sending \ {a.dgram}
            /\ confirmed' = confirmed \cup {a.dgram}
       ELSE UNCHANGED <<sending, confirmed>>
    /\ UNCHANGED <<now, recv, sent, abandoned, net, acks>>

Next ==
    \/ Tick
    \/ \E drop \in DropChoices :
          \/ RecvOther(drop)
          \/ \E d \in Dgrams, b \in Blocks : RecvBlock(d, b, drop)
    \/ \E d \in Dgrams : \/ StartSend(d)
                         \/ GiveUp(d)
                         \/ \E b \in Blocks : SendBlock(d, b)
    \/ \E a \in acks : RecvAck(a)

Spec == Init /\ [][Next]_vars

\* The network is fair: a block or an acknowledgement sent over and over gets
\* through in the end.  The sender's writer tick keeps repeating.
Fairness ==
    /\ \A d \in Dgrams : WF_vars(StartSend(d))
    /\ \A d \in Dgrams, b \in Blocks :
          /\ WF_vars(SendBlock(d, b))
          /\ WF_vars(\E drop \in DropChoices : RecvBlock(d, b, drop))
    /\ \A d \in Dgrams :
          WF_vars(\E a \in acks : a.dgram = d /\ a.flags \ ack_flags[d] # {} /\ RecvAck(a))

FairSpec == Spec /\ Fairness
-----------------------------------------------------------------------------
TypeOK ==
    /\ now \in 0 .. MaxTime
    /\ receiving \in [Dgrams -> SUBSET Blocks]
    /\ last_recvd_ts \in [SlotIds -> Int]
    /\ last_cleaned \in 0 .. MaxTime
    /\ sending \subseteq Dgrams
    /\ ack_flags \in [Dgrams -> SUBSET Blocks]
    /\ net \subseteq Dgrams \X Blocks
    /\ acks \subseteq [dgram : Dgrams, flags : SUBSET Blocks]
    /\ sent \subseteq Dgrams /\ confirmed \subseteq Dgrams /\ abandoned \subseteq Dgrams
    /\ arrivals \in [Dgrams -> Nat]
    /\ begun \in [Dgrams -> Int]
    /\ owner \in [SlotIds -> Dgrams \cup {NoDgram}]
    /\ expired \subseteq Dgrams /\ collided \subseteq Dgrams

\* A datagram the sender takes as arrived was delivered, unless the receiver
\* discarded it half received because it was older than the repeat window,
\* or took it for another datagram with the same slot.  There is no third
\* way to lose a datagram both ends believe to be done.
LossOnlyByAgeOrCollision ==
    \A d \in confirmed : arrivals[d] > 0 \/ d \in expired \/ d \in collided

\* A full acknowledgement is sent for a datagram that was completed, as the
\* comment at the branch of on_new_sliced_with_session has it.
FullAckMeansCompleted ==
    \A d \in Dgrams : FullAck(d) \in acks => arrivals[d] > 0

\* A datagram that was delivered is not put together again from late copies
\* of its blocks within the repeat window of its first block, whatever other
\* datagrams did to the clock of its slot in between.
NoRepeatInWindow ==
    [][\A d \in Dgrams :
         arrivals[d] > 0 /\ begun'[d] # begun[d] => begun'[d] - begun[d] > RepeatWindow]_vars

\* A datagram that is sent is delivered and confirmed, or its sender gave up.
EventuallySettled ==
    \A d \in Dgrams : d \in sent ~> (d \in abandoned \/ (d \in confirmed /\ arrivals[d] > 0))

\* As long as the repeat window does not run out and no two datagrams share
\* a slot, sliced transfer is a reliable transfer.
Reliable == INSTANCE ReliableTransfer
IsReliable == Reliable!ASpec
=============================================================================
