-------------------------- MODULE ReliableTransfer --------------------------
(***************************************************************************)
(* What sliced transfer promises the application on both ends: a datagram  *)
(* handed over is delivered at most once, and its sender counts it as      *)
(* arrived only after it was delivered.  It may also give up.              *)
(***************************************************************************)
EXTENDS Naturals

CONSTANT Dgrams

VARIABLES sent,        \* datagrams handed over for sending
          arrivals,    \* how often each datagram was delivered
          confirmed,   \* datagrams the sender counts as arrived
          abandoned    \* datagrams the sender gave up

avars == <<sent, arrivals, confirmed, abandoned>>

AInit == /\ sent = {}
         /\ arrivals = [d \in Dgrams |-> 0]
         /\ confirmed = {}
         /\ abandoned = {}

ASend(d) == /\ d \notin sent
            /\ sent' = sent \cup {d}
            /\ UNCHANGED <<arrivals, confirmed, abandoned>>

ADeliver(d) == /\ d \in sent
               /\ arrivals[d] = 0
               /\ arrivals' = [arrivals EXCEPT ![d] = 1]
               /\ UNCHANGED <<sent, confirmed, abandoned>>

AConfirm(d) == /\ arrivals[d] = 1
               /\ d \notin abandoned
               /\ confirmed' = confirmed \cup {d}
               /\ UNCHANGED <<sent, arrivals, abandoned>>

AAbandon(d) == /\ d \in sent \ confirmed
               /\ abandoned' = abandoned \cup {d}
               /\ UNCHANGED <<sent, arrivals, confirmed>>

ANext == \E d \in Dgrams : ASend(d) \/ ADeliver(d) \/ AConfirm(d) \/ AAbandon(d)

ASpec == AInit /\ [][ANext]_avars
=============================================================================
