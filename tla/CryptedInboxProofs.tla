------------------------- MODULE CryptedInboxProofs -------------------------
(***************************************************************************)
(* CryptedInbox delivers each message at most once, for every window size  *)
(* and every set of message numbers.                                       *)
(***************************************************************************)
EXTENDS CryptedInbox, SliderTheorems

\* The messages delivered in the current session.
DeliveredSet == {n \in MsgNums : delivered[n] > 0}

\* Only numbers of a fresh window are kept before Fine.
DeferredSmall == \A n \in MsgNums : deferred[n] > 0 => n <= PreAuthMax

\* The inductive invariant: neither AtMostOnce nor WindowExact is inductive
\* alone.  The window must also be aligned, for sliding to shift whole words,
\* and nothing beyond its end may have been delivered, for the words that
\* sliding brings in to be rightly empty.
IInv == /\ TypeOK
        /\ AtMostOnce
        /\ Aligned(slider)
        /\ Represents(slider, DeliveredSet)
        /\ DeferredSmall

\* Initially, and after a hard reset, nothing is delivered and the window is
\* fresh.
LEMMA FreshIInv ==
    ASSUME slider = NewSlider, delivered = NoneDelivered
    PROVE  /\ slider \in Windows
           /\ delivered \in [MsgNums -> Nat]
           /\ AtMostOnce
           /\ Aligned(slider)
           /\ Represents(slider, DeliveredSet)
<1>1. delivered \in [MsgNums -> Nat] /\ AtMostOnce /\ DeliveredSet = {}
  BY DEF NoneDelivered, AtMostOnce, DeliveredSet
<1> QED BY <1>1, NewSliderEmpty

\* Passing one message through check_revd keeps the invariant: it is
\* delivered only when the window, which records the deliveries, is silent.
LEMMA AcceptIInv ==
    ASSUME IInv, NEW n \in MsgNums, Accept(n)
    PROVE  /\ slider' \in Windows
           /\ delivered' \in [MsgNums -> Nat]
           /\ AtMostOnce'
           /\ Aligned(slider')
           /\ Represents(slider', DeliveredSet')
<1> USE InboxAssumption
<1>0. n \in Nat /\ DeliveredSet \in SUBSET Nat
  BY DEF DeliveredSet
<1>1. slider \in Windows /\ Aligned(slider) /\ Represents(slider, DeliveredSet)
  BY DEF IInv, TypeOK
<1>2. /\ slider' \in Windows
      /\ Aligned(slider')
      /\ CheckRevd(slider, n) => n \notin DeliveredSet
      /\ Represents(slider', IF CheckRevd(slider, n)
                             THEN DeliveredSet \cup {n} ELSE DeliveredSet)
  BY <1>0, <1>1, CheckRevdRecords DEF Accept
<1>3. CASE CheckRevd(slider, n)
  <2>1. delivered' = [delivered EXCEPT ![n] = @ + 1] /\ delivered \in [MsgNums -> Nat]
    BY <1>3 DEF Accept, IInv, TypeOK
  <2>2. delivered[n] = 0
    BY <1>2, <1>3, <2>1 DEF DeliveredSet
  <2>3. DeliveredSet' = DeliveredSet \cup {n}
    BY <2>1, <2>2 DEF DeliveredSet
  <2>4. delivered' \in [MsgNums -> Nat] /\ AtMostOnce'
    BY <2>1, <2>2 DEF IInv, AtMostOnce
  <2> QED BY <1>2, <1>3, <2>3, <2>4
<1>4. CASE ~ CheckRevd(slider, n)
  <2>1. delivered' = delivered
    BY <1>4 DEF Accept
  <2>2. DeliveredSet' = DeliveredSet /\ AtMostOnce'
    BY <2>1 DEF DeliveredSet, IInv, AtMostOnce
  <2> QED BY <1>2, <1>4, <2>1, <2>2 DEF IInv, TypeOK
<1> QED BY <1>3, <1>4

\* Every step of the receiver preserves the inductive invariant.
LEMMA NextIInv == IInv /\ [Next]_vars => IInv'
<1> SUFFICES ASSUME IInv, [Next]_vars PROVE IInv'
  OBVIOUS
<1> USE InboxAssumption
<1>0. /\ NoneDeferred \in [MsgNums -> Nat]
      /\ TypeOK
  BY DEF NoneDeferred, IInv
<1>1. ASSUME NEW n \in MsgNums, RecvCrypted(n) PROVE IInv'
  <2>1. Accept(n) BY <1>1 DEF RecvCrypted
  <2>2. /\ slider' \in Windows /\ delivered' \in [MsgNums -> Nat] /\ AtMostOnce'
        /\ Aligned(slider') /\ Represents(slider', DeliveredSet')
    BY <2>1, AcceptIInv
  <2> QED BY <1>0, <1>1, <2>2 DEF IInv, TypeOK, RecvCrypted, DeferredSmall
<1>2. ASSUME NEW n \in MsgNums, DrainOne(n) PROVE IInv'
  <2>1. Accept(n) BY <1>2 DEF DrainOne
  <2>2. /\ slider' \in Windows /\ delivered' \in [MsgNums -> Nat] /\ AtMostOnce'
        /\ Aligned(slider') /\ Represents(slider', DeliveredSet')
    BY <2>1, AcceptIInv
  <2>3. deferred' \in [MsgNums -> Nat]
    BY <1>0, <1>2 DEF TypeOK, DrainOne
  <2> QED BY <1>0, <1>2, <2>2, <2>3 DEF IInv, TypeOK, DrainOne, DeferredSmall
<1>3. CASE HardReset
  <2>1. /\ slider' = NewSlider /\ delivered' = NoneDelivered
    BY <1>3 DEF HardReset
  <2>2. DeliveredSet' = {}
    BY <2>1 DEF DeliveredSet, NoneDelivered
  <2>3. delivered' \in [MsgNums -> Nat] /\ AtMostOnce'
    BY <2>1 DEF NoneDelivered, AtMostOnce
  <2>4. slider' \in Windows /\ Aligned(slider') /\ Represents(slider', DeliveredSet')
    BY <2>1, <2>2, NewSliderEmpty
  <2>5. deferred' = NoneDeferred
    BY <1>3 DEF HardReset
  <2>6. DeferredSmall'
    BY <2>5 DEF DeferredSmall, NoneDeferred
  <2> QED BY <1>0, <1>3, <2>3, <2>4, <2>5, <2>6 DEF IInv, TypeOK, HardReset
<1>4. ASSUME UNCHANGED <<slider, delivered>>, TypeOK', DeferredSmall' PROVE IInv'
  BY <1>4 DEF IInv, AtMostOnce, DeliveredSet
<1>5. ASSUME NEW n \in MsgNums, DeferCrypted(n) PROVE IInv'
  BY <1>0, <1>4, <1>5 DEF TypeOK, DeferCrypted, DeferredSmall, IInv
<1>6. CASE OnFine
  BY <1>0, <1>4, <1>6 DEF TypeOK, OnFine, DeferredSmall, IInv
<1>7. CASE OnWhoAreYou
  BY <1>0, <1>4, <1>7 DEF TypeOK, OnWhoAreYou, DeferredSmall, IInv
<1>8. CASE Rebind
  BY <1>0, <1>4, <1>8 DEF TypeOK, Rebind, DeferredSmall, NoneDeferred
<1>9. CASE SoftDisconnect
  BY <1>0, <1>4, <1>9 DEF TypeOK, SoftDisconnect, DeferredSmall, IInv
<1>10. CASE UNCHANGED vars
  BY <1>0, <1>4, <1>10 DEF TypeOK, vars, DeferredSmall, IInv
<1> QED BY <1>1, <1>2, <1>3, <1>5, <1>6, <1>7, <1>8, <1>9, <1>10 DEF Next

\* The inductive invariant holds in every reachable state.
THEOREM Invariance == Spec => []IInv
<1>1. Init => IInv
  <2> SUFFICES ASSUME Init PROVE IInv
    OBVIOUS
  <2>1. slider = NewSlider /\ delivered = NoneDelivered
    BY DEF Init
  <2>2. deferred \in [MsgNums -> Nat] /\ DeferredSmall
    BY DEF Init, NoneDeferred, DeferredSmall
  <2>3. TypeOK
    BY <2>1, <2>2, FreshIInv DEF Init, TypeOK
  <2> QED BY <2>1, <2>2, <2>3, FreshIInv DEF IInv
<1> QED BY <1>1, NextIInv, PTL DEF Spec

\* The types of the receiver's variables, for all constants.
THEOREM TypeCorrect == Spec => []TypeOK
BY Invariance, PTL DEF IInv

\* No encrypted message is delivered twice in a hard session: the replay
\* window of check_revd, the deferral before Fine and the soft reconnect
\* together never let a duplicate through.
THEOREM DeliveryAtMostOnce == Spec => []AtMostOnce
BY Invariance, PTL DEF IInv

\* A bit of the replay window is set just when its message was delivered.
THEOREM WindowIsExact == Spec => []WindowExact
<1>1. IInv => WindowExact
  <2> SUFFICES ASSUME IInv PROVE WindowExact
    OBVIOUS
  <2>1. Represents(slider, DeliveredSet)
    BY DEF IInv
  <2> QED BY <2>1, InboxAssumption DEF Represents, WindowExact, DeliveredSet
<1> QED BY <1>1, Invariance, PTL

\* A number of a fresh window never makes a window slide.
LEMMA SmallDoesNotSlide ==
    ASSUME NEW s \in Windows, Aligned(s), NEW n \in Nat, n <= PreAuthMax
    PROVE  AfterCheckRevd(s, n).start_num = s.start_num
<1> USE SliderAssumption
<1>1. PICK p \in Nat : s.start_num = p * WordBits
  BY DEF Aligned
<1>2. s.start_num \div WordBits = p
  <2>1. (p * WordBits + 0) \div WordBits = p
    BY DivUnique
  <2> QED BY <1>1, <2>1
<1>3. n \div WordBits \in 0 .. SliderLen - 1
  <2>1. n < SliderLen * WordBits
    BY DEF PreAuthMax
  <2> QED BY <2>1, WordAndBit DEF WordOf, WordIndex
<1>4. ~ (SlideBy(s, n) > 0)
  BY <1>2, <1>3 DEF SlideBy
<1>5. Slide(s, n) = s
  BY <1>4 DEF Slide
<1> QED BY <1>5, SetBitSets DEF AfterCheckRevd

\* drain_deferred_pre_auth_crypted delivers every deferred message that is
\* new and not behind the window.
THEOREM DrainIsComplete == Spec => DrainLosesNothing
<1> USE InboxAssumption
<1> DEFINE Kept == \A n \in MsgNums :
         (draining /\ deferred[n] > 0 /\ delivered[n] = 0 /\ n >= slider.start_num)
         => \/ delivered'[n] = 1
            \/ deferred'[n] > 0 /\ n >= slider'.start_num
<1>1. ASSUME IInv, [Next]_vars PROVE [Kept]_vars
  <2>1. SUFFICES ASSUME Next, draining, NEW n \in MsgNums, deferred[n] > 0,
                        delivered[n] = 0, n >= slider.start_num
                 PROVE  \/ delivered'[n] = 1
                        \/ deferred'[n] > 0 /\ n >= slider'.start_num
    BY <1>1
  <2>2. PICK m \in MsgNums : DrainOne(m)
    BY <2>1 DEF Next, RecvCrypted, DeferCrypted, OnFine, HardReset,
                OnWhoAreYou, Rebind, SoftDisconnect
  <2>3. /\ slider \in Windows /\ Aligned(slider)
        /\ Represents(slider, DeliveredSet)
        /\ DeliveredSet \in SUBSET Nat
        /\ m \in Nat /\ n \in Nat /\ m <= PreAuthMax
        /\ deferred \in [MsgNums -> Nat] /\ delivered \in [MsgNums -> Nat]
    BY <1>1, <2>2 DEF IInv, TypeOK, DrainOne, DeferredSmall, DeliveredSet
  <2>4. slider' = AfterCheckRevd(slider, m) /\ slider'.start_num = slider.start_num
    BY <2>2, <2>3, SmallDoesNotSlide DEF DrainOne, Accept
  <2>5. CASE m # n
    BY <2>1, <2>2, <2>3, <2>4, <2>5 DEF DrainOne
  <2>6. CASE m = n
    <3>1. n \notin DeliveredSet
      BY <2>1 DEF DeliveredSet
    <3>2. ~ CheckRevd(slider, n) => n \in DeliveredSet \/ n < AfterCheckRevd(slider, n).start_num
      BY <2>3, CheckRevdRecords
    <3>3. slider.start_num \in Nat
      BY <2>3 DEF Windows
    <3>4. CheckRevd(slider, n)
      BY <3>1, <3>2, <3>3, <2>1, <2>3, <2>4, <2>6
    <3> QED BY <3>4, <2>1, <2>2, <2>3, <2>6 DEF DrainOne, Accept
  <2> QED BY <2>5, <2>6
<1> QED BY <1>1, Invariance, PTL DEF Spec, DrainLosesNothing
=============================================================================
