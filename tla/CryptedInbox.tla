---------------------------- MODULE CryptedInbox ----------------------------
(***************************************************************************)
(* The receiving end of encrypted commands: the replay window of           *)
(* DataReadState, the commands that arrive before MPC_Fine and are kept    *)
(* aside (pre_auth_crypted), and what the reconnect code does to both.     *)
(*                                                                         *)
(* The network may lose, duplicate and reorder: any message number may     *)
(* arrive at any time and any number of times.  A message of an earlier    *)
(* hard session is not an input, because its ciphertext does not decrypt   *)
(* under the keys of the current one.                                      *)
(*                                                                         *)
(* The loop over the deferred commands runs inside the handler of MPC_Fine.*)
(* It is split into one step per command; while `draining' holds nothing   *)
(* else can happen.                                                        *)
(***************************************************************************)
EXTENDS Slider

CONSTANTS MsgNums,      \* message numbers the server uses in a session
          MaxDeferred   \* bound: copies of one number kept before Fine

ASSUME InboxAssumption == /\ MsgNums \subseteq Nat
                          /\ MaxDeferred \in Nat

VARIABLES
    authorized,     \* Client.authorized
    awaiting_fine,  \* hello_wait_state.allows_fine(), session keys known
    has_session,    \* keys were negotiated and not given up (server_token # 0)
    slider,         \* recv.data_read_state.slider
    deferred,       \* pre_auth_crypted: how many copies of each number
    draining,       \* inside drain_deferred_pre_auth_crypted
    delivered       \* history: deliveries of each number in this session

vars == <<authorized, awaiting_fine, has_session, slider, deferred, draining,
          delivered>>

NoneDeferred  == [n \in MsgNums |-> 0]
NoneDelivered == [n \in MsgNums |-> 0]

\* PRE_AUTH_CRYPTED_MAX_MSG_NUM: the last number of a fresh window.
PreAuthMax == SliderLen * WordBits - 1

Init ==
    /\ authorized = FALSE
    /\ awaiting_fine = FALSE
    /\ has_session = FALSE
    /\ slider = NewSlider
    /\ deferred = NoneDeferred
    /\ draining = FALSE
    /\ delivered = NoneDelivered

\* What check_revd and the delivery after it do to the window and the
\* history for one decrypted message.
Accept(n) ==
    /\ slider' = AfterCheckRevd(slider, n)
    /\ delivered' = IF CheckRevd(slider, n)
                    THEN [delivered EXCEPT ![n] = @ + 1] ELSE delivered

\* A crypted datagram of an authorized session: decrypt_command, then
\* finish_decoded_command.
RecvCrypted(n) ==
    /\ ~ draining
    /\ authorized
    /\ Accept(n)
    /\ UNCHANGED <<authorized, awaiting_fine, has_session, deferred, draining>>

\* defer_crypted_before_auth: kept aside while Fine is awaited and the
\* number is small enough.  Otherwise the datagram is dropped (a stutter).
DeferCrypted(n) ==
    /\ ~ draining
    /\ ~ authorized
    /\ awaiting_fine
    /\ n <= PreAuthMax
    /\ deferred[n] < MaxDeferred
    /\ deferred' = [deferred EXCEPT ![n] = @ + 1]
    /\ UNCHANGED <<authorized, awaiting_fine, has_session, slider, draining,
                   delivered>>

\* on_fine and apply_fine_auth_done.
OnFine ==
    /\ ~ draining
    /\ awaiting_fine
    /\ authorized' = TRUE
    /\ awaiting_fine' = FALSE
    /\ draining' = (deferred # NoneDeferred)
    /\ UNCHANGED <<has_session, slider, deferred, delivered>>

\* Mutant: the drain takes a number that was not deferred.
DrainAny(n) ==
    /\ draining
    /\ \A m \in MsgNums : deferred[m] > 0 => n <= m
    /\ Accept(n)
    /\ deferred' = [deferred EXCEPT ![n] = @ - 1]
    /\ draining' = (deferred' # NoneDeferred)
    /\ UNCHANGED <<authorized, awaiting_fine, has_session>>

\* Mutant: the loop ends at the first duplicate instead of going on.
DrainStopsAtDuplicate(n) ==
    /\ draining
    /\ deferred[n] > 0
    /\ \A m \in MsgNums : deferred[m] > 0 => n <= m
    /\ Accept(n)
    /\ deferred' = IF CheckRevd(slider, n) THEN [deferred EXCEPT ![n] = @ - 1]
                                           ELSE NoneDeferred
    /\ draining' = (deferred' # NoneDeferred)
    /\ UNCHANGED <<authorized, awaiting_fine, has_session>>

\* One round of drain_deferred_pre_auth_crypted: the commands are sorted by
\* number, and each goes through check_revd.
DrainOne(n) ==
    /\ draining
    /\ deferred[n] > 0
    /\ \A m \in MsgNums : deferred[m] > 0 => n <= m
    /\ Accept(n)
    /\ deferred' = [deferred EXCEPT ![n] = @ - 1]
    /\ draining' = (deferred' # NoneDeferred)
    /\ UNCHANGED <<authorized, awaiting_fine, has_session>>

\* full_reset as begin_primary_hello, apply_want_new_hello and the hard
\* do_force_disconnect call it.
HardReset ==
    /\ ~ draining
    /\ authorized' = FALSE
    /\ awaiting_fine' = FALSE
    /\ has_session' = FALSE
    /\ slider' = NewSlider
    /\ deferred' = NoneDeferred
    /\ delivered' = NoneDelivered
    /\ UNCHANGED draining

\* on_who_are_you: the keys of a new session; PrimaryImFriendSent.
OnWhoAreYou ==
    /\ ~ draining
    /\ ~ has_session
    /\ has_session' = TRUE
    /\ awaiting_fine' = TRUE
    /\ UNCHANGED <<authorized, slider, deferred, draining, delivered>>

\* send_rebind_hello_again with a new window: from an authorized session
\* that went silent or was asked to, or after a soft disconnect.
Rebind ==
    /\ ~ draining
    /\ has_session
    /\ ~ awaiting_fine
    /\ awaiting_fine' = TRUE
    /\ deferred' = NoneDeferred
    /\ UNCHANGED <<authorized, has_session, slider, draining, delivered>>

\* Mutant: the soft path resets the window as the hard one does.
SoftDisconnectResets ==
    /\ ~ draining
    /\ awaiting_fine
    /\ has_session
    /\ authorized' = FALSE
    /\ awaiting_fine' = FALSE
    /\ slider' = NewSlider
    /\ UNCHANGED <<has_session, deferred, draining, delivered>>

\* check_reconnect_timeout while rebinding, then the soft do_force_disconnect:
\* the socket is recreated, the window and the deferred commands stay.
SoftDisconnect ==
    /\ ~ draining
    /\ awaiting_fine
    /\ has_session
    /\ authorized' = FALSE
    /\ awaiting_fine' = FALSE
    /\ UNCHANGED <<has_session, slider, deferred, draining, delivered>>

Next ==
    \/ \E n \in MsgNums : RecvCrypted(n) \/ DeferCrypted(n) \/ DrainOne(n)
    \/ OnFine
    \/ HardReset
    \/ OnWhoAreYou
    \/ Rebind
    \/ SoftDisconnect

Spec == Init /\ [][Next]_vars
-----------------------------------------------------------------------------
TypeOK ==
    /\ authorized \in BOOLEAN
    /\ awaiting_fine \in BOOLEAN
    /\ has_session \in BOOLEAN
    /\ slider \in Windows
    /\ deferred \in [MsgNums -> Nat]
    /\ draining \in BOOLEAN
    /\ delivered \in [MsgNums -> Nat]

\* No message is handed to the application twice in a hard session, whatever
\* the network duplicates, and also when one copy came before Fine and one
\* after it, or on both sides of a soft reconnect, which keeps the window.
AtMostOnce == \A n \in MsgNums : delivered[n] <= 1

\* check_revd's window is exact: in it, a bit is set just when the message
\* was delivered, so a fresh message is never taken for a replay and a
\* deferred command that has not been delivered does not count as received.
WindowExact ==
    \A n \in MsgNums : InWindow(slider, n) => (IsSet(slider, n) <=> delivered[n] > 0)

\* What the server reads off the bitmap of build_ack_half when it treats it
\* the way this client treats a server's bitmap: the messages confirmed are
\* the delivered ones in the tail half of the window.
AckExact ==
    LET seen == ApplyAck(NewSlider, BuildAckHalf(slider)) IN
    \A n \in MsgNums :
        AckConfirms(seen, n) <=>
            /\ n >= slider.start_num + (SliderLen - Half) * WordBits
            /\ delivered[n] > 0

\* Every message that Fine finds deferred and that is new and not behind the
\* window is delivered by the drain: no step of it refuses such a message,
\* moves the window past it or forgets it.
DrainLosesNothing ==
    [][\A n \in MsgNums :
         (draining /\ deferred[n] > 0 /\ delivered[n] = 0 /\ n >= slider.start_num)
         => \/ delivered'[n] = 1
            \/ deferred'[n] > 0 /\ n >= slider'.start_num]_vars
=============================================================================
