------------------------------- MODULE Slider -------------------------------
(***************************************************************************)
(* The sliding bit window of protocol/slider.rs.  A window of SliderLen    *)
(* words of WordBits bits each; bit b of word w stands for the message     *)
(* number start_num + w * WordBits + b.  The receiver of encrypted         *)
(* messages uses one to refuse replays and to build the acknowledgement    *)
(* it sends with a Ping; the sender keeps the acknowledgement it received  *)
(* in another one.                                                         *)
(*                                                                         *)
(* A word is the set of its bits that are set.  In the code SliderLen and  *)
(* WordBits are both 64.  The `epoch' field is left out: nothing reads it. *)
(***************************************************************************)
EXTENDS Integers

CONSTANTS SliderLen,    \* words in a window, SLIDER_LEN
          WordBits      \* bits in a word

ASSUME SliderAssumption == /\ SliderLen \in Nat \ {0}
                           /\ WordBits \in Nat \ {0}

WordIndex == 0 .. SliderLen - 1
BitIndex  == 0 .. WordBits - 1
Half      == SliderLen \div 2

Windows == [start_num    : Nat,
            bit_field    : [WordIndex -> SUBSET BitIndex],
            has_new_data : BOOLEAN,
            r_count      : Int]

NewSlider == [start_num    |-> 0,
              bit_field    |-> [w \in WordIndex |-> {}],
              has_new_data |-> FALSE,
              r_count      |-> 0]

\* `diff' of check_revd: by how many words the window must move forward for
\* message number num to fall into its last word.
SlideBy(s, num) ==
    (num \div WordBits) - (s.start_num \div WordBits) - SliderLen + 1

\* Mutant: the tail keeps what copy_within leaves in it.
SlideKeepsTail(s, num) ==
    LET diff == SlideBy(s, num) IN
    IF diff > 0
    THEN [s EXCEPT
            !.start_num = ((num \div WordBits) - SliderLen + 1) * WordBits,
            !.bit_field = [w \in WordIndex |->
                             IF w + diff \in WordIndex
                             THEN s.bit_field[w + diff] ELSE s.bit_field[w]]]
    ELSE s

\* The first half of check_revd: the words still covered move to the front
\* and the tail is zeroed.
Slide(s, num) ==
    LET diff == SlideBy(s, num) IN
    IF diff > 0
    THEN [s EXCEPT
            !.start_num = ((num \div WordBits) - SliderLen + 1) * WordBits,
            !.bit_field = [w \in WordIndex |->
                             IF w + diff \in WordIndex
                             THEN s.bit_field[w + diff] ELSE {}]]
    ELSE s

\* The word and the bit of an offset into the window.
WordOf(d) == d \div WordBits
BitOf(d)  == d % WordBits

InWindow(s, num) == /\ num >= s.start_num
                    /\ num - s.start_num < SliderLen * WordBits

IsSet(s, num) ==
    BitOf(num - s.start_num) \in s.bit_field[WordOf(num - s.start_num)]

SetBit(s, num) ==
    [s EXCEPT !.bit_field[WordOf(num - s.start_num)] =
                  @ \cup {BitOf(num - s.start_num)}]

\* check_revd(num): its answer, and the window it leaves behind.
CheckRevd(s, num) == /\ InWindow(Slide(s, num), num)
                     /\ ~ IsSet(Slide(s, num), num)

AfterCheckRevd(s, num) ==
    IF InWindow(Slide(s, num), num) THEN SetBit(Slide(s, num), num)
                                    ELSE Slide(s, num)

\* build_ack_half: the tail half of the window without its trailing empty
\* words.  `words' is a function on 0 .. count - 1.
AckCount(s) ==
    CHOOSE c \in 0 .. Half :
        /\ \A i \in c .. Half - 1 : s.bit_field[SliderLen - Half + i] = {}
        /\ c > 0 => s.bit_field[SliderLen - Half + c - 1] # {}

\* Mutant: the base of the whole window with the words of its tail.
BuildAckHalfWrongBase(s) ==
    [ack_start |-> s.start_num,
     count     |-> AckCount(s),
     words     |-> [i \in 0 .. AckCount(s) - 1 |->
                       s.bit_field[SliderLen - Half + i]]]

BuildAckHalf(s) ==
    [ack_start |-> s.start_num + (SliderLen - Half) * WordBits,
     count     |-> AckCount(s),
     words     |-> [i \in 0 .. AckCount(s) - 1 |->
                       s.bit_field[SliderLen - Half + i]]]

\* apply_ping_ack_bitmap: a bitmap without words is ignored; any other
\* overwrites the whole window.
ApplyAck(s, ack) ==
    IF ack.count = 0 THEN s
    ELSE [start_num    |-> ack.ack_start,
          bit_field    |-> [w \in WordIndex |->
                              IF w < ack.count THEN ack.words[w] ELSE {}],
          has_new_data |-> TRUE,
          r_count      |-> ack.count]

\* ack_confirms_msg.
AckConfirms(s, num) ==
    /\ num >= s.start_num
    /\ num - s.start_num < (IF s.r_count > 0 THEN s.r_count ELSE 0) * WordBits
    /\ IsSet(s, num)
=============================================================================
