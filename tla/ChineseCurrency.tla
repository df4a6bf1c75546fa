--------------------------- MODULE ChineseCurrency ---------------------------
(***************************************************************************)
(* Amounts written in capitals, as receipts and contracts print them:      *)
(* chinese-currency.ts. A text is a sequence of signs. The signs 0 to 9    *)
(* are 零 to 玖, a unit 拾, 佰, 仟, 万, 亿 is its value, and what is not a  *)
(* number is negative. An amount is given as its sections of four digits   *)
(* and its cents, after Math.round; its digits are edited one at a time.   *)
(***************************************************************************)
EXTENDS Integers, SequencesExt

CONSTANTS
    Sections,      \* the sections of four digits
    TopSections,   \* those of the highest section, which TLC's integers bound
    Decimals       \* the cents

DigitsAssumption ==
    /\ 0 \in Sections /\ Sections \subseteq 0 .. 9999
    /\ TopSections \subseteq 0 .. 20 /\ Decimals \subseteq 0 .. 99

VARIABLE amount

Yuan == -1
Whole == -2
Jiao == -3
Fen == -4
Minus == -5
Zero == <<0>>

Small(i) == IF i = 0 THEN <<>> ELSE <<10 ^ i>>
Large(i) == IF i = 0 THEN <<>> ELSE <<10000 ^ i>>

If(condition, text) == IF condition THEN text ELSE <<>>
-----------------------------------------------------------------------------
(* The loops go from the last digit, or section, to the first; leading     *)
(* zeros, at which they stop, would change nothing any more.               *)
Begin == [text |-> <<>>, pending |-> FALSE]

ConvertSection(section) ==
    LET Digit(read, i) ==
            LET digit == (section \div 10 ^ i) % 10 IN
            IF digit = 0
            THEN [read EXCEPT !.pending = @ \/ read.text # <<>>]
            ELSE [text |-> If(read.pending, Zero) \o <<digit>> \o Small(i) \o read.text,
                  pending |-> FALSE]
    IN  FoldLeft(Digit, Begin, <<0, 1, 2, 3>>).text

(* /零+/g and /零$/g                                                        *)
\* Mutant: only one of the two replacements is made.
MutantTidy(text) ==
    IF text # <<>> /\ Last(text) = 0 THEN Front(text) ELSE text

Tidy(text) ==
    LET Once(read, sign) ==
            IF sign = 0 /\ read # <<>> /\ Last(read) = 0 THEN read ELSE Append(read, sign)
        single == FoldLeft(Once, <<>>, text)
    IN  IF single # <<>> /\ Last(single) = 0 THEN Front(single) ELSE single

\* Mutant: the first section that is written gets no unit, nor does 0 a sign.
MutantConvertInteger(sections) ==
    LET Section(read, i) ==
            IF sections[i] = 0
            THEN [read EXCEPT !.pending = @ \/ read.text # <<>>]
            ELSE [text |-> ConvertSection(sections[i])
                             \o (IF read.text = <<>> THEN <<>> ELSE Large(i - 1))
                             \o If(read.pending, Zero) \o read.text,
                  pending |-> sections[i] < 1000]
    IN  Tidy(FoldLeft(Section, Begin, <<1, 2, 3>>).text)

ConvertInteger(sections) ==
    LET Section(read, i) ==
            IF sections[i] = 0
            THEN [read EXCEPT !.pending = @ \/ read.text # <<>>]
            ELSE [text |-> ConvertSection(sections[i]) \o Large(i - 1)
                             \o If(read.pending, Zero) \o read.text,
                  pending |-> sections[i] < 1000]
    IN  IF \A i \in DOMAIN sections : sections[i] = 0 THEN Zero
        ELSE Tidy(FoldLeft(Section, Begin, <<1, 2, 3>>).text)

ToChineseCurrencyUppercase(a) ==
    LET jiao == a.decimal \div 10
        fen == a.decimal % 10
        some == \E i \in DOMAIN a.sections : a.sections[i] > 0
    IN  If(a.negative, <<Minus>>) \o ConvertInteger(a.sections) \o <<Yuan>>
          \o If(a.decimal = 0, <<Whole>>)
          \o If(jiao > 0, <<jiao, Jiao>>)
          \o If(fen > 0, If(jiao = 0 /\ some, Zero) \o <<fen, Fen>>)
-----------------------------------------------------------------------------
Init == amount = [sections |-> <<0, 0, 0>>, decimal |-> 0, negative |-> FALSE]

Edit ==
    \/ \E i \in {1, 2}, s \in Sections : amount' = [amount EXCEPT !.sections[i] = s]
    \/ \E s \in TopSections : amount' = [amount EXCEPT !.sections[3] = s]
    \/ \E d \in Decimals : amount' = [amount EXCEPT !.decimal = d]
    \/ amount' = [amount EXCEPT !.negative = ~@]

Spec == Init /\ [][Edit]_amount

Text == ToChineseCurrencyUppercase(amount)

(* How a clerk reads the text: a digit counts for the unit behind it, a    *)
(* large unit for all that was read since the last one.                    *)
Reading(text) ==
    LET Sign(read, sign) ==
            CASE sign = Minus -> [read EXCEPT !.negative = TRUE]
              [] sign \in 0 .. 9 -> [read EXCEPT !.digit = sign]
              [] sign \in {10, 100, 1000} ->
                    [read EXCEPT !.section = @ + read.digit * sign, !.digit = 0]
              [] sign \in {10000, 100000000, Yuan} ->
                    [read EXCEPT !.yuan = @ + (read.section + read.digit)
                                                * (IF sign = Yuan THEN 1 ELSE sign),
                                 !.section = 0, !.digit = 0]
              [] sign = Jiao -> [read EXCEPT !.cents = 10 * read.digit]
              [] sign = Fen -> [read EXCEPT !.cents = @ + read.digit]
              [] OTHER -> read
    IN  FoldLeft(Sign, [yuan |-> 0, section |-> 0, digit |-> 0, cents |-> 0, negative |-> FALSE],
                 text)

(* The text reads as the amount it was made from, whichever of its digits  *)
(* and sections are zero, so two amounts never have the same text.         *)
ReadsBack ==
    LET read == Reading(Text) IN
    /\ read.yuan = amount.sections[1] + 10000 * amount.sections[2]
                     + 100000000 * amount.sections[3]
    /\ read.cents = amount.decimal /\ read.negative = amount.negative

(* No 零 follows another and none stands before 元, but for amounts below   *)
(* one yuan.                                                               *)
ZerosAreSingle ==
    \A i \in 1 .. Len(Text) - 1 : Text[i] = 0 =>
        /\ Text[i + 1] # 0
        /\ Text[i + 1] = Yuan => \A s \in DOMAIN amount.sections : amount.sections[s] = 0

(* Said by the label 人民币（大写）: the text is the amount as it is written *)
(* in capitals, where 零 stands for digits between two others and never    *)
(* before the first.                                                       *)
(* It does not hold: 408 is written 零肆佰捌.                                  *)
NoZeroInFront == Text[1] = 0 => Text[2] = Yuan
=============================================================================
