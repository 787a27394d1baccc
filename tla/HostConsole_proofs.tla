------------------------- MODULE HostConsole_proofs -------------------------
(***************************************************************************)
(* What HostConsole shows of a number is the number, without leading zeros,*)
(* and the recursion that prints it is as deep as the number has digits:   *)
(* for every word size, every line and every pattern of lost calls.        *)
(***************************************************************************)
EXTENDS HostConsole, SequenceTheorems, TLAPS

\* The items main() and the tests print are texts and integers, and so are
\* the prefix and the end of the line.
Items == Texts \cup Ints \cup {Prefix, NewLine}

-----------------------------------------------------------------------------
\* Negating in a word of w values gives the absolute value (printTo).
LEMMA NegatedWord ==
    ASSUME NEW w \in Nat, w > 1, NEW v \in Int, v < 0, v >= -w
    PROVE  ((w - 1 - (v % w)) + 1) % w = (-v) % w
<1>1. CASE v = -w
  <2>1. v % w = 0
    BY <1>1, SMTT(30)
  <2> QED
    BY <1>1, <2>1, SMTT(30)
<1>2. CASE v > -w
  <2>1. v % w = v + w
    BY <1>2, SMTT(30)
  <2> QED
    BY <1>2, <2>1, SMTT(30)
<1> QED
  BY <1>1, <1>2

\* The number formatTo is called with fits the word, and is the absolute value.
LEMMA MagnitudeAbsolute ==
    ASSUME NEW i \in Ints
    PROVE  /\ i.value \in Int
           /\ magnitude(i) \in 0 .. Word - 1
           /\ magnitude(i) = IF negative(i) THEN -i.value ELSE i.value
<1> DEFINE v == i.value
<1>0. Word \in Nat /\ Word > 1
  BY ConsoleAssumption
<1>1. CASE i.kind = "signed"
  <2>1. v \in -(Word \div 2) .. Word \div 2 - 1
    BY <1>1 DEF Ints, Signed, Unsigned
  <2>2. Word \div 2 < Word /\ Word \div 2 \in Nat
    BY <1>0
  <2>3. CASE v < 0
    <3>1. v \in Int /\ v >= -Word
      BY <1>0, <2>1, <2>2
    <3>2. ((Word - 1 - (v % Word)) + 1) % Word = (-v) % Word
      BY <1>0, <2>3, <3>1, NegatedWord
    <3>3. magnitude(i) = (-v) % Word
      BY <1>1, <2>3, <3>2 DEF magnitude, negative
    <3>4. -v \in 0 .. Word - 1
      BY <2>1, <2>2, <2>3, <1>0
    <3>5. (-v) % Word = -v
      BY <3>4, <1>0
    <3> QED
      BY <1>1, <2>1, <2>3, <3>3, <3>4, <3>5 DEF negative
  <2>4. CASE v >= 0
    <3>1. v \in 0 .. Word - 1
      BY <2>1, <2>2, <2>4, <1>0
    <3>2. v % Word = v
      BY <3>1, <1>0
    <3> QED
      BY <2>1, <2>4, <3>1, <3>2 DEF magnitude, negative
  <2> QED
    BY <2>1, <2>3, <2>4
<1>2. CASE i.kind = "unsigned"
  <2>1. v \in 0 .. Word - 1
    BY <1>2 DEF Ints, Signed, Unsigned
  <2>2. v % Word = v
    BY <2>1, <1>0
  <2> QED
    BY <1>2, <2>1, <2>2 DEF magnitude, negative
<1> QED
  BY <1>1, <1>2 DEF Ints, Signed, Unsigned

\* Texts are no numbers, and every item is the one or the other.
LEMMA ItemKinds ==
    /\ \A x \in Texts \cup {Prefix, NewLine} : x.kind = "text" /\ x.len \in Nat
    /\ \A x \in Ints : x.kind \in {"signed", "unsigned"}
BY ConsoleAssumption DEF Texts, Ints, Text, Signed, Unsigned, Prefix, NewLine

\* Writing an item leaves items to write.
LEMMA TailItems ==
    ASSUME todo \in Seq(Items), todo # <<>>
    PROVE  Head(todo) \in Items /\ Tail(todo) \in Seq(Items)
OBVIOUS

\* A call of formatTo that returns uncovers the one around it.
LEMMA PopFrames ==
    ASSUME NEW S, frames \in Seq(S), frames # <<>>
    PROVE  /\ Len(frames) \in Nat \ {0} /\ Top \in S
           /\ Pop \in Seq(S) /\ Len(Pop) = Len(frames) - 1
           /\ \A i \in 1 .. Len(frames) - 1 : Pop[i] = frames[i]
<1>1. Len(frames) \in Nat \ {0} /\ DOMAIN frames = 1 .. Len(frames)
  OBVIOUS
<1>2. Top \in S
  BY <1>1 DEF Top
<1>3. Pop \in Seq(S)
  BY <1>1 DEF Pop
<1>4. Len(Pop) = Len(frames) - 1
  BY <1>1 DEF Pop
<1>5. \A i \in 1 .. Len(frames) - 1 : Pop[i] = frames[i]
  BY <1>1 DEF Pop
<1> QED
  BY <1>1, <1>2, <1>3, <1>4, <1>5

-----------------------------------------------------------------------------
\* A number fits at least one bit.
LEMMA WordPositive == Word \in Nat /\ Word > 1
BY ConsoleAssumption

\* The initial states have their types.
LEMMA InitType == Init => TypeOK
<1> SUFFICES ASSUME Init PROVE TypeOK
  OBVIOUS
<1>1. PICK line \in Lines : todo = <<Prefix>> \o line \o <<NewLine>>
  BY DEF Init
<1>2. line \in Seq(Items)
  BY ConsoleAssumption DEF Items
<1>3. todo \in Seq(Items)
  BY <1>1, <1>2 DEF Items
<1>4. ret \in -1 .. Word - 1
  BY WordPositive DEF Init
<1>5. shown \in [minus : BOOLEAN, digits : Nat, value : Int]
  BY DEF Init, Nothing
<1>6. frames \in Seq(0 .. Word - 1)
  BY DEF Init
<1>7. item \in Items
  BY DEF Init, Items
<1>8. length \in Nat /\ lost \in BOOLEAN
  BY DEF Init
<1> QED
  BY <1>3, <1>4, <1>5, <1>6, <1>7, <1>8 DEF TypeOK, Items

LEMMA StepType == TypeOK /\ [Next]_consoleVars => TypeOK'
<1> SUFFICES ASSUME TypeOK, [Next]_consoleVars PROVE TypeOK'
  OBVIOUS
<1> USE WordPositive
<1>1. todo \in Seq(Items) /\ item \in Items
  BY DEF TypeOK, Items
<1>2. CASE writeText
  <2>1. item' \in Items /\ todo' \in Seq(Items)
    BY <1>1, <1>2, TailItems DEF writeText
  <2>2. item'.len \in Nat
    BY <1>2, <2>1, ItemKinds DEF writeText, Items
  <2>3. length' \in endChar(item')
    BY <1>2 DEF writeText
  <2>4. length' \in Nat
    BY <2>2, <2>3, ConsoleAssumption DEF endChar
  <2> QED
    BY <1>2, <2>1, <2>4 DEF writeText, TypeOK, Items
<1>3. CASE printTo
  <2>1. item' \in Items /\ todo' \in Seq(Items)
    BY <1>1, <1>3, TailItems DEF printTo
  <2>2. item' \in Ints
    BY <1>3, <2>1, ItemKinds DEF printTo, Items
  <2>3. magnitude(item') \in 0 .. Word - 1
    BY <2>2, MagnitudeAbsolute
  <2>4. frames' \in Seq(0 .. Word - 1) /\ ret' \in -1 .. Word - 1
    BY <1>3, <2>3 DEF printTo
  <2>5. lost' \in BOOLEAN
    BY <1>3 DEF printTo
  <2>6. (negative(item') /\ ~lost') \in BOOLEAN
    OBVIOUS
  <2>7. shown' \in [minus : BOOLEAN, digits : Nat, value : Int]
    BY <1>3, <2>6 DEF printTo
  <2> QED
    BY <1>3, <2>1, <2>4, <2>5, <2>7 DEF printTo, TypeOK, Items
<1>4. ASSUME NEW d \in Int, writeDigit(d)
      PROVE  shown' \in [minus : BOOLEAN, digits : Nat, value : Int] /\ lost' \in BOOLEAN
  <2>1. shown.minus \in BOOLEAN /\ shown.digits \in Nat /\ shown.value \in Int
    BY DEF TypeOK
  <2>2. CASE /\ shown' = [minus |-> shown.minus, digits |-> shown.digits + 1,
                          value |-> 10 * shown.value + d]
             /\ lost' = lost
    <3>1. shown.digits + 1 \in Nat /\ 10 * shown.value + d \in Int
      BY <2>1
    <3> QED
      BY <2>1, <2>2, <3>1 DEF TypeOK
  <2>3. CASE lost' = TRUE /\ shown' = shown
    BY <2>3 DEF TypeOK
  <2> QED
    BY <1>4, <2>2, <2>3 DEF writeDigit
<1>5. CASE formatLeading
  <2>1. Top \in 0 .. Word - 1
    BY <1>5, PopFrames DEF formatLeading, TypeOK
  <2>2. Top \div 10 \in 0 .. Word - 1
    BY <2>1
  <2> QED
    BY <1>5, <2>2 DEF formatLeading, TypeOK
<1>6. CASE formatOneDigit
  <2>1. Top \in 0 .. Word - 1 /\ Pop \in Seq(0 .. Word - 1)
    BY <1>6, PopFrames DEF formatOneDigit, TypeOK
  <2> QED
    BY <1>4, <1>6, <2>1 DEF formatOneDigit, TypeOK
<1>7. CASE formatLastDigit
  <2>1. Top \in 0 .. Word - 1 /\ Pop \in Seq(0 .. Word - 1)
    BY <1>7, PopFrames DEF formatLastDigit, TypeOK
  <2>2. lastDigit(Top, ret) \in Int
    BY <2>1 DEF lastDigit, TypeOK
  <2> QED
    BY <1>4, <1>7, <2>1, <2>2 DEF formatLastDigit, TypeOK
<1>8. CASE Done \/ UNCHANGED consoleVars
  BY <1>8 DEF Done, consoleVars, TypeOK
<1> QED
  BY <1>2, <1>3, <1>5, <1>6, <1>7, <1>8 DEF Next, formatTo

\* Every variable of HostConsole keeps its type.
THEOREM ConsoleTypes == Spec => []TypeOK
<1>1. Init => TypeOK
  BY InitType
<1>2. TypeOK /\ [Next]_consoleVars => TypeOK'
  BY StepType
<1> QED
  BY <1>1, <1>2, PTL DEF Spec

-----------------------------------------------------------------------------
\* Nothing is being printed at the start.
LEMMA InitNumber == Init => NumberInv
BY DEF Init, NumberInv, Progress, Nested, Complete, PrintingInt, NewLine, Text

\* An activation of formatTo writes its last digit and returns: the digits
\* shown are then those of its number.
LEMMA DigitWritten ==
    ASSUME TypeOK, NumberInv, frames # <<>>, item' = item,
           NEW d \in Int, ~lost => 10 * shown.value + d = Top,
           writeDigit(d), ret' = Top, frames' = Pop
    PROVE  NumberInv'
<1> DEFINE n == Len(frames)
<1>1. /\ n \in Nat \ {0} /\ Top \in 0 .. Word - 1
      /\ Pop \in Seq(0 .. Word - 1) /\ Len(Pop) = n - 1
      /\ \A i \in 1 .. n - 1 : Pop[i] = frames[i]
  BY PopFrames DEF TypeOK
<1>2. Top = frames[n]
  BY DEF Top
<1>3. ~lost' => ~lost /\ shown'.value = Top /\ shown'.minus = shown.minus
  BY DEF writeDigit
<1>4. /\ PrintingInt /\ frames[1] = magnitude(item)
      /\ \A i \in 1 .. n - 1 : frames[i + 1] = frames[i] \div 10
  BY DEF NumberInv, Nested
<1>5. CASE n = 1
  <2>1. Pop = <<>>
    BY <1>1, <1>5
  <2>2. Progress' /\ Nested'
    BY <2>1, <1>5 DEF Progress, Nested
  <2>3. Complete'
    BY <1>2, <1>3, <1>4, <1>5 DEF NumberInv, Complete, PrintingInt, negative, magnitude
  <2> QED
    BY <2>2, <2>3 DEF NumberInv
<1>6. CASE n > 1
  <2>1. n - 1 \in 1 .. n - 1 /\ (n - 1) + 1 = n
    BY <1>1, <1>6
  <2>2. Top = frames[n - 1] \div 10 /\ Pop[n - 1] = frames[n - 1]
    BY <1>1, <1>2, <1>4, <2>1
  <2>3. Progress'
    BY <1>1, <1>3, <2>2 DEF Progress
  <2>4. \A i \in 1 .. Len(Pop) - 1 : Pop[i + 1] = Pop[i] \div 10
    BY <1>1, <1>4
  <2>5. Pop[1] = magnitude(item)
    BY <1>1, <1>4, <2>1
  <2>6. Nested'
    BY <1>4, <2>4, <2>5 DEF Nested, PrintingInt, magnitude, negative
  <2>7. Complete'
    BY <1>1, <1>3, <1>4, <1>6 DEF NumberInv, Complete, PrintingInt, negative
  <2> QED
    BY <2>3, <2>6, <2>7 DEF NumberInv
<1> QED
  BY <1>1, <1>5, <1>6

\* Every step keeps the correspondence of digits and number.
LEMMA StepNumber == TypeOK /\ NumberInv /\ [Next]_consoleVars => NumberInv'
<1> SUFFICES ASSUME TypeOK, NumberInv, [Next]_consoleVars PROVE NumberInv'
  OBVIOUS
<1>1. CASE writeText
  BY <1>1 DEF writeText, NumberInv, Progress, Nested, Complete, PrintingInt
<1>2. CASE printTo
  <2>1. frames' # <<>> /\ Len(frames') = 1 /\ frames'[1] = magnitude(item') /\ ret' = -1
    BY <1>2 DEF printTo
  <2>2. PrintingInt'
    BY <1>2 DEF printTo, PrintingInt
  <2>3. shown'.value = 0 /\ shown'.minus = (negative(item') /\ ~lost')
    BY <1>2 DEF printTo
  <2>4. ASSUME ~lost' PROVE (negative(item') /\ ~lost') = negative(item')
    BY <2>4 DEF negative
  <2>5. shown'.value = 0 /\ (~lost' => shown'.minus = negative(item'))
    BY <2>3, <2>4
  <2>6. Progress'
    BY <2>1, <2>5 DEF Progress
  <2>7. Nested'
    BY <2>1, <2>2 DEF Nested, magnitude, negative
  <2>8. Complete'
    BY <2>1, <2>5 DEF Complete, negative
  <2> QED
    BY <2>6, <2>7, <2>8 DEF NumberInv
<1>3. CASE formatLeading
  <2>1. frames \in Seq(0 .. Word - 1) /\ Len(frames) \in Nat \ {0} /\ Top = frames[Len(frames)]
    BY <1>3, PopFrames DEF formatLeading, TypeOK, Top
  <2>2. /\ frames' = Append(frames, Top \div 10)
        /\ ret' = -1 /\ ret = -1 /\ item' = item /\ shown' = shown /\ lost' = lost
        /\ frames # <<>>
    BY <1>3 DEF formatLeading
  <2>3. Len(frames') = Len(frames) + 1 /\ frames'[Len(frames) + 1] = Top \div 10
    BY <2>1, <2>2
  <2>4. \A i \in 1 .. Len(frames) : frames'[i] = frames[i]
    BY <2>1, <2>2
  <2>5. frames' # <<>>
    BY <2>1, <2>3
  <2>6. Progress'
    BY <2>2 DEF NumberInv, Progress
  <2>7. \A i \in 1 .. Len(frames') - 1 : frames'[i + 1] = frames'[i] \div 10
    <3> SUFFICES ASSUME NEW i \in 1 .. Len(frames)
                 PROVE  frames'[i + 1] = frames'[i] \div 10
      BY <2>1, <2>3
    <3>1. CASE i = Len(frames)
      BY <2>1, <2>3, <2>4, <3>1
    <3>2. CASE i < Len(frames)
      BY <2>1, <2>4, <3>2 DEF NumberInv, Nested
    <3> QED
      BY <2>1, <3>1, <3>2
  <2>8. Nested'
    BY <2>1, <2>2, <2>4, <2>7 DEF NumberInv, Nested, PrintingInt, magnitude, negative
  <2>9. Complete'
    BY <2>2, <2>5 DEF NumberInv, Complete, PrintingInt, negative
  <2> QED
    BY <2>6, <2>8, <2>9 DEF NumberInv
<1>4. CASE formatOneDigit
  <2>1. Top \in 0 .. Word - 1
    BY <1>4, PopFrames DEF formatOneDigit, TypeOK
  <2>2. Top \in Int
    BY <2>1, WordPositive
  <2>3. ~lost => shown.value = 0
    BY <1>4 DEF formatOneDigit, NumberInv, Progress
  <2>4. ~lost => 10 * shown.value + Top = Top
    BY <2>2, <2>3
  <2> QED
    BY <1>4, <2>2, <2>4, DigitWritten DEF formatOneDigit
<1>5. CASE formatLastDigit
  <2>1. Top \in 0 .. Word - 1 /\ ret \in -1 .. Word - 1
    BY <1>5, PopFrames DEF formatLastDigit, TypeOK
  <2>2. Top \in Int /\ ret \in Int
    BY <2>1, WordPositive
  <2>3. ~lost => shown.value = ret
    BY <1>5 DEF formatLastDigit, NumberInv, Progress
  <2>4. /\ lastDigit(Top, ret) \in Int
        /\ ~lost => 10 * shown.value + lastDigit(Top, ret) = Top
    BY <2>2, <2>3 DEF lastDigit
  <2> QED
    BY <1>5, <2>4, DigitWritten DEF formatLastDigit
<1>6. CASE Done \/ UNCHANGED consoleVars
  BY <1>6 DEF Done, consoleVars, NumberInv, Progress, Nested, Complete, PrintingInt,
              magnitude, negative
<1> QED
  BY <1>1, <1>2, <1>3, <1>4, <1>5, <1>6 DEF Next, formatTo

\* A complete number reads as the integer it was given.
LEMMA NumberRead == TypeOK /\ NumberInv => NumberShown
<1> SUFFICES ASSUME TypeOK, NumberInv, PrintingInt, frames = <<>>, ~lost
             PROVE  (IF shown.minus THEN -shown.value ELSE shown.value) = item.value
  BY DEF NumberShown
<1>1. item \in Ints
  BY ItemKinds DEF TypeOK, PrintingInt
<1>2. shown.minus = negative(item) /\ shown.value = magnitude(item)
  BY DEF NumberInv, Complete
<1>3. /\ item.value \in Int
      /\ magnitude(item) = IF negative(item) THEN -item.value ELSE item.value
  BY <1>1, MagnitudeAbsolute
<1> QED
  BY <1>2, <1>3

\* Whatever is printed, in words of any size, and whichever calls fail: a
\* number no call of which failed appears as it is, the most negative one
\* included (consoleHelpers.hxx:48-76).
THEOREM NumbersShown == Spec => []NumberShown
<1>1. Init => TypeOK /\ NumberInv
  BY InitType, InitNumber
<1>2. TypeOK /\ NumberInv /\ [Next]_consoleVars => (TypeOK /\ NumberInv)'
  BY StepType, StepNumber
<1>3. TypeOK /\ NumberInv => NumberShown
  BY NumberRead
<1> QED
  BY <1>1, <1>2, <1>3, PTL DEF Spec

-----------------------------------------------------------------------------
(***************************************************************************)
(* How deep the recursion goes, and how many digits come out of it.        *)
(***************************************************************************)

\* The powers of ten that a word holds.
LEMMA Powers ==
    /\ MaxDigits \in Nat \ {0}
    /\ \A n \in 1 .. MaxDigits : PowersOfTen[n] \in Nat
    /\ PowersOfTen[1] = 1
    /\ \A n \in 1 .. MaxDigits - 1 : PowersOfTen[n + 1] = 10 * PowersOfTen[n]
    /\ 10 * PowersOfTen[MaxDigits] >= Word
<1>1. PowersOfTen \in Seq(Nat) /\ PowersOfTen # <<>>
  BY ConsoleAssumption
<1>2. MaxDigits \in Nat \ {0} /\ \A n \in 1 .. MaxDigits : PowersOfTen[n] \in Nat
  BY <1>1 DEF MaxDigits
<1> QED
  BY <1>2, ConsoleAssumption

\* One digit less, one power more.
LEMMA LeadingDigits ==
    ASSUME NEW a \in Nat, NEW t \in Nat, NEW w \in Nat, a * t < w
    PROVE  (a \div 10) * (10 * t) < w
<1> DEFINE q == a \div 10
<1>1. q \in Nat /\ 10 * q <= a
  OBVIOUS
<1> HIDE DEF q
<1>2. (10 * q) * t <= a * t
  BY <1>1
<1>3. q * (10 * t) = (10 * q) * t
  BY <1>1
<1> QED
  BY <1>1, <1>2, <1>3 DEF q

\* A number of two digits or more is below the word's last power.
LEMMA TooManyDigits ==
    ASSUME NEW a \in Nat, a >= 10, NEW t \in Nat, NEW w \in Nat, a * t < w
    PROVE  10 * t < w
<1>1. 10 * t <= a * t
  OBVIOUS
<1> QED
  BY <1>1

\* Nothing is being printed at the start.
LEMMA InitDepth == Init => DepthInv /\ DigitsInv
BY DEF Init, DepthInv, DigitsInv, PrintingInt, NewLine, Text

\* Every step keeps the bound on the activations: the innermost would have to
\* have a digit more than the largest integer.
LEMMA StepDepth == TypeOK /\ DepthInv /\ [Next]_consoleVars => DepthInv'
<1> SUFFICES ASSUME TypeOK, DepthInv, [Next]_consoleVars PROVE DepthInv'
  OBVIOUS
<1> USE WordPositive
<1>1. CASE writeText
  BY <1>1 DEF writeText, DepthInv
<1>2. CASE printTo
  <2>1. item' \in Ints
    <3>1. item' \in Items
      BY <1>2, TailItems DEF printTo, TypeOK, Items
    <3> QED
      BY <1>2, <3>1, ItemKinds DEF printTo, Items
  <2>2. magnitude(item') \in 0 .. Word - 1
    BY <2>1, MagnitudeAbsolute
  <2>3. Len(frames') = 1 /\ frames'[1] = magnitude(item') /\ ret' = -1
    BY <1>2 DEF printTo
  <2> QED
    BY <2>2, <2>3, Powers DEF DepthInv
<1>3. CASE formatLeading
  <2> DEFINE n == Len(frames)
  <2>1. frames \in Seq(0 .. Word - 1) /\ n \in Nat \ {0} /\ Top = frames[n]
    BY <1>3, PopFrames DEF formatLeading, TypeOK, Top
  <2>2. frames' = Append(frames, Top \div 10) /\ ret' = -1 /\ ret = -1 /\ Top >= 10
    BY <1>3, <2>1 DEF formatLeading, isOneDigit
  <2>3. /\ Len(frames') = n + 1 /\ frames'[n + 1] = Top \div 10
        /\ \A i \in 1 .. n : frames'[i] = frames[i]
    BY <2>1, <2>2
  <2>4. Top \in Nat /\ n <= MaxDigits /\ Top * PowersOfTen[n] < Word
    BY <2>1 DEF DepthInv
  <2>5. PowersOfTen[n] \in Nat
    BY <2>1, <2>4, Powers
  <2>6. 10 * PowersOfTen[n] < Word
    BY <2>2, <2>4, <2>5, TooManyDigits
  <2>7. n + 1 <= MaxDigits /\ PowersOfTen[n + 1] = 10 * PowersOfTen[n]
    <3>1. n # MaxDigits
      <4>1. ~(10 * PowersOfTen[MaxDigits] < Word)
        BY Powers
      <4> QED
        BY <2>6, <4>1, Zenon
    <3> HIDE DEF n
    <3>2. n \in 1 .. MaxDigits - 1
      <4>1. MaxDigits \in Nat
        BY Powers
      <4> QED
        BY <2>1, <2>4, <3>1, <4>1
    <3>3. PowersOfTen[n + 1] = 10 * PowersOfTen[n]
      BY <3>2, Powers, Zenon
    <3>4. n + 1 <= MaxDigits
      BY <3>2, Powers
    <3> QED
      BY <3>3, <3>4, Zenon
  <2>8. frames'[n + 1] * PowersOfTen[n + 1] < Word
    BY <2>3, <2>4, <2>5, <2>7, LeadingDigits
  <2>9. \A i \in 1 .. n + 1 : i <= MaxDigits /\ frames'[i] * PowersOfTen[i] < Word
    <3> SUFFICES ASSUME NEW i \in 1 .. n + 1
                 PROVE  i <= MaxDigits /\ frames'[i] * PowersOfTen[i] < Word
      OBVIOUS
    <3>1. CASE i = n + 1
      BY <2>7, <2>8, <3>1
    <3>2. CASE i # n + 1
      BY <2>1, <2>3, <3>2 DEF DepthInv
    <3> QED
      BY <3>1, <3>2
  <2>10. \A i \in 1 .. n : frames'[i] >= 10
    <3> SUFFICES ASSUME NEW i \in 1 .. n PROVE frames[i] >= 10
      BY <2>3
    <3>1. CASE i = n
      BY <2>1, <2>2, <3>1
    <3>2. CASE i # n
      BY <2>1, <2>2, <3>2 DEF DepthInv
    <3> QED
      BY <3>1, <3>2
  <2> QED
    BY <2>1, <2>2, <2>3, <2>9, <2>10 DEF DepthInv
<1>4. CASE formatOneDigit \/ formatLastDigit
  <2>1. frames # <<>> /\ frames' = Pop /\ ret' = Top
    BY <1>4 DEF formatOneDigit, formatLastDigit
  <2>2. /\ Len(frames) \in Nat \ {0} /\ Top \in 0 .. Word - 1
        /\ Len(Pop) = Len(frames) - 1
        /\ \A i \in 1 .. Len(frames) - 1 : Pop[i] = frames[i]
    BY <2>1, PopFrames DEF TypeOK
  <2>3. \A i \in 1 .. Len(frames) - 1 : frames[i] >= 10
    BY <2>2 DEF DepthInv
  <2> QED
    BY <2>1, <2>2, <2>3 DEF DepthInv
<1>5. CASE Done \/ UNCHANGED consoleVars
  BY <1>5 DEF Done, consoleVars, DepthInv
<1> QED
  BY <1>1, <1>2, <1>3, <1>4, <1>5 DEF Next, formatTo

\* An activation returns with at least the digits of the power.
LEMMA DigitAdded ==
    ASSUME NEW v \in Int, NEW d \in Nat, NEW k \in 1 .. MaxDigits - 1,
           IF k = 1 THEN v >= 1 ELSE v >= PowersOfTen[k]
    PROVE  10 * v + d >= PowersOfTen[k + 1]
<1>1. PowersOfTen[k + 1] = 10 * PowersOfTen[k] /\ PowersOfTen[k] \in Nat
  BY Powers
<1>2. v >= PowersOfTen[k]
  BY Powers
<1> QED
  BY <1>1, <1>2

\* Every step keeps the digits in order.
LEMMA StepDigits ==
    TypeOK /\ NumberInv /\ DepthInv /\ DigitsInv /\ [Next]_consoleVars => DigitsInv'
<1> SUFFICES ASSUME TypeOK, NumberInv, DepthInv, DigitsInv, [Next]_consoleVars
             PROVE  DigitsInv'
  OBVIOUS
<1> USE WordPositive
<1>1. CASE writeText
  BY <1>1 DEF writeText, DigitsInv, PrintingInt
<1>2. CASE printTo
  BY <1>2 DEF printTo, DigitsInv
<1>3. CASE formatLeading
  <2>1. frames # <<>> /\ ret' = -1 /\ ret = -1 /\ shown' = shown
    BY <1>3 DEF formatLeading
  <2>2. frames' # <<>>
    BY <1>3 DEF formatLeading, TypeOK
  <2> QED
    BY <2>1, <2>2 DEF DigitsInv
<1>4. ASSUME frames # <<>>, frames' = Pop, ret' = Top, item' = item
      PROVE  /\ Len(frames) \in Nat \ {0} /\ Len(frames') = Len(frames) - 1
             /\ Len(frames) <= MaxDigits
             /\ Top \in 0 .. Word - 1 /\ Top = frames[Len(frames)] /\ ret' # -1
             /\ PrintingInt
  <2>1. /\ Len(frames) \in Nat \ {0} /\ Top \in 0 .. Word - 1
        /\ Len(Pop) = Len(frames) - 1
    BY <1>4, PopFrames DEF TypeOK
  <2>2. Len(frames) <= MaxDigits
    BY <2>1 DEF DepthInv
  <2>3. PrintingInt
    BY <1>4 DEF NumberInv, Nested
  <2> QED
    BY <1>4, <2>1, <2>2, <2>3 DEF Top
<1>5. CASE formatOneDigit
  <2>1. /\ frames # <<>> /\ frames' = Pop /\ ret' = Top /\ item' = item /\ ret = -1
        /\ writeDigit(Top)
    BY <1>5 DEF formatOneDigit
  <2>2. /\ Len(frames) \in Nat \ {0} /\ Len(frames') = Len(frames) - 1
        /\ Len(frames) <= MaxDigits /\ ret' # -1
    BY <1>4, <2>1
  <2>3. shown.digits = 0
    BY <2>1 DEF DigitsInv
  <2>4. ~lost' => shown'.digits = 1
    BY <2>1, <2>3 DEF writeDigit
  <2>5. 1 \in 1 .. MaxDigits - Len(frames')
    BY <2>2, Powers
  <2> QED
    BY <2>2, <2>4, <2>5 DEF DigitsInv
<1>6. CASE formatLastDigit
  <2>1. /\ frames # <<>> /\ frames' = Pop /\ ret' = Top /\ item' = item /\ ret # -1
        /\ writeDigit(lastDigit(Top, ret))
    BY <1>6 DEF formatLastDigit
  <2>2. /\ Len(frames) \in Nat \ {0} /\ Len(frames') = Len(frames) - 1
        /\ Len(frames) <= MaxDigits /\ ret' # -1
        /\ Top \in Nat /\ Top = frames[Len(frames)] /\ PrintingInt
    BY <1>4, <2>1
  <2>3. Top >= 10
    BY <2>1, <2>2 DEF DepthInv
  <2>4. ret = Top \div 10
    BY <2>1, <2>2 DEF NumberInv, Progress
  <2>5. ret >= 1 /\ lastDigit(Top, ret) \in Nat
    BY <2>2, <2>3, <2>4 DEF lastDigit
  <2> SUFFICES ASSUME ~lost'
               PROVE  /\ shown'.digits \in 1 .. MaxDigits - Len(frames')
                      /\ shown'.value >= PowersOfTen[shown'.digits]
    BY <2>2 DEF DigitsInv
  <2>6. /\ ~lost
        /\ shown'.digits = shown.digits + 1
        /\ shown'.value = 10 * shown.value + lastDigit(Top, ret)
    BY <2>1 DEF writeDigit
  <2>7. shown.value = ret /\ shown.value \in Int
    BY <2>1, <2>6 DEF NumberInv, Progress, TypeOK
  <2>8. /\ shown.digits \in 1 .. MaxDigits - Len(frames)
        /\ shown.digits = 1 \/ shown.value >= PowersOfTen[shown.digits]
    BY <2>1, <2>2, <2>6 DEF DigitsInv
  <2>9. shown.digits \in 1 .. MaxDigits - 1
    BY <2>2, <2>8, Powers
  <2>10. shown'.value >= PowersOfTen[shown'.digits]
    BY <2>5, <2>6, <2>7, <2>8, <2>9, DigitAdded
  <2>11. shown'.digits \in 1 .. MaxDigits - Len(frames')
    <3> DEFINE k == shown.digits
               n == Len(frames)
               m == Len(frames')
               last == shown'.digits
    <3>1. n \in Nat /\ m = n - 1 /\ last = k + 1 /\ k \in 1 .. MaxDigits - n
      BY <2>2, <2>6, <2>8, Zenon
    <3>2. MaxDigits \in Nat
      BY Powers
    <3> HIDE DEF k, n, m, last
    <3>3. last \in 1 .. MaxDigits - m
      BY <3>1, <3>2
    <3> QED
      BY <3>3, Zenon DEF last, m
  <2> QED
    BY <2>10, <2>11, Zenon
<1>7. CASE Done \/ UNCHANGED consoleVars
  BY <1>7 DEF Done, consoleVars, DigitsInv, PrintingInt
<1> QED
  BY <1>1, <1>2, <1>3, <1>5, <1>6, <1>7 DEF Next, formatTo

\* All of it holds in every reachable state.
LEMMA DigitsAlways == Spec => [](TypeOK /\ DepthInv /\ DigitsInv)
<1>1. Init => TypeOK /\ NumberInv /\ DepthInv /\ DigitsInv
  BY InitType, InitNumber, InitDepth
<1>2. TypeOK /\ NumberInv /\ DepthInv /\ DigitsInv /\ [Next]_consoleVars
        => (TypeOK /\ NumberInv /\ DepthInv /\ DigitsInv)'
  BY StepType, StepNumber, StepDepth, StepDigits
<1> QED
  BY <1>1, <1>2, PTL DEF Spec

\* No number is printed with a leading zero or with more digits than an integer
\* has, in words of any size (consoleHelpers.hxx:48-58).
THEOREM NoZeroLeads == Spec => []NoLeadingZero
<1>1. DigitsInv => NoLeadingZero
  <2> SUFFICES ASSUME DigitsInv, PrintingInt, frames = <<>>, ~lost
               PROVE  /\ shown.digits \in 1 .. MaxDigits
                      /\ shown.digits = 1 \/ shown.value >= PowersOfTen[shown.digits]
    BY DEF NoLeadingZero
  <2>1. Len(frames) = 0 /\ ret # -1
    BY DEF DigitsInv
  <2> QED
    BY <2>1, Powers DEF DigitsInv
<1> QED
  BY <1>1, DigitsAlways, PTL

\* The stack never holds more activations of formatTo than the largest integer
\* has digits (consoleHelpers.hxx:48-58).
THEOREM StackBounded == Spec => []DepthBounded
<1>1. TypeOK /\ DepthInv => DepthBounded
  <2> SUFFICES ASSUME TypeOK, DepthInv, Len(frames) > MaxDigits PROVE FALSE
    BY Powers DEF DepthBounded, TypeOK
  <2>1. Len(frames) \in 1 .. Len(frames)
    BY Powers DEF TypeOK
  <2> QED
    BY <2>1, Powers DEF DepthInv
<1> QED
  BY <1>1, DigitsAlways, PTL
=============================================================================
