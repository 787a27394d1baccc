---------------------------- MODULE HostConsole ----------------------------
(***************************************************************************)
(* How host.error(), host.info() and the others write a line               *)
(* (src/semihosting/stm32f411/hostConsole.hxx, hostConsole.cxx,            *)
(* consoleHelpers.hxx): text by SYS_WRITE on the console's handle, the     *)
(* digits of a number one by one by SYS_WRITEC, most significant first, out*)
(* of the recursion of AsInt::formatTo.  No result is looked at, so any    *)
(* call may lose what it writes.                                           *)
(***************************************************************************)
EXTENDS Integers, Sequences

CONSTANTS
    Lines,       \* what the callers ask to have written: sequences of items
    Word,        \* 2^64 for the integers
    MaxLength,   \* the largest size_t
    PowersOfTen, \* 1, 10, 100 and so on: one for each digit of the largest integer
    Lossy        \* TRUE: a system call may fail

\* A string_view: its length, and whether its last character is a NUL.
Text(len, nul) == [kind |-> "text", len |-> len, nul |-> nul]
\* An integer, widened to int64_t or uint64_t.
Signed(v)      == [kind |-> "signed", value |-> v]
Unsigned(v)    == [kind |-> "unsigned", value |-> v]

Texts == {Text(n, b) : n \in 0 .. MaxLength, b \in BOOLEAN}
Ints  == {Signed(v) : v \in -(Word \div 2) .. Word \div 2 - 1}
            \cup {Unsigned(v) : v \in 0 .. Word - 1}

MaxDigits == Len(PowersOfTen)

ASSUME ConsoleAssumption ==
    /\ Word \in Nat /\ Word > 1 /\ MaxLength \in Nat
    /\ PowersOfTen \in Seq(Nat) /\ PowersOfTen # <<>> /\ PowersOfTen[1] = 1
    /\ \A n \in 1 .. MaxDigits - 1 : PowersOfTen[n + 1] = 10 * PowersOfTen[n]
    /\ PowersOfTen[MaxDigits] < Word /\ 10 * PowersOfTen[MaxDigits] >= Word
    /\ Lines \subseteq Seq(Texts \cup Ints)
    /\ Lossy \in BOOLEAN

VARIABLES
    todo,     \* the items still to write
    item,     \* the item being written, or written last
    frames,   \* the activations of formatTo, by their number
    ret,      \* what the activation that ended last returned, or -1
    length,   \* the length of the last SYS_WRITE
    shown,    \* of a number: its sign, digits and their value, on the console
    lost      \* whether a call lost a part of it

consoleVars == <<todo, item, frames, ret, length, shown, lost>>

Nothing == [minus |-> FALSE, digits |-> 0, value |-> 0]
Prefix  == Text(13, FALSE)   \* "\x1b[31m[!]\x1b[0m " and its like
NewLine == Text(2, FALSE)

\* _value < 0, of a signed type.
negative(i) == i.kind = "signed" /\ i.value < 0

\* Mutant: the sign is dropped without negating.
magnitudeUnnegated(i) == i.value % Word

\* Mutant: the value is handed over as it is.
magnitudeSigned(i) == i.value

\* The number printTo hands to formatTo: ~static_cast<UInt>(value) + 1 for a
\* negative one.
magnitude(i) ==
    LET u == i.value % Word
    IN IF negative(i) THEN ((Word - 1 - u) + 1) % Word ELSE u

\* Mutant: zero is taken for the only one-digit number.
isOneDigitZero(n) == n < 1

isOneDigit(n) == n < 10

\* The SYS_WRITE length of Console::write(string_view).  back() of an empty
\* view is undefined: the byte it finds may be a NUL or not.
endChar(text) ==
    IF text.len = 0 THEN {0, MaxLength}
    ELSE {IF text.nul THEN text.len - 1 ELSE text.len}

\* writeChar(): a digit appears on the console, or is lost.
writeDigit(d) ==
    \/ /\ shown' = [minus  |-> shown.minus,
                    digits |-> shown.digits + 1,
                    value  |-> 10 * shown.value + d]
       /\ UNCHANGED lost
    \/ Lossy /\ lost' = TRUE /\ UNCHANGED shown

-----------------------------------------------------------------------------
Init ==
    /\ \E line \in Lines : todo = <<Prefix>> \o line \o <<NewLine>>
    /\ item = NewLine
    /\ frames = <<>> /\ ret = -1
    /\ length = 0
    /\ shown = Nothing /\ lost = FALSE

writeText ==
    /\ frames = <<>> /\ todo # <<>>
    /\ Head(todo).kind = "text"
    /\ item' = Head(todo) /\ todo' = Tail(todo)
    /\ length' \in endChar(item')
    /\ UNCHANGED <<frames, ret, shown, lost>>

\* AsInt::printTo: the sign, and the call of formatTo.
printTo ==
    /\ frames = <<>> /\ todo # <<>>
    /\ Head(todo).kind \in {"signed", "unsigned"}
    /\ item' = Head(todo) /\ todo' = Tail(todo)
    /\ lost' \in IF Lossy /\ negative(item') THEN BOOLEAN ELSE {FALSE}
    /\ shown' = [minus |-> negative(item') /\ ~lost', digits |-> 0, value |-> 0]
    /\ frames' = <<magnitude(item')>> /\ ret' = -1
    /\ UNCHANGED length

Top == frames[Len(frames)]
Pop == SubSeq(frames, 1, Len(frames) - 1)

\* formatTo calls itself with the leading digits.
formatLeading ==
    /\ frames # <<>> /\ ret = -1
    /\ ~isOneDigit(Top)
    /\ frames' = Append(frames, Top \div 10)
    /\ UNCHANGED <<todo, item, ret, length, shown, lost>>

formatOneDigit ==
    /\ frames # <<>> /\ ret = -1
    /\ isOneDigit(Top)
    /\ writeDigit(Top)
    /\ ret' = Top /\ frames' = Pop
    /\ UNCHANGED <<todo, item, length>>

lastDigit(number, returned) == number - returned * 10

\* The inner call returned: the last digit follows.
formatLastDigit ==
    /\ frames # <<>> /\ ret # -1
    /\ writeDigit(lastDigit(Top, ret))
    /\ ret' = Top /\ frames' = Pop
    /\ UNCHANGED <<todo, item, length>>

formatTo == formatLeading \/ formatOneDigit \/ formatLastDigit

Written == todo = <<>> /\ frames = <<>>
Done    == Written /\ UNCHANGED consoleVars

Next == writeText \/ printTo \/ formatTo \/ Done

Spec == Init /\ [][Next]_consoleVars

-----------------------------------------------------------------------------
\* Every variable has its type.
TypeOK ==
    /\ todo \in Seq(Texts \cup Ints \cup {Prefix, NewLine})
    /\ item \in Texts \cup Ints \cup {Prefix, NewLine}
    /\ frames \in Seq(0 .. Word - 1)
    /\ ret \in -1 .. Word - 1
    /\ length \in Nat
    /\ shown \in [minus : BOOLEAN, digits : Nat, value : Int]
    /\ lost \in BOOLEAN

PrintingInt == item.kind \in {"signed", "unsigned"}

\* When formatTo has returned and no call failed, the console shows the
\* number it was given, the most negative one included.
NumberShown ==
    PrintingInt /\ frames = <<>> /\ ~lost =>
        (IF shown.minus THEN -shown.value ELSE shown.value) = item.value

\* The value the digits written so far stand for.
Progress ==
    /\ ret # -1 => frames = <<>> \/ ret = frames[Len(frames)] \div 10
    /\ frames # <<>> /\ ~lost => shown.value = IF ret = -1 THEN 0 ELSE ret

\* Each activation of formatTo has the leading digits of the one around it,
\* the outermost the number itself.
Nested ==
    /\ frames # <<>> => PrintingInt /\ frames[1] = magnitude(item)
    /\ \A i \in 1 .. Len(frames) - 1 : frames[i + 1] = frames[i] \div 10

\* The sign is written first, and no digit is left out of the last value.
Complete ==
    PrintingInt /\ ~lost =>
        /\ shown.minus = negative(item)
        /\ frames = <<>> => shown.value = magnitude(item)

\* Inductive with TypeOK; implies NumberShown.
NumberInv == Progress /\ Nested /\ Complete

\* Numbers appear without leading zeros, and with no more digits than an
\* integer has.
NoLeadingZero ==
    PrintingInt /\ frames = <<>> /\ ~lost =>
        \/ shown.digits = 1
        \/ shown.digits \in 1 .. MaxDigits /\ shown.value >= PowersOfTen[shown.digits]

\* The recursion is never deeper than the largest integer has digits: twenty
\* activations on the target's stack.
DepthBounded == Len(frames) <= MaxDigits

\* An activation with k around it has no more digits than the word leaves it,
\* and one that called itself has two or more.  Inductive with TypeOK and
\* NumberInv; implies DepthBounded.
DepthInv ==
    /\ \A i \in 1 .. Len(frames) : i <= MaxDigits /\ frames[i] * PowersOfTen[i] < Word
    /\ \A i \in 1 .. Len(frames) - (IF ret = -1 THEN 1 ELSE 0) : frames[i] >= 10

\* The digits shown are those of what was returned, its first no zero unless
\* it is the only one.  Inductive with TypeOK, NumberInv and DepthInv; implies
\* NoLeadingZero.
DigitsInv ==
    /\ frames # <<>> /\ ret = -1 => shown.digits = 0
    /\ ~lost /\ PrintingInt /\ ret # -1 =>
          /\ shown.digits \in 1 .. MaxDigits - Len(frames)
          /\ shown.digits = 1 \/ shown.value >= PowersOfTen[shown.digits]
    /\ PrintingInt /\ frames = <<>> => ret # -1

\* A text is written from within its view: no character after its end, for
\* the empty text of semihosting.cxx:396-397 too.
WithinView == item.kind = "text" => length <= item.len
=============================================================================
