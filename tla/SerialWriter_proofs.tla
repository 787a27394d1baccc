------------------------ MODULE SerialWriter_proofs ------------------------
(***************************************************************************)
(* Theorems about the serial firmware, for every length of the text, every *)
(* size of the RTT buffer and any behaviour of the RTT host.               *)
(***************************************************************************)
EXTENDS SerialWriter, TLAPS

Setup == {"systemInit", "logStart", "uartInit"}

\* The clock and the divisor at each point of main(), and a UART at rest until
\* it has a divisor.
RateInv ==
    /\ pc # "systemInit" => hz = 84000000
    /\ pc \in Setup => data = None /\ shift = None
    /\ pc \notin Setup => brr = 365

\* The character after c in the endless text.
After(c) == IF c = Characters - 1 THEN 0 ELSE c + 1

\* The text continues from the wire through the shift and the data register to
\* the character to write next, and the data register is empty when written.
OrderInv ==
    /\ shift # None => shift = After(wire.char)
    /\ data # None => data = After(IF shift # None THEN shift ELSE wire.char)
    /\ index = After(IF data # None THEN data
                     ELSE IF shift # None THEN shift ELSE wire.char)
    /\ pc = "write" => data = None
    /\ pc = "logBlock" => index = 0

-----------------------------------------------------------------------------
\* The remainder of the next position is the next position of the text.
LEMMA AfterWraps ==
  ASSUME NEW c \in Char
  PROVE  /\ (c + 1) % Characters = After(c) /\ After(c) \in Char
         /\ None \notin Char /\ 0 \in Char
<1>1. Characters \in Nat \ {0} /\ c \in 0 .. Characters - 1
  BY SerialAssumption DEF Char
<1>2. CASE c = Characters - 1
  BY <1>1, <1>2, SMTT(30) DEF After, Char, None
<1>3. CASE c # Characters - 1
  <2>1. c + 1 \in 0 .. Characters - 1
    BY <1>1, <1>3
  <2> QED
    BY <1>1, <1>3, <2>1, SMTT(30) DEF After, Char, None
<1> QED
  BY <1>2, <1>3

\* The text has a last character, which ends before the first.
LEMMA CharBounds == 0 \in Char /\ Characters - 1 \in Char /\ None \notin Char /\ Char \subseteq Int
BY SerialAssumption DEF Char, None

\* The initial state has its types.
LEMMA InitTypes == Init => TypeOK
BY SerialAssumption, CharBounds DEF Init, TypeOK

\* Every step of firmware, UART and host keeps the types.
LEMMA NextTypes == TypeOK /\ [Next]_vars => TypeOK'
<1> SUFFICES ASSUME TypeOK, [Next]_vars PROVE TypeOK'
  OBVIOUS
<1> USE SerialAssumption DEF uart, rtt, TypeOK
<1>1. CASE systemInit
  BY <1>1 DEF systemInit
<1>2. ASSUME NEW at, NEW to \in {"uartInit", "wait"}, info(at, to) PROVE TypeOK'
  BY <1>2 DEF info
<1>3. CASE uartInit
  <2>1. brr' \in Nat
    BY <1>3 DEF uartInit, APB1
  <2> QED
    BY <1>3, <2>1 DEF uartInit
<1>4. CASE awaitEmpty
  BY <1>4 DEF awaitEmpty
<1>5. CASE writeData
  <2>1. index' \in Char /\ data' \in Char
    BY <1>5, AfterWraps DEF writeData
  <2> QED
    BY <1>5, <2>1 DEF writeData
<1>6. CASE Shift
  BY <1>6 DEF Shift
<1>7. CASE Transmit
  <2>1. shift \in Char /\ 1 - wire.frame \in {0, 1}
    BY <1>7 DEF Transmit
  <2> QED
    BY <1>7, <2>1 DEF Transmit
<1>8. CASE HostReads
  BY <1>8 DEF HostReads
<1>9. CASE HostChanges
  BY <1>9 DEF HostChanges
<1>10. CASE UNCHANGED vars
  BY <1>10 DEF vars
<1> QED
  BY <1>1, <1>2, <1>3, <1>4, <1>5, <1>6, <1>7, <1>8, <1>9, <1>10 DEF Next, main, UART

\* The firmware, its UART and its host stay within their types (main.rs).
THEOREM WriterTypes == Spec => []TypeOK
BY InitTypes, NextTypes, PTL DEF Spec

-----------------------------------------------------------------------------
\* Every step keeps clock and divisor as main() set them.
LEMMA NextRate == TypeOK /\ RateInv /\ [Next]_vars => RateInv'
<1> SUFFICES ASSUME TypeOK, RateInv, [Next]_vars PROVE RateInv'
  OBVIOUS
<1> USE SMTT(30) DEF RateInv, Setup, uart, rtt
<1>1. CASE systemInit
  BY <1>1 DEF systemInit
<1>2. CASE info("logStart", "uartInit") \/ info("logBlock", "wait")
  BY <1>2 DEF info
<1>3. CASE uartInit
  BY <1>3 DEF uartInit, APB1
<1>4. CASE awaitEmpty \/ writeData
  BY <1>4 DEF awaitEmpty, writeData
<1>5. CASE UART
  BY <1>5 DEF UART, Shift, Transmit
<1>6. CASE HostReads \/ HostChanges \/ UNCHANGED vars
  BY <1>6 DEF HostReads, HostChanges, vars
<1> QED
  BY <1>1, <1>2, <1>3, <1>4, <1>5, <1>6 DEF Next, main

\* Core, bus and line rate stay within their limits whatever the UART and the
\* host do meanwhile (main.rs:45-59, 68).
THEOREM RateWithinLimits == Spec => []ClockedWithinLimits
<1>1. Init => TypeOK /\ RateInv
  BY InitTypes, SMTT(30) DEF Init, RateInv, Setup
<1>2. TypeOK /\ RateInv /\ [Next]_vars => (TypeOK /\ RateInv)'
  BY NextTypes, NextRate
<1>3. RateInv => ClockedWithinLimits
  <2> SUFFICES ASSUME RateInv PROVE ClockedWithinLimits
    OBVIOUS
  <2>1. pc # "systemInit" => hz = 84000000
    BY SMT DEF RateInv
  <2>2. pc # "systemInit" => hz <= 100000000 /\ APB1 <= 50000000
    BY <2>1, SMT DEF APB1
  <2>3. shift # None => pc # "systemInit" /\ brr = 365
    BY SMT DEF RateInv, Setup
  <2>4. CASE shift = None
    BY <2>2, <2>4, SMT DEF ClockedWithinLimits
  <2>5. CASE shift # None
    <3>1. APB1 = 42000000 /\ brr = 365
      BY <2>1, <2>3, <2>5, SMT DEF APB1
    <3>2. (42000000 \div 365) \in 112896 .. 117504
      BY SMT
    <3> QED
      BY <2>2, <3>1, <3>2, SMT DEF ClockedWithinLimits
  <2> QED
    BY <2>4, <2>5, SMT
<1> QED
  BY <1>1, <1>2, <1>3, PTL DEF Spec

-----------------------------------------------------------------------------
\* The first character follows the end of a text.
LEMMA InitOrder == Init => OrderInv
BY DEF Init, OrderInv, After

\* Every step moves a character on without losing its place in the text.
LEMMA NextOrder == TypeOK /\ OrderInv /\ [Next]_vars => OrderInv'
<1> SUFFICES ASSUME TypeOK, OrderInv, [Next]_vars PROVE OrderInv'
  OBVIOUS
<1> USE CharBounds DEF OrderInv, After, uart, rtt
<1>1. CASE systemInit \/ uartInit \/ info("logStart", "uartInit") \/ info("logBlock", "wait")
  BY <1>1 DEF systemInit, uartInit, info
<1>2. CASE awaitEmpty
  BY <1>2 DEF awaitEmpty
<1>3. CASE writeData
  <2>1. index \in Char /\ data = None /\ data' = index /\ index' = After(index)
    BY <1>3, AfterWraps DEF writeData, TypeOK
  <2> QED
    BY <1>3, <2>1 DEF writeData
<1>4. CASE Shift
  BY <1>4 DEF Shift
<1>5. CASE Transmit
  BY <1>5 DEF Transmit
<1>6. CASE HostReads \/ HostChanges \/ UNCHANGED vars
  BY <1>6 DEF HostReads, HostChanges, vars
<1> QED
  BY <1>1, <1>2, <1>3, <1>4, <1>5, <1>6 DEF Next, main, UART

\* The invariant of the characters under way.
LEMMA OrderFollowed == Spec => [](TypeOK /\ OrderInv)
<1>1. Init => TypeOK /\ OrderInv
  BY InitTypes, InitOrder
<1>2. TypeOK /\ OrderInv /\ [Next]_vars => (TypeOK /\ OrderInv)'
  BY NextTypes, NextOrder
<1> QED
  BY <1>1, <1>2, PTL DEF Spec

\* A step of the firmware puts the next character on the wire, or none.
LEMMA NextOnWire ==
  TypeOK /\ OrderInv /\ [Next]_vars => [Listener!Advance]_(Listener!streamVars)
<1> SUFFICES ASSUME TypeOK, OrderInv, [Next]_vars
    PROVE  Listener!Advance \/ UNCHANGED Listener!streamVars
  OBVIOUS
<1>1. CASE Transmit
  <2>1. wire.char \in Char /\ shift = After(wire.char)
    BY <1>1 DEF Transmit, TypeOK, OrderInv
  <2>2. wire'.char = (wire.char + 1) % Characters /\ wire'.frame = 1 - wire.frame
    BY <1>1, <2>1, AfterWraps DEF Transmit
  <2> QED
    BY <2>2 DEF Listener!Advance
<1>2. CASE UNCHANGED wire
  BY <1>2 DEF Listener!streamVars
<1>3. Transmit \/ UNCHANGED wire
  BY DEF Next, main, systemInit, uartInit, info, awaitEmpty, writeData, UART, Shift,
         HostReads, HostChanges, vars, uart
<1> QED
  BY <1>1, <1>2, <1>3

\* The wire shows the text character by character, none lost, repeated or out
\* of place, whatever the RTT host does (main.rs:91-95): the firmware's steps
\* are those of the stream or leave it as it is.
THEOREM TextInOrder == Spec => PrintsInOrder
<1>1. Init => Listener!Quiet
  BY DEF Init, Listener!Quiet
<1> QED
  BY <1>1, NextOnWire, OrderFollowed, PTL DEF Spec, PrintsInOrder, Listener!InOrder

\* The log never gets more than the UART's two characters ahead of the text
\* (main.rs:96).
THEOREM LogBehindWire == Spec => LogFollowsWire
<1>1. TypeOK /\ OrderInv /\ [Next]_vars
        => [pc = "logBlock" /\ pc' = "wait" => wire.char >= Characters - 3]_vars
  <2> SUFFICES ASSUME TypeOK, OrderInv, pc = "logBlock"
      PROVE  wire.char >= Characters - 3
    OBVIOUS
  <2>1. wire.char \in Char /\ shift \in Char \cup {None} /\ data \in Char \cup {None}
    BY DEF TypeOK
  <2>2. CASE data = None /\ shift = None
    BY <2>1, <2>2, SerialAssumption DEF OrderInv, After, Char
  <2>3. CASE data = None /\ shift # None
    BY <2>1, <2>3, SerialAssumption DEF OrderInv, After, Char, None
  <2>4. CASE data # None /\ shift = None
    BY <2>1, <2>4, SerialAssumption DEF OrderInv, After, Char, None
  <2>5. CASE data # None /\ shift # None
    BY <2>1, <2>5, SerialAssumption DEF OrderInv, After, Char, None
  <2> QED
    BY <2>2, <2>3, <2>4, <2>5
<1> QED
  BY <1>1, OrderFollowed, PTL DEF Spec, LogFollowsWire
=============================================================================
