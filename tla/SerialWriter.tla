---------------------------- MODULE SerialWriter ----------------------------
(***************************************************************************)
(* src/stm32/f4/serial/src/main.rs: the firmware that prints a text on     *)
(* USART2, byte by byte with blocking writes, and logs a line to the probe *)
(* over RTT after every round.  External: the clock tree, the UART with a  *)
(* data and a shift register behind embassy's driver, and the RTT channel, *)
(* whose buffer drops a line that does not fit, unless an attached host    *)
(* asked for blocking: then the firmware waits for room.                   *)
(***************************************************************************)
EXTENDS Integers

CONSTANTS
    Characters,   \* length of UART_DATA (64 in the code)
    RTTLines,     \* log lines the RTT buffer holds
    MaxAttach     \* bound on how often a host attaches

ASSUME SerialAssumption ==
    /\ Characters \in Nat \ {0} /\ RTTLines \in Nat \ {0} /\ MaxAttach \in Nat

VARIABLES
    pc,
    hz,         \* core clock
    brr,        \* the UART's rate divisor
    index,      \* the character of UART_DATA to write next
    data,       \* the UART's data register, None when empty
    shift,      \* its shift register
    wire,       \* the last character on the wire, and its frame bit
    lines,      \* lines in the RTT buffer
    host,       \* the RTT host: "none", "reading" or "stalled"
    attached    \* how often a host attached

uart == <<data, shift, wire>>
rtt  == <<lines, host, attached>>
vars == <<pc, hz, brr, index, uart, rtt>>

None == -1
Char == 0 .. Characters - 1

\* APB1 runs at half the core clock (apb1_pre) once systemInit() is done.
APB1 == hz \div 2

Init ==
    /\ pc = "systemInit" /\ hz = 16000000 /\ brr = 0 /\ index = 0
    /\ data = None /\ shift = None
    /\ wire = [char |-> Characters - 1, frame |-> 0]
    /\ lines = 0 /\ host = "none" /\ attached = 0

-----------------------------------------------------------------------------
\* Mutant: the divider of a faster device of the family.
systemInitUndivided ==
    /\ pc = "systemInit" /\ pc' = "logStart"
    /\ hz' = ((16000000 \div 16) * 336) \div 2
    /\ UNCHANGED <<brr, index, uart, rtt>>

\* HSI / 16 * 336 / 4.
systemInit ==
    /\ pc = "systemInit" /\ pc' = "logStart"
    /\ hz' = ((16000000 \div 16) * 336) \div 4
    /\ UNCHANGED <<brr, index, uart, rtt>>

\* 115200 baud is all that the source sets; the driver computes the divisor from
\* it, rounded to the nearest.
uartInit ==
    /\ pc = "uartInit" /\ pc' = "wait"
    /\ brr' = (APB1 + 57600) \div 115200
    /\ UNCHANGED <<hz, index, uart, rtt>>

\* Mutant: a line that does not fit is waited for, whoever listens.
infoBlocks(at, to) ==
    /\ pc = at /\ pc' = to
    /\ lines < RTTLines /\ lines' = lines + 1
    /\ UNCHANGED <<hz, brr, index, uart, host, attached>>

\* info!
info(at, to) ==
    /\ pc = at /\ pc' = to
    /\ \/ lines < RTTLines /\ lines' = lines + 1
       \/ lines = RTTLines /\ host = "none" /\ UNCHANGED lines
    /\ UNCHANGED <<hz, brr, index, uart, host, attached>>

\* Mutant: the data register is written whether it is empty or not.
awaitEmptyNot ==
    /\ pc = "wait" /\ pc' = "write"
    /\ UNCHANGED <<hz, brr, index, uart, rtt>>

\* blocking_write(): the data register is polled until it is empty, and written.
awaitEmpty ==
    /\ pc = "wait" /\ data = None /\ pc' = "write"
    /\ UNCHANGED <<hz, brr, index, uart, rtt>>

\* Mutant: the text is not begun again.
writeDataEndless ==
    /\ pc = "write"
    /\ data' = index
    /\ index' = index + 1
    /\ pc' = IF index' = Characters THEN "logBlock" ELSE "wait"
    /\ UNCHANGED <<hz, brr, shift, wire, rtt>>

\* Mutant: the line is logged after every character.
writeDataLogged ==
    /\ pc = "write"
    /\ data' = index
    /\ index' = (index + 1) % Characters
    /\ pc' = "logBlock"
    /\ UNCHANGED <<hz, brr, shift, wire, rtt>>

writeData ==
    /\ pc = "write"
    /\ data' = index
    /\ index' = (index + 1) % Characters
    /\ pc' = IF index' = 0 THEN "logBlock" ELSE "wait"
    /\ UNCHANGED <<hz, brr, shift, wire, rtt>>

main ==
    \/ systemInit \/ info("logStart", "uartInit") \/ uartInit
    \/ awaitEmpty \/ writeData \/ info("logBlock", "wait")

-----------------------------------------------------------------------------
\* The UART moves a character to the shift register, and out.
Shift ==
    /\ data # None /\ shift = None
    /\ shift' = data /\ data' = None
    /\ UNCHANGED <<pc, hz, brr, index, wire, rtt>>

Transmit ==
    /\ shift # None
    /\ wire' = [char |-> shift, frame |-> 1 - wire.frame]
    /\ shift' = None
    /\ UNCHANGED <<pc, hz, brr, index, data, rtt>>

\* The RTT host comes, reads, stops reading without leaving, and leaves.
HostReads ==
    /\ host = "reading" /\ lines > 0 /\ lines' = lines - 1
    /\ UNCHANGED <<pc, hz, brr, index, uart, host, attached>>

\* A host that leaves takes back its wish to block; one that is pulled off
\* without doing so is "stalled" to the firmware.
HostChanges ==
    /\ \/ host = "none" /\ attached < MaxAttach
          /\ host' = "reading" /\ attached' = attached + 1
       \/ host = "reading" /\ host' \in {"stalled", "none"} /\ UNCHANGED attached
       \/ host = "stalled" /\ host' = "none" /\ UNCHANGED attached
    /\ UNCHANGED <<pc, hz, brr, index, uart, lines>>

UART == Shift \/ Transmit

Next == main \/ UART \/ HostReads \/ HostChanges

Spec == Init /\ [][Next]_vars
\* Processor and UART go on, and a host that reads reads on.
FairSpec == Spec /\ WF_vars(main) /\ WF_vars(UART) /\ WF_vars(HostReads)
-----------------------------------------------------------------------------
\* Every variable has its type.
TypeOK ==
    /\ pc \in {"systemInit", "logStart", "uartInit", "wait", "write", "logBlock"}
    /\ hz \in Nat /\ brr \in Nat
    /\ index \in Char
    /\ data \in Char \cup {None} /\ shift \in Char \cup {None}
    /\ wire \in [char : Char, frame : {0, 1}]
    /\ lines \in 0 .. RTTLines
    /\ host \in {"none", "reading", "stalled"} /\ attached \in 0 .. MaxAttach

\* Core and peripheral bus stay within the device's limits (100 and 50 MHz),
\* and what goes out of the UART has the advertised rate within two percent
\* (main.rs:45-59, 68).
ClockedWithinLimits ==
    /\ pc # "systemInit" => hz <= 100000000 /\ APB1 <= 50000000
    /\ shift # None => (APB1 \div brr) \in 112896 .. 117504

\* Every character appears on the wire, once and in order, whatever the RTT
\* host does meanwhile (main.rs:91-95).
Listener == INSTANCE CharacterStream WITH char <- wire.char, frame <- wire.frame
PrintsInOrder == Listener!InOrder

\* Only a host that asked for blocking and then stopped reading can stop the
\* text; one that leaves, or never came, does not (main.rs:96).
OnlyStalledHostStopsText ==
    <>[](host = "stalled") \/ ([]<>(wire.frame = 0) /\ []<>(wire.frame = 1))

\* The line that ends a block is logged when all but what the UART holds of the
\* block is on the wire: the log never gets more than two characters ahead.
LogFollowsWire ==
    [][pc = "logBlock" /\ pc' = "wait" => wire.char >= Characters - 3]_vars
=============================================================================
