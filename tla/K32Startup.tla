----------------------------- MODULE K32Startup -----------------------------
(***************************************************************************)
(* irqReset() of src/kinetis/k32/l2b/blink/startup.cxx: what happens to    *)
(* RAM between a reset and run().  The loops step by words, the sections   *)
(* are counted in bytes, and nothing in the linker script k32l2b.ld rounds *)
(* their ends, so a layout is any set of linker symbols.  RAM starts at    *)
(* beginData, which follows the 4 KiB stack and is aligned.  The processor *)
(* (ARMv6-M) faults on a misaligned word and on a write outside RAM.       *)
(***************************************************************************)
EXTENDS Integers

CONSTANTS
    RAMBytes,    \* bytes of RAM above the stack
    Layouts,     \* the layouts the linker may have produced
    MaxResets    \* bound on the resets after power-on

\* The linker's symbols, and where it put the initialisers of .data in flash.
LinkerSymbols ==
    [endText : Nat, loadData : Nat, endData : Nat, beginBSS : Nat, endBSS : Nat,
     ctors : Nat]

ASSUME RAMAssumption == RAMBytes \in Nat /\ RAMBytes % 4 = 0
ASSUME ResetAssumption == MaxResets \in Nat
ASSUME LayoutAssumption ==
    \A l \in Layouts :
        /\ l \in LinkerSymbols
        /\ l.endText <= l.loadData
        /\ l.endData <= l.beginBSS /\ l.beginBSS <= l.endBSS /\ l.endBSS <= RAMBytes

VARIABLES
    pc,       \* where the firmware is
    layout,   \* the program's linker symbols
    ram,      \* what every byte of RAM holds
    dst,      \* the loops' destination pointer
    ctor,     \* constructors called so far
    resets    \* resets so far

memory == <<layout, ram, dst, ctor>>

RAM == 0 .. RAMBytes - 1
\* "stale": from before the reset.  "init": its initialiser.  "junk": other
\* bytes of flash.  "live": written by the program itself.
ByteStates == {"stale", "init", "junk", "zero", "live"}

\* A write of one word by a loop that goes on, or the fault it takes.
StoreWord(load, bytes) ==
    \/ /\ load % 4 = 0 /\ dst % 4 = 0 /\ dst + 3 \in RAM
       /\ ram' = [b \in RAM |-> IF b \in dst .. dst + 3 THEN bytes[b] ELSE ram[b]]
       /\ dst' = dst + 4
       /\ UNCHANGED <<pc, layout, ctor>>
    \/ /\ ~(load % 4 = 0 /\ dst % 4 = 0 /\ dst + 3 \in RAM)
       /\ pc' = "hardFault"
       /\ UNCHANGED memory

\* What the copy brings to every byte: src starts at endText, wherever the
\* initialisers are.
Copied ==
    [b \in RAM |-> IF b < layout.endData /\ layout.loadData = layout.endText
                   THEN "init" ELSE "junk"]
Zeroes == [b \in RAM |-> "zero"]

\* Mutant: the constructors run before .bss is cleared.
copyDataThenConstruct ==
    /\ pc = "copy"
    /\ \/ dst < layout.endData /\ StoreWord(layout.endText + dst, Copied)
       \/ /\ dst >= layout.endData
          /\ pc' = "ctors" /\ dst' = layout.beginBSS
          /\ UNCHANGED <<layout, ram, ctor>>

copyData ==
    /\ pc = "copy"
    /\ \/ dst < layout.endData /\ StoreWord(layout.endText + dst, Copied)
       \/ /\ dst >= layout.endData
          /\ pc' = "clear" /\ dst' = layout.beginBSS
          /\ UNCHANGED <<layout, ram, ctor>>

\* Mutant: one word too many.
clearBSSOneMore ==
    /\ pc = "clear"
    /\ \/ dst <= layout.endBSS /\ StoreWord(0, Zeroes)
       \/ /\ dst > layout.endBSS
          /\ pc' = "ctors"
          /\ UNCHANGED memory

clearBSS ==
    /\ pc = "clear"
    /\ \/ dst < layout.endBSS /\ StoreWord(0, Zeroes)
       \/ /\ dst >= layout.endBSS
          /\ pc' = "ctors"
          /\ UNCHANGED memory

Data == 0 .. layout.endData - 1
BSS  == layout.beginBSS .. layout.endBSS - 1

\* A constructor may write any of the program's statics.
callCtors ==
    /\ pc = "ctors"
    /\ \/ /\ ctor < layout.ctors
          /\ \E written \in {{}, Data, BSS} :
                ram' = [b \in RAM |-> IF b \in written THEN "live" ELSE ram[b]]
          /\ ctor' = ctor + 1
          /\ UNCHANGED <<pc, layout, dst>>
       \/ /\ ctor >= layout.ctors
          /\ pc' = "run"
          /\ UNCHANGED memory

irqReset == (copyData \/ clearBSS \/ callCtors) /\ UNCHANGED resets

\* The handler gathers the fault's registers and stops at a breakpoint.
irqHardFault == pc = "hardFault" /\ UNCHANGED <<pc, memory, resets>>

PowerOn ==
    /\ layout \in Layouts
    /\ ram = [b \in RAM |-> "stale"]
    /\ pc = "copy" /\ dst = 0 /\ ctor = 0 /\ resets = 0

\* A reset, by the probe or the watchdog, keeps RAM and starts over.
Restart ==
    /\ resets < MaxResets /\ resets' = resets + 1
    /\ ram' = [b \in RAM |-> "stale"]
    /\ pc' = "copy" /\ dst' = 0 /\ ctor' = 0
    /\ UNCHANGED layout
-----------------------------------------------------------------------------
\* Layouts whose words are where the loops look for them.
Aligned ==
    /\ layout.endData > 0 => layout.endText % 4 = 0
    /\ layout.beginBSS < layout.endBSS => layout.beginBSS % 4 = 0

\* The linker moved the initialisers of .data up to its alignment.
Padded == layout.endData > 0 /\ layout.loadData # layout.endText

\* Constructors and run() never see a byte of .data or .bss that a previous run
\* or the power-on state left there, whatever the sections' sizes and whenever
\* the target was reset; unless .data needs a wider alignment than the end of
\* .text happens to have (startup.cxx:149-155).
StaticsReady ==
    pc \notin {"copy", "clear", "hardFault"} /\ ~Padded =>
        /\ \A b \in Data : ram[b] \in {"init", "live"}
        /\ \A b \in BSS : ram[b] \in {"zero", "live"}

\* With aligned section starts no loop faults, although the last word of a
\* section may reach past its end: it stays within RAM.
AlignedNeverFaults == Aligned => pc # "hardFault"
=============================================================================
