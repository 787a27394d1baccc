--------------------------- MODULE K32Blink_proofs ---------------------------
(***************************************************************************)
(* Theorems about the K32 L2B firmware, for every layout the linker may    *)
(* produce, every size of RAM and delay, and any number of resets.         *)
(***************************************************************************)
EXTENDS K32Blink, TLAPS

\* The firmware is past the loops of irqReset().
Started == pc \notin {"copy", "clear", "hardFault"}

\* What the loops have done so far.  The copy has brought the bytes below dst;
\* the clearing leaves these alone and has cleared those from beginBSS to dst;
\* afterwards only constructors write.
StartInv ==
    /\ pc = "copy" =>
          /\ dst % 4 = 0 /\ dst <= RAMBytes
          /\ \A b \in RAM : b < dst => ram[b] = Copied[b]
    /\ pc = "clear" =>
          /\ layout.beginBSS <= dst
          /\ Aligned /\ layout.beginBSS < layout.endBSS => dst % 4 = 0
          /\ \A b \in Data : ram[b] = Copied[b]
          /\ \A b \in RAM : layout.beginBSS <= b /\ b < dst => ram[b] = "zero"
    /\ Started =>
          /\ \A b \in Data : ram[b] \in {Copied[b], "live"}
          /\ \A b \in BSS : ram[b] \in {"zero", "live"}

Starting == {"copy", "clear", "ctors", "hardFault", "run"}
Switched == {"cleanUp", "enablePortC", "setHigh", "setOutput", "toggle", "delay"}

\* The clock generator at each point of clockSetup().
ClockInv ==
    /\ pc \in Starting \cup {"enableHIRC"} => mcg = OutOfReset
    /\ pc \notin Starting \cup {"enableHIRC"} => mcg.misc = 128
    /\ pc \notin Starting => cop = 0
    /\ pc = "toHIRC" => (mcg.status = 0 => mcg.ctrl1 = 0)
    /\ pc = "configureLIRC" => mcg.status = 0 /\ mcg.ctrl1 = 0
    /\ pc \in {"toLIRC"} \cup Switched => mcg.ctrl2 = 0
    /\ pc = "toLIRC" => (mcg.status = 4 => mcg.ctrl1 = 64)
    /\ pc \in Switched => mcg.status = 4 /\ mcg.ctrl1 = 64

\* The port at each point of gpioSetup() and the loop of run().
PortInv ==
    /\ gateC <=> pc \in {"setHigh", "setOutput", "toggle", "delay"}
    /\ pc \notin {"setOutput", "toggle", "delay"} => port.out = {}
    /\ pc = "setOutput" => port.out = Pins
    /\ pc \in {"toggle", "delay"} => {1, 2} \subseteq port.out /\ port.dir = Pins
    /\ pc \notin {"toggle", "delay"} => port.dir = {}

-----------------------------------------------------------------------------
\* The registers out of reset have their types.
LEMMA OutOfResetTypes ==
  /\ OutOfReset \in [ctrl1 : {0, 64}, ctrl2 : {0, 1}, misc : {0, 128}, status : {0, 4}]
  /\ [out |-> {}, dir |-> {}] \in [out : SUBSET Pins, dir : SUBSET Pins]
  /\ [b \in RAM |-> "stale"] \in [RAM -> ByteStates]
  /\ 0 \in 0 .. Delay /\ 0 \in 0 .. MaxResets
<1>1. OutOfReset \in [ctrl1 : {0, 64}, ctrl2 : {0, 1}, misc : {0, 128}, status : {0, 4}]
  BY DEF OutOfReset
<1>2. [out |-> {}, dir |-> {}] \in [out : SUBSET Pins, dir : SUBSET Pins]
  OBVIOUS
<1>3. [b \in RAM |-> "stale"] \in [RAM -> ByteStates]
  BY DEF ByteStates
<1>4. 0 \in 0 .. Delay /\ 0 \in 0 .. MaxResets
  BY ResetAssumption, DelayAssumption
<1> QED
  BY <1>1, <1>2, <1>3, <1>4

\* Power-on establishes the types.
LEMMA InitTypes == Init => TypeOK
<1> SUFFICES ASSUME Init PROVE TypeOK
  OBVIOUS
<1>1. layout \in Layouts /\ ram \in [RAM -> ByteStates]
  BY OutOfResetTypes DEF Init, PowerOn
<1>2. pc = "copy" /\ dst \in Nat /\ ctor \in Nat
  BY DEF Init, PowerOn
<1>3. resets \in 0 .. MaxResets /\ i \in 0 .. Delay
  BY OutOfResetTypes DEF Init, PowerOn
<1>4. cop \in {0, 12} /\ gateC \in BOOLEAN
  BY DEF Init
<1>5. mcg \in [ctrl1 : {0, 64}, ctrl2 : {0, 1}, misc : {0, 128}, status : {0, 4}]
  BY OutOfResetTypes DEF Init
<1>6. port \in [out : SUBSET Pins, dir : SUBSET Pins]
  BY OutOfResetTypes DEF Init
<1> QED
  BY <1>1, <1>2, <1>3, <1>4, <1>5, <1>6 DEF TypeOK

\* A store of one of the loops keeps the memory's types.
LEMMA StoreTypes ==
  ASSUME NEW load \in Int, NEW bytes \in [RAM -> ByteStates], TypeOK,
         pc \in {"copy", "clear"}, StoreWord(load, bytes)
  PROVE  /\ pc' \in {"copy", "clear", "hardFault"} /\ layout' \in Layouts
         /\ ram' \in [RAM -> ByteStates] /\ dst' \in Nat /\ ctor' \in Nat
BY DEF TypeOK, StoreWord, memory

\* What the loops store are states of bytes.
LEMMA CopiedTypes == Copied \in [RAM -> ByteStates] /\ Zeroes \in [RAM -> ByteStates]
BY DEF Copied, Zeroes, ByteStates

\* The linker's symbols are ordered addresses within RAM.
LEMMA LayoutTypes ==
  ASSUME TypeOK
  PROVE  /\ layout.endText \in Nat /\ layout.loadData \in Nat /\ layout.endData \in Nat
         /\ layout.beginBSS \in Nat /\ layout.endBSS \in Nat /\ layout.ctors \in Nat
         /\ layout.endData <= layout.beginBSS /\ layout.beginBSS <= layout.endBSS
         /\ layout.endBSS <= RAMBytes
BY LayoutAssumption DEF TypeOK, LinkerSymbols

\* irqReset() keeps the types.
LEMMA ResetTypes ==
  ASSUME TypeOK, irqReset, UNCHANGED <<peripherals, i>>
  PROVE  TypeOK'
<1> USE DEF peripherals
<1>0. USE LayoutTypes
<1>1. CASE copyData
  <2>1. CASE dst < layout.endData /\ StoreWord(layout.endText + dst, Copied)
    <3>1. pc = "copy" /\ layout.endText + dst \in Int
      BY <1>1 DEF copyData, TypeOK
    <3> QED
      BY <3>1, <2>1, CopiedTypes, StoreTypes DEF TypeOK, irqReset
  <2>2. CASE dst >= layout.endData /\ pc' = "clear" /\ dst' = layout.beginBSS
             /\ UNCHANGED <<layout, ram, ctor>>
    BY <2>2 DEF TypeOK, irqReset
  <2> QED
    BY <1>1, <2>1, <2>2 DEF copyData
<1>2. CASE clearBSS
  <2>1. CASE dst < layout.endBSS /\ StoreWord(0, Zeroes)
    BY <1>2, <2>1, CopiedTypes, StoreTypes DEF TypeOK, irqReset, clearBSS
  <2>2. CASE pc' = "ctors" /\ UNCHANGED memory
    BY <2>2 DEF TypeOK, irqReset, memory
  <2> QED
    BY <1>2, <2>1, <2>2 DEF clearBSS
<1>3. CASE callCtors
  <2>1. CASE pc' = "run" /\ UNCHANGED memory
    BY <2>1 DEF TypeOK, irqReset, memory
  <2>2. ASSUME NEW written \in {{}, Data, BSS},
               ram' = [b \in RAM |-> IF b \in written THEN "live" ELSE ram[b]],
               ctor' = ctor + 1, UNCHANGED <<pc, layout, dst>>
        PROVE  TypeOK'
    BY <2>2 DEF TypeOK, irqReset, ByteStates
  <2> QED
    BY <1>3, <2>1, <2>2 DEF callCtors
<1> QED
  BY <1>1, <1>2, <1>3 DEF irqReset

\* The mode loop leaves its label only for the next and keeps the types.
LEMMA SwitchTypes ==
  ASSUME TypeOK, NEW at, NEW mode \in {"HIRC", "LIRC"},
         NEW next \in {"configureLIRC", "cleanUp"}, switchTo(at, mode, next)
  PROVE  TypeOK'
BY DEF TypeOK, switchTo, Step, memory, ctrl1ClkMode

\* clockSetup() keeps the types.
LEMMA ClockTypes ==
  ASSUME TypeOK, clockSetup
  PROVE  TypeOK'
<1> USE DEF Step, memory
<1>1. CASE disableWatchdog
  BY <1>1 DEF TypeOK, disableWatchdog, copCtrlDisabled
<1>2. CASE enableHIRC
  BY <1>2 DEF TypeOK, enableHIRC, miscCtrlHIRClkEnabled
<1>3. CASE switchTo("toHIRC", "HIRC", "configureLIRC") \/ switchTo("toLIRC", "LIRC", "cleanUp")
  BY <1>3, SwitchTypes
<1>4. CASE configureLIRC
  <2> DEFINE ranges == {0, 1}
             enables == {0, 128}
             registers == [ctrl1 : {0, 64}, ctrl2 : ranges, misc : enables, status : {0, 4}]
  <2>1. mcg' = [mcg EXCEPT !.ctrl2 = ctrl2LIRC2MHz, !.misc = miscCtrlHIRClkEnabled]
    BY <1>4, Zenon DEF configureLIRC
  <2>2. mcg \in registers
    BY Zenon DEF TypeOK
  <2>3. ctrl2LIRC2MHz \in ranges /\ miscCtrlHIRClkEnabled \in enables
    BY DEF ctrl2LIRC2MHz, miscCtrlHIRClkEnabled
  <2> HIDE DEF ranges, enables
  <2>4. mcg' \in registers
    BY <2>1, <2>2, <2>3
  <2> USE DEF ranges, enables
  <2> QED
    BY <1>4, <2>4 DEF TypeOK, configureLIRC
<1>5. CASE cleanUp
  BY <1>5 DEF TypeOK, cleanUp, miscCtrlHIRClkDisabled
<1>6. CASE enablePortC
  BY <1>6 DEF TypeOK, enablePortC
<1> QED
  BY <1>1, <1>2, <1>3, <1>4, <1>5, <1>6 DEF clockSetup

\* gpioSetup() and the loop of run() keep the types.
LEMMA BlinkTypes ==
  ASSUME TypeOK, gpioSetup \/ toggleLED \/ delay
  PROVE  TypeOK'
<1> USE DEF Step, memory, Pins, WritePort
<1>1. CASE gpioSetup
  BY <1>1 DEF TypeOK, gpioSetup
<1>2. CASE toggleLED
  BY <1>2, DelayAssumption DEF TypeOK, toggleLED
<1>3. CASE delay
  BY <1>3, DelayAssumption DEF TypeOK, delay, peripherals
<1> QED
  BY <1>1, <1>2, <1>3

\* Every step of the firmware, the clock generator and the reset keeps the types.
LEMMA NextTypes == TypeOK /\ [Next]_vars => TypeOK'
<1> SUFFICES ASSUME TypeOK, [Next]_vars PROVE TypeOK'
  OBVIOUS
<1>1. CASE irqReset /\ UNCHANGED <<peripherals, i>>
  BY <1>1, ResetTypes
<1>2. CASE irqHardFault /\ UNCHANGED <<peripherals, i>>
  BY <1>2 DEF irqHardFault, TypeOK, memory, peripherals
<1>3. CASE run
  BY <1>3, ClockTypes, BlinkTypes DEF run
<1>4. CASE SwitchMode
  BY <1>4 DEF SwitchMode, TypeOK, memory, Asked
<1>5. CASE Reset
  <2>1. resets' \in 0 .. MaxResets
    BY <1>5, ResetAssumption DEF Reset, Restart, TypeOK
  <2> QED
    BY <1>5, <2>1, OutOfResetTypes DEF Reset, Restart, ResetPeripherals, TypeOK
<1>6. CASE UNCHANGED vars
  BY <1>6 DEF vars, memory, peripherals, TypeOK
<1> QED
  BY <1>1, <1>2, <1>3, <1>4, <1>5, <1>6 DEF Next, Firmware

\* The firmware stays within its types (startup.cxx, blink.cxx).
THEOREM FirmwareTypes == Spec => []TypeOK
BY InitTypes, NextTypes, PTL DEF Spec

-----------------------------------------------------------------------------
\* The copy brings the bytes below dst, and leaves them when it ends.
LEMMA CopyStart ==
  ASSUME TypeOK, StartInv, copyData
  PROVE  StartInv'
<1> USE LayoutTypes, RAMAssumption DEF RAM
<1>0. pc = "copy" /\ dst \in Nat /\ layout' = layout /\ ram \in [RAM -> ByteStates]
  BY DEF copyData, TypeOK, StoreWord, memory
<1>a. Copied' = Copied /\ Data' = Data /\ BSS' = BSS /\ Data \subseteq RAM
  BY <1>0 DEF Copied, Data, BSS
<1>b. dst % 4 = 0 /\ dst <= RAMBytes /\ \A b \in RAM : b < dst => ram[b] = Copied[b]
  BY <1>0 DEF StartInv
<1>1. CASE dst < layout.endData /\ StoreWord(layout.endText + dst, Copied)
  <2>1. CASE pc' = "hardFault"
    BY <2>1 DEF StartInv, Started
  <2>2. CASE pc' # "hardFault"
    <3>1. /\ dst + 3 \in RAM /\ dst' = dst + 4 /\ pc' = "copy"
          /\ ram' = [b \in RAM |-> IF b \in dst .. dst + 3 THEN Copied[b] ELSE ram[b]]
      BY <1>0, <1>1, <2>2 DEF StoreWord
    <3>2. dst' % 4 = 0 /\ dst' <= RAMBytes
      BY <1>0, <1>b, <3>1
    <3>3. ASSUME NEW b \in RAM, b < dst' PROVE ram'[b] = Copied[b]
      BY <1>0, <1>b, <3>1, <3>3
    <3> QED
      BY <1>a, <3>1, <3>2, <3>3 DEF StartInv, Started
  <2> QED
    BY <2>1, <2>2
<1>2. CASE dst >= layout.endData /\ pc' = "clear" /\ dst' = layout.beginBSS
           /\ UNCHANGED <<layout, ram, ctor>>
  <2>1. \A b \in Data : ram[b] = Copied[b]
    BY <1>0, <1>a, <1>b, <1>2 DEF Data
  <2>2. Aligned' /\ layout'.beginBSS < layout'.endBSS => dst' % 4 = 0
    BY <1>2 DEF Aligned
  <2> QED
    BY <1>0, <1>a, <1>2, <2>1, <2>2 DEF StartInv, Started
<1> QED
  BY <1>1, <1>2 DEF copyData

\* The clearing leaves the copied data alone.
LEMMA ClearStart ==
  ASSUME TypeOK, StartInv, clearBSS
  PROVE  StartInv'
<1> USE LayoutTypes, RAMAssumption DEF RAM
<1>0. pc = "clear" /\ dst \in Nat /\ layout' = layout /\ ram \in [RAM -> ByteStates]
  BY DEF clearBSS, TypeOK, StoreWord, memory
<1>a. /\ Copied' = Copied /\ Data' = Data /\ BSS' = BSS
      /\ Data \subseteq RAM /\ BSS \subseteq RAM
  BY <1>0, SMTT(30) DEF Copied, Data, BSS
<1>b. /\ layout.beginBSS <= dst
      /\ \A b \in Data : ram[b] = Copied[b]
      /\ \A b \in RAM : layout.beginBSS <= b /\ b < dst => ram[b] = "zero"
  BY <1>0 DEF StartInv
<1>1. CASE dst < layout.endBSS /\ StoreWord(0, Zeroes)
  <2>1. CASE pc' = "hardFault"
    BY <2>1 DEF StartInv, Started
  <2>2. CASE pc' # "hardFault"
    <3>1. /\ dst % 4 = 0 /\ dst + 3 \in RAM /\ dst' = dst + 4 /\ pc' = "clear"
          /\ ram' = [b \in RAM |-> IF b \in dst .. dst + 3 THEN "zero" ELSE ram[b]]
      BY <1>0, <1>1, <2>2 DEF StoreWord, Zeroes
    <3>2. dst' % 4 = 0 /\ layout.beginBSS <= dst'
      BY <1>0, <1>b, <3>1
    <3>3. ASSUME NEW b \in Data PROVE ram'[b] = Copied[b]
      BY <1>0, <1>a, <1>b, <3>1, <3>3 DEF Data
    <3>4. ASSUME NEW b \in RAM, layout.beginBSS <= b, b < dst' PROVE ram'[b] = "zero"
      BY <1>0, <1>b, <3>1, <3>4
    <3> QED
      BY <1>0, <1>a, <3>1, <3>2, <3>3, <3>4 DEF StartInv, Started
  <2> QED
    BY <2>1, <2>2
<1>2. CASE dst >= layout.endBSS /\ pc' = "ctors" /\ UNCHANGED memory
  <2>1. \A b \in BSS : ram[b] = "zero"
    BY <1>0, <1>a, <1>b, <1>2 DEF BSS
  <2> QED
    BY <1>0, <1>a, <1>b, <1>2, <2>1 DEF StartInv, Started, memory
<1> QED
  BY <1>1, <1>2 DEF clearBSS

\* Constructors make live what they write and leave the rest.
LEMMA CtorsStart ==
  ASSUME TypeOK, StartInv, callCtors
  PROVE  StartInv'
<1>0. pc = "ctors" /\ layout' = layout /\ ram \in [RAM -> ByteStates]
  BY DEF callCtors, TypeOK, memory
<1>a. Copied' = Copied /\ Data' = Data /\ BSS' = BSS
  BY <1>0 DEF Copied, Data, BSS
<1>b. Data \subseteq RAM /\ BSS \subseteq RAM
  BY LayoutTypes, RAMAssumption DEF Data, BSS, RAM
<1>c. /\ \A b \in Data : ram[b] \in {Copied[b], "live"}
      /\ \A b \in BSS : ram[b] \in {"zero", "live"}
  BY <1>0 DEF StartInv, Started
<1>1. pc' \in {"ctors", "run"}
  BY <1>0 DEF callCtors
<1>2. \A b \in RAM : ram'[b] \in {ram[b], "live"}
  BY <1>0 DEF callCtors, memory
<1>3. /\ \A b \in Data : ram'[b] \in {Copied[b], "live"}
      /\ \A b \in BSS : ram'[b] \in {"zero", "live"}
  BY <1>b, <1>c, <1>2
<1> QED
  BY <1>a, <1>1, <1>3 DEF StartInv, Started

\* Every step keeps what has been copied, cleared and built: run() does not
\* touch these sections in the model, and a reset starts over.
LEMMA NextStart == TypeOK /\ StartInv /\ [Next]_vars => StartInv'
<1> SUFFICES ASSUME TypeOK, StartInv, [Next]_vars PROVE StartInv'
  OBVIOUS
<1>1. CASE irqReset
  BY <1>1, CopyStart, ClearStart, CtorsStart DEF irqReset
<1>2. CASE run
  <2>1. Started /\ Started' /\ UNCHANGED memory /\ pc' \notin {"copy", "clear"}
    <3> USE DEF Step, Started
    <3>1. CASE clockSetup
      BY <3>1 DEF clockSetup, disableWatchdog, enableHIRC, switchTo, configureLIRC,
                  cleanUp, enablePortC
    <3>2. CASE gpioSetup \/ toggleLED \/ delay
      BY <3>2 DEF gpioSetup, toggleLED, delay
    <3> QED
      BY <1>2, <3>1, <3>2 DEF run
  <2>2. Copied' = Copied /\ Data' = Data /\ BSS' = BSS /\ ram' = ram
    BY <2>1 DEF memory, Copied, Data, BSS
  <2> QED
    BY <2>1, <2>2 DEF StartInv, Started
<1>3. CASE Reset
  <2>1. pc' = "copy" /\ dst' = 0
    BY <1>3 DEF Reset, Restart
  <2>2. dst' % 4 = 0 /\ dst' <= RAMBytes /\ \A b \in RAM : ~(b < dst')
    BY <2>1, RAMAssumption DEF RAM
  <2> QED
    BY <2>1, <2>2 DEF StartInv, Started
<1>4. CASE UNCHANGED <<pc, memory>>
  BY <1>4 DEF StartInv, Started, memory, Copied, Data, BSS, Aligned
<1>5. irqReset \/ run \/ Reset \/ UNCHANGED <<pc, memory>>
  BY DEF Next, Firmware, irqHardFault, SwitchMode, vars
<1> QED
  BY <1>1, <1>2, <1>3, <1>4, <1>5

\* Nothing has been copied at power-on.
LEMMA InitStart == Init => StartInv
BY RAMAssumption DEF Init, PowerOn, StartInv, Started, RAM

\* Copied bytes are the initialisers unless the linker moved them.
LEMMA StartReady == TypeOK /\ StartInv => StaticsReady
<1> SUFFICES ASSUME TypeOK, StartInv, Started, ~Padded
    PROVE  /\ \A b \in Data : ram[b] \in {"init", "live"}
           /\ \A b \in BSS : ram[b] \in {"zero", "live"}
  BY DEF StaticsReady, Started
<1>1. ASSUME NEW b \in Data PROVE Copied[b] = "init"
  BY LayoutTypes, RAMAssumption DEF Data, RAM, Copied, Padded
<1> QED
  BY <1>1 DEF StartInv

\* Constructors and run() find .data and .bss as the program wrote them, for
\* every layout and after any number of resets (startup.cxx:149-155).
THEOREM StaticsStayReady == Spec => []StaticsReady
<1>1. Init => TypeOK /\ StartInv
  BY InitTypes, InitStart
<1>2. TypeOK /\ StartInv /\ [Next]_vars => (TypeOK /\ StartInv)'
  BY NextTypes, NextStart
<1> QED
  BY <1>1, <1>2, StartReady, PTL DEF Spec

\* The loops' words are aligned and within RAM.
LEMMA NextNoFault == TypeOK /\ StartInv /\ AlignedNeverFaults /\ [Next]_vars => AlignedNeverFaults'
<1> SUFFICES ASSUME TypeOK, StartInv, AlignedNeverFaults, [Next]_vars, Aligned',
                    pc' = "hardFault"
    PROVE  FALSE
  BY DEF AlignedNeverFaults
<1> USE LayoutTypes, RAMAssumption DEF RAM
<1>1. layout' = layout
  BY DEF Next, Firmware, irqReset, irqHardFault, copyData, clearBSS, callCtors, StoreWord,
         SwitchMode, run, clockSetup, disableWatchdog, enableHIRC, switchTo,
         configureLIRC, cleanUp, enablePortC, gpioSetup, toggleLED, delay, Step, Reset,
         Restart, vars, memory
<1>2. Aligned /\ pc # "hardFault"
  BY <1>1 DEF Aligned, AlignedNeverFaults
<1>3. CASE copyData
  <2>1. pc = "copy" /\ dst < layout.endData /\ StoreWord(layout.endText + dst, Copied)
    BY <1>3 DEF copyData
  <2>2. dst \in Nat /\ dst % 4 = 0 /\ layout.endText % 4 = 0
    BY <1>2, <2>1 DEF Aligned, StartInv, TypeOK
  <2>3. (layout.endText + dst) % 4 = 0 /\ dst + 3 < RAMBytes
    BY <2>1, <2>2
  <2> QED
    BY <2>1, <2>2, <2>3 DEF StoreWord
<1>4. CASE clearBSS
  <2>1. pc = "clear" /\ dst < layout.endBSS /\ StoreWord(0, Zeroes)
    BY <1>4 DEF clearBSS, memory
  <2>2. dst \in Nat /\ dst % 4 = 0
    BY <1>2, <2>1 DEF Aligned, StartInv, TypeOK
  <2>3. dst + 3 < RAMBytes
    BY <2>1, <2>2
  <2> QED
    BY <2>1, <2>2, <2>3 DEF StoreWord
<1>5. CASE run
  BY <1>5 DEF run, clockSetup, disableWatchdog, enableHIRC, switchTo, configureLIRC,
              cleanUp, enablePortC, gpioSetup, toggleLED, delay, Step
<1>6. CASE callCtors \/ irqHardFault \/ SwitchMode \/ Reset \/ UNCHANGED vars
  BY <1>2, <1>6 DEF callCtors, irqHardFault, SwitchMode, Reset, Restart, vars
<1> QED
  BY <1>3, <1>4, <1>5, <1>6 DEF Next, Firmware, irqReset

\* No word of the loops is misaligned or outside RAM when the sections start on
\* words, wherever they end (startup.cxx:150-153).
THEOREM AlignedStaysFaultless == Spec => []AlignedNeverFaults
<1>1. Init => TypeOK /\ StartInv /\ AlignedNeverFaults
  BY InitTypes, InitStart DEF Init, PowerOn, AlignedNeverFaults
<1>2. TypeOK /\ StartInv /\ AlignedNeverFaults /\ [Next]_vars
        => (TypeOK /\ StartInv /\ AlignedNeverFaults)'
  BY NextTypes, NextStart, NextNoFault
<1> QED
  BY <1>1, <1>2, PTL DEF Spec

-----------------------------------------------------------------------------
\* The clock generator is out of reset until run() begins.
LEMMA InitClock == Init => ClockInv
BY DEF Init, PowerOn, ClockInv, Starting, Switched, OutOfReset

\* One pass of a mode loop: it goes on only once the status shows the mode.
LEMMA SwitchClock ==
  ASSUME TypeOK, ClockInv,
         switchTo("toHIRC", "HIRC", "configureLIRC") \/ switchTo("toLIRC", "LIRC", "cleanUp")
  PROVE  ClockInv'
<1> USE DEF ctrl1ClkMode, statusClkMode, Starting, Switched
<1>1. CASE switchTo("toHIRC", "HIRC", "configureLIRC")
  BY <1>1 DEF switchTo, Step, TypeOK, ClockInv
<1>2. CASE switchTo("toLIRC", "LIRC", "cleanUp")
  BY <1>2 DEF switchTo, Step, TypeOK, ClockInv
<1> QED
  BY <1>1, <1>2

\* The rest of clockSetup().
LEMMA SetupClock ==
  ASSUME TypeOK, ClockInv, clockSetup
  PROVE  ClockInv'
<1> USE DEF Step, TypeOK, ClockInv, Starting, Switched
<1>1. CASE disableWatchdog
  BY <1>1 DEF disableWatchdog, copCtrlDisabled
<1>2. CASE enableHIRC
  BY <1>2 DEF enableHIRC, miscCtrlHIRClkEnabled, OutOfReset
<1>3. CASE configureLIRC
  BY <1>3 DEF configureLIRC, miscCtrlHIRClkEnabled, ctrl2LIRC2MHz
<1>4. CASE cleanUp
  BY <1>4 DEF cleanUp, miscCtrlHIRClkDisabled
<1>5. CASE enablePortC
  BY <1>5 DEF enablePortC
<1> QED
  BY <1>1, <1>2, <1>3, <1>4, <1>5, SwitchClock DEF clockSetup

\* The generator takes up a mode only where the firmware may be waiting for it.
LEMMA ModeClock ==
  ASSUME TypeOK, ClockInv, SwitchMode
  PROVE  ClockInv'
<1>1. /\ mcg \in [ctrl1 : {0, 64}, ctrl2 : {0, 1}, misc : {0, 128}, status : {0, 4}]
      /\ mcg' = [mcg EXCEPT !.status = Asked] /\ Asked # mcg.status
      /\ pc' = pc /\ cop' = cop
  BY DEF TypeOK, SwitchMode
<1>2. (mcg.ctrl1 = 0 => Asked = 0) /\ (mcg.ctrl1 = 64 => Asked = 4)
  BY <1>1 DEF Asked
<1>3. pc \notin Starting \cup {"enableHIRC", "configureLIRC"} \cup Switched
  BY <1>1, <1>2 DEF ClockInv, OutOfReset
<1> QED
  BY <1>1, <1>2, <1>3 DEF ClockInv, Starting, Switched

\* Every step keeps the clock generator where the code expects it.
LEMMA NextClock == TypeOK /\ ClockInv /\ [Next]_vars => ClockInv'
<1> SUFFICES ASSUME TypeOK, ClockInv, [Next]_vars PROVE ClockInv'
  OBVIOUS
<1>1. CASE irqReset /\ UNCHANGED <<peripherals, i>>
  <2>1. pc \in Starting /\ pc' \in Starting /\ UNCHANGED <<mcg, cop>>
    BY <1>1 DEF irqReset, copyData, clearBSS, callCtors, StoreWord, Starting, peripherals
  <2> QED
    BY <2>1 DEF ClockInv, Starting, Switched
<1>2. CASE gpioSetup \/ toggleLED \/ delay
  <2>1. pc \in Switched /\ pc' \in Switched /\ UNCHANGED <<mcg, cop>>
    BY <1>2 DEF gpioSetup, toggleLED, delay, Step, Switched, peripherals
  <2> QED
    BY <2>1 DEF ClockInv, Starting, Switched
<1>3. CASE Reset
  BY <1>3 DEF Reset, Restart, ResetPeripherals, ClockInv, Starting, Switched
<1>4. CASE UNCHANGED <<pc, mcg, cop>>
  BY <1>4 DEF ClockInv
<1>5. CASE (irqHardFault /\ UNCHANGED <<peripherals, i>>) \/ UNCHANGED vars
  BY <1>4, <1>5 DEF irqHardFault, vars, peripherals
<1> QED
  BY <1>1, <1>2, <1>3, <1>5, SetupClock, ModeClock DEF Next, Firmware, run

\* The invariant of the switch, however long the generator takes for a switch.
LEMMA ClockFollowed == Spec => [](TypeOK /\ ClockInv)
<1>1. Init => TypeOK /\ ClockInv
  BY InitTypes, InitClock
<1>2. TypeOK /\ ClockInv /\ [Next]_vars => (TypeOK /\ ClockInv)'
  BY NextTypes, NextClock
<1> QED
  BY <1>1, <1>2, PTL DEF Spec

\* The processor is never left on a clock that is turned off (blink.cxx:43-54).
THEOREM ProcessorClocked == Spec => []NeverUnclocked
<1>1. TypeOK /\ ClockInv => NeverUnclocked
  <2> SUFFICES ASSUME TypeOK, ClockInv, mcg.status = 0 PROVE HIRCOn
    BY DEF NeverUnclocked, Clocked, OnHIRC
  <2>1. pc \notin Starting \cup {"enableHIRC"}
    BY DEF ClockInv, OutOfReset
  <2> QED
    BY <2>1 DEF ClockInv, HIRCOn
<1> QED
  BY <1>1, ClockFollowed, PTL

\* The LED blinks on the slow reference without the watchdog, whenever the
\* generator took up the modes (blink.cxx:41-56).
THEOREM BlinkClockSlow == Spec => []BlinksOnSlowClock
<1>1. TypeOK /\ ClockInv => BlinksOnSlowClock
  <2> SUFFICES ASSUME ClockInv, pc \in {"toggle", "delay"}
      PROVE  ~OnHIRC /\ Asked = 4 /\ SlowLIRC /\ WatchdogOff
    BY DEF BlinksOnSlowClock
  <2>1. cop = 0 /\ mcg.ctrl2 = 0 /\ mcg.status = 4 /\ mcg.ctrl1 = 64
    BY DEF ClockInv, Starting, Switched
  <2> QED
    BY <2>1 DEF OnHIRC, Asked, SlowLIRC, WatchdogOff
<1> QED
  BY <1>1, ClockFollowed, PTL

\* The range of the slow reference changes only while the processor runs on the
\* other (blink.cxx:42-47).
THEOREM RangeChangedSafely == Spec => RangeChangedOffClock
<1>1. TypeOK /\ ClockInv /\ [Next]_vars
        => [mcg'.ctrl2 # mcg.ctrl2 /\ pc' # "copy" => OnHIRC /\ Asked = 0]_vars
  <2> SUFFICES ASSUME TypeOK, ClockInv, [Next]_vars, mcg'.ctrl2 # mcg.ctrl2, pc' # "copy"
      PROVE  OnHIRC /\ Asked = 0
    OBVIOUS
  <2>1. mcg \in [ctrl1 : {0, 64}, ctrl2 : {0, 1}, misc : {0, 128}, status : {0, 4}]
    BY DEF TypeOK
  <2>2. CASE configureLIRC
    BY <2>2 DEF configureLIRC, Step, ClockInv, OnHIRC, Asked
  <2>3. CASE clockSetup /\ ~configureLIRC
    BY <2>1, <2>3 DEF clockSetup, disableWatchdog, enableHIRC, switchTo, cleanUp, enablePortC
  <2>4. CASE gpioSetup \/ toggleLED \/ delay
    BY <2>4 DEF gpioSetup, toggleLED, delay, peripherals
  <2>5. CASE SwitchMode
    BY <2>1, <2>5 DEF SwitchMode
  <2>6. CASE Reset
    BY <2>6 DEF Reset, Restart
  <2>7. CASE UNCHANGED mcg
    BY <2>7
  <2> QED
    BY <2>2, <2>3, <2>4, <2>5, <2>6, <2>7 DEF Next, Firmware, run, peripherals, vars
<1> QED
  BY <1>1, ClockFollowed, PTL DEF Spec, RangeChangedOffClock

-----------------------------------------------------------------------------
Gated == {"setHigh", "setOutput", "toggle", "delay"}

\* The port is out of reset and not clocked at power-on.
LEMMA InitPort == Init => PortInv
BY DEF Init, PowerOn, PortInv

\* gpioSetup() and the toggling write a clocked port, the levels before the
\* direction.
LEMMA WritePortInv ==
  ASSUME TypeOK, PortInv, gpioSetup \/ toggleLED \/ delay
  PROVE  PortInv'
<1>1. port.out \in SUBSET Pins /\ port.dir \in SUBSET Pins
  BY DEF TypeOK
<1>2. pc \in Gated /\ pc' \in {"setOutput", "toggle", "delay"} /\ gateC' = gateC
  BY DEF gpioSetup, toggleLED, delay, Step, peripherals, Gated
<1>3. gateC
  BY <1>2 DEF PortInv, Gated
<1>4. CASE Step("setHigh", "setOutput") /\ WritePort(port.out \cup Pins, port.dir)
  <2>1. pc = "setHigh" /\ pc' = "setOutput" /\ port' = [out |-> Pins, dir |-> port.dir]
    BY <1>1, <1>3, <1>4 DEF Step, WritePort
  <2> QED
    BY <2>1, <1>2, <1>3 DEF PortInv
<1>5. CASE Step("setOutput", "toggle") /\ WritePort(port.out, port.dir \cup Pins)
  <2>1. pc = "setOutput" /\ pc' = "toggle" /\ port' = [out |-> port.out, dir |-> Pins]
    BY <1>1, <1>3, <1>5 DEF Step, WritePort
  <2>2. port.out = Pins
    BY <2>1 DEF PortInv
  <2> QED
    BY <2>1, <2>2, <1>2, <1>3 DEF PortInv, Pins
<1>6. CASE toggleLED
  <2>1. /\ pc = "toggle" /\ pc' = "delay"
        /\ port' = [out |-> (port.out \cup {0}) \ (port.out \cap {0}), dir |-> port.dir]
    BY <1>3, <1>6 DEF toggleLED, Step, WritePort
  <2> QED
    BY <2>1, <1>2, <1>3 DEF PortInv
<1>7. CASE delay
  <2>1. pc = "delay" /\ pc' \in {"delay", "toggle"} /\ port' = port
    BY <1>7 DEF delay, Step, peripherals
  <2> QED
    BY <2>1, <1>2, <1>3 DEF PortInv
<1> QED
  BY <1>4, <1>5, <1>6, <1>7 DEF gpioSetup

\* Every step keeps the pins that do not blink high once they are outputs.
LEMMA NextPort == TypeOK /\ PortInv /\ [Next]_vars => PortInv'
<1> SUFFICES ASSUME TypeOK, PortInv, [Next]_vars PROVE PortInv'
  OBVIOUS
<1>1. CASE pc \notin Gated /\ pc' \notin Gated /\ UNCHANGED <<gateC, port>>
  BY <1>1 DEF PortInv, Gated
<1>2. CASE enablePortC
  BY <1>2 DEF PortInv, enablePortC, Step
<1>3. CASE Reset
  BY <1>3 DEF PortInv, Reset, Restart, ResetPeripherals
<1>4. CASE UNCHANGED <<pc, gateC, port>>
  BY <1>4 DEF PortInv
<1>5. ASSUME irqReset, UNCHANGED <<peripherals, i>>
      PROVE  pc \notin Gated /\ pc' \notin Gated /\ UNCHANGED <<gateC, port>>
  BY <1>5 DEF irqReset, copyData, clearBSS, callCtors, StoreWord, peripherals, Gated
<1>6. ASSUME clockSetup, ~enablePortC
      PROVE  pc \notin Gated /\ pc' \notin Gated /\ UNCHANGED <<gateC, port>>
  BY <1>6 DEF clockSetup, disableWatchdog, enableHIRC, switchTo, configureLIRC, cleanUp,
              Step, Gated
<1>7. ASSUME (irqHardFault /\ UNCHANGED <<peripherals, i>>) \/ SwitchMode \/ UNCHANGED vars
      PROVE  UNCHANGED <<pc, gateC, port>>
  BY <1>7 DEF irqHardFault, SwitchMode, vars, peripherals
<1> QED
  BY <1>1, <1>2, <1>3, <1>4, <1>5, <1>6, <1>7, WritePortInv DEF Next, Firmware, run

\* The invariant of the port.
LEMMA PortFollowed == Spec => [](TypeOK /\ PortInv)
<1>1. Init => TypeOK /\ PortInv
  BY InitTypes, InitPort
<1>2. TypeOK /\ PortInv /\ [Next]_vars => (TypeOK /\ PortInv)'
  BY NextTypes, NextPort
<1> QED
  BY <1>1, <1>2, PTL DEF Spec

\* The LEDs the firmware does not blink stay dark (blink.cxx:61-64).
THEOREM OthersStayDark == Spec => []OthersDark
<1>1. PortInv => OthersDark
  <2> SUFFICES ASSUME PortInv, NEW p \in {1, 2}, p \in port.dir PROVE p \in port.out
    BY DEF OthersDark, Lit, Pins
  <2> QED
    BY DEF PortInv
<1> QED
  BY <1>1, PortFollowed, PTL

-----------------------------------------------------------------------------
\* The delay loop's counter as an observer of the LED sees it.
Held == IF pc = "delay" THEN i ELSE Delay

\* The LED is dark wherever it does not blink.
LEMMA DarkBefore == PortInv /\ pc \notin {"toggle", "delay"} => ~Lit(0) /\ Held = Delay
BY DEF PortInv, Lit, Held

\* The toggling changes the LED and starts the count.
LEMMA ToggleFlips ==
  ASSUME TypeOK, PortInv, toggleLED
  PROVE  Promise!Flip
<1>1. /\ pc = "toggle" /\ pc' = "delay" /\ i' = 0 /\ gateC /\ port.dir = Pins
  BY DEF toggleLED, Step, PortInv
<1>2. port' = [out |-> (port.out \cup {0}) \ (port.out \cap {0}), dir |-> port.dir]
  BY <1>1 DEF toggleLED, WritePort
<1>3. 0 \in Pins /\ (0 \in port'.out <=> 0 \notin port.out)
  BY <1>2 DEF Pins
<1>4. Lit(0)' = ~Lit(0)
  BY <1>1, <1>2, <1>3 DEF Lit
<1> QED
  BY <1>1, <1>4 DEF Promise!Flip

\* The delay loop holds the LED, one count a pass.
LEMMA DelayHolds ==
  ASSUME TypeOK, delay
  PROVE  Promise!Hold \/ UNCHANGED <<Lit(0), Held>>
<1>1. pc = "delay" /\ port' = port /\ i \in 0 .. Delay /\ Delay \in Nat
  BY DelayAssumption DEF delay, Step, peripherals, TypeOK
<1>2. UNCHANGED Lit(0)
  BY <1>1 DEF Lit
<1>3. CASE i < Delay /\ Step("delay", "delay") /\ i' = i + 1
  BY <1>1, <1>2, <1>3 DEF Promise!Hold, Step
<1>4. CASE i >= Delay /\ Step("delay", "toggle") /\ UNCHANGED i
  BY <1>1, <1>2, <1>4 DEF Held, Step
<1> QED
  BY <1>3, <1>4 DEF delay

\* A reset darkens the LED.
LEMMA ResetDarkens ==
  ASSUME Reset
  PROVE  Promise!Darken
<1>1. pc' = "copy" /\ port'.dir = {}
  BY DEF Reset, Restart, ResetPeripherals
<1>2. Lit(0)' = FALSE
  BY <1>1 DEF Lit
<1> QED
  BY <1>1, <1>2 DEF Promise!Darken

\* Every step of the firmware is one of the blinker, or is not seen.
LEMMA NextBlinks ==
  ASSUME TypeOK, PortInv, PortInv', [Next]_vars
  PROVE  [Promise!Hold \/ Promise!Flip \/ Promise!Darken]_(Promise!blinkerVars)
<1>1. ASSUME UNCHANGED <<Lit(0), Held>> PROVE UNCHANGED Promise!blinkerVars
  BY <1>1 DEF Held, Promise!blinkerVars
<1>2. CASE irqReset \/ clockSetup \/ Step("setHigh", "setOutput")
  <2>1. pc \notin {"toggle", "delay"} /\ pc' \notin {"toggle", "delay"}
    BY <1>2 DEF irqReset, copyData, clearBSS, callCtors, StoreWord, clockSetup,
                disableWatchdog, enableHIRC, switchTo, configureLIRC, cleanUp,
                enablePortC, Step
  <2>2. ~Lit(0) /\ Held = Delay /\ ~Lit(0)' /\ Held' = Delay
    BY <2>1, DarkBefore DEF PortInv, Lit, Held
  <2>3. Lit(0)' = Lit(0) /\ Held' = Held
    BY <2>2 DEF Lit
  <2> QED
    BY <1>1, <2>3
<1>3. CASE Step("setOutput", "toggle") /\ WritePort(port.out, port.dir \cup Pins)
  <2>1. pc = "setOutput" /\ pc' = "toggle" /\ port.out = Pins /\ port'.out = port.out
    BY <1>3 DEF Step, WritePort, PortInv
  <2>2. ~Lit(0) /\ Held = Delay /\ ~Lit(0)' /\ Held' = Delay
    BY <2>1 DEF PortInv, Pins, Lit, Held
  <2>3. Lit(0)' = Lit(0) /\ Held' = Held
    BY <2>2 DEF Lit
  <2> QED
    BY <1>1, <2>3
<1>4. CASE toggleLED
  BY <1>4, ToggleFlips
<1>5. CASE delay
  BY <1>1, <1>5, DelayHolds
<1>6. CASE Reset
  BY <1>6, ResetDarkens
<1>7. CASE UNCHANGED <<pc, port, i>>
  BY <1>1, <1>7 DEF Lit, Held
<1>8. (irqHardFault /\ UNCHANGED <<peripherals, i>>) \/ SwitchMode \/ UNCHANGED vars
        => UNCHANGED <<pc, port, i>>
  BY DEF irqHardFault, SwitchMode, vars, peripherals
<1> QED
  BY <1>2, <1>3, <1>4, <1>5, <1>6, <1>7, <1>8 DEF Next, Firmware, run, gpioSetup

\* Whatever the delay and the layout, the LED is dark until the blinking starts
\* and then changes after exactly the delay (blink.cxx:58-74).
THEOREM Steady == Spec => BlinksSteadily
<1>1. Init => Promise!Dark
  <2> SUFFICES ASSUME Init PROVE Promise!Dark
    OBVIOUS
  <2>1. pc = "copy" /\ port.dir = {}
    BY DEF Init, PowerOn
  <2>2. Lit(0) = FALSE
    BY <2>1 DEF Lit
  <2> QED
    BY <2>1, <2>2 DEF Promise!Dark
<1>2. TypeOK /\ PortInv /\ (TypeOK /\ PortInv)' /\ [Next]_vars
        => [Promise!Hold \/ Promise!Flip \/ Promise!Darken]_(Promise!blinkerVars)
  BY NextBlinks
<1> QED
  BY <1>1, <1>2, PortFollowed, PTL DEF Spec, BlinksSteadily, Promise!Blinking
=============================================================================
