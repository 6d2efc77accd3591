-------------------------- MODULE FpgaManagerProofs --------------------------
(* What a configuration owes its callers, for any bitstreams, callbacks,     *)
(* timeouts and behaviour of the FPGA: the control block given back, the     *)
(* error of the stream, the image in the FPGA, and no edge of its reset.     *)
EXTENDS FpgaManagerProperties, SequenceTheorems, TLAPS

\* The steps between the preconditions and the return.
Configuring == Steps \ {"idle", "checks", "return"}

\* Those after the reset of step 3 was released.
Released == Configuring \ {"step3", "step4", "step5"}

\* Those during which the data bus is on.
Transferring == {"step9", "axi", "step10", "step11"}

\* Those after the result of the data is known, and those before.
After  == {"step11", "step12", "count12", "wait12", "step14", "count14", "wait14",
           "step13"}
Before == Configuring \ After

\* The result of the data is that of the stream, and no later result hides it.
StreamInv ==
  /\ call = [by |-> call.by, how |-> call.how, image |-> call.image,
            stream |-> call.stream]
  /\ pc \in {"idle", "checks"} => data_status = "SUCCESS"
  /\ call.how = "stream" =>
       /\ pc \in Before \cup {"checks"} => call.stream = "ok" /\ data_status = "SUCCESS"
       /\ pc \in After => (data_status = "CFG_STM" <=> call.stream = "failed")
       /\ pc \in {"return", "idle"} => (result = "CFG_STM" <=> call.stream = "failed")

\* The register cache is the register from step 1 on, since nobody else writes
\* CTRL during a call; so what the steps set and clear in it is set and cleared.
Inv ==
  /\ pc \in Steps
  /\ crashes \in Nat
  /\ pc \in Configuring => ctrl_reg = bits
  /\ pc \in Released => ~PullsNConfig(bits)
  /\ pc = "return" => Refused \/ ~PullsNConfig(bits)
  /\ crashes = 0 /\ "axicfgen" \in bits => pc \in Transferring
  /\ ControlGivenBack
  /\ StreamInv

(* The invariant holds at first. *)
LEMMA InitInv == Init => Inv
  BY DEF Init, HardwareInit, At, Inv, Steps, Configuring, Released, Transferring, StreamInv,
          Before, After, ControlGivenBack,
     Refused, PullsNConfig, HpsControls

\* No step of the FPGA writes a register.
LEMMA HardwareKeepsBits == HardwareStep => bits' = bits
  BY DEF HardwareStep, PowersOff, PowersOn, EntersReset, LeavesReset, FindsError,
     CompletesData, EntersInit, EntersUserMode, FindsCrcError, CountsDown, registers

(* A step of the configuration sequence keeps the invariant. *)
LEMMA DriverInv == ASSUME Inv, DriverStep PROVE Inv'
<1> USE DEF Inv, Steps, Configuring, Released, Transferring, StreamInv,
          Before, After, ControlGivenBack,
          Refused, PullsNConfig, HpsControls
<1>1. CASE ChecksFail
  BY <1>1 DEF ChecksFail, At, Go, Loop, Return, NoLocals, hardware, registers,
     thread, bounds
<1>2. CASE Step1
  BY <1>2 DEF Step1, At, Go, Loop, Return, NoLocals, hardware, registers,
     thread, bounds, WriteCtl, WidthBit
<1>3. CASE Step3
  BY <1>3 DEF Step3, At, Go, Loop, Return, NoLocals, hardware, registers,
     thread, bounds, ChangeCtl, WriteCtl, SetBits
<1>4. CASE Step4
  BY <1>4 DEF Step4, At, Go, Loop, Return, NoLocals, hardware, registers,
     thread, bounds, Again, TimedOut, DataError
<1>5. CASE Step5
  BY <1>5 DEF Step5, At, Go, Loop, Return, NoLocals, hardware, registers,
     thread, bounds, ChangeCtl, WriteCtl, ClrBits
<1>6. CASE Step6
  BY <1>6 DEF Step6, At, Go, Loop, Return, NoLocals, hardware, registers,
     thread, bounds, Again, TimedOut, DataError
<1>7. CASE Step7
  BY <1>7 DEF Step7, At, Go, Loop, Return, NoLocals, hardware, registers,
     thread, bounds, ClearEdges
<1>8. CASE Step8
  BY <1>8 DEF Step8, At, Go, Loop, Return, NoLocals, hardware, registers,
     thread, bounds, ChangeCtl, WriteCtl, SetBits
<1>9. CASE SendBuffer
  BY <1>9 DEF SendBuffer, At, Go, Loop, Return, NoLocals, hardware, registers,
     thread, bounds, DataEnds
<1>10. CASE StreamFails
  BY <1>10 DEF StreamFails, At, Go, Loop, Return, NoLocals, hardware,
     registers, thread, bounds
<1>11. CASE StreamEnds
  BY <1>11 DEF StreamEnds, At, Go, Loop, Return, NoLocals, hardware,
     registers, thread, bounds
<1>12. CASE WriteAxi
  BY <1>12 DEF WriteAxi, At, Go, Loop, Return, NoLocals, hardware, registers,
     thread, bounds, Feed
<1>13. CASE Step10
  BY <1>13 DEF Step10, At, Go, Loop, Return, NoLocals, hardware, registers,
     thread, bounds, Again, TimedOut, DataError, DataEnds
<1>14. CASE Step11
  BY <1>14 DEF Step11, At, Go, Loop, Return, NoLocals, hardware, registers,
     thread, bounds, ChangeCtl, WriteCtl, ClrBits
<1>15. CASE ClearStaleDone
  BY <1>15 DEF ClearStaleDone, At, Go, Loop, Return, NoLocals, hardware,
     registers, thread, bounds, ClearDone
<1>16. CASE IssueCount
  BY <1>16 DEF IssueCount, At, Go, Loop, Return, NoLocals, hardware,
     registers, thread, bounds, WriteCount
<1>17. CASE WaitCount
  BY <1>17 DEF WaitCount, At, Go, Loop, Return, NoLocals, hardware, registers,
     thread, bounds, Again, TimedOut, DataError, ClearDone
<1>18. CASE Step13
  BY <1>18 DEF Step13, At, Go, Loop, Return, NoLocals, hardware, registers,
     thread, bounds, Again, TimedOut, DataError
<1>19. CASE Returns
  BY <1>19 DEF Returns, At, Go, Loop, Return, NoLocals, hardware, registers,
     thread, bounds, WriteCtl, ClrBits
<1>20. ASSUME NEW n \in ChunkSizes, StreamChunk(n) PROVE Inv'
  BY <1>20 DEF StreamChunk, At, Go, Loop, Return, NoLocals, hardware,
     registers, thread, bounds
<1> QED
  BY <1>1, <1>2, <1>3, <1>4, <1>5, <1>6, <1>7, <1>8, <1>9, <1>10, <1>11,
     <1>12, <1>13, <1>14, <1>15, <1>16, <1>17, <1>18, <1>19, <1>20 DEF
     DriverStep

\* The other calls are made while none runs, and leave none running.
LEMMA ApiInv == ASSUME Inv, ApiStep PROVE Inv'
<1> USE DEF Inv, Steps, Configuring, Released, Transferring, StreamInv,
          Before, After, ControlGivenBack,
          Refused, PullsNConfig, HpsControls
<1>1. ASSUME NEW image \in Requests, WriteFPGAconfig(image)
      PROVE  Inv'
  BY <1>1 DEF WriteFPGAconfig, NewCall, WriteCtl, SetBits, At, Go, Loop,
     Return, NoLocals, hardware, registers, thread, bounds
<1>2. ASSUME NEW image \in Requests, NEW how \in {"full", "stream"}, Configure(how, image)
      PROVE  Inv'
  BY <1>2 DEF Configure, NewCall, At, Go, Loop, Return, NoLocals, hardware,
     registers, thread, bounds
<1>3. ASSUME ControlEnable
      PROVE  Inv'
  BY <1>3 DEF ControlEnable, Api, NewCall, WriteCtl, SetBits, At, Go, Loop,
     Return, NoLocals, hardware, registers, thread, bounds
<1>4. ASSUME ControlDisable
      PROVE  Inv'
  BY <1>4 DEF ControlDisable, Api, NewCall, WriteCtl, ClrBits, At, Go, Loop,
     Return, NoLocals, hardware, registers, thread, bounds
<1>5. ASSUME ResetAssert
      PROVE  Inv'
  BY <1>5 DEF ResetAssert, Reset, Api, NewCall, WriteCtl, SetBits, At, Go,
     Loop, Return, NoLocals, hardware, registers, thread, bounds
<1>6. ASSUME ResetDeassert
      PROVE  Inv'
  BY <1>6 DEF ResetDeassert, Reset, Api, NewCall, WriteCtl, ClrBits, At, Go,
     Loop, Return, NoLocals, hardware, registers, thread, bounds
<1>7. ASSUME NEW mask \in Masks, IrqDisable(mask)
      PROVE  Inv'
  BY <1>7 DEF IrqDisable, Irq, Api, NewCall, At, Go, Loop, Return, NoLocals,
     hardware, registers, thread, bounds
<1>8. ASSUME NEW mask \in Masks, IrqEnable(mask)
      PROVE  Inv'
  BY <1>8 DEF IrqEnable, Irq, Api, NewCall, At, Go, Loop, Return, NoLocals,
     hardware, registers, thread, bounds
<1>9. ASSUME NEW mask \in Masks, NEW other \in Masks, GpoWrite(mask, other)
      PROVE  Inv'
  BY <1>9 DEF GpoWrite, Api, NewCall, At, Go, Loop, Return, NoLocals,
     hardware, registers, thread, bounds
<1>10. ASSUME NEW mask \in Masks, NEW other \in Masks, IrqTypeSet(mask, other)
      PROVE  Inv'
  BY <1>10 DEF IrqTypeSet, Irq, Api, NewCall, At, Go, Loop, Return, NoLocals,
     hardware, registers, thread, bounds
<1>11. ASSUME NEW mask \in Masks, NEW other \in Masks, IrqPolSet(mask, other)
      PROVE  Inv'
  BY <1>11 DEF IrqPolSet, Irq, Api, NewCall, At, Go, Loop, Return, NoLocals,
     hardware, registers, thread, bounds
<1> QED
  BY <1>1, <1>2, <1>3, <1>4, <1>5, <1>6, <1>7, <1>8, <1>9, <1>10, <1>11 DEF
     ApiStep

(* Every step keeps the invariant. *)
LEMMA NextInv == ASSUME Inv, [Next]_vars PROVE Inv'
<1> USE DEF Inv, Steps, Configuring, Released, Transferring, StreamInv,
          Before, After, ControlGivenBack,
          Refused, PullsNConfig, HpsControls
<1>1. CASE DriverStep
  BY <1>1, DriverInv
<1>2. CASE ApiStep
  BY <1>2, ApiInv
<1>3. CASE HardwareMoves
  BY <1>3, HardwareKeepsBits DEF HardwareMoves, At, thread, bounds
<1>4. CASE Killed
  BY <1>4 DEF Killed, At, NoLocals, hardware, registers
<1>5. CASE UNCHANGED vars
  BY <1>5 DEF vars, At, hardware, registers, thread, bounds
<1> QED
  BY <1>1, <1>2, <1>3, <1>4, <1>5 DEF Next

\* writeFPGAconfig returns with the control block given back, and if it began a
\* configuration with the FPGA out of reset and, unless a call was killed, the
\* data bus off (alt_fpga_manager.c alt_fpga_internal_configure, writeConfig.hpp):
\* whichever step failed, and whatever the FPGA and the stream did.
THEOREM FpgaControlGivenBack == Spec => []ControlGivenBack
<1>1. Inv => ControlGivenBack
  BY DEF Inv
<1> QED
  BY <1>1, InitInv, NextInv, PTL DEF Spec

\* The caller of alt_fpga_istream_configure learns of a failure of its stream, and
\* only then of one, whatever the steps after it ran into (alt_fpga_manager.c
\* steps 11-14).
THEOREM FpgaStreamErrorReported == Spec => []StreamErrorReported
<1>1. Inv => StreamErrorReported
  BY DEF Inv, StreamInv, StreamErrorReported, At
<1> QED
  BY <1>1, InitInv, NextInv, PTL DEF Spec

------------------------------------------------------------------------------
\* The type invariant, with the codes steps 9 and 10 leave: the board's part, the
\* flag apart, and the thread's.
BoardType ==
  /\ mode \in Modes /\ msel \in BoardModes
  /\ bits \subseteq CtlBits /\ cdratio \in Ratios
  /\ count \in {0, 4, Long}
  /\ seen \subseteq {"error", "done", "clocked", "crc"}

FlagType == dcntdone \in BOOLEAN

ThreadType ==
  /\ ctrl_reg \subseteq CtlBits
  /\ pc \in Steps
  /\ result \in {"none", "SUCCESS", "ERROR", "BAD_ARG", "PWR_OFF", "NO_SOC_CTRL",
                 "CFG", "CFG_STM", "CRC"}
  /\ data_status \in {"SUCCESS", "CFG", "CFG_STM", "CRC"}
  /\ polls \in 0 .. Polls /\ left \in 0 .. DataLimit

(* The types at first. *)
LEMMA InitTypes == Init => BoardType /\ FlagType /\ ThreadType
<1> SUFFICES ASSUME Init PROVE BoardType /\ FlagType /\ ThreadType
  OBVIOUS
<1>1. BoardType
  BY DEF Init, HardwareInit, BoardType, Modes, Ratios, CtlBits
<1>2. FlagType
  BY DEF Init, HardwareInit, FlagType
<1>3. ThreadType
  BY FpgaAssumption DEF Init, ThreadType, Steps
<1> QED
  BY <1>1, <1>2, <1>3

\* The FPGA on its own keeps to the phases and the reports it has.
LEMMA HardwareType ==
  ASSUME BoardType, HardwareStep
  PROVE  BoardType'
<1> USE DEF BoardType, registers, Modes, Long, Ratios
<1>1. CASE PowersOff
  BY <1>1 DEF PowersOff, clockgen, device
<1>2. CASE PowersOn
  BY <1>2 DEF PowersOn, clockgen, device
<1>3. CASE EntersReset
  BY <1>3 DEF EntersReset, clockgen, device
<1>4. CASE LeavesReset
  BY <1>4 DEF LeavesReset, clockgen, device
<1>5. CASE FindsError
  BY <1>5 DEF FindsError, clockgen, device
<1>6. CASE CompletesData
  BY <1>6 DEF CompletesData, clockgen, device
<1>7. CASE EntersInit
  BY <1>7 DEF EntersInit, clockgen, device
<1>8. CASE EntersUserMode
  BY <1>8 DEF EntersUserMode, clockgen, device
<1>9. CASE FindsCrcError
  BY <1>9 DEF FindsCrcError, clockgen, device
<1>10. CASE CountsDown
  BY <1>10 DEF CountsDown, clockgen, device
<1> QED
  BY <1>1, <1>2, <1>3, <1>4, <1>5, <1>6, <1>7, <1>8, <1>9, <1>10 DEF HardwareStep

(* The done flag of the clock count stays a flag when the FPGA moves. *)
LEMMA HardwareFlag == ASSUME FlagType, HardwareStep PROVE FlagType'
  BY Zenon DEF FlagType, HardwareStep, clockgen, PowersOff, PowersOn, EntersReset,
     LeavesReset, FindsError, CompletesData, EntersInit, EntersUserMode, FindsCrcError,
     CountsDown

\* What a step does to the board, if anything: one access.
Access ==
  \/ UNCHANGED hardware
  \/ \E word \in SUBSET CtlBits, ratio \in Ratios : cdratio' = ratio /\ WriteCtl(word)
  \/ \E n \in {4, Long} : WriteCount(n)
  \/ ClearDone
  \/ \E set \in SUBSET Signals : ClearEdges(set)
  \/ \E word \in {Head(axi)} : Feed(word)

(* An access keeps the types of the registers. *)
LEMMA AccessType == ASSUME BoardType, Access PROVE BoardType'
<1> USE DEF BoardType, hardware, registers, device, clockgen
<1>1. CASE UNCHANGED hardware
  BY <1>1
<1>2. ASSUME NEW word \in SUBSET CtlBits, NEW ratio \in Ratios,
             cdratio' = ratio, WriteCtl(word)
      PROVE  BoardType'
  BY <1>2 DEF WriteCtl
<1>3. ASSUME NEW n \in {4, Long}, WriteCount(n) PROVE BoardType'
  BY <1>3 DEF WriteCount
<1>4. CASE ClearDone
  BY <1>4 DEF ClearDone
<1>5. ASSUME NEW set \in SUBSET Signals, ClearEdges(set) PROVE BoardType'
  BY <1>5 DEF ClearEdges
<1>6. ASSUME NEW word \in {Head(axi)}, Feed(word) PROVE BoardType'
  BY <1>6 DEF Feed
<1> QED
  BY <1>1, <1>2, <1>3, <1>4, <1>5, <1>6 DEF Access

(* And the done flag a flag. *)
LEMMA AccessFlag == ASSUME FlagType, Access PROVE FlagType'
  BY Zenon DEF FlagType, Access, WriteCtl, WriteCount, ClearDone, ClearEdges, Feed,
     hardware, clockgen

(* A step of the sequence makes one access, or none. *)
LEMMA DriverAccess ==
  ASSUME BoardType, ctrl_reg \subseteq CtlBits, DriverStep
  PROVE  Access
<1>1. CASE ChecksFail
  BY <1>1 DEF Access, ChecksFail
<1>2. CASE Step1
  BY <1>2 DEF Access, Step1, BoardType, WidthBit, CfgModes, Pp16, Pp32, Cdratio,
     Ratios, CtlBits
<1>3. CASE Step3
  BY <1>3 DEF Access, Step3, BoardType, CtlBits, ChangeCtl, SetBits, ClrBits
<1>4. CASE Step4
  BY <1>4 DEF Access, Step4, Again
<1>5. CASE Step5
  BY <1>5 DEF Access, Step5, BoardType, CtlBits, ChangeCtl, SetBits, ClrBits
<1>6. CASE Step6
  BY <1>6 DEF Access, Step6, Again
<1>7. CASE Step7
  BY <1>7 DEF Access, Step7, Signals
<1>8. CASE Step8
  BY <1>8 DEF Access, Step8, BoardType, CtlBits, ChangeCtl, SetBits, ClrBits
<1>9. CASE SendBuffer
  BY <1>9 DEF Access, SendBuffer
<1>10. CASE StreamFails
  BY <1>10 DEF Access, StreamFails
<1>11. CASE StreamEnds
  BY <1>11 DEF Access, StreamEnds
<1>12. CASE WriteAxi
  BY <1>12 DEF Access, WriteAxi
<1>13. CASE Step10
  BY <1>13 DEF Access, Step10, Again
<1>14. CASE Step11
  BY <1>14 DEF Access, Step11, BoardType, CtlBits, ChangeCtl, SetBits, ClrBits
<1>15. CASE ClearStaleDone
  BY <1>15 DEF Access, ClearStaleDone
<1>16. CASE IssueCount
  BY <1>16 DEF Access, IssueCount, Dclk
<1>17. CASE WaitCount
  BY <1>17 DEF Access, WaitCount, Again
<1>18. CASE Step13
  BY <1>18 DEF Access, Step13, Again
<1>19. CASE Returns
  BY <1>19 DEF Access, Returns, BoardType, CtlBits, ClrBits
<1>20. ASSUME NEW n \in ChunkSizes, StreamChunk(n) PROVE Access
  BY <1>20 DEF Access, StreamChunk
<1> QED
  BY <1>1, <1>2, <1>3, <1>4, <1>5, <1>6, <1>7, <1>8, <1>9, <1>10, <1>11, <1>12, <1>13,
     <1>14, <1>15, <1>16, <1>17, <1>18, <1>19, <1>20 DEF DriverStep

(* A step of the sequence keeps the types of the thread. *)
LEMMA DriverType == ASSUME ThreadType, DriverStep, BoardType PROVE ThreadType'
<1> USE FpgaAssumption DEF ThreadType, Steps, At, Go, Loop, Return, NoLocals, thread
<1>1. CASE ChecksFail
  BY <1>1 DEF ChecksFail
<1>2. CASE Step1
  BY <1>2 DEF Step1, WidthBit, CtlBits, BoardType
<1>3. CASE Step3
  BY <1>3 DEF Step3, ChangeCtl, SetBits, ClrBits, CtlBits
<1>4. CASE Step4
  BY <1>4 DEF Step4, Again, TimedOut
<1>5. CASE Step5
  BY <1>5 DEF Step5, ChangeCtl, SetBits, ClrBits, CtlBits
<1>6. CASE Step6
  BY <1>6 DEF Step6, Again, TimedOut
<1>7. CASE Step7
  BY <1>7 DEF Step7
<1>8. CASE Step8
  BY <1>8 DEF Step8, ChangeCtl, SetBits, ClrBits, CtlBits
<1>9. CASE SendBuffer
  BY <1>9 DEF SendBuffer, DataEnds
<1>10. CASE StreamFails
  BY <1>10 DEF StreamFails
<1>11. CASE StreamEnds
  BY <1>11 DEF StreamEnds
<1>12. CASE WriteAxi
  BY <1>12 DEF WriteAxi
<1>13. CASE Step10
  BY <1>13 DEF Step10, Again, TimedOut, DataEnds
<1>14. CASE Step11
  BY <1>14 DEF Step11, ChangeCtl, SetBits, ClrBits, CtlBits
<1>15. CASE ClearStaleDone
  BY <1>15 DEF ClearStaleDone
<1>16. CASE IssueCount
  BY <1>16 DEF IssueCount
<1>17. CASE WaitCount
  BY <1>17 DEF WaitCount, Again, TimedOut, DataError, ClearDone
<1>18. CASE Step13
  BY <1>18 DEF Step13, Again, TimedOut, DataError
<1>19. CASE Returns
  BY <1>19 DEF Returns
<1>20. ASSUME NEW n \in ChunkSizes, StreamChunk(n) PROVE ThreadType'
  BY <1>20 DEF StreamChunk
<1> QED
  BY <1>1, <1>2, <1>3, <1>4, <1>5, <1>6, <1>7, <1>8, <1>9, <1>10, <1>11, <1>12, <1>13,
     <1>14, <1>15, <1>16, <1>17, <1>18, <1>19, <1>20 DEF DriverStep

(* So does a step of the functions around it. *)
LEMMA ApiThread == ASSUME ThreadType, ApiStep PROVE ThreadType'
<1> USE DEF ThreadType, Steps, NewCall, thread
<1>1. ASSUME NEW image \in Requests, WriteFPGAconfig(image)
      PROVE  ThreadType'
  BY <1>1 DEF WriteFPGAconfig
<1>2. ASSUME NEW image \in Requests, NEW how \in {"full", "stream"}, Configure(how, image)
      PROVE  ThreadType'
  BY <1>2 DEF Configure
<1>3. ASSUME ControlEnable
      PROVE  ThreadType'
  BY <1>3 DEF ControlEnable, Api
<1>4. ASSUME ControlDisable
      PROVE  ThreadType'
  BY <1>4 DEF ControlDisable, Api
<1>5. ASSUME ResetAssert
      PROVE  ThreadType'
  BY <1>5 DEF ResetAssert, Reset, Api
<1>6. ASSUME ResetDeassert
      PROVE  ThreadType'
  BY <1>6 DEF ResetDeassert, Reset, Api
<1>7. ASSUME NEW mask \in Masks, IrqDisable(mask)
      PROVE  ThreadType'
  BY <1>7 DEF IrqDisable, Irq, Api
<1>8. ASSUME NEW mask \in Masks, IrqEnable(mask)
      PROVE  ThreadType'
  BY <1>8 DEF IrqEnable, Irq, Api
<1>9. ASSUME NEW mask \in Masks, NEW other \in Masks, GpoWrite(mask, other)
      PROVE  ThreadType'
  BY <1>9 DEF GpoWrite, Api
<1>10. ASSUME NEW mask \in Masks, NEW other \in Masks, IrqTypeSet(mask, other)
      PROVE  ThreadType'
  BY <1>10 DEF IrqTypeSet, Irq, Api
<1>11. ASSUME NEW mask \in Masks, NEW other \in Masks, IrqPolSet(mask, other)
      PROVE  ThreadType'
  BY <1>11 DEF IrqPolSet, Irq, Api
<1> QED
  BY <1>1, <1>2, <1>3, <1>4, <1>5, <1>6, <1>7, <1>8, <1>9, <1>10, <1>11 DEF ApiStep

(* A step of the functions around it keeps the types of the registers. *)
LEMMA ApiType ==
  ASSUME BoardType, FlagType, ApiStep
  PROVE  BoardType' /\ FlagType'
<1> USE DEF BoardType, SetBits, ClrBits, CtlBits, device, clockgen, registers, hardware, NewCall
<1>1. ASSUME NEW image \in Requests, WriteFPGAconfig(image)
      PROVE  BoardType' /\ FlagType'
  <2>1. BoardType'
    BY <1>1 DEF WriteFPGAconfig, WriteCtl
  <2>2. FlagType'
    BY <1>1, Zenon DEF FlagType, WriteFPGAconfig, WriteCtl
  <2> QED
    BY <2>1, <2>2
<1>2. ASSUME NEW image \in Requests, NEW how \in {"full", "stream"}, Configure(how, image)
      PROVE  BoardType' /\ FlagType'
  <2>1. BoardType'
    BY <1>2 DEF Configure
  <2>2. FlagType'
    BY <1>2, Zenon DEF FlagType, Configure
  <2> QED
    BY <2>1, <2>2
<1>3. ASSUME ControlEnable
      PROVE  BoardType' /\ FlagType'
  <2>1. BoardType'
    BY <1>3 DEF ControlEnable, Api, WriteCtl
  <2>2. FlagType'
    BY <1>3, Zenon DEF FlagType, ControlEnable, Api, WriteCtl
  <2> QED
    BY <2>1, <2>2
<1>4. ASSUME ControlDisable
      PROVE  BoardType' /\ FlagType'
  <2>1. BoardType'
    BY <1>4 DEF ControlDisable, Api, WriteCtl
  <2>2. FlagType'
    BY <1>4, Zenon DEF FlagType, ControlDisable, Api, WriteCtl
  <2> QED
    BY <2>1, <2>2
<1>5. ASSUME ResetAssert
      PROVE  BoardType' /\ FlagType'
  <2>1. BoardType'
    BY <1>5 DEF ResetAssert, Reset, Api, WriteCtl
  <2>2. FlagType'
    BY <1>5, Zenon DEF FlagType, ResetAssert, Reset, Api, WriteCtl
  <2> QED
    BY <2>1, <2>2
<1>6. ASSUME ResetDeassert
      PROVE  BoardType' /\ FlagType'
  <2>1. BoardType'
    BY <1>6 DEF ResetDeassert, Reset, Api, WriteCtl
  <2>2. FlagType'
    BY <1>6, Zenon DEF FlagType, ResetDeassert, Reset, Api, WriteCtl
  <2> QED
    BY <2>1, <2>2
<1>7. ASSUME NEW mask \in Masks, IrqDisable(mask)
      PROVE  BoardType' /\ FlagType'
  <2>1. BoardType'
    BY <1>7 DEF IrqDisable, Irq, Api
  <2>2. FlagType'
    BY <1>7, Zenon DEF FlagType, IrqDisable, Irq, Api
  <2> QED
    BY <2>1, <2>2
<1>8. ASSUME NEW mask \in Masks, IrqEnable(mask)
      PROVE  BoardType' /\ FlagType'
  <2>1. BoardType'
    BY <1>8 DEF IrqEnable, Irq, Api
  <2>2. FlagType'
    BY <1>8, Zenon DEF FlagType, IrqEnable, Irq, Api
  <2> QED
    BY <2>1, <2>2
<1>9. ASSUME NEW mask \in Masks, NEW other \in Masks, GpoWrite(mask, other)
      PROVE  BoardType' /\ FlagType'
  <2>1. BoardType'
    BY <1>9 DEF GpoWrite, Api
  <2>2. FlagType'
    BY <1>9, Zenon DEF FlagType, GpoWrite, Api
  <2> QED
    BY <2>1, <2>2
<1>10. ASSUME NEW mask \in Masks, NEW other \in Masks, IrqTypeSet(mask, other)
      PROVE  BoardType' /\ FlagType'
  <2>1. BoardType'
    BY <1>10 DEF IrqTypeSet, Irq, Api
  <2>2. FlagType'
    BY <1>10, Zenon DEF FlagType, IrqTypeSet, Irq, Api
  <2> QED
    BY <2>1, <2>2
<1>11. ASSUME NEW mask \in Masks, NEW other \in Masks, IrqPolSet(mask, other)
      PROVE  BoardType' /\ FlagType'
  <2>1. BoardType'
    BY <1>11 DEF IrqPolSet, Irq, Api
  <2>2. FlagType'
    BY <1>11, Zenon DEF FlagType, IrqPolSet, Irq, Api
  <2> QED
    BY <2>1, <2>2
<1> QED
  BY <1>1, <1>2, <1>3, <1>4, <1>5, <1>6, <1>7, <1>8, <1>9, <1>10, <1>11 DEF ApiStep

(* Every step keeps the types. *)
LEMMA NextType ==
  ASSUME BoardType, FlagType, ThreadType, [Next]_vars
  PROVE  BoardType' /\ FlagType' /\ ThreadType'
<1>1. CASE DriverStep
  <2>1. Access
    BY <1>1, DriverAccess DEF ThreadType
  <2> QED
    BY <1>1, <2>1, DriverType, AccessType, AccessFlag
<1>2. CASE ApiStep
  BY <1>2, ApiType, ApiThread
<1>3. CASE HardwareMoves
  <2>1. HardwareStep /\ UNCHANGED <<pc, result, thread>>
    BY <1>3 DEF HardwareMoves
  <2>2. ThreadType'
    BY <2>1 DEF ThreadType, thread
  <2> QED
    BY <2>1, <2>2, HardwareType, HardwareFlag
<1>4. CASE Killed
  <2>1. Access
    BY <1>4 DEF Killed, Access
  <2>2. ThreadType'
    BY <1>4, FpgaAssumption DEF Killed, NoLocals, ThreadType, Steps
  <2> QED
    BY <2>1, <2>2, AccessType, AccessFlag
<1>5. CASE UNCHANGED vars
  <2>1. Access
    BY <1>5 DEF vars, Access
  <2>2. ThreadType'
    BY <1>5 DEF vars, ThreadType, thread
  <2> QED
    BY <2>1, <2>2, AccessType, AccessFlag
<1> QED
  BY <1>1, <1>2, <1>3, <1>4, <1>5 DEF Next

\* The registers, the FPGA and the sequence keep to the values they can have: no
\* timeout goes below zero, and no callback gets past the limit on its data
\* (alt_fpga_manager.c dclk_set_and_wait_clear, wait_for_fpga_state,
\* alt_fpga_internal_configure_idata).
THEOREM FpgaTypeOK == Spec => []TypeOK
<1>1. BoardType /\ FlagType /\ ThreadType => TypeOK
  BY DEF BoardType, FlagType, ThreadType, TypeOK
<1> QED
  BY <1>1, InitTypes, NextType, PTL DEF Spec
------------------------------------------------------------------------------
(* A call that succeeds has left its own image in the FPGA.                  *)

\* Callers' bitstreams that have the name of an image are that image.
NamesAreOwn ==
  /\ \A i \in Images : i.len > 0
  /\ \A i \in Images, r \in Requests : i.name = r.name => i = r

\* The words that begin with a byte of the bitstream of that name
WordsOf(name) ==
  {w \in [1 .. 4 -> ({r.name : r \in Requests} \cup {NoImage}) \X Nat] :
     w[1] \in {name} \X Nat}

\* Where the driver has sent some of its data, and might send more.
Sending == {"step9", "axi", "step10", "step11", "step12", "count12", "wait12",
            "step14", "count14", "wait14", "step13"}

\* The FPGA in reset has nothing; in user mode it runs the image it has.
FpgaInv ==
  /\ mode \in {"off", "reset"} => fed = <<>>
  /\ mode = "user" => \E i \in Images : fed = Words(i) /\ fabric = i.name

\* A configuration begins with an FPGA that has nothing, and from then on the
\* FPGA is given words of the call's bitstream only.
SentInv ==
  /\ pc \in Steps /\ sent \in Nat
  /\ pc \notin {"idle", "return"} => call.image \in Requests
  /\ pc = "step5" /\ status = "SUCCESS" => fed = <<>>
  /\ pc \in {"step6", "step7", "step8"} => fed = <<>>
  /\ pc \in Sending => fed \in Seq(WordsOf(call.image.name))
  /\ pc = "axi" => axi \in Seq(WordsOf(call.image.name))

ImageInv == FpgaInv /\ SentInv

\* The words that are written of n bytes: as many as they fill, each of four of
\* them, and of the rest, if there is one, a word that begins as the bytes do.
LEMMA AxiContents ==
  ASSUME NEW r \in Requests, NEW sentBefore \in Nat, NEW n \in Nat
  PROVE  /\ AxiWords(Bytes(r, sentBefore + 1, sentBefore + n)) \in Seq(WordsOf(r.name))
         /\ Len(AxiWords(Bytes(r, sentBefore + 1, sentBefore + n)))
              = n \div 4 + IF n % 4 = 0 THEN 0 ELSE 1
         /\ \A w \in 1 .. n \div 4, b \in 1 .. 4 :
              AxiWords(Bytes(r, sentBefore + 1, sentBefore + n))[w][b]
                = <<r.name, sentBefore + 4 * w - 4 + b>>
         /\ n % 4 # 0 =>
              \A b \in 1 .. 4 :
                AxiWords(Bytes(r, sentBefore + 1, sentBefore + n))[n \div 4 + 1][b]
                  = IF b <= n % 4 THEN <<r.name, sentBefore + b>> ELSE ZeroByte
<1> DEFINE Byte == ({q.name : q \in Requests} \cup {NoImage}) \X Nat
           buffer == Bytes(r, sentBefore + 1, sentBefore + n)
           last == [b \in 1 .. 4 |-> IF b <= n % 4 THEN buffer[b] ELSE ZeroByte]
           words == [w \in 1 .. n \div 4 |-> SubSeq(buffer, 4 * w - 3, 4 * w)]
<1>1. /\ buffer = [b \in 1 .. n |-> <<r.name, sentBefore + b>>]
      /\ \A b \in 1 .. n : buffer[b] \in {r.name} \X Nat /\ buffer[b] \in Byte
  <2>1. sentBefore + n + 1 - (sentBefore + 1) = n
    OBVIOUS
  <2>2. \A b \in 1 .. n : sentBefore + 1 + b - 1 = sentBefore + b /\ sentBefore + b \in Nat
    OBVIOUS
  <2>3. buffer = [b \in 1 .. n |-> <<r.name, sentBefore + b>>]
    BY <2>1, <2>2 DEF Bytes
  <2> HIDE DEF buffer
  <2> QED
    BY <2>2, <2>3
<1>2. Len(buffer) = n
  BY <1>1
<1>3. ZeroByte \in Byte
  BY DEF ZeroByte
<1> HIDE DEF buffer, Byte
<1>4. n \div 4 \in Nat /\ n % 4 \in 0 .. 3 /\ n = 4 * (n \div 4) + (n % 4)
  OBVIOUS
<1>5. ASSUME NEW w \in 1 .. n \div 4
      PROVE  /\ SubSeq(buffer, 4 * w - 3, 4 * w) \in WordsOf(r.name)
             /\ \A b \in 1 .. 4 : SubSeq(buffer, 4 * w - 3, 4 * w)[b]
                                  = <<r.name, sentBefore + 4 * w - 4 + b>>
  <2>1. PICK q \in Nat : q = n \div 4 /\ 4 * q <= n
    BY <1>4
  <2>2. /\ 4 * w - 3 \in Int /\ 4 * w \in Int /\ 4 * w - (4 * w - 3) + 1 = 4
        /\ 4 * w - 3 <= 4 * w
        /\ \A b \in 4 * w - 3 .. 4 * w : b \in 1 .. n
    BY <2>1
  <2>3. \A b \in 4 * w - 3 .. 4 * w : buffer[b] \in Byte
    BY <1>1, <2>2
  <2> DEFINE word == SubSeq(buffer, 4 * w - 3, 4 * w)
  <2>4. /\ word \in Seq(Byte) /\ Len(word) = 4
        /\ \A b \in 1 .. 4 : word[b] = buffer[4 * w - 3 + b - 1]
    <3>1. /\ word \in Seq(Byte)
          /\ Len(word) = IF 4 * w - 3 <= 4 * w THEN 4 * w - (4 * w - 3) + 1 ELSE 0
          /\ \A b \in 1 .. 4 * w - (4 * w - 3) + 1 :
                word[b] = buffer[4 * w - 3 + b - 1]
      BY <2>2, <2>3, SubSeqProperties
    <3> QED
      BY <2>2, <3>1
  <2> HIDE DEF word
  <2>5. word \in [1 .. 4 -> Byte]
    BY <2>4, LenProperties
  <2>6. word[1] = buffer[4 * w - 3] /\ 4 * w - 3 \in 1 .. n
    <3>1. 4 * w - 3 + 1 - 1 = 4 * w - 3 /\ 4 * w - 3 \in 4 * w - 3 .. 4 * w
      OBVIOUS
    <3> QED
      BY <2>2, <2>4, <3>1
  <2>7. ASSUME NEW b \in 1 .. 4 PROVE word[b] = <<r.name, sentBefore + 4 * w - 4 + b>>
    <3>1. /\ 4 * w - 3 + b - 1 \in 4 * w - 3 .. 4 * w
          /\ sentBefore + (4 * w - 3 + b - 1) = sentBefore + 4 * w - 4 + b
      OBVIOUS
    <3> QED
      BY <1>1, <2>2, <2>4, <3>1
  <2> QED
    BY <1>1, <2>5, <2>6, <2>7 DEF WordsOf, word, Byte
<1>6. words \in Seq(WordsOf(r.name))
  BY <1>4, <1>5
<1>7. ASSUME n % 4 # 0
      PROVE  <<last>> \in Seq(WordsOf(r.name))
  <2>1. 1 <= n % 4 /\ \A b \in 1 .. 4 : b <= n % 4 => b \in 1 .. n
    BY <1>4, <1>7
  <2>2. last \in [1 .. 4 -> Byte] /\ last[1] = buffer[1] /\ 1 \in 1 .. n
    BY <1>1, <1>3, <2>1
  <2>3. last \in WordsOf(r.name)
    BY <1>1, <2>2 DEF WordsOf, Byte
  <2> HIDE DEF last
  <2> QED
    BY <2>3
<1>8. AxiWords(buffer) = words \o IF n % 4 = 0 THEN <<>> ELSE <<last>>
  BY <1>2 DEF AxiWords
<1>a. /\ \A w \in 1 .. n \div 4, b \in 1 .. 4 :
             words[w][b] = <<r.name, sentBefore + 4 * w - 4 + b>>
      /\ \A b \in 1 .. 4 :
             last[b] = IF b <= n % 4 THEN <<r.name, sentBefore + b>> ELSE ZeroByte
  <2>1. \A w \in 1 .. n \div 4 : words[w] = SubSeq(buffer, 4 * w - 3, 4 * w)
    OBVIOUS
  <2>2. ASSUME NEW b \in 1 .. 4, b <= n % 4 PROVE b \in 1 .. n
    BY <1>4, <2>2
  <2> QED
    BY <1>1, <1>5, <2>1, <2>2
<1> HIDE DEF words, last
<1>9. (IF n % 4 = 0 THEN <<>> ELSE <<last>>) \in Seq(WordsOf(r.name))
  <2>1. <<>> \in Seq(WordsOf(r.name))
    OBVIOUS
  <2> QED
    BY <1>7, <2>1
<1> QED
  <2>1. Len(words) = n \div 4
    BY <1>4 DEF words
  <2>2. Len(IF n % 4 = 0 THEN <<>> ELSE <<last>>) = IF n % 4 = 0 THEN 0 ELSE 1
    OBVIOUS
  <2> QED
    <3> DEFINE rest == IF n % 4 = 0 THEN <<>> ELSE <<last>>
    <3>1. AxiWords(buffer) = words \o rest /\ rest \in Seq(WordsOf(r.name))
          /\ Len(rest) = IF n % 4 = 0 THEN 0 ELSE 1
      BY <1>8, <1>9, <2>2
    <3> HIDE DEF rest
    <3>2. /\ words \o rest \in Seq(WordsOf(r.name)) /\ Len(words \o rest) = Len(words) + Len(rest)
          /\ \A w \in 1 .. Len(words) + Len(rest) :
                (words \o rest)[w] = IF w <= Len(words) THEN words[w] ELSE rest[w - Len(words)]
      BY <1>6, <3>1, ConcatProperties
    <3>3. n % 4 # 0 => rest[1] = last
      BY DEF rest
    <3>4. ASSUME NEW w \in 1 .. n \div 4 PROVE AxiWords(buffer)[w] = words[w]
      BY <1>4, <2>1, <3>1, <3>2
    <3>5. ASSUME n % 4 # 0 PROVE AxiWords(buffer)[n \div 4 + 1] = last
      <4>1. /\ n \div 4 + 1 \in 1 .. Len(words) + Len(rest) /\ ~(n \div 4 + 1 <= Len(words))
            /\ n \div 4 + 1 - Len(words) = 1
        BY <1>4, <2>1, <3>1, <3>5
      <4> QED
        BY <3>1, <3>2, <3>3, <3>5, <4>1
    <3>6. Len(AxiWords(buffer)) = n \div 4 + IF n % 4 = 0 THEN 0 ELSE 1
      BY <2>1, <3>1, <3>2
    <3> QED
      BY <1>a, <3>1, <3>2, <3>4, <3>5, <3>6 DEF buffer

LEMMA AxiLength ==
  ASSUME NEW r \in Requests, NEW sentBefore \in Nat, NEW n \in Nat
  PROVE  /\ AxiWords(Bytes(r, sentBefore + 1, sentBefore + n)) \in Seq(WordsOf(r.name))
         /\ Len(AxiWords(Bytes(r, sentBefore + 1, sentBefore + n)))
              = n \div 4 + IF n % 4 = 0 THEN 0 ELSE 1
  BY AxiContents, Zenon

\* The words of an image that begin as those of a request are the request's.
LEMMA WordsAreOwn ==
  ASSUME NamesAreOwn, NEW i \in Images, NEW r \in Requests,
         Words(i) \in Seq(WordsOf(r.name))
  PROVE  i = r
<1>1. i.len \in Nat /\ i.len > 0
  BY ImagesAssumption DEF NamesAreOwn
<1>2. 1 \in 1 .. (i.len + 3) \div 4
  BY <1>1
<1>3. Words(i)[1] = [b \in 1 .. 4 |-> IF 4 * (1 - 1) + b <= i.len
                                       THEN <<i.name, 4 * (1 - 1) + b>> ELSE ZeroByte]
  BY <1>2 DEF Words
<1>4. Words(i)[1][1] = <<i.name, 1>>
  BY <1>1, <1>3
<1>5. 1 \in DOMAIN Words(i)
  BY <1>2 DEF Words
<1>6. Words(i)[1] \in WordsOf(r.name)
  BY <1>5, LenProperties
<1>7. <<i.name, 1>> \in {r.name} \X Nat
  BY <1>4, <1>6 DEF WordsOf
<1>8. i.name = r.name
  BY <1>7
<1> QED
  BY <1>8 DEF NamesAreOwn

\* The FPGA on its own
LEMMA HardwareFpga ==
  ASSUME FpgaInv, HardwareStep
  PROVE  FpgaInv' /\ (fed' = fed \/ fed' = <<>>)
<1> USE DEF FpgaInv
<1>1. CASE PowersOff \/ EntersReset
  BY <1>1 DEF PowersOff, EntersReset
<1>2. CASE PowersOn \/ LeavesReset \/ FindsError \/ CompletesData \/ EntersInit
  BY <1>2 DEF PowersOn, LeavesReset, FindsError, CompletesData, EntersInit
<1>3. CASE EntersUserMode
  BY <1>3 DEF EntersUserMode
<1>4. CASE FindsCrcError \/ CountsDown
  BY <1>4 DEF FindsCrcError, CountsDown
<1> QED
  BY <1>1, <1>2, <1>3, <1>4 DEF HardwareStep

\* Only the data register gives the FPGA words.
LEMMA AccessFpga ==
  ASSUME FpgaInv, Access
  PROVE  FpgaInv'
<1> USE DEF FpgaInv
<1>1. CASE UNCHANGED hardware
  BY <1>1 DEF hardware, device
<1>2. ASSUME NEW word \in SUBSET CtlBits, WriteCtl(word)
      PROVE  FpgaInv'
  BY <1>2 DEF WriteCtl, device
<1>3. ASSUME NEW n \in {4, Long}, WriteCount(n) PROVE FpgaInv'
  BY <1>3 DEF WriteCount, device
<1>4. CASE ClearDone
  BY <1>4 DEF ClearDone, device
<1>5. ASSUME NEW set \in SUBSET Signals, ClearEdges(set) PROVE FpgaInv'
  BY <1>5 DEF ClearEdges, device
<1>6. ASSUME NEW word \in {Head(axi)}, Feed(word) PROVE FpgaInv'
  BY <1>6 DEF Feed
<1> QED
  BY <1>1, <1>2, <1>3, <1>4, <1>5, <1>6 DEF Access

\* A step of the configuration sequence sends words of its bitstream.
LEMMA DriverSends ==
  ASSUME ImageInv, StreamInv, DriverStep
  PROVE  SentInv'
<1> USE DEF ImageInv, SentInv, Steps, Sending
<1>1. CASE ChecksFail
  BY <1>1 DEF ChecksFail, At, Return, hardware, device, thread, bounds
<1>2. CASE Step1
  BY <1>2 DEF Step1, At, Go
<1>3. CASE Step3
  BY <1>3 DEF Step3, At, Go, Loop
<1>4. CASE Step4
  <2>1. StateGet = "reset" => fed = <<>>
    BY DEF StateGet, FpgaInv
  <2> QED
    BY <1>4, <2>1 DEF Step4, At, Go, Again, hardware, device
<1>5. CASE Step5
  BY <1>5 DEF Step5, At, Go, Loop, Return, ChangeCtl, WriteCtl, device
<1>6. CASE Step6
  BY <1>6 DEF Step6, At, Go, Return, Again, hardware, device, thread
<1>7. CASE Step7
  BY <1>7 DEF Step7, At, Go, ClearEdges, device, thread
<1>8. CASE Step8
  <2>1. fed' = <<>> /\ pc' = "step9" /\ call' = call /\ sent' = 0
    BY <1>8 DEF Step8, At, Go, ChangeCtl, WriteCtl, device
  <2>2. <<>> \in Seq(WordsOf(call.image.name))
    OBVIOUS
  <2> QED
    BY <1>8, <2>1, <2>2 DEF Step8, At
<1>9. CASE SendBuffer
  <2>1. /\ pc = "step9" /\ fed' = fed /\ call' = call /\ sent' = sent
        /\ \/ pc' = "step11"
           \/ pc' = "axi" /\ axi' = AxiWords(Bytes(call.image, 1, call.image.len))
    BY <1>9 DEF SendBuffer, At, Go, DataEnds, hardware, device
  <2>2. AxiWords(Bytes(call.image, 1, call.image.len)) \in Seq(WordsOf(call.image.name))
    <3>1. call.image \in Requests /\ call.image.len \in Nat
      BY <2>1, FpgaAssumption
    <3>2. 0 + 1 = 1 /\ 0 + call.image.len = call.image.len
      BY <3>1
    <3>3. AxiWords(Bytes(call.image, 0 + 1, 0 + call.image.len))
            \in Seq(WordsOf(call.image.name))
      BY <3>1, AxiLength
    <3> QED
      BY <3>2, <3>3
  <2> QED
    BY <2>1, <2>2
<1>10. ASSUME NEW n \in ChunkSizes, StreamChunk(n)
       PROVE  SentInv'
  <2>1. /\ pc = "step9" /\ fed' = fed /\ call' = call /\ sent' = sent + n
        /\ pc' = "axi" /\ axi' = AxiWords(Bytes(call.image, sent + 1, sent + n))
    BY <1>10 DEF StreamChunk, At, Go, hardware, device
  <2>2. n \in Nat /\ call.image \in Requests
    BY <2>1, FpgaAssumption
  <2>3. axi' \in Seq(WordsOf(call.image.name))
    BY <2>1, <2>2, AxiLength
  <2> QED
    BY <2>1, <2>2, <2>3
<1>11. CASE StreamFails
  <2>1. pc = "step9" /\ pc' = "step11" /\ fed' = fed /\ sent' = sent
    BY <1>11 DEF StreamFails, At, hardware, device
  <2>2. call'.image = call.image
    BY <1>11 DEF StreamFails, StreamInv
  <2> QED
    BY <2>1, <2>2
<1>12. CASE StreamEnds
  BY <1>12 DEF StreamEnds, At, Go, Loop, hardware, device
<1>13. CASE WriteAxi
  <2>1. pc = "axi" /\ call' = call /\ sent' = sent
    BY <1>13 DEF WriteAxi, At
  <2> DEFINE S == WordsOf(call.image.name)
  <2>2. fed \in Seq(S) /\ axi \in Seq(S)
    BY <2>1
  <2>3. CASE axi # <<>> /\ Feed(Head(axi)) /\ axi' = Tail(axi) /\ pc' = pc
    <3>1. Head(axi) \in S /\ Tail(axi) \in Seq(S)
      BY <2>2, <2>3, HeadTailProperties
    <3>2. Append(fed, Head(axi)) \in Seq(S)
      BY <2>2, <3>1, AppendProperties
    <3>3. fed' \in Seq(S)
      BY <2>2, <2>3, <3>2 DEF Feed
    <3> QED
      BY <2>1, <2>3, <3>1, <3>3
  <2>4. CASE pc' \in {"step10", "step9"} /\ UNCHANGED hardware
    BY <2>1, <2>2, <2>4 DEF hardware, device
  <2> QED
    BY <1>13, <2>3, <2>4 DEF WriteAxi
<1>14. CASE Step10
  BY <1>14 DEF Step10, At, Go, DataEnds, Again, hardware, device
<1>15. CASE Step11
  BY <1>15 DEF Step11, At, Go, ChangeCtl, WriteCtl, device
<1>16. CASE ClearStaleDone
  BY <1>16 DEF ClearStaleDone, At, Go, ClearDone, hardware, device, thread
<1>17. CASE IssueCount
  BY <1>17 DEF IssueCount, At, Go, Loop, WriteCount, device
<1>18. CASE WaitCount
  BY <1>18 DEF WaitCount, At, Go, Loop, Return, Again, ClearDone, hardware, device, thread
<1>19. CASE Step13
  BY <1>19 DEF Step13, At, Return, Again, hardware, device, thread
<1>20. CASE Returns
  BY <1>20 DEF Returns, At, NoLocals
<1> QED
  BY <1>1, <1>2, <1>3, <1>4, <1>5, <1>6, <1>7, <1>8, <1>9, <1>10, <1>11, <1>12, <1>13,
     <1>14, <1>15, <1>16, <1>17, <1>18, <1>19, <1>20 DEF DriverStep

\* A call begins with a request of its caller.
LEMMA ApiSends ==
  ASSUME ImageInv, ApiStep
  PROVE  FpgaInv' /\ SentInv'
<1> USE DEF ImageInv, SentInv, Steps, Sending, FpgaInv, device
<1>1. ASSUME NEW image \in Requests, WriteFPGAconfig(image)
      PROVE  FpgaInv' /\ SentInv'
  BY <1>1 DEF WriteFPGAconfig, NewCall, WriteCtl, thread
<1>2. ASSUME NEW image \in Requests, NEW how \in {"full", "stream"}, Configure(how, image)
      PROVE  FpgaInv' /\ SentInv'
  BY <1>2 DEF Configure, NewCall, hardware, thread
<1>3. CASE ControlEnable \/ ControlDisable
  BY <1>3 DEF ControlEnable, ControlDisable, Api, NewCall, At, WriteCtl, thread
<1>4. CASE ResetAssert \/ ResetDeassert
  BY <1>4 DEF ResetAssert, ResetDeassert, Reset, Api, NewCall, At, WriteCtl, hardware, thread
<1>5. ASSUME NEW mask \in Masks, IrqDisable(mask) \/ IrqEnable(mask)
      PROVE  FpgaInv' /\ SentInv'
  BY <1>5 DEF IrqDisable, IrqEnable, Irq, Api, NewCall, At, thread
<1>6. ASSUME NEW mask \in Masks, NEW other \in Masks,
             GpoWrite(mask, other) \/ IrqTypeSet(mask, other) \/ IrqPolSet(mask, other)
      PROVE  FpgaInv' /\ SentInv'
  BY <1>6 DEF GpoWrite, IrqTypeSet, IrqPolSet, Irq, Api, NewCall, At, thread
<1> QED
  BY <1>1, <1>2, <1>3, <1>4, <1>5, <1>6 DEF ApiStep

\* A caller calls while no call is running.
LEMMA StepOfCaller ==
  ASSUME ApiStep
  PROVE  pc = "idle"
<1> USE DEF NewCall, At, Api, Irq
<1>1. ASSUME NEW image \in Requests, WriteFPGAconfig(image) PROVE pc = "idle"
  BY <1>1 DEF WriteFPGAconfig
<1>2. ASSUME NEW image \in Requests, NEW how \in {"full", "stream"}, Configure(how, image)
      PROVE  pc = "idle"
  BY <1>2 DEF Configure
<1>3. CASE ControlEnable \/ ControlDisable \/ ResetAssert \/ ResetDeassert
  BY <1>3 DEF ControlEnable, ControlDisable, ResetAssert, ResetDeassert, Reset
<1>4. ASSUME NEW mask \in Masks, NEW other \in Masks,
             \/ IrqDisable(mask) \/ IrqEnable(mask)
             \/ GpoWrite(mask, other) \/ IrqTypeSet(mask, other) \/ IrqPolSet(mask, other)
      PROVE  pc = "idle"
  BY <1>4 DEF IrqDisable, IrqEnable, GpoWrite, IrqTypeSet, IrqPolSet
<1> QED
  BY <1>1, <1>2, <1>3, <1>4 DEF ApiStep

\* It begins a configuration, or has returned.
LEMMA ApiGoes ==
  ASSUME ApiStep
  PROVE  pc' \in {"idle", "checks"}
<1> USE DEF NewCall, At, Api, Irq, thread
<1>1. ASSUME NEW image \in Requests, WriteFPGAconfig(image) PROVE pc' = "checks"
  BY <1>1 DEF WriteFPGAconfig
<1>2. ASSUME NEW image \in Requests, NEW how \in {"full", "stream"}, Configure(how, image)
      PROVE  pc' = "checks"
  BY <1>2 DEF Configure
<1>3. CASE ControlEnable \/ ControlDisable \/ ResetAssert \/ ResetDeassert
  BY <1>3 DEF ControlEnable, ControlDisable, ResetAssert, ResetDeassert, Reset
<1>4. ASSUME NEW mask \in Masks, NEW other \in Masks,
             \/ IrqDisable(mask) \/ IrqEnable(mask)
             \/ GpoWrite(mask, other) \/ IrqTypeSet(mask, other) \/ IrqPolSet(mask, other)
      PROVE  pc' = "idle"
  BY <1>4 DEF IrqDisable, IrqEnable, GpoWrite, IrqTypeSet, IrqPolSet
<1> QED
  BY <1>1, <1>2, <1>3, <1>4 DEF ApiStep

\* Every step keeps the invariant.
LEMMA NextImage ==
  ASSUME ImageInv, StreamInv, BoardType, ThreadType, [Next]_vars
  PROVE  ImageInv'
<1>1. CASE DriverStep
  <2>1. Access
    BY <1>1, DriverAccess DEF ThreadType
  <2> QED
    BY <1>1, <2>1, DriverSends, AccessFpga DEF ImageInv
<1>2. CASE ApiStep
  BY <1>2, ApiSends DEF ImageInv
<1>3. CASE HardwareMoves
  <2>1. FpgaInv' /\ (fed' = fed \/ fed' = <<>>)
    BY <1>3, HardwareFpga DEF HardwareMoves, ImageInv
  <2>2. <<>> \in Seq(WordsOf(call.image.name))
    OBVIOUS
  <2>3. UNCHANGED <<pc, call, status, axi, sent>>
    BY <1>3 DEF HardwareMoves, thread
  <2> QED
    BY <2>1, <2>2, <2>3 DEF ImageInv, SentInv
<1>4. CASE Killed
  BY <1>4 DEF Killed, NoLocals, hardware, device, ImageInv, SentInv, FpgaInv, Steps, Sending
<1>5. CASE UNCHANGED vars
  BY <1>5 DEF vars, hardware, device, thread, ImageInv, SentInv, FpgaInv
<1> QED
  BY <1>1, <1>2, <1>3, <1>4, <1>5 DEF Next

\* It holds at first.
LEMMA InitImage == Init => ImageInv
  BY DEF Init, HardwareInit, ImageInv, FpgaInv, SentInv, Steps, Sending

\* A configuration that returns SUCCESS from step 13 has left the FPGA running the
\* very bitstream of the call: none that an earlier call or a killed one sent, no
\* part of one, and none with words lost to a power cut (alt_fpga_manager.c
\* alt_fpga_internal_configure, wait_for_fpga_state).
THEOREM FpgaSuccessMeansThisImage ==
  ASSUME NamesAreOwn
  PROVE  Spec => SuccessMeansThisImage
<1> DEFINE I == Inv /\ BoardType /\ FlagType /\ ThreadType /\ ImageInv
<1>1. Init => I
  BY InitInv, InitTypes, InitImage
<1>2. I /\ [Next]_vars => I'
  BY NextInv, NextType, NextImage DEF Inv
<1>3. ASSUME I, [Next]_vars, At("step13"), pc' = "return", result' = "SUCCESS"
      PROVE  /\ call.image \in Images
             /\ fabric = call.image.name /\ fed = Words(call.image)
  <2>1. call.image \in Requests /\ fed \in Seq(WordsOf(call.image.name))
    BY <1>3 DEF At, ImageInv, SentInv, Sending
  <2>2. mode = "user"
    <3>1. Step13
      <4>1. CASE DriverStep
        BY <1>3, <4>1 DEF DriverStep, At, ChecksFail, Step1, Step3, Step4, Step5, Step6,
           Step7, Step8, SendBuffer, StreamChunk, StreamFails, StreamEnds, WriteAxi,
           Step10, Step11, ClearStaleDone, IssueCount, WaitCount, Returns
      <4>2. CASE ApiStep
        BY <1>3, <4>2, StepOfCaller DEF At
      <4>3. CASE HardwareMoves \/ Killed \/ UNCHANGED vars
        BY <1>3, <4>3 DEF At, HardwareMoves, Killed, vars
      <4> QED
        BY <1>3, <4>1, <4>2, <4>3 DEF Next
    <3>2. StateGet = "user"
      BY <1>3, <3>1 DEF Step13, At, Again, Return, DataError
    <3> QED
      BY <3>2 DEF StateGet
  <2>3. PICK i \in Images : fed = Words(i) /\ fabric = i.name
    BY <1>3, <2>2 DEF ImageInv, FpgaInv
  <2>4. i = call.image
    BY <2>1, <2>3, WordsAreOwn
  <2> QED
    BY <2>3, <2>4
<1>4. I /\ [Next]_vars => [At("step13") /\ pc' = "return" /\ result' = "SUCCESS" =>
         /\ call.image \in Images
         /\ fabric = call.image.name /\ fed = Words(call.image)]_vars
  BY <1>3
<1> QED
  BY <1>1, <1>2, <1>4, PTL DEF Spec, SuccessMeansThisImage
------------------------------------------------------------------------------
(* A call that succeeds leaves no edge of its own reset latched.             *)

\* The FPGA that never lost its power: what it reports in each of its phases
PhaseInv ==
  /\ mode \in Modes \ {"off"}
  /\ mode = "reset" => seen = {}
  /\ mode = "cfg" => seen \in {{}, {"error"}, {"done"}}
  /\ mode \in {"init", "user"} => "error" \notin seen

\* The FPGA is past its reset.
Past == mode \in {"cfg", "init", "user"}

\* From step 7 on no edge of nSTATUS is latched that is not a real error's.
EdgeInv ==
  /\ pc \in Steps
  /\ losses \in Nat
  /\ losses = 0 =>
       /\ PhaseInv
       /\ pc = "step7" => Past
       /\ pc \in {"step8"} \cup Sending => Past /\ ("ns" \in edges => "error" \in seen)
       /\ pc \in {"return", "idle"} /\ result = "SUCCESS"
            /\ call.by \in {"writeFPGAconfig", "configure"} =>
              mode = "user" /\ "ns" \notin edges /\ ~PullsNConfig(bits)

\* nSTATUS is up when the FPGA is past its reset and has found no error.
LEMMA StatusPin == "ns" \in Pins <=> mode \notin {"off", "reset"} /\ "error" \notin seen
  BY DEF Pins, PowerPin, StatusPins, ErrorPins, PullPins

\* Only a change of nSTATUS can latch its edge.
LEMMA StatusEdge ==
  ASSUME LatchEdges, "ns" \in edges', "ns" \notin edges
  PROVE  (mode \notin {"off", "reset"} /\ "error" \notin seen)
           # (mode \notin {"off", "reset"} /\ "error" \notin seen)'
<1>1. ("ns" \in Pins) # ("ns" \in Pins)'
  BY DEF LatchEdges
<1>2. ("ns" \in Pins)' <=> (mode \notin {"off", "reset"} /\ "error" \notin seen)'
  BY StatusPin, PTL
<1> QED
  BY <1>1, <1>2, StatusPin

\* What the FPGA does by itself, released from reset: it goes on, and if it latches
\* an edge of nSTATUS then for an error.
LEMMA HardwareEdges ==
  ASSUME losses \in Nat, losses = 0 => PhaseInv, HardwareStep
  PROVE  /\ losses' \in Nat
         /\ losses' = 0 =>
              /\ losses = 0 /\ PhaseInv'
              /\ Past /\ ~PullsNConfig(bits) =>
                   /\ Past' /\ (mode = "user" => mode' = "user")
                   /\ ("ns" \in edges => "error" \in seen)
                        => ("ns" \in edges' => "error" \in seen')
<1> USE DEF PhaseInv, Modes, Past
<1>1. CASE PowersOff
  BY <1>1 DEF PowersOff
<1>2. CASE PowersOn
  BY <1>2 DEF PowersOn
<1>3. CASE EntersReset
  BY <1>3 DEF EntersReset
<1>4. CASE LeavesReset
  BY <1>4 DEF LeavesReset
<1>5. CASE FindsError
  BY <1>5 DEF FindsError
<1>6. CASE CompletesData
  BY <1>6, StatusEdge DEF CompletesData
<1>7. CASE EntersInit
  BY <1>7, StatusEdge DEF EntersInit
<1>8. CASE EntersUserMode
  BY <1>8, StatusEdge DEF EntersUserMode
<1>9. CASE FindsCrcError
  BY <1>9, StatusEdge DEF FindsCrcError
<1>10. CASE CountsDown
  BY <1>10 DEF CountsDown
<1> QED
  BY <1>1, <1>2, <1>3, <1>4, <1>5, <1>6, <1>7, <1>8, <1>9, <1>10 DEF HardwareStep

\* No access latches an edge of nSTATUS, or moves the FPGA.
LEMMA AccessEdges ==
  ASSUME Access
  PROVE  UNCHANGED <<mode, seen, losses>> /\ ("ns" \in edges' => "ns" \in edges)
<1>1. CASE UNCHANGED hardware
  BY <1>1 DEF hardware, device
<1>2. ASSUME NEW word \in SUBSET CtlBits, WriteCtl(word)
      PROVE  UNCHANGED <<mode, seen, losses>> /\ ("ns" \in edges' => "ns" \in edges)
  BY <1>2, StatusEdge DEF WriteCtl, device
<1>3. CASE \E n \in {4, Long} : WriteCount(n)
  BY <1>3 DEF WriteCount, device
<1>4. CASE ClearDone
  BY <1>4 DEF ClearDone, device
<1>5. CASE \E set \in SUBSET Signals : ClearEdges(set)
  BY <1>5 DEF ClearEdges, device
<1>6. CASE Feed(Head(axi))
  BY <1>6 DEF Feed
<1> QED
  BY <1>1, <1>2, <1>3, <1>4, <1>5, <1>6 DEF Access

\* A step of the configuration sequence
LEMMA DriverEdges ==
  ASSUME Inv, EdgeInv, BoardType, ThreadType, DriverStep
  PROVE  EdgeInv'
<1>0. /\ UNCHANGED <<mode, seen, losses>>
      /\ "ns" \in edges' => "ns" \in edges
  BY DriverAccess, AccessEdges DEF ThreadType
<1>a. PhaseInv' <=> PhaseInv
  BY <1>0 DEF PhaseInv
<1>b. pc \in Released => ~PullsNConfig(bits)
  BY DEF Inv
<1> USE <1>0, <1>a DEF EdgeInv, Steps, Sending, Past
<1>1. CASE ChecksFail
  BY <1>1 DEF ChecksFail, At, Return
<1>2. CASE Step1 \/ Step3
  BY <1>2 DEF Step1, Step3, At, Go, Loop
<1>3. CASE Step4
  BY <1>3 DEF Step4, At, Go, Again
<1>4. CASE Step5
  BY <1>4 DEF Step5, At, Go, Loop, Return
<1>5. CASE Step6
  <2>1. losses = 0 /\ StateGet = "cfg" => mode = "cfg"
    BY DEF StateGet, PhaseInv
  <2> QED
    BY <1>5, <2>1 DEF Step6, At, Go, Return, Again
<1>6. CASE Step7
  BY <1>6 DEF Step7, At, Go, ClearEdges
<1>7. CASE Step8
  BY <1>7 DEF Step8, At, Go
<1>8. CASE SendBuffer \/ (\E n \in ChunkSizes : StreamChunk(n)) \/ StreamEnds
  BY <1>8 DEF SendBuffer, StreamChunk, StreamEnds, At, Go, Loop, DataEnds
<1>9. CASE StreamFails
  BY <1>9 DEF StreamFails, At
<1>10. CASE WriteAxi
  BY <1>10 DEF WriteAxi, At
<1>11. CASE Step10
  BY <1>11 DEF Step10, At, Go, DataEnds, Again
<1>12. CASE Step11 \/ ClearStaleDone \/ IssueCount
  BY <1>12 DEF Step11, ClearStaleDone, IssueCount, At, Go, Loop
<1>13. CASE WaitCount
  BY <1>13 DEF WaitCount, At, Go, Loop, Return, Again, DataError
<1>14. CASE Step13
  <2>1. StateGet = "user" => mode = "user"
    BY DEF StateGet
  <2>2. bits' = bits \/ pc' = pc
    BY <1>14 DEF Step13, Again, hardware, registers
  <2>3. CASE Return(data_status) /\ StateGet = "user" /\ UNCHANGED hardware
    BY <1>14, <1>b, <2>1, <2>3 DEF Step13, At, Return, PhaseInv, Released, Configuring,
       hardware, registers, PullsNConfig
  <2>4. CASE Return(DataError)
    BY <1>14, <2>4 DEF Step13, At, Return, DataError
  <2>5. CASE Again(StateGet = "user")
    BY <1>14, <2>5 DEF Step13, At, Again
  <2> QED
    BY <1>14, <2>3, <2>4, <2>5 DEF Step13
<1>15. CASE Returns
  BY <1>15 DEF Returns, At, WriteCtl, ClrBits, PullsNConfig, hardware, registers
<1> QED
  BY <1>1, <1>2, <1>3, <1>4, <1>5, <1>6, <1>7, <1>8, <1>9, <1>10, <1>11, <1>12, <1>13,
     <1>14, <1>15 DEF DriverStep

\* A call of another function says nothing of a configuration.
LEMMA ApiEdges ==
  ASSUME EdgeInv, ApiStep
  PROVE  EdgeInv'
<1> USE DEF EdgeInv, Steps, Sending, PhaseInv, NewCall, At, device, hardware
<1>1. ASSUME NEW image \in Requests, WriteFPGAconfig(image)
      PROVE  EdgeInv'
  BY <1>1 DEF WriteFPGAconfig, WriteCtl
<1>2. ASSUME NEW image \in Requests, NEW how \in {"full", "stream"}, Configure(how, image)
      PROVE  EdgeInv'
  BY <1>2 DEF Configure
<1>3. CASE ControlEnable \/ ControlDisable
  BY <1>3 DEF ControlEnable, ControlDisable, Api, WriteCtl
<1>4. CASE ResetAssert \/ ResetDeassert
  BY <1>4 DEF ResetAssert, ResetDeassert, Reset, Api, WriteCtl
<1>5. ASSUME NEW mask \in Masks, IrqDisable(mask) \/ IrqEnable(mask)
      PROVE  EdgeInv'
  BY <1>5 DEF IrqDisable, IrqEnable, Irq, Api
<1>6. ASSUME NEW mask \in Masks, NEW other \in Masks,
             GpoWrite(mask, other) \/ IrqTypeSet(mask, other) \/ IrqPolSet(mask, other)
      PROVE  EdgeInv'
  BY <1>6 DEF GpoWrite, IrqTypeSet, IrqPolSet, Irq, Api
<1> QED
  BY <1>1, <1>2, <1>3, <1>4, <1>5, <1>6 DEF ApiStep

\* Every step keeps the invariant.
LEMMA NextEdges ==
  ASSUME Inv, EdgeInv, BoardType, ThreadType, [Next]_vars
  PROVE  EdgeInv'
<1>1. CASE DriverStep
  BY <1>1, DriverEdges
<1>2. CASE ApiStep
  BY <1>2, ApiEdges
<1>3. CASE HardwareMoves
  <2>1. HardwareStep /\ UNCHANGED <<pc, call, result, bits>>
    BY <1>3, HardwareKeepsBits DEF HardwareMoves
  <2>2. pc \in {"step7", "step8"} \cup Sending => ~PullsNConfig(bits)
    BY DEF Inv, Released, Configuring, Sending, Steps
  <2>3. losses \in Nat /\ (losses = 0 => PhaseInv)
    BY DEF EdgeInv
  <2>4. PullsNConfig(bits)' <=> PullsNConfig(bits)
    BY <2>1 DEF PullsNConfig
  <2>5. mode = "user" => Past
    BY DEF Past
  <2>6. losses' = 0 /\ mode' = "user" => "error" \notin seen'
    BY <2>1, <2>3, HardwareEdges DEF PhaseInv
  <2> QED
    BY <2>1, <2>2, <2>3, <2>4, <2>5, <2>6, HardwareEdges DEF EdgeInv
<1>4. CASE Killed
  BY <1>4 DEF Killed, EdgeInv, PhaseInv, Steps, Sending, hardware, device
<1>5. CASE UNCHANGED vars
  BY <1>5 DEF vars, EdgeInv, PhaseInv, Past, PullsNConfig, hardware, device, registers
<1> QED
  BY <1>1, <1>2, <1>3, <1>4, <1>5 DEF Next

\* It holds at first.
LEMMA InitEdges == Init => EdgeInv
  BY DEF Init, HardwareInit, EdgeInv, PhaseInv, Steps, Sending, Modes

\* While the FPGA keeps its power, a configuration that succeeded has left no edge
\* of nSTATUS latched: with the interrupt on, the next one is a real error
\* (alt_fpga_manager.c step 7).
THEOREM FpgaNoStaleInterrupt == Spec => []NoStaleInterrupt
<1> DEFINE I == Inv /\ BoardType /\ FlagType /\ ThreadType /\ EdgeInv
<1>1. Init => I
  BY InitInv, InitTypes, InitEdges
<1>2. I /\ [Next]_vars => I'
  BY NextInv, NextType, NextEdges
<1>3. I => NoStaleInterrupt
  BY DEF EdgeInv, NoStaleInterrupt, At
<1> QED
  BY <1>1, <1>2, <1>3, PTL DEF Spec

------------------------------------------------------------------------------
(* Which bitstreams reach the FPGA as they are.                              *)

\* Division by four
LEMMA Quarters ==
  ASSUME NEW n \in Nat
  PROVE  /\ n \div 4 \in Nat /\ n % 4 \in 0 .. 3 /\ n = 4 * (n \div 4) + (n % 4)
         /\ (n + 3) \div 4 = n \div 4 + IF n % 4 = 0 THEN 0 ELSE 1
<1>1. n \div 4 \in Nat /\ n % 4 \in 0 .. 3 /\ n = 4 * (n \div 4) + (n % 4)
  OBVIOUS
<1>2. PICK q \in Nat : q = n \div 4
  BY <1>1
<1>3. n % 4 = 0 => (n + 3) \div 4 = q
  BY <1>1, <1>2
<1>4. n % 4 # 0 => (n + 3) \div 4 = q + 1
  BY <1>1, <1>2
<1> QED
  BY <1>1, <1>2, <1>3, <1>4

\* What the driver writes of a bitstream in one go is the bitstream as the FPGA
\* counts its words, but for a rest behind whole words.
LEMMA WordsAsWritten ==
  ASSUME NEW r \in Requests
  PROVE  AxiWords(Bytes(r, 1, r.len)) = Words(r) <=> r.len % 4 = 0 \/ r.len < 4
<1> DEFINE n == r.len
           q == r.len \div 4
           k == (r.len + 3) \div 4
           W == AxiWords(Bytes(r, 1, r.len))
           Word(w) == [b \in 1 .. 4 |-> IF 4 * (w - 1) + b <= n
                                          THEN <<r.name, 4 * (w - 1) + b>> ELSE ZeroByte]
<1>1. n \in Nat /\ q \in Nat /\ n % 4 \in 0 .. 3 /\ n = 4 * q + (n % 4)
  <2>1. n \in Nat
    BY FpgaAssumption
  <2> QED
    BY <2>1, Quarters
<1>2. /\ W \in Seq(WordsOf(r.name))
      /\ Len(W) = q + IF n % 4 = 0 THEN 0 ELSE 1
      /\ \A w \in 1 .. q, b \in 1 .. 4 : W[w][b] = <<r.name, 4 * w - 4 + b>>
      /\ n % 4 # 0 => \A b \in 1 .. 4 :
                         W[q + 1][b] = IF b <= n % 4 THEN <<r.name, b>> ELSE ZeroByte
  <2>1. 0 + 1 = 1 /\ 0 + n = n
    BY <1>1
  <2>2. \A w \in 1 .. q, b \in 1 .. 4 : 0 + 4 * w - 4 + b = 4 * w - 4 + b
    BY <1>1
  <2>3. \A b \in 1 .. 4 : 0 + b = b
    OBVIOUS
  <2>4. /\ AxiWords(Bytes(r, 0 + 1, 0 + n)) \in Seq(WordsOf(r.name))
        /\ Len(AxiWords(Bytes(r, 0 + 1, 0 + n))) = n \div 4 + IF n % 4 = 0 THEN 0 ELSE 1
        /\ \A w \in 1 .. n \div 4, b \in 1 .. 4 :
              AxiWords(Bytes(r, 0 + 1, 0 + n))[w][b] = <<r.name, 0 + 4 * w - 4 + b>>
        /\ n % 4 # 0 =>
              \A b \in 1 .. 4 : AxiWords(Bytes(r, 0 + 1, 0 + n))[n \div 4 + 1][b]
                                  = IF b <= n % 4 THEN <<r.name, 0 + b>> ELSE ZeroByte
    <3>1. n \in Nat /\ 0 \in Nat
      BY <1>1
    <3> HIDE DEF n
    <3> QED
      BY <3>1, AxiContents, Zenon
  <2>5. W = AxiWords(Bytes(r, 0 + 1, 0 + n))
    BY <2>1
  <2>6. /\ W \in Seq(WordsOf(r.name))
        /\ Len(W) = q + IF n % 4 = 0 THEN 0 ELSE 1
    BY <2>4, <2>5
  <2> HIDE DEF W, n, q
  <2>7. ASSUME NEW w \in 1 .. q, NEW b \in 1 .. 4 PROVE W[w][b] = <<r.name, 4 * w - 4 + b>>
    <3>1. W[w][b] = <<r.name, 0 + 4 * w - 4 + b>>
      BY <2>4, <2>5 DEF q, n
    <3> QED
      BY <2>2, <3>1
  <2>8. n % 4 # 0 => \A b \in 1 .. 4 :
                        W[q + 1][b] = IF b <= n % 4 THEN <<r.name, b>> ELSE ZeroByte
    BY <2>3, <2>4, <2>5 DEF q, n
  <2> QED
    BY <2>6, <2>7, <2>8
<1>3. /\ Words(r) = [w \in 1 .. k |-> Word(w)]
      /\ k = q + IF n % 4 = 0 THEN 0 ELSE 1
  <2>1. k = q + IF n % 4 = 0 THEN 0 ELSE 1
    BY <1>1, Quarters
  <2> QED
    BY <2>1 DEF Words
<1> HIDE DEF W, n, q, k
<1>4. W = [w \in 1 .. k |-> W[w]]
      /\ \A w \in 1 .. k : W[w] = [b \in 1 .. 4 |-> W[w][b]]
  <2>1. W \in [1 .. Len(W) -> WordsOf(r.name)] /\ Len(W) = k
    BY <1>2, <1>3, LenProperties
  <2>2. W = [w \in 1 .. k |-> W[w]]
    BY <2>1
  <2>3. ASSUME NEW w \in 1 .. k PROVE W[w] = [b \in 1 .. 4 |-> W[w][b]]
    <3>1. W[w] \in WordsOf(r.name)
      BY <2>1
    <3> QED
      BY <3>1 DEF WordsOf
  <2> QED
    BY <2>2, <2>3
<1>5. ASSUME NEW w \in 1 .. q PROVE W[w] = Word(w)
  <2>1. \A b \in 1 .. 4 : 4 * (w - 1) + b <= n /\ 4 * (w - 1) + b = 4 * w - 4 + b
    BY <1>1
  <2>2. w \in 1 .. k
    BY <1>1, <1>3
  <2> QED
    BY <1>2, <1>4, <2>1, <2>2
<1>a. (\A w \in 1 .. k : W[w] = Word(w)) => W = Words(r)
  <2> HIDE DEF Word
  <2> QED
    BY <1>3, <1>4
<1>6. CASE n % 4 = 0
  <2>1. k = q
    BY <1>1, <1>3, <1>6
  <2> QED
    BY <1>5, <1>6, <1>a, <2>1 DEF W, n
<1>7. CASE n % 4 # 0 /\ n < 4
  <2>1. q = 0 /\ n % 4 = n /\ k = 1 /\ 1 .. k = {1}
    BY <1>1, <1>3, <1>7
  <2>2. W[1] = Word(1)
    <3>1. \A b \in 1 .. 4 : W[1][b] = IF b <= n THEN <<r.name, b>> ELSE ZeroByte
      BY <1>2, <1>7, <2>1
    <3>2. W[1] = [b \in 1 .. 4 |-> W[1][b]]
      BY <1>4, <2>1
    <3>3. \A b \in 1 .. 4 : 4 * (1 - 1) + b = b
      OBVIOUS
    <3> QED
      BY <3>1, <3>2, <3>3
  <2> QED
    BY <1>7, <1>a, <2>1, <2>2 DEF W, n
<1>8. CASE n % 4 # 0 /\ ~(n < 4)
  <2>1. q >= 1 /\ q + 1 \in 1 .. k /\ 4 * (q + 1 - 1) + 1 <= n /\ 1 <= n % 4
        /\ 4 * (q + 1 - 1) + 1 # 1
    BY <1>1, <1>3, <1>8
  <2>2. W[q + 1][1] = <<r.name, 1>>
    BY <1>2, <1>8, <2>1
  <2>3. Words(r)[q + 1][1] = <<r.name, 4 * (q + 1 - 1) + 1>>
    <3>1. Words(r)[q + 1] = Word(q + 1)
      BY <1>3, <2>1
    <3>2. Word(q + 1)[1] = IF 4 * (q + 1 - 1) + 1 <= n
                             THEN <<r.name, 4 * (q + 1 - 1) + 1>> ELSE ZeroByte
      <4>1. \A w \in Nat : Word(w)[1] = IF 4 * (w - 1) + 1 <= n
                                  THEN <<r.name, 4 * (w - 1) + 1>> ELSE ZeroByte
        OBVIOUS
      <4> HIDE DEF Word
      <4> QED
        BY <1>1, <4>1
    <3> HIDE DEF Word
    <3> QED
      BY <2>1, <3>1, <3>2
  <2> QED
    BY <1>8, <2>1, <2>2, <2>3 DEF W, n
<1> QED
  BY <1>1, <1>6, <1>7, <1>8 DEF n

\* While the data bus is on, every word that the FPGA in its configuration phase
\* is given counts; so what it has and what is still to be written is the buffer.
DataInv ==
  /\ pc \in Configuring => HpsControls(ctrl_reg) /\ ChipEnabled(ctrl_reg)
  /\ pc \in {"step9", "axi"} => "axicfgen" \in ctrl_reg
  /\ pc \in {"step6", "step7", "step8"} => fed = <<>>
  /\ pc = "step9" /\ call.how = "full" => fed = <<>>
  /\ pc = "axi" /\ call.how = "full" /\ mode = "cfg" /\ losses = 0 =>
       fed \o axi = AxiWords(Bytes(call.image, 1, call.image.len))

\* It holds at first.
LEMMA InitData == Init => DataInv
  BY DEF Init, DataInv, Configuring, Steps

\* A step of the configuration sequence keeps it.
LEMMA DriverData ==
  ASSUME Inv, EdgeInv, ImageInv, BoardType, ThreadType, DataInv, DriverStep
  PROVE  DataInv'
<1> USE DEF DataInv, Configuring, Steps, At, Go, HpsControls, ChipEnabled
<1>1. CASE ChecksFail
  BY <1>1 DEF ChecksFail, Return
<1>2. CASE Step1
  BY <1>2 DEF Step1, WidthBit
<1>3. CASE Step3
  BY <1>3 DEF Step3, Loop, ChangeCtl, SetBits
<1>4. CASE Step4
  BY <1>4 DEF Step4, Again
<1>5. CASE Step5
  <2>1. status = "SUCCESS" => fed = <<>>
    BY <1>5 DEF Step5, ImageInv, SentInv
  <2> QED
    BY <1>5, <2>1 DEF Step5, Loop, Return, ChangeCtl, ClrBits, WriteCtl, device
<1>6. CASE Step6
  BY <1>6 DEF Step6, Return, Again, thread, hardware, device
<1>7. CASE Step7
  BY <1>7 DEF Step7, ClearEdges, thread, device
<1>8. CASE Step8
  BY <1>8 DEF Step8, ChangeCtl, SetBits, WriteCtl, device
<1>9. CASE SendBuffer
  <2>1. CASE pc' = "step11"
    BY <1>9, <2>1 DEF SendBuffer, DataEnds
  <2>2. CASE /\ pc' = "axi" /\ UNCHANGED <<call, fed, ctrl_reg>>
             /\ axi' = AxiWords(Bytes(call.image, 1, call.image.len))
    <3>1. pc = "step9" /\ fed = <<>>
      BY <1>9 DEF SendBuffer
    <3>2. pc' = "axi" => axi' \in Seq(WordsOf(call.image.name))
      BY <1>9, <2>2, DriverSends DEF SentInv, Inv
    <3>3. <<>> \o axi' = axi'
      BY <2>2, <3>2, ConcatEmptySeq
    <3> QED
      BY <2>2, <3>1, <3>3
  <2> QED
    BY <1>9, <2>1, <2>2 DEF SendBuffer, DataEnds, hardware, device
<1>10. ASSUME NEW n \in ChunkSizes, StreamChunk(n) PROVE DataInv'
  BY <1>10 DEF StreamChunk
<1>11. CASE StreamFails
  BY <1>11 DEF StreamFails
<1>12. CASE StreamEnds
  BY <1>12 DEF StreamEnds, Loop
<1>13. CASE WriteAxi
  <2>1. CASE axi # <<>> /\ Feed(Head(axi)) /\ axi' = Tail(axi) /\ pc' = pc
    <3> DEFINE S == WordsOf(call.image.name)
    <3>1. pc = "axi" /\ UNCHANGED <<call, ctrl_reg, mode, losses>>
      BY <1>13, <2>1 DEF WriteAxi, Feed
    <3>2. ctrl_reg = bits /\ TransfersData(bits)
      BY <3>1 DEF Inv, TransfersData
    <3>3. fed \in Seq(S) /\ axi \in Seq(S)
      BY <3>1 DEF ImageInv, SentInv, Sending
    <3>4. mode = "cfg" => fed' = Append(fed, Head(axi))
      BY <2>1, <3>2 DEF Feed
    <3>5. Append(fed, Head(axi)) \o Tail(axi) = fed \o axi
      <4>1. Head(axi) \in S /\ Tail(axi) \in Seq(S) /\ axi = <<Head(axi)>> \o Tail(axi)
        BY <2>1, <3>3, HeadTailProperties
      <4> HIDE DEF S
      <4>2. Append(fed, Head(axi)) = fed \o <<Head(axi)>>
        BY <3>3, <4>1, AppendIsConcat
      <4>3. <<Head(axi)>> \in Seq(S)
        BY <4>1
      <4> QED
        BY <3>3, <4>1, <4>2, <4>3, ConcatAssociative
    <3> QED
      BY <2>1, <3>1, <3>4, <3>5
  <2>2. CASE call.how = "full" /\ pc' = "step10"
    BY <1>13, <2>2 DEF WriteAxi
  <2>3. CASE call.how # "full" /\ pc' = "step9"
    BY <1>13, <2>3 DEF WriteAxi
  <2> QED
    BY <1>13, <2>1, <2>2, <2>3 DEF WriteAxi
<1>14. CASE Step10
  BY <1>14 DEF Step10, DataEnds, Again
<1>15. CASE Step11
  BY <1>15 DEF Step11, ChangeCtl, ClrBits
<1>16. CASE ClearStaleDone \/ IssueCount
  BY <1>16 DEF ClearStaleDone, IssueCount, Loop, thread
<1>17. CASE WaitCount
  BY <1>17 DEF WaitCount, Loop, Return, Again, thread
<1>18. CASE Step13
  BY <1>18 DEF Step13, Return, Again, thread
<1>19. CASE Returns
  BY <1>19 DEF Returns
<1> QED
  BY <1>1, <1>2, <1>3, <1>4, <1>5, <1>6, <1>7, <1>8, <1>9, <1>10, <1>11, <1>12, <1>13,
     <1>14, <1>15, <1>16, <1>17, <1>18, <1>19 DEF DriverStep

\* The FPGA, released from reset, keeps what it has been given: its phase goes on,
\* and only a reset clears it.
LEMMA HardwareData ==
  ASSUME Inv, EdgeInv, DataInv, HardwareMoves
  PROVE  DataInv'
<1>1. HardwareStep /\ UNCHANGED <<pc, call, ctrl_reg, axi>>
  BY DEF HardwareMoves, thread
<1>2. fed' = fed \/ fed' = <<>>
  BY <1>1 DEF HardwareStep, PowersOff, PowersOn, EntersReset, LeavesReset, FindsError,
     CompletesData, EntersInit, EntersUserMode, FindsCrcError, CountsDown
<1>3. ASSUME pc = "axi", losses' = 0, mode' = "cfg"
      PROVE  losses = 0 /\ mode = "cfg" /\ fed' = fed
  <2>1. ~PullsNConfig(bits)
    BY <1>3 DEF Inv, Released, Configuring, Steps
  <2>2. losses \in Nat /\ (losses = 0 => Past)
    BY <1>3 DEF EdgeInv, Sending
  <2> QED
    BY <1>1, <1>3, <2>1, <2>2 DEF HardwareStep, PowersOff, PowersOn, EntersReset, LeavesReset,
       FindsError, CompletesData, EntersInit, EntersUserMode, FindsCrcError, CountsDown, Past
<1> QED
  BY <1>1, <1>2, <1>3 DEF DataInv, HpsControls, ChipEnabled

\* A call of another function writes no data.
LEMMA ApiData ==
  ASSUME DataInv, ApiStep
  PROVE  DataInv'
<1>1. pc' \in {"idle", "checks"}
  BY ApiGoes
<1> QED
  BY <1>1 DEF DataInv, Configuring, Steps

\* A bitstream that alt_fpga_configure writes to an FPGA which keeps its power and
\* is still waiting for data reaches it as it is exactly if its length is a multiple
\* of four, or less: behind whole words alt_fpga_internal_writeaxi takes the rest of
\* the buffer from its start (alt_fpga_manager.c:206-219), and that for every length.
ReachesFpga ==
  [][At("axi") /\ call.how = "full" /\ pc' = "step10" /\ mode = "cfg" /\ losses = 0 =>
       (fed = Words(call.image) <=> call.image.len % 4 = 0 \/ call.image.len < 4)]_vars

THEOREM FpgaWholeWordsReachIt == Spec => ReachesFpga
<1> DEFINE I == Inv /\ BoardType /\ FlagType /\ ThreadType /\ ImageInv /\ EdgeInv /\ DataInv
<1>1. Init => I
  BY InitInv, InitTypes, InitImage, InitEdges, InitData
<1>2. ASSUME I, [Next]_vars PROVE DataInv'
  <2>1. CASE DriverStep
    BY <1>2, <2>1, DriverData
  <2>2. CASE ApiStep
    BY <1>2, <2>2, ApiData
  <2>3. CASE HardwareMoves
    BY <1>2, <2>3, HardwareData
  <2>4. CASE Killed
    BY <2>4 DEF Killed, DataInv, Configuring, Steps
  <2>5. CASE UNCHANGED vars
    BY <1>2, <2>5 DEF vars, DataInv, thread, hardware, device, HpsControls, ChipEnabled
  <2> QED
    BY <1>2, <2>1, <2>2, <2>3, <2>4, <2>5 DEF Next
<1>3. I /\ [Next]_vars => I'
  BY <1>2, NextInv, NextType, NextImage, NextEdges DEF Inv
<1>4. ASSUME I, [Next]_vars, At("axi"), call.how = "full", pc' = "step10",
             mode = "cfg", losses = 0
      PROVE  fed = Words(call.image) <=> call.image.len % 4 = 0 \/ call.image.len < 4
  <2>1. axi = <<>>
    <3>1. CASE DriverStep
      BY <1>4, <3>1 DEF DriverStep, At, ChecksFail, Step1, Step3, Step4, Step5, Step6,
         Step7, Step8, SendBuffer, StreamChunk, StreamFails, StreamEnds, WriteAxi,
         Step10, Step11, ClearStaleDone, IssueCount, WaitCount, Step13, Returns
    <3>2. CASE ApiStep
      BY <1>4, <3>2, StepOfCaller DEF At
    <3>3. CASE HardwareMoves \/ Killed \/ UNCHANGED vars
      BY <1>4, <3>3 DEF At, HardwareMoves, Killed, vars
    <3> QED
      BY <1>4, <3>1, <3>2, <3>3 DEF Next
  <2>2. call.image \in Requests /\ fed \in Seq(WordsOf(call.image.name))
    BY <1>4 DEF At, ImageInv, SentInv, Sending
  <2>3. fed \o <<>> = fed
    BY <2>2, ConcatEmptySeq
  <2>4. fed = AxiWords(Bytes(call.image, 1, call.image.len))
    BY <1>4, <2>1, <2>3 DEF DataInv, At
  <2> QED
    BY <2>2, <2>4, WordsAsWritten
<1>5. I /\ [Next]_vars =>
        [At("axi") /\ call.how = "full" /\ pc' = "step10" /\ mode = "cfg" /\ losses = 0 =>
           (fed = Words(call.image) <=> call.image.len % 4 = 0 \/ call.image.len < 4)]_vars
  BY <1>4
<1> QED
  BY <1>1, <1>3, <1>5, PTL DEF Spec, ReachesFpga

------------------------------------------------------------------------------
(* Progress: a call takes a bounded number of steps.                         *)

\* How many steps a call still takes from the beginning of a step, but for what is
\* left of the data: every timeout at its full length.
Ahead ==
  [ idle   |-> 0,              return |-> 1,               step13  |-> 2,
    wait14 |-> Polls + 3,      count14 |-> 2 * Polls + 4,  step14  |-> 2 * Polls + 5,
    wait12 |-> 2 * Polls + 6,  count12 |-> 3 * Polls + 7,  step12  |-> 3 * Polls + 8,
    step11 |-> 3 * Polls + 9,  step10  |-> 3 * Polls + 10, axi     |-> 4 * Polls + 11,
    step9  |-> 4 * Polls + 12, step8   |-> 4 * Polls + 3 * DataLimit + 13,
    step7  |-> 4 * Polls + 3 * DataLimit + 14, step6  |-> 4 * Polls + 3 * DataLimit + 15,
    step5  |-> 5 * Polls + 3 * DataLimit + 16, step4  |-> 5 * Polls + 3 * DataLimit + 17,
    step3  |-> 6 * Polls + 3 * DataLimit + 18, checks |-> 6 * Polls + 3 * DataLimit + 19 ]

\* The rounds left of the running loop, the words left of the running write, and
\* the bytes the call may still be given.
RoundsLeft ==
  IF pc \in {"step4", "step6", "step10", "wait12", "wait14", "step13"} THEN polls ELSE 0
WordsLeft == IF pc = "axi" THEN Len(axi) ELSE 0
BytesLeft ==
  IF pc = "step9" /\ call.how = "full" THEN DataLimit
  ELSE IF pc = "step9" \/ (pc = "axi" /\ call.how # "full") THEN left ELSE 0

\* An upper bound of the steps the running call still takes: a chunk of n bytes is
\* one of the stream, at most n words, and the end of writing them.  A stream sends its
\* words and comes back to step 9.
Remaining == Ahead[pc] + RoundsLeft + WordsLeft + 3 * BytesLeft
               + IF pc = "axi" /\ call.how # "full" THEN 2 ELSE 0

\* What a call may take at most: every timeout once, and three steps a byte.
CallSteps == 6 * Polls + 3 * DataLimit + 19

\* A step of the sequence leaves fewer to take.
LEMMA DriverCounts ==
  ASSUME ThreadType, SentInv, StreamInv, DriverStep
  PROVE  Remaining \in Nat /\ Remaining' \in Nat /\ Remaining' < Remaining
<1>0. /\ Polls \in Nat /\ DataLimit \in Nat /\ polls \in 0 .. Polls /\ left \in 0 .. DataLimit
      /\ polls \in Nat /\ left \in Nat
  BY FpgaAssumption DEF ThreadType
<1> USE DEF At, Go, Loop, Return, thread
\* What is left at each step, before and after: outside step 9 only rounds count.
<1>a. pc \in Steps /\ pc \notin {"step9", "axi"} => Remaining = Ahead[pc] + RoundsLeft
  <2>1. pc \in Steps => Ahead[pc] \in Nat
    BY <1>0 DEF Steps, Ahead
  <2>2. RoundsLeft \in Nat
    BY <1>0 DEF RoundsLeft
  <2> QED
    BY <2>1, <2>2 DEF Remaining, WordsLeft, BytesLeft
<1>b. pc' \in Steps /\ pc' \notin {"step9", "axi"} /\ polls' \in Nat
        => Remaining' = Ahead[pc'] + RoundsLeft'
  <2>1. pc' \in Steps => Ahead[pc'] \in Nat
    BY <1>0 DEF Steps, Ahead
  <2>2. polls' \in Nat => RoundsLeft' \in Nat
    BY DEF RoundsLeft
  <2> QED
    BY <2>1, <2>2 DEF Remaining, WordsLeft, BytesLeft
<1>c. pc = "step9"
        => Remaining = 4 * Polls + 12 + 3 * (IF call.how = "full" THEN DataLimit ELSE left)
  <2>1. CASE pc = "step9" /\ call.how = "full"
    <3>1. Ahead[pc] = 4 * Polls + 12 /\ RoundsLeft = 0 /\ WordsLeft = 0 /\ BytesLeft = DataLimit
      BY <2>1 DEF Ahead, RoundsLeft, WordsLeft, BytesLeft
    <3> QED
      BY <1>0, <2>1, <3>1 DEF Remaining
  <2>2. CASE pc = "step9" /\ call.how # "full"
    <3>1. Ahead[pc] = 4 * Polls + 12 /\ RoundsLeft = 0 /\ WordsLeft = 0 /\ BytesLeft = left
      BY <2>2 DEF Ahead, RoundsLeft, WordsLeft, BytesLeft
    <3> QED
      BY <1>0, <2>2, <3>1 DEF Remaining
  <2> QED
    BY <2>1, <2>2
<1>d. pc = "axi" /\ Len(axi) \in Nat
        => Remaining = 4 * Polls + 11 + Len(axi) + (IF call.how = "full" THEN 0 ELSE 3 * left + 2)
  <2>1. CASE pc = "axi" /\ Len(axi) \in Nat /\ call.how = "full"
    <3>1. Ahead[pc] = 4 * Polls + 11 /\ RoundsLeft = 0 /\ WordsLeft = Len(axi) /\ BytesLeft = 0
      BY <2>1 DEF Ahead, RoundsLeft, WordsLeft, BytesLeft
    <3> QED
      BY <1>0, <2>1, <3>1 DEF Remaining
  <2>2. CASE pc = "axi" /\ Len(axi) \in Nat /\ call.how # "full"
    <3>1. Ahead[pc] = 4 * Polls + 11 /\ RoundsLeft = 0 /\ WordsLeft = Len(axi) /\ BytesLeft = left
      BY <2>2 DEF Ahead, RoundsLeft, WordsLeft, BytesLeft
    <3> QED
      BY <1>0, <2>2, <3>1 DEF Remaining
  <2> QED
    BY <2>1, <2>2
<1>e. pc' = "step9" /\ left' \in Nat
        => Remaining' = 4 * Polls + 12 + 3 * (IF call'.how = "full" THEN DataLimit ELSE left')
  <2>1. CASE pc' = "step9" /\ left' \in Nat /\ call'.how = "full"
    <3>1. Ahead[pc'] = 4 * Polls + 12 /\ RoundsLeft' = 0 /\ WordsLeft' = 0 /\ BytesLeft' = DataLimit
      BY <2>1 DEF Ahead, RoundsLeft, WordsLeft, BytesLeft
    <3> QED
      BY <1>0, <2>1, <3>1 DEF Remaining
  <2>2. CASE pc' = "step9" /\ left' \in Nat /\ call'.how # "full"
    <3>1. Ahead[pc'] = 4 * Polls + 12 /\ RoundsLeft' = 0 /\ WordsLeft' = 0 /\ BytesLeft' = left'
      BY <2>2 DEF Ahead, RoundsLeft, WordsLeft, BytesLeft
    <3> QED
      BY <1>0, <2>2, <3>1 DEF Remaining
  <2> QED
    BY <2>1, <2>2
<1>f. pc' = "axi" /\ Len(axi') \in Nat /\ left' \in Nat
        => Remaining' = 4 * Polls + 11 + Len(axi')
                          + (IF call'.how = "full" THEN 0 ELSE 3 * left' + 2)
  <2>1. CASE pc' = "axi" /\ Len(axi') \in Nat /\ left' \in Nat /\ call'.how = "full"
    <3>1. Ahead[pc'] = 4 * Polls + 11 /\ RoundsLeft' = 0 /\ WordsLeft' = Len(axi') /\ BytesLeft' = 0
      BY <2>1 DEF Ahead, RoundsLeft, WordsLeft, BytesLeft
    <3> QED
      BY <1>0, <2>1, <3>1 DEF Remaining
  <2>2. CASE pc' = "axi" /\ Len(axi') \in Nat /\ left' \in Nat /\ call'.how # "full"
    <3>1. /\ Ahead[pc'] = 4 * Polls + 11 /\ RoundsLeft' = 0
          /\ WordsLeft' = Len(axi') /\ BytesLeft' = left'
      BY <2>2 DEF Ahead, RoundsLeft, WordsLeft, BytesLeft
    <3> QED
      BY <1>0, <2>2, <3>1 DEF Remaining
  <2> QED
    BY <2>1, <2>2
<1>1. CASE ChecksFail
  <2>1. CASE pc = "checks" /\ pc' = "return" /\ polls' = polls
    BY <1>0, <1>a, <1>b, <2>1 DEF Ahead, RoundsLeft, Steps
  <2> QED
    BY <1>1, <2>1 DEF ChecksFail
<1>2. CASE Step1
  <2>1. CASE pc = "checks" /\ pc' = "step3" /\ polls' = polls
    BY <1>0, <1>a, <1>b, <2>1 DEF Ahead, RoundsLeft, Steps
  <2> QED
    BY <1>2, <2>1 DEF Step1
<1>3. CASE Step3
  <2>1. CASE pc = "step3" /\ pc' = "step4" /\ polls' = Polls
    BY <1>0, <1>a, <1>b, <2>1 DEF Ahead, RoundsLeft, Steps
  <2> QED
    BY <1>3, <2>1 DEF Step3
<1>4. CASE Step4
  <2>1. CASE pc = "step4" /\ pc' = "step4" /\ polls > 0 /\ polls' = polls - 1
    BY <1>0, <1>a, <1>b, <2>1 DEF Ahead, RoundsLeft, Steps
  <2>2. CASE pc = "step4" /\ pc' = "step5" /\ polls' = polls
    BY <1>0, <1>a, <1>b, <2>2 DEF Ahead, RoundsLeft, Steps
  <2> QED
    BY <1>4, <2>1, <2>2 DEF Step4, Again, TimedOut
<1>5. CASE Step5
  <2>1. CASE pc = "step5" /\ pc' = "step6" /\ polls' = Polls
    BY <1>0, <1>a, <1>b, <2>1 DEF Ahead, RoundsLeft, Steps
  <2>2. CASE pc = "step5" /\ pc' = "return" /\ polls' = polls
    BY <1>0, <1>a, <1>b, <2>2 DEF Ahead, RoundsLeft, Steps
  <2> QED
    BY <1>5, <2>1, <2>2 DEF Step5
<1>6. CASE Step6
  <2>1. CASE pc = "step6" /\ pc' = "step6" /\ polls > 0 /\ polls' = polls - 1
    BY <1>0, <1>a, <1>b, <2>1 DEF Ahead, RoundsLeft, Steps
  <2>2. CASE pc = "step6" /\ pc' = "step7" /\ polls' = polls
    BY <1>0, <1>a, <1>b, <2>2 DEF Ahead, RoundsLeft, Steps
  <2>3. CASE pc = "step6" /\ pc' = "return" /\ polls' = polls
    BY <1>0, <1>a, <1>b, <2>3 DEF Ahead, RoundsLeft, Steps
  <2> QED
    BY <1>6, <2>1, <2>2, <2>3 DEF Step6, Again, TimedOut
<1>7. CASE Step7
  <2>1. CASE pc = "step7" /\ pc' = "step8" /\ polls' = polls
    BY <1>0, <1>a, <1>b, <2>1 DEF Ahead, RoundsLeft, Steps
  <2> QED
    BY <1>7, <2>1 DEF Step7
<1>8. CASE Step8
  <2>1. pc = "step8" /\ pc' = "step9" /\ polls' = polls /\ left' = DataLimit
    BY <1>8 DEF Step8
  <2> QED
    BY <1>0, <1>a, <1>b, <1>c, <1>e, <2>1 DEF Ahead, RoundsLeft, Steps
<1>9. CASE StreamFails
  <2>1. pc = "step9" /\ pc' = "step11" /\ polls' = polls /\ call.how = "stream"
    BY <1>9 DEF StreamFails
  <2> QED
    BY <1>0, <1>a, <1>b, <1>c, <1>e, <2>1 DEF Ahead, RoundsLeft, Steps
<1>10. CASE StreamEnds
  <2>1. pc = "step9" /\ pc' = "step10" /\ polls' = Polls /\ call.how = "stream"
    BY <1>10 DEF StreamEnds
  <2> QED
    BY <1>0, <1>a, <1>b, <1>c, <1>e, <2>1 DEF Ahead, RoundsLeft, Steps
<1>11. CASE Step10
  <2>1. CASE pc = "step10" /\ pc' = "step10" /\ polls > 0 /\ polls' = polls - 1
    BY <1>0, <1>a, <1>b, <2>1 DEF Ahead, RoundsLeft, Steps
  <2>2. CASE pc = "step10" /\ pc' = "step11" /\ polls' = polls
    BY <1>0, <1>a, <1>b, <2>2 DEF Ahead, RoundsLeft, Steps
  <2> QED
    BY <1>11, <2>1, <2>2 DEF Step10, Again, TimedOut, DataEnds
<1>12. CASE Step11
  <2>1. CASE pc = "step11" /\ pc' = "step12" /\ polls' = polls
    BY <1>0, <1>a, <1>b, <2>1 DEF Ahead, RoundsLeft, Steps
  <2> QED
    BY <1>12, <2>1 DEF Step11
<1>13. CASE ClearStaleDone
  <2>1. CASE pc = "step12" /\ pc' = "count12" /\ polls' = polls
    BY <1>0, <1>a, <1>b, <2>1 DEF Ahead, RoundsLeft, Steps
  <2>2. CASE pc = "step14" /\ pc' = "count14" /\ polls' = polls
    BY <1>0, <1>a, <1>b, <2>2 DEF Ahead, RoundsLeft, Steps
  <2> QED
    BY <1>13, <2>1, <2>2 DEF ClearStaleDone
<1>14. CASE IssueCount
  <2>1. CASE pc = "count12" /\ pc' = "wait12" /\ polls' = Polls
    BY <1>0, <1>a, <1>b, <2>1 DEF Ahead, RoundsLeft, Steps
  <2>2. CASE pc = "count14" /\ pc' = "wait14" /\ polls' = Polls
    BY <1>0, <1>a, <1>b, <2>2 DEF Ahead, RoundsLeft, Steps
  <2> QED
    BY <1>14, <2>1, <2>2 DEF IssueCount
<1>15. CASE WaitCount
  <2>1. CASE pc = "wait12" /\ pc' = "wait12" /\ polls > 0 /\ polls' = polls - 1
    BY <1>0, <1>a, <1>b, <2>1 DEF Ahead, RoundsLeft, Steps
  <2>2. CASE pc = "wait14" /\ pc' = "wait14" /\ polls > 0 /\ polls' = polls - 1
    BY <1>0, <1>a, <1>b, <2>2 DEF Ahead, RoundsLeft, Steps
  <2>3. CASE pc = "wait12" /\ pc' = "step14" /\ polls' = polls
    BY <1>0, <1>a, <1>b, <2>3 DEF Ahead, RoundsLeft, Steps
  <2>4. CASE pc = "wait12" /\ pc' = "step13" /\ polls' = Polls
    BY <1>0, <1>a, <1>b, <2>4 DEF Ahead, RoundsLeft, Steps
  <2>5. CASE pc = "wait14" /\ pc' = "step13" /\ polls' = Polls
    BY <1>0, <1>a, <1>b, <2>5 DEF Ahead, RoundsLeft, Steps
  <2>6. CASE pc = "wait12" /\ pc' = "return" /\ polls' = polls
    BY <1>0, <1>a, <1>b, <2>6 DEF Ahead, RoundsLeft, Steps
  <2>7. CASE pc = "wait14" /\ pc' = "return" /\ polls' = polls
    BY <1>0, <1>a, <1>b, <2>7 DEF Ahead, RoundsLeft, Steps
  <2> QED
    BY <1>15, <2>1, <2>2, <2>3, <2>4, <2>5, <2>6, <2>7 DEF WaitCount, Again, TimedOut
<1>16. CASE Step13
  <2>1. CASE pc = "step13" /\ pc' = "step13" /\ polls > 0 /\ polls' = polls - 1
    BY <1>0, <1>a, <1>b, <2>1 DEF Ahead, RoundsLeft, Steps
  <2>2. CASE pc = "step13" /\ pc' = "return" /\ polls' = polls
    BY <1>0, <1>a, <1>b, <2>2 DEF Ahead, RoundsLeft, Steps
  <2> QED
    BY <1>16, <2>1, <2>2 DEF Step13, Again, TimedOut
<1>17. CASE Returns
  <2>1. CASE pc = "return" /\ pc' = "idle" /\ polls' = 0
    BY <1>0, <1>a, <1>b, <2>1 DEF Ahead, RoundsLeft, Steps
  <2> QED
    BY <1>17, <2>1 DEF Returns, NoLocals
<1>18. CASE SendBuffer
  <2>1. CASE pc = "step9" /\ call.how = "full" /\ pc' = "step11" /\ polls' = polls
    BY <1>0, <1>b, <1>c, <2>1 DEF Ahead, RoundsLeft, Steps
  <2>2. CASE /\ pc = "step9" /\ call.how = "full" /\ pc' = "axi" /\ call' = call /\ left' = left
             /\ call.image.len <= DataLimit
             /\ axi' = AxiWords(Bytes(call.image, 1, call.image.len))
    <3>1. call.image \in Requests /\ call.image.len \in Nat
      BY <2>2, FpgaAssumption DEF SentInv
    <3>2. 0 + 1 = 1 /\ 0 + call.image.len = call.image.len
      BY <3>1
    <3>3. Len(AxiWords(Bytes(call.image, 0 + 1, 0 + call.image.len)))
            = call.image.len \div 4 + IF call.image.len % 4 = 0 THEN 0 ELSE 1
      BY <3>1, AxiLength
    <3>4. Len(axi') \in Nat /\ Len(axi') <= call.image.len
      <4> DEFINE m == call.image.len
      <4>1. Len(axi') = m \div 4 + IF m % 4 = 0 THEN 0 ELSE 1
        BY <2>2, <3>2, <3>3
      <4> HIDE DEF m
      <4>2. m \in Nat => /\ m \div 4 + (IF m % 4 = 0 THEN 0 ELSE 1) \in Nat
                         /\ m \div 4 + (IF m % 4 = 0 THEN 0 ELSE 1) <= m
        OBVIOUS
      <4> QED
        BY <3>1, <4>1, <4>2 DEF m
    <3>5. Remaining = 4 * Polls + 12 + 3 * DataLimit
      BY <1>c, <2>2
    <3>6. Remaining' = 4 * Polls + 11 + Len(axi')
      BY <1>0, <1>f, <2>2, <3>4
    <3> QED
      BY <1>0, <2>2, <3>1, <3>4, <3>5, <3>6
  <2> QED
    BY <1>18, <2>1, <2>2 DEF SendBuffer, DataEnds
<1>19. ASSUME NEW n \in ChunkSizes, StreamChunk(n)
      PROVE  Remaining \in Nat /\ Remaining' \in Nat /\ Remaining' < Remaining
  <2>1. /\ pc = "step9" /\ pc' = "axi" /\ call.how = "stream" /\ call' = call
        /\ n \in Nat \ {0} /\ n <= left /\ left' = left - n
        /\ axi' = AxiWords(Bytes(call.image, sent + 1, sent + n))
    BY <1>0, <1>19, FpgaAssumption DEF StreamChunk
  <2>2. Len(axi') = n \div 4 + IF n % 4 = 0 THEN 0 ELSE 1
    BY <2>1, AxiLength DEF SentInv
  <2>3. Len(axi') \in Nat /\ Len(axi') <= n
    BY <2>1, <2>2
  <2>4. Remaining = 4 * Polls + 12 + 3 * left
    BY <1>c, <2>1
  <2>5. Remaining' = 4 * Polls + 11 + Len(axi') + (3 * (left - n) + 2)
    BY <1>0, <1>f, <2>1, <2>3
  <2> QED
    BY <1>0, <2>1, <2>3, <2>4, <2>5
<1>20. CASE WriteAxi
  <2>1. pc = "axi" /\ call' = call /\ left' = left /\ axi \in Seq(WordsOf(call.image.name))
    BY <1>20 DEF WriteAxi, SentInv
  <2>2. Len(axi) \in Nat
    BY <2>1
  <2>3. CASE axi # <<>> /\ axi' = Tail(axi) /\ pc' = pc
    <3>1. Len(axi') = Len(axi) - 1 /\ Len(axi) > 0
      BY <2>1, <2>3, HeadTailProperties, EmptySeq
    <3> QED
      BY <1>0, <1>d, <1>f, <2>1, <2>2, <2>3, <3>1
  <2>4. CASE call.how = "full" /\ pc' = "step10" /\ polls' = Polls
    <3>1. Remaining = 4 * Polls + 11 + Len(axi)
      BY <1>0, <1>d, <2>1, <2>2, <2>4
    <3>2. Remaining' = Ahead[pc'] + RoundsLeft'
      BY <1>0, <1>b, <2>4 DEF Steps
    <3>3. Ahead[pc'] = 3 * Polls + 10 /\ RoundsLeft' = Polls
      BY <2>4 DEF Ahead, RoundsLeft
    <3> QED
      BY <1>0, <2>2, <3>1, <3>2, <3>3
  <2>5. CASE call.how # "full" /\ pc' = "step9"
    BY <1>0, <1>d, <1>e, <2>1, <2>2, <2>5
  <2> QED
    BY <1>20, <2>3, <2>4, <2>5 DEF WriteAxi
<1> QED
  BY <1>1, <1>2, <1>3, <1>4, <1>5, <1>6, <1>7, <1>8, <1>9, <1>10, <1>11, <1>12,
     <1>13, <1>14, <1>15, <1>16, <1>17, <1>18, <1>19, <1>20 DEF DriverStep

\* Within a call only its own steps count.
CallIsBounded ==
  [][ /\ DriverStep => Remaining' < Remaining
      /\ ~At("idle") => Remaining' <= Remaining ]_vars

\* However slow or stuck the FPGA is, whatever the caller's stream returns and
\* whoever uses the FPGA's power switch, a call of a configuration function is
\* through after CallSteps of its own steps, each of which leaves fewer to take; that
\* the call takes them is all that ConfigureReturns needs of the scheduling
\* (alt_fpga_manager.c, the timeouts of steps 4, 6, 10, 12 and 13, data_limit).
THEOREM FpgaCallIsBounded ==
  Spec => /\ [](Remaining \in 0 .. CallSteps)
          /\ [](~At("idle") => Remaining > 0)
          /\ CallIsBounded
<1> DEFINE I == Inv /\ BoardType /\ FlagType /\ ThreadType /\ ImageInv
           Bound == Remaining \in 0 .. CallSteps
<1>0. Polls \in Nat /\ DataLimit \in Nat /\ CallSteps \in Nat
  BY FpgaAssumption DEF CallSteps
<1>1. Init => I /\ Bound
  BY <1>0, InitInv, InitTypes, InitImage
     DEF Init, Remaining, Ahead, RoundsLeft, WordsLeft, BytesLeft
<1>2. I /\ [Next]_vars => I'
  BY NextInv, NextType, NextImage DEF Inv
<1>3. ASSUME I, DriverStep PROVE Remaining \in Nat /\ Remaining' \in Nat /\ Remaining' < Remaining
  BY <1>3, DriverCounts DEF Inv, ImageInv
<1>4. ASSUME ApiStep PROVE pc' \in {"idle", "checks"}
  BY <1>4, ApiGoes
<1>5. ASSUME HardwareMoves \/ UNCHANGED vars PROVE Remaining' = Remaining
  BY <1>5 DEF HardwareMoves, vars, thread, Remaining, Ahead, RoundsLeft, WordsLeft, BytesLeft
<1>6. pc' = "idle" => Remaining' = 0
  BY DEF Remaining, Ahead, RoundsLeft, WordsLeft, BytesLeft
<1>7. pc' = "checks" => Remaining' = CallSteps
  BY <1>0 DEF Remaining, Ahead, RoundsLeft, WordsLeft, BytesLeft, CallSteps
<1>8. ASSUME I, Bound, [Next]_vars PROVE Bound'
  <2>1. CASE DriverStep
    BY <1>0, <1>3, <1>8, <2>1
  <2>2. CASE ApiStep
    BY <1>0, <1>4, <1>6, <1>7, <2>2
  <2>3. CASE HardwareMoves \/ UNCHANGED vars
    BY <1>0, <1>5, <1>8, <2>3 DEF CallSteps
  <2>4. CASE Killed
    BY <1>0, <1>6, <2>4 DEF Killed
  <2> QED
    BY <1>8, <2>1, <2>2, <2>3, <2>4 DEF Next
<1>9. ASSUME I, Bound, [Next]_vars
      PROVE  /\ DriverStep => Remaining' < Remaining
             /\ ~At("idle") => Remaining' <= Remaining
  <2>1. CASE DriverStep
    BY <1>3, <1>9, <2>1
  <2>2. CASE ApiStep
    BY <1>9, <2>2, <1>3, StepOfCaller DEF At
  <2>3. CASE HardwareMoves \/ UNCHANGED vars
    BY <1>0, <1>3, <1>5, <1>9, <2>3
  <2>4. CASE Killed
    BY <1>0, <1>3, <1>6, <1>9, <2>4 DEF Killed
  <2> QED
    BY <1>9, <2>1, <2>2, <2>3, <2>4 DEF Next
<1>10. ASSUME I, ~At("idle") PROVE Remaining > 0
  <2>1. /\ polls \in Nat /\ Polls \in Nat /\ left \in Nat /\ DataLimit \in Nat
        /\ pc \in Steps /\ pc # "idle"
    BY <1>0, <1>10 DEF ThreadType, At
  <2>2. pc = "axi" => Len(axi) \in Nat
    BY <1>10 DEF ImageInv, SentInv
  <2> QED
    <3>1. Ahead[pc] \in Nat \ {0}
      BY <2>1 DEF Ahead, Steps
    <3>2. RoundsLeft \in Nat /\ WordsLeft \in Nat /\ BytesLeft \in Nat
      BY <2>1, <2>2 DEF RoundsLeft, WordsLeft, BytesLeft
    <3> QED
      BY <3>1, <3>2 DEF Remaining
<1>11. I /\ Bound /\ [Next]_vars =>
         [ /\ DriverStep => Remaining' < Remaining
           /\ ~At("idle") => Remaining' <= Remaining ]_vars
  BY <1>9
<1> QED
  BY <1>1, <1>2, <1>8, <1>10, <1>11, PTL DEF Spec, CallIsBounded
=============================================================================
