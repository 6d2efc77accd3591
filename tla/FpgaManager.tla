---------------------------- MODULE FpgaManager ----------------------------
(* The FPGA manager of src/node/FPGAconfig/alt_fpga_manager.c and its caller *)
(* writeFPGAconfig: one thread that walks through the configuration sequence *)
(* (the comments' "Step" numbers), polling an FPGA that moves on its own and *)
(* may be arbitrarily slow.                                                  *)
EXTENDS FpgaRegisters

CONSTANTS
  Requests,    \* what callers pass as the bitstream: [name, len, clock]
  ChunkSizes,  \* what a streaming callback may return as a number of bytes
  BufferSize,  \* ISTREAM_CHUNK_SIZE
  DataLimit,   \* data_limit, 32 MiB in the code
  Polls,       \* every timeout: how often a loop polls again
  UseDclk,     \* _ALT_FPGA_USE_DCLK
  Masks,       \* masks callers pass to the interrupt and GPIO functions
  ApiCalls,    \* the functions called besides writeFPGAconfig
  MaxCalls,    \* bound on the calls
  Crashes      \* how often the calling process may be killed (bound)

ASSUME FpgaAssumption ==
  /\ Polls \in Nat /\ DataLimit \in Nat /\ BufferSize \in Nat
  /\ ChunkSizes \subseteq Nat
  /\ \A r \in Requests : r.len \in Nat

VARIABLES
  pc,            \* where the thread is: the step it does next
  call,          \* the last call: its function, how it gets its data, the image,
                 \* and whether its streaming callback has misbehaved
  result,        \* what the last call returned
  ctrl_reg,      \* "The FPGA CTRL register cache"
  status,        \* the result of the wait in step 4
  data_status,   \* the result of steps 9 and 10
  polls,         \* what is left of the timeout of the running loop
  axi,           \* words the running alt_fpga_internal_writeaxi still writes
  sent,          \* bytes the streaming callback has delivered
  left,          \* what is left of data_limit
  calls, crashes \* how often each has happened

thread == <<ctrl_reg, status, data_status, polls, axi, sent, left>>
bounds == <<calls, crashes>>
vars   == <<hardware, pc, call, result, thread, bounds>>

------------------------------------------------------------------------------
(* Reading the state *)

\* alt_fpga_state_get
StateGet == IF "fpo" \in Pins THEN mode ELSE "off"

\* alt_fpga_cfg_mode_get: the reserved values of MSEL are no mode.
CfgModes == Pp16 \cup Pp32

\* The ratio of clock to data that the mode asks for.
Cdratio(m) ==
  CASE m.data = "plain" -> 1
    [] m.data = "aes"   -> IF m.width = 16 THEN 2 ELSE 4
    [] m.data = "dc"    -> IF m.width = 16 THEN 4 ELSE 8

\* alt_fpga_internal_writeaxi: whole words first; what is left of the buffer is
\* taken from its start, as cfg_buf_len is by then the length of the rest.
AxiWords(buffer) ==
  LET whole == Len(buffer) \div 4
      rest  == Len(buffer) % 4
      last  == [b \in 1 .. 4 |-> IF b <= rest THEN buffer[b] ELSE ZeroByte]
  IN  [w \in 1 .. whole |-> SubSeq(buffer, 4 * w - 3, 4 * w)]
      \o IF rest = 0 THEN <<>> ELSE <<last>>

------------------------------------------------------------------------------
(* Control flow *)

\* No call is running: its locals do not exist.
NoLocals ==
  /\ ctrl_reg' = {} /\ status' = "SUCCESS" /\ data_status' = "SUCCESS"
  /\ polls' = 0 /\ axi' = <<>> /\ sent' = 0 /\ left' = 0

At(step)  == pc = step
Go(step)  == pc' = step /\ UNCHANGED <<call, result, bounds>>
Loop(step) == Go(step) /\ polls' = Polls
Return(code) ==
  pc' = "return" /\ result' = code /\ UNCHANGED <<call, bounds>>

\* (slip) the error of the stream is lost behind a later one.
DataError_Lost == "CFG"

\* What a step that failed after the data was sent returns.
DataError == IF data_status = "SUCCESS" THEN "CFG" ELSE data_status

\* (slip) the timeout does not count down.
Again_Forever(condition) ==
  /\ ~condition /\ polls > 0
  /\ UNCHANGED <<hardware, pc, call, result, bounds, thread>>

\* One round of a polling loop: it ends when the condition holds or after the
\* last round of the timeout.
Again(condition) ==
  /\ ~condition /\ polls > 0
  /\ polls' = polls - 1
  /\ UNCHANGED <<hardware, pc, call, result, bounds,
                 ctrl_reg, status, data_status, axi, sent, left>>
TimedOut(condition) == ~condition /\ polls = 0

NewCall(function, how, image) ==
  /\ At("idle") /\ calls + crashes < MaxCalls
  /\ calls' = calls + 1 /\ UNCHANGED crashes
  /\ call' = [by |-> function, how |-> how, image |-> image, stream |-> "ok"]

------------------------------------------------------------------------------
(* Configuration *)

\* writeFPGAconfig up to alt_fpga_configure: the manager takes control.  (The
\* file descriptors of __VIRTUALMEM_SPACE_INIT are left out.)
WriteFPGAconfig(image) ==
  /\ NewCall("writeFPGAconfig", "full", image)
  /\ WriteCtl(SetBits(bits, {"en"})) /\ UNCHANGED cdratio
  /\ pc' = "checks"
  /\ UNCHANGED <<result, thread>>

\* alt_fpga_configure and alt_fpga_istream_configure, called directly
Configure(how, image) ==
  /\ NewCall("configure", how, image)
  /\ pc' = "checks"
  /\ UNCHANGED <<hardware, result, thread>>

\* The preconditions of alt_fpga_internal_configure
ChecksFail ==
  /\ At("checks")
  /\ \/ ~HpsControls(bits) /\ Return("NO_SOC_CTRL")
     \/ HpsControls(bits) /\ StateGet = "off" /\ Return("PWR_OFF")
     \/ HpsControls(bits) /\ StateGet # "off" /\ msel \notin CfgModes /\ Return("ERROR")
  /\ UNCHANGED <<hardware, thread>>

Step1 ==
  /\ At("checks")
  /\ HpsControls(bits) /\ StateGet # "off" /\ msel \in CfgModes
  /\ ctrl_reg' = (bits \ {"cfgwdth", "nce"}) \cup WidthBit(msel.width)
  /\ cdratio' = Cdratio(msel) /\ WriteCtl(ctrl_reg')
  /\ Go("step3")
  /\ UNCHANGED <<status, data_status, polls, axi, sent, left>>

\* A change of the cache that is written to CTRL
ChangeCtl(word) == ctrl_reg' = word /\ WriteCtl(word) /\ UNCHANGED cdratio

Step3 ==
  /\ At("step3")
  /\ ChangeCtl(SetBits(ctrl_reg, {"nconfigpull"}))
  /\ Loop("step4")
  /\ UNCHANGED <<status, data_status, axi, sent, left>>

Step4 ==
  /\ At("step4")
  /\ \/ Again(StateGet = "reset")
     \/ /\ \/ StateGet = "reset" /\ status' = "SUCCESS"
           \/ TimedOut(StateGet = "reset") /\ status' = "TMO"
        /\ Go("step5")
        /\ UNCHANGED <<hardware, ctrl_reg, data_status, polls, axi, sent, left>>

\* (slip) a failure of step 4 returns before the reset is released.
Step5_ReturnsFirst ==
  /\ At("step5")
  /\ \/ /\ status # "SUCCESS" /\ Return("CFG") /\ UNCHANGED <<hardware, thread>>
     \/ /\ status = "SUCCESS" /\ Loop("step6")
        /\ ChangeCtl(ClrBits(ctrl_reg, {"nconfigpull"}))
        /\ UNCHANGED <<status, data_status, axi, sent, left>>

\* The reset is released before a failure of step 4 is looked at.
Step5 ==
  /\ At("step5")
  /\ ChangeCtl(ClrBits(ctrl_reg, {"nconfigpull"}))
  /\ \/ status # "SUCCESS" /\ Return("CFG") /\ UNCHANGED polls
     \/ status = "SUCCESS" /\ Loop("step6")
  /\ UNCHANGED <<status, data_status, axi, sent, left>>

Step6 ==
  /\ At("step6")
  /\ \/ Again(StateGet = "cfg")
     \/ /\ \/ StateGet = "cfg" /\ Go("step7")
           \/ TimedOut(StateGet = "cfg") /\ Return("CFG")
        /\ UNCHANGED <<hardware, thread>>

\* (slip) the interrupt of the reset stays latched.
Step7_NoClear == At("step7") /\ Go("step8") /\ UNCHANGED <<hardware, thread>>

Step7 ==
  /\ At("step7")
  /\ ClearEdges({"ns"})
  /\ Go("step8")
  /\ UNCHANGED thread

Step8 ==
  /\ At("step8")
  /\ ChangeCtl(SetBits(ctrl_reg, {"axicfgen"}))
  /\ left' = DataLimit /\ sent' = 0
  /\ Go("step9")
  /\ UNCHANGED <<status, data_status, polls, axi>>

\* Steps 9 and 10 end with a result; step 11 follows whatever it is.
DataEnds(code) == data_status' = code /\ Go("step11")

\* Step 9 of alt_fpga_configure: the whole buffer
SendBuffer ==
  /\ At("step9") /\ call.how = "full"
  /\ \/ /\ call.image.len > DataLimit
        /\ DataEnds("CFG") /\ UNCHANGED axi
     \/ /\ call.image.len <= DataLimit
        /\ axi' = AxiWords(Bytes(call.image, 1, call.image.len))
        /\ Go("axi") /\ UNCHANGED data_status
  /\ UNCHANGED <<hardware, ctrl_reg, status, polls, sent, left>>

\* (slip) the limit is checked before the chunk is counted.
StreamChunk_LateLimit(n) ==
  /\ At("step9") /\ call.how = "stream"
  /\ n \in 1 .. BufferSize /\ left > 0
  /\ axi' = AxiWords(Bytes(call.image, sent + 1, sent + n))
  /\ sent' = sent + n /\ left' = left - n
  /\ Go("axi")
  /\ UNCHANGED <<hardware, ctrl_reg, status, data_status, polls>>

\* Step 9 of alt_fpga_istream_configure: one call of the caller's function.  It
\* may return more than the buffer holds, an error, or bytes without end; nothing
\* is the end of the stream.
StreamChunk(n) ==
  /\ At("step9") /\ call.how = "stream"
  /\ n \in 1 .. BufferSize /\ n <= left
  /\ axi' = AxiWords(Bytes(call.image, sent + 1, sent + n))
  /\ sent' = sent + n /\ left' = left - n
  /\ Go("axi")
  /\ UNCHANGED <<hardware, ctrl_reg, status, data_status, polls>>

StreamFails ==
  /\ At("step9") /\ call.how = "stream"
  /\ data_status' = "CFG_STM"
  /\ pc' = "step11" /\ call' = [call EXCEPT !.stream = "failed"]
  /\ UNCHANGED <<hardware, ctrl_reg, status, polls, axi, sent, left, result, bounds>>

StreamEnds ==
  /\ At("step9") /\ call.how = "stream"
  /\ Loop("step10")
  /\ UNCHANGED <<hardware, ctrl_reg, status, data_status, axi, sent, left>>

WriteAxi ==
  /\ At("axi")
  /\ \/ /\ axi # <<>>
        /\ Feed(Head(axi)) /\ axi' = Tail(axi) /\ UNCHANGED <<pc, polls>>
     \/ /\ axi = <<>>
        /\ IF call.how = "full" THEN pc' = "step10" /\ polls' = Polls
                                ELSE pc' = "step9" /\ UNCHANGED polls
        /\ UNCHANGED <<hardware, axi>>
  /\ UNCHANGED <<call, result, bounds, ctrl_reg, status, data_status, sent, left>>

\* wait_for_config_done: a CRC error, or CONF_DONE and nSTATUS equal
Step10 ==
  LET settled == ("cd" \in Pins) = ("ns" \in Pins) IN
  /\ At("step10")
  /\ \/ Again("crc" \in Pins \/ settled)
     \/ /\ \/ "crc" \in Pins /\ DataEnds("CRC")
           \/ /\ "crc" \notin Pins /\ settled
              /\ DataEnds(IF "cd" \in Pins THEN "SUCCESS" ELSE "CFG")
           \/ TimedOut("crc" \in Pins \/ settled) /\ DataEnds("CFG")
        /\ UNCHANGED <<hardware, ctrl_reg, status, polls, axi, sent, left>>

Step11 ==
  /\ At("step11")
  /\ ChangeCtl(ClrBits(ctrl_reg, {"axicfgen"}))
  /\ Go("step12")
  /\ UNCHANGED <<status, data_status, polls, axi, sent, left>>

------------------------------------------------------------------------------
(* dclk_set_and_wait_clear, called with 4 in step 12 and, if the build asks  *)
(* for it, with 0x5000 afterwards                                            *)

Long == 5
Dclk == [step12 |-> 4, step14 |-> Long]

ClearStaleDone ==
  /\ pc \in {"step12", "step14"}
  /\ IF dcntdone THEN ClearDone ELSE UNCHANGED hardware
  /\ Go(IF At("step12") THEN "count12" ELSE "count14")
  /\ UNCHANGED thread

IssueCount ==
  /\ pc \in {"count12", "count14"}
  /\ WriteCount(IF At("count12") THEN Dclk["step12"] ELSE Dclk["step14"])
  /\ Loop(IF At("count12") THEN "wait12" ELSE "wait14")
  /\ UNCHANGED <<ctrl_reg, status, data_status, axi, sent, left>>

WaitCount ==
  /\ pc \in {"wait12", "wait14"}
  /\ \/ Again(dcntdone)
     \/ /\ dcntdone /\ ClearDone
        /\ IF At("wait12") /\ UseDclk
             THEN Go("step14") /\ UNCHANGED polls ELSE Loop("step13")
        /\ UNCHANGED <<ctrl_reg, status, data_status, axi, sent, left>>
     \/ TimedOut(dcntdone) /\ Return(DataError) /\ UNCHANGED <<hardware, thread>>

\* (slip) a timeout of step 13 is not looked at.
Step13_NoTimeout ==
  /\ At("step13")
  /\ \/ Again(StateGet = "user")
     \/ /\ StateGet = "user" \/ TimedOut(StateGet = "user")
        /\ Return(data_status)
        /\ UNCHANGED <<hardware, thread>>

Step13 ==
  /\ At("step13")
  /\ \/ Again(StateGet = "user")
     \/ /\ \/ StateGet = "user" /\ Return(data_status)
           \/ TimedOut(StateGet = "user") /\ Return(DataError)
        /\ UNCHANGED <<hardware, thread>>

\* The caller gets the result; writeFPGAconfig first gives the control back.
Returns ==
  /\ At("return")
  /\ IF call.by = "writeFPGAconfig"
       THEN WriteCtl(ClrBits(bits, {"en"})) /\ UNCHANGED cdratio
       ELSE UNCHANGED hardware
  /\ pc' = "idle"
  /\ NoLocals
  /\ UNCHANGED <<call, result, bounds>>

------------------------------------------------------------------------------
(* The other functions *)

Api(function, code) ==
  /\ function \in ApiCalls
  /\ NewCall(function, "none", NoImage)
  /\ result' = code
  /\ UNCHANGED <<pc, thread>>

InRange(mask) == mask \subseteq Signals

ControlEnable ==
  Api("control_enable", "SUCCESS") /\ WriteCtl(SetBits(bits, {"en"})) /\ UNCHANGED cdratio

ControlDisable ==
  Api("control_disable", "SUCCESS") /\ WriteCtl(ClrBits(bits, {"en"})) /\ UNCHANGED cdratio

\* alt_fpga_reset_assert and alt_fpga_reset_deassert
Reset(function, word) ==
  \/ /\ ~HpsControls(bits)
     /\ Api(function, "NO_SOC_CTRL") /\ UNCHANGED hardware
  \/ /\ HpsControls(bits) /\ StateGet = "off"
     /\ Api(function, "PWR_OFF") /\ UNCHANGED hardware
  \/ /\ HpsControls(bits) /\ StateGet # "off"
     /\ Api(function, "SUCCESS") /\ WriteCtl(word) /\ UNCHANGED cdratio
ResetAssert   == Reset("reset_assert", SetBits(bits, {"nconfigpull"}))
ResetDeassert == Reset("reset_deassert", ClrBits(bits, {"nconfigpull"}))

GpoWrite(mask, value) ==
  /\ Api("gpo_write", "SUCCESS")
  /\ gpo' = ReplBits(gpo, mask, value)
  /\ UNCHANGED <<bits, cdratio, inten, inttype, polarity, device, clockgen, msel, edges>>

\* An interrupt register is written only for masks within bits 11:0.
Irq(function, mask) ==
  Api(function, IF InRange(mask) THEN "SUCCESS" ELSE "BAD_ARG")

IrqDisable(mask) ==
  /\ Irq("irq_disable", mask)
  /\ inten' = IF InRange(mask) THEN ClrBits(inten, mask) ELSE inten
  /\ UNCHANGED <<bits, cdratio, gpo, inttype, polarity, device, clockgen, msel, edges>>

IrqEnable(mask) ==
  /\ Irq("irq_enable", mask)
  /\ inten' = IF InRange(mask) THEN SetBits(inten, mask) ELSE inten
  /\ UNCHANGED <<bits, cdratio, gpo, inttype, polarity, device, clockgen, msel, edges>>

IrqTypeSet(mask, config) ==
  /\ Irq("irq_type_set", mask)
  /\ inttype' = IF InRange(mask) THEN ReplBits(inttype, mask, config) ELSE inttype
  /\ UNCHANGED <<bits, cdratio, gpo, inten, polarity, device, clockgen, msel, edges>>

IrqPolSet(mask, config) ==
  /\ Irq("irq_pol_set", mask)
  /\ polarity' = IF InRange(mask) THEN ReplBits(polarity, mask, config) ELSE polarity
  /\ UNCHANGED <<bits, cdratio, gpo, inten, inttype, device, clockgen, msel, edges>>

------------------------------------------------------------------------------
(* The process around it *)

\* The process is killed and started again; the registers stay as they are.
Killed ==
  /\ crashes < Crashes /\ calls + crashes < MaxCalls
  /\ crashes' = crashes + 1 /\ UNCHANGED calls
  /\ pc' = "idle" /\ result' = "none"
  /\ call' = [by |-> "none", how |-> "none", image |-> NoImage, stream |-> "ok"]
  /\ NoLocals
  /\ UNCHANGED hardware

------------------------------------------------------------------------------
DriverStep ==
  \/ ChecksFail \/ Step1 \/ Step3 \/ Step4 \/ Step5 \/ Step6 \/ Step7 \/ Step8
  \/ SendBuffer \/ (\E n \in ChunkSizes : StreamChunk(n)) \/ StreamFails \/ StreamEnds
  \/ WriteAxi \/ Step10 \/ Step11 \/ ClearStaleDone \/ IssueCount \/ WaitCount
  \/ Step13 \/ Returns

ApiStep ==
  \/ \E image \in Requests : WriteFPGAconfig(image)
  \/ \E image \in Requests, how \in {"full", "stream"} :
       "configure" \in ApiCalls /\ Configure(how, image)
  \/ ControlEnable \/ ControlDisable \/ ResetAssert \/ ResetDeassert
  \/ \E mask \in Masks :
       \/ IrqDisable(mask) \/ IrqEnable(mask)
       \/ \E other \in Masks :
            GpoWrite(mask, other) \/ IrqTypeSet(mask, other) \/ IrqPolSet(mask, other)

HardwareMoves == HardwareStep /\ UNCHANGED <<pc, call, result, thread, bounds>>

Init ==
  /\ HardwareInit
  /\ pc = "idle" /\ result = "none"
  /\ call = [by |-> "none", how |-> "none", image |-> NoImage, stream |-> "ok"]
  /\ ctrl_reg = {} /\ status = "SUCCESS" /\ data_status = "SUCCESS"
  /\ polls = 0 /\ axi = <<>> /\ sent = 0 /\ left = 0
  /\ calls = 0 /\ crashes = 0

Next == DriverStep \/ ApiStep \/ HardwareMoves \/ Killed

\* The thread runs; nothing is assumed of the FPGA or of the callers.
Fairness == WF_vars(DriverStep)

Spec == Init /\ [][Next]_vars
FairSpec == Spec /\ Fairness
=============================================================================
