------------------------ MODULE FpgaManagerProperties ------------------------
(* What the configuration of the FPGA owes its callers, whatever the FPGA    *)
(* does between two accesses.                                                *)
EXTENDS FpgaManager

Steps == {"idle", "checks", "step3", "step4", "step5", "step6", "step7", "step8",
          "step9", "axi", "step10", "step11", "step12", "count12", "wait12",
          "step14", "count14", "wait14", "step13", "return"}

CtlBits == {"en", "nce", "nconfigpull", "nstatuspull", "confdonepull", "prreq",
            "axicfgen", "cfgwdth"}

\* Type invariant
TypeOK ==
  /\ mode \in Modes /\ msel \in BoardModes
  /\ bits \subseteq CtlBits /\ ctrl_reg \subseteq CtlBits /\ cdratio \in Ratios
  /\ count \in {0, 4, Long} /\ dcntdone \in BOOLEAN
  /\ seen \subseteq {"error", "done", "clocked", "crc"}
  /\ pc \in Steps
  /\ result \in {"none", "SUCCESS", "ERROR", "BAD_ARG", "PWR_OFF", "NO_SOC_CTRL",
                 "CFG", "CFG_STM", "CRC"}
  /\ polls \in 0 .. Polls /\ left \in 0 .. DataLimit

\* The call ended before step 1 touched anything.
Refused == result \in {"NO_SOC_CTRL", "PWR_OFF", "ERROR"}

\* Whatever failed, writeFPGAconfig gives the control block back, and once it
\* began a configuration it leaves neither the FPGA in reset nor its data bus on
\* (:627-919); only a call that was killed may leave the bus on, and one that
\* then gives up in step 4 or 6 does not put that right.
ControlGivenBack ==
  At("idle") /\ call.by = "writeFPGAconfig" =>
    /\ ~HpsControls(bits)
    /\ Refused \/ ~PullsNConfig(bits)
    /\ Refused \/ crashes > 0 \/ "axicfgen" \notin bits

\* A configuration that succeeds leaves no nSTATUS edge of its own reset latched:
\* with the interrupt on, the next one is a real error (step 7).  A power cut is
\* one: the FPGA that comes back latches its edge again.
NoStaleInterrupt ==
  At("idle") /\ call.by \in {"writeFPGAconfig", "configure"} /\ result = "SUCCESS"
    /\ losses = 0 => "ns" \notin edges

\* The caller learns of a failure of its stream, and only then of one, whatever
\* the steps after it ran into (:845-905, alt_fpga_manager.h:640).
StreamErrorReported ==
  At("idle") /\ call.how = "stream" =>
    (result = "CFG_STM" <=> call.stream = "failed")

\* SUCCESS is returned only while the FPGA runs the very bitstream of this call:
\* not an older one, a part of one, or one with words lost to a power cut.
SuccessMeansThisImage ==
  [][At("step13") /\ pc' = "return" /\ result' = "SUCCESS" =>
       /\ call.image \in Images
       /\ fabric = call.image.name /\ fed = Words(call.image)]_vars

\* Every call returns: however slow or stuck the FPGA is, and even if the
\* caller's stream never ends (:508-510).
ConfigureReturns == ~At("idle") ~> At("idle")

\* The words written are the bitstream (:206-208), to its last byte.
BitstreamWritten ==
  [][At("axi") /\ call.how = "full" /\ pc' = "step10" /\ call.image \in Images
     /\ mode = "cfg" /\ losses = 0 => fed = Words(call.image)]_vars
=============================================================================
