---------------------------- MODULE MCFpgaManager ----------------------------
EXTENDS FpgaManagerProperties

MCImages   == {[name |-> "two words", len |-> 8, clock |-> "dclk"]}
MCRequests == MCImages \cup {[name |-> "too long", len |-> 16, clock |-> "internal"]}
MCBoardModes == {[width |-> 32, por |-> "fast", data |-> "aes"],
                 Reserved}
MCMasks    == {{"ns"}, {"bit12"}}
MCApi      == {"configure", "control_enable", "control_disable", "reset_assert",
               "reset_deassert", "gpo_write", "irq_disable", "irq_enable",
               "irq_type_set", "irq_pol_set"}
\* A bitstream whose last word is not full
MCOddImages == {[name |-> "odd", len |-> 6, clock |-> "internal"]}
MCOneMode   == {[width |-> 32, por |-> "fast", data |-> "aes"]}
=============================================================================
