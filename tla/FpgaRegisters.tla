--------------------------- MODULE FpgaRegisters ---------------------------
(* The registers of the FPGA manager (src/node/FPGAconfig/alt_fpgamgr.h) and *)
(* the FPGA behind them, as far as the registers' descriptions and the       *)
(* driver's use of them fix it.  A one-bit field is its name; a register of  *)
(* such fields is the set of the names that are 1.  The FPGA acts on its own *)
(* between any two accesses of the driver.                                   *)
EXTENDS Naturals, Sequences

CONSTANTS
  Images,        \* bitstreams that configure the FPGA: [name, len, clock]
  BoardModes,    \* the values the MSEL pins of the board may have
  PowerLosses    \* how often the FPGA may lose its power (bound)

ASSUME ImagesAssumption ==
  \A i \in Images : i.len \in Nat /\ i.clock \in {"internal", "dclk"}

VARIABLES
  mode,       \* STAT.mode: the phase the FPGA is in
  msel,       \* STAT.msel
  bits,       \* CTRL, the one-bit fields
  cdratio,    \* CTRL.cdratio
  count,      \* DCLKCNT: clocks still to be sent
  dcntdone,   \* DCLKSTAT.dcntdone
  fed,        \* the configuration words the FPGA took since its last reset
  seen,       \* what the monitor reports of the configuration (below)
  fabric,     \* the image the FPGA runs, NoImage when it runs none
  gpo,        \* GPO, the general-purpose outputs
  inten, inttype, polarity,   \* GPIO_INTEN, GPIO_INTTYPE_LEVEL, GPIO_INT_POL
  edges,      \* the edges latched until they are cleared through PORTA_EOI
  losses      \* losses of power so far

registers == <<bits, cdratio, gpo, inten, inttype, polarity>>
device    == <<mode, fed, seen, fabric, losses>>
clockgen  == <<count, dcntdone>>
hardware  == <<registers, device, clockgen, msel, edges>>

NoImage == "none"

------------------------------------------------------------------------------
(* Fields *)

\* STAT.mode
Modes == {"off", "reset", "cfg", "init", "user", "unknown"}

\* STAT.msel: width of the data bus, speed of the power-on reset, and whether
\* the bitstream is encrypted or compressed; the other values are reserved.
Pp16 == [width : {16}, por : {"fast", "slow"}, data : {"plain", "aes", "dc"}]
Pp32 == [width : {32}, por : {"fast", "slow"}, data : {"plain", "aes", "dc"}]
Reserved == [width |-> 0, por |-> "none", data |-> "none"]

\* CTRL.en: the manager, not the configuration pins, drives the control block.
HpsControls(word) == "en" \in word

\* CTRL.nce: 0 enables the chip for configuration.
ChipEnabled(word) == "nce" \notin word

\* CTRL.nconfigpull, nstatuspull, confdonepull: pull the pin down, whatever en is.
PullsNConfig(word) == "nconfigpull" \in word
PullsNStatus(word) == "nstatuspull" \in word
PullsConfDone(word) == "confdonepull" \in word

\* CTRL.axicfgen: words written to the data register are clocked into the FPGA.
TransfersData(word) == {"en", "axicfgen"} \subseteq word /\ ChipEnabled(word)

\* CTRL.cfgwdth: 1 for the 32-bit bus.
WidthBit(width) == IF width = 32 THEN {"cfgwdth"} ELSE {}

\* CTRL.cdratio
Ratios == {1, 2, 4, 8}

------------------------------------------------------------------------------
(* The monitor: pins and interrupts *)

Signals == {"ns", "cd", "id", "crc", "ccd", "prr", "pre", "prd",
            "ncp", "nsp", "cdp", "fpo"}

\* FPGA_POWER_ON
PowerPin == IF mode = "off" THEN {} ELSE {"fpo"}

\* nSTATUS, CONF_DONE, INIT_DONE: no error in the configuration, its data
\* complete, its initialization over.
StatusPins ==
  LET up == mode \notin {"off", "reset"} IN
       (IF up /\ "error" \notin seen THEN {"ns"} ELSE {})
  \cup (IF up /\ "done" \in seen     THEN {"cd"} ELSE {})
  \cup (IF mode = "user"             THEN {"id"} ELSE {})

\* CRC_ERROR: found in user mode.
ErrorPins == IF "crc" \in seen THEN {"crc"} ELSE {}

\* nCONFIG, nSTATUS and CONF_DONE as they are on the pins: what the control
\* block drives, unless it is pulled down.
PullPins ==
       (IF PullsNConfig(bits) THEN {} ELSE {"ncp"})
  \cup (IF PullsNStatus(bits)  \/ "ns" \notin StatusPins THEN {} ELSE {"nsp"})
  \cup (IF PullsConfDone(bits) \/ "cd" \notin StatusPins THEN {} ELSE {"cdp"})

\* GPIO_EXT_PORTA
Pins == PowerPin \cup StatusPins \cup ErrorPins \cup PullPins

\* GPIO_RAW_INTSTATUS: a latched edge, or an active level.
RawStatus ==
  edges \cup {s \in Signals \ inttype : (s \in Pins) <=> (s \in polarity)}

\* GPIO_INTSTATUS, with GPIO_INTMASK at its reset value 0, which no code writes.
Interrupts == RawStatus \cap inten

\* An edge of the active polarity is latched (every action that moves a pin).
LatchEdges ==
  edges' = edges \cup {s \in inttype :
                         /\ (s \in Pins) # (s \in Pins')
                         /\ (s \in Pins') <=> (s \in polarity)}

------------------------------------------------------------------------------
(* Accesses of the driver: alt_write_word and its read-modify-write forms *)

SetBits(word, set)        == word \cup set
ClrBits(word, set)        == word \ set
ReplBits(word, set, src)  == (word \ set) \cup (src \cap set)

\* A new value of CTRL.  The FPGA keeps its phase; it reacts later.
WriteCtl(word) ==
  /\ bits' = word
  /\ UNCHANGED <<gpo, inten, inttype, polarity, device, clockgen, msel>>
  /\ LatchEdges

\* A write of DCLKCNT starts the count anew.
WriteCount(n) ==
  count' = n /\ UNCHANGED <<dcntdone, registers, device, msel, edges>>

\* DCLKSTAT.dcntdone is cleared by writing 1.
ClearDone ==
  dcntdone' = FALSE /\ UNCHANGED <<count, registers, device, msel, edges>>

\* GPIO_PORTA_EOI clears the latched edges of the bits written.
ClearEdges(set) ==
  edges' = edges \ set /\ UNCHANGED <<registers, device, clockgen, msel>>

\* A word for the data register; the FPGA takes it in the configuration phase.
Feed(word) ==
  /\ fed' = IF mode = "cfg" /\ TransfersData(bits) THEN Append(fed, word) ELSE fed
  /\ UNCHANGED <<registers, mode, seen, fabric, losses, clockgen, msel, edges>>

------------------------------------------------------------------------------
(* What a bitstream is to the FPGA: its bytes in order, 4 to a word, the last *)
(* word filled up with zeros.                                                 *)

Bytes(image, first, last) == [b \in 1 .. last + 1 - first |-> <<image.name, first + b - 1>>]

ZeroByte == <<NoImage, 0>>

Words(image) ==
  [w \in 1 .. (image.len + 3) \div 4 |->
    [b \in 1 .. 4 |-> IF 4 * (w - 1) + b <= image.len
                        THEN <<image.name, 4 * (w - 1) + b>> ELSE ZeroByte]]

------------------------------------------------------------------------------
(* The FPGA on its own *)

PowersOff ==
  /\ mode # "off" /\ losses < PowerLosses
  /\ mode' = "off" /\ fed' = <<>> /\ seen' = {} /\ fabric' = NoImage
  /\ losses' = losses + 1
  /\ UNCHANGED <<registers, clockgen, msel>>
  /\ LatchEdges

PowersOn ==
  /\ mode = "off"
  /\ mode' = "reset"
  /\ UNCHANGED <<registers, clockgen, msel, fed, seen, fabric, losses>>
  /\ LatchEdges

\* nCONFIG low clears the configuration.
EntersReset ==
  /\ PullsNConfig(bits) /\ mode \notin {"off", "reset"}
  /\ mode' = "reset" /\ fed' = <<>> /\ seen' = {} /\ fabric' = NoImage
  /\ UNCHANGED <<registers, clockgen, msel, losses>>
  /\ LatchEdges

LeavesReset ==
  /\ mode = "reset" /\ ~PullsNConfig(bits)
  /\ mode' = "cfg"
  /\ UNCHANGED <<registers, clockgen, msel, fed, seen, fabric, losses>>
  /\ LatchEdges

\* The FPGA finds an error in its configuration data and pulls nSTATUS down.
FindsError ==
  /\ mode = "cfg" /\ seen = {} /\ fed # <<>>
  /\ seen' = {"error"}
  /\ UNCHANGED <<registers, clockgen, msel, mode, fed, fabric, losses>>
  /\ LatchEdges

\* The configuration data is complete.
CompletesData ==
  /\ mode = "cfg" /\ seen = {}
  /\ \E i \in Images : fed = Words(i)
  /\ seen' = {"done"}
  /\ UNCHANGED <<registers, clockgen, msel, mode, fed, fabric, losses>>
  /\ LatchEdges

EntersInit ==
  /\ mode = "cfg" /\ seen = {"done"}
  /\ mode' = "init"
  /\ UNCHANGED <<registers, clockgen, msel, fed, seen, fabric, losses>>
  /\ LatchEdges

\* Initialization ends; an image that asks for DCLK as its clock waits for a
\* long count of it.
EntersUserMode ==
  /\ mode = "init"
  /\ \E i \in Images :
       /\ fed = Words(i)
       /\ i.clock = "internal" \/ "clocked" \in seen
       /\ fabric' = i.name
  /\ mode' = "user"
  /\ UNCHANGED <<registers, clockgen, msel, fed, seen, losses>>
  /\ LatchEdges

FindsCrcError ==
  /\ mode = "user" /\ "crc" \notin seen
  /\ seen' = seen \cup {"crc"}
  /\ UNCHANGED <<registers, clockgen, msel, mode, fed, fabric, losses>>
  /\ LatchEdges

\* DCLKCNT reaches zero; the clocks reach the FPGA if the manager drives it.
CountsDown ==
  /\ count > 0
  /\ count' = 0 /\ dcntdone' = TRUE
  /\ seen' = IF count > 4 /\ mode = "init" /\ HpsControls(bits)
               THEN seen \cup {"clocked"} ELSE seen
  /\ UNCHANGED <<registers, msel, mode, fed, fabric, losses, edges>>

HardwareStep ==
  \/ PowersOff \/ PowersOn \/ EntersReset \/ LeavesReset \/ FindsError
  \/ CompletesData \/ EntersInit \/ EntersUserMode \/ FindsCrcError \/ CountsDown

------------------------------------------------------------------------------
\* The board after power-up: the reset values of the registers, the FPGA
\* unconfigured (in its reset phase, or already waiting for a configuration).
HardwareInit ==
  /\ mode \in {"reset", "cfg"}
  /\ msel \in BoardModes
  /\ bits = {"cfgwdth"} /\ cdratio = 1
  /\ count = 0 /\ dcntdone = FALSE
  /\ fed = <<>> /\ seen = {} /\ fabric = NoImage
  /\ gpo = {}
  /\ inten = {} /\ inttype = {} /\ polarity = {} /\ edges = {}
  /\ losses = 0
=============================================================================
