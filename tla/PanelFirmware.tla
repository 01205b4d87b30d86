--------------------------- MODULE PanelFirmware ---------------------------
(***************************************************************************)
(* One Flatsun display panel: the STM32 program Display/main.c.            *)
(*                                                                         *)
(* Four agents touch the panel's memory and pins:                          *)
(*   - the main loop, interruptible between any two of its steps;          *)
(*   - the pixel clock interrupt (TIM3), which latches the LED drivers     *)
(*     and moves the scan to the next line;                                *)
(*   - the RS485 receiver: the USART in address-mark mute mode, its        *)
(*     interrupt, the DMA channel that fills CommPacket and its            *)
(*     transfer-complete interrupt;                                        *)
(*   - the world: the bus that carries frames word by word and damages     *)
(*     some, and the person who turns the rotary address selector.         *)
(*                                                                         *)
(* Interrupts do not preempt one another (NVIC_PriorityGroup_0) and each   *)
(* ends before the next word of the bus, so a word's arrival, the DMA      *)
(* transfer and the interrupts it raises are one step.                     *)
(*                                                                         *)
(* Data abstraction: a frame is its address mark and PacketWords data      *)
(* words, the last of which stands for dot_cor, id and crc; a word is      *)
(* known by the frame it belongs to and its place in it, so a CommPacket   *)
(* passes the CRC exactly when it is one frame, whole and in order.        *)
(***************************************************************************)
EXTENDS Integers, FiniteSets

CONSTANTS
  Addresses,     (* Positions of the rotary selector.                      *)
  Images,        (* What pixels may show; never looked at.                 *)
  Frames,        (* The frames the bus may carry, records of FrameType.    *)
  PacketWords,   (* Words of a DisplayPacket: pixels, then the trailer.    *)
  Lines,         (* Scan lines of a panel (16 in the code).                *)
  Blocks,        (* LED driver blocks on the SPI chain (4 in the code).    *)
  BootDot,       (* dot_value before any packet (30 in the code).          *)
  MaxFaults,     (* Bound: disturbances of bus and selector in a run.      *)
  Overrun        (* TRUE: main may take longer than one pixel clock tick.  *)

(* A frame: the address of its mark, and the contents of its packet.  crc  *)
(* tells whether the stored CRC is right (fsserver sends packets it never  *)
(* received, all zero, whose CRC is not).                                  *)
FrameType == [image : Images, addr : Addresses, id : Addresses,
              dot_cor : Nat, crc : BOOLEAN]

ASSUME FramesAssumption == /\ Addresses \subseteq Nat /\ 0 \in Addresses
                           /\ Frames \subseteq FrameType
ASSUME SizesAssumption == /\ PacketWords \in Nat /\ PacketWords >= 2
                          /\ Lines \in Nat /\ Lines >= 2
                          /\ Blocks \in Nat \ {0}
                          /\ BootDot \in Nat
                          /\ MaxFaults \in Nat
                          /\ Overrun \in BOOLEAN

VARIABLES
  pc,                    (* Where the main loop is.                        *)
  k,                     (* Loop counter: pixel words copied, blocks sent. *)
  Address,               (* The selector as main last read it, and ADD of  *)
                         (* the USART, written right after it.             *)
  LEDS,                  (* The image memory, one cell per pixel word.     *)
  dot_value,
  data_active,
  BLANK_Set,
  CommPacket,            (* The DMA buffer, one cell per packet word.      *)
  CommPacket_Available,
  cndtr,                 (* Words the enabled DMA channel still awaits; 0  *)
                         (* when the channel and its request are disabled. *)
  rwu,                   (* The USART is mute.                             *)
  line,                  (* The line the demultiplexer powers.             *)
  mode,                  (* TRUE: XLAT latches dot correction (LEDMode).   *)
  shift,                 (* What the drivers' shift registers hold.        *)
  gs,                    (* Latched greyscale: what is lit.                *)
  dc,                    (* Latched dot correction.                        *)
  selector,              (* The rotary switch.                             *)
  bus,                   (* The frame on the bus and the words sent of it. *)
  faults                 (* Disturbances so far.                           *)

mainVars   == <<pc, k, Address, LEDS, dot_value, data_active>>
packetVars == <<CommPacket, CommPacket_Available, cndtr, rwu>>
driverVars == <<shift, gs, dc>>
scanVars   == <<line, mode, BLANK_Set, driverVars>>
worldVars  == <<selector, bus, faults>>
vars       == <<mainVars, packetVars, scanVars, worldVars>>

PixelWords == 1 .. PacketWords - 1
Packet     == 1 .. PacketWords

(* A word of CommPacket or a cell of LEDS: a word of a frame, a word the   *)
(* bus damaged, an address mark taken for data, zero, or a glyph's dots.   *)
Word(f, i) == [kind |-> "frame", frame |-> f, index |-> i]
Noise      == [kind |-> "noise"]
Mark       == [kind |-> "mark"]
Zero       == [kind |-> "zero"]
Glyph(a)   == [kind |-> "glyph", address |-> a]
Space      == [kind |-> "space"]

FrameWords == { Word(f, i) : f \in Frames, i \in Packet }
Words      == FrameWords \union {Noise, Mark, Zero}
Cells      == Words \union { Glyph(a) : a \in Addresses } \union {Space}

(* What one driver block holds: a row of the image, or dot correction.     *)
Row(r) == [kind |-> "row", val |-> r]
Dot(d) == [kind |-> "dot", val |-> d]
Off    == [kind |-> "off", val |-> 0]
Dots   == {BootDot} \union { f.dot_cor : f \in Frames }
Tags   == { Row(r) : r \in 0 .. Lines - 1 } \union { Dot(d) : d \in Dots }
            \union {Off}
NextLine == (line + 1) % Lines

Boot  == {"boot", "bootDot", "bootWait", "bootInit"}
Waits == {"wait", "dotWait"}
Loop  == {"address", "check", "copy", "dotMode", "dotFill", "draw", "fill"}
           \union Waits

-----------------------------------------------------------------------------
(* Packet_CheckCRC, CRC32 being taken to detect every mixture of words.    *)
IsWhole(buf, f) == \A i \in Packet : buf[i] = Word(f, i)

(* Mutant: only the trailer is looked at.                                  *)
CheckCRC_Trailer(buf) == \E f \in Frames : f.crc /\ buf[PacketWords] = Word(f, PacketWords)

CheckCRC(buf)   == \E f \in Frames : f.crc /\ IsWhole(buf, f)

Trailer(buf)    == buf[PacketWords].frame

-----------------------------------------------------------------------------
(* TIM3_IRQHandler.  The timer runs from Init on.  The work of one pass    *)
(* of the loop is far shorter than a tick: unless Overrun, a tick finds    *)
(* main waiting, or still booting.                                         *)
Tick ==
  /\ Overrun \/ pc \in Boot \/ (pc \in Waits /\ ~BLANK_Set)
  /\ line' = NextLine
  /\ IF mode THEN dc' = shift /\ UNCHANGED gs
             ELSE gs' = shift /\ UNCHANGED dc
  /\ BLANK_Set' = TRUE
  /\ UNCHANGED <<mainVars, packetVars, worldVars, mode, shift>>

(* SPI: one more driver block enters the chain, the oldest leaves it.      *)
ShiftIn(tag) ==
  shift' = [b \in 1 .. Blocks |-> IF b = Blocks THEN tag ELSE shift[b + 1]]

Goto(label) == pc' = label

-----------------------------------------------------------------------------
(* main() before its loop: dot correction is sent and latched, then LEDS   *)
(* is cleared and the receiver started.                                    *)
BootMode ==
  /\ pc = "boot" /\ Goto("bootDot") /\ k' = 0
  /\ mode' = TRUE
  /\ UNCHANGED <<Address, LEDS, dot_value, data_active, packetVars, line,
                 BLANK_Set, driverVars, worldVars>>

BootDotFill ==
  /\ pc = "bootDot"
  /\ \/ /\ k < Blocks
        /\ k' = k + 1 /\ ShiftIn(Dot(dot_value))
        /\ UNCHANGED <<pc, BLANK_Set>>
     \/ /\ k = Blocks
        /\ Goto("bootWait") /\ BLANK_Set' = FALSE
        /\ UNCHANGED <<k, shift>>
  /\ UNCHANGED <<Address, LEDS, dot_value, data_active, packetVars, line, mode,
                 gs, dc, worldVars>>

BootDotDone ==
  /\ pc = "bootWait" /\ BLANK_Set /\ Goto("bootInit")
  /\ mode' = FALSE
  /\ LEDS' = [i \in PixelWords |-> Zero]
  /\ UNCHANGED <<k, Address, dot_value, data_active, packetVars, line,
                 BLANK_Set, driverVars, worldVars>>

(* RS485_Init, the first reading of the selector, and DrawChar(' ').  The  *)
(* receiver is enabled before it is made mute and before its interrupt is: *)
(* a mark of anyone's that came in between still sits in the data register *)
(* and arms the DMA.                                                       *)
BootReceiver ==
  /\ pc = "bootInit" /\ Goto("address")
  /\ Address' = selector
  /\ rwu' = TRUE
  /\ cndtr' \in {0, PacketWords}
  /\ LEDS' = [i \in PixelWords |-> Space]
  /\ UNCHANGED <<k, dot_value, data_active, CommPacket, CommPacket_Available,
                 scanVars, worldVars>>

-----------------------------------------------------------------------------
(* The loop of main().                                                     *)
ReadAddress ==
  /\ pc = "address" /\ Goto("wait")
  /\ Address' = selector
  /\ BLANK_Set' = FALSE
  /\ UNCHANGED <<k, LEDS, dot_value, data_active, packetVars, line, mode,
                 driverVars, worldVars>>

WaitTick ==
  /\ pc = "wait" /\ BLANK_Set /\ Goto("check")
  /\ UNCHANGED <<k, Address, LEDS, dot_value, data_active, packetVars,
                 scanVars, worldVars>>

(* Mutant: panel_id is not compared.                                       *)
Accepts_AnyId == CheckCRC(CommPacket)

Accepts == /\ CheckCRC(CommPacket)
           /\ Trailer(CommPacket).id = Address

(* Mutant: a packet that is not accepted is not given back.                *)
CheckPacket_KeepsBad ==
  /\ pc = "check"
  /\ IF CommPacket_Available /\ Accepts
       THEN Goto("copy") /\ k' = 0 /\ data_active' = TRUE
       ELSE Goto("draw") /\ UNCHANGED <<k, data_active>>
  /\ UNCHANGED <<Address, LEDS, dot_value, packetVars, scanVars, worldVars>>

CheckPacket ==
  /\ pc = "check"
  /\ IF CommPacket_Available /\ Accepts
       THEN /\ Goto("copy") /\ k' = 0
            /\ data_active' = TRUE
            /\ UNCHANGED CommPacket_Available
       ELSE /\ Goto("draw")
            /\ CommPacket_Available' = FALSE
            /\ UNCHANGED <<k, data_active>>
  /\ UNCHANGED <<Address, LEDS, dot_value, CommPacket, cndtr, rwu, scanVars,
                 worldVars>>

(* memcpy(LEDS, CommPacket.pixels), interruptible after each word, and     *)
(* what follows it when the packet's dot correction is the current one.    *)
CopyPixels ==
  /\ pc = "copy"
  /\ \/ /\ k < PacketWords - 1
        /\ k' = k + 1
        /\ LEDS' = [LEDS EXCEPT ![k + 1] = CommPacket[k + 1]]
        /\ UNCHANGED <<pc, CommPacket_Available>>
     \/ /\ k = PacketWords - 1
        /\ dot_value = Trailer(CommPacket).dot_cor
        /\ Goto("draw") /\ CommPacket_Available' = FALSE
        /\ UNCHANGED <<k, LEDS>>
     \/ /\ k = PacketWords - 1
        /\ dot_value # Trailer(CommPacket).dot_cor
        /\ Goto("dotMode")
        /\ UNCHANGED <<k, LEDS, CommPacket_Available>>
  /\ UNCHANGED <<Address, dot_value, data_active, CommPacket, cndtr, rwu,
                 scanVars, worldVars>>

DotMode ==
  /\ pc = "dotMode" /\ Goto("dotFill") /\ k' = 0
  /\ dot_value' = Trailer(CommPacket).dot_cor
  /\ mode' = TRUE
  /\ UNCHANGED <<Address, LEDS, data_active, packetVars, line, BLANK_Set,
                 driverVars, worldVars>>

DotFill ==
  /\ pc = "dotFill"
  /\ \/ /\ k < Blocks
        /\ k' = k + 1 /\ ShiftIn(Dot(dot_value))
        /\ UNCHANGED <<pc, BLANK_Set>>
     \/ /\ k = Blocks
        /\ Goto("dotWait") /\ BLANK_Set' = FALSE
        /\ UNCHANGED <<k, shift>>
  /\ UNCHANGED <<Address, LEDS, dot_value, data_active, packetVars, line, mode,
                 gs, dc, worldVars>>

(* Mutants: main does not wait for the tick that latches, or leaves the    *)
(* drivers in dot correction mode.                                         *)
DotDone_Early ==
  /\ pc = "dotWait" /\ Goto("draw")
  /\ mode' = FALSE
  /\ CommPacket_Available' = FALSE
  /\ UNCHANGED <<k, Address, LEDS, dot_value, data_active, CommPacket, cndtr,
                 rwu, line, BLANK_Set, driverVars, worldVars>>

DotDone_KeepsMode ==
  /\ pc = "dotWait" /\ BLANK_Set /\ Goto("draw")
  /\ CommPacket_Available' = FALSE
  /\ UNCHANGED <<k, Address, LEDS, dot_value, data_active, CommPacket, cndtr,
                 rwu, scanVars, worldVars>>

DotDone ==
  /\ pc = "dotWait" /\ BLANK_Set /\ Goto("draw")
  /\ mode' = FALSE
  /\ CommPacket_Available' = FALSE
  /\ UNCHANGED <<k, Address, LEDS, dot_value, data_active, CommPacket, cndtr,
                 rwu, line, BLANK_Set, driverVars, worldVars>>

(* Until the first packet the panel shows its own address.                 *)
DrawAddress ==
  /\ pc = "draw" /\ Goto("fill") /\ k' = 0
  /\ LEDS' = IF data_active THEN LEDS
                            ELSE [i \in PixelWords |-> Glyph(Address)]
  /\ UNCHANGED <<Address, dot_value, data_active, packetVars, scanVars,
                 worldVars>>

(* Mutant: the row of the line that is lit, not of the next.               *)
FillBlock_ThisLine ==
  /\ pc = "fill"
  /\ \/ k < Blocks /\ k' = k + 1 /\ ShiftIn(Row(line)) /\ UNCHANGED pc
     \/ k = Blocks /\ Goto("address") /\ UNCHANGED <<k, shift>>
  /\ UNCHANGED <<Address, LEDS, dot_value, data_active, packetVars, line, mode,
                 BLANK_Set, gs, dc, worldVars>>

(* FillBuffer and UpdateLED, once per block; line is read anew each time.  *)
FillBlock ==
  /\ pc = "fill"
  /\ \/ /\ k < Blocks
        /\ k' = k + 1 /\ ShiftIn(Row(NextLine))
        /\ UNCHANGED pc
     \/ /\ k = Blocks
        /\ Goto("address")
        /\ UNCHANGED <<k, shift>>
  /\ UNCHANGED <<Address, LEDS, dot_value, data_active, packetVars, line, mode,
                 BLANK_Set, gs, dc, worldVars>>

Main == \/ BootMode \/ BootDotFill \/ BootDotDone \/ BootReceiver
        \/ ReadAddress \/ WaitTick \/ CheckPacket \/ CopyPixels
        \/ DotMode \/ DotFill \/ DotDone \/ DrawAddress \/ FillBlock

-----------------------------------------------------------------------------
(* The receiver.  A word the USART accepts goes to the DMA channel when    *)
(* that is enabled; the last one awaited runs DMA1_Channel5_IRQHandler.    *)
Store(w) ==
  /\ CommPacket' = [CommPacket EXCEPT ![PacketWords - cndtr + 1] = w]
  /\ cndtr' = cndtr - 1
  /\ CommPacket_Available' = (CommPacket_Available \/ cndtr = 1)

(* Mutant: the channel is started over whoever owns CommPacket.            *)
Arm_Unguarded == cndtr' = PacketWords /\ UNCHANGED <<CommPacket, CommPacket_Available>>

(* USART1_IRQHandler on an address mark of ours: the channel is started    *)
(* over unless main still owns CommPacket.                                 *)
Arm ==
  /\ cndtr' = IF CommPacket_Available THEN cndtr ELSE PacketWords
  /\ UNCHANGED <<CommPacket, CommPacket_Available>>

(* An address mark: another address makes the USART mute; ours wakes it,   *)
(* and is swallowed as data by a channel that still awaits words (whose    *)
(* counter cannot be written while it is enabled).                         *)
RxMark(a) ==
  IF pc \in Boot THEN UNCHANGED packetVars
  ELSE /\ rwu' = (a # Address)
       /\ \/ a # Address /\ UNCHANGED <<CommPacket, CommPacket_Available, cndtr>>
          \/ a = Address /\ cndtr > 0 /\ Store(Mark)
          \/ a = Address /\ cndtr = 0 /\ Arm

(* A data word: dropped when mute, or when no channel awaits it.           *)
RxData(w) ==
  IF pc \in Boot \/ rwu \/ cndtr = 0 THEN UNCHANGED packetVars
  ELSE Store(w) /\ UNCHANGED rwu

-----------------------------------------------------------------------------
(* The bus: fsserver sends a mark and PacketWords words for each frame.    *)
Idle == bus.pos = PacketWords

SendMark(f) ==
  /\ Idle
  /\ bus' = [frame |-> f, pos |-> 0]
  /\ RxMark(f.addr)
  /\ UNCHANGED <<mainVars, scanVars, selector, faults>>

SendWord ==
  /\ ~Idle
  /\ bus' = [bus EXCEPT !.pos = @ + 1]
  /\ RxData(Word(bus.frame, bus.pos + 1))
  /\ UNCHANGED <<mainVars, scanVars, selector, faults>>

Fault == faults < MaxFaults /\ faults' = faults + 1

(* Noise: a mark is lost or arrives as another one; a word is lost, is     *)
(* altered, or arrives as a mark; the rest of a frame never comes.         *)
DamagedMark(f) ==
  /\ Idle /\ Fault
  /\ bus' = [frame |-> f, pos |-> 0]
  /\ UNCHANGED packetVars \/ \E a \in Addresses : RxMark(a)
  /\ UNCHANGED <<mainVars, scanVars, selector>>

DamagedWord ==
  /\ ~Idle /\ Fault
  /\ bus' = [bus EXCEPT !.pos = @ + 1]
  /\ UNCHANGED packetVars \/ RxData(Noise) \/ \E a \in Addresses : RxMark(a)
  /\ UNCHANGED <<mainVars, scanVars, selector>>

TruncatedFrame ==
  /\ ~Idle /\ Fault
  /\ bus' = [bus EXCEPT !.pos = PacketWords]
  /\ UNCHANGED <<mainVars, packetVars, scanVars, selector>>

TurnSelector ==
  /\ Fault
  /\ \E a \in Addresses \ {selector} : selector' = a
  /\ UNCHANGED <<mainVars, packetVars, scanVars, bus>>

World == \/ \E f \in Frames : SendMark(f) \/ DamagedMark(f)
         \/ SendWord \/ DamagedWord \/ TruncatedFrame \/ TurnSelector

-----------------------------------------------------------------------------
Init ==
  /\ pc = "boot" /\ k = 0 /\ Address = 0
  /\ LEDS = [i \in PixelWords |-> Zero]
  /\ dot_value = BootDot /\ data_active = FALSE /\ BLANK_Set = FALSE
  /\ CommPacket = [i \in Packet |-> Zero]
  /\ CommPacket_Available = FALSE /\ cndtr = 0 /\ rwu = TRUE
  /\ line = 0 /\ mode = FALSE
  /\ shift = [b \in 1 .. Blocks |-> Off]
  /\ gs = shift /\ dc = shift
  /\ selector \in Addresses
  /\ faults = 0
  /\ \E f \in Frames : bus = [frame |-> f, pos |-> PacketWords]

Next == Main \/ Tick \/ World

Spec == Init /\ [][Next]_vars

(* The processor executes, the timer is a free-running clock, and the      *)
(* controller goes on sending every frame to the end and every frame again *)
(* and again (the host application refreshes the wall for ever).           *)
Fairness == /\ WF_vars(Main)
            /\ WF_vars(Tick)
            /\ WF_vars(SendWord)
            /\ \A f \in Frames : SF_vars(SendMark(f))

FairSpec == Spec /\ Fairness

-----------------------------------------------------------------------------
(* Properties.                                                             *)

(* The type invariant: every variable of main.c stays in the range its     *)
(* declaration and its uses give it.                                       *)
TypeOK == /\ pc \in Boot \union Loop
          /\ k \in Nat
          /\ Address \in Addresses /\ selector \in Addresses
          /\ LEDS \in [PixelWords -> Cells]
          /\ dot_value \in Dots
          /\ CommPacket \in [Packet -> Words]
          /\ data_active \in BOOLEAN /\ BLANK_Set \in BOOLEAN
          /\ CommPacket_Available \in BOOLEAN /\ rwu \in BOOLEAN
          /\ cndtr \in 0 .. PacketWords
          /\ line \in 0 .. Lines - 1 /\ mode \in BOOLEAN
          /\ shift \in [1 .. Blocks -> Tags]
          /\ gs \in [1 .. Blocks -> Tags] /\ dc \in [1 .. Blocks -> Tags]
          /\ bus \in [frame : Frames, pos : 0 .. PacketWords]
          /\ faults \in 0 .. MaxFaults

Shows(f) == \A i \in PixelWords : LEDS[i] = Word(f, i)

(* Except while memcpy runs, the image memory holds one whole image: that  *)
(* of a frame with a good CRC once data_active is set (main.c:649), and    *)
(* before that zeros, the blank or the glyph of one address - whatever     *)
(* words the bus lost, altered or merged, and whenever they came in.       *)
LedsWhole ==
  IF data_active
    THEN pc # "copy" => \E f \in Frames : f.crc /\ Shows(f)
    ELSE \E c \in {Zero, Space} \union { Glyph(a) : a \in Addresses } :
           \A i \in PixelWords : LEDS[i] = c

(* The handshake on CommPacket_Available (main.c:87, 98, 666): from the    *)
(* transfer-complete interrupt to the moment main gives the buffer back,   *)
(* nothing writes CommPacket, although the bus does not pause.             *)
BufferStable == [][CommPacket_Available => CommPacket' = CommPacket]_vars

(* Whenever the drivers are in greyscale mode inside the loop, each block  *)
(* has latched the dot correction dot_value records (main.c:652-660): no   *)
(* tick can leave part of the chain with the former one, even when main    *)
(* runs late.                                                              *)
DotCorrected ==
  pc \in Loop /\ ~mode => \A b \in 1 .. Blocks : dc[b] = Dot(dot_value)

(* A tick that changes what is lit lights, on every block, the row of the  *)
(* very line it powers (main.c:115-118 against 675): no row is shown on    *)
(* the line of another, and no dot correction bits reach the greyscale     *)
(* latches once rows have.  The tick that latches dot correction moves the *)
(* line and leaves the former row lit for one tick: gs does not change.    *)
(* Needs main to finish its pass within a tick (Overrun = FALSE).          *)
LatchedRow ==
  [][(\E b \in 1 .. Blocks : shift[b].kind = "row") /\ gs' # gs
       => \A b \in 1 .. Blocks : gs'[b] = Row(line')]_vars

(* Recovery: whatever the disturbances did to the receiver - a half-filled *)
(* buffer merged with the next frame, a mark of somebody else's, a turned  *)
(* selector - once they stop the panel accepts frames again and again.     *)
Resync == []<>(pc = "copy")

(* Every line is lit with its own row again and again.                     *)
AllLinesLit ==
  \A l \in 0 .. Lines - 1 :
    []<>(line = l /\ \A b \in 1 .. Blocks : gs[b] = Row(l))

-----------------------------------------------------------------------------
(* The inductive invariant behind LedsWhole, BufferStable and              *)
(* DotCorrected.                                                           *)

(* The DMA channel never runs while main owns CommPacket.                  *)
Ownership == /\ CommPacket_Available => cndtr = 0
             /\ pc \in Boot => ~CommPacket_Available /\ ~data_active

Processing == {"copy", "dotMode", "dotFill", "dotWait"}

(* From the check to the release, CommPacket is main's, whole and good.    *)
PacketAccepted ==
  pc \in Processing => /\ CommPacket_Available /\ data_active
                       /\ CheckCRC(CommPacket)

CopyProgress ==
  pc = "copy" => /\ k \in 0 .. PacketWords - 1
                 /\ \A i \in 1 .. k : LEDS[i] = CommPacket[i]

(* What the shift registers hold while dot correction is sent, and what    *)
(* the tick main waits for has latched.                                    *)
DotProgress ==
  /\ pc \in {"bootDot", "dotFill"} =>
       /\ mode /\ k \in 0 .. Blocks
       /\ \A b \in Blocks - k + 1 .. Blocks : shift[b] = Dot(dot_value)
  /\ pc \in {"bootWait", "dotWait"} =>
       /\ mode
       /\ \A b \in 1 .. Blocks : shift[b] = Dot(dot_value)
       /\ BLANK_Set => \A b \in 1 .. Blocks : dc[b] = Dot(dot_value)
  /\ pc \in {"bootInit"} \union (Loop \ {"dotFill", "dotWait"}) =>
       ~mode /\ \A b \in 1 .. Blocks : dc[b] = Dot(dot_value)

IInv == /\ TypeOK /\ Ownership /\ PacketAccepted /\ CopyProgress
        /\ DotProgress /\ LedsWhole

(* Behind LatchedRow, when main never overruns: while main fills the chain *)
(* and until the tick it then waits for, the blocks sent hold the row of   *)
(* the next line; before the first pass no row is in the chain.            *)
NoRows == \A b \in 1 .. Blocks : shift[b].kind # "row"

ScanInv ==
  /\ pc \in Boot => NoRows
  /\ pc = "fill" =>
       /\ k \in 0 .. Blocks
       /\ \A b \in Blocks - k + 1 .. Blocks : shift[b] = Row(NextLine)
  /\ pc = "address" \/ (pc = "wait" /\ ~BLANK_Set) =>
       NoRows \/ \A b \in 1 .. Blocks : shift[b] = Row(NextLine)

-----------------------------------------------------------------------------
(* Refinement: main.c implements PanelDisplay.  A frame is held while      *)
(* CommPacket is main's and whole; the image changes when the packet is    *)
(* accepted, since nothing reads LEDS before memcpy is done.               *)
Held == IF CommPacket_Available /\ \E f \in Frames : IsWhole(CommPacket, f)
          THEN CHOOSE f \in Frames : IsWhole(CommPacket, f)
          ELSE [kind |-> "none"]

Torn == [kind |-> "torn"]

Shown ==
  CASE pc = "copy" -> Trailer(CommPacket)
    [] pc # "copy" /\ data_active ->
         IF \E f \in Frames : Shows(f) THEN CHOOSE f \in Frames : Shows(f)
                                       ELSE Torn
    [] OTHER ->
         IF \E a \in Addresses : \A i \in PixelWords : LEDS[i] = Glyph(a)
           THEN LEDS[1] ELSE [kind |-> "dark"]

Display == INSTANCE PanelDisplay WITH
             address <- Address, held <- Held, shown <- Shown

(* The panel keeps the promise of PanelDisplay: whole images only, a good  *)
(* frame never dropped once taken in, the address never shown again after  *)
(* an image.                                                               *)
ImplementsDisplay == Display!Spec

=============================================================================
