----------------------- MODULE PanelFirmware_proofs -----------------------
(***************************************************************************)
(* Theorems about PanelFirmware, for every set of frames, number of packet *)
(* words, of lines and of blocks, every bound on faults, and a main loop   *)
(* that may overrun the pixel clock; the last, that it implements          *)
(* PanelDisplay.                                                           *)
(***************************************************************************)
EXTENDS PanelFirmware, TLAPS

(* What the receiver may do to the packet buffer in one step: nothing      *)
(* while main owns it, and it keeps the types and the ownership.           *)
PacketStep ==
  /\ CommPacket' \in [Packet -> Words]
  /\ CommPacket_Available' \in BOOLEAN
  /\ cndtr' \in 0 .. PacketWords
  /\ rwu' \in BOOLEAN
  /\ CommPacket_Available' => cndtr' = 0
  /\ pc \in Boot => ~CommPacket_Available'
  /\ CommPacket_Available => CommPacket' = CommPacket /\ CommPacket_Available'

(* An accepted word goes to the next free place of the buffer.             *)
LEMMA StoreStep ==
  ASSUME TypeOK, Ownership, NEW w \in Words, cndtr > 0, pc \notin Boot,
         Store(w), rwu' \in BOOLEAN
  PROVE  PacketStep
<1>1. ~CommPacket_Available
  BY DEF TypeOK, Ownership
<1>2. PacketWords - cndtr + 1 \in Packet
  BY SizesAssumption DEF TypeOK, Packet
<1>3. CommPacket' \in [Packet -> Words]
  BY <1>2 DEF Store, TypeOK
<1>4. /\ cndtr' \in 0 .. PacketWords
      /\ CommPacket_Available' \in BOOLEAN
      /\ CommPacket_Available' => cndtr' = 0
  BY <1>1, SizesAssumption DEF Store, TypeOK
<1>5. QED
  BY <1>1, <1>3, <1>4 DEF PacketStep

(* An address mark respects the ownership of CommPacket.                   *)
LEMMA MarkStep ==
  ASSUME TypeOK, Ownership, NEW a \in Addresses, RxMark(a)
  PROVE  PacketStep
<1>1. CASE pc \in Boot
  BY <1>1 DEF RxMark, packetVars, PacketStep, TypeOK, Ownership
<1>2. CASE pc \notin Boot
  <2>1. rwu' \in BOOLEAN
    BY <1>2 DEF RxMark
  <2>2. CASE UNCHANGED <<CommPacket, CommPacket_Available, cndtr>>
    BY <1>2, <2>1, <2>2 DEF PacketStep, TypeOK, Ownership
  <2>3. CASE cndtr > 0 /\ Store(Mark)
    BY <1>2, <2>1, <2>3, StoreStep DEF Words
  <2>4. CASE Arm
    BY <1>2, <2>1, <2>4, SizesAssumption DEF Arm, PacketStep, TypeOK, Ownership
  <2>5. QED
    BY <1>2, <2>2, <2>3, <2>4 DEF RxMark
<1>3. QED
  BY <1>1, <1>2

(* A data word respects the ownership of CommPacket.                       *)
LEMMA DataStep ==
  ASSUME TypeOK, Ownership, NEW w \in Words, RxData(w)
  PROVE  PacketStep
<1>1. CASE UNCHANGED packetVars
  BY <1>1 DEF packetVars, PacketStep, TypeOK, Ownership
<1>2. CASE pc \notin Boot /\ cndtr > 0 /\ Store(w) /\ UNCHANGED rwu
  BY <1>2, StoreStep DEF TypeOK
<1>3. QED
  BY <1>1, <1>2 DEF RxData, TypeOK

(* Every step of the world leaves main and the scan alone, and does to the *)
(* buffer what the receiver may do.                                        *)
LEMMA WorldStep ==
  ASSUME TypeOK, Ownership, World
  PROVE  /\ PacketStep
         /\ UNCHANGED <<mainVars, scanVars>>
         /\ selector' \in Addresses
         /\ bus' \in [frame : Frames, pos : 0 .. PacketWords]
         /\ faults' \in 0 .. MaxFaults
<1>1. ASSUME UNCHANGED packetVars PROVE PacketStep
  BY <1>1 DEF packetVars, PacketStep, TypeOK, Ownership
<1>2. ASSUME Fault PROVE faults' \in 0 .. MaxFaults
  BY <1>2, SizesAssumption DEF Fault, TypeOK
<1>3. ASSUME NEW f \in Frames, SendMark(f)
      PROVE  PacketStep /\ bus' \in [frame : Frames, pos : 0 .. PacketWords]
  <2>1. f.addr \in Addresses
    BY FramesAssumption DEF FrameType
  <2>2. PacketStep
    BY <1>3, <2>1, MarkStep DEF SendMark
  <2>3. QED
    BY <1>3, <2>2, SizesAssumption DEF SendMark
<1>4. ASSUME NEW f \in Frames, DamagedMark(f)
      PROVE  PacketStep /\ bus' \in [frame : Frames, pos : 0 .. PacketWords]
  BY <1>1, <1>4, MarkStep, SizesAssumption DEF DamagedMark
<1>5. ASSUME ~Idle, bus' = [bus EXCEPT !.pos = @ + 1]
      PROVE  /\ bus' \in [frame : Frames, pos : 0 .. PacketWords]
             /\ Word(bus.frame, bus.pos + 1) \in Words
  <2>1. bus.frame \in Frames /\ bus.pos \in 0 .. PacketWords
    BY DEF TypeOK
  <2>2. bus.pos + 1 \in 1 .. PacketWords
    BY <1>5, <2>1, SizesAssumption DEF Idle
  <2>3. bus' = [frame |-> bus.frame, pos |-> bus.pos + 1]
    BY <1>5 DEF TypeOK
  <2>4. Word(bus.frame, bus.pos + 1) \in FrameWords
    BY <2>1, <2>2 DEF FrameWords, Packet
  <2>5. QED
    BY <2>1, <2>2, <2>3, <2>4, SizesAssumption DEF Words
<1>6. ASSUME SendWord
      PROVE  PacketStep /\ bus' \in [frame : Frames, pos : 0 .. PacketWords]
  BY <1>5, <1>6, DataStep DEF SendWord
<1>7. ASSUME DamagedWord
      PROVE  PacketStep /\ bus' \in [frame : Frames, pos : 0 .. PacketWords]
  BY <1>1, <1>5, <1>7, DataStep, MarkStep DEF DamagedWord, Words
<1>8. ASSUME TruncatedFrame
      PROVE  PacketStep /\ bus' \in [frame : Frames, pos : 0 .. PacketWords]
  <2>1. bus' = [frame |-> bus.frame, pos |-> PacketWords]
    BY <1>8 DEF TruncatedFrame, TypeOK
  <2>2. QED
    BY <1>1, <1>8, <2>1, SizesAssumption DEF TruncatedFrame, TypeOK
<1>9. ASSUME TurnSelector
      PROVE  PacketStep /\ bus' = bus /\ selector' \in Addresses
  BY <1>1, <1>9 DEF TurnSelector
<1>10. QED
  BY <1>2, <1>3, <1>4, <1>6, <1>7, <1>8, <1>9
  DEF World, SendMark, DamagedMark, SendWord, DamagedWord, TruncatedFrame,
      TurnSelector, TypeOK, mainVars, scanVars, driverVars

-----------------------------------------------------------------------------
(* The inductive invariant, one step per kind of action.                   *)
LEMMA TagsFacts == /\ \A d \in Dots : Dot(d) \in Tags
                   /\ \A r \in 0 .. Lines - 1 : Row(r) \in Tags
                   /\ Off \in Tags
  BY DEF Tags

(* The line wraps.                                                         *)
LEMMA NextLineType == line \in 0 .. Lines - 1 => NextLine \in 0 .. Lines - 1
  BY SizesAssumption DEF NextLine

(* One block enters the chain, the others move up.                         *)
LEMMA ShiftType ==
  ASSUME NEW t \in Tags, shift \in [1 .. Blocks -> Tags], ShiftIn(t)
  PROVE  /\ shift' \in [1 .. Blocks -> Tags]
         /\ shift'[Blocks] = t
         /\ \A b \in 1 .. Blocks - 1 : shift'[b] = shift[b + 1]
<1>1. ASSUME NEW b \in 1 .. Blocks, b # Blocks
      PROVE  b + 1 \in 1 .. Blocks
  BY <1>1, SizesAssumption
<1>2. Blocks \in 1 .. Blocks /\ \A b \in 1 .. Blocks - 1 : b \in 1 .. Blocks /\ b # Blocks
  BY SizesAssumption
<1>3. QED
  BY <1>1, <1>2 DEF ShiftIn

(* In the initial state the receiver is idle and nothing is shown.         *)
LEMMA InitIInv == Init => IInv
<1> SUFFICES ASSUME Init PROVE IInv
  OBVIOUS
<1>1. TypeOK
  <2>1. Zero \in Words /\ Zero \in Cells /\ BootDot \in Dots
    BY DEF Words, Cells, Dots
  <2>2. /\ LEDS \in [PixelWords -> Cells]
        /\ CommPacket \in [Packet -> Words]
    BY <2>1 DEF Init
  <2>3. shift \in [1 .. Blocks -> Tags] /\ gs = shift /\ dc = shift
    BY TagsFacts DEF Init
  <2>4. bus \in [frame : Frames, pos : 0 .. PacketWords]
    BY SizesAssumption DEF Init
  <2>5. pc \in Boot /\ k \in Nat /\ cndtr \in 0 .. PacketWords
    BY SizesAssumption DEF Init, Boot
  <2>6. /\ line \in 0 .. Lines - 1 /\ faults \in 0 .. MaxFaults
        /\ Address \in Addresses /\ selector \in Addresses
    BY SizesAssumption, FramesAssumption DEF Init
  <2>7. /\ data_active \in BOOLEAN /\ BLANK_Set \in BOOLEAN
        /\ CommPacket_Available \in BOOLEAN /\ rwu \in BOOLEAN
        /\ mode \in BOOLEAN
    BY DEF Init
  <2>8. QED
    BY <2>1, <2>2, <2>3, <2>4, <2>5, <2>6, <2>7 DEF Init, TypeOK
<1>2. LedsWhole
  BY DEF Init, LedsWhole
<1>3. QED
  BY <1>1, <1>2
  DEF Init, IInv, Ownership, PacketAccepted, CopyProgress, DotProgress,
      Processing, Boot, Loop, Waits

(* The world: main's conjuncts speak of CommPacket only while main owns it.*)
LEMMA WorldIInv == IInv /\ World => IInv'
<1> SUFFICES ASSUME IInv, World PROVE IInv'
  OBVIOUS
<1> USE DEF mainVars, scanVars, driverVars
<1>1. /\ PacketStep /\ UNCHANGED <<mainVars, scanVars>>
      /\ selector' \in Addresses
      /\ bus' \in [frame : Frames, pos : 0 .. PacketWords]
      /\ faults' \in 0 .. MaxFaults
  BY WorldStep DEF IInv
<1>2. TypeOK' /\ Ownership'
  BY <1>1 DEF IInv, TypeOK, Ownership, PacketStep
<1>3. PacketAccepted' /\ CopyProgress'
  BY <1>1 DEF IInv, PacketAccepted, CopyProgress, PacketStep, Processing,
              CheckCRC, IsWhole
<1>4. DotProgress' /\ LedsWhole'
  BY <1>1 DEF IInv, DotProgress, LedsWhole, Shows
<1>5. QED
  BY <1>2, <1>3, <1>4 DEF IInv


(* The pixel clock interrupt: only the latches, the line and BLANK_Set.    *)
LEMMA TickIInv == IInv /\ Tick => IInv'
<1> SUFFICES ASSUME IInv, Tick PROVE IInv'
  OBVIOUS
<1>1. TypeOK'
  BY NextLineType DEF IInv, Tick, TypeOK, mainVars, packetVars, worldVars
<1>2. Ownership' /\ PacketAccepted' /\ CopyProgress' /\ LedsWhole'
  BY DEF IInv, Tick, mainVars, packetVars, Ownership, PacketAccepted,
         CopyProgress, LedsWhole, Shows, CheckCRC, IsWhole
<1>3. DotProgress'
  BY DEF IInv, Tick, mainVars, DotProgress, TypeOK, Boot, Loop, Waits
<1>4. QED
  BY <1>1, <1>2, <1>3 DEF IInv

(* Sending one block of dot correction extends the corrected part of the   *)
(* chain by one; a full chain is what the next tick latches.               *)
LEMMA DotBlock ==
  ASSUME TypeOK, k \in 0 .. Blocks, k < Blocks, k' = k + 1, dot_value' = dot_value,
         ShiftIn(Dot(dot_value)),
         \A b \in Blocks - k + 1 .. Blocks : shift[b] = Dot(dot_value)
  PROVE  /\ shift' \in [1 .. Blocks -> Tags]
         /\ k' \in 0 .. Blocks
         /\ \A b \in Blocks - k' + 1 .. Blocks : shift'[b] = Dot(dot_value)
<1>1. Dot(dot_value) \in Tags
  BY TagsFacts DEF TypeOK
<1>2. /\ shift' \in [1 .. Blocks -> Tags]
      /\ shift'[Blocks] = Dot(dot_value)
      /\ \A b \in 1 .. Blocks - 1 : shift'[b] = shift[b + 1]
  BY <1>1, ShiftType DEF TypeOK
<1>3. ASSUME NEW b \in Blocks - k' + 1 .. Blocks, b # Blocks
      PROVE  b \in 1 .. Blocks - 1 /\ b + 1 \in Blocks - k + 1 .. Blocks
  BY <1>3, SizesAssumption
<1>4. QED
  BY <1>2, <1>3, SizesAssumption

(* The accepted packet, once copied, is a whole image.                     *)
LEMMA CopiedWhole ==
  ASSUME TypeOK, PacketAccepted, CopyProgress, pc = "copy", k = PacketWords - 1
  PROVE  \E f \in Frames : f.crc /\ Shows(f)
<1>1. PICK f \in Frames : f.crc /\ IsWhole(CommPacket, f)
  BY DEF PacketAccepted, CheckCRC, Processing
<1>2. \A i \in PixelWords : i \in Packet /\ LEDS[i] = CommPacket[i]
  BY SizesAssumption DEF CopyProgress, PixelWords, Packet
<1>3. QED
  BY <1>1, <1>2 DEF IsWhole, Shows

(* An accepted packet asks for a dot correction of some frame.             *)
LEMMA AcceptedDot ==
  ASSUME PacketAccepted, pc \in Processing
  PROVE  Trailer(CommPacket).dot_cor \in Dots
<1>1. PICK f \in Frames : IsWhole(CommPacket, f)
  BY DEF PacketAccepted, CheckCRC
<1>2. CommPacket[PacketWords] = Word(f, PacketWords)
  BY <1>1, SizesAssumption DEF IsWhole, Packet
<1>3. Trailer(CommPacket) = f
  BY <1>2 DEF Trailer, Word
<1>4. QED
  BY <1>3 DEF Dots

-----------------------------------------------------------------------------
(* main() before its loop.                                                 *)
LEMMA BootIInv ==
  IInv /\ (BootMode \/ BootDotFill \/ BootDotDone \/ BootReceiver) => IInv'
<1> SUFFICES ASSUME IInv, BootMode \/ BootDotFill \/ BootDotDone \/ BootReceiver
             PROVE  IInv'
  OBVIOUS
<1> USE DEF Goto, packetVars, scanVars, driverVars, worldVars
<1>1. CASE BootMode
  <2>1. TypeOK'
    BY <1>1 DEF IInv, BootMode, TypeOK, Boot
  <2>2. DotProgress'
    BY <1>1, SizesAssumption DEF IInv, BootMode, DotProgress, Boot, Loop, Waits
  <2>3. QED
    BY <1>1, <2>1, <2>2
    DEF IInv, BootMode, Ownership, PacketAccepted, CopyProgress, LedsWhole,
        Boot, Processing
<1>2. CASE BootDotFill
  <2>1. k \in 0 .. Blocks /\ mode
    BY <1>2 DEF IInv, BootDotFill, DotProgress
  <2>2. CASE k < Blocks /\ k' = k + 1 /\ ShiftIn(Dot(dot_value)) /\ UNCHANGED <<pc, BLANK_Set>>
    <3>1. /\ shift' \in [1 .. Blocks -> Tags]
          /\ k' \in 0 .. Blocks
          /\ \A b \in Blocks - k' + 1 .. Blocks : shift'[b] = Dot(dot_value)
      BY <1>2, <2>1, <2>2, DotBlock DEF IInv, BootDotFill, DotProgress
    <3>2. TypeOK'
      BY <1>2, <2>2, <3>1 DEF IInv, BootDotFill, TypeOK
    <3>3. DotProgress'
      BY <1>2, <2>1, <2>2, <3>1 DEF BootDotFill, DotProgress, Loop, Waits
    <3>4. QED
      BY <1>2, <2>2, <3>2, <3>3
      DEF IInv, BootDotFill, Ownership, PacketAccepted, CopyProgress, LedsWhole,
          Boot, Processing
  <2>3. CASE k = Blocks /\ pc' = "bootWait" /\ BLANK_Set' = FALSE /\ UNCHANGED <<k, shift>>
    <3>1. TypeOK'
      BY <1>2, <2>3 DEF IInv, BootDotFill, TypeOK, Boot
    <3>2. DotProgress'
      BY <1>2, <2>1, <2>3, SizesAssumption
      DEF IInv, BootDotFill, DotProgress, Loop, Waits
    <3>3. QED
      BY <1>2, <2>3, <3>1, <3>2
      DEF IInv, BootDotFill, Ownership, PacketAccepted, CopyProgress, LedsWhole,
          Boot, Processing
  <2>4. QED
    BY <1>2, <2>2, <2>3 DEF BootDotFill
<1>3. CASE BootDotDone
  <2>0. LEDS' \in [PixelWords -> Cells]
    <3>1. Zero \in Cells
      BY DEF Cells, Words
    <3>2. QED
      BY <1>3, <3>1 DEF BootDotDone
  <2>1. TypeOK'
    BY <1>3, <2>0 DEF IInv, BootDotDone, TypeOK, Boot
  <2>2. DotProgress'
    <3>1. \A b \in 1 .. Blocks : dc[b] = Dot(dot_value)
      <4>1. pc \in {"bootWait", "dotWait"} /\ BLANK_Set = TRUE
        BY <1>3 DEF IInv, TypeOK, BootDotDone
      <4>2. QED
        BY <4>1 DEF IInv, DotProgress
    <3>2. QED
      BY <1>3, <3>1 DEF BootDotDone, DotProgress, Loop, Waits
  <2>3. QED
    BY <1>3, <2>1, <2>2
    DEF IInv, BootDotDone, Ownership, PacketAccepted, CopyProgress, LedsWhole,
        Boot, Processing
<1>4. CASE BootReceiver
  <2>0. Space \in Cells
    BY DEF Cells
  <2>1. TypeOK'
    BY <1>4, <2>0, SizesAssumption DEF IInv, BootReceiver, TypeOK, Loop, Waits
  <2>2. DotProgress'
    BY <1>4 DEF IInv, BootReceiver, DotProgress, Loop, Waits
  <2>3. QED
    BY <1>4, <2>1, <2>2
    DEF IInv, BootReceiver, Ownership, PacketAccepted, CopyProgress, LedsWhole,
        Boot, Processing
<1>5. QED
  BY <1>1, <1>2, <1>3, <1>4


-----------------------------------------------------------------------------
(* The loop of main(), up to the check of the packet.                      *)
LEMMA ReadAddressIInv == IInv /\ (ReadAddress \/ WaitTick) => IInv'
<1> SUFFICES ASSUME IInv, ReadAddress \/ WaitTick PROVE IInv'
  OBVIOUS
<1> USE DEF Goto, packetVars, scanVars, driverVars, worldVars
<1>1. TypeOK'
  BY DEF IInv, ReadAddress, WaitTick, TypeOK, Loop, Waits
<1>2. DotProgress'
  BY DEF IInv, ReadAddress, WaitTick, DotProgress, Loop, Waits
<1>3. PacketAccepted' /\ CopyProgress' /\ Ownership'
  BY DEF IInv, ReadAddress, WaitTick, Ownership, PacketAccepted, CopyProgress,
         Boot, Processing
<1>4. LedsWhole'
  BY DEF IInv, ReadAddress, WaitTick, LedsWhole, Shows
<1>5. QED
  BY <1>1, <1>2, <1>3, <1>4 DEF IInv

(* What main accepts is whole and good.                                    *)
LEMMA CheckPacketIInv == IInv /\ CheckPacket => IInv'
<1> SUFFICES ASSUME IInv, CheckPacket PROVE IInv'
  OBVIOUS
<1> USE DEF Goto, scanVars, driverVars, worldVars
<1>1. CASE CommPacket_Available /\ Accepts
  <2>1. /\ pc = "check" /\ pc' = "copy" /\ k' = 0 /\ data_active' = TRUE
        /\ UNCHANGED <<CommPacket_Available, CommPacket, cndtr, rwu, LEDS,
                       Address, dot_value, scanVars, worldVars>>
    BY <1>1 DEF CheckPacket
  <2>2. TypeOK'
    BY <2>1 DEF IInv, TypeOK, Loop
  <2>3. DotProgress'
    BY <2>1 DEF IInv, DotProgress, Loop, Waits
  <2>4. PacketAccepted' /\ CopyProgress' /\ Ownership'
    BY <1>1, <2>1, SizesAssumption
    DEF IInv, Ownership, PacketAccepted, CopyProgress, Boot, Processing,
        Accepts, CheckCRC, IsWhole
  <2>5. LedsWhole'
    BY <2>1 DEF LedsWhole
  <2>6. QED
    BY <2>2, <2>3, <2>4, <2>5 DEF IInv
<1>2. CASE ~(CommPacket_Available /\ Accepts)
  <2>1. /\ pc = "check" /\ pc' = "draw" /\ CommPacket_Available' = FALSE
        /\ UNCHANGED <<k, data_active, CommPacket, cndtr, rwu, LEDS, Address,
                       dot_value, scanVars, worldVars>>
    BY <1>2 DEF CheckPacket
  <2>2. TypeOK'
    BY <2>1 DEF IInv, TypeOK, Loop
  <2>3. DotProgress'
    BY <2>1 DEF IInv, DotProgress, Loop, Waits
  <2>4. PacketAccepted' /\ CopyProgress' /\ Ownership'
    BY <2>1 DEF Ownership, PacketAccepted, CopyProgress, Boot, Processing
  <2>5. LedsWhole'
    BY <2>1 DEF IInv, LedsWhole, Shows
  <2>6. QED
    BY <2>2, <2>3, <2>4, <2>5 DEF IInv
<1>3. QED
  BY <1>1, <1>2

(* memcpy: each word extends the copied part by one.                       *)
LEMMA CopyPixelsIInv == IInv /\ CopyPixels => IInv'
<1> SUFFICES ASSUME IInv, CopyPixels PROVE IInv'
  OBVIOUS
<1> USE DEF Goto, scanVars, driverVars, worldVars
<1>1. /\ pc = "copy" /\ data_active /\ CommPacket_Available
      /\ k \in 0 .. PacketWords - 1
      /\ UNCHANGED <<Address, dot_value, data_active, CommPacket, cndtr, rwu,
                     scanVars, worldVars>>
  BY DEF IInv, CopyPixels, PacketAccepted, CopyProgress, Processing
<1>2. CASE /\ k < PacketWords - 1 /\ k' = k + 1
           /\ LEDS' = [LEDS EXCEPT ![k + 1] = CommPacket[k + 1]]
           /\ UNCHANGED <<pc, CommPacket_Available>>
  <2>1. k + 1 \in PixelWords /\ k + 1 \in Packet
    BY <1>1, <1>2, SizesAssumption DEF PixelWords, Packet
  <2>2. LEDS' \in [PixelWords -> Cells]
    BY <1>2, <2>1 DEF IInv, TypeOK, Cells
  <2>3. TypeOK'
    BY <1>1, <1>2, <2>2 DEF IInv, TypeOK
  <2>4. CopyProgress'
    <3>1. ASSUME NEW i \in 1 .. k + 1 PROVE LEDS'[i] = CommPacket[i]
      BY <1>1, <1>2, <2>1 DEF IInv, TypeOK, CopyProgress, PixelWords
    <3>2. QED
      BY <1>1, <1>2, <3>1, SizesAssumption DEF CopyProgress
  <2>5. PacketAccepted' /\ Ownership' /\ DotProgress' /\ LedsWhole'
    BY <1>1, <1>2 DEF IInv, PacketAccepted, Ownership, DotProgress, LedsWhole,
                      CheckCRC, IsWhole, Boot, Loop, Waits
  <2>6. QED
    BY <2>3, <2>4, <2>5 DEF IInv
<1>3. CASE /\ k = PacketWords - 1 /\ pc' = "draw"
           /\ CommPacket_Available' = FALSE /\ UNCHANGED <<k, LEDS>>
  <2>1. TypeOK'
    BY <1>1, <1>3 DEF IInv, TypeOK, Loop
  <2>2. LedsWhole'
    BY <1>1, <1>3, CopiedWhole DEF IInv, LedsWhole, Shows
  <2>3. DotProgress'
    BY <1>1, <1>3 DEF IInv, DotProgress, Loop, Waits
  <2>4. QED
    BY <1>1, <1>3, <2>1, <2>2, <2>3
    DEF IInv, PacketAccepted, Ownership, CopyProgress, Boot, Processing
<1>4. CASE /\ k = PacketWords - 1 /\ pc' = "dotMode"
           /\ UNCHANGED <<k, LEDS, CommPacket_Available>>
  <2>1. TypeOK'
    BY <1>1, <1>4 DEF IInv, TypeOK, Loop
  <2>2. LedsWhole'
    BY <1>1, <1>4, CopiedWhole DEF IInv, LedsWhole, Shows
  <2>3. DotProgress'
    BY <1>1, <1>4 DEF IInv, DotProgress, Loop, Waits
  <2>4. PacketAccepted'
    BY <1>1, <1>4 DEF IInv, PacketAccepted, Processing, CheckCRC, IsWhole
  <2>5. QED
    BY <1>1, <1>4, <2>1, <2>2, <2>3, <2>4
    DEF IInv, Ownership, CopyProgress, Boot
<1>5. QED
  BY <1>2, <1>3, <1>4 DEF CopyPixels

(* A change of dot correction.                                             *)
LEMMA DotIInv == IInv /\ (DotMode \/ DotFill \/ DotDone) => IInv'
<1> SUFFICES ASSUME IInv, DotMode \/ DotFill \/ DotDone PROVE IInv'
  OBVIOUS
<1> USE DEF Goto, packetVars, scanVars, driverVars, worldVars
<1>1. /\ PacketAccepted /\ pc \in Processing /\ pc # "copy"
      /\ CommPacket_Available /\ data_active
      /\ UNCHANGED <<Address, LEDS, data_active, CommPacket, cndtr, rwu, line,
                     gs, dc, worldVars>>
  BY DEF IInv, DotMode, DotFill, DotDone, PacketAccepted, Processing
<1>2. LedsWhole'
  BY <1>1 DEF IInv, LedsWhole, Shows
<1>3. CASE DotMode
  <2>1. TypeOK'
    BY <1>1, <1>3, AcceptedDot DEF IInv, DotMode, TypeOK, Loop
  <2>2. DotProgress'
    BY <1>3, SizesAssumption DEF DotMode, DotProgress, Loop, Waits
  <2>3. PacketAccepted' /\ Ownership' /\ CopyProgress'
    BY <1>1, <1>3 DEF IInv, DotMode, PacketAccepted, Ownership, CopyProgress,
                      CheckCRC, IsWhole, Boot, Processing
  <2>4. QED
    BY <1>2, <2>1, <2>2, <2>3 DEF IInv
<1>4. CASE DotFill
  <2>1. k \in 0 .. Blocks /\ mode
    BY <1>4 DEF IInv, DotFill, DotProgress
  <2>2. PacketAccepted' /\ Ownership' /\ CopyProgress'
    BY <1>1, <1>4 DEF IInv, DotFill, PacketAccepted, Ownership, CopyProgress,
                      CheckCRC, IsWhole, Boot, Processing
  <2>3. CASE k < Blocks /\ k' = k + 1 /\ ShiftIn(Dot(dot_value)) /\ UNCHANGED <<pc, BLANK_Set>>
    <3>1. /\ shift' \in [1 .. Blocks -> Tags]
          /\ k' \in 0 .. Blocks
          /\ \A b \in Blocks - k' + 1 .. Blocks : shift'[b] = Dot(dot_value)
      BY <1>4, <2>1, <2>3, DotBlock DEF IInv, DotFill, DotProgress
    <3>2. TypeOK'
      BY <1>4, <2>3, <3>1 DEF IInv, DotFill, TypeOK
    <3>3. DotProgress'
      BY <1>4, <2>1, <2>3, <3>1 DEF DotFill, DotProgress, Loop, Waits
    <3>4. QED
      BY <1>2, <2>2, <3>2, <3>3 DEF IInv
  <2>4. CASE k = Blocks /\ pc' = "dotWait" /\ BLANK_Set' = FALSE /\ UNCHANGED <<k, shift>>
    <3>1. TypeOK'
      BY <1>4, <2>4 DEF IInv, DotFill, TypeOK, Loop, Waits
    <3>2. DotProgress'
      BY <1>4, <2>1, <2>4, SizesAssumption
      DEF IInv, DotFill, DotProgress, Loop, Waits
    <3>3. QED
      BY <1>2, <2>2, <3>1, <3>2 DEF IInv
  <2>5. QED
    BY <1>4, <2>3, <2>4 DEF DotFill
<1>5. CASE DotDone
  <2>1. TypeOK'
    BY <1>5 DEF IInv, DotDone, TypeOK, Loop
  <2>2. DotProgress'
    <3>1. \A b \in 1 .. Blocks : dc[b] = Dot(dot_value)
      <4>1. pc \in {"bootWait", "dotWait"} /\ BLANK_Set = TRUE
        BY <1>5 DEF IInv, TypeOK, DotDone
      <4>2. QED
        BY <4>1 DEF IInv, DotProgress
    <3>2. QED
      BY <1>5, <3>1 DEF DotDone, DotProgress, Loop, Waits
  <2>3. QED
    BY <1>2, <1>5, <2>1, <2>2 DEF IInv, DotDone, PacketAccepted, Ownership,
                                  CopyProgress, Boot, Processing
<1>6. QED
  BY <1>3, <1>4, <1>5

(* The end of a pass: the address glyph, then the next row.                *)
LEMMA DrawIInv == IInv /\ (DrawAddress \/ FillBlock) => IInv'
<1> SUFFICES ASSUME IInv, DrawAddress \/ FillBlock PROVE IInv'
  OBVIOUS
<1> USE DEF Goto, packetVars, scanVars, driverVars, worldVars
<1>1. CASE DrawAddress
  <2>1. LEDS' \in [PixelWords -> Cells]
    <3>1. Glyph(Address) \in Cells
      BY DEF IInv, TypeOK, Cells
    <3>2. QED
      BY <1>1, <3>1 DEF IInv, DrawAddress, TypeOK
  <2>2. TypeOK'
    BY <1>1, <2>1 DEF IInv, DrawAddress, TypeOK, Loop
  <2>3. LedsWhole'
    BY <1>1 DEF IInv, DrawAddress, LedsWhole, Shows, TypeOK
  <2>4. DotProgress'
    BY <1>1 DEF IInv, DrawAddress, DotProgress, Loop, Waits
  <2>5. QED
    BY <1>1, <2>2, <2>3, <2>4 DEF IInv, DrawAddress, PacketAccepted, Ownership,
                                  CopyProgress, Boot, Processing
<1>2. CASE FillBlock
  <2>1. shift' \in [1 .. Blocks -> Tags]
    <3>1. Row(NextLine) \in Tags
      BY NextLineType, TagsFacts DEF IInv, TypeOK
    <3>2. QED
      BY <1>2, <3>1, ShiftType DEF IInv, FillBlock, TypeOK
  <2>2. TypeOK'
    BY <1>2, <2>1 DEF IInv, FillBlock, TypeOK, Loop
  <2>3. LedsWhole'
    BY <1>2 DEF IInv, FillBlock, LedsWhole, Shows
  <2>4. DotProgress'
    BY <1>2 DEF IInv, FillBlock, DotProgress, Loop, Waits
  <2>5. QED
    BY <1>2, <2>2, <2>3, <2>4 DEF IInv, FillBlock, PacketAccepted, Ownership,
                                  CopyProgress, Boot, Processing
<1>3. QED
  BY <1>1, <1>2


-----------------------------------------------------------------------------
(* IInv is inductive: one step per agent.                                  *)
LEMMA NextIInv == IInv /\ [Next]_vars => IInv'
<1> SUFFICES ASSUME IInv, [Next]_vars PROVE IInv'
  OBVIOUS
<1>1. CASE Main
  BY <1>1, BootIInv, ReadAddressIInv, CheckPacketIInv, CopyPixelsIInv, DotIInv,
     DrawIInv DEF Main
<1>2. CASE Tick
  BY <1>2, TickIInv
<1>3. CASE World
  BY <1>3, WorldIInv
<1>4. CASE UNCHANGED vars
  <2>1. UNCHANGED <<mainVars, packetVars, line, mode, BLANK_Set, shift, gs, dc, worldVars>>
    BY <1>4 DEF vars, scanVars, driverVars
  <2>2. TypeOK' /\ Ownership' /\ LedsWhole'
    BY <2>1 DEF IInv, mainVars, packetVars, worldVars, TypeOK, Ownership,
                LedsWhole, Shows
  <2>3. PacketAccepted' /\ CopyProgress' /\ DotProgress'
    BY <2>1 DEF IInv, mainVars, packetVars, PacketAccepted, CopyProgress,
                CheckCRC, IsWhole, DotProgress
  <2>4. QED
    BY <2>2, <2>3 DEF IInv
<1>5. QED
  BY <1>1, <1>2, <1>3, <1>4 DEF Next

(* The inductive invariant holds: for every number of words, lines and     *)
(* blocks, with or without overrun (main.c:570-680).                       *)
THEOREM Invariance == Spec => []IInv
BY InitIInv, NextIInv, PTL DEF Spec

(* Types: in particular, dot_value only ever takes values some frame asked *)
(* for, which rests on the packet staying whole until it is released.      *)
THEOREM TypeCorrect == Spec => []TypeOK
<1>1. IInv => TypeOK
  BY DEF IInv
<1>2. QED
  BY Invariance, <1>1, PTL

(* The image memory is never a mixture: for every number of frames and of  *)
(* words in one, and every damage the bus may do (main.c:644-667).         *)
THEOREM LedsAlwaysWhole == Spec => []LedsWhole
<1>1. IInv => LedsWhole
  BY DEF IInv
<1>2. QED
  BY Invariance, <1>1, PTL

(* Every block is corrected with dot_value whenever the loop runs in       *)
(* greyscale mode, even when main overruns the pixel clock.                *)
THEOREM AlwaysDotCorrected == Spec => []DotCorrected
<1>1. IInv => DotCorrected
  BY DEF IInv, DotProgress, DotCorrected, Loop, Waits
<1>2. QED
  BY Invariance, <1>1, PTL

(* The handshake: nothing writes CommPacket while it is available.         *)
THEOREM BufferAlwaysStable == Spec => BufferStable
<1>1. IInv /\ [Next]_vars => [CommPacket_Available => CommPacket' = CommPacket]_vars
  <2> SUFFICES ASSUME IInv, Next, CommPacket_Available
               PROVE  CommPacket' = CommPacket
    OBVIOUS
  <2>1. CASE World
    BY <2>1, WorldStep DEF IInv, PacketStep
  <2>2. CASE Tick
    BY <2>2 DEF Tick, packetVars
  <2>3. CASE Main
    BY <2>3 DEF Main, BootMode, BootDotFill, BootDotDone, BootReceiver,
                ReadAddress, WaitTick, CheckPacket, CopyPixels, DotMode,
                DotFill, DotDone, DrawAddress, FillBlock, packetVars
  <2>4. QED
    BY <2>1, <2>2, <2>3 DEF Next
<1>2. QED
  BY Invariance, <1>1, PTL DEF Spec, BufferStable


-----------------------------------------------------------------------------
(* The scan, when main never overruns the pixel clock.                     *)
LEMMA RowBlock ==
  ASSUME TypeOK, k \in 0 .. Blocks, k < Blocks, k' = k + 1, line' = line,
         ShiftIn(Row(NextLine)),
         \A b \in Blocks - k + 1 .. Blocks : shift[b] = Row(NextLine)
  PROVE  /\ k' \in 0 .. Blocks
         /\ \A b \in Blocks - k' + 1 .. Blocks : shift'[b] = Row(NextLine)
<1>1. Row(NextLine) \in Tags
  BY NextLineType, TagsFacts DEF TypeOK
<1>2. /\ shift'[Blocks] = Row(NextLine)
      /\ \A b \in 1 .. Blocks - 1 : shift'[b] = shift[b + 1]
  BY <1>1, ShiftType DEF TypeOK
<1>3. ASSUME NEW b \in Blocks - k' + 1 .. Blocks, b # Blocks
      PROVE  b \in 1 .. Blocks - 1 /\ b + 1 \in Blocks - k + 1 .. Blocks
  BY <1>3, SizesAssumption
<1>4. QED
  BY <1>2, <1>3, SizesAssumption

(* The scan invariant holds at the start.                                  *)
LEMMA InitScan == Init => ScanInv
  BY DEF Init, ScanInv, NoRows, Off

(* Every step keeps the scan invariant when main never overruns.           *)
LEMMA NextScan ==
  ASSUME ~Overrun, IInv, ScanInv, [Next]_vars
  PROVE  ScanInv'
<1>1. CASE World
  <2>1. UNCHANGED <<pc, k, shift, line, BLANK_Set>>
    BY <1>1, WorldStep DEF IInv, mainVars, scanVars, driverVars
  <2>2. QED
    BY <2>1 DEF ScanInv, NoRows, NextLine
<1>2. CASE UNCHANGED vars
  BY <1>2 DEF vars, mainVars, scanVars, driverVars, ScanInv, NoRows, NextLine
<1>3. CASE Tick
  <2>1. UNCHANGED <<pc, k, shift>> /\ BLANK_Set' = TRUE
    BY <1>3 DEF Tick, mainVars
  <2>2. pc \in Boot \/ pc \in Waits
    BY <1>3 DEF Tick
  <2>3. QED
    BY <2>1, <2>2 DEF ScanInv, NoRows, Boot, Waits
<1>4. CASE BootMode \/ BootDotDone \/ BootReceiver
  BY <1>4 DEF BootMode, BootDotDone, BootReceiver, Goto, scanVars, driverVars,
              ScanInv, NoRows, Boot
<1>5. CASE BootDotFill
  <2>1. CASE k < Blocks /\ ShiftIn(Dot(dot_value)) /\ UNCHANGED pc
    <3>1. Dot(dot_value) \in Tags /\ Dot(dot_value).kind # "row"
      BY TagsFacts DEF IInv, TypeOK, Dot
    <3>2. NoRows
      BY <1>5 DEF BootDotFill, ScanInv, Boot
    <3>3. NoRows'
      <4> SUFFICES ASSUME NEW b \in 1 .. Blocks
                   PROVE  shift'[b].kind # "row"
        BY DEF NoRows
      <4>1. CASE b = Blocks
        BY <2>1, <3>1, <4>1, ShiftType DEF IInv, TypeOK
      <4>2. CASE b # Blocks
        <5>1. b \in 1 .. Blocks - 1 /\ b + 1 \in 1 .. Blocks
          BY <4>2, SizesAssumption
        <5>2. QED
          BY <2>1, <3>1, <3>2, <5>1, ShiftType DEF IInv, TypeOK, NoRows
      <4>3. QED
        BY <4>1, <4>2
    <3>4. QED
      BY <1>5, <2>1, <3>3 DEF BootDotFill, ScanInv
  <2>2. CASE k = Blocks /\ pc' = "bootWait" /\ UNCHANGED shift
    BY <1>5, <2>2 DEF BootDotFill, ScanInv, NoRows, Boot
  <2>3. QED
    BY <1>5, <2>1, <2>2 DEF BootDotFill, Goto
<1>6. CASE ReadAddress \/ WaitTick \/ CheckPacket \/ CopyPixels \/ DotMode
           \/ DotFill \/ DotDone
  BY <1>6 DEF ReadAddress, WaitTick, CheckPacket, CopyPixels, DotMode, DotFill,
              DotDone, Goto, scanVars, driverVars, ScanInv, NoRows, NextLine, Boot
<1>7. CASE DrawAddress
  BY <1>7, SizesAssumption DEF DrawAddress, Goto, scanVars, driverVars, ScanInv,
                               NoRows, Boot
<1>8. CASE FillBlock
  <2>1. k \in 0 .. Blocks
    BY <1>8 DEF FillBlock, ScanInv
  <2>2. CASE k < Blocks /\ k' = k + 1 /\ ShiftIn(Row(NextLine)) /\ UNCHANGED pc
    BY <1>8, <2>1, <2>2, RowBlock DEF IInv, FillBlock, ScanInv, NextLine, Boot
  <2>3. CASE k = Blocks /\ pc' = "address" /\ UNCHANGED <<k, shift>>
    BY <1>8, <2>3, SizesAssumption DEF FillBlock, ScanInv, NextLine, Boot
  <2>4. QED
    BY <1>8, <2>2, <2>3 DEF FillBlock, Goto
<1>9. QED
  BY <1>1, <1>2, <1>3, <1>4, <1>5, <1>6, <1>7, <1>8 DEF Next, Main

(* When main finishes each pass within a tick, every greyscale latch after *)
(* the first pass lights on each block the row of the line powered by the  *)
(* same tick, whatever packets and dot correction changes come in between. *)
THEOREM RowsLatched ==
  ASSUME ~Overrun
  PROVE  Spec => LatchedRow
<1>1. IInv /\ ScanInv /\ [Next]_vars => ScanInv'
  BY NextScan
<1>2. IInv /\ ScanInv /\ [Next]_vars
        => [(\E b \in 1 .. Blocks : shift[b].kind = "row") /\ gs' # gs
              => \A b \in 1 .. Blocks : gs'[b] = Row(line')]_vars
  <2> SUFFICES ASSUME IInv, ScanInv, Next, ~NoRows, gs' # gs
               PROVE  \A b \in 1 .. Blocks : gs'[b] = Row(line')
    BY DEF NoRows
  <2>1. Tick
    <3>1. CASE World
      BY <3>1, WorldStep DEF IInv, scanVars, driverVars
    <3>2. CASE Main
      BY <3>2 DEF Main, BootMode, BootDotFill, BootDotDone, BootReceiver,
                  ReadAddress, WaitTick, CheckPacket, CopyPixels, DotMode,
                  DotFill, DotDone, DrawAddress, FillBlock, scanVars, driverVars
    <3>3. QED
      BY <3>1, <3>2 DEF Next
  <2>2. pc = "wait" /\ ~BLANK_Set
    <3>1. pc \notin Boot
      BY DEF ScanInv
    <3>2. pc = "dotWait" => mode
      BY DEF IInv, DotProgress
    <3>3. ~mode
      BY <2>1 DEF Tick
    <3>4. QED
      BY <2>1, <3>1, <3>2, <3>3 DEF Tick, Waits
  <2>3. \A b \in 1 .. Blocks : shift[b] = Row(NextLine)
    BY <2>2 DEF ScanInv
  <2>4. gs' = shift /\ line' = NextLine
    BY <2>1 DEF Tick
  <2>5. QED
    BY <2>3, <2>4
<1>3. QED
  BY Invariance, InitScan, <1>1, <1>2, PTL DEF Spec, LatchedRow

-----------------------------------------------------------------------------
(* PanelFirmware implements PanelDisplay, whatever the bus does and        *)
(* whether or not main overruns the pixel clock.                           *)
None == [kind |-> "none"]
Dark == [kind |-> "dark"]

(* A buffer or an image is of one frame only.                              *)
LEMMA WholeOfOne ==
  ASSUME NEW buf, NEW f \in Frames, IsWhole(buf, f)
  PROVE  /\ (CHOOSE g \in Frames : IsWhole(buf, g)) = f
         /\ Trailer(buf) = f
<1>1. ASSUME NEW g \in Frames, IsWhole(buf, g) PROVE Trailer(buf) = g
  <2>1. buf[PacketWords] = Word(g, PacketWords)
    BY <1>1, SizesAssumption DEF IsWhole, Packet
  <2>2. QED
    BY <2>1 DEF Trailer, Word
<1>2. Trailer(buf) = f
  BY <1>1
<1>3. \A g \in Frames : IsWhole(buf, g) => g = f
  BY <1>1, <1>2
<1>4. QED
  BY <1>2, <1>3

IsImage(img, f) == \A i \in PixelWords : img[i] = Word(f, i)

(* An image belongs to one frame only.                                     *)
LEMMA ImageOfOne ==
  ASSUME NEW img, NEW f \in Frames, IsImage(img, f)
  PROVE  (CHOOSE g \in Frames : IsImage(img, g)) = f
<1>1. 1 \in PixelWords
  BY SizesAssumption DEF PixelWords
<1>2. ASSUME NEW g \in Frames, IsImage(img, g) PROVE g = f
  <2>1. Word(g, 1) = Word(f, 1)
    BY <1>1, <1>2 DEF IsImage
  <2>2. Word(g, 1).frame = g /\ Word(f, 1).frame = f
    BY DEF Word
  <2>3. QED
    BY <2>1, <2>2
<1>3. QED
  BY <1>2

(* Frames are told from what else a panel may hold or show.                *)
LEMMA NotFrames ==
  /\ None \notin Frames /\ Dark \notin Frames
  /\ \A a \in Addresses : Glyph(a) \notin Frames
<1>1. \A f \in FrameType : DOMAIN f = {"image", "addr", "id", "dot_cor", "crc"}
  BY DEF FrameType
<1>2. /\ DOMAIN None = {"kind"} /\ DOMAIN Dark = {"kind"}
      /\ \A a \in Addresses : DOMAIN Glyph(a) = {"kind", "address"}
  BY DEF None, Dark, Glyph
<1>3. QED
  BY <1>1, <1>2, FramesAssumption

(* What the mapping yields, for the current state and for the next one.    *)
HeldOf(available, buf) ==
  IF available /\ \E f \in Frames : IsWhole(buf, f)
    THEN CHOOSE f \in Frames : IsWhole(buf, f) ELSE None

ShownOf(label, active, buf, img) ==
  CASE label = "copy" -> Trailer(buf)
    [] label # "copy" /\ active ->
         IF \E f \in Frames : IsImage(img, f)
           THEN CHOOSE f \in Frames : IsImage(img, f) ELSE Torn
    [] OTHER ->
         IF \E a \in Addresses : \A i \in PixelWords : img[i] = Glyph(a)
           THEN img[1] ELSE Dark

(* The refinement mapping as operators of the state it reads.              *)
LEMMA MappingOf ==
  /\ Held = HeldOf(CommPacket_Available, CommPacket)
  /\ Held' = HeldOf(CommPacket_Available', CommPacket')
  /\ Shown = ShownOf(pc, data_active, CommPacket, LEDS)
  /\ Shown' = ShownOf(pc', data_active', CommPacket', LEDS')
  BY DEF Held, HeldOf, Shown, ShownOf, Shows, IsImage, None, Dark

(* The values of the mapped held.                                          *)
LEMMA HeldFacts ==
  /\ \A buf : HeldOf(FALSE, buf) = None
  /\ \A available \in BOOLEAN : \A buf :
       HeldOf(available, buf) \in Frames \union {None}
  /\ \A buf : \A f \in Frames : IsWhole(buf, f) => HeldOf(TRUE, buf) = f
  /\ \A buf : HeldOf(TRUE, buf) # None => IsWhole(buf, HeldOf(TRUE, buf))
  BY WholeOfOne DEF HeldOf

(* The values of the mapped shown.                                         *)
LEMMA ShownFacts ==
  /\ \A active, buf, img : ShownOf("copy", active, buf, img) = Trailer(buf)
  /\ \A label, buf, img : \A f \in Frames :
       label # "copy" /\ IsImage(img, f) => ShownOf(label, TRUE, buf, img) = f
  /\ \A label, buf, img : \A a \in Addresses :
       label # "copy" /\ (\A i \in PixelWords : img[i] = Glyph(a))
         => ShownOf(label, FALSE, buf, img) = Glyph(a)
  /\ \A label, buf, img : \A c \in {Zero, Space} :
       label # "copy" /\ (\A i \in PixelWords : img[i] = c)
         => ShownOf(label, FALSE, buf, img) = Dark
<1>1. 1 \in PixelWords
  BY SizesAssumption DEF PixelWords
<1>2. \A a \in Addresses : Glyph(a) # Zero /\ Glyph(a) # Space
  BY DEF Glyph, Zero, Space
<1>3. ASSUME NEW label, NEW buf, NEW img, NEW f \in Frames, label # "copy", IsImage(img, f)
      PROVE  ShownOf(label, TRUE, buf, img) = f
  BY <1>3, ImageOfOne DEF ShownOf
<1>4. ASSUME NEW label, NEW buf, NEW img, NEW a \in Addresses, label # "copy",
             \A i \in PixelWords : img[i] = Glyph(a)
      PROVE  ShownOf(label, FALSE, buf, img) = Glyph(a)
  BY <1>1, <1>4 DEF ShownOf
<1>5. ASSUME NEW label, NEW buf, NEW img, NEW c \in {Zero, Space}, label # "copy",
             \A i \in PixelWords : img[i] = c
      PROVE  ShownOf(label, FALSE, buf, img) = Dark
  <2>1. ~\E a \in Addresses : \A i \in PixelWords : img[i] = Glyph(a)
    BY <1>1, <1>2, <1>5
  <2>2. QED
    BY <1>5, <2>1 DEF ShownOf
<1>6. \A active, buf, img : ShownOf("copy", active, buf, img) = Trailer(buf)
  BY DEF ShownOf
<1>7. QED
  BY <1>3, <1>4, <1>5, <1>6

LEMMA ShowsImage ==
  ASSUME NEW label, NEW buf, NEW img, NEW f \in Frames,
         label # "copy", IsImage(img, f)
  PROVE  ShownOf(label, TRUE, buf, img) = f
BY ShownFacts

-----------------------------------------------------------------------------
(* What the mapping needs beyond IInv: nothing is drawn before the loop,   *)
(* and while dot correction is sent the accepted image is already shown.   *)
DisplayInv ==
  /\ pc \in Boot => \A i \in PixelWords : LEDS[i] = Zero
  /\ pc \in {"dotMode", "dotFill", "dotWait"} =>
       IsImage(LEDS, Trailer(CommPacket))

(* A completed memcpy shows the accepted frame.                            *)
LEMMA CopiedImage ==
  ASSUME IInv, pc = "copy", k = PacketWords - 1
  PROVE  IsImage(LEDS, Trailer(CommPacket))
<1>1. PICK f \in Frames : IsWhole(CommPacket, f)
  BY DEF IInv, PacketAccepted, CheckCRC, Processing
<1>2. \A i \in PixelWords : i \in Packet /\ LEDS[i] = CommPacket[i]
  BY SizesAssumption DEF IInv, CopyProgress, PixelWords, Packet
<1>3. QED
  BY <1>1, <1>2, WholeOfOne DEF IsWhole, IsImage

(* The extra invariant holds at the start.                                 *)
LEMMA InitDisplayInv == Init => DisplayInv
  BY DEF Init, DisplayInv, Boot

(* Every step keeps the extra invariant.                                   *)
LEMMA NextDisplayInv == IInv /\ DisplayInv /\ [Next]_vars => DisplayInv'
<1> SUFFICES ASSUME IInv, DisplayInv, [Next]_vars PROVE DisplayInv'
  OBVIOUS
<1> USE DEF Goto, mainVars, packetVars, scanVars, driverVars, worldVars
<1>1. CASE World
  <2>1. /\ UNCHANGED <<pc, LEDS>>
        /\ CommPacket_Available => CommPacket' = CommPacket
    BY <1>1, WorldStep DEF IInv, PacketStep
  <2>2. QED
    BY <2>1 DEF IInv, PacketAccepted, Processing, DisplayInv, IsImage, Trailer
<1>2. CASE UNCHANGED vars \/ Tick
  BY <1>2 DEF vars, Tick, DisplayInv, IsImage, Trailer
<1>3. CASE BootMode \/ BootDotFill \/ BootDotDone \/ BootReceiver
  BY <1>3 DEF BootMode, BootDotFill, BootDotDone, BootReceiver, DisplayInv,
              IsImage, Trailer, Boot
<1>4. CASE ReadAddress \/ WaitTick \/ CheckPacket \/ DrawAddress \/ FillBlock
           \/ DotDone
  BY <1>4 DEF ReadAddress, WaitTick, CheckPacket, DrawAddress, FillBlock,
              DotDone, DisplayInv, Boot
<1>5. CASE CopyPixels
  BY <1>5, CopiedImage DEF CopyPixels, DisplayInv, IsImage, Trailer, Boot
<1>6. CASE DotMode \/ DotFill
  BY <1>6 DEF DotMode, DotFill, DisplayInv, IsImage, Trailer, Boot
<1>7. QED
  BY <1>1, <1>2, <1>3, <1>4, <1>5, <1>6 DEF Next, Main

-----------------------------------------------------------------------------
(* The steps, one lemma per agent.                                         *)
LEMMA WorldRefines ==
  ASSUME IInv, World
  PROVE  [Display!Next]_Display!vars
<1>1. PacketStep /\ UNCHANGED <<pc, data_active, LEDS, Address>>
  BY WorldStep DEF IInv, mainVars
<1>2. Shown' = Shown
  <2>1. CASE pc = "copy"
    BY <1>1, <2>1, MappingOf DEF IInv, PacketAccepted, Processing, PacketStep
  <2>2. CASE pc # "copy"
    BY <1>1, <2>2, MappingOf DEF ShownOf
  <2>3. QED
    BY <2>1, <2>2
<1>3. CASE CommPacket_Available
  BY <1>1, <1>2, <1>3, MappingOf DEF IInv, TypeOK, PacketStep, Display!vars
<1>4. CASE ~CommPacket_Available
  <2>1. Held = None /\ Held' \in Frames \union {None}
    BY <1>1, <1>4, MappingOf, HeldFacts DEF IInv, TypeOK, PacketStep
  <2>2. QED
    BY <1>1, <1>2, <2>1 DEF Display!Next, Display!TakeIn, Display!None,
                            Display!vars, None
<1>5. QED
  BY <1>3, <1>4

(* Steps that touch neither the packet nor the image.                      *)
LEMMA QuietRefines ==
  ASSUME IInv, Address' \in Addresses,
         UNCHANGED <<data_active, CommPacket, CommPacket_Available, LEDS>>,
         pc' = pc \/ (pc # "copy" /\ pc' # "copy")
  PROVE  [Display!Next]_Display!vars
<1>1. Held' = Held
  BY MappingOf
<1>2. Shown' = Shown
  BY MappingOf DEF ShownOf
<1>3. QED
  BY <1>1, <1>2 DEF Display!Next, Display!ChangeAddress, Display!vars

(* Checking a packet shows it, lets it go, or is no step.                  *)
LEMMA CheckRefines ==
  ASSUME IInv, CheckPacket
  PROVE  [Display!Next]_Display!vars
<1>1. pc = "check" /\ UNCHANGED <<Address, LEDS, CommPacket>>
  BY DEF CheckPacket
<1>2. CASE CommPacket_Available /\ Accepts
  <2>1. PICK f \in Frames : f.crc /\ IsWhole(CommPacket, f)
    BY <1>2 DEF Accepts, CheckCRC
  <2>2. Trailer(CommPacket) = f
    BY <2>1, WholeOfOne
  <2>3. pc' = "copy" /\ CommPacket_Available' = CommPacket_Available
    BY <1>2 DEF CheckPacket, Goto
  <2>4. CommPacket_Available = TRUE
    BY <1>2 DEF IInv, TypeOK
  <2>5. Held = f /\ Held' = f /\ Shown' = f
    BY <1>1, <2>1, <2>2, <2>3, <2>4, MappingOf, HeldFacts, ShownFacts
  <2>6. f # None /\ f.id = Address
    BY <1>2, <2>2, NotFrames DEF Accepts
  <2>7. QED
    BY <1>1, <2>1, <2>5, <2>6 DEF Display!Next, Display!Show, Display!Mine,
                                  Display!None, None
<1>3. CASE ~(CommPacket_Available /\ Accepts)
  <2>1. /\ pc' = "draw" /\ CommPacket_Available' = FALSE
        /\ data_active' = data_active
    BY <1>3 DEF CheckPacket, Goto
  <2>2. Shown' = Shown
    BY <1>1, <2>1, MappingOf DEF ShownOf
  <2>3. Held' = None
    BY <2>1, MappingOf, HeldFacts
  <2>4. ASSUME Held # None PROVE ~Display!Mine(Held)
    <3>1. CommPacket_Available = TRUE
      BY <2>4, MappingOf, HeldFacts DEF IInv, TypeOK
    <3>2. IsWhole(CommPacket, Held) /\ Held \in Frames
      BY <2>4, <3>1, MappingOf, HeldFacts
    <3>3. Trailer(CommPacket) = Held
      BY <3>2, WholeOfOne
    <3>4. QED
      BY <1>3, <3>1, <3>2, <3>3 DEF Accepts, CheckCRC, Display!Mine
  <2>5. QED
    BY <1>1, <2>2, <2>3, <2>4 DEF Display!Next, Display!LetGo, Display!None,
                                  Display!vars, None
<1>4. QED
  BY <1>2, <1>3

(* Giving the buffer back once the accepted image is on the LEDs.          *)
LEMMA ReleaseRefines ==
  ASSUME IInv, pc \in Processing, pc' = "draw", CommPacket_Available' = FALSE,
         IsImage(LEDS, Trailer(CommPacket)),
         UNCHANGED <<Address, LEDS, data_active, CommPacket>>
  PROVE  [Display!Next]_Display!vars
<1>1. PICK f \in Frames : IsWhole(CommPacket, f)
  BY DEF IInv, PacketAccepted, CheckCRC
<1>2. Trailer(CommPacket) = f
  BY <1>1, WholeOfOne
<1>3. CommPacket_Available = TRUE /\ data_active = TRUE
  BY DEF IInv, PacketAccepted, TypeOK
<1>4. Held = f /\ Held' = None
  BY <1>1, <1>3, MappingOf, HeldFacts
<1>5. Shown = f /\ Shown' = f
  <2>1. IsImage(LEDS, f) /\ LEDS' = LEDS
    BY <1>2
  <2>2. data_active' = TRUE /\ pc' = "draw"
    BY <1>3
  <2>3. ShownOf(pc', TRUE, CommPacket', LEDS') = f
    <3>1. PICK label, buf, img : label = pc' /\ buf = CommPacket' /\ img = LEDS'
      OBVIOUS
    <3>2. IsImage(img, f) /\ label # "copy"
      BY <2>1, <2>2, <3>1
    <3>3. ShownOf(label, TRUE, buf, img) = f
      BY <3>2, ShowsImage
    <3>4. QED
      BY <3>1, <3>3
  <2>4. ShownOf(pc, TRUE, CommPacket, LEDS) = f
    <3>1. CASE pc = "copy"
      BY <1>2, <3>1, ShownFacts
    <3>2. CASE pc # "copy"
      BY <2>1, <3>2, ShownFacts
    <3>3. QED
      BY <3>1, <3>2
  <2>5. QED
    BY <1>3, <2>2, <2>3, <2>4, MappingOf
<1>6. QED
  BY <1>4, <1>5, NotFrames DEF Display!Next, Display!LetGo, Display!None, None

(* Copying is no step; its end may let the frame go.                       *)
LEMMA CopyRefines ==
  ASSUME IInv, CopyPixels
  PROVE  [Display!Next]_Display!vars
<1>1. CASE pc' = "copy"
  <2>1. UNCHANGED <<Address, data_active, CommPacket, CommPacket_Available>>
    BY <1>1 DEF CopyPixels, Goto
  <2>2. Held' = Held /\ Shown' = Shown
    BY <1>1, <2>1, MappingOf, ShownFacts DEF CopyPixels
  <2>3. QED
    BY <2>1, <2>2 DEF Display!vars
<1>2. CASE pc' = "draw"
  BY <1>2, CopiedImage, ReleaseRefines DEF CopyPixels, Goto, Processing
<1>3. CASE pc' = "dotMode"
  <2>1. /\ pc = "copy" /\ k = PacketWords - 1
        /\ UNCHANGED <<Address, LEDS, data_active, CommPacket, CommPacket_Available>>
    BY <1>3 DEF CopyPixels, Goto
  <2>2. PICK f \in Frames : IsWhole(CommPacket, f)
    BY <2>1 DEF IInv, PacketAccepted, CheckCRC, Processing
  <2>3. Trailer(CommPacket) = f /\ data_active = TRUE
    BY <2>1, <2>2, WholeOfOne DEF IInv, PacketAccepted, Processing, TypeOK
  <2>4. Shown = f /\ Shown' = f
    <3>1. IsImage(LEDS, f) /\ LEDS' = LEDS /\ data_active' = TRUE
      BY <2>1, <2>3, CopiedImage
    <3>2. ShownOf(pc', TRUE, CommPacket', LEDS') = f
      BY <1>3, <3>1, ShownFacts
    <3>3. ShownOf(pc, data_active, CommPacket, LEDS) = f
      BY <2>1, <2>3, ShownFacts
    <3>4. QED
      BY <3>1, <3>2, <3>3, MappingOf
  <2>5. QED
    BY <2>1, <2>4, MappingOf DEF Display!vars
<1>4. QED
  BY <1>1, <1>2, <1>3 DEF CopyPixels, Goto

(* Drawing the glyph shows the address, or is no step.                     *)
LEMMA DrawRefines ==
  ASSUME IInv, DrawAddress
  PROVE  [Display!Next]_Display!vars
<1>1. /\ pc = "draw" /\ pc' = "fill"
      /\ UNCHANGED <<Address, data_active, CommPacket, CommPacket_Available>>
  BY DEF DrawAddress, Goto, packetVars
<1>2. CASE data_active
  BY <1>1, <1>2, QuietRefines DEF IInv, TypeOK, DrawAddress
<1>3. CASE ~data_active
  <2>1. data_active = FALSE /\ Address \in Addresses
    BY <1>3 DEF IInv, TypeOK
  <2>2. Shown' = Glyph(Address) /\ Held' = Held
    <3>1. \A i \in PixelWords : LEDS'[i] = Glyph(Address)
      BY <1>3 DEF DrawAddress
    <3>2. ShownOf(pc', FALSE, CommPacket', LEDS') = Glyph(Address)
      BY <1>1, <2>1, <3>1, ShownFacts
    <3>3. QED
      BY <1>1, <2>1, <3>2, MappingOf
  <2>3. Shown \notin Frames
    <3>1. PICK c \in {Zero, Space} \union { Glyph(a) : a \in Addresses } :
                 \A i \in PixelWords : LEDS[i] = c
      BY <2>1 DEF IInv, LedsWhole
    <3>2. Shown = ShownOf(pc, FALSE, CommPacket, LEDS) /\ pc # "copy"
      BY <1>1, <2>1, MappingOf
    <3>3. CASE c \in {Zero, Space}
      BY <3>1, <3>2, <3>3, ShownFacts, NotFrames
    <3>4. CASE c \in { Glyph(a) : a \in Addresses }
      <4>1. PICK a \in Addresses : c = Glyph(a)
        BY <3>4
      <4>2. Shown = Glyph(a)
        BY <3>1, <3>2, <4>1, ShownFacts
      <4>3. QED
        BY <4>2, NotFrames
    <3>5. QED
      BY <3>3, <3>4
  <2>4. QED
    BY <1>1, <2>2, <2>3 DEF Display!Next, Display!ShowAddress, Display!Glyph, Glyph
<1>4. QED
  BY <1>2, <1>3

(* Booting is no step, but for the first reading of the address.           *)
LEMMA BootRefines ==
  ASSUME IInv, DisplayInv, BootMode \/ BootDotFill \/ BootDotDone \/ BootReceiver
  PROVE  [Display!Next]_Display!vars
<1>1. pc \in Boot /\ pc # "copy" /\ pc' # "copy"
  BY DEF BootMode, BootDotFill, BootDotDone, BootReceiver, Boot, Goto
<1>2. /\ UNCHANGED <<data_active, CommPacket, CommPacket_Available>>
      /\ Address' \in Addresses
  BY DEF IInv, TypeOK, BootMode, BootDotFill, BootDotDone, BootReceiver, packetVars
<1>3. data_active = FALSE /\ \A i \in PixelWords : LEDS[i] = Zero
  BY <1>1 DEF IInv, TypeOK, Ownership, DisplayInv
<1>4. \E c \in {Zero, Space} : \A i \in PixelWords : LEDS'[i] = c
  BY <1>3 DEF BootMode, BootDotFill, BootDotDone, BootReceiver
<1>5. Shown = Dark /\ Shown' = Dark
  BY <1>1, <1>2, <1>3, <1>4, MappingOf, ShownFacts
<1>6. Held' = Held
  BY <1>2, MappingOf
<1>7. QED
  BY <1>2, <1>5, <1>6 DEF Display!Next, Display!ChangeAddress

(* Every step of the firmware is a step of PanelDisplay or a stutter.      *)
LEMMA NextRefines ==
  ASSUME IInv, DisplayInv, [Next]_vars
  PROVE  [Display!Next]_Display!vars
<1>1. CASE UNCHANGED vars \/ Tick \/ ReadAddress \/ WaitTick \/ DotMode
           \/ DotFill \/ FillBlock
  <2>1. /\ UNCHANGED <<data_active, CommPacket, CommPacket_Available, LEDS>>
        /\ Address' \in Addresses
        /\ pc' = pc \/ (pc # "copy" /\ pc' # "copy")
    BY <1>1 DEF vars, Tick, ReadAddress, WaitTick, DotMode, DotFill, FillBlock,
                mainVars, packetVars, Goto, IInv, TypeOK
  <2>2. QED
    BY <2>1, QuietRefines
<1>2. CASE DotDone
  <2>1. /\ pc = "dotWait" /\ pc' = "draw" /\ CommPacket_Available' = FALSE
        /\ UNCHANGED <<Address, LEDS, data_active, CommPacket>>
    BY <1>2 DEF DotDone, Goto
  <2>2. QED
    BY <2>1, ReleaseRefines DEF DisplayInv, Processing
<1>3. CASE World
  BY <1>3, WorldRefines
<1>4. CASE CheckPacket
  BY <1>4, CheckRefines
<1>5. CASE CopyPixels
  BY <1>5, CopyRefines
<1>6. CASE DrawAddress
  BY <1>6, DrawRefines
<1>7. CASE BootMode \/ BootDotFill \/ BootDotDone \/ BootReceiver
  BY <1>7, BootRefines
<1>8. QED
  BY <1>1, <1>2, <1>3, <1>4, <1>5, <1>6, <1>7 DEF Next, Main

(* The panel keeps PanelDisplay's promise for every set of frames and      *)
(* every damage on the bus: it shows whole images only, does not drop a    *)
(* good frame of its own once taken in, and does not return to its address *)
(* glyph (main.c:641-672).                                                 *)
THEOREM FirmwareImplementsDisplay == Spec => ImplementsDisplay
<1>1. Init => Display!Init
  <2> SUFFICES ASSUME Init PROVE Display!Init
    OBVIOUS
  <2>1. Held = None /\ Shown = Dark
    BY MappingOf, HeldFacts, ShownFacts DEF Init
  <2>2. Address \in Addresses
    BY FramesAssumption DEF Init
  <2>3. QED
    BY <2>1, <2>2 DEF Display!Init, Display!None, Display!Dark, None, Dark
<1>2. IInv /\ DisplayInv /\ [Next]_vars => [Display!Next]_Display!vars
  BY NextRefines
<1>3. QED
  BY <1>1, <1>2, Invariance, InitDisplayInv, NextDisplayInv, PTL
  DEF Spec, ImplementsDisplay, Display!Spec
=============================================================================
