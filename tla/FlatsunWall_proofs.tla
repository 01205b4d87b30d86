------------------------- MODULE FlatsunWall_proofs -------------------------
(***************************************************************************)
(* Whatever is lost on the way and however slow anyone is, a panel of the  *)
(* wall shows only pictures drawn for it, and goes forward only            *)
(* (FlatsunWall); and the picture drawn is complete, each point on an LED  *)
(* of its own (PixelPlacement).                                            *)
(***************************************************************************)
EXTENDS FlatsunWall, PixelPlacement, SequenceTheorems, FiniteSetTheorems, TLAPS

Datagrams == DataType \union {Sync}

(* Every panel has a slot; slots are pairs.                                *)
LEMMA PanelsAreSlots ==
  /\ Panels \subseteq Slots
  /\ \A s \in Slots : /\ s = <<s[1], s[2]>>
                      /\ s[1] \in 0 .. COLUMN_COUNT - 1
                      /\ s[2] \in 0 .. FS_ROWS - 1
  BY SizesAssumption DEF Panels, Slots, FS_ROWS

(* A datagram that says it is data is one.                                 *)
LEMMA DataTypes ==
  \A d \in Datagrams : d.type = "data" => d \in DataType
  BY DEF Datagrams, DataType, Sync

(* What a new slot, a datagram and a stored packet are.                    *)
LEMMA Constructors ==
  /\ Zero \in PacketType /\ Zero.crc = FALSE /\ Zero.picture = 0
  /\ \A p \in Slots, n \in Nat :
       /\ Data(p, n) \in DataType /\ Data(p, n).picture = n
       /\ Data(p, n).of = <<Data(p, n).col, Data(p, n).row>>
       /\ Data(p, n).id = Data(p, n).col
  /\ \A d \in DataType :
       /\ Stored(d) \in PacketType /\ Stored(d).picture = d.picture
       /\ Stored(d).of = d.of /\ Stored(d).id = d.id
       /\ Stored(d).crc = TRUE /\ Stored(d).panel_col = d.col
  BY SizesAssumption, PanelsAreSlots DEF Zero, PacketType, Data, Stored, DataType, Slots, FS_ROWS

(* No packet is mistaken for the absence of one.                           *)
LEMMA Distinct == None \notin PacketType /\ Dark \notin PacketType
<1>1. \A f \in PacketType : DOMAIN f = {"panel_col", "id", "crc", "of", "picture"}
  BY DEF PacketType
<1>2. DOMAIN None = {"kind"} /\ DOMAIN Dark = {"kind"}
  BY DEF None, Dark
<1>3. QED
  BY <1>1, <1>2

-----------------------------------------------------------------------------

(* The invariant holds at the start.                                       *)
LEMMA InitIInv == Init => IInv
<1> SUFFICES ASSUME Init PROVE IInv
  OBVIOUS
<1>1. TypeOK
  <2>1. next \in Panels \union {<<0, FS_ROWS>>}
    BY SizesAssumption DEF Init, Panels
  <2>2. socket \in Seq(Datagrams)
    BY EmptySeq DEF Init
  <2>3. QED
    BY <2>1, <2>2, Constructors, SizesAssumption
    DEF Init, TypeOK, Datagrams, Listening
<1>2. SocketInv
  BY DEF Init, SocketInv
<1>3. SlotInv
  BY Constructors DEF Init, SlotInv
<1>4. HeldInv /\ ShownInv
  BY DEF Init, HeldInv, ShownInv
<1>5. QED
  BY <1>1, <1>2, <1>3, <1>4 DEF IInv

-----------------------------------------------------------------------------
(* The actions, one lemma each.                                            *)
LEMMA DrawPictureStep == IInv /\ DrawPicture => IInv'
<1> SUFFICES ASSUME IInv, DrawPicture PROVE IInv'
  OBVIOUS
<1>1. /\ picture \in Nat /\ picture' = picture + 1 /\ picture' \in 1 .. MaxPictures
      /\ UNCHANGED <<next, socket, Packets, column, held, shown, losses>>
  BY SizesAssumption DEF IInv, TypeOK, DrawPicture, serverVars, panelVars
<1>2. TypeOK'
  BY <1>1 DEF IInv, TypeOK
<1>3. \A i \in 1 .. Len(socket) : DataAt(i) => socket[i].picture \in Nat
  <2> SUFFICES ASSUME NEW i \in 1 .. Len(socket), DataAt(i)
               PROVE  socket[i].picture \in Nat
    OBVIOUS
  <2>1. socket[i] \in Datagrams
    BY ElementOfSeq DEF IInv, TypeOK, Datagrams
  <2>2. QED
    BY <2>1, DataTypes DEF DataAt, DataType
<1>4. SocketInv'
  BY <1>1, <1>3 DEF IInv, SocketInv, DataAt
<1>5. SlotInv' /\ HeldInv' /\ ShownInv'
  <2>1. \A s \in Slots : Packets[s].picture \in Nat
    BY DEF IInv, TypeOK, PacketType
  <2>2. QED
    BY <1>1, <2>1 DEF IInv, SlotInv, HeldInv, ShownInv
<1>6. QED
  BY <1>2, <1>4, <1>5 DEF IInv

(* What is in the socket is typed and no newer than the host's picture.    *)
LEMMA SocketTypes ==
  ASSUME IInv
  PROVE  /\ socket \in Seq(Datagrams) /\ Len(socket) \in Nat
         /\ \A i \in 1 .. Len(socket) :
              /\ socket[i] \in Datagrams
              /\ DataAt(i) => socket[i] \in DataType /\ socket[i].picture \in Nat
<1>1. socket \in Seq(Datagrams)
  BY DEF IInv, TypeOK, Datagrams
<1>2. \A i \in 1 .. Len(socket) : socket[i] \in Datagrams
  BY <1>1, ElementOfSeq
<1>3. QED
  BY <1>1, <1>2, DataTypes, LenProperties DEF DataAt, DataType

(* Where update() goes from a panel (DisplayInterface.cpp:251).            *)
LEMMA AfterFacts ==
  /\ After(<<0, FS_ROWS>>) = <<0, 0>>
  /\ \A p \in Panels :
       /\ p = <<p[1], p[2]>> /\ p[1] \in Nat /\ p[2] \in 0 .. ROW_COUNT
       /\ \/ /\ p[1] + 1 < RowLength(p[2]) /\ After(p) = <<p[1] + 1, p[2]>>
          \/ /\ p[1] + 1 = RowLength(p[2]) /\ After(p) = <<0, p[2] + 1>>
  BY SizesAssumption DEF After, Panels, FS_ROWS, RowLength

(* update() stays within the panels and SYNC.                              *)
LEMMA NextPlaceType ==
  /\ <<0, 0>> \in Panels
  /\ \A p \in Panels \union {<<0, FS_ROWS>>} :
       After(p) \in Panels \union {<<0, FS_ROWS>>}
<1>1. <<0, 0>> \in Panels
  BY SizesAssumption DEF Panels
<1>2. ASSUME NEW p \in Panels PROVE After(p) \in Panels \union {<<0, FS_ROWS>>}
  <2>1. CASE p[1] + 1 < RowLength(p[2]) /\ After(p) = <<p[1] + 1, p[2]>>
    BY <2>1, AfterFacts, SizesAssumption DEF RowLength, Panels
  <2>2. CASE After(p) = <<0, p[2] + 1>>
    BY <2>2, AfterFacts, SizesAssumption DEF Panels, FS_ROWS
  <2>3. QED
    BY <2>1, <2>2, AfterFacts
<1>3. QED
  BY <1>1, <1>2, AfterFacts

(* What is sent is newer than all that is on its way, lost or not.         *)
LEMMA SendPacketStep == IInv /\ SendPacket => IInv'
<1> SUFFICES ASSUME IInv, SendPacket PROVE IInv'
  OBVIOUS
<1>1. /\ UNCHANGED <<picture, Packets, column, held, shown>>
      /\ next' = After(next) /\ losses' \in 0 .. MaxLosses
  BY SizesAssumption DEF IInv, TypeOK, SendPacket, Lose, serverVars, panelVars
<1>2. CASE socket' = socket
  BY <1>1, <1>2, NextPlaceType
  DEF IInv, TypeOK, SocketInv, DataAt, SlotInv, HeldInv, ShownInv
<1>3. CASE socket' = Append(socket, Datagram)
  <2>1. /\ Datagram \in Datagrams
        /\ Datagram.type = "data" =>
             /\ Datagram.of = <<Datagram.col, Datagram.row>>
             /\ Datagram.id = Datagram.col
             /\ Datagram.picture = picture /\ Datagram.of \in Slots
    <3>1. CASE AtSync
      BY <3>1 DEF Datagram, Datagrams, Sync
    <3>2. CASE ~AtSync
      <4>1. next \in Slots /\ picture \in Nat
        BY <3>2, PanelsAreSlots, SizesAssumption DEF IInv, TypeOK, AtSync
      <4>2. Data(next, picture) \in DataType
        BY <4>1, Constructors
      <4>3. QED
        BY <3>2, <4>1, <4>2, Constructors DEF Datagram, Datagrams, Data
    <3>3. QED
      BY <3>1, <3>2
  <2>2. /\ socket' \in Seq(Datagrams) /\ Len(socket') = Len(socket) + 1
        /\ \A i \in 1 .. Len(socket) : socket'[i] = socket[i]
        /\ socket'[Len(socket) + 1] = Datagram
    BY <1>3, <2>1, SocketTypes, AppendProperties
  <2>3. TypeOK'
    BY <1>1, <2>2, NextPlaceType DEF IInv, TypeOK, Datagrams
  <2>4. SocketInv'
    <3> SUFFICES ASSUME NEW i \in 1 .. Len(socket'), DataAt(i)'
                 PROVE  /\ socket'[i].of = <<socket'[i].col, socket'[i].row>>
                        /\ socket'[i].id = socket'[i].col
                        /\ socket'[i].picture <= picture
                        /\ Packets[socket'[i].of].picture <= socket'[i].picture
                        /\ \A j \in i .. Len(socket') :
                             DataAt(j)' => socket'[i].picture <= socket'[j].picture
      BY <1>1 DEF SocketInv
    <3>1. picture \in Nat
      BY DEF IInv, TypeOK
    <3>2. CASE i \in 1 .. Len(socket)
      <4>1. DataAt(i) /\ socket'[i] = socket[i] /\ socket[i].picture <= picture
        BY <2>2, <3>2 DEF DataAt, IInv, SocketInv
      <4>2. ASSUME NEW j \in i .. Len(socket'), DataAt(j)'
            PROVE  socket[i].picture <= socket'[j].picture
        <5>1. CASE j = Len(socket) + 1
          BY <2>1, <2>2, <4>1, <4>2, <5>1 DEF DataAt
        <5>2. CASE j \in i .. Len(socket)
          <6>1. socket'[j] = socket[j] /\ DataAt(j)
            BY <2>2, <3>2, <4>2, <5>2, SocketTypes DEF DataAt
          <6>2. QED
            BY <3>2, <4>1, <5>2, <6>1 DEF IInv, SocketInv
        <5>3. QED
          BY <2>2, <3>2, <5>1, <5>2, SocketTypes
      <4>3. QED
        BY <3>2, <4>1, <4>2 DEF IInv, SocketInv
    <3>3. CASE i = Len(socket) + 1
      <4>1. socket'[i] = Datagram /\ Datagram.type = "data"
        BY <2>2, <3>3 DEF DataAt
      <4>2. Packets[Datagram.of].picture <= picture
        BY <2>1, <4>1 DEF IInv, SlotInv
      <4>3. \A j \in i .. Len(socket') : j = i
        BY <2>2, <3>3, SocketTypes
      <4>4. QED
        BY <2>1, <3>1, <4>1, <4>2, <4>3
    <3>4. QED
      BY <2>2, <3>2, <3>3, SocketTypes
  <2>5. QED
    BY <1>1, <2>3, <2>4 DEF IInv, SlotInv, HeldInv, ShownInv
<1>4. QED
  BY <1>2, <1>3 DEF SendPacket

(* Taking a datagram off the socket.                                       *)
LEMMA TailFacts ==
  ASSUME IInv, socket # <<>>, socket' = Tail(socket)
  PROVE  /\ 1 \in 1 .. Len(socket) /\ Head(socket) = socket[1]
         /\ socket' \in Seq(Datagrams) /\ Len(socket') = Len(socket) - 1
         /\ \A i \in 1 .. Len(socket') : socket'[i] = socket[i + 1]
<1>1. Len(socket) \in Nat \ {0}
  BY SocketTypes, EmptySeq
<1>2. QED
  BY <1>1, SocketTypes, HeadTailProperties

(* Taking a SYNC from the socket changes no picture.                       *)
LEMMA ReceiveSyncStep == IInv /\ ReceiveSync => IInv'
<1> SUFFICES ASSUME IInv, ReceiveSync PROVE IInv'
  OBVIOUS
<1>1. /\ UNCHANGED <<picture, next, Packets, held, shown, losses>>
      /\ column' = 0 /\ socket # <<>> /\ socket' = Tail(socket)
  BY DEF ReceiveSync, hostVars, panelVars
<1>2. TypeOK'
  BY <1>1, TailFacts, SizesAssumption DEF IInv, TypeOK, Datagrams
<1>3. SocketInv'
  <2> SUFFICES ASSUME NEW i \in 1 .. Len(socket'), DataAt(i)'
               PROVE  /\ DataAt(i + 1) /\ i + 1 \in 1 .. Len(socket)
                      /\ socket'[i] = socket[i + 1]
                      /\ \A j \in i .. Len(socket') :
                           /\ j + 1 \in i + 1 .. Len(socket)
                           /\ socket'[j] = socket[j + 1]
    BY <1>1 DEF IInv, SocketInv, DataAt
  <2>1. QED
    BY <1>1, TailFacts, SocketTypes DEF DataAt
<1>4. QED
  BY <1>1, <1>2, <1>3 DEF IInv, SlotInv, HeldInv, ShownInv

(* A slot takes data drawn for it, newer than what it held.                *)
LEMMA ReceiveDataStep == IInv /\ ReceiveData => IInv'
<1> SUFFICES ASSUME IInv, ReceiveData PROVE IInv'
  OBVIOUS
<1> DEFINE d == Head(socket)
           s == <<d.col, d.row>>
<1>1. /\ UNCHANGED <<picture, next, column, held, shown, losses>>
      /\ Packets' = [Packets EXCEPT ![s] = Stored(d)]
      /\ d.type = "data" /\ socket # <<>> /\ socket' = Tail(socket)
  BY DEF ReceiveData, hostVars, panelVars
<1>2. /\ d = socket[1] /\ 1 \in 1 .. Len(socket) /\ DataAt(1)
      /\ d \in DataType /\ d.picture \in Nat
  BY <1>1, TailFacts, SocketTypes DEF DataAt
<1>3. /\ d.of = s /\ s \in Slots /\ d.id = d.col /\ d.picture <= picture
      /\ Packets[s].picture <= d.picture
  BY <1>2 DEF IInv, SocketInv, DataType, Slots
<1>4. /\ Stored(d) \in PacketType /\ Stored(d).picture = d.picture
      /\ Stored(d).of = s /\ Stored(d).id = s[1] /\ Stored(d).crc = TRUE
      /\ Stored(d).panel_col = s[1]
  BY <1>2, <1>3, Constructors
<1> HIDE DEF d, s
<1>5. /\ Packets' \in [Slots -> PacketType]
      /\ Packets'[s] = Stored(d)
      /\ \A t \in Slots \ {s} : Packets'[t] = Packets[t]
  BY <1>1, <1>3, <1>4 DEF IInv, TypeOK
<1>6. \A t \in Slots : /\ Packets[t].picture \in Nat /\ Packets'[t].picture \in Nat
                       /\ Packets[t].picture <= Packets'[t].picture
  BY <1>3, <1>4, <1>5 DEF IInv, TypeOK, PacketType
<1>7. TypeOK'
  BY <1>1, <1>5, TailFacts DEF IInv, TypeOK, Datagrams
<1>8. SocketInv'
  <2> SUFFICES ASSUME NEW i \in 1 .. Len(socket'), DataAt(i)'
               PROVE  /\ socket'[i].of = <<socket'[i].col, socket'[i].row>>
                      /\ socket'[i].id = socket'[i].col
                      /\ socket'[i].picture <= picture
                      /\ Packets'[socket'[i].of].picture <= socket'[i].picture
                      /\ \A j \in i .. Len(socket') :
                           DataAt(j)' => socket'[i].picture <= socket'[j].picture
    BY <1>1 DEF SocketInv
  <2>1. /\ DataAt(i + 1) /\ i + 1 \in 1 .. Len(socket)
        /\ socket'[i] = socket[i + 1]
        /\ \A j \in i .. Len(socket') :
             j + 1 \in i + 1 .. Len(socket) /\ socket'[j] = socket[j + 1]
    BY <1>1, TailFacts, SocketTypes DEF DataAt
  <2>2. /\ socket[i + 1].of = <<socket[i + 1].col, socket[i + 1].row>>
        /\ socket[i + 1].id = socket[i + 1].col
        /\ socket[i + 1].picture <= picture
        /\ Packets[socket[i + 1].of].picture <= socket[i + 1].picture
        /\ \A j \in i + 1 .. Len(socket) :
             DataAt(j) => socket[i + 1].picture <= socket[j].picture
    BY <2>1 DEF IInv, SocketInv
  <2>3. socket[i + 1].of \in Slots
    BY <2>1, SocketTypes DEF DataType
  <2>4. d.picture <= socket[i + 1].picture
    <3>1. i + 1 \in 1 .. Len(socket)
      BY <2>1
    <3>2. QED
      BY <1>2, <2>1, <3>1 DEF IInv, SocketInv
  <2>5. Packets'[socket[i + 1].of].picture <= socket[i + 1].picture
    BY <1>4, <1>5, <2>2, <2>3, <2>4
  <2>6. QED
    BY <2>1, <2>2, <2>5 DEF DataAt
<1>9. SlotInv'
  BY <1>1, <1>3, <1>4, <1>5 DEF IInv, SlotInv
<1>10. HeldInv' /\ ShownInv'
  <2>1. \A p \in Panels : /\ p \in Slots
                          /\ held[p] # None => held[p].picture \in Nat
                          /\ shown[p] # Dark => shown[p].picture \in Nat
    BY PanelsAreSlots DEF IInv, TypeOK, PacketType
  <2>2. HeldInv'
    BY <1>1, <1>6, <2>1 DEF IInv, HeldInv
  <2>3. ShownInv'
    BY <1>1, <1>6, <2>1 DEF IInv, ShownInv
  <2>4. QED
    BY <2>2, <2>3
<1>11. QED
  BY <1>7, <1>8, <1>9, <1>10 DEF IInv

(* A panel takes in what its slot holds, or an empty slot's zeros.         *)
LEMMA SendColumnStep == IInv /\ SendColumn => IInv'
<1> SUFFICES ASSUME IInv, SendColumn PROVE IInv'
  OBVIOUS
<1> DEFINE Frame(p) == Packets[<<column, p[2]>>]
<1>1. /\ UNCHANGED <<picture, next, socket, Packets, shown>>
      /\ column \in 0 .. COLUMN_COUNT - 1 /\ column' = column + 1
      /\ losses' \in 0 .. MaxLosses
  BY SizesAssumption
  DEF IInv, TypeOK, SendColumn, Listening, Lose, hostVars
<1>2. PICK missed :
        held' = [p \in Panels |-> IF p \notin missed /\ TakesIn(p, Frame(p))
                                    THEN Frame(p) ELSE held[p]]
  BY DEF SendColumn
<1>3. \A p \in Panels :
        \/ held'[p] = held[p]
        \/ held'[p] = Frame(p) /\ Frame(p).panel_col = p[1] /\ held[p] = None
  BY <1>2 DEF TakesIn
<1>4. \A p \in Panels : <<column, p[2]>> \in Slots /\ Frame(p) \in PacketType
  BY <1>1, PanelsAreSlots DEF Slots, IInv, TypeOK
<1>5. \A p \in Panels : Frame(p).crc /\ Frame(p).panel_col = p[1] =>
        Frame(p).of = p /\ Frame(p) = Packets[p]
  <2> SUFFICES ASSUME NEW p \in Panels, Frame(p).crc, Frame(p).panel_col = p[1]
               PROVE  Frame(p).of = p /\ Frame(p) = Packets[p]
    OBVIOUS
  <2>1. Frame(p).of = <<column, p[2]>> /\ Frame(p).panel_col = column
    BY <1>4 DEF IInv, SlotInv
  <2>2. p = <<column, p[2]>>
    BY <2>1, PanelsAreSlots
  <2>3. QED
    BY <2>1, <2>2
<1> HIDE DEF Frame
<1>6. TypeOK'
  <2>1. held' \in [Panels -> PacketType \union {None}]
    BY <1>2, <1>4 DEF IInv, TypeOK
  <2>2. QED
    BY <1>1, <2>1, SizesAssumption DEF IInv, TypeOK
<1>7. HeldInv'
  <2> SUFFICES ASSUME NEW p \in Panels, held'[p] # None, held'[p].crc
               PROVE  held'[p].of = p /\ held'[p].picture <= Packets[p].picture
    BY <1>1 DEF HeldInv
  <2>1. CASE held'[p] = held[p]
    BY <2>1 DEF IInv, HeldInv
  <2>2. CASE held'[p] = Frame(p) /\ Frame(p).panel_col = p[1]
    <3>1. Frame(p).of = p /\ Frame(p) = Packets[p]
      BY <1>5, <2>2
    <3>2. Packets[p].picture \in Nat
      BY PanelsAreSlots DEF IInv, TypeOK, PacketType
    <3>3. QED
      BY <2>2, <3>1, <3>2
  <2>3. QED
    BY <1>3, <2>1, <2>2
<1>8. ShownInv'
  <2> SUFFICES ASSUME NEW p \in Panels, shown[p] # Dark,
                      held'[p] # None, held'[p].crc
               PROVE  shown[p].picture <= held'[p].picture
    BY <1>1 DEF IInv, ShownInv
  <2>1. CASE held'[p] = held[p]
    BY <2>1 DEF IInv, ShownInv
  <2>2. CASE held'[p] = Frame(p) /\ Frame(p).panel_col = p[1]
    <3>1. held'[p] = Packets[p]
      BY <1>5, <2>2
    <3>2. QED
      BY <3>1 DEF IInv, ShownInv
  <2>3. QED
    BY <1>3, <2>1, <2>2
<1>9. QED
  BY <1>1, <1>6, <1>7, <1>8 DEF IInv, SocketInv, SlotInv, DataAt

(* What is shown is what was held, good and the panel's own.               *)
LEMMA ShowStep == \A p \in Panels : IInv /\ Show(p) => IInv'
<1> SUFFICES ASSUME NEW p \in Panels, IInv, Show(p) PROVE IInv'
  OBVIOUS
<1>1. /\ UNCHANGED <<picture, next, socket, Packets, column, held, losses>>
      /\ shown' = [shown EXCEPT ![p] = held[p]]
      /\ held[p] # None /\ held[p].crc
  BY DEF Show, Mine, hostVars, serverVars
<1>2. held[p] \in PacketType
  BY <1>1 DEF IInv, TypeOK
<1>3. /\ shown' \in [Panels -> PacketType \union {Dark}]
      /\ shown'[p] = held[p] /\ \A q \in Panels \ {p} : shown'[q] = shown[q]
  BY <1>1, <1>2 DEF IInv, TypeOK
<1>4. TypeOK'
  BY <1>1, <1>3 DEF IInv, TypeOK
<1>5. ShownInv'
  BY <1>1, <1>2, <1>3 DEF IInv, HeldInv, ShownInv, PacketType
<1>6. QED
  BY <1>1, <1>4, <1>5 DEF IInv, SocketInv, SlotInv, HeldInv, DataAt

(* Letting go of a frame leaves what is shown.                             *)
LEMMA LetGoStep == \A p \in Panels : IInv /\ LetGo(p) => IInv'
<1> SUFFICES ASSUME NEW p \in Panels, IInv, LetGo(p) PROVE IInv'
  OBVIOUS
<1>1. /\ UNCHANGED <<picture, next, socket, Packets, column, shown, losses>>
      /\ held' = [held EXCEPT ![p] = None]
  BY DEF LetGo, hostVars, serverVars
<1>2. /\ held' \in [Panels -> PacketType \union {None}]
      /\ held'[p] = None /\ \A q \in Panels \ {p} : held'[q] = held[q]
  BY <1>1 DEF IInv, TypeOK
<1>3. TypeOK'
  BY <1>1, <1>2 DEF IInv, TypeOK
<1>4. HeldInv' /\ ShownInv'
  BY <1>1, <1>2 DEF IInv, HeldInv, ShownInv
<1>5. QED
  BY <1>1, <1>3, <1>4 DEF IInv, SocketInv, SlotInv, DataAt

(* Every step keeps the invariant.                                         *)
LEMMA NextIInv == IInv /\ [Next]_vars => IInv'
<1> SUFFICES ASSUME IInv, [Next]_vars PROVE IInv'
  OBVIOUS
<1>1. CASE UNCHANGED vars
  BY <1>1 DEF IInv, TypeOK, SocketInv, SlotInv, HeldInv, ShownInv, DataAt, vars,
              hostVars, serverVars, panelVars
<1>2. CASE Next
  BY <1>2, DrawPictureStep, SendPacketStep, ReceiveDataStep, ReceiveSyncStep,
     SendColumnStep, ShowStep, LetGoStep DEF Next
<1>3. QED
  BY <1>1, <1>2

(* The inductive invariant holds.                                          *)
THEOREM WallInvariance == Spec => []IInv
  BY InitIInv, NextIInv, PTL DEF Spec

(* Every variable keeps its type.                                          *)
THEOREM WallTypeCorrect == Spec => []TypeOK
<1>1. IInv => TypeOK
  BY DEF IInv
<1>2. QED
  BY <1>1, WallInvariance, PTL

(* For every size of the wall and of the socket, and every loss, a panel   *)
(* shows only pixels drawn for it, with a good CRC (fsserver.c:54-66).     *)
THEOREM WallOwnImage == Spec => []OwnImage
<1>1. IInv => OwnImage
  BY DEF IInv, ShownInv, OwnImage
<1>2. QED
  BY <1>1, WallInvariance, PTL

-----------------------------------------------------------------------------

(* The refinement mapping under the invariant.                             *)
LEMMA SeenFacts ==
  ASSUME IInv, NEW p \in Panels
  PROVE  /\ Seen(p) \in 0 .. picture
         /\ shown[p] # Dark => Seen(p) = shown[p].picture
         /\ held[p] # None /\ held[p].crc =>
              held[p].picture \in Seen(p) .. picture /\ held[p].of = p
<1>1. /\ picture \in Nat /\ p \in Slots
      /\ shown[p] # Dark => shown[p].picture \in Nat
      /\ held[p] # None => held[p].picture \in Nat
      /\ Packets[p].picture \in Nat
  BY PanelsAreSlots DEF IInv, TypeOK, PacketType
<1>2. Packets[p].picture <= picture
  BY <1>1 DEF IInv, SlotInv
<1>3. QED
  BY <1>1, <1>2 DEF IInv, ShownInv, HeldInv, Seen

(* The wall implements WallPromise: every panel goes forward only, through *)
(* pictures drawn for it.                                                  *)
THEOREM WallKeepsPromise == Spec => ImplementsPromise
<1>1. Init => Promise!Init
  BY DEF Init, Promise!Init, Seen
<1>2. IInv /\ [Next]_vars => [Promise!Next]_(Promise!vars)
  <2> SUFFICES ASSUME IInv, [Next]_vars PROVE [Promise!Next]_(Promise!vars)
    OBVIOUS
  <2>1. CASE picture' = picture /\ shown' = shown
    BY <2>1 DEF Promise!vars, Seen
  <2>2. CASE DrawPicture
    BY <2>2 DEF DrawPicture, panelVars, Promise!Next, Promise!Draw, Seen
  <2>3. CASE \E p \in Panels : Show(p)
    <3>1. PICK p \in Panels : Show(p)
      BY <2>3
    <3>2. /\ held[p] # None /\ held[p].crc /\ picture' = picture
          /\ shown' = [shown EXCEPT ![p] = held[p]]
      BY <3>1 DEF Show, Mine, hostVars
    <3>3. /\ shown'[p] = held[p] /\ \A q \in Panels \ {p} : shown'[q] = shown[q]
          /\ held[p] \in PacketType
      BY <3>2 DEF IInv, TypeOK
    <3>4. Seen(p)' = held[p].picture /\ \A q \in Panels \ {p} : Seen(q)' = Seen(q)
      BY <3>2, <3>3, SeenFacts, Distinct DEF Seen
    <3>5. [q \in Panels |-> Seen(q)]'
            = [[q \in Panels |-> Seen(q)] EXCEPT ![p] = held[p].picture]
      BY <3>4
    <3>6. held[p].picture \in Seen(p) .. picture
      BY <3>2, SeenFacts
    <3>7. Promise!Advance(p)
      BY <3>2, <3>5, <3>6 DEF Promise!Advance
    <3>8. QED
      BY <3>7 DEF Promise!Next
  <2>4. QED
    BY <2>1, <2>2, <2>3
    DEF Next, vars, SendPacket, ReceiveData, ReceiveSync, SendColumn, LetGo,
        hostVars, panelVars
<1>3. QED
  BY <1>1, <1>2, WallInvariance, PTL DEF Spec, ImplementsPromise, Promise!Spec

-----------------------------------------------------------------------------

(* The order of the panels in an update.                                   *)
LEMMA PlaceOrder ==
  ASSUME NEW p \in Panels
  PROVE  /\ ~Before(p, <<0, 0>>) /\ After(p) # <<0, 0>>
         /\ p # <<0, FS_ROWS>> /\ <<0, FS_ROWS>> # <<0, 0>>
         /\ \A q \in Panels : Before(q, After(p)) => Before(q, p) \/ q = p
         /\ After(p) = <<0, FS_ROWS>> => \A q \in Panels : Before(q, p) \/ q = p
<1>1. ~Before(p, <<0, 0>>) /\ After(p) # <<0, 0>>
  BY AfterFacts DEF Before
<1>2. p # <<0, FS_ROWS>> /\ <<0, FS_ROWS>> # <<0, 0>>
  BY AfterFacts, SizesAssumption DEF FS_ROWS
<1>3. ASSUME NEW q \in Panels, Before(q, After(p)) PROVE Before(q, p) \/ q = p
  <2>1. /\ q = <<q[1], q[2]>> /\ p = <<p[1], p[2]>>
        /\ q[1] \in Nat /\ q[2] \in Nat /\ p[1] \in Nat /\ p[2] \in Nat
        /\ q[1] + 1 <= RowLength(q[2])
    BY AfterFacts, SizesAssumption DEF RowLength
  <2>2. CASE After(p) = <<p[1] + 1, p[2]>>
    BY <1>3, <2>1, <2>2 DEF Before
  <2>3. CASE p[1] + 1 = RowLength(p[2]) /\ After(p) = <<0, p[2] + 1>>
    <3>1. q[2] <= p[2]
      BY <1>3, <2>1, <2>3 DEF Before
    <3>2. q[2] = p[2] => q[1] <= p[1]
      BY <2>1, <2>3, SizesAssumption DEF RowLength
    <3>3. QED
      BY <2>1, <3>1, <3>2 DEF Before
  <2>4. QED
    BY <2>2, <2>3, AfterFacts
<1>4. ASSUME After(p) = <<0, FS_ROWS>>, NEW q \in Panels
      PROVE  Before(q, After(p))
  BY <1>4, AfterFacts, SizesAssumption DEF Before, FS_ROWS
<1>5. QED
  BY <1>1, <1>2, <1>3, <1>4

(* The datagram to be sent is that of the place update() is at.            *)
DatagramOK == /\ PlaceOf(Datagram) = next
              /\ Datagram.type \in {"data", "sync"}
              /\ Datagram.type = "data" => next \in Panels /\ Datagram.picture = picture
              /\ Datagram.type = "sync" => next = <<0, FS_ROWS>>
              /\ next = <<0, 0>> => Datagram.type = "data"

LEMMA DatagramFacts == TypeOK => DatagramOK
<1> SUFFICES ASSUME TypeOK PROVE DatagramOK
  OBVIOUS
<1>1. CASE AtSync
  <2>1. next = <<0, FS_ROWS>>
    BY <1>1, AfterFacts, SizesAssumption DEF TypeOK, AtSync, FS_ROWS
  <2>2. Datagram = Sync /\ Sync.type = "sync"
    BY <1>1 DEF Datagram, Sync
  <2>3. QED
    BY <2>1, <2>2, NextPlaceType, PlaceOrder DEF PlaceOf, DatagramOK
<1>2. CASE ~AtSync
  <2>1. next \in Panels /\ next = <<next[1], next[2]>>
    BY <1>2, AfterFacts DEF TypeOK, AtSync
  <2>2. Datagram = Data(next, picture)
    BY <1>2 DEF Datagram
  <2>3. /\ Datagram.type = "data" /\ Datagram.col = next[1]
        /\ Datagram.row = next[2] /\ Datagram.picture = picture
    BY <2>2 DEF Data
  <2>4. QED
    BY <2>1, <2>3, PlaceOrder DEF PlaceOf, DatagramOK
<1>3. QED
  BY <1>1, <1>2

(* And so is the one after a step.                                         *)
LEMMA NextDatagramFacts == TypeOK' => DatagramOK'
  BY DatagramFacts, PTL

(* The order holds at the start.                                           *)
LEMMA InitOrderInv == Init /\ TypeOK => OrderInv
<1> SUFFICES ASSUME Init, TypeOK PROVE LineInv /\ FrontInv
  BY DEF OrderInv
<1>1. Len(socket) = 0 /\ next = <<0, 0>> /\ column = Listening
  BY EmptySeq DEF Init
<1>2. InLine(1) = Datagram
  BY <1>1 DEF InLine
<1>3. FrontInv
  BY <1>1, <1>2, DatagramFacts, PlaceOrder DEF FrontInv, DatagramOK
<1>4. QED
  BY <1>1, <1>3 DEF LineInv

(* A picture is drawn between two updates: what is sent next is then its   *)
(* first datagram.                                                         *)
LEMMA DrawPictureOrder ==
  ASSUME IInv, LineInv, FrontInv, DrawPicture
  PROVE  LineInv' /\ FrontInv'
<1>1. /\ UNCHANGED <<next, socket, Packets, column>> /\ next = <<0, 0>>
      /\ TypeOK /\ TypeOK'
  BY DrawPictureStep DEF IInv, DrawPicture, serverVars
<1>2. /\ PlaceOf(Datagram) = <<0, 0>> /\ Datagram.type = "data"
      /\ PlaceOf(Datagram)' = <<0, 0>> /\ Datagram'.type = "data"
  <2>1. next' = <<0, 0>>
    BY <1>1
  <2>2. PlaceOf(Datagram)' = next' /\ (next' = <<0, 0>> => Datagram'.type = "data")
    BY <1>1, NextDatagramFacts DEF DatagramOK
  <2>3. QED
    BY <1>1, <2>1, <2>2, DatagramFacts DEF DatagramOK
<1>3. Len(socket) \in Nat
  BY SocketTypes
<1>4. /\ \A i \in 1 .. Len(socket) : InLine(i) = socket[i] /\ InLine(i)' = socket[i]
      /\ \A i \in Nat : i = Len(socket) + 1 =>
           InLine(i) = Datagram /\ InLine(i)' = Datagram'
  BY <1>1, <1>3 DEF InLine
<1>5. LineInv'
  <2> SUFFICES ASSUME NEW i \in 1 .. Len(socket)
               PROVE  /\ DataAt(i) => PlaceOf(socket[i]) \in Panels
                      /\ PlaceOf(InLine(i + 1)') = After(PlaceOf(socket[i]))
                      /\ socket[i].type = "data" /\ InLine(i + 1)'.type = "data"
                           => InLine(i + 1)'.picture = socket[i].picture
    BY <1>1 DEF LineInv, Follows, DataAt
  <2>1. /\ DataAt(i) => PlaceOf(socket[i]) \in Panels
        /\ Follows(socket[i], InLine(i + 1))
    BY DEF LineInv
  <2>2. CASE i < Len(socket)
    <3>1. InLine(i + 1)' = InLine(i + 1)
      BY <1>3, <1>4, <2>2
    <3>2. QED
      BY <2>1, <3>1 DEF Follows
  <2>3. CASE i = Len(socket)
    <3>1. After(PlaceOf(socket[i])) = <<0, 0>>
      BY <1>2, <1>4, <2>1, <2>3 DEF Follows
    <3>2. socket[i].type # "data"
      BY <2>1, <3>1, PlaceOrder DEF DataAt
    <3>3. PlaceOf(InLine(i + 1)') = <<0, 0>>
      BY <1>2, <1>4, <2>3 DEF PlaceOf
    <3>4. QED
      BY <2>1, <3>1, <3>2, <3>3
  <2>4. QED
    BY <1>3, <2>2, <2>3
<1>6. FrontInv'
  <2>1. CASE Len(socket) = 0
    <3>1. InLine(1) = Datagram /\ InLine(1)' = Datagram'
      BY <1>4, <2>1
    <3>2. PlaceOf(InLine(1))' = <<0, 0>> /\ InLine(1)'.type = "data"
      BY <1>2, <3>1 DEF PlaceOf
    <3>3. SamePicture' <=> SamePicture
      BY <1>1 DEF SamePicture
    <3>4. QED
      BY <1>1, <3>2, <3>3, PlaceOrder DEF FrontInv
  <2>2. CASE Len(socket) # 0
    <3>1. InLine(1)' = InLine(1)
      BY <1>3, <1>4, <2>2
    <3>2. QED
      BY <1>1, <3>1 DEF FrontInv, SamePicture, PlaceOf
  <2>3. QED
    BY <2>1, <2>2
<1>7. QED
  BY <1>5, <1>6

(* What is sent follows what was sent before it.                           *)
LEMMA SendPacketOrder ==
  ASSUME IInv, LineInv, FrontInv, SendPacket, UNCHANGED losses
  PROVE  LineInv' /\ FrontInv'
<1>1. /\ UNCHANGED <<picture, Packets, column>> /\ next' = After(next)
      /\ socket' = Append(socket, Datagram) /\ TypeOK /\ TypeOK'
  <2>1. losses \in Nat
    BY DEF IInv, TypeOK
  <2>2. QED
    BY <2>1, SendPacketStep DEF IInv, SendPacket, Lose, serverVars
<1>2. /\ Len(socket) \in Nat /\ Len(socket') = Len(socket) + 1
      /\ \A i \in 1 .. Len(socket) : socket'[i] = socket[i]
      /\ socket'[Len(socket) + 1] = Datagram
  <2>1. Datagram \in Datagrams
    <3>1. CASE AtSync
      BY <3>1 DEF Datagram, Datagrams
    <3>2. CASE ~AtSync
      BY <1>1, <3>2, PanelsAreSlots, Constructors, SizesAssumption
      DEF Datagram, Datagrams, TypeOK, AtSync
    <3>3. QED
      BY <3>1, <3>2
  <2>2. QED
    BY <1>1, <2>1, SocketTypes, AppendProperties
<1>3. /\ \A i \in 1 .. Len(socket) + 1 : InLine(i)' = InLine(i)
      /\ \A i \in Nat : i = Len(socket) + 2 => InLine(i)' = Datagram'
      /\ \A i \in Nat : i = Len(socket) + 1 => InLine(i) = Datagram
  BY <1>2 DEF InLine
<1>4. PlaceOf(Datagram)' = After(PlaceOf(Datagram))
  BY <1>1, DatagramFacts, NextDatagramFacts DEF DatagramOK, After, RowLength
<1>5. LineInv'
  <2> SUFFICES ASSUME NEW i \in 1 .. Len(socket')
               PROVE  /\ DataAt(i)' => PlaceOf(socket'[i]) \in Panels
                      /\ PlaceOf(InLine(i + 1)') = After(PlaceOf(socket'[i]))
                      /\ socket'[i].type = "data" /\ InLine(i + 1)'.type = "data"
                           => InLine(i + 1)'.picture = socket'[i].picture
    BY DEF LineInv, Follows
  <2>1. CASE i \in 1 .. Len(socket)
    <3>1. InLine(i + 1)' = InLine(i + 1) /\ socket'[i] = socket[i]
      BY <1>2, <1>3, <2>1
    <3>2. QED
      BY <2>1, <3>1 DEF LineInv, Follows, DataAt
  <2>2. CASE i = Len(socket) + 1
    <3>1. InLine(i + 1)' = Datagram' /\ socket'[i] = Datagram
      BY <1>2, <1>3, <2>2
    <3>2. PlaceOf(InLine(i + 1)') = After(PlaceOf(socket'[i]))
      BY <1>4, <3>1 DEF PlaceOf
    <3>3. DataAt(i)' => PlaceOf(socket'[i]) \in Panels
      BY <1>1, <3>1, DatagramFacts DEF DataAt, DatagramOK
    <3>4. Datagram'.type = "data" => Datagram'.picture = picture'
      BY <1>1, NextDatagramFacts DEF DatagramOK
    <3>5. QED
      BY <1>1, <3>1, <3>2, <3>3, <3>4, DatagramFacts DEF DatagramOK
  <2>3. QED
    BY <1>2, <2>1, <2>2
<1>6. FrontInv'
  <2>1. InLine(1)' = InLine(1)
    BY <1>2, <1>3
  <2>2. QED
    BY <1>1, <2>1 DEF FrontInv, SamePicture, PlaceOf
<1>7. QED
  BY <1>5, <1>6

(* What is received is the front of the line; the rest moves up.           *)
LEMMA ReceiveOrder ==
  ASSUME IInv, LineInv, socket # <<>>, socket' = Tail(socket),
         UNCHANGED <<picture, next>>
  PROVE  /\ LineInv' /\ InLine(1) = Head(socket)
         /\ InLine(1)' = InLine(2) /\ Follows(InLine(1), InLine(2))
         /\ InLine(1).type = "data" => PlaceOf(InLine(1)) \in Panels
<1>1. /\ 1 \in 1 .. Len(socket) /\ Head(socket) = socket[1]
      /\ Len(socket) \in Nat /\ Len(socket') = Len(socket) - 1
      /\ \A i \in 1 .. Len(socket') : socket'[i] = socket[i + 1]
  BY TailFacts, SocketTypes
<1>2. Datagram' = Datagram
  BY DEF Datagram, AtSync
<1>3. \A i \in 1 .. Len(socket) : InLine(i)' = InLine(i + 1)
  <2> SUFFICES ASSUME NEW i \in 1 .. Len(socket) PROVE InLine(i)' = InLine(i + 1)
    OBVIOUS
  <2>1. CASE i < Len(socket)
    BY <1>1, <2>1 DEF InLine
  <2>2. CASE i = Len(socket)
    BY <1>1, <1>2, <2>2 DEF InLine
  <2>3. i < Len(socket) \/ i = Len(socket)
    <3>1. Len(socket) \in Nat
      BY <1>1
    <3>2. QED
      BY <3>1
  <2>4. QED
    BY <2>1, <2>2, <2>3
<1>4. LineInv'
  <2> SUFFICES ASSUME NEW i \in 1 .. Len(socket')
               PROVE  /\ DataAt(i)' => PlaceOf(socket'[i]) \in Panels
                      /\ PlaceOf(InLine(i + 1)') = After(PlaceOf(socket'[i]))
                      /\ socket'[i].type = "data" /\ InLine(i + 1)'.type = "data"
                           => InLine(i + 1)'.picture = socket'[i].picture
    BY DEF LineInv, Follows
  <2>1. /\ i + 1 \in 1 .. Len(socket) /\ socket'[i] = socket[i + 1]
        /\ InLine(i + 1)' = InLine(i + 2)
    BY <1>1, <1>3
  <2>2. /\ DataAt(i + 1) => PlaceOf(socket[i + 1]) \in Panels
        /\ Follows(socket[i + 1], InLine(i + 2))
    BY <2>1 DEF LineInv
  <2>3. QED
    BY <2>1, <2>2 DEF Follows, DataAt
<1>5. InLine(1) = socket[1] /\ InLine(1)' = InLine(2)
  BY <1>1, <1>3 DEF InLine
<1>6. QED
  BY <1>1, <1>4, <1>5 DEF LineInv, DataAt

(* A slot takes the data at the front: it is then of the picture of those  *)
(* before it.                                                              *)
LEMMA ReceiveDataOrder ==
  ASSUME IInv, LineInv, FrontInv, ReceiveData
  PROVE  LineInv' /\ FrontInv'
<1> DEFINE d == InLine(1)
           p == PlaceOf(d)
<1>1. /\ socket # <<>> /\ socket' = Tail(socket) /\ column = Listening
      /\ UNCHANGED <<picture, next, column>>
  BY DEF ReceiveData, hostVars
<1>2. /\ LineInv' /\ d = Head(socket) /\ InLine(1)' = InLine(2)
      /\ Follows(d, InLine(2))
      /\ d.type = "data" => p \in Panels
  BY <1>1, ReceiveOrder
<1>3. d.type = "data" /\ p = <<d.col, d.row>> /\ p \in Panels
  BY <1>2 DEF ReceiveData, PlaceOf
<1>4. Packets' = [Packets EXCEPT ![p] = Stored(d)] /\ Stored(d).picture = d.picture
  BY <1>2, <1>3 DEF ReceiveData, Stored
<1>5. \A q \in Panels : Before(q, p) \/ q = p => Packets'[q].picture = d.picture
  <2>1. \A q \in Panels : Before(q, p) => Packets[q].picture = d.picture
    BY <1>3 DEF FrontInv
  <2>2. Packets \in [Slots -> PacketType] /\ Panels \subseteq Slots
    BY PanelsAreSlots DEF IInv, TypeOK
  <2>3. QED
    BY <1>3, <1>4, <2>1, <2>2
<1>6. PlaceOf(InLine(2)) = After(p)
  BY <1>2 DEF Follows
<1>7. InLine(2).type = "data" => InLine(2).picture = d.picture
  BY <1>2, <1>3 DEF Follows
<1>8. \A q \in Panels : Before(q, After(p)) => Before(q, p) \/ q = p
  BY <1>3, PlaceOrder
<1>9. InLine(2).type = "sync" => \A q \in Panels : Packets'[q].picture = d.picture
  <2>1. InLine(2).type = "sync" => After(p) = <<0, FS_ROWS>>
    BY <1>6 DEF PlaceOf
  <2>2. QED
    BY <1>3, <1>5, <2>1, PlaceOrder
<1> HIDE DEF p, d
<1>10. FrontInv'
  <2>1. InLine(1)'.type = "data" =>
          \A q \in Panels : Before(q, PlaceOf(InLine(1)')) =>
            Packets'[q].picture = InLine(1)'.picture
    BY <1>2, <1>5, <1>6, <1>7, <1>8
  <2>2. InLine(1)'.type = "sync" => SamePicture'
    BY <1>2, <1>9 DEF SamePicture
  <2>3. PlaceOf(InLine(1))' = PlaceOf(InLine(1)') /\ column' = Listening
    BY <1>1 DEF PlaceOf
  <2>4. QED
    BY <2>1, <2>2, <2>3 DEF FrontInv
<1>11. QED
  BY <1>2, <1>10

(* SYNC comes when all slots are of one picture, and an update follows it. *)
LEMMA ReceiveSyncOrder ==
  ASSUME IInv, LineInv, FrontInv, ReceiveSync
  PROVE  LineInv' /\ FrontInv'
<1>1. /\ socket # <<>> /\ socket' = Tail(socket)
      /\ UNCHANGED <<picture, next, Packets>> /\ Head(socket).type = "sync"
  BY DEF ReceiveSync, hostVars
<1>2. /\ LineInv' /\ InLine(1) = Head(socket) /\ InLine(1)' = InLine(2)
      /\ Follows(InLine(1), InLine(2))
  BY <1>1, ReceiveOrder
<1>3. SamePicture /\ PlaceOf(InLine(1)) = <<0, FS_ROWS>>
  BY <1>1, <1>2 DEF FrontInv, PlaceOf
<1>4. PlaceOf(InLine(2)) = <<0, 0>>
  BY <1>2, <1>3, AfterFacts DEF Follows
<1>5. InLine(2).type # "sync"
  BY <1>4, NextPlaceType, PlaceOrder DEF PlaceOf
<1>6. SamePicture' /\ PlaceOf(InLine(1))' = <<0, 0>>
  BY <1>1, <1>2, <1>3, <1>4 DEF SamePicture, PlaceOf
<1>7. FrontInv'
  BY <1>2, <1>5, <1>6, PlaceOrder DEF FrontInv
<1>8. QED
  BY <1>2, <1>7

(* No loss is ever undone, and a step without one keeps the order.         *)
LEMMA NextOrderInv ==
  ASSUME IInv, OrderInv, [Next]_vars
  PROVE  OrderInv'
<1> SUFFICES ASSUME losses' = 0 PROVE LineInv' /\ FrontInv'
  BY DEF OrderInv
<1>1. losses = 0 /\ losses' = losses
  <2>1. losses \in Nat
    BY DEF IInv, TypeOK
  <2>2. losses' = losses \/ losses' = losses + 1
    BY DEF vars, Next, DrawPicture, SendPacket, ReceiveData, ReceiveSync,
           SendColumn, Show, LetGo, Lose
  <2>3. QED
    BY <2>1, <2>2
<1>2. LineInv /\ FrontInv
  BY <1>1 DEF OrderInv
<1>3. ASSUME UNCHANGED <<socket, picture, next, Packets>>,
             column' # Listening => column # Listening
      PROVE  LineInv' /\ FrontInv'
  <2>1. Datagram' = Datagram
    BY <1>3 DEF Datagram, AtSync
  <2>2. \A i : InLine(i)' = InLine(i)
    BY <1>3, <2>1 DEF InLine
  <2>3. LineInv'
    <3> SUFFICES ASSUME NEW i \in 1 .. Len(socket)
                 PROVE  /\ DataAt(i) => PlaceOf(socket[i]) \in Panels
                        /\ PlaceOf(InLine(i + 1)') = After(PlaceOf(socket[i]))
                        /\ socket[i].type = "data" /\ InLine(i + 1)'.type = "data"
                             => InLine(i + 1)'.picture = socket[i].picture
      BY <1>3 DEF LineInv, Follows, DataAt
    <3>1. QED
      BY <1>2, <2>2 DEF LineInv, Follows
  <2>4. FrontInv'
    BY <1>2, <1>3, <2>2 DEF FrontInv, SamePicture, PlaceOf
  <2>5. QED
    BY <2>3, <2>4
<1>4. CASE SendColumn
  BY <1>3, <1>4 DEF SendColumn, hostVars
<1>5. CASE UNCHANGED vars \/ \E p \in Panels : Show(p) \/ LetGo(p)
  BY <1>3, <1>5 DEF vars, Show, LetGo, hostVars, serverVars
<1>6. CASE DrawPicture \/ SendPacket
  BY <1>1, <1>2, <1>6, DrawPictureOrder, SendPacketOrder
<1>7. CASE ReceiveData \/ ReceiveSync
  BY <1>2, <1>7, ReceiveDataOrder, ReceiveSyncOrder
<1>8. QED
  BY <1>4, <1>5, <1>6, <1>7 DEF Next

(* For every size of the wall and of the socket, and however slow the      *)
(* panels are: with nothing lost, sync_data sends one picture while the    *)
(* host sends the next (fsserver.c:75-106).                                *)
THEOREM WallOnePicture == Spec => []OnePicture
<1>1. Init => OrderInv
  BY InitIInv, InitOrderInv DEF IInv
<1>2. IInv /\ OrderInv /\ [Next]_vars => OrderInv'
  BY NextOrderInv
<1>3. OrderInv => OnePicture
  BY DEF OrderInv, FrontInv, SamePicture, OnePicture
<1>4. QED
  BY <1>1, <1>2, <1>3, WallInvariance, PTL DEF Spec

-----------------------------------------------------------------------------

(* fsserver and the wall use every panel as PanelDisplay allows: a frame   *)
(* is taken in by a panel that holds none, and let go once it is shown.    *)
THEOREM WallUsesPanels == Spec => PanelsKeepPromise
<1>1. ASSUME IInv, [Next]_vars, NEW p \in Panels
      PROVE  [Panel(p)!Next]_(Panel(p)!vars)
  <2>1. CASE held'[p] = held[p] /\ shown'[p] = shown[p]
    BY <2>1 DEF Panel!vars
  <2>2. CASE SendColumn
    <3>1. column \in 0 .. COLUMN_COUNT - 1 /\ shown' = shown
      BY <1>1, <2>2, SizesAssumption DEF IInv, TypeOK, SendColumn, Listening
    <3>2. Packets[<<column, p[2]>>] \in PacketType
      BY <1>1, <3>1, PanelsAreSlots DEF Slots, IInv, TypeOK
    <3>3. held'[p] = held[p] \/ (held[p] = None /\ held'[p] = Packets[<<column, p[2]>>])
      BY <2>2 DEF SendColumn, TakesIn
    <3>4. QED
      BY <2>1, <3>1, <3>2, <3>3 DEF Panel!Next, Panel!TakeIn, Panel!None, None
  <2>3. CASE \E q \in Panels : Show(q)
    <3>1. PICK q \in Panels : Show(q)
      BY <2>3
    <3>2. CASE q = p
      <4>1. shown'[p] = held[p] /\ held' = held
        BY <1>1, <3>1, <3>2 DEF Show, IInv, TypeOK
      <4>2. QED
        BY <3>1, <3>2, <4>1
        DEF Show, Mine, None, Panel!Next, Panel!Show, Panel!Mine, Panel!None
    <3>3. CASE q # p
      BY <1>1, <2>1, <3>1, <3>3 DEF Show, IInv, TypeOK
    <3>4. QED
      BY <3>2, <3>3
  <2>4. CASE \E q \in Panels : LetGo(q)
    <3>1. PICK q \in Panels : LetGo(q)
      BY <2>4
    <3>2. CASE q = p
      <4>1. held'[p] = None /\ shown' = shown
        BY <1>1, <3>1, <3>2 DEF LetGo, IInv, TypeOK
      <4>2. QED
        BY <3>1, <3>2, <4>1
        DEF LetGo, Mine, None, Panel!Next, Panel!LetGo, Panel!Mine, Panel!None
    <3>3. CASE q # p
      BY <1>1, <2>1, <3>1, <3>3 DEF LetGo, IInv, TypeOK
    <3>4. QED
      BY <3>2, <3>3
  <2>5. CASE UNCHANGED panelVars
    BY <2>1, <2>5 DEF panelVars
  <2>6. QED
    BY <1>1, <2>2, <2>3, <2>4, <2>5
    DEF Next, vars, DrawPicture, SendPacket, ReceiveData, ReceiveSync
<1>2. IInv /\ [Next]_vars => [\A p \in Panels : [Panel(p)!Next]_(Panel(p)!vars)]_vars
  BY <1>1
<1>3. QED
  BY <1>2, WallInvariance, PTL DEF Spec, PanelsKeepPromise

-----------------------------------------------------------------------------
(* Where the pixels end up (PixelPlacement).  The facts about coord_trans  *)
(* are stated for a point (x, y) whose y counts downwards, as in           *)
(* coord_trans after "Invert the Y coordinate".                            *)

IsDark(x, y) == \E r \in Blackout : In(x, y, r)

InTile(x, y, t) == t \in Tiles8 /\ In(x, y, Square(t.corner, 8))
InTileX(t, x) == x - t.corner[1] + t.at[1]
InTileY(t, y) == y - t.corner[2] + t.at[2]

(* The point is in bank b of the panel at column c of grid row g, and not  *)
(* on an 8x8 panel.                                                        *)
Shows(x, y, c, g, b) ==
  /\ ~IsDark(x, y)
  /\ \/ \E m \in Singles16 : In(x, y, m.rect) /\ c = m.col /\ g = m.row /\ b = m.bank
     \/ /\ \E a \in Areas16 : In(x, y, a.rect) /\ c = a.col /\ g = a.row
        /\ b = Quadrant(x, y)
     \/ /\ c = x \div 32 /\ g = y \div 32 /\ b = Quadrant(x, y)
        /\ \A m \in Singles16 : ~In(x, y, m.rect)
        /\ \A a \in Areas16 : ~In(x, y, a.rect)

(* Every panel but one stands in the grid; that one drives the 8x8 panels. *)
LEMMA ShowsRange ==
  \A x, y \in 0 .. 255 : \A c, g, b : Shows(x, y, c, g, b) =>
    /\ c \in 0 .. 7 /\ g \in 0 .. 7 /\ b \in 0 .. 3
    /\ ~(c = 0 /\ g = 7)
BY SMTT(60) DEF Shows, IsDark, Singles16, Single, Areas16, Area, In, Quadrant, Blackout

(* A point has one place among the banks ...                               *)
LEMMA ShowsFunctional ==
  \A x, y \in 0 .. 255 : \A c, g, b, c2, g2, b2 :
    Shows(x, y, c, g, b) /\ Shows(x, y, c2, g2, b2) => c = c2 /\ g = g2 /\ b = b2
BY SMTT(60) DEF Shows, IsDark, Singles16, Single, Areas16, Area, In, Quadrant, Blackout

(* ... and a bank is of one square of 16 x 16 points: no special case of   *)
(* coord_trans takes a bank that another, or the grid, uses.               *)
LEMMA ShowsOnce ==
  \A x, y, x2, y2 \in 0 .. 255 : \A c, g, b :
    /\ Shows(x, y, c, g, b) /\ Shows(x2, y2, c, g, b)
    /\ x % 16 = x2 % 16 /\ y % 16 = y2 % 16
    => x = x2 /\ y = y2
BY SMTT(60) DEF Shows, IsDark, Singles16, Single, Areas16, Area, In, Quadrant, Blackout

(* The place of a point, y counted downwards.                              *)
Where(x, y) == coord_trans(x, ROWS - y - 1)

(* An 8x8 panel stands outside the circle, so no bank shows it.            *)
LEMMA TilesAreDark ==
  \A x, y \in 0 .. 255 : \A t \in Tiles8 : InTile(x, y, t) => IsDark(x, y)
BY SMTT(60) DEF InTile, In, Square, Tiles8, Tile, IsDark, Blackout

(* coord_trans returns nothing, a place on an 8x8 panel or one in a bank.  *)
LEMMA WhereCases ==
  ASSUME NEW x \in 0 .. 255, NEW y \in 0 .. 255
  PROVE  \/ Where(x, y) = Nowhere /\ IsDark(x, y)
         \/ \E t \in Tiles8 :
              /\ InTile(x, y, t)
              /\ Where(x, y) = At(0, 7, t.bank, InTileX(t, x), InTileY(t, y))
         \/ \E c, g, b : Shows(x, y, c, g, b) /\ Where(x, y) = At(c, g, b, x, y)
<1> DEFINE tiles == { t \in Tiles8 : In(x, y, Square(t.corner, 8)) }
           singles == { m \in Singles16 : In(x, y, m.rect) }
           areas == { a \in Areas16 : In(x, y, a.rect) }
<1>0. ROWS - (ROWS - y - 1) - 1 = y  BY DEF ROWS
<1>1. CASE tiles # {}
  <2>1. PICK t : t = CHOOSE u \in tiles : TRUE  OBVIOUS
  <2>2. t \in tiles  BY <1>1, <2>1
  <2>3. Where(x, y) = At(0, 7, t.bank, InTileX(t, x), InTileY(t, y))
    BY <1>0, <1>1, <2>1 DEF Where, coord_trans, InTileX, InTileY
  <2> QED  BY <2>2, <2>3 DEF InTile
<1>2. CASE tiles = {} /\ IsDark(x, y)
  BY <1>0, <1>2 DEF Where, coord_trans, IsDark
<1>3. CASE tiles = {} /\ ~IsDark(x, y) /\ singles # {}
  <2>1. PICK m : m = CHOOSE n \in singles : TRUE  OBVIOUS
  <2>2. m \in singles  BY <1>3, <2>1
  <2>3. Where(x, y) = At(m.col, m.row, m.bank, x, y)
    BY <1>0, <1>3, <2>1, ZenonT(60) DEF Where, coord_trans, IsDark
  <2>4. Shows(x, y, m.col, m.row, m.bank)
    BY <1>3, <2>2 DEF Shows
  <2> QED  BY <2>3, <2>4
<1>4. CASE tiles = {} /\ ~IsDark(x, y) /\ singles = {} /\ areas # {}
  <2>1. PICK a : a = CHOOSE b \in areas : TRUE  OBVIOUS
  <2>2. a \in areas  BY <1>4, <2>1
  <2>3. Where(x, y) = At(a.col, a.row, Quadrant(x, y), x, y)
    BY <1>0, <1>4, <2>1, ZenonT(60) DEF Where, coord_trans, IsDark
  <2>4. Shows(x, y, a.col, a.row, Quadrant(x, y))
    BY <1>4, <2>2 DEF Shows
  <2> QED  BY <2>3, <2>4
<1>5. CASE tiles = {} /\ ~IsDark(x, y) /\ singles = {} /\ areas = {}
  <2>1. Where(x, y) = At(x \div 32, y \div 32, Quadrant(x, y), x, y)
    BY <1>0, <1>5 DEF Where, coord_trans, IsDark
  <2>2. Shows(x, y, x \div 32, y \div 32, Quadrant(x, y))
    BY <1>5 DEF Shows
  <2> QED  BY <2>1, <2>2
<1> QED  BY <1>1, <1>2, <1>3, <1>4, <1>5

(* What a place tells of the point: its panel, its bank, and where it is   *)
(* in that.                                                                *)
Places == [panel : PanelNumbers, pixel : PixelNumbers]

ColOf(w) == w.panel % 8
RowOf(w) == w.panel \div 8
BankOf(w) == w.pixel \div 256
XOf(w) == 15 - (w.pixel % 16)
YOf(w) == (w.pixel \div 16) % 16

DecodesTo(w, c, g, b, x, y) == /\ ColOf(w) = c /\ RowOf(w) = g /\ BankOf(w) = b
                               /\ XOf(w) = x % 16 /\ YOf(w) = y % 16

(* A panel of the grid, a bank and any point make a place of the wall ...  *)
LEMMA AtInRange ==
  \A c, g \in 0 .. 7 : \A b \in 0 .. 3 : \A x, y \in Int : At(c, g, b, x, y) \in Places
BY DEF At, PixelIndex, Places, PanelNumbers, PixelNumbers, PANEL_COUNT, PANEL_SIZE

(* ... that tells the panel, the bank and the place within it.             *)
LEMMA AtDecodes ==
  \A c, g \in 0 .. 7 : \A b \in 0 .. 3 : \A x, y \in Int :
    DecodesTo(At(c, g, b, x, y), c, g, b, x, y)
BY DEF At, PixelIndex, DecodesTo, ColOf, RowOf, BankOf, XOf, YOf

(* The 8x8 panels are quarters of banks ...                                *)
LEMMA TilesPlaced ==
  \A t \in Tiles8 : t.bank \in 0 .. 3 /\ t.at[1] \in {0, 8} /\ t.at[2] \in {0, 8}
BY DEF Tiles8, Tile

(* ... each a quarter of its own.                                          *)
LEMMA TilesDiffer ==
  \A t, u \in Tiles8 :
    t.bank = u.bank /\ t.at[1] = u.at[1] /\ t.at[2] = u.at[2] => t = u
BY DEF Tiles8, Tile

(* A point of an 8x8 panel is drawn within its quarter, ...                *)
LEMMA TileCoordinates ==
  \A x, y \in 0 .. 255 : \A t \in Tiles8 :
    /\ InTileX(t, x) \in Int /\ InTileY(t, y) \in Int
    /\ InTile(x, y, t) =>
         /\ InTileX(t, x) \in t.at[1] .. t.at[1] + 7
         /\ InTileY(t, y) \in t.at[2] .. t.at[2] + 7
BY DEF InTileX, InTileY, InTile, In, Square, Tiles8, Tile

(* ... two of them at two places.                                          *)
LEMMA TileCoordinatesDiffer ==
  \A v, w \in 0 .. 255 : \A t \in Tiles8 :
    /\ InTileX(t, v) = InTileX(t, w) => v = w
    /\ InTileY(t, v) = InTileY(t, w) => v = w
BY DEF InTileX, InTileY, Tiles8, Tile

(* The two halves of a bank, 8 wide, share no column.                      *)
LEMMA HalvesDiffer ==
  \A i, j \in {0, 8} : \A v \in i .. i + 7 : \A w \in j .. j + 7 :
    v % 16 = w % 16 => i = j /\ v = w
OBVIOUS

(* The place w is one the point has on an 8x8 panel, or in a bank.         *)
OnTile(x, y, t, w) == /\ InTile(x, y, t)
                      /\ DecodesTo(w, 0, 7, t.bank, InTileX(t, x), InTileY(t, y))

OnGrid(x, y, w) == /\ Shows(x, y, ColOf(w), RowOf(w), BankOf(w))
                   /\ XOf(w) = x % 16 /\ YOf(w) = y % 16

(* Two points of 8x8 panels have two places.                               *)
LEMMA TilesOnce ==
  ASSUME NEW x \in 0 .. 255, NEW y \in 0 .. 255, NEW x2 \in 0 .. 255, NEW y2 \in 0 .. 255,
         NEW w, NEW t \in Tiles8, NEW u \in Tiles8, OnTile(x, y, t, w), OnTile(x2, y2, u, w)
  PROVE  x = x2 /\ y = y2
<1>0. /\ t.at[1] \in {0, 8} /\ t.at[2] \in {0, 8} /\ u.at[1] \in {0, 8} /\ u.at[2] \in {0, 8}
  BY TilesPlaced, Zenon
<1>1. /\ InTileX(t, x) \in t.at[1] .. t.at[1] + 7 /\ InTileY(t, y) \in t.at[2] .. t.at[2] + 7
      /\ InTileX(u, x2) \in u.at[1] .. u.at[1] + 7 /\ InTileY(u, y2) \in u.at[2] .. u.at[2] + 7
  BY TileCoordinates, Zenon DEF OnTile
<1>2. /\ t.bank = u.bank
      /\ InTileX(t, x) % 16 = InTileX(u, x2) % 16
      /\ InTileY(t, y) % 16 = InTileY(u, y2) % 16
  BY Zenon DEF OnTile, DecodesTo
<1>3. t.at[1] = u.at[1] /\ InTileX(t, x) = InTileX(u, x2)
  BY <1>0, <1>1, <1>2, HalvesDiffer, Zenon
<1>4. t.at[2] = u.at[2] /\ InTileY(t, y) = InTileY(u, y2)
  BY <1>0, <1>1, <1>2, HalvesDiffer, ZenonT(60)
<1>5. t = u  BY <1>2, <1>3, <1>4, TilesDiffer, Zenon
<1> QED  BY <1>3, <1>4, <1>5, TileCoordinatesDiffer, Zenon

(* What coord_trans returns for a point of an 8x8 panel ...                *)
LEMMA TilePlace ==
  ASSUME NEW x \in 0 .. 255, NEW y \in 0 .. 255, NEW t \in Tiles8, InTile(x, y, t)
  PROVE  LET w == At(0, 7, t.bank, InTileX(t, x), InTileY(t, y))
         IN  w \in Places /\ OnTile(x, y, t, w)
<1> DEFINE w == At(0, 7, t.bank, InTileX(t, x), InTileY(t, y))
<1>1. InTileX(t, x) \in Int /\ InTileY(t, y) \in Int  BY TileCoordinates, Zenon
<1>2. t.bank \in 0 .. 3  BY TilesPlaced, Zenon
<1>3. 0 \in 0 .. 7 /\ 7 \in 0 .. 7  OBVIOUS
<1>4. w \in Places  BY <1>1, <1>2, <1>3, AtInRange, Zenon
<1>5. DecodesTo(w, 0, 7, t.bank, InTileX(t, x), InTileY(t, y))
  BY <1>1, <1>2, <1>3, AtDecodes, Zenon
<1> QED  BY <1>4, <1>5, Zenon DEF OnTile

(* ... and of a bank.                                                      *)
LEMMA GridPlace ==
  ASSUME NEW x \in 0 .. 255, NEW y \in 0 .. 255, NEW c, NEW g, NEW b, Shows(x, y, c, g, b)
  PROVE  At(c, g, b, x, y) \in Places /\ OnGrid(x, y, At(c, g, b, x, y))
<1> DEFINE w == At(c, g, b, x, y)
<1>1. c \in 0 .. 7 /\ g \in 0 .. 7 /\ b \in 0 .. 3  BY ShowsRange, Zenon
<1>2. x \in Int /\ y \in Int  OBVIOUS
<1>3. w \in Places  BY <1>1, <1>2, AtInRange, Zenon
<1>4. DecodesTo(w, c, g, b, x, y)  BY <1>1, <1>2, AtDecodes, Zenon
<1> QED  BY <1>3, <1>4, Zenon DEF OnGrid, DecodesTo

(* A point with an LED has one of the wall's, on an 8x8 panel or in a bank. *)
LEMMA WhereDecodes ==
  ASSUME NEW x \in 0 .. 255, NEW y \in 0 .. 255, Where(x, y) # Nowhere
  PROVE  /\ Where(x, y) \in Places
         /\ OnGrid(x, y, Where(x, y)) \/ \E t \in Tiles8 : OnTile(x, y, t, Where(x, y))
<1>1. ASSUME NEW t \in Tiles8, InTile(x, y, t),
             Where(x, y) = At(0, 7, t.bank, InTileX(t, x), InTileY(t, y))
      PROVE  Where(x, y) \in Places /\ OnTile(x, y, t, Where(x, y))
  BY <1>1, TilePlace
<1>2. ASSUME NEW c, NEW g, NEW b, Shows(x, y, c, g, b), Where(x, y) = At(c, g, b, x, y)
      PROVE  Where(x, y) \in Places /\ OnGrid(x, y, Where(x, y))
  BY <1>2, GridPlace
<1> QED  BY <1>1, <1>2, WhereCases, Zenon

SamePlace(x, y, x2, y2) == Where(x, y) # Nowhere /\ Where(x, y) = Where(x2, y2)

(* No two points share an LED.                                             *)
LEMMA WhereInjective ==
  \A x, y, x2, y2 \in 0 .. 255 :
    SamePlace(x, y, x2, y2) => x = x2 /\ y = y2
<1> SUFFICES ASSUME NEW x \in 0 .. 255, NEW y \in 0 .. 255,
                    NEW x2 \in 0 .. 255, NEW y2 \in 0 .. 255,
                    SamePlace(x, y, x2, y2)
             PROVE  x = x2 /\ y = y2
  BY Zenon
<1> PICK w : w = Where(x, y)  OBVIOUS
<1>1. OnGrid(x, y, w) \/ \E t \in Tiles8 : OnTile(x, y, t, w)
  BY WhereDecodes, Zenon DEF SamePlace
<1>2. OnGrid(x2, y2, w) \/ \E t \in Tiles8 : OnTile(x2, y2, t, w)
  BY WhereDecodes, Zenon DEF SamePlace
<1>3. CASE OnGrid(x, y, w) /\ OnGrid(x2, y2, w)
  BY <1>3, ShowsOnce, ZenonT(60) DEF OnGrid
<1>4. ASSUME NEW t \in Tiles8, NEW a \in 0 .. 255, NEW b \in 0 .. 255,
             NEW a2 \in 0 .. 255, NEW b2 \in 0 .. 255,
             OnTile(a, b, t, w), OnGrid(a2, b2, w)
      PROVE  FALSE
  BY <1>4, ShowsRange, ZenonT(60) DEF OnTile, OnGrid, DecodesTo
<1>5. CASE \E t \in Tiles8 : OnTile(x, y, t, w)
  BY <1>2, <1>4, <1>5, TilesOnce, ZenonT(60)
<1>6. CASE \E t \in Tiles8 : OnTile(x2, y2, t, w)
  BY <1>1, <1>4, <1>6, TilesOnce, ZenonT(60)
<1> QED  BY <1>1, <1>2, <1>3, <1>5, <1>6

(* A bank shows a whole square: where a single stands ...                  *)
LEMMA SingleShown ==
  \A m \in Singles16 : \A u, v \in 0 .. 15 :
    Shows(m.rect[1] + u, m.rect[3] + v, m.col, m.row, m.bank)
BY SMTT(60) DEF Shows, IsDark, Singles16, Single, In, Blackout

(* ... or else where the bank is in the area of its panel.                 *)
CornerX(a, b) == a.rect[1] + (IF b \in {1, 3} THEN 0 ELSE 16)
CornerY(a, b) == a.rect[3] + (IF b \in {2, 3} THEN 0 ELSE 16)
BankAt(x, y, b) == /\ x % 32 = (IF b \in {1, 3} THEN 0 ELSE 16)
                   /\ y % 32 = (IF b \in {2, 3} THEN 0 ELSE 16)
InBank(x, y, b) == Quadrant(x, y) = b
Replaced(a, b) == \E m \in Singles16 : m.col = a.col /\ m.row = a.row /\ m.bank = b

(* The corner of a bank is a multiple of 16, inside the area.              *)
LEMMA CornersPlaced ==
  \A a \in Areas16 : \A b \in 0 .. 3 :
    /\ CornerX(a, b) \in 0 .. 240 /\ CornerY(a, b) \in 0 .. 240
    /\ BankAt(CornerX(a, b), CornerY(a, b), b)
    /\ CornerX(a, b) % 16 = 0 /\ CornerY(a, b) % 16 = 0
    /\ \A k \in 1 .. 4 : a.rect[k] \in 0 .. 256
    /\ a.rect[1] <= CornerX(a, b) /\ CornerX(a, b) + 16 <= a.rect[2]
    /\ a.rect[3] <= CornerY(a, b) /\ CornerY(a, b) + 16 <= a.rect[4]
BY SMTT(60) DEF Areas16, Area, CornerX, CornerY, BankAt

(* The 16 x 16 points from the corner on are of that bank.                 *)
LEMMA QuadrantOfCorner ==
  \A x, y \in 0 .. 240 : \A b \in 0 .. 3 : \A u, v \in 0 .. 15 :
    BankAt(x, y, b) => InBank(x + u, y + v, b)
BY SMTT(60) DEF Quadrant, BankAt, InBank

(* They are inside every rectangle that holds their square.                *)
LEMMA SquareInRectangle ==
  \A x, y \in 0 .. 240 : \A u, v \in 0 .. 15 : \A r :
    /\ \A k \in 1 .. 4 : r[k] \in 0 .. 256
    /\ r[1] <= x /\ x + 16 <= r[2] /\ r[3] <= y /\ y + 16 <= r[4]
    => In(x + u, y + v, r)
BY SMTT(60) DEF In

(* The edges outside the circle are made of squares, and only the bank     *)
(* that a single takes is one.                                             *)
LEMMA DarkSquares ==
  \A x, y \in 0 .. 240 : \A u, v \in 0 .. 15 :
    x % 16 = 0 /\ y % 16 = 0 /\ IsDark(x + u, y + v) => IsDark(x, y)
BY SMTT(60) DEF IsDark, In, Blackout

(* ... so the corner of a bank no single replaces is lit.                  *)
LEMMA CornersLit ==
  \A a \in Areas16 : \A b \in 0 .. 3 :
    ~Replaced(a, b) => ~IsDark(CornerX(a, b), CornerY(a, b))
BY SMTT(60) DEF IsDark, Singles16, Single, Areas16, Area, In, Blackout, CornerX, CornerY, Replaced

(* A bank no single replaces shows the square in its area.                 *)
LEMMA AreaShown ==
  ASSUME NEW a \in Areas16, NEW b \in 0 .. 3, ~Replaced(a, b), NEW u \in 0 .. 15, NEW v \in 0 .. 15
  PROVE  Shows(CornerX(a, b) + u, CornerY(a, b) + v, a.col, a.row, b)
<1> PICK x : x = CornerX(a, b)  OBVIOUS
<1> PICK y : y = CornerY(a, b)  OBVIOUS
<1> PICK r : r = a.rect  OBVIOUS
<1>1. /\ x \in 0 .. 240 /\ y \in 0 .. 240 /\ \A k \in 1 .. 4 : r[k] \in 0 .. 256
      /\ BankAt(x, y, b) /\ x % 16 = 0 /\ y % 16 = 0
      /\ r[1] <= x /\ x + 16 <= r[2] /\ r[3] <= y /\ y + 16 <= r[4]
  BY CornersPlaced, ZenonT(60)
<1>2. InBank(x + u, y + v, b)  BY <1>1, QuadrantOfCorner, Zenon
<1>3. In(x + u, y + v, r)  BY <1>1, SquareInRectangle, Zenon
<1>4. ~IsDark(x, y)  BY CornersLit, Zenon
<1>5. ~IsDark(x + u, y + v)  BY <1>1, <1>4, DarkSquares, Zenon
<1> QED  BY <1>2, <1>3, <1>5, Zenon DEF Shows, InBank

(* Either way the square is a 16x16 panel of LedPanel's, upside down.      *)
LEMMA SingleIsPanel16 ==
  \A m \in Singles16 : <<m.rect[1], 240 - m.rect[3]>> \in panel16
BY SMTT(60) DEF Singles16, Single, panel16

(* ... as for a bank in an area.                                           *)
LEMMA AreaIsPanel16 ==
  \A a \in Areas16 : \A b \in 0 .. 3 :
    ~Replaced(a, b) => <<CornerX(a, b), 240 - CornerY(a, b)>> \in panel16
BY SMTT(60) DEF Singles16, Single, Areas16, Area, panel16, CornerX, CornerY, Replaced

(* The corners of the 16x16 panels leave room for them.                    *)
LEMMA Panel16InRange == \A q \in panel16 : q[1] \in 0 .. 240 /\ q[2] \in 0 .. 240
BY DEF panel16

(* Each bank of a panel that drives 16x16 panels shows one of them whole.  *)
LEMMA BankIsPanel16 ==
  ASSUME NEW a \in Areas16, NEW b \in 0 .. 3
  PROVE  \E q \in panel16 : \A u, v \in 0 .. 15 :
           Shows(q[1] + u, 240 - q[2] + v, a.col, a.row, b)
<1>1. CASE Replaced(a, b)
  <2>1. PICK m \in Singles16 : m.col = a.col /\ m.row = a.row /\ m.bank = b
    BY <1>1 DEF Replaced
  <2> PICK i : i = m.rect[1]  OBVIOUS
  <2> PICK j : j = m.rect[3]  OBVIOUS
  <2>2. <<i, 240 - j>> \in panel16  BY SingleIsPanel16, Zenon
  <2>3. \A u, v \in 0 .. 15 : Shows(i + u, j + v, a.col, a.row, b)
    BY <2>1, SingleShown, Zenon
  <2>4. j \in Int  BY DEF Singles16, Single
  <2>5. 240 - (240 - j) = j  BY <2>4
  <2> PICK k : k = 240 - j  OBVIOUS
  <2>6. 240 - k = j  BY <2>5
  <2> PICK q : q = <<i, k>>  OBVIOUS
  <2>7. q[1] = i /\ q[2] = k  OBVIOUS
  <2>8. q \in panel16  BY <2>2, Zenon
  <2>9. 240 - q[2] = j  BY <2>6, <2>7
  <2>10. \A u, v \in 0 .. 15 : Shows(q[1] + u, 240 - q[2] + v, a.col, a.row, b)
    BY <2>3, <2>7, <2>9, Zenon
  <2> QED  BY <2>8, <2>10, ZenonT(60)
<1>2. CASE ~Replaced(a, b)
  <2> PICK i : i = CornerX(a, b)  OBVIOUS
  <2> PICK j : j = CornerY(a, b)  OBVIOUS
  <2>2. <<i, 240 - j>> \in panel16  BY <1>2, AreaIsPanel16, Zenon
  <2>3. \A u, v \in 0 .. 15 : Shows(i + u, j + v, a.col, a.row, b)
    BY <1>2, AreaShown, Zenon
  <2>4. j \in 0 .. 240  BY CornersPlaced, Zenon
  <2>5. 240 - (240 - j) = j  BY <2>4
  <2> PICK k : k = 240 - j  OBVIOUS
  <2>6. 240 - k = j  BY <2>5
  <2> PICK q : q = <<i, k>>  OBVIOUS
  <2>7. q[1] = i /\ q[2] = k  OBVIOUS
  <2>8. q \in panel16  BY <2>2, Zenon
  <2>9. 240 - q[2] = j  BY <2>6, <2>7
  <2>10. \A u, v \in 0 .. 15 : Shows(q[1] + u, 240 - q[2] + v, a.col, a.row, b)
    BY <2>3, <2>7, <2>9
  <2> QED  BY <2>8, <2>10, ZenonT(60)
<1> QED  BY <1>1, <1>2

(* coord_trans and ledTable agree on every point: it is on a panel that    *)
(* drives 16x16 panels exactly when ledTable dims it.                      *)
LEMMA SmallPanelNumbers == \A p : p \in SmallPanels <=> p \in {8, 15, 16, 23, 40, 47, 48, 55}
BY DEF SmallPanels, Areas16, Area

(* In the banks: the panel drives 16x16 panels iff LedPanel has one there. *)
LEMMA ShowsDims ==
  \A x, y \in 0 .. 255 : \A c, g, b :
    Shows(x, y, c, g, b) => (g * 8 + c \in SmallPanels <=> Is16x16(x, 255 - y))
BY SMTT(60), SmallPanelNumbers
   DEF Shows, IsDark, Singles16, Single, Areas16, Area, In, Quadrant, Blackout, Is16x16, panel16, Square

(* No 8x8 panel of coord_trans is on a 16x16 panel of LedPanel's.          *)
LEMMA TilesNotDim ==
  \A x, y \in 0 .. 255 : \A t \in Tiles8 : InTile(x, y, t) => ~Is16x16(x, 255 - y)
BY SMTT(60) DEF InTile, Tiles8, Tile, In, Is16x16, panel16, Square

(* Both, by the place of the point.                                        *)
LEMMA WhereDims ==
  ASSUME NEW x \in 0 .. 255, NEW y \in 0 .. 255, NEW w, w = Where(x, y), w # Nowhere
  PROVE  w.panel \in SmallPanels <=> Is16x16(x, 255 - y)
<1>1. w \in Places  BY WhereDecodes, Zenon
<1>2. w.panel = RowOf(w) * 8 + ColOf(w)
  BY <1>1 DEF Places, PanelNumbers, PANEL_COUNT, RowOf, ColOf
<1>3. CASE OnGrid(x, y, w)
  BY <1>2, <1>3, ShowsDims, ZenonT(60) DEF OnGrid
<1>4. ASSUME NEW t \in Tiles8, OnTile(x, y, t, w)
      PROVE  w.panel \notin SmallPanels /\ ~Is16x16(x, 255 - y)
  <2>1. RowOf(w) = 7 /\ ColOf(w) = 0  BY <1>4, Zenon DEF OnTile, DecodesTo
  <2>2. w.panel = 56  BY <1>2, <2>1
  <2>3. w.panel \notin SmallPanels  BY <2>2, SmallPanelNumbers
  <2>4. ~Is16x16(x, 255 - y)  BY <1>4, TilesNotDim, Zenon DEF OnTile
  <2> QED  BY <2>3, <2>4
<1>5. OnGrid(x, y, w) \/ \E t \in Tiles8 : OnTile(x, y, t, w)
  BY WhereDecodes, Zenon
<1> QED  BY <1>3, <1>4, <1>5, Zenon

(* What the banks show is where coord_trans puts it.                       *)
LEMMA ShownIsWhere ==
  ASSUME NEW x \in 0 .. 255, NEW y \in 0 .. 255, NEW c, NEW g, NEW b, Shows(x, y, c, g, b)
  PROVE  Where(x, y) = At(c, g, b, x, y)
<1>1. ~IsDark(x, y)  BY Zenon DEF Shows
<1>2. ~\E t \in Tiles8 : InTile(x, y, t)  BY <1>1, TilesAreDark, Zenon
<1> QED  BY <1>1, <1>2, WhereCases, ShowsFunctional, Zenon

-----------------------------------------------------------------------------
(* The tables.                                                             *)
LEMMA PointsCounted ==
  /\ X = 0 .. 255 /\ Y = 0 .. 255
  /\ \A r \in 0 .. 255 : 255 - r \in 0 .. 255 /\ 255 - (255 - r) = r
BY DEF X, Y, COLS, ROWS

(* The table of the constructor, rows counted upwards.                     *)
LEMMA XlateIsWhere ==
  \A c, r \in 0 .. 255 : xlate[<<c, r>>] = Where(c, 255 - r)
<1> SUFFICES ASSUME NEW c \in 0 .. 255, NEW r \in 0 .. 255
             PROVE  xlate[<<c, r>>] = Where(c, 255 - r)
  BY Zenon
<1> PICK s : s = ROWS - (255 - r) - 1  OBVIOUS
<1>1. s = r  BY DEF ROWS
<1>2. xlate[<<c, r>>] = coord_trans(c, r)  BY PointsCounted DEF xlate
<1>3. Where(c, 255 - r) = coord_trans(c, s)  BY DEF Where
<1> QED  BY <1>1, <1>2, <1>3, Zenon

(* A point that has an LED has one of the wall's ...                       *)
LEMMA XlateInRange ==
  \A c, r \in 0 .. 255 : xlate[<<c, r>>] # Nowhere => xlate[<<c, r>>] \in Places
<1> SUFFICES ASSUME NEW c \in 0 .. 255, NEW r \in 0 .. 255, xlate[<<c, r>>] # Nowhere
             PROVE  xlate[<<c, r>>] \in Places
  BY Zenon
<1> PICK y : y = 255 - r  OBVIOUS
<1>1. y \in 0 .. 255  OBVIOUS
<1>2. xlate[<<c, r>>] = Where(c, y)  BY XlateIsWhere, Zenon
<1>3. Where(c, y) # Nowhere  BY <1>2
<1>4. Where(c, y) \in Places  BY <1>1, <1>3, WhereDecodes, Zenon
<1> QED  BY <1>2, <1>4, Zenon

(* ... and for itself.                                                     *)
SameLed(c, r, c2, r2) == xlate[<<c, r>>] # Nowhere /\ xlate[<<c, r>>] = xlate[<<c2, r2>>]

(* No two points share an LED, by the table.                               *)
LEMMA XlateInjective ==
  \A c, r, c2, r2 \in 0 .. 255 : SameLed(c, r, c2, r2) => c = c2 /\ r = r2
<1> SUFFICES ASSUME NEW c \in 0 .. 255, NEW r \in 0 .. 255,
                    NEW c2 \in 0 .. 255, NEW r2 \in 0 .. 255, SameLed(c, r, c2, r2)
             PROVE  c = c2 /\ r = r2
  BY Zenon
<1> PICK y : y = 255 - r  OBVIOUS
<1> PICK y2 : y2 = 255 - r2  OBVIOUS
<1>1. y \in 0 .. 255 /\ y2 \in 0 .. 255 /\ (y = y2 => r = r2)  OBVIOUS
<1>2. xlate[<<c, r>>] = Where(c, y) /\ xlate[<<c2, r2>>] = Where(c2, y2)
  BY XlateIsWhere, ZenonT(60)
<1>3. SamePlace(c, y, c2, y2)  BY <1>2 DEF SamePlace, SameLed
<1>4. c = c2 /\ y = y2  BY <1>1, <1>3, WhereInjective, ZenonT(60)
<1> QED  BY <1>1, <1>4

(* ledTable dims the points of the panels that drive 16x16 panels.         *)
LEMMA XlateDims ==
  ASSUME NEW c \in 0 .. 255, NEW r \in 0 .. 255, NEW w, w = xlate[<<c, r>>], w # Nowhere
  PROVE  w.panel \in SmallPanels <=> Is16x16(c, r)
<1> PICK y : y = 255 - r  OBVIOUS
<1>1. y \in 0 .. 255 /\ 255 - y = r  OBVIOUS
<1>2. w = Where(c, y)  BY XlateIsWhere, Zenon
<1>3. w.panel \in SmallPanels <=> Is16x16(c, 255 - y)  BY <1>1, <1>2, WhereDims, ZenonT(60)
<1> QED  BY <1>1, <1>3, Zenon

(* The squares of the 16x16 panels do not overlap, ...                     *)
LEMMA Panel16Disjoint ==
  \A x, y \in 0 .. 255 : \A p, q \in panel16 :
    In(x, y, Square(p, 16)) /\ In(x, y, Square(q, 16)) => p = q
BY SMTT(60) DEF In, panel16, Square

(* ... so that ledTable's entry is the one of the square a point is in,    *)
(* transposed within it.                                                   *)
LEMMA EntryOfPanel16 ==
  ASSUME NEW x \in 0 .. 255, NEW y \in 0 .. 255, NEW q \in panel16, In(x, y, Square(q, 16))
  PROVE  /\ Is16x16(x, y)
         /\ LedTableEntry(x, y) = [x |-> q[1] + (y - q[2]), y |-> q[2] + (x - q[1]), scale |-> 30]
<1> PICK p : p = CHOOSE q2 \in panel16 : In(x, y, Square(q2, 16))  OBVIOUS
<1>1. p \in panel16 /\ In(x, y, Square(p, 16))  BY Zenon
<1>2. p = q  BY <1>1, Panel16Disjoint, Zenon
<1>3. Is16x16(x, y)  BY DEF Is16x16
<1> QED  BY <1>2, <1>3 DEF LedTableEntry

Transposes(i, j, x, y) ==
  /\ i + (y - j) \in 0 .. 255 /\ j + (x - i) \in 0 .. 255
  /\ In(i + (y - j), j + (x - i), <<i, i + 16, j, j + 16>>)

(* A square is transposed onto itself.                                     *)
LEMMA Transposition ==
  \A i, j \in 0 .. 240 : \A x, y \in 0 .. 255 :
    In(x, y, <<i, i + 16, j, j + 16>>) => Transposes(i, j, x, y)
BY DEF In, Transposes

(* What ledTable reads for a point of a 16x16 panel is on that panel.      *)
LEMMA TransposedInside ==
  ASSUME NEW x \in 0 .. 255, NEW y \in 0 .. 255, NEW q \in panel16, In(x, y, Square(q, 16))
  PROVE  /\ q[1] + (y - q[2]) \in 0 .. 255 /\ q[2] + (x - q[1]) \in 0 .. 255
         /\ In(q[1] + (y - q[2]), q[2] + (x - q[1]), Square(q, 16))
<1>1. q[1] \in 0 .. 240 /\ q[2] \in 0 .. 240  BY Panel16InRange, Zenon
<1>2. Square(q, 16) = <<q[1], q[1] + 16, q[2], q[2] + 16>>  BY Zenon DEF Square
<1> PICK i : i = q[1]  OBVIOUS
<1> PICK j : j = q[2]  OBVIOUS
<1>3. Transposes(i, j, x, y)  BY <1>1, <1>2, Transposition, Zenon
<1> QED  BY <1>2, <1>3, Zenon DEF Transposes

Entries == [x : X, y : Y, scale : {0, 30, 100}]

(* An entry is an element of led and a scale, 30 on the 16x16 panels only. *)
LEMMA EntryTyped ==
  ASSUME NEW x \in X, NEW y \in Y
  PROVE  /\ LedTableEntry(x, y) \in Entries
         /\ LedTableEntry(x, y).scale = 30 <=> Is16x16(x, y)
<1>0. x \in 0 .. 255 /\ y \in 0 .. 255 /\ 0 \in X /\ 0 \in Y
  BY PointsCounted
<1>1. CASE Is16x16(x, y)
  <2>1. PICK q \in panel16 : In(x, y, Square(q, 16))  BY <1>1 DEF Is16x16
  <2> PICK i : i = q[1] + (y - q[2])  OBVIOUS
  <2> PICK j : j = q[2] + (x - q[1])  OBVIOUS
  <2>2. i \in 0 .. 255 /\ j \in 0 .. 255  BY <1>0, <2>1, TransposedInside, Zenon
  <2>3. LedTableEntry(x, y) = [x |-> i, y |-> j, scale |-> 30]
    BY <1>0, <2>1, EntryOfPanel16, Zenon
  <2> QED  BY <1>1, <2>2, <2>3, PointsCounted DEF Entries
<1>2. CASE ~Is16x16(x, y)
  BY <1>0, <1>2 DEF LedTableEntry, Entries
<1> QED  BY <1>1, <1>2

-----------------------------------------------------------------------------
(* A band of rows.                                                         *)
PlaceAt(p, i) == [panel |-> p, pixel |-> i]

(* The point (c, r) has its LED at pixel i of panel p.                     *)
Lit(c, r, p, i) == xlate[<<c, r>>] = PlaceAt(p, i)

(* A pixel shows one point.                                                *)
LEMMA LitOnce ==
  ASSUME NEW c \in 0 .. 255, NEW r \in 0 .. 255, NEW c2 \in 0 .. 255, NEW r2 \in 0 .. 255,
         NEW p \in PanelNumbers, NEW i \in PixelNumbers, Lit(c, r, p, i), Lit(c2, r2, p, i)
  PROVE  c = c2 /\ r = r2
<1>1. PlaceAt(p, i) # Nowhere  BY DEF PlaceAt, Nowhere, PanelNumbers
<1>2. SameLed(c, r, c2, r2)  BY <1>1 DEF Lit, SameLed
<1> QED  BY <1>2, XlateInjective, Zenon

(* The byte of the point in the picture pic.                               *)
DrawnByte(pic, c, r) ==
  LET e == ledTable[<<c, r>>]
  IN  IF e.scale = 0 THEN Off ELSE <<pic, e.x, e.y, e.scale>>

(* Pixel is the byte in the picture being drawn.                           *)
LEMMA PixelIsDrawn == \A c, r : Pixel(c, r) = DrawnByte(image, c, r)
BY DEF Pixel, DrawnByte

(* A byte drawn is a byte, dimmed on the 16x16 panels only.                *)
LEMMA DrawnTyped ==
  ASSUME NEW pic \in 1 .. Pictures, NEW c \in 0 .. 255, NEW r \in 0 .. 255
  PROVE  /\ DrawnByte(pic, c, r) \in Byte
         /\ DrawnByte(pic, c, r)[4] = 30 <=> Is16x16(c, r)
<1> PICK e : e = LedTableEntry(c, r)  OBVIOUS
<1>0. 0 \in 0 .. Pictures /\ pic \in 0 .. Pictures /\ 0 \in X /\ 0 \in Y
  <2>1. 0 \in 0 .. Pictures /\ pic \in 0 .. Pictures  BY PicturesAssumption
  <2>2. 0 \in X /\ 0 \in Y  BY PointsCounted
  <2> QED  BY <2>1, <2>2
<1>1. c \in X /\ r \in Y  BY PointsCounted, Zenon
<1>2. e \in Entries /\ (e.scale = 30 <=> Is16x16(c, r))
  <2>1. LedTableEntry(c, r) \in Entries /\ (LedTableEntry(c, r).scale = 30 <=> Is16x16(c, r))
    BY <1>1, EntryTyped
  <2> QED  BY <2>1, Zenon
<1>3. ledTable[<<c, r>>] = e  BY <1>1 DEF ledTable
<1>4. DrawnByte(pic, c, r) = IF e.scale = 0 THEN Off ELSE <<pic, e.x, e.y, e.scale>>
  BY <1>3, Zenon DEF DrawnByte
<1>5. CASE e.scale = 0
  BY <1>0, <1>2, <1>4, <1>5 DEF Byte, Off
<1>6. CASE e.scale # 0
  BY <1>0, <1>2, <1>4, <1>6 DEF Byte, Entries
<1> QED  BY <1>5, <1>6

(* What is set last stays; when each pixel is set once, that is it.        *)
LEMMA WrittenDomain ==
  ASSUME NEW bytes, NEW writes
  PROVE  DOMAIN Written(bytes, writes) = DOMAIN bytes
BY DEF Written

(* ... a byte that is written is what was written, the others stay.        *)
LEMMA WrittenBytes ==
  ASSUME NEW bytes, NEW writes, NEW i \in DOMAIN bytes,
         \A v, w \in writes : v.at.pixel = w.at.pixel => v = w,
         \A w \in writes : w.n \in Int
  PROVE  /\ \A w \in writes : w.at.pixel = i => Written(bytes, writes)[i] = w.byte
         /\ (\A w \in writes : w.at.pixel # i) => Written(bytes, writes)[i] = bytes[i]
<1> DEFINE pixels == { w.at.pixel : w \in writes }
           IsLast(w) == w.at.pixel = i /\ \A v \in writes : v.at.pixel = i => v.n <= w.n
<1>1. ASSUME NEW w \in writes, w.at.pixel = i
      PROVE  Written(bytes, writes)[i] = w.byte
  <2>1. IsLast(w)
    <3> SUFFICES ASSUME NEW v \in writes, v.at.pixel = i PROVE v.n <= w.n
      BY <1>1
    <3>1. v = w  BY <1>1
    <3>2. w.n \in Int  OBVIOUS
    <3> QED  BY <3>1, <3>2
  <2>2. PICK last : last = CHOOSE u \in writes : IsLast(u)  OBVIOUS
  <2>3. last \in writes /\ last.at.pixel = i  BY <2>1, <2>2
  <2>4. last = w  BY <1>1, <2>3
  <2>5. i \in pixels /\ writes # {}  BY <1>1
  <2>6. Written(bytes, writes)[i] = last.byte  BY <2>2, <2>5, Zenon DEF Written
  <2> QED  BY <2>4, <2>6
<1>2. ASSUME \A w \in writes : w.at.pixel # i
      PROVE  Written(bytes, writes)[i] = bytes[i]
  <2>1. i \notin pixels  BY <1>2
  <2> QED  BY <2>1, Zenon DEF Written
<1> QED  BY <1>1, <1>2

(* The call of setPixel for the point (c, r).                              *)
WriteOf(c, r) == [at |-> xlate[<<c, r>>], n |-> r * COLS + c, byte |-> Pixel(c, r)]

Bands == { 16 * k : k \in 0 .. 15 }

(* A band ends at another, or at the last row.                             *)
LEMMA BandInRange ==
  \A first \in Bands : first \in 0 .. 240 /\ first + BAND \in Bands \union {ROWS}
BY DEF Bands, BAND, ROWS

(* The rows of a band are rows of the picture.                             *)
LEMMA RowsOfBand == \A first \in Bands : \A r \in first .. first + 15 : r \in 0 .. 255
BY DEF Bands

(* The last row of a band.                                                 *)
LEMMA EndOfBand == \A first \in Bands : first + BAND - 1 = first + 15
BY DEF Bands, BAND

(* The calls of a band that concern an LED, by their points.               *)
LEMMA WritesOfBand ==
  ASSUME NEW first \in Bands
  PROVE  \A w : w \in Writes(first) <=>
           \E c \in 0 .. 255 : \E r \in first .. first + 15 :
             w = WriteOf(c, r) /\ xlate[<<c, r>>] # Nowhere
<1> DEFINE all == { WriteOf(c, r) : c \in X, r \in first .. first + BAND - 1 }
<1>1. Writes(first) = { w \in all : w.at # Nowhere }  BY DEF Writes, WriteOf
<1>2. \A w : w \in all <=> \E c \in X : \E r \in first .. first + BAND - 1 : w = WriteOf(c, r)
  OBVIOUS
<1>3. \A c, r : WriteOf(c, r).at = xlate[<<c, r>>]  BY DEF WriteOf
<1>4. X = 0 .. 255 /\ first + BAND - 1 = first + 15  BY PointsCounted, EndOfBand, Zenon
<1> HIDE DEF all
<1>5. \A w : w \in Writes(first) <=> w \in all /\ w.at # Nowhere  BY <1>1
<1>6. \A w : w \in all <=> \E c \in 0 .. 255 : \E r \in first .. first + 15 : w = WriteOf(c, r)
  BY <1>2, <1>4, ZenonT(60)
<1>7. ASSUME NEW c, NEW r, NEW w, w = WriteOf(c, r)
      PROVE  w.at # Nowhere <=> xlate[<<c, r>>] # Nowhere
  BY <1>3, <1>7
<1>8. ASSUME NEW w \in Writes(first)
      PROVE  \E c \in 0 .. 255 : \E r \in first .. first + 15 :
               w = WriteOf(c, r) /\ xlate[<<c, r>>] # Nowhere
  <2>1. w \in all /\ w.at # Nowhere  BY <1>5, <1>8, Zenon
  <2>2. PICK c \in 0 .. 255, r \in first .. first + 15 : w = WriteOf(c, r)
    BY <1>6, <2>1, Zenon
  <2>3. xlate[<<c, r>>] # Nowhere  BY <1>7, <2>1, <2>2, Zenon
  <2> QED  BY <2>2, <2>3, Zenon
<1>9. ASSUME NEW w, NEW c \in 0 .. 255, NEW r \in first .. first + 15,
             w = WriteOf(c, r) /\ xlate[<<c, r>>] # Nowhere
      PROVE  w \in Writes(first)
  <2>1. w \in all  BY <1>6, <1>9, Zenon
  <2>2. w.at # Nowhere  BY <1>7, <1>9, Zenon
  <2> QED  BY <1>5, <2>1, <2>2, Zenon
<1> QED  BY <1>8, <1>9, Zenon

(* A band sets an LED at most once.                                        *)
LEMMA WritesOnce ==
  ASSUME NEW first \in Bands, NEW v \in Writes(first), NEW w \in Writes(first), v.at = w.at
  PROVE  v = w
<1>1. PICK c \in 0 .. 255, r \in first .. first + 15 :
        v = WriteOf(c, r) /\ xlate[<<c, r>>] # Nowhere
  BY WritesOfBand, Zenon
<1>2. PICK c2 \in 0 .. 255, r2 \in first .. first + 15 :
        w = WriteOf(c2, r2) /\ xlate[<<c2, r2>>] # Nowhere
  BY WritesOfBand, Zenon
<1>3. SameLed(c, r, c2, r2)  BY <1>1, <1>2 DEF WriteOf, SameLed
<1>4. r \in 0 .. 255 /\ r2 \in 0 .. 255  BY RowsOfBand, Zenon
<1>5. c = c2 /\ r = r2  BY <1>3, <1>4, XlateInjective, Zenon
<1> QED  BY <1>1, <1>2, <1>5, Zenon

(* Every call of a band has an order and a place of the wall.              *)
LEMMA WritesTyped ==
  ASSUME NEW first \in Bands, NEW w \in Writes(first)
  PROVE  w.n \in Int /\ w.at \in Places
<1>1. PICK c \in 0 .. 255, r \in first .. first + 15 :
        w = WriteOf(c, r) /\ xlate[<<c, r>>] # Nowhere
  BY WritesOfBand, ZenonT(60)
<1>2. r \in 0 .. 255  BY RowsOfBand, Zenon
<1>3. xlate[<<c, r>>] \in Places  BY <1>1, <1>2, XlateInRange, Zenon
<1>4. r * COLS + c \in Int  BY <1>2 DEF COLS
<1> QED  BY <1>1, <1>3, <1>4 DEF WriteOf

(* DrawRows, byte by byte.                                                 *)
LEMMA DrawRowsBytes ==
  ASSUME \A n \in PanelNumbers : PanelOK(panels[n]), row \in Bands, DrawRows,
         NEW p \in PanelNumbers, NEW i \in PixelNumbers
  PROVE  /\ DOMAIN panels'[p] = DOMAIN panels[p]
         /\ \A c \in 0 .. 255 : \A r \in row .. row + 15 :
              Lit(c, r, p, i) => panels'[p][i] = DrawnByte(image, c, r)
         /\ (\A c \in 0 .. 255 : \A r \in row .. row + 15 : ~Lit(c, r, p, i))
              => panels'[p][i] = panels[p][i]
<1> DEFINE ws == { w \in Writes(row) : w.at.panel = p }
<1>1. panels'[p] = Written(panels[p], ws)
  BY DEF DrawRows, PANEL_COUNT
<1>2. i \in DOMAIN panels[p]
  <2>1. PanelOK(panels[p])  BY Zenon
  <2> QED  BY <2>1 DEF PanelOK
<1>3. \A v, w \in ws : v.at.pixel = w.at.pixel => v = w
  <2> SUFFICES ASSUME NEW v \in ws, NEW w \in ws, v.at.pixel = w.at.pixel PROVE v = w
    OBVIOUS
  <2>1. v \in Writes(row) /\ w \in Writes(row) /\ v.at.panel = w.at.panel  OBVIOUS
  <2>2. v.at \in Places /\ w.at \in Places  BY <2>1, WritesTyped
  <2>3. v.at = w.at  BY <2>1, <2>2 DEF Places
  <2> QED  BY <2>1, <2>3, WritesOnce, Zenon
<1>4. \A w \in ws : w.n \in Int  BY WritesTyped
<1> HIDE DEF ws
<1>5. /\ \A w \in ws : w.at.pixel = i => panels'[p][i] = w.byte
      /\ (\A w \in ws : w.at.pixel # i) => panels'[p][i] = panels[p][i]
  <2>1. /\ \A w \in ws : w.at.pixel = i => Written(panels[p], ws)[i] = w.byte
        /\ (\A w \in ws : w.at.pixel # i) => Written(panels[p], ws)[i] = panels[p][i]
    BY <1>2, <1>3, <1>4, WrittenBytes
  <2> QED  BY <1>1, <2>1
<1>6. ASSUME NEW c \in 0 .. 255, NEW r \in row .. row + 15, Lit(c, r, p, i)
      PROVE  panels'[p][i] = DrawnByte(image, c, r)
  <2>1. PlaceAt(p, i) # Nowhere  BY DEF PlaceAt, Nowhere, PanelNumbers
  <2>2. WriteOf(c, r) \in Writes(row)
    BY <1>6, <2>1, WritesOfBand, Zenon DEF Lit
  <2>3. /\ WriteOf(c, r).at.panel = p /\ WriteOf(c, r).at.pixel = i
        /\ WriteOf(c, r).byte = Pixel(c, r)
    BY <1>6 DEF WriteOf, PlaceAt, Lit
  <2>4. WriteOf(c, r) \in ws  BY <2>2, <2>3 DEF ws
  <2> QED  BY <1>5, <2>3, <2>4, PixelIsDrawn, Zenon
<1>7. ASSUME \A c \in 0 .. 255 : \A r \in row .. row + 15 : ~Lit(c, r, p, i)
      PROVE  panels'[p][i] = panels[p][i]
  <2> SUFFICES ASSUME NEW w \in ws, w.at.pixel = i PROVE FALSE
    BY <1>5, Zenon
  <2>1. w \in Writes(row) /\ w.at.panel = p  BY DEF ws
  <2>2. w.at \in Places  BY <2>1, WritesTyped
  <2>3. w.at = PlaceAt(p, i)  BY <2>1, <2>2 DEF Places, PlaceAt
  <2>4. PICK c \in 0 .. 255, r \in row .. row + 15 :
          w = WriteOf(c, r) /\ xlate[<<c, r>>] # Nowhere
    BY <2>1, WritesOfBand, ZenonT(60)
  <2>5. Lit(c, r, p, i)  BY <2>3, <2>4 DEF WriteOf, Lit
  <2> QED  BY <1>7, <2>5, Zenon
<1>8. DOMAIN panels'[p] = DOMAIN panels[p]
  <2>1. DOMAIN Written(panels[p], ws) = DOMAIN panels[p]  BY WrittenDomain, Zenon
  <2> QED  BY <1>1, <2>1
<1> QED  BY <1>6, <1>7, <1>8, Zenon

(* PictureComplete as it grows with the pass: the rows already drawn are   *)
(* on the panels, ...                                                      *)
Drawn ==
  \A c, r \in 0 .. 255 : \A p \in PanelNumbers : \A i \in PixelNumbers :
    r < row /\ Lit(c, r, p, i) => panels[p][i] = DrawnByte(image, c, r)

(* ... the panels that do not drive 16x16 panels are never dimmed, ...     *)
OthersBright ==
  \A p \in PanelNumbers : \A i \in PixelNumbers : p \notin SmallPanels => panels[p][i][4] # 30

(* ... and the bytes of the halo have the LED they belong to.              *)
LedOf(b) ==
  ((b \div 1024) * 64 + (3 - (b % 1024) \div 256) * 16 + (15 - (b % 16)) + 96) % 128

HaloDrawn == row = ROWS + 1 => \A b \in HaloBytes : halo[b] = <<image, LedOf(b)>>

PlacementInv ==
  /\ PlacementTypeOK
  /\ row \in Bands \union {ROWS, ROWS + 1}
  /\ Drawn
  /\ OthersBright
  /\ HaloDrawn

(* The invariant holds at the start.                                       *)
LEMMA PlacementInitInv == PlacementInit => PlacementInv
<1> SUFFICES ASSUME PlacementInit PROVE PlacementInv  OBVIOUS
<1>0. Off \in Byte /\ Off[4] # 30
  <2>1. 0 \in 0 .. Pictures  BY PicturesAssumption
  <2>2. 0 \in X /\ 0 \in Y  BY PointsCounted
  <2> QED  BY <2>1, <2>2 DEF Off, Byte
<1>2. panels = [p \in PanelNumbers |-> [i \in PixelNumbers |-> Off]]
  BY DEF PlacementInit
<1>3. image \in 1 .. Pictures  BY PicturesAssumption DEF PlacementInit
<1>4. row = 0 /\ row \in Bands /\ row \in 0 .. ROWS + 1 /\ row # ROWS + 1
  BY DEF PlacementInit, Bands, ROWS
<1>5. DOMAIN panels = PanelNumbers /\ \A p \in PanelNumbers : PanelOK(panels[p])
  BY <1>0, <1>2 DEF PanelOK
<1>6. OthersBright  BY <1>0, <1>2 DEF OthersBright
<1>7. Drawn  BY <1>4 DEF Drawn
<1>8. HaloDrawn  BY <1>4 DEF HaloDrawn
<1>9. halo \in [HaloBytes -> (0 .. Pictures) \X HaloLeds]
  <2>1. halo = [b \in HaloBytes |-> <<0, 0>>]  BY DEF PlacementInit, HaloOff
  <2>2. 0 \in 0 .. Pictures /\ 0 \in HaloLeds
    BY PicturesAssumption DEF HaloLeds, HALO_LEDS
  <2> QED  BY <2>1, <2>2
<1> QED  BY <1>3, <1>4, <1>5, <1>6, <1>7, <1>8, <1>9 DEF PlacementInv, PlacementTypeOK

(* A pixel on a panel that drives 16x16 panels shows a point of one.       *)
LEMMA LitDims ==
  ASSUME NEW c \in 0 .. 255, NEW r \in 0 .. 255, NEW p \in PanelNumbers, NEW i \in PixelNumbers,
         Lit(c, r, p, i)
  PROVE  p \in SmallPanels <=> Is16x16(c, r)
<1> PICK w : w = xlate[<<c, r>>]  OBVIOUS
<1>1. w.panel = p /\ w # Nowhere  BY DEF Lit, PlaceAt, Nowhere, PanelNumbers
<1>2. w.panel \in SmallPanels <=> Is16x16(c, r)  BY <1>1, XlateDims, Zenon
<1> QED  BY <1>1, <1>2

(* A band of rows either sets a byte, to what its point shows, or leaves   *)
(* it.                                                                     *)
LEMMA DrawRowsEither ==
  ASSUME \A n \in PanelNumbers : PanelOK(panels[n]), row \in Bands, DrawRows,
         NEW p \in PanelNumbers, NEW i \in PixelNumbers
  PROVE  \/ \E c \in 0 .. 255 : \E r \in row .. row + 15 :
              Lit(c, r, p, i) /\ panels'[p][i] = DrawnByte(image, c, r)
         \/ panels'[p][i] = panels[p][i]
<1>1. \A c \in 0 .. 255 : \A r \in row .. row + 15 :
        Lit(c, r, p, i) => panels'[p][i] = DrawnByte(image, c, r)
  BY DrawRowsBytes
<1>2. (\A c \in 0 .. 255 : \A r \in row .. row + 15 : ~Lit(c, r, p, i))
        => panels'[p][i] = panels[p][i]
  BY DrawRowsBytes
<1> QED  BY <1>1, <1>2, Zenon

(* A band keeps the invariant.                                             *)
LEMMA DrawRowsInv ==
  ASSUME PlacementInv, DrawRows
  PROVE  PlacementInv'
<1>1. row \in Bands /\ row' \in Bands \union {ROWS} /\ row' = row + 16
  <2>1. row \in Bands \union {ROWS, ROWS + 1} /\ row < ROWS /\ row' = row + BAND
    BY Zenon DEF PlacementInv, DrawRows
  <2>2. row \in Bands  BY <2>1 DEF ROWS
  <2>3. row + BAND \in Bands \union {ROWS}  BY <2>2, BandInRange, Zenon
  <2>4. BAND = 16  BY DEF BAND
  <2> QED  BY <2>1, <2>2, <2>3, <2>4
<1>2. row \in 0 .. 240 /\ row' \in 0 .. ROWS + 1 /\ row' # ROWS + 1
  BY <1>1 DEF Bands, ROWS
<1>3. PlacementTypeOK  BY Zenon DEF PlacementInv
<1>4. image' = image /\ halo' = halo  BY Zenon DEF DrawRows
<1>5. image \in 1 .. Pictures /\ \A n \in PanelNumbers : PanelOK(panels[n])
  BY <1>3, Zenon DEF PlacementTypeOK
<1>6. DOMAIN panels' = PanelNumbers
  BY DEF DrawRows
<1>7. ASSUME NEW p \in PanelNumbers PROVE PanelOK(panels'[p])
  <2>1. PanelOK(panels[p])  BY <1>5, Zenon
  <2>2. ASSUME NEW i \in PixelNumbers PROVE panels'[p][i] \in Byte
    <3>1. CASE panels'[p][i] = panels[p][i]
      BY <2>1, <3>1 DEF PanelOK
    <3>2. ASSUME NEW c \in 0 .. 255, NEW r \in row .. row + 15,
                 panels'[p][i] = DrawnByte(image, c, r)
          PROVE  panels'[p][i] \in Byte
      <4>1. r \in 0 .. 255  BY <1>1, RowsOfBand, Zenon
      <4>2. DrawnByte(image, c, r) \in Byte  BY <1>5, <4>1, DrawnTyped, Zenon
      <4> QED  BY <3>2, <4>2
    <3> QED  BY <1>1, <1>5, <3>1, <3>2, DrawRowsEither, Zenon
  <2>3. PICK i \in PixelNumbers : TRUE  BY DEF PixelNumbers, PANEL_SIZE
  <2>4. DOMAIN panels'[p] = DOMAIN panels[p]
    BY <1>1, <1>5, <2>3, DrawRowsBytes
  <2> QED  BY <2>1, <2>2, <2>4 DEF PanelOK
<1>8. PlacementTypeOK'
  BY <1>2, <1>3, <1>4, <1>6, <1>7 DEF PlacementTypeOK
<1>9. Drawn'
  <2> SUFFICES ASSUME NEW c \in 0 .. 255, NEW r \in 0 .. 255,
                      NEW p \in PanelNumbers, NEW i \in PixelNumbers,
                      r < row', Lit(c, r, p, i)
               PROVE  panels'[p][i] = DrawnByte(image', c, r)
    BY DEF Drawn, Zenon
  <2>1. CASE r < row
    <3>1. panels[p][i] = DrawnByte(image, c, r)
      BY <2>1, Zenon DEF PlacementInv, Drawn
    <3>2. CASE panels'[p][i] = panels[p][i]
      BY <1>4, <3>1, <3>2
    <3>3. ASSUME NEW c2 \in 0 .. 255, NEW r2 \in row .. row + 15, Lit(c2, r2, p, i)
          PROVE  FALSE
      <4>1. r2 \in 0 .. 255  BY <1>1, RowsOfBand, Zenon
      <4>2. r = r2  BY <3>3, <4>1, LitOnce, Zenon
      <4>3. r2 \in row .. row + 15  OBVIOUS
      <4> QED  BY <1>2, <2>1, <4>2, <4>3
    <3> QED  BY <1>1, <1>5, <3>2, <3>3, DrawRowsEither, Zenon
  <2>2. CASE ~(r < row)
    <3>1. r \in row .. row + 15  BY <1>1, <1>2, <2>2
    <3>2. panels'[p][i] = DrawnByte(image, c, r)
      BY <1>1, <1>5, <3>1, DrawRowsBytes
    <3> QED  BY <1>4, <3>2
  <2> QED  BY <2>1, <2>2
<1>10. OthersBright'
  <2> SUFFICES ASSUME NEW p \in PanelNumbers, NEW i \in PixelNumbers, p \notin SmallPanels
               PROVE  panels'[p][i][4] # 30
    BY DEF OthersBright
  <2>1. CASE panels'[p][i] = panels[p][i]
    BY <2>1 DEF PlacementInv, OthersBright
  <2>2. ASSUME NEW c \in 0 .. 255, NEW r \in row .. row + 15, Lit(c, r, p, i),
               panels'[p][i] = DrawnByte(image, c, r)
        PROVE  panels'[p][i][4] # 30
    <3>1. r \in 0 .. 255  BY <1>1, RowsOfBand, Zenon
    <3>2. ~Is16x16(c, r)  BY <2>2, <3>1, LitDims, Zenon
    <3>3. DrawnByte(image, c, r)[4] # 30  BY <1>5, <3>1, <3>2, DrawnTyped, Zenon
    <3> QED  BY <2>2, <3>3
  <2> QED  BY <1>1, <1>5, <2>1, <2>2, DrawRowsEither, Zenon
<1>11. HaloDrawn'  BY <1>2 DEF HaloDrawn
<1>12. row' \in Bands \union {ROWS, ROWS + 1}  BY <1>1
<1> QED  BY <1>8, <1>9, <1>10, <1>11, <1>12 DEF PlacementInv

(* The halo, in the numbers of the code.                                   *)
LEMMA HaloCounted == HaloBytes = 0 .. 2047 /\ HaloLeds = 0 .. 127
BY DEF HaloBytes, HaloLeds, HALO_SIZE, PANEL_SIZE, HALO_LEDS

(* A byte of the halo is a pixel of one LED, at one height ...             *)
HeightOf(b) == (b \div 16) % 16

Locates(i, y, b) == i = LedOf(b) /\ y = HeightOf(b)

(* ... the LED and the height are told by the byte, ...                    *)
LEMMA HaloPixelRange ==
  \A i \in HaloLeds : \A y \in 0 .. 15 :
    HaloPixel(i, y) \in HaloBytes /\ Locates(i, y, HaloPixel(i, y))
BY HaloCounted, SMTT(120) DEF HaloPixel, PixelIndex, PANEL_SIZE, Locates, LedOf, HeightOf

(* ... and the LED and the height give it back.                            *)
LEMMA HaloPixelOnto ==
  \A b \in HaloBytes :
    /\ LedOf(b) \in HaloLeds /\ HeightOf(b) \in 0 .. 15
    /\ HaloPixel(LedOf(b), HeightOf(b)) = b
BY HaloCounted, SMTT(60) DEF HaloPixel, PixelIndex, PANEL_SIZE, LedOf, HeightOf

(* a and b are in one column of one bank.                                  *)
SameColumn(a, b) == a % 16 = b % 16 /\ a \div 256 = b \div 256

(* The pixels of an LED are.                                               *)
LEMMA OneColumn ==
  \A a, b \in HaloBytes : LedOf(a) = LedOf(b) => SameColumn(a, b)
<1> SUFFICES ASSUME NEW a \in HaloBytes, NEW b \in HaloBytes, LedOf(a) = LedOf(b)
             PROVE  SameColumn(a, b)
  BY Zenon
<1>1. a \in 0 .. 2047 /\ b \in 0 .. 2047  BY HaloCounted
<1> QED  BY <1>1, SMTT(60) DEF LedOf, SameColumn

(* The LED a byte of the halo belongs to.                                  *)
LEMMA HaloPixelsOfLed ==
  ASSUME NEW b \in HaloBytes
  PROVE  /\ LedOf(b) \in HaloLeds
         /\ \A i \in HaloLeds : b \in HaloPixels(i) <=> i = LedOf(b)
<1>1. LedOf(b) \in HaloLeds /\ HeightOf(b) \in 0 .. 15  BY HaloPixelOnto, Zenon
<1>2. b \in HaloPixels(LedOf(b))
  <2>1. HaloPixel(LedOf(b), HeightOf(b)) = b  BY HaloPixelOnto
  <2> QED  BY <1>1, <2>1 DEF HaloPixels
<1>3. ASSUME NEW i \in HaloLeds, b \in HaloPixels(i)
      PROVE  i = LedOf(b)
  <2>1. PICK y \in 0 .. 15 : b = HaloPixel(i, y)  BY <1>3 DEF HaloPixels
  <2>2. Locates(i, y, HaloPixel(i, y))  BY HaloPixelRange, Zenon
  <2> QED  BY <2>1, <2>2, Zenon DEF Locates
<1>4. ASSUME NEW i \in HaloLeds, i = LedOf(b) PROVE b \in HaloPixels(i)
  BY <1>2, <1>4
<1> QED  BY <1>1, <1>3, <1>4, Zenon

(* The halo keeps the invariant.                                           *)
LEMMA DrawHaloInv ==
  ASSUME PlacementInv, DrawHalo
  PROVE  PlacementInv'
<1>1. PlacementTypeOK /\ image \in 1 .. Pictures  BY Zenon DEF PlacementInv, PlacementTypeOK
<1>2. row = ROWS /\ row' = ROWS + 1 /\ image' = image /\ panels' = panels
  BY DEF DrawHalo
<1>3. halo' = [b \in HaloBytes |-> <<image, LedOf(b)>>]
  <2> DEFINE leds(b) == { i \in HaloLeds : b \in HaloPixels(i) }
             New(b) == IF leds(b) = {} THEN halo[b]
                       ELSE <<image, CHOOSE i \in leds(b) : \A j \in leds(b) : j <= i>>
  <2>1. halo' = [b \in HaloBytes |-> New(b)]  BY DEF DrawHalo
  <2>2. ASSUME NEW b \in HaloBytes PROVE New(b) = <<image, LedOf(b)>>
    <3>1. LedOf(b) \in HaloLeds /\ \A i \in HaloLeds : b \in HaloPixels(i) <=> i = LedOf(b)
      BY HaloPixelsOfLed, Zenon
    <3>2. leds(b) = {LedOf(b)}  BY <3>1
    <3>3. LedOf(b) \in Int  BY <3>1, HaloCounted
    <3> PICK s : s = leds(b)  OBVIOUS
    <3> PICK n : n = LedOf(b)  OBVIOUS
    <3>4. s = {n} /\ n \in Int  BY <3>2, <3>3
    <3>5. (CHOOSE i \in s : \A j \in s : j <= i) = n  BY <3>4
    <3>6. New(b) = IF s = {} THEN halo[b]
                   ELSE <<image, CHOOSE i \in s : \A j \in s : j <= i>>
      OBVIOUS
    <3> HIDE DEF New, leds
    <3> QED  BY <3>4, <3>5, <3>6
  <2> HIDE DEF New
  <2> QED  BY <2>1, <2>2
<1>4. halo' \in [HaloBytes -> (0 .. Pictures) \X HaloLeds]
  <2>1. \A b \in HaloBytes : LedOf(b) \in HaloLeds  BY HaloPixelsOfLed, Zenon
  <2>2. image \in 0 .. Pictures  BY <1>1, PicturesAssumption
  <2> QED  BY <1>3, <2>1, <2>2
<1>5. row' \in 0 .. ROWS + 1 /\ row' \in Bands \union {ROWS, ROWS + 1}
  BY <1>2 DEF ROWS
<1>6. PlacementTypeOK'  BY <1>1, <1>2, <1>4, <1>5 DEF PlacementTypeOK
<1>7. \A c, r \in 0 .. 255 : r < row
  BY <1>2 DEF ROWS
<1>8. Drawn'  BY <1>2, <1>7, Zenon DEF PlacementInv, Drawn
<1>9. OthersBright'  BY <1>2 DEF PlacementInv, OthersBright
<1>10. HaloDrawn'  BY <1>2, <1>3 DEF HaloDrawn
<1> QED  BY <1>5, <1>6, <1>8, <1>9, <1>10 DEF PlacementInv

(* The next picture keeps the invariant: nothing of it is drawn yet.       *)
LEMMA UpdateInv ==
  ASSUME PlacementInv, Update
  PROVE  PlacementInv'
<1>1. PlacementTypeOK /\ image \in 1 .. Pictures  BY Zenon DEF PlacementInv, PlacementTypeOK
<1>2. row' = 0 /\ panels' = panels /\ halo' = halo /\ image' = (image % Pictures) + 1
  BY DEF Update
<1>3. image' \in 1 .. Pictures  BY <1>1, <1>2, PicturesAssumption
<1>4. row' \in Bands /\ row' \in 0 .. ROWS + 1 /\ row' # ROWS + 1
  BY <1>2 DEF Bands, ROWS
<1>5. PlacementTypeOK'  BY <1>1, <1>2, <1>3, <1>4 DEF PlacementTypeOK
<1>6. Drawn'  BY <1>2 DEF Drawn
<1>7. OthersBright'  BY <1>2 DEF PlacementInv, OthersBright
<1>8. HaloDrawn'  BY <1>4 DEF HaloDrawn
<1> QED  BY <1>4, <1>5, <1>6, <1>7, <1>8 DEF PlacementInv

(* So does a step that changes nothing.                                    *)
LEMMA PlacementStutter ==
  ASSUME PlacementInv, UNCHANGED placementVars
  PROVE  PlacementInv'
<1>1. image' = image /\ row' = row /\ panels' = panels /\ halo' = halo
  BY DEF placementVars
<1> QED  BY <1>1 DEF PlacementInv, PlacementTypeOK, Drawn, OthersBright, HaloDrawn

(* The invariant of the placement, which the four results rest on.         *)
THEOREM PlacementInvariant == PlacementSpec => []PlacementInv
<1>1. PlacementInit => PlacementInv  BY PlacementInitInv
<1>2. PlacementInv /\ [PlacementNext]_placementVars => PlacementInv'
  BY DrawRowsInv, DrawHaloInv, UpdateInv, PlacementStutter, Zenon DEF PlacementNext
<1> QED  BY <1>1, <1>2, PTL DEF PlacementSpec

(* PlacementTypeOK: however often and with however many pictures the wall  *)
(* is drawn, every byte is of a picture, of an element of led and at one   *)
(* of the three scales, and no table is read outside its range.            *)
THEOREM PlacementTypeCorrect == PlacementSpec => []PlacementTypeOK
<1>1. PlacementInv => PlacementTypeOK  BY Zenon DEF PlacementInv
<1> QED  BY <1>1, PlacementInvariant, PTL

(* PictureComplete: what update sends shows every point that has an LED,   *)
(* as of this picture (syncPanel, LedPanel.m:344-355, with setPixel and    *)
(* coord_trans, DisplayInterface.cpp:81-202): no special case of           *)
(* coord_trans takes the LED of another.                                   *)
THEOREM AllPointsDrawn == PlacementSpec => []PictureComplete
<1>1. ASSUME PlacementInv, row = ROWS + 1, NEW c \in 0 .. 255, NEW r \in 0 .. 255,
             xlate[<<c, r>>] # Nowhere
      PROVE  panels[xlate[<<c, r>>].panel][xlate[<<c, r>>].pixel] = Pixel(c, r)
  <2> PICK to : to = xlate[<<c, r>>]  OBVIOUS
  <2>1. to \in Places  BY <1>1, XlateInRange, Zenon
  <2> PICK p : p = to.panel  OBVIOUS
  <2> PICK i : i = to.pixel  OBVIOUS
  <2>2. p \in PanelNumbers /\ i \in PixelNumbers /\ to = PlaceAt(p, i)
    BY <2>1 DEF Places, PlaceAt
  <2>3. Lit(c, r, p, i)  BY <2>2, Zenon DEF Lit
  <2>4. r < row  BY <1>1 DEF ROWS
  <2>5. panels[p][i] = DrawnByte(image, c, r)
    BY <1>1, <2>2, <2>3, <2>4, Zenon DEF PlacementInv, Drawn
  <2> QED  BY <2>5, PixelIsDrawn, Zenon
<1>2. PlacementInv => PictureComplete
  <2> SUFFICES ASSUME PlacementInv, row = ROWS + 1, NEW t \in X \X Y, xlate[t] # Nowhere
               PROVE  panels[xlate[t].panel][xlate[t].pixel] = Pixel(t[1], t[2])
    BY DEF PictureComplete
  <2> PICK c : c = t[1]  OBVIOUS
  <2> PICK r : r = t[2]  OBVIOUS
  <2>1. c \in 0 .. 255 /\ r \in 0 .. 255 /\ t = <<c, r>>  BY PointsCounted
  <2> QED  BY <1>1, <2>1, ZenonT(60)
<1> QED  BY <1>2, PlacementInvariant, PTL

(* The pixel i is of the bank; the point (x, y) is where i is in a bank.   *)
OfBank(i, bank) == i \in bank * 256 .. bank * 256 + 255
Agrees(i, x, y) == x % 16 = 15 - (i % 16) /\ y % 16 = (i \div 16) % 16
IsPixel(bank, x, y, i) == PixelIndex(bank, x, y) = i

(* The index of a pixel of a bank.                                         *)
LEMMA PixelOfBank ==
  \A bank \in 0 .. 3 : \A i : \A x, y \in 0 .. 255 :
    OfBank(i, bank) /\ Agrees(i, x, y) => IsPixel(bank, x, y, i)
<1> SUFFICES ASSUME NEW bank \in 0 .. 3, NEW i \in bank * 256 .. bank * 256 + 255,
                    NEW x \in 0 .. 255, NEW y \in 0 .. 255, Agrees(i, x, y)
             PROVE  PixelIndex(bank, x, y) = i
  BY ZenonT(60) DEF OfBank, IsPixel
<1>1. PixelIndex(bank, x, y) = bank * 256 + ((i \div 16) % 16) * 16 + (15 - (15 - (i % 16)))
  BY DEF PixelIndex, Agrees
<1>2. \A k \in 0 .. 1023 : \A b \in 0 .. 3 : k \in b * 256 .. b * 256 + 255 =>
        b * 256 + ((k \div 16) % 16) * 16 + (15 - (15 - (k % 16))) = k
  BY SMTT(60)
<1>3. i \in 0 .. 1023  OBVIOUS
<1> QED  BY <1>1, <1>2, <1>3

(* The point u from the left and v from the top of the square at q, y      *)
(* counted downwards.                                                      *)
Across(q, u) == q[1] + u
Below(q, v) == 240 - q[2] + v
Flip(y) == 255 - y

PointInside(q, u, v) ==
  /\ Across(q, u) \in 0 .. 255 /\ Below(q, v) \in 0 .. 255 /\ Flip(Below(q, v)) \in 0 .. 255
  /\ In(Across(q, u), Flip(Below(q, v)), Square(q, 16))

(* These are points of the square.                                         *)
LEMMA PointOfSquare ==
  \A q \in panel16 : \A u, v \in 0 .. 15 : PointInside(q, u, v)
BY SMTT(60) DEF PointInside, Across, Below, Flip, In, Square, panel16

(* The pixel i of a bank is u from the left of it and v from the top.      *)
LeftOf(i) == 15 - (i % 16)
TopOf(i) == (i \div 16) % 16

(* They are where their pixel is in the bank.                              *)
LEMMA PointAgrees ==
  \A q \in panel16 : \A i \in Int : Agrees(i, Across(q, LeftOf(i)), Below(q, TopOf(i)))
BY SMTT(60) DEF Agrees, Across, Below, LeftOf, TopOf, panel16

IsAt(c, r, w) == xlate[<<c, r>>] = w

(* The LED of a point that a bank shows.                                   *)
LEMMA ShownIsAt ==
  \A c, y \in 0 .. 255 : \A col, g, b :
    Shows(c, y, col, g, b) => IsAt(c, Flip(y), At(col, g, b, c, y))
<1> SUFFICES ASSUME NEW c \in 0 .. 255, NEW y \in 0 .. 255,
                    NEW col, NEW g, NEW b, Shows(c, y, col, g, b)
             PROVE  IsAt(c, Flip(y), At(col, g, b, c, y))
  BY Zenon
<1> PICK w : w = Where(c, y)  OBVIOUS
<1> PICK w2 : w2 = At(col, g, b, c, y)  OBVIOUS
<1>1. w = w2  BY ShownIsWhere
<1> PICK r : r = Flip(y)  OBVIOUS
<1>2. r \in 0 .. 255 /\ 255 - r = y  BY DEF Flip
<1>3. xlate[<<c, r>>] = Where(c, 255 - r)  BY <1>2, XlateIsWhere, ZenonT(60)
<1> QED  BY <1>1, <1>2, <1>3 DEF IsAt, Zenon

LitInside(q, p, i) ==
  \E c, r \in 0 .. 255 : Lit(c, r, p, i) /\ In(c, r, Square(q, 16))

(* Every pixel of a bank of such a panel shows a point of one 16x16 panel. *)
LEMMA BankLit ==
  ASSUME NEW a \in Areas16, NEW bank \in 0 .. 3
  PROVE  \E q \in panel16 :
           \A i \in bank * 256 .. bank * 256 + 255 : LitInside(q, a.row * 8 + a.col, i)
<1>1. PICK q \in panel16 : \A u, v \in 0 .. 15 :
        Shows(q[1] + u, 240 - q[2] + v, a.col, a.row, bank)
  BY BankIsPanel16
<1>2. ASSUME NEW i \in bank * 256 .. bank * 256 + 255
      PROVE  LitInside(q, a.row * 8 + a.col, i)
  <2>1. i \in Int /\ LeftOf(i) \in 0 .. 15 /\ TopOf(i) \in 0 .. 15
    BY DEF LeftOf, TopOf
  <2> PICK u : u = LeftOf(i)  OBVIOUS
  <2> PICK v : v = TopOf(i)  OBVIOUS
  <2> PICK c : c = Across(q, u)  OBVIOUS
  <2> PICK y : y = Below(q, v)  OBVIOUS
  <2> PICK r : r = Flip(y)  OBVIOUS
  <2>2. PointInside(q, u, v)  BY <2>1, PointOfSquare, Zenon
  <2>3. c \in 0 .. 255 /\ y \in 0 .. 255 /\ r \in 0 .. 255 /\ In(c, r, Square(q, 16))
    BY <2>2, Zenon DEF PointInside
  <2>4. Shows(c, y, a.col, a.row, bank)  BY <1>1, <2>1, Zenon DEF Across, Below
  <2>5. IsAt(c, r, At(a.col, a.row, bank, c, y))  BY <2>3, <2>4, ShownIsAt, Zenon
  <2>6. Agrees(i, c, y)  BY <2>1, PointAgrees, Zenon
  <2>7. OfBank(i, bank)  BY Zenon DEF OfBank
  <2>8. IsPixel(bank, c, y, i)  BY <2>3, <2>6, <2>7, PixelOfBank, Zenon
  <2>9. Lit(c, r, a.row * 8 + a.col, i)
    BY <2>5, <2>8, Zenon DEF At, Lit, PlaceAt, IsAt, IsPixel
  <2> QED  BY <2>3, <2>9, Zenon DEF LitInside
<1> QED  BY <1>1, <1>2, Zenon

(* The byte is dimmed, and of the panel at q.                              *)
DimInside(byte, q) == byte[4] = 30 /\ In(byte[2], byte[3], Square(q, 16))

(* What a point of a 16x16 panel shows is of that panel, and dimmed.       *)
LEMMA DrawnInside ==
  ASSUME NEW pic, NEW c \in 0 .. 255, NEW r \in 0 .. 255, NEW q \in panel16,
         In(c, r, Square(q, 16))
  PROVE  DimInside(DrawnByte(pic, c, r), q)
<1> PICK i : i = q[1] + (r - q[2])  OBVIOUS
<1> PICK j : j = q[2] + (c - q[1])  OBVIOUS
<1>1. In(i, j, Square(q, 16))  BY TransposedInside, Zenon
<1>2. LedTableEntry(c, r) = [x |-> i, y |-> j, scale |-> 30]  BY EntryOfPanel16, Zenon
<1>3. ledTable[<<c, r>>] = LedTableEntry(c, r)  BY PointsCounted DEF ledTable
<1>4. DrawnByte(pic, c, r) = <<pic, i, j, 30>>  BY <1>2, <1>3 DEF DrawnByte
<1> QED  BY <1>1, <1>4 DEF DimInside

(* DimsSmallPanels: the two tables agree (buildLedTable against            *)
(* coord_trans).  The bytes of the panels that drive 16x16 panels, and     *)
(* only they, are dimmed, and each of their banks shows one square.        *)
THEOREM SmallPanelsDimmed == PlacementSpec => []DimsSmallPanels
<1>1. ASSUME PlacementInv, row = ROWS + 1, NEW a \in Areas16, NEW bank \in 0 .. 3
      PROVE  LET p == a.row * 8 + a.col
             IN  \E q \in panel16 : \A i \in bank * 256 .. bank * 256 + 255 :
                   DimInside(panels[p][i], q)
  <2> PICK p : p = a.row * 8 + a.col  OBVIOUS
  <2>1. PICK q \in panel16 : \A i \in bank * 256 .. bank * 256 + 255 : LitInside(q, p, i)
    BY BankLit, ZenonT(60)
  <2>2. p \in PanelNumbers  BY DEF Areas16, Area, PanelNumbers, PANEL_COUNT
  <2>3. ASSUME NEW i \in bank * 256 .. bank * 256 + 255
        PROVE  DimInside(panels[p][i], q)
    <3>1. i \in PixelNumbers  BY DEF PixelNumbers, PANEL_SIZE
    <3>2. PICK c \in 0 .. 255, r \in 0 .. 255 : Lit(c, r, p, i) /\ In(c, r, Square(q, 16))
      BY <2>1, Zenon DEF LitInside
    <3>3. r < row  BY <1>1 DEF ROWS
    <3>4. panels[p][i] = DrawnByte(image, c, r)
      BY <1>1, <2>2, <3>1, <3>2, <3>3, Zenon DEF PlacementInv, Drawn
    <3>5. DimInside(DrawnByte(image, c, r), q)  BY <3>2, DrawnInside, Zenon
    <3> QED  BY <3>4, <3>5
  <2> QED  BY <2>1, <2>3, Zenon
<1>2. ASSUME PlacementInv, row = ROWS + 1, NEW p \in DOMAIN panels, NEW i \in DOMAIN panels[p]
      PROVE  p \in SmallPanels <=> panels[p][i][4] = 30
  <2>1. DOMAIN panels = PanelNumbers /\ \A n \in PanelNumbers : PanelOK(panels[n])
    BY <1>2, Zenon DEF PlacementInv, PlacementTypeOK
  <2>2. p \in PanelNumbers  BY <2>1
  <2>3. i \in PixelNumbers  BY <2>1, <2>2 DEF PanelOK
  <2>4. CASE p \notin SmallPanels
    BY <1>2, <2>2, <2>3, <2>4, Zenon DEF PlacementInv, OthersBright
  <2>5. ASSUME NEW a \in Areas16, p = a.row * 8 + a.col
        PROVE  panels[p][i][4] = 30
    <3> PICK bank : bank = i \div 256  OBVIOUS
    <3>1. bank \in 0 .. 3 /\ i \in bank * 256 .. bank * 256 + 255
      BY <2>3 DEF PixelNumbers, PANEL_SIZE
    <3> QED  BY <1>1, <1>2, <2>5, <3>1, ZenonT(60) DEF DimInside
  <2> QED  BY <2>4, <2>5 DEF SmallPanels
<1>3. PlacementInv => DimsSmallPanels
  <2> SUFFICES ASSUME PlacementInv, row = ROWS + 1 PROVE
        /\ \A p \in DOMAIN panels : \A i \in DOMAIN panels[p] :
             p \in SmallPanels <=> panels[p][i][4] = 30
        /\ \A p \in SmallPanels : \A bank \in 0 .. 3 :
             \E q \in panel16 :
               \A i \in bank * 256 .. bank * 256 + 255 :
                 In(panels[p][i][2], panels[p][i][3], Square(q, 16))
    BY Zenon DEF DimsSmallPanels
  <2>1. ASSUME NEW p \in SmallPanels, NEW bank \in 0 .. 3
        PROVE  \E q \in panel16 : \A i \in bank * 256 .. bank * 256 + 255 :
                 In(panels[p][i][2], panels[p][i][3], Square(q, 16))
    <3>1. PICK a \in Areas16 : p = a.row * 8 + a.col  BY DEF SmallPanels
    <3> QED  BY <1>1, <3>1, ZenonT(60) DEF DimInside
  <2> QED  BY <1>2, <2>1, Zenon
<1> QED  BY <1>3, PlacementInvariant, PTL

(* An LED of the halo has 16 pixels.                                       *)
LEMMA SixteenPixels ==
  ASSUME NEW i \in HaloLeds
  PROVE  Cardinality(HaloPixels(i)) = 16
<1> DEFINE f == [y \in 0 .. 15 |-> HaloPixel(i, y)]
<1>1. \A y \in 0 .. 15 : y = HeightOf(HaloPixel(i, y))
  BY HaloPixelRange, Zenon DEF Locates
<1>2. \A y, z \in 0 .. 15 : f[y] = f[z] => y = z
  BY <1>1
<1>3. f \in [0 .. 15 -> HaloPixels(i)]
  BY DEF HaloPixels
<1>4. \A b \in HaloPixels(i) : \E y \in 0 .. 15 : f[y] = b
  BY DEF HaloPixels
<1> HIDE DEF f
<1>5. f \in Bijection(0 .. 15, HaloPixels(i))
  BY <1>2, <1>3, <1>4 DEF Bijection, Injection, Surjection, IsInjective
<1>6. ExistsBijection(0 .. 15, HaloPixels(i))  BY <1>5, Zenon DEF ExistsBijection
<1>7. IsFiniteSet(0 .. 15) /\ Cardinality(0 .. 15) = 16
  <2>1. /\ IsFiniteSet(0 .. 15)
        /\ Cardinality(0 .. 15) = IF 0 > 15 THEN 0 ELSE 15 - 0 + 1
    <3>1. 0 \in Int /\ 15 \in Int  OBVIOUS
    <3> QED  BY <3>1, FS_Interval, Zenon
  <2> QED  BY <2>1
<1>8. Cardinality(HaloPixels(i)) = Cardinality(0 .. 15)  BY <1>6, <1>7, FS_Bijection, Zenon
<1> QED  BY <1>7, <1>8

(* HaloComplete: setHalo puts every LED of the halo on 16 pixels, in one   *)
(* column of one bank, and every byte of the halo shows this picture.      *)
THEOREM HaloAlwaysComplete == PlacementSpec => []HaloComplete
<1>1. ASSUME PlacementInv, row = ROWS + 1
      PROVE  DOMAIN halo = HaloBytes /\ \A b \in HaloBytes : halo[b] = <<image, LedOf(b)>>
  <2>1. halo \in [HaloBytes -> (0 .. Pictures) \X HaloLeds]
    BY <1>1, Zenon DEF PlacementInv, PlacementTypeOK
  <2>2. \A b \in HaloBytes : halo[b] = <<image, LedOf(b)>>
    BY <1>1, Zenon DEF PlacementInv, HaloDrawn
  <2> QED  BY <2>1, <2>2
<1>2. PlacementInv => HaloComplete
  <2> SUFFICES ASSUME PlacementInv, row = ROWS + 1 PROVE
        /\ \A b \in DOMAIN halo : halo[b][1] = image
        /\ \A i \in 0 .. HALO_LEDS - 1 :
             LET pixels == { b \in DOMAIN halo : halo[b][2] = i }
             IN  /\ Cardinality(pixels) = 16
                 /\ \A a, b \in pixels : a % 16 = b % 16 /\ a \div 256 = b \div 256
    BY Zenon DEF HaloComplete, HaloLeds
  <2>1. ASSUME NEW i \in HaloLeds
        PROVE  LET pixels == { b \in DOMAIN halo : halo[b][2] = i }
               IN  /\ Cardinality(pixels) = 16
                   /\ \A a, b \in pixels : a % 16 = b % 16 /\ a \div 256 = b \div 256
    <3> PICK pixels : pixels = { b \in DOMAIN halo : halo[b][2] = i }  OBVIOUS
    <3>1. pixels = { b \in HaloBytes : LedOf(b) = i }  BY <1>1
    <3>2. HaloPixels(i) \subseteq HaloBytes  BY HaloPixelRange DEF HaloPixels
    <3>3. \A b \in HaloBytes : b \in HaloPixels(i) <=> i = LedOf(b)
      BY HaloPixelsOfLed, Zenon
    <3>4. pixels = HaloPixels(i)  BY <3>1, <3>2, <3>3
    <3>5. \A a, b \in pixels : SameColumn(a, b)  BY <3>1, OneColumn
    <3> QED  BY <3>4, <3>5, SixteenPixels, ZenonT(60) DEF SameColumn
  <2>2. \A b \in DOMAIN halo : halo[b][1] = image  BY <1>1
  <2> QED  BY <2>1, <2>2, Zenon DEF HaloLeds
<1> QED  BY <1>2, PlacementInvariant, PTL

=============================================================================
