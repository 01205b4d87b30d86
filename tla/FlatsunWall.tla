---------------------------- MODULE FlatsunWall ----------------------------
(***************************************************************************)
(* The way of a picture from the host to the LEDs of the Flatsun wall:     *)
(*   - the render thread of the host application, whose DisplayInterface   *)
(*     sends one DATA datagram per panel and then a SYNC;                  *)
(*   - the UDP socket of the controller, a FIFO of bounded size;           *)
(*   - fsserver on the controller, one thread, which stores DATA in the    *)
(*     slot it is for and on SYNC sends every slot to the RS485 buses,     *)
(*     column after column, one bus per row;                               *)
(*   - the panels, each as PanelDisplay describes it.                      *)
(* Datagrams are lost, by the network or because the socket is full, and   *)
(* so are frames on the buses.  Nobody acknowledges or repeats anything.   *)
(*                                                                         *)
(* A picture is its number: the pixels of a panel are the panel they were  *)
(* drawn for and the picture they belong to.                               *)
(***************************************************************************)
EXTENDS Integers, Sequences, FiniteSets

CONSTANTS
  ROW_COUNT,      (* Rows of panels; the halo is one more row.             *)
  COLUMN_COUNT,
  HALO_PANELS,    (* Panels of the halo row: its other slots stay empty.   *)
  SocketSize,     (* Datagrams the controller's socket holds.              *)
  MaxPictures,    (* Bound: pictures drawn in a run.                       *)
  MaxLosses,      (* Bound: datagrams and frames lost in a run.            *)
  Paced           (* TRUE: panels are done with one sync before the next.  *)

ASSUME SizesAssumption == /\ ROW_COUNT \in Nat \ {0}
                          /\ COLUMN_COUNT \in Nat \ {0}
                          /\ HALO_PANELS \in 1 .. COLUMN_COUNT
                          /\ SocketSize \in Nat \ {0}
                          /\ MaxPictures \in Nat \ {0}
                          /\ MaxLosses \in Nat
                          /\ Paced \in BOOLEAN

VARIABLES
  picture,    (* Host: the picture _panels and _halo hold.                 *)
  next,       (* Host: update() is at this <<x, y>>; at SYNC when y is     *)
              (* past the halo.                                            *)
  socket,     (* What the controller's socket holds.                       *)
  Packets,    (* Controller: the slots, by column and row.                 *)
  column,     (* Controller: the next column of sync_data, or Listening.   *)
  held,       (* Panels: the frame taken in (see PanelDisplay).            *)
  shown,      (* Panels: the frame shown (see PanelDisplay).               *)
  losses

hostVars   == <<picture, next>>
serverVars == <<Packets, column>>
panelVars  == <<held, shown>>
vars       == <<hostVars, socket, serverVars, panelVars, losses>>

FS_ROWS == ROW_COUNT + 1
Slots   == (0 .. COLUMN_COUNT - 1) \X (0 .. FS_ROWS - 1)

(* Panels are known by their place: a column, to which the selector on     *)
(* their back is turned, and a row, the bus they hang on.                  *)
Panels == (0 .. COLUMN_COUNT - 1) \X (0 .. ROW_COUNT - 1)
            \union (0 .. HALO_PANELS - 1) \X {ROW_COUNT}

Listening == COLUMN_COUNT

(* A DisplayPacket in its slot: pixels of a panel in a picture, panel_id,  *)
(* whether the crc is right, and the panel_col of the FSPacket around it.  *)
PacketType == [panel_col : 0 .. COLUMN_COUNT - 1, id : 0 .. COLUMN_COUNT - 1,
               crc : BOOLEAN, of : Slots, picture : Nat]

(* calloc; the CRC of a zero packet is not zero.                           *)
Zero == [panel_col |-> 0, id |-> 0, crc |-> FALSE, of |-> <<0, 0>>, picture |-> 0]

Data(p, n) == [type |-> "data", col |-> p[1], row |-> p[2], id |-> p[1],
               of |-> p, picture |-> n]
Sync       == [type |-> "sync"]

None == [kind |-> "none"]
Dark == [kind |-> "dark"]

-----------------------------------------------------------------------------
(* The host: update() sends panel after panel, then the halo, then SYNC.   *)
RowLength(y) == IF y < ROW_COUNT THEN COLUMN_COUNT ELSE HALO_PANELS

AtSync == next[2] = FS_ROWS

Datagram == IF AtSync THEN Sync ELSE Data(next, picture)

(* Mutant: no SYNC after the halo.                                         *)
After_NoSync(p) == IF p[1] + 1 < RowLength(p[2])
                     THEN <<p[1] + 1, p[2]>> ELSE <<0, (p[2] + 1) % FS_ROWS>>

(* The place after p in an update; after its SYNC the first of the next.   *)
After(p) == IF p[2] = FS_ROWS THEN <<0, 0>>
            ELSE IF p[1] + 1 < RowLength(p[2])
                   THEN <<p[1] + 1, p[2]>> ELSE <<0, p[2] + 1>>

(* syncPanel: setPixelVal and setHaloVal for a new picture, then update(). *)
(* One thread does both, so that a picture never changes within an update. *)
DrawPicture ==
  /\ next = <<0, 0>> /\ picture < MaxPictures
  /\ picture' = picture + 1
  /\ UNCHANGED <<next, socket, serverVars, panelVars, losses>>

Lose == losses < MaxLosses /\ losses' = losses + 1

SendPacket ==
  /\ next' = After(next)
  /\ \/ /\ Len(socket) < SocketSize
        /\ socket' = Append(socket, Datagram)
        /\ UNCHANGED losses
     \/ Lose /\ UNCHANGED socket
  /\ UNCHANGED <<picture, serverVars, panelVars>>

-----------------------------------------------------------------------------
(* fsserver: echo() takes the next datagram only when the last one is      *)
(* dealt with, sync_data included.                                         *)
Stored(d) == [panel_col |-> d.col, id |-> d.id, crc |-> TRUE, of |-> d.of,
              picture |-> d.picture]

(* Mutants: data is stored while sync_data runs; the row is not looked at. *)
ReceiveData_AnyTime ==
  /\ socket # <<>> /\ Head(socket).type = "data"
  /\ LET d == Head(socket)
     IN  Packets' = [Packets EXCEPT ![<<d.col, d.row>>] = Stored(d)]
  /\ socket' = Tail(socket)
  /\ UNCHANGED <<hostVars, column, panelVars, losses>>

ReceiveData_OneRow ==
  /\ column = Listening /\ socket # <<>> /\ Head(socket).type = "data"
  /\ LET d == Head(socket)
     IN  Packets' = [Packets EXCEPT ![<<d.col, 0>>] = Stored(d)]
  /\ socket' = Tail(socket)
  /\ UNCHANGED <<hostVars, column, panelVars, losses>>

ReceiveData ==
  /\ column = Listening /\ socket # <<>> /\ Head(socket).type = "data"
  /\ LET d == Head(socket)
     IN  Packets' = [Packets EXCEPT ![<<d.col, d.row>>] = Stored(d)]
  /\ socket' = Tail(socket)
  /\ UNCHANGED <<hostVars, column, panelVars, losses>>

(* Between two syncs the controller receives a whole update, which takes   *)
(* longer than a panel's pass over one frame: that is Paced.               *)
ReceiveSync ==
  /\ column = Listening /\ socket # <<>> /\ Head(socket).type = "sync"
  /\ Paced => \A p \in Panels : held[p] = None
  /\ column' = 0
  /\ socket' = Tail(socket)
  /\ UNCHANGED <<hostVars, Packets, panelVars, losses>>

(* Mutant: a frame that is held is overwritten.                            *)
TakesIn_Busy(p, frame) == frame.panel_col = p[1]

(* The frame of a slot goes out on the bus of its row, marked with its     *)
(* panel_col; the panel of that address takes it in if it holds none.      *)
TakesIn(p, frame) == held[p] = None /\ frame.panel_col = p[1]

SendColumn ==
  /\ column # Listening
  /\ column' = column + 1
  /\ \E missed \in {{}} \union { {p} : p \in Panels } :
       /\ IF missed = {} THEN UNCHANGED losses ELSE Lose
       /\ held' = [p \in Panels |->
                     IF p \notin missed /\ TakesIn(p, Packets[<<column, p[2]>>])
                       THEN Packets[<<column, p[2]>>] ELSE held[p]]
  /\ UNCHANGED <<hostVars, socket, Packets, shown>>

-----------------------------------------------------------------------------
(* Mutant: the CRC is not checked.                                         *)
Mine_AnyCRC(p, frame) == frame.id = p[1]

(* A panel shows what it took in, if it is good and its own, and is done.  *)
Mine(p, frame) == frame.crc /\ frame.id = p[1]

Show(p) ==
  /\ held[p] # None /\ Mine(p, held[p]) /\ shown[p] # held[p]
  /\ shown' = [shown EXCEPT ![p] = held[p]]
  /\ UNCHANGED <<hostVars, socket, serverVars, held, losses>>

LetGo(p) ==
  /\ held[p] # None
  /\ Mine(p, held[p]) => shown[p] = held[p]
  /\ held' = [held EXCEPT ![p] = None]
  /\ UNCHANGED <<hostVars, socket, serverVars, shown, losses>>

-----------------------------------------------------------------------------
(* awakeFromNib of LedPanel syncs once, all black: that is picture 1.      *)
Init == /\ picture = 1 /\ next = <<0, 0>>
        /\ socket = <<>>
        /\ Packets = [s \in Slots |-> Zero] /\ column = Listening
        /\ held = [p \in Panels |-> None]
        /\ shown = [p \in Panels |-> Dark]
        /\ losses = 0

Next == \/ DrawPicture \/ SendPacket
        \/ ReceiveData \/ ReceiveSync \/ SendColumn
        \/ \E p \in Panels : Show(p) \/ LetGo(p)

Spec == Init /\ [][Next]_vars

(* The render thread loops for ever, fsserver and the panels run.          *)
Fairness == /\ WF_vars(SendPacket)
            /\ WF_vars(ReceiveData \/ ReceiveSync \/ SendColumn)
            /\ \A p \in Panels : WF_vars(Show(p) \/ LetGo(p))

FairSpec == Spec /\ Fairness

-----------------------------------------------------------------------------
(* Properties.                                                             *)

(* Every variable keeps its type.                                          *)
DataType == [type : {"data"}, col : 0 .. COLUMN_COUNT - 1,
             row : 0 .. FS_ROWS - 1, id : 0 .. COLUMN_COUNT - 1, of : Slots,
             picture : Nat]

TypeOK == /\ picture \in 1 .. MaxPictures /\ next \in Panels \union {<<0, FS_ROWS>>}
          /\ socket \in Seq(DataType \union {Sync})
          /\ Packets \in [Slots -> PacketType]
          /\ column \in 0 .. COLUMN_COUNT
          /\ held \in [Panels -> PacketType \union {None}]
          /\ shown \in [Panels -> PacketType \union {Dark}]
          /\ losses \in 0 .. MaxLosses

(* The way to a panel is looked up under three different orders (update(): *)
(* rows then columns; Packets: [column][row]; buses: a bit per row, a mark *)
(* per column): still a panel shows only pixels drawn for it, and never a  *)
(* slot fsserver has received nothing for, which it sends all the same     *)
(* (fsserver.c:54-66, 257-259).                                            *)
OwnImage == \A p \in Panels : shown[p] # Dark => shown[p].of = p /\ shown[p].crc

(* With nothing lost, what a sync sends is one picture, although the host  *)
(* goes on sending the next while sync_data runs (fsserver.c:75-106): no   *)
(* column of it comes from an earlier or a later update.                   *)
OnePicture ==
  losses = 0 /\ column # Listening =>
    \A s, t \in Panels : Packets[s].picture = Packets[t].picture

(* The wall implements WallPromise: what a panel shows is its own, and     *)
(* goes forward only, whatever is lost and whenever.                       *)
Seen(p) == IF shown[p] = Dark THEN 0
           ELSE IF shown[p].of = p THEN shown[p].picture ELSE -1

Promise == INSTANCE WallPromise WITH drawn <- picture,
                                     seen <- [p \in Panels |-> Seen(p)]

ImplementsPromise == Promise!Spec

(* The panels of the wall are used as PanelDisplay allows.                 *)
Panel(p) == INSTANCE PanelDisplay WITH
              Addresses <- 0 .. COLUMN_COUNT - 1, Frames <- PacketType,
              address <- p[1], held <- held[p], shown <- shown[p]

PanelsKeepPromise == [][\A p \in Panels : [Panel(p)!Next]_(Panel(p)!vars)]_vars

(* Losses are healed by the next update that gets through: every panel     *)
(* comes to show every picture drawn, or one drawn after it.               *)
CatchesUp == \A p \in Panels : \A n \in 1 .. MaxPictures :
               picture >= n ~> Seen(p) >= n

-----------------------------------------------------------------------------
(* The inductive invariant behind OwnImage and ImplementsPromise: along    *)
(* the way - shown, held, slot, socket, host - pictures only get newer.    *)
DataAt(i) == socket[i].type = "data"

SocketInv == \A i \in 1 .. Len(socket) : DataAt(i) =>
               /\ socket[i].of = <<socket[i].col, socket[i].row>>
               /\ socket[i].id = socket[i].col
               /\ socket[i].picture <= picture
               /\ Packets[socket[i].of].picture <= socket[i].picture
               /\ \A j \in i .. Len(socket) :
                    DataAt(j) => socket[i].picture <= socket[j].picture

SlotInv == \A s \in Slots :
             /\ Packets[s].picture <= picture
             /\ Packets[s].crc => /\ Packets[s].of = s
                                 /\ Packets[s].id = s[1]
                                 /\ Packets[s].panel_col = s[1]

HeldInv == \A p \in Panels : held[p] # None /\ held[p].crc =>
             held[p].of = p /\ held[p].picture <= Packets[p].picture

ShownInv == \A p \in Panels : shown[p] # Dark =>
              /\ shown[p].crc /\ shown[p].of = p
              /\ shown[p].picture <= Packets[p].picture
              /\ held[p] # None /\ held[p].crc =>
                   shown[p].picture <= held[p].picture

IInv == TypeOK /\ SocketInv /\ SlotInv /\ HeldInv /\ ShownInv

(* The inductive invariant behind OnePicture: with nothing lost, the       *)
(* socket and then the host hold what update() sends, in its order; and    *)
(* the slots before the place of what is received next are of its picture. *)
InLine(i)  == IF i <= Len(socket) THEN socket[i] ELSE Datagram
PlaceOf(d) == IF d.type = "sync" THEN <<0, FS_ROWS>> ELSE <<d.col, d.row>>

Follows(d, e) == /\ PlaceOf(e) = After(PlaceOf(d))
                 /\ d.type = "data" /\ e.type = "data" => e.picture = d.picture

Before(p, q) == p[2] < q[2] \/ (p[2] = q[2] /\ p[1] < q[1])

SamePicture == \A s, t \in Panels : Packets[s].picture = Packets[t].picture

LineInv == \A i \in 1 .. Len(socket) :
             /\ DataAt(i) => PlaceOf(socket[i]) \in Panels
             /\ Follows(socket[i], InLine(i + 1))

FrontInv == /\ InLine(1).type = "data" =>
                 \A p \in Panels : Before(p, PlaceOf(InLine(1))) =>
                   Packets[p].picture = InLine(1).picture
            /\ InLine(1).type = "sync" => SamePicture
            /\ column # Listening => PlaceOf(InLine(1)) = <<0, 0>> /\ SamePicture

OrderInv == losses = 0 => LineInv /\ FrontInv

=============================================================================
