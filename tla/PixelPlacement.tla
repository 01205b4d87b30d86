--------------------------- MODULE PixelPlacement ---------------------------
(***************************************************************************)
(* Where the pixels of a picture end up: one syncPanel of LedPanel.m after *)
(* another, from the array led through ledTable and DisplayInterface's     *)
(* setPixel and setHalo to the bytes of the panels.  Sizes and tables are  *)
(* those of the code.                                                      *)
(*                                                                         *)
(* Two tables written by hand, in two files, describe the same wall: the   *)
(* places of the 16x16 and 8x8 panels in LedPanel.m, which turns and dims  *)
(* what it draws there, and the special cases of coord_trans, which put    *)
(* those panels at unused places of the 8 x 8 grid of 32x32 panels.        *)
(*                                                                         *)
(* A byte is <<n, x, y, scale>>: the picture it is of, the element of led  *)
(* it was read from, and the scale in hundredths.  The render thread holds its     *)
(* lock during a pass, so led does not change meanwhile; one step draws a  *)
(* band of 16 rows.                                                        *)
(***************************************************************************)
EXTENDS Integers, FiniteSets

CONSTANT Pictures   (* The pictures drawn, in turn: 1 .. Pictures.         *)

ASSUME PicturesAssumption == Pictures \in Nat \ {0}

COLS == 256                             (* MAX_X                           *)
ROWS == 256                             (* MAX_Y                           *)
HALO_LEDS == 128
BAND == 16                              (* Rows drawn in a step.          *)
PANEL_COUNT == 64
PANEL_SIZE == 1024
HALO_SIZE == 2 * PANEL_SIZE

X == 0 .. COLS - 1
Y == 0 .. ROWS - 1
PanelNumbers == 0 .. PANEL_COUNT - 1
PixelNumbers == 0 .. PANEL_SIZE - 1
HaloBytes == 0 .. HALO_SIZE - 1
HaloLeds == 0 .. HALO_LEDS - 1

VARIABLES
  image,           (* The picture in led and halo.                         *)
  row,             (* The next row of the pass; ROWS when all are drawn,   *)
                   (* ROWS + 1 when the halo is.                           *)
  panels,          (* _panels                                              *)
  halo             (* _halo                                                *)

placementVars == <<image, row, panels, halo>>

-----------------------------------------------------------------------------
(* LedPanel's tables.                                                      *)

(* Is (x, y) in the rectangle r = <<x1, x2, y1, y2>>, x2 and y2 excluded?  *)
In(x, y, r) == r[1] <= x /\ x < r[2] /\ r[3] <= y /\ y < r[4]

Square(corner, side) ==
  <<corner[1], corner[1] + side, corner[2], corner[2] + side>>

panel16 ==
  { <<16, 48>>, <<16, 64>>, <<16, 80>>, <<0, 80>>, <<0, 160>>, <<16, 160>>,
    <<16, 176>>, <<16, 192>>, <<48, 16>>, <<48, 224>>, <<80, 0>>, <<64, 16>>,
    <<80, 16>>, <<64, 224>>, <<80, 224>>, <<80, 240>>, <<160, 0>>,
    <<160, 16>>, <<176, 16>>, <<192, 16>>, <<160, 224>>, <<176, 224>>,
    <<192, 224>>, <<160, 240>>, <<224, 48>>, <<224, 64>>, <<224, 80>>,
    <<240, 80>>, <<224, 160>>, <<240, 160>>, <<224, 176>>, <<224, 192>> }

panel8 ==
  { <<64, 8>>, <<72, 8>>, <<176, 8>>, <<182, 8>>, <<40, 24>>, <<208, 24>>,
    <<24, 40>>, <<8, 64>>, <<8, 72>>, <<224, 40>>, <<240, 64>>, <<240, 72>>,
    <<8, 176>>, <<8, 182>>, <<240, 176>>, <<240, 182>>, <<24, 208>>,
    <<224, 208>>, <<40, 240>>, <<208, 224>>, <<64, 240>>, <<72, 240>>,
    <<176, 240>>, <<182, 240>> }

(* Mutant: the left edge of a panel is not inside.                         *)
Is16x16_Strict(x, y) == \E p \in panel16 : In(x, y, Square(p, 16)) /\ x > p[1]

Is16x16(x, y) == \E p \in panel16 : In(x, y, Square(p, 16))
Is8x8(x, y) == \E p \in panel8 : In(x, y, Square(p, 8))

(* Mutant: the corner of the panel is subtracted from the wrong axis.      *)
LedTableEntry_Crossed(x, y) ==
  IF Is16x16(x, y)
    THEN LET p == CHOOSE q \in panel16 : In(x, y, Square(q, 16))
         IN  [x |-> p[1] + (y - p[2]), y |-> p[1] + (x - p[2]), scale |-> 30]
    ELSE IF Is8x8(x, y) THEN [x |-> 0, y |-> 0, scale |-> 0]
                        ELSE [x |-> x, y |-> y, scale |-> 100]

(* buildLedTable: the element of led a point shows, and its scale.  A      *)
(* 16x16 panel is transposed, an 8x8 panel dark.                           *)
LedTableEntry(x, y) ==
  IF Is16x16(x, y)
    THEN LET p == CHOOSE q \in panel16 : In(x, y, Square(q, 16))
         IN  [x |-> p[1] + (y - p[2]), y |-> p[2] + (x - p[1]), scale |-> 30]
    ELSE IF Is8x8(x, y) THEN [x |-> 0, y |-> 0, scale |-> 0]
                        ELSE [x |-> x, y |-> y, scale |-> 100]

ledTable == [p \in X \X Y |-> LedTableEntry(p[1], p[2])]

-----------------------------------------------------------------------------
(* coord_trans, with y already inverted.                                   *)

(* The edges outside the circle.                                           *)
Blackout ==
  { <<0, 16, 0, 80>>, <<0, 16, 176, 256>>, <<16, 32, 0, 48>>,
    <<16, 32, 208, 256>>, <<32, 48, 0, 32>>, <<32, 48, 224, 256>>,
    <<48, 80, 0, 16>>, <<48, 80, 240, 256>>, <<176, 208, 0, 16>>,
    <<176, 208, 240, 256>>, <<208, 224, 0, 32>>, <<208, 224, 224, 256>>,
    <<224, 240, 0, 48>>, <<224, 240, 208, 256>>, <<240, 256, 0, 80>>,
    <<240, 256, 176, 256>> }

(* Mutant: the banks of a panel, counted from the other end of y.          *)
Quadrant_Flipped(x, y) == IF y % 32 < 16 THEN (IF x % 32 < 16 THEN 1 ELSE 0)
                                         ELSE (IF x % 32 < 16 THEN 3 ELSE 2)

(* The bank of a point in its 32x32 panel.                                 *)
Quadrant(x, y) == IF y % 32 < 16 THEN (IF x % 32 < 16 THEN 3 ELSE 2)
                                 ELSE (IF x % 32 < 16 THEN 1 ELSE 0)

(* The 16x16 panels stand in for the panels of the grid that the circle    *)
(* leaves out.  Four in a 32x32 area keep their banks; one more next to    *)
(* each such area takes the bank that is blacked out in it.                *)
Area(rect, col, gridRow) == [rect |-> rect, col |-> col, row |-> gridRow]

Areas16 ==
  { Area(<<0, 32, 64, 96>>, 0, 2),     Area(<<64, 96, 0, 32>>, 0, 1),
    Area(<<160, 192, 0, 32>>, 7, 1),   Area(<<224, 256, 64, 96>>, 7, 2),
    Area(<<0, 32, 160, 192>>, 0, 5),   Area(<<64, 96, 224, 256>>, 0, 6),
    Area(<<160, 192, 224, 256>>, 7, 6), Area(<<224, 256, 160, 192>>, 7, 5) }

Single(rect, bank, col, gridRow) ==
  [rect |-> rect, bank |-> bank, col |-> col, row |-> gridRow]

Singles16 ==
  { Single(<<16, 32, 48, 64>>, 3, 0, 2),     Single(<<48, 64, 16, 32>>, 3, 0, 1),
    Single(<<192, 208, 16, 32>>, 2, 7, 1),   Single(<<224, 240, 48, 64>>, 2, 7, 2),
    Single(<<16, 32, 192, 208>>, 1, 0, 5),   Single(<<48, 64, 224, 240>>, 1, 0, 6),
    Single(<<192, 208, 224, 240>>, 0, 7, 6), Single(<<224, 240, 192, 208>>, 0, 7, 5) }

(* The 8x8 panels, all driven by the panel at column 0 of grid row 7: the  *)
(* corner of each, its bank and where it starts in that.                   *)
Tile(x, y, bank, atX, atY) ==
  [corner |-> <<x, y>>, bank |-> bank, at |-> <<atX, atY>>]

Tiles8 ==
  { Tile(8, 72, 0, 0, 0),   Tile(72, 8, 0, 8, 0),
    Tile(176, 8, 1, 0, 0),  Tile(240, 72, 1, 8, 0),
    Tile(8, 176, 2, 0, 8),  Tile(72, 240, 2, 8, 8),
    Tile(176, 240, 3, 0, 8), Tile(240, 176, 3, 8, 8) }

Nowhere == [panel |-> -1, pixel |-> -1]

(* The pixel at (x, y) of a bank, counted from the right.                  *)
PixelIndex(bank, x, y) == bank * 256 + (y % 16) * 16 + (15 - (x % 16))

At(col, gridRow, bank, x, y) ==
  [panel |-> gridRow * 8 + col, pixel |-> PixelIndex(bank, x, y)]

coord_trans(x, yUp) ==
  LET y == ROWS - yUp - 1               (* "Invert the Y coordinate"       *)
      tiles == { t \in Tiles8 : In(x, y, Square(t.corner, 8)) }
      singles == { m \in Singles16 : In(x, y, m.rect) }
      areas == { a \in Areas16 : In(x, y, a.rect) }
  IN  IF tiles # {} THEN
        LET t == CHOOSE u \in tiles : TRUE
        IN  At(0, 7, t.bank, x - t.corner[1] + t.at[1], y - t.corner[2] + t.at[2])
      ELSE IF \E r \in Blackout : In(x, y, r) THEN Nowhere
      ELSE IF singles # {} THEN
        LET m == CHOOSE n \in singles : TRUE
        IN  At(m.col, m.row, m.bank, x, y)
      ELSE IF areas # {} THEN
        LET a == CHOOSE b \in areas : TRUE
        IN  At(a.col, a.row, Quadrant(x, y), x, y)
      ELSE At(x \div 32, y \div 32, Quadrant(x, y), x, y)

(* _xlatePanelIdx and _xlatePixelIdx, filled by the constructor.           *)
xlate == [p \in X \X Y |-> coord_trans(p[1], p[2])]

-----------------------------------------------------------------------------
(* setHalo: each LED of the halo is a column of 16 pixels in one of the    *)
(* four banks of one of the two halo panels, half a panel further round.   *)

(* Mutant: the columns of a bank are off by one, one of them used twice.   *)
HaloPixel_Off(pos, y) ==
  LET p == (pos + 32) % 128
      q == p % 64
  IN  (p \div 64) * PANEL_SIZE + (3 - q \div 16) * 256 + y * 16 + 15 - (q % 15)

HaloPixel(pos, y) ==
  LET p == (pos + 32) % 128
      q == p % 64
  IN  (p \div 64) * PANEL_SIZE + PixelIndex(3 - q \div 16, q, y)

HaloPixels(pos) == { HaloPixel(pos, y) : y \in 0 .. 15 }

-----------------------------------------------------------------------------
(* The pass.                                                               *)
Off == <<0, 0, 0, 0>>

(* The byte for the point (c, r).                                          *)
Pixel(c, r) ==
  LET e == ledTable[<<c, r>>]
  IN  IF e.scale = 0 THEN Off ELSE <<image, e.x, e.y, e.scale>>

(* A byte of the halo: picture and LED.                                    *)
HaloOff == <<0, 0>>

(* The calls of setPixel for a band of rows that concern an LED, n being   *)
(* their order.                                                            *)
Writes(first) ==
  { w \in { [at |-> xlate[<<c, r>>], n |-> r * COLS + c, byte |-> Pixel(c, r)]
           : c \in X, r \in first .. first + BAND - 1 } : w.at # Nowhere }

(* The bytes of a panel after these writes: what is set last stays.        *)
Written(bytes, writes) ==
  LET pixels == { w.at.pixel : w \in writes }
      Last(i) == CHOOSE w \in writes :
                   /\ w.at.pixel = i
                   /\ \A v \in writes : v.at.pixel = i => v.n <= w.n
  IN  IF writes = {} THEN bytes
      ELSE [i \in DOMAIN bytes |-> IF i \in pixels THEN Last(i).byte ELSE bytes[i]]

DrawRows ==
  /\ row < ROWS
  /\ row' = row + BAND
  /\ \E writes \in {Writes(row)} :
       panels' = [p \in PanelNumbers |->
                   Written(panels[p], { w \in writes : w.at.panel = p })]
  /\ UNCHANGED <<image, halo>>

(* The halo's LEDs in turn: a byte keeps what is set last.                 *)
DrawHalo ==
  /\ row = ROWS
  /\ row' = row + 1
  /\ halo' = [b \in HaloBytes |->
               LET leds == { i \in HaloLeds : b \in HaloPixels(i) }
               IN  IF leds = {} THEN halo[b]
                   ELSE <<image, CHOOSE i \in leds : \A j \in leds : j <= i>>]
  /\ UNCHANGED <<image, panels>>

(* update sends all of it, and the render thread draws the next picture.   *)
Update ==
  /\ row = ROWS + 1
  /\ row' = 0
  /\ image' = (image % Pictures) + 1
  /\ UNCHANGED <<panels, halo>>

PlacementInit ==
  /\ image = 1
  /\ row = 0
  /\ panels = [p \in PanelNumbers |-> [i \in PixelNumbers |-> Off]]
  /\ halo = [b \in HaloBytes |-> HaloOff]

PlacementNext == DrawRows \/ DrawHalo \/ Update

PlacementSpec == PlacementInit /\ [][PlacementNext]_placementVars

-----------------------------------------------------------------------------
(* Properties.                                                             *)
Byte == (0 .. Pictures) \X X \X Y \X {0, 30, 100}

PanelOK(bytes) ==
  DOMAIN bytes = PixelNumbers /\ \A i \in PixelNumbers : bytes[i] \in Byte

PlacementTypeOK ==
  /\ image \in 1 .. Pictures
  /\ row \in 0 .. ROWS + 1
  /\ DOMAIN panels = PanelNumbers /\ \A p \in PanelNumbers : PanelOK(panels[p])
  /\ halo \in [HaloBytes -> (0 .. Pictures) \X HaloLeds]

(* What update sends is the picture: every point that has an LED is on it, *)
(* in its own brightness.  No point is lost to another, drawn later, that  *)
(* coord_trans puts at the same LED, and none is left from a picture       *)
(* before (DisplayInterface.cpp:81-202, LedPanel.m:344-355).               *)
PictureComplete ==
  row = ROWS + 1 =>
    \A p \in X \X Y :
      LET to == xlate[p]
      IN  to # Nowhere => panels[to.panel][to.pixel] = Pixel(p[1], p[2])

(* LedPanel.m and coord_trans agree on what is a 16x16 panel: exactly the  *)
(* bytes of the grid panels that drive four of them are dimmed, and each   *)
(* of their banks shows one of LedPanel's squares (LedPanel.m:776-870 and  *)
(* 922-950 against DisplayInterface.cpp:139-162).                          *)
SmallPanels == { a.row * 8 + a.col : a \in Areas16 }

DimsSmallPanels ==
  row = ROWS + 1 =>
    /\ \A p \in DOMAIN panels : \A i \in DOMAIN panels[p] :
         p \in SmallPanels <=> panels[p][i][4] = 30
    /\ \A p \in SmallPanels : \A bank \in 0 .. 3 :
         \E q \in panel16 :
           \A i \in bank * 256 .. bank * 256 + 255 :
             In(panels[p][i][2], panels[p][i][3], Square(q, 16))

(* The 16 pixels of every LED of the halo show it, in one column of one    *)
(* bank, and every byte of the two halo panels belongs to one              *)
(* (DisplayInterface.cpp:204-247).                                         *)
HaloComplete ==
  row = ROWS + 1 =>
    /\ \A b \in DOMAIN halo : halo[b][1] = image
    /\ \A i \in HaloLeds :
         LET pixels == { b \in DOMAIN halo : halo[b][2] = i }
         IN  /\ Cardinality(pixels) = 16
             /\ \A a, b \in pixels : a % 16 = b % 16 /\ a \div 256 = b \div 256

=============================================================================
