# Three works of the studio, modelled and checked

TLA+ modules, TLC runs and TLAPS proofs for the software in this repository, which
holds the code of several works of Rafael Lozano-Hemmer's studio. Three of them are
modelled:

- **Flatsun** (`src/Flatsun`): a wall of 8 x 8 LED panels and two halo panels, driven by a
  Macintosh application through a small Linux controller; several processors, interrupt
  handlers, a lossy network and persistent settings that all have to agree;
- **Cardinal Directions** (`src/Cardinal Directions`): an iPod on a turntable, and the
  Arduino below that turns it, with UDP commands between them;
- **33 Questions Per Minute** (`src/33 Questions Per Minute`): a Delphi program that makes
  questions against the clock, and lets visitors ask their own.

The others are inventoried below.

## 1. The system

**Flatsun.**

    host application (src/Flatsun/XCode, Objective-C)
      main thread   timers, UDP, buttons ──> Dimmer, season scheduler, settings
      render thread lock; updateSwing; render; syncPanel; unlock ──┐
                                                                   │ DisplayInterface::update
                                       66 DATA datagrams and a SYNC│ UDP, no acknowledgement
    controller (TS-7800, fsserver.c)                               v
      echo(): one datagram at a time; DATA -> Packets[col][row]; SYNC -> sync_data()
                                                                   │ /dev/flatsun
                        9 RS485 buses, one per row, column by column│ mark + 1036 words
    panels (STM32, Display/main.c)                                 v
      USART + DMA -> CommPacket -> LEDS -> SPI chain -> LED drivers <- TIM3 scan

### Components of Flatsun

| Component | State | Operations | Talks to |
|---|---|---|---|
| Panel firmware `ARM firmware/firmware/arm/Display/main.c`, `Packet.c` | `CommPacket`, `CommPacket_Available`, `LEDS`, `dot_value`, `data_active`, `Address`, `line`, `BLANK_Set`; the USART's mute bit, the DMA counter, the drivers' shift registers and latches | boot, the main loop's pass, `TIM3_IRQHandler`, `USART1_IRQHandler`, `DMA1_Channel5_IRQHandler` | the RS485 bus; the person at the address selector |
| Controller `TS-7800/Controller/fsserver.c` | `Packets[col][row]` | `echo`: store DATA, `sync_data` on SYNC | socket; `/dev/flatsun` |
| Kernel driver `TS-7800/Driver/flatsun/flatsun.c` | none between writes | `flatsun_write`: one word to each bus, interrupts off | the buses |
| Display interface `host/FlatSun/DisplayInterface.cpp` | `_panels`, `_halo` | `setPixel`, `setHalo`, `update`, `send_packet` | UDP |
| LED panel `XCode/LedPanel.m` | LED tables, gains, the look per season | `syncPanel`, setters | display interface, render thread's lock |
| Dimmer `XCode/Dimmer.m` and its sources `Serial.m`, `UdpSocket.m`, `FlatSunAppDelegate.m` | `value`, `fade`, `boost`; `dimmerSlider` | `update`, `jumpTo`, timer callbacks, UDP commands | serial knob, LED panel |
| Season store `XCode/Sphere.m`, `GLView.m`, `Settings.m` | live parameters, `season[]`, `swing`, `Settings.plist` | `setSeasonI`, setters, `updateSwing`, `endSwing`, home button, defaults, save, load | both threads through one recursive lock, which the home button does not hold |
| Season scheduler `XCode/FlatSunAppDelegate.m` | `timer`, `transitioning`, `seasonHistory`, `historyI`, seconds | `setAutoChangeSeasons`, `timerCallBack`, `changeSeason` | season store |
| Rendering, camera (`ReactDiffuse.m`, `Perlin.m`, `Camera.m`, ...) | images | floating-point graphics | - |

What is hard here: interrupts that preempt the panel's main loop anywhere; a DMA buffer
shared by hardware and program through one flag; frames that are cut, altered or merged;
datagrams lost or dropped by a full socket; a server that is deaf while it syncs; timers
that fire late; serial replies that arrive in pieces; two threads and a swing that
writes the parameters the user edits; settings that survive quits and are lost in crashes.

What makes each part correct, in a sentence:

- panel: only whole images of its own are ever shown, each row on its own line, and the
  panel recovers from any disturbance;
- placement: every point of a picture has an LED of its own, and both descriptions of
  the 16x16 panels at the wall's edge agree (of the 8x8 ones there is one only);
- wall: each panel shows its own part of a picture and never an older one after a newer,
  one sync sends one picture, and losses are healed;
- dimmer: the brightness it is heading for agrees with its mode, boosts end, readings
  are followed;
- season store: a season keeps the scene last edited into it through changes, swings cut
  short, quits and restarts, as long as nobody clicks the home button in mid-swing;
- scheduler: seasons go on changing, at the chosen pace, without early repeats.

### Components of Cardinal Directions

    visitors ──> motion sensors ┐                 ┌── report: position, sensors (UDP)
                 encoder, IR ───┴─> Arduino ──────┴──> iPod: testApp.mm ──> picture, sound
                                    motor <── s m h z (UDP, no acknowledgement) ──┘

| Component | State | Operations | Talks to |
|---|---|---|---|
| Encoder and homing `UDPAPP13_zeroG.pde`, `homingSensor.pde` | `counterValue`, `A_set`, `B_set`, `wrappedCounter`, `doHoming`, the sensor's debouncing | `ISR(PCINT1_vect)`, `loop()`, `checkIRsensor` | the table |
| Command holder `UDP.pde`, `motorControl.pde` | `message`, `last_temp_ID`, `motorTask` | `parse_msg`, `udpReceive`, `motorControl` | iPod, motor |
| Application `testApp.mm`, `MyGuiView.mm` | `initStage`, `motorStopped`, `personPresent`, `doRotate`, `defaulting`, timers, the operator's screen | `update`, `readUDP`, `shortSend_cmd`, double tap, the screen's switches, exit | Arduino, visitors through it, operator |

Hard here: the iPod believes what it last sent; commands are lost, overwritten while the
table homes, or ignored as repetitions; a 16-bit counter is shared with an interrupt on an
8-bit processor. Correct means: a homing ends at the sensor, a count that has been zeroed
follows the table, the iPod is right about the motor, a visitor moves the band, and the
table comes to rest.

### Components of 33 Questions Per Minute

| Component | State | Operations |
|---|---|---|
| Screen `Main.pas`, `Setup.pas`, the clock part of `QMakerU.pas` | `Edit`, `Lcd`, `EditTime`, `CountDownTime`, `LastQuestionTime`, `QCount`, settings | the timer, which the dialog puts off, key presses, the operator's dialog |
| Question maker `QMakerU.pas` | rings of phrases per list and of questions per group | `MakeNextQuestion` |

Hard here: a clock that starts again after 49.7 days, in a program that is built with overflow
and range checks; a visitor's text that raises an exception where its lines are laid out, in the
tick or in the dialog; a modal dialog that stops the timer but not the time; loops that end only
by their time-outs. Correct means: a question holds the screen for its period and no
longer than the failures since allow, a visitor's comes up on time if it can be laid out, the
screen is given back, and no question of the last hundred is repeated while there is time to
find another.

### The other works

`Bifurcation` (openFrameworks, and an Arduino that runs motor, servo and projector),
`Airborne`, `Blow Up` and `Eye Contact` (camera tracking and graphics, Delphi),
`Babbage Nanopamphlets` (images only). The repository's documents are `src/readme.md` and
`src/leame.md`, which say nothing of behaviour; there are no automated tests. The
disagreements found below are therefore with comments and with texts of the user interface.

## 2. Modules

| Module | Models | Extends / instantiates |
|---|---|---|
| `PanelFirmware` | one panel: main loop, interrupts, receiver, bus, selector | instantiates `PanelDisplay` |
| `PanelDisplay` | what a panel promises: a one-place register of whole frames | |
| `FlatsunWall` | host, socket, fsserver, buses, all panels | instantiates `PanelDisplay` per panel, and `WallPromise` |
| `WallPromise` | each panel moves forward through the pictures drawn | |
| `PixelPlacement` | LedPanel's `ledTable` and `syncPanel`, DisplayInterface's `coord_trans`, `setPixel`, `setHalo` | |
| `Dimmer` | Dimmer, its timers and readings | |
| `SeasonStore` | a live parameter, its seasons and swing, plist, frame and home button | instantiates `SeasonBook` |
| `SeasonBook` | a page per season, written by editing it, blurred by a click in mid-swing | |
| `SeasonScheduler` | timer, settings, ring of seasons | instantiates `SeasonPlaylist` |
| `SeasonPlaylist` | no pick repeats one of the last MAX_HISTORY | |
| `TurntableEncoder` | encoder, interrupt handler, homing sensor and `loop()` of the Arduino | |
| `CardinalDirections` | iPod, UDP, command holder and motor of the Arduino, visitors, operator | |
| `QuestionScreen` | screen, timer, clock, visitor's entry, dialog | |
| `QuestionMaker` | groups, phrases, questions and their rings | instantiates `QuestionPromise` |
| `QuestionPromise` | queues of the last phrases and questions, none repeated before time is up | |
| `MCPanelFirmware`, `MCSeasonStore`, `MCQuestionMaker` | values of constants for TLC | |
| `*_proofs` | the theorems about the module they are named after; `FlatsunWall_proofs` also about `PixelPlacement`, `Questions_proofs` about `QuestionScreen` and `QuestionMaker` | extend it and TLAPS |

### How state and actions correspond

**PanelFirmware.** Variables carry the names of `main.c`; `cndtr` is the DMA channel's
counter (0: channel and request disabled), `rwu` the USART's mute bit, `shift`, `gs`,
`dc` the driver chain and its two latches, `mode` the pin `LEDMode` sets. `Address` is
also the USART's own address, written right after it. The main loop is cut wherever an
interrupt can make a difference: each word of the `memcpy`, each driver block of
`UpdateLED` and `UpdateLEDDot`, each wait for `BLANK_Set`. Interrupts do not preempt one
another and finish within one word of the bus, so the arrival of a word, its DMA
transfer and the handlers it triggers are one step (`RxMark`, `RxData`, `Store`, `Arm`).
A mark that arrives while the channel runs is swallowed as data, since CNDTR is
read-only then. A frame is its mark and `PacketWords` words; a word is known by its
frame and place, and the CRC accepts exactly the whole frames that carry a right CRC.

**FlatsunWall.** A picture is its number, a pixel the panel it was drawn for and its
picture. `SendPacket` is one `send_packet`, in the order of `update`; `ReceiveData`,
`ReceiveSync` and `SendColumn` are `echo` and the outer loop of `sync_data`, one write of
all rows standing for a column's frame. Panels take part as `PanelDisplay` says:
`held` and `shown` per panel, and property `PanelsKeepPromise` checks that the wall uses
them only in ways `PanelDisplay` allows. Since `PanelFirmware` is proved to implement
`PanelDisplay`, the two models meet there.

**PixelPlacement.** One `syncPanel` after another, at full size: 256 x 256 points, 64
panels of 1024 bytes, 128 LEDs of the halo. The tables are the code's, rectangle by
rectangle. `coord_trans` lets a later special case override an earlier one; since the
16x16 rectangles are disjoint, and the 8x8 ones win over the edges that are blacked out, the model
asks for them in the order 8x8, edge, 16x16, grid. A byte is the picture, the element of
`led` it was read from and its scale, so that two points that share an LED are told apart.
`_xlatePanelIdx` and `_xlatePixelIdx` never change and are the function `xlate`. The pass
is under the lock; one step draws 16 rows, which only makes the trace readable.
`FlatsunWall` takes over where `Update` ends, with a panel's bytes as one pixel. Its
specification is `PlacementSpec`, so that one module can extend both.

**Dimmer.** One action per callback of the main run loop. Time is counted in 50 ms
timer periods, and the age of a fade or boost saturates at its duration, so a timer
that fires arbitrarily late is one of the behaviours. Real values (253, 0, 250, 127)
and the 8-bit halving are kept; durations are scaled down.

**SeasonStore.** The module follows one of about thirty parameters that swing; they share
`seasonI` and `swing.active` and nothing else, so that what holds of any one holds of each.
`kind` says which: an *angle* (sceneRx, sceneRz) and a *zoom* (camZ, fov) make up the scene,
which `copyVarsToSeason` takes from `swing.end*`; of a *look* it takes the live value. A
season change, the reset and the setters of the scene hold one recursive lock, and each is a
step. A frame of the render thread holds it too, but is cut where the home button can come
between: it takes the value to set (`FrameTakes`), sets it (`FrameSets`), and ends the swing
(`EndSwing`). That button's handler is GLView's (`MainMenu.xib:14576-14582`; the handler of the
same name in `Sphere.m` is connected to nothing) and holds the lock only in the two setters:
`HomeClicked` is `setSwingStartVars`, `HomeTurns` the setters, `HomeTakes` and `HomeWrites` the
read and the write of an end in `startSwing`, `HomeStarts` its last line. A float or BOOL is
read and written as a whole, in the order of the program, as the machines of the time do.
`OnItsWay` is a swing whose last frame has not set the parameter yet. `astray` is a history
variable: the button has read the parameter in mid-swing, and the picture has not come to rest
since. Interpolation may yield any value between the ends. The colour dividers are of none of
the kinds (`Sphere.m:1239` gives both one end) and are not modelled.

**SeasonScheduler.** `timer` is the seconds left of the one-shot NSTimer, or None;
`since` counts for the property about the minimum. `randomInt` yields every value up to
and including its argument, as rounding to float allows. `Picked` states what the search
loop of `changeSeason` ends with: the first free season from a random one on, around.
`seasonHistory` is zero at launch because Objective-C zeroes new objects (the `memset`
at `FlatSunAppDelegate.m:198` has its last arguments exchanged and clears nothing).

**TurntableEncoder.** `loop()` is cut at each access to `counterValue`, and an access at
its bytes: `Torn` is a read with the handler between the low and the high byte, `Zero` a
write with the handler between the high and the low one. `turn` is where the table stands, in
edges; `Rotate` moves it by one, `Handler` runs when a pin has changed and reads both pins,
so that edges that come too fast are missed (`missed`). The handler counts +2, -2 or nothing
per edge of B and reduces by the `%` of C. The count starts at 1
and moves by 2; `ParityInv` shows what that is good for: an odd count is never read as zero.

**CardinalDirections.** `Update` is a pass through `update()` with its calls in their order
(`PersonTimeout`, `SecondStop`, `BeginDefault`, `GoToDefault`, `Rotate`, or the operator's
`ReachNorth`, `ReachDefault`) and the `readUDP` at its end. A command is its letter, kept
by `wire` on its way and by `message` on the Arduino until `udpReceive` looks at it; an equal
one is ignored there. A timer that runs out is an input of the pass; the timers last seconds,
so one is found run out only once the commands before have been obeyed (`Prompt`). Angles
are a few places; `Turn` moves by one, and the iPod either hears of the place left or a
report is lost. Losses are bounded by `MaxLosses`; `inDoubt` remembers that one may matter.

**QuestionScreen.** `Clock` is `GetTickCount` going on, from `Wrap - 1` to 0. `TimerTimer`
is the whole handler, in the order of the code, with each operation that may raise an
exception cutting off what follows: the sum in `TimeForANewQuestion`, the `Integer` of
`SpanishQuestion`, the difference of two readings, and the layout of a visitor's text. Of
`ShowQuestion` only that matters: a first word wider than the screen with another after it has
`QLabel[0]` read at `Main.pas:279`, and other long words read past the text or leave its letters
in the lines. `Shown` lets any visitor's text do so when it takes the screen: the period has
begun and `Lcd` is gone, and the labels show what they did, or some new lines (`torn`). `unfit`
remembers it, until the program has made another question (its own words are taken to fit).
`FormKeyDown` and `EditKeyPress` are the visitor, `OpenSetup` and `CloseSetup` the operator.
`OpenSetup` puts the `timer` off; `Initialize` sets an alignment, whose handler lays the
question out again, so over an `unfit` one the dialog is freed unopened and the timer stays off.
`since` is the one of `EditTime` and `CountDownTime` that is still read; `lost` counts the
visitors' texts that could not be shown in place of the question on the screen.

**QuestionMaker.** `ChooseGroup` is the dice, `Try` one pass of the loop that takes three
phrases; a phrase is one not in its list's ring, or any if its tenth of a second is up
(`slips`), and the loop ends with a question not asked before or with the second (`late`).
The rings are the code's arrays with their index; `Queue` reads them as the queues of
`QuestionPromise`. Its specification is `MakerSpec`, so that one module can extend both halves
of the program.

## 3. Runs

Twelve runs, two of which show a disagreement.

| Run | Properties | Bounds |
|---|---|---|
| `panel` | `LedsWhole`, `DotCorrected`, `BufferStable`, `ImplementsDisplay`, `LatchedRow`, `Resync`, `AllLinesLit` | 2 addresses, 2 frames of 2 words, as the host sends them, 2 lines, 2 driver blocks, 2 disturbances, no overrun |
| `placement` | `PlacementTypeOK`, `PictureComplete`, `DimsSmallPanels`, `HaloComplete` | none: the wall as built; 5 pictures in turn |
| `wall` | `OwnImage`, `OnePicture`, `ImplementsPromise`, `PanelsKeepPromise`, `CatchesUp` | 2 panels and a halo panel in 2 columns, socket of 5, 3 pictures, 1 loss, paced |
| `dimmer` | `TargetMatchesMode`, `BoostsEnd`, `SettlesOrHeld` | 4 readings, fades of 1 and 2 ticks, boosts of 3, 3 moves |
| `dimmer_settles` | `Settles` is violated | 1 move |
| `seasons_store` | `ArrivedScene`, `KeepsTheBook` | a parameter of each kind, 2 seasons, 3 values |
| `scheduler` | `TimerWhileAuto`, `KeepsPlaylist`, `KeepsChanging` | 5 seasons, history of 3, 2 lengths, 2 changes of settings |
| `scheduler_minimum` | `LastsTheMinimum` is violated | 3 seasons, history of 2 |
| `turntable` | `HomesAtSensor`, `TracksToAPage`, `ReadsZeroAtAPage` | 8 counts a turn, bytes of 4 values |
| `cardinal` | `TypeOK`, `RightAboutMotor`, `ComesToRest`, `VisitorMovesBand` | 4 places, 2 sensors, 1 loss, a screen touched when no command is on its way |
| `question_screen` | `TypeOK`, `NeverStandsStill`, `ScreenGivenBack`, `HoldsItsQuestion`, `AnswersOnTime`, `KeepsAsking` | a clock of 12 readings, periods of 2 and 3, count-down of 4, entry of 3 |
| `question_maker` | `MakerTypeOK`, `KeepsPromise`, `AlwaysAsks` | lists of 1 and 3 phrases, rings of 2, 2 tries in time |

`TypeOK` of `PanelFirmware`, `FlatsunWall`, `Dimmer`, `SeasonStore`, `SeasonScheduler` and
`TurntableEncoder` is a theorem (section 5) and is not checked again by the runs.

**Why these bounds are enough.** A panel needs a frame of its own and one for a neighbour.
With two words a packet and two blocks both the copy and the chain have a mixed state, and a
torn packet two distinct halves; two lines tell the row being sent from the row that is
lit. One disturbance leaves the receiver in every state it can be in (half filled, swallowed
mark, mute or awake wrongly); the second lets it happen again during recovery. What this run
leaves out - main overrunning a tick, frames with other dot correction, the all-zero frame
of a slot never filled, longer packets - the theorems on the panel include: they
hold for any set of frames and any number of words, lines, blocks and disturbances. The wall
is the smallest with a slot nobody fills, a row of two panels and the halo; three
pictures let an old one be in the socket, a newer in a slot and the oldest on a panel; a
socket of 5 holds a whole update and the start of the next. Readings are below, at and above
every threshold of `Dimmer`, with the special case 1. Durations differ from one another, so
that a fade ends before, at and after a boost. Two seasons and three values suffice for
swings that are cut short on their way (a value strictly between its ends) in both
directions. A history of 3 wraps, and 5 seasons leave the search two free ones. `placement`
has no bounds but the number of pictures: its functions are finite, so the run settles them,
and the second picture shows that nothing of the one before is left. A turn of 8 counts over
bytes of 4 has counts of both signs on several pages of the high byte, a wrap within a page
and torn reads at each page's edge; the debounce delay of 0 leaves every order of the
sensor's readings. Four places put a sensor next to, opposite and away from the default
position; one loss hits each command and each report in every situation, and after it the
properties have to hold again. A clock of 12 readings lets the count-down, the entry and
several periods lie before, across and after half the range and its end. Rings of two
wrap, a list of one phrase is held by its ring as a whole and so is its group's question,
and lists 2 and 6 belong to two groups, as in the code.

**Configuration flags.** `Overrun`: TRUE lets a pixel clock tick come at any point of a
pass. `LedsWhole`, `DotCorrected`, `BufferStable` and `ImplementsDisplay` are proved for
either value; `LatchedRow` needs passes shorter
than a tick. A tick is about 0.7 ms and a pass sends 96 bytes by SPI, about 85
microseconds, so the code meets that by a wide margin, except that nothing enforces it.
`Paced`: a panel is done with a sync before the next one starts. A frame takes 5 ms on
its bus (1036 words of 11 bits at 2.25 Mbaud), a panel decides on it within two ticks,
and a sync of eight columns takes at least 40 ms, after which a whole update must arrive.
Unpaced, TLC finds a panel that misses every frame (a busy panel drops what comes), so
`CatchesUp` really depends on it; the safety properties of the wall are proved for
either value.
`SplitReads`: a read may return only the end of a serial reply; `read` promises no more.
`TargetMatchesMode` is proved for either value. `BoostsEnd` holds without such reads only: a
reply cut in two can count as 0, "the value needed to re-arm the boost" (`Dimmer.h:5`), with
the knob elsewhere, and a boost that ends is started again.

**Deadlock** is checked in every run: all the systems run for ever.

### Fairness

- `PanelFirmware.FairSpec`: weak fairness of the processor and the timer, which is a
  free-running clock, and of the word that is being sent; strong fairness of sending each
  frame, since the render thread refreshes the wall for ever and `sync_data` sends every
  slot each time, whatever else the bus carries in between. Disturbances are bounded:
  recovery is claimed once they stop. Nothing is assumed about when words arrive relative
  to the main loop.
- `FlatsunWall.FairSpec`: the render thread loops for ever, `fsserver` and each panel take
  steps; losses are bounded, and drawing new pictures is not assumed.
- `Dimmer.FairSpec`: timers fire eventually and time passes; the serial device answers
  again and again (strong fairness, because a late answer disables nothing).
- `SeasonScheduler.FairSpec`: time passes and a due timer fires.
- `CardinalDirections.FairSpec`: the application draws frame after frame and its timers run
  out, datagrams arrive or are lost, the Arduino's loop loops and a motor that is on turns the
  table. Nobody has to come or to touch the screen. `ComesToRest` and `VisitorMovesBand` claim
  nothing while a loss or the operator leaves the motor in doubt; a stop that arrives ends that.
- `QuestionScreen.FairSpec`: time passes, and the timer ticks while it is on. Nobody has to
  type, and a text need not fit.
- `QuestionMaker.MakerFairSpec`: the loops go on; `MaxTries` is the second, after which the clock
  ends them.

## 4. Findings

Where the code and what its comments or interface say part ways. Each is shown by one run.

1. **A reading that is ignored after a jump** (`dimmer_settles`). `jumpTo` leaves
   `fade.endValue`, and `update` starts a fade only towards another value. After launch
   (`setDimmerFromUdp : 200`) a slider or knob at 0 or a later UDP command followed by a
   reading whose half is the old target starts no fade: the wall stays where it jumped to,
   though `Dimmer.m:50` says such readings "go to 50%". `SettlesOrHeld` states what the
   code does keep, and holds.
2. **A first interval of zero** (`scheduler_minimum`). "Automatically change seasons
   between" (`MainMenu.xib:9168`) two times: `loadSettings` arms the timer before it loads
   them, and the season chosen at launch is replaced at once.

Six more facts show in properties that state what the code does instead. "Set all to default
losing all previous settings?" (`GLView.m:616`), confirmed in mid-swing, leaves the current
season its scene (`KeepsTheBook` allows that and no more). The home button
(`GLView.m:704-710`), clicked in mid-swing, gives the current season the zoom on its way as its
own (`astray` in `SeasonBook`); and since its `startSwing` holds no lock, it may cross the last
frame of a swing: it makes a value on its way the end of the swing, `endSwing` stops the swing
at the old end, and the next `setSeasonI` stores a scene that is not the one at rest on the
wall (the exception in `ArrivedScene`). The questions of 33 Questions Per Minute stop for good
once `LastQuestionTime` plus a period leaves the range of `GetTickCount`, after 49.7 days, and
Spanish ones fail from 24.9 days on (`KeepsAsking`, `NeverStandsStill` say how far it goes);
the settings dialog opened over a count-down can leave the count-down on the screen (`held` in
`ScreenGivenBack`). A visitor's text that cannot be laid out (`Main.pas:279`) takes a period
from the next question, with the old one left standing (`lost` in `NeverStandsStill`), and the
right button, clicked before the next, puts the timer off for good, because the exception skips
`Main.pas:132` (the last case of `KeepsAsking`). The second threshold of the dice that chooses
the group of phrases is a frequency where a sum is meant (`QMakerU.pas:356`), so with the
Spanish frequencies, 60, 20 and 20, group 2 never comes up (`MakerTypeOK`).

Seen while reading, but not stated as properties: `GLView.m:587` casts the difference
instead of the product, so the frame loop sleeps its full delay; `Sphere.m:1239` writes
`endColorDivisor1` where `endColorDivisor2` is meant; `Sphere.m:1328` leaves the fraction
out for `f1`; the reset timer of Bifurcation's Arduino overflows an `int` (line 107). In
Cardinal Directions a lost stop at the default position leaves the motor running until the next
visitor, and the operator's screen homes with `motorStopped` false, so that the next visitor
may find the band at rest; `message` of the Arduino first points to an empty literal
that `parse_msg` copies into. In 33 Questions Per Minute, a word wider than a line that is
neither the first nor the last is replaced by its first letter, over and over (`Main.pas:279`
does not advance).

## 5. Proofs

TLAPS checks every theorem and lemma of the eight `*_proofs` modules, for all values of the
constants that satisfy the assumptions declared with them (`FramesAssumption`,
`SizesAssumption`, `DimmerAssumption`, `StoreAssumption`, `SchedulerAssumption`,
`EncoderAssumption`, `CardinalAssumption`, `ScreenAssumption`, `MakerAssumption`,
`PicturesAssumption`; the wall has a `SizesAssumption` of its own: sizes are positive, values have their types, the history is
shorter than the list of seasons, a turn and the values of a byte are whole periods of the
encoder, a byte counts less than a turn and a word holds a count with its sign, the histories
count beyond the longest wait; TLC evaluates them in every run).

| Module | Theorems |
|---|---|
| `PanelFirmware_proofs` | `Invariance`, `TypeCorrect`, `LedsAlwaysWhole`, `AlwaysDotCorrected`, `BufferAlwaysStable`, `RowsLatched` (from `~Overrun`), `FirmwareImplementsDisplay` |
| `FlatsunWall_proofs` | `WallInvariance`, `WallTypeCorrect`, `WallOwnImage`, `WallKeepsPromise`, `WallOnePicture`, `WallUsesPanels`; of the placement `PlacementInvariant`, `PlacementTypeCorrect`, `AllPointsDrawn`, `SmallPanelsDimmed`, `HaloAlwaysComplete` |
| `Dimmer_proofs` | `DimmerInvariance`, `DimmerTypeCorrect`, `TargetAlwaysMatches` |
| `SeasonStore_proofs` | `StoreInvariance`, `StoreTypeCorrect`, `SceneArrives`, `StoreKeepsTheBook` |
| `SeasonScheduler_proofs` | `SchedulerInvariance`, `SchedulerTypeCorrect`, `TimerIsSetWhileAuto`, `SchedulerKeepsPlaylist` |
| `TurntableEncoder_proofs` | `EncoderTypeCorrect`, `HomingEndsAtSensor`, `CounterTracks`, `ZeroReadAtAPage` |
| `CardinalDirections_proofs` | `CardinalTypeCorrect`, `BeliefIsRight` |
| `Questions_proofs` | `ScreenTypeCorrect`, `ScreenHoldsItsQuestion`, `ScreenNeverStandsStill`, `ScreenIsGivenBack`, `ScreenAnswersOnTime`, `MakerTypeCorrect`, `MakerKeepsPromise` |

**The panel.** `LedsWhole` is not inductive: it says nothing of the buffer that is being
copied. `IInv` adds who owns `CommPacket` (`Ownership`: the DMA counter is 0 while the
flag is set), that what main works on is whole and good until it is released
(`PacketAccepted`), how far the copy is (`CopyProgress`), and what the chain holds while
dot correction is sent (`DotProgress`). All that receiver and bus may do is summed up in
one predicate of a step, `PacketStep`, which each action of the world is shown to satisfy
(`StoreStep`, `MarkStep`, `DataStep`, `WorldStep`); one lemma per step of main follows.
`BufferStable` is the action property behind it. `RowsLatched` adds `ScanInv`: between
the first block sent and the tick, the blocks sent hold the row of the next line.
`FirmwareImplementsDisplay` uses the mapping `Held`/`Shown` with one more invariant: the
accepted image is in `LEDS` while its dot correction is exchanged.

**The wall.** `OwnImage` is not inductive either: it depends on the frames held, the
slots and the datagrams in the socket. `IInv` says that along shown - held - slot -
socket - host pictures only get newer, in FIFO order within the socket, and that what is
good was drawn for the place it is at. `WallPromise` follows. `OnePicture` needs the
order as well: `OrderInv` says that, as long as nothing was lost, the datagrams in
the socket are those between two places of the host's walk, in its order (`LineInv`), and that the
slots filled so far hold the picture at the front (`FrontInv`). `WallUsesPanels` shows that
every step of the wall is, for each panel, a step of `PanelDisplay` or none; with
`FirmwareImplementsDisplay`, the promise the wall relies on is the one the firmware keeps.

**The placement.** The properties say what holds when a pass is done; `PlacementInv` says what
holds on the way: the rows drawn so far are on the panels (`Drawn`), panels that drive no
16x16 panel are never dimmed (`OthersBright`), and a byte of the halo, once drawn, has the LED
it belongs to (`HaloDrawn`). A band keeps the first only because no later point is drawn over
an earlier one, and that is the work. `Shows` says which bank a point is in without the
order in which `coord_trans` asks (`WhereCases`); that a bank has one point for each of its
pixels (`ShowsOnce`) the solver finds from the rectangles themselves, and a place tells
panel, bank and position back (`AtDecodes`), so two points with one LED are
one (`WhereInjective`, `XlateInjective`). The 8x8 panels are quarters of banks of the one
panel the grid leaves free (`TilesOnce`, `ShowsRange`). The two tables meet in
`ShowsDims`: on every point the case of `coord_trans` and LedPanel's list agree. Conversely
each bank of the panels concerned is filled from one square (`BankIsPanel16`, `BankLit`),
which LedPanel transposes onto itself (`TransposedInside`). For the halo, `LedOf` and
`HeightOf` are the inverse of setHalo's arithmetic (`HaloPixelRange`, `HaloPixelOnto`), from
which follow the sixteen pixels of an LED. TLC checked `PlacementInv` before it was proved.

**The dimmer.** The invariant is the type invariant with `TargetMatchesMode`; the work is
in `FadeInRange` (an interpolated fade stays between its ends, in 8 bits, by integer
division) and in the case distinctions of `update`.

**The store and the scheduler.** Types with `TimerWhileAuto` are inductive as they stand.
`ArrivedScene` needs what a frame and the home button hold in the middle of their handlers:
unless a value on its way was read (`astray`), the last frame sets what is still the end
(`FrameInv`), and the button takes a picture that has arrived (`HomeInv`). The refinements are step by step: `StoreKeepsTheBook` shows that the season array
together with the swing's end is a page per season (`PageIs`, `PageOfStep`), which neither
changing the season nor the frames write (`FrameStep`), and the home button only in mid-swing
(`HomeBookStep`), as `SeasonBook` says it may; `SchedulerKeepsPlaylist` that the ring read backwards from
`historyI` is a list shifted by each pick (`SlotsInRange`, `SlotsAllRead`, `SlotsShift`).

**The encoder.** No homing ends before the sensor has zeroed the count, because the count
starts odd, moves by two and is reduced by an even number; torn reads put together an odd low
byte, whatever the high one (`ParityInv`, `EvenDivisor`, `RemainderParity`). `CounterTracks`:
unless an edge is missed the table is at most one edge from where the handler saw it last
(`TableInv`), so what the handler adds is what B has turned by (`EdgesCounted`), modulo a
turn (`TrackInv`, `OneTurn`, `SamePins`, `RemainderTurns`); a torn zeroing leaves a page
(`ZeroedToAPage`). `ZeroReadAtAPage` is about a torn read, the high byte of one count over the
low byte of the one before. Half a word at most (`TornInWord`), it is taken for zero only if
it is zero or, with the sign of an earlier look, a turn below (`TakenForZero`). The handler
has moved the count by 2 at most, unless it passed the end of a turn (`CountedNear`), where no
multiple of a byte is since both are whole periods (`NotAtTheEnd`); so the count was zero or a
page beyond (`NextPage`, `TornZero`).

**Cardinal Directions.** The iPod's belief is set by what it sends, frames and datagrams
before the Arduino acts, so `RightAboutMotor` needs the commands on their way. `LastCommand` is
the last of them, or what the Arduino holds; `BeliefInv` says that the belief is that of
`LastCommand`, unless `inDoubt` remembers a loss or an operator, and `MotorInv` that the motor
does what the last command obeyed says, or has ended its homing. Several commands of one frame
and losses among them are the work: what gets through of a frame ends with what was
sent last, or that was lost (`GetsThrough`, over the increasing functions by which `Send`
picks what arrives), and the greatest of several sensors, where one would use induction, is
found as a least element of a well-founded order (`GreatestOf`). A lemma per part of
`update()` shows what it leaves the iPod believing (`PerformedBelieves`, `SensorsKeepBelief`);
one per step follows.

**The screen.** `HoldsItsQuestion` follows from `AgeInv`: the question is at least as old as
the time since the last period was started, over a restart of the clock too.
`NeverStandsStill` needs the reverse, `StillInv`: the question is older only by the periods of the
Spanish ones that have failed since it came up, no more of them than a run of one language is
long, and by a period for each visitor's text that was lost (`FailedSince`). `ScreenGivenBack` and `AnswersOnTime` rest on
three parts: the wait is the time since the entry or the count-down began (`SinceInv`), a
count-down past its end is one whose question has just failed (`CountDownInv`), and an entry
a tick has looked at is within its time (`EditInv`). They assume that the clock is finer
than a second and than a period.

**The question maker.** Its invariant, `MakerInv`, says how a ring without a count is known to
be partly empty (`IsRing`: the entries never written are those from its index on), that a
group comes up and has asked something only if the dice can choose it (`AskedInv`), and where
the loop is. `MakerKeepsPromise` is the refinement of `QuestionPromise`: `QueueShape` reads a
ring's queue entry by entry, `QueueHolds` says that the code's look back over the whole ring
finds what is in the queue, and `QueueRecorded` that writing at the index is appending, the
oldest leaving when the ring is full, which takes the cases of the index inside and at the
end. Lists shared by two groups make no difference, since a list is recorded by its name.

**Only model-checked.** Liveness under fairness (`Resync`, `AllLinesLit`, `CatchesUp`,
`BoostsEnd`, `SettlesOrHeld`, `KeepsChanging`, `ComesToRest`, `VisitorMovesBand`, `KeepsAsking`,
`AlwaysAsks`) is beyond this prover, as are ENABLED and induction over data; sequences are
therefore described entry by entry. Every other property of a passing run is a theorem.
The two disagreements are counterexamples of TLC. No module declares a RECURSIVE
operator.

## 6. Hazards, mutants, map

`PROJECT.json` lists 40 hazards of this code at their lines, with the properties that
would catch each one going wrong; a mutant for every
property of a passing run (a plausible slip in the code, defined beside the definition
it alters, and under which the property fails); and the lines of the source each
definition translates. Definitions for what is outside this code - noise on the bus, the
network, the knob, the user, the power - are marked external.

## 7. Not modelled

*Flatsun*: the bits of `FillBuffer` and `SetDotValue`; the sampling of the bitmap
(`placeHaloLeds`, the gains); the kernel driver's bits; the watchdog and diagnostic
LEDs; daemon start-up and the mode without `/dev/flatsun`; a season number received by
UDP that is no season; parameters that do not swing, and the colour dividers, which share one
swing end; the plist's format; rendering and
camera; the older host program (`host/Conroy`), bench programs and vendored libraries;
CRC32 itself, taken to tell whole frames from mixtures; USART overrun (ORE) at boot.
Compiler reordering: shared flags are taken in program order, although
`CommPacket_Available` is not volatile.

*Cardinal Directions*: the drawing and sound of the band, the pages of settings, the hidden
switch of the administrator, the speed command `f`, the radio stack.

*33 Questions Per Minute*: the lines a question is spread over and where they stand (whether
that raises is modelled, and taken not to for the program's own questions with the operator's
font), the message box of an exception, the log and configuration files, the password of the dialog, closing the program, the words themselves.

*Not at all*: `Bifurcation` (its Arduino is a sequence of motor, servo and projector
commands, its application graphics), `Airborne`, `Blow Up` and `Eye Contact`
(floating-point graphics over camera tracking), vendored code. Most of the repository's
lines are such code: peripheral libraries, camera headers, fonts, graphics.

## 8. What remains

The runs ask one question each, and the eight modules of proofs cover every component that is
modelled. What could be added, in this order:

1. *Lock and threads* of Flatsun: render thread, `stopThread` and quit, with `lock`,
   `ledPanel.lock` and the timers, for deadlock and for a quit that ends.
2. *Bits on the wires*: the 12 and 6 bit fields `FillBuffer` and `SetDotValue` pack, and
   `flatsun_write`'s inverted bits, as functions checked for every value.
3. *Season store*: the colour dividers, two of one kind that share one swing end.
4. *Bifurcation*: the Arduino's sequence with its 16-bit times.
5. *Proofs*: that `QuestionScreen` asks only what `QuestionMaker` makes, composed.
