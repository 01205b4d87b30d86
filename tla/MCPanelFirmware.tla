-------------------------- MODULE MCPanelFirmware --------------------------
(* Instances of PanelFirmware for TLC. *)
EXTENDS PanelFirmware

Frame(name, addr, dot, crc) ==
  [image |-> name, addr |-> addr, id |-> addr, dot_cor |-> dot, crc |-> crc]

(* An image for panel 0 and one for its neighbour, with the dot correction *)
(* the host always sends, 20.                                              *)
MCHostFrames == { Frame("a", 0, 20, TRUE), Frame("n", 1, 20, TRUE) }
=============================================================================
