--------------------------- MODULE MCModbusMaster ---------------------------
(* A gateway with two devices: a pair of coils that crosses a byte, read every   *)
(* cycle and zeroed on failure; a double word that two outputs write, one of them *)
(* every second cycle, and that is read back every second cycle; a point whose    *)
(* offset does not parse.                                                         *)
EXTENDS ModbusMaster

CONSTANTS gateway, coils, double

Unit(at, fc, area, size, byte, bit, length, cycle, zero, parses) ==
    [key |-> gateway, at |-> at, fc |-> fc, area |-> area, size |-> size, byte |-> byte,
     bit |-> bit, length |-> length, cycle |-> cycle, zero |-> zero, parses |-> parses]

MCPoints ==
    <<Unit(coils, "read", "I", "X", 0, 7, 2, 100, TRUE, TRUE),
      Unit(coils, "read", "I", "X", 4, 0, 2, 200, TRUE, FALSE),
      Unit(double, "read", "I", "D", 0, 0, 1, 200, FALSE, TRUE),
      Unit(double, "write", "Q", "D", 0, 0, 1, 100, FALSE, TRUE),
      Unit(double, "write", "Q", "D", 1, 0, 1, 200, FALSE, TRUE)>>
MCField == {coils}
MCValues == {0, 1}
=============================================================================
