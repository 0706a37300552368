----------------------------- MODULE MCPcanDevice -----------------------------
(***************************************************************************)
(* PcanDevice with two devices of each kind: together on an interrupt      *)
(* level, a board or a card, or apart.                                     *)
(***************************************************************************)
EXTENDS PcanDevice

Both(kind1, kind2, board1, board2, old, bound) ==
    [kind |-> <<kind1, kind2>>, board |-> <<board1, board2>>, old |-> old, troubles |-> bound]

MCSetups == {Both("isa", "isa", 5, 5, FALSE, 2), Both("pci", "pci", 1, 1, FALSE, 2),
             Both("dongle", "usb", 1, 1, FALSE, 2),
             Both("pccard", "pccard", 1, 1, FALSE, 2), Both("pccard", "pccard", 1, 2, FALSE, 0),
             Both("pccard", "pccard", 1, 1, TRUE, 2)}
===============================================================================
