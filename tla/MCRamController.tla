--------------------------- MODULE MCRamController ---------------------------
(* Instances of RamController: two bytes in which the CPU stores bytes and  *)
(* words, of which a reset forgets one (the other is in the block RAM, as   *)
(* the backend allows), next to a byte of the BIOS ROM.                     *)
EXTENDS RamController

MCAddr == 0 .. 2
MCStores == {<<0, 0>>, <<1, 0>>}
MCRomStores == {<<2, 0>>}
=============================================================================
