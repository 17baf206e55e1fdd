----------------------------- MODULE MCMemBackend -----------------------------
(* Instance of MemBackend: two words of HyperRAM, of which the CPU writes   *)
(* one byte and the self test two, a byte of the BIOS window and one of a   *)
(* ROM window that takes writes.                                            *)
EXTENDS MemBackend

MCAddr == 0 .. 5
MCStores == {<<3, 0>>, <<5, 0>>}
MCSelfTest == <<<<3, 1>>, <<0, 0>>, <<1, 1>>>>
MCConfigs == [cache : BOOLEAN, bist : {TRUE}] \cup [cache : {FALSE}, bist : {FALSE}]
=============================================================================
