------------------------------- MODULE ByteBus -------------------------------
(***************************************************************************)
(* What the byte bus between the chipset's memory controller and the       *)
(* memory backend promises, one clock at a time: commands are taken one by *)
(* one, every read that was taken gets exactly one beat, in order, with    *)
(* the byte the memory held when it was taken.  A reset of the memory side *)
(* (the button) takes no commands, answers the reads it killed with dummy  *)
(* beats before it lets go, and leaves the contents of the RAM unknown:    *)
(* bytes written before it may be lost and the self test writes over some. *)
(* MemBackend implements this module; RamController is built on it.        *)
(***************************************************************************)
EXTENDS Naturals, Sequences

CONSTANTS
  Addr,           \* the byte addresses in use
  Byte,           \* the values a byte takes
  Block,          \* those in block RAM: the ROM windows
  ReadOnly,       \* the system BIOS window, which drops writes
  RomByte,        \* what the bytes of the ROM windows hold at first
  Dummy,          \* the FF that answers a read the reset killed
  Unknown,        \* contents nobody may rely on
  None            \* no beat

ASSUME BusAssumption ==
  /\ ReadOnly \subseteq Block /\ Block \subseteq Addr /\ RomByte \in Byte
  /\ Dummy \notin Byte /\ Unknown \notin Byte /\ None \notin Byte
  /\ Dummy # Unknown /\ Dummy # None /\ Unknown # None

VARIABLES
  told,           \* what a read of each byte must return
  owed,           \* the reads taken and not answered, oldest first
  held,           \* the memory side is in reset or tests itself
  last            \* the beat of the last clock
busVars == <<told, owed, held, last>>

Commands == [op : {"read", "write"}, a : Addr, d : Byte]
NoCommand == [op |-> "none", a |-> CHOOSE a \in Addr : TRUE, d |-> RomByte]
Beats == Byte \cup {Dummy, Unknown}

(* Contents after a reset: only the block RAM keeps what it held.          *)
Forget(mem) == [a \in Addr |-> IF a \in Block THEN mem[a] ELSE Unknown]

BusType ==
  /\ told \in [Addr -> Byte \cup {Unknown}]
  /\ owed \in Seq([a : Addr, d : Byte \cup {Unknown}])
  /\ held \in BOOLEAN /\ last \in Beats \cup {None}

BusInit ==
  /\ told = Forget([a \in Addr |-> RomByte]) /\ owed = <<>> /\ held = TRUE
  /\ last = None

(* The beat a read may be answered with: its byte, anything if its         *)
(* contents are unknown (Unknown stands for that, too); while the reset    *)
(* lasts, a dummy if the byte comes from the HyperRAM.                     *)
Answers(read) ==
  (IF read.d = Unknown THEN Byte \cup {Unknown} ELSE {read.d})
    \cup (IF held /\ read.a \notin Block THEN {Dummy} ELSE {})

(* What a clock leaves to be answered, and what the memory holds after it. *)
Records(taken, beat, drops) ==
  /\ last' = beat
  /\ owed' = (IF beat = None \/ owed = <<>> THEN owed ELSE Tail(owed))
               \o (IF taken.op # "read" THEN <<>>
                   ELSE <<[a |-> taken.a, d |-> told[taken.a]]>>)
  /\ LET after == IF taken.op = "write" /\ taken.a \notin ReadOnly
                  THEN [told EXCEPT ![taken.a] = taken.d] ELSE told
     IN told' = IF drops THEN Forget(after) ELSE after

(* One clock: taken is the command accepted at its edge, beat the answer   *)
(* presented, hold whether the reset is on in the next clock.              *)
Clock(taken, beat, hold) ==
  /\ held' = hold
  /\ held => taken = NoCommand
  /\ beat # None => owed # <<>> /\ beat \in Answers(Head(owed))
  /\ held /\ ~hold => owed = <<>>
  /\ Records(taken, beat, hold /\ ~held)

BusNext == \E hold \in BOOLEAN, beat \in Beats \cup {None},
              taken \in Commands \cup {NoCommand} : Clock(taken, beat, hold)

BusSpec == BusInit /\ [][BusNext]_busVars
=============================================================================
