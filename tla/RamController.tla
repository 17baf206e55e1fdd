---------------------------- MODULE RamController ----------------------------
(***************************************************************************)
(* The chipset's memory controller: RAM.sv, which serves the bus cycles of *)
(* the CPU and of the refresh DMA and keeps two bytes it read ahead, and   *)
(* KFSDRAM.sv, which turns each access into one or two byte transfers.     *)
(* Both run on one clock, so a step is one clock of both and of the byte   *)
(* bus below them (ByteBus).                                               *)
(***************************************************************************)
EXTENDS ByteBus

CONSTANTS
  RowEnd,         \* addresses after which a burst would wrap: no read-ahead
  Protected,      \* the write-protected ROM windows
  Stores,         \* the bytes the CPU writes: <<address, byte>>
  RefreshAddr,    \* the addresses the refresh DMA reads
  WordAddr,       \* even addresses the 8086 reads and writes as words
  MaxResets       \* bound on the presses of the reset button

(* The byte after one read ahead exists unless the row ends there, and so  *)
(* does the upper byte of a word.  The refresh DMA may read any address,   *)
(* also one the program reads words at.                                    *)
ASSUME ControllerAssumption ==
  /\ Addr \subseteq Nat /\ Addr # {}
  /\ \A a \in Addr \ RowEnd : a + 1 \in Addr
  /\ WordAddr \subseteq Addr /\ \A a \in WordAddr : a + 1 \in Addr
  /\ RefreshAddr \subseteq Addr
  /\ Stores \subseteq Addr \X Byte
  /\ MaxResets \in Nat

VARIABLES
  bus,            \* the command on the chipset's bus
  booting,        \* the CPU comes out of reset: it fetches from the BIOS next
  fast,           \* clk_select[1]: the read-ahead is enabled
  ram,            \* RAM.sv: the state, the latched access, which burst it is,
                  \* whether its first beat has passed, access_ready
  out,            \* data_bus_out_reg and data_bus_out_hi
  look,           \* the two bytes read ahead
  victim,         \* the one the next read-ahead replaces
  kfs,            \* KFSDRAM: the access it works on and what it shows RAM.sv
  req,            \* the command it holds on the byte bus
  resets          \* presses so far
vars == <<told, owed, held, last, bus, booting, fast, ram, out, look,
          victim, kfs, req, resets>>

Bytes == Byte \cup {Dummy, Unknown}
First == CHOOSE a \in Addr : TRUE

(***************************************************************************)
(* The bus cycles: reads and writes of the CPU, of a byte or of a word,    *)
(* and the refresh DMA's reads, whose data nobody takes.                   *)
(***************************************************************************)
Idle == [op |-> "none", a |-> First, d |-> RomByte, hi |-> RomByte,
         word |-> FALSE, first |-> FALSE]
Cycle(op, a, d, hi, word) ==
  [op |-> op, a |-> a, d |-> d, hi |-> hi, word |-> word, first |-> TRUE]

Reads == {Cycle("read", a, RomByte, RomByte, FALSE) : a \in Addr}
           \cup {Cycle("read", a, RomByte, RomByte, TRUE) : a \in WordAddr}
Refreshes == {Cycle("refresh", a, RomByte, RomByte, FALSE) : a \in RefreshAddr}
WordStores == {p \in Stores \X Stores :
                 p[1][1] \in WordAddr /\ p[2][1] = p[1][1] + 1}
Writes == {Cycle("write", s[1], s[2], RomByte, FALSE) : s \in Stores}
            \cup {Cycle("write", p[1][1], p[1][2], p[2][2], TRUE) :
                    p \in WordStores}
BootFetches == {c \in Reads : c.a \in ReadOnly /\ ~c.word}
Cycles == Reads \cup Refreshes \cup Writes

write_command == bus.op = "write" /\ bus.a \notin Protected
read_command == bus.op \in {"read", "refresh"}

(* Bug: a command of the other direction matches, too.                     *)
MatchOfAddress == bus.a = ram.a /\ (write_command \/ read_command)

(* The command on the bus is the one that was latched.                     *)
served_match ==
  /\ bus.a = ram.a
  /\ \/ write_command /\ ram.write
     \/ read_command /\ ~ram.write

(* Bug: the readiness of the access before, as upstream has it.            *)
ReadyOfAnyAccess == bus.op # "none" => ram.ready

memory_access_ready == bus.op # "none" => ram.ready /\ served_match

(***************************************************************************)
(* RAM.sv: the read-ahead and the burst a new access starts.               *)
(***************************************************************************)
Empty == [a |-> First, d |-> None]
Hit(i) == fast /\ look[i] # Empty /\ look[i].a = bus.a
lookahead_hit == ~(read_command /\ bus.word) /\ (Hit(1) \/ Hit(2))
lookahead_answer == IF Hit(1) THEN look[1].d ELSE look[2].d

start_prefetch == read_command /\ ~bus.word /\ fast /\ bus.a \notin RowEnd
                    /\ ~lookahead_hit
NewBurst == IF bus.word /\ (read_command \/ write_command) THEN "word"
            ELSE IF start_prefetch THEN "prefetch" ELSE "single"

(* What KFSDRAM shows RAM.sv.                                              *)
read_flag == kfs.show # None
write_flag == kfs.state \in {"WRITE_BEATS", "WRITE_ISSUE"}
idle == kfs.state = "IDLE"

(* What RAM.sv asks KFSDRAM for: from the bus in IDLE, from the latched    *)
(* access afterwards.                                                      *)
write_request == \/ ram.state = "IDLE" /\ write_command
                 \/ ram.state = "WRITE_1"
read_request == \/ ram.state = "IDLE" /\ read_command /\ ~lookahead_hit
                \/ ram.state = "READ_1"
access_address == IF ram.state = "IDLE" THEN bus.a ELSE ram.a
access_num ==
  IF (IF ram.state = "IDLE" THEN NewBurst ELSE ram.burst) = "single"
  THEN 1 ELSE 2
access_data_in == IF ram.burst = "word" /\ ram.second THEN ram.hi ELSE ram.d

(* The registers of RAM.sv at the clock edge: in IDLE they take the access *)
(* that is on the bus, afterwards they keep it.                            *)
Goto(s) ==
  LET new == ram.state = "IDLE" IN
  ram' = [state |-> s,
          a |-> IF new THEN bus.a ELSE ram.a,
          d |-> IF new THEN bus.d ELSE ram.d,
          hi |-> IF new THEN bus.hi ELSE ram.hi,
          write |-> IF new THEN write_command ELSE ram.write,
          burst |-> IF new THEN NewBurst ELSE ram.burst,
          second |-> ~new /\ (ram.second \/ read_flag \/ write_flag),
          ready |-> \/ ram.state = "COMPLETE"
                    \/ new /\ idle /\ ~write_command /\ ~read_command]

RamIdle ==
  /\ ram.state = "IDLE"
  /\ \/ write_command /\ Goto("WRITE_1")
     \/ read_command /\ lookahead_hit /\ Goto("COMPLETE")
     \/ read_command /\ ~lookahead_hit /\ Goto("READ_1")
     \/ ~write_command /\ ~read_command /\ Goto("IDLE")

RamWrite ==
  \/ ram.state = "WRITE_1" /\ Goto(IF write_flag THEN "WRITE_2" ELSE "WRITE_1")
  \/ ram.state = "WRITE_2" /\ Goto(IF write_flag THEN "WRITE_2" ELSE "COMPLETE")

(* A read is given up when its strobe goes, unless its data comes or ends  *)
(* in the same clock.                                                      *)
RamRead ==
  \/ /\ ram.state = "READ_1"
     /\ Goto(IF read_flag THEN "READ_2"
             ELSE IF read_command THEN "READ_1" ELSE "WAIT")
  \/ /\ ram.state = "READ_2"
     /\ Goto(IF ~read_flag THEN "COMPLETE"
             ELSE IF read_command THEN "READ_2" ELSE "WAIT")

(* Bug: it waits for the strobe to go, whoever's it is.                    *)
CompleteForAnyStrobe ==
  /\ ram.state = "COMPLETE"
  /\ Goto(IF write_command \/ read_command THEN "COMPLETE" ELSE "IDLE")

(* The access is over when its strobe goes, or when the strobe on the bus  *)
(* is another one's.                                                       *)
RamComplete ==
  /\ ram.state = "COMPLETE"
  /\ Goto(IF (write_command \/ read_command) /\ served_match
          THEN "COMPLETE" ELSE "IDLE")

RamWait == ram.state = "WAIT" /\ Goto(IF idle THEN "IDLE" ELSE "WAIT")

RamStep == RamIdle \/ RamWrite \/ RamRead \/ RamComplete \/ RamWait

(* The data registers towards the bus.                                     *)
OutStep ==
  out' = [lo |-> IF ram.state = "IDLE" /\ read_command /\ lookahead_hit
                 THEN lookahead_answer
                 ELSE IF read_flag /\ ~ram.second THEN kfs.show ELSE out.lo,
          hi |-> IF read_flag /\ ram.second /\ ram.burst = "word"
                 THEN kfs.show ELSE out.hi]

data_bus_out == IF read_flag /\ ~ram.second THEN kfs.show ELSE out.lo

(* Bug: only the first byte of a word.                                     *)
WrittenFirst == {bus.a}
(* The bytes a write lands on.                                             *)
Written == {bus.a} \cup (IF bus.word THEN {bus.a + 1} ELSE {})
(* Bug: a counter that does not wrap around.                               *)
NextVictim(i) == i + 1
(* The two places of the read-ahead are replaced in turn.                  *)
Victim(i) == 3 - i

(* The read-ahead: a write that is accepted drops the bytes it lands on,   *)
(* the second byte of a burst takes the victim's place.                    *)
Parks == read_flag /\ ram.second /\ ram.burst = "prefetch"
LookStep ==
  /\ look' = [i \in 1 .. 2 |->
       IF Parks /\ i = victim
       THEN [a |-> ram.a + 1, d |-> kfs.show]
       ELSE IF ram.state = "IDLE" /\ write_command /\ look[i] # Empty
                 /\ look[i].a \in Written
       THEN Empty
       ELSE look[i]]
  /\ victim' = IF Parks THEN Victim(victim) ELSE victim

(***************************************************************************)
(* KFSDRAM.sv.                                                             *)
(***************************************************************************)
(* Its registers after the clock; read_flag falls unless it is raised.     *)
Kfs(k) == kfs' = [k EXCEPT !.show = None]
KfsShow(k, b) == kfs' = [k EXCEPT !.show = b, !.shown = @ + 1]
KeepReq == req' = req
Release == req' = NoCommand
Issue(op, a, d) == req' = [op |-> op, a |-> a, d |-> d]
Issued == req.op # "none"

Rest(s) == [state |-> s, base |-> First, beats |-> 1, beat |-> 0,
            wbuf |-> <<>>, got |-> <<>>, show |-> None, shown |-> 0]

KfsInit == kfs.state = "INIT" /\ KeepReq /\ kfs' = Rest("IDLE")

KfsIdle ==
  LET new(s) ==
        kfs' = [Rest(s) EXCEPT !.base = access_address, !.beats = access_num]
  IN  /\ kfs.state = "IDLE" /\ KeepReq
      /\ \/ write_request /\ new("WRITE_BEATS")
         \/ ~write_request /\ read_request /\ new("READ_ISSUE")
         \/ ~write_request /\ ~read_request /\ kfs' = Rest("IDLE")

(* The bytes of a write are sampled on the first clocks of write_flag.     *)
KfsWriteBeats ==
  LET bytes == Append(kfs.wbuf, access_data_in) IN
  /\ kfs.state = "WRITE_BEATS"
  /\ \/ /\ Len(bytes) < kfs.beats /\ KeepReq
        /\ Kfs([kfs EXCEPT !.wbuf = bytes])
     \/ /\ Len(bytes) = kfs.beats /\ Issue("write", kfs.base, bytes[1])
        /\ Kfs([kfs EXCEPT !.wbuf = bytes, !.state = "WRITE_ISSUE"])

KfsWriteIssue(taken) ==
  LET done == kfs.beat + 1 IN
  /\ kfs.state = "WRITE_ISSUE"
  /\ \/ taken = NoCommand /\ KeepReq /\ Kfs(kfs)
     \/ /\ taken # NoCommand /\ done < kfs.beats
        /\ Issue("write", kfs.base + 1, kfs.wbuf[2])
        /\ Kfs([kfs EXCEPT !.beat = done])
     \/ /\ taken # NoCommand /\ done = kfs.beats /\ Release
        /\ kfs' = Rest("IDLE")

(* Bug: the first answer ends the access.                                  *)
AnyAnswered(got) == Len(got) >= 1
AllAnswered(got) == Len(got) = kfs.beats

(* The reads go out back to back and their answers come in order; the last *)
(* answer ends the state, and its first byte is shown in the next clock.   *)
KfsReadIssue(taken, beat) ==
  LET sent == kfs.beat + (IF taken # NoCommand THEN 1 ELSE 0)
      got  == IF beat = None THEN kfs.got ELSE Append(kfs.got, beat)
      k    == [kfs EXCEPT !.beat = sent, !.got = got]
  IN  /\ kfs.state = "READ_ISSUE"
      /\ IF ~Issued /\ kfs.beat = 0 THEN Issue("read", kfs.base, RomByte)
         ELSE IF taken = NoCommand THEN KeepReq
         ELSE IF sent = kfs.beats THEN Release
         ELSE Issue("read", kfs.base + 1, RomByte)
      /\ \/ (beat = None \/ ~AllAnswered(got)) /\ Kfs(k)
         \/ /\ beat # None /\ AllAnswered(got)
            /\ KfsShow([k EXCEPT !.state = "READ_OUT"], got[1])

KfsReadOut ==
  /\ kfs.state = "READ_OUT" /\ KeepReq
  /\ \/ kfs.shown < kfs.beats /\ KfsShow(kfs, kfs.got[kfs.shown + 1])
     \/ kfs.shown = kfs.beats /\ kfs' = Rest("IDLE")

(* A beat that comes in another state is lost to KFSDRAM.                  *)
KfsStep(taken, beat) ==
  \/ KfsInit \/ KfsIdle \/ KfsWriteBeats \/ KfsWriteIssue(taken)
  \/ KfsReadIssue(taken, beat) \/ KfsReadOut

(***************************************************************************)
(* The masters of the bus.  The CPU looks at READY from the second clock   *)
(* of a cycle on (READY.sv, which is not part of this repository, registers *)
(* it twice) and ends the cycle once it has seen it; a refresh ends when it *)
(* likes; a reset drops whatever is on the bus, and the CPU's first cycle  *)
(* after it is a fetch from the BIOS.  Between two cycles the bus is idle  *)
(* for a clock, and clk_select changes only there.                         *)
(***************************************************************************)
READY == ~bus.first /\ memory_access_ready

BusStep(press) ==
  \/ /\ press /\ bus' = Idle /\ booting' = TRUE /\ UNCHANGED fast
  \/ /\ ~press /\ bus.op = "none"
     /\ \/ /\ bus' \in IF booting THEN BootFetches ELSE Cycles
           /\ booting' = FALSE /\ UNCHANGED fast
        \/ bus' = Idle /\ fast' \in BOOLEAN /\ UNCHANGED booting
  \/ /\ ~press /\ bus.op # "none" /\ UNCHANGED <<fast, booting>>
     /\ \/ bus' = [bus EXCEPT !.first = FALSE]
        \/ bus' = Idle /\ (bus.op = "refresh" \/ READY)

(* One clock.                                                              *)
Tick(taken, beat, hold) ==
  LET press == hold /\ ~held IN
  /\ taken \in {req, NoCommand}
  /\ press => resets < MaxResets
  /\ Clock(taken, beat, hold)
  /\ RamStep /\ OutStep /\ LookStep /\ KfsStep(taken, beat)
  /\ BusStep(press)
  /\ resets' = IF press THEN resets + 1 ELSE resets

Init ==
  /\ BusInit
  /\ bus = Idle /\ booting = TRUE /\ fast \in BOOLEAN
  /\ ram = [state |-> "IDLE", a |-> First, d |-> RomByte, hi |-> RomByte,
            write |-> FALSE, burst |-> "single", second |-> FALSE,
            ready |-> FALSE]
  /\ out = [lo |-> RomByte, hi |-> RomByte]
  /\ look = [i \in 1 .. 2 |-> Empty]
  /\ victim = 1
  /\ kfs = Rest("INIT")
  /\ req = NoCommand
  /\ resets = 0

(* What the byte bus may do in a clock; a byte of unknown contents is      *)
(* carried along as one.                                                   *)
Takes == {req, NoCommand}
Beating ==
  {None} \cup IF owed = <<>> THEN {}
               ELSE {b \in Answers(Head(owed)) :
                       Head(owed).d = Unknown => b \notin Byte}
Next == \E taken \in Takes, beat \in Beating, hold \in BOOLEAN :
          Tick(taken, beat, hold)

(* The clock runs, and the byte bus does not leave everything it was asked *)
(* for undone: the command it could take, the answers it owes, the end of  *)
(* the reset.                                                              *)
Busy == held \/ owed # <<>> \/ req # NoCommand
Serves == \E taken \in Takes, beat \in Beating, hold \in BOOLEAN :
            /\ Busy => taken # NoCommand \/ beat # None \/ (held /\ ~hold)
            /\ Tick(taken, beat, hold)

Spec == Init /\ [][Next]_vars /\ WF_vars(Serves)

-----------------------------------------------------------------------------
(* Properties.                                                             *)

RamType ==
  [state : {"IDLE", "WRITE_1", "WRITE_2", "READ_1", "READ_2", "COMPLETE", "WAIT"},
   a : Addr, d : Byte, hi : Byte, write : BOOLEAN,
   burst : {"single", "prefetch", "word"}, second : BOOLEAN, ready : BOOLEAN]
KfsType ==
  [state : {"INIT", "IDLE", "WRITE_BEATS", "WRITE_ISSUE", "READ_ISSUE", "READ_OUT"},
   base : Addr, beats : 1 .. 2, beat : 0 .. 2, wbuf : Seq(Byte),
   got : Seq(Bytes), show : Bytes \cup {None}, shown : 0 .. 2]

TypeOK ==
  /\ BusType
  /\ bus \in {Idle} \cup {[c EXCEPT !.first = f] : c \in Cycles, f \in BOOLEAN}
  /\ booting \in BOOLEAN /\ fast \in BOOLEAN
  /\ ram \in RamType
  /\ out \in [lo : Bytes, hi : Bytes]
  /\ look \in [1 .. 2 -> {Empty} \cup [a : Addr, d : Bytes]]
  /\ victim \in 1 .. 2
  /\ kfs \in KfsType /\ Len(kfs.wbuf) <= 2 /\ Len(kfs.got) <= 2
  /\ req \in Commands \cup {NoCommand}
  /\ resets \in 0 .. MaxResets

Dropped == ~held /\ held'
Ends(op) == bus.op = op /\ bus'.op = "none" /\ ~Dropped

Holds(a, b) == told[a] \in {Unknown, b}

(* A read the CPU ends returns what the memory holds, whether it was read  *)
(* from the memory, answered from the bytes read ahead, or followed an     *)
(* access that was given up: what was written before it, by whatever path. *)
(* One case is not promised: served_match compares the address and the     *)
(* direction and not the width, so the READY of a refresh, which fetched   *)
(* one byte, can end the word read of its address; the low byte is then    *)
(* right and the high one what it was.                                     *)
RefreshAnswers == bus.a \in RefreshAddr /\ ram.burst # "word"
ReadsRight ==
  [][Ends("read") => /\ Holds(bus.a, data_bus_out)
                     /\ bus.word => Holds(bus.a + 1, out.hi) \/ RefreshAnswers]_vars

(* A write the CPU ends has reached the memory: READY was never that of    *)
(* the access before it.                                                   *)
Reached(a, d) == a \notin ReadOnly => told[a] = d
WritesTaken ==
  [][Ends("write") => /\ Reached(bus.a, bus.d)
                      /\ bus.word => Reached(bus.a + 1, bus.hi)]_vars

(* A byte read ahead that is offered is the memory's, in either speed and  *)
(* after any write or reset.                                               *)
LookaheadCurrent ==
  \A i \in 1 .. 2 : look[i] # Empty => Holds(look[i].a, look[i].d)

(* KFSDRAM and the backend agree on the answers outstanding: none is lost  *)
(* or left over, across resets, so that no read takes the answer of        *)
(* another one.                                                            *)
AnswersExact ==
  Len(owed) = IF kfs.state = "READ_ISSUE" THEN kfs.beat - Len(kfs.got) ELSE 0

(* Every access the CPU starts is made READY, unless a reset drops it: the *)
(* controller gets out of whatever access was given up or killed before.   *)
CyclesEnd == bus.op \in {"read", "write"} ~> READY \/ bus.op = "none"

=============================================================================
