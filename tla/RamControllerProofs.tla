-------------------------- MODULE RamControllerProofs --------------------------
(***************************************************************************)
(* The memory controller for every memory map, every set of stores and     *)
(* every number of resets: the inductive invariant, one conjunct per thing *)
(* that has to be right at once, its proof, and the safety properties that *)
(* follow from it.                                                         *)
(***************************************************************************)
EXTENDS RamController, SequenceTheorems, TLAPS

(* What KFSDRAM holds in each state, and what the byte bus owes it.        *)
Length == IF ram.burst = "single" THEN 1 ELSE 2

KfsInv ==
  /\ kfs.beats = 2 => kfs.base + 1 \in Addr
  /\ read_flag <=> kfs.state = "READ_OUT"
  /\ kfs.state # "READ_ISSUE" => owed = <<>>
  /\ kfs.state \notin {"READ_ISSUE", "WRITE_ISSUE"} => req = NoCommand
  /\ kfs.state = "WRITE_BEATS" => kfs.beat = 0 /\ Len(kfs.wbuf) < kfs.beats
  /\ kfs.state = "WRITE_ISSUE" =>
       /\ kfs.beat < kfs.beats /\ Len(kfs.wbuf) = kfs.beats
       /\ req = [op |-> "write", a |-> kfs.base + kfs.beat,
                 d |-> kfs.wbuf[kfs.beat + 1]]
  /\ kfs.state = "READ_ISSUE" =>
       /\ kfs.shown = 0 /\ kfs.beat <= kfs.beats /\ Len(kfs.got) < kfs.beats
       /\ Len(owed) = kfs.beat - Len(kfs.got)
       /\ \/ req = NoCommand /\ kfs.beat \in {0, kfs.beats}
          \/ /\ kfs.beat < kfs.beats
             /\ req = [op |-> "read", a |-> kfs.base + kfs.beat, d |-> RomByte]
  /\ kfs.state = "READ_OUT" =>
       /\ Len(kfs.got) = kfs.beats /\ kfs.shown \in 1 .. kfs.beats
       /\ kfs.show = kfs.got[kfs.shown]

(* Which states of the two machines go together, and that KFSDRAM works on *)
(* the access that RAM.sv has latched.                                     *)
Paired ==
  /\ kfs.state = "INIT" => ram.state = "IDLE" /\ bus.op = "none"
  /\ ram.state \in {"IDLE", "COMPLETE"} => kfs.state \in {"INIT", "IDLE"}
  /\ ram.state = "WRITE_1" => kfs.state = "WRITE_BEATS" /\ kfs.wbuf = <<>>
  /\ ram.state = "WRITE_2" =>
       \/ kfs.state = "WRITE_BEATS" /\ Len(kfs.wbuf) = 1
       \/ kfs.state \in {"WRITE_ISSUE", "IDLE"}
  /\ ram.state = "READ_1" =>
       kfs.state = "READ_ISSUE" \/ (kfs.state = "READ_OUT" /\ kfs.shown = 1)
  /\ ram.state = "READ_2" =>
       kfs.state = "IDLE" \/ (kfs.state = "READ_OUT" /\ kfs.shown = 2)
  /\ ram.state = "WAIT" => kfs.state \in {"READ_ISSUE", "READ_OUT", "IDLE"}
  /\ kfs.state \notin {"INIT", "IDLE"} => kfs.base = ram.a /\ kfs.beats = Length
  /\ kfs.state = "WRITE_BEATS" => (ram.second <=> kfs.wbuf # <<>>)
  /\ kfs.state = "READ_ISSUE" => ~ram.second
  /\ kfs.state = "READ_OUT" => (ram.second <=> kfs.shown = 2)
  /\ ram.state \in {"WRITE_1", "WRITE_2"} => ram.write
  /\ ram.state \in {"READ_1", "READ_2"} => ~ram.write
  /\ ram.write => ram.burst # "prefetch"
  /\ ram.burst # "single" => ram.a + 1 \in Addr

(* The bytes of a write on their way.                                      *)
Buffered ==
  kfs.state \in {"WRITE_BEATS", "WRITE_ISSUE"} =>
    /\ kfs.wbuf # <<>> => kfs.wbuf[1] = ram.d
    /\ Len(kfs.wbuf) = 2 => kfs.wbuf[2] = ram.hi

(* Whose the cycle on the bus is.                                          *)
OnBus ==
  /\ bus.a = ram.a /\ (bus.word <=> ram.burst = "word")
  /\ IF ram.write THEN write_command /\ bus.d = ram.d /\ bus.hi = ram.hi
                  ELSE read_command
GivenUp == booting \/ ram.a \in RefreshAddr \/ ram.burst = "word"

Owned ==
  /\ booting => bus.op = "none"
  /\ ram.state \in {"WRITE_1", "WRITE_2"} =>
       OnBus \/ (bus.op = "none" /\ booting) \/ bus.op = "read"
  /\ ram.state = "COMPLETE" /\ ram.write => OnBus \/ bus.op # "write"
  /\ \/ ram.state \in {"READ_1", "READ_2"}
     \/ ram.state = "COMPLETE" /\ ~ram.write
     => OnBus \/ GivenUp \/ (bus.op = "read" /\ ~bus.word)
          \/ (ram.state = "COMPLETE" /\ bus.op = "none")
  /\ bus.op # "none" /\ ~bus.first /\ ram.ready /\ served_match =>
       ram.state = "COMPLETE"

(* Bytes on their way to the bus are the memory's.                         *)
Erased == held => \A a \in Addr \ Block : told[a] = Unknown

ReadData ==
  /\ kfs.state \in {"READ_ISSUE", "READ_OUT"} =>
       \A i \in 1 .. Len(kfs.got) : Holds(kfs.base + i - 1, kfs.got[i])
  /\ kfs.state = "READ_ISSUE" =>
       \A j \in 1 .. Len(owed) :
         /\ owed[j].a = kfs.base + Len(kfs.got) + j - 1
         /\ Holds(owed[j].a, owed[j].d)

OutData ==
  ram.state = "READ_2" \/ (ram.state = "COMPLETE" /\ ~ram.write) =>
    /\ Holds(ram.a, out.lo)
    /\ ram.burst = "word" /\ ~read_flag => Holds(ram.a + 1, out.hi)

(* No byte read ahead is one that is being written.                        *)
LookClear ==
  write_flag =>
    \A i \in 1 .. 2 : look[i] # Empty =>
      look[i].a # kfs.base /\ (kfs.beats = 2 => look[i].a # kfs.base + 1)

(* How far the write on the bus has come.                                  *)
WriteData ==
  OnBus /\ ram.write =>
    /\ kfs.state = "WRITE_ISSUE" /\ kfs.beat = 1 => Reached(ram.a, ram.d)
    /\ ram.state = "COMPLETE" \/ (ram.state = "WRITE_2" /\ kfs.state = "IDLE") =>
         /\ Reached(ram.a, ram.d)
         /\ ram.burst = "word" => Reached(ram.a + 1, ram.hi)

Inv ==
  /\ TypeOK /\ KfsInv /\ Paired /\ Buffered /\ Owned
  /\ Erased /\ ReadData /\ OutData /\ LookaheadCurrent /\ LookClear /\ WriteData

-----------------------------------------------------------------------------
(* Constants, commands and cycles.                                         *)

LEMMA Constants ==
  /\ First \in Addr /\ RomByte \in Byte
  /\ NoCommand = [op |-> "none", a |-> First, d |-> RomByte]
  /\ NoCommand.op = "none" /\ NoCommand \notin Commands
BY BusAssumption, ControllerAssumption DEF First, NoCommand, Commands

(* What the steps need to know of the cycle on the bus.                    *)
CycleType ==
  [op : {"none", "read", "refresh", "write"}, a : Addr, d : Byte, hi : Byte,
   word : BOOLEAN, first : BOOLEAN]
Sound(c) ==
  /\ c \in CycleType
  /\ c.word => c.op \in {"read", "write"} /\ c.a \in WordAddr
  /\ c.op = "refresh" => c.a \in RefreshAddr
  /\ c.op = "none" => c = Idle

LEMMA CycleSound ==
  ASSUME NEW c \in Cycles
  PROVE  Sound(c) /\ c.op # "none" /\ c.first
<1>1. ASSUME NEW op \in {"read", "refresh", "write"}, NEW a \in Addr,
             NEW d \in Byte, NEW hi \in Byte, NEW word \in BOOLEAN,
             c = Cycle(op, a, d, hi, word),
             word => op \in {"read", "write"} /\ a \in WordAddr,
             op = "refresh" => a \in RefreshAddr
      PROVE  Sound(c) /\ c.op # "none" /\ c.first
  BY <1>1 DEF Cycle, Sound, CycleType
<1>2. CASE c \in Reads
  <2>1. \/ \E a \in Addr : c = Cycle("read", a, RomByte, RomByte, FALSE)
        \/ \E a \in WordAddr : c = Cycle("read", a, RomByte, RomByte, TRUE)
    BY <1>2 DEF Reads
  <2> QED
    BY <1>1, <2>1, Constants, ControllerAssumption
<1>3. CASE c \in Refreshes
  <2>1. PICK a \in RefreshAddr : c = Cycle("refresh", a, RomByte, RomByte, FALSE)
    BY <1>3 DEF Refreshes
  <2> QED
    BY <1>1, <2>1, Constants, ControllerAssumption
<1>4. CASE c \in Writes
  <2>1. \/ \E s \in Stores : c = Cycle("write", s[1], s[2], RomByte, FALSE)
        \/ \E p \in WordStores :
             c = Cycle("write", p[1][1], p[1][2], p[2][2], TRUE)
    BY <1>4 DEF Writes
  <2>2. CASE \E s \in Stores : c = Cycle("write", s[1], s[2], RomByte, FALSE)
    BY <1>1, <2>2, Constants, ControllerAssumption
  <2>3. CASE \E p \in WordStores :
               c = Cycle("write", p[1][1], p[1][2], p[2][2], TRUE)
    BY <1>1, <2>3, ControllerAssumption DEF WordStores
  <2> QED
    BY <2>1, <2>2, <2>3
<1> QED
  BY <1>2, <1>3, <1>4 DEF Cycles

BusCycles == {Idle} \cup {[c EXCEPT !.first = f] : c \in Cycles, f \in BOOLEAN}

LEMMA BusSound ==
  ASSUME NEW b \in BusCycles
  PROVE  Sound(b)
<1>1. CASE b = Idle
  BY <1>1, Constants DEF Idle, Sound, CycleType
<1>2. CASE b # Idle
  <2>1. PICK c \in Cycles, f \in BOOLEAN : b = [c EXCEPT !.first = f]
    BY <1>2 DEF BusCycles
  <2>2. Sound(c) /\ c.op # "none"
    BY CycleSound
  <2> QED
    BY <2>1, <2>2 DEF Sound, CycleType
<1> QED
  BY <1>1, <1>2

LEMMA OnTheBus ==
  ASSUME NEW c \in Cycles, NEW f \in BOOLEAN
  PROVE  [c EXCEPT !.first = f] \in BusCycles
<1>1. \E b \in Cycles, g \in BOOLEAN : [c EXCEPT !.first = f] = [b EXCEPT !.first = g]
  OBVIOUS
<1> QED
  BY <1>1 DEF BusCycles

LEMMA BusStays ==
  ASSUME NEW b \in BusCycles, b.op # "none"
  PROVE  [b EXCEPT !.first = FALSE] \in BusCycles
<1>1. PICK c \in Cycles, f \in BOOLEAN : b = [c EXCEPT !.first = f]
  BY DEF BusCycles, Idle
<1>2. c \in CycleType
  BY CycleSound DEF Sound
<1>3. [b EXCEPT !.first = FALSE] = [c EXCEPT !.first = FALSE]
  BY <1>1, <1>2 DEF CycleType
<1> QED
  BY <1>3, OnTheBus

LEMMA CycleOnBus ==
  ASSUME NEW c \in Cycles PROVE c \in BusCycles
<1>1. c \in CycleType /\ c.first
  BY CycleSound DEF Sound
<1>2. c = [c EXCEPT !.first = TRUE]
  BY <1>1 DEF CycleType
<1> QED
  BY <1>2, OnTheBus

-----------------------------------------------------------------------------
(* The byte bus: what a clock does to the reads owed.                      *)
Reading == [a : Addr, d : Byte \cup {Unknown}]
Popped(beat) == IF beat = None THEN 0 ELSE 1
Pushed(taken) == IF taken.op = "read" THEN 1 ELSE 0

LEMMA OwedStep ==
  ASSUME NEW taken \in Commands \cup {NoCommand}, NEW beat, NEW hold,
         BusType, Clock(taken, beat, hold)
  PROVE  /\ owed' \in Seq(Reading)
         /\ Popped(beat) <= Len(owed)
         /\ Len(owed') = Len(owed) - Popped(beat) + Pushed(taken)
         /\ \A j \in 1 .. Len(owed') :
              owed'[j] = IF j + Popped(beat) <= Len(owed)
                         THEN owed[j + Popped(beat)]
                         ELSE [a |-> taken.a, d |-> told[taken.a]]
<1> DEFINE rest == IF beat = None \/ owed = <<>> THEN owed ELSE Tail(owed)
           new == IF taken.op # "read" THEN <<>>
                  ELSE <<[a |-> taken.a, d |-> told[taken.a]]>>
<1>1. owed' = rest \o new
  BY DEF Clock, Records
<1>2. owed \in Seq(Reading) /\ (beat # None => owed # <<>>)
  BY DEF BusType, Reading, Clock
<1>3. /\ rest \in Seq(Reading) /\ Len(rest) = Len(owed) - Popped(beat)
      /\ Popped(beat) <= Len(owed)
      /\ \A j \in 1 .. Len(rest) : rest[j] = owed[j + Popped(beat)]
  <2>1. CASE beat = None
    BY <1>2, <2>1, LenProperties DEF Popped
  <2>2. CASE beat # None
    <3>1. rest = Tail(owed) /\ owed # <<>>
      BY <1>2, <2>2
    <3>2. /\ Tail(owed) \in Seq(Reading) /\ Len(Tail(owed)) = Len(owed) - 1
          /\ \A j \in 1 .. Len(Tail(owed)) : Tail(owed)[j] = owed[j + 1]
      BY <1>2, <3>1, HeadTailProperties
    <3>3. Popped(beat) = 1 /\ Len(owed) \in Nat \ {0}
      BY <1>2, <2>2, <3>1, LenProperties, EmptySeq DEF Popped
    <3> HIDE DEF rest
    <3> QED
      BY <3>1, <3>2, <3>3
  <2> QED
    BY <2>1, <2>2
<1>4. /\ new \in Seq(Reading) /\ Len(new) = Pushed(taken)
      /\ \A j \in 1 .. Len(new) :
           new[j] = [a |-> taken.a, d |-> told[taken.a]]
  <2>1. CASE taken.op # "read"
    BY <2>1 DEF Pushed
  <2>2. CASE taken.op = "read"
    <3>1. [a |-> taken.a, d |-> told[taken.a]] \in Reading
      BY <2>2, Constants DEF BusType, Reading, Commands
    <3> QED
      BY <2>2, <3>1 DEF Pushed
  <2> QED
    BY <2>1, <2>2
<1> HIDE DEF rest, new
<1>5. /\ owed' \in Seq(Reading) /\ Len(owed') = Len(rest) + Len(new)
      /\ \A j \in 1 .. Len(rest) + Len(new) :
           owed'[j] = IF j <= Len(rest) THEN rest[j] ELSE new[j - Len(rest)]
  BY <1>1, <1>3, <1>4, ConcatProperties
<1> QED
  BY <1>2, <1>3, <1>4, <1>5, LenProperties DEF Popped, Pushed

LEMMA BusTypeStep ==
  ASSUME NEW taken \in Commands \cup {NoCommand}, NEW beat \in Beats \cup {None},
         NEW hold \in BOOLEAN, BusType, Clock(taken, beat, hold)
  PROVE  BusType'
<1>1. owed' \in Seq(Reading)
  BY OwedStep
<1>2. told' \in [Addr -> Byte \cup {Unknown}]
  BY Constants DEF BusType, Clock, Records, Forget, Commands
<1> QED
  BY <1>1, <1>2 DEF BusType, Clock, Records, Reading

-----------------------------------------------------------------------------
(* What a clock starts from: the invariant, and what the byte bus may do.  *)
Ticks(taken, beat, hold) ==
  /\ Inv /\ taken \in Takes /\ beat \in Beating /\ hold \in BOOLEAN
  /\ Tick(taken, beat, hold)

LEMMA TickTypes ==
  ASSUME NEW taken, NEW beat, NEW hold, Ticks(taken, beat, hold)
  PROVE  /\ TypeOK /\ Sound(bus) /\ hold \in BOOLEAN
         /\ taken \in Commands \cup {NoCommand}
         /\ beat \in Beats \cup {None}
         /\ Clock(taken, beat, hold)
<1> USE DEF Ticks, Inv
<1>1. TypeOK /\ hold \in BOOLEAN /\ Clock(taken, beat, hold)
  BY DEF Tick
<1>2. Sound(bus)
  BY <1>1, BusSound DEF TypeOK, BusCycles
<1>3. taken \in Commands \cup {NoCommand}
  BY <1>1 DEF Takes, TypeOK
<1>4. beat \in Beats \cup {None}
  <2>1. CASE owed = <<>>
    BY <2>1 DEF Beating
  <2>2. CASE owed # <<>>
    <3> owed \in Seq(Reading)
      BY <1>1 DEF TypeOK, BusType, Reading
    <3>1. Head(owed) \in Reading
      BY <2>2, HeadTailProperties
    <3>2. Answers(Head(owed)) \subseteq Beats
      BY <3>1 DEF Answers, Beats, Reading
    <3> QED
      BY <2>2, <3>2 DEF Beating
  <2> QED
    BY <2>1, <2>2
<1> QED
  BY <1>1, <1>2, <1>3, <1>4

(* What RAM.sv asks KFSDRAM for exists.                                    *)
LEMMA Asked ==
  ASSUME TypeOK, Sound(bus), Paired
  PROVE  /\ access_address \in Addr /\ access_num \in 1 .. 2
         /\ access_num = 2 => access_address + 1 \in Addr
         /\ access_data_in \in Byte
<1>1. NewBurst # "single" => bus.a + 1 \in Addr
  BY ControllerAssumption DEF NewBurst, start_prefetch, Sound, CycleType
<1>2. bus \in CycleType /\ ram \in RamType
  BY DEF Sound, TypeOK
<1> QED
  BY <1>1, <1>2 DEF access_address, access_num, access_data_in, CycleType,
     RamType, Paired

LEMMA GotoType ==
  ASSUME TypeOK, Sound(bus),
         NEW s \in {"IDLE", "WRITE_1", "WRITE_2", "READ_1", "READ_2", "COMPLETE",
                    "WAIT"}, Goto(s)
  PROVE  ram' \in RamType /\ ram'.state = s
<1>1. NewBurst \in {"single", "prefetch", "word"}
  BY DEF NewBurst
<1>2. write_command \in BOOLEAN /\ read_command \in BOOLEAN
  BY DEF write_command, read_command
<1>3. read_flag \in BOOLEAN /\ write_flag \in BOOLEAN /\ idle \in BOOLEAN
  BY DEF read_flag, write_flag, idle
<1>4. bus \in CycleType /\ ram \in RamType
  BY DEF Sound, TypeOK
<1> QED
  BY <1>1, <1>2, <1>3, <1>4 DEF Goto, RamType, CycleType

LEMMA RamTypeStep ==
  ASSUME TypeOK, Sound(bus), RamStep PROVE ram' \in RamType
BY GotoType DEF RamStep, RamIdle, RamWrite, RamRead, RamComplete, RamWait

LEMMA BusCyclesStep ==
  ASSUME TypeOK, NEW press, BusStep(press)
  PROVE  bus' \in BusCycles /\ booting' \in BOOLEAN /\ fast' \in BOOLEAN
<1>1. Idle \in BusCycles
  BY DEF BusCycles
<1>2. ASSUME NEW c \in IF booting THEN BootFetches ELSE Cycles
      PROVE  c \in BusCycles
  <2>1. c \in Cycles
    BY <1>2 DEF BootFetches, Cycles
  <2> QED
    BY <2>1, CycleOnBus
<1>3. bus.op # "none" => [bus EXCEPT !.first = FALSE] \in BusCycles
  BY BusStays DEF TypeOK, BusCycles
<1>4. booting \in BOOLEAN /\ fast \in BOOLEAN
  BY DEF TypeOK
<1>5. \/ bus' = Idle
      \/ bus' \in IF booting THEN BootFetches ELSE Cycles
      \/ bus.op # "none" /\ bus' = [bus EXCEPT !.first = FALSE]
  BY DEF BusStep
<1>6. bus' \in BusCycles
  BY <1>1, <1>2, <1>3, <1>5
<1> QED
  BY <1>4, <1>6 DEF BusStep

LEMMA OutType ==
  ASSUME TypeOK, OutStep PROVE out' \in [lo : Bytes, hi : Bytes]
<1>1. read_flag => kfs.show \in Bytes
  BY DEF TypeOK, KfsType, read_flag
<1>2. lookahead_hit => lookahead_answer \in Bytes
  BY DEF TypeOK, lookahead_hit, lookahead_answer, Hit
<1>3. out.lo \in Bytes /\ out.hi \in Bytes
  BY DEF TypeOK
<1>4. (IF ram.state = "IDLE" /\ read_command /\ lookahead_hit
       THEN lookahead_answer
       ELSE IF read_flag /\ ~ram.second THEN kfs.show ELSE out.lo) \in Bytes
  BY <1>1, <1>2, <1>3
<1>5. (IF read_flag /\ ram.second /\ ram.burst = "word" THEN kfs.show ELSE out.hi)
        \in Bytes
  BY <1>1, <1>3
<1> QED
  BY <1>4, <1>5 DEF OutStep

LEMMA LookType ==
  ASSUME TypeOK, Paired, LookStep
  PROVE  look' \in [1 .. 2 -> {Empty} \cup [a : Addr, d : Bytes]] /\ victim' \in 1 .. 2
<1>1. Parks => [a |-> ram.a + 1, d |-> kfs.show] \in [a : Addr, d : Bytes]
  BY DEF TypeOK, KfsType, RamType, read_flag, Parks, Paired
<1> QED
  BY <1>1 DEF LookStep, TypeOK, Victim

-----------------------------------------------------------------------------
(* KFSDRAM.                                                                *)
KfsOK ==
  /\ kfs \in KfsType /\ Len(kfs.wbuf) <= 2 /\ Len(kfs.got) <= 2
  /\ req \in Commands \cup {NoCommand}
  /\ KfsInv

LEMMA Unanswered ==
  ASSUME NEW taken, NEW beat, NEW hold, Ticks(taken, beat, hold),
         kfs.state # "READ_ISSUE"
  PROVE  beat = None /\ owed' = <<>> /\ Len(owed') = 0 /\ taken.op # "read"
<1> USE DEF Ticks, Inv
<1>1. owed = <<>> /\ beat = None
  BY DEF KfsInv, Beating
<1>2. taken.op # "read"
  BY Constants DEF Takes, KfsInv
<1>3. owed' \in Seq(Reading) /\ Len(owed') = 0
  <2>1. BusType /\ Clock(taken, beat, hold) /\ taken \in Commands \cup {NoCommand}
    BY TickTypes DEF TypeOK
  <2>2. Len(owed') = Len(owed) - Popped(beat) + Pushed(taken) /\ owed' \in Seq(Reading)
    BY <2>1, OwedStep
  <2> QED
    BY <1>1, <1>2, <2>2, EmptySeq DEF Popped, Pushed
<1> QED
  BY <1>1, <1>2, <1>3, EmptySeq

(* The registers after a clock in which no byte is shown.                  *)
LEMMA KfsDrops ==
  ASSUME NEW k \in KfsType, Kfs(k)
  PROVE  /\ kfs' \in KfsType /\ kfs'.state = k.state /\ kfs'.base = k.base
         /\ kfs'.beats = k.beats /\ kfs'.beat = k.beat /\ kfs'.wbuf = k.wbuf
         /\ kfs'.got = k.got /\ kfs'.show = None /\ kfs'.shown = k.shown
BY DEF Kfs, KfsType

(* The registers after a clock that shows a byte.                          *)
LEMMA KfsRaises ==
  ASSUME NEW k \in KfsType, NEW b \in Bytes, k.shown < 2, KfsShow(k, b)
  PROVE  /\ kfs' \in KfsType /\ kfs'.state = k.state /\ kfs'.base = k.base
         /\ kfs'.beats = k.beats /\ kfs'.beat = k.beat /\ kfs'.wbuf = k.wbuf
         /\ kfs'.got = k.got /\ kfs'.show = b /\ kfs'.shown = k.shown + 1
<1>1. kfs' = [k EXCEPT !.show = b, !.shown = k.shown + 1]
  BY DEF KfsShow, KfsType
<1>2. k.shown + 1 \in 0 .. 2
  BY DEF KfsType
<1> QED
  BY <1>1, <1>2 DEF KfsType

(* A write is taken command by command.                                    *)
LEMMA KfsWrites ==
  ASSUME NEW taken, NEW beat, NEW hold, Ticks(taken, beat, hold),
         KfsWriteBeats \/ KfsWriteIssue(taken)
  PROVE  KfsOK'
<1>1. owed' = <<>>
  BY Unanswered DEF KfsWriteBeats, KfsWriteIssue
<1>2. kfs \in KfsType /\ KfsInv /\ req \in Commands \cup {NoCommand} /\ Len(kfs.got) <= 2
  BY DEF TypeOK, Ticks, Inv
<1>3. CASE KfsWriteBeats
  <2> DEFINE bytes == Append(kfs.wbuf, access_data_in)
  <2>1. /\ kfs.wbuf \in Seq(Byte) /\ kfs.beats \in {1, 2} /\ kfs.beat = 0
        /\ Len(kfs.wbuf) < kfs.beats
    BY <1>2, <1>3 DEF KfsType, KfsInv, KfsWriteBeats
  <2>2. Len(kfs.wbuf) \in Nat /\ access_data_in \in Byte
    BY <2>1, Asked, TickTypes, LenProperties DEF Ticks, Inv
  <2>3. /\ bytes \in Seq(Byte) /\ Len(bytes) = Len(kfs.wbuf) + 1
        /\ bytes[1] \in Byte
    BY <2>1, <2>2, AppendProperties, ElementOfSeq
  <2> HIDE DEF bytes
  <2>4. CASE Len(bytes) < kfs.beats /\ KeepReq /\ Kfs([kfs EXCEPT !.wbuf = bytes])
    <3>1. /\ kfs' \in KfsType /\ kfs'.state = "WRITE_BEATS" /\ kfs'.base = kfs.base
          /\ kfs'.beats = kfs.beats /\ kfs'.beat = 0 /\ kfs'.wbuf = bytes
          /\ kfs'.show = None /\ kfs'.got = kfs.got
      BY <1>2, <1>3, <2>1, <2>3, <2>4 DEF KfsType, KfsWriteBeats, Kfs
    <3>2. req' = req /\ req = NoCommand /\ (kfs.beats = 2 => kfs.base + 1 \in Addr)
      BY <1>2, <1>3, <2>4 DEF KfsInv, KfsWriteBeats, KeepReq
    <3> QED
      BY <1>1, <1>2, <2>1, <2>2, <2>3, <2>4, <3>1, <3>2 DEF KfsOK, KfsInv, read_flag
  <2>5. CASE /\ Len(bytes) = kfs.beats /\ Issue("write", kfs.base, bytes[1])
             /\ Kfs([kfs EXCEPT !.wbuf = bytes, !.state = "WRITE_ISSUE"])
    <3>1. /\ kfs' \in KfsType /\ kfs'.state = "WRITE_ISSUE" /\ kfs'.base = kfs.base
          /\ kfs'.beats = kfs.beats /\ kfs'.beat = 0 /\ kfs'.wbuf = bytes
          /\ kfs'.show = None /\ kfs'.got = kfs.got
      BY <1>2, <1>3, <2>1, <2>3, <2>5 DEF KfsType, KfsWriteBeats, Kfs
    <3>2. req' = [op |-> "write", a |-> kfs.base + 0, d |-> bytes[1]]
          /\ req' \in Commands /\ (kfs.beats = 2 => kfs.base + 1 \in Addr)
      BY <1>2, <2>3, <2>5, ControllerAssumption DEF KfsInv, KfsType, Issue, Commands
    <3> QED
      BY <1>1, <1>2, <2>1, <2>2, <2>3, <2>5, <3>1, <3>2 DEF KfsOK, KfsInv, read_flag
  <2> QED
    BY <1>3, <2>4, <2>5 DEF KfsWriteBeats, bytes
<1>4. CASE KfsWriteIssue(taken)
  <2>1. /\ kfs.wbuf \in Seq(Byte) /\ Len(kfs.wbuf) = kfs.beats
        /\ kfs.beats \in {1, 2} /\ kfs.beat \in {0, 1} /\ kfs.beat < kfs.beats
        /\ kfs.beats = 2 => kfs.base + 1 \in Addr
        /\ kfs.state = "WRITE_ISSUE"
    BY <1>2, <1>4 DEF KfsType, KfsInv, KfsWriteIssue
  <2>2. kfs.beats = 2 => kfs.wbuf[2] \in Byte
    BY <2>1, ElementOfSeq
  <2>3. CASE taken = NoCommand /\ KeepReq /\ Kfs(kfs)
    <3>1. kfs' = kfs /\ req' = req
      BY <1>2, <1>4, <2>3 DEF KfsInv, Kfs, KfsType, KeepReq, KfsWriteIssue, read_flag
    <3> QED
      BY <1>1, <1>2, <1>4, <2>1, <3>1 DEF KfsOK, KfsInv, KfsWriteIssue, read_flag
  <2>4. CASE /\ kfs.beat + 1 < kfs.beats
             /\ Issue("write", kfs.base + 1, kfs.wbuf[2])
             /\ Kfs([kfs EXCEPT !.beat = kfs.beat + 1])
    <3>1. /\ kfs' \in KfsType /\ kfs'.state = "WRITE_ISSUE" /\ kfs'.base = kfs.base
          /\ kfs'.beats = 2 /\ kfs'.beat = 1 /\ kfs'.wbuf = kfs.wbuf
          /\ kfs'.show = None /\ kfs'.got = kfs.got /\ kfs.beats = 2
      <4>1. kfs.beats = 2 /\ kfs.beat + 1 = 1
        BY <2>1, <2>4
      <4> DEFINE k == [kfs EXCEPT !.beat = kfs.beat + 1]
      <4>2. /\ k \in KfsType /\ k.beat = 1 /\ k.state = kfs.state /\ k.base = kfs.base
            /\ k.beats = kfs.beats /\ k.wbuf = kfs.wbuf /\ k.got = kfs.got
        BY <1>2, <4>1 DEF KfsType
      <4> HIDE DEF k
      <4>3. Kfs(k)
        BY <2>4 DEF k
      <4> QED
        BY <2>1, <4>1, <4>2, <4>3, KfsDrops
    <3>2. /\ req' = [op |-> "write", a |-> kfs.base + 1, d |-> kfs.wbuf[2]]
          /\ req' \in Commands
      BY <2>1, <2>2, <2>4, <3>1 DEF Issue, Commands
    <3>3. kfs'.wbuf[kfs'.beat + 1] = kfs.wbuf[2] /\ kfs'.base + kfs'.beat = kfs.base + 1
      BY <3>1
    <3>4. /\ req' = [op |-> "write", a |-> kfs'.base + kfs'.beat,
                     d |-> kfs'.wbuf[kfs'.beat + 1]]
          /\ Len(kfs'.wbuf) = kfs'.beats /\ kfs'.beat < kfs'.beats
          /\ kfs'.base + 1 \in Addr
      BY <2>1, <3>1, <3>2, <3>3
    <3>5. KfsInv'
      BY <1>1, <3>1, <3>4 DEF KfsInv, read_flag
    <3> QED
      <4>1. Len(kfs'.wbuf) <= 2 /\ Len(kfs'.got) <= 2
        BY <1>2, <3>1, <3>4
      <4> QED
        BY <3>1, <3>2, <3>5, <4>1 DEF KfsOK
  <2>5. CASE Release /\ kfs' = Rest("IDLE")
    BY <1>1, <2>5, Constants
       DEF KfsOK, KfsType, KfsInv, Release, Rest, read_flag
  <2> QED
    BY <1>4, <2>3, <2>4, <2>5 DEF KfsWriteIssue
<1> QED
  BY <1>3, <1>4

LEMMA KfsRests ==
  ASSUME NEW taken, NEW beat, NEW hold, Ticks(taken, beat, hold),
         KfsInit \/ KfsIdle
  PROVE  KfsOK'
<1> USE DEF Ticks, Inv
<1>1. owed' = <<>> /\ Len(owed') = 0
  BY Unanswered DEF KfsInit, KfsIdle
<1>2. KfsInv /\ req = NoCommand /\ req' = req
  BY DEF KfsInv, KfsInit, KfsIdle, KeepReq
<1>3. CASE kfs' = Rest("IDLE")
  BY <1>1, <1>2, <1>3, Constants DEF KfsOK, KfsType, KfsInv, Rest, read_flag
<1>4. ASSUME NEW s \in {"WRITE_BEATS", "READ_ISSUE"},
             kfs' = [Rest(s) EXCEPT !.base = access_address, !.beats = access_num]
      PROVE  KfsOK'
  <2>1. /\ access_address \in Addr /\ access_num \in 1 .. 2
        /\ access_num = 2 => access_address + 1 \in Addr
    BY Asked, TickTypes
  <2>2. /\ kfs' \in KfsType /\ kfs'.state = s /\ kfs'.base = access_address
        /\ kfs'.beats = access_num /\ kfs'.beat = 0 /\ kfs'.wbuf = <<>>
        /\ kfs'.got = <<>> /\ kfs'.show = None /\ kfs'.shown = 0
    <3>1. kfs' = [state |-> s, base |-> access_address, beats |-> access_num, beat |-> 0,
            wbuf |-> <<>>, got |-> <<>>, show |-> None, shown |-> 0]
      BY <1>4 DEF Rest
    <3>2. <<>> \in Seq(Byte) /\ <<>> \in Seq(Bytes)
      BY EmptySeq
    <3>3. kfs' \in KfsType
      BY <3>1, <3>2, <2>1 DEF KfsType
    <3> QED
      BY <3>1, <3>3
  <2>3. kfs' \in KfsType /\ Len(kfs'.wbuf) = 0 /\ Len(kfs'.got) = 0
    BY <2>2
  <2>4. req' = NoCommand
    BY <1>2
  <2>5. KfsInv'
    <3>1. CASE s = "WRITE_BEATS"
      BY <1>1, <2>1, <2>2, <2>4, <3>1 DEF KfsInv, read_flag
    <3>2. CASE s = "READ_ISSUE"
      <4>1. /\ kfs'.beats = 2 => kfs'.base + 1 \in Addr
            /\ kfs'.show = None /\ kfs'.state = "READ_ISSUE"
            /\ kfs'.shown = 0 /\ kfs'.beat <= kfs'.beats /\ Len(kfs'.got) < kfs'.beats
        BY <2>1, <2>2, <3>2
      <4>2. Len(owed') = 0
        BY <1>1
      <4>3. Len(owed') = kfs'.beat - Len(kfs'.got)
        <5>1. kfs'.beat = 0 /\ Len(kfs'.got) = 0
          BY <2>2, <2>3
        <5> QED
          BY <4>2, <5>1
      <4>4. req' = NoCommand /\ kfs'.beat \in {0, kfs'.beats}
        BY <2>4, <2>2
      <4> QED
        BY <4>1, <4>3, <4>4 DEF KfsInv, read_flag
    <3> QED
      BY <1>4, <3>1, <3>2
  <2> QED
    BY <2>3, <2>4, <2>5 DEF KfsOK
<1> QED
  BY <1>3, <1>4 DEF KfsInit, KfsIdle

(* The reads of an access: how many are sent, how many answers are in.     *)
Sent(taken) == kfs.beat + (IF taken # NoCommand THEN 1 ELSE 0)
Got(beat) == IF beat = None THEN kfs.got ELSE Append(kfs.got, beat)

LEMMA ReadsSent ==
  ASSUME NEW taken, NEW beat, NEW hold, Ticks(taken, beat, hold),
         KfsReadIssue(taken, beat)
  PROVE  /\ Sent(taken) \in 0 .. kfs.beats
         /\ Pushed(taken) = Sent(taken) - kfs.beat
         /\ \/ Sent(taken) = kfs.beats /\ req' = NoCommand
            \/ /\ Sent(taken) < kfs.beats
               /\ req' = [op |-> "read", a |-> kfs.base + Sent(taken), d |-> RomByte]
               /\ req' \in Commands
<1>1. /\ kfs.state = "READ_ISSUE" /\ kfs.beats \in {1, 2} /\ kfs.beat \in 0 .. kfs.beats
      /\ kfs.base \in Addr /\ (kfs.beats = 2 => kfs.base + 1 \in Addr)
      /\ \/ req = NoCommand /\ kfs.beat \in {0, kfs.beats}
         \/ /\ kfs.beat < kfs.beats
            /\ req = [op |-> "read", a |-> kfs.base + kfs.beat, d |-> RomByte]
  BY DEF Ticks, Inv, KfsInv, KfsReadIssue, TypeOK, KfsType
<1>2. taken \in {req, NoCommand} /\ Addr \subseteq Nat /\ RomByte \in Byte
  BY ControllerAssumption, Constants DEF Ticks, Takes
<1>3. /\ ~Issued /\ kfs.beat = 0 =>
           req' = [op |-> "read", a |-> kfs.base, d |-> RomByte]
      /\ (Issued \/ kfs.beat # 0) /\ taken = NoCommand => req' = req
      /\ (Issued \/ kfs.beat # 0) /\ taken # NoCommand =>
           req' = IF Sent(taken) = kfs.beats THEN NoCommand
                  ELSE [op |-> "read", a |-> kfs.base + 1, d |-> RomByte]
  BY DEF KfsReadIssue, Sent, Issue, KeepReq, Release
<1>4. CASE req = NoCommand
  <2>1. taken = NoCommand /\ ~Issued
    BY <1>2, <1>4, Constants DEF Issued
  <2>2. Sent(taken) = kfs.beat /\ Pushed(taken) = 0
    BY <1>1, <2>1, Constants DEF Sent, Pushed
  <2>3. CASE kfs.beat = 0
    <3>1. req' = [op |-> "read", a |-> kfs.base, d |-> RomByte]
      BY <1>3, <2>1, <2>3
    <3>2. kfs.base \in Nat /\ kfs.base \in Addr
      BY <1>1, <1>2
    <3>3. kfs.base + 0 = kfs.base
      BY <3>2
    <3>4. req' \in Commands
      BY <1>2, <3>1, <3>2 DEF Commands
    <3> QED
      BY <1>1, <2>2, <2>3, <3>1, <3>3, <3>4
  <2>4. CASE kfs.beat # 0
    BY <1>1, <1>3, <1>4, <2>1, <2>2, <2>4, Constants
  <2> QED
    BY <2>3, <2>4
<1>5. CASE req # NoCommand
  <2>1. /\ Issued /\ req.op = "read" /\ kfs.beat < kfs.beats
        /\ req = [op |-> "read", a |-> kfs.base + kfs.beat, d |-> RomByte]
    BY <1>1, <1>5 DEF Issued
  <2>2. CASE taken = NoCommand
    <3>1. Sent(taken) = kfs.beat /\ Pushed(taken) = 0
      BY <1>1, <2>2, Constants DEF Sent, Pushed
    <3>2. req' = req
      BY <1>3, <2>1, <2>2
    <3>3. req \in Commands
      BY Constants, <2>1 DEF Ticks, Inv, TypeOK
    <3> QED
      BY <1>1, <2>1, <3>1, <3>2, <3>3
  <2>3. CASE taken # NoCommand
    <3>1. taken = req /\ Pushed(taken) = 1 /\ Sent(taken) = kfs.beat + 1
      BY <1>1, <1>2, <2>1, <2>3 DEF Sent, Pushed
    <3>2. CASE kfs.beat + 1 = kfs.beats
      BY <1>1, <1>3, <2>1, <2>3, <3>1, <3>2
    <3>3. CASE kfs.beat + 1 # kfs.beats
      <4>1. kfs.beat = 0 /\ kfs.beats = 2
        BY <1>1, <2>1, <3>3
      <4> QED
        BY <1>1, <1>2, <1>3, <2>1, <2>3, <3>1, <4>1 DEF Commands
    <3> QED
      BY <3>2, <3>3
  <2> QED
    BY <2>2, <2>3
<1> QED
  BY <1>4, <1>5

LEMMA ReadsGot ==
  ASSUME NEW taken, NEW beat, NEW hold, Ticks(taken, beat, hold),
         KfsReadIssue(taken, beat)
  PROVE  /\ Got(beat) \in Seq(Bytes) /\ Len(Got(beat)) = Len(kfs.got) + Popped(beat)
         /\ Len(Got(beat)) \in 0 .. kfs.beats
         /\ Len(owed') = Sent(taken) - Len(Got(beat))
         /\ owed' \in Seq(Reading)
         /\ \A i \in 1 .. Len(kfs.got) : Got(beat)[i] = kfs.got[i]
         /\ beat # None => Got(beat)[Len(kfs.got) + 1] = beat
<1>1. /\ kfs.got \in Seq(Bytes) /\ kfs.beats \in {1, 2} /\ kfs.beat \in Nat
      /\ Len(kfs.got) < kfs.beats /\ Len(owed) = kfs.beat - Len(kfs.got)
  BY DEF Ticks, Inv, KfsInv, KfsReadIssue, TypeOK, KfsType
<1>2. beat \in Bytes \cup {None} /\ Len(kfs.got) \in Nat
  BY <1>1, TickTypes, LenProperties DEF Beats, Bytes
<1>3. /\ owed' \in Seq(Reading) /\ Len(owed') = Len(owed) - Popped(beat) + Pushed(taken)
      /\ Popped(beat) <= Len(owed)
  <2>1. BusType /\ Clock(taken, beat, hold) /\ taken \in Commands \cup {NoCommand}
    BY TickTypes DEF TypeOK
  <2> QED
    BY <2>1, OwedStep
<1>4. CASE beat = None
  <2>1. Got(beat) = kfs.got /\ Popped(beat) = 0
    BY <1>4 DEF Got, Popped
  <2>2. Sent(taken) \in Nat /\ Pushed(taken) = Sent(taken) - kfs.beat
    BY <1>1, ReadsSent
  <2> QED
    BY <1>1, <1>2, <1>3, <1>4, <2>1, <2>2
<1>5. CASE beat # None
  <2>1. Got(beat) = Append(kfs.got, beat) /\ Popped(beat) = 1
    BY <1>5 DEF Got, Popped
  <2>2. Sent(taken) \in Nat /\ Pushed(taken) = Sent(taken) - kfs.beat
    BY <1>1, ReadsSent
  <2>3. /\ Got(beat) \in Seq(Bytes) /\ Len(Got(beat)) = Len(kfs.got) + 1
        /\ \A i \in 1 .. Len(kfs.got) : Got(beat)[i] = kfs.got[i]
        /\ Got(beat)[Len(kfs.got) + 1] = beat
    BY <1>1, <1>2, <1>5, <2>1, AppendProperties
  <2>4. Len(owed') = Sent(taken) - (Len(kfs.got) + 1)
    BY <1>1, <1>2, <1>3, <2>1, <2>2
  <2>5. Len(kfs.got) + 1 \in 0 .. kfs.beats
    BY <1>1, <1>2
  <2> QED
    BY <1>3, <2>1, <2>3, <2>4, <2>5
<1> QED
  BY <1>4, <1>5

LEMMA KfsReads ==
  ASSUME NEW taken, NEW beat, NEW hold, Ticks(taken, beat, hold),
         KfsReadIssue(taken, beat)
  PROVE  KfsOK'
<1>1. /\ kfs \in KfsType /\ kfs.state = "READ_ISSUE" /\ kfs.shown = 0
      /\ kfs.beats \in {1, 2} /\ (kfs.beats = 2 => kfs.base + 1 \in Addr)
      /\ Len(kfs.wbuf) <= 2 /\ Len(kfs.got) \in Nat /\ Len(kfs.got) < kfs.beats
  <2>1. kfs \in KfsType /\ Len(kfs.wbuf) <= 2 /\ kfs.state = "READ_ISSUE" /\ KfsInv
    BY DEF Ticks, Inv, TypeOK, KfsReadIssue
  <2>2. kfs.beats \in {1, 2} /\ kfs.got \in Seq(Bytes)
    BY <2>1 DEF KfsType
  <2> QED
    BY <2>1, <2>2, LenProperties DEF KfsInv
<1>2. Sent(taken) \in 0 .. kfs.beats /\ Sent(taken) \in 0 .. 2
  BY <1>1, ReadsSent
<1>3. /\ Got(beat) \in Seq(Bytes) /\ Len(Got(beat)) \in 0 .. kfs.beats
      /\ Len(owed') = Sent(taken) - Len(Got(beat)) /\ owed' \in Seq(Reading)
      /\ Len(Got(beat)) = Len(kfs.got) + Popped(beat)
  BY ReadsGot
<1>4. req' \in Commands \cup {NoCommand}
  BY ReadsSent
<1> DEFINE k == [kfs EXCEPT !.beat = Sent(taken), !.got = Got(beat)]
<1>5. /\ k \in KfsType /\ k.state = "READ_ISSUE" /\ k.base = kfs.base
      /\ k.beats = kfs.beats /\ k.beat = Sent(taken) /\ k.wbuf = kfs.wbuf
      /\ k.got = Got(beat) /\ k.shown = 0
  BY <1>1, <1>2, <1>3 DEF KfsType
<1>6. \/ (beat = None \/ Len(Got(beat)) # kfs.beats) /\ Kfs(k)
      \/ /\ beat # None /\ Len(Got(beat)) = kfs.beats
         /\ KfsShow([k EXCEPT !.state = "READ_OUT"], Got(beat)[1])
  BY DEF KfsReadIssue, Sent, Got, AllAnswered
<1> HIDE DEF k
<1>7. CASE (beat = None \/ Len(Got(beat)) # kfs.beats) /\ Kfs(k)
  <2>1. /\ kfs' \in KfsType /\ kfs'.state = "READ_ISSUE" /\ kfs'.base = kfs.base
        /\ kfs'.beats = kfs.beats /\ kfs'.beat = Sent(taken) /\ kfs'.wbuf = kfs.wbuf
        /\ kfs'.got = Got(beat) /\ kfs'.show = None /\ kfs'.shown = 0
    <3>1. k \in KfsType /\ Kfs(k)
      BY <1>5, <1>7
    <3>2. /\ kfs' \in KfsType /\ kfs'.state = k.state /\ kfs'.base = k.base
          /\ kfs'.beats = k.beats /\ kfs'.beat = k.beat /\ kfs'.wbuf = k.wbuf
          /\ kfs'.got = k.got /\ kfs'.show = None /\ kfs'.shown = k.shown
      BY <3>1, KfsDrops
    <3> QED
      BY <1>5, <3>2
  <2>2. Len(Got(beat)) < kfs.beats
    <3>1. CASE beat = None
      <4>1. Popped(beat) = 0
        BY <3>1 DEF Popped
      <4> QED
        BY <1>1, <1>3, <4>1
    <3>2. CASE Len(Got(beat)) # kfs.beats
      BY <1>1, <1>3, <3>2
    <3> QED
      BY <1>7, <3>1, <3>2
  <2>3. \/ req' = NoCommand /\ kfs'.beat \in {0, kfs'.beats}
        \/ /\ kfs'.beat < kfs'.beats
           /\ req' = [op |-> "read", a |-> kfs'.base + kfs'.beat, d |-> RomByte]
    BY <2>1, ReadsSent
  <2>4. /\ Len(owed') = kfs'.beat - Len(kfs'.got) /\ Len(kfs'.got) < kfs'.beats
        /\ kfs'.beat <= kfs'.beats /\ (kfs'.beats = 2 => kfs'.base + 1 \in Addr)
        /\ Len(kfs'.wbuf) <= 2 /\ Len(kfs'.got) <= 2
    BY <1>1, <1>2, <1>3, <2>1, <2>2
  <2>5. KfsInv'
    BY <2>1, <2>3, <2>4 DEF KfsInv, read_flag
  <2> QED
    BY <1>4, <2>1, <2>4, <2>5 DEF KfsOK
<1>8. CASE /\ beat # None /\ Len(Got(beat)) = kfs.beats
           /\ KfsShow([k EXCEPT !.state = "READ_OUT"], Got(beat)[1])
  <2>1. Got(beat)[1] \in Bytes /\ Got(beat)[1] # None
    <3>1. Got(beat)[1] \in Bytes
      BY <1>1, <1>3, <1>8, ElementOfSeq
    <3> QED
      BY <3>1, BusAssumption DEF Bytes
  <2>2. /\ kfs' \in KfsType /\ kfs'.state = "READ_OUT" /\ kfs'.base = kfs.base
        /\ kfs'.beats = kfs.beats /\ kfs'.wbuf = kfs.wbuf /\ kfs'.got = Got(beat)
        /\ kfs'.show = Got(beat)[1] /\ kfs'.shown = 1
    <3> DEFINE o == [k EXCEPT !.state = "READ_OUT"]
    <3>1. /\ o \in KfsType /\ o.state = "READ_OUT" /\ o.base = k.base
          /\ o.beats = k.beats /\ o.beat = k.beat /\ o.wbuf = k.wbuf
          /\ o.got = k.got /\ o.shown = 0
      BY <1>5 DEF KfsType
    <3> HIDE DEF o
    <3>2. KfsShow(o, Got(beat)[1])
      BY <1>8 DEF o
    <3>3. /\ kfs' \in KfsType /\ kfs'.state = o.state /\ kfs'.base = o.base
          /\ kfs'.beats = o.beats /\ kfs'.wbuf = o.wbuf
          /\ kfs'.got = o.got /\ kfs'.show = Got(beat)[1] /\ kfs'.shown = o.shown + 1
      BY <2>1, <3>1, <3>2, KfsRaises
    <3> QED
      BY <1>5, <3>1, <3>3
  <2>3. req' = NoCommand /\ owed' = <<>>
    <3>1. Len(owed') \in Nat
      BY <1>3, LenProperties
    <3>2. Sent(taken) = kfs.beats /\ Len(owed') = 0
      BY <1>1, <1>2, <1>3, <1>8, <3>1
    <3> QED
      BY <1>3, <3>2, ReadsSent, EmptySeq
  <2>4. /\ Len(kfs'.got) = kfs'.beats /\ kfs'.shown \in 1 .. kfs'.beats
        /\ kfs'.show = kfs'.got[kfs'.shown] /\ kfs'.show # None
        /\ (kfs'.beats = 2 => kfs'.base + 1 \in Addr)
        /\ Len(kfs'.wbuf) <= 2 /\ Len(kfs'.got) <= 2
    BY <1>1, <1>8, <2>1, <2>2
  <2>5. KfsInv'
    BY <2>2, <2>3, <2>4 DEF KfsInv, read_flag
  <2> QED
    BY <1>4, <2>2, <2>4, <2>5 DEF KfsOK
<1> QED
  BY <1>6, <1>7, <1>8

LEMMA KfsShows ==
  ASSUME NEW taken, NEW beat, NEW hold, Ticks(taken, beat, hold), KfsReadOut
  PROVE  KfsOK'
<1>1. /\ kfs \in KfsType /\ kfs.state = "READ_OUT" /\ kfs.beats \in {1, 2}
      /\ (kfs.beats = 2 => kfs.base + 1 \in Addr) /\ Len(kfs.got) = kfs.beats
      /\ kfs.shown \in 1 .. kfs.beats /\ Len(kfs.wbuf) <= 2 /\ kfs.got \in Seq(Bytes)
      /\ req' = NoCommand
  BY DEF Ticks, Inv, TypeOK, KfsReadOut, KfsInv, KfsType, KeepReq
<1>2. owed' = <<>>
  BY <1>1, Unanswered
<1>3. CASE kfs.shown < kfs.beats /\ KfsShow(kfs, kfs.got[kfs.shown + 1])
  <2>1. kfs.shown = 1 /\ kfs.beats = 2
    BY <1>1, <1>3
  <2>2. kfs.got[2] \in Bytes /\ kfs.got[2] # None
    <3>1. kfs.got[2] \in Bytes
      BY <1>1, <2>1, ElementOfSeq
    <3> QED
      BY <3>1, BusAssumption DEF Bytes
  <2>3. /\ kfs' \in KfsType /\ kfs'.state = "READ_OUT" /\ kfs'.base = kfs.base
        /\ kfs'.beats = 2 /\ kfs'.wbuf = kfs.wbuf /\ kfs'.got = kfs.got
        /\ kfs'.show = kfs.got[2] /\ kfs'.shown = 2
    <3>1. kfs \in KfsType /\ kfs.shown < 2 /\ KfsShow(kfs, kfs.got[2])
      BY <1>1, <1>3, <2>1
    <3>2. /\ kfs' \in KfsType /\ kfs'.state = kfs.state /\ kfs'.base = kfs.base
          /\ kfs'.beats = kfs.beats /\ kfs'.wbuf = kfs.wbuf
          /\ kfs'.got = kfs.got /\ kfs'.show = kfs.got[2]
          /\ kfs'.shown = kfs.shown + 1
      BY <2>2, <3>1, KfsRaises
    <3> QED
      BY <1>1, <2>1, <3>2
  <2>4. /\ Len(kfs'.got) = kfs'.beats /\ kfs'.shown \in 1 .. kfs'.beats
        /\ kfs'.show = kfs'.got[kfs'.shown] /\ kfs'.show # None
        /\ kfs'.base + 1 \in Addr /\ Len(kfs'.wbuf) <= 2 /\ Len(kfs'.got) <= 2
    <3>1. Len(kfs'.got) = 2 /\ kfs'.show = kfs'.got[2] /\ kfs'.show # None
      BY <1>1, <2>1, <2>2, <2>3
    <3>2. kfs'.base + 1 \in Addr /\ Len(kfs'.wbuf) <= 2
      BY <1>1, <2>1, <2>3
    <3> QED
      BY <2>3, <3>1, <3>2
  <2>5. KfsInv'
    BY <1>1, <1>2, <2>3, <2>4 DEF KfsInv, read_flag
  <2> QED
    BY <1>1, <2>3, <2>4, <2>5 DEF KfsOK
<1>4. CASE kfs' = Rest("IDLE")
  BY <1>1, <1>2, <1>4, Constants DEF KfsOK, KfsType, KfsInv, Rest, read_flag
<1> QED
  BY <1>3, <1>4 DEF KfsReadOut

LEMMA KfsOKStep ==
  ASSUME NEW taken, NEW beat, NEW hold, Ticks(taken, beat, hold)
  PROVE  KfsOK'
BY KfsRests, KfsWrites, KfsReads, KfsShows DEF Ticks, Tick, KfsStep

LEMMA TypeStep ==
  ASSUME NEW taken, NEW beat, NEW hold, Ticks(taken, beat, hold)
  PROVE  TypeOK'
<1>1. TypeOK /\ Sound(bus) /\ Paired /\ Tick(taken, beat, hold)
  BY TickTypes DEF Ticks, Inv
<1>2. BusType'
  <2>1. /\ BusType /\ Clock(taken, beat, hold) /\ hold \in BOOLEAN
        /\ taken \in Commands \cup {NoCommand} /\ beat \in Beats \cup {None}
    BY TickTypes DEF TypeOK
  <2> QED
    BY <2>1, BusTypeStep
<1>3. bus' \in BusCycles /\ booting' \in BOOLEAN /\ fast' \in BOOLEAN
  BY <1>1, BusCyclesStep DEF Tick
<1>4. ram' \in RamType /\ out' \in [lo : Bytes, hi : Bytes]
  BY <1>1, RamTypeStep, OutType DEF Tick
<1>5. look' \in [1 .. 2 -> {Empty} \cup [a : Addr, d : Bytes]] /\ victim' \in 1 .. 2
  BY <1>1, LookType DEF Tick
<1>6. resets' \in 0 .. MaxResets
  BY <1>1, ControllerAssumption DEF Tick, TypeOK
<1> QED
  BY <1>2, <1>3, <1>4, <1>5, <1>6, KfsOKStep DEF TypeOK, KfsOK, BusCycles

-----------------------------------------------------------------------------
(* The two machines step by step.                                          *)
RamKeeps ==
  /\ ram'.a = ram.a /\ ram'.d = ram.d /\ ram'.hi = ram.hi
  /\ ram'.write <=> ram.write
  /\ ram'.burst = ram.burst
  /\ ram'.second <=> ram.second \/ read_flag \/ write_flag
  /\ ram'.ready <=> ram.state = "COMPLETE"
RamTakes ==
  /\ ram'.a = bus.a /\ ram'.d = bus.d /\ ram'.hi = bus.hi
  /\ ram'.write <=> write_command
  /\ ram'.burst = NewBurst
  /\ ~ram'.second
  /\ ram'.ready <=> idle /\ ~write_command /\ ~read_command

LEMMA GotoKeeps ==
  ASSUME TypeOK, NEW s, Goto(s), ram.state # "IDLE"
  PROVE  RamKeeps /\ ram'.state = s
<1>1. ram \in RamType
  BY DEF TypeOK
<1>2. ram' = [state |-> s, a |-> ram.a, d |-> ram.d, hi |-> ram.hi,
              write |-> ram.write, burst |-> ram.burst,
              second |-> ram.second \/ read_flag \/ write_flag,
              ready |-> ram.state = "COMPLETE"]
  BY DEF Goto
<1> QED
  BY <1>1, <1>2 DEF RamKeeps, RamType

LEMMA GotoTakes ==
  ASSUME NEW s, Goto(s), ram.state = "IDLE"
  PROVE  RamTakes /\ ram'.state = s
<1>1. ram' = [state |-> s, a |-> bus.a, d |-> bus.d, hi |-> bus.hi,
              write |-> write_command, burst |-> NewBurst, second |-> FALSE,
              ready |-> idle /\ ~write_command /\ ~read_command]
  BY DEF Goto
<1> QED
  BY <1>1 DEF RamTakes

LEMMA RamMoves ==
  ASSUME TypeOK, RamStep
  PROVE  /\ ram.state = "IDLE" =>
              /\ RamTakes
              /\ ram'.state = IF write_command THEN "WRITE_1"
                              ELSE IF ~read_command THEN "IDLE"
                              ELSE IF lookahead_hit THEN "COMPLETE" ELSE "READ_1"
         /\ ram.state # "IDLE" => RamKeeps
         /\ ram.state = "WRITE_1" =>
              ram'.state = IF write_flag THEN "WRITE_2" ELSE "WRITE_1"
         /\ ram.state = "WRITE_2" =>
              ram'.state = IF write_flag THEN "WRITE_2" ELSE "COMPLETE"
         /\ ram.state = "READ_1" =>
              ram'.state = IF read_flag THEN "READ_2"
                           ELSE IF read_command THEN "READ_1" ELSE "WAIT"
         /\ ram.state = "READ_2" =>
              ram'.state = IF ~read_flag THEN "COMPLETE"
                           ELSE IF read_command THEN "READ_2" ELSE "WAIT"
         /\ ram.state = "COMPLETE" =>
              ram'.state = IF (write_command \/ read_command) /\ served_match
                           THEN "COMPLETE" ELSE "IDLE"
         /\ ram.state = "WAIT" => ram'.state = IF idle THEN "IDLE" ELSE "WAIT"
<1>1. CASE RamIdle
  BY <1>1, GotoTakes DEF RamIdle, write_command, read_command
<1>2. CASE RamWrite
  BY <1>2, GotoKeeps DEF RamWrite
<1>3. CASE RamRead
  BY <1>3, GotoKeeps DEF RamRead
<1>4. CASE RamComplete
  BY <1>4, GotoKeeps DEF RamComplete
<1>5. CASE RamWait
  BY <1>5, GotoKeeps DEF RamWait
<1> QED
  BY <1>1, <1>2, <1>3, <1>4, <1>5 DEF RamStep

(* KFSDRAM's registers when it starts an access, while it goes on, and      *)
(* when it is done.                                                        *)
KfsStarts(s) ==
  /\ kfs.state = "IDLE" /\ kfs'.state = s
  /\ kfs'.base = access_address /\ kfs'.beats = access_num /\ kfs'.beat = 0
  /\ kfs'.wbuf = <<>> /\ kfs'.got = <<>> /\ kfs'.show = None /\ kfs'.shown = 0
KfsGoesOn == kfs'.base = kfs.base /\ kfs'.beats = kfs.beats
KfsDone ==
  /\ kfs'.state = "IDLE" /\ kfs'.show = None /\ kfs'.wbuf = <<>> /\ kfs'.got = <<>>

LEMMA KfsMoves ==
  ASSUME NEW taken, NEW beat, NEW hold, Ticks(taken, beat, hold)
  PROVE  /\ kfs.state = "INIT" => KfsDone
         /\ kfs.state = "IDLE" =>
              IF write_request THEN KfsStarts("WRITE_BEATS")
              ELSE IF read_request THEN KfsStarts("READ_ISSUE") ELSE KfsDone
         /\ kfs.state = "WRITE_BEATS" =>
              /\ KfsGoesOn /\ kfs'.beat = 0
              /\ kfs'.wbuf = Append(kfs.wbuf, access_data_in)
              /\ kfs'.show = None
              /\ IF Len(kfs.wbuf) + 1 < kfs.beats THEN kfs'.state = "WRITE_BEATS"
                 ELSE /\ kfs'.state = "WRITE_ISSUE" /\ Len(kfs.wbuf) + 1 = kfs.beats
         /\ kfs.state = "WRITE_ISSUE" =>
              \/ /\ taken = NoCommand /\ kfs' = kfs
              \/ /\ taken # NoCommand /\ kfs.beats = 2 /\ kfs.beat = 0
                 /\ KfsGoesOn /\ kfs'.wbuf = kfs.wbuf
                 /\ kfs'.beat = 1 /\ kfs'.state = "WRITE_ISSUE" /\ kfs'.show = None
              \/ /\ taken # NoCommand /\ kfs.beat + 1 = kfs.beats /\ KfsDone
         /\ kfs.state = "READ_ISSUE" =>
              /\ KfsGoesOn /\ kfs'.got = Got(beat) /\ kfs'.beat = Sent(taken)
              /\ \/ /\ kfs'.state = "READ_ISSUE" /\ kfs'.show = None
                 \/ /\ kfs'.state = "READ_OUT" /\ kfs'.shown = 1
                    /\ Len(Got(beat)) = kfs.beats
         /\ kfs.state = "READ_OUT" =>
              \/ /\ KfsGoesOn /\ kfs'.state = "READ_OUT" /\ kfs'.shown = 2
                 /\ kfs'.got = kfs.got /\ kfs.shown = 1 /\ kfs.beats = 2
              \/ /\ KfsDone /\ kfs.shown = kfs.beats
<1>1. kfs \in KfsType /\ KfsInv /\ KfsStep(taken, beat) /\ kfs' \in KfsType
  BY KfsOKStep DEF Ticks, Inv, TypeOK, Tick, KfsOK
<1>2. CASE KfsInit
  BY <1>2 DEF KfsInit, Rest, KfsDone
<1>3. CASE KfsIdle
  <2>1. ASSUME NEW s \in {"WRITE_BEATS", "READ_ISSUE"}, kfs.state = "IDLE",
               kfs' = [Rest(s) EXCEPT !.base = access_address, !.beats = access_num]
        PROVE  KfsStarts(s)
    <3>1. kfs' = [state |-> s, base |-> access_address, beats |-> access_num, beat |-> 0,
                  wbuf |-> <<>>, got |-> <<>>, show |-> None, shown |-> 0]
      BY <2>1 DEF Rest
    <3>2. kfs'.state = s /\ kfs'.base = access_address
      BY <3>1
    <3>3. kfs'.beats = access_num /\ kfs'.beat = 0
      BY <3>1
    <3>4. kfs'.wbuf = <<>> /\ kfs'.got = <<>>
      BY <3>1
    <3>5. kfs'.show = None /\ kfs'.shown = 0
      BY <3>1
    <3> QED
      BY <2>1, <3>2, <3>3, <3>4, <3>5 DEF KfsStarts
  <2>2. ASSUME kfs' = Rest("IDLE") PROVE KfsDone
    BY <2>2 DEF Rest, KfsDone
  <2>3. /\ kfs.state = "IDLE"
        /\ \/ /\ write_request
              /\ kfs' = [Rest("WRITE_BEATS") EXCEPT !.base = access_address,
                                                    !.beats = access_num]
           \/ /\ ~write_request /\ read_request
              /\ kfs' = [Rest("READ_ISSUE") EXCEPT !.base = access_address,
                                                   !.beats = access_num]
           \/ ~write_request /\ ~read_request /\ kfs' = Rest("IDLE")
    BY <1>3 DEF KfsIdle
  <2> QED
    BY <2>1, <2>2, <2>3
<1>4. CASE KfsWriteBeats
  <2> DEFINE bytes == Append(kfs.wbuf, access_data_in)
             k == [kfs EXCEPT !.wbuf = bytes]
             i == [kfs EXCEPT !.wbuf = bytes, !.state = "WRITE_ISSUE"]
  <2>1. /\ kfs.state = "WRITE_BEATS" /\ kfs.beat = 0 /\ kfs.beats \in {1, 2}
        /\ Len(kfs.wbuf) \in Nat /\ Len(kfs.wbuf) < kfs.beats
    BY <1>1, <1>4, LenProperties DEF KfsWriteBeats, KfsInv, KfsType
  <2>2. access_data_in \in Byte
    BY Asked, TickTypes DEF Ticks, Inv
  <2>3. bytes \in Seq(Byte) /\ Len(bytes) = Len(kfs.wbuf) + 1
    BY <1>1, <2>2, AppendProperties DEF KfsType
  <2>4. \/ Len(bytes) < kfs.beats /\ Kfs(k)
        \/ Len(bytes) = kfs.beats /\ Kfs(i)
    BY <1>4 DEF KfsWriteBeats
  <2> HIDE DEF bytes
  <2>5. /\ k \in KfsType /\ k.state = "WRITE_BEATS" /\ k.wbuf = bytes
        /\ k.base = kfs.base /\ k.beats = kfs.beats /\ k.beat = 0
    BY <1>1, <2>1, <2>3 DEF KfsType
  <2>6. /\ i \in KfsType /\ i.state = "WRITE_ISSUE" /\ i.wbuf = bytes
        /\ i.base = kfs.base /\ i.beats = kfs.beats /\ i.beat = 0
    BY <1>1, <2>1, <2>3 DEF KfsType
  <2> HIDE DEF k, i
  <2>7. CASE Len(bytes) < kfs.beats /\ Kfs(k)
    <3>1. /\ kfs'.state = k.state /\ kfs'.base = k.base /\ kfs'.beats = k.beats
          /\ kfs'.beat = k.beat /\ kfs'.wbuf = k.wbuf /\ kfs'.show = None
      BY <2>5, <2>7, KfsDrops
    <3> QED
      BY <2>1, <2>3, <2>5, <2>7, <3>1 DEF KfsGoesOn, bytes
  <2>8. CASE Len(bytes) = kfs.beats /\ Kfs(i)
    <3>1. /\ kfs'.state = i.state /\ kfs'.base = i.base /\ kfs'.beats = i.beats
          /\ kfs'.beat = i.beat /\ kfs'.wbuf = i.wbuf /\ kfs'.show = None
      BY <2>6, <2>8, KfsDrops
    <3> QED
      BY <2>1, <2>3, <2>6, <2>8, <3>1 DEF KfsGoesOn, bytes
  <2> QED
    BY <2>4, <2>7, <2>8
<1>5. CASE KfsWriteIssue(taken)
  <2> DEFINE k == [kfs EXCEPT !.beat = kfs.beat + 1]
  <2>1. /\ kfs.state = "WRITE_ISSUE" /\ kfs.beats \in {1, 2} /\ kfs.beat \in Nat
        /\ kfs.beat < kfs.beats /\ kfs.show = None
    BY <1>1, <1>5 DEF KfsWriteIssue, KfsInv, KfsType, read_flag
  <2>2. \/ taken = NoCommand /\ Kfs(kfs)
        \/ taken # NoCommand /\ kfs.beat + 1 < kfs.beats /\ Kfs(k)
        \/ taken # NoCommand /\ kfs.beat + 1 = kfs.beats /\ kfs' = Rest("IDLE")
    BY <1>5 DEF KfsWriteIssue
  <2>3. ASSUME Kfs(kfs) PROVE kfs' = kfs
    BY <1>1, <2>1, <2>3 DEF Kfs, KfsType
  <2>4. CASE taken # NoCommand /\ kfs.beat + 1 < kfs.beats /\ Kfs(k)
    <3>1. kfs.beats = 2 /\ kfs.beat = 0
      BY <2>1, <2>4
    <3>2. /\ k \in KfsType /\ k.state = "WRITE_ISSUE" /\ k.wbuf = kfs.wbuf
          /\ k.base = kfs.base /\ k.beats = kfs.beats /\ k.beat = 1
      BY <1>1, <2>1, <3>1 DEF KfsType
    <3> HIDE DEF k
    <3>3. /\ kfs'.state = k.state /\ kfs'.base = k.base /\ kfs'.beats = k.beats
          /\ kfs'.beat = k.beat /\ kfs'.wbuf = k.wbuf /\ kfs'.show = None
      BY <2>4, <3>2, KfsDrops
    <3> QED
      BY <2>1, <2>4, <3>1, <3>2, <3>3 DEF KfsGoesOn
  <2>5. ASSUME kfs' = Rest("IDLE") PROVE KfsDone
    BY <2>5 DEF Rest, KfsDone
  <2> QED
    BY <2>1, <2>2, <2>3, <2>4, <2>5
<1>6. CASE KfsReadIssue(taken, beat)
  <2> DEFINE k == [kfs EXCEPT !.beat = Sent(taken), !.got = Got(beat)]
             o == [k EXCEPT !.state = "READ_OUT"]
  <2>1. kfs.state = "READ_ISSUE" /\ kfs.beats \in {1, 2} /\ kfs.shown = 0
    BY <1>1, <1>6 DEF KfsReadIssue, KfsInv, KfsType
  <2>2. /\ Sent(taken) \in 0 .. 2 /\ Got(beat) \in Seq(Bytes)
        /\ Len(Got(beat)) \in 0 .. kfs.beats
    BY <1>6, <2>1, ReadsSent, ReadsGot
  <2>3. /\ k \in KfsType /\ k.state = "READ_ISSUE" /\ k.base = kfs.base
        /\ k.beats = kfs.beats /\ k.beat = Sent(taken) /\ k.got = Got(beat)
        /\ k.shown = 0
    BY <1>1, <2>1, <2>2 DEF KfsType
  <2>4. \/ Kfs(k)
        \/ Len(Got(beat)) = kfs.beats /\ KfsShow(o, Got(beat)[1])
    BY <1>6 DEF KfsReadIssue, Sent, Got, AllAnswered
  <2> HIDE DEF k
  <2>5. /\ o \in KfsType /\ o.state = "READ_OUT" /\ o.base = kfs.base
        /\ o.beats = kfs.beats /\ o.beat = Sent(taken) /\ o.got = Got(beat)
        /\ o.shown = 0
    BY <2>3 DEF KfsType
  <2> HIDE DEF o
  <2>6. CASE Kfs(k)
    <3>1. /\ kfs'.state = k.state /\ kfs'.base = k.base /\ kfs'.beats = k.beats
          /\ kfs'.beat = k.beat /\ kfs'.got = k.got /\ kfs'.show = None
      BY <2>3, <2>6, KfsDrops
    <3> QED
      BY <2>1, <2>3, <3>1 DEF KfsGoesOn
  <2>7. CASE Len(Got(beat)) = kfs.beats /\ KfsShow(o, Got(beat)[1])
    <3>1. Got(beat)[1] \in Bytes /\ o.shown < 2
      BY <2>1, <2>2, <2>5, <2>7, ElementOfSeq
    <3>2. /\ kfs'.state = o.state /\ kfs'.base = o.base /\ kfs'.beats = o.beats
          /\ kfs'.beat = o.beat /\ kfs'.got = o.got /\ kfs'.shown = o.shown + 1
      BY <2>5, <2>7, <3>1, KfsRaises
    <3> QED
      BY <2>1, <2>5, <2>7, <3>2 DEF KfsGoesOn
  <2> QED
    BY <2>4, <2>6, <2>7
<1>7. CASE KfsReadOut
  <2>1. /\ kfs.state = "READ_OUT" /\ kfs.shown \in 1 .. kfs.beats /\ kfs.beats \in {1, 2}
        /\ Len(kfs.got) = kfs.beats /\ kfs.got \in Seq(Bytes)
    BY <1>1, <1>7 DEF KfsReadOut, KfsInv, KfsType
  <2>2. CASE kfs.shown < kfs.beats /\ KfsShow(kfs, kfs.got[kfs.shown + 1])
    <3>1. kfs.shown = 1 /\ kfs.beats = 2
      BY <2>1, <2>2
    <3>2. kfs.got[2] \in Bytes /\ kfs.shown < 2 /\ KfsShow(kfs, kfs.got[2])
      BY <2>1, <2>2, <3>1, ElementOfSeq
    <3>3. /\ kfs'.state = kfs.state /\ kfs'.base = kfs.base /\ kfs'.beats = kfs.beats
          /\ kfs'.got = kfs.got /\ kfs'.shown = kfs.shown + 1
      BY <1>1, <3>2, KfsRaises
    <3> QED
      BY <2>1, <3>1, <3>3 DEF KfsGoesOn
  <2>3. CASE kfs.shown = kfs.beats /\ kfs' = Rest("IDLE")
    BY <2>1, <2>3 DEF KfsDone, Rest
  <2> QED
    BY <1>7, <2>2, <2>3 DEF KfsReadOut
<1> QED
  BY <1>1, <1>2, <1>3, <1>4, <1>5, <1>6, <1>7 DEF KfsStep

LEMMA PairedStep ==
  ASSUME NEW taken, NEW beat, NEW hold, Ticks(taken, beat, hold)
  PROVE  Paired'
<1>1. Paired /\ KfsInv /\ TypeOK /\ RamStep /\ Sound(bus)
  BY TickTypes DEF Ticks, Inv, Tick
<1>2. /\ ram.state \in {"IDLE", "WRITE_1", "WRITE_2", "READ_1", "READ_2", "COMPLETE", "WAIT"}
      /\ kfs.state \in {"INIT", "IDLE", "WRITE_BEATS", "WRITE_ISSUE", "READ_ISSUE", "READ_OUT"}
      /\ kfs.beats \in {1, 2} /\ kfs.wbuf \in Seq(Byte)
  BY <1>1 DEF TypeOK, RamType, KfsType
<1>3. CASE ram.state = "IDLE"
  <2>1. /\ ram'.write => ram'.burst # "prefetch"
        /\ ram'.burst # "single" => ram'.a + 1 \in Addr
        /\ RamTakes /\ (write_command => ~read_command)
    <3>1. NewBurst # "single" => bus.a + 1 \in Addr
      BY <1>1, ControllerAssumption DEF NewBurst, start_prefetch, Sound, CycleType
    <3>2. write_command => ~read_command /\ NewBurst # "prefetch"
      BY DEF NewBurst, start_prefetch, write_command, read_command
    <3> QED
      BY <1>1, <1>3, <3>1, <3>2, RamMoves DEF RamTakes
  <2>2. /\ write_request <=> write_command
        /\ read_request <=> read_command /\ ~lookahead_hit
        /\ access_address = bus.a
        /\ access_num = IF NewBurst = "single" THEN 1 ELSE 2
    BY <1>3 DEF write_request, read_request, access_address, access_num
  <2>3. CASE kfs.state = "INIT"
    <3>1. bus.op = "none" /\ KfsDone
      BY <1>1, <2>3, KfsMoves DEF Paired
    <3>2. ram'.state = "IDLE"
      BY <1>1, <1>3, <3>1, RamMoves DEF write_command, read_command
    <3> QED
      BY <2>1, <3>1, <3>2 DEF Paired, KfsDone
  <2>4. CASE kfs.state = "IDLE"
    <3>1. IF write_command THEN KfsStarts("WRITE_BEATS")
          ELSE IF read_command /\ ~lookahead_hit THEN KfsStarts("READ_ISSUE") ELSE KfsDone
      BY <2>2, <2>4, KfsMoves
    <3>2. CASE write_command
      <4>1. ram'.state = "WRITE_1" /\ KfsStarts("WRITE_BEATS") /\ ram'.write
        BY <1>1, <1>3, <2>1, <3>1, <3>2, RamMoves DEF RamTakes
      <4> QED
        BY <2>1, <2>2, <4>1 DEF Paired, KfsStarts, RamTakes, Length
    <3>3. CASE read_command /\ ~lookahead_hit
      <4>1. ram'.state = "READ_1" /\ KfsStarts("READ_ISSUE") /\ ~ram'.write
        BY <1>1, <1>3, <2>1, <3>1, <3>3, RamMoves DEF RamTakes
      <4> QED
        BY <2>1, <2>2, <4>1 DEF Paired, KfsStarts, RamTakes, Length
    <3>4. CASE ~write_command /\ ~(read_command /\ ~lookahead_hit)
      <4>1. ram'.state \in {"IDLE", "COMPLETE"} /\ KfsDone
        BY <1>1, <1>3, <3>1, <3>4, RamMoves
      <4> QED
        BY <2>1, <4>1 DEF Paired, KfsDone
    <3> QED
      BY <3>2, <3>3, <3>4
  <2> QED
    BY <1>1, <1>3, <2>3, <2>4 DEF Paired
<1>4. ASSUME ram.state # "IDLE" 
      PROVE  /\ RamKeeps /\ Length' = Length
             /\ ram'.write => ram'.burst # "prefetch"
             /\ ram'.burst # "single" => ram'.a + 1 \in Addr
  <2>1. RamKeeps
    BY <1>1, <1>4, RamMoves
  <2> QED
    BY <1>1, <2>1 DEF RamKeeps, Length, Paired
<1>5. CASE ram.state \in {"COMPLETE", "WAIT"} /\ kfs.state = "IDLE"
  <2>1. KfsDone
    BY <1>5, KfsMoves DEF write_request, read_request
  <2>2. ram'.state \in {"COMPLETE", "IDLE"}
    BY <1>1, <1>5, RamMoves DEF idle
  <2> QED
    BY <1>4, <1>5, <2>1, <2>2 DEF Paired, KfsDone
<1>6. CASE kfs.state = "WRITE_BEATS"
  <2>1. /\ KfsGoesOn /\ kfs'.wbuf = Append(kfs.wbuf, access_data_in)
        /\ IF Len(kfs.wbuf) + 1 < kfs.beats THEN kfs'.state = "WRITE_BEATS"
           ELSE /\ kfs'.state = "WRITE_ISSUE" /\ Len(kfs.wbuf) + 1 = kfs.beats
    BY <1>6, KfsMoves
  <2>2. access_data_in \in Byte
    BY <1>1, Asked
  <2>3. /\ Len(kfs'.wbuf) = Len(kfs.wbuf) + 1 /\ kfs'.wbuf # <<>>
        /\ Len(kfs.wbuf) \in Nat
    BY <1>2, <2>1, <2>2, AppendProperties, LenProperties, EmptySeq
  <2>4. ram.state \in {"WRITE_1", "WRITE_2"} /\ ram.write
    BY <1>1, <1>2, <1>6 DEF Paired
  <2>5. ram'.state = "WRITE_2" /\ ram'.second /\ ram'.write /\ ram'.a = ram.a
    BY <1>1, <1>4, <1>6, <2>4, RamMoves DEF RamKeeps, write_flag
  <2>6. kfs'.base = ram'.a /\ kfs'.beats = Length'
    BY <1>1, <1>4, <1>6, <2>1, <2>4, <2>5 DEF Paired, KfsGoesOn
  <2>7. kfs'.state = "WRITE_BEATS" => Len(kfs'.wbuf) = 1
    BY <1>2, <2>1, <2>3
  <2> QED
    BY <1>4, <2>1, <2>3, <2>4, <2>5, <2>6, <2>7 DEF Paired
<1>7. CASE kfs.state = "WRITE_ISSUE"
  <2>1. ram.state = "WRITE_2" /\ ram.write
    BY <1>1, <1>2, <1>7 DEF Paired
  <2>2. ram'.state = "WRITE_2" /\ ram'.write /\ ram'.a = ram.a
    BY <1>1, <1>4, <1>7, <2>1, RamMoves DEF RamKeeps, write_flag
  <2>3. (kfs'.state = "WRITE_ISSUE" /\ KfsGoesOn) \/ KfsDone
    BY <1>7, KfsMoves DEF KfsGoesOn
  <2> QED
    BY <1>1, <1>4, <1>7, <2>1, <2>2, <2>3 DEF Paired, KfsGoesOn, KfsDone
<1>8. CASE ram.state = "WRITE_2" /\ kfs.state = "IDLE"
  <2>1. KfsDone
    BY <1>8, KfsMoves DEF write_request, read_request
  <2>2. ram'.state = "COMPLETE"
    BY <1>1, <1>8, RamMoves DEF write_flag
  <2> QED
    BY <1>4, <1>8, <2>1, <2>2 DEF Paired, KfsDone
<1>9. CASE kfs.state = "READ_ISSUE"
  <2>1. ram.state \in {"READ_1", "WAIT"} /\ ~ram.second
    BY <1>1, <1>2, <1>9 DEF Paired
  <2>2. ~read_flag /\ ~write_flag /\ ~idle
    BY <1>1, <1>9 DEF KfsInv, write_flag, idle
  <2>3. /\ ram'.state \in {"READ_1", "WAIT"} /\ ~ram'.second /\ ram'.a = ram.a
        /\ ram'.write <=> ram.write
    BY <1>1, <1>4, <2>1, <2>2, RamMoves DEF RamKeeps
  <2>4. /\ KfsGoesOn
        /\ kfs'.state = "READ_ISSUE" \/ (kfs'.state = "READ_OUT" /\ kfs'.shown = 1)
    BY <1>9, KfsMoves
  <2>5. kfs'.base = ram'.a /\ kfs'.beats = Length' /\ (ram.state = "READ_1" => ~ram.write)
    BY <1>1, <1>4, <1>9, <2>1, <2>3, <2>4 DEF Paired, KfsGoesOn
  <2>6. ram'.state = "READ_1" => ~ram'.write
    BY <1>1, <2>1, <2>2, <2>3, <2>5, RamMoves
  <2> QED
    BY <1>4, <2>1, <2>3, <2>4, <2>5, <2>6 DEF Paired
<1>10. CASE kfs.state = "READ_OUT"
  <2>1. /\ ram.state \in {"READ_1", "READ_2", "WAIT"}
        /\ ram.state = "READ_1" => kfs.shown = 1
        /\ ram.state = "READ_2" => kfs.shown = 2
    BY <1>1, <1>2, <1>10 DEF Paired
  <2>2. read_flag /\ ~idle
    BY <1>1, <1>10 DEF KfsInv, idle
  <2>3. /\ ram'.state \in {"READ_2", "WAIT"} /\ ram'.second /\ ram'.a = ram.a
        /\ ram'.write <=> ram.write
    BY <1>1, <1>4, <2>1, <2>2, RamMoves DEF RamKeeps
  <2>4. \/ /\ KfsGoesOn /\ kfs'.state = "READ_OUT" /\ kfs'.shown = 2
        \/ KfsDone
    BY <1>10, KfsMoves
  <2>5. KfsGoesOn => kfs'.base = ram'.a /\ kfs'.beats = Length'
    BY <1>1, <1>4, <1>10, <2>1, <2>3 DEF Paired, KfsGoesOn
  <2>6. ram'.state = "READ_2" => ~ram'.write
    BY <1>1, <2>1, <2>2, <2>3, RamMoves DEF Paired
  <2> QED
    BY <1>4, <2>1, <2>3, <2>4, <2>5, <2>6 DEF Paired, KfsDone
<1>11. CASE ram.state = "READ_2" /\ kfs.state = "IDLE"
  <2>1. KfsDone
    BY <1>11, KfsMoves DEF write_request, read_request
  <2>2. ram'.state = "COMPLETE"
    BY <1>1, <1>11, RamMoves DEF KfsInv
  <2> QED
    BY <1>4, <1>11, <2>1, <2>2 DEF Paired, KfsDone
<1> QED
  BY <1>1, <1>2, <1>3, <1>5, <1>6, <1>7, <1>8, <1>9, <1>10, <1>11 DEF Paired

LEMMA SecondOfTwo ==
  ASSUME NEW n \in Nat, NEW m \in {1, 2}, n < m, n # 0 PROVE n = 1 /\ m = 2
OBVIOUS

LEMMA BufferedStep ==
  ASSUME NEW taken, NEW beat, NEW hold, Ticks(taken, beat, hold)
  PROVE  Buffered'
<1>1. Buffered /\ Paired /\ KfsInv /\ TypeOK /\ RamStep /\ Sound(bus)
  BY TickTypes DEF Ticks, Inv, Tick
<1>2. /\ kfs.wbuf \in Seq(Byte) /\ kfs.beats \in {1, 2} /\ Len(kfs.wbuf) \in Nat
      /\ kfs.state \in {"INIT", "IDLE", "WRITE_BEATS", "WRITE_ISSUE", "READ_ISSUE", "READ_OUT"}
      /\ ram.burst \in {"single", "prefetch", "word"}
  BY <1>1, LenProperties DEF TypeOK, KfsType, RamType
<1>3. CASE kfs.state \in {"INIT", "IDLE"}
  <2>1. KfsDone \/ KfsStarts("READ_ISSUE") \/ KfsStarts("WRITE_BEATS")
    BY <1>3, KfsMoves
  <2>2. Len(kfs'.wbuf) = 0 /\ kfs'.wbuf = <<>>
    <3>1. kfs'.wbuf = <<>> /\ kfs'.wbuf \in Seq(Byte)
      BY <2>1, KfsOKStep DEF KfsDone, KfsStarts, KfsOK, KfsType
    <3> QED
      BY <3>1, EmptySeq
  <2> QED
    BY <2>2 DEF Buffered
<1>4. CASE kfs.state = "WRITE_BEATS"
  <2>1. kfs'.wbuf = Append(kfs.wbuf, access_data_in) /\ access_data_in \in Byte
    BY <1>1, <1>4, KfsMoves, Asked
  <2>2. /\ ram.state \in {"WRITE_1", "WRITE_2"} /\ ram.write
        /\ ram.burst # "prefetch" /\ kfs.beats = Length
        /\ (ram.second <=> kfs.wbuf # <<>>)
        /\ Len(kfs.wbuf) < kfs.beats
    BY <1>1, <1>4 DEF Paired, KfsInv, TypeOK, RamType
  <2>3. ram'.d = ram.d /\ ram'.hi = ram.hi
    BY <1>1, <2>2, RamMoves DEF RamKeeps
  <2>4. /\ kfs.wbuf # <<>> <=> Len(kfs.wbuf) # 0
        /\ Len(kfs'.wbuf) = Len(kfs.wbuf) + 1
        /\ kfs'.wbuf[Len(kfs.wbuf) + 1] = access_data_in
        /\ \A i \in 1 .. Len(kfs.wbuf) : kfs'.wbuf[i] = kfs.wbuf[i]
    BY <1>2, <2>1, AppendProperties, EmptySeq
  <2>5. CASE Len(kfs.wbuf) = 0
    <3>1. access_data_in = ram.d
      BY <2>2, <2>4, <2>5 DEF access_data_in
    <3>2. Len(kfs'.wbuf) = 1 /\ kfs'.wbuf[1] = ram.d
      BY <2>4, <2>5, <3>1
    <3> QED
      BY <2>3, <3>2 DEF Buffered
  <2>6. CASE Len(kfs.wbuf) # 0
    <3>1. Len(kfs.wbuf) = 1 /\ kfs.beats = 2
      <4>1. Len(kfs.wbuf) < kfs.beats
        BY <2>2
      <4>2. kfs.beats \in {1, 2} /\ Len(kfs.wbuf) \in Nat
        BY <1>2
      <4> QED
        BY <2>6, <4>1, <4>2, SecondOfTwo
    <3>2. access_data_in = ram.hi
      BY <1>2, <2>2, <2>4, <2>6, <3>1 DEF access_data_in, Length
    <3>3. Len(kfs'.wbuf) = 2 /\ kfs'.wbuf[1] = ram.d /\ kfs'.wbuf[2] = ram.hi
      BY <1>1, <1>4, <2>4, <2>6, <3>1, <3>2 DEF Buffered
    <3> QED
      BY <2>3, <3>3 DEF Buffered
  <2> QED
    BY <2>5, <2>6
<1>5. CASE kfs.state = "WRITE_ISSUE"
  <2>1. ram'.d = ram.d /\ ram'.hi = ram.hi
    BY <1>1, <1>5, RamMoves DEF RamKeeps, Paired
  <2>2. kfs'.wbuf = kfs.wbuf \/ KfsDone
    BY <1>5, KfsMoves
  <2> QED
    BY <1>1, <1>5, <2>1, <2>2 DEF Buffered, KfsDone
<1>6. CASE kfs.state \in {"READ_ISSUE", "READ_OUT"}
  BY <1>6, KfsMoves DEF Buffered, KfsDone
<1> QED
  BY <1>2, <1>3, <1>4, <1>5, <1>6

-----------------------------------------------------------------------------
(* The chipset's bus.                                                      *)
Presses(hold) == hold /\ ~held
Fetches(c) == c.op = "read" /\ ~c.word
BusHolds ==
  /\ bus.op # "none" /\ bus'.op = bus.op /\ bus'.a = bus.a /\ bus'.d = bus.d
  /\ bus'.hi = bus.hi /\ (bus'.word <=> bus.word) /\ ~bus'.first
  /\ (write_command' <=> write_command) /\ (read_command' <=> read_command)

LEMMA BusMoves ==
  ASSUME TypeOK, NEW press, BusStep(press)
  PROVE  \/ press /\ bus' = Idle /\ booting'
         \/ /\ ~press /\ bus.op = "none" /\ ~booting' /\ bus' \in Cycles
            /\ booting => Fetches(bus')
         \/ /\ ~press /\ bus.op = "none" /\ bus' = Idle /\ booting' = booting
         \/ /\ ~press /\ bus.op # "none" /\ booting' = booting /\ fast' = fast
            /\ BusHolds \/ (bus' = Idle /\ (bus.op = "refresh" \/ READY))
<1>1. CASE press
  BY <1>1 DEF BusStep
<1>2. CASE ~press /\ bus.op = "none"
  <2>1. CASE bus' \in IF booting THEN BootFetches ELSE Cycles
    BY <1>2, <2>1 DEF BusStep, BootFetches, Cycles, Fetches, Reads, Cycle
  <2> QED
    BY <1>2, <2>1 DEF BusStep
<1>3. CASE ~press /\ bus.op # "none"
  <2>1. bus \in CycleType
    BY BusSound DEF TypeOK, BusCycles, Sound
  <2>2. ASSUME bus' = [bus EXCEPT !.first = FALSE] PROVE BusHolds
    BY <1>3, <2>1, <2>2 DEF BusHolds, CycleType, write_command, read_command
  <2> QED
    BY <1>3, <2>2 DEF BusStep
<1> QED
  BY <1>1, <1>2, <1>3

(* READY ends only an access that is complete.                             *)
LEMMA ReadyComplete ==
  ASSUME Owned, READY, bus.op # "none" PROVE ram.state = "COMPLETE" /\ served_match
BY DEF Owned, READY, memory_access_ready

LEMMA ServedKept ==
  ASSUME RamKeeps, BusHolds PROVE (served_match' <=> served_match) /\ (OnBus' <=> OnBus)
BY DEF RamKeeps, BusHolds, served_match, OnBus

(* What is latched from the bus is the bus's.                              *)
LEMMA Latched ==
  ASSUME Sound(bus), RamTakes, BusHolds, write_command \/ read_command PROVE OnBus'
BY DEF RamTakes, BusHolds, OnBus, NewBurst, Sound, CycleType, write_command, read_command

LEMMA OwnedStep ==
  ASSUME NEW taken, NEW beat, NEW hold, Ticks(taken, beat, hold)
  PROVE  Owned'
<1>1. Owned /\ Paired /\ KfsInv /\ TypeOK /\ RamStep /\ Sound(bus)
      /\ BusStep(Presses(hold))
  BY TickTypes DEF Ticks, Inv, Tick, Presses
<1>2. /\ ram.state \in {"IDLE", "WRITE_1", "WRITE_2", "READ_1", "READ_2", "COMPLETE", "WAIT"}
      /\ ram'.state \in {"IDLE", "WRITE_1", "WRITE_2", "READ_1", "READ_2", "COMPLETE", "WAIT"}
      /\ bus.op \in {"none", "read", "refresh", "write"}
      /\ Idle.op = "none"
  BY <1>1, TypeStep DEF TypeOK, RamType, Sound, CycleType, Idle
<1>3. booting' => bus'.op = "none"
  BY <1>1, <1>2, BusMoves DEF Owned
<1>4. /\ write_command => bus.op = "write" /\ ~read_command
      /\ read_command => bus.op \in {"read", "refresh"}
      /\ OnBus => bus.op \in {"read", "refresh", "write"} /\ bus.a = ram.a
      /\ OnBus /\ ram.write => bus.op = "write"
      /\ OnBus /\ ~ram.write => read_command
  BY DEF write_command, read_command, OnBus
<1>5. /\ write_command' => bus'.op = "write"
      /\ bus'.op = "none" => ~read_command' /\ ~write_command'
  BY DEF write_command, read_command
<1>6. ASSUME bus.op \in {"read", "write"}, ram.state # "COMPLETE"
      PROVE  (BusHolds /\ booting' = booting) \/ (bus' = Idle /\ booting')
  BY <1>1, <1>6, BusMoves, ReadyComplete
<1>7. ram'.state \in {"WRITE_1", "WRITE_2"} =>
        OnBus' \/ (bus'.op = "none" /\ booting') \/ bus'.op = "read"
  <2>1. CASE ram.state = "IDLE"
    <3> SUFFICES ASSUME write_command PROVE OnBus' \/ (bus'.op = "none" /\ booting')
      BY <1>1, <2>1, RamMoves
    <3>1. RamTakes
      BY <1>1, <2>1, RamMoves
    <3> QED
      BY <1>1, <1>2, <1>4, <1>6, <2>1, <3>1, Latched
  <2>2. CASE ram.state \in {"WRITE_1", "WRITE_2"}
    <3>1. RamKeeps /\ ram.write
      BY <1>1, <2>2, RamMoves DEF Paired
    <3>2. CASE OnBus
      BY <1>2, <1>4, <1>6, <2>2, <3>1, <3>2, ServedKept
    <3>3. CASE bus.op = "none" /\ booting
      BY <1>1, <1>2, <3>3, BusMoves DEF Fetches
    <3>4. CASE bus.op = "read"
      BY <1>2, <1>6, <2>2, <3>4 DEF BusHolds
    <3> QED
      BY <1>1, <2>2, <3>2, <3>3, <3>4 DEF Owned
  <2> QED
    BY <1>1, <1>2, <2>1, <2>2, RamMoves
<1>8. ram'.state = "COMPLETE" /\ ram'.write => OnBus' \/ bus'.op # "write"
  <2> SUFFICES ASSUME ram'.state = "COMPLETE", ram'.write, bus'.op = "write"
               PROVE  OnBus'
    OBVIOUS
  <2>1. ram.state \in {"WRITE_2", "COMPLETE"}
    <3>1. CASE ram.state = "IDLE"
      BY <1>1, <3>1, RamMoves DEF RamTakes
    <3>2. CASE ram.state = "READ_2"
      BY <1>1, <3>2, RamMoves DEF RamKeeps, Paired
    <3> QED
      BY <1>1, <1>2, <3>1, <3>2, RamMoves
  <2>2. RamKeeps /\ ram.write
    BY <1>1, <2>1, RamMoves DEF RamKeeps
  <2>3. bus.op # "none"
    <3>1. CASE ram.state = "WRITE_2"
      <4>1. OnBus \/ (bus.op = "none" /\ booting) \/ bus.op = "read"
        BY <1>1, <3>1 DEF Owned
      <4>2. ~(bus.op = "none" /\ booting)
        BY <1>1, <1>2, BusMoves DEF Fetches
      <4> QED
        BY <1>4, <4>1, <4>2
    <3>2. CASE ram.state = "COMPLETE"
      BY <1>1, <1>4, <3>2, RamMoves
    <3> QED
      BY <2>1, <3>1, <3>2
  <2>4. BusHolds
    BY <1>1, <1>2, <2>3, BusMoves
  <2>5. bus.op = "write"
    BY <2>4 DEF BusHolds
  <2> QED
    BY <1>1, <2>1, <2>2, <2>4, <2>5, ServedKept DEF Owned
<1>9. \/ ram'.state \in {"READ_1", "READ_2"}
      \/ ram'.state = "COMPLETE" /\ ~ram'.write
      => OnBus' \/ GivenUp' \/ (bus'.op = "read" /\ ~bus'.word)
           \/ (ram'.state = "COMPLETE" /\ bus'.op = "none")
  <2>1. CASE ram.state = "IDLE"
    <3> SUFFICES ASSUME read_command PROVE OnBus' \/ GivenUp'
      BY <1>1, <2>1, RamMoves DEF RamTakes
    <3>1. RamTakes
      BY <1>1, <2>1, RamMoves
    <3>2. CASE bus.op = "read"
      BY <1>1, <1>2, <1>6, <2>1, <3>1, <3>2, Latched DEF GivenUp
    <3>3. CASE bus.op = "refresh"
      BY <1>1, <3>1, <3>3 DEF GivenUp, RamTakes, Sound
    <3> QED
      BY <1>4, <3>2, <3>3
  <2>2. CASE \/ ram.state \in {"READ_1", "READ_2"}
             \/ ram.state = "COMPLETE" /\ ~ram.write
    <3>1. RamKeeps /\ ~ram.write
      BY <1>1, <2>2, RamMoves DEF Paired
    <3>2. CASE ram.a \in RefreshAddr \/ ram.burst = "word"
      BY <3>1, <3>2 DEF GivenUp, RamKeeps
    <3>3. CASE bus.op = "refresh" /\ OnBus
      BY <1>1, <1>4, <3>1, <3>3 DEF GivenUp, RamKeeps, Sound
    <3>4. CASE ram.state = "COMPLETE"
      <4> SUFFICES ASSUME ram'.state = "COMPLETE", bus'.op # "none"
                   PROVE  OnBus' \/ GivenUp' \/ (bus'.op = "read" /\ ~bus'.word)
        BY <1>1, <1>2, <3>4, RamMoves
      <4>1. read_command
        BY <1>1, <3>1, <3>4, RamMoves DEF served_match
      <4>2. BusHolds
        BY <1>1, <1>2, <1>4, <4>1, BusMoves
      <4>3. ~booting
        BY <1>1, <4>2 DEF Owned, BusHolds
      <4>4. OnBus \/ ram.a \in RefreshAddr \/ ram.burst = "word"
              \/ (bus.op = "read" /\ ~bus.word)
        BY <1>1, <3>1, <3>4, <4>2, <4>3 DEF Owned, GivenUp, BusHolds
      <4>5. ram'.a = ram.a /\ ram'.burst = ram.burst
        BY <3>1 DEF RamKeeps
      <4>6. bus.op = "read" /\ ~bus.word => bus'.op = "read" /\ ~bus'.word
        BY <4>2 DEF BusHolds
      <4> QED
        BY <3>1, <4>2, <4>4, <4>5, <4>6, ServedKept DEF GivenUp
    <3>5. CASE ram.state # "COMPLETE" /\ bus.op = "read"
      BY <1>1, <1>4, <1>6, <2>2, <3>1, <3>2, <3>5, ServedKept
         DEF Owned, GivenUp, BusHolds
    <3>6. CASE ram.state # "COMPLETE" /\ booting
      BY <1>1, <1>2, <3>6, BusMoves DEF Owned, GivenUp, Fetches
    <3> QED
      BY <1>1, <1>4, <2>2, <3>1, <3>2, <3>3, <3>4, <3>5, <3>6 DEF Owned, GivenUp
  <2> QED
    BY <1>1, <1>2, <2>1, <2>2, RamMoves DEF RamKeeps, Paired
<1>10. bus'.op # "none" /\ ~bus'.first /\ ram'.ready /\ served_match' =>
         ram'.state = "COMPLETE"
  <2> SUFFICES ASSUME bus'.op # "none", ~bus'.first, ram'.ready, served_match'
               PROVE  ram'.state = "COMPLETE"
    OBVIOUS
  <2>1. BusHolds
    BY <1>1, <1>2, BusMoves, CycleSound
  <2>2. CASE ram.state = "IDLE"
    BY <1>1, <2>1, <2>2, RamMoves DEF RamTakes, BusHolds, served_match
  <2>3. CASE ram.state # "IDLE"
    <3>1. RamKeeps /\ ram.state = "COMPLETE" /\ served_match
      BY <1>1, <2>1, <2>3, RamMoves, ServedKept DEF RamKeeps
    <3> QED
      BY <1>1, <3>1, RamMoves DEF served_match
  <2> QED
    BY <2>2, <2>3
<1> QED
  BY <1>3, <1>7, <1>8, <1>9, <1>10 DEF Owned

-----------------------------------------------------------------------------
(* What a clock does to the memory.                                        *)
Lands(taken, a) == taken.op = "write" /\ taken.a = a /\ a \notin ReadOnly

LEMMA ToldStep ==
  ASSUME NEW taken \in Commands \cup {NoCommand}, NEW beat, NEW hold,
         BusType, Clock(taken, beat, hold), NEW a \in Addr
  PROVE  told'[a] = IF Presses(hold) /\ a \notin Block THEN Unknown
                    ELSE IF Lands(taken, a) THEN taken.d ELSE told[a]
<1> DEFINE after == IF taken.op = "write" /\ taken.a \notin ReadOnly
                    THEN [told EXCEPT ![taken.a] = taken.d] ELSE told
<1>1. told \in [Addr -> Byte \cup {Unknown}]
  BY DEF BusType
<1>2. after[a] = IF Lands(taken, a) THEN taken.d ELSE told[a]
  <2>1. CASE taken.op = "write" /\ taken.a \notin ReadOnly
    BY <1>1, <2>1 DEF Lands
  <2>2. CASE ~(taken.op = "write" /\ taken.a \notin ReadOnly)
    BY <2>2 DEF Lands
  <2> QED
    BY <2>1, <2>2
<1>3. told' = IF hold /\ ~held THEN Forget(after) ELSE after
  BY DEF Clock, Records
<1> HIDE DEF after
<1>4. Forget(after)[a] = IF a \in Block THEN after[a] ELSE Unknown
  BY DEF Forget
<1> QED
  BY <1>2, <1>3, <1>4 DEF Presses

LEMMA HoldsStep ==
  ASSUME NEW taken, NEW beat, NEW hold, Ticks(taken, beat, hold),
         NEW a \in Addr, NEW b, Holds(a, b), ~Lands(taken, a)
  PROVE  told'[a] \in {Unknown, b}
<1>1. BusType /\ Clock(taken, beat, hold) /\ taken \in Commands \cup {NoCommand}
  BY TickTypes DEF TypeOK
<1>2. told'[a] \in {Unknown, told[a]}
  BY <1>1, ToldStep
<1> QED
  BY <1>2 DEF Holds

(* Only the write KFSDRAM holds on the bus lands in the memory.            *)
LEMMA LandsOnlyWriting ==
  ASSUME NEW taken, NEW beat, NEW hold, Ticks(taken, beat, hold),
         kfs.state # "WRITE_ISSUE"
  PROVE  taken.op # "write" /\ \A a : ~Lands(taken, a)
<1>1. taken \in {req, NoCommand} /\ KfsInv
  BY DEF Ticks, Inv, Takes
<1>2. req.op # "write"
  BY <1>1, Constants DEF KfsInv
<1> QED
  BY <1>1, <1>2, Constants DEF Lands

LEMMA ErasedStep ==
  ASSUME NEW taken, NEW beat, NEW hold, Ticks(taken, beat, hold)
  PROVE  Erased'
<1>1. /\ BusType /\ Clock(taken, beat, hold) /\ taken \in Commands \cup {NoCommand}
      /\ Erased
  BY TickTypes DEF TypeOK, Ticks, Inv
<1>2. held' = hold /\ (held => taken = NoCommand)
  BY <1>1 DEF Clock
<1>3. ASSUME hold, NEW a \in Addr \ Block PROVE told'[a] = Unknown
  <2>1. CASE held
    BY <1>1, <1>2, <1>3, <2>1, ToldStep, Constants DEF Erased, Lands, Presses
  <2>2. CASE ~held
    BY <1>1, <1>3, <2>2, ToldStep DEF Presses
  <2> QED
    BY <2>1, <2>2
<1> QED
  BY <1>2, <1>3 DEF Erased

(* The bytes KFSDRAM has and awaits.                                       *)
LEMMA Span ==
  ASSUME KfsInv, kfs \in KfsType, NEW i \in Nat, i < kfs.beats
  PROVE  kfs.base + i \in Addr
<1>1. kfs.base \in Addr /\ kfs.base \in Nat /\ kfs.beats \in {1, 2}
  <2>1. kfs.base \in Addr /\ kfs.beats \in 1 .. 2
    BY DEF KfsType
  <2>2. kfs.base \in Nat
    BY <2>1, ControllerAssumption
  <2>3. kfs.beats \in {1, 2}
    BY <2>1
  <2> QED
    BY <2>1, <2>2, <2>3
<1>2. i = 0 \/ (i = 1 /\ kfs.beats = 2)
  <2>1. CASE i # 0
    BY <1>1, <2>1, SecondOfTwo
  <2> QED
    BY <2>1
<1>3. kfs.base + 0 = kfs.base
  BY <1>1
<1> QED
  BY <1>1, <1>2, <1>3 DEF KfsInv

LEMMA BeatHolds ==
  ASSUME NEW taken, NEW beat, NEW hold, Ticks(taken, beat, hold),
         kfs.state = "READ_ISSUE", beat # None
  PROVE  Holds(kfs.base + Len(kfs.got), beat)
<1>1. /\ owed \in Seq(Reading) /\ kfs.got \in Seq(Bytes) /\ kfs.base \in Nat
      /\ ReadData /\ Erased
  BY ControllerAssumption DEF Ticks, Inv, TypeOK, BusType, Reading, KfsType
<1>2. owed # <<>> /\ beat \in Answers(Head(owed))
      /\ (Head(owed).d = Unknown => beat \notin Byte)
  BY DEF Ticks, Beating
<1>3. Head(owed) = owed[1] /\ 1 \in 1 .. Len(owed) /\ Len(kfs.got) \in Nat
      /\ owed[1] \in Reading
  BY <1>1, <1>2, HeadTailProperties, LenProperties, EmptySeq, ElementOfSeq
<1>4. owed[1].a = kfs.base + Len(kfs.got) + 1 - 1 /\ Holds(owed[1].a, owed[1].d)
  BY <1>1, <1>3 DEF ReadData
<1>5. owed[1].a = kfs.base + Len(kfs.got)
  BY <1>1, <1>3, <1>4
<1>6. Holds(owed[1].a, beat)
  <2>1. CASE owed[1].d = Unknown
    BY <1>4, <2>1 DEF Holds
  <2>2. CASE owed[1].d # Unknown /\ beat = owed[1].d
    BY <1>4, <2>2
  <2>3. CASE held /\ owed[1].a \notin Block
    BY <1>1, <1>3, <2>3 DEF Erased, Holds, Reading
  <2> QED
    BY <1>2, <1>3, <2>1, <2>2, <2>3 DEF Answers
<1> QED
  BY <1>5, <1>6

LEMMA Shifted ==
  ASSUME NEW b \in Nat, NEW g \in Nat, NEW j \in Nat, NEW p \in Nat
  PROVE  b + g + (j + p) - 1 = b + (g + p) + j - 1
OBVIOUS

LEMMA ReadDataStep ==
  ASSUME NEW taken, NEW beat, NEW hold, Ticks(taken, beat, hold)
  PROVE  ReadData'
<1>1. /\ ReadData /\ KfsInv /\ TypeOK /\ kfs \in KfsType /\ kfs.base \in Nat
      /\ kfs.got \in Seq(Bytes) /\ Len(kfs.got) \in Nat
      /\ kfs.state \in {"INIT", "IDLE", "WRITE_BEATS", "WRITE_ISSUE", "READ_ISSUE", "READ_OUT"}
  BY ControllerAssumption, LenProperties DEF Ticks, Inv, TypeOK, KfsType
<1>2. CASE kfs.state \in {"INIT", "IDLE", "WRITE_BEATS", "WRITE_ISSUE"}
  <2>1. CASE KfsStarts("READ_ISSUE")
    <3>1. Len(kfs'.got) = 0 /\ Len(owed') = 0
      <4>1. kfs'.got = <<>> /\ kfs'.got \in Seq(Bytes)
        BY <2>1, KfsOKStep DEF KfsStarts, KfsOK, KfsType
      <4>2. Len(owed') = 0
        BY <1>2, Unanswered
      <4> QED
        BY <4>1, <4>2, EmptySeq
    <3> QED
      BY <3>1 DEF ReadData
  <2>2. CASE kfs'.state \notin {"READ_ISSUE", "READ_OUT"}
    BY <2>2 DEF ReadData
  <2> QED
    BY <1>2, <2>1, <2>2, KfsMoves DEF KfsDone, KfsStarts
<1>3. CASE kfs.state = "READ_ISSUE"
  <2>1. KfsGoesOn /\ kfs'.got = Got(beat)
    BY <1>3, KfsMoves
  <2>2. KfsReadIssue(taken, beat) /\ (\A a : ~Lands(taken, a))
    BY <1>3, LandsOnlyWriting DEF Ticks, Tick, KfsStep, KfsInit, KfsIdle,
       KfsWriteBeats, KfsWriteIssue, KfsReadOut
  <2>3. /\ Len(Got(beat)) = Len(kfs.got) + Popped(beat)
        /\ Len(Got(beat)) <= kfs.beats /\ kfs.beats \in {1, 2}
        /\ \A i \in 1 .. Len(kfs.got) : Got(beat)[i] = kfs.got[i]
        /\ beat # None => Got(beat)[Len(kfs.got) + 1] = beat
        /\ Popped(beat) \in {0, 1}
    BY <1>1, <2>2, ReadsGot DEF KfsType, Popped
  <2>4. ASSUME NEW i \in 1 .. Len(kfs'.got)
        PROVE  told'[kfs'.base + i - 1] \in {Unknown, kfs'.got[i]}
    <3>1. i \in Nat /\ i - 1 \in Nat /\ i - 1 < kfs.beats
          /\ kfs.base + (i - 1) = kfs.base + i - 1
      BY <1>1, <2>1, <2>3
    <3>2. kfs.base + i - 1 \in Addr
      BY <1>1, <3>1, Span
    <3>3. CASE i \in 1 .. Len(kfs.got)
      <4>1. Holds(kfs.base + i - 1, kfs.got[i])
        BY <1>1, <1>3, <3>3 DEF ReadData
      <4>2. told'[kfs.base + i - 1] \in {Unknown, kfs.got[i]}
        BY <2>2, <3>2, <4>1, HoldsStep
      <4> QED
        BY <2>1, <2>3, <3>3, <4>2 DEF KfsGoesOn
    <3>4. CASE i \notin 1 .. Len(kfs.got)
      <4>1. i = Len(kfs.got) + 1 /\ beat # None
        <5>1. /\ i \in 1 .. Len(kfs.got) + Popped(beat) /\ Popped(beat) \in {0, 1}
              /\ Len(kfs.got) \in Nat
          BY <1>1, <2>1, <2>3
        <5>2. Popped(beat) = 1 /\ i = Len(kfs.got) + 1
          BY <3>4, <5>1
        <5> QED
          BY <5>2 DEF Popped
      <4>2. kfs.base + i - 1 = kfs.base + Len(kfs.got)
        BY <1>1, <4>1
      <4>3. Holds(kfs.base + i - 1, beat)
        BY <1>3, <4>1, <4>2, BeatHolds
      <4>4. told'[kfs.base + i - 1] \in {Unknown, beat}
        BY <2>2, <3>2, <4>3, HoldsStep
      <4> QED
        BY <2>1, <2>3, <4>1, <4>4 DEF KfsGoesOn
    <3> QED
      BY <3>3, <3>4
  <2>5. /\ Len(owed') = Len(owed) - Popped(beat) + Pushed(taken)
        /\ \A j \in 1 .. Len(owed') :
             owed'[j] = IF j + Popped(beat) <= Len(owed)
                        THEN owed[j + Popped(beat)]
                        ELSE [a |-> taken.a, d |-> told[taken.a]]
        /\ Popped(beat) <= Len(owed)
        /\ owed \in Seq(Reading)
    <3>1. BusType /\ Clock(taken, beat, hold) /\ taken \in Commands \cup {NoCommand}
      BY TickTypes DEF TypeOK
    <3> QED
      BY <3>1, OwedStep DEF BusType, Reading
  <2>6. ASSUME NEW j \in 1 .. Len(owed')
        PROVE  /\ owed'[j].a = kfs'.base + Len(kfs'.got) + j - 1
               /\ told'[owed'[j].a] \in {Unknown, owed'[j].d}
    <3>0. Len(owed) \in Nat /\ Pushed(taken) \in {0, 1}
      BY <2>5, LenProperties DEF Pushed
    <3>1. CASE j + Popped(beat) <= Len(owed)
      <4>1. j + Popped(beat) \in 1 .. Len(owed)
        BY <2>3, <3>0, <3>1
      <4>2. owed'[j] = owed[j + Popped(beat)] /\ owed[j + Popped(beat)] \in Reading
        BY <2>5, <3>1, <4>1, ElementOfSeq
      <4>3. /\ owed'[j].a = kfs.base + Len(kfs.got) + (j + Popped(beat)) - 1
            /\ Holds(owed'[j].a, owed'[j].d) /\ owed'[j].a \in Addr
        BY <1>1, <1>3, <4>1, <4>2 DEF ReadData, Reading
      <4>4. told'[owed'[j].a] \in {Unknown, owed'[j].d}
        BY <2>2, <4>3, HoldsStep
      <4>5. kfs.base + Len(kfs.got) + (j + Popped(beat)) - 1
              = kfs.base + Len(Got(beat)) + j - 1
        <5>1. /\ kfs.base \in Nat /\ Len(kfs.got) \in Nat /\ j \in Nat
              /\ Popped(beat) \in Nat
          BY <1>1, <2>3
        <5> QED
          BY <2>3, <5>1, Shifted
      <4> QED
        BY <2>1, <4>3, <4>4, <4>5 DEF KfsGoesOn
    <3>2. CASE ~(j + Popped(beat) <= Len(owed))
      <4>1. Pushed(taken) = 1 /\ j + Popped(beat) = Len(owed) + 1
        BY <2>3, <2>5, <3>0, <3>2
      <4>2. taken.op = "read" /\ taken = req /\ taken \in Commands
        BY <4>1, TickTypes, Constants DEF Pushed, Ticks, Takes
      <4>3. taken.a = kfs.base + kfs.beat /\ kfs.beat \in Nat
            /\ Len(owed) = kfs.beat - Len(kfs.got)
        BY <1>1, <1>3, <4>2, Constants DEF KfsInv, KfsType
      <4>4. owed'[j].a = taken.a /\ owed'[j].d = told[taken.a] /\ taken.a \in Addr
        BY <2>5, <3>2, <4>2 DEF Commands
      <4>5. Holds(taken.a, told[taken.a])
        BY DEF Holds
      <4>6. told'[taken.a] \in {Unknown, told[taken.a]}
        BY <2>2, <4>4, <4>5, HoldsStep
      <4>7. kfs.base + kfs.beat = kfs.base + Len(Got(beat)) + j - 1
        <5>1. /\ kfs.base \in Nat /\ Len(kfs.got) \in Nat /\ j \in Nat
              /\ Popped(beat) \in Nat /\ kfs.beat \in Nat
              /\ j + Popped(beat) = kfs.beat - Len(kfs.got) + 1
          BY <1>1, <2>3, <4>1, <4>3
        <5>2. kfs.base + Len(kfs.got) + (j + Popped(beat)) - 1
                = kfs.base + Len(Got(beat)) + j - 1
          BY <2>3, <5>1, Shifted
        <5>3. kfs.base + Len(kfs.got) + (kfs.beat - Len(kfs.got) + 1) - 1
                = kfs.base + kfs.beat
          BY <5>1
        <5> QED
          BY <5>1, <5>2, <5>3
      <4> QED
        BY <2>1, <4>3, <4>4, <4>6, <4>7 DEF KfsGoesOn
    <3> QED
      BY <3>1, <3>2
  <2> QED
    BY <2>4, <2>6 DEF ReadData, Holds
<1>4. CASE kfs.state = "READ_OUT"
  <2>1. \A a : ~Lands(taken, a)
    BY <1>4, LandsOnlyWriting
  <2>2. CASE KfsDone
    BY <2>2 DEF ReadData, KfsDone
  <2>3. CASE KfsGoesOn /\ kfs'.state = "READ_OUT" /\ kfs'.got = kfs.got
    <3>1. ASSUME NEW i \in 1 .. Len(kfs'.got)
          PROVE  told'[kfs'.base + i - 1] \in {Unknown, kfs'.got[i]}
      <4>1. i \in 1 .. Len(kfs.got) /\ kfs'.got[i] = kfs.got[i]
        BY <2>3, <3>1
      <4>2. i - 1 \in Nat /\ i - 1 < kfs.beats /\ kfs.base + (i - 1) = kfs.base + i - 1
        BY <1>1, <1>4, <4>1 DEF KfsInv
      <4>3. kfs.base + i - 1 \in Addr
        BY <1>1, <4>2, Span
      <4>4. Holds(kfs.base + i - 1, kfs.got[i])
        BY <1>1, <1>4, <4>1 DEF ReadData
      <4> QED
        BY <2>1, <2>3, <4>1, <4>3, <4>4, HoldsStep DEF KfsGoesOn
    <3> QED
      BY <2>3, <3>1 DEF ReadData, Holds
  <2> QED
    BY <1>4, <2>2, <2>3, KfsMoves
<1> QED
  BY <1>1, <1>2, <1>3, <1>4

(* The byte KFSDRAM shows is the memory's at its address.                  *)
LEMMA ShowHolds ==
  ASSUME Inv, kfs.state = "READ_OUT"
  PROVE  /\ kfs.shown = 1 => Holds(ram.a, kfs.show)
         /\ kfs.shown = 2 => Holds(ram.a + 1, kfs.show) /\ Length = 2
         /\ kfs.shown \in {1, 2} /\ kfs.beats = Length /\ kfs.base = ram.a
         /\ ram.a \in Addr /\ ram.a \in Nat /\ (Length = 2 => ram.a + 1 \in Addr)
<1>1. /\ KfsInv /\ Paired /\ ReadData /\ kfs \in KfsType /\ ram \in RamType
  BY DEF Inv, TypeOK
<1>2. /\ kfs.base = ram.a /\ kfs.beats = Length /\ ram.a \in Addr
      /\ Length \in {1, 2} /\ (Length = 2 => ram.a + 1 \in Addr)
  BY <1>1 DEF Paired, RamType, Length
<1>3. kfs.shown \in 1 .. Length /\ Len(kfs.got) = Length /\ kfs.show = kfs.got[kfs.shown]
  BY <1>1, <1>2 DEF KfsInv
<1>4. ram.a \in Nat
  BY <1>2, ControllerAssumption
<1>5. Holds(kfs.base + kfs.shown - 1, kfs.got[kfs.shown])
  BY <1>1, <1>3 DEF ReadData
<1>6. ram.a + 1 - 1 = ram.a /\ ram.a + 2 - 1 = ram.a + 1
  BY <1>4
<1>7. kfs.shown \in {1, 2} /\ (kfs.shown = 2 => Length = 2)
  BY <1>2, <1>3
<1>8. kfs.shown = 1 => Holds(ram.a + 1 - 1, kfs.show)
  BY <1>2, <1>3, <1>5
<1>9. kfs.shown = 2 => Holds(ram.a + 2 - 1, kfs.show)
  BY <1>2, <1>3, <1>5
<1> QED
  BY <1>2, <1>4, <1>6, <1>7, <1>8, <1>9

LEMMA AnswerHolds ==
  ASSUME TypeOK, LookaheadCurrent, lookahead_hit
  PROVE  Holds(bus.a, lookahead_answer)
<1>1. CASE Hit(1)
  BY <1>1 DEF LookaheadCurrent, lookahead_answer, Hit
<1>2. CASE ~Hit(1)
  BY <1>2 DEF LookaheadCurrent, lookahead_answer, lookahead_hit, Hit
<1> QED
  BY <1>1, <1>2

LEMMA OutDataStep ==
  ASSUME NEW taken, NEW beat, NEW hold, Ticks(taken, beat, hold)
  PROVE  OutData'
<1>1. /\ Inv /\ TypeOK /\ Paired /\ KfsInv /\ OutData /\ RamStep /\ OutStep
      /\ Sound(bus) /\ LookaheadCurrent
  BY TickTypes DEF Ticks, Inv, Tick
<1>2. /\ ram.state \in {"IDLE", "WRITE_1", "WRITE_2", "READ_1", "READ_2", "COMPLETE", "WAIT"}
      /\ ram.a \in Addr /\ bus.a \in Addr
      /\ (ram.burst = "word" => ram.a + 1 \in Addr)
  BY <1>1 DEF TypeOK, RamType, Sound, CycleType, Paired
<1>3. ASSUME kfs.state # "WRITE_ISSUE", NEW a \in Addr, NEW b, Holds(a, b)
      PROVE  told'[a] \in {Unknown, b}
  BY <1>3, LandsOnlyWriting, HoldsStep
<1>4. CASE ram.state = "IDLE"
  <2>1. CASE read_command /\ lookahead_hit
    <3>1. out'.lo = lookahead_answer /\ ram'.a = bus.a /\ ram'.burst # "word"
      <4>1. out'.lo = lookahead_answer
        BY <1>4, <2>1, <1>1 DEF OutStep
      <4>2. NewBurst # "word"
        BY <2>1 DEF NewBurst, lookahead_hit, write_command, read_command
      <4> QED
        BY <1>1, <1>4, <4>1, <4>2, RamMoves DEF RamTakes
    <3>2. kfs.state # "WRITE_ISSUE"
      BY <1>1, <1>4 DEF Paired
    <3>3. Holds(bus.a, lookahead_answer)
      BY <1>1, <2>1, AnswerHolds
    <3>4. told'[bus.a] \in {Unknown, lookahead_answer}
      BY <1>2, <1>3, <3>2, <3>3
    <3> QED
      BY <3>1, <3>4 DEF OutData, Holds
  <2>2. CASE ~(read_command /\ lookahead_hit)
    BY <1>1, <1>4, <2>2, RamMoves DEF OutData
  <2> QED
    BY <2>1, <2>2
<1>5. CASE ram.state = "READ_1" /\ read_flag
  <2>1. /\ kfs.state = "READ_OUT" /\ kfs.shown = 1 /\ ~ram.second
    BY <1>1, <1>5 DEF KfsInv, Paired
  <2>2. /\ out'.lo = kfs.show /\ RamKeeps
    BY <1>1, <1>5, <2>1, RamMoves DEF OutStep
  <2>3. told'[ram.a] \in {Unknown, kfs.show}
    BY <1>1, <1>2, <1>3, <2>1, ShowHolds
  <2>4. ram.burst = "word" => read_flag'
    <3>1. ram.burst = "word" => kfs.beats = 2
      BY <1>1, <2>1, ShowHolds DEF Length
    <3>2. ram.burst = "word" => kfs'.state = "READ_OUT"
      BY <2>1, <3>1, KfsMoves
    <3> QED
      BY <3>2, KfsOKStep DEF KfsOK, KfsInv
  <2> QED
    BY <2>2, <2>3, <2>4 DEF OutData, Holds, RamKeeps
<1>6. CASE ram.state = "READ_2" /\ read_flag
  <2>1. /\ kfs.state = "READ_OUT" /\ kfs.shown = 2 /\ ram.second
    BY <1>1, <1>6 DEF KfsInv, Paired
  <2>2. /\ out'.lo = out.lo /\ RamKeeps
        /\ ram.burst = "word" => out'.hi = kfs.show
    BY <1>1, <1>6, <2>1, RamMoves DEF OutStep
  <2>3. told'[ram.a] \in {Unknown, out.lo}
    BY <1>1, <1>2, <1>3, <1>6, <2>1 DEF OutData
  <2>4. told'[ram.a + 1] \in {Unknown, kfs.show}
    BY <1>1, <1>3, <2>1, ShowHolds
  <2> QED
    BY <2>2, <2>3, <2>4 DEF OutData, Holds, RamKeeps
<1>7. CASE \/ ram.state = "READ_2" /\ ~read_flag
           \/ ram.state = "COMPLETE" /\ ~ram.write
  <2>1. ~read_flag /\ kfs.state # "WRITE_ISSUE"
    BY <1>1, <1>7 DEF KfsInv, Paired
  <2>2. out'.lo = out.lo /\ out'.hi = out.hi /\ RamKeeps
    BY <1>1, <1>7, <2>1, RamMoves DEF OutStep
  <2>3. Holds(ram.a, out.lo) /\ (ram.burst = "word" => Holds(ram.a + 1, out.hi))
    BY <1>1, <1>7, <2>1 DEF OutData
  <2>4. told'[ram.a] \in {Unknown, out.lo}
    BY <1>2, <1>3, <2>1, <2>3
  <2>5. ram.burst = "word" => told'[ram.a + 1] \in {Unknown, out.hi}
    BY <1>2, <1>3, <2>1, <2>3
  <2> QED
    BY <2>2, <2>4, <2>5 DEF OutData, Holds, RamKeeps
<1>8. CASE \/ ram.state \in {"WRITE_1", "WRITE_2", "WAIT"}
           \/ ram.state = "READ_1" /\ ~read_flag
           \/ ram.state = "COMPLETE" /\ ram.write
  BY <1>1, <1>8, RamMoves DEF OutData, RamKeeps, Paired
<1> QED
  BY <1>2, <1>4, <1>5, <1>6, <1>7, <1>8

LEMMA LookaheadStep ==
  ASSUME NEW taken, NEW beat, NEW hold, Ticks(taken, beat, hold)
  PROVE  LookaheadCurrent'
<1>1. /\ Inv /\ TypeOK /\ Paired /\ KfsInv /\ LookaheadCurrent /\ LookStep /\ LookClear
      /\ taken \in {req, NoCommand} /\ kfs \in KfsType
  BY DEF Ticks, Inv, Tick, TypeOK, Takes
<1>2. ASSUME NEW i \in 1 .. 2, look[i] # Empty, look'[i] = look[i]
      PROVE  told'[look[i].a] \in {Unknown, look[i].d}
  <2>1. look[i].a \in Addr /\ Holds(look[i].a, look[i].d)
    BY <1>1, <1>2 DEF TypeOK, LookaheadCurrent
  <2>2. ~Lands(taken, look[i].a)
    <3>1. CASE kfs.state # "WRITE_ISSUE"
      BY <3>1, LandsOnlyWriting
    <3>2. CASE kfs.state = "WRITE_ISSUE"
      <4>1. /\ look[i].a # kfs.base /\ (kfs.beats = 2 => look[i].a # kfs.base + 1)
        BY <1>1, <1>2, <3>2 DEF LookClear, write_flag
      <4>2. /\ kfs.beat \in Nat /\ kfs.beat < kfs.beats /\ kfs.beats \in {1, 2}
            /\ req.a = kfs.base + kfs.beat /\ kfs.base \in Addr
        BY <1>1, <3>2 DEF KfsInv, KfsType
      <4>3. kfs.base + 0 = kfs.base
        <5>1. kfs.base \in Nat
          BY <4>2, ControllerAssumption
        <5> QED
          BY <5>1
      <4>4. kfs.beat = 0 \/ (kfs.beat = 1 /\ kfs.beats = 2)
        <5>1. CASE kfs.beat # 0
          BY <4>2, <5>1, SecondOfTwo
        <5> QED
          BY <5>1
      <4>5. req.a # look[i].a
        BY <4>1, <4>2, <4>3, <4>4
      <4> QED
        BY <1>1, <4>5, Constants DEF Lands
    <3> QED
      BY <3>1, <3>2
  <2> QED
    BY <2>1, <2>2, HoldsStep
<1>3. ASSUME Parks PROVE told'[ram.a + 1] \in {Unknown, kfs.show}
  <2>1. kfs.state = "READ_OUT" /\ kfs.shown = 2
    BY <1>1, <1>3 DEF Parks, KfsInv, Paired
  <2>2. Holds(ram.a + 1, kfs.show) /\ ram.a + 1 \in Addr
    BY <1>1, <2>1, ShowHolds
  <2> QED
    BY <2>1, <2>2, LandsOnlyWriting, HoldsStep
<1>4. ASSUME NEW i \in 1 .. 2
      PROVE  \/ Parks /\ look'[i] = [a |-> ram.a + 1, d |-> kfs.show]
             \/ look'[i] = Empty
             \/ look'[i] = look[i]
  BY <1>1 DEF LookStep
<1>5. ASSUME NEW i \in 1 .. 2, look'[i] # Empty
      PROVE  told'[look'[i].a] \in {Unknown, look'[i].d}
  BY <1>2, <1>3, <1>4, <1>5
<1> QED
  BY <1>5 DEF LookaheadCurrent, Holds

LEMMA LookClearStep ==
  ASSUME NEW taken, NEW beat, NEW hold, Ticks(taken, beat, hold)
  PROVE  LookClear'
<1>1. /\ TypeOK /\ Paired /\ KfsInv /\ LookClear /\ LookStep /\ Sound(bus)
      /\ kfs.state \in {"INIT", "IDLE", "WRITE_BEATS", "WRITE_ISSUE", "READ_ISSUE", "READ_OUT"}
  BY TickTypes DEF Ticks, Inv, Tick, TypeOK, KfsType
<1> SUFFICES ASSUME write_flag', NEW i \in 1 .. 2, look'[i] # Empty
             PROVE  /\ look'[i].a # kfs'.base
                    /\ kfs'.beats = 2 => look'[i].a # kfs'.base + 1
  BY DEF LookClear
<1>2. CASE kfs.state = "IDLE"
  <2>1. KfsStarts("WRITE_BEATS") /\ write_request
    BY <1>2, KfsMoves DEF write_flag, KfsStarts, KfsDone
  <2>2. ram.state = "IDLE" /\ write_command
    BY <1>1, <1>2, <2>1 DEF write_request, Paired
  <2>3. kfs'.base = bus.a /\ (kfs'.beats = 2 => bus.word) /\ ~read_command
    BY <2>1, <2>2 DEF KfsStarts, access_address, access_num, NewBurst, start_prefetch,
       write_command, read_command
  <2>4. ~Parks
    BY <1>1, <1>2 DEF Parks, KfsInv
  <2>5. look'[i] = look[i] /\ look[i].a \notin Written
    BY <1>1, <2>2, <2>4 DEF LookStep
  <2> QED
    BY <2>3, <2>5 DEF Written
<1>3. CASE kfs.state \in {"WRITE_BEATS", "WRITE_ISSUE"}
  <2>1. KfsGoesOn
    BY <1>3, KfsMoves DEF write_flag, KfsGoesOn, KfsDone
  <2>2. ~Parks /\ ram.state # "IDLE"
    BY <1>1, <1>3 DEF Parks, KfsInv, Paired
  <2>3. look'[i] = look[i]
    BY <1>1, <2>2 DEF LookStep
  <2> QED
    BY <1>1, <1>3, <2>1, <2>3 DEF LookClear, write_flag, KfsGoesOn
<1>4. CASE kfs.state \in {"INIT", "READ_ISSUE", "READ_OUT"}
  BY <1>4, KfsMoves DEF write_flag, KfsDone
<1> QED
  BY <1>1, <1>2, <1>3, <1>4

LEMMA WriteDataStep ==
  ASSUME NEW taken, NEW beat, NEW hold, Ticks(taken, beat, hold)
  PROVE  WriteData'
<1>1. /\ TypeOK /\ Paired /\ KfsInv /\ Owned /\ Buffered /\ WriteData /\ RamStep
      /\ Sound(bus) /\ BusStep(Presses(hold)) /\ taken \in {req, NoCommand}
  BY TickTypes DEF Ticks, Inv, Tick, Takes, Presses
<1>2. /\ BusType /\ Clock(taken, beat, hold) /\ taken \in Commands \cup {NoCommand}
      /\ ram.a \in Addr /\ ram.a \in Nat /\ kfs \in KfsType
      /\ (ram.burst = "word" => ram.a + 1 \in Addr)
      /\ Length \in {1, 2}
  BY <1>1, TickTypes, ControllerAssumption DEF TypeOK, RamType, Paired, Length
<1>3. Paired' /\ TypeOK'
  BY PairedStep, TypeStep
<1> SUFFICES ASSUME OnBus', ram'.write,
                    \/ kfs'.state = "WRITE_ISSUE" /\ kfs'.beat = 1
                    \/ ram'.state = "COMPLETE"
                    \/ ram'.state = "WRITE_2" /\ kfs'.state = "IDLE"
             PROVE  /\ kfs'.state = "WRITE_ISSUE" /\ kfs'.beat = 1 =>
                         Reached(ram.a, ram.d)'
                    /\ \/ ram'.state = "COMPLETE"
                       \/ ram'.state = "WRITE_2" /\ kfs'.state = "IDLE"
                       => /\ Reached(ram.a, ram.d)'
                          /\ ram'.burst = "word" => Reached(ram.a + 1, ram.hi)'
  BY DEF WriteData
(* The write has been the bus's since it was latched.                      *)
<1>4. ram'.state \in {"WRITE_2", "COMPLETE"} /\ bus'.op = "write"
  BY <1>3 DEF Paired, OnBus, write_command, TypeOK, RamType
<1>5. ram.state \in {"WRITE_1", "WRITE_2", "COMPLETE"} /\ ram.write /\ RamKeeps
  <2>1. CASE ram.state = "IDLE"
    BY <1>1, <1>4, <2>1, RamMoves DEF RamTakes
  <2>2. CASE ram.state \in {"READ_1", "READ_2", "WAIT"}
    BY <1>1, <1>4, <2>2, RamMoves DEF RamKeeps, Paired
  <2> QED
    BY <1>1, <2>1, <2>2, RamMoves DEF RamKeeps, TypeOK, RamType
<1>6. ~Presses(hold) /\ BusHolds /\ OnBus
  <2>1. bus.op # "none"
    <3>1. CASE ram.state \in {"WRITE_1", "WRITE_2"}
      <4>1. OnBus \/ (bus.op = "none" /\ booting) \/ bus.op = "read"
        BY <1>1, <3>1 DEF Owned
      <4>2. ~(bus.op = "none" /\ booting)
        BY <1>1, <1>4, BusMoves DEF Fetches, Idle
      <4>3. OnBus => bus.op # "none"
        BY <1>5 DEF OnBus, write_command
      <4> QED
        BY <4>1, <4>2, <4>3
    <3>2. CASE ram.state = "COMPLETE"
      BY <1>1, <1>4, <3>2, RamMoves DEF write_command, read_command
    <3> QED
      BY <1>5, <3>1, <3>2
  <2>2. ~Presses(hold) /\ BusHolds
    BY <1>1, <1>4, <2>1, BusMoves DEF Idle
  <2>3. OnBus
    BY <1>5, <2>2, ServedKept
  <2> QED
    BY <2>2, <2>3
<1>7. /\ ram'.a = ram.a /\ ram'.d = ram.d /\ ram'.hi = ram.hi /\ ram'.burst = ram.burst
  BY <1>5 DEF RamKeeps
<1>8. ASSUME NEW a \in Addr
      PROVE  told'[a] = IF Lands(taken, a) THEN taken.d ELSE told[a]
  BY <1>2, <1>6, <1>8, ToldStep
<1>9. CASE kfs.state = "WRITE_BEATS"
  <2>1. kfs'.beat = 0 /\ kfs'.state # "IDLE" /\ ram'.state # "COMPLETE"
    BY <1>1, <1>5, <1>9, KfsMoves, RamMoves DEF Paired, write_flag
  <2> QED
    BY <2>1
<1>10. CASE kfs.state = "WRITE_ISSUE"
  <2>1. /\ ram.state = "WRITE_2" /\ kfs.base = ram.a /\ kfs.beats = Length
        /\ ram'.state = "WRITE_2"
    BY <1>1, <1>5, <1>10, RamMoves DEF Paired, write_flag
  <2>2. /\ kfs.beat \in Nat /\ kfs.beat < Length /\ Len(kfs.wbuf) = Length
        /\ req = [op |-> "write", a |-> ram.a + kfs.beat, d |-> kfs.wbuf[kfs.beat + 1]]
        /\ kfs.wbuf \in Seq(Byte)
    BY <1>1, <1>2, <1>10, <2>1 DEF KfsInv, KfsType
  <2>3. kfs.wbuf[1] = ram.d /\ (Length = 2 => kfs.wbuf[2] = ram.hi)
    BY <1>1, <1>2, <1>10, <2>2, EmptySeq DEF Buffered
  <2>4. CASE taken = NoCommand
    <3>1. kfs' = kfs
      BY <1>10, <2>2, <2>4, KfsMoves
    <3>2. kfs.beat = 1 => Reached(ram.a, ram.d)
      BY <1>1, <1>5, <1>6, <1>10 DEF WriteData
    <3>3. told'[ram.a] = told[ram.a]
      BY <1>2, <1>8, <2>4, Constants DEF Lands
    <3> QED
      BY <1>7, <1>10, <2>1, <3>1, <3>2, <3>3 DEF Reached
  <2>5. CASE taken # NoCommand /\ kfs.beat = 0
    <3>1. /\ taken.op = "write" /\ taken.a = ram.a /\ taken.d = ram.d
      BY <1>1, <1>2, <2>2, <2>3, <2>5
    <3>2. ram.a \notin ReadOnly => told'[ram.a] = ram.d
      BY <1>2, <1>8, <3>1 DEF Lands
    <3>3. kfs'.state = "IDLE" => Length = 1
      BY <1>10, <2>1, <2>5, KfsMoves
    <3>4. Length = 1 => ram.burst # "word"
      BY DEF Length
    <3> QED
      BY <1>7, <2>1, <3>2, <3>3, <3>4 DEF Reached
  <2>6. CASE taken # NoCommand /\ kfs.beat # 0
    <3>1. kfs.beat = 1 /\ Length = 2
      BY <1>2, <2>2, <2>6, SecondOfTwo
    <3>2. /\ taken.op = "write" /\ taken.a = ram.a + 1 /\ taken.d = ram.hi
      BY <1>1, <1>2, <2>2, <2>3, <2>6, <3>1
    <3>3. Reached(ram.a, ram.d)
      BY <1>1, <1>5, <1>6, <1>10, <3>1 DEF WriteData
    <3>4. told'[ram.a] = told[ram.a]
      BY <1>2, <1>8, <3>2 DEF Lands
    <3>5. ram.burst = "word" /\ ram.a + 1 \notin ReadOnly => told'[ram.a + 1] = ram.hi
      BY <1>2, <1>8, <3>2 DEF Lands
    <3> QED
      BY <1>7, <3>3, <3>4, <3>5 DEF Reached
  <2> QED
    BY <2>4, <2>5, <2>6
<1>11. CASE kfs.state \notin {"WRITE_BEATS", "WRITE_ISSUE"}
  <2>1. ram.state = "COMPLETE" \/ (ram.state = "WRITE_2" /\ kfs.state = "IDLE")
    BY <1>1, <1>5, <1>11 DEF Paired
  <2>2. kfs'.state \notin {"WRITE_ISSUE", "WRITE_BEATS"}
    BY <1>1, <2>1, KfsMoves DEF Paired, KfsDone, write_request, read_request
  <2>3. /\ Reached(ram.a, ram.d) /\ (ram.burst = "word" => Reached(ram.a + 1, ram.hi))
    BY <1>1, <1>5, <1>6, <2>1 DEF WriteData
  <2>4. \A a \in Addr : told'[a] = told[a]
    BY <1>8, <1>11, LandsOnlyWriting
  <2> QED
    BY <1>2, <1>7, <2>2, <2>3, <2>4 DEF Reached
<1> QED
  BY <1>9, <1>10, <1>11

-----------------------------------------------------------------------------
(* The invariant.                                                          *)

LEMMA InvStep ==
  ASSUME Inv, [Next]_vars PROVE Inv'
<1>1. CASE Next
  <2>1. PICK taken \in Takes, beat \in Beating, hold \in BOOLEAN : Tick(taken, beat, hold)
    BY <1>1 DEF Next
  <2>2. Ticks(taken, beat, hold)
    BY <2>1 DEF Ticks
  <2> QED
    BY <2>2, TypeStep, KfsOKStep, PairedStep, BufferedStep, OwnedStep, ErasedStep,
       ReadDataStep, OutDataStep, LookaheadStep, LookClearStep, WriteDataStep
       DEF Inv, KfsOK
<1>2. CASE UNCHANGED vars
  BY <1>2 DEF vars, Inv, TypeOK, BusType, KfsInv, Paired, Length, Buffered, Owned, OnBus,
     GivenUp, Erased, ReadData, OutData, LookaheadCurrent, LookClear, WriteData, Holds,
     Reached, read_flag, write_flag, idle, write_command, read_command, served_match
<1> QED
  BY <1>1, <1>2

LEMMA InvInit == Init => Inv
<1> SUFFICES ASSUME Init PROVE Inv
  OBVIOUS
<1>1. TypeOK
  BY Constants, EmptySeq, ControllerAssumption, BusAssumption
     DEF Init, BusInit, TypeOK, BusType, Forget, Beats, RamType, KfsType, Bytes, Rest
<1>2. KfsInv /\ Paired /\ Buffered
  BY Constants DEF Init, BusInit, KfsInv, Paired, Buffered, Rest, read_flag, Idle
<1>3. Owned /\ Erased
  BY DEF Init, BusInit, Owned, Erased, Forget, Idle
<1>4. ReadData /\ OutData /\ LookaheadCurrent /\ LookClear /\ WriteData
  BY DEF Init, BusInit, ReadData, OutData, LookaheadCurrent, LookClear, WriteData, Rest,
     write_flag
<1> QED
  BY <1>1, <1>2, <1>3, <1>4 DEF Inv

LEMMA Invariant == Spec => []Inv
BY InvInit, InvStep, PTL DEF Spec

-----------------------------------------------------------------------------
(* The theorems.                                                           *)

(* The registers of both machines, the bus and the memory have their types: *)
(* KFSDRAM never indexes a byte it does not have, and never asks for one    *)
(* that is not there.                                                       *)
THEOREM TypeCorrect == Spec => []TypeOK
BY Invariant, PTL DEF Inv

(* As many answers are outstanding on the byte bus as KFSDRAM waits for, in *)
(* every state and across every reset: the answer it takes next is that of  *)
(* its own oldest read.                                                     *)
THEOREM AnswersAreExact == Spec => []AnswersExact
<1>1. Inv => AnswersExact
  <2>1. ASSUME KfsInv, kfs.state # "READ_ISSUE" PROVE Len(owed) = 0
    <3>1. owed = <<>>
      BY <2>1 DEF KfsInv
    <3> QED
      BY <3>1
  <2> QED
    BY <2>1 DEF Inv, KfsInv, AnswersExact
<1> QED
  BY <1>1, Invariant, PTL

(* A byte read ahead is never stale: a write takes it out, whichever of the *)
(* two places it is in and whenever it was put there, and a reset leaves it *)
(* only where nobody may rely on the memory.                                *)
THEOREM LookaheadIsCurrent == Spec => []LookaheadCurrent
BY Invariant, PTL DEF Inv

(* A cycle of the CPU that ends without a reset has seen READY for an       *)
(* access that is complete and its own.                                     *)
LEMMA EndsServed ==
  ASSUME Inv, Next, NEW op \in {"read", "write"}, Ends(op)
  PROVE  ram.state = "COMPLETE" /\ served_match /\ bus.op = op
<1>1. PICK taken \in Takes, beat \in Beating, hold \in BOOLEAN : Tick(taken, beat, hold)
  BY DEF Next
<1>2. BusStep(Presses(hold)) /\ held' = hold /\ Owned /\ TypeOK
  BY <1>1 DEF Tick, Clock, Presses, Inv
<1>3. ~Presses(hold) /\ bus.op = op /\ bus'.op = "none"
  BY <1>2 DEF Ends, Dropped, Presses
<1>4. READY
  BY <1>2, <1>3, BusMoves DEF BusHolds
<1> QED
  BY <1>2, <1>3, <1>4, ReadyComplete

(* What the CPU reads is what the memory holds: the bytes read for another  *)
(* address, for an access that was given up, or before a write that is      *)
(* over, never end its cycle.  Wherever the refresh DMA reads, only the     *)
(* high byte of a word can be another one, and only when the access that    *)
(* ends the word's cycle is no word's and its address one of the refresh.   *)
THEOREM ReadsAreRight == Spec => ReadsRight
<1>1. ASSUME Inv, [Next]_vars
      PROVE  [Ends("read") =>
                /\ Holds(bus.a, data_bus_out)
                /\ bus.word => Holds(bus.a + 1, out.hi) \/ RefreshAnswers]_vars
  <2> SUFFICES ASSUME Next, Ends("read")
               PROVE  /\ Holds(bus.a, data_bus_out)
                      /\ bus.word => Holds(bus.a + 1, out.hi) \/ RefreshAnswers
    BY <1>1
  <2>1. ram.state = "COMPLETE" /\ served_match /\ bus.op = "read"
    BY <1>1, EndsServed
  <2>2. bus.a = ram.a /\ ~ram.write
    BY <2>1 DEF served_match, write_command
  <2>3. Paired /\ KfsInv /\ Owned /\ OutData
    BY <1>1 DEF Inv
  <2>4. ~read_flag
    BY <2>1, <2>3 DEF Paired, KfsInv
  <2>5. bus.word => ram.burst = "word" \/ RefreshAnswers
    BY <2>1, <2>2, <2>3 DEF Owned, GivenUp, OnBus, RefreshAnswers
  <2> QED
    BY <2>1, <2>2, <2>3, <2>4, <2>5 DEF OutData, data_bus_out
<1> QED
  BY <1>1, Invariant, PTL DEF Spec, ReadsRight

(* A write cycle that ends has its byte, or both bytes of its word, in the  *)
(* memory: READY was never the one of the access before it.                 *)
THEOREM WritesAreTaken == Spec => WritesTaken
<1>1. ASSUME Inv, [Next]_vars
      PROVE  [Ends("write") => /\ Reached(bus.a, bus.d)
                               /\ bus.word => Reached(bus.a + 1, bus.hi)]_vars
  <2> SUFFICES ASSUME Next, Ends("write")
               PROVE  Reached(bus.a, bus.d) /\ (bus.word => Reached(bus.a + 1, bus.hi))
    BY <1>1
  <2>1. ram.state = "COMPLETE" /\ served_match /\ bus.op = "write"
    BY <1>1, EndsServed
  <2>2. ram.write
    BY <2>1 DEF served_match, read_command
  <2>3. OnBus /\ WriteData
    BY <1>1, <2>1, <2>2 DEF Inv, Owned
  <2> QED
    BY <2>1, <2>2, <2>3 DEF WriteData, OnBus
<1> QED
  BY <1>1, Invariant, PTL DEF Spec, WritesTaken
=============================================================================
