--------------------------- MODULE MemBackendCache ---------------------------
(***************************************************************************)
(* The HyperRAM's side of the backend, for every line size, memory map and *)
(* order of the two clocks: the cache's registers, its line and the words  *)
(* on their way agree with the HyperRAM, and what a clock does is one of   *)
(* a few things, whether there is a cache or not.                          *)
(***************************************************************************)
EXTENDS MemBackend, SequenceTheorems, TLAPS

Ram == Addr \ Block
RamCommands ==
  {Command(op, a, d) : op \in {"read", "write"}, a \in Ram, d \in Byte}

(* The registers of the cache.                                             *)
Line == 0 .. LineSize - 1
CacheRegs ==
  [state : {"IDLE", "READING"}, line : [Line -> Words \cup {None}],
   addr : Nat, count : 0 .. LineSize, burst : 0 .. 1, m : Slots,
   answer : Words \cup {None}]
Regs(state, line, addr, count, burst_, m, answer) ==
  [state |-> state, line |-> line, addr |-> addr, count |-> count,
   burst |-> burst_, m |-> m, answer |-> answer]

HyperType ==
  /\ config \in [cache : BOOLEAN, bist : BOOLEAN]
  /\ resets \in [cold : BOOLEAN, hr : BOOLEAN, meta : BOOLEAN, sync : BOOLEAN,
                 seen : BOOLEAN]
  /\ wr \in Seq(RamCommands) /\ rd \in Seq(Words) /\ burst \in Seq(Words)
  /\ hyper \in [Ram -> Byte] /\ c_pending \in BOOLEAN /\ cache \in CacheRegs

(* A line that fills: its command has gone out, and then the words of the  *)
(* rest of the line come one by one, as the HyperRAM holds them.  No write *)
(* is under way meanwhile.                                                 *)
Fills ==
  /\ cache.count < LineSize /\ cache.m.op # "write"
  /\ cache.m.op = "read" =>
       /\ burst = <<>> /\ cache.m.w = cache.addr + cache.count
       /\ cache.m.len = LineSize - cache.count
  /\ cache.m.op = "none" =>
       /\ Len(burst) = LineSize - cache.count
       /\ \A j \in 1 .. Len(burst) :
            burst[j] = Contents(cache.addr + cache.count + j - 1)

CacheState ==
  /\ \A i \in 0 .. cache.count - 1 : cache.line[i] \in Words
  /\ cache.burst = 1 => cache.state = "READING" /\ cache.count = 0
  /\ cache.m.op = "write" => cache.m \in RamCommands
  /\ cache.state = "IDLE" => cache.count \in {0, LineSize}
  /\ cached /\ cache.state = "IDLE" => burst = <<>> /\ cache.m.op # "read"
  /\ cached /\ cache.state = "READING" => Fills

(* The read the cache has taken: its word is there, or will be the first   *)
(* of the line.                                                            *)
Awaited == cache.burst = 1 <=> c_pending /\ cache.answer = None

CacheInv ==
  CacheState /\ Awaited /\ (~cached => cache = Empty /\ ~c_pending)

HyperInv == HyperType /\ CacheInv /\ LineCurrent

(* The words that reads taken from the command FIFO will put into the      *)
(* FIFO of the answers.                                                    *)
SentWord ==
  IF cache.answer # None THEN cache.answer
  ELSE IF burst # <<>> THEN burst[1] ELSE Contents(cache.addr)
Sent == IF ~cached THEN burst ELSE IF c_pending THEN <<SentWord>> ELSE <<>>

-----------------------------------------------------------------------------
(* Constants, sequences and commands.                                      *)

LEMMA LineFacts ==
  /\ LineSize \in Nat /\ LineSize >= 2
  /\ Half \in Nat /\ Half >= 1 /\ Half + Half = LineSize
  /\ 0 \in Line /\ \A i \in Line : i \in Nat /\ i < LineSize
BY LineAssumption DEF Half, Line

LEMMA NoWordIs ==
  /\ NoWord \in Slots /\ ~Offered(NoWord) /\ NoWord.op = "none"
  /\ NoWord \notin RamCommands
<1>1. NoWord \in Slots /\ ~Offered(NoWord) /\ NoWord.op = "none"
  BY LineFacts DEF NoWord, Slots, Offered, Lanes
<1>2. ASSUME NEW op \in {"read", "write"}, NEW a, NEW d, NoWord = Command(op, a, d)
      PROVE  FALSE
  BY <1>1, <1>2 DEF Command
<1> QED
  BY <1>1, <1>2 DEF RamCommands

LEMMA NoneIs == None \notin Words /\ None \notin Byte
BY LineAssumption DEF Words, Lanes

LEMMA Halves ==
  ASSUME NEW a \in Nat
  PROVE  /\ Word(a) \in Nat /\ Lane(a) \in Lanes
         /\ 2 * Word(a) + Lane(a) = a
BY DEF Word, Lane, Lanes

(* A byte has one word and one lane.                                       *)
LEMMA OneHalf ==
  ASSUME NEW w \in Nat, NEW lane \in Lanes
  PROVE  /\ 2 * w + lane \in Nat
         /\ Word(2 * w + lane) = w /\ Lane(2 * w + lane) = lane
BY DEF Word, Lane, Lanes

LEMMA CommandIs ==
  ASSUME NEW cmd \in RamCommands
  PROVE  /\ cmd.op \in {"read", "write"} /\ Offered(cmd) /\ cmd # NoWord
         /\ cmd.w \in Nat /\ cmd.lane \in Lanes /\ cmd.d \in Byte /\ cmd.len = 1
         /\ 2 * cmd.w + cmd.lane \in Ram /\ cmd \in Slots
<1>1. PICK op \in {"read", "write"}, a \in Ram, d \in Byte : cmd = Command(op, a, d)
  BY DEF RamCommands
<1>2. a \in Nat
  BY BackendAssumption DEF Ram
<1>3. /\ cmd.op = op /\ cmd.w = Word(a) /\ cmd.lane = Lane(a) /\ cmd.d = d
      /\ cmd.len = 1
  BY <1>1 DEF Command
<1>4. 1 \in 0 .. LineSize
  BY LineFacts
<1>5. cmd \in Slots
  BY <1>1, <1>2, <1>4, Halves DEF Command, Slots
<1> QED
  BY <1>2, <1>3, <1>5, Halves, NoWordIs DEF Offered

LEMMA IsSeq ==
  ASSUME NEW S, NEW n \in Nat, NEW f \in [1 .. n -> S]
  PROVE  f \in Seq(S) /\ Len(f) = n
<1>1. f \in Seq(S)
  BY SeqDef
<1>2. DOMAIN f = 1 .. Len(f) /\ Len(f) \in Nat
  BY <1>1, LenProperties
<1> QED
  BY <1>1, <1>2

LEMMA ContentsIs ==
  ASSUME hyper \in [Ram -> Byte], NEW w \in Nat
  PROVE  /\ Contents(w) \in Words
         /\ \A lane \in Lanes : 2 * w + lane \in Ram =>
              Contents(w)[lane] = hyper[2 * w + lane]
BY BackendAssumption DEF Contents, Words

LEMMA Registers ==
  ASSUME cache \in CacheRegs
  PROVE  cache = Regs(cache.state, cache.line, cache.addr, cache.count,
                      cache.burst, cache.m, cache.answer)
BY DEF CacheRegs, Regs

LEMMA EmptyIs ==
  /\ Empty \in CacheRegs
  /\ Empty.state = "IDLE" /\ Empty.count = 0 /\ Empty.burst = 0
  /\ Empty.m = NoWord /\ Empty.answer = None
BY LineFacts, NoWordIs DEF Empty, CacheRegs, Line

-----------------------------------------------------------------------------
(* What a clock of the cache does, register by register.                   *)

Kept(wt) == IF wt THEN cache.m ELSE NoWord
Extended(beat) == [cache.line EXCEPT ![cache.count] = beat]
Shifted == [i \in Line |-> IF i < Half THEN cache.line[i + Half] ELSE cache.line[i]]
Served(see, beat) ==
  IF cache_offset(see) = cache.count THEN beat ELSE cache.line[cache_offset(see)]

Unaccepted(see, beat, wt) ==
  /\ ~Accepts(see, beat, wt)
  /\ cache' = Regs("IDLE", cache.line, cache.addr, cache.count, cache.burst,
                   Kept(wt), None)
TakesWrite(see, beat, wt) ==
  /\ Accepts(see, beat, wt) /\ see.op = "write"
  /\ cache' = Regs("IDLE", Updated(see), cache.addr, cache.count, cache.burst,
                   see, None)
Hits(see, beat, wt) ==
  /\ Accepts(see, beat, wt) /\ see.op = "read" /\ cache_rd_hit(see, beat)
  /\ cache' = Regs("IDLE", cache.line, cache.addr, cache.count, cache.burst,
                   Kept(wt), cache.line[cache_offset(see)])
HitsHalf(see, beat, wt) ==
  /\ Accepts(see, beat, wt) /\ see.op = "read" /\ cache_rd_hit(see, beat)
  /\ HalfRead(see)
  /\ cache' = Regs("READING", Shifted, cache.addr + Half, Half, 0,
                   Reading(cache.addr + LineSize, Half),
                   cache.line[cache_offset(see)])
Misses(see, beat, wt) ==
  /\ Accepts(see, beat, wt) /\ see.op = "read" /\ ~cache_rd_hit(see, beat)
  /\ cache' = Regs("READING", cache.line, see.w, 0, 1,
                   Reading(see.w, LineSize), None)

HitNow(see, beat, wt) == Accepts(see, beat, wt) /\ cache_rd_hit(see, beat)
Waits(see, beat, wt) ==
  /\ beat = None
  /\ cache' = Regs("READING", cache.line, cache.addr, cache.count, cache.burst,
                   Kept(wt), IF HitNow(see, beat, wt) THEN Served(see, beat)
                             ELSE None)
FirstOr(see, beat, wt) ==
  IF HitNow(see, beat, wt) THEN Served(see, beat)
  ELSE IF cache.burst # 0 THEN beat ELSE None
TakesBeat(see, beat, wt) ==
  /\ beat # None /\ ~Filled(beat)
  /\ cache' = Regs("READING", Extended(beat), cache.addr, cache.count + 1, 0,
                   Kept(wt), FirstOr(see, beat, wt))
RefillsAgain(see, beat, wt) ==
  /\ Filled(beat) /\ Accepts(see, beat, wt) /\ ~cache_rd_hit(see, beat)
  /\ cache' = Regs("READING", Extended(beat), see.w, 0, 1,
                   Reading(see.w, LineSize), FirstOr(see, beat, wt))
Fulfils(see, beat, wt) ==
  /\ Filled(beat) /\ ~(Accepts(see, beat, wt) /\ ~cache_rd_hit(see, beat))
  /\ cache' = Regs("IDLE", Extended(beat), cache.addr, cache.count + 1, 0,
                   Kept(wt), FirstOr(see, beat, wt))

(* Records with the same fields are the same.                              *)
Only(state, line, addr, count, burst_, m, answer) ==
  [state : {state}, line : {line}, addr : {addr}, count : {count},
   burst : {burst_}, m : {m}, answer : {answer}]

LEMMA OnlyRegs ==
  ASSUME NEW state, NEW line, NEW addr, NEW count, NEW burst_, NEW m, NEW answer,
         NEW c \in Only(state, line, addr, count, burst_, m, answer)
  PROVE  c = Regs(state, line, addr, count, burst_, m, answer)
BY DEF Only, Regs

LEMMA IdledIs ==
  ASSUME cache \in CacheRegs, NEW wt \in BOOLEAN
  PROVE  Idled(wt) = Regs(cache.state, cache.line, cache.addr, cache.count,
                          cache.burst, Kept(wt), None)
<1>1. Idled(wt) \in Only(cache.state, cache.line, cache.addr, cache.count,
                         cache.burst, Kept(wt), None)
  BY DEF Idled, Kept, CacheRegs, Only
<1> QED
  BY <1>1, OnlyRegs

LEMMA ReadingIs ==
  ASSUME NEW w, NEW len
  PROVE  /\ Reading(w, len).op = "read" /\ Reading(w, len).w = w
         /\ Reading(w, len).len = len /\ Reading(w, len).d = None
         /\ w \in Nat /\ len \in 0 .. LineSize => Reading(w, len) \in Slots
<1>1. NoWord \in [op : {"none"}, w : {0}, lane : {0}, d : {None}, len : {0}]
  BY DEF NoWord
<1>2. Reading(w, len) \in
        [op : {"read"}, w : {w}, lane : {0}, d : {None}, len : {len}]
  BY <1>1 DEF Reading
<1> QED
  BY <1>2 DEF Slots, Lanes

LEMMA CacheIdles ==
  ASSUME cache \in CacheRegs, NEW see, NEW beat, NEW wt \in BOOLEAN,
         CacheIdle(see, beat, wt)
  PROVE  /\ cache.state = "IDLE"
         /\ \/ Unaccepted(see, beat, wt) \/ TakesWrite(see, beat, wt)
            \/ Hits(see, beat, wt) \/ HitsHalf(see, beat, wt)
            \/ Misses(see, beat, wt)
<1> DEFINE c == Idled(wt)
           hit == [c EXCEPT !.answer = cache.line[cache_offset(see)]]
<1>1. c = Regs("IDLE", cache.line, cache.addr, cache.count, cache.burst,
               Kept(wt), None)
  BY IdledIs DEF CacheIdle
<1>2. hit = Regs("IDLE", cache.line, cache.addr, cache.count, cache.burst,
                 Kept(wt), cache.line[cache_offset(see)])
  BY <1>1 DEF Regs
<1>3. [c EXCEPT !.m = see, !.line = Updated(see)] =
        Regs("IDLE", Updated(see), cache.addr, cache.count, cache.burst, see, None)
  <2>1. [c EXCEPT !.m = see, !.line = Updated(see)] \in
          Only("IDLE", Updated(see), cache.addr, cache.count, cache.burst, see, None)
    <3> HIDE DEF c
    <3> QED
      BY <1>1 DEF Regs, Only
  <2> QED
    BY <2>1, OnlyRegs
<1>4. Fetch(see, c) = Regs("READING", cache.line, see.w, 0, 1,
                           Reading(see.w, LineSize), None)
  <2>1. Fetch(see, c) \in Only("READING", cache.line, see.w, 0, 1,
                               Reading(see.w, LineSize), None)
    <3> HIDE DEF c
    <3> QED
      BY <1>1 DEF Fetch, Regs, Only
  <2> QED
    BY <2>1, OnlyRegs
<1>5. DOMAIN cache.line = Line
  BY DEF CacheRegs
<1>6. Prefetch(hit) =
        Regs("READING", Shifted, cache.addr + Half, Half, 0,
             Reading(cache.addr + LineSize, Half), cache.line[cache_offset(see)])
  <2>1. [i \in DOMAIN cache.line |->
           IF i < Half THEN cache.line[i + Half] ELSE hit.line[i]] = Shifted
    BY <1>2, <1>5 DEF Shifted, Regs
  <2>2. Prefetch(hit) \in
          Only("READING", Shifted, cache.addr + Half, Half, 0,
               Reading(cache.addr + LineSize, Half), cache.line[cache_offset(see)])
    <3> HIDE DEF hit
    <3> QED
      BY <1>2, <2>1 DEF Prefetch, Regs, Only
  <2> QED
    BY <2>2, OnlyRegs
<1>7. \/ ~Accepts(see, beat, wt) /\ cache' = c
      \/ /\ Accepts(see, beat, wt) /\ see.op = "write"
         /\ cache' = [c EXCEPT !.m = see, !.line = Updated(see)]
      \/ /\ Accepts(see, beat, wt) /\ see.op = "read"
         /\ \/ /\ cache_rd_hit(see, beat)
               /\ cache' = IF HalfRead(see) THEN Prefetch(hit) ELSE hit
            \/ ~cache_rd_hit(see, beat) /\ cache' = Fetch(see, c)
  BY DEF CacheIdle
<1> HIDE DEF c, hit
<1> QED
  BY <1>1, <1>2, <1>3, <1>4, <1>6, <1>7
     DEF Unaccepted, TakesWrite, Hits, HitsHalf, Misses, CacheIdle

LEMMA CacheReads ==
  ASSUME cache \in CacheRegs, NEW see, NEW beat, NEW wt \in BOOLEAN,
         CacheReading(see, beat, wt)
  PROVE  /\ cache.state = "READING"
         /\ \/ Waits(see, beat, wt) \/ TakesBeat(see, beat, wt)
            \/ RefillsAgain(see, beat, wt) \/ Fulfils(see, beat, wt)
<1> DEFINE c == Idled(wt)
           hit == Accepts(see, beat, wt) /\ cache_rd_hit(see, beat)
           served == IF cache_offset(see) = cache.count THEN beat
                     ELSE cache.line[cache_offset(see)]
           first == cache.burst # 0
           filled == [c EXCEPT !.line[cache.count] = beat, !.count = @ + 1,
                               !.burst = 0,
                               !.answer = IF hit THEN served
                                          ELSE IF first THEN beat ELSE None]
<1>1. c = Regs("READING", cache.line, cache.addr, cache.count, cache.burst,
               Kept(wt), None)
  BY IdledIs DEF CacheReading
<1>2. filled = Regs("READING", Extended(beat), cache.addr, cache.count + 1, 0,
                    Kept(wt), FirstOr(see, beat, wt))
  <2>1. filled \in Only("READING", Extended(beat), cache.addr, cache.count + 1, 0,
                        Kept(wt), IF hit THEN served
                                  ELSE IF first THEN beat ELSE None)
    <3> HIDE DEF hit, served, first, c
    <3> QED
      BY <1>1 DEF Regs, Extended, Only
  <2> QED
    BY <2>1, OnlyRegs DEF FirstOr, HitNow, Served
<1>3. [c EXCEPT !.answer = IF hit THEN served ELSE None] =
        Regs("READING", cache.line, cache.addr, cache.count, cache.burst,
             Kept(wt), IF HitNow(see, beat, wt) THEN Served(see, beat) ELSE None)
  <2>1. [c EXCEPT !.answer = IF hit THEN served ELSE None] =
          Regs("READING", cache.line, cache.addr, cache.count, cache.burst,
               Kept(wt), IF hit THEN served ELSE None)
    <3> HIDE DEF hit, served, first
    <3> QED
      BY <1>1 DEF Regs
  <2> QED
    BY <2>1 DEF HitNow, Served
<1>4. cache.state = "READING"
  BY DEF CacheReading
<1>5. \/ beat = None /\ cache' = [c EXCEPT !.answer = IF hit THEN served ELSE None]
      \/ beat # None /\ ~Filled(beat) /\ cache' = filled
      \/ /\ Filled(beat)
         /\ cache' = IF Accepts(see, beat, wt) /\ ~hit
                     THEN Fetch(see, filled)
                     ELSE [filled EXCEPT !.state = "IDLE"]
  BY DEF CacheReading
<1>6. Accepts(see, beat, wt) /\ ~hit <=>
        Accepts(see, beat, wt) /\ ~cache_rd_hit(see, beat)
  OBVIOUS
<1> HIDE DEF filled, c
<1>7. Fetch(see, filled) =
        Regs("READING", Extended(beat), see.w, 0, 1, Reading(see.w, LineSize),
             FirstOr(see, beat, wt))
  <2>1. Fetch(see, filled) \in
          Only("READING", Extended(beat), see.w, 0, 1, Reading(see.w, LineSize),
               FirstOr(see, beat, wt))
    BY <1>2 DEF Fetch, Regs, Only
  <2> QED
    BY <2>1, OnlyRegs
<1>8. [filled EXCEPT !.state = "IDLE"] =
        Regs("IDLE", Extended(beat), cache.addr, cache.count + 1, 0,
             Kept(wt), FirstOr(see, beat, wt))
  BY <1>2 DEF Regs
<1> HIDE DEF hit
<1> QED
  BY <1>2, <1>3, <1>4, <1>5, <1>6, <1>7, <1>8
     DEF Waits, TakesBeat, RefillsAgain, Fulfils

-----------------------------------------------------------------------------
(* A clock of the HyperRAM outside its reset, with the cache.              *)

Sending(beat) == IF beat = None THEN burst ELSE Tail(burst)
Asked(c) == [i \in 1 .. c.len |-> Contents(c.w + i - 1)]
Beaten(beat) ==
  /\ beat \in Words \cup {None}
  /\ beat # None => burst # <<>> /\ beat = Head(burst)

Serves(see, beat, wt) ==
  /\ HyperInv /\ cached /\ ~resets.hr
  /\ see \in RamCommands \cup {NoWord} /\ wt \in BOOLEAN /\ Beaten(beat)
  /\ CacheStep(see, beat, wt) /\ Execute(cache.m, beat, wt)
  /\ config' = config

LEMMA Executes ==
  ASSUME NEW c, NEW beat, NEW wt \in BOOLEAN, Execute(c, beat, wt), ~resets.hr
  PROVE  /\ c.op = "read" /\ ~wt =>
              /\ hyper' = hyper
              /\ burst' = Sending(beat) \o Asked(c)
         /\ c.op = "write" /\ ~wt =>
              /\ hyper' = [hyper EXCEPT ![2 * c.w + c.lane] = c.d]
              /\ burst' = Sending(beat)
         /\ c.op \notin {"read", "write"} \/ wt =>
              hyper' = hyper /\ burst' = Sending(beat)
         /\ c.op = "none" => hyper' = hyper /\ burst' = Sending(beat)
BY DEF Execute, Offered, Sending, Asked

LEMMA SendingIs ==
  ASSUME NEW beat, Beaten(beat), burst \in Seq(Words)
  PROVE  /\ Sending(beat) \in Seq(Words)
         /\ Len(Sending(beat)) = Len(burst) - (IF beat = None THEN 0 ELSE 1)
         /\ Len(burst) \in Nat /\ (beat # None => Len(burst) > 0)
         /\ burst = <<>> => beat = None /\ Sending(beat) = <<>>
         /\ \A j \in 1 .. Len(Sending(beat)) :
              Sending(beat)[j] = burst[IF beat = None THEN j ELSE j + 1]
<1>1. CASE beat = None
  BY <1>1, LenProperties DEF Sending
<1>2. CASE beat # None
  <2>1. burst # <<>>
    BY <1>2 DEF Beaten
  <2>2. /\ Tail(burst) \in Seq(Words) /\ Len(Tail(burst)) = Len(burst) - 1
        /\ \A j \in 1 .. Len(Tail(burst)) : Tail(burst)[j] = burst[j + 1]
    BY <2>1, HeadTailProperties
  <2>3. Len(burst) \in Nat /\ Len(burst) > 0
    BY <2>1, EmptySeq, LenProperties
  <2> QED
    BY <1>2, <2>1, <2>2, <2>3 DEF Sending
<1> QED
  BY <1>1, <1>2

LEMMA WrittenIs ==
  ASSUME NEW a \in Ram
  PROVE  /\ cache.m.op # "write" => Written(a) = hyper[a]
         /\ cache.m.op = "write" /\ 2 * cache.m.w + cache.m.lane # a =>
              Written(a) = hyper[a]
         /\ cache.m.op = "write" /\ 2 * cache.m.w + cache.m.lane = a =>
              Written(a) = cache.m.d
BY DEF Written

(* In an idle cache: a write that it has taken goes to the HyperRAM.       *)
LEMMA IdleExecutes ==
  ASSUME NEW see, NEW beat, NEW wt, Serves(see, beat, wt), cache.state = "IDLE"
  PROVE  /\ beat = None /\ burst' = <<>> /\ hyper' \in [Ram -> Byte]
         /\ cache.m.op \in {"none", "write"}
         /\ \A a \in Ram : ~wt \/ cache.m.op = "none" => hyper'[a] = Written(a)
         /\ \A a \in Ram : wt \/ cache.m.op = "none" => hyper'[a] = hyper[a]
         /\ Accepts(see, beat, wt) => ~wt \/ cache.m.op = "none"
<1>1. burst = <<>> /\ cache.m.op # "read" /\ hyper \in [Ram -> Byte]
  BY DEF Serves, HyperInv, CacheInv, CacheState, HyperType
<1>2. wt \in BOOLEAN /\ Beaten(beat) /\ Execute(cache.m, beat, wt) /\ ~resets.hr
  BY DEF Serves
<1>3. beat = None /\ Sending(beat) = <<>>
  BY <1>1, <1>2 DEF Beaten, Sending
<1>4. cache.m.op \in {"none", "write"}
  BY <1>1 DEF Serves, HyperInv, HyperType, CacheRegs, Slots
<1>5. burst' = <<>>
  BY <1>2, <1>3, <1>4, Executes
<1>6. cache.m.op = "write" =>
        2 * cache.m.w + cache.m.lane \in Ram /\ cache.m.d \in Byte
  BY CommandIs DEF Serves, HyperInv, CacheInv, CacheState
<1>7. hyper' = IF cache.m.op = "write" /\ ~wt
               THEN [hyper EXCEPT ![2 * cache.m.w + cache.m.lane] = cache.m.d]
               ELSE hyper
  BY <1>2, <1>4, Executes
<1>8. hyper' \in [Ram -> Byte]
  BY <1>1, <1>6, <1>7
<1>9. ASSUME NEW a \in Ram, ~wt \/ cache.m.op = "none"
      PROVE  hyper'[a] = Written(a)
  BY <1>1, <1>4, <1>7, <1>9, WrittenIs
<1>10. Accepts(see, beat, wt) => ~wt \/ cache.m.op = "none"
  BY <1>4 DEF Accepts, s_waitrequest, Offered, Filled
<1> QED
  BY <1>3, <1>4, <1>5, <1>7, <1>8, <1>9, <1>10

(* In a cache that fills: nothing is written.                              *)
LEMMA FillExecutes ==
  ASSUME NEW see, NEW beat, NEW wt, Serves(see, beat, wt), cache.state = "READING"
  PROVE  /\ hyper' = hyper /\ burst' \in Seq(Words)
         /\ \A a \in Ram : Written(a) = hyper[a]
         /\ Accepts(see, beat, wt) => see.op = "read"
         /\ cache.m.op \in {"none", "read"}
         /\ cache.m.op = "read" => beat = None
         /\ cache.m.op = "read" /\ wt => burst' = <<>>
         /\ cache.m.op = "read" /\ ~wt =>
              /\ Len(burst') = LineSize - cache.count
              /\ \A j \in 1 .. Len(burst') :
                   burst'[j] = Contents(cache.addr + cache.count + j - 1)
         /\ cache.m.op = "none" /\ beat = None => burst' = burst
         /\ cache.m.op = "none" /\ beat # None =>
              /\ beat = Contents(cache.addr + cache.count)
              /\ Len(burst') = LineSize - cache.count - 1
              /\ \A j \in 1 .. Len(burst') :
                   burst'[j] = Contents(cache.addr + cache.count + j)
<1>1. /\ Fills /\ burst \in Seq(Words) /\ hyper \in [Ram -> Byte]
      /\ cache.addr \in Nat /\ cache.count \in 0 .. LineSize
      /\ cache.m \in Slots
  BY DEF Serves, HyperInv, CacheInv, CacheState, HyperType, CacheRegs
<1>2. wt \in BOOLEAN /\ Beaten(beat) /\ Execute(cache.m, beat, wt) /\ ~resets.hr
  BY DEF Serves
<1>3. cache.m.op \in {"none", "read"}
  BY <1>1 DEF Fills, Slots
<1>4. hyper' = hyper
  BY <1>2, <1>3, Executes
<1>5. \A a \in Ram : Written(a) = hyper[a]
  BY <1>3, WrittenIs
<1>6. Accepts(see, beat, wt) => see.op = "read"
  <2>1. see.op \in {"none", "read", "write"}
    BY CommandIs, NoWordIs DEF Serves
  <2> QED
    BY <2>1 DEF Accepts, s_waitrequest, Offered, cache_rd_hit
<1>7. CASE cache.m.op = "read"
  <2>1. burst = <<>> /\ beat = None /\ Sending(beat) = <<>>
    BY <1>1, <1>2, <1>7, SendingIs DEF Fills
  <2>2. cache.m.w = cache.addr + cache.count /\ cache.m.len = LineSize - cache.count
    BY <1>1, <1>7 DEF Fills
  <2>3. CASE wt
    <3>1. burst' = <<>>
      BY <1>2, <1>7, <2>1, <2>3, Executes
    <3> QED
      BY <1>1, <1>3, <1>4, <1>5, <1>6, <1>7, <2>1, <2>3, <3>1
  <2>4. CASE ~wt
    <3> DEFINE n == LineSize - cache.count
               words == Asked(cache.m)
    <3>1. n \in Nat
      BY <1>1, LineFacts
    <3>2. cache.m.w \in Nat
      BY <1>1, <2>2
    <3>3. words \in [1 .. n -> Words]
      <4>1. ASSUME NEW i \in 1 .. n PROVE Contents(cache.m.w + i - 1) \in Words
        <5>1. cache.m.w + i - 1 \in Nat
          BY <3>1, <3>2
        <5> QED
          BY <1>1, <5>1, ContentsIs
      <4> QED
        BY <2>2, <4>1 DEF Asked
    <3>4. words \in Seq(Words) /\ Len(words) = n
      BY <3>1, <3>3, IsSeq
    <3>5. burst' = words
      <4>1. burst' = <<>> \o words
        BY <1>2, <1>7, <2>1, <2>4, Executes
      <4> HIDE DEF words
      <4> QED
        BY <3>4, <4>1, ConcatEmptySeq
    <3>6. ASSUME NEW j \in 1 .. n
          PROVE  burst'[j] = Contents(cache.addr + cache.count + j - 1)
      BY <2>2, <3>5 DEF Asked
    <3> HIDE DEF words
    <3> QED
      BY <1>3, <1>4, <1>5, <1>6, <1>7, <2>1, <2>4, <3>4, <3>5, <3>6
  <2> QED
    BY <1>2, <2>3, <2>4
<1>8. CASE cache.m.op = "none"
  <2>1. burst' = Sending(beat)
    BY <1>2, <1>8, Executes
  <2>2. /\ Len(burst) = LineSize - cache.count
        /\ \A j \in 1 .. Len(burst) :
             burst[j] = Contents(cache.addr + cache.count + j - 1)
    BY <1>1, <1>8 DEF Fills
  <2>3. CASE beat = None
    BY <1>1, <1>3, <1>4, <1>5, <1>6, <1>8, <2>1, <2>3 DEF Sending
  <2>4. CASE beat # None
    <3>1. /\ burst' \in Seq(Words) /\ Len(burst') = Len(burst) - 1
          /\ Len(burst) \in Nat /\ Len(burst) > 0
          /\ \A j \in 1 .. Len(burst') : burst'[j] = burst[j + 1]
      BY <1>1, <1>2, <2>1, <2>4, SendingIs
    <3>2. beat = burst[1]
      BY <1>1, <1>2, <2>4, HeadTailProperties DEF Beaten
    <3>3. beat = Contents(cache.addr + cache.count + 1 - 1)
      BY <2>2, <3>1, <3>2
    <3>4. cache.addr + cache.count + 1 - 1 = cache.addr + cache.count
      BY <1>1
    <3>5. ASSUME NEW j \in 1 .. Len(burst')
          PROVE  burst'[j] = Contents(cache.addr + cache.count + j)
      <4>1. j + 1 \in 1 .. Len(burst)
        BY <3>1
      <4>2. burst'[j] = Contents(cache.addr + cache.count + (j + 1) - 1)
        BY <2>2, <3>1, <4>1
      <4>3. cache.addr + cache.count + (j + 1) - 1 = cache.addr + cache.count + j
        BY <1>1
      <4> QED
        BY <4>2, <4>3
    <3> QED
      BY <1>3, <1>4, <1>5, <1>6, <1>8, <2>2, <2>4, <3>1, <3>3, <3>4, <3>5
  <2> QED
    BY <2>3, <2>4
<1> QED
  BY <1>3, <1>7, <1>8

(* A word of the line, and the one that comes, are the HyperRAM's.         *)
Memory == [a \in Ram |-> Written(a)]
Sound(mem, word, w) ==
  /\ word \in Words
  /\ \A lane \in Lanes : 2 * w + lane \in Ram => word[lane] = mem[2 * w + lane]

LEMMA LineSound ==
  ASSUME HyperInv, NEW i \in 0 .. cache.count - 1
  PROVE  Sound(Memory, cache.line[i], cache.addr + i)
BY DEF HyperInv, HyperType, CacheInv, CacheState, LineCurrent, Sound, Memory

LEMMA BeatSound ==
  ASSUME NEW see, NEW beat, NEW wt, Serves(see, beat, wt),
         cache.state = "READING", beat # None
  PROVE  Sound(Memory, beat, cache.addr + cache.count)
<1>1. cache.addr + cache.count \in Nat /\ hyper \in [Ram -> Byte]
  BY DEF Serves, HyperInv, HyperType, CacheRegs
<1>2. beat = Contents(cache.addr + cache.count) /\ \A a \in Ram : Written(a) = hyper[a]
  BY FillExecutes
<1> QED
  BY <1>1, <1>2, ContentsIs DEF Sound, Memory

(* What a hit answers.                                                     *)
LEMMA HitSound ==
  ASSUME NEW see, NEW beat, NEW wt, Serves(see, beat, wt),
         cache_rd_hit(see, beat)
  PROVE  /\ see.op = "read" /\ see \in RamCommands /\ see.w \in Nat
         /\ Sound(Memory, Served(see, beat), see.w)
         /\ cache.state = "IDLE" =>
              /\ Served(see, beat) = cache.line[cache_offset(see)]
              /\ cache_offset(see) \in 0 .. cache.count - 1
<1>1. see.op = "read" /\ see \in RamCommands /\ see.w \in Nat
  BY NoWordIs, CommandIs DEF Serves, cache_rd_hit
<1>2. /\ cache.addr \in Nat /\ cache.count \in 0 .. LineSize
      /\ cache.state \in {"IDLE", "READING"}
  BY DEF Serves, HyperInv, HyperType, CacheRegs
<1>3. HyperInv
  BY DEF Serves
<1>4. CASE cache_offset(see) < cache.count
  <2>1. cache_offset(see) \in 0 .. cache.count - 1
    BY <1>1, <1>2, <1>4, LineFacts DEF cache_rd_hit, cache_offset
  <2>2. cache.addr + cache_offset(see) = see.w
    BY <1>1, <1>2 DEF cache_offset
  <2>3. Served(see, beat) = cache.line[cache_offset(see)]
    BY <1>2, <2>1, LineFacts DEF Served
  <2> QED
    BY <1>1, <1>3, <2>1, <2>2, <2>3, LineSound
<1>5. CASE ~(cache_offset(see) < cache.count)
  <2>1. cache_offset(see) = cache.count /\ beat # None
    BY <1>5 DEF cache_rd_hit
  <2>2. cache.state = "READING"
    BY <1>2, <2>1, IdleExecutes
  <2>3. cache.addr + cache.count = see.w
    BY <1>1, <1>2, <2>1 DEF cache_offset
  <2> QED
    BY <1>1, <2>1, <2>2, <2>3, BeatSound DEF Served
<1> QED
  BY <1>4, <1>5

(* What the step keeps, whichever it is.                                   *)
CacheGood == cache \in CacheRegs /\ CacheState /\ LineCurrent
Unwritten == Memory' = Memory

LEMMA KeptIs ==
  ASSUME HyperInv, NEW wt \in BOOLEAN
  PROVE  /\ Kept(wt) \in Slots
         /\ Kept(wt) = cache.m \/ Kept(wt).op = "none"
         /\ wt => Kept(wt) = cache.m
         /\ ~wt => Kept(wt).op = "none"
BY NoWordIs DEF Kept, HyperInv, HyperType, CacheRegs

LEMMA KeepsUnwritten ==
  ASSUME NEW see, NEW beat, NEW wt, Serves(see, beat, wt), cache.state = "IDLE",
         cache'.m = Kept(wt)
  PROVE  Unwritten
<1> SUFFICES ASSUME NEW a \in Ram PROVE Written(a)' = Written(a)
  BY DEF Unwritten, Memory
<1>1. /\ cache.m.op \in {"none", "write"}
      /\ ~wt \/ cache.m.op = "none" => hyper'[a] = Written(a)
      /\ wt \/ cache.m.op = "none" => hyper'[a] = hyper[a]
  BY IdleExecutes
<1>2. HyperInv /\ wt \in BOOLEAN
  BY DEF Serves
<1> QED
  BY <1>1, <1>2, KeptIs DEF Written

LEMMA ReadingUnwritten ==
  ASSUME NEW see, NEW beat, NEW wt, Serves(see, beat, wt),
         cache.state = "READING" \/ Accepts(see, beat, wt),
         cache'.m.op # "write"
  PROVE  Unwritten
<1> SUFFICES ASSUME NEW a \in Ram PROVE Written(a)' = Written(a)
  BY DEF Unwritten, Memory
<1>1. cache.state = "READING" => hyper' = hyper /\ Written(a) = hyper[a]
  BY FillExecutes
<1>2. cache.state = "IDLE" => hyper'[a] = Written(a)
  BY IdleExecutes
<1>3. cache.state \in {"IDLE", "READING"}
  BY DEF Serves, HyperInv, HyperType, CacheRegs
<1> QED
  BY <1>1, <1>2, <1>3 DEF Written

LEMMA LineAfter ==
  ASSUME hyper' \in [Ram -> Byte],
         \A i \in 0 .. cache'.count - 1 :
           Sound(Memory', cache'.line[i], cache'.addr + i)
  PROVE  /\ LineCurrent'
         /\ \A i \in 0 .. cache'.count - 1 : cache'.line[i] \in Words
BY DEF LineCurrent, Sound, Memory

LEMMA ServeFacts ==
  ASSUME NEW see, NEW beat, NEW wt, Serves(see, beat, wt)
  PROVE  /\ HyperInv /\ cached /\ cached' /\ wt \in BOOLEAN
         /\ cache.line \in [Line -> Words \cup {None}] /\ cache.addr \in Nat
         /\ cache.count \in 0 .. LineSize /\ cache.burst \in 0 .. 1
         /\ cache.m \in Slots /\ cache.answer \in Words \cup {None}
         /\ cache.state \in {"IDLE", "READING"}
         /\ see \in Slots /\ see.w \in Nat
         /\ cache.burst = 1 => cache.state = "READING" /\ cache.count = 0
         /\ cache.m.op = "write" => cache.m \in RamCommands
         /\ cache.state = "IDLE" => cache.count \in {0, LineSize}
<1>1. see \in Slots /\ see.w \in Nat
  BY NoWordIs, CommandIs DEF Serves, NoWord
<1> QED
  BY <1>1 DEF Serves, HyperInv, HyperType, CacheRegs, CacheInv, CacheState, cached

(* One lemma for each thing an idle cache does.                            *)
LEMMA UnacceptedGood ==
  ASSUME NEW see, NEW beat, NEW wt, Serves(see, beat, wt),
         cache.state = "IDLE", Unaccepted(see, beat, wt)
  PROVE  CacheGood' /\ Unwritten
<1>1. /\ cache'.state = "IDLE" /\ cache'.line = cache.line
      /\ cache'.addr = cache.addr /\ cache'.count = cache.count
      /\ cache'.burst = cache.burst /\ cache'.m = Kept(wt) /\ cache'.answer = None
  BY DEF Unaccepted, Regs
<1>2. Unwritten
  BY <1>1, KeepsUnwritten
<1>3. burst' = <<>> /\ hyper' \in [Ram -> Byte] /\ cache.m.op # "read"
  BY IdleExecutes
<1>4. \A i \in 0 .. cache.count - 1 : Sound(Memory, cache.line[i], cache.addr + i)
  BY ServeFacts, LineSound
<1>5. LineCurrent' /\ \A i \in 0 .. cache'.count - 1 : cache'.line[i] \in Words
  BY <1>1, <1>2, <1>3, <1>4, LineAfter DEF Unwritten
<1>6. cache' \in CacheRegs
  BY ServeFacts, KeptIs DEF Unaccepted, Regs, CacheRegs
<1>7. CacheState'
  BY <1>1, <1>3, <1>5, ServeFacts, KeptIs DEF CacheState
<1> QED
  BY <1>2, <1>5, <1>6, <1>7 DEF CacheGood

LEMMA HitsGood ==
  ASSUME NEW see, NEW beat, NEW wt, Serves(see, beat, wt),
         cache.state = "IDLE", Hits(see, beat, wt)
  PROVE  CacheGood' /\ Unwritten
<1>1. /\ cache'.state = "IDLE" /\ cache'.line = cache.line
      /\ cache'.addr = cache.addr /\ cache'.count = cache.count
      /\ cache'.burst = cache.burst /\ cache'.m = Kept(wt)
      /\ cache'.answer = cache.line[cache_offset(see)]
  BY DEF Hits, Regs
<1>2. Unwritten
  BY <1>1, KeepsUnwritten
<1>3. burst' = <<>> /\ hyper' \in [Ram -> Byte] /\ cache.m.op # "read"
  BY IdleExecutes
<1>4. \A i \in 0 .. cache.count - 1 : Sound(Memory, cache.line[i], cache.addr + i)
  BY ServeFacts, LineSound
<1>5. LineCurrent' /\ \A i \in 0 .. cache'.count - 1 : cache'.line[i] \in Words
  BY <1>1, <1>2, <1>3, <1>4, LineAfter DEF Unwritten
<1>6. cache' \in CacheRegs
  <2>1. cache.line[cache_offset(see)] \in Words
    BY <1>4, HitSound DEF Hits, Sound
  <2> QED
    BY <2>1, ServeFacts, KeptIs DEF Hits, Regs, CacheRegs
<1>7. CacheState'
  BY <1>1, <1>3, <1>5, ServeFacts, KeptIs DEF CacheState
<1> QED
  BY <1>2, <1>5, <1>6, <1>7 DEF CacheGood

LEMMA MissesGood ==
  ASSUME NEW see, NEW beat, NEW wt, Serves(see, beat, wt),
         cache.state = "IDLE", Misses(see, beat, wt)
  PROVE  CacheGood' /\ Unwritten
<1>1. /\ cache'.state = "READING" /\ cache'.line = cache.line
      /\ cache'.addr = see.w /\ cache'.count = 0
      /\ cache'.burst = 1 /\ cache'.m = Reading(see.w, LineSize)
      /\ cache'.answer = None
  BY DEF Misses, Regs
<1>2. /\ cache'.m.op = "read" /\ cache'.m.w = see.w /\ cache'.m.len = LineSize
      /\ cache'.m \in Slots
  BY <1>1, ServeFacts, LineFacts, ReadingIs
<1>3. Unwritten
  BY <1>2, ReadingUnwritten DEF Misses
<1>4. burst' = <<>> /\ hyper' \in [Ram -> Byte]
  BY IdleExecutes
<1>5. \A i \in 0 .. cache'.count - 1 : FALSE
  BY <1>1
<1>6. LineCurrent'
  BY <1>4, <1>5, LineAfter
<1>7. cache' \in CacheRegs
  BY <1>1, <1>2, ServeFacts, LineFacts DEF Misses, Regs, CacheRegs
<1>8. Fills'
  BY <1>1, <1>2, <1>4, ServeFacts, LineFacts DEF Fills
<1>9. CacheState'
  BY <1>1, <1>2, <1>5, <1>8 DEF CacheState
<1> QED
  BY <1>3, <1>6, <1>7, <1>9 DEF CacheGood

LEMMA HitsHalfGood ==
  ASSUME NEW see, NEW beat, NEW wt, Serves(see, beat, wt),
         cache.state = "IDLE", HitsHalf(see, beat, wt)
  PROVE  CacheGood' /\ Unwritten
<1> DEFINE far == cache.addr + LineSize
<1>1. /\ cache'.state = "READING" /\ cache'.line = Shifted
      /\ cache'.addr = cache.addr + Half /\ cache'.count = Half
      /\ cache'.burst = 0 /\ cache'.m = Reading(far, Half)
      /\ cache'.answer = cache.line[cache_offset(see)]
  BY DEF HitsHalf, Regs
<1>2. far \in Nat /\ Half \in 0 .. LineSize /\ Half < LineSize
  BY ServeFacts, LineFacts
<1>3. /\ cache'.m.op = "read" /\ cache'.m.w = far /\ cache'.m.len = Half
      /\ cache'.m \in Slots
  <2> HIDE DEF far
  <2> QED
    BY <1>1, <1>2, ReadingIs
<1>4. Unwritten
  BY <1>3, ReadingUnwritten DEF HitsHalf
<1>5. burst' = <<>> /\ hyper' \in [Ram -> Byte]
  BY IdleExecutes
<1>6. \A i \in 0 .. cache.count - 1 : Sound(Memory, cache.line[i], cache.addr + i)
  BY ServeFacts, LineSound
<1>7. cache.count = LineSize
  <2>1. cache_offset(see) = Half - 1 /\ cache_offset(see) \in 0 .. cache.count - 1
    BY HitSound DEF HitsHalf, HalfRead
  <2> QED
    BY <2>1, ServeFacts, LineFacts
<1>8. ASSUME NEW i \in 0 .. Half - 1
      PROVE  Sound(Memory, Shifted[i], cache.addr + Half + i)
  <2>1. i \in Line /\ i < Half /\ i + Half \in 0 .. cache.count - 1
    BY <1>7, LineFacts DEF Line
  <2>2. Shifted[i] = cache.line[i + Half]
    BY <2>1 DEF Shifted
  <2>3. Sound(Memory, cache.line[i + Half], cache.addr + (i + Half))
    BY <1>6, <2>1
  <2>4. cache.addr + (i + Half) = cache.addr + Half + i
    BY <1>2, <2>1, ServeFacts, LineFacts
  <2> QED
    BY <2>2, <2>3, <2>4
<1>9. LineCurrent' /\ \A i \in 0 .. cache'.count - 1 : cache'.line[i] \in Words
  BY <1>1, <1>4, <1>5, <1>8, LineAfter DEF Unwritten
<1>10. Shifted \in [Line -> Words \cup {None}]
  <2>1. \A i \in Line : i < Half => i + Half \in Line
    BY LineFacts DEF Line
  <2> QED
    BY <2>1, ServeFacts DEF Shifted
<1>11. cache.line[cache_offset(see)] \in Words
  BY <1>6, HitSound DEF HitsHalf, Sound
<1>12. cache' \in CacheRegs
  <2>1. cache.addr + Half \in Nat
    BY ServeFacts, LineFacts
  <2>2. cache' = Regs("READING", Shifted, cache.addr + Half, Half, 0, cache'.m,
                      cache.line[cache_offset(see)])
    BY <1>1 DEF HitsHalf
  <2> QED
    BY <1>2, <1>3, <1>10, <1>11, <2>1, <2>2 DEF Regs, CacheRegs
<1>13. Fills'
  <2>1. far = cache.addr + Half + Half
    BY ServeFacts, LineFacts
  <2>2. Half = LineSize - Half
    BY LineFacts
  <2>3. cache'.count = Half /\ cache'.addr = cache.addr + Half
    BY <1>1
  <2> HIDE DEF far
  <2> QED
    BY <1>2, <1>3, <1>5, <2>1, <2>2, <2>3 DEF Fills
<1>14. CacheState'
  BY <1>1, <1>3, <1>9, <1>13 DEF CacheState
<1> QED
  BY <1>4, <1>9, <1>12, <1>14 DEF CacheGood

(* A write: into the line, too, if it holds the word.                      *)
StoresByte(see) == Memory' = [Memory EXCEPT ![2 * see.w + see.lane] = see.d]

LEMMA UpdatedIs ==
  ASSUME NEW see, cache_wr_hit(see)
  PROVE  Updated(see) =
           [cache.line EXCEPT ![cache_offset(see)] =
              [cache.line[cache_offset(see)] EXCEPT ![see.lane] = see.d]]
BY DEF Updated

LEMMA UpdatedSound ==
  ASSUME NEW see \in RamCommands, HyperInv, see.op = "write",
         NEW i \in 0 .. cache.count - 1
  PROVE  Sound([Memory EXCEPT ![2 * see.w + see.lane] = see.d],
               Updated(see)[i], cache.addr + i)
<1> DEFINE mem == [Memory EXCEPT ![2 * see.w + see.lane] = see.d]
           w == cache.addr + i
<1>1. /\ see.w \in Nat /\ see.lane \in Lanes /\ see.d \in Byte
      /\ 2 * see.w + see.lane \in Ram
  BY CommandIs
<1>2. /\ cache.addr \in Nat /\ cache.count \in 0 .. LineSize
      /\ cache.line \in [Line -> Words \cup {None}]
  BY DEF HyperInv, HyperType, CacheRegs
<1>3. i \in Nat /\ i \in Line /\ w \in Nat
  BY <1>2, LineFacts DEF Line
<1>4. Sound(Memory, cache.line[i], w)
  BY LineSound
<1>5. ASSUME NEW lane \in Lanes
      PROVE  2 * w + lane = 2 * see.w + see.lane <=> w = see.w /\ lane = see.lane
  BY <1>1, <1>3, OneHalf
<1>6. CASE w = see.w
  <2>1. cache_offset(see) = i /\ cache_wr_hit(see)
    BY <1>1, <1>2, <1>3, <1>6 DEF cache_offset, cache_wr_hit
  <2>2. Updated(see) = [cache.line EXCEPT ![i] = [cache.line[i] EXCEPT ![see.lane] = see.d]]
    BY <2>1, UpdatedIs
  <2>3. Updated(see)[i] = [cache.line[i] EXCEPT ![see.lane] = see.d]
    BY <1>2, <1>3, <2>2
  <2>4. cache.line[i] \in [Lanes -> Byte]
    BY <1>4 DEF Sound, Words
  <2>5. Updated(see)[i] \in Words
    BY <1>1, <2>3, <2>4 DEF Words
  <2>6. ASSUME NEW lane \in Lanes, 2 * w + lane \in Ram
        PROVE  Updated(see)[i][lane] = mem[2 * w + lane]
    <3>1. mem[2 * w + lane] = IF lane = see.lane THEN see.d ELSE Memory[2 * w + lane]
      BY <1>5, <1>6, <2>6 DEF Memory
    <3>2. Updated(see)[i][lane] = IF lane = see.lane THEN see.d ELSE cache.line[i][lane]
      BY <2>3, <2>4
    <3> QED
      BY <1>4, <2>6, <3>1, <3>2 DEF Sound
  <2>7. Sound(mem, Updated(see)[i], w)
    <3> HIDE DEF mem, w
    <3> QED
      BY <2>5, <2>6 DEF Sound
  <2> QED
    BY <2>7
<1>7. CASE w # see.w
  <2>1. Updated(see)[i] = cache.line[i]
    <3>1. cache_offset(see) # i
      BY <1>1, <1>2, <1>3, <1>7 DEF cache_offset
    <3> QED
      BY <1>2, <1>3, <3>1 DEF Updated
  <2>2. ASSUME NEW lane \in Lanes, 2 * w + lane \in Ram
        PROVE  mem[2 * w + lane] = Memory[2 * w + lane]
    BY <1>5, <1>7, <2>2 DEF Memory
  <2>3. Sound(mem, Updated(see)[i], w)
    <3> HIDE DEF mem, w
    <3> QED
      BY <1>4, <2>1, <2>2 DEF Sound
  <2> QED
    BY <2>3
<1> QED
  BY <1>6, <1>7

LEMMA TakesWriteGood ==
  ASSUME NEW see, NEW beat, NEW wt, Serves(see, beat, wt),
         cache.state = "IDLE", TakesWrite(see, beat, wt)
  PROVE  CacheGood' /\ StoresByte(see)
<1>1. /\ cache'.state = "IDLE" /\ cache'.line = Updated(see)
      /\ cache'.addr = cache.addr /\ cache'.count = cache.count
      /\ cache'.burst = cache.burst /\ cache'.m = see /\ cache'.answer = None
  BY DEF TakesWrite, Regs
<1>2. see.op = "write" /\ see \in RamCommands
  BY NoWordIs DEF TakesWrite, Serves
<1>3. /\ see.w \in Nat /\ see.lane \in Lanes /\ see.d \in Byte
      /\ 2 * see.w + see.lane \in Ram /\ see \in Slots
  BY <1>2, CommandIs
<1>4. burst' = <<>> /\ hyper' \in [Ram -> Byte]
  BY IdleExecutes
<1>5. StoresByte(see)
  <2>1. ASSUME NEW a \in Ram PROVE hyper'[a] = Written(a)
    BY IdleExecutes DEF TakesWrite
  <2>2. ASSUME NEW a \in Ram
        PROVE  Written(a)' = IF a = 2 * see.w + see.lane THEN see.d ELSE Written(a)
    BY <1>1, <1>2, <2>1 DEF Written
  <2> QED
    BY <2>2 DEF StoresByte, Memory
<1>6. ASSUME NEW i \in 0 .. cache.count - 1
      PROVE  Sound(Memory', Updated(see)[i], cache.addr + i)
  BY <1>2, <1>5, ServeFacts, UpdatedSound DEF StoresByte
<1>7. LineCurrent' /\ \A i \in 0 .. cache'.count - 1 : cache'.line[i] \in Words
  BY <1>1, <1>4, <1>6, LineAfter
<1>8. Updated(see) \in [Line -> Words \cup {None}]
  <2>1. CASE cache_wr_hit(see)
    <3>1. cache_offset(see) \in 0 .. cache.count - 1 /\ cache_offset(see) \in Line
      BY <2>1, ServeFacts, LineFacts DEF cache_wr_hit, Line
    <3>2. cache.line[cache_offset(see)] \in [Lanes -> Byte]
      BY <3>1, ServeFacts, LineSound DEF Sound, Words
    <3>3. [cache.line[cache_offset(see)] EXCEPT ![see.lane] = see.d] \in Words
      BY <1>3, <3>2 DEF Words
    <3> QED
      BY <2>1, <3>3, ServeFacts, UpdatedIs
  <2>2. CASE ~cache_wr_hit(see)
    BY <2>2, ServeFacts DEF Updated
  <2> QED
    BY <2>1, <2>2
<1>9. cache' \in CacheRegs
  BY <1>3, <1>8, ServeFacts DEF TakesWrite, Regs, CacheRegs
<1>10. CacheState'
  BY <1>1, <1>2, <1>4, <1>7, ServeFacts DEF CacheState
<1> QED
  BY <1>5, <1>7, <1>9, <1>10 DEF CacheGood

(* And for each thing a cache does while its line fills.                   *)
LEMMA AnswersAreWords ==
  ASSUME NEW see, NEW beat, NEW wt, Serves(see, beat, wt)
  PROVE  /\ (IF HitNow(see, beat, wt) THEN Served(see, beat) ELSE None)
              \in Words \cup {None}
         /\ FirstOr(see, beat, wt) \in Words \cup {None}
<1>1. HitNow(see, beat, wt) => Served(see, beat) \in Words
  BY HitSound DEF HitNow, Sound
<1>2. beat \in Words \cup {None}
  BY DEF Serves, Beaten
<1> QED
  BY <1>1, <1>2 DEF FirstOr

LEMMA WaitsGood ==
  ASSUME NEW see, NEW beat, NEW wt, Serves(see, beat, wt),
         cache.state = "READING", Waits(see, beat, wt)
  PROVE  CacheGood' /\ Unwritten
<1>1. /\ cache'.state = "READING" /\ cache'.line = cache.line
      /\ cache'.addr = cache.addr /\ cache'.count = cache.count
      /\ cache'.burst = cache.burst /\ cache'.m = Kept(wt) /\ beat = None
  BY DEF Waits, Regs
<1>2. hyper' = hyper /\ cache.m.op \in {"none", "read"} /\ Fills
  BY FillExecutes DEF Serves, HyperInv, CacheInv, CacheState
<1>3. Kept(wt).op # "write" /\ Kept(wt) \in Slots
  BY <1>2, ServeFacts, KeptIs
<1>4. Unwritten
  BY <1>1, <1>3, ReadingUnwritten
<1>5. \A i \in 0 .. cache.count - 1 : Sound(Memory, cache.line[i], cache.addr + i)
  BY ServeFacts, LineSound
<1>6. hyper' \in [Ram -> Byte]
  BY <1>2 DEF Serves, HyperInv, HyperType
<1>7. LineCurrent' /\ \A i \in 0 .. cache'.count - 1 : cache'.line[i] \in Words
  BY <1>1, <1>4, <1>5, <1>6, LineAfter DEF Unwritten
<1>8. cache' \in CacheRegs
  BY <1>3, ServeFacts, AnswersAreWords DEF Waits, Regs, CacheRegs
<1>9. Fills'
  <2>1. CASE cache.m.op = "read" /\ wt
    <3>1. Kept(wt) = cache.m /\ burst' = <<>>
      BY <2>1, ServeFacts, KeptIs, FillExecutes
    <3> QED
      BY <1>1, <1>2, <2>1, <3>1 DEF Fills
  <2>2. CASE cache.m.op = "read" /\ ~wt
    <3>1. /\ Kept(wt).op = "none" /\ Len(burst') = LineSize - cache.count
          /\ \A j \in 1 .. Len(burst') :
               burst'[j] = Contents(cache.addr + cache.count + j - 1)
      BY <2>2, ServeFacts, KeptIs, FillExecutes
    <3> QED
      BY <1>1, <1>2, <3>1 DEF Fills, Contents
  <2>3. CASE cache.m.op = "none"
    <3>1. Kept(wt).op = "none" /\ burst' = burst
      BY <1>1, <2>3, ServeFacts, KeptIs, FillExecutes
    <3> QED
      BY <1>1, <1>2, <2>3, <3>1 DEF Fills, Contents
  <2> QED
    BY <1>2, <2>1, <2>2, <2>3, ServeFacts
<1>10. CacheState'
  BY <1>1, <1>3, <1>7, <1>9, ServeFacts DEF CacheState
<1> QED
  BY <1>4, <1>7, <1>8, <1>10 DEF CacheGood

(* The word that comes extends the line.                                   *)
LEMMA ExtendedSound ==
  ASSUME NEW see, NEW beat, NEW wt, Serves(see, beat, wt),
         cache.state = "READING", beat # None
  PROVE  /\ cache.count \in Line
         /\ Extended(beat) \in [Line -> Words \cup {None}]
         /\ \A i \in 0 .. cache.count :
              Sound(Memory, Extended(beat)[i], cache.addr + i)
         /\ cache.m.op = "none" /\ Kept(wt).op = "none" /\ Kept(wt) \in Slots
         /\ burst' \in Seq(Words) /\ Len(burst') = LineSize - cache.count - 1
<1>1. cache.count < LineSize /\ beat \in Words
  BY DEF Serves, HyperInv, CacheInv, CacheState, Fills, Beaten
<1>2. cache.count \in Line
  BY <1>1, ServeFacts, LineFacts DEF Line
<1>3. Extended(beat) \in [Line -> Words \cup {None}]
  BY <1>1, <1>2, ServeFacts DEF Extended
<1>4. ASSUME NEW i \in 0 .. cache.count
      PROVE  Sound(Memory, Extended(beat)[i], cache.addr + i)
  <2>1. i \in Line
    BY <1>2, ServeFacts, LineFacts DEF Line
  <2>2. CASE i = cache.count
    <3>1. Extended(beat)[i] = beat
      BY <1>2, <2>2, ServeFacts DEF Extended
    <3> QED
      BY <2>2, <3>1, BeatSound
  <2>3. CASE i # cache.count
    <3>1. i \in 0 .. cache.count - 1
      BY <2>3, ServeFacts
    <3>2. Extended(beat)[i] = cache.line[i]
      BY <2>1, <2>3, ServeFacts DEF Extended
    <3> QED
      BY <3>1, <3>2, ServeFacts, LineSound
  <2> QED
    BY <2>2, <2>3
<1>5. cache.m.op = "none"
  BY FillExecutes
<1>6. Kept(wt).op = "none" /\ Kept(wt) \in Slots
  BY <1>5, ServeFacts, KeptIs
<1>7. burst' \in Seq(Words) /\ Len(burst') = LineSize - cache.count - 1
  BY <1>5, FillExecutes
<1> QED
  BY <1>2, <1>3, <1>4, <1>5, <1>6, <1>7

LEMMA TakesBeatGood ==
  ASSUME NEW see, NEW beat, NEW wt, Serves(see, beat, wt),
         cache.state = "READING", TakesBeat(see, beat, wt)
  PROVE  CacheGood' /\ Unwritten
<1>1. /\ cache'.state = "READING" /\ cache'.line = Extended(beat)
      /\ cache'.addr = cache.addr /\ cache'.count = cache.count + 1
      /\ cache'.burst = 0 /\ cache'.m = Kept(wt) /\ beat # None
  BY DEF TakesBeat, Regs
<1>2. hyper' = hyper /\ hyper' \in [Ram -> Byte]
  BY FillExecutes DEF Serves, HyperInv, HyperType
<1>3. cache.m.op = "none" /\ Kept(wt).op = "none" /\ Kept(wt) \in Slots
  BY <1>1, ExtendedSound
<1>4. Unwritten
  BY <1>1, <1>3, ReadingUnwritten
<1>5. cache.count + 1 < LineSize /\ cache.count + 1 \in 0 .. LineSize
  <2>1. cache.count \in Line
    BY <1>1, ExtendedSound
  <2>2. cache.count # LineSize - 1
    BY <1>1 DEF TakesBeat, Filled
  <2> QED
    BY <2>1, <2>2, LineFacts DEF Line
<1>6. LineCurrent' /\ \A i \in 0 .. cache'.count - 1 : cache'.line[i] \in Words
  <2>1. 0 .. cache'.count - 1 = 0 .. cache.count
    BY <1>1, ServeFacts
  <2>2. \A i \in 0 .. cache.count :
          Sound(Memory, Extended(beat)[i], cache.addr + i)
    BY <1>1, ExtendedSound
  <2> QED
    BY <1>1, <1>2, <1>4, <2>1, <2>2, LineAfter DEF Unwritten
<1>7. cache' \in CacheRegs
  <2>1. Extended(beat) \in [Line -> Words \cup {None}]
    BY <1>1, ExtendedSound
  <2> QED
    BY <1>3, <1>5, <2>1, ServeFacts, AnswersAreWords
       DEF TakesBeat, Regs, CacheRegs
<1>8. Fills'
  <2>1. /\ Len(burst') = LineSize - cache.count - 1
        /\ \A j \in 1 .. Len(burst') :
             burst'[j] = Contents(cache.addr + cache.count + j)
    BY <1>1, <1>3, FillExecutes
  <2>2. LineSize - cache'.count = LineSize - cache.count - 1
    BY <1>1, ServeFacts, LineFacts
  <2>3. ASSUME NEW j \in 1 .. Len(burst')
        PROVE  cache.addr + cache.count + j = cache'.addr + cache'.count + j - 1
    <3>1. cache.addr \in Nat /\ cache.count \in Nat
      BY ServeFacts, LineFacts
    <3>2. j \in Int
      OBVIOUS
    <3> QED
      BY <1>1, <3>1, <3>2
  <2>4. \A j \in 1 .. Len(burst') :
          burst'[j] = Contents(cache'.addr + cache'.count + j - 1)
    BY <2>1, <2>3
  <2>5. \A j \in 1 .. Len(burst') :
          burst'[j] = Contents(cache.addr + cache.count + j - 1)'
    BY <1>2, <2>4 DEF Contents
  <2>6. cache'.m.op = "none" /\ cache'.count < LineSize
    BY <1>1, <1>3, <1>5
  <2>7. Len(burst') = LineSize - cache'.count
    BY <2>1, <2>2
  <2> QED
    BY <2>5, <2>6, <2>7 DEF Fills
<1>9. CacheState'
  BY <1>1, <1>3, <1>6, <1>8 DEF CacheState
<1> QED
  BY <1>4, <1>6, <1>7, <1>9 DEF CacheGood

LEMMA LastBeat ==
  ASSUME NEW see, NEW beat, NEW wt, Serves(see, beat, wt),
         cache.state = "READING", Filled(beat)
  PROVE  beat # None /\ cache.count = LineSize - 1 /\ burst' = <<>>
<1>1. beat # None /\ cache.count = LineSize - 1
  BY DEF Filled
<1>2. burst' \in Seq(Words) /\ Len(burst') = 0
  BY <1>1, ExtendedSound, LineFacts
<1> QED
  BY <1>1, <1>2, EmptySeq

LEMMA RefillsAgainGood ==
  ASSUME NEW see, NEW beat, NEW wt, Serves(see, beat, wt),
         cache.state = "READING", RefillsAgain(see, beat, wt)
  PROVE  CacheGood' /\ Unwritten
<1>1. /\ cache'.state = "READING" /\ cache'.line = Extended(beat)
      /\ cache'.addr = see.w /\ cache'.count = 0 /\ cache'.burst = 1
      /\ cache'.m = Reading(see.w, LineSize) /\ Filled(beat)
  BY DEF RefillsAgain, Regs
<1>2. hyper' \in [Ram -> Byte]
  BY FillExecutes DEF Serves, HyperInv, HyperType
<1>3. beat # None /\ burst' = <<>>
  BY <1>1, LastBeat
<1>4. /\ cache'.m.op = "read" /\ cache'.m.w = see.w /\ cache'.m.len = LineSize
      /\ cache'.m \in Slots
  BY <1>1, ServeFacts, LineFacts, ReadingIs
<1>5. Unwritten
  BY <1>4, ReadingUnwritten
<1>6. \A i \in 0 .. cache'.count - 1 : FALSE
  BY <1>1
<1>7. LineCurrent'
  BY <1>2, <1>6, LineAfter
<1>8. cache' \in CacheRegs
  <2>1. Extended(beat) \in [Line -> Words \cup {None}]
    BY <1>3, ExtendedSound
  <2>2. cache' = Regs("READING", Extended(beat), see.w, 0, 1, cache'.m,
                      FirstOr(see, beat, wt))
    BY <1>1 DEF RefillsAgain
  <2> QED
    BY <1>4, <2>1, <2>2, ServeFacts, LineFacts, AnswersAreWords DEF Regs, CacheRegs
<1>9. Fills'
  BY <1>1, <1>3, <1>4, ServeFacts, LineFacts DEF Fills
<1>10. CacheState'
  BY <1>1, <1>4, <1>6, <1>9 DEF CacheState
<1> QED
  BY <1>5, <1>7, <1>8, <1>10 DEF CacheGood

LEMMA FulfilsGood ==
  ASSUME NEW see, NEW beat, NEW wt, Serves(see, beat, wt),
         cache.state = "READING", Fulfils(see, beat, wt)
  PROVE  CacheGood' /\ Unwritten
<1>1. /\ cache'.state = "IDLE" /\ cache'.line = Extended(beat)
      /\ cache'.addr = cache.addr /\ cache'.count = cache.count + 1
      /\ cache'.burst = 0 /\ cache'.m = Kept(wt) /\ Filled(beat)
  BY DEF Fulfils, Regs
<1>2. hyper' \in [Ram -> Byte]
  BY FillExecutes DEF Serves, HyperInv, HyperType
<1>3. beat # None /\ burst' = <<>> /\ cache.count + 1 = LineSize
  BY <1>1, LastBeat, LineFacts
<1>4. Kept(wt).op = "none" /\ Kept(wt) \in Slots
  BY <1>3, ExtendedSound
<1>5. Unwritten
  BY <1>1, <1>4, ReadingUnwritten
<1>6. LineCurrent' /\ \A i \in 0 .. cache'.count - 1 : cache'.line[i] \in Words
  <2>1. 0 .. cache'.count - 1 = 0 .. cache.count
    BY <1>1, ServeFacts
  <2>2. \A i \in 0 .. cache.count :
          Sound(Memory, Extended(beat)[i], cache.addr + i)
    BY <1>3, ExtendedSound
  <2> QED
    BY <1>1, <1>2, <1>5, <2>1, <2>2, LineAfter DEF Unwritten
<1>7. cache' \in CacheRegs
  <2>1. Extended(beat) \in [Line -> Words \cup {None}]
    BY <1>3, ExtendedSound
  <2>2. LineSize \in 0 .. LineSize
    BY LineFacts
  <2> QED
    BY <1>3, <1>4, <2>1, <2>2, ServeFacts, AnswersAreWords
       DEF Fulfils, Regs, CacheRegs
<1>8. CacheState'
  BY <1>1, <1>3, <1>4, <1>6 DEF CacheState
<1> QED
  BY <1>5, <1>6, <1>7, <1>8 DEF CacheGood

-----------------------------------------------------------------------------
(* A clock of the cache, all together.                                     *)

LEMMA CacheKeepsGood ==
  ASSUME NEW see, NEW beat, NEW wt, Serves(see, beat, wt)
  PROVE  /\ CacheGood'
         /\ Accepts(see, beat, wt) /\ see.op = "write" => StoresByte(see)
         /\ ~(Accepts(see, beat, wt) /\ see.op = "write") => Unwritten
<1>1. cache \in CacheRegs /\ wt \in BOOLEAN
  BY DEF Serves, HyperInv, HyperType
<1>2. CASE CacheIdle(see, beat, wt)
  <2>1. /\ cache.state = "IDLE"
        /\ \/ Unaccepted(see, beat, wt) \/ TakesWrite(see, beat, wt)
           \/ Hits(see, beat, wt) \/ HitsHalf(see, beat, wt)
           \/ Misses(see, beat, wt)
    BY <1>1, <1>2, CacheIdles
  <2>2. CASE Unaccepted(see, beat, wt)
    BY <2>1, <2>2, UnacceptedGood DEF Unaccepted
  <2>3. CASE TakesWrite(see, beat, wt)
    BY <2>1, <2>3, TakesWriteGood DEF TakesWrite
  <2>4. CASE Hits(see, beat, wt)
    BY <2>1, <2>4, HitsGood DEF Hits
  <2>5. CASE HitsHalf(see, beat, wt)
    BY <2>1, <2>5, HitsHalfGood DEF HitsHalf
  <2>6. CASE Misses(see, beat, wt)
    BY <2>1, <2>6, MissesGood DEF Misses
  <2> QED
    BY <2>1, <2>2, <2>3, <2>4, <2>5, <2>6
<1>3. CASE CacheReading(see, beat, wt)
  <2>1. /\ cache.state = "READING"
        /\ \/ Waits(see, beat, wt) \/ TakesBeat(see, beat, wt)
           \/ RefillsAgain(see, beat, wt) \/ Fulfils(see, beat, wt)
    BY <1>1, <1>3, CacheReads
  <2>2. Accepts(see, beat, wt) => see.op # "write"
    BY <2>1, FillExecutes
  <2>3. CASE Waits(see, beat, wt)
    BY <2>1, <2>2, <2>3, WaitsGood
  <2>4. CASE TakesBeat(see, beat, wt)
    BY <2>1, <2>2, <2>4, TakesBeatGood
  <2>5. CASE RefillsAgain(see, beat, wt)
    BY <2>1, <2>2, <2>5, RefillsAgainGood
  <2>6. CASE Fulfils(see, beat, wt)
    BY <2>1, <2>2, <2>6, FulfilsGood
  <2> QED
    BY <2>1, <2>3, <2>4, <2>5, <2>6
<1> QED
  BY <1>2, <1>3 DEF Serves, CacheStep

(* A read that is accepted has its word at once, or asks for a new line.   *)
Fetched(see) ==
  /\ cache'.burst = 1 /\ cache'.answer = None /\ cache'.addr = see.w
  /\ cache'.m.op = "read" /\ burst' = <<>>
Answered(see) ==
  cache'.answer # None /\ cache'.burst = 0 /\ Sound(Memory, cache'.answer, see.w)

LEMMA ReadAccepted ==
  ASSUME NEW see, NEW beat, NEW wt, Serves(see, beat, wt), cache.burst = 0,
         Accepts(see, beat, wt), see.op = "read"
  PROVE  Fetched(see) \/ Answered(see)
<1>1. cache \in CacheRegs /\ wt \in BOOLEAN
  BY DEF Serves, HyperInv, HyperType
<1>2. ASSUME cache_rd_hit(see, beat)
      PROVE  Served(see, beat) # None /\ Sound(Memory, Served(see, beat), see.w)
  BY <1>2, HitSound, NoneIs DEF Sound
<1>3. CASE CacheIdle(see, beat, wt)
  <2>1. /\ cache.state = "IDLE"
        /\ \/ Unaccepted(see, beat, wt) \/ TakesWrite(see, beat, wt)
           \/ Hits(see, beat, wt) \/ HitsHalf(see, beat, wt)
           \/ Misses(see, beat, wt)
    BY <1>1, <1>3, CacheIdles
  <2>2. CASE Unaccepted(see, beat, wt) \/ TakesWrite(see, beat, wt)
    BY <2>2 DEF Unaccepted, TakesWrite
  <2>3. CASE Hits(see, beat, wt)
    <3>1. cache'.burst = cache.burst /\ cache'.answer = cache.line[cache_offset(see)]
      BY <2>3 DEF Hits, Regs
    <3>2. cache'.answer = Served(see, beat)
      BY <2>1, <2>3, <3>1, HitSound DEF Hits
    <3> QED
      BY <1>2, <2>3, <3>1, <3>2 DEF Hits, Answered
  <2>4. CASE HitsHalf(see, beat, wt)
    <3>1. cache'.burst = 0 /\ cache'.answer = cache.line[cache_offset(see)]
      BY <2>4 DEF HitsHalf, Regs
    <3>2. cache'.answer = Served(see, beat)
      BY <2>1, <2>4, <3>1, HitSound DEF HitsHalf
    <3> QED
      BY <1>2, <2>4, <3>1, <3>2 DEF HitsHalf, Answered
  <2>5. CASE Misses(see, beat, wt)
    <3>1. /\ cache'.burst = 1 /\ cache'.answer = None /\ cache'.addr = see.w
          /\ cache'.m = Reading(see.w, LineSize)
      BY <2>5 DEF Misses, Regs
    <3>2. cache'.m.op = "read"
      BY <3>1, ReadingIs
    <3>3. burst' = <<>>
      BY <2>1, IdleExecutes
    <3> QED
      BY <3>1, <3>2, <3>3 DEF Fetched
  <2> QED
    BY <2>1, <2>2, <2>3, <2>4, <2>5
<1>4. CASE CacheReading(see, beat, wt)
  <2>1. /\ cache.state = "READING"
        /\ \/ Waits(see, beat, wt) \/ TakesBeat(see, beat, wt)
           \/ RefillsAgain(see, beat, wt) \/ Fulfils(see, beat, wt)
    BY <1>1, <1>4, CacheReads
  <2>2. Filled(beat) \/ HitNow(see, beat, wt)
    BY <2>1 DEF Accepts, s_waitrequest, HitNow
  <2>3. HitNow(see, beat, wt) =>
          /\ Served(see, beat) # None /\ Sound(Memory, Served(see, beat), see.w)
          /\ FirstOr(see, beat, wt) = Served(see, beat)
    BY <1>2 DEF HitNow, FirstOr
  <2>4. CASE Waits(see, beat, wt)
    <3>1. /\ cache'.burst = cache.burst
          /\ cache'.answer = IF HitNow(see, beat, wt) THEN Served(see, beat)
                             ELSE None
      BY <2>4 DEF Waits, Regs
    <3> QED
      BY <2>2, <2>3, <2>4, <3>1 DEF Waits, Filled, Answered
  <2>5. CASE TakesBeat(see, beat, wt)
    <3>1. cache'.burst = 0 /\ cache'.answer = FirstOr(see, beat, wt)
      BY <2>5 DEF TakesBeat, Regs
    <3> QED
      BY <2>2, <2>3, <2>5, <3>1 DEF TakesBeat, Answered
  <2>6. CASE RefillsAgain(see, beat, wt)
    <3>1. /\ cache'.burst = 1 /\ cache'.addr = see.w
          /\ cache'.answer = FirstOr(see, beat, wt)
          /\ cache'.m = Reading(see.w, LineSize)
      BY <2>6 DEF RefillsAgain, Regs
    <3>2. cache'.m.op = "read"
      BY <3>1, ReadingIs
    <3>3. burst' = <<>>
      BY <2>1, <2>6, LastBeat DEF RefillsAgain
    <3>4. FirstOr(see, beat, wt) = None
      BY <2>6 DEF RefillsAgain, FirstOr, HitNow
    <3> QED
      BY <3>1, <3>2, <3>3, <3>4 DEF Fetched
  <2>7. CASE Fulfils(see, beat, wt)
    <3>1. cache'.burst = 0 /\ cache'.answer = FirstOr(see, beat, wt)
      BY <2>7 DEF Fulfils, Regs
    <3>2. HitNow(see, beat, wt)
      BY <2>7 DEF Fulfils, HitNow
    <3> QED
      BY <2>3, <3>1, <3>2 DEF Answered
  <2> QED
    BY <2>1, <2>4, <2>5, <2>6, <2>7
<1> QED
  BY <1>3, <1>4 DEF Serves, CacheStep

(* Without one, no line is asked for that somebody waits for; and who      *)
(* waits for the first word of a line gets it when it comes.               *)
LEMMA NothingAccepted ==
  ASSUME NEW see, NEW beat, NEW wt, Serves(see, beat, wt),
         ~(Accepts(see, beat, wt) /\ see.op = "read")
  PROVE  /\ cache.burst = 0 => cache'.burst = 0
         /\ cache.burst = 1 =>
              \/ /\ cache'.burst = 1 /\ cache'.answer = None
                 /\ cache'.addr = cache.addr /\ beat = None
              \/ cache'.burst = 0 /\ cache'.answer = beat /\ beat # None
<1>1. cache \in CacheRegs /\ wt \in BOOLEAN
  BY DEF Serves, HyperInv, HyperType
<1>2. CASE CacheIdle(see, beat, wt)
  <2>1. /\ cache.state = "IDLE"
        /\ \/ Unaccepted(see, beat, wt) \/ TakesWrite(see, beat, wt)
           \/ Hits(see, beat, wt) \/ HitsHalf(see, beat, wt)
           \/ Misses(see, beat, wt)
    BY <1>1, <1>2, CacheIdles
  <2>2. Unaccepted(see, beat, wt) \/ TakesWrite(see, beat, wt)
    BY <2>1 DEF Hits, HitsHalf, Misses
  <2>3. cache'.burst = cache.burst
    BY <2>2 DEF Unaccepted, TakesWrite, Regs
  <2> QED
    BY <2>1, <2>3, ServeFacts
<1>3. CASE CacheReading(see, beat, wt)
  <2>1. /\ cache.state = "READING"
        /\ \/ Waits(see, beat, wt) \/ TakesBeat(see, beat, wt)
           \/ RefillsAgain(see, beat, wt) \/ Fulfils(see, beat, wt)
    BY <1>1, <1>3, CacheReads
  <2>2. ~Accepts(see, beat, wt)
    BY <2>1, FillExecutes
  <2>3. ~HitNow(see, beat, wt)
    BY <2>2 DEF HitNow
  <2>4. CASE Waits(see, beat, wt)
    <3>1. /\ cache'.burst = cache.burst /\ cache'.addr = cache.addr
          /\ cache'.answer = None /\ beat = None
      BY <2>3, <2>4 DEF Waits, Regs
    <3> QED
      BY <3>1
  <2>5. CASE TakesBeat(see, beat, wt)
    <3>1. cache'.burst = 0 /\ cache'.answer = FirstOr(see, beat, wt) /\ beat # None
      BY <2>5 DEF TakesBeat, Regs
    <3> QED
      BY <2>3, <3>1 DEF FirstOr
  <2>6. CASE RefillsAgain(see, beat, wt)
    BY <2>2, <2>6 DEF RefillsAgain
  <2>7. CASE Fulfils(see, beat, wt)
    <3>1. cache'.burst = 0 /\ cache.count = LineSize - 1
      BY <2>7 DEF Fulfils, Regs, Filled
    <3>2. cache.burst # 1
      BY <3>1, ServeFacts, LineFacts
    <3> QED
      BY <3>1, <3>2
  <2> QED
    BY <2>1, <2>4, <2>5, <2>6, <2>7
<1> QED
  BY <1>2, <1>3 DEF Serves, CacheStep

-----------------------------------------------------------------------------
(* A clock of the HyperRAM: in its reset, without the cache, with it.      *)

Ticks(cmd, beat, wt) ==
  /\ HyperInv /\ HyperTick(cmd, beat, wt) /\ wt \in BOOLEAN
  /\ cmd \in Through(wr, NoWord) /\ beat \in Through(burst, None)

LEMMA TickInputs ==
  ASSUME NEW cmd, NEW beat, NEW wt, Ticks(cmd, beat, wt)
  PROVE  /\ cmd \in RamCommands \cup {NoWord}
         /\ Offered(cmd) => cmd \in RamCommands /\ wr # <<>> /\ cmd = Head(wr)
         /\ Beaten(beat) /\ (beat # None => ~resets.hr)
         /\ wt \in BOOLEAN /\ HyperType
<1>1. wr \in Seq(RamCommands) /\ burst \in Seq(Words) /\ wt \in BOOLEAN /\ HyperType
  BY DEF Ticks, HyperInv, HyperType
<1>2. cmd # NoWord => wr # <<>> /\ cmd = Head(wr)
  BY DEF Ticks, HyperTick
<1>3. wr # <<>> => Head(wr) \in RamCommands
  BY <1>1, HeadTailProperties
<1>4. beat # None => burst # <<>> /\ beat = Head(burst) /\ ~resets.hr
  BY DEF Ticks, HyperTick
<1>5. burst # <<>> => Head(burst) \in Words
  BY <1>1, HeadTailProperties
<1> QED
  BY <1>1, <1>2, <1>3, <1>4, <1>5, NoWordIs DEF Beaten

LEMMA HyperResets ==
  ASSUME NEW cmd, NEW beat, NEW wt, Ticks(cmd, beat, wt), resets.hr
  PROVE  /\ HyperInv'
         /\ cache' = Empty /\ ~c_pending' /\ burst' = <<>> /\ hyper' = hyper
         /\ rd' \in {rd, <<>>}
         /\ wr' = wr \/ (wr # <<>> /\ wr' = Tail(wr))
<1>1. /\ cache' = Empty /\ ~c_pending' /\ burst' = <<>> /\ hyper' = hyper
      /\ rd' \in {rd, <<>>}
      /\ wr' = IF Offered(cmd) /\ ~m_waitrequest(cmd, beat, wt) THEN Tail(wr) ELSE wr
      /\ c_pending' \in BOOLEAN
      /\ config' = config /\ resets' = [resets EXCEPT !.seen = resets.hr]
  BY DEF Ticks, HyperTick, Pending, CacheReset, Execute
<1>2. wr' = wr \/ (wr # <<>> /\ wr' = Tail(wr))
  BY <1>1, TickInputs
<1>3. wr' \in Seq(RamCommands) /\ rd' \in Seq(Words) /\ burst' \in Seq(Words)
  <2>1. wr \in Seq(RamCommands) /\ rd \in Seq(Words)
    BY DEF Ticks, HyperInv, HyperType
  <2> QED
    BY <1>1, <1>2, <2>1, HeadTailProperties, EmptySeq
<1>4. resets' \in [cold : BOOLEAN, hr : BOOLEAN, meta : BOOLEAN, sync : BOOLEAN,
                   seen : BOOLEAN]
  BY <1>1, TickInputs DEF HyperType
<1>5. HyperType'
  BY <1>1, <1>3, <1>4, TickInputs, EmptyIs DEF HyperType
<1>6. CacheInv'
  BY <1>1, EmptyIs, NoWordIs DEF CacheInv, CacheState, Awaited
<1>7. LineCurrent'
  BY <1>1, EmptyIs DEF LineCurrent
<1> QED
  BY <1>1, <1>2, <1>5, <1>6, <1>7 DEF HyperInv

(* Without the reset: a word goes into the FIFO of the answers or not, a   *)
(* command is taken from the other FIFO or not.                            *)
Took(cmd, beat, wt) == Offered(cmd) /\ ~m_waitrequest(cmd, beat, wt)
TookA(op, cmd, beat, wt) == Took(cmd, beat, wt) /\ cmd.op = op

LEMMA FifosMove ==
  ASSUME NEW cmd, NEW beat, NEW wt, Ticks(cmd, beat, wt), ~resets.hr
  PROVE  /\ Took(cmd, beat, wt) =>
              cmd \in RamCommands /\ wr # <<>> /\ cmd = Head(wr) /\ wr' = Tail(wr)
         /\ ~Took(cmd, beat, wt) => wr' = wr
         /\ Answer(beat) = None => rd' = rd
         /\ Answer(beat) # None => rd' = Append(rd, Answer(beat))
         /\ wr' \in Seq(RamCommands) /\ config' = config /\ cached' = cached
         /\ resets' = [resets EXCEPT !.seen = FALSE]
         /\ resets' \in [cold : BOOLEAN, hr : BOOLEAN, meta : BOOLEAN,
                         sync : BOOLEAN, seen : BOOLEAN]
<1>1. /\ wr' = IF Took(cmd, beat, wt) THEN Tail(wr) ELSE wr
      /\ rd' = IF Answer(beat) = None THEN rd ELSE Append(rd, Answer(beat))
      /\ config' = config /\ resets' = [resets EXCEPT !.seen = FALSE]
  BY DEF Ticks, HyperTick, Took, HyperType, HyperInv
<1>2. Took(cmd, beat, wt) => cmd \in RamCommands /\ wr # <<>> /\ cmd = Head(wr)
  BY TickInputs DEF Took
<1>3. wr' \in Seq(RamCommands)
  <2>1. wr \in Seq(RamCommands)
    BY DEF Ticks, HyperInv, HyperType
  <2> QED
    BY <1>1, <1>2, <2>1, HeadTailProperties
<1>4. resets' \in [cold : BOOLEAN, hr : BOOLEAN, meta : BOOLEAN, sync : BOOLEAN,
                   seen : BOOLEAN]
  BY <1>1, TickInputs DEF HyperType
<1> QED
  BY <1>1, <1>2, <1>3, <1>4 DEF cached

(* Without the cache.                                                      *)
LEMMA UncachedTick ==
  ASSUME NEW cmd, NEW beat, NEW wt, Ticks(cmd, beat, wt), ~resets.hr, ~cached
  PROVE  /\ cache = Empty /\ cache' = Empty /\ ~c_pending /\ ~c_pending'
         /\ c_pending' \in BOOLEAN
         /\ Answer(beat) = beat /\ (Took(cmd, beat, wt) <=> Offered(cmd) /\ ~wt)
         /\ Memory = hyper /\ Memory' = hyper'
         /\ hyper' \in [Ram -> Byte]
         /\ TookA("write", cmd, beat, wt) =>
              hyper' = [hyper EXCEPT ![2 * cmd.w + cmd.lane] = cmd.d]
         /\ ~TookA("write", cmd, beat, wt) => hyper' = hyper
         /\ TookA("read", cmd, beat, wt) =>
              burst' = Append(Sending(beat), Contents(cmd.w))
         /\ ~TookA("read", cmd, beat, wt) => burst' = Sending(beat)
<1>1. cache = Empty /\ ~c_pending
  BY DEF Ticks, HyperInv, CacheInv
<1>2. /\ cache' = cache /\ Execute(cmd, beat, wt)
      /\ ~c_pending' /\ c_pending' \in BOOLEAN
  BY DEF Ticks, HyperTick, Pending
<1>3. Answer(beat) = beat /\ (Took(cmd, beat, wt) <=> Offered(cmd) /\ ~wt)
  BY DEF Answer, Took, m_waitrequest
<1>4. hyper \in [Ram -> Byte] /\ wt \in BOOLEAN
  BY DEF Ticks, HyperInv, HyperType
<1>5. cmd \in RamCommands \cup {NoWord}
  BY TickInputs
<1>6. /\ cmd.op \in {"none", "read", "write"} /\ (cmd.op = "none" <=> ~Offered(cmd))
      /\ cmd.op # "none" => /\ 2 * cmd.w + cmd.lane \in Ram /\ cmd.d \in Byte
                            /\ cmd.len = 1 /\ cmd.w \in Nat
  BY <1>5, CommandIs, NoWordIs DEF Offered
<1>7. /\ TookA("write", cmd, beat, wt) =>
           hyper' = [hyper EXCEPT ![2 * cmd.w + cmd.lane] = cmd.d]
      /\ ~TookA("write", cmd, beat, wt) => hyper' = hyper
      /\ ~TookA("read", cmd, beat, wt) => burst' = Sending(beat)
      /\ TookA("read", cmd, beat, wt) => burst' = Sending(beat) \o Asked(cmd)
  BY <1>2, <1>3, <1>4, <1>6, Executes DEF TookA
<1>8. hyper' \in [Ram -> Byte]
  BY <1>4, <1>6, <1>7 DEF TookA, Took
<1>9. cache.m.op = "none" /\ cache'.m.op = "none"
  BY <1>1, <1>2, EmptyIs, NoWordIs
<1>10. Memory = hyper
  <2>1. \A a \in Ram : Written(a) = hyper[a]
    BY <1>9 DEF Written
  <2> QED
    BY <1>4, <2>1 DEF Memory
<1>11. Memory' = hyper'
  <2>1. \A a \in Ram : Written(a)' = hyper'[a]
    BY <1>9 DEF Written
  <2> QED
    BY <1>8, <2>1 DEF Memory
<1>12. TookA("read", cmd, beat, wt) =>
         burst' = Append(Sending(beat), Contents(cmd.w))
  <2> SUFFICES ASSUME TookA("read", cmd, beat, wt)
               PROVE  burst' = Append(Sending(beat), Contents(cmd.w))
    OBVIOUS
  <2>1. cmd.len = 1 /\ cmd.w \in Nat
    BY <1>6 DEF TookA
  <2>2. Contents(cmd.w) \in Words
    BY <1>4, <2>1, ContentsIs
  <2>3. Asked(cmd) = <<Contents(cmd.w)>>
    <3>1. cmd.w + 1 - 1 = cmd.w
      BY <2>1
    <3>2. Asked(cmd) \in [1 .. 1 -> Words] /\ Asked(cmd)[1] = Contents(cmd.w)
      BY <2>1, <2>2, <3>1 DEF Asked
    <3>3. Asked(cmd) \in Seq(Words) /\ Len(Asked(cmd)) = 1
      BY <3>2, IsSeq
    <3>4. <<Contents(cmd.w)>> \in Seq(Words) /\ Len(<<Contents(cmd.w)>>) = 1
      BY <2>2
    <3> QED
      BY <3>2, <3>3, <3>4, SeqEqual
  <2>4. Sending(beat) \in Seq(Words)
    BY TickInputs, SendingIs DEF HyperType
  <2> QED
    BY <1>7, <2>2, <2>3, <2>4, AppendIsConcat
<1> QED
  BY <1>1, <1>2, <1>3, <1>7, <1>8, <1>10, <1>11, <1>12

(* With the cache: it sees one read at a time.                             *)
LEMMA CachedTick ==
  ASSUME NEW cmd, NEW beat, NEW wt, Ticks(cmd, beat, wt), ~resets.hr, cached
  PROVE  /\ Serves(CacheSees(cmd), beat, wt)
         /\ Took(cmd, beat, wt) <=> Accepts(CacheSees(cmd), beat, wt)
         /\ Took(cmd, beat, wt) => CacheSees(cmd) = cmd
         /\ TookA("read", cmd, beat, wt) => ~c_pending
         /\ c_pending' <=> \/ TookA("read", cmd, beat, wt)
                           \/ c_pending /\ cache.answer = None
         /\ c_pending' \in BOOLEAN
         /\ Answer(beat) = IF c_pending THEN cache.answer ELSE None
<1> DEFINE see == CacheSees(cmd)
<1>1. cmd \in RamCommands \cup {NoWord} /\ Beaten(beat) /\ wt \in BOOLEAN
  BY TickInputs
<1>2. see \in RamCommands \cup {NoWord}
  BY <1>1 DEF CacheSees
<1>3. CacheStep(see, beat, wt) /\ Execute(cache.m, beat, wt) /\ config' = config
  BY DEF Ticks, HyperTick
<1>4. Serves(see, beat, wt)
  BY <1>1, <1>2, <1>3 DEF Serves, Ticks
<1>5. /\ ReadGated(cmd) => see = NoWord /\ ~Took(cmd, beat, wt)
      /\ ~ReadGated(cmd) =>
           see = cmd /\ (Took(cmd, beat, wt) <=> Accepts(cmd, beat, wt))
  BY DEF CacheSees, Took, m_waitrequest, Accepts
<1>6. ~Accepts(NoWord, beat, wt)
  BY NoWordIs DEF Accepts
<1>7. TookA("read", cmd, beat, wt) => ~c_pending
  BY <1>5 DEF TookA, ReadGated
<1>8. Answer(beat) = IF c_pending THEN cache.answer ELSE None
  BY DEF Answer
<1>9. c_pending' = (\/ see.op = "read" /\ ~s_waitrequest(cmd, beat, wt)
                    \/ c_pending /\ Answer(beat) = None)
  BY DEF Ticks, HyperTick, Pending
<1>10. see.op = "read" /\ ~s_waitrequest(cmd, beat, wt) <=>
         TookA("read", cmd, beat, wt)
  <2>1. NoWord.op # "read"
    BY NoWordIs
  <2>2. CASE ReadGated(cmd)
    BY <1>5, <2>1, <2>2 DEF TookA
  <2>3. CASE ~ReadGated(cmd)
    BY <1>5, <2>3 DEF TookA, Accepts, Offered
  <2> QED
    BY <2>2, <2>3
<1> HIDE DEF see
<1> QED
  BY <1>4, <1>5, <1>6, <1>7, <1>8, <1>9, <1>10 DEF see

LEMMA AnswerTyped ==
  ASSUME NEW cmd, NEW beat, NEW wt, Ticks(cmd, beat, wt), ~resets.hr,
         Answer(beat) \in Words \cup {None}
  PROVE  rd' \in Seq(Words)
<1>1. rd \in Seq(Words)
  BY TickInputs DEF HyperType
<1>2. CASE Answer(beat) = None
  BY <1>1, <1>2, FifosMove
<1>3. CASE Answer(beat) # None
  <2>1. rd' = Append(rd, Answer(beat)) /\ Answer(beat) \in Words
    BY <1>3, FifosMove
  <2> HIDE <1>3
  <2> QED
    BY <1>1, <2>1, AppendProperties
<1> QED
  BY <1>2, <1>3

LEMMA HyperKeeps ==
  ASSUME NEW cmd, NEW beat, NEW wt, Ticks(cmd, beat, wt)
  PROVE  HyperInv'
<1>1. CASE resets.hr
  BY <1>1, HyperResets
<1>2. CASE ~resets.hr /\ ~cached
  <2>1. rd \in Seq(Words) /\ config \in [cache : BOOLEAN, bist : BOOLEAN]
    BY TickInputs DEF HyperType
  <2>2. beat \in Words \cup {None} /\ Sending(beat) \in Seq(Words)
    BY TickInputs, SendingIs DEF HyperType, Beaten
  <2>3. rd' \in Seq(Words)
    BY <1>2, <2>2, UncachedTick, AnswerTyped
  <2>4. burst' \in Seq(Words)
    <3>1. TookA("read", cmd, beat, wt) => Contents(cmd.w) \in Words
      BY <1>2, FifosMove, CommandIs, ContentsIs, TickInputs DEF TookA, HyperType
    <3>2. CASE TookA("read", cmd, beat, wt)
      <4>1. burst' = Append(Sending(beat), Contents(cmd.w))
        BY <1>2, <3>2, UncachedTick
      <4> QED
        BY <2>2, <3>1, <3>2, <4>1, AppendProperties
    <3>3. CASE ~TookA("read", cmd, beat, wt)
      BY <1>2, <2>2, <3>3, UncachedTick
    <3> QED
      BY <3>2, <3>3
  <2>5. HyperType'
    BY <1>2, <2>1, <2>3, <2>4, FifosMove, UncachedTick, EmptyIs DEF HyperType
  <2>6. CacheInv'
    BY <1>2, UncachedTick, FifosMove, EmptyIs, NoWordIs
       DEF CacheInv, CacheState, Awaited
  <2>7. LineCurrent'
    BY <1>2, UncachedTick, EmptyIs DEF LineCurrent
  <2> QED
    BY <2>5, <2>6, <2>7 DEF HyperInv
<1>3. CASE ~resets.hr /\ cached
  <2> DEFINE see == CacheSees(cmd)
  <2>1. Serves(see, beat, wt)
    BY <1>3, CachedTick
  <2> HIDE DEF see
  <2>2. CacheGood'
    BY <2>1, CacheKeepsGood
  <2>3. cache.state \in {"IDLE", "READING"} /\ cache.answer \in Words \cup {None}
    BY <2>1, ServeFacts
  <2>4. hyper' \in [Ram -> Byte] /\ burst' \in Seq(Words)
    <3>1. CASE cache.state = "IDLE"
      <4>1. burst' = <<>> /\ hyper' \in [Ram -> Byte]
        BY <2>1, <3>1, IdleExecutes
      <4> QED
        BY <4>1, EmptySeq
    <3>2. CASE cache.state = "READING"
      <4>1. burst' \in Seq(Words) /\ hyper' = hyper
        BY <2>1, <3>2, FillExecutes
      <4> QED
        BY <4>1, TickInputs DEF HyperType
    <3> QED
      BY <2>3, <3>1, <3>2
  <2>5. rd' \in Seq(Words)
    <3>1. Answer(beat) \in Words \cup {None}
      BY <1>3, <2>3, CachedTick
    <3> QED
      BY <1>3, <3>1, AnswerTyped
  <2>6. HyperType'
    <3>1. config \in [cache : BOOLEAN, bist : BOOLEAN]
      BY TickInputs DEF HyperType
    <3>2. c_pending' \in BOOLEAN
      BY <1>3, CachedTick
    <3> QED
      BY <1>3, <2>2, <2>4, <2>5, <3>1, <3>2, FifosMove DEF HyperType, CacheGood
  <2>7. Awaited'
    <3>1. Awaited /\ cache.burst \in 0 .. 1
      BY <2>1, ServeFacts DEF HyperInv, CacheInv
    <3>2. CASE TookA("read", cmd, beat, wt)
      <4>1. ~c_pending /\ c_pending' /\ see = cmd /\ cmd.op = "read"
        BY <1>3, <3>2, CachedTick DEF TookA, see
      <4>2. cache.burst = 0 /\ Accepts(see, beat, wt)
        BY <1>3, <3>1, <3>2, <4>1, CachedTick DEF TookA, Awaited, see
      <4> QED
        BY <2>1, <4>1, <4>2, ReadAccepted DEF Awaited, Fetched, Answered
    <3>3. CASE ~TookA("read", cmd, beat, wt)
      <4>1. ~(Accepts(see, beat, wt) /\ see.op = "read")
        BY <1>3, <3>3, CachedTick DEF TookA, see
      <4>2. c_pending' <=> c_pending /\ cache.answer = None
        BY <1>3, <3>3, CachedTick
      <4>3. /\ cache.burst = 0 => cache'.burst = 0
            /\ cache.burst = 1 =>
                 \/ /\ cache'.burst = 1 /\ cache'.answer = None
                    /\ cache'.addr = cache.addr /\ beat = None
                 \/ cache'.burst = 0 /\ cache'.answer = beat /\ beat # None
        BY <2>1, <4>1, NothingAccepted
      <4> QED
        BY <3>1, <4>2, <4>3 DEF Awaited
    <3> QED
      BY <3>2, <3>3
  <2> QED
    BY <1>3, <2>2, <2>6, <2>7, FifosMove DEF HyperInv, CacheInv, CacheGood
<1> QED
  BY <1>1, <1>2, <1>3

-----------------------------------------------------------------------------
(* What the FIFOs see of the HyperRAM's side, with or without the cache: a *)
(* memory that does the commands one by one in their order and a queue of  *)
(* words, each of them what the memory held when its read was taken.       *)

LEMMA SentTyped == HyperInv => Sent \in Seq(Words)
<1> SUFFICES ASSUME HyperInv PROVE Sent \in Seq(Words)
  OBVIOUS
<1>1. burst \in Seq(Words) /\ cache \in CacheRegs /\ hyper \in [Ram -> Byte]
  BY DEF HyperInv, HyperType
<1>2. SentWord \in Words
  <2>1. cache.answer \in Words \cup {None} /\ Contents(cache.addr) \in Words
    BY <1>1, ContentsIs DEF CacheRegs
  <2>2. burst # <<>> => burst[1] \in Words
    BY <1>1, HeadTailProperties
  <2> QED
    BY <2>1, <2>2 DEF SentWord
<1>3. <<SentWord>> \in Seq(Words) /\ <<>> \in Seq(Words)
  BY <1>2
<1> QED
  BY <1>1, <1>3 DEF Sent

LEMMA MemoryMoves ==
  ASSUME NEW cmd, NEW beat, NEW wt, Ticks(cmd, beat, wt), ~resets.hr
  PROVE  /\ TookA("write", cmd, beat, wt) => StoresByte(cmd)
         /\ ~TookA("write", cmd, beat, wt) => Memory' = Memory
<1>1. CASE cached
  <2> DEFINE see == CacheSees(cmd)
  <2>1. /\ Serves(see, beat, wt)
        /\ Took(cmd, beat, wt) <=> Accepts(see, beat, wt)
        /\ Took(cmd, beat, wt) => see = cmd
    BY <1>1, CachedTick
  <2> HIDE DEF see
  <2> QED
    BY <2>1, CacheKeepsGood DEF TookA, Unwritten
<1>2. CASE ~cached
  BY <1>2, UncachedTick DEF StoresByte
<1> QED
  BY <1>1, <1>2

Gone(beat) == IF Answer(beat) = None THEN 0 ELSE 1
Came(cmd, beat, wt) == IF TookA("read", cmd, beat, wt) THEN 1 ELSE 0

(* The queue moves on.                                                     *)
Queued(cmd, beat, wt) ==
  /\ Len(Sent) >= Gone(beat)
  /\ Answer(beat) # None => Answer(beat) = Sent[1]
  /\ Len(Sent') = Len(Sent) - Gone(beat) + Came(cmd, beat, wt)
  /\ \A j \in 1 .. Len(Sent) - Gone(beat) : Sent'[j] = Sent[j + Gone(beat)]
  /\ TookA("read", cmd, beat, wt) => Sound(Memory, Sent'[Len(Sent')], cmd.w)

LEMMA UncachedSent ==
  ASSUME NEW cmd, NEW beat, NEW wt, Ticks(cmd, beat, wt), ~resets.hr, ~cached
  PROVE  Queued(cmd, beat, wt)
<1>1. Sent = burst /\ Sent' = burst' /\ Answer(beat) = beat
  BY UncachedTick, FifosMove DEF Sent
<1>2. /\ burst \in Seq(Words) /\ Len(burst) \in Nat /\ Beaten(beat)
      /\ hyper \in [Ram -> Byte]
  BY TickInputs, LenProperties DEF HyperType
<1>3. /\ Sending(beat) \in Seq(Words)
      /\ Len(Sending(beat)) = Len(burst) - Gone(beat)
      /\ Len(burst) >= Gone(beat)
      /\ \A j \in 1 .. Len(Sending(beat)) : Sending(beat)[j] = burst[j + Gone(beat)]
  BY <1>1, <1>2, SendingIs DEF Gone
<1>4. Answer(beat) # None => Answer(beat) = Sent[1]
  BY <1>1, <1>2 DEF Beaten
<1>5. CASE ~TookA("read", cmd, beat, wt)
  <2>1. burst' = Sending(beat)
    BY <1>5, UncachedTick
  <2>2. Len(burst') = Len(burst) - Gone(beat) + 0
    BY <1>2, <1>3, <2>1 DEF Gone
  <2> QED
    BY <1>1, <1>3, <1>4, <1>5, <2>1, <2>2 DEF Queued, Came
<1>6. CASE TookA("read", cmd, beat, wt)
  <2>1. burst' = Append(Sending(beat), Contents(cmd.w))
    BY <1>6, UncachedTick
  <2>2. cmd.w \in Nat
    BY <1>6, FifosMove, CommandIs DEF TookA
  <2>3. Sound(Memory, Contents(cmd.w), cmd.w)
    BY <1>2, <2>2, ContentsIs, UncachedTick DEF Sound
  <2>4. Contents(cmd.w) \in Words
    BY <2>3 DEF Sound
  <2>5. /\ Len(burst') = Len(Sending(beat)) + 1
        /\ \A j \in 1 .. Len(Sending(beat)) : burst'[j] = Sending(beat)[j]
        /\ burst'[Len(Sending(beat)) + 1] = Contents(cmd.w)
    BY <1>3, <2>1, <2>4, AppendProperties
  <2>6. Sound(Memory, burst'[Len(burst')], cmd.w)
    BY <2>3, <2>5
  <2> QED
    BY <1>1, <1>3, <1>4, <1>6, <2>5, <2>6 DEF Queued, Came
<1> QED
  BY <1>5, <1>6

(* A line that is asked for brings its first word, sooner or later.        *)
LEMMA FirstWord ==
  HyperInv /\ cached /\ cache.burst = 1 =>
    SentWord = Contents(cache.addr) \/ cache.answer # None
<1> SUFFICES ASSUME HyperInv, cached, cache.burst = 1
             PROVE  SentWord = Contents(cache.addr) \/ cache.answer # None
  OBVIOUS
<1>1. /\ Fills /\ cache.count = 0 /\ cache.addr \in Nat
      /\ cache.m.op \in {"none", "read", "write"} /\ burst \in Seq(Words)
  BY DEF HyperInv, HyperType, CacheInv, CacheState, CacheRegs, Slots
<1>2. CASE burst = <<>>
  BY <1>2 DEF SentWord
<1>3. CASE burst # <<>>
  <2>1. 1 \in 1 .. Len(burst)
    BY <1>1, <1>3, EmptySeq
  <2>2. burst[1] = Contents(cache.addr + 0 + 1 - 1)
    BY <1>1, <1>3, <2>1 DEF Fills
  <2>3. cache.addr + 0 + 1 - 1 = cache.addr
    BY <1>1
  <2> QED
    BY <1>3, <2>2, <2>3 DEF SentWord
<1> QED
  BY <1>2, <1>3

LEMMA CachedSent ==
  ASSUME NEW cmd, NEW beat, NEW wt, Ticks(cmd, beat, wt), ~resets.hr, cached
  PROVE  Queued(cmd, beat, wt)
<1> DEFINE see == CacheSees(cmd)
<1>1. /\ Serves(see, beat, wt)
      /\ Took(cmd, beat, wt) <=> Accepts(see, beat, wt)
      /\ Took(cmd, beat, wt) => see = cmd
      /\ TookA("read", cmd, beat, wt) => ~c_pending
      /\ c_pending' <=> \/ TookA("read", cmd, beat, wt)
                        \/ c_pending /\ cache.answer = None
      /\ Answer(beat) = IF c_pending THEN cache.answer ELSE None
  BY CachedTick
<1> HIDE DEF see
<1>2. cached' /\ HyperInv' /\ HyperInv
  BY FifosMove, HyperKeeps DEF Ticks
<1>3. cache.burst = 1 <=> c_pending /\ cache.answer = None
  BY <1>2 DEF HyperInv, CacheInv, Awaited
<1>4. /\ Sent = IF c_pending THEN <<SentWord>> ELSE <<>>
      /\ Sent' = IF c_pending' THEN <<SentWord'>> ELSE <<>>
  BY <1>2 DEF Sent
<1>5. CASE c_pending /\ cache.answer # None
  <2>1. Sent = <<cache.answer>> /\ Answer(beat) = cache.answer /\ Sent' = <<>>
    BY <1>1, <1>4, <1>5 DEF SentWord
  <2>2. Gone(beat) = 1 /\ Came(cmd, beat, wt) = 0
    BY <1>1, <1>5, <2>1 DEF Gone, Came
  <2> QED
    BY <1>1, <1>5, <2>1, <2>2 DEF Queued
<1>6. CASE c_pending /\ cache.answer = None
  <2>1. cache.burst = 1 /\ cache.state = "READING" /\ cache.count = 0 /\ Fills
    BY <1>2, <1>3, <1>6 DEF HyperInv, CacheInv, CacheState
  <2>2. Answer(beat) = None /\ c_pending' /\ ~TookA("read", cmd, beat, wt)
    BY <1>1, <1>6
  <2>3. ~(Accepts(see, beat, wt) /\ see.op = "read")
    BY <1>1, <2>2 DEF TookA
  <2>4. \/ /\ cache'.burst = 1 /\ cache'.answer = None
           /\ cache'.addr = cache.addr /\ beat = None
        \/ cache'.burst = 0 /\ cache'.answer = beat /\ beat # None
    BY <1>1, <2>1, <2>3, NothingAccepted
  <2>5. SentWord = Contents(cache.addr)
    BY <1>2, <1>6, <2>1, FirstWord
  <2>6. SentWord' = SentWord
    <3>1. hyper' = hyper
      BY <1>1, <2>1, FillExecutes
    <3>2. CASE beat = None
      <4>1. (HyperInv /\ cached /\ cache.burst = 1 =>
               SentWord = Contents(cache.addr) \/ cache.answer # None)'
        BY FirstWord, PTL
      <4>2. Contents(cache.addr)' = Contents(cache.addr)
        BY <2>4, <3>1, <3>2 DEF Contents
      <4> QED
        BY <1>2, <2>4, <2>5, <3>2, <4>1, <4>2
    <3>3. CASE beat # None
      <4>1. beat = burst[1] /\ burst # <<>>
        BY <3>3, TickInputs, HeadTailProperties DEF Beaten, HyperType
      <4>2. SentWord = beat
        BY <1>6, <4>1 DEF SentWord
      <4>3. SentWord' = beat
        BY <2>4, <3>3 DEF SentWord
      <4> QED
        BY <4>2, <4>3
    <3> QED
      BY <3>2, <3>3
  <2>7. Sent = <<SentWord>> /\ Sent' = <<SentWord>>
    BY <1>4, <1>6, <2>2, <2>6
  <2>8. Gone(beat) = 0 /\ Came(cmd, beat, wt) = 0
    BY <2>2 DEF Gone, Came
  <2> QED
    BY <2>2, <2>7, <2>8 DEF Queued
<1>7. CASE ~c_pending
  <2>1. Answer(beat) = None /\ Sent = <<>> /\ Gone(beat) = 0
    BY <1>1, <1>4, <1>7 DEF Gone
  <2>2. CASE ~TookA("read", cmd, beat, wt)
    <3>1. Sent' = <<>> /\ Came(cmd, beat, wt) = 0
      BY <1>1, <1>4, <1>7, <2>2 DEF Came
    <3> QED
      BY <2>1, <2>2, <3>1 DEF Queued
  <2>3. CASE TookA("read", cmd, beat, wt)
    <3>1. Sent' = <<SentWord'>> /\ Came(cmd, beat, wt) = 1
      BY <1>1, <1>4, <2>3 DEF Came
    <3>2. see = cmd /\ cmd.op = "read" /\ Accepts(see, beat, wt) /\ cmd.w \in Nat
      BY <1>1, <2>3, FifosMove, CommandIs DEF TookA
    <3>3. cache.burst = 0
      BY <1>1, <1>3, <1>7, ServeFacts
    <3>4. Fetched(see) \/ Answered(see)
      BY <1>1, <3>2, <3>3, ReadAccepted
    <3>5. Sound(Memory, SentWord', cmd.w)
      <4>1. CASE Answered(see)
        BY <3>2, <4>1 DEF Answered, SentWord
      <4>2. CASE Fetched(see)
        <5>1. SentWord' = Contents(cmd.w)'
          BY <3>2, <4>2 DEF Fetched, SentWord, Contents
        <5>2. Memory' = Memory
          BY <3>2, MemoryMoves DEF TookA
        <5>3. hyper' \in [Ram -> Byte]
          BY <1>2 DEF HyperInv, HyperType
        <5>4. \A a \in Ram : Memory'[a] = hyper'[a]
          BY <4>2 DEF Fetched, Memory, Written
        <5>5. /\ SentWord' \in Words
              /\ \A lane \in Lanes : 2 * cmd.w + lane \in Ram =>
                   SentWord'[lane] = hyper'[2 * cmd.w + lane]
          BY <3>2, <5>1, <5>3, BackendAssumption DEF Contents, Words
        <5> QED
          BY <5>2, <5>4, <5>5 DEF Sound
      <4> QED
        BY <3>4, <4>1, <4>2
    <3> QED
      BY <2>1, <2>3, <3>1, <3>5 DEF Queued
  <2> QED
    BY <2>2, <2>3
<1> QED
  BY <1>5, <1>6, <1>7

LEMMA SentMoves ==
  ASSUME NEW cmd, NEW beat, NEW wt, Ticks(cmd, beat, wt), ~resets.hr
  PROVE  Queued(cmd, beat, wt) /\ Sent \in Seq(Words) /\ Sent' \in Seq(Words)
<1>1. Sent \in Seq(Words)
  BY SentTyped DEF Ticks
<1>2. (HyperInv => Sent \in Seq(Words))'
  BY SentTyped, PTL
<1> QED
  BY <1>1, <1>2, HyperKeeps, UncachedSent, CachedSent

=============================================================================
