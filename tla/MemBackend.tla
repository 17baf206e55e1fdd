----------------------------- MODULE MemBackend -----------------------------
(***************************************************************************)
(* mem_backend.vhd: the byte bus of the chipset on one side, the HyperRAM  *)
(* on the other, each in a clock domain of its own, FIFOs between them and *)
(* optionally the read cache in front of the HyperRAM; the flush of the    *)
(* reads a reset killed, and the self test after it.  The chipset's        *)
(* controller and the HyperRAM are external: the first holds a request     *)
(* until it is taken and has at most MaxOwed reads outstanding, the second *)
(* executes commands in order and forgets them in a reset.                 *)
(***************************************************************************)
EXTENDS AvmCache

CONSTANTS
  Addr, Block, ReadOnly, RomByte, Dummy, Unknown,   \* as in ByteBus
  Stores,         \* the bytes the controller writes: <<address, byte>>
  SelfTest,       \* the bytes the self test writes and reads back, in order
  Configs,        \* values of the generics: G_CACHE, G_BIST
  FifoDepth,      \* of the command FIFO
  MaxOwed,        \* reads outstanding
  MaxResets       \* bound on the presses of the reset button

(* The windows of the memory map, values that are no bytes, stores of     *)
(* bytes; the self test writes every address once, and only HyperRAM.      *)
ASSUME BackendAssumption ==
  /\ Addr \subseteq Nat /\ Block \subseteq Addr /\ ReadOnly \subseteq Block
  /\ RomByte \in Byte /\ Dummy \notin Byte /\ Unknown \notin Byte
  /\ Dummy # Unknown /\ Dummy # None /\ Unknown # None
  /\ Stores \subseteq Addr \X Byte
  /\ SelfTest \in Seq((Addr \ Block) \X Byte) /\ SelfTest # <<>>
  /\ \A i, j \in 1 .. Len(SelfTest) : SelfTest[i][1] = SelfTest[j][1] => i = j
  /\ Configs \subseteq [cache : BOOLEAN, bist : BOOLEAN]
  /\ {FifoDepth, MaxOwed} \subseteq Nat \ {0} /\ MaxResets \in Nat

VARIABLES
  config,         \* the generics
  resets,         \* the cold reset, the framework's, its synchroniser, and
                  \* whether the other clock has ticked in it
  presses,
  req, issued,    \* the controller's request, its reads in this access
  block,          \* the block RAM
  romq,           \* rom_valid_q and its byte
  lanes,          \* out_lsb: which byte each outstanding read wants, newest first
  out_count,
  flush_valid,
  bist,           \* the self test's state, index and error count
  wr, rd,         \* the FIFOs: commands and words
  c_pending,
  hyper,          \* the HyperRAM's bytes
  burst,          \* the words it still has to send
  told, owed, last   \* history: what ByteBus promises
sideVars == <<cache, c_pending, hyper, burst>>
busVars == <<req, issued, block, romq, lanes, out_count, flush_valid, bist,
             told, owed, last>>
vars == <<config, resets, presses, wr, rd, sideVars, busVars>>

cached == config.cache
rst_all == resets.cold \/ resets.sync
bist_active == bist.state # "DONE"

Bus == INSTANCE ByteBus WITH held <- rst_all \/ bist_active

sel_rom(a) == a \in Block
(* Bug: the low byte of every word.                                        *)
LaneIgnored(a) == 0
Lane(a) == a % 2
Word(a) == a \div 2
Command(op, a, d) ==
  [op |-> op, w |-> Word(a), lane |-> Lane(a), d |-> d, len |-> 1]

(***************************************************************************)
(* The chipset's clock.                                                    *)
(***************************************************************************)
hyper_busy == out_count # 0
(* Bug: one command too many.                                              *)
FifoOverfull == Len(wr) > FifoDepth \/ rst_all
FifoFull == Len(wr) >= FifoDepth \/ rst_all

(* Whether the request is taken in this clock.                             *)
Taken ==
  /\ req.op # "none" /\ ~rst_all /\ ~bist_active
  /\ IF sel_rom(req.a) THEN ~hyper_busy ELSE ~FifoFull
TakenFor(op) == Taken /\ req.op = op

(* Bug: answers count in a reset, too.                                     *)
RealInReset(word) == word # None /\ ~bist_active
(* A word that comes out of the FIFO answers the oldest outstanding read,  *)
(* unless the self test takes it or a reset has given that read up.        *)
Real(word) == word # None /\ ~bist_active /\ ~rst_all

(* Bug: the reads a reset killed are not answered.                         *)
NeverFlushes(word) == FALSE
Flushes(word) == rst_all /\ out_count # 0 /\ ~Real(word)

(* Bug: the lane of the read before.                                       *)
Newest == 1
Oldest == out_count

Beat(word) ==
  IF romq # None THEN romq
  ELSE IF flush_valid THEN Dummy
  ELSE IF Real(word) THEN word[IF out_count > 0 THEN lanes[Oldest] ELSE 0]
  ELSE None

Outstanding(word) ==
  LET push == TakenFor("read") /\ ~sel_rom(req.a)
      pop  == Real(word) \/ Flushes(word)
  IN  /\ out_count' = out_count + (IF push THEN 1 ELSE 0)
                                - (IF pop THEN 1 ELSE 0)
      /\ lanes' = SubSeq(IF push THEN <<Lane(req.a)>> \o lanes ELSE lanes,
                         1, out_count')
      /\ flush_valid' = Flushes(word)

RomPort ==
  /\ romq' = IF TakenFor("read") /\ sel_rom(req.a)
             THEN block[req.a] ELSE None
  /\ block' = IF TakenFor("write") /\ sel_rom(req.a) /\ req.a \notin ReadOnly
              THEN [block EXCEPT ![req.a] = req.d] ELSE block

(***************************************************************************)
(* The self test: it writes its bytes, waits, and reads them back one at a *)
(* time; a reset starts it again.                                          *)
(***************************************************************************)
Tested == SelfTest[bist.idx]
BistCommand ==
  CASE bist.state = "WRITE" -> Command("write", Tested[1], Tested[2])
    [] bist.state = "READ"  -> Command("read", Tested[1], RomByte)
    [] OTHER -> NoWord

BistAt(state, idx) == bist' = [bist EXCEPT !.state = state, !.idx = idx]
BistNext(state, then) ==
  IF bist.idx = Len(SelfTest) THEN BistAt(then[1], then[2])
  ELSE BistAt(state, bist.idx + 1)

BistStep(word) ==
  \/ rst_all /\ bist' = [state |-> IF config.bist THEN "WAIT" ELSE "DONE",
                           idx |-> 1, err |-> 0]
  \/ /\ ~rst_all /\ bist.state = "WAIT"
     /\ bist' = bist \/ (~FifoFull /\ BistAt("WRITE", 1))
  \/ /\ ~rst_all /\ bist.state = "WRITE"
     /\ IF FifoFull THEN bist' = bist ELSE BistNext("WRITE", <<"WR_GAP", 1>>)
  \/ /\ ~rst_all /\ bist.state = "WR_GAP"
     /\ bist' = bist \/ BistAt("READ", 1)
  \/ /\ ~rst_all /\ bist.state = "READ"
     /\ IF FifoFull THEN bist' = bist ELSE BistAt("RD_WAIT", bist.idx)
  \/ /\ ~rst_all /\ bist.state = "RD_WAIT"
     /\ IF word = None THEN bist' = bist
        ELSE LET ok == word[Lane(Tested[1])] = Tested[2]
                 end == bist.idx = Len(SelfTest)
             IN bist' = [state |-> IF end THEN "DONE" ELSE "READ",
                         idx |-> IF end THEN 1 ELSE bist.idx + 1,
                         err |-> bist.err + IF ok THEN 0 ELSE 1]
  \/ ~rst_all /\ bist.state = "DONE" /\ bist' = bist

(* What enters the command FIFO.                                           *)
Pushed ==
  LET cmd == IF bist_active THEN BistCommand
             ELSE IF Taken /\ ~sel_rom(req.a)
             THEN Command(req.op, req.a, req.d) ELSE NoWord
  IN  IF Offered(cmd) /\ ~FifoFull THEN <<cmd>> ELSE <<>>

(* The controller holds a request until it is taken, has at most MaxOwed   *)
(* reads in an access and waits for their answers before the next access.  *)
ReadRequests == {[op |-> "read", a |-> a, d |-> RomByte] : a \in Addr}
WriteRequests == {[op |-> "write", a |-> s[1], d |-> s[2]] : s \in Stores}
Bit(b) == IF b THEN 1 ELSE 0
Request ==
  \/ req.op # "none" /\ ~Taken /\ UNCHANGED <<req, issued>>
  \/ /\ req.op = "none" \/ Taken
     /\ \/ /\ owed' = <<>> /\ req' \in ReadRequests \cup WriteRequests
           /\ issued' = Bit(req'.op = "read")
        \/ /\ owed' # <<>> /\ issued < MaxOwed
           /\ req' \in ReadRequests /\ issued' = issued + 1
        \/ /\ req' = Bus!NoCommand
           /\ issued' = IF owed' = <<>> THEN 0 ELSE issued

(* One clock of the chipset: word is what the FIFO of the answers gives,   *)
(* cold whether the cold reset goes on.                                    *)
ClkTick(word, cold) ==
  /\ word # None => rd # <<>> /\ word = Head(rd)
  /\ cold => resets.cold
  /\ rd' = IF word = None THEN rd ELSE Tail(rd)
  /\ wr' = IF rst_all THEN <<>> ELSE wr \o Pushed
  /\ Outstanding(word) /\ RomPort /\ BistStep(word)
  /\ resets' = [resets EXCEPT !.cold = cold, !.meta = resets.hr,
                              !.sync = resets.meta]
  /\ Bus!Records(IF Taken THEN req ELSE Bus!NoCommand, Beat(word),
                 rst_all' /\ ~rst_all /\ ~bist_active)
  /\ Request
  /\ UNCHANGED <<config, presses, sideVars>>

(***************************************************************************)
(* The clock of the HyperRAM.                                              *)
(***************************************************************************)
(* One read of the cache at a time.                                        *)
ReadGated(cmd) == cmd.op = "read" /\ c_pending
CacheSees(cmd) == IF ReadGated(cmd) THEN NoWord ELSE cmd

(* cmd is the head of the command FIFO, or NoWord while it has not come    *)
(* through; beat and wt are the HyperRAM's readdatavalid and waitrequest.  *)
m_waitrequest(cmd, beat, wt) ==
  IF cached
  THEN s_waitrequest(CacheSees(cmd), beat, wt) \/ ReadGated(cmd) \/ resets.hr
  ELSE wt

Answer(beat) ==
  IF cached THEN IF c_pending THEN cache.answer ELSE None
  ELSE beat

(* Bug: the mark outlives the reset.                                       *)
PendingKept(cmd, beat, wt) ==
  c_pending' =
    /\ cached
    /\ \/ CacheSees(cmd).op = "read" /\ ~s_waitrequest(cmd, beat, wt)
       \/ c_pending /\ Answer(beat) = None

Pending(cmd, beat, wt) ==
  c_pending' =
    /\ ~resets.hr /\ cached
    /\ \/ CacheSees(cmd).op = "read" /\ ~s_waitrequest(cmd, beat, wt)
       \/ c_pending /\ Answer(beat) = None

(* The HyperRAM does what it is offered, unless it is in reset.            *)
Contents(w) == [i \in Lanes |-> IF 2 * w + i \in DOMAIN hyper
                                THEN hyper[2 * w + i] ELSE RomByte]
Execute(cmd, beat, wt) ==
  LET done == Offered(cmd) /\ ~wt
      sent == IF beat = None THEN burst ELSE Tail(burst)
  IN  IF resets.hr THEN burst' = <<>> /\ hyper' = hyper
      ELSE /\ burst' = IF done /\ cmd.op = "read"
                       THEN sent \o [i \in 1 .. cmd.len |->
                                        Contents(cmd.w + i - 1)]
                       ELSE sent
           /\ hyper' = IF done /\ cmd.op = "write"
                       THEN [hyper EXCEPT ![2 * cmd.w + cmd.lane] = cmd.d]
                       ELSE hyper

HyperTick(cmd, beat, wt) ==
  /\ cmd # NoWord => wr # <<>> /\ cmd = Head(wr)
  /\ beat # None => burst # <<>> /\ beat = Head(burst) /\ ~resets.hr
  /\ wr' = IF Offered(cmd) /\ ~m_waitrequest(cmd, beat, wt)
           THEN Tail(wr) ELSE wr
  /\ IF resets.hr THEN rd' \in {rd, <<>>}
     ELSE rd' = IF Answer(beat) = None THEN rd ELSE Append(rd, Answer(beat))
  /\ Pending(cmd, beat, wt)
  /\ IF resets.hr THEN CacheReset
     ELSE IF cached THEN CacheStep(CacheSees(cmd), beat, wt)
     ELSE UNCHANGED cache
  /\ Execute(IF cached THEN cache.m ELSE cmd, beat, wt)
  /\ resets' = [resets EXCEPT !.seen = resets.hr]
  /\ UNCHANGED <<config, presses, busVars>>

(* The framework's reset: the button, at any time; it lasts longer than    *)
(* the drain, the clearing of the FIFOs and the reset of the cache take.   *)
Drained ==
  /\ resets.meta /\ resets.sync /\ resets.seen
  /\ ~Flushes(None) /\ ~flush_valid
  /\ wr = <<>> /\ rd = <<>> /\ burst = <<>>

Press ==
  /\ ~resets.hr /\ presses < MaxResets
  /\ resets' = [resets EXCEPT !.hr = TRUE] /\ presses' = presses + 1
  /\ UNCHANGED <<config, wr, rd, sideVars, busVars>>

Release ==
  /\ resets.hr /\ Drained
  /\ resets' = [resets EXCEPT !.hr = FALSE]
  /\ UNCHANGED <<config, presses, wr, rd, sideVars, busVars>>

Init ==
  /\ config \in Configs
  /\ resets = [cold |-> TRUE, hr |-> TRUE, meta |-> TRUE, sync |-> TRUE,
               seen |-> TRUE]
  /\ presses = 0 /\ req = Bus!NoCommand /\ issued = 0
  /\ block = [a \in Block |-> RomByte] /\ romq = None
  /\ lanes = <<>> /\ out_count = 0 /\ flush_valid = FALSE
  /\ bist = [state |-> "WAIT", idx |-> 1, err |-> 0]
  /\ wr = <<>> /\ rd = <<>> /\ c_pending = FALSE /\ CacheInit
  /\ hyper = [a \in Addr \ Block |-> RomByte] /\ burst = <<>>
  /\ told = Bus!Forget([a \in Addr |-> RomByte]) /\ owed = <<>> /\ last = None

Through(fifo, none) == {none} \cup IF fifo = <<>> THEN {} ELSE {Head(fifo)}
Clk == \E word \in Through(rd, None), cold \in BOOLEAN : ClkTick(word, cold)
Hyper == \E cmd \in Through(wr, NoWord), beat \in Through(burst, None),
            wt \in BOOLEAN : HyperTick(cmd, beat, wt)
Next == Clk \/ Hyper \/ Press \/ Release

(* Both clocks run; the FIFOs let through what is in them, the HyperRAM    *)
(* takes commands and sends its words, the counters of the self test run   *)
(* out, and the resets end.                                                *)
ClkServes == \E word \in Through(rd, None) :
  /\ rd # <<>> => word # None
  /\ ClkTick(word, FALSE)
  /\ bist.state \in {"WAIT", "WR_GAP"} => FifoFull \/ bist' # bist
HyperServes ==
  \E cmd \in Through(wr, NoWord), beat \in Through(burst, None) :
    /\ wr # <<>> => cmd # NoWord
    /\ burst # <<>> /\ ~resets.hr => beat # None
    /\ HyperTick(cmd, beat, FALSE)
    /\ resets.hr => rd' = <<>>
Fairness == WF_vars(ClkServes) /\ WF_vars(HyperServes) /\ WF_vars(Release)

Spec == Init /\ [][Next]_vars /\ Fairness

-----------------------------------------------------------------------------
(* Properties.                                                             *)

Words == [Lanes -> Byte]
Slots == [op : {"none", "read", "write"}, w : Nat, lane : Lanes,
          d : Byte \cup {None}, len : 0 .. LineSize]

TypeOK ==
  /\ config \in Configs /\ presses \in 0 .. MaxResets
  /\ resets \in [cold : BOOLEAN, hr : BOOLEAN, meta : BOOLEAN, sync : BOOLEAN,
                 seen : BOOLEAN]
  /\ req \in Bus!Commands \cup {Bus!NoCommand}
  /\ issued \in 0 .. MaxOwed
  /\ block \in [Block -> Byte] /\ romq \in Byte \cup {None}
  /\ lanes \in Seq(Lanes) /\ out_count \in 0 .. MaxOwed
  /\ flush_valid \in BOOLEAN
  /\ bist \in [state : {"WAIT", "WRITE", "WR_GAP", "READ", "RD_WAIT", "DONE"},
               idx : 1 .. Len(SelfTest), err : Nat]
  /\ wr \in Seq(Slots) /\ Len(wr) <= FifoDepth
  /\ rd \in Seq(Words) /\ burst \in Seq(Words)
  /\ c_pending \in BOOLEAN
  /\ hyper \in [Addr \ Block -> Byte]
  /\ Bus!BusType
  /\ cache.state \in {"IDLE", "READING"} /\ cache.count \in 0 .. LineSize
  /\ cache.burst \in 0 .. 1 /\ cache.m \in Slots

(* The backend is the byte bus the controller is built on.                 *)
Implements == Bus!BusSpec

(* The answers the controller waits for are those the backend still counts *)
(* or is just giving.                                                      *)
AnswersCounted ==
  Len(owed) = out_count + Bit(flush_valid) + Bit(romq # None)

(* The self test finds no error in a memory that works.                    *)
SelfTestPasses == bist.err = 0

(* The line holds what the HyperRAM holds, or will once it has executed    *)
(* the write that is on its way from the cache.                            *)
Written(a) == IF cache.m.op = "write" /\ 2 * cache.m.w + cache.m.lane = a
              THEN cache.m.d ELSE hyper[a]
LineCurrent ==
  \A i \in 0 .. cache.count - 1, lane \in Lanes :
    LET a == 2 * (cache.addr + i) + lane IN
    a \in DOMAIN hyper => cache.line[i][lane] = Written(a)

(* After any reset the machine gets its memory back.                       *)
ComesBack == rst_all \/ bist_active ~> ~rst_all /\ ~bist_active

(* Every access ends: its requests are taken, its reads are answered.      *)
AccessesEnd ==
  /\ req.op # "none" ~> Taken
  /\ owed # <<>> ~> owed = <<>>
=============================================================================
