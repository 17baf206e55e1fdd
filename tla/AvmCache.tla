------------------------------ MODULE AvmCache ------------------------------
(***************************************************************************)
(* The framework's read cache, avm_cache.vhd: one line of LineSize words in *)
(* front of the HyperRAM, refilled a whole line at a miss and half a line  *)
(* when its first half has been read.  The bursts its client asks for are  *)
(* of one word.                                                            *)
(***************************************************************************)
EXTENDS Integers, Sequences

CONSTANTS
  Byte,
  None,           \* no beat, no answer
  LineSize        \* G_CACHE_SIZE, even

ASSUME LineAssumption ==
  /\ None \notin Byte /\ None \notin [0 .. 1 -> Byte]
  /\ LineSize \in Nat \ {0} /\ LineSize % 2 = 0

VARIABLE cache    \* its registers

(* Words are pairs of bytes; a command names a word, the lane of the byte  *)
(* it writes or wants, and how many words it reads.                        *)
Lanes == 0 .. 1
NoWord == [op |-> "none", w |-> 0, lane |-> 0, d |-> None, len |-> 0]
Offered(cmd) == cmd.op # "none"

Empty == [state |-> "IDLE", line |-> [i \in 0 .. LineSize - 1 |-> None],
          addr |-> 0, count |-> 0, burst |-> 0, m |-> NoWord,
          answer |-> None]

CacheInit == cache = Empty
CacheReset == cache' = Empty

cache_offset(cmd) == cmd.w - cache.addr

Filled(beat) ==
  cache.state = "READING" /\ beat # None /\ cache.count = LineSize - 1

cache_rd_hit(cmd, beat) ==
  /\ cmd.op = "read" /\ cache_offset(cmd) >= 0
  /\ \/ cache_offset(cmd) < cache.count
     \/ /\ cache_offset(cmd) = cache.count /\ cache.count < LineSize
        /\ beat # None

cache_wr_hit(cmd) ==
  cmd.op = "write" /\ cache_offset(cmd) \in 0 .. cache.count - 1

(* What the client sees; wt is the memory's own waitrequest.               *)
s_waitrequest(cmd, beat, wt) ==
  /\ ~(Filled(beat) /\ cmd.op # "write" /\ cache.burst = 0)
  /\ ~(cache_rd_hit(cmd, beat) /\ cache.state = "READING")
  /\ cache.state = "IDLE" => wt /\ Offered(cache.m)

Accepts(cmd, beat, wt) == Offered(cmd) /\ ~s_waitrequest(cmd, beat, wt)

(* The registers after a clock in which nothing is accepted.               *)
Idled(wt) ==
  [cache EXCEPT !.answer = None, !.m = IF wt THEN @ ELSE NoWord]

(* Bug: a write passes the line by.                                        *)
WrittenThrough(cmd) == cache.line
(* The line after a write that lands in it.                                *)
Updated(cmd) ==
  IF cache_wr_hit(cmd)
  THEN [cache.line EXCEPT ![cache_offset(cmd)][cmd.lane] = cmd.d]
  ELSE cache.line

Reading(w, len) == [NoWord EXCEPT !.op = "read", !.w = w, !.len = len]

Fetch(cmd, c) ==
  [c EXCEPT !.m = Reading(cmd.w, LineSize), !.addr = cmd.w, !.count = 0,
            !.burst = 1, !.state = "READING"]

(* Half of the line has been read: the other half moves down, and the half *)
(* that follows it is read.                                                *)
Half == LineSize \div 2
HalfRead(cmd) == cache_offset(cmd) = Half - 1 /\ cmd.lane = 1
Prefetch(c) ==
  [c EXCEPT !.m = Reading(cache.addr + LineSize, Half),
            !.line = [i \in DOMAIN cache.line |->
                        IF i < Half THEN cache.line[i + Half] ELSE @[i]],
            !.addr = @ + Half, !.count = Half,
            !.burst = 0, !.state = "READING"]

CacheIdle(cmd, beat, wt) ==
  LET c == Idled(wt)
      hit == [c EXCEPT !.answer = cache.line[cache_offset(cmd)]]
  IN  /\ cache.state = "IDLE"
      /\ \/ ~Accepts(cmd, beat, wt) /\ cache' = c
         \/ /\ Accepts(cmd, beat, wt) /\ cmd.op = "write"
            /\ cache' = [c EXCEPT !.m = cmd, !.line = Updated(cmd)]
         \/ /\ Accepts(cmd, beat, wt) /\ cmd.op = "read"
            /\ \/ /\ cache_rd_hit(cmd, beat)
                  /\ cache' = IF HalfRead(cmd) THEN Prefetch(hit) ELSE hit
               \/ ~cache_rd_hit(cmd, beat) /\ cache' = Fetch(cmd, c)

(* While the line fills, a read of a word that is there or arrives is      *)
(* served, and with the last word any read; writes wait.                   *)
CacheReading(cmd, beat, wt) ==
  LET c == Idled(wt)
      hit == Accepts(cmd, beat, wt) /\ cache_rd_hit(cmd, beat)
      served == IF cache_offset(cmd) = cache.count THEN beat
                ELSE cache.line[cache_offset(cmd)]
      first == cache.burst # 0
      filled == [c EXCEPT !.line[cache.count] = beat, !.count = @ + 1,
                          !.burst = 0,
                          !.answer = IF hit THEN served
                                     ELSE IF first THEN beat ELSE None]
  IN  /\ cache.state = "READING"
      /\ \/ beat = None /\ cache' = [c EXCEPT !.answer =
                                       IF hit THEN served ELSE None]
         \/ beat # None /\ ~Filled(beat) /\ cache' = filled
         \/ /\ Filled(beat)
            /\ cache' = IF Accepts(cmd, beat, wt) /\ ~hit
                        THEN Fetch(cmd, filled)
                        ELSE [filled EXCEPT !.state = "IDLE"]

CacheStep(cmd, beat, wt) ==
  CacheIdle(cmd, beat, wt) \/ CacheReading(cmd, beat, wt)
=============================================================================
