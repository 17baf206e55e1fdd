--------------------------- MODULE MemBackendProofs ---------------------------
(***************************************************************************)
(* The memory backend is the byte bus the controller is built on, for      *)
(* every memory map, line size, depth of the FIFOs and number of resets.   *)
(* The argument: outside resets the reads that are owed stand in one line, *)
(* oldest first in the FIFO of the answers, then on the HyperRAM's side,   *)
(* then at the end of the command FIFO behind every write; the memory      *)
(* that is promised is the HyperRAM's after those writes.                  *)
(***************************************************************************)
EXTENDS MemBackendCache

Reads == [a : Addr, d : Byte \cup {Unknown}]

(* The reads whose words the FIFO of the answers will bring.               *)
Wants ==
  IF bist_active
  THEN IF bist.state = "RD_WAIT" THEN <<[a |-> Tested[1], d |-> Tested[2]]>>
       ELSE <<>>
  ELSE IF romq = None THEN owed ELSE <<>>

(* What a byte holds after the writes among some commands.                 *)
Writes(cmd, a) == cmd.op = "write" /\ 2 * cmd.w + cmd.lane = a
Final(mem, cmds, a, d) ==
  \/ \E i \in 1 .. Len(cmds) :
       /\ Writes(cmds[i], a) /\ cmds[i].d = d
       /\ \A j \in 1 .. Len(cmds) : j > i => ~Writes(cmds[j], a)
  \/ mem[a] = d /\ \A i \in 1 .. Len(cmds) : ~Writes(cmds[i], a)

Right(word, read) == read.d = Unknown \/ word[Lane(read.a)] = read.d
Due(mem, cmds, cmd, read) ==
  /\ cmd.op = "read" /\ cmd.w = Word(read.a)
  /\ read.d = Unknown \/ Final(mem, cmds, read.a, read.d)

(* The line: the words that are there, those that will come, the commands. *)
Got(got, wants) ==
  /\ Len(got) <= Len(wants)
  /\ \A j \in 1 .. Len(got) : Right(got[j], wants[j])
Piped(mem, cmds, sent, got, wants) ==
  /\ Len(got) + Len(sent) <= Len(wants)
  /\ Len(wants) <= Len(got) + Len(sent) + Len(cmds)
  /\ \A j \in 1 .. Len(sent) : Right(sent[j], wants[Len(got) + j])
  /\ \A j \in 1 .. Len(wants) : j > Len(got) + Len(sent) =>
       Due(mem, cmds, cmds[Len(cmds) - Len(wants) + j], wants[j])
  /\ \A i \in 1 .. Len(cmds) : i <= Len(cmds) + Len(got) + Len(sent) - Len(wants) =>
       cmds[i].op = "write"

-----------------------------------------------------------------------------
(* The line, without the machine.                                          *)

LEMMA TailIs ==
  ASSUME NEW S, NEW s \in Seq(S), s # <<>>
  PROVE  /\ Tail(s) \in Seq(S) /\ Len(Tail(s)) = Len(s) - 1
         /\ Len(s) \in Nat /\ Len(s) >= 1 /\ Head(s) = s[1] /\ s[1] \in S
         /\ \A i \in 1 .. Len(s) - 1 : Tail(s)[i] = s[i + 1]
BY HeadTailProperties, LenProperties, EmptySeq

LEMMA AppendIs ==
  ASSUME NEW S, NEW s \in Seq(S), NEW x \in S
  PROVE  /\ Append(s, x) \in Seq(S) /\ Len(Append(s, x)) = Len(s) + 1
         /\ Len(s) \in Nat /\ Append(s, x)[Len(s) + 1] = x
         /\ \A i \in 1 .. Len(s) : Append(s, x)[i] = s[i]
BY AppendProperties, LenProperties

LEMMA FinalWrite ==
  ASSUME NEW mem, NEW cmds \in Seq(RamCommands), NEW c \in RamCommands,
         NEW a, Writes(c, a)
  PROVE  Final(mem, Append(cmds, c), a, c.d)
<1> DEFINE more == Append(cmds, c)
           n == Len(cmds) + 1
<1>1. Len(more) = n /\ Len(cmds) \in Nat /\ more[n] = c
  BY AppendIs
<1>2. n \in 1 .. Len(more) /\ \A j \in 1 .. Len(more) : ~(j > n)
  BY <1>1
<1> HIDE DEF more, n
<1> QED
  BY <1>1, <1>2 DEF Final, more

LEMMA FinalKept ==
  ASSUME NEW mem, NEW cmds \in Seq(RamCommands), NEW c \in RamCommands,
         NEW a, NEW d, ~Writes(c, a), Final(mem, cmds, a, d)
  PROVE  Final(mem, Append(cmds, c), a, d)
<1> DEFINE more == Append(cmds, c)
<1>1. /\ Len(more) = Len(cmds) + 1 /\ Len(cmds) \in Nat
      /\ more[Len(cmds) + 1] = c
      /\ \A i \in 1 .. Len(cmds) : more[i] = cmds[i]
  BY AppendIs
<1> HIDE DEF more
<1>2. \A j \in 1 .. Len(more) : j \in 1 .. Len(cmds) \/ ~Writes(more[j], a)
  BY <1>1
<1>3. CASE mem[a] = d /\ \A i \in 1 .. Len(cmds) : ~Writes(cmds[i], a)
  <2>1. \A i \in 1 .. Len(more) : ~Writes(more[i], a)
    BY <1>1, <1>2, <1>3
  <2> QED
    BY <1>3, <2>1 DEF Final, more
<1>4. CASE \E i \in 1 .. Len(cmds) :
              /\ Writes(cmds[i], a) /\ cmds[i].d = d
              /\ \A j \in 1 .. Len(cmds) : j > i => ~Writes(cmds[j], a)
  <2>1. PICK i \in 1 .. Len(cmds) :
          /\ Writes(cmds[i], a) /\ cmds[i].d = d
          /\ \A j \in 1 .. Len(cmds) : j > i => ~Writes(cmds[j], a)
    BY <1>4
  <2>2. i \in 1 .. Len(more) /\ Writes(more[i], a) /\ more[i].d = d
    BY <1>1, <2>1
  <2>3. \A j \in 1 .. Len(more) : j > i => ~Writes(more[j], a)
    BY <1>1, <1>2, <2>1
  <2> QED
    BY <2>2, <2>3 DEF Final, more
<1> QED
  BY <1>3, <1>4 DEF Final

LEMMA FinalTaken ==
  ASSUME NEW mem, NEW then, NEW cmds \in Seq(RamCommands), cmds # <<>>,
         NEW a, NEW d, Final(mem, cmds, a, d),
         Writes(Head(cmds), a) => then[a] = Head(cmds).d,
         ~Writes(Head(cmds), a) => then[a] = mem[a]
  PROVE  Final(then, Tail(cmds), a, d)
<1> DEFINE rest == Tail(cmds)
<1>1. /\ Len(rest) = Len(cmds) - 1 /\ Len(cmds) \in Nat /\ Len(cmds) >= 1
      /\ Head(cmds) = cmds[1]
      /\ \A i \in 1 .. Len(cmds) - 1 : rest[i] = cmds[i + 1]
  BY TailIs
<1> HIDE DEF rest
<1>2. CASE mem[a] = d /\ \A i \in 1 .. Len(cmds) : ~Writes(cmds[i], a)
  <2>1. ~Writes(Head(cmds), a)
    BY <1>1, <1>2
  <2>2. \A i \in 1 .. Len(rest) : ~Writes(rest[i], a)
    BY <1>1, <1>2
  <2> QED
    BY <1>2, <2>1, <2>2 DEF Final, rest
<1>3. CASE \E i \in 1 .. Len(cmds) :
              /\ Writes(cmds[i], a) /\ cmds[i].d = d
              /\ \A j \in 1 .. Len(cmds) : j > i => ~Writes(cmds[j], a)
  <2>1. PICK i \in 1 .. Len(cmds) :
          /\ Writes(cmds[i], a) /\ cmds[i].d = d
          /\ \A j \in 1 .. Len(cmds) : j > i => ~Writes(cmds[j], a)
    BY <1>3
  <2>2. CASE i = 1
    <3>1. then[a] = d
      BY <1>1, <2>1, <2>2
    <3>2. \A j \in 1 .. Len(rest) : ~Writes(rest[j], a)
      BY <1>1, <2>1, <2>2
    <3> QED
      BY <3>1, <3>2 DEF Final, rest
  <2>3. CASE i # 1
    <3>1. i - 1 \in 1 .. Len(rest) /\ rest[i - 1] = cmds[i]
      BY <1>1, <2>3
    <3>2. \A j \in 1 .. Len(rest) : j > i - 1 => ~Writes(rest[j], a)
      BY <1>1, <2>1
    <3> QED
      BY <2>1, <3>1, <3>2 DEF Final, rest
  <2> QED
    BY <2>2, <2>3
<1> QED
  BY <1>2, <1>3 DEF Final

LEMMA GotPopped ==
  ASSUME NEW got \in Seq(Words), NEW wants \in Seq(Reads), got # <<>>,
         Got(got, wants)
  PROVE  wants # <<>> /\ Right(got[1], wants[1]) /\ Got(Tail(got), Tail(wants))
<1>1. /\ Len(Tail(got)) = Len(got) - 1 /\ Len(got) \in Nat /\ Len(got) >= 1
      /\ \A i \in 1 .. Len(got) - 1 : Tail(got)[i] = got[i + 1]
  BY TailIs
<1>2. wants # <<>> /\ Len(wants) \in Nat
  BY <1>1, LenProperties, EmptySeq DEF Got
<1>3. /\ Len(Tail(wants)) = Len(wants) - 1
      /\ \A i \in 1 .. Len(wants) - 1 : Tail(wants)[i] = wants[i + 1]
  BY <1>2, TailIs
<1>4. ASSUME NEW j \in 1 .. Len(Tail(got))
      PROVE  Right(Tail(got)[j], Tail(wants)[j])
  <2>1. /\ j \in 1 .. Len(got) - 1 /\ j \in 1 .. Len(wants) - 1
        /\ j + 1 \in 1 .. Len(got)
    BY <1>1, <1>2 DEF Got
  <2> QED
    BY <1>1, <1>3, <2>1 DEF Got
<1> QED
  BY <1>1, <1>2, <1>3, <1>4 DEF Got

LEMMA PipePopped ==
  ASSUME NEW mem, NEW cmds \in Seq(RamCommands), NEW sent \in Seq(Words),
         NEW got \in Seq(Words), NEW wants \in Seq(Reads), got # <<>>,
         Piped(mem, cmds, sent, got, wants), Got(got, wants)
  PROVE  Piped(mem, cmds, sent, Tail(got), Tail(wants))
<1> DEFINE n == Len(Tail(got))
           m == Len(Tail(wants))
<1>1. n = Len(got) - 1 /\ Len(got) \in Nat /\ Len(got) >= 1
  BY TailIs
<1>2. wants # <<>>
  BY GotPopped
<1>3. /\ m = Len(wants) - 1 /\ Len(wants) \in Nat
      /\ \A i \in 1 .. Len(wants) - 1 : Tail(wants)[i] = wants[i + 1]
  BY <1>2, TailIs
<1>4. Len(cmds) \in Nat /\ Len(sent) \in Nat
  BY LenProperties
<1> HIDE DEF n, m
<1>5. n + Len(sent) <= m /\ m <= n + Len(sent) + Len(cmds)
  BY <1>1, <1>3, <1>4 DEF Piped
<1>6. ASSUME NEW j \in 1 .. Len(sent)
      PROVE  Right(sent[j], Tail(wants)[n + j])
  <2>1. n + j \in 1 .. Len(wants) - 1 /\ n + j + 1 = Len(got) + j
    BY <1>1, <1>3, <1>4, <1>5
  <2> QED
    BY <1>3, <2>1 DEF Piped
<1>7. ASSUME NEW j \in 1 .. m, j > n + Len(sent)
      PROVE  Due(mem, cmds, cmds[Len(cmds) - m + j], Tail(wants)[j])
  <2>1. /\ j \in 1 .. Len(wants) - 1 /\ j + 1 \in 1 .. Len(wants)
        /\ j + 1 > Len(got) + Len(sent)
        /\ Len(cmds) - m + j = Len(cmds) - Len(wants) + (j + 1)
    BY <1>1, <1>3, <1>4, <1>7
  <2> QED
    BY <1>3, <2>1 DEF Piped
<1>8. Len(cmds) + n + Len(sent) - m = Len(cmds) + Len(got) + Len(sent) - Len(wants)
  BY <1>1, <1>3, <1>4
<1> QED
  BY <1>5, <1>6, <1>7, <1>8 DEF Piped, n, m

LEMMA GotRead ==
  ASSUME NEW got \in Seq(Words), NEW wants \in Seq(Reads), NEW x \in Reads,
         Got(got, wants)
  PROVE  Got(got, Append(wants, x))
<1>1. /\ Len(Append(wants, x)) = Len(wants) + 1 /\ Len(wants) \in Nat
      /\ \A i \in 1 .. Len(wants) : Append(wants, x)[i] = wants[i]
      /\ Len(got) \in Nat
  BY AppendIs, LenProperties
<1> QED
  BY <1>1 DEF Got

LEMMA PipeRead ==
  ASSUME NEW mem, NEW cmds \in Seq(RamCommands), NEW sent \in Seq(Words),
         NEW got \in Seq(Words), NEW wants \in Seq(Reads),
         NEW c \in RamCommands, NEW x \in Reads,
         Piped(mem, cmds, sent, got, wants), Due(mem, cmds, c, x)
  PROVE  Piped(mem, Append(cmds, c), sent, got, Append(wants, x))
<1> DEFINE more == Append(cmds, c)
           all == Append(wants, x)
<1>1. /\ Len(all) = Len(wants) + 1 /\ Len(wants) \in Nat /\ all[Len(wants) + 1] = x
      /\ \A i \in 1 .. Len(wants) : all[i] = wants[i]
  BY AppendIs
<1>2. /\ Len(more) = Len(cmds) + 1 /\ Len(cmds) \in Nat /\ more[Len(cmds) + 1] = c
      /\ \A i \in 1 .. Len(cmds) : more[i] = cmds[i]
  BY AppendIs
<1>3. Len(got) \in Nat /\ Len(sent) \in Nat
  BY LenProperties
<1>4. \A cmd, read : Due(mem, cmds, cmd, read) => Due(mem, more, cmd, read)
  BY FinalKept DEF Due, Writes
<1> HIDE DEF more, all
<1>5. /\ Len(got) + Len(sent) <= Len(all)
      /\ Len(all) <= Len(got) + Len(sent) + Len(more)
  BY <1>1, <1>2, <1>3 DEF Piped
<1>6. ASSUME NEW j \in 1 .. Len(sent)
      PROVE  Right(sent[j], all[Len(got) + j])
  <2>1. Len(got) + j \in 1 .. Len(wants)
    BY <1>1, <1>3 DEF Piped
  <2> QED
    BY <1>1, <2>1 DEF Piped
<1>7. ASSUME NEW j \in 1 .. Len(all), j > Len(got) + Len(sent)
      PROVE  Due(mem, more, more[Len(more) - Len(all) + j], all[j])
  <2>1. Len(more) - Len(all) + j = Len(cmds) - Len(wants) + j
    BY <1>1, <1>2
  <2>2. CASE j = Len(wants) + 1
    <3>1. Len(cmds) - Len(wants) + j = Len(cmds) + 1
      BY <1>1, <1>2, <2>2
    <3> QED
      BY <1>1, <1>2, <1>4, <2>1, <2>2, <3>1
  <2>3. CASE j # Len(wants) + 1
    <3>1. /\ j \in 1 .. Len(wants)
          /\ Len(cmds) - Len(wants) + j \in 1 .. Len(cmds)
      BY <1>1, <1>2, <1>3, <1>7, <2>3 DEF Piped
    <3>2. Due(mem, cmds, cmds[Len(cmds) - Len(wants) + j], wants[j])
      BY <1>7, <3>1 DEF Piped
    <3> QED
      BY <1>1, <1>2, <1>4, <2>1, <3>1, <3>2
  <2> QED
    BY <2>2, <2>3
<1>8. ASSUME NEW i \in 1 .. Len(more),
             i <= Len(more) + Len(got) + Len(sent) - Len(all)
      PROVE  more[i].op = "write"
  <2>1. /\ i <= Len(cmds) + Len(got) + Len(sent) - Len(wants)
        /\ i \in 1 .. Len(cmds)
    BY <1>1, <1>2, <1>3, <1>8 DEF Piped
  <2> QED
    BY <1>2, <2>1 DEF Piped
<1> QED
  BY <1>5, <1>6, <1>7, <1>8 DEF Piped, more, all

LEMMA PipeWrite ==
  ASSUME NEW mem, NEW cmds \in Seq(RamCommands), NEW sent \in Seq(Words),
         NEW got \in Seq(Words), NEW c \in RamCommands, c.op = "write",
         Piped(mem, cmds, sent, got, <<>>)
  PROVE  Piped(mem, Append(cmds, c), sent, got, <<>>)
<1> DEFINE more == Append(cmds, c)
<1>1. /\ Len(more) = Len(cmds) + 1 /\ Len(cmds) \in Nat /\ more[Len(cmds) + 1] = c
      /\ \A i \in 1 .. Len(cmds) : more[i] = cmds[i]
  BY AppendIs
<1>2. Len(got) \in Nat /\ Len(sent) \in Nat /\ Len(<<>>) = 0
  BY LenProperties
<1> HIDE DEF more
<1>3. Len(got) = 0 /\ Len(sent) = 0
  BY <1>2 DEF Piped
<1>4. \A i \in 1 .. Len(more) : more[i].op = "write"
  <2>1. \A i \in 1 .. Len(cmds) : cmds[i].op = "write"
    BY <1>1, <1>2, <1>3 DEF Piped
  <2> QED
    BY <1>1, <2>1
<1> QED
  BY <1>1, <1>2, <1>3, <1>4 DEF Piped, more

LEMMA NthRead ==
  ASSUME NEW n \in Nat, NEW s \in Nat, NEW k \in Nat, NEW W \in Nat,
         k = W - n - s, NEW i \in 1 .. k
  PROVE  n + s + i \in 1 .. W /\ n + s + i > n + s /\ k - W + (n + s + i) = i
OBVIOUS

(* A clock of the HyperRAM: its queue of words moves by gone words, and     *)
(* takes the head of the command FIFO if took is 1, a read if came is 1.   *)
Advances(sent, sent2, got, got2, gone, came) ==
  /\ Len(sent) >= gone
  /\ gone = 0 => got2 = got
  /\ gone = 1 => got2 = Append(got, sent[1])
  /\ Len(sent2) = Len(sent) - gone + came
  /\ \A j \in 1 .. Len(sent) - gone : sent2[j] = sent[j + gone]
Consumes(mem, cmds, cmds2, sent2, took, came) ==
  /\ took = 0 => cmds2 = cmds
  /\ took = 1 => /\ cmds # <<>> /\ cmds2 = Tail(cmds)
                 /\ came = 1 <=> Head(cmds).op = "read"
                 /\ Head(cmds).op \in {"read", "write"}
  /\ came = 1 => Sound(mem, sent2[Len(sent2)], Head(cmds).w)
Executed(mem, then, cmds, cmds2) ==
  \A a \in Ram : \A d : Final(mem, cmds, a, d) => Final(then, cmds2, a, d)

LEMMA PipeTicks ==
  ASSUME NEW mem, NEW then, NEW cmds \in Seq(RamCommands),
         NEW sent \in Seq(Words), NEW sent2 \in Seq(Words),
         NEW got \in Seq(Words), NEW wants \in Seq(Reads),
         NEW cmds2, NEW got2,
         NEW gone \in 0 .. 1, NEW took \in 0 .. 1, NEW came \in 0 .. took,
         Piped(mem, cmds, sent, got, wants), Got(got, wants),
         Advances(sent, sent2, got, got2, gone, came),
         Consumes(mem, cmds, cmds2, sent2, took, came),
         Executed(mem, then, cmds, cmds2),
         \A j \in 1 .. Len(wants) : wants[j].a \in Ram
  PROVE  Piped(then, cmds2, sent2, got2, wants) /\ Got(got2, wants)
<1> DEFINE n == Len(got)
           s == Len(sent)
           k == Len(cmds)
           W == Len(wants)
<1>1. n \in Nat /\ s \in Nat /\ k \in Nat /\ W \in Nat
  BY LenProperties
<1>2. /\ got2 \in Seq(Words) /\ Len(got2) = n + gone
      /\ \A j \in 1 .. n : got2[j] = got[j]
      /\ gone = 1 => got2[n + 1] = sent[1]
  <2>1. CASE gone = 0
    BY <1>1, <2>1 DEF Advances
  <2>2. CASE gone = 1
    <3>1. sent[1] \in Words
      BY <2>2, <1>1, ElementOfSeq DEF Advances
    <3>2. got2 = Append(got, sent[1])
      BY <2>2 DEF Advances
    <3> QED
      BY <2>2, <3>1, <3>2, AppendIs
  <2> QED
    BY <2>1, <2>2
<1>3. /\ Len(cmds2) = k - took /\ took <= k
      /\ \A i \in 1 .. k - took : cmds2[i] = cmds[i + took]
  <2>1. CASE took = 0
    BY <1>1, <2>1 DEF Consumes
  <2>2. CASE took = 1
    <3>1. cmds # <<>> /\ cmds2 = Tail(cmds)
      BY <2>2 DEF Consumes
    <3>2. /\ Len(Tail(cmds)) = k - 1 /\ k >= 1
          /\ \A i \in 1 .. k - 1 : Tail(cmds)[i] = cmds[i + 1]
      BY <3>1, TailIs
    <3> QED
      BY <2>2, <3>1, <3>2
  <2> QED
    BY <2>1, <2>2
<1>4. took = 1 => /\ k >= 1 /\ Head(cmds) = cmds[1]
                  /\ came = 1 <=> cmds[1].op = "read"
                  /\ came = 0 <=> cmds[1].op = "write"
  <2> SUFFICES ASSUME took = 1
               PROVE  /\ k >= 1 /\ Head(cmds) = cmds[1]
                      /\ came = 1 <=> cmds[1].op = "read"
                      /\ came = 0 <=> cmds[1].op = "write"
    OBVIOUS
  <2>1. /\ cmds # <<>> /\ (came = 1 <=> Head(cmds).op = "read")
        /\ Head(cmds).op \in {"read", "write"}
    BY DEF Consumes
  <2>2. k >= 1 /\ Head(cmds) = cmds[1]
    BY <2>1, TailIs
  <2>3. came \in {0, 1}
    OBVIOUS
  <2> QED
    BY <2>1, <2>2, <2>3
<1>5. /\ n + s <= W /\ W <= n + s + k
      /\ \A j \in 1 .. s : Right(sent[j], wants[n + j])
      /\ \A j \in 1 .. W : j > n + s => Due(mem, cmds, cmds[k - W + j], wants[j])
      /\ \A i \in 1 .. k : i <= k + n + s - W => cmds[i].op = "write"
  BY DEF Piped
<1>6. n <= W /\ \A j \in 1 .. n : Right(got[j], wants[j])
  BY DEF Got
<1>7. \A a \in Ram : \A d : Final(mem, cmds, a, d) => Final(then, cmds2, a, d)
  BY DEF Executed
<1>8. ASSUME NEW cmd, NEW read, read.a \in Ram, Due(mem, cmds, cmd, read)
      PROVE  Due(then, cmds2, cmd, read)
  BY <1>7, <1>8 DEF Due
<1>9. came = 1 => /\ k = W - n - s
                  /\ Due(mem, cmds, Head(cmds), wants[n + s + 1])
  <2> SUFFICES ASSUME came = 1
               PROVE  /\ k = W - n - s
                      /\ Due(mem, cmds, Head(cmds), wants[n + s + 1])
    OBVIOUS
  <2>1. took = 1 /\ cmds[1].op = "read" /\ k >= 1 /\ Head(cmds) = cmds[1]
    BY <1>4
  <2>2. ~(1 <= k + n + s - W)
    BY <1>1, <1>5, <2>1
  <2>3. k = W - n - s
    BY <1>1, <1>5, <2>2
  <2>4. n + s + 1 \in 1 .. W /\ n + s + 1 > n + s /\ k - W + (n + s + 1) = 1
    BY <1>1, <2>1, <2>3
  <2>5. Due(mem, cmds, cmds[k - W + (n + s + 1)], wants[n + s + 1])
    BY <1>5, <2>4
  <2> QED
    BY <2>1, <2>3, <2>4, <2>5
<1>10. took = 1 /\ came = 0 => W < n + s + k
  <2> SUFFICES ASSUME took = 1, came = 0, W = n + s + k PROVE FALSE
    BY <1>1, <1>5
  <2>1. /\ n + s + 1 \in 1 .. W /\ n + s + 1 > n + s
        /\ k - W + (n + s + 1) = 1
    BY <1>1, <1>4
  <2>2. Due(mem, cmds, cmds[k - W + (n + s + 1)], wants[n + s + 1])
    BY <1>5, <2>1
  <2>3. cmds[1].op = "read"
    BY <2>1, <2>2 DEF Due
  <2> QED
    BY <1>4, <2>3
<1> DEFINE n2 == Len(got2)
           s2 == Len(sent2)
           k2 == Len(cmds2)
<1>11. n2 = n + gone /\ s2 = s - gone + came /\ k2 = k - took /\ gone <= s
  BY <1>1, <1>2, <1>3 DEF Advances
<1> HIDE DEF n, s, k, W, n2, s2, k2
<1>12. n2 + s2 <= W /\ W <= n2 + s2 + k2 /\ n2 <= W
  <2>1. n + s <= W /\ W <= n + s + k /\ gone <= s
    BY <1>5, <1>11
  <2>2. came = 1 => k = W - n - s
    BY <1>9
  <2>3. took = 1 => k >= 1
    BY <1>4
  <2>4. took = 1 /\ came = 0 => W < n + s + k
    BY <1>10
  <2>5. (took = 0 => came = 0) /\ came \in 0 .. 1
    OBVIOUS
  <2>6. n2 = n + gone /\ s2 = s - gone + came /\ k2 = k - took
    BY <1>11
  <2>7. CASE took = 0
    BY <1>1, <2>1, <2>5, <2>6, <2>7
  <2>8. CASE took = 1 /\ came = 0
    BY <1>1, <2>1, <2>4, <2>6, <2>8
  <2>9. CASE took = 1 /\ came = 1
    BY <1>1, <2>1, <2>2, <2>3, <2>6, <2>9
  <2> QED
    BY <2>5, <2>7, <2>8, <2>9
<1>13. ASSUME NEW j \in 1 .. s2
       PROVE  Right(sent2[j], wants[n2 + j])
  <2>1. CASE j <= s - gone
    <3>1. j \in 1 .. s - gone /\ j + gone \in 1 .. s /\ n2 + j = n + (j + gone)
      BY <1>1, <1>11, <2>1
    <3>2. sent2[j] = sent[j + gone]
      BY <3>1 DEF s, Advances
    <3> QED
      BY <1>5, <3>1, <3>2
  <2>2. CASE ~(j <= s - gone)
    <3>1. came = 1 /\ j = s2 /\ n2 + j = n + s + 1 /\ took = 1
      BY <1>1, <1>11, <2>2
    <3> DEFINE read == wants[n + s + 1]
               cmd == Head(cmds)
    <3>2. Due(mem, cmds, cmd, read) /\ k = W - n - s
      BY <1>9, <3>1
    <3>3. n + s + 1 \in 1 .. W
      BY <1>1, <1>4, <3>1, <3>2
    <3>4. read.a \in Ram /\ read \in Reads
      BY <3>3, ElementOfSeq DEF W
    <3>5. Sound(mem, sent2[j], cmd.w)
      BY <3>1 DEF s2, Consumes
    <3>6. cmd.w = Word(read.a) /\ (read.d = Unknown \/ Final(mem, cmds, read.a, read.d))
      BY <3>2 DEF Due
    <3>7. ASSUME Final(mem, cmds, read.a, read.d)
          PROVE  mem[read.a] = read.d
      <4>1. \A i \in 1 .. k : cmds[i].op = "read"
        <5> SUFFICES ASSUME NEW i \in 1 .. k PROVE cmds[i].op = "read"
          OBVIOUS
        <5>1. n + s + i \in 1 .. W /\ n + s + i > n + s /\ k - W + (n + s + i) = i
          <6>1. k = W - n - s
            BY <3>2
          <6> QED
            BY <1>1, <6>1, NthRead
        <5>2. Due(mem, cmds, cmds[k - W + (n + s + i)], wants[n + s + i])
          BY <1>5, <5>1
        <5> QED
          BY <5>1, <5>2 DEF Due
      <4>2. \A i \in 1 .. Len(cmds) : ~Writes(cmds[i], read.a)
        BY <4>1 DEF Writes, k
      <4> HIDE DEF read
      <4> QED
        BY <3>7, <4>2 DEF Final
    <3>8. read.a \in Nat /\ 2 * Word(read.a) + Lane(read.a) = read.a /\ Lane(read.a) \in Lanes
      BY <3>4, BackendAssumption, Halves DEF Ram
    <3>9. sent2[j][Lane(read.a)] = mem[read.a]
      BY <3>4, <3>5, <3>6, <3>8 DEF Sound
    <3> QED
      BY <3>1, <3>6, <3>7, <3>9 DEF Right
  <2> QED
    BY <2>1, <2>2
<1>14. ASSUME NEW j \in 1 .. W, j > n2 + s2
       PROVE  Due(then, cmds2, cmds2[k2 - W + j], wants[j])
  <2>1. /\ j > n + s /\ k2 - W + j \in 1 .. k - took
        /\ (k2 - W + j) + took = k - W + j
    BY <1>1, <1>3, <1>5, <1>11, <1>12, <1>14
  <2>2. cmds2[k2 - W + j] = cmds[k - W + j]
    BY <1>3, <2>1 DEF k
  <2>3. Due(mem, cmds, cmds[k - W + j], wants[j])
    BY <1>5, <2>1
  <2>4. wants[j].a \in Ram
    BY DEF W
  <2> QED
    BY <1>8, <2>2, <2>3, <2>4
<1>15. ASSUME NEW i \in 1 .. k2, i <= k2 + n2 + s2 - W
       PROVE  cmds2[i].op = "write"
  <2>1. /\ i \in 1 .. k - took /\ i + took \in 1 .. k
    BY <1>1, <1>3, <1>11
  <2>2. cmds2[i] = cmds[i + took]
    BY <1>3, <2>1 DEF k
  <2>3. i + took <= k + n + s - W
    BY <1>1, <1>9, <1>11, <1>15
  <2> QED
    BY <1>5, <2>1, <2>2, <2>3
<1>16. ASSUME NEW j \in 1 .. n2
       PROVE  Right(got2[j], wants[j])
  <2>1. CASE j <= n
    BY <1>1, <1>2, <1>6, <1>11, <2>1 DEF n
  <2>2. CASE ~(j <= n)
    <3>1. gone = 1 /\ j = n + 1 /\ 1 \in 1 .. s
      BY <1>1, <1>11, <2>2
    <3> QED
      BY <1>2, <1>5, <3>1 DEF n
  <2> QED
    BY <2>1, <2>2
<1>17. Got(got2, wants)
  BY <1>12, <1>16 DEF Got, n2, W
<1>18. Piped(then, cmds2, sent2, got2, wants)
  BY <1>12, <1>13, <1>14, <1>15 DEF Piped, n2, s2, k2, W
<1> QED
  BY <1>17, <1>18

-----------------------------------------------------------------------------
(* The inductive invariant.                                                *)

held == rst_all \/ bist_active
Tests == {"WAIT", "WRITE", "WR_GAP", "READ", "RD_WAIT", "DONE"}

BackendType ==
  /\ config \in Configs /\ presses \in 0 .. MaxResets
  /\ req \in Bus!Commands \cup {Bus!NoCommand} /\ issued \in 0 .. MaxOwed
  /\ block \in [Block -> Byte] /\ romq \in Byte \cup {None}
  /\ lanes \in Seq(Lanes) /\ out_count \in Nat /\ flush_valid \in BOOLEAN
  /\ bist \in [state : Tests, idx : 1 .. Len(SelfTest), err : {0}]
  /\ Len(wr) <= FifoDepth /\ Bus!BusType

(* A reset lasts until nothing is left of what it found.                   *)
Quiet ==
  /\ wr = <<>> /\ rd = <<>> /\ burst = <<>> /\ cache = Empty /\ ~c_pending
  /\ out_count = 0 /\ ~flush_valid
ResetInv ==
  /\ resets.meta /\ ~resets.hr => resets.sync
  /\ rst_all /\ ~(resets.hr /\ resets.meta) => Quiet
  /\ rst_all /\ ~resets.meta => romq = None
  /\ resets.seen => cache = Empty /\ ~c_pending /\ burst = <<>>
  /\ flush_valid => rst_all /\ resets.sync /\ resets.hr /\ resets.meta

(* The reads that are counted on either side.                              *)
CountInv ==
  /\ AnswersCounted
  /\ Len(lanes) = out_count
  /\ Len(owed) + Bit(req.op = "read") <= issued
  /\ req.op = "write" => owed = <<>>
  /\ romq # None => out_count = 0 /\ ~flush_valid
  /\ ~rst_all /\ bist_active => owed = <<>>

(* The promises: the block RAM's bytes; nothing of the HyperRAM in a reset *)
(* and in the self test; of each read owed, where its byte comes from.     *)
OwedInv ==
  /\ \A a \in Block : told[a] = block[a]
  /\ held => \A a \in Ram : told[a] = Unknown
  /\ romq # None => /\ owed # <<>> /\ owed[1].a \in Block /\ owed[1].d = romq
  /\ romq = None => \A i \in 1 .. Len(owed) : owed[i].a \in Ram
  /\ ~rst_all /\ ~bist_active =>
       \A i \in 1 .. out_count : lanes[out_count + 1 - i] = Lane(Wants[i].a)

(* What the self test has written.                                         *)
Tried(a, d) ==
  /\ bist.state \notin {"WAIT", "DONE"}
  /\ \E i \in 1 .. Len(SelfTest) :
       /\ SelfTest[i] = <<a, d>>
       /\ bist.state = "WRITE" => i < bist.idx
MemInv ==
  ~rst_all /\ ~resets.hr =>
    \A a \in Ram, d \in Byte :
      told[a] = d \/ Tried(a, d) => Final(Memory, wr, a, d)

FifoInv ==
  /\ ~rst_all => Got(rd, Wants)
  /\ ~rst_all /\ ~resets.hr => Piped(Memory, wr, Sent, rd, Wants)

BackendInv ==
  /\ HyperInv /\ BackendType /\ ResetInv /\ CountInv /\ OwedInv /\ MemInv
  /\ FifoInv

-----------------------------------------------------------------------------
(* At the start, and what a step leaves alone.                             *)

ResetsType == [cold : BOOLEAN, hr : BOOLEAN, meta : BOOLEAN, sync : BOOLEAN,
               seen : BOOLEAN]

LEMMA TestFacts ==
  /\ Len(SelfTest) \in Nat /\ Len(SelfTest) >= 1 /\ 1 \in 1 .. Len(SelfTest)
  /\ \A i \in 1 .. Len(SelfTest) :
       /\ SelfTest[i] = <<SelfTest[i][1], SelfTest[i][2]>>
       /\ SelfTest[i][1] \in Ram /\ SelfTest[i][2] \in Byte
<1>1. Len(SelfTest) \in Nat /\ Len(SelfTest) >= 1
  BY BackendAssumption, LenProperties, EmptySeq
<1>2. \A i \in 1 .. Len(SelfTest) : SelfTest[i] \in Ram \X Byte
  BY BackendAssumption, ElementOfSeq DEF Ram
<1> QED
  BY <1>1, <1>2

LEMMA AddrFacts ==
  /\ \A a \in Ram : a \in Addr /\ a \in Nat /\ a \notin Block
  /\ \A a \in Addr : a \in Nat /\ (a \in Ram <=> a \notin Block)
  /\ \A a \in Block : a \in Addr
  /\ Unknown \notin Byte /\ Dummy \notin Byte /\ None \notin Byte
  /\ Dummy # Unknown /\ Dummy # None /\ Unknown # None /\ RomByte \in Byte
BY BackendAssumption, NoneIs DEF Ram

LEMMA SideKept ==
  ASSUME UNCHANGED <<config, sideVars>>
  PROVE  /\ Sent' = Sent /\ Memory' = Memory /\ cached' = cached
         /\ CacheInv' <=> CacheInv
         /\ LineCurrent' <=> LineCurrent
<1>1. /\ cache' = cache /\ c_pending' = c_pending /\ hyper' = hyper
      /\ burst' = burst /\ config' = config
  BY DEF sideVars
<1>2. cached' = cached /\ \A w : Contents(w)' = Contents(w)
  BY <1>1 DEF cached, Contents
<1>3. \A a : Written(a)' = Written(a)
  BY <1>1 DEF Written
<1>4. Sent' = Sent
  BY <1>1, <1>2 DEF Sent, SentWord
<1>5. Memory' = Memory
  BY <1>3 DEF Memory
<1>6. Fills' <=> Fills
  BY <1>1, <1>2 DEF Fills
<1>7. CacheInv' <=> CacheInv
  BY <1>1, <1>2, <1>6 DEF CacheInv, CacheState, Awaited
<1>8. LineCurrent' <=> LineCurrent
  BY <1>1, <1>3 DEF LineCurrent
<1> QED
  BY <1>2, <1>4, <1>5, <1>7, <1>8

LEMMA WantsKept ==
  ASSUME UNCHANGED <<bist, romq, owed>>
  PROVE  Wants' = Wants /\ bist_active' = bist_active
BY DEF Wants, Tested, bist_active

LEMMA BackendStarts == Init => BackendInv
<1> SUFFICES ASSUME Init PROVE BackendInv
  OBVIOUS
<1>1. HyperInv
  <2>1. HyperType
    <3>1. hyper \in [Ram -> Byte]
      BY AddrFacts DEF Init, Ram
    <3>2. config \in [cache : BOOLEAN, bist : BOOLEAN]
      BY BackendAssumption DEF Init
    <3>3. /\ wr = <<>> /\ rd = <<>> /\ burst = <<>> /\ cache = Empty
          /\ c_pending = FALSE
          /\ resets = [cold |-> TRUE, hr |-> TRUE, meta |-> TRUE,
                       sync |-> TRUE, seen |-> TRUE]
      BY DEF Init, CacheInit
    <3> QED
      BY <3>1, <3>2, <3>3, EmptyIs, EmptySeq DEF HyperType
  <2>2. /\ cache = Empty /\ ~c_pending /\ burst = <<>>
    BY DEF Init, CacheInit
  <2>3. CacheInv
    BY <2>2, EmptyIs, NoWordIs DEF CacheInv, CacheState, Awaited
  <2>4. LineCurrent
    BY <2>2, EmptyIs DEF LineCurrent
  <2> QED
    BY <2>1, <2>3, <2>4 DEF HyperInv
<1>2. \A a \in Addr : told[a] = IF a \in Block THEN RomByte ELSE Unknown
  BY DEF Init, Bus!Forget
<1>3. BackendType
  <2>1. told \in [Addr -> Byte \cup {Unknown}]
    BY AddrFacts DEF Init, Bus!Forget
  <2>2. Bus!BusType
    BY <2>1 DEF Init, Bus!BusType, bist_active, rst_all
  <2>3. bist \in [state : Tests, idx : 1 .. Len(SelfTest), err : {0}]
    BY TestFacts DEF Init, Tests
  <2>4. block \in [Block -> Byte]
    BY AddrFacts DEF Init
  <2>5. /\ Len(wr) <= FifoDepth /\ issued \in 0 .. MaxOwed
        /\ presses \in 0 .. MaxResets
    BY BackendAssumption DEF Init
  <2>6. lanes \in Seq(Lanes) /\ out_count \in Nat /\ flush_valid \in BOOLEAN
    BY EmptySeq DEF Init
  <2> QED
    BY <2>2, <2>3, <2>4, <2>5, <2>6 DEF Init, BackendType
<1>4. ResetInv
  BY DEF Init, CacheInit, ResetInv, rst_all
<1>5. CountInv
  BY DEF Init, CountInv, AnswersCounted, Bit, Bus!NoCommand
<1>6. OwedInv
  <2>1. /\ owed = <<>> /\ Len(owed) = 0 /\ romq = None /\ resets.cold
        /\ block = [a \in Block |-> RomByte]
    BY DEF Init
  <2> QED
    BY <1>2, <2>1, AddrFacts DEF OwedInv, rst_all
<1>7. rst_all
  BY DEF Init, rst_all
<1> QED
  BY <1>1, <1>3, <1>4, <1>5, <1>6, <1>7 DEF BackendInv, MemInv, FifoInv

-----------------------------------------------------------------------------
(* The button.                                                             *)

LEMMA PressKeeps == BackendInv /\ Press => BackendInv'
<1> SUFFICES ASSUME BackendInv, Press PROVE BackendInv'
  OBVIOUS
<1>1. /\ resets' = [resets EXCEPT !.hr = TRUE] /\ presses' = presses + 1
      /\ presses < MaxResets /\ ~resets.hr
      /\ UNCHANGED <<config, wr, rd, sideVars, busVars>>
  BY DEF Press
<1>2. resets \in ResetsType /\ HyperType
  BY DEF BackendInv, HyperInv, HyperType, ResetsType
<1>3. /\ resets' \in ResetsType /\ resets'.hr /\ resets'.cold = resets.cold
      /\ resets'.meta = resets.meta /\ resets'.sync = resets.sync
      /\ resets'.seen = resets.seen
  BY <1>1, <1>2 DEF ResetsType
<1>4. /\ Sent' = Sent /\ Memory' = Memory /\ cached' = cached
      /\ CacheInv' /\ LineCurrent' /\ Wants' = Wants
      /\ bist_active' = bist_active
  BY <1>1, SideKept, WantsKept DEF busVars, BackendInv, HyperInv
<1>5. rst_all' = rst_all
  BY <1>3 DEF rst_all
<1>6. HyperInv'
  BY <1>1, <1>2, <1>3, <1>4 DEF HyperInv, HyperType, sideVars, ResetsType
<1>7. BackendType'
  <2>1. presses + 1 \in 0 .. MaxResets
    BY <1>1, BackendAssumption DEF BackendInv, BackendType
  <2>2. Bus!BusType'
    BY <1>1, <1>4, <1>5 DEF BackendInv, BackendType, Bus!BusType, busVars
  <2> QED
    BY <1>1, <2>1, <2>2 DEF BackendInv, BackendType, busVars
<1>8. ResetInv'
  BY <1>1, <1>3, <1>5 DEF BackendInv, ResetInv, Quiet, sideVars, busVars
<1>9. CountInv'
  BY <1>1, <1>4, <1>5 DEF BackendInv, CountInv, AnswersCounted, busVars
<1>10. OwedInv'
  BY <1>1, <1>4, <1>5 DEF BackendInv, OwedInv, busVars, held
<1>11. MemInv' /\ FifoInv'
  BY <1>1, <1>3, <1>4, <1>5 DEF BackendInv, MemInv, FifoInv
<1> QED
  BY <1>6, <1>7, <1>8, <1>9, <1>10, <1>11 DEF BackendInv

LEMMA ReleaseKeeps == BackendInv /\ Release => BackendInv'
<1> SUFFICES ASSUME BackendInv, Release PROVE BackendInv'
  OBVIOUS
<1>1. /\ resets' = [resets EXCEPT !.hr = FALSE] /\ resets.hr /\ Drained
      /\ UNCHANGED <<config, presses, wr, rd, sideVars, busVars>>
  BY DEF Release
<1>2. resets \in ResetsType /\ HyperType
  BY DEF BackendInv, HyperInv, HyperType, ResetsType
<1>3. /\ resets' \in ResetsType /\ ~resets'.hr /\ resets'.cold = resets.cold
      /\ resets'.meta = resets.meta /\ resets'.sync = resets.sync
      /\ resets'.seen = resets.seen
  BY <1>1, <1>2 DEF ResetsType
<1>4. /\ Sent' = Sent /\ Memory' = Memory /\ cached' = cached
      /\ CacheInv' /\ LineCurrent' /\ Wants' = Wants
      /\ bist_active' = bist_active
  BY <1>1, SideKept, WantsKept DEF busVars, BackendInv, HyperInv
<1>5. rst_all' = rst_all /\ rst_all
  BY <1>1, <1>3 DEF rst_all, Drained
<1>6. HyperInv'
  BY <1>1, <1>2, <1>3, <1>4 DEF HyperInv, HyperType, sideVars, ResetsType
<1>7. BackendType'
  <2>1. Bus!BusType'
    BY <1>1, <1>4, <1>5 DEF BackendInv, BackendType, Bus!BusType, busVars
  <2> QED
    BY <1>1, <2>1 DEF BackendInv, BackendType, busVars
<1>8. Quiet
  BY <1>1, <1>5 DEF Quiet, Drained, Flushes, Real, BackendInv, ResetInv
<1>9. ResetInv'
  BY <1>1, <1>3, <1>5, <1>8
     DEF BackendInv, ResetInv, Quiet, sideVars, busVars, Drained
<1>10. CountInv'
  BY <1>1, <1>4, <1>5 DEF BackendInv, CountInv, AnswersCounted, busVars
<1>11. OwedInv'
  BY <1>1, <1>4, <1>5 DEF BackendInv, OwedInv, busVars, held
<1>12. MemInv' /\ FifoInv'
  BY <1>1, <1>3, <1>4, <1>5 DEF BackendInv, MemInv, FifoInv
<1> QED
  BY <1>6, <1>7, <1>9, <1>10, <1>11, <1>12 DEF BackendInv

-----------------------------------------------------------------------------
(* A clock of the HyperRAM.                                                *)

LEMMA TickExecutes ==
  ASSUME NEW cmd, NEW beat, NEW wt, Ticks(cmd, beat, wt), ~resets.hr
  PROVE  Executed(Memory, Memory', wr, wr')
<1> SUFFICES ASSUME NEW a \in Ram, NEW d, Final(Memory, wr, a, d)
             PROVE  Final(Memory', wr', a, d)
  BY DEF Executed
<1>1. CASE ~Took(cmd, beat, wt)
  BY <1>1, FifosMove, MemoryMoves DEF TookA
<1>2. CASE Took(cmd, beat, wt)
  <2>1. /\ cmd \in RamCommands /\ wr # <<>> /\ cmd = Head(wr) /\ wr' = Tail(wr)
        /\ wr \in Seq(RamCommands)
    BY <1>2, FifosMove, TickInputs DEF HyperType
  <2>2. Memory \in [Ram -> Byte \cup {None}]
    <3>1. cache \in CacheRegs /\ hyper \in [Ram -> Byte]
      BY TickInputs DEF HyperType
    <3>2. cache.m.d \in Byte \cup {None}
      BY <3>1 DEF CacheRegs, Slots
    <3> QED
      BY <3>1, <3>2 DEF Memory, Written
  <2>3. CASE Writes(cmd, a)
    <3>1. Memory' = [Memory EXCEPT ![2 * cmd.w + cmd.lane] = cmd.d]
      BY <1>2, <2>3, MemoryMoves DEF TookA, Writes, StoresByte
    <3>2. Memory'[a] = cmd.d
      BY <2>2, <2>3, <3>1 DEF Writes
    <3> QED
      BY <2>1, <2>3, <3>2, FinalTaken
  <2>4. CASE ~Writes(cmd, a)
    <3>1. Memory'[a] = Memory[a]
      <4>1. CASE cmd.op = "write"
        <5>1. Memory' = [Memory EXCEPT ![2 * cmd.w + cmd.lane] = cmd.d]
          BY <1>2, <4>1, MemoryMoves DEF TookA, StoresByte
        <5> QED
          BY <2>2, <2>4, <4>1, <5>1 DEF Writes
      <4>2. CASE cmd.op # "write"
        BY <4>2, MemoryMoves DEF TookA
      <4> QED
        BY <4>1, <4>2
    <3> QED
      BY <2>1, <2>4, <3>1, FinalTaken
  <2> QED
    BY <2>3, <2>4
<1> QED
  BY <1>1, <1>2

(* Nothing happens in a quiet backend.                                     *)
LEMMA QuietTick ==
  ASSUME NEW cmd, NEW beat, NEW wt, Ticks(cmd, beat, wt), ~resets.hr,
         wr = <<>>, rd = <<>>, burst = <<>>, cache = Empty, ~c_pending
  PROVE  /\ wr' = <<>> /\ rd' = <<>> /\ burst' = <<>> /\ cache' = Empty
         /\ ~c_pending'
<1>1. ~Offered(cmd) /\ ~Took(cmd, beat, wt) /\ beat = None /\ wt \in BOOLEAN
  BY TickInputs DEF Took, Beaten
<1>2. wr' = <<>>
  BY <1>1, FifosMove
<1>3. Answer(beat) = None
  BY <1>1 DEF Answer
<1>4. rd' = <<>>
  BY <1>3, FifosMove
<1>5. CASE cached
  <2> DEFINE see == CacheSees(cmd)
  <2>1. Serves(see, beat, wt) /\ ~Accepts(see, beat, wt) /\ ~c_pending'
    BY <1>1, <1>5, CachedTick DEF TookA
  <2>2. cache \in CacheRegs /\ cache.state = "IDLE" /\ cache.m = NoWord
        /\ cache.answer = None
    BY EmptyIs
  <2> HIDE DEF see
  <2>3. burst' = <<>>
    BY <2>1, <2>2, IdleExecutes
  <2>4. CacheIdle(see, beat, wt)
    BY <2>1, <2>2 DEF Serves, CacheStep, CacheReading
  <2>5. Unaccepted(see, beat, wt)
    BY <1>1, <2>1, <2>2, <2>4, CacheIdles
       DEF TakesWrite, Hits, HitsHalf, Misses
  <2>6. Kept(wt) = NoWord
    BY <2>2 DEF Kept
  <2>7. cache' = cache
    BY <2>2, <2>5, <2>6, Registers DEF Unaccepted
  <2> QED
    BY <1>2, <1>4, <2>1, <2>3, <2>7
<1>6. CASE ~cached
  <2>1. burst' = Sending(beat)
    BY <1>1, <1>6, UncachedTick DEF TookA
  <2> QED
    BY <1>1, <1>2, <1>4, <1>6, <2>1, UncachedTick DEF Sending
<1> QED
  BY <1>5, <1>6

LEMMA TickPipes ==
  ASSUME NEW cmd, NEW beat, NEW wt, Ticks(cmd, beat, wt), ~resets.hr,
         NEW wants \in Seq(Reads), \A j \in 1 .. Len(wants) : wants[j].a \in Ram,
         Piped(Memory, wr, Sent, rd, wants), Got(rd, wants)
  PROVE  Piped(Memory', wr', Sent', rd', wants) /\ Got(rd', wants)
<1> DEFINE took == IF Took(cmd, beat, wt) THEN 1 ELSE 0
           came == Came(cmd, beat, wt)
           gone == Gone(beat)
<1>1. /\ gone \in 0 .. 1 /\ took \in 0 .. 1 /\ came \in 0 .. took
  BY DEF Gone, Came, TookA
<1>2. /\ Queued(cmd, beat, wt) /\ Sent \in Seq(Words) /\ Sent' \in Seq(Words)
  BY SentMoves
<1>3. wr \in Seq(RamCommands) /\ rd \in Seq(Words)
  BY TickInputs DEF HyperType
<1>4. Advances(Sent, Sent', rd, rd', gone, came)
  <2>1. /\ gone = 0 <=> Answer(beat) = None
        /\ gone = 1 <=> Answer(beat) # None
    BY DEF Gone
  <2>2. /\ Answer(beat) = None => rd' = rd
        /\ Answer(beat) # None => rd' = Append(rd, Answer(beat))
    BY FifosMove
  <2> QED
    BY <1>2, <2>1, <2>2 DEF Advances, Queued
<1>5. Consumes(Memory, wr, wr', Sent', took, came)
  <2>1. /\ took = 1 <=> Took(cmd, beat, wt)
        /\ took = 0 <=> ~Took(cmd, beat, wt)
        /\ came = 1 <=> TookA("read", cmd, beat, wt)
    BY DEF Came
  <2>2. /\ Took(cmd, beat, wt) =>
             cmd \in RamCommands /\ wr # <<>> /\ cmd = Head(wr) /\ wr' = Tail(wr)
        /\ ~Took(cmd, beat, wt) => wr' = wr
    BY FifosMove
  <2>3. cmd \in RamCommands => cmd.op \in {"read", "write"}
    BY CommandIs
  <2>4. TookA("read", cmd, beat, wt) =>
          Took(cmd, beat, wt) /\ Sound(Memory, Sent'[Len(Sent')], cmd.w)
    BY <1>2 DEF Queued, TookA
  <2> HIDE DEF took, came
  <2> QED
    BY <2>1, <2>2, <2>3, <2>4 DEF Consumes, TookA
<1>6. Executed(Memory, Memory', wr, wr')
  BY TickExecutes
<1> HIDE DEF took, came, gone
<1> QED
  BY <1>1, <1>2, <1>3, <1>4, <1>5, <1>6, PipeTicks

LEMMA WantsTyped ==
  ASSUME BackendType, OwedInv
  PROVE  /\ Wants \in Seq(Reads)
         /\ \A j \in 1 .. Len(Wants) : Wants[j].a \in Ram
<1>1. owed \in Seq(Reads)
  BY DEF BackendType, Bus!BusType, Reads
<1>2. bist.idx \in 1 .. Len(SelfTest)
  BY DEF BackendType
<1>3. Tested[1] \in Ram /\ Tested[2] \in Byte
  BY <1>2, TestFacts DEF Tested
<1>4. [a |-> Tested[1], d |-> Tested[2]] \in Reads
  BY <1>3, AddrFacts DEF Reads
<1>5. CASE Wants = <<[a |-> Tested[1], d |-> Tested[2]]>>
  BY <1>3, <1>4, <1>5
<1>6. CASE Wants = <<>>
  BY <1>6, EmptySeq
<1>7. CASE Wants = owed /\ romq = None
  BY <1>1, <1>7 DEF OwedInv
<1> QED
  BY <1>5, <1>6, <1>7 DEF Wants

LEMMA TickKeeps == BackendInv /\ Hyper => BackendInv'
<1> SUFFICES ASSUME BackendInv, Hyper PROVE BackendInv'
  OBVIOUS
<1>1. PICK cmd \in Through(wr, NoWord), beat \in Through(burst, None),
          wt \in BOOLEAN : HyperTick(cmd, beat, wt)
  BY DEF Hyper
<1>2. Ticks(cmd, beat, wt)
  BY <1>1 DEF Ticks, BackendInv
<1>3. /\ UNCHANGED <<config, presses, busVars>>
      /\ resets' = [resets EXCEPT !.seen = resets.hr]
  BY <1>1 DEF HyperTick
<1>4. resets \in ResetsType /\ wr \in Seq(RamCommands) /\ rd \in Seq(Words)
  BY DEF BackendInv, HyperInv, HyperType, ResetsType
<1>5. /\ resets'.hr = resets.hr /\ resets'.cold = resets.cold
      /\ resets'.meta = resets.meta /\ resets'.sync = resets.sync
      /\ resets'.seen = resets.hr
  BY <1>3, <1>4 DEF ResetsType
<1>6. rst_all' = rst_all /\ Wants' = Wants /\ bist_active' = bist_active
  BY <1>3, <1>5, WantsKept DEF rst_all, busVars
<1>7. HyperInv'
  BY <1>2, HyperKeeps
<1>8. wr' = wr \/ (wr # <<>> /\ wr' = Tail(wr))
  <2>1. CASE resets.hr
    BY <1>2, <2>1, HyperResets
  <2>2. CASE ~resets.hr
    BY <1>2, <2>2, FifosMove
  <2> QED
    BY <2>1, <2>2
<1>9. BackendType'
  <2>1. Len(wr') <= FifoDepth
    <3>1. Len(wr) <= FifoDepth /\ FifoDepth \in Nat
      BY BackendAssumption DEF BackendInv, BackendType
    <3>2. CASE wr' = wr
      BY <3>1, <3>2
    <3>3. CASE wr # <<>> /\ wr' = Tail(wr)
      <4>1. Len(Tail(wr)) = Len(wr) - 1 /\ Len(wr) \in Nat
        BY <1>4, <3>3, TailIs
      <4> QED
        BY <3>1, <3>3, <4>1
    <3> QED
      BY <1>8, <3>2, <3>3
  <2>2. Bus!BusType'
    BY <1>3, <1>6 DEF BackendInv, BackendType, Bus!BusType, busVars
  <2> QED
    BY <1>3, <2>1, <2>2 DEF BackendInv, BackendType, busVars
<1>10. ResetInv'
  <2>1. ResetInv
    BY DEF BackendInv
  <2>2. out_count' = out_count /\ flush_valid' = flush_valid /\ romq' = romq
    BY <1>3 DEF busVars
  <2>3. rst_all /\ ~(resets.hr /\ resets.meta) => Quiet'
    <3> SUFFICES ASSUME rst_all, ~(resets.hr /\ resets.meta) PROVE Quiet'
      OBVIOUS
    <3>1. /\ wr = <<>> /\ rd = <<>> /\ burst = <<>> /\ cache = Empty
          /\ ~c_pending /\ out_count = 0 /\ ~flush_valid
      BY <2>1 DEF ResetInv, Quiet
    <3>2. CASE resets.hr
      <4>1. wr' = <<>>
        BY <1>8, <3>1
      <4> QED
        BY <1>2, <2>2, <3>1, <3>2, <4>1, HyperResets DEF Quiet
    <3>3. CASE ~resets.hr
      BY <1>2, <2>2, <3>1, <3>3, QuietTick DEF Quiet
    <3> QED
      BY <3>2, <3>3
  <2>4. resets'.seen => cache' = Empty /\ ~c_pending' /\ burst' = <<>>
    BY <1>2, <1>5, HyperResets
  <2> QED
    BY <1>5, <1>6, <2>1, <2>2, <2>3, <2>4 DEF ResetInv
<1>11. CountInv'
  BY <1>3, <1>6 DEF BackendInv, CountInv, AnswersCounted, busVars
<1>12. OwedInv'
  BY <1>3, <1>6 DEF BackendInv, OwedInv, busVars, held
<1>13. CASE resets.hr
  <2>1. rd' \in {rd, <<>>}
    BY <1>2, <1>13, HyperResets
  <2>2. Got(<<>>, Wants)
    <3>1. Len(Wants) \in Nat
      BY WantsTyped, LenProperties DEF BackendInv
    <3> QED
      BY <3>1 DEF Got
  <2>3. MemInv' /\ FifoInv'
    BY <1>5, <1>6, <1>13, <2>1, <2>2 DEF BackendInv, MemInv, FifoInv
  <2> QED
    BY <1>7, <1>9, <1>10, <1>11, <1>12, <2>3 DEF BackendInv
<1>14. CASE ~resets.hr
  <2>1. Executed(Memory, Memory', wr, wr')
    BY <1>2, <1>14, TickExecutes
  <2>2. MemInv'
    <3>1. MemInv /\ told' = told /\ \A a, d : Tried(a, d)' <=> Tried(a, d)
      BY <1>3 DEF BackendInv, busVars, Tried
    <3> QED
      BY <1>5, <1>6, <1>14, <2>1, <3>1 DEF MemInv, Executed
  <2>3. FifoInv'
    <3>1. CASE rst_all
      BY <1>6, <3>1 DEF FifoInv
    <3>2. CASE ~rst_all
      <4>1. Piped(Memory, wr, Sent, rd, Wants) /\ Got(rd, Wants)
        BY <1>14, <3>2 DEF BackendInv, FifoInv
      <4>2. /\ Wants \in Seq(Reads)
            /\ \A j \in 1 .. Len(Wants) : Wants[j].a \in Ram
        BY WantsTyped DEF BackendInv
      <4>3. Piped(Memory', wr', Sent', rd', Wants) /\ Got(rd', Wants)
        BY <1>2, <1>14, <4>1, <4>2, TickPipes
      <4> QED
        BY <1>6, <4>3 DEF FifoInv
    <3> QED
      BY <3>1, <3>2
  <2> QED
    BY <1>7, <1>9, <1>10, <1>11, <1>12, <2>2, <2>3 DEF BackendInv
<1> QED
  BY <1>13, <1>14

-----------------------------------------------------------------------------
(* A clock of the chipset: its inputs, what is taken, what is answered.    *)

Clocks(word, cold) ==
  /\ BackendInv /\ ClkTick(word, cold)
  /\ word \in Through(rd, None) /\ cold \in BOOLEAN

LEMMA ClockInputs ==
  ASSUME NEW word, NEW cold, Clocks(word, cold)
  PROVE  /\ word \in Words \cup {None}
         /\ word # None => rd # <<>> /\ word = rd[1] /\ rd' = Tail(rd)
         /\ word = None => rd' = rd
         /\ rd \in Seq(Words) /\ rd' \in Seq(Words) /\ wr \in Seq(RamCommands)
         /\ resets' \in ResetsType /\ resets'.cold = cold /\ resets'.hr = resets.hr
         /\ resets'.meta = resets.hr /\ resets'.sync = resets.meta
         /\ resets'.seen = resets.seen /\ resets \in ResetsType
         /\ cold => resets.cold
         /\ UNCHANGED <<config, presses, sideVars>>
         /\ Sent' = Sent /\ Memory' = Memory /\ CacheInv' /\ LineCurrent'
<1>1. /\ word # None => rd # <<>> /\ word = Head(rd)
      /\ rd' = IF word = None THEN rd ELSE Tail(rd)
      /\ resets' = [resets EXCEPT !.cold = cold, !.meta = resets.hr,
                                  !.sync = resets.meta]
      /\ (cold => resets.cold) /\ cold \in BOOLEAN
      /\ UNCHANGED <<config, presses, sideVars>>
  BY DEF Clocks, ClkTick
<1>2. rd \in Seq(Words) /\ resets \in ResetsType /\ wr \in Seq(RamCommands)
  BY DEF Clocks, BackendInv, HyperInv, HyperType, ResetsType
<1>3. /\ word \in Words \cup {None}
      /\ word # None => rd # <<>> /\ word = rd[1] /\ rd' = Tail(rd)
      /\ word = None => rd' = rd
      /\ rd' \in Seq(Words)
  <2>1. rd # <<>> => Head(rd) = rd[1] /\ rd[1] \in Words /\ Tail(rd) \in Seq(Words)
    BY <1>2, TailIs
  <2> QED
    BY <1>1, <1>2, <2>1
<1>4. /\ resets' \in ResetsType /\ resets'.cold = cold /\ resets'.hr = resets.hr
      /\ resets'.meta = resets.hr /\ resets'.sync = resets.meta
      /\ resets'.seen = resets.seen
  <2>1. /\ resets.hr \in BOOLEAN /\ resets.meta \in BOOLEAN
        /\ resets.sync \in BOOLEAN /\ resets.seen \in BOOLEAN
    BY <1>2 DEF ResetsType
  <2>2. resets' \in [cold : {cold}, hr : {resets.hr}, meta : {resets.hr},
                     sync : {resets.meta}, seen : {resets.seen}]
    BY <1>1, <1>2 DEF ResetsType
  <2>3. cold \in BOOLEAN
    BY <1>1
  <2> HIDE <1>1
  <2>4. /\ resets'.cold = cold /\ resets'.hr = resets.hr
        /\ resets'.meta = resets.hr /\ resets'.sync = resets.meta
        /\ resets'.seen = resets.seen
    BY <2>2
  <2>5. resets' \in ResetsType
    BY <2>1, <2>2, <2>3 DEF ResetsType
  <2> QED
    BY <2>4, <2>5
<1>5. /\ Sent' = Sent /\ Memory' = Memory /\ CacheInv' /\ LineCurrent'
  BY <1>1, SideKept DEF Clocks, BackendInv, HyperInv
<1> QED
  BY <1>1, <1>2, <1>3, <1>4, <1>5

LEMMA TakenIs ==
  ASSUME BackendInv
  PROVE  /\ Taken => /\ ~rst_all /\ ~bist_active
                     /\ req \in Bus!Commands /\ req.op \in {"read", "write"}
                     /\ req.a \in Addr /\ req.d \in Byte
         /\ Taken /\ sel_rom(req.a) => out_count = 0 /\ req.a \in Block
         /\ Taken /\ ~sel_rom(req.a) => ~FifoFull /\ req.a \in Ram
         /\ ~TakenFor("read") => (IF Taken THEN req ELSE Bus!NoCommand).op # "read"
         /\ ~TakenFor("write") => (IF Taken THEN req ELSE Bus!NoCommand).op # "write"
<1>1. req \in Bus!Commands \cup {Bus!NoCommand} /\ Bus!NoCommand.op = "none"
  BY DEF BackendInv, BackendType, Bus!NoCommand
<1>2. req \in Bus!Commands =>
        req.op \in {"read", "write"} /\ req.a \in Addr /\ req.d \in Byte
  BY DEF Bus!Commands
<1>3. Taken => ~rst_all /\ ~bist_active /\ req.op # "none"
  BY DEF Taken
<1>4. Taken /\ sel_rom(req.a) => out_count = 0 /\ req.a \in Block
  BY DEF Taken, sel_rom, hyper_busy
<1>5. Taken /\ ~sel_rom(req.a) => ~FifoFull /\ req.a \notin Block
  BY DEF Taken, sel_rom
<1> QED
  BY <1>1, <1>2, <1>3, <1>4, <1>5, AddrFacts DEF TakenFor

(* What is answered, and why a read is owed then.                          *)
LEMMA BeatIs ==
  ASSUME NEW word, NEW cold, Clocks(word, cold)
  PROVE  /\ Real(word) =>
              /\ ~rst_all /\ ~bist_active /\ romq = None /\ ~flush_valid
              /\ Wants = owed /\ word \in Words /\ word = rd[1]
              /\ Right(word, owed[1]) /\ out_count >= 1
         /\ romq # None => ~flush_valid /\ out_count = 0
         /\ flush_valid => rst_all
         /\ Beat(word) # None <=> romq # None \/ flush_valid \/ Real(word)
         /\ Beat(word) # None => owed # <<>>
         /\ owed \in Seq(Reads)
         /\ Len(owed) = out_count + Bit(flush_valid) + Bit(romq # None)
         /\ out_count \in Nat /\ flush_valid \in BOOLEAN
<1>1. /\ owed \in Seq(Reads) /\ out_count \in Nat /\ flush_valid \in BOOLEAN
      /\ romq \in Byte \cup {None} /\ lanes \in Seq(Lanes)
  BY DEF Clocks, BackendInv, BackendType, Bus!BusType, Reads
<1>2. /\ Len(owed) = out_count + Bit(flush_valid) + Bit(romq # None)
      /\ romq # None => ~flush_valid /\ out_count = 0
      /\ Len(lanes) = out_count
      /\ flush_valid => rst_all
  BY DEF Clocks, BackendInv, CountInv, AnswersCounted, ResetInv
<1>3. ASSUME Real(word)
      PROVE  /\ ~rst_all /\ ~bist_active /\ romq = None /\ ~flush_valid
             /\ Wants = owed /\ word \in Words /\ word = rd[1]
             /\ Right(word, owed[1]) /\ out_count >= 1
  <2>1. word # None /\ ~rst_all /\ ~bist_active
    BY <1>3 DEF Real
  <2>2. rd # <<>> /\ word = rd[1] /\ word \in Words /\ rd \in Seq(Words)
    BY <2>1, ClockInputs
  <2>3. Got(rd, Wants) /\ Wants \in Seq(Reads)
    BY <2>1, WantsTyped DEF Clocks, BackendInv, FifoInv
  <2>4. Wants # <<>> /\ Right(rd[1], Wants[1])
    BY <2>2, <2>3, GotPopped
  <2>5. romq = None /\ Wants = owed
    BY <2>1, <2>4 DEF Wants
  <2>6. Len(owed) # 0
    BY <1>1, <2>4, <2>5, EmptySeq
  <2> QED
    BY <1>1, <1>2, <2>1, <2>2, <2>4, <2>5, <2>6 DEF Bit
<1>4. Real(word) => word[IF out_count > 0 THEN lanes[Oldest] ELSE 0] # None
  <2> SUFFICES ASSUME Real(word)
               PROVE  word[IF out_count > 0 THEN lanes[Oldest] ELSE 0] # None
    OBVIOUS
  <2>1. out_count \in 1 .. Len(lanes) /\ word \in Words
    BY <1>1, <1>2, <1>3
  <2>2. lanes[Oldest] \in Lanes
    BY <1>1, <2>1, ElementOfSeq DEF Oldest
  <2>3. word[lanes[Oldest]] \in Byte
    BY <2>1, <2>2 DEF Words
  <2> QED
    BY <1>1, <2>1, <2>3, NoneIs
<1>5. Beat(word) # None <=> romq # None \/ flush_valid \/ Real(word)
  BY <1>4, AddrFacts DEF Beat
<1>6. Beat(word) # None => owed # <<>>
  <2> SUFFICES ASSUME Beat(word) # None PROVE Len(owed) # 0
    BY <1>1, EmptySeq
  <2>1. Bit(flush_valid) \in Nat /\ Bit(romq # None) \in Nat
    BY DEF Bit
  <2>2. CASE romq # None
    BY <1>1, <1>2, <2>1, <2>2 DEF Bit
  <2>3. CASE flush_valid
    BY <1>1, <1>2, <2>1, <2>3 DEF Bit
  <2>4. CASE Real(word)
    BY <1>1, <1>2, <1>3, <2>1, <2>4
  <2> QED
    BY <1>5, <2>2, <2>3, <2>4
<1> QED
  BY <1>1, <1>2, <1>3, <1>5, <1>6

(* The reads owed after the clock.                                         *)
Left(word) == IF Beat(word) = None THEN owed ELSE Tail(owed)
NewRead == [a |-> req.a, d |-> told[req.a]]

LEMMA OwedMoves ==
  ASSUME NEW word, NEW cold, Clocks(word, cold)
  PROVE  /\ Left(word) \in Seq(Reads)
         /\ Len(Left(word)) = Len(owed) - Bit(Beat(word) # None)
         /\ TakenFor("read") => NewRead \in Reads /\ owed' = Append(Left(word), NewRead)
         /\ ~TakenFor("read") => owed' = Left(word)
         /\ owed' \in Seq(Reads)
         /\ Len(owed') = Len(Left(word)) + Bit(TakenFor("read"))
<1> DEFINE taken == IF Taken THEN req ELSE Bus!NoCommand
           left == Left(word)
<1>1. owed' = (IF Beat(word) = None \/ owed = <<>> THEN owed ELSE Tail(owed))
                \o (IF taken.op # "read" THEN <<>>
                    ELSE <<[a |-> taken.a, d |-> told[taken.a]]>>)
  BY DEF Clocks, ClkTick, Bus!Records
<1>2. owed \in Seq(Reads) /\ (Beat(word) # None => owed # <<>>)
  BY BeatIs
<1>3. left \in Seq(Reads) /\ Len(left) = Len(owed) - Bit(Beat(word) # None)
  <2>1. CASE Beat(word) = None
    <3>1. Len(owed) \in Nat
      BY <1>2, LenProperties
    <3> QED
      BY <1>2, <2>1, <3>1 DEF Left, Bit
  <2>2. CASE Beat(word) # None
    <3>1. Tail(owed) \in Seq(Reads) /\ Len(Tail(owed)) = Len(owed) - 1
      BY <1>2, <2>2, TailIs
    <3> QED
      BY <2>2, <3>1 DEF Left, Bit
  <2> QED
    BY <2>1, <2>2
<1>4. owed' = left \o (IF taken.op # "read" THEN <<>>
                       ELSE <<[a |-> taken.a, d |-> told[taken.a]]>>)
  BY <1>1, <1>2 DEF Left
<1>5. CASE TakenFor("read")
  <2>1. taken = req /\ taken.op = "read" /\ req.a \in Addr
    BY <1>5, TakenIs DEF TakenFor, Clocks
  <2>2. told \in [Addr -> Byte \cup {Unknown}]
    BY DEF Clocks, BackendInv, BackendType, Bus!BusType
  <2>3. NewRead \in Reads
    BY <2>1, <2>2 DEF NewRead, Reads
  <2>4. owed' = left \o <<NewRead>>
    BY <1>4, <2>1 DEF NewRead
  <2> HIDE DEF left, taken
  <2>5. owed' = Append(left, NewRead)
    BY <1>3, <2>3, <2>4, AppendIsConcat DEF left
  <2>6. owed' \in Seq(Reads) /\ Len(owed') = Len(left) + 1
    BY <1>3, <2>3, <2>5, AppendIs DEF left
  <2> QED
    BY <1>3, <1>5, <2>3, <2>5, <2>6 DEF left, Bit
<1>6. CASE ~TakenFor("read")
  <2>1. taken.op # "read"
    BY <1>6, TakenIs DEF Clocks
  <2>2. owed' = left \o <<>>
    BY <1>4, <2>1
  <2> HIDE DEF left, taken
  <2>3. owed' = left
    BY <1>3, <2>2, ConcatEmptySeq DEF left
  <2>4. Len(left) \in Nat
    BY <1>3, LenProperties DEF left
  <2> QED
    BY <1>3, <1>6, <2>3, <2>4 DEF left, Bit
<1> QED
  BY <1>5, <1>6

(* The memory that is promised after it.                                   *)
Drops == rst_all' /\ ~rst_all /\ ~bist_active
LEMMA ToldMoves ==
  ASSUME NEW word, NEW cold, Clocks(word, cold)
  PROVE  /\ told' \in [Addr -> Byte \cup {Unknown}]
         /\ \A a \in Block :
              told'[a] = IF TakenFor("write") /\ req.a = a /\ a \notin ReadOnly
                         THEN req.d ELSE told[a]
         /\ Drops => \A a \in Ram : told'[a] = Unknown
         /\ ~Drops =>
              \A a \in Ram : told'[a] = IF TakenFor("write") /\ req.a = a
                                        THEN req.d ELSE told[a]
<1> DEFINE taken == IF Taken THEN req ELSE Bus!NoCommand
           after == IF taken.op = "write" /\ taken.a \notin ReadOnly
                    THEN [told EXCEPT ![taken.a] = taken.d] ELSE told
<1>1. told' = IF Drops THEN Bus!Forget(after) ELSE after
  BY DEF Clocks, ClkTick, Bus!Records, Drops
<1>2. told \in [Addr -> Byte \cup {Unknown}]
  BY DEF Clocks, BackendInv, BackendType, Bus!BusType
<1>3. CASE TakenFor("write")
  <2>1. /\ taken = req /\ req.op = "write" /\ req.a \in Addr /\ req.d \in Byte
    BY <1>3, TakenIs DEF TakenFor, Clocks
  <2>2. after = IF req.a \notin ReadOnly THEN [told EXCEPT ![req.a] = req.d] ELSE told
    BY <2>1
  <2>3. after \in [Addr -> Byte \cup {Unknown}]
    BY <1>2, <2>1, <2>2
  <2>4. \A a \in Addr : after[a] = IF req.a = a /\ a \notin ReadOnly
                                   THEN req.d ELSE told[a]
    BY <1>2, <2>1, <2>2
  <2> HIDE DEF after
  <2>5. told' \in [Addr -> Byte \cup {Unknown}]
    BY <1>1, <2>3 DEF Bus!Forget
  <2>6. \A a \in Block : told'[a] = after[a]
    BY <1>1, AddrFacts DEF Bus!Forget
  <2>7. /\ Drops => \A a \in Ram : told'[a] = Unknown
        /\ ~Drops => \A a \in Ram : told'[a] = after[a]
    BY <1>1, AddrFacts DEF Bus!Forget
  <2>8. \A a \in Ram : a \notin ReadOnly
    BY BackendAssumption, AddrFacts
  <2> QED
    BY <1>3, <2>4, <2>5, <2>6, <2>7, <2>8, AddrFacts
<1>4. CASE ~TakenFor("write")
  <2>1. taken.op # "write"
    BY <1>4, TakenIs DEF Clocks
  <2>2. after = told
    BY <2>1
  <2> HIDE DEF after
  <2>3. told' \in [Addr -> Byte \cup {Unknown}]
    BY <1>1, <1>2, <2>2 DEF Bus!Forget
  <2>4. \A a \in Block : told'[a] = told[a]
    BY <1>1, <2>2, AddrFacts DEF Bus!Forget
  <2>5. /\ Drops => \A a \in Ram : told'[a] = Unknown
        /\ ~Drops => \A a \in Ram : told'[a] = told[a]
    BY <1>1, <2>2, AddrFacts DEF Bus!Forget
  <2> QED
    BY <1>4, <2>3, <2>4, <2>5
<1> QED
  BY <1>3, <1>4

(* What enters the command FIFO.                                           *)
Enters(c) == c \in RamCommands /\ wr' = Append(wr, c) /\ ~FifoFull
BistWrites == ~rst_all /\ bist.state = "WRITE" /\ ~FifoFull
BistReads == ~rst_all /\ bist.state = "READ" /\ ~FifoFull

LEMMA Entering ==
  ASSUME NEW word, NEW cold, Clocks(word, cold)
  PROVE  /\ rst_all => wr' = <<>>
         /\ BistWrites => Enters(Command("write", Tested[1], Tested[2]))
         /\ BistReads => Enters(Command("read", Tested[1], RomByte))
         /\ Taken /\ ~sel_rom(req.a) => Enters(Command(req.op, req.a, req.d))
         /\ \/ rst_all \/ BistWrites \/ BistReads \/ (Taken /\ ~sel_rom(req.a))
            \/ wr' = wr
         /\ wr' \in Seq(RamCommands) /\ Len(wr') <= FifoDepth
<1> DEFINE cmd == IF bist_active THEN BistCommand
                  ELSE IF Taken /\ ~sel_rom(req.a)
                  THEN Command(req.op, req.a, req.d) ELSE NoWord
<1>1. wr' = IF rst_all THEN <<>>
            ELSE wr \o (IF Offered(cmd) /\ ~FifoFull THEN <<cmd>> ELSE <<>>)
  BY DEF Clocks, ClkTick, Pushed
<1>2. /\ wr \in Seq(RamCommands) /\ Len(wr) <= FifoDepth /\ FifoDepth \in Nat
      /\ bist.idx \in 1 .. Len(SelfTest) /\ bist.state \in Tests
  BY BackendAssumption, ClockInputs DEF Clocks, BackendInv, BackendType
<1>3. Tested[1] \in Ram /\ Tested[2] \in Byte
  BY <1>2, TestFacts DEF Tested
<1>4. /\ Command("write", Tested[1], Tested[2]) \in RamCommands
      /\ Command("read", Tested[1], RomByte) \in RamCommands
  BY <1>3, AddrFacts DEF RamCommands
<1>5. Taken /\ ~sel_rom(req.a) => Command(req.op, req.a, req.d) \in RamCommands
  BY TakenIs DEF Clocks, RamCommands
<1>6. /\ bist.state = "WRITE" => cmd = Command("write", Tested[1], Tested[2])
      /\ bist.state = "READ" => cmd = Command("read", Tested[1], RomByte)
      /\ bist.state \notin {"WRITE", "READ", "DONE"} => cmd = NoWord
      /\ bist.state = "DONE" /\ Taken /\ ~sel_rom(req.a) =>
           cmd = Command(req.op, req.a, req.d)
      /\ bist.state = "DONE" /\ ~(Taken /\ ~sel_rom(req.a)) => cmd = NoWord
  BY DEF bist_active, BistCommand
<1> HIDE DEF cmd
<1>7. ASSUME ~rst_all, cmd \in RamCommands, ~FifoFull
      PROVE  Enters(cmd) /\ Len(wr') <= FifoDepth
  <2>1. wr' = wr \o <<cmd>>
    BY <1>1, <1>7, CommandIs
  <2>2. wr' = Append(wr, cmd)
    BY <1>2, <1>7, <2>1, AppendIsConcat
  <2>3. Len(wr') = Len(wr) + 1 /\ Len(wr) \in Nat
    BY <1>2, <1>7, <2>2, AppendIs
  <2>4. Len(wr) < FifoDepth
    BY <1>2, <1>7, <2>3 DEF FifoFull
  <2> QED
    BY <1>2, <1>7, <2>2, <2>3, <2>4 DEF Enters
<1>8. ASSUME ~rst_all, cmd = NoWord \/ FifoFull
      PROVE  wr' = wr
  <2>1. wr' = wr \o <<>>
    BY <1>1, <1>8, NoWordIs
  <2> QED
    BY <1>2, <2>1, ConcatEmptySeq
<1>9. Taken => bist.state = "DONE" /\ ~rst_all
  BY TakenIs DEF Clocks, bist_active
<1>10. /\ rst_all => wr' = <<>>
       /\ BistWrites => Enters(Command("write", Tested[1], Tested[2]))
       /\ BistReads => Enters(Command("read", Tested[1], RomByte))
       /\ Taken /\ ~sel_rom(req.a) => Enters(Command(req.op, req.a, req.d))
  <2>1. Taken /\ ~sel_rom(req.a) => ~FifoFull
    BY TakenIs DEF Clocks
  <2> QED
    BY <1>1, <1>4, <1>5, <1>6, <1>7, <1>9, <2>1 DEF BistWrites, BistReads
<1>11. \/ rst_all \/ BistWrites \/ BistReads \/ (Taken /\ ~sel_rom(req.a))
       \/ wr' = wr
  BY <1>2, <1>6, <1>8 DEF BistWrites, BistReads, Tests
<1>12. wr' \in Seq(RamCommands)
  <2>1. \A c : Enters(c) => wr' \in Seq(RamCommands)
    BY <1>2, AppendIs DEF Enters
  <2> QED
    BY <1>2, <1>10, <1>11, <2>1, EmptySeq
<1>13. Len(wr') <= FifoDepth
  <2>1. CASE rst_all
    BY <1>1, <1>2, <2>1
  <2>2. CASE ~rst_all /\ (cmd = NoWord \/ FifoFull)
    BY <1>2, <1>8, <2>2
  <2>3. CASE ~rst_all /\ cmd # NoWord /\ ~FifoFull
    <3>1. cmd \in RamCommands
      BY <1>2, <1>4, <1>5, <1>6, <2>3 DEF Tests
    <3> QED
      BY <1>7, <2>3, <3>1
  <2> QED
    BY <2>1, <2>2, <2>3
<1> QED
  BY <1>10, <1>11, <1>12, <1>13

(* What is outstanding.                                                    *)
LEMMA CountsMove ==
  ASSUME NEW word, NEW cold, Clocks(word, cold)
  PROVE  /\ flush_valid' = Flushes(word)
         /\ out_count' = out_count + Bit(TakenFor("read") /\ ~sel_rom(req.a))
                                   - Bit(Real(word) \/ Flushes(word))
         /\ romq' = IF TakenFor("read") /\ sel_rom(req.a) THEN block[req.a] ELSE None
         /\ romq' \in Byte \cup {None}
         /\ romq' # None <=> TakenFor("read") /\ sel_rom(req.a)
         /\ block' \in [Block -> Byte]
         /\ \A a \in Block :
              block'[a] = IF TakenFor("write") /\ req.a = a /\ a \notin ReadOnly
                          THEN req.d ELSE block[a]
         /\ out_count' \in Nat /\ flush_valid' \in BOOLEAN
<1>1. /\ flush_valid' = Flushes(word)
      /\ out_count' = out_count + (IF TakenFor("read") /\ ~sel_rom(req.a) THEN 1 ELSE 0)
                                - (IF Real(word) \/ Flushes(word) THEN 1 ELSE 0)
  BY DEF Clocks, ClkTick, Outstanding
<1>2. /\ romq' = IF TakenFor("read") /\ sel_rom(req.a) THEN block[req.a] ELSE None
      /\ block' = IF TakenFor("write") /\ sel_rom(req.a) /\ req.a \notin ReadOnly
                  THEN [block EXCEPT ![req.a] = req.d] ELSE block
  BY DEF Clocks, ClkTick, RomPort
<1>3. block \in [Block -> Byte] /\ out_count \in Nat
  BY DEF Clocks, BackendInv, BackendType
<1>4. Taken => req.d \in Byte /\ (sel_rom(req.a) <=> req.a \in Block)
  BY TakenIs DEF Clocks, sel_rom
<1>5. TakenFor("read") /\ sel_rom(req.a) => block[req.a] \in Byte
  BY <1>3, <1>4 DEF TakenFor
<1>6. /\ block' \in [Block -> Byte]
      /\ \A a \in Block :
           block'[a] = IF TakenFor("write") /\ req.a = a /\ a \notin ReadOnly
                       THEN req.d ELSE block[a]
  <2>1. CASE TakenFor("write") /\ sel_rom(req.a) /\ req.a \notin ReadOnly
    <3>1. block' = [block EXCEPT ![req.a] = req.d]
      BY <1>2, <2>1
    <3> HIDE <1>2
    <3> QED
      BY <1>3, <1>4, <2>1, <3>1 DEF TakenFor
  <2>2. CASE ~(TakenFor("write") /\ sel_rom(req.a) /\ req.a \notin ReadOnly)
    <3>1. block' = block
      BY <1>2, <2>2
    <3> HIDE <1>2
    <3> QED
      BY <1>3, <1>4, <2>2, <3>1 DEF TakenFor
  <2> QED
    BY <2>1, <2>2
<1>7. out_count' \in Nat
  <2>1. Real(word) => out_count >= 1
    BY BeatIs
  <2>2. Flushes(word) => out_count # 0
    BY DEF Flushes
  <2>3. out_count >= (IF Real(word) \/ Flushes(word) THEN 1 ELSE 0)
    BY <1>3, <2>1, <2>2
  <2> HIDE DEF Flushes, Real
  <2> QED
    BY <1>1, <1>3, <2>3
<1>8. flush_valid' \in BOOLEAN
  BY <1>1 DEF Flushes
<1> QED
  BY <1>1, <1>2, <1>5, <1>6, <1>7, <1>8, AddrFacts DEF Bit

LEMMA LenOwedMoves ==
  ASSUME NEW word, NEW cold, Clocks(word, cold)
  PROVE  AnswersCounted'
<1> DEFINE rq == Bit(romq # None)
           fv == Bit(flush_valid)
           rl == Bit(Real(word))
           fl == Bit(Flushes(word))
           push == Bit(TakenFor("read") /\ ~sel_rom(req.a))
           rom == Bit(TakenFor("read") /\ sel_rom(req.a))
<1>1. \A b \in BOOLEAN : Bit(b) \in {0, 1}
  BY DEF Bit
<1>2. /\ rq \in {0, 1} /\ fv \in {0, 1} /\ rl \in {0, 1} /\ fl \in {0, 1}
      /\ push \in {0, 1} /\ rom \in {0, 1}
  BY DEF Bit
<1>3. Len(owed) = out_count + fv + rq /\ out_count \in Nat
  BY BeatIs
<1>4. Bit(Beat(word) # None) = rq + fv + rl
  BY BeatIs DEF Bit
<1>5. Bit(TakenFor("read")) = push + rom
  BY DEF Bit
<1>6. Bit(Real(word) \/ Flushes(word)) = rl + fl
  BY DEF Bit, Flushes
<1>7. out_count' = out_count + push - (rl + fl)
  BY <1>6, CountsMove
<1>8. Bit(flush_valid)' = fl /\ Bit(romq # None)' = rom
  BY CountsMove DEF Bit
<1>9. Len(owed') = (Len(owed) - (rq + fv + rl)) + (push + rom)
  BY <1>4, <1>5, OwedMoves
<1> HIDE DEF rq, fv, rl, fl, push, rom
<1>10. Len(owed') = out_count' + fl + rom
  BY <1>2, <1>3, <1>7, <1>9
<1> QED
  BY <1>8, <1>10 DEF AnswersCounted

(* The self test: it starts again in a reset, rests when it is done, and   *)
(* otherwise takes one of a few steps.  No word it reads back is wrong.    *)
BistIs(state, idx) == bist'.state = state /\ bist'.idx = idx /\ bist'.err = 0
BistMoves(word) ==
  \/ /\ bist' = bist /\ ~BistWrites /\ ~BistReads
     /\ bist.state = "RD_WAIT" => word = None
  \/ bist.state = "WAIT" /\ BistIs("WRITE", 1)
  \/ BistWrites /\ bist.idx < Len(SelfTest) /\ BistIs("WRITE", bist.idx + 1)
  \/ BistWrites /\ bist.idx = Len(SelfTest) /\ BistIs("WR_GAP", 1)
  \/ bist.state = "WR_GAP" /\ BistIs("READ", 1)
  \/ BistReads /\ BistIs("RD_WAIT", bist.idx)
  \/ /\ bist.state = "RD_WAIT" /\ word # None
     /\ \/ bist.idx = Len(SelfTest) /\ BistIs("DONE", 1)
        \/ bist.idx < Len(SelfTest) /\ BistIs("READ", bist.idx + 1)

LEMMA TestWord ==
  ASSUME NEW word, NEW cold, Clocks(word, cold), ~rst_all, bist_active,
         word # None
  PROVE  /\ bist.state = "RD_WAIT" /\ word[Lane(Tested[1])] = Tested[2]
         /\ Wants = <<[a |-> Tested[1], d |-> Tested[2]]>>
<1>1. Got(rd, Wants) /\ Wants \in Seq(Reads)
  BY WantsTyped DEF Clocks, BackendInv, FifoInv
<1>2. rd # <<>> /\ word = rd[1] /\ rd \in Seq(Words)
  BY ClockInputs
<1>3. Wants # <<>> /\ Right(rd[1], Wants[1])
  BY <1>1, <1>2, GotPopped
<1>4. bist.state = "RD_WAIT" /\ Wants = <<[a |-> Tested[1], d |-> Tested[2]]>>
  BY <1>3 DEF Wants
<1>5. Wants[1].a = Tested[1] /\ Wants[1].d = Tested[2]
  BY <1>4
<1>6. Tested[2] \in Byte
  BY TestFacts DEF Tested, Clocks, BackendInv, BackendType
<1> QED
  BY <1>2, <1>3, <1>4, <1>5, <1>6, AddrFacts DEF Right

LEMMA TestMoves ==
  ASSUME NEW word, NEW cold, Clocks(word, cold)
  PROVE  /\ rst_all => bist'.state \in {"WAIT", "DONE"}
         /\ ~rst_all /\ ~bist_active => bist' = bist
         /\ ~rst_all /\ bist_active => BistMoves(word)
         /\ bist' \in [state : Tests, idx : 1 .. Len(SelfTest), err : {0}]
<1> DEFINE BistType == [state : Tests, idx : 1 .. Len(SelfTest), err : {0}]
<1>1. BistStep(word)
  BY DEF Clocks, ClkTick
<1>2. /\ bist \in BistType /\ bist.state \in Tests
      /\ bist.idx \in 1 .. Len(SelfTest) /\ bist.err = 0
  BY DEF Clocks, BackendInv, BackendType
<1>3. CASE rst_all
  <2>1. bist' = [state |-> IF config.bist THEN "WAIT" ELSE "DONE", idx |-> 1, err |-> 0]
    BY <1>1, <1>3 DEF BistStep
  <2> QED
    BY <1>3, <2>1, TestFacts DEF Tests
<1>4. ASSUME NEW state \in Tests, NEW idx \in 1 .. Len(SelfTest), BistAt(state, idx)
      PROVE  BistIs(state, idx) /\ bist' \in BistType
  <2>1. bist' = [bist EXCEPT !.state = state, !.idx = idx]
    BY <1>4 DEF BistAt
  <2> QED
    BY <1>2, <2>1 DEF BistIs
<1>5. ASSUME NEW s1 \in Tests, NEW s2 \in Tests, BistNext(s1, <<s2, 1>>)
      PROVE  /\ bist' \in BistType
             /\ \/ bist.idx < Len(SelfTest) /\ BistIs(s1, bist.idx + 1)
                \/ bist.idx = Len(SelfTest) /\ BistIs(s2, 1)
  <2>1. CASE bist.idx = Len(SelfTest)
    <3>1. BistAt(s2, 1)
      BY <1>5, <2>1 DEF BistNext
    <3> QED
      BY <1>4, <2>1, <3>1, TestFacts
  <2>2. CASE bist.idx # Len(SelfTest)
    <3>1. BistAt(s1, bist.idx + 1)
      BY <1>5, <2>2 DEF BistNext
    <3>2. bist.idx < Len(SelfTest) /\ bist.idx + 1 \in 1 .. Len(SelfTest)
      BY <1>2, <2>2, TestFacts
    <3> QED
      BY <1>4, <3>1, <3>2
  <2> QED
    BY <2>1, <2>2
<1>6. CASE ~rst_all /\ ~bist_active
  <2>1. bist' = bist
    BY <1>1, <1>6 DEF BistStep, bist_active
  <2> QED
    BY <1>2, <1>6, <2>1
<1>7. CASE ~rst_all /\ bist_active
  <2>1. bist.state \in {"WAIT", "WRITE", "WR_GAP", "READ", "RD_WAIT"}
    BY <1>2, <1>7 DEF bist_active, Tests
  <2> SUFFICES BistMoves(word) /\ bist' \in BistType
    BY <1>7
  <2> HIDE DEF BistType
  <2>2. ASSUME bist' = bist, ~BistWrites, ~BistReads,
               bist.state = "RD_WAIT" => word = None
        PROVE  BistMoves(word) /\ bist' \in BistType
    BY <1>2, <2>2 DEF BistMoves
  <2>3. CASE bist.state = "WAIT"
    <3>1. bist' = bist \/ BistAt("WRITE", 1)
      BY <1>1, <1>7, <2>3 DEF BistStep
    <3>2. ~BistWrites /\ ~BistReads
      BY <2>3 DEF BistWrites, BistReads
    <3>3. CASE bist' = bist
      BY <2>2, <2>3, <3>2, <3>3
    <3>4. CASE BistAt("WRITE", 1)
      <4>1. "WRITE" \in Tests /\ 1 \in 1 .. Len(SelfTest)
        BY TestFacts DEF Tests
      <4>2. BistIs("WRITE", 1) /\ bist' \in BistType
        BY <1>4, <3>4, <4>1
      <4> QED
        BY <2>3, <4>2 DEF BistMoves
    <3> QED
      BY <3>1, <3>3, <3>4
  <2>4. CASE bist.state = "WRITE"
    <3>1. IF FifoFull THEN bist' = bist ELSE BistNext("WRITE", <<"WR_GAP", 1>>)
      BY <1>1, <1>7, <2>4 DEF BistStep
    <3>2. ~BistReads /\ (BistWrites <=> ~FifoFull)
      BY <1>7, <2>4 DEF BistWrites, BistReads
    <3>3. CASE FifoFull
      BY <2>2, <2>4, <3>1, <3>2, <3>3
    <3>4. CASE ~FifoFull
      <4>1. "WRITE" \in Tests /\ "WR_GAP" \in Tests
        BY DEF Tests
      <4>2. BistNext("WRITE", <<"WR_GAP", 1>>)
        BY <3>1, <3>4
      <4>3. /\ bist' \in BistType
            /\ \/ bist.idx < Len(SelfTest) /\ BistIs("WRITE", bist.idx + 1)
               \/ bist.idx = Len(SelfTest) /\ BistIs("WR_GAP", 1)
        BY <1>5, <4>1, <4>2
      <4> QED
        BY <3>2, <3>4, <4>3 DEF BistMoves
    <3> QED
      BY <3>3, <3>4
  <2>5. CASE bist.state = "WR_GAP"
    <3>1. bist' = bist \/ BistAt("READ", 1)
      BY <1>1, <1>7, <2>5 DEF BistStep
    <3>2. ~BistWrites /\ ~BistReads
      BY <2>5 DEF BistWrites, BistReads
    <3>3. CASE bist' = bist
      BY <2>2, <2>5, <3>2, <3>3
    <3>4. CASE BistAt("READ", 1)
      <4>1. "READ" \in Tests /\ 1 \in 1 .. Len(SelfTest)
        BY TestFacts DEF Tests
      <4>2. BistIs("READ", 1) /\ bist' \in BistType
        BY <1>4, <3>4, <4>1
      <4> QED
        BY <2>5, <4>2 DEF BistMoves
    <3> QED
      BY <3>1, <3>3, <3>4
  <2>6. CASE bist.state = "READ"
    <3>1. IF FifoFull THEN bist' = bist ELSE BistAt("RD_WAIT", bist.idx)
      BY <1>1, <1>7, <2>6 DEF BistStep
    <3>2. ~BistWrites /\ (BistReads <=> ~FifoFull)
      BY <1>7, <2>6 DEF BistWrites, BistReads
    <3>3. CASE FifoFull
      BY <2>2, <2>6, <3>1, <3>2, <3>3
    <3>4. CASE ~FifoFull
      <4>1. BistAt("RD_WAIT", bist.idx) /\ "RD_WAIT" \in Tests
        BY <3>1, <3>4 DEF Tests
      <4>2. BistIs("RD_WAIT", bist.idx) /\ bist' \in BistType
        BY <1>2, <1>4, <4>1
      <4> QED
        BY <3>2, <3>4, <4>2 DEF BistMoves
    <3> QED
      BY <3>3, <3>4
  <2>7. CASE bist.state = "RD_WAIT"
    <3>1. ~BistWrites /\ ~BistReads
      BY <2>7 DEF BistWrites, BistReads
    <3>2. CASE word = None
      <4>1. bist' = bist
        BY <1>1, <1>7, <2>7, <3>2 DEF BistStep
      <4> QED
        BY <2>2, <3>1, <3>2, <4>1
    <3>3. CASE word # None
      <4>1. word[Lane(Tested[1])] = Tested[2]
        BY <1>7, <3>3, TestWord
      <4>2. bist' = [state |-> IF bist.idx = Len(SelfTest) THEN "DONE" ELSE "READ",
                     idx |-> IF bist.idx = Len(SelfTest) THEN 1 ELSE bist.idx + 1,
                     err |-> bist.err + 0]
        BY <1>1, <1>7, <2>7, <3>3, <4>1 DEF BistStep
      <4>3. CASE bist.idx = Len(SelfTest)
        <5>1. bist' = [state |-> "DONE", idx |-> 1, err |-> 0]
          BY <1>2, <4>2, <4>3
        <5> QED
          BY <2>7, <3>3, <4>3, <5>1, TestFacts DEF BistMoves, BistIs, BistType, Tests
      <4>4. CASE bist.idx # Len(SelfTest)
        <5>1. bist' = [state |-> "READ", idx |-> bist.idx + 1, err |-> 0]
          BY <1>2, <4>2, <4>4
        <5>2. bist.idx < Len(SelfTest) /\ bist.idx + 1 \in 1 .. Len(SelfTest)
          BY <1>2, <4>4, TestFacts
        <5> QED
          BY <2>7, <3>3, <5>1, <5>2 DEF BistMoves, BistIs, BistType, Tests
      <4> QED
        BY <4>3, <4>4
    <3> QED
      BY <3>2, <3>3
  <2> QED
    BY <2>1, <2>3, <2>4, <2>5, <2>6, <2>7
<1> QED
  BY <1>3, <1>6, <1>7

-----------------------------------------------------------------------------
(* The invariant after a clock of the chipset: types, resets, counts.      *)

(* In a reset nothing is taken; one that ends leaves nothing behind.       *)
LEMMA ResetClock ==
  ASSUME NEW word, NEW cold, Clocks(word, cold), rst_all
  PROVE  /\ ~Taken /\ ~TakenFor("read") /\ ~TakenFor("write") /\ ~Real(word)
         /\ ~Drops /\ wr' = <<>> /\ romq' = None
         /\ bist'.state \in {"WAIT", "DONE"}
         /\ ~(resets.hr /\ resets.meta) =>
              /\ Quiet /\ word = None /\ rd' = <<>> /\ out_count' = 0
              /\ flush_valid' = FALSE /\ Sent = <<>>
         /\ ~resets.meta => owed = <<>> /\ owed' = <<>>
<1>1. ~Taken /\ ~TakenFor("read") /\ ~TakenFor("write") /\ ~Real(word) /\ ~Drops
  BY DEF Taken, TakenFor, Real, Drops
<1>2. wr' = <<>> /\ romq' = None /\ bist'.state \in {"WAIT", "DONE"}
  BY <1>1, Entering, CountsMove, TestMoves
<1>3. ~(resets.hr /\ resets.meta) =>
              /\ Quiet /\ word = None /\ rd' = <<>> /\ out_count' = 0
              /\ flush_valid' = FALSE /\ Sent = <<>>
  <2> SUFFICES ASSUME ~(resets.hr /\ resets.meta)
               PROVE  /\ Quiet /\ word = None /\ rd' = <<>> /\ out_count' = 0
                      /\ flush_valid' = FALSE /\ Sent = <<>>
    OBVIOUS
  <2>1. Quiet
    BY DEF Clocks, BackendInv, ResetInv
  <2>2. /\ rd = <<>> /\ out_count = 0 /\ burst = <<>> /\ ~c_pending
    BY <2>1 DEF Quiet
  <2>3. word = None /\ rd' = <<>>
    BY <2>2, ClockInputs
  <2>4. ~Flushes(word)
    BY <2>2 DEF Flushes
  <2>5. out_count' = out_count + 0 - 0
    BY <1>1, <2>4, CountsMove DEF Bit
  <2>6. flush_valid' = FALSE
    BY <2>4, CountsMove DEF Flushes
  <2>7. Sent = <<>>
    BY <2>2 DEF Sent
  <2> QED
    BY <2>1, <2>2, <2>3, <2>5, <2>6, <2>7
<1>4. ASSUME ~resets.meta PROVE owed = <<>> /\ owed' = <<>>
  <2>1. out_count = 0 /\ ~flush_valid /\ romq = None
    BY <1>3, <1>4 DEF Clocks, BackendInv, ResetInv, Quiet
  <2>2. Len(owed) = 0 + 0 + 0 /\ owed \in Seq(Reads)
    BY <2>1, BeatIs DEF Bit
  <2>3. owed = <<>>
    BY <2>2, EmptySeq
  <2>4. Beat(word) = None
    BY <2>3, BeatIs
  <2> QED
    BY <1>1, <2>3, <2>4, OwedMoves DEF Left
<1> QED
  BY <1>1, <1>2, <1>3, <1>4

LEMMA RequestMoves ==
  ASSUME NEW word, NEW cold, Clocks(word, cold)
  PROVE  /\ req' \in Bus!Commands \cup {Bus!NoCommand} /\ issued' \in 0 .. MaxOwed
         /\ Len(owed') + Bit(req'.op = "read") <= issued'
         /\ req'.op = "write" => owed' = <<>>
<1>1. Request
  BY DEF Clocks, ClkTick
<1>2. /\ req \in Bus!Commands \cup {Bus!NoCommand} /\ issued \in 0 .. MaxOwed
      /\ Len(owed) + Bit(req.op = "read") <= issued
      /\ req.op = "write" => owed = <<>>
      /\ MaxOwed \in Nat /\ MaxOwed >= 1
  BY BackendAssumption DEF Clocks, BackendInv, BackendType, CountInv
<1>3. /\ owed \in Seq(Reads) /\ owed' \in Seq(Reads)
      /\ Len(owed) \in Nat /\ Len(owed') \in Nat
  BY BeatIs, OwedMoves, LenProperties
<1>4. \A b \in BOOLEAN : Bit(b) \in {0, 1}
  BY DEF Bit
<1>5. Len(owed') <= Len(owed) + Bit(TakenFor("read"))
  <2>1. Len(owed') = Len(owed) - Bit(Beat(word) # None) + Bit(TakenFor("read"))
    BY OwedMoves
  <2>2. Bit(Beat(word) # None) \in {0, 1} /\ Bit(TakenFor("read")) \in {0, 1}
    BY DEF Bit
  <2> HIDE DEF Bit
  <2> QED
    BY <1>3, <2>1, <2>2
<1>6. CASE req.op # "none" /\ ~Taken /\ UNCHANGED <<req, issued>>
  <2>1. ~TakenFor("read") /\ Bit(TakenFor("read")) = 0
    BY <1>6 DEF TakenFor, Bit
  <2>2. Len(owed') <= Len(owed)
    BY <1>3, <1>5, <2>1
  <2>3. Bit(req.op = "read") \in {0, 1}
    BY DEF Bit
  <2>4. req.op = "write" => owed' = <<>>
    <3> SUFFICES ASSUME req.op = "write" PROVE owed' = <<>>
      OBVIOUS
    <3>1. Len(owed') = 0
      BY <1>2, <1>3, <2>2, EmptySeq
    <3> QED
      BY <1>3, <3>1, EmptySeq
  <2> HIDE DEF Bit
  <2>5. Len(owed') + Bit(req.op = "read") <= issued
    BY <1>2, <1>3, <2>2, <2>3
  <2> QED
    BY <1>2, <1>6, <2>4, <2>5
<1>7. CASE req.op = "none" \/ Taken
  <2>1. Len(owed') <= issued
    <3>1. Bit(TakenFor("read")) <= Bit(req.op = "read")
      BY <1>7 DEF TakenFor, Bit
    <3>2. Bit(TakenFor("read")) \in {0, 1} /\ Bit(req.op = "read") \in {0, 1}
      BY DEF Bit
    <3> HIDE DEF Bit
    <3> QED
      BY <1>2, <1>3, <1>5, <3>1, <3>2
  <2>2. \/ /\ owed' = <<>> /\ req' \in ReadRequests \cup WriteRequests
           /\ issued' = Bit(req'.op = "read")
        \/ /\ owed' # <<>> /\ issued < MaxOwed
           /\ req' \in ReadRequests /\ issued' = issued + 1
        \/ /\ req' = Bus!NoCommand
           /\ issued' = IF owed' = <<>> THEN 0 ELSE issued
    BY <1>1, <1>7 DEF Request
  <2>3. /\ ReadRequests \subseteq Bus!Commands
        /\ \A r \in ReadRequests : r.op = "read"
    BY AddrFacts DEF ReadRequests, Bus!Commands
  <2>4. WriteRequests \subseteq Bus!Commands
    BY BackendAssumption DEF WriteRequests, Bus!Commands
  <2>5. Len(<<>>) = 0 /\ (owed' = <<>> => Len(owed') = 0)
    BY EmptySeq
  <2>6. CASE /\ owed' = <<>> /\ req' \in ReadRequests \cup WriteRequests
             /\ issued' = Bit(req'.op = "read")
    <3>1. Bit(req'.op = "read") \in {0, 1}
      BY DEF Bit
    <3> HIDE DEF Bit
    <3> QED
      BY <1>2, <2>3, <2>4, <2>5, <2>6, <3>1
  <2>7. CASE /\ owed' # <<>> /\ issued < MaxOwed
             /\ req' \in ReadRequests /\ issued' = issued + 1
    <3>1. Bit(req'.op = "read") = 1 /\ req'.op = "read"
      BY <2>3, <2>7 DEF Bit
    <3> HIDE DEF Bit
    <3> QED
      BY <1>2, <1>3, <2>1, <2>3, <2>7, <3>1
  <2>8. CASE /\ req' = Bus!NoCommand
             /\ issued' = IF owed' = <<>> THEN 0 ELSE issued
    <3>1. Bit(req'.op = "read") = 0 /\ req'.op = "none"
      BY <2>8 DEF Bit, Bus!NoCommand
    <3> HIDE DEF Bit
    <3> QED
      BY <1>2, <1>3, <2>1, <2>5, <2>8, <3>1
  <2> QED
    BY <2>2, <2>6, <2>7, <2>8
<1> QED
  BY <1>1, <1>6, <1>7 DEF Request

-----------------------------------------------------------------------------
(* The line after a clock of the chipset, while the machine runs.          *)

Runs == ~rst_all /\ ~bist_active
Wanted(word) == IF word # None THEN Tail(Wants) ELSE Wants

LEMMA RunningIs ==
  ASSUME NEW word, NEW cold, Clocks(word, cold), Runs
  PROVE  /\ bist' = bist /\ ~bist_active' /\ bist.state = "DONE"
         /\ Wants \in Seq(Reads) /\ Got(rd, Wants)
         /\ word # None => /\ rd # <<>> /\ rd \in Seq(Words) /\ Wants # <<>>
                           /\ Real(word)
         /\ romq # None => Wants = <<>>
         /\ romq = None => Wants = owed
         /\ Wanted(word) \in Seq(Reads)
<1>1. bist' = bist /\ ~bist_active' /\ bist.state = "DONE"
  BY TestMoves DEF Runs, bist_active
<1>2. Wants \in Seq(Reads) /\ Got(rd, Wants)
  BY WantsTyped DEF Runs, Clocks, BackendInv, FifoInv
<1>3. word # None => rd # <<>> /\ rd \in Seq(Words)
  BY ClockInputs
<1>4. word # None => Wants # <<>>
  BY <1>2, <1>3, GotPopped
<1>5. word # None => Real(word)
  BY DEF Runs, Real
<1>6. /\ romq # None => Wants = <<>>
      /\ romq = None => Wants = owed
  BY DEF Runs, Wants
<1>7. Wanted(word) \in Seq(Reads)
  BY <1>2, <1>4, TailIs DEF Wanted
<1> QED
  BY <1>1, <1>2, <1>3, <1>4, <1>5, <1>6, <1>7

LEMMA WantsMove ==
  ASSUME NEW word, NEW cold, Clocks(word, cold), Runs
  PROVE  /\ TakenFor("read") /\ ~sel_rom(req.a) =>
              Wants' = Append(Wanted(word), NewRead)
         /\ ~(TakenFor("read") /\ ~sel_rom(req.a)) => Wants' = Wanted(word)
<1>1. Wants' = IF romq' = None THEN owed' ELSE <<>>
  BY RunningIs DEF Wants
<1>2. ~flush_valid
  BY BeatIs DEF Runs
<1>3. CASE romq # None
  <2>1. Wants = <<>> /\ word = None /\ Wanted(word) = <<>>
    BY <1>3, RunningIs DEF Wanted
  <2>2. Len(owed) = 0 + 0 + 1
    BY <1>2, <1>3, BeatIs DEF Bit
  <2>3. Bit(Beat(word) # None) = 1
    BY <1>3, BeatIs DEF Bit
  <2>4. Len(Left(word)) = 0 /\ Left(word) \in Seq(Reads)
    BY <2>2, <2>3, OwedMoves
  <2>5. Left(word) = <<>>
    BY <2>4, EmptySeq
  <2>6. TakenFor("read") /\ ~sel_rom(req.a) => Wants' = Append(Wanted(word), NewRead)
    BY <1>1, <2>1, <2>5, OwedMoves, CountsMove
  <2>7. ~(TakenFor("read") /\ ~sel_rom(req.a)) => Wants' = Wanted(word)
    BY <1>1, <2>1, <2>5, OwedMoves, CountsMove
  <2> QED
    BY <2>6, <2>7
<1>4. CASE romq = None
  <2>1. Wants = owed /\ (Beat(word) # None <=> word # None)
    BY <1>2, <1>4, RunningIs, BeatIs DEF Real
  <2>2. Left(word) = Wanted(word)
    BY <2>1 DEF Left, Wanted
  <2>3. TakenFor("read") /\ ~sel_rom(req.a) => Wants' = Append(Wanted(word), NewRead)
    BY <1>1, <2>2, OwedMoves, CountsMove
  <2>4. ~TakenFor("read") => Wants' = Wanted(word)
    BY <1>1, <2>2, OwedMoves, CountsMove
  <2>5. TakenFor("read") /\ sel_rom(req.a) => Wants' = Wanted(word)
    <3> SUFFICES ASSUME TakenFor("read"), sel_rom(req.a)
                 PROVE  Wants' = Wanted(word)
      OBVIOUS
    <3>1. out_count = 0
      BY TakenIs DEF TakenFor, Clocks
    <3>2. Len(owed) = 0 + 0 + 0 /\ owed \in Seq(Reads)
      BY <1>2, <1>4, <3>1, BeatIs DEF Bit
    <3>3. owed = <<>> /\ word = None
      BY <2>1, <3>2, EmptySeq, RunningIs
    <3>4. Wants' = <<>>
      BY <1>1, CountsMove
    <3> QED
      BY <2>1, <3>3, <3>4 DEF Wanted
  <2> QED
    BY <2>3, <2>4, <2>5
<1> QED
  BY <1>3, <1>4

(* A command for a byte writes that byte and no other.                     *)
LEMMA CommandFields ==
  ASSUME NEW c, NEW op, NEW b, NEW d, c = Command(op, b, d)
  PROVE  c.op = op /\ c.d = d /\ c.w = Word(b) /\ c.lane = Lane(b)
BY DEF Command

LEMMA CommandWrites ==
  ASSUME NEW c, NEW op, NEW b \in Ram, NEW d, c = Command(op, b, d), NEW a \in Ram
  PROVE  Writes(c, a) <=> op = "write" /\ a = b
<1>1. 2 * Word(b) + Lane(b) = b
  BY Halves, AddrFacts
<1> QED
  BY <1>1, CommandFields DEF Writes

LEMMA RunningMemory ==
  ASSUME NEW word, NEW cold, Clocks(word, cold), Runs
  PROVE  MemInv'
<1> SUFFICES ASSUME ~rst_all', ~resets'.hr,
                    NEW a \in Ram, NEW d \in Byte, told'[a] = d \/ Tried(a, d)'
             PROVE  Final(Memory, wr', a, d)
  BY ClockInputs DEF MemInv
<1>1. ~Tried(a, d)'
  BY RunningIs DEF Tried
<1>2. ~resets.hr /\ ~Drops
  BY ClockInputs DEF Drops
<1>3. told'[a] = d /\ told'[a] = IF TakenFor("write") /\ req.a = a
                                 THEN req.d ELSE told[a]
  BY <1>1, <1>2, ToldMoves
<1>4. told[a] = d => Final(Memory, wr, a, d)
  BY <1>2 DEF Runs, Clocks, BackendInv, MemInv
<1>5. wr \in Seq(RamCommands)
  BY ClockInputs
<1>6. CASE Taken /\ ~sel_rom(req.a)
  <2> DEFINE c == Command(req.op, req.a, req.d)
  <2>1. c \in RamCommands /\ wr' = Append(wr, c)
    BY <1>6, Entering DEF Enters
  <2>2. req.a \in Ram
    BY <1>6, TakenIs DEF Clocks
  <2>3. Writes(c, a) <=> req.op = "write" /\ a = req.a
    <3>1. c = Command(req.op, req.a, req.d)
      OBVIOUS
    <3> HIDE DEF c
    <3> QED
      BY <2>2, <3>1, CommandWrites
  <2>6. c.d = req.d
    BY DEF Command
  <2> HIDE DEF c
  <2>4. CASE TakenFor("write") /\ req.a = a
    <3>1. Writes(c, a) /\ c.d = d
      BY <1>3, <2>3, <2>4, <2>6 DEF TakenFor
    <3>2. Final(Memory, Append(wr, c), a, c.d)
      BY <1>5, <2>1, <3>1, FinalWrite
    <3> QED
      BY <2>1, <3>1, <3>2
  <2>5. CASE ~(TakenFor("write") /\ req.a = a)
    <3>1. ~Writes(c, a) /\ told[a] = d
      BY <1>3, <1>6, <2>3, <2>5 DEF TakenFor
    <3>2. Final(Memory, wr, a, d)
      BY <1>4, <3>1
    <3>3. Final(Memory, Append(wr, c), a, d)
      BY <1>5, <2>1, <3>1, <3>2, FinalKept
    <3> QED
      BY <2>1, <3>3
  <2> QED
    BY <2>4, <2>5
<1>7. CASE ~(Taken /\ ~sel_rom(req.a))
  <2>1. wr' = wr
    BY <1>7, Entering DEF Runs, BistWrites, BistReads, bist_active
  <2>2. ~(TakenFor("write") /\ req.a = a)
    BY <1>7, AddrFacts DEF TakenFor, sel_rom
  <2> QED
    BY <1>3, <1>4, <2>1, <2>2
<1> QED
  BY <1>6, <1>7

LEMMA RunningFifos ==
  ASSUME NEW word, NEW cold, Clocks(word, cold), Runs
  PROVE  FifoInv'
<1> DEFINE push == TakenFor("read") /\ ~sel_rom(req.a)
           wants == Wanted(word)
           c == Command(req.op, req.a, req.d)
<1>1. /\ rd \in Seq(Words) /\ rd' \in Seq(Words) /\ wr \in Seq(RamCommands)
      /\ word # None => rd' = Tail(rd)
      /\ word = None => rd' = rd
      /\ Sent' = Sent /\ Memory' = Memory /\ resets'.hr = resets.hr
  BY ClockInputs
<1>2. /\ Wants \in Seq(Reads) /\ Got(rd, Wants) /\ wants \in Seq(Reads)
      /\ word # None => rd # <<>>
  BY RunningIs
<1>3. /\ push => Wants' = Append(wants, NewRead)
      /\ ~push => Wants' = wants
  BY WantsMove
<1>4. push => NewRead \in Reads
  BY OwedMoves
<1>5. Got(rd', wants)
  <2>1. CASE word # None
    <3>1. Got(Tail(rd), Tail(Wants))
      BY <1>1, <1>2, <2>1, GotPopped
    <3> QED
      BY <1>1, <2>1, <3>1 DEF Wanted
  <2>2. CASE word = None
    BY <1>1, <1>2, <2>2 DEF Wanted
  <2> QED
    BY <2>1, <2>2
<1>6. Taken /\ ~sel_rom(req.a) =>
        c \in RamCommands /\ wr' = Append(wr, c) /\ req.a \in Ram
  BY Entering, TakenIs DEF Enters, Clocks
<1>7. ~(Taken /\ ~sel_rom(req.a)) => wr' = wr
  BY Entering DEF Runs, BistWrites, BistReads, bist_active
<1> HIDE DEF c, wants, push
<1>8. Got(rd', Wants')
  BY <1>1, <1>2, <1>3, <1>4, <1>5, GotRead
<1>9. ASSUME ~resets.hr PROVE Piped(Memory, wr', Sent, rd', Wants')
  <2>1. Piped(Memory, wr, Sent, rd, Wants)
    BY <1>9 DEF Runs, Clocks, BackendInv, FifoInv
  <2>2. Sent \in Seq(Words)
    BY SentTyped DEF Clocks, BackendInv
  <2>3. Piped(Memory, wr, Sent, rd', wants)
    <3>1. CASE word # None
      BY <1>1, <1>2, <2>1, <2>2, <3>1, PipePopped DEF Wanted, wants
    <3>2. CASE word = None
      BY <1>1, <2>1, <3>2 DEF Wanted, wants
    <3> QED
      BY <3>1, <3>2
  <2>4. CASE push
    <3>1. /\ Taken /\ ~sel_rom(req.a) /\ req.op = "read" /\ req.a \in Ram
          /\ c \in RamCommands /\ wr' = Append(wr, c) /\ NewRead \in Reads
      BY <1>4, <1>6, <2>4 DEF push, TakenFor
    <3>2. c.op = "read" /\ c.w = Word(req.a)
      BY <3>1 DEF c, Command
    <3>3. NewRead.a = req.a /\ NewRead.d = told[req.a]
      BY DEF NewRead
    <3>4. NewRead.d = Unknown \/ Final(Memory, wr, req.a, NewRead.d)
      <4>1. told[req.a] \in Byte \cup {Unknown}
        BY <3>1, <3>3 DEF Reads
      <4> QED
        BY <1>9, <3>1, <3>3, <4>1 DEF Runs, Clocks, BackendInv, MemInv
    <3>5. Due(Memory, wr, c, NewRead)
      BY <3>2, <3>3, <3>4 DEF Due
    <3>6. Piped(Memory, Append(wr, c), Sent, rd', Append(wants, NewRead))
      BY <1>1, <1>2, <2>2, <2>3, <3>1, <3>5, PipeRead
    <3> QED
      BY <1>3, <2>4, <3>1, <3>6
  <2>5. CASE ~push /\ Taken /\ ~sel_rom(req.a)
    <3>1. c \in RamCommands /\ wr' = Append(wr, c) /\ req.op = "write"
      BY <1>6, <2>5, TakenIs DEF push, TakenFor, Clocks
    <3>2. c.op = "write"
      BY <3>1 DEF c, Command
    <3>3. owed = <<>>
      BY <3>1 DEF Clocks, BackendInv, CountInv
    <3>4. Wants = <<>> /\ word = None /\ wants = <<>>
      <4>1. Wants = <<>>
        BY <3>3, RunningIs
      <4>2. word = None
        BY <4>1, RunningIs
      <4> QED
        BY <4>1, <4>2 DEF wants, Wanted
    <3>5. Piped(Memory, Append(wr, c), Sent, rd', <<>>)
      BY <1>1, <2>2, <2>3, <3>1, <3>2, <3>4, PipeWrite
    <3> QED
      BY <1>3, <2>5, <3>1, <3>4, <3>5
  <2>6. CASE ~push /\ ~(Taken /\ ~sel_rom(req.a))
    BY <1>3, <1>7, <2>3, <2>6
  <2> QED
    BY <2>4, <2>5, <2>6
<1> QED
  BY <1>1, <1>8, <1>9 DEF FifoInv

-----------------------------------------------------------------------------
(* What is owed after a clock of the chipset, and which lane each word     *)
(* gives.                                                                  *)

PushPop(n, push, pop, ls, more, ls2, wants, wants2, x) ==
  /\ n \in Nat /\ push \in {0, 1} /\ pop \in {0, 1} /\ pop <= n
  /\ \A i \in 1 .. n : ls[n + 1 - i] = Lane(wants[i].a)
  /\ \A j \in 1 .. n : more[j + push] = ls[j]
  /\ push = 1 => more[1] = Lane(x.a) /\ wants2[n - pop + 1] = x
  /\ \A j \in 1 .. n + push - pop : ls2[j] = more[j]
  /\ \A i \in 1 .. n - pop : wants2[i] = wants[i + pop]

LEMMA LanesMove ==
  ASSUME NEW n, NEW push, NEW pop, NEW ls, NEW more, NEW ls2, NEW wants,
         NEW wants2, NEW x,
         PushPop(n, push, pop, ls, more, ls2, wants, wants2, x)
  PROVE  \A i \in 1 .. n + push - pop :
           ls2[n + push - pop + 1 - i] = Lane(wants2[i].a)
<1> USE DEF PushPop
<1> SUFFICES ASSUME NEW i \in 1 .. n + push - pop
             PROVE  ls2[n + push - pop + 1 - i] = Lane(wants2[i].a)
  OBVIOUS
<1> DEFINE j == n + push - pop + 1 - i
<1>1. j \in 1 .. n + push - pop /\ ls2[j] = more[j]
  OBVIOUS
<1>2. CASE i \in 1 .. n - pop
  <2>1. i + pop \in 1 .. n /\ j - push \in 1 .. n /\ j - push = n + 1 - (i + pop)
    BY <1>2
  <2>2. more[j] = ls[j - push]
    <3>1. j = (j - push) + push
      OBVIOUS
    <3> HIDE DEF j
    <3> QED
      BY <2>1, <3>1
  <2>3. ls[j - push] = Lane(wants[i + pop].a)
    BY <2>1
  <2> QED
    BY <1>1, <1>2, <2>2, <2>3
<1>3. CASE i \notin 1 .. n - pop
  <2>1. push = 1 /\ i = n - pop + 1 /\ j = 1
    BY <1>3
  <2> QED
    BY <1>1, <2>1
<1> QED
  BY <1>2, <1>3

LEMMA PrefixIs ==
  ASSUME NEW S, NEW s \in Seq(S), NEW m \in 1 .. Len(s)
  PROVE  /\ SubSeq(s, 1, m) \in Seq(S) /\ Len(SubSeq(s, 1, m)) = m
         /\ \A j \in 1 .. m : SubSeq(s, 1, m)[j] = s[j]
<1>1. Len(s) \in Nat
  BY LenProperties
<1>2. m \in Int /\ 1 <= m /\ m - 1 + 1 = m
  BY <1>1
<1>3. \A i \in 1 .. m : s[i] \in S
  BY <1>1, ElementOfSeq
<1>4. /\ SubSeq(s, 1, m) \in Seq(S)
      /\ Len(SubSeq(s, 1, m)) = IF 1 <= m THEN m - 1 + 1 ELSE 0
      /\ \A j \in 1 .. m - 1 + 1 : SubSeq(s, 1, m)[j] = s[1 + j - 1]
  BY <1>2, <1>3, SubSeqProperties
<1> QED
  BY <1>2, <1>4

(* The read that the clock takes for the HyperRAM, and the lanes with it.   *)
Pushes == Bit(TakenFor("read") /\ ~sel_rom(req.a))
LanesIn ==
  IF TakenFor("read") /\ ~sel_rom(req.a) THEN <<Lane(req.a)>> \o lanes
                                         ELSE lanes

LEMMA LanesAre ==
  ASSUME NEW word, NEW cold, Clocks(word, cold)
  PROVE  /\ lanes' \in Seq(Lanes) /\ Len(lanes') = out_count'
         /\ \A j \in 1 .. out_count' : lanes'[j] = LanesIn[j]
         /\ \A j \in 1 .. out_count : LanesIn[j + Pushes] = lanes[j]
         /\ Pushes = 1 => LanesIn[1] = Lane(req.a)
         /\ out_count' <= out_count + Pushes
<1>1. lanes \in Seq(Lanes) /\ Len(lanes) = out_count /\ out_count \in Nat
  BY DEF Clocks, BackendInv, BackendType, CountInv
<1>2. lanes' = SubSeq(LanesIn, 1, out_count')
  BY DEF Clocks, ClkTick, Outstanding, LanesIn
<1>3. out_count' <= out_count + Pushes /\ out_count' \in Nat
  <2>1. out_count' = out_count + Pushes - Bit(Real(word) \/ Flushes(word))
    BY CountsMove DEF Pushes
  <2>2. Bit(Real(word) \/ Flushes(word)) \in {0, 1} /\ Pushes \in {0, 1}
    BY DEF Bit, Pushes
  <2> HIDE DEF Bit
  <2> QED
    BY <1>1, <2>1, <2>2, CountsMove
<1>4. /\ LanesIn \in Seq(Lanes) /\ Len(LanesIn) = out_count + Pushes
      /\ \A j \in 1 .. out_count : LanesIn[j + Pushes] = lanes[j]
      /\ Pushes = 1 => LanesIn[1] = Lane(req.a)
  <2>1. CASE TakenFor("read") /\ ~sel_rom(req.a)
    <3>1. LanesIn = <<Lane(req.a)>> \o lanes /\ Pushes = 1
      BY <2>1 DEF Bit, Pushes, LanesIn
    <3>2. Lane(req.a) \in Lanes
      BY <2>1, TakenIs, AddrFacts, Halves DEF TakenFor, Clocks
    <3> HIDE <2>1
    <3>3. /\ <<Lane(req.a)>> \in Seq(Lanes) /\ Len(<<Lane(req.a)>>) = 1
          /\ <<Lane(req.a)>>[1] = Lane(req.a)
      BY <3>2
    <3> DEFINE new == <<Lane(req.a)>>
    <3> HIDE DEF new
    <3>4. /\ new \in Seq(Lanes) /\ Len(new) = 1 /\ new[1] = Lane(req.a)
          /\ LanesIn = new \o lanes
      BY <3>1, <3>3 DEF new
    <3>5. /\ new \o lanes \in Seq(Lanes) /\ Len(new \o lanes) = 1 + out_count
          /\ \A j \in 1 .. 1 + out_count :
               (new \o lanes)[j] = IF j <= 1 THEN new[j] ELSE lanes[j - 1]
      BY ONLY <1>1, <3>4, ConcatProperties, SMTT(30)
    <3>6. ASSUME NEW j \in 1 .. out_count PROVE LanesIn[j + 1] = lanes[j]
      <4>1. j + 1 \in 1 .. 1 + out_count /\ ~(j + 1 <= 1) /\ (j + 1) - 1 = j
        BY <1>1
      <4> QED
        BY <3>4, <3>5, <4>1
    <3>7. \A j \in 1 .. out_count : LanesIn[j + Pushes] = lanes[j]
      BY <3>1, <3>6
    <3>8. 1 \in 1 .. 1 + out_count
      BY <1>1
    <3>9. LanesIn[1] = Lane(req.a)
      BY <3>4, <3>5, <3>8
    <3>10. LanesIn \in Seq(Lanes) /\ Len(LanesIn) = out_count + Pushes
      BY ONLY <1>1, <3>1, <3>4, <3>5
    <3> QED
      BY <3>7, <3>9, <3>10
  <2>2. CASE ~(TakenFor("read") /\ ~sel_rom(req.a))
    BY <1>1, <2>2 DEF Bit, Pushes, LanesIn
  <2> QED
    BY <2>1, <2>2
<1>5. /\ lanes' \in Seq(Lanes) /\ Len(lanes') = out_count'
      /\ \A j \in 1 .. out_count' : lanes'[j] = LanesIn[j]
  <2>1. Pushes \in {0, 1}
    BY DEF Bit, Pushes
  <2>2. out_count' = 0 \/ out_count' \in 1 .. Len(LanesIn)
    BY <1>1, <1>3, <1>4, <2>1
  <2>3. CASE out_count' = 0
    <3>1. SubSeq(LanesIn, 1, 0) = <<>>
      BY <1>4, SubSeqEmpty
    <3> QED
      BY <1>2, <2>3, <3>1, EmptySeq
  <2>4. CASE out_count' \in 1 .. Len(LanesIn)
    <3>1. /\ SubSeq(LanesIn, 1, out_count') \in Seq(Lanes)
          /\ Len(SubSeq(LanesIn, 1, out_count')) = out_count'
          /\ \A j \in 1 .. out_count' : SubSeq(LanesIn, 1, out_count')[j] = LanesIn[j]
      BY <1>4, <2>4, PrefixIs
    <3> QED
      BY <1>2, <3>1
  <2> QED
    BY <2>2, <2>3, <2>4
<1> QED
  BY <1>3, <1>4, <1>5

(* While the test runs nothing is taken and nothing is owed.               *)
Tries == ~rst_all /\ bist_active

LEMMA TryingIs ==
  ASSUME NEW word, NEW cold, Clocks(word, cold), Tries
  PROVE  /\ ~Taken /\ ~TakenFor("read") /\ ~TakenFor("write") /\ ~Drops
         /\ owed' = <<>> /\ romq' = None /\ out_count' = 0 /\ flush_valid' = FALSE
         /\ Wants' = IF bist'.state = "RD_WAIT"
                     THEN <<[a |-> SelfTest[bist'.idx][1], d |-> SelfTest[bist'.idx][2]]>>
                     ELSE <<>>
         /\ BistMoves(word)
<1>1. ~Taken /\ ~TakenFor("read") /\ ~TakenFor("write") /\ ~Drops
  BY DEF Tries, Taken, TakenFor, Drops
<1>2. owed = <<>>
  BY DEF Tries, Clocks, BackendInv, CountInv
<1>3. Beat(word) = None
  BY <1>2, BeatIs
<1>4. owed' = <<>>
  BY <1>1, <1>2, <1>3, OwedMoves DEF Left
<1>5. romq' = None
  BY <1>1, CountsMove
<1>6. flush_valid' = FALSE
  BY CountsMove DEF Flushes, Tries
<1>7. Len(owed') = out_count' + 0 + 0
  BY <1>5, <1>6, LenOwedMoves DEF AnswersCounted, Bit
<1>8. out_count' = 0
  <2>1. Len(owed') = 0
    BY <1>4, EmptySeq
  <2> QED
    BY <1>7, <2>1, CountsMove
<1>9. Wants' = IF bist'.state = "RD_WAIT"
               THEN <<[a |-> SelfTest[bist'.idx][1], d |-> SelfTest[bist'.idx][2]]>>
               ELSE <<>>
  BY <1>4, <1>5 DEF Wants, bist_active, Tested
<1>10. BistMoves(word)
  BY TestMoves DEF Tries
<1> QED
  BY <1>1, <1>4, <1>5, <1>6, <1>8, <1>9, <1>10

LEMMA CountsKept ==
  ASSUME NEW word, NEW cold, Clocks(word, cold)
  PROVE  CountInv'
<1>1. AnswersCounted'
  BY LenOwedMoves
<1>2. Len(lanes') = out_count'
  BY LanesAre
<1>3. /\ Len(owed') + Bit(req.op = "read")' <= issued'
      /\ req'.op = "write" => owed' = <<>>
  BY RequestMoves DEF Bit
<1>4. ASSUME romq' # None PROVE out_count' = 0 /\ ~flush_valid'
  <2>1. TakenFor("read") /\ sel_rom(req.a)
    BY <1>4, CountsMove
  <2>2. out_count = 0 /\ ~rst_all
    BY <2>1, TakenIs DEF TakenFor, Clocks
  <2>3. ~Real(word) /\ Flushes(word) = FALSE
    BY <2>2, BeatIs DEF Flushes
  <2>4. out_count' = out_count + 0 - 0
    BY <2>1, <2>3, CountsMove DEF Bit
  <2> QED
    BY <2>2, <2>3, <2>4, CountsMove
<1>5. ASSUME ~rst_all', bist_active' PROVE owed' = <<>>
  <2>1. CASE rst_all
    <3>1. ~resets.meta
      BY <1>5, ClockInputs DEF rst_all
    <3> QED
      BY <2>1, <3>1, ResetClock
  <2>2. CASE Tries
    BY <2>2, TryingIs
  <2>3. CASE Runs
    BY <1>5, <2>3, RunningIs
  <2> QED
    BY <2>1, <2>2, <2>3 DEF Runs, Tries
<1> QED
  BY <1>1, <1>2, <1>3, <1>4, <1>5 DEF CountInv

LEMMA PromisesKept ==
  ASSUME NEW word, NEW cold, Clocks(word, cold)
  PROVE  /\ \A a \in Block : told'[a] = block'[a]
         /\ held' => \A a \in Ram : told'[a] = Unknown
<1>1. \A a \in Block : told[a] = block[a]
  BY DEF Clocks, BackendInv, OwedInv
<1>2. held => \A a \in Ram : told[a] = Unknown
  BY DEF Clocks, BackendInv, OwedInv
<1>3. \A a \in Block : told'[a] = block'[a]
  BY <1>1, ToldMoves, CountsMove
<1>4. ASSUME held' PROVE \A a \in Ram : told'[a] = Unknown
  <2>1. CASE Runs
    <3>1. Drops
      BY <1>4, <2>1, RunningIs DEF held, Drops, Runs
    <3> QED
      BY <3>1, ToldMoves
  <2>2. CASE ~Runs
    <3>1. held /\ ~Taken /\ ~Drops
      BY <2>2 DEF Runs, held, Taken, Drops
    <3> QED
      BY <1>2, <3>1, ToldMoves DEF TakenFor
  <2> QED
    BY <2>1, <2>2
<1> QED
  BY <1>3, <1>4

(* A read of the block RAM is the only one left of what was owed.          *)
LEMMA RomAlone ==
  ASSUME NEW word, NEW cold, Clocks(word, cold),
         romq # None \/ (TakenFor("read") /\ sel_rom(req.a))
  PROVE  Left(word) = <<>>
<1>1. out_count = 0 /\ ~flush_valid
  <2>1. CASE romq # None
    BY <2>1, BeatIs
  <2>2. CASE TakenFor("read") /\ sel_rom(req.a)
    BY <2>2, TakenIs, BeatIs DEF TakenFor, Clocks
  <2> QED
    BY <2>1, <2>2
<1>2. ~Real(word)
  BY <1>1, BeatIs
<1>3. Len(owed) = 0 + 0 + Bit(romq # None)
  BY <1>1, BeatIs DEF Bit
<1>4. Beat(word) # None <=> romq # None
  BY <1>1, <1>2, BeatIs
<1>5. Bit(romq # None) \in {0, 1} /\ Bit(Beat(word) # None) = Bit(romq # None)
  BY <1>4 DEF Bit
<1> HIDE DEF Bit
<1>6. Len(Left(word)) = 0 /\ Left(word) \in Seq(Reads)
  BY <1>3, <1>5, OwedMoves
<1> QED
  BY <1>6, EmptySeq

LEMMA OwedPlaces ==
  ASSUME NEW word, NEW cold, Clocks(word, cold)
  PROVE  /\ romq' # None =>
              owed' # <<>> /\ owed'[1].a \in Block /\ owed'[1].d = romq'
         /\ romq' = None => \A i \in 1 .. Len(owed') : owed'[i].a \in Ram
<1>1. ASSUME romq' # None
      PROVE  owed' # <<>> /\ owed'[1].a \in Block /\ owed'[1].d = romq'
  <2>1. TakenFor("read") /\ sel_rom(req.a)
    BY <1>1, CountsMove
  <2>2. Left(word) = <<>> /\ owed' = Append(Left(word), NewRead)
    BY <2>1, RomAlone, OwedMoves
  <2>3. owed' = <<NewRead>>
    BY <2>2
  <2>4. req.a \in Block
    BY <2>1, TakenIs DEF TakenFor, Clocks
  <2>5. romq' = block[req.a] /\ told[req.a] = block[req.a]
    BY <2>1, <2>4, CountsMove DEF Clocks, BackendInv, OwedInv
  <2> QED
    BY <2>3, <2>4, <2>5 DEF NewRead
<1>2. ASSUME romq' = None, NEW i \in 1 .. Len(owed') PROVE owed'[i].a \in Ram
  <2>1. ~(TakenFor("read") /\ sel_rom(req.a))
    BY <1>2, CountsMove
  <2>2. Left(word) \in Seq(Reads)
    BY OwedMoves
  <2>3. \A j \in 1 .. Len(Left(word)) : Left(word)[j].a \in Ram
    <3>1. CASE romq # None
      <4>1. Len(Left(word)) = 0
        BY <3>1, RomAlone, EmptySeq
      <4> QED
        BY <4>1
    <3>2. CASE romq = None
      <4>1. \A j \in 1 .. Len(owed) : owed[j].a \in Ram
        BY <3>2 DEF Clocks, BackendInv, OwedInv
      <4>2. owed \in Seq(Reads) /\ (Beat(word) # None => owed # <<>>)
        BY BeatIs
      <4>3. CASE Beat(word) = None
        BY <4>1, <4>3 DEF Left
      <4>4. CASE Beat(word) # None
        <5>1. /\ Len(Tail(owed)) = Len(owed) - 1 /\ Len(owed) \in Nat
              /\ \A j \in 1 .. Len(owed) - 1 : Tail(owed)[j] = owed[j + 1]
          BY <4>2, <4>4, TailIs
        <5>2. \A j \in 1 .. Len(owed) - 1 : owed[j + 1].a \in Ram
          BY <4>1, <5>1
        <5> QED
          BY <4>4, <5>1, <5>2 DEF Left
      <4> QED
        BY <4>3, <4>4
    <3> QED
      BY <3>1, <3>2
  <2>4. CASE TakenFor("read")
    <3>1. NewRead \in Reads /\ owed' = Append(Left(word), NewRead)
      BY <2>4, OwedMoves
    <3>2. NewRead.a \in Ram
      BY <2>1, <2>4, TakenIs DEF TakenFor, Clocks, NewRead
    <3>3. /\ Len(owed') = Len(Left(word)) + 1 /\ Len(Left(word)) \in Nat
          /\ owed'[Len(Left(word)) + 1] = NewRead
          /\ \A j \in 1 .. Len(Left(word)) : owed'[j] = Left(word)[j]
      BY <2>2, <3>1, AppendIs
    <3>4. CASE i = Len(Left(word)) + 1
      BY <3>2, <3>3, <3>4
    <3>5. CASE i # Len(Left(word)) + 1
      <4>1. i \in 1 .. Len(Left(word))
        BY <3>3, <3>5
      <4> QED
        BY <2>3, <3>3, <4>1
    <3> QED
      BY <3>4, <3>5
  <2>5. CASE ~TakenFor("read")
    BY <2>3, <2>5, OwedMoves
  <2> QED
    BY <2>4, <2>5
<1> QED
  BY <1>1, <1>2

LEMMA LanesKept ==
  ASSUME NEW word, NEW cold, Clocks(word, cold), ~rst_all', ~bist_active'
  PROVE  \A i \in 1 .. out_count' :
           lanes'[out_count' + 1 - i] = Lane(Wants'[i].a)
<1>1. CASE rst_all
  <2>1. ~resets.meta
    BY ClockInputs DEF rst_all
  <2>2. out_count' = 0
    BY <1>1, <2>1, ResetClock
  <2> QED
    BY <2>2
<1>2. CASE Tries
  <2>1. out_count' = 0
    BY <1>2, TryingIs
  <2> QED
    BY <2>1
<1>3. CASE Runs
  <2> DEFINE push == Bit(TakenFor("read") /\ ~sel_rom(req.a))
             pop == Bit(word # None)
             more == IF TakenFor("read") /\ ~sel_rom(req.a)
                     THEN <<Lane(req.a)>> \o lanes ELSE lanes
             n == out_count
  <2>1. push \in {0, 1} /\ pop \in {0, 1} /\ n \in Nat
    BY BeatIs DEF Bit
  <2>0. push = Pushes /\ more = LanesIn
    BY DEF Pushes, LanesIn
  <2>2. /\ \A j \in 1 .. out_count' : lanes'[j] = more[j]
        /\ \A j \in 1 .. out_count : more[j + push] = lanes[j]
        /\ push = 1 => more[1] = Lane(req.a)
    <3> HIDE DEF push, more
    <3> QED
      BY <2>0, LanesAre
  <2>3. \A j \in 1 .. n : more[j + push] = lanes[j]
    BY <2>2, Zenon
  <2>4. push = 1 => more[1] = Lane(req.a)
    BY <2>2, Zenon
  <2>5. \A i \in 1 .. n : lanes[n + 1 - i] = Lane(Wants[i].a)
    BY <1>3 DEF Runs, Clocks, BackendInv, OwedInv
  <2>6. out_count' = n + push - pop /\ pop <= n
    <3>1. (Real(word) \/ Flushes(word)) <=> word # None
      BY <1>3 DEF Runs, Real, Flushes
    <3>2. Bit(Real(word) \/ Flushes(word)) = pop
      BY <3>1 DEF Bit
    <3>3. word # None => out_count >= 1
      BY <1>3, RunningIs, BeatIs
    <3> QED
      BY <2>1, <3>2, <3>3, CountsMove DEF Bit
  <2>7. Wants \in Seq(Reads) /\ Len(Wants) = n
    <3>1. Wants \in Seq(Reads)
      BY <1>3, RunningIs
    <3>2. CASE romq # None
      BY <1>3, <3>2, RunningIs, BeatIs, EmptySeq
    <3>3. CASE romq = None
      <4>1. Len(owed) = out_count + 0 + 0
        BY <1>3, <3>3, BeatIs DEF Runs, Bit
      <4> QED
        BY <1>3, <2>1, <3>3, <4>1, RunningIs
    <3> QED
      BY <3>1, <3>2, <3>3
  <2>8. /\ \A i \in 1 .. n - pop : Wanted(word)[i] = Wants[i + pop]
        /\ Len(Wanted(word)) = n - pop
    <3>1. CASE word # None
      <4>1. pop = 1 /\ Wants # <<>>
        BY <1>3, <3>1, RunningIs DEF Bit
      <4> HIDE DEF pop, n
      <4>2. /\ Len(Tail(Wants)) = Len(Wants) - 1
            /\ \A i \in 1 .. Len(Wants) - 1 : Tail(Wants)[i] = Wants[i + 1]
        BY <2>7, <4>1, TailIs
      <4> QED
        BY <2>7, <3>1, <4>1, <4>2 DEF Wanted
    <3>2. CASE word = None
      <4>1. pop = 0
        BY <3>2 DEF Bit
      <4> HIDE DEF pop, n
      <4> QED
        BY <2>1, <2>7, <3>2, <4>1 DEF Wanted
    <3> QED
      BY <3>1, <3>2
  <2>9. Wanted(word) \in Seq(Reads) /\ NewRead.a = req.a
    BY <1>3, RunningIs DEF NewRead
  <2>10. /\ \A i \in 1 .. n - pop : Wants'[i] = Wants[i + pop]
         /\ push = 1 => Wants'[n - pop + 1] = NewRead
    <3>1. CASE TakenFor("read") /\ ~sel_rom(req.a)
      <4>1. NewRead \in Reads /\ Wants' = Append(Wanted(word), NewRead)
        BY <1>3, <3>1, WantsMove, OwedMoves
      <4> HIDE DEF pop, n, push
      <4>2. /\ Wants'[Len(Wanted(word)) + 1] = NewRead
            /\ \A i \in 1 .. Len(Wanted(word)) : Wants'[i] = Wanted(word)[i]
        BY <2>9, <4>1, AppendIs
      <4> QED
        BY <2>8, <4>2
    <3>2. CASE ~(TakenFor("read") /\ ~sel_rom(req.a))
      <4>1. push = 0 /\ Wants' = Wanted(word)
        BY <1>3, <3>2, WantsMove DEF Bit
      <4> HIDE DEF pop, n, push
      <4> QED
        BY <2>8, <4>1
    <3> QED
      BY <3>1, <3>2
  <2> HIDE DEF push, pop, n, more
  <2>11. push = 1 => more[1] = Lane(NewRead.a) /\ Wants'[n - pop + 1] = NewRead
    BY <2>4, <2>9, <2>10
  <2>12. \A j \in 1 .. n + push - pop : lanes'[j] = more[j]
    BY <2>2, <2>6
  <2>13. \A i \in 1 .. n + push - pop :
           lanes'[n + push - pop + 1 - i] = Lane(Wants'[i].a)
    <3>1. PushPop(n, push, pop, lanes, more, lanes', Wants, Wants', NewRead)
      BY <2>1, <2>3, <2>5, <2>6, <2>10, <2>11, <2>12 DEF PushPop
    <3> QED
      BY <3>1, LanesMove
  <2> QED
    BY <2>6, <2>13
<1> QED
  BY <1>1, <1>2, <1>3 DEF Runs, Tries

LEMMA OwedKept ==
  ASSUME NEW word, NEW cold, Clocks(word, cold)
  PROVE  OwedInv'
BY PromisesKept, OwedPlaces, LanesKept DEF OwedInv

-----------------------------------------------------------------------------
(* The rest of the invariant after a clock of the chipset.                 *)

(* A word that is answered gives the byte of the oldest read.              *)
LEMMA BeatGives ==
  ASSUME NEW word, NEW cold, Clocks(word, cold)
  PROVE  /\ Beat(word) \in Byte \cup {Dummy, None}
         /\ romq # None => Beat(word) = romq
         /\ romq = None /\ flush_valid => Beat(word) = Dummy
         /\ Real(word) => Beat(word) = word[Lane(owed[1].a)] /\ Beat(word) \in Byte
<1>1. romq \in Byte \cup {None}
  BY DEF Clocks, BackendInv, BackendType
<1>2. ASSUME Real(word)
      PROVE  Beat(word) = word[Lane(owed[1].a)] /\ Beat(word) \in Byte
  <2>1. /\ ~rst_all /\ ~bist_active /\ romq = None /\ ~flush_valid
        /\ Wants = owed /\ word \in Words /\ out_count >= 1
        /\ owed \in Seq(Reads) /\ out_count \in Nat
    BY <1>2, BeatIs
  <2>2. lanes[out_count + 1 - 1] = Lane(owed[1].a)
    <3>1. 1 \in 1 .. out_count
      BY <2>1
    <3>2. \A i \in 1 .. out_count : lanes[out_count + 1 - i] = Lane(Wants[i].a)
      BY <2>1 DEF Clocks, BackendInv, OwedInv
    <3> QED
      BY <2>1, <3>1, <3>2
  <2>3. out_count + 1 - 1 = Oldest /\ out_count > 0
    BY <2>1 DEF Oldest
  <2>4. Beat(word) = word[lanes[Oldest]]
    BY <1>2, <2>1, <2>3 DEF Beat
  <2>5. lanes[Oldest] \in Lanes
    <3>1. lanes \in Seq(Lanes) /\ Len(lanes) = out_count
      BY DEF Clocks, BackendInv, BackendType, CountInv
    <3>2. Oldest \in 1 .. Len(lanes)
      BY <2>1, <3>1 DEF Oldest
    <3> QED
      BY <3>1, <3>2, ElementOfSeq
  <2>6. word[lanes[Oldest]] \in Byte
    BY <2>1, <2>5 DEF Words
  <2> QED
    BY <2>2, <2>3, <2>4, <2>6
<1>3. /\ romq # None => Beat(word) = romq
      /\ romq = None /\ flush_valid => Beat(word) = Dummy
      /\ romq = None /\ ~flush_valid /\ ~Real(word) => Beat(word) = None
  BY DEF Beat
<1> QED
  BY <1>1, <1>2, <1>3

LEMMA TypesKept ==
  ASSUME NEW word, NEW cold, Clocks(word, cold)
  PROVE  BackendType' /\ HyperType'
<1>1. /\ config' = config /\ presses' = presses /\ resets' \in ResetsType
      /\ rd' \in Seq(Words) /\ UNCHANGED sideVars
  BY ClockInputs
<1>2. held' \in BOOLEAN
  BY <1>1 DEF held, rst_all, bist_active, ResetsType
<1>3. last' \in Bus!Beats \cup {None}
  <2>1. last' = Beat(word)
    BY DEF Clocks, ClkTick, Bus!Records
  <2> QED
    BY <2>1, BeatGives DEF Bus!Beats
<1>4. told' \in [Addr -> Byte \cup {Unknown}] /\ owed' \in Seq(Reads)
  BY ToldMoves, OwedMoves
<1>5. Bus!BusType'
  BY <1>2, <1>3, <1>4 DEF Bus!BusType, held, Reads
<1>6. BackendType'
  <2>1. /\ config \in Configs /\ presses \in 0 .. MaxResets
    BY DEF Clocks, BackendInv, BackendType
  <2>2. req' \in Bus!Commands \cup {Bus!NoCommand} /\ issued' \in 0 .. MaxOwed
    BY RequestMoves
  <2>3. /\ block' \in [Block -> Byte] /\ romq' \in Byte \cup {None}
        /\ out_count' \in Nat /\ flush_valid' \in BOOLEAN
    BY CountsMove
  <2>4. lanes' \in Seq(Lanes)
    BY LanesAre
  <2>5. bist' \in [state : Tests, idx : 1 .. Len(SelfTest), err : {0}]
    BY TestMoves
  <2>6. Len(wr') <= FifoDepth
    BY Entering
  <2> QED
    BY <1>1, <1>5, <2>1, <2>2, <2>3, <2>4, <2>5, <2>6 DEF BackendType
<1>7. HyperType'
  <2>1. HyperType
    BY DEF Clocks, BackendInv, HyperInv
  <2>2. wr' \in Seq(RamCommands)
    BY Entering
  <2> QED
    BY <1>1, <2>1, <2>2 DEF HyperType, ResetsType, sideVars
<1> QED
  BY <1>6, <1>7

LEMMA ResetsKept ==
  ASSUME NEW word, NEW cold, Clocks(word, cold)
  PROVE  ResetInv'
<1>1. ResetInv
  BY DEF Clocks, BackendInv
<1>2. /\ resets'.cold = cold /\ resets'.hr = resets.hr
      /\ resets'.meta = resets.hr /\ resets'.sync = resets.meta
      /\ resets'.seen = resets.seen /\ (cold => resets.cold)
      /\ cache' = cache /\ c_pending' = c_pending /\ burst' = burst
  BY ClockInputs DEF sideVars
<1>3. rst_all' <=> cold \/ resets.meta
  BY <1>2 DEF rst_all
<1>4. rst_all' /\ ~resets.hr => rst_all
  BY <1>1, <1>2, <1>3 DEF ResetInv, rst_all
<1>5. ASSUME rst_all', ~(resets'.hr /\ resets'.meta) PROVE Quiet'
  <2>1. rst_all /\ ~(resets.hr /\ resets.meta)
    BY <1>2, <1>4, <1>5
  <2>2. Quiet /\ rd' = <<>> /\ wr' = <<>> /\ out_count' = 0 /\ flush_valid' = FALSE
    BY <2>1, ResetClock
  <2> QED
    BY <1>2, <2>2 DEF Quiet
<1>6. rst_all' /\ ~resets'.meta => romq' = None
  BY <1>2, <1>4, ResetClock
<1>7. resets'.seen => cache' = Empty /\ ~c_pending' /\ burst' = <<>>
  BY <1>1, <1>2 DEF ResetInv
<1>8. flush_valid' => rst_all' /\ resets'.sync /\ resets'.hr /\ resets'.meta
  <2> SUFFICES ASSUME flush_valid' PROVE resets.hr /\ resets.meta
    BY <1>2, <1>3
  <2>1. rst_all /\ out_count # 0
    BY CountsMove DEF Flushes
  <2> QED
    BY <1>1, <2>1 DEF ResetInv, Quiet
<1> QED
  BY <1>2, <1>5, <1>6, <1>7, <1>8 DEF ResetInv

-----------------------------------------------------------------------------
(* The line after a clock of the chipset, in a reset and in the self test. *)

LEMMA NoLine ==
  ASSUME NEW mem
  PROVE  Got(<<>>, <<>>) /\ Piped(mem, <<>>, <<>>, <<>>, <<>>)
<1>1. Len(<<>>) = 0
  OBVIOUS
<1> QED
  BY <1>1 DEF Got, Piped

LEMMA ResetLine ==
  ASSUME NEW word, NEW cold, Clocks(word, cold), rst_all
  PROVE  MemInv' /\ FifoInv'
<1>1. CASE rst_all'
  BY <1>1 DEF MemInv, FifoInv
<1>2. CASE ~rst_all'
  <2>1. ~resets.meta
    BY <1>2, ClockInputs DEF rst_all
  <2>2. /\ wr' = <<>> /\ rd' = <<>> /\ Sent = <<>> /\ romq' = None /\ owed' = <<>>
        /\ bist'.state \in {"WAIT", "DONE"}
    BY <2>1, ResetClock
  <2>3. Wants' = <<>>
    BY <2>2 DEF Wants
  <2>4. FifoInv'
    BY <2>2, <2>3, NoLine, ClockInputs DEF FifoInv
  <2>5. \A a \in Ram : told[a] = Unknown
    BY DEF Clocks, BackendInv, OwedInv, held
  <2>6. \A a \in Ram : told'[a] = Unknown
    BY <2>5, ResetClock, ToldMoves
  <2>7. \A a, d : ~Tried(a, d)'
    BY <2>2 DEF Tried
  <2> QED
    BY <2>4, <2>6, <2>7, AddrFacts DEF MemInv
<1> QED
  BY <1>1, <1>2

(* The byte the test is at.                                                *)
LEMMA AtTest ==
  ASSUME BackendInv
  PROVE  /\ bist.idx \in 1 .. Len(SelfTest)
         /\ Tested[1] \in Ram /\ Tested[2] \in Byte
         /\ SelfTest[bist.idx] = <<Tested[1], Tested[2]>>
         /\ [a |-> Tested[1], d |-> Tested[2]] \in Reads
<1>1. bist.idx \in 1 .. Len(SelfTest)
  BY DEF BackendInv, BackendType
<1>2. /\ Tested[1] \in Ram /\ Tested[2] \in Byte
      /\ SelfTest[bist.idx] = <<Tested[1], Tested[2]>>
  BY <1>1, TestFacts DEF Tested
<1>3. [a |-> Tested[1], d |-> Tested[2]] \in Reads
  BY <1>2, AddrFacts DEF Reads
<1> QED
  BY <1>1, <1>2, <1>3

LEMMA TriedMoves ==
  ASSUME NEW word, NEW cold, Clocks(word, cold), Tries, NEW a, NEW d, Tried(a, d)'
  PROVE  \/ Tried(a, d)
         \/ BistWrites /\ SelfTest[bist.idx] = <<a, d>>
<1>1. bist'.state \notin {"WAIT", "DONE"}
  BY DEF Tried
<1>2. PICK i \in 1 .. Len(SelfTest) :
        SelfTest[i] = <<a, d>> /\ (bist'.state = "WRITE" => i < bist'.idx)
  BY DEF Tried
<1>3. BistMoves(word)
  BY TryingIs
<1>4. Len(SelfTest) \in Nat /\ bist.idx \in 1 .. Len(SelfTest) /\ i \in Nat /\ i >= 1
  BY TestFacts, AtTest DEF Clocks
<1>5. CASE bist' = bist
  BY <1>1, <1>2, <1>5 DEF Tried
<1>6. CASE bist.state = "WAIT" /\ BistIs("WRITE", 1)
  BY <1>2, <1>4, <1>6 DEF BistIs
<1>7. CASE BistWrites
  <2>1. bist.state = "WRITE"
    BY <1>7 DEF BistWrites
  <2>2. i < bist.idx \/ i = bist.idx
    <3>1. \/ bist'.state = "WRITE" /\ bist'.idx = bist.idx + 1
          \/ bist.idx = Len(SelfTest)
      BY <1>3, <1>7, <2>1 DEF BistMoves, BistIs, BistReads
    <3> QED
      BY <1>2, <1>4, <3>1
  <2>3. i < bist.idx => Tried(a, d)
    BY <1>2, <2>1 DEF Tried
  <2> QED
    BY <1>2, <1>7, <2>2, <2>3
<1>8. CASE bist.state \in {"WR_GAP", "READ", "RD_WAIT"}
  BY <1>2, <1>8 DEF Tried
<1> QED
  BY <1>3, <1>5, <1>6, <1>7, <1>8 DEF BistMoves, BistReads

LEMMA TestingMemory ==
  ASSUME NEW word, NEW cold, Clocks(word, cold), Tries
  PROVE  MemInv'
<1> SUFFICES ASSUME ~rst_all', ~resets'.hr,
                    NEW a \in Ram, NEW d \in Byte, told'[a] = d \/ Tried(a, d)'
             PROVE  Final(Memory, wr', a, d)
  BY ClockInputs DEF MemInv
<1>1. told'[a] = Unknown
  <2>1. told[a] = Unknown
    BY DEF Tries, Clocks, BackendInv, OwedInv, held
  <2> QED
    BY <2>1, TryingIs, ToldMoves
<1>2. Tried(a, d)'
  BY <1>1, AddrFacts
<1>3. Tried(a, d) => Final(Memory, wr, a, d)
  BY ClockInputs DEF Tries, Clocks, BackendInv, MemInv
<1>4. Tried(a, d) \/ (BistWrites /\ SelfTest[bist.idx] = <<a, d>>)
  BY <1>2, TriedMoves
<1>5. wr \in Seq(RamCommands) /\ Tested[1] \in Ram /\ Tested[2] \in Byte
  BY ClockInputs, AtTest DEF Clocks
<1>6. CASE BistWrites
  <2> DEFINE c == Command("write", Tested[1], Tested[2])
  <2>1. c \in RamCommands /\ wr' = Append(wr, c)
    BY <1>6, Entering DEF Enters
  <2>2. c.d = Tested[2]
    BY DEF Command
  <2>3. Writes(c, a) <=> a = Tested[1]
    <3>1. c = Command("write", Tested[1], Tested[2])
      OBVIOUS
    <3> HIDE DEF c
    <3> QED
      BY <1>5, <3>1, CommandWrites
  <2> HIDE DEF c
  <2>4. a = Tested[1] => d = Tested[2]
    <3> SUFFICES ASSUME a = Tested[1] PROVE d = Tested[2]
      OBVIOUS
    <3>1. bist.idx \in 1 .. Len(SelfTest) /\ SelfTest[bist.idx] = <<Tested[1], Tested[2]>>
      BY AtTest DEF Clocks
    <3>2. PICK i \in 1 .. Len(SelfTest) : SelfTest[i] = <<a, d>>
      BY <1>4, <3>1 DEF Tried
    <3>3. i = bist.idx
      <4>1. SelfTest[i][1] = SelfTest[bist.idx][1]
        BY <3>1, <3>2
      <4> QED
        BY <3>1, <3>2, <4>1, BackendAssumption
    <3> QED
      BY <3>1, <3>2, <3>3
  <2>5. CASE a = Tested[1]
    <3>1. Final(Memory, Append(wr, c), a, c.d)
      BY <1>5, <2>1, <2>3, <2>5, FinalWrite
    <3> QED
      BY <2>1, <2>2, <2>4, <2>5, <3>1
  <2>6. CASE a # Tested[1]
    <3>1. SelfTest[bist.idx] # <<a, d>>
      <4>1. SelfTest[bist.idx] = <<Tested[1], Tested[2]>>
        BY AtTest DEF Clocks
      <4> QED
        BY <2>6, <4>1
    <3>2. Final(Memory, wr, a, d)
      BY <1>3, <1>4, <3>1
    <3>3. Final(Memory, Append(wr, c), a, d)
      BY <1>5, <2>1, <2>3, <2>6, <3>2, FinalKept
    <3> QED
      BY <2>1, <3>3
  <2> QED
    BY <2>5, <2>6
<1>7. CASE BistReads
  <2> DEFINE c == Command("read", Tested[1], RomByte)
  <2>1. c \in RamCommands /\ wr' = Append(wr, c)
    BY <1>7, Entering DEF Enters
  <2>2. ~Writes(c, a)
    BY DEF Command, Writes
  <2>3. Final(Memory, wr, a, d)
    BY <1>3, <1>4, <1>7 DEF BistWrites, BistReads
  <2> HIDE DEF c
  <2>4. Final(Memory, Append(wr, c), a, d)
    BY <1>5, <2>1, <2>2, <2>3, FinalKept
  <2> QED
    BY <2>1, <2>4
<1>8. CASE ~BistWrites /\ ~BistReads
  <2>1. wr' = wr
    BY <1>8, TryingIs, Entering DEF Tries
  <2> QED
    BY <1>3, <1>4, <1>8, <2>1
<1> QED
  BY <1>6, <1>7, <1>8

LEMMA TestingFifos ==
  ASSUME NEW word, NEW cold, Clocks(word, cold), Tries
  PROVE  FifoInv'
<1> DEFINE T == [a |-> Tested[1], d |-> Tested[2]]
<1>1. /\ rd \in Seq(Words) /\ rd' \in Seq(Words) /\ wr \in Seq(RamCommands)
      /\ word # None => rd # <<>> /\ rd' = Tail(rd)
      /\ word = None => rd' = rd
      /\ Sent' = Sent /\ Memory' = Memory /\ resets'.hr = resets.hr
  BY ClockInputs
<1>2. /\ BackendInv /\ T \in Reads /\ <<>> \in Seq(Reads)
      /\ Tested[1] \in Ram /\ Tested[2] \in Byte /\ Sent \in Seq(Words)
  BY AtTest, SentTyped, EmptySeq DEF Clocks, BackendInv
<1>3. Wants = IF bist.state = "RD_WAIT" THEN <<T>> ELSE <<>>
  BY DEF Tries, Wants
<1>4. Got(rd, Wants) /\ (~resets.hr => Piped(Memory, wr, Sent, rd, Wants))
  BY DEF Tries, Clocks, BackendInv, FifoInv
<1>5. word # None => bist.state = "RD_WAIT"
  BY TestWord DEF Tries
<1>6. /\ Wants' = IF bist'.state = "RD_WAIT"
                  THEN <<[a |-> SelfTest[bist'.idx][1], d |-> SelfTest[bist'.idx][2]]>>
                  ELSE <<>>
      /\ BistMoves(word)
  BY TryingIs
<1> SUFFICES /\ Got(rd', Wants')
             /\ ~resets.hr => Piped(Memory, wr', Sent, rd', Wants')
  BY <1>1 DEF FifoInv
<1>7. ~BistWrites /\ ~BistReads => wr' = wr
  BY TryingIs, Entering DEF Tries
<1>8. CASE bist' = bist /\ ~BistWrites /\ ~BistReads
           /\ (bist.state = "RD_WAIT" => word = None)
  <2>1. Wants' = Wants /\ wr' = wr /\ rd' = rd
    BY <1>1, <1>3, <1>5, <1>6, <1>7, <1>8 DEF Tested
  <2> QED
    BY <1>4, <2>1
<1>9. CASE \/ bist.state = "WAIT" /\ BistIs("WRITE", 1)
           \/ bist.state = "WR_GAP" /\ BistIs("READ", 1)
  <2>1. Wants' = Wants /\ wr' = wr /\ rd' = rd
    BY <1>1, <1>3, <1>5, <1>6, <1>7, <1>9 DEF BistIs, BistWrites, BistReads
  <2> QED
    BY <1>4, <2>1
<1>10. CASE BistWrites /\ bist'.state # "RD_WAIT"
  <2> DEFINE c == Command("write", Tested[1], Tested[2])
  <2>1. c \in RamCommands /\ wr' = Append(wr, c)
    BY <1>10, Entering DEF Enters
  <2>2. c.op = "write"
    BY DEF Command
  <2>3. Wants = <<>> /\ Wants' = <<>> /\ rd' = rd
    BY <1>1, <1>3, <1>5, <1>6, <1>10 DEF BistWrites
  <2> HIDE DEF c
  <2>4. Piped(Memory, wr, Sent, rd, <<>>) => Piped(Memory, Append(wr, c), Sent, rd, <<>>)
    BY <1>1, <1>2, <2>1, <2>2, PipeWrite
  <2> QED
    BY <1>4, <2>1, <2>3, <2>4
<1>11. CASE BistReads /\ BistIs("RD_WAIT", bist.idx)
  <2> DEFINE c == Command("read", Tested[1], RomByte)
  <2>1. c \in RamCommands /\ wr' = Append(wr, c)
    BY <1>11, Entering DEF Enters
  <2>2. c.op = "read" /\ c.w = Word(Tested[1])
    BY DEF Command
  <2>3. Wants = <<>> /\ Wants' = <<T>> /\ rd' = rd
    BY <1>1, <1>3, <1>5, <1>6, <1>11 DEF BistReads, BistIs, Tested
  <2> HIDE DEF c
  <2>4. ~resets.hr => Due(Memory, wr, c, T)
    <3> SUFFICES ASSUME ~resets.hr PROVE Due(Memory, wr, c, T)
      OBVIOUS
    <3>1. Tried(Tested[1], Tested[2])
      BY <1>2, <1>11, AtTest DEF Tried, BistReads
    <3>2. Final(Memory, wr, Tested[1], Tested[2])
      BY <1>2, <3>1 DEF Tries, BackendInv, MemInv
    <3> QED
      BY <2>2, <3>2 DEF Due
  <2>5. Append(<<>>, T) = <<T>>
    OBVIOUS
  <2> HIDE DEF T
  <2>6. Got(rd, Append(<<>>, T))
    BY <1>1, <1>2, <1>4, <2>3, GotRead
  <2>7. ~resets.hr => Piped(Memory, Append(wr, c), Sent, rd, Append(<<>>, T))
    BY <1>1, <1>2, <1>4, <2>1, <2>3, <2>4, PipeRead
  <2> QED
    BY <2>1, <2>3, <2>5, <2>6, <2>7
<1>12. CASE /\ bist.state = "RD_WAIT" /\ word # None
            /\ bist'.state \in {"DONE", "READ"}
  <2>1. /\ Wants = <<T>> /\ Wants' = <<>> /\ wr' = wr /\ rd # <<>> /\ rd' = Tail(rd)
    BY <1>1, <1>3, <1>6, <1>7, <1>12 DEF BistWrites, BistReads
  <2>2. Tail(<<T>>) = <<>> /\ <<T>> \in Seq(Reads)
    BY <1>2
  <2> HIDE DEF T
  <2>3. Got(Tail(rd), Tail(<<T>>))
    BY <1>1, <1>4, <2>1, <2>2, GotPopped
  <2>4. ~resets.hr => Piped(Memory, wr, Sent, Tail(rd), Tail(<<T>>))
    BY <1>1, <1>2, <1>4, <2>1, <2>2, PipePopped
  <2> QED
    BY <2>1, <2>2, <2>3, <2>4
<1> QED
  BY <1>6, <1>8, <1>9, <1>10, <1>11, <1>12 DEF BistMoves, BistIs

LEMMA ClkKeeps == BackendInv /\ Clk => BackendInv'
<1> SUFFICES ASSUME BackendInv, Clk PROVE BackendInv'
  OBVIOUS
<1>1. PICK word \in Through(rd, None), cold \in BOOLEAN : ClkTick(word, cold)
  BY DEF Clk
<1>2. Clocks(word, cold)
  BY <1>1 DEF Clocks
<1>3. HyperInv'
  BY <1>2, ClockInputs, TypesKept DEF HyperInv
<1>4. BackendType' /\ ResetInv' /\ CountInv' /\ OwedInv'
  BY <1>2, TypesKept, ResetsKept, CountsKept, OwedKept
<1>5. MemInv' /\ FifoInv'
  BY <1>2, ResetLine, TestingMemory, TestingFifos, RunningMemory, RunningFifos
     DEF Runs, Tries
<1> QED
  BY <1>3, <1>4, <1>5 DEF BackendInv

LEMMA StutterKeeps == BackendInv /\ UNCHANGED vars => BackendInv'
<1> SUFFICES ASSUME BackendInv, UNCHANGED vars PROVE BackendInv'
  OBVIOUS
<1>1. UNCHANGED <<config, resets, presses, wr, rd, sideVars, busVars>>
  BY DEF vars
<1>2. /\ Sent' = Sent /\ Memory' = Memory
      /\ CacheInv' <=> CacheInv
      /\ LineCurrent' <=> LineCurrent
  BY <1>1, SideKept
<1>3. Wants' = Wants /\ bist_active' = bist_active /\ rst_all' = rst_all
  BY <1>1, WantsKept DEF busVars, rst_all
<1>4. HyperInv'
  BY <1>1, <1>2 DEF BackendInv, HyperInv, HyperType, sideVars
<1>5. BackendType'
  BY <1>1, <1>3 DEF BackendInv, BackendType, Bus!BusType, busVars
<1>6. ResetInv'
  BY <1>1, <1>3 DEF BackendInv, ResetInv, Quiet, busVars, sideVars
<1>7. CountInv'
  BY <1>1, <1>3 DEF BackendInv, CountInv, AnswersCounted, busVars
<1>8. OwedInv'
  BY <1>1, <1>3 DEF BackendInv, OwedInv, held, busVars
<1>9. MemInv'
  <2>1. \A a, d : Tried(a, d)' <=> Tried(a, d)
    BY <1>1 DEF Tried, busVars
  <2>2. told' = told /\ wr' = wr /\ resets' = resets
    BY <1>1 DEF busVars
  <2> QED
    BY <1>2, <1>3, <2>1, <2>2 DEF BackendInv, MemInv
<1>10. FifoInv'
  BY <1>1, <1>2, <1>3 DEF BackendInv, FifoInv
<1> QED
  BY <1>4, <1>5, <1>6, <1>7, <1>8, <1>9, <1>10 DEF BackendInv

LEMMA Invariant == Spec => []BackendInv
<1>1. BackendInv /\ [Next]_vars => BackendInv'
  BY ClkKeeps, TickKeeps, PressKeeps, ReleaseKeeps, StutterKeeps DEF Next
<1> QED
  BY <1>1, BackendStarts, PTL DEF Spec

-----------------------------------------------------------------------------
(* What the backend promises.                                              *)

(* Every register of the backend keeps its type: the command FIFO never    *)
(* holds more than its depth, nor the counter of the answers more than the *)
(* reads the controller may have outstanding, whatever the button does.    *)
THEOREM TypeCorrect == Spec => []TypeOK
<1>1. BackendInv => TypeOK
  <2> SUFFICES ASSUME BackendInv PROVE TypeOK
    OBVIOUS
  <2>1. HyperType /\ BackendType
    BY DEF BackendInv, HyperInv
  <2>2. out_count \in 0 .. MaxOwed
    <3>1. /\ Len(owed) = out_count + Bit(flush_valid) + Bit(romq # None)
          /\ Len(owed) + Bit(req.op = "read") <= issued
          /\ issued \in 0 .. MaxOwed /\ out_count \in Nat
      BY <2>1 DEF BackendInv, CountInv, AnswersCounted, BackendType
    <3>2. /\ Bit(flush_valid) \in {0, 1} /\ Bit(romq # None) \in {0, 1}
          /\ Bit(req.op = "read") \in {0, 1}
      BY DEF Bit
    <3> HIDE DEF Bit
    <3> QED
      BY <3>1, <3>2, BackendAssumption
  <2>3. wr \in Seq(Slots)
    <3>1. RamCommands \subseteq Slots
      BY CommandIs
    <3> QED
      BY <2>1, <3>1, SeqMonotonic DEF HyperType
  <2>4. bist \in [state : {"WAIT", "WRITE", "WR_GAP", "READ", "RD_WAIT", "DONE"},
                  idx : 1 .. Len(SelfTest), err : Nat]
    BY <2>1 DEF BackendType, Tests
  <2>5. /\ cache.state \in {"IDLE", "READING"} /\ cache.count \in 0 .. LineSize
        /\ cache.burst \in 0 .. 1 /\ cache.m \in Slots
    BY <2>1 DEF HyperType, CacheRegs
  <2>6. hyper \in [Addr \ Block -> Byte]
    BY <2>1 DEF HyperType, Ram
  <2> QED
    BY <2>1, <2>2, <2>3, <2>4, <2>5, <2>6 DEF HyperType, BackendType, TypeOK
<1> QED
  BY <1>1, Invariant, PTL

(* The reads the controller waits for are those the backend still counts,  *)
(* is just flushing or just gives from the block RAM: through every reset, *)
(* at any moment of an access.                                             *)
THEOREM AnswersAreCounted == Spec => []AnswersCounted
<1>1. BackendInv => AnswersCounted
  BY DEF BackendInv, CountInv
<1> QED
  BY <1>1, Invariant, PTL

(* The line of the cache holds what the HyperRAM holds, or will hold once  *)
(* it has executed the write that is on its way.                           *)
THEOREM LineIsCurrent == Spec => []LineCurrent
<1>1. BackendInv => LineCurrent
  BY DEF BackendInv, HyperInv
<1> QED
  BY <1>1, Invariant, PTL

(* The self test after a reset finds no error, with the cache or without.  *)
THEOREM SelfTestIsPassed == Spec => []SelfTestPasses
<1>1. BackendInv => SelfTestPasses
  BY DEF BackendInv, BackendType, SelfTestPasses
<1> QED
  BY <1>1, Invariant, PTL

-----------------------------------------------------------------------------
(* The backend is the byte bus.                                            *)

(* A beat is an answer to the oldest read.                                 *)
LEMMA BeatAnswers ==
  ASSUME NEW word, NEW cold, Clocks(word, cold), Beat(word) # None
  PROVE  owed # <<>> /\ Beat(word) \in Bus!Answers(Head(owed))
<1>1. owed # <<>> /\ owed \in Seq(Reads)
  BY BeatIs
<1>2. Head(owed) = owed[1] /\ owed[1] \in Reads /\ 1 \in 1 .. Len(owed)
  BY <1>1, TailIs
<1>3. owed[1].d \in Byte \cup {Unknown}
  BY <1>2 DEF Reads
<1>4. romq # None \/ flush_valid \/ Real(word)
  BY BeatIs
<1>5. OwedInv
  BY DEF Clocks, BackendInv
<1>6. Beat(word) \in Bus!Answers(owed[1])
  <2>1. CASE romq # None
    <3>1. owed[1].d = romq /\ romq \in Byte
      BY <1>5, <2>1 DEF OwedInv, Clocks, BackendInv, BackendType
    <3> QED
      BY <2>1, <3>1, BeatGives, AddrFacts DEF Bus!Answers
  <2>2. CASE romq = None /\ flush_valid
    <3>1. owed[1].a \notin Block
      BY <1>2, <1>5, <2>2, AddrFacts DEF OwedInv
    <3>2. rst_all
      BY <2>2, BeatIs
    <3> QED
      BY <2>2, <3>1, <3>2, BeatGives DEF Bus!Answers
  <2>3. CASE Real(word)
    <3>1. Right(word, owed[1])
      BY <2>3, BeatIs
    <3>2. Beat(word) = word[Lane(owed[1].a)] /\ Beat(word) \in Byte
      BY <2>3, BeatGives
    <3> QED
      BY <3>1, <3>2 DEF Bus!Answers, Right
  <2> QED
    BY <1>4, <2>1, <2>2, <2>3
<1> QED
  BY <1>1, <1>2, <1>6

LEMMA ClkIsClock ==
  ASSUME NEW word, NEW cold, Clocks(word, cold)
  PROVE  Bus!BusNext
<1> DEFINE taken == IF Taken THEN req ELSE Bus!NoCommand
           hold == (rst_all \/ bist_active)'
<1>1. taken \in Bus!Commands \cup {Bus!NoCommand}
  BY TakenIs DEF Clocks
<1>2. rst_all \/ bist_active => taken = Bus!NoCommand
  BY DEF Taken
<1>3. Beat(word) \in Bus!Beats \cup {None}
  BY BeatGives DEF Bus!Beats
<1>4. hold \in BOOLEAN
  <2>1. resets' \in ResetsType
    BY ClockInputs
  <2> QED
    BY <2>1 DEF rst_all, bist_active, ResetsType
<1>5. (rst_all \/ bist_active) /\ ~hold => owed = <<>>
  <2> SUFFICES ASSUME rst_all \/ bist_active, ~hold PROVE owed = <<>>
    OBVIOUS
  <2>1. CASE rst_all
    <3>1. ~resets.meta
      BY ClockInputs DEF rst_all
    <3> QED
      BY <2>1, <3>1, ResetClock
  <2>2. CASE ~rst_all
    BY <2>2 DEF Clocks, BackendInv, CountInv
  <2> QED
    BY <2>1, <2>2
<1>6. Bus!Records(taken, Beat(word), hold /\ ~(rst_all \/ bist_active))
  <2>1. Bus!Records(taken, Beat(word), Drops)
    BY DEF Clocks, ClkTick, Drops
  <2>2. Drops <=> hold /\ ~(rst_all \/ bist_active)
    <3>1. Runs => ~bist_active'
      BY RunningIs
    <3> QED
      BY <3>1 DEF Drops, Runs
  <2> QED
    BY <2>1, <2>2 DEF Bus!Records
<1>7. Bus!Clock(taken, Beat(word), hold)
  BY <1>2, <1>5, <1>6, BeatAnswers DEF Bus!Clock
<1> HIDE DEF taken, hold
<1> QED
  BY <1>1, <1>3, <1>4, <1>7 DEF Bus!BusNext

(* Clock by clock of the chipset the backend is the byte bus that          *)
(* RamController is built on: every read that was taken is answered once,  *)
(* in order, with the byte its address held when it was taken, or with a   *)
(* dummy by a reset that has killed it; the other clock and the button     *)
(* change nothing the bus shows.                                           *)
THEOREM BackendImplements == Spec => Implements
<1>1. Init => Bus!BusInit
  BY DEF Init, Bus!BusInit, rst_all
<1>2. BackendInv /\ [Next]_vars => [Bus!BusNext]_(Bus!busVars)
  <2> SUFFICES ASSUME BackendInv, [Next]_vars
               PROVE  [Bus!BusNext]_(Bus!busVars)
    OBVIOUS
  <2>1. CASE Clk
    <3>1. PICK word \in Through(rd, None), cold \in BOOLEAN : ClkTick(word, cold)
      BY <2>1 DEF Clk
    <3>2. Clocks(word, cold)
      BY <3>1 DEF Clocks
    <3> QED
      BY <3>2, ClkIsClock
  <2>2. ASSUME UNCHANGED <<told, owed, last, bist>>,
               resets'.cold = resets.cold, resets'.sync = resets.sync
        PROVE  UNCHANGED Bus!busVars
    BY <2>2 DEF Bus!busVars, rst_all, bist_active
  <2>3. resets \in ResetsType
    BY DEF BackendInv, HyperInv, HyperType, ResetsType
  <2>4. CASE Hyper
    <3>1. /\ UNCHANGED busVars
          /\ resets' = [resets EXCEPT !.seen = resets.hr]
      BY <2>4 DEF Hyper, HyperTick
    <3> QED
      BY <2>2, <2>3, <3>1 DEF busVars, ResetsType
  <2>5. CASE Press
    <3>1. UNCHANGED busVars /\ resets' = [resets EXCEPT !.hr = TRUE]
      BY <2>5 DEF Press
    <3> QED
      BY <2>2, <2>3, <3>1 DEF busVars, ResetsType
  <2>6. CASE Release
    <3>1. UNCHANGED busVars /\ resets' = [resets EXCEPT !.hr = FALSE]
      BY <2>6 DEF Release
    <3> QED
      BY <2>2, <2>3, <3>1 DEF busVars, ResetsType
  <2>7. CASE UNCHANGED vars
    BY <2>2, <2>7 DEF vars, busVars
  <2> QED
    BY <2>1, <2>4, <2>5, <2>6, <2>7 DEF Next
<1> QED
  BY <1>1, <1>2, Invariant, PTL DEF Spec, Implements, Bus!BusSpec
=============================================================================
