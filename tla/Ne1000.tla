-------------------------------- MODULE Ne1000 --------------------------------
(***************************************************************************)
(* The receive side of the network card, ne1000.sv: the ring of pages in   *)
(* the packet buffer, which the ring writer fills from the MAC and the     *)
(* driver empties through the remote DMA, the two boundary registers, the  *)
(* interrupt, the overflow and the reset port.  Bytes are counted in       *)
(* pages.  The driver is external: the steps of Crynwr's NE1000 that the   *)
(* head of ne1000.sv lists, each I/O access that matters a step.           *)
(***************************************************************************)
EXTENDS Naturals, Sequences, FiniteSets

CONSTANTS
  PStart, PStop,  \* PSTART, PSTOP: the ring
  Frames,         \* what the MAC may receive: [pages, good, mine]
  Numbers         \* frames are numbered 0 .. Numbers - 1, over and over

ASSUME RingAssumption ==
  /\ PStart \in Nat \ {0} /\ PStop \in Nat /\ PStop > PStart + 1
  /\ Numbers \in Nat \ {0} /\ Frames # {}
  /\ \A f \in Frames : f.pages \in Nat \ {0} /\ {f.good, f.mine} \subseteq BOOLEAN

VARIABLES
  running,        \* STA has been seen since the last STP
  monitor,        \* RCR: nothing is accepted
  bnry, curr,     \* the boundary and the current page
  isr, imr,       \* the bits PRX and OVW
  isr_set_rx,     \* the ring writer's set request, one clock long
  rx_halted,
  rx,             \* the ring writer: state, start, current and next page, the
                  \* frame and its pages so far
  mem,            \* the pages: number and part of what was written last
  header,         \* and the header at their beginning
  remote,         \* the remote DMA: page and pages left (crda, rem_cnt)
  arrived,        \* the number of the frame written last
  accepted,       \* history: the frames in the ring, [start, pages, n]
  driver          \* where it is, the page it reads next, CURR as it read it,
                  \* whether it recovers, the pages of the frame it reads
regs == <<running, monitor, bnry, curr, imr, rx_halted>>
irqs == <<isr, isr_set_rx>>
buffer == <<mem, header>>
counts == <<arrived, accepted>>
vars == <<regs, irqs, rx, buffer, remote, counts, driver>>

Ring == PStart .. PStop - 1

(* Neither a page of a frame nor a header.                                 *)
Nothing == [n |-> 0, part |-> 0]
NoHeader == [next |-> 0, pages |-> 0]

NeverWraps(p) == p + 1
page_inc(p) == IF p + 1 = PStop THEN PStart ELSE p + 1
Before(p) == IF p = PStart THEN PStop - 1 ELSE p - 1

(* Pages of the ring, and what is left when nobody may rely on some of     *)
(* them any more: what was written there counts as gone.                   *)
Size == PStop - PStart
Ahead(p, q) == IF q >= p THEN q - p ELSE q - p + Size
Span(p, n) == {q \in Ring : Ahead(p, q) < n}
Gone(S) == mem' = [p \in Ring |-> IF p \in S THEN Nothing ELSE mem[p]]

-----------------------------------------------------------------------------
(* The ring writer.                                                        *)
RxIs(state) == rx.state = state
RxTo(state) == rx' = [rx EXCEPT !.state = state]
SomeFrame == CHOOSE f \in Frames : TRUE
Rest(state) == [state |-> state, start |-> PStart, page |-> PStart,
                next |-> PStart, frame |-> SomeFrame, parts |-> 1]

(* The frame does not fit: the receiver halts until the next START.  Every *)
(* frame that is refused meanwhile interrupts again.                       *)
Overflow ==
  /\ rx' = Rest("DISCARD") /\ rx_halted' = TRUE
  /\ isr_set_rx' = isr_set_rx \cup {"OVW"}
  /\ UNCHANGED isr

Written == Span(rx.start, rx.parts)

WritesPage(p, number, part) ==
  mem' = [mem EXCEPT ![p] = [n |-> number, part |-> part]]

Full == curr = bnry

(* The first byte of a frame.  Frames do not overtake each other, so the   *)
(* bit of the one before has reached the ISR.                              *)
RxFirst ==
  /\ RxIs("IDLE") /\ isr_set_rx = {}
  /\ \/ ~running /\ rx' = Rest("DISCARD")
        /\ UNCHANGED <<rx_halted, irqs, mem, arrived>>
     \/ running /\ (rx_halted \/ Full) /\ Overflow
        /\ UNCHANGED <<arrived, mem>>
     \/ /\ running /\ ~rx_halted /\ ~Full
        /\ arrived' = (arrived + 1) % Numbers
        /\ \E f \in Frames :
             rx' = [state |-> "DATA", start |-> curr, page |-> curr,
                    next |-> curr, frame |-> f, parts |-> 1]
        /\ WritesPage(curr, arrived', 1)
        /\ UNCHANGED <<rx_halted, irqs>>
  /\ UNCHANGED <<running, monitor, bnry, curr, imr, header, remote, accepted,
                 driver>>

(* Bug: the page of the boundary is free.                                  *)
EntersAnyPage(p) == FALSE
EntersBoundary(p) == p = bnry

(* The first byte of a further page, or the end of one whose destination   *)
(* was another station.                                                    *)
RxMore ==
  /\ RxIs("DATA")
  /\ \/ ~rx.frame.mine /\ rx' = Rest("DISCARD") /\ Gone(Written)
        /\ UNCHANGED <<rx_halted, irqs>>
     \/ /\ rx.frame.mine /\ rx.parts < rx.frame.pages
        /\ LET p == page_inc(rx.page) IN
           IF EntersBoundary(p) THEN Overflow /\ Gone(Written)
           ELSE /\ rx' = [rx EXCEPT !.page = p, !.parts = @ + 1]
                /\ WritesPage(p, arrived, rx'.parts)
                /\ UNCHANGED <<rx_halted, irqs>>
  /\ UNCHANGED <<running, monitor, bnry, curr, imr, header, remote, counts,
                 driver>>

(* The end of a frame: it is accepted, or forgotten.                       *)
RxEnd ==
  /\ \/ RxIs("DISCARD") /\ rx' = Rest("IDLE") /\ UNCHANGED mem
     \/ /\ RxIs("DATA") /\ rx.frame.mine /\ rx.parts = rx.frame.pages
        /\ IF rx.frame.good /\ ~monitor
           THEN /\ rx' = [rx EXCEPT !.state = "HDR", !.next = page_inc(rx.page)]
                /\ UNCHANGED mem
           ELSE rx' = Rest("IDLE") /\ Gone(Written)
  /\ UNCHANGED <<regs, irqs, header, remote, counts, driver>>

RxHeader ==
  /\ RxIs("HDR") /\ RxTo("COMMIT")
  /\ header' = [header EXCEPT ![rx.start] =
                  [next |-> rx.next, pages |-> rx.parts]]
  /\ UNCHANGED <<regs, irqs, mem, remote, counts, driver>>

(* The last clock of RXW_HDR: CURR moves and the interrupt is requested.   *)
RxCommit ==
  /\ RxIs("COMMIT") /\ rx' = Rest("IDLE")
  /\ curr' = rx.next /\ isr_set_rx' = {"PRX"}
  /\ accepted' = Append(accepted,
                   [start |-> rx.start, pages |-> rx.parts, n |-> arrived])
  /\ UNCHANGED <<running, monitor, bnry, imr, rx_halted, isr, buffer, remote,
                 arrived, driver>>

IsrSets ==
  /\ isr_set_rx # {}
  /\ isr' = isr \cup isr_set_rx /\ isr_set_rx' = {}
  /\ UNCHANGED <<regs, rx, buffer, remote, counts, driver>>

Card == RxMore \/ RxEnd \/ RxHeader \/ RxCommit \/ IsrSets

-----------------------------------------------------------------------------
(* What the driver's accesses do to the registers.                         *)

(* A command with STA and without STP: the receiver starts again, whatever *)
(* the command was for.                                                    *)
StartsReceiver == running' = TRUE /\ rx_halted' = FALSE

(* Bug: a bit that is set in the clock of the write is lost.               *)
ClearLosesSet(bits) == isr' = isr \ bits /\ isr_set_rx' = {}
(* A write of ones to the ISR.                                             *)
ClearIsr(bits) == isr' = (isr \ bits) \cup isr_set_rx /\ isr_set_rx' = {}

NoDma == [page |-> PStart, left |-> 0]

(* The reset port: the card stops and drops the frame in flight; CURR does *)
(* not move.  What a commit or an overflow requests in the same clock      *)
(* survives.                                                               *)
Refuses ==
  \/ RxIs("IDLE") /\ running /\ (rx_halted \/ Full)
  \/ /\ RxIs("DATA") /\ rx.frame.mine /\ rx.parts < rx.frame.pages
     /\ EntersBoundary(page_inc(rx.page))
RxDropped == IF RxIs("DATA") THEN Rest("DISCARD")
             ELSE IF RxIs("HDR") \/ RxIs("COMMIT") THEN Rest("IDLE") ELSE rx
NicReset ==
  /\ running' = FALSE /\ monitor' = FALSE /\ rx_halted' = FALSE
  /\ isr' = {} /\ imr' = {}
  /\ \/ isr_set_rx' = {} /\ rx' = RxDropped
     \/ RxIs("COMMIT") /\ isr_set_rx' = {"PRX"} /\ rx' = RxDropped
     \/ Refuses /\ isr_set_rx' = {"OVW"} /\ rx' = Rest("DISCARD")
  /\ remote' = NoDma
  /\ UNCHANGED <<bnry, curr>>

(* A byte of the data port: the remote address wraps as the ring does.     *)
NextByte == IF remote.left = 1 THEN NoDma
            ELSE [page |-> page_inc(remote.page), left |-> remote.left - 1]

-----------------------------------------------------------------------------
(* The driver.                                                             *)
At(place) == driver.at = place
GoTo(place) == driver' = [driver EXCEPT !.at = place]

Closed == [at |-> "closed", next |-> PStart, last |-> PStart,
           recovers |-> FALSE, got |-> <<>>]

(* Writes of the command register with STP, and with STA.                  *)
Stops(from, to) ==
  /\ At(from) /\ GoTo(to) /\ running' = FALSE
  /\ UNCHANGED <<monitor, bnry, curr, imr, rx_halted, irqs, rx, buffer,
                 remote, counts>>
Starts(from, to) ==
  /\ At(from) /\ GoTo(to) /\ StartsReceiver
  /\ UNCHANGED <<monitor, bnry, curr, imr, irqs, rx, buffer, remote, counts>>

(* It is loaded, or gives up: the reset port, after which it may be a long *)
(* time before it sets the card up.                                        *)
Open ==
  /\ NicReset
  /\ driver' = Closed /\ Gone(Ring) /\ header' = [p \in Ring |-> NoHeader]
  /\ accepted' = <<>> /\ UNCHANGED arrived

(* It sets the card up with the receiver on, in monitor mode, and CURR and *)
(* BNRY as they were: frames come in and are not accepted.  (The other     *)
(* stops and starts on the way, to read the PROM and to write the MAR,     *)
(* change nothing that these do not.)  It takes interrupts afterwards.     *)
SetUp ==
  /\ At("closed") /\ GoTo("monitoring")
  /\ monitor' = TRUE /\ StartsReceiver
  /\ UNCHANGED <<bnry, curr, imr, irqs, rx, buffer, remote, counts>>

SetsBoundary ==
  /\ At("monitoring") /\ GoTo("bounded") /\ bnry' = PStart
  /\ UNCHANGED <<running, monitor, curr, imr, rx_halted, irqs, rx, buffer,
                 remote, counts>>

ClearsAll ==
  /\ At("bounded") /\ GoTo("cleared")
  /\ ClearIsr({"PRX", "OVW"}) /\ imr' = {"PRX", "OVW"}
  /\ UNCHANGED <<running, monitor, bnry, curr, rx_halted, rx, buffer, remote,
                 counts>>

SetsCurr ==
  /\ At("off") /\ curr' = PStart + 1
  /\ driver' = [driver EXCEPT !.at = "placed", !.next = PStart + 1]
  /\ UNCHANGED <<running, monitor, bnry, imr, rx_halted, irqs, rx, buffer,
                 remote, counts>>

(* RCR = 04h: from here on frames are accepted, also one that has begun in *)
(* monitor mode.  (Not one that began before CURR was written: a frame is  *)
(* over within 0.13 ms, and the driver has stopped the receiver twice and  *)
(* written the eight bytes of the MAR since then.)                         *)
OldFrame == RxIs("DATA") /\ ~(rx.start = curr /\ rx.parts < Size)
StartUp ==
  /\ At("reopened") /\ GoTo("idle") /\ ~OldFrame
  /\ monitor' = FALSE
  /\ UNCHANGED <<running, bnry, curr, imr, rx_halted, irqs, rx, buffer, remote,
                 counts>>

(* A transmission starts the receiver, too.                                *)
Send ==
  /\ At("idle") /\ StartsReceiver
  /\ UNCHANGED <<monitor, bnry, curr, imr, irqs, rx, buffer, remote, counts,
                 driver>>

(* The interrupt: IMR = 0, the ISR is read.                                *)
Interrupt ==
  /\ At("idle") /\ isr \cap imr # {}
  /\ imr' = {}
  /\ GoTo(IF "OVW" \in isr THEN "overrun" ELSE "acknowledge")
  /\ UNCHANGED <<running, monitor, bnry, curr, rx_halted, irqs, rx, buffer,
                 remote, counts>>

Acknowledge ==
  /\ At("acknowledge") /\ ClearIsr({"PRX"}) /\ GoTo("current")
  /\ UNCHANGED <<regs, rx, buffer, remote, counts>>

ReadCurr ==
  /\ At("current") /\ StartsReceiver
  /\ driver' = [driver EXCEPT !.at = "loop", !.last = curr]
  /\ UNCHANGED <<monitor, bnry, curr, imr, irqs, rx, buffer, remote,
                 counts>>

(* The header of the next frame says how much to read; a header that makes *)
(* no sense makes it reset the card.                                       *)
ReadHeader ==
  LET h == header[driver.next] IN
  /\ At("loop") /\ driver.next # driver.last
  /\ StartsReceiver
  /\ IF h.next \in Ring
     THEN remote' = [page |-> driver.next, left |-> h.pages] /\ GoTo("read")
     ELSE GoTo("lost") /\ UNCHANGED remote
  /\ UNCHANGED <<monitor, bnry, curr, imr, irqs, rx, buffer,
                 counts>>

ReadPage ==
  /\ At("read") /\ remote.left > 0 /\ remote' = NextByte
  /\ driver' = [driver EXCEPT
       !.got = Append(@, IF remote.page \in Ring THEN mem[remote.page] ELSE Nothing)]
  /\ UNCHANGED <<regs, irqs, rx, buffer, counts>>

(* The number of a frame, if the pages are those of one.                   *)
Garbled == Numbers
NumberOf(pages) ==
  IF pages # <<>> /\ \A i \in 1 .. Len(pages) : pages[i] = [n |-> pages[1].n, part |-> i]
  THEN pages[1].n ELSE Garbled

(* The frame is handed over and its pages are given back.                  *)
FreePages ==
  /\ At("read") /\ remote.left = 0
  /\ LET next == header[driver.next].next IN
     /\ bnry' = Before(next)
     /\ driver' = [driver EXCEPT !.at = "loop", !.next = next, !.got = <<>>]
  /\ Gone(Span(driver.next, header[driver.next].pages))
  /\ header' = [header EXCEPT ![driver.next] = NoHeader]
  /\ accepted' = Tail(accepted)
  /\ UNCHANGED <<running, monitor, curr, imr, rx_halted, irqs, rx, remote,
                 arrived>>

LoopEnds ==
  /\ At("loop") /\ driver.next = driver.last
  /\ imr' = {"PRX", "OVW"}
  /\ IF driver.recovers THEN ClearIsr({"OVW"}) ELSE UNCHANGED irqs
  /\ driver' = [driver EXCEPT !.at = "idle", !.recovers = FALSE]
  /\ UNCHANGED <<running, monitor, bnry, curr, rx_halted, rx, buffer, remote,
                 counts>>

(* The recovery from an overflow: STOP, START, STOP, CURR is read and      *)
(* written back, and the frames are removed as always.                     *)
SavesCurr ==
  /\ At("stopped_again")
  /\ driver' = [driver EXCEPT !.at = "saved", !.last = curr, !.recovers = TRUE]
  /\ UNCHANGED <<regs, irqs, rx, buffer, remote, counts>>
(* CURR moves back to where it was: the frame that starts there is         *)
(* forgotten.                                                              *)
KeptBefore(p) ==
  LET starts == {i \in DOMAIN accepted : accepted[i].start = p} IN
  IF starts = {} THEN accepted
  ELSE SubSeq(accepted, 1, (CHOOSE i \in starts : TRUE) - 1)
RestoresCurr ==
  /\ At("saved") /\ curr' = driver.last /\ GoTo("loop")
  /\ accepted' = KeptBefore(driver.last)
  /\ UNCHANGED <<running, monitor, bnry, imr, rx_halted, irqs, rx, buffer,
                 remote, arrived>>

Driver ==
  \/ SetUp \/ SetsBoundary \/ ClearsAll \/ Stops("cleared", "off") \/ SetsCurr
  \/ Starts("placed", "opened") \/ Stops("opened", "closing")
  \/ Starts("closing", "reopened") \/ StartUp
  \/ Interrupt \/ Acknowledge \/ ReadCurr \/ ReadHeader
  \/ ReadPage \/ FreePages \/ LoopEnds
  \/ Stops("overrun", "stopped") \/ Starts("stopped", "restarted")
  \/ Stops("restarted", "stopped_again") \/ SavesCurr \/ RestoresCurr

-----------------------------------------------------------------------------
(* CURR and BNRY are as a session before has left them.  (At power-on they  *)
(* are 00h; what the MAC receives is then refused or dropped, too.)         *)
Init ==
  /\ running = FALSE /\ monitor = FALSE /\ rx_halted = FALSE
  /\ bnry \in Ring /\ curr \in Ring
  /\ isr = {} /\ imr = {} /\ isr_set_rx = {}
  /\ rx = Rest("IDLE")
  /\ mem = [p \in Ring |-> Nothing]
  /\ header = [p \in Ring |-> NoHeader]
  /\ remote = NoDma /\ arrived = 0 /\ accepted = <<>>
  /\ driver = Closed

Next == Card \/ RxFirst \/ Driver \/ Send \/ Open

(* The card is clocked and the driver works on until it has nothing to do; *)
(* frames and resets may come or not.                                      *)
Spec == Init /\ [][Next]_vars /\ WF_vars(Card) /\ WF_vars(Driver)

-----------------------------------------------------------------------------
(* Properties.                                                             *)

SettingUp == {"closed", "monitoring", "bounded", "cleared", "off", "placed",
              "opened", "closing", "reopened"}
Places == SettingUp \cup
          {"idle", "overrun", "acknowledge", "current", "loop", "read", "lost",
           "stopped", "restarted", "stopped_again", "saved"}

TypeOK ==
  /\ {running, monitor, rx_halted} \subseteq BOOLEAN
  /\ bnry \in Ring /\ curr \in Ring
  /\ isr \subseteq {"PRX", "OVW"} /\ isr_set_rx \subseteq {"PRX", "OVW"}
  /\ imr \in {{}, {"PRX", "OVW"}}
  /\ rx \in [state : {"IDLE", "DATA", "DISCARD", "HDR", "COMMIT"},
             start : Ring, page : Ring, next : Ring, frame : Frames,
             parts : Nat \ {0}]
  /\ mem \in [Ring -> [n : 0 .. Numbers - 1, part : Nat]]
  /\ header \in [Ring -> [next : Ring \cup {0}, pages : 0 .. Size]]
  /\ remote \in [page : Ring, left : 0 .. Size]
  /\ arrived \in 0 .. Numbers - 1
  /\ accepted \in Seq([start : Ring, pages : 1 .. Size, n : 0 .. Numbers - 1])
  /\ driver \in [at : Places, next : Ring, last : Ring, recovers : BOOLEAN,
                 got : Seq([n : 0 .. Numbers - 1, part : Nat])]

Opened == driver.at \notin SettingUp

(* The frames in the ring and the one the driver has read.                 *)
None == Numbers + 1
Read == At("read") /\ remote.left = 0
Queue == LET unread == IF Read THEN SubSeq(accepted, 2, Len(accepted)) ELSE accepted
         IN [i \in 1 .. Len(unread) |-> unread[i].n]
Delivered == IF Read THEN NumberOf(driver.got) ELSE None

Accepted == INSTANCE FrameQueue WITH
  Frame <- 0 .. Numbers - 1, queue <- Queue, delivered <- Delivered

(* The driver gets the frames that were accepted, in their order and as    *)
(* they came, each once: nothing that arrives, fits or overflows, is       *)
(* refused or filtered, is dropped by a reset or arrives while the ring    *)
(* wraps is written over a page that has not been read.                    *)
InOrder == Accepted!Spec

(* No frame stays in the ring with the driver waiting for an interrupt: it *)
(* is handed over, or forgotten by a recovery or a reset.  A frame that is *)
(* committed while the driver acknowledges the one before must not lose    *)
(* its bit.                                                                *)
FramesDelivered ==
  \A p \in Ring :
    Opened /\ driver.next = p /\ curr # p
      ~> ~Opened \/ driver.next # p \/ curr = p

(* docs/ethernet.md says of the bench in which the ring overflows that the *)
(* driver's overrun path recovers the frames and that "receive and         *)
(* transmit work afterwards": a driver that has received before and        *)
(* recovers gets back to where it waits with the receiver running.         *)
ReceiveWorksAfterwards ==
  At("overrun") /\ driver.next # PStart + 1
    ~> ~Opened \/ (At("idle") /\ running /\ ~rx_halted)
=============================================================================
