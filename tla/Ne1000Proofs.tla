----------------------------- MODULE Ne1000Proofs -----------------------------
(***************************************************************************)
(* What holds of the network card's receive ring for every size of the     *)
(* ring and every kind of frames the MAC may deliver: the types, that no   *)
(* header the driver reads leads out of the ring, and that the card and    *)
(* its driver implement the queue of FrameQueue.                           *)
(*                                                                         *)
(* That the frame the driver reads is the oldest one, whole, is not        *)
(* inductive.  The invariant says what the ring looks like: the accepted   *)
(* frames lie one behind the other from the driver's page to CURR, each    *)
(* with its header and its parts; the frame that is being written follows  *)
(* at CURR and ends before the boundary, which is the page before the      *)
(* driver's.  Then no page that is written belongs to a frame that is not  *)
(* read yet.                                                               *)
(***************************************************************************)
EXTENDS Ne1000, SequenceTheorems, TLAPS

-----------------------------------------------------------------------------
(* The typing invariant with its parts named, to take apart and to put     *)
(* together again.                                                         *)
FrameIn == [start : Ring, pages : 1 .. Size, n : 0 .. Numbers - 1]
Page == [n : 0 .. Numbers - 1, part : Nat]
RxType == [state : {"IDLE", "DATA", "DISCARD", "HDR", "COMMIT"},
           start : Ring, page : Ring, next : Ring, frame : Frames,
           parts : Nat \ {0}]
HeaderType == [next : Ring \cup {0}, pages : 0 .. Size]
DriverType == [at : Places, next : Ring, last : Ring, recovers : BOOLEAN,
               got : Seq(Page)]
Types ==
  /\ running \in BOOLEAN /\ monitor \in BOOLEAN /\ rx_halted \in BOOLEAN
  /\ bnry \in Ring /\ curr \in Ring
  /\ isr \subseteq {"PRX", "OVW"} /\ isr_set_rx \subseteq {"PRX", "OVW"}
  /\ imr \in {{}, {"PRX", "OVW"}}
  /\ rx \in RxType
  /\ mem \in [Ring -> Page] /\ header \in [Ring -> HeaderType]
  /\ remote \in [page : Ring, left : 0 .. Size]
  /\ arrived \in 0 .. Numbers - 1
  /\ accepted \in Seq(FrameIn)
  /\ driver \in DriverType

(* The inductive invariant.  Positions in the ring are distances from the  *)
(* page the driver reads next.                                             *)
Off(p) == Ahead(driver.next, p)
Follow(i) == IF i = Len(accepted) THEN curr ELSE accepted[i + 1].start
End(i) == Off(accepted[i].start) + accepted[i].pages

(* The pages from p on hold the first parts of frame number.               *)
Holds(p, parts, number) ==
  \A q \in Ring : Ahead(p, q) < parts =>
    mem[q] = [n |-> number, part |-> Ahead(p, q) + 1]

(* The frames lie one behind the other between the driver's page and CURR, *)
(* each with its header and its pages.                                     *)
Chained ==
  /\ driver.next = IF accepted = <<>> THEN curr ELSE accepted[1].start
  /\ \A i \in 1 .. Len(accepted) :
       /\ End(i) = Off(Follow(i))
       /\ End(i) <= Off(curr)
       /\ header[accepted[i].start] = [next |-> Follow(i), pages |-> accepted[i].pages]
       /\ Holds(accepted[i].start, accepted[i].pages, accepted[i].n)
  /\ \A i, j \in 1 .. Len(accepted) : i < j => End(i) <= Off(accepted[j].start)

(* The frame that is being written lies between CURR and the boundary.     *)
Receiving == rx.state \in {"DATA", "HDR", "COMMIT"}
Writing ==
  Receiving =>
    /\ rx.start = curr
    /\ Ahead(curr, rx.page) = rx.parts - 1
    /\ Off(curr) + rx.parts < Size
    /\ Holds(curr, rx.parts, arrived)
    /\ rx.state # "DATA" => rx.next = page_inc(rx.page)
    /\ rx.state = "COMMIT" => header[curr] = [next |-> rx.next, pages |-> rx.parts]

(* A frame that comes in while the driver sets the card up, in monitor     *)
(* mode, is written from wherever CURR was, but in its order.              *)
Drafting ==
  Receiving /\ rx.parts <= Size =>
    /\ Ahead(rx.start, rx.page) = rx.parts - 1
    /\ Holds(rx.start, rx.parts, arrived)

(* What the driver has read of the first frame.                            *)
Reading ==
  IF At("read")
  THEN /\ accepted # <<>>
       /\ remote.left + Len(driver.got) = accepted[1].pages
       /\ remote.left > 0 => Off(remote.page) = Len(driver.got)
       /\ \A i \in 1 .. Len(driver.got) :
            driver.got[i] = [n |-> accepted[1].n, part |-> i]
  ELSE driver.got = <<>>

(* CURR as the driver knows it is the beginning of a frame or CURR still.  *)
Points == {accepted[i].start : i \in DOMAIN accepted} \cup {curr}
Known ==
  /\ At("loop") \/ At("read") \/ At("saved") => driver.last \in Points
  /\ At("read") => driver.last # driver.next
  /\ At("saved") /\ driver.last # curr =>
       /\ ~Receiving
       /\ accepted # <<>> /\ driver.last = accepted[Len(accepted)].start

(* The receiver is off while CURR is saved and written back.  Before the   *)
(* driver has set the card up the ring is empty; from where it writes CURR *)
(* and the boundary on, they are what it wrote.                            *)
Bounded == {"bounded", "cleared", "off", "placed", "opened", "closing", "reopened"}
Placed == {"placed", "opened", "closing", "reopened"}
Stopped ==
  /\ At("stopped") \/ At("stopped_again") \/ At("saved") => ~running
  /\ ~Opened =>
       /\ accepted = <<>> /\ rx.state \notin {"HDR", "COMMIT"}
       /\ IF At("closed") THEN ~running /\ ~Receiving ELSE monitor
  /\ driver.at \in Bounded => bnry = PStart
  /\ driver.at \in Placed => curr = PStart + 1 /\ driver.next = PStart + 1
  /\ ~At("lost")

RingInv ==
  /\ Types /\ Stopped
  /\ IF Opened
     THEN bnry = Before(driver.next) /\ Chained /\ Writing /\ Known
     ELSE Drafting
  /\ Reading

-----------------------------------------------------------------------------
(* Distances in the ring.                                                  *)
LEMMA RingBounds ==
  /\ PStart \in Nat /\ PStop \in Nat /\ Size \in Nat /\ Size > 1
  /\ Size = PStop - PStart /\ Ring = PStart .. PStop - 1 /\ 0 \notin Ring
BY RingAssumption DEF Size, Ring

LEMMA SizeIsNat == Size \in Nat /\ Size > 1
BY RingBounds

LEMMA AheadRange ==
  ASSUME NEW p \in Ring, NEW q \in Ring
  PROVE  Ahead(p, q) \in 0 .. Size - 1 /\ (Ahead(p, q) = 0 => p = q)
BY RingBounds DEF Ahead

LEMMA AheadSelf == ASSUME NEW p \in Ring PROVE Ahead(p, p) = 0
BY RingBounds DEF Ahead

(* Going on from a page on the way.                                        *)
LEMMA AheadFrom ==
  ASSUME NEW p \in Ring, NEW q \in Ring, NEW r \in Ring
  PROVE  Ahead(p, q) <= Ahead(p, r) => Ahead(q, r) = Ahead(p, r) - Ahead(p, q)
BY RingBounds DEF Ahead

LEMMA AheadSum ==
  ASSUME NEW p \in Ring, NEW q \in Ring, NEW r \in Ring,
         Ahead(p, q) + Ahead(q, r) < Size
  PROVE  Ahead(p, r) = Ahead(p, q) + Ahead(q, r)
BY RingBounds DEF Ahead

LEMMA AheadSame ==
  ASSUME NEW p \in Ring, NEW q \in Ring, NEW r \in Ring,
         Ahead(p, q) = Ahead(p, r)
  PROVE  q = r
BY RingBounds DEF Ahead

LEMMA AheadNext ==
  ASSUME NEW p \in Ring, NEW q \in Ring
  PROVE  /\ page_inc(q) \in Ring
         /\ Ahead(p, q) < Size - 1 => Ahead(p, page_inc(q)) = Ahead(p, q) + 1
BY RingBounds DEF Ahead, page_inc

LEMMA AheadBefore ==
  ASSUME NEW p \in Ring
  PROVE  Before(p) \in Ring /\ Ahead(p, Before(p)) = Size - 1
BY RingBounds DEF Ahead, Before

-----------------------------------------------------------------------------
(* Types of what the steps write.                                          *)
LEMMA Modulo ==
  ASSUME NEW a \in Nat, NEW b \in Nat, b > 0
  PROVE  a % b \in 0 .. b - 1
OBVIOUS

LEMMA TypesNamed == TypeOK <=> Types
BY DEF TypeOK, Types, RxType, HeaderType, DriverType, FrameIn, Page

LEMMA Constants ==
  /\ Numbers \in Nat /\ Numbers > 0 /\ SomeFrame \in Frames
  /\ \A state \in {"IDLE", "DISCARD"} : Rest(state) \in RxType
  /\ Nothing \in Page /\ NoHeader \in HeaderType
  /\ NoDma \in [page : Ring, left : 0 .. Size]
<1>1. Numbers \in Nat /\ Numbers > 0 /\ SomeFrame \in Frames
  BY RingAssumption DEF SomeFrame
<1>2. PStart \in Ring /\ 1 \in 1 .. Size
  BY RingBounds
<1> QED
  BY <1>1, <1>2, RingBounds DEF Rest, RxType, Nothing, NoHeader, HeaderType, Page, NoDma

LEMMA RxFields ==
  ASSUME Types
  PROVE  /\ rx.start \in Ring /\ rx.page \in Ring /\ rx.next \in Ring
         /\ rx.parts \in Nat \ {0} /\ rx.frame \in Frames
         /\ rx.state \in {"IDLE", "DATA", "DISCARD", "HDR", "COMMIT"}
BY DEF Types, RxType

LEMMA AcceptedTypes ==
  ASSUME Types
  PROVE  /\ Len(accepted) \in Nat
         /\ \A i \in 1 .. Len(accepted) :
              /\ accepted[i] \in FrameIn /\ accepted[i].start \in Ring
              /\ accepted[i].pages \in 1 .. Size
              /\ accepted[i].n \in 0 .. Numbers - 1
              /\ Follow(i) \in Ring
<1>1. Len(accepted) \in Nat /\ \A i \in 1 .. Len(accepted) : accepted[i] \in FrameIn
  BY ElementOfSeq, LenProperties DEF Types
<1>2. \A i \in 1 .. Len(accepted) :
        /\ accepted[i].start \in Ring /\ accepted[i].pages \in 1 .. Size
        /\ accepted[i].n \in 0 .. Numbers - 1
  BY <1>1 DEF FrameIn
<1>3. \A i \in 1 .. Len(accepted) : i # Len(accepted) => i + 1 \in 1 .. Len(accepted)
  BY <1>1
<1> QED
  BY <1>1, <1>2, <1>3 DEF Follow, Types

LEMMA DriverFields ==
  ASSUME Types
  PROVE  /\ driver.next \in Ring /\ driver.last \in Ring /\ driver.at \in Places
         /\ driver.recovers \in BOOLEAN /\ driver.got \in Seq(Page)
         /\ Off(curr) \in 0 .. Size - 1
<1>1. driver.next \in Ring /\ curr \in Ring
  BY DEF Types, DriverType
<1> QED
  BY <1>1, AheadRange DEF Types, DriverType, Off

(* A frame that is written fits before the boundary.                       *)
LEMMA WritingParts ==
  ASSUME Types, Writing, Receiving
  PROVE  rx.parts \in 1 .. Size /\ Off(curr) + rx.parts < Size
BY RxFields, DriverFields, SizeIsNat DEF Writing

(* The frame the driver reads.                                             *)
LEMMA FirstFrame ==
  ASSUME Types, Chained, accepted # <<>>
  PROVE  /\ Len(accepted) >= 1 /\ 1 \in 1 .. Len(accepted)
         /\ accepted[1].start = driver.next
         /\ header[driver.next] = [next |-> Follow(1), pages |-> accepted[1].pages]
         /\ Off(Follow(1)) = accepted[1].pages
         /\ Holds(driver.next, accepted[1].pages, accepted[1].n)
<1>1. Len(accepted) >= 1
  BY DEF Types
<1>2. accepted[1].start = driver.next
  BY DEF Chained
<1>3. Off(driver.next) = 0
  BY AheadSelf, DriverFields DEF Off
<1> QED
  BY <1>1, <1>2, <1>3, AcceptedTypes DEF Chained, End

LEMMA GoneTypes ==
  ASSUME Types, NEW S, Gone(S)
  PROVE  mem' \in [Ring -> Page]
BY Constants DEF Gone, Types

LEMMA WritesTypes ==
  ASSUME Types, NEW p, NEW number \in 0 .. Numbers - 1, NEW part \in Nat,
         WritesPage(p, number, part)
  PROVE  mem' \in [Ring -> Page]
BY DEF WritesPage, Types, Page

LEMMA RxFirstTypes == ASSUME RingInv, RxFirst PROVE Types'
<1>1. (arrived + 1) % Numbers \in 0 .. Numbers - 1
  BY Constants, Modulo DEF RingInv, Types
<1>2. CASE RxIs("IDLE") /\ running /\ ~rx_halted /\ ~Full
  <2>1. /\ arrived' = (arrived + 1) % Numbers
        /\ UNCHANGED <<rx_halted, irqs>>
        /\ WritesPage(curr, arrived', 1)
    BY <1>2 DEF RxFirst, Overflow
  <2>2. mem' \in [Ring -> Page]
    <3>1. Types /\ curr \in Ring /\ arrived' \in 0 .. Numbers - 1
      BY <1>1, <2>1 DEF RingInv, Types
    <3> QED
      BY <2>1, <3>1, WritesTypes
  <2>3. rx' \in RxType
    BY <1>2, RingBounds DEF RxFirst, RxType, RingInv, Types, Overflow
  <2> QED
    BY <1>1, <2>1, <2>2, <2>3 DEF RxFirst, RingInv, Types, irqs
<1> QED
  BY <1>2, Constants DEF RxFirst, Overflow, RingInv, Types, irqs

LEMMA RxMoreTypes == ASSUME RingInv, RxMore PROVE Types'
<1>2. rx.parts + 1 \in Nat \ {0}
  BY RxFields DEF RingInv
<1>3. page_inc(rx.page) \in Ring
  BY AheadNext, RxFields DEF RingInv
<1>4. CASE rx' = Rest("DISCARD") /\ Gone(Written)
  <2>1. mem' \in [Ring -> Page]
    BY <1>4, GoneTypes DEF RingInv
  <2>2. rx' \in RxType
    BY <1>4, Constants
  <2> QED
    BY <2>1, <2>2 DEF RxMore, Overflow, RingInv, Types, irqs, counts
<1>5. CASE /\ rx' = [rx EXCEPT !.page = page_inc(rx.page), !.parts = @ + 1]
           /\ WritesPage(page_inc(rx.page), arrived, rx'.parts)
           /\ UNCHANGED <<rx_halted, irqs>>
  <2>0. Types /\ rx \in RxType /\ arrived \in 0 .. Numbers - 1
    BY DEF RingInv, Types
  <2>1. rx' \in RxType /\ rx'.parts \in Nat
    <3>1. rx' = [state |-> rx.state, start |-> rx.start, page |-> page_inc(rx.page),
                 next |-> rx.next, frame |-> rx.frame, parts |-> rx.parts + 1]
      BY <1>5, <2>0 DEF RxType
    <3>2. rx'.parts = rx.parts + 1 /\ rx.parts + 1 \in Nat
      BY <1>2, <3>1
    <3>3. rx' \in RxType
      BY <1>2, <1>3, <3>1, <2>0, RxFields DEF RxType
    <3> QED
      BY <3>2, <3>3
  <2>2. mem' \in [Ring -> Page]
    BY <1>5, <2>0, <2>1, WritesTypes
  <2> QED
    BY <1>5, <2>1, <2>2 DEF RxMore, RingInv, Types, irqs, counts
<1> QED
  BY <1>4, <1>5 DEF RxMore, Overflow

LEMMA RxEndTypes == ASSUME RingInv, RxEnd PROVE Types'
<1>1. page_inc(rx.page) \in Ring
  BY AheadNext, RxFields DEF RingInv
<1>2. mem' \in [Ring -> Page]
  <2>1. CASE Gone(Written)
    BY <2>1, GoneTypes DEF RingInv
  <2> QED
    BY <2>1 DEF RxEnd, RingInv, Types
<1>3. rx' \in RxType
  <2>0. rx \in RxType
    BY DEF RingInv, Types
  <2>1. CASE rx' = Rest("IDLE")
    BY <2>1, Constants
  <2>2. CASE rx' = [rx EXCEPT !.state = "HDR", !.next = page_inc(rx.page)]
    BY <1>1, <2>0, <2>2 DEF RxType
  <2> QED
    BY <2>1, <2>2 DEF RxEnd
<1> QED
  BY <1>2, <1>3 DEF RxEnd, RingInv, Types, regs, irqs, counts

LEMMA HeaderFits ==
  ASSUME RingInv, RxIs("HDR") \/ RxIs("COMMIT")
  PROVE  /\ Opened /\ Receiving /\ Types /\ Writing /\ Chained /\ Known
         /\ bnry = Before(driver.next) /\ rx.parts \in 1 .. Size
<1>1. Opened /\ Receiving
  BY DEF RxIs, Receiving, RingInv, Stopped
<1> QED
  BY <1>1, WritingParts DEF RingInv

LEMMA RxHeaderTypes == ASSUME RingInv, RxHeader PROVE Types'
<1>1. header' \in [Ring -> HeaderType]
  <2>1. rx.parts \in 0 .. Size
    BY HeaderFits DEF RxHeader
  <2> QED
    BY <2>1, RxFields DEF RxHeader, HeaderType, RingInv, Types
<1>2. rx' \in RxType
  BY RxFields DEF RxHeader, RxTo, RxType, RingInv, Types
<1> QED
  BY <1>1, <1>2 DEF RxHeader, RingInv, Types, regs, irqs, counts

LEMMA RxCommitTypes == ASSUME RingInv, RxCommit PROVE Types'
<1>1. [start |-> rx.start, pages |-> rx.parts, n |-> arrived] \in FrameIn
  BY HeaderFits, RxFields DEF RxCommit, RingInv, Types, FrameIn
<1>2. accepted' \in Seq(FrameIn)
  BY <1>1, AppendProperties DEF RxCommit, RingInv, Types
<1>3. rx' \in RxType /\ curr' \in Ring
  BY Constants, RxFields DEF RxCommit, RingInv
<1> QED
  BY <1>2, <1>3 DEF RxCommit, RingInv, Types, buffer

LEMMA IsrSetsTypes == ASSUME RingInv, IsrSets PROVE Types'
BY DEF IsrSets, RingInv, Types, regs, buffer, counts

LEMMA OpenTypes == ASSUME RingInv, Open PROVE Types'
<1>1. mem' \in [Ring -> Page] /\ header' \in [Ring -> HeaderType]
  BY GoneTypes, Constants DEF Open, RingInv
<1>2. rx' \in RxType
  BY Constants DEF Open, NicReset, RxDropped, RingInv, Types
<1>3. driver' \in DriverType
  BY RingBounds DEF Open, Closed, DriverType, Places, SettingUp
<1>4. accepted' \in Seq(FrameIn)
  BY DEF Open
<1>5. /\ running' \in BOOLEAN /\ monitor' \in BOOLEAN /\ rx_halted' \in BOOLEAN
      /\ isr' = {} /\ imr' = {} /\ isr_set_rx' \subseteq {"PRX", "OVW"}
      /\ remote' = NoDma /\ UNCHANGED <<bnry, curr, arrived>>
  BY DEF Open, NicReset
<1> QED
  BY <1>1, <1>2, <1>3, <1>4, <1>5, Constants DEF RingInv, Types

(* The steps of the driver that change its place only, or its place and    *)
(* the registers.                                                          *)
LEMMA GoToTypes ==
  ASSUME Types, NEW place \in Places, GoTo(place)
  PROVE  driver' \in DriverType
BY DEF GoTo, Types, DriverType

LEMMA ClearIsrTypes ==
  ASSUME Types, NEW bits, ClearIsr(bits)
  PROVE  isr' \subseteq {"PRX", "OVW"} /\ isr_set_rx' \subseteq {"PRX", "OVW"}
BY DEF ClearIsr, Types

(* The driver sets the card up, waits and recovers.                        *)
SettingUpStep ==
  \/ SetUp \/ SetsBoundary \/ ClearsAll \/ Stops("cleared", "off") \/ SetsCurr
  \/ Starts("placed", "opened") \/ Stops("opened", "closing")
  \/ Starts("closing", "reopened")
RecoveryStep ==
  \/ Stops("overrun", "stopped") \/ Starts("stopped", "restarted")
  \/ Stops("restarted", "stopped_again") \/ SavesCurr \/ LoopEnds

LEMMA StopsTypes ==
  ASSUME Types, NEW from, NEW to \in Places, Stops(from, to) \/ Starts(from, to)
  PROVE  Types'
<1>1. driver' \in DriverType
  BY GoToTypes DEF Stops, Starts
<1> QED
  BY <1>1 DEF Stops, Starts, StartsReceiver, Types, irqs, buffer, counts

LEMMA SetUpTypes == ASSUME RingInv, SettingUpStep PROVE Types'
<1> Types
  BY DEF RingInv
<1>0. SettingUp \subseteq Places
  BY DEF Places
<1>1. CASE SetUp
  <2>1. driver' \in DriverType
    BY <1>0, <1>1, GoToTypes DEF SetUp, SettingUp
  <2> QED
    BY <1>1, <2>1 DEF SetUp, StartsReceiver, Types, irqs, buffer, counts
<1>2. CASE SetsBoundary
  <2>1. driver' \in DriverType
    BY <1>0, <1>2, GoToTypes DEF SetsBoundary, SettingUp
  <2> QED
    BY <1>2, <2>1, RingBounds DEF SetsBoundary, Types, irqs, buffer, counts
<1>3. CASE ClearsAll
  <2>1. driver' \in DriverType
    BY <1>0, <1>3, GoToTypes DEF ClearsAll, SettingUp
  <2> QED
    BY <1>3, <2>1, ClearIsrTypes DEF ClearsAll, Types, buffer, counts
<1>4. CASE SetsCurr
  <2>1. PStart + 1 \in Ring /\ "placed" \in Places
    BY <1>0, RingBounds DEF SettingUp
  <2>2. driver' \in DriverType
    BY <1>4, <2>1 DEF SetsCurr, Types, DriverType
  <2> QED
    BY <1>4, <2>1, <2>2 DEF SetsCurr, Types, irqs, buffer, counts
<1>5. CASE \/ Stops("cleared", "off") \/ Starts("placed", "opened")
           \/ Stops("opened", "closing") \/ Starts("closing", "reopened")
  BY <1>0, <1>5, StopsTypes DEF SettingUp
<1> QED
  BY <1>1, <1>2, <1>3, <1>4, <1>5 DEF SettingUpStep

LEMMA IdleTypes ==
  ASSUME RingInv, StartUp \/ Send \/ Interrupt \/ Acknowledge \/ ReadCurr
  PROVE  Types'
<1> Types
  BY DEF RingInv
<1> {"idle", "overrun", "acknowledge", "current", "loop"} \subseteq Places
  BY DEF Places
<1>2. CASE StartUp
  <2>1. driver' \in DriverType
    BY <1>2, GoToTypes DEF StartUp
  <2> QED
    BY <1>2, <2>1 DEF StartUp, Types, irqs, buffer, counts
<1>3. CASE Send
  BY <1>3 DEF Send, StartsReceiver, Types, irqs, buffer, counts
<1>4. CASE Interrupt
  <2>1. driver' \in DriverType
    BY <1>4, GoToTypes DEF Interrupt
  <2> QED
    BY <1>4, <2>1 DEF Interrupt, Types, irqs, buffer, counts
<1>5. CASE Acknowledge
  <2>1. driver' \in DriverType
    BY <1>5, GoToTypes DEF Acknowledge
  <2> QED
    BY <1>5, <2>1, ClearIsrTypes DEF Acknowledge, Types, regs, buffer, counts
<1>6. CASE ReadCurr
  <2>1. driver' \in DriverType
    BY <1>6 DEF ReadCurr, Types, DriverType
  <2> QED
    BY <1>6, <2>1 DEF ReadCurr, StartsReceiver, Types, irqs, buffer, counts
<1> QED
  BY <1>2, <1>3, <1>4, <1>5, <1>6

LEMMA RecoveryTypes == ASSUME RingInv, RecoveryStep PROVE Types'
<1> Types
  BY DEF RingInv
<1> {"stopped", "restarted", "stopped_again", "saved", "idle"} \subseteq Places
  BY DEF Places
<1>1. CASE \/ Stops("overrun", "stopped") \/ Starts("stopped", "restarted")
           \/ Stops("restarted", "stopped_again")
  BY <1>1, StopsTypes
<1>3. CASE SavesCurr
  <2>1. driver' \in DriverType
    BY <1>3 DEF SavesCurr, Types, DriverType
  <2> QED
    BY <1>3, <2>1 DEF SavesCurr, Types, regs, irqs, buffer, counts
<1>4. CASE LoopEnds
  <2>1. driver' \in DriverType
    BY <1>4 DEF LoopEnds, Types, DriverType
  <2>2. isr' \subseteq {"PRX", "OVW"} /\ isr_set_rx' \subseteq {"PRX", "OVW"}
    BY <1>4, ClearIsrTypes DEF LoopEnds, Types, irqs
  <2> QED
    BY <1>4, <2>1, <2>2 DEF LoopEnds, Types, buffer, counts
<1> QED
  BY <1>1, <1>3, <1>4 DEF RecoveryStep

LEMMA ReadHeaderTypes == ASSUME RingInv, ReadHeader PROVE Types'
<1> Types
  BY DEF RingInv
<1>1. header[driver.next] \in HeaderType
  BY DriverFields DEF Types
<1>2. remote' \in [page : Ring, left : 0 .. Size]
  BY <1>1, DriverFields DEF ReadHeader, HeaderType, Types
<1>3. driver' \in DriverType
  BY GoToTypes DEF ReadHeader, Places
<1> QED
  BY <1>2, <1>3 DEF ReadHeader, StartsReceiver, Types, irqs, buffer, counts

LEMMA ReadPageTypes == ASSUME RingInv, ReadPage PROVE Types'
<1> Types
  BY DEF RingInv
<1>1. remote.page \in Ring /\ remote.left \in 0 .. Size /\ remote.left > 0
  BY DEF ReadPage, Types
<1>2. remote' \in [page : Ring, left : 0 .. Size]
  BY <1>1, Constants, AheadNext, RingBounds DEF ReadPage, NextByte
<1>3. (IF remote.page \in Ring THEN mem[remote.page] ELSE Nothing) \in Page
  BY <1>1 DEF Types
<1>4. driver'.got \in Seq(Page)
  BY <1>3, DriverFields, AppendProperties DEF ReadPage, Types, DriverType
<1>5. driver' \in DriverType
  BY <1>4 DEF ReadPage, Types, DriverType
<1> QED
  BY <1>2, <1>5 DEF ReadPage, regs, irqs, Types, buffer, counts

LEMMA AtReading ==
  ASSUME RingInv, At("read")
  PROVE  Opened /\ Types /\ Chained /\ Writing /\ Known /\ accepted # <<>>
BY DEF RingInv, Opened, SettingUp, At, Reading

LEMMA FreePagesTypes == ASSUME RingInv, FreePages PROVE Types'
<1>0. Types /\ Chained /\ accepted # <<>>
  BY AtReading DEF FreePages
<1>1. header[driver.next].next \in Ring
  BY <1>0, FirstFrame, AcceptedTypes
<1>2. bnry' \in Ring
  BY <1>1, AheadBefore DEF FreePages
<1>3. driver' \in DriverType
  <2> DEFINE next == header[driver.next].next
  <2>1. driver' = [driver EXCEPT !.at = "loop", !.next = next, !.got = <<>>]
    BY DEF FreePages
  <2>2. driver \in DriverType /\ "loop" \in Places /\ <<>> \in Seq(Page)
    BY <1>0, EmptySeq DEF Types, Places
  <2> QED
    BY <1>1, <2>1, <2>2 DEF DriverType
<1>4. accepted' \in Seq(FrameIn)
  BY <1>0, HeadTailProperties DEF FreePages, Types
<1>5. header' \in [Ring -> HeaderType] /\ mem' \in [Ring -> Page]
  BY <1>0, Constants, GoneTypes DEF FreePages, Types
<1> QED
  BY <1>0, <1>2, <1>3, <1>4, <1>5 DEF FreePages, Types, irqs

(* Writing CURR back forgets the newest frame, or none.                    *)
LEMMA KeptFrames ==
  ASSUME RingInv, At("saved")
  PROVE  /\ Opened /\ Types /\ Chained /\ Writing /\ Known
         /\ driver.last = curr => KeptBefore(driver.last) = accepted
         /\ driver.last # curr =>
              /\ accepted # <<>> /\ driver.last = accepted[Len(accepted)].start
              /\ KeptBefore(driver.last) = SubSeq(accepted, 1, Len(accepted) - 1)
<1>0. Opened /\ Types /\ Chained /\ Writing /\ Known
  BY DEF RingInv, Opened, SettingUp, At
<1> DEFINE There == {i \in DOMAIN accepted : accepted[i].start = driver.last}
<1>1. DOMAIN accepted = 1 .. Len(accepted)
  BY <1>0, LenProperties DEF Types
<1>2. \A i \in 1 .. Len(accepted) : Off(accepted[i].start) < Off(curr)
  <2> SUFFICES ASSUME NEW i \in 1 .. Len(accepted)
               PROVE  Off(accepted[i].start) < Off(curr)
    OBVIOUS
  <2>1. End(i) <= Off(curr)
    BY <1>0 DEF Chained
  <2>2. accepted[i].start \in Ring /\ accepted[i].pages \in 1 .. Size
    BY <1>0, AcceptedTypes
  <2>3. Off(accepted[i].start) \in 0 .. Size - 1 /\ Off(curr) \in 0 .. Size - 1
    BY <1>0, <2>2, DriverFields, AheadRange DEF Off
  <2> QED
    BY <2>1, <2>2, <2>3, RingBounds DEF End
<1>3. CASE driver.last = curr
  <2>1. There = {}
    BY <1>0, <1>1, <1>2, <1>3, AcceptedTypes, DriverFields
  <2> QED
    BY <1>0, <1>3, <2>1 DEF KeptBefore
<1>4. CASE driver.last # curr
  <2> DEFINE n == Len(accepted)
  <2>1. accepted # <<>> /\ driver.last = accepted[n].start
    BY <1>0, <1>4 DEF Known
  <2>2. n \in Nat /\ n \in 1 .. n
    BY <1>0, <2>1, LenProperties, EmptySeq DEF Types
  <2>3. \A i \in 1 .. n : accepted[i].start = driver.last => i = n
    <3> SUFFICES ASSUME NEW i \in 1 .. n, i < n
                 PROVE  accepted[i].start # accepted[n].start
      BY <2>1, <2>2
    <3>1. End(i) <= Off(accepted[n].start)
      BY <1>0, <2>2 DEF Chained
    <3>2. accepted[i].start \in Ring /\ accepted[i].pages \in 1 .. Size
      BY <1>0, AcceptedTypes
    <3>3. Off(accepted[i].start) \in 0 .. Size - 1
      BY <1>0, <3>2, DriverFields, AheadRange DEF Off
    <3> QED
      BY <3>1, <3>2, <3>3, RingBounds DEF End
  <2>4. There = {n}
    BY <1>1, <2>1, <2>2, <2>3
  <2>5. KeptBefore(driver.last) = SubSeq(accepted, 1, (CHOOSE i \in {n} : TRUE) - 1)
    BY <2>4 DEF KeptBefore
  <2> QED
    BY <1>0, <1>4, <2>1, <2>5
<1> QED
  BY <1>0, <1>3, <1>4

LEMMA RestoresCurrTypes == ASSUME RingInv, RestoresCurr PROVE Types'
<1>0. Opened /\ Types
  BY KeptFrames DEF RestoresCurr
<1>1. Len(accepted) \in Nat /\ accepted \in Seq(FrameIn)
  BY <1>0, LenProperties DEF Types
<1>2. accepted' \in Seq(FrameIn)
  <2>1. CASE driver.last = curr
    BY <1>1, <2>1, KeptFrames DEF RestoresCurr
  <2>2. CASE driver.last # curr
    <3>1. accepted' = SubSeq(accepted, 1, Len(accepted) - 1)
      BY <2>2, KeptFrames DEF RestoresCurr
    <3>2. \A i \in 1 .. Len(accepted) - 1 : accepted[i] \in FrameIn
      BY <1>1, ElementOfSeq
    <3> QED
      BY <1>1, <3>1, <3>2, SubSeqProperties
  <2> QED
    BY <2>1, <2>2
<1>3. driver' \in DriverType
  BY <1>0, GoToTypes DEF RestoresCurr, Places
<1>4. curr' \in Ring
  BY <1>0, DriverFields DEF RestoresCurr
<1> QED
  BY <1>0, <1>2, <1>3, <1>4 DEF RestoresCurr, Types, irqs, buffer

-----------------------------------------------------------------------------
(* The frames in the ring.                                                 *)

(* The pages of an accepted frame lie before CURR.                         *)
LEMMA FramePages ==
  ASSUME Types, Chained, NEW i \in 1 .. Len(accepted), NEW q \in Ring,
         Ahead(accepted[i].start, q) < accepted[i].pages
  PROVE  /\ Off(q) = Off(accepted[i].start) + Ahead(accepted[i].start, q)
         /\ Off(q) < End(i) /\ End(i) <= Off(curr) /\ Off(q) < Off(curr)
         /\ Off(accepted[i].start) \in 0 .. Size - 1 /\ Off(curr) \in 0 .. Size - 1
<1>1. accepted[i].start \in Ring /\ accepted[i].pages \in 1 .. Size
  BY AcceptedTypes
<1>2. /\ Off(accepted[i].start) \in 0 .. Size - 1 /\ Off(curr) \in 0 .. Size - 1
      /\ Ahead(accepted[i].start, q) \in 0 .. Size - 1
  BY <1>1, AheadRange, DriverFields DEF Off
<1>3. End(i) <= Off(curr) /\ End(i) = Off(accepted[i].start) + accepted[i].pages
  BY DEF Chained, End
<1>4. Off(accepted[i].start) + Ahead(accepted[i].start, q) < Size
  <2>1. accepted[i].pages \in Int /\ Ahead(accepted[i].start, q) + 1 <= accepted[i].pages
    BY <1>1, <1>2, SizeIsNat
  <2> QED
    BY <1>2, <1>3, <2>1, SizeIsNat
<1>5. Off(q) = Off(accepted[i].start) + Ahead(accepted[i].start, q)
  BY <1>1, <1>4, AheadSum, DriverFields DEF Off
<1> QED
  BY <1>1, <1>2, <1>3, <1>5, RingBounds

LEMMA FrameStarts ==
  ASSUME Types, Chained, NEW i \in 1 .. Len(accepted)
  PROVE  /\ accepted[i].start \in Ring /\ accepted[i].pages \in 1 .. Size
         /\ Off(accepted[i].start) < Off(curr)
         /\ End(i) = Off(accepted[i].start) + accepted[i].pages
         /\ Off(accepted[i].start) \in 0 .. Size - 1 /\ Off(curr) \in 0 .. Size - 1
<1>1. accepted[i].start \in Ring /\ accepted[i].pages \in 1 .. Size
  BY AcceptedTypes
<1>2. Ahead(accepted[i].start, accepted[i].start) = 0
  BY <1>1, AheadSelf
<1> QED
  BY <1>1, <1>2, FramePages, RingBounds DEF End

(* A step that writes neither a page nor a header before CURR.             *)
LEMMA ChainedKept ==
  ASSUME Types, Types', Chained,
         UNCHANGED <<curr, accepted>>, driver'.next = driver.next,
         \A p \in Ring : Off(p) < Off(curr) =>
           header'[p] = header[p] /\ mem'[p] = mem[p]
  PROVE  Chained'
<1>1. \A i \in 1 .. Len(accepted) : End(i)' = End(i) /\ Follow(i)' = Follow(i)
  BY DEF End, Follow, Off
<1>2. /\ driver'.next = IF accepted' = <<>> THEN curr' ELSE accepted'[1].start
      /\ \A i, j \in 1 .. Len(accepted') :
           i < j => End(i)' <= Ahead(driver'.next, accepted'[j].start)
  BY <1>1 DEF Chained, Off
<1>3. ASSUME NEW i \in 1 .. Len(accepted)
      PROVE  /\ End(i)' = Ahead(driver'.next, Follow(i)')
             /\ End(i)' <= Ahead(driver'.next, curr')
  BY <1>1, <1>3 DEF Chained, Off
<1>4. ASSUME NEW i \in 1 .. Len(accepted)
      PROVE  header'[accepted[i].start] =
               [next |-> Follow(i), pages |-> accepted[i].pages]
  BY <1>4, FrameStarts DEF Chained
<1>5. ASSUME NEW i \in 1 .. Len(accepted), NEW q \in Ring,
             Ahead(accepted[i].start, q) < accepted[i].pages
      PROVE  mem'[q] = [n |-> accepted[i].n, part |-> Ahead(accepted[i].start, q) + 1]
  <2>1. Off(q) < Off(curr)
    BY <1>5, FramePages
  <2>2. mem[q] = [n |-> accepted[i].n, part |-> Ahead(accepted[i].start, q) + 1]
    BY <1>5 DEF Chained, Holds
  <2> QED
    BY <2>1, <2>2
<1> QED
  BY <1>1, <1>2, <1>3, <1>4, <1>5 DEF Chained, Off, Holds

(* The frame being written lies behind CURR.                               *)
LEMMA WrittenPages ==
  ASSUME Types, Writing, Receiving, NEW q \in Ring,
         Ahead(curr, q) < rx.parts \/ Off(curr) + Ahead(curr, q) < Size
  PROVE  Off(q) = Off(curr) + Ahead(curr, q)
<1>1. curr \in Ring /\ driver.next \in Ring /\ Off(curr) \in 0 .. Size - 1
  BY DriverFields DEF Types
<1>2. Ahead(curr, q) \in 0 .. Size - 1 /\ rx.parts \in 1 .. Size
  BY <1>1, AheadRange, WritingParts
<1>3. Off(curr) + Ahead(curr, q) < Size
  BY <1>1, <1>2, RingBounds DEF Writing
<1> QED
  BY <1>1, <1>3, AheadSum DEF Off

(* Steps that leave alone what a part of the invariant is about.           *)
LEMMA WritingKept ==
  ASSUME Writing, UNCHANGED <<rx, curr, mem, header, arrived>>,
         driver'.next = driver.next
  PROVE  Writing'
BY DEF Writing, Receiving, Holds, Off

LEMMA KnownKept ==
  ASSUME Known, UNCHANGED <<rx, curr, accepted, driver>>
  PROVE  Known'
BY DEF Known, Receiving, Points, At

LEMMA ReadingKept ==
  ASSUME Reading, UNCHANGED <<accepted, remote, driver>>
  PROVE  Reading'
BY DEF Reading, At, Off

LEMMA DraftingKept ==
  ASSUME Drafting, UNCHANGED <<rx, mem, arrived>>
  PROVE  Drafting'
BY DEF Drafting, Receiving, Holds

LEMMA StoppedKept ==
  ASSUME Stopped, UNCHANGED <<running, monitor, bnry, accepted, driver>>,
         ~Opened => /\ curr' = curr /\ (Receiving' => Receiving)
                    /\ rx'.state \notin {"HDR", "COMMIT"}
  PROVE  Stopped'
<1>1. driver.at \in Placed => ~Opened
  BY DEF Placed, Opened, SettingUp
<1> QED
  BY <1>1 DEF Stopped, At, Opened

LEMMA OpenedKept ==
  ASSUME Stopped, Opened, UNCHANGED <<running, accepted, driver>>
  PROVE  Stopped' /\ Opened'
BY DEF Stopped, At, Opened, SettingUp, Bounded, Placed

(* While the card is set up, frames are written and never accepted.        *)
LEMMA SetUpFrames ==
  ASSUME RingInv, ~Opened, RxFirst \/ RxMore \/ RxEnd
  PROVE  RingInv'
<1> Types /\ Stopped /\ Reading /\ Drafting
  BY DEF RingInv
<1>0. Types'
  BY RxFirstTypes, RxMoreTypes, RxEndTypes
<1>1. /\ UNCHANGED <<running, monitor, bnry, curr, header, remote, accepted, driver>>
      /\ ~Opened'
  BY DEF RxFirst, RxMore, RxEnd, regs, counts, Opened
<1>2. Reading'
  BY <1>1, ReadingKept
<1>3. CASE rx'.state \in {"IDLE", "DISCARD"}
  <2>1. ~Receiving' /\ Drafting'
    BY <1>3 DEF Receiving, Drafting
  <2>2. Stopped'
    BY <1>1, <1>3, <2>1, StoppedKept
  <2> QED
    BY <1>0, <1>1, <1>2, <2>1, <2>2 DEF RingInv
<1>4. CASE /\ RxFirst /\ running
           /\ rx'.state = "DATA" /\ rx'.start = curr /\ rx'.page = curr
           /\ rx'.parts = 1 /\ WritesPage(curr, arrived', 1)
  <2>1. curr \in Ring /\ Ahead(curr, curr) = 0
    BY AheadSelf DEF Types
  <2>2. ASSUME NEW q \in Ring, Ahead(curr, q) < 1
        PROVE  mem'[q] = [n |-> arrived', part |-> Ahead(curr, q) + 1]
    <3>1. Ahead(curr, q) \in 0 .. Size - 1 /\ (Ahead(curr, q) = 0 => curr = q)
      BY <2>1, AheadRange
    <3>2. Ahead(curr, q) = 0 /\ q = curr
      BY <2>2, <3>1, RingBounds
    <3> QED
      BY <1>4, <2>1, <3>2 DEF WritesPage, Types
  <2>3. Drafting'
    BY <1>4, <2>1, <2>2 DEF Drafting, Holds
  <2>4. ~At("closed")
    BY <1>4 DEF Stopped
  <2>5. Stopped'
    BY <1>1, <1>4, <2>4 DEF Stopped, At, Opened
  <2> QED
    BY <1>0, <1>1, <1>2, <2>3, <2>5 DEF RingInv
<1>5. CASE /\ RxMore
           /\ rx' = [rx EXCEPT !.page = page_inc(rx.page), !.parts = @ + 1]
           /\ WritesPage(page_inc(rx.page), arrived, rx'.parts)
  <2> DEFINE p == page_inc(rx.page)
  <2>0. rx \in RxType /\ mem \in [Ring -> Page]
    BY DEF Types
  <2>1. /\ rx.state = "DATA" /\ Receiving /\ arrived' = arrived
        /\ rx'.state = "DATA" /\ rx'.start = rx.start /\ rx'.page = p
        /\ rx'.parts = rx.parts + 1 /\ rx.parts \in Nat \ {0}
    BY <1>5, <2>0 DEF RxMore, RxIs, Receiving, RxType, counts
  <2>2. mem' = [mem EXCEPT ![p] = [n |-> arrived, part |-> rx.parts + 1]]
    BY <1>5, <2>1 DEF WritesPage
  <2>3. Stopped'
    BY <1>1, <2>1, StoppedKept
  <2>4. ASSUME rx.parts + 1 <= Size
        PROVE  /\ Ahead(rx.start, p) = rx.parts
               /\ \A q \in Ring : Ahead(rx.start, q) < rx.parts + 1 =>
                    mem'[q] = [n |-> arrived, part |-> Ahead(rx.start, q) + 1]
    <3>1. /\ Ahead(rx.start, rx.page) = rx.parts - 1
          /\ Holds(rx.start, rx.parts, arrived)
      BY <2>1, <2>4, SizeIsNat DEF Drafting
    <3>2. p \in Ring /\ Ahead(rx.start, p) = rx.parts
      <4>1. Ahead(rx.start, rx.page) < Size - 1
        BY <2>1, <2>4, <3>1, SizeIsNat
      <4>2. p \in Ring /\ Ahead(rx.start, p) = (rx.parts - 1) + 1
        BY <3>1, <4>1, RxFields, AheadNext
      <4> QED
        BY <2>1, <4>2
    <3>3. ASSUME NEW q \in Ring, Ahead(rx.start, q) < rx.parts + 1
          PROVE  mem'[q] = [n |-> arrived, part |-> Ahead(rx.start, q) + 1]
      <4>1. CASE q = p
        BY <2>0, <2>2, <3>2, <4>1
      <4>2. CASE q # p
        <5>1. /\ Ahead(rx.start, q) \in 0 .. Size - 1
              /\ Ahead(rx.start, q) # rx.parts
          BY <3>2, <4>2, RxFields, AheadRange, AheadSame
        <5>2. Ahead(rx.start, q) < rx.parts
          BY <2>1, <3>3, <5>1, SizeIsNat
        <5>3. mem[q] = [n |-> arrived, part |-> Ahead(rx.start, q) + 1]
          BY <3>1, <5>2 DEF Holds
        <5> QED
          BY <2>0, <2>2, <4>2, <5>3
      <4> QED
        BY <4>1, <4>2
    <3> QED
      BY <3>2, <3>3
  <2>5. Drafting'
    <3> SUFFICES ASSUME rx'.parts <= Size
                 PROVE  /\ Ahead(rx'.start, rx'.page) = rx'.parts - 1
                        /\ \A q \in Ring : Ahead(rx'.start, q) < rx'.parts =>
                             mem'[q] = [n |-> arrived', part |-> Ahead(rx'.start, q) + 1]
      BY <2>1 DEF Drafting, Holds
    <3>1. rx'.parts - 1 = rx.parts /\ rx.parts + 1 <= Size
      BY <2>1
    <3> QED
      BY <2>1, <2>4, <3>1
  <2> QED
    BY <1>0, <1>1, <1>2, <2>3, <2>5 DEF RingInv
<1>6. CASE RxFirst
  <2>1. CASE rx' = Rest("DISCARD")
    BY <1>3, <2>1 DEF Rest
  <2>2. CASE rx' # Rest("DISCARD")
    <3>1. /\ running /\ WritesPage(curr, arrived', 1)
          /\ \E f \in Frames : rx' = [state |-> "DATA", start |-> curr, page |-> curr,
                                     next |-> curr, frame |-> f, parts |-> 1]
      BY <1>6, <2>2 DEF RxFirst, Overflow
    <3>2. /\ rx'.state = "DATA" /\ rx'.start = curr /\ rx'.page = curr
          /\ rx'.parts = 1
      BY <3>1
    <3> QED
      BY <1>4, <1>6, <3>1, <3>2
  <2> QED
    BY <2>1, <2>2
<1>7. CASE RxMore
  <2>1. CASE rx' = Rest("DISCARD")
    BY <1>3, <2>1 DEF Rest
  <2>2. CASE rx' # Rest("DISCARD")
    BY <1>5, <1>7, <2>2 DEF RxMore, Overflow
  <2> QED
    BY <2>1, <2>2
<1>8. CASE RxEnd
  <2>1. monitor \/ RxIs("DISCARD")
    BY <1>8 DEF RxEnd, Stopped, RxIs, Receiving
  <2>2. rx' = Rest("IDLE")
    BY <1>8, <2>1 DEF RxEnd, RxIs
  <2> QED
    BY <1>3, <2>2 DEF Rest
<1> QED
  BY <1>6, <1>7, <1>8

(* The ring writer.                                                        *)
LEMMA RxFirstKeeps == ASSUME RingInv, Opened, RxFirst PROVE RingInv'
<1> Types /\ Stopped /\ Reading /\ Types'
  BY RxFirstTypes DEF RingInv
<1>0. UNCHANGED <<running, bnry, curr, header, remote, accepted, driver>>
  BY DEF RxFirst
<1>1. ~Receiving
  BY DEF RxFirst, RxIs, Receiving
<1>2. Reading'
  BY <1>0, ReadingKept
<1>3. CASE running /\ ~rx_halted /\ ~Full
  <2>1. Opened /\ bnry = Before(driver.next) /\ Chained /\ Known
    BY DEF RingInv
  <2>2. /\ rx'.state = "DATA" /\ rx'.start = curr /\ rx'.page = curr /\ rx'.parts = 1
        /\ mem' = [mem EXCEPT ![curr] = [n |-> arrived', part |-> 1]]
    BY <1>3 DEF RxFirst, Overflow, WritesPage
  <2>3. Stopped' /\ Opened'
    BY <1>0, OpenedKept
  <2>4. curr \in Ring /\ Ahead(curr, curr) = 0
    BY AheadSelf DEF Types
  <2>5. \A q \in Ring : q # curr => mem'[q] = mem[q]
    BY <2>2 DEF Types
  <2>6. Chained'
    BY <1>0, <2>1, <2>5, ChainedKept, DriverFields DEF Types
  <2>7. Known'
    BY <1>0, <2>1, <2>3, <1>3 DEF Known, Points, At, Stopped
  <2>8. Off(curr) + 1 < Size
    <3>1. curr # bnry
      BY <1>3 DEF Full
    <3>2. Off(bnry) = Size - 1
      BY <2>1, AheadBefore, DriverFields DEF Off
    <3>3. Off(curr) # Off(bnry)
      BY <3>1, AheadSame, DriverFields DEF Off, Types
    <3> QED
      BY <3>2, <3>3, DriverFields, RingBounds
  <2>9. \A q \in Ring : Ahead(curr, q) < 1 =>
          mem'[q] = [n |-> arrived', part |-> Ahead(curr, q) + 1]
    <3> SUFFICES ASSUME NEW q \in Ring, Ahead(curr, q) < 1
                 PROVE  mem'[q] = [n |-> arrived', part |-> Ahead(curr, q) + 1]
      OBVIOUS
    <3>1. Ahead(curr, q) \in 0 .. Size - 1 /\ (Ahead(curr, q) = 0 => curr = q)
      BY <2>4, AheadRange
    <3>2. Ahead(curr, q) = 0 /\ q = curr
      BY <3>1, RingBounds
    <3> QED
      BY <2>2, <2>4, <3>2 DEF Types
  <2>10. Writing'
    BY <1>0, <2>2, <2>4, <2>8, <2>9 DEF Writing, Holds, Off
  <2> QED
    BY <1>0, <1>2, <2>1, <2>3, <2>6, <2>7, <2>10 DEF RingInv
<1>4. CASE ~(running /\ ~rx_halted /\ ~Full)
  <2>1. rx'.state = "DISCARD" /\ UNCHANGED <<mem, arrived>>
    BY <1>4 DEF RxFirst, Overflow, Rest
  <2>2. ~Receiving'
    BY <2>1 DEF Receiving
  <2>3. Stopped' /\ Opened' /\ Writing'
    BY <1>0, <2>2, OpenedKept DEF Writing
  <2>4. bnry' = Before(driver'.next) /\ Chained' /\ Known'
    BY <1>0, <1>1, <2>1, <2>2, ChainedKept DEF RingInv, Known, Points, At, Opened
  <2> QED
    BY <1>2, <2>3, <2>4 DEF RingInv
<1> QED
  BY <1>3, <1>4

LEMMA RxMoreKeeps == ASSUME RingInv, Opened, RxMore PROVE RingInv'
<1> Types /\ Stopped /\ Reading /\ Types'
  BY RxMoreTypes DEF RingInv
<1>0. UNCHANGED <<running, bnry, curr, header, remote, arrived, accepted, driver>>
  BY DEF RxMore, counts
<1>1. rx.state = "DATA" /\ Receiving
  BY DEF RxMore, RxIs, Receiving
<1>2. /\ Opened /\ bnry = Before(driver.next) /\ Chained /\ Writing /\ Known
  BY <1>1 DEF Stopped, RingInv
<1>3. Reading' /\ (Receiving' => Receiving)
  BY <1>0, <1>1, ReadingKept
<1>4. Stopped' /\ Opened'
  BY <1>0, <1>2, OpenedKept
<1>5. curr \in Ring /\ driver.next \in Ring /\ Off(curr) \in 0 .. Size - 1
  BY DriverFields DEF Types
<1>6. CASE rx'.state = "DISCARD" /\ Gone(Written)
  <2>1. \A q \in Ring : Off(q) < Off(curr) => mem'[q] = mem[q]
    <3> SUFFICES ASSUME NEW q \in Ring, Off(q) < Off(curr), q \in Written
                 PROVE  FALSE
      BY <1>6 DEF Gone
    <3>1. Ahead(curr, q) < rx.parts /\ Ahead(curr, q) \in 0 .. Size - 1
      BY <1>1, <1>2, <1>5, AheadRange DEF Written, Span, Writing
    <3>2. Off(q) = Off(curr) + Ahead(curr, q)
      BY <1>1, <1>2, <3>1, WrittenPages
    <3> QED
      BY <1>5, <3>1, <3>2, RingBounds
  <2>2. Chained'
    BY <1>0, <1>2, <2>1, ChainedKept
  <2>3. ~Receiving' /\ Writing'
    BY <1>6 DEF Receiving, Writing
  <2>4. Known'
    BY <1>0, <1>2, <2>3 DEF Known, Points, At
  <2> QED
    BY <1>0, <1>2, <1>3, <1>4, <2>2, <2>3, <2>4 DEF RingInv
<1>7. CASE /\ rx' = [rx EXCEPT !.page = page_inc(rx.page), !.parts = @ + 1]
           /\ WritesPage(page_inc(rx.page), arrived, rx'.parts)
           /\ ~EntersBoundary(page_inc(rx.page))
  <2> DEFINE p == page_inc(rx.page)
  <2>0. rx \in RxType /\ mem \in [Ring -> Page]
    BY DEF Types
  <2>1. /\ rx'.state = "DATA" /\ rx'.start = curr /\ rx'.page = p
        /\ rx'.parts = rx.parts + 1
    BY <1>1, <1>2, <1>7, <2>0 DEF RxType, Writing
  <2>2. mem' = [mem EXCEPT ![p] = [n |-> arrived, part |-> rx.parts + 1]]
    BY <1>7, <2>1 DEF WritesPage
  <2>3. Off(curr) + rx.parts < Size /\ Ahead(curr, rx.page) = rx.parts - 1
    BY <1>1, <1>2 DEF Writing
  <2>4. p \in Ring /\ Ahead(curr, p) = rx.parts
    <3>1. rx.page \in Ring /\ rx.parts \in 1 .. Size
      BY <1>1, <1>2, RxFields, WritingParts
    <3>2. Ahead(curr, rx.page) < Size - 1
      BY <1>5, <2>3, <3>1, RingBounds
    <3> QED
      BY <1>5, <2>3, <3>1, <3>2, AheadNext
  <2>5. Off(p) = Off(curr) + rx.parts
    BY <1>1, <1>2, <2>3, <2>4, WrittenPages
  <2>6. Off(curr) + (rx.parts + 1) < Size
    <3>1. Off(bnry) = Size - 1
      BY <1>2, <1>5, AheadBefore DEF Off
    <3>2. p # bnry
      BY <1>7 DEF EntersBoundary
    <3>3. Off(p) # Off(bnry)
      BY <1>5, <2>4, <3>2, AheadSame DEF Off, Types
    <3> QED
      BY <1>5, <2>3, <2>5, <3>1, <3>3, RxFields, RingBounds
  <2>7. \A q \in Ring : Off(q) < Off(curr) => mem'[q] = mem[q]
    BY <1>5, <2>0, <2>2, <2>4, <2>5, RxFields
  <2>8. Chained'
    BY <1>0, <1>2, <2>7, ChainedKept
  <2>9. ASSUME NEW q \in Ring, Ahead(curr, q) < rx.parts + 1
        PROVE  mem'[q] = [n |-> arrived, part |-> Ahead(curr, q) + 1]
    <3>1. CASE q = p
      BY <2>0, <2>2, <2>4, <3>1
    <3>2. CASE q # p
      <4>1. Ahead(curr, q) \in 0 .. Size - 1 /\ Ahead(curr, q) # rx.parts
        BY <1>5, <2>4, <3>2, AheadRange, AheadSame
      <4>2. Ahead(curr, q) < rx.parts
        BY <2>9, <4>1, RxFields, RingBounds
      <4>3. mem[q] = [n |-> arrived, part |-> Ahead(curr, q) + 1]
        BY <1>1, <1>2, <4>2 DEF Writing, Holds
      <4> QED
        BY <2>0, <2>2, <3>2, <4>3
    <3> QED
      BY <3>1, <3>2
  <2>10. Writing'
    <3>0. curr' = curr /\ driver'.next = driver.next
      BY <1>0
    <3>1. rx'.start = curr' /\ Ahead(curr', rx'.page) = rx'.parts - 1
      <4>1. rx'.parts - 1 = rx.parts
        BY <2>1, RxFields
      <4>2. Ahead(curr', rx'.page) = rx.parts
        BY <3>0, <2>1, <2>4
      <4> QED
        BY <3>0, <2>1, <4>1, <4>2
    <3>2. Ahead(driver'.next, curr') + rx'.parts < Size
      BY <3>0, <2>1, <2>6 DEF Off
    <3>3. \A q \in Ring : Ahead(curr', q) < rx'.parts =>
            mem'[q] = [n |-> arrived', part |-> Ahead(curr', q) + 1]
      BY <1>0, <2>1, <2>9
    <3> QED
      BY <2>1, <3>1, <3>2, <3>3 DEF Writing, Holds, Off
  <2>11. Known'
    BY <1>0, <1>1, <1>2 DEF Known, Points, At
  <2> QED
    BY <1>0, <1>2, <1>3, <1>4, <2>8, <2>10, <2>11 DEF RingInv
<1> QED
  BY <1>6, <1>7 DEF RxMore, Overflow, Rest

LEMMA RxEndKeeps == ASSUME RingInv, Opened, RxEnd PROVE RingInv'
<1> Types /\ Stopped /\ Reading /\ Types'
  BY RxEndTypes DEF RingInv
<1>0. UNCHANGED <<running, bnry, curr, header, remote, arrived, accepted, driver>>
  BY DEF RxEnd, counts, regs
<1>1. Reading'
  BY <1>0, ReadingKept
<1>2. CASE rx'.state = "IDLE"
  <2>1. ~Receiving' /\ Writing'
    BY <1>2 DEF Receiving, Writing
  <2>2. Stopped' /\ Opened'
    BY <1>0, OpenedKept
  <2>3. ASSUME Opened
        PROVE  \A q \in Ring : Off(q) < Off(curr) => mem'[q] = mem[q]
    <3>1. CASE UNCHANGED mem
      BY <3>1
    <3>2. CASE RxIs("DATA") /\ Gone(Written)
      <4>1. Writing /\ Receiving /\ rx.start = curr
        BY <2>3, <3>2 DEF RingInv, Writing, Receiving, RxIs
      <4>2. curr \in Ring /\ Off(curr) \in 0 .. Size - 1
        BY DriverFields DEF Types
      <4> SUFFICES ASSUME NEW q \in Ring, Off(q) < Off(curr), q \in Written
                   PROVE  FALSE
        BY <3>2 DEF Gone
      <4>3. Ahead(curr, q) < rx.parts /\ Ahead(curr, q) \in 0 .. Size - 1
        BY <4>1, <4>2, AheadRange DEF Written, Span
      <4>4. Off(q) = Off(curr) + Ahead(curr, q)
        BY <4>1, <4>3, WrittenPages
      <4> QED
        BY <4>2, <4>3, <4>4, RingBounds
    <3> QED
      BY <1>2, <3>1, <3>2 DEF RxEnd
  <2>4. bnry' = Before(driver'.next) /\ Chained' /\ Known'
    BY <1>0, <2>1, <2>3, ChainedKept DEF RingInv, Known, Points, At, Opened
  <2> QED
    BY <1>1, <2>1, <2>2, <2>4 DEF RingInv
<1>3. CASE /\ RxIs("DATA") /\ UNCHANGED mem
           /\ rx' = [rx EXCEPT !.state = "HDR", !.next = page_inc(rx.page)]
  <2>0. rx \in RxType
    BY DEF Types
  <2>1. /\ rx'.state = "HDR" /\ rx'.next = page_inc(rx.page)
        /\ rx'.page = rx.page /\ rx'.start = rx.start /\ rx'.parts = rx.parts
    BY <1>3, <2>0 DEF RxType
  <2>2. Receiving /\ Opened /\ bnry = Before(driver.next) /\ Chained /\ Writing /\ Known
    BY <1>3 DEF RxIs, Receiving, Stopped, RingInv
  <2>3. Writing'
    BY <1>0, <1>3, <2>1, <2>2 DEF Writing, Holds, Off
  <2>4. Stopped' /\ Opened' /\ Chained'
    BY <1>0, <1>3, <2>2, OpenedKept, ChainedKept
  <2>5. Known'
    BY <1>0, <2>2 DEF Known, Points, At
  <2> QED
    BY <1>0, <1>1, <2>2, <2>3, <2>4, <2>5 DEF RingInv
<1> QED
  BY <1>2, <1>3 DEF RxEnd, Rest

LEMMA RxHeaderKeeps == ASSUME RingInv, RxHeader PROVE RingInv'
<1> Types /\ Stopped /\ Reading /\ Types'
  BY RxHeaderTypes DEF RingInv
<1>0. UNCHANGED <<running, bnry, curr, mem, remote, arrived, accepted, driver>>
  BY DEF RxHeader, counts, regs
<1>1. Receiving /\ Opened /\ bnry = Before(driver.next) /\ Chained /\ Writing /\ Known
  BY HeaderFits DEF RxHeader
<1>2. rx \in RxType /\ header \in [Ring -> HeaderType] /\ curr \in Ring
  BY DEF Types
<1>3. /\ rx'.state = "COMMIT" /\ rx'.next = rx.next /\ rx'.page = rx.page
      /\ rx'.start = rx.start /\ rx'.parts = rx.parts
  BY <1>2 DEF RxHeader, RxTo, RxType
<1>4. header' = [header EXCEPT ![curr] = [next |-> rx.next, pages |-> rx.parts]]
  BY <1>1 DEF RxHeader, Writing
<1>5. Writing'
  BY <1>0, <1>1, <1>2, <1>3, <1>4 DEF Writing, Holds, Off, RxHeader, RxIs
<1>6. \A q \in Ring : Off(q) < Off(curr) => header'[q] = header[q]
  BY <1>2, <1>4, DriverFields
<1>7. Stopped' /\ Opened' /\ Chained' /\ Reading'
  BY <1>0, <1>1, <1>6, OpenedKept, ChainedKept, ReadingKept
<1>8. Known'
  BY <1>0, <1>1 DEF Known, Points, At
<1> QED
  BY <1>0, <1>1, <1>5, <1>7, <1>8 DEF RingInv

(* The frame that is committed becomes the last of the ring.               *)
LEMMA RxCommitKeeps == ASSUME RingInv, RxCommit PROVE RingInv'
<1> DEFINE F == [start |-> curr, pages |-> rx.parts, n |-> arrived]
<1> Types /\ Stopped /\ Reading /\ Types'
  BY RxCommitTypes DEF RingInv
<1> PICK n \in Nat : n = Len(accepted)
  BY AcceptedTypes
<1>0. UNCHANGED <<running, bnry, mem, header, remote, arrived, driver>>
  BY DEF RxCommit, buffer
<1>1. /\ rx.state = "COMMIT" /\ Receiving
      /\ Opened /\ bnry = Before(driver.next) /\ Chained /\ Writing /\ Known
      /\ rx.parts \in 1 .. Size
  BY HeaderFits DEF RxCommit, RxIs
<1>2. /\ rx.start = curr /\ Ahead(curr, rx.page) = rx.parts - 1
      /\ Off(curr) + rx.parts < Size /\ Holds(curr, rx.parts, arrived)
      /\ rx.next = page_inc(rx.page)
      /\ header[curr] = [next |-> rx.next, pages |-> rx.parts]
  BY <1>1 DEF Writing
<1>3. /\ curr \in Ring /\ driver.next \in Ring /\ Off(curr) \in 0 .. Size - 1
      /\ rx.parts \in 1 .. Size /\ rx.page \in Ring /\ n \in Nat
  BY <1>1, DriverFields, RxFields, AcceptedTypes DEF Types
<1>4. ~Receiving' /\ Writing'
  BY DEF RxCommit, Rest, Receiving, Writing
<1>5. /\ accepted' = Append(accepted, F) /\ curr' = rx.next
  BY <1>2 DEF RxCommit
<1>6. /\ Len(accepted') = n + 1 /\ accepted' # <<>> /\ accepted'[n + 1] = F
      /\ \A i \in 1 .. n : accepted'[i] = accepted[i]
  <2>1. F \in FrameIn
    BY <1>3 DEF FrameIn, Types
  <2> QED
    BY <1>5, <2>1, AppendProperties DEF Types
<1>7. curr' \in Ring /\ Off(curr)' = Off(curr) + rx.parts
  <2>1. Off(rx.page) = Off(curr) + (rx.parts - 1)
    BY <1>1, <1>2, <1>3, WrittenPages
  <2>2. Off(rx.page) < Size - 1
    BY <1>2, <1>3, <2>1, RingBounds
  <2>3. rx.next \in Ring /\ Off(rx.next) = Off(rx.page) + 1
    BY <1>2, <1>3, <2>2, AheadNext DEF Off
  <2>4. Off(rx.next) = Off(curr) + rx.parts
    BY <1>3, <2>1, <2>3
  <2> QED
    BY <1>0, <1>5, <2>3, <2>4 DEF Off
<1>8. Stopped' /\ Opened'
  BY <1>0, <1>1 DEF Stopped, At, Opened, SettingUp, Bounded, Placed
<1>9. Chained'
  <2>1. \A i \in 1 .. n : Follow(i)' = Follow(i) /\ End(i)' = End(i)
    <3>1. ASSUME NEW i \in 1 .. n PROVE End(i)' = End(i)
      BY <1>0, <1>6 DEF End, Off
    <3>2. ASSUME NEW i \in 1 .. n PROVE Follow(i)' = Follow(i)
      <4>1. CASE i = n
        BY <1>3, <1>6, <4>1 DEF Follow
      <4>2. CASE i # n
        <5>1. i + 1 \in 1 .. n /\ i # n + 1
          BY <1>3, <4>2
        <5> QED
          BY <1>6, <4>2, <5>1 DEF Follow
      <4> QED
        BY <4>1, <4>2
    <3> QED
      BY <3>1, <3>2
  <2>2. Follow(n + 1)' = curr' /\ End(n + 1)' = Off(curr)'
    BY <1>0, <1>6, <1>7 DEF Follow, End, Off
  <2>3. driver'.next = IF accepted' = <<>> THEN curr' ELSE accepted'[1].start
    <3>1. CASE accepted = <<>>
      <4>1. n = 0
        BY <3>1
      <4> QED
        BY <1>0, <1>1, <1>6, <3>1, <4>1 DEF Chained
    <3>2. CASE accepted # <<>>
      <4>1. 1 \in 1 .. n
        BY <1>1, <3>2, FirstFrame
      <4> QED
        BY <1>0, <1>1, <1>6, <3>2, <4>1 DEF Chained
    <3> QED
      BY <3>1, <3>2
  <2>4. ASSUME NEW i \in 1 .. n + 1
        PROVE  /\ End(i)' = Off(Follow(i))' /\ End(i)' <= Off(curr)'
               /\ header'[accepted'[i].start] =
                    [next |-> Follow(i)', pages |-> accepted'[i].pages]
               /\ Holds(accepted[i].start, accepted[i].pages, accepted[i].n)'
    <3>1. CASE i \in 1 .. n
      <4>1. /\ End(i) = Off(Follow(i)) /\ End(i) <= Off(curr)
            /\ header[accepted[i].start] =
                 [next |-> Follow(i), pages |-> accepted[i].pages]
            /\ Holds(accepted[i].start, accepted[i].pages, accepted[i].n)
        BY <1>1, <3>1 DEF Chained
      <4>2. End(i) <= Off(curr)'
        <5>1. End(i) = Off(accepted[i].start) + accepted[i].pages
              /\ Off(accepted[i].start) \in 0 .. Size - 1 /\ accepted[i].pages \in 1 .. Size
          BY <1>1, <3>1, FrameStarts
        <5> QED
          BY <1>3, <1>7, <4>1, <5>1, SizeIsNat
      <4>3. Off(Follow(i))' = Off(Follow(i))
        BY <1>0, <2>1, <3>1 DEF Off
      <4> QED
        BY <1>0, <1>6, <2>1, <3>1, <4>1, <4>2, <4>3 DEF Holds
    <3>2. CASE i = n + 1
      <4>1. accepted'[i].start = curr /\ accepted'[i].pages = rx.parts
            /\ accepted'[i].n = arrived
        BY <1>6, <3>2
      <4>2. End(i)' = Off(Follow(i))' /\ End(i)' <= Off(curr)'
        BY <1>3, <1>7, <2>2, <3>2 DEF Off
      <4>3. header'[accepted'[i].start] =
              [next |-> Follow(i)', pages |-> accepted'[i].pages]
        BY <1>0, <1>2, <1>5, <2>2, <3>2, <4>1
      <4>4. Holds(accepted[i].start, accepted[i].pages, accepted[i].n)'
        BY <1>0, <1>2, <4>1 DEF Holds
      <4> QED
        BY <4>2, <4>3, <4>4
    <3> QED
      BY <1>3, <1>6, <3>1, <3>2
  <2>5. ASSUME NEW i \in 1 .. n + 1, NEW j \in 1 .. n + 1, i < j
        PROVE  End(i)' <= Off(accepted[j].start)'
    <3>1. i \in 1 .. n
      BY <1>3, <1>6, <2>5
    <3>2. CASE j \in 1 .. n
      <4>1. End(i) <= Off(accepted[j].start)
        BY <1>1, <2>5, <3>1, <3>2 DEF Chained
      <4> QED
        BY <1>0, <1>6, <2>1, <3>1, <3>2, <4>1 DEF Off
    <3>3. CASE j = n + 1
      <4>1. End(i) <= Off(curr)
        BY <1>1, <3>1 DEF Chained
      <4> QED
        BY <1>0, <1>6, <2>1, <3>1, <3>3, <4>1 DEF Off
    <3> QED
      BY <1>3, <1>6, <3>2, <3>3
  <2> QED
    BY <1>6, <2>3, <2>4, <2>5 DEF Chained
<1>10. Known'
  <2>1. DOMAIN accepted = 1 .. n /\ DOMAIN accepted' = 1 .. n + 1
    BY <1>6, LenProperties DEF Types
  <2>2. Points \subseteq Points'
    <3>1. curr \in Points'
      BY <1>3, <1>6, <2>1 DEF Points
    <3>2. \A i \in 1 .. n : accepted[i].start \in Points'
      BY <1>3, <1>6, <2>1 DEF Points
    <3> QED
      BY <2>1, <3>1, <3>2 DEF Points
  <2>3. At("saved") => driver.last = curr
    BY <1>1 DEF Known
  <2>4. accepted'[Len(accepted')].start = curr
    BY <1>6
  <2> QED
    BY <1>0, <1>1, <1>4, <1>6, <2>2, <2>3, <2>4 DEF Known, At
<1>11. Reading'
  <2>1. CASE At("read")
    <3>1. 1 \in 1 .. n
      BY <1>1, <2>1, AtReading, FirstFrame
    <3> QED
      BY <1>0, <1>6, <2>1, <3>1 DEF Reading, At, Off
  <2>2. CASE ~At("read")
    BY <1>0, <2>2 DEF Reading, At
  <2> QED
    BY <2>1, <2>2
<1> QED
  BY <1>0, <1>1, <1>4, <1>8, <1>9, <1>10, <1>11 DEF RingInv

LEMMA IsrSetsKeeps == ASSUME RingInv, IsrSets PROVE RingInv'
<1> Types /\ Stopped /\ Reading /\ Types'
  BY IsrSetsTypes DEF RingInv
<1>1. /\ UNCHANGED <<running, bnry, curr, header, remote, arrived, accepted, driver>>
      /\ UNCHANGED <<rx, mem>>
  BY DEF IsrSets, counts, regs, buffer
<1>2. Stopped' /\ Reading' /\ Opened' = Opened
  <2>1. Receiving' = Receiving /\ rx' = rx /\ monitor' = monitor
    BY <1>1 DEF Receiving, IsrSets, regs
  <2>2. Stopped'
    BY <1>1, <2>1, StoppedKept DEF Stopped
  <2> QED
    BY <1>1, <2>2, ReadingKept DEF Opened
<1>3. Opened => bnry' = Before(driver'.next) /\ Chained' /\ Writing' /\ Known'
  BY <1>1, ChainedKept, WritingKept, KnownKept DEF RingInv
<1>4. ~Opened => Drafting'
  BY <1>1, DraftingKept DEF RingInv
<1> QED
  BY <1>2, <1>3, <1>4 DEF RingInv

-----------------------------------------------------------------------------
(* The driver's steps.  Most of them leave the ring alone.                 *)
LEMMA RingKept ==
  ASSUME RingInv, Types', Opened,
         UNCHANGED <<bnry, curr, rx, mem, header, arrived, accepted>>,
         driver'.next = driver.next
  PROVE  bnry' = Before(driver'.next) /\ Chained' /\ Writing'
BY ChainedKept, WritingKept DEF RingInv

(* The place the driver goes to, and what it takes along.                  *)
LEMMA GoToFields ==
  ASSUME Types, NEW place, GoTo(place)
  PROVE  /\ driver'.at = place /\ driver'.next = driver.next
         /\ driver'.last = driver.last /\ driver'.got = driver.got
BY DEF GoTo, Types, DriverType

LEMMA OpenKeeps == ASSUME RingInv, Open PROVE RingInv'
<1>1. Types'
  BY OpenTypes
<1>2. /\ accepted' = <<>> /\ ~running' /\ driver'.got = <<>>
      /\ driver'.at = "closed"
  BY DEF Open, Closed, NicReset
<1>3. ~Receiving'
  <2>1. rx.state \in {"IDLE", "DATA", "DISCARD", "HDR", "COMMIT"}
    BY RxFields DEF RingInv
  <2> QED
    BY <2>1 DEF Open, NicReset, RxDropped, RxIs, Rest, Receiving
<1>4. Stopped' /\ ~Opened' /\ Reading' /\ Drafting'
  BY <1>2, <1>3 DEF Stopped, Opened, SettingUp, Bounded, Placed, Reading, Drafting,
     Receiving, At
<1> QED
  BY <1>1, <1>4 DEF RingInv

(* What the driver writes while it sets the card up.                       *)
LEMMA SetUpKeeps == ASSUME RingInv, SettingUpStep PROVE RingInv'
<1> Types /\ Stopped /\ Reading /\ Types'
  BY SetUpTypes DEF RingInv
<1>1. UNCHANGED <<rx, mem, arrived, accepted>>
  BY DEF SettingUpStep, SetUp, SetsBoundary, ClearsAll, Stops, Starts, SetsCurr,
     buffer, counts
<1>2. CASE SetUp
  <2>1. driver.at = "closed" /\ driver'.at = "monitoring" /\ monitor'
        /\ driver'.got = driver.got
    BY <1>2, GoToFields DEF SetUp, At
  <2> QED
    BY <1>1, <2>1 DEF RingInv, Stopped, Drafting, Reading, Receiving, Holds, Opened,
       SettingUp, Bounded, Placed, At
<1>3. CASE SetsBoundary
  <2>1. driver.at = "monitoring" /\ driver'.at = "bounded" /\ monitor' = monitor
        /\ driver'.got = driver.got /\ bnry' = PStart
    BY <1>3, GoToFields DEF SetsBoundary, At
  <2> QED
    BY <1>1, <2>1 DEF RingInv, Stopped, Drafting, Reading, Receiving, Holds, Opened,
       SettingUp, Bounded, Placed, At
<1>4. CASE ClearsAll \/ Stops("cleared", "off")
  <2>1. /\ driver.at \in {"bounded", "cleared"} /\ driver'.at \in {"cleared", "off"}
        /\ UNCHANGED <<monitor, bnry>> /\ driver'.got = driver.got
    BY <1>4, GoToFields DEF ClearsAll, Stops, At
  <2> QED
    BY <1>1, <2>1 DEF RingInv, Stopped, Drafting, Reading, Receiving, Holds, Opened,
       SettingUp, Bounded, Placed, At
<1>5. CASE SetsCurr
  <2>1. /\ driver.at = "off" /\ driver'.at = "placed" /\ UNCHANGED <<monitor, bnry>>
        /\ driver'.got = driver.got /\ driver'.next = PStart + 1 /\ curr' = PStart + 1
    BY <1>5 DEF SetsCurr, At, Types, DriverType
  <2> QED
    BY <1>1, <2>1 DEF RingInv, Stopped, Drafting, Reading, Receiving, Holds, Opened,
       SettingUp, Bounded, Placed, At
<1>6. CASE \/ Starts("placed", "opened") \/ Stops("opened", "closing")
           \/ Starts("closing", "reopened")
  <2>1. /\ driver.at \in {"placed", "opened", "closing"}
        /\ driver'.at \in {"opened", "closing", "reopened"}
        /\ UNCHANGED <<monitor, bnry, curr>>
        /\ driver'.got = driver.got /\ driver'.next = driver.next
    BY <1>6, GoToFields DEF Starts, Stops, StartsReceiver, At
  <2> QED
    BY <1>1, <2>1 DEF RingInv, Stopped, Drafting, Reading, Receiving, Holds, Opened,
       SettingUp, Bounded, Placed, At
<1> QED
  BY <1>2, <1>3, <1>4, <1>5, <1>6 DEF SettingUpStep

(* A frame that has begun is at CURR: it may be accepted.                  *)
LEMMA StartUpKeeps == ASSUME RingInv, StartUp PROVE RingInv'
<1> Types /\ Stopped /\ Reading /\ Types'
  BY IdleTypes DEF RingInv
<1>1. /\ driver.at = "reopened" /\ driver'.at = "idle" /\ driver'.got = driver.got
      /\ driver'.next = driver.next
  BY GoToFields DEF StartUp, At
<1>2. driver.got = <<>> /\ ~Opened /\ Drafting
  BY <1>1 DEF RingInv, Reading, Opened, SettingUp, At
<1>3. UNCHANGED <<curr, bnry, rx, mem, arrived, accepted>>
  BY DEF StartUp, buffer, counts
<1>4. /\ bnry = PStart /\ curr = PStart + 1 /\ driver.next = curr
      /\ accepted = <<>> /\ rx.state \notin {"HDR", "COMMIT"}
  BY <1>1, <1>2 DEF Stopped, Bounded, Placed
<1>5. bnry' = Before(driver'.next)
  BY <1>1, <1>3, <1>4, RingBounds DEF Before
<1>6. Chained'
  BY <1>1, <1>3, <1>4 DEF Chained
<1>7. Writing'
  <2> SUFFICES ASSUME Receiving PROVE Writing'
    BY <1>3 DEF Writing, Receiving
  <2>1. rx.state = "DATA" /\ rx.start = curr /\ rx.parts < Size
    BY <1>4 DEF Receiving, StartUp, OldFrame, RxIs
  <2>2. Ahead(curr, rx.page) = rx.parts - 1 /\ Holds(curr, rx.parts, arrived)
    BY <1>2, <2>1, RxFields, SizeIsNat DEF Drafting
  <2>3. Ahead(driver'.next, curr) + rx.parts < Size
    <3>1. Ahead(curr, curr) = 0
      BY AheadSelf DEF Types
    <3> QED
      BY <1>1, <1>4, <2>1, <3>1, RxFields
  <2> QED
    BY <1>1, <1>3, <2>1, <2>2, <2>3 DEF Writing, Holds, Off
<1> QED
  BY <1>1, <1>2, <1>3, <1>4, <1>5, <1>6, <1>7 DEF RingInv, Stopped, Reading, Known,
     Opened, SettingUp, Bounded, Placed, At

LEMMA IdleKeeps ==
  ASSUME RingInv, Send \/ Interrupt \/ Acknowledge \/ ReadCurr PROVE RingInv'
<1> Types /\ Stopped /\ Reading /\ Types'
  BY IdleTypes DEF RingInv
<1>1. UNCHANGED <<bnry, curr, rx, mem, header, remote, arrived, accepted>>
  BY DEF Send, Interrupt, Acknowledge, ReadCurr, regs, buffer, counts
<1>2. /\ driver.at \in {"idle", "acknowledge", "current"}
      /\ driver'.at \in {"idle", "overrun", "acknowledge", "current", "loop"}
      /\ driver'.next = driver.next /\ driver'.got = driver.got
      /\ driver'.at = "loop" => driver'.last = curr
  <2>1. CASE Send
    BY <2>1 DEF Send, At
  <2>2. CASE Interrupt
    BY <2>2, GoToFields DEF Interrupt, At
  <2>3. CASE Acknowledge
    BY <2>3, GoToFields DEF Acknowledge, At
  <2>4. CASE ReadCurr
    BY <2>4 DEF ReadCurr, At, Types, DriverType
  <2> QED
    BY <2>1, <2>2, <2>3, <2>4
<1>3. driver.got = <<>> /\ Opened
  BY <1>2 DEF Reading, At, Opened, SettingUp
<1>4. bnry' = Before(driver'.next) /\ Chained' /\ Writing'
  BY <1>1, <1>2, <1>3, RingKept
<1>5. Known'
  BY <1>1, <1>2 DEF Known, Points, At
<1> QED
  BY <1>2, <1>3, <1>4, <1>5 DEF RingInv, Stopped, Reading, Opened, SettingUp,
     Bounded, Placed, At

LEMMA RecoveryKeeps == ASSUME RingInv, RecoveryStep PROVE RingInv'
<1> Types /\ Stopped /\ Reading /\ Types'
  BY RecoveryTypes DEF RingInv
<1>1. UNCHANGED <<bnry, curr, rx, mem, header, remote, arrived, accepted>>
  BY DEF RecoveryStep, Stops, Starts, SavesCurr, LoopEnds, regs, buffer, counts
<1>2. /\ driver.at \in {"overrun", "stopped", "restarted", "stopped_again", "loop"}
      /\ driver'.at \in {"stopped", "restarted", "stopped_again", "saved", "idle"}
      /\ driver'.at \in {"stopped", "stopped_again", "saved"} => ~running'
      /\ driver'.next = driver.next /\ driver'.got = driver.got
      /\ driver'.at = "saved" => driver'.last = curr
  <2>1. CASE Stops("overrun", "stopped") \/ Stops("restarted", "stopped_again")
    BY <2>1, GoToFields DEF Stops, At
  <2>2. CASE Starts("stopped", "restarted")
    BY <2>2, GoToFields DEF Starts, At
  <2>3. CASE SavesCurr
    BY <2>3 DEF SavesCurr, At, Types, DriverType, Stopped, regs
  <2>4. CASE LoopEnds
    BY <2>4 DEF LoopEnds, At, Types, DriverType
  <2> QED
    BY <2>1, <2>2, <2>3, <2>4 DEF RecoveryStep
<1>3. driver.got = <<>> /\ Opened
  BY <1>2 DEF Reading, At, Opened, SettingUp
<1>4. bnry' = Before(driver'.next) /\ Chained' /\ Writing'
  BY <1>1, <1>2, <1>3, RingKept
<1>5. Known'
  BY <1>1, <1>2 DEF Known, Points, At
<1> QED
  BY <1>2, <1>3, <1>4, <1>5 DEF RingInv, Stopped, Reading, Opened, SettingUp,
     Bounded, Placed, At

(* CURR is a page of the ring behind the driver's, so a frame is there.    *)
LEMMA ReadHeaderKeeps == ASSUME RingInv, ReadHeader PROVE RingInv'
<1> Types /\ Stopped /\ Reading /\ Types'
  BY ReadHeaderTypes DEF RingInv
<1>1. driver.at = "loop" /\ Opened /\ Chained /\ Known /\ driver.next # driver.last
  BY DEF ReadHeader, At, Opened, SettingUp, RingInv
<1>2. accepted # <<>>
  <2> SUFFICES ASSUME accepted = <<>> PROVE FALSE
    OBVIOUS
  <2>1. driver.next = curr
    BY <1>1 DEF Chained
  <2>2. driver.last \in Points
    BY <1>1 DEF Known, At
  <2>3. Points = {curr}
    BY DEF Points
  <2> QED
    BY <1>1, <2>1, <2>2, <2>3
<1>3. /\ header[driver.next] = [next |-> Follow(1), pages |-> accepted[1].pages]
      /\ Follow(1) \in Ring /\ accepted[1].pages \in 1 .. Size
  BY <1>1, <1>2, FirstFrame, AcceptedTypes
<1>4. /\ remote' = [page |-> driver.next, left |-> accepted[1].pages]
      /\ GoTo("read")
      /\ UNCHANGED <<bnry, curr, rx, mem, header, arrived, accepted>>
  BY <1>3 DEF ReadHeader, buffer, counts
<1>5. /\ driver'.at = "read" /\ driver'.next = driver.next
      /\ driver'.last = driver.last /\ driver'.got = <<>>
  BY <1>1, <1>4, GoToFields DEF Reading, At
<1>6. bnry' = Before(driver'.next) /\ Chained' /\ Writing'
  BY <1>1, <1>4, <1>5, RingKept
<1>7. Stopped' /\ Known'
  BY <1>1, <1>4, <1>5 DEF Stopped, Known, Points, Opened, SettingUp, Bounded, Placed, At
<1>8. Reading'
  <2>1. Ahead(driver.next, driver.next) = 0
    BY DriverFields, AheadSelf
  <2>2. Len(driver'.got) = 0 /\ remote'.left = accepted[1].pages
        /\ remote'.page = driver.next
    BY <1>4, <1>5
  <2>3. remote'.left + Len(driver'.got) = accepted[1].pages
    BY <1>3, <2>2
  <2> QED
    BY <1>2, <1>4, <1>5, <2>1, <2>2, <2>3 DEF Reading, At, Off
<1> QED
  BY <1>5, <1>6, <1>7, <1>8 DEF RingInv, Opened, SettingUp

(* The page that is read is the next part of the first frame.              *)
LEMMA ReadPageKeeps == ASSUME RingInv, ReadPage PROVE RingInv'
<1> Types /\ Stopped /\ Reading /\ Types'
  BY ReadPageTypes DEF RingInv
<1>1. driver.at = "read" /\ Opened /\ Chained /\ Writing /\ Known /\ accepted # <<>>
  BY AtReading DEF ReadPage, At
<1>2. UNCHANGED <<running, bnry, curr, rx, mem, header, arrived, accepted>>
  BY DEF ReadPage, regs, buffer, counts
<1> PICK len \in Nat : len = Len(driver.got)
  BY DriverFields, LenProperties
<1> PICK P : P = accepted[1].pages
  OBVIOUS
<1>3. /\ remote.left > 0 /\ remote.left + len = P /\ Off(remote.page) = len
      /\ \A i \in 1 .. len : driver.got[i] = [n |-> accepted[1].n, part |-> i]
  BY <1>1 DEF ReadPage, Reading, At
<1>4. /\ Holds(driver.next, P, accepted[1].n) /\ P \in 1 .. Size
      /\ P <= Off(curr) /\ Off(curr) \in 0 .. Size - 1
  <2>1. /\ Holds(driver.next, P, accepted[1].n) /\ 1 \in 1 .. Len(accepted)
        /\ accepted[1].start = driver.next
    BY <1>1, FirstFrame
  <2>2. P \in 1 .. Size /\ End(1) <= Off(curr) /\ End(1) = Off(driver.next) + P
    BY <1>1, <2>1, AcceptedTypes DEF Chained, End
  <2>3. Off(driver.next) = 0
    BY DriverFields, AheadSelf DEF Off
  <2> QED
    BY <2>1, <2>2, <2>3, DriverFields, RingBounds
<1>5. /\ remote.page \in Ring /\ remote.left \in 0 .. Size
      /\ driver.next \in Ring
  BY DriverFields DEF Types
<1>6. mem[remote.page] = [n |-> accepted[1].n, part |-> len + 1]
  <2>1. Ahead(driver.next, remote.page) = len /\ len < P
    BY <1>3, <1>4, <1>5 DEF Off
  <2> QED
    BY <1>4, <1>5, <2>1 DEF Holds
<1>7. driver' = [driver EXCEPT !.got = Append(@, mem[remote.page])]
  BY <1>5 DEF ReadPage
<1>8. /\ driver'.at = "read" /\ driver'.next = driver.next
      /\ driver'.last = driver.last
      /\ driver'.got = Append(driver.got, mem[remote.page])
  BY <1>1, <1>7 DEF Types, DriverType
<1>9. /\ Len(driver'.got) = len + 1
      /\ \A i \in 1 .. len + 1 :
           driver'.got[i] = [n |-> accepted[1].n, part |-> i]
  <2>1. mem[remote.page] \in Page
    BY <1>5 DEF Types
  <2>2. /\ Len(driver'.got) = len + 1 /\ driver'.got[len + 1] = mem[remote.page]
        /\ \A i \in 1 .. len : driver'.got[i] = driver.got[i]
    BY <1>8, <2>1, DriverFields, AppendProperties
  <2>3. \A i \in 1 .. len + 1 : i = len + 1 \/ i \in 1 .. len
    OBVIOUS
  <2> QED
    BY <1>3, <1>6, <2>2, <2>3
<1>10. remote'.left + (len + 1) = P
       /\ (remote'.left > 0 => Ahead(driver.next, remote'.page) = len + 1)
  <2>1. CASE remote.left = 1
    BY <1>3, <2>1 DEF ReadPage, NextByte, NoDma
  <2>2. CASE remote.left # 1
    <3>1. remote' = [page |-> page_inc(remote.page), left |-> remote.left - 1]
      BY <2>2 DEF ReadPage, NextByte
    <3>2. len < Size - 1
      <4>1. remote.left \in Nat /\ P \in Nat
        BY <1>4, <1>5, SizeIsNat
      <4>2. len < P /\ P <= Size - 1
        BY <1>3, <1>4, <4>1, SizeIsNat
      <4> QED
        BY <1>3, <2>2, <4>1, <4>2, SizeIsNat
    <3>3. Ahead(driver.next, page_inc(remote.page)) = len + 1
      BY <1>3, <1>5, <3>2, AheadNext DEF Off
    <3> QED
      BY <1>3, <1>5, <3>1, <3>3
  <2> QED
    BY <2>1, <2>2
<1>11. Reading'
  BY <1>1, <1>2, <1>8, <1>9, <1>10 DEF Reading, At, Off
<1>12. bnry' = Before(driver'.next) /\ Chained' /\ Writing'
  BY <1>1, <1>2, <1>8, RingKept
<1>13. Stopped' /\ Known'
  BY <1>1, <1>2, <1>8 DEF Stopped, Known, Points, Opened, SettingUp, Bounded, Placed, At
<1> QED
  BY <1>8, <1>11, <1>12, <1>13 DEF RingInv, Opened, SettingUp

(* The first frame leaves the ring: what is behind it comes nearer by its  *)
(* pages.                                                                  *)
LEMMA FreePagesKeeps == ASSUME RingInv, FreePages PROVE RingInv'
<1> Types /\ Stopped /\ Reading /\ Types'
  BY FreePagesTypes DEF RingInv
<1>1. driver.at = "read" /\ Opened /\ Chained /\ Writing /\ Known /\ accepted # <<>>
  BY AtReading DEF FreePages, At
<1> PICK n \in Nat : n = Len(accepted)
  BY AcceptedTypes
<1> PICK d \in Ring : d = driver.next
  BY DriverFields
<1> PICK P : P = accepted[1].pages
  OBVIOUS
<1> PICK f : f = Follow(1)
  OBVIOUS
<1>2. /\ n >= 1 /\ 1 \in 1 .. n /\ accepted[1].start = d
      /\ header[d] = [next |-> f, pages |-> P] /\ Off(f) = P
      /\ P \in 1 .. Size /\ f \in Ring
  BY <1>1, FirstFrame, AcceptedTypes
<1>3. Off(d) = 0 /\ Off(curr) \in 0 .. Size - 1 /\ curr \in Ring
  BY AheadSelf, DriverFields DEF Off, Types
<1>4. End(1) = P /\ P <= Off(curr)
  <2>1. End(1) = Off(f) /\ End(1) <= Off(curr)
    BY <1>1, <1>2 DEF Chained
  <2> QED
    BY <1>2, <2>1
<1>5. /\ UNCHANGED <<running, curr, rx, remote, arrived>>
      /\ bnry' = Before(f) /\ accepted' = Tail(accepted)
      /\ header' = [header EXCEPT ![d] = NoHeader] /\ Gone(Span(d, P))
  BY <1>2 DEF FreePages
<1>6. /\ driver'.at = "loop" /\ driver'.next = f
      /\ driver'.last = driver.last /\ driver'.got = <<>>
  BY <1>2 DEF FreePages, Types, DriverType
<1>7. /\ Len(accepted') = n - 1
      /\ \A i \in 1 .. n - 1 : accepted'[i] = accepted[i + 1] /\ i + 1 \in 1 .. n
  BY <1>1, <1>5, HeadTailProperties DEF Types
(* Pages from P on: nearer by P, and untouched.                            *)
<1>8. ASSUME NEW p \in Ring, P <= Off(p)
      PROVE  /\ Ahead(f, p) = Off(p) - P
             /\ header'[p] = header[p] /\ mem'[p] = mem[p]
  <2>1. Ahead(f, p) = Off(p) - P
    BY <1>2, <1>8, AheadFrom DEF Off
  <2>2. Off(p) \in 0 .. Size - 1
    BY AheadRange DEF Off
  <2>3. p # d /\ p \notin Span(d, P)
    BY <1>2, <1>3, <1>8, <2>2 DEF Span, Off
  <2> QED
    BY <1>5, <2>1, <2>3 DEF Gone, Types
<1>9. Off(curr)' = Off(curr) - P /\ Ahead(f, curr) = Off(curr) - P
  BY <1>3, <1>4, <1>5, <1>6, <1>8 DEF Off
<1>10. ASSUME NEW i \in 1 .. n - 1
       PROVE  /\ accepted[i + 1].start \in Ring /\ accepted[i + 1].pages \in 1 .. Size
              /\ P <= Off(accepted[i + 1].start)
              /\ Off(accepted[i + 1].start) \in 0 .. Size - 1
              /\ End(i + 1) = Off(accepted[i + 1].start) + accepted[i + 1].pages
              /\ End(i + 1) = Off(Follow(i + 1)) /\ Follow(i + 1) \in Ring
              /\ End(i + 1) <= Off(curr)
  <2>1. i + 1 \in 1 .. n /\ 1 < i + 1
    BY <1>7
  <2>2. End(1) <= Off(accepted[i + 1].start)
    BY <1>1, <1>2, <2>1 DEF Chained
  <2>3. End(i + 1) = Off(Follow(i + 1)) /\ End(i + 1) <= Off(curr)
    BY <1>1, <2>1 DEF Chained
  <2> QED
    BY <1>1, <1>4, <2>1, <2>2, <2>3, FrameStarts, AcceptedTypes
<1>11. ASSUME NEW i \in 1 .. n - 1
       PROVE  /\ Ahead(f, accepted'[i].start) = Off(accepted[i + 1].start) - P
              /\ End(i)' = End(i + 1) - P
              /\ Follow(i)' = Follow(i + 1)
              /\ Ahead(f, Follow(i)') = End(i + 1) - P
  <2>1. Ahead(f, accepted[i + 1].start) = Off(accepted[i + 1].start) - P
    BY <1>8, <1>10
  <2>2. Ahead(f, accepted'[i].start) = Off(accepted[i + 1].start) - P
    BY <1>7, <2>1
  <2>3. End(i)' = Ahead(f, accepted'[i].start) + accepted'[i].pages
    BY <1>6 DEF End, Off
  <2>4. End(i)' = End(i + 1) - P
    <3>1. accepted'[i].pages = accepted[i + 1].pages
      BY <1>7
    <3>2. P \in Int /\ accepted[i + 1].pages \in Int
          /\ Off(accepted[i + 1].start) \in Int
      BY <1>2, <1>10
    <3>3. End(i + 1) = Off(accepted[i + 1].start) + accepted[i + 1].pages
      BY <1>10
    <3>4. End(i)' = (Off(accepted[i + 1].start) - P) + accepted[i + 1].pages
      BY <2>2, <2>3, <3>1
    <3> QED
      BY <3>2, <3>3, <3>4
  <2>5. Follow(i)' = Follow(i + 1)
    <3>1. CASE i = n - 1
      BY <1>5, <1>7, <3>1 DEF Follow
    <3>2. CASE i # n - 1
      <4>1. i + 1 \in 1 .. n - 1 /\ accepted'[i + 1] = accepted[(i + 1) + 1]
        BY <1>7, <3>2
      <4> QED
        BY <1>7, <3>2, <4>1 DEF Follow
    <3> QED
      BY <3>1, <3>2
  <2>6. P <= Off(Follow(i + 1))
    BY <1>2, <1>10
  <2>7. Ahead(f, Follow(i + 1)) = Off(Follow(i + 1)) - P
    BY <1>8, <1>10, <2>6
  <2> QED
    BY <1>10, <2>2, <2>4, <2>5, <2>7
<1>12. Chained'
  <2>1. driver'.next = IF accepted' = <<>> THEN curr' ELSE accepted'[1].start
    <3>1. CASE n = 1
      <4>1. f = curr /\ accepted' = <<>>
        BY <1>7, <3>1, EmptySeq DEF Follow, Types
      <4> QED
        BY <1>5, <1>6, <4>1
    <3>2. CASE n # 1
      <4>1. 1 \in 1 .. n - 1 /\ accepted'[1] = accepted[2] /\ f = accepted[2].start
        BY <1>2, <1>7, <3>2 DEF Follow
      <4>2. accepted' # <<>>
        BY <1>7, <4>1
      <4> QED
        BY <1>6, <4>1, <4>2
    <3> QED
      BY <3>1, <3>2
  <2>2. ASSUME NEW i \in 1 .. n - 1
        PROVE  /\ End(i)' = Ahead(driver'.next, Follow(i)')
               /\ End(i)' <= Off(curr)'
               /\ header'[accepted'[i].start] =
                    [next |-> Follow(i)', pages |-> accepted'[i].pages]
    <3>1. header[accepted[i + 1].start] =
            [next |-> Follow(i + 1), pages |-> accepted[i + 1].pages]
      BY <1>1, <1>7 DEF Chained
    <3>2. header'[accepted[i + 1].start] = header[accepted[i + 1].start]
      BY <1>8, <1>10
    <3>3. End(i)' <= Off(curr)'
      <4>1. End(i)' = End(i + 1) - P /\ Off(curr)' = Off(curr) - P
        BY <1>9, <1>11
      <4>2. /\ End(i + 1) <= Off(curr) /\ P \in Int /\ Off(curr) \in Int
            /\ End(i + 1) \in Int
        BY <1>2, <1>3, <1>10
      <4> QED
        BY <4>1, <4>2
    <3> QED
      BY <1>6, <1>7, <1>11, <3>1, <3>2, <3>3
  <2>3. ASSUME NEW i \in 1 .. n - 1, NEW q \in Ring,
               Ahead(accepted'[i].start, q) < accepted'[i].pages
        PROVE  mem'[q] = [n |-> accepted'[i].n,
                          part |-> Ahead(accepted'[i].start, q) + 1]
    <3>1. accepted'[i] = accepted[i + 1] /\ i + 1 \in 1 .. n
      BY <1>7
    <3>2. Ahead(accepted[i + 1].start, q) < accepted[i + 1].pages
      BY <2>3, <3>1
    <3>3. Off(q) = Off(accepted[i + 1].start) + Ahead(accepted[i + 1].start, q)
      BY <1>1, <3>1, <3>2, FramePages
    <3>4. Ahead(accepted[i + 1].start, q) \in 0 .. Size - 1
      BY <1>10, AheadRange
    <3>5. P <= Off(q)
      BY <1>2, <1>10, <3>3, <3>4
    <3>6. mem[q] = [n |-> accepted[i + 1].n,
                    part |-> Ahead(accepted[i + 1].start, q) + 1]
      BY <1>1, <3>1, <3>2 DEF Chained, Holds
    <3> QED
      BY <1>8, <3>1, <3>5, <3>6
  <2>4. ASSUME NEW i \in 1 .. n - 1, NEW j \in 1 .. n - 1, i < j
        PROVE  End(i)' <= Ahead(driver'.next, accepted'[j].start)
    <3>1. i + 1 < j + 1 /\ i + 1 \in 1 .. n /\ j + 1 \in 1 .. n
      BY <1>7, <2>4
    <3>2. End(i + 1) <= Off(accepted[j + 1].start)
      BY <1>1, <3>1 DEF Chained
    <3> QED
      BY <1>2, <1>6, <1>10, <1>11, <3>2
  <2> QED
    BY <1>7, <2>1, <2>2, <2>3, <2>4 DEF Chained, Off, Holds
<1>13. Writing'
  <2> SUFFICES ASSUME Receiving PROVE Writing'
    BY <1>5 DEF Writing, Receiving
  <2>1. /\ rx.start = curr /\ Ahead(curr, rx.page) = rx.parts - 1
        /\ Off(curr) + rx.parts < Size
        /\ Holds(curr, rx.parts, arrived)
        /\ rx.state # "DATA" => rx.next = page_inc(rx.page)
        /\ rx.state = "COMMIT" => header[curr] = [next |-> rx.next, pages |-> rx.parts]
    BY <1>1 DEF Writing
  <2>2. Off(curr)' + rx.parts < Size
    <3>1. rx.parts \in Int /\ P \in Int /\ P >= 1 /\ Off(curr) \in Int
      BY <1>2, <1>3, RxFields, SizeIsNat
    <3> QED
      BY <1>9, <2>1, <3>1, SizeIsNat
  <2>3. header'[curr] = header[curr]
    BY <1>3, <1>4, <1>8
  <2>4. ASSUME NEW q \in Ring, Ahead(curr, q) < rx.parts PROVE mem'[q] = mem[q]
    <3>1. Off(q) = Off(curr) + Ahead(curr, q) /\ Ahead(curr, q) \in 0 .. Size - 1
      BY <1>1, <1>3, <2>4, WrittenPages, AheadRange
    <3>2. P <= Off(q)
      BY <1>2, <1>3, <1>4, <3>1
    <3> QED
      BY <1>8, <3>2
  <2> QED
    BY <1>5, <2>1, <2>2, <2>3, <2>4 DEF Writing, Holds
<1>14. driver.last \in Points'
  <2>1. driver.last \in Points /\ driver.last # d
    BY <1>1 DEF Known, At
  <2>2. DOMAIN accepted = 1 .. n /\ DOMAIN accepted' = 1 .. n - 1
    BY <1>7, LenProperties DEF Types
  <2>3. CASE driver.last = curr
    BY <1>5, <2>3 DEF Points
  <2>4. CASE \E i \in 1 .. n : driver.last = accepted[i].start
    <3>1. PICK i \in 1 .. n : driver.last = accepted[i].start
      BY <2>4
    <3>2. i # 1
      BY <1>2, <2>1, <3>1
    <3>3. i - 1 \in 1 .. n - 1 /\ (i - 1) + 1 = i
      BY <3>2
    <3>4. accepted'[i - 1] = accepted[i]
      BY <1>7, <3>3
    <3> QED
      BY <2>2, <3>1, <3>3, <3>4 DEF Points
  <2> QED
    BY <2>1, <2>2, <2>3, <2>4 DEF Points
<1>15. Stopped' /\ Known' /\ Reading'
  BY <1>1, <1>6, <1>14 DEF Stopped, Known, Reading, Opened, SettingUp, Bounded,
     Placed, At
<1> QED
  BY <1>5, <1>6, <1>12, <1>13, <1>15 DEF RingInv, Opened, SettingUp

(* CURR moves back: the newest frame, if it came after CURR was read, is   *)
(* forgotten, and its pages are free again.                                *)
LEMMA RestoresCurrKeeps == ASSUME RingInv, RestoresCurr PROVE RingInv'
<1> Types /\ Stopped /\ Reading /\ Types'
  BY RestoresCurrTypes DEF RingInv
<1>1. /\ driver.at = "saved" /\ At("saved") /\ Opened /\ Chained /\ Writing /\ Known
      /\ bnry = Before(driver.next)
  BY KeptFrames DEF RestoresCurr, At, RingInv
<1>2. /\ UNCHANGED <<running, bnry, rx, mem, header, remote, arrived>>
      /\ curr' = driver.last /\ accepted' = KeptBefore(driver.last)
  BY DEF RestoresCurr, buffer
<1>3. /\ driver'.at = "loop" /\ driver'.next = driver.next
      /\ driver'.last = driver.last /\ driver'.got = driver.got /\ driver.got = <<>>
  BY <1>1, GoToFields DEF RestoresCurr, Reading, At
<1>4. Stopped' /\ Opened' /\ Known' /\ Reading'
  BY <1>1, <1>2, <1>3 DEF Stopped, Known, Reading, Points, Opened, SettingUp, Bounded,
     Placed, At
<1>5. CASE driver.last = curr
  <2>1. UNCHANGED <<curr, accepted>>
    BY <1>1, <1>2, <1>5, KeptFrames
  <2>2. bnry' = Before(driver'.next) /\ Chained' /\ Writing'
    BY <1>1, <1>2, <1>3, <2>1, RingKept
  <2> QED
    BY <1>4, <2>2 DEF RingInv
<1>6. CASE driver.last # curr
  <2> PICK n \in Nat : n = Len(accepted)
    BY AcceptedTypes
  <2>1. /\ accepted # <<>> /\ curr' = accepted[n].start
        /\ accepted' = SubSeq(accepted, 1, n - 1)
    BY <1>1, <1>2, <1>6, KeptFrames
  <2>2. n >= 1 /\ n \in 1 .. n
    BY <1>1, <2>1, FirstFrame
  <2>3. /\ Len(accepted') = n - 1
        /\ \A i \in 1 .. n - 1 : accepted'[i] = accepted[i] /\ i \in 1 .. n
    <3>1. \A i \in 1 .. n - 1 : accepted[i] \in FrameIn
      BY AcceptedTypes
    <3>2. /\ Len(accepted') = IF 1 <= n - 1 THEN (n - 1) - 1 + 1 ELSE 0
          /\ \A i \in 1 .. (n - 1) - 1 + 1 : accepted'[i] = accepted[1 + i - 1]
      BY <2>1, <3>1, SubSeqProperties
    <3> QED
      BY <2>2, <3>2
  <2>4. Writing'
    BY <1>1, <1>2, <1>6 DEF Writing, Known, Receiving
  <2>5. \A i \in 1 .. n - 1 : Follow(i)' = Follow(i) /\ End(i)' = End(i)
    <3>1. ASSUME NEW i \in 1 .. n - 1 PROVE End(i)' = End(i)
      BY <1>3, <2>3 DEF End, Off
    <3>2. ASSUME NEW i \in 1 .. n - 1 PROVE Follow(i)' = Follow(i)
      <4>1. CASE i = n - 1
        BY <2>1, <2>3, <4>1 DEF Follow
      <4>2. CASE i # n - 1
        <5>1. i + 1 \in 1 .. n - 1
          BY <4>2
        <5> QED
          BY <2>3, <4>2, <5>1 DEF Follow
      <4> QED
        BY <4>1, <4>2
    <3> QED
      BY <3>1, <3>2
  <2>6. Chained'
    <3>1. driver'.next = IF accepted' = <<>> THEN curr' ELSE accepted'[1].start
      <4>1. driver.next = accepted[1].start
        BY <1>1, <2>1 DEF Chained
      <4>2. CASE n = 1
        <5>1. accepted' = <<>>
          BY <2>3, <4>2, EmptySeq DEF Types
        <5> QED
          BY <1>3, <2>1, <4>1, <4>2, <5>1
      <4>3. CASE n # 1
        <5>1. 1 \in 1 .. n - 1 /\ accepted' # <<>>
          BY <2>2, <2>3, <4>3
        <5> QED
          BY <1>3, <2>3, <4>1, <5>1
      <4> QED
        BY <4>2, <4>3
    <3>2. ASSUME NEW i \in 1 .. n - 1
          PROVE  /\ End(i)' = Ahead(driver'.next, Follow(i)')
                 /\ End(i)' <= Ahead(driver'.next, curr')
                 /\ header'[accepted'[i].start] =
                      [next |-> Follow(i)', pages |-> accepted'[i].pages]
      <4>1. /\ End(i) = Off(Follow(i))
            /\ header[accepted[i].start] =
                 [next |-> Follow(i), pages |-> accepted[i].pages]
        BY <1>1, <2>3 DEF Chained
      <4>2. End(i) <= Off(accepted[n].start)
        BY <1>1, <2>2, <2>3 DEF Chained
      <4> QED
        BY <1>2, <1>3, <2>1, <2>3, <2>5, <4>1, <4>2 DEF Off
    <3>3. ASSUME NEW i \in 1 .. n - 1, NEW q \in Ring,
                 Ahead(accepted'[i].start, q) < accepted'[i].pages
          PROVE  mem'[q] = [n |-> accepted'[i].n,
                            part |-> Ahead(accepted'[i].start, q) + 1]
      BY <1>1, <1>2, <2>3, <3>3 DEF Chained, Holds
    <3>4. ASSUME NEW i \in 1 .. n - 1, NEW j \in 1 .. n - 1, i < j
          PROVE  End(i)' <= Ahead(driver'.next, accepted'[j].start)
      <4>1. End(i) <= Off(accepted[j].start)
        BY <1>1, <2>3, <3>4 DEF Chained
      <4> QED
        BY <1>3, <2>3, <2>5, <4>1 DEF Off
    <3> QED
      BY <2>3, <3>1, <3>2, <3>3, <3>4 DEF Chained, Off, Holds
  <2> QED
    BY <1>1, <1>2, <1>3, <1>4, <2>4, <2>6 DEF RingInv
<1> QED
  BY <1>5, <1>6

-----------------------------------------------------------------------------
(* The invariant.                                                          *)
LEMMA RingInit == Init => RingInv
<1> SUFFICES ASSUME Init PROVE RingInv
  OBVIOUS
<1>1. Types
  <2>1. PStart \in Ring /\ 0 \in 0 .. Numbers - 1
    BY Constants, RingBounds
  <2>2. driver \in DriverType
    BY <2>1 DEF Init, Closed, DriverType, Places, SettingUp
  <2>3. mem \in [Ring -> Page] /\ header \in [Ring -> HeaderType]
    BY Constants DEF Init
  <2>4. rx \in RxType /\ remote \in [page : Ring, left : 0 .. Size]
    BY Constants DEF Init
  <2>5. accepted \in Seq(FrameIn)
    BY EmptySeq DEF Init
  <2> QED
    BY <2>1, <2>2, <2>3, <2>4, <2>5 DEF Init, Types
<1>2. ~Opened /\ ~Receiving /\ accepted = <<>> /\ ~running /\ driver.got = <<>>
      /\ driver.at = "closed"
  BY DEF Init, Closed, Opened, SettingUp, At, Rest, Receiving
<1> QED
  BY <1>1, <1>2 DEF RingInv, Stopped, Reading, Drafting, Receiving, At, Opened,
     SettingUp, Bounded, Placed

LEMMA RingStep == RingInv /\ [Next]_vars => RingInv'
<1> SUFFICES ASSUME RingInv, [Next]_vars PROVE RingInv'
  OBVIOUS
<1>1. CASE UNCHANGED vars
  <2>1. UNCHANGED <<running, monitor, bnry, curr, imr, rx_halted, isr, isr_set_rx>>
        /\ UNCHANGED <<rx, mem, header, remote, arrived, accepted, driver>>
    BY <1>1 DEF vars, regs, irqs, buffer, counts
  <2>2. Types'
    BY <2>1 DEF RingInv, Types
  <2>3. Stopped' /\ Reading' /\ Opened' = Opened
    <3>1. Stopped'
      BY <2>1, StoppedKept DEF RingInv, Stopped, Receiving
    <3> QED
      BY <2>1, <3>1, ReadingKept DEF RingInv, Opened
  <2>4. Opened => bnry' = Before(driver'.next) /\ Chained' /\ Writing' /\ Known'
    BY <2>1, <2>2, RingKept, KnownKept DEF RingInv
  <2>5. ~Opened => Drafting'
    BY <2>1, DraftingKept DEF RingInv
  <2> QED
    BY <2>2, <2>3, <2>4, <2>5 DEF RingInv
<1>2. CASE Card
  BY <1>2, SetUpFrames, RxMoreKeeps, RxEndKeeps, RxHeaderKeeps, RxCommitKeeps,
     IsrSetsKeeps DEF Card
<1>3. CASE RxFirst
  BY <1>3, SetUpFrames, RxFirstKeeps
<1>4. CASE Driver
  BY <1>4, SetUpKeeps, StartUpKeeps, IdleKeeps, ReadHeaderKeeps, ReadPageKeeps,
     FreePagesKeeps, RecoveryKeeps, RestoresCurrKeeps
     DEF Driver, SettingUpStep, RecoveryStep
<1>5. CASE Send
  BY <1>5, IdleKeeps
<1>6. CASE Open
  BY <1>6, OpenKeeps
<1> QED
  BY <1>1, <1>2, <1>3, <1>4, <1>5, <1>6 DEF Next

LEMMA RingAlways == Spec => []RingInv
BY RingInit, RingStep, PTL DEF Spec

(* Types of the card and of its driver: the writer stays in the ring, no   *)
(* frame is longer than it and no header leads out of it.                  *)
THEOREM TypeCorrect == Spec => []TypeOK
<1>1. RingInv => TypeOK
  BY TypesNamed DEF RingInv
<1> QED
  BY <1>1, RingAlways, PTL

(* The driver never meets a header that makes no sense, which it would     *)
(* answer with a reset that loses every frame in the ring.                 *)
THEOREM HeadersMakeSense == Spec => []~At("lost")
<1>1. RingInv => ~At("lost")
  BY DEF RingInv, Stopped
<1> QED
  BY <1>1, RingAlways, PTL

-----------------------------------------------------------------------------
(* The ring as a queue of frames.                                          *)
FrameNumber == 0 .. Numbers - 1
Unread == IF Read THEN SubSeq(accepted, 2, Len(accepted)) ELSE accepted

LEMMA FunctionIsSeq ==
  ASSUME NEW S, NEW n \in Nat, NEW f \in [1 .. n -> S]
  PROVE  f \in Seq(S) /\ Len(f) = n
OBVIOUS

UnreadOK ==
  /\ Len(Unread) \in Nat /\ \A i \in 1 .. Len(Unread) : Unread[i] \in FrameIn
  /\ ~Read => Unread = accepted
  /\ Read => /\ accepted # <<>> /\ Unread = Tail(accepted)
             /\ Len(Unread) = Len(accepted) - 1
             /\ \A i \in 1 .. Len(Unread) : Unread[i] = accepted[i + 1]

LEMMA UnreadFrames == RingInv => UnreadOK
<1> SUFFICES ASSUME RingInv PROVE UnreadOK
  OBVIOUS
<1>1. Types /\ Len(accepted) \in Nat /\ accepted \in Seq(FrameIn)
      /\ \A i \in 1 .. Len(accepted) : accepted[i] \in FrameIn
  BY AcceptedTypes DEF RingInv, Types
<1>2. CASE ~Read
  BY <1>1, <1>2 DEF Unread, UnreadOK
<1>3. CASE Read
  <2>1. accepted # <<>>
    BY <1>3, AtReading DEF Read
  <2>2. Unread = Tail(accepted)
    BY <1>1, <1>3, <2>1, TailIsSubSeq DEF Unread
  <2>3. /\ Tail(accepted) \in Seq(FrameIn) /\ Len(Tail(accepted)) = Len(accepted) - 1
        /\ \A i \in 1 .. Len(Tail(accepted)) : Tail(accepted)[i] = accepted[i + 1]
    BY <1>1, <2>1, HeadTailProperties
  <2> QED
    BY <1>3, <2>1, <2>2, <2>3, LenProperties, ElementOfSeq DEF UnreadOK
<1> QED
  BY <1>2, <1>3

LEMMA UnreadFramesNext == RingInv' => UnreadOK'
BY UnreadFrames, PTL

QueueOK ==
  /\ Queue \in Seq(FrameNumber) /\ Len(Queue) = Len(Unread)
  /\ \A i \in 1 .. Len(Unread) : Queue[i] = Unread[i].n
  /\ Len(Unread) \in Nat

LEMMA QueueFrames == RingInv => QueueOK
<1> SUFFICES ASSUME RingInv PROVE QueueOK
  OBVIOUS
<1>1. Len(Unread) \in Nat /\ \A i \in 1 .. Len(Unread) : Unread[i].n \in FrameNumber
  BY UnreadFrames DEF UnreadOK, FrameIn, FrameNumber
<1>2. Queue = [i \in 1 .. Len(Unread) |-> Unread[i].n]
  BY DEF Queue, Unread
<1>3. Queue \in [1 .. Len(Unread) -> FrameNumber]
  BY <1>1, <1>2
<1> QED
  BY <1>1, <1>2, <1>3, FunctionIsSeq DEF QueueOK

LEMMA QueueFramesNext == RingInv' => QueueOK'
BY QueueFrames, PTL

(* What the driver has read is the first frame as it came.                 *)
DeliveredOK == Delivered = IF Read THEN accepted[1].n ELSE None

LEMMA ReadsFirst == RingInv => DeliveredOK
<1> SUFFICES ASSUME RingInv PROVE DeliveredOK
  OBVIOUS
<1>1. CASE Read
  <2>1. At("read") /\ Types /\ Chained /\ accepted # <<>> /\ remote.left = 0
    BY <1>1, AtReading DEF Read
  <2>2. accepted[1].pages \in 1 .. Size
    BY <2>1, FirstFrame, AcceptedTypes
  <2>3. /\ Len(driver.got) = accepted[1].pages
        /\ \A i \in 1 .. Len(driver.got) :
             driver.got[i] = [n |-> accepted[1].n, part |-> i]
    <3>1. Len(driver.got) \in Nat
      BY <2>1, DriverFields, LenProperties
    <3> QED
      BY <2>1, <3>1 DEF RingInv, Reading
  <2>4. 1 \in 1 .. Len(driver.got) /\ driver.got # <<>>
    BY <2>2, <2>3
  <2>5. driver.got[1].n = accepted[1].n
    <3>1. driver.got[1] = [n |-> accepted[1].n, part |-> 1]
      BY <2>3, <2>4
    <3> QED
      BY <3>1
  <2>6. NumberOf(driver.got) = driver.got[1].n
    BY <2>3, <2>4, <2>5 DEF NumberOf
  <2> QED
    BY <1>1, <2>5, <2>6 DEF Delivered, DeliveredOK
<1>2. CASE ~Read
  BY <1>2 DEF Delivered, DeliveredOK
<1> QED
  BY <1>1, <1>2

LEMMA ReadsFirstNext == RingInv' => DeliveredOK'
BY ReadsFirst, PTL

(* Steps that neither accept nor hand over.                                *)
LEMMA QueueKept ==
  ASSUME UNCHANGED accepted, Read' = Read, Read => driver'.got = driver.got
  PROVE  UNCHANGED Queue /\ UNCHANGED Delivered
BY DEF Queue, Delivered

(* A frame is committed: it is accepted.                                   *)
LEMMA CommitAccepts ==
  ASSUME RingInv, RingInv', RxCommit
  PROVE  Accepted!Accept
<1>1. Types /\ UNCHANGED <<driver, remote>> /\ rx.parts \in 1 .. Size
  BY HeaderFits DEF RingInv, RxCommit
<1>2. Read' = Read
  BY <1>1 DEF Read, At
<1> PICK F \in FrameIn : /\ accepted' = Append(accepted, F) /\ F.n = arrived
  <2>1. [start |-> rx.start, pages |-> rx.parts, n |-> arrived] \in FrameIn
    BY <1>1, RxFields DEF FrameIn, Types
  <2> QED
    BY <2>1 DEF RxCommit
<1>3. Unread' = Append(Unread, F)
  <2>1. CASE ~Read
    BY <1>2, <2>1, UnreadFrames DEF Unread, UnreadOK
  <2>2. CASE Read
    <3>1. accepted # <<>> /\ accepted \in Seq(FrameIn) /\ Unread = Tail(accepted)
      BY <1>1, <2>2, UnreadFrames DEF Types, UnreadOK
    <3>2. accepted' # <<>> /\ accepted' \in Seq(FrameIn)
      BY <3>1, AppendProperties
    <3>3. Unread' = Tail(accepted')
      BY <1>2, <2>2, <3>2, TailIsSubSeq DEF Unread
    <3> QED
      BY <3>1, <3>3, HeadTailAppend
  <2> QED
    BY <2>1, <2>2
<1>4. Unread \in Seq(FrameIn)
  <2>1. accepted \in Seq(FrameIn)
    BY <1>1 DEF Types
  <2> QED
    BY <2>1, UnreadFrames, HeadTailProperties DEF UnreadOK
<1> PICK k \in Nat : k = Len(Unread)
  BY QueueFrames DEF QueueOK
<1>5. /\ Len(Unread') = k + 1 /\ Unread'[k + 1] = F
      /\ \A i \in 1 .. k : Unread'[i] = Unread[i]
  BY <1>3, <1>4, AppendProperties
<1>6. arrived \in FrameNumber
  BY <1>1 DEF Types, FrameNumber
<1>7. /\ Queue \in Seq(FrameNumber) /\ Len(Queue) = k
      /\ \A i \in 1 .. k : Queue[i] = Unread[i].n
  BY QueueFrames DEF QueueOK
<1>8. /\ Queue' \in Seq(FrameNumber) /\ Len(Queue') = k + 1
      /\ \A i \in 1 .. k + 1 : Queue'[i] = Unread'[i].n
  BY <1>5, QueueFramesNext DEF QueueOK, FrameNumber
<1>9. Queue' = Append(Queue, arrived)
  <2>1. /\ Append(Queue, arrived) \in Seq(FrameNumber)
        /\ Len(Append(Queue, arrived)) = k + 1
        /\ Append(Queue, arrived)[k + 1] = arrived
        /\ \A i \in 1 .. k : Append(Queue, arrived)[i] = Queue[i]
    BY <1>6, <1>7, AppendProperties
  <2>2. ASSUME NEW i \in 1 .. k + 1 PROVE Queue'[i] = Append(Queue, arrived)[i]
    <3>1. CASE i \in 1 .. k
      BY <1>5, <1>7, <1>8, <2>1, <3>1
    <3>2. CASE i = k + 1
      BY <1>5, <1>8, <2>1, <3>2
    <3>3. i \in 1 .. k \/ i = k + 1
      OBVIOUS
    <3> QED
      BY <3>1, <3>2, <3>3
  <2> QED
    BY <1>8, <2>1, <2>2, SeqEqual
<1>10. Delivered' = Delivered
  BY <1>1, <1>2 DEF Delivered
<1> QED
  BY <1>6, <1>9, <1>10 DEF Accepted!Accept, FrameNumber

(* The last page of a frame is read: it is delivered.                      *)
LEMMA LastPageDelivers ==
  ASSUME RingInv, RingInv', ReadPage, Read'
  PROVE  Accepted!Deliver
<1>1. ~Read /\ UNCHANGED accepted
  BY DEF ReadPage, Read, counts
<1> PICK k \in Nat : k = Len(accepted)
  BY AcceptedTypes DEF RingInv
<1>2. Unread = accepted /\ Delivered = None
  BY <1>1, UnreadFrames, ReadsFirst DEF UnreadOK, DeliveredOK
<1>3. /\ accepted # <<>> /\ Len(Unread') = k - 1 /\ Delivered' = accepted[1].n
      /\ \A i \in 1 .. k - 1 : Unread'[i] = accepted[i + 1]
  BY <1>1, UnreadFramesNext, ReadsFirstNext DEF UnreadOK, DeliveredOK
<1>4. /\ Queue \in Seq(FrameNumber) /\ Len(Queue) = k
      /\ \A i \in 1 .. k : Queue[i] = accepted[i].n
  BY <1>2, QueueFrames DEF QueueOK
<1>5. /\ Queue' \in Seq(FrameNumber) /\ Len(Queue') = k - 1
      /\ \A i \in 1 .. k - 1 : Queue'[i] = accepted[i + 1].n
  BY <1>3, QueueFramesNext DEF QueueOK, FrameNumber
<1>6. k >= 1 /\ Queue # <<>>
  <2>1. k # 0
    BY <1>3, EmptySeq DEF RingInv, Types
  <2> QED
    BY <1>4, <2>1
<1>7. Head(Queue) = accepted[1].n
  BY <1>4, <1>6
<1>8. Queue' = Tail(Queue)
  <2>1. /\ Tail(Queue) \in Seq(FrameNumber) /\ Len(Tail(Queue)) = k - 1
        /\ \A i \in 1 .. k - 1 : Tail(Queue)[i] = Queue[i + 1]
    BY <1>4, <1>6, HeadTailProperties
  <2>2. \A i \in 1 .. k - 1 : i + 1 \in 1 .. k
    OBVIOUS
  <2>3. \A i \in 1 .. k - 1 : Queue'[i] = Tail(Queue)[i]
    BY <1>4, <1>5, <2>1, <2>2
  <2> QED
    BY <1>5, <2>1, <2>3, SeqEqual
<1> QED
  BY <1>2, <1>3, <1>6, <1>7, <1>8 DEF Accepted!Deliver

(* The pages are given back: the frame is taken.                           *)
LEMMA FreePagesTakes ==
  ASSUME RingInv, RingInv', FreePages
  PROVE  Accepted!Taken
<1>1. Read /\ ~Read' /\ accepted' = Tail(accepted)
  BY DEF FreePages, Read, At, RingInv, Types, DriverType
<1>2. Unread' = Unread
  BY <1>1, UnreadFrames, UnreadFramesNext DEF UnreadOK
<1>3. Queue' = Queue
  BY <1>2 DEF Queue, Unread
<1>4. Delivered' = None
  BY <1>1 DEF Delivered
<1> QED
  BY <1>3, <1>4 DEF Accepted!Taken

(* CURR is written back: the newest frame is forgotten.                    *)
LEMMA RestoresForgets ==
  ASSUME RingInv, RingInv', RestoresCurr
  PROVE  Accepted!Forget
<1>1. At("saved") /\ ~Read /\ ~Read' /\ accepted' = KeptBefore(driver.last)
  BY GoToFields DEF RestoresCurr, Read, At, RingInv
<1> PICK k \in Nat : k = Len(accepted)
  BY AcceptedTypes DEF RingInv
<1>2. /\ Unread = accepted /\ Unread' = accepted'
      /\ Delivered = None /\ Delivered' = None
  BY <1>1, UnreadFrames, UnreadFramesNext DEF UnreadOK, Delivered
<1>3. /\ Queue \in Seq(FrameNumber) /\ Len(Queue) = k
      /\ \A i \in 1 .. k : Queue[i] = accepted[i].n
  BY <1>2, QueueFrames DEF QueueOK
<1>4. CASE driver.last = curr
  <2>1. accepted' = accepted
    BY <1>1, <1>4, KeptFrames
  <2>2. Queue' = Queue
    BY <1>2, <2>1 DEF Queue, Unread
  <2>3. Queue' = SubSeq(Queue, 1, k)
    BY <1>3, <2>2, SubSeqFull
  <2> QED
    BY <1>2, <1>3, <2>3 DEF Accepted!Forget
<1>5. CASE driver.last # curr
  <2>1. accepted # <<>> /\ accepted' = SubSeq(accepted, 1, k - 1)
    BY <1>1, <1>5, KeptFrames
  <2>2. k >= 1
    BY <2>1, EmptySeq DEF RingInv, Types
  <2>3. /\ Len(accepted') = k - 1
        /\ \A i \in 1 .. k - 1 : accepted'[i] = accepted[i] /\ i \in 1 .. k
    <3>1. \A i \in 1 .. k - 1 : accepted[i] \in FrameIn
      BY AcceptedTypes DEF RingInv
    <3>2. /\ Len(accepted') = IF 1 <= k - 1 THEN (k - 1) - 1 + 1 ELSE 0
          /\ \A i \in 1 .. (k - 1) - 1 + 1 : accepted'[i] = accepted[1 + i - 1]
      BY <2>1, <3>1, SubSeqProperties
    <3> QED
      BY <2>2, <3>2
  <2>4. /\ Queue' \in Seq(FrameNumber) /\ Len(Queue') = k - 1
        /\ \A i \in 1 .. k - 1 : Queue'[i] = accepted[i].n
    BY <1>2, <2>3, QueueFramesNext DEF QueueOK, FrameNumber
  <2>5. /\ SubSeq(Queue, 1, k - 1) \in Seq(FrameNumber)
        /\ Len(SubSeq(Queue, 1, k - 1)) = k - 1
        /\ \A i \in 1 .. k - 1 : SubSeq(Queue, 1, k - 1)[i] = Queue[i]
    <3>1. \A i \in 1 .. k - 1 : Queue[i] \in FrameNumber
      BY <1>3, ElementOfSeq
    <3>2. /\ SubSeq(Queue, 1, k - 1) \in Seq(FrameNumber)
          /\ Len(SubSeq(Queue, 1, k - 1)) = IF 1 <= k - 1 THEN (k - 1) - 1 + 1 ELSE 0
          /\ \A i \in 1 .. (k - 1) - 1 + 1 :
               SubSeq(Queue, 1, k - 1)[i] = Queue[1 + i - 1]
      BY <3>1, SubSeqProperties
    <3> QED
      BY <2>2, <3>2
  <2>6. Queue' = SubSeq(Queue, 1, k - 1)
    <3>1. \A i \in 1 .. k - 1 : Queue'[i] = SubSeq(Queue, 1, k - 1)[i]
      BY <1>3, <2>3, <2>4, <2>5
    <3> QED
      BY <2>4, <2>5, <3>1, SeqEqual
  <2>7. k - 1 \in 0 .. Len(Queue)
    BY <1>3, <2>2
  <2> QED
    BY <1>2, <2>6, <2>7 DEF Accepted!Forget
<1> QED
  BY <1>4, <1>5

(* The reset port forgets all.                                             *)
LEMMA OpenForgets ==
  ASSUME RingInv, RingInv', Open
  PROVE  Accepted!Forget
<1>1. ~Read' /\ accepted' = <<>>
  BY DEF Open, Closed, Read, At
<1>2. Queue' \in Seq(FrameNumber) /\ Len(Queue') = 0 /\ Delivered' = None
  BY <1>1, QueueFramesNext, UnreadFramesNext DEF QueueOK, UnreadOK, FrameNumber, Delivered
<1>3. Queue' = <<>>
  BY <1>2, EmptySeq
<1>4. Queue' = SubSeq(Queue, 1, 0) /\ 0 \in 0 .. Len(Queue)
  BY <1>3, SubSeqEmpty, QueueFrames DEF QueueOK
<1> QED
  BY <1>2, <1>4 DEF Accepted!Forget

(* Every other step is none of the queue.                                  *)
LEMMA OthersKeepQueue ==
  ASSUME RingInv,
         \/ UNCHANGED vars
         \/ RxFirst \/ RxMore \/ RxEnd \/ RxHeader \/ IsrSets
         \/ SettingUpStep \/ RecoveryStep
         \/ StartUp \/ Send \/ Interrupt \/ Acknowledge \/ ReadCurr
         \/ ReadHeader \/ (ReadPage /\ ~Read')
  PROVE  UNCHANGED Queue /\ UNCHANGED Delivered
<1> Types
  BY DEF RingInv
<1>1. CASE UNCHANGED <<driver, remote, accepted>>
  <2>1. Read' = Read
    BY <1>1 DEF Read, At
  <2> QED
    BY <1>1, <2>1, QueueKept
<1>2. CASE /\ UNCHANGED accepted /\ ~Read /\ ~Read'
  BY <1>2 DEF Queue, Delivered
<1>3. CASE \/ SettingUpStep \/ RecoveryStep \/ StartUp
           \/ Interrupt \/ Acknowledge \/ ReadCurr
  <2>1. UNCHANGED accepted
    BY <1>3 DEF SettingUpStep, RecoveryStep, SetUp, SetsBoundary, ClearsAll, SetsCurr,
       StartUp, Interrupt, Acknowledge, ReadCurr, LoopEnds, Stops, Starts, SavesCurr,
       counts
  <2>2. driver.at # "read"
    <3>1. \E place \in SettingUp \cup
                         {"idle", "acknowledge", "current", "loop", "overrun",
                          "stopped", "restarted", "stopped_again"} : At(place)
      BY <1>3 DEF SettingUpStep, RecoveryStep, SetUp, SetsBoundary, ClearsAll, SetsCurr,
         StartUp, Interrupt, Acknowledge, ReadCurr, LoopEnds, Stops, Starts, SavesCurr,
         SettingUp
    <3> QED
      BY <3>1 DEF At, SettingUp
  <2>3. driver'.at # "read"
    <3>1. CASE SetsCurr \/ ReadCurr \/ LoopEnds \/ SavesCurr
      <4>1. driver'.at \in {"placed", "idle", "loop", "saved"}
        BY <3>1 DEF SetsCurr, ReadCurr, LoopEnds, SavesCurr, Types, DriverType
      <4> QED
        BY <4>1
    <3>2. CASE \E place : GoTo(place) /\ place # "read"
      BY <3>2, GoToFields
    <3> QED
      BY <1>3, <3>1, <3>2 DEF SettingUpStep, RecoveryStep, SetUp, SetsBoundary,
         ClearsAll, StartUp, Interrupt, Acknowledge, Stops, Starts
  <2> QED
    BY <1>2, <2>1, <2>2, <2>3 DEF Read, At
<1>4. CASE ReadPage /\ ~Read'
  BY <1>2, <1>4 DEF ReadPage, Read, counts
<1>5. CASE ReadHeader
  <2>1. UNCHANGED accepted /\ ~Read
    BY <1>5 DEF ReadHeader, Read, At, counts
  <2>2. ~Read'
    <3>1. RingInv' /\ Opened /\ Chained
      BY <1>5, ReadHeaderKeeps DEF RingInv, ReadHeader, Opened, SettingUp, At
    <3> SUFFICES ASSUME Read' PROVE FALSE
      OBVIOUS
    <3>2. driver'.got = driver.got /\ driver.got = <<>> /\ driver'.at = "read"
      BY <1>5, GoToFields DEF ReadHeader, Read, At, RingInv, Reading
    <3>3. /\ accepted' # <<>> /\ remote'.left = 0
          /\ remote'.left + Len(driver'.got) = accepted'[1].pages
      BY <3>1, <3>2 DEF RingInv, Reading, Read, At
    <3>4. accepted[1].pages \in 1 .. Size
      BY <2>1, <3>1, <3>3, FirstFrame, AcceptedTypes
    <3> QED
      BY <2>1, <3>2, <3>3, <3>4
  <2> QED
    BY <1>2, <2>1, <2>2
<1>6. CASE UNCHANGED vars \/ RxFirst \/ RxMore \/ RxEnd \/ RxHeader \/ IsrSets \/ Send
  BY <1>1, <1>6 DEF vars, RxFirst, RxMore, RxEnd, RxHeader, IsrSets, Send, counts
<1> QED
  BY <1>3, <1>4, <1>5, <1>6

(* The driver gets the frames that were accepted, in their order, each     *)
(* once and as it came.                                                    *)
THEOREM FramesInOrder == Spec => InOrder
<1>1. Init => Accepted!Init
  <2> SUFFICES ASSUME Init PROVE Accepted!Init
    OBVIOUS
  <2>1. ~Read /\ accepted = <<>>
    BY DEF Init, Closed, Read, At
  <2>2. Queue \in Seq(FrameNumber) /\ Len(Queue) = 0 /\ Delivered = None
    BY <2>1, RingInit, QueueFrames, UnreadFrames DEF QueueOK, UnreadOK, Delivered
  <2> QED
    BY <2>2, EmptySeq DEF Accepted!Init
<1>2. RingInv /\ RingInv' /\ [Next]_vars =>
        [Accepted!Accept \/ Accepted!Deliver \/ Accepted!Taken \/ Accepted!Forget]_(Accepted!vars)
  <2> SUFFICES ASSUME RingInv, RingInv', [Next]_vars
               PROVE  \/ Accepted!Accept \/ Accepted!Deliver \/ Accepted!Taken
                      \/ Accepted!Forget \/ UNCHANGED Accepted!vars
    OBVIOUS
  <2>1. CASE RxCommit
    BY <2>1, CommitAccepts
  <2>2. CASE ReadPage /\ Read'
    BY <2>2, LastPageDelivers
  <2>3. CASE FreePages
    BY <2>3, FreePagesTakes
  <2>4. CASE RestoresCurr
    BY <2>4, RestoresForgets
  <2>5. CASE Open
    BY <2>5, OpenForgets
  <2>6. CASE \/ UNCHANGED vars
             \/ RxFirst \/ RxMore \/ RxEnd \/ RxHeader \/ IsrSets
             \/ SettingUpStep \/ RecoveryStep
             \/ StartUp \/ Send \/ Interrupt \/ Acknowledge \/ ReadCurr
             \/ ReadHeader \/ (ReadPage /\ ~Read')
    BY <2>6, OthersKeepQueue DEF Accepted!vars
  <2> QED
    BY <2>1, <2>2, <2>3, <2>4, <2>5, <2>6 DEF Next, Card, Driver, SettingUpStep,
       RecoveryStep
<1> QED
  BY <1>1, <1>2, RingAlways, PTL DEF Spec, InOrder, Accepted!Spec
=============================================================================
