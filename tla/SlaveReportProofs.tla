-------------------------- MODULE SlaveReportProofs --------------------------
(***************************************************************************)
(* Theorems about SlaveReport, for every panel, every start of the elevator  *)
(* and any number of reports on their way.                                   *)
(***************************************************************************)
EXTENDS SlaveReport, TLAPS

Bits == 0 .. 15

\* What the bits of a package may be, whatever the calls: the dirn that SendToMaster
\* packs is 0, 1 or 2.
SlaveType ==
    /\ request \subseteq pressed /\ pressed \subseteq Buttons
    /\ floor \in Floors
    /\ sender \in {"pack1", "pack2", "write", "read"}

PackageType ==
    /\ package1 \in [0 .. 7 -> Bit] /\ package2 \in [0 .. 7 -> Bit]
    /\ package1[2] + package1[3] <= 1

FlightType ==
    /\ reports \in Seq([Bits -> Bit]) /\ Len(reports) <= MaxFlight
    /\ \A k \in DOMAIN reports : reports[k][2] + reports[k][3] <= 1

TypeInv == SlaveType /\ PackageType /\ FlightType /\ picture \in Picture

-----------------------------------------------------------------------------
(* The packages and what the master makes of them *)

LEMMA TwoBits ==
    ASSUME NEW n \in 0 .. 3
    PROVE  High(n) \in Bit /\ Low(n) \in Bit /\ (n <= 2 => High(n) + Low(n) <= 1)
<1>1. n = 0 \/ n = 1 \/ n = 2 \/ n = 3
  OBVIOUS
<1> QED
  BY <1>1 DEF High, Low, Bit

LEMMA DecodedType ==
    ASSUME NEW a \in [Bits -> Bit], a[2] + a[3] <= 1
    PROVE  MakeElevator(a) \in Picture
<1>1. \A i \in Bits : a[i] = 0 \/ a[i] = 1
  BY DEF Bit
<1>2. DecodedCalls(a) \in SUBSET Panel
  BY DEF DecodedCalls, Panel
<1>3. a[0] * 2 + a[1] \in Floors /\ a[5] * 2 + a[6] \in 0 .. 3
  <2>1. /\ a[0] = 0 \/ a[0] = 1
        /\ a[1] = 0 \/ a[1] = 1
        /\ a[5] = 0 \/ a[5] = 1
        /\ a[6] = 0 \/ a[6] = 1
    BY <1>1 DEF Bits
  <2> QED
    BY <2>1 DEF Floors
<1>4. a[2] * 2 + a[3] - 1 \in -1 .. 1
  <2>1. (a[2] = 0 \/ a[2] = 1) /\ (a[3] = 0 \/ a[3] = 1)
    BY <1>1 DEF Bits
  <2> QED
    BY <2>1
<1> QED
  BY <1>2, <1>3, <1>4 DEF MakeElevator, Picture

LEMMA PackedType == PackageType /\ (Pack1 \/ Pack2) => PackageType'
<1> SUFFICES ASSUME PackageType, Pack1 \/ Pack2 PROVE PackageType'
    OBVIOUS
<1>1. CASE Pack1
  <2>1. /\ Start.floor \in 0 .. 3 /\ Start.behavior \in 0 .. 3
        /\ Start.dirn + 1 \in 0 .. 3 /\ Start.dirn + 1 <= 2
    BY StartAssumption DEF Floors
  <2>2. \A i \in 1 .. 8 : Pack1Bits[i] \in Bit
    BY <2>1, TwoBits DEF Pack1Bits, IsSet, Bit
  <2>3. Pack1Bits[3] + Pack1Bits[4] <= 1
    BY <2>1, TwoBits DEF Pack1Bits
  <2>4. package1' = [i \in 0 .. 7 |-> Pack1Bits[i + 1]] /\ package2' = package2
    BY <1>1 DEF Pack1
  <2>5. package1' \in [0 .. 7 -> Bit]
    BY <2>2, <2>4
  <2>6. package1'[2] = Pack1Bits[3] /\ package1'[3] = Pack1Bits[4]
    BY <2>4
  <2> QED
    BY <2>3, <2>4, <2>5, <2>6 DEF PackageType
<1>2. CASE Pack2
  <2>1. \A i \in 1 .. 8 : Pack2Bits[i] \in Bit
    BY DEF Pack2Bits, IsSet, Bit
  <2> QED
    BY <1>2, <2>1 DEF Pack2, PackageType
<1> QED
  BY <1>1, <1>2

-----------------------------------------------------------------------------
(* Types *)

LEMMA InitType == Init => TypeInv
<1> SUFFICES ASSUME Init PROVE TypeInv
    OBVIOUS
<1> USE DEF Init
<1>1. SlaveType
  BY StartAssumption DEF SlaveType
<1>2. PackageType
  BY DEF PackageType, NoBits, Bit
<1>3. FlightType
  BY FlightAssumption DEF FlightType
<1>4. picture \in Picture
  BY DEF Blank, Picture, Floors
<1> QED
  BY <1>1, <1>2, <1>3, <1>4 DEF TypeInv

LEMMA NextType == TypeInv /\ [Next]_vars => TypeInv'
<1> SUFFICES ASSUME SlaveType, PackageType, FlightType, picture \in Picture, [Next]_vars
             PROVE  TypeInv'
    BY DEF TypeInv
<1>1. ASSUME NEW c \in Buttons, PressButton(c[1], c[2]) PROVE TypeInv'
  <2>1. SlaveType'
    BY <1>1, ButtonsAssumption DEF PressButton, SlaveType
  <2>2. PackageType' /\ FlightType' /\ picture' \in Picture
    BY <1>1 DEF PressButton, PackageType, FlightType
  <2> QED
    BY <2>1, <2>2 DEF TypeInv
<1>2. ASSUME NEW f \in Floors, ArriveAtFloor(f) PROVE TypeInv'
  <2>1. SlaveType'
    BY <1>2 DEF ArriveAtFloor, SlaveType
  <2>2. PackageType' /\ FlightType' /\ picture' \in Picture
    BY <1>2 DEF ArriveAtFloor, PackageType, FlightType
  <2> QED
    BY <2>1, <2>2 DEF TypeInv
<1>3. CASE Pack1 \/ Pack2
  <2>1. SlaveType' /\ FlightType' /\ picture' \in Picture
    BY <1>3 DEF Pack1, Pack2, SlaveType, FlightType
  <2> QED
    BY <1>3, <2>1, PackedType DEF TypeInv
<1>4. CASE Write
  <2>1. SlaveType' /\ picture' \in Picture
    BY <1>4 DEF Write, SlaveType
  <2>2. PackageType'
    BY <1>4 DEF Write, PackageType, NoBits, Bit
  <2>3. Text \in [Bits -> Bit] /\ Text[2] + Text[3] <= 1
    BY DEF Text, PackageType, Bits, Bit
  <2>4. reports' = Append(reports, Text) /\ Len(reports) < MaxFlight
    BY <1>4 DEF Write
  <2>5. FlightType'
    BY <2>3, <2>4, FlightAssumption DEF FlightType
  <2> QED
    BY <2>1, <2>2, <2>5 DEF TypeInv
<1>5. CASE ReadOrTimeout
  BY <1>5 DEF ReadOrTimeout, TypeInv, SlaveType, PackageType, FlightType
<1>6. CASE Receive
  <2>1. SlaveType' /\ PackageType'
    BY <1>6 DEF Receive, SlaveType, PackageType
  <2>2. FlightType'
    BY <1>6, FlightAssumption DEF Receive, FlightType
  <2>3. Head(reports) \in [Bits -> Bit] /\ Head(reports)[2] + Head(reports)[3] <= 1
    BY <1>6 DEF Receive, FlightType
  <2>4. picture' \in Picture
    BY <1>6, <2>3, DecodedType DEF Receive
  <2> QED
    BY <2>1, <2>2, <2>4 DEF TypeInv
<1>7. CASE UNCHANGED vars
  BY <1>7 DEF vars, TypeInv, SlaveType, PackageType, FlightType
<1> QED
  BY <1>1, <1>2, <1>3, <1>4, <1>5, <1>6, <1>7 DEF Next

LEMMA TypeInvariance == Spec => []TypeInv
  BY InitType, NextType, PTL DEF Spec

\* The types of the slave's packages, the reports and the master's picture: a decoded
\* dirn is never 2, the one value of its two bits that means nothing.
THEOREM TypeCorrect == Spec => []TypeOK
<1>1. TypeInv => TypeOK
  BY ButtonsAssumption DEF TypeInv, TypeOK, SlaveType, PackageType, FlightType, Panel, Bits
<1> QED
  BY <1>1, TypeInvariance, PTL

-----------------------------------------------------------------------------
(* Which call a bit stands for: at the slave and at the master, who differ in    *)
(* bit 14, the hall call of the top floor.                                       *)

Slots == 6 .. 15

Source(i) ==
    IF i <= 7 THEN <<0, 2 * (i - 6)>>
    ELSE IF i <= 10 THEN <<1, i - 8>>
    ELSE IF i <= 13 THEN <<2, i - 11>>
    ELSE <<3, 2 * (i - 14)>>

Meaning(i) == IF i = 14 THEN <<3, BT_HallDown>> ELSE Source(i)

LEMMA SlotCases ==
    ASSUME NEW i \in Slots
    PROVE  \/ i = 6 \/ i = 7 \/ i = 8 \/ i = 9 \/ i = 10
           \/ i = 11 \/ i = 12 \/ i = 13 \/ i = 14 \/ i = 15
  BY DEF Slots

\* MakeElevator finds a call exactly where its bit is set.
LEMMA Decoding ==
    ASSUME NEW a \in [Bits -> Bit]
    PROVE  /\ \A i \in Slots : Meaning(i) \in DecodedCalls(a) <=> a[i] = 1
           /\ \A c \in DecodedCalls(a) : \E i \in Slots : c = Meaning(i)
<1>1. ASSUME NEW i \in Slots PROVE Meaning(i) \in DecodedCalls(a) <=> a[i] = 1
  <2> USE DEF Meaning, Source, DecodedCalls, Floors, BT_HallDown
  <2>1. CASE i = 6 \/ i = 7
    BY <2>1
  <2>2. CASE i = 8 \/ i = 9 \/ i = 10
    BY <2>2
  <2>3. CASE i = 11 \/ i = 12 \/ i = 13
    BY <2>3
  <2>4. CASE i = 14 \/ i = 15
    BY <2>4
  <2> QED
    BY <2>1, <2>2, <2>3, <2>4, SlotCases
<1>2. ASSUME NEW c \in DecodedCalls(a) PROVE \E i \in Slots : c = Meaning(i)
  <2> USE DEF Meaning, Source, Slots, BT_HallDown
  <2>1. PICK f \in Floors, b \in 0 .. 2 : c = <<f, b>>
    BY DEF DecodedCalls
  <2>2. CASE f = 0
    BY <2>1, <2>2 DEF DecodedCalls
  <2>3. CASE f = 1
    <3>1. b + 8 \in Slots /\ c = Meaning(b + 8)
      BY <2>1, <2>3
    <3> QED
      BY <3>1
  <2>4. CASE f = 2
    <3>1. b + 11 \in Slots /\ c = Meaning(b + 11)
      BY <2>1, <2>4
    <3> QED
      BY <3>1
  <2>5. CASE f = 3
    BY <2>1, <2>5 DEF DecodedCalls
  <2> QED
    BY <2>2, <2>3, <2>4, <2>5 DEF Floors
<1> QED
  BY <1>1, <1>2

\* The two statements of SendToMaster set a bit exactly for a call of the moment.
LEMMA Packing ==
    /\ \A i \in 6 .. 7 : Pack1Bits[i + 1] = 1 <=> Source(i) \in request
    /\ \A i \in 8 .. 15 : Pack2Bits[i - 7] = 1 <=> Source(i) \in request
<1> USE DEF IsSet, Source, BT_HallUp, BT_HallDown, BT_Cab
<1>1. ASSUME NEW i \in 6 .. 7 PROVE Pack1Bits[i + 1] = 1 <=> Source(i) \in request
  BY DEF Pack1Bits
<1>2. ASSUME NEW i \in 8 .. 15 PROVE Pack2Bits[i - 7] = 1 <=> Source(i) \in request
  <2>1. CASE i = 8 \/ i = 9 \/ i = 10
    BY <2>1 DEF Pack2Bits
  <2>2. CASE i = 11 \/ i = 12 \/ i = 13
    BY <2>2 DEF Pack2Bits
  <2>3. CASE i = 14 \/ i = 15
    BY <2>3 DEF Pack2Bits
  <2> QED
    BY <2>1, <2>2, <2>3
<1> QED
  BY <1>1, <1>2

-----------------------------------------------------------------------------
(* No ghosts *)

\* A bit set anywhere between the slave and the master stands for a call made.
PackagesMade ==
    /\ \A i \in 6 .. 7 : package1[i] = 1 => Source(i) \in pressed
    /\ \A i \in 8 .. 15 : package2[i - 8] = 1 => Source(i) \in pressed
ReportsMade == \A k \in DOMAIN reports : \A i \in Slots : reports[k][i] = 1 => Source(i) \in pressed
PictureMade == \A i \in Slots : Meaning(i) \in picture.request => Source(i) \in pressed
PictureSlots == \A c \in picture.request : \E i \in Slots : c = Meaning(i)

AllMade == PackagesMade /\ ReportsMade /\ PictureMade /\ PictureSlots

LEMMA NextMade == TypeInv /\ AllMade /\ [Next]_vars => AllMade'
<1> SUFFICES ASSUME TypeInv, AllMade, [Next]_vars PROVE AllMade'
    OBVIOUS
<1> USE DEF AllMade
<1>1. ASSUME NEW c \in Buttons, PressButton(c[1], c[2]) PROVE AllMade'
  BY <1>1 DEF PressButton, PackagesMade, ReportsMade, PictureMade, PictureSlots
<1>2. ASSUME NEW f \in Floors, ArriveAtFloor(f) PROVE AllMade'
  BY <1>2 DEF ArriveAtFloor, PackagesMade, ReportsMade, PictureMade, PictureSlots
<1>3. CASE Pack1
  <2>1. PackagesMade'
    <3>1. \A i \in 6 .. 7 : package1'[i] = Pack1Bits[i + 1]
      BY <1>3 DEF Pack1
    <3>2. UNCHANGED <<package2, pressed>>
      BY <1>3 DEF Pack1
    <3> QED
      BY <3>1, <3>2, Packing DEF PackagesMade, TypeInv, SlaveType
  <2> QED
    BY <1>3, <2>1 DEF Pack1, ReportsMade, PictureMade, PictureSlots
<1>4. CASE Pack2
  <2>1. PackagesMade'
    <3>1. \A i \in 8 .. 15 : package2'[i - 8] = Pack2Bits[i - 7]
      <4>1. ASSUME NEW i \in 8 .. 15
            PROVE  i - 8 \in 0 .. 7 /\ i - 8 + 1 = i - 7
        OBVIOUS
      <4> QED
        BY <1>4, <4>1 DEF Pack2
    <3>2. UNCHANGED <<package1, pressed>>
      BY <1>4 DEF Pack2
    <3> QED
      BY <3>1, <3>2, Packing DEF PackagesMade, TypeInv, SlaveType
  <2> QED
    BY <1>4, <2>1 DEF Pack2, ReportsMade, PictureMade, PictureSlots
<1>5. CASE Write
  <2>1. PackagesMade'
    BY <1>5 DEF Write, PackagesMade, NoBits
  <2>2. \A i \in Slots : Text[i] = 1 => Source(i) \in pressed
    BY DEF Text, PackagesMade, Slots
  <2>3. ReportsMade'
    BY <1>5, <2>2 DEF Write, ReportsMade, TypeInv, FlightType
  <2> QED
    BY <1>5, <2>1, <2>3 DEF Write, PictureMade, PictureSlots
<1>6. CASE ReadOrTimeout
  BY <1>6 DEF ReadOrTimeout, PackagesMade, ReportsMade, PictureMade, PictureSlots
<1>7. CASE Receive
  <2>1. PackagesMade' /\ ReportsMade'
    BY <1>7 DEF Receive, PackagesMade, ReportsMade, TypeInv, FlightType
  <2>2. Head(reports) \in [Bits -> Bit] /\ Head(reports) = reports[1] /\ 1 \in DOMAIN reports
    BY <1>7 DEF Receive, TypeInv, FlightType
  <2>3. picture'.request = DecodedCalls(reports[1])
    BY <1>7, <2>2 DEF Receive, MakeElevator
  <2>4. PictureMade' /\ PictureSlots'
    BY <1>7, <2>2, <2>3, Decoding DEF Receive, PictureMade, PictureSlots, ReportsMade
  <2> QED
    BY <2>1, <2>4
<1>8. CASE UNCHANGED vars
  BY <1>8 DEF vars, PackagesMade, ReportsMade, PictureMade, PictureSlots
<1> QED
  BY <1>1, <1>2, <1>3, <1>4, <1>5, <1>6, <1>7, <1>8 DEF Next

LEMMA MadeInvariance == Spec => []AllMade
<1>1. Init => AllMade
  BY DEF Init, AllMade, PackagesMade, ReportsMade, PictureMade, PictureSlots, NoBits, Blank
<1> QED
  BY <1>1, NextMade, TypeInvariance, PTL DEF Spec

\* On every panel the master sees only calls that somebody made, although a report
\* mixes two moments of the slices it shares with the main loop - and the top
\* floor's hall-up call, if there is one, as its hall-down call.
THEOREM NoGhosts == Spec => []NoGhostCalls
<1>1. ASSUME NEW i \in Slots
      PROVE  Source(i) \in Carried /\ Meaning(i) = Shown(Source(i))
  <2> USE DEF Source, Meaning, Shown, Carried, Panel, Floors, BT_HallUp, BT_HallDown
  <2>1. CASE i = 6 \/ i = 7
    BY <2>1
  <2>2. CASE i = 8 \/ i = 9 \/ i = 10
    BY <2>2
  <2>3. CASE i = 11 \/ i = 12 \/ i = 13
    BY <2>3
  <2>4. CASE i = 14 \/ i = 15
    BY <2>4
  <2> QED
    BY <2>1, <2>2, <2>3, <2>4, SlotCases
<1>2. AllMade => NoGhostCalls
  <2> SUFFICES ASSUME AllMade, NEW c \in picture.request
               PROVE  c \in {Shown(d) : d \in pressed \cap Carried}
    BY DEF NoGhostCalls
  <2>1. PICK i \in Slots : c = Meaning(i)
    BY DEF AllMade, PictureSlots
  <2>2. Source(i) \in pressed
    BY <2>1 DEF AllMade, PictureMade
  <2> QED
    BY <1>1, <2>1, <2>2
<1> QED
  BY <1>2, MadeInvariance, PTL

-----------------------------------------------------------------------------
(* Hall calls stay *)

HallSlots == {6, 8, 9, 11, 12, 14}

\* From the master back to the slave a hall call once set is set everywhere: in the
\* reports in the order they travel, in the packages once they are filled, and in
\* the elevator's slices.
PictureFirst ==
    \A i \in HallSlots : Meaning(i) \in picture.request => \A k \in DOMAIN reports : reports[k][i] = 1
ReportsInOrder ==
    \A i \in HallSlots : \A k, l \in DOMAIN reports : k <= l /\ reports[k][i] = 1 => reports[l][i] = 1

\* A call the master or a report has.
Told(i) == Meaning(i) \in picture.request \/ \E k \in DOMAIN reports : reports[k][i] = 1

PackagesLast ==
    \A i \in HallSlots : Told(i) =>
        /\ i <= 7 /\ sender \in {"pack2", "write"} => package1[i] = 1
        /\ i >= 8 /\ sender = "write" => package2[i - 8] = 1
StillCalled ==
    /\ \A i \in HallSlots : Told(i) => Source(i) \in request
    /\ package1[6] = 1 => Source(6) \in request
    /\ \A i \in HallSlots \ {6} : package2[i - 8] = 1 => Source(i) \in request

HallOrder == PictureFirst /\ ReportsInOrder /\ PackagesLast /\ StillCalled

LEMMA HallSlotCases ==
    ASSUME NEW i \in HallSlots
    PROVE  /\ i \in Slots /\ i \in Bits
           /\ i = 6 \/ (i \in 8 .. 15 /\ i - 8 \in 0 .. 7 /\ i \in HallSlots \ {6})
           /\ Source(i)[2] # BT_Cab /\ Meaning(i) \in HallCalls
  BY DEF HallSlots, Slots, Bits, Source, Meaning, BT_Cab, BT_HallDown, HallCalls, Panel,
         Floors

LEMMA NextHalls == TypeInv /\ HallOrder /\ [Next]_vars => HallOrder'
<1> SUFFICES ASSUME TypeInv, HallOrder, [Next]_vars PROVE HallOrder'
    OBVIOUS
<1> USE DEF HallOrder
<1>1. ASSUME NEW c \in Buttons, PressButton(c[1], c[2]) PROVE HallOrder'
  BY <1>1 DEF PressButton, PictureFirst, ReportsInOrder, PackagesLast, StillCalled, Told
\* The cab call is no hall call.
<1>2. ASSUME NEW f \in Floors, ArriveAtFloor(f) PROVE HallOrder'
  <2>1. PictureFirst' /\ ReportsInOrder' /\ PackagesLast'
    BY <1>2 DEF ArriveAtFloor, PictureFirst, ReportsInOrder, PackagesLast, Told
  <2>2. \A i \in HallSlots : Source(i) \in request => Source(i) \in request'
    BY <1>2, HallSlotCases DEF ArriveAtFloor
  <2>3. UNCHANGED <<package1, package2, reports, picture>>
    BY <1>2 DEF ArriveAtFloor
  <2>4. 6 \in HallSlots
    BY DEF HallSlots
  <2> QED
    BY <2>1, <2>2, <2>3, <2>4 DEF StillCalled, Told
<1>3. CASE Pack1
  <2>1. UNCHANGED <<package2, reports, picture, request>> /\ sender = "pack1" /\ sender' = "pack2"
    BY <1>3 DEF Pack1
  <2>2. package1'[6] = Pack1Bits[7]
    BY <1>3 DEF Pack1
  <2>3. package1'[6] = 1 <=> Source(6) \in request
    BY <2>2, Packing
  <2>4. PackagesLast'
    BY <2>1, <2>3, HallSlotCases DEF PackagesLast, StillCalled, Told
  <2> QED
    BY <2>1, <2>3, <2>4 DEF PictureFirst, ReportsInOrder, StillCalled, Told
<1>4. CASE Pack2
  <2>1. UNCHANGED <<package1, reports, picture, request>> /\ sender = "pack2" /\ sender' = "write"
    BY <1>4 DEF Pack2
  <2>2. ASSUME NEW i \in HallSlots \ {6}
        PROVE  package2'[i - 8] = 1 <=> Source(i) \in request
    <3>1. i \in 8 .. 15 /\ i - 8 \in 0 .. 7 /\ i - 8 + 1 = i - 7
      BY HallSlotCases
    <3>2. package2'[i - 8] = Pack2Bits[i - 7]
      BY <1>4, <3>1 DEF Pack2
    <3> QED
      BY <3>1, <3>2, Packing
  <2>3. PackagesLast'
    BY <2>1, <2>2, HallSlotCases DEF PackagesLast, StillCalled, Told
  <2> QED
    BY <2>1, <2>2, <2>3 DEF PictureFirst, ReportsInOrder, StillCalled, Told
<1>5. CASE Write
  <2>1. /\ reports' = Append(reports, Text) /\ sender = "write" /\ sender' = "read"
        /\ UNCHANGED <<request, picture>>
    BY <1>5 DEF Write
  <2>2. /\ DOMAIN reports' = 1 .. Len(reports) + 1 /\ DOMAIN reports = 1 .. Len(reports) /\ Len(reports) \in Nat
        /\ \A k \in DOMAIN reports : reports'[k] = reports[k]
        /\ reports'[Len(reports) + 1] = Text
    BY <2>1 DEF TypeInv, FlightType
  <2>3. ASSUME NEW i \in HallSlots
        PROVE  /\ Told(i) => Text[i] = 1
               /\ Text[i] = 1 => Source(i) \in request
    BY <2>1, HallSlotCases DEF PackagesLast, StillCalled, Text, Bits
  <2>4. PictureFirst'
    BY <2>1, <2>2, <2>3 DEF PictureFirst, Told
  <2>5. ReportsInOrder'
    BY <2>1, <2>2, <2>3 DEF ReportsInOrder, Told
  <2>6. \A i \in HallSlots : Told(i)' => Source(i) \in request
    BY <2>1, <2>2, <2>3 DEF Told, StillCalled
  <2>7. package1' = NoBits /\ package2' = NoBits
    BY <1>5 DEF Write
  <2>8. PackagesLast' /\ StillCalled'
    BY <2>1, <2>6, <2>7, HallSlotCases DEF PackagesLast, StillCalled, NoBits
  <2> QED
    BY <2>4, <2>5, <2>8
<1>6. CASE ReadOrTimeout
  BY <1>6 DEF ReadOrTimeout, PictureFirst, ReportsInOrder, PackagesLast, StillCalled, Told
<1>7. CASE Receive
  <2>1. reports # <<>> /\ reports' = Tail(reports) /\ UNCHANGED <<request, sender, package1, package2>>
    BY <1>7 DEF Receive
  <2>2. /\ Len(reports) \in Nat \ {0} /\ DOMAIN reports = 1 .. Len(reports)
        /\ DOMAIN reports' = 1 .. Len(reports) - 1
        /\ \A k \in DOMAIN reports' : reports'[k] = reports[k + 1]
        /\ Head(reports) = reports[1] /\ reports[1] \in [Bits -> Bit]
    BY <2>1 DEF TypeInv, FlightType
  <2>3. picture'.request = DecodedCalls(reports[1])
    BY <1>7, <2>2 DEF Receive, MakeElevator
  <2>4. \A i \in HallSlots : Meaning(i) \in picture'.request <=> reports[1][i] = 1
    BY <2>2, <2>3, Decoding, HallSlotCases
  <2>5. PictureFirst'
    BY <2>2, <2>4 DEF ReportsInOrder, PictureFirst
  <2>6. ReportsInOrder'
    BY <2>2 DEF ReportsInOrder
  <2>7. \A i \in HallSlots : Told(i)' => Told(i)
    BY <2>2, <2>4 DEF Told
  <2>8. PackagesLast' /\ StillCalled'
    BY <2>1, <2>7 DEF PackagesLast, StillCalled
  <2> QED
    BY <2>5, <2>6, <2>8
<1>8. CASE UNCHANGED vars
  BY <1>8 DEF vars, PictureFirst, ReportsInOrder, PackagesLast, StillCalled, Told
<1> QED
  BY <1>1, <1>2, <1>3, <1>4, <1>5, <1>6, <1>7, <1>8 DEF Next

LEMMA HallInvariance == Spec => []HallOrder
<1>1. Init => HallOrder
  BY DEF Init, HallOrder, PictureFirst, ReportsInOrder, PackagesLast, StillCalled, Told,
         NoBits, Blank, HallSlots
<1> QED
  BY <1>1, NextHalls, TypeInvariance, PTL DEF Spec

\* Once the master has seen a hall call of a slave no later report takes it back: nothing
\* in the slave's loop clears it, and reports arrive in the order they are read.
THEOREM HallCallsKept == Spec => HallCallsStay
<1>1. TypeInv /\ AllMade /\ HallOrder /\ [Next]_vars
      => [picture.request \cap HallCalls \subseteq picture'.request]_vars
  <2> SUFFICES ASSUME TypeInv, AllMade, HallOrder, Next,
                      NEW c \in picture.request, c \in HallCalls
               PROVE  c \in picture'.request
    OBVIOUS
  <2>1. CASE Receive
    <3>1. reports # <<>> /\ picture' = MakeElevator(Head(reports))
      BY <2>1 DEF Receive
    <3>2. 1 \in DOMAIN reports /\ Head(reports) = reports[1] /\ reports[1] \in [Bits -> Bit]
      BY <3>1 DEF TypeInv, FlightType
    <3>3. PICK i \in Slots : c = Meaning(i)
      BY DEF AllMade, PictureSlots
    <3>4. i \in HallSlots
      BY <3>3, SlotCases DEF Meaning, Source, HallCalls, HallSlots, BT_Cab
    <3>5. reports[1][i] = 1
      BY <3>2, <3>3, <3>4 DEF HallOrder, PictureFirst
    <3>6. c \in DecodedCalls(reports[1])
      BY <3>2, <3>3, <3>5, Decoding
    <3> QED
      BY <3>1, <3>2, <3>6 DEF MakeElevator
  <2>2. CASE UNCHANGED picture
    BY <2>2
  <2>3. Receive \/ UNCHANGED picture
    BY DEF Next, PressButton, ArriveAtFloor, Pack1, Pack2, Write, ReadOrTimeout
  <2> QED
    BY <2>1, <2>2, <2>3
<1> QED
  BY <1>1, TypeInvariance, MadeInvariance, HallInvariance, PTL DEF Spec, HallCallsStay
=============================================================================
