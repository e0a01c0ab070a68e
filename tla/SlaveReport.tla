----------------------------- MODULE SlaveReport -----------------------------
(***************************************************************************)
(* What the master knows of a slave's elevator: the slave's main loop and   *)
(* SendToMaster, the report of two bytes, and MakeElevator at the master    *)
(* (kcp-go-master/elevio.go, kcp-go-master/echo.go).                        *)
(*                                                                         *)
(* "go SendToMaster(Send, EL1)" copies the elevator: floor, dirn and        *)
(* behavior of the copy stay what they were at the start, but the request   *)
(* slices are shared with the main loop, without a lock, and a report reads *)
(* them in two statements.                                                  *)
(*                                                                         *)
(* A report is its sixteen bits, a[0] .. a[15] of the string the master      *)
(* decodes.  Reports are delivered in order (KCP); a slave whose read times  *)
(* out sends the next one without waiting for the answer to the last.       *)
(***************************************************************************)
EXTENDS Integers, Sequences, FiniteSets

CONSTANTS
    Start,       \* the elevator main starts with: [floor, dirn, behavior]
    Buttons,     \* the panel: pairs of floor and button
    MaxFlight    \* bound: reports on their way at once

Floors == 0 .. 3
BT_HallUp == 0
BT_HallDown == 1
BT_Cab == 2
Bit == 0 .. 1

ASSUME StartAssumption ==
    Start \in [floor : Floors, dirn : -1 .. 1, behavior : 0 .. 2]
ASSUME ButtonsAssumption == Buttons \subseteq Floors \X (0 .. 2)
ASSUME FlightAssumption == MaxFlight \in Nat \ {0}

VARIABLES
    request,    \* EL1.request: the pairs whose entry is 1
    floor,      \* EL1.floor of the main loop
    sender,     \* SendToMaster: "pack1", "pack2", "write" or "read"
    package1,   \* bits a[0] .. a[7]
    package2,   \* bits a[8] .. a[15]
    reports,    \* those not yet decoded
    picture,    \* ELS[slaveID]
    pressed     \* history: every button event of the main loop

vars == <<request, floor, sender, package1, package2, reports, picture, pressed>>

NoBits == [i \in 0 .. 7 |-> 0]

\* ELS[i] before the first report.
Blank == [floor |-> 0, dirn |-> 0, behavior |-> 0, request |-> {}]

Init ==
    /\ request = {}
    /\ floor = Start.floor
    /\ sender = "pack1"
    /\ package1 = NoBits /\ package2 = NoBits
    /\ reports = <<>>
    /\ picture = Blank
    /\ pressed = {}

-----------------------------------------------------------------------------
(* The slave's main loop *)

\* case a := <-drv_buttons
PressButton(f, b) ==
    /\ request' = request \cup {<<f, b>>}
    /\ pressed' = pressed \cup {<<f, b>>}
    /\ UNCHANGED <<floor, sender, package1, package2, reports, picture>>

\* Every call of the floor, not only the cab's.
ArriveAtFloor_AllCalls(f) ==
    /\ floor' = f
    /\ request' = request \ {<<f, b>> : b \in 0 .. 2}
    /\ UNCHANGED <<sender, package1, package2, reports, picture, pressed>>

\* case a := <-drv_floors: the cab call of the floor is served, hall calls stay.
ArriveAtFloor(f) ==
    /\ floor' = f
    /\ request' = request \ {<<f, BT_Cab>>}
    /\ UNCHANGED <<sender, package1, package2, reports, picture, pressed>>

-----------------------------------------------------------------------------
(* SendToMaster *)

IsSet(f, b) == IF <<f, b>> \in request THEN 1 ELSE 0

\* The low two bits of n, high bit first.
High(n) == (n \div 2) % 2
Low(n) == n % 2

\* The first byte, high bit first.
Pack1Bits ==
    << High(Start.floor), Low(Start.floor), High(Start.dirn + 1), Low(Start.dirn + 1),
       High(Start.behavior), Low(Start.behavior),
       IsSet(0, BT_HallUp), IsSet(0, BT_Cab) >>

\* The top floor's bit is that of the floor below it.
Pack2Bits_WrongIndex ==
    << IsSet(1, BT_HallUp), IsSet(1, BT_HallDown), IsSet(1, BT_Cab),
       IsSet(2, BT_HallUp), IsSet(2, BT_HallDown), IsSet(2, BT_Cab),
       IsSet(2, BT_HallUp), IsSet(3, BT_Cab) >>

\* The second byte: the hall call sent for the top floor is its hall-up call.
Pack2Bits ==
    << IsSet(1, BT_HallUp), IsSet(1, BT_HallDown), IsSet(1, BT_Cab),
       IsSet(2, BT_HallUp), IsSet(2, BT_HallDown), IsSet(2, BT_Cab),
       IsSet(3, BT_HallUp), IsSet(3, BT_Cab) >>

Pack1 ==
    /\ sender = "pack1"
    /\ package1' = [i \in 0 .. 7 |-> Pack1Bits[i + 1]]
    /\ sender' = "pack2"
    /\ UNCHANGED <<request, floor, package2, reports, picture, pressed>>

Pack2 ==
    /\ sender = "pack2"
    /\ package2' = [i \in 0 .. 7 |-> Pack2Bits[i + 1]]
    /\ sender' = "write"
    /\ UNCHANGED <<request, floor, package1, reports, picture, pressed>>

\* Digits a[0] .. a[15].
Text == [i \in 0 .. 15 |-> IF i < 8 THEN package1[i] ELSE package2[i - 8]]

Write ==
    /\ sender = "write"
    /\ Len(reports) < MaxFlight
    /\ reports' = Append(reports, Text)
    /\ sender' = "read"
    /\ package1' = NoBits /\ package2' = NoBits
    /\ UNCHANGED <<request, floor, picture, pressed>>

\* The answer, or the end of the two seconds: the loop starts again.
ReadOrTimeout ==
    /\ sender = "read"
    /\ sender' = "pack1"
    /\ UNCHANGED <<request, floor, package1, package2, reports, picture, pressed>>

-----------------------------------------------------------------------------
(* The master: ELS[slaveID] = MakeElevator(a) *)

\* Floor 1 decoded one digit late.
DecodedCalls_Shifted(a) ==
    {c \in Floors \X (0 .. 2) :
        \/ c = <<0, 0>> /\ a[6] = 1
        \/ c = <<0, 2>> /\ a[7] = 1
        \/ c[1] = 1 /\ a[9 + c[2]] = 1
        \/ c[1] = 2 /\ a[11 + c[2]] = 1
        \/ c = <<3, 1>> /\ a[14] = 1
        \/ c = <<3, 2>> /\ a[15] = 1}

DecodedCalls(a) ==
    {c \in Floors \X (0 .. 2) :
        \/ c = <<0, 0>> /\ a[6] = 1
        \/ c = <<0, 2>> /\ a[7] = 1
        \/ c[1] = 1 /\ a[8 + c[2]] = 1
        \/ c[1] = 2 /\ a[11 + c[2]] = 1
        \/ c = <<3, 1>> /\ a[14] = 1
        \/ c = <<3, 2>> /\ a[15] = 1}

\* The behavior is read from a[5] and a[6].
MakeElevator(a) ==
    [floor    |-> a[0] * 2 + a[1],
     dirn     |-> a[2] * 2 + a[3] - 1,
     behavior |-> a[5] * 2 + a[6],
     request  |-> DecodedCalls(a)]

Receive ==
    /\ reports # <<>>
    /\ picture' = MakeElevator(Head(reports))
    /\ reports' = Tail(reports)
    /\ UNCHANGED <<request, floor, sender, package1, package2, pressed>>

-----------------------------------------------------------------------------
Next ==
    \/ \E c \in Buttons : PressButton(c[1], c[2])
    \/ \E f \in Floors : ArriveAtFloor(f)
    \/ Pack1 \/ Pack2 \/ Write \/ ReadOrTimeout
    \/ Receive

Spec == Init /\ [][Next]_vars

\* SendToMaster goes round (its read has a deadline) and the master decodes.
Fairness == WF_vars(Pack1 \/ Pack2 \/ Write \/ ReadOrTimeout) /\ WF_vars(Receive)

FairSpec == Spec /\ Fairness

-----------------------------------------------------------------------------
(* Properties *)

Panel == Floors \X (0 .. 2)
HallCalls == {c \in Panel : c[2] # BT_Cab}

Picture == [floor : Floors, dirn : -1 .. 1, behavior : 0 .. 3, request : SUBSET Panel]

TypeOK ==
    /\ request \subseteq Panel /\ pressed \subseteq Panel
    /\ floor \in Floors
    /\ sender \in {"pack1", "pack2", "write", "read"}
    /\ package1 \in [0 .. 7 -> Bit] /\ package2 \in [0 .. 7 -> Bit]
    /\ reports \in Seq([0 .. 15 -> Bit]) /\ Len(reports) <= MaxFlight
    /\ picture \in Picture

\* The calls a report has a bit for; the top floor's hall-up call is one.
Carried == Panel \ {<<0, BT_HallDown>>, <<3, BT_HallDown>>}

\* What the master takes a call for: the bit packed from the top floor's hall-up call
\* is the one it reads as that floor's hall-down call.
Shown(c) == IF c = <<3, BT_HallUp>> THEN <<3, BT_HallDown>> ELSE c

\* Every call the master sees is a call somebody made, or the top floor's hall-up
\* call under its other name: a report read in two statements while the main loop
\* sets and clears entries mixes two moments but makes no call up, and no other
\* bit is taken for another one.  Of the top floor's own hall-down call the master
\* sees nothing.
NoGhostCalls == picture.request \subseteq {Shown(c) : c \in pressed \cap Carried}

\* The master never forgets a hall call of a slave once it has seen it, whatever
\* the slave serves meanwhile: MakeRequest hands it out again on every report.
HallCallsStay ==
    [][picture.request \cap HallCalls \subseteq picture'.request]_vars

\* Every hall call a report has a bit for reaches the master, as what it is shown.
HallCallsArrive ==
    \A c \in Buttons \cap HallCalls \cap Carried :
        (c \in request) ~> (Shown(c) \in picture.request)
=============================================================================
