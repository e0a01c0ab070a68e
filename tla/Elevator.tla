------------------------------ MODULE Elevator ------------------------------
(***************************************************************************)
(* One elevator: the main loop of a slave (kcp1/echo.go; kcp2/echo.go is the *)
(* same program with another start), the goroutines that poll the driver    *)
(* (kcp1/elevio.go) and the car they drive.                                  *)
(*                                                                         *)
(* The pollers send on unbuffered channels, so each holds at most one event  *)
(* and sees nothing while the main loop sleeps at a floor.  What a report to *)
(* the master says is left to SlaveReport: answers are only printed here.    *)
(*                                                                         *)
(* The car is outside the source.  Its position counts half floors: 2f is    *)
(* the sensor of floor f, 2f + 1 the shaft above it.                         *)
(***************************************************************************)
EXTENDS Integers, FiniteSets

CONSTANTS
    numFloors,      \* 4 in the code
    StartFloor,     \* EL1.floor when main starts: 3 in kcp1, 2 in kcp2
    HallButtons,    \* hall buttons that are used: pairs of floor and button
    MaxPresses,     \* bound: button events
    MaxSwitches,    \* bound: moves of the obstruction switch
    MaxStops        \* bound: events of the stop button

ASSUME FloorsAssumption == numFloors \in Nat \ {0} /\ StartFloor \in 0 .. numFloors - 1
ASSUME BoundsAssumption == MaxPresses \in Nat /\ MaxSwitches \in Nat /\ MaxStops \in Nat

Floors == 0 .. numFloors - 1
BT_Cab == 2
MD_Stop == 0
MD_Up == 1
MD_Down == -1
Buttons == (Floors \X {BT_Cab}) \cup HallButtons
None == <<>>

ASSUME ButtonsAssumption == HallButtons \subseteq Floors \X {0, 1}

VARIABLES
    request,      \* EL1.request: the pairs whose entry is 1
    floor,        \* EL1.floor
    main,         \* "select" or "sleep"
    motor,        \* the last SetMotorDirection
    lamps,        \* the pairs whose button lamp is on
    drv_buttons,  \* None or the button PollButtons is sending
    drv_floors,   \* None or <<the floor PollFloorSensor is sending>>
    floorPrev,    \* "prev" of PollFloorSensor, -1 between floors
    drv_obstr,    \* None or <<the value PollObstructionSwitch is sending>>
    obstrPrev,    \* "prev" of PollObstructionSwitch
    car,          \* position of the car in half floors
    obstruction,  \* the obstruction switch
    arrived,      \* history: the main loop has taken a floor event
    presses, switches, stops   \* how often the environment acted

loopVars == <<request, floor, main, motor, lamps, arrived>>
floorPoll == <<drv_floors, floorPrev>>
obstrPoll == <<drv_obstr, obstrPrev>>
pollVars == <<drv_buttons, floorPoll, obstrPoll>>
plantVars == <<car, obstruction, presses, switches, stops>>
vars == <<loopVars, pollVars, plantVars>>

Init ==
    /\ request = {} /\ floor = StartFloor /\ main = "select"
    /\ motor = MD_Stop
    /\ lamps = {}
    /\ drv_buttons = None /\ drv_floors = None /\ drv_obstr = None
    /\ floorPrev = -1 /\ obstrPrev = FALSE
    /\ car \in 0 .. 2 * (numFloors - 1)
    /\ obstruction \in BOOLEAN
    /\ arrived = FALSE
    /\ presses = 0 /\ switches = 0 /\ stops = 0

-----------------------------------------------------------------------------
(* TakeRequest: the lowest floor with a cab call other than the current one *)

CabCalls(req) == {f \in Floors : <<f, BT_Cab>> \in req}

\* The calls TakeRequest sets the motor for: those for another floor.
Away(req, f) == CabCalls(req) \ {f}

\* The motor's direction once TakeRequest returns; m if it sets none.
MotorAfter(req, f, m) ==
    IF Away(req, f) = {} THEN m
    ELSE LET i == CHOOSE i \in Away(req, f) : \A j \in Away(req, f) : i <= j
         IN IF f > i THEN MD_Down ELSE MD_Up

-----------------------------------------------------------------------------
(* The main loop's cases *)

\* case a := <-drv_buttons
HandleButton ==
    /\ main = "select"
    /\ drv_buttons # None
    /\ request' = request \cup {drv_buttons}
    /\ lamps' = lamps \cup {drv_buttons}
    /\ motor' = MotorAfter(request', floor, motor)
    /\ drv_buttons' = None
    /\ UNCHANGED <<floor, main, arrived, floorPoll, obstrPoll, plantVars>>

\* The two seconds at the floor begin with the motor running.
HandleFloor_NoStop ==
    /\ main = "select"
    /\ drv_floors # None
    /\ LET a == drv_floors[1]
       IN /\ floor' = a
          /\ request' = request \ {<<a, BT_Cab>>}
          /\ IF <<a, BT_Cab>> \in request
             THEN /\ main' = "sleep"
                  /\ motor' = MotorAfter(request', a, motor)
                  /\ lamps' = lamps \ {<<a, BT_Cab>>}
             ELSE /\ motor' = MotorAfter(request', a, motor)
                  /\ UNCHANGED <<main, lamps>>
    /\ arrived' = TRUE
    /\ drv_floors' = None
    /\ UNCHANGED <<drv_buttons, floorPrev, obstrPoll, plantVars>>

\* The floor is noted only where the car stops.
HandleFloor_LateFloor ==
    /\ main = "select"
    /\ drv_floors # None
    /\ LET a == drv_floors[1]
       IN /\ request' = request \ {<<a, BT_Cab>>}
          /\ IF <<a, BT_Cab>> \in request
             THEN /\ floor' = a
                  /\ main' = "sleep"
                  /\ motor' = MD_Stop
                  /\ lamps' = lamps \ {<<a, BT_Cab>>}
             ELSE /\ motor' = MotorAfter(request', floor, motor)
                  /\ UNCHANGED <<main, lamps, floor>>
    /\ arrived' = TRUE
    /\ drv_floors' = None
    /\ UNCHANGED <<drv_buttons, floorPrev, obstrPoll, plantVars>>

\* case a := <-drv_floors, up to the sleep if the floor has a cab call.
HandleFloor ==
    /\ main = "select"
    /\ drv_floors # None
    /\ LET a == drv_floors[1]
       IN /\ floor' = a
          /\ request' = request \ {<<a, BT_Cab>>}
          /\ IF <<a, BT_Cab>> \in request
             THEN /\ main' = "sleep"
                  /\ motor' = MD_Stop
                  /\ lamps' = lamps \ {<<a, BT_Cab>>}
             ELSE /\ motor' = MotorAfter(request', a, motor)
                  /\ UNCHANGED <<main, lamps>>
    /\ arrived' = TRUE
    /\ drv_floors' = None
    /\ UNCHANGED <<drv_buttons, floorPrev, obstrPoll, plantVars>>

\* The sleep ends without a TakeRequest.
Wake_NoTakeRequest ==
    /\ main = "sleep"
    /\ main' = "select"
    /\ UNCHANGED <<request, floor, motor, lamps, arrived, pollVars, plantVars>>

\* The sleep of FloorTimer seconds ends, TakeRequest follows.
Wake ==
    /\ main = "sleep"
    /\ main' = "select"
    /\ motor' = MotorAfter(request, floor, motor)
    /\ UNCHANGED <<request, floor, lamps, arrived, pollVars, plantVars>>

\* The motor resumes upwards.
HandleObstruction_Up ==
    /\ main = "select"
    /\ drv_obstr # None
    /\ motor' = IF drv_obstr[1] THEN MD_Stop ELSE MD_Up
    /\ drv_obstr' = None
    /\ UNCHANGED <<request, floor, main, lamps, arrived, drv_buttons, floorPoll, obstrPrev,
                   plantVars>>

\* case a := <-drv_obstr: MD_Stop if it is set and "d" otherwise, which is MD_Stop
\* as well: nothing ever assigns d.
HandleObstruction ==
    /\ main = "select"
    /\ drv_obstr # None
    /\ motor' = MD_Stop
    /\ drv_obstr' = None
    /\ UNCHANGED <<request, floor, main, lamps, arrived, drv_buttons, floorPoll, obstrPrev,
                   plantVars>>

\* case a := <-drv_stop, on both edges: every lamp goes out, nothing else.
HandleStop ==
    /\ main = "select"
    /\ stops < MaxStops
    /\ stops' = stops + 1
    /\ lamps' = {}
    /\ UNCHANGED <<request, floor, main, motor, arrived, pollVars, car, obstruction,
                   presses, switches>>

-----------------------------------------------------------------------------
(* The pollers, each in two parts: what it does with the value it has read,    *)
(* and the whole turn, when nothing comes between the reading and that.  A     *)
(* turn that reads nothing new changes nothing.                                *)
(*                                                                         *)
(* PollButtons reports a button when it is let go; what is let go while it     *)
(* waits for the main loop goes unseen if it was pressed meanwhile.            *)

SendButton(b) ==
    /\ drv_buttons = None
    /\ drv_buttons' = b
    /\ UNCHANGED <<loopVars, floorPoll, obstrPoll>>

SendFloor(v) ==
    /\ drv_floors = None
    /\ v # floorPrev
    /\ drv_floors' = IF v # -1 THEN <<v>> ELSE None
    /\ floorPrev' = v
    /\ UNCHANGED <<loopVars, drv_buttons, obstrPoll>>

SendObstruction(v) ==
    /\ drv_obstr = None
    /\ v # obstrPrev
    /\ drv_obstr' = <<v>>
    /\ obstrPrev' = v
    /\ UNCHANGED <<loopVars, drv_buttons, floorPoll>>

\* Some button is let go.
Release ==
    /\ presses < MaxPresses
    /\ presses' = presses + 1
    /\ UNCHANGED <<car, obstruction, switches, stops>>

PollButtons(b) == Release /\ SendButton(b)

GetFloor == IF car % 2 = 0 THEN car \div 2 ELSE -1

PollFloorSensor == SendFloor(GetFloor) /\ UNCHANGED plantVars
PollObstructionSwitch == SendObstruction(obstruction) /\ UNCHANGED plantVars

-----------------------------------------------------------------------------
(* The car and its surroundings (external) *)

\* The car moves on by half a floor in direction m.
Moves(m) ==
    /\ m # MD_Stop
    /\ car + m \in 0 .. 2 * (numFloors - 1)
    /\ car' = car + m
    /\ UNCHANGED <<loopVars, pollVars, obstruction, presses, switches, stops>>

\* The sensor is polled every 20 ms and its event handled at once unless the main
\* loop sleeps, when the motor is off: the car does not leave a floor, or the
\* shaft between two, before the poller and the main loop have seen it.
PositionSeen == floorPrev = GetFloor /\ drv_floors = None

MoveCar == PositionSeen /\ Moves(motor)

SwitchObstruction ==
    /\ switches < MaxSwitches
    /\ switches' = switches + 1
    /\ obstruction' = ~obstruction
    /\ UNCHANGED <<loopVars, pollVars, car, presses, stops>>

-----------------------------------------------------------------------------
Next ==
    \/ HandleButton \/ HandleFloor \/ Wake \/ HandleObstruction \/ HandleStop
    \/ \E b \in Buttons : PollButtons(b)
    \/ PollFloorSensor \/ PollObstructionSwitch
    \/ MoveCar \/ SwitchObstruction

Spec == Init /\ [][Next]_vars

\* select serves every channel that stays ready, sleeps end, pollers poll and a
\* running motor moves the car.
Fairness ==
    /\ SF_vars(HandleButton) /\ SF_vars(HandleFloor)
    /\ SF_vars(HandleObstruction)
    /\ WF_vars(Wake)
    /\ WF_vars(PollFloorSensor) /\ WF_vars(PollObstructionSwitch)
    /\ WF_vars(MoveCar)

FairSpec == Spec /\ Fairness

-----------------------------------------------------------------------------
(* Properties *)

TypeOK ==
    /\ request \subseteq Buttons /\ lamps \subseteq Buttons
    /\ floor \in Floors
    /\ main \in {"select", "sleep"}
    /\ motor \in {MD_Stop, MD_Up, MD_Down}
    /\ drv_buttons \in Buttons \cup {None}
    /\ drv_floors \in {None} \cup {<<f>> : f \in Floors}
    /\ floorPrev \in Floors \cup {-1}
    /\ drv_obstr \in {None, <<TRUE>>, <<FALSE>>} /\ obstrPrev \in BOOLEAN
    /\ car \in 0 .. 2 * (numFloors - 1)
    /\ obstruction \in BOOLEAN /\ arrived \in BOOLEAN
    /\ presses \in 0 .. MaxPresses /\ switches \in 0 .. MaxSwitches
    /\ stops \in 0 .. MaxStops

\* The motor never runs without a reason: there is a cab call ahead of it, on the
\* side of EL1.floor it runs to, in every order of button, floor, obstruction and
\* stop events.
MotorHasTarget ==
    /\ motor = MD_Up => \E f \in CabCalls(request) : f > floor
    /\ motor = MD_Down => \E f \in CabCalls(request) : f < floor

\* While main sleeps at a floor the motor is off and the car stands at that floor's
\* sensor: people get in and out of a car that stays.
StandsWhileOpen == main = "sleep" => motor = MD_Stop /\ car = 2 * floor

\* From the first floor event on EL1.floor is the floor the car stands at or the last
\* one it left, except for the moment a floor event is on its way.
PositionKnown ==
    arrived /\ drv_floors = None /\ floorPrev = GetFloor => car - 2 * floor \in -1 .. 1

\* A lamp that is lit stands for a call the loop still remembers.
LampMeansCall == lamps \subseteq request

\* Once the buttons are left alone every cab call is served, whatever the order in
\* which buttons and floors were reported, except for a call for the floor that
\* EL1.floor names already (TakeRequest starts no motor for it and the sensor has
\* nothing new to report) - as long as the obstruction switch is never on (the motor
\* stays off after it until the next button).
Settles == []~obstruction => <>[](CabCalls(request) \subseteq {floor})
=============================================================================
