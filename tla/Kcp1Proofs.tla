------------------------------ MODULE Kcp1Proofs ------------------------------
(***************************************************************************)
(* Theorems about the programs under kcp1.                                   *)
(*                                                                         *)
(* The elevator: Driver, and through it Elevator, for every number of        *)
(* floors, every panel and any number of presses, switches and stops.        *)
(*                                                                         *)
(* The master: Kcp1Master, for any number of sessions, of reports and of     *)
(* sessions that break.                                                      *)
(*                                                                         *)
(* The two share no variable; only lemmas and theorems meet here.            *)
(***************************************************************************)
EXTENDS Driver, Kcp1Master, WellFoundedInduction, FiniteSetTheorems, SequenceTheorems, TLAPS

Directions == {MD_Stop, MD_Up, MD_Down}
MotorCommand(m) == [set |-> "motor", value |-> m]
Lamp == [set |-> "lamp", value |-> 0]
MotorCommands == {MotorCommand(m) : m \in Directions}
Commands == MotorCommands \cup {Lamp}
Question(p) == [get |-> p]

-----------------------------------------------------------------------------
(* The inductive invariant *)

CarType ==
    /\ request \subseteq Buttons /\ lamps \subseteq Buttons
    /\ floor \in Floors
    /\ main \in {"select", "sleep"}
    /\ motor \in Directions
    /\ drv_buttons \in Buttons \cup {None}
    /\ floorPrev \in Floors \cup {-1}
    /\ drv_floors \in {None} \cup {<<f>> : f \in Floors}
    /\ car \in 0 .. 2 * (numFloors - 1)

\* One getter at a time, and it is not one that still sends what it got before.
LockType ==
    /\ reading \in {{}} \cup {{p} : p \in Pollers}
    /\ \A p \in reading : ~Sending(p)

\* What the server may answer to each question.
Answers(p) ==
    IF p = "button" THEN {Nothing} \cup {[a1 |-> TRUE, a2 |-> b] : b \in Buttons}
    ELSE IF p = "floor" THEN {Nothing} \cup {[a1 |-> TRUE, a2 |-> <<f>>] : f \in Floors}
    ELSE {Nothing, Bit(TRUE)}

\* The getter that holds the lock either waits behind the commands written before its
\* question or has its own answer, and nothing else, on the way back.
WireType ==
    /\ todo \in Seq(Commands)
    /\ toServer \in Seq(Commands \cup {Question(p) : p \in Pollers})
    /\ \A i \in DOMAIN toServer : toServer[i] \in Commands
                                  \/ (i = Len(toServer) /\ toDriver = <<>>
                                      /\ \E p \in reading : toServer[i] = Question(p))
    /\ \/ toDriver = <<>>
       \/ toServer = <<>> /\ \E p \in reading : \E r \in Answers(p) : toDriver = <<r>>

\* The motor main has set last is that of the last command on its way, or the panel's.
NoMotor(q) == \A i \in DOMAIN q : q[i] \notin MotorCommands
LastMotor(q) ==
    \A i \in DOMAIN q :
        q[i] \in MotorCommands /\ (\A j \in DOMAIN q : j > i => q[j] \notin MotorCommands)
            => q[i] = MotorCommand(motor)

MotorFollows ==
    /\ \A i \in DOMAIN todo : todo[i] \in MotorCommands => todo[i] = MotorCommand(motor)
    /\ NoMotor(todo) => LastMotor(toServer) /\ (NoMotor(toServer) => panel = motor)

\* A floor poller's news is true when it comes: the car does not go on before.
FloorNews ==
    /\ Answered("floor") /\ Floor(Head(toDriver)) # floorPrev => Floor(Head(toDriver)) = GetFloor
    /\ drv_floors # None => drv_floors = <<floorPrev>> /\ car = 2 * floorPrev

\* Where the car is, from the floor the poller saw last.
NearPrev ==
    floorPrev # -1 =>
        /\ car - 2 * floorPrev \in -1 .. 1
        /\ drv_floors = None => floor = floorPrev
NearFloor == arrived /\ floorPrev = -1 => car - 2 * floor \in -2 .. 2

CarInv == CarType /\ FloorNews /\ NearPrev /\ NearFloor
WireInv == LockType /\ WireType /\ MotorFollows
Inv == CarInv /\ WireInv /\ MotorHasTarget /\ StandsWhileOpen

-----------------------------------------------------------------------------
(* TakeRequest *)

LEMMA Lowest ==
    ASSUME NEW T, T \subseteq Nat, T # {}
    PROVE  \E i \in T : \A j \in T : i <= j
<1> DEFINE Less == {p \in Nat \X Nat : p[1] < p[2]}
<1>1. IsWellFoundedOn(Less, Nat)
  <2>1. Less = OpToRel(<, Nat)
    BY Zenon DEF OpToRel
  <2> HIDE DEF Less
  <2> QED
    BY <2>1, NatLessThanWellFounded, Zenon
<1>2. PICK i \in T : \A j \in T : ~ (<<j, i>> \in Less)
  <2> HIDE DEF Less
  <2> QED
    BY <1>1, WFMin
<1>3. \A j \in T : <<j, i>> \in Less <=> j < i
  OBVIOUS
<1>4. \A j \in T : i <= j
  <2> HIDE DEF Less
  <2> TAKE j \in T
  <2>1. ~ (j < i) /\ j \in Nat /\ i \in Nat
    BY <1>2, <1>3
  <2> QED
    BY <2>1
<1> QED
  BY <1>4

\* TakeRequest leaves the motor as it is or sets it towards a cab call.
LEMMA TakeRequestTarget ==
    ASSUME NEW req, NEW f \in Floors, NEW m \in Directions
    PROVE  /\ MotorAfter(req, f, m) \in Directions
           /\ Away(req, f) = {} => MotorAfter(req, f, m) = m
           /\ Away(req, f) # {} =>
                \/ MotorAfter(req, f, m) = MD_Up /\ \E i \in CabCalls(req) : i > f
                \/ MotorAfter(req, f, m) = MD_Down /\ \E i \in CabCalls(req) : i < f
<1>1. CASE Away(req, f) = {}
  BY <1>1 DEF MotorAfter
<1>2. CASE Away(req, f) # {}
  <2> DEFINE i == CHOOSE i \in Away(req, f) : \A j \in Away(req, f) : i <= j
  <2>1. Away(req, f) \subseteq Nat /\ Floors \subseteq Nat
    BY FloorsAssumption DEF Away, CabCalls, Floors
  <2>2. \E k \in Away(req, f) : \A j \in Away(req, f) : k <= j
    BY <1>2, <2>1, Lowest
  <2>3. i \in Away(req, f)
    BY <2>2
  <2>4. MotorAfter(req, f, m) = IF f > i THEN MD_Down ELSE MD_Up
    BY <1>2 DEF MotorAfter
  <2> HIDE DEF i
  <2>5. i \in CabCalls(req) /\ i # f /\ i \in Nat /\ f \in Nat
    BY <2>1, <2>3 DEF Away
  <2> QED
    BY <1>2, <2>4, <2>5 DEF Directions
<1> QED
  BY <1>1, <1>2

-----------------------------------------------------------------------------
(* The main loop's steps, whatever the driver does. *)

MainSteps == HandleButton \/ HandleFloor \/ Wake \/ HandleObstruction \/ HandleStop

LEMMA MainType == CarType /\ MainSteps => CarType'
<1> SUFFICES ASSUME CarType, MainSteps PROVE CarType'
    OBVIOUS
<1> USE DEF CarType, floorPoll, obstrPoll, plantVars, pollVars
<1>1. CASE HandleButton
  BY <1>1, TakeRequestTarget DEF HandleButton
<1>2. CASE HandleFloor
  <2>1. /\ drv_floors[1] \in Floors /\ floor' = drv_floors[1]
        /\ request' = request \ {<<drv_floors[1], BT_Cab>>}
        /\ motor' = MD_Stop \/ motor' = MotorAfter(request', drv_floors[1], motor)
        /\ main' \in {"select", "sleep"} /\ lamps' \subseteq lamps
        /\ drv_floors' = None
        /\ UNCHANGED <<car, floorPrev, drv_buttons>>
    BY <1>2 DEF HandleFloor
  <2>2. motor' \in Directions
    BY <2>1, TakeRequestTarget DEF Directions
  <2> QED
    BY <2>1, <2>2
<1>3. CASE Wake
  BY <1>3, TakeRequestTarget DEF Wake
<1>4. CASE HandleObstruction
  BY <1>4 DEF HandleObstruction, Directions
<1>5. CASE HandleStop
  BY <1>5 DEF HandleStop
<1> QED
  BY <1>1, <1>2, <1>3, <1>4, <1>5 DEF MainSteps

LEMMA MainTarget == CarType /\ MotorHasTarget /\ MainSteps => MotorHasTarget'
<1> SUFFICES ASSUME CarType, MotorHasTarget, MainSteps PROVE MotorHasTarget'
    OBVIOUS
\* A motor left as it is keeps its target; one that is set has one.
<1>1. ASSUME NEW f \in Floors, motor' = MotorAfter(request', f, motor), floor' = f,
             Away(request', f) = {} =>
                 \/ motor = MD_Stop
                 \/ f = floor /\ CabCalls(request) \subseteq CabCalls(request')
      PROVE  MotorHasTarget'
  <2>1. CASE Away(request', f) = {}
    BY <1>1, <2>1, TakeRequestTarget DEF MotorHasTarget, CarType, MD_Stop, MD_Up, MD_Down
  <2>2. CASE Away(request', f) # {}
    BY <1>1, <2>2, TakeRequestTarget DEF MotorHasTarget, CarType, MD_Up, MD_Down
  <2> QED
    BY <2>1, <2>2
<1>2. CASE HandleButton
  BY <1>1, <1>2 DEF HandleButton, CarType, CabCalls
<1>3. CASE HandleFloor
  <2>1. drv_floors[1] \in Floors /\ floor' = drv_floors[1]
    BY <1>3 DEF HandleFloor, CarType
  <2>2. CASE <<drv_floors[1], BT_Cab>> \in request
    BY <1>3, <2>2 DEF HandleFloor, MotorHasTarget, MD_Stop, MD_Up, MD_Down
  \* No call was left, so the motor stood.
  <2>3. CASE <<drv_floors[1], BT_Cab>> \notin request
    <3>1. request' = request /\ motor' = MotorAfter(request', drv_floors[1], motor)
      BY <1>3, <2>3 DEF HandleFloor
    <3>2. Away(request, drv_floors[1]) = {} => CabCalls(request) = {}
      BY <2>3 DEF Away, CabCalls
    <3>3. CabCalls(request) = {} => motor = MD_Stop
      BY DEF MotorHasTarget, CarType, Directions
    <3> QED
      BY <1>1, <2>1, <3>1, <3>2, <3>3
  <2> QED
    BY <2>2, <2>3
<1>4. CASE Wake
  BY <1>1, <1>4 DEF Wake, CarType
<1>5. CASE HandleObstruction
  BY <1>5 DEF HandleObstruction, MotorHasTarget, MD_Stop, MD_Up, MD_Down
<1>6. CASE HandleStop
  BY <1>6 DEF HandleStop, MotorHasTarget, CabCalls
<1> QED
  BY <1>2, <1>3, <1>4, <1>5, <1>6 DEF MainSteps

LEMMA MainStands == CarType /\ FloorNews /\ StandsWhileOpen /\ MainSteps => StandsWhileOpen'
<1> SUFFICES ASSUME CarType, FloorNews, StandsWhileOpen, MainSteps PROVE StandsWhileOpen'
    OBVIOUS
<1> USE DEF StandsWhileOpen, plantVars
<1>1. CASE HandleFloor
  <2>1. car = 2 * drv_floors[1] /\ floor' = drv_floors[1] /\ car' = car
    BY <1>1 DEF HandleFloor, FloorNews
  <2>2. main' = "sleep" => motor' = MD_Stop
    BY <1>1 DEF HandleFloor
  <2> QED
    BY <2>1, <2>2
<1>2. CASE HandleButton \/ Wake \/ HandleObstruction \/ HandleStop
  BY <1>2 DEF HandleButton, Wake, HandleObstruction, HandleStop
<1> QED
  BY <1>1, <1>2 DEF MainSteps

\* What main does to what is known of the position: only a floor event matters.
LEMMA MainNear ==
    CarType /\ FloorNews /\ NearPrev /\ NearFloor /\ MainSteps
        => (drv_floors # None => drv_floors = <<floorPrev>> /\ car = 2 * floorPrev)'
           /\ NearPrev' /\ NearFloor'
<1> SUFFICES ASSUME CarType, FloorNews, NearPrev, NearFloor, MainSteps
             PROVE  (drv_floors # None => drv_floors = <<floorPrev>> /\ car = 2 * floorPrev)'
                    /\ NearPrev' /\ NearFloor'
    OBVIOUS
<1> USE DEF FloorNews, NearPrev, NearFloor, plantVars, floorPoll, pollVars
<1>1. CASE HandleFloor
  <2>1. drv_floors = <<floorPrev>> /\ drv_floors' = None /\ floor' = drv_floors[1]
        /\ floorPrev \in Floors /\ UNCHANGED <<floorPrev, car>>
    BY <1>1 DEF HandleFloor, CarType
  <2>2. floorPrev # -1
    BY <2>1, FloorsAssumption DEF Floors
  <2> QED
    BY <2>1, <2>2
<1>2. CASE HandleButton \/ Wake \/ HandleObstruction \/ HandleStop
  BY <1>2 DEF HandleButton, Wake, HandleObstruction, HandleStop
<1> QED
  BY <1>1, <1>2 DEF MainSteps

-----------------------------------------------------------------------------
(* The driver's steps as the elevator sees them *)

LEMMA HalfFloors ==
    ASSUME CarType
    PROVE  \/ car % 2 = 0 /\ GetFloor \in Floors /\ car = 2 * GetFloor
           \/ car % 2 = 1 /\ GetFloor = -1
<1>1. car \in Nat /\ car <= 2 * (numFloors - 1) /\ numFloors \in Nat
  BY FloorsAssumption DEF CarType
<1>2. car % 2 = 0 \/ car % 2 = 1
  BY <1>1
<1>3. car % 2 = 0 => car = 2 * (car \div 2) /\ car \div 2 \in Nat
  BY <1>1
<1> QED
  BY <1>1, <1>2, <1>3 DEF GetFloor, Floors

LEMMA LampIsNoMotor ==
    ASSUME NEW c
    PROVE  /\ c = Lamp => c \notin MotorCommands
           /\ (\E p : c = Question(p)) => c \notin MotorCommands
           /\ c \in MotorCommands => "set" \in DOMAIN c /\ c.set = "motor" /\ "get" \notin DOMAIN c
           /\ c \in Commands => "set" \in DOMAIN c /\ "get" \notin DOMAIN c
           /\ \A p : c = Question(p) => "get" \in DOMAIN c /\ "set" \notin DOMAIN c /\ c.get = p
  BY DEF Lamp, Question, MotorCommands, MotorCommand, Commands

LEMMA PanelIsMotor == ASSUME WireInv, Obeyed PROVE panel = motor
<1>1. todo = <<>> /\ \A i \in DOMAIN toServer : "set" \notin DOMAIN toServer[i]
  BY DEF Obeyed
<1>2. NoMotor(todo)
  BY <1>1 DEF NoMotor
<1>3. NoMotor(toServer)
  BY <1>1, LampIsNoMotor DEF NoMotor
<1> QED
  BY <1>2, <1>3 DEF WireInv, MotorFollows

\* A getter returns with the answer to its own question.
LEMMA OwnAnswer ==
    ASSUME WireInv, NEW p \in Pollers, Answered(p)
    PROVE  /\ reading = {p} /\ toServer = <<>> /\ ~Sending(p)
           /\ Head(toDriver) \in Answers(p) /\ toDriver = <<Head(toDriver)>>
           /\ Tail(toDriver) = <<>>
<1>1. reading = {p} /\ toDriver # <<>>
  BY DEF Answered, WireInv, LockType
<1>2. PICK r \in Answers(p) : toDriver = <<r>> /\ toServer = <<>>
  BY <1>1 DEF WireInv, WireType
<1> QED
  BY <1>1, <1>2 DEF WireInv, LockType

LEMMA FloorAnswer ==
    ASSUME NEW r \in Answers("floor")
    PROVE  /\ Floor(r) \in Floors \cup {-1}
           /\ r = Nothing => Floor(r) = -1
           /\ \A f \in Floors : r = [a1 |-> TRUE, a2 |-> <<f>>] => Floor(r) = f
<1>1. Answers("floor") = {Nothing} \cup {[a1 |-> TRUE, a2 |-> <<f>>] : f \in Floors}
  BY DEF Answers
<1> QED
  BY <1>1 DEF Floor, Nothing, Bit

\* What Return does to the pollers.
LEMMA ReturnFloor ==
    ASSUME WireInv, Return("floor")
    PROVE  LET v == Floor(Head(toDriver)) IN
           /\ Answered("floor") /\ drv_floors = None
           /\ \/ v = floorPrev /\ UNCHANGED <<drv_floors, floorPrev>>
              \/ /\ v # floorPrev /\ floorPrev' = v
                 /\ drv_floors' = IF v # -1 THEN <<v>> ELSE None
           /\ UNCHANGED <<loopVars, plantVars, drv_buttons, obstrPoll>>
<1>1. Answered("floor")
  BY DEF Return, Answered
<1>2. drv_floors = None
  BY <1>1, OwnAnswer DEF Sending, Pollers
<1> QED
  BY <1>1, <1>2 DEF Return, SendFloor, pollVars, floorPoll, obstrPoll

LEMMA ReturnButton ==
    ASSUME WireInv, Return("button")
    PROVE  /\ Answered("button") /\ drv_buttons = None
           /\ \/ ~Head(toDriver).a1 /\ drv_buttons' = None
              \/ Head(toDriver).a1 /\ drv_buttons' = Head(toDriver).a2
           /\ UNCHANGED <<loopVars, plantVars, floorPoll, obstrPoll>>
<1>1. Answered("button")
  BY DEF Return, Answered
<1>2. drv_buttons = None
  BY <1>1, OwnAnswer DEF Sending, Pollers
<1> QED
  BY <1>1, <1>2 DEF Return, SendButton, pollVars

LEMMA ReturnObstruction ==
    ASSUME WireInv, Return("obstruction")
    PROVE  /\ Answered("obstruction") /\ drv_obstr = None
           /\ \/ Head(toDriver).a1 = obstrPrev /\ UNCHANGED obstrPoll
              \/ /\ Head(toDriver).a1 # obstrPrev
                 /\ drv_obstr' = <<Head(toDriver).a1>> /\ obstrPrev' = Head(toDriver).a1
           /\ UNCHANGED <<loopVars, plantVars, drv_buttons, floorPoll>>
<1>1. Answered("obstruction")
  BY DEF Return, Answered
<1>2. drv_obstr = None
  BY <1>1, OwnAnswer DEF Sending, Pollers
<1> QED
  BY <1>1, <1>2 DEF Return, SendObstruction, pollVars, obstrPoll

LEMMA AfterReturn ==
    ASSUME WireInv, NEW p \in Pollers, Return(p)
    PROVE  reading' = {} /\ toDriver' = <<>> /\ UNCHANGED <<todo, toServer, panel>>
<1>1. Answered(p)
  BY DEF Return, Answered
<1> QED
  BY <1>1, OwnAnswer DEF Return

\* The server carries out a command, or answers the question of the one that waits.
LEMMA ServeCases ==
    ASSUME CarType, WireInv, Serve
    PROVE  /\ toServer # <<>> /\ toServer' = Tail(toServer) /\ UNCHANGED <<reading, todo>>
           /\ \/ /\ Head(toServer) \in Commands
                 /\ panel' = IF Head(toServer) \in MotorCommands THEN Head(toServer).value
                             ELSE panel
                 /\ UNCHANGED <<vars, toDriver>>
              \/ /\ Head(toServer) \notin Commands /\ Len(toServer) = 1 /\ toDriver = <<>>
                 /\ \E p \in Pollers : \E r \in Answers(p) :
                        reading = {p} /\ Reading(p, r) /\ toDriver' = <<r>>
                 /\ UNCHANGED <<loopVars, pollVars, panel>>
<1>1. toServer # <<>> /\ toServer' = Tail(toServer) /\ UNCHANGED <<reading, todo>>
  BY DEF Serve
<1>2. 1 \in DOMAIN toServer /\ Head(toServer) = toServer[1]
  BY <1>1 DEF WireInv, WireType
<1>3. CASE Head(toServer) \in Commands
  <2>1. "set" \in DOMAIN Head(toServer) /\ "get" \notin DOMAIN Head(toServer)
    BY <1>3, LampIsNoMotor
  <2>2. Carries(Head(toServer))
    <3>1. LET c == Head(toServer)
          IN  \/ "set" \in DOMAIN c /\ Carries(c)
              \/ /\ "get" \in DOMAIN c
                 /\ \E r \in Replies : Reading(c.get, r) /\ toDriver' = Append(toDriver, r)
                 /\ UNCHANGED <<loopVars, pollVars, panel>>
      BY Zenon DEF Serve
    <3> QED
      BY <2>1, <3>1
  <2>3. Head(toServer).set = "motor" <=> Head(toServer) \in MotorCommands
    <3>1. CASE Head(toServer) \in MotorCommands
      BY <3>1, LampIsNoMotor
    <3>2. CASE Head(toServer) = Lamp
      <4>1. Head(toServer).set = "lamp" /\ Head(toServer) \notin MotorCommands
        BY <3>2, LampIsNoMotor DEF Lamp
      <4> QED
        BY <4>1
    <3> QED
      BY <1>3, <3>1, <3>2 DEF Commands
  <2> QED
    BY <1>1, <1>3, <2>2, <2>3 DEF Carries
<1>4. CASE Head(toServer) \notin Commands
  <2>1. PICK p \in reading : Head(toServer) = Question(p) /\ 1 = Len(toServer) /\ toDriver = <<>>
    BY <1>2, <1>4 DEF WireInv, WireType
  <2>2. p \in Pollers /\ reading = {p}
    BY <2>1 DEF WireInv, LockType
  <2>3. "set" \notin DOMAIN Head(toServer) /\ Head(toServer).get = p
    BY <2>1, LampIsNoMotor
  <2>4. PICK r \in Replies : Reading(p, r) /\ toDriver' = Append(toDriver, r)
                             /\ UNCHANGED <<loopVars, pollVars, panel>>
    BY <2>3 DEF Serve
  <2>5. toDriver' = <<r>>
    BY <2>1, <2>4
  <2>6. r \in Answers(p)
    <3>1. CASE p = "button"
      BY <2>4, <3>1 DEF Reading, Answers
    <3>2. CASE p = "floor"
      BY <2>4, <3>2, HalfFloors DEF Reading, Answers
    <3>3. CASE p = "obstruction"
      BY <2>4, <3>3 DEF Reading, Answers, Replies, Nothing, Bit
    <3> QED
      BY <2>2, <3>1, <3>2, <3>3 DEF Pollers
  <2> QED
    BY <1>1, <1>4, <2>1, <2>2, <2>4, <2>5, <2>6
<1> QED
  BY <1>3, <1>4

LEMMA ServeQuiet ==
    ASSUME CarType, WireInv, Serve
    PROVE  UNCHANGED <<loopVars, pollVars, car, obstruction, reading, todo>>
<1>1. UNCHANGED vars => UNCHANGED <<loopVars, pollVars, car, obstruction>>
  BY DEF vars, plantVars
<1>2. \A p \in Pollers : \A r : Reading(p, r) => UNCHANGED <<car, obstruction>>
  BY DEF Reading, Release, plantVars, Pollers
<1> QED
  BY <1>1, <1>2, ServeCases

LEMMA MainLoopSteps ==
    ASSUME MainLoop
    PROVE  MainSteps /\ todo = <<>> /\ UNCHANGED <<connVars, panel>>
  BY DEF MainLoop, MainSteps, ButtonCase, FloorCase, AfterSleep, ObstructionCase, StopCase, Writes

\* Moved by the panel, seen by the poller, or neither.
CarMoves == PositionSeen /\ Obeyed /\ Moves(panel) /\ UNCHANGED <<connVars, todo, panel>>
Switched == SwitchObstruction /\ UNCHANGED <<connVars, todo, panel>>

LEMMA Steps ==
    ASSUME [DNext]_dvars
    PROVE  \/ MainLoop \/ Write
           \/ \E p \in Pollers : Ask(p)
           \/ Return("button") \/ Return("floor") \/ Return("obstruction")
           \/ Serve \/ CarMoves \/ Switched \/ UNCHANGED dvars
  BY DEF DNext, Pollers, Outside, CarMoves, Switched

\* Steps that leave the car, what main knows of it and the floor poller alone.
Apart == UNCHANGED <<loopVars, floorPoll, car>>

LEMMA ApartSteps ==
    ASSUME CarType, WireInv, [DNext]_dvars
    PROVE  Apart \/ MainLoop \/ Return("floor") \/ CarMoves
<1>1. CASE UNCHANGED vars
  BY <1>1 DEF Apart, vars, pollVars, plantVars
<1>2. CASE Return("button") \/ Return("obstruction")
  BY <1>2, ReturnButton, ReturnObstruction DEF Apart, plantVars
<1>3. CASE Serve
  BY <1>3, ServeQuiet DEF Apart, pollVars
<1>4. CASE Switched
  BY <1>4 DEF Switched, SwitchObstruction, Apart, pollVars
<1>5. Write \/ (\E p \in Pollers : Ask(p)) \/ UNCHANGED dvars => UNCHANGED vars
  BY DEF Write, Ask, dvars
<1> QED
  BY <1>1, <1>2, <1>3, <1>4, <1>5, Steps

LEMMA NextCarType == Inv /\ [DNext]_dvars => CarType'
<1> SUFFICES ASSUME Inv, CarType, WireInv, [DNext]_dvars PROVE CarType'
    BY DEF Inv, CarInv
<1>1. CASE MainLoop
  BY <1>1, MainLoopSteps, MainType
<1>2. CASE Return("floor")
  <2>1. Head(toDriver) \in Answers("floor")
    BY <1>2, ReturnFloor, OwnAnswer DEF Pollers
  <2>2. Floor(Head(toDriver)) \in Floors \cup {-1}
    BY <2>1, FloorAnswer
  <2> QED
    BY <1>2, <2>2, ReturnFloor DEF CarType, loopVars, plantVars
<1>3. CASE CarMoves
  BY <1>3 DEF CarMoves, Moves, CarType, loopVars, pollVars, floorPoll
<1>4. CASE Apart
  <2>1. drv_buttons' \in Buttons \cup {None}
    <3>1. CASE Return("button")
      <4>1. Head(toDriver) \in Answers("button")
        BY <3>1, ReturnButton, OwnAnswer DEF Pollers
      <4>2. Head(toDriver).a1 => Head(toDriver).a2 \in Buttons
        BY <4>1 DEF Answers, Nothing, Bit
      <4> QED
        BY <3>1, <4>2, ReturnButton
    <3>2. CASE Return("floor") \/ Return("obstruction")
      BY <3>2, ReturnFloor, ReturnObstruction DEF CarType
    <3>3. CASE MainLoop
      BY <3>3, MainLoopSteps, MainType DEF CarType
    <3>4. CASE Serve
      BY <3>4, ServeQuiet DEF pollVars, CarType
    <3>5. CASE CarMoves \/ Switched
      BY <3>5 DEF CarMoves, Moves, Switched, SwitchObstruction, pollVars, CarType
    <3>6. Write \/ (\E p \in Pollers : Ask(p)) \/ UNCHANGED dvars => UNCHANGED drv_buttons
      BY DEF Write, Ask, dvars, vars, pollVars
    <3> QED
      BY <3>1, <3>2, <3>3, <3>4, <3>5, <3>6, Steps DEF CarType
  <2> QED
    BY <1>4, <2>1 DEF Apart, CarType, loopVars, floorPoll
<1> QED
  BY <1>1, <1>2, <1>3, <1>4, ApartSteps

LEMMA NextSafe == Inv /\ [DNext]_dvars => MotorHasTarget' /\ StandsWhileOpen'
<1> SUFFICES ASSUME Inv, CarType, WireInv, [DNext]_dvars PROVE MotorHasTarget' /\ StandsWhileOpen'
    BY DEF Inv, CarInv
<1>1. CASE MainLoop
  BY <1>1, MainLoopSteps, MainTarget, MainStands DEF Inv, CarInv
<1>2. ASSUME UNCHANGED <<loopVars, car>> PROVE MotorHasTarget' /\ StandsWhileOpen'
  BY <1>2 DEF Inv, loopVars, MotorHasTarget, StandsWhileOpen
\* While main sleeps the motor it has set is off, and so is the panel's.
<1>3. CASE CarMoves
  <2>1. panel = motor /\ panel # MD_Stop /\ UNCHANGED loopVars
    BY <1>3, PanelIsMotor DEF CarMoves, Moves
  <2>2. main # "sleep"
    BY <2>1 DEF Inv, StandsWhileOpen
  <2> QED
    BY <2>1, <2>2 DEF Inv, loopVars, MotorHasTarget, StandsWhileOpen
<1>4. Return("floor") \/ Apart => UNCHANGED <<loopVars, car>>
  BY ReturnFloor DEF Apart, plantVars
<1> QED
  BY <1>1, <1>2, <1>3, <1>4, ApartSteps

LEMMA NextNear ==
    Inv /\ [DNext]_dvars =>
        (drv_floors # None => drv_floors = <<floorPrev>> /\ car = 2 * floorPrev)'
        /\ NearPrev' /\ NearFloor'
<1> DEFINE Event == drv_floors # None => drv_floors = <<floorPrev>> /\ car = 2 * floorPrev
<1> SUFFICES ASSUME Inv, CarType, FloorNews, NearPrev, NearFloor, WireInv, [DNext]_dvars
             PROVE  Event' /\ NearPrev' /\ NearFloor'
    BY DEF Inv, CarInv
<1>1. CASE MainLoop
  BY <1>1, MainLoopSteps, MainNear
<1>2. CASE Apart
  BY <1>2 DEF Apart, floorPoll, loopVars, FloorNews, NearPrev, NearFloor
<1>3. CASE Return("floor")
  <2> DEFINE v == Floor(Head(toDriver))
  <2>1. Answered("floor") /\ drv_floors = None /\ UNCHANGED <<loopVars, car>>
    BY <1>3, ReturnFloor DEF plantVars
  <2>2. CASE v = floorPrev /\ UNCHANGED <<drv_floors, floorPrev>>
    BY <2>1, <2>2 DEF loopVars, NearPrev, NearFloor
  <2>3. CASE v # floorPrev /\ floorPrev' = v /\ drv_floors' = IF v # -1 THEN <<v>> ELSE None
    <3>1. v = GetFloor
      BY <2>1, <2>3 DEF FloorNews
    <3>2. CASE v = -1
      <4>1. floorPrev # -1 /\ floorPrev' = -1 /\ drv_floors' = None
        BY <2>3, <3>2
      <4>2. floor = floorPrev /\ car - 2 * floorPrev \in -1 .. 1
        BY <2>1, <4>1 DEF NearPrev
      <4> QED
        BY <2>1, <4>1, <4>2 DEF NearPrev, NearFloor, loopVars
    <3>3. CASE v # -1
      <4>1. car = 2 * v /\ v \in Floors
        BY <3>1, <3>3, HalfFloors
      <4>2. v \in Nat
        BY <4>1, FloorsAssumption DEF Floors
      <4>3. drv_floors' = <<v>> /\ floorPrev' = v /\ car' = car
        BY <2>1, <2>3, <3>3
      <4>4. car' - 2 * floorPrev' \in -1 .. 1 /\ floorPrev' # -1 /\ drv_floors' # None
        <5> HIDE DEF v
        <5> QED
          BY <4>1, <4>2, <4>3 DEF None
      <4>5. drv_floors' = <<floorPrev'>> /\ car' = 2 * floorPrev'
        BY <4>1, <4>3
      <4> QED
        BY <4>4, <4>5 DEF NearPrev, NearFloor
    <3> QED
      BY <3>2, <3>3
  <2> QED
    BY <1>3, <2>2, <2>3, ReturnFloor
\* The car moves by half a floor from where the poller saw it.
<1>4. CASE CarMoves
  <2>1. /\ floorPrev = GetFloor /\ drv_floors = None /\ car' = car + panel
        /\ UNCHANGED <<loopVars, drv_floors, floorPrev>>
    BY <1>4 DEF CarMoves, PositionSeen, Moves, pollVars, floorPoll
  <2>2. panel \in -1 .. 1
    BY <1>4, PanelIsMotor DEF CarMoves, CarType, Directions, MD_Stop, MD_Up, MD_Down
  <2>3. car \in Nat /\ floor \in Nat
    BY FloorsAssumption DEF CarType, Floors
  <2>4. CASE GetFloor = -1
    <3>1. car % 2 = 1
      BY <2>4, HalfFloors DEF Floors
    <3>2. car - 2 * floor \in -2 .. 2 => car - 2 * floor \in -1 .. 1
      BY <2>3, <3>1
    <3> QED
      BY <2>1, <2>2, <2>3, <2>4, <3>2 DEF NearPrev, NearFloor, loopVars
  <2>5. CASE GetFloor # -1
    <3>1. car = 2 * floorPrev
      BY <2>1, <2>5, HalfFloors
    <3> QED
      BY <2>1, <2>2, <2>3, <2>5, <3>1 DEF NearPrev, NearFloor, loopVars
  <2> QED
    BY <2>4, <2>5
<1> QED
  BY <1>1, <1>2, <1>3, <1>4, ApartSteps

LEMMA NextNews ==
    Inv /\ [DNext]_dvars =>
        (Answered("floor") /\ Floor(Head(toDriver)) # floorPrev
            => Floor(Head(toDriver)) = GetFloor)'
<1> DEFINE News == Answered("floor") /\ Floor(Head(toDriver)) # floorPrev
                       => Floor(Head(toDriver)) = GetFloor
<1> SUFFICES ASSUME Inv, CarType, FloorNews, WireInv, [DNext]_dvars PROVE News'
    BY DEF Inv, CarInv
<1>1. CASE UNCHANGED <<reading, toDriver, floorPrev, car>>
  BY <1>1 DEF FloorNews, Answered, GetFloor
<1>2. CASE MainLoop
  <2>1. UNCHANGED <<floorPrev, car>>
    BY <1>2, MainLoopSteps DEF MainSteps, HandleButton, HandleFloor, Wake, HandleObstruction,
       HandleStop, floorPoll, pollVars, plantVars
  <2> QED
    BY <1>1, <1>2, <2>1, MainLoopSteps DEF connVars
<1>3. CASE Write
  BY <1>1, <1>3 DEF Write, vars, pollVars, floorPoll, plantVars
<1>4. ASSUME NEW p \in Pollers, Ask(p) PROVE News'
  <2>1. toDriver = <<>> /\ toDriver' = toDriver
    BY <1>4 DEF Ask, Unlocked, WireInv, WireType
  <2> QED
    BY <2>1 DEF Answered
<1>5. ASSUME NEW p \in Pollers, Return(p) PROVE News'
  BY <1>5, AfterReturn DEF Answered
<1>6. CASE Serve
  <2>1. UNCHANGED <<reading, car, floorPrev>>
    BY <1>6, ServeQuiet DEF pollVars, floorPoll
  <2>2. CASE toDriver' = toDriver
    BY <1>1, <2>1, <2>2
  <2>3. ASSUME NEW p \in Pollers, NEW r \in Answers(p),
               reading = {p}, Reading(p, r), toDriver' = <<r>>
        PROVE  News'
    <3>1. CASE p = "floor"
      <4>1. r = IF GetFloor = -1 THEN Nothing ELSE [a1 |-> TRUE, a2 |-> <<GetFloor>>]
        BY <2>3, <3>1 DEF Reading
      <4>2. Floor(r) = GetFloor
        BY <3>1, <4>1, FloorAnswer, HalfFloors
      <4>3. GetFloor' = GetFloor /\ Head(toDriver') = r
        BY <2>1, <2>3 DEF GetFloor
      <4>4. (Floor(Head(toDriver)))' = Floor(r)
        BY <4>3 DEF Floor
      <4> QED
        BY <4>2, <4>3, <4>4
    <3>2. CASE p # "floor"
      BY <2>1, <2>3, <3>2 DEF Answered
    <3> QED
      BY <3>1, <3>2
  <2> QED
    BY <1>6, <2>2, <2>3, ServeCases
\* No news is on its way while the car can move.
<1>7. CASE CarMoves
  <2>1. floorPrev = GetFloor /\ UNCHANGED <<reading, toDriver, floorPrev>>
    BY <1>7 DEF CarMoves, PositionSeen, Moves, pollVars, floorPoll, connVars
  <2>2. Answered("floor") => Floor(Head(toDriver)) = floorPrev
    BY <2>1 DEF FloorNews
  <2> QED
    BY <2>1, <2>2 DEF Answered
<1>8. CASE Switched \/ UNCHANGED dvars
  BY <1>1, <1>8 DEF Switched, SwitchObstruction, dvars, connVars, vars, pollVars, floorPoll, plantVars
<1> QED
  BY <1>2, <1>3, <1>4, <1>5, <1>6, <1>7, <1>8, Steps DEF Pollers

-----------------------------------------------------------------------------
(* The lock and the wire *)

\* main never starts a poller's send, it only ends one.
LEMMA MainSends == MainSteps => \A p \in Pollers : Sending(p)' => Sending(p)
  BY DEF MainSteps, HandleButton, HandleFloor, Wake, HandleObstruction, HandleStop, Sending,
         floorPoll, obstrPoll, pollVars, Pollers

LEMMA NextLock == Inv /\ [DNext]_dvars => LockType'
<1> SUFFICES ASSUME LockType, CarType, WireInv, [DNext]_dvars PROVE LockType'
    BY DEF Inv, CarInv, WireInv
<1>1. ASSUME UNCHANGED reading, UNCHANGED pollVars PROVE LockType'
  BY <1>1 DEF LockType, Sending, pollVars, floorPoll, obstrPoll
<1>2. CASE MainLoop
  <2>1. reading' = reading /\ \A p \in Pollers : Sending(p)' => Sending(p)
    BY <1>2, MainLoopSteps, MainSends DEF connVars
  <2> QED
    BY <2>1 DEF LockType
<1>3. ASSUME NEW p \in Pollers, Ask(p) PROVE LockType'
  <2>1. reading' = {p} /\ ~Sending(p) /\ UNCHANGED vars
    BY <1>3 DEF Ask
  <2>2. ~Sending(p)'
    BY <2>1 DEF Sending, vars, pollVars, floorPoll, obstrPoll
  <2> QED
    BY <2>1, <2>2 DEF LockType
<1>4. Return("button") \/ Return("floor") \/ Return("obstruction") => reading' = {}
  BY AfterReturn DEF Pollers
<1>5. CASE Serve
  BY <1>1, <1>5, ServeQuiet
<1>6. Write \/ CarMoves \/ Switched \/ UNCHANGED dvars => UNCHANGED reading /\ UNCHANGED pollVars
  BY DEF Write, CarMoves, Moves, Switched, SwitchObstruction, dvars, vars, connVars
<1> QED
  BY <1>1, <1>2, <1>3, <1>4, <1>5, <1>6, Steps DEF LockType

LEMMA TwoCommands == ASSUME NEW a, NEW b PROVE <<a>> \o <<b>> = <<a, b>> /\ <<a>> \o <<>> = <<a>>
<1> DEFINE S == {a, b}
           s == <<a>> \o <<b>>
           t == <<a, b>>
<1>1. <<a>> \in Seq(S) /\ <<b>> \in Seq(S) /\ t \in Seq(S)
  OBVIOUS
<1>2. Len(s) = 2 /\ s[1] = a /\ s[2] = b
  OBVIOUS
<1>3. s \in Seq(S)
  BY <1>1, ConcatProperties
<1>4. Len(s) = Len(t) /\ \A i \in 1 .. Len(s) : s[i] = t[i]
  BY <1>2
<1>5. <<a>> \o <<>> = <<a>>
  BY <1>1, ConcatEmptySeq
<1> HIDE DEF s, t, S
<1>6. s = t
  BY <1>1, <1>3, <1>4, SeqEqual
<1> QED
  BY <1>5, <1>6 DEF s, t

\* What a case of the select writes: its motor command, if it sets the motor.
LEMMA MainWrites ==
    ASSUME CarType, MainLoop
    PROVE  LET m == MotorCommand(motor') IN
           \/ todo' \in {<<>>, <<Lamp>>} /\ motor' = motor
           \/ todo' \in {<<m>>, <<Lamp, m>>, <<m, Lamp>>}
<1> DEFINE m == MotorCommand(motor')
<1>1. SetMotorDirection(motor') = <<m>> /\ SetButtonLamp = <<Lamp>>
  BY DEF SetMotorDirection, SetButtonLamp, MotorCommand, Lamp
<1>2. TakeRequest = IF Away(request', floor') = {} THEN <<>> ELSE <<m>>
  BY <1>1 DEF TakeRequest
<1>3. motor' = MotorAfter(request', floor', motor) /\ Away(request', floor') = {}
          => motor' = motor
  BY DEF MotorAfter
<1>4. <<Lamp>> \o <<>> = <<Lamp>> /\ <<Lamp>> \o <<m>> = <<Lamp, m>>
      /\ <<m>> \o <<Lamp>> = <<m, Lamp>>
  BY TwoCommands
<1> HIDE DEF m
<1>5. CASE ButtonCase
  <2>1. todo' = <<Lamp>> \o TakeRequest
    BY <1>1, <1>5 DEF ButtonCase, Writes
  <2>2. floor' = floor /\ motor' = MotorAfter(request', floor, motor)
    BY <1>5 DEF ButtonCase, HandleButton
  <2> QED
    BY <1>2, <1>3, <1>4, <2>1, <2>2 DEF m
<1>6. CASE FloorCase
  <2>1. CASE main' = "sleep"
    BY <1>1, <1>4, <1>6, <2>1 DEF FloorCase, Writes, m
  <2>2. CASE main' # "sleep"
    <3>1. todo' = TakeRequest
      BY <1>6, <2>2 DEF FloorCase, Writes
    <3>2. motor' = MotorAfter(request', floor', motor)
      BY <1>6, <2>2 DEF FloorCase, HandleFloor
    <3> QED
      BY <1>2, <1>3, <3>1, <3>2 DEF m
  <2> QED
    BY <2>1, <2>2
<1>7. CASE AfterSleep
  BY <1>2, <1>3, <1>7 DEF AfterSleep, Writes, Wake, m
<1>8. CASE ObstructionCase
  BY <1>1, <1>8 DEF ObstructionCase, Writes, m
<1>9. CASE StopCase
  BY <1>1, <1>9 DEF StopCase, Writes, HandleStop, m
<1> QED
  BY <1>5, <1>6, <1>7, <1>8, <1>9 DEF MainLoop

LEMMA MainFollows == WireInv /\ CarType /\ MainLoop => MotorFollows' /\ todo' \in Seq(Commands)
<1> DEFINE m == MotorCommand(motor')
<1> SUFFICES ASSUME WireInv, CarType, MainLoop PROVE MotorFollows' /\ todo' \in Seq(Commands)
    OBVIOUS
<1>1. todo = <<>> /\ UNCHANGED <<toServer, panel>> /\ motor' \in Directions
  BY MainLoopSteps, MainType DEF connVars, CarType
<1>2. m \in MotorCommands /\ Lamp \notin MotorCommands /\ MotorCommands \subseteq Commands
      /\ Lamp \in Commands
  BY <1>1, LampIsNoMotor DEF MotorCommands, Commands
<1> HIDE DEF m
<1>3. CASE todo' \in {<<>>, <<Lamp>>} /\ motor' = motor
  <2>1. todo' \in Seq(Commands) /\ \A i \in DOMAIN todo' : todo'[i] \notin MotorCommands
    <3>1. CASE todo' = <<>>
      BY <3>1
    <3>2. CASE todo' = <<Lamp>>
      BY <1>2, <3>2
    <3> QED
      BY <1>3, <3>1, <3>2
  <2>2. LastMotor(toServer) /\ (NoMotor(toServer) => panel = motor)
    BY <1>1 DEF WireInv, MotorFollows, NoMotor
  <2> QED
    BY <1>1, <1>3, <2>1, <2>2 DEF MotorFollows, LastMotor, NoMotor
<1>4. CASE todo' \in {<<m>>, <<Lamp, m>>, <<m, Lamp>>}
  <2>1. todo' \in Seq(Commands) /\ \E i \in DOMAIN todo' : todo'[i] = m
    <3>1. CASE todo' = <<m>>
      BY <1>2, <3>1
    <3>2. CASE todo' = <<Lamp, m>>
      <4>1. todo'[2] = m /\ 2 \in DOMAIN todo'
        BY <3>2
      <4> QED
        BY <1>2, <3>2, <4>1
    <3>3. CASE todo' = <<m, Lamp>>
      <4>1. todo'[1] = m /\ 1 \in DOMAIN todo'
        BY <3>3
      <4> QED
        BY <1>2, <3>3, <4>1
    <3> QED
      BY <1>4, <3>1, <3>2, <3>3
  <2>2. \A i \in DOMAIN todo' : todo'[i] \in {m, Lamp}
    BY <1>4
  <2>3. ~NoMotor(todo')
    BY <1>2, <2>1 DEF NoMotor
  <2>4. \A i \in DOMAIN todo' : todo'[i] \in MotorCommands => todo'[i] = m
    BY <1>2, <2>2
  <2> QED
    BY <2>1, <2>3, <2>4 DEF MotorFollows, m
<1> QED
  BY <1>3, <1>4, MainWrites DEF m

\* A write puts the commands behind those on their way.
LEMMA WriteFollows == WireInv /\ Write => MotorFollows' /\ WireType'
<1> SUFFICES ASSUME WireInv, Write PROVE MotorFollows' /\ WireType'
    OBVIOUS
<1>1. reading = {} /\ todo' = <<>> /\ toServer' = toServer \o todo
      /\ UNCHANGED <<reading, toDriver, panel, motor>>
  BY DEF Write, Unlocked, vars, loopVars
<1>2. toDriver = <<>> /\ todo \in Seq(Commands) /\ \A i \in DOMAIN toServer : toServer[i] \in Commands
  BY <1>1 DEF WireInv, WireType
<1>3. toServer \in Seq(Commands)
  BY <1>2 DEF WireInv, WireType
<1>4. toServer' \in Seq(Commands) /\ Len(toServer') = Len(toServer) + Len(todo)
      /\ \A i \in 1 .. Len(toServer) + Len(todo) :
            toServer'[i] = IF i <= Len(toServer) THEN toServer[i] ELSE todo[i - Len(toServer)]
  BY <1>1, <1>2, <1>3, ConcatProperties
<1>5. WireType'
  BY <1>1, <1>2, <1>4 DEF WireType
\* A command that was on its way is the last only if the new ones set no motor.
<1>6. LastMotor(toServer)'
  <2> SUFFICES ASSUME NEW i \in DOMAIN toServer', toServer'[i] \in MotorCommands,
                      \A j \in DOMAIN toServer' : j > i => toServer'[j] \notin MotorCommands
               PROVE  toServer'[i] = MotorCommand(motor)
      BY <1>1 DEF LastMotor
  <2>1. i \in 1 .. Len(toServer) + Len(todo) /\ Len(toServer) \in Nat /\ Len(todo) \in Nat
        /\ DOMAIN toServer = 1 .. Len(toServer) /\ DOMAIN todo = 1 .. Len(todo)
    BY <1>2, <1>3, <1>4
  <2>2. CASE i <= Len(toServer)
    <3>1. i \in DOMAIN toServer /\ toServer'[i] = toServer[i]
      BY <1>4, <2>1, <2>2
    <3>2. NoMotor(todo)
      <4> SUFFICES ASSUME NEW k \in DOMAIN todo PROVE todo[k] \notin MotorCommands
          BY DEF NoMotor
      <4>1. Len(toServer) + k \in 1 .. Len(toServer) + Len(todo) /\ Len(toServer) + k > i
            /\ ~(Len(toServer) + k <= Len(toServer)) /\ (Len(toServer) + k) - Len(toServer) = k
        BY <2>1, <2>2
      <4> QED
        BY <1>4, <4>1
    <3>3. \A j \in DOMAIN toServer : j > i => toServer[j] \notin MotorCommands
      BY <1>4, <2>1
    <3> QED
      BY <3>1, <3>2, <3>3 DEF WireInv, MotorFollows, LastMotor
  <2>3. CASE ~(i <= Len(toServer))
    <3>1. i - Len(toServer) \in DOMAIN todo /\ toServer'[i] = todo[i - Len(toServer)]
      BY <1>4, <2>1, <2>3
    <3> QED
      BY <3>1 DEF WireInv, MotorFollows
  <2> QED
    BY <2>2, <2>3
<1>7. NoMotor(toServer)' => panel = motor
  <2> SUFFICES ASSUME \A i \in DOMAIN toServer' : toServer'[i] \notin MotorCommands
               PROVE  panel = motor
      BY DEF NoMotor
  <2>1. Len(toServer) \in Nat /\ Len(todo) \in Nat /\ DOMAIN toServer' = 1 .. Len(toServer) + Len(todo)
        /\ DOMAIN toServer = 1 .. Len(toServer) /\ DOMAIN todo = 1 .. Len(todo)
    BY <1>2, <1>3, <1>4
  <2>2. NoMotor(toServer)
    <3> SUFFICES ASSUME NEW i \in DOMAIN toServer PROVE toServer[i] \notin MotorCommands
        BY DEF NoMotor
    <3>1. i \in DOMAIN toServer' /\ i <= Len(toServer)
      BY <2>1
    <3> QED
      BY <1>4, <2>1, <3>1
  <2>3. NoMotor(todo)
    <3> SUFFICES ASSUME NEW k \in DOMAIN todo PROVE todo[k] \notin MotorCommands
        BY DEF NoMotor
    <3>1. Len(toServer) + k \in DOMAIN toServer' /\ ~(Len(toServer) + k <= Len(toServer))
          /\ (Len(toServer) + k) - Len(toServer) = k
      BY <2>1
    <3> QED
      BY <1>4, <2>1, <3>1
  <2> QED
    BY <2>2, <2>3 DEF WireInv, MotorFollows
<1> QED
  BY <1>1, <1>5, <1>6, <1>7 DEF MotorFollows, LastMotor, NoMotor

\* A question goes behind the commands on their way: no other is there.
LEMMA AskWire == ASSUME WireInv, NEW p \in Pollers, Ask(p) PROVE WireType' /\ MotorFollows'
<1>1. reading = {} /\ reading' = {p} /\ toServer' = Append(toServer, Question(p))
      /\ UNCHANGED <<todo, toDriver, panel, motor>>
  BY DEF Ask, Unlocked, vars, loopVars, Question
<1>2. toDriver = <<>> /\ \A i \in DOMAIN toServer : toServer[i] \in Commands
  BY <1>1 DEF WireInv, WireType
<1> DEFINE S == Commands \cup {Question(q) : q \in Pollers}
           n == Len(toServer)
<1>3. Question(p) \in S /\ toServer \in Seq(S)
  BY DEF WireInv, WireType
<1> HIDE DEF S
<1>4. toServer' \in Seq(S) /\ Len(toServer') = n + 1 /\ n \in Nat
      /\ toServer'[n + 1] = Question(p)
      /\ DOMAIN toServer = 1 .. n /\ DOMAIN toServer' = 1 .. n + 1
      /\ \A i \in 1 .. n : toServer'[i] = toServer[i]
  BY <1>1, <1>3
<1>5. Question(p) \notin MotorCommands
  BY LampIsNoMotor
<1> HIDE DEF n
<1>6. \A i \in 1 .. n + 1 : i \in 1 .. n \/ i = n + 1
  BY <1>4
<1>7. WireType'
  <2>1. \A i \in 1 .. n : toServer'[i] \in Commands
    BY <1>2, <1>4
  <2>2. todo' \in Seq(Commands)
    BY <1>1 DEF WireInv, WireType
  <2>3. \E q \in reading' : toServer'[n + 1] = Question(q)
    BY <1>1, <1>4
  <2> QED
    BY <1>1, <1>2, <1>4, <1>6, <2>1, <2>2, <2>3 DEF WireType, S
<1>8. NoMotor(toServer)' <=> NoMotor(toServer)
  BY <1>4, <1>5, <1>6 DEF NoMotor
<1>9. LastMotor(toServer) => LastMotor(toServer)'
  <2> SUFFICES ASSUME LastMotor(toServer),
                      NEW i \in DOMAIN toServer', toServer'[i] \in MotorCommands,
                      \A j \in DOMAIN toServer' : j > i => toServer'[j] \notin MotorCommands
               PROVE  toServer'[i] = MotorCommand(motor)
      BY <1>1 DEF LastMotor
  <2>1. i \in 1 .. n
    BY <1>4, <1>5, <1>6
  <2>2. \A j \in 1 .. n : j \in 1 .. n + 1
    BY <1>4
  <2> QED
    BY <1>4, <2>1, <2>2 DEF LastMotor
<1> QED
  BY <1>1, <1>7, <1>8, <1>9 DEF MotorFollows, WireInv, NoMotor

LEMMA TailOfWire ==
    ASSUME NEW S, NEW q \in Seq(S), q # <<>>
    PROVE  /\ Tail(q) \in Seq(S) /\ Len(Tail(q)) = Len(q) - 1
           /\ Len(q) \in Nat \ {0} /\ DOMAIN q = 1 .. Len(q)
           /\ DOMAIN Tail(q) = 1 .. Len(q) - 1
           /\ \A i \in 1 .. Len(q) - 1 : i + 1 \in DOMAIN q /\ Tail(q)[i] = q[i + 1]
           /\ Head(q) = q[1]
  OBVIOUS

\* The last motor command leaves the wire for the panel.
LEMMA ServeWire == ASSUME CarType, WireInv, Serve PROVE WireType' /\ MotorFollows'
<1> DEFINE S == Commands \cup {Question(q) : q \in Pollers}
           n == Len(toServer)
<1>1. toServer # <<>> /\ toServer' = Tail(toServer) /\ UNCHANGED <<reading, todo, motor>>
  BY ServeCases, ServeQuiet DEF loopVars
<1>2. toServer \in Seq(S)
  BY DEF WireInv, WireType
<1> HIDE DEF S
<1>3. /\ toServer' \in Seq(S) /\ Len(toServer') = n - 1 /\ n \in Nat \ {0}
      /\ DOMAIN toServer = 1 .. n /\ DOMAIN toServer' = 1 .. n - 1
      /\ \A i \in 1 .. n - 1 : i + 1 \in 1 .. n /\ toServer'[i] = toServer[i + 1]
      /\ Head(toServer) = toServer[1]
  BY <1>1, <1>2, TailOfWire
<1> HIDE DEF n
<1>4. CASE Head(toServer) \in Commands
           /\ panel' = (IF Head(toServer) \in MotorCommands THEN Head(toServer).value ELSE panel)
           /\ UNCHANGED <<vars, toDriver>>
  <2>1. toDriver = <<>>
    BY <1>1 DEF WireInv, WireType
  <2>2. \A i \in 1 .. n - 1 : toServer'[i] \in Commands
                              \/ (i = n - 1 /\ \E p \in reading : toServer'[i] = Question(p))
    <3> SUFFICES ASSUME NEW i \in 1 .. n - 1
                 PROVE  toServer'[i] \in Commands
                        \/ (i = n - 1 /\ \E p \in reading : toServer'[i] = Question(p))
        OBVIOUS
    <3>1. toServer[i + 1] \in Commands
          \/ (i + 1 = Len(toServer) /\ \E p \in reading : toServer[i + 1] = Question(p))
      BY <1>3 DEF WireInv, WireType
    <3> QED
      BY <1>3, <3>1 DEF n
  <2>3. WireType'
    <3>1. todo' \in Seq(Commands)
      BY <1>1 DEF WireInv, WireType
    <3> QED
      BY <1>1, <1>3, <1>4, <2>1, <2>2, <3>1 DEF WireType, S
  <2>4. LastMotor(toServer) => LastMotor(toServer)'
    <3> SUFFICES ASSUME LastMotor(toServer),
                        NEW i \in 1 .. n - 1, toServer'[i] \in MotorCommands,
                        \A j \in 1 .. n - 1 : j > i => toServer'[j] \notin MotorCommands
                 PROVE  toServer'[i] = MotorCommand(motor)
        BY <1>1, <1>3 DEF LastMotor
    <3>1. \A j \in 1 .. n : j > i + 1 => toServer[j] \notin MotorCommands
      <4> SUFFICES ASSUME NEW j \in 1 .. n, j > i + 1 PROVE toServer[j] \notin MotorCommands
          OBVIOUS
      <4>1. j - 1 \in 1 .. n - 1 /\ j - 1 > i /\ (j - 1) + 1 = j
        BY <1>3
      <4> QED
        BY <1>3, <4>1
    <3> QED
      BY <1>3, <3>1 DEF LastMotor
  <2>5. NoMotor(toServer)' => \A j \in 1 .. n : j > 1 => toServer[j] \notin MotorCommands
    <3> SUFFICES ASSUME NoMotor(toServer)', NEW j \in 1 .. n, j > 1
                 PROVE  toServer[j] \notin MotorCommands
        OBVIOUS
    <3>1. j - 1 \in 1 .. n - 1 /\ (j - 1) + 1 = j
      BY <1>3
    <3> QED
      BY <1>3, <3>1 DEF NoMotor
  <2>6. ASSUME LastMotor(toServer), NoMotor(toServer) => panel = motor, NoMotor(toServer)'
        PROVE  panel' = motor
    <3>1. CASE Head(toServer) \in MotorCommands
      <4>1. Head(toServer) = MotorCommand(motor)
        BY <1>3, <2>5, <2>6, <3>1 DEF LastMotor
      <4> QED
        BY <1>4, <3>1, <4>1 DEF MotorCommand
    <3>2. CASE Head(toServer) \notin MotorCommands
      <4>1. \A j \in 1 .. n : j = 1 \/ j > 1
        BY <1>3
      <4>2. NoMotor(toServer)
        BY <1>3, <2>5, <2>6, <3>2, <4>1 DEF NoMotor
      <4> QED
        BY <1>4, <2>6, <3>2, <4>2
    <3> QED
      BY <3>1, <3>2
  <2>7. NoMotor(todo) => LastMotor(toServer) /\ (NoMotor(toServer) => panel = motor)
    BY DEF WireInv, MotorFollows
  <2>8. NoMotor(todo)' => LastMotor(toServer)' /\ (NoMotor(toServer)' => panel' = motor')
    BY <1>1, <2>4, <2>6, <2>7 DEF NoMotor
  <2> QED
    BY <1>1, <2>3, <2>8 DEF MotorFollows, WireInv
<1>5. ASSUME Len(toServer) = 1, toDriver = <<>>, UNCHANGED panel,
             NEW p \in Pollers, NEW r \in Answers(p), reading = {p}, toDriver' = <<r>>,
             Head(toServer) \notin Commands
      PROVE  WireType' /\ MotorFollows'
  <2>1. n = 1
    BY <1>5 DEF n
  <2>2. toServer' = <<>>
    BY <1>3, <2>1
  <2>3. WireType'
    <3>1. todo' \in Seq(Commands) /\ toServer' \in Seq(Commands \cup {Question(q) : q \in Pollers})
      BY <1>1, <2>2 DEF WireInv, WireType
    <3>2. \A i \in DOMAIN toServer' : FALSE
      BY <1>3, <2>1
    <3> QED
      BY <1>1, <1>5, <2>2, <3>1, <3>2 DEF WireType
  <2>4. NoMotor(toServer) /\ LastMotor(toServer)'
    BY <1>3, <1>5, <2>1 DEF NoMotor, LastMotor, Commands
  <2> QED
    BY <1>1, <1>5, <2>3, <2>4 DEF WireInv, MotorFollows, NoMotor
<1> QED
  BY <1>4, <1>5, ServeCases

LEMMA NextWire == Inv /\ [DNext]_dvars => WireInv'
<1> SUFFICES ASSUME Inv, CarType, WireInv, [DNext]_dvars PROVE WireType' /\ MotorFollows'
    BY NextLock DEF Inv, CarInv, WireInv
<1>1. CASE MainLoop
  <2>1. UNCHANGED <<reading, toServer, toDriver>>
    BY <1>1, MainLoopSteps DEF connVars
  <2>2. MotorFollows' /\ todo' \in Seq(Commands)
    BY <1>1, MainFollows
  <2> QED
    BY <2>1, <2>2 DEF WireInv, WireType
<1>2. ASSUME UNCHANGED <<todo, toServer, toDriver, panel, reading, motor>>
      PROVE  WireType' /\ MotorFollows'
  BY <1>2 DEF WireInv, WireType, MotorFollows, NoMotor, LastMotor
<1>3. ASSUME NEW p \in Pollers, Return(p) PROVE WireType' /\ MotorFollows'
  <2>1. toDriver' = <<>> /\ UNCHANGED <<todo, toServer, panel>> /\ toServer = <<>>
    BY <1>3, AfterReturn, OwnAnswer DEF Return, Answered
  <2>2. UNCHANGED motor
    BY <1>3, ReturnFloor, ReturnButton, ReturnObstruction DEF Pollers, loopVars
  <2>3. WireType'
    <3>1. todo' \in Seq(Commands) /\ toServer' \in Seq(Commands \cup {Question(q) : q \in Pollers})
          /\ \A i \in DOMAIN toServer' : FALSE
      BY <2>1 DEF WireInv, WireType
    <3> QED
      BY <2>1, <3>1 DEF WireType
  <2> QED
    BY <2>1, <2>2, <2>3 DEF WireInv, MotorFollows, NoMotor, LastMotor
<1>4. CarMoves \/ Switched \/ UNCHANGED dvars
        => UNCHANGED <<todo, toServer, toDriver, panel, reading, motor>>
  BY DEF CarMoves, Moves, Switched, SwitchObstruction, dvars, vars, loopVars, connVars
<1> QED
  BY <1>1, <1>2, <1>3, <1>4, WriteFollows, AskWire, ServeWire, Steps DEF Pollers

LEMMA Initially == DInit => Inv
<1> SUFFICES ASSUME DInit PROVE Inv
    OBVIOUS
<1> USE DEF DInit, Init
<1>1. CarType
  BY FloorsAssumption DEF CarType, Floors, Directions
<1>2. FloorNews /\ NearPrev /\ NearFloor
  BY DEF FloorNews, Answered, NearPrev, NearFloor
<1>3. LockType /\ WireType /\ MotorFollows
  <2>1. LockType
    BY DEF LockType
  <2>2. WireType
    BY DEF WireType
  <2>3. MotorFollows
    BY DEF MotorFollows, NoMotor, LastMotor
  <2> QED
    BY <2>1, <2>2, <2>3
<1>4. MotorHasTarget /\ StandsWhileOpen
  BY DEF MotorHasTarget, StandsWhileOpen, MD_Stop, MD_Up, MD_Down
<1> QED
  BY <1>1, <1>2, <1>3, <1>4 DEF Inv, CarInv, WireInv

LEMMA Consecution == Inv /\ [DNext]_dvars => Inv'
  BY NextCarType, NextSafe, NextNear, NextNews, NextWire DEF Inv, CarInv, FloorNews

LEMMA Invariance == DSpec => []Inv
<1> QED
  BY Initially, Consecution, PTL DEF DSpec

-----------------------------------------------------------------------------
(* Theorems *)

\* The motor never runs without a cab call ahead of it.
THEOREM MotorReason == DSpec => []MotorHasTarget
<1>1. Inv => MotorHasTarget
  BY DEF Inv
<1> QED
  BY <1>1, Invariance, PTL

\* The car stands at its floor with the motor off while main sleeps there, although
\* the commands reach the motor later than main gives them.
THEOREM OpenAndStill == DSpec => []StandsWhileOpen
<1>1. Inv => StandsWhileOpen
  BY DEF Inv
<1> QED
  BY <1>1, Invariance, PTL

\* EL1.floor is the floor the car stands at or left last, between floor events.
THEOREM PositionTracked == DSpec => []PositionKnown
<1>1. Inv => PositionKnown
  <2> SUFFICES ASSUME CarType, NearPrev, NearFloor, arrived, drv_floors = None, floorPrev = GetFloor
               PROVE  car - 2 * floor \in -1 .. 1
      BY DEF Inv, CarInv, PositionKnown
  <2>1. CASE floorPrev # -1
    BY <2>1 DEF NearPrev
  <2>2. CASE floorPrev = -1
    <3>1. car % 2 = 1
      BY <2>2, HalfFloors, FloorsAssumption DEF Floors
    <3>2. car - 2 * floor \in -2 .. 2 /\ car \in Nat /\ floor \in Nat
      BY <2>2, FloorsAssumption DEF NearFloor, CarType, Floors
    <3> QED
      BY <3>1, <3>2
  <2> QED
    BY <2>1, <2>2
<1> QED
  BY <1>1, Invariance, PTL

-----------------------------------------------------------------------------
(* Refinement: what Elevator sees of the pollers *)

SeenButtons == IF Answered("button") /\ Head(toDriver).a1 THEN Head(toDriver).a2 ELSE drv_buttons
SeenFloors == IF Answered("floor") /\ Floor(Head(toDriver)) \notin {floorPrev, -1}
              THEN <<Floor(Head(toDriver))>> ELSE drv_floors
SeenFloor == IF Answered("floor") THEN Floor(Head(toDriver)) ELSE floorPrev
SeenObstr == IF Answered("obstruction") /\ Head(toDriver).a1 # obstrPrev
             THEN <<Head(toDriver).a1>> ELSE drv_obstr
SeenSwitch == IF Answered("obstruction") THEN Head(toDriver).a1 ELSE obstrPrev

SeenVars == <<SeenButtons, SeenFloors, SeenFloor, SeenObstr, SeenSwitch>>

LEMMA SameOperators ==
    /\ Early!None = None /\ Early!Buttons = Buttons /\ Early!GetFloor = GetFloor
    /\ \A r, f, m : Early!MotorAfter(r, f, m) = MotorAfter(r, f, m)
    /\ Early!MD_Stop = MD_Stop
<1>1. Early!Floors = Floors
  BY DEF Early!Floors, Floors
<1>2. \A r : Early!CabCalls(r) = CabCalls(r)
  BY <1>1 DEF Early!CabCalls, CabCalls, Early!BT_Cab, BT_Cab
<1>3. \A r, f : Early!Away(r, f) = Away(r, f)
  BY <1>2 DEF Early!Away, Away
<1>4. \A r, f, m : Early!MotorAfter(r, f, m) = MotorAfter(r, f, m)
  BY <1>3, Zenon DEF Early!MotorAfter, MotorAfter, Early!MD_Down, Early!MD_Up, MD_Down, MD_Up
<1> QED
  BY <1>1, <1>4 DEF Early!None, None, Early!Buttons, Buttons, Early!GetFloor, GetFloor,
     Early!BT_Cab, BT_Cab, Early!MD_Stop, MD_Stop

LEMMA Stutters == UNCHANGED <<loopVars, plantVars, SeenVars>> => UNCHANGED Early!vars
  BY DEF Early!vars, Early!loopVars, Early!pollVars, Early!floorPoll, Early!obstrPoll,
         Early!plantVars, loopVars, plantVars, SeenVars, SeenButtons, SeenFloors, SeenFloor,
         SeenObstr, SeenSwitch

\* With no answer on its way a poller is seen as it is.
LEMMA SeenAsIs ==
    /\ ~Answered("button") => SeenButtons = drv_buttons
    /\ ~Answered("floor") => SeenFloors = drv_floors /\ SeenFloor = floorPrev
    /\ ~Answered("obstruction") => SeenObstr = drv_obstr /\ SeenSwitch = obstrPrev
  BY DEF SeenButtons, SeenFloors, SeenFloor, SeenObstr, SeenSwitch

\* What a step leaves alone of the wire and of a poller it leaves alone of what is seen.
LEMMA SeenKept ==
    ASSUME UNCHANGED <<reading, toDriver>>
    PROVE  /\ \A p : Answered(p)' = Answered(p)
           /\ UNCHANGED drv_buttons => UNCHANGED SeenButtons
           /\ UNCHANGED floorPoll => UNCHANGED <<SeenFloors, SeenFloor>>
           /\ UNCHANGED obstrPoll => UNCHANGED <<SeenObstr, SeenSwitch>>
  BY DEF Answered, SeenButtons, SeenFloors, SeenFloor, SeenObstr, SeenSwitch, Floor,
         floorPoll, obstrPoll

LEMMA SendersUnanswered ==
    ASSUME WireInv
    PROVE  /\ drv_buttons # None => ~Answered("button")
           /\ drv_floors # None => ~Answered("floor")
           /\ drv_obstr # None => ~Answered("obstruction")
  BY DEF WireInv, LockType, Sending, Answered

LEMMA ButtonStep == WireInv /\ HandleButton /\ UNCHANGED connVars => Early!HandleButton
<1> SUFFICES ASSUME WireInv, HandleButton, UNCHANGED connVars PROVE Early!HandleButton
    OBVIOUS
<1>1. UNCHANGED <<reading, toDriver, floorPoll, obstrPoll>>
  BY DEF HandleButton, connVars
<1>2. ~Answered("button") /\ ~Answered("button")'
  BY <1>1, SendersUnanswered, SeenKept DEF HandleButton
<1>3. SeenButtons = drv_buttons /\ SeenButtons' = None
      /\ UNCHANGED <<SeenFloors, SeenFloor, SeenObstr, SeenSwitch>>
  BY <1>1, <1>2, SeenKept, SeenAsIs DEF HandleButton, SeenButtons
<1>4. /\ main = "select" /\ SeenButtons # None
      /\ request' = request \cup {SeenButtons} /\ lamps' = lamps \cup {SeenButtons}
      /\ motor' = MotorAfter(request', floor, motor) /\ SeenButtons' = None
      /\ UNCHANGED <<floor, main, arrived, SeenFloors, SeenFloor, SeenObstr, SeenSwitch, plantVars>>
  BY <1>3 DEF HandleButton
<1> QED
  BY <1>4, SameOperators DEF Early!HandleButton, Early!floorPoll, Early!obstrPoll, Early!plantVars,
     plantVars, SeenButtons, SeenFloors, SeenFloor, SeenObstr, SeenSwitch

LEMMA FloorStep == WireInv /\ HandleFloor /\ UNCHANGED connVars => Early!HandleFloor
<1> SUFFICES ASSUME WireInv, HandleFloor, UNCHANGED connVars PROVE Early!HandleFloor
    OBVIOUS
<1>1. UNCHANGED <<reading, toDriver, drv_buttons, floorPrev, obstrPoll>>
  BY DEF HandleFloor, connVars
<1>2. ~Answered("floor") /\ ~Answered("floor")'
  BY <1>1, SendersUnanswered, SeenKept DEF HandleFloor
<1>3. SeenFloors = drv_floors /\ SeenFloors' = None
      /\ UNCHANGED <<SeenButtons, SeenFloor, SeenObstr, SeenSwitch>>
  BY <1>1, <1>2, SeenKept, SeenAsIs DEF HandleFloor, SeenFloors, SeenFloor
<1>4. /\ main = "select" /\ SeenFloors # None
      /\ LET a == SeenFloors[1]
         IN /\ floor' = a
            /\ request' = request \ {<<a, BT_Cab>>}
            /\ IF <<a, BT_Cab>> \in request
               THEN main' = "sleep" /\ motor' = MD_Stop /\ lamps' = lamps \ {<<a, BT_Cab>>}
               ELSE motor' = MotorAfter(request', a, motor) /\ UNCHANGED <<main, lamps>>
      /\ arrived' = TRUE /\ SeenFloors' = None
      /\ UNCHANGED <<SeenButtons, SeenFloor, SeenObstr, SeenSwitch, plantVars>>
  BY <1>3 DEF HandleFloor
<1> QED
  BY <1>4, SameOperators DEF Early!HandleFloor, Early!obstrPoll, Early!plantVars,
     Early!BT_Cab, BT_Cab, plantVars, SeenButtons, SeenFloors, SeenFloor, SeenObstr, SeenSwitch

LEMMA ObstructionStep ==
    WireInv /\ HandleObstruction /\ UNCHANGED connVars => Early!HandleObstruction
<1> SUFFICES ASSUME WireInv, HandleObstruction, UNCHANGED connVars PROVE Early!HandleObstruction
    OBVIOUS
<1>1. UNCHANGED <<reading, toDriver, drv_buttons, floorPoll, obstrPrev>>
  BY DEF HandleObstruction, connVars
<1>2. ~Answered("obstruction") /\ ~Answered("obstruction")'
  BY <1>1, SendersUnanswered, SeenKept DEF HandleObstruction
<1>3. SeenObstr = drv_obstr /\ SeenObstr' = None
      /\ UNCHANGED <<SeenButtons, SeenFloors, SeenFloor, SeenSwitch>>
  BY <1>1, <1>2, SeenKept, SeenAsIs DEF HandleObstruction, SeenObstr, SeenSwitch
<1>4. /\ main = "select" /\ SeenObstr # None /\ motor' = MD_Stop /\ SeenObstr' = None
      /\ UNCHANGED <<request, floor, main, lamps, arrived, SeenButtons, SeenFloors, SeenFloor,
                     SeenSwitch, plantVars>>
  BY <1>3 DEF HandleObstruction
<1> QED
  BY <1>4, SameOperators DEF Early!HandleObstruction, Early!floorPoll, Early!plantVars, plantVars,
     SeenButtons, SeenFloors, SeenFloor, SeenObstr, SeenSwitch

\* The steps of main that have no poller in them.
LEMMA OtherMainStep ==
    /\ Wake /\ UNCHANGED connVars => Early!Wake
    /\ HandleStop /\ UNCHANGED connVars => Early!HandleStop
<1>1. ASSUME UNCHANGED <<pollVars, connVars>> PROVE UNCHANGED SeenVars
  BY <1>1, SeenKept DEF pollVars, connVars, SeenVars
<1>2. ASSUME Wake, UNCHANGED connVars PROVE Early!Wake
  <2>1. UNCHANGED SeenVars
    BY <1>1, <1>2 DEF Wake
  <2> QED
    BY <1>2, <2>1, SameOperators DEF Wake, Early!Wake, Early!pollVars, Early!floorPoll,
       Early!obstrPoll, Early!plantVars, plantVars, SeenVars, SeenButtons, SeenFloors, SeenFloor,
       SeenObstr, SeenSwitch
<1>3. ASSUME HandleStop, UNCHANGED connVars PROVE Early!HandleStop
  <2>1. UNCHANGED SeenVars
    BY <1>1, <1>3 DEF HandleStop
  <2> QED
    BY <1>3, <2>1 DEF HandleStop, Early!HandleStop, Early!pollVars, Early!floorPoll,
       Early!obstrPoll, SeenVars, SeenButtons, SeenFloors, SeenFloor, SeenObstr, SeenSwitch
<1> QED
  BY <1>2, <1>3

LEMMA MainLoopStep == WireInv /\ MainLoop => Early!Next
<1> SUFFICES ASSUME WireInv, MainLoop PROVE Early!Next
    OBVIOUS
<1>1. MainSteps /\ UNCHANGED connVars
  BY MainLoopSteps
<1> QED
  BY <1>1, ButtonStep, FloorStep, ObstructionStep, OtherMainStep DEF MainSteps, Early!Next

\* A getter returns: what is seen of its poller becomes what it is.
LEMMA ReturnStep ==
    ASSUME WireInv, NEW p \in Pollers, Return(p)
    PROVE  UNCHANGED <<loopVars, plantVars, SeenVars>>
<1>1. Answered(p) /\ reading = {p}
  BY OwnAnswer DEF Return, Answered
<1>2. \A q : ~Answered(q)' /\ (q # p => ~Answered(q))
  BY <1>1, AfterReturn DEF Answered
<1>3. /\ SeenButtons' = drv_buttons'
      /\ SeenFloors' = drv_floors' /\ SeenFloor' = floorPrev'
      /\ SeenObstr' = drv_obstr' /\ SeenSwitch' = obstrPrev'
  BY <1>2 DEF SeenButtons, SeenFloors, SeenFloor, SeenObstr, SeenSwitch
<1>4. CASE p = "floor"
  <2> DEFINE v == Floor(Head(toDriver))
  <2>1. SeenFloors = IF v \notin {floorPrev, -1} THEN <<v>> ELSE None
    BY <1>1, <1>4, ReturnFloor DEF SeenFloors
  <2>2. SeenFloor = v
    BY <1>1, <1>4 DEF SeenFloor
  <2>3. UNCHANGED <<SeenFloors, SeenFloor>>
    BY <1>3, <1>4, <2>1, <2>2, ReturnFloor
  <2>4. SeenButtons = drv_buttons /\ SeenObstr = drv_obstr /\ SeenSwitch = obstrPrev
    BY <1>2, <1>4, SeenAsIs
  <2> QED
    BY <1>3, <1>4, <2>3, <2>4, ReturnFloor DEF SeenVars, obstrPoll
<1>5. CASE p = "button"
  <2>1. UNCHANGED SeenButtons
    BY <1>1, <1>3, <1>5, ReturnButton DEF SeenButtons
  <2>2. SeenFloors = drv_floors /\ SeenFloor = floorPrev
        /\ SeenObstr = drv_obstr /\ SeenSwitch = obstrPrev
    BY <1>2, <1>5, SeenAsIs
  <2> QED
    BY <1>3, <1>5, <2>1, <2>2, ReturnButton DEF SeenVars, obstrPoll, floorPoll
<1>6. CASE p = "obstruction"
  <2>1. UNCHANGED SeenSwitch
    <3>1. SeenSwitch = Head(toDriver).a1
      BY <1>1, <1>6 DEF SeenSwitch
    <3>2. obstrPrev' = Head(toDriver).a1
      BY <1>6, ReturnObstruction, Zenon DEF obstrPoll
    <3> QED
      BY <1>3, <3>1, <3>2
  <2>2. UNCHANGED SeenObstr
    <3>1. CASE Head(toDriver).a1 = obstrPrev /\ UNCHANGED obstrPoll
      BY <1>3, <3>1, Zenon DEF SeenObstr, obstrPoll
    <3>2. CASE Head(toDriver).a1 # obstrPrev /\ drv_obstr' = <<Head(toDriver).a1>>
      BY <1>1, <1>3, <1>6, <3>2, Zenon DEF SeenObstr
    <3> QED
      BY <1>6, <3>1, <3>2, ReturnObstruction
  <2>3. SeenButtons = drv_buttons /\ SeenFloors = drv_floors /\ SeenFloor = floorPrev
    BY <1>2, <1>6, SeenAsIs
  <2> QED
    BY <1>3, <1>6, <2>1, <2>2, <2>3, ReturnObstruction DEF SeenVars, floorPoll
<1> QED
  BY <1>4, <1>5, <1>6 DEF Pollers

\* The server answers: that is the moment the poller polls.
LEMMA AnswerStep ==
    ASSUME CarType, WireInv, toDriver = <<>>,
           NEW p \in Pollers, reading = {p}, reading' = reading,
           NEW r \in Answers(p), Reading(p, r), toDriver' = <<r>>,
           UNCHANGED <<loopVars, pollVars>>
    PROVE  Early!Next \/ UNCHANGED Early!vars
<1>1. ~Sending(p) /\ Head(toDriver') = r
  BY DEF WireInv, LockType
<1>2. \A q : ~Answered(q) /\ (Answered(q)' <=> q = p)
  BY DEF Answered
<1>3. SeenButtons = drv_buttons /\ SeenFloors = drv_floors /\ SeenFloor = floorPrev
      /\ SeenObstr = drv_obstr /\ SeenSwitch = obstrPrev
  BY <1>2, SeenAsIs
<1>4. /\ p # "button" => UNCHANGED SeenButtons
      /\ p # "floor" => UNCHANGED <<SeenFloors, SeenFloor>>
      /\ p # "obstruction" => UNCHANGED <<SeenObstr, SeenSwitch>>
  BY <1>2, <1>3 DEF SeenButtons, SeenFloors, SeenFloor, SeenObstr, SeenSwitch, pollVars, floorPoll,
     obstrPoll
<1>5. CASE p = "button"
  <2>1. drv_buttons = None /\ SeenButtons' = IF r.a1 THEN r.a2 ELSE None
    BY <1>1, <1>2, <1>5 DEF Sending, SeenButtons, pollVars
  <2>2. CASE r = Nothing /\ UNCHANGED plantVars
    <3>1. UNCHANGED SeenButtons
      BY <1>3, <2>1, <2>2 DEF Nothing, Bit
    <3> QED
      BY <1>4, <1>5, <2>2, <3>1, Stutters DEF SeenVars
  <2>3. ASSUME NEW b \in Buttons, r = [a1 |-> TRUE, a2 |-> b], Release PROVE Early!PollButtons(b)
    <3>1. SeenButtons = None /\ SeenButtons' = b
          /\ UNCHANGED <<loopVars, SeenFloors, SeenFloor, SeenObstr, SeenSwitch>>
      BY <1>3, <1>4, <1>5, <2>1, <2>3
    <3>2. Early!Release
      BY <2>3 DEF Release, Early!Release
    <3>3. Early!SendButton(b)
      BY <3>1, SameOperators DEF Early!SendButton, Early!loopVars, Early!floorPoll, Early!obstrPoll,
         loopVars, SeenButtons, SeenFloors, SeenFloor, SeenObstr, SeenSwitch
    <3> QED
      BY <3>2, <3>3 DEF Early!PollButtons
  <2> QED
    BY <1>5, <2>2, <2>3, SameOperators DEF Reading, Early!Next
<1>6. CASE p = "floor"
  <2>1. drv_floors = None /\ UNCHANGED plantVars /\ UNCHANGED floorPrev
    BY <1>1, <1>6 DEF Sending, Reading, pollVars, floorPoll
  <2>2. Floor(r) = GetFloor
    <3>1. r = IF GetFloor = -1 THEN Nothing ELSE [a1 |-> TRUE, a2 |-> <<GetFloor>>]
      BY <1>6 DEF Reading
    <3> QED
      BY <1>6, <3>1, FloorAnswer, HalfFloors
  <2>3. SeenFloor' = GetFloor
    <3>1. (Floor(Head(toDriver)))' = Floor(r)
      BY <1>1 DEF Floor
    <3> QED
      BY <1>2, <1>6, <2>2, <3>1 DEF SeenFloor
  <2>4. SeenFloors' = IF GetFloor \notin {floorPrev, -1} THEN <<GetFloor>> ELSE None
    <3>1. (Floor(Head(toDriver)))' = Floor(r)
      BY <1>1 DEF Floor
    <3> QED
      BY <1>2, <1>6, <2>1, <2>2, <3>1 DEF SeenFloors, pollVars, floorPoll
  <2>5. CASE GetFloor = floorPrev
    <3>1. UNCHANGED <<SeenFloors, SeenFloor>>
      BY <1>3, <2>1, <2>3, <2>4, <2>5
    <3> QED
      BY <1>4, <1>6, <2>1, <3>1, Stutters DEF SeenVars
  <2>6. CASE GetFloor # floorPrev
    <3>1. /\ SeenFloors = None /\ GetFloor # SeenFloor
          /\ SeenFloors' = IF GetFloor # -1 THEN <<GetFloor>> ELSE None
          /\ SeenFloor' = GetFloor
          /\ UNCHANGED <<loopVars, plantVars, SeenButtons, SeenObstr, SeenSwitch>>
      BY <1>3, <1>4, <1>6, <2>1, <2>3, <2>4, <2>6
    <3>2. Early!SendFloor(GetFloor)
      BY <3>1, SameOperators DEF Early!SendFloor, Early!loopVars, Early!obstrPoll,
         loopVars, SeenButtons, SeenFloors, SeenFloor, SeenObstr, SeenSwitch
    <3> QED
      BY <3>1, <3>2, SameOperators DEF Early!Next, Early!PollFloorSensor, Early!plantVars, plantVars
  <2> QED
    BY <2>5, <2>6
<1>7. CASE p = "obstruction"
  <2>1. drv_obstr = None /\ UNCHANGED plantVars /\ UNCHANGED obstrPrev
    BY <1>1, <1>7 DEF Sending, Reading, pollVars, obstrPoll
  <2>2. r.a1 = obstruction
    <3>1. r = [a1 |-> obstruction, a2 |-> <<0>>]
      BY <1>7 DEF Reading, Bit
    <3> QED
      BY <3>1, Zenon
  <2>3. SeenSwitch' = obstruction
    BY <1>1, <1>2, <1>7, <2>2, Zenon DEF SeenSwitch
  <2>4. SeenObstr' = IF obstruction # obstrPrev THEN <<obstruction>> ELSE None
    BY <1>1, <1>2, <1>7, <2>1, <2>2, Zenon DEF SeenObstr, pollVars, obstrPoll
  <2>5. CASE obstruction = obstrPrev
    <3>1. UNCHANGED <<SeenObstr, SeenSwitch>>
      BY <1>3, <2>1, <2>3, <2>4, <2>5, Zenon
    <3> QED
      BY <1>4, <1>7, <2>1, <3>1, Stutters DEF SeenVars
  <2>6. CASE obstruction # obstrPrev
    <3>1. /\ SeenObstr = None /\ obstruction # SeenSwitch
          /\ SeenObstr' = <<obstruction>> /\ SeenSwitch' = obstruction
      BY <1>3, <2>1, <2>3, <2>4, <2>6, Zenon
    <3>2. UNCHANGED <<loopVars, plantVars, SeenButtons, SeenFloors, SeenFloor>>
      BY <1>4, <1>7, <2>1
    <3>3. Early!SendObstruction(obstruction)
      BY <3>1, <3>2, SameOperators DEF Early!SendObstruction, Early!loopVars, Early!floorPoll,
         loopVars, SeenButtons, SeenFloors, SeenFloor, SeenObstr, SeenSwitch
    <3> QED
      BY <3>2, <3>3 DEF Early!Next, Early!PollObstructionSwitch, Early!plantVars, plantVars
  <2> QED
    BY <2>5, <2>6
<1> QED
  BY <1>5, <1>6, <1>7 DEF Pollers

\* The car moves only when the pollers have nothing new about its position.
LEMMA MovesStep == Inv /\ CarMoves => Early!MoveCar
<1> SUFFICES ASSUME Inv, FloorNews, WireInv, CarMoves PROVE Early!MoveCar
    BY DEF Inv, CarInv
<1>1. floorPrev = GetFloor /\ drv_floors = None /\ Moves(motor)
      /\ UNCHANGED <<pollVars, reading, toDriver>>
  BY PanelIsMotor DEF CarMoves, PositionSeen, Moves, connVars
<1>2. UNCHANGED SeenVars
  BY <1>1, SeenKept DEF pollVars, SeenVars
<1>3. SeenFloor = GetFloor /\ SeenFloors = None
  BY <1>1 DEF SeenFloor, SeenFloors, FloorNews
<1>4. Early!PositionSeen
  BY <1>3, SameOperators DEF Early!PositionSeen, SeenFloor, SeenFloors
<1>5. Early!Moves(motor)
  BY <1>1, <1>2, SameOperators DEF Moves, Early!Moves, Early!loopVars, loopVars, Early!pollVars,
     Early!floorPoll, Early!obstrPoll, SeenVars, SeenButtons, SeenFloors, SeenFloor, SeenObstr,
     SeenSwitch
<1> QED
  BY <1>4, <1>5 DEF Early!MoveCar

LEMMA SwitchStep == Switched => Early!SwitchObstruction
<1> SUFFICES ASSUME Switched PROVE Early!SwitchObstruction
    OBVIOUS
<1>1. UNCHANGED SeenVars
  BY SeenKept DEF Switched, SwitchObstruction, pollVars, connVars, SeenVars
<1> QED
  BY <1>1 DEF Switched, SwitchObstruction, Early!SwitchObstruction, Early!loopVars, loopVars,
     Early!pollVars, Early!floorPoll, Early!obstrPoll, SeenVars, SeenButtons, SeenFloors,
     SeenFloor, SeenObstr, SeenSwitch

LEMMA RefinedInit == DInit => Early!Init
<1> SUFFICES ASSUME DInit PROVE Early!Init
    OBVIOUS
<1>1. \A p : ~Answered(p)
  BY DEF DInit, Answered
<1> QED
  BY <1>1, SameOperators DEF DInit, Init, Early!Init

LEMMA RefinedStep == Inv /\ [DNext]_dvars => [Early!Next]_Early!vars
<1> SUFFICES ASSUME Inv, CarType, WireInv, [DNext]_dvars PROVE Early!Next \/ UNCHANGED Early!vars
    BY DEF Inv, CarInv
<1>1. ASSUME UNCHANGED <<vars, reading, toDriver>> PROVE UNCHANGED Early!vars
  <2>1. UNCHANGED SeenVars
    BY <1>1, SeenKept DEF vars, pollVars, SeenVars
  <2> QED
    BY <1>1, <2>1, Stutters DEF vars
<1>2. CASE MainLoop
  BY <1>2, MainLoopStep
<1>3. Write \/ UNCHANGED dvars => UNCHANGED <<vars, reading, toDriver>>
  BY DEF Write, dvars, connVars
<1>4. ASSUME NEW p \in Pollers, Ask(p) PROVE UNCHANGED Early!vars
  <2>1. toDriver = <<>> /\ toDriver' = <<>> /\ UNCHANGED vars
    BY <1>4 DEF Ask, Unlocked, WireInv, WireType
  <2>2. \A q : ~Answered(q) /\ ~Answered(q)'
    BY <2>1 DEF Answered
  <2>3. UNCHANGED SeenVars
    BY <2>1, <2>2 DEF SeenVars, SeenButtons, SeenFloors, SeenFloor, SeenObstr, SeenSwitch,
       vars, pollVars, floorPoll, obstrPoll
  <2> QED
    BY <2>1, <2>3, Stutters DEF vars
<1>5. ASSUME NEW p \in Pollers, Return(p) PROVE UNCHANGED Early!vars
  BY <1>5, ReturnStep, Stutters
<1>6. CASE Serve
  <2>1. CASE UNCHANGED <<vars, toDriver>>
    BY <1>1, <1>6, <2>1, ServeCases
  <2>2. ASSUME toDriver = <<>>, NEW p \in Pollers, NEW r \in Answers(p), reading = {p},
               Reading(p, r), toDriver' = <<r>>, UNCHANGED <<loopVars, pollVars>>
        PROVE  Early!Next \/ UNCHANGED Early!vars
    BY <1>6, <2>2, AnswerStep, ServeQuiet
  <2> QED
    BY <1>6, <2>1, <2>2, ServeCases
<1>7. CASE CarMoves
  BY <1>7, MovesStep DEF Early!Next
<1>8. CASE Switched
  BY <1>8, SwitchStep DEF Early!Next
<1> QED
  BY <1>1, <1>2, <1>3, <1>4, <1>5, <1>6, <1>7, <1>8, Steps DEF Pollers

\* The elevator over its connection is the elevator of module Elevator.
THEOREM Implementation == DSpec => ImplementsElevator
<1> QED
  BY RefinedInit, RefinedStep, Invariance, PTL DEF DSpec, ImplementsElevator, Early!Spec

-----------------------------------------------------------------------------
(***************************************************************************)
(* The master                                                                *)
(***************************************************************************)

\* The counters are numbers; that no more than MaxReports are answered takes
\* AnswersFollowReports.
CountType ==
    /\ up \in [Conns -> Nat] /\ down \in [Conns -> Nat]
    /\ sent \in [Conns -> 0 .. MaxReports]
    /\ answered \in [Conns -> Nat]

PlaceType ==
    /\ relay \in {<<>>} \cup {<<c>> : c \in Conns}
    /\ reader \in {<<>>} \cup {<<c>> : c \in Conns}
    /\ handler \in [Conns -> {"none", "read", "send", "write", "done"}]
    /\ slave \in [Conns -> {"write", "read"}]

SessionType ==
    /\ chAccepts \in Seq(Conns) /\ accepted \subseteq Conns
    /\ deaf \subseteq Conns /\ mute \subseteq Conns /\ spins \subseteq Conns

\* A handler that was started is the one ReadFromSlave ranges over: the range loop
\* never ends, so that no second Accept happens.
OneHandler == \A c \in Conns : handler[c] # "none" => relay = <<c>>

\* Only a handler that was started writes answers.
ServedByHandler == \A c \in Conns : answered[c] > 0 \/ down[c] > 0 => handler[c] # "none"

MasterInv == /\ CountType /\ PlaceType /\ SessionType
       /\ AnswersFollowReports /\ OneHandler /\ ServedByHandler

-----------------------------------------------------------------------------
LEMMA InitMaster == MasterInit => MasterInv
<1> SUFFICES ASSUME MasterInit PROVE MasterInv
    OBVIOUS
<1> USE ReportsAssumption DEF MasterInit
<1>1. CountType
  BY DEF CountType
<1>2. PlaceType
  BY DEF PlaceType
<1>3. SessionType
  BY DEF SessionType
<1>4. AnswersFollowReports
  BY DEF AnswersFollowReports
<1>5. OneHandler /\ ServedByHandler
  BY DEF OneHandler, ServedByHandler
<1> QED
  BY <1>1, <1>2, <1>3, <1>4, <1>5 DEF MasterInv

LEMMA NextCount == MasterInv /\ [MasterNext]_masterVars => CountType'
<1> SUFFICES ASSUME CountType, [MasterNext]_masterVars PROVE CountType'
    BY DEF MasterInv
<1> USE ReportsAssumption DEF CountType
<1>1. ASSUME NEW c \in Conns, SlaveWrite(c) \/ SlaveRead(c) \/ SlaveTimeout(c)
      PROVE  CountType'
  <2>1. CASE SlaveWrite(c)
    <3>1. sent[c] + 1 \in 0 .. MaxReports /\ sent' = [sent EXCEPT ![c] = @ + 1]
      BY <2>1 DEF SlaveWrite
    <3>2. up' = up \/ up' = [up EXCEPT ![c] = @ + 1]
      BY <2>1 DEF SlaveWrite
    <3> QED
      BY <2>1, <3>1, <3>2 DEF SlaveWrite
  <2>2. CASE SlaveRead(c)
    BY <2>2 DEF SlaveRead
  <2>3. CASE SlaveTimeout(c)
    BY <2>3 DEF SlaveTimeout
  <2> QED
    BY <1>1, <2>1, <2>2, <2>3
<1>2. CASE Accept \/ MainRead
  BY <1>2 DEF Accept, MainRead
<1>3. ASSUME NEW c \in Conns,
             \/ RelayTake(c)
             \/ HandlerRead(c) \/ HandlerReadError(c) \/ HandlerWrite(c) \/ HandlerReturn(c)
      PROVE  CountType'
  BY <1>3 DEF RelayTake, HandlerRead, HandlerReadError, HandlerWrite, HandlerReturn
<1>4. ASSUME NEW c \in Conns, BreakRead(c) \/ BreakWrite(c) PROVE CountType'
  BY <1>4 DEF BreakRead, BreakWrite
<1>5. CASE UNCHANGED masterVars
  BY <1>5 DEF masterVars
<1> QED
  BY <1>1, <1>2, <1>3, <1>4, <1>5 DEF MasterNext

LEMMA NextPlace == MasterInv /\ [MasterNext]_masterVars => PlaceType'
<1> SUFFICES ASSUME PlaceType, SessionType, [MasterNext]_masterVars PROVE PlaceType'
    BY DEF MasterInv
<1> USE DEF PlaceType
<1>1. ASSUME NEW c \in Conns, SlaveWrite(c) \/ SlaveRead(c) \/ SlaveTimeout(c)
      PROVE  PlaceType'
  BY <1>1 DEF SlaveWrite, SlaveRead, SlaveTimeout
<1>2. CASE Accept
  <2>1. Head(chAccepts) \in Conns
    BY <1>2 DEF Accept, SessionType
  <2> QED
    BY <1>2, <2>1 DEF Accept
<1>3. CASE MainRead
  BY <1>3 DEF MainRead
<1>4. ASSUME NEW c \in Conns,
             \/ RelayTake(c)
             \/ HandlerRead(c) \/ HandlerReadError(c) \/ HandlerWrite(c) \/ HandlerReturn(c)
      PROVE  PlaceType'
  BY <1>4 DEF RelayTake, HandlerRead, HandlerReadError, HandlerWrite, HandlerReturn
<1>5. ASSUME NEW c \in Conns, BreakRead(c) \/ BreakWrite(c) PROVE PlaceType'
  BY <1>5 DEF BreakRead, BreakWrite
<1>6. CASE UNCHANGED masterVars
  BY <1>6 DEF masterVars
<1> QED
  BY <1>1, <1>2, <1>3, <1>4, <1>5, <1>6 DEF MasterNext

LEMMA NextSession == MasterInv /\ [MasterNext]_masterVars => SessionType'
<1> SUFFICES ASSUME SessionType, [MasterNext]_masterVars PROVE SessionType'
    BY DEF MasterInv
<1> USE DEF SessionType
<1>1. ASSUME NEW c \in Conns, SlaveWrite(c) \/ SlaveRead(c) \/ SlaveTimeout(c)
      PROVE  SessionType'
  BY <1>1 DEF SlaveWrite, SlaveRead, SlaveTimeout
<1>2. CASE Accept \/ MainRead
  BY <1>2 DEF Accept, MainRead
<1>3. ASSUME NEW c \in Conns,
             \/ RelayTake(c)
             \/ HandlerRead(c) \/ HandlerReadError(c) \/ HandlerWrite(c) \/ HandlerReturn(c)
      PROVE  SessionType'
  BY <1>3 DEF RelayTake, HandlerRead, HandlerReadError, HandlerWrite, HandlerReturn
<1>4. ASSUME NEW c \in Conns, BreakRead(c) \/ BreakWrite(c) PROVE SessionType'
  BY <1>4 DEF BreakRead, BreakWrite
<1>5. CASE UNCHANGED masterVars
  BY <1>5 DEF masterVars
<1> QED
  BY <1>1, <1>2, <1>3, <1>4, <1>5 DEF MasterNext

\* One report more or less in one place: what the sum for c needs to stay below sent[c].
Load(c) == answered[c] + down[c] + up[c] + (IF handler[c] \in {"send", "write"} THEN 1 ELSE 0)

LEMMA NextAnswers == MasterInv /\ [MasterNext]_masterVars => AnswersFollowReports'
<1> SUFFICES ASSUME CountType, PlaceType, SessionType, OneHandler, [MasterNext]_masterVars,
                    \A c \in Conns : Load(c) <= sent[c],
                    NEW c \in Conns
             PROVE  Load(c)' <= sent[c]'
    BY DEF MasterInv, AnswersFollowReports, Load
<1> USE DEF CountType, PlaceType, Load
<1>0. /\ answered[c] + down[c] + up[c]
           + (IF handler[c] \in {"send", "write"} THEN 1 ELSE 0) <= sent[c]
      /\ answered[c] \in Nat /\ down[c] \in Nat /\ up[c] \in Nat /\ sent[c] \in Nat
  BY ReportsAssumption
<1>1. ASSUME NEW d \in Conns, SlaveWrite(d) PROVE Load(c)' <= sent[c]'
  <2>1. up'[c] = up[c] \/ (c = d /\ up'[c] = up[c] + 1)
    BY <1>1 DEF SlaveWrite
  <2>2. sent'[c] = IF c = d THEN sent[c] + 1 ELSE sent[c]
    BY <1>1 DEF SlaveWrite
  <2>3. UNCHANGED <<answered, down, handler>>
    BY <1>1 DEF SlaveWrite
  <2> QED
    BY <1>0, <2>1, <2>2, <2>3
<1>2. ASSUME NEW d \in Conns, SlaveRead(d) PROVE Load(c)' <= sent[c]'
  <2>1. answered'[c] + down'[c] = answered[c] + down[c]
    BY <1>2 DEF SlaveRead
  <2>2. answered'[c] \in Nat /\ down'[c] \in Nat
    BY <1>2 DEF SlaveRead
  <2>3. UNCHANGED <<up, handler, sent>>
    BY <1>2 DEF SlaveRead
  <2> QED
    BY <2>1, <2>2, <2>3
<1>3. ASSUME NEW d \in Conns, SlaveTimeout(d) PROVE Load(c)' <= sent[c]'
  BY <1>3 DEF SlaveTimeout
<1>4. CASE Accept
  <2>1. handler'[c] \in {"send", "write"} => handler[c] \in {"send", "write"}
    BY <1>4 DEF Accept
  <2>2. UNCHANGED <<answered, down, up, sent>>
    BY <1>4 DEF Accept
  <2> QED
    BY <2>1, <2>2
<1>5. CASE MainRead
  BY <1>5 DEF MainRead
<1>6. ASSUME NEW d \in Conns, RelayTake(d) PROVE Load(c)' <= sent[c]'
  BY <1>6 DEF RelayTake
\* The report goes from the session to the handler, then becomes an answer.
<1>7. ASSUME NEW d \in Conns, HandlerRead(d) PROVE Load(c)' <= sent[c]'
  <2>1. c = d => up'[c] = up[c] - 1 /\ handler[c] = "read"
    BY <1>7 DEF HandlerRead
  <2>2. c # d => up'[c] = up[c] /\ handler'[c] = handler[c]
    BY <1>7 DEF HandlerRead
  <2>3. UNCHANGED <<answered, down, sent>>
    BY <1>7 DEF HandlerRead
  <2>4. CASE c = d
    <3>1. answered[c] + down[c] + up[c] <= sent[c]
      BY <1>0, <2>1, <2>4
    <3>2. answered[c] + down[c] + (up[c] - 1) + 1 <= sent[c]
      BY <1>0, <3>1
    <3> QED
      BY <1>0, <2>1, <2>3, <2>4, <3>2
  <2>5. CASE c # d
    BY <1>0, <2>2, <2>3, <2>5
  <2> QED
    BY <2>4, <2>5
<1>8. ASSUME NEW d \in Conns, HandlerReadError(d) PROVE Load(c)' <= sent[c]'
  BY <1>8 DEF HandlerReadError
<1>9. ASSUME NEW d \in Conns, HandlerWrite(d) PROVE Load(c)' <= sent[c]'
  <2>1. c = d => /\ down'[c] = down[c] + 1
                 /\ handler[c] = "write" /\ handler'[c] = "read"
    BY <1>9 DEF HandlerWrite
  <2>2. c # d => down'[c] = down[c] /\ handler'[c] = handler[c]
    BY <1>9 DEF HandlerWrite
  <2>3. UNCHANGED <<answered, up, sent>>
    BY <1>9 DEF HandlerWrite
  <2>4. CASE c = d
    BY <1>0, <2>1, <2>3, <2>4
  <2>5. CASE c # d
    BY <2>2, <2>3, <2>5
  <2> QED
    BY <2>4, <2>5
<1>10. ASSUME NEW d \in Conns, HandlerReturn(d) PROVE Load(c)' <= sent[c]'
  BY <1>10 DEF HandlerReturn
<1>11. ASSUME NEW d \in Conns, BreakRead(d) PROVE Load(c)' <= sent[c]'
  <2>1. up'[c] \in 0 .. up[c]
    BY <1>11 DEF BreakRead
  <2>2. UNCHANGED <<answered, down, handler, sent>>
    BY <1>11 DEF BreakRead
  <2> QED
    BY <2>1, <2>2
<1>12. ASSUME NEW d \in Conns, BreakWrite(d) PROVE Load(c)' <= sent[c]'
  BY <1>12 DEF BreakWrite
<1>13. CASE UNCHANGED masterVars
  BY <1>13 DEF masterVars
<1> QED
  BY <1>1, <1>2, <1>3, <1>4, <1>5, <1>6, <1>7, <1>8, <1>9, <1>10, <1>11, <1>12, <1>13 DEF MasterNext

LEMMA NextHandler == MasterInv /\ [MasterNext]_masterVars => OneHandler' /\ ServedByHandler'
<1> SUFFICES ASSUME CountType, PlaceType, SessionType, OneHandler, ServedByHandler,
                    [MasterNext]_masterVars
             PROVE  OneHandler' /\ ServedByHandler'
    BY DEF MasterInv
<1> USE DEF CountType, PlaceType, OneHandler, ServedByHandler
<1>1. ASSUME NEW c \in Conns, SlaveWrite(c) \/ SlaveRead(c) \/ SlaveTimeout(c)
      PROVE  OneHandler' /\ ServedByHandler'
  BY <1>1 DEF SlaveWrite, SlaveRead, SlaveTimeout
\* No handler was started before.
<1>2. CASE Accept
  <2>1. Head(chAccepts) \in Conns
    BY <1>2 DEF Accept, SessionType
  <2>2. \A c \in Conns : handler[c] = "none"
    BY <1>2 DEF Accept
  <2> QED
    BY <1>2, <2>1, <2>2 DEF Accept
<1>3. CASE MainRead
  BY <1>3 DEF MainRead
<1>4. ASSUME NEW c \in Conns,
             \/ RelayTake(c)
             \/ HandlerRead(c) \/ HandlerReadError(c) \/ HandlerWrite(c) \/ HandlerReturn(c)
      PROVE  OneHandler' /\ ServedByHandler'
  BY <1>4 DEF RelayTake, HandlerRead, HandlerReadError, HandlerWrite, HandlerReturn
<1>5. ASSUME NEW c \in Conns, BreakRead(c) \/ BreakWrite(c) PROVE OneHandler' /\ ServedByHandler'
  BY <1>5 DEF BreakRead, BreakWrite
<1>6. CASE UNCHANGED masterVars
  BY <1>6 DEF masterVars
<1> QED
  BY <1>1, <1>2, <1>3, <1>4, <1>5, <1>6 DEF MasterNext

LEMMA MasterInvariance == MasterSpec => []MasterInv
<1>1. MasterInv /\ [MasterNext]_masterVars => MasterInv'
  <2> SUFFICES ASSUME MasterInv, [MasterNext]_masterVars PROVE MasterInv'
    OBVIOUS
  <2>1. CountType' /\ PlaceType' /\ SessionType'
    BY NextCount, NextPlace, NextSession
  <2>2. AnswersFollowReports' /\ OneHandler' /\ ServedByHandler'
    BY NextAnswers, NextHandler
  <2> QED
    BY <2>1, <2>2 DEF MasterInv
<1> QED
  BY <1>1, InitMaster, PTL DEF MasterSpec

-----------------------------------------------------------------------------
(* Theorems *)

\* The types of the sessions, handlers and slaves; no counter exceeds the number of
\* reports, although handlers and slaves count independently.
THEOREM MasterTypeCorrect == MasterSpec => []MasterTypeOK
<1>1. MasterInv => MasterTypeOK
  <2> SUFFICES ASSUME MasterInv PROVE MasterTypeOK
    OBVIOUS
  <2>1. ASSUME NEW c \in Conns
        PROVE  up[c] \in 0 .. MaxReports /\ down[c] \in 0 .. MaxReports
               /\ answered[c] \in 0 .. MaxReports
    BY ReportsAssumption DEF MasterInv, AnswersFollowReports, CountType
  <2> QED
    BY <2>1 DEF MasterInv, MasterTypeOK, CountType, PlaceType, SessionType
<1> QED
  BY <1>1, MasterInvariance, PTL

\* HandleConnections never answers what it did not read: every answer, read by the slave
\* or on its way, stands for a report of that session that has been taken.
THEOREM AnswersPaired == MasterSpec => []AnswersFollowReports
  BY MasterInvariance, PTL DEF MasterInv

\* ReadFromSlave serves the session it accepted first and no other, whatever breaks:
\* the range over its channel never ends.
THEOREM OneServed == MasterSpec => []OnlyFirstServed
<1>1. MasterInv => OnlyFirstServed
  <2> SUFFICES ASSUME MasterInv PROVE OnlyFirstServed
    OBVIOUS
  <2> DEFINE Served == {c \in Conns : answered[c] > 0 \/ down[c] > 0}
  <2>1. \A c \in Served : relay = <<c>>
    BY DEF MasterInv, OneHandler, ServedByHandler
  <2>2. CASE Served = {}
    <3>1. Cardinality(Served) = 0
      BY <2>2, FS_EmptySet
    <3> QED
      BY <3>1 DEF OnlyFirstServed
  <2>3. CASE Served # {}
    <3>1. PICK c : c \in Served
      BY <2>3
    <3>2. \A d \in Served : d = c
      BY <3>1, <2>1
    <3>3. Served = {c}
      BY <3>1, <3>2
    <3>4. Cardinality(Served) = 1
      BY <3>3, FS_Singleton
    <3> QED
      BY <3>4 DEF OnlyFirstServed
  <2> QED
    BY <2>2, <2>3
<1> QED
  BY <1>1, MasterInvariance, PTL
=============================================================================
