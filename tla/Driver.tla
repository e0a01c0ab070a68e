------------------------------- MODULE Driver -------------------------------
(***************************************************************************)
(* The elevator of module Elevator over its driver: one TCP connection to the *)
(* elevator server, which the main loop writes commands to and the pollers    *)
(* ask for values, all under _mtx (kcp1/elevio.go).                          *)
(*                                                                         *)
(* A setter returns when its command is written, not when it is carried out;   *)
(* a getter holds the lock until its reply is there; a reply says nothing of   *)
(* what it answers.  Elevator takes each of them for one step: this module     *)
(* implements it.                                                            *)
(*                                                                         *)
(* A failing read or write panics and is left out.  The lamps have one command *)
(* for all of them, the commands of one case are written in one step (only a   *)
(* question could come between them), and PollStopButton's event comes as in   *)
(* Elevator, without its poll.                                               *)
(***************************************************************************)
EXTENDS Elevator, Sequences

Pollers == {"button", "floor", "obstruction"}

VARIABLES
    reading,    \* the pollers inside "read", hence the one that holds _mtx
    todo,       \* commands the main loop has yet to write, in order
    toServer,   \* _conn, one way: commands and questions
    toDriver,   \* _conn, the other: replies
    panel       \* the motor as the server has it

connVars == <<reading, toServer, toDriver>>
dvars == <<vars, connVars, todo, panel>>

\* Init dials before the pollers and the main loop start.
DInit ==
    /\ Init
    /\ reading = {} /\ todo = <<>>
    /\ toServer = <<>> /\ toDriver = <<>>
    /\ panel = MD_Stop

Unlocked == reading = {}

-----------------------------------------------------------------------------
(* The main loop: what a case of its select writes, in the order of the calls *)

SetMotorDirection(m) == <<[set |-> "motor", value |-> m]>>
SetButtonLamp == <<[set |-> "lamp", value |-> 0]>>

\* The call at the end of TakeRequest, if it gets there.
TakeRequest == IF Away(request', floor') = {} THEN <<>> ELSE SetMotorDirection(motor')

\* main is back at its select, or asleep, only when it has written everything.
Writes(commands) ==
    /\ todo = <<>> /\ todo' = commands
    /\ UNCHANGED <<connVars, panel>>

ButtonCase == HandleButton /\ Writes(SetButtonLamp \o TakeRequest)
FloorCase ==
    /\ HandleFloor
    /\ Writes(IF main' = "sleep" THEN SetMotorDirection(motor') \o SetButtonLamp ELSE TakeRequest)
AfterSleep == Wake /\ Writes(TakeRequest)
ObstructionCase == HandleObstruction /\ Writes(SetMotorDirection(motor'))
StopCase == HandleStop /\ Writes(SetButtonLamp)

Write ==
    /\ todo # <<>> /\ Unlocked
    /\ toServer' = toServer \o todo
    /\ todo' = <<>>
    /\ UNCHANGED <<vars, reading, toDriver, panel>>

-----------------------------------------------------------------------------
(* A getter, from its question to its reply.  The second byte of a reply says  *)
(* whether there is anything, the third which floor; of the buttons, whose     *)
(* levels and "prev" are left out, the one that was let go is named.           *)

Sending(p) ==
    \/ p = "button" /\ drv_buttons # None
    \/ p = "floor" /\ drv_floors # None
    \/ p = "obstruction" /\ drv_obstr # None

\* Mutant: the question is written without the lock.
Ask_Unlocked(p) ==
    /\ ~Sending(p) /\ p \notin reading
    /\ reading' = reading \cup {p}
    /\ toServer' = Append(toServer, [get |-> p])
    /\ UNCHANGED <<vars, todo, toDriver, panel>>

Ask(p) ==
    /\ ~Sending(p) /\ Unlocked
    /\ reading' = {p}
    /\ toServer' = Append(toServer, [get |-> p])
    /\ UNCHANGED <<vars, todo, toDriver, panel>>

Bit(v) == [a1 |-> v, a2 |-> <<0>>]
Nothing == Bit(FALSE)

\* The value GetFloor makes of a reply.
Floor(r) == IF r.a1 THEN r.a2[1] ELSE -1

Return(p) ==
    /\ p \in reading /\ toDriver # <<>>
    /\ LET r == Head(toDriver)
           news == \/ p = "button" /\ r.a1 /\ SendButton(r.a2)
                   \/ p = "floor" /\ SendFloor(Floor(r))
                   \/ p = "obstruction" /\ SendObstruction(r.a1)
           none == \/ p = "button" /\ ~r.a1
                   \/ p = "floor" /\ Floor(r) = floorPrev
                   \/ p = "obstruction" /\ r.a1 = obstrPrev
       IN  /\ \/ news
              \/ none /\ UNCHANGED <<loopVars, pollVars>>
           /\ UNCHANGED plantVars
    /\ reading' = reading \ {p}
    /\ toDriver' = Tail(toDriver)
    /\ UNCHANGED <<todo, toServer, panel>>

-----------------------------------------------------------------------------
(* The elevator server (external): what is asked and said in the order it comes *)

Carries(c) ==
    /\ panel' = IF c.set = "motor" THEN c.value ELSE panel
    /\ UNCHANGED <<vars, toDriver>>

Reading(p, r) ==
    \/ p = "button" /\ r = Nothing /\ UNCHANGED plantVars
    \/ p = "button" /\ \E b \in Buttons : r = [a1 |-> TRUE, a2 |-> b] /\ Release
    \/ /\ p = "floor"
       /\ r = IF GetFloor = -1 THEN Nothing ELSE [a1 |-> TRUE, a2 |-> <<GetFloor>>]
       /\ UNCHANGED plantVars
    \/ p = "obstruction" /\ r = Bit(obstruction) /\ UNCHANGED plantVars

Replies == {Nothing, Bit(TRUE)} \cup {[a1 |-> TRUE, a2 |-> b] : b \in Buttons}
           \cup {[a1 |-> TRUE, a2 |-> <<f>>] : f \in Floors}

Serve ==
    /\ toServer # <<>>
    /\ toServer' = Tail(toServer)
    /\ LET c == Head(toServer)
       IN  \/ "set" \in DOMAIN c /\ Carries(c)
           \/ /\ "get" \in DOMAIN c
              /\ \E r \in Replies : Reading(c.get, r) /\ toDriver' = Append(toDriver, r)
              /\ UNCHANGED <<loopVars, pollVars, panel>>
    /\ UNCHANGED <<reading, todo>>

\* As in Elevator; that commands take less time than half a floor is part of it.
Obeyed == todo = <<>> /\ \A i \in DOMAIN toServer : "set" \notin DOMAIN toServer[i]

Outside ==
    /\ \/ PositionSeen /\ Obeyed /\ Moves(panel)
       \/ SwitchObstruction
    /\ UNCHANGED <<connVars, todo, panel>>

-----------------------------------------------------------------------------
MainLoop == ButtonCase \/ FloorCase \/ AfterSleep \/ ObstructionCase \/ StopCase

DNext ==
    \/ MainLoop \/ Write
    \/ \E p \in Pollers : Ask(p) \/ Return(p)
    \/ Serve
    \/ Outside

DSpec == DInit /\ [][DNext]_dvars

\* As for Elevator; a mutex that is free again and again is had in the end.
DFairness ==
    /\ SF_dvars(ButtonCase) /\ SF_dvars(FloorCase) /\ WF_dvars(AfterSleep)
    /\ SF_dvars(Write) /\ SF_dvars(Ask("floor"))
    /\ WF_dvars(\E p \in Pollers : Return(p)) /\ WF_dvars(Serve)
    /\ WF_dvars(PositionSeen /\ Obeyed /\ Moves(panel) /\ UNCHANGED <<connVars, todo, panel>>)

DFairSpec == DSpec /\ DFairness

-----------------------------------------------------------------------------
(* Properties *)

Answered(p) == p \in reading /\ toDriver # <<>>

\* A poller has its value when the server gives it.
Early == INSTANCE Elevator WITH
    drv_buttons <- IF Answered("button") /\ Head(toDriver).a1 THEN Head(toDriver).a2
                   ELSE drv_buttons,
    drv_floors <- IF Answered("floor") /\ Floor(Head(toDriver)) \notin {floorPrev, -1}
                  THEN <<Floor(Head(toDriver))>> ELSE drv_floors,
    floorPrev <- IF Answered("floor") THEN Floor(Head(toDriver)) ELSE floorPrev,
    drv_obstr <- IF Answered("obstruction") /\ Head(toDriver).a1 # obstrPrev
                 THEN <<Head(toDriver).a1>> ELSE drv_obstr,
    obstrPrev <- IF Answered("obstruction") THEN Head(toDriver).a1 ELSE obstrPrev

\* Over the shared connection the elevator is still that of module Elevator: every
\* getter has the answer to its own question, as it was at one moment of the call,
\* and the motor that moves the car is the one main set last.
ImplementsElevator == Early!Spec
=============================================================================
