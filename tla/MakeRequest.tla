----------------------------- MODULE MakeRequest -----------------------------
(***************************************************************************)
(* MakeRequest (kcp-go-master/elevio.go): how the master shares the hall    *)
(* calls out among the three elevators it knows.                            *)
(*                                                                         *)
(* Column 2f is the hall-up call of floor f, column 2f + 1 its hall-down    *)
(* call.  The code prices every call for every elevator, with 0 standing    *)
(* for "no request", then repeatedly hands the cheapest entry of the table  *)
(* to its elevator, clears the column and reprices that elevator's row.     *)
(***************************************************************************)
EXTENDS Integers, Sequences, FiniteSets

CONSTANTS
    numFloors,  \* 4 in the code; the sentinel 100 would hide calls from 10 floors on
    Fleets      \* what ELS may be when MakeRequest is called: functions from
                \* Elevators to records [floor, dirn, behavior, calls]

Elevators == 0 .. 2
Columns == 0 .. 2 * numFloors - 1

Elevator == [floor : 0 .. numFloors - 1, dirn : -1 .. 1, behavior : 0 .. 3,
             calls : SUBSET Columns]

ASSUME FloorsAssumption == numFloors \in 1 .. 9
ASSUME FleetsAssumption == Fleets \subseteq [Elevators -> Elevator]

VARIABLES
    ELS,                    \* the argument
    EL_requests,            \* the table of prices
    Finished_EL_requests,   \* elevator -> the columns given to it, in order
    pc                      \* "price", "assign" or "done"

requestVars == <<ELS, EL_requests, Finished_EL_requests, pc>>

Time_Between_floors == 5

Distance(floor, f) == IF floor > f THEN floor - f ELSE f - floor

Price(EL, col) ==
    Distance(EL.floor, col \div 2) * Time_Between_floors
      + (IF col % 2 = 0 THEN -2 * EL.dirn ELSE 2 * EL.dirn)
      + EL.behavior

\* The calls any elevator of the fleet reported.
Requested == UNION {ELS[j].calls : j \in Elevators}

RequestInit ==
    /\ ELS \in Fleets
    /\ EL_requests = [i \in Elevators |-> [col \in Columns |-> 0]]
    /\ Finished_EL_requests = [i \in Elevators |-> <<>>]
    /\ pc = "price"

PriceCalls ==
    /\ pc = "price"
    /\ EL_requests' = [i \in Elevators |-> [col \in Columns |->
           IF col \in Requested THEN Price(ELS[i], col) ELSE 0]]
    /\ pc' = "assign"
    /\ UNCHANGED <<ELS, Finished_EL_requests>>

\* The scan starts from a "lowest" that real prices can reach.
Open_LowStart == {e \in Elevators \X Columns :
                     EL_requests[e[1]][e[2]] # 0 /\ EL_requests[e[1]][e[2]] < 15}

\* Entries the scan looks at: it starts from lowest = 100 and skips zeros.
Open == {e \in Elevators \X Columns :
            EL_requests[e[1]][e[2]] # 0 /\ EL_requests[e[1]][e[2]] < 100}

\* The scan compares with "<", row by row, so the first of equals wins.
Before(e, f) == e[1] < f[1] \/ (e[1] = f[1] /\ e[2] < f[2])

Lowest(e) ==
    \A f \in Open : \/ EL_requests[e[1]][e[2]] < EL_requests[f[1]][f[2]]
                    \/ EL_requests[e[1]][e[2]] = EL_requests[f[1]][f[2]] /\ ~Before(f, e)

\* A call further along in the direction of the one just given gets cheaper,
\* every other call of the row dearer.  Zeros stay zeros.
Reprice(price, col, floor) ==
    IF price = 0 THEN 0
    ELSE IF (floor % 2 = 0 /\ col > floor) \/ (floor % 2 # 0 /\ col < floor)
         THEN price + 3 - 5 ELSE price + 3

\* Only the row of the elevator that got the call.
Cleared_OwnRow(index, floor) == [EL_requests EXCEPT ![index][floor] = 0]

\* The whole floor, both directions.
Cleared_BothWays(index, floor) ==
    [i \in Elevators |-> [col \in Columns |->
        IF col \div 2 = floor \div 2 THEN 0 ELSE EL_requests[i][col]]]

\* EL_requests[0..2][floor] = 0
Cleared(index, floor) ==
    [i \in Elevators |-> [EL_requests[i] EXCEPT ![floor] = 0]]

Assign(index, floor) ==
    /\ pc = "assign"
    /\ <<index, floor>> \in Open
    /\ Lowest(<<index, floor>>)
    /\ Finished_EL_requests' = [Finished_EL_requests EXCEPT ![index] = Append(@, floor)]
    /\ EL_requests' = [Cleared(index, floor) EXCEPT ![index] =
           [col \in Columns |-> Reprice(@[col], col, floor)]]
    /\ UNCHANGED <<ELS, pc>>

\* The loop waits for lowest = 0, which the scan never stores.
Finish_AtZero ==
    /\ pc = "assign"
    /\ \E e \in Open : EL_requests[e[1]][e[2]] = 0
    /\ pc' = "done"
    /\ UNCHANGED <<ELS, EL_requests, Finished_EL_requests>>

\* lowest = 100: nothing left to hand out.
Finish ==
    /\ pc = "assign"
    /\ Open = {}
    /\ pc' = "done"
    /\ UNCHANGED <<ELS, EL_requests, Finished_EL_requests>>

RequestNext ==
    \/ PriceCalls
    \/ \E index \in Elevators, floor \in Columns : Assign(index, floor)
    \/ Finish

RequestSpec == RequestInit /\ [][RequestNext]_requestVars

\* MakeRequest is sequential code: it takes every step it can.
RequestFairSpec == RequestSpec /\ WF_requestVars(RequestNext)

-----------------------------------------------------------------------------
(* Properties *)

Given(i) == {Finished_EL_requests[i][k] : k \in 1 .. Len(Finished_EL_requests[i])}

Assigned == UNION {Given(i) : i \in Elevators}

RequestTypeOK ==
    /\ ELS \in [Elevators -> Elevator]
    /\ EL_requests \in [Elevators -> [Columns -> Int]]
    /\ Finished_EL_requests \in [Elevators -> Seq(Columns)]
    /\ pc \in {"price", "assign", "done"}

\* No call is handed to two elevators, or twice to one, although every later round
\* reprices a whole row and may turn prices negative or 0; and nothing is handed
\* out that nobody requested.
EachCallOnce ==
    /\ Assigned \subseteq Requested
    /\ \A i, j \in Elevators :
          \A k \in 1 .. Len(Finished_EL_requests[i]) :
              \A m \in 1 .. Len(Finished_EL_requests[j]) :
                  Finished_EL_requests[i][k] = Finished_EL_requests[j][m] => i = j /\ k = m

\* A call MakeRequest leaves out is one whose price was or became 0, "no request",
\* in all three rows: the sentinel 100 never hides a call.
LeftOutOnlyAtZero ==
    pc = "done" => \A col \in Requested \ Assigned :
                      \A i \in Elevators : EL_requests[i][col] = 0

\* A call from a floor where no elevator stands is never left out.
RemoteCallAssigned ==
    pc = "done" =>
        \A col \in Requested :
            (\A i \in Elevators : ELS[i].floor # col \div 2) => col \in Assigned

\* The loop "for while_v < 1" ends.
Terminates == (pc = "assign") ~> (pc = "done")
=============================================================================
