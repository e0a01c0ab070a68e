-------------------------- MODULE MakeRequestProofs --------------------------
(***************************************************************************)
(* MakeRequest hands every call out at most once and leaves out only calls  *)
(* without a price, whatever the fleet and for up to nine floors.           *)
(***************************************************************************)
EXTENDS MakeRequest, FiniteSetTheorems, TLAPS

\* The table has entries only for calls that are requested and not given out yet.
OpenCalls ==
    \A i \in Elevators, col \in Columns :
        EL_requests[i][col] # 0 => col \in Requested /\ col \notin Assigned

Inv == RequestTypeOK /\ (pc = "price" => Assigned = {}) /\ OpenCalls /\ EachCallOnce

-----------------------------------------------------------------------------
LEMMA PriceType ==
    ASSUME NEW EL \in Elevator, NEW col \in Columns
    PROVE  Price(EL, col) \in Int /\ Price(EL, col) <= 5 * (numFloors - 1) + 5
<1>1. col \div 2 \in 0 .. numFloors - 1
  BY FloorsAssumption DEF Columns
<1>2. EL.floor \in 0 .. numFloors - 1 /\ EL.dirn \in -1 .. 1 /\ EL.behavior \in 0 .. 3
  BY DEF Elevator
<1>3. Distance(EL.floor, col \div 2) \in 0 .. numFloors - 1
  BY <1>1, <1>2, FloorsAssumption DEF Distance
<1> QED
  BY <1>2, <1>3, FloorsAssumption DEF Price, Time_Between_floors

LEMMA RepriceType ==
    ASSUME NEW price \in Int, NEW col \in Columns, NEW floor \in Columns
    PROVE  /\ Reprice(price, col, floor) \in Int
           /\ Reprice(price, col, floor) <= price + 3
           /\ price = 0 => Reprice(price, col, floor) = 0
  BY DEF Reprice

\* What one round does to the table, entry by entry.
LEMMA AssignTable ==
    ASSUME RequestTypeOK, NEW index \in Elevators, NEW floor \in Columns, Assign(index, floor)
    PROVE  /\ EL_requests' \in [Elevators -> [Columns -> Int]]
           /\ \A i \in Elevators, col \in Columns :
                 EL_requests'[i][col] =
                    IF col = floor THEN 0
                    ELSE IF i = index THEN Reprice(EL_requests[i][col], col, floor)
                    ELSE EL_requests[i][col]
<1> DEFINE T == Cleared(index, floor)
<1>1. EL_requests \in [Elevators -> [Columns -> Int]]
  BY DEF RequestTypeOK
<1>2. T \in [Elevators -> [Columns -> Int]]
  BY <1>1 DEF Cleared
<1>3. \A i \in Elevators, col \in Columns :
         T[i][col] = IF col = floor THEN 0 ELSE EL_requests[i][col]
  BY <1>1 DEF Cleared
<1>4. EL_requests' = [T EXCEPT ![index] = [col \in Columns |-> Reprice(T[index][col], col, floor)]]
  BY <1>2 DEF Assign
<1>5. [col \in Columns |-> Reprice(T[index][col], col, floor)] \in [Columns -> Int]
  BY <1>2, RepriceType
<1> HIDE DEF T
<1>6. EL_requests' \in [Elevators -> [Columns -> Int]]
  BY <1>2, <1>4, <1>5
<1>7. \A i \in Elevators, col \in Columns :
         EL_requests'[i][col] = IF i = index THEN Reprice(T[i][col], col, floor) ELSE T[i][col]
  BY <1>2, <1>4
<1>8. \A i \in Elevators, col \in Columns : col = floor => Reprice(T[i][col], col, floor) = 0
  BY <1>3, RepriceType
<1> QED
  BY <1>3, <1>6, <1>7, <1>8

LEMMA ResultFrame ==
    ASSUME UNCHANGED Finished_EL_requests
    PROVE  Assigned' = Assigned
<1>1. \A i \in Elevators : Given(i)' = Given(i)
  BY DEF Given
<1> QED
  BY <1>1 DEF Assigned

LEMMA TableFrame ==
    ASSUME UNCHANGED EL_requests
    PROVE  Open' = Open
  BY DEF Open

\* What one round does to the result.
LEMMA AssignResult ==
    ASSUME RequestTypeOK, NEW index \in Elevators, NEW floor \in Columns, Assign(index, floor)
    PROVE  /\ Finished_EL_requests' \in [Elevators -> Seq(Columns)]
           /\ Assigned' = Assigned \cup {floor}
<1>1. Finished_EL_requests \in [Elevators -> Seq(Columns)]
  BY DEF RequestTypeOK
<1>2. Finished_EL_requests' = [Finished_EL_requests EXCEPT ![index] = Append(@, floor)]
  BY DEF Assign
<1>3. \A i \in Elevators \ {index} : Given(i)' = Given(i)
  BY <1>1, <1>2 DEF Given
<1>4. Given(index)' = Given(index) \cup {floor}
  BY <1>1, <1>2 DEF Given
<1>5. Finished_EL_requests' \in [Elevators -> Seq(Columns)]
  BY <1>1, <1>2
<1> QED
  BY <1>3, <1>4, <1>5 DEF Assigned

-----------------------------------------------------------------------------
LEMMA InitInv == RequestInit => Inv
<1> SUFFICES ASSUME RequestInit PROVE Inv
    OBVIOUS
<1>1. RequestTypeOK
  BY FleetsAssumption DEF RequestInit, RequestTypeOK
<1>2. Assigned = {}
  BY DEF RequestInit, Assigned, Given
<1>3. OpenCalls
  BY DEF RequestInit, OpenCalls
<1>4. EachCallOnce
  BY <1>2 DEF RequestInit, EachCallOnce
<1> QED
  BY <1>1, <1>2, <1>3, <1>4 DEF Inv

LEMMA AssignInv ==
    ASSUME Inv, NEW index \in Elevators, NEW floor \in Columns, Assign(index, floor)
    PROVE  Inv'
<1>1. RequestTypeOK /\ OpenCalls /\ EachCallOnce
  BY DEF Inv
<1>2. EL_requests[index][floor] # 0 /\ pc = "assign" /\ pc' = pc /\ ELS' = ELS
  BY DEF Assign, Open
<1>3. floor \in Requested /\ floor \notin Assigned /\ Requested' = Requested
  BY <1>1, <1>2 DEF OpenCalls, Requested
<1>4. RequestTypeOK'
  BY <1>1, <1>2, AssignTable, AssignResult DEF RequestTypeOK
<1>5. OpenCalls'
  <2> SUFFICES ASSUME NEW i \in Elevators, NEW col \in Columns, EL_requests'[i][col] # 0
               PROVE  col \in Requested /\ col \notin Assigned'
      BY <1>3 DEF OpenCalls
  <2>1. col # floor
    BY <1>1, AssignTable
  <2>2. EL_requests[i][col] \in Int
    BY <1>1 DEF RequestTypeOK
  <2>3. EL_requests[i][col] # 0
    BY <1>1, <2>1, <2>2, AssignTable, RepriceType
  <2> QED
    BY <1>1, <2>1, <2>3, AssignResult DEF OpenCalls
<1>6. EachCallOnce'
  <2>1. Assigned' \subseteq Requested'
    BY <1>1, <1>3, AssignResult DEF EachCallOnce
  <2> DEFINE F == Finished_EL_requests
  <2>2. F \in [Elevators -> Seq(Columns)] /\ F' = [F EXCEPT ![index] = Append(@, floor)]
    BY <1>1 DEF RequestTypeOK, Assign
  <2>3. \A i \in Elevators : \A k \in 1 .. Len(F[i]) : F[i][k] \in Assigned
    BY DEF Assigned, Given
  <2>4. ASSUME NEW i \in Elevators, NEW k \in 1 .. Len(F'[i])
        PROVE  \/ k \in 1 .. Len(F[i]) /\ F'[i][k] = F[i][k]
               \/ i = index /\ k = Len(F[index]) + 1 /\ F'[i][k] = floor
    BY <2>2
  <2> SUFFICES ASSUME NEW i \in Elevators, NEW j \in Elevators,
                      NEW k \in 1 .. Len(F'[i]), NEW m \in 1 .. Len(F'[j]),
                      F'[i][k] = F'[j][m]
               PROVE  i = j /\ k = m
      BY <2>1 DEF EachCallOnce
  <2>5. CASE F'[i][k] = floor
    <3>1. ~(k \in 1 .. Len(F[i]) /\ F'[i][k] = F[i][k])
      BY <1>3, <2>3, <2>5
    <3>2. ~(m \in 1 .. Len(F[j]) /\ F'[j][m] = F[j][m])
      BY <1>3, <2>3, <2>5
    <3> QED
      BY <2>4, <3>1, <3>2
  <2>6. CASE F'[i][k] # floor
    BY <1>1, <2>4, <2>6 DEF EachCallOnce
  <2> QED
    BY <2>5, <2>6
<1> QED
  BY <1>2, <1>4, <1>5, <1>6 DEF Inv

LEMMA NextInv == Inv /\ [RequestNext]_requestVars => Inv'
<1> SUFFICES ASSUME Inv, [RequestNext]_requestVars PROVE Inv'
    OBVIOUS
<1>1. CASE PriceCalls
  <2>1. /\ Assigned = {} /\ ELS' = ELS /\ Finished_EL_requests' = Finished_EL_requests
        /\ pc' = "assign"
    BY <1>1 DEF PriceCalls, Inv
  <2>2. Assigned' = {} /\ Requested' = Requested
    BY <2>1, ResultFrame DEF Requested
  <2>3. \A i \in Elevators : ELS[i] \in Elevator
    BY DEF Inv, RequestTypeOK
  <2>4. EL_requests' \in [Elevators -> [Columns -> Int]]
    BY <1>1, <2>3, PriceType DEF PriceCalls
  <2>5. RequestTypeOK'
    BY <2>1, <2>4 DEF Inv, RequestTypeOK
  <2>6. OpenCalls'
    BY <1>1, <2>2 DEF PriceCalls, OpenCalls
  <2>7. EachCallOnce'
    BY <2>1, <2>2 DEF Inv, EachCallOnce
  <2> QED
    BY <2>1, <2>5, <2>6, <2>7 DEF Inv
<1>2. CASE \E index \in Elevators, floor \in Columns : Assign(index, floor)
  BY <1>2, AssignInv
<1>3. CASE Finish \/ UNCHANGED requestVars
  <2>1. /\ UNCHANGED <<ELS, EL_requests, Finished_EL_requests>>
        /\ pc' = pc \/ pc' = "done"
    BY <1>3 DEF Finish, requestVars
  <2>2. Assigned' = Assigned /\ Requested' = Requested
    BY <2>1, ResultFrame DEF Requested
  <2>3. RequestTypeOK'
    BY <2>1 DEF Inv, RequestTypeOK
  <2>4. OpenCalls' /\ EachCallOnce'
    BY <2>1, <2>2 DEF Inv, OpenCalls, EachCallOnce
  <2> QED
    BY <2>1, <2>2, <2>3, <2>4 DEF Inv
<1> QED
  BY <1>1, <1>2, <1>3 DEF RequestNext

THEOREM TypeCorrect == RequestSpec => []RequestTypeOK
  BY InitInv, NextInv, PTL DEF RequestSpec, Inv

\* No call is handed out twice, and none that was not requested.
THEOREM CallsGivenOnce == RequestSpec => []EachCallOnce
<1>1. Inv => EachCallOnce
  BY DEF Inv
<1> QED
  BY <1>1, InitInv, NextInv, PTL DEF RequestSpec

-----------------------------------------------------------------------------
(* The sentinel *)

\* Each call given out can make another one dearer by 3 at most.
PriceBound ==
    \A i \in Elevators, col \in Columns :
        EL_requests[i][col] <= 5 * (numFloors - 1) + 5 + 3 * Cardinality(Assigned)

LeftInv == Inv /\ PriceBound /\ (pc = "done" => Open = {})

LEMMA AssignedFinite ==
    ASSUME Inv
    PROVE  /\ IsFiniteSet(Assigned) /\ Cardinality(Assigned) \in Nat
           /\ Cardinality(Assigned) <= 2 * numFloors
<1>1. Assigned \subseteq Columns
  BY DEF Inv, RequestTypeOK, EachCallOnce, Requested, Elevator
<1>2. IsFiniteSet(Columns) /\ Cardinality(Columns) = 2 * numFloors
  BY FS_Interval, FloorsAssumption DEF Columns
<1> QED
  BY <1>1, <1>2, FS_Subset, FS_CardinalityType

LEMMA NextLeft == LeftInv /\ Inv' /\ [RequestNext]_requestVars => LeftInv'
<1> SUFFICES ASSUME LeftInv, Inv', [RequestNext]_requestVars PROVE LeftInv'
    OBVIOUS
<1>1. EL_requests \in [Elevators -> [Columns -> Int]]
  BY DEF LeftInv, Inv, RequestTypeOK
<1>2. Cardinality(Assigned) \in Nat /\ IsFiniteSet(Assigned)
  BY AssignedFinite DEF LeftInv
<1>3. CASE PriceCalls
  <2>1. \A i \in Elevators : ELS[i] \in Elevator
    BY DEF LeftInv, Inv, RequestTypeOK
  <2>2. Assigned' = Assigned
    BY <1>3, ResultFrame DEF PriceCalls
  <2>3. \A i \in Elevators, col \in Columns :
           EL_requests'[i][col] <= 5 * (numFloors - 1) + 5
    <3>1. ASSUME NEW i \in Elevators, NEW col \in Columns
          PROVE  EL_requests'[i][col] = IF col \in Requested THEN Price(ELS[i], col) ELSE 0
      BY <1>3 DEF PriceCalls
    <3> QED
      BY <2>1, <3>1, PriceType, FloorsAssumption
  <2>4. \A i \in Elevators, col \in Columns : EL_requests'[i][col] \in Int
    BY DEF Inv, RequestTypeOK
  <2>5. PriceBound'
    BY <1>2, <2>2, <2>3, <2>4, FloorsAssumption DEF PriceBound
  <2> QED
    BY <1>3, <2>5 DEF PriceCalls, LeftInv
<1>4. ASSUME NEW index \in Elevators, NEW floor \in Columns, Assign(index, floor)
      PROVE  LeftInv'
  <2>1. RequestTypeOK /\ OpenCalls
    BY DEF LeftInv, Inv
  <2>2. Assigned' = Assigned \cup {floor}
    BY <1>4, <2>1, AssignResult
  <2>3. floor \notin Assigned
    BY <1>4, <2>1 DEF Assign, Open, OpenCalls
  <2>4. Cardinality(Assigned') = Cardinality(Assigned) + 1
    BY <1>2, <2>2, <2>3, FS_AddElement
  <2>5. ASSUME NEW i \in Elevators, NEW col \in Columns
        PROVE  EL_requests'[i][col] <= 5 * (numFloors - 1) + 5 + 3 * Cardinality(Assigned')
    <3>1. EL_requests[i][col] \in Int
      BY <1>1
    <3>2. EL_requests[i][col] <= 5 * (numFloors - 1) + 5 + 3 * Cardinality(Assigned)
      BY DEF LeftInv, PriceBound
    <3>3. \/ EL_requests'[i][col] = 0 \/ EL_requests'[i][col] = EL_requests[i][col]
          \/ EL_requests'[i][col] = Reprice(EL_requests[i][col], col, floor)
      BY <1>4, <2>1, AssignTable
    <3>4. /\ Reprice(EL_requests[i][col], col, floor) \in Int
          /\ Reprice(EL_requests[i][col], col, floor) <= EL_requests[i][col] + 3
      BY <3>1, RepriceType
    <3> QED
      BY <1>2, <2>4, <3>1, <3>2, <3>3, <3>4, FloorsAssumption
  <2>6. PriceBound'
    BY <2>5 DEF PriceBound
  <2> QED
    BY <1>4, <2>6 DEF Assign, LeftInv
<1>5. CASE Finish
  BY <1>5, ResultFrame, TableFrame DEF Finish, LeftInv, PriceBound
<1>6. CASE UNCHANGED requestVars
  BY <1>6, ResultFrame, TableFrame DEF requestVars, LeftInv, PriceBound
<1> QED
  BY <1>3, <1>4, <1>5, <1>6 DEF RequestNext

\* Up to nine floors no price reaches the sentinel 100: a call is left out only if
\* its price is 0 for all three elevators.
THEOREM OnlyFreeCallsLeftOut == RequestSpec => []LeftOutOnlyAtZero
<1>1. RequestInit => LeftInv
  <2> SUFFICES ASSUME RequestInit PROVE LeftInv
      OBVIOUS
  <2>1. Inv
    BY InitInv
  <2>2. Cardinality(Assigned) \in Nat
    BY <2>1, AssignedFinite
  <2>3. PriceBound
    BY <2>2, FloorsAssumption DEF RequestInit, PriceBound
  <2> QED
    BY <2>1, <2>3 DEF RequestInit, LeftInv
<1>2. LeftInv /\ [RequestNext]_requestVars => LeftInv'
  BY NextInv, NextLeft DEF LeftInv
<1>3. LeftInv => LeftOutOnlyAtZero
  <2> SUFFICES ASSUME LeftInv, pc = "done", NEW col \in Requested, NEW i \in Elevators,
                      EL_requests[i][col] # 0
               PROVE  FALSE
      BY DEF LeftOutOnlyAtZero
  <2>1. col \in Columns
    BY DEF LeftInv, Inv, RequestTypeOK, Requested, Elevator
  <2>4. EL_requests[i][col] \in Int
    BY <2>1 DEF LeftInv, Inv, RequestTypeOK
  <2>5. <<i, col>> \notin Open
    BY DEF LeftInv
  <2>2. ~(EL_requests[i][col] < 100)
    BY <2>1, <2>5 DEF Open
  <2>3. EL_requests[i][col] <= 5 * (numFloors - 1) + 5 + 3 * Cardinality(Assigned)
    BY <2>1 DEF LeftInv, PriceBound
  <2> QED
    BY <2>2, <2>3, <2>4, AssignedFinite, FloorsAssumption DEF LeftInv
<1> QED
  BY <1>1, <1>2, <1>3, PTL DEF RequestSpec
-----------------------------------------------------------------------------
(* Calls from floors where no elevator stands *)

\* The buttons of the hall panels: no way down from the bottom, none up at the top.
PanelCalls == Columns \ {1, 2 * numFloors - 2}

\* ELS[0] is EL1 of the master, whose dirn and behavior are 0 and never set; a call is one
\* of a hall panel.
FleetOf(F) ==
    /\ F[0].dirn = 0 /\ F[0].behavior = 0
    /\ \A i \in Elevators : F[i].calls \subseteq PanelCalls

AtMaster(col) == col \div 2 = ELS[0].floor

Rounds == Len(Finished_EL_requests[0])

\* The master's price of a remote call: 5 per floor, then 3 more or 2 less for each call
\* it is given.
Priced(p) == (\E q \in Int : p = 5 * q + 3 * Rounds) /\ (Rounds = 0 => p > 0)

MasterRow ==
    /\ FleetOf(ELS)
    /\ \A col \in Columns : AtMaster(col) => EL_requests[0][col] = 0
    /\ \A col \in Given(0) : ~AtMaster(col)
    /\ Cardinality(Given(0)) = Rounds
    /\ pc # "price" => \A col \in Requested \ Assigned :
                          ~AtMaster(col) => Priced(EL_requests[0][col])

LEMMA GivenFinite ==
    ASSUME Inv
    PROVE  /\ Given(0) \subseteq Assigned /\ Given(0) \subseteq Requested
           /\ Requested \subseteq Columns /\ IsFiniteSet(Given(0)) /\ Rounds \in Nat
<1>1. Given(0) \subseteq Assigned
  BY DEF Assigned, Elevators
<1>2. Assigned \subseteq Requested /\ Requested \subseteq Columns
  BY DEF Inv, RequestTypeOK, EachCallOnce, Requested, Elevator
<1>3. IsFiniteSet(Given(0))
  BY <1>1, AssignedFinite, FS_Subset
<1>4. Finished_EL_requests[0] \in Seq(Columns)
  BY DEF Inv, RequestTypeOK, Elevators
<1> QED
  BY <1>1, <1>2, <1>3, <1>4 DEF Rounds

LEMMA PanelSize ==
    ASSUME numFloors \in 2 .. 4
    PROVE  IsFiniteSet(PanelCalls) /\ Cardinality(PanelCalls) \in Nat /\ Cardinality(PanelCalls) <= 6
<1>1. IsFiniteSet(Columns) /\ Cardinality(Columns) = 2 * numFloors
  BY FS_Interval DEF Columns
<1>2. 1 \in Columns /\ 2 * numFloors - 2 \in Columns \ {1}
  BY DEF Columns
<1>3. IsFiniteSet(Columns \ {1}) /\ Cardinality(Columns \ {1}) = 2 * numFloors - 1
  BY <1>1, <1>2, FS_RemoveElement
<1> DEFINE P == (Columns \ {1}) \ {2 * numFloors - 2}
<1>4. IsFiniteSet(P) /\ Cardinality(P) = (2 * numFloors - 1) - 1
  BY <1>2, <1>3, FS_RemoveElement
<1>5. PanelCalls = P
  BY DEF PanelCalls
<1> QED
  BY <1>4, <1>5

\* The master is never given a call of its own floor, which has a button, so that at most
\* four are given to it while another remote call is open.
LEMMA FourRounds ==
    ASSUME numFloors \in 2 .. 4, Inv, MasterRow,
           NEW col \in Requested \ Assigned, ~AtMaster(col)
    PROVE  Rounds <= 4
<1>1. ELS[0].floor \in 0 .. numFloors - 1
  BY DEF Inv, RequestTypeOK, Elevators, Elevator
<1>2. Requested \subseteq PanelCalls
  BY DEF MasterRow, FleetOf, Requested
<1>3. PICK x \in PanelCalls : AtMaster(x)
  <2>1. CASE ELS[0].floor = 0
    <3>1. 0 \in PanelCalls /\ 0 \div 2 = 0
      BY DEF PanelCalls, Columns
    <3> QED
      BY <2>1, <3>1 DEF AtMaster
  <2>2. CASE ELS[0].floor # 0
    <3> DEFINE x == 2 * ELS[0].floor + 1
    <3>1. x \in PanelCalls /\ x \div 2 = ELS[0].floor
      BY <1>1, <2>2 DEF PanelCalls, Columns
    <3> QED
      BY <3>1 DEF AtMaster
  <2> QED
    BY <2>1, <2>2
<1> DEFINE S == Given(0)
           T == S \cup {col}
           U == T \cup {x}
<1>4. S \subseteq PanelCalls /\ col \in PanelCalls \ S /\ x \notin T /\ IsFiniteSet(S)
  BY <1>2, <1>3, GivenFinite DEF MasterRow
<1>5. Cardinality(S) = Rounds /\ Rounds \in Nat
  BY GivenFinite DEF MasterRow
<1> HIDE DEF S
<1>6. IsFiniteSet(T) /\ Cardinality(T) = Rounds + 1
  BY <1>4, <1>5, FS_AddElement
<1> HIDE DEF T
<1>7. Cardinality(U) = Cardinality(T) + 1
  BY <1>4, <1>6, FS_AddElement
<1>8. U \subseteq PanelCalls
  BY <1>3, <1>4 DEF T
<1>9. Cardinality(U) <= Cardinality(PanelCalls)
  BY <1>8, PanelSize, FS_Subset
<1> QED
  BY <1>5, <1>6, <1>7, <1>9, PanelSize

\* Four times 3 do not make up for a multiple of 5.
LEMMA PriceStays ==
    ASSUME NEW p \in Int, Priced(p), Rounds \in Nat, Rounds <= 4
    PROVE  p # 0
<1>1. PICK q \in Int : p = 5 * q + 3 * Rounds
  BY DEF Priced
<1>2. Rounds = 0 \/ Rounds = 1 \/ Rounds = 2 \/ Rounds = 3 \/ Rounds = 4
  OBVIOUS
<1> QED
  BY <1>1, <1>2 DEF Priced

LEMMA InitRow ==
    ASSUME \A F \in Fleets : FleetOf(F), RequestInit
    PROVE  MasterRow
<1>1. Given(0) = {} /\ Rounds = 0
  BY DEF RequestInit, Given, Rounds, Elevators
<1>2. Cardinality({}) = 0
  BY FS_EmptySet
<1>3. FleetOf(ELS) /\ pc = "price" /\ \A col \in Columns : EL_requests[0][col] = 0
  BY DEF RequestInit, Elevators
<1> QED
  BY <1>1, <1>2, <1>3 DEF MasterRow

LEMMA AssignRow ==
    ASSUME numFloors \in 2 .. 4, Inv, MasterRow,
           NEW index \in Elevators, NEW floor \in Columns, Assign(index, floor)
    PROVE  MasterRow'
<1>1. RequestTypeOK /\ OpenCalls
  BY DEF Inv
<1>2. EL_requests[index][floor] # 0 /\ pc = "assign" /\ pc' = pc /\ ELS' = ELS
  BY DEF Assign, Open
<1>3. floor \in Requested \ Assigned /\ Requested' = Requested
  BY <1>1, <1>2 DEF OpenCalls, Requested
<1>4. \A col \in Columns : AtMaster(col)' <=> AtMaster(col)
  BY <1>2 DEF AtMaster
<1>5. /\ EL_requests[0] \in [Columns -> Int] /\ 0 \in Elevators
      /\ Finished_EL_requests \in [Elevators -> Seq(Columns)]
      /\ Finished_EL_requests' = [Finished_EL_requests EXCEPT ![index] = Append(@, floor)]
  BY <1>1 DEF RequestTypeOK, Elevators, Assign
<1>6. Assigned' = Assigned \cup {floor}
  BY <1>1, AssignResult
<1>7. \A col \in Columns :
         EL_requests'[0][col] = IF col = floor THEN 0
                                ELSE IF 0 = index THEN Reprice(EL_requests[0][col], col, floor)
                                ELSE EL_requests[0][col]
  BY <1>1, <1>5, AssignTable
<1>8. FleetOf(ELS)'
  BY <1>2 DEF MasterRow, FleetOf
<1>9. \A col \in Columns : AtMaster(col)' => EL_requests'[0][col] = 0
  <2> SUFFICES ASSUME NEW col \in Columns, AtMaster(col) PROVE EL_requests'[0][col] = 0
      BY <1>4
  <2>1. EL_requests[0][col] = 0
    BY DEF MasterRow
  <2> QED
    BY <1>7, <2>1 DEF Reprice
<1>10. CASE index = 0
  <2>1. Given(0)' = Given(0) \cup {floor}
    BY <1>5, <1>10 DEF Given
  <2>2. Rounds' = Rounds + 1
    BY <1>5, <1>10 DEF Rounds
  <2>3. floor \notin Given(0) /\ ~AtMaster(floor)
    BY <1>2, <1>3, <1>10, GivenFinite DEF MasterRow
  <2>4. \A col \in Given(0)' : ~AtMaster(col)'
    BY <1>2, <2>1, <2>3 DEF MasterRow, AtMaster
  <2>5. Cardinality(Given(0))' = Rounds'
    BY <2>1, <2>2, <2>3, GivenFinite, FS_AddElement DEF MasterRow
  <2>6. ASSUME NEW col \in Requested \ Assigned, col # floor, ~AtMaster(col)
        PROVE  Priced(EL_requests[0][col])'
    <3> DEFINE p == EL_requests[0][col]
               n == Rounds
    <3>1. col \in Columns /\ n \in Nat /\ p \in Int
      BY <1>5, GivenFinite
    <3>2. Priced(p)
      BY <1>2, <2>6 DEF MasterRow
    <3>3. p # 0
      BY <2>6, <3>1, <3>2, FourRounds, PriceStays
    <3>4. PICK q \in Int : p = 5 * q + 3 * n
      BY <3>2 DEF Priced
    <3>5. EL_requests'[0][col] = Reprice(p, col, floor)
      BY <1>7, <1>10, <2>6, <3>1
    <3>6. Reprice(p, col, floor) = p + 3 \/ Reprice(p, col, floor) = p - 2
      BY <3>1, <3>3 DEF Reprice
    <3> HIDE DEF p, n
    <3>7. p + 3 = 5 * q + 3 * (n + 1) /\ p - 2 = 5 * (q - 1) + 3 * (n + 1)
      BY <3>1, <3>4
    <3>8. Rounds' = n + 1
      BY <2>2 DEF n
    <3>9. \E r \in Int : EL_requests'[0][col] = 5 * r + 3 * Rounds'
      <4>1. EL_requests'[0][col] = p + 3 \/ EL_requests'[0][col] = p - 2
        BY <3>5, <3>6
      <4>2. q \in Int /\ q - 1 \in Int
        BY <3>4
      <4> QED
        BY <3>7, <3>8, <4>1, <4>2
    <3> QED
      BY <3>1, <3>8, <3>9 DEF Priced
  <2> QED
    BY <1>2, <1>3, <1>6, <1>8, <1>9, <2>4, <2>5, <2>6 DEF MasterRow, AtMaster
<1>11. CASE index # 0
  <2>1. Given(0)' = Given(0) /\ Rounds' = Rounds
    BY <1>5, <1>11 DEF Given, Rounds
  <2>2. ASSUME NEW col \in Requested \ Assigned, col # floor, ~AtMaster(col)
        PROVE  Priced(EL_requests[0][col])'
    <3>1. Priced(EL_requests[0][col])
      BY <1>2, <2>2 DEF MasterRow
    <3>2. EL_requests'[0][col] = EL_requests[0][col]
      BY <1>7, <1>11, <2>2, GivenFinite
    <3> QED
      BY <2>1, <3>1, <3>2 DEF Priced
  <2> QED
    BY <1>2, <1>3, <1>6, <1>8, <1>9, <2>1, <2>2 DEF MasterRow, AtMaster
<1> QED
  BY <1>10, <1>11

LEMMA NextRow ==
    ASSUME numFloors \in 2 .. 4, Inv, MasterRow, [RequestNext]_requestVars
    PROVE  MasterRow'
<1>1. CASE PriceCalls
  <2>1. /\ Assigned = {} /\ ELS' = ELS /\ Finished_EL_requests' = Finished_EL_requests
        /\ pc' = "assign" /\ Requested' = Requested
    BY <1>1 DEF PriceCalls, Inv, Requested
  <2>2. Given(0)' = Given(0) /\ Rounds' = Rounds /\ Given(0) = {}
    BY <2>1, GivenFinite DEF Given, Rounds
  <2>3. Rounds = 0
    BY <2>2, FS_EmptySet DEF MasterRow
  <2>4. ELS[0] \in Elevator /\ ELS[0].dirn = 0 /\ ELS[0].behavior = 0
    BY DEF Inv, RequestTypeOK, Elevators, MasterRow, FleetOf
  <2>5. ASSUME NEW col \in Columns
        PROVE  /\ Price(ELS[0], col) = 5 * Distance(ELS[0].floor, col \div 2)
               /\ Distance(ELS[0].floor, col \div 2) \in Nat
               /\ Distance(ELS[0].floor, col \div 2) = 0 <=> AtMaster(col)
    <3>1. col \div 2 \in Int /\ ELS[0].floor \in Int
      BY <2>4 DEF Columns, Elevator
    <3>2. /\ Distance(ELS[0].floor, col \div 2) \in Nat
          /\ Distance(ELS[0].floor, col \div 2) = 0 <=> AtMaster(col)
      BY <3>1 DEF Distance, AtMaster
    <3> QED
      BY <2>4, <3>2 DEF Price, Time_Between_floors
  <2>6. \A col \in Columns :
           EL_requests'[0][col] = IF col \in Requested THEN Price(ELS[0], col) ELSE 0
    BY <1>1 DEF PriceCalls, Elevators
  <2>7. \A col \in Columns : AtMaster(col)' => EL_requests'[0][col] = 0
    BY <2>1, <2>5, <2>6 DEF AtMaster
  <2>8. \A col \in Requested \ Assigned : ~AtMaster(col) => Priced(EL_requests[0][col])'
    <3> SUFFICES ASSUME NEW col \in Requested, ~AtMaster(col)
                 PROVE  Priced(EL_requests[0][col])'
        OBVIOUS
    <3>1. col \in Columns
      BY GivenFinite
    <3> DEFINE d == Distance(ELS[0].floor, col \div 2)
    <3>2. EL_requests'[0][col] = 5 * d /\ d \in Nat /\ d # 0
      BY <2>5, <2>6, <3>1
    <3> HIDE DEF d
    <3> QED
      BY <2>2, <2>3, <3>2 DEF Priced
  <2> QED
    BY <2>1, <2>2, <2>7, <2>8, ResultFrame DEF MasterRow, AtMaster, FleetOf
<1>2. CASE \E index \in Elevators, floor \in Columns : Assign(index, floor)
  BY <1>2, AssignRow
<1>3. CASE Finish \/ UNCHANGED requestVars
  <2>1. /\ UNCHANGED <<ELS, EL_requests, Finished_EL_requests>>
        /\ pc' = "price" => pc = "price"
        /\ pc = "price" => pc' = "price"
    BY <1>3 DEF Finish, requestVars
  <2>2. Assigned' = Assigned /\ Requested' = Requested /\ Given(0)' = Given(0) /\ Rounds' = Rounds
    BY <2>1, ResultFrame DEF Requested, Given, Rounds
  <2> QED
    BY <2>1, <2>2 DEF MasterRow, AtMaster, FleetOf, Priced
<1> QED
  BY <1>1, <1>2, <1>3 DEF RequestNext

\* In a building of up to four floors, with the master's own elevator as its main has it
\* and calls from the hall panels: every call from a floor where no elevator stands is
\* given out, wherever the slaves are and whatever the repricing does to their rows.
THEOREM RemoteCallsGiven ==
    ASSUME numFloors \in 2 .. 4, \A F \in Fleets : FleetOf(F)
    PROVE  RequestSpec => []RemoteCallAssigned
<1>1. RequestInit => Inv /\ MasterRow
  BY InitInv, InitRow
<1>2. Inv /\ MasterRow /\ [RequestNext]_requestVars => (Inv /\ MasterRow)'
  BY NextInv, NextRow
<1>3. Inv /\ MasterRow /\ LeftOutOnlyAtZero => RemoteCallAssigned
  <2> SUFFICES ASSUME Inv, MasterRow, LeftOutOnlyAtZero, pc = "done",
                      NEW col \in Requested \ Assigned, ~AtMaster(col)
               PROVE  FALSE
      BY DEF RemoteCallAssigned, AtMaster, Elevators
  <2>1. EL_requests[0][col] = 0
    BY DEF LeftOutOnlyAtZero, Elevators
  <2>2. Priced(EL_requests[0][col])
    BY DEF MasterRow
  <2>3. Rounds \in Nat /\ Rounds <= 4
    BY GivenFinite, FourRounds
  <2> QED
    BY <2>1, <2>2, <2>3, PriceStays
<1> QED
  BY <1>1, <1>2, <1>3, OnlyFreeCallsLeftOut, PTL DEF RequestSpec
=============================================================================
