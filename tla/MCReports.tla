------------------------------ MODULE MCReports ------------------------------
(* Instances for TLC of three modules about the reports of slaves: what is in     *)
(* them (SlaveReport), whose the master of kcp1 listens to (Kcp1Master), and how    *)
(* kcp-go-master shares out the calls they bring (MakeRequest).  The modules share *)
(* no state, so a behaviour is one of one of them, and the other two rest.         *)
EXTENDS SlaveReport, Kcp1Master, MakeRequest

\* The elevator kcp2 starts with.
StartOfKcp2 == [floor |-> 2, dirn |-> 1, behavior |-> 2]

\* A hall call of the first byte, a cab call of the second, and both hall calls of
\* the top floor: PollButtons asks for every button of every floor.
SomeButtons == {<<0, 0>>, <<1, 2>>, <<3, 0>>, <<3, 1>>}

CONSTANTS c1, c2

-----------------------------------------------------------------------------
\* The buttons of a hall panel: no way down from the bottom, none up at the top.
HallPanel == Columns \ {1, 2 * numFloors - 2}

\* ELS[0] = EL1: only "floor" and "request" of the master ever change.
MasterELs == [floor : 0 .. numFloors - 1, dirn : {0}, behavior : {0}, calls : SUBSET HallPanel]

\* MakeElevator of a report (or of none): the position and direction the slaves'
\* mains start with, and a behavior whose last bit is the hall-up call of floor 0.
\* Other calls of a slave count like the master's.
SlaveELs ==
    {[floor |-> p[1], dirn |-> p[2], behavior |-> up1, calls |-> IF up1 = 1 THEN {0} ELSE {}] :
        p \in {<<0, 0>>, <<3, -1>>, <<2, 1>>}, up1 \in {0, 1}}

MCFleets ==
    {[i \in Elevators |-> IF i = 0 THEN m ELSE IF i = 1 THEN s ELSE t] :
        m \in MasterELs, s \in SlaveELs, t \in SlaveELs}

AnyFleet == CHOOSE fleet \in MCFleets : TRUE

-----------------------------------------------------------------------------
VARIABLE part  \* the module this behaviour is about

ReportsInit ==
    /\ part \in {"report", "kcp1", "request"}
    /\ part # "request" => ELS = AnyFleet
    /\ Init /\ MasterInit /\ RequestInit

Report == part = "report" /\ Next /\ UNCHANGED <<masterVars, requestVars, part>>
Master == part = "kcp1" /\ MasterNext /\ UNCHANGED <<vars, requestVars, part>>
Request == part = "request" /\ RequestNext /\ UNCHANGED <<vars, masterVars, part>>

\* The bound ends a master's behaviour, when every slave has sent its last report;
\* MakeRequest ends when it returns.
Over ==
    \/ part = "kcp1" /\ \A c \in Conns : sent[c] = MaxReports /\ slave[c] = "write"
    \/ part = "request" /\ pc = "done"

ReportsVars == <<vars, masterVars, requestVars, part>>

ReportsSpec ==
    /\ ReportsInit
    /\ [][Report \/ Master \/ Request \/ (Over /\ UNCHANGED ReportsVars)]_ReportsVars
    /\ \/ part = "report" /\ Fairness
       \/ part = "kcp1" /\ MasterFairness
       \/ part = "request" /\ WF_requestVars(RequestNext)
=============================================================================
