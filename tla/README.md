# Specifications of the elevator project

TLA+ models of the elevator programs in this repository: the master
(`kcp-go-master`), the slaves (`kcp1`, `kcp2`), the protocol between them, the
elevator each of them drives, and the KCP library under the protocol.  TLC checks the
models on small instances, TLAPS proves what matters most for every value of the
constants.

    tlc -config ox_lag.cfg MCOrderExchange.tla      # any run of the table below
    tlapm OrderExchangeProofs.tla

`PROJECT.json` lists the components, the runs, the source lines every definition
stands for, the hazards, and for each property a change of the model, as a
plausible bug would make it, under which TLC finds the property violated.  The
definitions named `Something_Variant` in the modules are those changes; `Next` never
uses them.

## Inventory

Three Go programs, one per directory.  `kcp1` and `kcp2` differ in the elevator their
`main` starts with.  Each has a master branch and a slave branch, and a constant in `main` chooses:
it is `false` in all three (kcp-go-master/echo.go:10, kcp1/echo.go:10, kcp2/echo.go:10), so the master's branch,
which `OrderExchange`, `SlaveReport`, `MakeRequest` and `Kcp1Master` model, runs only in a program in which that
constant has been edited, as a master needs it to be.  All carry a byte-identical copy of the kcp-go library in `kcp/`.
A definition stands for the code of all copies, and the map names one of them: that of the
program in the role (the slave's end of a link in `kcp1`, the master's in `kcp-go-master`, a
slave's session in `kcp2`), and where one definition is a function and others are its parts,
one copy for the whole and another for the parts.  The definitions of one end of a link, such as `SlaveUpdate`,
are one line, `Update` at that end; they are mapped to the function of `sess.go` that runs there.  The drivers' pollers and the obstruction and stop
cases of `main` are the same in the three programs as well.

| part | state | operations | hard about it |
|---|---|---|---|
| `ReadFromSlave`, `HandleConnections` (kcp-go-master/elevio.go) | `slaveMap`, `IDCounter`, `slaveOrderChans`; per session `receive`, `orderChan` | accept and identify a host; read a report, pass it on, wait 100 ms for an order, answer | three goroutines per session and two bounded channels; a timeout races the order; sessions of one host replace each other |
| master's `main` (kcp-go-master/echo.go) | `ELS`, `EL1` | take a report, `MakeElevator`, `MakeRequest`, post the order without blocking; serve its own car | index out of a message; sleeps two seconds at a floor while everyone waits |
| `MakeRequest` | price table, result | price, then greedily assign and reprice | 0 and 100 are sentinels among prices |
| `SendToMaster` | the copied `elevator` | two bytes out, an answer in, two-second deadline | shares slices with `main` without a lock; the rest of the copy is frozen |
| slave's `main` and `TakeRequest` (kcp1/echo.go, kcp1/elevio.go) | `EL1`, motor, lamps | button, floor, obstruction, stop events | four pollers on unbuffered channels; the loop sleeps |
| kcp1's and kcp2's master side | per session `receive` | accept, handle, relay | the relay is the accept loop |
| driver (`read`, `write`, getters, setters) | `_conn`, `_mtx` | request and reply over one TCP connection | many goroutines, one connection |
| `MasterCheck` | `Master` | - | never called |
| KCP ARQ (`kcp/kcp.go`) | send and receive queues and buffers, sequence numbers, windows | `Send`, `Recv`, `Input`, `flush` | loss, duplication, reordering, wrap-around, zero window |
| `UDPSession`, `Listener` (`kcp/sess.go`) | buffers, event channels, session table, backlog | `Read`, `Write`, `Close`, packet input, accept | wake-ups, deadlines, close during a call |
| FEC (`kcp/fec.go`) | encoder's numbering, decoder's ordered queue and parameters | `encode`, `decode` | pruning, expiry, numbers that wrap at `paws` |
| auto-tune (`kcp/autotune.go`) | ring of samples | `Sample`, `FindPeriod` | reads a pattern out of what has arrived so far |
| timed scheduler (`kcp/timedsched.go`) | task list, a heap and a timer per worker | `Put`, `prepend`, `sched` | hand-over between goroutines, a timer that fires while it is reset |
| ciphers (`kcp/crypt.go`) | two buffers per `BlockCrypt` | `Encrypt`, `Decrypt` | unrolled loops that work in place, buffers that change roles |
| entropy, SNMP | - | - | no protocol state, or never used by these programs |

How they interact: a slave's `SendToMaster` talks KCP to the master's handler; the
handler passes the report over `receive` to its relay, the relay over the unbuffered
`Read` to the master's `main`, which posts the order on the channel registered under
the ID in the report; the handler takes the order (or `"0"`) and answers; the slave's
`main` takes the answer over `Send` and runs `TakeRequest`.  In each program the
pollers send to `main`, and everyone reaches the elevator server through `_mtx`.

What makes each part correct, in short: an order reaches the host whose report it
answers, and each report one answer; calls are shared out without repetition or
omission; the master's picture of a slave holds only calls that were made and all
that can be encoded; the motor runs only towards a call and never while people get in
or out; every slave is served.

## Plan

1. `OrderExchange`, the concurrent core. *(done, with proofs)*
2. `MakeRequest`, the decision it carries. *(done, with proofs)*
3. `SlaveReport`, `Elevator`, `Kcp1Master`. *(done)*
4. `Fifo`, `Kcp` and `KcpLink`: the ARQ and its refinement of a FIFO. *(done)*
5. `UdpSession`, `Listener`, `TimedSched`, `Fec` with `Autotune`, and `Driver`, which composes
   `Elevator` with its connection. *(done)*
6. Theorems about `Driver`, `UdpSession`, `Listener`, `TimedSched`, `SlaveReport`, `Kcp1Master`
   and the rest of `OrderExchange`. *(done)*
7. Theorems about `KcpLink`: its invariants and the refinement of `Fifo`. *(done)*
8. `Crypt`, with proofs. *(done)*
9. What is left: theorems about `Fec`, and the clock of the ARQ.  See "Only model-checked".

No run lists a `TypeOK`: six are theorems, that of `UdpSession` is part of its inductive
invariant, those of `Elevator` and `Fec` only say what the variables hold.
`AnswersFollowReports` is a theorem as well. `PutIsNoticed` and `LampMeansCall` are
stated and in no run.

## Modules

### OrderExchange

One variable per channel, map or goroutine position.  A session is a FIFO each way
(`up`, `down`).  A report is its number on its session, an order the report that caused
it and the kind of its first entry (hall up, hall down, none), because `TakeRequest`
looks only at its parity.  `"0"`, the answer after a timeout, is `Default`.

- `SlaveWrite`, `SlaveBlock`, `SlaveRead`, `SlaveTimeout`, `SlaveTakeRequest`,
  `SlaveStop` are `SendToMaster` and the slave's end of it.  `Read` returns data it
  finds at once even after the deadline; only a `Read` that blocks can time out.
- `Accept` is one turn of `ReadFromSlave`: the ID of the host, the registration of the
  new channel.  An error of `AcceptKCP` is logged and the loop goes on; it is left out.  The two sections under `slaveMapMutex` are one step: the only other
  reader looks up an ID whose reports come after the second.
- `HandlerRead` ... `HandlerReturn` are `HandleConnections`; `HandlerEnqueue` is its
  blocking send; `HandlerTimeout` needs an empty `orderChan`.  Go's `select` may take
  either ready case when the order arrives in the same moment the time is over; both
  orders of those events are in the model.
- `RelayTake`, `MainReceive`, `MainDispatch`, `MainPanic` are the relay goroutine and
  the master's `main`.  `FirstDigit` is `a[16]`: one digit of the ID.

`MaxReports`, `MaxStops`, `MaxErrors` bound the run.  A session whose handler returned
stays dead: the listener may make a second session of the packets that still come, but
its receiver starts at sequence number 0 and delivers nothing.

### MakeRequest

The price table (`EL_requests`), the result and where the function is.  `Columns` are
the table's columns, 2f and 2f + 1.  `PriceCalls` is lines 100-111, `Assign` one round of the
greedy loop for the entry its scan finds, `Finish` the round that finds none.
`Price` is the code's formula (the power with exponent 0 is 1).  The run takes every set of
hall calls and every floor of the master, the positions, directions and behaviors the
two slaves can report.

### SlaveReport

`Pack1` and `Pack2` are the two statements that read `EL.request`; between them
`PressButton` and `ArriveAtFloor` of `main` may run.  `Pack1Bits`, `Pack2Bits` and
`DecodedCalls` list the bits in the order of the two expressions and of the string the
handler builds.  `Start` is the frozen copy of floor, direction and behavior.
The reads of one statement are one step, since every property is about one bit.
Two bits of the sixteen are not what they seem: that of the top floor's hall-up call (elevio.go:274), a button
`PollButtons` asks for, is decoded as its hall-down call (elevio.go:161), and that of the bottom floor's hall-up call
is read as part of `behavior` as well.  `Shown` says what the master takes a call for, `Carried` which calls have a
bit at all: neither the bottom nor the top floor's hall-down call has.  `MaxFlight` bounds the reports in flight.

### Elevator

`HandleButton`, `HandleFloor` with `Wake` (before and after the sleep),
`HandleObstruction` and `HandleStop` are the cases of `main`; `PollButtons`,
`PollFloorSensor` and `PollObstructionSwitch` the pollers, each holding at most the event
its unbuffered send waits with.  `MotorAfter` is `TakeRequest`.  `MoveCar` and
`SwitchObstruction` are the surroundings.  The car counts half floors so that it can be
between two sensors.  The switch may be on when the program starts.  The car does not pass a sensor, or the shaft after it, unseen: the
sensor is polled every 20 ms and `main` is busy for long only with the motor off.  Each
button event is one `PollButtons`; a stop-button event is taken directly by
`HandleStop`, because it changes nothing but lamps.  A poller's turn is in two parts, the value
and what is done with it (`SendButton`, `SendFloor`, `SendObstruction`), for `Driver` to take
apart.

### Driver

`Elevator` takes every getter and setter for one step.  `Driver` EXTENDS it and puts the
connection in between: `Ask` and `Return` are the two halves of `read`, `Write` is `write`,
`toServer` and `toDriver` the two directions of `_conn`, `reading` who holds `_mtx`.  The main
loop's cases are those of `Elevator` with the commands they leave in `todo`, and the next case
begins when these are written.  `Serve` is the elevator server: it takes commands and
questions in the order they come, and what it answers is true at that moment.  `panel`
is the motor as the server knows it, and it is `panel` that moves the car.  That commands reach the
motor in less time than the car needs for half a floor (`Obeyed`) is assumed.

`ImplementsElevator` is the refinement: under the mapping `Early` a poller has its value
when the server answers.  What could break it is a reply taken by another
getter than the one that asked, since replies carry no name (`Ask_Unlocked` shows it), or a motor
that disagrees with the last `SetMotorDirection`.

### Kcp1Master

`Accept` and `RelayTake` are two places of the same goroutine, which is what the module
is about.  `HandlerReadError` is the branch without `io.EOF` - no error of a KCP session
is `io.EOF`.  `BreakRead` and `BreakWrite` are the ways a session fails: reading the
listener's socket, or writing to it.  The first would hit every session of the listener; here sessions
break one by one, which allows more behaviours.  `spins` remembers who went round on an error.

### Kcp, KcpLink and Fifo

`Kcp` is the state machine of `kcp.go` as operators on a record with the fields of
`struct KCP`, one operator per function (`Recv`, `parse_una`, `parse_data`, `Input`, ...) and per
section of `flush` (`AckSegments`, `ProbeTimer`, `Slide`, `Congestion`, ...).  Time is left out:
what the clock would say - which segments are due, whether the probe timer has run out, how
much the congestion window grows - is an argument, and `KcpLink` chooses it (`Clock`).
A message is named by the number its segment will get, so that a mixed-up or repeated one is
recognised.

`KcpLink` drives two of these records as `sess.go` does, over a network that loses, repeats and
reorders packets or has them rebuilt by FEC (not "regular").  Packets hold up to
`SegsPerPacket` segments; `net` has room for `MaxNet` packets, and what does not fit is lost
without counting as a fault.  `Fifo` is what the other modules assume of a session: in each
direction a queue that `Put` and `Take` change.  `Unread` is the refinement mapping: the receive
queue, the numbers between the ends, the send queue.  So `ReliableFifo` discharges the
assumption `OrderExchange`, `SlaveReport` and `Kcp1Master` make.

### Crypt

The modes of `crypt.go`.  A packet is its blocks and a last piece shorter than a block; the cipher is
an unknown function.  `EncryptBlock`, `DecryptPair`, `DecryptBlock` and `LastPiece` are one block's statements
of the unrolled loops, of the `switch` after them, and its last case; `tbl` and `next` are the halves of the buffer.
`DecryptPair` is two statements of the unrolled round, because `next` and `tbl` take turns there, while the cases
of the `switch` swap them instead.  `same` says whether `dst` and `src` share their memory: then `Store`
changes both.  A behaviour encrypts a packet and decrypts the result.  One goroutine at a time uses a
`BlockCrypt`'s buffers; the interface leaves that to its caller.

### UdpSession

The goroutines of one session and what they share: `s.mu`, the event channels of capacity
1, the closed channels `die`, `chSocketReadError`, `chSocketWriteError`, and the bounded
`chPostProcessing` that KCP's output callback writes to *under the lock* (`Output`).  KCP's
state is cut to what waiting is about: messages ready and whether the window is open, which
an `Input` or `flush` changes in any way it may.  One goroutine reads and writes, as in the programs:
with two readers a single token in `chReadEvent` would wake one of them only.

### Listener

`monitor` goes through `packetInput` step by step (look up, `Replace`, `NewSession`, `Store`,
`Offer`), because handlers close their sessions meanwhile (`Close`, `CloseDone`), and slaves that restart
on their port start a new conversation (`Dial`).  A packet is its address, its conversation
and whether its number is 0; late packets are those of earlier conversations.
`beside` marks sessions made while another of the same address was still closing: that
`Close` deletes the table entry by address, which is then the new session's
(sess.go:1109).  Such a session receives nothing and is told of no error; `SessionsFiled` and
`ErrorReachesAll` hold for all others.

### TimedSched

`prependTasks` and its token, the batch `prepend` hands on, and per worker the heap, the timer
and `drained`.  Instants are relative to the clock, `Tick` moves it; a
worker is done with the time it was woken at (`NowUsed`) within `MaxLate`.  Timers are those of Go
1.23, the version `go.mod` names: `Stop` reports true until the value is received; the drain that would
block is `pc = "drain"`, which `TimerCoversHeap` excludes.

### Fec

`encode` numbers packets and adds parity shards (or leaves them out when the group took
too long); `decode` inserts, looks for the shard's group in its reach, recovers, prunes
and expires, in that order.  Each shard carries which of all shards it is (`n`), so that a
mixture of two groups is seen.  The codec is taken at its word.

`Autotune` has the ring as a function, `FindPeriod` by the edges it finds.  Every shard is
sampled; a shard whose type is not that its number calls for makes the decoder ask for the
two periods, drop shards until it finds both, and take them as its parameters (`dec`).
`arrived` then starts anew with what is still queued.  The case that `reedsolomon.New` refuses the new
parameters needs more than 256 shards in a group and is out of the instance's reach.

The instance has two starts.  A decoder with the encoder's parameters starts at number 27 of 32 (a
state the ends reach after 27 shards), so that the numbers wrap at `paws` in the run.  One that was
given 2 + 2 shards for an encoder with 2 + 1 starts at number 0.

## Runs

| run | instance | shows |
|---|---|---|
| `ox_lag` | one session, six reports, `receive` 1, `orderChan` 2, a session error, fair | `AnswerLag`, `BacklogNeverDrains`: each 100 ms timeout makes every later answer one report older, up to the channel's capacity, and nothing ever makes up for it. `OneAnswerPerReport`: the same for the slave's two seconds. `ReportsAnswered`: through blocked sends every report that reaches a living master is answered |
| `ox_sessions` | two sessions of one host, one each of two others, `ELS` of length 3, a report each; `Calm` | `OrderIsolation`: two hosts are served together and never take each other's orders, and a session takes one of its host's other session only after it has replaced that one. `PanicOnlyByCrowd`: a host's second session uses up no ID, the third host kills the master |
| `ox_channel` | two sessions of one host | *violated:* `DedicatedChannel` |
| `report` | one of three parts: four buttons, two reports in flight, fair; two sessions, three reports each, one breaks, fair; four floors, all calls | `NoGhostCalls`, `HallCallsStay`, `HallCallsArrive` of `SlaveReport`; `OnlyFirstServed`, `FirstServed` of `Kcp1Master`; `EachCallOnce`, `LeftOutOnlyAtZero`, `RemoteCallAssigned`, `Terminates` of `MakeRequest` |
| `car` | three floors, one hall button, two presses, the switch on or off at the start and moved once, one stop event, fair | `ImplementsElevator`: over the shared connection the elevator is that of `Elevator`; `MotorHasTarget`, `StandsWhileOpen`, `PositionKnown`, `Settles` of the composition |
| `arq` | one writer, windows of 2, three messages across the wrap of 16 numbers, one fault, fair | `Numbers`, `NeverFreedEarly`; `ReliableFifo`: the link implements `Fifo`; `Arrives` |
| `arq_window` | the same with two faults | *violated:* `WindowReopens` |
| `session` | one message ready at most, output channel of 1, fair | `NoLostWakeup`, `NothingStranded`, `CallsReturn`, `GoroutinesEnd` |
| `listener` | two addresses, backlog 1, two conversations each, one late packet, three sessions, fair | `SessionsFiled`, `ErrorReachesAll`, `SlaveGetsIn` |
| `listener_error` | the same | *violated:* `ErrorReachesEverySession` |
| `packet` | one of two layers. FEC: groups of 2 + 1, queue of one group, ring of 16, seven packets, two faults; two starts. Ciphers: blocks of 1 bit (to 7 of them) and of 2 bits (to 4) with every last piece, rounds of 4, in place or not | `InTune`, `Recovered`, `KeepsWindow` of `Fec`; `CipherFeedback`, `Restored` of `Crypt` |
| `sched` | two workers, two tasks, fair | `EachTaskOnce`, `TimerCoversHeap`, `TasksRun` |

`MCReports` and `MCPacketLayers` EXTEND modules that share no state.  In a behaviour of theirs one part
moves and the others rest (`part`, `layer`), so that the states of the parts add up instead of multiplying.

**The violations.**  Each checks what a comment of the source says against what the code does:

- `ox_channel`: "Send the order to the specific slave's dedicated channel" (kcp-go-master/echo.go:59).  `slaveOrderChans[id]` belongs to
  the host's newest session (elevio.go:211): a slave reports, a second session of its host is accepted, and
  the order for the first report is posted on the second's channel.  `OrderIsolation` is what remains.
- `arq_window`: "wait until the transmit buffer to become available again" (kcp/sess.go:387).  The receiver, its queue
  full, acknowledges a segment it keeps in `rcv_buf`, so `una` stays; that ACK, and the one before, reach the sender
  through FEC, so that the windows in them are not taken over (two faults); the reader then empties the queue, and the `WINS` that carries the
  new `una` finds no room in the network.  Now the sender has nothing to resend (the segment is marked), does not
  probe (the window it knows is 1, and kcp.go:725 asks for 0) and still counts the segment in `WaitSnd`.  The run's receiver writes
  nothing; data from it would carry `una` and end the wait, as the master's next answer does in these programs.
  Everything written has arrived all the same: `Arrives` is about that.
- `listener_error`: "propagate read error to all sessions" (kcp/sess.go:987).  The `Close` of an old session, made by its
  handler, removes the next one of its address from the table (sess.go:1109), and the error reaches only what is in the table.

**Bounds.**  Capacities of 1 and 2 instead of 10, 32 or 128 make channels, windows and queues
full within the bounds; nothing depends on the number.  Six reports let timeouts fill both
channels of a session and be followed by orders.  Two sessions of one host and one each of two others
mix up sessions and hosts: with `ELS` of length 3, as in the code, two hosts are served at a
time and the third is one too many.  To keep these four sessions in bounds, `Calm` leaves out what slaves and handlers do that
`ox_lag` is about: no slave gives up a read, and in a behaviour the handlers of one session at most time out.  It also stops at
the master's death.  Both sets of sessions that may be exchanged are symmetric: no property names a session, and
no liveness is checked there.  Four floors are the code's; in `car` three, the least
with a call on either side of a car, because the connection multiplies the states.  Two
presses allow a call on either side, or one more while the car stands; one move of the
switch is either edge, since it may start on.  In `Driver` deadlock is checked: the pollers can
always ask.  A ring of 16 samples holds more than two of the largest groups.  Three
messages in windows of 2 shut the window, open it and cross the wrap; `MaxAcks` bounds the
packets taken in between two flushes.  Three sessions are a first one, its replacement and
one beside them.  Rounds of 4 blocks and packets of 7 reach the unrolled loop, the `switch` and the last piece
in one packet.  Two faults are what `arq_window` needs; with one, TLC finds no such writer.  Seven packets fill a group, cross `paws` and fill another while shards of
the first are still on their way.  Deadlock is not checked where the bounds end a run, a
session or the master has died; in `TimedSched`, `Driver` and `MCReports` (where the end of a bounded part is a stutter) it
is.

**Fairness.**  Weak fairness stands for the Go scheduler running every goroutine that can go
on, for timers that expire and for a driven car that moves.  Strong fairness stands for
`select` choosing at random among ready cases (`MainReceive`, the events of
`Elevator`'s `main`, a worker's task and timer), for a mutex that is free again and again
(`UdpSession`, `Driver`), for a network that lets a packet sent again and again through in the end
(`Listener`).  In `KcpLink` an update at which all that is
unacknowledged is due comes again and again, and a packet is taken in regularly; the faults are
finitely many.  Buttons, stops, errors, calls of the application and closing are never forced.

**What the passing runs leave standing.**  Beside what is violated, properties are stated for what the code does:

- `LeftOutOnlyAtZero` says when a call is dropped (a price of 0), not that none is;
- `NoGhostCalls` and `HallCallsArrive` know the top floor's hall-up call as the hall-down call the master takes it for
  (`Shown`), and except the calls without a bit, of which the top floor's hall-down call is a real one (`Carried`);
- `Settles` excepts runs in which the obstruction switch is ever on (after it the motor is set
  to `d`, never anything but stop) and a call for the floor `EL1.floor` names;
- `FirstServed` asks for one answer and names going round on a read error for ever (`spins`) as a way to lose it;
- `OnlyFirstServed`: `kcp1`'s accept loop never comes back from its first session, so a second
  slave is never accepted;
- the answer after a timeout, `"0"`, is an even number, which `TakeRequest` takes for an order to
  go up (elevio.go:89, 252);
- `behavior` is decoded from `a[5]` and `a[6]`, where the comment at elevio.go:155 and the encoder
  have 4 and 5;
- `SessionsFiled` and `ErrorReachesAll` except the sessions of the race that `listener_error` shows;
- a late first segment of an older conversation closes the present session, whose slave
  must dial again; `SlaveGetsIn` speaks of getting a session, not of keeping it;
- `InTune` excepts decoders that take on parameters before a shard numbered for slot 0 of the
  ring has come: an empty slot reads as a parity shard numbered 0, so number 1 begins the level
  of data shards and `FindPeriod` returns one too few (autotune.go:63).  The decoder then drops
  shards, and what it makes of others is garbage, until slot 0 is filled; and a ring whose slot 0
  missed its turn, or whose numbers have wrapped, takes no sample any more (autotune.go:41).
  Ends with the same parameters, as in these programs, never get there;
- a packet put out by the flush of a `Close` may be dropped by the output callback, which then
  finds `die` closed; `NothingStranded` is about what reached `txqueue`.

## Proofs

Each `...Proofs` module EXTENDS the module it is about.  Its theorems are over all values of
that module's constants that satisfy its `ASSUME`s, and over unbounded runs: the `Max...`
bounds are arbitrary naturals.  Every proof has the same frame: an inductive invariant,
`Init => Inv`, `Inv /\ [Next]_vars => Inv'` with a step per action, and `Inv => Property`.

| theorem | states | hypotheses beyond the module's |
|---|---|---|
| `OrderExchangeProofs!TypeCorrect` | `TypeOK` | |
| `OrderExchangeProofs!OnlyACrowdPanics` | `PanicOnlyByCrowd` | |
| `OrderExchangeProofs!AnswersPaired` | `OneAnswerPerReport` | |
| `OrderExchangeProofs!OrdersIsolated` | `OrderIsolation` | fewer than ten hosts |
| `OrderExchangeProofs!TimeoutsStay` | `BacklogNeverDrains` | fewer than ten hosts |
| `OrderExchangeProofs!AnswersLag` | `AnswerLag` | fewer than ten hosts |
| `MakeRequestProofs!CallsGivenOnce` | `EachCallOnce` | |
| `MakeRequestProofs!OnlyFreeCallsLeftOut` | `LeftOutOnlyAtZero` | |
| `MakeRequestProofs!RemoteCallsGiven` | `RemoteCallAssigned` | two to four floors, `FleetOf` |
| `SlaveReportProofs!NoGhosts` | `NoGhostCalls` | |
| `SlaveReportProofs!HallCallsKept` | `HallCallsStay`, an action property | |
| `Kcp1Proofs!Implementation` | `ImplementsElevator`, a refinement | |
| `Kcp1Proofs!MotorReason` | `MotorHasTarget` | |
| `Kcp1Proofs!OpenAndStill` | `StandsWhileOpen` | |
| `Kcp1Proofs!PositionTracked` | `PositionKnown` | |
| `Kcp1Proofs!AnswersPaired` | `AnswersFollowReports` | |
| `Kcp1Proofs!OneServed` | `OnlyFirstServed` | |
| `ListenerProofs!OpenSessionsFiled` | `SessionsFiled` | |
| `ListenerProofs!ErrorsReachAll` | `ErrorReachesAll` | |
| `UdpSessionProofs!WakeupsKept` | `NoLostWakeup` | |
| `UdpSessionProofs!PacketsNotStranded` | `NothingStranded` | |
| `UdpSessionProofs!Feedback` | `CipherFeedback` | |
| `UdpSessionProofs!PacketsRestored` | `Restored` | |
| `TimedSchedProofs!TasksOnce` | `EachTaskOnce` | |
| `TimedSchedProofs!TimersCover` | `TimerCoversHeap` | |
| `KcpLinkProofs!NumbersInOrder` | `Numbers` | |
| `KcpLinkProofs!LastCopyKept` | `NeverFreedEarly` | |
| `KcpLinkProofs!Delivery` | `ReliableFifo`, a refinement | |

`MakeRequestProofs`, `SlaveReportProofs`, `ListenerProofs`, `UdpSessionProofs` and `TimedSchedProofs`
also have a `TypeCorrect`, `Kcp1Proofs` a `MasterTypeCorrect`; for `Driver` and `KcpLink` the types are
part of the invariant.

**OrderExchange** (finitely many hosts, fewer than a hundred; capacities at least 1).

- `TypeCorrect`: `TypeInv`, which is `TypeOK` in the grouping the steps need, is inductive.
- `OnlyACrowdPanics`: `IDCounter` is the number of identified hosts and no ID exceeds it;
  the first digit of an ID is no larger than the ID.
- `AnswersPaired`: `OneAnswerPerReport` counts messages of one session and is inductive by
  itself, relative to the types.
- `OrdersIsolated`: different hosts have different IDs (`IDsUnique`), and a session that is not accepted yet has
  no report at the master (`Quiet`), so that a session once replaced is never registered again; every order between
  `orderChan` and the slave is then in the `RightPlace`.  It needs
  an ID to be the digit the master reads of it, hence fewer than ten hosts; with ten, `10` is read
  as `1` and the order goes to another host.
- `TimeoutsStay`: `BacklogNeverDrains` counts what a session has in four places and is not
  inductive, because `MainDispatch` posts an order on the channel registered under an ID.
  `BacklogInv` adds that IDs are unique (`IDsUnique`), that a host with an ID has a channel
  and an accepted session's host an ID (`Registered`), and that a session not yet accepted has
  no report at the master (`Quiet`).  Only then does an order leave the backlog of the session it
  enters.
- `AnswersLag`: about the age of one order it says nothing of those before it.  `LagInv`
  adds to `BacklogInv` that reports are numbered in order on their way up
  (`ReportsInOrder`), through `receive`, relay and main loop (`PipeInOrder`), and for each place in
  `orderChan` which report its order is for, from the number enqueued, the timeouts and the
  orders skipped (`OrdersInTurn`).

**MakeRequest** (one to nine floors, any fleet).  `CallsGivenOnce`: an entry of the table is not 0
only for a call requested and not yet given out.  `OnlyFreeCallsLeftOut`: each price is bounded
by the number of calls given out, so that none reaches 100.  Nine floors is where this bound ends.
`RemoteCallsGiven`: the master's own row decides.  Its `dirn` and `behavior` are 0 and never set, so a remote
call costs it 5 per floor, and 3 more or 2 less for each call it is given (`MasterRow`): after one to
four calls the price is no multiple of 5.  It is not given five while a sixth is open, because a hall panel
has no more than six calls in four floors, and one of them is at the master's own floor, where its price
is 0 for good.  `FleetOf` states what the program hands over: the master's 0s, and calls that
panels have; the slaves may be anywhere.

**SlaveReport** (any buttons of the panel, any start, any number of reports in flight).
`NoGhostCalls` follows a bit from the statement that sets it to the call the master reads from
it: `AllMade` says at each place on the way - the two packages, the reports in flight, the picture -
that a bit set stands for a button pressed.  `Source` is the call a bit is set for and `Meaning` the call it is read
as; they differ for one bit, which `Shown` says of the calls.  `HallCallsStay` needs the order of those places
(`HallOrder`): what the picture has, every report in flight has; what a report has, the packages have; what
these have, `request` still has.  It holds because no hall call is ever cleared.

**Driver** (any number of floors, any hall buttons, any start).  `Inv` says where the car can be
relative to `floor` and to what the floor poller saw last (`CarInv`); that the getter in `read` is one
and either its question is the last in `toServer` or its answer alone in `toDriver`
(`LockType`, `WireType`); and that the motor command written last, or else the motor the server
has, is `motor` (`MotorFollows`).  Replies carry no name: `WireType` is what the lock makes
true, and what the refinement rests on.
`Implementation` proves for each action of `Driver` which action of `Elevator` it is under the mapping
(`SeenButtons` and `SeenFloors` are the pollers as the mapping has them): the server's answer is the
poll, `Return` the hand-over of a new value or a stutter, commands and questions stutters, the
car's step `MoveCar`, because `panel = motor` by the time it moves.

**Kcp1Master** (finitely many sessions).  `OneHandler`: a session with a handler is the one the relay
is for; `ServedByHandler`: only a session with a handler has answers.

**Listener** (any addresses and conversations).  `SoleIsAlone` (no other session of the address is open or
closing), `RoomMade` (from looking a packet up to filing the new session, the address has none
but the one the packet belongs to) and `MonitorKnows` (what the monitor's local variables still say
of the table while handlers close sessions) make `Filed` inductive.

**UdpSession** (any windows and capacities).  `NoLostWakeup` is inductive relative to the types and `LockType`,
which says that `mu` is held exactly by the thread in its section; so is `NothingStranded`, once
`die` is known closed by whoever closes the session.

**Crypt** (any block cipher, key stream and table long enough, any length of blocks, rounds of an even number of blocks, any
packets).  `CryptInv`: while encrypting, what is done is cipher feedback, what is not is as given, and
`tbl` is the key stream of the next piece (`Encrypting`); while decrypting, what is done is as given and what is not is
still the cipher text, in place too (`Decrypting`).  The rounds take blocks in pairs, and end on an even one
(`EvenRounds`).  That xor undoes itself (`XorTwice`) does the rest.

**TimedSched** (finitely many workers, any tasks and delays).  `Places`: no queue, batch, heap or worker has a
task twice, and no two have the same.  `Covered` extends `TimerCoversHeap` to workers that will be
at their `select` when they have run a task, and `DrainKnown` says that a timer whose value was
received is known to be (`drained`), so that the drain never waits.

**KcpLink** (any windows, any first number, any packets lost, repeated, overtaken or rebuilt, any
clock).  Numbers wrap and `itimediff` orders them only while they are less than half of all numbers
apart.  `LifetimeAssumption` says that a session does not use up half of them: an old packet
may linger for as long as it likes, and one from half the circle ago would look new.  At a report every
two seconds the code's 2^31 numbers last 136 years.  With it, offsets from the first number (`Off`) are a
true order, and everything else is said in offsets.

`Invariance` proves the inductive invariant `LinkInv`:

- `SendSide`: `snd_una`, the segments of `snd_buf` and those of `snd_queue` are consecutive numbers, and
  a segment not acknowledged has its data;
- `ReceiveSide`: `rcv_queue` ends at `rcv_nxt`, and what waits in `rcv_buf` is in the window, once each;
- `Direction`: the receiver is between `snd_una` and `snd_nxt`, and what the sender has marked as
  acknowledged the receiver has; only then may `parse_ack` free the data before `una` passes;
- `Says`: a packet on its way says only what is still true of the end that sent it, however long
  ago: its `una` is passed, an ACK is for what has come, a PUSH carries what its number stands for.  Since
  none of this can become false (`Later`), repeating or holding back a packet changes nothing.

`NumbersInOrder` and `LastCopyKept` follow from it.  `Delivery` adds for each step what it does to
`Unread`: `Write` appends its message, `Read` takes the first, and `flush`, `Input` and the
network leave the contents alone, wherever they move them between the queues.

`Input` goes through the segments of a packet and `flush` through those of a buffer.  Both are written as
recursive functions on the length (`InputSegments`, `AtPositions`).  That such a function exists and
what it keeps is an induction over natural numbers, for which `InductionTo` and `Recursion` state the
case needed with a set in place of the predicate: the least number that is missing from it has none before.

**Only model-checked**, and why:

- every liveness property: `ReportsAnswered`, `Terminates`, `HallCallsArrive`, `Settles`, `FirstServed`, `Arrives`,
  `CallsReturn`, `GoroutinesEnd`, `SlaveGetsIn`, `TasksRun`;
- `InTune`, `Recovered`, `KeepsWindow`: the queue is kept by sorting sets of places (`Without`), a
  recursive definition of the library the provers cannot unfold, and the properties need that no
  shard is under way while the numbers go all the way round, which `MaxPackets` grants in the run and
  the network's delay in the program: they are not true for all values of the constants.

## Not modelled

- Of the driver: a failing read or write, which panics; the levels of single buttons and the
  stop button's poll; setters `main` never calls.
- `MasterCheck`, which is never called.
- The master's own car: no order ever reaches it, and its cases are those of `Elevator` without
  `TakeRequest`, so its motor never starts.
- An error of `AcceptKCP`: the accept loops of the programs go round on it for ever, and a
  listener whose socket is broken makes no more sessions.
- Of `sess.go`: the socket a `Close` of a dialled session closes, and with it the end of the client's `readLoop`; its
  `Read` in `UdpSession` counts messages ready down by one, although `Recv` may make more ready.
- Of `kcp.go`: the returns of `Input` for packets of another conversation, cut short or of an unknown command; `ackNoDelay`, which the
  programs never set; fragments and stream mode of `Send`, which messages of a few bytes do not meet; `Check` and `Update`,
  which `sess.go` does not call.
- Of `fec.go`: the error of `reedsolomon.New`.
- Random numbers and statistics, which keep no state the protocol depends on; the ciphers themselves; the
  setters of options the programs never set.
