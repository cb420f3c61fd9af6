-------------------------- MODULE ApplicationLayer --------------------------
(***************************************************************************)
(* The application layer (source/ApplicationLayer.cpp,                     *)
(* inc/ApplicationLayer.h).  The host asks the sink to set how a sensor of *)
(* a plant samples; a fiber per request sends SET_GRADIENT to the plant    *)
(* and waits for its acknowledgement, and the host is answered             *)
(*   0 -> fine, 1 -> no route, 2 -> disconnected, 3 -> another is served.  *)
(* On each plant a fiber per sensor samples while it should.               *)
(*                                                                         *)
(* waiting_ack, dest and serving are one set of variables for all the      *)
(* fibers of the sink; the message bus of the sink stops while a fiber     *)
(* that was created waits to run.  Timers are untimed.  Of the network     *)
(* layer the module keeps what its callers see: send(payload, destination) *)
(* and what its fibers share, and messages that are lost, reordered or     *)
(* repeated.  The thresholds and the values of the samples are left out.   *)
(***************************************************************************)
EXTENDS Naturals, Sequences

CONSTANTS
  Node,        \* the plants
  Sensor,      \* the sensors each of them has
  Request,     \* the requests of the host, named by their resp_event
  Ask,         \* request -> what it asks for
  NULL,
  MaxUpdate,   \* bound: connections made and lost by each plant
  MaxLost,     \* bound: plants reported lost to the sink
  MaxRepeat    \* bound: messages that arrive a second time

Gradient == [to : Node, sensor : Sensor, start : BOOLEAN, sample : BOOLEAN, rate : Nat]

ASSUME AskAssumption == Ask \in [Request -> Gradient]
ASSUME NullAssumption == NULL \notin Request
ASSUME AppBounds ==
  /\ MaxUpdate \in [Node -> Nat]
  /\ MaxLost \in Nat /\ MaxRepeat \in Nat

VARIABLES
  waiting_ack, dest, serving, \* at the sink: the request that is served
  phase,        \* per request: where its fiber is
  route,        \* what the calls of send share: [waits, found, payload, gets]
  answers,      \* history: the answers to each request
  down, acks,   \* messages on their way: SET_GRADIENT, SET_GRADIENT_ACK
  rt_formed, updates, \* per plant: its network layer, and the changes it queued
  connected,    \* per plant
  sensing, sensing_rate, active_loop, loops, \* per sensor; loops counts fibers
  info,         \* history: what became of a plant's MICRO_INFO
  applied,      \* history: the requests a plant carried out
  skipped,      \* history: an unset sample_rate was read as 0
  used          \* how much of each bound is used

ackVars == <<waiting_ack, dest, serving, phase, answers>>
plantVars == <<rt_formed, updates, connected, info>>
sensorVars == <<sensing, sensing_rate, active_loop, loops, applied, skipped>>
vars == <<ackVars, route, down, acks, plantVars, sensorVars, used>>

PerSensor(v) == [n \in Node |-> [s \in Sensor |-> v]]

\* init and addSensor.
Init ==
  /\ waiting_ack = FALSE /\ dest = NULL /\ serving = NULL
  /\ phase = [r \in Request |-> "none"]
  /\ route = [waits |-> FALSE, found |-> FALSE, payload |-> NULL, gets |-> <<>>]
  /\ answers = [r \in Request |-> {}]
  /\ down = [n \in Node |-> [r \in Request |-> 0]]
  /\ acks = [n \in Node |-> 0]
  /\ rt_formed = [n \in Node |-> FALSE] /\ updates = [n \in Node |-> <<>>]
  /\ connected = [n \in Node |-> FALSE]
  /\ sensing = PerSensor(FALSE) /\ sensing_rate = PerSensor(1000)
  /\ active_loop = PerSensor(FALSE) /\ loops = PerSensor(0)
  /\ info = [n \in Node |-> "none"]
  /\ applied = [n \in Node |-> {}] /\ skipped = PerSensor(FALSE)
  /\ used = [update |-> [n \in Node |-> 0], lost |-> 0, repeat |-> 0]

-----------------------------------------------------------------------------
(* The sink.                                                               *)

Answer(r, code) == answers' = [answers EXCEPT ![r] = @ \cup {code}]

\* A handler runs when no fiber that was created has still to start.
BusRuns == \A r \in Request : phase[r] # "created"

\* recv_sensing_req.
RecvSensingReq(r) ==
  /\ BusRuns /\ phase[r] = "none"
  /\ IF waiting_ack
     THEN Answer(r, 3) /\ phase' = [phase EXCEPT ![r] = "done"]
     ELSE phase' = [phase EXCEPT ![r] = "created"] /\ UNCHANGED answers
  /\ UNCHANGED <<waiting_ack, dest, serving, route, down, acks, plantVars, sensorVars, used>>

\* NetworkLayer::send(payload, destination) up to where it sleeps.
AskRoute(payload, destination) ==
  route' = [route EXCEPT !.payload = payload, !.waits = TRUE, !.gets = Append(@, destination)]

\* send_sensing_req up to there.
SendSensingReq(r) ==
  /\ phase[r] = "created"
  /\ waiting_ack' = TRUE /\ dest' = Ask[r].to /\ serving' = r
  /\ AskRoute(r, Ask[r].to)
  /\ phase' = [phase EXCEPT ![r] = "sending"]
  /\ UNCHANGED <<answers, down, acks, plantVars, sensorVars, used>>

\* The host answers: the payload of the last call goes to the node of the first.
RouteAnswered ==
  /\ BusRuns /\ route.gets # <<>>
  /\ \E found \in BOOLEAN :
       /\ route' = [route EXCEPT !.waits = FALSE, !.found = found, !.gets = Tail(@)]
       /\ down' = IF found THEN [down EXCEPT ![Head(route.gets)][route.payload] = @ + 1]
                  ELSE down
  /\ UNCHANGED <<ackVars, acks, plantVars, sensorVars, used>>

\* send_sensing_req after the call.
NoRoute(r) ==
  /\ waiting_ack' = FALSE /\ Answer(serving, 1)
  /\ phase' = [phase EXCEPT ![r] = "done"]

SendReturns(r) ==
  /\ phase[r] = "sending" /\ ~route.waits
  /\ IF route.found
     THEN /\ phase' = [phase EXCEPT ![r] = IF waiting_ack THEN "waiting" ELSE "done"]
          /\ UNCHANGED <<waiting_ack, answers>>
     ELSE NoRoute(r)
  /\ UNCHANGED <<dest, serving, route, down, acks, plantVars, sensorVars, used>>

\* The end of its loop: waiting_ack was reset, or ACK_WAITING_TIME is over.
WaitEnds(r) ==
  /\ phase[r] = "waiting" /\ ~waiting_ack
  /\ phase' = [phase EXCEPT ![r] = "done"]
  /\ UNCHANGED <<waiting_ack, dest, serving, answers, route, down, acks, plantVars,
                 sensorVars, used>>

NoTimeOut(r) == FALSE                       \* mutant: waits for ever
TimeOut(r) ==
  /\ phase[r] = "waiting" /\ waiting_ack
  /\ waiting_ack' = FALSE /\ Answer(serving, 2)
  /\ phase' = [phase EXCEPT ![r] = "done"]
  /\ UNCHANGED <<dest, serving, route, down, acks, plantVars, sensorVars, used>>

\* update_connection_status_sink; a status of true changes nothing.
ForgetsAnswer(n) ==                         \* mutant: the request is not answered
  /\ waiting_ack' = (waiting_ack /\ dest # n)
  /\ UNCHANGED answers
PlantLost(n) ==
  IF waiting_ack /\ dest = n THEN waiting_ack' = FALSE /\ Answer(serving, 2)
  ELSE UNCHANGED <<waiting_ack, answers>>

UpdateConnectionStatusSink(n) ==
  /\ BusRuns /\ used.lost < MaxLost
  /\ used' = [used EXCEPT !.lost = @ + 1]
  /\ PlantLost(n)
  /\ UNCHANGED <<dest, serving, phase, route, down, acks, plantVars, sensorVars>>

\* recv_from_network of SET_GRADIENT_ACK.
AnyPlant(n) == serving # NULL               \* mutant: the source is not looked at
FromDest(n) == dest = n

RecvAck(n) ==
  /\ BusRuns
  /\ IF FromDest(n) THEN waiting_ack' = FALSE /\ Answer(serving, 0)
     ELSE UNCHANGED <<waiting_ack, answers>>
  /\ UNCHANGED <<dest, serving, phase, route, plantVars, sensorVars>>

\* recv_from_network of MICRO_INFO, and the fiber that tells the host.
RecvInfo(n) ==
  /\ BusRuns /\ info[n] = "sent"
  /\ info' = [info EXCEPT ![n] = "told"]
  /\ UNCHANGED <<ackVars, route, down, acks, rt_formed, updates, connected, sensorVars, used>>

-----------------------------------------------------------------------------
(* The plants.                                                             *)

\* rt_connect and rt_disconnect of a plant's network layer.
NetworkChanges(n, status) ==
  /\ ~status => rt_formed[n]
  /\ used.update[n] < MaxUpdate[n]
  /\ used' = [used EXCEPT !.update[n] = @ + 1]
  /\ rt_formed' = [rt_formed EXCEPT ![n] = status]
  /\ updates' = [updates EXCEPT ![n] = Append(@, status)]
  /\ UNCHANGED <<ackVars, route, down, acks, connected, info, sensorVars>>

\* A sensor's fiber is created; it will start at the top of its loop.
StartLoops(n, S) ==
  /\ active_loop' = [active_loop EXCEPT ![n] = [s \in Sensor |-> @[s] \/ s \in S]]
  /\ loops' = [loops EXCEPT ![n] = [s \in Sensor |-> IF s \in S THEN @[s] + 1 ELSE @[s]]]
  /\ skipped' = [skipped EXCEPT ![n] = [s \in Sensor |-> @[s] /\ s \notin S]]

AllSensors(n) == Sensor                     \* mutant: active_loop is not looked at
Idle(n) == {s \in Sensor : ~active_loop[n][s]}

NoneResumes(n) == {}                        \* mutant: a connection starts no fiber
Resuming(n) == Idle(n)

\* send_microbit_info: nl->send takes it if the tree is formed.
InfoKept(n) == info                         \* mutant: it is not called
SendMicrobitInfo(n) == [info EXCEPT ![n] = IF rt_formed[n] THEN "sent" ELSE @]

\* update_connection_status.
UpdateConnectionStatus(n) ==
  /\ updates[n] # <<>>
  /\ updates' = [updates EXCEPT ![n] = Tail(@)]
  /\ connected' = [connected EXCEPT ![n] = Head(updates[n])]
  /\ IF Head(updates[n])
     THEN info' = SendMicrobitInfo(n) /\ StartLoops(n, Resuming(n))
     ELSE UNCHANGED <<info, active_loop, loops, skipped>>
  /\ UNCHANGED <<ackVars, route, down, acks, rt_formed, sensing, sensing_rate, applied, used>>

\* sensing_loop: its fiber ends, or samples and sleeps for sensing_rate.
ShouldSample(n, s) == sensing[n][s] /\ sensing_rate[n][s] # 0 /\ connected[n]

SensingLoop(n, s) ==
  /\ loops[n][s] > 0
  /\ IF ShouldSample(n, s) THEN UNCHANGED <<active_loop, loops>>
     ELSE /\ active_loop' = [active_loop EXCEPT ![n][s] = FALSE]
          /\ loops' = [loops EXCEPT ![n][s] = @ - 1]
  /\ UNCHANGED <<ackVars, route, down, acks, plantVars, sensing, sensing_rate, applied,
                 skipped, used>>

Unchecked(rate) == rate                     \* mutant: any rate is taken
AtLeast100(rate) == IF 0 < rate /\ rate < 100 THEN 100 ELSE rate

\* recv_from_network of SET_GRADIENT. sample_rate is read although the message
\* sets it only if sample: 0 or not 0. The fiber that acknowledges finds the
\* network layer as the handler left it.
SetGradient(n, r) ==
  LET g == Ask[r]
      s == g.sensor
  IN /\ sensing' = [sensing EXCEPT ![n][s] = g.start]
     /\ sensing_rate' = IF g.sample THEN [sensing_rate EXCEPT ![n][s] = AtLeast100(g.rate)]
                        ELSE sensing_rate
     /\ \E zero \in IF g.sample THEN {g.rate = 0} ELSE BOOLEAN :
          IF s \in Idle(n) /\ ~zero /\ g.start THEN StartLoops(n, {s})
          ELSE /\ skipped' = [skipped EXCEPT ![n][s] =
                                @ \/ (s \in Idle(n) /\ g.start /\ ~g.sample)]
               /\ UNCHANGED <<active_loop, loops>>
     /\ applied' = [applied EXCEPT ![n] = @ \cup {r}]
     /\ acks' = IF rt_formed[n] THEN [acks EXCEPT ![n] = @ + 1] ELSE acks
     /\ UNCHANGED <<ackVars, route, plantVars>>

-----------------------------------------------------------------------------
(* The network: what is on its way arrives, perhaps twice; what is lost is  *)
(* what never does.                                                        *)

Repeats == used.repeat < MaxRepeat /\ used' = [used EXCEPT !.repeat = @ + 1]
Taken(n, r) == down' = [down EXCEPT ![n][r] = @ - 1]
AckTaken(n) == acks' = [acks EXCEPT ![n] = @ - 1]

CommandArrives(n, r) ==
  /\ down[n][r] > 0
  /\ SetGradient(n, r)
  /\ \/ Taken(n, r) /\ UNCHANGED used
     \/ Repeats /\ UNCHANGED down

AckArrives(n) ==
  /\ acks[n] > 0
  /\ RecvAck(n)
  /\ \/ AckTaken(n) /\ UNCHANGED used
     \/ Repeats /\ UNCHANGED acks
  /\ UNCHANGED down

-----------------------------------------------------------------------------
FiberStep(r) == SendSensingReq(r) \/ SendReturns(r) \/ WaitEnds(r) \/ TimeOut(r)

SinkStep ==
  \/ \E r \in Request : RecvSensingReq(r) \/ FiberStep(r)
  \/ RouteAnswered
  \/ \E n \in Node : UpdateConnectionStatusSink(n) \/ RecvInfo(n)

PlantStep(n) ==
  \/ \E status \in BOOLEAN : NetworkChanges(n, status)
  \/ UpdateConnectionStatus(n)
  \/ \E s \in Sensor : SensingLoop(n, s)

NetworkStep(n) == (\E r \in Request : CommandArrives(n, r)) \/ AckArrives(n)

Next == SinkStep \/ \E n \in Node : PlantStep(n) \/ NetworkStep(n)

Spec == Init /\ [][Next]_vars

\* A fiber that can run does, time passes, and the host answers the network
\* layer. Nothing is assumed of the network and the plants.
Fairness ==
  /\ \A r \in Request : WF_vars(FiberStep(r))
  /\ WF_vars(RouteAnswered)

FairSpec == Spec /\ Fairness

-----------------------------------------------------------------------------
(* Properties.                                                             *)

\* Types of the variables; a rate is 0 or at least 100 (recv_from_network).
TypeOK ==
  /\ waiting_ack \in BOOLEAN /\ dest \in Node \cup {NULL} /\ serving \in Request \cup {NULL}
  /\ phase \in [Request -> {"none", "created", "sending", "waiting", "done"}]
  /\ route \in [waits : BOOLEAN, found : BOOLEAN, payload : Request \cup {NULL}, gets : Seq(Node)]
  /\ answers \in [Request -> SUBSET (0 .. 3)]
  /\ down \in [Node -> [Request -> Nat]] /\ acks \in [Node -> Nat]
  /\ rt_formed \in [Node -> BOOLEAN] /\ updates \in [Node -> Seq(BOOLEAN)]
  /\ connected \in [Node -> BOOLEAN]
  /\ {sensing, active_loop, skipped} \subseteq [Node -> [Sensor -> BOOLEAN]]
  /\ loops \in [Node -> [Sensor -> Nat]]
  /\ sensing_rate \in [Node -> [Sensor -> Nat \ 1 .. 99]]
  /\ info \in [Node -> {"none", "sent", "told"}]
  /\ applied \in [Node -> SUBSET Request]
  /\ used \in [update : [Node -> Nat], lost : Nat, repeat : Nat]

\* No request is forgotten, although all share waiting_ack, dest and serving: one
\* that is not answered has still to start, or is the one that is served, and
\* its own fiber will see to it (recv_sensing_req, send_sensing_req).
NoRequestForgotten ==
  \A r \in Request : phase[r] # "none" /\ answers[r] = {} =>
    \/ phase[r] = "created" /\ ~waiting_ack
    \/ phase[r] \in {"sending", "waiting"} /\ waiting_ack /\ serving = r

\* The host is answered, also when the plant is silent, lost or unknown.
EveryRequestAnswered == \A r \in Request : phase[r] # "none" ~> answers[r] # {}

\* "Fine" is said of a plant that carried out a request: no acknowledgement of
\* another one is taken for its own, however late (dest).
FineFromDest == \A r \in Request : 0 \in answers[r] => applied[Ask[r].to] # {}

\* No sensor has two fibers, which would sample twice as often: the flag
\* active_loop, set and reset by the two handlers and the fiber, says whether
\* there is one.
OneLoop == \A n \in Node, s \in Sensor : loops[n][s] = IF active_loop[n][s] THEN 1 ELSE 0

\* A sensor that should sample has its fiber: none ended for a reason that is
\* over, whatever the order of connections and gradients (update_connection_status,
\* recv_from_network, sensing_loop) -- unless a gradient without a rate was
\* taken for one with rate 0.
SensingHasLoop ==
  \A n \in Node, s \in Sensor :
    ShouldSample(n, s) /\ ~skipped[n][s] => active_loop[n][s]

\* When a plant has handled the changes of its network layer it knows how it
\* stands, and if it is connected its MICRO_INFO was on its way: what it said
\* while the tree was lost again, and was refused, it said again.
PlantKnown ==
  \A n \in Node : updates[n] = <<>> =>
    connected[n] = rt_formed[n] /\ (connected[n] => info[n] # "none")
=============================================================================
