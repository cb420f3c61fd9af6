------------------------- MODULE ApplicationProofs -------------------------
(***************************************************************************)
(* Theorems about ApplicationLayer, for any plants, sensors and requests,  *)
(* and any number of changes, losses and repetitions.                      *)
(***************************************************************************)
EXTENDS ApplicationLayer, TLAPS, SequenceTheorems

-----------------------------------------------------------------------------
(* The types, in the groups the actions leave alone together.              *)

SinkType ==
  /\ waiting_ack \in BOOLEAN /\ dest \in Node \cup {NULL} /\ serving \in Request \cup {NULL}
  /\ phase \in [Request -> {"none", "created", "sending", "waiting", "done"}]
  /\ answers \in [Request -> SUBSET (0 .. 3)]

RouteType ==
  route \in [waits : BOOLEAN, found : BOOLEAN, payload : Request \cup {NULL}, gets : Seq(Node)]

NetType == down \in [Node -> [Request -> Nat]] /\ acks \in [Node -> Nat]

PlantType ==
  /\ rt_formed \in [Node -> BOOLEAN] /\ updates \in [Node -> Seq(BOOLEAN)]
  /\ connected \in [Node -> BOOLEAN]
  /\ info \in [Node -> {"none", "sent", "told"}]

SensorType ==
  /\ sensing \in [Node -> [Sensor -> BOOLEAN]]
  /\ active_loop \in [Node -> [Sensor -> BOOLEAN]]
  /\ skipped \in [Node -> [Sensor -> BOOLEAN]]
  /\ loops \in [Node -> [Sensor -> Nat]]
  /\ sensing_rate \in [Node -> [Sensor -> Nat \ 1 .. 99]]
  /\ applied \in [Node -> SUBSET Request]

UsedType == used \in [update : [Node -> Nat], lost : Nat, repeat : Nat]

LEMMA Types ==
  TypeOK <=> /\ SinkType /\ RouteType /\ NetType /\ PlantType /\ SensorType /\ UsedType
  BY DEF TypeOK, SinkType, RouteType, NetType, PlantType, SensorType, UsedType

\* One entry of a table changes.
LEMMA ExceptType ==
  ASSUME NEW A, NEW B, NEW V, NEW f \in [A -> [B -> V]], NEW a \in A, NEW b \in B, NEW v \in V
  PROVE  [f EXCEPT ![a][b] = v] \in [A -> [B -> V]]
<1>1. [f[a] EXCEPT ![b] = v] \in [B -> V]
  OBVIOUS
<1> QED  BY <1>1

LEMMA TypesNext ==
  ASSUME SinkType', RouteType', NetType', PlantType', SensorType', UsedType'
  PROVE  TypeOK'
  BY DEF TypeOK, SinkType, RouteType, NetType, PlantType, SensorType, UsedType

LEMMA SinkKept == ASSUME SinkType, UNCHANGED ackVars PROVE SinkType'
  BY DEF SinkType, ackVars

LEMMA RouteKept == ASSUME RouteType, UNCHANGED route PROVE RouteType'
  BY DEF RouteType

LEMMA NetKept == ASSUME NetType, UNCHANGED <<down, acks>> PROVE NetType'
  BY DEF NetType

LEMMA PlantKept == ASSUME PlantType, UNCHANGED plantVars PROVE PlantType'
  BY DEF PlantType, plantVars

LEMMA SensorKept == ASSUME SensorType, UNCHANGED sensorVars PROVE SensorType'
  BY DEF SensorType, sensorVars

LEMMA UsedKept == ASSUME UsedType, UNCHANGED used PROVE UsedType'
  BY DEF UsedType

LEMMA InitTypes == Init => TypeOK
<1> SUFFICES ASSUME Init PROVE TypeOK
  OBVIOUS
<1>1. SinkType /\ NetType /\ UsedType
  BY DEF Init, SinkType, NetType, UsedType
<1>2. <<>> \in Seq(Node) /\ <<>> \in Seq(BOOLEAN)
  BY EmptySeq
<1>3. RouteType /\ PlantType
  BY <1>2 DEF Init, RouteType, PlantType
<1>4. SensorType
  BY DEF Init, SensorType, PerSensor
<1> QED  BY <1>1, <1>3, <1>4, Types

-----------------------------------------------------------------------------
(* The steps of the sink keep the types.                                   *)

LEMMA AnswerType ==
  ASSUME SinkType, NEW q, NEW code \in 0 .. 3
  PROVE  [answers EXCEPT ![q] = @ \cup {code}] \in [Request -> SUBSET (0 .. 3)]
  BY DEF SinkType

LEMMA FiberTypes ==
  ASSUME TypeOK, NEW r \in Request, FiberStep(r)
  PROVE  TypeOK'
<1>1. SinkType /\ RouteType /\ NetType /\ PlantType /\ SensorType /\ UsedType
  BY Types
<1>2. UNCHANGED <<down, acks, plantVars, sensorVars, used>>
  BY DEF FiberStep, SendSensingReq, SendReturns, WaitEnds, TimeOut
<1>3. SinkType'
  <2>1. CASE SendSensingReq(r)
    BY <1>1, <2>1, AskAssumption DEF SinkType, SendSensingReq, Gradient
  <2>2. CASE SendReturns(r)
    <3>1. CASE route.found
      BY <1>1, <2>2, <3>1 DEF SinkType, SendReturns
    <3>2. CASE ~route.found
      <4>1. /\ waiting_ack' = FALSE /\ answers' = [answers EXCEPT ![serving] = @ \cup {1}]
            /\ phase' = [phase EXCEPT ![r] = "done"] /\ UNCHANGED <<dest, serving>>
        BY <2>2, <3>2 DEF SendReturns, NoRoute, Answer
      <4>2. answers' \in [Request -> SUBSET (0 .. 3)]
        BY <1>1, <4>1, AnswerType
      <4> QED  BY <1>1, <4>1, <4>2 DEF SinkType
    <3> QED  BY <3>1, <3>2
  <2>3. CASE WaitEnds(r)
    BY <1>1, <2>3 DEF SinkType, WaitEnds
  <2>4. CASE TimeOut(r)
    <3>1. /\ waiting_ack' = FALSE /\ answers' = [answers EXCEPT ![serving] = @ \cup {2}]
          /\ phase' = [phase EXCEPT ![r] = "done"] /\ UNCHANGED <<dest, serving>>
      BY <2>4 DEF TimeOut, Answer
    <3>2. answers' \in [Request -> SUBSET (0 .. 3)]
      BY <1>1, <3>1, AnswerType
    <3> QED  BY <1>1, <3>1, <3>2 DEF SinkType
  <2> QED  BY <2>1, <2>2, <2>3, <2>4 DEF FiberStep
<1>4. RouteType'
  <2>1. CASE SendSensingReq(r)
    <3>1. Ask[r].to \in Node
      BY AskAssumption DEF Gradient
    <3>2. Append(route.gets, Ask[r].to) \in Seq(Node)
      BY <1>1, <3>1, AppendProperties DEF RouteType
    <3> QED  BY <1>1, <2>1, <3>2 DEF SendSensingReq, AskRoute, RouteType
  <2>2. CASE UNCHANGED route
    BY <1>1, <2>2, RouteKept
  <2> QED  BY <2>1, <2>2 DEF FiberStep, SendReturns, WaitEnds, TimeOut
<1> QED  BY <1>1, <1>2, <1>3, <1>4, NetKept, PlantKept, SensorKept, UsedKept, TypesNext

LEMMA SinkTypes ==
  ASSUME TypeOK, SinkStep
  PROVE  TypeOK'
<1>1. SinkType /\ RouteType /\ NetType /\ PlantType /\ SensorType /\ UsedType
  BY Types
<1>2. ASSUME NEW r \in Request, RecvSensingReq(r) PROVE TypeOK'
  <2>1. UNCHANGED <<route, down, acks, plantVars, sensorVars, used>>
    BY <1>2 DEF RecvSensingReq
  <2>2. answers' \in [Request -> SUBSET (0 .. 3)]
    BY <1>1, <1>2, AnswerType DEF RecvSensingReq, Answer, SinkType
  <2>3. SinkType'
    BY <1>1, <1>2, <2>2 DEF RecvSensingReq, SinkType
  <2> QED  BY <1>1, <2>1, <2>3, RouteKept, NetKept, PlantKept, SensorKept, UsedKept, TypesNext
<1>3. CASE RouteAnswered
  <2>1. /\ UNCHANGED <<ackVars, acks, plantVars, sensorVars, used>> /\ route.gets # <<>>
        /\ \E found \in BOOLEAN :
             /\ route' = [route EXCEPT !.waits = FALSE, !.found = found, !.gets = Tail(@)]
             /\ down' = IF found THEN [down EXCEPT ![Head(route.gets)][route.payload] = @ + 1]
                        ELSE down
    BY <1>3 DEF RouteAnswered
  <2>2. Tail(route.gets) \in Seq(Node) /\ Head(route.gets) \in Node
    BY <1>1, <2>1, HeadTailProperties DEF RouteType
  <2>3. RouteType'
    BY <1>1, <2>1, <2>2 DEF RouteType
  <2>4. NetType'
    <3>1. down' \in [Node -> [Request -> Nat]]
      <4> DEFINE h == Head(route.gets)
                 p == route.payload
      <4>1. [down EXCEPT ![h][p] = @ + 1] \in [Node -> [Request -> Nat]]
        <5>1. h \in Node
          BY <2>2
        <5> HIDE DEF h, p
        <5>2. \A q \in Request : down[h][q] \in Nat /\ down[h][q] + 1 \in Nat
          BY <1>1, <5>1 DEF NetType
        <5>3. [down[h] EXCEPT ![p] = @ + 1] \in [Request -> Nat]
          BY <1>1, <5>1, <5>2 DEF NetType
        <5> QED  BY <1>1, <5>3 DEF NetType
      <4> QED  BY <1>1, <2>1, <4>1 DEF NetType
    <3> QED  BY <1>1, <2>1, <3>1 DEF NetType
  <2> QED  BY <1>1, <2>1, <2>3, <2>4, SinkKept, PlantKept, SensorKept, UsedKept, TypesNext
<1>4. ASSUME NEW n \in Node, UpdateConnectionStatusSink(n) PROVE TypeOK'
  <2>1. /\ UNCHANGED <<dest, serving, phase, route, down, acks, plantVars, sensorVars>>
        /\ used' = [used EXCEPT !.lost = @ + 1]
        /\ waiting_ack' \in {FALSE, waiting_ack}
        /\ answers' \in {answers, [answers EXCEPT ![serving] = @ \cup {2}]}
    BY <1>4 DEF UpdateConnectionStatusSink, PlantLost, Answer
  <2>2. SinkType'
    <3>1. answers' \in [Request -> SUBSET (0 .. 3)]
      BY <1>1, <2>1, AnswerType DEF SinkType
    <3> QED  BY <1>1, <2>1, <3>1 DEF SinkType
  <2>3. UsedType'
    BY <1>1, <2>1 DEF UsedType
  <2> QED  BY <1>1, <2>1, <2>2, <2>3, RouteKept, NetKept, PlantKept, SensorKept, TypesNext
<1>5. ASSUME NEW n \in Node, RecvInfo(n) PROVE TypeOK'
  <2>1. /\ UNCHANGED <<ackVars, route, down, acks, rt_formed, updates, connected, sensorVars, used>>
        /\ info' = [info EXCEPT ![n] = "told"]
    BY <1>5 DEF RecvInfo
  <2>2. PlantType'
    BY <1>1, <2>1 DEF PlantType
  <2> QED  BY <1>1, <2>1, <2>2, SinkKept, RouteKept, NetKept, SensorKept, UsedKept, TypesNext
<1> QED  BY <1>2, <1>3, <1>4, <1>5, FiberTypes DEF SinkStep

-----------------------------------------------------------------------------
(* The steps of the plants and of the network keep the types.              *)

LEMMA StartLoopsTypes ==
  ASSUME SensorType, NEW n \in Node, NEW S, StartLoops(n, S),
         UNCHANGED <<sensing, sensing_rate, applied>>
  PROVE  SensorType'
<1>1. active_loop' = [active_loop EXCEPT ![n] = [s \in Sensor |-> @[s] \/ s \in S]]
  BY DEF StartLoops
<1>2. active_loop' \in [Node -> [Sensor -> BOOLEAN]]
  BY <1>1 DEF SensorType
<1>3. loops' = [loops EXCEPT ![n] = [s \in Sensor |-> IF s \in S THEN @[s] + 1 ELSE @[s]]]
  BY DEF StartLoops
<1>4. loops' \in [Node -> [Sensor -> Nat]]
  BY <1>3 DEF SensorType
<1>5. skipped' = [skipped EXCEPT ![n] = [s \in Sensor |-> @[s] /\ s \notin S]]
  BY DEF StartLoops
<1>6. skipped' \in [Node -> [Sensor -> BOOLEAN]]
  BY <1>5 DEF SensorType
<1> QED  BY <1>2, <1>4, <1>6 DEF SensorType

LEMMA PlantTypes ==
  ASSUME TypeOK, NEW n \in Node, PlantStep(n)
  PROVE  TypeOK'
<1>1. SinkType /\ RouteType /\ NetType /\ PlantType /\ SensorType /\ UsedType
  BY Types
<1>2. ASSUME NEW status \in BOOLEAN, NetworkChanges(n, status) PROVE TypeOK'
  <2>1. /\ used' = [used EXCEPT !.update[n] = @ + 1]
        /\ rt_formed' = [rt_formed EXCEPT ![n] = status]
        /\ updates' = [updates EXCEPT ![n] = Append(@, status)]
        /\ UNCHANGED <<ackVars, route, down, acks, connected, info, sensorVars>>
    BY <1>2 DEF NetworkChanges
  <2>2. Append(updates[n], status) \in Seq(BOOLEAN)
    BY <1>1, AppendProperties DEF PlantType
  <2>3. PlantType'
    BY <1>1, <2>1, <2>2 DEF PlantType
  <2>4. UsedType'
    <3>1. \A u \in [update : [Node -> Nat], lost : Nat, repeat : Nat] :
            [u EXCEPT !.update[n] = @ + 1] \in [update : [Node -> Nat], lost : Nat, repeat : Nat]
      OBVIOUS
    <3> QED  BY <1>1, <2>1, <3>1 DEF UsedType
  <2> QED  BY <1>1, <2>1, <2>3, <2>4, SinkKept, RouteKept, NetKept, SensorKept, TypesNext
<1>3. CASE UpdateConnectionStatus(n)
  <2>1. /\ updates[n] # <<>>
        /\ updates' = [updates EXCEPT ![n] = Tail(@)]
        /\ connected' = [connected EXCEPT ![n] = Head(updates[n])]
        /\ \/ /\ info' = [info EXCEPT ![n] = IF rt_formed[n] THEN "sent" ELSE @]
              /\ StartLoops(n, Resuming(n))
           \/ UNCHANGED <<info, active_loop, loops, skipped>>
        /\ UNCHANGED <<ackVars, route, down, acks, rt_formed, sensing, sensing_rate, applied, used>>
    BY <1>3 DEF UpdateConnectionStatus, SendMicrobitInfo
  <2>2. Tail(updates[n]) \in Seq(BOOLEAN) /\ Head(updates[n]) \in BOOLEAN
    BY <1>1, <2>1, HeadTailProperties DEF PlantType
  <2>3. PlantType'
    BY <1>1, <2>1, <2>2 DEF PlantType
  <2>4. SensorType'
    BY <1>1, <2>1, StartLoopsTypes, SensorKept DEF sensorVars
  <2> QED  BY <1>1, <2>1, <2>3, <2>4, SinkKept, RouteKept, NetKept, UsedKept, TypesNext
<1>4. ASSUME NEW s \in Sensor, SensingLoop(n, s) PROVE TypeOK'
  <2>1. /\ loops[n][s] > 0
        /\ UNCHANGED <<ackVars, route, down, acks, plantVars, sensing, sensing_rate, applied,
                       skipped, used>>
        /\ \/ UNCHANGED <<active_loop, loops>>
           \/ /\ active_loop' = [active_loop EXCEPT ![n][s] = FALSE]
              /\ loops' = [loops EXCEPT ![n][s] = @ - 1]
    BY <1>4 DEF SensingLoop
  <2>2. active_loop' \in [Node -> [Sensor -> BOOLEAN]]
    <3>1. active_loop \in [Node -> [Sensor -> BOOLEAN]] /\ FALSE \in BOOLEAN
      BY <1>1 DEF SensorType
    <3>2. [active_loop EXCEPT ![n][s] = FALSE] \in [Node -> [Sensor -> BOOLEAN]]
      BY <3>1, ExceptType, Zenon
    <3> QED  BY <2>1, <3>1, <3>2, Zenon
  <2>3. loops' \in [Node -> [Sensor -> Nat]]
    <3>1. loops[n][s] - 1 \in Nat
      BY <1>1, <2>1 DEF SensorType
    <3>2. [loops EXCEPT ![n][s] = loops[n][s] - 1] \in [Node -> [Sensor -> Nat]]
      BY <1>1, <3>1, ExceptType DEF SensorType
    <3> QED  BY <1>1, <2>1, <3>2 DEF SensorType
  <2>4. SensorType'
    BY <1>1, <2>1, <2>2, <2>3 DEF SensorType
  <2> QED  BY <1>1, <2>1, <2>4, SinkKept, RouteKept, NetKept, PlantKept, UsedKept, TypesNext
<1> QED  BY <1>2, <1>3, <1>4 DEF PlantStep

\* What a gradient does, in the words of the code: the sensor, its new rate,
\* whether its fiber is started.
LEMMA SetGradientDoes ==
  ASSUME TypeOK, NEW n \in Node, NEW r \in Request, SetGradient(n, r)
  PROVE  /\ Ask[r].sensor \in Sensor /\ Ask[r].start \in BOOLEAN /\ Ask[r].sample \in BOOLEAN
         /\ sensing' = [sensing EXCEPT ![n][Ask[r].sensor] = Ask[r].start]
         /\ sensing_rate' = IF Ask[r].sample
              THEN [sensing_rate EXCEPT ![n][Ask[r].sensor] = AtLeast100(Ask[r].rate)]
              ELSE sensing_rate
         /\ AtLeast100(Ask[r].rate) \in Nat \ 1 .. 99
         /\ \/ Ask[r].sensor \in Idle(n) /\ StartLoops(n, {Ask[r].sensor})
            \/ /\ UNCHANGED <<active_loop, loops>>
               /\ Ask[r].sensor \in Idle(n) /\ Ask[r].start =>
                    (Ask[r].sample /\ AtLeast100(Ask[r].rate) = 0) \/ ~Ask[r].sample
               /\ skipped' = [skipped EXCEPT ![n][Ask[r].sensor] =
                    @ \/ (Ask[r].sensor \in Idle(n) /\ Ask[r].start /\ ~Ask[r].sample)]
         /\ applied' = [applied EXCEPT ![n] = @ \cup {r}]
         /\ acks' = IF rt_formed[n] THEN [acks EXCEPT ![n] = @ + 1] ELSE acks
         /\ UNCHANGED <<ackVars, route, plantVars>>
<1> DEFINE g == Ask[r]
<1>1. /\ g.sensor \in Sensor /\ g.start \in BOOLEAN /\ g.sample \in BOOLEAN /\ g.rate \in Nat
  BY AskAssumption DEF Gradient
<1>2. AtLeast100(g.rate) \in Nat \ 1 .. 99 /\ (g.rate = 0 => AtLeast100(g.rate) = 0)
  BY <1>1 DEF AtLeast100
<1>3. /\ sensing' = [sensing EXCEPT ![n][g.sensor] = g.start]
      /\ sensing_rate' = IF g.sample
           THEN [sensing_rate EXCEPT ![n][g.sensor] = AtLeast100(g.rate)]
           ELSE sensing_rate
      /\ applied' = [applied EXCEPT ![n] = @ \cup {r}]
      /\ acks' = IF rt_formed[n] THEN [acks EXCEPT ![n] = @ + 1] ELSE acks
      /\ UNCHANGED <<ackVars, route, plantVars>>
  BY DEF SetGradient
<1>4. PICK zero \in IF g.sample THEN {g.rate = 0} ELSE BOOLEAN :
        IF g.sensor \in Idle(n) /\ ~zero /\ g.start THEN StartLoops(n, {g.sensor})
        ELSE /\ skipped' = [skipped EXCEPT ![n][g.sensor] =
                              @ \/ (g.sensor \in Idle(n) /\ g.start /\ ~g.sample)]
             /\ UNCHANGED <<active_loop, loops>>
  BY DEF SetGradient
<1>5. g.sample => zero = (g.rate = 0)
  BY <1>4
<1>6. CASE g.sensor \in Idle(n) /\ ~zero /\ g.start
  BY <1>1, <1>2, <1>3, <1>4, <1>6
<1>7. CASE ~(g.sensor \in Idle(n) /\ ~zero /\ g.start)
  <2>1. g.sensor \in Idle(n) /\ g.start => (g.sample /\ g.rate = 0) \/ ~g.sample
    BY <1>5, <1>7
  <2> QED  BY <1>1, <1>2, <1>3, <1>4, <1>7, <2>1
<1> QED  BY <1>6, <1>7

LEMMA SetGradientTypes ==
  ASSUME TypeOK, NEW n \in Node, NEW r \in Request, SetGradient(n, r)
  PROVE  SensorType' /\ acks' \in [Node -> Nat]
<1> DEFINE s == Ask[r].sensor
<1>1. SensorType /\ NetType
  BY Types
<1>2. s \in Sensor /\ Ask[r].start \in BOOLEAN
  BY SetGradientDoes
<1>3. sensing' \in [Node -> [Sensor -> BOOLEAN]]
  <2>1. sensing' = [sensing EXCEPT ![n][s] = Ask[r].start]
    BY SetGradientDoes
  <2>2. sensing \in [Node -> [Sensor -> BOOLEAN]]
    BY <1>1 DEF SensorType
  <2>3. [sensing EXCEPT ![n][s] = Ask[r].start] \in [Node -> [Sensor -> BOOLEAN]]
    BY <1>2, <2>2, ExceptType, Zenon
  <2> QED  BY <2>1, <2>3, Zenon
<1>4. sensing_rate' \in [Node -> [Sensor -> Nat \ 1 .. 99]]
  <2>1. /\ sensing_rate' \in {sensing_rate,
              [sensing_rate EXCEPT ![n][s] = AtLeast100(Ask[r].rate)]}
        /\ AtLeast100(Ask[r].rate) \in Nat \ 1 .. 99
    BY SetGradientDoes
  <2>2. sensing_rate \in [Node -> [Sensor -> Nat \ 1 .. 99]]
    BY <1>1 DEF SensorType
  <2>3. [sensing_rate EXCEPT ![n][s] = AtLeast100(Ask[r].rate)]
          \in [Node -> [Sensor -> Nat \ 1 .. 99]]
    BY <1>2, <2>1, <2>2, ExceptType, Zenon
  <2> QED  BY <2>1, <2>2, <2>3, Zenon
<1>5. applied' \in [Node -> SUBSET Request]
  <2>1. applied' = [applied EXCEPT ![n] = @ \cup {r}]
    BY SetGradientDoes
  <2> QED  BY <1>1, <2>1 DEF SensorType
<1>6. /\ active_loop' \in [Node -> [Sensor -> BOOLEAN]]
      /\ loops' \in [Node -> [Sensor -> Nat]]
      /\ skipped' \in [Node -> [Sensor -> BOOLEAN]]
  <2>1. CASE StartLoops(n, {s})
    <3>1. active_loop' = [active_loop EXCEPT ![n] = [k \in Sensor |-> @[k] \/ k \in {s}]]
      BY <2>1 DEF StartLoops
    <3>2. loops' = [loops EXCEPT ![n] = [k \in Sensor |-> IF k \in {s} THEN @[k] + 1 ELSE @[k]]]
      BY <2>1 DEF StartLoops
    <3>3. skipped' = [skipped EXCEPT ![n] = [k \in Sensor |-> @[k] /\ k \notin {s}]]
      BY <2>1 DEF StartLoops
    <3>4. active_loop' \in [Node -> [Sensor -> BOOLEAN]]
      BY <1>1, <3>1 DEF SensorType
    <3>5. loops' \in [Node -> [Sensor -> Nat]]
      BY <1>1, <3>2 DEF SensorType
    <3>6. skipped' \in [Node -> [Sensor -> BOOLEAN]]
      BY <1>1, <3>3 DEF SensorType
    <3> QED  BY <3>4, <3>5, <3>6
  <2>2. CASE /\ UNCHANGED <<active_loop, loops>>
             /\ skipped' = [skipped EXCEPT ![n][s] =
                  @ \/ (s \in Idle(n) /\ Ask[r].start /\ ~Ask[r].sample)]
    <3> DEFINE more == s \in Idle(n) /\ Ask[r].start /\ ~Ask[r].sample
    <3>1. more \in BOOLEAN /\ skipped' = [skipped EXCEPT ![n][s] = @ \/ more]
      BY <2>2
    <3> HIDE DEF more
    <3>2. skipped' \in [Node -> [Sensor -> BOOLEAN]]
      BY <1>1, <1>2, <3>1 DEF SensorType
    <3> QED  BY <1>1, <2>2, <3>2 DEF SensorType
  <2> QED  BY <2>1, <2>2, SetGradientDoes
<1>7. acks' \in [Node -> Nat]
  <2>1. acks' \in {acks, [acks EXCEPT ![n] = @ + 1]}
    BY SetGradientDoes
  <2> QED  BY <1>1, <2>1 DEF NetType
<1> QED  BY <1>3, <1>4, <1>5, <1>6, <1>7 DEF SensorType

LEMMA RepeatType ==
  ASSUME UsedType, Repeats \/ UNCHANGED used
  PROVE  UsedType'
  BY DEF UsedType, Repeats

LEMMA NetworkTypes ==
  ASSUME TypeOK, NEW n \in Node, NetworkStep(n)
  PROVE  TypeOK'
<1>1. SinkType /\ RouteType /\ NetType /\ PlantType /\ SensorType /\ UsedType
  BY Types
<1>2. ASSUME NEW r \in Request, CommandArrives(n, r) PROVE TypeOK'
  <2>1. /\ SetGradient(n, r) /\ down[n][r] > 0
        /\ Taken(n, r) \/ UNCHANGED down
        /\ Repeats \/ UNCHANGED used
    BY <1>2 DEF CommandArrives
  <2>2. down' \in [Node -> [Request -> Nat]]
    <3>1. down[n][r] - 1 \in Nat
      BY <1>1, <2>1 DEF NetType
    <3>2. [down EXCEPT ![n][r] = down[n][r] - 1] \in [Node -> [Request -> Nat]]
      BY <1>1, <3>1, ExceptType DEF NetType
    <3> QED  BY <1>1, <2>1, <3>2 DEF NetType, Taken
  <2>3. NetType' /\ SensorType'
    BY <2>1, <2>2, SetGradientTypes DEF NetType
  <2>4. UsedType'
    BY <1>1, <2>1, RepeatType
  <2> QED  BY <1>1, <2>1, <2>3, <2>4, SetGradientDoes, SinkKept, RouteKept, PlantKept, TypesNext
<1>3. CASE AckArrives(n)
  <2>1. /\ acks[n] > 0 /\ RecvAck(n) /\ UNCHANGED down
        /\ AckTaken(n) \/ UNCHANGED acks
        /\ Repeats \/ UNCHANGED used
    BY <1>3 DEF AckArrives
  <2>2. NetType'
    <3>1. acks[n] - 1 \in Nat
      BY <1>1, <2>1 DEF NetType
    <3> QED  BY <1>1, <2>1, <3>1 DEF NetType, AckTaken
  <2>3. /\ UNCHANGED <<dest, serving, phase, route, plantVars, sensorVars>>
        /\ waiting_ack' \in {FALSE, waiting_ack}
        /\ answers' \in {answers, [answers EXCEPT ![serving] = @ \cup {0}]}
    BY <2>1 DEF RecvAck, Answer
  <2>4. SinkType'
    <3>1. answers' \in [Request -> SUBSET (0 .. 3)]
      BY <1>1, <2>3, AnswerType DEF SinkType
    <3> QED  BY <1>1, <2>3, <3>1 DEF SinkType
  <2>5. UsedType'
    BY <1>1, <2>1, RepeatType
  <2> QED  BY <1>1, <2>2, <2>3, <2>4, <2>5, RouteKept, PlantKept, SensorKept, TypesNext
<1> QED  BY <1>2, <1>3 DEF NetworkStep

\* The types of the variables; in particular a sampling rate is 0 or at least
\* 100 ms, whatever the host asks for.
THEOREM TypeCorrect == Spec => []TypeOK
<1>1. TypeOK /\ [Next]_vars => TypeOK'
  <2> SUFFICES ASSUME TypeOK, [Next]_vars PROVE TypeOK'
    OBVIOUS
  <2>1. CASE UNCHANGED vars
    <3>1. SinkType /\ RouteType /\ NetType /\ PlantType /\ SensorType /\ UsedType
      BY Types
    <3> QED  BY <2>1, <3>1, SinkKept, RouteKept, NetKept, PlantKept, SensorKept, UsedKept,
                TypesNext DEF vars
  <2> QED  BY <2>1, SinkTypes, PlantTypes, NetworkTypes DEF Next
<1> QED  BY <1>1, InitTypes, PTL DEF Spec

-----------------------------------------------------------------------------
(* The requests.                                                           *)

\* One fiber at most was created and has still to start, and then none is served.
OneCreated ==
  \A r \in Request : phase[r] = "created" =>
    ~waiting_ack /\ \A q \in Request : phase[q] = "created" => q = r

\* The request that is served is answered when waiting_ack is reset.
LEMMA AnswersServed ==
  ASSUME TypeOK, OneCreated, NoRequestForgotten, NEW code, NEW r \in Request,
         Answer(serving, code), waiting_ack' = FALSE, UNCHANGED serving,
         \A q \in Request : q # r => phase'[q] = phase[q],
         \/ phase'[r] = phase[r]
         \/ phase'[r] = "done" /\ phase[r] \in {"sending", "waiting"}
  PROVE  OneCreated' /\ NoRequestForgotten'
<1>1. OneCreated'
  BY DEF OneCreated
<1>2. \A q \in Request : answers'[q] = IF q = serving THEN answers[q] \cup {code} ELSE answers[q]
  BY DEF Answer, TypeOK
<1>3. NoRequestForgotten'
  BY <1>2 DEF NoRequestForgotten, OneCreated
<1> QED  BY <1>1, <1>3

LEMMA RequestsKept ==
  ASSUME OneCreated, NoRequestForgotten, UNCHANGED <<waiting_ack, serving, phase, answers>>
  PROVE  OneCreated' /\ NoRequestForgotten'
  BY DEF OneCreated, NoRequestForgotten

LEMMA RequestsStep ==
  ASSUME TypeOK, OneCreated, NoRequestForgotten, [Next]_vars
  PROVE  OneCreated' /\ NoRequestForgotten'
<1>1. ASSUME NEW r \in Request, RecvSensingReq(r) PROVE OneCreated' /\ NoRequestForgotten'
  <2>1. /\ \A q \in Request : phase[q] # "created"
        /\ UNCHANGED <<waiting_ack, serving>>
    BY <1>1 DEF RecvSensingReq, BusRuns
  <2>2. CASE waiting_ack
    <3>1. /\ \A q \in Request : phase'[q] = IF q = r THEN "done" ELSE phase[q]
          /\ \A q \in Request : answers'[q] = IF q = r THEN answers[q] \cup {3} ELSE answers[q]
      BY <1>1, <2>2 DEF RecvSensingReq, Answer, TypeOK
    <3> QED  BY <2>1, <3>1 DEF OneCreated, NoRequestForgotten
  <2>3. CASE ~waiting_ack
    <3>1. /\ \A q \in Request : phase'[q] = IF q = r THEN "created" ELSE phase[q]
          /\ UNCHANGED answers
      BY <1>1, <2>3 DEF RecvSensingReq, TypeOK
    <3> QED  BY <2>1, <2>3, <3>1 DEF OneCreated, NoRequestForgotten
  <2> QED  BY <2>2, <2>3
<1>2. ASSUME NEW r \in Request, SendSensingReq(r) PROVE OneCreated' /\ NoRequestForgotten'
  <2>1. /\ phase[r] = "created" /\ waiting_ack' = TRUE /\ serving' = r /\ UNCHANGED answers
        /\ \A q \in Request : phase'[q] = IF q = r THEN "sending" ELSE phase[q]
    BY <1>2 DEF SendSensingReq, TypeOK
  <2> QED  BY <2>1 DEF OneCreated, NoRequestForgotten
<1>3. ASSUME NEW r \in Request, SendReturns(r) PROVE OneCreated' /\ NoRequestForgotten'
  <2>1. CASE route.found
    <3>1. /\ phase[r] = "sending" /\ UNCHANGED <<waiting_ack, serving, answers>>
          /\ \A q \in Request : phase'[q] = IF q # r THEN phase[q]
                                           ELSE IF waiting_ack THEN "waiting" ELSE "done"
      BY <1>3, <2>1 DEF SendReturns, TypeOK
    <3> QED  BY <3>1 DEF OneCreated, NoRequestForgotten
  <2>2. CASE ~route.found
    <3>1. /\ Answer(serving, 1) /\ waiting_ack' = FALSE /\ UNCHANGED serving
          /\ phase[r] = "sending" /\ phase' = [phase EXCEPT ![r] = "done"]
      BY <1>3, <2>2 DEF SendReturns, NoRoute
    <3>2. \A q \in Request : phase'[q] = IF q = r THEN "done" ELSE phase[q]
      BY <3>1 DEF TypeOK
    <3>3. \A q \in Request : q # r => phase'[q] = phase[q]
      BY <3>2
    <3>4. phase'[r] = "done" /\ phase[r] \in {"sending", "waiting"}
      BY <3>1, <3>2
    <3> QED  BY <3>1, <3>3, <3>4, AnswersServed
  <2> QED  BY <2>1, <2>2
<1>4. ASSUME NEW r \in Request, WaitEnds(r) PROVE OneCreated' /\ NoRequestForgotten'
  <2>1. /\ phase[r] = "waiting" /\ ~waiting_ack /\ UNCHANGED <<waiting_ack, serving, answers>>
        /\ \A q \in Request : phase'[q] = IF q = r THEN "done" ELSE phase[q]
    BY <1>4 DEF WaitEnds, TypeOK
  <2> QED  BY <2>1 DEF OneCreated, NoRequestForgotten
<1>5. ASSUME NEW r \in Request, TimeOut(r) PROVE OneCreated' /\ NoRequestForgotten'
  <2>1. /\ Answer(serving, 2) /\ waiting_ack' = FALSE /\ UNCHANGED serving
        /\ phase[r] = "waiting" /\ phase' = [phase EXCEPT ![r] = "done"]
    BY <1>5 DEF TimeOut
  <2>2. \A q \in Request : phase'[q] = IF q = r THEN "done" ELSE phase[q]
    BY <2>1 DEF TypeOK
  <2>3. \A q \in Request : q # r => phase'[q] = phase[q]
    BY <2>2
  <2>4. phase'[r] = "done" /\ phase[r] \in {"sending", "waiting"}
    BY <2>1, <2>2
  <2> QED  BY <2>1, <2>3, <2>4, AnswersServed
<1>6. CASE RouteAnswered
  BY <1>6, RequestsKept DEF RouteAnswered, ackVars
<1>7. ASSUME NEW n \in Node, UpdateConnectionStatusSink(n) PROVE OneCreated' /\ NoRequestForgotten'
  <2>1. /\ UNCHANGED <<serving, phase>>
        /\ \/ UNCHANGED <<waiting_ack, answers>>
           \/ waiting_ack /\ waiting_ack' = FALSE /\ Answer(serving, 2)
    BY <1>7 DEF UpdateConnectionStatusSink, PlantLost
  <2>2. CASE Request = {}
    BY <2>2 DEF OneCreated, NoRequestForgotten
  <2>3. CASE Request # {}
    BY <2>1, <2>3, AnswersServed, RequestsKept
  <2> QED  BY <2>2, <2>3
<1>8. ASSUME NEW n \in Node, RecvInfo(n) PROVE OneCreated' /\ NoRequestForgotten'
  BY <1>8, RequestsKept DEF RecvInfo, ackVars
<1>9. ASSUME NEW n \in Node, PlantStep(n) PROVE OneCreated' /\ NoRequestForgotten'
  BY <1>9, RequestsKept DEF PlantStep, NetworkChanges, UpdateConnectionStatus, SensingLoop, ackVars
<1>10. ASSUME NEW n \in Node, NetworkStep(n) PROVE OneCreated' /\ NoRequestForgotten'
  <2>1. CASE \E r \in Request : CommandArrives(n, r)
    <3>1. UNCHANGED ackVars
      BY <2>1, SetGradientDoes DEF CommandArrives
    <3> QED  BY <3>1, RequestsKept DEF ackVars
  <2>2. CASE AckArrives(n)
    <3>1. /\ UNCHANGED <<serving, phase>>
          /\ \/ UNCHANGED <<waiting_ack, answers>>
             \/ waiting_ack' = FALSE /\ Answer(serving, 0)
      BY <2>2 DEF AckArrives, RecvAck
    <3>2. CASE Request = {}
      BY <3>2 DEF OneCreated, NoRequestForgotten
    <3>3. CASE Request # {}
      BY <3>1, <3>3, AnswersServed, RequestsKept
    <3> QED  BY <3>2, <3>3
  <2> QED  BY <1>10, <2>1, <2>2 DEF NetworkStep
<1>11. CASE UNCHANGED vars
  BY <1>11, RequestsKept DEF vars, ackVars
<1> QED  BY <1>1, <1>2, <1>3, <1>4, <1>5, <1>6, <1>7, <1>8, <1>9, <1>10, <1>11
         DEF Next, SinkStep, FiberStep

\* No request of the host is forgotten, for any number of them and any requests:
\* an unanswered one is the one that is served, or will be at once.
THEOREM RequestsAreKept == Spec => []NoRequestForgotten
<1>1. Init => OneCreated /\ NoRequestForgotten
  BY DEF Init, OneCreated, NoRequestForgotten
<1> QED  BY <1>1, RequestsStep, TypeCorrect, PTL DEF Spec

-----------------------------------------------------------------------------
(* "Fine".                                                                 *)

\* dest goes with the request that is served, and a plant that acknowledges has
\* carried out a request.
DestOfServed == serving \in Request => dest = Ask[serving].to
AcksApplied == \A n \in Node : acks[n] > 0 => applied[n] # {}
FineInv == DestOfServed /\ AcksApplied /\ FineFromDest

LEMMA FineKept ==
  ASSUME TypeOK, FineInv, UNCHANGED <<dest, serving, acks, applied>>,
         \A r \in Request : 0 \in answers'[r] => 0 \in answers[r]
  PROVE  FineInv'
  BY DEF FineInv, DestOfServed, AcksApplied, FineFromDest

\* Other answers than 0 may be given.
LEMMA OtherAnswer ==
  ASSUME TypeOK, NEW q, NEW code \in 1 .. 3, Answer(q, code)
  PROVE  \A r \in Request : 0 \in answers'[r] => 0 \in answers[r]
  BY DEF Answer, TypeOK

LEMMA FineStep ==
  ASSUME TypeOK, FineInv, [Next]_vars
  PROVE  FineInv'
<1>1. ASSUME NEW r \in Request, RecvSensingReq(r) PROVE FineInv'
  BY <1>1, FineKept, OtherAnswer DEF RecvSensingReq, sensorVars
<1>2. ASSUME NEW r \in Request, SendSensingReq(r) PROVE FineInv'
  BY <1>2 DEF SendSensingReq, FineInv, DestOfServed, AcksApplied, FineFromDest, sensorVars
<1>3. ASSUME NEW r \in Request, SendReturns(r) \/ WaitEnds(r) \/ TimeOut(r) PROVE FineInv'
  <2>1. UNCHANGED <<dest, serving, acks, applied>>
    BY <1>3 DEF SendReturns, WaitEnds, TimeOut, sensorVars
  <2>2. UNCHANGED answers \/ Answer(serving, 1) \/ Answer(serving, 2)
    BY <1>3 DEF SendReturns, WaitEnds, TimeOut, NoRoute
  <2> QED  BY <2>1, <2>2, FineKept, OtherAnswer
<1>4. CASE RouteAnswered
  BY <1>4, FineKept DEF RouteAnswered, ackVars, sensorVars
<1>5. ASSUME NEW n \in Node, UpdateConnectionStatusSink(n) \/ RecvInfo(n) PROVE FineInv'
  <2>1. UNCHANGED <<dest, serving, acks, applied>>
    BY <1>5 DEF UpdateConnectionStatusSink, RecvInfo, ackVars, sensorVars
  <2>2. UNCHANGED answers \/ Answer(serving, 2)
    BY <1>5 DEF UpdateConnectionStatusSink, PlantLost, RecvInfo, ackVars
  <2> QED  BY <2>1, <2>2, FineKept, OtherAnswer
<1>6. ASSUME NEW n \in Node, PlantStep(n) PROVE FineInv'
  <2>1. UNCHANGED <<dest, serving, acks, applied, answers>>
    BY <1>6 DEF PlantStep, NetworkChanges, UpdateConnectionStatus, SensingLoop, ackVars, sensorVars
  <2> QED  BY <2>1, FineKept
<1>7. ASSUME NEW n \in Node, NEW r \in Request, CommandArrives(n, r) PROVE FineInv'
  <2>1. SetGradient(n, r)
    BY <1>7 DEF CommandArrives
  <2>2. /\ applied' = [applied EXCEPT ![n] = @ \cup {r}]
        /\ acks' \in {acks, [acks EXCEPT ![n] = @ + 1]}
        /\ UNCHANGED <<dest, serving, answers>>
    BY <2>1, SetGradientDoes DEF ackVars
  <2>3. /\ \A k \in Node : applied[k] \subseteq applied'[k]
        /\ applied'[n] # {}
        /\ \A k \in Node \ {n} : acks'[k] = acks[k]
    BY <2>2 DEF TypeOK
  <2>4. \A q \in Request : Ask[q].to \in Node
    BY AskAssumption DEF Gradient
  <2>5. DestOfServed'
    BY <2>2 DEF FineInv, DestOfServed
  <2>6. AcksApplied'
    BY <2>3 DEF FineInv, AcksApplied
  <2>7. FineFromDest'
    BY <2>2, <2>3, <2>4 DEF FineInv, FineFromDest
  <2> QED  BY <2>5, <2>6, <2>7 DEF FineInv
<1>8. ASSUME NEW n \in Node, AckArrives(n) PROVE FineInv'
  <2>1. /\ acks[n] > 0 /\ UNCHANGED <<dest, serving, applied>>
        /\ UNCHANGED answers \/ (dest = n /\ Answer(serving, 0))
        /\ UNCHANGED acks \/ acks' = [acks EXCEPT ![n] = @ - 1]
    BY <1>8 DEF AckArrives, RecvAck, FromDest, AckTaken, sensorVars
  <2>2. DestOfServed'
    BY <2>1 DEF FineInv, DestOfServed
  <2>3. AcksApplied'
    BY <2>1 DEF FineInv, AcksApplied, TypeOK
  <2>4. FineFromDest'
    <3>1. CASE UNCHANGED answers
      BY <2>1, <3>1 DEF FineInv, FineFromDest
    <3>2. CASE dest = n /\ Answer(serving, 0)
      <4>1. \A q \in Request : q # serving => answers'[q] = answers[q]
        BY <3>2 DEF Answer, TypeOK
      <4>2. serving \in Request => applied[Ask[serving].to] # {}
        BY <2>1, <3>2 DEF FineInv, DestOfServed, AcksApplied
      <4> QED  BY <2>1, <4>1, <4>2 DEF FineInv, FineFromDest
    <3> QED  BY <2>1, <3>1, <3>2
  <2> QED  BY <2>2, <2>3, <2>4 DEF FineInv
<1>9. CASE UNCHANGED vars
  BY <1>9, FineKept DEF vars, ackVars, sensorVars
<1> QED  BY <1>1, <1>2, <1>3, <1>4, <1>5, <1>6, <1>7, <1>8, <1>9
         DEF Next, SinkStep, FiberStep, NetworkStep

\* The host is told "fine" only of a plant that carried out a request, however
\* late or often its acknowledgements arrive.
THEOREM FineIsTrue == Spec => []FineFromDest
<1>1. Init => FineInv
  BY NullAssumption DEF Init, FineInv, DestOfServed, AcksApplied, FineFromDest
<1>2. FineInv => FineFromDest
  BY DEF FineInv
<1> QED  BY <1>1, <1>2, FineStep, TypeCorrect, PTL DEF Spec

-----------------------------------------------------------------------------
(* The fibers of the sensors.                                              *)

LEMMA LoopsKept ==
  ASSUME OneLoop, SensingHasLoop,
         UNCHANGED <<connected, sensing, sensing_rate, active_loop, loops, skipped>>
  PROVE  OneLoop' /\ SensingHasLoop'
  BY DEF OneLoop, SensingHasLoop, ShouldSample

\* Fibers are started only for sensors that have none.
LEMMA Started ==
  ASSUME TypeOK, OneLoop, NEW n \in Node, NEW S \in SUBSET Idle(n), StartLoops(n, S)
  PROVE  /\ OneLoop'
         /\ \A k \in Node, s \in Sensor :
              active_loop'[k][s] = (active_loop[k][s] \/ (k = n /\ s \in S))
         /\ \A k \in Node, s \in Sensor :
              skipped'[k][s] = (skipped[k][s] /\ ~(k = n /\ s \in S))
<1>1. \A k \in Node, s \in Sensor :
        active_loop'[k][s] = (active_loop[k][s] \/ (k = n /\ s \in S))
  <2> SUFFICES ASSUME NEW k \in Node, NEW s \in Sensor
               PROVE  active_loop'[k][s] = (active_loop[k][s] \/ (k = n /\ s \in S))
    OBVIOUS
  <2>1. /\ active_loop' = [active_loop EXCEPT ![n] = [x \in Sensor |-> @[x] \/ x \in S]]
        /\ DOMAIN active_loop = Node /\ active_loop[k][s] \in BOOLEAN
    BY DEF StartLoops, TypeOK
  <2>2. CASE k = n
    BY <2>1, <2>2, Zenon
  <2>3. CASE k # n
    BY <2>1, <2>3, Zenon
  <2> QED  BY <2>2, <2>3
<1>2. \A k \in Node, s \in Sensor :
        loops'[k][s] = IF k = n /\ s \in S THEN loops[k][s] + 1 ELSE loops[k][s]
  BY DEF StartLoops, TypeOK
<1>3. \A k \in Node, s \in Sensor :
        skipped'[k][s] = (skipped[k][s] /\ ~(k = n /\ s \in S))
  <2> SUFFICES ASSUME NEW k \in Node, NEW s \in Sensor
               PROVE  skipped'[k][s] = (skipped[k][s] /\ ~(k = n /\ s \in S))
    OBVIOUS
  <2>1. /\ skipped' = [skipped EXCEPT ![n] = [x \in Sensor |-> @[x] /\ x \notin S]]
        /\ DOMAIN skipped = Node /\ skipped[k][s] \in BOOLEAN
    BY DEF StartLoops, TypeOK
  <2>2. CASE k = n
    BY <2>1, <2>2, Zenon
  <2>3. CASE k # n
    BY <2>1, <2>3, Zenon
  <2> QED  BY <2>2, <2>3
<1>4. \A s \in S : s \in Sensor /\ ~active_loop[n][s]
  BY DEF Idle
<1>5. OneLoop'
  <2> SUFFICES ASSUME NEW k \in Node, NEW s \in Sensor
               PROVE  loops'[k][s] = IF active_loop'[k][s] THEN 1 ELSE 0
    BY DEF OneLoop
  <2>1. loops[k][s] = IF active_loop[k][s] THEN 1 ELSE 0
    BY DEF OneLoop
  <2>2. CASE k = n /\ s \in S
    <3>1. ~active_loop[k][s] /\ active_loop'[k][s] /\ loops'[k][s] = loops[k][s] + 1
      BY <1>1, <1>2, <1>4, <2>2
    <3> QED  BY <2>1, <3>1
  <2>3. CASE ~(k = n /\ s \in S)
    <3>1. loops'[k][s] = loops[k][s]
      BY <1>2, <2>3
    <3>2. active_loop'[k][s] <=> active_loop[k][s]
      BY <1>1, <2>3
    <3> QED  BY <2>1, <3>1, <3>2
  <2> QED  BY <2>2, <2>3
<1> QED  BY <1>1, <1>3, <1>5

LEMMA ConnectionLoops ==
  ASSUME TypeOK, OneLoop, SensingHasLoop, NEW n \in Node, UpdateConnectionStatus(n)
  PROVE  OneLoop' /\ SensingHasLoop'
<1>1. UNCHANGED <<sensing, sensing_rate>>
  BY DEF UpdateConnectionStatus
<1>2. \A k \in Node : k # n => connected'[k] = connected[k]
  BY DEF UpdateConnectionStatus, TypeOK
<1>3. CASE Head(updates[n])
  <2>1. StartLoops(n, Idle(n)) /\ Idle(n) \in SUBSET Idle(n)
    BY <1>3 DEF UpdateConnectionStatus, Resuming
  <2>2. /\ OneLoop'
        /\ \A k \in Node, s \in Sensor :
             active_loop'[k][s] = (active_loop[k][s] \/ (k = n /\ s \in Idle(n)))
        /\ \A k \in Node, s \in Sensor :
             skipped'[k][s] = (skipped[k][s] /\ ~(k = n /\ s \in Idle(n)))
    BY <2>1, Started
  <2>3. SensingHasLoop'
    <3> SUFFICES ASSUME NEW k \in Node, NEW s \in Sensor, ShouldSample(k, s)', ~skipped'[k][s]
                 PROVE  active_loop'[k][s]
      BY DEF SensingHasLoop
    <3>1. CASE k = n
      BY <2>2, <3>1 DEF Idle
    <3>2. CASE k # n
      <4>1. ShouldSample(k, s) /\ ~skipped[k][s]
        BY <1>1, <1>2, <2>2, <3>2 DEF ShouldSample
      <4> QED  BY <2>2, <4>1 DEF SensingHasLoop
    <3> QED  BY <3>1, <3>2
  <2> QED  BY <2>2, <2>3
<1>4. CASE ~Head(updates[n])
  <2>1. UNCHANGED <<active_loop, loops, skipped>> /\ ~connected'[n]
    BY <1>4 DEF UpdateConnectionStatus, TypeOK
  <2> QED  BY <1>1, <1>2, <2>1 DEF OneLoop, SensingHasLoop, ShouldSample
<1> QED  BY <1>3, <1>4

\* A fiber ends only when its sensor should not sample.
LEMMA SensingLoops ==
  ASSUME TypeOK, OneLoop, SensingHasLoop, NEW n \in Node, NEW s \in Sensor, SensingLoop(n, s)
  PROVE  OneLoop' /\ SensingHasLoop'
<1>1. UNCHANGED <<connected, sensing, sensing_rate, skipped>>
  BY DEF SensingLoop, plantVars
<1>2. CASE ShouldSample(n, s)
  BY <1>1, <1>2, LoopsKept DEF SensingLoop
<1>3. CASE ~ShouldSample(n, s)
  <2>1. /\ active_loop' = [active_loop EXCEPT ![n][s] = FALSE]
        /\ loops' = [loops EXCEPT ![n][s] = @ - 1] /\ loops[n][s] > 0
    BY <1>3 DEF SensingLoop
  <2>2. /\ \A k \in Node, x \in Sensor : active_loop'[k][x] = (active_loop[k][x] /\ ~(k = n /\ x = s))
        /\ \A k \in Node, x \in Sensor : loops'[k][x] = IF k = n /\ x = s THEN loops[k][x] - 1
                                                       ELSE loops[k][x]
    <3>1. \A k \in Node, x \in Sensor : active_loop[k][x] \in BOOLEAN
      BY DEF TypeOK
    <3>2. DOMAIN active_loop = Node /\ DOMAIN active_loop[n] = Sensor
      BY DEF TypeOK
    <3>3. \A k \in Node, x \in Sensor :
            active_loop'[k][x] = (active_loop[k][x] /\ ~(k = n /\ x = s))
      BY <2>1, <3>1, <3>2, Zenon
    <3>4. \A k \in Node, x \in Sensor :
            loops'[k][x] = IF k = n /\ x = s THEN loops[k][x] - 1 ELSE loops[k][x]
      BY <2>1 DEF TypeOK
    <3> QED  BY <3>3, <3>4
  <2>3. loops[n][s] = 1
    BY <2>1 DEF OneLoop
  <2>4. OneLoop'
    <3> SUFFICES ASSUME NEW k \in Node, NEW x \in Sensor
                 PROVE  loops'[k][x] = IF active_loop'[k][x] THEN 1 ELSE 0
      BY DEF OneLoop
    <3>1. CASE k = n /\ x = s
      <4>1. ~active_loop'[k][x] /\ loops'[k][x] = loops[n][s] - 1
        BY <2>2, <3>1
      <4> QED  BY <2>3, <4>1
    <3>2. CASE ~(k = n /\ x = s)
      <4>1. (active_loop'[k][x] <=> active_loop[k][x]) /\ loops'[k][x] = loops[k][x]
        BY <2>2, <3>2
      <4> QED  BY <4>1 DEF OneLoop
    <3> QED  BY <3>1, <3>2
  <2>5. SensingHasLoop'
    <3> SUFFICES ASSUME NEW k \in Node, NEW x \in Sensor, ShouldSample(k, x)', ~skipped'[k][x]
                 PROVE  active_loop'[k][x]
      BY DEF SensingHasLoop
    <3>1. ShouldSample(k, x) /\ ~skipped[k][x] /\ ~(k = n /\ x = s)
      BY <1>1, <1>3 DEF ShouldSample
    <3> QED  BY <2>2, <3>1 DEF SensingHasLoop
  <2> QED  BY <2>4, <2>5
<1> QED  BY <1>2, <1>3

LEMMA GradientLoops ==
  ASSUME TypeOK, OneLoop, SensingHasLoop, NEW n \in Node, NEW r \in Request, SetGradient(n, r)
  PROVE  OneLoop' /\ SensingHasLoop'
<1> DEFINE g == Ask[r]
           s == Ask[r].sensor
<1>1. s \in Sensor /\ UNCHANGED connected
  BY SetGradientDoes DEF plantVars
<1>2. sensing' = [sensing EXCEPT ![n][s] = g.start]
  BY SetGradientDoes
<1>3. \A k \in Node, x \in Sensor : ShouldSample(k, x)' =>
        IF k = n /\ x = s THEN g.start /\ sensing_rate'[n][s] # 0 ELSE ShouldSample(k, x)
  <2> SUFFICES ASSUME NEW k \in Node, NEW x \in Sensor, ShouldSample(k, x)'
               PROVE  IF k = n /\ x = s THEN g.start /\ sensing_rate'[n][s] # 0
                      ELSE ShouldSample(k, x)
    OBVIOUS
  <2>1. sensing'[k][x] /\ sensing_rate'[k][x] # 0 /\ connected[k]
    BY <1>1 DEF ShouldSample
  <2>2. CASE k = n /\ x = s
    <3>1. DOMAIN sensing = Node /\ DOMAIN sensing[n] = Sensor
      BY DEF TypeOK
    <3>2. sensing'[n][s] = g.start
      BY <1>1, <1>2, <3>1
    <3> QED  BY <2>1, <2>2, <3>2
  <2>3. CASE ~(k = n /\ x = s)
    <3>1. DOMAIN sensing = Node /\ DOMAIN sensing[n] = Sensor
      BY DEF TypeOK
    <3>2. sensing'[k][x] = sensing[k][x]
      BY <1>1, <1>2, <2>3, <3>1
    <3>3. sensing_rate' \in {sensing_rate, [sensing_rate EXCEPT ![n][s] = AtLeast100(g.rate)]}
      BY SetGradientDoes
    <3>4. sensing_rate'[k][x] = sensing_rate[k][x]
      <4>1. DOMAIN sensing_rate = Node /\ DOMAIN sensing_rate[n] = Sensor
        BY DEF TypeOK
      <4> QED  BY <1>1, <2>3, <3>3, <4>1
    <3> QED  BY <2>1, <2>3, <3>2, <3>4 DEF ShouldSample
  <2> QED  BY <2>2, <2>3
<1>4. CASE s \in Idle(n) /\ StartLoops(n, {s})
  <2>1. {s} \in SUBSET Idle(n)
    BY <1>4
  <2>2. /\ OneLoop'
        /\ \A k \in Node, x \in Sensor :
             active_loop'[k][x] = (active_loop[k][x] \/ (k = n /\ x \in {s}))
        /\ \A k \in Node, x \in Sensor :
             skipped'[k][x] = (skipped[k][x] /\ ~(k = n /\ x \in {s}))
    BY <1>4, <2>1, Started
  <2>3. SensingHasLoop'
    <3> SUFFICES ASSUME NEW k \in Node, NEW x \in Sensor, ShouldSample(k, x)', ~skipped'[k][x]
                 PROVE  active_loop'[k][x]
      BY DEF SensingHasLoop
    <3>1. CASE k = n /\ x = s
      BY <2>2, <3>1
    <3>2. CASE ~(k = n /\ x = s)
      <4>1. ShouldSample(k, x) /\ ~skipped[k][x]
        BY <1>3, <2>2, <3>2
      <4> QED  BY <2>2, <4>1 DEF SensingHasLoop
    <3> QED  BY <3>1, <3>2
  <2> QED  BY <2>2, <2>3
<1>5. CASE /\ UNCHANGED <<active_loop, loops>>
           /\ s \in Idle(n) /\ g.start => (g.sample /\ AtLeast100(g.rate) = 0) \/ ~g.sample
           /\ skipped' = [skipped EXCEPT ![n][s] =
                @ \/ (s \in Idle(n) /\ g.start /\ ~g.sample)]
  <2> DEFINE more == s \in Idle(n) /\ g.start /\ ~g.sample
  <2>1. skipped' = [skipped EXCEPT ![n][s] = @ \/ more] /\ more \in BOOLEAN
    BY <1>5
  <2>2. \A k \in Node, x \in Sensor :
          skipped'[k][x] = (skipped[k][x] \/ (k = n /\ x = s /\ more))
    <3> HIDE DEF more
    <3>1. \A k \in Node, x \in Sensor : skipped[k][x] \in BOOLEAN
      BY DEF TypeOK
    <3>2. DOMAIN skipped = Node /\ DOMAIN skipped[n] = Sensor
      BY DEF TypeOK
    <3> QED  BY <2>1, <3>1, <3>2, Zenon
  <2>3. OneLoop'
    BY <1>5 DEF OneLoop
  <2>4. SensingHasLoop'
    <3> SUFFICES ASSUME NEW k \in Node, NEW x \in Sensor, ShouldSample(k, x)', ~skipped'[k][x]
                 PROVE  active_loop'[k][x]
      BY DEF SensingHasLoop
    <3>1. CASE k = n /\ x = s
      <4>1. g.start /\ sensing_rate'[n][s] # 0
        BY <1>3, <3>1
      <4>2. ~more
        BY <2>2, <3>1
      <4>3. CASE g.sample
        <5>1. sensing_rate' = [sensing_rate EXCEPT ![n][s] = AtLeast100(g.rate)]
          BY <4>3, SetGradientDoes
        <5>2. sensing_rate'[n][s] = AtLeast100(g.rate)
          BY <1>1, <5>1 DEF TypeOK
        <5>3. s \notin Idle(n)
          BY <1>5, <4>1, <4>3, <5>2
        <5> QED  BY <1>1, <1>5, <3>1, <5>3 DEF Idle
      <4>4. CASE ~g.sample
        <5>1. s \notin Idle(n)
          BY <4>1, <4>2, <4>4
        <5> QED  BY <1>1, <1>5, <3>1, <5>1 DEF Idle
      <4> QED  BY <4>3, <4>4
    <3>2. CASE ~(k = n /\ x = s)
      <4>1. ShouldSample(k, x) /\ ~skipped[k][x]
        BY <1>3, <2>2, <3>2
      <4> QED  BY <1>5, <4>1 DEF SensingHasLoop
    <3> QED  BY <3>1, <3>2
  <2> QED  BY <2>3, <2>4
<1> QED  BY <1>4, <1>5, SetGradientDoes

LEMMA LoopsStep ==
  ASSUME TypeOK, OneLoop, SensingHasLoop, [Next]_vars
  PROVE  OneLoop' /\ SensingHasLoop'
<1>1. CASE SinkStep
  <2>1. UNCHANGED <<sensorVars, connected>>
    BY <1>1 DEF SinkStep, RecvSensingReq, FiberStep, SendSensingReq, SendReturns, WaitEnds, TimeOut,
       RouteAnswered, UpdateConnectionStatusSink, RecvInfo, plantVars
  <2> QED  BY <2>1, LoopsKept DEF sensorVars
<1>2. ASSUME NEW n \in Node, NEW status \in BOOLEAN, NetworkChanges(n, status)
      PROVE  OneLoop' /\ SensingHasLoop'
  BY <1>2, LoopsKept DEF NetworkChanges, sensorVars
<1>3. ASSUME NEW n \in Node, PlantStep(n)
      PROVE  OneLoop' /\ SensingHasLoop'
  BY <1>2, <1>3, ConnectionLoops, SensingLoops DEF PlantStep
<1>4. ASSUME NEW n \in Node, NetworkStep(n)
      PROVE  OneLoop' /\ SensingHasLoop'
  <2>1. CASE \E r \in Request : CommandArrives(n, r)
    BY <2>1, GradientLoops DEF CommandArrives
  <2>2. CASE AckArrives(n)
    BY <2>2, LoopsKept DEF AckArrives, RecvAck, plantVars, sensorVars
  <2> QED  BY <1>4, <2>1, <2>2 DEF NetworkStep
<1>5. CASE UNCHANGED vars
  BY <1>5, LoopsKept DEF vars, plantVars, sensorVars
<1> QED  BY <1>1, <1>3, <1>4, <1>5 DEF Next

LEMMA InitLoops == Init => OneLoop /\ SensingHasLoop
  BY DEF Init, OneLoop, SensingHasLoop, ShouldSample, PerSensor

\* No sensor ever has two fibers, for any interleaving of connections, gradients
\* and fibers: the samples are not doubled.
THEOREM LoopsAreSingle == Spec => []OneLoop
  BY InitLoops, LoopsStep, TypeCorrect, PTL DEF Spec

\* A sensor that should sample has its fiber, whatever the order in which the
\* plant is connected, told to sample and told how often.
THEOREM LoopsAreRunning == Spec => []SensingHasLoop
  BY InitLoops, LoopsStep, TypeCorrect, PTL DEF Spec

-----------------------------------------------------------------------------
(* What the sink knows of the plants.                                      *)

\* The last change that waits tells how the plant stands, and MICRO_INFO was on
\* its way before the plant took itself for connected.
Newest(n) == updates[n][Len(updates[n])]
KnownInv ==
  \A n \in Node :
    /\ updates[n] # <<>> => Newest(n) = rt_formed[n]
    /\ updates[n] = <<>> => /\ connected[n] = rt_formed[n]
                            /\ connected[n] => info[n] # "none"

LEMMA KnownKept ==
  ASSUME KnownInv, UNCHANGED <<rt_formed, updates, connected>>,
         \A n \in Node : info[n] # "none" => info'[n] # "none"
  PROVE  KnownInv'
  BY DEF KnownInv, Newest

LEMMA KnownStep ==
  ASSUME TypeOK, KnownInv, [Next]_vars
  PROVE  KnownInv'
<1>1. CASE SinkStep
  <2>1. CASE \E n \in Node : RecvInfo(n)
    <3>1. PICK n \in Node : info' = [info EXCEPT ![n] = "told"]
      BY <2>1 DEF RecvInfo
    <3>2. UNCHANGED <<rt_formed, updates, connected>>
      BY <2>1 DEF RecvInfo
    <3>3. \A k \in Node : info[k] # "none" => info'[k] # "none"
      BY <3>1 DEF TypeOK
    <3> QED  BY <3>2, <3>3, KnownKept
  <2>2. CASE ~ \E n \in Node : RecvInfo(n)
    <3>1. UNCHANGED plantVars
      BY <1>1, <2>2 DEF SinkStep, RecvSensingReq, FiberStep, SendSensingReq, SendReturns, WaitEnds,
         TimeOut, RouteAnswered, UpdateConnectionStatusSink
    <3> QED  BY <3>1, KnownKept DEF plantVars
  <2> QED  BY <2>1, <2>2
<1>2. ASSUME NEW n \in Node, NEW status \in BOOLEAN, NetworkChanges(n, status) PROVE KnownInv'
  <2>1. /\ rt_formed' = [rt_formed EXCEPT ![n] = status]
        /\ updates' = [updates EXCEPT ![n] = Append(@, status)]
        /\ UNCHANGED <<connected, info>>
    BY <1>2 DEF NetworkChanges
  <2>2. updates[n] \in Seq(BOOLEAN)
    BY DEF TypeOK
  <2>3. /\ Append(updates[n], status) # <<>>
        /\ Append(updates[n], status)[Len(Append(updates[n], status))] = status
    BY <2>2, AppendProperties, LenProperties
  <2>4. rt_formed'[n] = status /\ updates'[n] = Append(updates[n], status)
    BY <2>1 DEF TypeOK
  <2>5. \A k \in Node : k # n => /\ rt_formed'[k] = rt_formed[k] /\ updates'[k] = updates[k]
    BY <2>1 DEF TypeOK
  <2> QED  BY <2>1, <2>3, <2>4, <2>5 DEF KnownInv, Newest
<1>3. ASSUME NEW n \in Node, UpdateConnectionStatus(n) PROVE KnownInv'
  <2>1. /\ updates[n] # <<>> /\ UNCHANGED rt_formed
        /\ updates' = [updates EXCEPT ![n] = Tail(@)]
        /\ connected' = [connected EXCEPT ![n] = Head(updates[n])]
        /\ info' = IF Head(updates[n])
                   THEN [info EXCEPT ![n] = IF rt_formed[n] THEN "sent" ELSE @] ELSE info
    BY <1>3 DEF UpdateConnectionStatus, SendMicrobitInfo
  <2>2. updates[n] \in Seq(BOOLEAN) /\ Len(updates[n]) \in Nat \ {0}
    <3>1. updates[n] \in Seq(BOOLEAN)
      BY DEF TypeOK
    <3> QED  BY <2>1, <3>1, EmptySeq
  <2>3. /\ Tail(updates[n]) \in Seq(BOOLEAN) /\ Len(Tail(updates[n])) = Len(updates[n]) - 1
        /\ \A i \in 1 .. Len(Tail(updates[n])) : Tail(updates[n])[i] = updates[n][i + 1]
        /\ Head(updates[n]) = updates[n][1]
    <3>1. ASSUME NEW q \in Seq(BOOLEAN), q # <<>>
          PROVE  /\ Tail(q) \in Seq(BOOLEAN) /\ Len(Tail(q)) = Len(q) - 1
                 /\ \A i \in 1 .. Len(Tail(q)) : Tail(q)[i] = q[i + 1]
      BY <3>1, HeadTailProperties
    <3>2. Head(updates[n]) = updates[n][1]
      BY <2>2
    <3> QED  BY <2>1, <2>2, <3>1, <3>2
  <2>4. /\ updates'[n] = Tail(updates[n]) /\ connected'[n] = Head(updates[n])
        /\ \A k \in Node : k # n => /\ updates'[k] = updates[k] /\ connected'[k] = connected[k]
                                    /\ info'[k] = info[k]
    BY <2>1 DEF TypeOK
  <2>5. Newest(n) = rt_formed[n]
    BY <2>1 DEF KnownInv
  <2>6. CASE Tail(updates[n]) = <<>>
    <3>1. Len(updates[n]) = 1
      <4>1. Len(Tail(updates[n])) = 0
        <5>1. Len(<<>>) = 0
          OBVIOUS
        <5> QED  BY <2>6, <5>1, Zenon
      <4> QED  BY <2>2, <2>3, <4>1
    <3>2. connected'[n] = rt_formed[n]
      BY <2>3, <2>4, <2>5, <3>1 DEF Newest
    <3>3. connected'[n] => info'[n] = "sent"
      BY <2>1, <2>4, <3>2 DEF TypeOK
    <3>4. ASSUME NEW k \in Node, k # n
          PROVE  /\ updates'[k] # <<>> => Newest(k)' = rt_formed'[k]
                 /\ updates'[k] = <<>> => /\ connected'[k] = rt_formed'[k]
                                          /\ connected'[k] => info'[k] # "none"
      <4>1. /\ updates'[k] = updates[k] /\ connected'[k] = connected[k]
            /\ info'[k] = info[k] /\ rt_formed' = rt_formed
        BY <2>1, <2>4, <3>4
      <4> QED  BY <4>1 DEF KnownInv, Newest
    <3> QED  BY <2>1, <2>4, <2>6, <3>2, <3>3, <3>4 DEF KnownInv
  <2>7. CASE Tail(updates[n]) # <<>>
    <3>1. Len(Tail(updates[n])) \in Nat \ {0}
      BY <2>3, <2>7, EmptySeq
    <3>2. Tail(updates[n])[Len(Tail(updates[n]))] = updates[n][Len(updates[n])]
      <4>1. PICK m \in Nat \ {0} : m = Len(Tail(updates[n]))
        BY <3>1
      <4>2. Tail(updates[n])[m] = updates[n][m + 1]
        <5>1. m \in 1 .. Len(Tail(updates[n]))
          <6>1. m \in 1 .. m
            OBVIOUS
          <6> QED  BY <4>1, <6>1, Zenon
        <5> QED  BY <2>3, <5>1, Zenon
      <4>3. Len(updates[n]) = m + 1
        BY <2>2, <2>3, <4>1
      <4> QED  BY <4>1, <4>2, <4>3
    <3>3. Newest(n)' = rt_formed'[n]
      BY <2>1, <2>4, <2>5, <3>2 DEF Newest
    <3>4. ASSUME NEW k \in Node, k # n
          PROVE  /\ updates'[k] # <<>> => Newest(k)' = rt_formed'[k]
                 /\ updates'[k] = <<>> => /\ connected'[k] = rt_formed'[k]
                                          /\ connected'[k] => info'[k] # "none"
      <4>1. /\ updates'[k] = updates[k] /\ connected'[k] = connected[k]
            /\ info'[k] = info[k] /\ rt_formed' = rt_formed
        BY <2>1, <2>4, <3>4
      <4> QED  BY <4>1 DEF KnownInv, Newest
    <3> QED  BY <2>4, <2>7, <3>3, <3>4 DEF KnownInv
  <2> QED  BY <2>6, <2>7
<1>4. ASSUME NEW n \in Node, NEW s \in Sensor, SensingLoop(n, s) PROVE KnownInv'
  BY <1>4, KnownKept DEF SensingLoop, plantVars
<1>5. ASSUME NEW n \in Node, NetworkStep(n) PROVE KnownInv'
  <2>1. CASE \E r \in Request : CommandArrives(n, r)
    <3>1. UNCHANGED plantVars
      BY <2>1, SetGradientDoes DEF CommandArrives
    <3> QED  BY <3>1, KnownKept DEF plantVars
  <2>2. CASE AckArrives(n)
    BY <2>2, KnownKept DEF AckArrives, RecvAck, plantVars
  <2> QED  BY <1>5, <2>1, <2>2 DEF NetworkStep
<1>6. CASE UNCHANGED vars
  BY <1>6, KnownKept DEF vars, plantVars
<1> QED  BY <1>1, <1>2, <1>3, <1>4, <1>5, <1>6 DEF Next, PlantStep

\* A plant that has handled the changes of its network layer knows how it stands,
\* and has introduced itself, however often the tree was lost meanwhile.
THEOREM PlantsAreKnown == Spec => []PlantKnown
<1>1. Init => KnownInv
  BY DEF Init, KnownInv
<1>2. KnownInv => PlantKnown
  BY DEF KnownInv, PlantKnown
<1> QED  BY <1>1, <1>2, KnownStep, TypeCorrect, PTL DEF Spec
=============================================================================
