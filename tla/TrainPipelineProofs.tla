------------------------- MODULE TrainPipelineProofs --------------------------
(***************************************************************************)
(* Theorems about TrainPipeline, for every value of its constants.         *)
(***************************************************************************)
EXTENDS TrainPipeline, TLAPS

\* Head, Tail and Append of a queue of records stay in its type.
LEMMA QueueFacts ==
    ASSUME NEW S, NEW q \in Seq(S), q # <<>>
    PROVE  /\ Head(q) \in S
           /\ Tail(q) \in Seq(S)
           /\ \A e \in S : Append(q, e) \in Seq(S)
  OBVIOUS

\* A clock reading minus a lag is an event time.
LEMMA SentRecord ==
    ASSUME now \in 0 .. MaxTime, NEW t \in Trains, NEW lag \in Lags,
           NEW s \in Stanox, NEW a \in BOOLEAN
    PROVE  [train |-> t, at |-> now - lag, stanox |-> s, arrived |-> a] \in Movement
  BY DEF Movement, EventTimes

\* The record the stream thread is at is a record of the topic.
LEMMA CurrentRecord ==
    ASSUME TypeOK, HasRecord
    PROVE  /\ Record \in Movement
           /\ Record.train \in Trains
           /\ position + 1 \in 1 .. Len(topic)
           /\ Record = topic[position + 1]
  <1>1. position + 1 \in 1 .. Len(topic) /\ topic \in Seq(Movement)
    BY BoundsAssumption DEF TypeOK, HasRecord
  <1>2. topic[position + 1] \in Movement
    BY <1>1
  <1> QED
    BY <1>1, <1>2 DEF Record, Movement

-----------------------------------------------------------------------------
(* Type correctness.                                                         *)

\* While the thread is between the two deletes of an arrival, it is at that
\* record and the map does not show its train.  DeleteActivation, which only
\* checks that the thread is there, needs it to stay in type.
Deleting == stream = "deleting" =>
    /\ HasRecord
    /\ Record.arrived
    /\ ~Poison(Record)
    /\ movement[Record.train] = None

\* The commit does not overtake the position.
CommitBehind == committed <= position

TypeInv == TypeOK /\ Deleting /\ CommitBehind

\* The types at the start,
LEMMA TypeInit == Init => TypeInv
  BY BoundsAssumption
     DEF Init, TypeInv, TypeOK, Deleting, CommitBehind, IdleSweep, Tasks

\* and after every step.
LEMMA TypeStep == TypeInv /\ [Next]_vars => TypeOK'
<1> SUFFICES ASSUME TypeInv, [Next]_vars PROVE TypeOK'
  OBVIOUS
<1> USE BoundsAssumption, TimesAssumption DEF TypeInv
<1>1. CASE Tick
  BY <1>1 DEF TypeOK, Tick, maps, feedVars, kafkaVars, streamVars, sweepVars
<1>2. CASE DeliverBatch
  <2>1. PICK n \in 1 .. MaxBatch :
            fed + n <= MaxMessages /\ batch' = n /\ fed' = fed + n
    BY <1>2 DEF DeliverBatch
  <2>2. batch' \in 0 .. MaxBatch /\ fed' \in 0 .. MaxMessages
    BY <2>1 DEF TypeOK
  <2> QED
    BY <1>2, <2>2 DEF TypeOK, DeliverBatch, maps, kafkaVars, streamVars, sweepVars
<1>3. CASE ActivationFails \/ IgnoreMessage
  <2>1. batch' \in 0 .. MaxBatch
    BY <1>3 DEF TypeOK, ActivationFails, IgnoreMessage
  <2> QED
    BY <1>3, <2>1
       DEF TypeOK, ActivationFails, IgnoreMessage, maps, kafkaVars, streamVars, sweepVars
<1>4. ASSUME NEW t \in Trains, ActivateTrain(t) PROVE TypeOK'
  <2>1. PICK d \in Departures :
            activation' = [activation EXCEPT ![t] = [at |-> now, departure |-> d]]
    BY <1>4 DEF ActivateTrain
  <2>2. activation' \in [Trains -> Activation \cup {None}]
    BY <2>1 DEF TypeOK, Activation
  <2>3. batch' \in 0 .. MaxBatch
    BY <1>4 DEF TypeOK, ActivateTrain
  <2>4. UNCHANGED <<now, up, faults, fed, movement, kafkaVars, streamVars, sweepVars>>
    BY <1>4 DEF ActivateTrain
  <2> QED
    BY <2>2, <2>3, <2>4 DEF TypeOK, kafkaVars, streamVars, sweepVars
<1>5. ASSUME NEW t \in Trains, SendMovement(t) PROVE TypeOK'
  <2>1. buffer' \in Seq(Movement)
    BY <1>5, SentRecord DEF TypeOK, SendMovement
  <2>2. batch' \in 0 .. MaxBatch
    BY <1>5 DEF TypeOK, SendMovement
  <2>3. UNCHANGED <<now, up, faults, fed, maps, topic, streamVars, sweepVars>>
    BY <1>5 DEF SendMovement
  <2> QED
    BY <2>1, <2>2, <2>3 DEF TypeOK, maps, streamVars, sweepVars
<1>6. CASE Broker
  <2>1. buffer \in Seq(Movement) /\ buffer # <<>> /\ topic \in Seq(Movement)
    BY <1>6 DEF TypeOK, Broker, KafkaAppend, KafkaLose
  <2>2. Head(buffer) \in Movement /\ Tail(buffer) \in Seq(Movement)
    BY <2>1, QueueFacts
  <2>3. Append(topic, Head(buffer)) \in Seq(Movement)
        /\ Len(Append(topic, Head(buffer))) = Len(topic) + 1
    BY <2>1, <2>2
  <2>4. CASE KafkaAppend
    <3>1. /\ topic' \in Seq(Movement) /\ Len(topic') = Len(topic) + 1
          /\ buffer' \in Seq(Movement)
      BY <2>2, <2>3, <2>4 DEF KafkaAppend
    <3>2. position' \in 0 .. Len(topic') /\ committed' \in 0 .. Len(topic')
          /\ applied' \subseteq 1 .. Len(topic')
      BY <2>1, <2>4, <3>1 DEF TypeOK, KafkaAppend, streamVars
    <3> QED
      BY <2>4, <3>1, <3>2 DEF TypeOK, KafkaAppend, maps, feedVars, streamVars, sweepVars
  <2>5. CASE KafkaLose
    BY <2>2, <2>5 DEF TypeOK, KafkaLose, maps, feedVars, streamVars, sweepVars
  <2> QED
    BY <1>6, <2>4, <2>5 DEF Broker
<1>7. CASE ProcessMovement
  <2>1. HasRecord
    BY <1>7 DEF ProcessMovement
  <2>2. movement' \in [Trains -> Movement \cup {None}]
    BY <1>7, <2>1, CurrentRecord DEF TypeOK, ProcessMovement
  <2>3. /\ position' \in 0 .. Len(topic) /\ applied' \subseteq 1 .. Len(topic)
        /\ stream' = "polling"
    BY <1>7, <2>1, CurrentRecord DEF TypeOK, ProcessMovement, Processed, HasRecord
  <2>4. UNCHANGED <<now, up, faults, activation, feedVars, kafkaVars, committed, sweepVars>>
    BY <1>7 DEF ProcessMovement
  <2> QED
    BY <2>2, <2>3, <2>4 DEF TypeOK, feedVars, kafkaVars, sweepVars
<1>8. CASE ProcessArrival
  <2>1. movement' \in [Trains -> Movement \cup {None}] /\ stream' = "deleting"
    BY <1>8, CurrentRecord DEF TypeOK, ProcessArrival
  <2>2. UNCHANGED <<now, up, faults, activation, feedVars, kafkaVars,
                    position, committed, applied, sweepVars>>
    BY <1>8 DEF ProcessArrival
  <2> QED
    BY <2>1, <2>2 DEF TypeOK, feedVars, kafkaVars, sweepVars
<1>9. CASE DeleteActivation
  <2>1. HasRecord
    BY <1>9 DEF Deleting, DeleteActivation
  <2>2. activation' \in [Trains -> Activation \cup {None}]
    BY <1>9 DEF TypeOK, DeleteActivation
  <2>3. position' \in 0 .. Len(topic) /\ applied' \subseteq 1 .. Len(topic)
    BY <1>9, <2>1, CurrentRecord DEF TypeOK, DeleteActivation, Processed, HasRecord
  <2> QED
    BY <1>9, <2>2, <2>3
       DEF TypeOK, DeleteActivation, Processed, feedVars, kafkaVars, sweepVars
<1>10. CASE CommitOffset \/ ProcessPoison \/ ProcessFails
  <2>1. /\ committed' \in 0 .. Len(topic)
        /\ stream' \in {"polling", "deleting", "dead"}
        /\ faults' \in 0 .. MaxFaults
    BY <1>10 DEF TypeOK, CommitOffset, ProcessPoison, ProcessFails, StreamThreadDies
  <2>2. UNCHANGED <<now, up, maps, feedVars, kafkaVars, position, applied, sweepVars>>
    BY <1>10 DEF CommitOffset, ProcessPoison, ProcessFails, StreamThreadDies
  <2> QED
    BY <2>1, <2>2 DEF TypeOK, maps, feedVars, kafkaVars, sweepVars
<1>11. ASSUME NEW task \in Tasks, StartSweep(task) PROVE TypeOK'
  <2>1. StaleMovements \subseteq Trains /\ StaleActivations \subseteq Trains
    BY DEF StaleMovements, StaleActivations
  <2>2. sweep' \in [task : Tasks \cup {None}, stale : SUBSET Trains]
    BY <1>11, <2>1 DEF StartSweep
  <2> QED
    BY <1>11, <2>2 DEF TypeOK, StartSweep, maps, feedVars, kafkaVars, streamVars
<1>12. ASSUME NEW t \in Trains, EvictMovement(t) \/ EvictActivation(t) PROVE TypeOK'
  <2>1. sweep' \in [task : Tasks \cup {None}, stale : SUBSET Trains]
    <3>1. sweep' = [sweep EXCEPT !.stale = @ \ {t}]
      BY <1>12 DEF EvictMovement, EvictActivation
    <3> QED
      BY <3>1 DEF TypeOK
  <2>2. /\ activation' \in [Trains -> Activation \cup {None}]
        /\ movement' \in [Trains -> Movement \cup {None}]
    BY <1>12 DEF TypeOK, EvictMovement, EvictActivation
  <2> QED
    BY <1>12, <2>1, <2>2
       DEF TypeOK, EvictMovement, EvictActivation, feedVars, kafkaVars, streamVars
<1>13. CASE EndSweep \/ SweepFails
  <2>1. sweep.task \in Tasks
    BY <1>13 DEF TypeOK, EndSweep, SweepFails
  <2>2. turn' \in Tasks
    BY <1>13, <2>1 DEF EndSweep, SweepFails, NextTurn, Other, Tasks
  <2>3. sweep' \in [task : Tasks \cup {None}, stale : SUBSET Trains]
    BY <1>13 DEF EndSweep, SweepFails, IdleSweep
  <2>4. disabled' \subseteq Tasks
    BY <1>13, <2>1 DEF TypeOK, EndSweep, SweepFails
  <2>5. faults' \in 0 .. MaxFaults
    BY <1>13 DEF TypeOK, EndSweep, SweepFails
  <2>6. UNCHANGED <<now, up, maps, feedVars, kafkaVars, streamVars>>
    BY <1>13 DEF EndSweep, SweepFails
  <2> QED
    BY <2>2, <2>3, <2>4, <2>5, <2>6 DEF TypeOK, maps, feedVars, kafkaVars, streamVars
<1>14. CASE Crash
  <2>1. /\ faults' \in 0 .. MaxFaults /\ batch' \in 0 .. MaxBatch
        /\ buffer' \in Seq(Movement)
    BY <1>14 DEF TypeOK, Crash
  <2>2. sweep' \in [task : Tasks \cup {None}, stale : SUBSET Trains]
    BY <1>14 DEF Crash, IdleSweep
  <2>3. up' \in BOOLEAN
    BY <1>14 DEF Crash
  <2>4. /\ stream' = "dead"
        /\ UNCHANGED <<now, maps, fed, topic, position, committed, applied, turn, disabled>>
    BY <1>14 DEF Crash
  <2> QED
    BY <2>1, <2>2, <2>3, <2>4 DEF TypeOK, maps
<1>15. CASE Restart
  <2>1. /\ position' \in 0 .. Len(topic)
        /\ stream' = "polling" /\ turn' \in Tasks /\ disabled' \subseteq Tasks
    BY <1>15 DEF TypeOK, Restart, Tasks
  <2>2. up' \in BOOLEAN
    BY <1>15 DEF Restart
  <2>3. UNCHANGED <<now, faults, maps, feedVars, kafkaVars, committed, applied, sweep>>
    BY <1>15 DEF Restart
  <2> QED
    BY <2>1, <2>2, <2>3 DEF TypeOK, maps, feedVars, kafkaVars
<1>16. CASE UNCHANGED vars
  BY <1>16 DEF TypeOK, vars, maps, feedVars, kafkaVars, streamVars, sweepVars
<1> QED
  BY <1>1, <1>2, <1>3, <1>4, <1>5, <1>6, <1>7, <1>8, <1>9, <1>10, <1>11, <1>12,
     <1>13, <1>14, <1>15, <1>16 DEF Next, Producer, Stream, Cleanup

-----------------------------------------------------------------------------
(* The steps, by what they do to the topic, the view and the stream thread.  *)

Viewed == <<topic, movement, streamVars>>

\* The stream thread commits, dies or is killed.
CommitsOrStops ==
    /\ committed' \in {committed, position}
    /\ stream' \in {stream, "dead"}
    /\ UNCHANGED <<topic, movement, position, applied>>

Evicts(t) ==
    /\ movement' = [movement EXCEPT ![t] = None]
    /\ UNCHANGED <<topic, streamVars>>

\* The steps that the view depends on.
LEMMA StepKinds ==
    ASSUME [Next]_vars
    PROVE  \/ UNCHANGED Viewed
           \/ KafkaAppend
           \/ ProcessMovement
           \/ ProcessArrival
           \/ DeleteActivation
           \/ CommitsOrStops
           \/ \E t \in Trains : Evicts(t)
           \/ Restart
<1>1. CASE Tick \/ Producer
  BY <1>1 DEF Tick, Producer, DeliverBatch, ActivationFails, IgnoreMessage, ActivateTrain,
              SendMovement, Viewed, maps, kafkaVars, streamVars
<1>2. CASE Broker
  BY <1>2 DEF Broker, KafkaLose, Viewed, maps, streamVars
<1>3. CASE Stream
  BY <1>3 DEF Stream, CommitOffset, ProcessPoison, ProcessFails, StreamThreadDies,
              CommitsOrStops, maps, kafkaVars
<1>4. CASE Cleanup
  BY <1>4 DEF Cleanup, StartSweep, EvictMovement, EvictActivation, EndSweep, SweepFails,
              Evicts, Viewed, maps, kafkaVars, streamVars
<1>5. CASE Crash
  BY <1>5 DEF Crash, CommitsOrStops, maps
<1>6. CASE UNCHANGED vars
  BY <1>6 DEF vars, Viewed, maps, kafkaVars, streamVars
<1> QED
  BY <1>1, <1>2, <1>3, <1>4, <1>5, <1>6 DEF Next

\* Appending leaves the records already there, in particular the current one.
LEMMA AppendKeeps ==
    ASSUME TypeOK, KafkaAppend
    PROVE  /\ Len(topic') = Len(topic) + 1
           /\ \A k \in 1 .. Len(topic) : topic'[k] = topic[k]
           /\ UNCHANGED <<movement, streamVars>>
           /\ HasRecord => HasRecord' /\ Record' = Record
<1>1. topic \in Seq(Movement) /\ Head(buffer) \in Movement
  BY QueueFacts DEF TypeOK, KafkaAppend
<1>2. /\ Len(topic') = Len(topic) + 1
      /\ \A k \in 1 .. Len(topic) : topic'[k] = topic[k]
  BY <1>1 DEF KafkaAppend
<1>3. UNCHANGED <<movement, streamVars>>
  BY DEF KafkaAppend, maps
<1>4. HasRecord => HasRecord' /\ Record' = Record
  BY <1>2, <1>3, CurrentRecord DEF TypeOK, HasRecord, Record, streamVars
<1> QED
  BY <1>2, <1>3, <1>4

\* Every step keeps the record that is being deleted, and the commit behind it.
LEMMA DeletingStep == TypeInv /\ [Next]_vars => Deleting' /\ CommitBehind'
<1> SUFFICES ASSUME TypeInv, [Next]_vars PROVE Deleting' /\ CommitBehind'
  OBVIOUS
<1> USE DEF TypeInv
<1>1. CASE UNCHANGED Viewed
  BY <1>1 DEF Viewed, streamVars, Deleting, CommitBehind, HasRecord, Record, Poison
<1>2. CASE KafkaAppend
  BY <1>2, AppendKeeps DEF Deleting, CommitBehind, Poison, streamVars
<1>3. CASE ProcessMovement
  BY <1>3 DEF ProcessMovement, Processed, Deleting, CommitBehind, TypeOK
<1>4. CASE ProcessArrival
  <2>1. movement' = [movement EXCEPT ![Record.train] = None]
        /\ UNCHANGED <<topic, position, committed>> /\ HasRecord /\ Record.arrived /\ ~Poison(Record)
    BY <1>4 DEF ProcessArrival, kafkaVars
  <2>2. Record' = Record /\ HasRecord' /\ movement'[Record.train] = None
    BY <2>1, CurrentRecord DEF TypeOK, HasRecord, Record
  <2> QED
    BY <2>1, <2>2 DEF Deleting, CommitBehind, Poison
<1>5. CASE DeleteActivation
  BY <1>5 DEF DeleteActivation, Processed, Deleting, CommitBehind, TypeOK
<1>6. CASE CommitsOrStops
  BY <1>6 DEF CommitsOrStops, Deleting, CommitBehind, HasRecord, Record, Poison, TypeOK
<1>7. ASSUME NEW t \in Trains, Evicts(t) PROVE Deleting' /\ CommitBehind'
  <2>1. UNCHANGED <<topic, position, committed, stream>>
        /\ \A u \in Trains : movement'[u] \in {movement[u], None}
    BY <1>7 DEF Evicts, streamVars, TypeOK
  <2>2. HasRecord => Record.train \in Trains
    BY CurrentRecord
  <2> QED
    BY <2>1, <2>2 DEF Deleting, CommitBehind, HasRecord, Record, Poison
<1>8. CASE Restart
  BY <1>8 DEF Restart, Deleting, CommitBehind, TypeOK
<1> QED
  BY <1>1, <1>2, <1>3, <1>4, <1>5, <1>6, <1>7, <1>8, StepKinds

\* Every reachable state is well typed: the counters never leave the topic, the
\* maps hold only what the producer built.
THEOREM TypeCorrect == Spec => []TypeOK
<1>1. TypeInv /\ [Next]_vars => TypeInv'
  BY TypeStep, DeletingStep DEF TypeInv
<1>2. TypeInv => TypeOK
  BY DEF TypeInv
<1> QED
  BY TypeInit, <1>1, <1>2, PTL DEF Spec

-----------------------------------------------------------------------------
(* The view reflects the topic.                                              *)

\* A record keeps backing the entry of a train while no record of that train
\* is processed.
LEMMA StillBacks ==
    ASSUME TypeOK, NEW t \in Trains, NEW k \in 1 .. Len(topic), Backs(k, t),
           movement'[t] = movement[t],
           Len(topic') \in Nat, Len(topic') >= Len(topic),
           \A i \in 1 .. Len(topic) : topic'[i] = topic[i],
           position' \in 0 .. Len(topic),
           position' <= position \/ (position' = position + 1 /\ Record.train # t)
    PROVE  \E i \in 1 .. Len(topic') : Backs(i, t)'
<1>1. k \in 1 .. Len(topic')
  OBVIOUS
<1>2. ASSUME NEW j \in k + 1 .. position' PROVE topic'[j].train # t
  <2>1. position \in 0 .. Len(topic) /\ Len(topic) \in Nat
    BY DEF TypeOK
  <2>2. j \in 1 .. Len(topic) /\ topic'[j] = topic[j]
    BY <1>2, <2>1
  <2>3. CASE j \in k + 1 .. position
    BY <2>2, <2>3 DEF Backs
  <2>4. CASE j = position + 1 /\ Record.train # t
    BY <2>2, <2>4 DEF Record
  <2> QED
    BY <1>2, <2>1, <2>3, <2>4
<1>3. Backs(k, t)'
  BY <1>2 DEF Backs
<1> QED
  BY <1>1, <1>3

\* Every step keeps the view that of the log.
LEMMA ViewStep == TypeInv /\ ViewReflectsLog /\ [Next]_vars => ViewReflectsLog'
<1> SUFFICES ASSUME TypeInv, ViewReflectsLog, [Next]_vars,
                    NEW t \in Trains, movement'[t] # None
             PROVE  \E i \in 1 .. Len(topic') : Backs(i, t)'
  BY DEF ViewReflectsLog
<1>a. TypeOK /\ Len(topic) \in Nat /\ position \in 0 .. Len(topic)
  BY DEF TypeInv, TypeOK
<1>b. ASSUME movement'[t] = movement[t]
      PROVE  \E k \in 1 .. Len(topic) : Backs(k, t)
  BY <1>b DEF ViewReflectsLog
<1>1. CASE UNCHANGED Viewed \/ CommitsOrStops
  BY <1>1, <1>a, <1>b, StillBacks DEF Viewed, streamVars, CommitsOrStops
<1>2. CASE KafkaAppend
  BY <1>2, <1>a, <1>b, StillBacks, AppendKeeps DEF streamVars
<1>3. CASE ProcessMovement
  <2>1. /\ movement' = [movement EXCEPT ![Record.train] = Record]
        /\ topic' = topic /\ position' = position + 1 /\ HasRecord /\ ~Record.arrived
    BY <1>3 DEF ProcessMovement, Processed, kafkaVars
  <2>2. CASE t = Record.train
    <3>1. PICK k \in 1 .. Len(topic) : k = position + 1
      BY <1>a, <2>1 DEF HasRecord
    <3>2. movement'[t] = topic'[k] /\ topic'[k] = Record
      BY <1>a, <2>1, <2>2, <3>1, CurrentRecord DEF TypeOK, Record
    <3>3. k + 1 .. position' = {}
      BY <1>a, <2>1, <3>1
    <3>4. Backs(k, t)'
      BY <2>1, <2>2, <3>2, <3>3 DEF Backs
    <3> QED
      BY <2>1, <3>4
  <2>3. CASE t # Record.train
    <3>1. movement'[t] = movement[t] /\ position + 1 \in 1 .. Len(topic)
      BY <1>a, <2>1, <2>3, CurrentRecord DEF TypeOK
    <3> QED
      BY <1>a, <1>b, <2>1, <2>3, <3>1, StillBacks
  <2> QED
    BY <2>2, <2>3
<1>4. CASE ProcessArrival
  <2>1. topic' = topic /\ position' = position /\ movement'[t] = movement[t]
    BY <1>4, <1>a DEF ProcessArrival, kafkaVars, TypeOK
  <2> QED
    BY <1>a, <1>b, <2>1, StillBacks
<1>5. CASE DeleteActivation
  <2>1. /\ topic' = topic /\ position' = position + 1 /\ movement' = movement
        /\ HasRecord /\ movement[Record.train] = None
    BY <1>5 DEF DeleteActivation, Processed, Deleting, TypeInv, kafkaVars
  <2>2. t # Record.train /\ position + 1 \in 1 .. Len(topic)
    BY <1>a, <2>1, CurrentRecord
  <2> QED
    BY <1>a, <1>b, <2>1, <2>2, StillBacks
<1>6. ASSUME NEW u \in Trains, Evicts(u)
      PROVE  \E i \in 1 .. Len(topic') : Backs(i, t)'
  <2>1. topic' = topic /\ position' = position /\ movement'[t] = movement[t]
    BY <1>6, <1>a DEF Evicts, streamVars, TypeOK
  <2> QED
    BY <1>a, <1>b, <2>1, StillBacks
<1>7. CASE Restart
  <2>1. topic' = topic /\ movement' = movement /\ position' = committed
    BY <1>7 DEF Restart, kafkaVars, maps
  <2>2. position' <= position /\ position' \in 0 .. Len(topic)
    BY <2>1 DEF TypeInv, TypeOK, CommitBehind
  <2> QED
    BY <1>a, <1>b, <2>1, <2>2, StillBacks
<1> QED
  BY <1>1, <1>2, <1>3, <1>4, <1>5, <1>6, <1>7, StepKinds

\* What the map of moving trains shows is always backed by the topic, through
\* crashes, replays, sweeps and failed calls.
THEOREM ViewIsBacked == Spec => []ViewReflectsLog
<1>1. Init => TypeInv /\ ViewReflectsLog
  BY TypeInit DEF Init, ViewReflectsLog
<1>2. TypeInv /\ ViewReflectsLog /\ [Next]_vars => (TypeInv /\ ViewReflectsLog)'
  BY TypeStep, DeletingStep, ViewStep DEF TypeInv
<1> QED
  BY <1>1, <1>2, PTL DEF Spec

-----------------------------------------------------------------------------
(* At least once, and what a record without a location does.                 *)

\* Everything behind the position was applied, not only behind the commit: a
\* restart moves the position back, never the commit forward.
PositionApplied == 1 .. position \subseteq applied

\* Every step keeps the position applied, and the topic blocked by a bad record.
LEMMA ProgressStep ==
    TypeInv /\ PositionApplied /\ PoisonBlocksTopic /\ [Next]_vars
      => PositionApplied' /\ PoisonBlocksTopic'
<1> SUFFICES ASSUME TypeInv, PositionApplied, PoisonBlocksTopic, [Next]_vars
             PROVE  PositionApplied' /\ PoisonBlocksTopic'
  OBVIOUS
<1> USE DEF PositionApplied, PoisonBlocksTopic, Poison
<1>a. /\ Len(topic) \in Nat /\ position \in 0 .. Len(topic)
      /\ committed \in 0 .. position /\ applied \subseteq 1 .. Len(topic)
  BY DEF TypeInv, TypeOK, CommitBehind
<1>1. CASE UNCHANGED Viewed \/ CommitsOrStops \/ ProcessArrival
           \/ \E t \in Trains : Evicts(t)
  BY <1>1 DEF Viewed, streamVars, CommitsOrStops, ProcessArrival, Evicts, kafkaVars
<1>2. CASE KafkaAppend
  <2>1. /\ Len(topic') = Len(topic) + 1 /\ \A k \in 1 .. Len(topic) : topic'[k] = topic[k]
        /\ position' = position /\ applied' = applied
    BY <1>2, AppendKeeps DEF streamVars, TypeInv
  <2>2. ASSUME NEW i \in 1 .. Len(topic'), Poison(topic'[i])
        PROVE  position < i /\ \A k \in applied : k < i
    <3>1. CASE i \in 1 .. Len(topic)
      BY <2>1, <2>2, <3>1
    <3>2. CASE i = Len(topic) + 1
      BY <1>a, <3>2
    <3> QED
      BY <1>a, <2>1, <3>1, <3>2
  <2> QED
    BY <2>1, <2>2
<1>3. CASE ProcessMovement \/ DeleteActivation
  <2>1. /\ topic' = topic /\ position' = position + 1 /\ HasRecord
        /\ applied' = applied \cup {position + 1} /\ ~Poison(topic[position + 1])
    BY <1>3 DEF ProcessMovement, DeleteActivation, Processed, Deleting, TypeInv,
                kafkaVars, Record
  <2>2. 1 .. position' \subseteq applied'
    BY <1>a, <2>1
  <2>3. ASSUME NEW i \in 1 .. Len(topic), Poison(topic[i])
        PROVE  position + 1 < i /\ \A k \in applied' : k < i
    <3>1. position < i /\ (\A k \in applied : k < i) /\ i # position + 1
      BY <2>1, <2>3
    <3> QED
      BY <1>a, <2>1, <3>1
  <2> QED
    BY <2>1, <2>2, <2>3
<1>4. CASE Restart
  BY <1>4, <1>a DEF Restart, kafkaVars
<1> QED
  BY <1>1, <1>2, <1>3, <1>4, StepKinds

ProgressInv == TypeInv /\ PositionApplied /\ PoisonBlocksTopic

\* The invariant of the progress, always.
LEMMA ProgressInvariant == Spec => []ProgressInv
<1>1. Init => ProgressInv
  BY TypeInit DEF ProgressInv, Init, PositionApplied, PoisonBlocksTopic
<1>2. ProgressInv /\ [Next]_vars => ProgressInv'
  BY TypeStep, DeletingStep, ProgressStep DEF ProgressInv, TypeInv
<1> QED
  BY <1>1, <1>2, PTL DEF Spec

\* At-least-once processing: no committed record was left half processed.
THEOREM CommittedIsApplied == Spec => []NoRecordSkipped
<1>1. ProgressInv => NoRecordSkipped
  BY DEF ProgressInv, TypeInv, TypeOK, CommitBehind, PositionApplied, NoRecordSkipped
<1> QED
  BY <1>1, ProgressInvariant, PTL

\* One record with an unknown location stops the view for good.
THEOREM PoisonBlocks == Spec => []PoisonBlocksTopic
<1>1. ProgressInv => PoisonBlocksTopic
  BY DEF ProgressInv
<1> QED
  BY <1>1, ProgressInvariant, PTL

-----------------------------------------------------------------------------
(* Refinement.                                                               *)

LEMMA RefinementStep == TypeInv /\ [Next]_vars => [View!Next]_(View!vars)
<1> SUFFICES ASSUME TypeInv, [Next]_vars PROVE [View!Next]_(View!vars)
  OBVIOUS
<1> USE DEF View!vars, View!Next
<1>a. TypeOK /\ movement \in [Trains -> Movement \cup {None}]
  BY DEF TypeInv, TypeOK
<1>1. CASE UNCHANGED Viewed \/ CommitsOrStops
  BY <1>1 DEF Viewed, streamVars, CommitsOrStops
<1>2. CASE KafkaAppend
  <2>1. Head(buffer) \in Movement
    BY <1>2, <1>a, QueueFacts DEF KafkaAppend, TypeOK
  <2>2. View!Grow
    BY <1>2, <2>1 DEF KafkaAppend, maps, streamVars, View!Grow
  <2> QED
    BY <2>2
<1>3. CASE ProcessMovement
  <2>1. View!Deliver
    BY <1>3 DEF ProcessMovement, Processed, HasRecord, Record, kafkaVars, View!Deliver
  <2> QED
    BY <2>1
<1>4. CASE ProcessArrival
  <2>1. Record.train \in Trains
    BY <1>4, <1>a, CurrentRecord DEF ProcessArrival
  <2>2. View!Hide(Record.train)
    BY <1>4 DEF ProcessArrival, kafkaVars, View!Hide
  <2> QED
    BY <2>1, <2>2
<1>5. CASE DeleteActivation
  <2>1. HasRecord /\ Record.arrived /\ movement[Record.train] = None
    BY <1>5 DEF DeleteActivation, Deleting, TypeInv
  <2>2. movement = [movement EXCEPT ![Record.train] = None]
    BY <1>a, <2>1
  <2>3. View!Deliver
    BY <1>5, <2>1, <2>2
       DEF DeleteActivation, Processed, HasRecord, Record, kafkaVars, View!Deliver
  <2> QED
    BY <2>3
<1>6. ASSUME NEW t \in Trains, Evicts(t) PROVE View!Next
  BY <1>6 DEF Evicts, streamVars, View!Hide
<1>7. CASE Restart
  <2>1. View!Rewind
    BY <1>7 DEF Restart, TypeInv, TypeOK, CommitBehind, kafkaVars, maps, View!Rewind
  <2> QED
    BY <2>1
<1> QED
  BY <1>1, <1>2, <1>3, <1>4, <1>5, <1>6, <1>7, StepKinds

\* The threads of the process together implement a replayed view of the topic.
THEOREM PipelineImplementsReplayedView == Spec => RefinesReplayedView
<1>1. Init => View!Init
  BY DEF Init, View!Init
<1>2. TypeInv /\ [Next]_vars => TypeInv'
  BY TypeStep, DeletingStep DEF TypeInv
<1> QED
  BY TypeInit, <1>1, <1>2, RefinementStep, PTL DEF Spec, View!Spec, RefinesReplayedView
=============================================================================
