---------------------------- MODULE TrainPipeline ----------------------------
(***************************************************************************)
(* The train-movement process (TrainMovementApp): one JVM in which         *)
(*                                                                         *)
(*   - the STOMP receiver thread parses a batch of TRUST messages and, one *)
(*     by one, stores activations in Hazelcast or sends movements to Kafka *)
(*     (TrainMovementProducer);                                            *)
(*   - the Kafka Streams thread reads the topic back and maintains the map *)
(*     of moving trains (TrainMovementStream, TrainMovementProcessor);     *)
(*   - one scheduler thread sweeps old entries out of both maps            *)
(*     (HzCleanup, evictOlderThan of the two repositories).                *)
(*                                                                         *)
(* Hazelcast and Kafka are separate processes and survive a crash of the   *)
(* JVM.  Everything else (the rest of the batch, the Kafka producer's      *)
(* buffer, the consumer's position, the sweep in progress) is lost by it.  *)
(***************************************************************************)
EXTENDS Integers, Sequences

CONSTANTS
    Trains,         \* TRUST train ids
    Stanox,         \* location codes the feed may name
    KnownStanox,    \* the ones HzLocationRepo.getByStanox finds
    Departures,     \* departure times of day of the schedules
    DayLength,      \* length of a day, in ticks of the clock
    MovementAge,    \* HzCleanup.movementThreshold
    ActivationAge,  \* HzCleanup.activationThreshold
    Grace,          \* the minute of HzTrainActivationRepo's departedThreshold
    Lags,           \* how old a movement may be when the feed delivers it
    None,           \* no entry in a map
    MaxBatch,       \* bound: messages in a STOMP message
    MaxMessages,    \* bound: messages the feed ever delivers
    MaxTime,        \* bound: the clock
    MaxFaults       \* bound: crashes and Hazelcast failures

ASSUME KnownStanoxAssumption == KnownStanox \subseteq Stanox
ASSUME TimesAssumption ==
    /\ DayLength \in Nat \ {0}
    /\ Departures \subseteq 0 .. DayLength - 1
    /\ Lags \subseteq Nat
    /\ MovementAge \in Nat /\ ActivationAge \in Nat /\ Grace \in Nat
ASSUME BoundsAssumption ==
    MaxBatch \in Nat /\ MaxMessages \in Nat /\ MaxTime \in Nat /\ MaxFaults \in Nat

\* A record of the topic and of the movement map: a serialized TrainMovement.
EventTimes == {n - lag : n \in 0 .. MaxTime, lag \in Lags}
Movement == [train : Trains, at : EventTimes, stanox : Stanox, arrived : BOOLEAN]

\* A TrainActivation: stamped with the clock when built, and its schedule's
\* departure, which is a time of day.
Activation == [at : 0 .. MaxTime, departure : Departures]

Tasks == {"movement", "activation"}
Other(task) == IF task = "movement" THEN "activation" ELSE "movement"

\* The operators named in a comment "Mutant:" are mistakes the code does not
\* make; nothing refers to them, they show that the properties can fail.

VARIABLES
    now,        \* the clock
    up,         \* is the JVM running
    batch,      \* messages of the current STOMP message still to handle
    fed,        \* messages delivered so far (a bound, not in the code)
    activation, \* Hazelcast map trainActivation
    movement,   \* Hazelcast map trainMovement
    buffer,     \* records accepted by KafkaProducer.send, not yet written
    topic,      \* the only partition of the topic
    stream,     \* the Kafka Streams thread: polling, deleting, dead
    position,   \* records of the topic this stream thread has processed
    committed,  \* the consumer group's committed position
    applied,    \* history: offsets whose record was completely processed
    sweep,      \* the task the scheduler thread runs, if any, and what it holds
    turn,       \* the task the scheduler thread runs next
    disabled,   \* tasks whose exception stopped their periodic execution
    faults      \* crashes and failures so far (a bound, not in the code)

feedVars   == <<batch, fed>>
kafkaVars  == <<buffer, topic>>
streamVars == <<stream, position, committed, applied>>
sweepVars  == <<sweep, turn, disabled>>
maps       == <<activation, movement>>
vars == <<now, up, faults, maps, feedVars, kafkaVars, streamVars, sweepVars>>

IdleSweep == [task |-> None, stale |-> {}]

Init ==
    /\ now = 0
    /\ up = TRUE
    /\ faults = 0
    /\ batch = 0 /\ fed = 0
    /\ activation = [t \in Trains |-> None]
    /\ movement = [t \in Trains |-> None]
    /\ buffer = <<>> /\ topic = <<>>
    /\ stream = "polling" /\ position = 0 /\ committed = 0 /\ applied = {}
    /\ sweep = IdleSweep /\ turn = "movement" /\ disabled = {}

Tick ==
    /\ now < MaxTime
    /\ now' = now + 1
    /\ UNCHANGED <<up, faults, maps, feedVars, kafkaVars, streamVars, sweepVars>>

-----------------------------------------------------------------------------
(* The STOMP receiver thread.  What a message says is chosen when it is     *)
(* handled: the batch is only the number of messages left in the array.     *)

\* produceMessages: the listener parses the JSON array.
DeliverBatch ==
    /\ up /\ batch = 0
    /\ \E n \in 1 .. MaxBatch :
          /\ fed + n <= MaxMessages
          /\ batch' = n
          /\ fed' = fed + n
    /\ UNCHANGED <<now, up, faults, maps, kafkaVars, streamVars, sweepVars>>

\* sendMessage of an activation whose schedule lookupSchedule finds.
ActivateTrain(t) ==
    /\ up /\ batch > 0
    /\ \E d \in Departures :
          activation' = [activation EXCEPT ![t] = [at |-> now, departure |-> d]]
    /\ batch' = batch - 1
    /\ UNCHANGED <<now, up, faults, fed, movement, kafkaVars, streamVars, sweepVars>>

\* The put or the lookup throws: nothing catches it before Stomp.receive does,
\* outside the loop over the array, so the rest of the batch is dropped.
ActivationFails ==
    /\ up /\ batch > 0
    /\ batch' = 0
    /\ UNCHANGED <<now, up, faults, fed, maps, kafkaVars, streamVars, sweepVars>>

\* sendMessage of any other message type for an activated train: the record is
\* in KafkaProducer's buffer when send returns.
SendMovement(t) ==
    /\ up /\ batch > 0
    /\ activation[t] # None
    /\ \E lag \in Lags, s \in Stanox, a \in BOOLEAN :
          buffer' = Append(buffer, [train |-> t, at |-> now - lag,
                                    stanox |-> s, arrived |-> a])
    /\ batch' = batch - 1
    /\ UNCHANGED <<now, up, faults, fed, maps, topic, streamVars, sweepVars>>

\* Mutant: counting down a batch that is already handled.
IgnoreMessageAlways ==
    /\ up
    /\ batch' = batch - 1
    /\ UNCHANGED <<now, up, faults, fed, maps, kafkaVars, streamVars, sweepVars>>

\* A message without effect: an activation without a schedule, a movement of a
\* train without an activation, or any one whose numbers do not parse (caught).
IgnoreMessage ==
    /\ up /\ batch > 0
    /\ batch' = batch - 1
    /\ UNCHANGED <<now, up, faults, fed, maps, kafkaVars, streamVars, sweepVars>>

-----------------------------------------------------------------------------
(* KafkaProducer's sender thread: acks=all and retries=0.                    *)

KafkaAppend ==
    /\ up /\ buffer # <<>>
    /\ topic' = Append(topic, Head(buffer))
    /\ buffer' = Tail(buffer)
    /\ UNCHANGED <<now, up, faults, maps, feedVars, streamVars, sweepVars>>

\* A failed write is not retried, and nobody looks at the future send returned.
KafkaLose ==
    /\ up /\ buffer # <<>>
    /\ buffer' = Tail(buffer)
    /\ UNCHANGED <<now, up, faults, maps, feedVars, topic, streamVars, sweepVars>>

-----------------------------------------------------------------------------
(* The Kafka Streams thread.                                                 *)

Record == topic[position + 1]
HasRecord == position < Len(topic)
\* toString, which process evaluates first, dereferences the current location.
Poison(r) == r.stanox \notin KnownStanox

Processed ==
    /\ position' = position + 1
    /\ applied' = applied \cup {position + 1}
    /\ stream' = "polling"

\* Mutant: not looking at the location of a movement.
ProcessMovementLazily ==
    /\ up /\ stream = "polling" /\ HasRecord
    /\ ~Record.arrived
    /\ movement' = [movement EXCEPT ![Record.train] = Record]
    /\ Processed
    /\ UNCHANGED <<now, up, faults, activation, feedVars, kafkaVars, committed, sweepVars>>

ProcessMovement ==
    /\ up /\ stream = "polling" /\ HasRecord
    /\ ~Poison(Record) /\ ~Record.arrived
    /\ movement' = [movement EXCEPT ![Record.train] = Record]
    /\ Processed
    /\ UNCHANGED <<now, up, faults, activation, feedVars, kafkaVars, committed, sweepVars>>

\* Mutant: storing the arrival instead of deleting the entry.
ProcessArrivalPuts ==
    /\ up /\ stream = "polling" /\ HasRecord
    /\ ~Poison(Record) /\ Record.arrived
    /\ movement' = [movement EXCEPT ![Record.train] = Record]
    /\ stream' = "deleting"
    /\ UNCHANGED <<now, up, faults, activation, feedVars, kafkaVars,
                   position, committed, applied, sweepVars>>

\* deleteArriveTrain makes two calls; other threads run between them.
ProcessArrival ==
    /\ up /\ stream = "polling" /\ HasRecord
    /\ ~Poison(Record) /\ Record.arrived
    /\ movement' = [movement EXCEPT ![Record.train] = None]
    /\ stream' = "deleting"
    /\ UNCHANGED <<now, up, faults, activation, feedVars, kafkaVars,
                   position, committed, applied, sweepVars>>

\* Mutant: never advancing past an arrival.
DeleteActivationAgain ==
    /\ up /\ stream = "deleting"
    /\ activation' = [activation EXCEPT ![Record.train] = None]
    /\ stream' = "polling"
    /\ UNCHANGED <<now, up, faults, movement, feedVars, kafkaVars, position,
                   committed, applied, sweepVars>>

DeleteActivation ==
    /\ up /\ stream = "deleting"
    /\ activation' = [activation EXCEPT ![Record.train] = None]
    /\ Processed
    /\ UNCHANGED <<now, up, faults, movement, feedVars, kafkaVars, committed, sweepVars>>

\* The periodic commit, between two records.
CommitOffset ==
    /\ up /\ stream = "polling"
    /\ committed' = position
    /\ UNCHANGED <<now, up, faults, maps, feedVars, kafkaVars,
                   stream, position, applied, sweepVars>>

\* An exception of process ends the thread, which commits, if it can, the
\* records before the one it was at.
StreamThreadDies ==
    /\ stream' = "dead"
    /\ committed' \in {committed, position}
    /\ UNCHANGED <<now, up, maps, feedVars, kafkaVars, position, applied, sweepVars>>

ProcessPoison ==
    /\ up /\ stream = "polling" /\ HasRecord
    /\ Poison(Record)
    /\ StreamThreadDies
    /\ UNCHANGED faults

\* A call to Hazelcast fails.  (When it took effect all the same, the step is
\* ProcessMovement, ProcessArrival or DeleteActivation and then this one.)
ProcessFails ==
    /\ up /\ faults < MaxFaults
    /\ stream = "deleting" \/ (stream = "polling" /\ HasRecord)
    /\ StreamThreadDies
    /\ faults' = faults + 1

-----------------------------------------------------------------------------
(* The scheduler thread.  Its two periodic tasks have the same period and    *)
(* one thread, so they alternate; the period itself is not modelled: a sweep *)
(* may fall at any moment.                                                   *)

TimeOfDay(x) == x % DayLength

\* evictOlderThan of HzTrainMovementRepo.
StaleMovements ==
    {t \in Trains : movement[t] # None /\ movement[t].at < now - MovementAge}

\* evictOlderThan of HzTrainActivationRepo: departure is compared as a LocalTime.
StaleActivations ==
    {t \in Trains : /\ activation[t] # None
                    /\ \/ activation[t].at < now - ActivationAge
                       \/ activation[t].departure < TimeOfDay(now - Grace)}

\* The snapshot of the values and the filter.
StartSweep(task) ==
    /\ up /\ sweep.task = None
    /\ turn = task /\ task \notin disabled
    /\ sweep' = [task  |-> task,
                 stale |-> IF task = "movement" THEN StaleMovements ELSE StaleActivations]
    /\ UNCHANGED <<now, up, faults, maps, feedVars, kafkaVars, streamVars, turn, disabled>>

\* stale.forEach: one evict, by key, per snapshot entry.
EvictMovement(t) ==
    /\ up /\ sweep.task = "movement" /\ t \in sweep.stale
    /\ movement' = [movement EXCEPT ![t] = None]
    /\ sweep' = [sweep EXCEPT !.stale = @ \ {t}]
    /\ UNCHANGED <<now, up, faults, activation, feedVars, kafkaVars, streamVars, turn, disabled>>

EvictActivation(t) ==
    /\ up /\ sweep.task = "activation" /\ t \in sweep.stale
    /\ activation' = [activation EXCEPT ![t] = None]
    /\ sweep' = [sweep EXCEPT !.stale = @ \ {t}]
    /\ UNCHANGED <<now, up, faults, movement, feedVars, kafkaVars, streamVars, turn, disabled>>

\* The task ends; the other one is due next, unless it has been disabled.
NextTurn(task, stopped) == IF Other(task) \in stopped THEN task ELSE Other(task)

\* Mutant: waiting for the other task even when it has been disabled.
EndSweepWaiting ==
    /\ up /\ sweep.task # None /\ sweep.stale = {}
    /\ turn' = Other(sweep.task)
    /\ sweep' = IdleSweep
    /\ UNCHANGED <<now, up, faults, maps, feedVars, kafkaVars, streamVars, disabled>>

EndSweep ==
    /\ up /\ sweep.task # None /\ sweep.stale = {}
    /\ turn' = NextTurn(sweep.task, disabled)
    /\ sweep' = IdleSweep
    /\ UNCHANGED <<now, up, faults, maps, feedVars, kafkaVars, streamVars, disabled>>

\* Hazelcast fails during a sweep: scheduleAtFixedRate suppresses every later
\* execution of a task that threw.
SweepFails ==
    /\ up /\ sweep.task # None /\ faults < MaxFaults
    /\ disabled' = disabled \cup {sweep.task}
    /\ turn' = NextTurn(sweep.task, disabled)
    /\ sweep' = IdleSweep
    /\ faults' = faults + 1
    /\ UNCHANGED <<now, up, maps, feedVars, kafkaVars, streamVars>>

-----------------------------------------------------------------------------
(* The process.                                                              *)

Crash ==
    /\ up /\ faults < MaxFaults
    /\ up' = FALSE
    /\ faults' = faults + 1
    /\ batch' = 0 /\ buffer' = <<>>
    /\ stream' = "dead"
    /\ sweep' = IdleSweep
    /\ UNCHANGED <<now, maps, fed, topic, position, committed, applied, turn, disabled>>

\* Mutant: resuming at the end of the topic (auto.offset.reset=latest without a commit).
RestartAtEnd ==
    /\ ~up
    /\ up' = TRUE
    /\ stream' = "polling" /\ position' = Len(topic)
    /\ turn' = "movement" /\ disabled' = {}
    /\ UNCHANGED <<now, faults, maps, feedVars, kafkaVars, committed, applied, sweep>>

\* main: the three threads start again; the consumer resumes at its commit.
Restart ==
    /\ ~up
    /\ up' = TRUE
    /\ stream' = "polling" /\ position' = committed
    /\ turn' = "movement" /\ disabled' = {}
    /\ UNCHANGED <<now, faults, maps, feedVars, kafkaVars, committed, applied, sweep>>

Producer == \/ DeliverBatch \/ ActivationFails \/ IgnoreMessage
            \/ \E t \in Trains : ActivateTrain(t) \/ SendMovement(t)
Broker   == KafkaAppend \/ KafkaLose
Stream   == \/ ProcessMovement \/ ProcessArrival \/ DeleteActivation
            \/ CommitOffset \/ ProcessPoison \/ ProcessFails
Cleanup  == \/ \E task \in Tasks : StartSweep(task)
            \/ \E t \in Trains : EvictMovement(t) \/ EvictActivation(t)
            \/ EndSweep \/ SweepFails

Next == Tick \/ Producer \/ Broker \/ Stream \/ Cleanup \/ Crash \/ Restart

\* Threads that can take a step do: the stream thread does not stop between
\* records and the scheduler thread finishes and starts its sweeps.  Nothing
\* makes the feed, the broker or the operator act.
Fairness ==
    /\ WF_vars(ProcessMovement \/ ProcessArrival \/ DeleteActivation)
    /\ WF_vars(\E task \in Tasks : StartSweep(task))
    /\ WF_vars(EndSweep \/ \E t \in Trains : EvictMovement(t) \/ EvictActivation(t))

Spec == Init /\ [][Next]_vars
FairSpec == Spec /\ Fairness
-----------------------------------------------------------------------------
(* Properties.                                                               *)

\* Types of the variables; counters stay within what they count.
TypeOK ==
    /\ now \in 0 .. MaxTime /\ up \in BOOLEAN /\ faults \in 0 .. MaxFaults
    /\ batch \in 0 .. MaxBatch /\ fed \in 0 .. MaxMessages
    /\ activation \in [Trains -> Activation \cup {None}]
    /\ movement \in [Trains -> Movement \cup {None}]
    /\ buffer \in Seq(Movement) /\ topic \in Seq(Movement)
    /\ stream \in {"polling", "deleting", "dead"}
    /\ position \in 0 .. Len(topic) /\ committed \in 0 .. Len(topic)
    /\ applied \subseteq 1 .. Len(topic)
    /\ sweep \in [task : Tasks \cup {None}, stale : SUBSET Trains]
    /\ turn \in Tasks /\ disabled \subseteq Tasks

\* What the map shows of a train is a record of the topic about that train,
\* not its arrival, and no later record of the train has been processed since
\* the consumer last resumed: a train whose arrival was processed is not shown
\* again until a replay begins before it, whatever crashes and sweeps fall between
\* the steps; then its old records may be, until the replay comes to the arrival.
\* (TrainMovementProcessor.process, with the consumer's replay after a crash.)
Backs(k, t) ==
    /\ topic[k] = movement[t]
    /\ topic[k].train = t
    /\ ~topic[k].arrived
    /\ \A j \in k + 1 .. position : topic[j].train # t
ViewReflectsLog ==
    \A t \in Trains : movement[t] # None => \E k \in 1 .. Len(topic) : Backs(k, t)

\* At least once: a record the consumer group has left behind was completely
\* processed, both deletes of an arrival included, although the two deletes
\* are separate calls and the commit is a third.
NoRecordSkipped == 1 .. committed \subseteq applied

\* A record whose location is unknown is never passed: nothing behind it is
\* ever processed, however often the process is restarted.  (process evaluates
\* tm.toString() before anything else; TrainMovement.Formatted.)
PoisonBlocksTopic ==
    \A i \in 1 .. Len(topic) : Poison(topic[i]) =>
        position < i /\ \A k \in applied : k < i

\* The view the process maintains is a replayed view of the topic: each step of
\* any thread is a step of ReplayedView or leaves its variables alone.
View == INSTANCE ReplayedView WITH log <- topic, cursor <- position, view <- movement,
                                   Keys <- Trains, Entries <- Movement
RefinesReplayedView == View!Spec

\* If the process and its stream thread stay alive, the view keeps catching up
\* with the topic: no record is left unprocessed forever.
ViewCatchesUp ==
    <>[](up /\ stream # "dead") => []<>(position = Len(topic))

\* A stale entry does not stay: while the process runs and no exception has
\* stopped a cleanup task, each sweep task gets its turn of the only scheduler
\* thread and removes what is stale, or a new record replaces it.
StaleEntriesLeave ==
    /\ <>[](up /\ "movement" \notin disabled) =>
           \A t \in Trains : (t \in StaleMovements) ~> (t \notin StaleMovements)
    /\ <>[](up /\ "activation" \notin disabled) =>
           \A t \in Trains : (t \in StaleActivations) ~> (t \notin StaleActivations)

\* What HzTrainMovementRepo logs and its test asserts of evictOlderThan: an
\* entry it evicts has a timestamp older than the cutoff.
EvictsOnlyStaleMovements ==
    [][\A t \in Trains : EvictMovement(t) /\ movement[t] # None =>
           movement[t].at < now - MovementAge]_vars
=============================================================================
