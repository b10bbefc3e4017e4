# TLA+ models of TrainWatch

TrainWatch follows the trains of the UK network in real time: it reads Network
Rail's TRUST feed over STOMP, matches movements with schedules, passes them
through a Kafka topic and keeps, in Hazelcast, a map of the trains that are
moving now. A search library reads that map; a set of populators and Python
scripts prepare the reference data (locations, schedules) it all depends on.

This directory models that code in TLA+, checks the models with TLC and proves
theorems about them with TLAPS.

## 1. The system

| Component | Code | State it keeps | Operations | What is hard about it |
|---|---|---|---|---|
| Movement producer | `movement/kafka/TrainMovementProducer`, `PropertiesBuilder` | rest of the current STOMP batch, Kafka producer buffer | store an activation; publish a movement | a failure aborts a batch; writes are not retried |
| Movement stream | `movement/kafka/TrainMovementStream`, `TrainMovementProcessor` | consumer position and commit | put a movement; delete an arrived train (two calls) | replay after a crash; a record that kills the thread |
| Hazelcast cleanup | `movement/hazelcast/HzCleanup`, `HzTrainMovementRepo`, `HzTrainActivationRepo` | a snapshot of stale keys | evict old movements; evict old or departed activations | interleaves with the stream; midnight; disabled by one exception |
| STOMP client | `net/ser1/stomp/Stomp`, `Client`, `Receiver`, `Transmitter`, `movement/trust/TrustMessagesStomp` | connection, listeners, queue, receipts, errors | connect, subscribe, send, wait for a receipt, receive | waiters and notifications on shared lists; a wait without a receipt |
| STOMP server | `net/ser1/stomp/Server`, `IntraVMClient` | listeners per channel, transactions per client | send, subscribe, begin, commit, abort, disconnect | transactions that queue transactions; receipts sent early |
| Search and its pages | `search/hazelcast/HzTrainWatchSearch`, `movement/DelayWindow`, `movement/TrainDeparture`, `tw-webapp/_archived/app` | a cached list of stations | list stations; delayed trains by window; departures | a map's values come in any order; limit before sort; a stale list |
| Reference data | `tw-ref-data/tools/*.py`, `nr/hazelcast/*`, `nr/dataimport/*`, `nr/Schedule` | files; the location and schedule maps | extract, join, populate in parallel, look up | two maps put separately; swallowed errors; files of different days |
| Search box | `_archived/public/javascripts/typeahead.js`, `ld.js` | input, hint, menu; trie, requests, caches | type, select, complete; search, request, prefetch | late answers; limiters; links of a cache |
| Page widgets | `_archived/public/javascripts/materialize.js` | classes, handlers, timers and animations of some twenty widgets | open, close, drag, scroll, choose a date | completions of an earlier request after a later one; shared flags |
| Web application | `tw-webapp/tw-webapp/app.py` | none | serve a page | - |
| Operations scripts | `deploy`, `tools/*.sh` | - | create stacks, start services | - |

How they interact: the STOMP receiver thread calls the producer for each batch;
the producer reads schedules and locations and writes activations in Hazelcast,
and writes records to the Kafka topic; the stream thread reads the topic and
writes the movement map and deletes activations; the scheduler thread removes
entries of both maps. All three threads live in one JVM (`TrainMovementApp`);
Hazelcast and Kafka are other processes. The search library reads the movement
and activation maps and never writes; the Play application shows what it finds
on pages whose scripts are the search box and the widgets. The reference data
programs run by hand, before the process, and fill the maps it looks up. The
STOMP server comes with the client library; TrainWatch does not start it.

What makes each component correct:

- producer: an activation precedes the movements it admits; a movement reaches
  the topic at most once and in order;
- stream: what the map shows is backed by the topic; nothing is committed before
  it is processed; an arrived train leaves the map;
- cleanup: only stale entries are evicted, and stale entries do not stay;
- STOMP client: a wait returns when, and only when, its receipt has arrived;
- STOMP server: a transaction's messages are delivered at its commit or never;
- search: what is left out is left out for want of room, and what is shown is
  in order; the list of stations is at most one expiry old;
- reference data: every location of the input can be looked up when the populator
  has reported success (every schedule too, if it has logged no exception), and
  the two maps of locations agree;
- search box: the menu, the hint and the input belong to one query; the engine
  finds what its definition says and answers the last search;
- widgets: what the user sees in the end is what was asked for last, and what a
  widget says, shows and submits is the same.

## 2. Modules

| Module | Models | Kind |
|---|---|---|
| `TrainPipeline` | producer, Kafka topic, stream thread, cleanup thread, crash and restart | specification |
| `ReplayedView` | what a view fed from a log promises | abstract specification |
| `TrainPipelineProofs` | theorems about `TrainPipeline` | proofs |
| `MCTrainPipeline` | small instances for TLC | model |
| `StompSession` | the STOMP client's session with the feed: subscribing thread, receiver thread, server | specification |
| `MCStompSession` | small instances for TLC | model |
| `StompReceipts` | the client's calls that wait for a receipt, as threads on Java's monitor | specification |
| `StompSessionProofs`, `StompReceiptsProofs` | theorems about them | proofs |
| `MCStompReceipts` | small instances for TLC, with the calls each run makes | model |
| `StompServer` | the embeddable STOMP server with in-process and network clients | specification |
| `StompServerProofs` | theorems about it | proofs |
| `MCStompServer` | a small instance for TLC, with the requests each client makes | model |
| `ReferenceData` | the import: scripts, files, the two populators, the maps | specification |
| `Departures` | extends it: the searches, the maps they read, the pages and their cache | specification |
| `DeparturesProofs` | theorems about both | proofs |
| `MCDepartures` | a small instance, with two daily extracts | model |
| `Typeahead` | the search box: input, hint, menu, data set, controller | specification |
| `Bloodhound` | the suggestion engine: trie, transport, cache, prefetch | specification |
| `SearchBox` | both on one page | composition |
| `SearchBoxProofs` | theorems about the box and about the engine | proofs |
| `MCSearchBox` | a small instance, with texts and tokens | model |
| `Materialize` | what all widgets share: which of them are on the page, and the body's scroll lock | base module |
| `Overlays`, `Menus`, `Feedback`, `Scrolling`, `Carousel` | the widgets, grouped by what they do | specifications |
| `Calendar` | the date picker's component: dates, formats, limits, disabled dates, as operators | operators |
| `Picker` | the date picker itself: input, root, timeouts, keys | specification |
| `WebPage` | a page with widgets on it | composition |
| `WebPageProofs` | theorems about the widgets | proofs |
| `Ranks` | what the code sorts and filters with: an order's first elements, a stable sort, the elements at some places | operators |
| `RankTheorems` | what they return; loops and folds of any length | proofs |
| `MCWebPage` | small instances, one per page | model |

### TrainPipeline and the code

| Variable | Code |
|---|---|
| `batch` | the JSON array `produceMessages` iterates over: the number of messages left. What a message says is chosen when it is handled, which loses nothing: nobody looks at a message before |
| `activation`, `movement` | the Hazelcast maps `trainActivation`, `trainMovement` |
| `buffer`, `topic` | the Kafka producer's accumulator, and the topic's only partition |
| `stream`, `position`, `committed` | the Kafka Streams thread: between records (`polling`), between the two deletes of `deleteArriveTrain` (`deleting`), or ended (`dead`) |
| `sweep`, `turn`, `disabled` | the scheduler thread: the snapshot `stale` of the running `evictOlderThan`, the task that is due, the tasks an exception has stopped |
| `now` | the wall clock |
| `applied` | history: the offsets completely processed |
| `fed`, `faults` | bounds only |

Every step is one remote call, or a run of local work around one. A lookup of the
producer and the send that follows are one step: the only other thread that
changes what is looked up is the one that deletes activations, and a delete
between the two is indistinguishable from a delete after both. The activation
put includes the schedule lookup for the same reason: nothing changes schedules
while the process runs. A call that fails after it took effect is the
successful step followed by the failing one.

The behaviour of Kafka is external and modelled from how it is configured here:
`acks=all` and `retries=0` mean that a record is written once, in order, or lost;
the application id without `auto.offset.reset` means that a consumer without a
commit starts at the beginning; Kafka Streams advances its position after
`process` returns, commits between records, and tries to commit once more when
its thread ends.

### StompSession and the code

| Variable | Code |
|---|---|
| `main` | how far the thread in `TrustMessagesStomp.subscribe` is, and later the owner in `Client.disconnect` |
| `receiver`, `interrupted` | the `Receiver` thread: at the head of its loop, asking `ready()`, about to ask `isClosed()`, in the endless read of a body the server broke off (nothing ends it: a stream at its end goes on returning -1 after the socket was closed), ended; and its interrupt flag |
| `connected`, `listening`, `queue`, `errors` | `_connected`, `_listeners`, `_queue`, `_errors` of `Stomp`. An error is its text or null, because the login loop takes a null for "no error" |
| `socket`, `peer`, `toServer`, `toClient` | both ends of the TCP connection and what is under way; a frame that the server's end cuts off is the frame `Cut` |
| `delivered`, `sent` | history: messages the listener was called with; messages the server has sent |

One step is one access to shared state: the two halves of the login loop's
condition, the registration and the command of `subscribe`, the three parts of
`disconnect` are steps of their own. A frame is read in one step, except when
the stream ends in it, or when this end was closed while only a part of it has been buffered. When the server's end goes away, the frames under way arrive
up to some point, the last of them perhaps in part. `_connected` is not volatile;
the loop that reads it takes a lock in every turn, so it sees the write.

### StompReceipts and the code

| Variable | Code |
|---|---|
| `pc`, `call` | where each thread is in `waitOnReceipt`, and in which call |
| `id`, `ms` | the receipt id of the call, which is the time in milliseconds (the hash code of the client is the same for all calls) |
| `monitor` | the holder of `_receipts`' monitor; `wait` releases it |
| `receipts`, `receiver` | `_receipts`, and the receiver thread between the `add` and the `notify` |
| `requests`, `answers`, `acked` | what is under way, and history: the ids the server has answered |

A call is one of three kinds: with a map of headers or without (`addReceipt`
writes into the caller's map only), `unsubscribeW`, or a wait with a timeout.
`commitW`, `subscribeW` and `sendW` differ in the command only. An `add` while
a thread iterates may make that thread fail: the list is not synchronized.

The two models are separate: receipts play no part in the session that feeds
the pipeline, and the session matters to the pipeline only by what it delivers,
which `TrainPipeline` takes as any sequence of batches.

### StompServer and the code

| Variable | Code |
|---|---|
| `subs`, `open`, `trans` | `_listeners`, and the keys and lists of `_transactions` |
| `subLock`, `txLock`, `inClient` | the owners of the monitors of these two maps, and the client threads in the monitor of their own `_listeners` (`Stomp.unsubscribe`) |
| `todo`, `left` | what a thread in `receive` still has to do: its request, or the rest of a replay, and the subscribers still to be called |
| `socket`, `granted`, `running` | the connection of a network client, its login, and whether its thread goes on |
| `got`, `receipts`, `aborted`, `nested`, `calls` | history and bound |

A step is what a thread does in one monitor, or one delivery. Entering a monitor
is a guard (`Free`): monitors are reentrant, and a replay inside a COMMIT enters
them again. Network clients get no receipts at all: the server addresses a RECEIPT
to `SocketHandler.receive`, which takes it for a request and hands it back to
the server; the comment at `Server.java:342-347` says otherwise.

### ReferenceData, Departures and the code

| Variable | Code |
|---|---|
| `script`, `files` | the step `create_ref_data.py` is at, and the files it has written |
| `map` | the three maps of Hazelcast: locations by stanox and by tiploc, schedules |
| `locJob`, `schedJob` | the two programs: lines not yet taken (`todo`), lines put in one map of two (`half`), and the outcome |
| `activation`, `movement` | what the movement process keeps in Hazelcast: here as the searches see it |
| `cache`, `shown` | `station.list` in the Play cache, and the last page |
| `since`, `seen` | history, for the age of the list |

`Departures` extends `ReferenceData`: the schedules that trains are activated
with are those an import left. A behaviour exercises the import or, from the
result of one, a search (`part`): the programs that import are run by hand before
the process, and the searches read no map that the import writes. The lists a
search collects are operators on an order of the map's values, and the
properties quantify over all of them.

### Search box and the code

The state of the box is one record `ta`; a handler is an operator from record to
record and an action is an event run through all handlers it triggers, because
nothing else runs in between in the browser. Answers of the engine come in later
actions, in any order, and keep the closure they were asked in (`pending`).
In `Bloodhound`, `index` is the trie, `remote` the transport with its limiter
and its pool, `lru` the cache with the links of its nodes, `pre` the prefetch
with the browser's storage. The box and the parts of the engine meet only in a
query and its suggestions, so `SearchBox` lets a behaviour exercise one of them,
with the other as it was made.

### The widgets and the code

Each widget is a record variable with the classes, handlers and flags its code
keeps, the timers it has set and the animations that run; the code's closures
over `this` are its fields. An action is one event with everything it triggers,
one timer, or one completion. `page` is chosen at the start: widgets that touch
the same state (modals and navigation: the body's scroll lock; modals and image
box: the Escape key) are on one page, the others on one each, because nothing
passes between them. Some flags appear in properties as exemptions, each for a
case TLC found and the code does not handle (`ta` and `pre` are the search box's):

| Exemption | What the code does then |
|---|---|
| `waves.several` | `hide` fades the last ripple, whoever's it is: two pointers leave one behind |
| `slider.hasty`, `items.together` | flags shared by all slides or items (`swipeLeft`, `swipeRight`) are read by another gesture |
| `range.strayed` | `mouseup` is not heard outside the range, which stays pressed |
| `range.keyed` | a key's `input` event sets `range_mousedown` (`materialize.js:2849`), which only a `mouseup` would clear, and grows a thumb without the class by which it shrinks |
| `nav.pushed` | `menuOut` is set when the opening animation is over, and not when a menu was flung open from before its middle: a resize to a narrow window (`2070-2077`) slides such a fixed menu out and leaves the lock, and so may giving back its place while it opens again. (An animation that still runs brings the menu back with its next frame; after a fling it has ended) |
| kind `missing` | a button without its menu locks the page under an overlay and nothing else |
| `field.restored` | a form's reset gives the field the text of its attribute back and leaves the label that was down (`2681`) |
| `TipShift` | a tooltip beside its origin is moved away from it by 10 pixels (`1428`, `1444`, `1482`) after its place was corrected |
| `fire.threw` | a callback that throws leaves `didScroll` and the rest of the list undone |
| `Throws` (search box) | a text that is no regular expression, here one with a parenthesis, makes the matcher throw (`ld.js:9`) in the middle of an update: the menu keeps the suggestions of the query before, the input its hint, until the next update or change of the text |
| `ta.unasked` | after a suggestion was picked, a blank typed in front of it opens the menu (`open`) without an update: it shows the items of the query before |
| `pre.overlap` | a second request of one page stores what the first fetched, under its own time |
| `pre.relabelled` | the storage refuses the data with an error that is not `QuotaExceededError`: it keeps the old data and takes the new thumbprint and time (`typeahead.js:285`, `575-577`) |
| `picker.moved` | limits or disabled dates set later move the selection; the inputs keep the old date |
| `picker.kept` | a picker started on a date the limits exclude selects the nearest, and the input goes on showing its own until another is chosen |
| `select.shift` | under a heading the index of a row serves as that of an option (`toggleEntryFromArray`): the script's values name the wrong options |
| `InTextOrder` | ids that `identify` makes numbers are sorted as texts (`typeahead.js:528`) and compared as numbers: with ids of different lengths the walk may pass a datum that both words lead to |
| `picker.stray` | with no enabled date left the highlight is wherever the walk ended, and the view may not follow it |
| `picker.hasty` | stopping a picker unbinds in a timeout (`4136`) and takes the handlers of a picker started meanwhile |
| `picker.resized` | the padding taken back is the scrollbar's width of now |
| `lru.rehit` | a head that was moved to the front keeps the link of its former place (`moveToFront`); moved there again it is linked to itself, or puts an evicted node in its place. A cleared cache begins anew |
| `carousel.midway` | `carouselNext` adds to the offset of the moment, so it comes to rest between two images |
| `drop.byEvent` | a menu opened by the event `open` binds no handler to the document |

A date is a number, months have a few days and weeks three; `Calendar` keeps the
arithmetic (a short month takes its last day, weekdays repeat, the walk of
`validate` turns at limits). `DateSelectionAgrees` is stated where `validate` can
succeed (`CanSettle`): it looks for no range when the base is flipped. That a
date written to an input is read back as itself is `FormatAssumption`: an
assumption on the formats of the settings, which TLC evaluates for the ones of
the run. It fails for `yy` (read as a year of the 1900s) and for `d` before a digit.

## 3. What is checked

| Run | Properties | Result |
|---|---|---|
| `pipeline_safety` | `TypeOK`, `ViewReflectsLog`, `NoRecordSkipped`, `PoisonBlocksTopic`, `RefinesReplayedView` | hold |
| `pipeline_liveness` | `ViewCatchesUp`, `StaleEntriesLeave` | hold |
| `movement_sweep` | `EvictsOnlyStaleMovements` | violated: a finding |
| `session` | `NoMessageQueued`, `DeliveredInOrder`, `SubscribesOnlyWhenGranted`, `AnswerEndsLogin`, `SentIsDelivered`, `DisconnectStopsReceiver` | hold |
| `session_lost` | `ConnectedIsCurrent` | violated: a finding |
| `receipts` | `ReturnsAfterAnAnswer`, `CallEnds` | hold |
| `receipts_lost_wakeup` | `ReceiptEndsWait` | violated: a finding |
| `stomp_server` | `CommittedOnly`, `InOrderOnce`, `DeliveredToSubscribers`, `CommitConfirms`, `CallsReturn` | hold |
| `departures` | `TiplocHasStanox`, `ImportComplete`, `SearchesAnswer`, `StationsFresh` | hold |
| `schedules_done` | `DoneIsComplete` | violated: a finding |
| `search_box` | `ItemsOfQuery`, `HintExtendsInput`, `InputOfMenu`, `SearchFindsPrefixes`, `TransportSound`, `PrefetchSound`, `LastSearchAnswered` | hold |
| `widgets` | `OverlaysLeaveNothing`, `ScrollLockHasOwner`, `OneMenuOpen`, `SelectionAgrees`, `ShownAsAsked`, `PointersAnswered`, `ScrollAnswered`, `TextReadable`, `WidgetsSettle` | hold |

### Pipeline runs

- `pipeline_safety`. Two trains, four messages in batches of up to two, a known
  and an unknown location, two ticks, two crashes or failures. Four messages are
  an activation, a movement and an arrival of one train plus one of either kind
  of another; two faults let a crash fall into the replay of an earlier crash.
  The refinement of `ReplayedView` is checked in the same run. Trains are
  symmetric, in the properties too, and none of them is a liveness property.
- `pipeline_liveness`. Three messages, two faults, `FairSpec`.
- `movement_sweep`: a sweep takes its snapshot, the stream thread stores a new
  movement of the same train, and the sweep evicts it by its key.

The sweep of activations compares a departure with the time of day
(`HzTrainActivationRepo.java:47-51`), so that in the evening a train departing
after midnight counts as departed; `TimeOfDay` and `StaleActivations` keep that
wrap, and every run has these early evictions.

These runs set `CHECK_DEADLOCK FALSE`: within the bounds the process may really
stop (stream thread dead, both cleanup tasks disabled, no message left).

Fairness (`FairSpec`): the stream thread takes its next record or its second
delete when it can (Kafka Streams' run loop), and the scheduler thread starts
the task that is due and finishes it (`scheduleAtFixedRate`). The feed, the
broker, crashes and restarts are not fair: nobody restarts the process. The
liveness properties therefore assume, as their premise, that the process stays
up and the thread concerned alive from some point on.

The period of the cleanup (three minutes) is not modelled: a sweep may start at
any moment, which only adds behaviours. The two tasks have the same period and
one thread, so they alternate (`turn`); this is what keeps one from starving the
other.

### STOMP runs

- `session`. Three messages: one that has been delivered, one in the receiver's
  hands and one under way are all a one-at-a-time receiver can tell apart.
- `session_lost`. The server goes away; the receiver polls `ready()` for ever
  (or hangs in a cut body), and `_connected` stays true. TrainWatch has no other
  way to notice: the map of trains just stops changing.
- `receipts`. Two threads, two calls each of any kind, two milliseconds: enough
  for a call to meet a receipt of an earlier call of its own, of another call
  with its id, and a race with the receiver; whatever the order of request,
  `add`, look, `wait` and `notify`, a thread that waits alone is woken.
- `receipts_lost_wakeup` is the other side of `notify`: with two waiters it may
  wake the wrong one. `CallEnds` says that only a timeout makes up for it.
- Three kinds of call do not do what their comments say, and the model has them:
  `subscribeW`, `commitW` and `sendW` called without headers never send their
  request for a receipt (`~Asks`; Stomp.java:249 puts it into a map of its own) and wait for
  ever; so does `unsubscribeW(name, header)`, which sends no headers at all; and
  `unsubscribeW(name)` does not wait (`~Waits`). That follows from a line each,
  so no property says it: `CallEnds` is about calls that ask, among which these
  take part as waiters that may be given the wakeup. Two calls in one millisecond share a receipt id, which is
  why `ReturnsAfterAnAnswer` speaks of the id and not of the call.

These runs set `CHECK_DEADLOCK FALSE`: a session and a call end.

Fairness. The subscribing thread and the receiver run on (Java threads that are
not blocked), and an owner that has begun a disconnect finishes it; nobody has to
begin one. The feed's server owes nothing, so the liveness properties start from
what it has done. For the receipts, the server answers and the receiver goes on;
a thread that competes for the monitor gets it in the end (strong fairness of
`Enter` and `Notify`, because others may hold the monitor in between), and a
timeout passes.

### Server, import, search box and widgets

- `stomp_server` (some 535,000 states). A sender with transactions, a subscriber
  in the machine, a network client with transactions of its own; five calls in
  all: BEGIN, SEND, COMMIT of one against SUBSCRIBE and UNSUBSCRIBE of another is
  five, and so is a nested transaction. `MCMay` leaves out requests that repeat
  another client's part. `CallsReturn` excepts one state, `Embrace`: a client
  takes its last listener off a channel while a message is being delivered to it,
  and each thread holds what the other waits for. TLC reaches it. Its premise is
  that each network client that stops reading reads again or goes away: a
  delivery is a blocking write with `_listeners` held, so one that never does
  keeps every call waiting. The property says there is no third way.
- `departures` (some two million states). Three tiplocs, of which two share a
  stanox on the first day and one has none; a bad line, a crash and a third start.
  Three trains against a limit of two, one schedule without an origin, delays on
  both sides of a window's edge, a clock of three units with an expiry of two.
  `ImportComplete` says of the two programs what is true of each: success of the
  locations program means that its file is in both maps; the schedules program
  reports success after an exception that ended it too, so for it only a success
  without a logged exception means that.
- `schedules_done`: the stronger statement that the program's own messages make;
  a line that does not parse ends the population, and "Done populating" follows.
- A search of a station throws when it comes across a train whose schedule has no
  origin before it has found as many as the limit; `SearchesAnswer` says that
  this is the only way it does not answer.
- `search_box` (some 290,000 states). Three suggestions known at once and three
  later, one in both, and a limit of three that both together exceed; a query
  with blank and dot, and one with a parenthesis, on which the substring matcher
  throws; two answers under way. The trie with three data of two
  tokens each, with ids that are strings or the numbers 1, 2 and 10, added up to
  four times, against its definition for all queries of
  two words. One request at a time, a cache of two and three keys, so that it
  evicts, and five searches, enough to hit the head twice; two deployments, a time
  to live of one in a clock of three, and a storage that is refused, full, or takes
  all, nothing, or everything but the data.
- `widgets` (some 441,000 states). Two of what can disturb each other: modals,
  menus, boxes, fingers; three of what has a neighbour on both sides: panels,
  slides, images. The calendar has eight dates of three months, six of them
  within the limits, and up to two units disabled of a weekday, a date and two
  ranges that overlap. Select boxes of two options, none or one of them disabled
  (`DisabledSets`), with any of them selected at the start, with and without a
  heading; a tooltip that is moved by two units (`TipShift`) of a window of twelve.

`CHECK_DEADLOCK FALSE` where the system may stop: clients may have made all their
calls or embraced, the programs end, a page may have used its bounds (a toast is
shown once). In `search_box` there is always something left to do, and deadlock
is checked.

Fairness. `StompServer`: a thread that has begun a request and can go on does (weak
fairness of each thread; the calls are bounded, so a monitor is not taken away
for ever); nobody has to make a call, and no client has to read (`CallsReturn` states that as its premise). `Bloodhound`: requests under way are answered or fail, and
limiters' timers fire. Widgets: timers fire and animations complete; the user and
the page owe nothing. `LastSearchAnswered` excepts behaviours in which a request
waited on deck (`crowded`): it re-enters through the limiter, replaces the last
search there and may be dropped itself.

## 4. What is proved

`TrainPipelineProofs`, for all values of the constants that satisfy the three
assumptions of `TrainPipeline` (sizes are naturals, departures are times of a
non-empty day, known locations are locations):

| Theorem | States |
|---|---|
| `TypeCorrect` | `Spec => []TypeOK` |
| `ViewIsBacked` | `Spec => []ViewReflectsLog` |
| `CommittedIsApplied` | `Spec => []NoRecordSkipped` |
| `PoisonBlocks` | `Spec => []PoisonBlocksTopic` |
| `PipelineImplementsReplayedView` | `Spec => RefinesReplayedView` |

The other proof modules, each for all values of its specification's constants
that satisfy its assumptions:

| Module | Theorem | States | Inductive invariant |
|---|---|---|---|
| `StompSessionProofs` | `SessionTypeCorrect` | `Spec => []TypeOK` | `SessionInv` |
| | `NothingQueued` | `Spec => []NoMessageQueued` | |
| | `DeliveryInOrder` | `Spec => []DeliveredInOrder` | |
| | `SubscriptionGranted` | `Spec => []SubscribesOnlyWhenGranted` | |
| `StompReceiptsProofs` | `ReceiptsTypeCorrect` | `Spec => []TypeOK` | `ReceiptsInv` |
| | `ReturnMeansAnswer` | `Spec => []ReturnsAfterAnAnswer` | |
| `StompServerProofs` | `NothingUncommitted` | `Spec => []CommittedOnly` | `ServerInv` |
| | `ReceivedInOrder` | `Spec => []InOrderOnce` | |
| | `AllSubscribersServed` | `Spec => []DeliveredToSubscribers` | |
| | `ReceiptMeansCommitted` | `Spec => []CommitConfirms` | |
| `DeparturesProofs` | `TiplocsHaveStanox` | `Spec => []TiplocHasStanox` | `ImportInv` |
| | `SuccessIsComplete` | `Spec => []ImportComplete` | |
| | `StationsStayFresh` | `Spec => []StationsFresh` | `SiteInv` |
| | `SearchesAreAnswered` | `Spec => []SearchesAnswer` | `SearchInv` |
| `SearchBoxProofs` | `HintContinues` | `Spec => []HintExtendsInput` | `BoxInv` |
| | `MenuOfInput` | `Spec => []InputOfMenu` | `BoxInv` |
| | `ItemsAnswerQuery` | `Spec => []ItemsOfQuery` | `BoxInv`, `ItemsSound` |
| | `SearchIsExact` | `Spec => []SearchFindsPrefixes` | `IndexSound` |
| | `PrefetchIsSound` | `Spec => []PrefetchSound` | `PreSound` |
| | `TransportIsSound` | `Spec => []TransportSound` | `PoolInv`, `LruOk` |
| `WebPageProofs` | `OverlaysAreRemoved` | `Spec => []OverlaysLeaveNothing` | `ModalInv`, `BoxInv` |
| | `LocksHaveOwners` | `Spec => []ScrollLockHasOwner` | `ModalInv`, `NavInv`, `LockInv` |
| | `MenusTakeTurns` | `Spec => []OneMenuOpen` | `DropInv`, `SelectInv` |
| | `PointersAreAnswered` | `Spec => []PointersAnswered` | `WavesInv`, `RangeInv`, `ItemsInv` |
| | `TextsAreReadable` | `Spec => []TextReadable` | `FieldInv`, `TipInv` |
| | `WidgetsShowWhatWasAsked` | `Spec => []ShownAsAsked` | `ShownInv`: one invariant for each widget |
| | `ScrollIsAnswered` | `Spec => []ScrollAnswered` | `SpyInv`, `FireInv`, `PinInv`, `ParallaxInv` |
| | `SelectionsAgree` | `Spec => []SelectionAgrees` | `SelectInv`, `OptionsInv`, `DateInv` |

So every invariant that a passing run checks is proved for all instances. TLC has
checked the inductive invariants on the instance of the run whose properties they
imply, with the quantifiers of `IndexSound` (all tokens) and `LruOk` (all chains of
nodes) restricted to the tokens and nodes of the instance. `SearchInv` is the one
that needs no strengthening: that the two maps are finite and their times
numbers; all the rest of that theorem is about what the searches compute.

Loops, folds and sorting. What a loop computes is proved without an induction
theorem: the numbers at which a fact about the loop fails form a set, and a
non-empty set of naturals has a least element (`LeastNumber`, from the library's
well-founded orders), hence `StepByStep`. A recursive function and a fold of the
library are each chosen among the functions with their equation; `LoopRuns` and
`FoldExists` show that there is one, and `StepByStep` what it is at every place.
Orders are sets of pairs and a sorted sequence is made of ranks (`Ranks`), so that
`SortedTheorem` is a matter of cardinalities: the rank is one-to-one into the
first numbers, and so reaches all of them (`InjectionReaches`).

The argument. Lemma `StepKinds` sorts the steps by what they do to the topic, the
view and the stream thread, so that later proofs have eight cases. `TypeOK` is
not inductive: `DeleteActivation` advances the position without looking whether
there is a record, and a restart moves it back to the commit. `TypeInv` adds
`Deleting` (between the two deletes the thread is at an arrival and the map does
not show its train) and `CommitBehind` (`committed <= position`). With it
`ViewReflectsLog` is inductive: a record keeps backing an entry until a record
of the same train is processed (`StillBacks`), a restart only shrinks the range
of processed records, and the position passes an arrival only when `Deleting`
says that the entry is gone. `NoRecordSkipped` is strengthened to
`PositionApplied` (everything behind the position, not only behind the commit).
The refinement maps the topic, the position and the movement map to the
abstract log, cursor and view; the first delete of an arrival is a `Hide`, and
the second is the `Deliver`, which by `Deleting` finds nothing to remove.

**Session.** `DeliveredInOrder` speaks of the past only; what makes it inductive is
`InTransit`: the frames under way go on exactly where the listener is, an answer
to the login may stand only at the head and a cut frame only at the end. It holds
while the receiver reads; after that nothing is delivered. `NoMessageQueued`
needs the chain behind a message: it is under way only if the server holds the
subscription, which it holds only if the command was sent, which is sent only
after the listener was registered (`Listens`); `Grants` is the same chain for the
login, through the flag that one thread writes and another polls.

**Receipts.** An id that is in the list, or in an answer under way, has been answered
(`ReceiptsAreAnswers`). Type correctness carries the mutual exclusion: the monitor
is held by a thread that is in it (`None` is no thread: `NobodyAssumption`).

**Server.** Requests are numbered by the call that made them, and what proves the
order is a total order of a client's requests: what its transaction has queued
comes before what its thread still has to receive (`Queue`), and what any client
has got comes before both (`Passed`), except for the message that is being
delivered. Nothing follows the end of a transaction (`Before`); a replay leaves
no transaction open unless one was begun inside another (`Replay`, and the
history variable `nested` that excepts it). That the number of clients is at most
12 is part of `ServerAssumption`: the map of transactions is read without its
monitor, and below 13 entries it does not move.

**Import and pages.** A line of a file is still to be taken, put in one map, or in
both (`StanoxPut`, `TiplocPut`), whatever other program runs and whenever a
program dies and starts again on another day's file; a key is overwritten only
by a line with the same key. For `StationsFresh` the history variables `since` and
`seen` are shown to mean what their names say (`Tracked`), and a cached list was
true when it was made (`CacheHonest`), so it is wrong for at most one `Expiry`,
which has to be positive: an expiry of 0 is none for the cache. For `SearchesAnswer`
an order of a map's values is a listing of its keys; the live search is a stable
sort of it, of which it shows the first (`SortedMovements`), the departures are
the first of those that are due, sorted (`EarliestFacts`).

**Search box.** Every handler has a lemma that says which fields it leaves alone
(`Agree`) and what it leaves behind, every event composes them. The hint needs
what lower-casing and the search for a query in a suggestion preserve; the menu
needs that the cursor is on an item of an open menu (`CursorOk`), because closing
the menu puts the query back into the input. `ItemsSound` is about late answers: only
the last update asked for can be uncanceled, and it is of the query the menu
was asked for, so that an answer that comes now is for that query, and what is
rendered counts against the limit. `MarkedUpTo` says what a loop of `highlight`
has marked. `InputOfMenu` was first stated
without `unasked` and is not true so: see the table of exemptions.

**Engine.** `PreSound` covers the entries in the browser's storage as well as the
index: an entry holds what was fetched under its own thumbprint. `PoolInv`: the
counter that all transports share is the number of requests under way, and a
search on deck waits behind one. `IndexSound`: a node of the trie holds the ids
of the data added of which a token begins with the node's, and no other. What a
search returns then rests on `AdvanceFinds`: a walk along two arrays collects only
what is in both, and along arrays sorted as they compare whatever is in both is
either collected or still ahead. `LruOk`: there is a
chain of nodes from head to tail, linked both ways, that are those of the hash
and within the capacity; adding, removing and moving to the front change the
chain at one end or join its two halves (`ListAddKeeps`, `ListRemoveFields`). Only
the head's link backwards is free, and that is what goes wrong at the second
move (`lru.rehit`).

**Widgets.** Lemma `PageSteps` says what a step of the page is to each widget: one of
its own actions, or nothing. Each invariant is then a matter of one widget, but
for the scroll lock, which three share. `ModalInv`: the overlays of open windows
are distinct and not above the last id given, so that a new window takes no
other's overlay, and closing removes the handlers of its own. `NavInv`: the
menu is given its place back only if it is a fixed one. `LockOf`: only a picker that is
started is open or has a timeout that may open it, so that stopping leaves
nothing to unlock. `SelectInv` relates both boxes: one has its list open or the
focus only when the other has neither. `WavesInv`: a finger that is on the page or left
less than 500 ms ago is counted, and one ripple runs at most, the last, unless
two pointers met. `RangeInv`: until a key or a stray pointer comes between, the
thumbs that are grown have the class, and the flag is set only while the button is
down on a range. `ItemsInv`: with one finger at a time the flags that all items
share are those of the item under it. The tooltip's part (`TipInv`)
keeps the margin within what its position allows and assumes that a
tooltip fits the window with 4 pixels to spare (`FeedbackAssumption`). `FieldInv`: a
label is down over a text only if a reset has just restored it.

What is shown. `CarouselInv`: a carousel that is neither pressed nor was sent on from
between two images is on an image, or heads for one until its last frame
(`HeadsForImage`); that a click ends on the image clicked, whichever way round, is
`DifferenceReaches`, from the uniqueness of quotient and remainder (`Unique`).
`SliderInv`: unless the user was hasty, the slide that is swiped out is not the
active one, and no touch holds a slide while one is swiped out. `FabInv`: the last
animation queued is what was asked for. `ShowInv` says the same of the picker's
timeouts (`ShowsLast`: the last of those that show or hide), and that a started
picker can be opened or has the timeout that binds its handler; `FirstTimerActs` and
`MarkAppended` are the two lemmas about the queue the steps need.

What is scrolled. `SpyInv`: the row of visible sections is the set of those in
view, the first of them is lit, and a scan is owed (a timer set) whenever the
position was not yet looked at (`ScanOwed`). Entering and leaving are folds over
the sections that came and went, whose order the code takes from two sorts.
`ParallaxInv` bounds the shift of the image by what it exceeds its frame, which
is a fact about division.

What is chosen. `OptionsInv`: in a select box of several options the script's values,
the selected options that are not disabled and the marked rows are one set, whatever opens and closes
the lists, while no heading shifts the rows. `DateInv`: the date selected is enabled where one is, and the inputs
hold it. It rests on `SettleFinds`: the walk of `validate` ends, at an enabled date
if there is one between the limits. A measure (`TurnsLeft`) falls at every turn, in
long steps until the month is left, in single ones to a limit and then to the
other; it never exceeds `MostTurns`, the bound that the model gives the loop, so
the bound cuts no walk off.

Not proved:

- liveness properties, only model-checked: fairness and ENABLED are out of the prover's reach; the four
  violated properties: TLC has the counterexamples;
- that the fairness stated is no stronger than the scheduling of the code: argued in
  section 3, checked by no tool;
- `FormatAssumption` is an assumption of the proofs about the page, which TLC
  evaluates for the formats of the run.

`TypeOK` of `StompSession` and of `StompReceipts` says what their variables range
over; no run spends itself on it, the proofs do.

## 5. Not modelled

- Formatting, headcodes and coordinates: data no property looks at. The date
  picker's formats are modelled, because a date must be read back.
- Topic retention: the topic is never truncated.
- Time zones: the feed's times are UTC and the cleanup uses the host's clock; the
  model has one clock.
- The current web application serves one static page that loads a later release
  of the widget library and uses none of it. `typeahead.js` and `materialize.js`
  are libraries kept in the repository and served by the archived pages; they are
  modelled because they hold most of what runs in the browser. No page of the
  repository calls the date picker or the carousel; characterCounter runs on
  every page.
- Of `materialize.js`: the jQuery, animation and touch libraries minified at its
  head, textarea resizing, radio buttons' keys, touches on a range input (two
  fingers would share its one flag), times in pixels and milliseconds beyond the
  order they impose. What a letter finds in a select box is any of its rows.
- Of `typeahead.js`: building and restoring the elements, the event emitter's
  queue, several data sets in one menu, the encoding of what is stored, parsing of options.
- The operations scripts and diagnostic programs: no state of the system.
- STOMP client: unsubscribing and reading the queue, error listeners, several
  channels or listeners in one session, `clearReceipt` and `clearReceipts`;
  TrainWatch uses none of them. The server's `FileQueue` is empty methods.
- The composition of `StompSession` with the producer: a batch is one message,
  and `TrainPipeline` already takes any sequence of batches.

## 6. Plan

Done: the pipeline with its abstract view and proofs; the STOMP client's session
and receipts, the STOMP server, the import and the searches, the search box and
the widgets, model-checked, and proofs about each of them.
Next, in this order:

1. Touches on range inputs and the keys of radio buttons.
2. Several data sets in one menu of the search box.
3. Unsubscribing, and several channels, in `StompSession`, should TrainWatch come
   to use them; a composition with `TrainPipeline` then says more than now.
4. That `Spec` with fairness implies the liveness properties, should the provers
   come to handle fairness.
