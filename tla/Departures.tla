----------------------------- MODULE Departures -----------------------------
(***************************************************************************)
(* The searches of HzTrainWatchSearch over the maps that the movement      *)
(* process keeps, and the pages of the archived Play application that show *)
(* them, with the list of stations cached for some minutes.  A behaviour   *)
(* exercises the import of ReferenceData or, from its result on, the       *)
(* searches for departures or those for delayed trains, which read other   *)
(* maps.                                                                   *)
(***************************************************************************)
EXTENDS ReferenceData, SequencesExt, Ranks

CONSTANTS Parts,        \* of "import", "departures" and "delays"
          Trains,       \* those activated, and those that move
          Movers,
          Times,        \* bound: scheduled times of departure
          Delays,       \* bound: delays in minutes
          Hour,         \* the units of time in an hour
          Expiry,       \* how long station.list is cached
          MaxResults,
          MaxTime       \* bound of the clock

ASSUME SiteAssumption == /\ Times \subseteq Nat /\ Delays \subseteq Int
                         /\ Hour \in Nat /\ Expiry \in Nat \ {0}
                         /\ MaxResults \in Nat /\ MaxTime \in Nat

VARIABLES part, now,
          activation,   \* trainActivation: schedule and wtt of a train
          movement,     \* trainMovement: delay and timestamp of a train
          cache,        \* station.list: {} or its value and expiry
          shown,        \* the stations listed on the last page, and when
          since, seen   \* when a train from a station was first, without a
                        \* gap, and last active (-1: never)

siteVars == <<activation, movement, cache, shown, since, seen>>
vars == <<refVars, part, now, siteVars>>

\* The maps after the extract of day d has been imported.
Imported(d) ==
  LET locations == Locations(d)
      joined == Joined(locations, d)
  IN /\ files = [raw |-> d, locations |-> locations, joined |-> joined, with |-> locations]
     /\ map = [schedule |-> [key \in {s.key : s \in joined} |->
                              CHOOSE s \in joined : s.key = key],
               tiploc |-> [t \in {l.tiploc : l \in locations} |-> Located(locations, t)],
               stanox |-> [x \in {l.stanox : l \in locations} |->
                             CHOOSE l \in locations : l.stanox = x]]

Init ==
  /\ part \in Parts /\ now = 0
  /\ IF part = "import" THEN RefInit
     ELSE /\ day \in DOMAIN Feeds /\ Imported(day)
          /\ script = "idle" /\ locJob = JobIdle /\ schedJob = JobIdle /\ starts = 0
  /\ activation = <<>> /\ movement = <<>> /\ cache = {}
  /\ shown = [stations |-> {}, at |-> -1]
  /\ since = [t \in Tiplocs |-> -1] /\ seen = [t \in Tiplocs |-> -1]

-----------------------------------------------------------------------------
(* The searches.  values() comes in no order: an order is a permutation.   *)

Origins(acts) == {acts[t].schedule.origin : t \in DOMAIN acts}

\* listStations: a train whose schedule has no origin breaks it.
StationsFail == NoLocation \in Origins(activation)
ListStations == {l.tiploc : l \in Origins(activation)}

DelayWindow(delay) ==
  IF delay <= 5 THEN "upTo5mins" ELSE IF delay <= 15 THEN "from5to15mins"
  ELSE IF delay <= 30 THEN "from15to30mins" ELSE "over30mins"

\* Mutant: the earliest first.
Earlier(s, t) == movement[s].timestamp < movement[t].timestamp

\* TrainMovement.compareTo: the latest first.
Later(s, t) == movement[s].timestamp > movement[t].timestamp

\* Sorted, grouped by their windows, and the first of each.
DelayedTrains(order, window) ==
  LET all == DOMAIN order
      later == {p \in all \X all : Later(order[p[1]], order[p[2]])}
      sorted == Sorted(all, Stable(all, later))
      in == {k \in all : DelayWindow(movement[order[sorted[k]]].delay) = window}
      places == Ascending(FirstPlaces(in, MaxResults))
  IN [k \in DOMAIN places |-> order[sorted[places[k]]]]

\* departuresWithinOneHour: what is due at most so many hours from now, at all
\* or from one station.
DueWithin(hours) == {t \in DOMAIN activation : activation[t].wtt < now + hours * Hour}
DueAt(t0) == {t \in DueWithin(1) : activation[t].schedule.origin.tiploc = t0}

\* The limit comes before the sorting.
EarliestFirst(order, due) ==
  LET limited == FirstPlaces({i \in DOMAIN order : order[i] \in due}, MaxResults)
      earlier == {p \in limited \X limited :
                    activation[order[p[1]]].wtt < activation[order[p[2]]].wtt}
      sorted == Sorted(limited, Stable(limited, earlier))
  IN [k \in DOMAIN sorted |-> order[sorted[k]]]

\* The search for all stations looks three hours ahead, and at no origin.
AllDepartures(order) == EarliestFirst(order, DueWithin(3))

\* That for one station asks each train it comes across for the description of its
\* origin, before the time; a train without an origin breaks it, unless as many as
\* the limit were found before.
DeparturesFail(order, t0) ==
  \E i \in DOMAIN order :
    /\ activation[order[i]].schedule.origin = NoLocation
    /\ Cardinality({j \in DOMAIN order : j < i /\ order[j] \in DueAt(t0)}) < MaxResults

DeparturesOf(order, t0) == EarliestFirst(order, DueAt(t0))

-----------------------------------------------------------------------------
(* The movement process, as the maps show it, and the site.                *)

\* since and seen follow the activations.
Track(acts) ==
  LET at == {l.tiploc : l \in Origins(acts)}
  IN /\ since' = [t \in Tiplocs |-> IF t \notin at THEN -1
                                    ELSE IF since[t] = -1 THEN now ELSE since[t]]
     /\ seen' = [t \in Tiplocs |->
                   IF t \in at \cup {l.tiploc : l \in Origins(activation)} THEN now
                   ELSE seen[t]]

Activate(t, key, wtt) ==
  /\ part = "departures" /\ key \in DOMAIN map.schedule
  /\ activation' = Put(activation, t, [schedule |-> map.schedule[key], wtt |-> wtt])
  /\ Track(activation')
  /\ UNCHANGED <<refVars, part, now, movement, cache, shown>>

Deactivate(t) ==
  /\ part = "departures" /\ t \in DOMAIN activation
  /\ activation' = [s \in DOMAIN activation \ {t} |-> activation[s]]
  /\ Track(activation')
  /\ UNCHANGED <<refVars, part, now, movement, cache, shown>>

Move(t, delay) ==
  /\ part = "delays"
  /\ movement' = Put(movement, t, [delay |-> delay, timestamp |-> now])
  /\ UNCHANGED <<refVars, part, now, activation, cache, shown, since, seen>>

Tick ==
  /\ part \in {"departures", "delays"} /\ now < MaxTime
  /\ now' = now + 1
  /\ seen' = [t \in Tiplocs |-> IF since[t] # -1 THEN now + 1 ELSE seen[t]]
  /\ UNCHANGED <<refVars, part, activation, movement, cache, shown, since>>

\* Mutant: the cached list does not expire.
LiveDeparturesStale ==
  /\ part = "departures"
  /\ cache = {} => ~StationsFail
  /\ cache' = IF cache # {} THEN cache
              ELSE {[stations |-> ListStations, until |-> now + Expiry]}
  /\ shown' = [stations |-> UNION {c.stations : c \in cache'}, at |-> now]
  /\ UNCHANGED <<refVars, part, now, activation, movement, since, seen>>

\* AppController.liveDepartures: the cached list while it lasts; a search that
\* fails is an error page and caches nothing.
LiveDepartures ==
  /\ part = "departures"
  /\ LET valid == {c \in cache : now < c.until}
     IN /\ valid = {} => ~StationsFail
        /\ cache' = IF valid # {} THEN cache
                    ELSE {[stations |-> ListStations, until |-> now + Expiry]}
        /\ shown' = [stations |-> UNION {c.stations : c \in cache'}, at |-> now]
  /\ UNCHANGED <<refVars, part, now, activation, movement, since, seen>>

Next ==
  \/ part = "import" /\ RefNext /\ UNCHANGED <<part, now, siteVars>>
  \/ \E t \in Trains, wtt \in Times : \E key \in DOMAIN map.schedule : Activate(t, key, wtt)
  \/ \E t \in Movers, delay \in Delays : Move(t, delay)
  \/ \E t \in Trains : Deactivate(t)
  \/ Tick \/ LiveDepartures

Spec == Init /\ [][Next]_vars

-----------------------------------------------------------------------------
(* Properties *)

Orders(trains) == {o \in [1..Cardinality(trains) -> trains] : IsInjective(o)}

\* Each movement is in one window only, and left out of it only for as many
\* later ones as a window holds, whatever order the map lists them in.
LatestShown ==
  \A order \in Orders(DOMAIN movement) :
    LET windows == {"upTo5mins", "from5to15mins", "from15to30mins", "over30mins"}
        of(t) == {w \in windows : t \in ToSet(DelayedTrains(order, w))}
        same(t) == {s \in DOMAIN movement :
                      DelayWindow(movement[s].delay) = DelayWindow(movement[t].delay)}
    IN \A t \in DOMAIN movement :
         /\ of(t) \subseteq {DelayWindow(movement[t].delay)}
         /\ of(t) = {} => Cardinality({s \in same(t) \ {t} :
              movement[s].timestamp >= movement[t].timestamp}) >= MaxResults

\* Up to the limit, all that is due, in the order of its departure.
Lists(result, due) ==
  /\ ToSet(result) \subseteq due /\ IsInjective(result)
  /\ Len(result) = IF Cardinality(due) < MaxResults THEN Cardinality(due) ELSE MaxResults
  /\ \A i, j \in DOMAIN result :
       i < j => activation[result[i]].wtt <= activation[result[j]].wtt

\* A search for departures lists them, or throws: that for one station, and only
\* while a train without an origin is active, which it would not list.
DeparturesInOrder ==
  \A order \in Orders(DOMAIN activation) :
    /\ Lists(AllDepartures(order), DueWithin(3))
    /\ \A t0 \in Tiplocs :
         IF DeparturesFail(order, t0) THEN NoLocation \in Origins(activation)
         ELSE Lists(DeparturesOf(order, t0), DueAt(t0))

\* What the searches leave out they leave out for want of room, in whatever
\* order the maps list their values; one that does not answer was broken by a
\* train without an origin.
SearchesAnswer == LatestShown /\ DeparturesInOrder

\* A page lists a station for no longer than the cache lasts after its last
\* train has gone, and misses one for no longer after its first train came.
StationsFresh ==
  shown.at = now =>
    /\ \A t \in shown.stations : now - seen[t] < Expiry
    /\ \A t \in Tiplocs \ shown.stations : since[t] = -1 \/ now - since[t] < Expiry
=============================================================================
