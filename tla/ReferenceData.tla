--------------------------- MODULE ReferenceData ---------------------------
(***************************************************************************)
(* The reference data: the scripts of tw-ref-data/tools turn the daily     *)
(* extract of Network Rail into files of locations and of schedules joined *)
(* with them, and two programs populate the maps of Hazelcast from these,  *)
(* line by line and in parallel.  Either may die or meet a bad line.       *)
(***************************************************************************)
EXTENDS Integers, Sequences, FiniteSets, Functions

CONSTANTS Tiplocs,      \* timing points
          NoStanox,     \* a tiploc without stanox
          Feeds,        \* the extract of each day: [stanox, schedules], where
                        \* a schedule is [key, origin, passenger, recent]
          MaxStarts     \* bound: starts of the two programs

ASSUME FeedsAssumption ==
  /\ MaxStarts \in Nat
  /\ \A d \in DOMAIN Feeds :
       /\ DOMAIN Feeds[d].stanox = Tiplocs
       /\ \A s \in Feeds[d].schedules : s.origin \in Tiplocs

VARIABLES day,          \* the extract that Network Rail publishes
          script,       \* where create_ref_data.py is
          files,        \* what it has written: raw is the day of the extract,
                        \* with the locations that joined was joined with
          map,          \* the maps of Hazelcast
          locJob,       \* PopulateLocationsApp
          schedJob,     \* PopulateSchedulesApp
          starts        \* number of their starts

refVars == <<day, script, files, map, locJob, schedJob, starts>>

NoLocation == [tiploc |-> NoStanox, stanox |-> NoStanox]

\* tiplocs.json has the records with a stanox, and so has locations.json.
Locations(d) == {[tiploc |-> t, stanox |-> Feeds[d].stanox[t]] :
                   t \in {u \in Tiplocs : Feeds[d].stanox[u] # NoStanox}}

\* load_locations: the entry of the tiploc, or None.
Located(locations, t) ==
  IF \E l \in locations : l.tiploc = t
  THEN CHOOSE l \in locations : l.tiploc = t ELSE NoLocation

\* make_schedule and write_to_file: the passenger schedules with their
\* locations; those of the next days again in a file of their own.
Joined(locations, d) ==
  {[key |-> s.key, origin |-> Located(locations, s.origin), recent |-> s.recent] :
     s \in {r \in Feeds[d].schedules : r.passenger}}

Put(f, k, v) == [x \in DOMAIN f \cup {k} |-> IF x = k THEN v ELSE f[x]]

JobIdle == [state |-> "idle", todo |-> {}, half |-> {}, file |-> {}, with |-> {},
            bad |-> FALSE]

RefInit ==
  /\ day = 1 /\ script = "idle"
  /\ files = [raw |-> 0, locations |-> {}, joined |-> {}, with |-> {}]
  /\ map = [stanox |-> <<>>, tiploc |-> <<>>, schedule |-> <<>>]
  /\ locJob = JobIdle /\ schedJob = JobIdle /\ starts = 0

-----------------------------------------------------------------------------
(* The scripts. *)

NextDay ==
  /\ day < Len(Feeds)
  /\ day' = day + 1
  /\ UNCHANGED <<script, files, map, locJob, schedJob, starts>>

Extract ==
  /\ script = "idle"
  /\ script' = "extracted" /\ files' = [files EXCEPT !.raw = day]
  /\ UNCHANGED <<day, map, locJob, schedJob, starts>>

\* create_locations, whole or cut short.
CreateLocations(whole) ==
  /\ script = "extracted"
  /\ \E written \in IF whole THEN {Locations(files.raw)} ELSE SUBSET Locations(files.raw) :
       files' = [files EXCEPT !.locations = written]
  /\ script' = IF whole THEN "located" ELSE "idle"
  /\ UNCHANGED <<day, map, locJob, schedJob, starts>>

CreateSchedules(whole) ==
  /\ script = "located"
  /\ LET joined == Joined(files.locations, files.raw)
     IN \E written \in IF whole THEN {joined} ELSE SUBSET joined :
          files' = [files EXCEPT !.joined = written, !.with = files.locations]
  /\ script' = "idle"
  /\ UNCHANGED <<day, map, locJob, schedJob, starts>>

-----------------------------------------------------------------------------
(* The programs.  half are the locations HzLocationRepo.put has set by     *)
(* their stanox only; bad: a line failed.                                  *)

Start(lines, locations) ==
  [state |-> "running", todo |-> lines, half |-> {}, file |-> lines,
   with |-> locations, bad |-> FALSE]

Counted == starts < MaxStarts /\ starts' = starts + 1

StartLocations ==
  /\ locJob.state # "running" /\ locJob.half = {} /\ files.locations # {}
  /\ locJob' = Start(files.locations, files.locations)
  /\ Counted
  /\ UNCHANGED <<day, script, files, map, schedJob>>

\* Mutant: both puts go to the map by tiploc.
PutByTiplocTwice(l) ==
  /\ l \in locJob.todo
  /\ map' = [map EXCEPT !.tiploc = Put(@, l.tiploc, l)]
  /\ locJob' = [locJob EXCEPT !.todo = @ \ {l}, !.half = @ \cup {l}]
  /\ UNCHANGED <<day, script, files, schedJob, starts>>

PutByStanox(l) ==
  /\ l \in locJob.todo
  /\ map' = [map EXCEPT !.stanox = Put(@, l.stanox, l)]
  /\ locJob' = [locJob EXCEPT !.todo = @ \ {l}, !.half = @ \cup {l}]
  /\ UNCHANGED <<day, script, files, schedJob, starts>>

PutByTiploc(l) ==
  /\ l \in locJob.half
  /\ map' = [map EXCEPT !.tiploc = Put(@, l.tiploc, l)]
  /\ locJob' = [locJob EXCEPT !.half = @ \ {l}]
  /\ UNCHANGED <<day, script, files, schedJob, starts>>

\* Mutant: the exception is swallowed, as that of a schedule is.
LocationSwallowed ==
  /\ locJob.state = "running" /\ locJob.todo # {}
  /\ locJob' = [locJob EXCEPT !.todo = {}, !.bad = TRUE]
  /\ UNCHANGED <<day, script, files, map, schedJob, starts>>

\* A line that does not parse, or a put that fails, ends the stream; puts under
\* way in other threads go on until the client is shut down.
LocationFails ==
  /\ locJob.state = "running" /\ locJob.todo # {}
  /\ locJob' = [locJob EXCEPT !.state = "failed", !.todo = {}, !.bad = TRUE]
  /\ UNCHANGED <<day, script, files, map, schedJob, starts>>

LocationsDone ==
  /\ locJob.state = "running" /\ locJob.todo = {} /\ locJob.half = {}
  /\ locJob' = [locJob EXCEPT !.state = "done"]
  /\ UNCHANGED <<day, script, files, map, schedJob, starts>>

\* The client is shut down after a failure, or the program is killed.
LocationsStop ==
  /\ locJob.state \in {"running", "failed"}
  /\ locJob' = JobIdle
  /\ UNCHANGED <<day, script, files, map, schedJob, starts>>

\* From the file of all schedules or of those of the next days.
StartSchedules(recentOnly) ==
  /\ schedJob.state # "running" /\ files.joined # {}
  /\ schedJob' = Start({s \in files.joined : recentOnly => s.recent}, files.with)
  /\ Counted
  /\ UNCHANGED <<day, script, files, map, locJob>>

PutSchedule(s) ==
  /\ s \in schedJob.todo
  /\ map' = [map EXCEPT !.schedule = Put(@, s.key, s)]
  /\ schedJob' = [schedJob EXCEPT !.todo = @ \ {s}]
  /\ UNCHANGED <<day, script, files, locJob, starts>>

\* The exception is logged and the future completes as if all were well.
ScheduleFails ==
  /\ schedJob.todo # {}
  /\ schedJob' = [schedJob EXCEPT !.todo = {}, !.bad = TRUE]
  /\ UNCHANGED <<day, script, files, map, locJob, starts>>

SchedulesDone ==
  /\ schedJob.state = "running" /\ schedJob.todo = {}
  /\ schedJob' = [schedJob EXCEPT !.state = "done"]
  /\ UNCHANGED <<day, script, files, map, locJob, starts>>

SchedulesStop ==
  /\ schedJob.state = "running"
  /\ schedJob' = JobIdle
  /\ UNCHANGED <<day, script, files, map, locJob, starts>>

RefNext ==
  \/ NextDay \/ Extract
  \/ \E whole \in BOOLEAN : CreateLocations(whole) \/ CreateSchedules(whole)
  \/ StartLocations \/ LocationFails \/ LocationsDone \/ LocationsStop
  \/ \E l \in locJob.file : PutByStanox(l) \/ PutByTiploc(l)
  \/ \E recentOnly \in BOOLEAN : StartSchedules(recentOnly)
  \/ \E s \in schedJob.file : PutSchedule(s)
  \/ ScheduleFails \/ SchedulesDone \/ SchedulesStop

-----------------------------------------------------------------------------
(* Properties *)

\* A tiploc that is found in the one map has its stanox in the other, also
\* while the parallel lines are being put, after a crash between the two sets
\* of HzLocationRepo.put and after a change of stanox.
TiplocHasStanox ==
  \A t \in DOMAIN map.tiploc : map.tiploc[t].stanox \in DOMAIN map.stanox

\* A population of locations that reports success has put every line of its
\* file in both maps; where tiplocs share a stanox any of them may have it.
LocationsComplete ==
  locJob.state = "done" => \A l \in locJob.file :
    /\ l.tiploc \in DOMAIN map.tiploc /\ map.tiploc[l.tiploc] = l
    /\ l.stanox \in DOMAIN map.stanox
    /\ map.stanox[l.stanox] \in {k \in locJob.file : k.stanox = l.stanox}

\* The population of schedules reports success after an exception too, which it
\* only logs.  When it has logged none, every line of its file is in the map; and
\* when the locations are there that the file was joined with, each carries the one
\* that movements will be looked up by.
SchedulesMatchLocations ==
  (schedJob.state = "done" /\ ~schedJob.bad) =>
    \A s \in schedJob.file :
      /\ s.key \in DOMAIN map.schedule
      /\ (locJob.state = "done" /\ locJob.with = schedJob.with) =>
           LET origin == map.schedule[s.key].origin
           IN origin # NoLocation => /\ origin.tiploc \in DOMAIN map.tiploc
                                     /\ map.tiploc[origin.tiploc] = origin

\* Success of the locations program means that all of its file is in the maps.
\* That of the schedules program means it only if no exception was logged on the
\* way (DoneIsComplete fails); then the maps agree too.
ImportComplete == LocationsComplete /\ SchedulesMatchLocations

\* What PopulateSchedulesApp says: it reports "Done populating" or, in the other
\* branch, "Error populating schedules!".  So what is done is complete.
DoneIsComplete ==
  schedJob.state = "done" => \A s \in schedJob.file : s.key \in DOMAIN map.schedule
=============================================================================
