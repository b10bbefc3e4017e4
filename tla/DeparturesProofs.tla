--------------------------- MODULE DeparturesProofs ----------------------------
(***************************************************************************)
(* Theorems about ReferenceData and Departures, for any feeds, any number  *)
(* of starts and crashes of the two programs, and any trains and times.    *)
(***************************************************************************)
EXTENDS Departures, RankTheorems

\* What Put makes of a map.
LEMMA PutFacts ==
    ASSUME NEW f, NEW k, NEW v
    PROVE  /\ DOMAIN Put(f, k, v) = DOMAIN f \cup {k}
           /\ Put(f, k, v)[k] = v
           /\ \A x \in DOMAIN f : x # k => Put(f, k, v)[x] = f[x]
  BY DEF Put

\* The location of a tiploc is one of the file, or none.
LEMMA LocatedFacts ==
    ASSUME NEW locations, NEW t
    PROVE  \/ Located(locations, t) = NoLocation
           \/ Located(locations, t) \in locations
  BY DEF Located

-----------------------------------------------------------------------------
(* The import.                                                               *)

\* A file of locations has a tiploc once.
Single(locations) == \A k, l \in locations : k.tiploc = l.tiploc => k = l

\* A file of locations has one line for each tiploc.
LEMMA LocationsSingle == \A d : Single(Locations(d))
  BY DEF Single, Locations

\* The lines the locations program works on are those of its file.
LocationLines ==
    /\ Single(files.locations) /\ Single(locJob.file)
    /\ locJob.todo \subseteq locJob.file /\ locJob.half \subseteq locJob.file
    /\ locJob.with = locJob.file
    /\ locJob.state = "done" => locJob.todo = {} /\ locJob.half = {}

\* What is set by stanox stays; of the file that is being put, also by whom.
StanoxPut ==
    /\ \A l \in locJob.half : l.stanox \in DOMAIN map.stanox
    /\ locJob.state \in {"running", "done"} =>
          \A l \in locJob.file \ locJob.todo :
             /\ l.stanox \in DOMAIN map.stanox
             /\ map.stanox[l.stanox] \in {k \in locJob.file : k.stanox = l.stanox}

TiplocPut ==
    locJob.state \in {"running", "done"} =>
        \A l \in locJob.file \ (locJob.todo \cup locJob.half) :
            l.tiploc \in DOMAIN map.tiploc /\ map.tiploc[l.tiploc] = l

\* The schedules of a file carry locations it was joined with.
JoinedWith(schedules, locations) ==
    \A s \in schedules : s.origin = NoLocation \/ s.origin \in locations

ScheduleLines ==
    /\ JoinedWith(files.joined, files.with)
    /\ JoinedWith(schedJob.file, schedJob.with)
    /\ schedJob.todo \subseteq schedJob.file
    /\ schedJob.state = "done" => schedJob.todo = {}

SchedulePut ==
    schedJob.state \in {"running", "done"} /\ ~schedJob.bad =>
        \A s \in schedJob.file \ schedJob.todo :
            s.key \in DOMAIN map.schedule /\ map.schedule[s.key] \in schedJob.file

\* The variables are the records Init makes.
Job(j) == j = [state |-> j.state, todo |-> j.todo, half |-> j.half, file |-> j.file,
               with |-> j.with, bad |-> j.bad]

Shapes ==
    /\ map = [stanox |-> map.stanox, tiploc |-> map.tiploc, schedule |-> map.schedule]
    /\ files = [raw |-> files.raw, locations |-> files.locations, joined |-> files.joined,
                with |-> files.with]
    /\ Job(locJob) /\ Job(schedJob)
    /\ locJob.state \in {"idle", "running", "failed", "done"}
    /\ schedJob.state \in {"idle", "running", "done"}

ImportInv ==
    /\ Shapes
    /\ LocationLines
    /\ StanoxPut
    /\ TiplocPut
    /\ ScheduleLines
    /\ SchedulePut
    /\ TiplocHasStanox

\* A joined file has the schedules of the locations it was joined with.
LEMMA JoinedFacts ==
    ASSUME NEW locations, NEW d
    PROVE  JoinedWith(Joined(locations, d), locations)
  BY LocatedFacts DEF JoinedWith, Joined

\* The import at the start,
LEMMA ImportInit == Init => ImportInv
<1> SUFFICES ASSUME Init PROVE ImportInv
  OBVIOUS
<1>1. locJob = JobIdle /\ schedJob = JobIdle
  BY DEF Init, RefInit
<1>a. Shapes
  <2>1. Job(locJob) /\ Job(schedJob) /\ locJob.state = "idle" /\ schedJob.state = "idle"
    BY <1>1 DEF Job, JobIdle
  <2>2. CASE RefInit
    BY <2>1, <2>2 DEF RefInit, Shapes
  <2>3. CASE Imported(day)
    <3>1. files = [raw |-> files.raw, locations |-> files.locations,
                   joined |-> files.joined, with |-> files.with]
      BY <2>3 DEF Imported
    <3>2. map = [stanox |-> map.stanox, tiploc |-> map.tiploc, schedule |-> map.schedule]
      BY <2>3 DEF Imported
    <3> QED
      BY <2>1, <3>1, <3>2 DEF Shapes
  <2> QED
    BY <2>2, <2>3 DEF Init
<1>2. CASE RefInit
  BY <1>a, <1>2 DEF RefInit, ImportInv, LocationLines, StanoxPut, TiplocPut, ScheduleLines,
              SchedulePut, JoinedWith, Single, JobIdle, TiplocHasStanox
<1>3. CASE Imported(day)
  <2>1. files.locations = Locations(day) /\ files.with = Locations(day)
        /\ files.joined = Joined(Locations(day), day)
    BY <1>3 DEF Imported
  <2>2. TiplocHasStanox
    <3> SUFFICES ASSUME NEW t \in DOMAIN map.tiploc
                 PROVE  map.tiploc[t].stanox \in DOMAIN map.stanox
      BY DEF TiplocHasStanox
    <3>1. PICK l \in Locations(day) : l.tiploc = t
      BY <1>3 DEF Imported
    <3>2. map.tiploc[t] \in Locations(day)
      BY <1>3, <3>1 DEF Imported, Located
    <3> QED
      BY <1>3, <3>2 DEF Imported
  <2> QED
    BY <1>a, <1>1, <2>1, <2>2, LocationsSingle, JoinedFacts
       DEF ImportInv, LocationLines, StanoxPut, TiplocPut, ScheduleLines,
           SchedulePut, JoinedWith, Single, JobIdle
<1> QED
  BY <1>2, <1>3 DEF Init

\* Setting a field of the record of a job, or of the maps.
LEMMA JobFacts ==
    ASSUME NEW j, Job(j), NEW todo, NEW half
    PROVE  /\ [j EXCEPT !.todo = todo, !.half = half]
                 = [state |-> j.state, todo |-> todo, half |-> half, file |-> j.file,
                    with |-> j.with, bad |-> j.bad]
           /\ [j EXCEPT !.todo = todo]
                 = [state |-> j.state, todo |-> todo, half |-> j.half, file |-> j.file,
                    with |-> j.with, bad |-> j.bad]
           /\ [j EXCEPT !.half = half]
                 = [state |-> j.state, todo |-> j.todo, half |-> half, file |-> j.file,
                    with |-> j.with, bad |-> j.bad]
<1>1. [j EXCEPT !.todo = todo, !.half = half]
        = [state |-> j.state, todo |-> todo, half |-> half, file |-> j.file,
           with |-> j.with, bad |-> j.bad]
  <2>1. [j EXCEPT !.todo = todo, !.half = half]
          = [[j EXCEPT !.todo = todo] EXCEPT !.half = half]
    BY Zenon
  <2>2. \A k : Job(k) => [k EXCEPT !.half = half]
                         = [state |-> k.state, todo |-> k.todo, half |-> half,
                            file |-> k.file, with |-> k.with, bad |-> k.bad]
    BY DEF Job
  <2>3. [j EXCEPT !.todo = todo]
          = [state |-> j.state, todo |-> todo, half |-> j.half, file |-> j.file,
             with |-> j.with, bad |-> j.bad]
    BY DEF Job
  <2> DEFINE k == [j EXCEPT !.todo = todo]
  <2>4. Job(k) /\ k.state = j.state /\ k.todo = todo
        /\ k.file = j.file /\ k.with = j.with /\ k.bad = j.bad
    BY <2>3 DEF Job
  <2> HIDE DEF k
  <2>5. [k EXCEPT !.half = half]
          = [state |-> k.state, todo |-> k.todo, half |-> half,
             file |-> k.file, with |-> k.with, bad |-> k.bad]
    BY <2>2, <2>4
  <2>6. [[j EXCEPT !.todo = todo] EXCEPT !.half = half] = [k EXCEPT !.half = half]
    BY Zenon DEF k
  <2> QED
    BY <2>1, <2>4, <2>5, <2>6
<1>2. [j EXCEPT !.todo = todo]
        = [state |-> j.state, todo |-> todo, half |-> j.half, file |-> j.file,
           with |-> j.with, bad |-> j.bad]
  BY DEF Job
<1>3. [j EXCEPT !.half = half]
        = [state |-> j.state, todo |-> j.todo, half |-> half, file |-> j.file,
           with |-> j.with, bad |-> j.bad]
  BY DEF Job
<1> QED
  BY <1>1, <1>2, <1>3

\* Writing one map leaves the others.
LEMMA MapFacts ==
    ASSUME Shapes, NEW f
    PROVE  /\ [map EXCEPT !.stanox = f]
                 = [stanox |-> f, tiploc |-> map.tiploc, schedule |-> map.schedule]
           /\ [map EXCEPT !.tiploc = f]
                 = [stanox |-> map.stanox, tiploc |-> f, schedule |-> map.schedule]
           /\ [map EXCEPT !.schedule = f]
                 = [stanox |-> map.stanox, tiploc |-> map.tiploc, schedule |-> f]
  BY DEF Shapes

\* What a step leaves alone when it is not of a program.
mapVars == <<map, locJob, schedJob>>

\* A step that writes no map keeps what the programs have put.
LEMMA ProgramsKept ==
    ASSUME ImportInv, UNCHANGED mapVars, Shapes',
           Single(files'.locations), JoinedWith(files'.joined, files'.with)
    PROVE  ImportInv'
  BY DEF ImportInv, mapVars, LocationLines, StanoxPut, TiplocPut, TiplocHasStanox, Single,
         ScheduleLines, SchedulePut, JoinedWith

\* The scripts only write files, whole or cut short.
LEMMA ScriptsStep ==
    ASSUME ImportInv,
           \/ NextDay \/ Extract
           \/ \E whole \in BOOLEAN : CreateLocations(whole) \/ CreateSchedules(whole)
    PROVE  ImportInv'
<1>a. /\ Shapes /\ Single(files.locations) /\ JoinedWith(files.joined, files.with)
  BY DEF ImportInv, LocationLines, ScheduleLines
<1>1. UNCHANGED mapVars
  BY DEF NextDay, Extract, CreateLocations, CreateSchedules, mapVars
<1>2. /\ files' = [raw |-> files'.raw, locations |-> files'.locations, joined |-> files'.joined,
                   with |-> files'.with]
      /\ Single(files'.locations) /\ JoinedWith(files'.joined, files'.with)
  <2>1. CASE NextDay \/ Extract
    BY <1>a, <2>1 DEF NextDay, Extract, Shapes
  <2>2. ASSUME NEW whole \in BOOLEAN, CreateLocations(whole)
        PROVE  files' = [files EXCEPT !.locations = files'.locations]
               /\ Single(files'.locations)
    <3>1. PICK written \in SUBSET Locations(files.raw) :
              files' = [files EXCEPT !.locations = written]
      BY <2>2 DEF CreateLocations
    <3>2. files'.locations = written
      BY <1>a, <3>1 DEF Shapes
    <3> QED
      BY <3>1, <3>2, LocationsSingle DEF Single
  <2>3. ASSUME NEW whole \in BOOLEAN, CreateSchedules(whole)
        PROVE  /\ files' = [files EXCEPT !.joined = files'.joined, !.with = files.locations]
               /\ JoinedWith(files'.joined, files.locations)
    <3>1. PICK written \in SUBSET Joined(files.locations, files.raw) :
              files' = [files EXCEPT !.joined = written, !.with = files.locations]
      BY <2>3 DEF CreateSchedules
    <3>2. files'.joined = written
      BY <1>a, <3>1 DEF Shapes
    <3> QED
      BY <3>1, <3>2, JoinedFacts DEF JoinedWith
  <2> QED
    BY <1>a, <2>1, <2>2, <2>3 DEF Shapes
<1>3. Shapes'
  BY <1>a, <1>1, <1>2 DEF Shapes, mapVars, Job
<1> QED
  BY <1>1, <1>2, <1>3, ProgramsKept

\* The program of the locations.
LEMMA LocationsStep ==
    ASSUME ImportInv,
           \/ StartLocations \/ LocationFails \/ LocationsDone \/ LocationsStop
           \/ \E l \in locJob.file : PutByStanox(l) \/ PutByTiploc(l)
    PROVE  ImportInv'
<1>a. /\ Shapes /\ LocationLines /\ StanoxPut /\ TiplocPut /\ TiplocHasStanox
  BY DEF ImportInv
<1>1. UNCHANGED <<files, schedJob, map.schedule>>
  BY <1>a DEF StartLocations, LocationFails, LocationsDone, LocationsStop, PutByStanox,
              PutByTiploc, Shapes
<1>2. ScheduleLines' /\ SchedulePut'
  BY <1>1 DEF ImportInv, ScheduleLines, SchedulePut, JoinedWith
<1>3. Shapes' /\ LocationLines' /\ StanoxPut' /\ TiplocPut' /\ TiplocHasStanox'
  <2>1. CASE StartLocations
    <3>1. /\ locJob' = [state |-> "running", todo |-> files.locations, half |-> {},
                         file |-> files.locations, with |-> files.locations, bad |-> FALSE]
          /\ UNCHANGED <<files, map, schedJob>>
      BY <2>1 DEF StartLocations, Start
    <3>2. Shapes'
      BY <1>a, <3>1 DEF Shapes, Job
    <3>3. LocationLines'
      BY <1>a, <3>1 DEF LocationLines, Single
    <3>4. StanoxPut' /\ TiplocPut' /\ TiplocHasStanox'
      BY <1>a, <3>1 DEF StanoxPut, TiplocPut, TiplocHasStanox
    <3> QED
      BY <3>2, <3>3, <3>4
  <2>2. CASE LocationFails \/ LocationsDone \/ LocationsStop
    <3>1. UNCHANGED <<files, map, schedJob>>
      BY <2>2 DEF LocationFails, LocationsDone, LocationsStop
    <3>2. /\ Job(locJob') /\ locJob'.state \in {"idle", "failed", "done"}
          /\ locJob'.with = locJob'.file
          /\ locJob'.todo = {} /\ locJob'.half \subseteq locJob'.file
          /\ locJob'.half \subseteq locJob.half
          /\ Single(locJob'.file)
          /\ locJob'.state = "done" =>
                /\ locJob.state = "running" /\ locJob.todo = {} /\ locJob.half = {}
                /\ locJob'.half = {} /\ locJob'.file = locJob.file
      <4>1. CASE LocationFails
        BY <1>a, <4>1 DEF LocationFails, Shapes, Job, LocationLines
      <4>2. CASE LocationsDone
        BY <1>a, <4>2 DEF LocationsDone, Shapes, Job, LocationLines
      <4>3. CASE LocationsStop
        BY <4>3 DEF LocationsStop, Job, JobIdle, Single
      <4> QED
        BY <2>2, <4>1, <4>2, <4>3
    <3>3. Shapes'
      BY <1>a, <3>1, <3>2 DEF Shapes, Job
    <3>4. LocationLines'
      BY <1>a, <3>1, <3>2 DEF LocationLines, Single
    <3>5. StanoxPut' /\ TiplocPut' /\ TiplocHasStanox'
      BY <1>a, <3>1, <3>2 DEF StanoxPut, TiplocPut, TiplocHasStanox
    <3> QED
      BY <3>3, <3>4, <3>5
  <2>3. ASSUME NEW l \in locJob.file, PutByStanox(l)
        PROVE  Shapes' /\ LocationLines' /\ StanoxPut' /\ TiplocPut' /\ TiplocHasStanox'
    <3>a. map' = [stanox |-> Put(map.stanox, l.stanox, l), tiploc |-> map.tiploc,
                  schedule |-> map.schedule]
      BY <1>a, <2>3, MapFacts DEF PutByStanox
    <3>b. locJob' = [state |-> locJob.state, todo |-> locJob.todo \ {l},
                     half |-> locJob.half \cup {l}, file |-> locJob.file,
                     with |-> locJob.with, bad |-> locJob.bad]
      BY <1>a, <2>3, JobFacts DEF PutByStanox, Shapes
    <3>1. /\ map'.stanox = Put(map.stanox, l.stanox, l)
          /\ UNCHANGED <<map.tiploc, map.schedule, files, schedJob>>
          /\ locJob'.todo = locJob.todo \ {l} /\ locJob'.half = locJob.half \cup {l}
          /\ UNCHANGED <<locJob.state, locJob.file, locJob.with, locJob.bad>>
          /\ l \in locJob.todo
      BY <2>3, <3>a, <3>b DEF PutByStanox
    <3>c. Job(locJob')
      BY <3>b DEF Job
    <3>d. Shapes'
      BY <1>a, <3>1, <3>a, <3>c DEF Shapes, Job
    <3>p. /\ DOMAIN map'.stanox = DOMAIN map.stanox \cup {l.stanox}
          /\ map'.stanox[l.stanox] = l
          /\ \A x \in DOMAIN map.stanox : x # l.stanox => map'.stanox[x] = map.stanox[x]
      BY <3>1 DEF Put
    <3>2. LocationLines'
      BY <1>a, <3>1 DEF LocationLines, Single
    <3>3. StanoxPut'
      BY <1>a, <3>1, <3>p DEF StanoxPut, LocationLines
    <3>4. TiplocPut'
      BY <1>a, <3>1 DEF TiplocPut
    <3>5. TiplocHasStanox'
      BY <1>a, <3>1, <3>p DEF TiplocHasStanox
    <3> QED
      BY <3>d, <3>2, <3>3, <3>4, <3>5
  <2>4. ASSUME NEW l \in locJob.file, PutByTiploc(l)
        PROVE  Shapes' /\ LocationLines' /\ StanoxPut' /\ TiplocPut' /\ TiplocHasStanox'
    <3>a. map' = [stanox |-> map.stanox, tiploc |-> Put(map.tiploc, l.tiploc, l),
                  schedule |-> map.schedule]
      BY <1>a, <2>4, MapFacts DEF PutByTiploc
    <3>b. locJob' = [state |-> locJob.state, todo |-> locJob.todo, half |-> locJob.half \ {l},
                     file |-> locJob.file, with |-> locJob.with, bad |-> locJob.bad]
      BY <1>a, <2>4, JobFacts DEF PutByTiploc, Shapes
    <3>1. /\ map'.tiploc = Put(map.tiploc, l.tiploc, l)
          /\ UNCHANGED <<map.stanox, map.schedule, files, schedJob>>
          /\ locJob'.half = locJob.half \ {l}
          /\ UNCHANGED <<locJob.state, locJob.todo, locJob.file, locJob.with, locJob.bad>>
          /\ l \in locJob.half
      BY <2>4, <3>a, <3>b DEF PutByTiploc
    <3>c. Job(locJob')
      BY <3>b DEF Job
    <3>d. Shapes'
      BY <1>a, <3>1, <3>a, <3>c DEF Shapes, Job
    <3>p. /\ DOMAIN map'.tiploc = DOMAIN map.tiploc \cup {l.tiploc}
          /\ map'.tiploc[l.tiploc] = l
          /\ \A x \in DOMAIN map.tiploc : x # l.tiploc => map'.tiploc[x] = map.tiploc[x]
      BY <3>1 DEF Put
    <3>2. LocationLines' /\ StanoxPut'
      BY <1>a, <3>1 DEF LocationLines, StanoxPut, Single
    <3>3. TiplocPut'
      BY <1>a, <3>1, <3>p DEF TiplocPut, LocationLines, Single
    <3>4. TiplocHasStanox'
      BY <1>a, <3>1, <3>p DEF TiplocHasStanox, StanoxPut
    <3> QED
      BY <3>d, <3>2, <3>3, <3>4
  <2> QED
    BY <2>1, <2>2, <2>3, <2>4
<1> QED
  BY <1>2, <1>3 DEF ImportInv

\* The program of the schedules.
LEMMA SchedulesStep ==
    ASSUME ImportInv,
           \/ \E recentOnly \in BOOLEAN : StartSchedules(recentOnly)
           \/ \E s \in schedJob.file : PutSchedule(s)
           \/ ScheduleFails \/ SchedulesDone \/ SchedulesStop
    PROVE  ImportInv'
<1>a. Shapes /\ ScheduleLines /\ SchedulePut
  BY DEF ImportInv
<1>1. UNCHANGED <<files, locJob, map.stanox, map.tiploc>>
  BY <1>a DEF StartSchedules, PutSchedule, ScheduleFails, SchedulesDone, SchedulesStop, Shapes
<1>2. LocationLines' /\ StanoxPut' /\ TiplocPut' /\ TiplocHasStanox'
  BY <1>1 DEF ImportInv, LocationLines, StanoxPut, TiplocPut, TiplocHasStanox, Single
<1>3. Shapes' /\ ScheduleLines' /\ SchedulePut'
  <2>1. ASSUME NEW recentOnly \in BOOLEAN, StartSchedules(recentOnly)
        PROVE  Shapes' /\ ScheduleLines' /\ SchedulePut'
    <3>1. PICK lines \in SUBSET files.joined :
              schedJob' = [state |-> "running", todo |-> lines, half |-> {}, file |-> lines,
                           with |-> files.with, bad |-> FALSE]
      BY <2>1 DEF StartSchedules, Start
    <3>2. UNCHANGED <<files, map, locJob>>
      BY <2>1 DEF StartSchedules
    <3>3. Shapes'
      BY <1>a, <3>1, <3>2 DEF Shapes, Job
    <3>4. ScheduleLines' /\ SchedulePut'
      BY <1>a, <3>1, <3>2 DEF ScheduleLines, SchedulePut, JoinedWith
    <3> QED
      BY <3>3, <3>4
  <2>2. CASE ScheduleFails \/ SchedulesDone \/ SchedulesStop
    <3>1. UNCHANGED <<files, map, locJob>>
      BY <2>2 DEF ScheduleFails, SchedulesDone, SchedulesStop
    <3>2. /\ Job(schedJob') /\ schedJob'.state \in {"idle", "running", "done"}
          /\ schedJob'.todo = {}
          /\ JoinedWith(schedJob'.file, schedJob'.with)
          /\ schedJob'.state \in {"running", "done"} /\ ~schedJob'.bad =>
                /\ schedJob.state = "running" /\ schedJob.todo = {} /\ ~schedJob.bad
                /\ schedJob'.file = schedJob.file
      <4>1. CASE ScheduleFails
        BY <1>a, <4>1 DEF ScheduleFails, Shapes, Job, ScheduleLines
      <4>2. CASE SchedulesDone
        BY <1>a, <4>2 DEF SchedulesDone, Shapes, Job, ScheduleLines
      <4>3. CASE SchedulesStop
        BY <4>3 DEF SchedulesStop, Job, JobIdle, JoinedWith
      <4> QED
        BY <2>2, <4>1, <4>2, <4>3
    <3>3. Shapes'
      BY <1>a, <3>1, <3>2 DEF Shapes, Job
    <3>4. ScheduleLines'
      BY <1>a, <3>1, <3>2 DEF ScheduleLines, JoinedWith
    <3>5. SchedulePut'
      BY <1>a, <3>1, <3>2 DEF SchedulePut
    <3> QED
      BY <3>3, <3>4, <3>5
  <2>3. ASSUME NEW s \in schedJob.file, PutSchedule(s)
        PROVE  Shapes' /\ ScheduleLines' /\ SchedulePut'
    <3>a. map' = [stanox |-> map.stanox, tiploc |-> map.tiploc,
                  schedule |-> Put(map.schedule, s.key, s)]
      BY <1>a, <2>3, MapFacts DEF PutSchedule
    <3>b. schedJob' = [state |-> schedJob.state, todo |-> schedJob.todo \ {s},
                       half |-> schedJob.half, file |-> schedJob.file,
                       with |-> schedJob.with, bad |-> schedJob.bad]
      BY <1>a, <2>3, JobFacts DEF PutSchedule, Shapes
    <3>1. /\ map'.schedule = Put(map.schedule, s.key, s)
          /\ schedJob'.todo = schedJob.todo \ {s}
          /\ UNCHANGED <<schedJob.state, schedJob.file, schedJob.with, schedJob.bad>>
          /\ UNCHANGED <<files, locJob>>
      BY <2>3, <3>a, <3>b DEF PutSchedule
    <3>c. Job(schedJob')
      BY <3>b DEF Job
    <3>d. Shapes'
      BY <1>a, <3>1, <3>a, <3>c DEF Shapes, Job
    <3>2. ScheduleLines'
      BY <1>a, <3>1 DEF ScheduleLines, JoinedWith
    <3>p. /\ DOMAIN map'.schedule = DOMAIN map.schedule \cup {s.key}
          /\ map'.schedule[s.key] = s
          /\ \A x \in DOMAIN map.schedule : x # s.key => map'.schedule[x] = map.schedule[x]
      BY <3>1 DEF Put
    <3>3. SchedulePut'
      BY <1>a, <3>1, <3>p DEF SchedulePut
    <3> QED
      BY <3>d, <3>2, <3>3
  <2> QED
    BY <2>1, <2>2, <2>3
<1> QED
  BY <1>2, <1>3 DEF ImportInv

\* and ever after.
LEMMA ImportInvariant == Spec => []ImportInv
<1>1. ImportInv /\ [Next]_vars => ImportInv'
  <2> SUFFICES ASSUME ImportInv, [Next]_vars PROVE ImportInv'
    OBVIOUS
  <2>1. CASE RefNext
    BY <2>1, ScriptsStep, LocationsStep, SchedulesStep DEF RefNext
  <2>2. CASE UNCHANGED refVars
    BY <2>2 DEF refVars, ImportInv, Shapes, Job, LocationLines, StanoxPut, TiplocPut,
                TiplocHasStanox, ScheduleLines, SchedulePut, Single, JoinedWith
  <2> QED
    BY <2>1, <2>2 DEF Next, Activate, Deactivate, Move, Tick, LiveDepartures, vars
<1> QED
  BY ImportInit, <1>1, PTL DEF Spec

\* A tiploc that can be found has its stanox, at every moment of an import that
\* runs in parallel, dies between its two puts, and starts again on other files.
THEOREM TiplocsHaveStanox == Spec => []TiplocHasStanox
<1>1. ImportInv => TiplocHasStanox
  BY DEF ImportInv
<1> QED
  BY <1>1, ImportInvariant, PTL

\* Success of the locations program means that all of its file is in both maps;
\* that of the schedules program, when it has logged no exception, that all of its
\* file is, with the locations of the map if these are the ones it was joined with.
THEOREM SuccessIsComplete == Spec => []ImportComplete
<1>1. ImportInv => LocationsComplete
  BY DEF ImportInv, LocationLines, StanoxPut, TiplocPut, LocationsComplete
<1>2. ImportInv => SchedulesMatchLocations
  <2> SUFFICES ASSUME ImportInv, schedJob.state = "done", ~schedJob.bad, NEW s \in schedJob.file
               PROVE  /\ s.key \in DOMAIN map.schedule
                      /\ locJob.state = "done" /\ locJob.with = schedJob.with
                         /\ map.schedule[s.key].origin # NoLocation =>
                            LET origin == map.schedule[s.key].origin
                            IN  /\ origin.tiploc \in DOMAIN map.tiploc
                                /\ map.tiploc[origin.tiploc] = origin
    BY DEF SchedulesMatchLocations
  <2>1. s.key \in DOMAIN map.schedule /\ map.schedule[s.key] \in schedJob.file
    BY DEF ImportInv, ScheduleLines, SchedulePut
  <2>2. ASSUME locJob.with = schedJob.with
        PROVE  \/ map.schedule[s.key].origin = NoLocation
               \/ map.schedule[s.key].origin \in locJob.file
    BY <2>1, <2>2 DEF ImportInv, ScheduleLines, JoinedWith, LocationLines
  <2> QED
    BY <1>1, <2>1, <2>2 DEF LocationsComplete
<1> QED
  BY <1>1, <1>2, ImportInvariant, PTL DEF ImportComplete

-----------------------------------------------------------------------------
(* The pages.                                                                *)

\* Where the trains that are active come from.
At(acts) == {l.tiploc : l \in Origins(acts)}

\* An origin is none, or a tiploc of the extract.
Known(l) == l = NoLocation \/ l.tiploc \in Tiplocs

OriginsKnown ==
    /\ part # "import" => \A key \in DOMAIN map.schedule : Known(map.schedule[key].origin)
    /\ \A t \in DOMAIN activation : Known(activation[t].schedule.origin)

\* since and seen are what their names say.
Tracked ==
    /\ now \in Nat /\ since \in [Tiplocs -> Int] /\ seen \in [Tiplocs -> Int]
    /\ \A t \in Tiplocs :
         /\ -1 <= since[t] /\ since[t] <= now /\ seen[t] <= now
         /\ since[t] # -1 <=> t \in At(activation)
         /\ since[t] # -1 => seen[t] = now

\* The cached list is single and was true when it was made: its stations had a
\* train then, and the others have had none, or only since.
CacheHonest ==
    /\ \A c, d \in cache : c = d
    /\ \A c \in cache :
         /\ c.stations \subseteq Tiplocs
         /\ c.until \in Int /\ c.until - Expiry <= now
         /\ \A t \in c.stations : seen[t] >= c.until - Expiry
         /\ \A t \in Tiplocs \ c.stations : since[t] = -1 \/ since[t] >= c.until - Expiry

SiteInv ==
    /\ OriginsKnown
    /\ Tracked
    /\ CacheHonest
    /\ shown.at \in Int /\ shown.at <= now /\ shown.stations \subseteq Tiplocs
    /\ StationsFresh

\* The pages at the start.
LEMMA SiteInit == Init => SiteInv
<1> SUFFICES ASSUME Init PROVE SiteInv
  OBVIOUS
<1>1. /\ now = 0 /\ activation = <<>> /\ cache = {}
      /\ shown = [stations |-> {}, at |-> -1]
      /\ since = [t \in Tiplocs |-> -1] /\ seen = [t \in Tiplocs |-> -1]
  BY DEF Init
<1>2. OriginsKnown
  <2>1. ASSUME part # "import", NEW key \in DOMAIN map.schedule
        PROVE  Known(map.schedule[key].origin)
    <3>1. day \in DOMAIN Feeds /\ Imported(day)
      BY <2>1 DEF Init
    <3>2. map.schedule[key] \in Joined(Locations(day), day)
      BY <3>1 DEF Imported
    <3>3. \/ map.schedule[key].origin = NoLocation
          \/ map.schedule[key].origin \in Locations(day)
      BY <3>2, JoinedFacts DEF JoinedWith
    <3> QED
      BY <3>3 DEF Known, Locations
  <2> QED
    BY <1>1, <2>1 DEF OriginsKnown
<1>3. Tracked
  <2>1. At(activation) = {}
    BY <1>1 DEF At, Origins
  <2> QED
    BY <1>1, <2>1 DEF Tracked
<1> QED
  BY <1>1, <1>2, <1>3 DEF SiteInv, CacheHonest, StationsFresh

\* A list made now of active trains is as fresh as can be.
LEMMA ListFacts ==
    ASSUME OriginsKnown, Tracked, ~StationsFail
    PROVE  /\ ListStations \subseteq Tiplocs
           /\ \A t \in ListStations : seen[t] = now
           /\ \A t \in Tiplocs \ ListStations : since[t] = -1
<1>1. ListStations = At(activation)
  BY DEF ListStations, At
<1>2. At(activation) \subseteq Tiplocs
  BY DEF OriginsKnown, Known, At, Origins, StationsFail
<1> QED
  BY <1>1, <1>2 DEF Tracked

\* Following a change of the activations.
LEMMA TrackFacts ==
    ASSUME SiteInv, Track(activation'), OriginsKnown', UNCHANGED <<now, cache, shown>>
    PROVE  SiteInv'
<1>1. /\ since' = [t \in Tiplocs |-> IF t \notin At(activation') THEN -1
                                     ELSE IF since[t] = -1 THEN now ELSE since[t]]
      /\ seen' = [t \in Tiplocs |-> IF t \in At(activation') \cup At(activation) THEN now
                                    ELSE seen[t]]
  BY DEF Track, At
<1>2. Tracked'
  BY <1>1 DEF SiteInv, Tracked
<1>3. \A t \in Tiplocs : /\ seen'[t] >= seen[t]
                         /\ since'[t] \in {-1, now, since[t]}
  BY <1>1 DEF SiteInv, Tracked
<1>4. CacheHonest'
  <2> SUFFICES ASSUME NEW c \in cache
               PROVE  /\ \A t \in c.stations : seen'[t] >= c.until - Expiry
                      /\ \A t \in Tiplocs \ c.stations :
                            since'[t] = -1 \/ since'[t] >= c.until - Expiry
    BY DEF SiteInv, CacheHonest
  <2>1. /\ c.stations \subseteq Tiplocs /\ c.until \in Int /\ c.until - Expiry <= now
        /\ \A t \in c.stations : seen[t] >= c.until - Expiry
        /\ \A t \in Tiplocs \ c.stations : since[t] = -1 \/ since[t] >= c.until - Expiry
    BY DEF SiteInv, CacheHonest
  <2>2. c.until - Expiry \in Int
    BY <2>1, SiteAssumption
  <2>3. \A t \in Tiplocs : seen[t] \in Int /\ seen'[t] \in Int
    BY <1>2 DEF SiteInv, Tracked
  <2> QED
    BY <1>3, <2>1, <2>2, <2>3 DEF SiteInv, Tracked
<1>5. StationsFresh'
  <2> SUFFICES ASSUME shown.at = now
               PROVE  /\ \A t \in shown.stations : now - seen'[t] < Expiry
                      /\ \A t \in Tiplocs \ shown.stations :
                            since'[t] = -1 \/ now - since'[t] < Expiry
    BY DEF StationsFresh
  <2>1. /\ shown.stations \subseteq Tiplocs
        /\ \A t \in shown.stations : now - seen[t] < Expiry
        /\ \A t \in Tiplocs \ shown.stations : since[t] = -1 \/ now - since[t] < Expiry
    BY DEF SiteInv, StationsFresh
  <2>2. \A t \in Tiplocs : seen[t] \in Int /\ seen'[t] \in Int /\ now \in Int
    BY <1>2 DEF SiteInv, Tracked
  <2> QED
    BY <1>3, <2>1, <2>2, SiteAssumption
<1> QED
  BY <1>2, <1>4, <1>5 DEF SiteInv

\* Every step keeps what the pages show.
LEMMA SiteStep == SiteInv /\ [Next]_vars => SiteInv'
<1> SUFFICES ASSUME SiteInv, [Next]_vars PROVE SiteInv'
  OBVIOUS
<1>a. /\ OriginsKnown /\ Tracked /\ CacheHonest /\ StationsFresh
      /\ shown.at \in Int /\ shown.at <= now /\ shown.stations \subseteq Tiplocs
  BY DEF SiteInv
<1>1. CASE UNCHANGED <<part, now, siteVars>> /\ (part = "import" \/ UNCHANGED map)
  <2>1. OriginsKnown'
    BY <1>a, <1>1 DEF OriginsKnown, Known, siteVars
  <2>2. Tracked' /\ CacheHonest' /\ StationsFresh'
    BY <1>a, <1>1 DEF Tracked, CacheHonest, StationsFresh, At, Origins, siteVars
  <2> QED
    BY <1>a, <1>1, <2>1, <2>2 DEF SiteInv, siteVars
<1>2. ASSUME NEW t \in Trains, NEW wtt \in Times, NEW key \in DOMAIN map.schedule,
             Activate(t, key, wtt)
      PROVE  SiteInv'
  <2>1. activation' = Put(activation, t, [schedule |-> map.schedule[key], wtt |-> wtt])
        /\ Track(activation') /\ UNCHANGED <<map, part, now, cache, shown>>
        /\ part # "import"
    BY <1>2 DEF Activate, refVars
  <2>2. Known(map.schedule[key].origin)
    BY <1>a, <2>1 DEF OriginsKnown
  <2>3. \A s \in DOMAIN activation' : Known(activation'[s].schedule.origin)
    BY <1>a, <2>1, <2>2 DEF OriginsKnown, Put
  <2>4. OriginsKnown'
    BY <1>a, <2>1, <2>3 DEF OriginsKnown, Known
  <2> QED
    BY <2>1, <2>4, TrackFacts
<1>3. ASSUME NEW t \in Trains, Deactivate(t)
      PROVE  SiteInv'
  <2>1. activation' = [s \in DOMAIN activation \ {t} |-> activation[s]]
        /\ Track(activation') /\ UNCHANGED <<map, part, now, cache, shown>>
    BY <1>3 DEF Deactivate, refVars
  <2>2. OriginsKnown'
    BY <1>a, <2>1 DEF OriginsKnown, Known
  <2> QED
    BY <2>1, <2>2, TrackFacts
<1>4. ASSUME NEW t \in Movers, NEW delay \in Delays, Move(t, delay)
      PROVE  SiteInv'
  <2>1. UNCHANGED <<map, part, now, activation, cache, shown, since, seen>>
    BY <1>4 DEF Move, refVars
  <2>2. OriginsKnown'
    BY <1>a, <2>1 DEF OriginsKnown, Known
  <2>3. Tracked' /\ CacheHonest' /\ StationsFresh'
    BY <1>a, <2>1 DEF Tracked, CacheHonest, StationsFresh, At, Origins
  <2> QED
    BY <1>a, <2>1, <2>2, <2>3 DEF SiteInv
<1>5. CASE Tick
  <2>1. /\ now' = now + 1
        /\ seen' = [t \in Tiplocs |-> IF since[t] # -1 THEN now + 1 ELSE seen[t]]
        /\ UNCHANGED <<map, part, activation, cache, shown, since>>
    BY <1>5 DEF Tick, refVars
  <2>2. OriginsKnown'
    BY <1>a, <2>1 DEF OriginsKnown, Known
  <2>3. Tracked'
    BY <1>a, <2>1 DEF Tracked, At, Origins
  <2>4. \A t \in Tiplocs : seen'[t] >= seen[t] /\ seen[t] \in Int /\ seen'[t] \in Int
    BY <1>a, <2>1 DEF Tracked
  <2>5. CacheHonest'
    <3> SUFFICES ASSUME NEW c \in cache
                 PROVE  /\ c.until - Expiry <= now + 1
                        /\ \A t \in c.stations : seen'[t] >= c.until - Expiry
      BY <1>a, <2>1 DEF CacheHonest
    <3>1. c.stations \subseteq Tiplocs /\ c.until \in Int /\ c.until - Expiry <= now
          /\ \A t \in c.stations : seen[t] >= c.until - Expiry
      BY <1>a DEF CacheHonest
    <3>2. now \in Int /\ c.until - Expiry \in Int
      BY <1>a, <3>1, SiteAssumption DEF Tracked
    <3> QED
      BY <2>4, <3>1, <3>2
  <2>6. shown'.at \in Int /\ shown'.at < now' /\ now' \in Int
    BY <1>a, <2>1 DEF Tracked
  <2>7. shown'.stations \subseteq Tiplocs
    BY <1>a, <2>1
  <2> QED
    BY <2>2, <2>3, <2>5, <2>6, <2>7 DEF SiteInv, StationsFresh
<1>6. CASE LiveDepartures
  <2> DEFINE valid == {c \in cache : now < c.until}
  <2>1. /\ valid = {} => ~StationsFail
        /\ cache' = IF valid # {} THEN cache
                    ELSE {[stations |-> ListStations, until |-> now + Expiry]}
        /\ shown' = [stations |-> UNION {c.stations : c \in cache'}, at |-> now]
        /\ UNCHANGED <<map, part, now, activation, since, seen>>
    BY <1>6 DEF LiveDepartures, refVars
  <2>2. OriginsKnown'
    BY <1>a, <2>1 DEF OriginsKnown, Known
  <2>3. Tracked'
    BY <1>a, <2>1 DEF Tracked, At, Origins
  <2>4. PICK c \in cache' :
          /\ cache' = {c} /\ now < c.until
          /\ c.stations \subseteq Tiplocs
          /\ c.until \in Int /\ c.until - Expiry <= now
          /\ \A t \in c.stations : seen[t] >= c.until - Expiry
          /\ \A t \in Tiplocs \ c.stations : since[t] = -1 \/ since[t] >= c.until - Expiry
    <3>1. CASE valid # {}
      <4>1. PICK c \in cache : now < c.until
        BY <3>1
      <4>2. cache' = {c}
        BY <1>a, <2>1, <3>1, <4>1 DEF CacheHonest
      <4> QED
        BY <1>a, <4>1, <4>2 DEF CacheHonest
    <3>2. CASE valid = {}
      <4> DEFINE c == [stations |-> ListStations, until |-> now + Expiry]
      <4>1. cache' = {c}
        BY <2>1, <3>2
      <4>2. c.stations = ListStations /\ c.until = now + Expiry
        OBVIOUS
      <4>3. now \in Int /\ Expiry \in Int /\ Expiry > 0
        BY <1>a, SiteAssumption DEF Tracked
      <4>4. now < c.until /\ c.until \in Int /\ c.until - Expiry = now
        BY <4>2, <4>3
      <4> HIDE DEF c
      <4> QED
        BY <1>a, <2>1, <3>2, <4>1, <4>2, <4>3, <4>4, ListFacts
    <3> QED
      BY <3>1, <3>2
  <2>5. CacheHonest'
    BY <2>1, <2>4 DEF CacheHonest
  <2>6. shown'.stations = c.stations /\ shown'.at = now
    BY <2>1, <2>4
  <2>7. StationsFresh'
    <3>1. now \in Int /\ Expiry \in Int
      BY <1>a, SiteAssumption DEF Tracked
    <3>2. \A t \in Tiplocs : seen[t] \in Int /\ since[t] \in Int
      BY <1>a DEF Tracked
    <3>3. ASSUME NEW t \in c.stations PROVE now - seen[t] < Expiry
      BY <2>4, <3>1, <3>2
    <3>4. ASSUME NEW t \in Tiplocs \ c.stations
          PROVE  since[t] = -1 \/ now - since[t] < Expiry
      BY <2>4, <3>1, <3>2
    <3> QED
      BY <2>1, <2>6, <3>3, <3>4 DEF StationsFresh
  <2> QED
    BY <1>a, <2>1, <2>2, <2>3, <2>4, <2>5, <2>6, <2>7 DEF SiteInv, Tracked
<1> QED
  BY <1>1, <1>2, <1>3, <1>4, <1>5, <1>6 DEF Next, vars, refVars

\* A page lists a station for no longer than the cache lasts after its last train
\* has gone, and misses one for no longer after its first train came, whatever
\* number of trains come and go and whenever the pages are asked for.
THEOREM StationsStayFresh == Spec => []StationsFresh
<1>1. SiteInv => StationsFresh
  BY DEF SiteInv
<1> QED
  BY <1>1, SiteInit, SiteStep, PTL DEF Spec

-----------------------------------------------------------------------------
(* The searches.                                                             *)

\* What the two lists hold, whoever put it there.
SearchInv ==
    /\ IsFiniteSet(DOMAIN activation) /\ IsFiniteSet(DOMAIN movement)
    /\ \A t \in DOMAIN activation : activation[t].wtt \in Int
    /\ \A t \in DOMAIN movement : movement[t].timestamp \in Int
    /\ now \in Int

\* Every step keeps the two maps finite, with times that are numbers.
LEMMA SearchStep == SearchInv /\ [Next]_vars => SearchInv'
<1> SUFFICES ASSUME SearchInv, [Next]_vars PROVE SearchInv'
  OBVIOUS
<1> USE DEF SearchInv
<1>1. ASSUME NEW t \in Trains, NEW wtt \in Times, NEW key \in DOMAIN map.schedule,
             Activate(t, key, wtt)
      PROVE  SearchInv'
  <2>1. PICK v : v = [schedule |-> map.schedule[key], wtt |-> wtt]
    OBVIOUS
  <2>2. activation' = Put(activation, t, v) /\ UNCHANGED <<now, movement>> /\ v.wtt \in Int
    BY <1>1, <2>1, SiteAssumption DEF Activate
  <2>3. /\ DOMAIN activation' = DOMAIN activation \cup {t}
        /\ \A s \in DOMAIN activation' : activation'[s] \in {v, activation[s]}
        /\ activation'[t] = v
        /\ \A s \in DOMAIN activation : s # t => activation'[s] = activation[s]
    BY <2>2 DEF Put
  <2>4. IsFiniteSet(DOMAIN activation')
    BY <2>3, FS_AddElement
  <2> QED
    BY <2>2, <2>3, <2>4
<1>2. ASSUME NEW t \in Trains, Deactivate(t) PROVE SearchInv'
  <2>1. /\ activation' = [s \in DOMAIN activation \ {t} |-> activation[s]]
        /\ UNCHANGED <<now, movement>>
    BY <1>2 DEF Deactivate
  <2>2. IsFiniteSet(DOMAIN activation \ {t})
    BY FS_Subset
  <2> QED
    BY <2>1, <2>2
<1>3. ASSUME NEW t \in Movers, NEW delay \in Delays, Move(t, delay) PROVE SearchInv'
  <2>1. PICK v : v = [delay |-> delay, timestamp |-> now]
    OBVIOUS
  <2>2. /\ movement' = Put(movement, t, v) /\ UNCHANGED <<now, activation>>
        /\ v.timestamp \in Int
    BY <1>3, <2>1 DEF Move
  <2>3. /\ DOMAIN movement' = DOMAIN movement \cup {t} /\ movement'[t] = v
        /\ \A s \in DOMAIN movement : s # t => movement'[s] = movement[s]
    BY <2>2 DEF Put
  <2>4. IsFiniteSet(DOMAIN movement')
    BY <2>3, FS_AddElement
  <2> QED
    BY <2>2, <2>3, <2>4
<1>4. CASE Tick
  BY <1>4 DEF Tick
<1>5. CASE LiveDepartures
  BY <1>5 DEF LiveDepartures
<1>6. CASE UNCHANGED <<now, siteVars>>
  BY <1>6 DEF siteVars
<1> QED
  BY <1>1, <1>2, <1>3, <1>4, <1>5, <1>6 DEF Next, vars

\* A list of values names each key of the map once.
LEMMA OrderFacts ==
    ASSUME NEW T, IsFiniteSet(T), NEW order \in Orders(T), NEW n, n = Cardinality(T)
    PROVE  /\ n \in Nat /\ order \in [1..n -> T] /\ DOMAIN order = 1..n
           /\ \A i, j \in 1..n : order[i] = order[j] => i = j
           /\ \A t \in T : \E i \in 1..n : order[i] = t
           /\ IsFiniteSet(1..n) /\ Cardinality(1..n) = n /\ 1..n \in SUBSET Int
<1>1. n \in Nat
  BY FS_CardinalityType
<1>2. order \in [1..n -> T] /\ \A i, j \in 1..n : order[i] = order[j] => i = j
  BY DEF Orders, IsInjective
<1>3. IsFiniteSet(1..n) /\ Cardinality(1..n) = n
  BY <1>1, FS_Interval
<1>4. \A t \in T : \E i \in 1..n : order[i] = t
  <2>1. PICK S : S = 1..n
    OBVIOUS
  <2>2. order \in [S -> T] /\ OneToOne(order, S) /\ Cardinality(S) = Cardinality(T)
    BY <1>2, <1>3, <2>1 DEF OneToOne
  <2>3. \A t \in T : \E i \in S : order[i] = t
    BY <2>2, InjectionReaches
  <2> QED
    BY <2>1, <2>3
<1> QED
  BY <1>1, <1>2, <1>3, <1>4

\* A list of the map's values, sorted: later movements first.
LaterFirst(order, s, n) ==
    /\ n \in Nat /\ s \in [1..n -> 1..n]
    /\ \A i \in 1..n : \E k \in 1..n : s[k] = i
    /\ \A j, k \in 1..n : s[j] = s[k] => j = k
    /\ \A j, k \in 1..n : j < k =>
         movement[order[s[j]]].timestamp >= movement[order[s[k]]].timestamp

\* The movements as sorted: later ones come first.
LEMMA SortedMovements ==
    ASSUME SearchInv, NEW order \in Orders(DOMAIN movement),
           NEW n, n = Cardinality(DOMAIN movement), NEW all, all = DOMAIN order,
           NEW later, later = {p \in all \X all : Later(order[p[1]], order[p[2]])},
           NEW s, s = Sorted(all, Stable(all, later))
    PROVE  LaterFirst(order, s, n)
<1>0. all = 1..n
  BY OrderFacts DEF SearchInv
<1>1. /\ n \in Nat /\ order \in [1..n -> DOMAIN movement]
      /\ IsFiniteSet(1..n) /\ Cardinality(1..n) = n /\ 1..n \in SUBSET Int
  BY OrderFacts DEF SearchInv
<1>2. PICK key : key = [i \in 1..n |-> 0 - movement[order[i]].timestamp]
  OBVIOUS
<1>3. \A i \in 1..n : /\ movement[order[i]].timestamp \in Int
                      /\ key[i] = 0 - movement[order[i]].timestamp /\ key[i] \in Int
  BY <1>1, <1>2 DEF SearchInv
<1>4. key \in [1..n -> Int]
  BY <1>2, <1>3
<1>5. \A i, j \in 1..n : <<i, j>> \in later <=> key[i] < key[j]
  <2> TAKE i, j \in 1..n
  <2>1. <<i, j>> \in later <=>
          movement[order[i]].timestamp > movement[order[j]].timestamp
    BY <1>0 DEF Later
  <2> QED
    BY <1>3, <2>1
<1>6. PICK P : P = all /\ P = 1..n
  BY <1>0
<1>7. SortedBy(s, n, P, key)
  <2>1. /\ P \in SUBSET Int /\ IsFiniteSet(P) /\ key \in [P -> Int] /\ n = Cardinality(P)
        /\ ComparesBy(later, P, key) /\ s = Sorted(P, Stable(P, later))
    BY <1>1, <1>4, <1>5, <1>6 DEF ComparesBy
  <2> QED
    BY <2>1, StableTheorem
<1>8. \A i, j \in 1..n : key[i] <= key[j] =>
        movement[order[i]].timestamp >= movement[order[j]].timestamp
  <2> TAKE i, j \in 1..n
  <2>1. /\ movement[order[i]].timestamp \in Int /\ movement[order[j]].timestamp \in Int
        /\ key[i] = 0 - movement[order[i]].timestamp
        /\ key[j] = 0 - movement[order[j]].timestamp
    BY <1>3
  <2> QED
    BY <2>1
<1>9. \A j, k \in 1..n : s[j] \in 1..n /\ s[k] \in 1..n
  BY <1>6, <1>7 DEF SortedBy
<1> QED
  BY <1>6, <1>7, <1>8, <1>9 DEF SortedBy, LaterFirst

\* What the search for delayed trains lists of a window.
LEMMA DelayedFacts ==
    ASSUME SearchInv, NEW order \in Orders(DOMAIN movement), NEW w, NEW t \in DOMAIN movement
    PROVE  /\ t \in ToSet(DelayedTrains(order, w)) => w = DelayWindow(movement[t].delay)
           /\ (t \notin ToSet(DelayedTrains(order, w)) /\ w = DelayWindow(movement[t].delay))
                => Cardinality({s \in DOMAIN movement \ {t} :
                      /\ DelayWindow(movement[s].delay) = DelayWindow(movement[t].delay)
                      /\ movement[s].timestamp >= movement[t].timestamp}) >= MaxResults
<1>1. PICK n : n = Cardinality(DOMAIN movement)
  OBVIOUS
<1> DEFINE all == DOMAIN order
           later == {p \in all \X all : Later(order[p[1]], order[p[2]])}
           s == Sorted(all, Stable(all, later))
           in == {k \in all : DelayWindow(movement[order[s[k]]].delay) = w}
           first == FirstPlaces(in, MaxResults)
           places == Ascending(first)
<1>2. DelayedTrains(order, w) = [k \in DOMAIN places |-> order[s[places[k]]]]
  BY DEF DelayedTrains
<1>3. LaterFirst(order, s, n)
  <2> HIDE DEF s, later, all
  <2> QED
    BY <1>1, SortedMovements DEF all, later, s
<1> HIDE DEF s, in, first, places
<1>4. /\ n \in Nat /\ s \in [1..n -> 1..n]
      /\ \A i \in 1..n : \E k \in 1..n : s[k] = i
      /\ \A j, k \in 1..n : s[j] = s[k] => j = k
      /\ \A j, k \in 1..n : j < k =>
           movement[order[s[j]]].timestamp >= movement[order[s[k]]].timestamp
  BY <1>3 DEF LaterFirst
<1>5. /\ order \in [1..n -> DOMAIN movement] /\ DOMAIN order = 1..n
      /\ \A i, j \in 1..n : order[i] = order[j] => i = j
      /\ \A x \in DOMAIN movement : \E i \in 1..n : order[i] = x
      /\ IsFiniteSet(1..n)
  BY <1>1, OrderFacts DEF SearchInv
<1>6. in = {k \in 1..n : DelayWindow(movement[order[s[k]]].delay) = w}
  BY <1>5 DEF in
<1>7. first = FirstPlaces(in, MaxResults)
  BY DEF first
<1>8. places = Ascending(first)
  BY DEF places
<1>9. /\ in \in SUBSET Int /\ in \subseteq 1..n /\ IsFiniteSet(in)
       /\ first \in SUBSET Int /\ first \subseteq in /\ IsFiniteSet(first)
  <2>1. in \subseteq 1..n
    BY <1>6
  <2>2. in \in SUBSET Int /\ IsFiniteSet(in)
    <3>1. PICK P : P = 1..n
      OBVIOUS
    <3>2. IsFiniteSet(P) /\ in \in SUBSET P /\ P \subseteq Int
      BY <1>4, <1>5, <2>1, <3>1
    <3> QED
      BY <3>2, FS_Subset
  <2>3. first \subseteq in
    BY <1>7 DEF FirstPlaces
  <2>4. IsFiniteSet(first)
    BY <2>2, <2>3, FS_Subset
  <2> QED
    BY <2>1, <2>2, <2>3, <2>4
<1>10. /\ DOMAIN places = 1..Cardinality(first)
       /\ \A k \in DOMAIN places : places[k] \in first
       /\ \A x \in first : \E k \in DOMAIN places : places[k] = x
  BY <1>8, <1>9, AscendingTheorem
<1>11. ToSet(DelayedTrains(order, w)) = {order[s[k]] : k \in first}
  BY <1>2, <1>10 DEF ToSet
<1>12. PICK k0 \in 1..n : order[s[k0]] = t
  BY <1>4, <1>5
<1>13. ASSUME t \in ToSet(DelayedTrains(order, w)) PROVE w = DelayWindow(movement[t].delay)
  BY <1>6, <1>9, <1>11, <1>13
<1>14. ASSUME t \notin ToSet(DelayedTrains(order, w)), w = DelayWindow(movement[t].delay)
       PROVE  Cardinality({x \in DOMAIN movement \ {t} :
                      /\ DelayWindow(movement[x].delay) = DelayWindow(movement[t].delay)
                      /\ movement[x].timestamp >= movement[t].timestamp}) >= MaxResults
  <2>1. k0 \in in /\ k0 \notin first
    BY <1>6, <1>11, <1>12, <1>14
  <2>2. PICK B : B = {j \in in : j < k0}
    OBVIOUS
  <2>3. ~(Cardinality(B) < MaxResults)
    BY <1>7, <2>1, <2>2 DEF FirstPlaces
  <2>4. PICK C : C = {x \in DOMAIN movement \ {t} :
                      /\ DelayWindow(movement[x].delay) = DelayWindow(movement[t].delay)
                      /\ movement[x].timestamp >= movement[t].timestamp}
    OBVIOUS
  <2>5. IsFiniteSet(B) /\ IsFiniteSet(C) /\ B \subseteq in
    <3>1. B \subseteq in
      BY <2>2
    <3>2. C \subseteq DOMAIN movement
      BY <2>4
    <3> QED
      BY <1>9, <3>1, <3>2, FS_Subset DEF SearchInv
  <2>6. PICK f : f = [j \in B |-> order[s[j]]]
    OBVIOUS
  <2>7. \A j \in B : f[j] \in C
    <3> TAKE j \in B
    <3>1. j \in 1..n /\ j < k0 /\ j \in in
      BY <1>9, <2>2
    <3>2. s[j] \in 1..n /\ s[k0] \in 1..n /\ j # k0 /\ order[s[j]] \in DOMAIN movement
      <4>1. s[j] \in 1..n /\ s[k0] \in 1..n
        BY <1>4, <1>12, <3>1
      <4>2. j # k0
        BY <1>4, <3>1
      <4> QED
        BY <1>5, <4>1, <4>2
    <3>3. order[s[j]] # t
      BY <1>4, <1>5, <1>12, <3>1, <3>2
    <3>4. DelayWindow(movement[order[s[j]]].delay) = w
      BY <1>6, <3>1
    <3>5. movement[order[s[j]]].timestamp >= movement[t].timestamp
      BY <1>4, <1>12, <3>1
    <3> QED
      BY <1>14, <2>4, <2>6, <3>2, <3>3, <3>4, <3>5
  <2>8. \A i, j \in B : f[i] = f[j] => i = j
    <3> TAKE i, j \in B
    <3>1. i \in 1..n /\ j \in 1..n /\ s[i] \in 1..n /\ s[j] \in 1..n
      BY <1>4, <1>9, <2>5
    <3> QED
      BY <1>4, <1>5, <2>6, <3>1
  <2>9. f \in Injection(B, C)
    BY <2>6, <2>7, <2>8 DEF Injection, IsInjective
  <2>10. Cardinality(B) <= Cardinality(C)
    BY <2>5, <2>9, FS_Injection
  <2>11. Cardinality(B) \in Nat /\ Cardinality(C) \in Nat /\ MaxResults \in Nat
    BY <2>5, FS_CardinalityType, SiteAssumption
  <2>12. Cardinality(C) >= MaxResults
    BY <2>3, <2>10, <2>11
  <2> QED
    BY <2>4, <2>12
<1> QED
  BY <1>13, <1>14

\* What the live search shows are the latest movements.
LEMMA LatestAreShown == SearchInv => LatestShown
<1> DEFINE windows == {"upTo5mins", "from5to15mins", "from15to30mins", "over30mins"}
<1> SUFFICES ASSUME SearchInv, NEW order \in Orders(DOMAIN movement), NEW t \in DOMAIN movement
             PROVE  LET of == {w \in windows : t \in ToSet(DelayedTrains(order, w))}
                        same == {s \in DOMAIN movement :
                           DelayWindow(movement[s].delay) = DelayWindow(movement[t].delay)}
                    IN /\ of \subseteq {DelayWindow(movement[t].delay)}
                       /\ of = {} => Cardinality({s \in same \ {t} :
                            movement[s].timestamp >= movement[t].timestamp}) >= MaxResults
  BY DEF LatestShown
<1> DEFINE of == {w \in windows : t \in ToSet(DelayedTrains(order, w))}
           w0 == DelayWindow(movement[t].delay)
           same == {s \in DOMAIN movement : DelayWindow(movement[s].delay) = w0}
<1>1. of \subseteq {w0}
  BY DelayedFacts
<1>2. ASSUME of = {}
      PROVE  Cardinality({s \in same \ {t} :
                            movement[s].timestamp >= movement[t].timestamp}) >= MaxResults
  <2>1. w0 \in windows
    BY DEF DelayWindow
  <2>2. t \notin ToSet(DelayedTrains(order, w0))
    BY <1>2, <2>1
  <2>3. {s \in same \ {t} : movement[s].timestamp >= movement[t].timestamp} =
        {s \in DOMAIN movement \ {t} :
           /\ DelayWindow(movement[s].delay) = DelayWindow(movement[t].delay)
           /\ movement[s].timestamp >= movement[t].timestamp}
    OBVIOUS
  <2> QED
    BY <2>2, <2>3, DelayedFacts
<1> QED
  BY <1>1, <1>2

\* What is due, up to the limit.
LEMMA EarliestFacts ==
    ASSUME SearchInv, NEW order \in Orders(DOMAIN activation),
           NEW due, due \subseteq DOMAIN activation
    PROVE  Lists(EarliestFirst(order, due), due)
<1>1. PICK n : n = Cardinality(DOMAIN activation)
  OBVIOUS
<1>2. /\ n \in Nat /\ order \in [1..n -> DOMAIN activation] /\ DOMAIN order = 1..n
      /\ \A i, j \in 1..n : order[i] = order[j] => i = j
      /\ \A t \in DOMAIN activation : \E i \in 1..n : order[i] = t
      /\ IsFiniteSet(1..n) /\ 1..n \in SUBSET Int
  BY <1>1, OrderFacts DEF SearchInv
<1>4. PICK W : W = {i \in 1..n : order[i] \in due}
  OBVIOUS
<1>5. W = {i \in DOMAIN order : order[i] \in due}
  BY <1>2, <1>4
<1>6. PICK L : L = FirstPlaces(W, MaxResults)
  OBVIOUS
<1>7. PICK R : R = {p \in L \X L : activation[order[p[1]]].wtt < activation[order[p[2]]].wtt}
  OBVIOUS
<1>8. PICK s : s = Sorted(L, Stable(L, R))
  OBVIOUS
<1>9. PICK result : result = [k \in DOMAIN s |-> order[s[k]]]
  OBVIOUS
<1>10. EarliestFirst(order, due) = result
  BY <1>5, <1>6, <1>7, <1>8, <1>9 DEF EarliestFirst
<1>11. W \subseteq 1..n /\ W \in SUBSET Int /\ IsFiniteSet(W)
  <2>1. W \subseteq 1..n
    BY <1>4
  <2> QED
    BY <1>2, <2>1, FS_Subset
<1>12. /\ L \subseteq W /\ IsFiniteSet(L) /\ L \in SUBSET Int
       /\ Cardinality(L) = IF Cardinality(W) < MaxResults THEN Cardinality(W)
                           ELSE MaxResults
  BY <1>6, <1>11, SiteAssumption, FirstPlacesSize
<1>13. PICK c : c = Cardinality(L)
  OBVIOUS
<1>14. PICK key : key = [i \in L |-> activation[order[i]].wtt]
  OBVIOUS
<1>15. \A i \in L : order[i] \in DOMAIN activation /\ key[i] = activation[order[i]].wtt
                    /\ key[i] \in Int
  BY <1>2, <1>11, <1>12, <1>14 DEF SearchInv
<1>16. /\ c \in Nat /\ s \in [1..c -> L]
       /\ \A j, k \in 1..c : s[j] = s[k] => j = k
       /\ \A j, k \in 1..c : j < k => key[s[j]] <= key[s[k]]
  <2>1. key \in [L -> Int]
    BY <1>14, <1>15
  <2>2. ComparesBy(R, L, key)
    BY <1>7, <1>15 DEF ComparesBy
  <2>3. SortedBy(s, c, L, key)
    BY <1>8, <1>12, <1>13, <2>1, <2>2, StableTheorem
  <2> QED
    BY <2>3 DEF SortedBy
<1>17. /\ DOMAIN result = 1..c /\ \A k \in 1..c : result[k] = order[s[k]] /\ s[k] \in L
  BY <1>9, <1>16
<1>18. ToSet(result) \subseteq due
  BY <1>4, <1>12, <1>17 DEF ToSet
<1>19. IsInjective(result)
  <2> SUFFICES ASSUME NEW j \in 1..c, NEW k \in 1..c, result[j] = result[k] PROVE j = k
    BY <1>17 DEF IsInjective
  <2>1. s[j] \in 1..n /\ s[k] \in 1..n /\ order[s[j]] = order[s[k]]
    BY <1>11, <1>12, <1>17
  <2> QED
    BY <1>2, <1>16, <2>1
<1>20. Cardinality(W) = Cardinality(due)
  <2>1. PICK f : f = [i \in W |-> order[i]]
    OBVIOUS
  <2>2. \A i \in W : f[i] \in due
    BY <1>4, <2>1
  <2>3. \A i, j \in W : f[i] = f[j] => i = j
    BY <1>2, <1>11, <2>1
  <2>4. \A t \in due : \E i \in W : f[i] = t
    <3> TAKE t \in due
    <3>1. PICK i \in 1..n : order[i] = t
      BY <1>2
    <3> QED
      BY <1>4, <2>1, <3>1
  <2>5. f \in Bijection(W, due)
    BY <2>1, <2>2, <2>3, <2>4 DEF Bijection, Injection, Surjection, IsInjective
  <2> QED
    BY <1>11, <2>5, FS_Bijection DEF ExistsBijection
<1>21. Len(result) = IF Cardinality(due) < MaxResults THEN Cardinality(due) ELSE MaxResults
  <2>1. Len(result) = c
    BY <1>16, <1>17
  <2> QED
    BY <1>12, <1>13, <1>20, <2>1
<1>22. \A i, j \in DOMAIN result : i < j =>
          activation[result[i]].wtt <= activation[result[j]].wtt
  <2> TAKE i, j \in DOMAIN result
  <2> HAVE i < j
  <2>1. i \in 1..c /\ j \in 1..c /\ key[s[i]] <= key[s[j]]
    BY <1>16, <1>17
  <2> QED
    BY <1>15, <1>17, <2>1
<1> QED
  BY <1>10, <1>18, <1>19, <1>21, <1>22 DEF Lists

\* Both searches for departures, and when the second throws.
LEMMA DeparturesAreInOrder == SearchInv => DeparturesInOrder
<1> SUFFICES ASSUME SearchInv, NEW order \in Orders(DOMAIN activation)
             PROVE  /\ Lists(AllDepartures(order), DueWithin(3))
                    /\ \A t0 \in Tiplocs :
                         IF DeparturesFail(order, t0) THEN NoLocation \in Origins(activation)
                         ELSE Lists(DeparturesOf(order, t0), DueAt(t0))
  BY DEF DeparturesInOrder
<1>1. Lists(AllDepartures(order), DueWithin(3))
  <2>1. DueWithin(3) \subseteq DOMAIN activation
    BY DEF DueWithin
  <2> QED
    BY <2>1, EarliestFacts DEF AllDepartures
<1>2. ASSUME NEW t0 \in Tiplocs
      PROVE  Lists(DeparturesOf(order, t0), DueAt(t0))
  <2>1. DueAt(t0) \subseteq DOMAIN activation
    BY DEF DueAt, DueWithin
  <2> QED
    BY <2>1, EarliestFacts DEF DeparturesOf
<1>3. ASSUME NEW t0 \in Tiplocs, DeparturesFail(order, t0)
      PROVE  NoLocation \in Origins(activation)
  <2>1. PICK i \in DOMAIN order : activation[order[i]].schedule.origin = NoLocation
    BY <1>3 DEF DeparturesFail
  <2>2. order[i] \in DOMAIN activation
    BY <2>1 DEF Orders
  <2> QED
    BY <2>1, <2>2 DEF Origins
<1> QED
  BY <1>1, <1>2, <1>3

\* Whatever moves, comes and goes, and in whatever order the maps list it, the
\* searches show the latest of each window and what is due in the order of its
\* departure, and leave out only what they have no room for; only a train without
\* an origin makes the search of a station throw.
THEOREM SearchesAreAnswered == Spec => []SearchesAnswer
<1>1. Init => SearchInv
  <2> SUFFICES ASSUME Init PROVE SearchInv
    OBVIOUS
  <2>1. DOMAIN activation = {} /\ DOMAIN movement = {} /\ now = 0
    BY DEF Init
  <2> QED
    BY <2>1, FS_EmptySet DEF SearchInv
<1>2. SearchInv => SearchesAnswer
  BY LatestAreShown, DeparturesAreInOrder DEF SearchesAnswer
<1> QED
  BY <1>1, <1>2, SearchStep, PTL DEF Spec
=============================================================================
