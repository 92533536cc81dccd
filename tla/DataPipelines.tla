--------------------------- MODULE DataPipelines ---------------------------
(***************************************************************************)
(* maro env data generate: the pipelines that download, clean and build    *)
(* the data files of a topology (maro/cli/data_pipeline/base.py,           *)
(* citi_bike.py, vm_scheduling.py, utils.py), and the temporary data an    *)
(* environment builds for itself when the files are missing.               *)
(*                                                                         *)
(* A file is [there, rows].  A generate goes through the steps of its      *)
(* topology; any of them may fail, which ends the command with the files   *)
(* as they are, the one being written cut off.  What a site offers changes *)
(* from time to time.  Coordinates, dates and times are reduced to whether *)
(* a row is kept; the VM files keep the original id of a VM beside the new *)
(* one, to state what they say; of the files of cpu readings there is one. *)
(***************************************************************************)
EXTENDS Integers, Sequences, FiniteSets, FiniteSetsExt, SequencesExt

CONSTANTS
  TripTables,     \* the trip tables offered one after the other: rows [start, end, bike, valid, inside]
  FullStations,   \* station info: rows [id, capacity]
  ToyStations,    \* ids of a toy topology's stations, in the order of the configuration
  ToyTrips,       \* its trips: rows [start, end]
  VmTables,       \* the VM tables: rows [vm, created]
  CpuReadings,    \* cpu readings: sequence of VMs
  SampleSize,     \* VMs of a sampled topology
  MaxGenerates    \* bound: commands

ASSUME PipelineAssumption ==
  /\ Len(TripTables) = Len(VmTables) /\ SampleSize \in Nat
  /\ \E k \in DOMAIN FullStations : FullStations[k].capacity > 0

VARIABLES
  scenario,    \* "citi_bike", "toy" or "vm"
  is_temp,
  offered,     \* which of the tables the site offers
  disk,        \* file -> [there, rows]
  folders,     \* folders that exist
  newFiles, newFolders,   \* _new_file_list, _new_folder_list
  mem,         \* what _preprocess keeps between its files
  at_step,     \* step of the running generate, 0: none runs
  forced,      \* download again what is there
  outcome,     \* "none", "ok", "failed" or "removed"
  generates

pipelineVars == <<scenario, is_temp, offered, disk, folders, newFiles, newFolders, mem, at_step, forced,
                  outcome, generates>>

Downloads == {"trips.zip", "full_station.json", "weather.dl", "vmtable.gz", "readings.gz"}
Clean == {"unzipped", "trips.csv", "weather.csv", "vmtable.csv", "readings.csv"}
Raw == {"vmtable_raw.csv", "readings_raw.csv"}
Build == {"trips.bin", "station_meta.csv", "distance_adj.csv", "weather.bin", "vmtable.bin", "readings.bin"}
FolderOf(file) == CASE file \in Downloads -> "download" [] file \in Clean -> "clean"
                    [] file \in Raw -> "raw" [] OTHER -> "build"
Absent == [there |-> FALSE, rows |-> <<>>]
Holding(rows) == [there |-> TRUE, rows |-> rows]

PipelineInit ==
  /\ scenario \in {"citi_bike", "toy", "vm"} /\ is_temp \in (IF scenario = "vm" THEN {FALSE} ELSE BOOLEAN)
  /\ offered = 1 /\ disk = [f \in Downloads \cup Clean \cup Raw \cup Build |-> Absent]
  /\ folders = {} /\ newFiles = {} /\ newFolders = {} /\ mem = [trips |-> <<>>, ids |-> <<>>, bikes |-> 0]
  /\ at_step = 0 /\ forced = FALSE /\ outcome = "none" /\ generates = 0

(* The steps of a pipeline; a toy pipeline downloads nothing.              *)
CitiBikePipeline ==
  [download |-> <<"download_trips", "download_stations">>,
   clean |-> <<"unzip_trips", "trips", "station_info", "distance">>, build |-> <<"build_trips">>]
NOAAWeatherPipeline ==
  [download |-> <<"download_weather">>, clean |-> <<"weather">>, build |-> <<"build_weather">>]
CitiBikeToyPipeline ==
  [download |-> <<>>, clean |-> <<"gen_stations", "gen_trips", "gen_distance">>, build |-> <<"build_trips">>]
WeatherToyPipeline ==
  [download |-> <<>>, clean |-> <<"gen_weather">>, build |-> <<"build_weather">>]
VmSchedulingPipeline ==
  [download |-> <<"download_vms", "download_readings">>,
   clean |-> <<"unzip_vms", "unzip_readings", "vm_table", "cpu_readings">>,
   build |-> <<"build_vms", "build_readings">>]

CitiBikeTopology == <<CitiBikePipeline, NOAAWeatherPipeline>>
CitiBikeToyTopology == <<CitiBikeToyPipeline, WeatherToyPipeline>>
VmSchedulingTopology == <<VmSchedulingPipeline>>

(* The names of the topologies decide which of them are toys.              *)
CitiBikeProcess == [citi_bike |-> CitiBikeTopology, toy |-> CitiBikeToyTopology]
VmSchedulingProcess == [vm |-> VmSchedulingTopology]
Topology(s) == IF s = "vm" THEN VmSchedulingProcess[s] ELSE CitiBikeProcess[s]

(* All pipelines of the topology download, then clean, then build.         *)
StepsOf(s) ==
  LET t == Topology(s)
  IN  FlattenSeq([k \in DOMAIN t |-> t[k].download]) \o FlattenSeq([k \in DOMAIN t |-> t[k].clean])
        \o FlattenSeq([k \in DOMAIN t |-> t[k].build])

Begun(f) ==
  /\ at_step = 0
  /\ generates' = generates + 1
  /\ at_step' = 1 /\ forced' = f /\ outcome' = "none"
  /\ newFiles' = {} /\ newFolders' = {}     \* a new process object
  /\ UNCHANGED <<scenario, is_temp, offered, disk, folders, mem>>

generate(f) == ~ is_temp /\ generates < MaxGenerates /\ Begun(f)

(* An environment that finds no data builds its own, once, in a folder of  *)
(* its own.                                                                *)
_build_temp_data == is_temp /\ generates = 0 /\ Begun(FALSE)

publish ==
  /\ offered < Len(TripTables)
  /\ offered' = offered + 1
  /\ UNCHANGED <<scenario, is_temp, disk, folders, newFiles, newFolders, mem, at_step, forced, outcome, generates>>

----------------------------------------------------------------------------
(* What a step does with its file.                                         *)

At(name) == at_step > 0 /\ StepsOf(scenario)[at_step] = name

Done ==
  IF at_step = Len(StepsOf(scenario)) THEN at_step' = 0 /\ outcome' = "ok"
  ELSE at_step' = at_step + 1 /\ UNCHANGED outcome
Failed == at_step' = 0 /\ outcome' = "failed"

(* Files and folders are recorded before they are made; clean() makes the  *)
(* build folder with the clean one.  (The VM pipeline records fewer files; *)
(* it is never temporary.)                                                 *)
Recorded(file, made) ==
  /\ newFiles' = newFiles \cup {file}
  /\ newFolders' = newFolders \cup made /\ folders' = folders \cup made
  /\ UNCHANGED <<scenario, is_temp, offered, forced, generates>>

CleanFolders == {"clean", "build"}

(* A file is written whole, or cut off by a failure.                       *)
Written(file, rows) ==
  \/ disk' = [disk EXCEPT ![file] = Holding(rows)] /\ Done
  \/ disk' = [disk EXCEPT ![file] = Holding(<<>>)] /\ Failed

(* download_file writes a temporary file, removes the old one and renames. *)
download_file(file, rows) ==
  \/ disk' = [disk EXCEPT ![file] = Holding(rows)] /\ Done
  \/ UNCHANGED disk /\ Failed
  \/ disk' = [disk EXCEPT ![file] = Absent] /\ Failed

download(step, file, rows) ==
  /\ At(step)
  /\ Recorded(file, {"download"})
  /\ IF ~ forced /\ disk[file].there THEN UNCHANGED disk /\ Done ELSE download_file(file, rows)
  /\ UNCHANGED mem

(* Without weather data a file without usable rows takes its place.        *)
_gen_fall_back_file == <<"empty">>

download_weather ==
  /\ At("download_weather")
  /\ Recorded("weather.dl", {"download"})
  /\ IF ~ forced /\ disk["weather.dl"].there THEN UNCHANGED disk
     ELSE \E rows \in {<<"day">>, _gen_fall_back_file} : disk' = [disk EXCEPT !["weather.dl"] = Holding(rows)]
  /\ Done
  /\ UNCHANGED mem

(* convert(): the binary file holds the rows of the clean one; without it  *)
(* nothing is built.                                                       *)
build(step, file, clean) ==
  /\ At(step)
  /\ Recorded(file, {})
  /\ IF disk[clean].there THEN Written(file, disk[clean].rows) ELSE UNCHANGED disk /\ Done
  /\ UNCHANGED mem

----------------------------------------------------------------------------
(* Trips.                                                                  *)

unzip_trips ==
  /\ At("unzip_trips")
  /\ Recorded("unzipped", CleanFolders)
  /\ Written("unzipped", disk["trips.zip"].rows)
  /\ UNCHANGED mem

_read_src_file(rows) == SelectSeq(rows, LAMBDA t : t.valid)

Docks == MapThenSumSet(LAMBDA k : FullStations[k].capacity, DOMAIN FullStations)
StationNumber == Cardinality({k \in DOMAIN FullStations : FullStations[k].capacity > 0})

(* The index of a station is its place among the ids in order.             *)
IndexOfStation(ids, id) == CHOOSE k \in DOMAIN ids : ids[k] = id

(* The index of a start is its place among the stations trips start at.    *)
_process_src_fileStarts(rows) ==
  LET trips == SelectSeq(rows, LAMBDA t : t.inside)
      used == {trips[k].start : k \in DOMAIN trips} \cup {trips[k].end : k \in DOMAIN trips}
      ids == SetToSortSeq(used, <)
      starts == SetToSortSeq({trips[k].start : k \in DOMAIN trips}, <)
  IN  [bikes |-> Cardinality({rows[k].bike : k \in DOMAIN rows}), ids |-> ids,
       trips |-> [k \in DOMAIN trips |->
                    [start |-> trips[k].start, end |-> trips[k].end,
                     start_index |-> IndexOfStation(starts, trips[k].start),
                     end_index |-> IndexOfStation(ids, trips[k].end)]]]

_process_src_file(rows) ==
  LET trips == SelectSeq(rows, LAMBDA t : t.inside)
      used == {trips[k].start : k \in DOMAIN trips} \cup {trips[k].end : k \in DOMAIN trips}
      ids == SetToSortSeq(used, <)
  IN  [bikes |-> Cardinality({rows[k].bike : k \in DOMAIN rows}), ids |-> ids,
       trips |-> [k \in DOMAIN trips |->
                    [start |-> trips[k].start, end |-> trips[k].end,
                     start_index |-> IndexOfStation(ids, trips[k].start),
                     end_index |-> IndexOfStation(ids, trips[k].end)]]]

_preprocess ==
  /\ At("trips")
  /\ Recorded("trips.csv", {})
  /\ mem' = _process_src_file(_read_src_file(disk["unzipped"].rows))
  /\ Written("trips.csv", mem'.trips)

(* Rounding to the nearest, halves to the even number.                     *)
Rounded(num, den) ==
  LET q == num \div den
      r == 2 * (num % den)
  IN  IF r > den \/ (r = den /\ q % 2 = 1) THEN q + 1 ELSE q

(* Stations the info does not know (or without docks) get the average      *)
(* capacity; bikes are spread in proportion to the docks.                  *)
_process_current_topo_station_info(ids, bikes) ==
  [k \in DOMAIN ids |->
     LET known == {FullStations[n].capacity :
                     n \in {m \in DOMAIN FullStations : FullStations[m].id = ids[k] /\ FullStations[m].capacity > 0}}
         capacity == IF known = {} THEN Docks \div StationNumber ELSE CHOOSE c \in known : TRUE
     IN  [id |-> ids[k], index |-> k, capacity |-> capacity, init |-> Rounded(capacity * bikes, Docks)]]

station_info ==
  /\ At("station_info")
  /\ Recorded("station_meta.csv", {})
  /\ Written("station_meta.csv", _process_current_topo_station_info(mem.ids, mem.bikes))
  /\ UNCHANGED mem

_process_distance ==
  /\ At("distance")
  /\ Recorded("distance_adj.csv", {})
  /\ Written("distance_adj.csv", [k \in DOMAIN mem.ids |-> k])
  /\ UNCHANGED mem

(* Rows without a date or a temperature are dropped.                       *)
weather_preprocess ==
  /\ At("weather")
  /\ Recorded("weather.csv", CleanFolders)
  /\ Written("weather.csv", SelectSeq(disk["weather.dl"].rows, LAMBDA r : r = "day"))
  /\ UNCHANGED mem

----------------------------------------------------------------------------
(* Toy topologies: stations and trips of the configuration.                *)

_gen_stations ==
  /\ At("gen_stations")
  /\ Recorded("station_meta.csv", CleanFolders)
  /\ Written("station_meta.csv", [k \in DOMAIN ToyStations |->
               [id |-> ToyStations[k], index |-> ToyStations[k], capacity |-> 1, init |-> 1]])
  /\ UNCHANGED mem

(* In every two minutes the trips whose probability is large enough; an    *)
(* empty table has no columns to convert.                                  *)
_gen_trips ==
  /\ At("gen_trips")
  /\ Recorded("trips.csv", {})
  /\ \E chosen \in SUBSET (DOMAIN ToyTrips) :
       LET trips == SetToSortSeq(chosen, <)
       IN  IF chosen = {} THEN UNCHANGED disk /\ Failed ELSE Written("trips.csv", [k \in DOMAIN trips |->
             [start |-> ToyTrips[trips[k]].start, end |-> ToyTrips[trips[k]].end,
              start_index |-> ToyTrips[trips[k]].start, end_index |-> ToyTrips[trips[k]].end]])
  /\ UNCHANGED mem

_gen_distance ==
  /\ At("gen_distance")
  /\ Recorded("distance_adj.csv", {})
  /\ Written("distance_adj.csv", ToyStations)
  /\ UNCHANGED mem

_gen_weather ==
  /\ At("gen_weather")
  /\ Recorded("weather.csv", CleanFolders)
  /\ Written("weather.csv", <<"day">>)
  /\ UNCHANGED mem

----------------------------------------------------------------------------
(* VM data.                                                                *)

(* aria2 writes in place; the step waits until everything is complete.     *)
_aria2p_download(step, file, rows) ==
  /\ At(step)
  /\ Recorded(file, {"download"})
  /\ IF ~ forced /\ disk[file].there THEN UNCHANGED disk /\ Done ELSE Written(file, rows)
  /\ UNCHANGED mem

(* A file that was unzipped before is kept, whatever it was made from.     *)
_unzip_file(step, file, raw) ==
  /\ At(step)
  /\ Recorded(raw, CleanFolders \cup {"raw"})
  /\ IF disk[raw].there \/ ~ disk[file].there THEN UNCHANGED disk /\ Done
     ELSE Written(raw, disk[file].rows)
  /\ UNCHANGED mem

(* VMs are numbered in the order of their creation, a sample is drawn.  It *)
(* cannot be larger than the table.                                        *)
_process_vm_table ==
  LET sorted == SortSeq(disk["vmtable_raw.csv"].rows, LAMBDA a, b : a.created < b.created)
      ids == [k \in DOMAIN sorted |-> sorted[k].vm]
  IN  /\ At("vm_table")
      /\ Recorded("vmtable.csv", {})
      /\ IF ~ disk["vmtable_raw.csv"].there \/ Len(sorted) < SampleSize
         THEN UNCHANGED <<disk, mem>> /\ Failed
         ELSE \E sample \in kSubset(SampleSize, DOMAIN sorted) :
                LET kept == SetToSortSeq(sample, <)
                IN  /\ mem' = [mem EXCEPT !.ids = ids,
                                          !.trips = [k \in DOMAIN kept |-> [id |-> kept[k], vm |-> ids[kept[k]]]]]
                    /\ Written("vmtable.csv", mem'.trips)

(* Readings of the VMs of the sample, under their new ids.                 *)
_convert_cpu_readings_id ==
  LET mapped == {mem.trips[k].vm : k \in DOMAIN mem.trips}
      kept == SelectSeq(disk["readings_raw.csv"].rows, LAMBDA v : v \in mapped)
  IN  /\ At("cpu_readings")
      /\ Recorded("readings.csv", {})
      /\ IF disk["readings_raw.csv"].there
         THEN Written("readings.csv", [k \in DOMAIN kept |-> [id |-> IndexOfStation(mem.ids, kept[k]), vm |-> kept[k]]])
         ELSE UNCHANGED disk /\ Failed
      /\ UNCHANGED mem

----------------------------------------------------------------------------
(* An environment's temporary data goes with it: every file, then every    *)
(* folder that was recorded.                                               *)
remove ==
  /\ is_temp /\ at_step = 0 /\ outcome \in {"ok", "failed"}
  /\ disk' = [f \in DOMAIN disk |-> IF f \in newFiles \/ FolderOf(f) \in newFolders THEN Absent ELSE disk[f]]
  /\ folders' = folders \ newFolders
  /\ newFiles' = {} /\ newFolders' = {}
  /\ outcome' = "removed"
  /\ UNCHANGED <<scenario, is_temp, offered, mem, at_step, forced, generates>>

PipelineNext ==
  \/ publish \/ remove \/ _build_temp_data
  \/ \E f \in BOOLEAN : generate(f)
  \/ download("download_trips", "trips.zip", TripTables[offered])
  \/ download("download_stations", "full_station.json", FullStations)
  \/ download_weather \/ unzip_trips \/ _preprocess \/ station_info \/ _process_distance
  \/ weather_preprocess
  \/ _gen_stations \/ _gen_trips \/ _gen_distance \/ _gen_weather
  \/ _aria2p_download("download_vms", "vmtable.gz", VmTables[offered])
  \/ _aria2p_download("download_readings", "readings.gz", CpuReadings)
  \/ _unzip_file("unzip_vms", "vmtable.gz", "vmtable_raw.csv")
  \/ _unzip_file("unzip_readings", "readings.gz", "readings_raw.csv")
  \/ _process_vm_table \/ _convert_cpu_readings_id
  \/ build("build_trips", "trips.bin", "trips.csv")
  \/ build("build_weather", "weather.bin", "weather.csv")
  \/ build("build_vms", "vmtable.bin", "vmtable.csv")
  \/ build("build_readings", "readings.bin", "readings.csv")

----------------------------------------------------------------------------
RowsOf(file) == {disk[file].rows[k] : k \in DOMAIN disk[file].rows}

(* What a successful generate leaves fits together, whatever failed before *)
(* it and whatever the sites offered in between: the indices of a trip are *)
(* the rows of its stations, every station has its distances, no station   *)
(* starts with more bikes than docks unless there are more bikes than      *)
(* docks; a cpu reading is of the VM that has its id in the table.         *)
GeneratedDataAgrees ==
  outcome = "ok" =>
    /\ scenario # "vm" =>
         /\ \A t \in RowsOf("trips.bin") :
              /\ \E s \in RowsOf("station_meta.csv") : s.id = t.start /\ s.index = t.start_index
              /\ \E s \in RowsOf("station_meta.csv") : s.id = t.end /\ s.index = t.end_index
         /\ {s.index : s \in RowsOf("station_meta.csv")} = RowsOf("distance_adj.csv")
         /\ scenario = "citi_bike" /\ mem.bikes <= Docks =>
              \A s \in RowsOf("station_meta.csv") : s.init <= s.capacity
    /\ scenario = "vm" =>
         \A r \in RowsOf("readings.bin") :
           {v.vm : v \in {w \in RowsOf("vmtable.bin") : w.id = r.id}} = {r.vm}

(* Nothing of the temporary data outlives its environment, at whichever    *)
(* step building it failed.                                                *)
TemporaryDataGoes == outcome = "removed" => folders = {} /\ \A f \in DOMAIN disk : ~ disk[f].there

(* What is on disk after a command, a failure or the end of an environment *)
(* can be used or is gone.                                                 *)
DataIsWholeOrGone == GeneratedDataAgrees /\ TemporaryDataGoes
=============================================================================
