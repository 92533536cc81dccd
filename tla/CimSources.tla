----------------------------- MODULE CimSources -----------------------------
(***************************************************************************)
(* Where the data of a CIM episode comes from: CimDataContainerWrapper and *)
(* the containers it builds from a configuration, from dumps or from files *)
(* (maro/data_lib/cim/cim_data_container_helpers.py,                       *)
(* cim_data_container.py), the random streams they draw from               *)
(* (maro/simulator/utils/sim_random.py), and the dump and load of a        *)
(* generated collection (cim_data_dump.py, cim_data_loader.py).            *)
(*                                                                         *)
(* The n-th draw of a stream with seed s is <<s, n>>: equal draws are      *)
(* equal numbers.  One environment lives in the process: another one would *)
(* share the streams.  Ports and ticks of recorded orders are numbers.     *)
(***************************************************************************)
EXTENDS Integers, Sequences, FiniteSets, SequencesExt

CONSTANTS
  Seeds,          \* seeds a user sets and resets draw
  ConfSeed,       \* seed of the configuration, of the dumps and of the files
  OrderNoise,     \* is there noise on the number of orders of a tick?
  Configs,        \* config.yml: [ports, routes, vessels, usage], each a sequence in file order
  StopLists,      \* the vessels' stops and periods, [stops, periods]: CimData generates them
  TotalBoxes,     \* total_containers
  Whole,          \* proportions are in 1 / Whole
  UsageNoises,    \* noise on the orders of a tick
  Folders,        \* folders of recorded data: [ports, csv, bin, max_tick]; rows [tick, src, dest, quantity]
  NoFile,         \* a file that is not there
  MaxDraws,       \* bound: orders and buffer times drawn in an episode
  MaxEpisodes     \* bound: resets

ASSUME SourcesAssumption ==
  /\ Seeds \subseteq Nat /\ ConfSeed \in Nat /\ OrderNoise \in BOOLEAN

VARIABLES
  kind,        \* "config", "dumps" or "files"; "dump": no environment, data is dumped
  keys,        \* _rand_instances: the keys in the order of their creation
  seedOf,      \* _seed_dict: key -> seed
  drawn,       \* key -> draws since the stream was seeded
  base,        \* _seed of SimRandom
  topology,    \* seed of the data the container was built from
  needReset,   \* _is_need_reset_seed of the container
  random_seed, re_init,   \* of the wrapper
  nth,         \* [orders, buffers]: draws of the episode
  seen,        \* draws of all episodes: [topology, key, n, value]
  episodes,
  collection, files, loaded,  \* the data of the container, its dumps and whether they are loaded
  handedOrders \* history: the recorded orders handed out in the episode

sourceVars == <<kind, keys, seedOf, drawn, base, topology, needReset, random_seed, re_init,
                nth, seen, episodes, collection, files, loaded, handedOrders>>
streams == <<keys, seedOf, drawn, base>>
fileState == <<collection, files, loaded, handedOrders>>

----------------------------------------------------------------------------
(* SimRandom.  A state of it is [keys, seedOf, drawn, base].               *)

Streams == [keys |-> keys, seedOf |-> seedOf, drawn |-> drawn, base |-> base]
SetStreams(r) == keys' = r.keys /\ seedOf' = r.seedOf /\ drawn' = r.drawn /\ base' = r.base

IndexOf(r, k) == CHOOSE n \in DOMAIN r.keys : r.keys[n] = k

(* seed(): every stream gets the seed, shifted by its place.               *)
seed(r, s) ==
  [r EXCEPT !.base = s,
            !.seedOf = [k \in DOMAIN r.seedOf |-> s + IndexOf(r, k) - 1],
            !.drawn = [k \in DOMAIN r.drawn |-> 0]]

(* A stream is created when it is first used.                              *)
create_instance(r, k) ==
  IF k \in DOMAIN r.seedOf THEN r
  ELSE [keys |-> Append(r.keys, k),
        seedOf |-> [x \in DOMAIN r.seedOf \cup {k} |->
                      IF x = k THEN r.base + Len(r.keys) ELSE r.seedOf[x]],
        drawn |-> [x \in DOMAIN r.drawn \cup {k} |-> IF x = k THEN 0 ELSE r.drawn[x]],
        base |-> r.base]

(* The stream starts again without its seed.                               *)
reset_seedNot(r, k) == create_instance(r, k)

reset_seed(r, k) == [create_instance(r, k) EXCEPT !.drawn[k] = 0]

Draw(r, k) == [create_instance(r, k) EXCEPT !.drawn[k] = @ + 1]
Value(r, k) == LET q == create_instance(r, k) IN <<q.seedOf[k], q.drawn[k]>>

----------------------------------------------------------------------------
(* Parsing the configuration: the order in the file numbers the ports,     *)
(* routes and vessels; targets are given by name.                          *)

Mapping(nodes) == [name \in {nodes[k].name : k \in DOMAIN nodes} |->
                     CHOOSE k \in DOMAIN nodes : nodes[k].name = name]

parse_vessels(conf) ==
  [k \in DOMAIN conf |-> [index |-> k, name |-> conf[k].name, route |-> conf[k].route, start |-> conf[k].start]]

parse_routes(conf) ==
  [k \in DOMAIN conf |->
     [n \in DOMAIN conf[k].points |->
        [index |-> k, port |-> conf[k].points[n].port, distance |-> conf[k].points[n].distance]]]

parse_ports(conf) ==
  [k \in DOMAIN conf |->
     [index |-> k, name |-> conf[k].name, empty |-> (conf[k].share * TotalBoxes) \div Whole,
      empty_return |-> conf[k].empty_return, full_return |-> conf[k].full_return,
      source |-> conf[k].source,
      targets |-> [n \in DOMAIN conf[k].targets |->
                     [index |-> Mapping(conf)[conf[k].targets[n].name], base |-> conf[k].targets[n].proportion]]]]

(* The nodes of a period, completed at both ends.                          *)
SampleNodes(conf) ==
  LET given == conf.nodes
      first == IF given[1].x # 0 THEN <<[x |-> 0, y |-> 0]>> \o given ELSE given
  IN  IF Last(first).x # conf.period - 1 THEN Append(first, [x |-> conf.period - 1, y |-> 0]) ELSE first

(* The line between the nodes around t, the noise, clipped to [0, 1].  A   *)
(* tick whose share is zero stays without orders.                          *)
parse_global_order_proportion(conf, noise) ==
  LET nodes == SampleNodes(conf)
      At(x) == IF \E n \in DOMAIN nodes : nodes[n].x = x
               THEN [num |-> nodes[CHOOSE n \in DOMAIN nodes : nodes[n].x = x].y, den |-> Whole]
               ELSE LET n == CHOOSE m \in 1 .. Len(nodes) - 1 : nodes[m].x < x /\ x < nodes[m + 1].x
                        width == nodes[n + 1].x - nodes[n].x
                    IN  [num |-> nodes[n].y * (nodes[n + 1].x - x) + nodes[n + 1].y * (x - nodes[n].x),
                         den |-> width * Whole]
      Clip(v, top) == IF v < 0 THEN 0 ELSE IF v > top THEN top ELSE v
  IN  [k \in DOMAIN noise |->
         LET share == At((k - 1) % conf.period)
         IN  IF share.num = 0 THEN 0
             ELSE (Clip(share.num + noise[k] * (share.den \div Whole), share.den) * TotalBoxes) \div share.den]

(* What gen_cim_data returns, for the stops it generates.                  *)
Collection(conf, st, noise) ==
  [ports |-> parse_ports(conf.ports), port_mapping |-> Mapping(conf.ports),
   routes |-> parse_routes(conf.routes), route_mapping |-> Mapping(conf.routes),
   vessels |-> parse_vessels(conf.vessels), vessel_mapping |-> Mapping(conf.vessels),
   stops |-> st.stops, periods |-> st.periods,
   order_proportion |-> parse_global_order_proportion(conf.usage, noise),
   misc |-> [seed |-> ConfSeed, total |-> TotalBoxes]]

----------------------------------------------------------------------------
(* Recorded data: the ports as they are listed, under the indices they     *)
(* carry, and the orders by tick, from the binary file if there is one.    *)

_load_ports_real(rows) ==
  [ports |-> [k \in DOMAIN rows |-> [index |-> rows[k].index, name |-> rows[k].name]],
   port_mapping |-> [name \in {rows[k].name : k \in DOMAIN rows} |->
                       (CHOOSE row \in {rows[k] : k \in DOMAIN rows} : row.name = name).index]]

_load_orders_from_csv(rows) ==
  [tick \in {rows[k].tick : k \in DOMAIN rows} |-> SelectSeq(rows, LAMBDA row : row.tick = tick)]

(* The items of the file, whose timestamps are the ticks.                  *)
_load_orders_from_bin(items) ==
  LET Order(i) == [tick |-> i.timestamp, src |-> i.src, dest |-> i.dest, quantity |-> i.quantity]
  IN  _load_orders_from_csv([k \in DOMAIN items |-> Order(items[k])])

_load_orders(folder) ==
  IF folder.bin # NoFile THEN _load_orders_from_bin(folder.bin) ELSE _load_orders_from_csv(folder.csv)

load_real_data_from_folder(folder) ==
  [orders |-> _load_orders(folder), max_tick |-> folder.max_tick,
   ports |-> _load_ports_real(folder.ports).ports,
   port_mapping |-> _load_ports_real(folder.ports).port_mapping,
   source |-> folder]

----------------------------------------------------------------------------
(* Building a container.  The generator seeds everything and draws from    *)
(* its two streams; dumps and files come with their own seed.              *)

gen_cim_data(r, s) ==
  LET seeded == seed(r, s)
      ordered == IF OrderNoise THEN Draw(seeded, "order_init") ELSE seeded
  IN  Draw(ordered, "route_init")

_init_data_container(r, s) ==
  /\ topology' = IF kind = "config" THEN s ELSE ConfSeed
  /\ needReset' = FALSE
  /\ SetStreams(IF kind = "config" THEN gen_cim_data(r, s) ELSE seed(r, ConfSeed))

SourcesInit ==
  /\ kind \in {"config", "dumps", "files", "dump"}
  /\ LET empty == [keys |-> <<>>, seedOf |-> [k \in {} |-> 0], drawn |-> [k \in {} |-> 0], base |-> 0]
         r == IF kind = "config" THEN gen_cim_data(empty, ConfSeed) ELSE seed(empty, ConfSeed)
     IN  keys = r.keys /\ seedOf = r.seedOf /\ drawn = r.drawn /\ base = r.base
  /\ topology = ConfSeed /\ needReset = FALSE
  /\ random_seed = ConfSeed /\ re_init = FALSE
  /\ nth = [orders |-> 0, buffers |-> 0] /\ seen = {} /\ episodes = 0
  /\ \/ /\ kind = "files"
        /\ \E folder \in Folders : collection = load_real_data_from_folder(folder)
     \/ /\ kind # "files"
        /\ \E conf \in Configs, st \in StopLists, noise \in [1 .. 3 -> UsageNoises] :
              /\ collection = Collection(conf, st, noise)
              /\ kind # "dump" => /\ conf = CHOOSE c \in Configs : TRUE
                                  /\ st = CHOOSE c \in StopLists : TRUE
                                  /\ noise = CHOOSE f \in [1 .. 3 -> UsageNoises] : TRUE
  /\ files = <<>> /\ loaded = FALSE /\ handedOrders = <<>>

(* Env.set_seed takes effect at the next reset.                            *)
set_seed(s) ==
  /\ random_seed' = s /\ re_init' = TRUE
  /\ UNCHANGED <<kind, streams, topology, needReset, nth, seen, episodes, fileState>>

(* Env.reset: without keep_seed the route's stream gives the new seed.     *)
wrapper_reset(keep_seed, new) ==
  /\ episodes < MaxEpisodes /\ episodes' = episodes + 1
  /\ nth' = [orders |-> 0, buffers |-> 0]
  /\ random_seed' = IF keep_seed THEN random_seed ELSE new
  /\ re_init' = FALSE
  /\ IF ~ keep_seed \/ re_init
     THEN _init_data_container(IF keep_seed THEN Streams ELSE Draw(Streams, "route_init"),
                               random_seed')
     ELSE needReset' = TRUE /\ UNCHANGED <<streams, topology>>
  /\ handedOrders' = <<>>
  /\ UNCHANGED <<kind, seen, collection, files, loaded>>

(* _reset_seed of the containers: of both streams where orders are         *)
(* generated, of the buffer times where they are read.                     *)
_reset_seed(r) ==
  LET buffers == reset_seed(r, "buffer_time")
  IN  IF kind = "files" THEN buffers ELSE reset_seed(buffers, "order_number")

Saw(key, n, value) == seen' = seen \cup {[topology |-> topology, key |-> key, n |-> n, value |-> value]}

(* The recorded orders of a tick.                                          *)
OrdersAt(tick) ==
  IF tick >= collection.max_tick \/ tick \notin DOMAIN collection.orders THEN <<>>
  ELSE collection.orders[tick]

(* The orders of the next tick; read from files they need no draw.         *)
get_orders ==
  LET r == IF needReset THEN _reset_seed(Streams) ELSE Streams
  IN  /\ nth.orders < MaxDraws
      /\ needReset' = FALSE
      /\ nth' = [nth EXCEPT !.orders = @ + 1]
      /\ IF kind = "files"
         THEN SetStreams(r) /\ handedOrders' = handedOrders \o OrdersAt(nth.orders) /\ UNCHANGED seen
         ELSE SetStreams(Draw(r, "order_number"))
              /\ Saw("order_number", nth.orders, Value(r, "order_number"))
              /\ UNCHANGED handedOrders
      /\ UNCHANGED <<kind, topology, random_seed, re_init, episodes, collection, files, loaded>>

(* A buffer time; the engine asks for orders before it needs one.          *)
buffer_tick ==
  /\ nth.orders > 0 /\ nth.buffers < MaxDraws
  /\ nth' = [nth EXCEPT !.buffers = @ + 1]
  /\ SetStreams(Draw(Streams, "buffer_time"))
  /\ Saw("buffer_time", nth.buffers, Value(Streams, "buffer_time"))
  /\ UNCHANGED <<kind, topology, needReset, random_seed, re_init, episodes, fileState>>

----------------------------------------------------------------------------
(* Dump and load.  The rows of a file are in the order written; the loader *)
(* sorts them into the lists by the indices they carry.                    *)

Numbered(lists, Row(_, _)) ==
  FlattenSeq([n \in DOMAIN lists |-> [k \in DOMAIN lists[n] |-> Row(n, lists[n][k])]])
NameOf(mapping, index) == CHOOSE name \in DOMAIN mapping : mapping[name] = index

_dump_stops(c) ==
  Numbered(c.stops, LAMBDA v, s : [vessel |-> v, port |-> s.port, arrival |-> s.arrive, departure |-> s.leave])

_dump_ports(c) ==
  [k \in DOMAIN c.ports |->
     [index |-> c.ports[k].index, name |-> c.ports[k].name, empty |-> c.ports[k].empty,
      order_proportion |-> c.ports[k].source,
      empty_return_buffer |-> c.ports[k].empty_return, full_return_buffer |-> c.ports[k].full_return]]

_dump_vessels(c) ==
  [v \in DOMAIN c.vessels |->
     [index |-> c.vessels[v].index, name |-> c.vessels[v].name, route_name |-> c.vessels[v].route,
      route_index |-> c.route_mapping[c.vessels[v].route], start_port_name |-> c.vessels[v].start,
      start_port_index |-> c.port_mapping[c.vessels[v].start], period |-> c.periods[c.vessels[v].index]]]

_dump_routes(c) ==
  Numbered(c.routes, LAMBDA r, p : [index |-> p.index, name |-> NameOf(c.route_mapping, p.index),
                                    port |-> p.port, distance |-> p.distance])

_dump_order_proportions(c) ==
  Numbered([k \in DOMAIN c.ports |-> c.ports[k].targets],
           LAMBDA p, t : [source |-> p, dest |-> t.index, proportion |-> t.base])

_dump_misc(c) == c.misc

(* The files are written one after the other.                              *)
dump ==
  /\ kind = "dump" /\ Len(files) < 7
  /\ files' = Append(files, CASE Len(files) = 0 -> _dump_stops(collection)
                              [] Len(files) = 1 -> _dump_ports(collection)
                              [] Len(files) = 2 -> _dump_vessels(collection)
                              [] Len(files) = 3 -> _dump_routes(collection)
                              [] Len(files) = 4 -> _dump_order_proportions(collection)
                              [] Len(files) = 5 -> _dump_misc(collection)
                              [] OTHER -> collection.order_proportion)
  /\ UNCHANGED <<kind, streams, topology, needReset, random_seed, re_init, nth, seen, episodes,
                 collection, loaded, handedOrders>>

_load_stops(rows, vessel_number) ==
  [v \in 1 .. vessel_number |->
     LET mine == SelectSeq(rows, LAMBDA row : row.vessel = v)
     IN  [k \in DOMAIN mine |-> [port |-> mine[k].port, arrive |-> mine[k].arrival, leave |-> mine[k].departure]]]

(* A row of a route nobody has seen before begins the list of the route.   *)
_load_routes(rows) ==
  FoldLeft(LAMBDA routes, row :
             LET known == IF row.index > Len(routes) THEN Append(routes, <<>>) ELSE routes
             IN  [known EXCEPT ![row.index] =
                    Append(@, [index |-> row.index, port |-> row.port, distance |-> row.distance])],
           <<>>, rows)

(* The last row of a name gives its index.                                 *)
LoadedMapping(rows) ==
  [name \in {rows[k].name : k \in DOMAIN rows} |->
     Last(SelectSeq(rows, LAMBDA row : row.name = name)).index]

_load_order_proportions(rows, port) ==
  LET mine == SelectSeq(rows, LAMBDA row : row.source = port)
  IN  [k \in DOMAIN mine |-> [index |-> mine[k].dest, base |-> mine[k].proportion]]

_load_ports_dump(rows, proportions) ==
  [k \in DOMAIN rows |->
     [index |-> rows[k].index, name |-> rows[k].name, empty |-> rows[k].empty,
      empty_return |-> rows[k].empty_return_buffer, full_return |-> rows[k].full_return_buffer,
      source |-> rows[k].order_proportion,
      targets |-> _load_order_proportions(proportions, rows[k].index)]]

_load_vessels(rows) ==
  [k \in DOMAIN rows |->
     [index |-> rows[k].index, name |-> rows[k].name, route |-> rows[k].route_name, start |-> rows[k].start_port_name]]

_load_vessel_period(rows) == [k \in DOMAIN rows |-> rows[k].period]

load_from_folder(fs) ==
  [ports |-> _load_ports_dump(fs[2], fs[5]), port_mapping |-> LoadedMapping(fs[2]),
   routes |-> _load_routes(fs[4]), route_mapping |-> LoadedMapping(fs[4]),
   vessels |-> _load_vessels(fs[3]), vessel_mapping |-> LoadedMapping(fs[3]),
   stops |-> _load_stops(fs[1], Len(fs[3])), periods |-> _load_vessel_period(fs[3]),
   order_proportion |-> fs[7], misc |-> fs[6]]

load ==
  /\ Len(files) = 7 /\ ~ loaded
  /\ loaded' = TRUE
  /\ UNCHANGED <<kind, streams, topology, needReset, random_seed, re_init, nth, seen, episodes,
                 collection, files, handedOrders>>

SourcesNext ==
  \/ /\ kind # "dump"
     /\ \/ \E s \in Seeds : set_seed(s) \/ wrapper_reset(FALSE, s)
        \/ wrapper_reset(TRUE, random_seed)
        \/ get_orders \/ buffer_tick
  \/ dump \/ load

----------------------------------------------------------------------------
(* Episodes on data of the same seed are the same: the n-th draw of a      *)
(* stream is, whether the container was kept or built again, whatever was  *)
(* drawn, reset or seeded in between and whenever the streams were         *)
(* created.                                                                *)
EqualSeedsEqualEpisodes ==
  \A a, b \in seen :
     a.topology = b.topology /\ a.key = b.key /\ a.n = b.n => a.value = b.value

(* A dumped collection loads back as it was, with ports, routes and        *)
(* vessels under the indices they had, also when a vessel has no stops or  *)
(* a port no targets.                                                      *)
DumpsLoadBack == loaded => load_from_folder(files) = collection

(* Every episode gets the recorded orders of its ticks, each once and in   *)
(* the order of the file, whatever was reset before; none from the tick on *)
(* at which the data ends.  An order's ports are those the file numbers.   *)
RecordedOrdersComeAgain ==
  kind = "files" =>
    LET upTo == {t \in 0 .. nth.orders - 1 : t < collection.max_tick}
        Quantities(orders) == [k \in DOMAIN orders |-> orders[k].quantity]
        Recorded(t) == IF collection.source.bin # NoFile
                       THEN SelectSeq(collection.source.bin, LAMBDA item : item.timestamp = t)
                       ELSE SelectSeq(collection.source.csv, LAMBDA row : row.tick = t)
        InOrder == SetToSortSeq(upTo, <)
    IN  /\ Quantities(handedOrders) = Quantities(FlattenSeq([k \in DOMAIN InOrder |-> Recorded(InOrder[k])]))
        /\ \A k \in DOMAIN collection.ports :
             collection.port_mapping[collection.ports[k].name] = collection.ports[k].index

(* The same data gives the same episodes: on equal seeds, on a dump that   *)
(* was loaded back, and on recorded orders.                                *)
EqualDataEqualEpisodes == EqualSeedsEqualEpisodes /\ DumpsLoadBack /\ RecordedOrdersComeAgain
=============================================================================
