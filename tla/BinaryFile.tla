----------------------------- MODULE BinaryFile -----------------------------
(***************************************************************************)
(* Binary data files: BinaryConverter writes the rows of csv files, a      *)
(* BinaryReader reads them through a buffer and remembers where a start    *)
(* offset was found, an ItemTickPicker hands the items out tick by tick,   *)
(* and EventBindBinaryReader turns them into events                        *)
(* (maro/data_lib/binary_converter.py, binary_reader.py and                *)
(* maro/simulator/utils/event_bind_binreader.py).                          *)
(*                                                                         *)
(* An item is its timestamp; positions in the file count items.  A reader  *)
(* is used with one time unit and one generator at a time, as the          *)
(* scenarios do.                                                           *)
(***************************************************************************)
EXTENDS Integers, Sequences, FiniteSets, FiniteSetsExt

CONSTANTS
  Rows,         \* rows of the csv files: [stamp, bad]; bad: "no", "stamp" or "column"
  MaxRows,      \* bound: rows written
  BufferSize,   \* buffer_size
  Units,        \* seconds of a time unit
  UtcStarts,    \* values of utc_start_timestamp, which may also be left out
  FirstTicks,   \* start offsets the pickers are made with
  LastTick,     \* end offset
  MaxPickers    \* bound: pickers made (episodes)

ASSUME FileAssumption ==
  /\ BufferSize \in Nat \ {0} /\ Units \subseteq Nat \ {0}
  /\ LastTick \in Nat /\ FirstTicks \subseteq 0 .. LastTick
  /\ \A row \in Rows : row.stamp \in Int
  /\ UtcStarts \subseteq Int

VARIABLES
  items,     \* data section: timestamps in the order written
  rows,      \* rows written
  conv,      \* converter: [start, end, changed]
  header,    \* [start, end, complete]; complete when the converter is closed
  unit,      \* time unit of the reader
  at,        \* file position of the reader
  readed,    \* _readed_data_size
  buffer,    \* item indices in the buffer
  history,   \* _starttime_offset_history
  gen,       \* the generator items(): [pc, first, known, pre, i]
  picker,    \* the picker: [pc, tick, cached]
  events,    \* events of the episode: [tick, item]
  pickers    \* pickers made

fileVars == <<items, rows, conv, header, unit, at, readed, buffer, history, gen, picker,
              events, pickers>>
readerVars == <<at, readed, buffer, history>>

NoItem == 0
NewGenerator(first) == [pc |-> "new", first |-> first, known |-> FALSE, pre |-> 0, i |-> 0]

FileInit ==
  /\ items = <<>> /\ rows = 0 /\ header = [start |-> 0, end |-> 0, complete |-> FALSE]
  /\ conv \in {[start |-> 0, end |-> 0, changed |-> FALSE]}
              \cup {[start |-> s, end |-> 0, changed |-> TRUE] : s \in UtcStarts}
  /\ unit \in Units
  /\ at = 0 /\ readed = 0 /\ buffer = <<>> /\ history = [f \in {} |-> 0]
  /\ gen = NewGenerator(0) /\ picker = [pc |-> "none", tick |-> 0, cached |-> NoItem]
  /\ events = <<>> /\ pickers = 0

----------------------------------------------------------------------------
(* Writing.                                                                *)

(* Columns are converted from left to right, the timestamp first: a row    *)
(* with a bad later column is dropped after it has moved the time range.   *)
_write_items(row) ==
  /\ ~ header.complete /\ rows < MaxRows
  /\ rows' = rows + 1
  /\ conv' = IF row.bad = "stamp" THEN conv
             ELSE [start |-> IF conv.changed THEN Min({conv.start, row.stamp}) ELSE row.stamp,
                   end |-> Max({conv.end, row.stamp}),
                   changed |-> TRUE]
  /\ items' = IF row.bad = "no" THEN Append(items, row.stamp) ELSE items
  /\ UNCHANGED <<header, unit, readerVars, gen, picker, events, pickers>>

_update_header ==
  /\ ~ header.complete /\ items # <<>>
  /\ header' = [start |-> conv.start, end |-> conv.end, complete |-> TRUE]
  /\ UNCHANGED <<items, rows, conv, unit, readerVars, gen, picker, events, pickers>>

----------------------------------------------------------------------------
(* Reading.                                                                *)

(* The count of what was read starts at zero wherever the position is; the *)
(* end of the file limits what a read returns.                             *)
_fulfill_buffer(from, count) ==
  LET wanted == Min({BufferSize, Len(items) - count})
      got == IF wanted <= 0 THEN 0 ELSE Min({wanted, Len(items) - from})
  IN  /\ buffer' = [k \in 1 .. got |-> from + k]
      /\ at' = from + got
      /\ readed' = count + got

(* items() starts when its first item is asked for.                        *)
items_starts ==
  /\ picker.pc = "next" /\ gen.pc = "new"
  /\ LET offset == IF gen.first \in DOMAIN history THEN history[gen.first] ELSE 0
     IN  /\ _fulfill_buffer(offset, 0)
         /\ gen' = [gen EXCEPT !.pc = "run", !.i = 1, !.pre = at',
                               !.known = gen.first \in DOMAIN history]
  /\ UNCHANGED <<items, rows, conv, header, unit, history, picker, events, pickers>>

(* Where the buffer ends instead of where it starts.                       *)
HistoryPosEnd == gen.pre

(* "return to the start of the buffer": of this one when it is the first,  *)
(* of the one before it otherwise.                                         *)
HistoryPos == gen.pre - Len(buffer)

StartTime(first) == header.start + first * unit
EndTime == header.start + LastTick * unit

(* The item at the generator's place is yielded, passed over, or the end.  *)
items_step ==
  LET item == buffer[gen.i]
      stamp == items[item]
  IN  /\ picker.pc = "next" /\ gen.pc = "run" /\ gen.i <= Len(buffer)
      /\ IF stamp > EndTime
         THEN /\ gen' = [gen EXCEPT !.pc = "end"]
              /\ UNCHANGED <<history, picker>>
         ELSE IF stamp < StartTime(gen.first)
         THEN /\ gen' = [gen EXCEPT !.i = @ + 1]
              /\ UNCHANGED <<history, picker>>
         ELSE /\ gen' = [gen EXCEPT !.i = @ + 1, !.known = TRUE]
              /\ history' = IF gen.known THEN history
                            ELSE [f \in DOMAIN history \cup {gen.first} |->
                                    IF f = gen.first THEN HistoryPos ELSE history[f]]
              /\ picker' = [picker EXCEPT !.pc = "pick", !.cached = item]
      /\ UNCHANGED <<items, rows, conv, header, unit, at, readed, buffer, events, pickers>>

items_refill ==
  /\ picker.pc = "next" /\ gen.pc = "run" /\ gen.i > Len(buffer)
  /\ IF buffer = <<>>
     THEN gen' = [gen EXCEPT !.pc = "end"] /\ UNCHANGED <<at, readed, buffer>>
     ELSE _fulfill_buffer(at, readed) /\ gen' = [gen EXCEPT !.i = 1, !.pre = at]
  /\ UNCHANGED <<items, rows, conv, header, unit, history, picker, events, pickers>>

----------------------------------------------------------------------------
(* Picking.                                                                *)

(* A new picker, at the start or when the scenario is reset: the reader is *)
(* reset and keeps its history.                                            *)
items_tick_picker(first) ==
  /\ header.complete /\ picker.pc \in {"none", "idle"} /\ pickers < MaxPickers
  /\ pickers' = pickers + 1
  /\ gen' = NewGenerator(first)
  /\ picker' = [pc |-> "idle", tick |-> first - 1, cached |-> NoItem]
  /\ readed' = 0 /\ events' = <<>>
  /\ UNCHANGED <<items, rows, conv, header, unit, at, buffer, history>>

(* The ticks of an episode follow one another.                             *)
read_items ==
  /\ picker.pc = "idle" /\ picker.tick + 1 < LastTick
  /\ picker' = [picker EXCEPT !.pc = IF picker.cached = NoItem THEN "next" ELSE "pick",
                              !.tick = @ + 1]
  /\ UNCHANGED <<items, rows, conv, header, unit, readerVars, gen, events, pickers>>

(* An item of the tick becomes an event; one of a later tick is kept; an   *)
(* earlier one (the file is not sorted) is dropped.                        *)
pick ==
  LET since == items[picker.cached] - (header.start + picker.tick * unit)
  IN  /\ picker.pc = "pick"
      /\ IF since >= unit
         THEN picker' = [picker EXCEPT !.pc = "idle"] /\ UNCHANGED events
         ELSE /\ picker' = [picker EXCEPT !.pc = "next", !.cached = NoItem]
              /\ events' = IF since < 0 THEN events
                           ELSE Append(events, [tick |-> picker.tick, item |-> picker.cached])
      /\ UNCHANGED <<items, rows, conv, header, unit, readerVars, gen, pickers>>

pick_ends ==
  /\ picker.pc = "next" /\ gen.pc = "end"
  /\ picker' = [picker EXCEPT !.pc = "idle"]
  /\ UNCHANGED <<items, rows, conv, header, unit, readerVars, gen, events, pickers>>

FileNext ==
  \/ \E row \in Rows : _write_items(row)
  \/ _update_header \/ items_starts \/ items_step \/ items_refill
  \/ \E first \in FirstTicks : items_tick_picker(first)
  \/ read_items \/ pick \/ pick_ends

----------------------------------------------------------------------------
TickOf(item) == (items[item] - header.start) \div unit
Sorted == \A m, n \in DOMAIN items : m < n => items[m] <= items[n]
ReadSoFar == {e.item : e \in {events[k] : k \in DOMAIN events}}

(* Whatever the buffer size, the start tick and the pickers made before:   *)
(* after each tick of an episode the events are items of their own tick,   *)
(* none twice, and with a sorted file all items of the ticks so far, in    *)
(* the order of the file.                                                  *)
ItemsComeOnTime ==
  picker.pc = "idle" =>
    /\ \A k \in DOMAIN events : events[k].tick = TickOf(events[k].item)
    /\ Cardinality(ReadSoFar) = Len(events)
    /\ Sorted =>
         /\ ReadSoFar = {n \in DOMAIN items : TickOf(n) \in gen.first .. picker.tick}
         /\ \A k \in 1 .. Len(events) - 1 : events[k].item < events[k + 1].item
=============================================================================
