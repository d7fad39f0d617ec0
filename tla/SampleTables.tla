---------------------------- MODULE SampleTables ----------------------------
(***************************************************************************)
(* The sample tables of a track and the demuxer's cursor in them.  A table *)
(* is [groups, offsets, fixed, sizes, stts, ctts, synced, sync]: groups of *)
(* chunks [first, per], the chunks' offsets, the size all samples have or  *)
(* 0 and the size of each, runs [count, duration] and [count, offset], and *)
(* whether there is a table of key frames and their numbers from 1.  The   *)
(* cursor's indices count from 0, as in the code.                          *)
(***************************************************************************)
EXTENDS Integers, Sequences, SequencesExt

CONSTANT Wrap   \* numbers of 32 bits begin again here: 2^32
ASSUME WrapAssumption == Wrap \in Nat \ {0}

\* The first n entries added up, and all of them.
SumTo(s, n) == LET sum[i \in 0 .. n] == IF i = 0 THEN 0 ELSE sum[i - 1] + s[i] IN sum[n]
Total(s) == SumTo(s, Len(s))
Column(s, field) == [i \in DOMAIN s |-> s[i][field]]

Cursor0 ==
  [chunkGroupIndex |-> 0, chunkIndex |-> 0, sampleIndexInChunk |-> 0, sampleOffsetInChunk |-> 0,
   dts |-> 0, sttsEntryIndex |-> 0, sampleIndexInSttsEntry |-> 0,
   cttsEntryIndex |-> 0, sampleIndexInCttsEntry |-> 0, syncSampleIndex |-> 0, sampleIndex |-> 0]

\* The loops that add counts up: the entry that holds an index, and where in it.
Locate(counts, index) ==
  LET start(e) == SumTo(counts, e)
      here == {e \in 0 .. Len(counts) - 1 : start(e) <= index /\ index < start(e + 1)}
      e    == CHOOSE x \in here : TRUE
  IN IF here = {} THEN [found |-> FALSE, entry |-> 0, at |-> 0]
     ELSE [found |-> TRUE, entry |-> e, at |-> index - start(e)]

\* A chunk that is the first of the next group leaves its own.
GroupAt(tab, group, chunk) ==
  IF group + 1 < Len(tab.groups) /\ chunk + 1 = tab.groups[group + 2].first THEN group + 1 ELSE group
GroupOf(tab, chunk) ==
  LET group[c \in 0 .. chunk] == GroupAt(tab, IF c = 0 THEN 0 ELSE group[c - 1], c) IN group[chunk]
Pers(tab) == [c \in DOMAIN tab.offsets |-> tab.groups[GroupOf(tab, c - 1) + 1].per]

\* The ticks of each run of equal durations: setSampleIndex multiplies in 64
\* bits and timeToSampleIndex in 32.
Spans(tab) == [e \in DOMAIN tab.stts |-> tab.stts[e].count * tab.stts[e].duration]
Spans32(tab) == [e \in DOMAIN tab.stts |-> Spans(tab)[e] % Wrap]

\* The last key frame that is not after a sample, or the first.
SyncBefore(sync, index) ==
  IF sync = <<>> THEN 0
  ELSE CHOOSE s \in 0 .. Len(sync) - 1 :
         /\ s = Len(sync) - 1 \/ sync[s + 2] - 1 > index
         /\ \A r \in 0 .. s - 1 : sync[r + 2] - 1 <= index

\* Mutant: the offset in the chunk is left out.
OffsetInChunk_Zero(tab, at, index) == 0

OffsetInChunk(tab, at, index) ==
  IF tab.fixed # 0 THEN at * tab.fixed ELSE SumTo(tab.sizes, index) - SumTo(tab.sizes, index - at)

\* Fails only for a track without samples, whose cursor is at its start.
SetTo(tab, cur, index, chunk, time, comp) ==
  IF chunk.found /\ time.found /\ (tab.ctts = <<>> \/ comp.found)
       /\ (tab.fixed # 0 \/ index < Len(tab.sizes))
  THEN [ok |-> TRUE, cur |->
         [chunkGroupIndex |-> GroupOf(tab, chunk.entry), chunkIndex |-> chunk.entry,
          sampleIndexInChunk |-> chunk.at, sampleOffsetInChunk |-> OffsetInChunk(tab, chunk.at, index),
          dts |-> SumTo(Spans(tab), time.entry) + time.at * tab.stts[time.entry + 1].duration,
          sttsEntryIndex |-> time.entry, sampleIndexInSttsEntry |-> time.at,
          cttsEntryIndex |-> comp.entry, sampleIndexInCttsEntry |-> comp.at,
          syncSampleIndex |-> IF tab.synced THEN SyncBefore(tab.sync, index) ELSE 0,
          sampleIndex |-> index]]
  ELSE [ok |-> FALSE, cur |-> cur]
setSampleIndex(tab, cur, index) ==
  SetTo(tab, cur, index, Locate(Pers(tab), index),
        Locate(Column(tab.stts, "count"), index), Locate(Column(tab.ctts, "count"), index))

\* Mutant: the last chunk does not count.
isSampleValid_Chunk(tab, cur) ==
  /\ cur.chunkIndex + 1 < Len(tab.offsets)
  /\ cur.sttsEntryIndex < Len(tab.stts)

\* The last test is for a fixed size, where the table of sizes is empty: a file
\* of equal samples has none that is valid.
isSampleValid(tab, cur) ==
  /\ cur.chunkIndex < Len(tab.offsets)
  /\ cur.chunkGroupIndex < Len(tab.groups)
  /\ cur.sttsEntryIndex < Len(tab.stts)
  /\ tab.ctts # <<>> => cur.cttsEntryIndex < Len(tab.ctts)
  /\ tab.synced => cur.syncSampleIndex < Len(tab.sync)
  /\ tab.fixed # 0 => cur.sampleIndex < Len(tab.sizes)

\* One sample on: each pair of an entry and the place in it.
incSampleIndex(tab, cur) ==
  LET fresh == cur.sampleIndexInChunk + 1 = tab.groups[cur.chunkGroupIndex + 1].per
      chunk == IF fresh THEN cur.chunkIndex + 1 ELSE cur.chunkIndex
      stts  == tab.stts[cur.sttsEntryIndex + 1]
      Next(entry, at, counts) == IF at + 1 = counts[entry + 1] THEN << entry + 1, 0 >> ELSE << entry, at + 1 >>
      time  == Next(cur.sttsEntryIndex, cur.sampleIndexInSttsEntry, Column(tab.stts, "count"))
      comp  == IF tab.ctts = <<>> THEN << cur.cttsEntryIndex, cur.sampleIndexInCttsEntry >>
               ELSE Next(cur.cttsEntryIndex, cur.sampleIndexInCttsEntry, Column(tab.ctts, "count"))
      key   == tab.synced /\ cur.syncSampleIndex + 1 < Len(tab.sync)
                 /\ tab.sync[cur.syncSampleIndex + 2] - 1 = cur.sampleIndex + 1
  IN [chunkGroupIndex |-> GroupAt(tab, cur.chunkGroupIndex, chunk),
      chunkIndex |-> chunk,
      sampleIndexInChunk |-> IF fresh THEN 0 ELSE cur.sampleIndexInChunk + 1,
      sampleOffsetInChunk |->
        IF fresh THEN 0
        ELSE cur.sampleOffsetInChunk + IF tab.fixed # 0 THEN tab.fixed ELSE tab.sizes[cur.sampleIndex + 1],
      dts |-> cur.dts + stts.duration,
      sttsEntryIndex |-> time[1], sampleIndexInSttsEntry |-> time[2],
      cttsEntryIndex |-> comp[1], sampleIndexInCttsEntry |-> comp[2],
      syncSampleIndex |-> IF key THEN cur.syncSampleIndex + 1 ELSE cur.syncSampleIndex,
      sampleIndex |-> cur.sampleIndex + 1]

\* Mutant: any key frame that is not before the sample will do.
KeyBefore_After(tab, target) ==
  LET keys == {k \in ToSet(tab.sync) : k - 1 > target}
  IN IF tab.synced /\ keys # {} THEN (CHOOSE k \in keys : \A j \in keys : j <= k) - 1 ELSE target

\* The last key frame strictly before the sample, if there is one.
KeyBefore(tab, target) ==
  LET keys == {k \in ToSet(tab.sync) : k - 1 < target}
  IN IF tab.synced /\ keys # {} THEN (CHOOSE k \in keys : \A j \in keys : j <= k) - 1 ELSE target

\* The sample whose time a moment is in, or the last, or none (-1) of none.
timeToSampleIndex(tab, target) ==
  LET ticks(e) == SumTo(Spans32(tab), e)
      count(e) == SumTo(Column(tab.stts, "count"), e)
      here == {e \in DOMAIN tab.stts : ticks(e - 1) <= target /\ target < ticks(e)}
      e    == CHOOSE x \in here : TRUE
  IN KeyBefore(tab,
       IF here = {} THEN IF target < 0 THEN 0 ELSE count(Len(tab.stts)) - 1
       ELSE count(e - 1) + (target - ticks(e - 1)) \div tab.stts[e].duration)
-----------------------------------------------------------------------------
(* What a table says. *)
Positive(counts) == \A e \in DOMAIN counts : counts[e] \in Nat \ {0}

Cursor ==
  [chunkGroupIndex : Nat, chunkIndex : Nat, sampleIndexInChunk : Nat, sampleOffsetInChunk : Nat,
   dts : Nat, sttsEntryIndex : Nat, sampleIndexInSttsEntry : Nat,
   cttsEntryIndex : Nat, sampleIndexInCttsEntry : Nat, syncSampleIndex : Nat, sampleIndex : Nat]

\* The index is at place "at" of an entry, or behind the last one.
InRun(counts, index, entry, at) ==
  /\ entry \in 0 .. Len(counts) /\ at \in Nat /\ index = SumTo(counts, entry) + at
  /\ IF entry < Len(counts) THEN at < counts[entry + 1] ELSE at = 0

\* Runs of equal values that are the first n of vals.
RunsOf(runs, field, vals, n) ==
  LET counts == Column(runs, "count")
  IN /\ runs \in Seq([{"count", field} -> Nat]) /\ Positive(counts) /\ Total(counts) = n
     /\ \A e \in DOMAIN runs : \A i \in SumTo(counts, e - 1) + 1 .. SumTo(counts, e) : vals[i] = runs[e][field]

\* The members of a set of numbers, in their order.
Lists(sync, keys) ==
  /\ sync \in Seq(Nat) /\ ToSet(sync) = keys
  /\ \A i, j \in DOMAIN sync : i < j => sync[i] < sync[j]

\* The samples are in chunks, of one group after the other.
Chunked(tab, n) ==
  /\ tab.groups \in Seq([first : Nat, per : Nat]) /\ tab.offsets \in Seq(Nat)
  /\ \A g, h \in DOMAIN tab.groups : g < h => tab.groups[g].first < tab.groups[h].first
  /\ tab.offsets # <<>> => tab.groups # <<>>
  /\ tab.groups # <<>> => tab.groups[1].first = 1
  /\ Positive(Pers(tab)) /\ Total(Pers(tab)) = n

\* The sizes, all alike in a table that has one for all.
Sized(tab, sizes) ==
  IF tab.fixed = 0 THEN tab.sizes = sizes
  ELSE tab.sizes = <<>> /\ tab.fixed \in Nat /\ \A i \in DOMAIN sizes : sizes[i] = tab.fixed
=============================================================================
