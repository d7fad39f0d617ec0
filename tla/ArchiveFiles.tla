---------------------------- MODULE ArchiveFiles ----------------------------
(***************************************************************************)
(* Which recordings an archive request plays: files, filesStream and       *)
(* sortPath of archive.go.  A directory is the sequence of its files in    *)
(* the order filepath.Walk visits them.  A file is a record:               *)
(*   name    its name;                                                     *)
(*   start   the time its name stands for, a whole second;                 *)
(*   usable  whether it has 500 kB and a name that parses as a time;       *)
(*   dur     its duration as ffmpeg knows it, 0 when it does not;          *)
(*   pkts    its packets, each with the time t since the start of the      *)
(*           file, whether it is a key frame, and the index of its stream; *)
(*   tracks  the number of its streams;                                    *)
(*   muxable how many of them, from the first, the fragmenter can write;   *)
(*   meta    the codec string of the first stream (Meta in stream.go);     *)
(*   conf    what else there is in its codec data.                         *)
(* The byte count and the total duration that files also returns decide    *)
(* nothing and are left out.                                               *)
(***************************************************************************)
EXTENDS Integers, Sequences, SequencesExt

CONSTANT Second   \* ticks of the clock in a second
ASSUME SecondAssumption == Second \in Nat \ {0}

\* Times in names and requests are given to the second.
Times == {t \in Int : t % Second = 0}
Packet == [t : Nat, key : BOOLEAN, idx : Nat]
Recording == [name : STRING, start : Times, usable : BOOLEAN, dur : Nat,
              meta : STRING, conf : STRING, tracks : Nat, muxable : Nat, pkts : Seq(Packet)]

\* FileDuration: ffmpeg's duration, cut to whole seconds.
FileDuration(f) == (f.dur \div Second) * Second

\* sortPath: a stable sort by the time in the name.  A file goes behind those
\* that are already sorted and not later.
Insert(paths, f) ==
  LET k == CHOOSE k \in 0..Len(paths) :
             /\ \A i \in 1..k : paths[i].start <= f.start
             /\ k < Len(paths) => paths[k + 1].start > f.start
  IN  SubSeq(paths, 1, k) \o <<f>> \o SubSeq(paths, k + 1, Len(paths))
sortPath(paths) ==
  LET sorted[n \in 0..Len(paths)] ==
        IF n = 0 THEN <<>> ELSE Insert(sorted[n - 1], paths[n])
  IN  sorted[Len(paths)]

\* filepath.Walk through one directory after the other.
Walk(dirs) ==
  LET walked[n \in 0..Len(dirs)] == IF n = 0 THEN <<>> ELSE walked[n - 1] \o dirs[n]
  IN  walked[Len(dirs)]

\* Mutant: an early file is taken when it begins, not ends, after start.
Covers_Begins(f, start) == f.start > start
Covers(f, start) == f.start + FileDuration(f) > start

\* A file that begins before start: taken when it reaches into the request
\* and nothing is taken yet, or when the caller named it.
TakenEarly(paths, f, start, fileStart, checkDuration) ==
  IF paths = <<>> /\ checkDuration THEN Covers(f, start) ELSE f.name = fileStart

files(dirs, start, end, fileStart, checkDuration) ==
  LET all == Walk(dirs)
      Takes(paths, f) ==
        /\ f.usable
        /\ f.start <= end
        /\ checkDuration => FileDuration(f) > 0
        /\ f.start >= start \/ TakenEarly(paths, f, start, fileStart, checkDuration)
      paths[n \in 0..Len(all)] ==
        IF n = 0 THEN <<>>
        ELSE IF Takes(paths[n - 1], all[n]) THEN Append(paths[n - 1], all[n])
             ELSE paths[n - 1]
  IN  sortPath(paths[Len(all)])

\* What filesStream appends to paths, in the order of the walk.
streamPaths(dirs, start, fileStart) ==
  LET all == Walk(dirs)
      paths[n \in 0..Len(all)] ==
        IF n = 0 THEN <<>>
        ELSE IF all[n].usable /\ (all[n].start >= start \/ all[n].name = fileStart)
             THEN Append(paths[n - 1], all[n]) ELSE paths[n - 1]
  IN  paths[Len(all)]

\* Mutant: the files of one directory after those of the other.
filesStream_Unsorted(dirs, start, fileStart) == streamPaths(dirs, start, fileStart)

filesStream(dirs, start, fileStart) == sortPath(streamPaths(dirs, start, fileStart))
=============================================================================
