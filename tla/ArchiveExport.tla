--------------------------- MODULE ArchiveExport ---------------------------
(***************************************************************************)
(* The export of a piece of the archive as one file: the handler archive   *)
(* of http.go and the goroutine send of archive.go that reads the files    *)
(* for it.  They meet on two unbuffered channels, p for packets and cls    *)
(* for the end.                                                            *)
(***************************************************************************)
EXTENDS ArchiveFiles

CONSTANTS
  Archives,   \* directories (sequences of them) the server may hold
  Starts,     \* requested start times
  Ends        \* requested end times

ASSUME ArchivesAssumption == Archives \subseteq Seq(Seq(Recording))
ASSUME TimesAssumption == Starts \subseteq Times /\ Ends \subseteq Times

VARIABLES
  dirs, start, end, fileStart, checkDuration,   \* the request
  pathFiles,                       \* files to export
  tracks,                          \* streams the muxer knows
  count, next,                     \* send: file, packet in it
  keyframe, totalTime, last,       \* send: gate, offset, time of the last packet sent
  offer,                           \* what send holds out on p
  spc, hpc,                        \* send, handler
  exported                         \* history: <<count, packet, time>> the muxer got

selection == <<dirs, start, end, fileStart, checkDuration, pathFiles>>
request == <<selection, tracks>>
sender == <<count, next, keyframe, totalTime, last, offer>>
vars == <<request, sender, spc, hpc, exported>>

\* The handler up to the choice of files; nothing to export is answered 400.
Init ==
  /\ dirs \in Archives
  /\ start \in Starts /\ end \in Ends
  /\ checkDuration \in BOOLEAN
  /\ fileStart \in {f.name : f \in Range(Walk(dirs))} \union {""}
  /\ pathFiles = files(dirs, start, end, fileStart, checkDuration)
  /\ tracks = 0
  /\ count = 1 /\ next = 1
  /\ keyframe = FALSE
  /\ totalTime = 0 /\ last = 0
  /\ offer = <<>>
  /\ spc = "none"
  /\ hpc = IF pathFiles = <<>> THEN "notFound" ELSE "header"
  /\ exported = <<>>

\* The header is that of the first file, and then send is started.
Header ==
  /\ hpc = "header"
  /\ pathFiles[1].tracks > 0 /\ pathFiles[1].muxable = pathFiles[1].tracks
  /\ tracks' = pathFiles[1].tracks
  /\ hpc' = "select" /\ spc' = "open"
  /\ UNCHANGED <<selection, sender, exported>>

\* A stream that cannot be muxed is answered 400.
HeaderRefused ==
  /\ hpc = "header" /\ pathFiles[1].muxable < pathFiles[1].tracks
  /\ hpc' = "refused"
  /\ UNCHANGED <<request, sender, spc, exported>>

\* The first file does not open, and the demuxer that is not there panics; or
\* it has no stream, and the fragmenter does.  gin recovers the handler.
HeaderPanics ==
  /\ hpc = "header"
  /\ hpc' = "panicked"
  /\ UNCHANGED <<request, sender, spc, exported>>

Channel == pathFiles[count]
AtEof == next > Len(Channel.pkts)
Pck == Channel.pkts[next]
At(f, k) == f.start + k.t

Open ==
  /\ spc = "open"
  /\ spc' = "read"
  /\ UNCHANGED <<request, sender, hpc, exported>>

\* The error is not looked at: the demuxer that is not there panics in send,
\* where nothing recovers it, and the process is over.
OpenFails ==
  /\ spc = "open"
  /\ spc' = "crashed"
  /\ UNCHANGED <<request, sender, hpc, exported>>

\* End of a file: the next one continues at the time of the last packet sent.
NextFile ==
  /\ spc = "read" /\ AtEof /\ count < Len(pathFiles)
  /\ totalTime' = last
  /\ count' = count + 1 /\ next' = 1
  /\ spc' = "open"
  /\ UNCHANGED <<request, keyframe, last, offer, hpc, exported>>

LastFile ==
  /\ spc = "read" /\ AtEof /\ count = Len(pathFiles)
  /\ totalTime' = last
  /\ spc' = "close"
  /\ UNCHANGED <<request, count, next, keyframe, last, offer, hpc, exported>>

InWindow == start <= At(Channel, Pck) /\ At(Channel, Pck) <= end

\* A packet outside the window, or before the first key frame in it.
Skip ==
  /\ spc = "read" /\ ~AtEof
  /\ InWindow => ~Pck.key /\ ~keyframe
  /\ next' = next + 1
  /\ UNCHANGED <<request, count, keyframe, totalTime, last, offer, spc, hpc, exported>>

Offer ==
  /\ spc = "read" /\ ~AtEof
  /\ InWindow /\ (Pck.key \/ keyframe)
  /\ keyframe' = TRUE
  /\ offer' = <<Channel, Pck, Pck.t + totalTime>>
  /\ spc' = "send"
  /\ UNCHANGED <<request, count, next, totalTime, last, hpc, exported>>

\* The rendezvous on p.  The muxer indexes its streams with the packet's
\* stream: out of range panics, gin recovers, and the handler is over.
Deliver ==
  /\ spc = "send" /\ hpc = "select"
  /\ spc' = "read"
  /\ last' = offer[3]
  /\ next' = next + 1
  /\ offer' = <<>>
  /\ IF offer[2].idx < tracks
     THEN exported' = Append(exported, <<count, offer[2], offer[3]>>) /\ UNCHANGED hpc
     ELSE hpc' = "panicked" /\ UNCHANGED exported
  /\ UNCHANGED <<request, count, keyframe, totalTime>>

\* Mutant: the end is signalled without a receiver.
Close_Silent ==
  /\ spc = "close"
  /\ spc' = "done"
  /\ UNCHANGED <<request, sender, hpc, exported>>

\* The rendezvous on cls.
Close ==
  /\ spc = "close" /\ hpc = "select"
  /\ spc' = "done" /\ hpc' = "done"
  /\ UNCHANGED <<request, sender, exported>>

Next == Header \/ HeaderRefused \/ HeaderPanics \/ Open \/ OpenFails
        \/ NextFile \/ LastFile \/ Skip \/ Offer \/ Deliver \/ Close
Spec == Init /\ [][Next]_vars

\* Neither goroutine waits for anything but the other.
FairSpec == Spec /\ WF_vars(Next)

-----------------------------------------------------------------------------

\* The elements of s that are in S, in their order.
Kept(s, S) ==
  LET kept[n \in 0..Len(s)] ==
        IF n = 0 THEN <<>>
        ELSE IF s[n] \in S THEN Append(kept[n - 1], s[n]) ELSE kept[n - 1]
  IN  kept[Len(s)]

Usable == Kept(Walk(dirs), {f \in Range(Walk(dirs)) : f.usable})

\* The packets of a file, those between start and end, and those of many files.
Packets(f) == [k \in DOMAIN f.pkts |-> <<f, f.pkts[k]>>]
Inside(f) == {x \in Range(Packets(f)) : start <= At(x[1], x[2]) /\ At(x[1], x[2]) <= end}
Window(f) == Kept(Packets(f), Inside(f))
Windows(fs) == FlattenSeq([i \in DOMAIN fs |-> Window(fs[i])])

\* By the second, no recording begins before another that it follows in the
\* walk is over.
Consistent ==
  \A i, j \in DOMAIN Usable :
    i < j => Usable[i].start + FileDuration(Usable[i]) <= Usable[j].start

\* Without durations the caller has to name the file that reaches into the request.
Named ==
  checkDuration \/ \A f \in Range(Usable) :
                     f.start < start /\ Window(f) # <<>> => f.name = fileStart

\* With durations, cut to seconds, these recordings are lost: shorter than a
\* second, of a length ffmpeg does not know, or less than a second of them in
\* the request.
Lost(f) ==
  checkDuration /\ (f.dur < Second \/ (f.start < start /\ f.start + f.dur < start + Second))
Found == Kept(Walk(dirs), {f \in Range(Walk(dirs)) : f.usable /\ ~Lost(f)})

Keys(w) == {i \in DOMAIN w : w[i][2].key}
FromFirstKey(w) ==
  IF Keys(w) = {} THEN <<>>
  ELSE SubSeq(w, CHOOSE i \in Keys(w) : \A j \in Keys(w) : i <= j, Len(w))

\* What was asked for: the packets of the archive between start and end, from
\* the first key frame on.
Wanted == FromFirstKey(Windows(Found))
Sent == [i \in DOMAIN exported |-> <<pathFiles[exported[i][1]], exported[i][2]>>]

\* Each packet comes as far after the one before as in their file, or in a later file.
TimesKept ==
  \A i \in DOMAIN exported \ {1} :
    LET a == exported[i - 1]
        b == exported[i]
    IN  IF a[1] = b[1] THEN b[3] - a[3] = b[2].t - a[2].t ELSE b[3] >= a[3]

(* An export that came to its end holds exactly the packets that were asked
   for, but those of a recording that is Lost: the choice of files, the window
   and the key-frame gate lose nothing else and repeat nothing across the
   files.  Its times never go back, and keep their distances in a file: each
   file's begin where the last packet sent left off (archive.go files, send and
   its totalTime). *)
ExportIsWindow ==
  /\ (spc = "done" \/ hpc \in {"done", "notFound"}) /\ Consistent /\ Named => Sent = Wanted
  /\ TimesKept

(* An export comes to its end, and both goroutines with it: it is answered 400
   or ends the handler before send is started, or the last file is read and
   both return.  In two cases it ends badly: a file that send cannot open stops
   the process, and a file with more streams than the first one ends the handler
   and leaves send waiting for it (the loops of archive and send). *)
Over ==
  \/ spc = "done" /\ hpc = "done"
  \/ spc = "none" /\ hpc \in {"notFound", "refused", "panicked"}
  \/ spc = "crashed"
  \/ /\ spc \in {"send", "close"} /\ hpc = "panicked"
     /\ \E f \in Range(pathFiles) : f.tracks > tracks
ExportEnds == <>Over

-----------------------------------------------------------------------------
(* What makes ExportIsWindow inductive; ArchiveExportProofs proves it.     *)

TypeOK ==
  /\ dirs \in Seq(Seq(Recording)) /\ pathFiles \in Seq(Recording)
  /\ start \in Times /\ end \in Times /\ checkDuration \in BOOLEAN
  /\ count \in Nat \ {0} /\ next \in Nat \ {0}
  /\ keyframe \in BOOLEAN
  /\ totalTime \in Nat /\ last \in Nat
  /\ spc \in {"none", "open", "crashed", "read", "send", "close", "done"}
  /\ hpc \in {"header", "select", "refused", "panicked", "done", "notFound"}
  /\ exported \in Seq(Nat \X Packet \X Nat)

\* Where send is in the files, and what it holds out.
PlaceInv ==
  /\ pathFiles = files(dirs, start, end, fileStart, checkDuration)
  /\ IF pathFiles = <<>> THEN spc = "none" /\ hpc = "notFound" /\ exported = <<>>
     ELSE /\ count <= Len(pathFiles) /\ next <= Len(Channel.pkts) + 1
          /\ hpc # "notFound"
          /\ hpc = "header" => spc = "none"
          /\ spc = "done" <=> hpc = "done"
          /\ spc \in {"close", "done"} => AtEof /\ count = Len(pathFiles)
          /\ spc = "send" => /\ ~AtEof /\ InWindow /\ keyframe
                             /\ offer = <<Channel, Pck, Pck.t + totalTime>>

\* The window, as far as send has read.
ReadWindow ==
  Windows(SubSeq(pathFiles, 1, count - 1))
    \o Kept(SubSeq(Packets(Channel), 1, next - 1), Inside(Channel))

\* The muxer got the window so far, and the gate is open behind its first key.
SentInv ==
  pathFiles # <<>> /\ hpc # "panicked" =>
    /\ Sent = FromFirstKey(ReadWindow)
    /\ IF spc = "send" THEN Pck.key \/ Keys(ReadWindow) # {}
       ELSE keyframe <=> Keys(ReadWindow) # {}

\* The times of the file go on from the last packet sent.
TimesInv ==
  pathFiles # <<>> /\ hpc # "panicked" /\ exported # <<>> =>
    LET x == exported[Len(exported)]
    IN  /\ x[3] = last
        /\ x[1] <= count
        /\ IF x[1] = count THEN last = x[2].t + totalTime \/ (spc \in {"close", "done"} /\ totalTime = last)
           ELSE totalTime = last
=============================================================================
