-------------------------- MODULE ArchivePlayback --------------------------
(***************************************************************************)
(* Playing the archive from a point in time: the handlers wsArchive and    *)
(* httpArchive of http.go, ArchiveWorker, PlayStreamArchive and            *)
(* PlayStreamArchiveHttp of stream.go.  A session is up to three           *)
(* goroutines:                                                             *)
(*   the worker reads the files, or test.flv (the filler) where the        *)
(*   archive has a gap, and paces them;                                    *)
(*   the player is the handler: it muxes packets and writes to the client; *)
(*   the reader, of a websocket only, waits for the socket to fail.        *)
(* They meet on three unbuffered channels: codecControl, packet and        *)
(* socketStatus.  The worker polls the last, the player selects on all.    *)
(*                                                                         *)
(* Sleeping, which is what turns these times into real ones, is left out;  *)
(* the 5 seconds the worker tolerates are Slack.                           *)
(***************************************************************************)
EXTENDS ArchiveFiles

CONSTANTS
  Kinds,      \* subset of {"ws", "http"}
  Archives,   \* directories the server may hold
  Starts,     \* requested start times
  Speeds,     \* requested speeds
  Filler,     \* the file test.flv
  Slack

ASSUME ArchivesAssumption == Archives \subseteq Seq(Seq(Recording))
ASSUME FillerAssumption == Filler \in Recording
ASSUME RequestAssumption == Kinds \subseteq {"ws", "http"} /\ Starts \subseteq Int
ASSUME SpeedsAssumption == Speeds \subseteq Int
ASSUME SlackAssumption == Slack \in Nat

VARIABLES
  kind, pathFiles, speed,           \* the request
  sockUp,                           \* the client's connection
  fate,                             \* the process: up, or what stopped it
  wpc, ppc, rpc,                    \* worker, player, reader
  count, next, fillNext,            \* worker: file, packet in it, packet in the filler
  keyframe, prev,                   \* worker: gate, time of the packet before
  timeStart, timeStream,            \* worker: archive time, time of the client's stream
  totalCodec,                       \* worker: codecs the client was told
  offer,                            \* what the worker holds out, codecs or a packet
  header,                           \* player: codecs its muxer was given last
  told,                             \* history: codecs of the header the client got last
  muxed                             \* history: the last packet the player got

request == <<kind, pathFiles, speed>>
workerVars == <<count, next, fillNext, keyframe, prev, timeStart, timeStream, totalCodec, offer>>
vars == <<request, sockUp, fate, wpc, ppc, rpc, workerVars, header, told, muxed>>

Nothing == <<"nothing">>
Codecs(f) == <<"codecs", f.meta, f.tracks, f.muxable, f.conf>>
MetaOf(codecs) == codecs[2]
NumStreams(codecs) == codecs[3]
NumMuxed(codecs) == codecs[4]   \* streams a muxer has after WriteHeader
CanMux(codecs) == NumMuxed(codecs) = NumStreams(codecs) /\ NumStreams(codecs) > 0
NoHeader == <<"none", "none", 0, 0, "none">>

\* The request, up to the first file being opened and the filler's codecs
\* being offered; without a file, or when it or the filler does not open, the
\* worker panics, and nothing recovers it.
Init ==
  \E dirs \in Archives, n \in {"f0", ""} :
    /\ kind \in Kinds
    /\ timeStart \in Starts
    /\ speed \in Speeds
    /\ pathFiles = filesStream(dirs, timeStart, n)
    /\ sockUp = TRUE
    /\ fate \in IF pathFiles = <<>> THEN {"noFile"} ELSE {"up", "openFails"}
    /\ wpc = "codecs" /\ ppc = "select"
    /\ rpc = IF kind = "ws" THEN "receive" ELSE "none"
    /\ count = 1 /\ next = 1 /\ fillNext = 1
    /\ keyframe = FALSE /\ prev = 0
    /\ timeStream = 0
    /\ totalCodec = Codecs(Filler)
    /\ offer = Codecs(Filler)
    /\ header = NoHeader /\ told = NoHeader
    /\ muxed = Nothing

Up == fate = "up"
Channel == pathFiles[count]

\* The file begins too late to be played now.
Gap == timeStart + Slack < Channel.start
Source == IF Gap THEN Filler ELSE Channel
SourceNext == IF Gap THEN fillNext ELSE next

-----------------------------------------------------------------------------
(* The worker. *)

\* It reads its status only if somebody is sending it at that moment.
WorkerStatus ==
  /\ Up /\ wpc = "poll" /\ rpc = "sendStatus"
  /\ wpc' = "done" /\ rpc' = "done"
  /\ sockUp' = FALSE
  /\ UNCHANGED <<request, fate, ppc, workerVars, header, told, muxed>>

Polling == Up /\ wpc = "poll" /\ rpc # "sendStatus"

\* It compares the first streams of two sources, and panics without one.
HaveStreams == NumStreams(totalCodec) > 0 /\ Source.tracks > 0
NoStreams ==
  /\ Polling /\ ~HaveStreams
  /\ fate' = "noStreams"
  /\ UNCHANGED <<request, sockUp, wpc, ppc, rpc, workerVars, header, told, muxed>>

\* Mutant: the new codecs are not remembered as told.
WorkerCodecs_Untold ==
  /\ Polling /\ HaveStreams
  /\ MetaOf(totalCodec) # Source.meta
  /\ offer' = totalCodec
  /\ totalCodec' = Codecs(Source)
  /\ wpc' = "codecs"
  /\ UNCHANGED <<request, sockUp, fate, ppc, rpc, count, next, fillNext, keyframe, prev,
                 timeStart, timeStream, header, told, muxed>>

\* Another source than the client was told: offer its codecs first.
WorkerCodecs ==
  /\ Polling /\ HaveStreams
  /\ MetaOf(totalCodec) # Source.meta
  /\ offer' = Codecs(Source)
  /\ totalCodec' = Codecs(Source)
  /\ wpc' = "codecs"
  /\ UNCHANGED <<request, sockUp, fate, ppc, rpc, count, next, fillNext, keyframe, prev,
                 timeStart, timeStream, header, told, muxed>>

Reading == Polling /\ HaveStreams /\ MetaOf(totalCodec) = Source.meta
AtEof == SourceNext > Len(Source.pkts)
Pck == Source.pkts[SourceNext]

\* The filler starts again at its end.
FillerAgain ==
  /\ Reading /\ Gap /\ AtEof
  /\ fillNext' = 1
  /\ prev' = 0
  /\ UNCHANGED <<request, sockUp, fate, wpc, ppc, rpc, count, next, keyframe,
                 timeStart, timeStream, totalCodec, offer, header, told, muxed>>

\* The next file; after the last one the index is out of range.
NextFile ==
  /\ Reading /\ ~Gap /\ AtEof
  /\ prev' = 0
  /\ IF count < Len(pathFiles)
     THEN count' = count + 1 /\ next' = 1 /\ UNCHANGED fate
     ELSE fate' = "pastLastFile" /\ UNCHANGED <<count, next>>
  /\ UNCHANGED <<request, sockUp, wpc, ppc, rpc, fillNext, keyframe,
                 timeStart, timeStream, totalCodec, offer, header, told, muxed>>

\* At the end of a source the next one does not open.
OpenFails ==
  /\ Reading /\ AtEof
  /\ Gap \/ count < Len(pathFiles)
  /\ fate' = "openFails"
  /\ UNCHANGED <<request, sockUp, wpc, ppc, rpc, workerVars, header, told, muxed>>

ReadOn ==
  IF Gap THEN fillNext' = fillNext + 1 /\ UNCHANGED next
         ELSE next' = next + 1 /\ UNCHANGED fillNext

\* Mutant: packets from before the start are played.
Stale_Never == FALSE

\* The packet lies too far before the archive time.
Stale == timeStart > Channel.start + Pck.t + Slack

Skip ==
  /\ Reading /\ ~AtEof
  /\ Stale \/ ~(Pck.key \/ keyframe)
  /\ ReadOn
  /\ UNCHANGED <<request, sockUp, fate, wpc, ppc, rpc, count, keyframe, prev,
                 timeStart, timeStream, totalCodec, offer, header, told, muxed>>

\* The distance to the packet before; 0 for the first of a source, and after
\* a packet at time 0, which is taken for there being none.
Step(t) == IF prev = 0 \/ t < prev THEN 0 ELSE t - prev

\* Division by an int, which truncates: the speed may be negative.
Quotient(d) == IF speed > 0 THEN d \div speed ELSE -(d \div (-speed))

Playable == Reading /\ ~AtEof /\ ~Stale /\ (Pck.key \/ keyframe)

\* The distance is divided by the speed the client asked for.
DivideByZero ==
  /\ Playable /\ speed = 0
  /\ fate' = "zeroSpeed"
  /\ UNCHANGED <<request, sockUp, wpc, ppc, rpc, workerVars, header, told, muxed>>

Offer ==
  /\ Playable /\ speed # 0
  /\ ReadOn
  /\ keyframe' = TRUE
  /\ timeStream' = timeStream + Quotient(Step(Pck.t))
  /\ timeStart' = timeStart + Step(Pck.t)
  /\ prev' = Pck.t
  /\ offer' = <<"packet", Source, Pck, timeStream'>>
  /\ wpc' = "packet"
  /\ UNCHANGED <<request, sockUp, fate, ppc, rpc, count, totalCodec, header, told, muxed>>

Worker == WorkerStatus \/ NoStreams \/ WorkerCodecs \/ FillerAgain \/ NextFile
          \/ OpenFails \/ Skip \/ DivideByZero \/ Offer

-----------------------------------------------------------------------------
(* The player. *)

\* Rendezvous on codecControl: InitMuxer gives the muxer the streams it can mux,
\* up to the first that it cannot.
PlayerCodecs ==
  /\ Up /\ ppc = "select" /\ wpc = "codecs"
  /\ header' = offer
  /\ offer' = Nothing
  /\ wpc' = "poll" /\ ppc' = "init"
  /\ UNCHANGED <<request, sockUp, fate, rpc, count, next, fillNext, keyframe, prev,
                 timeStart, timeStream, totalCodec, told, muxed>>

\* All could be muxed, and there are some: the header is written.
PlayerInited ==
  /\ Up /\ ppc = "init"
  /\ CanMux(header) /\ sockUp
  /\ told' = header
  /\ ppc' = "select"
  /\ UNCHANGED <<request, sockUp, fate, wpc, rpc, workerVars, header, muxed>>

\* A stream that cannot be muxed, none, or a failed write; the error is not
\* looked at.
PlayerInitFails ==
  /\ Up /\ ppc = "init"
  /\ ~CanMux(header) \/ ~sockUp
  /\ ppc' = "select"
  /\ UNCHANGED <<request, sockUp, fate, wpc, rpc, workerVars, header, told, muxed>>

\* Rendezvous on packet.  A stream index the muxer has not panics in the
\* handler, where the HTTP server recovers it.
PlayerPacket ==
  /\ Up /\ ppc = "select" /\ wpc = "packet"
  /\ muxed' = offer
  /\ offer' = Nothing
  /\ wpc' = "poll"
  /\ ppc' = IF offer[3].idx < NumMuxed(header) THEN "write" ELSE "panicked"
  /\ sockUp' = (sockUp /\ ppc' = "write")
  /\ UNCHANGED <<request, fate, rpc, count, next, fillNext, keyframe, prev,
                 timeStart, timeStream, totalCodec, header, told>>

\* No fragment is ready, or it was written; over HTTP nobody looks.
PlayerWrote ==
  /\ Up /\ ppc = "write"
  /\ ppc' = "select"
  /\ UNCHANGED <<request, sockUp, fate, wpc, rpc, workerVars, header, told, muxed>>

\* The write failed: the handler returns and its deferred Close is run.
PlayerWriteFails ==
  /\ Up /\ ppc = "write" /\ kind = "ws" /\ ~sockUp
  /\ ppc' = "done"
  /\ UNCHANGED <<request, sockUp, fate, wpc, rpc, workerVars, header, told, muxed>>

PlayerStatus ==
  /\ Up /\ ppc = "select" /\ rpc = "sendStatus"
  /\ ppc' = "done" /\ rpc' = "done"
  /\ sockUp' = FALSE
  /\ UNCHANGED <<request, fate, wpc, workerVars, header, told, muxed>>

Player == PlayerCodecs \/ PlayerInited \/ PlayerInitFails \/ PlayerPacket \/ PlayerWrote
          \/ PlayerWriteFails \/ PlayerStatus

-----------------------------------------------------------------------------
(* The client and the reader. *)

SocketFails ==
  /\ Up /\ sockUp
  /\ sockUp' = FALSE
  /\ UNCHANGED <<request, fate, wpc, ppc, rpc, workerVars, header, told, muxed>>

\* Receive fails and the reader holds out the status.
ReaderFails ==
  /\ Up /\ rpc = "receive" /\ ~sockUp
  /\ rpc' = "sendStatus"
  /\ UNCHANGED <<request, sockUp, fate, wpc, ppc, workerVars, header, told, muxed>>

Next == Worker \/ Player \/ SocketFails \/ ReaderFails
Spec == Init /\ [][Next]_vars

-----------------------------------------------------------------------------

IsPacket(x) == x[1] = "packet"

\* No other source has the codec string of f with other codec data: Meta tells
\* them apart.
Sources == Range(pathFiles) \union {Filler}
Alone(f) == \A g \in Sources : g.meta = f.meta => Codecs(g) = Codecs(f)

(* A packet is only held out to a player whose muxer was given the streams of
   the packet's source, all of their codec data, wherever Meta tells the source
   from the others; and when the player takes it, the client has got the header
   of just these streams, if they can all be muxed and the connection holds: the
   codec change went first on the other channel and InitMuxer was through
   (ArchiveWorker, codecControl before packet). *)
HeaderBeforePacket ==
  wpc = "packet" /\ Alone(offer[2]) =>
    /\ header = Codecs(offer[2])
    /\ ppc = "select" /\ CanMux(header) /\ sockUp => told = Codecs(offer[2])

(* What a client gets never goes back: not in the time of the stream, whatever
   the order of files and filler, and not in the archive, whose packets are
   played by the time of their file, in a file in its order, and none twice
   (prev and timeStream, sortPath). *)
FromFile(x) == IsPacket(x) /\ x[2] # Filler
Later(x, y) ==
  /\ x[2].start <= y[2].start
  /\ \E i, j \in DOMAIN pathFiles :
       /\ pathFiles[i] = x[2] /\ pathFiles[j] = y[2]
       /\ \/ i < j
          \/ i = j /\ \E k, l \in DOMAIN x[2].pkts :
                        k < l /\ x[2].pkts[k] = x[3] /\ x[2].pkts[l] = y[3]
Forward ==
  /\ speed > 0 /\ IsPacket(muxed) /\ IsPacket(muxed') => muxed'[4] >= muxed[4]
  /\ FromFile(muxed) /\ FromFile(muxed') /\ muxed' # muxed => Later(muxed, muxed')
InOrder == [][Forward]_vars

\* How long the worker may pass over packets until it plays one: from a packet,
\* or the beginning of the file, to one that has no key frame before it.
TimeIn(f, i) == IF i = 0 THEN 0 ELSE f.pkts[i].t
Wait(f, i, j) == i < j /\ \A k \in i + 1..j - 1 : ~f.pkts[k].key
Waits(f) == {TimeIn(f, p[2]) - TimeIn(f, p[1]) :
               p \in {q \in (0..Len(f.pkts)) \X (1..Len(f.pkts)) : Wait(f, q[1], q[2])}}
MaxOf(S) == CHOOSE m \in S : \A x \in S : x <= m
\* How far a file can be ahead: it may begin Slack early, and what is played
\* first, or after a packet at time 0, comes after a wait.
Lead(f) == Slack + MaxOf(Waits(f) \union {0})

(* What is played stays near the archive time the worker keeps: never more
   than Slack behind it, nor more than the Lead before it (timeStart against
   the position in the file). *)
NearArchiveTime ==
  wpc = "packet" /\ FromFile(offer) =>
    LET at == offer[2].start + offer[3].t
    IN  timeStart - Slack <= at /\ at <= timeStart + Lead(offer[2])

-----------------------------------------------------------------------------
(* What makes these inductive; ArchivePlaybackProofs proves it. *)

TypeOK ==
  /\ kind \in {"ws", "http"} /\ speed \in Int
  /\ pathFiles \in Seq(Recording)
  /\ sockUp \in BOOLEAN
  /\ fate \in {"up", "noFile", "openFails", "noStreams", "pastLastFile", "zeroSpeed"}
  /\ wpc \in {"codecs", "poll", "packet", "done"}
  /\ ppc \in {"select", "init", "write", "panicked", "done"}
  /\ rpc \in {"none", "receive", "sendStatus", "done"}
  /\ count \in Nat \ {0} /\ next \in Nat \ {0} /\ fillNext \in Nat \ {0}
  /\ keyframe \in BOOLEAN
  /\ prev \in Nat /\ timeStart \in Int /\ timeStream \in Int

\* The worker is in a file, at a packet or at its end, and a file that waits
\* for its time has not been read.
PlaceInv == Up => /\ count <= Len(pathFiles)
                  /\ next <= Len(Channel.pkts) + 1
                  /\ Gap => next = 1

\* The codecs told are on their way to the muxer or its own, what is held out is
\* of the source they were told of, and the client has them once InitMuxer is over.
CodecInv ==
  /\ totalCodec \in {Codecs(f) : f \in Sources}
  /\ wpc = "codecs" => offer = totalCodec
  /\ wpc \in {"poll", "packet"} => header = totalCodec
  /\ wpc = "packet" => MetaOf(totalCodec) = offer[2].meta
  /\ ppc # "init" /\ CanMux(header) /\ sockUp => told = header

\* The packet held out is the one before next, and the files are in order.
OfferInv ==
  /\ \A i, j \in DOMAIN pathFiles : i < j => pathFiles[i].start <= pathFiles[j].start
  /\ wpc = "packet" =>
       /\ IsPacket(offer) /\ offer[4] = timeStream
       /\ FromFile(offer) =>
            /\ count \in DOMAIN pathFiles /\ offer[2] = Channel
            /\ next - 1 \in DOMAIN Channel.pkts /\ offer[3] = Channel.pkts[next - 1]

\* The worker is past packet k of file i, and does not hold it out.
Passed(i, k) ==
  \/ i < count
  \/ i = count /\ k < next /\ (wpc = "packet" /\ FromFile(offer) => k < next - 1)

\* The packet played last is one that the worker is past.
PlayedInv ==
  IsPacket(muxed) =>
    /\ muxed[4] \in Int
    /\ speed > 0 => muxed[4] <= timeStream
    /\ FromFile(muxed) =>
         \E i \in DOMAIN pathFiles : \E k \in DOMAIN muxed[2].pkts :
           pathFiles[i] = muxed[2] /\ muxed[2].pkts[k] = muxed[3] /\ Passed(i, k)

\* Packet i, or the beginning of the file, is not too early for the archive time
\* and no key frame was passed over since.
Anchor(i) ==
  /\ TimeIn(Channel, i) = 0 \/ Channel.start + TimeIn(Channel, i) <= timeStart + Slack
  /\ \A k \in i + 1..next - 1 : ~Channel.pkts[k].key
Anchored == \E i \in 0..next - 1 : Anchor(i)
\* The packet before, where there is one, is not far ahead already.
Followed == prev # 0 /\ Channel.start + prev <= timeStart + Lead(Channel)
TimeInv ==
  /\ NearArchiveTime
  /\ Up => /\ prev # 0 => timeStart - Slack <= Channel.start + prev
           /\ Anchored \/ Followed
=============================================================================
