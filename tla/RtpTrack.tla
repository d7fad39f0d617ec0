------------------------------ MODULE RtpTrack ------------------------------
(***************************************************************************)
(* What the RTSP client makes of the blocks of one H264 track: the check   *)
(* of a block's header, NAL units alone, in fragments (FU-A) or aggregated *)
(* (STAP-A), parameter sets in the SDP and in band, and 32-bit timestamps  *)
(* (parseBlockHeader, handleBlock and what they call in                    *)
(* format/rtsp/client.go).  The camera sends access units; TCP keeps its   *)
(* blocks in order, but a block whose header is refused, of this track or  *)
(* of any other channel of the connection, is skipped byte by byte, and    *)
(* the search for the next '$' may run over blocks behind it.  The blocks  *)
(* of the other channels are not followed: one of them that is refused may *)
(* come before any block of this track.                                    *)
(***************************************************************************)
EXTENDS Integers, Sequences, SequencesExt, Functions

CONSTANTS
  Wrap,           \* a timestamp is a number modulo Wrap (2^32)
  Hour,           \* ticks a block may be ahead before it is refused
  HalfHour,       \* ticks a packet may be ahead before the client fails
  Steps,          \* ticks from one access unit of the camera to the next
  Bases,          \* timestamps the camera may start from
  Forms,          \* how the camera may pack an access unit
  MaxSlices       \* bound: slices the camera codes

ASSUME TicksAssumption ==
  /\ Wrap \in Nat \ {0} /\ Bases \subseteq 0 .. Wrap - 1
  /\ Hour \in Nat /\ HalfHour \in 0 .. Hour
  /\ Steps \subseteq Int
ASSUME FormsAssumption ==
  Forms \subseteq {"single", "fragments", "sets", "aggregate", "slices",
                   "otherPayload", "rtcp", "unsupported"}

VARIABLES
  handles,    \* the caller answers a change by HandleCodecDataChange
  sdp,        \* the parameter sets in the SDP, <<0, 0>> if it has none
  track,      \* the Stream
  probing,    \* probe() still waits for the codec and drops packets
  status,     \* "ok", or the error the client stopped with
  sets,       \* camera: version of the SPS and of the PPS in force
  elapsed,    \* camera: its clock, not wrapped
  base,       \* camera: timestamp of time 0
  coded,      \* camera: slices so far
  feed,       \* camera: blocks of the access unit on their way
  out,        \* history: packets the caller got on this connection
  origin,     \* history: times of the first and of the last packet, or <<>>
  damaged,    \* history: a block was lost since the last start of a slice
  setsLost    \* history: a parameter set was lost on this connection

connection == <<handles, sdp, track, probing, status>>
camera == <<sets, elapsed, base, coded, feed>>
vars == <<connection, camera, out, origin, damaged, setsLost>>

-----------------------------------------------------------------------------
(* What the camera sends.                                                  *)

Part(n, k, of, key) == [slice |-> n, part |-> k, of |-> of, key |-> key]
Slice(n, key) == [type |-> "slice", data |-> <<Part(n, 1, 1, key)>>]
Fragment(n, k, of, key) ==
  [type |-> "FU-A", start |-> k = 1, end |-> k = of, data |-> <<Part(n, k, of, key)>>]
Sps(v) == [type |-> "sps", set |-> v]
Pps(v) == [type |-> "pps", set |-> v]

\* A block: its NAL units, more than one in a STAP-A, the camera's time and
\* the sets they were coded with.
Block(kind, nals, e, s) == [kind |-> kind, nals |-> nals, at |-> e, sets |-> s]

\* The blocks of an access unit that begins with slice n.  The first one and
\* those that bring sets are key frames.
AccessUnit(form, n, e, s) ==
  LET One(nal) == Block("rtp", <<nal>>, e, s)
      key      == n = 1 \/ form \in {"sets", "aggregate"}
  IN  CASE form = "single"       -> <<One(Slice(n, key))>>
        [] form = "fragments"    -> [k \in 1 .. 3 |-> One(Fragment(n, k, 3, key))]
        [] form = "sets"         -> <<One(Sps(s[1])), One(Pps(s[2])), One(Slice(n, key))>>
        [] form = "aggregate"    -> <<Block("rtp", <<Sps(s[1]), Pps(s[2]), Slice(n, key)>>, e, s)>>
        [] form = "slices"       -> <<Block("rtp", <<Slice(n, key), Slice(n + 1, key)>>, e, s)>>
        [] form = "otherPayload" -> <<Block("otherPayload", <<>>, e, s), One(Slice(n, key))>>
        [] form = "rtcp"         -> <<Block("rtcp", <<>>, e, s), One(Slice(n, key))>>
        [] form = "unsupported"  -> <<One([type |-> "FU-B"])>>

\* New parameter sets are sent with the first unit that uses them.
Send ==
  /\ feed = <<>> /\ coded < MaxSlices
  /\ \E form \in Forms, step \in Steps,
        new \in {sets, <<sets[1] + 1, sets[2]>>, <<sets[1] + 1, sets[2] + 1>>} :
        /\ new # sets => form \in {"sets", "aggregate"}
        /\ elapsed' = elapsed + step
        /\ sets' = new
        /\ feed' = AccessUnit(form, coded + 1, elapsed', new)
        /\ coded' = coded + (IF form = "slices" THEN 2 ELSE 1)
  /\ UNCHANGED <<connection, base, out, origin, damaged, setsLost>>

HasSets(b) == \E n \in Range(b.nals) : n.type \in {"sps", "pps"}
StartsSlice(b) == \E n \in Range(b.nals) : n.type = "FU-A" /\ n.start
Timestamp(b) == (base + b.at) % Wrap

-----------------------------------------------------------------------------
(* Parameter sets and codec data.                                          *)

FreshTrack ==
  [sps |-> 0, pps |-> 0, spsChanged |-> FALSE, ppsChanged |-> FALSE,
   codec |-> <<0, 0>>, fuStarted |-> FALSE, fuBuffer |-> <<>>,
   gotpkt |-> FALSE, pkt |-> [data |-> <<>>, key |-> FALSE],
   timestamp |-> 0, firsttimestamp |-> 0, lasttime |-> 0]

isCodecDataChange(t) == t.spsChanged /\ t.ppsChanged

KeepSps(t, v) ==
  IF t.sps = 0 THEN [t EXCEPT !.sps = v]
               ELSE [t EXCEPT !.sps = v, !.spsChanged = @ \/ t.sps # v]

\* Mutant: a PPS is replaced and nobody is told.
KeepPps_Quiet(t, v) == [t EXCEPT !.pps = v]

KeepPps(t, v) ==
  IF t.pps = 0 THEN [t EXCEPT !.pps = v]
               ELSE [t EXCEPT !.pps = v, !.ppsChanged = @ \/ t.pps # v]

\* The sets of the SDP, if it has any, go in first.  (The calls that setting
\* the first SPS and PPS makes replay the same sets and end the same way.)
makeCodecData(t, sprop) ==
  LET r == IF sprop = <<0, 0>> THEN t ELSE KeepPps(KeepSps(t, sprop[1]), sprop[2])
  IN  IF r.sps # 0 /\ r.pps # 0 THEN [r EXCEPT !.codec = <<r.sps, r.pps>>] ELSE r

-----------------------------------------------------------------------------
(* A NAL unit, a packet, a block.                                          *)

TakeSlice(t, ts, data) ==
  [t EXCEPT !.gotpkt = TRUE, !.timestamp = ts,
            !.pkt = [data |-> data, key |-> @.key \/ data[1].key]]

\* Mutant: the start of a slice does not drop what is left of another.
TakeFragment_KeepsBuffer(t, ts, n) ==
  LET buf == t.fuBuffer \o n.data
      s   == [t EXCEPT !.fuStarted = (@ \/ n.start) /\ ~n.end,
                       !.fuBuffer = IF t.fuStarted \/ n.start THEN buf ELSE @]
  IN  IF (t.fuStarted \/ n.start) /\ n.end THEN TakeSlice(s, ts, buf) ELSE s

\* FU-A: fragments before the first start are dropped; there is no look at
\* sequence numbers.
TakeFragment(t, ts, n) ==
  LET started == t.fuStarted \/ n.start
      buf     == (IF n.start THEN <<>> ELSE t.fuBuffer) \o n.data
      s       == [t EXCEPT !.fuStarted = started /\ ~n.end,
                           !.fuBuffer = IF started THEN buf ELSE @]
  IN  IF started /\ n.end THEN TakeSlice(s, ts, buf) ELSE s

handleH264Payload(t, ts, n) ==
  CASE n.type = "slice" -> TakeSlice(t, ts, n.data)
    [] n.type = "sps"   -> IF t.sps = 0 THEN makeCodecData(KeepSps(t, n.set), sdp)
                                        ELSE KeepSps(t, n.set)
    [] n.type = "pps"   -> IF t.pps = 0 THEN makeCodecData(KeepPps(t, n.set), sdp)
                                        ELSE KeepPps(t, n.set)
    [] n.type = "FU-A"  -> TakeFragment(t, ts, n)
    [] OTHER            -> t

\* Every NAL unit of the packet; of two slices the second takes the first's
\* place.
Payload(t, b) ==
  LET taken[n \in 0..Len(b.nals)] ==
        IF n = 0 THEN t ELSE handleH264Payload(taken[n - 1], Timestamp(b), b.nals[n])
  IN  taken[Len(b.nals)]

\* valid: another payload type, a timestamp behind that of the last packet,
\* or one more than an hour ahead of it make it false.
parseBlockHeader(t, b) ==
  \/ b.kind = "rtcp"
  \/ /\ b.kind = "rtp"
     /\ t.firsttimestamp # 0 =>
          LET ts == (Timestamp(b) - t.firsttimestamp) % Wrap
          IN  ts >= t.timestamp /\ ts - t.timestamp <= Hour

\* Mutant: the first timestamp is that of the last packet.
Rebased_Moves(t) ==
  [t EXCEPT !.firsttimestamp = t.timestamp,
            !.timestamp = (@ - t.firsttimestamp) % Wrap]

\* Times count from the first packet's timestamp; 0 stands for none yet.
Rebased(t) ==
  LET first == IF t.firsttimestamp = 0 THEN t.timestamp ELSE t.firsttimestamp
  IN  [t EXCEPT !.firsttimestamp = first, !.timestamp = (@ - first) % Wrap]

TimeInvalid(t) == t.timestamp < t.lasttime \/ t.timestamp - t.lasttime > HalfHour

\* Mutant: the packet is handed out and its key flag kept.
Emitted_KeepsKey(t) == [t EXCEPT !.lasttime = t.timestamp, !.gotpkt = FALSE]

Emitted(t) == [t EXCEPT !.lasttime = t.timestamp, !.gotpkt = FALSE,
                        !.pkt = FreshTrack.pkt]

-----------------------------------------------------------------------------
(* The client.                                                             *)

ResetHistory == /\ out' = <<>> /\ origin' = <<>>
                /\ damaged' = FALSE /\ setsLost' = FALSE

Init ==
  /\ handles \in BOOLEAN
  /\ sets = <<1, 1>>
  /\ sdp \in {<<0, 0>>, sets}
  /\ track = makeCodecData(FreshTrack, sdp)
  /\ probing = (track.codec = <<0, 0>>)
  /\ status = "ok"
  /\ elapsed = 0 /\ base \in Bases
  /\ coded = 0 /\ feed = <<>>
  /\ out = <<>> /\ origin = <<>>
  /\ damaged = FALSE /\ setsLost = FALSE

NextBlock(b) == status = "ok" /\ feed # <<>> /\ b = Head(feed) /\ feed' = Tail(feed)
Rest == <<handles, sdp, sets, elapsed, base, coded>>

Lost(b) == /\ damaged' = TRUE
           /\ setsLost' = (setsLost \/ HasSets(b))
           /\ UNCHANGED <<Rest, track, probing, status, out, origin>>

\* The header is refused, and its bytes are searched for another '$'.
Refuse(b) ==
  /\ NextBlock(b)
  /\ ~parseBlockHeader(track, b)
  /\ Lost(b)

\* The search, for this or for a refused block of another channel that came just
\* before, runs over a block that would have been accepted.
Swallow(b) ==
  /\ NextBlock(b)
  /\ parseBlockHeader(track, b)
  /\ Lost(b)

Accept(b) ==
  /\ NextBlock(b)
  /\ parseBlockHeader(track, b)
  /\ UNCHANGED Rest

Arrived(b) ==
  /\ Accept(b)
  /\ damaged' = (damaged /\ ~StartsSlice(b))
  /\ UNCHANGED setsLost

\* handleRtpPacket: both sets have changed, and the packet that meets this is
\* dropped.
CodecChanged(b) ==
  /\ Accept(b) /\ b.kind = "rtp"
  /\ isCodecDataChange(track)
  /\ status' = "codecChange"
  /\ damaged' = TRUE /\ setsLost' = (setsLost \/ HasSets(b))
  /\ UNCHANGED <<track, probing, out, origin>>

Unsupported(b) ==
  /\ Arrived(b) /\ b.kind = "rtp"
  /\ ~isCodecDataChange(track)
  /\ \E n \in Range(b.nals) : n.type = "FU-B"
  /\ status' = "unsupported"
  /\ UNCHANGED <<track, probing, out, origin>>

\* RTCP, a parameter set, part of a slice: nothing to hand out yet.
NoPacket(b) ==
  /\ Arrived(b)
  /\ b.kind = "rtp" => ~isCodecDataChange(track) /\ \A n \in Range(b.nals) : n.type # "FU-B"
  /\ ~Payload(track, b).gotpkt
  /\ track' = Payload(track, b)
  /\ UNCHANGED <<probing, status, out, origin>>

Packet(b) ==
  /\ Arrived(b) /\ b.kind = "rtp"
  /\ ~isCodecDataChange(track)
  /\ LET h == Payload(track, b)
         t == Rebased(h)
     IN  /\ h.gotpkt
         /\ IF TimeInvalid(t)
              THEN /\ track' = t /\ status' = "timeInvalid"
                   /\ UNCHANGED <<probing, out, origin>>
              ELSE /\ track' = Emitted(t)
                   /\ origin' = IF origin = <<>> THEN <<b.at, b.at>> ELSE <<origin[1], b.at>>
                   /\ out' = IF probing THEN out
                             ELSE Append(out, [data |-> t.pkt.data, key |-> t.pkt.key,
                                    time |-> t.timestamp, at |-> b.at, codec |-> t.codec,
                                    sets |-> b.sets, withSets |-> HasSets(b),
                                    damaged |-> damaged, setsLost |-> setsLost])
                   /\ probing' = (probing /\ t.codec = <<0, 0>>)
                   /\ UNCHANGED status

\* A packet of another track ends a call of readPacket, and the probe with it
\* when the codec is known.
OtherTrack ==
  /\ status = "ok" /\ probing /\ track.codec # <<0, 0>>
  /\ probing' = FALSE
  /\ UNCHANGED <<camera, handles, sdp, track, status, out, origin, damaged, setsLost>>

\* What the workers do after any error: a new client, a new DESCRIBE.
Reconnect ==
  /\ status # "ok"
  /\ status = "codecChange" => ~handles
  /\ sdp' = IF sdp = <<0, 0>> THEN sdp ELSE sets
  /\ track' = makeCodecData(FreshTrack, sdp')
  /\ probing' = (track'.codec = <<0, 0>>)
  /\ status' = "ok" /\ feed' = <<>>
  /\ ResetHistory
  /\ UNCHANGED <<handles, sets, elapsed, base, coded>>

\* What the error of a change asks for.
HandleCodecDataChange ==
  /\ status = "codecChange" /\ handles
  /\ track' = [makeCodecData(track, sdp) EXCEPT !.spsChanged = FALSE, !.ppsChanged = FALSE]
  /\ status' = "ok"
  /\ UNCHANGED <<camera, handles, sdp, probing, out, origin, damaged, setsLost>>

Read(b) ==
  \/ Refuse(b) \/ Swallow(b) \/ CodecChanged(b) \/ Unsupported(b)
  \/ NoPacket(b) \/ Packet(b)

Next ==
  \/ Send \/ OtherTrack \/ Reconnect \/ HandleCodecDataChange
  \/ \E b \in Range(feed) : Read(b)

Spec == Init /\ [][Next]_vars
-----------------------------------------------------------------------------
(* Properties.                                                             *)

IsWhole(d) ==
  \A k \in DOMAIN d : /\ d[k].slice = d[1].slice /\ d[k].part = k
                      /\ d[k].of = Len(d) /\ d[k].key = d[1].key

\* A packet is one slice from its first fragment to its last, with its own
\* key flag.  Fragments are joined without a look at sequence numbers, so
\* only a block that was lost after the slice began can break it; whatever
\* was lost before, the next slice that starts is whole again.
SlicesWhole ==
  \A p \in Range(out) : /\ ~p.damaged => IsWhole(p.data)
                        /\ p.key = p.data[1].key

\* The time of a packet is the camera's time since the first packet of the
\* connection, modulo 2^32, whatever was refused and however often the
\* timestamps wrapped, unless the first timestamp was 0.
TimesExact ==
  origin # <<>> /\ (base + origin[1]) % Wrap # 0 =>
    \A p \in Range(out) : p.time = (p.at - origin[1]) % Wrap

\* When both parameter sets change, no packet coded with the new ones is
\* handed out as one of the old codec, but for the packet that brought them.
\* A set lost on the way is not noticed, and HandleCodecDataChange goes back
\* to the sets of the SDP.
ChangeNoticed ==
  ~(handles /\ sdp # <<0, 0>>) =>
    \A p \in Range(out) :
      (\A k \in {1, 2} : p.codec[k] # p.sets[k]) => p.withSets \/ p.setsLost

-----------------------------------------------------------------------------
(* What makes these inductive; RtpTrackProofs proves it.                   *)

Versions == (Nat \ {0}) \X (Nat \ {0})
Parts == [slice : Nat, part : 1..3, of : {1, 3}, key : BOOLEAN]
Tracks ==
  [sps : Nat, pps : Nat, spsChanged : BOOLEAN, ppsChanged : BOOLEAN, codec : Nat \X Nat,
   fuStarted : BOOLEAN, fuBuffer : Seq(Parts), gotpkt : BOOLEAN,
   pkt : [data : Seq(Parts), key : BOOLEAN],
   timestamp : Int, firsttimestamp : Int, lasttime : Int]
Handed ==
  [data : Seq(Parts), key : BOOLEAN, time : Int, at : Int, codec : Nat \X Nat,
   sets : Versions, withSets : BOOLEAN, damaged : BOOLEAN, setsLost : BOOLEAN]

TypeOK ==
  /\ handles \in BOOLEAN
  /\ sets \in Versions /\ sdp \in {<<0, 0>>} \union Versions
  /\ track \in Tracks
  /\ sdp # <<0, 0>> => track.sps # 0 /\ track.pps # 0
  /\ probing \in BOOLEAN
  /\ status \in {"ok", "codecChange", "unsupported", "timeInvalid"}
  /\ elapsed \in Int /\ base \in 0..Wrap - 1 /\ coded \in Nat
  /\ out \in Seq(Handed)
  /\ origin \in {<<>>} \union Int \X Int
  /\ damaged \in BOOLEAN /\ setsLost \in BOOLEAN

\* The blocks under way are the rest of one access unit, the camera's last.
FeedInv ==
  feed = <<>> \/ \E form \in Forms, n \in 1..coded :
                   LET unit == AccessUnit(form, n, elapsed, sets)
                   IN  \E m \in 1..Len(unit) : feed = SubSeq(unit, m, Len(unit))

\* Between blocks no packet is there, unless its time was refused.
PacketInv ==
  status # "timeInvalid" => ~track.gotpkt /\ track.pkt = FreshTrack.pkt

\* A fragment that goes on finds what it goes on from, if nothing was lost.
BufferInv ==
  ~damaged /\ feed # <<>> =>
    \A x \in Range(Head(feed).nals) :
      x.type = "FU-A" /\ ~x.start =>
        LET d == x.data[1]
        IN  /\ track.fuStarted
            /\ track.fuBuffer = [k \in 1..d.part - 1 |-> Part(d.slice, k, d.of, d.key)]

\* Times count from the first packet of the connection.
ClockInv ==
  /\ origin = <<>> => out = <<>>
  /\ status # "timeInvalid" =>
       IF origin = <<>> THEN track.firsttimestamp = 0
       ELSE (base + origin[1]) % Wrap # 0 => track.firsttimestamp = (base + origin[1]) % Wrap

\* The codec is that of the track's sets, unless a change of them is noted.
Told(t) ==
  \/ t.codec = <<0, 0>>
  \/ /\ t.sps # 0 /\ t.pps # 0
     /\ t.spsChanged \/ t.codec[1] = t.sps
     /\ t.ppsChanged \/ t.codec[2] = t.pps
Pending(type) == \E b \in Range(feed) : \E x \in Range(b.nals) : x.type = type
\* The track has the camera's sets, none, or they are under way.
CodecInv ==
  ~(handles /\ sdp # <<0, 0>>) =>
    /\ Told(track)
    /\ probing \/ track.codec # <<0, 0>>
    /\ ~setsLost => /\ Pending("sps") \/ track.sps \in {0, sets[1]}
                    /\ Pending("pps") \/ track.pps \in {0, sets[2]}

=============================================================================
