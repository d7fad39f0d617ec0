----------------------------- MODULE RtspClient -----------------------------
(***************************************************************************)
(* The dialogue of the RTSP client with a camera (format/rtsp/client.go):  *)
(* prepare's stages, one request after another on one connection, answers  *)
(* with media blocks between them, credentials after a 401, another server *)
(* after a 302, PLAY whose answer the packet reader meets, and probe, which *)
(* reads packets until every track has a codec.  What a block is made of   *)
(* is the business of RtpTrack.                                            *)
(***************************************************************************)
EXTENDS Naturals, Sequences, SequencesExt, Functions

CONSTANTS
  Servers,        \* what cameras may do, see ServerAssumption
  TrackKinds,     \* where the codecs of the tracks may come from
  NumTracks,      \* tracks in a description
  MaxKeepalives,  \* bound: keep-alive requests
  MaxWire         \* bound: blocks on their way

Methods == {"OPTIONS", "DESCRIBE", "SETUP", "PLAY"}
Stages == {"start", "optionsDone", "describeDone", "setupDone",
           "waitCodecData", "codecDataDone"}

\* The methods a server wants credentials for, one it redirects and one it
\* refuses ("" for none), whether what is no 200 has a body and whether it sends
\* blocks (RTCP) of a track as soon as it is set up.
ASSUME ServerAssumption ==
  Servers \subseteq [challenges : SUBSET Methods, redirects : Methods \union {""},
                     refuses : Methods \union {""}, errorBody : BOOLEAN, early : BOOLEAN]
ASSUME TrackAssumption ==
  /\ TrackKinds \subseteq [1 .. NumTracks -> {"sdp", "inBand", "unsupported"}]
  /\ NumTracks \in Nat \ {0} /\ MaxKeepalives \in Nat /\ MaxWire \in Nat \ {0}

VARIABLES
  stage,      \* what prepare has done
  pc,         \* "idle", "read" (ReadResponse), "packets" (readPacket), an
              \* error returned ("failed"), no connection any more ("lost")
  tries,      \* Describe: requests so far
  setupIdx,   \* tracks to set up
  setupNext,  \* Setup: the track it is at
  ready,      \* tracks with codec data
  cseq, session, auth,   \* auth: the server whose challenge is answered, or 0
  user,       \* the URL has a user name
  kinds,      \* where the codecs of the tracks come from
  server,     \* the two servers
  at,         \* the server the connection is to
  setUp,      \* tracks set up at each server
  playing,    \* the servers that stream
  requests,   \* on their way to the server
  wire,       \* answers and blocks on their way to the client
  keepalives,
  answers     \* history: the answers read, and what the client waited for

plan == <<tries, setupIdx, setupNext, ready>>
credentials == <<session, auth>>
camera == <<user, kinds, server, setUp, playing>>
link == <<at, requests, wire>>
vars == <<stage, pc, plan, cseq, credentials, camera, link, keepalives, answers>>

Tracks == 1 .. NumTracks
allCodecDataReady == setupIdx \subseteq ready

Init ==
  /\ stage = "start" /\ pc = "idle"
  /\ tries = 0 /\ setupIdx = {} /\ setupNext = 1 /\ ready = {}
  /\ cseq = 0 /\ session = 0 /\ auth = 0
  /\ user \in BOOLEAN
  /\ kinds \in TrackKinds
  /\ server \in [{1, 2} -> Servers]
  /\ at = 1 /\ setUp = [s \in {1, 2} |-> {}] /\ playing = {}
  /\ requests = <<>> /\ wire = <<>>
  /\ keepalives = 0 /\ answers = <<>>

-----------------------------------------------------------------------------
(* The camera.                                                             *)

Answer(r, status, sess, body) ==
  [kind |-> "answer", to |-> r.cseq, method |-> r.method, status |-> status,
   session |-> sess, body |-> body]

\* A request is answered, in order; a session is named after its server.
ServerAnswers ==
  /\ requests # <<>>
  /\ LET r == Head(requests)
         s == server[at]
         Say(status, sess, body) == wire' = Append(wire, Answer(r, status, sess, body))
     IN  /\ requests' = Tail(requests)
         /\ \/ /\ r.method \in s.challenges /\ r.auth # at
               /\ Say(401, 0, s.errorBody)
               /\ UNCHANGED <<setUp, playing>>
            \/ /\ r.method \in s.challenges => r.auth = at
               /\ \/ /\ s.redirects = r.method
                     /\ Say(302, 0, s.errorBody)
                     /\ UNCHANGED <<setUp, playing>>
                  \/ /\ s.redirects # r.method
                     /\ \/ s.refuses = r.method
                        \/ r.method = "SETUP" /\ r.session \notin {0, at}
                        \/ r.method = "PLAY" /\ (r.session # at \/ setUp[at] = {})
                     /\ Say(404, 0, s.errorBody)
                     /\ UNCHANGED <<setUp, playing>>
                  \/ /\ r.method \notin {s.redirects, s.refuses}
                     /\ r.method = "SETUP" => r.session \in {0, at}
                     /\ r.method = "PLAY" => r.session = at /\ setUp[at] # {}
                     /\ Say(200, IF r.method = "SETUP" THEN at ELSE 0, r.method = "DESCRIBE")
                     /\ setUp' = IF r.method = "SETUP"
                                   THEN [setUp EXCEPT ![at] = @ \union {r.track}] ELSE setUp
                     /\ playing' = IF r.method = "PLAY" THEN playing \union {at} ELSE playing
  /\ UNCHANGED <<stage, pc, plan, cseq, credentials, user, kinds, server, at, keepalives, answers>>

Blocks == Len(SelectSeq(wire, LAMBDA i : i.kind = "block"))

\* RTP while it streams, RTCP before.
ServerBlock(t) ==
  /\ at \in playing \/ server[at].early
  /\ t \in setUp[at] /\ Blocks < MaxWire
  /\ wire' = Append(wire, [kind |-> "block", track |-> t, rtp |-> at \in playing])
  /\ UNCHANGED <<stage, pc, plan, cseq, credentials, camera, at, requests, keepalives, answers>>

-----------------------------------------------------------------------------
(* The client writes.                                                      *)

WriteRequest(method, t) ==
  /\ cseq' = cseq + 1
  /\ requests' = Append(requests, [cseq |-> cseq + 1, method |-> method, track |-> t,
                                   auth |-> auth, session |-> session])
  /\ UNCHANGED <<setupIdx, setupNext, ready, credentials, camera, at, wire, answers>>

Starts(st) == stage = st /\ pc = "idle"

\* Mutant: like PLAY, OPTIONS does not wait for its answer.
Options_NoWait ==
  /\ Starts("start")
  /\ WriteRequest("OPTIONS", 0)
  /\ stage' = "optionsDone"
  /\ UNCHANGED <<pc, tries, keepalives>>

Options ==
  /\ Starts("start")
  /\ WriteRequest("OPTIONS", 0)
  /\ pc' = "read"
  /\ UNCHANGED <<stage, tries, keepalives>>

Describe ==
  /\ Starts("optionsDone")
  /\ WriteRequest("DESCRIBE", 0)
  /\ tries' = tries + 1
  /\ pc' = "read"
  /\ UNCHANGED <<stage, keepalives>>

Setup ==
  /\ Starts("describeDone") /\ setupNext \in setupIdx
  /\ WriteRequest("SETUP", setupNext)
  /\ pc' = "read"
  /\ UNCHANGED <<stage, tries, keepalives>>

\* Mutant: the last track is left out.
SetupDone_Early ==
  /\ Starts("describeDone") /\ setupNext + 1 \notin setupIdx
  /\ stage' = "setupDone"
  /\ UNCHANGED <<pc, plan, cseq, credentials, camera, link, keepalives, answers>>

SetupDone ==
  /\ Starts("describeDone") /\ setupNext \notin setupIdx
  /\ stage' = "setupDone"
  /\ UNCHANGED <<pc, plan, cseq, credentials, camera, link, keepalives, answers>>

\* PLAY does not wait for its answer; without a codec probe begins.
Play ==
  /\ Starts("setupDone")
  /\ WriteRequest("PLAY", 0)
  /\ stage' = IF allCodecDataReady THEN "codecDataDone" ELSE "waitCodecData"
  /\ pc' = "packets"
  /\ UNCHANGED <<tries, keepalives>>

SendRtpKeepalive ==
  /\ pc = "packets" /\ keepalives < MaxKeepalives
  /\ keepalives' = keepalives + 1
  /\ WriteRequest("OPTIONS", 0)
  /\ UNCHANGED <<stage, pc, tries>>

-----------------------------------------------------------------------------
(* The client reads.                                                       *)

NextIs(kind) == wire # <<>> /\ Head(wire).kind = kind
Res == Head(wire)

Noted ==
  /\ session' = IF session = 0 THEN Res.session ELSE session
  /\ answers' = Append(answers, [want |-> cseq, to |-> Res.to, method |-> Res.method,
                                 status |-> Res.status, reader |-> pc])
  /\ UNCHANGED <<cseq, camera, keepalives>>

\* readResp and handleResp.  A redirection leaves everything but the session
\* and the credentials behind.
handleResp ==
  /\ Noted
  /\ \/ /\ Res.status = 302
        /\ at' = 3 - at /\ requests' = <<>> /\ wire' = <<>>
        /\ UNCHANGED auth
     \/ /\ Res.status = 401 /\ user
        /\ auth' = at /\ wire' = Tail(wire)
        /\ UNCHANGED <<at, requests>>
     \/ /\ Res.status \notin {302, 401}
        /\ wire' = Tail(wire)
        /\ UNCHANGED <<at, requests, auth>>

\* A redirection that cannot be dialled, a challenge without a user name.
ResponseFails ==
  /\ pc \in {"read", "packets"} /\ NextIs("answer")
  /\ Res.status = 302 \/ (Res.status = 401 /\ ~user)
  /\ Noted
  /\ pc' = IF Res.status = 302 THEN "lost" ELSE "failed"
  /\ wire' = Tail(wire)
  /\ UNCHANGED <<stage, plan, auth, at, requests>>

\* ReadResponse drops blocks until an answer comes.
SkipBlock ==
  /\ pc = "read" /\ NextIs("block")
  /\ wire' = Tail(wire)
  /\ UNCHANGED <<stage, pc, plan, cseq, credentials, camera, at, requests, keepalives, answers>>

Reads(st) == pc = "read" /\ stage = st /\ NextIs("answer") /\ handleResp

OptionsAnswered ==
  /\ Reads("start")
  /\ stage' = "optionsDone" /\ pc' = "idle"
  /\ UNCHANGED plan

\* Mutant: one request, whatever the answer.
DescribeAgain_Never == FALSE

\* Two requests at most.
DescribeAgain == Res.status # 200 /\ tries < 2

DescribeRetried ==
  /\ Reads("optionsDone") /\ DescribeAgain
  /\ pc' = "idle"
  /\ UNCHANGED <<stage, plan>>

\* Mutant: only a description that was granted is taken.
Described_Granted ==
  /\ Reads("optionsDone") /\ ~DescribeAgain
  /\ Res.body /\ Res.status = 200
  /\ setupIdx' = Tracks
  /\ ready' = {t \in Tracks : kinds[t] = "sdp"}
  /\ stage' = "describeDone" /\ pc' = "idle"
  /\ UNCHANGED <<tries, setupNext>>

\* Any body is taken for a description; that of an error has no tracks.
Described ==
  /\ Reads("optionsDone") /\ ~DescribeAgain
  /\ Res.body
  /\ setupIdx' = IF Res.status = 200 THEN Tracks ELSE {}
  /\ ready' = {t \in setupIdx' : kinds[t] = "sdp"}
  /\ stage' = "describeDone" /\ pc' = "idle"
  /\ UNCHANGED <<tries, setupNext>>

DescribeFailed ==
  /\ Reads("optionsDone") /\ ~DescribeAgain
  /\ ~Res.body
  /\ pc' = "failed"
  /\ UNCHANGED <<stage, plan>>

\* Whatever the status, the next track is set up.
SetupAnswered ==
  /\ Reads("describeDone")
  /\ setupNext' = setupNext + 1 /\ pc' = "idle"
  /\ UNCHANGED <<stage, tries, setupIdx, ready>>

\* readPacket takes note of an answer and reads on.
AnswerBetweenBlocks ==
  /\ pc = "packets" /\ NextIs("answer") /\ handleResp
  /\ UNCHANGED <<stage, pc, plan>>

\* A block ends the probe when the last codec comes with it.
ReadPacket ==
  /\ pc = "packets" /\ NextIs("block")
  /\ wire' = Tail(wire)
  /\ ready' = ready \union {t \in {Res.track} : Res.rtp /\ kinds[t] = "inBand"}
  /\ stage' = IF setupIdx \subseteq ready' THEN "codecDataDone" ELSE stage
  /\ UNCHANGED <<pc, tries, setupIdx, setupNext, cseq, credentials, camera, at, requests,
                 keepalives, answers>>

ConnectionLost ==
  /\ pc \notin {"failed", "lost"}
  /\ pc' = "lost"
  /\ UNCHANGED <<stage, plan, cseq, credentials, camera, link, keepalives, answers>>

Client ==
  \/ Options \/ Describe \/ Setup \/ SetupDone \/ Play
  \/ ResponseFails \/ SkipBlock \/ OptionsAnswered \/ DescribeRetried \/ Described
  \/ DescribeFailed \/ SetupAnswered \/ AnswerBetweenBlocks \/ ReadPacket

Next ==
  \/ Client \/ SendRtpKeepalive \/ ServerAnswers \/ ConnectionLost
  \/ \E t \in Tracks : ServerBlock(t)

Spec == Init /\ [][Next]_vars

\* The client runs when it can, a server answers what it is asked and, once it
\* streams, goes on to send every track it has set up.
FairSpec ==
  /\ Spec
  /\ WF_vars(Client) /\ WF_vars(ServerAnswers)
  /\ \A t \in Tracks : SF_vars(ServerBlock(t))

-----------------------------------------------------------------------------
(* Properties.                                                             *)

TypeOK ==
  /\ stage \in Stages /\ pc \in {"idle", "read", "packets", "failed", "lost"}
  /\ setupIdx \subseteq Tracks /\ ready \subseteq setupIdx
  /\ setupNext \in 1 .. NumTracks + 1 /\ tries \in 0 .. 2
  /\ {session, auth} \subseteq 0 .. 2 /\ at \in {1, 2} /\ playing \subseteq {1, 2}

\* The answer ReadResponse returns is that to the request just written, although
\* the client compares no sequence numbers: through challenges, redirections
\* and answers in between.
AnswerIsForRequest == \A a \in Range(answers) : a.reader = "read" => a.to = a.want

Refused(a) == /\ a.status # 200
              /\ a.method \in {"SETUP", "PLAY"} \/ a.reader = "packets"

\* Once everything is answered, all tracks are set up at the server and it
\* streams.  The client ignores the statuses of SETUP and PLAY, so it can
\* wait for packets that never come; but only after one of them, or a
\* redirection in mid-stream.
TracksStream ==
  pc = "packets" /\ requests = <<>> /\ ~(\E i \in Range(wire) : i.kind = "answer") =>
    \/ at \in playing /\ setupIdx \subseteq setUp[at]
    \/ setupIdx = {}
    \/ \E a \in Range(answers) : Refused(a)

\* prepare comes to an end with every server, whatever it asks for, refuses
\* and redirects; what may not end is probe.
PrepareEnds == <>(pc \in {"packets", "failed", "lost"})

\* A camera that asks for credentials from DESCRIBE on, sends the client
\* elsewhere at most once and before anything is set up.  (One that challenges
\* OPTIONS before it redirects it would redirect the keep-alive.  DESCRIBE is
\* sent twice: a challenge or a redirection uses up one of the requests.)
Cooperative ==
  /\ user
  /\ \A s \in {1, 2} : /\ server[s].refuses = ""
                       /\ server[s].challenges # {} => "DESCRIBE" \in server[s].challenges
  /\ server[1].redirects \in {"", "OPTIONS", "DESCRIBE"} /\ server[2].redirects = ""
  /\ server[1].redirects = "OPTIONS" => "OPTIONS" \notin server[1].challenges
  /\ server[1].redirects = "DESCRIBE" => /\ server[1].challenges \in {{}, Methods}
                                         /\ server[2].challenges = {}
  /\ \A t \in Tracks : kinds[t] # "unsupported"

\* With such a camera Streams returns the codecs of all tracks, unless the
\* connection breaks or the other server cannot be dialled.
StreamsReturn ==
  Cooperative =>
    <>((stage = "codecDataDone" /\ setupIdx = Tracks) \/ pc = "lost")
=============================================================================
