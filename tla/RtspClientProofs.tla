-------------------------- MODULE RtspClientProofs --------------------------
(***************************************************************************)
(* The dialogue of the RTSP client keeps its types, an answer that         *)
(* ReadResponse returns is the answer to the request just written, and     *)
(* packets that do not come were refused in an answer the client ignored,  *)
(* for any servers, tracks and bounds.                                     *)
(***************************************************************************)
EXTENDS RtspClient, TLAPS

-----------------------------------------------------------------------------
(* The inductive invariant.                                                *)

AnswerItems == [kind : {"answer"}, to : Nat, method : Methods,
                status : {200, 302, 401, 404}, session : 0 .. 2, body : BOOLEAN]
BlockItems == [kind : {"block"}, track : setupIdx, rtp : BOOLEAN]
RequestItems == [cseq : Nat, method : Methods, track : setupIdx \union {0},
                 auth : 0 .. 2, session : 0 .. 2]
Notes == {a \in [want : Nat, to : Nat, method : Methods,
                 status : {200, 302, 401, 404}, reader : {"read", "packets"}] :
            a.reader = "read" => a.to = a.want}

\* What is on its way, and what has been noted.
LinkInv ==
  /\ cseq \in Nat
  /\ requests \in Seq(RequestItems)
  /\ \A i \in DOMAIN requests : requests[i].method = "SETUP" => requests[i].track # 0
  /\ wire \in Seq(AnswerItems \union BlockItems)
  /\ answers \in Seq(Notes)
  /\ setUp \in [{1, 2} -> SUBSET setupIdx]
  /\ server \in [{1, 2} -> Servers]

\* How far prepare has come.
StageInv ==
  /\ stage = "start" => tries = 0
  /\ stage \in {"start", "optionsDone"} => setupIdx = {} /\ setupNext = 1
  /\ pc = "idle" /\ stage = "optionsDone" => tries < 2
  /\ pc = "read" /\ stage = "describeDone" => setupNext \in setupIdx

OnlyBlocks(w) == \A i \in DOMAIN w : w[i].kind = "block"
OneAnswer(w) ==
  \E i \in DOMAIN w : /\ w[i].kind = "answer" /\ w[i].to = cseq
                      /\ \A j \in DOMAIN w : j # i => w[j].kind = "block"

\* Between two requests nothing is outstanding; while ReadResponse waits,
\* exactly one request or its answer is.
TurnInv ==
  /\ pc = "idle" => requests = <<>> /\ OnlyBlocks(wire)
  /\ pc = "read" =>
       \/ Len(requests) = 1 /\ requests[1].cseq = cseq /\ OnlyBlocks(wire)
       \/ requests = <<>> /\ OneAnswer(wire)

RtspInv == TypeOK /\ LinkInv /\ StageInv /\ TurnInv

-----------------------------------------------------------------------------
(* Sequences.                                                              *)

\* A sequence over a set is one over a larger set.
LEMMA SeqGrows ==
  ASSUME NEW S, NEW T, S \subseteq T, NEW s \in Seq(S)
  PROVE  s \in Seq(T)
OBVIOUS

LEMMA EmptySequence == ASSUME NEW S PROVE <<>> \in Seq(S)
OBVIOUS

\* Appending keeps what holds of all elements.
LEMMA AppendElements ==
  ASSUME NEW S, NEW s \in Seq(S), NEW e \in S
  PROVE  /\ Append(s, e) \in Seq(S)
         /\ DOMAIN Append(s, e) = 1 .. Len(s) + 1
         /\ Append(s, e)[Len(s) + 1] = e
         /\ \A i \in DOMAIN s : Append(s, e)[i] = s[i]
OBVIOUS

LEMMA TailElements ==
  ASSUME NEW S, NEW s \in Seq(S), s # <<>>
  PROVE  /\ Tail(s) \in Seq(S)
         /\ Head(s) = s[1] /\ 1 \in DOMAIN s
         /\ DOMAIN Tail(s) = 1 .. Len(s) - 1
         /\ \A i \in DOMAIN Tail(s) : i + 1 \in DOMAIN s /\ Tail(s)[i] = s[i + 1]
OBVIOUS

-----------------------------------------------------------------------------
(* An answer is read.                                                      *)

\* What handleResp and ResponseFails make of the link, whoever reads.
LEMMA NotedKeeps ==
  ASSUME RtspInv, NextIs("answer"), pc \in {"read", "packets"}, Noted
  PROVE  /\ session' \in 0 .. 2
         /\ answers' \in Seq(Notes)
         /\ Res \in AnswerItems
         /\ Tail(wire) \in Seq(AnswerItems \union BlockItems)
<1>1. wire \in Seq(AnswerItems \union BlockItems) /\ wire # <<>>
  BY DEF RtspInv, LinkInv, NextIs
<1>2. Res \in AnswerItems /\ Res = wire[1] /\ 1 \in DOMAIN wire
  BY <1>1, TailElements DEF NextIs, Res, AnswerItems, BlockItems
<1>3. pc = "read" => Res.to = cseq
  BY <1>2 DEF RtspInv, TurnInv, OnlyBlocks, OneAnswer, NextIs, Res
<1>4. session' \in 0 .. 2
  BY <1>2 DEF Noted, RtspInv, TypeOK, AnswerItems
<1>5. [want |-> cseq, to |-> Res.to, method |-> Res.method,
       status |-> Res.status, reader |-> pc] \in Notes
  BY <1>2, <1>3 DEF RtspInv, LinkInv, AnswerItems, Notes
<1>6. answers' \in Seq(Notes)
  BY <1>5, AppendElements DEF Noted, RtspInv, LinkInv
<1> QED BY <1>1, <1>2, <1>4, <1>6, TailElements

\* When ReadResponse reads an answer, nothing is outstanding any more.
LEMMA ReadEmpties ==
  ASSUME RtspInv, NextIs("answer"), pc = "read"
  PROVE  requests = <<>> /\ OnlyBlocks(Tail(wire)) /\ OnlyBlocks(<<>>)
<1>1. wire \in Seq(AnswerItems \union BlockItems) /\ wire # <<>>
  BY DEF RtspInv, LinkInv, NextIs
<1>2. wire[1].kind = "answer" /\ 1 \in DOMAIN wire
  BY <1>1, TailElements DEF NextIs
<1>3. requests = <<>> /\ OneAnswer(wire)
  BY <1>2 DEF RtspInv, TurnInv, OnlyBlocks
<1>4. \A j \in DOMAIN wire : j # 1 => wire[j].kind = "block"
  BY <1>2, <1>3 DEF OneAnswer
<1>5. OnlyBlocks(Tail(wire))
  BY <1>1, <1>4, TailElements DEF OnlyBlocks
<1> QED BY <1>3, <1>5 DEF OnlyBlocks

\* handleResp, in ReadResponse and in readPacket.
LEMMA ResponseKeeps ==
  ASSUME RtspInv, NextIs("answer"), pc \in {"read", "packets"}, handleResp
  PROVE  /\ session' \in 0 .. 2 /\ auth' \in 0 .. 2 /\ at' \in {1, 2}
         /\ answers' \in Seq(Notes)
         /\ requests' \in {requests, <<>>}
         /\ wire' \in {Tail(wire), <<>>}
         /\ wire' \in Seq(AnswerItems \union BlockItems)
         /\ UNCHANGED <<cseq, camera, keepalives>>
<1>1. Noted BY DEF handleResp
<1>2. /\ session' \in 0 .. 2 /\ answers' \in Seq(Notes)
      /\ Tail(wire) \in Seq(AnswerItems \union BlockItems)
  BY <1>1, NotedKeeps
<1>3. /\ auth' \in 0 .. 2 /\ at' \in {1, 2}
      /\ requests' \in {requests, <<>>} /\ wire' \in {Tail(wire), <<>>}
  BY DEF handleResp, RtspInv, TypeOK
<1>4. UNCHANGED <<cseq, camera, keepalives>>
  BY <1>1 DEF Noted
<1>5. wire' \in Seq(AnswerItems \union BlockItems)
  <2>1. CASE wire' = <<>> BY <2>1, EmptySequence
  <2>2. CASE wire' = Tail(wire) BY <1>2, <2>2
  <2> QED BY <1>3, <2>1, <2>2
<1> QED BY <1>2, <1>3, <1>4, <1>5

-----------------------------------------------------------------------------
(* Steps.                                                                  *)

\* A request is written: it is the only thing outstanding, unless packets are
\* being read.
LEMMA WriteKeeps ==
  ASSUME RtspInv, NEW method \in Methods, NEW t \in setupIdx \union {0},
         method = "SETUP" => t # 0, WriteRequest(method, t),
         pc \in {"idle", "packets"}, pc' \in {"read", "packets"},
         pc' = "read" => pc = "idle"
  PROVE  LinkInv' /\ TurnInv'
<1> DEFINE r == [cseq |-> cseq + 1, method |-> method, track |-> t,
                 auth |-> auth, session |-> session]
<1>1. r \in RequestItems
  BY DEF RtspInv, LinkInv, TypeOK, RequestItems
<1>2. requests' = Append(requests, r) /\ cseq' = cseq + 1
      /\ UNCHANGED <<setupIdx, wire, answers, setUp, server>>
  BY DEF WriteRequest, camera
<1>3. requests \in Seq(RequestItems)
  BY DEF RtspInv, LinkInv
<1>4. requests' \in Seq(RequestItems) /\ cseq' \in Nat
  BY <1>1, <1>2, <1>3, AppendElements DEF RtspInv, LinkInv
<1>5. \A i \in DOMAIN requests' : requests'[i].method = "SETUP" => requests'[i].track # 0
  BY <1>1, <1>2, <1>3, AppendElements DEF RtspInv, LinkInv
<1>6. LinkInv'
  BY <1>2, <1>4, <1>5 DEF RtspInv, LinkInv, RequestItems, BlockItems
<1>7. TurnInv'
  <2>1. CASE pc' = "packets"
    BY <2>1 DEF TurnInv
  <2>2. CASE pc' = "read"
    <3>1. requests = <<>> /\ OnlyBlocks(wire)
      BY <2>2 DEF RtspInv, TurnInv
    <3>2. Len(requests') = 1 /\ requests'[1].cseq = cseq'
      BY <3>1, <1>2
    <3>3. OnlyBlocks(wire)'
      BY <3>1, <1>2 DEF OnlyBlocks
    <3> QED BY <2>2, <3>2, <3>3 DEF TurnInv
  <2> QED BY <2>1, <2>2
<1> QED BY <1>6, <1>7

\* The link after an answer was read.
LEMMA LinkAfterResponse ==
  ASSUME RtspInv, setupIdx \subseteq setupIdx', cseq' = cseq, UNCHANGED camera,
         answers' \in Seq(Notes), requests' \in {requests, <<>>},
         wire' \in Seq(AnswerItems \union BlockItems)
  PROVE  LinkInv'
<1>1. BlockItems \subseteq BlockItems' /\ RequestItems \subseteq RequestItems'
  BY DEF BlockItems, RequestItems
<1>2. requests' \in Seq(RequestItems)
  <2>1. CASE requests' = <<>> BY <2>1, EmptySequence
  <2>2. CASE requests' = requests BY <2>2 DEF RtspInv, LinkInv
  <2> QED BY <2>1, <2>2
<1>3. requests' \in Seq(RequestItems')
  BY <1>1, <1>2, SeqGrows
<1>4. wire' \in Seq(AnswerItems \union BlockItems')
  BY <1>1, SeqGrows
<1>5. setUp' \in [{1, 2} -> SUBSET setupIdx']
  BY DEF RtspInv, LinkInv, camera
<1> QED BY <1>3, <1>4, <1>5 DEF RtspInv, LinkInv, camera

\* The steps of ReadResponse after an answer.
LEMMA ReadsKeep ==
  ASSUME RtspInv, NEW st, Reads(st), setupIdx \subseteq setupIdx',
         pc' \in {"idle", "failed"}
  PROVE  /\ LinkInv' /\ TurnInv'
         /\ {session', auth'} \subseteq 0 .. 2 /\ at' \in {1, 2}
         /\ playing' \subseteq {1, 2}
<1>1. NextIs("answer") /\ handleResp /\ pc = "read"
  BY DEF Reads
<1>2. requests = <<>> /\ OnlyBlocks(Tail(wire)) /\ OnlyBlocks(<<>>)
  BY <1>1, ReadEmpties
<1>3. /\ session' \in 0 .. 2 /\ auth' \in 0 .. 2 /\ at' \in {1, 2}
      /\ answers' \in Seq(Notes)
      /\ requests' \in {requests, <<>>}
      /\ wire' \in {Tail(wire), <<>>}
      /\ wire' \in Seq(AnswerItems \union BlockItems)
      /\ UNCHANGED <<cseq, camera, keepalives>>
  BY <1>1, ResponseKeeps
<1>4. LinkInv'
  BY <1>3, LinkAfterResponse
<1>5. requests' = <<>> /\ OnlyBlocks(wire')
  BY <1>2, <1>3
<1>6. TurnInv'
  BY <1>5 DEF TurnInv, OnlyBlocks
<1> QED BY <1>3, <1>4, <1>6 DEF RtspInv, TypeOK, camera

\* A step that leaves the link alone and waits for nothing.
LEMMA QuietKeeps ==
  ASSUME RtspInv, UNCHANGED <<setupIdx, cseq, camera, requests, answers>>,
         wire' \in Seq(AnswerItems \union BlockItems),
         pc' \in {"packets", "failed", "lost"}
  PROVE  LinkInv' /\ TurnInv'
BY DEF RtspInv, LinkInv, TurnInv, camera, RequestItems, BlockItems

\* The server answers the first request.
LEMMA AnswerKeeps ==
  ASSUME RtspInv, ServerAnswers
  PROVE  LinkInv' /\ TurnInv' /\ playing' \subseteq {1, 2}
<1> DEFINE r == Head(requests)
<1>1. requests \in Seq(RequestItems) /\ requests # <<>>
      /\ wire \in Seq(AnswerItems \union BlockItems)
  BY DEF RtspInv, LinkInv, ServerAnswers
<1>2. r \in RequestItems /\ r = requests[1] /\ 1 \in DOMAIN requests
  BY <1>1, TailElements
<1>3. server[at] \in Servers /\ at \in {1, 2}
  BY DEF RtspInv, LinkInv, TypeOK
<1>4. server[at].errorBody \in BOOLEAN
  BY <1>3, ServerAssumption
<1>5. PICK status \in {200, 302, 401, 404}, sess \in 0 .. 2, body \in BOOLEAN :
         wire' = Append(wire, Answer(r, status, sess, body))
  <2>1. \/ wire' = Append(wire, Answer(r, 401, 0, server[at].errorBody))
        \/ wire' = Append(wire, Answer(r, 302, 0, server[at].errorBody))
        \/ wire' = Append(wire, Answer(r, 404, 0, server[at].errorBody))
        \/ wire' = Append(wire, Answer(r, 200, IF r.method = "SETUP" THEN at ELSE 0,
                                       r.method = "DESCRIBE"))
    BY DEF ServerAnswers
  <2>2. (IF r.method = "SETUP" THEN at ELSE 0) \in 0 .. 2
    BY <1>3
  <2>3. (r.method = "DESCRIBE") \in BOOLEAN
    OBVIOUS
  <2> HIDE DEF r
  <2>4. CASE wire' = Append(wire, Answer(r, 401, 0, server[at].errorBody))
    BY <1>4, <2>4
  <2>5. CASE wire' = Append(wire, Answer(r, 302, 0, server[at].errorBody))
    BY <1>4, <2>5
  <2>6. CASE wire' = Append(wire, Answer(r, 404, 0, server[at].errorBody))
    BY <1>4, <2>6
  <2>7. CASE wire' = Append(wire, Answer(r, 200, IF r.method = "SETUP" THEN at ELSE 0,
                                         r.method = "DESCRIBE"))
    <3> DEFINE s0 == IF r.method = "SETUP" THEN at ELSE 0
               b0 == r.method = "DESCRIBE"
    <3>1. wire' = Append(wire, Answer(r, 200, s0, b0))
      BY <2>7
    <3>2. s0 \in 0 .. 2 /\ b0 \in BOOLEAN
      BY <2>2, <2>3
    <3> HIDE DEF s0, b0
    <3>3. 200 \in {200, 302, 401, 404}
      OBVIOUS
    <3> QED BY <3>1, <3>2
  <2> QED BY <2>1, <2>4, <2>5, <2>6, <2>7
<1> DEFINE a == Answer(r, status, sess, body)
<1>6. a \in AnswerItems /\ a.kind = "answer" /\ a.to = r.cseq
  BY <1>2, <1>5 DEF Answer, AnswerItems, RequestItems
<1>7. wire' \in Seq(AnswerItems \union BlockItems)
  BY <1>1, <1>5, <1>6, AppendElements
<1>8. requests' = Tail(requests)
      /\ UNCHANGED <<pc, cseq, answers, server, setupIdx>>
  BY DEF ServerAnswers, plan
<1>9. setUp' \in [{1, 2} -> SUBSET setupIdx] /\ playing' \subseteq {1, 2}
  <2>1. r.method = "SETUP" => r.track \in setupIdx
    BY <1>2 DEF RtspInv, LinkInv, RequestItems
  <2>2. setUp' \in {setUp, [setUp EXCEPT ![at] = @ \union {r.track}]}
        /\ (setUp' # setUp => r.method = "SETUP")
        /\ playing' \in {playing, playing \union {at}}
    BY DEF ServerAnswers
  <2>3. setUp \in [{1, 2} -> SUBSET setupIdx] /\ playing \subseteq {1, 2}
    BY DEF RtspInv, LinkInv, TypeOK
  <2> QED BY <1>3, <2>1, <2>2, <2>3
<1>10. LinkInv'
  <2>1. requests' \in Seq(RequestItems)
    BY <1>1, <1>8, TailElements
  <2>2. \A i \in DOMAIN requests' : requests'[i].method = "SETUP" => requests'[i].track # 0
    BY <1>1, <1>8, TailElements DEF RtspInv, LinkInv
  <2> QED BY <1>7, <1>8, <1>9, <2>1, <2>2 DEF RtspInv, LinkInv, RequestItems, BlockItems
<1>11. TurnInv'
  <2>1. pc # "idle"
    BY <1>1 DEF RtspInv, TurnInv
  <2>2. CASE pc = "read"
    <3>1. Len(requests) = 1 /\ requests[1].cseq = cseq /\ OnlyBlocks(wire)
      BY <1>1, <2>2 DEF RtspInv, TurnInv
    <3>2. requests' = <<>>
      BY <1>1, <1>8, <3>1
    <3>3. DOMAIN wire' = 1 .. Len(wire) + 1 /\ wire'[Len(wire) + 1] = a
          /\ \A j \in DOMAIN wire : wire'[j] = wire[j]
      BY <1>1, <1>5, <1>6, AppendElements
    <3>4. OneAnswer(wire)'
      BY <1>1, <1>2, <1>6, <1>8, <3>1, <3>3 DEF OneAnswer, OnlyBlocks
    <3> QED BY <1>8, <2>2, <3>2, <3>4 DEF TurnInv
  <2> QED BY <1>8, <2>1, <2>2 DEF TurnInv
<1> QED BY <1>9, <1>10, <1>11

\* The server sends a block.
LEMMA BlockKeeps ==
  ASSUME RtspInv, NEW t \in Tracks, ServerBlock(t)
  PROVE  LinkInv' /\ TurnInv'
<1> DEFINE media == at \in playing
           b == [kind |-> "block", track |-> t, rtp |-> media]
<1>0. media \in BOOLEAN /\ wire' = Append(wire, b)
  BY DEF ServerBlock
<1> HIDE DEF media
<1>1. wire' = Append(wire, b) /\ wire \in Seq(AnswerItems \union BlockItems)
      /\ UNCHANGED <<pc, cseq, answers, server, setUp, setupIdx, requests>>
  BY <1>0 DEF ServerBlock, RtspInv, LinkInv, plan, camera
<1>2. b \in BlockItems /\ b.kind = "block"
  <2>1. at \in {1, 2} /\ setUp \in [{1, 2} -> SUBSET setupIdx] /\ t \in setUp[at]
    BY DEF RtspInv, LinkInv, TypeOK, ServerBlock
  <2> QED BY <1>0, <2>1 DEF BlockItems
<1>3. /\ wire' \in Seq(AnswerItems \union BlockItems)
      /\ DOMAIN wire' = 1 .. Len(wire) + 1 /\ wire'[Len(wire) + 1] = b
      /\ \A j \in DOMAIN wire : wire'[j] = wire[j]
      /\ DOMAIN wire = 1 .. Len(wire)
  BY <1>1, <1>2, AppendElements
<1>4. LinkInv'
  BY <1>1, <1>3 DEF RtspInv, LinkInv, RequestItems, BlockItems
<1>5. OnlyBlocks(wire) => OnlyBlocks(wire')
  BY <1>2, <1>3 DEF OnlyBlocks
<1>6. OneAnswer(wire) => OneAnswer(wire)'
  BY <1>1, <1>2, <1>3 DEF OneAnswer
<1>7. TurnInv'
  BY <1>1, <1>5, <1>6 DEF RtspInv, TurnInv, OnlyBlocks
<1> QED BY <1>4, <1>7

\* ReadResponse drops a block.
LEMMA SkipKeeps ==
  ASSUME RtspInv, SkipBlock
  PROVE  LinkInv' /\ TurnInv'
<1>1. wire \in Seq(AnswerItems \union BlockItems) /\ wire # <<>>
      /\ wire' = Tail(wire) /\ pc = "read" /\ wire[1].kind = "block"
      /\ UNCHANGED <<pc, cseq, answers, server, setUp, setupIdx, requests>>
  BY DEF SkipBlock, NextIs, RtspInv, LinkInv, plan, camera
<1>2. /\ wire' \in Seq(AnswerItems \union BlockItems)
      /\ DOMAIN wire' = 1 .. Len(wire) - 1 /\ DOMAIN wire = 1 .. Len(wire)
      /\ \A i \in DOMAIN wire' : wire'[i] = wire[i + 1]
  BY <1>1, TailElements
<1>3. LinkInv'
  BY <1>1, <1>2 DEF RtspInv, LinkInv, RequestItems, BlockItems
<1>4. OnlyBlocks(wire) => OnlyBlocks(wire')
  BY <1>1, <1>2 DEF OnlyBlocks
<1>5. OneAnswer(wire) => OneAnswer(wire)'
  <2> SUFFICES ASSUME OneAnswer(wire) PROVE OneAnswer(wire)'
    OBVIOUS
  <2>1. PICK i \in DOMAIN wire :
           /\ wire[i].kind = "answer" /\ wire[i].to = cseq
           /\ \A j \in DOMAIN wire : j # i => wire[j].kind = "block"
    BY DEF OneAnswer
  <2>2. i # 1 /\ i \in 1 .. Len(wire) /\ Len(wire) \in Nat
    BY <1>1, <1>2, <2>1
  <2>3. i - 1 \in DOMAIN wire' /\ wire'[i - 1] = wire[i]
    BY <1>2, <2>2
  <2>4. \A j \in DOMAIN wire' : j # i - 1 => wire'[j].kind = "block"
    BY <1>2, <2>1, <2>2
  <2> QED BY <1>1, <2>1, <2>3, <2>4 DEF OneAnswer
<1>6. TurnInv'
  BY <1>1, <1>4, <1>5 DEF RtspInv, TurnInv, OnlyBlocks
<1> QED BY <1>3, <1>6

-----------------------------------------------------------------------------
(* The theorems.                                                           *)

LEMMA InitHolds == Init => RtspInv
<1> SUFFICES ASSUME Init PROVE RtspInv
  OBVIOUS
<1>1. TypeOK /\ StageInv
  BY TrackAssumption DEF Init, TypeOK, StageInv, Stages
<1>2. LinkInv
  BY EmptySequence DEF Init, LinkInv
<1>3. TurnInv
  BY DEF Init, TurnInv, OnlyBlocks
<1> QED BY <1>1, <1>2, <1>3 DEF RtspInv

\* The steps that write a request.
LEMMA WriteSteps ==
  ASSUME RtspInv, Options \/ Describe \/ Setup \/ Play \/ SendRtpKeepalive
  PROVE  RtspInv'
<1>1. CASE Options
  <2>1. LinkInv' /\ TurnInv'
    BY <1>1, WriteKeeps DEF Options, Starts, Methods
  <2>2. TypeOK' /\ StageInv'
    BY <1>1 DEF Options, Starts, WriteRequest, credentials, camera, RtspInv, TypeOK, StageInv
  <2> QED BY <2>1, <2>2 DEF RtspInv
<1>2. CASE Describe
  <2>1. LinkInv' /\ TurnInv'
    BY <1>2, WriteKeeps DEF Describe, Starts, Methods
  <2>2. TypeOK' /\ StageInv'
    BY <1>2 DEF Describe, Starts, WriteRequest, credentials, camera, RtspInv, TypeOK, StageInv
  <2> QED BY <2>1, <2>2 DEF RtspInv
<1>3. CASE Setup
  <2>1. setupNext \in setupIdx /\ setupNext # 0
    BY <1>3 DEF Setup, RtspInv, TypeOK, Tracks
  <2>2. LinkInv' /\ TurnInv'
    BY <1>3, <2>1, WriteKeeps DEF Setup, Starts, Methods
  <2>3. TypeOK' /\ StageInv'
    BY <1>3, <2>1 DEF Setup, Starts, WriteRequest, credentials, camera, RtspInv, TypeOK, StageInv
  <2> QED BY <2>2, <2>3 DEF RtspInv
<1>4. CASE Play
  <2>1. LinkInv' /\ TurnInv'
    BY <1>4, WriteKeeps DEF Play, Starts, Methods
  <2>2. TypeOK' /\ StageInv'
    BY <1>4 DEF Play, Starts, WriteRequest, credentials, camera, RtspInv, TypeOK, StageInv, Stages
  <2> QED BY <2>1, <2>2 DEF RtspInv
<1>5. CASE SendRtpKeepalive
  <2>1. LinkInv' /\ TurnInv'
    BY <1>5, WriteKeeps DEF SendRtpKeepalive, Methods
  <2>2. TypeOK' /\ StageInv'
    BY <1>5 DEF SendRtpKeepalive, WriteRequest, credentials, camera, RtspInv, TypeOK, StageInv
  <2> QED BY <2>1, <2>2 DEF RtspInv
<1> QED BY <1>1, <1>2, <1>3, <1>4, <1>5

\* The steps of prepare that read an answer.
LEMMA ReadSteps ==
  ASSUME RtspInv,
         OptionsAnswered \/ DescribeRetried \/ Described \/ DescribeFailed \/ SetupAnswered
  PROVE  RtspInv'
<1>1. CASE OptionsAnswered
  <2>1. /\ LinkInv' /\ TurnInv' /\ {session', auth'} \subseteq 0 .. 2
        /\ at' \in {1, 2} /\ playing' \subseteq {1, 2}
    BY <1>1, ReadsKeep DEF OptionsAnswered, plan
  <2>2. TypeOK' /\ StageInv'
    BY <1>1, <2>1 DEF OptionsAnswered, Reads, plan, RtspInv, TypeOK, StageInv, Stages
  <2> QED BY <2>1, <2>2 DEF RtspInv
<1>2. CASE DescribeRetried
  <2>1. /\ LinkInv' /\ TurnInv' /\ {session', auth'} \subseteq 0 .. 2
        /\ at' \in {1, 2} /\ playing' \subseteq {1, 2}
    BY <1>2, ReadsKeep DEF DescribeRetried, plan
  <2>2. TypeOK' /\ StageInv'
    BY <1>2, <2>1 DEF DescribeRetried, DescribeAgain, Reads, plan, RtspInv, TypeOK, StageInv
  <2> QED BY <2>1, <2>2 DEF RtspInv
<1>3. CASE Described
  <2>1. setupIdx = {} /\ setupNext = 1
    BY <1>3 DEF Described, Reads, RtspInv, StageInv
  <2>2. /\ LinkInv' /\ TurnInv' /\ {session', auth'} \subseteq 0 .. 2
        /\ at' \in {1, 2} /\ playing' \subseteq {1, 2}
    BY <1>3, <2>1, ReadsKeep DEF Described
  <2>3. setupIdx' \subseteq Tracks /\ ready' \subseteq setupIdx'
    BY <1>3 DEF Described
  <2>4. TypeOK' /\ StageInv'
    BY <1>3, <2>1, <2>2, <2>3, TrackAssumption
       DEF Described, Reads, RtspInv, TypeOK, StageInv, Stages
  <2> QED BY <2>2, <2>4 DEF RtspInv
<1>4. CASE DescribeFailed
  <2>1. /\ LinkInv' /\ TurnInv' /\ {session', auth'} \subseteq 0 .. 2
        /\ at' \in {1, 2} /\ playing' \subseteq {1, 2}
    BY <1>4, ReadsKeep DEF DescribeFailed, plan
  <2>2. TypeOK' /\ StageInv'
    BY <1>4, <2>1 DEF DescribeFailed, Reads, plan, RtspInv, TypeOK, StageInv
  <2> QED BY <2>1, <2>2 DEF RtspInv
<1>5. CASE SetupAnswered
  <2>1. setupNext \in setupIdx /\ setupNext \in 1 .. NumTracks
    BY <1>5 DEF SetupAnswered, Reads, RtspInv, TypeOK, StageInv, Tracks
  <2>2. /\ LinkInv' /\ TurnInv' /\ {session', auth'} \subseteq 0 .. 2
        /\ at' \in {1, 2} /\ playing' \subseteq {1, 2}
    BY <1>5, ReadsKeep DEF SetupAnswered
  <2>3. setupNext' \in 1 .. NumTracks + 1
    BY <1>5, <2>1, TrackAssumption DEF SetupAnswered
  <2>4. TypeOK' /\ StageInv'
    BY <1>5, <2>2, <2>3 DEF SetupAnswered, Reads, RtspInv, TypeOK, StageInv
  <2> QED BY <2>2, <2>4 DEF RtspInv
<1> QED BY <1>1, <1>2, <1>3, <1>4, <1>5

\* The steps of the packet reader, and those that end the client.
LEMMA PacketSteps ==
  ASSUME RtspInv, AnswerBetweenBlocks \/ ReadPacket \/ ResponseFails \/ ConnectionLost
  PROVE  RtspInv'
<1>1. CASE AnswerBetweenBlocks
  <2>1. /\ session' \in 0 .. 2 /\ auth' \in 0 .. 2 /\ at' \in {1, 2}
        /\ answers' \in Seq(Notes)
        /\ requests' \in {requests, <<>>}
        /\ wire' \in Seq(AnswerItems \union BlockItems)
        /\ UNCHANGED <<cseq, camera, keepalives>>
    BY <1>1, ResponseKeeps DEF AnswerBetweenBlocks
  <2>2. LinkInv'
    BY <1>1, <2>1, LinkAfterResponse DEF AnswerBetweenBlocks, plan
  <2>3. TypeOK' /\ StageInv' /\ TurnInv'
    BY <1>1, <2>1 DEF AnswerBetweenBlocks, plan, camera, RtspInv, TypeOK, StageInv, TurnInv
  <2> QED BY <2>2, <2>3 DEF RtspInv
<1>2. CASE ReadPacket
  <2>1. wire \in Seq(AnswerItems \union BlockItems) /\ wire # <<>>
    BY <1>2 DEF ReadPacket, NextIs, RtspInv, LinkInv
  <2>2. Tail(wire) \in Seq(AnswerItems \union BlockItems) /\ Res \in BlockItems
    BY <1>2, <2>1, TailElements DEF ReadPacket, NextIs, Res, AnswerItems, BlockItems
  <2>3. LinkInv' /\ TurnInv'
    BY <1>2, <2>2, QuietKeeps DEF ReadPacket
  <2>4. ready' \subseteq setupIdx
    BY <1>2, <2>2 DEF ReadPacket, BlockItems, RtspInv, TypeOK
  <2>5. TypeOK' /\ StageInv'
    BY <1>2, <2>4 DEF ReadPacket, credentials, camera, RtspInv, TypeOK, StageInv, Stages
  <2> QED BY <2>3, <2>5 DEF RtspInv
<1>3. CASE ResponseFails
  <2>1. /\ session' \in 0 .. 2 /\ answers' \in Seq(Notes)
        /\ Tail(wire) \in Seq(AnswerItems \union BlockItems)
    BY <1>3, NotedKeeps DEF ResponseFails
  <2>2. cseq' = cseq /\ UNCHANGED camera /\ setupIdx' = setupIdx /\ requests' = requests
        /\ wire' = Tail(wire)
    BY <1>3 DEF ResponseFails, Noted, plan
  <2>3. LinkInv'
    BY <2>1, <2>2, LinkAfterResponse
  <2>4. TypeOK' /\ StageInv' /\ TurnInv'
    BY <1>3, <2>1, <2>2 DEF ResponseFails, plan, camera, RtspInv, TypeOK, StageInv, TurnInv
  <2> QED BY <2>3, <2>4 DEF RtspInv
<1>4. CASE ConnectionLost
  <2>1. LinkInv' /\ TurnInv'
    BY <1>4, QuietKeeps DEF ConnectionLost, plan, link, RtspInv, LinkInv
  <2>2. TypeOK' /\ StageInv'
    BY <1>4 DEF ConnectionLost, plan, link, credentials, camera, RtspInv, TypeOK, StageInv
  <2> QED BY <2>1, <2>2 DEF RtspInv
<1> QED BY <1>1, <1>2, <1>3, <1>4

\* The steps of the server, and those that only move on.
LEMMA OtherSteps ==
  ASSUME RtspInv,
         ServerAnswers \/ (\E t \in Tracks : ServerBlock(t)) \/ SkipBlock \/ SetupDone
  PROVE  RtspInv'
<1>1. CASE ServerAnswers
  <2>1. LinkInv' /\ TurnInv' /\ playing' \subseteq {1, 2}
    BY <1>1, AnswerKeeps
  <2>2. TypeOK' /\ StageInv'
    BY <1>1, <2>1 DEF ServerAnswers, plan, credentials, RtspInv, TypeOK, StageInv
  <2> QED BY <2>1, <2>2 DEF RtspInv
<1>2. CASE \E t \in Tracks : ServerBlock(t)
  <2>1. PICK t \in Tracks : ServerBlock(t)
    BY <1>2
  <2>2. LinkInv' /\ TurnInv'
    BY <2>1, BlockKeeps
  <2>3. TypeOK' /\ StageInv'
    BY <2>1 DEF ServerBlock, plan, credentials, camera, RtspInv, TypeOK, StageInv
  <2> QED BY <2>2, <2>3 DEF RtspInv
<1>3. CASE SkipBlock
  <2>1. LinkInv' /\ TurnInv'
    BY <1>3, SkipKeeps
  <2>2. TypeOK' /\ StageInv'
    BY <1>3 DEF SkipBlock, plan, credentials, camera, RtspInv, TypeOK, StageInv
  <2> QED BY <2>1, <2>2 DEF RtspInv
<1>4. CASE SetupDone
  <2>1. UNCHANGED <<pc, plan, cseq, credentials, camera, link, answers>>
        /\ pc = "idle" /\ stage' = "setupDone"
    BY <1>4 DEF SetupDone, Starts
  <2>2. LinkInv' /\ TurnInv'
    BY <2>1 DEF plan, camera, link, RtspInv, LinkInv, TurnInv, RequestItems, BlockItems,
                OnlyBlocks, OneAnswer
  <2>3. TypeOK' /\ StageInv'
    BY <2>1 DEF plan, camera, link, credentials, RtspInv, TypeOK, StageInv, Stages
  <2> QED BY <2>2, <2>3 DEF RtspInv
<1> QED BY <1>1, <1>2, <1>3, <1>4

LEMMA StutterHolds == ASSUME RtspInv, UNCHANGED vars PROVE RtspInv'
BY DEF vars, plan, credentials, camera, link, RtspInv, TypeOK, LinkInv, StageInv, TurnInv,
       RequestItems, BlockItems, OnlyBlocks, OneAnswer

\* The types, how far prepare has come, and whose turn it is, for any servers,
\* tracks and bounds.
THEOREM RtspInvariant == Spec => []RtspInv
<1>1. ASSUME RtspInv, [Next]_vars PROVE RtspInv'
  <2>1. CASE Next
    BY <1>1, <2>1, WriteSteps, ReadSteps, PacketSteps, OtherSteps DEF Next, Client
  <2>2. CASE UNCHANGED vars
    BY <1>1, <2>2, StutterHolds
  <2> QED BY <1>1, <2>1, <2>2
<1> QED BY <1>1, InitHolds, PTL DEF Spec

\* The client's state keeps its types; DESCRIBE is sent twice at most.
THEOREM TypeCorrect == Spec => []TypeOK
<1>1. RtspInv => TypeOK
  BY DEF RtspInv
<1> QED BY <1>1, RtspInvariant, PTL

\* An answer that ReadResponse returns is that to the request just written,
\* although nothing compares their sequence numbers.
THEOREM AnswersMatch == Spec => []AnswerIsForRequest
<1>1. RtspInv => AnswerIsForRequest
  <2> SUFFICES ASSUME RtspInv, NEW a \in Range(answers), a.reader = "read"
               PROVE  a.to = a.want
    BY DEF AnswerIsForRequest
  <2>1. answers \in Seq(Notes) /\ \E i \in DOMAIN answers : a = answers[i]
    BY DEF RtspInv, LinkInv, Range
  <2>2. a \in Notes
    BY <2>1
  <2> QED BY <2>2 DEF Notes
<1> QED BY <1>1, RtspInvariant, PTL

-----------------------------------------------------------------------------
(* What the tracks, and the PLAY, have come to.                            *)

\* The client has read the answer it should have heeded.
Broken == \E i \in DOMAIN answers : Refused(answers[i])

IsAnswer(i) == wire[i].kind = "answer"

\* While all is well, the tracks before setupNext are set up at the server; the
\* answer that ReadResponse waits for in SETUP tells of the next one.
SetupInv ==
  /\ setupIdx \in {{}, Tracks}
  /\ \A t \in setupIdx : t < setupNext => t \in setUp[at]
  /\ pc = "read" /\ stage = "describeDone" =>
       /\ \A i \in DOMAIN requests :
            requests[i].method = "SETUP" /\ requests[i].track = setupNext
       /\ \A i \in DOMAIN wire : IsAnswer(i) =>
            /\ wire[i].method = "SETUP"
            /\ wire[i].status = 200 => setupNext \in setUp[at]
  /\ stage \in Stages \ {"start", "optionsDone", "describeDone"} => setupNext \notin setupIdx

\* The PLAY is on its way, refused with an answer that is, or granted.
PlayInv ==
  pc = "packets" =>
    /\ stage \in {"waitCodecData", "codecDataDone"}
    /\ \/ at \in playing
       \/ \E i \in DOMAIN requests : requests[i].method = "PLAY"
       \/ \E i \in DOMAIN wire : IsAnswer(i) /\ wire[i].status # 200

StreamInv == Broken \/ (SetupInv /\ PlayInv)

\* A note that says the client should have stopped stays.
LEMMA BrokenStays ==
  ASSUME RtspInv, Broken, UNCHANGED answers \/ Noted
  PROVE  Broken'
<1>1. PICK i \in DOMAIN answers : Refused(answers[i])
  BY DEF Broken
<1>2. answers \in Seq(Notes)
  BY DEF RtspInv, LinkInv
<1>3. CASE UNCHANGED answers
  BY <1>3 DEF Broken
<1>4. CASE Noted
  <2>1. PICK n : answers' = Append(answers, n)
    BY <1>4 DEF Noted
  <2>2. i \in DOMAIN answers' /\ answers'[i] = answers[i]
    BY <1>2, <2>1
  <2> QED BY <1>1, <2>2 DEF Broken, Refused
<1> QED BY <1>3, <1>4

\* An answer that is no 200, to SETUP, PLAY or in between blocks, is noted.
LEMMA RefusalBreaks ==
  ASSUME RtspInv, Noted, Res.status # 200,
         Res.method \in {"SETUP", "PLAY"} \/ pc = "packets"
  PROVE  Broken'
<1> DEFINE n == [want |-> cseq, to |-> Res.to, method |-> Res.method,
                 status |-> Res.status, reader |-> pc]
<1>1. answers \in Seq(Notes) /\ answers' = Append(answers, n)
  BY DEF RtspInv, LinkInv, Noted
<1>2. Refused(n)
  BY DEF Refused
<1> HIDE DEF n
<1>3. Len(answers) + 1 \in DOMAIN answers' /\ answers'[Len(answers) + 1] = n
  BY <1>1
<1> QED BY <1>2, <1>3 DEF Broken

\* An answer at the head of the wire.
LEMMA HeadAnswer ==
  ASSUME RtspInv, NextIs("answer")
  PROVE  /\ wire \in Seq(AnswerItems \union BlockItems) /\ wire # <<>>
         /\ 1 \in DOMAIN wire /\ Res = wire[1] /\ IsAnswer(1)
<1>1. wire \in Seq(AnswerItems \union BlockItems) /\ wire # <<>>
  BY DEF RtspInv, LinkInv, NextIs
<1> QED BY <1>1, TailElements DEF NextIs, Res, IsAnswer

\* handleResp of a 200 only takes it off the wire.
LEMMA GrantedResponse ==
  ASSUME handleResp, Res.status = 200
  PROVE  UNCHANGED <<at, requests>> /\ wire' = Tail(wire)
BY DEF handleResp

\* What the wire still holds when its first item is taken off.
LEMMA RestOfWire ==
  ASSUME RtspInv, wire # <<>>, wire' = Tail(wire)
  PROVE  /\ \A i \in DOMAIN wire' : i + 1 \in DOMAIN wire /\ wire'[i] = wire[i + 1]
         /\ \A i \in DOMAIN wire : i # 1 => i - 1 \in DOMAIN wire' /\ wire'[i - 1] = wire[i]
<1>1. wire \in Seq(AnswerItems \union BlockItems)
  BY DEF RtspInv, LinkInv
<1> QED BY <1>1, TailElements

-----------------------------------------------------------------------------
LEMMA WritesStream ==
  ASSUME RtspInv, SetupInv, PlayInv,
         Options \/ Describe \/ Setup \/ Play \/ SendRtpKeepalive
  PROVE  SetupInv' /\ PlayInv'
<1>1. requests \in Seq(RequestItems) /\ wire \in Seq(AnswerItems \union BlockItems)
  BY DEF RtspInv, LinkInv
<1>2. PICK method, t : WriteRequest(method, t)
  BY DEF Options, Describe, Setup, Play, SendRtpKeepalive
<1>3. UNCHANGED <<setupIdx, setupNext, setUp, playing, at, wire, answers>>
  BY <1>2 DEF WriteRequest, camera
<1>4. CASE Options \/ Describe
  <2>1. stage' = stage /\ stage \in {"start", "optionsDone"} /\ pc' = "read"
    BY <1>4 DEF Options, Describe, Starts
  <2> QED BY <1>3, <2>1 DEF SetupInv, PlayInv
<1>5. CASE Setup
  <2>1. /\ pc = "idle" /\ pc' = "read" /\ stage' = stage /\ stage = "describeDone"
        /\ WriteRequest("SETUP", setupNext)
    BY <1>5 DEF Setup, Starts
  <2>2. requests = <<>> /\ OnlyBlocks(wire)
    BY <2>1 DEF RtspInv, TurnInv
  <2> DEFINE r == [cseq |-> cseq + 1, method |-> "SETUP", track |-> setupNext,
                   auth |-> auth, session |-> session]
  <2>3. requests' = Append(requests, r) /\ r.method = "SETUP" /\ r.track = setupNext
    BY <2>1 DEF WriteRequest
  <2> HIDE DEF r
  <2>4. DOMAIN requests' = {1} /\ requests'[1] = r
    BY <2>2, <2>3
  <2>5. \A i \in DOMAIN wire' : ~IsAnswer(i)'
    BY <1>3, <2>2 DEF OnlyBlocks, IsAnswer
  <2> QED BY <1>3, <2>1, <2>3, <2>4, <2>5 DEF SetupInv, PlayInv
<1>6. CASE Play
  <2>1. /\ stage = "setupDone" /\ stage' \in {"codecDataDone", "waitCodecData"}
        /\ pc' = "packets" /\ WriteRequest("PLAY", 0)
    BY <1>6 DEF Play, Starts
  <2> DEFINE r == [cseq |-> cseq + 1, method |-> "PLAY", track |-> 0,
                   auth |-> auth, session |-> session]
  <2>2. requests' = Append(requests, r) /\ r.method = "PLAY"
    BY <2>1 DEF WriteRequest
  <2> HIDE DEF r
  <2>3. Len(requests) + 1 \in DOMAIN requests' /\ requests'[Len(requests) + 1] = r
    BY <1>1, <2>2
  <2> QED BY <1>3, <2>1, <2>2, <2>3 DEF SetupInv, PlayInv, Stages
<1>7. CASE SendRtpKeepalive
  <2>1. pc' = pc /\ pc = "packets" /\ stage' = stage
    BY <1>7 DEF SendRtpKeepalive
  <2>2. \A i \in DOMAIN requests : i \in DOMAIN requests' /\ requests'[i] = requests[i]
    <3>1. PICK q : requests' = Append(requests, q)
      BY <1>2 DEF WriteRequest
    <3> QED BY <1>1, <3>1
  <2> QED BY <1>3, <2>1, <2>2 DEF SetupInv, PlayInv, IsAnswer
<1> QED BY <1>4, <1>5, <1>6, <1>7

LEMMA ReadsStream ==
  ASSUME RtspInv, SetupInv, PlayInv,
         OptionsAnswered \/ DescribeRetried \/ Described \/ DescribeFailed \/ SetupAnswered
  PROVE  Broken' \/ (SetupInv' /\ PlayInv')
<1>1. NextIs("answer") /\ handleResp /\ pc = "read" /\ pc' \in {"idle", "failed"}
  BY DEF OptionsAnswered, DescribeRetried, Described, DescribeFailed, SetupAnswered, Reads
<1>2. PlayInv'
  BY <1>1 DEF PlayInv
<1>3. CASE OptionsAnswered \/ DescribeRetried \/ DescribeFailed
  <2>1. /\ stage \in {"start", "optionsDone"} /\ stage' = "optionsDone"
        /\ UNCHANGED <<setupIdx, setupNext>>
    BY <1>3 DEF OptionsAnswered, DescribeRetried, DescribeFailed, Reads, plan
  <2>2. setupIdx = {}
    BY <2>1 DEF RtspInv, StageInv
  <2> QED BY <1>1, <1>2, <2>1, <2>2 DEF SetupInv
<1>4. CASE Described
  <2>1. stage = "optionsDone" /\ stage' = "describeDone" /\ setupNext' = setupNext
        /\ setupIdx' \in {{}, Tracks}
    BY <1>4 DEF Described, Reads
  <2>2. setupNext = 1
    BY <2>1 DEF RtspInv, StageInv
  <2>3. \A t \in setupIdx' : ~(t < setupNext')
    BY <2>1, <2>2, TrackAssumption DEF Tracks
  <2> QED BY <1>1, <1>2, <2>1, <2>3 DEF SetupInv
<1>5. CASE SetupAnswered
  <2>1. /\ stage = "describeDone" /\ stage' = stage /\ setupNext' = setupNext + 1
        /\ setupIdx' = setupIdx /\ Noted
    BY <1>5 DEF SetupAnswered, Reads, handleResp
  <2>2. /\ Res.method = "SETUP"
        /\ Res.status = 200 => setupNext \in setUp[at]
    BY <1>1, <2>1, HeadAnswer DEF SetupInv
  <2>3. CASE Res.status = 200
    <3>1. at' = at /\ setUp' = setUp
      BY <1>1, <2>1, <2>3, GrantedResponse DEF Noted, camera
    <3>2. setupNext \in Nat /\ \A t \in setupIdx : t \in Nat
      BY TrackAssumption DEF RtspInv, TypeOK, Tracks
    <3>3. \A t \in setupIdx : t < setupNext + 1 => t < setupNext \/ t = setupNext
      BY <3>2
    <3> QED BY <1>1, <1>2, <2>1, <2>2, <2>3, <3>1, <3>3 DEF SetupInv
  <2>4. CASE Res.status # 200
    BY <2>1, <2>2, <2>4, RefusalBreaks
  <2> QED BY <2>3, <2>4
<1> QED BY <1>3, <1>4, <1>5

LEMMA PacketsStream ==
  ASSUME RtspInv, SetupInv, PlayInv,
         AnswerBetweenBlocks \/ ReadPacket \/ ResponseFails \/ ConnectionLost
  PROVE  Broken' \/ (SetupInv' /\ PlayInv')
<1>1. CASE AnswerBetweenBlocks
  <2>1. /\ pc = "packets" /\ NextIs("answer") /\ handleResp /\ Noted
        /\ UNCHANGED <<stage, pc, setupIdx, setupNext, setUp, playing>>
    BY <1>1 DEF AnswerBetweenBlocks, handleResp, Noted, plan, camera
  <2>2. CASE Res.status # 200
    BY <2>1, <2>2, RefusalBreaks
  <2>3. CASE Res.status = 200
    <3>1. UNCHANGED <<at, requests>> /\ wire' = Tail(wire)
      BY <2>1, <2>3, GrantedResponse
    <3>2. SetupInv'
      BY <2>1, <3>1 DEF SetupInv
    <3>3. ASSUME NEW i \in DOMAIN wire, IsAnswer(i), wire[i].status # 200
          PROVE  \E j \in DOMAIN wire' : IsAnswer(j)' /\ wire'[j].status # 200
      <4>1. i # 1
        BY <2>1, <2>3, <3>3, HeadAnswer
      <4>2. i - 1 \in DOMAIN wire' /\ wire'[i - 1] = wire[i]
        BY <2>1, <3>1, <4>1, RestOfWire DEF NextIs
      <4> QED BY <3>3, <4>2 DEF IsAnswer
    <3>4. PlayInv'
      BY <2>1, <3>1, <3>3 DEF PlayInv
    <3> QED BY <3>2, <3>4
  <2> QED BY <2>2, <2>3
<1>2. CASE ReadPacket
  <2>1. /\ pc = "packets" /\ NextIs("block") /\ wire' = Tail(wire)
        /\ stage' \in {"codecDataDone", stage}
        /\ UNCHANGED <<pc, setupIdx, setupNext, setUp, playing, at, requests>>
    BY <1>2 DEF ReadPacket, camera
  <2>2. SetupInv'
    BY <2>1 DEF SetupInv, PlayInv, Stages
  <2>3. ASSUME NEW i \in DOMAIN wire, IsAnswer(i), wire[i].status # 200
        PROVE  \E j \in DOMAIN wire' : IsAnswer(j)' /\ wire'[j].status # 200
    <3>1. wire[1].kind = "block"
      BY <2>1, TailElements DEF NextIs, RtspInv, LinkInv
    <3>2. i # 1
      BY <2>3, <3>1 DEF IsAnswer
    <3>3. i - 1 \in DOMAIN wire' /\ wire'[i - 1] = wire[i]
      BY <2>1, <3>2, RestOfWire DEF NextIs
    <3> QED BY <2>3, <3>3 DEF IsAnswer
  <2>4. PlayInv'
    BY <2>1, <2>3 DEF PlayInv
  <2> QED BY <2>2, <2>4
<1>3. CASE ResponseFails \/ ConnectionLost
  <2>1. /\ pc' \in {"failed", "lost"}
        /\ UNCHANGED <<stage, setupIdx, setupNext, setUp, at>>
    BY <1>3 DEF ResponseFails, ConnectionLost, Noted, plan, camera, link
  <2> QED BY <2>1 DEF SetupInv, PlayInv
<1> QED BY <1>1, <1>2, <1>3

\* The server's answer to a SETUP or a PLAY does what it says.
LEMMA AnswersStream ==
  ASSUME RtspInv, SetupInv, PlayInv, ServerAnswers
  PROVE  SetupInv' /\ PlayInv'
<1> DEFINE r == Head(requests)
<1>1. /\ requests \in Seq(RequestItems) /\ requests # <<>>
      /\ wire \in Seq(AnswerItems \union BlockItems)
      /\ at \in {1, 2} /\ setUp \in [{1, 2} -> SUBSET setupIdx]
  BY DEF RtspInv, LinkInv, TypeOK, ServerAnswers
<1>2. /\ r = requests[1] /\ 1 \in DOMAIN requests /\ requests' = Tail(requests)
      /\ \A i \in DOMAIN requests : i # 1 => i - 1 \in DOMAIN requests'
                                             /\ requests'[i - 1] = requests[i]
      /\ \A i \in DOMAIN requests' : i + 1 \in DOMAIN requests
                                     /\ requests'[i] = requests[i + 1]
  BY <1>1, TailElements DEF ServerAnswers
<1>3. UNCHANGED <<stage, pc, setupIdx, setupNext, at>>
  BY DEF ServerAnswers, plan
<1>4. PICK status, sess, body :
        /\ wire' = Append(wire, Answer(r, status, sess, body))
        /\ \/ status # 200 /\ UNCHANGED <<setUp, playing>>
           \/ /\ status = 200
              /\ setUp' = IF r.method = "SETUP"
                            THEN [setUp EXCEPT ![at] = @ \union {r.track}] ELSE setUp
              /\ playing' = IF r.method = "PLAY" THEN playing \union {at} ELSE playing
  BY DEF ServerAnswers
<1> DEFINE a == Answer(r, status, sess, body)
<1>5. a.kind = "answer" /\ a.method = r.method /\ a.status = status
  BY DEF Answer
<1> HIDE DEF a, r
<1>6. /\ DOMAIN wire' = 1 .. Len(wire) + 1 /\ wire'[Len(wire) + 1] = a
      /\ DOMAIN wire = 1 .. Len(wire) /\ Len(wire) \in Nat
      /\ \A i \in DOMAIN wire : wire'[i] = wire[i]
  BY <1>1, <1>4 DEF a
<1>7. setUp[at] \subseteq setUp'[at] /\ playing \subseteq playing'
      /\ (status = 200 /\ r.method = "SETUP" => r.track \in setUp'[at])
      /\ (status = 200 /\ r.method = "PLAY" => at \in playing')
  BY <1>1, <1>4
<1>8. SetupInv'
  <2>1. ASSUME pc = "read", stage = "describeDone"
        PROVE  /\ \A i \in DOMAIN requests' :
                    requests'[i].method = "SETUP" /\ requests'[i].track = setupNext
               /\ \A i \in DOMAIN wire' : IsAnswer(i)' =>
                    /\ wire'[i].method = "SETUP"
                    /\ wire'[i].status = 200 => setupNext \in setUp'[at]
    <3>1. r.method = "SETUP" /\ r.track = setupNext
      BY <1>2, <2>1 DEF SetupInv
    <3>2. ASSUME NEW i \in DOMAIN wire', IsAnswer(i)'
          PROVE  /\ wire'[i].method = "SETUP"
                 /\ wire'[i].status = 200 => setupNext \in setUp'[at]
      <4>1. CASE i = Len(wire) + 1
        BY <1>5, <1>6, <1>7, <3>1, <4>1
      <4>2. CASE i \in DOMAIN wire
        BY <1>6, <1>7, <2>1, <3>2, <4>2 DEF SetupInv, IsAnswer
      <4> QED BY <1>6, <4>1, <4>2
    <3> QED BY <1>2, <2>1, <3>2 DEF SetupInv
  <2> QED BY <1>3, <1>7, <2>1 DEF SetupInv
<1>9. PlayInv'
  <2> SUFFICES ASSUME pc = "packets"
               PROVE  \/ at \in playing'
                      \/ \E i \in DOMAIN requests' : requests'[i].method = "PLAY"
                      \/ \E i \in DOMAIN wire' : IsAnswer(i)' /\ wire'[i].status # 200
    BY <1>3 DEF PlayInv
  <2>1. CASE at \in playing
    BY <1>7, <2>1
  <2>2. CASE \E i \in DOMAIN requests : requests[i].method = "PLAY"
    <3>1. PICK i \in DOMAIN requests : requests[i].method = "PLAY"
      BY <2>2
    <3>2. CASE i # 1
      BY <1>2, <3>1, <3>2
    <3>3. CASE i = 1
      <4>1. r.method = "PLAY"
        BY <1>2, <3>1, <3>3
      <4>2. PICK n \in DOMAIN wire' : wire'[n] = a
        BY <1>6
      <4>3. IsAnswer(n)' /\ wire'[n].status = status
        BY <1>5, <4>2 DEF IsAnswer
      <4> QED BY <1>4, <1>7, <4>1, <4>3
    <3> QED BY <3>2, <3>3
  <2>3. CASE \E i \in DOMAIN wire : IsAnswer(i) /\ wire[i].status # 200
    BY <1>6, <2>3 DEF IsAnswer
  <2> QED BY <2>1, <2>2, <2>3 DEF PlayInv
<1> QED BY <1>8, <1>9

LEMMA OthersStream ==
  ASSUME RtspInv, SetupInv, PlayInv,
         (\E t \in Tracks : ServerBlock(t)) \/ SkipBlock \/ SetupDone
  PROVE  SetupInv' /\ PlayInv'
<1>0. wire \in Seq(AnswerItems \union BlockItems)
  BY DEF RtspInv, LinkInv
<1>1. CASE \E t \in Tracks : ServerBlock(t)
  <2>1. PICK t \in Tracks : ServerBlock(t)
    BY <1>1
  <2>2. UNCHANGED <<stage, pc, setupIdx, setupNext, setUp, playing, at, requests>>
    BY <2>1 DEF ServerBlock, plan, camera
  <2>3. PICK b : wire' = Append(wire, b) /\ b.kind = "block"
    BY <2>1 DEF ServerBlock
  <2>4. /\ DOMAIN wire' = 1 .. Len(wire) + 1 /\ wire'[Len(wire) + 1] = b
        /\ DOMAIN wire = 1 .. Len(wire) /\ Len(wire) \in Nat
        /\ \A i \in DOMAIN wire : wire'[i] = wire[i]
    BY <1>0, <2>3
  <2>5. \A i \in DOMAIN wire' : IsAnswer(i)' => i \in DOMAIN wire /\ IsAnswer(i)
    BY <2>3, <2>4 DEF IsAnswer
  <2>6. \A i \in DOMAIN wire : IsAnswer(i) => IsAnswer(i)'
    BY <2>4 DEF IsAnswer
  <2> QED BY <2>2, <2>4, <2>5, <2>6 DEF SetupInv, PlayInv
<1>2. CASE SkipBlock
  <2>1. /\ pc = "read" /\ NextIs("block") /\ wire' = Tail(wire)
        /\ UNCHANGED <<stage, pc, setupIdx, setupNext, setUp, playing, at, requests>>
    BY <1>2 DEF SkipBlock, plan, camera
  <2>2. \A i \in DOMAIN wire' : i + 1 \in DOMAIN wire /\ wire'[i] = wire[i + 1]
    BY <2>1, RestOfWire DEF NextIs
  <2> QED BY <2>1, <2>2 DEF SetupInv, PlayInv, IsAnswer
<1>3. CASE SetupDone
  <2>1. /\ pc = "idle" /\ pc' = pc /\ setupNext \notin setupIdx
        /\ UNCHANGED <<setupIdx, setupNext, setUp, at>>
    BY <1>3 DEF SetupDone, Starts, plan, camera, link
  <2> QED BY <2>1 DEF SetupInv, PlayInv
<1> QED BY <1>1, <1>2, <1>3

\* What the tracks and the PLAY have come to, whatever the servers do.
THEOREM StreamInvariant == Spec => []StreamInv
<1>1. Init => StreamInv
  BY DEF Init, StreamInv, SetupInv, PlayInv
<1>2. ASSUME RtspInv, StreamInv, [Next]_vars
      PROVE  StreamInv'
  <2>1. CASE Broken
    <3>1. UNCHANGED answers \/ Noted
      BY <1>2 DEF Next, Client, Options, Describe, Setup, SetupDone, Play, ResponseFails,
           SkipBlock, OptionsAnswered, DescribeRetried, Described, DescribeFailed,
           SetupAnswered, AnswerBetweenBlocks, ReadPacket, SendRtpKeepalive, ServerAnswers,
           ConnectionLost, ServerBlock, WriteRequest, Reads, handleResp, vars
    <3> QED BY <1>2, <2>1, <3>1, BrokenStays DEF StreamInv
  <2>2. CASE SetupInv /\ PlayInv
    <3>1. CASE UNCHANGED vars
      <4>1. SetupInv'
        BY <2>2, <3>1 DEF vars, plan, camera, link, SetupInv, IsAnswer
      <4>2. PlayInv'
        BY <2>2, <3>1 DEF vars, plan, camera, link, PlayInv, IsAnswer
      <4> QED BY <4>1, <4>2 DEF StreamInv
    <3>2. CASE Next
      BY <1>2, <2>2, <3>2, WritesStream, ReadsStream, PacketsStream, AnswersStream, OthersStream
         DEF Next, Client, StreamInv
    <3> QED BY <1>2, <3>1, <3>2
  <2> QED BY <1>2, <2>1, <2>2 DEF StreamInv
<1> QED BY <1>1, <1>2, RtspInvariant, PTL DEF Spec

\* Once everything is answered, the tracks are set up and the server streams,
\* or an answer that the client ignored had said otherwise.
THEOREM TracksAreStreamed == Spec => []TracksStream
<1>1. RtspInv /\ StreamInv => TracksStream
  <2> SUFFICES ASSUME RtspInv, StreamInv, pc = "packets", requests = <<>>,
                      ~(\E i \in Range(wire) : i.kind = "answer")
               PROVE  \/ at \in playing /\ setupIdx \subseteq setUp[at]
                      \/ setupIdx = {}
                      \/ \E a \in Range(answers) : Refused(a)
    BY DEF TracksStream
  <2>1. CASE Broken
    BY <2>1 DEF Broken, Range
  <2>2. CASE SetupInv /\ PlayInv
    <3>1. /\ \A i \in DOMAIN wire : ~IsAnswer(i)
          /\ DOMAIN requests = {}
      BY DEF IsAnswer, Range
    <3>2. at \in playing /\ stage \in {"waitCodecData", "codecDataDone"}
      BY <2>2, <3>1 DEF PlayInv
    <3>3. setupNext \notin setupIdx /\ setupIdx \in {{}, Tracks}
      BY <2>2, <3>2 DEF SetupInv, Stages
    <3>4. setupIdx = Tracks => \A t \in setupIdx : t < setupNext
      BY <3>3, TrackAssumption DEF RtspInv, TypeOK, Tracks
    <3> QED BY <2>2, <3>2, <3>3, <3>4 DEF SetupInv
  <2> QED BY <2>1, <2>2 DEF StreamInv
<1> QED BY <1>1, RtspInvariant, StreamInvariant, PTL
=============================================================================
