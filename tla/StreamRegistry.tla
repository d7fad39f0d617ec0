--------------------------- MODULE StreamRegistry ---------------------------
(***************************************************************************)
(* The live side of the server: the stream registry (config.go), the       *)
(* RTSP/RTMP workers that read a camera (stream.go) and the websocket and  *)
(* HTTP sessions that watch it (http.go, stream.go).                       *)
(*                                                                         *)
(* One process per API caller (/player and /remove), per session, per      *)
(* websocket reader goroutine and per worker goroutine.  A worker is named *)
(* after the session whose Run started it: a session calls Run once, and a *)
(* worker that reconnects replaces itself, so the name is unique.          *)
(*                                                                         *)
(* A step is what happens under one acquisition of Config.mutex, or one    *)
(* access without it: PushStream, RemoveStream and ext take no lock, and   *)
(* InitMuxer keeps the lock over its network writes.  An unlocked map      *)
(* write that meets another access is a data race, which the Go runtime    *)
(* may answer by stopping the process (MapRace).                           *)
(***************************************************************************)
EXTENDS Integers, FiniteSets

CONSTANTS
  Uuids,         \* identifiers PushStream can draw; bounds the pushes
  Urls,          \* camera addresses
  PushKinds,     \* kinds of stream the callers push
  WsViewers,     \* sessions of /online
  HttpViewers,   \* sessions of /online-http
  Callers,       \* callers of /player and /remove
  ChanCap,       \* capacity of a viewer's packet channel (100 in clAd)
  SocketsFail,   \* may a write to a viewer's socket fail?
  MayRemove,     \* is /remove called?
  Nobody         \* nobody holds Config.mutex; also "no url"

Viewers == WsViewers \union HttpViewers

ASSUME ChanCapAssumption == ChanCap \in Nat \ {0}
ASSUME NobodyAssumption == Nobody \notin Viewers \union Urls
ASSUME ViewersAssumption == WsViewers \intersect HttpViewers = {}
ASSUME SwitchAssumption == SocketsFail \in BOOLEAN /\ MayRemove \in BOOLEAN

Kinds == {"rtsp", "rtmp"}
ASSUME PushKindsAssumption == PushKinds \subseteq Kinds

CallerPCs == {"idle", "insert", "unlock", "decrease", "reinsert", "delete"}
ViewerPCs == {"idle", "increase", "run", "clAd", "coGe", "init", "initLocked",
              "play", "failDecrease", "clDe", "decrease", "done"}
WorkerPCs == {"none", "dial", "lockCheck", "connectGet", "read", "cast", "unlock"}
ReaderPCs == {"none", "reading", "sending", "done"}
Fates == {"up", "castPanic", "dialPanic", "indexPanic", "mapRace"}

VARIABLES
  streams,   \* keys of Config.Streams
  url,       \* Stream.URL, Nobody while the uuid has not been drawn
  kind,      \* Stream.Type
  runLock,   \* Stream.RunLock
  codecs,    \* Stream.Codecs # nil
  count,     \* Stream.CountConnect
  cl,        \* Stream.Cl: the sessions registered for packets
  mutex,     \* the session that keeps Config.mutex in InitMuxer, or Nobody
  cpc, want, target,             \* API callers
  vpc, suuid, chan, queued, header, timer,   \* sessions
  rpc,                           \* websocket reader goroutines
  wpc, wcodecs,                  \* workers
  fate       \* "up", or what stopped the process

regVars == <<streams, url, kind, runLock, codecs, count, cl>>
callerVars == <<cpc, want, target>>
viewerVars == <<vpc, suuid, chan, queued, header, timer, rpc>>
workerVars == <<wpc, wcodecs>>
vars == <<regVars, mutex, callerVars, viewerVars, workerVars, fate>>

-----------------------------------------------------------------------------
Unlocked == mutex = Nobody
Drawn(u) == url[u] # Nobody
At(v) == suuid[v]

\* RunUnlock, connectIncrease and connectDecrease, the body under the lock.
RunUnlock(u) == runLock' = [runLock EXCEPT ![u] = @ /\ u \notin streams]
connectAdd(u, n) ==
  count' = [count EXCEPT ![u] = IF u \in streams THEN @ + n ELSE @]
connectIncrease(u) == connectAdd(u, 1)
\* Mutant: the count never goes below zero.
connectDecrease_Floored(u) ==
  count' = [count EXCEPT ![u] = IF u \in streams /\ @ > 0 THEN @ - 1 ELSE @]
connectDecrease(u) == connectAdd(u, -1)
\* Mutant: the count is read without looking whether the stream exists.
connectGet_Unchecked(u) == count[u]
connectGet(u) == IF u \in streams THEN count[u] ELSE 0

GotoCaller(c, from, to) == cpc[c] = from /\ cpc' = [cpc EXCEPT ![c] = to]
GotoViewer(v, from, to) == vpc[v] = from /\ vpc' = [vpc EXCEPT ![v] = to]
GotoWorker(w, from, to) == wpc[w] = from /\ wpc' = [wpc EXCEPT ![w] = to]

Init ==
  /\ streams = {}
  /\ url = [u \in Uuids |-> Nobody]
  /\ kind = [u \in Uuids |-> "rtsp"]
  /\ runLock = [u \in Uuids |-> FALSE]
  /\ codecs = [u \in Uuids |-> FALSE]
  /\ count = [u \in Uuids |-> 0]
  /\ cl = [u \in Uuids |-> {}]
  /\ mutex = Nobody
  /\ cpc = [c \in Callers |-> "idle"]
  /\ want \in [Callers -> Urls \X {"rtsp"}]
  /\ target \in [Callers -> Uuids]
  /\ vpc = [v \in Viewers |-> "idle"]
  /\ suuid \in [Viewers -> Uuids]
  /\ chan = [v \in Viewers |-> "none"]
  /\ queued = [v \in Viewers |-> 0]
  /\ header = [v \in Viewers |-> FALSE]
  /\ timer = [v \in Viewers |-> FALSE]
  /\ rpc = [v \in Viewers |-> "none"]
  /\ wpc = [v \in Viewers |-> "none"]
  /\ wcodecs = [v \in Viewers |-> FALSE]
  /\ fate = "up"

-----------------------------------------------------------------------------
(* PushStream: look the url up, then insert, both without the lock.        *)
PushFind(c, a, t) ==
  /\ \A u \in streams : url[u] # a
  /\ GotoCaller(c, "idle", "insert")
  /\ want' = [want EXCEPT ![c] = <<a, t>>]
  /\ UNCHANGED <<regVars, mutex, target, viewerVars, workerVars, fate>>

\* Mutant: the uuid may be one used before (derived from the url, say).
PushInsert_Reused(c, u) ==
  /\ GotoCaller(c, "insert", "idle")
  /\ streams' = streams \union {u}
  /\ url' = [url EXCEPT ![u] = want[c][1]]
  /\ kind' = [kind EXCEPT ![u] = want[c][2]]
  /\ UNCHANGED <<runLock, codecs, count, cl, mutex, want, target,
                 viewerVars, workerVars, fate>>

PushInsert(c, u) ==
  /\ ~Drawn(u)
  /\ GotoCaller(c, "insert", "idle")
  /\ streams' = streams \union {u}
  /\ url' = [url EXCEPT ![u] = want[c][1]]
  /\ kind' = [kind EXCEPT ![u] = want[c][2]]
  /\ UNCHANGED <<runLock, codecs, count, cl, mutex, want, target,
                 viewerVars, workerVars, fate>>

(* RemoveStream: find the stream without the lock; if its worker runs,     *)
(* RunUnlock, connectDecrease and a second store of the pointer; delete.   *)
RemoveFind(c, u) ==
  /\ MayRemove
  /\ u \in streams
  /\ GotoCaller(c, "idle", IF runLock[u] THEN "unlock" ELSE "delete")
  /\ target' = [target EXCEPT ![c] = u]
  /\ UNCHANGED <<regVars, mutex, want, viewerVars, workerVars, fate>>

RemoveUnlock(c) ==
  /\ Unlocked
  /\ GotoCaller(c, "unlock", "decrease")
  /\ RunUnlock(target[c])
  /\ UNCHANGED <<streams, url, kind, codecs, count, cl, mutex, want, target,
                 viewerVars, workerVars, fate>>

RemoveDecrease(c) ==
  /\ Unlocked
  /\ GotoCaller(c, "decrease", "reinsert")
  /\ connectDecrease(target[c])
  /\ UNCHANGED <<streams, url, kind, runLock, codecs, cl, mutex, want, target,
                 viewerVars, workerVars, fate>>

RemoveReinsert(c) ==
  /\ GotoCaller(c, "reinsert", "delete")
  /\ streams' = streams \union {target[c]}
  /\ UNCHANGED <<url, kind, runLock, codecs, count, cl, mutex, want, target,
                 viewerVars, workerVars, fate>>

RemoveDelete(c) ==
  /\ GotoCaller(c, "delete", "idle")
  /\ streams' = streams \ {target[c]}
  /\ UNCHANGED <<url, kind, runLock, codecs, count, cl, mutex, want, target,
                 viewerVars, workerVars, fate>>

-----------------------------------------------------------------------------
(* A session.  Its deferred calls run on every way out, in the order clDe  *)
(* (once clAd returned), ws.Close, connectDecrease.  onlineHttp evaluates  *)
(* the argument of its deferred connectDecrease before the uuid is bound,  *)
(* so that call decreases nothing.                                         *)
Request(v, u) ==
  /\ Drawn(u)
  /\ GotoViewer(v, "idle", IF u \in streams THEN "increase" ELSE "decrease")
  /\ suuid' = [suuid EXCEPT ![v] = u]
  /\ UNCHANGED <<regVars, mutex, callerVars, chan, queued, header, timer, rpc,
                 workerVars, fate>>

\* online: SetWriteDeadline fails on a socket that broke already.  The session
\* returns before it is counted; its deferred connectDecrease runs all the same.
DeadlineFails(v, u) ==
  /\ v \in WsViewers /\ SocketsFail
  /\ Drawn(u)
  /\ GotoViewer(v, "idle", "decrease")
  /\ suuid' = [suuid EXCEPT ![v] = u]
  /\ UNCHANGED <<regVars, mutex, callerVars, chan, queued, header, timer, rpc,
                 workerVars, fate>>

Increase(v) ==
  /\ Unlocked
  /\ GotoViewer(v, "increase", "run")
  /\ connectIncrease(At(v))
  /\ UNCHANGED <<streams, url, kind, runLock, codecs, cl, mutex, callerVars,
                 suuid, chan, queued, header, timer, rpc, workerVars, fate>>

\* Mutant: RunLock is set but not looked at.
Run_Unchecked(v) ==
  /\ Unlocked
  /\ GotoViewer(v, "run", "clAd")
  /\ runLock' = [runLock EXCEPT ![At(v)] = @ \/ At(v) \in streams]
  /\ wpc' = [wpc EXCEPT ![v] = IF At(v) \in streams THEN "dial" ELSE @]
  /\ UNCHANGED <<streams, url, kind, codecs, count, cl, mutex, callerVars,
                 suuid, chan, queued, header, timer, rpc, wcodecs, fate>>

Run(v) ==
  /\ Unlocked
  /\ GotoViewer(v, "run", "clAd")
  /\ LET u == At(v)
         start == u \in streams /\ ~runLock[u]
     IN  /\ runLock' = [runLock EXCEPT ![u] = @ \/ start]
         /\ wpc' = [wpc EXCEPT ![v] = IF start THEN "dial" ELSE @]
  /\ UNCHANGED <<streams, url, kind, codecs, count, cl, mutex, callerVars,
                 suuid, chan, queued, header, timer, rpc, wcodecs, fate>>

\* The store into a nil Stream panics; net/http recovers and the session ends.
ClAd(v) ==
  /\ Unlocked
  /\ IF At(v) \in streams
     THEN /\ GotoViewer(v, "clAd", "coGe")
          /\ cl' = [cl EXCEPT ![At(v)] = @ \union {v}]
          /\ chan' = [chan EXCEPT ![v] = "open"]
     ELSE /\ GotoViewer(v, "clAd", "decrease")
          /\ UNCHANGED <<cl, chan>>
  /\ UNCHANGED <<streams, url, kind, runLock, codecs, count, mutex, callerVars,
                 suuid, queued, header, timer, rpc, workerVars, fate>>

\* coGe polls for five seconds; a dial may take twenty.
CoGe(v, found) ==
  /\ Unlocked
  /\ found => At(v) \in streams /\ codecs[At(v)]
  /\ ~found => ~(At(v) \in streams /\ codecs[At(v)])
  /\ GotoViewer(v, "coGe", "init")
  /\ header' = [header EXCEPT ![v] = found]
  /\ UNCHANGED <<regVars, mutex, callerVars, suuid, chan, queued, timer, rpc,
                 workerVars, fate>>

\* InitMuxer and InitMuxerHttp: the lock is kept while the header is written.
InitLock(v) ==
  /\ Unlocked
  /\ GotoViewer(v, "init", "initLocked")
  /\ mutex' = v
  /\ UNCHANGED <<regVars, callerVars, suuid, chan, queued, header, timer, rpc,
                 workerVars, fate>>

Play(v) ==
  /\ mutex = v
  /\ v \in WsViewers => header[v]
  /\ GotoViewer(v, "initLocked", "play")
  /\ mutex' = Nobody
  /\ timer' = [timer EXCEPT ![v] = TRUE]
  /\ rpc' = [rpc EXCEPT ![v] = IF v \in WsViewers THEN "reading" ELSE @]
  /\ UNCHANGED <<regVars, callerVars, suuid, chan, queued, header,
                 workerVars, fate>>

\* InitMuxer failed: no codecs, an unsupported one, or a broken socket.
InitFail(v) ==
  /\ v \in WsViewers
  /\ mutex = v
  /\ header[v] => SocketsFail
  /\ GotoViewer(v, "initLocked", "failDecrease")
  /\ mutex' = Nobody
  /\ UNCHANGED <<regVars, callerVars, suuid, chan, queued, header, timer, rpc,
                 workerVars, fate>>

FailDecrease(v) ==
  /\ Unlocked
  /\ GotoViewer(v, "failDecrease", "clDe")
  /\ connectDecrease(At(v))
  /\ UNCHANGED <<streams, url, kind, runLock, codecs, cl, mutex, callerVars,
                 suuid, chan, queued, header, timer, rpc, workerVars, fate>>

\* A packet is taken from the channel: written on (sent rearms the timer), or
\* held back by the muxer or the wait for a key frame.
Receive(v, sent) ==
  /\ vpc[v] = "play"
  /\ queued[v] > 0
  /\ sent => header[v]
  /\ queued' = [queued EXCEPT ![v] = @ - 1]
  /\ timer' = [timer EXCEPT ![v] = @ \/ sent]
  /\ UNCHANGED <<regVars, mutex, callerVars, vpc, suuid, chan, header, rpc,
                 workerVars, fate>>

\* Writing the packet ended the session: a websocket error, or a panic of
\* Muxer.WritePacket when the header gave it no track for the packet.  An HTTP
\* session ignores the error of c.Writer.Write and goes on.
ReceiveFail(v) ==
  /\ GotoViewer(v, "play", "clDe")
  /\ queued[v] > 0
  /\ header[v] => v \in WsViewers /\ SocketsFail
  /\ queued' = [queued EXCEPT ![v] = @ - 1]
  /\ UNCHANGED <<regVars, mutex, callerVars, suuid, chan, header, timer, rpc,
                 workerVars, fate>>

\* Thirty seconds without output.  The timer is not armed again.
TimerFires(v) ==
  /\ vpc[v] = "play"
  /\ timer[v]
  /\ timer' = [timer EXCEPT ![v] = FALSE]
  /\ vpc' = [vpc EXCEPT ![v] = IF At(v) \in streams THEN @ ELSE "clDe"]
  /\ UNCHANGED <<regVars, mutex, callerVars, suuid, chan, queued, header, rpc,
                 workerVars, fate>>

\* The peer left, or the session closed the socket: Receive fails.
ReaderFails(v) ==
  /\ rpc[v] = "reading"
  /\ rpc' = [rpc EXCEPT ![v] = "sending"]
  /\ UNCHANGED <<regVars, mutex, callerVars, vpc, suuid, chan, queued, header,
                 timer, workerVars, fate>>

\* statusSocket is unbuffered: only a session still in its loop takes it.
StatusSocket(v) ==
  /\ rpc[v] = "sending"
  /\ GotoViewer(v, "play", "clDe")
  /\ rpc' = [rpc EXCEPT ![v] = "done"]
  /\ UNCHANGED <<regVars, mutex, callerVars, suuid, chan, queued, header,
                 timer, workerVars, fate>>

\* Mutant: the channel is closed but stays in Stream.Cl.
ClDe_KeepsEntry(v) ==
  /\ Unlocked
  /\ GotoViewer(v, "clDe", "decrease")
  /\ chan' = [chan EXCEPT ![v] = IF At(v) \in streams THEN "closed" ELSE @]
  /\ UNCHANGED <<regVars, mutex, callerVars, suuid, queued, header, timer, rpc,
                 workerVars, fate>>

ClDe(v) ==
  /\ Unlocked
  /\ GotoViewer(v, "clDe", "decrease")
  /\ IF At(v) \in streams
     THEN /\ cl' = [cl EXCEPT ![At(v)] = @ \ {v}]
          /\ chan' = [chan EXCEPT ![v] = "closed"]
     ELSE UNCHANGED <<cl, chan>>
  /\ UNCHANGED <<streams, url, kind, runLock, codecs, count, mutex, callerVars,
                 suuid, queued, header, timer, rpc, workerVars, fate>>

\* Mutant: online evaluates the argument of its deferred call too early as well.
Decrease_Early(v) ==
  /\ GotoViewer(v, "decrease", "done")
  /\ header' = [header EXCEPT ![v] = FALSE]
  /\ timer' = [timer EXCEPT ![v] = FALSE]
  /\ UNCHANGED <<regVars, mutex, callerVars, suuid, chan, queued, rpc,
                 workerVars, fate>>

\* The session's locals die with it.
Decrease(v) ==
  /\ GotoViewer(v, "decrease", "done")
  /\ IF v \in WsViewers
     THEN Unlocked /\ connectDecrease(At(v))
     ELSE UNCHANGED count
  /\ header' = [header EXCEPT ![v] = FALSE]
  /\ timer' = [timer EXCEPT ![v] = FALSE]
  /\ UNCHANGED <<streams, url, kind, runLock, codecs, cl, mutex, callerVars,
                 suuid, chan, queued, rpc, workerVars, fate>>

-----------------------------------------------------------------------------
(* RTSPWorker and RTMPWorker.  A worker that lost its camera sleeps and    *)
(* starts again from the dial, RunLock still set.                          *)
\* RTMPWorker defers Close before it looks at the error: on a failed dial the
\* connection is nil and the deferred call stops the process.
DialFails(w) ==
  /\ Unlocked
  /\ GotoWorker(w, "dial", "none")
  /\ RunUnlock(At(w))
  /\ fate' = IF kind[At(w)] = "rtmp" THEN "dialPanic" ELSE fate
  /\ UNCHANGED <<streams, url, kind, codecs, count, cl, mutex, callerVars,
                 viewerVars, wcodecs>>

\* Mutant: a worker that gives up leaves RunLock set.
NoCodecs_KeepsLock(w) ==
  /\ GotoWorker(w, "dial", IF kind[At(w)] = "rtsp" THEN "none" ELSE "lockCheck")
  /\ UNCHANGED <<regVars, mutex, callerVars, viewerVars, wcodecs, fate>>

\* Streams() gave no codec: RTSPWorker gives up, RTMPWorker goes on with nil.
NoCodecs(w) ==
  /\ wpc[w] = "dial"
  /\ IF kind[At(w)] = "rtsp"
     THEN /\ Unlocked
          /\ GotoWorker(w, "dial", "none")
          /\ RunUnlock(At(w))
          /\ UNCHANGED <<codecs, wcodecs>>
     ELSE /\ GotoWorker(w, "dial", "lockCheck")
          /\ codecs' = [codecs EXCEPT ![At(w)] = FALSE]
          /\ wcodecs' = [wcodecs EXCEPT ![w] = FALSE]
          /\ UNCHANGED runLock
  /\ UNCHANGED <<streams, url, kind, count, cl, mutex, callerVars,
                 viewerVars, fate>>

Connect(w) ==
  /\ GotoWorker(w, "dial", "lockCheck")
  /\ codecs' = [codecs EXCEPT ![At(w)] = TRUE]
  /\ wcodecs' = [wcodecs EXCEPT ![w] = TRUE]
  /\ UNCHANGED <<streams, url, kind, runLock, count, cl, mutex, callerVars,
                 viewerVars, fate>>

LockCheck(w) ==
  /\ GotoWorker(w, "lockCheck", IF runLock[At(w)] THEN "connectGet" ELSE "none")
  /\ UNCHANGED <<regVars, mutex, callerVars, viewerVars, wcodecs, fate>>

ConnectGet(w) ==
  /\ Unlocked
  /\ GotoWorker(w, "connectGet", IF connectGet(At(w)) = 0 THEN "unlock" ELSE "read")
  /\ UNCHANGED <<regVars, mutex, callerVars, viewerVars, wcodecs, fate>>

\* Mutant: the worker leaves without RunUnlock.
WorkerUnlock_Forgotten(w) ==
  /\ GotoWorker(w, "unlock", "none")
  /\ UNCHANGED <<regVars, mutex, callerVars, viewerVars, wcodecs, fate>>

\* "Connect clients is 0": the count was read under an earlier lock.
WorkerUnlock(w) ==
  /\ Unlocked
  /\ GotoWorker(w, "unlock", "none")
  /\ RunUnlock(At(w))
  /\ UNCHANGED <<streams, url, kind, codecs, count, cl, mutex, callerVars,
                 viewerVars, wcodecs, fate>>

ReadError(w) ==
  /\ GotoWorker(w, "read", "dial")
  /\ UNCHANGED <<regVars, mutex, callerVars, viewerVars, wcodecs, fate>>

ReadAudio(w) ==
  /\ wcodecs[w]
  /\ GotoWorker(w, "read", "lockCheck")
  /\ UNCHANGED <<regVars, mutex, callerVars, viewerVars, wcodecs, fate>>

\* codecs[pck.Idx] is out of range when an RTMP worker goes on without codecs.
ReadVideo(w) ==
  /\ GotoWorker(w, "read", "cast")
  /\ fate' = IF wcodecs[w] THEN fate ELSE "indexPanic"
  /\ UNCHANGED <<regVars, mutex, callerVars, viewerVars, wcodecs>>

\* Mutant: on a full channel cast waits, and keeps the mutex.
Cast_Blocks(w) ==
  /\ wpc[w] = "cast"
  /\ mutex \in {Nobody, w}
  /\ IF \E v \in cl[At(w)] : queued[v] = ChanCap
     THEN mutex' = w /\ UNCHANGED <<wpc, queued>>
     ELSE /\ mutex' = Nobody
          /\ GotoWorker(w, "cast", "lockCheck")
          /\ queued' = [v \in Viewers |-> IF v \in cl[At(w)] THEN queued[v] + 1
                                                             ELSE queued[v]]
  /\ UNCHANGED <<regVars, callerVars, vpc, suuid, chan, header, timer, rpc,
                 wcodecs, fate>>

\* cast drops the packet for a viewer whose channel is full, and dereferences
\* a nil Stream when the stream was removed since the worker last looked.
Cast(w) ==
  /\ Unlocked
  /\ GotoWorker(w, "cast", "lockCheck")
  /\ IF At(w) \in streams
     THEN /\ queued' = [v \in Viewers |->
               IF v \in cl[At(w)] /\ queued[v] < ChanCap
               THEN queued[v] + 1 ELSE queued[v]]
          /\ UNCHANGED fate
     ELSE /\ fate' = "castPanic"
          /\ UNCHANGED queued
  /\ UNCHANGED <<regVars, mutex, callerVars, vpc, suuid, chan, header, timer,
                 rpc, wcodecs>>

-----------------------------------------------------------------------------
\* An unlocked write of Config.Streams is about to happen while another
\* goroutine is about to touch the map.
UnlockedWrite(c) == cpc[c] \in {"insert", "reinsert", "delete"}
CallerTouches(c) == cpc[c] # "idle"
ViewerTouches(v) ==
  vpc[v] \in {"increase", "run", "clAd", "coGe", "failDecrease", "clDe", "decrease"}
WorkerTouches(w) == wpc[w] \in {"connectGet", "unlock", "cast"}

MapRace ==
  /\ \E c \in Callers :
       /\ UnlockedWrite(c)
       /\ \/ \E d \in Callers \ {c} : CallerTouches(d)
          \/ \E v \in Viewers : ViewerTouches(v) \/ WorkerTouches(v)
  /\ fate' = "mapRace"
  /\ UNCHANGED <<regVars, mutex, callerVars, viewerVars, workerVars>>

CallerStep(c) ==
  \/ \E a \in Urls, t \in PushKinds : PushFind(c, a, t)
  \/ \E u \in Uuids : PushInsert(c, u)
  \/ \E u \in Uuids : RemoveFind(c, u)
  \/ RemoveUnlock(c) \/ RemoveDecrease(c) \/ RemoveReinsert(c) \/ RemoveDelete(c)

\* What a session does by itself once its request has come in.
SessionStep(v) ==
  \/ Increase(v) \/ Run(v) \/ ClAd(v)
  \/ \E found \in BOOLEAN : CoGe(v, found)
  \/ InitLock(v) \/ Play(v) \/ InitFail(v) \/ FailDecrease(v)
  \/ \E sent \in BOOLEAN : Receive(v, sent)
  \/ ReceiveFail(v) \/ TimerFires(v) \/ ClDe(v) \/ Decrease(v)

WorkerStep(w) ==
  \/ DialFails(w) \/ NoCodecs(w) \/ Connect(w) \/ LockCheck(w) \/ ConnectGet(w)
  \/ WorkerUnlock(w) \/ ReadError(w) \/ ReadAudio(w) \/ ReadVideo(w) \/ Cast(w)

Next ==
  /\ fate = "up"
  /\ \/ \E c \in Callers : CallerStep(c)
     \/ \E v \in Viewers, u \in Uuids : Request(v, u) \/ DeadlineFails(v, u)
     \/ \E v \in Viewers : SessionStep(v) \/ ReaderFails(v) \/ StatusSocket(v)
     \/ \E w \in Viewers : WorkerStep(w)
     \/ MapRace

Spec == Init /\ [][Next]_vars

-----------------------------------------------------------------------------
(* Fairness.  Go runs every goroutine that can run, sync.RWMutex starves   *)
(* nobody, and select picks a ready case at random, so a session that is   *)
(* offered its status takes it.  A worker's steps are fair because a dial  *)
(* gives up after 20 s and a camera is assumed to go on sending until the  *)
(* connection fails (no read deadline is set).  Nothing is assumed of API  *)
(* callers finding work, of viewers arriving or of viewers leaving.        *)
Fairness ==
  /\ \A c \in Callers :
       /\ \A u \in Uuids : WF_vars(fate = "up" /\ PushInsert(c, u))
       /\ WF_vars(fate = "up" /\ (RemoveUnlock(c) \/ RemoveDecrease(c)
                                  \/ RemoveReinsert(c) \/ RemoveDelete(c)))
  /\ \A v \in Viewers : /\ WF_vars(fate = "up" /\ SessionStep(v))
                        /\ WF_vars(fate = "up" /\ StatusSocket(v))
                        /\ WF_vars(fate = "up" /\ WorkerStep(v))

FairSpec == Spec /\ Fairness

-----------------------------------------------------------------------------
\* The values every variable ranges over; one conjunct per group of config.go,
\* http.go and stream.go state.
TypeOK ==
  /\ streams \in SUBSET Uuids
  /\ url \in [Uuids -> Urls \union {Nobody}]
  /\ kind \in [Uuids -> Kinds]
  /\ runLock \in [Uuids -> BOOLEAN]
  /\ codecs \in [Uuids -> BOOLEAN]
  /\ count \in [Uuids -> Int]
  /\ cl \in [Uuids -> SUBSET Viewers]
  /\ mutex \in Viewers \union {Nobody}
  /\ cpc \in [Callers -> CallerPCs]
  /\ want \in [Callers -> Urls \X Kinds]
  /\ target \in [Callers -> Uuids]
  /\ vpc \in [Viewers -> ViewerPCs]
  /\ suuid \in [Viewers -> Uuids]
  /\ chan \in [Viewers -> {"none", "open", "closed"}]
  /\ queued \in [Viewers -> 0..ChanCap]
  /\ header \in [Viewers -> BOOLEAN]
  /\ timer \in [Viewers -> BOOLEAN]
  /\ rpc \in [Viewers -> ReaderPCs]
  /\ wpc \in [Viewers -> WorkerPCs]
  /\ wcodecs \in [Viewers -> BOOLEAN]
  /\ fate \in Fates

Removing(u) == \E c \in Callers : target[c] = u /\ cpc[c] \notin {"idle", "insert"}
\* A stream that is in the registry and that no RemoveStream call is taking out.
Settled(u) == u \in streams /\ ~Removing(u)
WorksOn(w, u) == wpc[w] # "none" /\ At(w) = u
Ended(v) == vpc[v] \in {"idle", "done"}

\* RunLock does its work (config.go Run, RunUnlock): a settled stream never has
\* two workers, though workers start in Run, restart themselves after a read
\* error and stop for four reasons.
OneWorkerPerStream ==
  \A u \in Uuids : Settled(u) =>
    \A v, w \in Viewers : WorksOn(v, u) /\ WorksOn(w, u) => v = w

\* A settled stream whose RunLock is set has a worker, and one with a worker has
\* RunLock set: no exit of a worker leaves the lock behind, after which Run would
\* never start another one.
LockIffWorker ==
  \A u \in Uuids : Settled(u) =>
    (runLock[u] <=> \E w \in Viewers : WorksOn(w, u))

\* The inductive strengthening of the two invariants above: a session that has
\* not called Run has no worker, and nothing works on, or removes, a uuid nobody
\* has drawn.
NotRunYet == {"idle", "increase", "run"}
WorkerInv ==
  /\ \A v \in Viewers : vpc[v] \in NotRunYet => wpc[v] = "none"
  /\ \A u \in Uuids : ~Drawn(u) =>
       /\ u \notin streams /\ ~runLock[u] /\ ~Removing(u)
       /\ \A w \in Viewers : ~WorksOn(w, u)
  /\ OneWorkerPerStream
  /\ LockIffWorker

\* cast sends only on open channels, and clDe closes the channel clAd made, once:
\* a send on a closed channel, or closing a nil one, would stop the process.
RegisteredChannelsOpen ==
  /\ \A u \in Uuids, v \in Viewers :
       v \in cl[u] => chan[v] = "open" /\ At(v) = u
  /\ \A v \in Viewers :
       vpc[v] = "clDe" /\ At(v) \in streams => v \in cl[At(v)]

\* The inductive strengthening of RegisteredChannelsOpen: who is registered
\* follows from where the session is, whatever happens to the stream meanwhile.
NotRegisteredYet == {"idle", "increase", "run", "clAd"}
RegisteredPCs == {"coGe", "init", "initLocked", "play", "failDecrease", "clDe"}
ChannelInv ==
  /\ \A v \in Viewers : vpc[v] \in NotRegisteredYet => \A u \in Uuids : v \notin cl[u]
  /\ \A v \in Viewers : vpc[v] \in RegisteredPCs => v \in cl[At(v)]
  /\ \A u \in Uuids, v \in Viewers :
       v \in cl[u] => chan[v] = "open" /\ At(v) = u

\* A websocket session that ends without having played: of a stream that is still
\* there, one that went through DeadlineFails or FailDecrease.
NeverPlayed(v) ==
  /\ v \in WsViewers /\ rpc[v] = "none"
  /\ vpc[v] \in {"clDe", "decrease", "done"}
Counted(v) ==
  vpc[v] \notin {"idle", "increase"} /\ (v \in WsViewers => vpc[v] # "done")

CountedAt(u) == {v \in Viewers : At(v) = u /\ Counted(v)}
NeverPlayedAt(u) == {v \in Viewers : At(v) = u /\ NeverPlayed(v)}

\* The exact meaning of CountConnect on a settled stream: the sessions counted
\* now, HTTP sessions that ended included, less one for every websocket session
\* that failed before it played: its deferred connectDecrease is one too many.
CountLedger ==
  \A u \in Uuids : Settled(u) =>
    count[u] = Cardinality(CountedAt(u)) - Cardinality(NeverPlayedAt(u))

\* The inductive strengthening of CountLedger: where a session is says whether it
\* has a channel and a reader goroutine, so that a counted session is NeverPlayed
\* from FailDecrease on and not before; a uuid nobody has drawn has no count and no session; and only
\* finitely many sessions have begun.
BeforePlay == {"idle", "increase", "run", "clAd", "coGe", "init", "initLocked",
               "failDecrease"}
Started == {v \in Viewers : vpc[v] # "idle"}
SessionInv ==
  /\ \A v \in Viewers :
       /\ vpc[v] \in NotRegisteredYet => chan[v] = "none"
       /\ vpc[v] \in RegisteredPCs => chan[v] # "none"
       /\ vpc[v] \in BeforePlay => rpc[v] = "none"
       /\ vpc[v] = "play" /\ v \in WsViewers => rpc[v] # "none"
       /\ vpc[v] = "failDecrease" => v \in WsViewers
  /\ \A u \in Uuids : ~Drawn(u) =>
       /\ u \notin streams /\ ~Removing(u) /\ count[u] = 0
       /\ \A v \in Viewers : At(v) = u => vpc[v] = "idle"
LedgerInv == SessionInv /\ IsFiniteSet(Started) /\ CountLedger

\* Once the socket of a playing session fails, the session ends: neither the lock,
\* which other sessions keep over their InitMuxer, nor a channel, nor a worker
\* casting on a full one holds it back (PlayStreamRTSP, the deferred calls of
\* online).
SessionEnds ==
  \A v \in WsViewers :
    rpc[v] = "sending" /\ vpc[v] = "play" ~> vpc[v] = "done" \/ fate # "up"

\* The worker of a removed stream stops, or stops the process: it cannot go on
\* reading a camera nobody can ask for (RemoveStream, the checks of RTSPWorker).
RemovedWorkerStops ==
  \A u \in Uuids :
    (Drawn(u) /\ u \notin streams /\ ~Removing(u))
      ~> (fate # "up" \/ \A w \in Viewers : ~WorksOn(w, u))

\* A camera whose websocket sessions have all ended is let go, provided none of
\* them failed before it played (CountLedger says what happens then) and the
\* removals end, each of which puts the stream back for a moment (RTSPWorker,
\* connectGet).
UnwatchedWorkerStops ==
  [](\A v \in Viewers : NeverPlayed(v) => At(v) \notin streams) =>
    \A u \in Uuids :
      <>[](~Removing(u) /\ \A v \in Viewers : At(v) = u => Ended(v)) =>
        <>[](fate # "up" \/ \A w \in Viewers : ~WorksOn(w, u))
=============================================================================
