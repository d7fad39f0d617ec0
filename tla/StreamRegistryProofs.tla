----------------------- MODULE StreamRegistryProofs -----------------------
(***************************************************************************)
(* Proofs about StreamRegistry for any number of sessions, callers, urls   *)
(* and uuids, any channel capacity, with and without /remove and failing   *)
(* sockets.                                                                *)
(*                                                                         *)
(* OneWorkerPerStream and LockIffWorker are proved together: that no       *)
(* second worker starts needs RunLock to be set while one runs, and that   *)
(* an exit may clear RunLock needs the worker that exits to be the only    *)
(* one.  WorkerInv adds what makes both inductive.  ChannelInv is the      *)
(* inductive form of RegisteredChannelsOpen, LedgerInv that of             *)
(* CountLedger: the count and the sizes of two sets of sessions move       *)
(* together because a session's place says whether it has a channel and a  *)
(* reader goroutine.  Only finitely many sessions have begun at any time,  *)
(* so the sets have sizes although there may be infinitely many sessions.  *)
(***************************************************************************)
EXTENDS StreamRegistry, FiniteSetTheorems, TLAPS

\* Every variable stays in the set TypeOK names, whatever the order of handlers.
THEOREM TypeCorrect == Spec => []TypeOK
<1> USE ChanCapAssumption, NobodyAssumption, PushKindsAssumption
    DEF Kinds, CallerPCs, ViewerPCs, WorkerPCs, ReaderPCs, Fates, Viewers, At,
        regVars, callerVars, viewerVars, workerVars
<1>1. Init => TypeOK
  BY DEF Init, TypeOK
<1>2. TypeOK /\ [Next]_vars => TypeOK'
  <2> SUFFICES ASSUME TypeOK, [Next]_vars PROVE TypeOK'
    OBVIOUS
  <2> USE DEF TypeOK
  <2>1. ASSUME NEW c \in Callers, CallerStep(c) PROVE TypeOK'
    <3>1. ASSUME NEW a \in Urls, NEW t \in PushKinds, PushFind(c, a, t) PROVE TypeOK'
      BY <3>1 DEF PushFind, GotoCaller
    <3>2. ASSUME NEW u \in Uuids, PushInsert(c, u) PROVE TypeOK'
      BY <3>2 DEF PushInsert, GotoCaller
    <3>3. ASSUME NEW u \in Uuids, RemoveFind(c, u) PROVE TypeOK'
      BY <3>3 DEF RemoveFind, GotoCaller
    <3>4. ASSUME RemoveUnlock(c) PROVE TypeOK'
      BY <3>4 DEF RemoveUnlock, GotoCaller, RunUnlock
    <3>5. ASSUME RemoveDecrease(c) PROVE TypeOK'
      BY <3>5 DEF RemoveDecrease, GotoCaller, connectDecrease, connectAdd
    <3>6. ASSUME RemoveReinsert(c) PROVE TypeOK'
      BY <3>6 DEF RemoveReinsert, GotoCaller
    <3>7. ASSUME RemoveDelete(c) PROVE TypeOK'
      BY <3>7 DEF RemoveDelete, GotoCaller
    <3> HIDE DEF TypeOK
    <3> QED BY <2>1, <3>1, <3>2, <3>3, <3>4, <3>5, <3>6, <3>7 DEF CallerStep
  <2>2. ASSUME NEW v \in Viewers, SessionStep(v) PROVE TypeOK'
    <3>1. ASSUME Increase(v) PROVE TypeOK'
      BY <3>1 DEF Increase, GotoViewer, connectIncrease, connectAdd
    <3>2. ASSUME Run(v) PROVE TypeOK'
      BY <3>2 DEF Run, GotoViewer
    <3>3. ASSUME ClAd(v) PROVE TypeOK'
      <4>1. CASE At(v) \in streams
        <5>1. cl' \in [Uuids -> SUBSET Viewers]
          BY <3>3, <4>1 DEF ClAd
        <5>2. /\ vpc' = [vpc EXCEPT ![v] = "coGe"]
              /\ chan' = [chan EXCEPT ![v] = "open"]
          <6> HIDE DEF TypeOK
          <6> QED BY <3>3, <4>1 DEF ClAd, GotoViewer
        <5> QED BY <3>3, <5>1, <5>2 DEF ClAd
      <4>2. CASE At(v) \notin streams
        BY <3>3, <4>2 DEF ClAd, GotoViewer
      <4> QED BY <4>1, <4>2
    <3>4. ASSUME NEW found \in BOOLEAN, CoGe(v, found) PROVE TypeOK'
      BY <3>4 DEF CoGe, GotoViewer
    <3>5. ASSUME InitLock(v) PROVE TypeOK'
      BY <3>5 DEF InitLock, GotoViewer
    <3>6. ASSUME Play(v) PROVE TypeOK'
      BY <3>6 DEF Play, GotoViewer
    <3>7. ASSUME InitFail(v) PROVE TypeOK'
      BY <3>7 DEF InitFail, GotoViewer
    <3>8. ASSUME FailDecrease(v) PROVE TypeOK'
      BY <3>8 DEF FailDecrease, GotoViewer, connectDecrease, connectAdd
    <3>9. ASSUME NEW sent \in BOOLEAN, Receive(v, sent) PROVE TypeOK'
      BY <3>9 DEF Receive, GotoViewer
    <3>10. ASSUME ReceiveFail(v) PROVE TypeOK'
      BY <3>10 DEF ReceiveFail, GotoViewer
    <3>11. ASSUME TimerFires(v) PROVE TypeOK'
      BY <3>11 DEF TimerFires, GotoViewer
    <3>12. ASSUME ClDe(v) PROVE TypeOK'
      <4>1. CASE At(v) \in streams
        <5>1. cl' \in [Uuids -> SUBSET Viewers]
          BY <3>12, <4>1 DEF ClDe
        <5>2. /\ vpc' = [vpc EXCEPT ![v] = "decrease"]
              /\ chan' = [chan EXCEPT ![v] = "closed"]
          <6> HIDE DEF TypeOK
          <6> QED BY <3>12, <4>1 DEF ClDe, GotoViewer
        <5> QED BY <3>12, <5>1, <5>2 DEF ClDe
      <4>2. CASE At(v) \notin streams
        BY <3>12, <4>2 DEF ClDe, GotoViewer
      <4> QED BY <4>1, <4>2
    <3>13. ASSUME Decrease(v) PROVE TypeOK'
      <4>1. CASE v \in WsViewers
        BY <3>13, <4>1 DEF Decrease, GotoViewer, connectDecrease, connectAdd
      <4>2. CASE ~(v \in WsViewers)
        BY <3>13, <4>2 DEF Decrease, GotoViewer, connectDecrease, connectAdd
      <4> QED BY <4>1, <4>2
    <3> HIDE DEF TypeOK
    <3> QED BY <2>2, <3>1, <3>2, <3>3, <3>4, <3>5, <3>6, <3>7, <3>8, <3>9, <3>10, <3>11, <3>12, <3>13 DEF SessionStep
  <2>3. ASSUME NEW w \in Viewers, WorkerStep(w) PROVE TypeOK'
    <3>1. ASSUME DialFails(w) PROVE TypeOK'
      BY <3>1 DEF DialFails, GotoWorker, RunUnlock
    <3>2. ASSUME NoCodecs(w) PROVE TypeOK'
      <4>1. CASE kind[At(w)] = "rtsp"
        <5>1. /\ runLock' = [runLock EXCEPT ![At(w)] = @ /\ At(w) \notin streams]
              /\ UNCHANGED <<codecs, wcodecs>>
              /\ wpc' = [wpc EXCEPT ![w] = "none"]
          <6> HIDE DEF TypeOK
          <6> QED BY <3>2, <4>1 DEF NoCodecs, GotoWorker, RunUnlock
        <5>2. runLock' \in [Uuids -> BOOLEAN]
          BY <5>1
        <5> QED BY <3>2, <5>1, <5>2 DEF NoCodecs
      <4>2. CASE kind[At(w)] # "rtsp"
        <5>1. /\ codecs' = [codecs EXCEPT ![At(w)] = FALSE]
              /\ wcodecs' = [wcodecs EXCEPT ![w] = FALSE]
              /\ wpc' = [wpc EXCEPT ![w] = "lockCheck"]
              /\ UNCHANGED runLock
          <6> HIDE DEF TypeOK
          <6> QED BY <3>2, <4>2 DEF NoCodecs, GotoWorker
        <5> QED BY <3>2, <5>1 DEF NoCodecs
      <4> QED BY <4>1, <4>2
    <3>3. ASSUME Connect(w) PROVE TypeOK'
      BY <3>3 DEF Connect, GotoWorker
    <3>4. ASSUME LockCheck(w) PROVE TypeOK'
      BY <3>4 DEF LockCheck, GotoWorker
    <3>5. ASSUME ConnectGet(w) PROVE TypeOK'
      BY <3>5 DEF ConnectGet, GotoWorker
    <3>6. ASSUME WorkerUnlock(w) PROVE TypeOK'
      BY <3>6 DEF WorkerUnlock, GotoWorker, RunUnlock
    <3>7. ASSUME ReadError(w) PROVE TypeOK'
      BY <3>7 DEF ReadError, GotoWorker
    <3>8. ASSUME ReadAudio(w) PROVE TypeOK'
      BY <3>8 DEF ReadAudio, GotoWorker
    <3>9. ASSUME ReadVideo(w) PROVE TypeOK'
      BY <3>9 DEF ReadVideo, GotoWorker
    <3>10. ASSUME Cast(w) PROVE TypeOK'
      <4>1. CASE At(w) \in streams
        BY <3>10, <4>1 DEF Cast, GotoWorker
      <4>2. CASE ~(At(w) \in streams)
        BY <3>10, <4>2 DEF Cast, GotoWorker
      <4> QED BY <4>1, <4>2
    <3> HIDE DEF TypeOK
    <3> QED BY <2>3, <3>1, <3>2, <3>3, <3>4, <3>5, <3>6, <3>7, <3>8, <3>9, <3>10 DEF WorkerStep
  <2>4. ASSUME NEW v \in Viewers, NEW u \in Uuids,
               Request(v, u) \/ DeadlineFails(v, u)
        PROVE  TypeOK'
    <3>1. CASE Request(v, u)
      BY <3>1 DEF Request, GotoViewer
    <3>2. CASE DeadlineFails(v, u)
      BY <3>2 DEF DeadlineFails, GotoViewer
    <3> QED BY <2>4, <3>1, <3>2
  <2>5. ASSUME NEW v \in Viewers, ReaderFails(v) PROVE TypeOK'
    BY <2>5 DEF ReaderFails, GotoViewer
  <2>6. ASSUME NEW v \in Viewers, StatusSocket(v) PROVE TypeOK'
    BY <2>6 DEF StatusSocket, GotoViewer
  <2>7. CASE MapRace
    BY <2>7 DEF MapRace
  <2>8. CASE UNCHANGED vars
    BY <2>8 DEF vars
  <2> HIDE DEF TypeOK
  <2> QED BY <2>1, <2>2, <2>3, <2>4, <2>5, <2>6, <2>7, <2>8 DEF Next
<1> QED
  BY <1>1, <1>2, PTL DEF Spec

\* What WorkerInv reads of the state, and how little of it most handlers change:
\* the lock and the registry are left alone, nobody starts or stops working, and
\* no session goes back to before its Run.
LEMMA WorkerFrame ==
  ASSUME WorkerInv,
         UNCHANGED <<streams, url, runLock, suuid, cpc, target>>,
         \A v \in Viewers : vpc'[v] \in NotRunYet => vpc[v] \in NotRunYet,
         \A w \in Viewers : wpc'[w] = "none" <=> wpc[w] = "none"
  PROVE  WorkerInv'
  BY DEF WorkerInv, OneWorkerPerStream, LockIffWorker, Settled, Removing, WorksOn,
         Drawn, At

\* A worker that exits: it was the only one, and it leaves RunLock cleared if its
\* stream is still registered.
LEMMA WorkerExit ==
  ASSUME TypeOK, WorkerInv, NEW w \in Viewers,
         wpc[w] # "none", wpc' = [wpc EXCEPT ![w] = "none"],
         At(w) \in streams => ~runLock'[At(w)],
         \A u \in Uuids \ {At(w)} : runLock'[u] = runLock[u],
         UNCHANGED <<streams, url, suuid, cpc, target, vpc>>
  PROVE  WorkerInv'
<1> USE DEF WorksOn, At
<1>1. /\ At(w) \in Uuids
      /\ wpc'[w] = "none"
      /\ \A v \in Viewers \ {w} : wpc'[v] = wpc[v]
  BY DEF TypeOK
<1>2. \A v \in Viewers : vpc'[v] \in NotRunYet => wpc'[v] = "none"
  BY <1>1 DEF WorkerInv
<1>3. ASSUME NEW u \in Uuids, ~Drawn(u)'
      PROVE  /\ u \notin streams' /\ ~runLock'[u] /\ ~Removing(u)'
             /\ \A v \in Viewers : ~WorksOn(v, u)'
  BY <1>1, <1>3 DEF WorkerInv, Drawn, Removing
<1>4. ASSUME NEW u \in Uuids, Settled(u)'
      PROVE  /\ \A v, x \in Viewers : WorksOn(v, u)' /\ WorksOn(x, u)' => v = x
             /\ runLock'[u] <=> \E v \in Viewers : WorksOn(v, u)'
  <2>1. Settled(u)
    BY <1>4 DEF Settled, Removing
  <2>2. CASE u = At(w)
    BY <1>1, <2>1, <2>2 DEF WorkerInv, OneWorkerPerStream, Settled
  <2>3. CASE u # At(w)
    BY <1>1, <2>1, <2>3 DEF WorkerInv, OneWorkerPerStream, LockIffWorker
  <2> QED BY <2>2, <2>3
<1> QED
  BY <1>2, <1>3, <1>4 DEF WorkerInv, OneWorkerPerStream, LockIffWorker

\* RunUnlock clears the lock of a registered stream and touches no other.
LEMMA RunUnlockClears ==
  ASSUME TypeOK, NEW u \in Uuids, RunUnlock(u)
  PROVE  /\ u \in streams => ~runLock'[u]
         /\ \A x \in Uuids \ {u} : runLock'[x] = runLock[x]
  BY DEF TypeOK, RunUnlock

\* A remover's steps keep its stream unsettled, and leave every other as it was.
LEMMA WorkerRemove ==
  ASSUME TypeOK, WorkerInv, NEW c \in Callers, NEW t \in Uuids,
         target'[c] = t, Drawn(t),
         \A d \in Callers \ {c} : cpc'[d] = cpc[d] /\ target'[d] = target[d],
         cpc[c] \notin {"idle", "insert"} => target[c] = t,
         \/ cpc'[c] \notin {"idle", "insert"}
         \/ t \notin streams',
         \A u \in Uuids \ {t} : /\ u \in streams' <=> u \in streams
                                /\ runLock'[u] = runLock[u],
         UNCHANGED <<url, suuid, vpc, wpc>>
  PROVE  WorkerInv'
<1> USE DEF WorksOn, At, Drawn
<1>1. \A u \in Uuids : Settled(u)' => u # t /\ Settled(u)
  BY DEF Settled, Removing
<1>2. \A u \in Uuids : ~Drawn(u)' => u # t /\ (Removing(u)' => Removing(u))
  BY DEF Removing
<1> QED
  BY <1>1, <1>2 DEF WorkerInv, OneWorkerPerStream, LockIffWorker

\* PushStream inserts a uuid that nothing has ever worked on.
LEMMA WorkerPush ==
  ASSUME TypeOK, WorkerInv, NEW c \in Callers, NEW x \in Uuids, ~Drawn(x),
         url'[x] # Nobody, \A u \in Uuids \ {x} : url'[u] = url[u],
         streams' = streams \union {x},
         cpc[c] \in {"idle", "insert"}, cpc'[c] \in {"idle", "insert"},
         \A d \in Callers \ {c} : cpc'[d] = cpc[d],
         UNCHANGED <<target, runLock, suuid, vpc, wpc>>
  PROVE  WorkerInv'
<1>0. /\ \A w \in Viewers, u \in Uuids : WorksOn(w, u)' <=> WorksOn(w, u)
      /\ \A u \in Uuids : ~Drawn(u)' => u # x /\ ~Drawn(u)
  BY DEF WorksOn, At, Drawn
<1>1. \A u \in Uuids : /\ Settled(u)' => u = x \/ Settled(u)
                       /\ Removing(u)' => Removing(u)
  BY DEF Settled, Removing
<1>2. ~runLock[x] /\ \A w \in Viewers : ~WorksOn(w, x)
  BY DEF WorkerInv
<1>3. OneWorkerPerStream'
  BY <1>0, <1>1, <1>2 DEF WorkerInv, OneWorkerPerStream
<1>4. LockIffWorker'
  BY <1>0, <1>1, <1>2 DEF WorkerInv, LockIffWorker
<1>5. ASSUME NEW u \in Uuids, ~Drawn(u)'
      PROVE  /\ u \notin streams' /\ ~runLock'[u] /\ ~Removing(u)'
             /\ \A w \in Viewers : ~WorksOn(w, u)'
  <2>1. u # x /\ ~Drawn(u)
    BY <1>0, <1>5
  <2> QED
    BY <1>0, <1>1, <2>1 DEF WorkerInv
<1> QED
  BY <1>3, <1>4, <1>5 DEF WorkerInv

\* RunLock and the workers, for any number of both.  Most handlers fall under
\* WorkerFrame; the others start a worker, stop one, or push or remove a stream.
THEOREM WorkerInvariant == Spec => []WorkerInv
<1> USE DEF regVars, callerVars, viewerVars, workerVars
<1>1. Init => WorkerInv
  BY DEF Init, WorkerInv, OneWorkerPerStream, LockIffWorker, Settled, Removing,
         WorksOn, Drawn, NotRunYet
<1>2. TypeOK /\ WorkerInv /\ [Next]_vars => WorkerInv'
  <2> SUFFICES ASSUME TypeOK, WorkerInv, [Next]_vars PROVE WorkerInv'
    OBVIOUS
  <2>1. ASSUME NEW c \in Callers, CallerStep(c) PROVE WorkerInv'
    <3>1. ASSUME NEW a \in Urls, NEW t \in PushKinds, PushFind(c, a, t)
          PROVE  WorkerInv'
      <4>1. cpc[c] = "idle" /\ cpc' = [cpc EXCEPT ![c] = "insert"]
        BY <3>1 DEF PushFind, GotoCaller
      <4>2. \A u \in Uuids : /\ Settled(u)' => Settled(u)
                             /\ Removing(u)' => Removing(u)
        BY <3>1, <4>1 DEF PushFind, Settled, Removing, TypeOK
      <4>3. UNCHANGED <<streams, url, runLock, suuid, vpc, wpc>>
        BY <3>1 DEF PushFind
      <4> HIDE DEF regVars, callerVars, viewerVars, workerVars
      <4>4. /\ \A w \in Viewers, u \in Uuids : WorksOn(w, u)' <=> WorksOn(w, u)
            /\ \A u \in Uuids : Drawn(u)' <=> Drawn(u)
        BY <4>3 DEF WorksOn, Drawn, At
      <4>5. OneWorkerPerStream'
        BY <4>2, <4>4 DEF WorkerInv, OneWorkerPerStream
      <4>6. LockIffWorker'
        BY <4>2, <4>3, <4>4 DEF WorkerInv, LockIffWorker
      <4>7. ASSUME NEW u \in Uuids, ~Drawn(u)'
            PROVE  /\ u \notin streams' /\ ~runLock'[u] /\ ~Removing(u)'
                   /\ \A w \in Viewers : ~WorksOn(w, u)'
        <5>1. ~Drawn(u)
          BY <4>4, <4>7
        <5> QED BY <4>2, <4>3, <4>4, <5>1 DEF WorkerInv
      <4> QED
        BY <4>3, <4>5, <4>6, <4>7 DEF WorkerInv
    <3>2. ASSUME NEW u \in Uuids, PushInsert(c, u) PROVE WorkerInv'
      <4>1. want[c][1] # Nobody
        BY NobodyAssumption DEF TypeOK
      <4>2. /\ url'[u] # Nobody
            /\ \A x \in Uuids \ {u} : url'[x] = url[x]
        BY <3>2, <4>1 DEF PushInsert, TypeOK
      <4>3. /\ cpc[c] = "insert" /\ cpc'[c] = "idle"
            /\ \A d \in Callers \ {c} : cpc'[d] = cpc[d]
        BY <3>2 DEF PushInsert, GotoCaller, TypeOK
      <4> QED
        BY <3>2, <4>2, <4>3, WorkerPush DEF PushInsert
    <3>3. ASSUME NEW u \in Uuids, RemoveFind(c, u) PROVE WorkerInv'
      <4>1. /\ cpc[c] = "idle" /\ cpc'[c] \in {"unlock", "delete"}
            /\ \A d \in Callers \ {c} : cpc'[d] = cpc[d] /\ target'[d] = target[d]
            /\ target'[c] = u
        BY <3>3 DEF RemoveFind, GotoCaller, TypeOK
      <4>2. Drawn(u)
        BY <3>3 DEF RemoveFind, WorkerInv
      <4> QED
        BY <3>3, <4>1, <4>2, WorkerRemove DEF RemoveFind
    <3>4. CASE \/ RemoveUnlock(c) \/ RemoveDecrease(c)
               \/ RemoveReinsert(c) \/ RemoveDelete(c)
      <4>1. /\ cpc[c] \in {"unlock", "decrease", "reinsert", "delete"}
            /\ \A d \in Callers \ {c} : cpc'[d] = cpc[d]
            /\ cpc'[c] \notin {"idle", "insert"} \/ target[c] \notin streams'
        BY <3>4 DEF RemoveUnlock, RemoveDecrease, RemoveReinsert, RemoveDelete,
                    GotoCaller, TypeOK
      <4>2. /\ target[c] \in Uuids
            /\ Drawn(target[c])
        BY <4>1 DEF WorkerInv, Removing, TypeOK
      <4>3. \A u \in Uuids \ {target[c]} : u \in streams' <=> u \in streams
        BY <3>4 DEF RemoveUnlock, RemoveDecrease, RemoveReinsert, RemoveDelete
      <4>4. \A u \in Uuids \ {target[c]} : runLock'[u] = runLock[u]
        BY <3>4, <4>2, RunUnlockClears
           DEF RemoveUnlock, RemoveDecrease, RemoveReinsert, RemoveDelete
      <4>5. UNCHANGED <<url, suuid, vpc, wpc, target>>
        BY <3>4 DEF RemoveUnlock, RemoveDecrease, RemoveReinsert, RemoveDelete
      <4> QED
        BY <4>1, <4>2, <4>3, <4>4, <4>5, WorkerRemove
    <3> QED
      BY <2>1, <3>1, <3>2, <3>3, <3>4 DEF CallerStep
  <2>2. ASSUME NEW v \in Viewers, NEW u \in Uuids,
               Request(v, u) \/ DeadlineFails(v, u)
        PROVE  WorkerInv'
    <4>1. vpc[v] = "idle" /\ wpc[v] = "none"
      BY <2>2 DEF Request, DeadlineFails, GotoViewer, WorkerInv, NotRunYet
    <4>2. \A x \in Uuids, w \in Viewers : WorksOn(w, x)' <=> WorksOn(w, x)
      BY <2>2, <4>1 DEF Request, DeadlineFails, WorksOn, At, TypeOK
    <4>3. \A w \in Viewers : vpc'[w] \in NotRunYet => wpc'[w] = "none"
      BY <2>2, <4>1 DEF Request, DeadlineFails, GotoViewer, WorkerInv, TypeOK
    <4>4. UNCHANGED <<streams, url, runLock, cpc, target>>
      BY <2>2 DEF Request, DeadlineFails
    <4> QED
      BY <4>2, <4>3, <4>4 DEF WorkerInv, OneWorkerPerStream, LockIffWorker, Settled,
                              Removing, Drawn
  <2>3. ASSUME NEW v \in Viewers, Run(v) PROVE WorkerInv'
    <4> DEFINE u == At(v)
               start == u \in streams /\ ~runLock[u]
    <4>1. /\ vpc[v] = "run" /\ wpc[v] = "none" /\ u \in Uuids
          /\ vpc'[v] = "clAd" /\ \A w \in Viewers \ {v} : vpc'[w] = vpc[w]
      BY <2>3 DEF Run, GotoViewer, WorkerInv, NotRunYet, TypeOK, At
    <4>2. UNCHANGED <<streams, url, suuid, cpc, target>>
      BY <2>3 DEF Run
    <4>3. /\ \A w \in Viewers \ {v} : wpc'[w] = wpc[w]
          /\ wpc'[v] = IF start THEN "dial" ELSE "none"
      BY <2>3, <4>1 DEF Run, TypeOK
    <4>4. /\ \A x \in Uuids \ {u} : runLock'[x] = runLock[x]
          /\ runLock'[u] <=> runLock[u] \/ start
      BY <2>3, <4>1 DEF Run, TypeOK
    <4> HIDE DEF u
    <4>5. u = At(v) /\ u' = u
      BY <4>2 DEF u, At
    <4>6. CASE start
      <5>1. /\ \A x \in Uuids, w \in Viewers \ {v} : WorksOn(w, x)' <=> WorksOn(w, x)
            /\ \A x \in Uuids : WorksOn(v, x)' <=> x = u
            /\ runLock'[u] /\ Drawn(u)
        BY <4>1, <4>2, <4>3, <4>4, <4>5, <4>6 DEF WorksOn, At, WorkerInv
      <5>2. \A w \in Viewers : vpc'[w] \in NotRunYet => wpc'[w] = "none"
        BY <4>1, <4>3 DEF WorkerInv, NotRunYet
      <5>3. \A x \in Uuids : Settled(x)' <=> Settled(x)
        BY <4>2 DEF Settled, Removing
      <5>4. \A x \in Uuids : ~WorksOn(v, x)
        BY <4>1 DEF WorksOn
      <5>5. Settled(u) => \A w \in Viewers : ~WorksOn(w, u)
        BY <4>1, <4>6 DEF WorkerInv, LockIffWorker
      <5>6. OneWorkerPerStream'
        BY <5>1, <5>3, <5>5 DEF WorkerInv, OneWorkerPerStream
      <5>7. LockIffWorker'
        BY <4>4, <5>1, <5>3, <5>4 DEF WorkerInv, LockIffWorker
      <5>8. ASSUME NEW x \in Uuids, ~Drawn(x)'
            PROVE  /\ x \notin streams' /\ ~runLock'[x] /\ ~Removing(x)'
                   /\ \A w \in Viewers : ~WorksOn(w, x)'
        BY <4>2, <4>4, <5>1, <5>4, <5>8 DEF WorkerInv, Drawn, Removing
      <5> QED
        BY <5>2, <5>6, <5>7, <5>8 DEF WorkerInv
    <4>7. CASE ~start
      <5>1. wpc' = wpc /\ runLock' = runLock
        BY <2>3, <4>1, <4>5, <4>7 DEF Run, TypeOK
      <5> QED
        BY <4>1, <4>2, <5>1, WorkerFrame DEF NotRunYet
    <4> QED BY <4>6, <4>7
  <2>4. ASSUME NEW v \in Viewers, SessionStep(v), ~Run(v) PROVE WorkerInv'
    <3>1. UNCHANGED <<streams, url, runLock, suuid, cpc, target, wpc>>
      BY <2>4 DEF SessionStep, Increase, ClAd, CoGe, InitLock, Play, InitFail,
           FailDecrease, Receive, ReceiveFail, TimerFires, ClDe, Decrease
    <3>2. \A x \in Viewers : vpc'[x] \in NotRunYet => vpc[x] \in NotRunYet
      BY <2>4 DEF SessionStep, Increase, ClAd, CoGe, InitLock, Play, InitFail,
           FailDecrease, Receive, ReceiveFail, TimerFires, ClDe, Decrease,
           GotoViewer, NotRunYet, TypeOK
    <3> QED
      BY <3>1, <3>2, WorkerFrame
  <2>5. ASSUME NEW v \in Viewers, ReaderFails(v) \/ StatusSocket(v) PROVE WorkerInv'
    <3>1. UNCHANGED <<streams, url, runLock, suuid, cpc, target, wpc>>
      BY <2>5 DEF ReaderFails, StatusSocket
    <3>2. \A x \in Viewers : vpc'[x] \in NotRunYet => vpc[x] \in NotRunYet
      BY <2>5 DEF ReaderFails, StatusSocket, GotoViewer, NotRunYet, TypeOK
    <3> QED
      BY <3>1, <3>2, WorkerFrame
  <2>6. ASSUME NEW w \in Viewers, WorkerStep(w) PROVE WorkerInv'
    <3>0. UNCHANGED <<streams, url, suuid, cpc, target, vpc>> /\ At(w) \in Uuids
      BY <2>6 DEF WorkerStep, DialFails, NoCodecs, Connect, LockCheck, ConnectGet,
           WorkerUnlock, ReadError, ReadAudio, ReadVideo, Cast, TypeOK, At
    <3>1. ASSUME wpc[w] # "none", wpc' = [wpc EXCEPT ![w] = "none"],
                 RunUnlock(At(w))
          PROVE  WorkerInv'
      BY <3>0, <3>1, RunUnlockClears, WorkerExit
    <3>2. ASSUME wpc[w] # "none", NEW to, to # "none", wpc' = [wpc EXCEPT ![w] = to],
                 UNCHANGED runLock
          PROVE  WorkerInv'
      <4>1. \A x \in Viewers : wpc'[x] = "none" <=> wpc[x] = "none"
        BY <3>2 DEF TypeOK
      <4> QED
        BY <3>0, <3>2, <4>1, WorkerFrame
    <3>3. CASE DialFails(w)
      BY <3>1, <3>3 DEF DialFails, GotoWorker
    <3>4. CASE NoCodecs(w)
      BY <3>1, <3>2, <3>4 DEF NoCodecs, GotoWorker
    <3>5. CASE Connect(w)
      BY <3>2, <3>5 DEF Connect, GotoWorker
    <3>6. CASE LockCheck(w)
      <4>1. wpc[w] = "lockCheck" /\ UNCHANGED runLock
        BY <3>6 DEF LockCheck, GotoWorker
      <4>2. CASE runLock[At(w)]
        BY <3>2, <3>6, <4>1, <4>2 DEF LockCheck, GotoWorker
      <4>3. CASE ~runLock[At(w)]
        BY <3>0, <3>6, <4>1, <4>3, WorkerExit DEF LockCheck, GotoWorker
      <4> QED BY <4>2, <4>3
    <3>7. CASE ConnectGet(w)
      BY <3>2, <3>7 DEF ConnectGet, GotoWorker
    <3>8. CASE WorkerUnlock(w)
      BY <3>1, <3>8 DEF WorkerUnlock, GotoWorker
    <3>9. CASE ReadError(w) \/ ReadAudio(w) \/ ReadVideo(w) \/ Cast(w)
      BY <3>2, <3>9 DEF ReadError, ReadAudio, ReadVideo, Cast, GotoWorker
    <3> QED
      BY <2>6, <3>3, <3>4, <3>5, <3>6, <3>7, <3>8, <3>9 DEF WorkerStep
  <2>7. CASE MapRace \/ UNCHANGED vars
    BY <2>7, WorkerFrame DEF MapRace, vars
  <2> QED
    BY <2>1, <2>2, <2>3, <2>4, <2>5, <2>6, <2>7 DEF Next
<1> QED
  BY TypeCorrect, <1>1, <1>2, PTL DEF Spec

\* A session is in Stream.Cl, with its channel open, exactly from clAd to clDe,
\* also when the stream is removed in between.
THEOREM ChannelInvariant == Spec => []ChannelInv
<1> USE DEF CallerPCs, ViewerPCs, At, NotRegisteredYet, RegisteredPCs,
            regVars, callerVars, viewerVars, workerVars
<1>1. Init => ChannelInv
  BY DEF Init, ChannelInv
<1>2. TypeOK /\ ChannelInv /\ [Next]_vars => ChannelInv'
  <2> SUFFICES ASSUME TypeOK, ChannelInv, [Next]_vars PROVE ChannelInv'
    OBVIOUS
  <2> USE DEF TypeOK, ChannelInv
  <2>1. ASSUME NEW c \in Callers, CallerStep(c) PROVE ChannelInv'
    <3>1. ASSUME NEW a \in Urls, NEW t \in PushKinds, PushFind(c, a, t) PROVE ChannelInv'
      BY <3>1 DEF PushFind, GotoCaller
    <3>2. ASSUME NEW u \in Uuids, PushInsert(c, u) PROVE ChannelInv'
      BY <3>2 DEF PushInsert, GotoCaller
    <3>3. ASSUME NEW u \in Uuids, RemoveFind(c, u) PROVE ChannelInv'
      BY <3>3 DEF RemoveFind, GotoCaller
    <3>4. ASSUME RemoveUnlock(c) PROVE ChannelInv'
      BY <3>4 DEF RemoveUnlock, GotoCaller
    <3>5. ASSUME RemoveDecrease(c) PROVE ChannelInv'
      BY <3>5 DEF RemoveDecrease, GotoCaller
    <3>6. ASSUME RemoveReinsert(c) PROVE ChannelInv'
      BY <3>6 DEF RemoveReinsert, GotoCaller
    <3>7. ASSUME RemoveDelete(c) PROVE ChannelInv'
      BY <3>7 DEF RemoveDelete, GotoCaller
    <3> HIDE DEF ChannelInv
    <3> QED BY <2>1, <3>1, <3>2, <3>3, <3>4, <3>5, <3>6, <3>7 DEF CallerStep
  <2>2. ASSUME NEW v \in Viewers, SessionStep(v) PROVE ChannelInv'
    <3>1. ASSUME Increase(v) PROVE ChannelInv'
      BY <3>1 DEF Increase, GotoViewer
    <3>2. ASSUME Run(v) PROVE ChannelInv'
      BY <3>2 DEF Run, GotoViewer
    <3>3. ASSUME ClAd(v) PROVE ChannelInv'
      <4>1. CASE At(v) \in streams
        <5>1. /\ suuid' = suuid /\ suuid[v] \in Uuids
              /\ vpc[v] = "clAd" /\ vpc'[v] = "coGe"
              /\ \A x \in Viewers \ {v} : vpc'[x] = vpc[x] /\ chan'[x] = chan[x]
              /\ chan'[v] = "open"
          BY <3>3, <4>1 DEF ClAd, GotoViewer
        <5>2. /\ cl'[suuid[v]] = cl[suuid[v]] \union {v}
              /\ \A x \in Uuids \ {suuid[v]} : cl'[x] = cl[x]
          BY <3>3, <4>1, <5>1 DEF ClAd
        <5>3. ASSUME NEW x \in Viewers, NEW u \in Uuids
              PROVE  /\ x \in cl'[u] <=> x \in cl[u] \/ (x = v /\ u = suuid[v])
                     /\ x # v => vpc'[x] = vpc[x] /\ chan'[x] = chan[x]
          BY <5>1, <5>2
        <5>4. \A x \in Viewers : vpc'[x] \in NotRegisteredYet => \A u \in Uuids : x \notin cl'[u]
          BY <5>1, <5>3
        <5>5. \A x \in Viewers : vpc'[x] \in RegisteredPCs => x \in cl'[suuid'[x]]
          BY <5>1, <5>3
        <5>6. \A u \in Uuids, x \in Viewers :
                x \in cl'[u] => chan'[x] = "open" /\ suuid'[x] = u
          BY <5>1, <5>3
        <5> QED BY <5>4, <5>5, <5>6
      <4>2. CASE At(v) \notin streams
        <5>1. /\ suuid' = suuid /\ cl' = cl /\ chan' = chan
              /\ vpc[v] = "clAd" /\ vpc'[v] = "decrease"
              /\ \A x \in Viewers \ {v} : vpc'[x] = vpc[x]
          BY <3>3, <4>2 DEF ClAd, GotoViewer
        <5> QED BY <5>1
      <4> QED BY <4>1, <4>2
    <3>4. ASSUME NEW found \in BOOLEAN, CoGe(v, found) PROVE ChannelInv'
      BY <3>4 DEF CoGe, GotoViewer
    <3>5. ASSUME InitLock(v) PROVE ChannelInv'
      BY <3>5 DEF InitLock, GotoViewer
    <3>6. ASSUME Play(v) PROVE ChannelInv'
      BY <3>6 DEF Play, GotoViewer
    <3>7. ASSUME InitFail(v) PROVE ChannelInv'
      BY <3>7 DEF InitFail, GotoViewer
    <3>8. ASSUME FailDecrease(v) PROVE ChannelInv'
      BY <3>8 DEF FailDecrease, GotoViewer
    <3>9. ASSUME NEW sent \in BOOLEAN, Receive(v, sent) PROVE ChannelInv'
      BY <3>9 DEF Receive, GotoViewer
    <3>10. ASSUME ReceiveFail(v) PROVE ChannelInv'
      BY <3>10 DEF ReceiveFail, GotoViewer
    <3>11. ASSUME TimerFires(v) PROVE ChannelInv'
      BY <3>11 DEF TimerFires, GotoViewer
    <3>12. ASSUME ClDe(v) PROVE ChannelInv'
      <4>1. CASE At(v) \in streams
        <5>1. /\ suuid' = suuid /\ suuid[v] \in Uuids
              /\ vpc[v] = "clDe" /\ vpc'[v] = "decrease"
              /\ \A x \in Viewers \ {v} : vpc'[x] = vpc[x] /\ chan'[x] = chan[x]
          BY <3>12, <4>1 DEF ClDe, GotoViewer
        <5>2. /\ cl'[suuid[v]] = cl[suuid[v]] \ {v}
              /\ \A x \in Uuids \ {suuid[v]} : cl'[x] = cl[x]
          BY <3>12, <4>1, <5>1 DEF ClDe
        <5>3. ASSUME NEW x \in Viewers, NEW u \in Uuids
              PROVE  /\ x \in cl'[u] <=> x \in cl[u] /\ ~(x = v /\ u = suuid[v])
                     /\ x # v => vpc'[x] = vpc[x] /\ chan'[x] = chan[x]
          BY <5>1, <5>2
        <5>4. \A x \in Viewers : vpc'[x] \in NotRegisteredYet => \A u \in Uuids : x \notin cl'[u]
          BY <5>1, <5>3
        <5>5. \A x \in Viewers : vpc'[x] \in RegisteredPCs => x \in cl'[suuid'[x]]
          BY <5>1, <5>3
        <5>6. \A u \in Uuids, x \in Viewers :
                x \in cl'[u] => chan'[x] = "open" /\ suuid'[x] = u
          BY <5>1, <5>3
        <5> QED BY <5>4, <5>5, <5>6
      <4>2. CASE At(v) \notin streams
        BY <3>12, <4>2 DEF ClDe, GotoViewer
      <4> QED BY <4>1, <4>2
    <3>13. ASSUME Decrease(v) PROVE ChannelInv'
      BY <3>13 DEF Decrease, GotoViewer
    <3> HIDE DEF ChannelInv
    <3> QED BY <2>2, <3>1, <3>2, <3>3, <3>4, <3>5, <3>6, <3>7, <3>8, <3>9, <3>10, <3>11, <3>12, <3>13 DEF SessionStep
  <2>3. ASSUME NEW w \in Viewers, WorkerStep(w) PROVE ChannelInv'
    <3>1. ASSUME DialFails(w) PROVE ChannelInv'
      BY <3>1 DEF DialFails, GotoWorker
    <3>2. ASSUME NoCodecs(w) PROVE ChannelInv'
      <4>1. CASE kind[At(w)] = "rtsp"
        BY <3>2, <4>1 DEF NoCodecs, GotoWorker
      <4>2. CASE ~(kind[At(w)] = "rtsp")
        BY <3>2, <4>2 DEF NoCodecs, GotoWorker
      <4> QED BY <4>1, <4>2
    <3>3. ASSUME Connect(w) PROVE ChannelInv'
      BY <3>3 DEF Connect, GotoWorker
    <3>4. ASSUME LockCheck(w) PROVE ChannelInv'
      BY <3>4 DEF LockCheck, GotoWorker
    <3>5. ASSUME ConnectGet(w) PROVE ChannelInv'
      BY <3>5 DEF ConnectGet, GotoWorker
    <3>6. ASSUME WorkerUnlock(w) PROVE ChannelInv'
      BY <3>6 DEF WorkerUnlock, GotoWorker
    <3>7. ASSUME ReadError(w) PROVE ChannelInv'
      BY <3>7 DEF ReadError, GotoWorker
    <3>8. ASSUME ReadAudio(w) PROVE ChannelInv'
      BY <3>8 DEF ReadAudio, GotoWorker
    <3>9. ASSUME ReadVideo(w) PROVE ChannelInv'
      BY <3>9 DEF ReadVideo, GotoWorker
    <3>10. ASSUME Cast(w) PROVE ChannelInv'
      BY <3>10 DEF Cast, GotoWorker
    <3> HIDE DEF ChannelInv
    <3> QED BY <2>3, <3>1, <3>2, <3>3, <3>4, <3>5, <3>6, <3>7, <3>8, <3>9, <3>10 DEF WorkerStep
  <2>4. ASSUME NEW v \in Viewers, NEW u \in Uuids,
               Request(v, u) \/ DeadlineFails(v, u)
        PROVE  ChannelInv'
    <3>1. CASE Request(v, u)
      BY <3>1 DEF Request, GotoViewer
    <3>2. CASE DeadlineFails(v, u)
      BY <3>2 DEF DeadlineFails, GotoViewer
    <3> QED BY <2>4, <3>1, <3>2
  <2>5. ASSUME NEW v \in Viewers, ReaderFails(v) PROVE ChannelInv'
    BY <2>5 DEF ReaderFails, GotoViewer
  <2>6. ASSUME NEW v \in Viewers, StatusSocket(v) PROVE ChannelInv'
    BY <2>6 DEF StatusSocket, GotoViewer
  <2>7. CASE MapRace
    BY <2>7 DEF MapRace
  <2>8. CASE UNCHANGED vars
    BY <2>8 DEF vars
  <2> HIDE DEF ChannelInv
  <2> QED BY <2>1, <2>2, <2>3, <2>4, <2>5, <2>6, <2>7, <2>8 DEF Next
<1> QED
  BY TypeCorrect, <1>1, <1>2, PTL DEF Spec

\* A settled stream never has two workers.
THEOREM OneWorker == Spec => []OneWorkerPerStream
<1>1. WorkerInv => OneWorkerPerStream
  BY DEF WorkerInv
<1> QED BY WorkerInvariant, <1>1, PTL

\* RunLock of a settled stream is set exactly while a worker runs for it.
THEOREM LockFollowsWorker == Spec => []LockIffWorker
<1>1. WorkerInv => LockIffWorker
  BY DEF WorkerInv
<1> QED BY WorkerInvariant, <1>1, PTL

\* cast only ever sends on an open channel, and clDe finds the one it closes.
THEOREM ChannelsOpen == Spec => []RegisteredChannelsOpen
<1>1. ChannelInv => RegisteredChannelsOpen
  BY DEF ChannelInv, RegisteredChannelsOpen, RegisteredPCs
<1> QED BY ChannelInvariant, <1>1, PTL

-----------------------------------------------------------------------------
(* CountConnect.                                                           *)

\* Two sets that differ in one element at most: their sizes differ by that element.
LEMMA CardinalityMove ==
  ASSUME NEW S, NEW T, NEW x, IsFiniteSet(S), S \ {x} = T \ {x}
  PROVE  /\ IsFiniteSet(T)
         /\ Cardinality(S) \in Nat /\ Cardinality(T) \in Nat
         /\ Cardinality(T) + (IF x \in S THEN 1 ELSE 0)
              = Cardinality(S) + (IF x \in T THEN 1 ELSE 0)
<1> DEFINE R == S \ {x}
<1>1. /\ IsFiniteSet(R)
      /\ Cardinality(S) \in Nat
      /\ Cardinality(R) = IF x \in S THEN Cardinality(S) - 1 ELSE Cardinality(S)
  BY FS_RemoveElement, FS_CardinalityType
<1>2. x \notin R /\ R = T \ {x}
  OBVIOUS
<1>3. Cardinality(R) \in Nat
  BY <1>1, FS_CardinalityType
<1> HIDE DEF R
<1>4. CASE x \in T
  <2>1. T = R \union {x}
    BY <1>2, <1>4
  <2>2. IsFiniteSet(T) /\ Cardinality(T) = Cardinality(R) + 1
    BY <1>1, <1>2, <2>1, FS_AddElement
  <2> QED BY <1>1, <1>3, <1>4, <2>2
<1>5. CASE x \notin T
  <2>1. T = R
    BY <1>2, <1>5
  <2> QED BY <1>1, <1>3, <1>5, <2>1, FS_CardinalityType
<1> QED BY <1>4, <1>5

\* Nothing that the ledger of a settled stream reads has changed.
LEMMA LedgerFrame ==
  ASSUME CountLedger, IsFiniteSet(Started),
         UNCHANGED <<suuid, vpc, chan, rpc>>,
         \A u \in Uuids : Settled(u)' =>
           \/ Settled(u) /\ count'[u] = count[u]
           \/ count'[u] = 0 /\ \A v \in Viewers : At(v) = u => vpc[v] = "idle"
  PROVE  CountLedger' /\ IsFiniteSet(Started')
<1>1. Started' = Started
  BY DEF Started
<1>2. \A u \in Uuids : CountedAt(u)' = CountedAt(u) /\ NeverPlayedAt(u)' = NeverPlayedAt(u)
  BY DEF CountedAt, NeverPlayedAt, Counted, NeverPlayed, At
<1>3. ASSUME NEW u \in Uuids, Settled(u)'
      PROVE  count'[u] = Cardinality(CountedAt(u)') - Cardinality(NeverPlayedAt(u)')
  <2>1. CASE Settled(u) /\ count'[u] = count[u]
    BY <1>2, <2>1 DEF CountLedger
  <2>2. CASE count'[u] = 0 /\ \A v \in Viewers : At(v) = u => vpc[v] = "idle"
    <3>1. CountedAt(u) = {} /\ NeverPlayedAt(u) = {}
      BY <2>2 DEF CountedAt, NeverPlayedAt, Counted, NeverPlayed
    <3> QED BY <1>2, <2>2, <3>1, FS_EmptySet
  <2> QED BY <1>3, <2>1, <2>2
<1> QED BY <1>1, <1>3 DEF CountLedger

\* A step of one session that has begun: the ledger of its stream balances if the
\* count moves by what the session's being counted and having failed move by.
LEMMA LedgerMove ==
  ASSUME TypeOK, CountLedger, IsFiniteSet(Started), NEW v \in Viewers,
         \A w \in Viewers \ {v} :
           vpc'[w] = vpc[w] /\ chan'[w] = chan[w] /\ rpc'[w] = rpc[w],
         UNCHANGED <<streams, suuid, cpc, target>>,
         \A x \in Uuids \ {At(v)} : count'[x] = count[x],
         vpc[v] # "idle",
         Settled(At(v)) =>
           count'[At(v)]
             + (IF Counted(v) THEN 1 ELSE 0) + (IF NeverPlayed(v)' THEN 1 ELSE 0)
           = count[At(v)]
             + (IF Counted(v)' THEN 1 ELSE 0) + (IF NeverPlayed(v) THEN 1 ELSE 0),
         count' \in [Uuids -> Int]
  PROVE  CountLedger' /\ IsFiniteSet(Started')
<1>0. /\ v \in Started
      /\ \A x \in Uuids : Settled(x)' => Settled(x)
      /\ At(v) \in Uuids /\ At(v)' = At(v)
      /\ \A w \in Viewers : At(w)' = At(w)
  BY DEF Started, Settled, Removing, At, TypeOK
<1>1. IsFiniteSet(Started')
  <2>1. Started' \in SUBSET Started
    BY <1>0 DEF Started
  <2> QED BY <2>1, FS_Subset
<1>2. \A x \in Uuids : /\ CountedAt(x) \subseteq Started
                       /\ NeverPlayedAt(x) \subseteq Started
  BY DEF CountedAt, NeverPlayedAt, Counted, NeverPlayed, Started
<1>3. \A x \in Uuids : IsFiniteSet(CountedAt(x)) /\ IsFiniteSet(NeverPlayedAt(x))
  BY <1>2, FS_Subset
<1>4. \A w \in Viewers \ {v} : /\ Counted(w)' <=> Counted(w)
                               /\ NeverPlayed(w)' <=> NeverPlayed(w)
  BY DEF Counted, NeverPlayed
<1>5. ASSUME NEW x \in Uuids, Settled(x)'
      PROVE  count'[x] = Cardinality(CountedAt(x)') - Cardinality(NeverPlayedAt(x)')
  <2>1. count[x] = Cardinality(CountedAt(x)) - Cardinality(NeverPlayedAt(x))
    BY <1>0, <1>5 DEF CountLedger
  <2>2. CASE x # At(v)
    <3>1. CountedAt(x)' = CountedAt(x) /\ NeverPlayedAt(x)' = NeverPlayedAt(x)
      BY <1>0, <1>4, <2>2 DEF CountedAt, NeverPlayedAt
    <3> QED BY <2>1, <2>2, <3>1
  <2>3. CASE x = At(v)
    <3>1. /\ CountedAt(x) \ {v} = CountedAt(x)' \ {v}
          /\ NeverPlayedAt(x) \ {v} = NeverPlayedAt(x)' \ {v}
      BY <1>0, <1>4 DEF CountedAt, NeverPlayedAt
    <3>2. /\ v \in CountedAt(x) <=> Counted(v)
          /\ v \in CountedAt(x)' <=> Counted(v)'
          /\ v \in NeverPlayedAt(x) <=> NeverPlayed(v)
          /\ v \in NeverPlayedAt(x)' <=> NeverPlayed(v)'
      BY <1>0, <2>3 DEF CountedAt, NeverPlayedAt
    <3>3. /\ Cardinality(CountedAt(x)) \in Nat /\ Cardinality(CountedAt(x)') \in Nat
          /\ Cardinality(CountedAt(x)') + (IF Counted(v) THEN 1 ELSE 0)
               = Cardinality(CountedAt(x)) + (IF Counted(v)' THEN 1 ELSE 0)
      BY <1>3, <3>1, <3>2, CardinalityMove
    <3>4. /\ Cardinality(NeverPlayedAt(x)) \in Nat /\ Cardinality(NeverPlayedAt(x)') \in Nat
          /\ Cardinality(NeverPlayedAt(x)') + (IF NeverPlayed(v) THEN 1 ELSE 0)
               = Cardinality(NeverPlayedAt(x)) + (IF NeverPlayed(v)' THEN 1 ELSE 0)
      BY <1>3, <3>1, <3>2, CardinalityMove
    <3>5. count'[x]
             + (IF Counted(v) THEN 1 ELSE 0) + (IF NeverPlayed(v)' THEN 1 ELSE 0)
           = count[x]
             + (IF Counted(v)' THEN 1 ELSE 0) + (IF NeverPlayed(v) THEN 1 ELSE 0)
      BY <1>0, <1>5, <2>3
    <3>6. count[x] \in Int /\ count'[x] \in Int
      BY DEF TypeOK
    <3> QED BY <2>1, <3>3, <3>4, <3>5, <3>6
  <2> QED BY <2>2, <2>3
<1> QED BY <1>1, <1>5 DEF CountLedger

\* What one step of a session, or of its reader goroutine, does: it keeps to its
\* own state and the count of its stream, and moves that count exactly as its being
\* counted and its having failed move.
LEMMA SessionMoves ==
  ASSUME TypeOK, SessionInv, NEW v \in Viewers,
         SessionStep(v) \/ ReaderFails(v) \/ StatusSocket(v)
  PROVE  /\ UNCHANGED <<streams, url, cpc, target, suuid>>
         /\ vpc[v] # "idle" /\ vpc'[v] # "idle"
         /\ \A x \in Uuids \ {At(v)} : count'[x] = count[x]
         /\ \A w \in Viewers \ {v} :
              vpc'[w] = vpc[w] /\ chan'[w] = chan[w] /\ rpc'[w] = rpc[w]
         /\ vpc'[v] \in NotRegisteredYet => chan'[v] = "none"
         /\ vpc'[v] \in RegisteredPCs
              => chan'[v] # "none"
         /\ vpc'[v] \in BeforePlay => rpc'[v] = "none"
         /\ vpc'[v] = "play" /\ v \in WsViewers => rpc'[v] # "none"
         /\ vpc'[v] = "failDecrease" => v \in WsViewers
         /\ At(v) \in streams =>
              count'[At(v)]
                + (IF Counted(v) THEN 1 ELSE 0) + (IF NeverPlayed(v)' THEN 1 ELSE 0)
              = count[At(v)]
                + (IF Counted(v)' THEN 1 ELSE 0) + (IF NeverPlayed(v) THEN 1 ELSE 0)
<1> DEFINE Moves ==
             /\ UNCHANGED <<streams, url, cpc, target, suuid>>
             /\ vpc[v] # "idle" /\ vpc'[v] # "idle"
             /\ \A x \in Uuids \ {At(v)} : count'[x] = count[x]
             /\ \A w \in Viewers \ {v} :
                  vpc'[w] = vpc[w] /\ chan'[w] = chan[w] /\ rpc'[w] = rpc[w]
             /\ vpc'[v] \in NotRegisteredYet => chan'[v] = "none"
             /\ vpc'[v] \in RegisteredPCs
                  => chan'[v] # "none"
             /\ vpc'[v] \in BeforePlay => rpc'[v] = "none"
             /\ vpc'[v] = "play" /\ v \in WsViewers => rpc'[v] # "none"
             /\ vpc'[v] = "failDecrease" => v \in WsViewers
             /\ At(v) \in streams =>
                  count'[At(v)]
                    + (IF Counted(v) THEN 1 ELSE 0) + (IF NeverPlayed(v)' THEN 1 ELSE 0)
                  = count[At(v)]
                    + (IF Counted(v)' THEN 1 ELSE 0) + (IF NeverPlayed(v) THEN 1 ELSE 0)
<1>0. /\ At(v) \in Uuids /\ count[At(v)] \in Int
      /\ vpc[v] \in NotRegisteredYet => chan[v] = "none"
      /\ vpc[v] \in RegisteredPCs => chan[v] # "none"
      /\ vpc[v] \in BeforePlay => rpc[v] = "none"
      /\ vpc[v] = "play" /\ v \in WsViewers => rpc[v] # "none"
      /\ vpc[v] = "failDecrease" => v \in WsViewers
  BY DEF TypeOK, SessionInv, At
<1> USE <1>0 DEF TypeOK, At, NotRegisteredYet, RegisteredPCs, BeforePlay, Counted, NeverPlayed,
        GotoViewer, regVars, callerVars, viewerVars, workerVars
<1>1. CASE Increase(v)
  BY <1>1 DEF Increase, connectIncrease, connectAdd
<1>2. CASE Run(v)
  BY <1>2 DEF Run
<1>3. CASE ClAd(v)
  <2>1. CASE At(v) \in streams
    BY <1>3, <2>1 DEF ClAd
  <2>2. CASE At(v) \notin streams
    BY <1>3, <2>2 DEF ClAd
  <2> QED BY <2>1, <2>2
<1>4. CASE \E found \in BOOLEAN : CoGe(v, found)
  BY <1>4 DEF CoGe
<1>5. CASE InitLock(v)
  BY <1>5 DEF InitLock
<1>6. CASE Play(v)
  BY <1>6 DEF Play
<1>7. CASE InitFail(v)
  BY <1>7 DEF InitFail
<1>8. CASE FailDecrease(v)
  BY <1>8 DEF FailDecrease, connectDecrease, connectAdd
<1>9. CASE \E sent \in BOOLEAN : Receive(v, sent)
  BY <1>9 DEF Receive
<1>10. CASE ReceiveFail(v)
  BY <1>10 DEF ReceiveFail
<1>11. CASE TimerFires(v)
  BY <1>11 DEF TimerFires
<1>12. CASE ClDe(v)
  <2>1. CASE At(v) \in streams
    <3>1. /\ vpc[v] = "clDe" /\ vpc' = [vpc EXCEPT ![v] = "decrease"]
          /\ chan' = [chan EXCEPT ![v] = "closed"]
          /\ UNCHANGED <<streams, url, count, cpc, target, suuid, rpc>>
      BY <1>12, <2>1 DEF ClDe
    <3> QED BY <3>1
  <2>2. CASE At(v) \notin streams
    BY <1>12, <2>2 DEF ClDe
  <2> QED BY <2>1, <2>2
<1>13. CASE Decrease(v)
  <2>1. CASE v \in WsViewers
    BY <1>13, <2>1 DEF Decrease, connectDecrease, connectAdd
  <2>2. CASE v \notin WsViewers
    BY <1>13, <2>2 DEF Decrease
  <2> QED BY <2>1, <2>2
<1>14. CASE ReaderFails(v)
  BY <1>14 DEF ReaderFails
<1>15. CASE StatusSocket(v)
  BY <1>15 DEF StatusSocket
<1> QED
  BY <1>1, <1>2, <1>3, <1>4, <1>5, <1>6, <1>7, <1>8, <1>9, <1>10, <1>11, <1>12,
     <1>13, <1>14, <1>15 DEF SessionStep

\* The session facts, handler by handler.
THEOREM SessionInvariant == Spec => []SessionInv
<1> USE DEF CallerPCs, ViewerPCs, At, NotRegisteredYet, RegisteredPCs, BeforePlay,
            regVars, callerVars, viewerVars, workerVars
<1>1. Init => SessionInv
  BY DEF Init, SessionInv, Drawn, Removing
<1>2. TypeOK /\ SessionInv /\ [Next]_vars => SessionInv'
  <2> SUFFICES ASSUME TypeOK, SessionInv, [Next]_vars PROVE SessionInv'
    OBVIOUS
  <2>1. ASSUME NEW c \in Callers, CallerStep(c) PROVE SessionInv'
    <3>1. ASSUME NEW a \in Urls, NEW t \in PushKinds, PushFind(c, a, t) PROVE SessionInv'
      BY <3>1 DEF PushFind, GotoCaller, TypeOK, SessionInv, Drawn, Removing
    <3>2. ASSUME NEW u \in Uuids, PushInsert(c, u) PROVE SessionInv'
      <4>1. want[c][1] # Nobody
        BY NobodyAssumption DEF TypeOK
      <4>2. /\ url'[u] # Nobody
            /\ \A x \in Uuids \ {u} : url'[x] = url[x]
        BY <3>2, <4>1 DEF PushInsert, TypeOK
      <4> QED
        BY <3>2, <4>2 DEF PushInsert, GotoCaller, TypeOK, SessionInv, Drawn, Removing
    <3>3. ASSUME NEW u \in Uuids, RemoveFind(c, u) PROVE SessionInv'
      BY <3>3 DEF RemoveFind, GotoCaller, TypeOK, SessionInv, Drawn, Removing
    <3>4. CASE \/ RemoveUnlock(c) \/ RemoveDecrease(c)
               \/ RemoveReinsert(c) \/ RemoveDelete(c)
      <4>1. /\ target[c] \in Uuids /\ Drawn(target[c])
            /\ \A u \in Uuids \ {target[c]} :
                 (u \in streams' <=> u \in streams) /\ count'[u] = count[u]
            /\ \A d \in Callers \ {c} : cpc'[d] = cpc[d]
            /\ UNCHANGED <<url, target, suuid, vpc, chan, rpc>>
        BY <3>4 DEF RemoveUnlock, RemoveDecrease, RemoveReinsert, RemoveDelete,
             connectDecrease, connectAdd, GotoCaller, TypeOK, SessionInv, Removing
      <4> QED
        BY <4>1 DEF SessionInv, Drawn, Removing
    <3> QED
      BY <2>1, <3>1, <3>2, <3>3, <3>4 DEF CallerStep
  <2>2. ASSUME NEW v \in Viewers, NEW u \in Uuids,
               Request(v, u) \/ DeadlineFails(v, u)
        PROVE  SessionInv'
    BY <2>2 DEF Request, DeadlineFails, GotoViewer, TypeOK, SessionInv, Drawn, Removing
  <2>3. ASSUME NEW v \in Viewers,
               SessionStep(v) \/ ReaderFails(v) \/ StatusSocket(v)
        PROVE  SessionInv'
    <3>1. vpc[v] # "idle" /\ Drawn(At(v))
      BY <2>3, SessionMoves DEF SessionInv, TypeOK
    <3>2. vpc'[v] # "idle" /\ At(v) \in Uuids
      BY <2>3, SessionMoves DEF TypeOK
    <3> QED
      BY <2>3, <3>1, <3>2, SessionMoves DEF SessionInv, Drawn, Removing
  <2>4. ASSUME NEW w \in Viewers, WorkerStep(w) PROVE SessionInv'
    <3>1. UNCHANGED <<streams, url, cpc, target, count, suuid, vpc, chan, rpc>>
      BY <2>4 DEF WorkerStep, DialFails, NoCodecs, Connect, LockCheck, ConnectGet,
           WorkerUnlock, ReadError, ReadAudio, ReadVideo, Cast
    <3> QED
      BY <3>1 DEF SessionInv, Drawn, Removing
  <2>5. CASE MapRace \/ UNCHANGED vars
    BY <2>5 DEF MapRace, vars, SessionInv, Drawn, Removing
  <2> QED
    BY <2>1, <2>2, <2>3, <2>4, <2>5 DEF Next
<1> QED
  BY TypeCorrect, <1>1, <1>2, PTL DEF Spec

\* CountConnect of a settled stream is exact at every step, whatever the sessions,
\* workers and callers do, for any number of them.
THEOREM LedgerInvariant == Spec => []LedgerInv
<1> USE DEF regVars, callerVars, viewerVars, workerVars
<1>1. Init => LedgerInv
  <2> SUFFICES ASSUME Init PROVE LedgerInv
    OBVIOUS
  <2>1. Started = {} /\ \A u \in Uuids : ~Settled(u)
    BY DEF Init, Started, Settled
  <2>2. SessionInv
    BY DEF Init, SessionInv, Drawn, Removing, NotRegisteredYet, RegisteredPCs, BeforePlay
  <2> QED BY <2>1, <2>2, FS_EmptySet DEF LedgerInv, CountLedger
<1>2. TypeOK /\ TypeOK' /\ SessionInv' /\ LedgerInv /\ [Next]_vars => LedgerInv'
  <2> SUFFICES ASSUME TypeOK, TypeOK', SessionInv', LedgerInv, [Next]_vars
               PROVE  CountLedger' /\ IsFiniteSet(Started')
    BY DEF LedgerInv
  <2>0. SessionInv /\ CountLedger /\ IsFiniteSet(Started)
    BY DEF LedgerInv
  <2>1. ASSUME NEW c \in Callers, CallerStep(c)
        PROVE  CountLedger' /\ IsFiniteSet(Started')
    <3>1. UNCHANGED <<suuid, vpc, chan, rpc>>
      BY <2>1 DEF CallerStep, PushFind, PushInsert, RemoveFind, RemoveUnlock,
           RemoveDecrease, RemoveReinsert, RemoveDelete
    <3>2. ASSUME NEW u \in Uuids, Settled(u)'
          PROVE  \/ Settled(u) /\ count'[u] = count[u]
                 \/ count'[u] = 0 /\ \A v \in Viewers : At(v) = u => vpc[v] = "idle"
      <4>1. CASE \E a \in Urls, t \in PushKinds : PushFind(c, a, t)
        BY <3>2, <4>1 DEF PushFind, GotoCaller, Settled, Removing, TypeOK
      <4>2. CASE \E x \in Uuids : PushInsert(c, x)
        <5>1. PICK x \in Uuids : PushInsert(c, x)
          BY <4>2
        <5>2. CASE u = x
          BY <2>0, <5>1, <5>2 DEF PushInsert, SessionInv
        <5>3. CASE u # x
          BY <3>2, <5>1, <5>3 DEF PushInsert, GotoCaller, Settled, Removing, TypeOK
        <5> QED BY <5>2, <5>3
      <4>3. CASE \E x \in Uuids : RemoveFind(c, x)
        BY <3>2, <4>3 DEF RemoveFind, GotoCaller, Settled, Removing, TypeOK
      <4>4. CASE \/ RemoveUnlock(c) \/ RemoveDecrease(c)
                 \/ RemoveReinsert(c) \/ RemoveDelete(c)
        <5>1. /\ cpc[c] \in {"unlock", "decrease", "reinsert", "delete"}
              /\ \A d \in Callers \ {c} : cpc'[d] = cpc[d]
              /\ cpc'[c] \notin {"idle", "insert"} \/ target[c] \notin streams'
              /\ target' = target /\ target[c] \in Uuids
              /\ \A x \in Uuids \ {target[c]} :
                   (x \in streams' <=> x \in streams) /\ count'[x] = count[x]
          BY <4>4 DEF RemoveUnlock, RemoveDecrease, RemoveReinsert, RemoveDelete,
               connectDecrease, connectAdd, GotoCaller, TypeOK
        <5>2. u # target[c]
          BY <3>2, <5>1 DEF Settled, Removing
        <5> QED BY <3>2, <5>1, <5>2 DEF Settled, Removing
      <4> QED BY <2>1, <4>1, <4>2, <4>3, <4>4 DEF CallerStep
    <3> QED BY <2>0, <3>1, <3>2, LedgerFrame
  <2>2. ASSUME NEW v \in Viewers, NEW u \in Uuids,
               Request(v, u) \/ DeadlineFails(v, u)
        PROVE  CountLedger' /\ IsFiniteSet(Started')
    <3>1. /\ vpc[v] = "idle" /\ rpc[v] = "none" /\ rpc' = rpc /\ suuid'[v] = u
          /\ \A w \in Viewers \ {v} : /\ vpc'[w] = vpc[w] /\ At(w)' = At(w)
                                      /\ rpc'[w] = rpc[w]
          /\ UNCHANGED <<streams, cpc, target, count>>
      BY <2>0, <2>2 DEF Request, DeadlineFails, GotoViewer, TypeOK, At, SessionInv,
           BeforePlay
    <3>2. \/ vpc'[v] = "increase"
          \/ vpc'[v] = "decrease" /\ u \notin streams
          \/ vpc'[v] = "decrease" /\ v \in WsViewers
      BY <2>2 DEF Request, DeadlineFails, GotoViewer, TypeOK
    <3>3. IsFiniteSet(Started')
      <4>1. Started' = Started \union {v}
        BY <3>1, <3>2 DEF Started
      <4> QED BY <2>0, <4>1, FS_AddElement
    <3>4. ASSUME NEW x \in Uuids, Settled(x)'
          PROVE  Settled(x) /\ x \in streams
      BY <3>1, <3>4 DEF Settled, Removing
    <3>5. ASSUME NEW x \in Uuids, Settled(x)'
          PROVE  count[x] = Cardinality(CountedAt(x)') - Cardinality(NeverPlayedAt(x)')
      <4>1. count[x] = Cardinality(CountedAt(x)) - Cardinality(NeverPlayedAt(x))
        BY <2>0, <3>4, <3>5 DEF CountLedger
      <4>2. \A w \in Viewers \ {v} :
              /\ (At(w) = x /\ Counted(w))' <=> At(w) = x /\ Counted(w)
              /\ (At(w) = x /\ NeverPlayed(w))' <=> At(w) = x /\ NeverPlayed(w)
        BY <3>1 DEF Counted, NeverPlayed, At
      <4>3. v \notin CountedAt(x) /\ v \notin NeverPlayedAt(x)
        BY <3>1 DEF CountedAt, NeverPlayedAt, Counted, NeverPlayed
      <4>4. CASE u = x /\ vpc'[v] = "decrease"
        <5>1. v \in WsViewers
          BY <3>2, <3>4, <3>5, <4>4
        <5>2. (At(v) = x /\ Counted(v) /\ NeverPlayed(v))'
          BY <3>1, <4>4, <5>1 DEF Counted, NeverPlayed, At
        <5>3. /\ CountedAt(x)' = CountedAt(x) \union {v}
              /\ NeverPlayedAt(x)' = NeverPlayedAt(x) \union {v}
          BY <4>2, <5>2 DEF CountedAt, NeverPlayedAt
        <5>4. CountedAt(x) \subseteq Started /\ NeverPlayedAt(x) \subseteq Started
          BY DEF CountedAt, NeverPlayedAt, Counted, NeverPlayed, Started
        <5>5. IsFiniteSet(CountedAt(x)) /\ IsFiniteSet(NeverPlayedAt(x))
          BY <2>0, <5>4, FS_Subset
        <5>6. /\ Cardinality(CountedAt(x)') = Cardinality(CountedAt(x)) + 1
              /\ Cardinality(NeverPlayedAt(x)') = Cardinality(NeverPlayedAt(x)) + 1
          BY <4>3, <5>3, <5>5, FS_AddElement
        <5>7. /\ Cardinality(CountedAt(x)) \in Nat
              /\ Cardinality(NeverPlayedAt(x)) \in Nat
          BY <5>5, FS_CardinalityType
        <5> QED BY <4>1, <5>6, <5>7
      <4>5. CASE ~(u = x /\ vpc'[v] = "decrease")
        <5>1. ~(At(v) = x /\ Counted(v))' /\ ~(At(v) = x /\ NeverPlayed(v))'
          BY <3>1, <3>2, <4>5 DEF Counted, NeverPlayed, At
        <5>2. /\ CountedAt(x)' = CountedAt(x)
              /\ NeverPlayedAt(x)' = NeverPlayedAt(x)
          BY <4>2, <4>3, <5>1 DEF CountedAt, NeverPlayedAt
        <5> QED BY <4>1, <5>2
      <4> QED BY <4>4, <4>5
    <3> QED BY <3>1, <3>3, <3>5 DEF CountLedger
  <2>3. ASSUME NEW v \in Viewers,
               SessionStep(v) \/ ReaderFails(v) \/ StatusSocket(v)
        PROVE  CountLedger' /\ IsFiniteSet(Started')
    <3>1. count' \in [Uuids -> Int]
      BY DEF TypeOK
    <3>2. Settled(At(v)) => At(v) \in streams
      BY DEF Settled
    <3> QED BY <2>0, <2>3, <3>1, <3>2, SessionMoves, LedgerMove
  <2>4. ASSUME NEW w \in Viewers, WorkerStep(w)
        PROVE  CountLedger' /\ IsFiniteSet(Started')
    <3>1. UNCHANGED <<streams, cpc, target, count, suuid, vpc, chan, rpc>>
      BY <2>4 DEF WorkerStep, DialFails, NoCodecs, Connect, LockCheck, ConnectGet,
           WorkerUnlock, ReadError, ReadAudio, ReadVideo, Cast
    <3> QED BY <2>0, <3>1, LedgerFrame DEF Settled, Removing
  <2>5. CASE MapRace \/ UNCHANGED vars
    <3>1. UNCHANGED <<streams, cpc, target, count, suuid, vpc, chan, rpc>>
      BY <2>5 DEF MapRace, vars
    <3> QED BY <2>0, <3>1, LedgerFrame DEF Settled, Removing
  <2> QED
    BY <2>1, <2>2, <2>3, <2>4, <2>5 DEF Next
<1> QED
  BY TypeCorrect, SessionInvariant, <1>1, <1>2, PTL DEF Spec

\* The count of a settled stream: what was counted, less the sessions that failed
\* before they played, each of which was uncounted once too often.
THEOREM LedgerExact == Spec => []CountLedger
<1>1. LedgerInv => CountLedger
  BY DEF LedgerInv
<1> QED BY LedgerInvariant, <1>1, PTL
=============================================================================
