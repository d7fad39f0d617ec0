\* Two callers push and remove one RTSP stream under a websocket session.
SPECIFICATION FairSpec
CONSTANTS
  Uuids = {u1}
  Urls = {a1}
  PushKinds = {"rtsp"}
  WsViewers = {w1}
  HttpViewers = {}
  Callers = {c1, c2}
  ChanCap = 1
  SocketsFail = TRUE
  MayRemove = TRUE
  Nobody = Nobody
INVARIANTS LockIffWorker RegisteredChannelsOpen
PROPERTIES RemovedWorkerStops UnwatchedWorkerStops
CHECK_DEADLOCK FALSE
