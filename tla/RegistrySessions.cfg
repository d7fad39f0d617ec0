\* A websocket and an HTTP session of one RTSP or RTMP stream; nothing is removed.
SPECIFICATION FairSpec
CONSTANTS
  Uuids = {u1}
  Urls = {a1}
  PushKinds = {"rtsp", "rtmp"}
  WsViewers = {w1}
  HttpViewers = {h1}
  Callers = {c1}
  ChanCap = 1
  SocketsFail = TRUE
  MayRemove = FALSE
  Nobody = Nobody
INVARIANTS OneWorkerPerStream CountLedger
PROPERTY SessionEnds
CHECK_DEADLOCK FALSE
