----------------------------- MODULE MCMp4fMuxer -----------------------------
EXTENDS Mp4fMuxer, TLC

\* A video and an audio track, with time scales that divide Unit badly.
TwoTracks == 0 :> 2 @@ 1 :> 4
OneTrack == 0 :> 4
=============================================================================
