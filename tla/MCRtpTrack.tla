----------------------------- MODULE MCRtpTrack -----------------------------
EXTENDS RtpTrack

AllForms == {"single", "fragments", "sets", "aggregate", "slices",
             "otherPayload", "rtcp", "unsupported"}

\* The same time, less than half an hour, less than an hour ahead, and behind,
\* as a B-frame is, which modulo 4 is also more than an hour ahead.
FrameSteps == {0, 1, 2, -1}
=============================================================================
