---------------------------- MODULE MCRtspClient ----------------------------
EXTENDS RtspClient

\* Credentials from the start, from DESCRIBE on, or for SETUP alone.
Challenges == {{}, Methods, {"DESCRIBE", "SETUP", "PLAY"}, {"SETUP"}}

KnownTracks == {<<"sdp", "sdp">>, <<"sdp", "inBand">>, <<"inBand", "inBand">>,
                <<"inBand", "unsupported">>}

ManyServers ==
  [challenges : Challenges, redirects : Methods \union {""},
   refuses : {""}, errorBody : {FALSE}, early : {FALSE}]
  \union
  [challenges : {{}}, redirects : {""}, refuses : {"DESCRIBE", "SETUP", "PLAY"},
   errorBody : BOOLEAN, early : {FALSE}]
  \union
  [challenges : {{"DESCRIBE", "SETUP", "PLAY"}}, redirects : {"", "DESCRIBE"}, refuses : {""},
   errorBody : {TRUE}, early : {FALSE}]
  \union
  [challenges : {{}, Methods}, redirects : {""}, refuses : {""}, errorBody : {FALSE},
   early : {TRUE}]
=============================================================================
