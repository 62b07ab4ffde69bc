------------------------------ MODULE MCNetwork ------------------------------
(***************************************************************************)
(* The network's side: the receiver of a session (UdpServer), the requests *)
(* that set the session up (RtspClient), and the client of                 *)
(* testrtspclient.cpp (LiveClient).  program says which a behaviour is     *)
(* about; the others stay as they were made.                               *)
(***************************************************************************)
EXTENDS UdpServer

CONSTANTS
  Descriptions,         \* of RtspClient
  Media, Durations      \* of LiveClient

VARIABLES
  program,
  ok, sdp, connection, wire, request, pc, result, body, transport, session,
  stage, subsession, duration, sink, bye, streamTimerTask, teardown, started, ended,
  decoder, first_frame, crashed

Programs == {"receiver", "requests", "live"}

-----------------------------------------------------------------------------
\* One medium, two media, one medium with a line behind its control line, and one
\* without a control line.
FourDescriptions ==
  {<<"m=audio", "a=rtpmap", "a=fmtp", "track">>,
   <<"a=control:*", "m=video", "a=rtpmap", "track", "m=audio", "a=rtpmap", "track">>,
   <<"m=video", "track", "a=fmtp">>,
   <<"m=audio", "a=control:*">>}

\* Three subsessions: one the client decodes, one it takes for AAC, one it only names.
ThreeMedia ==
  <<[medium |-> "video", codec |-> "H264"],
    [medium |-> "audio", codec |-> "PCMU"],
    [medium |-> "video", codec |-> "H265"]>>

-----------------------------------------------------------------------------
Rtsp == INSTANCE RtspClient

LiveStream == INSTANCE LiveClient

-----------------------------------------------------------------------------

ASSUME NetworkAssumption == Rtsp!RtspAssumption /\ LiveStream!LiveClientAssumption

rtspVars == <<ok, sdp, connection, wire, request, pc, result, body, transport, session>>
liveVars ==
  <<stage, subsession, duration, sink, bye, streamTimerTask, teardown, started, ended,
    decoder, first_frame, crashed>>
allVars == <<program, vars, rtspVars, liveVars>>

NetworkInit ==
  /\ program \in Programs
  /\ Init /\ Rtsp!Init /\ LiveStream!Init
  /\ program # "receiver" => stopped /\ empty = {}
  /\ program # "requests" => ok = {} /\ sdp = CHOOSE d \in Descriptions : TRUE

ReceiveDatagrams ==
  /\ program = "receiver" /\ Next
  /\ UNCHANGED <<program, rtspVars, liveVars>>

SendRequests ==
  /\ program = "requests" /\ Rtsp!Next
  /\ UNCHANGED <<program, vars, liveVars>>

PlayLive ==
  /\ program = "live" /\ LiveStream!Next
  /\ UNCHANGED <<program, vars, rtspVars>>

NetworkNext == ReceiveDatagrams \/ SendRequests \/ PlayLive

\* The client's threads run on, and its event loop runs a timer that is due; nothing is
\* assumed of the servers or of when the client closes a session.
NetworkSpec ==
  /\ NetworkInit /\ [][NetworkNext]_allVars
  /\ WF_vars(program = "receiver" /\ (run \/ handle_receive))
  /\ WF_rtspVars(program = "requests" /\ Rtsp!start)
  /\ WF_liveVars(program = "live" /\ LiveStream!streamTimerHandler)

-----------------------------------------------------------------------------
\* However the answers are cut into pieces, none is parsed for two requests, and they are
\* parsed in the order of their requests (the types say so).  Up to the first answer that
\* was an error or described more than was read of it, each request is given its own; and
\* the session plays the first medium of the description.
AnswersMatch == Rtsp!TypeOK /\ Rtsp!AnswersMatch /\ Rtsp!SessionOfFirstMedium

\* The server is told of the end if and only if it had not itself ended every
\* subsession, and the end of one does not close the client while others play; nothing
\* ends, or has a first frame, that was not started (the types say so).
ServerTold == [](LiveStream!TypeOK /\ LiveStream!ServerTold) /\ LiveStream!OthersPlayOn

\* start returns if the description has a track and the server does not fall silent, a
\* datagram that has come is parsed unless an empty one came first, and a stream with a
\* duration ends.
NetworkEnds ==
  /\ Rtsp!StartReturns
  /\ ReceivingGoesOn
  /\ LiveStream!TimedStreamEnds
=============================================================================
