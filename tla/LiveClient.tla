------------------------------ MODULE LiveClient ------------------------------
(***************************************************************************)
(* testrtspclient.cpp: a client of one RTSP URL, written as the handlers   *)
(* an event loop calls: the answers to DESCRIBE, SETUP and PLAY, frames,   *)
(* the end of a source, an RTCP BYE and the timer of the stream.  A        *)
(* handler runs to its end before the next one is called.                  *)
(***************************************************************************)
EXTENDS Naturals, Sequences, FiniteSets

CONSTANTS
  Media,       \* what each subsession of the stream carries: its mediumName and codecName
  Durations    \* the play times a description may give; 0 when it gives none

Subsessions == DOMAIN Media

\* What the constants are.
LiveClientAssumption == Media \in Seq([medium : STRING, codec : STRING]) /\ Durations \subseteq Nat /\ Durations # {}

VARIABLES
  stage,       \* the command whose answer is awaited, "playing" or "closed"
  subsession,  \* scs.subsession: 0 before the first, Len(Media) + 1 after the last
  duration,    \* scs.duration
  sink,        \* the subsessions whose sink is not NULL
  bye,         \* the subsessions with a BYE handler
  streamTimerTask,
  teardown,    \* TEARDOWN was sent
  decoder,     \* the codecs open_codec has opened
  first_frame, \* the sinks that have not seen a frame
  started, ended,  \* history: subsessions that had a sink, that the server ended
  crashed      \* a null pointer was used while decoding

decoding == <<decoder, first_frame, crashed>>
vars == <<stage, subsession, duration, sink, bye, streamTimerTask, teardown,
          started, ended, decoding>>

\* openURL.
Init ==
  /\ stage = "DESCRIBE"
  /\ subsession = 0 /\ duration = 0
  /\ sink = {} /\ bye = {} /\ streamTimerTask = FALSE
  /\ teardown = FALSE
  /\ decoder = {} /\ first_frame = {} /\ crashed = FALSE
  /\ started = {} /\ ended = {}

Running == stage # "closed" /\ ~crashed

-------------------------------------------------------------------------------
\* someSubsessionsWereActive.
Active(sinks) == sinks # {}

\* shutdownStream with these sinks left: the server is told unless all had ended.
\* Closing the client deletes its session, with the handlers, and its timer.
shutdownStream(sinks) ==
  /\ teardown' = Active(sinks)
  /\ sink' = {} /\ bye' = {} /\ streamTimerTask' = FALSE
  /\ stage' = "closed"

\* setupNextSubsession: subsessions that cannot be initiated are passed over.
setupNextSubsession ==
  \E s \in subsession + 1 .. Len(Media) + 1 :
    /\ subsession' = s
    /\ IF s \in Subsessions
         THEN stage' = "SETUP" /\ UNCHANGED duration
         ELSE stage' = "PLAY" /\ duration' \in Durations

\* The description is refused, or has no session or no subsession; or SETUP follows.
continueAfterDESCRIBE ==
  /\ Running /\ stage = "DESCRIBE"
  /\ \/ /\ shutdownStream(sink)
        /\ UNCHANGED <<subsession, duration>>
     \/ /\ Subsessions # {}
        /\ setupNextSubsession
        /\ UNCHANGED <<sink, bye, streamTimerTask, teardown>>
  /\ UNCHANGED <<started, ended, decoding>>

\* A subsession that was set up gets a sink, which plays, and a BYE handler.
continueAfterSETUP ==
  /\ Running /\ stage = "SETUP"
  /\ \E set_up \in SUBSET {subsession} :
       /\ sink' = sink \union set_up
       /\ started' = started \union set_up
       /\ bye' = bye \union set_up
       /\ first_frame' = first_frame \union set_up
  /\ setupNextSubsession
  /\ UNCHANGED <<streamTimerTask, teardown, ended, decoder, crashed>>

\* The timer is set when the description gives a duration.
HasEnd == duration > 0

continueAfterPLAY ==
  /\ Running /\ stage = "PLAY"
  /\ \/ /\ stage' = "playing"
        /\ streamTimerTask' = HasEnd
        /\ UNCHANGED <<sink, bye, teardown>>
     \/ shutdownStream(sink)
  /\ UNCHANGED <<subsession, duration, started, ended, decoding>>

\* A bug subsessionAfterPlaying could have: it does not look for other sinks.
NoneLooked(sinks) == TRUE

\* Whether all sinks are closed: those that were never made count as closed.
AllClosed(sinks) == sinks = {}

\* The sink is closed, and with the last one the client.
subsessionAfterPlaying(s) ==
  /\ ended' = ended \union {s}
  /\ IF AllClosed(sink \ {s})
       THEN shutdownStream(sink \ {s})
       ELSE /\ sink' = sink \ {s}
            /\ UNCHANGED <<stage, streamTimerTask, teardown>>

\* The source of a sink ends.
SourceClosure ==
  /\ Running
  /\ \E s \in sink : subsessionAfterPlaying(s)
  /\ bye' = IF stage' = "closed" THEN {} ELSE bye
  /\ UNCHANGED <<subsession, duration, started, decoding>>

\* A BYE of the server; the handler is called once, also after the source has ended.
subsessionByeHandler ==
  /\ Running
  /\ \E s \in bye :
       /\ subsessionAfterPlaying(s)
       /\ bye' = IF stage' = "closed" THEN {} ELSE bye \ {s}
  /\ UNCHANGED <<subsession, duration, started, decoding>>

streamTimerHandler ==
  /\ Running
  /\ streamTimerTask
  /\ shutdownStream(sink)
  /\ UNCHANGED <<subsession, duration, started, ended, decoding>>

-------------------------------------------------------------------------------
\* The subsessions whose frames are decoded; those of the others are named in the log.
Decoded ==
  {s \in Subsessions : Media[s].medium = "audio"
                          \/ (Media[s].medium = "video" /\ Media[s].codec = "H264")}

\* A codec open_codec knows; it is called with the name of an audio codec, or "H264".
open_codec(codec) == decoder \union ({codec} \intersect {"H264", "MPEG4-GENERIC"})

\* decode_video_rtp scales a picture with stream_ctx, which open_codec leaves NULL;
\* decode_audio_rtp uses an audio decoder that is NULL unless AAC was opened.
DecodeCrashes(s, got) ==
  IF Media[s].medium = "audio" THEN "MPEG4-GENERIC" \notin decoder' ELSE got

\* afterGettingFrame: the first frame of a sink opens the codec, for all of them.
afterGettingFrame ==
  /\ Running
  /\ \E s \in sink \intersect Decoded, got \in BOOLEAN :
       /\ decoder' = IF s \in first_frame THEN open_codec(Media[s].codec) ELSE decoder
       /\ first_frame' = first_frame \ {s}
       /\ crashed' = DecodeCrashes(s, got)
  /\ UNCHANGED <<stage, subsession, duration, sink, bye, streamTimerTask, teardown,
                 started, ended>>

Next ==
  \/ continueAfterDESCRIBE \/ continueAfterSETUP \/ continueAfterPLAY
  \/ SourceClosure \/ subsessionByeHandler \/ streamTimerHandler
  \/ afterGettingFrame

\* The event loop runs a timer that is due; nothing is assumed of the server.
Spec == Init /\ [][Next]_vars /\ WF_vars(streamTimerHandler)

-------------------------------------------------------------------------------
\* The values the variables range over.
TypeOK ==
  /\ stage \in {"DESCRIBE", "SETUP", "PLAY", "playing", "closed"}
  /\ subsession \in 0 .. Len(Media) + 1
  /\ duration \in Durations \union {0}
  /\ first_frame \subseteq started /\ ended \subseteq started /\ bye \subseteq started
  /\ {streamTimerTask, teardown, crashed} \subseteq BOOLEAN

\* However the client ends (a refused PLAY, the timer, the last source), the server
\* is told if and only if it had not itself ended every subsession that was set up:
\* sinks closed by one handler are not forgotten, or told of twice, by another one.
ServerTold ==
  stage = "closed" => teardown = (started \ ended # {})

\* The end of one subsession closes the client only if the server has ended all that
\* were set up, in whatever order their sources ended and their BYEs arrived.
OthersPlayOn ==
  [][ended' # ended /\ stage' = "closed" => started \subseteq ended']_vars

\* A stream with a duration ends, even if the server never says another word.
TimedStreamEnds == (stage = "playing" /\ duration > 0) ~> (stage = "closed" \/ crashed)
==============================================================================
