------------------------------ MODULE RtspClient ------------------------------
(***************************************************************************)
(* RtspClient::start of RtspClient.cpp, with BoostCommandExecutor of       *)
(* RtspCommand.cpp: four requests over one connection, each answer read    *)
(* into a buffer of its own.  What a read brings beyond the answer is lost *)
(* with that buffer; what it leaves is the beginning of the next answer.   *)
(*                                                                         *)
(* The server is external.  It answers each request once, as it likes, or  *)
(* closes the connection, or falls silent; its bytes arrive in any pieces. *)
(* A line is what ends with \r\n.                                          *)
(***************************************************************************)
EXTENDS Naturals, Sequences, SequencesExt, FiniteSetsExt

CONSTANT
  Descriptions    \* the bodies DESCRIBE may be answered with

\* "track" is an a=control line that names a medium.
SdpLines == {"m=video", "m=audio", "a=rtpmap", "a=fmtp", "a=control:*", "track"}

\* What the constants are.
RtspAssumption == \A d \in Descriptions : d \in Seq(SdpLines) /\ d # <<>>

Requests == 1 .. 4
OPTIONS == 1
DESCRIBE == 2
SETUP == 3
PLAY == 4

Kinds == {"200", "status", "header", "Content-Length", "blank", "rest"}
           \union SdpLines

VARIABLES
  ok,          \* the requests the server answers with 200
  sdp,         \* the description it has
  connection,  \* "open"; "silent", the server says no more; "closed" by the server
  wire,        \* the lines sent and not yet read: their kind and the request they answer
  request,     \* the request run is at
  pc,          \* "connect", "write", "read", "start session", "playing", "crashed"
  result,      \* for each request the one whose answer was parsed; 0 for none
  body,        \* rtspResponse->body of DESCRIBE
  transport,   \* rtspResponse->transport of SETUP is not empty
  session      \* of the RtspSession: the ports, the codecs and the fmtp it knows; when
               \* they were told

server == <<ok, sdp>>
vars == <<server, connection, wire, request, pc, result, body, transport, session>>

Init ==
  /\ ok \in SUBSET Requests
  /\ sdp \in Descriptions
  /\ connection = "open"
  /\ wire = <<>>
  /\ request = OPTIONS
  /\ pc = "connect"
  /\ result = [n \in Requests |-> 0]
  /\ body = <<>>
  /\ transport = FALSE
  /\ session = [ports |-> FALSE, codecs |-> {}, fmtp |-> {}, started |-> FALSE]

-------------------------------------------------------------------------------
\* BoostCommandExecutor::init: a failed connection is noticed by the first write.
init ==
  /\ pc = "connect"
  /\ pc' = "write"
  /\ connection' \in {"open", "closed"}
  /\ UNCHANGED <<server, wire, request, result, body, transport, session>>

\* The server's answer to request n.
Answer(n) ==
  LET kinds == IF n \notin ok THEN <<"status", "header", "blank">>
               ELSE IF n = DESCRIBE THEN <<"200", "Content-Length", "blank">> \o sdp
               ELSE <<"200", "header", "blank">>
  IN  [i \in DOMAIN kinds |-> [kind |-> kinds[i], of |-> n]]

\* send writes the request.  The server answers, or breaks off within its answer.  The
\* write fails on a closed connection; and the io_context the socket was made with no
\* longer exists.
write ==
  /\ pc = "write"
  /\ \/ /\ connection = "open" /\ pc' = "read"
        /\ wire' = wire \o Answer(request)
        /\ UNCHANGED connection
     \/ /\ connection = "open" /\ pc' = "read"
        /\ \E k \in 0 .. Len(Answer(request)) - 1 :
             wire' = wire \o SubSeq(Answer(request), 1, k)
        /\ connection' \in {"silent", "closed"}
     \/ /\ connection # "open" /\ pc' = "read"
        /\ UNCHANGED <<wire, connection>>
     \/ pc' = "crashed" /\ UNCHANGED <<connection, wire>>
  /\ UNCHANGED <<server, request, result, body, transport, session>>

-------------------------------------------------------------------------------
(* The rest of send.                                                       *)

KindAt(i) == IF i \in DOMAIN wire THEN wire[i].kind ELSE "none"
Positions(kind) == {i \in DOMAIN wire : wire[i].kind = kind}

\* Where the answer may begin: `>>' passes over an empty line if what follows has come
\* too.
Begins(p) == p = 1 \/ (p = 2 /\ KindAt(1) = "blank" /\ 2 \in DOMAIN wire)

\* The empty line behind the headers of an answer that begins at p; 0 without one.
BlankAfter(p) == LET bs == {i \in Positions("blank") : i > p}
                 IN  IF bs = {} THEN 0 ELSE Min(bs)

\* A bug LastOfHead could have: it is read only up to the first line.
StatusOnly(p) == p

\* An answer is read up to the empty line.
LastOfHead(p) == BlankAfter(p)

HasBody(p) == \E i \in p .. BlankAfter(p) : KindAt(i) = "Content-Length"

\* The body is read up to the first track, or to the end of the connection; 0 as long
\* as neither has come.
LastOfBody(p) ==
  LET ts == {i \in Positions("track") : i > BlankAfter(p)}
  IN  IF ~HasBody(p) THEN LastOfHead(p)
      ELSE IF ts # {} THEN Min(ts) ELSE IF connection = "closed" THEN Len(wire) ELSE 0

\* A read brings any amount from line n on, which may end within a line.  (What is left
\* of an empty line is passed over like a space.)
Consume(n) ==
  \E k \in n .. Len(wire) :
    \/ wire' = SubSeq(wire, k + 1, Len(wire))
    \/ /\ k < Len(wire) /\ wire[k + 1].kind # "blank"
       /\ wire' = <<[wire[k + 1] EXCEPT !.kind = "rest"]>> \o SubSeq(wire, k + 2, Len(wire))

Body(first, last) == [i \in 1 .. last - first + 1 |-> wire[first + i - 1].kind]

\* run goes on with the next request; the session is started before PLAY.
Advance ==
  /\ request' = IF request = PLAY THEN PLAY ELSE request + 1
  /\ pc' = IF request = PLAY THEN "playing"
           ELSE IF request = SETUP THEN "start session" ELSE "write"

\* A line that is not a status, or a status that is not 200: the rest stays unread.
ReadOther ==
  /\ pc = "read"
  /\ \E p \in {1, 2} :
       /\ Begins(p)
       /\ KindAt(p) \in Kinds \ {"200"}
       /\ Consume(p)
  /\ Advance
  /\ UNCHANGED <<server, connection, result, body, transport, session>>

\* 200: the headers are parsed, and the body if there is one.  The transport
\* stands in the answer to SETUP only.
Read200 ==
  /\ pc = "read"
  /\ \E p \in {1, 2} :
       /\ Begins(p)
       /\ KindAt(p) = "200"
       /\ LastOfHead(p) # 0 /\ LastOfBody(p) # 0
       /\ Consume(LastOfBody(p))
       /\ result' = [result EXCEPT ![request] = wire[p].of]
       /\ body' = IF request = DESCRIBE /\ HasBody(p)
                    THEN Body(LastOfHead(p) + 1, LastOfBody(p)) ELSE body
       /\ transport' = (transport \/ (request = SETUP /\ wire[p].of = SETUP))
  /\ Advance
  /\ UNCHANGED <<server, connection, session>>

\* The connection ends before the status line or the empty line: send throws, and
\* nobody catches.
ReadThrows ==
  /\ pc = "read"
  /\ connection = "closed"
  /\ wire = <<>> \/ \E p \in {1, 2} : Begins(p) /\ KindAt(p) = "200" /\ BlankAfter(p) = 0
  /\ pc' = "crashed"
  /\ UNCHANGED <<server, connection, wire, request, result, body, transport, session>>

\* The media whose m= line is the last one before a line of this kind.
Described(lines, kind) ==
  {m \in {"m=video", "m=audio"} :
     \E i, j \in DOMAIN lines :
       /\ lines[i] = m /\ lines[j] = kind /\ i < j
       /\ \A k \in i + 1 .. j : lines[k] \notin {"m=video", "m=audio"}}

\* setBody: the codecs and their parameters, of the media the body describes.
codecs(lines) == Described(lines, "a=rtpmap")
fmtp(lines) == Described(lines, "a=fmtp")

\* The session is told the transport and the body, and started.
StartSession ==
  /\ pc = "start session"
  /\ pc' = "write"
  /\ session' = [ports |-> transport, codecs |-> codecs(body), fmtp |-> fmtp(body),
                 started |-> TRUE]
  /\ UNCHANGED <<server, connection, wire, request, result, body, transport>>

start == init \/ write \/ ReadOther \/ Read200 \/ ReadThrows \/ StartSession

Next == start

\* A request that can be sent, or an answer that has come, is dealt with.
Spec == Init /\ [][Next]_vars /\ WF_vars(start)

-------------------------------------------------------------------------------
\* The values the variables range over.
TypeOK ==
  /\ wire \in Seq([kind : Kinds, of : Requests])
  /\ request \in Requests
  /\ pc \in {"connect", "write", "read", "start session", "playing", "crashed"}
  /\ \A n \in Requests : result[n] \in 0 .. n
  /\ body \in Seq(SdpLines)
  /\ {transport, session.ports, session.started} \subseteq BOOLEAN
  /\ session.codecs \union session.fmtp \subseteq {"m=video", "m=audio"}

\* The description has one track, which ends it.
EndsWithTrack == \A i \in DOMAIN sdp : sdp[i] = "track" <=> i = Len(sdp)

\* The answers to the requests before n left nothing behind.
Clean(n) ==
  \A m \in 1 .. n - 1 : m \in ok /\ (m = DESCRIBE => EndsWithTrack)

\* However the answers are cut into pieces: no answer is parsed for two requests, and
\* answers are parsed in the order of their requests.  What is left of an answer that was
\* an error, or described more than was read of it, may pass for the next one; up to then
\* each request is given its own.
AnswersMatch ==
  /\ \A m, n \in Requests :
       m < n /\ result[m] # 0 /\ result[n] # 0 => result[m] < result[n]
  /\ \A n \in Requests : Clean(n) /\ result[n] # 0 => result[n] = n

\* The description up to its first track.
FirstMedium ==
  LET ts == {i \in DOMAIN sdp : sdp[i] = "track"}
  IN  IF ts = {} THEN sdp ELSE SubSeq(sdp, 1, Min(ts))

\* However the description arrives, the session plays its first medium with the codec
\* and all the parameters that stand before its control line, and no other medium.
SessionOfFirstMedium ==
  session.started /\ result[DESCRIBE] = DESCRIBE /\ connection = "open" =>
    /\ session.codecs = codecs(FirstMedium)
    /\ session.fmtp = fmtp(FirstMedium)

\* start returns whenever the description has a track, also when answers are errors
\* that shift the later ones; only a server that falls silent keeps it waiting.
StartReturns ==
  (\E i \in DOMAIN sdp : sdp[i] = "track")
    ~> (pc \in {"playing", "crashed"} \/ (pc = "read" /\ connection = "silent"))
==============================================================================
