------------------------------- MODULE UdpServer -------------------------------
(***************************************************************************)
(* BoostUdpServer of UdpServer.cpp, as RtspSession::start and close of     *)
(* RtspSession.cpp use it: the session's thread runs the io_context, which *)
(* calls handle_receive for each datagram; close stops it from another     *)
(* thread.  Only `stopped' is atomic; the pointers are written by one      *)
(* thread and used by both.                                                *)
(***************************************************************************)
EXTENDS Naturals, Sequences, SequencesExt

CONSTANT Datagrams     \* how many datagrams the server sends

ASSUME UdpServerAssumption == Datagrams \in Nat

VARIABLES
  main,        \* where the thread of RtspClient is
  thread,      \* where the session's thread is
  socket,      \* "none" (not yet a socket), "open" or "closed"
  io_context,  \* "none", "made", "stopped" or "deleted"
  recv_buffer, \* "none", "made" or "deleted"
  stopped,
  pending,     \* a receive was started and has not completed
  sent,        \* how many datagrams the server has sent
  empty,       \* which of them will not have a byte in them
  queue,       \* those the kernel holds for the socket
  buffer,      \* the datagram in recv_buffer_
  received,    \* history: the datagrams receives completed with
  parsed,      \* history: the datagrams offered to the parsers
  late,        \* history: how many of them after stopped was set
  ready        \* history: stop was called when the thread had set everything up

network == <<sent, empty, queue>>
history == <<received, parsed, late, ready>>
vars == <<main, thread, socket, io_context, recv_buffer, stopped, pending, network,
          buffer, history>>

Init ==
  /\ main = "start" /\ thread = "none"
  /\ socket = "none" /\ io_context = "none" /\ recv_buffer = "none"
  /\ stopped \in BOOLEAN       \* not initialised
  /\ pending = FALSE
  /\ sent = 0 /\ empty \in SUBSET (1 .. Datagrams) /\ queue = <<>> /\ buffer = 0
  /\ received = <<>> /\ parsed = <<>> /\ late = 0 /\ ready = FALSE

Alive == main # "crashed"

-------------------------------------------------------------------------------
(* The server and the kernel: external.                                    *)

\* A datagram arrives; without a socket of that port it is lost.
Arrive ==
  /\ Alive
  /\ sent < Datagrams
  /\ sent' = sent + 1
  /\ queue' = IF socket = "open" THEN Append(queue, sent + 1) ELSE queue
  /\ UNCHANGED <<main, thread, socket, io_context, recv_buffer, stopped, pending, empty,
                 buffer, history>>

-------------------------------------------------------------------------------
(* run and handle_receive, on the session's thread.                        *)

ThreadAt(place) == Alive /\ thread = place
Thread(from, to) == ThreadAt(from) /\ thread' = to

\* The context and the socket are made, and the socket bound, which may fail.
Bind ==
  /\ ThreadAt("started")
  /\ io_context' = "made" /\ socket' \in {"open", "closed"}
  /\ thread' = IF socket' = "open" THEN "bound" ELSE "returned"
  /\ UNCHANGED <<main, recv_buffer, stopped, pending, network, buffer, history>>

Allocate ==
  /\ Thread("bound", "allocated")
  /\ recv_buffer' = "made"
  /\ UNCHANGED <<main, socket, io_context, stopped, pending, network, buffer, history>>

\* stopped is set back, even if stop has been called by now.
SetReady ==
  /\ Thread("allocated", "receive")
  /\ stopped' = FALSE
  /\ UNCHANGED <<main, socket, io_context, recv_buffer, pending, network, buffer, history>>

\* async_receive_from; what it does with a context that was deleted is undefined.
Receive ==
  /\ Thread("receive", "run")
  /\ pending' = TRUE
  /\ \/ UNCHANGED main
     \/ io_context = "deleted" /\ main' = "crashed"
  /\ UNCHANGED <<socket, io_context, recv_buffer, stopped, network, buffer, history>>

\* io_context->run calls handle_receive when a datagram has come.
Complete ==
  /\ Thread("run", "handle_receive")
  /\ pending /\ queue # <<>> /\ socket = "open" /\ io_context = "made"
  /\ pending' = FALSE
  /\ queue' = Tail(queue)
  /\ buffer' = Head(queue)
  /\ received' = Append(received, Head(queue))
  /\ UNCHANGED <<main, socket, io_context, recv_buffer, stopped, sent, empty, parsed, late,
                 ready>>

\* The receive fails because the socket was closed: handle_receive closes it again, and
\* starts no receive.
Abort ==
  /\ Thread("run", "run")
  /\ pending /\ socket = "closed"
  /\ pending' = FALSE
  /\ UNCHANGED <<main, socket, io_context, recv_buffer, stopped, network, buffer, history>>

\* run returns when it is stopped or has nothing left to do; the context may be gone
\* under it.
Return ==
  /\ Thread("run", "returned")
  /\ io_context # "made" \/ ~pending
  /\ \/ UNCHANGED main
     \/ io_context = "deleted" /\ main' = "crashed"
  /\ UNCHANGED <<socket, io_context, recv_buffer, stopped, pending, network, buffer, history>>

\* A datagram of no bytes is taken for an error.
CloseOnEmpty ==
  /\ Thread("handle_receive", "run")
  /\ buffer \in empty
  /\ socket' = "closed" /\ queue' = <<>>
  /\ UNCHANGED <<main, io_context, recv_buffer, stopped, pending, sent, empty, buffer,
                 history>>

\* A bug Parse could have: the next receive is started before the parsers are done with
\* the buffer, and completes at once if a datagram has come.
ParseAfterReceive ==
  /\ Thread("handle_receive", "parsed")
  /\ buffer \notin empty
  /\ \/ queue = <<>> /\ UNCHANGED <<queue, buffer, received>>
     \/ /\ queue # <<>>
        /\ queue' = Tail(queue) /\ buffer' = Head(queue)
        /\ received' = Append(received, Head(queue))
  /\ parsed' = Append(parsed, buffer')
  /\ late' = late + (IF stopped THEN 1 ELSE 0)
  /\ UNCHANGED <<main, socket, io_context, recv_buffer, stopped, pending, sent, empty, ready>>

\* Each parser is offered the datagram until one takes it.  The buffer may be deleted.
Parse ==
  /\ Thread("handle_receive", "parsed")
  /\ buffer \notin empty
  /\ parsed' = Append(parsed, buffer)
  /\ late' = late + (IF stopped THEN 1 ELSE 0)
  /\ \/ UNCHANGED main
     \/ recv_buffer = "deleted" /\ main' = "crashed"
  /\ UNCHANGED <<socket, io_context, recv_buffer, stopped, pending, network, buffer,
                 received, ready>>

\* Bugs Again could have: stopped is not looked at; a datagram no parser takes ends it.
AgainAlways == "receive"
AgainIfTaken == IF stopped \/ Last(parsed) = 2 THEN "run" ELSE "receive"

\* What handle_receive does next.
Again == IF stopped THEN "run" ELSE "receive"

CheckStopped ==
  /\ Thread("parsed", Again)
  /\ UNCHANGED <<main, socket, io_context, recv_buffer, stopped, pending, network, buffer,
                 history>>

-------------------------------------------------------------------------------
(* RtspSession::start and close, BoostUdpServer::stop.                     *)

Main(from, to) == main = from /\ main' = to

\* The thread is started, and the client goes on to PLAY.
StartSession ==
  /\ Main("start", "playing")
  /\ thread' = "started"
  /\ UNCHANGED <<socket, io_context, recv_buffer, stopped, pending, network, buffer, history>>

StopStored ==
  /\ Main("playing", "close socket")
  /\ stopped' = TRUE
  /\ ready' = (thread \in {"run", "handle_receive", "parsed", "receive"})
  /\ UNCHANGED <<thread, socket, io_context, recv_buffer, pending, network, buffer,
                 received, parsed, late>>

\* A pointer the thread has not set yet is used as it is.
Uses(pointer) == IF pointer = "none" THEN {"crashed"} ELSE {}

StopSocket ==
  /\ main = "close socket"
  /\ main' \in {"stop context"} \union Uses(socket)
  /\ socket' = IF socket = "open" THEN "closed" ELSE socket
  /\ queue' = <<>>
  /\ UNCHANGED <<thread, io_context, recv_buffer, stopped, pending, sent, empty, buffer,
                 history>>

StopContext ==
  /\ main = "stop context"
  /\ main' \in {"delete buffer"} \union Uses(io_context)
  /\ io_context' = IF io_context = "made" THEN "stopped" ELSE io_context
  /\ UNCHANGED <<thread, socket, recv_buffer, stopped, pending, network, buffer, history>>

DeleteBuffer ==
  /\ main = "delete buffer"
  /\ main' \in {"delete context"} \union Uses(recv_buffer)
  /\ recv_buffer' = IF recv_buffer = "made" THEN "deleted" ELSE recv_buffer
  /\ UNCHANGED <<thread, socket, io_context, stopped, pending, network, buffer, history>>

DeleteContext ==
  /\ main = "delete context"
  /\ main' \in {"stop rtcp"} \union Uses(io_context)
  /\ io_context' = IF io_context = "none" THEN "none" ELSE "deleted"
  /\ UNCHANGED <<thread, socket, recv_buffer, stopped, pending, network, buffer, history>>

\* The RTCP server never ran: stop uses pointers nobody has set, and so does close.
StopRtcp ==
  /\ main = "stop rtcp"
  /\ main' \in {"join", "crashed"}
  /\ UNCHANGED <<thread, socket, io_context, recv_buffer, stopped, pending, network, buffer,
                 history>>

Join ==
  /\ Main("join", "joined")
  /\ thread = "returned"
  /\ UNCHANGED <<thread, socket, io_context, recv_buffer, stopped, pending, network, buffer,
                 history>>

run == Bind \/ Allocate \/ SetReady \/ Receive \/ Complete \/ Abort \/ Return
handle_receive == CloseOnEmpty \/ Parse \/ CheckStopped
close ==
  \/ StopStored \/ StopSocket \/ StopContext \/ DeleteBuffer \/ DeleteContext
  \/ StopRtcp \/ Join

Next == Arrive \/ run \/ handle_receive \/ StartSession \/ close

\* The session's thread runs on; when the client closes is its affair.
Spec == Init /\ [][Next]_vars /\ WF_vars(run \/ handle_receive)

-------------------------------------------------------------------------------
\* The values the variables range over.
TypeOK ==
  /\ thread \in {"none", "started", "bound", "allocated", "receive", "run",
                 "handle_receive", "parsed", "returned"}
  /\ main \in {"start", "playing", "close socket", "stop context", "delete buffer",
               "delete context", "stop rtcp", "join", "joined", "crashed"}
  /\ socket \in {"none", "open", "closed"}
  /\ io_context \in {"none", "made", "stopped", "deleted"}
  /\ recv_buffer \in {"none", "made", "deleted"}
  /\ {stopped, pending, ready} \subseteq BOOLEAN
  /\ sent \in 0 .. Datagrams /\ Len(queue) <= sent /\ empty \subseteq 1 .. Datagrams
  /\ pending => thread \in {"run", "returned"}

\* The parsers see each datagram that was received, once and in its order, before the
\* next one is written to the buffer; an empty one no parser sees, and it is the last.
ReceivedIsParsed ==
  LET offered == received # <<>> /\ thread # "handle_receive" /\ Last(received) \notin empty
  IN  parsed = IF offered \/ received = <<>> THEN received ELSE Front(received)

\* A session that was running when it was stopped parses at most one more datagram,
\* wherever its thread was.
AtMostOneLate == ready => late <= 1

\* While nobody stops the session, a datagram that has come is parsed, whatever the
\* parsers thought of the ones before; but an empty one ends the session's receives.
ReceivingGoesOn ==
  \A d \in 1 .. Datagrams :
    (\E i \in DOMAIN queue : queue[i] = d) /\ main = "playing"
      ~> \/ main # "playing"
         \/ \E i \in DOMAIN parsed : parsed[i] = d
         \/ received # <<>> /\ Last(received) \in empty /\ Last(received) <= d
==============================================================================
