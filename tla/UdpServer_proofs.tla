--------------------------- MODULE UdpServer_proofs ---------------------------
(***************************************************************************)
(* Theorems about UdpServer for any number of datagrams, about RtspClient  *)
(* for any descriptions and about LiveClient for any stream, beside each   *)
(* other as in MCNetwork.                                                  *)
(***************************************************************************)
EXTENDS MCNetwork, SequenceTheorems, WellFoundedInduction, TLAPS

Places == {"none", "started", "bound", "allocated", "receive", "run",
           "handle_receive", "parsed", "returned"}

\* Where the thread is once it has set stopped back.
SetUp == {"receive", "run", "handle_receive", "parsed", "returned"}

\* What the sequences and the counter hold.
Buffers ==
  /\ queue \in Seq(Nat) /\ received \in Seq(Nat) /\ parsed \in Seq(Nat)
  /\ buffer \in Nat /\ late \in Nat /\ sent \in Nat
  /\ ready \in BOOLEAN /\ stopped \in BOOLEAN /\ pending \in BOOLEAN
  /\ thread \in Places

\* An empty datagram was received, and the server gave up.
GaveUp == buffer \in empty /\ ~pending /\ thread \in {"run", "returned"}

\* What was received was parsed, but for the datagram in the buffer.
InBuffer ==
  /\ parsed # <<>> => Last(parsed) \notin empty
  /\ \/ thread # "handle_receive" /\ received = parsed
     \/ (thread = "handle_receive" \/ GaveUp) /\ received = Append(parsed, buffer)

\* A receive is started when the one before has been dealt with.
OneReceive == pending => thread \in {"run", "returned"}

\* The session's thread is started by the client's.
NotStarted == main = "start" => thread = "none"

\* Before anyone stops the server, what the thread has set up is as it set it.
NotStopped ==
  main \in {"start", "playing"} =>
    /\ late = 0 /\ ~ready
    /\ thread \in {"receive", "run", "handle_receive", "parsed"} => ~stopped

\* A late datagram was the last one: no receive was started after it.
LastOne ==
  ready =>
    /\ stopped /\ thread \in SetUp
    /\ late \in {0, 1}
    /\ late = 1 => ~pending /\ thread \in {"parsed", "run", "returned"}

IInv == Buffers /\ InBuffer /\ OneReceive /\ NotStarted /\ NotStopped /\ LastOne

-------------------------------------------------------------------------------
LEMMA FrontOfAppend ==
  ASSUME NEW s \in Seq(Nat), NEW x \in Nat
  PROVE  /\ Front(Append(s, x)) = s /\ Last(Append(s, x)) = x
         /\ Append(s, x) # <<>>
<1>1. Append(s, x) \in Seq(Nat) /\ Len(Append(s, x)) = Len(s) + 1 /\ Len(s) \in Nat
  BY AppendProperties, LenProperties
<1>2. \A i \in 1 .. Len(s) : Append(s, x)[i] = s[i]
  BY AppendProperties
<1>3. SubSeq(Append(s, x), 1, Len(s)) = s
  BY <1>1, <1>2, SubSeqProperties, SeqEqual
<1>4. Append(s, x)[Len(s) + 1] = x
  BY AppendProperties
<1> QED
  BY <1>1, <1>3, <1>4, EmptySeq DEF Front, Last

LEMMA InitInv == Init => IInv
<1> SUFFICES ASSUME Init PROVE IInv
  OBVIOUS
<1>1. Buffers
  BY EmptySeq DEF Init, Buffers, Places
<1>2. InBuffer /\ OneReceive /\ NotStarted /\ NotStopped /\ LastOne
  BY DEF Init, InBuffer, OneReceive, NotStarted, NotStopped, LastOne
<1> QED
  BY <1>1, <1>2 DEF IInv

-------------------------------------------------------------------------------
LEMMA StepBuffers == IInv /\ [Next]_vars => Buffers'
<1> SUFFICES ASSUME IInv, [Next]_vars PROVE Buffers'
  OBVIOUS
<1> USE DEF IInv, Buffers, Places
<1>1. CASE Arrive
  BY <1>1, AppendProperties DEF Arrive, history
<1>2. CASE run
  <2>1. CASE Complete
    BY <2>1, HeadTailProperties, AppendProperties DEF Complete, Thread, ThreadAt
  <2>2. CASE Bind \/ Allocate \/ SetReady \/ Receive \/ Abort \/ Return
    BY <2>2 DEF Bind, Allocate, SetReady, Receive, Abort, Return, Thread, ThreadAt,
                history, network
  <2> QED
    BY <1>2, <2>1, <2>2 DEF run
<1>3. CASE handle_receive
  <2>1. CASE Parse
    BY <2>1, AppendProperties DEF Parse, Thread, ThreadAt, network
  <2>2. CASE CheckStopped
    BY <2>2 DEF CheckStopped, Again, Thread, ThreadAt, history, network
  <2>3. CASE CloseOnEmpty
    BY <2>3, EmptySeq DEF CloseOnEmpty, Thread, ThreadAt, history
  <2> QED
    BY <1>3, <2>1, <2>2, <2>3 DEF handle_receive
<1>4. CASE StartSession \/ close
  <2>1. CASE StopSocket
    BY <2>1, EmptySeq DEF StopSocket, history
  <2>2. CASE StopStored
    <3> DEFINE setUp == thread \in {"run", "handle_receive", "parsed", "receive"}
    <3>0. setUp \in BOOLEAN
      OBVIOUS
    <3>1. ready' = setUp
      BY <2>2, Zenon DEF StopStored
    <3> HIDE DEF setUp
    <3>2. ready' \in BOOLEAN
      BY <3>0, <3>1, Zenon
    <3>3. stopped' \in BOOLEAN
      BY <2>2, Zenon DEF StopStored
    <3>4. UNCHANGED <<queue, received, parsed, buffer, late, sent, thread,
                    pending>>
      BY <2>2 DEF StopStored, network
    <3> QED
      BY <3>2, <3>3, <3>4
  <2>3. CASE StartSession \/ StopContext \/ DeleteBuffer \/ DeleteContext \/ StopRtcp
             \/ Join
    BY <2>3 DEF StartSession, StopContext, DeleteBuffer, DeleteContext, StopRtcp, Join,
                history, network
  <2> QED
    BY <1>4, <2>1, <2>2, <2>3 DEF close
<1>5. CASE UNCHANGED vars
  BY <1>5 DEF vars, history, network
<1> QED
  BY <1>1, <1>2, <1>3, <1>4, <1>5 DEF Next

LEMMA StepInBuffer == IInv /\ [Next]_vars => InBuffer'
<1> SUFFICES ASSUME IInv, [Next]_vars PROVE InBuffer'
  OBVIOUS
<1> USE DEF IInv, Buffers, InBuffer, GaveUp
<1>1. CASE run
  <2>1. CASE Complete
    BY <2>1 DEF Complete, Thread, ThreadAt
  <2>2. CASE Bind \/ Allocate \/ SetReady \/ Receive \/ Abort \/ Return
    BY <2>2 DEF Bind, Allocate, SetReady, Receive, Abort, Return, Thread, ThreadAt,
                history, network
  <2> QED
    BY <1>1, <2>1, <2>2 DEF run
<1>2. CASE handle_receive
  <2>1. CASE Parse
    <3>1. /\ thread = "handle_receive" /\ thread' = "parsed" /\ buffer \notin empty
          /\ parsed' = Append(parsed, buffer) /\ UNCHANGED <<received, empty>>
      BY <2>1 DEF Parse, Thread, ThreadAt, network
    <3>2. Last(Append(parsed, buffer)) = buffer
      BY FrontOfAppend
    <3> QED
      BY <3>1, <3>2
  <2>2. CASE CheckStopped
    BY <2>2 DEF CheckStopped, Again, Thread, ThreadAt, history, network
  <2>3. CASE CloseOnEmpty
    <3>1. ~pending
      BY <2>3 DEF CloseOnEmpty, Thread, ThreadAt, OneReceive
    <3> QED
      BY <2>3, <3>1 DEF CloseOnEmpty, Thread, ThreadAt, history
  <2> QED
    BY <1>2, <2>1, <2>2, <2>3 DEF handle_receive
<1>3. CASE Arrive \/ StartSession \/ close
  <2>1. CASE StartSession
    BY <2>1 DEF StartSession, Main, NotStarted, history, network
  <2>2. CASE Arrive \/ close
    <3>1. UNCHANGED <<thread, pending, buffer, empty, received, parsed>>
      BY <2>2 DEF Arrive, close, StopStored, StopSocket, StopContext, DeleteBuffer,
                  DeleteContext, StopRtcp, Join, Main, history, network
    <3> QED
      BY <3>1
  <2> QED
    BY <1>3, <2>1, <2>2
<1>4. CASE UNCHANGED vars
  BY <1>4 DEF vars, history, network
<1> QED
  BY <1>1, <1>2, <1>3, <1>4 DEF Next

LEMMA StepPlaces == IInv /\ [Next]_vars => (OneReceive /\ NotStarted)'
<1> SUFFICES ASSUME IInv, [Next]_vars PROVE (OneReceive /\ NotStarted)'
  OBVIOUS
<1> USE DEF IInv, Buffers, Places, OneReceive, NotStarted
<1>1. CASE run
  BY <1>1 DEF run, Bind, Allocate, SetReady, Receive, Complete, Abort, Return, Thread,
              ThreadAt, history, network
<1>2. CASE handle_receive
  BY <1>2 DEF handle_receive, CloseOnEmpty, Parse, CheckStopped, Again, Thread, ThreadAt,
              history, network
<1>3. CASE Arrive
  BY <1>3 DEF Arrive
<1>4. CASE StartSession \/ close
  <2>1. CASE StopStored
    <3>1. thread' = thread /\ pending' = pending /\ main' = "close socket"
      BY <2>1 DEF StopStored, Main
    <3> QED
      BY <3>1
  <2>2. CASE StopSocket \/ StopContext \/ DeleteBuffer \/ DeleteContext
    <3>1. thread' = thread /\ pending' = pending
      BY <2>2 DEF StopSocket, StopContext, DeleteBuffer, DeleteContext
    <3>2. \A p : "start" \notin Uses(p)
      BY DEF Uses
    <3>3. main' # "start"
      BY <2>2, <3>2 DEF StopSocket, StopContext, DeleteBuffer, DeleteContext
    <3> QED
      BY <3>1, <3>3
  <2>3. CASE StartSession
    <3>1. main' = "playing" /\ pending' = pending /\ thread = "none"
      BY <2>3 DEF StartSession, Main
    <3> QED
      BY <3>1
  <2>4. CASE StopRtcp \/ Join
    <3>1. main' # "start" /\ pending' = pending /\ thread' = thread
      BY <2>4 DEF StopRtcp, Join, Main
    <3> QED
      BY <3>1
  <2> QED
    BY <1>4, <2>1, <2>2, <2>3, <2>4 DEF close
<1>5. CASE UNCHANGED vars
  BY <1>5 DEF vars, history, network
<1> QED
  BY <1>1, <1>2, <1>3, <1>4, <1>5 DEF Next

LEMMA StepNotStopped == IInv /\ [Next]_vars => NotStopped'
<1> SUFFICES ASSUME IInv, [Next]_vars PROVE NotStopped'
  OBVIOUS
<1> USE DEF IInv, Buffers, Places, NotStarted, NotStopped
<1>1. CASE run
  BY <1>1 DEF run, Bind, Allocate, SetReady, Receive, Complete, Abort, Return, Thread,
              ThreadAt, history, network
<1>2. CASE handle_receive
  BY <1>2 DEF handle_receive, CloseOnEmpty, Parse, CheckStopped, Again, Thread, ThreadAt,
              history, network
<1>3. CASE Arrive \/ StartSession \/ close
  BY <1>3 DEF Arrive, StartSession, close, StopStored, StopSocket, StopContext,
              DeleteBuffer, DeleteContext, StopRtcp, Join, Main, Uses, history, network
<1>4. CASE UNCHANGED vars
  BY <1>4 DEF vars, history, network
<1> QED
  BY <1>1, <1>2, <1>3, <1>4 DEF Next

LEMMA StepLastOne == IInv /\ [Next]_vars => LastOne'
<1> SUFFICES ASSUME IInv, [Next]_vars PROVE LastOne'
  OBVIOUS
<1> USE DEF IInv, Buffers, Places, OneReceive, NotStarted, NotStopped, LastOne, SetUp
<1>1. CASE run
  BY <1>1 DEF run, Bind, Allocate, SetReady, Receive, Complete, Abort, Return, Thread,
              ThreadAt, history, network
<1>2. CASE handle_receive
  <2>1. CASE Parse
    <3>1. ready' = ready /\ stopped' = stopped /\ pending' = pending /\ thread' = "parsed"
      BY <2>1 DEF Parse, Thread
    <3>2. CASE ready
      <4>1. stopped /\ late = 0 /\ ~pending
        BY <2>1, <3>2 DEF Parse, Thread, ThreadAt
      <4>2. late' = 1
        BY <2>1, <4>1 DEF Parse
      <4> QED
        BY <3>1, <4>1, <4>2
    <3> QED
      BY <3>1, <3>2
  <2>2. CASE CheckStopped \/ CloseOnEmpty
    BY <2>2 DEF CheckStopped, CloseOnEmpty, Again, Thread, ThreadAt, history
  <2> QED
    BY <1>2, <2>1, <2>2 DEF handle_receive
<1>3. CASE Arrive
  BY <1>3 DEF Arrive, history
<1>4. CASE StartSession \/ close
  <2>1. CASE StopStored
    <3>1. ready' = (thread \in {"run", "handle_receive", "parsed", "receive"})
      BY <2>1 DEF StopStored
    <3>2. stopped' = TRUE /\ thread' = thread /\ late' = 0
      BY <2>1 DEF StopStored, Main
    <3>3. ready' => thread \in {"run", "handle_receive", "parsed", "receive"}
      BY <3>1, Zenon
    <3> QED
      BY <3>2, <3>3
  <2>2. CASE StopSocket \/ StopContext \/ DeleteBuffer \/ DeleteContext
    BY <2>2 DEF StopSocket, StopContext, DeleteBuffer, DeleteContext, history
  <2>3. CASE StartSession \/ StopRtcp \/ Join
    BY <2>3 DEF StartSession, StopRtcp, Join, Main, history
  <2> QED
    BY <1>4, <2>1, <2>2, <2>3 DEF close
<1>5. CASE UNCHANGED vars
  BY <1>5 DEF vars, history, network
<1> QED
  BY <1>1, <1>2, <1>3, <1>4, <1>5 DEF Next

THEOREM Invariance == Spec => []IInv
<1>1. IInv /\ [Next]_vars => IInv'
  BY StepBuffers, StepInBuffer, StepPlaces, StepNotStopped, StepLastOne DEF IInv
<1> QED
  BY InitInv, <1>1, PTL DEF Spec

-------------------------------------------------------------------------------
(* What a datagram can rely on.                                            *)

\* However many datagrams come, and wherever close finds the thread, the parsers see
\* each datagram that was received, once and in order, up to an empty one, which none
\* sees and after which none is received.
THEOREM ReceivedCorrect == Spec => []ReceivedIsParsed
<1>1. IInv => ReceivedIsParsed
  <2> SUFFICES ASSUME IInv PROVE ReceivedIsParsed
    OBVIOUS
  <2>1. CASE thread # "handle_receive" /\ received = parsed
    BY <2>1 DEF IInv, InBuffer, ReceivedIsParsed
  <2>2. CASE (thread = "handle_receive" \/ GaveUp) /\ received = Append(parsed, buffer)
    <3>1. Front(received) = parsed /\ Last(received) = buffer /\ received # <<>>
      BY <2>2, FrontOfAppend DEF IInv, Buffers
    <3> QED
      BY <2>2, <3>1 DEF GaveUp, ReceivedIsParsed
  <2> QED
    BY <2>1, <2>2 DEF IInv, InBuffer
<1> QED
  BY Invariance, <1>1, PTL

\* Once a running session is told to stop, at most one datagram is still parsed:
\* handle_receive reads stopped after the parsers and before the next receive.
THEOREM LateBounded == Spec => []AtMostOneLate
<1>1. IInv => AtMostOneLate
  BY DEF IInv, LastOne, AtMostOneLate
<1> QED
  BY Invariance, <1>1, PTL

-------------------------------------------------------------------------------
(* Sequences, and the least of a set of numbers.                           *)

LEMMA Least ==
  ASSUME NEW S \in SUBSET Nat, S # {}
  PROVE  /\ Rtsp!Min(S) \in S
         /\ \A y \in S : Rtsp!Min(S) <= y
<1>1. PICK x \in S : \A y \in S : ~(<<y, x>> \in OpToRel(<, Nat))
  BY WFMin, NatLessThanWellFounded
<1>2. \A y \in S : y \in Nat /\ (y < x => <<y, x>> \in OpToRel(<, Nat))
  BY DEF OpToRel
<1>3. \A y \in S : ~(y < x)
  BY <1>1, <1>2, Zenon
<1>4. \A y \in S : x <= y
  BY <1>3
<1> QED
  BY <1>4 DEF Rtsp!Min

\* A function on an initial segment of the numbers is a sequence.
LEMMA FunctionIsSeq ==
  ASSUME NEW S, NEW n \in Nat, NEW f \in [1 .. n -> S]
  PROVE  /\ f \in Seq(S) /\ Len(f) = n
<1>1. f \in Seq(S)
  BY SeqDef
<1>2. DOMAIN f = 1 .. n /\ DOMAIN f = 1 .. Len(f) /\ Len(f) \in Nat
  BY <1>1, LenProperties
<1> QED
  BY <1>1, <1>2

-------------------------------------------------------------------------------
(* The answers of the server.                                              *)

Line == [kind : Rtsp!Kinds, of : Rtsp!Requests]

Kinds200 == <<"200", "header", "blank">>
KindsOther == <<"status", "header", "blank">>

LEMMA AnswerLines ==
  ASSUME Rtsp!RtspAssumption, sdp \in Descriptions, NEW n \in Rtsp!Requests
  PROVE  /\ Rtsp!Answer(n) \in Seq(Line)
         /\ Len(Rtsp!Answer(n)) \in Nat /\ Len(Rtsp!Answer(n)) >= 3
         /\ \A i \in 1 .. Len(Rtsp!Answer(n)) : Rtsp!Answer(n)[i].of = n
         /\ (Rtsp!Answer(n)[1].kind = "200") <=> n \in ok
         /\ Rtsp!Answer(n)[3].kind = "blank"
         /\ \A i \in 2 .. Len(Rtsp!Answer(n)) : Rtsp!Answer(n)[i].kind # "200"
         /\ ~(n \in ok /\ n = 2) =>
              /\ Len(Rtsp!Answer(n)) = 3
              /\ \A i \in 1 .. 3 : Rtsp!Answer(n)[i].kind # "Content-Length"
         /\ n \in ok =>
              Rtsp!Answer(n)[1].kind # "blank" /\ Rtsp!Answer(n)[2].kind # "blank"
         /\ n \in ok /\ n = 2 =>
              /\ Len(Rtsp!Answer(n)) = 3 + Len(sdp)
              /\ Rtsp!Answer(n)[2].kind = "Content-Length"
              /\ \A i \in 1 .. Len(sdp) :
                   Rtsp!Answer(n)[3 + i].kind = sdp[i] /\ sdp[i] \in Rtsp!SdpLines
         /\ sdp \in Seq(Rtsp!SdpLines) /\ Len(sdp) \in Nat
<1> DEFINE kinds == IF n \notin ok THEN KindsOther
                    ELSE IF n = 2 THEN <<"200", "Content-Length", "blank">> \o sdp
                    ELSE Kinds200
           answer == [i \in DOMAIN kinds |-> [kind |-> kinds[i], of |-> n]]
<1>1. Rtsp!Answer(n) = answer
  BY DEF Rtsp!Answer, Rtsp!DESCRIBE, KindsOther, Kinds200
<1>2. sdp \in Seq(Rtsp!SdpLines) /\ Len(sdp) \in Nat /\ DOMAIN sdp = 1 .. Len(sdp)
      /\ \A i \in 1 .. Len(sdp) : sdp[i] \in Rtsp!SdpLines
  BY LenProperties, ElementOfSeq DEF Rtsp!RtspAssumption
<1>3. /\ kinds \in Seq(Rtsp!Kinds) /\ Len(kinds) \in Nat /\ Len(kinds) >= 3
      /\ DOMAIN kinds = 1 .. Len(kinds)
      /\ (kinds[1] = "200") <=> n \in ok
      /\ kinds[3] = "blank"
      /\ \A i \in 2 .. Len(kinds) : kinds[i] # "200"
      /\ ~(n \in ok /\ n = 2) => Len(kinds) = 3 /\ \A i \in 1 .. 3 : kinds[i] # "Content-Length"
      /\ n \in ok => kinds[1] # "blank" /\ kinds[2] # "blank"
      /\ n \in ok /\ n = 2 =>
           /\ Len(kinds) = 3 + Len(sdp)
           /\ kinds[2] = "Content-Length"
           /\ \A i \in 1 .. Len(sdp) : kinds[3 + i] = sdp[i]
  <2>1. CASE n \notin ok
    <3>1. kinds = KindsOther
      BY <2>1
    <3> QED
      BY <2>1, <3>1 DEF KindsOther, Rtsp!Kinds
  <2>2. CASE n \in ok /\ n # 2
    <3>1. kinds = Kinds200
      BY <2>2
    <3> QED
      BY <2>2, <3>1 DEF Kinds200, Rtsp!Kinds
  <2>3. CASE n \in ok /\ n = 2
    <3> DEFINE head == <<"200", "Content-Length", "blank">>
    <3>1. kinds = head \o sdp
      BY <2>3
    <3>2. head \in Seq(Rtsp!Kinds) /\ Len(head) = 3 /\ head[1] = "200"
          /\ head[2] = "Content-Length" /\ head[3] = "blank"
      BY DEF Rtsp!Kinds
    <3>3. sdp \in Seq(Rtsp!Kinds)
      BY <1>2, SeqDef DEF Rtsp!Kinds
    <3> HIDE DEF head, kinds
    <3>4. /\ kinds \in Seq(Rtsp!Kinds) /\ Len(kinds) = 3 + Len(sdp)
          /\ \A i \in 1 .. 3 + Len(sdp) : kinds[i] = IF i <= 3 THEN head[i] ELSE sdp[i - 3]
      <4>1. head \in Seq(Rtsp!Kinds) /\ Len(head) = 3
        BY <3>2
      <4>2. /\ head \o sdp \in Seq(Rtsp!Kinds)
            /\ Len(head \o sdp) = Len(head) + Len(sdp)
            /\ \A i \in 1 .. Len(head) + Len(sdp) :
                 (head \o sdp)[i] = IF i <= Len(head) THEN head[i] ELSE sdp[i - Len(head)]
        BY <3>3, <4>1, ConcatProperties, Zenon
      <4> QED
        BY <3>1, <4>1, <4>2, Zenon
    <3>5. DOMAIN kinds = 1 .. Len(kinds)
      BY <3>4, LenProperties
    <3>6. kinds[1] = "200" /\ kinds[2] = "Content-Length" /\ kinds[3] = "blank"
      BY <1>2, <3>2, <3>4
    <3>7. \A i \in 1 .. Len(sdp) : kinds[3 + i] = sdp[i]
      BY <1>2, <3>4
    <3>8. \A i \in 2 .. Len(kinds) : kinds[i] # "200"
      <4> SUFFICES ASSUME NEW i \in 2 .. Len(kinds) PROVE kinds[i] # "200"
        OBVIOUS
      <4>1. i \in 1 .. 3 + Len(sdp) /\ i \in Nat /\ Len(sdp) \in Nat
        BY <1>2, <3>4
      <4>2. CASE i <= 3
        <5>1. i \in {2, 3}
          BY <4>1, <4>2
        <5> QED
          BY <3>6, <5>1
      <4>3. CASE i > 3
        <5>1. i - 3 \in 1 .. Len(sdp) /\ kinds[i] = sdp[i - 3]
          BY <3>4, <4>1, <4>3
        <5> QED
          BY <1>2, <5>1 DEF Rtsp!SdpLines
      <4> QED
        BY <4>1, <4>2, <4>3
    <3> QED
      BY <1>2, <2>3, <3>4, <3>5, <3>6, <3>7, <3>8
  <2> QED
    BY <2>1, <2>2, <2>3
<1> HIDE DEF kinds
<1>a. Len(kinds) \in Nat /\ Len(kinds) >= 3 /\ DOMAIN kinds = 1 .. Len(kinds)
  BY <1>3
<1>b. \A i \in 1 .. Len(kinds) : kinds[i] \in Rtsp!Kinds
  <2>1. kinds \in Seq(Rtsp!Kinds)
    BY <1>3
  <2> QED
    BY <2>1, ElementOfSeq
<1>4. answer \in [1 .. Len(kinds) -> Line]
  BY <1>a, <1>b DEF Line
<1>5. answer \in Seq(Line) /\ Len(answer) = Len(kinds)
  BY <1>a, <1>4, FunctionIsSeq
<1>6. \A i \in 1 .. Len(kinds) : answer[i].kind = kinds[i] /\ answer[i].of = n
  BY <1>a
<1> HIDE DEF answer
<1>7. 1 \in 1 .. Len(kinds) /\ 2 \in 1 .. Len(kinds) /\ 3 \in 1 .. Len(kinds)
  BY <1>a
<1>8. ASSUME n \in ok /\ n = 2, NEW i \in 1 .. Len(sdp)
      PROVE  3 + i \in 1 .. Len(kinds) /\ kinds[3 + i] = sdp[i]
  <2>1. Len(kinds) = 3 + Len(sdp) /\ kinds[3 + i] = sdp[i]
    BY <1>3, <1>8
  <2>2. Len(sdp) \in Nat
    BY <1>2
  <2> QED
    BY <2>1, <2>2
<1>9. \A i \in 2 .. Len(kinds) : i \in 1 .. Len(kinds)
  BY <1>a
<1>10. \A i \in 2 .. Len(answer) : answer[i].kind # "200"
  <2>1. \A i \in 2 .. Len(kinds) : kinds[i] # "200"
    BY <1>3
  <2> QED
    BY <2>1, <1>5, <1>6, <1>9, Zenon
<1>11. ~(n \in ok /\ n = 2) =>
         Len(answer) = 3 /\ \A i \in 1 .. 3 : answer[i].kind # "Content-Length"
  BY <1>3, <1>5, <1>6
<1>12. n \in ok /\ n = 2 =>
         /\ Len(answer) = 3 + Len(sdp)
         /\ answer[2].kind = "Content-Length"
         /\ \A i \in 1 .. Len(sdp) :
              answer[3 + i].kind = sdp[i] /\ sdp[i] \in Rtsp!SdpLines
  <2> SUFFICES ASSUME n \in ok /\ n = 2
               PROVE  /\ Len(answer) = 3 + Len(sdp)
                      /\ answer[2].kind = "Content-Length"
                      /\ \A i \in 1 .. Len(sdp) :
                           answer[3 + i].kind = sdp[i] /\ sdp[i] \in Rtsp!SdpLines
    OBVIOUS
  <2>1. Len(answer) = 3 + Len(sdp)
    BY <1>3, <1>5
  <2>2. answer[2].kind = "Content-Length"
    BY <1>3, <1>6, <1>7
  <2>3. \A i \in 1 .. Len(sdp) : answer[3 + i].kind = sdp[i]
    BY <1>6, <1>8
  <2> QED
    BY <1>2, <2>1, <2>2, <2>3
<1>13. /\ (answer[1].kind = "200") <=> n \in ok
       /\ answer[3].kind = "blank"
       /\ n \in ok => answer[1].kind # "blank" /\ answer[2].kind # "blank"
  BY <1>3, <1>6, <1>7
<1>14. Len(answer) \in Nat /\ Len(answer) >= 3
  BY <1>a, <1>5
<1>15. \A i \in 1 .. Len(answer) : answer[i].of = n
  BY <1>5, <1>6
<1> QED
  BY <1>1, <1>2, <1>5, <1>10, <1>11, <1>12, <1>13, <1>14, <1>15, Zenon

-------------------------------------------------------------------------------
(* What is on the wire, wherever the answers were cut.                     *)

Connections == {"open", "silent", "closed"}

\* What the variables of RtspClient hold.
RtspTypes ==
  /\ sdp \in Descriptions /\ connection \in Connections
  /\ result \in [Rtsp!Requests -> Nat]
  /\ Rtsp!TypeOK

\* The answer to a request is parsed once, and not before the request.
NotYet ==
  \A n \in Rtsp!Requests :
    n > request \/ (n = request /\ pc # "playing") => result[n] = 0

\* Behind off lines of earlier answers stands what the server sent of the one awaited,
\* which is all of it unless it broke off.
Answering(off) ==
  /\ \A i \in 1 .. off : wire[i].of < request /\ (request <= 2 => wire[i].kind # "200")
  /\ Len(wire) - off <= Len(Rtsp!Answer(request))
  /\ connection = "open" => Len(wire) - off = Len(Rtsp!Answer(request))
  /\ \A i \in off + 1 .. Len(wire) : wire[i] = Rtsp!Answer(request)[i - off]
  /\ Rtsp!Clean(request) => off = 0

Awaited == pc = "read" => \E off \in 0 .. Len(wire) : Answering(off)

\* Between two requests only lines of earlier answers are on the wire, and none if those
\* were read to their ends.
Between ==
  pc \in {"connect", "write", "start session"} =>
    /\ \A i \in 1 .. Len(wire) :
         wire[i].of < request /\ (request <= 2 => wire[i].kind # "200")
    /\ Rtsp!Clean(request) => wire = <<>>

\* The lines "200" on the wire are of ascending requests, later ones than those whose
\* answers were parsed.
Ascending ==
  \A i, j \in 1 .. Len(wire) :
    i < j /\ wire[i].kind = "200" /\ wire[j].kind = "200" => wire[i].of < wire[j].of

Later ==
  \A i \in 1 .. Len(wire), m \in Rtsp!Requests :
    wire[i].kind = "200" => result[m] < wire[i].of

Statuses == Ascending /\ Later

\* The description parsed for DESCRIBE ends with its first track, as long as the
\* connection stands.
FirstBody == result[2] = 2 /\ connection = "open" => body = Rtsp!FirstMedium

\* The session was told of the body, before PLAY.
Told ==
  /\ pc = "connect" => request = 1
  /\ pc = "start session" => request = 4
  /\ session.started =>
       /\ request = 4
       /\ session.codecs = Rtsp!codecs(body) /\ session.fmtp = Rtsp!fmtp(body)

RtspInv ==
  /\ RtspTypes /\ NotYet /\ Rtsp!AnswersMatch /\ Awaited /\ Between /\ Statuses
  /\ FirstBody /\ Told

\* The end of a sequence.
LEMMA SuffixOf ==
  ASSUME NEW S, NEW s \in Seq(S), NEW k \in Nat, k <= Len(s)
  PROVE  /\ SubSeq(s, k + 1, Len(s)) \in Seq(S)
         /\ Len(SubSeq(s, k + 1, Len(s))) = Len(s) - k
         /\ \A i \in 1 .. Len(s) - k : SubSeq(s, k + 1, Len(s))[i] = s[k + i]
<1> DEFINE l == Len(s)
<1>1. l \in Nat /\ k <= l
  BY LenProperties
<1>2. \A i \in k + 1 .. l : s[i] \in S
  <2>1. \A i \in k + 1 .. l : i \in 1 .. l
    BY <1>1
  <2> QED
    BY <2>1, ElementOfSeq
<1> HIDE DEF l
<1>3. k + 1 \in Int /\ l \in Int
  BY <1>1
<1>4. /\ SubSeq(s, k + 1, l) \in Seq(S)
      /\ Len(SubSeq(s, k + 1, l)) = IF k + 1 <= l THEN l - (k + 1) + 1 ELSE 0
      /\ \A i \in 1 .. l - (k + 1) + 1 : SubSeq(s, k + 1, l)[i] = s[k + 1 + i - 1]
  BY <1>2, <1>3, SubSeqProperties
<1>5. Len(SubSeq(s, k + 1, l)) = l - k
  BY <1>1, <1>4
<1>6. \A i \in 1 .. l - k : k + 1 + i - 1 = k + i /\ i \in 1 .. l - (k + 1) + 1
  BY <1>1
<1>7. \A i \in 1 .. l - k : SubSeq(s, k + 1, l)[i] = s[k + i]
  BY <1>4, <1>6
<1> QED
  BY <1>4, <1>5, <1>7 DEF l

\* What a read leaves: lines behind those it was to read, of which the first may have
\* lost its beginning.
LEMMA ConsumeLeaves ==
  ASSUME wire \in Seq(Line), NEW n \in Nat, Rtsp!Consume(n)
  PROVE  /\ wire' \in Seq(Line)
         /\ n <= Len(wire)
         /\ n = Len(wire) => wire' = <<>>
         /\ \E k \in n .. Len(wire) :
              /\ Len(wire') = Len(wire) - k
              /\ \A i \in 1 .. Len(wire) - k :
                   /\ wire'[i].of = wire[k + i].of
                   /\ wire'[i].kind \in {wire[k + i].kind, "rest"}
<1> DEFINE l == Len(wire)
<1>0. l \in Nat
  BY LenProperties
<1>1. PICK k \in n .. l :
        \/ wire' = SubSeq(wire, k + 1, l)
        \/ /\ k < l /\ wire[k + 1].kind # "blank"
           /\ wire' = <<[wire[k + 1] EXCEPT !.kind = "rest"]>> \o SubSeq(wire, k + 2, l)
  BY DEF Rtsp!Consume
<1>2. k \in Nat /\ k <= l /\ n <= k
  BY <1>0, <1>1
<1>3. CASE wire' = SubSeq(wire, k + 1, l)
  <2>1. /\ wire' \in Seq(Line) /\ Len(wire') = l - k
        /\ \A i \in 1 .. l - k : wire'[i] = wire[k + i]
    BY <1>2, <1>3, SuffixOf
  <2>2. n = l => wire' = <<>>
    BY <1>0, <1>2, <2>1, EmptySeq
  <2>3. \A i \in 1 .. l - k :
          wire'[i].of = wire[k + i].of /\ wire'[i].kind \in {wire[k + i].kind, "rest"}
    BY <2>1
  <2>4. n <= l
    BY <1>0, <1>2
  <2> QED
    BY <1>1, <2>1, <2>2, <2>3, <2>4, Zenon
<1>4. CASE /\ k < l /\ wire[k + 1].kind # "blank"
           /\ wire' = <<[wire[k + 1] EXCEPT !.kind = "rest"]>> \o SubSeq(wire, k + 2, l)
  <2> DEFINE cut == [wire[k + 1] EXCEPT !.kind = "rest"]
             rest == SubSeq(wire, k + 2, l)
  <2>1. k + 1 \in 1 .. l /\ k + 1 \in Nat /\ k + 1 <= l /\ k + 1 + 1 = k + 2
    BY <1>0, <1>2, <1>4
  <2>2. wire[k + 1] \in Line
    BY <2>1, ElementOfSeq
  <2>3. cut \in Line /\ cut.of = wire[k + 1].of /\ cut.kind = "rest"
    BY <2>2 DEF Line, Rtsp!Kinds
  <2>4. /\ rest \in Seq(Line) /\ Len(rest) = l - (k + 1)
        /\ \A i \in 1 .. l - (k + 1) : rest[i] = wire[k + 1 + i]
    <3>1. PICK m : m = k + 1
      OBVIOUS
    <3>2. m \in Nat /\ m <= Len(wire) /\ m + 1 = k + 2
      BY <2>1, <3>1
    <3>3. /\ SubSeq(wire, m + 1, l) \in Seq(Line) /\ Len(SubSeq(wire, m + 1, l)) = l - m
          /\ \A i \in 1 .. l - m : SubSeq(wire, m + 1, l)[i] = wire[m + i]
      BY <3>2, SuffixOf, Zenon
    <3> QED
      BY <3>1, <3>2, <3>3, Zenon
  <2> HIDE DEF cut, rest
  <2>5. <<cut>> \in Seq(Line) /\ Len(<<cut>>) = 1 /\ <<cut>>[1] = cut
    BY <2>3
  <2>6. /\ wire' \in Seq(Line) /\ Len(wire') = 1 + (l - (k + 1))
        /\ \A i \in 1 .. 1 + (l - (k + 1)) :
             wire'[i] = IF i <= 1 THEN <<cut>>[i] ELSE rest[i - 1]
    <3>1. /\ <<cut>> \o rest \in Seq(Line)
          /\ Len(<<cut>> \o rest) = Len(<<cut>>) + Len(rest)
          /\ \A i \in 1 .. Len(<<cut>>) + Len(rest) : (<<cut>> \o rest)[i] =
               IF i <= Len(<<cut>>) THEN <<cut>>[i] ELSE rest[i - Len(<<cut>>)]
      BY <2>4, <2>5, ConcatProperties, Zenon
    <3>2. wire' = <<cut>> \o rest
      BY <1>4 DEF cut, rest
    <3> QED
      BY <2>4, <2>5, <3>1, <3>2, Zenon
  <2>7. ASSUME NEW i \in 1 .. l - k
        PROVE  wire'[i].of = wire[k + i].of /\ wire'[i].kind \in {wire[k + i].kind, "rest"}
    <3>1. CASE i = 1
      <4>1. wire'[i] = cut /\ k + i = k + 1
        BY <1>0, <1>2, <2>1, <2>5, <2>6, <3>1
      <4> QED
        BY <2>3, <4>1
    <3>2. CASE i # 1
      <4>1. i \in 1 .. 1 + (l - (k + 1)) /\ i > 1
        BY <1>0, <1>2, <3>2
      <4>2. i - 1 \in 1 .. l - (k + 1) /\ k + 1 + (i - 1) = k + i
        BY <1>0, <1>2, <2>1, <4>1
      <4>3. wire'[i] = wire[k + 1 + (i - 1)]
        BY <2>4, <2>6, <4>1, <4>2
      <4> QED
        BY <4>2, <4>3
    <3> QED
      BY <3>1, <3>2
  <2>8. n # l /\ n <= l /\ Len(wire') = l - k
    BY <1>0, <1>2, <1>4, <2>6
  <2> QED
    BY <1>1, <2>6, <2>7, <2>8
<1> QED
  BY <1>1, <1>3, <1>4

\* A read leaves the order of the lines "200", of which it adds none.
LEMMA StatusesLeft ==
  ASSUME wire \in Seq(Line), Ascending, NEW n \in Nat, Rtsp!Consume(n)
  PROVE  /\ Ascending'
         /\ \A i \in 1 .. Len(wire') : wire'[i].kind = "200" =>
              \E j \in n + 1 .. Len(wire) :
                wire[j].kind = "200" /\ wire'[i].of = wire[j].of
<1> DEFINE l == Len(wire)
<1>0. l \in Nat
  BY LenProperties
<1>1. PICK k \in n .. l :
        /\ Len(wire') = l - k
        /\ \A i \in 1 .. l - k :
             wire'[i].of = wire[k + i].of /\ wire'[i].kind \in {wire[k + i].kind, "rest"}
  BY ConsumeLeaves
<1> HIDE DEF l
<1>2. ASSUME NEW i \in 1 .. Len(wire'), wire'[i].kind = "200"
      PROVE  /\ i \in Nat /\ k + i \in n + 1 .. l /\ k + i \in 1 .. l
             /\ wire[k + i].kind = "200" /\ wire'[i].of = wire[k + i].of
  <2>1. i \in 1 .. l - k /\ i \in Nat /\ k + i \in n + 1 .. l /\ k + i \in 1 .. l
    BY <1>0, <1>1
  <2> QED
    BY <1>1, <1>2, <2>1
<1>3. ASSUME NEW i \in 1 .. Len(wire'), NEW j \in 1 .. Len(wire'),
             i < j, wire'[i].kind = "200", wire'[j].kind = "200"
      PROVE  wire'[i].of < wire'[j].of
  <2>1. /\ k + i \in 1 .. l /\ wire[k + i].kind = "200" /\ wire'[i].of = wire[k + i].of
        /\ k + j \in 1 .. l /\ wire[k + j].kind = "200" /\ wire'[j].of = wire[k + j].of
        /\ k + i < k + j
    <3>1. i \in Nat /\ j \in Nat /\ k \in Nat
      BY <1>0, <1>2, <1>3
    <3>2. k + i < k + j
      BY <1>3, <3>1
    <3> QED
      BY <1>2, <1>3, <3>2
  <2>2. \A a, b \in 1 .. l :
          a < b /\ wire[a].kind = "200" /\ wire[b].kind = "200" => wire[a].of < wire[b].of
    BY DEF Ascending, l
  <2>3. wire[k + i].of < wire[k + j].of
    BY <2>1, <2>2, Zenon
  <2> QED
    BY <2>1, <2>3
<1>4. Ascending'
  BY <1>3 DEF Ascending
<1> QED
  BY <1>2, <1>4 DEF l

LEMMA RtspInit ==
  ASSUME Rtsp!RtspAssumption, Rtsp!Init
  PROVE  RtspInv
<1> USE DEF Rtsp!Requests, Rtsp!OPTIONS
<1>1. wire = <<>> /\ Len(wire) = 0 /\ request = 1 /\ pc = "connect" /\ connection = "open"
      /\ result = [n \in 1 .. 4 |-> 0] /\ body = <<>> /\ transport = FALSE
      /\ session = [ports |-> FALSE, codecs |-> {}, fmtp |-> {}, started |-> FALSE]
      /\ sdp \in Descriptions
  BY DEF Rtsp!Init
<1>2. wire \in Seq([kind : Rtsp!Kinds, of : 1 .. 4]) /\ body \in Seq(Rtsp!SdpLines)
  BY <1>1
<1>3. \A n \in 1 .. 4 : result[n] = 0
  BY <1>1
<1>4. RtspTypes
  <2>1. session.ports = FALSE /\ session.started = FALSE /\ session.codecs = {}
        /\ session.fmtp = {}
    BY <1>1
  <2>2. result \in [1 .. 4 -> Nat] /\ \A n \in 1 .. 4 : result[n] \in 0 .. n
    <3>1. result \in [1 .. 4 -> Nat]
      <4>1. [n \in 1 .. 4 |-> 0] \in [1 .. 4 -> Nat]
        OBVIOUS
      <4> QED
        BY <1>1, <4>1, Zenon
    <3>2. \A n \in 1 .. 4 : 0 \in 0 .. n
      OBVIOUS
    <3> QED
      BY <1>3, <3>1, <3>2
  <2>3. connection \in Connections /\ sdp \in Descriptions /\ request \in 1 .. 4
    <3>1. connection \in Connections /\ sdp \in Descriptions
      BY <1>1, Zenon DEF Connections
    <3>2. request = 1
      BY <1>1, Zenon
    <3> QED
      BY <3>1, <3>2
  <2>4. {transport, session.ports, session.started} \subseteq BOOLEAN
    BY <1>1, <2>1
  <2>5. session.codecs \union session.fmtp \subseteq {"m=video", "m=audio"}
    BY <2>1
  <2> QED
    BY <1>1, <1>2, <2>2, <2>3, <2>4, <2>5 DEF RtspTypes, Rtsp!TypeOK
<1>5. NotYet /\ Rtsp!AnswersMatch
  BY <1>3 DEF NotYet, Rtsp!AnswersMatch
<1>6. Awaited /\ Between /\ Statuses
  BY <1>1 DEF Awaited, Between, Statuses, Ascending, Later
<1>7. FirstBody /\ Told
  BY <1>1, <1>3 DEF FirstBody, Told
<1> QED
  BY <1>4, <1>5, <1>6, <1>7 DEF RtspInv

\* What the server says of itself does not change.
LEMMA ServerStays ==
  ASSUME UNCHANGED <<ok, sdp>>
  PROVE  /\ \A n \in Rtsp!Requests : Rtsp!Clean(n)' <=> Rtsp!Clean(n)
         /\ \A n \in Rtsp!Requests : Rtsp!Answer(n)' = Rtsp!Answer(n)
         /\ Rtsp!FirstMedium' = Rtsp!FirstMedium
<1>1. \A n \in Rtsp!Requests : Rtsp!Clean(n)' <=> Rtsp!Clean(n)
  BY DEF Rtsp!Clean, Rtsp!EndsWithTrack
<1>2. \A n \in Rtsp!Requests : Rtsp!Answer(n)' = Rtsp!Answer(n)
  BY DEF Rtsp!Answer
<1>3. Rtsp!FirstMedium' = Rtsp!FirstMedium
  BY DEF Rtsp!FirstMedium
<1> QED
  BY <1>1, <1>2, <1>3

LEMMA BodyStays ==
  ASSUME UNCHANGED body
  PROVE  Rtsp!codecs(body)' = Rtsp!codecs(body) /\ Rtsp!fmtp(body)' = Rtsp!fmtp(body)
<1>1. Rtsp!codecs(body)' = Rtsp!codecs(body)
  BY DEF Rtsp!codecs, Rtsp!Described
<1>2. Rtsp!fmtp(body)' = Rtsp!fmtp(body)
  BY DEF Rtsp!fmtp, Rtsp!Described
<1> QED
  BY <1>1, <1>2

LEMMA RtspConnect ==
  ASSUME RtspInv, Rtsp!init
  PROVE  RtspInv'
<1> USE DEF Rtsp!Requests
<1>1. /\ pc = "connect" /\ pc' = "write" /\ connection' \in {"open", "closed"}
      /\ UNCHANGED <<ok, sdp, wire, request, result, body, transport, session>>
  BY DEF Rtsp!init, Rtsp!server
<1>2. request = 1
  BY <1>1 DEF RtspInv, Told
<1>3. RtspTypes'
  BY <1>1 DEF RtspInv, RtspTypes, Rtsp!TypeOK, Connections
<1>4. NotYet'
  BY <1>1 DEF RtspInv, NotYet
<1>5. Rtsp!AnswersMatch'
  BY <1>1, ServerStays DEF RtspInv, Rtsp!AnswersMatch
<1>6. Awaited'
  BY <1>1 DEF Awaited
<1>7. Between' /\ Statuses'
  BY <1>1, <1>2, ServerStays DEF RtspInv, Between, Statuses, Ascending, Later
<1>8. result[2] = 0
  BY <1>2 DEF RtspInv, NotYet
<1>9. FirstBody' /\ Told'
  BY <1>1, <1>2, <1>8 DEF RtspInv, FirstBody, Told, Rtsp!codecs, Rtsp!fmtp, Rtsp!Described
<1> QED
  BY <1>3, <1>4, <1>5, <1>6, <1>7, <1>9 DEF RtspInv

\* Behind what is on the wire comes the answer, or its beginning.
LEMMA WireGrows ==
  ASSUME wire \in Seq(Line), NEW A \in Seq(Line)
  PROVE  /\ wire \o A \in Seq(Line)
         /\ Len(wire) \in Nat /\ Len(A) \in Nat
         /\ Len(wire \o A) = Len(wire) + Len(A)
         /\ \A i \in 1 .. Len(wire) : (wire \o A)[i] = wire[i]
         /\ \A i \in Len(wire) + 1 .. Len(wire) + Len(A) : (wire \o A)[i] = A[i - Len(wire)]
<1> DEFINE l == Len(wire)
           a == Len(A)
<1>1. l \in Nat /\ a \in Nat
  BY LenProperties
<1>2. /\ wire \o A \in Seq(Line) /\ Len(wire \o A) = l + a
      /\ \A i \in 1 .. l + a : (wire \o A)[i] = IF i <= l THEN wire[i] ELSE A[i - l]
  BY ConcatProperties
<1> HIDE DEF l, a
<1>3. \A i \in 1 .. l : (wire \o A)[i] = wire[i]
  <2>1. \A i \in 1 .. l : i \in 1 .. l + a /\ i <= l
    BY <1>1
  <2> QED
    BY <1>2, <2>1, Zenon
<1>4. \A i \in l + 1 .. l + a : (wire \o A)[i] = A[i - l]
  <2>1. \A i \in l + 1 .. l + a : i \in 1 .. l + a /\ ~(i <= l)
    BY <1>1
  <2> QED
    BY <1>2, <2>1, Zenon
<1> QED
  BY <1>1, <1>2, <1>3, <1>4 DEF l, a

LEMMA RtspWrite ==
  ASSUME Rtsp!RtspAssumption, RtspInv, Rtsp!write
  PROVE  RtspInv'
<1> USE DEF Rtsp!Requests
<1> DEFINE l == Len(wire)
           answer == Rtsp!Answer(request)
<1>1. /\ pc = "write" /\ pc' \in {"read", "crashed"}
      /\ UNCHANGED <<ok, sdp, request, result, body, transport, session>>
  BY DEF Rtsp!write, Rtsp!server
<1>2. request \in 1 .. 4 /\ sdp \in Descriptions /\ connection \in Connections
      /\ wire \in Seq(Line) /\ l \in Nat
  BY LenProperties DEF RtspInv, RtspTypes, Rtsp!TypeOK, Line
<1>3. answer \in Seq(Line) /\ Len(answer) \in Nat /\ Len(answer) >= 3
  BY <1>2, AnswerLines
<1>4. /\ wire' \in Seq(Line) /\ connection' \in Connections
      /\ connection' = "open" => connection = "open"
      /\ pc' = "read" =>
           /\ Len(wire') \in Nat /\ l <= Len(wire') /\ Len(wire') - l <= Len(answer)
           /\ connection' = "open" => Len(wire') - l = Len(answer)
           /\ \A i \in 1 .. l : wire'[i] = wire[i]
           /\ \A i \in l + 1 .. Len(wire') : wire'[i] = answer[i - l]
  <2>1. CASE connection = "open" /\ pc' = "read" /\ wire' = wire \o answer /\ UNCHANGED connection
    <3>1. /\ wire \o answer \in Seq(Line) /\ Len(wire \o answer) = l + Len(answer)
          /\ \A i \in 1 .. l : (wire \o answer)[i] = wire[i]
          /\ \A i \in l + 1 .. l + Len(answer) : (wire \o answer)[i] = answer[i - l]
      BY <1>2, <1>3, WireGrows
    <3> HIDE DEF answer, l
    <3>2. /\ wire' \in Seq(Line) /\ Len(wire') = l + Len(answer)
          /\ \A i \in 1 .. l : wire'[i] = wire[i]
          /\ \A i \in l + 1 .. l + Len(answer) : wire'[i] = answer[i - l]
      BY <2>1, <3>1, Zenon
    <3>3. /\ Len(wire') \in Nat /\ l <= Len(wire') /\ Len(wire') - l = Len(answer)
          /\ Len(answer) <= Len(answer)
      BY <1>2, <1>3, <3>2
    <3> QED
      BY <1>2, <2>1, <3>2, <3>3, Zenon
  <2>2. CASE pc' = "read" /\ connection # "open" /\ UNCHANGED <<wire, connection>>
    <3> HIDE DEF answer
    <3> QED
      BY <1>2, <1>3, <2>2
  <2>3. CASE /\ pc' = "read" /\ connection = "open" /\ connection' \in {"silent", "closed"}
             /\ \E k \in 0 .. Len(answer) - 1 : wire' = wire \o SubSeq(answer, 1, k)
    <3>1. PICK k \in 0 .. Len(answer) - 1 : wire' = wire \o SubSeq(answer, 1, k)
      BY <2>3
    <3> HIDE DEF answer
    <3>2. k \in Nat /\ k <= Len(answer) /\ k \in Int /\ 1 \in Int
      BY <1>3
    <3>3. \A i \in 1 .. k : answer[i] \in Line
      <4>1. \A i \in 1 .. k : i \in 1 .. Len(answer)
        BY <1>3, <3>2
      <4> QED
        BY <1>3, <4>1, ElementOfSeq
    <3> DEFINE part == SubSeq(answer, 1, k)
    <3>4. /\ part \in Seq(Line) /\ Len(part) = IF 1 <= k THEN k - 1 + 1 ELSE 0
          /\ \A i \in 1 .. k - 1 + 1 : part[i] = answer[1 + i - 1]
      BY <3>2, <3>3, SubSeqProperties
    <3> HIDE DEF part
    <3>5. Len(part) = k
      BY <3>2, <3>4
    <3>6. \A i \in 1 .. k : part[i] = answer[i]
      <4>1. \A i \in 1 .. k : 1 + i - 1 = i /\ i \in 1 .. k - 1 + 1
        BY <3>2
      <4> QED
        BY <3>4, <4>1
    <3>7. /\ wire' \in Seq(Line) /\ Len(wire') = l + k
          /\ \A i \in 1 .. l : wire'[i] = wire[i]
          /\ \A i \in l + 1 .. l + k : wire'[i] = part[i - l]
      BY <1>2, <3>1, <3>4, <3>5, WireGrows DEF part
    <3>8. \A i \in l + 1 .. l + k : wire'[i] = answer[i - l]
      <4>1. \A i \in l + 1 .. l + k : i - l \in 1 .. k
        BY <1>2, <3>2
      <4> QED
        BY <3>6, <3>7, <4>1
    <3>9. Len(wire') \in Nat /\ l <= Len(wire') /\ Len(wire') - l <= Len(answer)
      BY <1>2, <1>3, <3>2, <3>7
    <3> QED
      BY <2>3, <3>7, <3>8, <3>9 DEF Connections
  <2>4. CASE pc' = "crashed" /\ UNCHANGED <<connection, wire>>
    BY <1>2, <2>4
  <2> QED
    BY <2>1, <2>2, <2>3, <2>4 DEF Rtsp!write
<1>a. pc' = "crashed" => wire' = wire
  BY DEF Rtsp!write
<1>5. RtspTypes'
  BY <1>1, <1>4 DEF RtspInv, RtspTypes, Rtsp!TypeOK, Line
<1>6. NotYet'
  BY <1>1 DEF RtspInv, NotYet
<1>7. Rtsp!AnswersMatch'
  BY <1>1, ServerStays DEF RtspInv, Rtsp!AnswersMatch
<1>8. Awaited'
  <2> SUFFICES ASSUME pc' = "read" PROVE \E off \in 0 .. Len(wire') : Answering(off)'
    BY DEF Awaited
  <2>1. l \in 0 .. Len(wire')
    BY <1>2, <1>4
  <2>2. Rtsp!Answer(request)' = answer
    BY <1>1, <1>2, ServerStays
  <2>3. \A i \in 1 .. l : wire'[i].of < request' /\ (request' <= 2 => wire'[i].kind # "200")
    BY <1>1, <1>4 DEF RtspInv, Between
  <2>4. Rtsp!Clean(request)' => l = 0
    <3>1. Rtsp!Clean(request)' => Rtsp!Clean(request)
      BY <1>1, <1>2, ServerStays
    <3> QED
      BY <1>1, <3>1 DEF RtspInv, Between
  <2>5. PICK off \in 0 .. Len(wire') : off = l
    BY <2>1
  <2>6. Answering(off)'
    <3>1. Rtsp!Clean(request)' => off = 0
      BY <2>4, <2>5
    <3> HIDE DEF answer
    <3> QED
      BY <1>4, <2>2, <2>3, <2>5, <3>1 DEF Answering
  <2> QED
    BY <2>6
<1>9. Between'
  BY <1>1 DEF Between
<1>b. \A i \in l + 1 .. Len(wire') : pc' = "read" =>
        /\ wire'[i].of = request
        /\ wire'[i].kind = "200" => i = l + 1
  <2> SUFFICES ASSUME NEW i \in l + 1 .. Len(wire'), pc' = "read"
               PROVE  wire'[i].of = request /\ (wire'[i].kind = "200" => i = l + 1)
    OBVIOUS
  <2>1. /\ \A j \in 1 .. Len(answer) : answer[j].of = request
        /\ \A j \in 2 .. Len(answer) : answer[j].kind # "200"
    BY <1>2, AnswerLines
  <2> HIDE DEF answer, l
  <2>2. i - l \in 1 .. Len(answer) /\ wire'[i] = answer[i - l]
    BY <1>2, <1>3, <1>4
  <2>3. wire'[i].kind = "200" => ~(i - l \in 2 .. Len(answer))
    BY <2>1, <2>2
  <2>4. i # l + 1 => i - l \in 2 .. Len(answer)
    BY <1>2, <1>3, <2>2
  <2> QED
    BY <2>1, <2>2, <2>3, <2>4
<1>c. Statuses'
  <2>1. CASE pc' = "crashed"
    BY <1>1, <1>a, <2>1 DEF RtspInv, Statuses, Ascending, Later
  <2>2. CASE pc' = "read"
    <3>0. \A i \in 1 .. l : wire'[i] = wire[i] /\ wire[i].of < request
      BY <1>1, <1>4, <2>2 DEF RtspInv, Between
    <3>1. \A i \in l + 1 .. Len(wire') :
             wire'[i].of = request /\ (wire'[i].kind = "200" => i = l + 1)
      BY <1>b, <2>2
    <3>2. Len(wire') \in Nat /\ l <= Len(wire')
      BY <1>4, <2>2
    <3>3. \A i, j \in 1 .. l :
            i < j /\ wire[i].kind = "200" /\ wire[j].kind = "200" => wire[i].of < wire[j].of
      BY DEF RtspInv, Statuses, Ascending
    <3>4. \A i \in 1 .. l, m \in 1 .. 4 : wire[i].kind = "200" => result[m] < wire[i].of
      BY DEF RtspInv, Statuses, Later
    <3>5. \A m \in 1 .. 4 : result[m] < request
      <4> SUFFICES ASSUME NEW m \in 1 .. 4 PROVE result[m] < request
        OBVIOUS
      <4>1. CASE m >= request
        <5>1. m > request \/ m = request
          BY <1>2, <4>1
        <5>2. result[m] = 0
          BY <1>1, <5>1 DEF RtspInv, NotYet
        <5> QED
          BY <1>2, <5>2
      <4>2. CASE ~(m >= request)
        <5>1. result[m] \in 0 .. m
          BY DEF RtspInv, RtspTypes, Rtsp!TypeOK
        <5> QED
          BY <1>2, <4>2, <5>1
      <4> QED
        BY <4>1, <4>2
    <3> HIDE DEF l
    <3>6. \A i \in 1 .. Len(wire') : i \in 1 .. l \/ i \in l + 1 .. Len(wire')
      BY <1>2, <3>2
    <3>7. Ascending'
      <4> SUFFICES ASSUME NEW i \in 1 .. Len(wire'), NEW j \in 1 .. Len(wire'),
                          i < j, wire'[i].kind = "200", wire'[j].kind = "200"
                   PROVE  wire'[i].of < wire'[j].of
        BY DEF Ascending
      <4>1. CASE j \in 1 .. l
        <5>1. i \in 1 .. l
          BY <1>2, <4>1
        <5> QED
          BY <3>0, <3>3, <4>1, <5>1
      <4>2. CASE j \in l + 1 .. Len(wire')
        <5>1. j = l + 1 /\ wire'[j].of = request
          BY <3>1, <4>2
        <5>2. i \in 1 .. l
          BY <1>2, <5>1
        <5> QED
          BY <3>0, <5>1, <5>2
      <4> QED
        BY <3>6, <4>1, <4>2
    <3>8. Later'
      <4> SUFFICES ASSUME NEW i \in 1 .. Len(wire'), NEW m \in 1 .. 4,
                          wire'[i].kind = "200"
                   PROVE  result[m] < wire'[i].of
        BY <1>1 DEF Later
      <4>1. CASE i \in 1 .. l
        BY <3>0, <3>4, <4>1
      <4>2. CASE i \in l + 1 .. Len(wire')
        BY <3>1, <3>5, <4>2
      <4> QED
        BY <3>6, <4>1, <4>2
    <3> QED
      BY <3>7, <3>8 DEF Statuses
  <2> QED
    BY <1>1, <2>1, <2>2
<1>10. FirstBody' /\ Told'
  <2>1. connection' = "open" => connection = "open"
    BY <1>4
  <2>2. FirstBody'
    BY <1>1, <2>1, ServerStays DEF RtspInv, FirstBody
  <2>3. Told'
    BY <1>1, BodyStays DEF RtspInv, Told
  <2> QED
    BY <2>2, <2>3
<1> QED
  BY <1>5, <1>6, <1>7, <1>8, <1>9, <1>10, <1>c DEF RtspInv

-------------------------------------------------------------------------------
(* Reading an answer.                                                      *)

\* Where an answer is read there is a line.
LEMMA BeginsInWire ==
  ASSUME wire \in Seq(Line), NEW p \in {1, 2}, Rtsp!KindAt(p) # "none"
  PROVE  p \in 1 .. Len(wire) /\ Rtsp!KindAt(p) = wire[p].kind
<1>1. DOMAIN wire = 1 .. Len(wire)
  BY LenProperties
<1> QED
  BY <1>1 DEF Rtsp!KindAt

\* Every line is of an answer to a request that was sent, and behind the first line no
\* status of an answer to OPTIONS or DESCRIBE is left.
LEMMA LinesOnWire ==
  ASSUME Rtsp!RtspAssumption, RtspInv, NEW off \in 0 .. Len(wire), Answering(off),
         NEW j \in 1 .. Len(wire)
  PROVE  /\ wire[j].of <= request /\ wire[j].of \in Nat
         /\ request <= 2 /\ wire[j].kind = "200" => j = off + 1
         /\ request = 1 => off = 0
<1> USE DEF Rtsp!Requests
<1>1. request \in 1 .. 4 /\ sdp \in Descriptions /\ wire \in Seq(Line) /\ Len(wire) \in Nat
  BY LenProperties DEF RtspInv, RtspTypes, Rtsp!TypeOK, Line
<1>2. wire[j].of \in Nat
  <2>1. wire[j] \in Line
    BY <1>1, ElementOfSeq
  <2> QED
    BY <2>1 DEF Line
<1>3. request = 1 => off = 0
  BY DEF Answering, Rtsp!Clean
<1>4. off \in Nat /\ j \in Nat /\ off <= Len(wire)
  BY <1>1
<1>5. CASE j <= off
  <2>1. j \in 1 .. off
    BY <1>4, <1>5
  <2>2. wire[j].of < request /\ (request <= 2 => wire[j].kind # "200")
    BY <2>1 DEF Answering
  <2> QED
    BY <1>1, <1>2, <1>3, <2>2
<1>6. CASE j > off
  <2>1. j \in off + 1 .. Len(wire) /\ j - off \in Nat /\ j - off >= 1
    BY <1>1, <1>4, <1>6
  <2>2. wire[j] = Rtsp!Answer(request)[j - off]
    BY <2>1 DEF Answering
  <2> DEFINE answer == Rtsp!Answer(request)
  <2>3. /\ Len(answer) \in Nat /\ \A i \in 1 .. Len(answer) : answer[i].of = request
        /\ \A i \in 2 .. Len(answer) : answer[i].kind # "200"
    BY <1>1, AnswerLines
  <2>4. Len(wire) - off <= Len(answer)
    BY DEF Answering
  <2> HIDE DEF answer
  <2>5. j - off \in 1 .. Len(answer)
    BY <1>1, <1>4, <2>1, <2>3, <2>4
  <2>6. wire[j].of = request
    BY <2>2, <2>3, <2>5 DEF answer
  <2>7. wire[j].kind = "200" => j = off + 1
    <3> SUFFICES ASSUME wire[j].kind = "200", j # off + 1 PROVE FALSE
      OBVIOUS
    <3>1. j - off \in 2 .. Len(answer)
      BY <1>4, <2>1, <2>3, <2>5
    <3> QED
      BY <2>2, <2>3, <3>1 DEF answer
  <2> QED
    BY <1>1, <1>2, <1>3, <2>6, <2>7
<1> QED
  BY <1>4, <1>5, <1>6

\* What a read leaves behind its line n >= 1 is typed, of requests that were sent, and
\* while OPTIONS or DESCRIBE is answered holds no status.
LEMMA ReadLeaves ==
  ASSUME Rtsp!RtspAssumption, RtspInv, pc = "read", NEW n \in Nat, n >= 1, Rtsp!Consume(n)
  PROVE  /\ wire' \in Seq(Line) /\ n <= Len(wire)
         /\ n = Len(wire) => wire' = <<>>
         /\ \A i \in 1 .. Len(wire') :
              /\ wire'[i].of <= request /\ wire'[i].of \in Nat
              /\ request = 1 => wire'[i].kind # "200"
<1>1. PICK off \in 0 .. Len(wire) : Answering(off)
  BY DEF RtspInv, Awaited
<1>2. wire \in Seq(Line) /\ Len(wire) \in Nat
  BY LenProperties DEF RtspInv, RtspTypes, Rtsp!TypeOK, Line
<1>3. /\ wire' \in Seq(Line) /\ n <= Len(wire)
      /\ n = Len(wire) => wire' = <<>>
      /\ \E k \in n .. Len(wire) :
           /\ Len(wire') = Len(wire) - k
           /\ \A i \in 1 .. Len(wire) - k :
                /\ wire'[i].of = wire[k + i].of
                /\ wire'[i].kind \in {wire[k + i].kind, "rest"}
  BY <1>2, ConsumeLeaves
<1>4. ASSUME NEW i \in 1 .. Len(wire')
      PROVE  /\ wire'[i].of <= request /\ wire'[i].of \in Nat
             /\ request = 1 => wire'[i].kind # "200"
  <2>1. PICK j \in n + 1 .. Len(wire) :
          /\ wire'[i].of = wire[j].of
          /\ wire'[i].kind \in {wire[j].kind, "rest"}
    <3>1. PICK k \in n .. Len(wire) :
            /\ Len(wire') = Len(wire) - k
            /\ \A m \in 1 .. Len(wire) - k :
                 /\ wire'[m].of = wire[k + m].of
                 /\ wire'[m].kind \in {wire[k + m].kind, "rest"}
      BY <1>3
    <3>2. i \in 1 .. Len(wire) - k /\ k + i \in n + 1 .. Len(wire)
      BY <1>2, <3>1
    <3> QED
      BY <3>1, <3>2
  <2>2. j \in 1 .. Len(wire) /\ j >= 2
    BY <1>2
  <2>3. /\ wire[j].of <= request /\ wire[j].of \in Nat
        /\ request <= 2 /\ wire[j].kind = "200" => j = off + 1
        /\ request = 1 => off = 0
    BY <1>1, <2>2, LinesOnWire
  <2>4. request = 1 => wire[j].kind # "200"
    BY <2>2, <2>3
  <2> QED
    BY <2>1, <2>3, <2>4
<1> QED
  BY <1>3, <1>4

\* The requests before n + 1 left nothing behind if those before n did not, and n itself.
LEMMA CleanNext ==
  ASSUME NEW n \in Nat, Rtsp!Clean(n + 1)
  PROVE  Rtsp!Clean(n) /\ (n >= 1 => n \in ok /\ (n = 2 => Rtsp!EndsWithTrack))
<1>1. \A m \in 1 .. n - 1 : m \in 1 .. (n + 1) - 1
  OBVIOUS
<1>2. n >= 1 => n \in 1 .. (n + 1) - 1
  OBVIOUS
<1> QED
  BY <1>1, <1>2 DEF Rtsp!Clean, Rtsp!DESCRIBE

\* What Advance does, given what the read left.
LEMMA Advances ==
  ASSUME Rtsp!RtspAssumption, RtspInv, pc = "read", Rtsp!Advance, UNCHANGED <<ok, sdp>>,
         wire' \in Seq(Line),
         \A i \in 1 .. Len(wire') :
           /\ wire'[i].of <= request /\ wire'[i].of \in Nat
           /\ request = 1 => wire'[i].kind # "200",
         request # 4 /\ Rtsp!Clean(request + 1) => wire' = <<>>
  PROVE  /\ request \in 1 .. 4 /\ request' \in 1 .. 4
         /\ \/ pc' = "playing" /\ request = 4 /\ request' = 4
            \/ /\ pc' \in {"write", "start session"}
               /\ request \in 1 .. 3 /\ request' = request + 1
               /\ pc' = "start session" => request = 3
         /\ Awaited' /\ Between'
<1> USE DEF Rtsp!Requests, Rtsp!PLAY, Rtsp!SETUP
<1>1. request \in 1 .. 4
  BY DEF RtspInv, RtspTypes, Rtsp!TypeOK
<1>2. /\ request' = IF request = 4 THEN 4 ELSE request + 1
      /\ pc' = IF request = 4 THEN "playing"
               ELSE IF request = 3 THEN "start session" ELSE "write"
  BY DEF Rtsp!Advance
<1>3. /\ request' \in 1 .. 4
      /\ \/ pc' = "playing" /\ request = 4 /\ request' = 4
         \/ /\ pc' \in {"write", "start session"}
            /\ request \in 1 .. 3 /\ request' = request + 1
            /\ pc' = "start session" => request = 3
  <2>1. CASE request = 4
    BY <1>2, <2>1
  <2>2. CASE request # 4
    <3>1. request \in 1 .. 3 /\ request + 1 \in 1 .. 4
      BY <1>1, <2>2
    <3>2. request' = request + 1
      BY <1>2, <2>2, Zenon
    <3>3. pc' \in {"write", "start session"} /\ (pc' = "start session" => request = 3)
      BY <1>2, <2>2, Zenon
    <3> QED
      BY <3>1, <3>2, <3>3
  <2> QED
    BY <2>1, <2>2
<1>4. Awaited'
  BY <1>3 DEF Awaited
<1>5. Between'
  <2>1. CASE pc' = "playing"
    BY <2>1 DEF Between
  <2>2. CASE pc' # "playing"
    <3>1. request \in 1 .. 3 /\ request' = request + 1
      BY <1>3, <2>2, Zenon
    <3>3. \A i \in 1 .. Len(wire') :
             wire'[i].of < request' /\ (request' <= 2 => wire'[i].kind # "200")
      <4> SUFFICES ASSUME NEW i \in 1 .. Len(wire')
                   PROVE  wire'[i].of < request' /\ (request' <= 2 => wire'[i].kind # "200")
        OBVIOUS
      <4>1. /\ wire'[i].of <= request /\ wire'[i].of \in Nat
            /\ request = 1 => wire'[i].kind # "200"
        OBVIOUS
      <4>2. wire'[i].of < request'
        BY <3>1, <4>1
      <4>3. request' <= 2 => request = 1
        BY <3>1
      <4> QED
        BY <4>1, <4>2, <4>3
    <3>4. Rtsp!Clean(request)' => Rtsp!Clean(request + 1)
      BY <3>1 DEF Rtsp!Clean, Rtsp!EndsWithTrack
    <3>5. request # 4
      BY <3>1
    <3> QED
      BY <3>3, <3>4, <3>5 DEF Between
  <2> QED
    BY <2>1, <2>2
<1> QED
  BY <1>1, <1>3, <1>4, <1>5

\* What is true of a request and its result until the next one, whichever way the
\* answer was read.
LEMMA RtspReadOther ==
  ASSUME Rtsp!RtspAssumption, RtspInv, Rtsp!ReadOther
  PROVE  RtspInv'
<1> USE DEF Rtsp!Requests
<1>1. /\ pc = "read"
      /\ UNCHANGED <<ok, sdp, connection, result, body, transport, session>>
  BY DEF Rtsp!ReadOther, Rtsp!server
<1>2. PICK p \in {1, 2} :
        Rtsp!Begins(p) /\ Rtsp!KindAt(p) \in Rtsp!Kinds \ {"200"} /\ Rtsp!Consume(p)
  BY DEF Rtsp!ReadOther
<1>3. request \in 1 .. 4 /\ wire \in Seq(Line) /\ Len(wire) \in Nat /\ sdp \in Descriptions
  BY LenProperties DEF RtspInv, RtspTypes, Rtsp!TypeOK, Line
<1>4. PICK off \in 0 .. Len(wire) : Answering(off)
  BY <1>1 DEF RtspInv, Awaited
<1>5. /\ wire' \in Seq(Line)
      /\ \A i \in 1 .. Len(wire') :
           /\ wire'[i].of <= request /\ wire'[i].of \in Nat
           /\ request = 1 => wire'[i].kind # "200"
  BY <1>1, <1>2, ReadLeaves
<1>6. ~Rtsp!Clean(request + 1)
  <2> SUFFICES ASSUME Rtsp!Clean(request + 1) PROVE FALSE
    OBVIOUS
  <2>1. Rtsp!Clean(request) /\ request \in ok
    BY <1>3, CleanNext
  <2>2. off = 0
    BY <1>4, <2>1 DEF Answering
  <2>3. p \in 1 .. Len(wire) /\ Rtsp!KindAt(p) = wire[p].kind /\ 1 \in 1 .. Len(wire)
    <3>1. "none" \notin Rtsp!Kinds
      BY DEF Rtsp!Kinds, Rtsp!SdpLines
    <3>2. p \in 1 .. Len(wire) /\ Rtsp!KindAt(p) = wire[p].kind
      BY <1>2, <1>3, <3>1, BeginsInWire
    <3> QED
      BY <1>3, <3>2
  <2>4. wire[1] = Rtsp!Answer(request)[1]
    <3>1. 1 \in off + 1 .. Len(wire) /\ 1 - off = 1
      BY <1>3, <2>2, <2>3
    <3> QED
      BY <1>4, <3>1 DEF Answering
  <2>5. Rtsp!Answer(request)[1].kind = "200"
    BY <1>3, <2>1, AnswerLines
  <2>6. Rtsp!KindAt(1) = "200"
    <3>1. DOMAIN wire = 1 .. Len(wire)
      BY <1>3, LenProperties
    <3> QED
      BY <2>3, <2>4, <2>5, <3>1 DEF Rtsp!KindAt
  <2>7. p = 1
    BY <1>2, <2>6 DEF Rtsp!Begins
  <2> QED
    BY <1>2, <2>6, <2>7
<1>7. Rtsp!Advance
  BY DEF Rtsp!ReadOther
<1>8. /\ request' \in 1 .. 4
      /\ \/ pc' = "playing" /\ request = 4 /\ request' = 4
         \/ /\ pc' \in {"write", "start session"}
            /\ request \in 1 .. 3 /\ request' = request + 1
            /\ pc' = "start session" => request = 3
      /\ Awaited' /\ Between'
  BY <1>1, <1>5, <1>6, <1>7, Advances
<1>9. RtspTypes'
  BY <1>1, <1>5, <1>8 DEF RtspInv, RtspTypes, Rtsp!TypeOK, Line
<1>10. NotYet'
  <2> SUFFICES ASSUME NEW n \in 1 .. 4, n > request' \/ (n = request' /\ pc' # "playing")
               PROVE  result'[n] = 0
    BY DEF NotYet
  <2>1. n > request
    <3>1. CASE pc' = "playing" /\ request = 4 /\ request' = 4
      BY <3>1
    <3>2. CASE request \in 1 .. 3 /\ request' = request + 1
      BY <3>2
    <3> QED
      BY <1>8, <3>1, <3>2
  <2> QED
    BY <1>1, <2>1 DEF RtspInv, NotYet
<1>11. Rtsp!AnswersMatch'
  BY <1>1, ServerStays DEF RtspInv, Rtsp!AnswersMatch
<1>a. Statuses'
  <2>0. Ascending /\ Later
    BY DEF RtspInv, Statuses
  <2>1. PICK n \in {1, 2} : n = p
    OBVIOUS
  <2>2. n \in Nat /\ Rtsp!Consume(n)
    BY <1>2, <2>1
  <2>3. /\ Ascending'
        /\ \A i \in 1 .. Len(wire') : wire'[i].kind = "200" =>
             \E j \in n + 1 .. Len(wire) : wire[j].kind = "200" /\ wire'[i].of = wire[j].of
    BY <1>3, <2>0, <2>2, StatusesLeft
  <2>4. \A j \in n + 1 .. Len(wire) : j \in 1 .. Len(wire)
    BY <1>3, <2>2
  <2>5. Later'
    BY <1>1, <2>0, <2>3, <2>4 DEF Later
  <2> QED
    BY <2>3, <2>5 DEF Statuses
<1>12. FirstBody'
  BY <1>1, ServerStays DEF RtspInv, FirstBody
<1>13. Told'
  <2>1. CASE pc' = "playing" /\ request = 4 /\ request' = 4
    BY <1>1, <2>1, BodyStays DEF RtspInv, Told
  <2>2. CASE /\ pc' \in {"write", "start session"}
             /\ request \in 1 .. 3 /\ request' = request + 1
             /\ pc' = "start session" => request = 3
    <3>0. request \in 1 .. 3
      BY <2>2, Zenon
    <3>a. request' = request + 1
      BY <2>2, Zenon
    <3>b. pc' = "start session" => request = 3
      BY <2>2, Zenon
    <3>1. ASSUME session.started PROVE FALSE
      <4>1. request = 4
        BY <3>1, Zenon DEF RtspInv, Told
      <4> QED
        BY <3>0, <4>1
    <3>2. pc' # "connect"
      BY <2>2
    <3>3. pc' = "start session" => request' = 4
      <4>1. pc' = "start session" => request' = 3 + 1
        BY <3>a, <3>b, Zenon
      <4>2. 3 + 1 = 4
        OBVIOUS
      <4> QED
        BY <4>1, <4>2, Zenon
    <3>4. session' = session
      BY <1>1
    <3> QED
      BY <3>1, <3>2, <3>3, <3>4, Zenon DEF Told
  <2> QED
    BY <1>8, <2>1, <2>2
<1> QED
  BY <1>8, <1>9, <1>10, <1>11, <1>12, <1>13, <1>a DEF RtspInv

\* The empty line behind a line is the first one behind it.
LEMMA FirstBlank ==
  ASSUME wire \in Seq(Line), NEW p \in Nat, Rtsp!BlankAfter(p) # 0
  PROVE  /\ Rtsp!BlankAfter(p) \in p + 1 .. Len(wire)
         /\ wire[Rtsp!BlankAfter(p)].kind = "blank"
         /\ \A i \in p + 1 .. Len(wire) :
              wire[i].kind = "blank" => Rtsp!BlankAfter(p) <= i
<1> DEFINE bs == {i \in 1 .. Len(wire) : wire[i].kind = "blank" /\ i > p}
<1>1. DOMAIN wire = 1 .. Len(wire) /\ Len(wire) \in Nat
  BY LenProperties
<1>2. {i \in Rtsp!Positions("blank") : i > p} = bs
  BY <1>1 DEF Rtsp!Positions
<1>3. Rtsp!BlankAfter(p) = IF bs = {} THEN 0 ELSE Rtsp!Min(bs)
  BY <1>2, Zenon DEF Rtsp!BlankAfter
<1>4. bs # {} /\ Rtsp!BlankAfter(p) = Rtsp!Min(bs)
  BY <1>3
<1>5. bs \in SUBSET Nat
  BY <1>1
<1>6. Rtsp!Min(bs) \in bs /\ \A y \in bs : Rtsp!Min(bs) <= y
  <2> HIDE DEF bs
  <2> QED
    BY <1>4, <1>5, Least
<1>7. ASSUME NEW i \in p + 1 .. Len(wire), wire[i].kind = "blank"
      PROVE  Rtsp!Min(bs) <= i
  <2>1. i \in bs
    BY <1>1, <1>7
  <2> QED
    BY <1>6, <2>1
<1>8. PICK m \in bs : m = Rtsp!Min(bs)
  BY <1>6
<1>9. m \in p + 1 .. Len(wire) /\ wire[m].kind = "blank"
  BY <1>1
<1> QED
  BY <1>4, <1>7, <1>8, <1>9

\* The body ends with the first track behind the empty line, or with the connection.
LEMMA BodyEnd ==
  ASSUME wire \in Seq(Line), NEW p \in Nat, NEW b \in Nat, b = Rtsp!BlankAfter(p),
         Rtsp!HasBody(p), Rtsp!LastOfBody(p) # 0
  PROVE  \/ /\ Rtsp!LastOfBody(p) \in b + 1 .. Len(wire)
            /\ wire[Rtsp!LastOfBody(p)].kind = "track"
            /\ \A i \in b + 1 .. Len(wire) :
                 wire[i].kind = "track" => Rtsp!LastOfBody(p) <= i
         \/ /\ connection = "closed" /\ Rtsp!LastOfBody(p) = Len(wire)
            /\ \A i \in b + 1 .. Len(wire) : wire[i].kind # "track"
<1> DEFINE ts == {i \in 1 .. Len(wire) : wire[i].kind = "track" /\ i > b}
<1>1. DOMAIN wire = 1 .. Len(wire) /\ Len(wire) \in Nat
  BY LenProperties
<1>2. {i \in Rtsp!Positions("track") : i > Rtsp!BlankAfter(p)} = ts
  BY <1>1 DEF Rtsp!Positions
<1>3. Rtsp!LastOfBody(p) =
        IF ts # {} THEN Rtsp!Min(ts) ELSE IF connection = "closed" THEN Len(wire) ELSE 0
  BY <1>2, Zenon DEF Rtsp!LastOfBody
<1>4. CASE ts = {}
  <2>1. \A i \in b + 1 .. Len(wire) : wire[i].kind # "track"
    <3> SUFFICES ASSUME NEW i \in b + 1 .. Len(wire), wire[i].kind = "track" PROVE FALSE
      OBVIOUS
    <3>1. i \in ts
      BY <1>1
    <3> QED
      BY <1>4, <3>1
  <2>2. connection = "closed" /\ Rtsp!LastOfBody(p) = Len(wire)
    BY <1>3, <1>4, Zenon
  <2> QED
    BY <2>1, <2>2
<1>5. CASE ts # {}
  <2>0. ts \in SUBSET Nat
    BY <1>1
  <2>1. Rtsp!LastOfBody(p) = Rtsp!Min(ts) /\ ts \in SUBSET Nat
    BY <1>3, <1>5, <2>0, Zenon
  <2>2. Rtsp!Min(ts) \in ts /\ \A y \in ts : Rtsp!Min(ts) <= y
    <3> HIDE DEF ts
    <3> QED
      BY <1>5, <2>1, Least
  <2>3. ASSUME NEW i \in b + 1 .. Len(wire), wire[i].kind = "track"
        PROVE  Rtsp!Min(ts) <= i
    <3>1. i \in ts
      BY <1>1, <2>3
    <3> QED
      BY <2>2, <3>1
  <2>4. PICK m \in ts : m = Rtsp!Min(ts)
    BY <2>2
  <2>5. m \in b + 1 .. Len(wire) /\ wire[m].kind = "track"
    BY <1>1
  <2> QED
    BY <2>1, <2>3, <2>4, <2>5
<1> QED
  BY <1>4, <1>5

\* Where the answer that is awaited begins: its empty line is its third, and it has a body
\* if and only if it is the description, which stands behind that line.
LEMMA AnswerRead ==
  ASSUME Rtsp!RtspAssumption, RtspInv, NEW off \in 0 .. Len(wire), Answering(off),
         NEW p \in Nat, p = off + 1, p \in 1 .. Len(wire), wire[p].kind = "200",
         Rtsp!BlankAfter(p) # 0
  PROVE  /\ request \in ok /\ wire[p].of = request
         /\ Rtsp!BlankAfter(p) = p + 2 /\ p + 2 <= Len(wire)
         /\ Rtsp!HasBody(p) <=> request = 2
         /\ request # 2 => Len(wire) = p + 2
         /\ request = 2 =>
              /\ sdp \in Seq(Rtsp!SdpLines) /\ Len(sdp) \in Nat
              /\ Len(wire) <= p + 2 + Len(sdp)
              /\ connection = "open" => Len(wire) = p + 2 + Len(sdp)
              /\ \A i \in 1 .. Len(wire) - p - 2 :
                   /\ i \in 1 .. Len(sdp)
                   /\ wire[p + 2 + i].kind = sdp[i]
                   /\ sdp[i] \in Rtsp!SdpLines
<1> USE DEF Rtsp!Requests
<1> DEFINE l == Len(wire)
           answer == Rtsp!Answer(request)
           b == Rtsp!BlankAfter(p)
<1>1. request \in 1 .. 4 /\ sdp \in Descriptions /\ wire \in Seq(Line) /\ l \in Nat
      /\ DOMAIN wire = 1 .. l
  BY LenProperties DEF RtspInv, RtspTypes, Rtsp!TypeOK, Line
<1>2. /\ Len(answer) \in Nat /\ Len(answer) >= 3
      /\ \A i \in 1 .. Len(answer) : answer[i].of = request
      /\ (answer[1].kind = "200") <=> request \in ok
      /\ answer[3].kind = "blank"
      /\ ~(request \in ok /\ request = 2) =>
           Len(answer) = 3 /\ \A i \in 1 .. 3 : answer[i].kind # "Content-Length"
      /\ request \in ok => answer[1].kind # "blank" /\ answer[2].kind # "blank"
      /\ request \in ok /\ request = 2 =>
           /\ Len(answer) = 3 + Len(sdp)
           /\ answer[2].kind = "Content-Length"
           /\ \A i \in 1 .. Len(sdp) :
                answer[3 + i].kind = sdp[i] /\ sdp[i] \in Rtsp!SdpLines
      /\ sdp \in Seq(Rtsp!SdpLines) /\ Len(sdp) \in Nat
  BY <1>1, AnswerLines
<1>3. /\ l - off <= Len(answer)
      /\ connection = "open" => l - off = Len(answer)
      /\ \A i \in off + 1 .. l : wire[i] = answer[i - off]
  BY DEF Answering
<1>4. \A i \in 1 .. l - off : wire[off + i] = answer[i]
  <2> SUFFICES ASSUME NEW i \in 1 .. l - off PROVE wire[off + i] = answer[i]
    OBVIOUS
  <2>1. off + i \in off + 1 .. l /\ (off + i) - off = i
    BY <1>1
  <2> QED
    BY <1>3, <2>1
<1>5. /\ b \in p + 1 .. l /\ wire[b].kind = "blank"
      /\ \A i \in p + 1 .. l : wire[i].kind = "blank" => b <= i
  BY <1>1, FirstBlank
<1> HIDE DEF answer, l, b
<1>6. off \in Nat /\ off + 1 <= l /\ 1 \in 1 .. l - off /\ 2 \in 1 .. l - off
  BY <1>1, <1>5 DEF l
<1>7. wire[p] = answer[1] /\ wire[p + 1] = answer[2]
  <2>1. p = off + 1 /\ p + 1 = off + 2
    BY <1>6
  <2> QED
    BY <1>4, <1>6, <2>1
<1>8. request \in ok /\ wire[p].of = request
  <2>1. 1 \in 1 .. Len(answer)
    BY <1>2
  <2> QED
    BY <1>2, <1>7, <2>1
<1>9. b # p + 1
  BY <1>2, <1>5, <1>7, <1>8
<1>10. p + 2 <= l /\ p + 2 <= b /\ 3 \in 1 .. l - off
  BY <1>1, <1>5, <1>6, <1>9
<1>11. wire[p + 2] = answer[3]
  <2>1. p + 2 = off + 3
    BY <1>6
  <2> QED
    BY <1>4, <1>10, <2>1
<1>12. b = p + 2
  <2>1. p + 2 \in p + 1 .. l
    BY <1>1, <1>10
  <2>2. b <= p + 2
    BY <1>2, <1>5, <1>11, <2>1
  <2> QED
    BY <1>1, <1>5, <1>10, <2>2
<1>13. Rtsp!HasBody(p) <=> request = 2
  <2>1. ASSUME Rtsp!HasBody(p), request # 2 PROVE FALSE
    <3>1. PICK i \in p .. p + 2 : Rtsp!KindAt(i) = "Content-Length"
      BY <1>12, <2>1 DEF Rtsp!HasBody, b
    <3>2. i \in 1 .. l /\ i - off \in 1 .. 3 /\ i - off \in 1 .. l - off
          /\ off + (i - off) = i
      BY <1>1, <1>6, <1>10
    <3>3. wire[i].kind = "Content-Length" /\ wire[i] = answer[i - off]
      BY <1>1, <1>4, <3>1, <3>2 DEF Rtsp!KindAt
    <3> QED
      BY <1>2, <2>1, <3>2, <3>3
  <2>2. ASSUME request = 2 PROVE Rtsp!HasBody(p)
    <3>1. p + 1 \in p .. b /\ p + 1 \in 1 .. l
      BY <1>1, <1>6, <1>10, <1>12
    <3>2. Rtsp!KindAt(p + 1) = "Content-Length"
      BY <1>1, <1>2, <1>7, <1>8, <2>2, <3>1 DEF Rtsp!KindAt
    <3> QED
      BY <3>1, <3>2 DEF Rtsp!HasBody, b
  <2> QED
    BY <2>1, <2>2
<1>14. request # 2 => l = p + 2
  <2> SUFFICES ASSUME request # 2 PROVE l = p + 2
    OBVIOUS
  <2>1. l - off <= 3
    BY <1>2, <1>3
  <2>2. l \in Nat /\ p = off + 1 /\ p + 2 <= l
    BY <1>1, <1>10
  <2> QED
    BY <1>6, <2>1, <2>2
<1>15. ASSUME request = 2
       PROVE  /\ l <= p + 2 + Len(sdp)
              /\ connection = "open" => l = p + 2 + Len(sdp)
              /\ \A i \in 1 .. l - p - 2 :
                   /\ i \in 1 .. Len(sdp)
                   /\ wire[p + 2 + i].kind = sdp[i]
                   /\ sdp[i] \in Rtsp!SdpLines
  <2>1. Len(answer) = 3 + Len(sdp) /\ Len(sdp) \in Nat
        /\ \A i \in 1 .. Len(sdp) :
             answer[3 + i].kind = sdp[i] /\ sdp[i] \in Rtsp!SdpLines
    BY <1>2, <1>8, <1>15
  <2>2. l <= p + 2 + Len(sdp) /\ (connection = "open" => l = p + 2 + Len(sdp))
    <3> DEFINE d == Len(sdp)
    <3>1. d \in Nat /\ l - off <= 3 + d /\ (connection = "open" => l - off = 3 + d)
      BY <1>3, <2>1
    <3>2. l \in Nat /\ p = off + 1
      BY <1>1
    <3> HIDE DEF d
    <3>3. l <= p + 2 + d /\ (connection = "open" => l = p + 2 + d)
      BY <1>6, <3>1, <3>2
    <3> QED
      BY <3>3 DEF d
  <2>3. ASSUME NEW i \in 1 .. l - p - 2
        PROVE  /\ i \in 1 .. Len(sdp)
               /\ wire[p + 2 + i].kind = sdp[i]
               /\ sdp[i] \in Rtsp!SdpLines
    <3>1. i \in 1 .. Len(sdp) /\ 3 + i \in 1 .. l - off /\ off + (3 + i) = p + 2 + i
      BY <1>1, <1>6, <2>1, <2>2
    <3>2. wire[p + 2 + i] = answer[3 + i]
      BY <1>4, <3>1
    <3> QED
      BY <2>1, <3>1, <3>2
  <2> QED
    BY <2>2, <2>3
<1> QED
  BY <1>2, <1>8, <1>10, <1>12, <1>13, <1>14, <1>15 DEF l, b

\* The kinds of the lines from one to another, which is how body is made.
LEMMA BodyLines ==
  ASSUME wire \in Seq(Line), NEW b \in Nat, NEW last \in b .. Len(wire),
         NEW T, \A i \in 1 .. last - b : wire[b + i].kind \in T
  PROVE  /\ Rtsp!Body(b + 1, last) \in Seq(T)
         /\ Len(Rtsp!Body(b + 1, last)) = last - b
         /\ \A i \in 1 .. last - b : Rtsp!Body(b + 1, last)[i] = wire[b + i].kind
<1>1. Len(wire) \in Nat
  BY LenProperties
<1>2. last \in Nat /\ last - b \in Nat /\ last - (b + 1) + 1 = last - b
  BY <1>1
<1> DEFINE f == [i \in 1 .. last - b |-> wire[b + 1 + i - 1].kind]
<1>3. Rtsp!Body(b + 1, last) = f
  BY <1>2 DEF Rtsp!Body
<1>4. \A i \in 1 .. last - b : b + 1 + i - 1 = b + i
  BY <1>2
<1>5. \A i \in 1 .. last - b : f[i] = wire[b + i].kind
  BY <1>4
<1>6. f \in [1 .. last - b -> T]
  BY <1>4
<1> HIDE DEF f
<1>7. f \in Seq(T) /\ Len(f) = last - b
  BY <1>2, <1>6, FunctionIsSeq
<1> QED
  BY <1>3, <1>5, <1>7

\* The description up to its first track, when it has one.
LEMMA UpToTrack ==
  ASSUME sdp \in Seq(Rtsp!SdpLines), NEW t \in 1 .. Len(sdp), sdp[t] = "track",
         \A i \in 1 .. Len(sdp) : sdp[i] = "track" => t <= i
  PROVE  /\ Rtsp!FirstMedium \in Seq(Rtsp!SdpLines)
         /\ Len(Rtsp!FirstMedium) = t
         /\ \A i \in 1 .. t : Rtsp!FirstMedium[i] = sdp[i]
<1> DEFINE ts == {i \in DOMAIN sdp : sdp[i] = "track"}
<1>1. DOMAIN sdp = 1 .. Len(sdp) /\ Len(sdp) \in Nat
  BY LenProperties
<1>2. t \in ts /\ ts \in SUBSET Nat /\ \A i \in ts : t <= i
  BY <1>1
<1>3. Rtsp!Min(ts) \in ts /\ \A y \in ts : Rtsp!Min(ts) <= y
  <2>1. ts # {} /\ ts \in SUBSET Nat
    BY <1>2
  <2> HIDE DEF ts
  <2> QED
    BY <2>1, Least
<1>4. Rtsp!Min(ts) = t
  <2>1. PICK m \in ts : m = Rtsp!Min(ts)
    BY <1>3
  <2>2. m <= t /\ t <= m /\ m \in Nat /\ t \in Nat
    <3> HIDE DEF ts
    <3> QED
      BY <1>2, <1>3, <2>1
  <2> QED
    BY <2>1, <2>2
<1>5. Rtsp!FirstMedium = SubSeq(sdp, 1, t)
  <2>1. Rtsp!FirstMedium = IF ts = {} THEN sdp ELSE SubSeq(sdp, 1, Rtsp!Min(ts))
    BY Zenon DEF Rtsp!FirstMedium
  <2> QED
    BY <1>2, <1>4, <2>1
<1>6. t \in Int /\ t >= 1 /\ 1 \in Int /\ \A i \in 1 .. t : i \in 1 .. Len(sdp)
  BY <1>1
<1>7. \A i \in 1 .. t : sdp[i] \in Rtsp!SdpLines
  BY <1>6, ElementOfSeq
<1>8. /\ SubSeq(sdp, 1, t) \in Seq(Rtsp!SdpLines)
      /\ Len(SubSeq(sdp, 1, t)) = IF 1 <= t THEN t - 1 + 1 ELSE 0
      /\ \A i \in 1 .. t - 1 + 1 : SubSeq(sdp, 1, t)[i] = sdp[1 + i - 1]
  BY <1>6, <1>7, SubSeqProperties
<1>9. t - 1 + 1 = t /\ \A i \in 1 .. t : 1 + i - 1 = i
  BY <1>6
<1> QED
  BY <1>5, <1>6, <1>8, <1>9

LEMMA RtspRead200 ==
  ASSUME Rtsp!RtspAssumption, RtspInv, Rtsp!Read200
  PROVE  RtspInv'
<1> USE DEF Rtsp!Requests, Rtsp!DESCRIBE
<1>1. pc = "read" /\ UNCHANGED <<ok, sdp, connection, session>> /\ Rtsp!Advance
  BY DEF Rtsp!Read200, Rtsp!server
<1>2. PICK p \in {1, 2} :
        /\ Rtsp!Begins(p)
        /\ Rtsp!KindAt(p) = "200"
        /\ Rtsp!LastOfHead(p) # 0 /\ Rtsp!LastOfBody(p) # 0
        /\ Rtsp!Consume(Rtsp!LastOfBody(p))
        /\ result' = [result EXCEPT ![request] = wire[p].of]
        /\ body' = IF request = 2 /\ Rtsp!HasBody(p)
                     THEN Rtsp!Body(Rtsp!LastOfHead(p) + 1, Rtsp!LastOfBody(p)) ELSE body
        /\ transport' = (transport \/ (request = Rtsp!SETUP /\ wire[p].of = Rtsp!SETUP))
  BY Zenon DEF Rtsp!Read200
<1> DEFINE l == Len(wire)
           b == Rtsp!BlankAfter(p)
           last == Rtsp!LastOfBody(p)
<1>3. request \in 1 .. 4 /\ wire \in Seq(Line) /\ l \in Nat /\ sdp \in Descriptions
      /\ DOMAIN wire = 1 .. l /\ result \in [1 .. 4 -> Nat]
      /\ body \in Seq(Rtsp!SdpLines)
  BY LenProperties DEF RtspInv, RtspTypes, Rtsp!TypeOK, Line
<1>4. PICK off \in 0 .. Len(wire) : Answering(off)
  BY <1>1 DEF RtspInv, Awaited
<1>5. p \in Nat /\ p \in 1 .. l /\ wire[p].kind = "200"
  BY <1>2, <1>3, BeginsInWire
<1>6. b # 0 /\ Rtsp!LastOfHead(p) = b
  BY <1>2 DEF Rtsp!LastOfHead
<1>7. b \in p + 1 .. l /\ b \in Nat
  BY <1>3, <1>5, <1>6, FirstBlank
<1>8. ~Rtsp!HasBody(p) => last = b
  BY <1>6 DEF Rtsp!LastOfBody
<1>9. Rtsp!HasBody(p) =>
        \/ /\ last \in b + 1 .. l
           /\ wire[last].kind = "track"
           /\ \A i \in b + 1 .. l : wire[i].kind = "track" => last <= i
        \/ /\ connection = "closed" /\ last = l
           /\ \A i \in b + 1 .. l : wire[i].kind # "track"
  BY <1>2, <1>3, <1>5, <1>7, BodyEnd
<1>10. last \in b .. l /\ last \in Nat /\ last >= 1
  <2> HIDE DEF l, b, last
  <2>1. CASE ~Rtsp!HasBody(p)
    BY <1>3, <1>5, <1>7, <1>8, <2>1
  <2>2. CASE Rtsp!HasBody(p) /\ last \in b + 1 .. l
    BY <1>3, <1>5, <1>7, <2>2
  <2>3. CASE Rtsp!HasBody(p) /\ last = l
    BY <1>3, <1>5, <1>7, <2>3
  <2> QED
    BY <1>9, <2>1, <2>2, <2>3
<1>11. /\ wire' \in Seq(Line)
       /\ last = l => wire' = <<>>
       /\ \A i \in 1 .. Len(wire') :
            /\ wire'[i].of <= request /\ wire'[i].of \in Nat
            /\ request = 1 => wire'[i].kind # "200"
  BY <1>1, <1>2, <1>10, ReadLeaves
<1>12. wire[p].of <= request /\ wire[p].of \in Nat /\ (request <= 2 => p = off + 1)
  BY <1>4, <1>5, LinesOnWire
\* Where p = off + 1, AnswerRead tells what the lines are.
<1>13. ASSUME p = off + 1
       PROVE  /\ request \in ok /\ wire[p].of = request
              /\ b = p + 2 /\ p + 2 <= l
              /\ Rtsp!HasBody(p) <=> request = 2
              /\ request # 2 => l = p + 2
              /\ request = 2 =>
                   /\ sdp \in Seq(Rtsp!SdpLines) /\ Len(sdp) \in Nat
                   /\ l <= p + 2 + Len(sdp)
                   /\ connection = "open" => l = p + 2 + Len(sdp)
                   /\ \A i \in 1 .. l - p - 2 :
                        /\ i \in 1 .. Len(sdp)
                        /\ wire[p + 2 + i].kind = sdp[i]
                        /\ sdp[i] \in Rtsp!SdpLines
  BY <1>4, <1>5, <1>6, <1>13, AnswerRead
\* If nothing was left behind before, p = 1.
<1>14. ASSUME Rtsp!Clean(request), request \in ok PROVE p = off + 1
  <2>1. off = 0
    BY <1>4, <1>14 DEF Answering
  <2>2. 1 \in 1 .. l /\ 1 \in off + 1 .. l /\ 1 - off = 1
    BY <1>3, <1>5, <2>1
  <2>3. wire[1] = Rtsp!Answer(request)[1]
    BY <1>4, <2>2 DEF Answering
  <2>4. wire[1].kind = "200"
    BY <1>3, <1>14, <2>3, AnswerLines
  <2>5. Rtsp!KindAt(1) = "200"
    BY <1>3, <2>2, <2>4 DEF Rtsp!KindAt
  <2>6. p = 1
    BY <1>2, <2>5 DEF Rtsp!Begins
  <2> QED
    BY <2>1, <2>6
<1>15. request # 4 /\ Rtsp!Clean(request + 1) => wire' = <<>>
  <2> SUFFICES ASSUME Rtsp!Clean(request + 1) PROVE last = l
    BY <1>11
  <2>1. Rtsp!Clean(request) /\ request \in ok /\ (request = 2 => Rtsp!EndsWithTrack)
    BY <1>3, CleanNext
  <2>2. p = off + 1
    BY <1>14, <2>1
  <2>3. CASE request # 2
    BY <1>8, <1>13, <2>2, <2>3
  <2>4. CASE request = 2
    <3>1. CASE last = l
      BY <3>1
    <3>2. CASE last \in b + 1 .. l /\ wire[last].kind = "track"
      <4> HIDE DEF l, b, last
      <4>1. b = p + 2 /\ Rtsp!EndsWithTrack /\ sdp \in Seq(Rtsp!SdpLines) /\ Len(sdp) \in Nat
            /\ l <= p + 2 + Len(sdp)
        BY <1>13, <2>1, <2>2, <2>4
      <4>2. last - p - 2 \in 1 .. l - p - 2 /\ p + 2 + (last - p - 2) = last
        <5>1. b = p + 2 /\ last \in b + 1 .. l
          BY <3>2, <4>1
        <5>2. p \in Nat /\ l \in Nat
          BY <1>3, <1>5
        <5> QED
          BY <5>1, <5>2
      <4>3. last - p - 2 \in 1 .. Len(sdp) /\ sdp[last - p - 2] = "track"
        BY <1>13, <2>2, <2>4, <3>2, <4>2
      <4>4. last - p - 2 = Len(sdp)
        <5>1. DOMAIN sdp = 1 .. Len(sdp)
          BY <4>1, LenProperties
        <5> QED
          BY <4>1, <4>3, <5>1 DEF Rtsp!EndsWithTrack
      <4> QED
        BY <1>3, <1>5, <1>10, <4>1, <4>4
    <3> QED
      BY <1>9, <1>13, <2>2, <2>4, <3>1, <3>2
  <2> QED
    BY <2>3, <2>4
<1>16. /\ request' \in 1 .. 4
       /\ \/ pc' = "playing" /\ request = 4 /\ request' = 4
          \/ /\ pc' \in {"write", "start session"}
             /\ request \in 1 .. 3 /\ request' = request + 1
             /\ pc' = "start session" => request = 3
       /\ Awaited' /\ Between'
  BY <1>1, <1>11, <1>15, Advances
<1>17. /\ result' \in [1 .. 4 -> Nat] /\ result'[request] = wire[p].of
       /\ \A n \in 1 .. 4 : n # request => result'[n] = result[n]
  BY <1>2, <1>3, <1>12
\* The body is what stood behind the empty line, up to the first track.
<1>18. ASSUME request = 2
       PROVE  /\ body' \in Seq(Rtsp!SdpLines)
              /\ Len(body') = last - p - 2
              /\ \A i \in 1 .. last - p - 2 : body'[i] = sdp[i] /\ i \in 1 .. Len(sdp)
  <2>1. p = off + 1
    BY <1>12, <1>18
  <2>2. b = p + 2 /\ Rtsp!HasBody(p)
    BY <1>13, <1>18, <2>1
  <2>3. body' = Rtsp!Body(b + 1, last)
    BY <1>2, <1>6, <1>18, <2>2, Zenon
  <2> HIDE DEF b, last, l
  <2>4. last - b = last - p - 2 /\ \A i \in 1 .. last - b : i \in 1 .. l - p - 2
    BY <1>3, <1>5, <1>10, <2>2
  <2>5. \A i \in 1 .. last - b :
           i \in 1 .. Len(sdp) /\ wire[b + i].kind = sdp[i] /\ sdp[i] \in Rtsp!SdpLines
    BY <1>13, <1>18, <2>1, <2>2, <2>4
  <2>6. /\ Rtsp!Body(b + 1, last) \in Seq(Rtsp!SdpLines)
        /\ Len(Rtsp!Body(b + 1, last)) = last - b
        /\ \A i \in 1 .. last - b : Rtsp!Body(b + 1, last)[i] = wire[b + i].kind
    <3>1. \A i \in 1 .. last - b : wire[b + i].kind \in Rtsp!SdpLines
      BY <2>5
    <3>2. last \in b .. Len(wire)
      BY <1>10 DEF l
    <3> QED
      BY <1>3, <1>7, <3>1, <3>2, BodyLines
  <2> QED
    BY <2>3, <2>4, <2>5, <2>6
<1>19. request # 2 => body' = body
  BY <1>2
<1>20. RtspTypes'
  <2>1. body' \in Seq(Rtsp!SdpLines)
    BY <1>3, <1>18, <1>19
  <2>2. \A n \in 1 .. 4 : result'[n] \in 0 .. n
    <3> SUFFICES ASSUME NEW n \in 1 .. 4 PROVE result'[n] \in 0 .. n
      OBVIOUS
    <3>1. CASE n = request
      BY <1>12, <1>17, <3>1
    <3>2. CASE n # request
      BY <1>17, <3>2 DEF RtspInv, RtspTypes, Rtsp!TypeOK
    <3> QED
      BY <3>1, <3>2
  <2>3. transport' \in BOOLEAN
    BY <1>2 DEF RtspInv, RtspTypes, Rtsp!TypeOK
  <2>4. pc' \in {"connect", "write", "read", "start session", "playing", "crashed"}
    BY <1>16
  <2>5. {transport', session'.ports, session'.started} \subseteq BOOLEAN
    BY <1>1, <2>3 DEF RtspInv, RtspTypes, Rtsp!TypeOK
  <2>6. session'.codecs \union session'.fmtp \subseteq {"m=video", "m=audio"}
    BY <1>1 DEF RtspInv, RtspTypes, Rtsp!TypeOK
  <2>7. connection' \in Connections /\ sdp' \in Descriptions
    BY <1>1 DEF RtspInv, RtspTypes
  <2> QED
    BY <1>11, <1>16, <1>17, <2>1, <2>2, <2>4, <2>5, <2>6, <2>7
       DEF RtspTypes, Rtsp!TypeOK, Line
<1>21. NotYet'
  <2> SUFFICES ASSUME NEW n \in 1 .. 4, n > request' \/ (n = request' /\ pc' # "playing")
               PROVE  result'[n] = 0
    BY DEF NotYet
  <2>1. n > request
    <3>1. CASE pc' = "playing" /\ request = 4 /\ request' = 4
      BY <3>1
    <3>2. CASE request \in 1 .. 3 /\ request' = request + 1
      BY <3>2
    <3> QED
      BY <1>16, <3>1, <3>2
  <2>2. n # request
    BY <1>3, <2>1
  <2> QED
    BY <1>17, <2>1, <2>2 DEF RtspInv, NotYet
<1>a. wire[p].kind = "200" /\ \A m \in 1 .. 4 : result[m] < wire[p].of
  <2>1. wire[p].kind = "200"
    BY <1>5
  <2>2. p \in 1 .. Len(wire)
    BY <1>5
  <2> QED
    BY <2>1, <2>2 DEF RtspInv, Statuses, Later
<1>b. \A m, n \in 1 .. 4 :
        m < n /\ result'[m] # 0 /\ result'[n] # 0 => result'[m] < result'[n]
  <2> SUFFICES ASSUME NEW m \in 1 .. 4, NEW n \in 1 .. 4,
                      m < n, result'[m] # 0, result'[n] # 0
               PROVE  result'[m] < result'[n]
    OBVIOUS
  <2>1. CASE n = request
    <3>1. m # request /\ result'[m] = result[m]
      BY <1>17, <2>1
    <3>2. result[m] < wire[p].of
      BY <1>a
    <3> QED
      BY <1>17, <2>1, <3>1, <3>2
  <2>2. CASE m = request
    <3>1. n # request /\ n > request /\ result'[n] = result[n]
      BY <1>17, <2>2
    <3>2. result[n] = 0
      BY <3>1 DEF RtspInv, NotYet
    <3> QED
      BY <3>1, <3>2
  <2>3. CASE m # request /\ n # request
    <3>1. result'[m] = result[m] /\ result'[n] = result[n]
      BY <1>17, <2>3
    <3>2. result[m] # 0 /\ result[n] # 0 => result[m] < result[n]
      BY DEF RtspInv, Rtsp!AnswersMatch
    <3> QED
      BY <3>1, <3>2
  <2> QED
    BY <2>1, <2>2, <2>3
<1>c. Statuses'
  <2>0. Ascending /\ Later
    BY DEF RtspInv, Statuses
  <2>1. PICK n \in Nat : n = last /\ n >= p
    BY <1>5, <1>7, <1>10
  <2>2. Rtsp!Consume(n)
    BY <1>2, <2>1
  <2>3. /\ Ascending'
        /\ \A i \in 1 .. Len(wire') : wire'[i].kind = "200" =>
             \E j \in n + 1 .. Len(wire) : wire[j].kind = "200" /\ wire'[i].of = wire[j].of
    BY <1>3, <2>0, <2>2, StatusesLeft
  <2>4. Later'
    <3> SUFFICES ASSUME NEW i \in 1 .. Len(wire'), NEW m \in 1 .. 4,
                        wire'[i].kind = "200"
                 PROVE  result'[m] < wire'[i].of
      BY DEF Later
    <3>1. PICK j \in n + 1 .. Len(wire) :
            wire[j].kind = "200" /\ wire'[i].of = wire[j].of
      BY <2>3
    <3>2. j \in 1 .. Len(wire) /\ p \in 1 .. Len(wire) /\ p < j
      BY <1>3, <1>5, <2>1
    <3>3. wire[p].of < wire[j].of
      BY <1>a, <2>0, <3>1, <3>2 DEF Ascending
    <3>4. CASE m = request
      BY <1>17, <3>1, <3>3, <3>4
    <3>5. CASE m # request
      <4>1. result[m] < wire[j].of
        BY <2>0, <3>1, <3>2 DEF Later
      <4> QED
        BY <1>17, <3>1, <3>5, <4>1
    <3> QED
      BY <3>4, <3>5
  <2> QED
    BY <2>3, <2>4 DEF Statuses
<1>22. Rtsp!AnswersMatch'
  <2> SUFFICES ASSUME NEW n \in 1 .. 4, Rtsp!Clean(n), result'[n] # 0
               PROVE  result'[n] = n
    BY <1>1, <1>b, ServerStays DEF Rtsp!AnswersMatch
  <2>1. CASE n # request
    BY <1>17, <2>1 DEF RtspInv, Rtsp!AnswersMatch
  <2>2. CASE n = request
    <3>1. off = 0
      BY <1>4, <2>2 DEF Answering
    <3>2. p \in off + 1 .. l /\ p - off = p
      BY <1>3, <1>5, <3>1
    <3>3. wire[p] = Rtsp!Answer(request)[p]
      BY <1>4, <3>2 DEF Answering
    <3>4. Len(wire) - off <= Len(Rtsp!Answer(request))
      BY <1>4 DEF Answering
    <3>5. /\ Len(Rtsp!Answer(request)) \in Nat
          /\ \A i \in 1 .. Len(Rtsp!Answer(request)) : Rtsp!Answer(request)[i].of = request
      BY <1>3, AnswerLines
    <3> DEFINE a == Len(Rtsp!Answer(request))
    <3>6. p \in 1 .. a
      <4>1. a \in Nat /\ l - off <= a
        BY <3>4, <3>5
      <4> HIDE DEF a, l
      <4> QED
        BY <1>3, <1>5, <3>1, <4>1
    <3> QED
      BY <1>17, <2>2, <3>3, <3>5, <3>6
  <2> QED
    BY <2>1, <2>2
<1>23. FirstBody'
  <2>1. CASE request # 2
    <3>1. result'[2] = result[2] /\ body' = body
      BY <1>17, <1>19, <2>1
    <3> QED
      BY <1>1, <3>1, ServerStays DEF RtspInv, FirstBody
  <2>2. CASE request = 2
    <3> SUFFICES ASSUME connection = "open" PROVE body' = Rtsp!FirstMedium
      BY <1>1, ServerStays DEF FirstBody
    <3>1. p = off + 1
      BY <1>12, <2>2
    <3> DEFINE d == Len(sdp)
               t == last - p - 2
    <3>2. /\ b = p + 2 /\ Rtsp!HasBody(p)
          /\ sdp \in Seq(Rtsp!SdpLines) /\ d \in Nat
          /\ l = p + 2 + d
          /\ \A i \in 1 .. l - p - 2 :
               i \in 1 .. d /\ wire[p + 2 + i].kind = sdp[i]
      BY <1>13, <2>2, <3>1
    <3>3. /\ last \in b + 1 .. l
          /\ wire[last].kind = "track"
          /\ \A i \in b + 1 .. l : wire[i].kind = "track" => last <= i
      BY <1>9, <3>2
    <3> HIDE DEF l, b, last, d
    <3>4. t \in 1 .. d /\ t \in 1 .. l - p - 2 /\ p + 2 + t = last
      BY <1>3, <1>5, <1>7, <1>10, <3>2, <3>3
    <3> HIDE DEF t
    <3>5. sdp[t] = "track"
      BY <3>2, <3>3, <3>4
    <3>6. ASSUME NEW i \in 1 .. d, sdp[i] = "track" PROVE t <= i
      <4>1. i \in 1 .. l - p - 2 /\ p + 2 + i \in b + 1 .. l
        <5>1. b = p + 2 /\ d \in Nat /\ l = p + 2 + d
          BY <3>2
        <5>2. p \in Nat
          BY <1>5
        <5> QED
          BY <5>1, <5>2
      <4>2. last <= p + 2 + i
        BY <3>2, <3>3, <3>6, <4>1
      <4> QED
        BY <1>5, <1>10, <3>4, <4>2
    <3>7. /\ Rtsp!FirstMedium \in Seq(Rtsp!SdpLines)
          /\ Len(Rtsp!FirstMedium) = t
          /\ \A i \in 1 .. t : Rtsp!FirstMedium[i] = sdp[i]
      BY <3>2, <3>4, <3>5, <3>6, UpToTrack DEF d
    <3>8. /\ body' \in Seq(Rtsp!SdpLines) /\ Len(body') = t
          /\ \A i \in 1 .. t : body'[i] = sdp[i]
      BY <1>18, <2>2 DEF t
    <3>9. \A i \in 1 .. Len(body') : body'[i] = Rtsp!FirstMedium[i]
      BY <3>7, <3>8
    <3> QED
      BY <3>7, <3>8, <3>9, SeqEqual
  <2> QED
    BY <2>1, <2>2
<1>24. Told'
  <2>1. CASE pc' = "playing" /\ request = 4 /\ request' = 4
    <3>1. body' = body
      BY <1>19, <2>1
    <3> QED
      BY <1>1, <2>1, <3>1, BodyStays DEF RtspInv, Told
  <2>2. CASE /\ pc' \in {"write", "start session"}
             /\ request \in 1 .. 3 /\ request' = request + 1
             /\ pc' = "start session" => request = 3
    <3>0. request \in 1 .. 3
      BY <2>2, Zenon
    <3>a. request' = request + 1
      BY <2>2, Zenon
    <3>b. pc' = "start session" => request = 3
      BY <2>2, Zenon
    <3>1. ASSUME session.started PROVE FALSE
      <4>1. request = 4
        BY <3>1, Zenon DEF RtspInv, Told
      <4> QED
        BY <3>0, <4>1
    <3>2. pc' # "connect"
      BY <2>2
    <3>3. pc' = "start session" => request' = 4
      <4>1. pc' = "start session" => request' = 3 + 1
        BY <3>a, <3>b, Zenon
      <4>2. 3 + 1 = 4
        OBVIOUS
      <4> QED
        BY <4>1, <4>2, Zenon
    <3>4. session' = session
      BY <1>1
    <3> QED
      BY <3>1, <3>2, <3>3, <3>4, Zenon DEF Told
  <2> QED
    BY <1>16, <2>1, <2>2
<1> QED
  BY <1>16, <1>20, <1>21, <1>22, <1>23, <1>24, <1>c DEF RtspInv

LEMMA RtspThrows ==
  ASSUME RtspInv, Rtsp!ReadThrows
  PROVE  RtspInv'
<1>1. /\ pc' = "crashed"
      /\ UNCHANGED <<ok, sdp, connection, wire, request, result, body, transport, session>>
  BY DEF Rtsp!ReadThrows, Rtsp!server
<1>2. RtspTypes' /\ NotYet'
  <2>1. RtspTypes'
    BY <1>1 DEF RtspInv, RtspTypes, Rtsp!TypeOK
  <2>2. pc = "read"
    BY DEF Rtsp!ReadThrows
  <2> QED
    BY <1>1, <2>1, <2>2 DEF RtspInv, NotYet
<1>3. Rtsp!AnswersMatch' /\ FirstBody'
  BY <1>1, ServerStays DEF RtspInv, Rtsp!AnswersMatch, FirstBody
<1>4. Awaited' /\ Between' /\ Statuses'
  BY <1>1 DEF RtspInv, Awaited, Between, Statuses, Ascending, Later
<1>5. Told'
  BY <1>1, BodyStays DEF RtspInv, Told
<1> QED
  BY <1>2, <1>3, <1>4, <1>5 DEF RtspInv

LEMMA RtspStart ==
  ASSUME RtspInv, Rtsp!StartSession
  PROVE  RtspInv'
<1> USE DEF Rtsp!Requests
<1>1. /\ pc = "start session" /\ pc' = "write"
      /\ session' = [ports |-> transport, codecs |-> Rtsp!codecs(body),
                     fmtp |-> Rtsp!fmtp(body), started |-> TRUE]
      /\ UNCHANGED <<ok, sdp, connection, wire, request, result, body, transport>>
  BY DEF Rtsp!StartSession, Rtsp!server
<1>2. request = 4
  BY <1>1 DEF RtspInv, Told
<1>3. /\ session'.ports = transport /\ session'.started = TRUE
      /\ session'.codecs = Rtsp!codecs(body) /\ session'.fmtp = Rtsp!fmtp(body)
  BY <1>1
<1>4. RtspTypes'
  <2>1. {transport', session'.ports, session'.started} \subseteq BOOLEAN
    BY <1>1, <1>3 DEF RtspInv, RtspTypes, Rtsp!TypeOK
  <2>2. session'.codecs \union session'.fmtp \subseteq {"m=video", "m=audio"}
    BY <1>3 DEF Rtsp!codecs, Rtsp!fmtp, Rtsp!Described
  <2> QED
    BY <1>1, <2>1, <2>2 DEF RtspInv, RtspTypes, Rtsp!TypeOK
<1>5. NotYet'
  BY <1>1 DEF RtspInv, NotYet
<1>6. Rtsp!AnswersMatch' /\ FirstBody'
  BY <1>1, ServerStays DEF RtspInv, Rtsp!AnswersMatch, FirstBody
<1>7. Awaited' /\ Between' /\ Statuses'
  <2>1. Awaited' /\ Between'
    BY <1>1, ServerStays DEF RtspInv, Awaited, Between, Rtsp!Clean, Rtsp!EndsWithTrack
  <2>2. Statuses'
    BY <1>1 DEF RtspInv, Statuses, Ascending, Later
  <2> QED
    BY <2>1, <2>2
<1>8. Told'
  BY <1>1, <1>2, <1>3, BodyStays DEF Told
<1> QED
  BY <1>4, <1>5, <1>6, <1>7, <1>8 DEF RtspInv

LEMMA RtspStays ==
  ASSUME RtspInv, UNCHANGED rtspVars
  PROVE  RtspInv'
<1>1. UNCHANGED <<ok, sdp, connection, wire, request, pc, result, body, transport, session>>
  BY DEF rtspVars
<1>2. RtspTypes' /\ NotYet'
  BY <1>1 DEF RtspInv, RtspTypes, Rtsp!TypeOK, NotYet
<1>3. Rtsp!AnswersMatch' /\ FirstBody'
  BY <1>1, ServerStays DEF RtspInv, Rtsp!AnswersMatch, FirstBody
<1>4. Awaited'
  <2> SUFFICES ASSUME pc' = "read" PROVE \E off \in 0 .. Len(wire') : Answering(off)'
    BY DEF Awaited
  <2>1. PICK off \in 0 .. Len(wire) : Answering(off)
    BY <1>1 DEF RtspInv, Awaited
  <2>2. Rtsp!Answer(request)' = Rtsp!Answer(request)
    BY <1>1 DEF Rtsp!Answer
  <2>3. Rtsp!Clean(request)' <=> Rtsp!Clean(request)
    BY <1>1 DEF Rtsp!Clean, Rtsp!EndsWithTrack
  <2>4. Answering(off)'
    BY <1>1, <2>1, <2>2, <2>3 DEF Answering
  <2> QED
    BY <1>1, <2>4
<1>5. Between' /\ Statuses'
  <2>1. Between'
    BY <1>1 DEF RtspInv, Between, Rtsp!Clean, Rtsp!EndsWithTrack
  <2>2. Statuses'
    BY <1>1 DEF RtspInv, Statuses, Ascending, Later
  <2> QED
    BY <2>1, <2>2
<1>6. Told'
  BY <1>1, BodyStays DEF RtspInv, Told
<1> QED
  BY <1>2, <1>3, <1>4, <1>5, <1>6 DEF RtspInv

LEMMA RtspNext ==
  ASSUME Rtsp!RtspAssumption, RtspInv, Rtsp!Next
  PROVE  RtspInv'
BY RtspConnect, RtspWrite, RtspReadOther, RtspRead200, RtspThrows, RtspStart
   DEF Rtsp!Next, Rtsp!start

THEOREM RtspInvariance == NetworkSpec => []RtspInv
<1>0. Rtsp!RtspAssumption
  BY NetworkAssumption
<1>1. NetworkInit => RtspInv
  BY <1>0, RtspInit DEF NetworkInit
<1>2. RtspInv /\ [NetworkNext]_allVars => RtspInv'
  <2> SUFFICES ASSUME RtspInv, [NetworkNext]_allVars PROVE RtspInv'
    OBVIOUS
  <2>1. Rtsp!Next \/ UNCHANGED rtspVars
    BY DEF NetworkNext, ReceiveDatagrams, SendRequests, PlayLive, allVars
  <2> QED
    BY <1>0, <2>1, RtspNext, RtspStays
<1> QED
  BY <1>1, <1>2, PTL DEF NetworkSpec

\* RtspClient::start, however the answers are cut into pieces and wherever the server
\* breaks off: no answer is parsed for two requests, and answers are parsed in the order
\* of their requests.  Up to the first answer that was an error, or described more than was
\* read of it, each request is given its own; from there on it may be given an earlier
\* request's.  The session plays the first medium of the description parsed for DESCRIBE.
THEOREM AnswersCorrect == NetworkSpec => []AnswersMatch
<1>1. RtspInv => AnswersMatch
  <2> SUFFICES ASSUME RtspInv PROVE AnswersMatch
    OBVIOUS
  <2>1. Rtsp!TypeOK /\ Rtsp!AnswersMatch
    BY DEF RtspInv, RtspTypes
  <2>2. Rtsp!SessionOfFirstMedium
    BY DEF RtspInv, Told, FirstBody, Rtsp!SessionOfFirstMedium, Rtsp!DESCRIBE
  <2> QED
    BY <2>1, <2>2 DEF AnswersMatch
<1> QED
  BY RtspInvariance, <1>1, PTL

-------------------------------------------------------------------------------
(* The client of one stream.                                               *)

\* What a handler finds: as long as the stream is not closed, the sinks are those the
\* server has not ended, and a subsession that is being set up was never started.
LiveInv ==
  /\ LiveStream!TypeOK
  /\ stage # "closed" =>
       /\ sink = started \ ended
       /\ ~teardown
  /\ started \subseteq 1 .. Len(Media)
  /\ stage = "DESCRIBE" => started = {} /\ subsession = 0
  /\ stage = "SETUP" => subsession \in 1 .. Len(Media) /\ started \subseteq 1 .. subsession - 1
  /\ LiveStream!ServerTold

LEMMA LiveInit ==
  ASSUME LiveStream!Init
  PROVE  LiveInv
<1>1. 0 \in 0 .. Len(Media) + 1
  BY NetworkAssumption, LenProperties DEF LiveStream!LiveClientAssumption
<1> QED
  BY <1>1 DEF LiveStream!Init, LiveInv, LiveStream!TypeOK, LiveStream!ServerTold

LEMMA BelowNext ==
  ASSUME NEW m \in Nat, NEW n \in Nat, m < n
  PROVE  1 .. m - 1 \subseteq 1 .. n - 1 /\ (m # 0 => m \in 1 .. n - 1)
OBVIOUS

\* The next subsession is one that was not started, or there is none.
LEMMA NextSubsession ==
  ASSUME LiveInv, LiveStream!setupNextSubsession, stage \in {"DESCRIBE", "SETUP"},
         started' \subseteq started \union ({subsession} \ {0})
  PROVE  /\ stage' \in {"SETUP", "PLAY"}
         /\ subsession' \in 0 .. Len(Media) + 1
         /\ duration' \in Durations \union {0}
         /\ stage' = "SETUP" =>
              subsession' \in 1 .. Len(Media) /\ started' \subseteq 1 .. subsession' - 1
<1>1. Len(Media) \in Nat /\ DOMAIN Media = 1 .. Len(Media)
  BY NetworkAssumption, LenProperties DEF LiveStream!LiveClientAssumption
<1>2. subsession \in 0 .. Len(Media) + 1 /\ duration \in Durations \union {0}
  BY DEF LiveInv, LiveStream!TypeOK
<1>3. PICK s \in subsession + 1 .. Len(Media) + 1 :
        /\ subsession' = s
        /\ IF s \in 1 .. Len(Media)
             THEN stage' = "SETUP" /\ UNCHANGED duration
             ELSE stage' = "PLAY" /\ duration' \in Durations
  BY <1>1, Zenon DEF LiveStream!setupNextSubsession, LiveStream!Subsessions
<1>4. subsession' \in 0 .. Len(Media) + 1 /\ subsession' \in Nat /\ subsession < subsession'
  BY <1>1, <1>2, <1>3
<1>5. stage' \in {"SETUP", "PLAY"} /\ duration' \in Durations \union {0}
  BY <1>2, <1>3
<1>6. stage' = "SETUP" => subsession' \in 1 .. Len(Media)
  BY <1>3
<1>7. started' \subseteq 1 .. subsession' - 1
  <2>1. subsession \in Nat /\ subsession' \in Nat /\ subsession < subsession'
    BY <1>1, <1>2, <1>4
  <2>2. started = {} \/ started \subseteq 1 .. subsession - 1
    BY Zenon DEF LiveInv
  <2>3. /\ 1 .. subsession - 1 \subseteq 1 .. subsession' - 1
        /\ subsession # 0 => subsession \in 1 .. subsession' - 1
    BY <2>1, BelowNext, Zenon
  <2>5. ASSUME NEW x \in started' PROVE x \in 1 .. subsession' - 1
    <3>1. x \in started \/ (x = subsession /\ subsession # 0)
      BY Zenon
    <3>2. CASE x \in started
      BY <2>2, <2>3, <3>2, Zenon
    <3>3. CASE x = subsession /\ subsession # 0
      BY <2>3, <3>3, Zenon
    <3> QED
      BY <3>1, <3>2, <3>3, Zenon
  <2> QED
    BY <2>5, Zenon
<1> QED
  BY <1>4, <1>5, <1>6, <1>7

\* What closing a sink does, and with the last one the client.
LEMMA AfterPlaying ==
  ASSUME LiveInv, stage # "closed", NEW s \in started, LiveStream!subsessionAfterPlaying(s),
         UNCHANGED started
  PROVE  /\ stage' \in {stage, "closed"}
         /\ stage' # "closed" => sink' = started' \ ended' /\ teardown' = teardown
         /\ {streamTimerTask', teardown'} \subseteq BOOLEAN
         /\ ended' \subseteq started'
         /\ LiveStream!ServerTold'
         /\ stage' = "closed" => started \subseteq ended'
<1>1. ended' = ended \union {s} /\ sink \ {s} = started \ ended' /\ ~teardown
      /\ ended \subseteq started /\ {streamTimerTask, teardown} \subseteq BOOLEAN
  BY DEF LiveInv, LiveStream!TypeOK, LiveStream!subsessionAfterPlaying
<1>2. CASE sink \ {s} = {}
  <2>1. teardown' = FALSE /\ streamTimerTask' = FALSE /\ stage' = "closed"
    BY <1>2 DEF LiveStream!subsessionAfterPlaying, LiveStream!AllClosed,
                LiveStream!shutdownStream, LiveStream!Active
  <2> QED
    BY <1>1, <1>2, <2>1 DEF LiveStream!ServerTold
<1>3. CASE sink \ {s} # {}
  <2>1. sink' = sink \ {s} /\ UNCHANGED <<stage, streamTimerTask, teardown>>
    BY <1>3 DEF LiveStream!subsessionAfterPlaying, LiveStream!AllClosed
  <2> QED
    BY <1>1, <2>1 DEF LiveStream!ServerTold
<1> QED
  BY <1>2, <1>3

\* What closing the client does.
LEMMA ShutsDown ==
  ASSUME LiveInv, stage # "closed", LiveStream!shutdownStream(sink), UNCHANGED <<started, ended>>
  PROVE  /\ stage' = "closed" /\ LiveStream!ServerTold' /\ bye' = {}
         /\ {streamTimerTask', teardown'} \subseteq BOOLEAN
<1>1. stage' = "closed" /\ teardown' = (sink # {}) /\ bye' = {} /\ streamTimerTask' = FALSE
  BY DEF LiveStream!shutdownStream, LiveStream!Active
<1>2. sink = started \ ended
  BY DEF LiveInv
<1> QED
  BY <1>1, <1>2 DEF LiveStream!ServerTold

LEMMA LiveNext ==
  ASSUME LiveInv, LiveStream!Next
  PROVE  LiveInv' /\ (ended' # ended /\ stage' = "closed" => started \subseteq ended')
<1> USE DEF LiveStream!Running
<1>0. Len(Media) \in Nat /\ DOMAIN Media = 1 .. Len(Media)
  BY NetworkAssumption, LenProperties DEF LiveStream!LiveClientAssumption
<1>t. /\ stage \in {"DESCRIBE", "SETUP", "PLAY", "playing", "closed"}
      /\ subsession \in 0 .. Len(Media) + 1
      /\ duration \in Durations \union {0}
      /\ first_frame \subseteq started /\ ended \subseteq started /\ bye \subseteq started
      /\ {streamTimerTask, teardown, crashed} \subseteq BOOLEAN
  BY DEF LiveInv, LiveStream!TypeOK
<1>1. CASE LiveStream!continueAfterDESCRIBE
  <2>1. stage = "DESCRIBE" /\ UNCHANGED <<started, ended, decoder, first_frame, crashed>>
    BY <1>1 DEF LiveStream!continueAfterDESCRIBE, LiveStream!decoding
  <2>2. CASE LiveStream!shutdownStream(sink) /\ UNCHANGED <<subsession, duration>>
    <3>1. /\ stage' = "closed" /\ LiveStream!ServerTold' /\ bye' = {}
          /\ {streamTimerTask', teardown'} \subseteq BOOLEAN
      BY <2>1, <2>2, ShutsDown
    <3>2. LiveStream!TypeOK'
      BY <1>t, <2>1, <2>2, <3>1 DEF LiveStream!TypeOK
    <3> QED
      BY <2>1, <3>1, <3>2 DEF LiveInv
  <2>3. CASE LiveStream!setupNextSubsession
             /\ UNCHANGED <<sink, bye, streamTimerTask, teardown>>
    <3>1. /\ stage' \in {"SETUP", "PLAY"}
          /\ subsession' \in 0 .. Len(Media) + 1
          /\ duration' \in Durations \union {0}
          /\ stage' = "SETUP" =>
               subsession' \in 1 .. Len(Media) /\ started' \subseteq 1 .. subsession' - 1
      BY <2>1, <2>3, NextSubsession
    <3>2. LiveStream!TypeOK'
      BY <1>t, <2>1, <2>3, <3>1 DEF LiveStream!TypeOK
    <3>3. LiveStream!ServerTold'
      BY <3>1 DEF LiveStream!ServerTold
    <3> QED
      BY <2>1, <2>3, <3>1, <3>2, <3>3 DEF LiveInv
  <2> QED
    BY <1>1, <2>2, <2>3 DEF LiveStream!continueAfterDESCRIBE
<1>2. CASE LiveStream!continueAfterSETUP
  <2>1. /\ stage = "SETUP" /\ LiveStream!setupNextSubsession
        /\ UNCHANGED <<streamTimerTask, teardown, ended, decoder, crashed>>
    BY <1>2 DEF LiveStream!continueAfterSETUP
  <2>2. PICK set_up \in SUBSET {subsession} :
          /\ sink' = sink \union set_up
          /\ started' = started \union set_up
          /\ bye' = bye \union set_up
          /\ first_frame' = first_frame \union set_up
    BY <1>2 DEF LiveStream!continueAfterSETUP
  <2>3. subsession \in 1 .. Len(Media) /\ started \subseteq 1 .. subsession - 1
        /\ sink = started \ ended /\ ~teardown /\ started \subseteq 1 .. Len(Media)
    BY <2>1 DEF LiveInv
  <2>4. subsession # 0 /\ subsession \notin started
    BY <1>0, <2>3
  <2>5. /\ stage' \in {"SETUP", "PLAY"}
        /\ subsession' \in 0 .. Len(Media) + 1
        /\ duration' \in Durations \union {0}
        /\ stage' = "SETUP" =>
             subsession' \in 1 .. Len(Media) /\ started' \subseteq 1 .. subsession' - 1
    BY <2>1, <2>2, <2>4, NextSubsession
  <2>6. LiveStream!TypeOK'
    BY <1>t, <2>1, <2>2, <2>5 DEF LiveStream!TypeOK
  <2>7. sink' = started' \ ended'
    BY <1>t, <2>1, <2>2, <2>3, <2>4
  <2>8. started' \subseteq 1 .. Len(Media)
    BY <2>2, <2>3
  <2>9. LiveStream!ServerTold'
    BY <2>5 DEF LiveStream!ServerTold
  <2> QED
    BY <2>1, <2>3, <2>5, <2>6, <2>7, <2>8, <2>9 DEF LiveInv
<1>3. CASE LiveStream!continueAfterPLAY
  <2>1. stage = "PLAY"
        /\ UNCHANGED <<subsession, duration, started, ended, decoder, first_frame, crashed>>
    BY <1>3 DEF LiveStream!continueAfterPLAY, LiveStream!decoding
  <2>2. CASE /\ stage' = "playing"
             /\ streamTimerTask' = LiveStream!HasEnd
             /\ UNCHANGED <<sink, bye, teardown>>
    <3>1. LiveStream!TypeOK'
      BY <1>t, <2>1, <2>2 DEF LiveStream!TypeOK, LiveStream!HasEnd
    <3>2. LiveStream!ServerTold'
      BY <2>2 DEF LiveStream!ServerTold
    <3> QED
      BY <2>1, <2>2, <3>1, <3>2 DEF LiveInv
  <2>3. CASE LiveStream!shutdownStream(sink)
    <3>1. /\ stage' = "closed" /\ LiveStream!ServerTold' /\ bye' = {}
          /\ {streamTimerTask', teardown'} \subseteq BOOLEAN
      BY <2>1, <2>3, ShutsDown
    <3>2. LiveStream!TypeOK'
      BY <1>t, <2>1, <3>1 DEF LiveStream!TypeOK
    <3> QED
      BY <2>1, <3>1, <3>2 DEF LiveInv
  <2> QED
    BY <1>3, <2>2, <2>3 DEF LiveStream!continueAfterPLAY
<1>4. CASE LiveStream!SourceClosure \/ LiveStream!subsessionByeHandler
  <2>1. /\ stage # "closed"
        /\ UNCHANGED <<subsession, duration, started, decoder, first_frame, crashed>>
    BY <1>4 DEF LiveStream!SourceClosure, LiveStream!subsessionByeHandler, LiveStream!decoding
  <2>2. PICK s \in started : LiveStream!subsessionAfterPlaying(s)
    <3>1. sink \subseteq started /\ bye \subseteq started
      BY <1>t, <2>1 DEF LiveInv
    <3> QED
      BY <1>4, <3>1 DEF LiveStream!SourceClosure, LiveStream!subsessionByeHandler
  <2>3. bye' \subseteq started'
    <3>1. bye' \subseteq bye
      BY <1>4 DEF LiveStream!SourceClosure, LiveStream!subsessionByeHandler
    <3> QED
      BY <1>t, <2>1, <3>1
  <2>4. /\ stage' \in {stage, "closed"}
        /\ stage' # "closed" => sink' = started' \ ended' /\ teardown' = teardown
        /\ {streamTimerTask', teardown'} \subseteq BOOLEAN
        /\ ended' \subseteq started'
        /\ LiveStream!ServerTold'
        /\ stage' = "closed" => started \subseteq ended'
    BY <2>1, <2>2, AfterPlaying
  <2>5. LiveStream!TypeOK'
    BY <1>t, <2>1, <2>3, <2>4 DEF LiveStream!TypeOK
  <2> QED
    BY <2>1, <2>4, <2>5 DEF LiveInv
<1>5. CASE LiveStream!streamTimerHandler
  <2>1. /\ stage # "closed" /\ LiveStream!shutdownStream(sink)
        /\ UNCHANGED <<subsession, duration, started, ended, decoder, first_frame, crashed>>
    BY <1>5 DEF LiveStream!streamTimerHandler, LiveStream!decoding
  <2>2. /\ stage' = "closed" /\ LiveStream!ServerTold' /\ bye' = {}
        /\ {streamTimerTask', teardown'} \subseteq BOOLEAN
    BY <2>1, ShutsDown
  <2>3. LiveStream!TypeOK'
    BY <1>t, <2>1, <2>2 DEF LiveStream!TypeOK
  <2> QED
    BY <2>1, <2>2, <2>3 DEF LiveInv
<1>6. CASE LiveStream!afterGettingFrame
  <2>1. UNCHANGED <<stage, subsession, duration, sink, bye, streamTimerTask, teardown,
                    started, ended>>
    BY <1>6 DEF LiveStream!afterGettingFrame
  <2>2. PICK s \in sink, got \in BOOLEAN :
          first_frame' = first_frame \ {s} /\ crashed' = LiveStream!DecodeCrashes(s, got)
    BY <1>6 DEF LiveStream!afterGettingFrame
  <2>3. crashed' \in BOOLEAN
    BY <2>2 DEF LiveStream!DecodeCrashes
  <2>4. LiveStream!TypeOK'
    BY <1>t, <2>1, <2>2, <2>3 DEF LiveStream!TypeOK
  <2> QED
    BY <2>1, <2>4 DEF LiveInv, LiveStream!ServerTold
<1> QED
  BY <1>1, <1>2, <1>3, <1>4, <1>5, <1>6 DEF LiveStream!Next

\* For every stream, whichever handlers run in whichever order: the server is told of the
\* end if and only if it had not itself ended every subsession, and the end of one does
\* not close the client while others play.
THEOREM ServerToldOnce == NetworkSpec => ServerTold
<1>1. NetworkInit => LiveInv
  BY LiveInit DEF NetworkInit
<1>2. LiveInv /\ [NetworkNext]_allVars =>
        /\ LiveInv'
        /\ [ended' # ended /\ stage' = "closed" => started \subseteq ended']_(LiveStream!vars)
  <2> SUFFICES ASSUME LiveInv, [NetworkNext]_allVars
               PROVE  /\ LiveInv'
                      /\ [ended' # ended /\ stage' = "closed" => started \subseteq ended']_(LiveStream!vars)
    OBVIOUS
  <2>1. LiveStream!Next \/ UNCHANGED liveVars
    BY DEF NetworkNext, ReceiveDatagrams, SendRequests, PlayLive, allVars
  <2>2. CASE LiveStream!Next
    BY <2>2, LiveNext
  <2>3. CASE UNCHANGED liveVars
    BY <2>3 DEF liveVars, LiveInv, LiveStream!TypeOK, LiveStream!ServerTold
  <2> QED
    BY <2>1, <2>2, <2>3
<1>3. LiveInv => LiveStream!TypeOK /\ LiveStream!ServerTold
  BY DEF LiveInv
<1> QED
  BY <1>1, <1>2, <1>3, PTL DEF NetworkSpec, ServerTold, LiveStream!OthersPlayOn
===============================================================================
