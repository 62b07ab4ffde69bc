-------------------------- MODULE MediaPlayer_proofs --------------------------
(***************************************************************************)
(* Theorems about the SDL player, for any file, any number of plays,       *)
(* failures and presses, and about the run that has its sound beside it.   *)
(***************************************************************************)
EXTENDS MCMediaPlayer, SequenceTheorems, TLAPS

-------------------------------------------------------------------------------
(* The pictures: types, and the chain of refreshes.                        *)

\* A thread that has something to hand on holds a packet.
PacketsHeld ==
  \A g \in Gens : /\ demux[g].pc = "put" => demux[g].pkt \in Packets
                  /\ dec[g].pc = "packet" => dec[g].pkt \in Packets

\* What a later play() will make is as Init left it.
NotYetMade ==
  \A g \in Gens : g > gen =>
    /\ demux[g] = Idle /\ dec[g] = Idle
    /\ pos[g] = 0 /\ videoq[g] = <<>> /\ frameq[g] = <<>>

PlayerInv == TypeOK /\ PacketsHeld /\ NotYetMade /\ RefreshAlive

LEMMA FileFacts ==
  /\ Len(File) \in Nat /\ Packets = 1 .. Len(File) /\ MaxPlays \in Nat \ {0}
  /\ MaxFailures \in Nat /\ MaxPresses \in Nat
  /\ NoPacket = 0 /\ Gens = 1 .. MaxPlays
  BY MediaAssumption, LenProperties DEF PlayerAssumption, Packets, NoPacket, Gens

LEMMA PlayerInit == Init => PlayerInv
<1> SUFFICES ASSUME Init PROVE PlayerInv
  OBVIOUS
<1>1. \A g \in Gens : g \in Nat /\ g > 0
  BY FileFacts
<1>2. <<>> \in Seq(Packets) /\ <<>> \in Seq(Gens \X Packets)
  BY EmptySeq
<1>3. Idle \in Positions
  BY DEF Idle, Positions
<1>4. /\ quit \in BOOLEAN /\ started \in BOOLEAN /\ stopped \in BOOLEAN
      /\ mouse_left_down \in BOOLEAN /\ control_btns \in BOOLEAN
  BY DEF Init
<1>9. /\ 0 \in 0 .. Len(File) /\ 0 \in 0 .. MaxPlays
      /\ 0 \in 0 .. MaxFailures /\ 0 \in 0 .. MaxPresses
  BY FileFacts
<1>5. /\ video \in [Gens -> [quit : BOOLEAN, eof : BOOLEAN, paused : BOOLEAN]]
      /\ audio_eof \in [Gens -> BOOLEAN] /\ waiting \in [Gens -> BOOLEAN]
      /\ demux \in [Gens -> Positions] /\ dec \in [Gens -> Positions]
      /\ pos \in [Gens -> 0 .. Len(File)]
  BY <1>3, <1>9 DEF Init
<1>6. /\ videoq \in [Gens -> Seq(Packets)] /\ audioq \in [Gens -> Seq(Packets)]
      /\ frameq \in [Gens -> Seq(Packets)] /\ displayed \in Seq(Gens \X Packets)
  BY <1>2 DEF Init
<1>7. TypeOK
  BY <1>4, <1>5, <1>6, <1>9 DEF Init, TypeOK
<1>8. PacketsHeld /\ NotYetMade /\ RefreshAlive
  BY <1>1, FileFacts
     DEF Init, PacketsHeld, NotYetMade, RefreshAlive, Refreshing, Idle
<1> QED
  BY <1>7, <1>8 DEF PlayerInv

\* What the packets' queues go through.
LEMMA SeqFacts ==
  ASSUME NEW S, NEW s \in Seq(S)
  PROVE  /\ \A e \in S : Append(s, e) \in Seq(S)
         /\ s # <<>> => Head(s) \in S /\ Tail(s) \in Seq(S)
  BY AppendProperties, HeadTailProperties

\* Where a thread may go.
LEMMA Placed ==
  ASSUME NEW f \in [Gens -> Positions], NEW g,
         NEW c \in {"none", "read", "put", "loop", "deQueue", "packet", "ended"},
         NEW p \in Packets \cup {NoPacket}
  PROVE  /\ [f EXCEPT ![g] = [pc |-> c, pkt |-> p]] \in [Gens -> Positions]
         /\ [f EXCEPT ![g].pc = c] \in [Gens -> Positions]
  BY DEF Positions

LEMMA Flagged ==
  ASSUME NEW f \in [Gens -> [quit : BOOLEAN, eof : BOOLEAN, paused : BOOLEAN]], NEW g
  PROVE  /\ [f EXCEPT ![g].eof = TRUE]
              \in [Gens -> [quit : BOOLEAN, eof : BOOLEAN, paused : BOOLEAN]]
         /\ [f EXCEPT ![g].quit = TRUE]
              \in [Gens -> [quit : BOOLEAN, eof : BOOLEAN, paused : BOOLEAN]]
         /\ [f EXCEPT ![g].quit = TRUE, ![g].eof = TRUE]
              \in [Gens -> [quit : BOOLEAN, eof : BOOLEAN, paused : BOOLEAN]]
         /\ [f EXCEPT ![g].paused = TRUE]
              \in [Gens -> [quit : BOOLEAN, eof : BOOLEAN, paused : BOOLEAN]]
  OBVIOUS

\* A thread that runs is of a generation that play() has made.
LEMMA Made ==
  ASSUME PlayerInv, NEW g \in Gens, demux[g].pc # "none" \/ dec[g].pc # "none"
  PROVE  /\ g <= gen /\ gen \in Gens /\ gen \in Nat /\ g \in Nat
         /\ \A h \in Gens : h > gen => h # g /\ h # gen
<1>1. g \in Nat /\ g >= 1 /\ gen \in 0 .. MaxPlays /\ gen \in Nat
  BY FileFacts DEF PlayerInv, TypeOK
<1>2. ~ (g > gen)
  BY DEF PlayerInv, NotYetMade, Idle
<1>3. \A h \in Gens : h \in Nat
  BY FileFacts
<1> QED
  BY <1>1, <1>2, <1>3, FileFacts

LEMMA DemuxStep ==
  ASSUME PlayerInv, NEW g \in Gens, decode_thread(g)
  PROVE  PlayerInv'
<1> USE DEF queues, buttons, audio
<1>a. TypeOK /\ PacketsHeld /\ NotYetMade /\ RefreshAlive
  BY DEF PlayerInv
<1>b. /\ gen \in Gens /\ gen \in Nat /\ g <= gen /\ g \in Nat
      /\ \A h \in Gens : h > gen => h # g /\ h # gen
  BY Made DEF decode_thread, DemuxRead, DemuxPut, DemuxEof, DemuxEnds
<1>c. pos \in [Gens -> 0 .. Len(File)] /\ demux \in [Gens -> Positions]
  BY <1>a DEF TypeOK
<1>1. CASE DemuxRead(g)
  <2>1. pos[gen] \in 0 .. Len(File) /\ pos[gen] < Len(File)
    BY <1>b, <1>c, <1>1 DEF DemuxRead
  <2>2. pos[gen] + 1 \in 0 .. Len(File) /\ pos[gen] + 1 \in Packets
    BY <2>1, FileFacts
  <2>3. pos' \in [Gens -> 0 .. Len(File)]
    BY <1>c, <1>1, <2>2 DEF DemuxRead
  <2>4. demux' \in [Gens -> Positions]
    BY <1>c, <1>1, <2>2, Placed DEF DemuxRead
  <2>5. TypeOK'
    BY <1>a, <1>1, <2>3, <2>4 DEF DemuxRead, TypeOK
  <2>6. PacketsHeld'
    BY <1>a, <1>c, <1>1, <2>2 DEF DemuxRead, PacketsHeld
  <2>7. NotYetMade'
    BY <1>a, <1>b, <1>c, <1>1 DEF DemuxRead, NotYetMade
  <2>8. RefreshAlive'
    BY <1>a, <1>1 DEF DemuxRead, RefreshAlive, Refreshing
  <2> QED
    BY <2>5, <2>6, <2>7, <2>8 DEF PlayerInv
<1>2. CASE DemuxPut(g)
  <2>1. demux[g].pkt \in Packets
    BY <1>a, <1>2 DEF DemuxPut, PacketsHeld
  <2>2. /\ videoq' \in [Gens -> Seq(Packets)]
        /\ audioq' \in [Gens -> Seq(Packets)]
    <3>1. /\ Append(videoq[gen], demux[g].pkt) \in Seq(Packets)
          /\ Append(audioq[gen], demux[g].pkt) \in Seq(Packets)
      BY <1>a, <1>b, <2>1, SeqFacts DEF TypeOK
    <3> QED
      BY <1>a, <1>2, <3>1 DEF DemuxPut, TypeOK
  <2>3. demux' \in [Gens -> Positions]
    BY <1>c, <1>2, Placed DEF DemuxPut
  <2>4. TypeOK'
    BY <1>a, <1>2, <2>2, <2>3 DEF DemuxPut, TypeOK
  <2>5. PacketsHeld'
    BY <1>a, <1>c, <1>2 DEF DemuxPut, PacketsHeld
  <2>6. NotYetMade'
    <3>1. \A h \in Gens : h > gen => demux'[h] = demux[h] /\ videoq'[h] = videoq[h]
      BY <1>a, <1>b, <1>c, <1>2 DEF DemuxPut, TypeOK
    <3> QED
      BY <1>a, <1>2, <3>1 DEF DemuxPut, NotYetMade
  <2>7. RefreshAlive'
    BY <1>a, <1>2 DEF DemuxPut, RefreshAlive, Refreshing
  <2> QED
    BY <2>4, <2>5, <2>6, <2>7 DEF PlayerInv
<1>3. CASE DemuxEof(g)
  <2>1. video' \in [Gens -> [quit : BOOLEAN, eof : BOOLEAN, paused : BOOLEAN]]
    BY <1>a, <1>3, Flagged DEF DemuxEof, TypeOK
  <2>2. audio_eof' \in [Gens -> BOOLEAN] /\ quit' \in BOOLEAN
    BY <1>a, <1>3 DEF DemuxEof, TypeOK
  <2>3. demux' \in [Gens -> Positions]
    BY <1>c, <1>3, Placed DEF DemuxEof, Positions
  <2>4. TypeOK'
    BY <1>a, <1>3, <2>1, <2>2, <2>3 DEF DemuxEof, TypeOK
  <2>5. PacketsHeld'
    BY <1>a, <1>c, <1>3 DEF DemuxEof, PacketsHeld, Positions
  <2>6. NotYetMade'
    BY <1>a, <1>b, <1>c, <1>3 DEF DemuxEof, NotYetMade
  <2>7. RefreshAlive'
    BY <1>a, <1>b, <1>3 DEF DemuxEof, RefreshAlive, Refreshing, TypeOK
  <2> QED
    BY <2>4, <2>5, <2>6, <2>7 DEF PlayerInv
<1>4. CASE DemuxEnds(g)
  <2>1. failures' \in 0 .. MaxFailures
    BY <1>a, <1>4, FileFacts DEF DemuxEnds, TypeOK
  <2>2. demux' \in [Gens -> Positions]
    BY <1>c, <1>4, Placed DEF DemuxEnds, Positions
  <2>3. TypeOK'
    BY <1>a, <1>4, <2>1, <2>2 DEF DemuxEnds, TypeOK
  <2>4. PacketsHeld'
    BY <1>a, <1>c, <1>4 DEF DemuxEnds, PacketsHeld, Positions
  <2>5. NotYetMade'
    BY <1>a, <1>b, <1>c, <1>4 DEF DemuxEnds, NotYetMade
  <2>6. RefreshAlive'
    BY <1>a, <1>4 DEF DemuxEnds, RefreshAlive, Refreshing
  <2> QED
    BY <2>3, <2>4, <2>5, <2>6 DEF PlayerInv
<1> QED
  BY <1>1, <1>2, <1>3, <1>4 DEF decode_thread

LEMMA DecodeStep ==
  ASSUME PlayerInv, NEW g \in Gens, decode(g)
  PROVE  PlayerInv'
<1> USE DEF queues, buttons, audio
<1>a. TypeOK /\ PacketsHeld /\ NotYetMade /\ RefreshAlive
  BY DEF PlayerInv
<1>b. /\ gen \in Gens /\ gen \in Nat /\ g <= gen /\ g \in Nat
      /\ \A h \in Gens : h > gen => h # g /\ h # gen
  BY Made DEF decode, DecodeLoop, DecodeTake, DecodePut, DecodeFails, DecodeGivesUp
<1>c. /\ dec \in [Gens -> Positions] /\ videoq[g] \in Seq(Packets)
      /\ frameq[g] \in Seq(Packets)
  BY <1>a DEF TypeOK
<1>1. CASE DecodeLoop(g)
  <2>1. dec' \in [Gens -> Positions]
    BY <1>c, <1>1, Placed DEF DecodeLoop, Again
  <2>2. TypeOK'
    BY <1>a, <1>1, <2>1 DEF DecodeLoop, TypeOK
  <2>3. PacketsHeld'
    BY <1>a, <1>c, <1>1 DEF DecodeLoop, Again, PacketsHeld, Positions
  <2>4. NotYetMade'
    BY <1>a, <1>b, <1>c, <1>1 DEF DecodeLoop, NotYetMade
  <2>5. RefreshAlive'
    BY <1>a, <1>1 DEF DecodeLoop, RefreshAlive, Refreshing
  <2> QED
    BY <2>2, <2>3, <2>4, <2>5 DEF PlayerInv
<1>2. CASE DecodeTake(g)
  <2>1. Head(videoq[g]) \in Packets /\ Tail(videoq[g]) \in Seq(Packets)
    BY <1>c, <1>2, SeqFacts DEF DecodeTake
  <2>2. videoq' \in [Gens -> Seq(Packets)]
    BY <1>a, <1>2, <2>1 DEF DecodeTake, TypeOK
  <2>3. dec' \in [Gens -> Positions]
    BY <1>c, <1>2, <2>1, Placed DEF DecodeTake
  <2>4. TypeOK'
    BY <1>a, <1>2, <2>2, <2>3 DEF DecodeTake, TypeOK
  <2>5. PacketsHeld'
    BY <1>a, <1>c, <1>2, <2>1 DEF DecodeTake, PacketsHeld
  <2>6. NotYetMade'
    <3>1. \A h \in Gens : h > gen => dec'[h] = dec[h] /\ videoq'[h] = videoq[h]
      BY <1>a, <1>b, <1>c, <1>2 DEF DecodeTake, TypeOK
    <3> QED
      BY <1>a, <1>2, <3>1 DEF DecodeTake, NotYetMade
  <2>7. RefreshAlive'
    BY <1>a, <1>2 DEF DecodeTake, RefreshAlive, Refreshing
  <2> QED
    BY <2>4, <2>5, <2>6, <2>7 DEF PlayerInv
<1>3. CASE DecodePut(g)
  <2>1. dec[g].pkt \in Packets
    BY <1>a, <1>3 DEF DecodePut, PacketsHeld
  <2>2. frameq' \in [Gens -> Seq(Packets)]
    <3>1. Append(frameq[g], dec[g].pkt) \in Seq(Packets)
      BY <1>c, <2>1, SeqFacts
    <3> QED
      BY <1>a, <1>3, <3>1 DEF DecodePut, TypeOK
  <2>3. dec' \in [Gens -> Positions]
    BY <1>c, <1>3, Placed DEF DecodePut
  <2>4. TypeOK'
    BY <1>a, <1>3, <2>2, <2>3 DEF DecodePut, TypeOK
  <2>5. PacketsHeld'
    BY <1>a, <1>c, <1>3 DEF DecodePut, PacketsHeld
  <2>6. NotYetMade'
    <3>1. \A h \in Gens : h > gen => dec'[h] = dec[h] /\ frameq'[h] = frameq[h]
      BY <1>a, <1>b, <1>c, <1>3 DEF DecodePut, TypeOK
    <3> QED
      BY <1>a, <1>3, <3>1 DEF DecodePut, NotYetMade
  <2>7. RefreshAlive'
    BY <1>a, <1>3 DEF DecodePut, RefreshAlive, Refreshing
  <2> QED
    BY <2>4, <2>5, <2>6, <2>7 DEF PlayerInv
<1>4. CASE DecodeFails(g)
  <2>1. failures' \in 0 .. MaxFailures
    BY <1>a, <1>4, FileFacts DEF DecodeFails, TypeOK
  <2>2. dec' \in [Gens -> Positions]
    BY <1>c, <1>4, Placed DEF DecodeFails
  <2>3. TypeOK'
    BY <1>a, <1>4, <2>1, <2>2 DEF DecodeFails, TypeOK
  <2>4. PacketsHeld'
    BY <1>a, <1>c, <1>4 DEF DecodeFails, PacketsHeld
  <2>5. NotYetMade'
    BY <1>a, <1>b, <1>c, <1>4 DEF DecodeFails, NotYetMade
  <2>6. RefreshAlive'
    BY <1>a, <1>4 DEF DecodeFails, RefreshAlive, Refreshing
  <2> QED
    BY <2>3, <2>4, <2>5, <2>6 DEF PlayerInv
<1>5. CASE DecodeGivesUp(g)
  <2>1. failures' \in 0 .. MaxFailures
    BY <1>a, <1>5, FileFacts, SMTT(30) DEF DecodeGivesUp, TypeOK
  <2>2. video' \in [Gens -> [quit : BOOLEAN, eof : BOOLEAN, paused : BOOLEAN]]
    BY <1>a, <1>5, Flagged DEF DecodeGivesUp, TypeOK
  <2>3. dec' \in [Gens -> Positions]
    BY <1>c, <1>5, Placed DEF DecodeGivesUp
  <2>4. TypeOK'
    BY <1>a, <1>5, <2>1, <2>2, <2>3 DEF DecodeGivesUp, TypeOK
  <2>5. PacketsHeld'
    BY <1>a, <1>c, <1>5 DEF DecodeGivesUp, PacketsHeld
  <2>6. NotYetMade'
    BY <1>a, <1>b, <1>c, <1>5 DEF DecodeGivesUp, NotYetMade
  <2>7. RefreshAlive'
    BY <1>a, <1>b, <1>5 DEF DecodeGivesUp, RefreshAlive, Refreshing, TypeOK
  <2> QED
    BY <2>4, <2>5, <2>6, <2>7 DEF PlayerInv
<1> QED
  BY <1>1, <1>2, <1>3, <1>4, <1>5 DEF decode

\* The sound takes packets of its own queue only.
LEMMA CallbackStep ==
  ASSUME PlayerInv, NEW g \in Gens, audio_callback(g)
  PROVE  PlayerInv'
<1> USE DEF queues, buttons, audio
<1>a. TypeOK /\ PacketsHeld /\ NotYetMade /\ RefreshAlive
  BY DEF PlayerInv
<1>1. audioq' \in [Gens -> Seq(Packets)] /\ waiting' \in [Gens -> BOOLEAN]
  <2>1. audioq[g] \in Seq(Packets)
    BY <1>a DEF TypeOK
  <2>2. audioq[g] # <<>> => Tail(audioq[g]) \in Seq(Packets)
    BY <2>1, SeqFacts
  <2> QED
    BY <1>a, <2>2 DEF audio_callback, SoundWaits, SoundTakes, TypeOK
<1>2. UNCHANGED <<quit, stopped, buttons, gen, pos, video, audio_eof, videoq, frameq, demux,
                  dec, window, refreshes, displayed, failures, presses>>
  BY DEF audio_callback, SoundWaits, SoundTakes
<1>3. TypeOK'
  BY <1>a, <1>1, <1>2 DEF TypeOK
<1>4. PacketsHeld' /\ NotYetMade' /\ RefreshAlive'
  BY <1>a, <1>2 DEF PacketsHeld, NotYetMade, RefreshAlive, Refreshing
<1> QED
  BY <1>3, <1>4 DEF PlayerInv

-------------------------------------------------------------------------------
(* The window's thread and the user.                                       *)


\* Outside a refresh, with one more chain of refreshes for one more generation.
LEMMA PlayStep ==
  ASSUME PlayerInv, play, ~Refreshing, window' \in {"loop", "played"},
         mouse_left_down' \in BOOLEAN, presses' \in 0 .. MaxPresses
  PROVE  PlayerInv'
<1> USE DEF threads, queues, audio
<1>a. TypeOK /\ PacketsHeld /\ NotYetMade /\ RefreshAlive
  BY DEF PlayerInv
<1>b. /\ gen \in Nat /\ gen < MaxPlays /\ gen + 1 \in Gens /\ gen' = gen + 1
      /\ gen' \in 0 .. MaxPlays
  BY <1>a, FileFacts DEF play, TypeOK
<1>c. dec \in [Gens -> Positions] /\ demux \in [Gens -> Positions]
  BY <1>a DEF TypeOK
<1>1. RefreshAlive' /\ refreshes' \in 0 .. MaxPlays
  <2>1. refreshes \in Nat /\ refreshes <= gen
    BY <1>a, <1>b, FileFacts DEF RefreshAlive, TypeOK
  <2>2. refreshes' \in Nat /\ refreshes' <= gen' /\ (quit \/ refreshes' > 0)
    BY <1>b, <2>1 DEF play
  <2>3. quit' = quit /\ ~Refreshing'
    BY DEF play, Refreshing
  <2>4. gen' > 0 /\ refreshes' = 0 /\ ~Refreshing' => quit' \/ video'[gen'].eof
    BY <2>2, <2>3
  <2>5. refreshes' + (IF Refreshing' THEN 1 ELSE 0) <= gen'
    BY <2>2, <2>3
  <2>6. refreshes' \in 0 .. MaxPlays
    BY <1>b, <2>2, FileFacts
  <2> QED
    BY <2>4, <2>5, <2>6 DEF RefreshAlive
<1>2. dec' \in [Gens -> Positions] /\ demux' \in [Gens -> Positions]
  BY <1>c, Placed DEF play, Positions
<1>3. TypeOK'
  BY <1>a, <1>b, <1>1, <1>2 DEF play, TypeOK
<1>4. PacketsHeld'
  BY <1>a, <1>c DEF play, PacketsHeld, Positions
<1>5. NotYetMade'
  <2>1. \A h \in Gens : h > gen' => h > gen /\ h # gen + 1
    BY <1>b, FileFacts
  <2>2. \A h \in Gens : h > gen' => dec'[h] = dec[h] /\ demux'[h] = demux[h]
    BY <1>c, <2>1 DEF play
  <2> QED
    BY <1>a, <2>1, <2>2 DEF play, NotYetMade
<1> QED
  BY <1>1, <1>3, <1>4, <1>5 DEF PlayerInv

\* What stop() does to the queues of the generation that plays.
LEMMA StopStep ==
  ASSUME PlayerInv, stop, ~Refreshing, window' \in {"join", "joinLast"},
         mouse_left_down' \in BOOLEAN, presses' \in 0 .. MaxPresses,
         quit' \in BOOLEAN, quit => quit',
         \/ video' = video
         \/ video' = [video EXCEPT ![gen].paused = TRUE]
  PROVE  PlayerInv'
<1>a. TypeOK /\ PacketsHeld /\ NotYetMade /\ RefreshAlive
  BY DEF PlayerInv
<1>1. video' \in [Gens -> [quit : BOOLEAN, eof : BOOLEAN, paused : BOOLEAN]]
  <2>1. video \in [Gens -> [quit : BOOLEAN, eof : BOOLEAN, paused : BOOLEAN]]
    BY <1>a DEF TypeOK
  <2>2. [video EXCEPT ![gen].paused = TRUE]
          \in [Gens -> [quit : BOOLEAN, eof : BOOLEAN, paused : BOOLEAN]]
    BY <2>1, Flagged
  <2> QED
    BY <2>1, <2>2
<1>2. /\ videoq' \in [Gens -> Seq(Packets)]
      /\ audioq' \in [Gens -> Seq(Packets)]
      /\ frameq' \in [Gens -> Seq(Packets)]
  BY <1>a, EmptySeq DEF stop, TypeOK
<1>3. TypeOK'
  BY <1>a, <1>1, <1>2 DEF stop, audio, TypeOK
<1>4. PacketsHeld'
  BY <1>a DEF stop, PacketsHeld
<1>5. NotYetMade'
  <2>1. \A h \in Gens : /\ videoq[h] = <<>> => videoq'[h] = <<>>
                        /\ frameq[h] = <<>> => frameq'[h] = <<>>
    BY <1>a DEF stop, TypeOK
  <2> QED
    BY <1>a, <2>1 DEF stop, NotYetMade
<1>6. RefreshAlive'
  <2>1. gen > 0 => video'[gen].eof = video[gen].eof
    <3>1. gen > 0 => gen \in Gens
      BY <1>a, FileFacts DEF TypeOK
    <3>2. video \in [Gens -> [quit : BOOLEAN, eof : BOOLEAN, paused : BOOLEAN]]
      BY <1>a DEF TypeOK
    <3> QED
      BY <3>1, <3>2
  <2> QED
    BY <1>a, <2>1 DEF stop, RefreshAlive, Refreshing
<1> QED
  BY <1>3, <1>4, <1>5, <1>6 DEF PlayerInv

\* The buttons that only pause, and the quit event.
LEMMA FlagStep ==
  ASSUME PlayerInv, ~Refreshing, window' \in {"loop", "ended"},
         mouse_left_down' \in BOOLEAN, presses' \in 0 .. MaxPresses,
         quit' \in BOOLEAN, quit => quit',
         \/ video' = video
         \/ video' = [video EXCEPT ![gen].paused = TRUE]
         \/ video' = [video EXCEPT ![gen].quit = TRUE],
         stopped' = stopped, started' = started, control_btns' = control_btns,
         gen' = gen, UNCHANGED audio, UNCHANGED threads,
         refreshes' = refreshes, displayed' = displayed
  PROVE  PlayerInv'
<1> USE DEF threads, queues, audio
<1>a. TypeOK /\ PacketsHeld /\ NotYetMade /\ RefreshAlive
  BY DEF PlayerInv
<1>1. video' \in [Gens -> [quit : BOOLEAN, eof : BOOLEAN, paused : BOOLEAN]]
  <2>1. video \in [Gens -> [quit : BOOLEAN, eof : BOOLEAN, paused : BOOLEAN]]
    BY <1>a DEF TypeOK
  <2>2. /\ [video EXCEPT ![gen].paused = TRUE]
             \in [Gens -> [quit : BOOLEAN, eof : BOOLEAN, paused : BOOLEAN]]
        /\ [video EXCEPT ![gen].quit = TRUE]
             \in [Gens -> [quit : BOOLEAN, eof : BOOLEAN, paused : BOOLEAN]]
    BY <2>1, Flagged
  <2> QED
    BY <2>1, <2>2
<1>2. TypeOK'
  BY <1>a, <1>1 DEF TypeOK
<1>3. PacketsHeld' /\ NotYetMade'
  BY <1>a DEF PacketsHeld, NotYetMade
<1>4. RefreshAlive'
  <2>1. gen > 0 => video'[gen].eof = video[gen].eof
    <3>1. gen > 0 => gen \in Gens
      BY <1>a, FileFacts DEF TypeOK
    <3>2. video \in [Gens -> [quit : BOOLEAN, eof : BOOLEAN, paused : BOOLEAN]]
      BY <1>a DEF TypeOK
    <3> QED
      BY <3>1, <3>2
  <2> QED
    BY <1>a, <2>1 DEF RefreshAlive, Refreshing
<1> QED
  BY <1>2, <1>3, <1>4 DEF PlayerInv

LEMMA RefreshStep ==
  ASSUME PlayerInv, video_refresh_timer
  PROVE  PlayerInv'
<1> USE DEF threads, queues, buttons, audio
<1>a. TypeOK /\ PacketsHeld /\ NotYetMade /\ RefreshAlive
  BY DEF PlayerInv
<1>b. gen \in Nat /\ refreshes \in Nat /\ gen <= MaxPlays
  BY <1>a, FileFacts DEF TypeOK
<1>1. CASE RefreshCheck
  <2>1. RefreshAlive' /\ refreshes' \in 0 .. MaxPlays
    BY <1>a, <1>b, <1>1, FileFacts DEF RefreshCheck, RefreshAlive, Refreshing
  <2>2. control_btns' \in BOOLEAN
    BY <1>a, <1>1 DEF RefreshCheck, TypeOK
  <2>3. TypeOK'
    BY <1>a, <1>1, <2>1, <2>2 DEF RefreshCheck, TypeOK
  <2>4. PacketsHeld' /\ NotYetMade'
    BY <1>a, <1>1 DEF RefreshCheck, PacketsHeld, NotYetMade
  <2> QED
    BY <2>1, <2>3, <2>4 DEF PlayerInv
<1>2. CASE RefreshEnds
  <2>1. RefreshAlive'
    BY <1>a, <1>b, <1>2 DEF RefreshEnds, RefreshAlive, Refreshing
  <2>2. TypeOK'
    BY <1>a, <1>2 DEF RefreshEnds, TypeOK
  <2>3. PacketsHeld' /\ NotYetMade'
    BY <1>a, <1>2 DEF RefreshEnds, PacketsHeld, NotYetMade
  <2> QED
    BY <2>1, <2>2, <2>3 DEF PlayerInv
<1>3. CASE RefreshShow
  <2>1. gen \in Gens
    BY <1>a, <1>b, <1>3, FileFacts DEF RefreshShow, RefreshAlive, Refreshing
  <2>2. frameq[gen] \in Seq(Packets)
    BY <1>a, <2>1 DEF TypeOK
  <2>3. Head(frameq[gen]) \in Packets /\ Tail(frameq[gen]) \in Seq(Packets)
    BY <1>3, <2>2, SeqFacts DEF RefreshShow
  <2>4. displayed' \in Seq(Gens \X Packets)
    <3>1. <<gen, Head(frameq[gen])>> \in Gens \X Packets
      BY <2>1, <2>3
    <3>2. displayed \in Seq(Gens \X Packets)
      BY <1>a DEF TypeOK
    <3> QED
      BY <1>3, <3>1, <3>2, SeqFacts DEF RefreshShow
  <2>5. frameq' \in [Gens -> Seq(Packets)]
    BY <1>a, <1>3, <2>3 DEF RefreshShow, TypeOK
  <2>6. RefreshAlive' /\ refreshes' \in 0 .. MaxPlays
    BY <1>a, <1>b, <1>3, FileFacts DEF RefreshShow, RefreshAlive, Refreshing
  <2>7. TypeOK'
    BY <1>a, <1>3, <2>4, <2>5, <2>6 DEF RefreshShow, TypeOK
  <2>8. PacketsHeld'
    BY <1>a, <1>3 DEF RefreshShow, PacketsHeld
  <2>9. NotYetMade'
    <3>1. \A h \in Gens : h > gen => frameq'[h] = frameq[h]
      BY <1>a, <1>b, <1>3 DEF RefreshShow, TypeOK
    <3> QED
      BY <1>a, <1>3, <3>1 DEF RefreshShow, NotYetMade
  <2> QED
    BY <2>6, <2>7, <2>8, <2>9 DEF PlayerInv
<1> QED
  BY <1>1, <1>2, <1>3 DEF video_refresh_timer

LEMMA WindowStep ==
  ASSUME PlayerInv, Window
  PROVE  PlayerInv'
<1>a. TypeOK /\ PacketsHeld /\ NotYetMade /\ RefreshAlive
  BY DEF PlayerInv
<1>b. mouse_left_down \in BOOLEAN /\ presses \in 0 .. MaxPresses /\ quit \in BOOLEAN
  BY <1>a DEF TypeOK
<1>1. CASE PlayAtOnce
  BY <1>b, <1>1, PlayStep DEF PlayAtOnce, Refreshing
<1>2. CASE LoopTest
  <2> USE <1>2 DEF LoopTest, threads, queues, buttons, audio
  <2>1. TypeOK'
    BY <1>a DEF TypeOK
  <2>2. PacketsHeld' /\ NotYetMade'
    BY <1>a DEF PacketsHeld, NotYetMade
  <2>3. RefreshAlive'
    BY <1>a DEF RefreshAlive, Refreshing
  <2> QED
    BY <2>1, <2>2, <2>3 DEF PlayerInv
<1>3. CASE video_refresh_timer
  BY <1>3, RefreshStep
<1>4. CASE MediaPlayPauses
  BY <1>b, <1>4, FlagStep DEF MediaPlayPauses, Refreshing, buttons
<1>5. CASE Destructor
  BY <1>b, <1>5, StopStep DEF Destructor, Refreshing
<1>6. CASE Join
  <2> USE <1>6 DEF Join, threads, queues, buttons, audio
  <2>1. TypeOK'
    BY <1>a DEF TypeOK
  <2>2. PacketsHeld' /\ NotYetMade'
    BY <1>a DEF PacketsHeld, NotYetMade
  <2>3. RefreshAlive'
    BY <1>a DEF RefreshAlive, Refreshing
  <2> QED
    BY <2>1, <2>2, <2>3 DEF PlayerInv
<1> QED
  BY <1>1, <1>2, <1>3, <1>4, <1>5, <1>6 DEF Window

LEMMA UserStep ==
  ASSUME PlayerInv, User
  PROVE  PlayerInv'
<1>a. TypeOK
  BY DEF PlayerInv
<1>b. mouse_left_down \in BOOLEAN /\ quit \in BOOLEAN
  BY <1>a DEF TypeOK
<1>c. presses' \in 0 .. MaxPresses /\ ~Refreshing
  BY <1>a, FileFacts DEF TypeOK, User, MouseDown, MouseUp, QuitEvent, Press, Refreshing
<1>d. ASSUME media_play, mouse_left_down' \in BOOLEAN PROVE PlayerInv'
  BY <1>c, <1>d, PlayStep DEF media_play
<1>e. ASSUME media_pause, mouse_left_down' \in BOOLEAN PROVE PlayerInv'
  BY <1>b, <1>c, <1>e, FlagStep DEF media_pause
<1>f. ASSUME media_stop, mouse_left_down' \in BOOLEAN PROVE PlayerInv'
  BY <1>c, <1>f, StopStep DEF media_stop
<1>g. ASSUME Handler, mouse_left_down' \in BOOLEAN PROVE PlayerInv'
  BY <1>d, <1>e, <1>f, <1>g DEF Handler
<1>1. CASE MouseDown
  BY <1>d, <1>g, <1>1 DEF MouseDown
<1>2. CASE MouseUp
  <2>1. CASE control_btns /\ Handler
    BY <1>g, <1>2, <2>1 DEF MouseUp
  <2>2. ASSUME window' = "loop",
               UNCHANGED <<quit, stopped, started, control_btns, gen, video, audio,
                           threads, refreshes, displayed>>
        PROVE  PlayerInv'
    <3>1. quit' \in BOOLEAN /\ mouse_left_down' \in BOOLEAN
      BY <1>b, <1>2, <2>2 DEF MouseUp
    <3> QED
      BY <1>c, <2>2, <3>1, FlagStep
  <2> QED
    BY <1>2, <2>1, <2>2 DEF MouseUp
<1>3. CASE QuitEvent
  BY <1>b, <1>c, <1>3, FlagStep DEF QuitEvent, buttons
<1> QED
  BY <1>1, <1>2, <1>3 DEF User

LEMMA PlayerStep == PlayerInv /\ [Next]_vars => PlayerInv'
<1> SUFFICES ASSUME PlayerInv, [Next]_vars PROVE PlayerInv'
  OBVIOUS
<1>1. CASE Next
  BY <1>1, DemuxStep, DecodeStep, CallbackStep, WindowStep, UserStep DEF Next
<1>2. CASE UNCHANGED vars
  <2>a. TypeOK /\ PacketsHeld /\ NotYetMade /\ RefreshAlive
    BY DEF PlayerInv
  <2> USE <1>2 DEF vars, queues, buttons, audio
  <2>1. TypeOK'
    BY <2>a DEF TypeOK
  <2>2. PacketsHeld' /\ NotYetMade' /\ RefreshAlive'
    BY <2>a DEF PacketsHeld, NotYetMade, RefreshAlive, Refreshing
  <2> QED
    BY <2>1, <2>2 DEF PlayerInv
<1> QED
  BY <1>1, <1>2

\* Every play() adds one chain of refreshes at most and no path forgets to go on
\* with it: until the player quits or the video ends somebody is about to refresh,
\* for any file and however often the user plays, pauses and stops.
THEOREM RefreshCorrect == Spec => []RefreshAlive
<1>1. PlayerInv => RefreshAlive
  BY DEF PlayerInv
<1> QED
  BY <1>1, PlayerInit, PlayerStep, PTL DEF Spec

-------------------------------------------------------------------------------
(* The pipeline of the first play(): its stages as sets of packets.        *)

Elements(s) == {s[i] : i \in DOMAIN s}
Before(A, B) == \A x \in A, y \in B : x < y

LEMMA ElementsAppend ==
  ASSUME NEW S, NEW s \in Seq(S), NEW e \in S
  PROVE  Elements(Append(s, e)) = Elements(s) \cup {e}
<1>1. /\ DOMAIN Append(s, e) = 1 .. Len(s) + 1 /\ DOMAIN s = 1 .. Len(s)
      /\ Append(s, e)[Len(s) + 1] = e
      /\ \A i \in 1 .. Len(s) : Append(s, e)[i] = s[i]
      /\ Len(s) \in Nat
  BY AppendProperties, LenProperties
<1>2. 1 .. Len(s) + 1 = (1 .. Len(s)) \cup {Len(s) + 1}
  BY <1>1
<1> QED
  BY <1>1, <1>2 DEF Elements

LEMMA ElementsTail ==
  ASSUME NEW S, NEW s \in Seq(S), s # <<>>
  PROVE  Elements(s) = {Head(s)} \cup Elements(Tail(s))
<1>1. /\ Len(s) \in Nat \ {0} /\ DOMAIN s = 1 .. Len(s) /\ Head(s) = s[1]
      /\ DOMAIN Tail(s) = 1 .. Len(s) - 1
      /\ \A i \in 1 .. Len(s) - 1 : Tail(s)[i] = s[i + 1]
  BY EmptySeq, LenProperties, HeadTailProperties
<1>2. \A i \in 1 .. Len(s) : i = 1 \/ i - 1 \in 1 .. Len(s) - 1
  BY <1>1
<1>3. \A i \in 1 .. Len(s) - 1 : i + 1 \in 1 .. Len(s)
  BY <1>1
<1>4. ASSUME NEW i \in 1 .. Len(s)
      PROVE  s[i] = Head(s) \/ s[i] \in Elements(Tail(s))
  <2>1. CASE i = 1
    BY <1>1, <2>1
  <2>2. CASE i # 1
    <3>1. i - 1 \in 1 .. Len(s) - 1 /\ (i - 1) + 1 = i
      BY <1>1, <1>2, <2>2
    <3>2. Tail(s)[i - 1] = s[i]
      BY <1>1, <3>1
    <3> QED
      BY <1>1, <3>1, <3>2 DEF Elements
  <2> QED
    BY <2>1, <2>2
<1>5. Head(s) \in Elements(s)
  BY <1>1 DEF Elements
<1>6. Elements(Tail(s)) \subseteq Elements(s)
  BY <1>1, <1>3 DEF Elements
<1>7. Elements(s) \subseteq {Head(s)} \cup Elements(Tail(s))
  BY <1>1, <1>4 DEF Elements
<1> QED
  BY <1>5, <1>6, <1>7

LEMMA AscendingAppend ==
  ASSUME NEW S \in SUBSET Nat, NEW s \in Seq(S), NEW e \in S, Ascending(s),
         Before(Elements(s), {e})
  PROVE  Ascending(Append(s, e))
<1>1. /\ DOMAIN Append(s, e) = 1 .. Len(s) + 1 /\ DOMAIN s = 1 .. Len(s)
      /\ Append(s, e)[Len(s) + 1] = e
      /\ \A i \in 1 .. Len(s) : Append(s, e)[i] = s[i]
      /\ Len(s) \in Nat
  BY AppendProperties, LenProperties
<1>2. \A i \in 1 .. Len(s) : s[i] < e
  BY <1>1 DEF Before, Elements
<1>3. \A i, j \in 1 .. Len(s) : i < j => s[i] < s[j]
  BY <1>1 DEF Ascending
<1>4. ASSUME NEW i \in 1 .. Len(s) + 1, NEW j \in 1 .. Len(s) + 1, i < j
      PROVE  Append(s, e)[i] < Append(s, e)[j]
  <2>1. i \in 1 .. Len(s) /\ Append(s, e)[i] = s[i]
    BY <1>1, <1>4
  <2>2. CASE j = Len(s) + 1
    BY <1>1, <1>2, <2>1, <2>2
  <2>3. CASE j \in 1 .. Len(s)
    BY <1>1, <1>3, <1>4, <2>1, <2>3
  <2> QED
    BY <1>1, <2>2, <2>3
<1> QED
  BY <1>1, <1>4 DEF Ascending

LEMMA AscendingTail ==
  ASSUME NEW S \in SUBSET Nat, NEW s \in Seq(S), s # <<>>, Ascending(s)
  PROVE  Ascending(Tail(s)) /\ Before({Head(s)}, Elements(Tail(s)))
<1>1. /\ Len(s) \in Nat \ {0} /\ DOMAIN s = 1 .. Len(s) /\ Head(s) = s[1]
      /\ DOMAIN Tail(s) = 1 .. Len(s) - 1
      /\ \A i \in 1 .. Len(s) - 1 : Tail(s)[i] = s[i + 1]
  BY EmptySeq, LenProperties, HeadTailProperties
<1>2. \A i \in 1 .. Len(s) - 1 : i + 1 \in 1 .. Len(s) /\ 1 < i + 1 /\ i \in Nat
  BY <1>1
<1>3. \A i, j \in 1 .. Len(s) : i < j => s[i] < s[j]
  BY <1>1 DEF Ascending
<1>4. \A i, j \in 1 .. Len(s) - 1 : i < j => i + 1 < j + 1
  BY <1>2
<1>5. Ascending(Tail(s))
  BY <1>1, <1>2, <1>3, <1>4 DEF Ascending
<1>6. 1 \in 1 .. Len(s)
  BY <1>1
<1>7. \A i \in 1 .. Len(s) - 1 : s[1] < Tail(s)[i]
  BY <1>1, <1>2, <1>3, <1>6
<1> QED
  BY <1>1, <1>5, <1>7 DEF Before, Elements

\* The packets of what is displayed.
Seconds(d) == [i \in DOMAIN d |-> d[i][2]]

LEMMA SecondsAppend ==
  ASSUME NEW d \in Seq(Gens \X Packets), NEW g \in Gens, NEW p \in Packets
  PROVE  /\ Seconds(d) \in Seq(Packets)
         /\ Seconds(Append(d, <<g, p>>)) = Append(Seconds(d), p)
<1>1. DOMAIN d = 1 .. Len(d) /\ Len(d) \in Nat
  BY LenProperties
<1>2. \A i \in 1 .. Len(d) : d[i][2] \in Packets
  <2>1. \A i \in 1 .. Len(d) : d[i] \in Gens \X Packets
    BY ElementOfSeq
  <2> QED
    BY <2>1
<1>3. Seconds(d) \in Seq(Packets)
  BY <1>1, <1>2, IsASeq DEF Seconds
<1>4. Len(Seconds(d)) = Len(d) /\ DOMAIN Seconds(d) = 1 .. Len(d)
  BY <1>1, <1>3, LenProperties DEF Seconds
<1>5. <<g, p>> \in Gens \X Packets /\ <<g, p>>[2] = p
  OBVIOUS
<1>6. /\ DOMAIN Append(d, <<g, p>>) = 1 .. Len(d) + 1
      /\ \A i \in 1 .. Len(d) : Append(d, <<g, p>>)[i] = d[i]
      /\ Append(d, <<g, p>>)[Len(d) + 1] = <<g, p>>
  BY <1>5, AppendProperties, LenProperties
<1>7. /\ DOMAIN Append(Seconds(d), p) = 1 .. Len(d) + 1
      /\ \A i \in 1 .. Len(d) : Append(Seconds(d), p)[i] = Seconds(d)[i]
      /\ Append(Seconds(d), p)[Len(d) + 1] = p
      /\ Append(Seconds(d), p) \in [1 .. Len(d) + 1 -> Packets]
  <2>1. /\ Append(Seconds(d), p) \in Seq(Packets)
        /\ Len(Append(Seconds(d), p)) = Len(d) + 1
        /\ \A i \in 1 .. Len(d) : Append(Seconds(d), p)[i] = Seconds(d)[i]
        /\ Append(Seconds(d), p)[Len(d) + 1] = p
    BY <1>3, <1>4, AppendProperties
  <2> QED
    BY <2>1, LenProperties
<1>8. \A i \in 1 .. Len(d) + 1 :
        Append(d, <<g, p>>)[i][2] = Append(Seconds(d), p)[i]
  <2>1. \A i \in 1 .. Len(d) : Append(d, <<g, p>>)[i][2] = Append(Seconds(d), p)[i]
    BY <1>1, <1>6, <1>7 DEF Seconds
  <2>2. Append(d, <<g, p>>)[Len(d) + 1][2] = Append(Seconds(d), p)[Len(d) + 1]
    BY <1>5, <1>6, <1>7
  <2>3. \A i \in 1 .. Len(d) + 1 : i \in 1 .. Len(d) \/ i = Len(d) + 1
    BY <1>1
  <2> QED
    BY <2>1, <2>2, <2>3
<1>9. Append(Seconds(d), p) = [i \in 1 .. Len(d) + 1 |-> Append(Seconds(d), p)[i]]
  BY <1>7
<1> QED
  BY <1>3, <1>6, <1>8, <1>9 DEF Seconds

\* The stages, from the display back to the demuxer.
Shown == Elements(Seconds(displayed))
Framed == Elements(frameq[1])
Decoding == IF dec[1].pc = "packet" THEN {dec[1].pkt} ELSE {}
Queued == Elements(videoq[1])
Reading == IF demux[1].pc = "put" THEN {demux[1].pkt} ELSE {}

\* Every packet of a stage is before those of the stages behind it, and none is
\* beyond what was read.
InStages(S, F, D, Q, R, n) ==
  /\ Before(S, F \cup D \cup Q \cup R) /\ Before(F, D \cup Q \cup R)
  /\ Before(D, Q \cup R) /\ Before(Q, R)
  /\ \A x \in S \cup F \cup D \cup Q \cup R : x \in Packets /\ x <= n

Complete(U, n) == \A p \in Packets : File[p] = "video" /\ p <= n => p \in U

InOrder ==
  gen <= 1 =>
    /\ Ascending(Seconds(displayed)) /\ Ascending(frameq[1]) /\ Ascending(videoq[1])
    /\ InStages(Shown, Framed, Decoding, Queued, Reading, pos[1])
    /\ failures = 0 /\ ~stopped =>
         Complete(Shown \cup Framed \cup Decoding \cup Queued \cup Reading, pos[1])

LEMMA OrderInit == Init => InOrder
<1> SUFFICES ASSUME Init PROVE InOrder
  OBVIOUS
<1>1. 1 \in Gens /\ \A p \in Packets : ~ (p <= 0)
  BY FileFacts
<1>2. /\ displayed = <<>> /\ frameq[1] = <<>> /\ videoq[1] = <<>> /\ pos[1] = 0
      /\ dec[1].pc = "none" /\ demux[1].pc = "none"
  BY <1>1 DEF Init, Idle
<1>3. DOMAIN <<>> = {}
  OBVIOUS
<1>4. /\ Seconds(displayed) = <<>>
      /\ Shown = {} /\ Framed = {} /\ Decoding = {} /\ Queued = {} /\ Reading = {}
  BY <1>2, <1>3 DEF Shown, Framed, Decoding, Queued, Reading, Elements, Seconds
<1>5. Ascending(Seconds(displayed)) /\ Ascending(frameq[1]) /\ Ascending(videoq[1])
  BY <1>2, <1>3, <1>4 DEF Ascending
<1>6. InStages(Shown, Framed, Decoding, Queued, Reading, pos[1])
  BY <1>4 DEF InStages, Before
<1>7. Complete(Shown \cup Framed \cup Decoding \cup Queued \cup Reading, pos[1])
  BY <1>1, <1>2 DEF Complete
<1> QED
  BY <1>5, <1>6, <1>7 DEF InOrder

\* Most steps leave the stages alone.
LEMMA OrderSame ==
  ASSUME InOrder, gen <= gen', gen \in Nat, gen' \in Nat,
         displayed' = displayed, frameq'[1] = frameq[1], videoq'[1] = videoq[1],
         pos'[1] = pos[1], Decoding' = Decoding, Reading' = Reading,
         failures' = 0 => failures = 0, stopped => stopped'
  PROVE  InOrder'
<1>1. Shown' = Shown /\ Framed' = Framed /\ Queued' = Queued
  BY DEF Shown, Framed, Queued, Elements, Seconds
<1>2. gen' <= 1 => gen <= 1
  OBVIOUS
<1> QED
  BY <1>1, <1>2 DEF InOrder

LEMMA DemuxOrder ==
  ASSUME PlayerInv, InOrder, NEW g \in Gens, decode_thread(g)
  PROVE  InOrder'
<1> USE DEF queues, buttons, audio
<1>a. TypeOK /\ PacketsHeld /\ 1 \in Gens
  BY FileFacts DEF PlayerInv
<1>b. gen \in Gens /\ gen \in Nat /\ g <= gen /\ g \in Nat
  BY Made DEF decode_thread, DemuxRead, DemuxPut, DemuxEof, DemuxEnds
<1>c. demux \in [Gens -> Positions] /\ gen' = gen
  BY <1>a DEF TypeOK, decode_thread, DemuxRead, DemuxPut, DemuxEof, DemuxEnds
<1> SUFFICES ASSUME gen <= 1 PROVE InOrder'
  BY <1>b, <1>c DEF InOrder
<1>d. gen = 1 /\ g = 1
  BY <1>b, FileFacts
<1>e. /\ Ascending(Seconds(displayed)) /\ Ascending(frameq[1]) /\ Ascending(videoq[1])
      /\ InStages(Shown, Framed, Decoding, Queued, Reading, pos[1])
      /\ failures = 0 /\ ~stopped =>
           Complete(Shown \cup Framed \cup Decoding \cup Queued \cup Reading, pos[1])
  BY DEF InOrder
<1>1. CASE DemuxRead(g)
  <2>1. pos[1] \in 0 .. Len(File) /\ pos[1] < Len(File)
    BY <1>a, <1>d, <1>1 DEF DemuxRead, TypeOK
  <2>2. pos[1] \in Nat /\ pos[1] + 1 \in Packets
    BY <2>1, FileFacts
  <2>3. pos'[1] = pos[1] + 1
    BY <1>a, <1>d, <1>1 DEF DemuxRead, TypeOK
  <2>4. Reading = {} /\ Reading' = {pos[1] + 1}
    BY <1>a, <1>c, <1>d, <1>1 DEF DemuxRead, Reading
  <2>5. /\ displayed' = displayed /\ frameq' = frameq /\ videoq' = videoq
        /\ failures' = failures /\ stopped' = stopped /\ Shown' = Shown
        /\ Framed' = Framed /\ Decoding' = Decoding /\ Queued' = Queued
    BY <1>1 DEF DemuxRead, Shown, Framed, Decoding, Queued, Elements, Seconds
  <2>6. InStages(Shown, Framed, Decoding, Queued, {pos[1] + 1}, pos[1] + 1)
    <3>1. InStages(Shown, Framed, Decoding, Queued, {}, pos[1])
      BY <1>e, <2>4
    <3>2. \A x \in Packets : x <= pos[1] => x < pos[1] + 1 /\ x <= pos[1] + 1
      BY <2>2, FileFacts
    <3> QED
      BY <2>2, <3>1, <3>2 DEF InStages, Before
  <2>7. Complete(Shown \cup Framed \cup Decoding \cup Queued \cup Reading, pos[1]) =>
        Complete(Shown \cup Framed \cup Decoding \cup Queued \cup Reading', pos[1] + 1)
    <3>1. \A p \in Packets : p <= pos[1] + 1 => p <= pos[1] \/ p = pos[1] + 1
      BY <2>2, FileFacts
    <3> QED
      BY <2>4, <3>1 DEF Complete
  <2> QED
    BY <1>e, <2>3, <2>4, <2>5, <2>6, <2>7 DEF InOrder
<1>2. CASE DemuxPut(g)
  <2>1. demux[1].pkt \in Packets /\ Reading = {demux[1].pkt}
    BY <1>a, <1>d, <1>2 DEF DemuxPut, PacketsHeld, Reading
  <2>2. Reading' = {}
    BY <1>c, <1>d, <1>2 DEF DemuxPut, Reading
  <2>3. /\ displayed' = displayed /\ frameq' = frameq /\ pos' = pos
        /\ failures' = failures /\ stopped' = stopped /\ Shown' = Shown
        /\ Framed' = Framed /\ Decoding' = Decoding
    BY <1>2 DEF DemuxPut, Shown, Framed, Decoding, Elements, Seconds
  <2>4. CASE File[demux[1].pkt] = "video" /\ ~stopped
    <3>1. videoq'[1] = Append(videoq[1], demux[1].pkt) /\ videoq[1] \in Seq(Packets)
      BY <1>a, <1>d, <1>2, <2>4 DEF DemuxPut, TypeOK
    <3>2. Queued' = Queued \cup Reading
      BY <2>1, <3>1, ElementsAppend DEF Queued, Elements
    <3>3. Ascending(videoq'[1])
      <4>1. Before(Elements(videoq[1]), {demux[1].pkt})
        BY <1>e, <2>1 DEF InStages, Queued
      <4>2. Packets \in SUBSET Nat
        BY FileFacts
      <4> QED
        BY <1>e, <2>1, <3>1, <4>1, <4>2, AscendingAppend
    <3>4. InStages(Shown, Framed, Decoding, Queued', {}, pos[1])
      BY <1>e, <3>2 DEF InStages, Before
    <3>5. Shown \cup Framed \cup Decoding \cup Queued \cup Reading
            = Shown \cup Framed \cup Decoding \cup Queued' \cup Reading'
      BY <2>2, <3>2
    <3> QED
      BY <1>e, <2>2, <2>3, <3>3, <3>4, <3>5 DEF InOrder
  <2>5. CASE ~ (File[demux[1].pkt] = "video" /\ ~stopped)
    <3>1. videoq' = videoq /\ Queued' = Queued
      BY <1>d, <1>2, <2>5 DEF DemuxPut, Queued, Elements
    <3>2. InStages(Shown, Framed, Decoding, Queued, {}, pos[1])
      BY <1>e DEF InStages, Before
    <3>3. ~stopped =>
            (Complete(Shown \cup Framed \cup Decoding \cup Queued \cup Reading, pos[1]) =>
             Complete(Shown \cup Framed \cup Decoding \cup Queued \cup Reading', pos[1]))
      BY <2>1, <2>5 DEF Complete
    <3> QED
      BY <1>e, <2>2, <2>3, <3>1, <3>2, <3>3 DEF InOrder
  <2> QED
    BY <2>4, <2>5
<1>3. CASE DemuxEof(g) \/ DemuxEnds(g)
  <2>1. Reading' = Reading /\ Decoding' = Decoding
    <3>1. dec' = dec /\ demux' = [demux EXCEPT ![1].pc = "ended"] /\ demux[1].pc = "read"
      BY <1>d, <1>3 DEF DemuxEof, DemuxEnds
    <3>2. demux'[1].pc = "ended"
      BY <1>a, <1>c, <3>1 DEF Positions
    <3> QED
      BY <3>1, <3>2 DEF Reading, Decoding
  <2>2. failures' = 0 => failures = 0
    BY <1>a, <1>3, FileFacts DEF DemuxEof, DemuxEnds, TypeOK
  <2> QED
    BY <1>b, <1>3, <2>1, <2>2, OrderSame DEF DemuxEof, DemuxEnds
<1> QED
  BY <1>1, <1>2, <1>3 DEF decode_thread

LEMMA DecodeOrder ==
  ASSUME PlayerInv, InOrder, NEW g \in Gens, decode(g)
  PROVE  InOrder'
<1> USE DEF queues, buttons, audio
<1>a. TypeOK /\ PacketsHeld /\ 1 \in Gens
  BY FileFacts DEF PlayerInv
<1>b. gen \in Gens /\ gen \in Nat /\ g <= gen /\ g \in Nat
  BY Made DEF decode, DecodeLoop, DecodeTake, DecodePut, DecodeFails, DecodeGivesUp
<1>c. /\ dec \in [Gens -> Positions] /\ gen' = gen
      /\ videoq[1] \in Seq(Packets) /\ frameq[1] \in Seq(Packets)
  BY <1>a DEF TypeOK, decode, DecodeLoop, DecodeTake, DecodePut, DecodeFails, DecodeGivesUp
<1>d. Packets \in SUBSET Nat
  BY FileFacts
<1> SUFFICES ASSUME gen <= 1 PROVE InOrder'
  BY <1>b, <1>c DEF InOrder
<1>e. gen = 1 /\ g = 1
  BY <1>b, FileFacts
<1>f. /\ Ascending(Seconds(displayed)) /\ Ascending(frameq[1]) /\ Ascending(videoq[1])
      /\ InStages(Shown, Framed, Decoding, Queued, Reading, pos[1])
      /\ failures = 0 /\ ~stopped =>
           Complete(Shown \cup Framed \cup Decoding \cup Queued \cup Reading, pos[1])
  BY DEF InOrder
<1>1. CASE DecodeLoop(g)
  <2>1. Decoding' = Decoding /\ Reading' = Reading
    BY <1>c, <1>e, <1>1 DEF DecodeLoop, Again, Decoding, Reading
  <2> QED
    BY <1>b, <1>1, <2>1, OrderSame DEF DecodeLoop
<1>2. CASE DecodeTake(g)
  <2>1. /\ videoq[1] # <<>> /\ videoq'[1] = Tail(videoq[1])
        /\ Decoding = {} /\ Decoding' = {Head(videoq[1])}
    BY <1>a, <1>c, <1>e, <1>2 DEF DecodeTake, Decoding, TypeOK
  <2>2. Queued = Decoding' \cup Queued'
    <3>1. Elements(videoq[1]) = {Head(videoq[1])} \cup Elements(Tail(videoq[1]))
      BY <1>c, <2>1, ElementsTail
    <3>2. Queued' = Elements(Tail(videoq[1]))
      BY <2>1 DEF Queued, Elements
    <3> QED
      BY <2>1, <3>1, <3>2 DEF Queued
  <2>3. Ascending(videoq'[1]) /\ Before(Decoding', Queued')
    BY <1>c, <1>d, <1>f, <2>1, AscendingTail DEF Queued, Elements
  <2>4. /\ displayed' = displayed /\ frameq' = frameq /\ pos' = pos
        /\ failures' = failures /\ stopped' = stopped /\ Shown' = Shown
        /\ Framed' = Framed /\ Reading' = Reading
    BY <1>2 DEF DecodeTake, Shown, Framed, Reading, Elements, Seconds
  <2>5. InStages(Shown, Framed, Decoding', Queued', Reading, pos[1])
    BY <1>f, <2>1, <2>2, <2>3 DEF InStages, Before
  <2>6. Shown \cup Framed \cup Decoding \cup Queued \cup Reading
          = Shown \cup Framed \cup Decoding' \cup Queued' \cup Reading
    BY <2>1, <2>2
  <2> QED
    BY <1>f, <2>3, <2>4, <2>5, <2>6 DEF InOrder
<1>3. CASE DecodePut(g)
  <2>1. /\ dec[1].pkt \in Packets /\ frameq'[1] = Append(frameq[1], dec[1].pkt)
        /\ Decoding = {dec[1].pkt} /\ Decoding' = {}
    BY <1>a, <1>c, <1>e, <1>3 DEF DecodePut, Decoding, PacketsHeld, TypeOK
  <2>2. Framed' = Framed \cup Decoding
    BY <1>c, <2>1, ElementsAppend, SMTT(30) DEF Framed, Elements
  <2>3. Ascending(frameq'[1])
    <3>1. Before(Elements(frameq[1]), {dec[1].pkt})
      BY <1>f, <2>1 DEF InStages, Framed, Before
    <3> QED
      BY <1>c, <1>d, <1>f, <2>1, <3>1, AscendingAppend
  <2>4. /\ displayed' = displayed /\ videoq' = videoq /\ pos' = pos
        /\ failures' = failures /\ stopped' = stopped /\ Shown' = Shown
        /\ Queued' = Queued /\ Reading' = Reading
    BY <1>3 DEF DecodePut, Shown, Queued, Reading, Elements, Seconds
  <2>5. InStages(Shown, Framed', {}, Queued, Reading, pos[1])
    BY <1>f, <2>2 DEF InStages, Before
  <2>6. Shown \cup Framed \cup Decoding \cup Queued \cup Reading
          = Shown \cup Framed' \cup Decoding' \cup Queued \cup Reading
    BY <2>1, <2>2
  <2> QED
    BY <1>f, <2>1, <2>3, <2>4, <2>5, <2>6 DEF InOrder
<1>4. CASE DecodeFails(g) \/ DecodeGivesUp(g)
  <2>1. failures' # 0 /\ Decoding' = {}
    BY <1>a, <1>c, <1>e, <1>4, FileFacts DEF DecodeFails, DecodeGivesUp, Decoding, TypeOK
  <2>2. /\ displayed' = displayed /\ videoq' = videoq /\ frameq' = frameq /\ pos' = pos
        /\ Shown' = Shown /\ Framed' = Framed /\ Queued' = Queued /\ Reading' = Reading
    BY <1>4 DEF DecodeFails, DecodeGivesUp, Shown, Framed, Queued, Reading, Elements, Seconds
  <2>3. InStages(Shown, Framed, {}, Queued, Reading, pos[1])
    BY <1>f DEF InStages, Before
  <2> QED
    BY <1>f, <2>1, <2>2, <2>3 DEF InOrder
<1> QED
  BY <1>1, <1>2, <1>3, <1>4 DEF decode

\* stop() empties the queues: what is left of the stages is still in order.
LEMMA StopOrder ==
  ASSUME PlayerInv, InOrder, stop
  PROVE  InOrder'
<1>a. TypeOK /\ 1 \in Gens
  BY FileFacts DEF PlayerInv
<1>b. /\ gen' = gen /\ displayed' = displayed /\ pos' = pos /\ dec' = dec /\ demux' = demux
      /\ stopped'
  BY DEF stop
<1>c. Shown' = Shown /\ Decoding' = Decoding /\ Reading' = Reading
  BY <1>b DEF Shown, Decoding, Reading, Elements, Seconds
<1>d. DOMAIN <<>> = {}
  OBVIOUS
<1>1. /\ Framed' \subseteq Framed /\ (Ascending(frameq[1]) => Ascending(frameq'[1]))
  <2>1. frameq'[1] = frameq[1] \/ frameq'[1] = <<>>
    BY <1>a DEF stop, TypeOK
  <2> QED
    BY <1>d, <2>1 DEF Framed, Elements, Ascending
<1>2. /\ Queued' \subseteq Queued /\ (Ascending(videoq[1]) => Ascending(videoq'[1]))
  <2>1. videoq'[1] = videoq[1] \/ videoq'[1] = <<>>
    BY <1>a DEF stop, TypeOK
  <2> QED
    BY <1>d, <2>1 DEF Queued, Elements, Ascending
<1>3. InStages(Shown, Framed, Decoding, Queued, Reading, pos[1]) =>
      InStages(Shown, Framed', Decoding, Queued', Reading, pos[1])
  BY <1>1, <1>2 DEF InStages, Before
<1> QED
  BY <1>b, <1>c, <1>1, <1>2, <1>3 DEF InOrder

LEMMA ShowOrder ==
  ASSUME PlayerInv, InOrder, RefreshShow
  PROVE  InOrder'
<1>a. TypeOK /\ RefreshAlive /\ gen' = gen
  BY DEF PlayerInv, RefreshShow
<1>b. gen \in Nat /\ refreshes \in Nat /\ gen <= MaxPlays
  BY <1>a, FileFacts DEF TypeOK
<1> SUFFICES ASSUME gen <= 1 PROVE InOrder'
  BY <1>a DEF InOrder
<1>c. gen = 1 /\ gen \in Gens
  BY <1>a, <1>b, FileFacts DEF RefreshShow, RefreshAlive, Refreshing
<1>d. Packets \in SUBSET Nat
  BY FileFacts
<1>f. /\ Ascending(Seconds(displayed)) /\ Ascending(frameq[1]) /\ Ascending(videoq[1])
      /\ InStages(Shown, Framed, Decoding, Queued, Reading, pos[1])
      /\ failures = 0 /\ ~stopped =>
           Complete(Shown \cup Framed \cup Decoding \cup Queued \cup Reading, pos[1])
  BY DEF InOrder
<1>1. /\ frameq[1] \in Seq(Packets) /\ frameq[1] # <<>>
      /\ frameq'[1] = Tail(frameq[1])
      /\ displayed' = Append(displayed, <<1, Head(frameq[1])>>)
      /\ displayed \in Seq(Gens \X Packets)
  BY <1>a, <1>c DEF RefreshShow, TypeOK
<1>2. /\ videoq' = videoq /\ dec' = dec /\ demux' = demux /\ pos' = pos
      /\ failures' = failures /\ stopped' = stopped
  BY DEF RefreshShow
<1>3. Decoding' = Decoding /\ Queued' = Queued /\ Reading' = Reading
  BY <1>2 DEF Decoding, Queued, Reading, Elements
<1>4. Head(frameq[1]) \in Packets
  BY <1>1, SeqFacts
<1>5. /\ Seconds(displayed) \in Seq(Packets)
      /\ Seconds(displayed') = Append(Seconds(displayed), Head(frameq[1]))
  BY <1>1, <1>c, <1>4, SecondsAppend
<1>6. Shown' = Shown \cup {Head(frameq[1])}
  <2>1. Elements(Append(Seconds(displayed), Head(frameq[1])))
          = Elements(Seconds(displayed)) \cup {Head(frameq[1])}
    BY <1>4, <1>5, ElementsAppend
  <2>2. Shown' = Elements(Seconds(displayed'))
    BY DEF Shown, Elements, Seconds
  <2> QED
    BY <1>5, <2>1, <2>2 DEF Shown
<1>7. Framed = {Head(frameq[1])} \cup Framed'
  <2>1. Elements(frameq[1]) = {Head(frameq[1])} \cup Elements(Tail(frameq[1]))
    BY <1>1, ElementsTail
  <2>2. Framed' = Elements(Tail(frameq[1]))
    BY <1>1 DEF Framed, Elements
  <2> QED
    BY <2>1, <2>2 DEF Framed
<1>8. Ascending(frameq'[1]) /\ Before({Head(frameq[1])}, Framed')
  <2>1. Framed' = Elements(Tail(frameq[1]))
    BY <1>1 DEF Framed, Elements
  <2> QED
    BY <1>1, <1>d, <1>f, <2>1, AscendingTail
<1>9. Ascending(Seconds(displayed'))
  <2>1. Before(Elements(Seconds(displayed)), {Head(frameq[1])})
    BY <1>f, <1>7 DEF InStages, Shown, Before
  <2> QED
    BY <1>d, <1>f, <1>4, <1>5, <2>1, AscendingAppend
<1>10. InStages(Shown', Framed', Decoding, Queued, Reading, pos[1])
  BY <1>f, <1>6, <1>7, <1>8 DEF InStages, Before
<1>11. Shown \cup Framed \cup Decoding \cup Queued \cup Reading
         = Shown' \cup Framed' \cup Decoding \cup Queued \cup Reading
  BY <1>6, <1>7
<1>12. Ascending(Seconds(displayed))'
  BY <1>9 DEF Ascending, Seconds
<1> QED
  BY <1>f, <1>2, <1>3, <1>8, <1>10, <1>11, <1>12 DEF InOrder

LEMMA PlayOrder ==
  ASSUME PlayerInv, InOrder, play
  PROVE  InOrder'
<1> USE DEF queues
<1>a. TypeOK /\ NotYetMade /\ 1 \in Gens
  BY FileFacts DEF PlayerInv
<1>b. gen \in Nat /\ gen' \in Nat /\ gen <= gen' /\ gen' = gen + 1
  BY <1>a, FileFacts DEF play, TypeOK
<1> SUFFICES ASSUME gen' <= 1 PROVE InOrder'
  BY DEF InOrder
<1>1. gen = 0
  BY <1>b
<1>2. demux[1] = Idle /\ dec[1] = Idle
  BY <1>a, <1>1 DEF NotYetMade
<1>3. dec'[1].pc # "packet" /\ demux'[1].pc # "put"
  BY <1>a, <1>1, <1>2 DEF play, TypeOK, Idle, Positions
<1>4. Decoding' = Decoding /\ Reading' = Reading
  BY <1>2, <1>3 DEF Decoding, Reading, Idle
<1> QED
  BY <1>b, <1>4, OrderSame DEF play

LEMMA OrderStep == PlayerInv /\ InOrder /\ [Next]_vars => InOrder'
<1> SUFFICES ASSUME PlayerInv, InOrder, [Next]_vars PROVE InOrder'
  OBVIOUS
<1> USE DEF threads, queues, buttons, audio
<1>a. gen \in Nat /\ gen <= gen
  BY FileFacts DEF PlayerInv, TypeOK
<1>b. ASSUME gen' = gen, UNCHANGED threads, displayed' = displayed, stopped' = stopped
      PROVE  InOrder'
  <2>1. Decoding' = Decoding /\ Reading' = Reading
    BY <1>b DEF Decoding, Reading
  <2> QED
    BY <1>a, <1>b, <2>1, OrderSame
<1>1. CASE \E g \in Gens : decode_thread(g) \/ decode(g)
  BY <1>1, DemuxOrder, DecodeOrder
<1>8. CASE \E g \in Gens : audio_callback(g)
  <2>1. /\ gen' = gen /\ displayed' = displayed /\ stopped' = stopped
        /\ UNCHANGED <<pos, videoq, frameq, demux, dec, failures>>
    BY <1>8 DEF audio_callback, SoundWaits, SoundTakes
  <2>2. Decoding' = Decoding /\ Reading' = Reading
    BY <2>1 DEF Decoding, Reading
  <2> QED
    BY <1>a, <2>1, <2>2, OrderSame
<1>2. CASE RefreshShow
  BY <1>2, ShowOrder
<1>3. CASE PlayAtOnce \/ media_play
  BY <1>3, PlayOrder DEF PlayAtOnce, media_play
<1>4. CASE Destructor \/ media_stop
  BY <1>4, StopOrder DEF Destructor, media_stop
<1>5. CASE LoopTest \/ RefreshCheck \/ RefreshEnds \/ MediaPlayPauses \/ Join \/ QuitEvent
  BY <1>b, <1>5
     DEF LoopTest, RefreshCheck, RefreshEnds, MediaPlayPauses, Join, QuitEvent
<1>6. CASE MouseDown \/ MouseUp
  <2>1. CASE media_pause
    BY <1>b, <2>1 DEF media_pause
  <2>2. CASE UNCHANGED <<quit, stopped, started, control_btns, gen, video, audio,
                         threads, refreshes, displayed>>
    BY <1>b, <2>2
  <2> QED
    BY <1>3, <1>4, <1>6, <2>1, <2>2 DEF MouseDown, MouseUp, Handler
<1>7. CASE UNCHANGED vars
  BY <1>b, <1>7 DEF vars
<1> QED
  BY <1>1, <1>2, <1>3, <1>4, <1>5, <1>6, <1>7, <1>8
     DEF Next, Window, User, video_refresh_timer

\* The stages are those of Pipeline.
LEMMA StagesOrdered == PlayerInv /\ InOrder => NothingLost /\ DisplayedInOrder
<1> SUFFICES ASSUME PlayerInv, InOrder, gen = 1
             PROVE  /\ failures = 0 /\ ~stopped =>
                         \A p \in Packets :
                           File[p] = "video" /\ p <= pos[1] =>
                             \E a \in DOMAIN Pipeline :
                               \E i \in DOMAIN Pipeline[a] : Pipeline[a][i] = p
                    /\ \A a \in DOMAIN Pipeline :
                         /\ Ascending(Pipeline[a])
                         /\ \A b \in DOMAIN Pipeline :
                              a < b => AllBefore(Pipeline[a], Pipeline[b])
  BY DEF NothingLost, DisplayedInOrder
<1> DEFINE D == IF dec[1].pc = "packet" THEN <<dec[1].pkt>> ELSE <<>>
           R == IF demux[1].pc = "put" THEN <<demux[1].pkt>> ELSE <<>>
           S == Seconds(displayed)
<1>1. /\ Pipeline = <<S, frameq[1], D, videoq[1], R>>
      /\ DOMAIN Pipeline = 1 .. 5
      /\ Pipeline[1] = S /\ Pipeline[2] = frameq[1] /\ Pipeline[3] = D
      /\ Pipeline[4] = videoq[1] /\ Pipeline[5] = R
  BY DEF Pipeline, Seconds
<1>2. /\ Elements(S) = Shown /\ Elements(frameq[1]) = Framed
      /\ Elements(videoq[1]) = Queued
  BY DEF Shown, Framed, Queued
<1>3. Elements(D) = Decoding /\ Elements(R) = Reading /\ Ascending(D) /\ Ascending(R)
  <2>1. \A x : /\ DOMAIN <<x>> = {1} /\ <<x>>[1] = x
               /\ Elements(<<x>>) = {x} /\ Ascending(<<x>>)
    BY DEF Elements, Ascending
  <2>2. DOMAIN <<>> = {}
    OBVIOUS
  <2>3. Elements(<<>>) = {} /\ Ascending(<<>>)
    BY <2>2 DEF Elements, Ascending
  <2> QED
    BY <2>1, <2>3 DEF Decoding, Reading
<1> HIDE DEF D, R, S
<1>4. /\ Ascending(S) /\ Ascending(frameq[1]) /\ Ascending(videoq[1])
      /\ InStages(Shown, Framed, Decoding, Queued, Reading, pos[1])
      /\ failures = 0 /\ ~stopped =>
           Complete(Shown \cup Framed \cup Decoding \cup Queued \cup Reading, pos[1])
  BY DEF InOrder, S
<1>5. \A s, u : Before(Elements(s), Elements(u)) => AllBefore(s, u)
  BY DEF Before, Elements, AllBefore
<1>6. /\ AllBefore(S, frameq[1]) /\ AllBefore(S, D) /\ AllBefore(S, videoq[1])
      /\ AllBefore(S, R) /\ AllBefore(frameq[1], D) /\ AllBefore(frameq[1], videoq[1])
      /\ AllBefore(frameq[1], R) /\ AllBefore(D, videoq[1]) /\ AllBefore(D, R)
      /\ AllBefore(videoq[1], R)
  <2>1. /\ Before(Shown, Framed) /\ Before(Shown, Decoding) /\ Before(Shown, Queued)
        /\ Before(Shown, Reading) /\ Before(Framed, Decoding) /\ Before(Framed, Queued)
        /\ Before(Framed, Reading) /\ Before(Decoding, Queued) /\ Before(Decoding, Reading)
        /\ Before(Queued, Reading)
    BY <1>4 DEF InStages, Before
  <2> QED
    BY <1>2, <1>3, <1>5, <2>1
<1>7. ASSUME NEW a \in DOMAIN Pipeline
      PROVE  /\ Ascending(Pipeline[a])
             /\ \A b \in DOMAIN Pipeline : a < b => AllBefore(Pipeline[a], Pipeline[b])
  <2>1. a \in {1, 2, 3, 4, 5}
    BY <1>1
  <2>2. Ascending(Pipeline[a])
    BY <1>1, <1>3, <1>4, <2>1
  <2>3. ASSUME NEW b \in DOMAIN Pipeline, a < b
        PROVE  AllBefore(Pipeline[a], Pipeline[b])
    <3>1. b \in {1, 2, 3, 4, 5}
      BY <1>1
    <3>2. \/ a = 1 /\ b \in {2, 3, 4, 5}
          \/ a = 2 /\ b \in {3, 4, 5}
          \/ a = 3 /\ b \in {4, 5}
          \/ a = 4 /\ b = 5
      BY <2>1, <2>3, <3>1
    <3> QED
      BY <1>1, <1>6, <3>2
  <2> QED
    BY <2>2, <2>3
<1>8. ASSUME NEW p \in Shown \cup Framed \cup Decoding \cup Queued \cup Reading
      PROVE  \E a \in DOMAIN Pipeline :
               \E i \in DOMAIN Pipeline[a] : Pipeline[a][i] = p
  <2>1. \E a \in 1 .. 5 : p \in Elements(Pipeline[a])
    BY <1>1, <1>2, <1>3
  <2> QED
    BY <1>1, <2>1 DEF Elements
<1> QED
  BY <1>4, <1>7, <1>8 DEF Complete

-------------------------------------------------------------------------------
(* The player with its start button.                                       *)

\* What the start button's handler starts it pauses before the next event.
Waiting ==
  program = "start" =>
    /\ displayed = <<>> /\ ~Refreshing /\ window # "play"
    /\ gen > 0 /\ window # "played" => video[gen].paused

MediaInv == PlayerInv /\ InOrder /\ Waiting

LEMMA MediaStart == MediaInit => MediaInv
<1> SUFFICES ASSUME MediaInit PROVE MediaInv
  OBVIOUS
<1>1. PlayerInv /\ InOrder
  BY PlayerInit, OrderInit DEF MediaInit
<1>2. Waiting
  BY DEF MediaInit, Init, Waiting, Refreshing
<1> QED
  BY <1>1, <1>2 DEF MediaInv

LEMMA WaitingStep ==
  ASSUME PlayerInv, Waiting, [Next]_vars, program' = program, program = "start"
  PROVE  Waiting'
<1> USE DEF threads, queues, buttons, audio
<1>a. /\ gen \in 0 .. MaxPlays /\ gen \in Nat /\ RefreshAlive /\ refreshes \in Nat
      /\ video \in [Gens -> [quit : BOOLEAN, eof : BOOLEAN, paused : BOOLEAN]]
      /\ (gen > 0 => gen \in Gens)
  BY FileFacts DEF PlayerInv, TypeOK
<1>b. /\ displayed = <<>> /\ ~Refreshing /\ window # "play"
      /\ (gen > 0 /\ window # "played" => video[gen].paused)
  BY DEF Waiting
<1>c. ASSUME gen' = gen, displayed' = displayed, ~Refreshing', window' # "play",
             gen > 0 => \/ video'[gen].paused
                        \/ video'[gen].paused = video[gen].paused /\ window # "played"
      PROVE  Waiting'
  BY <1>b, <1>c DEF Waiting
<1>1. CASE \E g \in Gens : decode_thread(g) \/ decode(g) \/ audio_callback(g)
  <2>1. /\ gen' = gen /\ displayed' = displayed /\ window' = window
        /\ \A h \in Gens : video'[h].paused = video[h].paused
    BY <1>1, <1>a
       DEF decode_thread, DemuxRead, DemuxPut, DemuxEof, DemuxEnds,
           decode, DecodeLoop, DecodeTake, DecodePut, DecodeFails, DecodeGivesUp,
           audio_callback, SoundWaits, SoundTakes
  <2> QED
    BY <1>a, <1>b, <2>1 DEF Waiting, Refreshing
<1>2. CASE RefreshCheck
  <2>1. gen > 0
    BY <1>2, <1>a, <1>b DEF RefreshCheck, RefreshAlive
  <2> QED
    BY <1>2, <1>b, <1>c, <2>1 DEF RefreshCheck, Refreshing
<1>3. CASE RefreshEnds \/ RefreshShow \/ PlayAtOnce
  BY <1>3, <1>b DEF RefreshEnds, RefreshShow, PlayAtOnce, Refreshing
<1>4. CASE media_play
  BY <1>4, <1>b DEF media_play, play, Waiting, Refreshing
<1>5. CASE MediaPlayPauses \/ media_pause \/ media_stop
  <2>1. /\ gen' = gen /\ displayed' = displayed /\ window' \in {"loop", "join"}
        /\ video' = [video EXCEPT ![gen].paused = TRUE]
    BY <1>5 DEF MediaPlayPauses, media_pause, media_stop, stop
  <2> QED
    BY <1>a, <1>c, <2>1 DEF Refreshing
<1>6. CASE \/ LoopTest \/ Join \/ Destructor
           \/ UNCHANGED vars
           \/ /\ window = "event" /\ window' = "loop"
              /\ UNCHANGED <<quit, stopped, started, control_btns, gen, video, audio,
                             threads, refreshes, displayed>>
  BY <1>6, <1>b, <1>c DEF LoopTest, Join, Destructor, stop, vars, Refreshing, Waiting
<1>7. CASE QuitEvent
  <2>1. /\ gen' = gen /\ displayed' = displayed /\ window = "event" /\ window' = "ended"
        /\ gen > 0 => video'[gen].paused = video[gen].paused
    BY <1>7, <1>a DEF QuitEvent, Press
  <2> QED
    BY <1>b, <1>c, <2>1 DEF Refreshing
<1> QED
  BY <1>1, <1>2, <1>3, <1>4, <1>5, <1>6, <1>7
     DEF Next, Window, User, video_refresh_timer, MouseDown, MouseUp, Press, Handler

LEMMA MediaStep == MediaInv /\ [MediaNext]_allVars => MediaInv'
<1> SUFFICES ASSUME MediaInv, [MediaNext]_allVars PROVE MediaInv'
  OBVIOUS
<1>1. program' = program /\ [Next]_vars
  BY DEF MediaNext, PlayPictures, PlaySound, allVars
<1>2. PlayerInv' /\ InOrder'
  BY <1>1, PlayerStep, OrderStep DEF MediaInv
<1>3. Waiting'
  BY <1>1, WaitingStep DEF MediaInv, Waiting
<1> QED
  BY <1>2, <1>3 DEF MediaInv

\* Whatever the user presses, a player that was opened to wait for its start button
\* never displays a frame: every handler that starts decoders pauses them as well.
THEOREM StartButtonCorrect == MediaSpec => []StartButtonShowsNothing
<1>1. MediaInv => StartButtonShowsNothing
  BY DEF MediaInv, Waiting, StartButtonShowsNothing
<1> QED
  BY <1>1, MediaStart, MediaStep, PTL DEF MediaSpec

\* From demuxer to display no frame of the first play() overtakes another or is
\* shown twice, and without failures none is lost, for every file.
THEOREM FramesCorrect == MediaSpec => []NoFrameLost
<1>1. MediaInv => NoFrameLost
  BY StagesOrdered DEF MediaInv, NoFrameLost
<1> QED
  BY <1>1, MediaStart, MediaStep, PTL DEF MediaSpec

-------------------------------------------------------------------------------
(* Remainders and multiples.                                               *)

LEMMA ModBound ==
  ASSUME NEW w \in Nat \ {0}, NEW a \in Int
  PROVE a % w \in 0 .. w - 1 /\ \E q \in Int : a = w * q + (a % w)
<1>1. a % w \in 0 .. w - 1
  OBVIOUS
<1>2. a \div w \in Int
  OBVIOUS
<1>3. a = w * (a \div w) + (a % w)
  OBVIOUS
<1> QED
  BY <1>1, <1>2, <1>3

LEMMA ModUnique ==
  ASSUME NEW w \in Nat \ {0}, NEW q \in Int, NEW r \in 0 .. w - 1
  PROVE (w * q + r) % w = r
<1> DEFINE a == w * q + r
<1>0. a \in Int
  OBVIOUS
<1>1. PICK p \in Int : a = w * p + (a % w)
  BY <1>0, ModBound
<1>2. a % w \in 0 .. w - 1
  BY <1>0, ModBound
<1>3. w * (p - q) = r - (a % w)
  BY <1>1, <1>2
<1>4. p - q = 0
  <2>1. CASE p - q >= 1
    <3>1. w * (p - q) >= w
      BY <2>1
    <3> QED
      BY <3>1, <1>3, <1>2
  <2>2. CASE p - q <= -1
    <3>1. w * (p - q) <= -w
      BY <2>2
    <3> QED
      BY <3>1, <1>3, <1>2
  <2> QED
    BY <2>1, <2>2
<1> QED
  BY <1>3, <1>4, <1>2

LEMMA ModSmall ==
  ASSUME NEW w \in Nat \ {0}, NEW r \in 0 .. w - 1
  PROVE  r % w = r /\ r \in Nat
<1>1. w * 0 + r = r /\ r \in Nat /\ 0 \in Int
  OBVIOUS
<1>2. (w * 0 + r) % w = r
  BY <1>1, ModUnique
<1> QED
  BY <1>1, <1>2

LEMMA DivUnique ==
  ASSUME NEW w \in Nat \ {0}, NEW q \in Int, NEW r \in 0 .. w - 1
  PROVE  (w * q + r) \div w = q
<1> DEFINE a == w * q + r
<1>1. a \in Int /\ a \div w \in Int /\ a = w * (a \div w) + (a % w)
  OBVIOUS
<1>2. a % w = r
  BY ModUnique
<1>3. w * (a \div w - q) = 0
  BY <1>1, <1>2
<1>4. a \div w - q = 0
  <2>1. CASE a \div w - q >= 1
    <3>1. w * (a \div w - q) >= w
      BY <1>1, <2>1
    <3> QED
      BY <1>3, <3>1
  <2>2. CASE a \div w - q <= -1
    <3>1. w * (a \div w - q) <= -w
      BY <1>1, <2>2
    <3> QED
      BY <1>3, <3>1
  <2> QED
    BY <1>1, <2>1, <2>2
<1> QED
  BY <1>1, <1>4

LEMMA DivNat ==
  ASSUME NEW w \in Nat \ {0}, NEW a \in Nat
  PROVE  w * (a \div w) \in Nat
<1>1. a \div w \in Int /\ a = w * (a \div w) + (a % w) /\ a % w \in 0 .. w - 1
  OBVIOUS
<1>2. ~ (a \div w <= -1)
  <2>1. ASSUME a \div w <= -1 PROVE w * (a \div w) <= -w
    BY <1>1, <2>1
  <2> QED
    BY <1>1, <2>1
<1>3. a \div w \in Nat
  BY <1>1, <1>2
<1> QED
  BY <1>3

IsMultiple(c, a) == a % c = 0

LEMMA Multiple ==
  ASSUME NEW c \in Nat \ {0}, NEW a \in Int
  PROVE  IsMultiple(c, a) <=> \E q \in Int : a = c * q
<1> USE DEF IsMultiple
<1>1. a % c = 0 => \E q \in Int : a = c * q
  <2>1. PICK q \in Int : a = c * q + (a % c)
    BY ModBound
  <2> QED
    BY <2>1
<1>2. ASSUME NEW q \in Int, a = c * q PROVE a % c = 0
  <2>1. a = c * q + 0 /\ 0 \in 0 .. c - 1
    BY <1>2
  <2>2. (c * q + 0) % c = 0
    BY <2>1, ModUnique
  <2> QED
    BY <2>1, <2>2
<1> QED
  BY <1>1, <1>2

LEMMA MultipleSum ==
  ASSUME NEW c \in Nat \ {0}, NEW a \in Int, NEW b \in Int,
         IsMultiple(c, a), IsMultiple(c, b)
  PROVE  IsMultiple(c, a + b) /\ IsMultiple(c, a - b)
<1>1. PICK p \in Int : a = c * p
  BY Multiple
<1>2. PICK q \in Int : b = c * q
  BY Multiple
<1>3. /\ a + b = c * (p + q) /\ p + q \in Int /\ a + b \in Int
      /\ a - b = c * (p - q) /\ p - q \in Int /\ a - b \in Int
  BY <1>1, <1>2
<1> QED
  BY <1>3, Multiple

LEMMA MultipleMod ==
  ASSUME NEW c \in Nat \ {0}, NEW r \in Nat \ {0}, NEW a \in Int,
         IsMultiple(c, r), IsMultiple(c, a)
  PROVE  IsMultiple(c, a % r)
<1>1. PICK s \in Int : r = c * s
  BY Multiple
<1>2. PICK p \in Int : a = c * p
  BY Multiple
<1>3. a % r \in 0 .. r - 1 /\ \E q \in Int : a = r * q + (a % r)
  BY ModBound
<1>4. PICK q \in Int : a = r * q + (a % r)
  BY <1>3
<1>5. r * q = c * (s * q) /\ s * q \in Int
  BY <1>1
<1>6. PICK m \in Int : r * q = c * m
  BY <1>5
<1>7. a % r \in Int /\ a % r = c * p - c * m
  BY <1>2, <1>3, <1>4, <1>6
<1>8. c * p - c * m = c * (p - m) /\ p - m \in Int
  OBVIOUS
<1> QED
  BY <1>7, <1>8, Multiple

\* Between two multiples there is room for a whole step.
LEMMA MultipleBelow ==
  ASSUME NEW c \in Nat \ {0}, NEW a \in Int, NEW b \in Int,
         IsMultiple(c, a), IsMultiple(c, b), a < b
  PROVE  a + c <= b
<1>1. PICK p \in Int : a = c * p
  BY Multiple
<1>2. PICK q \in Int : b = c * q
  BY Multiple
<1>3. b - a = c * (q - p)
  BY <1>1, <1>2
<1>4. q - p >= 1
  <2>1. CASE q - p <= 0
    <3>1. c * (q - p) <= 0
      BY <2>1
    <3> QED
      BY <1>3, <3>1
  <2> QED
    BY <2>1
<1>5. c * (q - p) >= c
  BY <1>4
<1> QED
  BY <1>3, <1>5

-------------------------------------------------------------------------------
(* The sound: where the callback is in its buffer, the clock and the ring. *)

\* What was mixed is what was decoded, up to where the callback is; while it decodes
\* the buffer is used up.
SoundPlace ==
  /\ audio_buff_size + Request <= BUFFER_SIZE /\ audio_buff_index + Request <= BUFFER_SIZE
  /\ pc # "idle" => stream + len = Request
  /\ pc # "reset" => audio_buff_index <= audio_buff_size
  /\ pc \in {"decode", "deQueue", "packet", "decoded", "closed"} =>
       audio_buff_index = audio_buff_size
  /\ pc \in {"packet", "decoded"} => pkt # 0

RingAligned == sample_array_index % Channels = 0

SoundInv == Sound!TypeOK /\ SoundPlace /\ RingAligned /\ Sound!RingHoldsLatest

LEMMA SoundFacts ==
  /\ Pts \in Seq(Nat) /\ Len(Pts) \in Nat \ {0} /\ Sound!Packets = 1 .. Len(Pts) - 1
  /\ Pts[1] \in Nat
  /\ Request \in Nat \ {0} /\ BUFFER_SIZE \in Nat /\ Request <= BUFFER_SIZE
  /\ Channels \in Nat \ {0} /\ RingSize \in Nat \ {0} /\ RingSize % Channels = 0
  /\ Width \in Nat \ {0} /\ MaxDelay \in Nat /\ MaxFailures \in Nat
  /\ (MaxDelay + 2 * Width) * Channels < RingSize
<1>1. Pts \in Seq(Nat) /\ Len(Pts) \in Nat /\ Len(Pts) > 0
  BY MediaAssumption, LenProperties DEF Sound!AudioAssumption
<1>2. Pts[1] \in Nat
  BY <1>1, ElementOfSeq
<1> QED
  BY <1>1, <1>2, MediaAssumption DEF Sound!AudioAssumption, Sound!Packets

LEMMA FrameFacts ==
  ASSUME NEW k \in Sound!Packets
  PROVE  /\ k \in Nat \ {0} /\ Pts[k] \in Nat /\ Pts[k + 1] \in Nat
         /\ Sound!FrameSize(k) = Pts[k + 1] - Pts[k] /\ Sound!FrameSize(k) \in Nat
         /\ Sound!FrameSize(k) % Channels = 0
         /\ Sound!FrameSize(k) + Request <= BUFFER_SIZE
<1>1. k \in 1 .. Len(Pts) /\ k + 1 \in 1 .. Len(Pts) /\ k \in Nat \ {0}
  BY SoundFacts
<1>2. Pts[k] \in Nat /\ Pts[k + 1] \in Nat
  BY <1>1, SoundFacts, ElementOfSeq
<1>3. /\ Sound!FrameSize(k) \in Nat /\ Sound!FrameSize(k) % Channels = 0
      /\ Sound!FrameSize(k) + Request <= BUFFER_SIZE
  BY MediaAssumption DEF Sound!AudioAssumption
<1>4. Sound!FrameSize(k) = Pts[k + 1] - Pts[k]
  BY DEF Sound!FrameSize
<1> QED
  BY <1>1, <1>2, <1>3, <1>4

LEMMA SoundInit == Sound!Init => SoundInv
<1> SUFFICES ASSUME Sound!Init PROVE SoundInv
  OBVIOUS
<1>1. /\ 0 \in 0 .. Len(Pts) - 1 /\ 0 \in 0 .. RingSize - 1 /\ 0 \in 0 .. Request
      /\ 0 \in 0 .. MaxFailures /\ 0 \in Nat
  BY SoundFacts
<1>2. <<>> \in Seq(Sound!Packets)
  BY EmptySeq
<1>3. Sound!TypeOK
  BY <1>1, <1>2, SoundFacts DEF Sound!Init, Sound!TypeOK
<1>4. SoundPlace
  BY SoundFacts DEF Sound!Init, SoundPlace
<1>5. RingAligned
  BY SoundFacts, ModSmall DEF Sound!Init, RingAligned
<1>6. Sound!RingHoldsLatest
  BY SoundFacts DEF Sound!Init, Sound!RingHoldsLatest
<1> QED
  BY <1>3, <1>4, <1>5, <1>6 DEF SoundInv

\* A sample k back from the end of n new ones is one of the new ones, or one that
\* was k - n back from the end before.
Offset(R, n, k, e, a) == n - k = R * e + a
AheadOrOld(R, n, k, a) ==
  /\ k <= n => a < n /\ R * ((n - 1 - a) \div R) = n - k - a
  /\ k > n => ~ (a < n)

LEMMA RingSteps ==
  ASSUME NEW R \in Nat \ {0}, NEW n \in Nat, NEW k \in 1 .. R, NEW e \in Int,
         NEW a \in 0 .. R - 1, Offset(R, n, k, e, a)
  PROVE  AheadOrOld(R, n, k, a)
<1> USE DEF Offset, AheadOrOld
<1> DEFINE m == R * e
<1>1. m \in Int /\ n - k = m + a /\ a \in Nat /\ a < R /\ k \in Nat /\ k >= 1 /\ k <= R
  OBVIOUS
<1>2. e >= 0 => m >= 0
  OBVIOUS
<1>3. e <= -1 => m <= -R
  OBVIOUS
<1>4. e <= -2 => m <= -R - R
  OBVIOUS
<1>5. e = -1 => m = -R
  OBVIOUS
<1>6. k <= n => a < n /\ e >= 0
  <2> HIDE DEF m
  <2>1. ASSUME k <= n PROVE m >= 0
    <3>1. ~ (m <= -R)
      BY <1>1, <2>1
    <3> QED
      BY <1>2, <1>3, <3>1
  <2>2. ASSUME k <= n PROVE e >= 0
    <3>1. ~ (m <= -R)
      BY <1>1, <2>2
    <3> QED
      BY <1>3, <3>1
  <2> QED
    BY <1>1, <2>1, <2>2
<1>7. ASSUME k <= n PROVE R * ((n - 1 - a) \div R) = n - k - a
  <2>1. n - 1 - a = R * e + (k - 1) /\ k - 1 \in 0 .. R - 1
    <3> HIDE DEF m
    <3>1. n - 1 - a = m + (k - 1) /\ k - 1 \in 0 .. R - 1
      BY <1>1
    <3> QED
      BY <3>1 DEF m
  <2>2. (R * e + (k - 1)) \div R = e
    BY <2>1, DivUnique
  <2>3. (n - 1 - a) \div R = e
    BY <2>1, <2>2
  <2> QED
    BY <1>1, <2>3
<1>8. ASSUME k > n PROVE ~ (a < n)
  <2> HIDE DEF m
  <2>1. ~ (m >= 0)
    BY <1>1, <1>8
  <2>2. ~ (m <= -R - R)
    BY <1>1, <1>8
  <2>3. e = -1
    BY <1>2, <1>4, <2>1, <2>2
  <2> QED
    BY <1>1, <1>5, <1>8, <2>3
<1> QED
  BY <1>6, <1>7, <1>8

PlaceAfter(R, x, n, k, i, a) == i = (((x + n) % R) - k) % R /\ a = (i - x) % R
PlaceBefore(R, x, n, k, i) == i = (x - (k - n)) % R

LEMMA RingIndex ==
  ASSUME NEW R \in Nat \ {0}, NEW x \in Int, NEW n \in Nat, NEW k \in 1 .. R,
         NEW i, NEW a, PlaceAfter(R, x, n, k, i, a)
  PROVE  /\ i \in 0 .. R - 1 /\ a \in 0 .. R - 1
         /\ AheadOrOld(R, n, k, a)
         /\ PlaceBefore(R, x, n, k, i)
<1> DEFINE y == (x + n) % R
<1>a. i = (y - k) % R /\ a = (i - x) % R
  BY DEF PlaceAfter
<1>0. k \in Int
  OBVIOUS
<1>1. x + n \in Int
  OBVIOUS
<1>2. y \in 0 .. R - 1 /\ \E q \in Int : x + n = R * q + y
  BY <1>1, ModBound
<1>3. y - k \in Int
  BY <1>0, <1>2
<1>4. i \in 0 .. R - 1 /\ \E p \in Int : y - k = R * p + i
  BY <1>a, <1>3, ModBound
<1>5. i - x \in Int
  BY <1>4
<1>6. a \in 0 .. R - 1 /\ \E d \in Int : i - x = R * d + a
  BY <1>a, <1>5, ModBound
<1> HIDE DEF y
<1>7. PICK q \in Int : x + n = R * q + y
  BY <1>2
<1>8. PICK p \in Int : y - k = R * p + i
  BY <1>4
<1>9. PICK d \in Int : i - x = R * d + a
  BY <1>6
<1>10. y \in Int /\ i \in Int /\ a \in Int
  BY <1>2, <1>4, <1>6
<1>11. x - (k - n) = R * (q + p) + i
  <2>1. R * q + R * p = R * (q + p) /\ R * q \in Int /\ R * p \in Int
    OBVIOUS
  <2> QED
    BY <1>0, <1>7, <1>8, <1>10, <2>1
<1>12. n - k = R * (q + p + d) + a
  <2>1. R * (q + p) + R * d = R * (q + p + d) /\ R * (q + p) \in Int /\ R * d \in Int
    OBVIOUS
  <2> QED
    BY <1>0, <1>9, <1>10, <1>11, <2>1
<1>13. q + p + d \in Int /\ q + p \in Int
  OBVIOUS
<1>14. AheadOrOld(R, n, k, a)
  <2>1. PICK e \in Int : Offset(R, n, k, e, a)
    BY <1>12, <1>13 DEF Offset
  <2> QED
    BY <1>6, <2>1, RingSteps
<1>15. PlaceBefore(R, x, n, k, i)
  <2>1. (R * (q + p) + i) % R = i
    BY <1>4, <1>13, ModUnique
  <2> QED
    BY <1>11, <2>1 DEF PlaceBefore
<1> QED
  BY <1>4, <1>6, <1>14, <1>15

\* update_sample_display: n samples more, wherever they wrap.
LEMMA RingStep ==
  ASSUME SoundInv, NEW n \in Nat, n % Channels = 0, Sound!update_sample_display(n)
  PROVE  /\ sample_array' \in [0 .. RingSize - 1 -> Nat]
         /\ sample_array_index' \in 0 .. RingSize - 1 /\ sampled' \in Nat
         /\ RingAligned' /\ Sound!RingHoldsLatest'
<1> DEFINE R == RingSize
           x == sample_array_index
           ahead(i) == (i - x) % R
           value(i) == sampled + ahead(i) + R * ((n - 1 - ahead(i)) \div R) + 1
<1>1. /\ R \in Nat \ {0} /\ x \in 0 .. R - 1 /\ x \in Int /\ sampled \in Nat
      /\ sample_array \in [0 .. R - 1 -> Nat]
      /\ Channels \in Nat \ {0} /\ R % Channels = 0 /\ x % Channels = 0
      /\ \A k \in 1 .. R : k <= sampled => sample_array[(x - k) % R] = sampled - k + 1
  <2>1. /\ sample_array_index \in 0 .. RingSize - 1 /\ sampled \in Nat
        /\ sample_array \in [0 .. RingSize - 1 -> Nat]
    BY DEF SoundInv, Sound!TypeOK
  <2>2. x \in Int /\ R \in Nat \ {0} /\ Channels \in Nat \ {0}
    BY <2>1, SoundFacts
  <2>3. R % Channels = 0 /\ x % Channels = 0
    BY SoundFacts DEF SoundInv, RingAligned
  <2>4. \A k \in 1 .. R : k <= sampled => sample_array[(x - k) % R] = sampled - k + 1
    BY DEF SoundInv, Sound!RingHoldsLatest
  <2> QED
    BY <2>1, <2>2, <2>3, <2>4
<1>2. /\ sample_array' = [i \in 0 .. R - 1 |->
             IF ahead(i) < n THEN value(i) ELSE sample_array[i]]
      /\ sample_array_index' = (x + n) % R /\ sampled' = sampled + n
  BY DEF Sound!update_sample_display
<1> HIDE DEF R, x
<1>3. x + n \in Int
  BY <1>1
<1>4. (x + n) % R \in 0 .. R - 1
  BY <1>1, <1>3, ModBound
<1>5. ASSUME NEW i \in 0 .. R - 1, ahead(i) < n
      PROVE  value(i) \in Nat
  <2>1. i - x \in Int
    BY <1>1
  <2>2. ahead(i) \in Nat
    BY <1>1, <2>1, ModBound
  <2> HIDE DEF ahead
  <2>3. n - 1 - ahead(i) \in Nat
    BY <1>5, <2>2
  <2> DEFINE m == R * ((n - 1 - ahead(i)) \div R)
  <2>4. m \in Nat
    BY <1>1, <2>3, DivNat
  <2>5. value(i) = sampled + ahead(i) + m + 1
    OBVIOUS
  <2> HIDE DEF m, value
  <2> QED
    BY <1>1, <2>2, <2>4, <2>5
<1>6. sample_array' \in [0 .. R - 1 -> Nat]
  <2> HIDE DEF value, ahead
  <2> QED
    BY <1>1, <1>2, <1>5
<1>7. IsMultiple(Channels, (x + n) % R)
  <2>0. /\ n \in Int /\ IsMultiple(Channels, n) /\ IsMultiple(Channels, x)
        /\ IsMultiple(Channels, R)
    BY <1>1 DEF IsMultiple
  <2>1. IsMultiple(Channels, x + n)
    BY <1>1, <2>0, MultipleSum
  <2> QED
    BY <1>1, <1>3, <2>0, <2>1, MultipleMod
<1>8. ASSUME NEW k \in 1 .. R, k <= sampled + n
      PROVE  sample_array'[(((x + n) % R) - k) % R] = sampled + n - k + 1
  <2> DEFINE i == (((x + n) % R) - k) % R
  <2>1. /\ i \in 0 .. R - 1 /\ ahead(i) \in 0 .. R - 1
        /\ k <= n => ahead(i) < n /\ R * ((n - 1 - ahead(i)) \div R) = n - k - ahead(i)
        /\ k > n => ~ (ahead(i) < n) /\ i = (x - (k - n)) % R
    <3>1. PlaceAfter(R, x, n, k, i, ahead(i))
      BY DEF PlaceAfter
    <3> HIDE DEF i, ahead
    <3>2. /\ i \in 0 .. R - 1 /\ ahead(i) \in 0 .. R - 1
          /\ AheadOrOld(R, n, k, ahead(i)) /\ PlaceBefore(R, x, n, k, i)
      BY <1>1, <3>1, RingIndex
    <3> QED
      BY <3>2 DEF AheadOrOld, PlaceBefore
  <2> HIDE DEF i, ahead
  <2>2. k \in Nat
    BY <1>1
  <2>3. CASE k <= n
    <3>1. sample_array'[i] = value(i)
      <4> HIDE DEF value
      <4> QED
        BY <1>2, <2>1, <2>3
    <3>2. value(i) = sampled + ahead(i) + (n - k - ahead(i)) + 1
      BY <2>1, <2>3
    <3>3. sample_array'[i] = sampled + n - k + 1
      BY <1>1, <2>1, <2>2, <3>1, <3>2
    <3> QED
      BY <3>3 DEF i
  <2>4. CASE k > n
    <3>1. k - n \in 1 .. R /\ k - n <= sampled
      BY <1>1, <1>8, <2>2, <2>4
    <3>2. sample_array'[i] = sample_array[i]
      <4> HIDE DEF value
      <4> QED
        BY <1>2, <2>1, <2>4
    <3>3. sample_array[i] = sampled - (k - n) + 1
      BY <1>1, <2>1, <2>4, <3>1
    <3>4. sample_array'[i] = sampled + n - k + 1
      BY <1>1, <2>2, <3>2, <3>3
    <3> QED
      BY <3>4 DEF i
  <2> QED
    BY <2>2, <2>3, <2>4
<1>9. RingAligned'
  BY <1>2, <1>7 DEF RingAligned, IsMultiple
<1>10. Sound!RingHoldsLatest'
  <2>1. ASSUME NEW k \in 1 .. R, k <= sampled'
        PROVE  sample_array'[(sample_array_index' - k) % R] = sampled' - k + 1
    <3>1. k <= sampled + n /\ sampled' = sampled + n
      BY <1>2, <2>1
    <3>2. sample_array'[(((x + n) % R) - k) % R] = sampled + n - k + 1
      BY <1>8, <3>1
    <3>3. sample_array_index' = (x + n) % R
      BY <1>2
    <3>4. sample_array_index' \in Int /\ (x + n) % R \in Int /\ k \in Int
      BY <1>1, <1>4, <3>3
    <3> QED
      BY <1>1, <3>1, <3>2, <3>3, <3>4
  <2> QED
    BY <2>1 DEF Sound!RingHoldsLatest, R
<1>11. sampled' \in Nat /\ sample_array_index' \in 0 .. R - 1
  BY <1>1, <1>2, <1>4
<1> QED
  BY <1>6, <1>9, <1>10, <1>11 DEF R

LEMMA SoundSame ==
  ASSUME SoundInv, UNCHANGED soundVars
  PROVE  SoundInv'
<1> USE DEF soundVars, SoundInv
<1>1. Sound!TypeOK'
  BY DEF Sound!TypeOK
<1>2. SoundPlace' /\ RingAligned' /\ Sound!RingHoldsLatest'
  BY DEF SoundPlace, RingAligned, Sound!RingHoldsLatest
<1> QED
  BY <1>1, <1>2

\* The steps that leave the ring alone.
LEMMA RingSame ==
  ASSUME SoundInv, sample_array' = sample_array, sample_array_index' = sample_array_index,
         sampled' = sampled
  PROVE  /\ sample_array' \in [0 .. RingSize - 1 -> Nat]
         /\ sample_array_index' \in 0 .. RingSize - 1 /\ sampled' \in Nat
         /\ RingAligned' /\ Sound!RingHoldsLatest'
  BY DEF SoundInv, Sound!TypeOK, RingAligned, Sound!RingHoldsLatest

LEMMA SoundStep == SoundInv /\ Sound!Next => SoundInv'
<1> SUFFICES ASSUME SoundInv, Sound!Next PROVE SoundInv'
  OBVIOUS
<1> USE DEF Sound!flags, Sound!ring, Sound!buff, Sound!history, Sound!loaded
<1>a. Sound!TypeOK /\ SoundPlace /\ RingAligned /\ Sound!RingHoldsLatest
  BY DEF SoundInv
<1>b. /\ Request \in Nat \ {0} /\ BUFFER_SIZE \in Nat /\ Request <= BUFFER_SIZE
      /\ MaxFailures \in Nat
  BY SoundFacts
<1>c. /\ position \in Nat /\ behind \in Nat /\ hw_size \in Nat /\ hw_index \in Nat
      /\ audio_buff_size \in Nat /\ audio_buff_index \in Nat /\ audio_clock \in Nat
      /\ len \in 0 .. Request /\ stream \in 0 .. Request
      /\ pkt \in Sound!Packets \cup {0} /\ sound_audioq \in Seq(Sound!Packets)
  BY <1>a DEF Sound!TypeOK
<1>d. ASSUME sample_array' = sample_array, sample_array_index' = sample_array_index,
             sampled' = sampled, SoundPlace',
             /\ sound_demuxed' \in 0 .. Len(Pts) - 1
             /\ sound_audioq' \in Seq(Sound!Packets)
             /\ sound_eof' \in BOOLEAN /\ sound_quit' \in BOOLEAN
             /\ sound_paused' \in BOOLEAN
             /\ audio_buff_size' \in Nat /\ audio_buff_index' \in Nat
             /\ audio_clock' \in Nat /\ position' \in Nat /\ behind' \in Nat
             /\ hw_size' \in Nat /\ hw_index' \in Nat
             /\ len' \in 0 .. Request /\ stream' \in 0 .. Request
             /\ pc' \in {"idle", "loop", "decode", "deQueue", "packet", "decoded",
                         "reset", "mix", "closed"}
             /\ pkt' \in Sound!Packets \cup {0}
             /\ sound_failures' \in 0 .. MaxFailures
      PROVE  SoundInv'
  <2>1. Sound!TypeOK'
    BY <1>d, RingSame DEF Sound!TypeOK
  <2> QED
    BY <1>d, <2>1, RingSame DEF SoundInv
<1>1. CASE Sound!Demux
  <2>1. sound_demuxed' \in 0 .. Len(Pts) - 1 /\ sound_audioq' \in Seq(Sound!Packets)
    <3>1. sound_demuxed \in 0 .. Len(Pts) - 1 /\ Len(Pts) \in Nat
      BY <1>a, SoundFacts DEF Sound!TypeOK
    <3>2. sound_demuxed < Len(Pts) - 1 =>
            /\ sound_demuxed + 1 \in 0 .. Len(Pts) - 1
            /\ sound_demuxed + 1 \in Sound!Packets
      BY <3>1, SoundFacts
    <3>3. sound_demuxed < Len(Pts) - 1 =>
            Append(sound_audioq, sound_demuxed + 1) \in Seq(Sound!Packets)
      BY <1>c, <3>2, SeqFacts
    <3> QED
      BY <1>1, <1>c, <3>1, <3>2, <3>3 DEF Sound!Demux
  <2>2. SoundPlace'
    BY <1>1, <1>a DEF Sound!Demux, SoundPlace
  <2> QED
    BY <1>1, <1>a, <1>d, <2>1, <2>2 DEF Sound!Demux, Sound!TypeOK
<1>2. CASE Sound!Control
  <2>1. SoundPlace'
    BY <1>2, <1>a DEF Sound!Control, SoundPlace
  <2> QED
    BY <1>2, <1>a, <1>d, <2>1 DEF Sound!Control, Sound!TypeOK
<1>3. CASE Sound!Callback
  <2>1. SoundPlace'
    BY <1>3, <1>a, <1>b DEF Sound!Callback, SoundPlace
  <2>2. len' \in 0 .. Request /\ stream' \in 0 .. Request
    BY <1>3, <1>b DEF Sound!Callback
  <2> QED
    BY <1>3, <1>a, <1>d, <2>1, <2>2 DEF Sound!Callback, Sound!TypeOK
<1>4. CASE Sound!LoopTest
  <2>1. SoundPlace'
    BY <1>4, <1>a, <1>c DEF Sound!LoopTest, SoundPlace
  <2> QED
    BY <1>4, <1>a, <1>d, <2>1 DEF Sound!LoopTest, Sound!TypeOK
<1>5. CASE Sound!Refuse
  <2>1. SoundPlace'
    BY <1>5, <1>a, <1>b, <1>c DEF Sound!Refuse, Sound!NoFrame, SoundPlace
  <2>2. audio_buff_size' \in Nat /\ audio_buff_index' \in Nat
    BY <1>5, <1>c DEF Sound!Refuse, Sound!NoFrame
  <2> QED
    BY <1>5, <1>a, <1>d, <2>1, <2>2 DEF Sound!Refuse, Sound!NoFrame, Sound!TypeOK
<1>6. CASE Sound!Wait
  <2>1. SoundPlace'
    BY <1>6, <1>a DEF Sound!Wait, SoundPlace
  <2> QED
    BY <1>6, <1>a, <1>d, <2>1 DEF Sound!Wait, Sound!TypeOK
<1>7. CASE Sound!Take
  <2>1. Head(sound_audioq) \in Sound!Packets /\ Tail(sound_audioq) \in Seq(Sound!Packets)
    BY <1>7, <1>c, SeqFacts DEF Sound!Take
  <2>2. /\ pkt' \in Sound!Packets /\ pkt' # 0 /\ audio_clock' \in Nat /\ behind' \in Nat
    <3>1. Head(sound_audioq) # 0 /\ Pts[Head(sound_audioq)] \in Nat
      BY <2>1, FrameFacts
    <3> QED
      BY <1>7, <1>c, <2>1, <3>1 DEF Sound!Take
  <2>3. SoundPlace'
    BY <1>7, <1>a, <2>2 DEF Sound!Take, SoundPlace
  <2> QED
    BY <1>7, <1>a, <1>d, <2>1, <2>2, <2>3 DEF Sound!Take, Sound!TypeOK
<1>8. CASE Sound!DecodeFails
  <2>1. SoundPlace'
    BY <1>8, <1>a, <1>b, <1>c
       DEF Sound!DecodeFails, Sound!NoFrame, SoundPlace
  <2>2. audio_buff_size' \in Nat /\ audio_buff_index' \in Nat
    BY <1>8, <1>c DEF Sound!DecodeFails, Sound!NoFrame
  <2>3. sound_failures' \in 0 .. MaxFailures
    BY <1>8, <1>a, <1>b DEF Sound!DecodeFails, Sound!TypeOK
  <2>4. position' \in Nat /\ behind' \in Nat
    <3>1. Sound!FrameSize(pkt) \in Nat
      BY <1>8, <1>a, <1>c, FrameFacts DEF Sound!DecodeFails, SoundPlace
    <3> QED
      BY <1>8, <1>c, <3>1 DEF Sound!DecodeFails
  <2> QED
    BY <1>8, <1>a, <1>d, <2>1, <2>2, <2>3, <2>4
       DEF Sound!DecodeFails, Sound!NoFrame, Sound!TypeOK
<1>9. CASE Sound!Decoded
  <2>1. pkt \in Sound!Packets
    BY <1>9, <1>a, <1>c DEF Sound!Decoded, SoundPlace
  <2>2. audio_clock' \in Nat
    BY <1>9, <1>c, <2>1, FrameFacts DEF Sound!Decoded
  <2>3. SoundPlace'
    BY <1>9, <1>a DEF Sound!Decoded, SoundPlace
  <2> QED
    BY <1>9, <1>a, <1>d, <2>2, <2>3 DEF Sound!Decoded, Sound!TypeOK
<1>10. CASE Sound!Publish
  <2> DEFINE n == Sound!FrameSize(pkt)
  <2>1. pkt \in Sound!Packets
    BY <1>10, <1>a, <1>c DEF Sound!Publish, SoundPlace
  <2>2. n \in Nat /\ n % Channels = 0 /\ n + Request <= BUFFER_SIZE
    BY <2>1, FrameFacts
  <2>3. Sound!update_sample_display(n)
    BY <1>10 DEF Sound!Publish
  <2>4. /\ sample_array' \in [0 .. RingSize - 1 -> Nat]
        /\ sample_array_index' \in 0 .. RingSize - 1 /\ sampled' \in Nat
        /\ RingAligned' /\ Sound!RingHoldsLatest'
    BY <2>2, <2>3, RingStep
  <2>5. /\ audio_buff_size' = n /\ audio_buff_index' = audio_buff_index /\ pc' = "reset"
        /\ pkt' = pkt /\ len' = len /\ stream' = stream /\ pc = "decoded"
    BY <1>10 DEF Sound!Publish
  <2> HIDE DEF n
  <2>6. SoundPlace'
    BY <1>a, <1>b, <2>2, <2>5 DEF SoundPlace
  <2>7. Sound!TypeOK'
    BY <1>10, <1>a, <2>2, <2>4, <2>5 DEF Sound!Publish, Sound!TypeOK
  <2> QED
    BY <2>4, <2>6, <2>7 DEF SoundInv
<1>11. CASE Sound!Mix
  <2> DEFINE rest == audio_buff_size - audio_buff_index
             len1 == IF rest > len THEN len ELSE rest
  <2>1. /\ pc = "mix" /\ pc' = "loop" /\ len' = len - len1 /\ stream' = stream + len1
        /\ audio_buff_index' = audio_buff_index + len1
        /\ audio_buff_size' = audio_buff_size /\ pkt' = pkt /\ audio_clock' = audio_clock
    BY <1>11 DEF Sound!Mix
  <2>2. audio_buff_index <= audio_buff_size /\ stream + len = Request
    BY <1>a, <2>1 DEF SoundPlace
  <2>3. len1 \in Nat /\ len1 <= len /\ len1 <= rest
    BY <1>c, <2>2
  <2> HIDE DEF len1
  <2>4. /\ len' \in 0 .. Request /\ stream' \in 0 .. Request /\ stream' + len' = Request
        /\ audio_buff_index' \in Nat /\ audio_buff_index' <= audio_buff_size'
    BY <1>b, <1>c, <2>1, <2>2, <2>3
  <2>5. SoundPlace'
    BY <1>a, <1>b, <1>c, <2>1, <2>4 DEF SoundPlace
  <2>6. position' \in Nat
    BY <1>11, <1>c, <2>3 DEF Sound!Mix, len1
  <2> QED
    BY <1>11, <1>a, <1>d, <2>1, <2>4, <2>5, <2>6 DEF Sound!Mix, Sound!TypeOK
<1>12. CASE Sound!ResetIndex
  <2>1. SoundPlace'
    BY <1>12, <1>a, <1>b, <1>c DEF Sound!ResetIndex, SoundPlace
  <2> QED
    BY <1>12, <1>a, <1>d, <2>1 DEF Sound!ResetIndex, Sound!TypeOK
<1>13. CASE Sound!LoadSize \/ Sound!LoadIndex
  <2>1. SoundPlace'
    BY <1>13, <1>a DEF Sound!LoadSize, Sound!LoadIndex, SoundPlace
  <2> QED
    BY <1>13, <1>a, <1>d, <2>1 DEF Sound!LoadSize, Sound!LoadIndex, Sound!TypeOK
<1> QED
  BY <1>1, <1>2, <1>3, <1>4, <1>5, <1>6, <1>7, <1>8, <1>9, <1>10, <1>11, <1>12, <1>13
     DEF Sound!Next, Sound!audio_callback

\* The delays that the window allows for put the start of the wave into the ring.
LEMMA WaveFits ==
  ASSUME SoundInv, NEW delay \in -MaxDelay .. MaxDelay
  PROVE  /\ Sound!WaveStart(delay) \in 0 .. RingSize - 1
         /\ IsMultiple(Channels, Sound!WaveStart(delay))
<1> DEFINE wanted == delay + 2 * Width
           w == IF wanted < Width THEN Width ELSE wanted
           back == w * Channels
           a == sample_array_index - back
<1>1. /\ RingSize \in Nat \ {0} /\ Channels \in Nat \ {0} /\ IsMultiple(Channels, RingSize)
      /\ Width \in Nat \ {0} /\ MaxDelay \in Nat
      /\ (MaxDelay + 2 * Width) * Channels < RingSize
      /\ sample_array_index \in 0 .. RingSize - 1 /\ IsMultiple(Channels, sample_array_index)
  BY SoundFacts DEF SoundInv, Sound!TypeOK, RingAligned, IsMultiple
<1>2. w \in Nat /\ w <= MaxDelay + 2 * Width
  BY <1>1
<1>3. back \in Nat /\ back < RingSize /\ IsMultiple(Channels, back)
  <2> HIDE DEF w
  <2>1. back \in Nat /\ back = Channels * w
    BY <1>1, <1>2
  <2>2. back <= (MaxDelay + 2 * Width) * Channels
    <3> DEFINE m == MaxDelay + 2 * Width
    <3>1. m \in Nat /\ w <= m
      BY <1>1, <1>2
    <3> HIDE DEF m
    <3>2. m * Channels - w * Channels = (m - w) * Channels /\ (m - w) * Channels >= 0
      BY <1>1, <1>2, <3>1
    <3>3. w * Channels <= m * Channels
      BY <1>1, <1>2, <3>1, <3>2
    <3> QED
      BY <3>3 DEF m
  <2>3. IsMultiple(Channels, back)
    <3> HIDE DEF back
    <3> QED
      BY <1>1, <1>2, <2>1, Multiple
  <2>4. (MaxDelay + 2 * Width) * Channels \in Nat
    BY <1>1
  <2> HIDE DEF back
  <2> QED
    BY <1>1, <2>1, <2>2, <2>3, <2>4
<1> HIDE DEF w, back
<1>4. /\ a \in Int /\ IsMultiple(Channels, a) /\ a < RingSize /\ -RingSize < a
  BY <1>1, <1>3, MultipleSum
<1>5. Sound!WaveStart(delay) = IF a < 0 THEN RingSize - ((-a) % RingSize) ELSE a % RingSize
  BY DEF Sound!WaveStart, Sound!compute_mod, w, back
<1> HIDE DEF a
<1>6. CASE a < 0
  <2>1. -a \in 0 .. RingSize - 1
    BY <1>1, <1>4, <1>6
  <2>2. (-a) % RingSize = -a
    BY <1>1, <2>1, ModSmall
  <2>3. Sound!WaveStart(delay) = RingSize + a
    BY <1>1, <1>4, <1>5, <1>6, <2>2
  <2>4. IsMultiple(Channels, RingSize + a)
    BY <1>1, <1>4, MultipleSum
  <2> QED
    BY <1>1, <1>4, <1>6, <2>3, <2>4
<1>7. CASE ~ (a < 0)
  <2>1. a \in 0 .. RingSize - 1
    BY <1>1, <1>4, <1>7
  <2>2. a % RingSize = a
    BY <1>1, <2>1, ModSmall
  <2> QED
    BY <1>4, <1>5, <1>7, <2>1, <2>2
<1> QED
  BY <1>6, <1>7

LEMMA WaveCorrect == SoundInv => Sound!WaveInBounds
<1> SUFFICES ASSUME SoundInv, NEW delay \in -MaxDelay .. MaxDelay,
                    NEW start \in Sound!Edges(Sound!WaveStart(delay))
                                    \cup {Sound!WaveStart(delay)}
             PROVE  Sound!WaveRead(start) \subseteq 0 .. RingSize - 1
  BY DEF Sound!WaveInBounds
<1> DEFINE x == Sound!WaveStart(delay)
<1>1. /\ RingSize \in Nat \ {0} /\ Channels \in Nat \ {0} /\ IsMultiple(Channels, RingSize)
      /\ Width \in Nat \ {0}
  BY SoundFacts DEF IsMultiple
<1>2. x \in 0 .. RingSize - 1 /\ IsMultiple(Channels, x)
  BY WaveFits
<1>3. start \in 0 .. RingSize - 1 /\ IsMultiple(Channels, start)
  <2>1. CASE start = x
    BY <1>2, <2>1
  <2>2. CASE start \in Sound!Edges(x)
    <3> HIDE DEF x
    <3>1. PICK i \in 0 .. RingSize - 1 :
            IsMultiple(Channels, i) /\ start = (RingSize + x - i) % RingSize
      BY <2>2 DEF Sound!Edges, IsMultiple
    <3> DEFINE b == RingSize + x
               c == b - i
    <3>2. start = c % RingSize
      BY <1>1, <1>2, <3>1
    <3>3. b \in Int /\ IsMultiple(Channels, b)
      BY <1>1, <1>2, MultipleSum
    <3> HIDE DEF b
    <3>4. c \in Int /\ IsMultiple(Channels, c)
      BY <1>1, <3>1, <3>3, MultipleSum
    <3> HIDE DEF c
    <3> QED
      BY <1>1, <3>2, <3>4, MultipleMod, ModBound
  <2> QED
    BY <2>1, <2>2
<1>4. start + Channels <= RingSize
  BY <1>1, <1>3, MultipleBelow
<1>5. ASSUME NEW ch \in 0 .. Channels - 1, NEW k \in 0 .. Width - 1
      PROVE  (IF k = 0 THEN start + ch ELSE (start + ch + k * Channels) % RingSize)
               \in 0 .. RingSize - 1
  <2>1. start + ch \in 0 .. RingSize - 1
    BY <1>1, <1>3, <1>4
  <2>2. k * Channels \in Int
    BY <1>1
  <2>3. start + ch + k * Channels \in Int
    BY <2>1, <2>2
  <2>4. (start + ch + k * Channels) % RingSize \in 0 .. RingSize - 1
    BY <1>1, <2>3, ModBound
  <2> QED
    BY <2>1, <2>4
<1> QED
  BY <1>5 DEF Sound!WaveRead

-------------------------------------------------------------------------------
(* The clock.                                                              *)

\* The packets in the queue follow the one taken last.
QueueFollows ==
  /\ sound_demuxed = pkt + Len(sound_audioq)
  /\ \A i \in DOMAIN sound_audioq : sound_audioq[i] = pkt + i

\* Clock and lag together are the end of what was decoded last, and the position is
\* that end less what is left of the buffer.
ClockPlace ==
  /\ audio_clock + behind = Pts[IF pc = "packet" THEN pkt ELSE pkt + 1]
  /\ pc \in {"packet", "decoded"} => position = Pts[pkt]
  /\ pc = "reset" => position = Pts[pkt + 1] - audio_buff_size
  /\ pc \notin {"packet", "decoded", "reset"} =>
       position = Pts[pkt + 1] - (audio_buff_size - audio_buff_index)
  /\ pkt \in Stamped /\ (pc \in {"packet", "decoded"} \/ (audio_buff_size > 0 /\ pc # "closed"))
       => behind = 0

Loads == hw_size + Request <= BUFFER_SIZE /\ hw_index + Request <= BUFFER_SIZE

ClockInv == QueueFollows /\ ClockPlace /\ Loads

LEMMA ClockInit == Sound!Init => ClockInv
<1> SUFFICES ASSUME Sound!Init PROVE ClockInv
  OBVIOUS
<1>1. Pts[1] \in Nat /\ Request \in Nat /\ BUFFER_SIZE \in Nat /\ Request <= BUFFER_SIZE
  BY SoundFacts
<1>2. 0 \notin Stamped
  BY MediaAssumption, SoundFacts DEF Sound!AudioAssumption
<1>3. QueueFollows
  BY DEF Sound!Init, QueueFollows
<1>4. ClockPlace
  BY <1>1, <1>2 DEF Sound!Init, ClockPlace
<1>5. Loads
  BY <1>1 DEF Sound!Init, Loads
<1> QED
  BY <1>3, <1>4, <1>5 DEF ClockInv

LEMMA QueueStep == SoundInv /\ QueueFollows /\ Sound!Next => QueueFollows'
<1> SUFFICES ASSUME SoundInv, QueueFollows, Sound!Next PROVE QueueFollows'
  OBVIOUS
<1> USE DEF Sound!flags, Sound!ring, Sound!buff, Sound!history, Sound!loaded
<1>1. /\ sound_audioq \in Seq(Sound!Packets) /\ Len(sound_audioq) \in Nat
      /\ DOMAIN sound_audioq = 1 .. Len(sound_audioq)
      /\ pkt \in Nat /\ sound_demuxed \in Nat
      /\ sound_demuxed = pkt + Len(sound_audioq)
      /\ \A i \in DOMAIN sound_audioq : sound_audioq[i] = pkt + i
  BY SoundFacts, LenProperties DEF SoundInv, Sound!TypeOK, QueueFollows
<1>2. CASE sound_demuxed' = sound_demuxed + 1 /\ pkt' = pkt
           /\ sound_audioq' = Append(sound_audioq, sound_demuxed + 1)
  <2>1. Len(sound_audioq') = Len(sound_audioq) + 1
    BY <1>1, <1>2
  <2>2. ASSUME NEW i \in 1 .. Len(sound_audioq) + 1
        PROVE  sound_audioq'[i] = pkt + i
    <3>1. sound_audioq'[i] = IF i <= Len(sound_audioq) THEN sound_audioq[i]
                             ELSE sound_demuxed + 1
      BY <1>1, <1>2
    <3> QED
      BY <1>1, <3>1
  <2>3. DOMAIN sound_audioq' = 1 .. Len(sound_audioq) + 1
    BY <1>1, <1>2
  <2> QED
    BY <1>1, <1>2, <2>1, <2>2, <2>3 DEF QueueFollows
<1>3. CASE Sound!Take
  <2>1. /\ sound_audioq # <<>> /\ sound_audioq' = Tail(sound_audioq)
        /\ pkt' = Head(sound_audioq) /\ sound_demuxed' = sound_demuxed
    BY <1>3 DEF Sound!Take
  <2>2. /\ Len(sound_audioq) >= 1 /\ Len(sound_audioq') = Len(sound_audioq) - 1
        /\ DOMAIN sound_audioq' = 1 .. Len(sound_audioq) - 1
        /\ \A i \in 1 .. Len(sound_audioq) - 1 : sound_audioq'[i] = sound_audioq[i + 1]
        /\ Head(sound_audioq) = sound_audioq[1]
    BY <1>1, <2>1
  <2>3. pkt' = pkt + 1
    BY <1>1, <2>1, <2>2
  <2>4. ASSUME NEW i \in 1 .. Len(sound_audioq) - 1
        PROVE  sound_audioq'[i] = pkt' + i
    <3>1. i + 1 \in DOMAIN sound_audioq /\ sound_audioq'[i] = sound_audioq[i + 1]
      BY <1>1, <2>2
    <3>2. sound_audioq[i + 1] = pkt + (i + 1)
      BY <1>1, <3>1
    <3> QED
      BY <1>1, <2>3, <3>1, <3>2
  <2> QED
    BY <1>1, <2>1, <2>2, <2>3, <2>4 DEF QueueFollows
<1>4. CASE UNCHANGED <<sound_demuxed, sound_audioq, pkt>>
  BY <1>4, <1>1 DEF QueueFollows
<1> QED
  BY <1>2, <1>3, <1>4
     DEF Sound!Next, Sound!Demux, Sound!Control, Sound!LoadSize, Sound!LoadIndex,
         Sound!Callback, Sound!audio_callback, Sound!LoopTest, Sound!Refuse, Sound!Wait,
         Sound!DecodeFails, Sound!Decoded, Sound!Publish, Sound!ResetIndex, Sound!Mix

LEMMA LoadStep == SoundInv /\ Loads /\ Sound!Next => Loads'
<1> SUFFICES ASSUME SoundInv, Loads, Sound!Next PROVE Loads'
  OBVIOUS
<1> USE DEF Sound!flags, Sound!ring, Sound!buff, Sound!history, Sound!loaded
<1>1. CASE Sound!LoadSize \/ Sound!LoadIndex
  BY <1>1 DEF Sound!LoadSize, Sound!LoadIndex, Loads, SoundInv, SoundPlace
<1>2. CASE UNCHANGED <<hw_size, hw_index>>
  BY <1>2 DEF Loads
<1> QED
  BY <1>1, <1>2
     DEF Sound!Next, Sound!Demux, Sound!Control, Sound!Callback, Sound!audio_callback,
         Sound!LoopTest, Sound!Refuse, Sound!Wait, Sound!Take, Sound!DecodeFails,
         Sound!Decoded, Sound!Publish, Sound!ResetIndex, Sound!Mix

LEMMA ClockStep == SoundInv /\ ClockInv /\ Sound!Next => ClockPlace'
<1> SUFFICES ASSUME SoundInv, ClockInv, Sound!Next PROVE ClockPlace'
  OBVIOUS
<1> USE DEF Sound!flags, Sound!ring, Sound!buff, Sound!history, Sound!loaded
<1> DEFINE last == Pts[pkt]
           end == Pts[pkt + 1]
           size == Sound!FrameSize(pkt)
<1>1. /\ audio_buff_size \in Nat /\ audio_buff_index \in Nat /\ audio_clock \in Nat
      /\ position \in Nat /\ behind \in Nat /\ len \in Nat
      /\ pkt \in Sound!Packets \cup {0} /\ SoundPlace /\ ClockPlace
  BY SoundFacts DEF SoundInv, ClockInv, Sound!TypeOK
<1>2. /\ end \in Nat
      /\ pkt # 0 => last \in Nat /\ size = end - last /\ size \in Nat
  <2>1. CASE pkt = 0
    BY <2>1, SoundFacts
  <2>2. CASE pkt # 0
    BY <1>1, <2>2, FrameFacts
  <2> QED
    BY <2>1, <2>2
<1>3. CASE UNCHANGED <<pkt, audio_clock, audio_buff_size, audio_buff_index, position,
                       behind>>
           /\ \/ pc' = pc
              \/ {pc, pc'} \subseteq {"idle", "loop", "decode", "deQueue", "mix"}
  BY <1>1, <1>3 DEF ClockPlace
<1>4. CASE Sound!Refuse
  <2>1. /\ pc = "decode" /\ pc' \in {"closed", "reset"}
        /\ UNCHANGED <<pkt, audio_clock, audio_buff_index, position, behind>>
        /\ audio_buff_size' = IF pc' = "closed" THEN audio_buff_size ELSE 0
    BY <1>4 DEF Sound!Refuse, Sound!NoFrame
  <2>2. audio_buff_index = audio_buff_size
    BY <1>1, <2>1 DEF SoundPlace
  <2> QED
    BY <1>1, <1>2, <2>1, <2>2 DEF ClockPlace
<1>5. CASE Sound!Take
  <2>1. /\ pc = "deQueue" /\ pc' = "packet" /\ sound_audioq # <<>>
        /\ pkt' = Head(sound_audioq)
        /\ UNCHANGED <<audio_buff_size, audio_buff_index, position>>
        /\ \/ audio_clock' = Pts[pkt'] /\ behind' = 0
           \/ pkt' \notin Stamped /\ audio_clock' = audio_clock /\ behind' = behind
    BY <1>5 DEF Sound!Take
  <2>2. sound_audioq \in Seq(Sound!Packets) /\ QueueFollows
    BY DEF SoundInv, Sound!TypeOK, ClockInv
  <2>3. 1 \in DOMAIN sound_audioq /\ Head(sound_audioq) = sound_audioq[1]
    BY <2>1, <2>2
  <2>4. pkt' = pkt + 1
    BY <2>1, <2>2, <2>3 DEF QueueFollows
  <2>5. audio_buff_index = audio_buff_size
    BY <1>1, <2>1 DEF SoundPlace
  <2>6. Pts[pkt'] = end
    BY <2>4
  <2>7. audio_clock + behind = end /\ position = end
    BY <1>1, <1>2, <2>1, <2>5 DEF ClockPlace
  <2>8. audio_clock' + behind' = end /\ position' = end
    BY <1>1, <1>2, <2>1, <2>6, <2>7
  <2>9. pkt' \in Stamped => behind' = 0
    BY <2>1
  <2> HIDE DEF end
  <2> QED
    BY <2>1, <2>6, <2>8, <2>9 DEF ClockPlace
<1>6. CASE Sound!DecodeFails
  <2>1. /\ pc = "packet" /\ pc' \in {"closed", "reset"}
        /\ UNCHANGED <<pkt, audio_clock, audio_buff_index>>
        /\ position' = position + size /\ behind' = behind + size
        /\ audio_buff_size' = IF pc' = "closed" THEN audio_buff_size ELSE 0
    BY <1>6 DEF Sound!DecodeFails, Sound!NoFrame
  <2>2. audio_buff_index = audio_buff_size /\ pkt # 0
    BY <1>1, <2>1 DEF SoundPlace
  <2>3. audio_clock + behind = last /\ position = last
    BY <1>1, <2>1 DEF ClockPlace
  <2>4. audio_clock' + behind' = end /\ position' = end
    BY <1>1, <1>2, <2>1, <2>2, <2>3
  <2> HIDE DEF last, size
  <2> QED
    BY <1>1, <1>2, <2>1, <2>2, <2>4 DEF ClockPlace
<1>7. CASE Sound!Decoded
  <2>1. /\ pc = "packet" /\ pc' = "decoded"
        /\ UNCHANGED <<pkt, audio_buff_size, audio_buff_index, position, behind>>
        /\ audio_clock' = audio_clock + size
    BY <1>7 DEF Sound!Decoded
  <2>2. pkt # 0
    BY <1>1, <2>1 DEF SoundPlace
  <2>3. audio_clock + behind = last /\ position = last
    BY <1>1, <2>1 DEF ClockPlace
  <2>4. audio_clock' + behind' = end /\ position' = last
    BY <1>1, <1>2, <2>1, <2>2, <2>3
  <2> HIDE DEF size
  <2> QED
    BY <1>1, <2>1, <2>4 DEF ClockPlace
<1>8. CASE Sound!Publish
  <2>1. /\ pc = "decoded" /\ pc' = "reset"
        /\ UNCHANGED <<pkt, audio_clock, audio_buff_index, position, behind>>
        /\ audio_buff_size' = size
    BY <1>8 DEF Sound!Publish
  <2>2. pkt # 0
    BY <1>1, <2>1 DEF SoundPlace
  <2>3. audio_clock + behind = end /\ position = last
    BY <1>1, <2>1 DEF ClockPlace
  <2>4. position' = end - audio_buff_size'
    BY <1>1, <1>2, <2>1, <2>2, <2>3
  <2> HIDE DEF size
  <2> QED
    BY <1>1, <2>1, <2>3, <2>4 DEF ClockPlace
<1>9. CASE Sound!ResetIndex
  <2>1. /\ pc = "reset" /\ pc' = "mix" /\ audio_buff_index' = 0
        /\ UNCHANGED <<pkt, audio_clock, audio_buff_size, position, behind>>
    BY <1>9 DEF Sound!ResetIndex
  <2> QED
    BY <1>1, <1>2, <2>1 DEF ClockPlace
<1>10. CASE Sound!Mix
  <2> DEFINE rest == audio_buff_size - audio_buff_index
             len1 == IF rest > len THEN len ELSE rest
  <2>1. /\ pc = "mix" /\ pc' = "loop" /\ audio_buff_index' = audio_buff_index + len1
        /\ UNCHANGED <<pkt, audio_clock, audio_buff_size, behind>>
        /\ position' = position + len1
    BY <1>10 DEF Sound!Mix
  <2>2. len1 \in Int
    BY <1>1
  <2> HIDE DEF len1
  <2>3. position = end - (audio_buff_size - audio_buff_index)
    BY <1>1, <2>1 DEF ClockPlace
  <2>4. position' = end - (audio_buff_size' - audio_buff_index')
    BY <1>1, <1>2, <2>1, <2>2, <2>3
  <2> QED
    BY <1>1, <2>1, <2>4 DEF ClockPlace
<1>11. CASE Sound!Demux \/ Sound!Control \/ Sound!LoadSize \/ Sound!LoadIndex
            \/ Sound!Callback \/ Sound!LoopTest \/ Sound!Wait
  BY <1>3, <1>11
     DEF Sound!Demux, Sound!Control, Sound!LoadSize, Sound!LoadIndex, Sound!Callback,
         Sound!LoopTest, Sound!Wait
<1> QED
  BY <1>4, <1>5, <1>6, <1>7, <1>8, <1>9, <1>10, <1>11
     DEF Sound!Next, Sound!audio_callback

LEMMA ClockSame ==
  ASSUME ClockInv, UNCHANGED soundVars
  PROVE  ClockInv'
  BY DEF soundVars, ClockInv, QueueFollows, ClockPlace, Loads

LEMMA ClockPlaceExact == SoundInv /\ ClockInv => Sound!MixInBounds /\ Sound!ClockExact
<1> SUFFICES ASSUME SoundInv, ClockInv PROVE Sound!MixInBounds /\ Sound!ClockExact
  OBVIOUS
<1> DEFINE end == Pts[pkt + 1]
           longest == BUFFER_SIZE - Request
           ahead(size, index) == Sound!get_audio_clock(size, index) + behind - position
<1>1. /\ SoundPlace /\ ClockPlace /\ Loads
      /\ audio_buff_size \in Nat /\ audio_buff_index \in Nat
      /\ audio_clock \in Nat /\ position \in Nat /\ behind \in Nat
      /\ hw_size \in Nat /\ hw_index \in Nat /\ len \in Nat /\ stream \in Nat
      /\ pkt \in Sound!Packets \cup {0} /\ Request \in Nat /\ BUFFER_SIZE \in Nat
      /\ pc \in {"idle", "loop", "decode", "deQueue", "packet", "decoded", "reset", "mix",
                 "closed"}
  BY SoundFacts DEF SoundInv, ClockInv, Sound!TypeOK
<1>2. Sound!MixInBounds
  BY <1>1 DEF Sound!MixInBounds, SoundPlace
<1>3. /\ end \in Nat
      /\ pkt # 0 => Pts[pkt] \in Nat /\ Sound!FrameSize(pkt) = end - Pts[pkt]
  <2>1. CASE pkt = 0
    BY <2>1, SoundFacts
  <2>2. CASE pkt # 0
    BY <1>1, <2>2, FrameFacts
  <2> QED
    BY <2>1, <2>2
<1>4. ahead(audio_buff_size, audio_buff_index) =
        CASE pc = "decoded" -> Sound!FrameSize(pkt)
          [] pc = "reset" -> audio_buff_index
          [] OTHER -> 0
  <2>1. CASE pc \in {"packet", "decoded"}
    <3>1. pkt # 0 /\ audio_buff_index = audio_buff_size /\ position = Pts[pkt]
      BY <1>1, <2>1 DEF SoundPlace, ClockPlace
    <3>2. audio_clock + behind = IF pc = "packet" THEN Pts[pkt] ELSE end
      BY <1>1, <2>1 DEF ClockPlace
    <3> HIDE DEF end
    <3> QED
      BY <1>1, <1>3, <2>1, <3>1, <3>2 DEF Sound!get_audio_clock
  <2>2. CASE pc \notin {"packet", "decoded"}
    <3>1. audio_clock + behind = end
      BY <1>1, <2>2 DEF ClockPlace
    <3>2. position = IF pc = "reset" THEN end - audio_buff_size
                     ELSE end - (audio_buff_size - audio_buff_index)
      BY <1>1, <2>2 DEF ClockPlace
    <3> HIDE DEF end
    <3> QED
      BY <1>1, <1>3, <2>2, <3>1, <3>2 DEF Sound!get_audio_clock
  <2> QED
    BY <2>1, <2>2
<1>5. ahead(hw_size, hw_index) \in -longest .. 2 * longest
  <2>1. audio_clock + behind - position \in 0 .. longest
    <3>1. CASE pc \in {"packet", "decoded"}
      <4>1. pkt # 0 /\ position = Pts[pkt]
        BY <1>1, <3>1 DEF SoundPlace, ClockPlace
      <4>2. audio_clock + behind = IF pc = "packet" THEN Pts[pkt] ELSE end
        BY <1>1, <3>1 DEF ClockPlace
      <4>3. end - Pts[pkt] \in Nat /\ end - Pts[pkt] <= longest
        BY <1>1, <1>3, <4>1, FrameFacts
      <4> HIDE DEF end
      <4> QED
        BY <1>1, <1>3, <3>1, <4>1, <4>2, <4>3
    <3>2. CASE pc \notin {"packet", "decoded"}
      <4>1. audio_clock + behind = end
        BY <1>1, <3>2 DEF ClockPlace
      <4>2. position = IF pc = "reset" THEN end - audio_buff_size
                       ELSE end - (audio_buff_size - audio_buff_index)
        BY <1>1, <3>2 DEF ClockPlace
      <4>3. /\ audio_buff_size <= longest
            /\ pc # "reset" => audio_buff_index <= audio_buff_size
        BY <1>1 DEF SoundPlace
      <4> HIDE DEF end
      <4> QED
        BY <1>1, <1>3, <3>2, <4>1, <4>2, <4>3
    <3> QED
      BY <3>1, <3>2
  <2>2. hw_size <= longest /\ hw_index <= longest
    BY <1>1 DEF Loads
  <2> QED
    BY <1>1, <2>1, <2>2 DEF Sound!get_audio_clock
<1>6. pkt \in Stamped /\ audio_buff_size > 0 /\ pc # "closed" => behind = 0
  BY <1>1 DEF ClockPlace
<1> QED
  BY <1>2, <1>4, <1>5, <1>6 DEF Sound!ClockExact

LEMMA SoundAlways == MediaSpec => [](SoundInv /\ ClockInv)
<1>1. MediaInit => SoundInv /\ ClockInv
  BY SoundInit, ClockInit DEF MediaInit
<1>2. SoundInv /\ ClockInv /\ [MediaNext]_allVars => (SoundInv /\ ClockInv)'
  <2> SUFFICES ASSUME SoundInv, ClockInv, [MediaNext]_allVars
               PROVE  SoundInv' /\ ClockInv'
    OBVIOUS
  <2>1. CASE Sound!Next
    BY <2>1, SoundStep, QueueStep, ClockStep, LoadStep DEF ClockInv
  <2>2. CASE UNCHANGED soundVars
    BY <2>2, SoundSame, ClockSame
  <2> QED
    BY <2>1, <2>2 DEF MediaNext, PlayPictures, PlaySound, allVars
<1> QED
  BY <1>1, <1>2, PTL DEF MediaSpec

\* The callback stays inside its buffer and the device's, the clock is the time of
\* what is mixed, and the ring holds the latest samples wherever frames wrap, for
\* every file, request, ring and number of channels that MediaAssumption allows.
THEOREM SoundCorrect == MediaSpec => []SoundExact
<1>1. SoundInv /\ ClockInv => SoundExact
  BY ClockPlaceExact, WaveCorrect DEF SoundInv, SoundExact
<1> QED
  BY <1>1, SoundAlways, PTL

\* Type correctness of the player and of its sound.
THEOREM MediaTyped == MediaSpec => []Types
<1>1. MediaInv /\ SoundInv => Types
  BY DEF MediaInv, PlayerInv, SoundInv, Types
<1>2. MediaSpec => []MediaInv
  BY MediaStart, MediaStep, PTL DEF MediaSpec
<1> QED
  BY <1>1, <1>2, SoundAlways, PTL
===============================================================================
