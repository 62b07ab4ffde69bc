----------------------------- MODULE AudioDecoder -----------------------------
(***************************************************************************)
(* The decoder of audioengine.cpp: a thread that decodes a file into a     *)
(* bounded queue (DecodeThread), a player that takes frames from it        *)
(* (GetFrame), and a controlling thread that seeks (SetSeekPosition) and   *)
(* stops it (StopDecode).  The queue is guarded by one mutex and one       *)
(* condition variable, but StopDecode raises m_bStop and notifies without  *)
(* the mutex, so the evaluation of a wait predicate and the sleep that     *)
(* follows it are two steps here, as they are in condition_variable::wait. *)
(***************************************************************************)
EXTENDS Naturals, Sequences

CONSTANTS
  NPackets,     \* packets in the file
  MAX_BUFF_SIZE,\* capacity of the queue (128 in the code)
  MaxSeeks,     \* bound on the calls of SetSeekPosition
  NoFrame

\* A decoded frame: the packet it came from and the seek it belongs to.
Frames == [pos : 1 .. NPackets, epoch : 0 .. MaxSeeks]

ASSUME DecoderAssumption ==
  /\ NPackets \in Nat
  /\ MAX_BUFF_SIZE \in Nat \ {0}
  /\ MaxSeeks \in Nat
  /\ NoFrame \notin Frames

VARIABLES
  m_queueData,  \* decoded frames, oldest first
  m_bStop, m_bSeeked,
  m_pmtx,       \* the thread inside the mutex, or "free"
  pc,           \* where each thread is
  frame,        \* the frame DecodeThread holds
  got,          \* what the last GetFrame popped
  next,         \* the packet av_read_frame returns next
  epoch,        \* how often the file position was moved by a seek
  seeks         \* calls of SetSeekPosition so far

decoderVars == <<m_queueData, m_bStop, m_bSeeked, m_pmtx, pc, frame, got,
                 next, epoch, seeks>>

Threads == {"decode", "play", "control"}

Where == {"read", "idle", "lock", "test", "block", "wait", "woken", "notify", "done",
          "seek", "notify_all", "join", "drain", "stopped"}

Waiting == {t \in Threads : pc[t] = "wait"}

Go(t, where) == pc' = [pc EXCEPT ![t] = where]

DecoderInit ==
  /\ m_queueData = <<>>
  /\ m_bStop = FALSE
  /\ m_bSeeked = FALSE
  /\ m_pmtx = "free"
  /\ pc = [decode |-> "read", play |-> "idle", control |-> "idle"]
  /\ frame = NoFrame
  /\ got = NoFrame
  /\ next = 1
  /\ epoch = 0
  /\ seeks = 0

-------------------------------------------------------------------------------
(* The mutex and the condition variable.                                   *)

Lock(t) ==
  /\ pc[t] \in {"lock", "woken"}
  /\ m_pmtx = "free"
  /\ m_pmtx' = t
  /\ Go(t, "test")
  /\ UNCHANGED <<m_queueData, m_bStop, m_bSeeked, frame, got, next, epoch, seeks>>

\* The predicate of the wait was false: the mutex is released and the thread
\* sleeps, in one step.
Block(t) ==
  /\ pc[t] = "block"
  /\ m_pmtx' = "free"
  /\ Go(t, "wait")
  /\ UNCHANGED <<m_queueData, m_bStop, m_bSeeked, frame, got, next, epoch, seeks>>

SpuriousWakeup(t) ==
  /\ pc[t] = "wait"
  /\ Go(t, "woken")
  /\ UNCHANGED <<m_queueData, m_bStop, m_bSeeked, m_pmtx, frame, got, next, epoch, seeks>>

\* A bug NotifyOne could have: notify_one is missing.
NotifyNobody(t, where) ==
  /\ pc[t] = "notify"
  /\ Go(t, where)
  /\ UNCHANGED <<m_queueData, m_bStop, m_bSeeked, m_pmtx, frame, got, next, epoch, seeks>>

\* notify_one, called by t after it unlocked; t then goes to where.
NotifyOne(t, where) ==
  /\ pc[t] = "notify"
  /\ \/ Waiting = {} /\ Go(t, where)
     \/ \E w \in Waiting : pc' = [pc EXCEPT ![t] = where, ![w] = "woken"]
  /\ UNCHANGED <<m_queueData, m_bStop, m_bSeeked, m_pmtx, frame, got, next, epoch, seeks>>

\* notify_all, after which t is at where.
NotifyAll(t, where) ==
  pc' = [u \in Threads |-> IF u = t THEN where
                           ELSE IF u \in Waiting THEN "woken" ELSE pc[u]]

-------------------------------------------------------------------------------
(* DecodeThread.                                                           *)

\* One turn of the loop up to the lock: a packet that is not of the audio
\* stream, or that completes no frame, is skipped; at the end of the file the
\* thread ends without telling anyone.
ReadFrame ==
  /\ pc["decode"] = "read"
  /\ \/ /\ next > NPackets
        /\ Go("decode", "done")
        /\ UNCHANGED <<frame, next>>
     \/ /\ next <= NPackets
        /\ next' = next + 1
        /\ \/ /\ frame' = [pos |-> next, epoch |-> epoch]
              /\ Go("decode", "lock")
           \/ UNCHANGED <<frame, pc>>
  /\ UNCHANGED <<m_queueData, m_bStop, m_bSeeked, m_pmtx, got, epoch, seeks>>

NoRoom ==
  /\ pc["decode"] = "test"
  /\ ~m_bStop
  /\ Len(m_queueData) >= MAX_BUFF_SIZE
  /\ Go("decode", "block")
  /\ UNCHANGED <<m_queueData, m_bStop, m_bSeeked, m_pmtx, frame, got, next, epoch, seeks>>

\* A bug HaveRoom could have: it queues the frame it holds, if there is room,
\* without looking at m_bSeeked.
HaveRoomUnseeked ==
  /\ pc["decode"] = "test"
  /\ Len(m_queueData) < MAX_BUFF_SIZE /\ ~m_bStop
  /\ m_pmtx' = "free"
  /\ frame' = NoFrame
  /\ m_queueData' = Append(m_queueData, frame)
  /\ Go("decode", "notify")
  /\ UNCHANGED <<m_bStop, m_bSeeked, got, next, epoch, seeks>>

\* The wait is over.  A stopped decoder leaves; after a seek the frame in hand
\* is given up and the loop goes on; otherwise it is queued.
HaveRoom ==
  /\ pc["decode"] = "test"
  /\ m_bStop \/ Len(m_queueData) < MAX_BUFF_SIZE
  /\ m_pmtx' = "free"
  /\ frame' = NoFrame
  /\ \/ /\ m_bStop
        /\ Go("decode", "done")
        /\ UNCHANGED <<m_queueData, m_bSeeked>>
     \/ /\ ~m_bStop /\ m_bSeeked
        /\ m_bSeeked' = FALSE
        /\ Go("decode", "read")
        /\ UNCHANGED m_queueData
     \/ /\ ~m_bStop /\ ~m_bSeeked
        /\ m_queueData' = Append(m_queueData, frame)
        /\ Go("decode", "notify")
        /\ UNCHANGED m_bSeeked
  /\ UNCHANGED <<m_bStop, got, next, epoch, seeks>>

DecodeThread ==
  \/ ReadFrame
  \/ Lock("decode")
  \/ NoRoom
  \/ Block("decode")
  \/ HaveRoom
  \/ NotifyOne("decode", "read")

-------------------------------------------------------------------------------
(* GetFrame, called by the playing thread.                                 *)

GetFrameCall ==
  /\ pc["play"] = "idle"
  /\ Go("play", "lock")
  /\ UNCHANGED <<m_queueData, m_bStop, m_bSeeked, m_pmtx, frame, got, next, epoch, seeks>>

NoData ==
  /\ pc["play"] = "test"
  /\ ~m_bStop
  /\ m_queueData = <<>>
  /\ Go("play", "block")
  /\ UNCHANGED <<m_queueData, m_bStop, m_bSeeked, m_pmtx, frame, got, next, epoch, seeks>>

\* A bug PopFrame could have: the frame is returned but not popped.
PopFrameKept ==
  /\ pc["play"] = "test"
  /\ m_queueData # <<>>
  /\ got' = Head(m_queueData)
  /\ m_pmtx' = "free"
  /\ Go("play", "notify")
  /\ UNCHANGED <<m_queueData, m_bStop, m_bSeeked, frame, next, epoch, seeks>>

\* The frame is popped unless the decoder is stopped; then nullptr is returned.
PopFrame ==
  /\ pc["play"] = "test"
  /\ \/ /\ m_bStop
        /\ got' = NoFrame
        /\ UNCHANGED m_queueData
     \/ /\ ~m_bStop
        /\ m_queueData # <<>>
        /\ got' = Head(m_queueData)
        /\ m_queueData' = Tail(m_queueData)
  /\ m_pmtx' = "free"
  /\ Go("play", "notify")
  /\ UNCHANGED <<m_bStop, m_bSeeked, frame, next, epoch, seeks>>

GetFrame ==
  \/ Lock("play")
  \/ NoData
  \/ Block("play")
  \/ PopFrame
  \/ NotifyOne("play", "idle")

-------------------------------------------------------------------------------
(* SetSeekPosition and StopDecode, called by the controlling thread.       *)

SeekCall ==
  /\ pc["control"] = "idle"
  /\ seeks < MaxSeeks
  /\ seeks' = seeks + 1
  /\ Go("control", "seek")
  /\ UNCHANGED <<m_queueData, m_bStop, m_bSeeked, m_pmtx, frame, got, next, epoch>>

\* m_bSeeked is raised and the queue emptied whether or not av_seek_frame
\* succeeds; everything happens inside the mutex, the notify_all too.
SetSeekPosition ==
  /\ pc["control"] = "seek"
  /\ m_pmtx = "free"
  /\ m_bSeeked' = TRUE
  /\ \/ /\ next' \in 1 .. NPackets
        /\ epoch' = epoch + 1
     \/ UNCHANGED <<next, epoch>>
  /\ m_queueData' = <<>>
  /\ NotifyAll("control", "idle")
  /\ UNCHANGED <<m_bStop, m_pmtx, frame, got, seeks>>

\* StopDecode: the flag and the notification, both without the mutex ...
StopFlag ==
  /\ pc["control"] = "idle"
  /\ m_bStop' = TRUE
  /\ Go("control", "notify_all")
  /\ UNCHANGED <<m_queueData, m_bSeeked, m_pmtx, frame, got, next, epoch, seeks>>

\* A bug StopNotify could have: nobody is notified.
StopSilent ==
  /\ pc["control"] = "notify_all"
  /\ Go("control", "join")
  /\ UNCHANGED <<m_queueData, m_bStop, m_bSeeked, m_pmtx, frame, got, next, epoch, seeks>>

StopNotify ==
  /\ pc["control"] = "notify_all"
  /\ NotifyAll("control", "join")
  /\ UNCHANGED <<m_queueData, m_bStop, m_bSeeked, m_pmtx, frame, got, next, epoch, seeks>>

\* ... then the decoding thread is joined and the queue emptied.
StopJoin ==
  /\ pc["control"] = "join"
  /\ pc["decode"] = "done"
  /\ Go("control", "drain")
  /\ UNCHANGED <<m_queueData, m_bStop, m_bSeeked, m_pmtx, frame, got, next, epoch, seeks>>

StopDrain ==
  /\ pc["control"] = "drain"
  /\ m_pmtx = "free"
  /\ m_queueData' = <<>>
  /\ Go("control", "stopped")
  /\ UNCHANGED <<m_bStop, m_bSeeked, m_pmtx, frame, got, next, epoch, seeks>>

StopDecode == StopNotify \/ StopJoin \/ StopDrain

-------------------------------------------------------------------------------
DecoderNext ==
  \/ DecodeThread
  \/ GetFrameCall \/ GetFrame
  \/ SeekCall \/ SetSeekPosition
  \/ StopFlag \/ StopDecode
  \/ SpuriousWakeup("decode") \/ SpuriousWakeup("play")

DecoderSpec == DecoderInit /\ [][DecoderNext]_decoderVars

-------------------------------------------------------------------------------
(* Properties.                                                             *)

\* The values the decoder's variables range over, and the bound on the queue.
DecoderTypeOK ==
  /\ m_queueData \in Seq(Frames)
  /\ Len(m_queueData) <= MAX_BUFF_SIZE
  /\ m_bStop \in BOOLEAN
  /\ m_bSeeked \in BOOLEAN
  /\ m_pmtx \in {"free", "decode", "play"}
  /\ pc \in [Threads -> Where]
  /\ frame \in Frames \cup {NoFrame}
  /\ got \in Frames \cup {NoFrame}
  /\ next \in 1 .. NPackets + 1
  /\ epoch \in 0 .. seeks
  /\ seeks \in 0 .. MaxSeeks

\* After SetSeekPosition no frame decoded from before the seek is ever queued:
\* not even the one DecodeThread was holding, read before the seek and waiting
\* for the mutex or for room while the seek ran.
NoStaleFrame ==
  \A i \in DOMAIN m_queueData : m_queueData[i].epoch = epoch

\* Frames are queued in the order of the file, without repetition.
FileOrder ==
  \A i, j \in DOMAIN m_queueData : i < j => m_queueData[i].pos < m_queueData[j].pos

\* While the decoder runs, the player sleeps beside a queued frame, or the
\* decoding thread beside a free place, only if the thread that made the
\* difference is about to notify it.  In particular both never sleep at once.
NoDecoderWakeupLost ==
  ~m_bStop =>
    /\ pc["play"] = "wait" /\ m_queueData # <<>> => pc["decode"] = "notify"
    /\ pc["decode"] = "wait" /\ Len(m_queueData) < MAX_BUFF_SIZE => pc["play"] = "notify"
===============================================================================
