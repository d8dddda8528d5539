------------------------------ MODULE AvCoder -------------------------------
(***************************************************************************)
(* AudioEncoderFilter and AudioDecoderFilter: one input thread feeds the   *)
(* platform codec, whose callbacks run on threads of its own, while the    *)
(* engine's thread starts, stops and releases the filter.  The two filters *)
(* differ in how a timestamp finds its way from an input to an output: the *)
(* encoder is written for AAC, whose codec makes CdCycle outputs of        *)
(* CdCycle + 1 inputs, and lets the timestamp of the last input of a cycle *)
(* travel with the last output.  With OPUS, which the engine's parameters  *)
(* may choose, the codec has another framing (one output of an input here) *)
(* and the encoder's indices are the same.                                 *)
(***************************************************************************)
EXTENDS Integers, Sequences

CONSTANTS
  CdCycle,         \* INDEX_FLAG, the outputs of a cycle (15 in the code)
  CdQueueMax,      \* AUDIO_ENCODER_QUEUE_MAX, AUDIO_DECODER_QUEUE_MAX
  CdSlots,         \* input buffers of the codec
  CdMaxFrames      \* bound: frames that arrive

\* The codec has no more input buffers than INDEX_FLAG: with more it could be fed a
\* whole cycle ahead of its outputs, and ptsMap_ has room for one cycle.
ASSUME CdAssumption ==
  /\ CdCycle \in Nat \ {0} /\ CdQueueMax \in Nat
  /\ CdSlots \in Nat /\ CdSlots <= CdCycle

CdKinds == {"encoder", "opusEncoder", "decoder"}

VARIABLES
  coderKind,            \* which of the two filters this is, and the encoder's codec
  codec,           \* audioEncoder_, audioDecoder_ and the state of the codec
  running,         \* isEncoderRunning_, isDecoderRunning_
  stoped,          \* isStoped_
  call,            \* the call of the engine's thread under way
  thr, hand,       \* the input thread, and the frame it works on
  dataQ,           \* inputDataBufferQueue_
  slots,           \* codecIndexQueue_ and codecBufQueue_: their common length
  lent,            \* input buffers of the codec it may still offer
  ptsMap,          \* ptsMap_: a set of pairs, index and timestamp
  inIndex, outIndex,  \* frameInIndex_, frameOutIndex_
  arrived,         \* frames that arrived
  fed,             \* the frames pushed into the codec, in order
  pending,         \* samples in the codec, in units of a 64th of an output
  outs, last,      \* outputs delivered, and the timestamps of the last one
  refused          \* an output found no buffer downstream

codecVars == <<codec, stoped, call>>
queueVars == <<dataQ, slots, lent, arrived>>
ptsVars == <<ptsMap, inIndex, outIndex>>
flowVars == <<fed, pending, outs, last, refused>>
cdVars == <<coderKind, codecVars, running, thr, hand, queueVars, ptsVars, flowVars>>

CdInit ==
  /\ coderKind \in CdKinds
  /\ codec = "none" /\ stoped = FALSE /\ call = "none" /\ running = FALSE
  /\ thr = "none" /\ hand = 0
  /\ dataQ = <<>> /\ slots = 0 /\ lent = CdSlots /\ arrived = 0
  /\ ptsMap = {} /\ inIndex = 0 /\ outIndex = 0
  /\ fed = <<>> /\ pending = 0 /\ outs = 0 /\ last = <<>> /\ refused = FALSE

\* The pts_ and the USER_FRAME_PTS of a frame.
PtsOf(f) == 2 * f
UserOf(f) == 2 * f + 1

-----------------------------------------------------------------------------
\* The engine's thread.

\* CreateAudioCodec, then ConfigureAudioCodec, which checks the format and may
\* leave the codec created and useless.
CreateAudioCodec == codec' = "created"
ConfigureAudioCodec == codec' = "prepared"

\* DoPrepare.
CdPrepare ==
  /\ call = "none" /\ codec = "none" /\ ~stoped
  /\ CreateAudioCodec \/ ConfigureAudioCodec
  /\ UNCHANGED <<coderKind, stoped, call, running, thr, hand, queueVars, ptsVars, flowVars>>

\* StartAudioCodec after the authorisation was granted; denied, timed out or
\* refused by the codec, as a second start of a running codec is, it changes
\* nothing.  A stopped filter is not started again: Pipeline::Stop has emptied
\* filters_, through which the start would reach it.
CdStart ==
  /\ call = "none" /\ codec = "prepared"
  /\ codec' = "started" /\ running' = TRUE /\ thr' = "loop"
  /\ UNCHANGED <<coderKind, stoped, call, hand, queueVars, ptsVars, flowVars>>

\* DoStop; and ReleaseAudioCodec, which stops first unless isStoped_.
CdStopBegins ==
  /\ call = "none" /\ codec # "none"
  /\ call' \in {"stop"} \cup (IF stoped THEN {} ELSE {"release"})
  /\ running' = FALSE
  /\ UNCHANGED <<coderKind, codec, stoped, thr, hand, queueVars, ptsVars, flowVars>>

\* Whether join of the input thread returns.
JoinedNot == TRUE
Joined == thr \in {"none", "ended"}

\* StopInputThread after the join, then the codec's Flush and Stop, either of
\* which may fail.
CdStopEnds ==
  /\ call \in {"stop", "release"} /\ Joined
  /\ dataQ' = <<>> /\ slots' = 0
  /\ \/ /\ codec = "started"
        /\ codec' = "stopped" /\ stoped' = TRUE
     \/ UNCHANGED <<codec, stoped>>
  /\ call' = IF call = "stop" THEN "none" ELSE "destroy"
  /\ UNCHANGED <<coderKind, running, thr, hand, lent, arrived, ptsVars, flowVars>>

\* ReleaseAudioCodec from OH_AudioCodec_Destroy on.
CdDestroy ==
  /\ \/ call = "destroy"
     \/ call = "none" /\ codec # "none" /\ stoped
  /\ codec' = "none" /\ call' = "none" /\ stoped' = TRUE
  /\ UNCHANGED <<coderKind, running, thr, hand, queueVars, ptsVars, flowVars>>

-----------------------------------------------------------------------------
\* Frames from the filter before this one, and the input thread.

\* DoProcessInputBuffer: the oldest frames leave a full queue.
CdProcessInputBuffer ==
  /\ codec # "none" /\ arrived < CdMaxFrames
  /\ LET kept == IF Len(dataQ) > CdQueueMax THEN Tail(dataQ) ELSE dataQ IN
       dataQ' = Append(kept, arrived + 1)
  /\ arrived' = arrived + 1
  /\ UNCHANGED <<coderKind, codecVars, running, thr, hand, slots, lent, ptsVars, flowVars>>

\* InputEncodeAudioData: take an input buffer of the codec and a frame.
ThreadTakes ==
  /\ thr = "loop" /\ running
  /\ dataQ # <<>> /\ slots > 0
  /\ thr' = "check" /\ hand' = Head(dataQ)
  /\ dataQ' = Tail(dataQ) /\ slots' = slots - 1
  /\ UNCHANGED <<coderKind, codecVars, running, lent, arrived, ptsVars, flowVars>>

ThreadLeaves ==
  /\ thr = "loop" /\ ~running
  /\ thr' = "ended"
  /\ UNCHANGED <<coderKind, codecVars, running, hand, queueVars, ptsVars, flowVars>>

\* ProcessData up to the copy: a filter that stopped meanwhile and a copy that
\* fails end the thread, an unusable buffer only costs the frame.
ProcessDataChecks ==
  /\ thr = "check"
  /\ \/ running /\ thr' = "push" /\ UNCHANGED hand
     \/ thr' = "ended" /\ hand' = 0
     \/ running /\ thr' = "loop" /\ hand' = 0
  /\ UNCHANGED <<coderKind, codecVars, running, queueVars, ptsVars, flowVars>>

\* A plausible slip: the encoder wraps after as many inputs as outputs.
InWrapShort == CdCycle

\* FRAME_OUTINDEX_FLAG for the encoder, INDEX_FLAG for the decoder.
InWrap == IF coderKind = "decoder" THEN CdCycle ELSE CdCycle + 1

Put(map, i, v) == {e \in map : e[1] # i} \cup {<<i, v>>}

\* The timestamps a frame leaves behind; the last frame of a decoder's cycle
\* leaves its USER_FRAME_PTS as well.
EncoderPts(f) == Put(ptsMap, inIndex, UserOf(f))
DecoderPts(f) ==
  LET one == Put(ptsMap, inIndex, PtsOf(f)) IN
  IF inIndex + 1 = InWrap THEN Put(one, CdCycle, UserOf(f)) ELSE one

RecordPts(f) ==
  /\ ptsMap' = IF coderKind = "decoder" THEN DecoderPts(f) ELSE EncoderPts(f)
  /\ inIndex' = IF inIndex + 1 = InWrap THEN 0 ELSE inIndex + 1
  /\ UNCHANGED outIndex

\* How many inputs make how many outputs.
InSamples == IF coderKind = "encoder" THEN CdCycle ELSE 1
OutSamples == IF coderKind = "encoder" THEN CdCycle + 1 ELSE 1

\* ProcessData from the timestamp on; a push the codec refuses ends the thread.
ProcessDataPushes ==
  /\ thr = "push"
  /\ RecordPts(hand)
  /\ hand' = 0
  /\ \/ /\ codec = "started"
        /\ fed' = Append(fed, hand) /\ pending' = pending + InSamples
        /\ lent' = lent + 1 /\ thr' = "loop"
     \/ thr' = "ended" /\ UNCHANGED <<fed, pending, lent>>
  /\ UNCHANGED <<coderKind, codecVars, running, dataQ, slots, arrived, outs, last, refused>>

-----------------------------------------------------------------------------
\* Callbacks of the codec.

\* OnEncError, OnDecError.
OnCodecError ==
  /\ codec = "started" /\ running
  /\ running' = FALSE
  /\ UNCHANGED <<coderKind, codecVars, thr, hand, queueVars, ptsVars, flowVars>>

\* The codec asks for input when it has no complete output to deliver.
CodecWantsInput == codec = "started" /\ lent > 0 /\ pending < OutSamples

\* OnEncInputBufferAvailable, OnDecInputBufferAvailable.
OnInputBufferAvailable ==
  /\ CodecWantsInput
  /\ slots' = (IF slots > CdQueueMax THEN CdQueueMax ELSE slots) + 1
  /\ lent' = lent - 1
  /\ UNCHANGED <<coderKind, codecVars, running, thr, hand, dataQ, arrived, ptsVars, flowVars>>

At(i) == {e \in ptsMap : e[1] = i}
ValueAt(i) == IF At(i) = {} THEN 0 ELSE (CHOOSE e \in At(i) : TRUE)[2]

\* The pts_ of an output and its USER_FRAME_PTS, which differ on the last output
\* of a cycle; the encoder's cycle ends there in any case, the decoder's when
\* the entry is there.
EncoderDelivers ==
  LET ends == outIndex + 1 = CdCycle
      used == At(outIndex) \cup (IF ends THEN At(CdCycle) ELSE {})
      pts == ValueAt(outIndex)
  IN  /\ last' = <<pts, IF ends /\ At(CdCycle) # {} THEN ValueAt(CdCycle) ELSE pts>>
      /\ ptsMap' = ptsMap \ used
      /\ outIndex' = IF ends THEN 0 ELSE outIndex + 1

DecoderDelivers ==
  LET ends == outIndex + 1 = CdCycle /\ At(CdCycle) # {}
      pts == ValueAt(outIndex)
  IN  /\ last' = <<pts, IF ends THEN ValueAt(CdCycle) ELSE pts>>
      /\ ptsMap' = ptsMap \ At(outIndex)
      /\ outIndex' = IF ends THEN 0 ELSE outIndex + 1

Delivered == IF coderKind = "decoder" THEN DecoderDelivers ELSE EncoderDelivers

\* OnEncOutputBufferAvailable, OnDecOutputBufferAvailable: dropped when the
\* filter no longer runs, and when no buffer can be had downstream.
OnOutputBufferAvailable ==
  /\ codec = "started" /\ pending >= OutSamples
  /\ pending' = pending - OutSamples
  /\ \/ /\ running
        /\ Delivered
        /\ outs' = outs + 1
        /\ UNCHANGED refused
     \/ /\ refused' = (refused \/ running)
        /\ UNCHANGED <<ptsMap, outIndex, outs, last>>
  /\ UNCHANGED <<coderKind, codecVars, running, thr, hand, queueVars, inIndex, fed>>

EngineSteps == CdPrepare \/ CdStart \/ CdStopBegins \/ CdStopEnds \/ CdDestroy
InputSteps ==
  CdProcessInputBuffer \/ ThreadTakes \/ ThreadLeaves \/ ProcessDataChecks
  \/ ProcessDataPushes
CodecSteps == OnCodecError \/ OnInputBufferAvailable \/ OnOutputBufferAvailable

CdNext == EngineSteps \/ InputSteps \/ CodecSteps

CdSpec == CdInit /\ [][CdNext]_cdVars

-----------------------------------------------------------------------------
\* The frame an output stands for, and the one whose USER_FRAME_PTS it carries.
FrameOf(n) ==
  IF coderKind = "encoder" THEN (n \div CdCycle) * (CdCycle + 1) + (n % CdCycle) ELSE n
UserFrameOf(n) ==
  IF coderKind = "encoder" /\ n % CdCycle = CdCycle - 1 THEN FrameOf(n) + 1 ELSE FrameOf(n)

(* Output n of the codec carries the timestamps of the input it stands for, *)
(* over any number of cycles of frameInIndex_ and frameOutIndex_ and with   *)
(* frames dropped before the codec: the two indices, which wrap at          *)
(* different counts, never drift apart until an output is refused           *)
(* downstream - in a decoder and in an encoder of AAC.  With OPUS they do.  *)
CdOutputPts ==
  (outs > 0 /\ ~refused /\ coderKind # "opusEncoder") =>
    LET n == outs - 1
        f == fed[FrameOf(n) + 1]
        u == fed[UserFrameOf(n) + 1]
    IN  last = IF coderKind = "encoder" THEN <<UserOf(f), UserOf(u)>>
               ELSE <<PtsOf(f), IF n % CdCycle = CdCycle - 1 THEN UserOf(f) ELSE PtsOf(f)>>

(* The input thread has ended when the codec it pushes into is destroyed:   *)
(* StopAudioCodec joins it, also when the codec's Flush or Stop failed and  *)
(* when the thread was between taking a frame and pushing it.               *)
CdNoPushAfterDestroy ==
  codec = "none" => thr \in {"none", "ended"}
=============================================================================
