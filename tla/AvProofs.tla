------------------------------ MODULE AvProofs ------------------------------
(***************************************************************************)
(* Proofs about the parts of the AV transport, for any number of frames,   *)
(* engines, peers and sockets and any limit of the queues.                 *)
(***************************************************************************)
EXTENDS AvOutput, AvCenter, AvChannel, AvEngine, AvSync, AvCoder, AvPipeline, AvPlugin, FiniteSetTheorems, TLAPS

-----------------------------------------------------------------------------
(* Sequences of frame numbers.                                             *)

Increasing(s) == \A i, j \in DOMAIN s : i < j => s[i] < s[j]

\* What Append adds to the range, and that it keeps the order when the new
\* number is the largest.
LEMMA AppendFacts ==
  ASSUME NEW s \in Seq(Nat), NEW x \in Nat
  PROVE  /\ Append(s, x) \in Seq(Nat)
         /\ Range(Append(s, x)) = Range(s) \cup {x}
         /\ Increasing(s) /\ (\A y \in Range(s) : y < x) => Increasing(Append(s, x))
PROOF
<1>1. Append(s, x) \in Seq(Nat) /\ DOMAIN Append(s, x) = 1..(Len(s) + 1) /\ DOMAIN s = 1..Len(s) /\ Len(s) \in Nat
  OBVIOUS
<1>2. \A i \in 1..Len(s) : Append(s, x)[i] = s[i]
  OBVIOUS
<1>3. Append(s, x)[Len(s) + 1] = x
  OBVIOUS
<1>4. Range(Append(s, x)) = Range(s) \cup {x}
  BY <1>1, <1>2, <1>3 DEF Range
<1>5. ASSUME Increasing(s), \A y \in Range(s) : y < x PROVE Increasing(Append(s, x))
  <2> SUFFICES ASSUME NEW i \in 1..(Len(s) + 1), NEW j \in 1..(Len(s) + 1), i < j
               PROVE  Append(s, x)[i] < Append(s, x)[j]
    BY <1>1 DEF Increasing
  <2>1. i \in 1..Len(s) /\ Append(s, x)[i] = s[i] /\ s[i] \in Range(s)
    BY <1>1, <1>2 DEF Range
  <2>2. CASE j = Len(s) + 1
    BY <1>3, <1>5, <2>1, <2>2
  <2>3. CASE j \in 1..Len(s)
    BY <1>1, <1>2, <1>5, <2>1, <2>3 DEF Increasing
  <2> QED
    BY <1>1, <2>2, <2>3
<1> QED
  BY <1>1, <1>4, <1>5

\* The head and the tail of a sequence: together its range, and in an increasing
\* one the head is below the tail.
LEMMA TailFacts ==
  ASSUME NEW s \in Seq(Nat), s # <<>>
  PROVE  /\ Head(s) \in Nat /\ Tail(s) \in Seq(Nat)
         /\ Range(s) = {Head(s)} \cup Range(Tail(s))
         /\ Increasing(s) => Increasing(Tail(s)) /\ (\A y \in Range(Tail(s)) : Head(s) < y)
PROOF
<1>1. /\ Len(s) \in Nat \ {0} /\ DOMAIN s = 1..Len(s) /\ Head(s) = s[1] /\ Head(s) \in Nat
      /\ Tail(s) \in Seq(Nat) /\ DOMAIN Tail(s) = 1..(Len(s) - 1)
  OBVIOUS
<1>2. \A i \in 1..(Len(s) - 1) : Tail(s)[i] = s[i + 1] /\ i + 1 \in 1..Len(s)
  BY <1>1
<1>3. \A i \in 1..Len(s) : i = 1 \/ (i - 1 \in 1..(Len(s) - 1) /\ Tail(s)[i - 1] = s[i])
  BY <1>1
<1>4. Range(s) = {Head(s)} \cup Range(Tail(s))
  <2>1. ASSUME NEW y \in Range(s) PROVE y \in {Head(s)} \cup Range(Tail(s))
    <3>1. PICK i \in 1..Len(s) : y = s[i]
      BY <1>1 DEF Range
    <3> QED
      BY <1>1, <1>3, <3>1 DEF Range
  <2>2. ASSUME NEW y \in {Head(s)} \cup Range(Tail(s)) PROVE y \in Range(s)
    <3>1. CASE y = Head(s)
      <4>1. 1 \in DOMAIN s
        BY <1>1
      <4> QED
        BY <1>1, <3>1, <4>1 DEF Range
    <3>2. CASE y \in Range(Tail(s))
      <4>1. PICK i \in 1..(Len(s) - 1) : y = Tail(s)[i]
        BY <1>1, <3>2 DEF Range
      <4> QED
        BY <1>1, <1>2, <4>1 DEF Range
    <3> QED
      BY <2>2, <3>1, <3>2
  <2> QED
    BY <2>1, <2>2
<1>5. ASSUME Increasing(s) PROVE Increasing(Tail(s)) /\ (\A y \in Range(Tail(s)) : Head(s) < y)
  <2>1. Increasing(Tail(s))
    <3> SUFFICES ASSUME NEW i \in 1..(Len(s) - 1), NEW j \in 1..(Len(s) - 1), i < j
                 PROVE  Tail(s)[i] < Tail(s)[j]
      BY <1>1 DEF Increasing
    <3>1. i + 1 < j + 1
      BY <1>1
    <3> QED
      BY <1>1, <1>2, <1>5, <3>1 DEF Increasing
  <2>2. ASSUME NEW y \in Range(Tail(s)) PROVE Head(s) < y
    <3>1. PICK i \in 1..(Len(s) - 1) : y = Tail(s)[i]
      BY <1>1, <2>2 DEF Range
    <3>2. 1 < i + 1 /\ 1 \in 1..Len(s)
      BY <1>1
    <3> QED
      BY <1>1, <1>2, <1>5, <3>1, <3>2 DEF Increasing
  <2> QED
    BY <2>1, <2>2
<1> QED
  BY <1>1, <1>4, <1>5

LEMMA ConcatRange ==
  ASSUME NEW s \in Seq(Nat), NEW t \in Seq(Nat)
  PROVE  Range(s \o t) = Range(s) \cup Range(t)
PROOF
<1>1. /\ DOMAIN s = 1..Len(s) /\ DOMAIN t = 1..Len(t) /\ Len(s) \in Nat /\ Len(t) \in Nat
      /\ DOMAIN (s \o t) = 1..(Len(s) + Len(t))
  OBVIOUS
<1>2. \A i \in 1..(Len(s) + Len(t)) : (s \o t)[i] = IF i <= Len(s) THEN s[i] ELSE t[i - Len(s)]
  BY <1>1
<1>3. ASSUME NEW y \in Range(s \o t) PROVE y \in Range(s) \cup Range(t)
  <2>1. PICK i \in 1..(Len(s) + Len(t)) : y = (s \o t)[i]
    BY <1>1 DEF Range
  <2>2. CASE i <= Len(s)
    <3>1. i \in 1..Len(s) /\ y = s[i]
      BY <1>1, <1>2, <2>1, <2>2
    <3> QED
      BY <1>1, <3>1 DEF Range
  <2>3. CASE ~(i <= Len(s))
    <3>1. i - Len(s) \in 1..Len(t) /\ y = t[i - Len(s)]
      BY <1>1, <1>2, <2>1, <2>3
    <3> QED
      BY <1>1, <3>1 DEF Range
  <2> QED
    BY <2>2, <2>3
<1>4. ASSUME NEW y \in Range(s) PROVE y \in Range(s \o t)
  <2>1. PICK i \in 1..Len(s) : y = s[i]
    BY <1>1, <1>4 DEF Range
  <2>2. i \in 1..(Len(s) + Len(t)) /\ (s \o t)[i] = y
    BY <1>1, <1>2, <2>1
  <2> QED
    BY <1>1, <2>2 DEF Range
<1>5. ASSUME NEW y \in Range(t) PROVE y \in Range(s \o t)
  <2>1. PICK i \in 1..Len(t) : y = t[i]
    BY <1>1, <1>5 DEF Range
  <2>2. Len(s) + i \in 1..(Len(s) + Len(t)) /\ (s \o t)[Len(s) + i] = y
    BY <1>1, <1>2, <2>1
  <2> QED
    BY <1>1, <2>2 DEF Range
<1> QED
  BY <1>3, <1>4, <1>5

LEMMA EmptyFacts == <<>> \in Seq(Nat) /\ Range(<<>>) = {} /\ Increasing(<<>>)
PROOF
  BY DEF Range, Increasing

LEMMA ContainsIsRange == ASSUME NEW s \in Seq(Nat), NEW e PROVE Contains(s, e) <=> e \in Range(s)
PROOF
<1>1. DOMAIN s = 1..Len(s)
  OBVIOUS
<1> QED
  BY <1>1 DEF Contains, Range

-----------------------------------------------------------------------------
(* OutputController                                                        *)

Working == ocControl \in {"control", "reread", "sleep", "post"}
Popping == ocControl \in {"pop", "popping"}

\* The frames on their way, as numbers: each sequence is increasing, and what
\* was handed out is below what is posted, which is below the frame the control
\* thread works on, which is at most the front of the queue.  A frame that is
\* posted and not yet popped may still be that front.
OcSeqs ==
  /\ ocFrames \in Nat
  /\ ocQueue \in Seq(Nat) /\ ocPosted \in Seq(Nat) /\ ocOut \in Seq(Nat)
  /\ Increasing(ocQueue) /\ Increasing(ocPosted) /\ Increasing(ocOut)

OcOrder ==
  /\ \A x \in Range(ocOut), y \in Range(ocPosted) : x < y
  /\ ~Popping => \A x \in Range(ocOut) \cup Range(ocPosted), y \in Range(ocQueue) : x < y
  /\ \A x \in Range(ocOut) \cup Range(ocPosted) \cup Range(ocQueue) : x <= ocFrames

OcWork ==
  /\ ocData \in Nat /\ ocData <= ocFrames
  /\ ~Working /\ ~Popping => ocData = 0
  /\ Working => \A x \in Range(ocOut) \cup Range(ocPosted) : x < ocData
  /\ Popping => \A x \in Range(ocOut) \cup Range(ocPosted) : x <= ocData
  /\ Working \/ Popping => \A y \in Range(ocQueue) : ocData <= y

\* One thread at a time is between its test and its front, pop or push, and the front
\* that was compared stays the front unless StopControl or ReleaseControl empties the queue.
OcLock ==
  /\ ~(PushLocked /\ ControlLocked)
  /\ ocControl = "popping" => ocQueue = <<>> \/ Head(ocQueue) = ocData

OcInv == OcSeqs /\ OcOrder /\ OcWork /\ OcLock

OcParts == <<ocFrames, ocQueue, ocPosted, ocOut, ocData>>

LEMMA RangeInNat == \A s \in Seq(Nat) : \A x \in Range(s) : x \in Nat
PROOF
  BY DEF Range

LEMMA OcInvInit == OcInit => OcInv /\ OcFramesAccounted
PROOF
  BY EmptyFacts DEF OcInit, OcInv, OcSeqs, OcOrder, OcWork, OcLock, Working, Popping, PushLocked, OcFramesAccounted

\* A step that only empties the queue, or leaves it, keeps the order.
LEMMA OcQueueShrinks ==
  ASSUME OcInv, ocQueue' \in {ocQueue, <<>>}, UNCHANGED <<ocFrames, ocPosted, ocOut, ocData>>,
         Working' = Working, Popping' = Popping, ~(PushLocked /\ ControlLocked)',
         ocControl' = "popping" => ocControl = "popping"
  PROVE  OcInv'
PROOF
  BY EmptyFacts DEF OcInv, OcSeqs, OcOrder, OcWork, OcLock

\* Steps of the owner of the plugin, of PushData before it queues, and of the control
\* thread that leave the frame it works on.
OcQuiet ==
  \/ OcPluginInit \/ OcPrepare \/ OcStart \/ StopStores \/ StopClears \/ ResetBegins \/ ReleaseNotifies
  \/ ReleaseStopsHandler \/ PushChecks \/ PushLocks \/ TouchesEmptied
  \/ LooperTests \/ LooperBlocks \/ LooperEnds \/ ControlOutput \/ RereadClock \/ SyncClock
  \/ CallsEmptyFunction \/ UNCHANGED ocVars

LEMMA OcQuietStep ==
  ASSUME OcInv, OcQuiet
  PROVE  /\ UNCHANGED <<ocFrames, ocPosted, ocOut, ocData>> /\ ocQueue' \in {ocQueue, <<>>}
         /\ Working' = Working /\ Popping' = Popping /\ ~(PushLocked /\ ControlLocked)'
         /\ ocControl' = "popping" => ocControl = "popping"
PROOF
<1>1. ~(PushLocked /\ ControlLocked)
  BY DEF OcInv, OcLock
<1>2. CASE \/ OcPluginInit \/ OcPrepare \/ OcStart \/ StopStores \/ StopClears \/ ResetBegins \/ ReleaseNotifies
           \/ ReleaseStopsHandler \/ PushChecks
  BY <1>1, <1>2 DEF OcPluginInit, OcPrepare, OcStart, StopStores, StopClears, ResetBegins, ReleaseNotifies,
     ReleaseStopsHandler, PushChecks, ocFlow, ocOwner, Working, Popping, PushLocked, ControlLocked
<1>3. CASE \/ PushLocks \/ TouchesEmptied \/ LooperTests \/ LooperBlocks \/ LooperEnds
  BY <1>1, <1>3 DEF PushLocks, TouchesEmptied, LooperTests, LooperBlocks, LooperEnds, ocControlOnly, ocFlow, ocOwner,
     Working, Popping, PushLocked, ControlLocked
<1>4. CASE \/ ControlOutput \/ RereadClock \/ SyncClock \/ CallsEmptyFunction \/ UNCHANGED ocVars
  BY <1>1, <1>4 DEF ControlOutput, RereadClock, SyncClock, CallsEmptyFunction, ocVars, ocControlOnly, ocFlow, ocOwner,
     Working, Popping, PushLocked, ControlLocked
<1> QED
  BY <1>2, <1>3, <1>4 DEF OcQuiet

\* What PushData leaves of the queue before it appends its frame.
LEMMA OcPushFacts ==
  ASSUME OcInv, NEW s \in BOOLEAN, PushQueues(s)
  PROVE  \E kept \in Seq(Nat) :
           /\ Range(kept) \subseteq Range(ocQueue) /\ Increasing(kept)
           /\ ocQueue' = Append(kept, ocFrames + 1) /\ ocFrames' = ocFrames + 1
           /\ ocDropped' = ocDropped \cup (Range(ocQueue) \ Range(kept))
           /\ UNCHANGED <<ocData, ocPosted, ocOut>>
           /\ ocControl' = IF ocControl = "blocked" THEN "idle" ELSE ocControl
           /\ PushLocked /\ ~PushLocked'
PROOF
<1> DEFINE room == IF ocPush = "full" THEN Tail(ocQueue) ELSE ocQueue
           mode == IF s THEN "SYNC" ELSE "SMOOTH"
           kept == IF mode # ocMode THEN <<>> ELSE room
<1>1. /\ ocQueue' = Append(kept, ocFrames + 1) /\ ocFrames' = ocFrames + 1
      /\ ocDropped' = ocDropped \cup (Range(ocQueue) \ Range(kept))
      /\ UNCHANGED <<ocData, ocPosted, ocOut>> /\ ocControl' = IF ocControl = "blocked" THEN "idle" ELSE ocControl
      /\ PushLocked /\ ~PushLocked'
  BY DEF PushQueues, PushLocked
<1>2. kept \in Seq(Nat) /\ Range(kept) \subseteq Range(ocQueue) /\ Increasing(kept)
  <2>0. ocQueue \in Seq(Nat) /\ Increasing(ocQueue)
    BY DEF OcInv, OcSeqs
  <2>1. CASE kept = <<>>
    BY <2>1, EmptyFacts
  <2>2. CASE kept = ocQueue
    BY <2>0, <2>2
  <2>3. CASE ocPush = "full" /\ kept = Tail(ocQueue)
    <3>1. ocQueue # <<>>
      BY <2>3 DEF PushQueues
    <3> HIDE DEF kept
    <3> QED
      BY <2>0, <2>3, <3>1, TailFacts
  <2> QED
    BY <2>1, <2>2, <2>3
<1> HIDE DEF kept
<1> QED
  BY <1>1, <1>2

LEMMA OcPushStep == ASSUME OcInv, NEW s \in BOOLEAN, PushQueues(s) PROVE OcInv'
PROOF
<1>0. PICK kept \in Seq(Nat) :
           /\ Range(kept) \subseteq Range(ocQueue) /\ Increasing(kept)
           /\ ocQueue' = Append(kept, ocFrames + 1) /\ ocFrames' = ocFrames + 1
           /\ ocDropped' = ocDropped \cup (Range(ocQueue) \ Range(kept))
           /\ UNCHANGED <<ocData, ocPosted, ocOut>>
           /\ ocControl' = IF ocControl = "blocked" THEN "idle" ELSE ocControl
           /\ PushLocked /\ ~PushLocked'
  BY OcPushFacts
<1>1. Working' = Working /\ Popping' = Popping
  BY <1>0 DEF Working, Popping
<1>2. ocFrames \in Nat /\ \A y \in Range(kept) : y \in Nat /\ y <= ocFrames
  BY <1>0, RangeInNat DEF OcInv, OcSeqs, OcOrder
<1>3. ocQueue' \in Seq(Nat) /\ Range(ocQueue') = Range(kept) \cup {ocFrames + 1} /\ Increasing(ocQueue')
  <2>1. \A y \in Range(kept) : y < ocFrames + 1
    BY <1>2
  <2>2. ocFrames + 1 \in Nat
    BY <1>2
  <2> QED
    BY <1>0, <1>2, <2>1, <2>2, AppendFacts
<1>4. OcSeqs'
  BY <1>0, <1>2, <1>3 DEF OcInv, OcSeqs
<1>5. OcOrder'
  <2>1. \A x \in Range(ocOut) \cup Range(ocPosted) : x \in Nat /\ x <= ocFrames
    BY RangeInNat DEF OcInv, OcSeqs, OcOrder
  <2> QED
    BY <1>0, <1>1, <1>2, <1>3, <2>1 DEF OcInv, OcOrder
<1>6. OcWork'
  BY <1>0, <1>1, <1>2, <1>3 DEF OcInv, OcWork
<1>7. OcLock'
  BY <1>0 DEF OcInv, OcLock, ControlLocked
<1> QED
  BY <1>4, <1>5, <1>6, <1>7 DEF OcInv

LEMMA OcTakesStep == ASSUME OcInv, LooperTakes PROVE OcInv'
PROOF
<1>1. /\ ocQueue # <<>> /\ ocQueue \in Seq(Nat) /\ Increasing(ocQueue) /\ ocData' = Head(ocQueue)
      /\ UNCHANGED <<ocFrames, ocQueue, ocPosted, ocOut>> /\ Working' /\ ~Popping /\ ~Popping'
      /\ ocControl' = "control"
  BY DEF LooperTakes, ocControlOnly, OcInv, OcSeqs, Working, Popping
<1>2. /\ Head(ocQueue) \in Nat /\ Range(ocQueue) = {Head(ocQueue)} \cup Range(Tail(ocQueue))
      /\ \A y \in Range(Tail(ocQueue)) : Head(ocQueue) < y
  BY <1>1, TailFacts
<1>3. \A y \in Range(ocQueue) : y \in Nat
  BY <1>1, RangeInNat
<1>4. \A y \in Range(ocQueue) : Head(ocQueue) <= y
  BY <1>2, <1>3
<1>5. OcSeqs' /\ OcOrder'
  BY <1>1, <1>2, <1>4 DEF OcInv, OcSeqs, OcOrder
<1>6. OcWork' /\ OcLock'
  BY <1>1, <1>2, <1>4 DEF OcInv, OcSeqs, OcOrder, OcWork, OcLock, ControlLocked
<1> QED
  BY <1>5, <1>6 DEF OcInv

LEMMA OcPostStep == ASSUME OcInv, PostOutputEvent PROVE OcInv'
PROOF
<1>1. Working /\ ~Popping /\ ~Working' /\ UNCHANGED <<ocFrames, ocOut, ocQueue>> /\ ~ControlLocked' /\ ocControl' # "popping"
  BY DEF PostOutputEvent, Working, Popping, ControlLocked
<1>2. OcLock'
  BY <1>1 DEF OcLock
<1>3. CASE ocPosted' = Append(ocPosted, ocData) /\ ocData' = ocData /\ ocControl' = "pop"
  <2>0. Popping'
    BY <1>3 DEF Popping
  <2>1. /\ ocPosted \in Seq(Nat) /\ ocOut \in Seq(Nat) /\ ocData \in Nat /\ Increasing(ocPosted) /\ Increasing(ocOut)
        /\ \A x \in Range(ocPosted) : x < ocData
    BY <1>1 DEF OcInv, OcSeqs, OcWork
  <2>2. ocPosted' \in Seq(Nat) /\ Range(ocPosted') = Range(ocPosted) \cup {ocData} /\ Increasing(ocPosted')
    BY <1>3, <2>1, AppendFacts
  <2>3. OcSeqs'
    BY <1>1, <2>2 DEF OcInv, OcSeqs
  <2>4. OcOrder'
    BY <1>1, <2>0, <2>2 DEF OcInv, OcOrder, OcWork
  <2>5. OcWork'
    <3>1. \A x \in Range(ocOut) \cup Range(ocPosted) : x \in Nat /\ x < ocData
      BY <1>1, RangeInNat DEF OcInv, OcWork, OcSeqs
    <3>2. \A x \in Range(ocOut') \cup Range(ocPosted') : x <= ocData'
      BY <1>1, <1>3, <2>1, <2>2, <3>1
    <3> QED
      BY <1>1, <1>3, <2>0, <2>1, <3>2 DEF OcInv, OcWork
  <2> QED
    BY <1>2, <2>3, <2>4, <2>5 DEF OcInv
<1>4. CASE UNCHANGED ocPosted /\ ocData' = 0 /\ ocControl' = "idle"
  <2>1. ~Popping'
    BY <1>4 DEF Popping
  <2> QED
    BY <1>1, <1>2, <1>4, <2>1 DEF OcInv, OcSeqs, OcOrder, OcWork
<1> QED
  BY <1>3, <1>4 DEF PostOutputEvent

\* A frame that is not the front of the queue is not in it.
LEMMA NotFront ==
  ASSUME OcInv, Popping
  PROVE  /\ ~IsFront => ocData \notin Range(ocQueue)
         /\ ocQueue # <<>> => /\ Tail(ocQueue) \in Seq(Nat) /\ Increasing(Tail(ocQueue))
                              /\ Range(ocQueue) = {Head(ocQueue)} \cup Range(Tail(ocQueue))
                              /\ \A y \in Range(Tail(ocQueue)) : ocData < y
PROOF
<1>1. /\ ocQueue \in Seq(Nat) /\ Increasing(ocQueue) /\ ocData \in Nat
      /\ \A y \in Range(ocQueue) : y \in Nat /\ ocData <= y
  BY RangeInNat DEF OcInv, OcSeqs, OcWork
<1>2. CASE ocQueue = <<>>
  BY <1>2, EmptyFacts
<1>3. CASE ocQueue # <<>>
  <2>1. /\ Head(ocQueue) \in Nat /\ Tail(ocQueue) \in Seq(Nat) /\ Increasing(Tail(ocQueue))
        /\ Range(ocQueue) = {Head(ocQueue)} \cup Range(Tail(ocQueue))
        /\ \A y \in Range(Tail(ocQueue)) : Head(ocQueue) < y
    BY <1>1, <1>3, TailFacts
  <2>2. ocData <= Head(ocQueue) /\ \A y \in Range(Tail(ocQueue)) : ocData < y
    BY <1>1, <2>1
  <2>3. ~IsFront => ocData # Head(ocQueue)
    BY <1>3 DEF IsFront
  <2> QED
    BY <1>1, <2>1, <2>2, <2>3
<1> QED
  BY <1>2, <1>3

LEMMA OcCompareStep == ASSUME OcInv, ComparesFront PROVE OcInv'
PROOF
<1>1. Popping /\ ~Working /\ ~Working' /\ UNCHANGED <<ocFrames, ocOut, ocPosted, ocQueue, ocPush>> /\ ~PushLocked
  BY DEF ComparesFront, ocControlOnly, Popping, Working, PushLocked
<1>2. ~PushLocked'
  BY <1>1 DEF PushLocked
<1>3. CASE IsFront /\ ocControl' = "popping" /\ ocData' = ocData
  <2>1. Popping'
    BY <1>3 DEF Popping
  <2> QED
    BY <1>1, <1>2, <1>3, <2>1 DEF OcInv, OcSeqs, OcOrder, OcWork, OcLock, IsFront
<1>4. CASE ~IsFront /\ ocControl' = "idle" /\ ocData' = 0
  <2>1. ~Popping'
    BY <1>4 DEF Popping
  <2>2. \A x \in Range(ocOut) \cup Range(ocPosted), y \in Range(ocQueue) : x < y
    <3>1. ocData \notin Range(ocQueue)
      BY <1>1, <1>4, NotFront
    <3>2. \A x \in Range(ocOut) \cup Range(ocPosted) \cup Range(ocQueue) : x \in Nat
      BY RangeInNat DEF OcInv, OcSeqs
    <3> QED
      BY <1>1, <3>1, <3>2 DEF OcInv, OcWork
  <2> QED
    BY <1>1, <1>2, <1>4, <2>1, <2>2 DEF OcInv, OcSeqs, OcOrder, OcWork, OcLock
<1> QED
  BY <1>3, <1>4 DEF ComparesFront

LEMMA OcPopStep == ASSUME OcInv, PopsFront PROVE OcInv'
PROOF
<1>1. /\ Popping /\ ~Working /\ ~Working' /\ ~Popping' /\ UNCHANGED <<ocFrames, ocOut, ocPosted>>
      /\ ocQueue # <<>> /\ ocQueue' = Tail(ocQueue) /\ ocData' = 0 /\ ocControl' = "idle"
  BY DEF PopsFront, ocControlOnly, Popping, Working
<1>2. /\ ocQueue' \in Seq(Nat) /\ Increasing(ocQueue') /\ Range(ocQueue') \subseteq Range(ocQueue)
      /\ \A y \in Range(ocQueue') : ocData < y
  BY <1>1, NotFront
<1>3. \A x \in Range(ocOut) \cup Range(ocPosted), y \in Range(ocQueue') : x < y
  <2>1. \A x \in Range(ocOut) \cup Range(ocPosted) \cup Range(ocQueue) : x \in Nat
    BY RangeInNat DEF OcInv, OcSeqs
  <2> QED
    BY <1>1, <1>2, <2>1 DEF OcInv, OcWork
<1>4. OcSeqs' /\ OcOrder'
  BY <1>1, <1>2, <1>3 DEF OcInv, OcSeqs, OcOrder
<1>5. OcWork' /\ OcLock'
  BY <1>1 DEF OcInv, OcSeqs, OcWork, OcLock, ControlLocked
<1> QED
  BY <1>4, <1>5 DEF OcInv

LEMMA OcNotifyStep == ASSUME OcInv, NotifyOutput PROVE OcInv'
PROOF
<1>1. /\ ocPosted # <<>> /\ ocPosted \in Seq(Nat) /\ Increasing(ocPosted)
      /\ ocOut \in Seq(Nat) /\ Increasing(ocOut) /\ ocPosted' = Tail(ocPosted)
      /\ ocOut' = (IF ocListener THEN Append(ocOut, Head(ocPosted)) ELSE ocOut)
      /\ UNCHANGED <<ocFrames, ocQueue, ocData, ocControl, ocPush>> /\ Working' = Working /\ Popping' = Popping
  BY DEF NotifyOutput, OcInv, OcSeqs, Working, Popping
<1>2. /\ Head(ocPosted) \in Nat /\ Tail(ocPosted) \in Seq(Nat) /\ Increasing(Tail(ocPosted))
      /\ Range(ocPosted) = {Head(ocPosted)} \cup Range(Tail(ocPosted))
      /\ \A y \in Range(Tail(ocPosted)) : Head(ocPosted) < y
  BY <1>1, TailFacts
<1>3. \A x \in Range(ocOut) : x < Head(ocPosted)
  BY <1>2 DEF OcInv, OcOrder
<1>4. /\ Append(ocOut, Head(ocPosted)) \in Seq(Nat) /\ Increasing(Append(ocOut, Head(ocPosted)))
      /\ Range(Append(ocOut, Head(ocPosted))) = Range(ocOut) \cup {Head(ocPosted)}
  BY <1>1, <1>2, <1>3, AppendFacts
<1>5. ocOut' \in Seq(Nat) /\ Increasing(ocOut') /\ Range(ocOut') \subseteq Range(ocOut) \cup {Head(ocPosted)}
  BY <1>1, <1>4
<1>6. OcSeqs'
  BY <1>1, <1>2, <1>5 DEF OcInv, OcSeqs
<1>7. OcOrder'
  BY <1>1, <1>2, <1>5 DEF OcInv, OcOrder
<1>8. OcWork'
  BY <1>1, <1>2, <1>5 DEF OcInv, OcWork
<1>9. OcLock'
  BY <1>1 DEF OcInv, OcLock, PushLocked, ControlLocked
<1> QED
  BY <1>6, <1>7, <1>8, <1>9 DEF OcInv

LEMMA OcJoinsStep == ASSUME OcInv, ReleaseJoins PROVE OcInv'
PROOF
<1>1. /\ ocQueue' = <<>> /\ ocPosted' = <<>> /\ UNCHANGED <<ocFrames, ocOut, ocData>>
      /\ ~Working /\ ~Popping /\ ~Working' /\ ~Popping' /\ ~ControlLocked' /\ ocControl' # "popping"
  BY DEF ReleaseJoins, Working, Popping, ControlLocked
<1> QED
  BY <1>1, EmptyFacts DEF OcInv, OcSeqs, OcOrder, OcWork, OcLock

LEMMA OcSplit ==
  [OcNext]_ocVars => \/ OcQuiet \/ ReleaseJoins \/ (\E s \in BOOLEAN : PushQueues(s)) \/ LooperTakes
                     \/ PostOutputEvent \/ ComparesFront \/ PopsFront \/ NotifyOutput
PROOF
  BY DEF OcNext, OcQuiet

LEMMA OcInvStep == OcInv /\ [OcNext]_ocVars => OcInv'
PROOF
<1> SUFFICES ASSUME OcInv, [OcNext]_ocVars PROVE OcInv'
  OBVIOUS
<1>1. CASE OcQuiet
  BY <1>1, OcQuietStep, OcQueueShrinks
<1> QED
  BY <1>1, OcSplit, OcJoinsStep, OcPushStep, OcTakesStep, OcPostStep, OcCompareStep, OcPopStep, OcNotifyStep

(* Frames reach the data callback in the order they were pushed and at     *)
(* most once: the control thread's frame lies between what it has posted   *)
(* and what PushData still has queued, whatever overflow, a change of the  *)
(* mode, the balance, Stop and Start did to the queue in the meantime.     *)
THEOREM OutputInOrder == OcSpec => []OcInOrder
PROOF
<1>1. OcInit => OcInv
  BY OcInvInit
<1>2. OcInv => OcInOrder
  BY DEF OcInv, OcSeqs, OcInOrder, Increasing
<1> QED
  BY <1>1, <1>2, OcInvStep, PTL DEF OcSpec

\* What the control thread is about to pop is on its way to the plugin, was handed on,
\* or has been dropped.
OcAccInv ==
  /\ OcInv /\ OcFramesAccounted
  /\ Popping => ocData \in Range(ocPosted) \cup Range(ocOut) \cup ocDropped

LEMMA OcAccountedStep == OcAccInv /\ [OcNext]_ocVars => OcAccInv'
PROOF
<1> SUFFICES ASSUME OcAccInv, [OcNext]_ocVars
             PROVE  /\ OcFramesAccounted'
                    /\ (Popping => ocData \in Range(ocPosted) \cup Range(ocOut) \cup ocDropped)'
  BY OcInvStep DEF OcAccInv
<1>0. /\ ocQueue \in Seq(Nat) /\ ocPosted \in Seq(Nat) /\ ocOut \in Seq(Nat) /\ ocFrames \in Nat /\ ocData \in Nat
      /\ OcInv /\ OcFramesAccounted
      /\ Popping => ocData \in Range(ocPosted) \cup Range(ocOut) \cup ocDropped
  BY DEF OcAccInv, OcInv, OcSeqs, OcWork
<1>1. CASE OcQuiet
  <2>1. /\ UNCHANGED <<ocFrames, ocPosted, ocOut, ocData>> /\ Popping' = Popping
    BY <1>0, <1>1, OcQuietStep
  <2>2. \/ ocQueue' = ocQueue /\ ocDropped' = ocDropped
        \/ /\ ocQueue' = <<>>
           /\ (Range(ocQueue) \ {ocData}) \cup ocDropped \subseteq ocDropped' \cup {ocData}
           /\ Popping => ocDropped \subseteq ocDropped'
    BY <1>1 DEF OcQuiet, OcPluginInit, OcPrepare, OcStart, StopStores, StopClears, ResetBegins, ReleaseNotifies,
       ReleaseStopsHandler, PushChecks, PushLocks, TouchesEmptied, LooperTests, LooperBlocks, LooperEnds, ControlOutput,
       RereadClock, SyncClock, CallsEmptyFunction, ocVars, ocFlow, ocOwner, ocControlOnly, Gone, Popping
  <2> QED
    BY <1>0, <2>1, <2>2, EmptyFacts DEF OcFramesAccounted
<1>2. CASE ReleaseJoins
  <2>1. Range(ocQueue \o ocPosted) = Range(ocQueue) \cup Range(ocPosted)
    BY <1>0, ConcatRange
  <2>2. ~Popping'
    BY <1>2 DEF ReleaseJoins, Popping
  <2> QED
    BY <1>0, <1>2, <2>1, <2>2, EmptyFacts DEF ReleaseJoins, Gone, OcFramesAccounted
<1>3. ASSUME NEW s \in BOOLEAN, PushQueues(s)
      PROVE  OcFramesAccounted' /\ (Popping => ocData \in Range(ocPosted) \cup Range(ocOut) \cup ocDropped)'
  <2>1. PICK kept \in Seq(Nat) :
           /\ Range(kept) \subseteq Range(ocQueue) /\ Increasing(kept)
           /\ ocQueue' = Append(kept, ocFrames + 1) /\ ocFrames' = ocFrames + 1
           /\ ocDropped' = ocDropped \cup (Range(ocQueue) \ Range(kept))
           /\ UNCHANGED <<ocData, ocPosted, ocOut>>
           /\ ocControl' = IF ocControl = "blocked" THEN "idle" ELSE ocControl
           /\ PushLocked /\ ~PushLocked'
    BY <1>0, <1>3, OcPushFacts
  <2>2. Range(ocQueue') = Range(kept) \cup {ocFrames + 1}
    BY <1>0, <2>1, AppendFacts
  <2>3. 1..ocFrames' = (1..ocFrames) \cup {ocFrames + 1}
    BY <1>0, <2>1
  <2>4. Popping' = Popping
    BY <2>1 DEF Popping
  <2> QED
    BY <1>0, <2>1, <2>2, <2>3, <2>4 DEF OcFramesAccounted
<1>4. CASE LooperTakes
  <2>1. ocData = 0 /\ ~Popping'
    BY <1>0, <1>4 DEF LooperTakes, OcInv, OcWork, Working, Popping
  <2> QED
    BY <1>0, <1>4, <2>1 DEF LooperTakes, ocControlOnly, OcFramesAccounted
<1>5. CASE PostOutputEvent
  <2>1. UNCHANGED <<ocFrames, ocOut, ocQueue>>
    BY <1>5 DEF PostOutputEvent
  <2>2. CASE ocPosted' = Append(ocPosted, ocData) /\ UNCHANGED <<ocData, ocDropped>>
    <3>1. Range(ocPosted') = Range(ocPosted) \cup {ocData}
      BY <1>0, <2>2, AppendFacts
    <3> QED
      BY <1>0, <2>1, <2>2, <3>1 DEF OcFramesAccounted
  <2>3. CASE /\ ocDropped' = IF Contains(ocQueue, ocData) THEN ocDropped ELSE ocDropped \cup {ocData}
             /\ UNCHANGED ocPosted /\ ocControl' = "idle"
    <3>1. (ocData \in Range(ocQueue) \/ ocData \in ocDropped') /\ ~Popping'
      BY <1>0, <2>3, ContainsIsRange DEF Popping
    <3>2. ocDropped \subseteq ocDropped'
      BY <2>3
    <3> QED
      BY <1>0, <2>1, <2>3, <3>1, <3>2 DEF OcFramesAccounted
  <2> QED
    BY <1>5, <2>2, <2>3 DEF PostOutputEvent
<1>6. CASE ComparesFront
  <2>1. Popping /\ UNCHANGED <<ocFrames, ocOut, ocQueue, ocPosted, ocDropped>> /\ (Popping' => ocData' = ocData)
    BY <1>6 DEF ComparesFront, ocControlOnly, Popping
  <2> QED
    BY <1>0, <2>1 DEF OcFramesAccounted
<1>7. CASE PopsFront
  <2>1. /\ Popping /\ ~Popping' /\ UNCHANGED <<ocFrames, ocOut, ocPosted, ocDropped>> /\ ocQueue # <<>>
        /\ ocQueue' = Tail(ocQueue) /\ Head(ocQueue) = ocData
    BY <1>0, <1>7 DEF PopsFront, ocControlOnly, Popping, OcInv, OcLock
  <2>2. Range(ocQueue) = {ocData} \cup Range(ocQueue')
    BY <1>0, <2>1, TailFacts
  <2> QED
    BY <1>0, <2>1, <2>2 DEF OcFramesAccounted
<1>8. CASE NotifyOutput
  <2>1. /\ ocPosted # <<>> /\ ocPosted' = Tail(ocPosted)
        /\ ocOut' = (IF ocListener THEN Append(ocOut, Head(ocPosted)) ELSE ocOut)
        /\ ocDropped' = (IF ocListener THEN ocDropped ELSE ocDropped \cup {Head(ocPosted)})
        /\ UNCHANGED <<ocFrames, ocQueue, ocData>> /\ Popping' = Popping
    BY <1>8 DEF NotifyOutput, Popping
  <2>2. Head(ocPosted) \in Nat /\ Range(ocPosted) = {Head(ocPosted)} \cup Range(ocPosted')
    BY <1>0, <2>1, TailFacts
  <2>3. Range(Append(ocOut, Head(ocPosted))) = Range(ocOut) \cup {Head(ocPosted)}
    BY <1>0, <2>2, AppendFacts
  <2>4. CASE ocListener
    BY <1>0, <2>1, <2>2, <2>3, <2>4 DEF OcFramesAccounted
  <2>5. CASE ~ocListener
    BY <1>0, <2>1, <2>2, <2>5 DEF OcFramesAccounted
  <2> QED
    BY <2>4, <2>5
<1> QED
  BY <1>1, <1>2, <1>3, <1>4, <1>5, <1>6, <1>7, <1>8, OcSplit

(* No frame is lost unnoticed: every frame PushData accepted is queued, in *)
(* the hands of the control thread, posted, handed to the callback, or was *)
(* dropped by one of the rules.                                            *)
THEOREM FramesAccounted == OcSpec => []OcFramesAccounted
PROOF
<1>1. OcInit => OcAccInv
  BY OcInvInit DEF OcAccInv, OcInit, Popping
<1>2. OcAccInv => OcFramesAccounted
  BY DEF OcAccInv
<1> QED
  BY <1>1, <1>2, OcAccountedStep, PTL DEF OcSpec

-----------------------------------------------------------------------------
(* OutputController implements LossyQueue.                                 *)

OnlyPosted == IF Popping THEN {ocData} ELSE {}
OnlyHeld == IF Working THEN {ocData} ELSE {}

LEMMA OnItsWayParts ==
  /\ OcOnItsWay = (Range(ocQueue) \ OnlyPosted) \cup Range(ocPosted) \cup OnlyHeld
  /\ OcOnItsWay' = (Range(ocQueue') \ OnlyPosted') \cup Range(ocPosted') \cup OnlyHeld'
PROOF
  BY DEF OcOnItsWay, OnlyPosted, OnlyHeld, Working, Popping

\* A step that puts no frame on its way and hands none on.
LEMMA OcLoses ==
  ASSUME UNCHANGED <<ocFrames, ocOut>>, OcOnItsWay' \subseteq OcOnItsWay
  PROVE  Fifo!Next
PROOF
  BY DEF Fifo!Lose, Fifo!Next

\* The frame that PushData queues is the newest; what it drops is lost.
LEMMA OcAccepts == ASSUME OcInv, NEW s \in BOOLEAN, PushQueues(s) PROVE Fifo!Next
PROOF
<1>1. PICK kept \in Seq(Nat) :
           /\ Range(kept) \subseteq Range(ocQueue) /\ Increasing(kept)
           /\ ocQueue' = Append(kept, ocFrames + 1) /\ ocFrames' = ocFrames + 1
           /\ ocDropped' = ocDropped \cup (Range(ocQueue) \ Range(kept))
           /\ UNCHANGED <<ocData, ocPosted, ocOut>>
           /\ ocControl' = IF ocControl = "blocked" THEN "idle" ELSE ocControl
           /\ PushLocked /\ ~PushLocked'
  BY OcPushFacts
<1>2. ocFrames \in Nat /\ ocData \in Nat /\ ocData <= ocFrames
  BY DEF OcInv, OcSeqs, OcWork
<1>3. Range(ocQueue') = Range(kept) \cup {ocFrames + 1}
  BY <1>1, <1>2, AppendFacts
<1>4. OnlyPosted' = OnlyPosted /\ OnlyHeld' = OnlyHeld /\ OnlyPosted \subseteq {ocData}
  BY <1>1 DEF OnlyPosted, OnlyHeld, Working, Popping
<1>5. OcOnItsWay' = (Range(ocQueue') \ OnlyPosted') \cup Range(ocPosted') \cup OnlyHeld'
  BY OnItsWayParts
<1>6. OcOnItsWay' \subseteq OcOnItsWay \cup {ocFrames + 1} /\ ocFrames + 1 \in OcOnItsWay'
  BY <1>1, <1>2, <1>3, <1>4, <1>5, OnItsWayParts
<1>7. Fifo!Accept
  BY <1>1, <1>6 DEF Fifo!Accept
<1> QED
  BY <1>7 DEF Fifo!Next

\* The handler thread hands on the oldest frame of all that are on their way.
LEMMA OcHandsOn == ASSUME OcInv, NotifyOutput PROVE Fifo!Next
PROOF
<1>1. /\ ocPosted # <<>> /\ ocPosted \in Seq(Nat) /\ Increasing(ocPosted)
      /\ ocPosted' = Tail(ocPosted) /\ UNCHANGED <<ocFrames, ocQueue, ocData, ocControl>>
  BY DEF NotifyOutput, OcInv, OcSeqs
<1>2. PICK f \in Nat : f = Head(ocPosted)
  BY <1>1, TailFacts
<1>3. /\ Range(ocPosted) = {f} \cup Range(ocPosted')
      /\ \A y \in Range(ocPosted') : f < y
  BY <1>1, <1>2, TailFacts
<1>4. OnlyPosted' = OnlyPosted /\ OnlyHeld' = OnlyHeld
  BY <1>1 DEF OnlyPosted, OnlyHeld, Working, Popping
<1>5. OcOnItsWay' = (Range(ocQueue) \ OnlyPosted) \cup Range(ocPosted') \cup OnlyHeld
  <2>1. OcOnItsWay' = (Range(ocQueue') \ OnlyPosted') \cup Range(ocPosted') \cup OnlyHeld'
    BY OnItsWayParts
  <2> QED
    BY <1>1, <1>4, <2>1
<1>6. \A y \in (Range(ocQueue) \ OnlyPosted) \cup OnlyHeld : y \in Nat /\ f < y
  <2>1. ASSUME NEW y \in Range(ocQueue) \ OnlyPosted PROVE y \in Nat /\ f < y
    <3>1. y \in Nat /\ ocData \in Nat
      BY <2>1, RangeInNat DEF OcInv, OcSeqs, OcWork
    <3>2. CASE Popping
      <4>1. ocData <= y /\ y # ocData /\ f <= ocData
        BY <1>3, <2>1, <3>2 DEF OnlyPosted, OcInv, OcWork
      <4> QED
        BY <3>1, <4>1
    <3>3. CASE ~Popping
      BY <1>3, <2>1, <3>1, <3>3 DEF OcInv, OcOrder
    <3> QED
      BY <3>2, <3>3
  <2>2. ASSUME NEW y \in OnlyHeld PROVE y \in Nat /\ f < y
    BY <1>3, <2>2 DEF OnlyHeld, OcInv, OcWork
  <2> QED
    BY <2>1, <2>2
<1>7. CASE ocListener
  <2>1. ocOut' = Append(ocOut, f)
    BY <1>2, <1>7 DEF NotifyOutput
  <2>2. f \in OcOnItsWay /\ \A g \in OcOnItsWay : f <= g
    <3>1. \A y \in Range(ocPosted') : y \in Nat
      BY <1>1, <1>3, RangeInNat
    <3> QED
      BY <1>3, <1>6, <3>1, OnItsWayParts
  <2>3. OcOnItsWay' = OcOnItsWay \ {f}
    BY <1>3, <1>5, <1>6, OnItsWayParts
  <2>4. Fifo!HandOn(f)
    BY <1>1, <2>1, <2>2, <2>3 DEF Fifo!HandOn
  <2> QED
    BY <2>2, <2>4 DEF Fifo!Next
<1>8. CASE ~ocListener
  <2>1. ocOut' = ocOut /\ OcOnItsWay' \subseteq OcOnItsWay
    BY <1>3, <1>5, <1>8, OnItsWayParts DEF NotifyOutput
  <2> QED
    BY <1>1, <2>1, OcLoses
<1> QED
  BY <1>7, <1>8

LEMMA OcFifoStep == OcInv /\ [OcNext]_ocVars => [Fifo!Next]_(Fifo!queueVars)
PROOF
<1> SUFFICES ASSUME OcInv, [OcNext]_ocVars PROVE Fifo!Next
  OBVIOUS
<1>0. ocQueue \in Seq(Nat) /\ ocPosted \in Seq(Nat) /\ Range(<<>>) = {} /\ ocData \in Nat
  BY EmptyFacts DEF OcInv, OcSeqs, OcWork
<1>9. OcOnItsWay' = (Range(ocQueue') \ OnlyPosted') \cup Range(ocPosted') \cup OnlyHeld'
  BY OnItsWayParts
<1>1. CASE OcQuiet
  <2>1. UNCHANGED <<ocFrames, ocPosted, ocOut, ocData>> /\ ocQueue' \in {ocQueue, <<>>} /\ Working' = Working /\ Popping' = Popping
    BY <1>1, OcQuietStep
  <2>2. OnlyPosted' = OnlyPosted /\ OnlyHeld' = OnlyHeld
    BY <2>1 DEF OnlyPosted, OnlyHeld
  <2>3. OcOnItsWay' \subseteq OcOnItsWay
    BY <1>0, <1>9, <2>1, <2>2, OnItsWayParts
  <2> QED
    BY <2>1, <2>3, OcLoses
<1>2. CASE ReleaseJoins
  <2>1. /\ ocQueue' = <<>> /\ ocPosted' = <<>> /\ UNCHANGED <<ocFrames, ocOut>> /\ OnlyHeld' = {}
    BY <1>2 DEF ReleaseJoins, OnlyHeld, Working
  <2>2. OcOnItsWay' \subseteq OcOnItsWay
    BY <1>0, <1>9, <2>1
  <2> QED
    BY <2>1, <2>2, OcLoses
<1>3. CASE LooperTakes
  <2>1. /\ Head(ocQueue) \in Range(ocQueue) /\ ocData' = Head(ocQueue)
        /\ UNCHANGED <<ocFrames, ocOut, ocQueue, ocPosted>>
    BY <1>0, <1>3, TailFacts DEF LooperTakes, ocControlOnly
  <2>2. OnlyPosted = {} /\ OnlyPosted' = {} /\ OnlyHeld' \subseteq {ocData'}
    BY <1>3 DEF LooperTakes, OnlyPosted, OnlyHeld, Working, Popping
  <2>3. OcOnItsWay' \subseteq OcOnItsWay
    BY <1>9, <2>1, <2>2, OnItsWayParts
  <2> QED
    BY <2>1, <2>3, OcLoses
<1>4. CASE PostOutputEvent
  <2>1. UNCHANGED <<ocFrames, ocOut, ocQueue>> /\ OnlyHeld = {ocData} /\ OnlyHeld' = {} /\ OnlyPosted = {}
    BY <1>4 DEF PostOutputEvent, OnlyHeld, OnlyPosted, Working, Popping
  <2>2. Range(ocPosted') \subseteq Range(ocPosted) \cup {ocData}
    BY <1>0, <1>4, AppendFacts DEF PostOutputEvent
  <2>3. OcOnItsWay' \subseteq OcOnItsWay
    BY <1>9, <2>1, <2>2, OnItsWayParts
  <2> QED
    BY <2>1, <2>3, OcLoses
<1>5. CASE ComparesFront
  <2>1. UNCHANGED <<ocFrames, ocOut, ocQueue, ocPosted>> /\ OnlyHeld' = {} /\ Popping
    BY <1>5 DEF ComparesFront, ocControlOnly, OnlyHeld, Working, Popping
  <2>2. Range(ocQueue) \ OnlyPosted' \subseteq Range(ocQueue) \ OnlyPosted
    BY <1>5, <2>1, NotFront DEF ComparesFront, OnlyPosted, Popping
  <2>3. OcOnItsWay' \subseteq OcOnItsWay
    BY <1>9, <2>1, <2>2, OnItsWayParts
  <2> QED
    BY <2>1, <2>3, OcLoses
<1>6. CASE PopsFront
  <2>1. /\ UNCHANGED <<ocFrames, ocOut, ocPosted>> /\ OnlyHeld' = {} /\ OnlyPosted' = {} /\ Popping
        /\ ocQueue # <<>> /\ ocQueue' = Tail(ocQueue) /\ OnlyPosted = {ocData}
    BY <1>6 DEF PopsFront, ocControlOnly, OnlyHeld, OnlyPosted, Working, Popping
  <2>2. Range(ocQueue') \subseteq Range(ocQueue) /\ \A y \in Range(ocQueue') : ocData < y
    BY <2>1, NotFront
  <2>3. ocData \notin Range(ocQueue')
    BY <1>0, <2>2
  <2>4. OcOnItsWay' \subseteq OcOnItsWay
    BY <1>9, <2>1, <2>2, <2>3, OnItsWayParts
  <2> QED
    BY <2>1, <2>4, OcLoses
<1> QED
  BY <1>1, <1>2, <1>3, <1>4, <1>5, <1>6, OcSplit, OcAccepts, OcHandsOn

\* To the two sides of the plugin OutputController is a queue that may lose frames: it
\* hands on only the oldest frame that is on its way, each once, whatever the threads
\* do to the queue while the control thread works on its front.
THEOREM OutputIsLossyQueue == OcSpec => OcIsLossyQueue
PROOF
<1>1. OcInit => OcInv
  BY OcInvInit
<1>2. OcInit => Fifo!Init
  BY EmptyFacts DEF OcInit, Fifo!Init, OcOnItsWay
<1> QED
  BY <1>1, <1>2, OcInvStep, OcFifoStep, PTL DEF OcSpec, OcIsLossyQueue, Fifo!Spec

-----------------------------------------------------------------------------
(* AVTransControlCenter                                                    *)

One(S, s, d) == IF <<s, d>> \in S THEN 1 ELSE 0
Channels(d) == One(cenSockets, "sender", d) + One(cenSockets, "receiver", d)
Arriving(d) == One(cenEvents, "sender", d) + One(cenEvents, "receiver", d)
Closing(d) == IF cenClosing = d THEN 1 ELSE 0

CenTypes ==
  /\ cenRoot \in Nat /\ cenBumping \in Nat
  /\ cenId \in [CenEngines -> Nat] /\ cenDev \in [CenIds -> CenPeers \cup {"none"}]
  /\ cenPeer \in [CenEngines -> CenPeers \cup {"none"}]
  /\ cenConnected \in [CenPeers -> Nat] /\ cenClosing \in CenPeers \cup {"none"}
  /\ cenRoot >= 1 /\ \A e \in CenEngines : cenId[e] = 0 \/ cenId[e] \in CenIds

\* Who holds an id: an engine not marked as sharing holds it alone, and an id that is mapped is held.
CenHeld ==
  /\ \A e, f \in CenEngines : cenId[e] # 0 /\ cenId[e] = cenId[f] /\ e # f => e \in cenShared
  /\ \A i \in CenIds : cenDev[i] # "none" => \E e \in CenEngines : cenId[e] = i
  /\ \A e \in CenEngines : cenPeer[e] # "none" => cenId[e] # 0

\* What an engine was told, as far as the table of ids goes.
CenMapped ==
  \A e \in CenEngines \ cenShared :
     /\ cenId[e] # 0 => cenDev[cenId[e]] = cenPeer[e]
     /\ cenPeer[e] # "none" => cenClosing # cenPeer[e]

\* Every entry of connectedDevIds_, every opened event under way and a close that is about to happen
\* stands for a channel of its own, unless the peer closed one.
CenBacked ==
  \A d \in CenPeers \ cenLeft : cenConnected[d] + Arriving(d) + Closing(d) <= Channels(d)

CenOpen ==
  \A e \in CenEngines \ cenShared : cenPeer[e] # "none" => cenPeer[e] \in cenLeft \/ Channels(cenPeer[e]) > 0

CenInv == CenTypes /\ CenHeld /\ CenMapped /\ CenBacked /\ CenOpen

Table == <<cenId, cenDev, cenPeer, cenShared>>
Roads == <<cenConnected, cenEvents, cenSockets, cenClosing, cenLeft>>

\* A step that leaves the ids and the peers.
LEMMA TableKept ==
  ASSUME CenHeld, CenMapped, UNCHANGED Table, cenClosing' \in {cenClosing, "none"}
  PROVE  CenHeld' /\ CenMapped'
PROOF
  BY DEF CenHeld, CenMapped, Table

LEMMA RoadsKept == ASSUME CenBacked, UNCHANGED Roads PROVE CenBacked'
PROOF
  BY DEF CenBacked, Roads, Arriving, Channels, Closing, One

LEMMA OneIsFew == \A S, s, d : One(S, s, d) \in 0..1
PROOF
  BY DEF One

LEMMA CenInitStep == ASSUME CenInv, NEW e \in CenEngines, InitializeLoads(e) PROVE CenInv'
PROOF
<1>0. /\ CenTypes /\ CenHeld /\ CenMapped /\ CenOpen /\ cenPeer[e] = "none" /\ cenRoot \in CenIds /\ cenRoot # 0
      /\ UNCHANGED <<cenRoot, cenDev, cenPeer>> /\ cenId' = [cenId EXCEPT ![e] = cenRoot] /\ cenId[e] = 0
      /\ UNCHANGED Roads
  BY CenBounds DEF CenInv, CenTypes, CenHeld, InitializeLoads, CenIds, Roads
<1>1. PICK same : /\ same = {f \in CenEngines : cenId[f] = cenRoot}
                  /\ cenShared' = IF same = {} THEN cenShared ELSE cenShared \cup same \cup {e}
  BY DEF InitializeLoads
<1>2. CenTypes'
  BY <1>0 DEF CenTypes, InitializeLoads, Roads
<1>3. \A f \in CenEngines : cenId'[f] = IF f = e THEN cenRoot ELSE cenId[f]
  BY <1>0 DEF CenTypes
<1>4. CenHeld'
  <2>1. \A f \in CenEngines : f # e /\ cenId[f] = cenRoot => f \in cenShared' /\ e \in cenShared'
    BY <1>1
  <2>2. cenShared \subseteq cenShared'
    BY <1>1
  <2>3. \A f, g \in CenEngines : cenId'[f] # 0 /\ cenId'[f] = cenId'[g] /\ f # g => f \in cenShared'
    BY <1>0, <1>3, <2>1, <2>2 DEF CenHeld
  <2>4. \A i \in CenIds : cenDev'[i] # "none" => \E f \in CenEngines : cenId'[f] = i
    <3> SUFFICES ASSUME NEW i \in CenIds, cenDev[i] # "none" PROVE \E f \in CenEngines : cenId'[f] = i
      BY <1>0
    <3>1. PICK f \in CenEngines : cenId[f] = i
      BY <1>0 DEF CenHeld
    <3>2. i # 0
      BY CenBounds DEF CenIds
    <3> QED
      BY <1>0, <1>3, <3>1, <3>2
  <2>5. \A f \in CenEngines : cenPeer'[f] # "none" => cenId'[f] # 0
    BY <1>0, <1>3 DEF CenHeld
  <2> QED
    BY <2>3, <2>4, <2>5 DEF CenHeld
<1>5. CenMapped'
  <2> SUFFICES ASSUME NEW f \in CenEngines \ cenShared'
               PROVE  /\ cenId'[f] # 0 => cenDev'[cenId'[f]] = cenPeer'[f]
                      /\ cenPeer'[f] # "none" => cenClosing' # cenPeer'[f]
    BY DEF CenMapped
  <2>1. CASE f = e
    <3>1. cenDev[cenRoot] = "none"
      BY <1>0, <1>1, <2>1 DEF CenHeld
    <3> QED
      BY <1>0, <1>3, <2>1, <3>1
  <2>2. CASE f # e
    <3>1. f \in CenEngines \ cenShared
      BY <1>1
    <3> QED
      BY <1>0, <1>3, <2>2, <3>1 DEF CenMapped, Roads
  <2> QED
    BY <2>1, <2>2
<1>6. CenOpen'
  BY <1>0, <1>1 DEF CenOpen, Roads, Channels, One
<1>7. CenBacked'
  BY <1>0, RoadsKept DEF CenInv
<1> QED
  BY <1>2, <1>4, <1>5, <1>6, <1>7 DEF CenInv

LEMMA CenCreateStep ==
  ASSUME CenInv, NEW e \in CenEngines, NEW d \in CenPeers, CenCreateControlChannel(e, d)
  PROVE  CenInv'
PROOF
<1>0. /\ CenTypes /\ CenHeld /\ CenMapped /\ CenBacked /\ CenOpen /\ cenId[e] \in CenIds /\ cenClosing = "none"
      /\ UNCHANGED <<cenRoot, cenId, cenBumping, cenConnected, cenClosing, cenShared, cenLeft>>
      /\ d # "none"
  BY CenBounds DEF CenInv, CenTypes, CenCreateControlChannel
<1>1. \/ UNCHANGED <<cenDev, cenPeer>>
      \/ cenDev' = Insert(cenId[e], d) /\ cenPeer' = FirstPeer(e, d)
  BY DEF CenCreateControlChannel
<1>2. CenTypes'
  BY <1>0, <1>1 DEF CenTypes, Insert, FirstPeer
<1>3. CenHeld'
  <2>1. ASSUME cenDev' = Insert(cenId[e], d), cenPeer' = FirstPeer(e, d)
        PROVE  /\ \A i \in CenIds : cenDev'[i] # "none" => \E f \in CenEngines : cenId[f] = i
               /\ \A f \in CenEngines : cenPeer'[f] # "none" => cenId[f] # 0
    <3>1. \A i \in CenIds : cenDev'[i] # "none" => cenDev[i] # "none" \/ i = cenId[e]
      BY <1>0, <2>1 DEF CenTypes, Insert
    <3>2. \A f \in CenEngines : cenPeer'[f] # "none" => cenPeer[f] # "none" \/ f = e
      BY <1>0, <2>1 DEF CenTypes, FirstPeer
    <3> QED
      BY <1>0, <3>1, <3>2, CenBounds DEF CenHeld, CenIds
  <2> QED
    BY <1>0, <1>1, <2>1 DEF CenHeld
<1>4. CenMapped'
  <2> SUFFICES ASSUME NEW f \in CenEngines \ cenShared
               PROVE  /\ cenId[f] # 0 => cenDev'[cenId[f]] = cenPeer'[f]
                      /\ cenPeer'[f] # "none" => "none" # cenPeer'[f]
    BY <1>0 DEF CenMapped
  <2>1. CASE UNCHANGED <<cenDev, cenPeer>>
    BY <1>0, <2>1 DEF CenMapped
  <2>2. CASE cenDev' = Insert(cenId[e], d) /\ cenPeer' = FirstPeer(e, d)
    <3>1. CASE f = e
      <4>1. cenDev[cenId[e]] = cenPeer[e]
        BY <1>0, <3>1, CenBounds DEF CenMapped, CenIds
      <4> QED
        BY <1>0, <2>2, <3>1, <4>1 DEF Insert, FirstPeer, CenTypes
    <3>2. CASE f # e
      <4>1. cenId[f] # 0 => cenId[f] # cenId[e]
        BY <1>0, <3>2 DEF CenHeld
      <4>2. cenPeer'[f] = cenPeer[f]
        BY <1>0, <2>2, <3>2 DEF FirstPeer, CenTypes
      <4>3. cenId[f] # 0 => cenDev'[cenId[f]] = cenDev[cenId[f]]
        BY <1>0, <2>2, <4>1 DEF Insert, CenTypes
      <4> QED
        BY <1>0, <4>2, <4>3 DEF CenMapped
    <3> QED
      BY <3>1, <3>2
  <2> QED
    BY <1>1, <2>1, <2>2
<1>5. \/ UNCHANGED <<cenSockets, cenEvents>> /\ (cenPeer' = cenPeer \/ cenConnected[d] > 0)
      \/ /\ cenSockets' = cenSockets \cup {<<"sender", d>>}
         /\ cenEvents' = IF <<"sender", d>> \in cenSockets THEN cenEvents ELSE cenEvents \cup {<<"sender", d>>}
  BY DEF CenCreateControlChannel
<1>6. CenBacked'
  <2> SUFFICES ASSUME NEW g \in CenPeers \ cenLeft
               PROVE  cenConnected[g] + Arriving(g)' + Closing(g)' <= Channels(g)'
    BY <1>0 DEF CenBacked
  <2>1. cenConnected[g] \in Nat /\ cenConnected[g] + Arriving(g) + Closing(g) <= Channels(g) /\ Closing(g)' = Closing(g)
    BY <1>0 DEF CenBacked, CenTypes, Closing
  <2>2. CASE UNCHANGED <<cenSockets, cenEvents>>
    BY <2>1, <2>2 DEF Arriving, Channels, One
  <2>3. CASE /\ cenSockets' = cenSockets \cup {<<"sender", d>>}
             /\ cenEvents' = IF <<"sender", d>> \in cenSockets THEN cenEvents ELSE cenEvents \cup {<<"sender", d>>}
    BY <1>0, <2>1, <2>3 DEF Arriving, Channels, One, Closing
  <2> QED
    BY <1>5, <2>2, <2>3
<1>7. CenOpen'
  <2> SUFFICES ASSUME NEW f \in CenEngines \ cenShared, NEW p, p = cenPeer'[f], p # "none", p \notin cenLeft
               PROVE  Channels(p)' > 0
    BY <1>0 DEF CenOpen, Channels, One
  <2>1. Channels(p)' >= Channels(p) /\ Channels(p) \in Nat /\ Channels(p)' \in Nat
    BY <1>5 DEF Channels, One
  <2>2. CASE p = cenPeer[f]
    <3>1. Channels(p) > 0
      BY <1>0, <2>2 DEF CenOpen
    <3> QED
      BY <2>1, <3>1
  <2>3. CASE p # cenPeer[f]
    <3>1. f = e /\ p = d /\ cenPeer' # cenPeer
      BY <1>0, <1>1, <2>3 DEF FirstPeer, CenTypes
    <3>2. CASE cenConnected[d] > 0
      <4>1. cenConnected[d] + Arriving(d) + Closing(d) <= Channels(d)
        BY <1>0, <3>1 DEF CenBacked
      <4> QED
        BY <1>0, <2>1, <3>1, <3>2, <4>1 DEF CenTypes, Arriving, Closing, Channels, One
    <3>3. CASE cenSockets' = cenSockets \cup {<<"sender", d>>}
      BY <3>1, <3>3 DEF Channels, One
    <3> QED
      BY <1>5, <2>3, <3>2, <3>3
  <2> QED
    BY <2>2, <2>3
<1> QED
  BY <1>2, <1>3, <1>4, <1>6, <1>7 DEF CenInv

LEMMA CenReleaseStep == ASSUME CenInv, NEW e \in CenEngines, ReleaseAVCenter(e) PROVE CenInv'
PROOF
<1>1. PICK d, dev :
        /\ d = cenDev[cenId[e]] /\ dev = [cenDev EXCEPT ![cenId[e]] = "none"] /\ cenDev' = dev
        /\ \/ cenConnected' = cenConnected /\ cenClosing' = "none"
           \/ /\ d # "none" /\ ~StillUsed(dev, d) /\ cenConnected[d] > 0
              /\ cenConnected' = [cenConnected EXCEPT ![d] = @ - 1] /\ cenClosing' = d
  <2> DEFINE d == cenDev[cenId[e]]
             dev == [cenDev EXCEPT ![cenId[e]] = "none"]
             closes == d # "none" /\ ~StillUsed(dev, d) /\ cenConnected[d] > 0
  <2>1. /\ cenDev' = dev
        /\ cenConnected' = (IF closes THEN [cenConnected EXCEPT ![d] = @ - 1] ELSE cenConnected)
        /\ cenClosing' = (IF closes THEN d ELSE "none")
    BY DEF ReleaseAVCenter
  <2>2. CASE closes
    BY <2>1, <2>2
  <2>3. CASE ~closes
    BY <2>1, <2>3
  <2> QED
    BY <2>2, <2>3
<1>0. /\ CenTypes /\ CenHeld /\ CenMapped /\ CenBacked /\ CenOpen /\ cenId[e] \in CenIds /\ cenClosing = "none"
      /\ UNCHANGED <<cenRoot, cenBumping, cenEvents, cenSockets, cenLeft>> /\ d \in CenPeers \cup {"none"}
      /\ cenId' = [cenId EXCEPT ![e] = 0] /\ cenPeer' = [cenPeer EXCEPT ![e] = "none"] /\ cenShared' = cenShared \ {e}
  BY <1>1 DEF CenInv, CenTypes, ReleaseAVCenter
<1>2. CenTypes'
  BY <1>0, <1>1 DEF CenTypes
<1>3. \A f \in CenEngines : /\ cenId'[f] = IF f = e THEN 0 ELSE cenId[f]
                            /\ cenPeer'[f] = IF f = e THEN "none" ELSE cenPeer[f]
  BY <1>0 DEF CenTypes
<1>4. \A i \in CenIds : cenDev'[i] = IF i = cenId[e] THEN "none" ELSE cenDev[i]
  BY <1>0, <1>1 DEF CenTypes
<1>5. CenHeld'
  BY <1>0, <1>3, <1>4 DEF CenHeld
<1>6. CenMapped'
  <2> SUFFICES ASSUME NEW f \in CenEngines \ cenShared, f # e, cenId[f] # 0
               PROVE  /\ cenDev'[cenId[f]] = cenPeer[f]
                      /\ cenPeer[f] # "none" => cenClosing' # cenPeer[f]
    <3>1. \A f \in CenEngines : cenId'[f] = 0 => cenPeer'[f] = "none"
      BY <1>0, <1>3 DEF CenHeld
    <3> QED
      BY <1>0, <1>3, <3>1 DEF CenMapped
  <2>1. cenId[f] # cenId[e] /\ cenId[f] \in CenIds
    BY <1>0 DEF CenHeld, CenTypes
  <2>2. cenDev'[cenId[f]] = cenPeer[f]
    BY <1>0, <1>4, <2>1 DEF CenMapped
  <2>3. ASSUME cenPeer[f] # "none" PROVE cenClosing' # cenPeer[f]
    BY <1>1, <2>1, <2>2, <2>3 DEF StillUsed
  <2> QED
    BY <2>2, <2>3
<1>7. CenBacked'
  <2> SUFFICES ASSUME NEW g \in CenPeers \ cenLeft
               PROVE  cenConnected'[g] + Arriving(g)' + Closing(g)' <= Channels(g)'
    BY <1>0 DEF CenBacked
  <2>1. /\ cenConnected[g] \in Nat /\ cenConnected[g] + Arriving(g) + Closing(g) <= Channels(g)
        /\ Arriving(g)' = Arriving(g) /\ Channels(g)' = Channels(g) /\ Arriving(g) \in Nat /\ Channels(g) \in Nat
        /\ Closing(g) = 0 /\ g # "none"
    BY <1>0, CenBounds DEF CenBacked, CenTypes, Closing, Arriving, Channels, One
  <2>2. CASE cenConnected' = cenConnected /\ cenClosing' = "none"
    BY <2>1, <2>2 DEF Closing
  <2>3. CASE d # "none" /\ cenConnected[d] > 0 /\ cenConnected' = [cenConnected EXCEPT ![d] = @ - 1] /\ cenClosing' = d
    <3>1. cenConnected'[g] = IF g = d THEN cenConnected[g] - 1 ELSE cenConnected[g]
      BY <1>0, <2>3 DEF CenTypes
    <3> QED
      BY <2>1, <2>3, <3>1 DEF Closing
  <2> QED
    BY <1>1, <2>2, <2>3
<1>8. CenOpen'
  BY <1>0, <1>3 DEF CenOpen, Channels, One
<1> QED
  BY <1>2, <1>5, <1>6, <1>7, <1>8 DEF CenInv

LEMMA CenCloseStep == ASSUME CenInv, ReleaseCloses PROVE CenInv'
PROOF
<1>0. /\ CenTypes /\ CenHeld /\ CenMapped /\ CenBacked /\ CenOpen /\ UNCHANGED Table
      /\ cenSockets' = cenSockets \ {<<cenSession, cenClosing>>} /\ cenClosing' = "none" /\ cenClosing # "none"
      /\ UNCHANGED <<cenRoot, cenBumping, cenConnected, cenEvents, cenLeft>>
  BY DEF CenInv, ReleaseCloses, Table, cenHistory
<1>1. CenTypes' /\ CenHeld' /\ CenMapped'
  BY <1>0, TableKept DEF CenTypes, Table
<1>2. \A g \in CenPeers : /\ Channels(g) \in Nat /\ Channels(g)' \in Nat
                          /\ g # cenClosing => Channels(g)' = Channels(g)
                          /\ Channels(g)' >= Channels(g) - 1
  BY <1>0 DEF Channels, One
<1>3. CenBacked'
  <2> SUFFICES ASSUME NEW g \in CenPeers \ cenLeft
               PROVE  cenConnected[g] + Arriving(g)' + Closing(g)' <= Channels(g)'
    BY <1>0 DEF CenBacked
  <2>1. /\ cenConnected[g] \in Nat /\ cenConnected[g] + Arriving(g) + Closing(g) <= Channels(g)
        /\ Arriving(g)' = Arriving(g) /\ Arriving(g) \in Nat /\ Closing(g)' = 0
    BY <1>0, CenBounds DEF CenBacked, CenTypes, Closing, Arriving, One
  <2>2. Closing(g) = IF g = cenClosing THEN 1 ELSE 0
    BY DEF Closing
  <2> QED
    BY <1>2, <2>1, <2>2
<1>4. CenOpen'
  <2> SUFFICES ASSUME NEW f \in CenEngines \ cenShared, NEW p, p = cenPeer[f], p # "none", p \notin cenLeft
               PROVE  Channels(p)' > 0
    BY <1>0 DEF CenOpen, Table, Channels, One
  <2>1. p # cenClosing /\ p \in CenPeers
    BY <1>0 DEF CenMapped, CenTypes
  <2> QED
    BY <1>0, <1>2, <2>1 DEF CenOpen
<1> QED
  BY <1>1, <1>3, <1>4 DEF CenInv

\* Events and the peers' own steps.
LEMMA CenRoadStep ==
  ASSUME CenInv, NEW s \in CenSessions, NEW d \in CenPeers, HandleChannelEvent(s, d) \/ PeerCloses(s, d) \/ PeerOpens(d)
  PROVE  CenInv'
PROOF
<1>0. /\ CenTypes /\ CenHeld /\ CenMapped /\ CenBacked /\ CenOpen /\ UNCHANGED Table
      /\ UNCHANGED <<cenRoot, cenBumping, cenClosing>>
  BY DEF CenInv, HandleChannelEvent, PeerCloses, PeerOpens, Table, cenHistory
<1>1. CenHeld' /\ CenMapped'
  BY <1>0, TableKept
<1>2. CenTypes'
  BY <1>0 DEF CenTypes, Table, HandleChannelEvent, PeerCloses, PeerOpens
<1>3. CenBacked'
  <2> SUFFICES ASSUME NEW g \in CenPeers \ cenLeft'
               PROVE  cenConnected'[g] + Arriving(g)' + Closing(g)' <= Channels(g)'
    BY DEF CenBacked
  <2>0. g \in CenPeers \ cenLeft
    BY DEF HandleChannelEvent, PeerCloses, PeerOpens, cenHistory
  <2>1. /\ cenConnected[g] \in Nat /\ cenConnected[g] + Arriving(g) + Closing(g) <= Channels(g)
        /\ Closing(g)' = Closing(g) /\ Closing(g) \in Nat
    BY <1>0, <2>0 DEF CenBacked, CenTypes, Closing
  <2>2. CASE HandleChannelEvent(s, d)
    <3>1. Channels(g)' = Channels(g)
      BY <2>2 DEF HandleChannelEvent, Channels, One
    <3>2. cenConnected' = cenConnected \/ cenConnected' = [cenConnected EXCEPT ![d] = @ + 1]
      BY <2>2 DEF HandleChannelEvent
    <3>3. cenConnected'[g] = cenConnected[g] \/ (g = d /\ cenConnected'[g] = cenConnected[g] + 1)
      BY <1>0, <3>2 DEF CenTypes
    <3>4. cenEvents' = cenEvents \ {<<s, d>>} /\ <<s, d>> \in cenEvents /\ s \in {"sender", "receiver"}
      BY <2>2 DEF HandleChannelEvent, CenSessions
    <3>5. Arriving(g) \in Nat /\ Arriving(g)' \in Nat /\ Arriving(g)' <= Arriving(g)
          /\ (g = d => Arriving(g)' + 1 = Arriving(g))
      BY <3>4 DEF Arriving, One
    <3>6. Channels(g) \in Nat
      BY DEF Channels, One
    <3> QED
      BY <2>1, <3>1, <3>3, <3>5, <3>6
  <2>3. CASE PeerCloses(s, d)
    <3>1. g # d
      BY <2>3 DEF PeerCloses
    <3> QED
      BY <2>1, <2>3, <3>1 DEF PeerCloses, Arriving, Channels, One
  <2>4. CASE PeerOpens(d)
    BY <2>1, <2>4 DEF PeerOpens, Arriving, Channels, One
  <2> QED
    BY <2>2, <2>3, <2>4
<1>4. CenOpen'
  <2> SUFFICES ASSUME NEW f \in CenEngines \ cenShared, NEW p, p = cenPeer[f], p # "none", p \notin cenLeft'
               PROVE  Channels(p)' > 0
    BY <1>0 DEF CenOpen, Table, Channels, One
  <2>1. cenLeft \subseteq cenLeft'
    BY DEF HandleChannelEvent, PeerCloses, PeerOpens, cenHistory
  <2>2. Channels(p) > 0
    BY <1>0, <2>1 DEF CenOpen
  <2>3. CASE HandleChannelEvent(s, d) \/ PeerOpens(d)
    BY <2>2, <2>3 DEF HandleChannelEvent, PeerOpens, Channels, One
  <2>4. CASE PeerCloses(s, d)
    BY <2>2, <2>4 DEF PeerCloses, Channels, One
  <2> QED
    BY <2>3, <2>4
<1> QED
  BY <1>1, <1>2, <1>3, <1>4 DEF CenInv

LEMMA CenInvStep == CenInv /\ [CenNext]_cenVars => CenInv'
PROOF
<1> SUFFICES ASSUME CenInv, [CenNext]_cenVars PROVE CenInv'
  OBVIOUS
<1>1. ASSUME NEW e \in CenEngines, RegisterCtlCenterCallback(e) PROVE CenInv'
  BY <1>1, TableKept, RoadsKept DEF RegisterCtlCenterCallback, CenInv, CenTypes, CenOpen, Table, Roads, cenHistory, Channels, One
<1>2. CASE InitializeCounts
  BY <1>2, TableKept, RoadsKept DEF InitializeCounts, CenInv, CenTypes, CenOpen, Table, Roads, cenHistory, Channels, One
<1>3. CASE UNCHANGED cenVars
  BY <1>3, TableKept, RoadsKept DEF cenVars, CenInv, CenTypes, CenOpen, Table, Roads, Channels, One
<1>4. "sender" \in CenSessions
  BY DEF CenSessions
<1> QED
  BY <1>1, <1>2, <1>3, <1>4, CenInitStep, CenCreateStep, CenReleaseStep, CenCloseStep, CenRoadStep DEF CenNext

(* An engine that alone holds its id keeps its peer: the mapping of its id,*)
(* and a channel to the peer unless the peer closed one, for any number of *)
(* engines, peers and calls.                                               *)
THEOREM EngineKeepsPeer == CenSpec => []CenEngineKeepsPeer
PROOF
<1>1. CenInit => CenInv
  BY CenBounds DEF CenInit, CenInv, CenTypes, CenHeld, CenMapped, CenBacked, CenOpen, Arriving, Channels, Closing, One
<1>2. CenInv => CenEngineKeepsPeer
  BY DEF CenInv, CenHeld, CenMapped, CenOpen, CenEngineKeepsPeer, CenSessions, Channels, One
<1> QED
  BY <1>1, <1>2, CenInvStep, PTL DEF CenSpec

-----------------------------------------------------------------------------
(* Audio codec filters                                                     *)

\* An input thread that has not ended has a started codec; a release that has
\* come to Destroy has joined it, and so has every stop that set isStoped_,
\* after which the codec is not prepared again.
CdInv ==
  /\ thr \in {"none", "loop", "check", "push", "ended"}
  /\ ~Joined => codec = "started"
  /\ call = "destroy" => Joined
  /\ stoped => Joined /\ codec \in {"stopped", "none"}

(* The codec is destroyed only after the input thread has ended: the join  *)
(* in StopInputThread covers every way to OH_AudioCodec_Destroy, a stop    *)
(* that failed included.                                                   *)
THEOREM NoPushAfterDestroy == CdSpec => []CdNoPushAfterDestroy
PROOF
<1>1. CdInit => CdInv
  BY DEF CdInit, CdInv, Joined
<1>2. CdInv /\ [CdNext]_cdVars => CdInv'
  <2> SUFFICES ASSUME CdInv, [CdNext]_cdVars PROVE CdInv'
    OBVIOUS
  <2> USE DEF CdInv, Joined
  <2>1. CASE CdPrepare
    BY <2>1 DEF CdPrepare, CreateAudioCodec, ConfigureAudioCodec
  <2>2. CASE CdStart
    BY <2>2 DEF CdStart
  <2>3. CASE CdStopBegins
    BY <2>3 DEF CdStopBegins
  <2>4. CASE CdStopEnds
    BY <2>4 DEF CdStopEnds
  <2>5. CASE CdDestroy
    BY <2>5 DEF CdDestroy
  <2>6. CASE CdProcessInputBuffer \/ OnCodecError \/ OnInputBufferAvailable \/ OnOutputBufferAvailable
    <3>1. UNCHANGED <<thr, codec, stoped, call>>
      BY <2>6 DEF CdProcessInputBuffer, OnCodecError, OnInputBufferAvailable, OnOutputBufferAvailable, codecVars
    <3> QED
      BY <3>1
  <2>7. CASE ThreadTakes
    BY <2>7 DEF ThreadTakes, codecVars
  <2>8. CASE ThreadLeaves
    BY <2>8 DEF ThreadLeaves, codecVars
  <2>9. CASE ProcessDataChecks
    BY <2>9 DEF ProcessDataChecks, codecVars
  <2>10. CASE ProcessDataPushes
    BY <2>10 DEF ProcessDataPushes, codecVars
  <2>11. CASE UNCHANGED cdVars
    BY <2>11 DEF cdVars, codecVars
  <2> QED
    BY <2>1, <2>2, <2>3, <2>4, <2>5, <2>6, <2>7, <2>8, <2>9, <2>10, <2>11
       DEF CdNext, EngineSteps, InputSteps, CodecSteps
<1>3. CdInv => CdNoPushAfterDestroy
  BY DEF CdInv, CdNoPushAfterDestroy, Joined
<1> QED
  BY <1>1, <1>2, <1>3, PTL DEF CdSpec

-----------------------------------------------------------------------------
(* SoftbusChannelAdapter                                                   *)

ChTypeOK ==
  /\ chIds \in [ChKeys -> ChSockets \cup {NoSocket}] /\ chOpening \in [ChKeys -> ChSockets \cup {NoSocket}]
  /\ chSocket \in [ChSockets -> {"new", "open", "shut", "closed"}]
  /\ chAccepting \subseteq ChNames \X ChDevices \X ChSockets

\* A closed socket that the table or a thread still holds was closed before the
\* thread that stores it had done so.
ChInv ==
  /\ ChTypeOK
  /\ \A k \in ChKeys, s \in ChSockets :
       chSocket[s] = "closed" /\ (chIds[k] = s \/ chOpening[k] = s) => s \in chLate
  /\ \A a \in chAccepting : chSocket[a[3]] = "closed" => a[3] \in chLate

LEMMA ShutFacts ==
  ASSUME ChTypeOK, NEW s \in ChSockets \cup {NoSocket}
  PROVE  /\ Shut(s) \in [ChSockets -> {"new", "open", "shut", "closed"}]
         /\ \A t \in ChSockets : Shut(s)[t] = "closed" => chSocket[t] = "closed"
PROOF
  BY DEF Shut, ChTypeOK

LEMMA ChInvStep == ChInv /\ [ChNext]_chVars => ChInv'
PROOF
<1> SUFFICES ASSUME ChInv, [ChNext]_chVars PROVE ChInv'
  OBVIOUS
<1> USE DEF ChInv, ChTypeOK
<1>0. DeviceKeys \subseteq ChKeys
  BY DEF DeviceKeys, ChKeys
<1>1. ASSUME NEW n \in ChNames, RemoveChannelServer(n) PROVE ChInv'
  <2>1. CASE UNCHANGED <<chIds, chSocket>>
    BY <1>1, <2>1 DEF RemoveChannelServer
  <2>2. CASE \E k \in ChKeys : chIds' = [chIds EXCEPT ![k] = NoSocket] /\ chSocket' = Shut(chIds[k])
    <3>1. PICK k \in ChKeys : chIds' = [chIds EXCEPT ![k] = NoSocket] /\ chSocket' = Shut(chIds[k])
      BY <2>2
    <3>2. chSocket' \in [ChSockets -> {"new", "open", "shut", "closed"}]
          /\ \A t \in ChSockets : chSocket'[t] = "closed" => chSocket[t] = "closed"
      BY <3>1, ShutFacts
    <3>3. UNCHANGED <<chOpening, chAccepting, chLate>>
      BY <1>1 DEF RemoveChannelServer
    <3> QED
      BY <3>1, <3>2, <3>3, ChBounds
  <2> QED
    BY <1>1, <2>1, <2>2 DEF RemoveChannelServer
<1>2. ASSUME NEW k \in DeviceKeys, NEW s \in ChSockets, OpenFails(k, s) PROVE ChInv'
  BY <1>2 DEF OpenFails
<1>3. ASSUME NEW k \in DeviceKeys, NEW s \in ChSockets, OpenBinds(k, s) PROVE ChInv'
  BY <1>0, <1>3 DEF OpenBinds
<1>4. ASSUME NEW k \in DeviceKeys, OpenStores(k) PROVE ChInv'
  BY <1>0, <1>4, ChBounds DEF OpenStores
<1>5. ASSUME NEW k \in DeviceKeys, CloseShuts(k) PROVE ChInv'
  <2>1. chSocket' \in [ChSockets -> {"new", "open", "shut", "closed"}]
        /\ \A t \in ChSockets : chSocket'[t] = "closed" => chSocket[t] = "closed"
    BY <1>0, <1>5, ShutFacts DEF CloseShuts
  <2> QED
    BY <1>5, <2>1 DEF CloseShuts
<1>6. ASSUME NEW k \in DeviceKeys, CloseErases(k) PROVE ChInv'
  BY <1>0, <1>6, ChBounds DEF CloseErases
<1>7. ASSUME NEW n \in ChNames, NEW d \in ChDevices, NEW s \in ChSockets, OnSoftbusChannelOpened(n, d, s) PROVE ChInv'
  BY <1>7 DEF OnSoftbusChannelOpened
<1>11. ASSUME NEW n \in ChNames, NEW d \in ChDevices, NEW s \in ChSockets, PeerBinds(n, d, s) PROVE ChInv'
  BY <1>11 DEF PeerBinds
<1>8. ASSUME NEW s \in ChSockets, OnSoftbusChannelClosed(s) PROVE ChInv'
  BY <1>8, ChBounds DEF OnSoftbusChannelClosed, Unstored
<1>9. CASE UNCHANGED <<chIds, chOpening, chSocket, chAccepting, chLate>>
  BY <1>9
<1>10. \/ UNCHANGED <<chIds, chOpening, chSocket, chAccepting, chLate>>
       \/ \E n \in ChNames : RemoveChannelServer(n)
       \/ \E k \in DeviceKeys, s \in ChSockets : OpenFails(k, s) \/ OpenBinds(k, s)
       \/ \E k \in DeviceKeys : OpenStores(k) \/ CloseShuts(k) \/ CloseErases(k)
       \/ \E n \in ChNames, d \in ChDevices, s \in ChSockets :
            PeerBinds(n, d, s) \/ OnSoftbusChannelOpened(n, d, s)
       \/ \E s \in ChSockets : OnSoftbusChannelClosed(s)
  BY DEF ChNext, chVars, CreateChannelServer, RegisterChannelListener, UnRegisterChannelListener,
         StartDeviceTimeSync, StopDeviceTimeSync, OnSoftbusBytesReceived, DataThreadEnds
<1> QED
  BY <1>1, <1>2, <1>3, <1>4, <1>5, <1>6, <1>7, <1>8, <1>9, <1>10, <1>11

(* A socket that softbus reported closed is in no entry of the table,      *)
(* unless the report came before the thread that stores it had done so, for *)
(* any number of sessions, devices and sockets.                            *)
THEOREM ClosedIsForgotten == ChSpec => []ChClosedIsForgotten
PROOF
<1>1. ChInit => ChInv
  BY ChBounds DEF ChInit, ChInv, ChTypeOK
<1>2. ChInv => ChClosedIsForgotten
  BY DEF ChInv, ChClosedIsForgotten, KeysOf
<1> QED
  BY <1>1, <1>2, ChInvStep, PTL DEF ChSpec

-----------------------------------------------------------------------------
(* AV transport engines                                                    *)

EngTypeOK ==
  /\ engClass \in EngClasses /\ engPush \in {"idle", "started", "checked"}
  /\ engEvent \in {"none", "OPENED", "OPEN_FAIL", "CLOSED"}
  /\ engPeer \in EngPeers /\ engStopped \in EngPeers /\ engStreams \in [EngPeers -> Nat]

\* A stopped engine was initialised and is registered at the center, a push that
\* is under way when it is stopped is marked, and only senders have streams.
EngInv ==
  /\ EngTypeOK
  /\ engState = "STOPPED" => engInit /\ engCenter
  /\ engProvider = "holding" /\ engPipe # "none" => engInit /\ engCenter
  /\ engState = "STOPPED" /\ engPush # "idle" => engOverlap
  /\ engClass \notin Senders => engPush # "started" /\ \A p \in EngPeers : engStreams[p] = 0
  /\ engState = "STOPPED" /\ ~engOverlap /\ HasScene => engStreams[engStopped] = 0

LEMMA EngCreatedStep == ASSUME EngInv, NEW listens \in BOOLEAN, EngineCreated(listens), Fixed PROVE EngInv'
PROOF
<1>1. /\ UNCHANGED <<engClass, engOwner, engPush, engStreams, engStopped, engOverlap, engEvent>>
      /\ ~engInit /\ engState # "STOPPED"
  BY DEF EngineCreated, Fixed, EngInv
<1>2. \/ engInit' = TRUE /\ engState' = "INITIALIZED" /\ engCenter' = TRUE /\ engPeer' \in EngPeers
      \/ engProvider' = "up" /\ UNCHANGED <<engInit, engState, engPeer>>
  BY DEF EngineCreated
<1> QED
  BY <1>1, <1>2 DEF EngInv, EngTypeOK, HasScene

LEMMA EngStopStep ==
  ASSUME EngInv, Fixed, NEW streams, Stop(streams), streams = IF engClass \in Senders THEN RemoveStream ELSE engStreams
  PROVE  EngInv'
PROOF
<1>1. engInit /\ engCenter
  BY DEF Stop, EngInv
<1>2. /\ engStreams' = streams /\ engStopped' = engPeer
      /\ UNCHANGED <<engClass, engOwner, engPeer, engInit, engCenter, engPush, engEvent>>
      /\ engOverlap' = (engPush # "idle")
  BY DEF Stop, Fixed
<1>3. /\ engStreams' \in [EngPeers -> Nat]
      /\ engClass \notin Senders => \A p \in EngPeers : engStreams'[p] = 0
      /\ HasScene => engStreams'[engPeer] = 0
  <2>1. CASE engClass \in Senders /\ HasScene
    <3>1. engStreams' = [engStreams EXCEPT ![engPeer] = 0]
      BY <1>1, <1>2, <2>1 DEF RemoveStream
    <3> QED
      BY <2>1, <3>1 DEF EngInv, EngTypeOK
  <2>2. CASE ~(engClass \in Senders /\ HasScene)
    <3>1. engStreams' = engStreams
      BY <1>2, <2>2 DEF RemoveStream
    <3> QED
      BY <2>2, <3>1 DEF EngInv, EngTypeOK
  <2> QED
    BY <2>1, <2>2
<1> QED
  BY <1>1, <1>2, <1>3 DEF EngInv, EngTypeOK, HasScene

\* Steps that touch neither the streams nor the state's being STOPPED.
LEMMA EngQuietStep ==
  ASSUME EngInv, UNCHANGED <<engClass, engOwner, engInit, engCenter, engStreams, engStopped, engPush, engOverlap, engEvent>>,
         engPeer' \in EngPeers, engState' = engState \/ engState' # "STOPPED",
         \/ UNCHANGED <<engProvider, engPipe>>
         \/ engProvider = "holding" /\ engPipe # "none"
  PROVE  EngInv'
PROOF
  BY DEF EngInv, EngTypeOK, HasScene

LEMMA EngInvStep == EngInv /\ [EngNext]_engVars => EngInv'
PROOF
<1> SUFFICES ASSUME EngInv, [EngNext]_engVars PROVE EngInv'
  OBVIOUS
<1>0. engPeer \in EngPeers
  BY DEF EngInv, EngTypeOK
<1>1. CASE SenderInitialize \/ ReceiverInitialize \/ AudioSenderInitialize \/ AudioReceiverInitialize
  <2>1. Fixed /\ \E listens \in BOOLEAN : EngineCreated(listens)
    BY <1>1 DEF SenderInitialize, ReceiverInitialize, AudioSenderInitialize, AudioReceiverInitialize, Class
  <2> QED
    BY <2>1, EngCreatedStep
<1>2. CASE RegisterCallback \/ (\E dev \in EngPeers : CreateControlChannel(dev)) \/ UNCHANGED engVars
  <2>1. /\ UNCHANGED <<engClass, engOwner, engState, engPipe, engInit, engCenter, engStreams, engStopped, engPush, engOverlap,
                       engEvent, engProvider>>
        /\ engPeer' \in EngPeers
    BY <1>0, <1>2 DEF RegisterCallback, CreateControlChannel, engVars, Fixed, SamePeer
  <2> QED
    BY <2>1, EngQuietStep
<1>11. ASSUME NEW e \in {"OPENED", "OPEN_FAIL", "CLOSED"}, EventArrives(e) PROVE EngInv'
  <2>1. /\ UNCHANGED <<engClass, engOwner, engPeer, engState, engPipe, engInit, engCenter, engStreams, engStopped, engPush,
                       engOverlap, engProvider>>
        /\ engEvent' \in {"OPENED", "OPEN_FAIL", "CLOSED"}
    BY <1>11 DEF EventArrives, Fixed, SamePeer
  <2> QED
    BY <2>1 DEF EngInv, EngTypeOK, HasScene
<1>12. ASSUME NEW t, NEW v, SetParameter(t, v) PROVE EngInv'
  <2>1. UNCHANGED <<engClass, engOwner, engPeer, engState, engPipe, engInit, engCenter, engStreams, engStopped, engPush, engOverlap,
                    engEvent, engProvider>>
    BY <1>12 DEF SetParameter, Fixed, SamePeer
  <2> QED
    BY <1>0, <2>1, EngQuietStep
<1>3. CASE SenderPrepare \/ ReceiverPrepare \/ AudioSenderPrepare \/ AudioReceiverPrepare
  <2>1. Fixed /\ PreparePipeline
    BY <1>3 DEF SenderPrepare, ReceiverPrepare, AudioSenderPrepare, AudioReceiverPrepare, Class
  <2> QED
    BY <1>0, <2>1, EngQuietStep DEF PreparePipeline, Fixed, SamePeer
<1>4. CASE SenderStart \/ ReceiverStart \/ AudioSenderStart \/ AudioReceiverStart
  <2>1. Fixed /\ Start({"STARTED", "CH_CREATED"})
    BY <1>4 DEF SenderStart, ReceiverStart, AudioSenderStart, AudioReceiverStart, Class, Start
  <2> QED
    BY <1>0, <2>1, EngQuietStep DEF Start, Fixed, SamePeer
<1>5. CASE SenderStop \/ ReceiverStop \/ AudioSenderStop \/ AudioReceiverStop
  <2>1. CASE SenderStop \/ AudioSenderStop
    BY <2>1, EngStopStep DEF SenderStop, AudioSenderStop, Class, Senders
  <2>2. CASE ReceiverStop \/ AudioReceiverStop
    BY <2>2, EngStopStep DEF ReceiverStop, AudioReceiverStop, Class, Senders
  <2> QED
    BY <1>5, <2>1, <2>2
<1>6. CASE SenderRelease \/ ReceiverRelease \/ AudioSenderRelease \/ AudioReceiverRelease \/ ProviderDestroyed
  <2>1. /\ engPipe' = "none" /\ engState' = "IDLE"
        /\ UNCHANGED <<engClass, engOwner, engPeer, engStreams, engStopped, engPush, engOverlap, engEvent>>
    BY <1>6 DEF SenderRelease, ReceiverRelease, AudioSenderRelease, AudioReceiverRelease, ProviderDestroyed, Release,
                Class, Fixed, SamePeer
  <2> QED
    BY <2>1 DEF EngInv, EngTypeOK, HasScene
<1>7. CASE SetEngineReady \/ SetEnginePause \/ SetEngineResume
  <2>1. UNCHANGED <<engClass, engOwner, engPeer, engInit, engCenter, engStreams, engStopped, engPush, engOverlap, engEvent,
                    engProvider>>
        /\ engProvider = "holding"
    BY <1>7 DEF SetEngineReady, SetEnginePause, SetEngineResume, SetEngine, Fixed, SamePeer
  <2>2. (engPipe' = engPipe \/ engPipe # "none") /\ (engState' = engState \/ engState' # "STOPPED")
    BY <1>7 DEF SetEngineReady, SetEnginePause, SetEngineResume
  <2> QED
    BY <1>0, <2>1, <2>2, EngQuietStep
<1>8. CASE PushData \/ AudioPushData
  <2>1. Fixed /\ (DataBegins("started") \/ StreamAdded \/ DataEnds) /\ engClass \in Senders
    BY <1>8 DEF PushData, AudioPushData, Class, Senders
  <2>2. CASE DataBegins("started")
    <3>1. /\ engState # "STOPPED" /\ engPush' \in {"started", "checked"}
          /\ UNCHANGED <<engClass, engOwner, engPeer, engState, engPipe, engInit, engCenter, engStreams, engStopped, engOverlap,
                         engEvent, engProvider>>
      BY <2>1, <2>2 DEF DataBegins, Fixed, SamePeer
    <3> QED
      BY <2>1, <3>1 DEF EngInv, EngTypeOK
  <2>3. CASE StreamAdded
    <3>1. /\ engPush = "started" /\ engPush' = "checked" /\ engStreams' = AddStream
          /\ UNCHANGED <<engClass, engOwner, engPeer, engState, engPipe, engInit, engCenter, engStopped, engOverlap, engEvent,
                         engProvider>>
      BY <2>1, <2>3 DEF StreamAdded, Fixed, SamePeer
    <3>2. engStreams' \in [EngPeers -> Nat]
      BY <3>1 DEF AddStream, EngInv, EngTypeOK
    <3> QED
      BY <2>1, <3>1, <3>2 DEF EngInv, EngTypeOK
  <2>4. CASE DataEnds
    BY <2>1, <2>4 DEF DataEnds, Fixed, SamePeer, EngInv, EngTypeOK, HasScene
  <2> QED
    BY <2>1, <2>2, <2>3, <2>4
<1>9. CASE HandleOutputBuffer \/ AudioHandleOutputBuffer
  <2>1. Fixed /\ (DataBegins("checked") \/ DataEnds)
    BY <1>9 DEF HandleOutputBuffer, AudioHandleOutputBuffer, Class
  <2> QED
    BY <2>1 DEF DataBegins, DataEnds, Fixed, SamePeer, EngInv, EngTypeOK, HasScene
<1>10. CASE SenderOnChannelEvent \/ ReceiverOnChannelEvent \/ AudioSenderOnChannelEvent \/ AudioReceiverOnChannelEvent
  <2>1. Fixed /\ \E keeps \in {{}, {"STARTED"}} : EventHandled(keeps)
    BY <1>10 DEF SenderOnChannelEvent, ReceiverOnChannelEvent, AudioSenderOnChannelEvent, AudioReceiverOnChannelEvent, Class
  <2>2. PICK keeps \in {{}, {"STARTED"}} : EventHandled(keeps)
    BY <2>1
  <2>3. UNCHANGED <<engClass, engOwner, engPeer, engPipe, engInit, engCenter, engStreams, engStopped, engPush, engOverlap,
                    engProvider>>
    BY <2>1, <2>2 DEF EventHandled, Fixed, SamePeer
  <2>4. engState' # "STOPPED" /\ engEvent' = "none"
    BY <2>2 DEF EventHandled, AfterEvent, EngInv, EngTypeOK
  <2> QED
    BY <2>3, <2>4 DEF EngInv, EngTypeOK, HasScene
<1> QED
  BY <1>1, <1>2, <1>3, <1>4, <1>5, <1>6, <1>7, <1>8, <1>9, <1>10, <1>11, <1>12 DEF EngNext

(* A sender that was stopped has no stream left at AVSyncManager for the   *)
(* peer it had then, unless a push overlapped the Stop: Stop is only       *)
(* accepted from an engine that is registered at the center, so the        *)
(* removal it asks for is carried out, and no push adds a stream after it. *)
THEOREM StoppedHasNoStream == EngSpec => []EngStoppedHasNoStream
PROOF
<1>1. EngInit => EngInv
  BY DEF EngInit, EngInv, EngTypeOK
<1>2. EngInv => EngStoppedHasNoStream
  BY DEF EngInv, EngStoppedHasNoStream
<1> QED
  BY <1>1, <1>2, EngInvStep, PTL DEF EngSpec

\* A table of setters whose tags are tags and which sends each somewhere.
Filled(f, tags) == DOMAIN f = tags /\ \A t \in tags : f[t] # {}

LEMMA ToFilled == ASSUME NEW tags, NEW where, where # {} PROVE Filled(To(tags, where), tags)
PROOF
  BY DEF Filled, To

LEMMA MergeFilled ==
  ASSUME NEW f, NEW g, NEW A, NEW B, Filled(f, A), Filled(g, B)
  PROVE  Filled(Merge(f, g), A \cup B)
PROOF
  BY DEF Filled, Merge

\* The tags each class has a setter for.
LEMMA SetterTables ==
  /\ Filled(Merge(SenderVideo, SenderAudio), OwnTags \cup {"VIDEO_PIXEL_FORMAT"} \cup HandedTags)
  /\ Filled(Merge(ReceiverVideo, ReceiverAudio), OwnTags \cup HandedTags \cup SyncTags)
  /\ Filled(Merge(AudioSenderVideo, AudioSenderAudio), OwnTags \cup {"VIDEO_PIXEL_FORMAT"} \cup HandedTags)
  /\ Filled(Merge(AudioReceiverVideo, AudioReceiverAudio), OwnTags \cup HandedTags \cup SyncTags)
PROOF
<1>1. Filled(SenderVideo, NumberToInput \cup {"VIDEO_PIXEL_FORMAT"} \cup {"VIDEO_FRAME_RATE"} \cup {"VIDEO_CODEC_TYPE"})
  BY ToFilled, MergeFilled DEF SenderVideo
<1>2. Filled(SenderAudio, AudioToInput \cup {"SHARED_MEMORY_FD"} \cup AudioToBoth \cup {"AUDIO_CODEC_TYPE"})
  BY ToFilled, MergeFilled DEF SenderAudio
<1>3. Filled(ReceiverVideo, NumberToInput \cup {"VIDEO_FRAME_RATE", "VIDEO_CODEC_TYPE"})
  BY ToFilled, MergeFilled DEF ReceiverVideo
<1>4. Filled(ReceiverAudio, AudioToInput \cup (AudioToBoth \cup {"AUDIO_CODEC_TYPE"}) \cup (SyncTags \cup {"SHARED_MEMORY_FD"}))
  BY ToFilled, MergeFilled DEF ReceiverAudio
<1>5. Filled(AudioSenderVideo, NumberToInput \cup {"VIDEO_PIXEL_FORMAT", "VIDEO_FRAME_RATE", "VIDEO_CODEC_TYPE"})
  BY ToFilled DEF AudioSenderVideo
<1>6. Filled(AudioSenderAudio, AudioToInput \cup AudioToBoth \cup {"AUDIO_CODEC_TYPE", "SHARED_MEMORY_FD"})
  BY ToFilled DEF AudioSenderAudio
<1>7. Filled(AudioReceiverVideo, NumberToInput \cup {"VIDEO_FRAME_RATE", "VIDEO_CODEC_TYPE"})
  BY ToFilled DEF AudioReceiverVideo
<1>8. Filled(AudioReceiverAudio, AudioToInput \cup AudioToBoth \cup SyncTags \cup {"AUDIO_CODEC_TYPE", "SHARED_MEMORY_FD"})
  BY ToFilled DEF AudioReceiverAudio
<1> USE DEF NumberToInput, AudioToInput, AudioToBoth, OwnTags, HandedTags
<1>9. Filled(Merge(SenderVideo, SenderAudio), OwnTags \cup {"VIDEO_PIXEL_FORMAT"} \cup HandedTags)
  BY <1>1, <1>2, MergeFilled
<1>10. Filled(Merge(ReceiverVideo, ReceiverAudio), OwnTags \cup HandedTags \cup SyncTags)
  BY <1>3, <1>4, MergeFilled
<1>11. Filled(Merge(AudioSenderVideo, AudioSenderAudio), OwnTags \cup {"VIDEO_PIXEL_FORMAT"} \cup HandedTags)
  BY <1>5, <1>6, MergeFilled
<1>12. Filled(Merge(AudioReceiverVideo, AudioReceiverAudio), OwnTags \cup HandedTags \cup SyncTags)
  BY <1>7, <1>8, MergeFilled
<1> QED
  BY <1>9, <1>10, <1>11, <1>12

\* Every tag the first switch passes is set by the second switch and a setter.
LEMMA AcceptedTagIsSet == ASSUME engClass \in EngClasses, NEW tag \in Switch.own \cup Switch.handed PROVE Sets(tag) # {}
PROOF
<1>1. tag \in (Switch.own \cup (Switch.handed \cap Switch.inner)) /\ tag \in DOMAIN Setters /\ Setters[tag] # {}
  <2>1. CASE engClass = "sender"
    BY <2>1, SetterTables DEF Switch, SenderSwitch, Setters, Filled
  <2>2. CASE engClass = "receiver"
    BY <2>2, SetterTables DEF Switch, ReceiverSwitch, Setters, Filled
  <2>3. CASE engClass = "audio sender"
    BY <2>3, SetterTables DEF Switch, AudioSenderSwitch, Setters, Filled
  <2>4. CASE engClass = "audio receiver"
    BY <2>4, SetterTables DEF Switch, AudioReceiverSwitch, Setters, Filled
  <2> QED
    BY <2>1, <2>2, <2>3, <2>4 DEF EngClasses
<1> QED
  BY <1>1 DEF Sets

(* SetParameter never answers success for a usable value that it dropped,  *)
(* for every class, tag and state of the pipeline.                         *)
THEOREM AcceptedIsSet == EngSpec => []EngAcceptedIsSet
PROOF
<1>1. EngInit => EngAcceptedIsSet
  BY DEF EngInit, EngAcceptedIsSet
<1>2. NoCallOf => EngAcceptedIsSet'
  BY DEF NoCallOf, EngAcceptedIsSet
<1>3. EngInv /\ EngAcceptedIsSet /\ [EngNext]_engVars => EngAcceptedIsSet'
  <2> SUFFICES ASSUME EngInv, EngAcceptedIsSet, [EngNext]_engVars PROVE EngAcceptedIsSet'
    OBVIOUS
  <2>1. ASSUME NEW t \in DOMAIN Merge(SenderVideo, SenderAudio) \cup SyncTags, NEW v \in BOOLEAN, SetParameter(t, v)
        PROVE  EngAcceptedIsSet'
    <3> DEFINE accepted == (engClass \in Audio \/ engPipe # "none") /\ t \in Switch.own \cup Switch.handed
    <3>1. engLast' = CASE ~accepted -> "refused"
                       [] accepted /\ ~v -> "no value"
                       [] accepted /\ v -> IF Sets(t) # {} THEN "set" ELSE "dropped"
      BY <2>1 DEF SetParameter
    <3>2. accepted => Sets(t) # {}
      BY AcceptedTagIsSet DEF EngInv, EngTypeOK
    <3> HIDE DEF accepted
    <3>3. engLast' # "dropped"
      BY <3>1, <3>2
    <3> QED
      BY <3>3 DEF EngAcceptedIsSet
  <2>2. CASE UNCHANGED engVars
    BY <2>2 DEF engVars, EngAcceptedIsSet
  <2>3. CASE \/ SenderInitialize \/ ReceiverInitialize \/ AudioSenderInitialize \/ AudioReceiverInitialize
             \/ RegisterCallback \/ \E dev \in EngPeers : CreateControlChannel(dev)
             \/ SenderPrepare \/ ReceiverPrepare \/ AudioSenderPrepare \/ AudioReceiverPrepare
             \/ SenderStart \/ ReceiverStart \/ AudioSenderStart \/ AudioReceiverStart
             \/ SenderStop \/ ReceiverStop \/ AudioSenderStop \/ AudioReceiverStop
    BY <1>2, <2>3 DEF SenderInitialize, ReceiverInitialize, AudioSenderInitialize, AudioReceiverInitialize, EngineCreated,
       RegisterCallback, CreateControlChannel, SenderPrepare, ReceiverPrepare, AudioSenderPrepare, AudioReceiverPrepare,
       PreparePipeline, SenderStart, ReceiverStart, AudioSenderStart, AudioReceiverStart, Start, SenderStop, ReceiverStop,
       AudioSenderStop, AudioReceiverStop, Stop
  <2>4. CASE \/ SenderRelease \/ ReceiverRelease \/ AudioSenderRelease \/ AudioReceiverRelease \/ ProviderDestroyed
             \/ PushData \/ AudioPushData \/ HandleOutputBuffer \/ AudioHandleOutputBuffer
             \/ \E e \in {"OPENED", "OPEN_FAIL", "CLOSED"} : EventArrives(e)
             \/ SenderOnChannelEvent \/ ReceiverOnChannelEvent \/ AudioSenderOnChannelEvent \/ AudioReceiverOnChannelEvent
    BY <1>2, <2>4 DEF SenderRelease, ReceiverRelease, AudioSenderRelease, AudioReceiverRelease, ProviderDestroyed, Release,
       PushData, AudioPushData, HandleOutputBuffer, AudioHandleOutputBuffer, DataBegins, StreamAdded, DataEnds, EventArrives, SenderOnChannelEvent, ReceiverOnChannelEvent, AudioSenderOnChannelEvent,
       AudioReceiverOnChannelEvent, EventHandled
  <2>5. CASE SetEngineReady \/ SetEnginePause \/ SetEngineResume
    BY <2>5 DEF SetEngineReady, SetEnginePause, SetEngineResume, SetEngine, EngAcceptedIsSet
  <2> QED
    BY <2>1, <2>2, <2>3, <2>4, <2>5 DEF EngNext
<1>4. EngInit => EngInv
  BY DEF EngInit, EngInv, EngTypeOK
<1> QED
  BY <1>1, <1>3, <1>4, EngInvStep, PTL DEF EngSpec

-----------------------------------------------------------------------------
(* The audio pipelines                                                     *)

PipeOps == {"Prepare", "Start", "Pause", "Resume", "Stop"}
Upward == {"Start", "Resume"}
FilterStates == {"INITIALIZED", "READY", "RUNNING", "PAUSED", "STOPPED", "ERROR"}
OpRecords == [name : PipeOps \cup {"none"}, at : 0..3, way : {"down", "up", "wait"}]

PipeTypeOK ==
  /\ side \in Sides /\ coded \in BOOLEAN /\ inList \in BOOLEAN
  /\ linked \in 1..LastFilter
  /\ fstate \in [Filters -> FilterStates]
  /\ ferr \in [Filters -> {"ok", "err"}]
  /\ op \in OpRecords

\* Where an operation is.
PipeOp ==
  /\ op.name = "none" <=> op = NoOp
  /\ op.name # "none" => \/ op.way = "wait" /\ op.at = 0
                         \/ op.way \in {"down", "up"} /\ inList /\ op.at \in 1..linked
  /\ op.way = "up" => op.name \notin Downward

\* Prepare goes on, and comes back, only when the head has succeeded and has
\* linked the second filter.
PipeLinked ==
  inList /\ op.name = "Prepare" =>
    /\ op.way = "down" /\ op.at >= 2 => ferr[1] = "ok"
    /\ op.way = "up" => ferr[1] = "ok" /\ linked >= 2
    /\ op.way = "wait" /\ ferr[1] = "ok" => linked >= 2

\* Filters 1 and 2 that the operation has been at are in its state or have failed.
Passed(i) ==
  \/ op.name \in Upward \cup {"Prepare"} /\ op.way = "up" /\ op.at < i
  \/ op.name \in Downward /\ op.way = "down" /\ op.at > i
  \/ op.name \in PipeOps /\ op.way = "wait"

PipePassed ==
  inList => /\ Passed(1) /\ ferr[1] = "ok" => fstate[1] = Target(op.name)
            /\ Passed(2) /\ ferr[2] = "ok" /\ 2 <= linked /\ (op.name = "Prepare" => ferr[1] = "ok") =>
                 fstate[2] = Target(op.name)

\* The sender's head never fails; while it runs, the next filter runs or has
\* failed, but for a Prepare under way.
PipeHead ==
  /\ feed \in {"accepted", "tested"} => side = "sender"
  /\ side = "sender" => ferr[1] = "ok"
  /\ linked = 1 => fstate[2] = "ERROR"
  /\ side = "sender" /\ fstate[1] = "RUNNING" /\ ~(op.name = "Prepare" /\ inList) =>
       fstate[2] \in {"RUNNING", "ERROR"}

\* What an operation on its way has made of the filters next to where it is.
PipeWay ==
  /\ op.name \in Upward /\ op.way = "up" /\ op.at < linked => fstate[op.at + 1] \in {"RUNNING", "ERROR"}
  /\ op.name \in Downward /\ op.way = "down" /\ op.at > 1 => fstate[1] # "RUNNING"

\* While the coder runs its output has been started and not stopped.
PipeCoder ==
  /\ coding => coded /\ linked = LastFilter /\ fstate[3] \notin {"INITIALIZED", "STOPPED"}
  /\ op.name = "Stop" /\ op.way = "down" /\ op.at = 3 => ~coding

PipeInv ==
  /\ PipeTypeOK /\ PipeOp /\ PipeLinked /\ PipePassed /\ PipeHead /\ PipeWay /\ PipeCoder
  /\ PipeOkMeansFirstTwo

\* WaitAllState, unfolded for the three filters a pipeline has at most.
LEMMA WaitUnfolds ==
  ASSUME PipeTypeOK, NEW state
  PROVE  LET w3 == IF fstate[3] # state THEN ferr[3] ELSE "ok"
             w2 == IF fstate[2] # state THEN ferr[2] ELSE IF 2 < linked /\ w3 # "ok" THEN ferr[3] ELSE "ok"
         IN  WaitAllState(state) =
               IF fstate[1] # state THEN ferr[1] ELSE IF 1 < linked /\ w2 # "ok" THEN ferr[2] ELSE "ok"
PROOF
<1> DEFINE w3 == IF fstate[3] # state THEN ferr[3] ELSE "ok"
           w2 == IF fstate[2] # state THEN ferr[2] ELSE IF 2 < linked /\ w3 # "ok" THEN ferr[3] ELSE "ok"
           w1 == IF fstate[1] # state THEN ferr[1] ELSE IF 1 < linked /\ w2 # "ok" THEN ferr[2] ELSE "ok"
           Body(w) == [i \in Filters |-> IF fstate[i] # state THEN ferr[i]
                                         ELSE IF i < linked /\ w[i + 1] # "ok" THEN ferr[i + 1] ELSE "ok"]
           W == CHOOSE w : w = Body(w)
           G == [i \in Filters |-> IF i = 1 THEN w1 ELSE IF i = 2 THEN w2 ELSE w3]
<1>1. WaitAllState(state) = W[1]
  BY DEF WaitAllState
<1>2. G = Body(G)
  <2>1. linked \in Nat /\ linked <= 3
    BY DEF PipeTypeOK, LastFilter
  <2>3. G[1] = w1 /\ G[2] = w2 /\ G[3] = w3
    BY DEF Filters
  <2>4. ASSUME NEW i \in Filters PROVE G[i] = Body(G)[i]
    <3> HIDE DEF w1, w2, w3, G
    <3>1. Body(G)[i] = IF fstate[i] # state THEN ferr[i] ELSE IF i < linked /\ G[i + 1] # "ok" THEN ferr[i + 1] ELSE "ok"
      OBVIOUS
    <3> HIDE DEF Body
    <3>2. CASE i = 1
      BY <2>3, <3>1, <3>2 DEF w1
    <3>3. CASE i = 2
      BY <2>3, <3>1, <3>3 DEF w2
    <3>4. CASE i = 3
      <4>1. ~(3 < linked)
        BY <2>1
      <4> QED
        BY <2>3, <3>1, <3>4, <4>1 DEF w3
    <3> QED
      BY <3>2, <3>3, <3>4 DEF Filters
  <2>5. G = [i \in Filters |-> G[i]]
    OBVIOUS
  <2>6. Body(G) = [i \in Filters |-> Body(G)[i]]
    OBVIOUS
  <2> HIDE DEF G, Body
  <2> QED
    BY <2>4, <2>5, <2>6
<1>3. W = Body(W)
  BY <1>2
<1> HIDE DEF W, w3
<1>4. /\ W[1] = IF fstate[1] # state THEN ferr[1] ELSE IF 1 < linked /\ W[2] # "ok" THEN ferr[2] ELSE "ok"
      /\ W[2] = IF fstate[2] # state THEN ferr[2] ELSE IF 2 < linked /\ W[3] # "ok" THEN ferr[3] ELSE "ok"
      /\ W[3] = IF fstate[3] # state THEN ferr[3] ELSE IF 3 < linked /\ W[4] # "ok" THEN ferr[4] ELSE "ok"
  <2> DEFINE B == Body(W)
  <2>1. /\ B[1] = IF fstate[1] # state THEN ferr[1] ELSE IF 1 < linked /\ W[1 + 1] # "ok" THEN ferr[1 + 1] ELSE "ok"
        /\ B[2] = IF fstate[2] # state THEN ferr[2] ELSE IF 2 < linked /\ W[2 + 1] # "ok" THEN ferr[2 + 1] ELSE "ok"
        /\ B[3] = IF fstate[3] # state THEN ferr[3] ELSE IF 3 < linked /\ W[3 + 1] # "ok" THEN ferr[3 + 1] ELSE "ok"
    BY DEF Filters
  <2> HIDE DEF B
  <2>2. W = B
    BY <1>3 DEF B
  <2>3. 1 + 1 = 2 /\ 2 + 1 = 3 /\ 3 + 1 = 4
    OBVIOUS
  <2> QED
    BY <2>1, <2>2, <2>3
<1>5. ~(3 < linked)
  BY DEF PipeTypeOK, LastFilter
<1>6. W[3] = w3
  BY <1>4, <1>5 DEF w3
<1>7. W[2] = w2
  BY <1>4, <1>6
<1> HIDE DEF w2
<1>8. W[1] = w1
  BY <1>4, <1>7
<1> QED
  BY <1>1, <1>8 DEF w1, w2, w3

LEMMA PipeSizes ==
  ASSUME PipeTypeOK
  PROVE  /\ LastFilter \in {2, 3} /\ linked \in {1, 2, 3} /\ linked <= LastFilter
         /\ op.at \in {0, 1, 2, 3} /\ Filters = {1, 2, 3}
PROOF
<1>1. LastFilter \in {2, 3}
  BY DEF LastFilter
<1>2. linked \in 1..LastFilter /\ op.at \in 0..3
  BY DEF PipeTypeOK, OpRecords
<1> HIDE DEF LastFilter
<1> QED
  BY <1>1, <1>2 DEF Filters

\* The sizes of a pipeline before and after a step that keeps its shape.
LEMMA PipeShape ==
  ASSUME PipeInv, UNCHANGED coded
  PROVE  /\ LastFilter \in {2, 3} /\ linked \in {1, 2, 3} /\ linked <= LastFilter
         /\ Filters = {1, 2, 3} /\ LastFilter' = LastFilter
PROOF
<1>1. LastFilter' = LastFilter
  BY DEF LastFilter
<1> QED
  BY <1>1, PipeSizes DEF PipeInv

LEMMA PipeInvInit == PipeInit => PipeInv
PROOF
<1> SUFFICES ASSUME PipeInit PROVE PipeInv
  OBVIOUS
<1>1. PipeTypeOK
  BY DEF PipeInit, PipeTypeOK, NoOp, Filters, LastFilter, OpRecords, FilterStates
<1>2. op.name = "none" /\ op.way = "down" /\ op.at = 0
  BY DEF PipeInit, NoOp
<1>3. \A i \in Filters : fstate[i] \in {"INITIALIZED", "ERROR"} /\ ferr[i] = "ok"
  BY DEF PipeInit
<1>4. fstate[2] = "ERROR" /\ fstate[1] # "RUNNING" /\ ferr[1] = "ok"
  BY DEF PipeInit, Filters
<1>5. PipeOp /\ PipeLinked /\ PipeWay
  BY <1>2 DEF PipeInit, PipeOp, PipeLinked, PipeWay, Downward, Upward
<1>6. PipePassed
  BY <1>2 DEF PipePassed, Passed, Upward, Downward, PipeOps
<1>7. PipeHead /\ PipeCoder
  BY <1>2, <1>4 DEF PipeInit, PipeHead, PipeCoder
<1>8. PipeOkMeansFirstTwo
  BY DEF PipeInit, PipeOkMeansFirstTwo
<1> QED
  BY <1>1, <1>5, <1>6, <1>7, <1>8 DEF PipeInv

LEMMA PipeBegins == ASSUME PipeInv, NEW name \in PipeOps, OpBegins(name) PROVE PipeInv'
PROOF
<1>1. /\ UNCHANGED <<side, coded, linked, inList, fstate, ferr, coding, feed>>
      /\ op = NoOp
  BY DEF OpBegins, chainVars, frameVars
<1>2. op'.name = name /\ op' \in OpRecords
  BY DEF OpBegins, OpRecords
<1>3. \/ inList /\ op'.at = 1 /\ op'.way = "down"
      \/ ~inList /\ op'.at = 0 /\ op'.way = "wait"
  BY DEF OpBegins
<1>4. LastFilter' = LastFilter
  BY <1>1 DEF LastFilter
<1>5. PipeTypeOK'
  BY <1>1, <1>2, <1>4 DEF PipeInv, PipeTypeOK
<1>6. PipeOp'
  <2>1. name # "none" /\ op' # NoOp
    BY <1>2 DEF PipeOps, NoOp
  <2>2. inList => 1 \in 1..linked
    BY DEF PipeInv, PipeTypeOK
  <2> QED
    BY <1>1, <1>2, <1>3, <2>1, <2>2 DEF PipeOp
<1>7. PipeLinked' /\ PipePassed' /\ PipeWay'
  BY <1>1, <1>2, <1>3 DEF PipeInv, PipeLinked, PipePassed, Passed, PipeWay
<1>8. PipeHead' /\ PipeCoder'
  BY <1>1, <1>2, <1>3, <1>4 DEF PipeInv, PipeHead, PipeCoder, NoOp
<1>9. PipeOkMeansFirstTwo'
  BY <1>2 DEF PipeOkMeansFirstTwo, PipeOps, NoOp
<1> QED
  BY <1>5, <1>6, <1>7, <1>8, <1>9 DEF PipeInv

\* Both fields of the operation's place change at once.
OpMoved(r, at, way) == [r EXCEPT !.at = at, !.way = way]

LEMMA OpMoves ==
  ASSUME NEW r \in OpRecords, NEW at \in 0..3, NEW way \in {"down", "up", "wait"}
  PROVE  /\ OpMoved(r, at, way) \in OpRecords
         /\ OpMoved(r, at, way).name = r.name /\ OpMoved(r, at, way).at = at /\ OpMoved(r, at, way).way = way
PROOF
<1> DEFINE q == [r EXCEPT !.at = at]
<1>1. q \in OpRecords /\ q.name = r.name /\ q.at = at
  BY DEF OpRecords
<1>2. OpMoved(r, at, way) = [q EXCEPT !.way = way]
  BY DEF OpMoved
<1> HIDE DEF q
<1> QED
  BY <1>1, <1>2 DEF OpRecords

LEMMA PipePrepareDown == ASSUME PipeInv, PrepareDown PROVE PipeInv'
PROOF
<1> DEFINE i == op.at
<1>0. /\ LastFilter \in {2, 3} /\ linked \in {1, 2, 3} /\ linked <= LastFilter /\ Filters = {1, 2, 3}
      /\ LastFilter' = LastFilter
  BY PipeShape DEF PrepareDown
<1>1. /\ op.name = "Prepare" /\ op.way = "down" /\ inList /\ i \in {1, 2, 3} /\ i <= linked
      /\ UNCHANGED <<side, coded, inList, coding, feed>>
  <2>1. op.name = "Prepare" /\ op.way = "down" /\ UNCHANGED <<side, coded, inList, coding, feed>>
    BY DEF PrepareDown, frameVars
  <2>2. inList /\ i \in 1..linked
    BY <2>1 DEF PipeInv, PipeOp
  <2> QED
    BY <1>0, <2>1, <2>2
<1>2. i >= 2 => ferr[1] = "ok"
  BY <1>1 DEF PipeInv, PipeLinked
<1>3. PipeTypeOK /\ op \in OpRecords
  BY DEF PipeInv, PipeTypeOK
<1>4. /\ side = "sender" => ferr[1] = "ok"
      /\ linked = 1 => fstate[2] = "ERROR"
      /\ feed \in {"accepted", "tested"} => side = "sender"
      /\ coding => coded /\ linked = LastFilter /\ fstate[3] \notin {"INITIALIZED", "STOPPED"}
  BY DEF PipeInv, PipeHead, PipeCoder
<1> HIDE DEF i
<1>5. ASSUME DoPrepare(i, TRUE),
             op' = IF i = LastFilter THEN [op EXCEPT !.way = "up"] ELSE [op EXCEPT !.at = i + 1]
      PROVE  PipeInv'
  <2>1. ferr' = [ferr EXCEPT ![i] = "ok"]
    BY <1>5 DEF DoPrepare
  <2>2. /\ ferr' \in [Filters -> {"ok", "err"}] /\ ferr'[i] = "ok"
        /\ \A j \in Filters : j # i => ferr'[j] = ferr[j]
    BY <1>0, <1>1, <1>3, <2>1 DEF PipeTypeOK
  <2>3. /\ linked' = IF i < LastFilter /\ linked = i THEN i + 1 ELSE linked
        /\ fstate' = IF i < LastFilter /\ linked = i THEN [fstate EXCEPT ![i + 1] = "INITIALIZED"] ELSE fstate
    BY <1>5 DEF DoPrepare, LinkNext, NextFilterNeeded
  <2>4. fstate' \in [Filters -> FilterStates]
    BY <1>0, <1>1, <1>3, <2>3 DEF PipeTypeOK, FilterStates
  <2>5. /\ linked' \in {1, 2, 3} /\ linked' <= LastFilter /\ linked <= linked' /\ linked' >= 2
        /\ i < LastFilter => i + 1 <= linked'
    BY <1>0, <1>1, <2>3
  <2>6. /\ op'.name = "Prepare" /\ op' \in OpRecords
        /\ IF i = LastFilter THEN op'.way = "up" /\ op'.at = i ELSE op'.way = "down" /\ op'.at = i + 1
    <3>1. CASE i = LastFilter
      BY <1>1, <1>3, <1>5, <3>1 DEF i, OpRecords
    <3>2. CASE i # LastFilter
      BY <1>0, <1>1, <1>3, <1>5, <3>2 DEF OpRecords
    <3> QED
      BY <3>1, <3>2
  <2>7. PipeTypeOK'
    BY <1>0, <1>1, <1>3, <2>2, <2>4, <2>5, <2>6 DEF PipeTypeOK
  <2>8. PipeOp'
    <3>1. op'.at \in 1..linked'
      BY <1>0, <1>1, <2>5, <2>6
    <3> QED
      BY <1>1, <2>6, <3>1 DEF PipeOp, NoOp, Downward
  <2>9. PipeLinked'
    BY <1>0, <1>1, <1>2, <2>2, <2>5, <2>6 DEF PipeLinked
  <2>10. PipePassed'
    BY <1>0, <1>1, <2>6 DEF PipePassed, Passed, Downward, Upward
  <2>11. PipeHead'
    BY <1>0, <1>1, <1>4, <2>2, <2>5, <2>6 DEF PipeHead
  <2>12. PipeWay'
    BY <2>6 DEF PipeWay, Upward, Downward
  <2>13. PipeCoder'
    BY <1>0, <1>1, <1>4, <2>3, <2>6 DEF PipeCoder
  <2>14. PipeOkMeansFirstTwo'
    BY <2>6 DEF PipeOkMeansFirstTwo, NoOp
  <2> QED
    BY <2>7, <2>8, <2>9, <2>10, <2>11, <2>12, <2>13, <2>14 DEF PipeInv
<1>6. ASSUME PrepareCanFail(i), DoPrepare(i, FALSE),
             op' = IF i = 1 THEN [op EXCEPT !.at = 0, !.way = "wait"] ELSE [op EXCEPT !.at = i - 1, !.way = "up"]
      PROVE  PipeInv'
  <2>1. ferr' = [ferr EXCEPT ![i] = "err"] /\ UNCHANGED <<linked, fstate>>
    BY <1>6 DEF DoPrepare
  <2>2. /\ ferr' \in [Filters -> {"ok", "err"}] /\ ferr'[i] = "err"
        /\ \A j \in Filters : j # i => ferr'[j] = ferr[j]
    BY <1>0, <1>1, <1>3, <2>1 DEF PipeTypeOK
  <2>3. /\ op'.name = "Prepare" /\ op' \in OpRecords
        /\ IF i = 1 THEN op'.way = "wait" /\ op'.at = 0 ELSE op'.way = "up" /\ op'.at = i - 1
    <3>1. CASE i = 1
      <4>1. op' = OpMoved(op, 0, "wait")
        BY <1>6, <3>1 DEF OpMoved
      <4> QED
        BY <1>1, <1>3, <3>1, <4>1, OpMoves
    <3>2. CASE i # 1
      <4>1. op' = OpMoved(op, i - 1, "up") /\ i - 1 \in 0..3
        BY <1>1, <1>6, <3>2 DEF OpMoved
      <4>2. op' \in OpRecords /\ op'.name = op.name /\ op'.at = i - 1 /\ op'.way = "up"
        BY <1>3, <4>1, OpMoves
      <4> QED
        BY <1>1, <3>2, <4>2
    <3> QED
      BY <3>1, <3>2
  <2>4. PipeTypeOK'
    BY <1>0, <1>1, <1>3, <2>1, <2>2, <2>3 DEF PipeTypeOK
  <2>5. PipeOp'
    <3>1. i # 1 => op'.at \in 1..linked'
      BY <1>0, <1>1, <2>1, <2>3
    <3> QED
      BY <1>1, <2>3, <3>1 DEF PipeOp, NoOp, Downward
  <2>6. PipeLinked'
    BY <1>0, <1>1, <1>2, <2>1, <2>2, <2>3 DEF PipeLinked
  <2>7. PipePassed'
    BY <1>0, <1>1, <2>2, <2>3 DEF PipePassed, Passed, Downward
  <2>8. PipeHead'
    <3>1. side = "sender" => i # 1
      BY <1>1, <1>6 DEF PrepareCanFail
    <3> QED
      BY <1>0, <1>1, <1>4, <2>1, <2>2, <2>3, <3>1 DEF PipeHead
  <2>9. PipeWay'
    BY <2>3 DEF PipeWay, Upward, Downward
  <2>10. PipeCoder'
    BY <1>0, <1>1, <1>4, <2>1, <2>3 DEF PipeCoder
  <2>11. PipeOkMeansFirstTwo'
    BY <2>3 DEF PipeOkMeansFirstTwo, NoOp
  <2> QED
    BY <2>4, <2>5, <2>6, <2>7, <2>8, <2>9, <2>10, <2>11 DEF PipeInv
<1> QED
  BY <1>5, <1>6 DEF PrepareDown, i

LEMMA PipePrepareUp == ASSUME PipeInv, PrepareUp PROVE PipeInv'
PROOF
<1> DEFINE i == op.at
<1>0. /\ LastFilter \in {2, 3} /\ linked \in {1, 2, 3} /\ linked <= LastFilter /\ Filters = {1, 2, 3}
      /\ LastFilter' = LastFilter
  BY PipeShape DEF PrepareUp
<1>1. /\ op.name = "Prepare" /\ op.way = "up" /\ inList /\ i \in {1, 2, 3} /\ i <= linked
      /\ UNCHANGED <<side, coded, linked, inList, ferr, coding, feed>>
  <2>1. op.name = "Prepare" /\ op.way = "up" /\ UNCHANGED <<side, coded, linked, inList, ferr, coding, feed>>
    BY DEF PrepareUp, chainVars, frameVars
  <2>2. inList /\ i \in 1..linked
    BY <2>1 DEF PipeInv, PipeOp
  <2> QED
    BY <1>0, <2>1, <2>2
<1>2. /\ ferr[1] = "ok" /\ linked >= 2
      /\ i = 1 /\ ferr[2] = "ok" => fstate[2] = "READY"
  BY <1>0, <1>1 DEF PipeInv, PipeLinked, PipePassed, Passed, Target
<1>3. PipeTypeOK /\ op \in OpRecords
  BY DEF PipeInv, PipeTypeOK
<1>4. /\ feed \in {"accepted", "tested"} => side = "sender"
      /\ coding => coded /\ linked = LastFilter /\ fstate[3] \notin {"INITIALIZED", "STOPPED"}
  BY DEF PipeInv, PipeHead, PipeCoder
<1>5. /\ fstate' \in [Filters -> FilterStates]
      /\ fstate'[i] = "READY" /\ \A j \in Filters : j # i => fstate'[j] = fstate[j]
  BY <1>0, <1>1, <1>3 DEF PrepareUp, PipeTypeOK, FilterStates
<1>6. op' = IF i = 1 THEN OpMoved(op, 0, "wait") ELSE [op EXCEPT !.at = i - 1]
  BY DEF PrepareUp, OpMoved
<1> HIDE DEF i
<1>7. /\ op'.name = "Prepare" /\ op' \in OpRecords
      /\ IF i = 1 THEN op'.way = "wait" /\ op'.at = 0 ELSE op'.way = "up" /\ op'.at = i - 1
  <2>1. CASE i = 1
    BY <1>1, <1>3, <1>6, <2>1, OpMoves
  <2>2. CASE i # 1
    BY <1>0, <1>1, <1>3, <1>6, <2>2 DEF OpRecords
  <2> QED
    BY <2>1, <2>2
<1>8. PipeTypeOK'
  BY <1>0, <1>1, <1>3, <1>5, <1>7 DEF PipeTypeOK
<1>9. PipeOp'
  <2>1. i # 1 => op'.at \in 1..linked'
    BY <1>0, <1>1, <1>7
  <2> QED
    BY <1>1, <1>7, <2>1 DEF PipeOp, NoOp, Downward
<1>10. PipeLinked'
  BY <1>0, <1>1, <1>2, <1>7 DEF PipeLinked
<1>11. PipePassed'
  BY <1>0, <1>1, <1>2, <1>5, <1>7 DEF PipePassed, Passed, Downward, Target
<1>12. PipeHead'
  BY <1>0, <1>1, <1>2, <1>4, <1>7 DEF PipeHead
<1>13. PipeWay'
  BY <1>7 DEF PipeWay, Upward, Downward
<1>14. PipeCoder'
  BY <1>0, <1>1, <1>4, <1>5, <1>7 DEF PipeCoder
<1>15. PipeOkMeansFirstTwo'
  BY <1>7 DEF PipeOkMeansFirstTwo, NoOp
<1> QED
  BY <1>8, <1>9, <1>10, <1>11, <1>12, <1>13, <1>14, <1>15 DEF PipeInv

\* What a filter that has done its work answers and where it is then.
LEMMA DoneFacts ==
  ASSUME PipeTypeOK, NEW name \in {"Start", "Stop", "Pause", "Resume"}, NEW i \in Filters, NEW ok \in BOOLEAN,
         DoneAt(name, i, ok)
  PROVE  /\ ferr' \in [Filters -> {"ok", "err"}] /\ (ok => ferr'[i] = "ok")
         /\ fstate' \in [Filters -> FilterStates]
         /\ fstate'[i] \in {Target(name), "ERROR"} /\ (ferr'[i] = "ok" => fstate'[i] = Target(name))
         /\ \A j \in Filters : j # i => ferr'[j] = ferr[j] /\ fstate'[j] = fstate[j]
PROOF
<1>1. Target(name) \in {"RUNNING", "PAUSED", "STOPPED"}
  BY DEF Target
<1>2. ferr \in [Filters -> {"ok", "err"}] /\ fstate \in [Filters -> FilterStates]
  BY DEF PipeTypeOK
<1>3. CASE ok
  BY <1>1, <1>2, <1>3 DEF DoneAt, FilterStates
<1>4. CASE ~ok
  BY <1>1, <1>2, <1>4 DEF DoneAt, FilterStates
<1> QED
  BY <1>3, <1>4

\* When the coder runs after a filter has done its work.
LEMMA CoderFacts ==
  ASSUME NEW name \in {"Start", "Stop", "Pause", "Resume"}, NEW i \in Filters, NEW ok \in BOOLEAN,
         DoneAt(name, i, ok)
  PROVE  /\ coding' => coding \/ (name = "Start" /\ coded /\ i = 2 /\ linked = LastFilter)
         /\ name = "Stop" /\ coded /\ i = 2 => ~coding'
PROOF
<1>1. /\ ok /\ Coder(i) /\ name = "Start" => CodecStarts
      /\ coding' = IF ~Coder(i) THEN coding
                   ELSE IF name = "Start" THEN coding \/ ok ELSE coding /\ name # "Stop"
  BY DEF DoneAt, CoderAt
<1>2. CASE ~Coder(i)
  BY <1>1, <1>2, Zenon DEF Coder
<1>3. CASE Coder(i) /\ name = "Start"
  <2>1. coding' = (coding \/ ok) /\ coded /\ i = 2
    BY <1>1, <1>3, Zenon DEF Coder
  <2>2. ok => linked = LastFilter
    BY <1>1, <1>3, Zenon DEF CodecStarts
  <2>3. name # "Stop"
    BY <1>3
  <2> QED
    BY <1>3, <2>1, <2>2, <2>3, Zenon
<1>4. CASE Coder(i) /\ name # "Start"
  <2>1. coding' = (coding /\ name # "Stop")
    BY <1>1, <1>4, Zenon
  <2> QED
    BY <2>1, Zenon
<1> QED
  BY <1>2, <1>3, <1>4, Zenon

LEMMA PipeVisitDown == ASSUME PipeInv, VisitDown PROVE PipeInv'
PROOF
<1> DEFINE i == op.at
<1>0. /\ LastFilter \in {2, 3} /\ linked \in {1, 2, 3} /\ linked <= LastFilter /\ Filters = {1, 2, 3}
      /\ LastFilter' = LastFilter
  BY PipeShape DEF VisitDown
<1>1. /\ op.name \in {"Start", "Stop", "Pause", "Resume"} /\ op.way = "down" /\ inList /\ i \in {1, 2, 3} /\ i <= linked
      /\ UNCHANGED <<side, coded, linked, inList, feed>>
  <2>1. /\ op.name \in {"Start", "Stop", "Pause", "Resume"} /\ op.way = "down"
        /\ UNCHANGED <<side, coded, linked, inList, feed>>
    BY DEF VisitDown, chainVars, frameVars
  <2>2. inList /\ i \in 1..linked
    BY <2>1 DEF PipeInv, PipeOp
  <2> QED
    BY <1>0, <2>1, <2>2
<1>2. PipeTypeOK /\ op \in OpRecords
  BY DEF PipeInv, PipeTypeOK
<1>3. /\ feed \in {"accepted", "tested"} => side = "sender"
      /\ side = "sender" => ferr[1] = "ok"
      /\ linked = 1 => fstate[2] = "ERROR"
      /\ side = "sender" /\ fstate[1] = "RUNNING" => fstate[2] \in {"RUNNING", "ERROR"}
  BY <1>1 DEF PipeInv, PipeHead
<1>4. CASE op.name \in Downward
  <2>1. PICK ok \in BOOLEAN : (ok \/ CanFail(op.name, i)) /\ DoneAt(op.name, i, ok)
    BY <1>4 DEF VisitDown
  <2>2. op' = IF i = linked THEN OpMoved(op, 0, "wait") ELSE [op EXCEPT !.at = i + 1]
    BY <1>4 DEF VisitDown, OpMoved
  <2>3. i > 1 => fstate[1] # "RUNNING"
    BY <1>1, <1>4 DEF PipeInv, PipeWay
  <2>4. /\ ferr' \in [Filters -> {"ok", "err"}] /\ (ok => ferr'[i] = "ok")
        /\ fstate' \in [Filters -> FilterStates]
        /\ fstate'[i] \in {Target(op.name), "ERROR"} /\ (ferr'[i] = "ok" => fstate'[i] = Target(op.name))
        /\ \A j \in Filters : j # i => ferr'[j] = ferr[j] /\ fstate'[j] = fstate[j]
    BY <1>0, <1>1, <1>2, <2>1, DoneFacts
  <2>5. /\ coding' => coding /\ ~(op.name = "Stop" /\ coded /\ i = 2)
    <3>1. op.name # "Start"
      BY <1>4 DEF Downward
    <3>2. i \in Filters
      BY <1>0, <1>1
    <3> QED
      BY <1>1, <2>1, <3>1, <3>2, CoderFacts, Zenon
  <2> HIDE DEF i
  <2>6. Target(op.name) \in {"PAUSED", "STOPPED"} /\ (op.name = "Pause" => Target(op.name) = "PAUSED")
        /\ op.name \in {"Stop", "Pause"}
    BY <1>4 DEF Downward, Target
  <2>7. /\ op'.name = op.name /\ op' \in OpRecords
        /\ IF i = linked THEN op'.way = "wait" /\ op'.at = 0 ELSE op'.way = "down" /\ op'.at = i + 1
    <3>1. CASE i = linked
      BY <1>2, <2>2, <3>1, OpMoves
    <3>2. CASE i # linked
      BY <1>0, <1>1, <1>2, <2>2, <3>2 DEF OpRecords
    <3> QED
      BY <3>1, <3>2
  <2>8. PipeTypeOK'
    BY <1>0, <1>1, <1>2, <2>4, <2>7 DEF PipeTypeOK
  <2>9. PipeOp'
    <3>1. i # linked => op'.at \in 1..linked'
      BY <1>0, <1>1, <2>7
    <3> QED
      BY <1>1, <1>2, <2>7, <3>1 DEF PipeInv, PipeOp, NoOp, Downward
  <2>10. PipeLinked'
    BY <1>1, <2>6, <2>7 DEF PipeLinked
  <2>11. PipePassed'
    <3>1. i > 1 /\ ferr[1] = "ok" => fstate[1] = Target(op.name)
      BY <1>1, <1>4 DEF PipeInv, PipePassed, Passed, i
    <3>2. i > 2 /\ ferr[2] = "ok" => fstate[2] = Target(op.name)
      BY <1>0, <1>1, <1>4 DEF PipeInv, PipePassed, Passed, i
    <3>3. ferr'[1] = "ok" /\ (i > 1 \/ i = 1) => fstate'[1] = Target(op.name)
      BY <1>0, <1>1, <2>4, <3>1
    <3>4. ferr'[2] = "ok" /\ i >= 2 => fstate'[2] = Target(op.name)
      BY <1>0, <1>1, <2>4, <3>2
    <3>5. Target(op.name)' = Target(op.name)
      BY <2>7 DEF Target
    <3>6. Passed(2)' /\ 2 <= linked => i >= 2
      BY <1>0, <1>1, <1>4, <2>7 DEF Passed, Downward, Upward
    <3> QED
      BY <1>1, <3>3, <3>4, <3>5, <3>6 DEF PipePassed
  <2>12. fstate'[1] # "RUNNING"
    BY <1>0, <1>1, <2>3, <2>4, <2>6
  <2>13. PipeHead'
    <3>1. side = "sender" /\ i = 1 => ok
      BY <1>0, <2>1, <2>6 DEF CanFail, StopCanFail, StartCanFail, Coder
    <3>2. side = "sender" => ferr'[1] = "ok"
      BY <1>0, <1>1, <1>3, <2>4, <3>1
    <3>3. linked = 1 => fstate'[2] = fstate[2]
      BY <1>0, <1>1, <2>4
    <3> QED
      BY <1>1, <1>3, <2>12, <3>2, <3>3 DEF PipeHead
  <2>14. PipeWay'
    BY <2>6, <2>7, <2>12 DEF PipeWay, Upward
  <2>15. PipeCoder'
    <3> SUFFICES ASSUME coding' \/ (op'.name = "Stop" /\ op'.way = "down" /\ op'.at = 3) PROVE PipeCoder'
      BY Zenon DEF PipeCoder
    <3>1. coding' => coded /\ linked = LastFilter /\ fstate[3] \notin {"INITIALIZED", "STOPPED"}
      BY <2>5, Zenon DEF PipeInv, PipeCoder
    <3>2. op.name = "Stop" /\ i = 3 => ~coding'
      BY <1>1, <2>5, Zenon DEF PipeInv, PipeCoder, i
    <3>3. coding' => fstate'[3] \notin {"INITIALIZED", "STOPPED"}
      <4>1. coding' /\ i = 3 => op.name = "Pause"
        BY <2>6, <3>2
      <4>2. coding' /\ i = 3 => fstate'[3] \in {"PAUSED", "ERROR"}
        BY <2>4, <2>6, <4>1
      <4>3. coding' /\ i # 3 => fstate'[3] = fstate[3]
        BY <1>0, <2>4
      <4> QED
        BY <3>1, <4>2, <4>3
    <3>4. op'.name = "Stop" /\ op'.way = "down" /\ op'.at = 3 => ~coding'
      <4> SUFFICES ASSUME op'.name = "Stop", op'.way = "down", op'.at = 3 PROVE ~coding'
        OBVIOUS
      <4>1. i = 2 /\ linked = 3 /\ op.name = "Stop"
        BY <1>0, <1>1, <2>7
      <4>2. LastFilter = 3
        BY <1>0, <4>1
      <4>3. coded
        BY <4>2 DEF LastFilter
      <4> QED
        BY <2>5, <4>1, <4>3, Zenon
    <3> QED
      BY <1>0, <1>1, <3>1, <3>3, <3>4, Zenon DEF PipeCoder
  <2>16. PipeOkMeansFirstTwo'
    BY <1>1, <2>7 DEF PipeOkMeansFirstTwo, NoOp
  <2> QED
    BY <2>8, <2>9, <2>10, <2>11, <2>13, <2>14, <2>15, <2>16 DEF PipeInv
<1>5. CASE op.name \notin Downward
  <2>1. op' = IF i = linked THEN [op EXCEPT !.way = "up"] ELSE [op EXCEPT !.at = i + 1]
    BY <1>5 DEF VisitDown
  <2>2. UNCHANGED <<fstate, ferr, coding>>
    BY <1>5 DEF VisitDown
  <2>3. /\ op'.name = op.name /\ op' \in OpRecords
        /\ IF i = linked THEN op'.way = "up" /\ op'.at = i ELSE op'.way = "down" /\ op'.at = i + 1
    <3>1. CASE i = linked
      BY <1>2, <2>1, <3>1 DEF OpRecords
    <3>2. CASE i # linked
      BY <1>0, <1>1, <1>2, <2>1, <3>2 DEF OpRecords
    <3> QED
      BY <3>1, <3>2
  <2> HIDE DEF i
  <2>4. PipeTypeOK'
    BY <1>0, <1>1, <1>2, <2>2, <2>3 DEF PipeTypeOK
  <2>5. PipeOp'
    <3>1. op'.at \in 1..linked'
      BY <1>0, <1>1, <2>3
    <3> QED
      BY <1>1, <1>5, <2>3, <3>1 DEF PipeInv, PipeOp, NoOp
  <2>6. PipeLinked'
    BY <1>1, <2>3 DEF PipeLinked
  <2>7. PipePassed'
    BY <1>0, <1>1, <1>5, <2>3 DEF PipePassed, Passed
  <2>8. PipeHead'
    BY <1>1, <1>3, <2>2 DEF PipeHead
  <2>9. PipeWay'
    BY <1>0, <1>1, <1>5, <2>3 DEF PipeWay
  <2>10. PipeCoder'
    <3>1. op.name # "Stop"
      BY <1>5 DEF Downward
    <3> QED
      BY <1>0, <1>1, <2>2, <2>3, <3>1, Zenon DEF PipeInv, PipeCoder
  <2>11. PipeOkMeansFirstTwo'
    BY <1>1, <2>3 DEF PipeOkMeansFirstTwo, NoOp
  <2> QED
    BY <2>4, <2>5, <2>6, <2>7, <2>8, <2>9, <2>10, <2>11 DEF PipeInv
<1> QED
  BY <1>4, <1>5

LEMMA PipeVisitUp == ASSUME PipeInv, VisitUp PROVE PipeInv'
PROOF
<1> DEFINE i == op.at
<1>0. /\ LastFilter \in {2, 3} /\ linked \in {1, 2, 3} /\ linked <= LastFilter /\ Filters = {1, 2, 3}
      /\ LastFilter' = LastFilter
  BY PipeShape DEF VisitUp
<1>1. /\ op.name \in {"Start", "Resume"} /\ op.way = "up" /\ inList /\ i \in {1, 2, 3} /\ i <= linked
      /\ UNCHANGED <<side, coded, linked, inList, feed>>
  <2>1. /\ op.name \in {"Start", "Resume"} /\ op.way = "up"
        /\ UNCHANGED <<side, coded, linked, inList, feed>>
    BY DEF VisitUp, chainVars, frameVars
  <2>2. inList /\ i \in 1..linked
    BY <2>1 DEF PipeInv, PipeOp
  <2> QED
    BY <1>0, <2>1, <2>2
<1>2. PipeTypeOK /\ op \in OpRecords
  BY DEF PipeInv, PipeTypeOK
<1>3. PICK ok \in BOOLEAN : (ok \/ CanFail(op.name, i)) /\ DoneAt(op.name, i, ok)
  BY DEF VisitUp
<1>4. op' = IF i = 1 THEN OpMoved(op, 0, "wait") ELSE [op EXCEPT !.at = i - 1]
  BY DEF VisitUp, OpMoved
<1>5. i < linked => fstate[i + 1] \in {"RUNNING", "ERROR"}
  BY <1>1 DEF PipeInv, PipeWay, Upward
<1>6. /\ ferr' \in [Filters -> {"ok", "err"}] /\ (ok => ferr'[i] = "ok")
      /\ fstate' \in [Filters -> FilterStates]
      /\ fstate'[i] \in {Target(op.name), "ERROR"} /\ (ferr'[i] = "ok" => fstate'[i] = Target(op.name))
      /\ \A j \in Filters : j # i => ferr'[j] = ferr[j] /\ fstate'[j] = fstate[j]
  BY <1>0, <1>1, <1>2, <1>3, DoneFacts
<1>7. coding' => coding \/ (coded /\ i = 2 /\ linked = LastFilter)
  <2>1. i \in Filters
    BY <1>0, <1>1
  <2> QED
    BY <1>1, <1>3, <2>1, CoderFacts, Zenon
<1> HIDE DEF i
<1>8. Target(op.name) = "RUNNING" /\ op.name # "Stop" /\ op.name # "Prepare"
  BY <1>1 DEF Target
<1>9. /\ op'.name = op.name /\ op' \in OpRecords
      /\ IF i = 1 THEN op'.way = "wait" /\ op'.at = 0 ELSE op'.way = "up" /\ op'.at = i - 1
  <2>1. CASE i = 1
    BY <1>2, <1>4, <2>1, OpMoves
  <2>2. CASE i # 1
    BY <1>0, <1>1, <1>2, <1>4, <2>2 DEF OpRecords
  <2> QED
    BY <2>1, <2>2
<1>10. PipeTypeOK'
  BY <1>0, <1>1, <1>2, <1>6, <1>9 DEF PipeTypeOK
<1>11. PipeOp'
  <2>1. i # 1 => op'.at \in 1..linked'
    BY <1>0, <1>1, <1>9
  <2> QED
    BY <1>1, <1>9, <2>1 DEF PipeInv, PipeOp, NoOp, Downward
<1>12. PipeLinked'
  BY <1>8, <1>9 DEF PipeLinked
<1>13. PipePassed'
  <2>1. i = 1 /\ ferr[2] = "ok" /\ 2 <= linked => fstate[2] = Target(op.name)
    BY <1>0, <1>1 DEF PipeInv, PipePassed, Passed, Upward, i
  <2>2. ferr'[1] = "ok" /\ i = 1 => fstate'[1] = Target(op.name)
    BY <1>6
  <2>3. ferr'[2] = "ok" /\ i \in {1, 2} /\ 2 <= linked => fstate'[2] = Target(op.name)
    BY <1>0, <1>6, <2>1
  <2>4. Target(op.name)' = Target(op.name)
    BY <1>9 DEF Target
  <2>5. (Passed(1)' => i = 1) /\ (Passed(2)' => i \in {1, 2})
    BY <1>0, <1>1, <1>9 DEF Passed, Downward, Upward
  <2> QED
    BY <1>1, <2>2, <2>3, <2>4, <2>5 DEF PipePassed
<1>14. PipeHead'
  <2>1. side = "sender" /\ i = 1 => ok
    BY <1>0, <1>1, <1>3 DEF CanFail, StartCanFail, Coder
  <2>2. side = "sender" => ferr'[1] = "ok"
    BY <1>0, <1>1, <1>6, <2>1 DEF PipeInv, PipeHead
  <2>3. linked = 1 => fstate'[2] = "ERROR"
    BY <1>0, <1>1, <1>6 DEF PipeInv, PipeHead
  <2>4. side = "sender" /\ fstate'[1] = "RUNNING" => fstate'[2] \in {"RUNNING", "ERROR"}
    <3>1. CASE i = 1
      <4>1. fstate'[2] = fstate[2]
        BY <1>0, <1>6, <3>1
      <4>2. linked = 1 => fstate[2] = "ERROR"
        BY DEF PipeInv, PipeHead
      <4>3. linked # 1 => fstate[2] \in {"RUNNING", "ERROR"}
        BY <1>0, <1>5, <3>1
      <4> QED
        BY <4>1, <4>2, <4>3
    <3>2. CASE i = 2
      BY <1>6, <1>8, <3>2
    <3>3. CASE i = 3
      <4>1. fstate'[2] = fstate[2] /\ fstate'[1] = fstate[1]
        BY <1>0, <1>6, <3>3
      <4> QED
        BY <1>8, <4>1 DEF PipeInv, PipeHead
    <3> QED
      BY <1>1, <3>1, <3>2, <3>3
  <2> QED
    BY <1>1, <2>2, <2>3, <2>4 DEF PipeInv, PipeHead
<1>15. PipeWay'
  <2>1. fstate'[i] \in {"RUNNING", "ERROR"}
    BY <1>6, <1>8
  <2> QED
    BY <1>0, <1>1, <1>9, <2>1 DEF PipeWay, Upward, Downward
<1>16. PipeCoder'
  <2>1. coding' => coded /\ linked = LastFilter
    BY <1>7, Zenon DEF PipeInv, PipeCoder
  <2>2. coding => fstate[3] \notin {"INITIALIZED", "STOPPED"}
    BY Zenon DEF PipeInv, PipeCoder
  <2>3. ASSUME coding' PROVE fstate'[3] \notin {"INITIALIZED", "STOPPED"}
    <3>1. CASE i = 3
      BY <1>6, <1>8, <3>1
    <3>2. CASE i = 2 /\ ~coding
      <4>1. coded /\ linked = LastFilter
        BY <2>1, <2>3
      <4>2. LastFilter = 3
        BY <4>1 DEF LastFilter
      <4>3. fstate[3] \in {"RUNNING", "ERROR"}
        BY <1>5, <3>2, <4>1, <4>2
      <4> QED
        BY <1>0, <1>6, <3>2, <4>3
    <3>3. CASE i # 3 /\ coding
      BY <1>0, <1>6, <2>2, <3>3
    <3>4. coding \/ i = 2
      BY <1>7, <2>3, Zenon
    <3>5. CASE i = 2 /\ coding
      BY <1>0, <1>6, <2>2, <3>5
    <3> QED
      BY <3>1, <3>2, <3>3, <3>4, <3>5
  <2> QED
    BY <1>0, <1>1, <1>8, <1>9, <2>1, <2>3, Zenon DEF PipeCoder
<1>17. PipeOkMeansFirstTwo'
  BY <1>1, <1>9 DEF PipeOkMeansFirstTwo, NoOp
<1> QED
  BY <1>10, <1>11, <1>12, <1>13, <1>14, <1>15, <1>16, <1>17 DEF PipeInv

\* What an answer of success says of the first two filters.
LEMMA AnswerFacts ==
  ASSUME PipeInv, op.way = "wait", inList, op.name \in PipeOps
  PROVE  Answer = "ok" => /\ ferr[1] = "ok" /\ fstate[1] = Target(op.name)
                          /\ linked >= 2 => fstate[2] = Target(op.name)
PROOF
<1> DEFINE st == Target(op.name)
<1>1. ferr[1] = "ok" => fstate[1] = st
  BY DEF PipeInv, PipePassed, Passed
<1>2. ferr[1] = "ok" /\ ferr[2] = "ok" /\ linked >= 2 => fstate[2] = st
  BY DEF PipeInv, PipePassed, Passed, PipeTypeOK
<1> HIDE DEF st
<1> DEFINE w3 == IF fstate[3] # st THEN ferr[3] ELSE "ok"
           w2 == IF fstate[2] # st THEN ferr[2] ELSE IF 2 < linked /\ w3 # "ok" THEN ferr[3] ELSE "ok"
<1>3. WaitAllState(st) = IF fstate[1] # st THEN ferr[1] ELSE IF 1 < linked /\ w2 # "ok" THEN ferr[2] ELSE "ok"
  BY WaitUnfolds DEF PipeInv
<1>4. Answer = IF ferr[1] # "ok" THEN ferr[1] ELSE WaitAllState(st)
  BY DEF Answer, st
<1>5. linked >= 2 => 1 < linked
  BY PipeSizes DEF PipeInv
<1>6. w2 = "ok" => fstate[2] = st \/ ferr[2] = "ok"
  OBVIOUS
<1> HIDE DEF w2
<1> QED
  BY <1>1, <1>2, <1>3, <1>4, <1>5, <1>6 DEF st

LEMMA PipeEnds == ASSUME PipeInv, OpEnds PROVE PipeInv'
PROOF
<1>0. /\ LastFilter \in {2, 3} /\ linked \in {1, 2, 3} /\ linked <= LastFilter /\ Filters = {1, 2, 3}
      /\ LastFilter' = LastFilter
  BY PipeShape DEF OpEnds
<1>1. /\ op.way = "wait" /\ op' = NoOp /\ result' = <<op.name, Answer>>
      /\ UNCHANGED <<side, coded, linked, fstate, ferr, coding, feed>>
  BY DEF OpEnds, frameVars
<1>2. inList' = (inList /\ op.name # "Stop")
  BY DEF OpEnds
<1>3. op.name \in PipeOps
  BY <1>1 DEF PipeInv, PipeOp, PipeTypeOK, NoOp, OpRecords
<1>4. op'.name = "none" /\ op'.way = "down" /\ op'.at = 0 /\ op' \in OpRecords
  BY <1>1 DEF NoOp, OpRecords
<1>5. PipeTypeOK'
  <2>1. inList' \in BOOLEAN
    BY <1>2, Zenon
  <2> QED
    BY <1>0, <1>1, <1>4, <2>1 DEF PipeInv, PipeTypeOK
<1>6. PipeOp'
  BY <1>1, <1>4 DEF PipeOp, NoOp
<1>7. PipeLinked' /\ PipeWay'
  BY <1>4 DEF PipeLinked, PipeWay, Upward, Downward
<1>8. PipePassed'
  BY <1>4 DEF PipePassed, Passed, Upward, Downward, PipeOps
<1>9. PipeHead'
  <2>1. side = "sender" /\ fstate[1] = "RUNNING" => fstate[2] \in {"RUNNING", "ERROR"}
    <3>1. CASE op.name = "Prepare" /\ inList
      <4>1. side = "sender" => fstate[1] = "READY"
        BY <1>1, <1>3, <3>1 DEF PipeInv, PipeHead, PipePassed, Passed, Target
      <4> QED
        BY <4>1
    <3>2. CASE ~(op.name = "Prepare" /\ inList)
      BY <3>2 DEF PipeInv, PipeHead
    <3> QED
      BY <3>1, <3>2
  <2> QED
    BY <1>1, <2>1 DEF PipeInv, PipeHead
<1>10. PipeCoder'
  BY <1>0, <1>1, <1>4, Zenon DEF PipeInv, PipeCoder
<1>11. PipeOkMeansFirstTwo'
  <2> SUFFICES ASSUME inList', Answer = "ok"
               PROVE  /\ op.name = "Prepare" => linked >= 2
                      /\ \A i \in 1..2 : i <= linked => fstate[i] = Target(op.name)
    <3>1. result'[1] = op.name /\ result'[2] = Answer
      BY <1>1
    <3>2. Target(result'[1]) = Target(op.name)
      BY <3>1
    <3> QED
      BY <1>1, <3>1, <3>2 DEF PipeOkMeansFirstTwo, Target
  <2>1. inList
    BY <1>2
  <2>2. ferr[1] = "ok" /\ fstate[1] = Target(op.name) /\ (linked >= 2 => fstate[2] = Target(op.name))
    BY <1>1, <1>3, <2>1, AnswerFacts
  <2>3. op.name = "Prepare" => linked >= 2
    BY <1>1, <2>1, <2>2 DEF PipeInv, PipeLinked
  <2>4. \A i \in 1..2 : i = 1 \/ i = 2
    OBVIOUS
  <2> QED
    BY <1>0, <2>2, <2>3, <2>4
<1> QED
  BY <1>5, <1>6, <1>7, <1>8, <1>9, <1>10, <1>11 DEF PipeInv

LEMMA PipeInvStep == PipeInv /\ [PipeNext]_pipeVars => PipeInv'
PROOF
<1> SUFFICES ASSUME PipeInv, [PipeNext]_pipeVars PROVE PipeInv'
  OBVIOUS
<1>1. CASE \E name \in PipeOps : OpBegins(name)
  BY <1>1, PipeBegins
<1>2. CASE PrepareDown \/ PrepareUp \/ VisitDown \/ VisitUp \/ OpEnds
  BY <1>2, PipePrepareDown, PipePrepareUp, PipeVisitDown, PipeVisitUp, PipeEnds
<1>3. CASE FrameSteps \/ PeerChannel \/ EngineEvent \/ UNCHANGED pipeVars
  <2>1. /\ UNCHANGED <<side, coded, linked, inList, fstate, ferr, op, result, coding>>
        /\ feed' \in {"accepted", "tested"} => side = "sender"
    BY <1>3 DEF FrameSteps, PipePushData, HeadTests, HeadPushes, ReceiverFrame, CoderTests, CoderPushes,
                OutputFrame, PipeHandleOutputBuffer, PeerChannel, EngineEvent, pipeVars, chainVars, runVars, frameVars, PipeInv, PipeHead
  <2>2. LastFilter' = LastFilter
    BY <2>1 DEF LastFilter
  <2>3. PipeTypeOK'
    BY <2>1, <2>2 DEF PipeInv, PipeTypeOK
  <2>4. PipeOp' /\ PipeLinked' /\ PipeWay'
    BY <2>1 DEF PipeInv, PipeOp, PipeLinked, PipeWay
  <2>5. PipePassed'
    <3>1. Target(op.name)' = Target(op.name) /\ Passed(1)' = Passed(1) /\ Passed(2)' = Passed(2)
      BY <2>1 DEF Target, Passed
    <3> QED
      BY <2>1, <3>1 DEF PipeInv, PipePassed
  <2>6. PipeHead'
    BY <2>1 DEF PipeInv, PipeHead
  <2>7. PipeCoder'
    BY <2>1, <2>2, Zenon DEF PipeInv, PipeCoder
  <2>8. PipeOkMeansFirstTwo'
    BY <2>1 DEF PipeInv, PipeOkMeansFirstTwo, Target
  <2> QED
    BY <2>3, <2>4, <2>5, <2>6, <2>7, <2>8 DEF PipeInv
<1> QED
  BY <1>1, <1>2, <1>3 DEF PipeNext, OpSteps, PipeOps

(* An operation that answers success on a pipeline with filters has        *)
(* brought its first two filters, as far as they are linked, into the      *)
(* state, in whatever order the engine lets the operations come: what the  *)
(* recursive calls ignore, WaitAllState sees.                              *)
THEOREM OkMeansFirstTwo == PipeSpec => []PipeOkMeansFirstTwo
PROOF
<1>1. PipeInv => PipeOkMeansFirstTwo
  BY DEF PipeInv
<1> QED
  BY <1>1, PipeInvInit, PipeInvStep, PTL DEF PipeSpec

(* The head lets a frame on only towards a filter that runs or has failed, *)
(* unless a running pipeline is prepared again, and the coder only towards *)
(* an output that was started and not stopped, whatever step of whatever   *)
(* operation the test meets and for any length of the filters' queues.     *)
THEOREM LetOnToStarted == PipeSpec => PipeLetOnToStarted
PROOF
<1> DEFINE A == /\ (feed # "tested" /\ feed' = "tested")
                     => fstate[2] \in {"RUNNING", "ERROR"} \/ op.name = "Prepare"
                /\ (~emit /\ emit') => fstate[3] \notin {"INITIALIZED", "STOPPED"}
<1>1. PipeInv /\ [PipeNext]_pipeVars => [A]_pipeVars
  <2> SUFFICES ASSUME PipeInv, PipeNext PROVE A
    BY DEF pipeVars
  <2>1. CASE HeadTests
    <3>1. fstate[1] = "RUNNING" /\ side = "sender" => fstate[2] \in {"RUNNING", "ERROR"} \/ op.name = "Prepare"
      BY DEF PipeInv, PipeHead
    <3>2. feed' = "tested" => fstate[1] = "RUNNING"
      BY <2>1 DEF HeadTests
    <3>3. side = "sender" /\ emit' = emit
      BY <2>1 DEF HeadTests, PipeInv, PipeHead
    <3> QED
      BY <3>1, <3>2, <3>3, Zenon
  <2>2. CASE CoderTests
    <3>1. fstate[3] \notin {"INITIALIZED", "STOPPED"} /\ feed' = feed
      BY <2>2, Zenon DEF CoderTests, PipeInv, PipeCoder
    <3> QED
      BY <3>1, Zenon
  <2>3. CASE CoderPushes \/ PipePushData \/ HeadPushes \/ OutputFrame \/ PipeHandleOutputBuffer
    <3>1. ~(feed # "tested" /\ feed' = "tested")
      BY <2>3 DEF CoderPushes, PipePushData, HeadPushes, OutputFrame, PipeHandleOutputBuffer
    <3>2. ~(~emit /\ emit')
      BY <2>3, Zenon DEF CoderPushes, PipePushData, HeadPushes, OutputFrame, PipeHandleOutputBuffer
    <3> QED
      BY <3>1, <3>2, Zenon
  <2>4. CASE ~(HeadTests \/ CoderTests \/ CoderPushes \/ PipePushData \/ HeadPushes
                 \/ OutputFrame \/ PipeHandleOutputBuffer)
    <3>1. feed' = feed /\ emit' = emit
      BY <2>4 DEF PipeNext, OpSteps, FrameSteps, OpBegins, PrepareDown, PrepareUp, VisitDown, VisitUp, OpEnds,
                  ReceiverFrame, PeerChannel, EngineEvent, frameVars
    <3> QED
      BY <3>1, Zenon
  <2> QED
    BY <2>1, <2>2, <2>3, <2>4, Zenon
<1> QED
  BY <1>1, PipeInvInit, PipeInvStep, PTL DEF PipeSpec, PipeLetOnToStarted

-----------------------------------------------------------------------------
(* A filter, its data plugin and the task thread.                          *)

AnyFrames == {"old", "new", "null"}

\* The steps that come before the first join of a Stop, those that start nothing,
\* and the step of a plugin's Stop that ends the loop of its handler.
EarlySteps == {"prepared", "notrunning", "stopTask", "clear"}
CalmSteps == EarlySteps \cup {"join", "dropTask", "unregister", "removeServer", "close", "nullCallback",
                              "initialized", "forget"}
PlgSteps == CalmSteps \cup {"open", "isrunning", "startTask", "running"}
OffStep == IF plgKind \in BusSenders THEN "prepared" ELSE "notrunning"

Ahead(step) == \E i \in 1..Len(plgTodo) : plgTodo[i] = step

\* The thread is out of its handler and cannot go in again.
Quiet == plgThread = "out" /\ ~LoopOn

Fresh == plgStarted /\ \A i \in 1..Len(plgQueue) : plgQueue[i] \in {"new", "null"}

\* All that the thread needs to hand on a frame.
Served == /\ hasPlugin /\ plgDataCb /\ Fresh
          /\ plgKind \in BusSenders => "channel" \in plgBus \/ "lost" \in plgBus

\* No task runs: nothing has been started, or the join of a Stop is over.  A plugin
\* that Start would accept has its callback: Reset, which takes it away, is never
\* over before the plugin is INITIALIZED.
Resting ==
  /\ Quiet
  /\ \A i \in 1..Len(plgTodo) : plgTodo[i] \in CalmSteps
  /\ hasPlugin /\ fltState = "READY" =>
       /\ ~Ahead("prepared")
       /\ plgState = "PREPARED" => Ahead("initialized") \/ (plgTodo = <<>> /\ plgDataCb)

\* Start has begun and has not emptied the queue yet.
Opening ==
  /\ Quiet /\ hasPlugin /\ plgDataCb /\ plgStarted
  /\ IF plgKind \in BusSenders
     THEN \/ plgTodo = <<"open", "clear", "startTask", "running">>
          \/ plgTodo = <<"clear", "startTask", "running">> /\ ("channel" \in plgBus \/ "lost" \in plgBus)
     ELSE plgTodo = <<"clear", "isrunning", "startTask", "running">>

\* From the emptied queue to the end of Start, and until Stop is called.
Serving ==
  /\ Served
  /\ \/ plgTodo \in {<<"isrunning", "startTask", "running">>, <<"startTask", "running">>, <<"running">>}
     \/ plgTodo = <<>> /\ plgState = "RUNNING" /\ fltState = "RUNNING"

\* Stop up to its join, at k: the loop has been told to end, or will be before k.
Stopping ==
  /\ Served /\ fltState = "RUNNING"
  /\ \E k \in 1..Len(plgTodo) :
       /\ plgTodo[k] = "join"
       /\ \A i \in 1..(k - 1) : plgTodo[i] \in EarlySteps
       /\ \A i \in k..Len(plgTodo) : plgTodo[i] \in CalmSteps
       /\ LoopOn => \E i \in 1..(k - 1) : plgTodo[i] = OffStep

PlgTypes ==
  plgKind \in PlgKinds /\ plgTodo \in Seq(PlgSteps) /\ plgQueue \in Seq(AnyFrames)

PlgInv ==
  /\ PlgTypes
  /\ plgThread = "deliver" => plgHeld = "new"
  /\ Resting \/ Opening \/ Serving \/ Stopping

LEMMA PlgInvInit == PlgInit => PlgInv
PROOF
<1> SUFFICES ASSUME PlgInit PROVE PlgInv
  OBVIOUS
<1>1. ~LoopOn
  BY DEF PlgInit, LoopOn
<1>2. plgTodo = <<>> /\ plgQueue = <<>>
  BY DEF PlgInit
<1>3. plgTodo \in Seq(PlgSteps) /\ plgQueue \in Seq(AnyFrames) /\ Len(plgTodo) = 0
  BY <1>2
<1>4. Resting
  BY <1>1, <1>3 DEF PlgInit, Resting, Quiet
<1> QED
  BY <1>3, <1>4 DEF PlgInit, PlgInv, PlgTypes

\* The operation under way has one step less.
LEMMA StepTaken ==
  ASSUME PlgTypes, ~PlgIdle, plgTodo' = Tail(plgTodo)
  PROVE  /\ plgTodo' \in Seq(PlgSteps) /\ Len(plgTodo) \in Nat \ {0}
         /\ Len(plgTodo') = Len(plgTodo) - 1 /\ Head(plgTodo) = plgTodo[1]
         /\ \A i \in 1..(Len(plgTodo) - 1) : plgTodo'[i] = plgTodo[i + 1]
PROOF
  BY DEF PlgTypes, PlgIdle

\* A frame put into the queue, and one taken out of it.
LEMMA PushedFacts ==
  ASSUME PlgTypes, NEW frame \in AnyFrames, plgQueue' = Pushed(frame)
  PROVE  /\ plgQueue' \in Seq(AnyFrames)
         /\ \A i \in 1..Len(plgQueue') : plgQueue'[i] = frame \/ \E j \in 1..Len(plgQueue) : plgQueue'[i] = plgQueue[j]
PROOF
<1> DEFINE q == plgQueue
<1>0. q \in Seq(AnyFrames) /\ Len(q) \in Nat
  BY DEF PlgTypes
<1>1. CASE Len(q) >= PlgQueueMax
  <2>1. Len(q) # 0 /\ plgQueue' = Append(Tail(q), frame)
    BY <1>0, <1>1, PlgBounds DEF Pushed
  <2> DEFINE t == Tail(q)
  <2>2. t \in Seq(AnyFrames) /\ Len(t) = Len(q) - 1 /\ \A i \in 1..Len(t) : t[i] = q[i + 1]
    BY <1>0, <2>1
  <2> HIDE DEF t
  <2>3. plgQueue' \in Seq(AnyFrames) /\ Len(plgQueue') = Len(t) + 1 /\ plgQueue'[Len(t) + 1] = frame
        /\ \A i \in 1..Len(t) : plgQueue'[i] = t[i]
    BY <2>1, <2>2 DEF t
  <2> HIDE DEF q
  <2> QED
    BY <1>0, <2>1, <2>2, <2>3 DEF q
<1>2. CASE ~(Len(q) >= PlgQueueMax)
  <2>1. plgQueue' = Append(q, frame)
    BY <1>2 DEF Pushed
  <2> QED
    BY <1>0, <2>1
<1> QED
  BY <1>1, <1>2


\* The steps of the task thread and of the frames leave the operation and what the
\* thread needs alone, keep a fresh queue fresh, and do not wake a quiet thread.
LEMMA FramesLeave ==
  ASSUME PlgInv, PlgFrames
  PROVE  /\ UNCHANGED <<plgKind, fltState, hasPlugin, plgState, plgRunning, plgStarted, plgDataCb, plgBus, plgTodo>>
         /\ plgQueue' \in Seq(AnyFrames)
         /\ Fresh => Fresh'
         /\ Quiet => plgThread' = "out"
         /\ (plgThread' = "deliver" => plgHeld' = "new") \/ ~(Quiet \/ Served)
PROOF
<1>0. PlgTypes /\ (plgThread = "deliver" => plgHeld = "new")
  BY DEF PlgInv
<1>1. ASSUME UNCHANGED plgQueue, UNCHANGED plgStarted PROVE plgQueue' \in Seq(AnyFrames) /\ (Fresh => Fresh')
  BY <1>0, <1>1 DEF PlgTypes, Fresh
<1>2. ASSUME NEW frame \in AnyFrames, plgQueue' = Pushed(frame), UNCHANGED plgStarted,
             plgStarted => frame # "old"
      PROVE  plgQueue' \in Seq(AnyFrames) /\ (Fresh => Fresh')
  BY <1>0, <1>2, PushedFacts DEF Fresh, AnyFrames
<1>3. FrameNow \in AnyFrames /\ (plgStarted => FrameNow # "old")
  BY DEF FrameNow, AnyFrames
<1>4. CASE FilterPushData
  BY <1>0, <1>2, <1>3, <1>4 DEF FilterPushData, plgLife, plgWork, Quiet
<1>5. CASE InputReceives
  BY <1>0, <1>2, <1>3, <1>5 DEF InputReceives, plgLife, plgWork, Quiet
<1>6. CASE InputAudioReceives
  <2>1. PICK frame \in {FrameNow, "null"} : plgQueue' = Pushed(frame)
    BY <1>6 DEF InputAudioReceives
  <2>2. frame \in AnyFrames /\ (plgStarted => frame # "old")
    BY <1>3 DEF AnyFrames
  <2>3. UNCHANGED <<plgKind, fltState, hasPlugin, plgState, plgRunning, plgStarted, plgDataCb, plgBus, plgTodo>>
        /\ UNCHANGED <<plgThread, plgHeld>>
    BY <1>6 DEF InputAudioReceives, plgLife, plgWork
  <2>4. plgQueue' \in Seq(AnyFrames) /\ (Fresh => Fresh')
    BY <1>2, <2>1, <2>2, <2>3
  <2> QED
    BY <1>0, <2>3, <2>4 DEF Quiet
<1>7. CASE HandlerBegins
  BY <1>0, <1>1, <1>7 DEF HandlerBegins, plgLife, Quiet
<1>8. CASE HandlerLoops
  BY <1>0, <1>1, <1>8 DEF HandlerLoops, plgLife, Quiet
<1>9. ASSUME plgThread = "wait", TakesFrame, UNCHANGED plgStarted
      PROVE  /\ plgQueue' \in Seq(AnyFrames) /\ (Fresh => Fresh')
             /\ plgThread' = "deliver" /\ Fresh => plgHeld' = "new"
  <2>1. CASE plgQueue = <<>>
    BY <1>1, <1>9, <2>1 DEF TakesFrame
  <2>2. CASE plgQueue # <<>>
    <3> DEFINE q == plgQueue
    <3>1. q \in Seq(AnyFrames) /\ Len(q) \in Nat \ {0} /\ Head(q) = q[1]
      BY <1>0, <2>2 DEF PlgTypes
    <3>2. plgQueue' = Tail(q) /\ plgHeld' = Head(q) /\ (plgThread' = "deliver" => Head(q) # "null")
      BY <1>9, <2>2 DEF TakesFrame
    <3>3. plgQueue' \in Seq(AnyFrames) /\ Len(plgQueue') = Len(q) - 1
          /\ \A i \in 1..(Len(q) - 1) : plgQueue'[i] = q[i + 1]
      BY <3>1, <3>2
    <3>4. Fresh => Fresh'
      BY <1>9, <3>1, <3>3 DEF Fresh
    <3>5. Fresh => q[1] \in {"new", "null"}
      BY <3>1 DEF Fresh
    <3> QED
      BY <3>1, <3>2, <3>3, <3>4, <3>5
  <2> QED
    BY <2>1, <2>2
<1>10. CASE FeedChannelData
  <2>1. UNCHANGED <<plgKind, fltState, hasPlugin, plgState, plgRunning, plgStarted, plgDataCb, plgBus, plgTodo>>
        /\ plgThread = "wait" /\ ~Quiet
    BY <1>10 DEF FeedChannelData, plgLife, Quiet
  <2>2. CASE plgState = "RUNNING"
    <3>1. TakesFrame
      BY <1>10, <2>2 DEF FeedChannelData
    <3> QED
      BY <1>9, <2>1, <3>1 DEF Served
  <2>3. CASE plgState # "RUNNING"
    <3>1. plgThread' = "out" /\ UNCHANGED plgQueue
      BY <1>10, <2>3 DEF FeedChannelData
    <3> QED
      BY <1>1, <2>1, <3>1
  <2> QED
    BY <2>2, <2>3
<1>11. CASE HandleData
  <2>1. UNCHANGED <<plgKind, fltState, hasPlugin, plgState, plgRunning, plgStarted, plgDataCb, plgBus, plgTodo>>
        /\ plgThread = "wait" /\ ~Quiet /\ TakesFrame
    BY <1>11 DEF HandleData, plgLife, Quiet
  <2> QED
    BY <1>9, <2>1 DEF Served
<1>12. CASE SendDataToSoftbus
  BY <1>1, <1>12 DEF SendDataToSoftbus, plgLife, Quiet
<1>13. CASE OnDataCallback
  BY <1>1, <1>13 DEF OnDataCallback, plgLife, Quiet
<1> QED
  BY <1>4, <1>5, <1>6, <1>7, <1>8, <1>10, <1>11, <1>12, <1>13 DEF PlgFrames

LEMMA PlgFramesStep == ASSUME PlgInv, PlgFrames PROVE PlgInv'
PROOF
<1>1. /\ UNCHANGED <<plgKind, fltState, hasPlugin, plgState, plgRunning, plgStarted, plgDataCb, plgBus, plgTodo>>
      /\ plgQueue' \in Seq(AnyFrames)
      /\ Fresh => Fresh'
      /\ Quiet => plgThread' = "out"
      /\ (plgThread' = "deliver" => plgHeld' = "new") \/ ~(Quiet \/ Served)
  BY FramesLeave
<1>2. PlgTypes'
  BY <1>1 DEF PlgInv, PlgTypes
<1>3. LoopOn' = LoopOn /\ OffStep' = OffStep
  BY <1>1 DEF LoopOn, OffStep
<1>4. (Quiet => Quiet') /\ (Served => Served')
  <2>1. Quiet => Quiet'
    BY <1>1, <1>3 DEF Quiet
  <2>2. Served => Served'
    BY <1>1 DEF Served
  <2> QED
    BY <2>1, <2>2
<1>5. Resting => Resting'
  BY <1>1, <1>4 DEF Resting, Ahead
<1>6. Opening => Opening'
  BY <1>1, <1>4 DEF Opening
<1>7. Serving => Serving'
  BY <1>1, <1>4 DEF Serving
<1>8. Stopping => Stopping'
  BY <1>1, <1>3, <1>4 DEF Stopping
<1>9. Quiet \/ Served
  BY DEF PlgInv, Resting, Opening, Serving, Stopping
<1> QED
  BY <1>1, <1>2, <1>5, <1>6, <1>7, <1>8, <1>9 DEF PlgInv


\* How the five plugins build their lists: Stop ends the loop before it joins the
\* task and starts nothing, and Reset ends with the plugin INITIALIZED.
LEMMA StopShape ==
  ASSUME plgKind \in PlgKinds
  PROVE  LET s == Plugin(plgKind).stop
         IN  /\ s \in Seq(CalmSteps)
             /\ \E k \in 1..Len(s) : /\ s[k] = "join"
                                     /\ \A i \in 1..(k - 1) : s[i] \in EarlySteps
                                     /\ \E i \in 1..(k - 1) : s[i] = OffStep
PROOF
<1> DEFINE s == Plugin(plgKind).stop
<1> SUFFICES \E k \in 1..Len(s) : /\ s \in Seq(CalmSteps) /\ s[k] = "join"
                                  /\ \A i \in 1..(k - 1) : s[i] \in EarlySteps
                                  /\ \E i \in 1..(k - 1) : s[i] = OffStep
  OBVIOUS
<1>1. CASE plgKind \in BusSenders
  <2>1. s = <<"prepared", "stopTask", "join", "clear", "close">>
    BY <1>1 DEF Plugin, DsoftbusOutputPlugin, DsoftbusOutputAudioPlugin, BusSenders
  <2> HIDE DEF s
  <2>2. s \in Seq(CalmSteps) /\ Len(s) = 5 /\ s[1] = "prepared" /\ s[2] = "stopTask" /\ s[3] = "join"
    BY <2>1 DEF CalmSteps, EarlySteps
  <2>4. 3 \in 1..Len(s) /\ 1 \in 1..(3 - 1)
    BY <2>2
  <2>3. \A i \in 1..(3 - 1) : i = 1 \/ i = 2
    OBVIOUS
  <2> QED
    BY <1>1, <2>2, <2>3, <2>4 DEF EarlySteps, OffStep
<1>2. CASE plgKind \in {"audioOut", "busIn"}
  <2>1. s = <<"prepared", "notrunning", "stopTask", "join", "clear">>
    BY <1>2 DEF Plugin, DaudioOutputPlugin, DsoftbusInputPlugin
  <2> HIDE DEF s
  <2>2. s \in Seq(CalmSteps) /\ Len(s) = 5 /\ s[1] = "prepared" /\ s[2] = "notrunning" /\ s[3] = "stopTask"
        /\ s[4] = "join"
    BY <2>1 DEF CalmSteps, EarlySteps
  <2>4. 4 \in 1..Len(s) /\ 2 \in 1..(4 - 1)
    BY <2>2
  <2>3. \A i \in 1..(4 - 1) : i = 1 \/ i = 2 \/ i = 3
    OBVIOUS
  <2> QED
    BY <1>2, <2>2, <2>3, <2>4 DEF EarlySteps, OffStep, BusSenders
<1>3. CASE plgKind = "busInAudio"
  <2>1. s = <<"prepared", "notrunning", "clear", "stopTask", "join">>
    BY <1>3 DEF Plugin, DsoftbusInputAudioPlugin
  <2> HIDE DEF s
  <2>2. s \in Seq(CalmSteps) /\ Len(s) = 5 /\ s[1] = "prepared" /\ s[2] = "notrunning" /\ s[3] = "clear"
        /\ s[4] = "stopTask" /\ s[5] = "join"
    BY <2>1 DEF CalmSteps, EarlySteps
  <2>4. 5 \in 1..Len(s) /\ 2 \in 1..(5 - 1)
    BY <2>2
  <2>3. \A i \in 1..(5 - 1) : i = 1 \/ i = 2 \/ i = 3 \/ i = 4
    OBVIOUS
  <2> QED
    BY <1>3, <2>2, <2>3, <2>4 DEF EarlySteps, OffStep, BusSenders
<1> QED
  BY <1>1, <1>2, <1>3 DEF PlgKinds, BusSenders

ResetOnly == CalmSteps \ {"prepared", "forget"}

LEMMA ResetShape ==
  ASSUME plgKind \in PlgKinds
  PROVE  /\ ResetSteps \in Seq(ResetOnly)
         /\ \E i \in 1..Len(ResetSteps) : ResetSteps[i] = "initialized"
PROOF
<1> DEFINE r == Plugin(plgKind).reset
<1> DEFINE t == IF plgTask = "none" THEN <<>> ELSE r.task
<1>1. /\ r.first \in Seq(ResetOnly) /\ r.task \in Seq(ResetOnly) /\ r.last \in Seq(ResetOnly)
      /\ Len(r.last) # 0 /\ r.last[Len(r.last)] = "initialized"
  <2>1. CASE plgKind = "busOut"
    <3>1. r.first = <<>> /\ r.task = <<"stopTask", "join", "dropTask">>
          /\ r.last = <<"clear", "unregister", "initialized">>
      BY <2>1 DEF Plugin, DsoftbusOutputPlugin
    <3> HIDE DEF r
    <3> QED
      BY <3>1 DEF ResetOnly, CalmSteps, EarlySteps
  <2>2. CASE plgKind = "busOutAudio"
    <3>1. r.first = <<>> /\ r.task = <<"stopTask", "join", "dropTask">>
          /\ r.last = <<"clear", "removeServer", "unregister", "initialized">>
      BY <2>2 DEF Plugin, DsoftbusOutputAudioPlugin
    <3> HIDE DEF r
    <3> QED
      BY <3>1 DEF ResetOnly, CalmSteps, EarlySteps
  <2>3. CASE plgKind = "audioOut"
    <3>1. r.first = <<>> /\ r.task = <<"notrunning", "stopTask", "join", "dropTask">>
          /\ r.last = <<"clear", "initialized">>
      BY <2>3 DEF Plugin, DaudioOutputPlugin
    <3> HIDE DEF r
    <3> QED
      BY <3>1 DEF ResetOnly, CalmSteps, EarlySteps
  <2>4. CASE plgKind \in PlgInputs
    <3>1. r.first = <<"nullCallback">> /\ r.task = <<"notrunning", "stopTask", "join", "dropTask">>
          /\ r.last = <<"clear", "removeServer", "unregister", "initialized">>
      BY <2>4 DEF Plugin, DsoftbusInputPlugin, DsoftbusInputAudioPlugin, PlgInputs
    <3> HIDE DEF r
    <3> QED
      BY <3>1 DEF ResetOnly, CalmSteps, EarlySteps
  <2> QED
    BY <2>1, <2>2, <2>3, <2>4 DEF PlgKinds, PlgInputs
<1>2. ResetSteps = r.first \o t \o r.last
  BY DEF ResetSteps
<1> HIDE DEF r
<1>3. t \in Seq(ResetOnly)
  BY <1>1
<1> HIDE DEF t
<1> DEFINE a == r.first \o t
           b == r.last
<1>4. a \in Seq(ResetOnly) /\ b \in Seq(ResetOnly) /\ ResetSteps = a \o b /\ Len(b) # 0 /\ b[Len(b)] = "initialized"
  BY <1>1, <1>2, <1>3
<1> HIDE DEF a, b
<1>5. a \o b \in Seq(ResetOnly) /\ Len(a \o b) = Len(a) + Len(b) /\ Len(a) \in Nat /\ Len(b) \in Nat \ {0}
  BY <1>4
<1>6. (a \o b)[Len(a) + Len(b)] = b[Len(b)]
  BY <1>4, <1>5
<1> QED
  BY <1>4, <1>5, <1>6

\* What the steps of a list do when the next one of it is behind the first.
LEMMA RestingStep ==
  ASSUME PlgInv, Resting, ~PlgIdle, PlgOperations
  PROVE  PlgInv'
PROOF
<1>0. PlgTypes /\ plgThread = "out" /\ ~LoopOn /\ plgTodo[1] \in CalmSteps /\ plgTodo[1] = Head(plgTodo)
  BY DEF PlgInv, PlgTypes, PlgIdle, Resting, Quiet
<1>1. /\ plgTodo' = Tail(plgTodo)
      /\ UNCHANGED <<plgKind, plgThread, plgHeld>>
      /\ plgQueue' \in Seq(AnyFrames)
      /\ plgState' = IF Head(plgTodo) = "prepared" THEN "PREPARED"
                     ELSE IF Head(plgTodo) = "initialized" THEN "INITIALIZED" ELSE plgState
      /\ plgRunning' = IF Head(plgTodo) = "notrunning" THEN FALSE ELSE plgRunning
      /\ Head(plgTodo) = "forget" \/ UNCHANGED <<hasPlugin, fltState>>
      /\ Head(plgTodo) = "forget" => ~hasPlugin'
  <2>0. plgQueue \in Seq(AnyFrames)
    BY <1>0 DEF PlgTypes
  <2>1. CASE StateStep
    BY <1>0, <2>0, <2>1 DEF StateStep, AtStep, plgLife, plgWork, CalmSteps, EarlySteps
  <2>2. CASE QueueStep
    <3>1. plgQueue' = <<>>
      BY <2>2 DEF QueueStep
    <3>2. plgQueue' \in Seq(AnyFrames)
      BY <3>1
    <3> QED
      BY <1>0, <3>2, <2>2 DEF QueueStep, AtStep, plgLife, plgWork
  <2>3. CASE TaskStep
    BY <1>0, <2>0, <2>3 DEF TaskStep, AtStep, plgLife, plgWork
  <2>4. CASE CallbackStep
    BY <1>0, <2>0, <2>4 DEF CallbackStep, AtStep, plgLife, plgWork
  <2>5. CASE BusStep
    BY <1>0, <2>0, <2>5 DEF BusStep, AtStep, plgLife, plgWork, CalmSteps, EarlySteps
  <2>6. CASE ForgetStep
    BY <1>0, <2>0, <2>6 DEF ForgetStep, AtStep, plgWork
  <2>7. ~RunningStep
    BY <1>0 DEF RunningStep, AtStep, CalmSteps, EarlySteps
  <2> QED
    BY <2>1, <2>2, <2>3, <2>4, <2>5, <2>6, <2>7
    DEF PlgOperations, OutputPrepare, InputPrepare, ConfigureFails, FilterStart, FilterStop
<1>2. /\ plgTodo' \in Seq(PlgSteps) /\ Len(plgTodo) \in Nat \ {0}
      /\ Len(plgTodo') = Len(plgTodo) - 1
      /\ \A i \in 1..(Len(plgTodo) - 1) : plgTodo'[i] = plgTodo[i + 1]
  BY <1>0, <1>1, StepTaken
<1>3. PlgTypes'
  BY <1>0, <1>1, <1>2 DEF PlgTypes
<1>4. ~LoopOn'
  <2>1. CASE plgKind \in BusSenders
    BY <1>0, <1>1, <2>1 DEF LoopOn
  <2>2. CASE plgKind \notin BusSenders
    BY <1>0, <1>1, <2>2 DEF LoopOn
  <2> QED
    BY <2>1, <2>2
<1>5. \A i \in 1..Len(plgTodo') : plgTodo'[i] \in CalmSteps
  BY <1>2 DEF Resting
<1>6. ASSUME hasPlugin', fltState' = "READY"
      PROVE  ~Ahead("prepared")' /\ (plgState' = "PREPARED" => Ahead("initialized")')
  <2>1. hasPlugin /\ fltState = "READY" /\ Head(plgTodo) # "forget"
    BY <1>1, <1>6
  <2>2. ~Ahead("prepared") /\ Head(plgTodo) # "prepared"
    BY <1>0, <1>2, <2>1 DEF Resting, Ahead
  <2>3. ~Ahead("prepared")'
    BY <1>2, <2>2 DEF Ahead
  <2>4. plgState' = "PREPARED" => plgState = "PREPARED" /\ Head(plgTodo) # "initialized"
    BY <1>1, <2>2
  <2>5. plgState = "PREPARED" => Ahead("initialized")
    BY <1>2, <2>1 DEF Resting
  <2>6. Ahead("initialized") /\ Head(plgTodo) # "initialized" => Ahead("initialized")'
    <3> SUFFICES ASSUME NEW i \in 1..Len(plgTodo), plgTodo[i] = "initialized", Head(plgTodo) # "initialized"
                 PROVE  Ahead("initialized")'
      BY DEF Ahead
    <3>1. i - 1 \in 1..Len(plgTodo') /\ plgTodo'[i - 1] = "initialized"
      BY <1>0, <1>2
    <3> QED
      BY <3>1 DEF Ahead
  <2> QED
    BY <2>3, <2>4, <2>5, <2>6
<1>7. Resting'
  BY <1>0, <1>1, <1>4, <1>5, <1>6 DEF Resting, Quiet
<1> QED
  BY <1>0, <1>1, <1>3, <1>7 DEF PlgInv


\* The lists of Start, one step further.
LEMMA StartTails ==
  /\ Tail(<<"clear", "isrunning", "startTask", "running">>) = <<"isrunning", "startTask", "running">>
  /\ Tail(<<"clear", "startTask", "running">>) = <<"startTask", "running">>
  /\ Tail(<<"isrunning", "startTask", "running">>) = <<"startTask", "running">>
  /\ Tail(<<"startTask", "running">>) = <<"running">>
  /\ Tail(<<"running">>) = <<>>
PROOF
<1>1. Tail(<<"clear", "isrunning", "startTask", "running">>) = <<"isrunning", "startTask", "running">>
  OBVIOUS
<1>2. Tail(<<"clear", "startTask", "running">>) = <<"startTask", "running">>
  OBVIOUS
<1>3. Tail(<<"isrunning", "startTask", "running">>) = <<"startTask", "running">>
  OBVIOUS
<1>4. Tail(<<"startTask", "running">>) = <<"running">>
  OBVIOUS
<1>5. Tail(<<"running">>) = <<>>
  OBVIOUS
<1> QED
  BY <1>1, <1>2, <1>3, <1>4, <1>5

\* Start: the queue is emptied before anything can take from it.
LEMMA OpeningStep ==
  ASSUME PlgInv, Opening, PlgOperations
  PROVE  PlgInv'
PROOF
<1>0. PlgTypes /\ plgThread = "out" /\ ~LoopOn /\ plgQueue \in Seq(AnyFrames) /\ plgKind \in PlgKinds
      /\ hasPlugin /\ plgDataCb /\ plgStarted
  BY DEF PlgInv, PlgTypes, Opening, Quiet
<1>1. plgTodo \in {<<"open", "clear", "startTask", "running">>, <<"clear", "startTask", "running">>,
                   <<"clear", "isrunning", "startTask", "running">>}
  BY DEF Opening
<1>2. ~PlgIdle /\ Head(plgTodo) \in {"open", "clear"}
  BY <1>1 DEF PlgIdle
<1>3. QueueStep \/ BusStep
  BY <1>2 DEF PlgOperations, OutputPrepare, InputPrepare, ConfigureFails, FilterStart, FilterStop,
              StateStep, RunningStep, TaskStep, CallbackStep, ForgetStep, AtStep
<1>4. CASE QueueStep
  <2>1. /\ plgQueue' = <<>> /\ plgTodo' = Tail(plgTodo) /\ Head(plgTodo) = "clear"
        /\ UNCHANGED <<plgKind, fltState, hasPlugin, plgThread, plgHeld, plgStarted, plgDataCb, plgBus>>
    BY <1>4 DEF QueueStep, AtStep, plgLife, plgWork
  <2>2. plgQueue' \in Seq(AnyFrames) /\ Len(plgQueue') = 0
    BY <2>1
  <2>3. Fresh'
    BY <1>0, <2>1, <2>2 DEF Fresh
  <2>4. plgTodo # <<"open", "clear", "startTask", "running">>
    BY <2>1
  <2>5. Served'
    BY <1>0, <2>1, <2>3, <2>4 DEF Served, Opening
  <2>6. plgTodo' \in {<<"isrunning", "startTask", "running">>, <<"startTask", "running">>}
    BY <1>1, <2>1, <2>4, StartTails, Zenon
  <2>7. plgTodo' \in Seq(PlgSteps)
    BY <1>0, <1>2, <2>1, StepTaken
  <2> HIDE DEF Served
  <2> QED
    BY <1>0, <2>1, <2>2, <2>5, <2>6, <2>7 DEF PlgInv, PlgTypes, Serving
<1>5. CASE BusStep
  <2>1. /\ Head(plgTodo) = "open" /\ plgTodo = <<"open", "clear", "startTask", "running">>
        /\ plgKind \in BusSenders
        /\ UNCHANGED <<plgKind, fltState, hasPlugin, plgState, plgRunning, plgThread, plgHeld, plgQueue, plgDataCb>>
    <3>1. Head(plgTodo) = "open"
      BY <1>2, <1>5 DEF BusStep, AtStep
    <3>2. plgTodo = <<"open", "clear", "startTask", "running">> /\ plgKind \in BusSenders
      BY <3>1 DEF Opening
    <3> QED
      BY <1>5, <3>1, <3>2 DEF BusStep, plgLife, plgWork
  <2>2. ~LoopOn'
    BY <1>0, <2>1 DEF LoopOn
  <2>3. CASE plgTodo' = <<>>
    <3>1. plgTodo' \in Seq(PlgSteps) /\ Len(plgTodo') = 0
      BY <2>3
    <3>2. Resting'
      BY <1>0, <2>1, <2>2, <2>3, <3>1 DEF Resting, Quiet, Ahead
    <3> QED
      BY <1>0, <2>1, <3>1, <3>2 DEF PlgInv, PlgTypes
  <2>4. CASE plgTodo' # <<>>
    <3>1. plgTodo' = Tail(plgTodo) /\ plgBus' = (plgBus \ {"lost"}) \cup {"listener", "channel"} /\ UNCHANGED plgStarted
      BY <1>5, <2>1, <2>4 DEF BusStep, AtStep
    <3>2. plgTodo' = <<"clear", "startTask", "running">>
      BY <2>1, <3>1
    <3>3. plgTodo' \in Seq(PlgSteps)
      BY <3>2 DEF PlgSteps, CalmSteps, EarlySteps
    <3>4. Opening'
      BY <1>0, <2>1, <2>2, <3>1, <3>2 DEF Opening, Quiet
    <3> QED
      BY <1>0, <2>1, <3>3, <3>4 DEF PlgInv, PlgTypes
  <2> QED
    BY <2>3, <2>4
<1> QED
  BY <1>3, <1>4, <1>5

\* The rest of Start.
LEMMA ServingStep ==
  ASSUME PlgInv, Serving, ~PlgIdle, PlgOperations
  PROVE  PlgInv'
PROOF
<1>0. PlgTypes /\ plgQueue \in Seq(AnyFrames) /\ plgKind \in PlgKinds /\ Served
      /\ (plgThread = "deliver" => plgHeld = "new")
  BY DEF PlgInv, PlgTypes, Serving
<1>1. plgTodo \in {<<"isrunning", "startTask", "running">>, <<"startTask", "running">>, <<"running">>}
  BY DEF Serving, PlgIdle
<1>2. Head(plgTodo) \in {"isrunning", "startTask", "running"}
      /\ Tail(plgTodo) \in {<<"startTask", "running">>, <<"running">>, <<>>}
      /\ (Tail(plgTodo) = <<>> => Head(plgTodo) = "running")
  <2>1. CASE plgTodo = <<"isrunning", "startTask", "running">>
    <3>1. Head(plgTodo) = "isrunning" /\ <<"startTask", "running">> # <<>>
      BY <2>1
    <3> QED
      BY <2>1, <3>1, StartTails, Zenon
  <2>2. CASE plgTodo = <<"startTask", "running">>
    <3>1. Head(plgTodo) = "startTask" /\ <<"running">> # <<>>
      BY <2>2
    <3> QED
      BY <2>2, <3>1, StartTails, Zenon
  <2>3. CASE plgTodo = <<"running">>
    <3>1. Head(plgTodo) = "running"
      BY <2>3
    <3> QED
      BY <2>3, <3>1, StartTails, Zenon
  <2> QED
    BY <1>1, <2>1, <2>2, <2>3
<1>3. StateStep \/ TaskStep \/ RunningStep
  BY <1>2 DEF PlgOperations, OutputPrepare, InputPrepare, ConfigureFails, FilterStart, FilterStop,
              QueueStep, CallbackStep, BusStep, ForgetStep, AtStep
<1>4. /\ plgTodo' = Tail(plgTodo)
      /\ UNCHANGED <<plgKind, hasPlugin, plgThread, plgHeld, plgQueue, plgStarted, plgDataCb, plgBus>>
      /\ Head(plgTodo) = "running" => plgState' = "RUNNING" /\ fltState' = "RUNNING"
  BY <1>2, <1>3 DEF StateStep, TaskStep, RunningStep, AtStep, plgLife, plgWork
<1>5. Served'
  BY <1>0, <1>4 DEF Served, Fresh
<1>6. plgTodo' \in Seq(PlgSteps)
  BY <1>0, <1>4, StepTaken
<1>7. Serving'
  BY <1>2, <1>4, <1>5 DEF Serving
<1> QED
  BY <1>0, <1>4, <1>6, <1>7 DEF PlgInv, PlgTypes

\* Stop: the thread keeps what it needs up to the join, and is out of its handler
\* behind it.
LEMMA StoppingStep ==
  ASSUME PlgInv, Stopping, PlgOperations
  PROVE  PlgInv'
PROOF
<1>0. PlgTypes /\ plgQueue \in Seq(AnyFrames) /\ plgKind \in PlgKinds /\ Served /\ fltState = "RUNNING"
      /\ (plgThread = "deliver" => plgHeld = "new")
  BY DEF PlgInv, PlgTypes, Stopping
<1>1. PICK k \in 1..Len(plgTodo) :
        /\ plgTodo[k] = "join"
        /\ \A i \in 1..(k - 1) : plgTodo[i] \in EarlySteps
        /\ \A i \in k..Len(plgTodo) : plgTodo[i] \in CalmSteps
        /\ LoopOn => \E i \in 1..(k - 1) : plgTodo[i] = OffStep
  BY DEF Stopping
<1>2. ~PlgIdle /\ Head(plgTodo) = plgTodo[1] /\ Len(plgTodo) \in Nat \ {0} /\ k \in Nat \ {0} /\ k <= Len(plgTodo)
  BY <1>0 DEF PlgTypes, PlgIdle
<1>3. Head(plgTodo) \in EarlySteps \cup {"join"} /\ (k # 1 => Head(plgTodo) \in EarlySteps)
      /\ (k = 1 => Head(plgTodo) = "join")
  BY <1>1, <1>2
<1>4. StateStep \/ QueueStep \/ TaskStep
  BY <1>2, <1>3 DEF PlgOperations, OutputPrepare, InputPrepare, ConfigureFails, FilterStart, FilterStop,
                    RunningStep, CallbackStep, BusStep, ForgetStep, AtStep, EarlySteps
<1>5. /\ plgTodo' = Tail(plgTodo)
      /\ UNCHANGED <<plgKind, fltState, hasPlugin, plgThread, plgHeld, plgStarted, plgDataCb, plgBus>>
      /\ plgQueue' = plgQueue \/ plgQueue' = <<>>
      /\ plgState' = IF Head(plgTodo) = "prepared" THEN "PREPARED" ELSE plgState
      /\ plgRunning' = IF Head(plgTodo) = "notrunning" THEN FALSE ELSE plgRunning
      /\ Head(plgTodo) = "join" => plgThread = "out"
  BY <1>3, <1>4 DEF StateStep, QueueStep, TaskStep, AtStep, plgLife, plgWork, EarlySteps
<1>6. /\ plgTodo' \in Seq(PlgSteps)
      /\ Len(plgTodo') = Len(plgTodo) - 1
      /\ \A i \in 1..(Len(plgTodo) - 1) : plgTodo'[i] = plgTodo[i + 1]
  BY <1>0, <1>2, <1>5, StepTaken
<1>7. plgQueue' \in Seq(AnyFrames) /\ Fresh'
  <2>1. CASE plgQueue' = plgQueue
    BY <1>0, <1>5, <2>1 DEF Served, Fresh
  <2>2. CASE plgQueue' = <<>>
    <3>1. plgQueue' \in Seq(AnyFrames) /\ Len(plgQueue') = 0
      BY <2>2
    <3> QED
      BY <1>0, <1>5, <3>1 DEF Served, Fresh
  <2> QED
    BY <1>5, <2>1, <2>2
<1>8. Served'
  BY <1>0, <1>5, <1>7 DEF Served
<1>9. PlgTypes'
  BY <1>0, <1>5, <1>6, <1>7 DEF PlgTypes
<1>10. OffStep' = OffStep /\ (LoopOn' => LoopOn) /\ (Head(plgTodo) = OffStep => ~LoopOn')
  <2>1. CASE plgKind \in BusSenders
    BY <1>5, <2>1 DEF OffStep, LoopOn
  <2>2. CASE plgKind \notin BusSenders
    BY <1>5, <2>2 DEF OffStep, LoopOn
  <2> QED
    BY <2>1, <2>2
<1>11. CASE k = 1
  <2>1. ~LoopOn /\ plgThread' = "out"
    BY <1>1, <1>3, <1>5, <1>11
  <2>2. \A i \in 1..Len(plgTodo') : plgTodo'[i] \in CalmSteps
    BY <1>1, <1>2, <1>6, <1>11
  <2>3. Resting'
    BY <1>0, <1>5, <1>10, <2>1, <2>2 DEF Resting, Quiet
  <2> QED
    BY <1>0, <1>5, <1>9, <2>3 DEF PlgInv
<1>12. CASE k # 1
  <2>1. k - 1 \in 1..Len(plgTodo') /\ plgTodo'[k - 1] = "join"
    BY <1>1, <1>2, <1>6, <1>12
  <2>2. \A i \in 1..((k - 1) - 1) : plgTodo'[i] \in EarlySteps
    BY <1>1, <1>2, <1>6, <1>12
  <2>3. \A i \in (k - 1)..Len(plgTodo') : plgTodo'[i] \in CalmSteps
    BY <1>1, <1>2, <1>6, <1>12
  <2>4. LoopOn' => \E i \in 1..((k - 1) - 1) : plgTodo'[i] = OffStep'
    <3> SUFFICES ASSUME LoopOn' PROVE \E i \in 1..((k - 1) - 1) : plgTodo'[i] = OffStep'
      OBVIOUS
    <3>1. PICK i \in 1..(k - 1) : plgTodo[i] = OffStep
      BY <1>1, <1>10
    <3>2. i # 1
      BY <1>2, <1>10, <3>1
    <3>3. i - 1 \in 1..((k - 1) - 1) /\ plgTodo'[i - 1] = OffStep'
      BY <1>2, <1>6, <1>10, <3>1, <3>2
    <3> QED
      BY <3>3
  <2>5. Stopping'
    BY <1>0, <1>5, <1>8, <2>1, <2>2, <2>3, <2>4 DEF Stopping
  <2> QED
    BY <1>0, <1>5, <1>9, <2>5 DEF PlgInv
<1> QED
  BY <1>11, <1>12


\* Elements of a list put together from two.
LEMMA ConcatElements ==
  ASSUME NEW S, NEW a \in Seq(S), NEW b \in Seq(S)
  PROVE  /\ a \o b \in Seq(S) /\ Len(a \o b) = Len(a) + Len(b) /\ Len(a) \in Nat /\ Len(b) \in Nat
         /\ \A i \in 1..Len(a) : (a \o b)[i] = a[i]
         /\ \A i \in 1..Len(b) : (a \o b)[Len(a) + i] = b[i]
PROOF
  OBVIOUS

\* The operations begin: Prepare, Start and Stop of an idle filter.
LEMMA IdleStep ==
  ASSUME PlgInv, PlgIdle, PlgOperations
  PROVE  PlgInv'
PROOF
<1>0. PlgTypes /\ plgKind \in PlgKinds /\ plgQueue \in Seq(AnyFrames) /\ plgTodo = <<>> /\ Len(plgTodo) = 0
      /\ (plgThread = "deliver" => plgHeld = "new")
  BY DEF PlgInv, PlgTypes, PlgIdle
<1>1. Resting \/ Serving
  BY <1>0 DEF PlgInv, Opening, Stopping
<1>2. Serving => plgState = "RUNNING" /\ fltState = "RUNNING" /\ Served
  BY <1>0 DEF Serving
<1>3. CASE ConfigureFails \/ \E ok \in BOOLEAN : OutputPrepare(ok) \/ InputPrepare(ok)
  <2>1. /\ fltState = "INITIALIZED" /\ plgQueue' = <<>>
        /\ UNCHANGED <<plgKind, plgRunning, plgThread, plgHeld, plgTodo>>
        /\ plgState' \in {"PREPARED", "INITIALIZED"}
        /\ fltState' = "READY" => plgDataCb'
    <3>1. CASE ConfigureFails
      BY <3>1 DEF ConfigureFails, plgWork
    <3>2. ASSUME NEW ok \in BOOLEAN, OutputPrepare(ok)
          PROVE  /\ fltState = "INITIALIZED" /\ plgQueue' = <<>>
                 /\ UNCHANGED <<plgKind, plgRunning, plgThread, plgHeld, plgTodo>>
                 /\ plgState' \in {"PREPARED", "INITIALIZED"}
                 /\ fltState' = "READY" => plgDataCb'
      BY <3>2 DEF OutputPrepare, plgWork
    <3>3. ASSUME NEW ok \in BOOLEAN, InputPrepare(ok)
          PROVE  /\ fltState = "INITIALIZED" /\ plgQueue' = <<>>
                 /\ UNCHANGED <<plgKind, plgRunning, plgThread, plgHeld, plgTodo>>
                 /\ plgState' \in {"PREPARED", "INITIALIZED"}
                 /\ fltState' = "READY" => plgDataCb'
      BY <3>3 DEF InputPrepare, plgWork
    <3> QED
      BY <1>3, <3>1, <3>2, <3>3
  <2>2. Resting /\ Quiet
    BY <1>1, <1>2, <2>1 DEF Resting
  <2>3. ~LoopOn'
    BY <2>1, <2>2 DEF Quiet, LoopOn
  <2>4. plgQueue' \in Seq(AnyFrames)
    BY <2>1
  <2>5. Resting'
    BY <1>0, <2>1, <2>2, <2>3 DEF Resting, Quiet, Ahead
  <2> QED
    BY <1>0, <2>1, <2>4, <2>5 DEF PlgInv, PlgTypes
<1>4. CASE FilterStart
  <2>1. /\ fltState = "READY" /\ hasPlugin /\ plgState = "PREPARED"
        /\ plgTodo' = Plugin(plgKind).start /\ plgStarted'
        /\ UNCHANGED <<plgKind, hasPlugin, plgState, plgRunning, plgThread, plgHeld, plgQueue, plgDataCb>>
    BY <1>4 DEF FilterStart, plgLife, plgWork
  <2>2. Resting /\ Quiet
    BY <1>1, <1>2, <2>1 DEF Resting
  <2>3. plgDataCb
    BY <1>0, <2>1, <2>2 DEF Resting, Ahead
  <2>4. Quiet'
    <3>1. LoopOn' = LoopOn
      BY <2>1 DEF LoopOn
    <3> QED
      BY <2>1, <2>2, <3>1 DEF Quiet
  <2>5. plgTodo' = IF plgKind \in BusSenders THEN <<"open", "clear", "startTask", "running">>
                   ELSE <<"clear", "isrunning", "startTask", "running">>
    <3>1. CASE plgKind \in BusSenders
      BY <2>1, <3>1 DEF Plugin, DsoftbusOutputPlugin, DsoftbusOutputAudioPlugin, BusSenders
    <3>2. CASE plgKind \in {"audioOut", "busIn", "busInAudio"}
      BY <2>1, <3>2 DEF Plugin, DaudioOutputPlugin, DsoftbusInputPlugin, DsoftbusInputAudioPlugin, BusSenders
    <3> QED
      BY <1>0, <3>1, <3>2 DEF PlgKinds, BusSenders
  <2>6. plgTodo' \in Seq(PlgSteps)
    <3>1. CASE plgKind \in BusSenders
      BY <2>5, <3>1 DEF PlgSteps, CalmSteps, EarlySteps
    <3>2. CASE plgKind \notin BusSenders
      BY <2>5, <3>2 DEF PlgSteps, CalmSteps, EarlySteps
    <3> QED
      BY <3>1, <3>2
  <2>7. Opening'
    BY <2>1, <2>3, <2>4, <2>5 DEF Opening
  <2> QED
    BY <1>0, <2>1, <2>6, <2>7 DEF PlgInv, PlgTypes
<1>5. CASE FilterStop
  <2> DEFINE r == ResetSteps
             s == Plugin(plgKind).stop
             f == <<"forget">>
  <2>1. r \in Seq(ResetOnly) /\ \E i \in 1..Len(r) : r[i] = "initialized"
    BY <1>0, ResetShape
  <2>2. s \in Seq(CalmSteps)
        /\ \E k \in 1..Len(s) : /\ s[k] = "join"
                                /\ \A i \in 1..(k - 1) : s[i] \in EarlySteps
                                /\ \E i \in 1..(k - 1) : s[i] = OffStep
    BY <1>0, StopShape
  <2>3. f \in Seq(CalmSteps)
    BY DEF CalmSteps
  <2>4. /\ UNCHANGED <<plgKind, fltState, hasPlugin, plgState, plgRunning, plgThread, plgHeld, plgQueue,
                       plgStarted, plgDataCb, plgBus>>
        /\ fltState # "RUNNING" => plgTodo' = r
        /\ fltState = "RUNNING" /\ plgState = "RUNNING" => plgTodo' = s \o r \o f
        /\ fltState = "RUNNING" /\ plgState # "RUNNING" => plgTodo' = <<>> \o r \o f
    BY <1>5 DEF FilterStop, plgLife, plgWork
  <2> HIDE DEF r, s, f
  <2>5. r \in Seq(CalmSteps) /\ \A i \in 1..Len(r) : r[i] # "prepared"
    BY <2>1 DEF ResetOnly
  <2>6. (LoopOn' <=> LoopOn) /\ OffStep' = OffStep /\ (Served => Served') /\ (Quiet => Quiet')
    <3>1. (LoopOn' = LoopOn) /\ OffStep' = OffStep
      BY <2>4 DEF LoopOn, OffStep
    <3>2. Served => Served'
      BY <2>4 DEF Served, Fresh
    <3> QED
      BY <2>4, <3>1, <3>2 DEF Quiet
  <2>7. Seq(CalmSteps) \subseteq Seq(PlgSteps)
    BY DEF PlgSteps
  <2>8. CASE fltState # "RUNNING"
    <3>1. Resting /\ Quiet
      BY <1>1, <1>2, <2>8 DEF Resting
    <3>2. plgTodo' = r
      BY <2>4, <2>8
    <3>3. Resting'
      BY <2>1, <2>4, <2>5, <2>6, <3>1, <3>2 DEF Resting, Ahead
    <3> QED
      BY <1>0, <2>4, <2>5, <2>7, <3>2, <3>3 DEF PlgInv, PlgTypes
  <2>9. CASE fltState = "RUNNING" /\ plgState # "RUNNING"
    <3>1. Resting /\ Quiet
      BY <1>1, <1>2, <2>9 DEF Resting
    <3>2. plgTodo' \in Seq(CalmSteps)
      <4> DEFINE e == <<>> \o r
      <4>1. plgTodo' = e \o f
        BY <2>4, <2>9
      <4>2. <<>> \in Seq(CalmSteps)
        OBVIOUS
      <4>3. e \in Seq(CalmSteps)
        BY <2>5, <4>2, ConcatElements, Zenon
      <4> HIDE DEF e
      <4> QED
        BY <2>3, <4>1, <4>3, ConcatElements
    <3>3. \A i \in 1..Len(plgTodo') : plgTodo'[i] \in CalmSteps
      BY <3>2
    <3>4. Resting'
      BY <2>4, <2>6, <2>9, <3>1, <3>3 DEF Resting
    <3> QED
      BY <1>0, <2>4, <2>7, <3>2, <3>4 DEF PlgInv, PlgTypes
  <2>10. CASE fltState = "RUNNING" /\ plgState = "RUNNING"
    <3> DEFINE b == s \o r
    <3>1. /\ b \in Seq(CalmSteps) /\ Len(b) = Len(s) + Len(r) /\ Len(s) \in Nat /\ Len(r) \in Nat
          /\ \A i \in 1..Len(s) : b[i] = s[i]
      BY <2>2, <2>5, ConcatElements
    <3>2. plgTodo' = b \o f
      BY <2>4, <2>10
    <3> HIDE DEF b
    <3>3. /\ plgTodo' \in Seq(CalmSteps) /\ Len(plgTodo') = Len(b) + Len(f) /\ Len(b) \in Nat /\ Len(f) \in Nat
          /\ \A i \in 1..Len(b) : plgTodo'[i] = b[i]
      BY <2>3, <3>1, <3>2, ConcatElements
    <3>4. Len(s) <= Len(plgTodo') /\ \A i \in 1..Len(s) : plgTodo'[i] = s[i]
      BY <3>1, <3>3
    <3>5. \A i \in 1..Len(plgTodo') : plgTodo'[i] \in CalmSteps
      BY <3>3
    <3>6. CASE Resting
      <4>1. Resting'
        BY <2>4, <2>6, <2>10, <3>5, <3>6 DEF Resting
      <4> QED
        BY <1>0, <2>4, <2>7, <3>3, <4>1 DEF PlgInv, PlgTypes
    <3>7. CASE Serving
      <4>1. PICK k \in 1..Len(s) : /\ s[k] = "join"
                                   /\ \A i \in 1..(k - 1) : s[i] \in EarlySteps
                                   /\ \E i \in 1..(k - 1) : s[i] = OffStep
        BY <2>2
      <4>2. k \in 1..Len(plgTodo') /\ plgTodo'[k] = "join" /\ k \in Nat
        BY <3>1, <3>4, <4>1
      <4>3. \A i \in 1..(k - 1) : i \in 1..Len(s) /\ plgTodo'[i] = s[i]
        BY <3>1, <3>4
      <4>4. \A i \in k..Len(plgTodo') : plgTodo'[i] \in CalmSteps
        BY <3>3, <3>5, <4>2
      <4>5. Stopping'
        BY <1>2, <2>4, <2>6, <2>10, <3>7, <4>1, <4>2, <4>3, <4>4 DEF Stopping
      <4> QED
        BY <1>0, <2>4, <2>7, <3>3, <4>5 DEF PlgInv, PlgTypes
    <3> QED
      BY <1>1, <3>6, <3>7
  <2> QED
    BY <2>8, <2>9, <2>10
<1> QED
  BY <1>0, <1>3, <1>4, <1>5
  DEF PlgOperations, StateStep, RunningStep, QueueStep, TaskStep, CallbackStep, BusStep, ForgetStep, AtStep, PlgIdle

\* The task thread hands on only frames of its run, to a plugin that is there with its
\* callback and its channel, and Stop and Reset join it only when it has been told to end.
THEOREM TaskServesItsRun == PlgSpec => []PlgTaskServesItsRun
PROOF
<1>1. PlgInv /\ [PlgNext]_plgVars => PlgInv'
  <2> SUFFICES ASSUME PlgInv, [PlgNext]_plgVars PROVE PlgInv'
    OBVIOUS
  <2>1. CASE PlgFrames
    BY <2>1, PlgFramesStep
  <2>2. CASE PlgOperations
    <3>1. CASE PlgIdle
      BY <2>2, <3>1, IdleStep
    <3>2. CASE ~PlgIdle
      BY <2>2, <3>2, RestingStep, OpeningStep, ServingStep, StoppingStep DEF PlgInv
    <3> QED
      BY <3>1, <3>2
  <2>3. CASE UNCHANGED plgVars
    BY <2>3 DEF plgVars, plgLife, plgWork, PlgInv, PlgTypes, Resting, Opening, Serving, Stopping, Quiet, Served,
                Fresh, Ahead, LoopOn, OffStep
  <2>4. CASE PlgPeerCloses
    BY <2>4 DEF PlgPeerCloses, plgLife, plgWork, PlgInv, PlgTypes, Resting, Opening, Serving, Stopping, Quiet, Served,
                Fresh, Ahead, LoopOn, OffStep
  <2> QED
    BY <2>1, <2>2, <2>3, <2>4 DEF PlgNext
<1>2. PlgInv => PlgTaskServesItsRun
  <2> SUFFICES ASSUME PlgInv PROVE PlgTaskServesItsRun
    OBVIOUS
  <2>1. plgThread = "deliver" => plgHeld = "new" /\ Served
    BY DEF PlgInv, Resting, Opening, Serving, Stopping, Quiet
  <2>2. AtStep("join") => ~LoopOn
    <3>1. PlgTypes
      BY DEF PlgInv
    <3>2. CASE Resting
      BY <3>2 DEF Resting, Quiet
    <3>3. CASE Opening
      <4>1. Head(plgTodo) \in {"open", "clear"}
        BY <3>3 DEF Opening
      <4> QED
        BY <4>1 DEF AtStep
    <3>4. CASE Serving
      <4>1. ~PlgIdle => Head(plgTodo) \in {"isrunning", "startTask", "running"}
        BY <3>4 DEF Serving, PlgIdle
      <4> QED
        BY <4>1 DEF AtStep
    <3>5. CASE Stopping
      <4>1. PICK k \in 1..Len(plgTodo) : /\ \A i \in 1..(k - 1) : plgTodo[i] \in EarlySteps
                                         /\ LoopOn => \E i \in 1..(k - 1) : plgTodo[i] = OffStep
        BY <3>5 DEF Stopping
      <4>2. AtStep("join") => plgTodo[1] = "join" /\ Len(plgTodo) \in Nat \ {0}
        BY <3>1 DEF AtStep, PlgIdle, PlgTypes
      <4>3. AtStep("join") => k = 1
        BY <4>1, <4>2 DEF EarlySteps
      <4> QED
        BY <4>1, <4>3
    <3> QED
      BY <3>2, <3>3, <3>4, <3>5 DEF PlgInv
  <2> QED
    BY <2>1, <2>2 DEF PlgTaskServesItsRun, Served
<1> QED
  BY <1>1, <1>2, PlgInvInit, PTL DEF PlgSpec

-----------------------------------------------------------------------------
(* AVSyncManager.                                                          *)

\* A peer that was told to start has a stream, or lost its last one meanwhile.
SyncInv ==
  /\ syncStreams \in [Streams -> Nat]
  /\ SyncStopsBelowTwo
  /\ \A d \in SyncPeers : syncTold[d] = "START" => d \in syncOrphans \cup PeersOf(syncStreams)

\* The list is finite.
LEMMA SizeIsNat ==
  ASSUME NEW g \in [Streams -> Nat]
  PROVE  IsFiniteSet(Entries(g)) /\ Size(g) \in Nat
PROOF
<1>1. IsFiniteSet(Streams)
  <2>1. IsFiniteSet(SyncScenes)
    <3>1. SyncScenes = {"mic"} \cup {"speaker"} \cup {"screen"} \cup {"camera"}
      BY DEF SyncScenes
    <3>2. IsFiniteSet({"mic"} \cup {"speaker"})
      BY FS_Singleton, FS_Union
    <3>3. IsFiniteSet({"mic"} \cup {"speaker"} \cup {"screen"})
      BY <3>2, FS_Singleton, FS_Union
    <3> QED BY <3>1, <3>3, FS_Singleton, FS_Union
  <2> QED BY <2>1, SyncAssumption, FS_Product DEF Streams
<1>2. IsFiniteSet(Entries(g))
  <2> DEFINE parts == {{s} \X (1..g[s]) : s \in Streams}
             h == [s \in Streams |-> {s} \X (1..g[s])]
  <2>1. h \in Surjection(Streams, parts)
    BY Zenon DEF Surjection
  <2>2. IsFiniteSet(parts)
    <3> HIDE DEF parts, h
    <3> QED BY <1>1, <2>1, FS_Surjection
  <2>3. ASSUME NEW s \in Streams PROVE IsFiniteSet({s} \X (1..g[s]))
    <3>1. g[s] \in Int /\ 1 \in Int
      OBVIOUS
    <3>2. IsFiniteSet(1..g[s]) /\ IsFiniteSet({s})
      BY <3>1, FS_Singleton, FS_Interval
    <3> QED BY <3>2, FS_Product
  <2>4. \A p \in parts : IsFiniteSet(p)
    BY <2>3, Zenon
  <2>5. IsFiniteSet(UNION parts)
    <3> HIDE DEF parts
    <3> QED BY <2>2, <2>4, FS_UNION
  <2> QED BY <2>5, Zenon DEF Entries
<1> QED BY <1>2, FS_CardinalityType DEF Size

\* A list that grows does not get shorter.
LEMMA SizeGrows ==
  ASSUME NEW f \in [Streams -> Nat], NEW g \in [Streams -> Nat], \A s \in Streams : f[s] <= g[s]
  PROVE  Size(f) <= Size(g)
PROOF
<1>1. Entries(f) \subseteq Entries(g)
  <2>1. ASSUME NEW s \in Streams PROVE {s} \X (1..f[s]) \subseteq {s} \X (1..g[s])
    <3>1. 1..f[s] \subseteq 1..g[s]
      OBVIOUS
    <3> QED BY <3>1
  <2>2. ASSUME NEW e \in Entries(f) PROVE e \in Entries(g)
    <3>1. PICK s \in Streams : e \in {s} \X (1..f[s])
      BY <2>2, Zenon DEF Entries
    <3>2. e \in {s} \X (1..g[s])
      BY <2>1, <3>1
    <3> QED BY <3>2, Zenon DEF Entries
  <2> QED BY <2>2
<1> QED BY <1>1, SizeIsNat, FS_Subset DEF Size

LEMMA SyncInvInit == SyncInit => SyncInv
PROOF BY DEF SyncInit, SyncInv, SyncStopsBelowTwo, PeersOf

\* What a message to some peers leaves as the last one of each.
LEMMA TellFacts ==
  ASSUME NEW peers, NEW kind, Tell(peers, kind)
  PROVE  \A d \in SyncPeers : syncTold'[d] = IF d \in peers THEN kind ELSE syncTold[d]
PROOF BY DEF Tell

LEMMA SyncAddStep == ASSUME SyncInv, NEW s \in Streams, AddStreamInfo(s) PROVE SyncInv'
PROOF
<1> DEFINE streams == [syncStreams EXCEPT ![s] = @ + 1]
<1>1. /\ syncStreams' = streams
      /\ IF Size(streams) < SyncStreamCount THEN TellNobody /\ UNCHANGED syncSource ELSE EnableSenderAVSync(streams)
      /\ syncOrphans' = {d \in syncOrphans : syncTold'[d] = "START"}
  BY DEF AddStreamInfo
<1>2. streams \in [Streams -> Nat] /\ \A x \in Streams : syncStreams[x] <= streams[x]
  BY DEF SyncInv
<1>3. PeersOf(syncStreams) \subseteq PeersOf(streams)
  BY <1>2 DEF PeersOf, SyncInv
<1> HIDE DEF streams
<1>4. CASE Size(streams) < SyncStreamCount
  <2>1. UNCHANGED <<syncTold, syncSource>>
    BY <1>1, <1>4 DEF TellNobody
  <2>2. Size(syncStreams) < SyncStreamCount
    <3>1. Size(syncStreams) <= Size(streams)
      BY <1>2, SizeGrows DEF SyncInv
    <3>2. Size(syncStreams) \in Nat /\ Size(streams) \in Nat
      BY <1>2, SizeIsNat DEF SyncInv
    <3> QED BY <1>4, <3>1, <3>2 DEF SyncStreamCount
  <2>3. ~syncSource /\ \A d \in SyncPeers : syncTold[d] = "START" => d \in syncOrphans
    BY <2>2 DEF SyncInv, SyncStopsBelowTwo
  <2>4. PeersOf(streams) \subseteq SyncPeers
    BY DEF PeersOf, Streams
  <2> QED BY <1>1, <1>2, <2>1, <2>3, <2>4 DEF SyncInv, SyncStopsBelowTwo
<1>5. CASE ~(Size(streams) < SyncStreamCount)
  <2>1. \A d \in SyncPeers : syncTold'[d] = "START" => syncTold[d] = "START" \/ d \in PeersOf(streams)
    <3>1. CASE MergeGroupInfo(streams)
      <4>1. Tell(PeersOf(streams), "START")
        BY <1>1, <1>5, <3>1 DEF EnableSenderAVSync
      <4> QED BY <4>1, TellFacts
    <3>2. CASE ~MergeGroupInfo(streams)
      BY <1>1, <1>5, <3>2 DEF EnableSenderAVSync, TellNobody
    <3> QED BY <3>1, <3>2
  <2>2. \A d \in SyncPeers : syncTold'[d] = "START" => d \in syncOrphans' \cup PeersOf(streams)
    BY <1>1, <1>3, <2>1 DEF SyncInv
  <2> QED BY <1>1, <1>2, <1>5, <2>2 DEF SyncInv, SyncStopsBelowTwo
<1> QED BY <1>4, <1>5

LEMMA SyncRemoveStep == ASSUME SyncInv, NEW s \in Streams, RemoveStreamInfo(s) PROVE SyncInv'
PROOF
<1> DEFINE streams == [syncStreams EXCEPT ![s] = 0]
<1>1. /\ syncStreams' = streams
      /\ DisableSenderAVSync(streams)
      /\ syncOrphans' = {d \in SyncPeers : syncTold'[d] = "START" /\ (d \in syncOrphans \/ d \notin PeersOf(streams))}
  BY DEF RemoveStreamInfo
<1>2. streams \in [Streams -> Nat]
  BY DEF SyncInv
<1>3. PeersOf(streams) \subseteq SyncPeers
  BY DEF PeersOf, Streams
<1> HIDE DEF streams
<1>4. \A d \in SyncPeers : syncTold'[d] = "START" => d \in syncOrphans' \cup PeersOf(streams)
  BY <1>1
<1>5. ASSUME Size(streams) < SyncStreamCount
      PROVE  ~syncSource' /\ \A d \in PeersOf(streams) : syncTold'[d] # "START"
  <2>1. ~(Size(streams) >= SyncStreamCount)
    BY <1>2, <1>5, SizeIsNat DEF SyncStreamCount
  <2>2. Tell(PeersOf(streams), "STOP") /\ syncSource' = FALSE
    BY <1>1, <2>1 DEF DisableSenderAVSync
  <2> QED BY <1>3, <2>2, TellFacts
<1> QED BY <1>1, <1>2, <1>4, <1>5 DEF SyncInv, SyncStopsBelowTwo

(* With fewer than two streams in AVSyncManager's list nothing is          *)
(* synchronised, for any peers and any order of additions and removals.    *)
THEOREM StopsBelowTwo == SyncSpec => []SyncStopsBelowTwo
PROOF
<1>1. SyncInv /\ [SyncNext]_syncVars => SyncInv'
  <2> SUFFICES ASSUME SyncInv, [SyncNext]_syncVars PROVE SyncInv'
    OBVIOUS
  <2>1. CASE \E s \in Streams : AddStreamInfo(s) \/ RemoveStreamInfo(s)
    BY <2>1, SyncAddStep, SyncRemoveStep
  <2>2. CASE \/ \E d \in SyncPeers, k \in SyncMessages : HandleAvSyncMessage(d, k)
             \/ UNCHANGED syncVars
    <3>1. UNCHANGED <<syncStreams, syncSource, syncTold, syncOrphans>>
      BY <2>2 DEF HandleAvSyncMessage, syncVars
    <3> QED BY <3>1 DEF SyncInv, SyncStopsBelowTwo
  <2> QED BY <2>1, <2>2 DEF SyncNext
<1>2. SyncInv => SyncStopsBelowTwo
  BY DEF SyncInv
<1> QED BY <1>1, <1>2, SyncInvInit, PTL DEF SyncSpec

-----------------------------------------------------------------------------
(* The time stamps of the codec filters.                                   *)

LEMMA TimesOrder == ASSUME NEW c \in Nat, NEW x \in Int, NEW y \in Int, x <= y PROVE c * x <= c * y /\ x * c <= y * c
OBVIOUS
LEMMA Times == ASSUME NEW c \in Int, NEW x \in Int, NEW y \in Int PROVE c * x \in Int /\ c * (x+y) = c * x + c * y /\ c * x = x * c
OBVIOUS
LEMMA Cancel == ASSUME NEW c \in Nat \ {0}, NEW x \in Int, NEW y \in Int, c * x < c * y PROVE x < y
OBVIOUS
LEMMA DivMod == ASSUME NEW C \in Nat \ {0}, NEW b \in Nat, NEW o \in 0..(C-1) PROVE (b * C + o) \div C = b /\ (b * C + o) % C = o
<1> DEFINE n == b * C + o   q == n \div C  r == n % C
<1>1. n \in Nat /\ q \in Int /\ r \in 0..(C-1) /\ n = C * q + r
  OBVIOUS
<1>2. C * b + o = C * q + r
  BY <1>1
<1> HIDE DEF n, q, r
<1>3. q <= b
  <2>1. CASE q >= b + 1
    <3>1. C * (b + 1) <= C * q
      BY <1>1, <2>1, TimesOrder
    <3>2. C * (b + 1) = C * b + C /\ C * b \in Int /\ C * q \in Int
      BY <1>1, Times
    <3> QED BY <1>1, <1>2, <3>1, <3>2
  <2> QED BY <1>1, <2>1
<1>4. b <= q
  <2>1. CASE b >= q + 1
    <3>1. C * (q + 1) <= C * b
      BY <1>1, <2>1, TimesOrder
    <3>2. C * (q + 1) = C * q + C /\ C * b \in Int /\ C * q \in Int
      BY <1>1, Times
    <3> QED BY <1>1, <1>2, <3>1, <3>2
  <2> QED BY <1>1, <2>1
<1>5. q = b
  BY <1>1, <1>3, <1>4
<1>6. r = o
  BY <1>1, <1>2, <1>5, Times
<1> QED BY <1>5, <1>6 DEF n, q, r

\* The codec's input buffers that the filter holds, queued or being filled.
CdFilling(t) == IF t \in {"check", "push"} THEN 1 ELSE 0
CdHeld(n, t) == n + CdFilling(t)

\* The kinds whose framing fits the indices.
CdFitting == {"encoder", "decoder"}

CdTypes ==
  /\ coderKind \in CdFitting
  /\ dataQ \in Seq(Nat) /\ hand \in Nat /\ arrived \in Nat /\ fed \in Seq(Nat)
  /\ slots \in Nat /\ lent \in Nat /\ pending \in Nat /\ outs \in Nat

\* The codec asks for input only when no output is complete, so what it was fed and
\* what it may be fed is bounded.
CdBounded ==
  /\ lent + CdHeld(slots, thr) <= CdSlots
  /\ pending + InSamples * CdHeld(slots, thr) <= InSamples * CdSlots + OutSamples - 1

\* Until the codec starts, which happens once, nothing has gone through it.
CdFresh ==
  codec \in {"created", "prepared"} \/ (codec = "none" /\ ~stoped) =>
    /\ fed = <<>> /\ pending = 0 /\ outs = 0 /\ ptsMap = {} /\ inIndex = 0 /\ outIndex = 0
    /\ thr = "none" /\ ~running

\* The index in ptsMap_ of the frame at place p after the first of the current cycle
\* of outputs, and the timestamp that is kept there.
CdSlot(p) == IF p >= InWrap THEN p - InWrap ELSE p
CdStamp(f) == IF coderKind = "encoder" THEN UserOf(f) ELSE PtsOf(f)
CdHolds(map, i, v) == {e \in map : e[1] = i} = {<<i, v>>}

\* b cycles of outputs are complete, and m frames were fed since: all of them that no
\* output has stood for yet are in ptsMap_, each in a place of its own.
CdFlow(b, m) ==
  /\ Len(fed) = b * InWrap + m /\ outs = b * CdCycle + outIndex
  /\ outIndex \in 0..(CdCycle - 1) /\ outIndex <= m /\ m <= outIndex + InWrap
  /\ pending = InSamples * m - OutSamples * outIndex
  /\ thr # "ended" => inIndex = CdSlot(m)
  /\ \A p \in Nat : outIndex <= p /\ p < m => CdHolds(ptsMap, CdSlot(p), CdStamp(fed[b * InWrap + p + 1]))
  /\ coderKind = "decoder" /\ m >= InWrap => CdHolds(ptsMap, CdCycle, UserOf(fed[b * InWrap + InWrap]))

\* The frames that the last output stands for were fed.
CdLastFed ==
  (outs > 0 /\ ~refused) => /\ FrameOf(outs - 1) + 1 \in 1..Len(fed)
                            /\ UserFrameOf(outs - 1) + 1 \in 1..Len(fed)

CdPtsInv ==
  /\ CdTypes /\ CdBounded /\ CdFresh /\ CdLastFed /\ CdOutputPts
  /\ running /\ ~refused => \E b, m \in Nat : CdFlow(b, m)

-----------------------------------------------------------------------------
LEMMA CdSizes ==
  ASSUME coderKind \in CdFitting
  PROVE  /\ InWrap \in Nat \ {0} /\ CdCycle \in Nat \ {0} /\ CdCycle <= InWrap
         /\ InSamples \in Nat \ {0} /\ OutSamples \in Nat \ {0}
         /\ InSamples * InWrap = OutSamples * CdCycle
         /\ coderKind = "decoder" => InWrap = CdCycle /\ InSamples = 1 /\ OutSamples = 1
         /\ coderKind = "encoder" => InWrap = CdCycle + 1 /\ InSamples = CdCycle /\ OutSamples = CdCycle + 1
PROOF BY CdAssumption DEF CdFitting, InWrap, InSamples, OutSamples

\* A complete output stands for a frame that was fed; the last one of a cycle for the
\* last frames of the cycle.
LEMMA CdReady ==
  ASSUME coderKind \in CdFitting, NEW m \in Nat, NEW o \in 0..(CdCycle - 1),
         InSamples * m - OutSamples * o >= OutSamples
  PROVE  o + 1 <= m /\ (o = CdCycle - 1 => m >= InWrap)
PROOF
<1>1. CASE coderKind = "decoder"
  BY <1>1, CdSizes
<1>2. CASE coderKind = "encoder"
  <2> DEFINE C == CdCycle
  <2>1. C \in Nat \ {0} /\ InWrap = C + 1 /\ C * m - (C + 1) * o >= C + 1
    BY <1>2, CdSizes
  <2>2. (C + 1) * o = C * o + o /\ C * o \in Int /\ C * m \in Int /\ C * (o + 1) = C * o + C
    BY <2>1
  <2>3. C * (o + 1) < C * m
    BY <2>1, <2>2
  <2>4. o + 1 < m
    BY <2>1, <2>3, Cancel
  <2> QED BY <2>1, <2>4
<1> QED BY <1>1, <1>2 DEF CdFitting

\* While an input buffer is held, ptsMap_ has room for one more frame.
LEMMA CdRoom ==
  ASSUME coderKind \in CdFitting, NEW m \in Nat, NEW o \in 0..(CdCycle - 1), NEW h \in Nat, h >= 1,
         InSamples * m - OutSamples * o + InSamples * h <= InSamples * CdSlots + OutSamples - 1
  PROVE  m + 1 <= o + InWrap
PROOF
<1>1. CASE coderKind = "decoder"
  BY <1>1, CdSizes, CdAssumption
<1>2. CASE coderKind = "encoder"
  <2> DEFINE C == CdCycle
             S == CdSlots
  <2>1. C \in Nat \ {0} /\ S \in Nat /\ S <= C /\ InWrap = C + 1 /\ C * m - (C + 1) * o + C * h <= C * S + (C + 1) - 1
    BY <1>2, CdSizes, CdAssumption
  <2>2. (C + 1) * o = C * o + o /\ C * (S + o + 1) = C * S + C * o + C
    BY <2>1
  <2>3. C * o \in Int /\ C * m \in Int /\ C * h \in Int /\ C * S \in Int
    BY <2>1
  <2>4. C * 1 <= C * h
    BY <2>1, TimesOrder
  <2>5. C * m < C * (S + o + 1)
    BY <2>1, <2>2, <2>3, <2>4
  <2>6. m < S + o + 1
    BY <2>1, <2>5, Cancel
  <2> QED BY <2>1, <2>6
<1> QED BY <1>1, <1>2 DEF CdFitting

-----------------------------------------------------------------------------
LEMMA CdPtsInit == CdInit /\ coderKind \in CdFitting => CdPtsInv
PROOF
<1> SUFFICES ASSUME CdInit, coderKind \in CdFitting PROVE CdPtsInv
  OBVIOUS
<1>1. CdTypes
  BY CdAssumption DEF CdInit, CdTypes
<1>2. CdHeld(slots, thr) = 0 /\ lent = CdSlots /\ pending = 0
  BY DEF CdInit, CdHeld, CdFilling
<1>3. CdBounded
  <2>1. InSamples * 0 <= InSamples * CdSlots
    BY <1>1, CdSizes, CdAssumption, TimesOrder DEF CdTypes
  <2>2. InSamples * CdSlots \in Int /\ InSamples * 0 = 0 /\ OutSamples \in Nat \ {0}
    BY <1>1, CdSizes, CdAssumption DEF CdTypes
  <2> QED BY <1>2, <2>1, <2>2, CdAssumption DEF CdBounded
<1>4. CdFresh /\ ~running /\ outs = 0
  BY DEF CdInit, CdFresh
<1> QED BY <1>1, <1>3, <1>4 DEF CdPtsInv, CdLastFed, CdOutputPts

LEMMA CdHeldIsNat == ASSUME NEW n \in Nat, NEW t PROVE CdHeld(n, t) \in Nat /\ CdFilling(t) \in {0, 1}
PROOF
<1>1. CdFilling(t) \in {0, 1}
  BY Zenon DEF CdFilling
<1> QED BY <1>1 DEF CdHeld

\* Fewer input buffers held is within the bound.
LEMMA CdBoundedKept ==
  ASSUME CdTypes, CdTypes', CdBounded, UNCHANGED <<coderKind, pending, lent>>,
         CdHeld(slots', thr') <= CdHeld(slots, thr)
  PROVE  CdBounded'
PROOF
<1> DEFINE x == CdHeld(slots', thr')
           y == CdHeld(slots, thr)
<1>1. /\ x \in Nat /\ y \in Nat /\ x <= y /\ lent \in Nat /\ pending \in Nat /\ CdSlots \in Nat
      /\ InSamples \in Nat /\ OutSamples \in Nat /\ lent' = lent /\ pending' = pending
  BY CdHeldIsNat, CdSizes, CdAssumption DEF CdTypes
<1>2. InSamples' = InSamples /\ OutSamples' = OutSamples
  BY DEF InSamples, OutSamples
<1>3. lent + y <= CdSlots /\ pending + InSamples * y <= InSamples * CdSlots + OutSamples - 1
  BY DEF CdBounded
<1>4. lent + x <= CdSlots /\ pending + InSamples * x <= InSamples * CdSlots + OutSamples - 1
  <2> HIDE DEF x, y
  <2>1. InSamples * x <= InSamples * y
    BY <1>1, TimesOrder
  <2>2. InSamples * x \in Int /\ InSamples * y \in Int /\ InSamples * CdSlots \in Int
    BY <1>1
  <2> QED BY <1>1, <1>3, <2>1, <2>2
<1> QED BY <1>1, <1>2, <1>4 DEF CdBounded

\* A step that no frame goes through keeps what is known of the frames.
LEMMA CdFlowKept ==
  ASSUME UNCHANGED <<coderKind, ptsVars, flowVars>>, thr' # "ended" => thr # "ended",
         NEW b \in Nat, NEW m \in Nat, CdFlow(b, m)
  PROVE  CdFlow(b, m)'
PROOF
<1>1. UNCHANGED <<coderKind, ptsMap, inIndex, outIndex, fed, pending, outs>>
  BY DEF ptsVars, flowVars
<1>2. InWrap' = InWrap /\ InSamples' = InSamples /\ OutSamples' = OutSamples
  BY <1>1 DEF InWrap, InSamples, OutSamples
<1>3. (\A p : CdSlot(p)' = CdSlot(p)) /\ (\A f : CdStamp(f)' = CdStamp(f))
  BY <1>1, <1>2 DEF CdSlot, CdStamp
<1> QED BY <1>1, <1>2, <1>3 DEF CdFlow

LEMMA CdLastKept ==
  ASSUME UNCHANGED <<coderKind, flowVars>>, CdLastFed, CdOutputPts
  PROVE  CdLastFed' /\ CdOutputPts'
PROOF
<1>1. UNCHANGED <<coderKind, fed, outs, last, refused>>
  BY DEF flowVars
<1>2. (\A n : FrameOf(n)' = FrameOf(n)) /\ (\A n : UserFrameOf(n)' = UserFrameOf(n))
  BY <1>1 DEF FrameOf, UserFrameOf
<1> QED BY <1>1, <1>2 DEF CdLastFed, CdOutputPts

\* The codec starts with nothing in it.
LEMMA CdStartStep == ASSUME CdPtsInv, CdStart PROVE CdPtsInv'
PROOF
<1>1. /\ codec = "prepared" /\ codec' = "started" /\ running' = TRUE /\ thr' = "loop"
      /\ UNCHANGED <<coderKind, stoped, hand, queueVars, ptsVars, flowVars>>
  BY DEF CdStart
<1>2. UNCHANGED <<coderKind, hand, dataQ, slots, lent, arrived, ptsMap, inIndex, outIndex, fed, pending, outs, refused>>
  BY <1>1 DEF queueVars, ptsVars, flowVars
<1>3. CdTypes /\ CdTypes'
  BY <1>1, <1>2 DEF CdPtsInv, CdTypes
<1>4. fed = <<>> /\ pending = 0 /\ outs = 0 /\ ptsMap = {} /\ inIndex = 0 /\ outIndex = 0 /\ thr = "none"
  BY <1>1 DEF CdPtsInv, CdFresh
<1>5. CdBounded'
  <2>1. CdHeld(slots', thr') = CdHeld(slots, thr)
    BY <1>1, <1>2, <1>4 DEF CdHeld, CdFilling
  <2>2. CdHeld(slots, thr) \in Nat
    BY <1>3, CdHeldIsNat DEF CdTypes
  <2> QED BY <1>2, <1>3, <2>1, <2>2, CdBoundedKept DEF CdPtsInv
<1>6. CdFresh'
  BY <1>1 DEF CdFresh
<1>7. CdFlow(0, 0)'
  <2>1. /\ InWrap' = InWrap /\ InSamples' = InSamples /\ OutSamples' = OutSamples
        /\ InWrap \in Nat \ {0} /\ CdCycle \in Nat \ {0} /\ InSamples \in Nat /\ OutSamples \in Nat
    BY <1>2, <1>3, CdSizes DEF InWrap, InSamples, OutSamples, CdTypes
  <2> QED BY <1>2, <1>4, <2>1 DEF CdFlow, CdSlot
<1>8. CdLastFed' /\ CdOutputPts'
  BY <1>1, CdLastKept DEF CdPtsInv
<1>9. \E b, m \in Nat : CdFlow(b, m)'
  BY <1>7
<1> QED BY <1>3, <1>5, <1>6, <1>8, <1>9, Zenon DEF CdPtsInv

\* The other steps that no frame goes through.
LEMMA CdQuietStep ==
  ASSUME CdPtsInv, CdTypes', CdBounded', CdFresh', UNCHANGED <<coderKind, ptsVars, flowVars>>,
         thr' # "ended" => thr # "ended", running' => running
  PROVE  CdPtsInv'
PROOF
<1>1. CdLastFed' /\ CdOutputPts'
  BY CdLastKept DEF CdPtsInv
<1>2. ASSUME running', ~refused' PROVE \E b, m \in Nat : CdFlow(b, m)'
  <2>1. running /\ ~refused
    BY <1>2 DEF flowVars
  <2>2. PICK b, m \in Nat : CdFlow(b, m)
    BY <2>1 DEF CdPtsInv
  <2>3. CdFlow(b, m)'
    BY <2>2, CdFlowKept
  <2> QED BY <2>3
<1> QED BY <1>1, <1>2, Zenon DEF CdPtsInv

LEMMA CdQuietSteps ==
  ASSUME CdPtsInv, \/ CdPrepare \/ CdStopBegins \/ CdStopEnds \/ CdDestroy \/ CdProcessInputBuffer \/ ThreadTakes
                   \/ ThreadLeaves \/ ProcessDataChecks \/ OnCodecError \/ OnInputBufferAvailable \/ UNCHANGED cdVars
  PROVE  CdPtsInv'
PROOF
<1>0. CdTypes /\ CdBounded /\ CdFresh
  BY DEF CdPtsInv
<1>1. UNCHANGED <<coderKind, ptsVars, flowVars>>
  BY DEF CdPrepare, CdStopBegins, CdStopEnds, CdDestroy, CdProcessInputBuffer, ThreadTakes, ThreadLeaves,
         ProcessDataChecks, OnCodecError, OnInputBufferAvailable, cdVars
<1>2. UNCHANGED <<coderKind, fed, pending, outs, ptsMap, inIndex, outIndex>>
  BY <1>1 DEF ptsVars, flowVars
<1>3. CASE CdPrepare \/ CdStopBegins \/ CdDestroy \/ OnCodecError \/ UNCHANGED cdVars
  <2>1. UNCHANGED <<thr, hand, dataQ, slots, lent, arrived>>
    BY <1>3 DEF CdPrepare, CdStopBegins, CdDestroy, OnCodecError, cdVars, queueVars
  <2>2. running' => running
    BY <1>3 DEF CdPrepare, CdStopBegins, CdDestroy, OnCodecError, cdVars
  <2>3. CdTypes'
    BY <1>0, <1>2, <2>1 DEF CdTypes
  <2>4. CdBounded'
    <3>1. CdHeld(slots, thr) \in Nat
      BY <1>0, CdHeldIsNat DEF CdTypes
    <3>2. CdHeld(slots', thr') <= CdHeld(slots, thr)
      BY <2>1, <3>1
    <3> QED BY <1>0, <1>2, <2>1, <2>3, <3>2, CdBoundedKept
  <2>5. CdFresh'
    <3>1. \/ codec' \in {"created", "prepared"} /\ codec = "none" /\ ~stoped
          \/ codec' = "none" /\ stoped'
          \/ UNCHANGED <<codec, stoped>>
      BY <1>3 DEF CdPrepare, CreateAudioCodec, ConfigureAudioCodec, CdStopBegins, CdDestroy, OnCodecError, cdVars, codecVars
    <3> QED BY <1>0, <1>2, <2>1, <2>2, <3>1 DEF CdFresh
  <2> QED BY <1>1, <2>1, <2>2, <2>3, <2>4, <2>5, CdQuietStep
<1>4. CASE CdStopEnds
  <2>1. /\ UNCHANGED <<thr, hand, lent, arrived, running>> /\ dataQ' = <<>> /\ slots' = 0
        /\ UNCHANGED <<codec, stoped>> \/ codec' = "stopped"
    BY <1>4 DEF CdStopEnds
  <2>2. CdTypes'
    BY <1>0, <1>2, <2>1 DEF CdTypes
  <2>3. CdBounded'
    <3>1. slots \in Nat /\ CdFilling(thr) \in {0, 1} /\ slots' = 0 /\ thr' = thr
      BY <1>0, <2>1, CdHeldIsNat DEF CdTypes
    <3>2. CdHeld(slots', thr') <= CdHeld(slots, thr)
      BY <3>1 DEF CdHeld
    <3> QED BY <1>0, <1>2, <2>1, <2>2, <3>2, CdBoundedKept
  <2>4. CdFresh'
    BY <1>0, <1>2, <2>1 DEF CdFresh
  <2> QED BY <1>1, <2>1, <2>2, <2>3, <2>4, CdQuietStep
<1>5. CASE CdProcessInputBuffer
  <2>1. UNCHANGED <<codec, stoped, running, thr, hand, slots, lent>>
    BY <1>5 DEF CdProcessInputBuffer, codecVars
  <2>2. CdTypes'
    <3>1. dataQ' \in Seq(Nat) /\ arrived' \in Nat
      <4> DEFINE kept == IF Len(dataQ) > CdQueueMax THEN Tail(dataQ) ELSE dataQ
      <4>1. dataQ \in Seq(Nat) /\ arrived \in Nat /\ CdQueueMax \in Nat
        BY <1>0, CdAssumption DEF CdTypes
      <4>2. kept \in Seq(Nat)
        BY <4>1
      <4>3. dataQ' = Append(kept, arrived + 1) /\ arrived' = arrived + 1
        BY <1>5 DEF CdProcessInputBuffer
      <4> HIDE DEF kept
      <4> QED BY <4>1, <4>2, <4>3
    <3> QED BY <1>0, <1>2, <2>1, <3>1 DEF CdTypes
  <2>3. CdBounded'
    <3>1. CdHeld(slots, thr) \in Nat
      BY <1>0, CdHeldIsNat DEF CdTypes
    <3>2. CdHeld(slots', thr') <= CdHeld(slots, thr)
      BY <2>1, <3>1
    <3> QED BY <1>0, <1>2, <2>1, <2>2, <3>2, CdBoundedKept
  <2>4. CdFresh'
    BY <1>0, <1>2, <2>1 DEF CdFresh
  <2> QED BY <1>1, <2>1, <2>2, <2>3, <2>4, CdQuietStep
<1>6. CASE ThreadTakes \/ ThreadLeaves \/ ProcessDataChecks
  <2>1. UNCHANGED <<codec, stoped, running, lent, arrived>> /\ thr # "ended" /\ thr # "none"
    BY <1>6 DEF ThreadTakes, ThreadLeaves, ProcessDataChecks, codecVars, queueVars
  <2>2. /\ dataQ' \in Seq(Nat) /\ hand' \in Nat /\ slots' \in Nat
        /\ CdHeld(slots', thr') <= CdHeld(slots, thr)
    <3>1. dataQ \in Seq(Nat) /\ hand \in Nat /\ slots \in Nat
      BY <1>0 DEF CdTypes
    <3>2. CASE ThreadTakes
      <4>1. /\ dataQ # <<>> /\ slots > 0 /\ hand' = Head(dataQ) /\ dataQ' = Tail(dataQ) /\ slots' = slots - 1
            /\ thr = "loop" /\ thr' = "check"
        BY <3>2 DEF ThreadTakes
      <4>2. CdFilling(thr) = 0 /\ CdFilling(thr') = 1
        BY <4>1 DEF CdFilling
      <4> QED BY <3>1, <4>1, <4>2 DEF CdHeld
    <3>3. CASE ThreadLeaves
      <4>1. UNCHANGED <<dataQ, hand, slots>> /\ thr = "loop" /\ thr' = "ended"
        BY <3>3 DEF ThreadLeaves, queueVars
      <4>2. CdFilling(thr) = 0 /\ CdFilling(thr') = 0
        BY <4>1 DEF CdFilling
      <4> QED BY <3>1, <4>1, <4>2 DEF CdHeld
    <3>4. CASE ProcessDataChecks
      <4>1. UNCHANGED <<dataQ, slots>> /\ (hand' = hand \/ hand' = 0) /\ thr = "check"
        BY <3>4 DEF ProcessDataChecks, queueVars
      <4>2. CdFilling(thr) = 1 /\ CdFilling(thr') \in {0, 1}
        BY <3>1, <4>1, CdHeldIsNat DEF CdFilling
      <4> QED BY <3>1, <4>1, <4>2 DEF CdHeld
    <3> QED BY <1>6, <3>2, <3>3, <3>4
  <2>3. CdTypes'
    BY <1>0, <1>2, <2>1, <2>2 DEF CdTypes
  <2>4. CdBounded'
    BY <1>0, <1>2, <2>1, <2>2, <2>3, CdBoundedKept
  <2>5. CdFresh'
    BY <1>0, <2>1 DEF CdFresh
  <2> QED BY <1>1, <2>1, <2>3, <2>4, <2>5, CdQuietStep
<1>7. CASE OnInputBufferAvailable
  <2>1. /\ UNCHANGED <<codec, stoped, running, thr, hand, dataQ, arrived>> /\ codec = "started"
        /\ lent > 0 /\ pending < OutSamples /\ lent' = lent - 1
        /\ slots' = (IF slots > CdQueueMax THEN CdQueueMax ELSE slots) + 1
    BY <1>7 DEF OnInputBufferAvailable, CodecWantsInput, codecVars
  <2>2. /\ slots \in Nat /\ lent \in Nat /\ pending \in Nat /\ CdSlots \in Nat /\ CdQueueMax \in Nat
        /\ CdFilling(thr) \in {0, 1} /\ InSamples \in Nat /\ OutSamples \in Nat
    BY <1>0, CdHeldIsNat, CdSizes, CdAssumption DEF CdTypes
  <2>3. slots' \in Nat /\ lent' \in Nat /\ slots' <= slots + 1
    BY <2>1, <2>2
  <2>4. CdTypes'
    BY <1>0, <1>2, <2>1, <2>3 DEF CdTypes
  <2>5. CdBounded'
    <3> DEFINE x == CdHeld(slots', thr')
    <3>1. x \in Nat /\ x <= CdHeld(slots, thr) + 1
      BY <2>1, <2>2, <2>3 DEF CdHeld
    <3>2. CdHeld(slots, thr) \in Nat /\ lent + CdHeld(slots, thr) <= CdSlots
      BY <1>0, <2>2, CdHeldIsNat DEF CdBounded
    <3> HIDE DEF x
    <3>3. lent' + x <= CdSlots /\ x <= CdSlots
      BY <2>1, <2>2, <3>1, <3>2
    <3>4. InSamples * x <= InSamples * CdSlots
      BY <2>2, <3>1, <3>3, TimesOrder
    <3>5. InSamples * x \in Int /\ InSamples * CdSlots \in Int
      BY <2>2, <3>1
    <3>6. pending + InSamples * x <= InSamples * CdSlots + OutSamples - 1
      BY <2>1, <2>2, <3>4, <3>5
    <3>7. InSamples' = InSamples /\ OutSamples' = OutSamples /\ pending' = pending
      BY <1>2 DEF InSamples, OutSamples
    <3> QED BY <3>3, <3>6, <3>7 DEF CdBounded, x
  <2>6. CdFresh'
    BY <2>1 DEF CdFresh
  <2> QED BY <1>1, <2>1, <2>4, <2>5, <2>6, CdQuietStep
<1> QED BY <1>3, <1>4, <1>5, <1>6, <1>7

\* What a write to ptsMap_ and an erasure leave at the other indices.
LEMMA CdPutFacts ==
  ASSUME NEW map, NEW i, NEW v
  PROVE  /\ CdHolds(Put(map, i, v), i, v)
         /\ \A j, w : j # i /\ CdHolds(map, j, w) => CdHolds(Put(map, i, v), j, w)
PROOF
<1>1. {e \in Put(map, i, v) : e[1] = i} = {<<i, v>>}
  BY DEF Put
<1>2. ASSUME NEW j, j # i PROVE {e \in Put(map, i, v) : e[1] = j} = {e \in map : e[1] = j}
  BY <1>2 DEF Put
<1> QED BY <1>1, <1>2 DEF CdHolds

\* Where the next frame goes, and that no frame that is kept is there.
LEMMA CdSlotFacts ==
  ASSUME coderKind \in CdFitting, NEW o \in 0..(CdCycle - 1), NEW m \in Nat, o <= m, m + 1 <= o + InWrap
  PROVE  /\ CdSlot(m) \in 0..(InWrap - 1)
         /\ CdSlot(m + 1) = IF CdSlot(m) + 1 = InWrap THEN 0 ELSE CdSlot(m) + 1
         /\ \A p \in Nat : o <= p /\ p < m => CdSlot(p) \in 0..(InWrap - 1) /\ CdSlot(p) # CdSlot(m)
         /\ CdSlot(m) + 1 = InWrap <=> m + 1 = InWrap
PROOF
<1>1. InWrap \in Nat \ {0} /\ CdCycle \in Nat \ {0} /\ CdCycle <= InWrap
  BY CdSizes
<1> QED BY <1>1 DEF CdSlot

\* The timestamp of a frame, at the next place, disturbs no other that is kept.
LEMMA CdRecorded ==
  ASSUME CdTypes, NEW b \in Nat, NEW m \in Nat, CdFlow(b, m), thr # "ended",
         m + 1 <= outIndex + InWrap, NEW f, RecordPts(f)
  PROVE  /\ outIndex' = outIndex /\ inIndex' = CdSlot(m + 1)
         /\ CdHolds(ptsMap', CdSlot(m), CdStamp(f))
         /\ \A p \in Nat : outIndex <= p /\ p < m =>
                CdHolds(ptsMap', CdSlot(p), CdStamp(fed[b * InWrap + p + 1]))
         /\ coderKind = "decoder" /\ m >= InWrap => CdHolds(ptsMap', CdCycle, UserOf(fed[b * InWrap + InWrap]))
         /\ coderKind = "decoder" /\ m + 1 = InWrap => CdHolds(ptsMap', CdCycle, UserOf(f))
PROOF
<1>1. coderKind \in CdFitting /\ outIndex \in 0..(CdCycle - 1) /\ outIndex <= m /\ inIndex = CdSlot(m)
  BY DEF CdTypes, CdFlow
<1>2. InWrap \in Nat \ {0} /\ CdCycle \in Nat \ {0} /\ (coderKind = "decoder" => InWrap = CdCycle)
  BY <1>1, CdSizes
<1>3. /\ CdSlot(m) \in 0..(InWrap - 1)
      /\ CdSlot(m + 1) = IF CdSlot(m) + 1 = InWrap THEN 0 ELSE CdSlot(m) + 1
      /\ \A p \in Nat : outIndex <= p /\ p < m => CdSlot(p) \in 0..(InWrap - 1) /\ CdSlot(p) # CdSlot(m)
      /\ CdSlot(m) + 1 = InWrap <=> m + 1 = InWrap
  BY <1>1, CdSlotFacts
<1>4. outIndex' = outIndex /\ inIndex' = CdSlot(m + 1)
  BY <1>1, <1>3 DEF RecordPts
<1>5. /\ \A p \in Nat : outIndex <= p /\ p < m => CdHolds(ptsMap, CdSlot(p), CdStamp(fed[b * InWrap + p + 1]))
      /\ coderKind = "decoder" /\ m >= InWrap => CdHolds(ptsMap, CdCycle, UserOf(fed[b * InWrap + InWrap]))
  BY DEF CdFlow
<1>6. CASE coderKind = "encoder"
  <2>1. ptsMap' = Put(ptsMap, CdSlot(m), CdStamp(f))
    BY <1>1, <1>6 DEF RecordPts, EncoderPts, CdStamp
  <2> QED BY <1>3, <1>4, <1>5, <1>6, <2>1, CdPutFacts
<1>7. CASE coderKind = "decoder"
  <2> DEFINE one == Put(ptsMap, CdSlot(m), CdStamp(f))
  <2>1. ptsMap' = IF m + 1 = InWrap THEN Put(one, CdCycle, UserOf(f)) ELSE one
    BY <1>1, <1>3, <1>7 DEF RecordPts, DecoderPts, CdStamp
  <2>2. /\ CdHolds(one, CdSlot(m), CdStamp(f))
        /\ \A p \in Nat : outIndex <= p /\ p < m => CdHolds(one, CdSlot(p), CdStamp(fed[b * InWrap + p + 1]))
    BY <1>3, <1>5, CdPutFacts
  <2>3. CdSlot(m) # CdCycle /\ \A p \in Nat : outIndex <= p /\ p < m => CdSlot(p) # CdCycle
    BY <1>2, <1>3, <1>7
  <2>4. m >= InWrap => CdHolds(one, CdCycle, UserOf(fed[b * InWrap + InWrap]))
    BY <1>5, <1>7, <2>3, CdPutFacts
  <2> HIDE DEF one
  <2>5. CASE m + 1 = InWrap
    <3>1. ptsMap' = Put(one, CdCycle, UserOf(f)) /\ ~(m >= InWrap)
      BY <1>2, <2>1, <2>5
    <3> QED BY <1>4, <2>2, <2>3, <3>1, CdPutFacts
  <2>6. CASE m + 1 # InWrap
    BY <1>4, <2>1, <2>2, <2>4, <2>6
  <2> QED BY <2>5, <2>6
<1> QED BY <1>1, <1>6, <1>7 DEF CdFitting

LEMMA CdPushStep == ASSUME CdPtsInv, ProcessDataPushes PROVE CdPtsInv'
PROOF
<1>0. CdTypes /\ CdBounded /\ CdFresh /\ CdLastFed /\ CdOutputPts
  BY DEF CdPtsInv
<1>1. /\ thr = "push" /\ RecordPts(hand) /\ hand' = 0 /\ thr' \in {"loop", "ended"}
      /\ UNCHANGED <<coderKind, codec, stoped, running, dataQ, slots, arrived, outs, last, refused>>
      /\ \/ fed' = Append(fed, hand) /\ pending' = pending + InSamples /\ lent' = lent + 1 /\ thr' = "loop"
         \/ UNCHANGED <<fed, pending, lent>> /\ thr' = "ended"
  BY DEF ProcessDataPushes, codecVars
<1>2. /\ coderKind \in CdFitting /\ fed \in Seq(Nat) /\ hand \in Nat /\ pending \in Nat /\ lent \in Nat
      /\ slots \in Nat /\ outs \in Nat /\ dataQ \in Seq(Nat) /\ arrived \in Nat
  BY <1>0 DEF CdTypes
<1>3. /\ InWrap \in Nat \ {0} /\ CdCycle \in Nat \ {0} /\ InSamples \in Nat \ {0} /\ OutSamples \in Nat \ {0}
      /\ CdSlots \in Nat
  BY <1>2, CdSizes, CdAssumption
<1>4. InWrap' = InWrap /\ InSamples' = InSamples /\ OutSamples' = OutSamples
  BY <1>1 DEF InWrap, InSamples, OutSamples
<1>grows. /\ fed' \in Seq(Nat) /\ pending' \in Nat /\ lent' \in Nat
       /\ Len(fed) <= Len(fed') /\ Len(fed) \in Nat /\ Len(fed') \in Nat /\ \A x \in 1..Len(fed) : fed'[x] = fed[x]
  <2>1. CASE fed' = Append(fed, hand) /\ pending' = pending + InSamples /\ lent' = lent + 1
    BY <1>2, <1>3, <2>1
  <2>2. CASE UNCHANGED <<fed, pending, lent>>
    BY <1>2, <2>2
  <2> QED BY <1>1, <2>1, <2>2
<1>5. CdTypes'
  <2>1. UNCHANGED <<coderKind, dataQ, slots, arrived, outs>> /\ hand' \in Nat
    BY <1>1
  <2> QED BY <1>2, <1>grows, <2>1 DEF CdTypes
<1>6. CdHeld(slots, thr) = slots + 1 /\ CdHeld(slots', thr') = slots
  BY <1>1, <1>2 DEF CdHeld, CdFilling
<1>7. CdBounded'
  <2>1. /\ lent + (slots + 1) <= CdSlots
        /\ pending + InSamples * (slots + 1) <= InSamples * CdSlots + OutSamples - 1
    BY <1>0, <1>6 DEF CdBounded
  <2>2. InSamples * (slots + 1) = InSamples * slots + InSamples /\ InSamples * slots \in Int /\ InSamples * CdSlots \in Int
    BY <1>2, <1>3
  <2>3. lent' + slots <= CdSlots /\ pending' + InSamples * slots <= InSamples * CdSlots + OutSamples - 1
    BY <1>1, <1>2, <1>3, <2>1, <2>2
  <2> QED BY <1>4, <1>6, <2>3 DEF CdBounded
<1>8. CdFresh'
  BY <1>0, <1>1 DEF CdFresh
<1>9. CdLastFed' /\ CdOutputPts'
  <2>1. (\A n : FrameOf(n)' = FrameOf(n)) /\ (\A n : UserFrameOf(n)' = UserFrameOf(n))
    BY <1>1 DEF FrameOf, UserFrameOf
  <2>2. Len(fed) <= Len(fed') /\ Len(fed) \in Nat /\ Len(fed') \in Nat /\ \A x \in 1..Len(fed) : fed'[x] = fed[x]
    BY <1>grows
  <2>3. CdLastFed'
    BY <1>0, <1>1, <2>1, <2>2 DEF CdLastFed
  <2>4. CdOutputPts'
    <3>1. ASSUME outs > 0, ~refused
          PROVE  /\ fed'[FrameOf(outs - 1) + 1] = fed[FrameOf(outs - 1) + 1]
                 /\ fed'[UserFrameOf(outs - 1) + 1] = fed[UserFrameOf(outs - 1) + 1]
      BY <1>0, <2>2, <3>1 DEF CdLastFed
    <3> QED BY <1>0, <1>1, <2>1, <3>1 DEF CdOutputPts
  <2> QED BY <2>3, <2>4
<1>10. ASSUME running', ~refused' PROVE \E b, m \in Nat : CdFlow(b, m)'
  <2>1. running /\ ~refused
    BY <1>1, <1>10
  <2>2. PICK b \in Nat, m \in Nat : CdFlow(b, m)
    BY <2>1 DEF CdPtsInv
  <2>3. /\ Len(fed) = b * InWrap + m /\ outs = b * CdCycle + outIndex /\ outIndex \in 0..(CdCycle - 1) /\ outIndex <= m
        /\ pending = InSamples * m - OutSamples * outIndex
    BY <2>2 DEF CdFlow
  <2>4. m + 1 <= outIndex + InWrap
    <3>1. pending + InSamples * (slots + 1) <= InSamples * CdSlots + OutSamples - 1
      BY <1>0, <1>6 DEF CdBounded
    <3>2. slots + 1 \in Nat /\ slots + 1 >= 1
      BY <1>2
    <3> QED BY <1>2, <2>3, <3>1, <3>2, CdRoom
  <2>5. /\ outIndex' = outIndex /\ inIndex' = CdSlot(m + 1)
        /\ CdHolds(ptsMap', CdSlot(m), CdStamp(hand))
        /\ \A p \in Nat : outIndex <= p /\ p < m =>
               CdHolds(ptsMap', CdSlot(p), CdStamp(fed[b * InWrap + p + 1]))
        /\ coderKind = "decoder" /\ m >= InWrap => CdHolds(ptsMap', CdCycle, UserOf(fed[b * InWrap + InWrap]))
        /\ coderKind = "decoder" /\ m + 1 = InWrap => CdHolds(ptsMap', CdCycle, UserOf(hand))
    BY <1>0, <1>1, <2>2, <2>4, CdRecorded
  <2>6. (\A p : CdSlot(p)' = CdSlot(p)) /\ (\A f : CdStamp(f)' = CdStamp(f))
    BY <1>1, <1>4 DEF CdSlot, CdStamp
  <2>7. CASE UNCHANGED <<fed, pending>> /\ thr' = "ended"
    <3>1. m <= outIndex + InWrap
      BY <1>3, <2>3, <2>4
    <3>2. CdFlow(b, m)'
      BY <1>1, <1>4, <2>3, <2>5, <2>6, <2>7, <3>1 DEF CdFlow
    <3> QED BY <3>2
  <2>8. CASE fed' = Append(fed, hand) /\ pending' = pending + InSamples
    <3>1. b * InWrap \in Nat
      BY <1>3
    <3>2. Len(fed') = b * InWrap + (m + 1) /\ fed'[b * InWrap + m + 1] = hand
      BY <1>2, <2>3, <2>8, <3>1
    <3>3. \A x \in 1..(b * InWrap + m) : fed'[x] = fed[x]
      BY <1>2, <2>3, <2>8, <3>1
    <3>4. \A p \in Nat : p < m => fed'[b * InWrap + p + 1] = fed[b * InWrap + p + 1]
      <4> DEFINE c == b * InWrap
      <4>1. c \in Nat /\ \A x \in 1..(c + m) : fed'[x] = fed[x]
        BY <3>1, <3>3
      <4> HIDE DEF c
      <4>2. \A p \in Nat : p < m => fed'[c + p + 1] = fed[c + p + 1]
        BY <4>1
      <4> QED BY <4>2 DEF c
    <3>5. m >= InWrap => fed'[b * InWrap + InWrap] = fed[b * InWrap + InWrap]
      <4> DEFINE c == b * InWrap
      <4>1. c \in Nat /\ \A x \in 1..(c + m) : fed'[x] = fed[x]
        BY <3>1, <3>3
      <4> HIDE DEF c
      <4>2. m >= InWrap => fed'[c + InWrap] = fed[c + InWrap]
        BY <1>3, <4>1
      <4> QED BY <4>2 DEF c
    <3>6. pending' = InSamples * (m + 1) - OutSamples * outIndex
      <4>1. InSamples * (m + 1) = InSamples * m + InSamples /\ InSamples * m \in Int /\ OutSamples * outIndex \in Int
        BY <1>3, <2>3
      <4> QED BY <1>3, <2>3, <2>8, <4>1
    <3>7. \A p \in Nat : outIndex <= p /\ p < m + 1 => CdHolds(ptsMap', CdSlot(p), CdStamp(fed'[b * InWrap + p + 1]))
      <4> SUFFICES ASSUME NEW p \in Nat, outIndex <= p, p < m + 1
                   PROVE  CdHolds(ptsMap', CdSlot(p), CdStamp(fed'[b * InWrap + p + 1]))
        OBVIOUS
      <4>1. CASE p = m
        BY <2>5, <3>2, <4>1
      <4>2. CASE p < m
        BY <2>5, <3>4, <4>2
      <4> QED BY <4>1, <4>2
    <3>8. coderKind = "decoder" /\ m + 1 >= InWrap => CdHolds(ptsMap', CdCycle, UserOf(fed'[b * InWrap + InWrap]))
      <4>1. CASE m >= InWrap
        BY <2>5, <3>5, <4>1
      <4>2. CASE m + 1 = InWrap
        <5>1. fed'[b * InWrap + InWrap] = hand
          <6> DEFINE c == b * InWrap
          <6>1. c \in Nat /\ fed'[c + m + 1] = hand
            BY <3>1, <3>2
          <6> HIDE DEF c
          <6>2. c + InWrap = c + m + 1
            BY <1>3, <4>2, <6>1
          <6> QED BY <6>1, <6>2 DEF c
        <5> QED BY <2>5, <4>2, <5>1
      <4> QED BY <1>3, <4>1, <4>2
    <3>9. outIndex <= m + 1 /\ m + 1 \in Nat
      BY <2>3
    <3>10. CdFlow(b, m + 1)'
      BY <1>1, <1>4, <2>3, <2>4, <2>5, <2>6, <3>2, <3>6, <3>7, <3>8, <3>9 DEF CdFlow
    <3> QED BY <3>9, <3>10
  <2> QED BY <1>1, <2>7, <2>8
<1> QED BY <1>5, <1>7, <1>8, <1>9, <1>10, Zenon DEF CdPtsInv

\* What the filter reads at an index that holds one timestamp, and an erasure there.
LEMMA CdReadFacts ==
  ASSUME NEW i, NEW v, CdHolds(ptsMap, i, v)
  PROVE  At(i) # {} /\ ValueAt(i) = v
PROOF
<1>1. At(i) = {<<i, v>>}
  BY DEF At, CdHolds
<1>2. (CHOOSE e \in {<<i, v>>} : TRUE) = <<i, v>>
  OBVIOUS
<1> QED BY <1>1, <1>2 DEF ValueAt

LEMMA CdEraseFacts ==
  ASSUME NEW i, NEW j, NEW v, NEW others, CdHolds(ptsMap, j, v), j # i,
         others = At(i) \/ (\E k : k # j /\ others = At(i) \cup At(k))
  PROVE  CdHolds(ptsMap \ others, j, v)
PROOF
<1>1. \A e \in others : e[1] # j
  BY DEF At
<1> QED BY <1>1 DEF CdHolds

\* An output with the frames it stands for: the last of the filter's cycle ends it.
LEMMA CdDelivers ==
  ASSUME CdTypes, NEW b \in Nat, NEW m \in Nat, CdFlow(b, m), pending >= OutSamples, Delivered
  PROVE  LET f == fed[b * InWrap + outIndex + 1]
             u == fed[b * InWrap + InWrap]
             ends == outIndex = CdCycle - 1
         IN  /\ outIndex + 1 <= m /\ (ends => m >= InWrap)
             /\ outIndex' = IF ends THEN 0 ELSE outIndex + 1
             /\ last' = <<CdStamp(f), IF ends THEN UserOf(u) ELSE CdStamp(f)>>
             /\ \A p \in Nat : outIndex' + (IF ends THEN InWrap ELSE 0) <= p /\ p < m =>
                    CdHolds(ptsMap', CdSlot(p), CdStamp(fed[b * InWrap + p + 1]))
             /\ coderKind = "decoder" /\ m >= InWrap /\ ~ends => CdHolds(ptsMap', CdCycle, UserOf(u))
PROOF
<1> DEFINE f == fed[b * InWrap + outIndex + 1]
           u == fed[b * InWrap + InWrap]
           ends == outIndex = CdCycle - 1
<1>1. /\ coderKind \in CdFitting /\ outIndex \in 0..(CdCycle - 1) /\ outIndex <= m /\ m <= outIndex + InWrap
      /\ pending = InSamples * m - OutSamples * outIndex
      /\ \A p \in Nat : outIndex <= p /\ p < m => CdHolds(ptsMap, CdSlot(p), CdStamp(fed[b * InWrap + p + 1]))
      /\ coderKind = "decoder" /\ m >= InWrap => CdHolds(ptsMap, CdCycle, UserOf(u))
  BY DEF CdTypes, CdFlow
<1>2. /\ InWrap \in Nat \ {0} /\ CdCycle \in Nat \ {0} /\ CdCycle <= InWrap
      /\ coderKind = "decoder" => InWrap = CdCycle
      /\ coderKind = "encoder" => InWrap = CdCycle + 1
  BY <1>1, CdSizes
<1>3. outIndex + 1 <= m /\ (ends => m >= InWrap)
  BY <1>1, CdReady
<1>4. CdSlot(outIndex) = outIndex /\ outIndex \in Nat /\ outIndex < InWrap /\ outIndex < m
  BY <1>1, <1>2, <1>3 DEF CdSlot
<1>5. CdHolds(ptsMap, outIndex, CdStamp(f))
  BY <1>1, <1>4
<1>6. At(outIndex) # {} /\ ValueAt(outIndex) = CdStamp(f)
  BY <1>5, CdReadFacts
<1>7. ends => CdHolds(ptsMap, CdCycle, UserOf(u))
  <2>1. CASE coderKind = "decoder"
    BY <1>1, <1>3, <2>1
  <2>2. CASE coderKind = "encoder"
    <3> SUFFICES ASSUME ends PROVE CdHolds(ptsMap, CdCycle, UserOf(u))
      OBVIOUS
    <3>1. CdCycle \in Nat /\ outIndex <= CdCycle /\ CdCycle < m /\ CdSlot(CdCycle) = CdCycle
      BY <1>2, <1>3, <1>1, <2>2 DEF CdSlot
    <3>2. CdHolds(ptsMap, CdCycle, CdStamp(fed[b * InWrap + CdCycle + 1]))
      BY <1>1, <3>1
    <3>3. b * InWrap + CdCycle + 1 = b * InWrap + InWrap
      BY <1>2, <2>2
    <3> QED BY <2>2, <3>2, <3>3 DEF CdStamp
  <2> QED BY <1>1, <2>1, <2>2 DEF CdFitting
<1>8. ends => At(CdCycle) # {} /\ ValueAt(CdCycle) = UserOf(u)
  BY <1>7, CdReadFacts
<1>9. ends <=> outIndex + 1 = CdCycle
  BY <1>1, <1>2
<1>10. /\ outIndex' = IF ends THEN 0 ELSE outIndex + 1
       /\ last' = <<CdStamp(f), IF ends THEN UserOf(u) ELSE CdStamp(f)>>
  <2> HIDE DEF f, u, ends
  <2>1. CASE coderKind = "encoder"
    BY <1>6, <1>8, <1>9, <2>1 DEF Delivered, EncoderDelivers
  <2>2. CASE coderKind = "decoder"
    BY <1>6, <1>8, <1>9, <2>2 DEF Delivered, DecoderDelivers
  <2> QED BY <1>1, <2>1, <2>2 DEF CdFitting
<1>11. \/ ptsMap' = ptsMap \ At(outIndex) /\ (ends => coderKind = "decoder")
       \/ ptsMap' = ptsMap \ (At(outIndex) \cup At(CdCycle)) /\ ends /\ coderKind = "encoder"
  <2> HIDE DEF f, u, ends
  <2>1. CASE coderKind = "encoder"
    BY <1>9, <2>1 DEF Delivered, EncoderDelivers
  <2>2. CASE coderKind = "decoder"
    BY <2>2 DEF Delivered, DecoderDelivers
  <2> QED BY <1>1, <2>1, <2>2 DEF CdFitting
<1>12. ASSUME NEW p \in Nat, outIndex' + (IF ends THEN InWrap ELSE 0) <= p, p < m
       PROVE  CdHolds(ptsMap', CdSlot(p), CdStamp(fed[b * InWrap + p + 1]))
  <2>1. outIndex < p /\ (ends => InWrap <= p)
    BY <1>1, <1>2, <1>10, <1>12
  <2>2. CdSlot(p) # outIndex /\ (ends => CdSlot(p) < CdCycle)
    BY <1>1, <1>2, <1>12, <2>1 DEF CdSlot
  <2>3. CdHolds(ptsMap, CdSlot(p), CdStamp(fed[b * InWrap + p + 1]))
    BY <1>1, <1>12, <2>1
  <2>4. ends => CdSlot(p) # CdCycle
    BY <1>2, <2>2
  <2>5. CdHolds(ptsMap \ At(outIndex), CdSlot(p), CdStamp(fed[b * InWrap + p + 1]))
    BY <2>2, <2>3, CdEraseFacts
  <2>6. ends => CdHolds(ptsMap \ (At(outIndex) \cup At(CdCycle)), CdSlot(p), CdStamp(fed[b * InWrap + p + 1]))
    BY <2>2, <2>3, <2>4, CdEraseFacts
  <2> QED BY <1>11, <2>5, <2>6
<1>13. ASSUME coderKind = "decoder", m >= InWrap PROVE CdHolds(ptsMap', CdCycle, UserOf(u))
  <2>1. ptsMap' = ptsMap \ At(outIndex) /\ CdCycle # outIndex
    BY <1>1, <1>2, <1>11, <1>13
  <2> QED BY <1>1, <1>13, <2>1, CdEraseFacts
<1> QED BY <1>3, <1>10, <1>12, <1>13

\* The frame of the output that comes next.
LEMMA CdFrameOfNext ==
  ASSUME coderKind \in CdFitting, NEW b \in Nat, NEW o \in 0..(CdCycle - 1)
  PROVE  /\ FrameOf(b * CdCycle + o) = b * InWrap + o
         /\ UserFrameOf(b * CdCycle + o) =
                IF o = CdCycle - 1 THEN b * InWrap + InWrap - 1 ELSE b * InWrap + o
         /\ (b * CdCycle + o) % CdCycle = o
PROOF
<1>1. CdCycle \in Nat \ {0}
  BY CdAssumption
<1>2. (b * CdCycle + o) \div CdCycle = b /\ (b * CdCycle + o) % CdCycle = o
  BY <1>1, DivMod
<1>3. b * InWrap \in Int /\ b * CdCycle \in Int /\ b * (CdCycle + 1) \in Int
  BY <1>1, CdSizes
<1>4. CASE coderKind = "encoder"
  BY <1>1, <1>2, <1>3, <1>4, CdSizes DEF FrameOf, UserFrameOf
<1>5. CASE coderKind = "decoder"
  <2>1. InWrap = CdCycle /\ coderKind # "encoder"
    BY <1>5, CdSizes
  <2>2. \A n : FrameOf(n) = n /\ UserFrameOf(n) = n
    BY <2>1 DEF FrameOf, UserFrameOf
  <2>3. o = CdCycle - 1 => b * CdCycle + o = b * CdCycle + CdCycle - 1
    BY <1>1, <1>3
  <2> QED BY <1>2, <2>1, <2>2, <2>3
<1> QED BY <1>4, <1>5 DEF CdFitting

LEMMA CdOutputStep == ASSUME CdPtsInv, OnOutputBufferAvailable PROVE CdPtsInv'
PROOF
<1>0. CdTypes /\ CdBounded /\ CdFresh /\ CdLastFed /\ CdOutputPts
  BY DEF CdPtsInv
<1>1. /\ codec = "started" /\ pending >= OutSamples /\ pending' = pending - OutSamples
      /\ UNCHANGED <<coderKind, codec, stoped, running, thr, hand, dataQ, slots, lent, arrived, inIndex, fed>>
      /\ \/ running /\ Delivered /\ outs' = outs + 1 /\ refused' = refused
         \/ (running => refused') /\ (refused => refused') /\ UNCHANGED <<ptsMap, outIndex, outs, last>>
  BY DEF OnOutputBufferAvailable, codecVars, queueVars
<1>2. /\ coderKind \in CdFitting /\ fed \in Seq(Nat) /\ pending \in Nat /\ outs \in Nat /\ slots \in Nat /\ lent \in Nat
      /\ InWrap \in Nat \ {0} /\ CdCycle \in Nat \ {0} /\ InSamples \in Nat \ {0} /\ OutSamples \in Nat \ {0}
      /\ CdCycle <= InWrap /\ InSamples * InWrap = OutSamples * CdCycle /\ CdSlots \in Nat
  BY <1>0, CdSizes, CdAssumption DEF CdTypes
<1>3. InWrap' = InWrap /\ InSamples' = InSamples /\ OutSamples' = OutSamples
  BY <1>1 DEF InWrap, InSamples, OutSamples
<1>4. /\ (\A p : CdSlot(p)' = CdSlot(p)) /\ (\A g : CdStamp(g)' = CdStamp(g))
      /\ (\A n : FrameOf(n)' = FrameOf(n)) /\ (\A n : UserFrameOf(n)' = UserFrameOf(n))
  BY <1>1, <1>3 DEF CdSlot, CdStamp, FrameOf, UserFrameOf
<1>5. CdTypes'
  <2>1. pending' \in Nat /\ outs' \in Nat
    BY <1>1, <1>2
  <2> QED BY <1>0, <1>1, <2>1 DEF CdTypes
<1>6. CdBounded'
  <2>1. InSamples * CdHeld(slots, thr) \in Int /\ InSamples * CdSlots \in Int
    BY <1>2, CdHeldIsNat
  <2>2. pending + InSamples * CdHeld(slots, thr) <= InSamples * CdSlots + OutSamples - 1
    BY <1>0 DEF CdBounded
  <2>3. pending' + InSamples * CdHeld(slots, thr) <= InSamples * CdSlots + OutSamples - 1
    <3> DEFINE x == InSamples * CdHeld(slots, thr)
               y == InSamples * CdSlots
    <3> HIDE DEF x, y
    <3>1. x \in Int /\ y \in Int /\ pending + x <= y + OutSamples - 1
      BY <2>1, <2>2 DEF x, y
    <3>2. pending' + x <= y + OutSamples - 1
      BY <1>1, <1>2, <3>1
    <3> QED BY <3>2 DEF x, y
  <2> QED BY <1>0, <1>1, <1>3, <2>3 DEF CdBounded
<1>7. CdFresh'
  BY <1>1 DEF CdFresh
<1>8. CASE (running => refused') /\ (refused => refused') /\ UNCHANGED <<ptsMap, outIndex, outs, last>>
  <2>1. CdLastFed' /\ CdOutputPts'
    BY <1>0, <1>1, <1>4, <1>8 DEF CdLastFed, CdOutputPts
  <2>2. ~(running' /\ ~refused')
    BY <1>1, <1>8
  <2> QED BY <1>5, <1>6, <1>7, <2>1, <2>2, Zenon DEF CdPtsInv
<1>9. CASE refused'
  BY <1>5, <1>6, <1>7, <1>9, Zenon DEF CdPtsInv, CdLastFed, CdOutputPts
<1>10. CASE running /\ Delivered /\ outs' = outs + 1 /\ ~refused /\ refused' = refused
  <2>1. PICK b \in Nat, m \in Nat : CdFlow(b, m)
    BY <1>10 DEF CdPtsInv
  <2> DEFINE c == b * InWrap
             f == fed[c + outIndex + 1]
             u == fed[c + InWrap]
             ends == outIndex = CdCycle - 1
  <2>2. /\ Len(fed) = c + m /\ outs = b * CdCycle + outIndex /\ outIndex \in 0..(CdCycle - 1) /\ outIndex <= m
        /\ m <= outIndex + InWrap /\ pending = InSamples * m - OutSamples * outIndex
        /\ thr # "ended" => inIndex = CdSlot(m)
    BY <2>1 DEF CdFlow
  <2>3. /\ outIndex + 1 <= m /\ (ends => m >= InWrap)
        /\ outIndex' = IF ends THEN 0 ELSE outIndex + 1
        /\ last' = <<CdStamp(f), IF ends THEN UserOf(u) ELSE CdStamp(f)>>
        /\ \A p \in Nat : outIndex' + (IF ends THEN InWrap ELSE 0) <= p /\ p < m =>
               CdHolds(ptsMap', CdSlot(p), CdStamp(fed[c + p + 1]))
        /\ coderKind = "decoder" /\ m >= InWrap /\ ~ends => CdHolds(ptsMap', CdCycle, UserOf(u))
    BY <1>0, <1>1, <1>10, <2>1, CdDelivers
  <2>4. c \in Nat /\ b * CdCycle \in Nat
    BY <1>2
  <2>5. /\ FrameOf(outs) = c + outIndex
        /\ UserFrameOf(outs) = IF ends THEN c + InWrap - 1 ELSE c + outIndex
        /\ outs % CdCycle = outIndex
    BY <1>2, <2>2, CdFrameOfNext
  <2>6. outs' - 1 = outs
    BY <1>2, <1>10
  <2>7. CdLastFed'
    <3> HIDE DEF c
    <3>1. FrameOf(outs) + 1 \in 1..Len(fed) /\ UserFrameOf(outs) + 1 \in 1..Len(fed)
      BY <1>2, <2>2, <2>3, <2>4, <2>5
    <3> QED BY <1>1, <1>4, <2>6, <3>1 DEF CdLastFed
  <2>8. CdOutputPts'
    <3> HIDE DEF c
    <3>1. fed[FrameOf(outs) + 1] = f /\ fed[UserFrameOf(outs) + 1] = (IF ends THEN u ELSE f)
      <4>1. c + InWrap - 1 + 1 = c + InWrap
        BY <1>2, <2>4
      <4> QED BY <2>5, <4>1
    <3>2. coderKind = "decoder" /\ ends => u = f
      <4>1. coderKind = "decoder" => InWrap = CdCycle
        BY <1>2, CdSizes
      <4>2. coderKind = "decoder" /\ ends => c + outIndex + 1 = c + InWrap
        BY <1>2, <2>2, <2>4, <4>1
      <4> QED BY <4>2
    <3>3. outs % CdCycle = CdCycle - 1 <=> ends
      BY <2>5
    <3> HIDE DEF f, u, ends
    <3>4. last' = IF coderKind = "encoder" THEN <<UserOf(f), UserOf(IF ends THEN u ELSE f)>>
                  ELSE <<PtsOf(f), IF ends THEN UserOf(f) ELSE PtsOf(f)>>
      BY <1>2, <2>3, <3>2 DEF CdStamp, CdFitting
    <3> QED BY <1>1, <1>4, <2>6, <3>1, <3>3, <3>4 DEF CdOutputPts
  <2>9. \E b2, m2 \in Nat : CdFlow(b2, m2)'
    <3>1. CASE ~ends
      <4>1. CdFlow(b, m)'
        <5>1. outIndex' = outIndex + 1 /\ outIndex' \in 0..(CdCycle - 1) /\ outIndex' <= m /\ m <= outIndex' + InWrap
          <6>1. outIndex' = outIndex + 1 /\ outIndex + 1 <= m
            BY <2>3, <3>1
          <6> HIDE DEF c
          <6> QED BY <1>2, <2>2, <3>1, <6>1
        <5>2. outs' = b * CdCycle + outIndex'
          BY <1>2, <1>10, <2>2, <2>4, <5>1
        <5>3. pending' = InSamples * m - OutSamples * outIndex'
          <6>1. OutSamples * (outIndex + 1) = OutSamples * outIndex + OutSamples /\ OutSamples * outIndex \in Int /\ InSamples * m \in Int
            BY <1>2, <2>2
          <6> QED BY <1>1, <1>2, <2>2, <5>1, <6>1
        <5>4. \A p \in Nat : outIndex' <= p /\ p < m => CdHolds(ptsMap', CdSlot(p), CdStamp(fed[c + p + 1]))
          BY <2>3, <3>1, <5>1
        <5> QED BY <1>1, <1>3, <1>4, <2>2, <2>3, <3>1, <5>1, <5>2, <5>3, <5>4 DEF CdFlow
      <4> QED BY <4>1
    <3>2. CASE ends
      <4>0. m - InWrap \in Nat /\ m = (m - InWrap) + InWrap
        BY <1>2, <2>3, <3>2
      <4>11. PICK k \in Nat : m = k + InWrap
        BY <4>0
      <4>1. k \in Nat /\ m = k + InWrap /\ k < InWrap /\ k < CdCycle
        BY <1>2, <2>2, <2>3, <3>2, <4>11
      <4>2. outIndex' = 0 /\ 0 \in 0..(CdCycle - 1)
        BY <1>2, <2>3, <3>2
      <4>3. (b + 1) * InWrap = c + InWrap /\ (b + 1) * CdCycle = b * CdCycle + CdCycle
        BY <1>2
      <4>4. Len(fed) = (b + 1) * InWrap + k
        BY <1>2, <2>2, <2>4, <4>1, <4>3
      <4>5. outs' = (b + 1) * CdCycle + outIndex'
        BY <1>2, <1>10, <2>2, <2>4, <3>2, <4>2, <4>3
      <4>6. pending' = InSamples * k - OutSamples * outIndex'
        <5>1. InSamples * (k + InWrap) = InSamples * k + InSamples * InWrap /\ InSamples * k \in Int
          BY <1>2, <4>1
        <5>2. OutSamples * (outIndex + 1) = OutSamples * outIndex + OutSamples /\ OutSamples * outIndex \in Int
          BY <1>2, <2>2
        <5>3. outIndex + 1 = CdCycle /\ OutSamples * 0 = 0
          BY <1>2, <2>2, <3>2
        <5>4. InSamples * m = InSamples * k + OutSamples * CdCycle
          BY <1>2, <4>1, <5>1
        <5>5. OutSamples * CdCycle = OutSamples * outIndex + OutSamples
          BY <5>2, <5>3
        <5> DEFINE x == InSamples * m
                   y == OutSamples * outIndex
                   z == InSamples * k
        <5>6. x = z + (y + OutSamples) /\ x \in Int /\ y \in Int /\ z \in Int /\ pending' = (x - y) - OutSamples
          BY <1>1, <1>2, <2>2, <5>1, <5>2, <5>4, <5>5
        <5> HIDE DEF x, y, z
        <5>7. pending' = z
          BY <1>2, <5>6
        <5>8. pending' = InSamples * k /\ OutSamples * outIndex' = 0
          BY <4>2, <5>3, <5>7 DEF z
        <5> QED BY <5>1, <5>8
      <4>7. thr' # "ended" => inIndex' = CdSlot(k)
        BY <1>1, <1>2, <2>2, <4>1 DEF CdSlot
      <4>8. ASSUME NEW p \in Nat, p < k PROVE CdHolds(ptsMap', CdSlot(p), CdStamp(fed[(b + 1) * InWrap + p + 1]))
        <5>1. /\ p + InWrap \in Nat /\ InWrap <= p + InWrap /\ p + InWrap < m
              /\ outIndex' + InWrap <= p + InWrap
          BY <1>2, <4>1, <4>2, <4>8
        <5>2. CdHolds(ptsMap', CdSlot(p + InWrap), CdStamp(fed[c + (p + InWrap) + 1]))
          BY <2>3, <3>2, <5>1
        <5>3. CdSlot(p + InWrap) = CdSlot(p)
          BY <1>2, <4>1, <4>8 DEF CdSlot
        <5>4. c + (p + InWrap) + 1 = (b + 1) * InWrap + p + 1
          BY <1>2, <2>4, <4>3
        <5> QED BY <5>2, <5>3, <5>4
      <4>9. CdFlow(b + 1, k)'
        <5>1. ~(k >= InWrap) /\ outIndex' <= k /\ k <= outIndex' + InWrap
          BY <1>2, <4>1, <4>2
        <5> DEFINE n == b + 1
        <5> HIDE DEF n
        <5>2. Len(fed) = n * InWrap + k /\ outs' = n * CdCycle + outIndex'
          BY <4>4, <4>5 DEF n
        <5>3. \A p \in Nat : p < k => CdHolds(ptsMap', CdSlot(p), CdStamp(fed[n * InWrap + p + 1]))
          BY <4>8 DEF n
        <5>4. CdFlow(n, k)'
          BY <1>1, <1>3, <1>4, <4>2, <4>6, <4>7, <5>1, <5>2, <5>3 DEF CdFlow
        <5> QED BY <5>4 DEF n
      <4>10. b + 1 \in Nat
        OBVIOUS
      <4> QED BY <4>1, <4>9, <4>10
    <3> QED BY <3>1, <3>2
  <2> QED BY <1>5, <1>6, <1>7, <2>7, <2>8, <2>9, Zenon DEF CdPtsInv
<1> QED BY <1>1, <1>8, <1>9, <1>10

(* Every output of a decoder, or of an encoder of AAC, carries the         *)
(* timestamps of the input it stands for, for any length of the cycle and  *)
(* any number of frames: frameInIndex_ and frameOutIndex_ never drift      *)
(* apart, and the frames in the codec never share a place of ptsMap_.      *)
THEOREM OutputHasItsPts == CdSpec => []CdOutputPts
PROOF
<1> DEFINE FitInv == coderKind \in CdKinds /\ (coderKind \in CdFitting => CdPtsInv)
<1>1. CdInit => FitInv
  BY CdPtsInit DEF CdInit
<1>2. FitInv /\ [CdNext]_cdVars => FitInv'
  <2> SUFFICES ASSUME FitInv, [CdNext]_cdVars PROVE FitInv'
    OBVIOUS
  <2>1. coderKind' = coderKind
    BY DEF CdNext, EngineSteps, InputSteps, CodecSteps, CdPrepare, CdStart, CdStopBegins, CdStopEnds, CdDestroy,
       CdProcessInputBuffer, ThreadTakes, ThreadLeaves, ProcessDataChecks, ProcessDataPushes, OnCodecError,
       OnInputBufferAvailable, OnOutputBufferAvailable, cdVars
  <2>2. ASSUME CdPtsInv PROVE CdPtsInv'
    <3>1. CASE CdStart
      BY <2>2, <3>1, CdStartStep
    <3>2. CASE ProcessDataPushes
      BY <2>2, <3>2, CdPushStep
    <3>3. CASE OnOutputBufferAvailable
      BY <2>2, <3>3, CdOutputStep
    <3>4. CASE \/ CdPrepare \/ CdStopBegins \/ CdStopEnds \/ CdDestroy \/ CdProcessInputBuffer \/ ThreadTakes
               \/ ThreadLeaves \/ ProcessDataChecks \/ OnCodecError \/ OnInputBufferAvailable \/ UNCHANGED cdVars
      BY <2>2, <3>4, CdQuietSteps
    <3> QED BY <3>1, <3>2, <3>3, <3>4, Zenon DEF CdNext, EngineSteps, InputSteps, CodecSteps
  <2> QED BY <2>1, <2>2
<1>3. FitInv => CdOutputPts
  BY DEF CdPtsInv, CdOutputPts, CdKinds, CdFitting
<1> QED BY <1>1, <1>2, <1>3, PTL DEF CdSpec
=============================================================================
