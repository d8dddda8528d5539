----------------------------- MODULE AvPipeline -----------------------------
(***************************************************************************)
(* The audio pipelines: a chain of filters that is built while it is       *)
(* prepared, each filter asking the engine for the next one.  Filter 1 is  *)
(* AVTransAudioInputFilter (sender) or AVTransBusInputFilter (receiver),   *)
(* the last one DSoftbusOutputFilter or DAudioOutputFilter, and between    *)
(* them is the coder unless the stream is AAC already.  Pipeline holds its *)
(* mutex during an operation, which visits the filters one by one; frames  *)
(* flow meanwhile on other threads, which test a flag of their filter and  *)
(* push into the next one without any lock.                                *)
(***************************************************************************)
EXTENDS Integers, FiniteSets

CONSTANT PipeQueueMax   \* DEFAULT_BUFFER_NUM of a filter's buffer queue

Sides == {"sender", "receiver"}
Filters == 1..3

VARIABLES
  side, coded,     \* which pipeline this is, and whether it has a coder
  linked,          \* filters linked so far: 1..linked
  fstate, ferr,    \* curState_ and errCode_ of every filter
  producer,        \* filters that hold the queue of the next one
  inList,          \* filters_ of the pipeline is not empty
  op,              \* the operation under way: its name, the filter it is at, its way
  result,          \* what the last operation answered
  engine,          \* currentState_ of the engine
  coding,          \* isEncoderRunning_ or isDecoderRunning_ of the coder
  feed,            \* how far an engine's thread is with a frame it pushes or is given
  emit,            \* the codec's thread has found coding set, and is to push
  queued,          \* frames in the input queue of a filter
  channel          \* the softbus data channel is open

chainVars == <<linked, producer, inList>>
runVars == <<op, result>>
frameVars == <<feed, emit>>
pipeVars == <<side, coded, chainVars, fstate, ferr, runVars, engine, coding, frameVars,
              queued, channel>>

LastFilter == IF coded THEN 3 ELSE 2
Coder(i) == coded /\ i = 2
NoOp == [name |-> "none", at |-> 0, way |-> "down"]

\* InitPipeline of an engine: the head filter is added and linked.
PipeInit ==
  /\ side \in Sides /\ coded \in BOOLEAN
  /\ linked = 1 /\ producer = {} /\ inList = TRUE
  /\ fstate = [i \in Filters |-> IF i = 1 THEN "INITIALIZED" ELSE "ERROR"]
  /\ ferr = [i \in Filters |-> "ok"]
  /\ op = NoOp /\ result = <<>> /\ engine = "INITIALIZED"
  /\ coding = FALSE /\ feed = "idle" /\ emit = FALSE
  /\ queued = [i \in Filters |-> 0] /\ channel = FALSE

-----------------------------------------------------------------------------
\* What the filters do in an operation, and which of it can fail.

\* The head of the receiver creates a channel server; the output of the sender
\* parses its parameters; any coder needs a codec and every output a queue.
PrepareCanFail(i) == i > 1 \/ side = "receiver"

\* The coder asks for authorisation and starts the codec; the sender's output
\* opens the channel.
StartCanFail(i) == Coder(i) \/ (i = LastFilter /\ side = "sender")
StopCanFail(i) == StartCanFail(i)

CanFail(name, i) ==
  CASE name = "Prepare" -> PrepareCanFail(i)
    [] name = "Start" -> StartCanFail(i)
    [] name = "Stop" -> StopCanFail(i)
    [] OTHER -> FALSE

Target(name) ==
  CASE name = "Prepare" -> "READY"
    [] name \in {"Start", "Resume"} -> "RUNNING"
    [] name = "Pause" -> "PAUSED"
    [] name = "Stop" -> "STOPPED"

\* NEXT_FILTER_NEEDED: the engine makes the next filter once.
NextFilterNeeded(i) == i < LastFilter /\ linked = i

\* LinkFilters and LinkNext, then LinkPipeLine of the new filter.
LinkNext(i) ==
  IF NextFilterNeeded(i)
  THEN /\ linked' = i + 1
       /\ fstate' = [fstate EXCEPT ![i + 1] = "INITIALIZED"]
  ELSE UNCHANGED <<linked, fstate>>

\* OnLinkedResult: the last filter's queue is handed back through the coder,
\* which hands on its own.
OnLinkedResult(i) ==
  producer' = IF i = LastFilter THEN 1..(i - 1) ELSE producer

\* The softbus channel of the sender's output filter.
ChannelAfter(name, i) ==
  IF side = "sender" /\ i = LastFilter /\ name = "Start" THEN TRUE
  ELSE IF side = "sender" /\ i = LastFilter /\ name = "Stop" THEN FALSE
  ELSE channel

\* DoPrepare of filter i; PrepareDone visits the next filters only after it.
DoPrepare(i, ok) ==
  /\ ferr' = [ferr EXCEPT ![i] = IF ok THEN "ok" ELSE "err"]
  /\ IF ok THEN LinkNext(i) /\ OnLinkedResult(i)
     ELSE UNCHANGED <<linked, fstate, producer>>

\* The coder's codec starts once it was configured, which the output needs to
\* be linked, and not a second time while it runs: the codec refuses that, and
\* a thread assigned over a running one ends the program.
CodecStarts == linked = LastFilter /\ ~coding

\* StartAudioCodec sets the flag when all has succeeded; StopInputThread clears
\* it first and gives the inputs back.
CoderAt(name, i, ok) ==
  /\ coding' = IF ~Coder(i) THEN coding
               ELSE IF name = "Start" THEN coding \/ ok
               ELSE coding /\ name # "Stop"
  /\ queued' = IF Coder(i) /\ name = "Stop" THEN [queued EXCEPT ![i] = 0] ELSE queued

\* StartDone, StopDone, PauseDone, ResumeDone of filter i.
DoneAt(name, i, ok) ==
  /\ ok /\ Coder(i) /\ name = "Start" => CodecStarts
  /\ CoderAt(name, i, ok)
  /\ ferr' = [ferr EXCEPT ![i] = IF ok THEN "ok" ELSE "err"]
  /\ fstate' = [fstate EXCEPT ![i] = IF ok THEN Target(name) ELSE "ERROR"]
  /\ channel' = IF ok THEN ChannelAfter(name, i) ELSE channel

-----------------------------------------------------------------------------
\* Operations of the pipeline.

\* A plausible slip: Resume begins with the filter itself.
DownwardAlsoResume == {"Stop", "Pause", "Resume"}

\* Operations that reach a filter before the next ones.
Downward == {"Stop", "Pause"}

\* What the engine asks of its state before it calls the pipeline: only the
\* sender pauses and resumes, in any state, as both engines stop in any state.
EngineLets(name) ==
  CASE name = "Prepare" -> engine \in {"INITIALIZED", "CH_CREATED"}
    [] name = "Start" -> engine = "CH_CREATED"
    [] name \in {"Pause", "Resume"} -> side = "sender"
    [] name = "Stop" -> TRUE

OpBegins(name) ==
  /\ op = NoOp /\ EngineLets(name)
  /\ op' = IF inList THEN [name |-> name, at |-> 1, way |-> "down"]
           ELSE [name |-> name, at |-> 0, way |-> "wait"]
  /\ UNCHANGED <<side, coded, chainVars, fstate, ferr, result, engine, coding, frameVars,
                 queued, channel>>

\* On the way down: Prepare does its work and goes on only if it succeeded.
PrepareDown ==
  LET i == op.at IN
  /\ op.name = "Prepare" /\ op.way = "down"
  /\ \/ /\ DoPrepare(i, TRUE)
        /\ op' = IF i = LastFilter THEN [op EXCEPT !.way = "up"] ELSE [op EXCEPT !.at = i + 1]
     \/ /\ PrepareCanFail(i) /\ DoPrepare(i, FALSE)
        /\ op' = IF i = 1 THEN [op EXCEPT !.at = 0, !.way = "wait"]
                 ELSE [op EXCEPT !.at = i - 1, !.way = "up"]
  /\ UNCHANGED <<side, coded, inList, result, engine, coding, frameVars, queued, channel>>

PrepareUp ==
  /\ op.name = "Prepare" /\ op.way = "up" /\ op.at > 0
  /\ fstate' = [fstate EXCEPT ![op.at] = "READY"]
  /\ op' = IF op.at = 1 THEN [op EXCEPT !.at = 0, !.way = "wait"]
           ELSE [op EXCEPT !.at = op.at - 1]
  /\ UNCHANGED <<side, coded, chainVars, ferr, result, engine, coding, frameVars, queued,
                 channel>>

\* Stop and Pause work on the way down, Start and Resume on the way up; what a
\* later filter answers is not looked at.
VisitDown ==
  LET i == op.at
      isLast == i = linked
      next == IF isLast THEN [op EXCEPT !.way = "up"] ELSE [op EXCEPT !.at = i + 1]
      work == op.name \in Downward
  IN
  /\ op.name \in {"Start", "Stop", "Pause", "Resume"} /\ op.way = "down"
  /\ IF work
     THEN \E ok \in BOOLEAN :
            /\ ok \/ CanFail(op.name, i)
            /\ DoneAt(op.name, i, ok)
     ELSE UNCHANGED <<fstate, ferr, coding, queued, channel>>
  /\ op' = IF isLast /\ work THEN [op EXCEPT !.at = 0, !.way = "wait"] ELSE next
  /\ UNCHANGED <<side, coded, chainVars, result, engine, frameVars>>

VisitUp ==
  LET i == op.at IN
  /\ op.name \in {"Start", "Resume"} /\ op.way = "up"
  /\ \E ok \in BOOLEAN :
       /\ ok \/ CanFail(op.name, i)
       /\ DoneAt(op.name, i, ok)
  /\ op' = IF i = 1 THEN [op EXCEPT !.at = 0, !.way = "wait"] ELSE [op EXCEPT !.at = i - 1]
  /\ UNCHANGED <<side, coded, chainVars, result, engine, frameVars>>

\* WaitAllState: a filter that is not in the state answers its own errCode_; a
\* filter that is answers the errCode_ of a next filter whose wait failed, not
\* what that wait answered.
WaitAllState(state) ==
  LET wait[i \in Filters] ==
        IF fstate[i] # state THEN ferr[i]
        ELSE IF i < linked /\ wait[i + 1] # "ok" THEN ferr[i + 1] ELSE "ok"
  IN  wait[1]

\* A plausible slip: only the head filter is waited for.
AnswerOfHead ==
  IF inList THEN ferr[1] ELSE "ok"

\* What the operation answers: the head filter's own result, then the wait.
Answer ==
  IF ~inList THEN "ok"
  ELSE IF ferr[1] # "ok" THEN ferr[1]
  ELSE WaitAllState(Target(op.name))

EngineAfter(name) ==
  CASE name = "Prepare" -> "CH_CREATED"
    [] name = "Start" -> "STARTED"
    [] name = "Stop" -> "STOPPED"
    [] OTHER -> engine

\* Start of the sender engine also opens the control channel, which may fail
\* and leaves its state as it was.  Stop empties filters_ whatever it answers.
OpEnds ==
  /\ op.way = "wait"
  /\ result' = <<op.name, Answer>>
  /\ \/ engine' = IF Answer = "ok" THEN EngineAfter(op.name) ELSE engine
     \/ side = "sender" /\ op.name = "Start" /\ engine' = engine
  /\ inList' = (inList /\ op.name # "Stop")
  /\ op' = NoOp
  /\ UNCHANGED <<side, coded, linked, producer, fstate, ferr, coding, frameVars, queued,
                 channel>>

\* OnChannelEvent of an engine: an opened channel, or one that failed or closed.
EngineEvent ==
  /\ \/ engine # "STARTED" /\ engine' = "CH_CREATED"
     \/ engine' = "INITIALIZED"
  /\ UNCHANGED <<side, coded, chainVars, fstate, ferr, runVars, coding, frameVars, queued,
                 channel>>

-----------------------------------------------------------------------------
\* Frames.

Room(i) == queued[i] < PipeQueueMax

Passes(i) ==
  IF i \in producer /\ Room(i + 1)
  THEN queued' = [queued EXCEPT ![i + 1] = @ + 1]
  ELSE UNCHANGED queued

\* PushData of the sender's engine accepts a frame.
PipePushData ==
  /\ side = "sender" /\ feed = "idle" /\ engine \in {"STARTED", "PLAYING"}
  /\ feed' = "accepted"
  /\ UNCHANGED <<side, coded, chainVars, fstate, ferr, runVars, engine, coding, emit, queued,
                 channel>>

\* DoProcessInputBuffer of the head: only a head that runs lets the frame on.
HeadTests ==
  /\ feed = "accepted"
  /\ IF fstate[1] = "RUNNING" THEN feed' = "tested" /\ UNCHANGED engine
     ELSE feed' = "idle" /\ engine' = "PLAYING"
  /\ UNCHANGED <<side, coded, chainVars, fstate, ferr, runVars, coding, emit, queued, channel>>

\* ProcessAndSendBuffer of the head, and the end of PushData.
HeadPushes ==
  /\ feed = "tested" /\ feed' = "idle" /\ engine' = "PLAYING"
  /\ Passes(1)
  /\ UNCHANGED <<side, coded, chainVars, fstate, ferr, runVars, coding, emit, channel>>

\* OnStreamReceived, StreamDataEnqueue of the receiver's head: whenever the
\* peer sends, also before the pipeline runs.
ReceiverFrame ==
  /\ side = "receiver" /\ channel
  /\ Passes(1)
  /\ UNCHANGED <<side, coded, chainVars, fstate, ferr, runVars, engine, coding, frameVars,
                 channel>>

\* The codec has turned an input into an output: its callback looks at the
\* coder's own flag, never at the state of the filter, and pushes afterwards.
CoderTests ==
  /\ coded /\ coding /\ queued[2] > 0 /\ ~emit
  /\ emit' = TRUE
  /\ queued' = [queued EXCEPT ![2] = @ - 1]
  /\ UNCHANGED <<side, coded, chainVars, fstate, ferr, runVars, engine, coding, feed, channel>>

CoderPushes ==
  /\ emit /\ emit' = FALSE
  /\ Passes(2)
  /\ UNCHANGED <<side, coded, chainVars, fstate, ferr, runVars, engine, coding, feed, channel>>

\* DoProcessInputBuffer of an output: a frame is sent on the channel, or given
\* to the receiver engine, which looks at its state and is PLAYING afterwards;
\* one that cannot be passed on is released too.
OutputFrame ==
  /\ queued[LastFilter] > 0
  /\ queued' = [queued EXCEPT ![LastFilter] = @ - 1]
  /\ IF side = "receiver"
     THEN feed = "idle" /\ feed' = IF engine \in {"STARTED", "PLAYING"} THEN "given" ELSE "idle"
     ELSE UNCHANGED feed
  /\ UNCHANGED <<side, coded, chainVars, fstate, ferr, runVars, engine, coding, emit, channel>>

PipeHandleOutputBuffer ==
  /\ feed = "given" /\ feed' = "idle" /\ engine' = "PLAYING"
  /\ UNCHANGED <<side, coded, chainVars, fstate, ferr, runVars, coding, emit, queued, channel>>

\* The peer opens the channel of the receiver's head, once its server exists,
\* and closes the channel of either side.
PeerChannel ==
  /\ channel \/ (side = "receiver" /\ linked > 1)
  /\ channel' = ~channel
  /\ UNCHANGED <<side, coded, chainVars, fstate, ferr, runVars, engine, coding, frameVars,
                 queued>>

OpSteps ==
  \/ \E name \in {"Prepare", "Start", "Pause", "Resume", "Stop"} : OpBegins(name)
  \/ PrepareDown \/ PrepareUp \/ VisitDown \/ VisitUp \/ OpEnds

FrameSteps ==
  \/ PipePushData \/ HeadTests \/ HeadPushes \/ ReceiverFrame
  \/ CoderTests \/ CoderPushes \/ OutputFrame \/ PipeHandleOutputBuffer

PipeNext == OpSteps \/ FrameSteps \/ PeerChannel \/ EngineEvent

PipeSpec == PipeInit /\ [][PipeNext]_pipeVars

-----------------------------------------------------------------------------
(* An operation that answers success on a pipeline with filters has brought *)
(* its first two filters, as far as they are linked, into the state, and    *)
(* Prepare has linked the second: the wait catches what the recursive calls *)
(* ignore, in whatever order the engine's state lets operations come.  (A   *)
(* failure of the third filter of a coded pipeline is masked by             *)
(* WaitAllState, and a pipeline emptied by an earlier Stop answers success  *)
(* at once.)                                                                *)
PipeOkMeansFirstTwo ==
  (op = NoOp /\ inList /\ result # <<>> /\ result[2] = "ok") =>
    /\ result[1] = "Prepare" => linked >= 2
    /\ \A i \in 1..2 : i <= linked => fstate[i] = Target(result[1])

(* A frame is let on only towards a filter that was started before and is   *)
(* to stop after the one that lets it on: the head tests its state, and     *)
(* then the next filter runs or has failed, unless Prepare is called again  *)
(* on a running pipeline; the codec's callback tests the coder's flag, and  *)
(* then the output has been started and not stopped, though it may be       *)
(* paused.  (The push comes later, so a frame let on before an operation    *)
(* can still enter a filter the operation has paused or stopped.)           *)
PipeLetOnToStarted ==
  [][/\ (feed # "tested" /\ feed' = "tested")
          => fstate[2] \in {"RUNNING", "ERROR"} \/ op.name = "Prepare"
     /\ (~emit /\ emit') => fstate[3] \notin {"INITIALIZED", "STOPPED"}]_pipeVars
=============================================================================
