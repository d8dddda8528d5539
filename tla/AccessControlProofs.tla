------------------------- MODULE AccessControlProofs -------------------------
(***************************************************************************)
(* A codec is started only for a device that was let in, every stored      *)
(* result has a decision behind it, and a request is decided at most once  *)
(* and as long as it is not has somebody to decide it: for any number of   *)
(* requests, of devices and of threads that carry answers.                 *)
(***************************************************************************)
EXTENDS AccessControl, TLAPS

\* The device n was let in: no application had asked to be consulted, or a
\* request of n was granted by an answer.
Reason(n) ==
    \/ n \in accFree
    \/ \E r \in AccRequests : accNetwork[r] = n /\ accOutcome[r] = "granted"

\* pendingAuthRequests_ has exactly the requests that are undecided, and a
\* channel that has made no request yet has no decision.
RequestsInv ==
    /\ \A r \in AccRequests : r \in accPending <=> accOutcome[r] = "pending"
    /\ \A r \in AccRequests : accOpen[r] \in {"none", "free", "package"} => accOutcome[r] = "none"

\* A thread of a request runs only once its channel has opened, and from then
\* on the request has the network of a device.
ThreadsInv ==
    /\ \A r \in AccRequests : accOpen[r] # "none" => accNetwork[r] \in AccNetworks
    /\ \A r \in AccRequests : accTimer[r] # "none" => accOpen[r] # "none"
    /\ \A r \in AccRequests, k \in AccAnswers : accAnswer[r][k].pc # "none" => accOpen[r] # "none"

\* What an answer is about to store is what it decided.
AnswersInv ==
    \A r \in AccRequests, k \in AccAnswers :
        accAnswer[r][k].pc = "store" => accOutcome[r] = Result(accAnswer[r][k].granted)

\* A stored grant has its reason, and so has a codec that runs.
GrantsInv ==
    /\ \A n \in AccNetworks : accResults[n] = "granted" => Reason(n)
    /\ accCodec.pc \in {"wait", "check"} => accCodec.network \in AccNetworks
    /\ accCodec.pc = "started" /\ accCodec.network # NoNetwork => Reason(accCodec.network)

\* The inductive invariant.
AccInv == AccTypeOK /\ RequestsInv /\ ThreadsInv /\ AnswersInv /\ GrantsInv

\* The threads that carry answers.
Answers == [AccRequests -> [AccAnswers -> [pc : {"none", "cancel", "take", "store"}, granted : BOOLEAN]]]

\* AnswerGoes moves one thread and leaves its answer and every other thread.
LEMMA GoesOne ==
    ASSUME accAnswer \in Answers, NEW r \in AccRequests, NEW k \in AccAnswers,
           NEW pc \in {"take", "store"}, AnswerGoes(r, k, pc)
    PROVE  /\ accAnswer' \in Answers
           /\ accAnswer'[r][k].pc = pc /\ accAnswer'[r][k].granted = accAnswer[r][k].granted
           /\ \A s \in AccRequests, j \in AccAnswers : s # r \/ j # k => accAnswer'[s][j] = accAnswer[s][j]
PROOF
<1> DEFINE one == [accAnswer[r][k] EXCEPT !.pc = pc]
           mine == [accAnswer[r] EXCEPT ![k] = one]
<1>1. accAnswer' = [accAnswer EXCEPT ![r] = mine]
  BY DEF AnswerGoes
<1>2. one \in [pc : {"none", "cancel", "take", "store"}, granted : BOOLEAN]
      /\ one.pc = pc /\ one.granted = accAnswer[r][k].granted
  BY DEF Answers
<1>3. mine \in [AccAnswers -> [pc : {"none", "cancel", "take", "store"}, granted : BOOLEAN]]
      /\ mine[k] = one /\ \A j \in AccAnswers \ {k} : mine[j] = accAnswer[r][j]
  BY <1>2 DEF Answers
<1> HIDE DEF one, mine
<1> QED BY <1>1, <1>2, <1>3 DEF Answers

\* AnswerEnds ends one thread and leaves every other.
LEMMA EndsOne ==
    ASSUME accAnswer \in Answers, NEW r \in AccRequests, NEW k \in AccAnswers, AnswerEnds(r, k)
    PROVE  /\ accAnswer' \in Answers /\ accAnswer'[r][k] = NoAnswer
           /\ \A s \in AccRequests, j \in AccAnswers : s # r \/ j # k => accAnswer'[s][j] = accAnswer[s][j]
PROOF
  BY DEF Answers, AnswerEnds, NoAnswer

\* Every step keeps the types.
LEMMA TypeStep ==
    ASSUME AccInv, AccNext
    PROVE  AccTypeOK'
PROOF
<1>1. ASSUME SetAccessConfig PROVE AccTypeOK'
  BY <1>1 DEF AccInv, AccTypeOK, ThreadsInv, SetAccessConfig
<1>2. ASSUME ClearAccessConfigByPkgName PROVE AccTypeOK'
  BY <1>2 DEF AccInv, AccTypeOK, ThreadsInv, ClearAccessConfigByPkgName
<1>3. ASSUME ClearAccessConfig PROVE AccTypeOK'
  BY <1>3 DEF AccInv, AccTypeOK, ThreadsInv, ClearAccessConfig
<1>4. ASSUME NEW n \in AccNetworks, ClearAuthorizationResult(n) PROVE AccTypeOK'
  BY <1>4 DEF AccInv, AccTypeOK, ThreadsInv, ClearAuthorizationResult
<1>5. ASSUME NEW r \in AccRequests, NEW n \in AccNetworks, OpenChannel(r, n) PROVE AccTypeOK'
  BY <1>5 DEF AccInv, AccTypeOK, ThreadsInv, OpenChannel
<1>6. ASSUME NEW r \in AccRequests, LetIn(r) PROVE AccTypeOK'
  BY <1>6 DEF AccInv, AccTypeOK, ThreadsInv, LetIn, SetAuthorizationGranted, Result
<1>7. ASSUME NEW r \in AccRequests, MakeRequest(r) PROVE AccTypeOK'
  BY <1>7 DEF AccInv, AccTypeOK, ThreadsInv, MakeRequest
<1>8. ASSUME NEW r \in AccRequests, StartAuthorizationTimer(r) PROVE AccTypeOK'
  BY <1>8 DEF AccInv, AccTypeOK, ThreadsInv, StartAuthorizationTimer
<1>9. ASSUME NEW r \in AccRequests, Asked(r) PROVE AccTypeOK'
  BY <1>9 DEF AccInv, AccTypeOK, ThreadsInv, Asked
<1>10. ASSUME NEW r \in AccRequests, TimerWakes(r) PROVE AccTypeOK'
  BY <1>10 DEF AccInv, AccTypeOK, ThreadsInv, TimerWakes
<1>11. ASSUME NEW r \in AccRequests, HandleAuthorizationTimeout(r) PROVE AccTypeOK'
  BY <1>11 DEF AccInv, AccTypeOK, ThreadsInv, HandleAuthorizationTimeout
<1>12. ASSUME NEW r \in AccRequests, TimerDenies(r) PROVE AccTypeOK'
  BY <1>12 DEF AccInv, AccTypeOK, ThreadsInv, TimerDenies, SetAuthorizationGranted, Result
<1>13. ASSUME NEW r \in AccRequests, NEW k \in AccAnswers, NEW granted \in BOOLEAN, AnswerArrives(r, k, granted) PROVE AccTypeOK'
  BY <1>13 DEF AccInv, AccTypeOK, ThreadsInv, AnswerArrives
<1>14. ASSUME NEW r \in AccRequests, NEW k \in AccAnswers, CancelAuthorizationTimer(r, k) PROVE AccTypeOK'
  <2>1. accAnswer \in Answers /\ AnswerGoes(r, k, "take")
    BY <1>14 DEF AccInv, AccTypeOK, Answers, CancelAuthorizationTimer
  <2>2. accAnswer' \in Answers
    BY <2>1, GoesOne
  <2> QED BY <1>14, <2>2 DEF AccInv, AccTypeOK, Answers, CancelAuthorizationTimer
<1>15. ASSUME NEW r \in AccRequests, NEW k \in AccAnswers, AnswerTakes(r, k) PROVE AccTypeOK'
  <2>1. accAnswer \in Answers
    BY DEF AccInv, AccTypeOK, Answers
  <2>2. CASE r \in accPending
    <3>1. AnswerGoes(r, k, "store")
      BY <1>15, <2>2 DEF AnswerTakes
    <3> QED BY <1>15, <2>1, <2>2, <3>1, GoesOne DEF AccInv, AccTypeOK, Answers, Result, AnswerTakes
  <2>3. CASE r \notin accPending
    <3>1. AnswerEnds(r, k)
      BY <1>15, <2>3 DEF AnswerTakes
    <3> QED BY <1>15, <2>1, <2>3, <3>1, EndsOne DEF AccInv, AccTypeOK, Answers, Result, AnswerTakes, NoAnswer
  <2> QED BY <2>2, <2>3
<1>16. ASSUME NEW r \in AccRequests, NEW k \in AccAnswers, AnswerStores(r, k) PROVE AccTypeOK'
  BY <1>16 DEF AccInv, AccTypeOK, ThreadsInv, AnswerStores, SetAuthorizationGranted, Result, AnswerEnds, NoAnswer
<1>17. ASSUME CodecBegins PROVE AccTypeOK'
  BY <1>17 DEF AccInv, AccTypeOK, ThreadsInv, CodecBegins
<1>18. ASSUME CodecWaits PROVE AccTypeOK'
  BY <1>18 DEF AccInv, AccTypeOK, ThreadsInv, CodecWaits, NoCodec
<1>19. ASSUME CodecChecks PROVE AccTypeOK'
  BY <1>19 DEF AccInv, AccTypeOK, ThreadsInv, CodecChecks, NoCodec
<1>20. ASSUME CodecStops PROVE AccTypeOK'
  BY <1>20 DEF AccInv, AccTypeOK, ThreadsInv, CodecStops, NoCodec
<1> QED
  BY <1>1, <1>2, <1>3, <1>4, <1>5, <1>6, <1>7, <1>8, <1>9, <1>10, <1>11, <1>12, <1>13, <1>14, <1>15, <1>16, <1>17, <1>18, <1>19, <1>20
  DEF AccNext, ConfigSteps, CodecSteps, OpenSteps, TimerSteps, AnswerSteps

\* A request enters pendingAuthRequests_ once and leaves it when it is decided.
LEMMA RequestsStep ==
    ASSUME AccInv, AccNext
    PROVE  RequestsInv'
PROOF
<1>1. ASSUME SetAccessConfig PROVE RequestsInv'
  BY <1>1 DEF AccInv, AccTypeOK, RequestsInv, SetAccessConfig
<1>2. ASSUME ClearAccessConfigByPkgName PROVE RequestsInv'
  BY <1>2 DEF AccInv, AccTypeOK, RequestsInv, ClearAccessConfigByPkgName
<1>3. ASSUME ClearAccessConfig PROVE RequestsInv'
  BY <1>3 DEF AccInv, AccTypeOK, RequestsInv, ClearAccessConfig
<1>4. ASSUME NEW n \in AccNetworks, ClearAuthorizationResult(n) PROVE RequestsInv'
  BY <1>4 DEF AccInv, AccTypeOK, RequestsInv, ClearAuthorizationResult
<1>5. ASSUME NEW r \in AccRequests, NEW n \in AccNetworks, OpenChannel(r, n) PROVE RequestsInv'
  BY <1>5 DEF AccInv, AccTypeOK, RequestsInv, OpenChannel
<1>6. ASSUME NEW r \in AccRequests, LetIn(r) PROVE RequestsInv'
  BY <1>6 DEF AccInv, AccTypeOK, RequestsInv, LetIn, SetAuthorizationGranted, Result
<1>7. ASSUME NEW r \in AccRequests, MakeRequest(r) PROVE RequestsInv'
  BY <1>7 DEF AccInv, AccTypeOK, RequestsInv, MakeRequest
<1>8. ASSUME NEW r \in AccRequests, StartAuthorizationTimer(r) PROVE RequestsInv'
  BY <1>8 DEF AccInv, AccTypeOK, RequestsInv, StartAuthorizationTimer
<1>9. ASSUME NEW r \in AccRequests, Asked(r) PROVE RequestsInv'
  BY <1>9 DEF AccInv, AccTypeOK, RequestsInv, Asked
<1>10. ASSUME NEW r \in AccRequests, TimerWakes(r) PROVE RequestsInv'
  BY <1>10 DEF AccInv, AccTypeOK, RequestsInv, TimerWakes
<1>11. ASSUME NEW r \in AccRequests, HandleAuthorizationTimeout(r) PROVE RequestsInv'
  BY <1>11 DEF AccInv, AccTypeOK, RequestsInv, HandleAuthorizationTimeout
<1>12. ASSUME NEW r \in AccRequests, TimerDenies(r) PROVE RequestsInv'
  BY <1>12 DEF AccInv, AccTypeOK, RequestsInv, TimerDenies, SetAuthorizationGranted, Result
<1>13. ASSUME NEW r \in AccRequests, NEW k \in AccAnswers, NEW granted \in BOOLEAN, AnswerArrives(r, k, granted) PROVE RequestsInv'
  BY <1>13 DEF AccInv, AccTypeOK, RequestsInv, AnswerArrives
<1>14. ASSUME NEW r \in AccRequests, NEW k \in AccAnswers, CancelAuthorizationTimer(r, k) PROVE RequestsInv'
  BY <1>14 DEF AccInv, AccTypeOK, RequestsInv, CancelAuthorizationTimer, AnswerGoes
<1>15. ASSUME NEW r \in AccRequests, NEW k \in AccAnswers, AnswerTakes(r, k) PROVE RequestsInv'
  BY <1>15 DEF AccInv, AccTypeOK, RequestsInv, AnswerTakes, AnswerGoes, AnswerEnds, NoAnswer, Result
<1>16. ASSUME NEW r \in AccRequests, NEW k \in AccAnswers, AnswerStores(r, k) PROVE RequestsInv'
  BY <1>16 DEF AccInv, AccTypeOK, RequestsInv, AnswerStores, SetAuthorizationGranted, Result, AnswerEnds, NoAnswer
<1>17. ASSUME CodecBegins PROVE RequestsInv'
  BY <1>17 DEF AccInv, AccTypeOK, RequestsInv, CodecBegins
<1>18. ASSUME CodecWaits PROVE RequestsInv'
  BY <1>18 DEF AccInv, AccTypeOK, RequestsInv, CodecWaits, NoCodec
<1>19. ASSUME CodecChecks PROVE RequestsInv'
  BY <1>19 DEF AccInv, AccTypeOK, RequestsInv, CodecChecks, NoCodec
<1>20. ASSUME CodecStops PROVE RequestsInv'
  BY <1>20 DEF AccInv, AccTypeOK, RequestsInv, CodecStops, NoCodec
<1> QED
  BY <1>1, <1>2, <1>3, <1>4, <1>5, <1>6, <1>7, <1>8, <1>9, <1>10, <1>11, <1>12, <1>13, <1>14, <1>15, <1>16, <1>17, <1>18, <1>19, <1>20
  DEF AccNext, ConfigSteps, CodecSteps, OpenSteps, TimerSteps, AnswerSteps

\* A thread of a request starts after its channel has opened.
LEMMA ThreadsStep ==
    ASSUME AccInv, AccNext
    PROVE  ThreadsInv'
PROOF
<1>1. ASSUME SetAccessConfig PROVE ThreadsInv'
  BY <1>1 DEF AccInv, AccTypeOK, RequestsInv, ThreadsInv, SetAccessConfig
<1>2. ASSUME ClearAccessConfigByPkgName PROVE ThreadsInv'
  BY <1>2 DEF AccInv, AccTypeOK, RequestsInv, ThreadsInv, ClearAccessConfigByPkgName
<1>3. ASSUME ClearAccessConfig PROVE ThreadsInv'
  BY <1>3 DEF AccInv, AccTypeOK, RequestsInv, ThreadsInv, ClearAccessConfig
<1>4. ASSUME NEW n \in AccNetworks, ClearAuthorizationResult(n) PROVE ThreadsInv'
  BY <1>4 DEF AccInv, AccTypeOK, RequestsInv, ThreadsInv, ClearAuthorizationResult
<1>5. ASSUME NEW r \in AccRequests, NEW n \in AccNetworks, OpenChannel(r, n) PROVE ThreadsInv'
  BY <1>5 DEF AccInv, AccTypeOK, RequestsInv, ThreadsInv, OpenChannel
<1>6. ASSUME NEW r \in AccRequests, LetIn(r) PROVE ThreadsInv'
  BY <1>6 DEF AccInv, AccTypeOK, RequestsInv, ThreadsInv, LetIn, SetAuthorizationGranted, Result
<1>7. ASSUME NEW r \in AccRequests, MakeRequest(r) PROVE ThreadsInv'
  BY <1>7 DEF AccInv, AccTypeOK, RequestsInv, ThreadsInv, MakeRequest
<1>8. ASSUME NEW r \in AccRequests, StartAuthorizationTimer(r) PROVE ThreadsInv'
  BY <1>8 DEF AccInv, AccTypeOK, RequestsInv, ThreadsInv, StartAuthorizationTimer
<1>9. ASSUME NEW r \in AccRequests, Asked(r) PROVE ThreadsInv'
  BY <1>9 DEF AccInv, AccTypeOK, RequestsInv, ThreadsInv, Asked
<1>10. ASSUME NEW r \in AccRequests, TimerWakes(r) PROVE ThreadsInv'
  BY <1>10 DEF AccInv, AccTypeOK, RequestsInv, ThreadsInv, TimerWakes
<1>11. ASSUME NEW r \in AccRequests, HandleAuthorizationTimeout(r) PROVE ThreadsInv'
  BY <1>11 DEF AccInv, AccTypeOK, RequestsInv, ThreadsInv, HandleAuthorizationTimeout
<1>12. ASSUME NEW r \in AccRequests, TimerDenies(r) PROVE ThreadsInv'
  BY <1>12 DEF AccInv, AccTypeOK, RequestsInv, ThreadsInv, TimerDenies, SetAuthorizationGranted, Result
<1>13. ASSUME NEW r \in AccRequests, NEW k \in AccAnswers, NEW granted \in BOOLEAN, AnswerArrives(r, k, granted) PROVE ThreadsInv'
  BY <1>13 DEF AccInv, AccTypeOK, RequestsInv, ThreadsInv, AnswerArrives
<1>14. ASSUME NEW r \in AccRequests, NEW k \in AccAnswers, CancelAuthorizationTimer(r, k) PROVE ThreadsInv'
  BY <1>14 DEF AccInv, AccTypeOK, RequestsInv, ThreadsInv, CancelAuthorizationTimer, AnswerGoes
<1>15. ASSUME NEW r \in AccRequests, NEW k \in AccAnswers, AnswerTakes(r, k) PROVE ThreadsInv'
  <2>1. accAnswer \in Answers
    BY DEF AccInv, AccTypeOK, Answers
  <2>2. \A s \in AccRequests, j \in AccAnswers : accAnswer'[s][j].pc # "none" => accAnswer[s][j].pc # "none"
    <3>1. CASE AnswerGoes(r, k, "store")
      BY <1>15, <2>1, <3>1, GoesOne DEF AnswerTakes
    <3>2. CASE AnswerEnds(r, k)
      BY <1>15, <2>1, <3>2, EndsOne DEF NoAnswer
    <3> QED BY <1>15, <3>1, <3>2 DEF AnswerTakes
  <2> QED BY <1>15, <2>2 DEF AccInv, ThreadsInv, AnswerTakes
<1>16. ASSUME NEW r \in AccRequests, NEW k \in AccAnswers, AnswerStores(r, k) PROVE ThreadsInv'
  BY <1>16 DEF AccInv, AccTypeOK, RequestsInv, ThreadsInv, AnswerStores, SetAuthorizationGranted, Result, AnswerEnds, NoAnswer
<1>17. ASSUME CodecBegins PROVE ThreadsInv'
  BY <1>17 DEF AccInv, AccTypeOK, RequestsInv, ThreadsInv, CodecBegins
<1>18. ASSUME CodecWaits PROVE ThreadsInv'
  BY <1>18 DEF AccInv, AccTypeOK, RequestsInv, ThreadsInv, CodecWaits, NoCodec
<1>19. ASSUME CodecChecks PROVE ThreadsInv'
  BY <1>19 DEF AccInv, AccTypeOK, RequestsInv, ThreadsInv, CodecChecks, NoCodec
<1>20. ASSUME CodecStops PROVE ThreadsInv'
  BY <1>20 DEF AccInv, AccTypeOK, RequestsInv, ThreadsInv, CodecStops, NoCodec
<1> QED
  BY <1>1, <1>2, <1>3, <1>4, <1>5, <1>6, <1>7, <1>8, <1>9, <1>10, <1>11, <1>12, <1>13, <1>14, <1>15, <1>16, <1>17, <1>18, <1>19, <1>20
  DEF AccNext, ConfigSteps, CodecSteps, OpenSteps, TimerSteps, AnswerSteps

\* A decision is never changed, so an answer stores what it decided.
LEMMA AnswersStep ==
    ASSUME AccInv, AccNext
    PROVE  AnswersInv'
PROOF
<1>1. ASSUME SetAccessConfig PROVE AnswersInv'
  BY <1>1 DEF AccInv, AccTypeOK, RequestsInv, AnswersInv, Result, SetAccessConfig
<1>2. ASSUME ClearAccessConfigByPkgName PROVE AnswersInv'
  BY <1>2 DEF AccInv, AccTypeOK, RequestsInv, AnswersInv, Result, ClearAccessConfigByPkgName
<1>3. ASSUME ClearAccessConfig PROVE AnswersInv'
  BY <1>3 DEF AccInv, AccTypeOK, RequestsInv, AnswersInv, Result, ClearAccessConfig
<1>4. ASSUME NEW n \in AccNetworks, ClearAuthorizationResult(n) PROVE AnswersInv'
  BY <1>4 DEF AccInv, AccTypeOK, RequestsInv, AnswersInv, Result, ClearAuthorizationResult
<1>5. ASSUME NEW r \in AccRequests, NEW n \in AccNetworks, OpenChannel(r, n) PROVE AnswersInv'
  BY <1>5 DEF AccInv, AccTypeOK, RequestsInv, AnswersInv, Result, OpenChannel
<1>6. ASSUME NEW r \in AccRequests, LetIn(r) PROVE AnswersInv'
  BY <1>6 DEF AccInv, AccTypeOK, RequestsInv, AnswersInv, Result, LetIn, SetAuthorizationGranted
<1>7. ASSUME NEW r \in AccRequests, MakeRequest(r) PROVE AnswersInv'
  BY <1>7 DEF AccInv, AccTypeOK, RequestsInv, AnswersInv, Result, MakeRequest
<1>8. ASSUME NEW r \in AccRequests, StartAuthorizationTimer(r) PROVE AnswersInv'
  BY <1>8 DEF AccInv, AccTypeOK, RequestsInv, AnswersInv, Result, StartAuthorizationTimer
<1>9. ASSUME NEW r \in AccRequests, Asked(r) PROVE AnswersInv'
  BY <1>9 DEF AccInv, AccTypeOK, RequestsInv, AnswersInv, Result, Asked
<1>10. ASSUME NEW r \in AccRequests, TimerWakes(r) PROVE AnswersInv'
  BY <1>10 DEF AccInv, AccTypeOK, RequestsInv, AnswersInv, Result, TimerWakes
<1>11. ASSUME NEW r \in AccRequests, HandleAuthorizationTimeout(r) PROVE AnswersInv'
  BY <1>11 DEF AccInv, AccTypeOK, RequestsInv, AnswersInv, Result, HandleAuthorizationTimeout
<1>12. ASSUME NEW r \in AccRequests, TimerDenies(r) PROVE AnswersInv'
  BY <1>12 DEF AccInv, AccTypeOK, RequestsInv, AnswersInv, Result, TimerDenies, SetAuthorizationGranted
<1>13. ASSUME NEW r \in AccRequests, NEW k \in AccAnswers, NEW granted \in BOOLEAN, AnswerArrives(r, k, granted) PROVE AnswersInv'
  BY <1>13 DEF AccInv, AccTypeOK, RequestsInv, AnswersInv, Result, AnswerArrives
<1>14. ASSUME NEW r \in AccRequests, NEW k \in AccAnswers, CancelAuthorizationTimer(r, k) PROVE AnswersInv'
  BY <1>14 DEF AccInv, AccTypeOK, RequestsInv, AnswersInv, Result, CancelAuthorizationTimer, AnswerGoes
<1>15. ASSUME NEW r \in AccRequests, NEW k \in AccAnswers, AnswerTakes(r, k) PROVE AnswersInv'
  <2> SUFFICES ASSUME NEW s \in AccRequests, NEW j \in AccAnswers, accAnswer'[s][j].pc = "store"
               PROVE  accOutcome'[s] = Result(accAnswer'[s][j].granted)
    BY DEF AnswersInv, Result
  <2>1. accAnswer \in Answers /\ accOutcome \in [AccRequests -> {"none", "pending", "granted", "denied"}]
    BY DEF AccInv, AccTypeOK, Answers
  <2>2. CASE r \in accPending
    <3>1. AnswerGoes(r, k, "store") /\ accOutcome' = [accOutcome EXCEPT ![r] = Result(accAnswer[r][k].granted)]
      BY <1>15, <2>2 DEF AnswerTakes
    <3>2. CASE s = r /\ j = k
      BY <2>1, <3>1, <3>2, GoesOne
    <3>3. CASE s # r
      BY <2>1, <3>1, <3>3, GoesOne DEF AccInv, AnswersInv
    <3>4. CASE s = r /\ j # k
      <4>1. accAnswer[r][j].pc = "store" /\ accOutcome[r] = "pending"
        BY <2>1, <2>2, <3>1, <3>4, GoesOne DEF AccInv, RequestsInv
      <4> QED BY <4>1 DEF AccInv, AnswersInv, Result
    <3> QED BY <3>2, <3>3, <3>4
  <2>3. CASE r \notin accPending
    <3>1. AnswerEnds(r, k) /\ accOutcome' = accOutcome
      BY <1>15, <2>3 DEF AnswerTakes
    <3>2. s # r \/ j # k
      BY <2>1, <3>1, EndsOne DEF NoAnswer
    <3> QED BY <2>1, <3>1, <3>2, EndsOne DEF AccInv, AnswersInv
  <2> QED BY <2>2, <2>3
<1>16. ASSUME NEW r \in AccRequests, NEW k \in AccAnswers, AnswerStores(r, k) PROVE AnswersInv'
  BY <1>16 DEF AccInv, AccTypeOK, RequestsInv, AnswersInv, Result, AnswerStores, SetAuthorizationGranted, AnswerEnds, NoAnswer
<1>17. ASSUME CodecBegins PROVE AnswersInv'
  BY <1>17 DEF AccInv, AccTypeOK, RequestsInv, AnswersInv, Result, CodecBegins
<1>18. ASSUME CodecWaits PROVE AnswersInv'
  BY <1>18 DEF AccInv, AccTypeOK, RequestsInv, AnswersInv, Result, CodecWaits, NoCodec
<1>19. ASSUME CodecChecks PROVE AnswersInv'
  BY <1>19 DEF AccInv, AccTypeOK, RequestsInv, AnswersInv, Result, CodecChecks, NoCodec
<1>20. ASSUME CodecStops PROVE AnswersInv'
  BY <1>20 DEF AccInv, AccTypeOK, RequestsInv, AnswersInv, Result, CodecStops, NoCodec
<1> QED
  BY <1>1, <1>2, <1>3, <1>4, <1>5, <1>6, <1>7, <1>8, <1>9, <1>10, <1>11, <1>12, <1>13, <1>14, <1>15, <1>16, <1>17, <1>18, <1>19, <1>20
  DEF AccNext, ConfigSteps, CodecSteps, OpenSteps, TimerSteps, AnswerSteps

\* A grant that is stored, or that a codec has found, has its reason.
LEMMA GrantsStep ==
    ASSUME AccInv, AccNext
    PROVE  GrantsInv'
PROOF
<1>1. ASSUME SetAccessConfig PROVE GrantsInv'
  BY <1>1 DEF AccInv, AccTypeOK, RequestsInv, ThreadsInv, AnswersInv, GrantsInv, Reason, SetAccessConfig
<1>2. ASSUME ClearAccessConfigByPkgName PROVE GrantsInv'
  BY <1>2 DEF AccInv, AccTypeOK, RequestsInv, ThreadsInv, AnswersInv, GrantsInv, Reason, ClearAccessConfigByPkgName
<1>3. ASSUME ClearAccessConfig PROVE GrantsInv'
  BY <1>3 DEF AccInv, AccTypeOK, RequestsInv, ThreadsInv, AnswersInv, GrantsInv, Reason, ClearAccessConfig
<1>4. ASSUME NEW n \in AccNetworks, ClearAuthorizationResult(n) PROVE GrantsInv'
  BY <1>4 DEF AccInv, AccTypeOK, RequestsInv, ThreadsInv, AnswersInv, GrantsInv, Reason, ClearAuthorizationResult
<1>5. ASSUME NEW r \in AccRequests, NEW n \in AccNetworks, OpenChannel(r, n) PROVE GrantsInv'
  BY <1>5 DEF AccInv, AccTypeOK, RequestsInv, ThreadsInv, AnswersInv, GrantsInv, Reason, OpenChannel
<1>6. ASSUME NEW r \in AccRequests, LetIn(r) PROVE GrantsInv'
  BY <1>6 DEF AccInv, AccTypeOK, RequestsInv, ThreadsInv, AnswersInv, GrantsInv, Reason, LetIn, SetAuthorizationGranted, Result
<1>7. ASSUME NEW r \in AccRequests, MakeRequest(r) PROVE GrantsInv'
  BY <1>7 DEF AccInv, AccTypeOK, RequestsInv, ThreadsInv, AnswersInv, GrantsInv, Reason, MakeRequest
<1>8. ASSUME NEW r \in AccRequests, StartAuthorizationTimer(r) PROVE GrantsInv'
  BY <1>8 DEF AccInv, AccTypeOK, RequestsInv, ThreadsInv, AnswersInv, GrantsInv, Reason, StartAuthorizationTimer
<1>9. ASSUME NEW r \in AccRequests, Asked(r) PROVE GrantsInv'
  BY <1>9 DEF AccInv, AccTypeOK, RequestsInv, ThreadsInv, AnswersInv, GrantsInv, Reason, Asked
<1>10. ASSUME NEW r \in AccRequests, TimerWakes(r) PROVE GrantsInv'
  BY <1>10 DEF AccInv, AccTypeOK, RequestsInv, ThreadsInv, AnswersInv, GrantsInv, Reason, TimerWakes
<1>11. ASSUME NEW r \in AccRequests, HandleAuthorizationTimeout(r) PROVE GrantsInv'
  BY <1>11 DEF AccInv, AccTypeOK, RequestsInv, ThreadsInv, AnswersInv, GrantsInv, Reason, HandleAuthorizationTimeout
<1>12. ASSUME NEW r \in AccRequests, TimerDenies(r) PROVE GrantsInv'
  BY <1>12 DEF AccInv, AccTypeOK, RequestsInv, ThreadsInv, AnswersInv, GrantsInv, Reason, TimerDenies, SetAuthorizationGranted, Result
<1>13. ASSUME NEW r \in AccRequests, NEW k \in AccAnswers, NEW granted \in BOOLEAN, AnswerArrives(r, k, granted) PROVE GrantsInv'
  BY <1>13 DEF AccInv, AccTypeOK, RequestsInv, ThreadsInv, AnswersInv, GrantsInv, Reason, AnswerArrives
<1>14. ASSUME NEW r \in AccRequests, NEW k \in AccAnswers, CancelAuthorizationTimer(r, k) PROVE GrantsInv'
  BY <1>14 DEF AccInv, AccTypeOK, RequestsInv, ThreadsInv, AnswersInv, GrantsInv, Reason, CancelAuthorizationTimer, AnswerGoes
<1>15. ASSUME NEW r \in AccRequests, NEW k \in AccAnswers, AnswerTakes(r, k) PROVE GrantsInv'
  BY <1>15 DEF AccInv, AccTypeOK, RequestsInv, ThreadsInv, AnswersInv, GrantsInv, Reason, AnswerTakes, AnswerGoes, AnswerEnds, NoAnswer, Result
<1>16. ASSUME NEW r \in AccRequests, NEW k \in AccAnswers, AnswerStores(r, k) PROVE GrantsInv'
  BY <1>16 DEF AccInv, AccTypeOK, RequestsInv, ThreadsInv, AnswersInv, GrantsInv, Reason, AnswerStores, SetAuthorizationGranted, Result, AnswerEnds, NoAnswer
<1>17. ASSUME CodecBegins PROVE GrantsInv'
  BY <1>17 DEF AccInv, AccTypeOK, RequestsInv, ThreadsInv, AnswersInv, GrantsInv, Reason, CodecBegins
<1>18. ASSUME CodecWaits PROVE GrantsInv'
  BY <1>18 DEF AccInv, AccTypeOK, RequestsInv, ThreadsInv, AnswersInv, GrantsInv, Reason, CodecWaits, NoCodec
<1>19. ASSUME CodecChecks PROVE GrantsInv'
  BY <1>19 DEF AccInv, AccTypeOK, RequestsInv, ThreadsInv, AnswersInv, GrantsInv, Reason, CodecChecks, NoCodec
<1>20. ASSUME CodecStops PROVE GrantsInv'
  BY <1>20 DEF AccInv, AccTypeOK, RequestsInv, ThreadsInv, AnswersInv, GrantsInv, Reason, CodecStops, NoCodec
<1> QED
  BY <1>1, <1>2, <1>3, <1>4, <1>5, <1>6, <1>7, <1>8, <1>9, <1>10, <1>11, <1>12, <1>13, <1>14, <1>15, <1>16, <1>17, <1>18, <1>19, <1>20
  DEF AccNext, ConfigSteps, CodecSteps, OpenSteps, TimerSteps, AnswerSteps

\* The invariant holds at the start, and every step keeps it.
LEMMA InvInit == AccInit => AccInv
PROOF
<1> SUFFICES ASSUME AccInit PROVE AccInv
  OBVIOUS
<1>1. AccTypeOK
  BY DEF AccInit, AccTypeOK, NoAnswer, NoCodec
<1>2. RequestsInv
  BY DEF AccInit, RequestsInv
<1>3. ThreadsInv /\ AnswersInv
  BY DEF AccInit, ThreadsInv, AnswersInv, NoAnswer
<1>4. GrantsInv
  BY DEF AccInit, GrantsInv, NoCodec
<1> QED BY <1>1, <1>2, <1>3, <1>4 DEF AccInv

LEMMA InvStep == AccInv /\ [AccNext]_accVars => AccInv'
PROOF
<1> SUFFICES ASSUME AccInv, [AccNext]_accVars PROVE AccInv'
  OBVIOUS
<1>1. CASE AccNext
  BY <1>1, TypeStep, RequestsStep, ThreadsStep, AnswersStep, GrantsStep DEF AccInv
<1>2. CASE UNCHANGED accVars
  BY <1>2 DEF AccInv, AccTypeOK, RequestsInv, ThreadsInv, AnswersInv, GrantsInv, Reason, accVars
<1> QED BY <1>1, <1>2

LEMMA InvAlways == AccSpec => []AccInv
PROOF
  BY InvInit, InvStep, PTL DEF AccSpec

\* Every variable of the authorisation keeps its type.
THEOREM AccessTypeCorrect == AccSpec => []AccTypeOK
PROOF
<1>1. AccInv => AccTypeOK
  BY DEF AccInv
<1> QED BY <1>1, InvAlways, PTL

\* StartAudioCodec starts a codec only for a device that was let in, by an
\* answer or because nobody had asked to be consulted: for any number of
\* devices, requests, timers and repeated answers.
THEOREM GrantsHaveReasons == AccSpec => []AccGrantHasReason
PROOF
<1>1. AccInv => AccGrantHasReason
  BY DEF AccInv, GrantsInv, Reason, AccGrantHasReason
<1> QED BY <1>1, InvAlways, PTL

\* One step of the authorisation is one step of the abstract decision, or
\* none: ProcessAuthorizationResult and HandleAuthorizationTimeout decide only
\* what is still in pendingAuthRequests_.
LEMMA DecisionStep ==
    ASSUME AccInv, [AccNext]_accVars
    PROVE  [Auth!Next]_accOutcome
PROOF
<1>1. ASSUME NEW r \in AccRequests, MakeRequest(r) PROVE Auth!Ask(r)
  BY <1>1 DEF AccInv, AccTypeOK, RequestsInv, MakeRequest, Auth!Ask
<1>2. ASSUME NEW r \in AccRequests, HandleAuthorizationTimeout(r)
      PROVE  Auth!Decide(r) \/ UNCHANGED accOutcome
  BY <1>2 DEF AccInv, AccTypeOK, RequestsInv, HandleAuthorizationTimeout, Auth!Decide
<1>3. ASSUME NEW r \in AccRequests, NEW k \in AccAnswers, AnswerTakes(r, k)
      PROVE  Auth!Decide(r) \/ UNCHANGED accOutcome
  BY <1>3 DEF AccInv, AccTypeOK, RequestsInv, AnswerTakes, Result, Auth!Decide
<1>4. ASSUME ConfigSteps \/ CodecSteps \/ \E n \in AccNetworks : ClearAuthorizationResult(n)
      PROVE  UNCHANGED accOutcome
  BY <1>4 DEF ConfigSteps, CodecSteps, SetAccessConfig, ClearAccessConfigByPkgName, ClearAccessConfig,
     ClearAuthorizationResult, CodecBegins, CodecWaits, CodecChecks, CodecStops
<1>5. ASSUME NEW r \in AccRequests,
             \/ \E n \in AccNetworks : OpenChannel(r, n)
             \/ LetIn(r) \/ StartAuthorizationTimer(r) \/ Asked(r) \/ TimerWakes(r) \/ TimerDenies(r)
      PROVE  UNCHANGED accOutcome
  BY <1>5 DEF OpenChannel, LetIn, StartAuthorizationTimer, Asked, TimerWakes, TimerDenies
<1>6. ASSUME NEW r \in AccRequests, NEW k \in AccAnswers,
             \/ CancelAuthorizationTimer(r, k) \/ AnswerStores(r, k)
             \/ \E granted \in BOOLEAN : AnswerArrives(r, k, granted)
      PROVE  UNCHANGED accOutcome
  BY <1>6 DEF CancelAuthorizationTimer, AnswerStores, AnswerArrives
<1>7. CASE AccNext
  BY <1>1, <1>2, <1>3, <1>4, <1>5, <1>6, <1>7 DEF AccNext, OpenSteps, TimerSteps, AnswerSteps, Auth!Next
<1>8. CASE UNCHANGED accVars
  BY <1>8 DEF accVars
<1> QED BY <1>7, <1>8

\* The authorisation implements the safety part of AuthDecision: a request
\* that entered pendingAuthRequests_ is decided at most once, and a decision
\* never changes, however timers, late answers and repeated answers interleave.
THEOREM ImplementsAuthDecision == AccSpec => Auth!Init /\ [][Auth!Next]_accOutcome
PROOF
<1>1. AccInit => Auth!Init
  BY DEF AccInit, Auth!Init
<1> QED BY <1>1, InvAlways, DecisionStep, PTL DEF AccSpec

-----------------------------------------------------------------------------
(* Somebody will decide: the safety behind the liveness of AuthDecision.   *)

\* The timer thread starts after the request was made.
TimersInv ==
    \A r \in AccRequests : accOpen[r] \in {"none", "free", "package", "timer"} => accTimer[r] = "none"

\* A thread that is going to take r out of pendingAuthRequests_: the one that is about to
\* start the timer, the timer's unless it was cancelled, or one that carries an answer and
\* has cancelled the timer.
SomebodyDecides(r) ==
    \/ accOpen[r] = "timer"
    \/ accTimer[r] = "timeout"
    \/ accTimer[r] = "sleeping" /\ accFlag[r] = "armed"
    \/ \E k \in AccAnswers : accAnswer[r][k].pc = "take"

PendingIsDecided == \A r \in AccRequests : accOutcome[r] = "pending" => SomebodyDecides(r)

DecidersInv == AccInv /\ TimersInv /\ PendingIsDecided

\* The steps that leave requests, timers and answers alone.
LEMMA DecidersSame ==
    ASSUME DecidersInv, UNCHANGED <<accOutcome, accFlag, accTimer, accAnswer, accOpen>>
    PROVE  TimersInv' /\ PendingIsDecided'
PROOF
  BY DEF DecidersInv, TimersInv, PendingIsDecided, SomebodyDecides

\* A cancelled timer has its answer, which has yet to look for the request.
LEMMA DecidersCancel ==
    ASSUME DecidersInv, NEW r \in AccRequests, NEW k \in AccAnswers, CancelAuthorizationTimer(r, k)
    PROVE  TimersInv' /\ PendingIsDecided'
PROOF
<1>1. accAnswer \in Answers /\ AnswerGoes(r, k, "take")
  BY DEF DecidersInv, AccInv, AccTypeOK, Answers, CancelAuthorizationTimer
<1>2. accAnswer'[r][k].pc = "take"
      /\ \A s \in AccRequests, j \in AccAnswers : s # r \/ j # k => accAnswer'[s][j] = accAnswer[s][j]
  BY <1>1, GoesOne
<1>3. UNCHANGED <<accOutcome, accTimer, accOpen>> /\ \A s \in AccRequests : s # r => accFlag'[s] = accFlag[s]
  BY DEF CancelAuthorizationTimer, DecidersInv, AccInv, AccTypeOK
<1> QED BY <1>2, <1>3 DEF DecidersInv, TimersInv, PendingIsDecided, SomebodyDecides

\* An answer that looks for its request leaves none for another to decide.
LEMMA DecidersTake ==
    ASSUME DecidersInv, NEW r \in AccRequests, NEW k \in AccAnswers, AnswerTakes(r, k)
    PROVE  TimersInv' /\ PendingIsDecided'
PROOF
<1>1. accAnswer \in Answers
  BY DEF DecidersInv, AccInv, AccTypeOK, Answers
<1>2. \A s \in AccRequests, j \in AccAnswers : s # r => accAnswer'[s][j] = accAnswer[s][j]
  <2>1. CASE AnswerGoes(r, k, "store")
    BY <1>1, <2>1, GoesOne
  <2>2. CASE AnswerEnds(r, k)
    BY <1>1, <2>2, EndsOne
  <2> QED BY <2>1, <2>2 DEF AnswerTakes
<1>3. accOutcome'[r] # "pending" /\ \A s \in AccRequests : s # r => accOutcome'[s] = accOutcome[s]
  BY DEF AnswerTakes, DecidersInv, AccInv, AccTypeOK, RequestsInv, Result
<1>4. UNCHANGED <<accFlag, accTimer, accOpen>>
  BY DEF AnswerTakes
<1> QED BY <1>2, <1>3, <1>4 DEF DecidersInv, TimersInv, PendingIsDecided, SomebodyDecides

\* Answers arrive and end without taking another one's place.
LEMMA DecidersAnswer ==
    ASSUME DecidersInv, NEW r \in AccRequests, NEW k \in AccAnswers,
           AnswerStores(r, k) \/ \E granted \in BOOLEAN : AnswerArrives(r, k, granted)
    PROVE  TimersInv' /\ PendingIsDecided'
PROOF
<1>1. accAnswer \in Answers /\ accAnswer[r][k].pc # "take"
  BY DEF DecidersInv, AccInv, AccTypeOK, Answers, AnswerStores, AnswerArrives
<1>2. \A s \in AccRequests, j \in AccAnswers : s # r \/ j # k => accAnswer'[s][j] = accAnswer[s][j]
  <2>1. CASE AnswerStores(r, k)
    BY <1>1, <2>1, EndsOne DEF AnswerStores
  <2>2. CASE \E granted \in BOOLEAN : AnswerArrives(r, k, granted)
    BY <1>1, <2>2 DEF AnswerArrives, Answers
  <2> QED BY <2>1, <2>2
<1>3. UNCHANGED <<accOutcome, accFlag, accTimer, accOpen>>
  BY DEF AnswerStores, AnswerArrives
<1> QED BY <1>1, <1>2, <1>3 DEF DecidersInv, TimersInv, PendingIsDecided, SomebodyDecides

\* The thread that opens the channel makes the request and then its timer.
LEMMA DecidersOpen ==
    ASSUME DecidersInv, NEW r \in AccRequests,
           (\E n \in AccNetworks : OpenChannel(r, n)) \/ OpenSteps(r)
    PROVE  TimersInv' /\ PendingIsDecided'
PROOF
<1>1. ASSUME NEW n \in AccNetworks, OpenChannel(r, n) PROVE TimersInv' /\ PendingIsDecided'
  BY <1>1 DEF DecidersInv, AccInv, AccTypeOK, RequestsInv, TimersInv, PendingIsDecided, SomebodyDecides, OpenChannel
<1>2. ASSUME LetIn(r) PROVE TimersInv' /\ PendingIsDecided'
  BY <1>2 DEF DecidersInv, AccInv, AccTypeOK, RequestsInv, TimersInv, PendingIsDecided, SomebodyDecides, LetIn
<1>3. ASSUME MakeRequest(r) PROVE TimersInv' /\ PendingIsDecided'
  BY <1>3 DEF DecidersInv, AccInv, AccTypeOK, TimersInv, PendingIsDecided, SomebodyDecides, MakeRequest
<1>4. ASSUME StartAuthorizationTimer(r) PROVE TimersInv' /\ PendingIsDecided'
  BY <1>4 DEF DecidersInv, AccInv, AccTypeOK, TimersInv, PendingIsDecided, SomebodyDecides, StartAuthorizationTimer
<1>5. ASSUME Asked(r) PROVE TimersInv' /\ PendingIsDecided'
  BY <1>5 DEF DecidersInv, AccInv, AccTypeOK, TimersInv, PendingIsDecided, SomebodyDecides, Asked
<1> QED BY <1>1, <1>2, <1>3, <1>4, <1>5 DEF OpenSteps

\* A timer that was not cancelled goes on to its timeout.
LEMMA DecidersTimer ==
    ASSUME DecidersInv, NEW r \in AccRequests, TimerSteps(r)
    PROVE  TimersInv' /\ PendingIsDecided'
PROOF
<1>1. accOpen[r] # "timer"
  BY DEF DecidersInv, TimersInv, TimerSteps, TimerWakes, HandleAuthorizationTimeout, TimerDenies
<1>2. ASSUME TimerWakes(r) PROVE TimersInv' /\ PendingIsDecided'
  BY <1>1, <1>2 DEF DecidersInv, AccInv, AccTypeOK, TimersInv, PendingIsDecided, SomebodyDecides, TimerWakes
<1>3. ASSUME HandleAuthorizationTimeout(r) PROVE TimersInv' /\ PendingIsDecided'
  BY <1>3 DEF DecidersInv, AccInv, AccTypeOK, RequestsInv, TimersInv, PendingIsDecided, SomebodyDecides,
     HandleAuthorizationTimeout
<1>4. ASSUME TimerDenies(r) PROVE TimersInv' /\ PendingIsDecided'
  BY <1>4 DEF DecidersInv, AccInv, AccTypeOK, TimersInv, PendingIsDecided, SomebodyDecides, TimerDenies
<1> QED BY <1>2, <1>3, <1>4 DEF TimerSteps

LEMMA DecidersStep == DecidersInv /\ [AccNext]_accVars => DecidersInv'
PROOF
<1> SUFFICES ASSUME DecidersInv, [AccNext]_accVars PROVE DecidersInv'
  OBVIOUS
<1>1. AccInv'
  BY InvStep DEF DecidersInv
<1>2. ASSUME \/ ConfigSteps \/ CodecSteps \/ UNCHANGED accVars
             \/ \E n \in AccNetworks : ClearAuthorizationResult(n)
      PROVE  TimersInv' /\ PendingIsDecided'
  <2>1. UNCHANGED <<accOutcome, accFlag, accTimer, accAnswer, accOpen>>
    BY <1>2 DEF ConfigSteps, CodecSteps, SetAccessConfig, ClearAccessConfigByPkgName, ClearAccessConfig,
       ClearAuthorizationResult, CodecBegins, CodecWaits, CodecChecks, CodecStops, accVars
  <2> QED BY <2>1, DecidersSame
<1>3. ASSUME NEW r \in AccRequests, NEW k \in AccAnswers,
             AnswerSteps(r, k) \/ \E granted \in BOOLEAN : AnswerArrives(r, k, granted)
      PROVE  TimersInv' /\ PendingIsDecided'
  BY <1>3, DecidersCancel, DecidersTake, DecidersAnswer, Zenon DEF AnswerSteps
<1>4. TimersInv' /\ PendingIsDecided'
  BY <1>2, <1>3, DecidersOpen, DecidersTimer, Zenon DEF AccNext
<1> QED BY <1>1, <1>4 DEF DecidersInv

\* As long as a request is undecided some thread is about to decide it: an answer that
\* cancels the timer takes its place, and no other cancels it.  With the fairness of the
\* threads this is why AuthDecision's requests are decided eventually.
THEOREM RequestsStayDecidable == AccSpec => []PendingIsDecided
PROOF
<1>1. AccInit => DecidersInv
  <2> SUFFICES ASSUME AccInit PROVE DecidersInv
    OBVIOUS
  <2>1. TimersInv /\ PendingIsDecided
    BY DEF AccInit, TimersInv, PendingIsDecided
  <2> QED BY <2>1, InvInit DEF DecidersInv
<1>2. DecidersInv => PendingIsDecided
  BY DEF DecidersInv
<1> QED BY <1>1, <1>2, DecidersStep, PTL DEF AccSpec

-----------------------------------------------------------------------------
(* A stored denial has its reason as well.                                 *)

\* A timer that is about to store a denial has decided its request so, and a stored
\* denial of a device comes from a request of that device.
DenialsInv ==
    /\ \A r \in AccRequests : accTimer[r] = "deny" => accOutcome[r] = "denied"
    /\ \A n \in AccNetworks : accResults[n] = "denied" =>
         \E r \in AccRequests : accNetwork[r] = n /\ accOutcome[r] = "denied"

\* No step changes a decision or the network of a request that was made.
LEMMA DecisionsStay ==
    ASSUME AccInv, [AccNext]_accVars, NEW r \in AccRequests, accOutcome[r] \notin {"none", "pending"}
    PROVE  accOutcome'[r] = accOutcome[r] /\ accNetwork'[r] = accNetwork[r]
PROOF
<1>1. accOutcome'[r] = accOutcome[r]
  <2>1. [Auth!Next]_accOutcome
    BY DecisionStep
  <2>2. accOutcome \in [AccRequests -> {"none", "pending", "granted", "denied"}]
    BY DEF AccInv, AccTypeOK
  <2> QED BY <2>1, <2>2 DEF Auth!Next, Auth!Ask, Auth!Decide
<1>2. accNetwork'[r] = accNetwork[r]
  <2>1. ASSUME NEW s \in AccRequests, NEW n \in AccNetworks, OpenChannel(s, n) PROVE accNetwork'[r] = accNetwork[r]
    BY <2>1 DEF OpenChannel, AccInv, AccTypeOK, RequestsInv
  <2>2. ASSUME ConfigSteps \/ CodecSteps \/ \E n \in AccNetworks : ClearAuthorizationResult(n)
        PROVE  UNCHANGED accNetwork
    BY <2>2 DEF ConfigSteps, CodecSteps, SetAccessConfig, ClearAccessConfigByPkgName, ClearAccessConfig,
       ClearAuthorizationResult, CodecBegins, CodecWaits, CodecChecks, CodecStops
  <2>3. ASSUME NEW s \in AccRequests, OpenSteps(s) \/ TimerSteps(s) PROVE UNCHANGED accNetwork
    BY <2>3 DEF OpenSteps, TimerSteps, LetIn, MakeRequest, StartAuthorizationTimer, Asked, TimerWakes,
       HandleAuthorizationTimeout, TimerDenies
  <2>4. ASSUME NEW s \in AccRequests, NEW k \in AccAnswers,
               AnswerSteps(s, k) \/ \E granted \in BOOLEAN : AnswerArrives(s, k, granted)
        PROVE  UNCHANGED accNetwork
    BY <2>4 DEF AnswerSteps, CancelAuthorizationTimer, AnswerTakes, AnswerStores, AnswerArrives
  <2>5. CASE UNCHANGED accVars
    BY <2>5 DEF accVars
  <2> QED BY <2>1, <2>2, <2>3, <2>4, <2>5 DEF AccNext
<1> QED BY <1>1, <1>2

\* A denial is stored by the timer or by an answer, after either has decided so.
LEMMA DenialStored ==
    ASSUME AccInv, DenialsInv, AccNext, NEW n \in AccNetworks, accResults'[n] = "denied"
    PROVE  \/ accResults[n] = "denied"
           \/ \E r \in AccRequests : accNetwork[r] = n /\ accOutcome[r] = "denied"
PROOF
<1>0. accResults \in [AccNetworks -> {"none", "granted", "denied"}]
  BY DEF AccInv, AccTypeOK
<1>1. ASSUME ConfigSteps \/ CodecSteps \/ \E m \in AccNetworks : ClearAuthorizationResult(m)
      PROVE  accResults[n] = "denied"
  BY <1>0, <1>1 DEF ConfigSteps, CodecSteps, SetAccessConfig, ClearAccessConfigByPkgName, ClearAccessConfig,
     ClearAuthorizationResult, CodecBegins, CodecWaits, CodecChecks, CodecStops
<1>2. ASSUME NEW r \in AccRequests, (\E m \in AccNetworks : OpenChannel(r, m)) \/ OpenSteps(r)
      PROVE  accResults[n] = "denied"
  BY <1>0, <1>2 DEF OpenChannel, OpenSteps, LetIn, MakeRequest, StartAuthorizationTimer, Asked,
     SetAuthorizationGranted, Result
<1>3. ASSUME NEW r \in AccRequests, TimerSteps(r), accResults[n] # "denied"
      PROVE  accNetwork[r] = n /\ accOutcome[r] = "denied"
  BY <1>0, <1>3 DEF DenialsInv, TimerSteps, TimerWakes, HandleAuthorizationTimeout, TimerDenies, SetAuthorizationGranted
<1>4. ASSUME NEW r \in AccRequests, NEW k \in AccAnswers, accResults[n] # "denied",
             AnswerSteps(r, k) \/ \E granted \in BOOLEAN : AnswerArrives(r, k, granted)
      PROVE  accNetwork[r] = n /\ accOutcome[r] = "denied"
  <2>1. AnswerStores(r, k)
    BY <1>4 DEF AnswerSteps, CancelAuthorizationTimer, AnswerTakes, AnswerArrives
  <2>2. accOutcome[r] = Result(accAnswer[r][k].granted)
    BY <2>1 DEF AnswerStores, AccInv, AnswersInv
  <2> QED BY <1>0, <1>4, <2>1, <2>2 DEF AnswerStores, SetAuthorizationGranted, Result
<1> QED BY <1>1, <1>2, <1>3, <1>4 DEF AccNext

LEMMA DenialsStep == AccInv /\ DenialsInv /\ [AccNext]_accVars => DenialsInv'
PROOF
<1> SUFFICES ASSUME AccInv, DenialsInv, [AccNext]_accVars PROVE DenialsInv'
  OBVIOUS
<1>1. CASE UNCHANGED accVars
  BY <1>1 DEF DenialsInv, accVars
<1>2. CASE AccNext
  <2>1. ASSUME NEW n \in AccNetworks, accResults'[n] = "denied"
        PROVE  \E r \in AccRequests : accNetwork'[r] = n /\ accOutcome'[r] = "denied"
    <3>1. PICK r \in AccRequests : accNetwork[r] = n /\ accOutcome[r] = "denied"
      BY <1>2, <2>1, DenialStored DEF DenialsInv
    <3> QED BY <3>1, DecisionsStay
  <2>2. ASSUME NEW r \in AccRequests, accTimer'[r] = "deny"
        PROVE  accOutcome'[r] = "denied"
    <3>1. accTimer[r] = "deny" \/ (HandleAuthorizationTimeout(r) /\ r \in accPending)
      <4>0. accTimer \in [AccRequests -> {"none", "sleeping", "timeout", "deny", "done"}]
        BY DEF AccInv, AccTypeOK
      <4>1. ASSUME ConfigSteps \/ CodecSteps \/ \E m \in AccNetworks : ClearAuthorizationResult(m)
            PROVE  UNCHANGED accTimer
        BY <4>1 DEF ConfigSteps, CodecSteps, SetAccessConfig, ClearAccessConfigByPkgName, ClearAccessConfig,
           ClearAuthorizationResult, CodecBegins, CodecWaits, CodecChecks, CodecStops
      <4>2. ASSUME NEW s \in AccRequests, (\E m \in AccNetworks : OpenChannel(s, m)) \/ OpenSteps(s)
            PROVE  accTimer[r] = "deny"
        BY <2>2, <4>0, <4>2 DEF OpenChannel, OpenSteps, LetIn, MakeRequest, StartAuthorizationTimer, Asked
      <4>3. ASSUME NEW s \in AccRequests, TimerSteps(s)
            PROVE  accTimer[r] = "deny" \/ (HandleAuthorizationTimeout(r) /\ r \in accPending)
        <5>1. CASE HandleAuthorizationTimeout(s)
          BY <2>2, <4>0, <5>1 DEF HandleAuthorizationTimeout
        <5>2. CASE TimerWakes(s) \/ TimerDenies(s)
          BY <2>2, <4>0, <5>2 DEF TimerWakes, TimerDenies
        <5> QED BY <4>3, <5>1, <5>2 DEF TimerSteps
      <4>4. ASSUME NEW s \in AccRequests, NEW k \in AccAnswers,
                   AnswerSteps(s, k) \/ \E granted \in BOOLEAN : AnswerArrives(s, k, granted)
            PROVE  UNCHANGED accTimer
        BY <4>4 DEF AnswerSteps, CancelAuthorizationTimer, AnswerTakes, AnswerStores, AnswerArrives
      <4> QED BY <1>2, <2>2, <4>1, <4>2, <4>3, <4>4 DEF AccNext
    <3>2. CASE accTimer[r] = "deny"
      BY <3>2, DecisionsStay DEF DenialsInv
    <3>3. CASE HandleAuthorizationTimeout(r) /\ r \in accPending
      BY <3>3 DEF HandleAuthorizationTimeout, AccInv, AccTypeOK
    <3> QED BY <3>1, <3>2, <3>3
  <2> QED BY <2>1, <2>2 DEF DenialsInv
<1> QED BY <1>1, <1>2

\* Every result that is stored for a device has its reason.
ResultsHaveReasons ==
    \A n \in AccNetworks :
        /\ accResults[n] = "granted" => Reason(n)
        /\ accResults[n] = "denied" => \E r \in AccRequests : accNetwork[r] = n /\ accOutcome[r] = "denied"

\* What StartAudioCodec reads comes from a decision on a request of the same device: a
\* grant as AccGrantHasReason says, a denial from a request that an answer or its timer
\* denied.  No answer that came too late, and no cleared configuration, leaves another.
THEOREM ResultsComeFromDecisions == AccSpec => []ResultsHaveReasons
PROOF
<1>1. AccInit => DenialsInv
  BY DEF AccInit, DenialsInv
<1>2. AccInv /\ DenialsInv => ResultsHaveReasons
  BY DEF AccInv, GrantsInv, DenialsInv, ResultsHaveReasons
<1> QED BY <1>1, <1>2, InvAlways, DenialsStep, PTL DEF AccSpec
=============================================================================
