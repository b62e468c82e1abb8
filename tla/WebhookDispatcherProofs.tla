---------------------- MODULE WebhookDispatcherProofs ----------------------
(***************************************************************************)
(* Proofs about WebhookDispatcher for every number of events, instances    *)
(* and workers and every configuration.  None of the invariants is         *)
(* inductive alone; IInv conjoins them with what the control point of a    *)
(* worker says about its job.                                              *)
(***************************************************************************)
EXTENDS WebhookDispatcher, FiniteSetTheorems, TLAPS

Unfinished(c) == ~Log!Accepted(c) /\ ~Log!Refused(c)

(* What the control point of a worker says about its counter and its job. *)
WorkerInStep(w) ==
  /\ wpc[w] \in Carrying <=> job[w] # NoJob
  /\ wpc[w] = "sem" => answers[job[w]] = <<>>
  /\ wpc[w] \in AtToken => try[w] \in 1..MaxAttempts
  /\ wpc[w] = "post" => Len(answers[job[w]]) = try[w] - 1
  /\ wpc[w] \in {"update", "sleep", "release"} => Len(answers[job[w]]) = try[w]
  /\ wpc[w] = "sleep" => try[w] < MaxAttempts
  /\ wpc[w] = "update" => attempts[job[w]] < try[w]
  /\ wpc[w] = "release" => Final(answers[job[w]])

WorkerControl == \A w \in Workers : WorkerInStep(w)

(* No answer is followed by another one unless it left the matter open. *)
OnlyLastIsFinal ==
  \A d \in Deliveries :
    /\ Len(answers[d]) <= MaxAttempts
    /\ \A k \in 1..Len(answers[d]) :
         \/ k = Len(answers[d])
         \/ Unfinished(answers[d][k])

(* A worker that will POST again has an open answer behind it. *)
OpenBeforePost ==
  \A w \in Workers : wpc[w] \in {"sleep", "post"} =>
    \A k \in 1..Len(answers[job[w]]) : Unfinished(answers[job[w]][k])

(* What is in the pipeline was accepted by Enqueue; what was not accepted  *)
(* has not been POSTed; what has not been recorded has no row.             *)
CourseControl ==
  \A d \in Deliveries :
    /\ InFlight(d) => course[d] = "queued"
    /\ InQueue(d) => answers[d] = <<>>
    /\ course[d] \in InCallback \cup {"idle"} => answers[d] = <<>>
    /\ course[d] = "idle" => status[d] = "none"
    /\ attempts[d] > 0 => course[d] # "idle"

(* Workers leave only a closed and empty channel, and main goes past the   *)
(* drain without the deadline only when all of them left.                  *)
ShutdownControl ==
  /\ \A w \in Workers : wpc[w] = "exited" => ChannelClosed /\ queue = <<>>
  /\ main \in {"stopClients", "closeDb", "exiting"} /\ ~expired =>
       \A w \in Workers : wpc[w] = "exited"
  /\ main = "exited" =>
       /\ queue = <<>>
       /\ \A w \in Workers : wpc[w] = "down"
       /\ \A d \in Deliveries : course[d] \notin InCallback

IInv ==
  /\ TypeOK
  /\ WorkerControl
  /\ OnlyLastIsFinal
  /\ OpenBeforePost
  /\ CourseControl
  /\ ShutdownControl
  /\ OneCarrier
  /\ TokensMatchHolders
  /\ RowTellsTheTruth
  /\ NoSilentLoss

-----------------------------------------------------------------------------
(* The steps that touch neither the queue nor a worker. *)
Outside ==
  \/ \E i \in Instances : SetWebhook(i) \/ DeleteInstance(i)
  \/ \E d \in Deliveries : RecordDelivery(d) \/ LoadWebhook(d)
  \/ Signal \/ DeadlinePasses \/ Jam \/ HttpStopped \/ Drained \/ StopAll \/ CloseDb

LEMMA OutsideFrame ==
  Outside => UNCHANGED <<tokens, wpc, job, try, answers, queue>>
BY DEF Outside, SetWebhook, DeleteInstance, RecordDelivery, LoadWebhook, Signal,
       DeadlinePasses, Jam, HttpStopped, Drained, StopAll, CloseDb, Advance, workers

LEMMA NextSplit ==
  ASSUME [Next]_vars
  PROVE  \/ Outside
         \/ \E d \in Deliveries : Offer(d)
         \/ \E w \in Workers : Worker(w)
         \/ ProcessEnds \/ Boot \/ UNCHANGED vars
BY DEF Next, Outside, Callback, Main, Exit, Crash

(* The model's two readings of an HTTP status code agree with the promise. *)
LEMMA SameVerdict ==
  /\ \A c : IsSuccess(c) <=> Log!Accepted(c)
  /\ \A c : IsPermanentFailure(c) <=> Log!Refused(c)
  /\ \A n, c : RowStatus(n, c) = Log!Verdict(n, c)
  /\ \A c : Unfinished(c) <=> ~IsSuccess(c) /\ ~IsPermanentFailure(c)
BY DEF IsSuccess, IsPermanentFailure, RowStatus, Unfinished,
       Log!Accepted, Log!Refused, Log!Verdict

(* A worker between the two ends of the semaphore has a job. *)
LEMMA JobOfCarrier ==
  ASSUME TypeOK, WorkerControl, NEW w \in Workers, wpc[w] \in Carrying
  PROVE  /\ job[w] \in Deliveries
         /\ Holder(w) \in Instances
BY DispatcherAssumption DEF TypeOK, WorkerControl, WorkerInStep, Holder

-----------------------------------------------------------------------------
(* Types. *)
LEMMA InitTypeOK == Init => TypeOK
<1> SUFFICES ASSUME Init PROVE TypeOK
  OBVIOUS
<1>1. /\ queue \in Seq(Deliveries) /\ Len(queue) <= QueueSize
      /\ answers \in [Deliveries -> Seq(Codes)]
  BY DispatcherAssumption DEF Init
<1>2. /\ attempts \in [Deliveries -> 0..MaxAttempts]
      /\ code \in [Deliveries -> Codes \cup {0}]
      /\ tokens \in [Instances -> 0..PerInstance]
      /\ try \in [Workers -> 0..MaxAttempts]
  BY DispatcherAssumption DEF Init
<1> QED BY <1>1, <1>2 DEF Init, TypeOK, Courses, MainPoints, Carrying, AtToken

LEMMA WorkerTypeOK ==
  ASSUME IInv, NEW w \in Workers, Worker(w)
  PROVE  TypeOK'
<1> USE DispatcherAssumption DEF IInv, TypeOK, db, Carrying, AtToken, Goto
<1>1. CASE Take(w)
  <2>1. /\ Head(queue) \in Deliveries
        /\ Tail(queue) \in Seq(Deliveries)
        /\ Len(Tail(queue)) <= QueueSize
    BY <1>1 DEF Take
  <2> QED BY <1>1, <2>1 DEF Take
<1>2. CASE Leave(w)
  BY <1>2 DEF Leave
<1>3. CASE Acquire(w)
  <2>1. Holder(w) \in Instances
    BY <1>3, JobOfCarrier DEF Acquire
  <2> QED BY <1>3, <2>1 DEF Acquire
<1>4. CASE GiveUp(w)
  BY <1>4, JobOfCarrier DEF GiveUp, Courses
<1>5. CASE Post(w)
  <2>1. job[w] \in Deliveries
    BY <1>5, JobOfCarrier DEF Post
  <2>2. PICK c \in Codes : answers' = [answers EXCEPT ![job[w]] = Append(@, c)]
    BY <1>5 DEF Post
  <2>3. Append(answers[job[w]], c) \in Seq(Codes)
    BY <2>1
  <2> QED BY <1>5, <2>1, <2>2, <2>3 DEF Post
<1>6. CASE Update(w)
  <2>1. /\ job[w] \in Deliveries
        /\ try[w] \in 1..MaxAttempts
        /\ Len(answers[job[w]]) = try[w]
    BY <1>6, JobOfCarrier DEF Update, WorkerControl, WorkerInStep
  <2>2. LastAnswer(job[w]) \in Codes
    BY <2>1 DEF LastAnswer
  <2>3. /\ RowStatus(try[w], LastAnswer(job[w])) \in {"succeeded", "failed", "dead"}
        /\ AfterAttempt(try[w], LastAnswer(job[w])) \in {"release", "sleep"}
    BY DEF RowStatus, AfterAttempt
  <2>4. UpdateDelivery(job[w], try[w], LastAnswer(job[w]))
    BY <1>6 DEF Update
  <2>5. /\ status' \in [Deliveries -> {"none", "pending", "succeeded", "failed", "dead", "gone"}]
        /\ attempts' \in [Deliveries -> 0..MaxAttempts]
        /\ code' \in [Deliveries -> Codes \cup {0}]
    <3>1. CASE UNCHANGED <<status, attempts, code>>
      BY <3>1
    <3>2. CASE ~UNCHANGED <<status, attempts, code>>
      <4> DEFINE n == try[w]
                 c == LastAnswer(job[w])
                 s == RowStatus(n, c)
      <4>1. /\ attempts' = [attempts EXCEPT ![job[w]] = n]
            /\ code'     = [code EXCEPT ![job[w]] = c]
            /\ status'   = [status EXCEPT ![job[w]] = s]
        BY <3>2, <2>4 DEF UpdateDelivery
      <4>2. n \in 0..MaxAttempts /\ c \in Codes \cup {0}
        BY <2>1, <2>2
      <4>3. s \in {"succeeded", "failed", "dead"}
        BY <2>3
      <4> HIDE DEF n, c, s
      <4> QED BY <4>1, <4>2, <4>3
    <3> QED BY <3>1, <3>2
  <2> QED BY <1>6, <2>3, <2>5 DEF Update
<1>7. CASE Wake(w)
  <2>1. try[w] + 1 \in 0..MaxAttempts
    BY <1>7 DEF Wake, WorkerControl, WorkerInStep
  <2> QED BY <1>7, <2>1 DEF Wake
<1>8. CASE Release(w)
  <2>1. Holder(w) \in Instances
    BY <1>8, JobOfCarrier DEF Release
  <2> DEFINE Holding == {v \in Workers : wpc[v] \in AtToken /\ Holder(v) = Holder(w)}
  <2>2. IsFiniteSet(Holding) /\ w \in Holding
    BY <1>8, FS_Subset DEF Release
  <2>3. Cardinality(Holding) # 0
    BY <2>2, FS_EmptySet
  <2>4. tokens[Holder(w)] - 1 \in 0..PerInstance
    BY <2>1, <2>3 DEF TokensMatchHolders
  <2> QED BY <1>8, <2>1, <2>4 DEF Release
<1> QED BY <1>1, <1>2, <1>3, <1>4, <1>5, <1>6, <1>7, <1>8 DEF Worker

LEMMA NextTypeOK ==
  ASSUME IInv, [Next]_vars
  PROVE  TypeOK'
<1> USE DispatcherAssumption DEF IInv, TypeOK
<1>1. CASE Outside
  <2>1. UNCHANGED <<tokens, wpc, job, try, answers, queue>>
    BY <1>1, OutsideFrame
  <2>2. /\ instances' \subseteq Instances
        /\ hooked' \subseteq Instances
        /\ main' \in MainPoints
        /\ expired' \in BOOLEAN
        /\ managerMu' \in {"free", "stuck", "quiet"}
    BY <1>1 DEF Outside, SetWebhook, DeleteInstance, RecordDelivery, LoadWebhook, Signal,
                DeadlinePasses, Jam, HttpStopped, Drained, StopAll, CloseDb, Advance, db, MainPoints
  <2>3. /\ status' \in [Deliveries -> {"none", "pending", "succeeded", "failed", "dead", "gone"}]
        /\ attempts' \in [Deliveries -> 0..MaxAttempts]
        /\ code' \in [Deliveries -> Codes \cup {0}]
        /\ course' \in [Deliveries -> Courses]
    BY <1>1 DEF Outside, SetWebhook, DeleteInstance, RecordDelivery, LoadWebhook, Signal,
                DeadlinePasses, Jam, HttpStopped, Drained, StopAll, CloseDb, Advance, db,
                Courses, InCallback
  <2> QED BY <2>1, <2>2, <2>3
<1>2. ASSUME NEW d \in Deliveries, Offer(d) PROVE TypeOK'
  <2>1. /\ Append(queue, d) \in Seq(Deliveries)
        /\ Len(Append(queue, d)) = Len(queue) + 1
    OBVIOUS
  <2>2. queue' \in Seq(Deliveries) /\ Len(queue') <= QueueSize
    <3>1. CASE queue' = queue
      BY <3>1
    <3>2. CASE queue' = Append(queue, d) /\ Len(queue) < QueueSize
      BY <2>1, <3>2
    <3> QED BY <1>2, <3>1, <3>2 DEF Offer
  <2> QED BY <1>2, <2>2 DEF Offer, Courses, db, workers
<1>3. ASSUME NEW w \in Workers, Worker(w) PROVE TypeOK'
  BY <1>3, WorkerTypeOK
<1>4. CASE ProcessEnds
  <2>1. queue' \in Seq(Deliveries) /\ Len(queue') <= QueueSize
    BY <1>4 DEF ProcessEnds
  <2>2. tokens' \in [Instances -> 0..PerInstance] /\ try' \in [Workers -> 0..MaxAttempts]
    BY <1>4 DEF ProcessEnds
  <2>3. course' \in [Deliveries -> Courses]
    BY <1>4 DEF ProcessEnds, Courses
  <2> QED BY <1>4, <2>1, <2>2, <2>3 DEF ProcessEnds, MainPoints, db
<1>5. CASE Boot
  BY <1>5 DEF Boot, MainPoints, db
<1>6. CASE UNCHANGED vars
  BY <1>6 DEF vars
<1> QED BY <1>1, <1>2, <1>3, <1>4, <1>5, <1>6, NextSplit

-----------------------------------------------------------------------------
(* What the channel operations do to the set of queued jobs. *)
LEMMA QueueAppend ==
  ASSUME TypeOK, OneCarrier, NEW e \in Deliveries, ~InQueue(e), queue' = Append(queue, e)
  PROVE  /\ \A d : InQueue(d)' <=> InQueue(d) \/ d = e
         /\ \A k, l \in 1..Len(queue') : queue'[k] = queue'[l] => k = l
<1>1. /\ queue \in Seq(Deliveries)
      /\ Len(queue') = Len(queue) + 1
      /\ queue'[Len(queue) + 1] = e
      /\ \A k \in 1..Len(queue) : queue'[k] = queue[k]
  BY DEF TypeOK
<1>2. \A d : InQueue(d)' <=> InQueue(d) \/ d = e
  BY <1>1 DEF InQueue
<1>3. \A k \in 1..Len(queue) : queue[k] # e
  BY DEF InQueue
<1>4. \A k, l \in 1..Len(queue') : queue'[k] = queue'[l] => k = l
  BY <1>1, <1>3 DEF OneCarrier
<1> QED BY <1>2, <1>4

LEMMA QueueTail ==
  ASSUME TypeOK, OneCarrier, queue # <<>>, queue' = Tail(queue)
  PROVE  /\ Head(queue) \in Deliveries
         /\ InQueue(Head(queue))
         /\ \A d : InQueue(d)' <=> InQueue(d) /\ d # Head(queue)
         /\ \A k, l \in 1..Len(queue') : queue'[k] = queue'[l] => k = l
<1>1. /\ queue \in Seq(Deliveries)
      /\ Len(queue) \in Nat \ {0}
      /\ Len(queue') = Len(queue) - 1
      /\ Head(queue) = queue[1]
      /\ Head(queue) \in Deliveries
      /\ \A k \in 1..Len(queue') : queue'[k] = queue[k + 1]
  BY DEF TypeOK
<1>2. InQueue(Head(queue))
  BY <1>1 DEF InQueue
<1>3. \A k, l \in 1..Len(queue) : queue[k] = queue[l] => k = l
  BY DEF OneCarrier
<1>4. \A k, l \in 1..Len(queue') : queue'[k] = queue'[l] => k = l
  <2> SUFFICES ASSUME NEW k \in 1..Len(queue'), NEW l \in 1..Len(queue'),
                      queue'[k] = queue'[l]
               PROVE  k = l
    OBVIOUS
  <2>1. k + 1 \in 1..Len(queue) /\ l + 1 \in 1..Len(queue)
    BY <1>1
  <2> QED BY <1>1, <1>3, <2>1
<1>5. ASSUME NEW d PROVE InQueue(d)' <=> InQueue(d) /\ d # Head(queue)
  <2>1. ASSUME InQueue(d)' PROVE InQueue(d) /\ d # Head(queue)
    <3>1. PICK k \in 1..Len(queue') : queue'[k] = d
      BY <2>1 DEF InQueue
    <3>2. k + 1 \in 1..Len(queue) /\ queue[k + 1] = d /\ k + 1 # 1 /\ 1 \in 1..Len(queue)
      BY <1>1, <3>1
    <3> QED BY <1>1, <1>3, <3>2 DEF InQueue
  <2>2. ASSUME InQueue(d), d # Head(queue) PROVE InQueue(d)'
    <3>1. PICK k \in 1..Len(queue) : queue[k] = d
      BY <2>2 DEF InQueue
    <3>2. k - 1 \in 1..Len(queue') /\ queue'[k - 1] = d
      BY <1>1, <2>2, <3>1
    <3> QED BY <3>2 DEF InQueue
  <2> QED BY <2>1, <2>2
<1> QED BY <1>1, <1>2, <1>4, <1>5

(* A worker that drops its job takes it out of the pipeline, the others    *)
(* keep theirs.                                                            *)
LEMMA JobCleared ==
  ASSUME TypeOK, NEW w \in Workers, job' = [job EXCEPT ![w] = NoJob], queue' = queue
  PROVE  /\ \A d : InQueue(d)' <=> InQueue(d)
         /\ \A v \in Workers : job'[v] # NoJob => v # w /\ job'[v] = job[v]
         /\ \A d \in Deliveries : InFlight(d)' => InFlight(d)
         /\ \A d \in Deliveries : InFlight(d) /\ d # job[w] => InFlight(d)'
<1>1. \A d : InQueue(d)' <=> InQueue(d)
  BY DEF InQueue
<1>2. \A v \in Workers : job'[v] # NoJob => v # w /\ job'[v] = job[v]
  BY DEF TypeOK
<1>3. \A d \in Deliveries : Carried(d)' => Carried(d)
  BY <1>2, DispatcherAssumption DEF Carried
<1>4. \A d \in Deliveries : Carried(d) /\ d # job[w] => Carried(d)'
  BY DEF Carried, TypeOK
<1> QED BY <1>1, <1>2, <1>3, <1>4 DEF InFlight

LEMMA PipelineKept ==
  ASSUME UNCHANGED <<queue, job>>
  PROVE  /\ \A d : InQueue(d)' <=> InQueue(d)
         /\ \A d : InFlight(d)' <=> InFlight(d)
BY DEF InFlight, InQueue, Carried

LEMMA NextOneCarrier ==
  ASSUME IInv, [Next]_vars
  PROVE  OneCarrier'
<1> USE DispatcherAssumption DEF IInv
<1>1. ASSUME UNCHANGED <<queue, job>> PROVE OneCarrier'
  BY <1>1 DEF OneCarrier, InQueue
<1>2. CASE Outside
  BY <1>1, <1>2, OutsideFrame
<1>3. ASSUME NEW d \in Deliveries, Offer(d) PROVE OneCarrier'
  <2>1. ~InFlight(d)
    BY <1>3 DEF Offer, CourseControl
  <2>2. job' = job
    BY <1>3 DEF Offer, workers
  <2>3. CASE queue' = queue
    BY <1>1, <2>2, <2>3
  <2>4. CASE queue' = Append(queue, d)
    <3>1. ~InQueue(d) /\ \A w \in Workers : job[w] # d
      BY <2>1 DEF InFlight, Carried
    <3>2. /\ \A e : InQueue(e)' <=> InQueue(e) \/ e = d
          /\ \A k, l \in 1..Len(queue') : queue'[k] = queue'[l] => k = l
      BY <2>4, <3>1, QueueAppend
    <3> QED BY <2>2, <3>1, <3>2 DEF OneCarrier
  <2> QED BY <1>3, <2>3, <2>4 DEF Offer
<1>4. ASSUME NEW w \in Workers, Worker(w) PROVE OneCarrier'
  <2>1. CASE Take(w)
    <3>1. /\ queue # <<>>
          /\ queue' = Tail(queue)
          /\ job' = [job EXCEPT ![w] = Head(queue)]
      BY <2>1 DEF Take
    <3>2. /\ Head(queue) \in Deliveries
          /\ InQueue(Head(queue))
          /\ \A d : InQueue(d)' <=> InQueue(d) /\ d # Head(queue)
          /\ \A k, l \in 1..Len(queue') : queue'[k] = queue'[l] => k = l
      BY <3>1, QueueTail
    <3>3. \A v \in Workers : job'[v] = IF v = w THEN Head(queue) ELSE job[v]
      BY <3>1 DEF TypeOK
    <3>4. \A v \in Workers : job[v] # Head(queue)
      BY <3>2 DEF OneCarrier
    <3> QED BY <3>2, <3>3, <3>4 DEF OneCarrier
  <2>2. CASE GiveUp(w) \/ Release(w)
    <3>1. job' = [job EXCEPT ![w] = NoJob] /\ queue' = queue
      BY <2>2 DEF GiveUp, Release
    <3>2. /\ \A d : InQueue(d)' <=> InQueue(d)
          /\ \A v \in Workers : job'[v] # NoJob => v # w /\ job'[v] = job[v]
      BY <3>1, JobCleared
    <3> QED BY <3>1, <3>2 DEF OneCarrier
  <2>3. CASE Leave(w) \/ Acquire(w) \/ Post(w) \/ Update(w) \/ Wake(w)
    BY <1>1, <2>3 DEF Leave, Acquire, Post, Update, Wake
  <2> QED BY <1>4, <2>1, <2>2, <2>3 DEF Worker
<1>5. CASE ProcessEnds
  BY <1>5 DEF ProcessEnds, OneCarrier, InQueue
<1>6. CASE Boot
  BY <1>1, <1>6 DEF Boot
<1>7. CASE UNCHANGED vars
  BY <1>1, <1>7 DEF vars
<1> QED BY <1>2, <1>3, <1>4, <1>5, <1>6, <1>7, NextSplit

-----------------------------------------------------------------------------
(* The semaphore.                                                          *)
Holding(i) == {w \in Workers : wpc[w] \in AtToken /\ Holder(w) = i}

LEMMA TokensKept ==
  ASSUME TokensMatchHolders, tokens' = tokens,
         \A w \in Workers : wpc'[w] \in AtToken <=> wpc[w] \in AtToken,
         \A w \in Workers : wpc[w] \in AtToken => job'[w] = job[w]
  PROVE  TokensMatchHolders'
<1>1. \A i : Holding(i)' = Holding(i)
  BY DEF Holding, Holder
<1> QED BY <1>1 DEF TokensMatchHolders, Holding

LEMMA NextTokens ==
  ASSUME IInv, [Next]_vars
  PROVE  TokensMatchHolders'
<1> USE DispatcherAssumption DEF IInv
<1>1. CASE Outside
  BY <1>1, OutsideFrame, TokensKept
<1>2. ASSUME NEW d \in Deliveries, Offer(d) PROVE TokensMatchHolders'
  BY <1>2, TokensKept DEF Offer, workers
<1>3. ASSUME NEW w \in Workers, Worker(w) PROVE TokensMatchHolders'
  <2>0. wpc \in [Workers -> Carrying \cup {"idle", "exited", "down"}]
    BY DEF TypeOK
  <2>1. CASE Take(w) \/ Leave(w) \/ GiveUp(w)
    <3>1. /\ tokens' = tokens
          /\ \A v \in Workers : wpc'[v] \in AtToken <=> wpc[v] \in AtToken
          /\ \A v \in Workers : wpc[v] \in AtToken => job'[v] = job[v]
      BY <2>0, <2>1, SMTT(30) DEF Take, Leave, GiveUp, Goto, AtToken, TypeOK
    <3> QED BY <3>1, TokensKept
  <2>2. CASE Post(w) \/ Update(w) \/ Wake(w)
    <3>1. /\ wpc[w] \in AtToken
          /\ tokens' = tokens
          /\ job' = job
          /\ \E p \in AtToken : wpc' = [wpc EXCEPT ![w] = p]
      BY <2>2 DEF Post, Update, Wake, Goto, AtToken, AfterAttempt
    <3>2. \A v \in Workers : wpc'[v] \in AtToken <=> wpc[v] \in AtToken
      BY <2>0, <3>1
    <3> QED BY <3>1, <3>2, TokensKept
  <2>3. CASE Acquire(w)
    <3>1. /\ wpc[w] = "sem"
          /\ tokens' = [tokens EXCEPT ![Holder(w)] = @ + 1]
          /\ wpc' = [wpc EXCEPT ![w] = "post"]
          /\ job' = job
          /\ Holder(w) \in Instances
      BY <2>3, JobOfCarrier DEF Acquire, Goto, Carrying
    <3>2. \A i \in Instances :
            Holding(i)' = IF i = Holder(w) THEN Holding(i) \cup {w} ELSE Holding(i)
      BY <2>0, <3>1 DEF Holding, Holder, AtToken
    <3>3. w \notin Holding(Holder(w)) /\ IsFiniteSet(Holding(Holder(w)))
      BY <3>1, FS_Subset DEF Holding, AtToken
    <3>4. Cardinality(Holding(Holder(w)) \cup {w}) = Cardinality(Holding(Holder(w))) + 1
      BY <3>3, FS_AddElement
    <3>5. \A i \in Instances : tokens'[i] = IF i = Holder(w) THEN tokens[i] + 1 ELSE tokens[i]
      BY <3>1 DEF TypeOK
    <3> QED BY <3>2, <3>4, <3>5 DEF TokensMatchHolders, Holding
  <2>4. CASE Release(w)
    <3>1. /\ wpc[w] = "release"
          /\ tokens' = [tokens EXCEPT ![Holder(w)] = @ - 1]
          /\ wpc' = [wpc EXCEPT ![w] = "idle"]
          /\ job' = [job EXCEPT ![w] = NoJob]
          /\ Holder(w) \in Instances
      BY <2>4, JobOfCarrier DEF Release, Goto, Carrying, AtToken
    <3>2. \A i \in Instances :
            Holding(i)' = IF i = Holder(w) THEN Holding(i) \ {w} ELSE Holding(i)
      BY <2>0, <3>1 DEF Holding, Holder, AtToken, TypeOK
    <3>3. w \in Holding(Holder(w)) /\ IsFiniteSet(Holding(Holder(w)))
      BY <3>1, FS_Subset DEF Holding, AtToken
    <3>4. Cardinality(Holding(Holder(w)) \ {w}) = Cardinality(Holding(Holder(w))) - 1
      BY <3>3, FS_RemoveElement
    <3>5. \A i \in Instances : tokens'[i] = IF i = Holder(w) THEN tokens[i] - 1 ELSE tokens[i]
      BY <3>1 DEF TypeOK
    <3> QED BY <3>2, <3>4, <3>5 DEF TokensMatchHolders, Holding
  <2> QED BY <1>3, <2>1, <2>2, <2>3, <2>4 DEF Worker
<1>4. CASE ProcessEnds
  <2>1. \A i \in Instances : Holding(i)' = {} /\ tokens'[i] = 0
    BY <1>4 DEF ProcessEnds, Holding, AtToken
  <2> QED BY <2>1, FS_EmptySet DEF TokensMatchHolders, Holding
<1>5. CASE Boot
  <2>1. \A w \in Workers : wpc[w] \notin AtToken /\ wpc'[w] \notin AtToken
    BY <1>5 DEF Boot, ShutdownControl, AtToken
  <2> QED BY <1>5, <2>1, TokensKept DEF Boot
<1>6. CASE UNCHANGED vars
  BY <1>6, TokensKept DEF vars
<1> QED BY <1>1, <1>2, <1>3, <1>4, <1>5, <1>6, NextSplit

-----------------------------------------------------------------------------
(* The retry loop.                                                         *)

(* A worker whose own variables and job are left alone keeps its promises. *)
LEMMA WorkerLeftAlone ==
  ASSUME TypeOK, NEW v \in Workers, WorkerInStep(v),
         wpc'[v] = wpc[v], job'[v] = job[v], try'[v] = try[v],
         job[v] # NoJob => /\ answers'[job[v]] = answers[job[v]]
                           /\ attempts'[job[v]] = attempts[job[v]]
  PROVE  WorkerInStep(v)'
<1>1. CASE job[v] = NoJob
  BY <1>1 DEF WorkerInStep, Carrying, AtToken
<1>2. CASE job[v] # NoJob
  BY <1>2 DEF WorkerInStep
<1> QED BY <1>1, <1>2

(* The steps of a worker leave the others alone. *)
LEMMA OthersLeftAlone ==
  ASSUME IInv, NEW w \in Workers, Worker(w), NEW v \in Workers, v # w
  PROVE  /\ wpc'[v] = wpc[v] /\ job'[v] = job[v] /\ try'[v] = try[v]
         /\ job[v] # NoJob => /\ answers'[job[v]] = answers[job[v]]
                              /\ attempts'[job[v]] = attempts[job[v]]
<1> USE DEF IInv, TypeOK, Goto
<1>1. wpc'[v] = wpc[v] /\ job'[v] = job[v] /\ try'[v] = try[v]
  BY DEF Worker, Take, Leave, Acquire, GiveUp, Post, Update, Wake, Release
<1>2. \/ UNCHANGED <<answers, attempts>>
      \/ Post(w)
      \/ Update(w)
  BY DEF Worker, Take, Leave, Acquire, GiveUp, Wake, Release, db
<1>3. job[v] # NoJob => job[w] # job[v]
  BY DEF OneCarrier
<1>4. CASE Post(w)
  BY <1>1, <1>3, <1>4 DEF Post, db
<1>5. CASE Update(w)
  BY <1>1, <1>3, <1>5 DEF Update, UpdateDelivery
<1> QED BY <1>1, <1>2, <1>4, <1>5

LEMMA UpdateFacts ==
  ASSUME IInv, NEW w \in Workers, Update(w)
  PROVE  /\ job[w] \in Deliveries
         /\ try[w] \in 1..MaxAttempts
         /\ Len(answers[job[w]]) = try[w]
         /\ LastAnswer(job[w]) = answers[job[w]][try[w]]
         /\ answers[job[w]] # <<>>
         /\ attempts[job[w]] < try[w]
         /\ wpc' = [wpc EXCEPT ![w] = AfterAttempt(try[w], LastAnswer(job[w]))]
         /\ UNCHANGED <<job, try, answers, queue, course>>
<1>1. wpc[w] = "update" /\ WorkerInStep(w) /\ job[w] \in Deliveries
  BY JobOfCarrier DEF Update, IInv, WorkerControl, Carrying, AtToken
<1>2. answers[job[w]] \in Seq(Codes)
  BY <1>1 DEF IInv, TypeOK
<1> QED BY <1>1, <1>2, DispatcherAssumption
        DEF WorkerInStep, AtToken, Update, Goto, LastAnswer

LEMMA PostFacts ==
  ASSUME IInv, NEW w \in Workers, Post(w)
  PROVE  /\ job[w] \in Deliveries
         /\ try[w] \in 1..MaxAttempts
         /\ Len(answers[job[w]]) = try[w] - 1
         /\ answers[job[w]] \in Seq(Codes)
         /\ \E c \in Codes :
              answers' = [answers EXCEPT ![job[w]] = Append(answers[job[w]], c)]
         /\ Len(answers'[job[w]]) = try[w]
         /\ \A k \in 1..Len(answers[job[w]]) : answers'[job[w]][k] = answers[job[w]][k]
         /\ \A d \in Deliveries : d # job[w] => answers'[d] = answers[d]
         /\ wpc' = [wpc EXCEPT ![w] = "update"]
         /\ UNCHANGED <<job, try, queue, course, status, attempts, code>>
<1>1. wpc[w] = "post" /\ WorkerInStep(w) /\ job[w] \in Deliveries
  BY JobOfCarrier DEF Post, IInv, WorkerControl, Carrying, AtToken
<1>2. answers \in [Deliveries -> Seq(Codes)]
  BY DEF IInv, TypeOK
<1>3. PICK c \in Codes :
        answers' = [answers EXCEPT ![job[w]] = Append(answers[job[w]], c)]
  BY DEF Post
<1>4. try[w] \in 1..MaxAttempts /\ Len(answers[job[w]]) = try[w] - 1
  BY <1>1 DEF WorkerInStep, AtToken
<1>5. answers'[job[w]] = Append(answers[job[w]], c)
  BY <1>1, <1>2, <1>3
<1>6. /\ Len(answers'[job[w]]) = try[w]
      /\ \A k \in 1..Len(answers[job[w]]) : answers'[job[w]][k] = answers[job[w]][k]
  BY <1>1, <1>2, <1>4, <1>5, DispatcherAssumption
<1>7. \A d \in Deliveries : d # job[w] => answers'[d] = answers[d]
  BY <1>2, <1>3
<1> QED BY <1>1, <1>2, <1>3, <1>4, <1>6, <1>7 DEF Post, Goto, db

(* What the loop does after an attempt, in the words of the promise. *)
LEMMA AfterAttemptFacts ==
  ASSUME NEW ans \in Seq(Codes), ans # <<>>, Len(ans) \in 1..MaxAttempts
  PROVE  /\ AfterAttempt(Len(ans), ans[Len(ans)]) \in {"release", "sleep"}
         /\ AfterAttempt(Len(ans), ans[Len(ans)]) = "release" => Final(ans)
         /\ AfterAttempt(Len(ans), ans[Len(ans)]) = "sleep" =>
              Len(ans) < MaxAttempts /\ Unfinished(ans[Len(ans)])
<1> DEFINE c == ans[Len(ans)]
<1>1. /\ IsSuccess(c) <=> Log!Accepted(c)
      /\ IsPermanentFailure(c) <=> Log!Refused(c)
      /\ Unfinished(c) <=> ~IsSuccess(c) /\ ~IsPermanentFailure(c)
  BY SameVerdict
<1>2. MaxAttempts \in Nat \ {0}
  BY DispatcherAssumption
<1>3. CASE IsSuccess(c) \/ IsPermanentFailure(c) \/ Len(ans) = MaxAttempts
  <2>1. AfterAttempt(Len(ans), c) = "release"
    BY <1>3 DEF AfterAttempt
  <2>2. Final(ans)
    BY <1>1, <1>3 DEF Final
  <2> QED BY <2>1, <2>2
<1>4. CASE ~(IsSuccess(c) \/ IsPermanentFailure(c) \/ Len(ans) = MaxAttempts)
  <2>1. AfterAttempt(Len(ans), c) = "sleep"
    BY <1>4 DEF AfterAttempt
  <2>2. Unfinished(c)
    BY <1>1, <1>4
  <2>3. Len(ans) # MaxAttempts
    BY <1>4
  <2>4. ASSUME NEW n \in 1..MaxAttempts, n # MaxAttempts PROVE n < MaxAttempts
    BY <1>2, <2>4
  <2>5. Len(ans) < MaxAttempts
    BY <2>3, <2>4
  <2> QED BY <2>1, <2>2, <2>5
<1> QED BY <1>3, <1>4

LEMMA WorkerWorkerControl ==
  ASSUME IInv, NEW w \in Workers, Worker(w)
  PROVE  WorkerControl'
<1> USE DispatcherAssumption DEF IInv
<1>0. TypeOK /\ WorkerInStep(w)
  BY DEF WorkerControl
<1>1. ASSUME NEW v \in Workers, v # w PROVE WorkerInStep(v)'
  BY <1>1, OthersLeftAlone, WorkerLeftAlone DEF WorkerControl
<1>2. WorkerInStep(w)'
  <2>1. CASE Take(w)
    <3>1. /\ Head(queue) \in Deliveries
          /\ answers[Head(queue)] = <<>>
      BY <2>1, QueueTail DEF Take, CourseControl
    <3>2. wpc'[w] = "sem" /\ job'[w] = Head(queue) /\ answers' = answers
      BY <2>1 DEF Take, Goto, TypeOK
    <3> QED BY <3>1, <3>2 DEF WorkerInStep, AtToken, Carrying
  <2>2. CASE Leave(w)
    BY <1>0, <2>2 DEF Leave, Goto, TypeOK, WorkerInStep, AtToken, Carrying
  <2>3. CASE Acquire(w)
    <3>1. /\ wpc'[w] = "post" /\ job'[w] = job[w] /\ try'[w] = 1 /\ answers' = answers
          /\ job[w] # NoJob /\ answers[job[w]] = <<>>
      BY <1>0, <2>3 DEF Acquire, Goto, TypeOK, WorkerInStep, Carrying
    <3> QED BY <3>1 DEF WorkerInStep, AtToken, Carrying
  <2>4. CASE GiveUp(w) \/ Release(w)
    <3>1. wpc'[w] = "idle" /\ job'[w] = NoJob
      BY <2>4 DEF GiveUp, Release, Goto, TypeOK
    <3> QED BY <3>1 DEF WorkerInStep, AtToken, Carrying
  <2>5. CASE Post(w)
    <3>1. /\ wpc'[w] = "update" /\ job'[w] = job[w] /\ try'[w] = try[w]
          /\ Len(answers'[job[w]]) = try[w]
          /\ job[w] # NoJob /\ job[w] \in Deliveries
          /\ try[w] \in 1..MaxAttempts
          /\ attempts' = attempts
      BY <2>5, PostFacts DEF TypeOK
    <3>2. attempts[job[w]] < try[w]
      <4>1. attempts[job[w]] \in Nat /\ try[w] \in Nat \ {0}
        BY <3>1 DEF TypeOK
      <4>2. attempts[job[w]] > 0 => attempts[job[w]] <= Len(answers[job[w]])
        BY <3>1 DEF RowTellsTheTruth
      <4>3. Len(answers[job[w]]) = try[w] - 1
        BY <2>5, PostFacts
      <4> QED BY <4>1, <4>2, <4>3
    <3> QED BY <3>1, <3>2 DEF WorkerInStep, AtToken, Carrying
  <2>6. CASE Update(w)
    <3> DEFINE ans == answers[job[w]]
    <3>1. /\ ans \in Seq(Codes) /\ ans # <<>> /\ Len(ans) \in 1..MaxAttempts
          /\ Len(ans) = try[w]
          /\ wpc'[w] = AfterAttempt(Len(ans), ans[Len(ans)])
          /\ UNCHANGED <<job, try, answers>>
          /\ job[w] \in Deliveries
      BY <2>6, UpdateFacts DEF TypeOK
    <3>2. /\ wpc'[w] \in {"release", "sleep"}
          /\ wpc'[w] = "release" => Final(ans)
          /\ wpc'[w] = "sleep" => Len(ans) < MaxAttempts
      BY <3>1, AfterAttemptFacts
    <3> QED BY <3>1, <3>2 DEF WorkerInStep, AtToken, Carrying
  <2>7. CASE Wake(w)
    <3>1. /\ wpc[w] = "sleep" /\ wpc'[w] = "post"
          /\ try'[w] = try[w] + 1
          /\ UNCHANGED <<job, answers>>
          /\ job[w] # NoJob
          /\ try[w] \in 1..MaxAttempts /\ try[w] < MaxAttempts
          /\ Len(answers[job[w]]) = try[w]
      BY <1>0, <2>7 DEF Wake, Goto, TypeOK, WorkerInStep, Carrying, AtToken
    <3> QED BY <3>1 DEF WorkerInStep, AtToken, Carrying
  <2> QED BY <2>1, <2>2, <2>3, <2>4, <2>5, <2>6, <2>7 DEF Worker
<1> QED BY <1>1, <1>2 DEF WorkerControl

LEMMA NextWorkerControl ==
  ASSUME IInv, [Next]_vars
  PROVE  WorkerControl'
<1> USE DispatcherAssumption DEF IInv
<1>1. ASSUME UNCHANGED <<wpc, job, try, answers, attempts>> PROVE WorkerControl'
  BY <1>1 DEF WorkerControl, WorkerInStep
<1>2. CASE Outside
  <2>1. attempts' = attempts
    BY <1>2 DEF Outside, SetWebhook, DeleteInstance, RecordDelivery, LoadWebhook, Signal,
                DeadlinePasses, Jam, HttpStopped, Drained, StopAll, CloseDb, Advance, db
  <2> QED BY <1>1, <1>2, <2>1, OutsideFrame
<1>3. ASSUME NEW d \in Deliveries, Offer(d) PROVE WorkerControl'
  BY <1>1, <1>3 DEF Offer, workers, db
<1>4. ASSUME NEW w \in Workers, Worker(w) PROVE WorkerControl'
  BY <1>4, WorkerWorkerControl
<1>5. CASE ProcessEnds
  BY <1>5 DEF ProcessEnds, WorkerControl, WorkerInStep, Carrying, AtToken
<1>6. CASE Boot
  <2>1. \A w \in Workers : job[w] = NoJob
    BY <1>6 DEF Boot, ShutdownControl, WorkerControl, WorkerInStep, Carrying, AtToken
  <2> QED BY <1>6, <2>1 DEF Boot, WorkerControl, WorkerInStep, Carrying, AtToken
<1>7. CASE UNCHANGED vars
  BY <1>1, <1>7 DEF vars
<1> QED BY <1>2, <1>3, <1>4, <1>5, <1>6, <1>7, NextSplit

-----------------------------------------------------------------------------
(* The history of answers.                                                 *)

(* Only Post adds to the history. *)
LEMMA AnswersFrame ==
  ASSUME [Next]_vars
  PROVE  answers' = answers \/ \E w \in Workers : Post(w)
<1>1. CASE Outside
  BY <1>1, OutsideFrame
<1>2. ASSUME NEW d \in Deliveries, Offer(d) PROVE answers' = answers
  BY <1>2 DEF Offer, workers
<1>3. ASSUME NEW w \in Workers, Worker(w), ~Post(w) PROVE answers' = answers
  BY <1>3 DEF Worker, Take, Leave, Acquire, GiveUp, Update, Wake, Release
<1>4. CASE ProcessEnds \/ Boot \/ UNCHANGED vars
  BY <1>4 DEF ProcessEnds, Boot, vars
<1> QED BY <1>1, <1>2, <1>3, <1>4, NextSplit

LEMMA NextOnlyLastIsFinal ==
  ASSUME IInv, [Next]_vars
  PROVE  OnlyLastIsFinal'
<1> USE DispatcherAssumption DEF IInv
<1>1. CASE answers' = answers
  BY <1>1 DEF OnlyLastIsFinal
<1>2. ASSUME NEW w \in Workers, Post(w) PROVE OnlyLastIsFinal'
  <2>1. /\ job[w] \in Deliveries
        /\ try[w] \in 1..MaxAttempts
        /\ Len(answers[job[w]]) = try[w] - 1
        /\ Len(answers'[job[w]]) = try[w]
        /\ \A k \in 1..Len(answers[job[w]]) : answers'[job[w]][k] = answers[job[w]][k]
        /\ \A d \in Deliveries : d # job[w] => answers'[d] = answers[d]
    BY <1>2, PostFacts
  <2>2. \A k \in 1..Len(answers[job[w]]) : Unfinished(answers[job[w]][k])
    BY <1>2 DEF Post, OpenBeforePost
  <2>3. ASSUME NEW k \in 1..Len(answers'[job[w]])
        PROVE  k = Len(answers'[job[w]]) \/ Unfinished(answers'[job[w]][k])
    <3>1. k = try[w] \/ k \in 1..Len(answers[job[w]])
      BY <2>1
    <3>2. CASE k \in 1..Len(answers[job[w]])
      <4>1. answers'[job[w]][k] = answers[job[w]][k]
        BY <2>1, <3>2
      <4> QED BY <2>2, <3>2, <4>1
    <3> QED BY <2>1, <3>1, <3>2
  <2>4. Len(answers'[job[w]]) <= MaxAttempts
    BY <2>1
  <2> QED BY <2>1, <2>3, <2>4 DEF OnlyLastIsFinal
<1> QED BY <1>1, <1>2, AnswersFrame

LEMMA NextOpenBeforePost ==
  ASSUME IInv, [Next]_vars
  PROVE  OpenBeforePost'
<1> USE DispatcherAssumption DEF IInv
<1>1. ASSUME UNCHANGED <<wpc, job, answers>> PROVE OpenBeforePost'
  BY <1>1 DEF OpenBeforePost
<1>2. CASE Outside
  BY <1>1, <1>2, OutsideFrame
<1>3. ASSUME NEW d \in Deliveries, Offer(d) PROVE OpenBeforePost'
  BY <1>1, <1>3 DEF Offer, workers
<1>4. ASSUME NEW w \in Workers, Worker(w) PROVE OpenBeforePost'
  <2> SUFFICES ASSUME NEW v \in Workers, wpc'[v] \in {"sleep", "post"},
                      NEW k \in 1..Len(answers'[job'[v]])
               PROVE  Unfinished(answers'[job'[v]][k])
    BY DEF OpenBeforePost
  <2>1. CASE v # w
    <3>1. /\ wpc'[v] = wpc[v] /\ job'[v] = job[v]
          /\ job[v] # NoJob => answers'[job[v]] = answers[job[v]]
      BY <1>4, <2>1, OthersLeftAlone
    <3>2. job[v] # NoJob
      BY <3>1 DEF WorkerControl, WorkerInStep, Carrying, AtToken
    <3> QED BY <3>1, <3>2 DEF OpenBeforePost
  <2>2. CASE v = w
    <3>0. wpc \in [Workers -> Carrying \cup {"idle", "exited", "down"}]
      BY DEF TypeOK
    <3>1. Acquire(w) \/ Update(w) \/ Wake(w)
      BY <1>4, <2>2, <3>0 DEF Worker, Take, Leave, GiveUp, Post, Release, Goto
    <3>2. CASE Acquire(w)
      <4>1. answers[job[w]] = <<>>
        BY <3>2 DEF Acquire, WorkerControl, WorkerInStep
      <4>2. answers' = answers /\ job' = job
        BY <3>2 DEF Acquire
      <4> QED BY <2>2, <4>1, <4>2
    <3>3. CASE Update(w)
      <4> DEFINE ans == answers[job[w]]
      <4>1. /\ ans \in Seq(Codes) /\ ans # <<>> /\ Len(ans) \in 1..MaxAttempts
            /\ wpc'[w] = AfterAttempt(Len(ans), ans[Len(ans)])
            /\ UNCHANGED <<job, answers>>
            /\ job[w] \in Deliveries
        <5>1. /\ job[w] \in Deliveries /\ Len(ans) = try[w] /\ try[w] \in 1..MaxAttempts
              /\ LastAnswer(job[w]) = ans[try[w]] /\ ans # <<>>
              /\ wpc' = [wpc EXCEPT ![w] = AfterAttempt(try[w], LastAnswer(job[w]))]
              /\ UNCHANGED <<job, answers>>
          BY <3>3, UpdateFacts
        <5>2. ans \in Seq(Codes)
          BY <5>1 DEF TypeOK
        <5> QED BY <3>0, <5>1, <5>2
      <4>2. Unfinished(ans[Len(ans)])
        BY <2>2, <4>1, AfterAttemptFacts
      <4>3. \A l \in 1..Len(ans) : l = Len(ans) \/ Unfinished(ans[l])
        BY <4>1 DEF OnlyLastIsFinal
      <4> QED BY <2>2, <4>1, <4>2, <4>3
    <3>4. CASE Wake(w)
      BY <2>2, <3>4 DEF Wake, OpenBeforePost
    <3> QED BY <3>1, <3>2, <3>3, <3>4
  <2> QED BY <2>1, <2>2
<1>5. CASE ProcessEnds
  BY <1>5 DEF ProcessEnds, OpenBeforePost
<1>6. CASE Boot
  BY <1>6 DEF Boot, OpenBeforePost
<1>7. CASE UNCHANGED vars
  BY <1>1, <1>7 DEF vars
<1> QED BY <1>2, <1>3, <1>4, <1>5, <1>6, <1>7, NextSplit

LEMMA NextShutdownControl ==
  ASSUME IInv, [Next]_vars
  PROVE  ShutdownControl'
<1> USE DispatcherAssumption DEF IInv, ChannelClosed
<1>2. CASE Outside
  <2>1. wpc' = wpc /\ queue' = queue
    BY <1>2, OutsideFrame
  <2>2. CASE UNCHANGED <<main, expired, course>>
    BY <2>1, <2>2 DEF ShutdownControl
  <2>8. ASSUME NEW d \in Deliveries, RecordDelivery(d) \/ LoadWebhook(d)
        PROVE  ShutdownControl'
    <3>1. main # "exited" /\ UNCHANGED <<main, expired>>
      BY <2>8 DEF RecordDelivery, LoadWebhook, Alive, ShutdownControl, InCallback
    <3> QED BY <2>1, <3>1 DEF ShutdownControl
  <2>3. CASE Signal
    BY <2>1, <2>3 DEF Signal, Advance, ShutdownControl
  <2>4. CASE DeadlinePasses
    BY <2>1, <2>4 DEF DeadlinePasses, ShutdownControl
  <2>5. CASE HttpStopped
    BY <2>1, <2>5 DEF HttpStopped, Advance, ShutdownControl
  <2>6. CASE Drained
    BY <2>1, <2>6 DEF Drained, Advance, ShutdownControl
  <2>7. CASE StopAll \/ CloseDb
    BY <2>1, <2>7 DEF StopAll, CloseDb, Advance, ShutdownControl
  <2> QED BY <1>2, <2>2, <2>3, <2>4, <2>5, <2>6, <2>7, <2>8
          DEF Outside, SetWebhook, DeleteInstance, Jam
<1>3. ASSUME NEW d \in Deliveries, Offer(d) PROVE ShutdownControl'
  <2>1. UNCHANGED <<wpc, main, expired>> /\ (queue' = queue \/ ~ChannelClosed)
    BY <1>3 DEF Offer, workers
  <2>2. main # "exited"
    BY <1>3 DEF Offer, ShutdownControl, InCallback
  <2> QED BY <2>1, <2>2 DEF ShutdownControl
<1>4. ASSUME NEW w \in Workers, Worker(w) PROVE ShutdownControl'
  <2>1. main' = main /\ expired' = expired
    BY <1>4 DEF Worker, Take, Leave, Acquire, GiveUp, Post, Update, Wake, Release
  <2>2. /\ wpc[w] \notin {"exited", "down"}
        /\ \A v \in Workers : v # w => wpc'[v] = wpc[v]
    BY <1>4, OthersLeftAlone
       DEF Worker, Take, Leave, Acquire, GiveUp, Post, Update, Wake, Release
  <2>3. main # "exited" /\ (main \in {"stopClients", "closeDb", "exiting"} => expired)
    BY <2>2 DEF ShutdownControl
  <2>4. queue = <<>> => queue' = <<>>
    BY <1>4 DEF Worker, Take, Leave, Acquire, GiveUp, Post, Update, Wake, Release
  <2>5. wpc'[w] = "exited" => ChannelClosed /\ queue' = <<>>
    <3>1. wpc \in [Workers -> Carrying \cup {"idle", "exited", "down"}]
      BY DEF TypeOK
    <3>2. Update(w) => wpc'[w] # "exited"
      BY <3>1, UpdateFacts DEF AfterAttempt
    <3> QED BY <1>4, <3>1, <3>2
            DEF Worker, Take, Leave, Acquire, GiveUp, Post, Wake, Release, Goto
  <2> QED BY <2>1, <2>2, <2>3, <2>4, <2>5 DEF ShutdownControl
<1>5. CASE ProcessEnds
  BY <1>5 DEF ProcessEnds, ShutdownControl, InCallback
<1>6. CASE Boot
  BY <1>6 DEF Boot, ShutdownControl
<1>7. CASE UNCHANGED vars
  BY <1>7 DEF vars, ShutdownControl
<1> QED BY <1>2, <1>3, <1>4, <1>5, <1>6, <1>7, NextSplit

-----------------------------------------------------------------------------
(* The course of a delivery.                                               *)

LEMMA WorkerCourseControl ==
  ASSUME IInv, NEW w \in Workers, Worker(w)
  PROVE  CourseControl'
<1> USE DispatcherAssumption DEF IInv
<1> SUFFICES ASSUME NEW d \in Deliveries
             PROVE  /\ InFlight(d)' => course'[d] = "queued"
                    /\ InQueue(d)' => answers'[d] = <<>>
                    /\ course'[d] \in InCallback \cup {"idle"} => answers'[d] = <<>>
                    /\ course'[d] = "idle" => status'[d] = "none"
                    /\ attempts'[d] > 0 => course'[d] # "idle"
  BY DEF CourseControl
<1>0. /\ InFlight(d) => course[d] = "queued"
      /\ InQueue(d) => answers[d] = <<>>
      /\ course[d] \in InCallback \cup {"idle"} => answers[d] = <<>>
      /\ course[d] = "idle" => status[d] = "none"
      /\ attempts[d] > 0 => course[d] # "idle"
  BY DEF CourseControl
<1>1. CASE Take(w)
  <2>1. /\ InQueue(Head(queue))
        /\ \A e : InQueue(e)' <=> InQueue(e) /\ e # Head(queue)
        /\ job' = [job EXCEPT ![w] = Head(queue)]
    BY <1>1, QueueTail DEF Take
  <2>2. Carried(d)' => Carried(d) \/ d = Head(queue)
    BY <2>1 DEF Carried, TypeOK
  <2>3. InFlight(d)' => InFlight(d)
    BY <2>1, <2>2 DEF InFlight
  <2> QED BY <1>0, <1>1, <2>1, <2>3 DEF Take, db
<1>2. CASE Leave(w) \/ Acquire(w) \/ Wake(w)
  <2>1. UNCHANGED <<queue, job, course, answers, status, attempts>>
    BY <1>2 DEF Leave, Acquire, Wake, db
  <2> QED BY <1>0, <2>1, PipelineKept
<1>3. CASE GiveUp(w)
  <2>1. /\ job[w] \in Deliveries
        /\ course' = [course EXCEPT ![job[w]] = "dropped"]
        /\ job' = [job EXCEPT ![w] = NoJob]
        /\ UNCHANGED <<queue, answers, status, attempts>>
    BY <1>3, JobOfCarrier DEF GiveUp, Carrying, db
  <2>2. (InQueue(d)' <=> InQueue(d)) /\ (InFlight(d)' => InFlight(d))
    BY <2>1, JobCleared
  <2>3. \A v \in Workers : job'[v] # NoJob => v # w /\ job'[v] = job[v]
    BY <2>1, JobCleared
  <2>4. InFlight(d)' => d # job[w]
    BY <2>1, <2>2, <2>3 DEF InFlight, Carried, OneCarrier
  <2> QED BY <1>0, <2>1, <2>2, <2>4 DEF TypeOK, InCallback
<1>4. CASE Release(w)
  <2>1. job' = [job EXCEPT ![w] = NoJob] /\ UNCHANGED <<queue, course, answers, status, attempts>>
    BY <1>4 DEF Release, db
  <2>2. (InQueue(d)' <=> InQueue(d)) /\ (InFlight(d)' => InFlight(d))
    BY <2>1, JobCleared
  <2> QED BY <1>0, <2>1, <2>2
<1>5. CASE Post(w)
  <2>1. /\ UNCHANGED <<queue, job, course, status, attempts>>
        /\ d # job[w] => answers'[d] = answers[d]
    BY <1>5, PostFacts
  <2>2. (InQueue(d)' <=> InQueue(d)) /\ (InFlight(d)' <=> InFlight(d))
    BY <2>1, PipelineKept
  <2>3. d = job[w] => course[d] = "queued" /\ ~InQueue(d)
    BY <1>0, <1>5 DEF InFlight, Carried, OneCarrier
  <2> QED BY <1>0, <2>1, <2>2, <2>3 DEF InCallback
<1>6. CASE Update(w)
  <2>1. /\ job[w] \in Deliveries
        /\ UNCHANGED <<queue, job, course, answers>>
    BY <1>6, UpdateFacts
  <2>2. (InQueue(d)' <=> InQueue(d)) /\ (InFlight(d)' <=> InFlight(d))
    BY <2>1, PipelineKept
  <2>3. d = job[w] => course[d] = "queued"
    BY <1>0, <2>1 DEF InFlight, Carried
  <2>4. d # job[w] => status'[d] = status[d] /\ attempts'[d] = attempts[d]
    BY <1>6, <2>1 DEF Update, UpdateDelivery, TypeOK
  <2> QED BY <1>0, <2>1, <2>2, <2>3, <2>4
<1> QED BY <1>1, <1>2, <1>3, <1>4, <1>5, <1>6 DEF Worker

LEMMA NextCourseControl ==
  ASSUME IInv, [Next]_vars
  PROVE  CourseControl'
<1> USE DispatcherAssumption DEF IInv
<1>1. ASSUME UNCHANGED <<queue, job, course, answers, status, attempts>> PROVE CourseControl'
  BY <1>1, PipelineKept DEF CourseControl
<1>2. CASE Outside
  <2>1. UNCHANGED <<queue, job, answers>>
    BY <1>2, OutsideFrame
  <2>2. \A d \in Deliveries : (InQueue(d)' <=> InQueue(d)) /\ (InFlight(d)' <=> InFlight(d))
    BY <2>1, PipelineKept
  <2>3. ASSUME NEW i \in Instances, DeleteInstance(i) PROVE CourseControl'
    BY <2>1, <2>2, <2>3 DEF DeleteInstance, RowExists, CourseControl
  <2>4. ASSUME NEW e \in Deliveries, RecordDelivery(e) \/ LoadWebhook(e)
        PROVE  CourseControl'
    <3>1. /\ course[e] \in InCallback \cup {"idle"}
          /\ course'[e] \in {"recorded", "loaded", "skipped"}
          /\ \A d \in Deliveries : d # e => course'[d] = course[d] /\ status'[d] = status[d]
          /\ attempts' = attempts
      BY <2>4 DEF RecordDelivery, LoadWebhook, InCallback, TypeOK, db
    <3>2. ~InFlight(e)
      BY <3>1 DEF CourseControl, InCallback
    <3> QED BY <2>1, <2>2, <3>1, <3>2 DEF CourseControl, InCallback
  <2>5. CASE UNCHANGED <<course, status, attempts>>
    BY <1>1, <2>1, <2>5
  <2> QED BY <1>2, <2>3, <2>4, <2>5
          DEF Outside, SetWebhook, Signal, DeadlinePasses, Jam, HttpStopped, Drained, StopAll,
              CloseDb, Advance, db
<1>3. ASSUME NEW e \in Deliveries, Offer(e) PROVE CourseControl'
  <2>1. /\ course[e] = "loaded"
        /\ UNCHANGED <<job, answers, status, attempts>>
        /\ \A d \in Deliveries : d # e => course'[d] = course[d]
        /\ \/ queue' = queue /\ course'[e] \in {"panicked", "dropped"}
           \/ queue' = Append(queue, e) /\ course'[e] = "queued"
    BY <1>3 DEF Offer, db, workers, TypeOK
  <2>2. ~InFlight(e) /\ answers[e] = <<>>
    BY <2>1 DEF CourseControl, InCallback
  <2>3. CASE queue' = queue /\ course'[e] \in {"panicked", "dropped"}
    <3>1. \A d \in Deliveries : (InQueue(d)' <=> InQueue(d)) /\ (InFlight(d)' <=> InFlight(d))
      BY <2>1, <2>3, PipelineKept
    <3> QED BY <2>1, <2>2, <2>3, <3>1 DEF CourseControl, InCallback
  <2>4. CASE queue' = Append(queue, e) /\ course'[e] = "queued"
    <3>1. \A d : InQueue(d)' <=> InQueue(d) \/ d = e
      BY <2>2, <2>4, QueueAppend DEF InFlight
    <3>2. \A d \in Deliveries : Carried(d)' <=> Carried(d)
      BY <2>1 DEF Carried
    <3> QED BY <2>1, <2>2, <2>4, <3>1, <3>2 DEF CourseControl, InCallback, InFlight
  <2> QED BY <2>1, <2>3, <2>4
<1>4. ASSUME NEW w \in Workers, Worker(w) PROVE CourseControl'
  BY <1>4, WorkerCourseControl
<1>5. CASE ProcessEnds
  <2>1. \A d \in Deliveries : ~InFlight(d)'
    BY <1>5 DEF ProcessEnds, InFlight, InQueue, Carried
  <2>2. \A d \in Deliveries : course'[d] \in InCallback \cup {"idle"} => course'[d] = course[d]
    BY <1>5 DEF ProcessEnds, InCallback
  <2>3. UNCHANGED <<answers, status, attempts>> /\ \A d \in Deliveries : course'[d] = "idle" <=> course[d] = "idle"
    BY <1>5 DEF ProcessEnds, db, InCallback, CourseControl
  <2> QED BY <2>1, <2>2, <2>3 DEF CourseControl, InFlight
<1>6. CASE Boot
  BY <1>1, <1>6 DEF Boot, db
<1>7. CASE UNCHANGED vars
  BY <1>1, <1>7 DEF vars
<1> QED BY <1>2, <1>3, <1>4, <1>5, <1>6, <1>7, NextSplit

-----------------------------------------------------------------------------
(* The row.                                                                *)

(* The row of one delivery, as RowTellsTheTruth has it. *)
RowTrue(d) ==
  /\ attempts[d] = 0 /\ RowExists(d) => status[d] = "pending"
  /\ attempts[d] > 0 =>
       /\ attempts[d] <= Len(answers[d])
       /\ code[d] = answers[d][attempts[d]]
       /\ RowExists(d) => status[d] = Log!Verdict(attempts[d], code[d])

LEMMA RowsAreTrue == RowTellsTheTruth <=> \A d \in Deliveries : RowTrue(d)
BY DEF RowTellsTheTruth, RowTrue

LEMMA RowTrueKept ==
  ASSUME NEW d, RowTrue(d), attempts'[d] = attempts[d], code'[d] = code[d],
         status'[d] = status[d] \/ status'[d] = "gone", answers'[d] = answers[d]
  PROVE  RowTrue(d)'
BY DEF RowTrue, RowExists

(* Only these four kinds of step write a row or the history. *)
LEMMA RowFrame ==
  ASSUME [Next]_vars
  PROVE  \/ UNCHANGED <<status, attempts, code, answers>>
         \/ \E i \in Instances : DeleteInstance(i)
         \/ \E d \in Deliveries : RecordDelivery(d)
         \/ \E w \in Workers : Post(w) \/ Update(w)
<1>1. CASE Outside
  BY <1>1, OutsideFrame
     DEF Outside, SetWebhook, LoadWebhook, Signal, DeadlinePasses, Jam, HttpStopped, Drained,
         StopAll, CloseDb, Advance, db
<1>2. ASSUME NEW d \in Deliveries, Offer(d) PROVE UNCHANGED <<status, attempts, code, answers>>
  BY <1>2 DEF Offer, db, workers
<1>3. ASSUME NEW w \in Workers, Worker(w), ~Post(w), ~Update(w)
      PROVE  UNCHANGED <<status, attempts, code, answers>>
  BY <1>3 DEF Worker, Take, Leave, Acquire, GiveUp, Wake, Release, db
<1>4. CASE ProcessEnds \/ Boot \/ UNCHANGED vars
  BY <1>4 DEF ProcessEnds, Boot, vars, db
<1> QED BY <1>1, <1>2, <1>3, <1>4, NextSplit

LEMMA NextRowTellsTheTruth ==
  ASSUME IInv, [Next]_vars
  PROVE  RowTellsTheTruth'
<1> USE DispatcherAssumption DEF IInv
<1> SUFFICES ASSUME NEW d \in Deliveries
             PROVE  RowTrue(d)'
  BY DEF RowTellsTheTruth, RowTrue
<1>0. RowTrue(d)
  BY RowsAreTrue
<1>1. CASE UNCHANGED <<status, attempts, code, answers>>
  BY <1>0, <1>1, RowTrueKept
<1>2. ASSUME NEW i \in Instances, DeleteInstance(i) PROVE RowTrue(d)'
  BY <1>0, <1>2, RowTrueKept DEF DeleteInstance, workers
<1>3. ASSUME NEW e \in Deliveries, RecordDelivery(e) PROVE RowTrue(d)'
  <2>1. UNCHANGED <<attempts, code, answers>> /\ course[e] = "idle"
    BY <1>3 DEF RecordDelivery, workers
  <2>2. CASE d # e
    BY <1>0, <1>3, <2>1, <2>2, RowTrueKept DEF RecordDelivery, TypeOK
  <2>3. CASE d = e
    <3>1. attempts[d] = 0
      BY <2>1, <2>3 DEF CourseControl, TypeOK
    <3>2. status'[d] = "pending" \/ status'[d] = status[d]
      BY <1>3, <2>3 DEF RecordDelivery, TypeOK
    <3> QED BY <1>0, <2>1, <3>1, <3>2 DEF RowTrue, RowExists
  <2> QED BY <2>2, <2>3
<1>4. ASSUME NEW w \in Workers, Post(w) PROVE RowTrue(d)'
  <2>1. /\ UNCHANGED <<status, attempts, code>>
        /\ try[w] \in 1..MaxAttempts
        /\ Len(answers[job[w]]) = try[w] - 1
        /\ Len(answers'[job[w]]) = try[w]
        /\ \A k \in 1..Len(answers[job[w]]) : answers'[job[w]][k] = answers[job[w]][k]
        /\ d # job[w] => answers'[d] = answers[d]
    BY <1>4, PostFacts
  <2>2. CASE d # job[w]
    BY <1>0, <2>1, <2>2, RowTrueKept
  <2>3. CASE d = job[w]
    <3>1. attempts[d] \in Nat
      BY DEF TypeOK
    <3>2. ASSUME attempts[d] > 0
          PROVE  /\ attempts[d] <= Len(answers'[d])
                 /\ answers'[d][attempts[d]] = answers[d][attempts[d]]
      <4>1. attempts[d] \in 1..Len(answers[job[w]])
        BY <1>0, <2>1, <2>3, <3>1, <3>2 DEF RowTrue
      <4>2. answers'[d][attempts[d]] = answers[d][attempts[d]]
        BY <2>1, <2>3, <4>1
      <4>3. Len(answers'[d]) = Len(answers[d]) + 1 /\ Len(answers[d]) \in Nat
        <5>1. try[w] \in Nat
          BY <2>1, DispatcherAssumption
        <5>2. Len(answers[d]) = try[w] - 1 /\ Len(answers'[d]) = try[w]
          BY <2>1, <2>3
        <5>3. Len(answers[d]) \in Nat
          BY DEF TypeOK
        <5> QED BY <5>1, <5>2, <5>3
      <4>4. attempts[d] <= Len(answers'[d])
        BY <2>3, <4>1, <4>3
      <4> QED BY <4>2, <4>4
    <3> QED BY <1>0, <2>1, <3>2 DEF RowTrue, RowExists
  <2> QED BY <2>2, <2>3
<1>5. ASSUME NEW w \in Workers, Update(w) PROVE RowTrue(d)'
  <2>1. /\ job[w] \in Deliveries
        /\ try[w] \in 1..MaxAttempts
        /\ Len(answers[job[w]]) = try[w]
        /\ LastAnswer(job[w]) = answers[job[w]][try[w]]
        /\ answers' = answers
    BY <1>5, UpdateFacts
  <2>2. CASE UNCHANGED <<status, attempts, code>>
    BY <1>0, <2>1, <2>2, RowTrueKept
  <2>3. CASE ~UNCHANGED <<status, attempts, code>>
    <3>1. /\ attempts' = [attempts EXCEPT ![job[w]] = try[w]]
          /\ code'     = [code EXCEPT ![job[w]] = LastAnswer(job[w])]
          /\ status'   = [status EXCEPT ![job[w]] = RowStatus(try[w], LastAnswer(job[w]))]
      BY <1>5, <2>3 DEF Update, UpdateDelivery
    <3>2. CASE d # job[w]
      BY <1>0, <2>1, <3>1, <3>2, RowTrueKept DEF TypeOK
    <3>3. CASE d = job[w]
      <4>1. /\ attempts'[d] = try[w]
            /\ code'[d] = answers'[d][try[w]]
            /\ status'[d] = Log!Verdict(attempts'[d], code'[d])
        BY <2>1, <3>1, <3>3, SameVerdict DEF TypeOK
      <4>2. attempts'[d] > 0 /\ attempts'[d] <= Len(answers'[d])
        BY <2>1, <3>3, <4>1
      <4> QED BY <4>1, <4>2 DEF RowTrue
    <3> QED BY <3>2, <3>3
  <2> QED BY <2>2, <2>3
<1> QED BY <1>1, <1>2, <1>3, <1>4, <1>5, RowFrame

LEMMA NextNoSilentLoss ==
  ASSUME IInv, [Next]_vars
  PROVE  NoSilentLoss'
<1> USE DispatcherAssumption DEF IInv
<1> SUFFICES ASSUME NEW d \in Deliveries, course'[d] = "queued", ~InFlight(d)'
             PROVE  Final(answers'[d])
  BY DEF NoSilentLoss
<1>0. course[d] = "queued" /\ ~InFlight(d) => Final(answers[d])
  BY DEF NoSilentLoss
<1>1. ASSUME course'[d] = course[d], InFlight(d)' <=> InFlight(d), answers'[d] = answers[d]
      PROVE  Final(answers'[d])
  BY <1>0, <1>1
<1>2. CASE Outside
  <2>1. UNCHANGED <<queue, job, answers>>
    BY <1>2, OutsideFrame
  <2>2. course'[d] = "queued" => course[d] = "queued"
    BY <1>2 DEF Outside, SetWebhook, DeleteInstance, RecordDelivery, LoadWebhook, Signal,
                DeadlinePasses, Jam, HttpStopped, Drained, StopAll, CloseDb, Advance, TypeOK
  <2> QED BY <1>1, <2>1, <2>2, PipelineKept
<1>3. ASSUME NEW e \in Deliveries, Offer(e) PROVE Final(answers'[d])
  <2>1. /\ course[e] = "loaded"
        /\ UNCHANGED <<job, answers>>
        /\ d # e => course'[d] = course[d]
        /\ \/ queue' = queue /\ course'[e] \in {"panicked", "dropped"}
           \/ queue' = Append(queue, e)
    BY <1>3 DEF Offer, workers, TypeOK
  <2>2. ~InFlight(e)
    BY <2>1 DEF CourseControl
  <2>3. CASE queue' = queue /\ course'[e] \in {"panicked", "dropped"}
    BY <1>1, <2>1, <2>3, PipelineKept
  <2>4. CASE queue' = Append(queue, e)
    <3>1. (InQueue(d)' <=> InQueue(d) \/ d = e) /\ (Carried(d)' <=> Carried(d))
      BY <2>1, <2>2, <2>4, QueueAppend DEF InFlight, Carried
    <3>2. d # e /\ (InFlight(d)' <=> InFlight(d))
      BY <3>1 DEF InFlight
    <3> QED BY <1>1, <2>1, <3>2
  <2> QED BY <2>1, <2>3, <2>4
<1>4. ASSUME NEW w \in Workers, Worker(w) PROVE Final(answers'[d])
  <2>1. CASE Take(w)
    <3>1. /\ \A e : InQueue(e)' <=> InQueue(e) /\ e # Head(queue)
          /\ job' = [job EXCEPT ![w] = Head(queue)]
          /\ UNCHANGED <<course, answers>>
      BY <2>1, QueueTail DEF Take
    <3>2. job[w] = NoJob
      BY <2>1 DEF Take, WorkerControl, WorkerInStep, Carrying, AtToken
    <3>3. \A v \in Workers : job'[v] = IF v = w THEN Head(queue) ELSE job[v]
      BY <3>1 DEF TypeOK
    <3>4. ~InFlight(d)
      BY <3>1, <3>2, <3>3 DEF InFlight, Carried
    <3> QED BY <1>0, <3>1, <3>4
  <2>2. CASE Leave(w) \/ Acquire(w) \/ Wake(w)
    BY <1>1, <2>2, PipelineKept DEF Leave, Acquire, Wake
  <2>3. CASE GiveUp(w) \/ Release(w)
    <3>1. /\ job[w] \in Deliveries
          /\ job' = [job EXCEPT ![w] = NoJob]
          /\ UNCHANGED <<queue, answers>>
          /\ GiveUp(w) => course' = [course EXCEPT ![job[w]] = "dropped"]
          /\ Release(w) => course' = course
      BY <2>3, JobOfCarrier DEF GiveUp, Release, Carrying, AtToken
    <3>2. InFlight(d) => d = job[w]
      BY <3>1, JobCleared
    <3>3. CASE d = job[w]
      <4>1. Release(w)
        BY <2>3, <3>1, <3>3 DEF TypeOK
      <4>2. Final(answers[job[w]])
        BY <4>1 DEF Release, WorkerControl, WorkerInStep
      <4> QED BY <3>1, <3>3, <4>2
    <3>4. CASE d # job[w]
      <4>1. course'[d] = course[d]
        BY <2>3, <3>1, <3>4 DEF TypeOK
      <4> QED BY <1>0, <3>1, <3>2, <3>4, <4>1
    <3> QED BY <3>3, <3>4
  <2>4. CASE Post(w)
    <3>1. /\ UNCHANGED <<queue, job, course>>
          /\ d # job[w] => answers'[d] = answers[d]
      BY <2>4, PostFacts
    <3>2. (InFlight(d)' <=> InFlight(d)) /\ d # job[w]
      BY <3>1, PipelineKept DEF InFlight, Carried
    <3> QED BY <1>1, <3>1, <3>2
  <2>5. CASE Update(w)
    BY <1>1, <2>5, UpdateFacts, PipelineKept
  <2> QED BY <1>4, <2>1, <2>2, <2>3, <2>4, <2>5 DEF Worker
<1>5. CASE ProcessEnds
  <2>1. course[d] = "queued" /\ ~InFlight(d) /\ answers' = answers
    BY <1>5 DEF ProcessEnds
  <2> QED BY <1>0, <2>1
<1>6. CASE Boot
  BY <1>1, <1>6, PipelineKept DEF Boot
<1>7. CASE UNCHANGED vars
  BY <1>1, <1>7, PipelineKept DEF vars
<1> QED BY <1>2, <1>3, <1>4, <1>5, <1>6, <1>7, NextSplit

-----------------------------------------------------------------------------
(* The theorems.                                                           *)

LEMMA InitIInv == Init => IInv
<1> SUFFICES ASSUME Init PROVE IInv
  OBVIOUS
<1> USE DispatcherAssumption
<1>1. TypeOK
  BY InitTypeOK
<1>2. \A d \in Deliveries : ~InFlight(d) /\ answers[d] = <<>> /\ attempts[d] = 0
  BY DEF Init, InFlight, InQueue, Carried
<1>3. WorkerControl /\ OpenBeforePost /\ ShutdownControl
  BY DEF Init, WorkerControl, WorkerInStep, OpenBeforePost, ShutdownControl, Carrying, AtToken
<1>4. CourseControl /\ OnlyLastIsFinal
  BY <1>2 DEF Init, CourseControl, OnlyLastIsFinal, InFlight
<1>5. OneCarrier /\ NoSilentLoss
  BY DEF Init, OneCarrier, InQueue, NoSilentLoss
<1>6. RowTellsTheTruth
  BY <1>2 DEF Init, RowTellsTheTruth, RowExists
<1>7. TokensMatchHolders
  <2>1. \A i \in Instances : Holding(i) = {} /\ tokens[i] = 0
    BY DEF Init, Holding, AtToken
  <2> QED BY <2>1, FS_EmptySet DEF TokensMatchHolders, Holding
<1> QED BY <1>1, <1>3, <1>4, <1>5, <1>6, <1>7 DEF IInv

(* The conjunction of the invariants and the control facts is inductive:   *)
(* every step of the callbacks, the workers and main preserves it.         *)
THEOREM InductiveInvariant == Spec => []IInv
<1>1. IInv /\ [Next]_vars => IInv'
  BY NextTypeOK, NextWorkerControl, NextOnlyLastIsFinal, NextOpenBeforePost,
     NextCourseControl, NextShutdownControl, NextOneCarrier, NextTokens,
     NextRowTellsTheTruth, NextNoSilentLoss
     DEF IInv
<1> QED BY <1>1, InitIInv, PTL DEF Spec

(* Every variable keeps to its range; in particular the queue and the      *)
(* semaphores never hold more than they are made for.                      *)
THEOREM TypeCorrect == Spec => []TypeOK
BY InductiveInvariant, PTL DEF IInv

(* No two goroutines ever work on the same delivery. *)
THEOREM OneCarrierHolds == Spec => []OneCarrier
BY InductiveInvariant, PTL DEF IInv

(* No path through deliver leaks a token or returns one it does not hold. *)
THEOREM TokensMatchHoldersHolds == Spec => []TokensMatchHolders
BY InductiveInvariant, PTL DEF IInv

(* What a row says of its last attempt is what the receiver answered to it. *)
THEOREM RowTellsTheTruthHolds == Spec => []RowTellsTheTruth
BY InductiveInvariant, PTL DEF IInv

(* An accepted job leaves a living process only with a final answer, or by *)
(* the token timeout.                                                      *)
THEOREM NoSilentLossHolds == Spec => []NoSilentLoss
BY InductiveInvariant, PTL DEF IInv

(* A shutdown that did not need its deadline has worked off every job.     *)
THEOREM GracefulDrainHolds == Spec => []GracefulDrain
<1>1. IInv => GracefulDrain
  <2> SUFFICES ASSUME IInv, main \in {"stopClients", "closeDb", "exiting"}, ~expired,
                      NEW d \in Deliveries
               PROVE  ~InFlight(d)
    BY DEF GracefulDrain
  <2>1. \A w \in Workers : wpc[w] = "exited" /\ queue = <<>>
    BY DEF IInv, ShutdownControl
  <2>2. \A w \in Workers : job[w] = NoJob
    BY <2>1 DEF IInv, WorkerControl, WorkerInStep, Carrying, AtToken
  <2>3. queue = <<>>
    BY <2>1, DispatcherAssumption
  <2> QED BY <2>2, <2>3, DispatcherAssumption DEF InFlight, InQueue, Carried
<1> QED BY <1>1, InductiveInvariant, PTL

(* A receiver that has answered for good, or MaxAttempts times, never sees *)
(* the delivery again, whatever restarts come in between.                  *)
THEOREM NoPostAfterFinalHolds == Spec => NoPostAfterFinal
<1>1. IInv /\ [Next]_vars =>
        [\A d \in Deliveries : answers'[d] # answers[d] => ~Final(answers[d])]_vars
  <2> SUFFICES ASSUME IInv, [Next]_vars, NEW d \in Deliveries, answers'[d] # answers[d]
               PROVE  ~Final(answers[d])
    OBVIOUS
  <2>1. PICK w \in Workers : Post(w)
    BY AnswersFrame
  <2>2. /\ d = job[w]
        /\ try[w] \in 1..MaxAttempts
        /\ Len(answers[d]) = try[w] - 1
        /\ answers[d] \in Seq(Codes)
    BY <2>1, PostFacts
  <2>3. \A k \in 1..Len(answers[d]) : Unfinished(answers[d][k])
    BY <2>1, <2>2 DEF IInv, OpenBeforePost, Post
  <2>4. Len(answers[d]) # MaxAttempts
    BY <2>2, DispatcherAssumption
  <2>5. answers[d] # <<>> => Len(answers[d]) \in 1..Len(answers[d])
    BY <2>2
  <2> QED BY <2>3, <2>4, <2>5 DEF Final, Unfinished
<1> QED BY <1>1, InductiveInvariant, PTL DEF Spec, NoPostAfterFinal

(* Every write of a row is a step DeliveryLog allows: only one that awaits *)
(* an attempt is updated, and with a later attempt.                        *)
LEMMA UpdateIsTried ==
  ASSUME IInv, NEW w \in Workers, Update(w), ~UNCHANGED <<status, attempts, code>>
  PROVE  \E d \in Deliveries : \E n \in 1..MaxAttempts, c \in Codes : Log!Tried(d, n, c)
<1> DEFINE d == job[w]
<1> USE DispatcherAssumption DEF IInv
<1>1. /\ d \in Deliveries
      /\ try[w] \in 1..MaxAttempts
      /\ Len(answers[d]) = try[w]
      /\ LastAnswer(d) = answers[d][try[w]]
  BY UpdateFacts
<1>2. /\ RowExists(d)
      /\ attempts' = [attempts EXCEPT ![d] = try[w]]
      /\ code'     = [code EXCEPT ![d] = LastAnswer(d)]
      /\ status'   = [status EXCEPT ![d] = Log!Verdict(try[w], LastAnswer(d))]
  BY SameVerdict DEF Update, UpdateDelivery
<1>3. attempts[d] < try[w] /\ attempts[d] \in 0..MaxAttempts
  BY <1>1 DEF Update, WorkerControl, WorkerInStep, TypeOK
<1>4. LastAnswer(d) \in Codes
  BY <1>1 DEF TypeOK
<1>5. Log!AwaitsAttempt(d)
  <2>1. attempts[d] < MaxAttempts
    BY <1>1, <1>3
  <2>2. CASE attempts[d] = 0
    BY <1>1, <1>2, <2>1, <2>2 DEF RowTellsTheTruth, Log!AwaitsAttempt
  <2>3. CASE attempts[d] > 0
    <3>1. code[d] = answers[d][attempts[d]] /\ status[d] = Log!Verdict(attempts[d], code[d])
      BY <1>1, <1>2, <2>3 DEF RowTellsTheTruth
    <3>2. attempts[d] \in 1..Len(answers[d]) /\ attempts[d] # Len(answers[d])
      BY <1>1, <1>3, <2>3
    <3>3. Unfinished(code[d])
      BY <1>1, <3>1, <3>2 DEF OnlyLastIsFinal
    <3>4. status[d] = "failed" /\ ~Log!Refused(code[d])
      BY <2>1, <1>3, <3>1, <3>3 DEF Log!Verdict, Unfinished
    <3> QED BY <2>1, <3>4 DEF Log!AwaitsAttempt
  <2> QED BY <1>3, <2>2, <2>3
<1>6. Log!Tried(d, try[w], LastAnswer(d))
  BY <1>2, <1>3, <1>5 DEF Log!Tried
<1> QED BY <1>1, <1>4, <1>6

(* The pipeline, whatever it loses, keeps the table to what DeliveryLog    *)
(* promises: rows are created pending, move on only from an answer worth   *)
(* retrying, and vanish only with their instance.                          *)
THEOREM ImplementsDeliveryLog == Spec => LogSpec
<1>1. Init => Log!Init
  BY DEF Init, Log!Init
<1>2. IInv /\ [Next]_vars => [Log!Next]_(Log!rowVars)
  <2> SUFFICES ASSUME IInv, [Next]_vars, ~UNCHANGED <<status, attempts, code>>
               PROVE  Log!Next
    BY DEF Log!rowVars
  <2>1. ASSUME NEW i \in Instances, DeleteInstance(i) PROVE Log!Next
    <3>1. Log!Purge(i)
      BY <2>1 DEF DeleteInstance, RowExists, Log!Purge, IInv, TypeOK
    <3> QED BY <3>1 DEF Log!Next
  <2>2. ASSUME NEW d \in Deliveries, RecordDelivery(d) PROVE Log!Next
    <3>1. status[d] = "none"
      BY <2>2 DEF RecordDelivery, IInv, CourseControl
    <3>2. Log!Create(d)
      BY <2>2, <3>1 DEF RecordDelivery, Log!Create
    <3> QED BY <3>2 DEF Log!Next
  <2>3. ASSUME NEW w \in Workers, Post(w) PROVE FALSE
    BY <2>3 DEF Post, db
  <2>4. ASSUME NEW w \in Workers, Update(w) PROVE Log!Next
    BY <2>4, UpdateIsTried DEF Log!Next
  <2> QED BY <2>1, <2>2, <2>3, <2>4, RowFrame
<1> QED BY <1>1, <1>2, InductiveInvariant, PTL DEF Spec, LogSpec, Log!Spec

(* One step of the table, whoever makes it. *)
LEMMA LogStep ==
  ASSUME Log!Next, attempts \in [Deliveries -> 0..MaxAttempts],
         status \in [Deliveries -> {"none", "pending", "succeeded", "failed", "dead", "gone"}],
         code \in [Deliveries -> Codes \cup {0}],
         NEW d \in Deliveries
  PROVE  /\ attempts'[d] >= attempts[d]
         /\ code'[d] # code[d] => attempts'[d] > attempts[d]
         /\ attempts'[d] = attempts[d] /\ status[d] # "none" => status'[d] \in {status[d], "gone"}
         /\ status[d] \in {"succeeded", "dead"} => attempts'[d] = attempts[d]
         /\ status[d] = "gone" => status'[d] = "gone"
<1> USE DispatcherAssumption
<1>1. ASSUME NEW e \in Deliveries, Log!Create(e)
      PROVE  /\ attempts' = attempts
             /\ code' = code
             /\ status[d] # "none" => status'[d] = status[d]
  BY <1>1 DEF Log!Create
<1>2. ASSUME NEW i \in Instances, Log!Purge(i)
      PROVE  /\ attempts' = attempts
             /\ code' = code
             /\ status'[d] \in {status[d], "gone"}
  BY <1>2 DEF Log!Purge
<1>3. ASSUME NEW e \in Deliveries, NEW n \in 1..MaxAttempts, NEW c \in Codes, Log!Tried(e, n, c)
      PROVE  \/ UNCHANGED <<attempts[d], code[d], status[d]>>
             \/ /\ attempts'[d] \in Nat /\ attempts'[d] > attempts[d]
                /\ status[d] \in {"pending", "failed"}
  <2>1. CASE d = e
    BY <1>3, <2>1 DEF Log!Tried, Log!AwaitsAttempt
  <2>2. CASE d # e
    BY <1>3, <2>2 DEF Log!Tried
  <2> QED BY <2>1, <2>2
<1>4. attempts[d] \in Nat
  OBVIOUS
<1>5. CASE \E e \in Deliveries : Log!Create(e)
  BY <1>1, <1>4, <1>5
<1>6. CASE \E i \in Instances : Log!Purge(i)
  BY <1>2, <1>4, <1>6
<1>7. CASE \E e \in Deliveries, n \in 1..MaxAttempts, c \in Codes : Log!Tried(e, n, c)
  BY <1>3, <1>4, <1>7
<1> QED BY <1>5, <1>6, <1>7 DEF Log!Next

(* A reader of the table never sees a delivery go back.  The promise is    *)
(* kept by every step DeliveryLog allows, and the pipeline takes no other. *)
THEOREM RowsOnlyMoveOnHolds == Spec => Log!RowsOnlyMoveOn
<1>1. IInv /\ [Log!Next]_(Log!rowVars) =>
        [\A d \in Deliveries :
           /\ attempts'[d] >= attempts[d]
           /\ code'[d] # code[d] => attempts'[d] > attempts[d]
           /\ attempts'[d] = attempts[d] /\ status[d] # "none" =>
                status'[d] \in {status[d], "gone"}
           /\ status[d] \in {"succeeded", "dead"} => attempts'[d] = attempts[d]
           /\ status[d] = "gone" => status'[d] = "gone"]_(Log!rowVars)
  BY LogStep DEF IInv, TypeOK, Log!rowVars
<1> QED BY <1>1, InductiveInvariant, ImplementsDeliveryLog, PTL
        DEF LogSpec, Log!Spec, Log!RowsOnlyMoveOn

(* A delivery is POSTed at most MaxAttempts times over all the lives of    *)
(* the process.                                                            *)
THEOREM AtMostMaxAttemptsHolds == Spec => []AtMostMaxAttempts
<1>1. IInv => AtMostMaxAttempts
  BY DEF IInv, OnlyLastIsFinal, AtMostMaxAttempts
<1> QED BY <1>1, InductiveInvariant, PTL

(* Nothing was POSTed of what has left the pipeline unsent. *)
Unsent(d) == course[d] \in {"skipped", "dropped", "panicked"}

UnsentUnanswered == \A d \in Deliveries : Unsent(d) => answers[d] = <<>>

LEMMA NextUnsentUnanswered ==
  ASSUME IInv, UnsentUnanswered, [Next]_vars
  PROVE  UnsentUnanswered'
<1> USE DispatcherAssumption DEF IInv, Unsent
<1> SUFFICES ASSUME NEW d \in Deliveries, Unsent(d)' PROVE answers'[d] = <<>>
  BY DEF UnsentUnanswered
<1>0. /\ Unsent(d) => answers[d] = <<>>
      /\ course[d] \in InCallback \cup {"idle"} => answers[d] = <<>>
      /\ course \in [Deliveries -> Courses]
  BY DEF UnsentUnanswered, CourseControl, TypeOK
<1>1. CASE Outside
  <2>1. answers' = answers
    BY <1>1, OutsideFrame
  <2>2. Unsent(d) \/ course[d] \in InCallback \cup {"idle"}
    BY <1>0, <1>1 DEF Outside, SetWebhook, DeleteInstance, RecordDelivery, LoadWebhook, Signal,
                DeadlinePasses, Jam, HttpStopped, Drained, StopAll, CloseDb, Advance, InCallback
  <2> QED BY <1>0, <2>1, <2>2
<1>2. ASSUME NEW e \in Deliveries, Offer(e) PROVE answers'[d] = <<>>
  <2>1. answers' = answers /\ (Unsent(d) \/ course[d] \in InCallback \cup {"idle"})
    BY <1>0, <1>2 DEF Offer, InCallback, workers
  <2> QED BY <1>0, <2>1
<1>3. ASSUME NEW w \in Workers, GiveUp(w) PROVE answers'[d] = <<>>
  <2>1. answers[job[w]] = <<>> /\ answers' = answers
    BY <1>3 DEF GiveUp, WorkerControl, WorkerInStep
  <2>2. Unsent(d) \/ d = job[w]
    BY <1>0, <1>3 DEF GiveUp
  <2> QED BY <1>0, <2>1, <2>2
<1>4. ASSUME NEW w \in Workers, Post(w) PROVE answers'[d] = <<>>
  <2>1. course' = course /\ job[w] \in Deliveries /\ (d # job[w] => answers'[d] = answers[d])
    BY <1>4, PostFacts
  <2>2. course[job[w]] = "queued"
    BY <2>1, DispatcherAssumption DEF CourseControl, InFlight, Carried
  <2> QED BY <1>0, <2>1, <2>2
<1>5. ASSUME NEW w \in Workers, Worker(w), ~GiveUp(w), ~Post(w)
      PROVE  course' = course /\ answers' = answers
  BY <1>5 DEF Worker, Take, Leave, Acquire, Update, Wake, Release, db
<1>6. CASE ProcessEnds
  BY <1>0, <1>6 DEF ProcessEnds
<1>7. CASE Boot \/ UNCHANGED vars
  BY <1>0, <1>7 DEF Boot, vars
<1> QED BY <1>0, <1>1, <1>2, <1>3, <1>4, <1>5, <1>6, <1>7, NextSplit

(* What was dropped was not sent, and its row never says anything else.    *)
THEOREM DroppedUntouchedHolds == Spec => []DroppedUntouched
<1>1. Init => UnsentUnanswered
  BY DEF Init, UnsentUnanswered
<1>2. IInv /\ UnsentUnanswered => DroppedUntouched
  <2> SUFFICES ASSUME IInv, UnsentUnanswered, NEW d \in Deliveries, Unsent(d)
               PROVE  /\ answers[d] = <<>> /\ attempts[d] = 0
                      /\ RowExists(d) => status[d] = "pending"
    BY DEF DroppedUntouched, Unsent
  <2>1. answers[d] = <<>>
    BY DEF UnsentUnanswered
  <2>2. attempts[d] \in Nat /\ (attempts[d] > 0 => attempts[d] <= Len(answers[d]))
    BY DispatcherAssumption DEF IInv, TypeOK, RowTellsTheTruth
  <2>3. attempts[d] = 0
    BY <2>1, <2>2
  <2> QED BY <2>1, <2>3 DEF IInv, RowTellsTheTruth
<1>3. IInv /\ UnsentUnanswered /\ [Next]_vars => UnsentUnanswered'
  BY NextUnsentUnanswered
<1> QED BY <1>1, <1>2, <1>3, InductiveInvariant, PTL DEF Spec

(* The steps a worker takes on one job, and what they do to its counter. *)
LEMMA JobStep ==
  ASSUME IInv, [Next]_vars, NEW w \in Workers, job[w] # NoJob, job'[w] = job[w]
  PROVE  \/ UNCHANGED <<wpc[w], try[w]>>
         \/ wpc[w] = "sem" /\ wpc'[w] = "post" /\ try'[w] = 1
         \/ wpc[w] = "post" /\ wpc'[w] = "update" /\ try'[w] = try[w]
         \/ wpc[w] = "update" /\ wpc'[w] \in {"sleep", "release"} /\ try'[w] = try[w]
         \/ wpc[w] = "sleep" /\ wpc'[w] = "post" /\ try'[w] = try[w] + 1
<1> USE DispatcherAssumption DEF IInv
<1>0. /\ wpc[w] \in Carrying
      /\ wpc \in [Workers -> Carrying \cup {"idle", "exited", "down"}]
      /\ try \in [Workers -> 0..MaxAttempts]
      /\ job \in [Workers -> Deliveries \cup {NoJob}]
  BY DEF TypeOK, WorkerControl, WorkerInStep
<1>1. CASE Outside
  BY <1>1, OutsideFrame
<1>2. ASSUME NEW d \in Deliveries, Offer(d) PROVE UNCHANGED <<wpc[w], try[w]>>
  BY <1>2 DEF Offer, workers
<1>3. ASSUME NEW v \in Workers, v # w, Worker(v) PROVE UNCHANGED <<wpc[w], try[w]>>
  BY <1>0, <1>3 DEF Worker, Take, Leave, Acquire, GiveUp, Post, Update, Wake, Release, Goto
<1>4. CASE Take(w) \/ Leave(w)
  BY <1>0, <1>4 DEF Take, Leave, Carrying, AtToken
<1>5. CASE GiveUp(w) \/ Release(w)
  BY <1>0, <1>5 DEF GiveUp, Release
<1>6. CASE Acquire(w)
  BY <1>0, <1>6 DEF Acquire, Goto
<1>7. CASE Post(w)
  BY <1>0, <1>7 DEF Post, Goto
<1>8. CASE Update(w)
  BY <1>0, <1>8 DEF Update, Goto, AfterAttempt
<1>9. CASE Wake(w)
  BY <1>0, <1>9 DEF Wake, Goto
<1>10. CASE ProcessEnds
  BY <1>0, <1>10 DEF ProcessEnds
<1>11. CASE Boot
  BY <1>0, <1>11 DEF Boot, ShutdownControl, Carrying, AtToken
<1>12. CASE UNCHANGED vars
  BY <1>12 DEF vars
<1> QED BY <1>1, <1>2, <1>3, <1>4, <1>5, <1>6, <1>7, <1>8, <1>9, <1>10, <1>11, <1>12,
           NextSplit DEF Worker

(* The loop variant of deliver: it stays a natural number and every step   *)
(* on a job lowers it, so that no job is worked on for more than           *)
(* 3 * MaxAttempts + 1 steps.  Together with fairness, which is not        *)
(* reasoned about here, this is why EveryJobEnds.                          *)
THEOREM JobsRunDownHolds ==
  Spec => JobsRunDown /\ [](\A w \in Workers : Remaining(w) \in 0..(3 * MaxAttempts + 1))
<1> USE DispatcherAssumption
<1>1. ASSUME IInv, NEW w \in Workers
      PROVE  /\ wpc[w] \in AtToken => try[w] \in 1..MaxAttempts
             /\ wpc[w] = "sleep" => try[w] < MaxAttempts
             /\ job[w] # NoJob => wpc[w] \in Carrying
  BY <1>1 DEF IInv, WorkerControl, WorkerInStep
<1>2. ASSUME IInv, NEW w \in Workers
      PROVE  Remaining(w) \in 0..(3 * MaxAttempts + 1)
  BY <1>1, <1>2 DEF Remaining, AtToken
<1>3. ASSUME IInv, [Next]_vars, NEW w \in Workers, job[w] # NoJob, job'[w] = job[w],
             ~UNCHANGED <<wpc[w], try[w]>>
      PROVE  Remaining(w)' \in 0..(Remaining(w) - 1)
  <2> USE <1>1, <1>3 DEF Remaining, AtToken
  <2>1. CASE wpc[w] = "sem" /\ wpc'[w] = "post" /\ try'[w] = 1
    BY <2>1
  <2>2. CASE wpc[w] = "post" /\ wpc'[w] = "update" /\ try'[w] = try[w]
    BY <2>2
  <2>3. CASE wpc[w] = "update" /\ wpc'[w] \in {"sleep", "release"} /\ try'[w] = try[w]
    BY <2>3
  <2>4. CASE wpc[w] = "sleep" /\ wpc'[w] = "post" /\ try'[w] = try[w] + 1
    BY <2>4
  <2> QED BY <2>1, <2>2, <2>3, <2>4, JobStep
<1>4. IInv => \A w \in Workers : Remaining(w) \in 0..(3 * MaxAttempts + 1)
  BY <1>2
<1>5. IInv /\ [Next]_vars =>
        [\A w \in Workers : job[w] # NoJob /\ job'[w] = job[w] =>
           \/ UNCHANGED <<wpc[w], try[w]>>
           \/ Remaining(w)' \in 0..(Remaining(w) - 1)]_vars
  BY <1>3
<1> QED BY <1>4, <1>5, InductiveInvariant, PTL DEF Spec, JobsRunDown

=============================================================================
