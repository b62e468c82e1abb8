------------------------- MODULE WebhookDispatcher -------------------------
(***************************************************************************)
(* The webhook pipeline of internal/webhook/dispatcher.go together with    *)
(* the event callback that feeds it and the shutdown sequence that stops   *)
(* it (both in cmd/slimwhats/main.go).                                     *)
(*                                                                         *)
(* Every event is one delivery.  Its callback runs on a whatsmeow          *)
(* goroutine and takes three separately scheduled steps: insert the row    *)
(* (RecordDelivery), read the webhook of the instance (the first half of   *)
(* Enqueue) and offer the job to the bounded channel (the second half).    *)
(* Workers take jobs, wait for one of the PerInstance tokens, and run the  *)
(* retry loop: POST, write the row, sleep, POST again.  The main goroutine *)
(* shuts all of it down under one deadline; the process may also die at    *)
(* any point and be started again over the same database.                  *)
(***************************************************************************)
EXTENDS Naturals, Sequences, FiniteSets

CONSTANTS
  Deliveries,   \* one per event whatsmeow hands to the callback
  Instances,
  InstanceOf,   \* the instance each event belongs to
  Workers,
  Codes,        \* answers of the receiver; 0 is an error or a timeout
  QueueSize, MaxAttempts, PerInstance,   \* webhook.Config
  NoJob

ASSUME DispatcherAssumption ==
  /\ InstanceOf \in [Deliveries -> Instances]
  /\ Codes \subseteq Nat
  /\ IsFiniteSet(Workers) /\ Workers # {}
  /\ QueueSize \in Nat \ {0}
  /\ MaxAttempts \in Nat \ {0}
  /\ PerInstance \in Nat \ {0}
  /\ NoJob \notin Deliveries

VARIABLES
  instances,    \* ids that have a row in the instances table
  hooked,       \* instances whose webhook_url is not empty
  status, attempts, code,   \* the webhook_deliveries row of each delivery
  course,       \* how far each delivery came: through its callback, into the
                \* queue, or out of the pipeline
  queue,        \* Dispatcher.ch
  tokens,       \* Dispatcher.sem: tokens taken, per instance
  wpc, job, try,            \* each worker: control point, its job, its loop counter
  main,         \* how far main has come with the shutdown sequence
  expired,      \* shutdownCtx is past its deadline
  managerMu,    \* Manager.mu as StopAll finds it: "free", "stuck" for ever, or
                \* "quiet", no event stream being left to make it stuck
  answers       \* history: the codes the receiver answered each delivery with

db      == <<instances, hooked, status, attempts, code>>
workers == <<tokens, wpc, job, try, answers>>
vars == <<instances, hooked, status, attempts, code, course, queue, tokens, wpc, job, try,
          main, expired, managerMu, answers>>

-----------------------------------------------------------------------------
(* Control points.                                                         *)
InCallback == {"recorded", "loaded"}
Courses    == InCallback \cup {"idle", "queued", "skipped", "dropped", "panicked", "lost"}
AtToken    == {"post", "update", "sleep", "release"}  \* between the two ends of sem
Carrying   == {"sem"} \cup AtToken
MainPoints == {"running", "http", "drain", "stopClients", "closeDb", "exiting", "exited"}

Alive         == main # "exited"
DbOpen        == main \notin {"exiting", "exited"}
ChannelClosed == main \in {"drain", "stopClients", "closeDb", "exiting"}

RowExists(d) == status[d] \notin {"none", "gone"}

InQueue(d) == \E k \in 1..Len(queue) : queue[k] = d
Carried(d) == \E w \in Workers : job[w] = d
InFlight(d) == InQueue(d) \/ Carried(d)

Init ==
  /\ instances = Instances
  /\ hooked \in SUBSET Instances
  /\ status   = [d \in Deliveries |-> "none"]
  /\ attempts = [d \in Deliveries |-> 0]
  /\ code     = [d \in Deliveries |-> 0]
  /\ course       = [d \in Deliveries |-> "idle"]
  /\ queue    = <<>>
  /\ tokens   = [i \in Instances |-> 0]
  /\ wpc      = [w \in Workers |-> "idle"]
  /\ job      = [w \in Workers |-> NoJob]
  /\ try      = [w \in Workers |-> 0]
  /\ main     = "running"
  /\ expired  = FALSE
  /\ managerMu = "free"
  /\ answers  = [d \in Deliveries |-> <<>>]

-----------------------------------------------------------------------------
(* The rest of the service, as far as the pipeline can see it.             *)

SetWebhook(i) ==
  /\ DbOpen
  /\ i \in instances
  /\ hooked' = IF i \in hooked THEN hooked \ {i} ELSE hooked \cup {i}
  /\ UNCHANGED <<instances, status, attempts, code, course, queue, workers, main, expired, managerMu>>

(* Store.Delete: ON DELETE CASCADE takes the deliveries along. *)
DeleteInstance(i) ==
  /\ DbOpen
  /\ i \in instances
  /\ instances' = instances \ {i}
  /\ status' = [d \in Deliveries |->
                  IF InstanceOf[d] = i /\ RowExists(d) THEN "gone" ELSE status[d]]
  /\ UNCHANGED <<hooked, attempts, code, course, queue, workers, main, expired, managerMu>>

-----------------------------------------------------------------------------
(* The event callback.                                                     *)

(* Any statement may fail; the INSERT does without a parent row, and once  *)
(* the database is closed.  The callback then returns.                     *)
RecordDelivery(d) ==
  /\ Alive
  /\ course[d] = "idle"
  /\ \/ /\ DbOpen
        /\ InstanceOf[d] \in instances
        /\ status' = [status EXCEPT ![d] = "pending"]
        /\ course' = [course EXCEPT ![d] = "recorded"]
     \/ /\ course' = [course EXCEPT ![d] = "skipped"]
        /\ UNCHANGED status
  /\ UNCHANGED <<instances, hooked, attempts, code, queue, workers, main, expired, managerMu>>

(* Enqueue, up to the select: the job will carry the URL and the secret    *)
(* read here, whatever happens to the webhook afterwards.                  *)
LoadWebhook(d) ==
  /\ course[d] = "recorded"
  /\ \/ /\ DbOpen
        /\ InstanceOf[d] \in instances \cap hooked
        /\ course' = [course EXCEPT ![d] = "loaded"]
     \/ course' = [course EXCEPT ![d] = "skipped"]
  /\ UNCHANGED <<db, queue, workers, main, expired, managerMu>>

(* Seeded fault: a full queue is not a reason to drop. *)
OfferUnbounded(d) ==
  /\ course[d] = "loaded"
  /\ queue' = Append(queue, d)
  /\ course' = [course EXCEPT ![d] = "queued"]
  /\ UNCHANGED <<db, workers, main, expired, managerMu>>

(* Enqueue's select.  A send on the closed channel panics; whatsmeow       *)
(* recovers the panic of a handler, so only this callback ends.            *)
Offer(d) ==
  /\ course[d] = "loaded"
  /\ \/ /\ ChannelClosed
        /\ course' = [course EXCEPT ![d] = "panicked"]
        /\ UNCHANGED queue
     \/ /\ ~ChannelClosed
        /\ Len(queue) < QueueSize
        /\ queue' = Append(queue, d)
        /\ course' = [course EXCEPT ![d] = "queued"]
     \/ /\ ~ChannelClosed
        /\ Len(queue) = QueueSize
        /\ course' = [course EXCEPT ![d] = "dropped"]
        /\ UNCHANGED queue
  /\ UNCHANGED <<db, workers, main, expired, managerMu>>

Callback(d) == RecordDelivery(d) \/ LoadWebhook(d) \/ Offer(d)

-----------------------------------------------------------------------------
(* A worker.                                                               *)

Holder(w) == InstanceOf[job[w]]

Goto(w, there) == wpc' = [wpc EXCEPT ![w] = there]

(* Seeded fault: the job stays at the head of the channel. *)
TakePeeks(w) ==
  /\ wpc[w] = "idle"
  /\ queue # <<>>
  /\ job' = [job EXCEPT ![w] = Head(queue)]
  /\ Goto(w, "sem")
  /\ UNCHANGED <<db, course, queue, tokens, try, main, expired, managerMu, answers>>

Take(w) ==
  /\ wpc[w] = "idle"
  /\ queue # <<>>
  /\ job' = [job EXCEPT ![w] = Head(queue)]
  /\ queue' = Tail(queue)
  /\ Goto(w, "sem")
  /\ UNCHANGED <<db, course, tokens, try, main, expired, managerMu, answers>>

(* range over a channel that is closed and drained ends. *)
Leave(w) ==
  /\ wpc[w] = "idle"
  /\ queue = <<>>
  /\ ChannelClosed
  /\ Goto(w, "exited")
  /\ UNCHANGED <<db, course, queue, tokens, job, try, main, expired, managerMu, answers>>

Acquire(w) ==
  /\ wpc[w] = "sem"
  /\ tokens[Holder(w)] < PerInstance
  /\ tokens' = [tokens EXCEPT ![Holder(w)] = @ + 1]
  /\ try' = [try EXCEPT ![w] = 1]
  /\ Goto(w, "post")
  /\ UNCHANGED <<db, course, queue, job, main, expired, managerMu, answers>>

(* Seeded fault: the deferred release is registered before the select. *)
GiveUpReleases(w) ==
  /\ wpc[w] = "sem"
  /\ tokens[Holder(w)] = PerInstance
  /\ tokens' = [tokens EXCEPT ![Holder(w)] = @ - 1]
  /\ course' = [course EXCEPT ![job[w]] = "dropped"]
  /\ job' = [job EXCEPT ![w] = NoJob]
  /\ Goto(w, "idle")
  /\ UNCHANGED <<db, queue, try, main, expired, managerMu, answers>>

(* Five seconds without a token: the job is dropped, its row stays pending. *)
GiveUp(w) ==
  /\ wpc[w] = "sem"
  /\ tokens[Holder(w)] = PerInstance
  /\ course' = [course EXCEPT ![job[w]] = "dropped"]
  /\ job' = [job EXCEPT ![w] = NoJob]
  /\ Goto(w, "idle")
  /\ UNCHANGED <<db, queue, tokens, try, main, expired, managerMu, answers>>

(* One POST and what became of it. *)
Post(w) ==
  /\ wpc[w] = "post"
  /\ \E c \in Codes : answers' = [answers EXCEPT ![job[w]] = Append(@, c)]
  /\ Goto(w, "update")
  /\ UNCHANGED <<db, course, queue, tokens, job, try, main, expired, managerMu>>

LastAnswer(d) == answers[d][Len(answers[d])]

IsSuccess(c)          == c \in 200..299
IsPermanentFailure(c) == c \in 400..499 /\ c # 408 /\ c # 429

(* Seeded fault: dead is decided on the answer and not on the counter. *)
RowStatusByCode(n, c) ==
  IF IsSuccess(c) THEN "succeeded" ELSE IF IsPermanentFailure(c) THEN "dead" ELSE "failed"

RowStatus(n, c) ==
  IF IsSuccess(c) THEN "succeeded" ELSE IF n = MaxAttempts THEN "dead" ELSE "failed"

(* updateDelivery drops the error of its UPDATE: a row that is gone, a     *)
(* closed database or a failed write all leave the table as it was.        *)
UpdateDelivery(d, n, c) ==
  \/ /\ DbOpen
     /\ RowExists(d)
     /\ attempts' = [attempts EXCEPT ![d] = n]
     /\ code'     = [code EXCEPT ![d] = c]
     /\ status'   = [status EXCEPT ![d] = RowStatus(n, c)]
  \/ UNCHANGED <<status, attempts, code>>

(* Seeded fault: a refusal is slept off and tried again. *)
AfterAttemptRetriesRefusals(n, c) ==
  IF IsSuccess(c) \/ n = MaxAttempts THEN "release" ELSE "sleep"

(* Seeded fault: the last attempt is never made. *)
AfterAttemptOneShort(n, c) ==
  IF IsSuccess(c) \/ IsPermanentFailure(c) \/ n + 1 >= MaxAttempts
  THEN "release" ELSE "sleep"

(* The three returns of the retry loop, or one more round. *)
AfterAttempt(n, c) ==
  IF IsSuccess(c) \/ IsPermanentFailure(c) \/ n = MaxAttempts THEN "release" ELSE "sleep"

(* Seeded fault: the write is repeated until it has changed a row. *)
UpdateInsists(w) ==
  /\ wpc[w] = "update"
  /\ UpdateDelivery(job[w], try[w], LastAnswer(job[w]))
  /\ Goto(w, IF RowExists(job[w]) THEN AfterAttempt(try[w], LastAnswer(job[w]))
                                  ELSE "update")
  /\ UNCHANGED <<instances, hooked, course, queue, tokens, job, try, main, expired, managerMu, answers>>

Update(w) ==
  /\ wpc[w] = "update"
  /\ UpdateDelivery(job[w], try[w], LastAnswer(job[w]))
  /\ Goto(w, AfterAttempt(try[w], LastAnswer(job[w])))
  /\ UNCHANGED <<instances, hooked, course, queue, tokens, job, try, main, expired, managerMu, answers>>

(* The backoff is slept through with the token and the worker kept. *)
Wake(w) ==
  /\ wpc[w] = "sleep"
  /\ try' = [try EXCEPT ![w] = @ + 1]
  /\ Goto(w, "post")
  /\ UNCHANGED <<db, course, queue, tokens, job, main, expired, managerMu, answers>>

(* The deferred receive from sem, and deliver has returned. *)
Release(w) ==
  /\ wpc[w] = "release"
  /\ tokens' = [tokens EXCEPT ![Holder(w)] = @ - 1]
  /\ job' = [job EXCEPT ![w] = NoJob]
  /\ try' = [try EXCEPT ![w] = 0]
  /\ Goto(w, "idle")
  /\ UNCHANGED <<db, course, queue, main, expired, managerMu, answers>>

Worker(w) ==
  Take(w) \/ Leave(w) \/ Acquire(w) \/ GiveUp(w) \/ Post(w) \/ Update(w) \/ Wake(w) \/ Release(w)

-----------------------------------------------------------------------------
(* main after the signal.                                                  *)

Advance(from, to) ==
  /\ main = from
  /\ main' = to
  /\ UNCHANGED <<db, course, queue, workers>>

Signal == Advance("running", "http") /\ UNCHANGED <<expired, managerMu>>

(* An event stream inside AddEventHandler, or its cancel function, and an  *)
(* event callback wait for each other, and Manager.mu is not released any  *)
(* more (Cycle of ManagerLocks).  That may happen at any time before; here *)
(* StopAll is the first to want the lock, so this is when it shows.        *)
Jam ==
  /\ main = "stopClients"
  /\ managerMu = "free"
  /\ managerMu' = "stuck"
  /\ UNCHANGED <<db, course, queue, workers, main, expired>>

(* Seeded fault: the deadline bounds the drain of the dispatcher only. *)
DeadlinePassesInDrain ==
  /\ main = "drain"
  /\ ~expired
  /\ expired' = TRUE
  /\ UNCHANGED <<db, course, queue, workers, main, managerMu>>

DeadlinePasses ==
  /\ main \in {"http", "drain"}
  /\ ~expired
  /\ expired' = TRUE
  /\ UNCHANGED <<db, course, queue, workers, main, managerMu>>

(* srv.Shutdown returns once every request is over, which an open event    *)
(* stream puts off for as long as it likes, and one that hangs in Jam for  *)
(* ever, or at the deadline.  Then Dispatcher.Shutdown closes the channel. *)
HttpStopped ==
  /\ \/ managerMu' = "quiet"
     \/ expired /\ UNCHANGED managerMu
  /\ Advance("http", "drain")
  /\ UNCHANGED expired

(* Seeded fault: Shutdown does not wait for the worker group. *)
DrainedUnwaited == Advance("drain", "stopClients") /\ UNCHANGED <<expired, managerMu>>

Drained ==
  /\ \/ \A w \in Workers : wpc[w] = "exited"
     \/ expired
  /\ Advance("drain", "stopClients")
  /\ UNCHANGED <<expired, managerMu>>

(* Manager.All, for the log, and StopAll lock Manager.mu.  No deadline     *)
(* bounds this step.                                                       *)
StopAll ==
  /\ managerMu # "stuck"
  /\ Advance("stopClients", "closeDb")
  /\ UNCHANGED <<expired, managerMu>>

CloseDb == Advance("closeDb", "exiting") /\ UNCHANGED <<expired, managerMu>>

(* The process is gone, by returning from main or otherwise: whatever was  *)
(* in memory is too.                                                       *)
ProcessEnds ==
  /\ Alive
  /\ main'    = "exited"
  /\ course'  = [d \in Deliveries |-> IF course[d] \in InCallback \/ InFlight(d)
                                     THEN "lost" ELSE course[d]]
  /\ queue'   = <<>>
  /\ tokens'  = [i \in Instances |-> 0]
  /\ wpc'     = [w \in Workers |-> "down"]
  /\ job'     = [w \in Workers |-> NoJob]
  /\ try'     = [w \in Workers |-> 0]
  /\ expired' = FALSE
  /\ managerMu' = "free"
  /\ UNCHANGED <<db, answers>>

Exit  == main = "exiting" /\ ProcessEnds
Crash == main # "exiting" /\ ProcessEnds

(* A new process starts its workers on an empty queue.  Nothing looks for  *)
(* rows that the last one left pending.                                    *)
Boot ==
  /\ main = "exited"
  /\ main' = "running"
  /\ wpc'  = [w \in Workers |-> "idle"]
  /\ UNCHANGED <<db, course, queue, tokens, job, try, expired, managerMu, answers>>

Main == HttpStopped \/ Drained \/ StopAll \/ CloseDb \/ Exit

-----------------------------------------------------------------------------
Next ==
  \/ \E i \in Instances : SetWebhook(i) \/ DeleteInstance(i)
  \/ \E d \in Deliveries : Callback(d)
  \/ \E w \in Workers : Worker(w)
  \/ Signal \/ DeadlinePasses \/ Jam \/ Main \/ Crash \/ Boot

Spec == Init /\ [][Next]_vars

(* The Go scheduler runs every runnable goroutine, HTTP attempts and       *)
(* sleeps are bounded by timers, and so is the shutdown context.  Nothing  *)
(* obliges clients to close their requests: HttpStopped is only fair once  *)
(* the deadline is over.                                                   *)
Fairness ==
  /\ \A w \in Workers : WF_vars(Worker(w))
  /\ \A d \in Deliveries : WF_vars(LoadWebhook(d) \/ Offer(d))
  /\ WF_vars(DeadlinePasses)
  /\ WF_vars(expired /\ HttpStopped)
  /\ WF_vars(Drained \/ StopAll \/ CloseDb \/ Exit)

FairSpec == Spec /\ Fairness

-----------------------------------------------------------------------------
(* Properties.                                                             *)

(* Every variable keeps to its range: no more jobs than QueueSize wait and *)
(* no more tokens than PerInstance are out for one instance.               *)
TypeOK ==
  /\ instances \subseteq Instances
  /\ hooked \subseteq Instances
  /\ status \in [Deliveries -> {"none", "pending", "succeeded", "failed", "dead", "gone"}]
  /\ attempts \in [Deliveries -> 0..MaxAttempts]
  /\ code \in [Deliveries -> Codes \cup {0}]
  /\ course \in [Deliveries -> Courses]
  /\ queue \in Seq(Deliveries)
  /\ Len(queue) <= QueueSize
  /\ tokens \in [Instances -> 0..PerInstance]
  /\ wpc \in [Workers -> Carrying \cup {"idle", "exited", "down"}]
  /\ job \in [Workers -> Deliveries \cup {NoJob}]
  /\ try \in [Workers -> 0..MaxAttempts]
  /\ main \in MainPoints
  /\ expired \in BOOLEAN
  /\ managerMu \in {"free", "stuck", "quiet"}
  /\ answers \in [Deliveries -> Seq(Codes)]

(* Two goroutines never work on one delivery: a job is in the queue once   *)
(* or with one worker, so the retry loops of a delivery cannot overlap     *)
(* (Enqueue, worker and deliver hand the job on, they never copy it).      *)
OneCarrier ==
  /\ \A k, l \in 1..Len(queue) : queue[k] = queue[l] => k = l
  /\ \A w \in Workers : job[w] # NoJob => ~InQueue(job[w])
  /\ \A v, w \in Workers : job[v] = job[w] /\ job[v] # NoJob => v = w

(* The semaphore of an instance counts the workers between its two ends:   *)
(* no path through deliver leaks a token or returns one it does not hold.  *)
TokensMatchHolders ==
  \A i \in Instances :
    tokens[i] = Cardinality({w \in Workers : wpc[w] \in AtToken /\ Holder(w) = i})

(* A row speaks of an attempt that was made: its last_status_code is what  *)
(* the receiver answered to attempt number "attempts", and its status      *)
(* follows from the two (updateDelivery), however many later writes were   *)
(* lost to a failure, a crash or the closed database.                      *)
Log == INSTANCE DeliveryLog

RowTellsTheTruth ==
  \A d \in Deliveries :
    /\ attempts[d] = 0 /\ RowExists(d) => status[d] = "pending"
    /\ attempts[d] > 0 =>
         /\ attempts[d] <= Len(answers[d])
         /\ code[d] = answers[d][attempts[d]]
         /\ RowExists(d) => status[d] = Log!Verdict(attempts[d], code[d])

(* The receiver has said its last word on a delivery. *)
Final(ans) ==
  \/ Len(ans) = MaxAttempts
  \/ ans # <<>> /\ (Log!Accepted(ans[Len(ans)]) \/ Log!Refused(ans[Len(ans)]))

(* An accepted job leaves the pipeline of a living process only with a     *)
(* final answer; the other ways out (webhook gone, queue full, token       *)
(* timeout, panic, end of the process) are the ones "course" names.        *)
NoSilentLoss ==
  \A d \in Deliveries : course[d] = "queued" /\ ~InFlight(d) => Final(answers[d])

(* The receiver never sees a delivery again after a final answer, not even *)
(* after a restart (the returns of the retry loop).                        *)
NoPostAfterFinal == [][\A d \in Deliveries : answers'[d] # answers[d] => ~Final(answers[d])]_vars

(* When the deadline was not needed, the clients are stopped and the       *)
(* database is closed only after every accepted job was worked off         *)
(* (Dispatcher.Shutdown, and the order of the steps in main).              *)
GracefulDrain ==
  main \in {"stopClients", "closeDb", "exiting"} /\ ~expired =>
    \A d \in Deliveries : ~InFlight(d)

(* The table behaves as DeliveryLog says. *)
LogSpec == Log!Spec

(* A job does not stay in the pipeline for ever (the token timeout, the    *)
(* client timeout and the bounded retry loop).                             *)
EveryJobEnds == \A d \in Deliveries : InFlight(d) ~> ~InFlight(d)

(* The shutdown gets through the HTTP server and the dispatcher, whatever  *)
(* requests, streams, receivers and tokens do, and from there to its end,  *)
(* but for one case: streams outlived the deadline and Manager.mu is stuck.*)
(* (cmd/slimwhats/main.go:280-314; its line 281 means to bound the total   *)
(* time, but StopAll waits for that lock with no deadline.)                *)
ShutdownEnds ==
  main = "http" ~> \/ main = "exited"
                   \/ main = "stopClients" /\ managerMu = "stuck"

(* No receiver is POSTed a delivery more than MaxAttempts times in all its *)
(* life: a restart does not start the count again, because nothing of a    *)
(* job outlives the process (the retry loop, and the absence of a reload). *)
AtMostMaxAttempts == \A d \in Deliveries : Len(answers[d]) <= MaxAttempts

(* A delivery that Enqueue or a worker let go unsent was never POSTed, and *)
(* its row says so for good: pending, with no attempt.  Whoever reads the  *)
(* table can tell it from one that failed (the early returns of Enqueue,   *)
(* its full queue, and the token timeout of deliver).                      *)
DroppedUntouched ==
  \A d \in Deliveries : course[d] \in {"skipped", "dropped", "panicked"} =>
    /\ answers[d] = <<>> /\ attempts[d] = 0
    /\ RowExists(d) => status[d] = "pending"

(* What worker w has before it at most, in steps, until its job is over.   *)
Remaining(w) ==
  CASE wpc[w] = "sem"     -> 3 * MaxAttempts + 1
    [] wpc[w] = "post"    -> 3 * (MaxAttempts - try[w]) + 3
    [] wpc[w] = "update"  -> 3 * (MaxAttempts - try[w]) + 2
    [] wpc[w] = "sleep"   -> 3 * (MaxAttempts - try[w]) + 1
    [] OTHER              -> 0

(* Every step a worker takes on a job brings it nearer to letting go of    *)
(* it, whatever the receiver answers and whatever becomes of the row: no   *)
(* job can keep a worker, or a token of its instance, busy for ever.       *)
JobsRunDown ==
  [][\A w \in Workers : job[w] # NoJob /\ job'[w] = job[w] =>
       \/ UNCHANGED <<wpc[w], try[w]>>
       \/ Remaining(w)' \in 0..(Remaining(w) - 1)]_vars

(* cmd/slimwhats/main.go:296 says that no new jobs arrive once the channel *)
(* is closed, "by Shutdown once the HTTP server is quiet".  No callback    *)
(* sends on it then.                                                       *)
NoSendOnClosedChannel == \A d \in Deliveries : course[d] # "panicked"

=============================================================================
