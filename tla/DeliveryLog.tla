---------------------------- MODULE DeliveryLog ----------------------------
(***************************************************************************)
(* What the webhook_deliveries table promises to a reader of               *)
(* GET /admin/api/instances/{id}/webhook-deliveries, with no queue, worker *)
(* or process in sight: a row is created pending, a finished POST moves it *)
(* on to a later attempt, a row is tried again only after an answer that   *)
(* is worth retrying and at most MaxAttempts times, and it goes away only  *)
(* with its instance.                                                      *)
(***************************************************************************)
EXTENDS Naturals

CONSTANTS
  Deliveries,   \* delivery ids
  Instances,    \* instance ids
  InstanceOf,   \* the instance whose event each delivery carries
  Codes,        \* HTTP status codes; 0 is "no answer"
  MaxAttempts

VARIABLES
  status,       \* webhook_deliveries.status, "none" before, "gone" after
  attempts,     \* webhook_deliveries.attempts
  code          \* webhook_deliveries.last_status_code

rowVars == <<status, attempts, code>>

(* A 2xx answer settles the delivery, a 4xx other than 408 and 429 refuses *)
(* it for good; anything else, silence included, is worth another try.     *)
Accepted(c) == c \in 200..299
Refused(c)  == c \in 400..499 \ {408, 429}

Verdict(n, c) == IF Accepted(c) THEN "succeeded"
                 ELSE IF n = MaxAttempts THEN "dead" ELSE "failed"

AwaitsAttempt(d) ==
  /\ attempts[d] < MaxAttempts
  /\ \/ status[d] = "pending"
     \/ status[d] = "failed" /\ ~Refused(code[d])

Init ==
  /\ status   = [d \in Deliveries |-> "none"]
  /\ attempts = [d \in Deliveries |-> 0]
  /\ code     = [d \in Deliveries |-> 0]

Create(d) ==
  /\ status[d] = "none"
  /\ status' = [status EXCEPT ![d] = "pending"]
  /\ UNCHANGED <<attempts, code>>

(* The row learns of attempt n.  It may have missed some before it. *)
Tried(d, n, c) ==
  /\ AwaitsAttempt(d)
  /\ n > attempts[d]
  /\ attempts' = [attempts EXCEPT ![d] = n]
  /\ code'     = [code EXCEPT ![d] = c]
  /\ status'   = [status EXCEPT ![d] = Verdict(n, c)]

(* Rows are never removed one by one. *)
Purge(i) ==
  /\ status' = [d \in Deliveries |->
                  IF InstanceOf[d] = i /\ status[d] # "none" THEN "gone" ELSE status[d]]
  /\ UNCHANGED <<attempts, code>>

Next ==
  \/ \E d \in Deliveries : Create(d) \/ \E n \in 1..MaxAttempts, c \in Codes : Tried(d, n, c)
  \/ \E i \in Instances : Purge(i)

Spec == Init /\ [][Next]_rowVars

(* A reader who looks twice never sees a delivery go back: the attempt     *)
(* counter does not fall, and moves whenever the answer or the verdict of  *)
(* a row that was tried does; a delivery that succeeded, or is dead, stays *)
(* so until its row goes, and a row that is gone does not come back        *)
(* (updateDelivery is the only writer of a row once it is there).          *)
RowsOnlyMoveOn ==
  [][\A d \in Deliveries :
       /\ attempts'[d] >= attempts[d]
       /\ code'[d] # code[d] => attempts'[d] > attempts[d]
       /\ attempts'[d] = attempts[d] /\ status[d] # "none" => status'[d] \in {status[d], "gone"}
       /\ status[d] \in {"succeeded", "dead"} => attempts'[d] = attempts[d]
       /\ status[d] = "gone" => status'[d] = "gone"]_rowVars

=============================================================================
