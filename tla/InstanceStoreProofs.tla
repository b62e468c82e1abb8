------------------------- MODULE InstanceStoreProofs -------------------------
(***************************************************************************)
(* Proofs about InstanceStore for any instances and requests, whatever     *)
(* they ask.                                                               *)
(***************************************************************************)
EXTENDS InstanceStore, SequenceTheorems, TLAPS

Rows == [name : Text, key : Text, url : Text, secret : Text]

LEMMA TextHas ==
  /\ "" \in Text /\ "old" \in Text /\ "oldkey" \in Text /\ "https" \in Text
  /\ \A r \in Requests : Minted[r] \in Text
  BY DEF Text

(* A request that carries something, or does not any more.                 *)
Carrying == [pc : {"found", "loaded", "page", "ok"}, ask : AskType, since : Nat, till : Nat,
             key : Text, secret : Text]
Ended    == {"refused", "failed", "taken", "missing", "none", "panic"}

Typed ==
  /\ past \in [Instances -> Seq(Rows)]
  /\ \A i \in Instances : Len(past[i]) >= 1
  /\ request = [r \in Requests |-> request[r]]
  /\ \A r \in Requests :
       \/ request[r].pc \in {"new"} \cup Ended
       \/ /\ request[r] \in Carrying
          /\ 1 <= request[r].since /\ request[r].since <= request[r].till
          /\ request[r].till <= Place(At(r))

Paired(row) == (row.url = "") = (row.secret = "")

(* Every row there has been has a name and a webhook or none; what was     *)
(* deleted ends its history.                                               *)
RowsControl ==
  /\ \A i \in Instances :
       /\ \A n \in 2..Len(past[i]) - 1 : past[i][n] # NoRow
       /\ \A n \in 1..Len(past[i]) : (past[i][n].name = "" => past[i][n] = NoRow) /\ Paired(past[i][n])
  /\ \A i, j \in Instances : Present(i) /\ Row(i).name = Row(j).name => i = j

(* The form that keeps the secret has one, and a url.                      *)
LoadedControl ==
  \A r \in Requests : request[r].pc = "loaded" =>
    request[r].secret # "" /\ request[r].ask.url # ""

-----------------------------------------------------------------------------
(* What a step does to the rows.                                           *)

Grows(i, new)    == past' = [past EXCEPT ![i] = Append(@, new)]
Inserted(i, new) == past[i] = <<NoRow>> /\ new.name # "" /\ ~ NameTaken(new.name) /\ Paired(new)
Updated(i, new)  == Present(i) /\ (new = NoRow \/ (new.name = Row(i).name /\ Paired(new)))

(* Histories keep what they have.                                          *)
LEMMA Longer ==
  ASSUME past \in [Instances -> Seq(Rows)], NEW i \in Instances, NEW new \in Rows, Grows(i, new)
  PROVE  /\ past' \in [Instances -> Seq(Rows)]
         /\ \A j \in Instances \ {i} : past'[j] = past[j]
         /\ Len(past'[i]) = Len(past[i]) + 1 /\ past'[i][Len(past[i]) + 1] = new
         /\ \A n \in 1..Len(past[i]) : past'[i][n] = past[i][n]
<1>1. past'[i] = Append(past[i], new) /\ \A j \in Instances \ {i} : past'[j] = past[j]
  BY DEF Grows
<1>2. past[i] \in Seq(Rows)
  OBVIOUS
<1>3. /\ Append(past[i], new) \in Seq(Rows)
      /\ Len(Append(past[i], new)) = Len(past[i]) + 1
      /\ Append(past[i], new)[Len(past[i]) + 1] = new
      /\ \A n \in 1..Len(past[i]) : Append(past[i], new)[n] = past[i][n]
  BY <1>2
<1> QED BY <1>1, <1>3 DEF Grows

LEMMA RowType ==
  ASSUME Typed, NEW i \in Instances
  PROVE  /\ Row(i) \in Rows /\ NoRow \in Rows
         /\ Place(i) \in Nat /\ Place(i) = Len(past[i]) /\ Place(i) \in 1..Len(past[i])
         /\ Row(i) = past[i][Place(i)]
         /\ RowsControl => Paired(Row(i)) /\ (Row(i).name = "" => Row(i) = NoRow)
<1>1. past[i] \in Seq(Rows) /\ Len(past[i]) >= 1
  BY DEF Typed
<1>2. Len(past[i]) \in Nat /\ Len(past[i]) \in 1..Len(past[i]) /\ past[i][Len(past[i])] \in Rows
  BY <1>1
<1>3. NoRow \in Rows
  BY TextHas DEF NoRow, Rows
<1>4. RowsControl => Paired(past[i][Len(past[i])])
        /\ (past[i][Len(past[i])].name = "" => past[i][Len(past[i])] = NoRow)
  BY <1>2 DEF RowsControl
<1> QED BY <1>2, <1>3, <1>4 DEF Row, Place

LEMMA UpdateEffect ==
  ASSUME Typed, RowsControl, NEW i \in Instances, NEW new, Update(i, new), new \in Rows,
         Present(i) => new = NoRow \/ (new.name = Row(i).name /\ Paired(new))
  PROVE  past' = past \/ (Grows(i, new) /\ Updated(i, new))
  BY DEF Update, Grows, Updated

LEMMA SetKeyEffect ==
  ASSUME Typed, RowsControl, NEW i \in Instances, NEW key \in Text, SetAPIKey(i, key)
  PROVE  \/ past' = past /\ ~ Present(i)
         \/ \E new \in Rows : Grows(i, new) /\ Updated(i, new) /\ new.key = key /\ new # NoRow
<1> DEFINE new == [Row(i) EXCEPT !.key = key]
<1>1. new \in Rows /\ new.name = Row(i).name /\ new.key = key
      /\ new.url = Row(i).url /\ new.secret = Row(i).secret
  BY RowType DEF Rows
<1>2. Paired(Row(i)) /\ NoRow.name = "" /\ (Present(i) => Row(i).name # "")
  BY RowType DEF NoRow, Present
<1>3. Update(i, new)
  BY DEF SetAPIKey
<1> HIDE DEF new
<1>4. Paired(new) /\ (Present(i) => new # NoRow)
  BY <1>1, <1>2 DEF Paired
<1> QED BY <1>1, <1>3, <1>4 DEF Update, Grows, Updated

Saved(i, url, secret) ==
  \/ past' = past /\ ~ Present(i)
  \/ \E new \in Rows : /\ Grows(i, new) /\ Updated(i, new) /\ new.key = Row(i).key
                       /\ new # NoRow /\ new.url = url /\ new.secret = secret

LEMMA SetWebhookEffect ==
  ASSUME Typed, RowsControl, NEW i \in Instances, NEW url \in Text, NEW secret \in Text,
         SetWebhook(i, url, secret), url = "" => secret = ""
  PROVE  Saved(i, url, secret)
<1> DEFINE new == [Row(i) EXCEPT !.url = url, !.secret = secret]
<1>1. PICK half \in Rows : half = [Row(i) EXCEPT !.url = url]
  BY RowType DEF Rows
<1>2. new = [half EXCEPT !.secret = secret]
  BY <1>1, Zenon
<1>3. new \in Rows /\ new.name = Row(i).name /\ new.key = Row(i).key
      /\ new.url = url /\ new.secret = secret
  BY <1>1, <1>2, RowType DEF Rows
<1>4. Update(i, new)
  BY DEF SetWebhook
<1>5. Paired(new)
  BY <1>3 DEF SetWebhook, Paired
<1>6. Present(i) => new # NoRow
  <2>1. Present(i) => Row(i).name # ""
    BY RowType DEF Present
  <2>2. NoRow.name = ""
    BY DEF NoRow
  <2> QED BY <1>3, <2>1, <2>2
<1> HIDE DEF new
<1> QED BY <1>3, <1>4, <1>5, <1>6 DEF Update, Grows, Updated, Saved

(* Seen from a request, the rows of an instance stay as they were and get  *)
(* a new one, or none.                                                     *)
Effect == past' = past \/ \E i \in Instances, new \in Rows :
                            Grows(i, new) /\ (Inserted(i, new) \/ Updated(i, new))

Extended == /\ past' \in [Instances -> Seq(Rows)]
            /\ \A i \in Instances :
                 /\ Len(past[i]) \in Nat /\ Len(past'[i]) \in Nat
                 /\ 1 <= Len(past[i]) /\ Len(past[i]) <= Len(past'[i])
                 /\ \A n \in 1..Len(past[i]) : past'[i][n] = past[i][n]

LEMMA Extends == ASSUME Typed, Effect PROVE Extended
<1>1. \A i \in Instances : Len(past[i]) \in Nat /\ 1 <= Len(past[i])
  <2>1. \A i \in Instances : past[i] \in Seq(Rows) /\ Len(past[i]) >= 1
    BY DEF Typed
  <2>2. ASSUME NEW i \in Instances PROVE Len(past[i]) \in Nat
    <3>1. past[i] \in Seq(Rows)
      BY <2>1
    <3> QED BY <3>1
  <2> QED BY <2>1, <2>2
<1>2. ASSUME past' = past PROVE Extended
  BY <1>1, <1>2 DEF Extended, Typed
<1>3. ASSUME NEW i \in Instances, NEW new \in Rows, Grows(i, new) PROVE Extended
  <2>1. past \in [Instances -> Seq(Rows)]
    BY DEF Typed
  <2>2. /\ past' \in [Instances -> Seq(Rows)]
        /\ \A j \in Instances \ {i} : past'[j] = past[j]
        /\ Len(past'[i]) = Len(past[i]) + 1
        /\ \A n \in 1..Len(past[i]) : past'[i][n] = past[i][n]
    BY <1>3, <2>1, Longer
  <2> QED BY <1>1, <2>2 DEF Extended
<1> QED BY <1>2, <1>3 DEF Effect

LEMMA Placed ==
  ASSUME Typed, Extended, NEW i \in Instances
  PROVE  /\ Row(i) \in Rows /\ Place(i) \in Nat /\ 1 <= Place(i) /\ Place(i) <= Len(past'[i])
         /\ 1 <= Len(past'[i])
<1>1. PICK m \in Nat, n \in Nat : m = Len(past[i]) /\ n = Len(past'[i]) /\ 1 <= m /\ m <= n
  BY DEF Extended
<1>2. Row(i) \in Rows
  BY RowType
<1>3. 1 <= n
  BY <1>1
<1> QED BY <1>1, <1>2, <1>3 DEF Place

(* Requests that an action leaves alone stay typed.                        *)
LEMMA Carried ==
  ASSUME Typed, Extended, NEW r \in Requests, NEW q, request' = [request EXCEPT ![r] = q],
         \/ q.pc \in Ended
         \/ q \in Carrying /\ 1 <= q.since /\ q.since <= q.till /\ q.till <= Len(past'[q.ask.at])
  PROVE  Typed'
<1>1. /\ request' = [s \in Requests |-> request'[s]]
      /\ \A s \in Requests : request'[s] = IF s = r THEN q ELSE request[s]
  BY DEF Typed
<1>2. ASSUME NEW s \in Requests
      PROVE  \/ request'[s].pc \in {"new"} \cup Ended
             \/ /\ request'[s] \in Carrying
                /\ 1 <= request'[s].since /\ request'[s].since <= request'[s].till
                /\ request'[s].till <= Len(past'[request'[s].ask.at])
  <2>1. CASE s = r
    BY <1>1, <2>1
  <2>2. CASE s # r
    <3>1. PICK p : p = request[s] /\ p = request'[s]
      BY <1>1, <2>2
    <3>2. \/ p.pc \in {"new"} \cup Ended
          \/ /\ p \in Carrying /\ 1 <= p.since /\ p.since <= p.till
             /\ p.till <= Len(past[p.ask.at])
      BY <3>1 DEF Typed, Place, At
    <3>3. p \in Carrying => p.ask.at \in Instances /\ p.till \in Nat
      BY DEF Carrying, AskType
    <3> QED BY <3>1, <3>2, <3>3 DEF Extended
  <2> QED BY <2>1, <2>2
<1> QED BY <1>1, <1>2 DEF Typed, Extended, Place, At

LEMMA CarriedOn ==
  ASSUME Typed, Extended, NEW r \in Requests, NEW a \in AskType, NEW since \in Nat,
         NEW pc \in {"found", "loaded", "page", "ok"}, NEW key \in Text, NEW secret \in Text,
         1 <= since, since <= Len(past'[a.at]), Goes(r, a, since, pc, key, secret)
  PROVE  Typed'
<1>1. PICK q : q = [pc |-> pc, ask |-> a, since |-> since, till |-> Len(past'[a.at]),
                    key |-> key, secret |-> secret]
  OBVIOUS
<1>2. a.at \in Instances
  BY DEF AskType
<1>3. q \in Carrying /\ 1 <= q.since /\ q.since <= q.till /\ q.till <= Len(past'[q.ask.at])
  BY <1>1, <1>2 DEF Carrying, Extended
<1> QED BY <1>1, <1>3, Carried DEF Goes

LEMMA Answered ==
  ASSUME Typed, Extended, NEW r \in Requests, NEW answer \in Ended, Answer(r, answer)
  PROVE  Typed'
  BY Carried DEF Answer

(* A request goes on from where it was.                                    *)
LEMMA Proceeded ==
  ASSUME Typed, Extended, NEW r \in Requests, NEW pc \in {"found", "loaded", "page", "ok"},
         request[r].pc \in {"found", "loaded", "page"}, Proceed(r, pc)
  PROVE  Typed'
<1>1. /\ request[r] \in Carrying
      /\ 1 <= request[r].since /\ request[r].since <= request[r].till
      /\ request[r].till <= Len(past[request[r].ask.at])
  BY DEF Typed, Ended, Place, At
<1>2. /\ request[r].ask \in AskType /\ request[r].ask.at \in Instances
      /\ request[r].since \in Nat /\ request[r].till \in Nat
      /\ request[r].key \in Text /\ request[r].secret \in Text
  BY <1>1 DEF Carrying, AskType
<1>3. request[r].since <= Len(past'[request[r].ask.at])
  BY <1>1, <1>2 DEF Extended
<1> QED BY <1>1, <1>2, <1>3, CarriedOn DEF Proceed

LEMMA StepIsTyped ==
  ASSUME Typed, RowsControl, LoadedControl, [Next]_vars
  PROVE  Effect /\ Typed'
<1>0. /\ \A a \in Asks : a \in AskType /\ a.at \in Instances /\ a.op \in Text /\ a.name \in Text
                          /\ a.key \in Text /\ a.url \in Text /\ a.secret \in Text
      /\ \A r \in Requests : request[r].pc \in {"found", "loaded", "page"} =>
           /\ request[r].ask \in AskType /\ At(r) \in Instances /\ request[r].ask.url \in Text
           /\ request[r].key \in Text /\ request[r].secret \in Text
      /\ "" \in Text /\ \A r \in Requests : Minted[r] \in Text
  BY StoreAssumption, TextHas DEF AskType, Typed, Ended, Carrying, At
<1>1. ASSUME past' = past PROVE Effect /\ Extended
  BY <1>1, Extends DEF Effect
<1>2. ASSUME NEW r \in Requests, NEW a \in Asks, Refuse(r, a) \/ Fail(r, a) PROVE Effect /\ Typed'
  BY <1>1, <1>2, Answered DEF Refuse, Fail, Ended
<1>3. ASSUME NEW r \in Requests, NEW a \in Asks, Create(r, a) PROVE Effect /\ Typed'
  <2>1. CASE UNCHANGED past /\ Answer(r, "taken")
    BY <1>1, <2>1, Answered DEF Ended
  <2>2. CASE ~ NameTaken(a.name) /\ \E i \in Instances :
               LET key == IF a.key = "" THEN Minted[r] ELSE a.key
               IN  Insert(i, a, key) /\ Goes(r, [a EXCEPT !.at = i], 1, "ok", key, "")
    <3>1. PICK i \in Instances, key \in Text :
            Insert(i, a, key) /\ Goes(r, [a EXCEPT !.at = i], 1, "ok", key, "")
      BY <1>0, <2>2
    <3>2. PICK new : new = [name |-> a.name, key |-> key, url |-> a.url, secret |-> a.secret]
      OBVIOUS
    <3>3. new \in Rows /\ Grows(i, new) /\ past[i] = <<NoRow>> /\ new.name = a.name
          /\ new.url = a.url /\ new.secret = a.secret
      BY <1>0, <3>1, <3>2 DEF Insert, Grows, Rows
    <3>4. a.name # "" /\ Paired(new)
      BY <1>3, <3>3 DEF Create, Invalid, Paired
    <3>5. Effect
      BY <2>2, <3>3, <3>4 DEF Effect, Inserted
    <3>6. Extended
      BY <3>5, Extends
    <3>7. PICK b \in AskType : b = [a EXCEPT !.at = i] /\ b.at = i
      <4>1. a \in AskType /\ i \in Instances
        BY <1>0
      <4>2. [a EXCEPT !.at = i] \in AskType /\ [a EXCEPT !.at = i].at = i
        BY <4>1 DEF AskType
      <4> QED BY <4>2
    <3>8. 1 <= Len(past'[i])
      BY <3>6, Placed
    <3>9. Goes(r, b, 1, "ok", key, "")
      BY <3>1, <3>7
    <3>10. 1 <= Len(past'[b.at])
      BY <3>7, <3>8
    <3>11. Typed'
      <4>1. PICK pc \in {"found", "loaded", "page", "ok"}, none \in Text, one \in Nat :
              pc = "ok" /\ none = "" /\ one = 1
        BY <1>0
      <4>2. Goes(r, b, one, pc, key, none)
        BY <3>9, <4>1, Zenon
      <4>3. 1 <= one
        <5>1. one = 1 /\ one \in Nat
          BY <4>1
        <5> QED BY <5>1, SMT
      <4>4. one <= Len(past'[b.at])
        BY <3>10, <4>1, Zenon
      <4> QED BY <3>6, <4>2, <4>3, <4>4, CarriedOn
    <3> QED BY <3>5, <3>11
  <2> QED BY <1>3, <2>1, <2>2 DEF Create
<1>4. ASSUME NEW r \in Requests, NEW a \in Asks, GetByID(r, a) PROVE Effect /\ Typed'
  <2>1. Effect /\ Extended /\ past' = past
    BY <1>1, <1>4 DEF GetByID
  <2>2. /\ Row(a.at).key \in Text /\ Place(a.at) \in Nat /\ 1 <= Place(a.at)
        /\ Place(a.at) <= Len(past'[a.at])
    BY <1>0, <2>1, Placed DEF Rows
  <2>3. \/ \E answer \in {"missing", "none"} : Answer(r, answer)
        \/ \E pc \in {"found", "ok"}, key \in Text : Goes(r, a, Place(a.at), pc, key, "")
    <3>1. CASE Present(a.at) /\ a.op # "reveal"
      BY <1>0, <1>4, <3>1 DEF GetByID
    <3>2. CASE Present(a.at) /\ a.op = "reveal"
      BY <1>4, <2>2, <3>2 DEF GetByID
    <3>3. CASE ~ Present(a.at)
      BY <1>4, <3>3 DEF GetByID
    <3> QED BY <3>1, <3>2, <3>3
  <2>4. CASE \E answer \in {"missing", "none"} : Answer(r, answer)
    BY <2>1, <2>4, Answered DEF Ended
  <2>5. ASSUME NEW pc \in {"found", "ok"}, NEW key \in Text, Goes(r, a, Place(a.at), pc, key, "")
        PROVE  Typed'
    <3>1. a \in AskType /\ pc \in {"found", "loaded", "page", "ok"} /\ "" \in Text
      BY <1>0
    <3> QED BY <2>1, <2>2, <2>5, <3>1, CarriedOn
  <2> QED BY <2>1, <2>3, <2>4, <2>5
<1>5. ASSUME NEW r \in Requests, PutKey(r) \/ PutKeyForm(r) PROVE Effect /\ Typed'
  <2>1. request[r].pc = "found" /\ SetAPIKey(At(r), request[r].key)
    BY <1>5 DEF PutKey, PutKeyForm
  <2>2. Effect
    BY <1>0, <2>1, SetKeyEffect DEF Effect
  <2>3. Answer(r, "panic") \/ \E pc \in {"ok", "page"} : Proceed(r, pc)
    BY <1>5 DEF PutKey, PutKeyForm
  <2> QED BY <2>1, <2>2, <2>3, Extends, Answered, Proceeded DEF Ended
<1>6. ASSUME NEW r \in Requests, NEW a \in Asks, PutWebhook(r, a) PROVE Effect /\ Typed'
  <2>1. CASE UNCHANGED past /\ Answer(r, "refused")
    BY <1>1, <2>1, Answered DEF Ended
  <2>2. CASE SetWebhook(a.at, a.url, a.secret) /\ Ok(r, a)
    <3>1. a.url = "" => a.secret = ""
      BY <1>6, StoreAssumption DEF PutWebhook, Invalid
    <3>2. Effect
      <4>1. a.at \in Instances /\ a.url \in Text /\ a.secret \in Text
        BY <1>0
      <4>2. Saved(a.at, a.url, a.secret)
        BY <2>2, <3>1, <4>1, SetWebhookEffect
      <4> QED BY <4>1, <4>2 DEF Effect, Saved
    <3>3. Extended
      BY <3>2, Extends
    <3>4. Place(a.at) \in Nat /\ 1 <= Place(a.at) /\ Place(a.at) <= Len(past'[a.at])
      BY <1>0, <3>3, Placed
    <3> QED BY <1>0, <2>2, <3>2, <3>3, <3>4, CarriedOn DEF Ok
  <2> QED BY <1>6, <2>1, <2>2 DEF PutWebhook
<1>7. ASSUME NEW r \in Requests, NEW a \in Asks, LoadWebhookSecret(r, a) PROVE Effect /\ Typed'
  <2>1. Effect /\ Extended /\ past' = past
    BY <1>1, <1>7 DEF LoadWebhookSecret
  <2>2. /\ Row(a.at).secret \in Text /\ Place(a.at) \in Nat /\ 1 <= Place(a.at)
        /\ Place(a.at) <= Len(past'[a.at])
    BY <1>0, <2>1, Placed DEF Rows
  <2>3. \/ \E answer \in {"missing", "refused"} : Answer(r, answer)
        \/ Goes(r, a, Place(a.at), "loaded", "", Row(a.at).secret)
    BY <1>7 DEF LoadWebhookSecret
  <2> QED BY <1>0, <2>1, <2>2, <2>3, Answered, CarriedOn DEF Ended
<1>8. ASSUME NEW r \in Requests, SaveKept(r) PROVE Effect /\ Typed'
  <2>1. Effect
    BY <1>0, <1>8, SetWebhookEffect DEF SaveKept, LoadedControl, Effect, Saved
  <2> QED BY <1>8, <2>1, Extends, Proceeded DEF SaveKept
<1>9. ASSUME NEW r \in Requests, NEW a \in Asks, SaveTyped(r, a) PROVE Effect /\ Typed'
  <2>1. a.url = "" => a.secret = ""
    BY <1>9, StoreAssumption DEF SaveTyped, Invalid
  <2>2. Effect
    BY <1>0, <1>9, <2>1, SetWebhookEffect DEF SaveTyped, Effect, Saved
  <2>3. Extended
    BY <2>2, Extends
  <2>4. Place(a.at) \in Nat /\ 1 <= Place(a.at) /\ Place(a.at) <= Len(past'[a.at])
    BY <1>0, <2>3, Placed
  <2> QED BY <1>0, <1>9, <2>2, <2>3, <2>4, CarriedOn DEF SaveTyped
<1>10. ASSUME NEW r \in Requests, NEW a \in Asks, Remove(r, a) PROVE Effect /\ Typed'
  <2>1. Effect
    BY <1>0, <1>10, RowType, UpdateEffect DEF Remove, Delete, Effect
  <2>2. Extended
    BY <2>1, Extends
  <2>3. Place(a.at) \in Nat /\ 1 <= Place(a.at) /\ Place(a.at) <= Len(past'[a.at])
    BY <1>0, <2>2, Placed
  <2> QED BY <1>0, <1>10, <2>1, <2>2, <2>3, CarriedOn DEF Remove, Ok
<1>11. ASSUME NEW r \in Requests, Render(r) \/ FailLater(r) PROVE Effect /\ Typed'
  <2>1. Effect /\ Extended
    BY <1>1, <1>11 DEF Render, FailLater
  <2>2. (\E answer \in {"missing", "failed"} : Answer(r, answer)) \/ Proceed(r, "ok")
    BY <1>11 DEF Render, FailLater
  <2>3. request[r].pc \in {"found", "loaded", "page"}
    BY <1>11 DEF Render, FailLater
  <2> QED BY <2>1, <2>2, <2>3, Answered, Proceeded DEF Ended
<1>12. CASE UNCHANGED vars
  BY <1>12 DEF vars, Effect, Typed, Place, At
<1> QED BY <1>2, <1>3, <1>4, <1>5, <1>6, <1>7, <1>8, <1>9, <1>10, <1>11, <1>12 DEF Next

(* A new row is a new instance, a change of the last row, or its end.      *)
LEMMA RowsStep ==
  ASSUME Typed, RowsControl, Effect
  PROVE  RowsControl'
<1>1. ASSUME past' = past PROVE RowsControl'
  BY <1>1 DEF RowsControl, Present, Row
<1>2. ASSUME NEW i \in Instances, NEW new \in Rows, Grows(i, new), Inserted(i, new) \/ Updated(i, new)
      PROVE  RowsControl'
  <2>1. PICK len \in Nat : len = Len(past[i]) /\ len >= 1 /\ past[i] \in Seq(Rows)
    <3>1. past[i] \in Seq(Rows) /\ Len(past[i]) >= 1
      BY DEF Typed
    <3> QED BY <3>1
  <2>2. PICK grown : /\ grown = past'[i] /\ Len(grown) = len + 1 /\ grown[len + 1] = new
                     /\ \A n \in 1..len : grown[n] = past[i][n]
    BY <1>2, <2>1, Longer DEF Typed
  <2>3. \A j \in Instances \ {i} : past'[j] = past[j]
    BY <1>2, Longer DEF Typed
  <2>4. Paired(NoRow) /\ NoRow.name = ""
    BY DEF Paired, NoRow
  <2>5. Paired(new) /\ (new.name = "" => new = NoRow)
    <3>1. CASE Inserted(i, new)
      BY <3>1 DEF Inserted
    <3>2. CASE Updated(i, new)
      BY <2>4, <3>2, RowType DEF Updated, Present
    <3> QED BY <1>2, <3>1, <3>2
  <2>6. len >= 2 => past[i][len] # NoRow
    <3>1. Inserted(i, new) => len = 1
      BY <2>1 DEF Inserted
    <3>2. Updated(i, new) => past[i][len] # NoRow
      BY <2>1 DEF Updated, Present, Row
    <3> QED BY <1>2, <3>1, <3>2
  <2>7. ASSUME NEW n \in 2..len PROVE grown[n] # NoRow
    <3>1. n \in 1..len /\ (n = len \/ n \in 2..len - 1)
      BY <2>1
    <3>2. \A k \in 2..len - 1 : past[i][k] # NoRow
      BY <2>1 DEF RowsControl
    <3> QED BY <2>2, <2>6, <3>1, <3>2
  <2>8. ASSUME NEW n \in 1..len + 1
        PROVE  (grown[n].name = "" => grown[n] = NoRow) /\ Paired(grown[n])
    <3>1. CASE n = len + 1
      BY <2>2, <2>5, <3>1
    <3>2. CASE n # len + 1
      <4>1. n \in 1..len
        BY <2>1, <3>2
      <4> QED BY <2>1, <2>2, <4>1 DEF RowsControl
    <3> QED BY <3>1, <3>2
  <2>9. /\ \A n \in 2..Len(past'[i]) - 1 : past'[i][n] # NoRow
        /\ \A n \in 1..Len(past'[i]) : (past'[i][n].name = "" => past'[i][n] = NoRow) /\ Paired(past'[i][n])
    <3>1. 2..(len + 1) - 1 = 2..len
      BY <2>1
    <3> QED BY <2>2, <2>7, <2>8, <3>1
  <2>10. /\ \A j \in Instances \ {i} : Present(j)' = Present(j) /\ Row(j)' = Row(j)
         /\ Row(i)' = new
    BY <2>2, <2>3 DEF Present, Row
  <2>11. ASSUME NEW j \in Instances, NEW k \in Instances, Present(j)', Row(j)'.name = Row(k)'.name
         PROVE  j = k
    <3>1. CASE Inserted(i, new)
      BY <2>10, <2>11, <3>1 DEF Inserted, NameTaken, RowsControl
    <3>2. CASE Updated(i, new) /\ new.name = Row(i).name
      BY <2>10, <2>11, <3>2 DEF Updated, RowsControl
    <3>3. CASE Updated(i, new) /\ new = NoRow
      <4>1. j # i /\ Row(j).name # ""
        BY <2>10, <2>11, <3>3, RowType DEF Present
      <4>2. k # i
        BY <2>4, <2>10, <2>11, <3>3, <4>1
      <4> QED BY <2>10, <2>11, <4>1, <4>2 DEF RowsControl
    <3> QED BY <1>2, <3>1, <3>2, <3>3 DEF Updated
  <2>12. ASSUME NEW j \in Instances
         PROVE  /\ \A n \in 2..Len(past'[j]) - 1 : past'[j][n] # NoRow
                /\ \A n \in 1..Len(past'[j]) : (past'[j][n].name = "" => past'[j][n] = NoRow) /\ Paired(past'[j][n])
    <3>1. CASE j = i
      BY <2>9, <3>1
    <3>2. CASE j # i
      BY <2>3, <3>2 DEF RowsControl
    <3> QED BY <3>1, <3>2
  <2> QED BY <2>11, <2>12 DEF RowsControl
<1> QED BY <1>1, <1>2 DEF Effect

(* The form that keeps the secret read one.                                *)
LEMMA LoadedStep ==
  ASSUME Typed, LoadedControl, [Next]_vars
  PROVE  LoadedControl'
<1>1. ASSUME NEW r \in Requests, NEW q, request' = [request EXCEPT ![r] = q],
             q.pc = "loaded" => q.secret # "" /\ q.ask.url # ""
      PROVE  LoadedControl'
  BY <1>1 DEF Typed, LoadedControl
<1>2. ASSUME NEW r \in Requests, NEW answer \in Ended, Answer(r, answer) PROVE LoadedControl'
  BY <1>1, <1>2 DEF Answer, Ended
<1>3. ASSUME NEW r \in Requests, NEW a, NEW since, NEW pc, NEW key, NEW secret,
             Goes(r, a, since, pc, key, secret), pc = "loaded" => secret # "" /\ a.url # ""
      PROVE  LoadedControl'
  <2>1. PICK q : q = [pc |-> pc, ask |-> a, since |-> since, till |-> Len(past'[a.at]),
                      key |-> key, secret |-> secret]
    OBVIOUS
  <2> QED BY <1>1, <1>3, <2>1 DEF Goes
<1>4. ASSUME NEW r \in Requests, NEW pc, Proceed(r, pc), pc # "loaded" PROVE LoadedControl'
  BY <1>3, <1>4 DEF Proceed
<1>5. ASSUME NEW r \in Requests, NEW a \in Asks, Create(r, a) PROVE LoadedControl'
  <2>1. \/ Answer(r, "taken")
        \/ \E i \in Instances : \E key : Goes(r, [a EXCEPT !.at = i], 1, "ok", key, "")
    BY <1>5 DEF Create
  <2> QED BY <1>2, <1>3, <2>1 DEF Ended
<1>6. ASSUME NEW r \in Requests, NEW a \in Asks, GetByID(r, a) PROVE LoadedControl'
  <2>1. \/ \E answer \in {"missing", "none"} : Answer(r, answer)
        \/ \E pc \in {"found", "ok"} : \E key : Goes(r, a, Place(a.at), pc, key, "")
    BY <1>6 DEF GetByID
  <2> QED BY <1>2, <1>3, <2>1 DEF Ended
<1>7. ASSUME NEW r \in Requests, NEW a \in Asks, LoadWebhookSecret(r, a) PROVE LoadedControl'
  <2>1. \/ \E answer \in {"missing", "refused"} : Answer(r, answer)
        \/ Row(a.at).secret # "" /\ a.url # "" /\ Goes(r, a, Place(a.at), "loaded", "", Row(a.at).secret)
    BY <1>7 DEF LoadWebhookSecret
  <2> QED BY <1>2, <1>3, <2>1 DEF Ended
<1>8. ASSUME NEW r \in Requests, NEW a \in Asks,
             Refuse(r, a) \/ Fail(r, a) \/ PutWebhook(r, a) \/ SaveTyped(r, a) \/ Remove(r, a)
      PROVE  LoadedControl'
  <2>1. \/ \E answer \in {"refused", "failed"} : Answer(r, answer)
        \/ \E pc \in {"ok", "page"} : \E secret : Goes(r, a, Place(a.at), pc, "", secret)
    BY <1>8 DEF Refuse, Fail, PutWebhook, SaveTyped, Remove, Ok
  <2> QED BY <1>2, <1>3, <2>1 DEF Ended
<1>9. ASSUME NEW r \in Requests,
             PutKey(r) \/ PutKeyForm(r) \/ SaveKept(r) \/ Render(r) \/ FailLater(r)
      PROVE  LoadedControl'
  <2>1. \/ \E answer \in {"panic", "missing", "failed"} : Answer(r, answer)
        \/ \E pc \in {"ok", "page"} : Proceed(r, pc)
    BY <1>9 DEF PutKey, PutKeyForm, SaveKept, Render, FailLater
  <2> QED BY <1>2, <1>4, <2>1 DEF Ended
<1>10. CASE UNCHANGED vars
  BY <1>10 DEF vars, LoadedControl
<1> QED BY <1>5, <1>6, <1>7, <1>8, <1>9, <1>10 DEF Next

-----------------------------------------------------------------------------
(* What a request carries and was answered, in the history h of its row.   *)
Keeps(q)      == q.ask.op = "webhookForm" /\ q.ask.url # "" /\ q.ask.secret = ""
Matches(q, row) ==
  /\ row # NoRow
  /\ IF q.ask.op \in {"webhook", "webhookForm"}
     THEN row.url = q.ask.url /\ q.ask.secret \in {"", row.secret}
     ELSE row.key = q.key
Kept(h, q) == \E n, m \in q.since..q.till :
                n < m /\ h[n].secret = q.secret /\ h[m].secret = q.secret /\ h[m].url = q.ask.url
Honest(h, q) == (\E n \in q.since..q.till : Matches(q, h[n])) /\ (Keeps(q) => Kept(h, q))

(* The row of a request was there once; so an empty one is gone for good.  *)
Good(h, q) ==
  q.pc \in {"found", "loaded", "page", "ok"} =>
    /\ Len(h) > 1 \/ h[Len(h)] # NoRow
    /\ q.pc = "found" => q.ask.op \in {"setKey", "rotate", "rotateForm"}
    /\ q.pc = "loaded" => Keeps(q) /\ h[q.since].secret = q.secret
    /\ q.pc = "page" => /\ q.ask.op \in {"rotateForm", "webhookForm"}
                        /\ Honest(h, q) \/ h[Len(h)] = NoRow
    /\ q.pc = "ok" => \/ Honest(h, q) \/ q.ask.op = "delete"
                      \/ q.ask.op \in {"setKey", "rotate", "webhook"} /\ h[q.till] = NoRow

AnswerControl == \A r \in Requests : Good(past[At(r)], request[r])

(* What was answered stays right in a longer history.                      *)
LEMMA StaysGood ==
  ASSUME NEW h \in Seq(Rows), NEW g \in Seq(Rows), Len(h) >= 1, Len(g) >= Len(h),
         \A n \in 1..Len(h) : g[n] = h[n],
         Len(h) > 1 /\ h[Len(h)] = NoRow => g = h,
         NEW q \in Carrying, 1 <= q.since, q.since <= q.till, q.till <= Len(h), Good(h, q)
  PROVE  Good(g, q)
<1>1. PICK since \in Nat, till \in Nat, len \in Nat, more \in Nat :
        /\ since = q.since /\ till = q.till /\ len = Len(h) /\ more = Len(g)
        /\ 1 <= since /\ since <= till /\ till <= len /\ len <= more
  BY DEF Carrying
<1>2. since \in 1..len /\ till \in 1..len /\ \A n \in since..till : n \in 1..len
  BY <1>1
<1>3. g[since] = h[since] /\ g[till] = h[till] /\ \A n \in since..till : g[n] = h[n]
  BY <1>1, <1>2
<1>4. Honest(h, q) => Honest(g, q)
  <2>1. (\E n \in since..till : Matches(q, h[n])) => \E n \in since..till : Matches(q, g[n])
    BY <1>3
  <2>2. Kept(h, q) => Kept(g, q)
    BY <1>1, <1>3, ZenonT(30) DEF Kept
  <2> QED BY <1>1, <2>1, <2>2 DEF Honest
<1>5. CASE len > 1 /\ h[len] = NoRow
  BY <1>1, <1>5
<1>6. CASE ~ (len > 1 /\ h[len] = NoRow) /\ q.pc \in {"found", "loaded", "page", "ok"}
  <2>1. h[len] # NoRow
    BY <1>1, <1>6 DEF Good
  <2>2. more > 1 \/ g[more] # NoRow
    <3>1. CASE more = len
      <4>1. len \in 1..len
        BY <1>1
      <4> QED BY <1>1, <2>1, <3>1, <4>1
    <3>2. CASE more # len
      BY <1>1, <3>2
    <3> QED BY <3>1, <3>2
  <2> QED BY <1>1, <1>3, <1>4, <1>6, <2>1, <2>2 DEF Good
<1> QED BY <1>5, <1>6 DEF Good

(* The other requests stay as good as they were.                           *)
LEMMA OthersStayGood ==
  ASSUME Typed, RowsControl, AnswerControl, Effect, NEW r \in Requests, NEW q,
         request' = [request EXCEPT ![r] = q], Good(past'[q.ask.at], q)
  PROVE  AnswerControl'
<1>1. Extended
  BY Extends
<1>2. ASSUME NEW i \in Instances, Len(past[i]) > 1, ~ Present(i) PROVE past'[i] = past[i]
  <2>1. ASSUME NEW j \in Instances, NEW new \in Rows, Grows(j, new), Inserted(j, new) \/ Updated(j, new)
        PROVE  past'[i] = past[i]
    <3>1. CASE i = j
      <4>1. ~ (Len(<<NoRow>>) > 1)
        <5>1. Len(<<NoRow>>) = 1 /\ ~ (1 > 1)
          OBVIOUS
        <5> QED BY <5>1, Zenon
      <4>2. past[i] # <<NoRow>>
        BY <1>2, <4>1, Zenon
      <4> QED BY <1>2, <2>1, <3>1, <4>2 DEF Inserted, Updated
    <3>2. CASE i # j
      BY <2>1, <3>2, Longer DEF Typed
    <3> QED BY <3>1, <3>2
  <2> QED BY <2>1 DEF Effect
<1>3. ASSUME NEW s \in Requests, s # r, request[s].pc \in {"found", "loaded", "page", "ok"}
      PROVE  Good(past'[request[s].ask.at], request[s])
  <2>1. /\ request[s] \in Carrying /\ 1 <= request[s].since /\ request[s].since <= request[s].till
        /\ request[s].till <= Len(past[request[s].ask.at])
    BY <1>3 DEF Typed, Ended, Place, At
  <2>2. request[s].ask.at \in Instances
    BY <2>1 DEF Carrying, AskType
  <2>3. PICK h \in Seq(Rows), g \in Seq(Rows) :
          /\ h = past[request[s].ask.at] /\ g = past'[request[s].ask.at]
          /\ Len(h) >= 1 /\ Len(g) >= Len(h) /\ \A n \in 1..Len(h) : g[n] = h[n]
    <3>1. past[request[s].ask.at] \in Seq(Rows) /\ past'[request[s].ask.at] \in Seq(Rows)
      BY <1>1, <2>2 DEF Typed, Extended
    <3> QED BY <1>1, <2>2, <3>1 DEF Extended
  <2>4. Len(h) > 1 /\ h[Len(h)] = NoRow => g = h
    BY <1>2, <2>2, <2>3 DEF Present, Row
  <2>5. Good(h, request[s])
    BY <2>3 DEF AnswerControl, At
  <2> QED BY <2>1, <2>3, <2>4, <2>5, StaysGood, ZenonT(30)
<1>4. ASSUME NEW s \in Requests PROVE Good(past'[request'[s].ask.at], request'[s])
  <2>1. CASE s = r
    BY <2>1 DEF Typed
  <2>2. CASE s # r
    <3>1. PICK p : p = request[s] /\ p = request'[s]
      BY <2>2 DEF Typed
    <3>2. CASE p.pc \in {"found", "loaded", "page", "ok"}
      BY <1>3, <2>2, <3>1, <3>2
    <3>3. CASE p.pc \notin {"found", "loaded", "page", "ok"}
      BY <3>1, <3>3 DEF Good
    <3> QED BY <3>2, <3>3
  <2> QED BY <2>1, <2>2
<1> QED BY <1>4 DEF AnswerControl, At

(* A request that goes on carries what Goes says.                          *)
LEMMA GoesGood ==
  ASSUME Typed, RowsControl, AnswerControl, Effect, NEW r \in Requests,
         NEW a, NEW since, NEW pc, NEW key, NEW secret, Goes(r, a, since, pc, key, secret),
         \A q : q.pc = pc /\ q.ask = a /\ q.since = since /\ q.till = Len(past'[a.at])
                  /\ q.key = key /\ q.secret = secret => Good(past'[a.at], q)
  PROVE  AnswerControl'
<1>1. PICK q : q = [pc |-> pc, ask |-> a, since |-> since, till |-> Len(past'[a.at]),
                    key |-> key, secret |-> secret]
  OBVIOUS
<1>2. /\ q.pc = pc /\ q.ask = a /\ q.since = since /\ q.till = Len(past'[a.at])
      /\ q.key = key /\ q.secret = secret
  BY <1>1
<1>3. Good(past'[q.ask.at], q)
  BY <1>2
<1>4. request' = [request EXCEPT ![r] = q]
  BY <1>1 DEF Goes
<1> QED BY <1>3, <1>4, OthersStayGood

LEMMA AnswerGood ==
  ASSUME Typed, RowsControl, AnswerControl, Effect, NEW r \in Requests,
         NEW answer \in Ended, Answer(r, answer)
  PROVE  AnswerControl'
<1>1. PICK q : q = [pc |-> answer]
  OBVIOUS
<1>2. q.pc \notin {"found", "loaded", "page", "ok"}
  BY <1>1 DEF Ended
<1>3. Good(past'[q.ask.at], q)
  BY <1>2 DEF Good
<1>4. request' = [request EXCEPT ![r] = q]
  BY <1>1 DEF Answer
<1> QED BY <1>3, <1>4, OthersStayGood

LEMMA Places ==
  /\ \A n \in Nat : n \in n..n
  /\ \A k, m, n \in Nat : 1 <= k /\ k <= m /\ m <= n => k \in 1..m /\ k \in k..n /\ n \in k..n
  /\ \A k, m \in Nat : k <= m => k < m + 1
  /\ 2 \in 1..2 /\ \A k \in Nat : k = 1 => k + 1 = 2
  OBVIOUS

(* The history of one instance, before and after a step.                   *)
LEMMA History ==
  ASSUME Typed, RowsControl, Effect, NEW i \in Instances
  PROVE  \E len, more \in Nat :
           /\ len = Place(i) /\ len = Len(past[i]) /\ more = Len(past'[i]) /\ 1 <= len /\ len <= more
           /\ past'[i][len] = Row(i) /\ Row(i) \in Rows
           /\ \A new \in Rows : Grows(i, new) => more = len + 1 /\ past'[i][more] = new
           /\ past' = past => more = len
<1>1. Extended
  BY Extends
<1>2. PICK len \in Nat, more \in Nat : len = Len(past[i]) /\ more = Len(past'[i]) /\ 1 <= len /\ len <= more
  BY <1>1 DEF Extended
<1>3. len \in 1..len
  BY <1>2
<1>4. past'[i][len] = past[i][len]
  BY <1>1, <1>2, <1>3 DEF Extended
<1>5. Row(i) \in Rows
  BY RowType
<1>6. ASSUME NEW new \in Rows, Grows(i, new) PROVE more = len + 1 /\ past'[i][more] = new
  BY <1>2, <1>6, Longer DEF Typed
<1>7. past' = past => more = len
  BY <1>2
<1> QED BY <1>2, <1>4, <1>5, <1>6, <1>7 DEF Place, Row

(* Looking at the row, and going on with what was seen.                    *)
LEMMA LooksGood ==
  ASSUME Typed, RowsControl, AnswerControl, past' = past, NEW r \in Requests, NEW a \in AskType,
         NEW pc \in {"found", "loaded", "ok"}, NEW key, NEW secret, Present(a.at),
         Goes(r, a, Place(a.at), pc, key, secret),
         pc = "found" => a.op \in {"setKey", "rotate", "rotateForm"},
         pc = "loaded" => a.op = "webhookForm" /\ a.url # "" /\ a.secret = "" /\ secret = Row(a.at).secret,
         pc = "ok" => a.op = "reveal" /\ key = Row(a.at).key
  PROVE  AnswerControl'
<1>1. Effect /\ a.at \in Instances
  BY DEF Effect, AskType
<1>2. PICK len \in Nat : /\ len = Place(a.at) /\ len = Len(past'[a.at]) /\ past'[a.at][len] = Row(a.at)
  BY <1>1, History
<1>3. ASSUME NEW q, q.pc = pc, q.ask = a, q.since = Place(a.at), q.till = Len(past'[a.at]),
             q.key = key, q.secret = secret
      PROVE  Good(past'[a.at], q)
  <2>1. q.since = len /\ q.till = len /\ len \in q.since..q.till
    <3>1. q.since = len /\ q.till = len
      BY <1>2, <1>3, Zenon
    <3> QED BY <3>1, Places, Zenon
  <2>2. pc = "ok" => Honest(past'[a.at], q)
    <3>1. pc = "ok" => Matches(q, past'[a.at][len]) /\ ~ Keeps(q)
      BY <1>2, <1>3 DEF Matches, Keeps, Present
    <3> QED BY <2>1, <3>1 DEF Honest
  <2>3. past'[a.at][Len(past'[a.at])] # NoRow
    BY <1>2 DEF Present
  <2> QED BY <1>2, <1>3, <2>1, <2>2, <2>3 DEF Good, Keeps
<1>4. \A q : q.pc = pc /\ q.ask = a /\ q.since = Place(a.at) /\ q.till = Len(past'[a.at])
               /\ q.key = key /\ q.secret = secret => Good(past'[a.at], q)
  BY <1>3
<1> QED BY <1>1, <1>4, GoesGood

(* Writing the row once, or finding it gone.                               *)
LEMMA WritesGood ==
  ASSUME Typed, RowsControl, AnswerControl, Effect, NEW r \in Requests, NEW a \in AskType,
         NEW i \in Instances, i = a.at,
         NEW since \in Nat, NEW pc \in {"page", "ok"}, NEW key, NEW secret, Known(i),
         1 <= since, since <= Place(i), Goes(r, a, since, pc, key, secret),
         \/ past' = past /\ ~ Present(i)
         \/ \E new \in Rows :
              /\ Grows(i, new) /\ new # NoRow
              /\ IF a.op \in {"webhook", "webhookForm"}
                 THEN /\ new.url = a.url /\ a.secret \in {"", new.secret}
                      /\ a.op = "webhookForm" => new.secret = secret
                 ELSE new.key = key,
         a.op = "webhookForm" /\ a.url # "" /\ a.secret = "" => past[i][since].secret = secret,
         pc = "page" => a.op \in {"rotateForm", "webhookForm"},
         pc = "ok" => a.op \in {"setKey", "rotate", "webhook"}
  PROVE  AnswerControl'
<1>1. \E len, more \in Nat :
        /\ len = Place(i) /\ len = Len(past[i]) /\ more = Len(past'[i]) /\ 1 <= len /\ len <= more
        /\ past'[i][len] = Row(i) /\ Row(i) \in Rows
        /\ \A new \in Rows : Grows(i, new) => more = len + 1 /\ past'[i][more] = new
        /\ past' = past => more = len
  BY ONLY Typed, RowsControl, Effect, i \in Instances, History
<1>2. PICK long \in Nat, more \in Nat :
        /\ long = Place(i) /\ long = Len(past[i]) /\ more = Len(past'[i]) /\ 1 <= long /\ long <= more
        /\ past'[i][long] = Row(i)
        /\ \A new \in Rows : Grows(i, new) => more = long + 1 /\ past'[i][more] = new
        /\ past' = past => more = long
  BY <1>1
<1>3. since \in 1..long /\ since <= long /\ since \in since..more /\ more \in since..more
  <2>1. since <= long
    BY <1>2
  <2> QED BY <1>2, <2>1, Places, Zenon
<1>4. past'[i][since] = past[i][since]
  BY <1>2, <1>3, Extends DEF Extended
<1>5. ASSUME NEW q, q.pc = pc, q.ask = a, q.since = since, q.till = Len(past'[i]),
             q.key = key, q.secret = secret
      PROVE  Good(past'[i], q)
  <2>1. q.till = more
    BY <1>2, <1>5
  <2>2. CASE past' = past /\ ~ Present(i)
    <3>1. past'[i][more] = NoRow /\ Len(past'[i]) > 1
      BY <1>2, <2>2 DEF Known, Present, Row
    <3> QED BY <1>2, <1>5, <2>1, <3>1 DEF Good
  <2>3. ASSUME NEW new \in Rows, Grows(i, new), new # NoRow,
               IF a.op \in {"webhook", "webhookForm"}
               THEN /\ new.url = a.url /\ a.secret \in {"", new.secret}
                    /\ a.op = "webhookForm" => new.secret = secret
               ELSE new.key = key
        PROVE  Good(past'[i], q)
    <3>1. more = long + 1 /\ past'[i][more] = new
      BY <1>2, <2>3
    <3>2. Matches(q, past'[i][more])
      BY <1>5, <2>3, <3>1 DEF Matches
    <3>3. since < more
      BY <1>3, <3>1, Places, Zenon
    <3>4. Keeps(q) => Kept(past'[i], q)
      <4>1. ASSUME Keeps(q)
            PROVE  /\ past'[i][since].secret = q.secret /\ past'[i][more].secret = q.secret
                   /\ past'[i][more].url = q.ask.url
        BY <1>4, <1>5, <2>3, <3>1, <4>1 DEF Keeps
      <4> QED BY <1>3, <1>5, <2>1, <3>3, <4>1, Zenon DEF Kept
    <3>5. Honest(past'[i], q)
      BY <1>3, <1>5, <2>1, <3>2, <3>4, Zenon DEF Honest
    <3>6. past'[i][Len(past'[i])] # NoRow
      BY <1>2, <2>3, <3>1
    <3> QED BY <1>5, <3>5, <3>6 DEF Good
  <2> QED BY <2>2, <2>3
<1>6. \A q : q.pc = pc /\ q.ask = a /\ q.since = since /\ q.till = Len(past'[a.at])
               /\ q.key = key /\ q.secret = secret => Good(past'[a.at], q)
  BY <1>5
<1> QED BY <1>6, GoesGood

(* The statement ran earlier and the page is looked up now.                *)
LEMMA PageGood ==
  ASSUME Typed, RowsControl, AnswerControl, past' = past, NEW r \in Requests,
         request[r].pc = "page", Present(At(r)), Proceed(r, "ok")
  PROVE  AnswerControl'
<1>1. /\ request[r] \in Carrying /\ 1 <= request[r].since /\ request[r].since <= request[r].till
      /\ request[r].till <= Len(past[At(r)])
  BY DEF Typed, Ended, Place
<1>2. PICK i \in Instances : i = At(r) /\ i = request[r].ask.at
  BY <1>1 DEF Carrying, AskType, At
<1>3. PICK since \in Nat, till \in Nat, len \in Nat :
        since = request[r].since /\ till = request[r].till /\ len = Len(past[i]) /\ len = Len(past'[i])
        /\ till <= len
  <2>1. Len(past[i]) \in Nat
    BY <1>2, RowType DEF Place
  <2> QED BY <1>1, <1>2, <2>1 DEF Carrying
<1>4. request[r].ask.op \in {"rotateForm", "webhookForm"} /\ Honest(past[i], request[r])
  BY <1>2 DEF AnswerControl, Good, Present, Row
<1>5. ASSUME NEW q, q.pc = "ok", q.ask = request[r].ask, q.since = since, q.till = len,
             q.key = request[r].key, q.secret = request[r].secret
      PROVE  Good(past[i], q)
  <2>1. \A n \in since..till : n \in since..len
    BY <1>3
  <2>2. Keeps(q) = Keeps(request[r]) /\ \A row : Matches(q, row) = Matches(request[r], row)
    BY <1>5 DEF Keeps, Matches
  <2>3. Kept(past[i], request[r]) => Kept(past[i], q)
    BY <1>3, <1>5, <2>1, Zenon DEF Kept
  <2>4. Honest(past[i], q)
    BY <1>3, <1>4, <1>5, <2>1, <2>2, <2>3, Zenon DEF Honest
  <2>5. past[i][Len(past[i])] # NoRow
    BY <1>2 DEF Present, Row
  <2> QED BY <1>5, <2>4, <2>5 DEF Good
<1>6. \A q : q.pc = "ok" /\ q.ask = request[r].ask /\ q.since = request[r].since
               /\ q.till = Len(past'[request[r].ask.at])
               /\ q.key = request[r].key /\ q.secret = request[r].secret
             => Good(past'[request[r].ask.at], q)
  BY <1>2, <1>3, <1>5
<1> QED BY <1>6, GoesGood DEF Effect, Proceed

(* Creating an instance stores what the answer shows.                      *)
LEMMA CreateGood ==
  ASSUME Typed, RowsControl, AnswerControl, Effect, NEW r \in Requests, NEW a, NEW i \in Instances,
         NEW key, NEW new \in Rows, Grows(i, new), past[i] = <<NoRow>>, new.key = key, new # NoRow,
         a.at = i, a.op = "create", Goes(r, a, 1, "ok", key, "")
  PROVE  AnswerControl'
<1>1. \E len, more \in Nat :
        /\ len = Place(i) /\ len = Len(past[i]) /\ more = Len(past'[i]) /\ 1 <= len /\ len <= more
        /\ past'[i][len] = Row(i) /\ Row(i) \in Rows
        /\ \A row \in Rows : Grows(i, row) => more = len + 1 /\ past'[i][more] = row
        /\ past' = past => more = len
  BY ONLY Typed, RowsControl, Effect, i \in Instances, History
<1>2. Len(past'[i]) = 2 /\ past'[i][2] = new
  <2>1. Len(past[i]) = 1
    OBVIOUS
  <2> QED BY <1>1, <2>1, Places, Zenon
<1>3. ASSUME NEW q, q.pc = "ok", q.ask = a, q.since = 1, q.till = 2, q.key = key
      PROVE  Good(past'[i], q)
  <2>1. Matches(q, past'[i][2]) /\ ~ Keeps(q)
    BY <1>2, <1>3 DEF Matches, Keeps
  <2>2. 2 \in 1..2
    BY Places, Zenon
  <2>3. Honest(past'[i], q)
    BY <1>3, <2>1, <2>2, Zenon DEF Honest
  <2> QED BY <1>2, <1>3, <2>3 DEF Good
<1>4. \A q : q.pc = "ok" /\ q.ask = a /\ q.since = 1 /\ q.till = Len(past'[a.at])
               /\ q.key = key /\ q.secret = "" => Good(past'[a.at], q)
  BY <1>2, <1>3
<1> QED BY <1>4, GoesGood

(* The API and the form that was given a secret, or neither.               *)
Gives(a, pc, secret) ==
  /\ a.url = "" => a.secret = ""
  /\ \/ a.op = "webhook" /\ pc = "ok"
     \/ a.op = "webhookForm" /\ pc = "page" /\ secret = a.secret /\ (a.url = "" \/ a.secret # "")

LEMMA AnswerStep ==
  ASSUME Typed, RowsControl, LoadedControl, AnswerControl, [Next]_vars, Effect
  PROVE  AnswerControl'
<1>0. /\ \A a \in Asks : a \in AskType /\ a.at \in Instances /\ a.op \in Text /\ a.name \in Text
                          /\ a.key \in Text /\ a.url \in Text /\ a.secret \in Text
      /\ \A r \in Requests : request[r].pc \in {"found", "loaded", "page"} =>
           /\ request[r].ask \in AskType /\ At(r) \in Instances /\ request[r].ask.url \in Text
           /\ request[r].key \in Text /\ request[r].secret \in Text
           /\ request[r].since \in Nat /\ 1 <= request[r].since
      /\ "" \in Text /\ \A r \in Requests : Minted[r] \in Text
  BY StoreAssumption, TextHas DEF AskType, Typed, Ended, Carrying, At
<1>1. ASSUME NEW r \in Requests, NEW answer \in Ended, Answer(r, answer) PROVE AnswerControl'
  BY <1>1, AnswerGood
<1>2. ASSUME NEW r \in Requests, NEW a \in Asks, Refuse(r, a) \/ Fail(r, a) PROVE AnswerControl'
  BY <1>1, <1>2 DEF Refuse, Fail, Ended
<1>3. ASSUME NEW r \in Requests, NEW a \in Asks, Create(r, a) PROVE AnswerControl'
  <2>1. CASE Answer(r, "taken")
    BY <1>1, <2>1 DEF Ended
  <2>2. ASSUME NEW i \in Instances, NEW key \in Text, Insert(i, a, key),
               Goes(r, [a EXCEPT !.at = i], 1, "ok", key, "")
        PROVE  AnswerControl'
    <3>1. PICK new : new = [name |-> a.name, key |-> key, url |-> a.url, secret |-> a.secret]
      OBVIOUS
    <3>2. new \in Rows /\ Grows(i, new) /\ past[i] = <<NoRow>> /\ new.name = a.name /\ new.key = key
      BY <1>0, <2>2, <3>1 DEF Insert, Grows, Rows
    <3>3. new # NoRow
      <4>1. a.name # "" /\ NoRow.name = ""
        BY <1>3 DEF Create, Invalid, NoRow
      <4> QED BY <3>2, <4>1
    <3>4. PICK b : b = [a EXCEPT !.at = i]
      OBVIOUS
    <3>5. b.at = i /\ b.op = "create"
      BY <1>0, <1>3, <3>4 DEF AskType, Create
    <3>6. Goes(r, b, 1, "ok", key, "")
      BY <2>2, <3>4, Zenon
    <3> QED BY <3>2, <3>3, <3>5, <3>6, CreateGood
  <2> QED BY <1>0, <1>3, <2>1, <2>2 DEF Create
<1>4. ASSUME NEW r \in Requests, NEW a \in Asks, GetByID(r, a) PROVE AnswerControl'
  <2>1. CASE \E answer \in {"missing", "none"} : Answer(r, answer)
    BY <1>1, <2>1 DEF Ended
  <2>2. CASE \E pc \in {"found", "ok"} : \E key :
               /\ Goes(r, a, Place(a.at), pc, key, "") /\ Present(a.at)
               /\ pc = "found" => a.op \in {"setKey", "rotate", "rotateForm"}
               /\ pc = "ok" => a.op = "reveal" /\ key = Row(a.at).key
    <3>1. past' = past /\ a \in AskType
      BY <1>0, <1>4 DEF GetByID
    <3> QED BY <2>2, <3>1, LooksGood
  <2> QED BY <1>4, <2>1, <2>2 DEF GetByID
<1>5. ASSUME NEW r \in Requests, NEW a \in Asks, LoadWebhookSecret(r, a) PROVE AnswerControl'
  <2>1. CASE \E answer \in {"missing", "refused"} : Answer(r, answer)
    BY <1>1, <2>1 DEF Ended
  <2>2. CASE Present(a.at) /\ Goes(r, a, Place(a.at), "loaded", "", Row(a.at).secret)
    <3>1. /\ past' = past /\ a \in AskType /\ a.op = "webhookForm" /\ a.url # "" /\ a.secret = ""
      BY <1>0, <1>5 DEF LoadWebhookSecret
    <3> QED BY <2>2, <3>1, LooksGood
  <2> QED BY <1>5, <2>1, <2>2 DEF LoadWebhookSecret
<1>6. ASSUME NEW r \in Requests, Render(r) \/ FailLater(r) PROVE AnswerControl'
  <2>1. CASE \E answer \in {"missing", "failed"} : Answer(r, answer)
    BY <1>1, <2>1 DEF Ended
  <2>2. CASE Render(r) /\ Present(At(r))
    BY <2>2, PageGood DEF Render
  <2> QED BY <1>6, <2>1, <2>2 DEF Render, FailLater
<1>7. ASSUME NEW r \in Requests, NEW a \in AskType, NEW since \in Nat, NEW pc \in {"page", "ok"},
             NEW key, NEW secret, NEW i \in Instances, i = a.at, Known(i),
             1 <= since, since <= Place(i), Goes(r, a, since, pc, key, secret),
             \/ past' = past /\ ~ Present(i)
             \/ \E new \in Rows :
                  /\ Grows(i, new) /\ new # NoRow
                  /\ IF a.op \in {"webhook", "webhookForm"}
                     THEN /\ new.url = a.url /\ a.secret \in {"", new.secret}
                          /\ a.op = "webhookForm" => new.secret = secret
                     ELSE new.key = key,
             a.op = "webhookForm" /\ a.url # "" /\ a.secret = "" => past[i][since].secret = secret,
             pc = "page" => a.op \in {"rotateForm", "webhookForm"},
             pc = "ok" => a.op \in {"setKey", "rotate", "webhook"}
      PROVE  AnswerControl'
  BY <1>7, WritesGood
<1>8. ASSUME NEW i \in Instances PROVE Place(i) \in Nat /\ 1 <= Place(i)
  BY Extends, Placed
<1>9. ASSUME NEW r \in Requests, request[r].pc \in {"found", "loaded"}
      PROVE  /\ Known(At(r)) /\ request[r].ask.at = At(r) /\ request[r].since <= Place(At(r))
             /\ request[r].pc = "found" => request[r].ask.op \in {"setKey", "rotate", "rotateForm"}
             /\ request[r].pc = "loaded" =>
                  /\ request[r].ask.op = "webhookForm" /\ request[r].ask.url # "" /\ request[r].ask.secret = ""
                  /\ past[At(r)][request[r].since].secret = request[r].secret
  <2>1. Good(past[At(r)], request[r])
    BY DEF AnswerControl
  <2>2. request[r].since <= Place(At(r))
    <3>1. /\ request[r] \in Carrying /\ request[r].since <= request[r].till /\ request[r].till <= Place(At(r))
          /\ At(r) \in Instances
      BY <1>0, <1>9 DEF Typed, Ended
    <3>2. Place(At(r)) \in Nat
      BY <1>8, <3>1
    <3> QED BY <3>1, <3>2 DEF Carrying
  <2> QED BY <1>9, <2>1, <2>2 DEF Good, Keeps, Known, Present, Row, At
<1>10. ASSUME NEW r \in Requests, PutKey(r) \/ PutKeyForm(r) PROVE AnswerControl'
  <2>1. CASE Answer(r, "panic")
    BY <1>1, <2>1 DEF Ended
  <2>2. ASSUME NEW pc \in {"page", "ok"}, Proceed(r, pc), request[r].pc = "found",
               SetAPIKey(At(r), request[r].key),
               pc = "page" => request[r].ask.op = "rotateForm",
               pc = "ok" => request[r].ask.op \in {"setKey", "rotate"}
        PROVE  AnswerControl'
    <3>1. PICK i \in Instances, a \in AskType, since \in Nat, key \in Text, secret \in Text :
            /\ i = At(r) /\ a = request[r].ask /\ since = request[r].since
            /\ key = request[r].key /\ secret = request[r].secret
      BY <1>0, <2>2
    <3>2. Known(i) /\ i = a.at /\ since <= Place(i) /\ 1 <= since /\ a.op \in {"setKey", "rotate", "rotateForm"}
      BY <1>0, <1>9, <2>2, <3>1
    <3>3. Goes(r, a, since, pc, key, secret)
      BY <2>2, <3>1 DEF Proceed
    <3>4. SetAPIKey(i, key)
      BY <2>2, <3>1
    <3>5. \/ past' = past /\ ~ Present(i)
          \/ \E new \in Rows : Grows(i, new) /\ new # NoRow /\ new.key = key
      BY <3>4, SetKeyEffect
    <3>6. /\ a.op \notin {"webhook", "webhookForm"} /\ (pc = "page" => a.op = "rotateForm")
          /\ (pc = "ok" => a.op \in {"setKey", "rotate"})
      BY <2>2, <3>1, <3>2
    <3> QED BY <1>7, <3>2, <3>3, <3>5, <3>6
  <2> QED BY <1>10, <2>1, <2>2 DEF PutKey, PutKeyForm
<1>11. ASSUME NEW r \in Requests, NEW a \in Asks, NEW pc \in {"page", "ok"}, NEW secret \in Text,
              Begins(r, a), Goes(r, a, Place(a.at), pc, "", secret),
              SetWebhook(a.at, a.url, a.secret), Gives(a, pc, secret)
       PROVE  AnswerControl'
  <2>1. PICK i \in Instances, since \in Nat : i = a.at /\ since = Place(i) /\ 1 <= since /\ Known(i)
    BY <1>0, <1>8, <1>11 DEF Begins, Gives
  <2>2. /\ i \in Instances /\ a.url \in Text /\ a.secret \in Text /\ SetWebhook(i, a.url, a.secret)
        /\ a \in AskType /\ since <= Place(i)
    <3>1. since <= Place(i)
      BY <1>8, <2>1
    <3> QED BY <1>0, <1>11, <2>1, <3>1
  <2>3. \/ past' = past /\ ~ Present(i)
        \/ \E new \in Rows : Grows(i, new) /\ new # NoRow /\ new.url = a.url /\ new.secret = a.secret
    <3>1. PICK url \in Text, typed \in Text :
            /\ url = a.url /\ typed = a.secret /\ SetWebhook(i, url, typed) /\ (url = "" => typed = "")
      BY <1>11, <2>2 DEF Gives
    <3>2. \/ past' = past /\ ~ Present(i)
          \/ \E new \in Rows : Grows(i, new) /\ new # NoRow /\ new.url = url /\ new.secret = typed
      <4>1. Saved(i, url, typed)
        BY <3>1, SetWebhookEffect
      <4> QED BY <4>1 DEF Saved
    <3> QED BY <3>1, <3>2
  <2>4. Goes(r, a, since, pc, "", secret)
    BY <1>11, <2>1, Zenon
  <2> QED BY <1>7, <1>11, <2>1, <2>2, <2>3, <2>4 DEF Gives
<1>12. ASSUME NEW r \in Requests, NEW a \in Asks, PutWebhook(r, a) PROVE AnswerControl'
  <2>1. CASE Answer(r, "refused")
    BY <1>1, <2>1 DEF Ended
  <2>2. CASE SetWebhook(a.at, a.url, a.secret) /\ Ok(r, a)
    <3>1. a.url = "" => a.secret = ""
      BY <1>12, StoreAssumption DEF PutWebhook, Invalid
    <3>2. Begins(r, a) /\ a.op = "webhook" /\ Goes(r, a, Place(a.at), "ok", "", "")
      BY <1>12, <2>2 DEF PutWebhook, Ok
    <3>3. PICK pc \in {"page", "ok"}, secret \in Text : pc = "ok" /\ Goes(r, a, Place(a.at), pc, "", secret)
      BY <1>0, <3>2
    <3>4. Gives(a, pc, secret)
      BY <3>1, <3>2, <3>3 DEF Gives
    <3> QED BY <1>11, <2>2, <3>2, <3>3, <3>4
  <2> QED BY <1>12, <2>1, <2>2 DEF PutWebhook
<1>13. ASSUME NEW r \in Requests, NEW a \in Asks, SaveTyped(r, a) PROVE AnswerControl'
  <2>1. a.url = "" => a.secret = ""
    BY <1>13, StoreAssumption DEF SaveTyped, Invalid
  <2>2. PICK pc \in {"page", "ok"} : pc = "page"
    OBVIOUS
  <2>3. /\ Begins(r, a) /\ Goes(r, a, Place(a.at), pc, "", a.secret) /\ SetWebhook(a.at, a.url, a.secret)
        /\ Gives(a, pc, a.secret) /\ a.secret \in Text
    BY <1>0, <1>13, <2>1, <2>2 DEF SaveTyped, Gives
  <2> QED BY <1>11, <2>3
<1>14. ASSUME NEW r \in Requests, SaveKept(r) PROVE AnswerControl'
  <2>1. request[r].pc = "loaded" /\ Proceed(r, "page")
    BY <1>14 DEF SaveKept
  <2>2. PICK i \in Instances, a \in AskType, since \in Nat, key \in Text, secret \in Text :
          /\ i = At(r) /\ a = request[r].ask /\ since = request[r].since
          /\ key = request[r].key /\ secret = request[r].secret
    BY <1>0, <2>1
  <2>3. /\ Known(i) /\ i = a.at /\ since <= Place(i) /\ 1 <= since
        /\ a.op = "webhookForm" /\ a.url # "" /\ a.secret = "" /\ past[i][since].secret = secret
    BY <1>0, <1>9, <2>1, <2>2
  <2>4. Goes(r, a, since, "page", key, secret)
    BY <2>1, <2>2 DEF Proceed
  <2>5. SetWebhook(i, a.url, secret) /\ a.url \in Text
    BY <1>14, <2>2 DEF SaveKept, AskType
  <2>6. \/ past' = past /\ ~ Present(i)
        \/ \E new \in Rows : Grows(i, new) /\ new # NoRow /\ new.url = a.url /\ new.secret = secret
    <3>1. PICK url \in Text : url = a.url /\ SetWebhook(i, url, secret) /\ (url = "" => secret = "")
      BY <2>3, <2>5
    <3>2. \/ past' = past /\ ~ Present(i)
          \/ \E new \in Rows : Grows(i, new) /\ new # NoRow /\ new.url = url /\ new.secret = secret
      <4>1. Saved(i, url, secret)
        BY <3>1, SetWebhookEffect
      <4> QED BY <4>1 DEF Saved
    <3> QED BY <3>1, <3>2
  <2> QED BY <1>7, <2>3, <2>4, <2>6
<1>15. ASSUME NEW r \in Requests, NEW a \in Asks, Remove(r, a) PROVE AnswerControl'
  <2>1. a.at \in Instances /\ Extended /\ a.op = "delete" /\ Known(a.at)
    BY <1>0, <1>15, Extends DEF Remove, Begins
  <2>2. ASSUME NEW q, q.pc = "ok", q.ask = a PROVE Good(past'[a.at], q)
    <3>1. Len(past'[a.at]) > 1 \/ past'[a.at][Len(past'[a.at])] # NoRow
      <4>1. \E len, more \in Nat :
              /\ len = Place(a.at) /\ len = Len(past[a.at]) /\ more = Len(past'[a.at]) /\ 1 <= len /\ len <= more
              /\ past'[a.at][len] = Row(a.at) /\ Row(a.at) \in Rows
              /\ \A row \in Rows : Grows(a.at, row) => more = len + 1 /\ past'[a.at][more] = row
              /\ past' = past => more = len
        BY ONLY Typed, RowsControl, Effect, <2>1, History
      <4>2. CASE Present(a.at)
        <5>1. Grows(a.at, NoRow) /\ NoRow \in Rows
          BY <1>15, <2>1, <4>2, RowType DEF Remove, Delete, Update, Grows
        <5>2. \A k \in Nat : 1 <= k => k + 1 > 1
          OBVIOUS
        <5> QED BY <4>1, <5>1, <5>2
      <4>3. CASE ~ Present(a.at)
        BY <1>15, <2>1, <4>3 DEF Remove, Delete, Update, Known
      <4> QED BY <4>2, <4>3
    <3> QED BY <2>1, <2>2, <3>1 DEF Good
  <2>3. \A q : q.pc = "ok" /\ q.ask = a /\ q.since = Place(a.at) /\ q.till = Len(past'[a.at])
                 /\ q.key = "" /\ q.secret = "" => Good(past'[a.at], q)
    BY <2>2
  <2> QED BY <1>15, <2>3, GoesGood DEF Remove, Ok
<1>16. CASE UNCHANGED vars
  BY <1>16 DEF vars, AnswerControl, At
<1> QED BY <1>2, <1>3, <1>4, <1>5, <1>6, <1>10, <1>12, <1>13, <1>14, <1>15, <1>16 DEF Next

-----------------------------------------------------------------------------
(* Generated keys.  The request that made one stores it once, from where   *)
(* only a statement on the same row copies it.                             *)
Stale == {"new", "found"}

KeyControl ==
  /\ \A r \in Requests : request[r].pc = "found" =>
       request[r].key = Minted[r] \/ \A s \in Requests : request[r].key # Minted[s]
  /\ \A r \in Requests, i \in Instances : \A n \in 1..Len(past[i]) :
       past[i][n].key = Minted[r] => request[r].pc \notin Stale
  /\ \A r \in Requests, i, j \in Instances : \A m \in 1..Len(past[i]), n \in 1..Len(past[j]) :
       past[i][m].key = Minted[r] /\ past[j][n].key = Minted[r] =>
         i = j /\ \A k \in m..n : past[i][k].key = Minted[r]

(* Where the key of a new row comes from.                                  *)
KeyFrom(i, new) ==
  \/ new.key = Row(i).key
  \/ \A s \in Requests : new.key # Minted[s]
  \/ \E r \in Requests : new.key = Minted[r] /\ request[r].pc \in Stale /\ request'[r].pc \notin Stale

RequestsMoveOn ==
  \A r \in Requests :
    /\ request'[r].pc \in Stale => request[r].pc \in Stale
    /\ request'[r].pc = "found" =>
         request'[r].key = Minted[r] \/ \A s \in Requests : request'[r].key # Minted[s]

LEMMA KeyControlStep ==
  ASSUME Typed, KeyControl, RequestsMoveOn,
         past' = past \/ \E i \in Instances, new \in Rows : Grows(i, new) /\ KeyFrom(i, new)
  PROVE  KeyControl'
<1>1. ASSUME past' = past PROVE KeyControl'
  BY <1>1 DEF KeyControl, RequestsMoveOn
<1>2. ASSUME NEW i \in Instances, NEW new \in Rows, Grows(i, new), KeyFrom(i, new) PROVE KeyControl'
  <2>1. PICK len \in Nat : len = Len(past[i]) /\ len >= 1 /\ len \in 1..len
    <3>1. past[i] \in Seq(Rows) /\ Len(past[i]) >= 1
      BY DEF Typed
    <3> QED BY <3>1
  <2>2. /\ \A j \in Instances \ {i} : past'[j] = past[j]
        /\ Len(past'[i]) = len + 1 /\ past'[i][len + 1] = new
        /\ \A n \in 1..len : past'[i][n] = past[i][n]
    BY <1>2, <2>1, Longer DEF Typed
  <2>3. \A n \in 1..len + 1 : n \in 1..len \/ n = len + 1
    BY <2>1
  <2>4. ASSUME NEW r \in Requests, NEW j \in Instances, NEW n \in 1..Len(past'[j]),
               past'[j][n].key = Minted[r]
        PROVE  request'[r].pc \notin Stale /\ (n \in 1..Len(past[j]) \/ (j = i /\ n = len + 1))
    <3>1. n \in 1..Len(past[j]) \/ (j = i /\ n = len + 1)
      BY <2>1, <2>2, <2>3
    <3>2. CASE n \in 1..Len(past[j])
      <4>1. past[j][n].key = Minted[r]
        BY <2>1, <2>2, <2>4, <3>2
      <4>2. request[r].pc \notin Stale
        BY <3>2, <4>1 DEF KeyControl
      <4> QED BY <3>1, <4>2 DEF RequestsMoveOn
    <3>3. CASE j = i /\ n = len + 1
      <4>1. new.key = Minted[r]
        BY <2>2, <2>4, <3>3
      <4>2. CASE new.key = Row(i).key
        <5>1. past[i][len].key = Minted[r]
          BY <2>1, <4>1, <4>2 DEF Row
        <5>2. request[r].pc \notin Stale
          BY <2>1, <5>1 DEF KeyControl
        <5> QED BY <3>1, <5>2 DEF RequestsMoveOn
      <4>3. CASE \E s \in Requests : new.key = Minted[s] /\ request'[s].pc \notin Stale
        BY <3>1, <4>1, <4>3, StoreAssumption
      <4> QED BY <1>2, <4>1, <4>2, <4>3 DEF KeyFrom
    <3> QED BY <3>1, <3>2, <3>3
  <2>5. ASSUME NEW r \in Requests, new.key = Minted[r], new.key # Row(i).key
        PROVE  \A j \in Instances : \A n \in 1..Len(past[j]) : past[j][n].key # Minted[r]
    <3>1. request[r].pc \in Stale
      BY <1>2, <2>5, StoreAssumption DEF KeyFrom
    <3> QED BY <3>1 DEF KeyControl
  <2>6. ASSUME NEW r \in Requests, NEW a \in Instances, NEW b \in Instances,
               NEW m \in 1..Len(past'[a]), NEW n \in 1..Len(past'[b]),
               past'[a][m].key = Minted[r], past'[b][n].key = Minted[r]
        PROVE  a = b /\ \A k \in m..n : past'[a][k].key = Minted[r]
    <3>1. /\ m \in 1..Len(past[a]) => past[a][m].key = Minted[r]
          /\ n \in 1..Len(past[b]) => past[b][n].key = Minted[r]
      BY <2>1, <2>2, <2>6
    <3>2. /\ m \in 1..Len(past[a]) \/ (a = i /\ m = len + 1)
          /\ n \in 1..Len(past[b]) \/ (b = i /\ n = len + 1)
      BY <2>4, <2>6
    <3>3. CASE m \in 1..Len(past[a]) /\ n \in 1..Len(past[b])
      <4>1. a = b /\ \A k \in m..n : past[a][k].key = Minted[r]
        BY <3>1, <3>3 DEF KeyControl
      <4>2. ASSUME NEW k \in m..n PROVE past'[a][k] = past[a][k]
        <5>1. CASE a = i
          <6>1. k \in 1..len
            BY <2>1, <3>3, <4>1, <5>1
          <6> QED BY <2>2, <5>1, <6>1
        <5>2. CASE a # i
          BY <2>2, <5>2
        <5> QED BY <5>1, <5>2
      <4> QED BY <4>1, <4>2
    <3>4. CASE m \in 1..Len(past[a]) /\ b = i /\ n = len + 1
      <4>1. new.key = Minted[r]
        BY <2>2, <2>6, <3>4
      <4>2. past[i][len].key = Minted[r]
        BY <2>1, <2>5, <3>1, <3>4, <4>1 DEF Row
      <4>3. a = i /\ \A k \in m..len : past[i][k].key = Minted[r]
        BY <2>1, <3>1, <3>4, <4>2 DEF KeyControl
      <4>4. ASSUME NEW k \in m..n PROVE past'[a][k].key = Minted[r]
        <5>1. CASE k = len + 1
          BY <2>2, <4>1, <4>3, <5>1
        <5>2. CASE k # len + 1
          <6>1. k \in m..len /\ k \in 1..len
            BY <2>1, <3>4, <4>3, <5>2
          <6> QED BY <2>2, <4>3, <6>1
        <5> QED BY <5>1, <5>2
      <4> QED BY <3>4, <4>3, <4>4
    <3>5. CASE a = i /\ m = len + 1
      <4>1. new.key = Minted[r]
        BY <2>2, <2>6, <3>5
      <4>2. CASE b = i /\ n = len + 1
        <5>1. \A k \in m..n : k = len + 1
          BY <2>1, <3>5, <4>2
        <5> QED BY <2>2, <3>5, <4>1, <4>2, <5>1
      <4>3. CASE n \in 1..Len(past[b])
        <5>1. past[i][len].key = Minted[r]
          BY <2>1, <2>5, <3>1, <4>1, <4>3 DEF Row
        <5>2. a = b
          BY <2>1, <3>1, <3>5, <4>3, <5>1 DEF KeyControl
        <5>3. m..n = {}
          BY <2>1, <3>5, <4>3, <5>2
        <5> QED BY <5>2, <5>3
      <4> QED BY <3>2, <4>2, <4>3
    <3> QED BY <3>2, <3>3, <3>4, <3>5
  <2>7. \A r \in Requests : request'[r].pc = "found" =>
          request'[r].key = Minted[r] \/ \A s \in Requests : request'[r].key # Minted[s]
    BY DEF RequestsMoveOn
  <2> QED BY <2>4, <2>6, <2>7 DEF KeyControl
<1> QED BY <1>1, <1>2

KeyEffect == past' = past \/ \E i \in Instances, new \in Rows : Grows(i, new) /\ KeyFrom(i, new)

LEMMA KeyStep ==
  ASSUME Typed, RowsControl, LoadedControl, KeyControl, [Next]_vars
  PROVE  KeyControl'
<1>0. /\ \A a \in Asks : a \in AskType /\ a.at \in Instances /\ a.op \in Text /\ a.name \in Text
                          /\ a.key \in Text /\ a.url \in Text /\ a.secret \in Text
      /\ \A r \in Requests : request[r].pc \in {"found", "loaded", "page"} =>
           /\ request[r].ask \in AskType /\ At(r) \in Instances /\ request[r].ask.url \in Text
           /\ request[r].key \in Text /\ request[r].secret \in Text
      /\ "" \in Text /\ \A r \in Requests : Minted[r] \in Text
  BY StoreAssumption, TextHas DEF AskType, Typed, Ended, Carrying, At
<1>1. \A a \in Asks, r \in Requests : a.key # Minted[r] /\ Minted[r] # ""
  BY StoreAssumption
<1>2. ASSUME NEW r \in Requests, NEW q, request' = [request EXCEPT ![r] = q], q.pc \in Stale => request[r].pc \in Stale,
             q.pc = "found" => q.key = Minted[r] \/ \A s \in Requests : q.key # Minted[s]
      PROVE  RequestsMoveOn /\ request'[r] = q
  BY <1>2 DEF RequestsMoveOn, KeyControl, Typed, Stale
<1>3. ASSUME NEW r \in Requests, NEW answer \in Ended, Answer(r, answer)
      PROVE  RequestsMoveOn /\ request'[r].pc \notin Stale
  <2>1. PICK q : q = [pc |-> answer]
    OBVIOUS
  <2>2. q.pc \notin Stale /\ q.pc # "found" /\ request' = [request EXCEPT ![r] = q]
    BY <1>3, <2>1 DEF Answer, Stale, Ended
  <2> QED BY <1>2, <2>2
<1>4. ASSUME NEW r \in Requests, NEW a, NEW since, NEW pc, NEW key, NEW secret,
             Goes(r, a, since, pc, key, secret), pc # "new",
             pc = "found" => /\ request[r].pc = "new"
                             /\ key = Minted[r] \/ \A s \in Requests : key # Minted[s]
      PROVE  RequestsMoveOn /\ (pc # "found" => request'[r].pc \notin Stale)
  <2>1. PICK q : q = [pc |-> pc, ask |-> a, since |-> since, till |-> Len(past'[a.at]),
                      key |-> key, secret |-> secret]
    OBVIOUS
  <2>2. q.pc = pc /\ q.key = key /\ request' = [request EXCEPT ![r] = q]
    BY <1>4, <2>1 DEF Goes
  <2>3. q.pc \in Stale => request[r].pc \in Stale
    BY <1>4, <2>2 DEF Stale
  <2>4. RequestsMoveOn /\ request'[r] = q
    BY <1>2, <1>4, <2>2, <2>3
  <2> QED BY <1>4, <2>2, <2>4 DEF Stale
<1>5. ASSUME RequestsMoveOn, KeyEffect PROVE KeyControl'
  BY <1>5, KeyControlStep DEF KeyEffect
<1>6. ASSUME past' = past PROVE KeyEffect
  BY <1>6 DEF KeyEffect
<1>7. ASSUME NEW r \in Requests, NEW a \in Asks, Refuse(r, a) \/ Fail(r, a) PROVE KeyControl'
  BY <1>3, <1>5, <1>6, <1>7 DEF Refuse, Fail, Ended
<1>8. ASSUME NEW r \in Requests, NEW a \in Asks, Create(r, a) PROVE KeyControl'
  <2>1. CASE UNCHANGED past /\ Answer(r, "taken")
    BY <1>3, <1>5, <1>6, <2>1 DEF Ended
  <2>2. ASSUME NEW i \in Instances, NEW key \in Text, key = Minted[r] \/ key = a.key, Insert(i, a, key),
               Goes(r, [a EXCEPT !.at = i], 1, "ok", key, "")
        PROVE  KeyControl'
    <3>1. PICK new : new = [name |-> a.name, key |-> key, url |-> a.url, secret |-> a.secret]
      OBVIOUS
    <3>2. new \in Rows /\ Grows(i, new) /\ new.key = key
      BY <1>0, <2>2, <3>1 DEF Insert, Grows, Rows
    <3>3. PICK b, since, pc : pc = "ok" /\ Goes(r, b, since, pc, key, "")
      BY <2>2
    <3>4. RequestsMoveOn /\ request'[r].pc \notin Stale
      <4>1. pc # "new" /\ pc # "found" /\ Goes(r, b, since, pc, key, "")
        BY <3>3
      <4> QED BY <1>4, <4>1, Zenon
    <3>5. request[r].pc \in Stale
      BY <1>8 DEF Create, Begins, Stale
    <3>6. KeyFrom(i, new)
      BY <1>1, <2>2, <3>2, <3>4, <3>5 DEF KeyFrom
    <3> QED BY <1>5, <3>2, <3>4, <3>6 DEF KeyEffect
  <2>3. CASE \E i \in Instances :
               LET key == IF a.key = "" THEN Minted[r] ELSE a.key
               IN  Insert(i, a, key) /\ Goes(r, [a EXCEPT !.at = i], 1, "ok", key, "")
    BY <1>0, <2>2, <2>3
  <2> QED BY <1>8, <2>1, <2>3 DEF Create
<1>9. ASSUME NEW r \in Requests, NEW a \in Asks, GetByID(r, a) PROVE KeyControl'
  <2>1. KeyEffect /\ request[r].pc = "new"
    BY <1>6, <1>9 DEF GetByID, Begins
  <2>2. CASE \E answer \in {"missing", "none"} : Answer(r, answer)
    BY <1>3, <1>5, <2>1, <2>2 DEF Ended
  <2>3. CASE \E key : Goes(r, a, Place(a.at), "found", key, "") /\ (key = Minted[r] \/ key = a.key)
    BY <1>1, <1>4, <1>5, <2>1, <2>3
  <2>4. CASE \E key : Goes(r, a, Place(a.at), "ok", key, "")
    BY <1>4, <1>5, <2>1, <2>4
  <2> QED BY <1>9, <2>2, <2>3, <2>4 DEF GetByID
<1>10. ASSUME NEW r \in Requests, PutKey(r) \/ PutKeyForm(r) PROVE KeyControl'
  <2>1. request[r].pc = "found" /\ SetAPIKey(At(r), request[r].key)
    BY <1>10 DEF PutKey, PutKeyForm
  <2>2. Answer(r, "panic") \/ \E pc \in {"ok", "page"} : Proceed(r, pc)
    BY <1>10 DEF PutKey, PutKeyForm
  <2>3. RequestsMoveOn /\ request'[r].pc \notin Stale
    <3>1. CASE Answer(r, "panic")
      BY <1>3, <3>1 DEF Ended
    <3>2. CASE \E pc \in {"ok", "page"} : Proceed(r, pc)
      BY <1>4, <3>2 DEF Proceed
    <3> QED BY <2>2, <3>1, <3>2
  <2>4. PICK i \in Instances, key \in Text : i = At(r) /\ key = request[r].key /\ SetAPIKey(i, key)
    BY <1>0, <2>1
  <2>5. CASE past' = past
    BY <1>5, <1>6, <2>3, <2>5
  <2>6. ASSUME NEW new \in Rows, Grows(i, new), new.key = key PROVE KeyControl'
    <3>1. key = Minted[r] \/ \A s \in Requests : key # Minted[s]
      BY <2>1, <2>4 DEF KeyControl
    <3>2. KeyFrom(i, new)
      BY <2>1, <2>3, <2>6, <3>1 DEF KeyFrom, Stale
    <3> QED BY <1>5, <2>3, <2>6, <3>2 DEF KeyEffect
  <2> QED BY <2>4, <2>5, <2>6, SetKeyEffect
<1>11. ASSUME NEW i \in Instances, NEW url, NEW secret, Saved(i, url, secret), RequestsMoveOn PROVE KeyControl'
  <2>1. CASE past' = past
    BY <1>5, <1>6, <1>11, <2>1
  <2>2. ASSUME NEW new \in Rows, Grows(i, new), new.key = Row(i).key PROVE KeyControl'
    BY <1>5, <1>11, <2>2 DEF KeyEffect, KeyFrom
  <2> QED BY <1>11, <2>1, <2>2 DEF Saved
<1>12. ASSUME NEW r \in Requests, NEW a \in Asks, PutWebhook(r, a) \/ SaveTyped(r, a) PROVE KeyControl'
  <2>1. CASE UNCHANGED past /\ Answer(r, "refused")
    BY <1>3, <1>5, <1>6, <2>1 DEF Ended
  <2>2. ASSUME NEW pc \in {"ok", "page"}, NEW secret, SetWebhook(a.at, a.url, a.secret),
               Goes(r, a, Place(a.at), pc, "", secret)
        PROVE  KeyControl'
    <3>1. RequestsMoveOn
      BY <1>4, <2>2
    <3>2. a.url = "" => a.secret = ""
      BY <1>12, StoreAssumption DEF PutWebhook, SaveTyped, Invalid
    <3>3. PICK i \in Instances, url \in Text, typed \in Text :
            SetWebhook(i, url, typed) /\ (url = "" => typed = "")
      BY <1>0, <2>2, <3>2
    <3>4. Saved(i, url, typed)
      BY <3>3, SetWebhookEffect
    <3> QED BY <1>11, <3>1, <3>4
  <2> QED BY <1>12, <2>1, <2>2 DEF PutWebhook, SaveTyped, Ok
<1>13. ASSUME NEW r \in Requests, SaveKept(r) PROVE KeyControl'
  <2>1. request[r].pc = "loaded" /\ Proceed(r, "page")
    BY <1>13 DEF SaveKept
  <2>2. PICK pc : pc = "page" /\ Proceed(r, pc)
    BY <2>1
  <2>3. RequestsMoveOn
    BY <1>4, <2>2 DEF Proceed
  <2>4. PICK i \in Instances, url \in Text, secret \in Text : SetWebhook(i, url, secret) /\ (url = "" => secret = "")
    BY <1>0, <1>13, <2>1 DEF SaveKept, LoadedControl
  <2>5. Saved(i, url, secret)
    BY <2>4, SetWebhookEffect
  <2> QED BY <1>11, <2>3, <2>5
<1>14. ASSUME NEW r \in Requests, NEW a \in Asks, LoadWebhookSecret(r, a) PROVE KeyControl'
  <2>1. KeyEffect
    BY <1>6, <1>14 DEF LoadWebhookSecret
  <2>2. CASE \E answer \in {"missing", "refused"} : Answer(r, answer)
    BY <1>3, <1>5, <2>1, <2>2 DEF Ended
  <2>3. CASE Goes(r, a, Place(a.at), "loaded", "", Row(a.at).secret)
    BY <1>4, <1>5, <2>1, <2>3
  <2> QED BY <1>14, <2>2, <2>3 DEF LoadWebhookSecret
<1>15. ASSUME NEW r \in Requests, NEW a \in Asks, Remove(r, a) PROVE KeyControl'
  <2>1. RequestsMoveOn
    <3>1. PICK pc : pc = "ok" /\ Goes(r, a, Place(a.at), pc, "", "")
      BY <1>15 DEF Remove, Ok
    <3> QED BY <1>4, <3>1
  <2>2. KeyEffect
    <3>1. NoRow \in Rows /\ NoRow.key = "" /\ a.at \in Instances
      BY <1>0, RowType DEF NoRow
    <3>2. past' = past \/ Grows(a.at, NoRow)
      BY <1>15 DEF Remove, Delete, Update, Grows
    <3>3. KeyFrom(a.at, NoRow)
      BY <1>1, <3>1 DEF KeyFrom
    <3> QED BY <3>1, <3>2, <3>3 DEF KeyEffect
  <2> QED BY <1>5, <2>1, <2>2
<1>16. ASSUME NEW r \in Requests, Render(r) \/ FailLater(r) PROVE KeyControl'
  <2>1. KeyEffect
    BY <1>6, <1>16 DEF Render, FailLater
  <2>2. CASE \E answer \in {"missing", "failed"} : Answer(r, answer)
    BY <1>3, <1>5, <2>1, <2>2 DEF Ended
  <2>3. CASE Proceed(r, "ok")
    <3>1. PICK pc : pc = "ok" /\ Proceed(r, pc)
      BY <2>3
    <3>2. RequestsMoveOn
      BY <1>4, <3>1 DEF Proceed
    <3> QED BY <1>5, <2>1, <3>2
  <2> QED BY <1>16, <2>2, <2>3 DEF Render, FailLater
<1>17. CASE UNCHANGED vars
  BY <1>17 DEF vars, KeyControl
<1> QED BY <1>7, <1>8, <1>9, <1>10, <1>12, <1>13, <1>14, <1>15, <1>16, <1>17 DEF Next

-----------------------------------------------------------------------------
IInv == Typed /\ RowsControl /\ LoadedControl /\ AnswerControl /\ KeyControl

LEMMA InitHolds == ASSUME Init PROVE IInv
<1>1. /\ past \in [Instances -> {<<row>> : row \in {NoRow} \cup OldRows}]
      /\ \A i, j \in Instances : Present(i) /\ Present(j) => i = j
      /\ request = [r \in Requests |-> [pc |-> "new"]]
  BY DEF Init
<1>2. /\ NoRow \in Rows /\ NoRow.name = "" /\ Paired(NoRow)
      /\ \A row \in OldRows : row \in Rows /\ row.name = "old" /\ Paired(row)
  <2>1. NoRow \in Rows /\ NoRow.name = "" /\ Paired(NoRow)
    BY TextHas DEF Rows, NoRow, Paired
  <2>2. ASSUME NEW row \in OldRows PROVE row \in Rows /\ row.name = "old" /\ Paired(row)
    BY <2>2, TextHas DEF OldRows, Rows, Paired
  <2> QED BY <2>1, <2>2
<1>3. ASSUME NEW i \in Instances
      PROVE  /\ past[i] \in Seq(Rows) /\ Len(past[i]) = 1 /\ Len(past[i]) >= 1
             /\ (past[i][1].name = "" => past[i][1] = NoRow) /\ Paired(past[i][1])
             /\ 2..Len(past[i]) - 1 = {} /\ 1..Len(past[i]) = {1}
  <2>1. PICK row \in {NoRow} \cup OldRows : past[i] = <<row>>
    BY <1>1
  <2>2. row \in Rows /\ (row.name = "" => row = NoRow) /\ Paired(row)
    BY <1>2
  <2>3. <<row>> \in Seq(Rows)
    <3>1. Append(<<>>, row) \in Seq(Rows)
      BY <2>2, EmptySeq, AppendProperties
    <3>2. Append(<<>>, row) = <<row>>
      OBVIOUS
    <3> QED BY <3>1, <3>2
  <2>4. Len(<<row>>) = 1 /\ <<row>>[1] = row
    OBVIOUS
  <2>5. 2..1 - 1 = {} /\ 1..1 = {1} /\ 1 >= 1
    OBVIOUS
  <2>6. Len(past[i]) = 1
    BY <2>1, <2>4
  <2> QED BY <2>1, <2>2, <2>3, <2>4, <2>5, <2>6
<1>4. past \in [Instances -> Seq(Rows)]
  <2>1. past = [i \in Instances |-> past[i]]
    BY <1>1
  <2> QED BY <1>3, <2>1
<1>5. Typed
  <2>1. request = [r \in Requests |-> request[r]] /\ \A r \in Requests : request[r].pc = "new"
    BY <1>1
  <2> QED BY <1>3, <1>4, <2>1 DEF Typed
<1>6. RowsControl
  <2>1. ASSUME NEW i \in Instances, NEW j \in Instances, Present(i), Row(i).name = Row(j).name
        PROVE  i = j
    <3>1. Row(i).name # ""
      BY <1>3, <2>1 DEF Present, Row
    <3>2. Present(j)
      BY <1>2, <2>1, <3>1 DEF Present
    <3> QED BY <1>1, <2>1, <3>2
  <2> QED BY <1>3, <2>1 DEF RowsControl
<1>7. LoadedControl
  BY DEF Init, LoadedControl
<1>8. AnswerControl
  BY <1>1 DEF AnswerControl, Good
<1>9. KeyControl
  <2>1. NoRow.key = "" /\ \A row \in OldRows : row.key \in {"", "oldkey"}
    BY DEF OldRows, NoRow
  <2>2. ASSUME NEW i \in Instances, NEW n \in 1..Len(past[i]), NEW r \in Requests PROVE past[i][n].key # Minted[r]
    <3>1. n = 1
      <4>1. 1..Len(past[i]) = {1}
        BY <1>3
      <4> QED BY <4>1
    <3>2. PICK row \in {NoRow} \cup OldRows : past[i] = <<row>> /\ <<row>>[1] = row
      BY <1>1
    <3>3. past[i][n].key \in {"", "oldkey"}
      BY <2>1, <3>1, <3>2
    <3> QED BY <3>3, StoreAssumption
  <2> QED BY <1>1, <2>2 DEF KeyControl
<1> QED BY <1>5, <1>6, <1>7, <1>8, <1>9 DEF IInv

(* The histories are typed, rows in them are whole (a name, and a url with *)
(* its secret or neither), an ended row stays ended, and a form that kept  *)
(* a secret has one: the statements of model.go and qr.go keep this,       *)
(* whatever the requests read before.                                      *)
THEOREM InductiveInvariant == Spec => []IInv
<1>1. IInv /\ [Next]_vars => IInv'
  BY StepIsTyped, RowsStep, LoadedStep, AnswerStep, KeyStep DEF IInv
<1> QED BY <1>1, InitHolds, PTL DEF Spec

(* An id is used for one row, which does not come back, and names are      *)
(* unique.                                                                 *)
THEOREM TypeCorrect == Spec => []TypeOK
<1>1. ASSUME IInv PROVE TypeOK
  <2>1. \A i \in Instances : DOMAIN past[i] = 1..Len(past[i])
    <3>1. ASSUME NEW i \in Instances PROVE DOMAIN past[i] = 1..Len(past[i])
      <4>1. past[i] \in Seq(Rows)
        BY <1>1 DEF IInv, Typed
      <4> QED BY <4>1
    <3> QED BY <3>1
  <2>2. \A r \in Requests : request[r].pc \in {"found", "loaded", "page", "ok"} =>
          1 <= request[r].since /\ request[r].since <= request[r].till /\ request[r].till <= Place(At(r))
    BY <1>1 DEF IInv, Typed, Ended
  <2> QED BY <1>1, <2>1, <2>2 DEF IInv, RowsControl, TypeOK
<1> QED BY <1>1, InductiveInvariant, PTL

(* A url never stands without a secret, nor a secret without a url.        *)
THEOREM PairedWebhookHolds == Spec => []PairedWebhook
<1>1. ASSUME IInv PROVE PairedWebhook
  BY <1>1, RowType DEF IInv, PairedWebhook, Paired
<1> QED BY <1>1, InductiveInvariant, PTL

(* The form that changes the url alone keeps a secret that was stored      *)
(* while it ran.                                                           *)
THEOREM SecretIsKeptHolds == Spec => []SecretIsKept
<1>1. ASSUME IInv PROVE SecretIsKept
  <2>1. ASSUME NEW r \in Requests, Done(r, {"webhookForm"}), request[r].ask.url # "", request[r].ask.secret = ""
        PROVE  Kept(past[At(r)], request[r])
    <3>1. Good(past[At(r)], request[r])
      BY <1>1 DEF IInv, AnswerControl
    <3> QED BY <2>1, <3>1 DEF Good, Honest, Keeps, Done
  <2> QED BY <2>1 DEF SecretIsKept, Kept
<1> QED BY <1>1, InductiveInvariant, PTL

(* What is answered has happened.                                          *)
THEOREM HonestAnswerHolds == Spec => []HonestAnswer
<1>1. ASSUME IInv PROVE HonestAnswer
  <2>1. ASSUME NEW r \in Requests, Honest(past[At(r)], request[r]) PROVE Stored(r)
    <3>1. PICK n \in request[r].since..request[r].till : Matches(request[r], past[At(r)][n])
      BY <2>1 DEF Honest
    <3>2. past[At(r)][n] \in Meanwhile(r)
      BY <3>1 DEF Meanwhile
    <3> QED BY <3>1, <3>2 DEF Stored, Matches
  <2>2. ASSUME NEW r \in Requests, request[r].pc = "ok"
        PROVE  \/ Honest(past[At(r)], request[r]) \/ request[r].ask.op = "delete"
               \/ /\ request[r].ask.op \in {"setKey", "rotate", "webhook"}
                  /\ past[At(r)][request[r].till] = NoRow
    BY <1>1, <2>2 DEF IInv, AnswerControl, Good
  <2> QED BY <2>1, <2>2 DEF HonestAnswer, Done
<1> QED BY <1>1, InductiveInvariant, PTL

(* A generated key that was replaced does not come back, on no instance.   *)
THEOREM OldKeyDiesHolds == Spec => []OldKeyDies
<1>1. ASSUME IInv PROVE OldKeyDies
  <2>1. ASSUME NEW i \in Instances PROVE DOMAIN past[i] = 1..Len(past[i])
    <3>1. past[i] \in Seq(Rows)
      BY <1>1 DEF IInv, Typed
    <3> QED BY <3>1
  <2> QED BY <1>1, <2>1 DEF IInv, KeyControl, OldKeyDies
<1> QED BY <1>1, InductiveInvariant, PTL
=============================================================================
