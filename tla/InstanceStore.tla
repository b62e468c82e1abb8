---------------------------- MODULE InstanceStore ----------------------------
(***************************************************************************)
(* The configuration of an instance: the columns name, api_key,            *)
(* webhook_url and webhook_secret of its row (internal/instance/model.go,  *)
(* qr.go) and the requests that read and write them, in the JSON API and   *)
(* in the forms of the manager pages (internal/handlers).  A statement of  *)
(* the database is atomic, a request is not: what it has read may be old   *)
(* when it writes, and the row may be gone by then.                        *)
(*                                                                         *)
(* past[i] is every value that the row of i has had, NoRow before it was   *)
(* created and after it was deleted; the last one is the row.  A request   *)
(* keeps the places in past where it began and where it was answered.      *)
(***************************************************************************)
EXTENDS Naturals, Sequences

CONSTANTS
  Instances,    \* ids that newID may mint
  Requests,
  Asks,         \* what a request may ask
  Minted,       \* the key that generateAPIKey makes for each request
  ValidUrls,    \* https, or http to this host, and not too long
  ShortKeys,    \* keys of fewer than four characters
  Password      \* of the manager

(* What a column may hold, "" for NULL, and what a request is made of. *)
Text == {"", "old", "oldkey", "https"} \cup {Minted[r] : r \in Requests}
          \cup UNION {{a.op, a.name, a.key, a.url, a.secret} : a \in Asks}
AskType == [op : Text, at : Instances, name : Text, key : Text, url : Text, secret : Text]

(* A generated key is like no other: 32 random bytes. *)
ASSUME StoreAssumption ==
  /\ Asks \subseteq AskType
  /\ \A r, s \in Requests : Minted[r] = Minted[s] => r = s
  /\ \A r \in Requests : Minted[r] \notin ShortKeys \cup {"", "oldkey"} \cup {a.key : a \in Asks}
  /\ "" \notin ValidUrls \cup ShortKeys \cup {Password}

VARIABLES past, request

vars == <<past, request>>

(* A blank column is NULL; a row has a name. *)
NoRow      == [name |-> "", key |-> "", url |-> "", secret |-> ""]
Row(i)     == past[i][Len(past[i])]
Present(i) == Row(i) # NoRow

(* An instance that is there already may have lost its key to migration    *)
(* 00003.                                                                  *)
OldRows == {row \in [name : {"old"}, key : {"", "oldkey"}, url : {"", "https"},
                     secret : {"", "https"}] : row.url = row.secret}

Init ==
  /\ past \in [Instances -> {<<row>> : row \in {NoRow} \cup OldRows}]
  /\ \A i, j \in Instances : Present(i) /\ Present(j) => i = j
  /\ request = [r \in Requests |-> [pc |-> "new"]]

-----------------------------------------------------------------------------
(* Statements.                                                             *)

(* Seeded fault: a row that is gone is written anew. *)
Upsert(i, new) == past' = [past EXCEPT ![i] = Append(@, new)]

(* UPDATE ... WHERE id = i finds a row or does nothing. *)
Update(i, new) == past' = IF Present(i) THEN [past EXCEPT ![i] = Append(@, new)] ELSE past

SetAPIKey(i, key) == Update(i, [Row(i) EXCEPT !.key = key])

(* Seeded faults: a url needs no secret; the whole row is written, with    *)
(* the key as it was before its last change.                               *)
SetWebhookHalf(i, url, secret) == Update(i, [Row(i) EXCEPT !.url = url, !.secret = secret])
SetWebhookWhole(i, url, secret) ==
  /\ url # "" => secret # ""
  /\ Update(i, [Row(i) EXCEPT !.url = url, !.secret = secret,
                  !.key = IF Len(past[i]) = 1 THEN @ ELSE past[i][Len(past[i]) - 1].key])

(* A url needs a secret; both blank clear the webhook. *)
SetWebhook(i, url, secret) ==
  /\ url # "" => secret # ""
  /\ Update(i, [Row(i) EXCEPT !.url = url, !.secret = secret])

Delete(i) == Update(i, NoRow)

(* INSERT under a new id, with a new key if none is given. *)
Insert(i, a, key) ==
  /\ past[i] = <<NoRow>>
  /\ past' = [past EXCEPT ![i] =
       Append(@, [name |-> a.name, key |-> key, url |-> a.url, secret |-> a.secret])]

NameTaken(name) == \E i \in Instances : Row(i).name = name

-----------------------------------------------------------------------------
(* Requests.                                                               *)

(* Nobody asks for an id before it is minted; later its row may be gone.   *)
Known(i)   == Len(past[i]) > 1 \/ Present(i)
Begins(r, a) == request[r].pc = "new" /\ a \in Asks /\ (a.op = "create" \/ Known(a.at))
At(r)        == request[r].ask.at
Place(i)     == Len(past[i])

(* Request r, which asks a since the row was at this place, is now at pc;  *)
(* it carries a key or a secret.  An answer other than ok ends it without. *)
Goes(r, a, since, pc, key, secret) ==
  request' = [request EXCEPT ![r] = [pc |-> pc, ask |-> a, since |-> since,
                                     till |-> Len(past'[a.at]), key |-> key, secret |-> secret]]
Answer(r, answer) == request' = [request EXCEPT ![r] = [pc |-> answer]]
Ok(r, a)          == Goes(r, a, Place(a.at), "ok", "", "")
Proceed(r, pc) ==
  Goes(r, request[r].ask, request[r].since, pc, request[r].key, request[r].secret)

(* What is refused before the database is asked. *)
Invalid(a) ==
  CASE a.op = "create"                   -> a.name = "" \/ (a.url = "") # (a.secret = "")
    [] a.op = "setKey"                   -> a.key = ""
    [] a.op = "reveal"                   -> a.secret # Password
    [] a.op \in {"webhook", "webhookForm"} ->
         (a.url # "" \/ a.secret # "") /\ a.url \notin ValidUrls
    [] OTHER                             -> FALSE

Refuse(r, a) ==
  /\ Begins(r, a) /\ Invalid(a)
  /\ UNCHANGED past
  /\ Answer(r, "refused")

(* A statement fails: SQLITE_BUSY, a full disk, a closed database. *)
Fail(r, a) ==
  /\ Begins(r, a) /\ ~ Invalid(a)
  /\ UNCHANGED past
  /\ Answer(r, "failed")

FailLater(r) ==
  /\ request[r].pc \in {"found", "loaded", "page"}
  /\ UNCHANGED past
  /\ Answer(r, "failed")

(* The UNIQUE constraint is the check of the name.  The form and the JSON  *)
(* API differ in the webhook, which only the form asks for, and in the     *)
(* client that the form loads.                                             *)
Create(r, a) ==
  /\ Begins(r, a) /\ a.op = "create" /\ ~ Invalid(a)
  /\ \/ NameTaken(a.name) /\ UNCHANGED past /\ Answer(r, "taken")
     \/ /\ ~ NameTaken(a.name)
        /\ LET key == IF a.key = "" THEN Minted[r] ELSE a.key
           IN  \E i \in Instances :
                 /\ Insert(i, a, key)
                 /\ Goes(r, [a EXCEPT !.at = i], 1, "ok", key, "")

(* GetByID, by the requests that look before they write, and reveal. *)
GetByID(r, a) ==
  /\ Begins(r, a) /\ ~ Invalid(a)
  /\ a.op \in {"setKey", "rotate", "rotateForm", "reveal"}
  /\ UNCHANGED past
  /\ \/ ~ Present(a.at) /\ Answer(r, "missing")
     \/ Present(a.at) /\ a.op # "reveal"
        /\ Goes(r, a, Place(a.at), "found", IF a.op = "setKey" THEN a.key ELSE Minted[r], "")
     \/ Present(a.at) /\ a.op = "reveal"
        /\ IF Row(a.at).key = "" THEN Answer(r, "none")
                                 ELSE Goes(r, a, Place(a.at), "ok", Row(a.at).key, "")

(* The key is stored whether or not the row is still there.  A short key   *)
(* is stored, too, before masking it panics.                               *)
PutKey(r) ==
  /\ request[r].pc = "found" /\ request[r].ask.op \in {"setKey", "rotate"}
  /\ SetAPIKey(At(r), request[r].key)
  /\ IF request[r].key \in ShortKeys THEN Answer(r, "panic") ELSE Proceed(r, "ok")

PutKeyForm(r) ==
  /\ request[r].pc = "found" /\ request[r].ask.op = "rotateForm"
  /\ SetAPIKey(At(r), request[r].key)
  /\ Proceed(r, "page")

PutWebhook(r, a) ==
  /\ Begins(r, a) /\ a.op = "webhook" /\ ~ Invalid(a)
  /\ \/ SetWebhook(a.at, a.url, a.secret) /\ Ok(r, a)
     \/ a.url # "" /\ a.secret = "" /\ UNCHANGED past /\ Answer(r, "refused")

(* Seeded fault: the secret is the one the instance was loaded with. *)
LoadStaleSecret(r, a) ==
  /\ Begins(r, a) /\ a.op = "webhookForm" /\ ~ Invalid(a)
  /\ a.url # "" /\ a.secret = ""
  /\ UNCHANGED past
  /\ \E n \in DOMAIN past[a.at] : past[a.at][n].secret # ""
       /\ Goes(r, a, Place(a.at), "loaded", "", past[a.at][n].secret)

(* The form with a url alone: the secret that is stored is kept. *)
LoadWebhookSecret(r, a) ==
  /\ Begins(r, a) /\ a.op = "webhookForm" /\ ~ Invalid(a)
  /\ a.url # "" /\ a.secret = ""
  /\ UNCHANGED past
  /\ IF Present(a.at)
     THEN IF Row(a.at).secret = "" THEN Answer(r, "refused")
          ELSE Goes(r, a, Place(a.at), "loaded", "", Row(a.at).secret)
     ELSE Answer(r, "missing")

SaveKept(r) ==
  /\ request[r].pc = "loaded"
  /\ SetWebhook(At(r), request[r].ask.url, request[r].secret)
  /\ Proceed(r, "page")

(* The form with a secret, or with neither. *)
SaveTyped(r, a) ==
  /\ Begins(r, a) /\ a.op = "webhookForm" /\ ~ Invalid(a)
  /\ a.url = "" \/ a.secret # ""
  /\ SetWebhook(a.at, a.url, a.secret)
  /\ Goes(r, a, Place(a.at), "page", "", a.secret)

(* Seeded fault: the page does not need the row. *)
RenderAnyway(r) ==
  /\ request[r].pc = "page"
  /\ UNCHANGED past
  /\ Proceed(r, "ok")

(* A form is answered with the page of its instance, if it still is there. *)
Render(r) ==
  /\ request[r].pc = "page"
  /\ UNCHANGED past
  /\ IF Present(At(r)) THEN Proceed(r, "ok") ELSE Answer(r, "missing")

Remove(r, a) ==
  /\ Begins(r, a) /\ a.op = "delete"
  /\ Delete(a.at)
  /\ Ok(r, a)

Next ==
  \/ \E r \in Requests, a \in Asks :
       \/ Refuse(r, a) \/ Fail(r, a) \/ Create(r, a) \/ GetByID(r, a) \/ PutWebhook(r, a)
       \/ LoadWebhookSecret(r, a) \/ SaveTyped(r, a) \/ Remove(r, a)
  \/ \E r \in Requests : PutKey(r) \/ PutKeyForm(r) \/ SaveKept(r) \/ Render(r) \/ FailLater(r)

Spec == Init /\ [][Next]_vars

-----------------------------------------------------------------------------
(* Properties.                                                             *)

Done(r, ops) == request[r].pc = "ok" /\ request[r].ask.op \in ops

(* The rows of its instance while request r ran. *)
Meanwhile(r) == {past[At(r)][n] : n \in request[r].since..request[r].till}

(* An id is used for one row, which does not come back once it is deleted; *)
(* no two rows have the same name.                                         *)
TypeOK ==
  /\ \A i \in Instances :
       /\ \A n \in 2..Len(past[i]) - 1 : past[i][n] # NoRow
       /\ \A n \in DOMAIN past[i] : past[i][n].name = "" => past[i][n] = NoRow
       /\ \A j \in Instances : Present(i) /\ Row(i).name = Row(j).name => i = j
  /\ \A r \in Requests : request[r].pc \in {"found", "loaded", "page", "ok"} =>
       1 <= request[r].since /\ request[r].since <= request[r].till /\ request[r].till <= Place(At(r))

(* A webhook has a url and a secret or neither of them, in whatever order  *)
(* the form, the JSON API and a clear write them: the dispatcher posts to  *)
(* every url it finds (internal/instance/model.go:84-85).                  *)
PairedWebhook == \A i \in Instances : (Row(i).url = "") = (Row(i).secret = "")

(* The form that changes the url alone keeps a secret that was stored      *)
(* while it ran, before it stored the url, and never an older one          *)
(* (internal/handlers/instance_actions.go:187-191).                        *)
SecretIsKept ==
  \A r \in Requests :
    Done(r, {"webhookForm"}) /\ request[r].ask.url # "" /\ request[r].ask.secret = "" =>
      \E n, m \in request[r].since..request[r].till :
        /\ n < m /\ past[At(r)][n].secret = request[r].secret
        /\ past[At(r)][m].secret = request[r].secret /\ past[At(r)][m].url = request[r].ask.url

(* What is answered has happened.  A form that is answered with success    *)
(* stored what it was given, the JSON API did so unless the row was gone   *)
(* (or never there) when it answered; a revealed key was in force while    *)
(* the request ran.                                                        *)
Stored(r) ==
  \E row \in Meanwhile(r) :
    /\ row # NoRow
    /\ IF request[r].ask.op \in {"webhook", "webhookForm"}
       THEN row.url = request[r].ask.url /\ request[r].ask.secret \in {"", row.secret}
       ELSE row.key = request[r].key

HonestAnswer ==
  \A r \in Requests :
    /\ Done(r, {"rotateForm", "webhookForm", "create", "reveal"}) => Stored(r)
    /\ Done(r, {"setKey", "rotate", "webhook"}) =>
         Stored(r) \/ past[At(r)][request[r].till] = NoRow

(* A generated key that was replaced is dead: it does not come back, and   *)
(* no other instance ever has it, whatever else writes the row             *)
(* (internal/handlers/api_key.go:124-125).                                 *)
OldKeyDies ==
  \A r \in Requests, i, j \in Instances :
    \A m \in DOMAIN past[i], n \in DOMAIN past[j] :
      past[i][m].key = Minted[r] /\ past[j][n].key = Minted[r] =>
        i = j /\ \A k \in m..n : past[i][k].key = Minted[r]

=============================================================================
