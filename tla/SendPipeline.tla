----------------------------- MODULE SendPipeline -----------------------------
(***************************************************************************)
(* Requests that send a message: the handlers (internal/handlers/send.go), *)
(* the limiter (internal/send/ratelimit.go), the resolution of the         *)
(* recipient (internal/send/recipient.go) and the two orchestrations,      *)
(* SendText (internal/send/text.go) and SendButtons                        *)
(* (internal/send/buttons.go).  A request starts here with the client that *)
(* InstanceAPIKeyAuth gave it.  WhatsApp answers a lookup or a send as it  *)
(* likes, and accepts a message with or without saying so; a second copy   *)
(* of a message, by its id, it drops.                                      *)
(***************************************************************************)
EXTENDS Naturals, Sequences, FiniteSets

CONSTANTS
  Requests,
  Keys,         \* what a body may name as its recipient
  Bodies,       \* the bodies that each request may have
  Max, Window,  \* of the limiter
  Second,       \* ticks of the clock in a second
  MaxTime       \* bound on the clock

ASSUME SendAssumption == {Max, Window, Second, MaxTime} \subseteq Nat \ {0}

(* A body names its recipient by "to": a JID with a server, or a phone     *)
(* number.  A number has a country, perhaps the extra mobile digit of its  *)
(* country, a high or a low area code and a line; cut says that a digit    *)
(* too many was taken away.  What is as long as the id of a group stands   *)
(* under "long", and under "none" what has no digit.                       *)
Countries == {"BR", "MX", "AR", "US", "long", "none"}
Numbers == [server : {"", "s.whatsapp.net", "g.us"}, country : Countries,
            mobile : BOOLEAN, high : BOOLEAN, cut : BOOLEAN, line : Nat]
ButtonTypes == {"reply", "url", "pix", "other"}   \* copy and call go with url

BodyType == [to : Keys, bound : BOOLEAN, fit : BOOLEAN, id : STRING,
             text : BOOLEAN, buttons : Seq(ButtonTypes)]

ASSUME BodyAssumption == Keys \subseteq Numbers /\ \A r \in Requests : Bodies[r] \subseteq BodyType

VARIABLES
  now,
  bucket,       \* PerJIDRateLimiter.buckets: the timestamps kept for each key
  request,      \* each request: how far it is and what it carries
  accepted,     \* messages WhatsApp accepted
  admitted      \* history: every admission of each key

vars == <<now, bucket, request, accepted, admitted>>

Init ==
  /\ now = 0
  /\ bucket   = [k \in Keys |-> {}]
  /\ request  = [r \in Requests |-> [pc |-> "new"]]
  /\ accepted = {}
  /\ admitted = [k \in Keys |-> {}]

-----------------------------------------------------------------------------
(* The recipient.                                                          *)

formatBRNumber(n) ==
  IF n.country = "BR" /\ n.mobile /\ n.high THEN [n EXCEPT !.mobile = FALSE] ELSE n

(* Seeded fault: the country of the branch above is copied. *)
formatCopied(n) ==
  CASE n.country = "MX" /\ n.mobile -> [n EXCEPT !.mobile = FALSE, !.cut = TRUE]
    [] n.country = "AR" /\ n.mobile -> [n EXCEPT !.mobile = FALSE, !.country = "MX"]
    [] OTHER -> n

(* The Mexican rule takes away the mobile digit and the one after it. *)
formatMXOrARNumber(n) ==
  CASE n.country = "MX" /\ n.mobile -> [n EXCEPT !.mobile = FALSE, !.cut = TRUE]
    [] n.country = "AR" /\ n.mobile -> [n EXCEPT !.mobile = FALSE]
    [] OTHER -> n

(* What the empty string is as a recipient. *)
Nobody == [server |-> "", country |-> "none", mobile |-> FALSE, high |-> FALSE, cut |-> FALSE,
           line |-> 0]

CreateJID(n) ==
  CASE n.server # "" -> n
    [] n.server = "" /\ n.country = "long" -> [n EXCEPT !.server = "g.us"]
    [] n.server = "" /\ n.country = "none" -> Nobody
    [] OTHER -> [formatBRNumber(formatMXOrARNumber(n)) EXCEPT !.server = "s.whatsapp.net"]

isBypassServer(n) == n.server = "g.us"

(* The JID WhatsApp knows a number by: with and without the mobile digit   *)
(* it is the same line, where numbers without the digit are in use.  It    *)
(* has no number for a group, nor for what has no digit.                   *)
Canonical(n) == [n EXCEPT !.server = "s.whatsapp.net", !.mobile = n.country = "BR" /\ ~ n.high]
Dialable(n)  ==
  /\ ~ n.cut /\ n.country # "none" /\ ~ isBypassServer(n)
  /\ n.country = "BR" /\ ~ n.high => n.mobile

-----------------------------------------------------------------------------
(* Buttons.                                                                *)

Types(buttons) == {buttons[i] : i \in DOMAIN buttons}

(* Seeded fault: only pix is checked for company. *)
validateMixed(buttons) ==
  /\ Len(buttons) \in 1..3
  /\ "other" \notin Types(buttons)
  /\ "pix" \in Types(buttons) => Len(buttons) = 1

validateButtons(buttons) ==
  /\ Len(buttons) \in 1..3
  /\ "other" \notin Types(buttons)
  /\ "reply" \in Types(buttons) => Types(buttons) = {"reply"}
  /\ "pix" \in Types(buttons) => Len(buttons) = 1

(* The envelope and the name in its biz node, after the first button. *)
buildButtonsMessage(buttons) ==
  CASE buttons[1] = "reply" -> [envelope |-> "ButtonsMessage", name |-> "quick_reply"]
    [] buttons[1] = "pix"   -> [envelope |-> "InteractiveMessage", name |-> "payment_info"]
    [] OTHER                -> [envelope |-> "InteractiveMessage", name |-> "mixed"]

Content(b) == IF b.text THEN [envelope |-> "ExtendedTextMessage", name |-> ""]
                        ELSE buildButtonsMessage(b.buttons)

-----------------------------------------------------------------------------
(* The limiter.                                                            *)

(* Seeded faults: the window is a moment too short; or too long. *)
RecentShort(S) == {a \in S : a.at + Window > now + 1}
RecentLong(S)  == {a \in S : a.at + Window >= now}

Recent(S) == {a \in S : a.at + Window > now}              \* t.After(cutoff)

Oldest(S) == CHOOSE a \in S : \A x \in S : a.at <= x.at

(* How long a refused call has to wait, when the bucket is full. *)
RetryAfter(S) ==
  LET left == Oldest(S).at + Window - now IN IF left < Second THEN Second ELSE left

(* The seconds that the caller is told: what is less than one is cut off.  *)
formatSeconds(d) == IF d \div Second < 1 THEN 1 ELSE d \div Second

(* Seeded fault: one call too many. *)
AdmitsLate(k) == Cardinality(Recent(bucket[k])) <= Max

Admits(k) == Cardinality(Recent(bucket[k])) < Max

(* The call counts from here on, not from when its message is sent. *)
Check(k, r) ==
  LET this == IF Admits(k) THEN {[at |-> now, by |-> r]} ELSE {}
  IN  /\ bucket' = [bucket EXCEPT ![k] = Recent(@) \cup this]
      /\ admitted' = [admitted EXCEPT ![k] = @ \cup this]

-----------------------------------------------------------------------------
(* A request, from its body to its answer.                                 *)

Becomes(r, rec) == request' = [request EXCEPT ![r] = rec]
Rejected == [pc |-> "rejected"]

(* The checks at the top of SendText and SendButtons; lengths, ranges and  *)
(* the formats of keys and numbers are in "fit".                           *)
Valid(b) == b.fit /\ (b.text \/ validateButtons(b.buttons))

(* A body that does not bind is answered 400 before the limiter sees it,   *)
(* one that does not fit after the limiter has counted it.                 *)
Reject(r, b) ==
  /\ request[r].pc = "new" /\ ~ b.bound
  /\ Becomes(r, Rejected)
  /\ UNCHANGED <<now, bucket, accepted, admitted>>

Limit(r, b) ==
  /\ request[r].pc = "new" /\ b.bound /\ ~ Admits(b.to)
  /\ Check(b.to, r)
  /\ Becomes(r, [pc |-> "limited", key |-> b.to, at |-> now,
                 after |-> formatSeconds(RetryAfter(Recent(bucket[b.to])))])
  /\ UNCHANGED <<now, accepted>>

Take(r, b) ==
  /\ request[r].pc = "new" /\ b.bound /\ Admits(b.to)
  /\ Check(b.to, r)
  /\ Becomes(r, IF Valid(b) THEN [pc |-> "resolving", body |-> b] ELSE Rejected)
  /\ UNCHANGED <<now, accepted>>

MessageID(r, b) == IF b.id = "" THEN <<"generated", r>> ELSE <<"given", b.id>>

(* The message and its id.  How long the typing delay and the pauses       *)
(* between tries last is left open: a request rests in "sending".          *)
Composed(r, b, jid) == [pc |-> "sending", body |-> b, to |-> jid, attempt |-> 1,
                        id |-> MessageID(r, b)]

(* A number is looked up as it is spelled and then, when that differs, as  *)
(* CreateJID makes it; a group is taken as it is.  An error of WhatsApp    *)
(* counts as a number that is not registered: the branch for errors (lines *)
(* 39-42) is never reached.                                                *)
Resolve(r) ==
  LET b == request[r].body
      Found(n) == Dialable(n) /\ Becomes(r, Composed(r, b, Canonical(n)))
  IN  /\ \/ /\ request[r].pc = "resolving" /\ isBypassServer(b.to)
           /\ Becomes(r, Composed(r, b, CreateJID(b.to)))
        \/ /\ request[r].pc = "resolving" /\ ~ isBypassServer(b.to)
           /\ Found(b.to) \/ Becomes(r, [pc |-> "again", body |-> b])
        \/ /\ request[r].pc = "again"
           /\ \/ CreateJID(b.to) # b.to /\ Found(CreateJID(b.to))
              \/ Becomes(r, Rejected)
      /\ UNCHANGED <<now, bucket, accepted, admitted>>

(* WhatsApp keeps one message per id. *)
Accept(r) ==
  LET m == [id |-> request[r].id, by |-> r, to |-> request[r].to,
            content |-> Content(request[r].body)]
  IN  accepted' = IF \E x \in accepted : x.id = m.id THEN accepted ELSE accepted \cup {m}

Over(r, result) == Becomes(r, [pc |-> result, body |-> request[r].body, id |-> request[r].id])

(* Seeded faults: each try makes an id of its own; the last error is lost. *)
SendMessageAnew(r) ==
  /\ request[r].pc = "sending"
  /\ Accept(r)
  /\ \/ Over(r, "sent")
     \/ /\ request[r].attempt < 3
        /\ Becomes(r, [request[r] EXCEPT !.attempt = @ + 1,
                                        !.id = <<"generated", r, request[r].attempt>>])
  /\ UNCHANGED <<now, bucket, admitted>>

SendMessageBlind(r) ==
  /\ request[r].pc = "sending"
  /\ Accept(r) \/ UNCHANGED accepted
  /\ Becomes(r, [request[r] EXCEPT !.attempt = @ + 1,
                     !.pc = IF request[r].attempt = 3 THEN "sent" ELSE "sending"])
  /\ UNCHANGED <<now, bucket, admitted>>

(* The loop over SendMessage: a lost connection is tried again after a     *)
(* pause, up to three times; any other error ends it.                      *)
SendMessage(r) ==
  /\ request[r].pc = "sending"
  /\ \/ Accept(r) /\ Over(r, "sent")
     \/ /\ Accept(r) \/ UNCHANGED accepted
        /\ \/ Over(r, "failed")
           \/ /\ request[r].attempt < 3
              /\ Becomes(r, [request[r] EXCEPT !.attempt = @ + 1])
  /\ UNCHANGED <<now, bucket, admitted>>

Tick ==
  /\ now < MaxTime
  /\ now' = now + 1
  /\ UNCHANGED <<bucket, request, accepted, admitted>>

Next ==
  \/ \E r \in Requests : \E b \in Bodies[r] : Reject(r, b) \/ Limit(r, b) \/ Take(r, b)
  \/ \E r \in Requests : Resolve(r) \/ SendMessage(r)
  \/ Tick

Spec == Init /\ [][Next]_vars

-----------------------------------------------------------------------------
(* Properties.                                                             *)

(* The limiter implements SlidingWindow: whatever it prunes and however    *)
(* calls interleave, it admits a call with some key only when fewer than   *)
(* Max calls with this key were admitted in the last Window.               *)
Budget == INSTANCE SlidingWindow WITH Callers <- Requests, clock <- now
KeepsBudget == Budget!Spec

(* Every variable keeps its shape, and no bucket holds more than Max. *)
TypeOK ==
  /\ now \in 0..MaxTime
  /\ bucket \in [Keys -> SUBSET [at : Nat, by : Requests]]
  /\ admitted \in [Keys -> SUBSET [at : Nat, by : Requests]]
  /\ \A k \in Keys : Cardinality(bucket[k]) <= Max
  /\ \A r \in Requests :
       /\ request[r].pc \in {"new", "limited", "rejected", "resolving", "again", "sending",
                             "sent", "failed"}
       /\ request[r].pc \notin {"new", "limited", "rejected"} => request[r].body.to \in Keys
  /\ \A m \in accepted : m.by \in Requests /\ m.to \in Numbers

(* The seconds that a refused caller is told are too few by less than one: *)
(* when they and what was cut off of them are over, it finds room, unless  *)
(* somebody else was admitted with its key in the meantime                 *)
(* (internal/send/ratelimit.go:51, internal/handlers/send.go:36).          *)
HintIsEnough ==
  \A r \in Requests :
    LET q == request[r]
    IN  q.pc = "limited" /\ now + 1 >= q.at + (q.after + 1) * Second
          /\ (\A a \in admitted[q.key] : a.at <= q.at)
        => Cardinality(Recent(bucket[q.key])) < Max

(* However often a send is tried, and whichever of the tries WhatsApp      *)
(* accepted without the client hearing of it, one request makes at most    *)
(* one message.                                                            *)
OneMessage == \A m1, m2 \in accepted : m1.by = m2.by => m1 = m2

(* A request answered with success has its message with WhatsApp, under    *)
(* the id in the answer; one that was turned away before it could be sent, *)
(* by the limiter, the checks or the lookup, has none.                     *)
HonestAnswer ==
  \A r \in Requests :
    /\ request[r].pc = "sent" => \E m \in accepted : m.id = request[r].id
    /\ request[r].pc \in {"limited", "rejected"} => \A m \in accepted : m.by # r

(* A message goes to the one that its body names, also when the first      *)
(* lookup failed and the number was rewritten for the second.              *)
RightRecipient ==
  \A m \in accepted :
    LET n == request[m.by].body.to
    IN  m.to = IF isBypassServer(n) THEN n ELSE Canonical(n)

(* The envelope, chosen after the first button, suits every button of the  *)
(* message: what validateButtons lets through is all replies, or a single  *)
(* pix, or neither of them.                                                *)
EnvelopeFits ==
  \A m \in accepted :
    LET b == request[m.by].body
    IN  ~ b.text =>
          /\ (m.content.envelope = "ButtonsMessage") = (Types(b.buttons) = {"reply"})
          /\ (m.content.name = "payment_info") = ("pix" \in Types(b.buttons))
          /\ m.content.name = "payment_info" => Len(b.buttons) = 1
=============================================================================
