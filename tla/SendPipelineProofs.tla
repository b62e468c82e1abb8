-------------------------- MODULE SendPipelineProofs --------------------------
(***************************************************************************)
(* Proofs about SendPipeline for any requests and bodies, any recipients,  *)
(* limits, windows and bounds on the clock.                                *)
(***************************************************************************)
EXTENDS SendPipeline, FiniteSetTheorems, WellFoundedInduction, TLAPS

(* The shapes of a request.  One that sends has a body that passed the     *)
(* checks, an id that its body determines and the right recipient.         *)
Right(b)   == IF isBypassServer(b.to) THEN b.to ELSE Canonical(b.to)
OnItsWay(r) == request[r].pc \in {"sending", "sent", "failed"}

Limited == [pc : {"limited"}, key : Keys, at : Nat, after : Nat]
Waits   == [pc : {"resolving", "again"}, body : BodyType]

Shape(r, q) ==
  \/ q.pc = "new"
  \/ q = Rejected
  \/ q \in Limited
  \/ q \in Waits /\ Valid(q.body) /\ (q.pc = "again" => ~ isBypassServer(q.body.to))
  \/ \E b \in BodyType, n \in 1..3 :
       /\ Valid(b)
       /\ q = [pc |-> "sending", body |-> b, to |-> Right(b), attempt |-> n, id |-> MessageID(r, b)]
  \/ \E b \in BodyType, result \in {"sent", "failed"} :
       /\ Valid(b)
       /\ q = [pc |-> result, body |-> b, id |-> MessageID(r, b)]

Requested == request = [r \in Requests |-> request[r]] /\ \A r \in Requests : Shape(r, request[r])

(* The limiter remembers what was admitted, short of some that have left   *)
(* the window.                                                             *)
LimiterControl ==
  /\ now \in 0..MaxTime
  /\ bucket \in [Keys -> SUBSET [at : Nat, by : Requests]]
  /\ admitted \in [Keys -> SUBSET [at : Nat, by : Requests]]
  /\ \A k \in Keys :
       /\ IsFiniteSet(bucket[k]) /\ Cardinality(bucket[k]) <= Max
       /\ \A a \in admitted[k] : a.at <= now
       /\ bucket[k] \subseteq admitted[k]
       /\ Recent(admitted[k]) \subseteq bucket[k]

(* Every message is one that its request composed, and has its own id.     *)
Genuine(m) ==
  /\ m.by \in Requests /\ OnItsWay(m.by)
  /\ LET b == request[m.by].body
     IN  /\ m.id = MessageID(m.by, b) /\ m.to = Right(b) /\ m.content = Content(b)

MessageControl ==
  /\ \A m \in accepted : Genuine(m)
  /\ \A x, y \in accepted : x.id = y.id => x = y
  /\ \A r \in Requests : request[r].pc = "sent" => \E m \in accepted : m.id = request[r].id

-----------------------------------------------------------------------------
(* Recipients and buttons.                                                 *)

(* WhatsApp tells numbers apart by country, area and line.                 *)
LEMMA SameLine ==
  ASSUME NEW c \in Numbers, NEW n \in Numbers,
         c.country = n.country, c.high = n.high, c.line = n.line, c.cut = n.cut
  PROVE  Canonical(c) = Canonical(n)
<1> USE DEF Numbers, Countries
<1>1. ASSUME NEW m \in Numbers
      PROVE  m = [server |-> m.server, country |-> m.country, mobile |-> m.mobile,
                  high |-> m.high, cut |-> m.cut, line |-> m.line]
  OBVIOUS
<1>2. ASSUME NEW m \in Numbers
      PROVE  /\ Canonical(m) \in Numbers
             /\ Canonical(m).server = "s.whatsapp.net"
             /\ Canonical(m).country = m.country
             /\ Canonical(m).mobile = (m.country = "BR" /\ ~ m.high)
             /\ Canonical(m).high = m.high
             /\ Canonical(m).cut = m.cut
             /\ Canonical(m).line = m.line
  BY DEF Canonical
<1> HIDE DEF Numbers
<1>3. Canonical(c).mobile = Canonical(n).mobile
  <2>1. Canonical(c).mobile = (c.country = "BR" /\ ~ c.high)
    BY <1>2
  <2>2. Canonical(n).mobile = (n.country = "BR" /\ ~ n.high)
    BY <1>2
  <2> QED BY <2>1, <2>2, Zenon
<1>4. /\ Canonical(c).server = Canonical(n).server
      /\ Canonical(c).country = Canonical(n).country
      /\ Canonical(c).high = Canonical(n).high
      /\ Canonical(c).cut = Canonical(n).cut
      /\ Canonical(c).line = Canonical(n).line
  <2>1. Canonical(c).server = Canonical(n).server /\ Canonical(c).country = Canonical(n).country
    BY <1>2
  <2>2. Canonical(c).high = Canonical(n).high
    BY <1>2, Zenon
  <2>3. Canonical(c).cut = Canonical(n).cut
    BY <1>2, Zenon
  <2>4. Canonical(c).line = Canonical(n).line
    BY <1>2
  <2> QED BY <2>1, <2>2, <2>3, <2>4
<1>5. Canonical(c) \in Numbers /\ Canonical(n) \in Numbers
  BY <1>2
<1> QED BY <1>1, <1>3, <1>4, <1>5, Zenon

(* What a number is rewritten to reaches the same line, if it reaches any. *)
LEMMA Rewritten ==
  ASSUME NEW n \in Numbers
  PROVE  /\ CreateJID(n) \in Numbers /\ Canonical(n) \in Numbers
         /\ isBypassServer(n) => CreateJID(n) = n
         /\ CreateJID(n) # n /\ Dialable(CreateJID(n)) => Canonical(CreateJID(n)) = Canonical(n)
<1> USE DEF Numbers, Countries
<1>1. CASE n.server # ""
  BY <1>1 DEF CreateJID, Canonical
<1>2. CASE n.server = "" /\ n.country = "long"
  BY <1>2 DEF CreateJID, Canonical, isBypassServer, Dialable
<1>3. CASE n.server = "" /\ n.country = "none"
  BY <1>3 DEF CreateJID, Canonical, isBypassServer, Dialable, Nobody
<1>4. CASE n.server = "" /\ n.country \notin {"long", "none"}
  <2> DEFINE p == formatMXOrARNumber(n)
  <2>1. /\ p \in Numbers
        /\ p.country = n.country /\ p.high = n.high /\ p.line = n.line /\ p.server = n.server
        /\ p.mobile # n.mobile => n.country \in {"MX", "AR"}
        /\ p.cut # n.cut => p.cut
    BY DEF formatMXOrARNumber
  <2> HIDE DEF p
  <2> DEFINE q == formatBRNumber(p)
  <2>2. /\ q \in Numbers
        /\ q.country = n.country /\ q.high = n.high /\ q.line = n.line /\ q.server = n.server
        /\ q.cut = p.cut
    BY <2>1 DEF formatBRNumber
  <2>3. CreateJID(n) = [q EXCEPT !.server = "s.whatsapp.net"]
    BY <1>4 DEF CreateJID, p, q
  <2> HIDE DEF q
  <2>4. /\ CreateJID(n) \in Numbers
        /\ Canonical(n) \in Numbers /\ ~ isBypassServer(n)
    BY <1>4, <2>2, <2>3 DEF Canonical, isBypassServer
  <2>5. ASSUME Dialable(CreateJID(n)) PROVE Canonical(CreateJID(n)) = Canonical(n)
    <3>1. q.cut = n.cut
      BY <2>1, <2>2, <2>3, <2>5 DEF Dialable
    <3> DEFINE c == CreateJID(n)
    <3>2. /\ c \in Numbers /\ c.country = n.country /\ c.high = n.high
          /\ c.line = n.line /\ c.cut = n.cut
      BY <2>2, <2>3, <3>1
    <3> HIDE DEF c
    <3>3. Canonical(c) = Canonical(n)
      BY <3>2, SameLine
    <3> QED BY <3>3 DEF c
  <2> QED BY <2>4, <2>5
<1> QED BY <1>1, <1>2, <1>3, <1>4

(* A list that passes the checks is of the kind of its first button.       *)
LEMMA OfOneKind ==
  ASSUME NEW list \in Seq(ButtonTypes), validateButtons(list)
  PROVE  /\ list[1] \in ButtonTypes
         /\ (list[1] = "reply") = (Types(list) = {"reply"})
         /\ (list[1] = "pix") = ("pix" \in Types(list))
         /\ list[1] = "pix" => Len(list) = 1
<1>1. 1 \in DOMAIN list /\ list[1] \in Types(list) /\ list[1] \in ButtonTypes
  BY DEF validateButtons, Types
<1>2. ASSUME "pix" \in Types(list) PROVE list[1] = "pix"
  BY <1>1, <1>2 DEF validateButtons, Types
<1> QED BY <1>1, <1>2 DEF validateButtons

-----------------------------------------------------------------------------
(* The limiter.                                                            *)

(* A finite set counts for no less than any part of it.                    *)
LEMMA Counts ==
  ASSUME NEW S, IsFiniteSet(S), NEW T \in SUBSET S
  PROVE  /\ IsFiniteSet(T)
         /\ Cardinality(S) \in Nat /\ Cardinality(T) \in Nat
         /\ Cardinality(T) <= Cardinality(S)
  BY FS_Subset, FS_CardinalityType

LEMMA SameWindow ==
  ASSUME LimiterControl, NEW k \in Keys
  PROVE  /\ Recent(bucket[k]) = Recent(admitted[k])
         /\ Recent(bucket[k]) \subseteq bucket[k]
         /\ IsFiniteSet(Recent(bucket[k]))
         /\ Cardinality(Recent(bucket[k])) \in 0..Max
<1>1. /\ Recent(bucket[k]) = Recent(admitted[k])
      /\ Recent(bucket[k]) \in SUBSET bucket[k]
  BY DEF LimiterControl, Recent
<1> QED BY <1>1, Counts, SendAssumption DEF LimiterControl

(* An admission makes one more of the calls in the window.                 *)
LEMMA CheckKeeps ==
  ASSUME LimiterControl, NEW k \in Keys, NEW r \in Requests, Check(k, r), now' = now
  PROVE  LimiterControl'
<1> DEFINE this == IF Admits(k) THEN {[at |-> now, by |-> r]} ELSE {}
<1>1. /\ bucket' = [bucket EXCEPT ![k] = Recent(@) \cup this]
      /\ admitted' = [admitted EXCEPT ![k] = @ \cup this]
      /\ this \subseteq [at : Nat, by : Requests] /\ \A a \in this : a.at = now
  BY DEF Check, LimiterControl
<1>2. /\ bucket' \in [Keys -> SUBSET [at : Nat, by : Requests]]
      /\ admitted' \in [Keys -> SUBSET [at : Nat, by : Requests]]
  BY <1>1 DEF LimiterControl, Recent
<1>3. IsFiniteSet(Recent(bucket[k]) \cup this) /\ Cardinality(Recent(bucket[k]) \cup this) <= Max
  <2>1. CASE Admits(k)
    <3>1. PICK a : this = {a}
      BY <2>1
    <3>2. Cardinality(Recent(bucket[k])) < Max /\ IsFiniteSet(Recent(bucket[k]))
          /\ Cardinality(Recent(bucket[k])) \in Nat
      BY <2>1, SameWindow, SendAssumption DEF Admits
    <3> DEFINE S == Recent(bucket[k])
    <3>3. Cardinality(S) < Max /\ IsFiniteSet(S) /\ Cardinality(S) \in Nat
      BY <3>2
    <3> HIDE DEF S, this
    <3>4. /\ IsFiniteSet(S \cup {a})
          /\ Cardinality(S \cup {a}) = IF a \in S THEN Cardinality(S) ELSE Cardinality(S) + 1
      BY <3>3, FS_AddElement
    <3>5. Cardinality(S \cup {a}) <= Max
      BY <3>3, <3>4, SendAssumption
    <3> QED BY <3>1, <3>4, <3>5 DEF S
  <2>2. CASE ~ Admits(k)
    BY <2>2, SameWindow, SendAssumption
  <2> QED BY <2>1, <2>2
<1> HIDE DEF this
<1>4. ASSUME NEW j \in Keys
      PROVE  /\ IsFiniteSet(bucket'[j]) /\ Cardinality(bucket'[j]) <= Max
             /\ \A a \in admitted'[j] : a.at <= now
             /\ bucket'[j] \subseteq admitted'[j]
             /\ {a \in admitted'[j] : a.at + Window > now} \subseteq bucket'[j]
  <2>1. CASE j = k
    <3>1. /\ bucket'[j] = Recent(bucket[k]) \cup this
          /\ admitted'[j] = admitted[k] \cup this
      BY <1>1, <2>1 DEF LimiterControl
    <3> QED BY <1>1, <1>3, <3>1 DEF LimiterControl, Recent
  <2>2. CASE j # k
    BY <1>1, <2>2 DEF LimiterControl, Recent
  <2> QED BY <2>1, <2>2
<1> QED BY <1>2, <1>4 DEF LimiterControl, Recent

LEMMA LimiterInit == Init => LimiterControl
  BY FS_EmptySet, SendAssumption DEF Init, LimiterControl, Recent

LEMMA LimiterStep == LimiterControl /\ [Next]_vars => LimiterControl'
<1> SUFFICES ASSUME LimiterControl, [Next]_vars PROVE LimiterControl'
  OBVIOUS
<1>1. ASSUME NEW r \in Requests, NEW b \in Bodies[r], Limit(r, b) \/ Take(r, b) PROVE LimiterControl'
  <2>1. b.to \in Keys
    BY BodyAssumption DEF BodyType
  <2> QED BY <1>1, <2>1, CheckKeeps DEF Limit, Take
<1>2. ASSUME NEW r \in Requests, NEW b \in Bodies[r], Reject(r, b) PROVE LimiterControl'
  BY <1>2 DEF Reject, LimiterControl, Recent
<1>3. ASSUME NEW r \in Requests, Resolve(r) PROVE LimiterControl'
  BY <1>3 DEF Resolve, LimiterControl, Recent
<1>4. ASSUME NEW r \in Requests, SendMessage(r) PROVE LimiterControl'
  BY <1>4 DEF SendMessage, LimiterControl, Recent
<1>5. CASE Tick
  BY <1>5, SendAssumption DEF Tick, LimiterControl, Recent
<1>6. CASE UNCHANGED vars
  BY <1>6 DEF vars, LimiterControl, Recent
<1> QED BY <1>1, <1>2, <1>3, <1>4, <1>5, <1>6 DEF Next

(* The seconds that are told are too few by less than one.                 *)
LEMMA CutOff ==
  ASSUME NEW d \in Nat
  PROVE  formatSeconds(d) \in Nat /\ d < (formatSeconds(d) + 1) * Second
<1> Second \in Nat \ {0}
  BY SendAssumption
<1> DEFINE q == d \div Second
           m == d % Second
<1>1. q \in Nat /\ m \in 0..(Second - 1) /\ d = Second * q + m
  <2>1. ASSUME NEW s \in Nat \ {0}
        PROVE  /\ d \div s \in Nat /\ (d % s) \in 0..(s - 1)
               /\ d = s * (d \div s) + (d % s)
    OBVIOUS
  <2> QED BY <2>1
<1> HIDE DEF q, m
<1>2. (q + 1) * Second = Second * q + Second /\ Second * q \in Nat
  BY <1>1
<1>3. d < (q + 1) * Second
  <2> DEFINE x == Second * q
             y == (q + 1) * Second
  <2>1. x \in Nat /\ d = x + m /\ y = x + Second
    BY <1>1, <1>2
  <2> HIDE DEF x, y
  <2>2. d < y
    BY <1>1, <2>1
  <2> QED BY <2>2 DEF y
<1>4. formatSeconds(d) = IF q < 1 THEN 1 ELSE q
  BY DEF formatSeconds, q
<1>5. CASE q < 1
  <2>1. q = 0 /\ formatSeconds(d) = 1
    BY <1>1, <1>4, <1>5
  <2>2. (q + 1) * Second = Second /\ (formatSeconds(d) + 1) * Second = Second + Second
    BY <2>1
  <2> QED BY <1>3, <2>1, <2>2
<1>6. CASE ~ (q < 1)
  BY <1>1, <1>3, <1>4, <1>6
<1> QED BY <1>5, <1>6

(* A window that is full has a first call, and a caller that is refused is *)
(* told to wait until this one leaves it.                                  *)
LEMMA FirstLeaves ==
  ASSUME LimiterControl, NEW k \in Keys, ~ Admits(k)
  PROVE  LET S == Recent(bucket[k])
         IN  /\ Oldest(S) \in S
             /\ RetryAfter(S) \in Nat
             /\ Oldest(S).at + Window <= now + RetryAfter(S)
<1> DEFINE S == Recent(bucket[k])
<1>1. S # {} /\ \A a \in S : a.at \in Nat
  BY SameWindow, FS_EmptySet, SendAssumption DEF Admits, LimiterControl, Recent
<1> HIDE DEF S
<1> DEFINE T == {a.at : a \in S}
<1>2. T \subseteq Nat /\ T # {} /\ (\A a \in S : a.at \in T) /\ \A t \in T : \E a \in S : a.at = t
  BY <1>1
<1> HIDE DEF T
<1>3. \E a \in S : \A x \in S : a.at <= x.at
  <2>1. PICK t \in T : \A u \in T : ~ (<<u, t>> \in OpToRel(<, Nat))
    BY <1>2, NatLessThanWellFounded, WFMin
  <2>2. ASSUME NEW u \in T PROVE t <= u
    <3>1. u \in Nat /\ t \in Nat
      BY <1>2
    <3>2. u < t => <<u, t>> \in OpToRel(<, Nat)
      BY <3>1 DEF OpToRel
    <3>3. ~ (u < t)
      BY <2>1, <3>2, Zenon
    <3> QED BY <3>1, <3>3
  <2> QED BY <1>2, <2>1, <2>2
<1>4. Oldest(S) \in S /\ Oldest(S).at \in Nat
  BY <1>1, <1>3 DEF Oldest
<1> QED BY <1>4, SendAssumption DEF RetryAfter, S, LimiterControl

-----------------------------------------------------------------------------
(* The requests.                                                           *)

LEMMA RequestInit == Init => Requested
  BY DEF Init, Requested, Shape

LEMMA OneChanges ==
  ASSUME Requested, NEW r \in Requests, NEW rec, Becomes(r, rec), Shape(r, rec)
  PROVE  Requested' /\ request'[r] = rec /\ \A s \in Requests \ {r} : request'[s] = request[s]
<1>1. \A s \in Requests : request'[s] = IF s = r THEN rec ELSE request[s]
  BY DEF Becomes, Requested
<1>2. request' = [s \in Requests |-> request'[s]]
  BY DEF Becomes, Requested
<1> QED BY <1>1, <1>2 DEF Requested

(* What a request is while it is on its way.                               *)
LEMMA WhatItIs ==
  ASSUME Requested, NEW r \in Requests
  PROVE  LET q == request[r]
         IN  /\ q.pc \in {"resolving", "again"} =>
                  /\ q.body \in BodyType /\ Valid(q.body)
                  /\ q.pc = "again" => ~ isBypassServer(q.body.to)
             /\ q.pc \in {"sending", "sent", "failed"} =>
                  q.body \in BodyType /\ Valid(q.body) /\ q.id = MessageID(r, q.body)
             /\ q.pc = "sending" =>
                  /\ q.to = Right(q.body) /\ q.attempt \in 1..3
                  /\ q = [pc |-> "sending", body |-> q.body, to |-> Right(q.body),
                          attempt |-> q.attempt, id |-> MessageID(r, q.body)]
             /\ q.pc = "limited" => q \in Limited
             /\ q.pc \in {"new", "limited", "rejected", "resolving", "again", "sending", "sent", "failed"}
  BY DEF Requested, Shape, Rejected, Limited, Waits

LEMMA RequestStep == Requested /\ LimiterControl /\ [Next]_vars => Requested'
<1> SUFFICES ASSUME Requested, LimiterControl, [Next]_vars PROVE Requested'
  OBVIOUS
<1>1. ASSUME NEW r \in Requests, NEW b \in Bodies[r], Reject(r, b) PROVE Requested'
  BY <1>1, OneChanges DEF Reject, Shape
<1>2. ASSUME NEW r \in Requests, NEW b \in Bodies[r], Limit(r, b) PROVE Requested'
  <2>1. b.to \in Keys
    BY BodyAssumption DEF BodyType
  <2>2. [pc |-> "limited", key |-> b.to, at |-> now,
          after |-> formatSeconds(RetryAfter(Recent(bucket[b.to])))] \in Limited
    BY <1>2, <2>1, FirstLeaves, CutOff DEF Limit, Limited, LimiterControl
  <2> QED BY <1>2, <2>2, OneChanges DEF Limit, Shape
<1>3. ASSUME NEW r \in Requests, NEW b \in Bodies[r], Take(r, b) PROVE Requested'
  <2>1. b \in BodyType
    BY BodyAssumption
  <2>2. CASE ~ Valid(b)
    BY <1>3, <2>2, OneChanges DEF Take, Shape
  <2>3. CASE Valid(b)
    <3>1. Shape(r, [pc |-> "resolving", body |-> b])
      BY <2>1, <2>3 DEF Shape, Waits
    <3> QED BY <1>3, <2>3, <3>1, OneChanges DEF Take
  <2> QED BY <2>2, <2>3
<1>4. ASSUME NEW r \in Requests, Resolve(r) PROVE Requested'
  <2> DEFINE b == request[r].body
  <2>1. /\ b \in BodyType /\ Valid(b) /\ b.to \in Numbers
        /\ request[r].pc = "again" => ~ isBypassServer(b.to)
    <3>1. request[r].pc \in {"resolving", "again"}
      BY <1>4 DEF Resolve
    <3> QED BY <3>1, WhatItIs, BodyAssumption DEF BodyType
  <2>2. Shape(r, Rejected) /\ (~ isBypassServer(b.to) => Shape(r, [pc |-> "again", body |-> b]))
    BY <2>1 DEF Shape, Waits
  <2>3. Shape(r, Composed(r, b, Right(b)))
    BY <2>1 DEF Shape, Composed
  <2>4. \/ Becomes(r, Rejected)
        \/ ~ isBypassServer(b.to) /\ Becomes(r, [pc |-> "again", body |-> b])
        \/ Becomes(r, Composed(r, b, Right(b)))
    BY <1>4, <2>1, Rewritten DEF Resolve, Right
  <2> HIDE DEF b
  <2> QED BY <2>2, <2>3, <2>4, OneChanges
<1>5. ASSUME NEW r \in Requests, SendMessage(r) PROVE Requested'
  <2> DEFINE b == request[r].body
             n == request[r].attempt
  <2>1. /\ b \in BodyType /\ Valid(b) /\ n \in 1..3 /\ request[r].id = MessageID(r, b)
        /\ request[r] = [pc |-> "sending", body |-> b, to |-> Right(b), attempt |-> n,
                         id |-> MessageID(r, b)]
    BY <1>5, WhatItIs DEF SendMessage
  <2>2. ASSUME NEW result \in {"sent", "failed"}, Over(r, result) PROVE Requested'
    <3>1. Shape(r, [pc |-> result, body |-> b, id |-> MessageID(r, b)])
      BY <2>1 DEF Shape
    <3> QED BY <2>1, <2>2, <3>1, OneChanges DEF Over
  <2>3. ASSUME n < 3, Becomes(r, [request[r] EXCEPT !.attempt = @ + 1]) PROVE Requested'
    <3>1. [request[r] EXCEPT !.attempt = @ + 1]
            = [pc |-> "sending", body |-> b, to |-> Right(b), attempt |-> n + 1,
               id |-> MessageID(r, b)]
      BY <2>1
    <3>2. Shape(r, [request[r] EXCEPT !.attempt = @ + 1])
      BY <2>1, <2>3, <3>1 DEF Shape
    <3> QED BY <2>3, <3>2, OneChanges
  <2> QED BY <1>5, <2>2, <2>3 DEF SendMessage
<1>6. CASE Tick \/ UNCHANGED vars
  BY <1>6 DEF Tick, vars, Requested
<1> QED BY <1>1, <1>2, <1>3, <1>4, <1>5, <1>6 DEF Next

-----------------------------------------------------------------------------
(* The messages.                                                           *)

LEMMA MessageInit == Init => MessageControl
  BY DEF Init, MessageControl

(* A request that is not on its way has no message.                        *)
LEMMA Elsewhere ==
  ASSUME Requested, MessageControl, NEW r \in Requests, ~ OnItsWay(r),
         NEW rec, Becomes(r, rec), rec.pc # "sent", accepted' = accepted
  PROVE  MessageControl'
<1>1. \A s \in Requests : request'[s] = IF s = r THEN rec ELSE request[s]
  BY DEF Becomes, Requested
<1>2. \A m \in accepted : m.by \in Requests \ {r} /\ Genuine(m)'
  BY <1>1 DEF MessageControl, Genuine, OnItsWay
<1> QED BY <1>1, <1>2 DEF MessageControl

LEMMA MessageStep == Requested /\ MessageControl /\ [Next]_vars => MessageControl'
<1> SUFFICES ASSUME Requested, MessageControl, [Next]_vars PROVE MessageControl'
  OBVIOUS
<1>1. ASSUME NEW r \in Requests, NEW b \in Bodies[r], Reject(r, b) \/ Limit(r, b) \/ Take(r, b)
      PROVE  MessageControl'
  <2>1. ~ OnItsWay(r) /\ accepted' = accepted
    BY <1>1 DEF Reject, Limit, Take, OnItsWay
  <2>2. \E rec : Becomes(r, rec) /\ rec.pc # "sent"
    BY <1>1 DEF Reject, Limit, Take, Rejected
  <2> QED BY <2>1, <2>2, Elsewhere
<1>2. ASSUME NEW r \in Requests, Resolve(r) PROVE MessageControl'
  <2>1. ~ OnItsWay(r) /\ accepted' = accepted
    BY <1>2 DEF Resolve, OnItsWay
  <2>2. \E rec : Becomes(r, rec) /\ rec.pc # "sent"
    BY <1>2 DEF Resolve, Rejected, Composed
  <2> QED BY <2>1, <2>2, Elsewhere
<1>3. ASSUME NEW r \in Requests, SendMessage(r) PROVE MessageControl'
  <2>1. PICK b, n : request[r] = [pc |-> "sending", body |-> b, to |-> Right(b), attempt |-> n,
                                  id |-> MessageID(r, b)]
    BY <1>3, WhatItIs DEF SendMessage
  <2> DEFINE id == MessageID(r, b)
  <2>2. /\ request'[r].pc \in {"sending", "sent", "failed"}
        /\ request'[r].body = b /\ request'[r].id = id
        /\ \A s \in Requests \ {r} : request'[s] = request[s]
        /\ Accept(r) \/ (accepted' = accepted /\ request'[r].pc # "sent")
    BY <1>3, <2>1 DEF SendMessage, Over, Becomes, Requested
  <2> DEFINE m == [id |-> id, by |-> r, to |-> Right(b), content |-> Content(b)]
  <2>3. Accept(r) => accepted' = IF \E x \in accepted : x.id = id THEN accepted
                                                             ELSE accepted \cup {m}
    BY <2>1 DEF Accept
  <2>4. \A x : Genuine(x) => Genuine(x)'
    BY <2>1, <2>2 DEF Genuine, OnItsWay
  <2>5. Genuine(m)' /\ m.id = id
    BY <2>2 DEF Genuine, OnItsWay
  <2> HIDE DEF m, id
  <2>6. \A x \in accepted' : Genuine(x)'
    <3>1. \A x \in accepted : Genuine(x)'
      BY <2>4 DEF MessageControl
    <3>2. accepted' = accepted \/ accepted' = accepted \cup {m}
      BY <2>2, <2>3
    <3> QED BY <2>5, <3>1, <3>2
  <2>7. \A x, y \in accepted' : x.id = y.id => x = y
    BY <2>2, <2>3, <2>5 DEF MessageControl
  <2>8. \A s \in Requests : request'[s].pc = "sent" => \E x \in accepted' : x.id = request'[s].id
    BY <2>2, <2>3, <2>5 DEF MessageControl
  <2> QED BY <2>6, <2>7, <2>8 DEF MessageControl
<1>4. CASE Tick \/ UNCHANGED vars
  <2>1. UNCHANGED <<request, accepted>>
    BY <1>4 DEF Tick, vars
  <2> QED BY <2>1 DEF MessageControl, Genuine, OnItsWay
<1> QED BY <1>1, <1>2, <1>3, <1>4 DEF Next

-----------------------------------------------------------------------------
(* The invariant, and what follows from it.                                *)

IInv == Requested /\ LimiterControl /\ MessageControl

(* Together the parts are inductive.                                       *)
THEOREM InductiveInvariant == Spec => []IInv
<1>1. Init => IInv
  BY RequestInit, LimiterInit, MessageInit DEF IInv
<1>2. IInv /\ [Next]_vars => IInv'
  BY RequestStep, LimiterStep, MessageStep DEF IInv
<1> QED BY <1>1, <1>2, PTL DEF Spec

(* Every reachable state is typed, and no bucket is fuller than the limit. *)
THEOREM TypeCorrect == Spec => []TypeOK
<1>1. ASSUME IInv PROVE TypeOK
  <2>1. ASSUME NEW r \in Requests
        PROVE  /\ request[r].pc \in {"new", "limited", "rejected", "resolving", "again", "sending",
                                     "sent", "failed"}
               /\ request[r].pc \notin {"new", "limited", "rejected"} => request[r].body.to \in Keys
    BY <1>1, WhatItIs DEF IInv, BodyType
  <2>2. ASSUME NEW m \in accepted PROVE m.by \in Requests /\ m.to \in Numbers
    <3>1. /\ m.by \in Requests /\ OnItsWay(m.by) /\ m.to = Right(request[m.by].body)
      BY <1>1 DEF IInv, MessageControl, Genuine
    <3>2. request[m.by].body.to \in Numbers
      BY <3>1, <2>1, BodyAssumption DEF OnItsWay
    <3> QED BY <3>1, <3>2, Rewritten DEF Right
  <2> QED BY <1>1, <2>1, <2>2 DEF TypeOK, IInv, LimiterControl
<1> QED BY <1>1, InductiveInvariant, PTL

(* One request makes one message, however often it is tried.               *)
THEOREM OneMessageHolds == Spec => []OneMessage
<1>1. IInv => OneMessage
  BY DEF IInv, MessageControl, Genuine, OneMessage
<1> QED BY <1>1, InductiveInvariant, PTL

(* Success means that WhatsApp has the message; a request that was turned  *)
(* away sent nothing.                                                      *)
THEOREM HonestAnswerHolds == Spec => []HonestAnswer
<1>1. IInv => HonestAnswer
  BY DEF IInv, MessageControl, Genuine, OnItsWay, HonestAnswer
<1> QED BY <1>1, InductiveInvariant, PTL

(* Every message goes to the one its body names.                           *)
THEOREM RightRecipientHolds == Spec => []RightRecipient
<1>1. IInv => RightRecipient
  BY DEF IInv, MessageControl, Genuine, RightRecipient, Right
<1> QED BY <1>1, InductiveInvariant, PTL

(* The envelope suits every button.                                        *)
THEOREM EnvelopeFitsHolds == Spec => []EnvelopeFits
<1>1. ASSUME IInv, NEW m \in accepted, ~ request[m.by].body.text
      PROVE  LET b == request[m.by].body
             IN  /\ (m.content.envelope = "ButtonsMessage") = (Types(b.buttons) = {"reply"})
                 /\ (m.content.name = "payment_info") = ("pix" \in Types(b.buttons))
                 /\ m.content.name = "payment_info" => Len(b.buttons) = 1
  <2> DEFINE list == request[m.by].body.buttons
  <2>1. m.by \in Requests /\ OnItsWay(m.by) /\ m.content = Content(request[m.by].body)
    BY <1>1 DEF IInv, MessageControl, Genuine
  <2>2. request[m.by].body \in BodyType /\ Valid(request[m.by].body)
    BY <1>1, <2>1, WhatItIs DEF IInv, OnItsWay
  <2>3. list \in Seq(ButtonTypes) /\ validateButtons(list)
    BY <1>1, <2>2 DEF BodyType, Valid
  <2>4. m.content = buildButtonsMessage(list)
    BY <1>1, <2>1 DEF Content
  <2> HIDE DEF list
  <2>5. /\ (m.content.envelope = "ButtonsMessage") = (list[1] = "reply")
        /\ (m.content.name = "payment_info") = (list[1] = "pix")
    BY <2>3, <2>4, OfOneKind DEF buildButtonsMessage, ButtonTypes
  <2> QED BY <2>3, <2>5, OfOneKind DEF list
<1>2. IInv => EnvelopeFits
  BY <1>1 DEF EnvelopeFits
<1> QED BY <1>2, InductiveInvariant, PTL

-----------------------------------------------------------------------------
(* The limiter implements SlidingWindow: its window and the one of the     *)
(* abstract limiter have the same calls.                                   *)
THEOREM KeepsBudgetHolds == Spec => KeepsBudget
<1>1. Init => Budget!Init
  BY DEF Init, Budget!Init
<1>2. ASSUME IInv, [Next]_vars PROVE [Budget!Next]_<<now, admitted>>
  <2>1. ASSUME NEW r \in Requests, NEW b \in Bodies[r], Take(r, b) PROVE Budget!Next
    <3>1. b.to \in Keys
      BY BodyAssumption DEF BodyType
    <3>2. Cardinality(Budget!InWindow(b.to)) < Max
      BY <1>2, <2>1, <3>1, SameWindow DEF Take, Admits, IInv, Recent, Budget!InWindow
    <3>3. /\ now' = now
          /\ admitted' = [admitted EXCEPT ![b.to] = @ \cup {[at |-> now, by |-> r]}]
      BY <2>1 DEF Take, Check
    <3>4. \A S : Budget!Cardinality(S) = Cardinality(S)
      BY DEF Budget!Cardinality, Cardinality
    <3>5. Budget!Admit(b.to, r)
      BY <3>2, <3>3, <3>4 DEF Budget!Admit
    <3> QED BY <3>1, <3>5 DEF Budget!Next
  <2>2. ASSUME NEW r \in Requests, NEW b \in Bodies[r], Limit(r, b) PROVE UNCHANGED <<now, admitted>>
    BY <1>2, <2>2 DEF Limit, Check, IInv, LimiterControl
  <2>3. ASSUME NEW r \in Requests, NEW b \in Bodies[r], Reject(r, b) PROVE UNCHANGED <<now, admitted>>
    BY <2>3 DEF Reject
  <2>4. ASSUME NEW r \in Requests, Resolve(r) PROVE UNCHANGED <<now, admitted>>
    BY <2>4 DEF Resolve
  <2>5. ASSUME NEW r \in Requests, SendMessage(r) PROVE UNCHANGED <<now, admitted>>
    BY <2>5 DEF SendMessage
  <2>6. Tick => Budget!Next
    BY DEF Tick, Budget!Next, Budget!Pass
  <2>7. UNCHANGED vars => UNCHANGED <<now, admitted>>
    BY DEF vars
  <2> QED BY <1>2, <2>1, <2>2, <2>3, <2>4, <2>5, <2>6, <2>7 DEF Next
<1> QED BY <1>1, <1>2, InductiveInvariant, PTL DEF Spec, KeepsBudget, Budget!Spec

-----------------------------------------------------------------------------
(* What SlidingWindow promises about the calls before now holds of any     *)
(* span, and so of this limiter.                                           *)
SpansControl ==
  /\ now \in Nat
  /\ admitted \in [Keys -> SUBSET [at : Nat, by : Requests]]
  /\ \A k \in Keys : IsFiniteSet(admitted[k]) /\ \A a \in admitted[k] : a.at <= now
  /\ \A k \in Keys, t \in Nat : Cardinality(Budget!Span(k, t)) <= Max

LEMMA SpansInit == Budget!Init => SpansControl
<1> SUFFICES ASSUME Budget!Init PROVE SpansControl
  OBVIOUS
<1>1. \A k \in Keys : admitted[k] = {}
  BY DEF Budget!Init
<1>2. \A k \in Keys, t \in Nat : Budget!Span(k, t) = {}
  BY <1>1 DEF Budget!Span
<1>3. IsFiniteSet({}) /\ Cardinality({}) = 0 /\ Max \in Nat
  BY FS_EmptySet, SendAssumption
<1>4. now = 0 /\ admitted \in [Keys -> SUBSET [at : Nat, by : Requests]]
  BY DEF Budget!Init
<1>5. ASSUME NEW k \in Keys
      PROVE  IsFiniteSet(admitted[k]) /\ \A a \in admitted[k] : a.at <= now
  BY <1>1, <1>3
<1>6. ASSUME NEW k \in Keys, NEW t \in Nat PROVE Cardinality(Budget!Span(k, t)) <= Max
  <2>1. Cardinality(Budget!Span(k, t)) = 0
    BY <1>2, <1>3
  <2> QED BY <1>3, <2>1
<1>7. now \in Nat
  BY <1>4
<1> QED BY <1>4, <1>5, <1>6, <1>7 DEF SpansControl

LEMMA OneMore ==
  ASSUME NEW S, NEW x, IsFiniteSet(S)
  PROVE  Cardinality(S \cup {x}) <= Cardinality(S) + 1
<1>1. Cardinality(S \cup {x}) = IF x \in S THEN Cardinality(S) ELSE Cardinality(S) + 1
  BY FS_AddElement
<1>2. Cardinality(S) \in Nat
  BY FS_CardinalityType
<1> QED BY <1>1, <1>2

(* A call that is admitted joins only spans that lie in its window.        *)
LEMMA SpansAdmit ==
  ASSUME SpansControl, NEW k \in Keys, NEW r \in Requests, Budget!Admit(k, r)
  PROVE  SpansControl'
<1> DEFINE this == [at |-> now, by |-> r]
<1>1. /\ now' = now /\ now \in Nat /\ this \in [at : Nat, by : Requests] /\ this.at = now
      /\ admitted' = [admitted EXCEPT ![k] = @ \cup {this}]
  BY DEF SpansControl, Budget!Admit
<1>2. \A S : Budget!Cardinality(S) = Cardinality(S)
  BY DEF Budget!Cardinality, Cardinality
<1>3. Cardinality(Budget!InWindow(k)) < Max
  BY <1>2 DEF Budget!Admit
<1>4. admitted' \in [Keys -> SUBSET [at : Nat, by : Requests]]
  BY <1>1 DEF SpansControl
<1>5. ASSUME NEW j \in Keys
      PROVE  IsFiniteSet(admitted'[j]) /\ \A a \in admitted'[j] : a.at <= now'
  <2>1. IsFiniteSet(admitted[k] \cup {this})
    BY FS_AddElement DEF SpansControl
  <2>2. admitted'[j] = IF j = k THEN admitted[k] \cup {this} ELSE admitted[j]
    BY <1>1 DEF SpansControl
  <2> QED BY <1>1, <2>1, <2>2 DEF SpansControl
<1>6. ASSUME NEW j \in Keys, NEW t \in Nat
      PROVE  Cardinality(Budget!Span(j, t)') <= Max
  <2>1. CASE j = k /\ t <= now /\ now < t + Window
    <3>1. Budget!Span(k, t) \subseteq Budget!InWindow(k)
      BY <2>1, SendAssumption DEF Budget!Span, Budget!InWindow, SpansControl
    <3>2. IsFiniteSet(Budget!InWindow(k)) /\ IsFiniteSet(Budget!Span(k, t))
      BY FS_Subset DEF SpansControl, Budget!InWindow, Budget!Span
    <3>3. Cardinality(Budget!Span(k, t)) <= Cardinality(Budget!InWindow(k))
      BY <3>1, <3>2, FS_Subset
    <3>4. Budget!Span(k, t)' = Budget!Span(k, t) \cup {this}
      BY <1>1, <2>1 DEF Budget!Span, SpansControl
    <3>5. Cardinality(Budget!Span(k, t) \cup {this}) <= Cardinality(Budget!Span(k, t)) + 1
      BY <3>2, OneMore
    <3>6. /\ Cardinality(Budget!Span(k, t)) \in Nat /\ Cardinality(Budget!InWindow(k)) \in Nat
          /\ Cardinality(Budget!Span(k, t) \cup {this}) \in Nat
      BY <3>2, FS_CardinalityType, FS_AddElement
    <3>7. Cardinality(Budget!Span(k, t) \cup {this}) <= Max
      BY <1>3, <3>3, <3>5, <3>6, SendAssumption
    <3> QED BY <2>1, <3>4, <3>7
  <2>2. CASE ~ (j = k /\ t <= now /\ now < t + Window)
    <3>1. Budget!Span(j, t)' = Budget!Span(j, t)
      BY <1>1, <2>2 DEF Budget!Span, SpansControl
    <3> QED BY <3>1 DEF SpansControl
  <2> QED BY <2>1, <2>2
<1> QED BY <1>1, <1>4, <1>5, <1>6 DEF SpansControl

LEMMA SpansNext == SpansControl /\ [Budget!Next]_<<now, admitted>> => SpansControl'
<1> SUFFICES ASSUME SpansControl, [Budget!Next]_<<now, admitted>> PROVE SpansControl'
  OBVIOUS
<1>1. CASE Budget!Pass
  <2>1. now' = now + 1 /\ admitted' = admitted
    BY <1>1 DEF Budget!Pass
  <2>2. \A k \in Keys, t \in Nat : Budget!Span(k, t)' = Budget!Span(k, t)
    BY <2>1 DEF Budget!Span
  <2> QED BY <2>1, <2>2 DEF SpansControl
<1>2. CASE \E k \in Keys, r \in Requests : Budget!Admit(k, r)
  BY <1>2, SpansAdmit
<1>3. CASE UNCHANGED <<now, admitted>>
  BY <1>3 DEF SpansControl, Budget!Span
<1> QED BY <1>1, <1>2, <1>3 DEF Budget!Next

(* In no span of Window are more than Max calls with one key admitted:     *)
(* not only up to now, and whatever the limiter has pruned since.          *)
THEOREM AnySpanHolds == Spec => []Budget!AnySpan
<1>1. Budget!Spec => []SpansControl
  BY SpansInit, SpansNext, PTL DEF Budget!Spec
<1>2. SpansControl => Budget!AnySpan
  <2>1. \A S : Budget!Cardinality(S) = Cardinality(S)
    BY DEF Budget!Cardinality, Cardinality
  <2> QED BY <2>1 DEF SpansControl, Budget!AnySpan
<1> QED BY <1>1, <1>2, KeepsBudgetHolds, PTL DEF KeepsBudget

-----------------------------------------------------------------------------
(* The wait.  The calls that filled the window of a refused one stay the   *)
(* same, and the first of them has left when the seconds that were told    *)
(* and the part of one that was cut off are over.                          *)
Filling(q) == {a \in admitted[q.key] : a.at <= q.at /\ a.at + Window > q.at}

Told(q) == (q.after + 1) * Second

FullThen(q) ==
  /\ q.at <= now
  /\ IsFiniteSet(Filling(q)) /\ Cardinality(Filling(q)) = Max
  /\ \E a \in Filling(q) : a.at + Window < q.at + Told(q)

HintControl == \A r \in Requests : request[r].pc = "limited" => FullThen(request[r])

LEMMA HintInit == Init => HintControl
  BY DEF Init, HintControl

(* Of the calls that follow none joins those that filled the window.       *)
LEMMA Settled ==
  ASSUME IInv, NEW q \in Limited, FullThen(q), now' \in Nat, now <= now',
         NEW k \in Keys, NEW this, \A a \in this : a.at = now,
         admitted' = [admitted EXCEPT ![k] = @ \cup this],
         this # {} => Admits(k)
  PROVE  FullThen(q)'
<1>1. q.at \in Nat /\ q.after \in Nat /\ q.key \in Keys /\ now \in Nat
  BY SendAssumption DEF Limited, IInv, LimiterControl
<1>2. Filling(q)' = Filling(q)
  <2>1. CASE this = {} \/ k # q.key
    BY <1>1, <2>1 DEF Filling, IInv, LimiterControl
  <2>2. CASE this # {} /\ k = q.key
    <3>1. q.at # now
      <4>1. SUFFICES ASSUME q.at = now PROVE FALSE
        OBVIOUS
      <4>2. Filling(q) = Recent(admitted[k])
        BY <2>2, <4>1 DEF Filling, Recent, IInv, LimiterControl
      <4>3. Cardinality(Recent(bucket[k])) = Max
        BY <4>2, SameWindow DEF IInv, FullThen
      <4> QED BY <2>2, <4>3, SendAssumption DEF Admits
    <3>2. admitted'[q.key] = admitted[q.key] \cup this
      BY <1>1, <2>2 DEF IInv, LimiterControl
    <3>3. \A a \in this : ~ (a.at <= q.at)
      BY <1>1, <3>1 DEF FullThen
    <3> QED BY <3>2, <3>3 DEF Filling
  <2> QED BY <2>1, <2>2
<1> QED BY <1>1, <1>2 DEF FullThen

LEMMA HintStep == IInv /\ HintControl /\ [Next]_vars => HintControl'
<1> SUFFICES ASSUME IInv, HintControl, [Next]_vars PROVE HintControl'
  OBVIOUS
<1>1. ASSUME NEW k \in Keys, NEW this, \A a \in this : a.at = now,
             admitted' = [admitted EXCEPT ![k] = @ \cup this],
             this # {} => Admits(k), now' \in Nat, now <= now',
             NEW s \in Requests, request[s].pc = "limited", request'[s] = request[s]
      PROVE  FullThen(request[s])'
  <2>1. PICK q : q = request[s]
    OBVIOUS
  <2>2. q \in Limited /\ FullThen(q)
    BY <1>1, <2>1, WhatItIs DEF IInv, HintControl
  <2>3. FullThen(q)'
    BY <1>1, <2>2, Settled
  <2> QED BY <1>1, <2>1, <2>3 DEF FullThen, Filling, Told
<1>2. ASSUME NEW r \in Requests, NEW b \in Bodies[r], Limit(r, b) PROVE HintControl'
  <2> DEFINE S == Recent(bucket[b.to])
  <2>1. b.to \in Keys
    BY BodyAssumption DEF BodyType
  <2>2. /\ now' = now /\ now \in Nat
        /\ admitted' = [admitted EXCEPT ![b.to] = @ \cup {}] /\ admitted' = admitted
        /\ \A s \in Requests : request'[s] =
             IF s = r THEN [pc |-> "limited", key |-> b.to, at |-> now,
                            after |-> formatSeconds(RetryAfter(S))]
                      ELSE request[s]
    BY <1>2, SendAssumption DEF Limit, Check, Becomes, IInv, LimiterControl, Requested
  <2>3. ASSUME NEW s \in Requests \ {r}, request'[s].pc = "limited" PROVE FullThen(request[s])'
    BY <2>2, <2>3 DEF HintControl, FullThen, Filling, Told
  <2>4. PICK x : x = [pc |-> "limited", key |-> b.to, at |-> now,
                      after |-> formatSeconds(RetryAfter(S))]
    OBVIOUS
  <2>5. Filling(x) = S
    BY <2>1, <2>4, SameWindow DEF IInv, LimiterControl, Filling, Recent
  <2>6. Cardinality(S) = Max /\ IsFiniteSet(S)
    BY <1>2, <2>1, SameWindow, SendAssumption DEF IInv, Limit, Admits
  <2>7. FullThen(x)
    <3>1. ~ Admits(b.to) /\ x.at = now /\ x.after = formatSeconds(RetryAfter(S))
      BY <1>2, <2>4 DEF Limit
    <3>2. /\ Oldest(S) \in S /\ Oldest(S).at \in Nat /\ RetryAfter(S) \in Nat
          /\ Oldest(S).at + Window <= now + RetryAfter(S)
      BY <2>1, <3>1, FirstLeaves DEF IInv, LimiterControl, Recent
    <3>3. RetryAfter(S) < Told(x) /\ Told(x) \in Nat
      BY <3>1, <3>2, CutOff, SendAssumption DEF Told
    <3>4. Oldest(S).at + Window < x.at + Told(x)
      BY <2>2, <3>1, <3>2, <3>3, SendAssumption
    <3> QED BY <2>2, <2>5, <2>6, <3>1, <3>2, <3>4 DEF FullThen
  <2>8. FullThen(x)'
    BY <2>2, <2>7 DEF FullThen, Filling, Told
  <2>9. FullThen(request[r])'
    BY <2>2, <2>4, <2>8 DEF FullThen, Filling, Told
  <2> QED BY <2>2, <2>3, <2>9 DEF HintControl
<1>3. ASSUME NEW r \in Requests, NEW b \in Bodies[r], Take(r, b) PROVE HintControl'
  <2>1. b.to \in Keys
    BY BodyAssumption DEF BodyType
  <2>2. /\ now' = now /\ now \in Nat /\ Admits(b.to)
        /\ admitted' = [admitted EXCEPT ![b.to] = @ \cup {[at |-> now, by |-> r]}]
        /\ request'[r].pc # "limited"
        /\ \A s \in Requests \ {r} : request'[s] = request[s]
    BY <1>3, SendAssumption DEF Take, Check, Becomes, Rejected, IInv, LimiterControl, Requested
  <2>3. ASSUME NEW s \in Requests, request'[s].pc = "limited" PROVE FullThen(request[s])'
    <3>1. PICK this : this = {[at |-> now, by |-> r]}
      OBVIOUS
    <3>2. /\ \A a \in this : a.at = now
          /\ admitted' = [admitted EXCEPT ![b.to] = @ \cup this]
          /\ now' \in Nat /\ now <= now'
      BY <2>2, <3>1
    <3>3. request[s].pc = "limited" /\ request'[s] = request[s]
      BY <2>2, <2>3
    <3> QED BY <1>1, <2>1, <2>2, <3>2, <3>3
  <2> QED BY <2>3 DEF HintControl
<1>4. ASSUME NEW r \in Requests, NEW b \in Bodies[r], Reject(r, b) PROVE HintControl'
  BY <1>4 DEF Reject, Becomes, Rejected, IInv, Requested, HintControl, FullThen, Filling, Told
<1>5. ASSUME NEW r \in Requests, Resolve(r) PROVE HintControl'
  <2>1. /\ request'[r].pc # "limited" /\ \A s \in Requests \ {r} : request'[s] = request[s]
        /\ now' = now /\ admitted' = admitted
    BY <1>5 DEF Resolve, Becomes, Rejected, Composed, IInv, Requested
  <2> QED BY <2>1 DEF HintControl, FullThen, Filling, Told
<1>6. ASSUME NEW r \in Requests, SendMessage(r) PROVE HintControl'
  <2>1. request[r].pc = "sending" /\ now' = now /\ admitted' = admitted
    BY <1>6 DEF SendMessage
  <2>2. PICK b, n, id, to : request[r] = [pc |-> "sending", body |-> b, to |-> to, attempt |-> n, id |-> id]
    BY <2>1, WhatItIs DEF IInv
  <2>3. request'[r].pc # "limited" /\ \A s \in Requests \ {r} : request'[s] = request[s]
    BY <1>6, <2>2 DEF SendMessage, Over, Becomes, IInv, Requested
  <2> QED BY <2>1, <2>3 DEF HintControl, FullThen, Filling, Told
<1>7. CASE Tick
  <2>1. now \in Nat /\ now' = now + 1 /\ request' = request /\ admitted' = admitted
    BY <1>7, SendAssumption DEF Tick, IInv, LimiterControl
  <2>2. ASSUME NEW s \in Requests, request[s].pc = "limited" PROVE FullThen(request[s])'
    <3>1. request[s].at \in Nat /\ FullThen(request[s])
      BY <2>2, WhatItIs DEF IInv, HintControl, Limited
    <3> QED BY <2>1, <3>1 DEF FullThen, Filling, Told
  <2> QED BY <2>1, <2>2 DEF HintControl
<1>8. CASE UNCHANGED vars
  BY <1>8 DEF vars, HintControl, FullThen, Filling, Told
<1> QED BY <1>2, <1>3, <1>4, <1>5, <1>6, <1>7, <1>8 DEF Next

(* A second after the seconds it was told at the latest a refused caller   *)
(* finds room, if nobody was admitted meanwhile: what formatSeconds cuts   *)
(* off is all that the header lacks.                                       *)
THEOREM HintIsEnoughHolds == Spec => []HintIsEnough
<1>1. ASSUME IInv, HintControl, NEW r \in Requests,
             request[r].pc = "limited", now + 1 >= request[r].at + Told(request[r]),
             \A a \in admitted[request[r].key] : a.at <= request[r].at
      PROVE  Cardinality(Recent(bucket[request[r].key])) < Max
  <2> DEFINE q == request[r]
             S == Filling(q)
             R == Recent(bucket[q.key])
  <2>1. q \in Limited /\ FullThen(q)
    BY <1>1, WhatItIs DEF IInv, HintControl
  <2>2. PICK a \in S : a.at + Window < q.at + Told(q)
    BY <2>1 DEF FullThen
  <2>3. /\ q.key \in Keys /\ now \in Nat /\ q.at \in Nat /\ Told(q) \in Nat
        /\ \A x \in S : x.at \in Nat
    BY <1>1, <2>1, SendAssumption DEF Limited, IInv, LimiterControl, Filling, Told
  <2>4. R = Recent(admitted[q.key])
    BY <1>1, <2>3, SameWindow DEF IInv
  <2>5. R \subseteq S \ {a}
    BY <1>1, <2>1, <2>2, <2>3, <2>4, SendAssumption DEF Recent, Filling, IInv, LimiterControl
  <2>6. IsFiniteSet(S) /\ Cardinality(S) = Max
    BY <2>1 DEF FullThen
  <2> HIDE DEF S, R
  <2>7. IsFiniteSet(S \ {a}) /\ Cardinality(S \ {a}) = Max - 1
    BY <2>2, <2>6, FS_RemoveElement
  <2>8. Cardinality(R) <= Max - 1 /\ Cardinality(R) \in Nat
    BY <2>5, <2>7, Counts
  <2> QED BY <2>8, SendAssumption DEF R
<1>2. IInv /\ HintControl => HintIsEnough
  BY <1>1 DEF HintIsEnough, Told
<1> QED BY <1>2, InductiveInvariant, HintInit, HintStep, PTL DEF Spec
=============================================================================
