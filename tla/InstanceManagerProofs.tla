------------------------ MODULE InstanceManagerProofs ------------------------
(***************************************************************************)
(* Proofs about InstanceManager for any instances, clients, devices,       *)
(* requests and callbacks, and any bound on the incidents.                 *)
(***************************************************************************)
EXTENDS InstanceManager, SequenceTheorems, TLAPS

StartSteps == {"load", "check", "device", "clear", "publish"}
OtherSteps ==
  {"create", "lookup", "get", "reget", "glance", "kick", "force", "connect", "connectForm",
   "sync", "find", "stop", "mark", "remove", "delete", "setConnected", "setIdentity", "ask",
   "setDisconnected", "evict", "reset"}
Steps == StartSteps \cup OtherSteps \cup {"request"}

(* The steps that never come after just any step. *)
InnerSteps == {"check", "device", "clear", "publish", "request"}

(* Steps come in the order of Start: nothing but the step before leads to  *)
(* check, device and publish, and clear comes first and before publish.    *)
(* Nothing leads to a request.                                             *)
Link(s, n) ==
  /\ s[n] = "load"  => n + 3 <= Len(s) /\ s[n + 1] = "check" /\ s[n + 2] = "device" /\ s[n + 3] = "publish"
  /\ s[n] = "check" => n + 2 <= Len(s) /\ s[n + 1] = "device" /\ s[n + 2] = "publish"
  /\ s[n] \in {"device", "clear"} => n + 1 <= Len(s) /\ s[n + 1] = "publish"
  /\ n > 1 =>
       /\ s[n] \notin {"clear", "request"}
       /\ s[n] = "check" => s[n - 1] = "load"
       /\ s[n] = "device" => s[n - 1] = "check"
       /\ s[n] = "publish" => s[n - 1] \in {"device", "clear"}

Chained(s) == \A n \in 1..Len(s) : Link(s, n)

ThreadsControl ==
  /\ todo \in [Threads -> Seq(Steps)]
  /\ \A t \in Threads : Chained(todo[t])
  /\ ~ subscribed => \A t \in Threads : todo[t] \in {<<>>, <<"request">>} /\ held[t] = NoClient

(* A thread between NewClient and the publication of the client.           *)
Building(t) == Doing(t, "clear") \/ Doing(t, "publish")

(* A client that is in the map, has or gets a connection, or is known to a *)
(* thread that did not just build it.                                      *)
Known(c) ==
  \/ \E i \in Instances : published[i] = c
  \/ c \in up \cup connecting \cup retrying
  \/ \E t \in Threads : held[t] = c /\ ~ Building(t)

(* Clients have no handler until they are published, and one from then on. *)
HooksControl ==
  /\ \A c \in Clients : Known(c) => hooks[c] = IF subscribed THEN 1 ELSE 0
  /\ ~ subscribed => \A c \in Clients :
       /\ hooks[c] = 0
       /\ c \in up \cup connecting \cup retrying => \E i \in Instances : published[i] = c
  /\ \A t \in Threads : Building(t) =>
       /\ held[t] \in Clients
       /\ hooks[held[t]] = 0
       /\ \A u \in Threads : Building(u) /\ held[u] = held[t] => u = t

(* A client reports for the instance it is built for, and is not revoked   *)
(* before it is published.                                                 *)
OwnersControl ==
  /\ \A i \in Instances : published[i] # NoClient => owner[published[i]] = i
  /\ \A t \in Threads : Building(t) => owner[held[t]] = at[t] /\ dev[held[t]] # Deleted
  /\ NoZombie

(* The jid that Start has read lasts until it has its device, and a thread *)
(* that holds a client has something left to do for the client's instance. *)
HandsControl ==
  /\ \A t \in Threads : read[t] # NoDevice => Doing(t, "check") \/ Doing(t, "device")
  /\ \A t \in Threads : held[t] # NoClient =>
       /\ owner[held[t]] = at[t]
       /\ todo[t] # <<>> /\ ~ Doing(t, "request")

PhonesInv == HandsControl /\ OnePhone

IInv == TypeOK /\ ThreadsControl /\ HooksControl /\ OwnersControl

-----------------------------------------------------------------------------
(* Sequences of steps.                                                     *)

(* What is left of a sequence after its first k steps.                     *)
LEMMA Suffix ==
  ASSUME NEW s \in Seq(Steps), Chained(s), NEW k \in Nat
  PROVE  LET u == SubSeq(s, k + 1, Len(s))
         IN  /\ u \in Seq(Steps) /\ Chained(u)
             /\ u = <<>> \/ (k < Len(s) /\ Head(u) = s[k + 1])
<1> DEFINE u == SubSeq(s, k + 1, Len(s))
<1>1. CASE k >= Len(s)
  <2>1. u = <<>>
    BY <1>1
  <2> QED BY <1>1, <2>1 DEF Chained
<1>2. CASE k < Len(s)
  <2>1. u \in Seq(Steps) /\ Len(u) = Len(s) - k /\ \A n \in 1..Len(u) : u[n] = s[n + k]
    BY <1>2
  <2>2. Chained(u)
    <3> SUFFICES ASSUME NEW n \in 1..Len(u)
                 PROVE  Link(u, n)
      BY DEF Chained
    <3>1. Link(s, n + k) /\ n + k \in 1..Len(s)
      BY <2>1 DEF Chained
    <3> QED BY <2>1, <3>1 DEF Link
  <2>3. Head(u) = u[1] /\ u[1] = s[k + 1]
    BY <1>2, <2>1
  <2> QED BY <1>2, <2>1, <2>2, <2>3
<1> QED BY <1>1, <1>2

(* Two sequences, one after the other.                                     *)
LEMMA Joined ==
  ASSUME NEW s \in Seq(Steps), NEW u \in Seq(Steps), Chained(s), Chained(u), s # <<>>,
         u # <<>> => Head(u) \notin InnerSteps
  PROVE  s \o u \in Seq(Steps) /\ Chained(s \o u) /\ s \o u # <<>> /\ Head(s \o u) = Head(s)
<1> DEFINE w == s \o u
<1>1. /\ w \in Seq(Steps) /\ Len(w) = Len(s) + Len(u) /\ Len(s) > 0
      /\ \A n \in 1..Len(s) : w[n] = s[n]
      /\ \A n \in 1..Len(u) : w[n + Len(s)] = u[n]
  BY ConcatProperties, EmptySeq
<1>2. ASSUME NEW n \in 1..Len(w) PROVE Link(w, n)
  <2>1. CASE n <= Len(s)
    <3>1. Link(s, n)
      BY <2>1 DEF Chained
    <3> QED BY <1>1, <2>1, <3>1 DEF Link
  <2>2. CASE n = Len(s) + 1
    <3>1. Link(u, 1) /\ Head(u) = u[1] /\ u # <<>> /\ w[n] = u[1]
      BY <1>1, <2>2 DEF Chained
    <3>2. \A j \in 1..3 : 1 + j <= Len(u) => n + j <= Len(w) /\ w[n + j] = u[1 + j]
      BY <1>1, <2>2
    <3> QED BY <1>1, <2>2, <3>1, <3>2 DEF Link, StartSteps, InnerSteps
  <2>3. CASE n > Len(s) + 1
    <3> DEFINE m == n - Len(s)
    <3>0. m \in 2..Len(u) /\ n = m + Len(s) /\ n - 1 = (m - 1) + Len(s) /\ m - 1 \in 1..Len(u)
      BY <1>1, <2>3
    <3> HIDE DEF m
    <3>1. Link(u, m) /\ w[n] = u[m] /\ w[n - 1] = u[m - 1]
      BY <1>1, <3>0 DEF Chained
    <3>2. \A j \in 1..3 : m + j <= Len(u) => n + j <= Len(w) /\ w[n + j] = u[m + j]
      BY <1>1, <3>0
    <3>3. n > 1 /\ m > 1
      BY <1>1, <3>0
    <3>4. /\ m + 1 <= Len(u) => n + 1 <= Len(w) /\ w[n + 1] = u[m + 1]
          /\ m + 2 <= Len(u) => n + 2 <= Len(w) /\ w[n + 2] = u[m + 2]
          /\ m + 3 <= Len(u) => n + 3 <= Len(w) /\ w[n + 3] = u[m + 3]
      BY <3>2
    <3>5. m + 3 <= Len(u) => m + 2 <= Len(u) /\ m + 1 <= Len(u)
      BY <3>0
    <3>6. m + 2 <= Len(u) => m + 1 <= Len(u)
      BY <3>0
    <3> QED BY <3>1, <3>3, <3>4, <3>5, <3>6, Zenon DEF Link
  <2> QED BY <2>1, <2>2, <2>3, <1>1
<1>3. Head(w) = Head(s) /\ w # <<>>
  BY <1>1
<1> QED BY <1>1, <1>2, <1>3 DEF Chained

(* Steps that have nothing to do with Start.                               *)
LEMMA OthersChained ==
  ASSUME NEW s \in Seq(OtherSteps) PROVE s \in Seq(Steps) /\ Chained(s) /\ (s # <<>> => Head(s) \in OtherSteps)
  BY DEF Steps, OtherSteps, Chained, Link

LEMMA StartChained == Start \in Seq(Steps) /\ Chained(Start) /\ Start # <<>> /\ Head(Start) = "load"
<1>1. /\ Start \in Seq(Steps) /\ Len(Start) = 4 /\ Start # <<>> /\ Head(Start) = "load"
      /\ Start[1] = "load" /\ Start[2] = "check" /\ Start[3] = "device" /\ Start[4] = "publish"
  BY DEF Start, Steps, StartSteps
<1> QED BY <1>1 DEF Chained, Link

LEMMA PlansChained ==
  ASSUME NEW op \in Requests
  PROVE  Plan(op) \in Seq(Steps) /\ Chained(Plan(op)) /\ Head(Plan(op)) \in OtherSteps
<1>1. <<"create">> \in Seq(OtherSteps) /\ Head(<<"create">>) \in OtherSteps /\ <<"create">> # <<>>
  BY DEF OtherSteps
<1>2. CASE op = "createForm"
  BY <1>1, <1>2, StartChained, OthersChained, Joined DEF Plan, StartSteps, InnerSteps
<1>3. CASE op = "reconnect"
  <2>1. LET s == <<"lookup", "get", "find", "stop">>
        IN  s \in Seq(OtherSteps) /\ Head(s) \in OtherSteps /\ s # <<>>
    BY DEF OtherSteps
  <2> QED BY <1>3, <2>1, StartChained, OthersChained, Joined DEF Plan, StartSteps, InnerSteps
<1>4. ASSUME op \notin {"createForm", "reconnect"}
      PROVE  Plan(op) \in Seq(OtherSteps) /\ Head(Plan(op)) \in OtherSteps
  <2>1. CASE op = "create"
    BY <1>1, <2>1 DEF Plan
  <2>8. CASE op = "status"
    BY <2>8 DEF Plan, OtherSteps
  <2>9. CASE op = "qr"
    BY <2>9 DEF Plan, OtherSteps
  <2>2. CASE op = "page"
    BY <2>2 DEF Plan, OtherSteps
  <2>3. CASE op = "connect"
    BY <2>3 DEF Plan, OtherSteps
  <2>4. CASE op = "connectForm"
    BY <2>4 DEF Plan, OtherSteps
  <2>5. CASE op = "disconnect"
    BY <2>5 DEF Plan, OtherSteps
  <2>6. CASE op = "delete"
    BY <2>6 DEF Plan, OtherSteps
  <2>7. CASE op = "deleteForm"
    BY <2>7 DEF Plan, OtherSteps
  <2> QED BY <1>4, <2>1, <2>2, <2>3, <2>4, <2>5, <2>6, <2>7, <2>8, <2>9 DEF Requests
<1> QED BY <1>2, <1>3, <1>4, OthersChained

LEMMA ReactionsChained ==
  ASSUME NEW kind \in Kinds
  PROVE  /\ Reaction(kind) \in Seq(Steps) /\ Chained(Reaction(kind))
         /\ Reaction(kind) # <<>> /\ Head(Reaction(kind)) \in OtherSteps
         /\ kind = "loggedOut" => Head(Reaction(kind)) = "evict"
<1>1. /\ Reaction(kind) \in Seq(OtherSteps) /\ Reaction(kind) # <<>> /\ Head(Reaction(kind)) \in OtherSteps
      /\ kind = "loggedOut" => Head(Reaction(kind)) = "evict"
  <2>1. CASE kind = "connected"
    BY <2>1 DEF Reaction, OtherSteps
  <2>2. CASE kind = "disconnected"
    BY <2>2 DEF Reaction, OtherSteps
  <2>3. CASE kind = "loggedOut"
    BY <2>3 DEF Reaction, OtherSteps
  <2> QED BY <2>1, <2>2, <2>3 DEF Kinds
<1> QED BY <1>1, OthersChained

(* What follows a step of a thread, and what follows the steps that an     *)
(* early return or a failing Start skips.                                  *)
Ready(s) ==
  /\ s \in Seq(Steps) /\ Chained(s)
  /\ s # <<>> => Head(s) \notin {"clear", "publish", "request"}

LEMMA TailReady ==
  ASSUME NEW s \in Seq(Steps), Chained(s), s # <<>>, Head(s) \notin {"device", "clear"}
  PROVE  /\ Ready(Tail(s))
         /\ Tail(s) # <<>> /\ Head(s) \notin {"load", "check"} => Head(Tail(s)) \notin InnerSteps
<1>1. Tail(s) = SubSeq(s, 1 + 1, Len(s)) /\ Head(s) = s[1] /\ Len(s) \in Nat
  BY TailIsSubSeq
<1>2. 1 < Len(s) => Link(s, 2)
  BY <1>1 DEF Chained
<1>3. 1 < Len(s) => s[2] \notin {"clear", "publish", "request"} /\ (Head(s) \notin {"load", "check"} => s[2] \notin InnerSteps)
  BY <1>1, <1>2 DEF Link, StartSteps, InnerSteps
<1>4. /\ Tail(s) \in Seq(Steps) /\ Chained(Tail(s))
      /\ Tail(s) = <<>> \/ (1 < Len(s) /\ Head(Tail(s)) = s[1 + 1])
  BY <1>1, Suffix
<1> QED BY <1>3, <1>4 DEF Ready

LEMMA SkipReady ==
  ASSUME NEW s \in Seq(Steps), Chained(s), s # <<>>, NEW k \in Nat,
         \/ Head(s) = "load" /\ k \in {4, 5}
         \/ Head(s) = "check" /\ k = 3
         \/ Head(s) \notin StartSteps /\ k = 2
  PROVE  Ready(SubSeq(s, k + 1, Len(s)))
<1>1. Head(s) = s[1] /\ Len(s) \in Nat /\ Link(s, 1) /\ 1 <= Len(s)
  BY EmptySeq DEF Chained
<1>2. k < Len(s) => Link(s, k + 1) /\ Link(s, k) /\ k >= 2
  BY <1>1 DEF Chained
<1>3. k < Len(s) => s[k + 1] \notin {"clear", "publish", "request"}
  BY <1>1, <1>2 DEF Link, StartSteps, InnerSteps
<1> QED BY <1>3, Suffix DEF Ready

-----------------------------------------------------------------------------
(* Most steps leave the clients as they are, or take one out of the map:   *)
(* the thread goes on with what it holds or finds in the map, and whom it  *)
(* connects is one of these.                                               *)
Plain(t) ==
  /\ todo[t] # <<>> /\ subscribed /\ ~ Building(t)
  /\ \E s, c : Continue(t, s, c) /\ Ready(s) /\ c \in {NoClient, held[t], Current(t)}
  /\ UNCHANGED <<owner, hooks, subscribed, dev, events, missed>>
  /\ published' = published \/ published' = [published EXCEPT ![at[t]] = NoClient]
  /\ up' \subseteq up /\ retrying' \subseteq retrying
  /\ connecting' \subseteq connecting \cup ({held[t], Current(t)} \ {NoClient})
  /\ Doing(t, "evict") => published'[at[t]] = NoClient

LEMMA PlainSteps ==
  ASSUME TypeOK, ThreadsControl, NEW t \in Threads, Step(t),
         ~ Device(t), ~ Clear(t), ~ Publish(t)
  PROVE  Plain(t)
<1> USE DEF TypeOK, rows, clients, network, threads
<1>1. todo[t] \in Seq(Steps) /\ Chained(todo[t])
  BY DEF ThreadsControl
<1>2. ASSUME NEW step, Doing(t, step), step # "request" PROVE subscribed
  BY <1>2 DEF ThreadsControl, Doing
<1>3. ASSUME NEW step \in OtherSteps, Doing(t, step) PROVE ~ Building(t) /\ todo[t] # <<>> /\ Ready(Rest(t))
  <2>1. Ready(Rest(t))
    BY <1>1, <1>3, TailReady DEF Doing, Rest, OtherSteps
  <2> QED BY <1>3, <2>1 DEF Doing, Building, OtherSteps
<1>4. Ready(<<>>)
  BY DEF Ready, Chained
<1>5. Ready(Start)
  BY StartChained DEF Ready
<1>6. CASE Load(t)
  <2>1. Doing(t, "load") /\ subscribed /\ ~ Building(t) /\ todo[t] # <<>>
    BY <1>2, <1>6 DEF Load, Doing, Building
  <2>2. Ready(Rest(t)) /\ Ready(Beyond(t, 5))
    BY <1>1, <2>1, TailReady, SkipReady DEF Doing, Rest, Beyond
  <2> QED BY <1>4, <1>6, <2>1, <2>2 DEF Load, Plain, Doing
<1>7. CASE Check(t)
  <2>1. Doing(t, "check") /\ subscribed /\ ~ Building(t) /\ todo[t] # <<>>
    BY <1>2, <1>7 DEF Check, Doing, Building
  <2>2. Ready(Rest(t)) /\ Ready(Beyond(t, 3))
    BY <1>1, <2>1, TailReady, SkipReady DEF Doing, Rest, Beyond
  <2> QED BY <1>7, <2>1, <2>2 DEF Check, Plain, Doing
<1>8. CASE Get(t)
  <2>1. Doing(t, "get") /\ subscribed /\ ~ Building(t) /\ todo[t] # <<>> /\ Ready(Rest(t))
    BY <1>2, <1>3, <1>8 DEF Get, OtherSteps
  <2>2. Ready(Start \o <<"reget">> \o Rest(t))
    <3>1. <<"reget">> \in Seq(OtherSteps) /\ <<"reget">> # <<>> /\ Head(<<"reget">>) = "reget"
      BY DEF OtherSteps
    <3>2. Rest(t) # <<>> => Head(Rest(t)) \notin InnerSteps
      BY <1>1, <2>1, TailReady DEF Doing, Rest
    <3>3. <<"reget">> \in Seq(Steps) /\ Chained(<<"reget">>)
      BY <3>1, OthersChained
    <3>4. Start \o <<"reget">> \in Seq(Steps) /\ Chained(Start \o <<"reget">>)
          /\ Start \o <<"reget">> # <<>> /\ Head(Start \o <<"reget">>) = "load"
      BY <3>1, <3>3, StartChained, Joined DEF StartSteps, InnerSteps
    <3> QED BY <2>1, <3>2, <3>4, Joined DEF Ready
  <2> QED BY <1>8, <2>1, <2>2 DEF Get, Plain, Doing
<1>9. CASE Connect(t, "connect") \/ Connect(t, "connectForm")
  <2>1. /\ subscribed /\ ~ Building(t) /\ todo[t] # <<>>
        /\ Doing(t, "connect") \/ Doing(t, "connectForm")
    BY <1>2, <1>3, <1>9 DEF Connect, OtherSteps
  <2>2. /\ <<"sync">> \in Seq(OtherSteps) /\ <<"force">> \in Seq(OtherSteps)
        /\ <<"get", "force">> \in Seq(OtherSteps)
    BY DEF OtherSteps
  <2>3. Ready(<<"sync">>) /\ Ready(<<"force">>) /\ Ready(<<"get", "force">>)
    BY <2>2, OthersChained DEF Ready, OtherSteps
  <2>4. /\ \E s, c : Continue(t, s, c) /\ Ready(s) /\ c \in {NoClient, held[t], Current(t)}
        /\ UNCHANGED <<rows, clients, network>>
    BY <1>4, <1>5, <1>9, <2>3 DEF Connect
  <2> QED BY <2>1, <2>4 DEF Plain, Doing
<1>10. CASE Find(t) \/ Remove(t) \/ Evict(t)
  <2>1. /\ subscribed /\ ~ Building(t) /\ todo[t] # <<>> /\ Ready(Rest(t))
        /\ Head(todo[t]) \in {"find", "remove", "evict"}
    BY <1>2, <1>3, <1>10 DEF Find, Remove, Evict, OtherSteps, Doing
  <2>2. Ready(Beyond(t, 2))
    BY <1>1, <2>1, SkipReady DEF Beyond, StartSteps
  <2>3. CASE Find(t)
    BY <1>4, <2>1, <2>2, <2>3 DEF Find, Plain, Doing
  <2>4. CASE Remove(t)
    BY <2>1, <2>2, <2>4 DEF Remove, TakeOut, Plain, Doing
  <2>5. CASE Evict(t)
    <3>1. published'[at[t]] = NoClient
      BY <2>5 DEF Evict, TakeOut
    <3> QED BY <2>1, <2>2, <2>5, <3>1 DEF Evict, TakeOut, Plain, Doing
  <2> QED BY <1>10, <2>3, <2>4, <2>5
<1>11. ASSUME \E step \in OtherSteps \ {"evict"} : Doing(t, step),
              \E s, c : Continue(t, s, c) /\ s \in {<<>>, Rest(t)} /\ c \in {NoClient, Current(t)},
              UNCHANGED <<owner, hooks, subscribed, dev, events, missed, published>>,
              up' \subseteq up, retrying' \subseteq retrying,
              connecting' \subseteq connecting \cup ({held[t], Current(t)} \ {NoClient})
       PROVE  Plain(t)
  <2>1. /\ subscribed /\ ~ Building(t) /\ todo[t] # <<>> /\ Ready(Rest(t)) /\ ~ Doing(t, "evict")
    BY <1>2, <1>3, <1>11 DEF Doing, OtherSteps
  <2> QED BY <1>4, <1>11, <2>1 DEF Plain
<1>12. CASE Reget(t)
  BY <1>11, <1>12 DEF Reget, OtherSteps
<1>13. CASE Create(t)
  BY <1>11, <1>13 DEF Create, OtherSteps
<1>14. CASE Lookup(t)
  BY <1>11, <1>14 DEF Lookup, OtherSteps
<1>15. CASE Glance(t)
  BY <1>11, <1>15 DEF Glance, OtherSteps
<1>16. CASE Mark(t)
  BY <1>11, <1>16 DEF Mark, OtherSteps
<1>17. CASE Delete(t)
  BY <1>11, <1>17 DEF Delete, OtherSteps
<1>18. CASE Sync(t)
  BY <1>11, <1>18 DEF Sync, OtherSteps
<1>19. CASE SetConnected(t)
  BY <1>11, <1>19 DEF SetConnected, OtherSteps
<1>20. CASE SetIdentity(t)
  BY <1>11, <1>20 DEF SetIdentity, OtherSteps
<1>21. CASE Ask(t)
  BY <1>11, <1>21 DEF Ask, OtherSteps
<1>22. CASE SetDisconnected(t)
  BY <1>11, <1>22 DEF SetDisconnected, OtherSteps
<1>23. CASE Reset(t)
  BY <1>11, <1>23 DEF Reset, OtherSteps
<1>24. CASE Kick(t)
  BY <1>11, <1>24 DEF Kick, OtherSteps
<1>25. CASE ForceConnect(t)
  BY <1>11, <1>25 DEF ForceConnect, OtherSteps
<1>26. CASE Stop(t)
  BY <1>11, <1>26 DEF Stop, OtherSteps
<1> QED BY <1>6, <1>7, <1>8, <1>9, <1>10, <1>12, <1>13, <1>14, <1>15, <1>16, <1>17, <1>18, <1>19, <1>20, <1>21, <1>22, <1>23, <1>24, <1>25, <1>26 DEF Step

-----------------------------------------------------------------------------
(* The parts of the invariant, through plain steps.                        *)

LEMMA ChainedTodo ==
  ASSUME ThreadsControl, NEW t \in Threads, NEW s \in Seq(Steps), Chained(s),
         todo' = [todo EXCEPT ![t] = s], subscribed'
  PROVE  ThreadsControl'
  BY DEF ThreadsControl

LEMMA PlainKeeps ==
  ASSUME IInv, NEW t \in Threads, Plain(t)
  PROVE  ThreadsControl' /\ HooksControl' /\ OwnersControl'
<1> USE ManagerAssumption DEF IInv
<1>1. PICK s, c : Continue(t, s, c) /\ Ready(s) /\ c \in {NoClient, held[t], Current(t)}
  BY DEF Plain
<1>2. /\ todo' = [todo EXCEPT ![t] = s] /\ todo'[t] = s /\ at' = at
      /\ held'[t] \in {NoClient, held[t], Current(t)}
      /\ \A u \in Threads : u # t => todo'[u] = todo[u] /\ held'[u] = held[u]
  BY <1>1 DEF Continue, ThreadsControl, TypeOK
<1>3. ~ Building(t)' /\ \A u \in Threads : u # t => Building(u)' = Building(u)
  BY <1>1, <1>2 DEF Building, Doing, Ready
<1>4. at[t] \in Instances /\ ~ Building(t) /\ subscribed /\ subscribed'
  BY DEF Plain, TypeOK
<1>5. \A i \in Instances : published'[i] # NoClient => published'[i] = published[i]
  BY DEF Plain, TypeOK
<1>6. ASSUME NEW x \in Clients, Known(x)' PROVE Known(x)
  <2>1. CASE \E i \in Instances : published'[i] = x
    BY <1>5, <2>1 DEF Known
  <2>2. x = held[t] \/ x = Current(t) => Known(x)
    BY <1>4 DEF Known, Current
  <2>3. CASE x \in up' \cup connecting' \cup retrying'
    <3>1. x \in up \cup connecting \cup retrying \/ x = held[t] \/ x = Current(t)
      BY <2>3 DEF Plain
    <3> QED BY <2>2, <3>1 DEF Known
  <2>4. CASE \E u \in Threads : held'[u] = x /\ ~ Building(u)'
    BY <1>2, <1>3, <2>2, <2>4 DEF Known
  <2> QED BY <1>6, <2>1, <2>3, <2>4 DEF Known
<1>7. ThreadsControl'
  BY <1>1, <1>2, <1>4, ChainedTodo DEF Ready
<1>8. HooksControl'
  <2>1. hooks' = hooks
    BY DEF Plain
  <2> QED BY <1>2, <1>3, <1>4, <1>6, <2>1 DEF HooksControl
<1>9. OwnersControl'
  <2>1. owner' = owner /\ dev' = dev /\ events' = events /\ missed' = missed
    BY DEF Plain
  <2>2. ASSUME NEW i \in Instances, published'[i] # NoClient, dev'[published'[i]] = Deleted
        PROVE  \/ <<published'[i], "loggedOut">> \in events'
               \/ Handling(published[i])'
               \/ published'[i] \in missed'
    <3>1. published'[i] = published[i] /\ owner[published[i]] = i
      BY <1>5, <2>2 DEF OwnersControl
    <3>2. CASE Handling(published[i])
      <4>1. PICK u \in Callbacks : Doing(u, "evict") /\ at[u] = i
        BY <3>1, <3>2 DEF Handling
      <4>2. u # t
        BY <2>2, <4>1 DEF Plain
      <4>3. Doing(u, "evict")' /\ at'[u] = i
        BY <1>2, <4>1, <4>2 DEF Doing, Threads
      <4> QED BY <2>1, <3>1, <4>3 DEF Handling
    <3> QED BY <2>1, <2>2, <3>1, <3>2 DEF OwnersControl, NoZombie
  <2>3. NoZombie'
    BY <2>2 DEF NoZombie
  <2> QED BY <1>2, <1>3, <1>5, <2>1, <2>3 DEF OwnersControl
<1> QED BY <1>7, <1>8, <1>9

-----------------------------------------------------------------------------
(* The steps that build a client.                                          *)

LEMMA ClearFirst ==
  ASSUME NEW s \in Seq(Steps), Chained(s), s # <<>>, Head(s) = "publish"
  PROVE  <<"clear">> \o s \in Seq(Steps) /\ Chained(<<"clear">> \o s)
         /\ <<"clear">> \o s # <<>> /\ Head(<<"clear">> \o s) = "clear"
<1> DEFINE w == <<"clear">> \o s
<1>1. <<"clear">> \in Seq(Steps) /\ Len(<<"clear">>) = 1 /\ <<"clear">>[1] = "clear"
  BY DEF Steps, StartSteps
<1>2. /\ w \in Seq(Steps) /\ Len(w) = 1 + Len(s) /\ w[1] = "clear" /\ w[2] = "publish" /\ Len(s) >= 1
      /\ \A n \in 2..Len(w) : n - 1 \in 1..Len(s) /\ w[n] = s[n - 1]
  BY <1>1, ConcatProperties, EmptySeq
<1>3. ASSUME NEW n \in 1..Len(w) PROVE Link(w, n)
  <2>1. CASE n = 1
    BY <1>2, <2>1 DEF Link
  <2>2. CASE n = 2
    BY <1>2, <2>2 DEF Link
  <2>3. CASE n > 2
    <3>1. Link(s, n - 1) /\ w[n] = s[n - 1] /\ w[n - 1] = s[n - 2]
      BY <1>2, <2>3 DEF Chained
    <3> QED BY <1>2, <2>3, <3>1 DEF Link
  <2> QED BY <1>2, <2>1, <2>2, <2>3
<1>4. w # <<>> /\ Head(w) = "clear"
  BY <1>2
<1> QED BY <1>2, <1>3, <1>4 DEF Chained

LEMMA PublishNext ==
  ASSUME NEW s \in Seq(Steps), Chained(s), s # <<>>, Head(s) \in {"device", "clear"}
  PROVE  Tail(s) \in Seq(Steps) /\ Chained(Tail(s)) /\ Tail(s) # <<>> /\ Head(Tail(s)) = "publish"
<1>1. Tail(s) = SubSeq(s, 1 + 1, Len(s)) /\ Head(s) = s[1] /\ Len(s) \in Nat /\ 1 <= Len(s)
  BY TailIsSubSeq, EmptySeq
<1>2. 2 <= Len(s) /\ s[2] = "publish"
  <2>1. Link(s, 1)
    BY <1>1 DEF Chained
  <2>2. 1 + 1 <= Len(s) /\ s[1 + 1] = "publish"
    BY <1>1, <2>1 DEF Link
  <2> QED BY <2>2
<1>3. /\ Tail(s) \in Seq(Steps) /\ Chained(Tail(s))
      /\ Tail(s) = <<>> \/ Head(Tail(s)) = s[1 + 1]
  BY <1>1, Suffix
<1>4. Tail(s) # <<>>
  <2>1. Len(Tail(s)) >= 1
    BY <1>1, <1>2
  <2>2. Len(<<>>) = 0
    OBVIOUS
  <2> QED BY <2>1, <2>2
<1>5. s[1 + 1] = s[2]
  OBVIOUS
<1> QED BY <1>2, <1>3, <1>4, <1>5

LEMMA AfterDevice ==
  ASSUME ThreadsControl, NEW t \in Threads, Doing(t, "device"),
         NEW s, s = Rest(t) \/ s = <<"clear">> \o Rest(t)
  PROVE  s \in Seq(Steps) /\ Chained(s) /\ s # <<>> /\ Head(s) \in {"publish", "clear"}
<1>1. todo[t] \in Seq(Steps) /\ Chained(todo[t]) /\ todo[t] # <<>> /\ Head(todo[t]) = "device"
  BY DEF ThreadsControl, Doing
<1>2. Rest(t) \in Seq(Steps) /\ Chained(Rest(t)) /\ Rest(t) # <<>> /\ Head(Rest(t)) = "publish"
  BY <1>1, PublishNext DEF Rest
<1> QED BY <1>2, ClearFirst

LEMMA DeviceKeeps ==
  ASSUME IInv, NEW t \in Threads, Device(t)
  PROVE  ThreadsControl' /\ HooksControl' /\ OwnersControl'
<1> USE ManagerAssumption DEF IInv
<1>1. PICK c \in Clients : \E s :
        /\ ~ InUse(c) /\ Continue(t, s, c)
        /\ dev' = [dev EXCEPT ![c] = IF read[t] \in devices THEN read[t] ELSE NoDevice]
        /\ owner' = [owner EXCEPT ![c] = at[t]]
        /\ hooks' = [hooks EXCEPT ![c] = 0]
        /\ missed' = missed \ {c}
        /\ s = Rest(t) \/ s = <<"clear">> \o Rest(t)
  BY DEF Device
<1>a. PICK s : Continue(t, s, c) /\ (s = Rest(t) \/ s = <<"clear">> \o Rest(t))
  BY <1>1
<1>2. todo[t] \in Seq(Steps) /\ Chained(todo[t]) /\ todo[t] # <<>> /\ Head(todo[t]) = "device"
      /\ subscribed /\ subscribed' = subscribed
      /\ published' = published /\ up' = up /\ connecting' = connecting /\ retrying' = retrying
      /\ events' = events
  BY DEF ThreadsControl, Device, Doing, network
<1>3. s \in Seq(Steps) /\ Chained(s) /\ s # <<>> /\ Head(s) \in {"publish", "clear"}
  BY <1>a, AfterDevice DEF Device
<1>4. /\ todo' = [todo EXCEPT ![t] = s] /\ todo'[t] = s /\ at' = at /\ held'[t] = c
      /\ \A u \in Threads : u # t => todo'[u] = todo[u] /\ held'[u] = held[u]
  BY <1>a, <1>3 DEF Continue, ThreadsControl, TypeOK
<1>5. /\ Building(t)' /\ ~ Building(t)
      /\ \A u \in Threads : u # t => Building(u)' = Building(u)
  BY <1>2, <1>3, <1>4 DEF Building, Doing
<1>6. /\ \A i \in Instances : published[i] # c
      /\ \A u \in Threads : held[u] # c
      /\ c \notin up \cup connecting \cup retrying
  BY <1>1 DEF InUse
<1>7. \A x \in Clients : Known(x)' => Known(x) /\ x # c
  BY <1>2, <1>4, <1>5, <1>6 DEF Known
<1>8. /\ hooks'[c] = 0 /\ owner'[c] = at[t] /\ dev'[c] # Deleted
      /\ \A x \in Clients : x # c => hooks'[x] = hooks[x] /\ owner'[x] = owner[x] /\ dev'[x] = dev[x]
  BY <1>1 DEF TypeOK
<1>9. ThreadsControl'
  BY <1>2, <1>3, <1>4, ChainedTodo
<1>10. HooksControl'
  BY <1>2, <1>4, <1>5, <1>6, <1>7, <1>8 DEF HooksControl
<1>11. OwnersControl'
  <2>1. \A i \in Instances : published[i] # NoClient => published[i] \in Clients /\ published[i] # c
    BY <1>6 DEF TypeOK
  <2>2. \A x \in Clients : x # c /\ Handling(x) => Handling(x)'
    <3>1. \A u \in Callbacks : Doing(u, "evict") => Doing(u, "evict")'
      BY <1>2, <1>4 DEF Doing, Threads
    <3> QED BY <1>4, <1>8, <3>1 DEF Handling
  <2>3. NoZombie'
    BY <1>1, <1>2, <1>8, <2>1, <2>2 DEF OwnersControl, NoZombie
  <2>4. \A u \in Threads : Building(u)' => owner'[held'[u]] = at'[u] /\ dev'[held'[u]] # Deleted
    BY <1>4, <1>5, <1>6, <1>8 DEF OwnersControl, HooksControl
  <2> QED BY <1>2, <1>8, <2>1, <2>3, <2>4 DEF OwnersControl
<1> QED BY <1>9, <1>10, <1>11

LEMMA ClearKeeps ==
  ASSUME IInv, NEW t \in Threads, Clear(t)
  PROVE  ThreadsControl' /\ HooksControl' /\ OwnersControl'
<1> USE ManagerAssumption DEF IInv
<1>1. /\ todo[t] \in Seq(Steps) /\ Chained(todo[t]) /\ todo[t] # <<>> /\ Head(todo[t]) = "clear"
      /\ subscribed /\ Continue(t, Rest(t), held[t]) /\ UNCHANGED <<clients, network>>
  BY DEF ThreadsControl, Clear, Doing
<1>2. Rest(t) \in Seq(Steps) /\ Chained(Rest(t)) /\ Rest(t) # <<>> /\ Head(Rest(t)) = "publish"
  BY <1>1, PublishNext DEF Rest
<1>3. /\ todo' = [todo EXCEPT ![t] = Rest(t)] /\ todo'[t] = Rest(t) /\ at' = at
      /\ \A u \in Threads : held'[u] = held[u] /\ (u # t => todo'[u] = todo[u])
  BY <1>1, <1>2 DEF Continue, ThreadsControl, TypeOK
<1>4. \A u \in Threads : Building(u)' = Building(u) /\ Doing(u, "evict")' = Doing(u, "evict")
  BY <1>1, <1>2, <1>3 DEF Building, Doing
<1>5. \A x \in Clients : Known(x)' => Known(x)
  BY <1>1, <1>3, <1>4 DEF Known, clients, network
<1>6. ThreadsControl'
  BY <1>1, <1>2, <1>3, ChainedTodo DEF clients
<1>7. HooksControl'
  BY <1>1, <1>3, <1>4, <1>5 DEF HooksControl, clients
<1>8. OwnersControl'
  <2>1. \A x \in Clients : Handling(x) => Handling(x)'
    BY <1>1, <1>3, <1>4 DEF Handling, Threads, clients
  <2>2. NoZombie'
    BY <1>1, <2>1 DEF OwnersControl, NoZombie, TypeOK, clients, network
  <2> QED BY <1>1, <1>3, <1>4, <2>2 DEF OwnersControl, clients, network
<1> QED BY <1>6, <1>7, <1>8

LEMMA PublishKeeps ==
  ASSUME IInv, NEW t \in Threads, Publish(t)
  PROVE  ThreadsControl' /\ HooksControl' /\ OwnersControl'
<1> USE ManagerAssumption DEF IInv
<1>1. /\ todo[t] \in Seq(Steps) /\ Chained(todo[t]) /\ todo[t] # <<>> /\ Head(todo[t]) = "publish"
      /\ subscribed /\ subscribed' = subscribed /\ Continue(t, Rest(t), NoClient)
  BY DEF ThreadsControl, Publish, Doing
<1>2. Ready(Rest(t))
  BY <1>1, TailReady DEF Rest
<1>3. /\ todo' = [todo EXCEPT ![t] = Rest(t)] /\ todo'[t] = Rest(t) /\ at' = at /\ held'[t] = NoClient
      /\ \A u \in Threads : u # t => todo'[u] = todo[u] /\ held'[u] = held[u]
  BY <1>1 DEF Continue, ThreadsControl, TypeOK
<1>4. /\ Building(t) /\ ~ Building(t)'
      /\ \A u \in Threads : u # t => Building(u)' = Building(u)
  BY <1>1, <1>2, <1>3 DEF Building, Doing, Ready
<1>5. PICK c \in Clients : c = held[t] /\ hooks[c] = 0 /\ owner[c] = at[t] /\ dev[c] # Deleted
  BY <1>4 DEF HooksControl, OwnersControl
<1>6. /\ published' = [published EXCEPT ![at[t]] = c]
      /\ hooks' = [hooks EXCEPT ![c] = 1]
      /\ connecting' \subseteq connecting \cup {c}
      /\ up' = up /\ retrying' = retrying /\ owner' = owner /\ dev' = dev
      /\ events' = events /\ missed' = missed
  BY <1>1, <1>5 DEF Publish, TypeOK
<1>7. ASSUME NEW x \in Clients, x # c, Known(x)' PROVE Known(x)
  BY <1>3, <1>4, <1>6, <1>7 DEF Known, TypeOK
<1>8. ThreadsControl'
  BY <1>1, <1>2, <1>3, ChainedTodo DEF Ready
<1>9. HooksControl'
  <2>1. \A u \in Threads : Building(u)' => u # t /\ Building(u) /\ held[u] # c /\ held'[u] = held[u]
    BY <1>3, <1>4, <1>5 DEF HooksControl
  <2>2. hooks'[c] = 1 /\ \A x \in Clients : x # c => hooks'[x] = hooks[x]
    BY <1>6 DEF TypeOK
  <2> QED BY <1>1, <1>7, <2>1, <2>2 DEF HooksControl
<1>10. OwnersControl'
  <2>1. \A i \in Instances : published'[i] = IF i = at[t] THEN c ELSE published[i]
    BY <1>6 DEF TypeOK
  <2>2. \A x \in Clients : Handling(x) => Handling(x)'
    <3>1. \A u \in Callbacks : Doing(u, "evict") => Doing(u, "evict")'
      BY <1>1, <1>3 DEF Doing, Threads
    <3> QED BY <1>3, <1>6, <3>1 DEF Handling
  <2>3. NoZombie'
    BY <1>5, <1>6, <2>1, <2>2 DEF OwnersControl, NoZombie, TypeOK
  <2> QED BY <1>3, <1>4, <1>5, <1>6, <2>1, <2>3 DEF OwnersControl
<1> QED BY <1>8, <1>9, <1>10

-----------------------------------------------------------------------------
(* Main, and the start of a request or a callback.                         *)

LEMMA SubscribeKeeps ==
  ASSUME IInv, SubscribeEvents
  PROVE  ThreadsControl' /\ HooksControl' /\ OwnersControl'
<1> USE ManagerAssumption DEF IInv
<1>1. ~ subscribed /\ subscribed' = TRUE /\ UNCHANGED <<rows, network, published, owner, todo, at, held>>
  BY DEF SubscribeEvents
<1>2. \A t \in Threads : todo[t] \in {<<>>, <<"request">>} /\ held[t] = NoClient
  BY <1>1 DEF ThreadsControl
<1>3. \A t \in Threads : ~ Building(t) /\ ~ Building(t)'
  BY <1>1, <1>2 DEF Building, Doing
<1>4. ThreadsControl'
  BY <1>1 DEF ThreadsControl
<1>5. HooksControl'
  <2>1. ASSUME NEW c \in Clients, Known(c)' PROVE \E i \in Instances : published[i] = c
    BY <1>1, <1>2, <1>3, <2>1 DEF Known, HooksControl, network
  <2>2. ASSUME NEW c \in Clients, \E i \in Instances : published[i] = c PROVE hooks'[c] = 1
    BY <1>1, <2>2 DEF SubscribeEvents, HooksControl
  <2> QED BY <1>1, <1>3, <2>1, <2>2 DEF HooksControl
<1>6. OwnersControl'
  <2>1. NoZombie'
    BY <1>1 DEF OwnersControl, NoZombie, Handling, Doing, network
  <2> QED BY <1>1, <1>3, <2>1 DEF OwnersControl
<1> QED BY <1>4, <1>5, <1>6

LEMMA RequestKeeps ==
  ASSUME IInv, NEW h \in Handlers, NEW op \in Requests, NEW i \in Instances, Request(h, op, i)
  PROVE  ThreadsControl' /\ HooksControl' /\ OwnersControl'
<1> USE ManagerAssumption DEF IInv
<1>1. /\ subscribed /\ todo[h] # <<>> /\ Head(todo[h]) = "request" /\ h \in Threads
      /\ UNCHANGED <<rows, clients, network, held>>
  BY DEF Request, Doing, Threads
<1>2. Plan(op) \in Seq(Steps) /\ Chained(Plan(op)) /\ Head(Plan(op)) \in OtherSteps
  BY PlansChained
<1>3. /\ todo' = [todo EXCEPT ![h] = Plan(op)] /\ todo'[h] = Plan(op)
      /\ \A u \in Threads : u # h => todo'[u] = todo[u] /\ at'[u] = at[u]
  BY <1>1 DEF Request, ThreadsControl, TypeOK
<1>4. ~ Building(h) /\ \A u \in Threads : Building(u)' = Building(u)
  BY <1>1, <1>2, <1>3 DEF Building, Doing, OtherSteps
<1>5. \A x \in Clients : Known(x)' => Known(x)
  BY <1>1, <1>4 DEF Known, clients, network
<1>6. ThreadsControl'
  BY <1>1, <1>2, <1>3, ChainedTodo DEF clients
<1>7. HooksControl'
  BY <1>1, <1>4, <1>5 DEF HooksControl, clients
<1>8. OwnersControl'
  <2>1. \A x \in Clients : Handling(x) => Handling(x)'
    <3>1. \A u \in Callbacks : Doing(u, "evict") => Doing(u, "evict")' /\ at'[u] = at[u]
      BY <1>1, <1>3 DEF Doing, Threads
    <3> QED BY <1>1, <3>1 DEF Handling, clients
  <2>2. NoZombie'
    BY <1>1, <2>1 DEF OwnersControl, NoZombie, TypeOK, clients, network
  <2> QED BY <1>1, <1>3, <1>4, <2>2 DEF OwnersControl, clients, network
<1> QED BY <1>6, <1>7, <1>8

LEMMA DispatchKeeps ==
  ASSUME IInv, NEW t \in Callbacks, NEW c \in Clients, NEW k \in Kinds, Dispatch(t, c, k)
  PROVE  ThreadsControl' /\ HooksControl' /\ OwnersControl'
<1> USE ManagerAssumption DEF IInv
<1>1. /\ t \in Threads /\ todo[t] = <<>>
      /\ events' = events \ {<<c, k>>}
      /\ UNCHANGED <<rows, clients, devices, dev, up, connecting, retrying, held>>
  BY DEF Dispatch, Threads
<1>2. CASE hooks[c] = 0 /\ UNCHANGED <<todo, at>>
           /\ missed' = IF k = "loggedOut" THEN missed \cup {c} ELSE missed
  <2>1. \A u \in Threads : Building(u)' = Building(u) /\ Doing(u, "evict")' = Doing(u, "evict")
    BY <1>2 DEF Building, Doing
  <2>2. \A x \in Clients : (Known(x)' => Known(x)) /\ (Handling(x) => Handling(x)')
    BY <1>1, <1>2, <2>1 DEF Known, Handling, Threads, clients
  <2>3. NoZombie'
    BY <1>1, <1>2, <2>2 DEF OwnersControl, NoZombie, TypeOK, clients
  <2>4. ThreadsControl'
    BY <1>1, <1>2 DEF ThreadsControl, clients
  <2>5. HooksControl'
    BY <1>1, <2>1, <2>2 DEF HooksControl, clients
  <2> QED BY <1>1, <1>2, <2>1, <2>3, <2>4, <2>5 DEF OwnersControl, clients
<1>3. CASE hooks[c] > 0 /\ missed' = missed
           /\ todo' = [todo EXCEPT ![t] = Reaction(k)] /\ at' = [at EXCEPT ![t] = owner[c]]
  <2>1. subscribed
    BY <1>3 DEF HooksControl
  <2>2. /\ Reaction(k) \in Seq(Steps) /\ Chained(Reaction(k)) /\ Reaction(k) # <<>>
        /\ Head(Reaction(k)) \in OtherSteps /\ (k = "loggedOut" => Head(Reaction(k)) = "evict")
    BY ReactionsChained
  <2>3. /\ todo'[t] = Reaction(k) /\ at'[t] = owner[c]
        /\ \A u \in Threads : u # t => todo'[u] = todo[u] /\ at'[u] = at[u]
    BY <1>1, <1>3 DEF ThreadsControl, TypeOK
  <2>4. ~ Building(t) /\ \A u \in Threads : Building(u)' = Building(u)
    BY <1>1, <2>2, <2>3 DEF Building, Doing, OtherSteps
  <2>5. \A x \in Clients : (Known(x)' => Known(x)) /\ (Handling(x) => Handling(x)')
    <3>1. \A u \in Callbacks : Doing(u, "evict") => Doing(u, "evict")' /\ at'[u] = at[u]
      BY <1>1, <2>3 DEF Doing, Threads
    <3> QED BY <1>1, <2>4, <3>1 DEF Known, Handling, clients
  <2>6. k = "loggedOut" => Handling(c)'
    BY <1>1, <2>2, <2>3 DEF Handling, Doing, clients
  <2>7. NoZombie'
    BY <1>1, <1>3, <2>5, <2>6 DEF OwnersControl, NoZombie, TypeOK, clients
  <2>8. ThreadsControl'
    BY <1>1, <1>3, <2>1, <2>2, ChainedTodo DEF clients
  <2>9. HooksControl'
    BY <1>1, <2>4, <2>5 DEF HooksControl, clients
  <2> QED BY <1>1, <2>3, <2>4, <2>7, <2>8, <2>9 DEF OwnersControl, clients
<1> QED BY <1>2, <1>3 DEF Dispatch

-----------------------------------------------------------------------------
(* The network touches only clients that have or get a connection, and     *)
(* tells of every device that it revokes.                                  *)

LEMMA NetworkKeeps ==
  ASSUME IInv, NEW c \in Clients, Network(c)
  PROVE  ThreadsControl' /\ HooksControl' /\ OwnersControl'
<1> USE ManagerAssumption DEF IInv
<1>1. UNCHANGED <<rows, clients, threads, missed>>
  BY DEF Network, ConnectFails, ConnectOpens, LoggedOut, RemoteClose, Pair
<1>2. up' \cup connecting' \cup retrying' \subseteq up \cup connecting \cup retrying
  BY DEF Network, ConnectFails, ConnectOpens, LoggedOut, RemoteClose, Pair
<1>3. /\ events \subseteq events'
      /\ \A x \in Clients : dev'[x] # dev[x] =>
           /\ x = c /\ c \in up \cup connecting \cup retrying
           /\ dev'[x] = Deleted => <<x, "loggedOut">> \in events'
  <2>1. CASE ConnectFails(c) \/ ConnectOpens(c) \/ RemoteClose(c)
    BY <2>1 DEF ConnectFails, ConnectOpens, RemoteClose
  <2>2. CASE LoggedOut(c)
    BY <2>2 DEF LoggedOut, TypeOK
  <2>3. CASE \E d \in Devices : Pair(c, d)
    BY <2>3 DEF Pair, TypeOK
  <2> QED BY <2>1, <2>2, <2>3 DEF Network
<1>4. \A t \in Threads : Building(t)' = Building(t) /\ Doing(t, "evict")' = Doing(t, "evict")
  BY <1>1 DEF Building, Doing, threads
<1>5. \A x \in Clients : (Known(x)' => Known(x)) /\ (Handling(x) => Handling(x)')
  BY <1>1, <1>2, <1>4 DEF Known, Handling, Threads, clients, threads
<1>6. ThreadsControl'
  BY <1>1 DEF ThreadsControl, clients, threads
<1>7. HooksControl'
  BY <1>1, <1>2, <1>4, <1>5 DEF HooksControl, clients, threads
<1>8. OwnersControl'
  <2>1. ASSUME NEW t \in Threads, Building(t) PROVE dev'[held[t]] # Deleted
    <3>1. held[t] \in Clients /\ hooks[held[t]] = 0 /\ subscribed
      BY <2>1 DEF HooksControl, ThreadsControl, Building, Doing
    <3>2. held[t] \notin up \cup connecting \cup retrying
      BY <3>1 DEF HooksControl, Known
    <3> QED BY <1>3, <2>1, <3>1, <3>2 DEF OwnersControl
  <2>2. NoZombie'
    BY <1>1, <1>3, <1>5 DEF OwnersControl, NoZombie, TypeOK, clients
  <2> QED BY <1>1, <1>4, <2>1, <2>2 DEF OwnersControl, clients, threads
<1> QED BY <1>6, <1>7, <1>8

-----------------------------------------------------------------------------
(* Every variable keeps its range.                                         *)

LEMMA TypeStep ==
  ASSUME IInv, NEW t \in Threads, Step(t)
  PROVE  TypeOK'
<1> USE ManagerAssumption DEF IInv, TypeOK, rows, clients, network, threads
<1>1. at[t] \in Instances /\ Current(t) \in Clients \cup {NoClient} /\ held[t] \in Clients \cup {NoClient}
  BY DEF Current
<1>2. ASSUME NEW s, NEW c \in Clients \cup {NoClient}, Continue(t, s, c)
      PROVE  at' \in [Threads -> Instances] /\ held' \in [Threads -> Clients \cup {NoClient}]
  BY <1>2 DEF Continue
<1>3. CASE Load(t)
  BY <1>1, <1>2, <1>3 DEF Load
<1>15. CASE Check(t)
  <2>1. Current(t) # NoClient => connecting \cup {Current(t)} \subseteq Clients
    BY <1>1
  <2>2. ASSUME Current(t) # NoClient
        PROVE  /\ expected' \in [Clients -> BOOLEAN] /\ connecting' \subseteq Clients
               /\ read' \in [Threads -> Devices \cup {NoDevice}]
    <3>1. /\ expected' = [expected EXCEPT ![Current(t)] = FALSE]
          /\ connecting' = connecting \cup {Current(t)}
          /\ read' = [read EXCEPT ![t] = NoDevice]
      BY <1>15, <2>2 DEF Check
    <3>2. expected' \in [Clients -> BOOLEAN]
      BY <3>1
    <3>3. read' \in [Threads -> Devices \cup {NoDevice}]
      BY <3>1
    <3>4. connecting' \subseteq Clients
      BY <2>1, <2>2, <3>1
    <3> QED BY <3>2, <3>3, <3>4
  <2>4. ASSUME Current(t) = NoClient
        PROVE  /\ expected' \in [Clients -> BOOLEAN] /\ connecting' \subseteq Clients
               /\ read' \in [Threads -> Devices \cup {NoDevice}]
    BY <1>15, <2>4 DEF Check
  <2>3. at' \in [Threads -> Instances] /\ held' \in [Threads -> Clients \cup {NoClient}]
    BY <1>1, <1>2, <1>15 DEF Check
  <2>5. /\ expected' \in [Clients -> BOOLEAN] /\ connecting' \subseteq Clients
        /\ read' \in [Threads -> Devices \cup {NoDevice}]
    BY <2>2, <2>4
  <2> QED BY <1>15, <2>3, <2>5 DEF Check
<1>4. CASE Device(t)
  BY <1>1, <1>2, <1>4 DEF Device
<1>5. CASE Clear(t) \/ Reset(t)
  BY <1>1, <1>2, <1>5 DEF Clear, Reset, Forget
<1>6. CASE Publish(t)
  <2>1. held[t] \in Clients /\ hooks[held[t]] = 0
    BY <1>6 DEF Publish, HooksControl, Building
  <2> QED BY <1>1, <1>2, <1>6, <2>1 DEF Publish
<1>7. CASE Get(t) \/ Reget(t) \/ Lookup(t) \/ Glance(t) \/ Find(t) \/ Ask(t)
  BY <1>1, <1>2, <1>7 DEF Get, Reget, Lookup, Glance, Find, Ask
<1>8. CASE Create(t) \/ Delete(t)
  BY <1>1, <1>2, <1>8 DEF Create, Delete
<1>9. CASE Kick(t) \/ ForceConnect(t)
  BY <1>1, <1>2, <1>9 DEF Kick, ForceConnect
<1>10. CASE Sync(t) \/ Mark(t) \/ SetConnected(t) \/ SetDisconnected(t)
  BY <1>1, <1>2, <1>10 DEF Sync, Mark, SetConnected, SetDisconnected, SetStatus
<1>11. CASE Stop(t)
  BY <1>1, <1>2, <1>11 DEF Stop
<1>12. CASE Connect(t, "connect") \/ Connect(t, "connectForm")
  BY <1>1, <1>2, <1>12 DEF Connect
<1>13. CASE Remove(t)
  BY <1>1, <1>2, <1>13 DEF Remove, TakeOut
<1>16. CASE Evict(t)
  BY <1>1, <1>2, <1>16 DEF Evict, TakeOut
<1>14. CASE SetIdentity(t)
  <2>1. held[t] # NoClient /\ IdOf(held[t]) # NoDevice => dev[held[t]] \in Devices
    BY <1>1 DEF IdOf
  <2> QED BY <1>1, <1>2, <1>14, <2>1 DEF SetIdentity
<1> QED BY <1>3, <1>4, <1>5, <1>6, <1>7, <1>8, <1>9, <1>10, <1>11, <1>12, <1>13, <1>14, <1>15, <1>16 DEF Step

LEMMA TypeNext == IInv /\ [Next]_vars => TypeOK'
<1> SUFFICES ASSUME IInv, [Next]_vars PROVE TypeOK'
  OBVIOUS
<1>0. TypeOK
  BY DEF IInv
<1>1. CASE SubscribeEvents
  <2>1. ~ subscribed /\ \A c \in Clients : hooks[c] = 0
    BY <1>1 DEF SubscribeEvents, IInv, HooksControl
  <2> QED BY <1>0, <1>1, <2>1 DEF SubscribeEvents, TypeOK, rows, network
<1>2. ASSUME NEW h \in Handlers, NEW op \in Requests, NEW i \in Instances, Request(h, op, i) PROVE TypeOK'
  BY <1>0, <1>2 DEF Request, TypeOK, rows, clients, network
<1>3. ASSUME NEW t \in Callbacks, NEW c \in Clients, NEW k \in Kinds, Dispatch(t, c, k) PROVE TypeOK'
  BY <1>0, <1>3 DEF Dispatch, TypeOK, rows, clients
<1>4. ASSUME NEW t \in Threads, Step(t) PROVE TypeOK'
  BY <1>4, TypeStep
<1>5. ASSUME NEW c \in Clients, Network(c) PROVE TypeOK'
  <2> USE <1>0, ManagerAssumption DEF TypeOK, rows, clients, threads, Kinds
  <2>1. CASE ConnectFails(c)
    BY <2>1 DEF ConnectFails
  <2>2. CASE ConnectOpens(c)
    BY <2>2 DEF ConnectOpens
  <2>3. CASE LoggedOut(c)
    BY <2>3 DEF LoggedOut, Incident
  <2>4. CASE RemoteClose(c)
    BY <2>4 DEF RemoteClose, Incident
  <2>5. CASE \E d \in Devices : Pair(c, d)
    BY <2>5 DEF Pair, Incident
  <2> QED BY <1>5, <2>1, <2>2, <2>3, <2>4, <2>5 DEF Network
<1>6. CASE UNCHANGED vars
  BY <1>0, <1>6 DEF TypeOK, vars
<1> QED BY <1>1, <1>2, <1>3, <1>4, <1>5, <1>6 DEF Next

-----------------------------------------------------------------------------
(* The theorems.                                                           *)

LEMMA InvariantInit == Init => IInv
<1> SUFFICES ASSUME Init PROVE IInv
  OBVIOUS
<1>1. ASSUME NEW c \in Clients
      PROVE  owner[c] \in Instances /\ \A i \in Instances : published[i] = c => owner[c] = i
  <2>1. CASE \E i \in Instances : published[i] = c
    <3>1. owner[c] = CHOOSE i \in Instances : published[i] = c
      BY <2>1 DEF Init
    <3>2. owner[c] \in Instances /\ published[owner[c]] = c
      BY <2>1, <3>1, Zenon
    <3>3. \A i, j \in Instances : published[i] = published[j] /\ published[i] # NoClient => i = j
      BY DEF Init
    <3>4. c # NoClient
      BY ManagerAssumption
    <3> QED BY <3>2, <3>3, <3>4
  <2>2. CASE ~ \E i \in Instances : published[i] = c
    <3>1. owner[c] = CHOOSE i \in Instances : TRUE
      BY <2>2 DEF Init
    <3>2. owner[c] \in Instances
      BY <3>1, ManagerAssumption
    <3> QED BY <2>2, <3>2
  <2> QED BY <2>1, <2>2
<1>2. \A c \in Clients : dev[c] \in Devices \cup {NoDevice}
  BY <1>1 DEF Init
<1>3. TypeOK
  <2>1. \A t \in Threads : (CHOOSE i \in Instances : TRUE) \in Instances
    BY ManagerAssumption
  <2>2. owner \in [Clients -> Instances] /\ dev \in [Clients -> Devices \cup {NoDevice}]
    BY <1>1, <1>2 DEF Init
  <2>3. at \in [Threads -> Instances]
    BY <2>1 DEF Init
  <2>4. hooks \in [Clients -> 0..1] /\ incidents \in 0..MaxIncidents
    <3>1. MaxIncidents \in Nat
      BY ManagerAssumption
    <3>2. hooks \in [Clients -> 0..1]
      <4>1. hooks = [c \in Clients |-> 0]
        BY DEF Init
      <4>2. 0 \in 0..1
        OBVIOUS
      <4> QED BY <4>1, <4>2
    <3>3. incidents \in 0..MaxIncidents
      <4>1. incidents = 0
        BY DEF Init
      <4> QED BY <3>1, <4>1
    <3> QED BY <3>2, <3>3
  <2>5. devices \subseteq Devices
    <3>1. devices = {jid[i] : i \in Instances} \ {NoDevice}
      BY DEF Init
    <3>2. ASSUME NEW i \in Instances PROVE jid[i] \in Devices \cup {NoDevice}
      BY DEF Init
    <3> QED BY <3>1, <3>2
  <2>6. status \in [Instances -> {"created", "pairing", "connected", "disconnected"}]
    <3>1. BootStatuses \cup {"created"} \subseteq {"created", "pairing", "connected", "disconnected"}
      BY ManagerAssumption
    <3>2. status \in [Instances -> BootStatuses \cup {"created"}]
      BY DEF Init
    <3> QED BY <3>1, <3>2
  <2>7. /\ row \in [Instances -> {"never", "present", "gone"}]
        /\ jid \in [Instances -> Devices \cup {NoDevice}]
        /\ published \in [Instances -> Clients \cup {NoClient}]
        /\ expected \in [Clients -> BOOLEAN] /\ subscribed \in BOOLEAN
    BY DEF Init
  <2>8. /\ up \subseteq Clients /\ connecting \subseteq Clients /\ retrying \subseteq Clients
        /\ events \subseteq Clients \X Kinds /\ missed \subseteq Clients
        /\ held \in [Threads -> Clients \cup {NoClient}]
        /\ read \in [Threads -> Devices \cup {NoDevice}]
    BY DEF Init
  <2> QED BY <2>2, <2>3, <2>4, <2>5, <2>6, <2>7, <2>8 DEF TypeOK
<1>4. \A t \in Threads : todo[t] \in {<<>>, <<"request">>} /\ held[t] = NoClient
  BY DEF Init
<1>5. \A t \in Threads : ~ Building(t)
  BY <1>4 DEF Building, Doing
<1>6. ThreadsControl
  <2>1. /\ <<>> \in Seq(Steps) /\ <<"request">> \in Seq(Steps)
        /\ Len(<<"request">>) = 1 /\ <<"request">>[1] = "request"
    BY DEF Steps
  <2>2. Chained(<<>>) /\ Chained(<<"request">>)
    BY <2>1 DEF Chained, Link
  <2>3. todo = [t \in Threads |-> todo[t]]
    BY DEF Init
  <2> QED BY <1>4, <2>1, <2>2, <2>3 DEF ThreadsControl
<1>7. HooksControl
  <2>1. ~ subscribed /\ (\A c \in Clients : hooks[c] = 0)
    BY DEF Init
  <2>2. ASSUME NEW c \in Clients, c \in up \cup connecting \cup retrying
        PROVE  \E i \in Instances : published[i] = c
    BY <1>1, <2>2 DEF Init
  <2> QED BY <1>5, <2>1, <2>2 DEF HooksControl
<1>8. OwnersControl
  <2>1. \A i \in Instances : published[i] # NoClient => published[i] \in Clients
    BY DEF Init
  <2>2. NoZombie
    BY <1>2, <2>1, ManagerAssumption DEF NoZombie
  <2> QED BY <1>1, <1>5, <2>1, <2>2 DEF OwnersControl
<1> QED BY <1>3, <1>6, <1>7, <1>8 DEF IInv

LEMMA InvariantNext == IInv /\ [Next]_vars => IInv'
<1> SUFFICES ASSUME IInv, [Next]_vars PROVE ThreadsControl' /\ HooksControl' /\ OwnersControl'
  BY TypeNext DEF IInv
<1>1. ASSUME NEW t \in Threads, Step(t) PROVE ThreadsControl' /\ HooksControl' /\ OwnersControl'
  BY <1>1, PlainSteps, PlainKeeps, DeviceKeeps, ClearKeeps, PublishKeeps DEF IInv
<1>2. CASE UNCHANGED vars
  <2>1. \A t \in Threads : Building(t)' = Building(t) /\ Doing(t, "evict")' = Doing(t, "evict")
    BY <1>2 DEF Building, Doing, vars
  <2>2. \A c \in Clients : (Known(c)' => Known(c)) /\ (Handling(c) => Handling(c)')
    BY <1>2, <2>1 DEF Known, Handling, Threads, vars
  <2>3. ThreadsControl'
    BY <1>2 DEF IInv, ThreadsControl, vars
  <2>4. HooksControl'
    BY <1>2, <2>1, <2>2 DEF IInv, HooksControl, vars
  <2>5. OwnersControl'
    BY <1>2, <2>1, <2>2 DEF IInv, OwnersControl, NoZombie, TypeOK, vars
  <2> QED BY <2>3, <2>4, <2>5
<1> QED BY <1>1, <1>2, SubscribeKeeps, RequestKeeps, DispatchKeeps, NetworkKeeps DEF Next

(* What the steps of a thread may be, which clients have a handler and     *)
(* whom they belong to: inductive.                                         *)
THEOREM InductiveInvariant == Spec => []IInv
<1> QED BY InvariantInit, InvariantNext, PTL DEF Spec

(* Every variable keeps to its range; no client ever has two handlers that *)
(* lead to the callback.                                                   *)
THEOREM TypeCorrect == Spec => []TypeOK
<1>1. IInv => TypeOK
  BY DEF IInv
<1> QED BY <1>1, InductiveInvariant, PTL

(* What a client says reaches the callback once: SubscribeEvents reaches   *)
(* the clients of before, Start those of after, and no request, callback   *)
(* or reconnection adds a handler or leaves a client without one.          *)
THEOREM HeardOnceHolds == Spec => []HeardOnce
<1>1. IInv => HeardOnce
  BY DEF IInv, HooksControl, HeardOnce, Known
<1> QED BY <1>1, InductiveInvariant, PTL

(* No revoked client stays in the map beyond the callback of its LoggedOut *)
(* event, whatever requests load, replace, reconnect or stop meanwhile.    *)
THEOREM NoZombieHolds == Spec => []NoZombie
<1>1. IInv => NoZombie
  BY DEF IInv, OwnersControl
<1> QED BY <1>1, InductiveInvariant, PTL

-----------------------------------------------------------------------------
(* Phones.                                                                 *)

(* Between load and device, nothing comes in. *)
LEMMA NextInStart ==
  ASSUME NEW s \in Seq(Steps), Chained(s), s # <<>>
  PROVE  /\ Head(s) = "load"  => Tail(s) # <<>> /\ Head(Tail(s)) = "check"
         /\ Head(s) = "check" => Tail(s) # <<>> /\ Head(Tail(s)) = "device"
<1>1. Tail(s) = SubSeq(s, 1 + 1, Len(s)) /\ Head(s) = s[1] /\ Len(s) \in Nat /\ 1 <= Len(s)
  BY TailIsSubSeq, EmptySeq
<1>2. Link(s, 1)
  BY <1>1 DEF Chained
<1>3. Tail(s) = <<>> \/ Head(Tail(s)) = s[1 + 1]
  BY <1>1, Suffix
<1>4. 1 < Len(s) => Tail(s) # <<>>
  <2>1. Len(Tail(s)) = Len(s) - 1
    OBVIOUS
  <2>2. \A n \in Nat : 1 < n => n - 1 # 0
    OBVIOUS
  <2>3. Len(<<>>) = 0
    OBVIOUS
  <2> QED BY <1>1, <2>1, <2>2, <2>3, Zenon
<1>5. /\ Head(s) = "load"  => 1 + 3 <= Len(s) /\ s[1 + 1] = "check"
      /\ Head(s) = "check" => 1 + 2 <= Len(s) /\ s[1 + 1] = "device"
  BY <1>1, <1>2 DEF Link
<1>6. Head(s) \in {"load", "check"} => 1 < Len(s)
  BY <1>1, <1>5
<1> QED BY <1>3, <1>4, <1>5, <1>6

(* Only Load, Check and Device touch the jid that was read. *)
LEMMA ReadFrame ==
  ASSUME NEW t \in Threads, Step(t)
  PROVE  \/ Load(t) \/ Check(t) \/ Device(t)
         \/ read' = read /\ ~ Doing(t, "check") /\ ~ Doing(t, "device")
<1>1. CASE Clear(t) \/ Publish(t) \/ Get(t) \/ Reget(t) \/ Create(t) \/ Lookup(t)
  BY <1>1 DEF Clear, Publish, Get, Reget, Create, Lookup, Doing
<1>2. CASE Glance(t) \/ Kick(t) \/ ForceConnect(t) \/ Sync(t) \/ Find(t) \/ Stop(t) \/ Mark(t)
  BY <1>2 DEF Glance, Kick, ForceConnect, Sync, Find, Stop, Mark, Doing
<1>3. CASE Connect(t, "connect") \/ Connect(t, "connectForm") \/ Remove(t) \/ Delete(t)
  BY <1>3 DEF Connect, Remove, Delete, Doing
<1>4. CASE SetConnected(t) \/ SetIdentity(t) \/ Ask(t) \/ SetDisconnected(t) \/ Evict(t) \/ Reset(t)
  BY <1>4 DEF SetConnected, SetIdentity, Ask, SetDisconnected, Evict, Reset, Doing
<1> QED BY <1>1, <1>2, <1>3, <1>4 DEF Step

(* A step other than Device: it changes no client, brings none into use,   *)
(* and leaves its thread with what it had or found in the map.             *)
LEMMA StepHolds ==
  ASSUME IInv, NEW t \in Threads, Step(t), ~ Device(t)
  PROVE  /\ owner' = owner /\ dev' = dev /\ at' = at
         /\ \A u \in Threads : u # t => todo'[u] = todo[u] /\ held'[u] = held[u]
         /\ held'[t] \in {NoClient, held[t], Current(t)}
         /\ held'[t] # NoClient => todo'[t] # <<>> /\ ~ Doing(t, "request")'
         /\ \A c \in Clients : InUse(c)' => InUse(c)
<1> USE ManagerAssumption DEF IInv
<1>1. CASE Plain(t)
  <2>1. PICK s, c : Continue(t, s, c) /\ Ready(s) /\ c \in {NoClient, held[t], Current(t)}
    BY <1>1 DEF Plain
  <2>2. /\ todo'[t] = s /\ at' = at /\ held'[t] = IF s = <<>> THEN NoClient ELSE c
        /\ \A u \in Threads : u # t => todo'[u] = todo[u] /\ held'[u] = held[u]
    BY <2>1 DEF Continue, ThreadsControl, TypeOK
  <2>3. held'[t] # NoClient => todo'[t] # <<>> /\ ~ Doing(t, "request")'
    BY <2>1, <2>2 DEF Doing, Ready
  <2>4. ASSUME NEW x \in Clients, InUse(x)' PROVE InUse(x)
    <3>1. x = held[t] \/ x = Current(t) => InUse(x)
      BY DEF InUse, Current, TypeOK
    <3>2. CASE \E i \in Instances : published'[i] = x
      BY <1>1, <3>2 DEF InUse, Plain, TypeOK
    <3>3. CASE \E u \in Threads : held'[u] = x
      BY <2>1, <2>2, <3>1, <3>3 DEF InUse
    <3>4. CASE \E k \in Kinds : <<x, k>> \in events'
      BY <1>1, <3>4 DEF InUse, Plain
    <3>5. CASE x \in up' \cup connecting' \cup retrying'
      <4>1. x \in up \cup connecting \cup retrying \/ x = held[t] \/ x = Current(t)
        BY <1>1, <3>5 DEF Plain
      <4> QED BY <3>1, <4>1 DEF InUse
    <3> QED BY <2>4, <3>2, <3>3, <3>4, <3>5 DEF InUse
  <2> QED BY <1>1, <2>1, <2>2, <2>3, <2>4 DEF Plain
<1>2. CASE Clear(t)
  <2>1. /\ todo[t] \in Seq(Steps) /\ Chained(todo[t]) /\ todo[t] # <<>> /\ Head(todo[t]) = "clear"
        /\ Continue(t, Rest(t), held[t]) /\ UNCHANGED <<clients, network>>
    BY <1>2 DEF ThreadsControl, Clear, Doing
  <2>2. Rest(t) # <<>> /\ Head(Rest(t)) = "publish"
    BY <2>1, PublishNext DEF Rest
  <2>3. /\ todo'[t] = Rest(t) /\ at' = at
        /\ \A u \in Threads : held'[u] = held[u] /\ (u # t => todo'[u] = todo[u])
    BY <2>1, <2>2 DEF Continue, ThreadsControl, TypeOK
  <2>4. \A x \in Clients : InUse(x)' => InUse(x)
    BY <2>1, <2>3 DEF InUse, clients, network
  <2> QED BY <2>1, <2>2, <2>3, <2>4 DEF Doing, clients, network
<1>3. CASE Publish(t)
  <2>1. /\ at' = at /\ held'[t] = NoClient
        /\ \A u \in Threads : u # t => todo'[u] = todo[u] /\ held'[u] = held[u]
    BY <1>3 DEF Publish, Continue, ThreadsControl, TypeOK
  <2>2. held[t] \in Clients
    BY <1>3 DEF Publish, HooksControl, Building
  <2>3. /\ published' = [published EXCEPT ![at[t]] = held[t]]
        /\ connecting' \subseteq connecting \cup {held[t]}
        /\ up' = up /\ retrying' = retrying /\ owner' = owner /\ dev' = dev /\ events' = events
    BY <1>3 DEF Publish
  <2>4. \A x \in Clients : InUse(x)' => InUse(x)
    BY <2>1, <2>2, <2>3 DEF InUse, TypeOK
  <2> QED BY <2>1, <2>3, <2>4
<1> QED BY <1>1, <1>2, <1>3, PlainSteps

(* What NewClient makes, and for whom. *)
LEMMA DeviceHolds ==
  ASSUME IInv, NEW t \in Threads, Device(t)
  PROVE  \E c \in Clients :
           /\ ~ InUse(c)
           /\ held'[t] = c /\ todo'[t] # <<>> /\ ~ Doing(t, "request")'
           /\ at' = at /\ owner'[c] = at[t] /\ dev'[c] \in {read[t], NoDevice}
           /\ read'[t] = NoDevice
           /\ \A x \in Clients \ {c} :
                owner'[x] = owner[x] /\ dev'[x] = dev[x] /\ (InUse(x)' => InUse(x))
           /\ \A u \in Threads \ {t} :
                todo'[u] = todo[u] /\ held'[u] = held[u] /\ read'[u] = read[u]
<1> USE ManagerAssumption DEF IInv
<1>1. PICK c \in Clients : \E s :
        /\ ~ InUse(c) /\ Continue(t, s, c)
        /\ dev' = [dev EXCEPT ![c] = IF read[t] \in devices THEN read[t] ELSE NoDevice]
        /\ owner' = [owner EXCEPT ![c] = at[t]]
        /\ s = Rest(t) \/ s = <<"clear">> \o Rest(t)
  BY DEF Device
<1>2. PICK s : Continue(t, s, c) /\ (s = Rest(t) \/ s = <<"clear">> \o Rest(t))
  BY <1>1
<1>3. s # <<>> /\ Head(s) \in {"publish", "clear"}
  BY <1>2, AfterDevice DEF Device
<1>4. /\ todo'[t] = s /\ at' = at /\ held'[t] = c
      /\ \A u \in Threads : u # t => todo'[u] = todo[u] /\ held'[u] = held[u]
  BY <1>2, <1>3 DEF Continue, ThreadsControl, TypeOK
<1>5. /\ read' = [read EXCEPT ![t] = NoDevice]
      /\ UNCHANGED <<published, up, connecting, retrying, events>>
  BY DEF Device
<1>6. \A x \in Clients : x # c /\ InUse(x)' => InUse(x)
  BY <1>4, <1>5 DEF InUse
<1>7. /\ owner'[c] = at[t] /\ dev'[c] \in {read[t], NoDevice}
      /\ \A x \in Clients : x # c => owner'[x] = owner[x] /\ dev'[x] = dev[x]
  BY <1>1 DEF TypeOK
<1>8. read'[t] = NoDevice /\ \A u \in Threads : u # t => read'[u] = read[u]
  BY <1>5 DEF TypeOK
<1>9. todo'[t] # <<>> /\ ~ Doing(t, "request")'
  BY <1>3, <1>4 DEF Doing
<1> QED BY <1>1, <1>4, <1>6, <1>7, <1>8, <1>9

LEMMA HandsStep ==
  ASSUME IInv, HandsControl, NEW t \in Threads, Step(t)
  PROVE  HandsControl'
<1> USE ManagerAssumption DEF IInv
<1>1. todo[t] \in Seq(Steps) /\ Chained(todo[t])
  BY DEF ThreadsControl
<1>2. CASE Device(t)
  <2>1. PICK c \in Clients :
          /\ ~ InUse(c)
          /\ held'[t] = c /\ todo'[t] # <<>> /\ ~ Doing(t, "request")'
          /\ at' = at /\ owner'[c] = at[t] /\ read'[t] = NoDevice
          /\ \A x \in Clients \ {c} : owner'[x] = owner[x]
          /\ \A u \in Threads \ {t} :
               todo'[u] = todo[u] /\ held'[u] = held[u] /\ read'[u] = read[u]
    BY <1>2, DeviceHolds
  <2>2. ASSUME NEW u \in Threads \ {t}, read'[u] # NoDevice
        PROVE  Doing(u, "check")' \/ Doing(u, "device")'
    BY <2>1, <2>2 DEF HandsControl, Doing
  <2>3. ASSUME NEW u \in Threads \ {t}, held'[u] # NoClient
        PROVE  /\ owner'[held'[u]] = at'[u]
               /\ todo'[u] # <<>> /\ ~ Doing(u, "request")'
    <3>1. held[u] \in Clients \ {c}
      BY <2>1, <2>3 DEF InUse, TypeOK
    <3> QED BY <2>1, <2>3, <3>1 DEF HandsControl, Doing
  <2> QED BY <2>1, <2>2, <2>3 DEF HandsControl
<1>3. CASE ~ Device(t)
  <2>1. /\ owner' = owner /\ at' = at
        /\ \A u \in Threads : u # t => todo'[u] = todo[u] /\ held'[u] = held[u]
        /\ held'[t] \in {NoClient, held[t], Current(t)}
        /\ held'[t] # NoClient => todo'[t] # <<>> /\ ~ Doing(t, "request")'
    BY <1>3, StepHolds
  <2>2. held'[t] # NoClient => owner'[held'[t]] = at'[t]
    BY <2>1 DEF HandsControl, OwnersControl, Current, TypeOK
  <2>3. \A u \in Threads : u # t => read'[u] = read[u]
    BY <1>3, ReadFrame DEF Load, Check, TypeOK
  <2>4. read'[t] # NoDevice => Doing(t, "check")' \/ Doing(t, "device")'
    <3>1. CASE Load(t)
      <4>1. Doing(t, "load") /\ read[t] = NoDevice
        BY <3>1 DEF Load, Doing, HandsControl
      <4>2. Rest(t) # <<>> /\ Head(Rest(t)) = "check"
        BY <1>1, <4>1, NextInStart DEF Rest, Doing
      <4>3. read' = read \/ todo'[t] = Rest(t)
        BY <3>1 DEF Load, Continue, ThreadsControl
      <4> QED BY <4>1, <4>2, <4>3 DEF Doing
    <3>2. CASE Check(t)
      <4>1. Doing(t, "check")
        BY <3>2 DEF Check
      <4>2. Rest(t) # <<>> /\ Head(Rest(t)) = "device"
        BY <1>1, <4>1, NextInStart DEF Rest, Doing
      <4>3. read'[t] = NoDevice \/ todo'[t] = Rest(t)
        BY <3>2 DEF Check, Continue, ThreadsControl, TypeOK
      <4> QED BY <4>2, <4>3 DEF Doing
    <3>3. CASE read' = read /\ ~ Doing(t, "check") /\ ~ Doing(t, "device")
      BY <3>3 DEF HandsControl
    <3> QED BY <1>3, <3>1, <3>2, <3>3, ReadFrame
  <2> QED BY <2>1, <2>2, <2>3, <2>4 DEF HandsControl, Doing
<1> QED BY <1>2, <1>3

LEMMA HandsNext ==
  ASSUME IInv, HandsControl, [Next]_vars
  PROVE  HandsControl'
<1> USE ManagerAssumption DEF IInv
<1>1. ASSUME UNCHANGED <<owner, todo, at, held, read>> PROVE HandsControl'
  BY <1>1 DEF HandsControl, Doing
<1>2. CASE SubscribeEvents
  <2>1. UNCHANGED <<owner, todo, at, held, read>>
    BY <1>2 DEF SubscribeEvents
  <2> QED BY <1>1, <2>1
<1>3. ASSUME NEW h \in Handlers, NEW op \in Requests, NEW i \in Instances, Request(h, op, i)
      PROVE  HandsControl'
  <2>1. /\ h \in Threads /\ todo[h] # <<>> /\ Head(todo[h]) = "request"
        /\ UNCHANGED <<owner, held, read>>
        /\ \A u \in Threads : u # h => todo'[u] = todo[u] /\ at'[u] = at[u]
    BY <1>3 DEF Request, Doing, Threads, clients, TypeOK, ThreadsControl
  <2>2. read[h] = NoDevice /\ held[h] = NoClient
    BY <2>1 DEF HandsControl, Doing
  <2> QED BY <2>1, <2>2 DEF HandsControl, Doing
<1>4. ASSUME NEW t \in Callbacks, NEW c \in Clients, NEW k \in Kinds, Dispatch(t, c, k)
      PROVE  HandsControl'
  <2>1. /\ t \in Threads /\ todo[t] = <<>>
        /\ UNCHANGED <<owner, held, read>>
        /\ \A u \in Threads : u # t => todo'[u] = todo[u] /\ at'[u] = at[u]
    BY <1>4 DEF Dispatch, Threads, clients, TypeOK, ThreadsControl
  <2>2. read[t] = NoDevice /\ held[t] = NoClient
    BY <2>1 DEF HandsControl, Doing
  <2> QED BY <2>1, <2>2 DEF HandsControl, Doing
<1>5. ASSUME NEW t \in Threads, Step(t) PROVE HandsControl'
  BY <1>5, HandsStep
<1>6. ASSUME NEW c \in Clients, Network(c) PROVE HandsControl'
  <2>1. UNCHANGED <<owner, todo, at, held, read>>
    BY <1>6 DEF Network, ConnectFails, ConnectOpens, LoggedOut, RemoteClose, Pair, clients, threads
  <2> QED BY <1>1, <2>1
<1>7. CASE UNCHANGED vars
  BY <1>1, <1>7 DEF vars
<1> QED BY <1>2, <1>3, <1>4, <1>5, <1>6, <1>7 DEF Next

(* Only SetIdentity gives a row a phone: that of the client in hand. *)
LEMMA RowsFrame ==
  ASSUME TypeOK, NEW t \in Threads, Step(t), NEW i \in Instances
  PROVE  \/ jid'[i] \in {jid[i], NoDevice}
         \/ i = at[t] /\ held[t] \in Clients /\ jid'[i] = dev[held[t]]
<1> USE DEF TypeOK
<1>1. CASE Load(t) \/ Check(t) \/ Device(t) \/ Publish(t) \/ Get(t) \/ Reget(t) \/ Create(t)
  BY <1>1 DEF Load, Check, Device, Publish, Get, Reget, Create, rows
<1>2. CASE Lookup(t) \/ Glance(t) \/ Kick(t) \/ ForceConnect(t) \/ Find(t) \/ Stop(t)
  BY <1>2 DEF Lookup, Glance, Kick, ForceConnect, Find, Stop, rows
<1>3. CASE Sync(t) \/ Mark(t) \/ SetConnected(t) \/ SetDisconnected(t)
  BY <1>3 DEF Sync, Mark, SetConnected, SetDisconnected, SetStatus
<1>4. CASE Connect(t, "connect") \/ Connect(t, "connectForm") \/ Remove(t) \/ Delete(t)
  BY <1>4 DEF Connect, Remove, Delete, rows
<1>5. CASE Ask(t) \/ Evict(t)
  BY <1>5 DEF Ask, Evict, rows
<1>6. CASE Clear(t) \/ Reset(t)
  BY <1>6 DEF Clear, Reset, Forget
<1>7. CASE SetIdentity(t)
  BY <1>7 DEF SetIdentity
<1> QED BY <1>1, <1>2, <1>3, <1>4, <1>5, <1>6, <1>7 DEF Step

LEMMA PhonesKept ==
  ASSUME OnePhone,
         \A i \in Instances, d \in Devices : HasPhone(i, d)' => HasPhone(i, d)
  PROVE  OnePhone'
BY DEF OnePhone

LEMMA PhonesStep ==
  ASSUME IInv, PhonesInv, NEW t \in Threads, Step(t)
  PROVE  OnePhone'
<1> USE ManagerAssumption DEF IInv, PhonesInv
<1> SUFFICES ASSUME NEW i \in Instances, NEW d \in Devices, HasPhone(i, d)'
             PROVE  HasPhone(i, d)
  BY PhonesKept
<1>0. d # NoDevice
  OBVIOUS
<1>1. CASE jid'[i] = d
  <2>1. CASE jid'[i] \in {jid[i], NoDevice}
    BY <1>0, <1>1, <2>1 DEF HasPhone
  <2>2. CASE i = at[t] /\ held[t] \in Clients /\ jid'[i] = dev[held[t]]
    <3>1. InUse(held[t]) /\ owner[held[t]] = i
      BY <2>2 DEF HandsControl, InUse
    <3> QED BY <1>1, <2>2, <3>1 DEF HasPhone
  <2> QED BY <2>1, <2>2, RowsFrame
<1>2. ASSUME NEW u \in Threads, at'[u] = i, read'[u] = d PROVE HasPhone(i, d)
  <2>1. at' = at
    BY StepHolds, DeviceHolds
  <2>2. CASE Load(t)
    <3>1. read' = read \/ read' = [read EXCEPT ![t] = jid[at[t]]]
      BY <2>2 DEF Load
    <3>2. read[u] = d \/ (u = t /\ jid[i] = d)
      BY <1>2, <2>1, <3>1 DEF TypeOK
    <3> QED BY <1>2, <2>1, <3>2 DEF HasPhone
  <2>3. CASE Check(t)
    <3>1. read' = read \/ read' = [read EXCEPT ![t] = NoDevice]
      BY <2>3 DEF Check
    <3>2. read[u] = d
      BY <1>0, <1>2, <3>1 DEF TypeOK
    <3> QED BY <1>2, <2>1, <3>2 DEF HasPhone
  <2>4. CASE Device(t)
    <3>1. read[u] = d
      BY <1>0, <1>2, <2>4, DeviceHolds
    <3> QED BY <1>2, <2>1, <3>1 DEF HasPhone
  <2>5. CASE read' = read
    BY <1>2, <2>1, <2>5 DEF HasPhone
  <2> QED BY <2>2, <2>3, <2>4, <2>5, ReadFrame
<1>3. ASSUME NEW x \in Clients, InUse(x)', owner'[x] = i, dev'[x] = d PROVE HasPhone(i, d)
  <2>1. CASE ~ Device(t)
    BY <1>3, <2>1, StepHolds DEF HasPhone
  <2>2. CASE Device(t)
    <3>1. PICK c \in Clients :
            /\ owner'[c] = at[t] /\ dev'[c] \in {read[t], NoDevice}
            /\ \A y \in Clients \ {c} :
                 owner'[y] = owner[y] /\ dev'[y] = dev[y] /\ (InUse(y)' => InUse(y))
      BY <2>2, DeviceHolds
    <3>2. CASE x = c
      BY <1>0, <1>3, <3>1, <3>2 DEF HasPhone
    <3>3. CASE x # c
      BY <1>3, <3>1, <3>3 DEF HasPhone
    <3> QED BY <3>2, <3>3
  <2> QED BY <2>1, <2>2
<1> QED BY <1>1, <1>2, <1>3 DEF HasPhone

LEMMA PhonesNetwork ==
  ASSUME IInv, OnePhone, NEW c \in Clients, Network(c)
  PROVE  OnePhone'
<1> USE ManagerAssumption DEF IInv
<1>1. UNCHANGED <<jid, published, owner, at, held, read>>
  BY DEF Network, ConnectFails, ConnectOpens, LoggedOut, RemoteClose, Pair, rows, clients, threads
<1>2. /\ InUse(c)
      /\ up' \cup connecting' \cup retrying' \subseteq up \cup connecting \cup retrying
      /\ \A x \in Clients, k \in Kinds : <<x, k>> \in events' => <<x, k>> \in events \/ x = c
  BY DEF Network, ConnectFails, ConnectOpens, LoggedOut, RemoteClose, Pair, InUse
<1>3. ASSUME NEW x \in Clients, InUse(x)' PROVE InUse(x)
  BY <1>1, <1>2, <1>3 DEF InUse
<1>4. CASE ~ \E d \in Devices : Pair(c, d)
  <2>1. \A x \in Clients : dev'[x] # dev[x] => dev'[x] = Deleted
    BY <1>4 DEF Network, ConnectFails, ConnectOpens, LoggedOut, RemoteClose, TypeOK
  <2>2. \A i \in Instances, d \in Devices : HasPhone(i, d)' => HasPhone(i, d)
    BY <1>1, <1>3, <2>1 DEF HasPhone
  <2> QED BY <2>2, PhonesKept
<1>5. ASSUME NEW d \in Devices, Pair(c, d) PROVE OnePhone'
  <2>1. /\ \A b \in Clients : InUse(b) => dev[b] # d
        /\ \A i \in Instances : jid[i] # d
        /\ \A t \in Threads : read[t] # d
        /\ dev' = [dev EXCEPT ![c] = d]
    BY <1>5 DEF Pair
  <2>2. \A i \in Instances : HasPhone(i, d)' => i = owner[c]
    BY <1>1, <1>3, <2>1 DEF HasPhone, TypeOK
  <2>3. \A i \in Instances, e \in Devices : e # d /\ HasPhone(i, e)' => HasPhone(i, e)
    BY <1>1, <1>3, <2>1 DEF HasPhone, TypeOK
  <2> QED BY <2>2, <2>3 DEF OnePhone
<1> QED BY <1>4, <1>5

LEMMA PhonesNext ==
  ASSUME IInv, PhonesInv, [Next]_vars
  PROVE  PhonesInv'
<1> USE ManagerAssumption DEF IInv, PhonesInv
<1>0. HandsControl'
  BY HandsNext
<1>1. ASSUME UNCHANGED <<jid, published, owner, dev, held, read, up, connecting, retrying>>,
             events' \subseteq events, \A t \in Threads : read[t] # NoDevice => at'[t] = at[t]
      PROVE  OnePhone'
  <2>1. \A x \in Clients : InUse(x)' => InUse(x)
    BY <1>1 DEF InUse
  <2>2. \A i \in Instances, d \in Devices : HasPhone(i, d)' => HasPhone(i, d)
    BY <1>1, <2>1 DEF HasPhone
  <2> QED BY <2>2, PhonesKept
<1>2. CASE SubscribeEvents
  <2>1. /\ UNCHANGED <<jid, published, owner, dev, held, read, up, connecting, retrying>>
        /\ events' = events /\ at' = at
    BY <1>2 DEF SubscribeEvents, rows, network
  <2> QED BY <1>0, <1>1, <2>1
<1>3. ASSUME NEW h \in Handlers, NEW op \in Requests, NEW i \in Instances, Request(h, op, i)
      PROVE  OnePhone'
  <2>1. read[h] = NoDevice /\ \A u \in Threads : u # h => at'[u] = at[u]
    BY <1>3 DEF Request, HandsControl, Doing, Threads, TypeOK
  <2> QED BY <1>1, <1>3, <2>1 DEF Request, rows, clients, network
<1>4. ASSUME NEW t \in Callbacks, NEW c \in Clients, NEW k \in Kinds, Dispatch(t, c, k)
      PROVE  OnePhone'
  <2>1. read[t] = NoDevice /\ \A u \in Threads : u # t => at'[u] = at[u]
    BY <1>4 DEF Dispatch, HandsControl, Doing, Threads, TypeOK
  <2> QED BY <1>1, <1>4, <2>1 DEF Dispatch, rows, clients
<1>5. CASE UNCHANGED vars
  <2>1. /\ UNCHANGED <<jid, published, owner, dev, held, read, up, connecting, retrying>>
        /\ events' = events /\ at' = at
    BY <1>5 DEF vars
  <2> QED BY <1>0, <1>1, <2>1
<1> QED BY <1>0, <1>2, <1>3, <1>4, <1>5, PhonesStep, PhonesNetwork DEF Next

LEMMA PhonesInit == Init => PhonesInv
<1> SUFFICES ASSUME Init PROVE PhonesInv
  OBVIOUS
<1> USE ManagerAssumption
<1>1. HandsControl
  BY DEF Init, HandsControl
<1>2. TypeOK
  BY InvariantInit DEF IInv
<1>3. \A t \in Threads : read[t] = NoDevice
  BY DEF Init
<1>4. \A c \in Clients : dev[c] = IF published[owner[c]] = c THEN jid[owner[c]] ELSE NoDevice
  BY DEF Init
<1>5. \A i \in Instances, d \in Devices : HasPhone(i, d) => jid[i] = d
  BY <1>3, <1>4 DEF HasPhone
<1>6. \A i, j \in Instances : jid[i] = jid[j] /\ jid[i] # NoDevice => i = j
  BY DEF Init
<1>7. OnePhone
  BY <1>5, <1>6 DEF OnePhone
<1> QED BY <1>1, <1>7 DEF PhonesInv

(* No request and no callback ever holds a client of another instance than *)
(* the one it is for.                                                      *)
THEOREM OwnClientHolds == Spec => []OwnClient
<1>1. IInv /\ PhonesInv /\ [Next]_vars => PhonesInv'
  BY PhonesNext
<1>2. PhonesInv => OwnClient
  BY DEF PhonesInv, HandsControl, OwnClient
<1> QED BY <1>1, <1>2, PhonesInit, InductiveInvariant, PTL DEF Spec

(* A device stays with the instance it was linked to: no row and no        *)
(* client of another instance ever carries it.                             *)
THEOREM OnePhoneHolds == Spec => []OnePhone
<1>1. IInv /\ PhonesInv /\ [Next]_vars => PhonesInv'
  BY PhonesNext
<1>2. PhonesInv => OnePhone
  BY DEF PhonesInv
<1> QED BY <1>1, <1>2, PhonesInit, InductiveInvariant, PTL DEF Spec

==============================================================================
