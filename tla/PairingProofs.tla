---------------------------- MODULE PairingProofs ----------------------------
(***************************************************************************)
(* Proofs about Pairing for any requests and any bounds on the clients and *)
(* the batches.                                                            *)
(***************************************************************************)
EXTENDS Pairing, TLAPS

(* The shapes of an event of client c and of a request.                    *)
Batch == [n : 0..batches, of : 0..loaded]

EventShape(c, e) ==
  \/ e = NoEvent
  \/ c \in 1..loaded /\ e \in [pc : {"emitted", "stored"}, batch : 1..batches]
  \/ c \in 1..loaded /\ e \in [pc : {"found", "half"}, batch : 1..batches, into : 1..loaded]

FetchShape(q) ==
  \/ q.pc \in {"new", "missing", "paired", "panic"}
  \/ q \in [pc : {"got"}, client : 1..loaded]
  \/ q \in [pc : {"looking", "waiting", "woken"}, q : 1..loaded, floor : 0..batches]
  \/ q \in [pc : {"late"}, q : 1..loaded, floor : 0..batches, had : Batch]
  \/ q \in [pc : {"served"}, q : 1..loaded, floor : 0..batches, batch : Batch]
  \/ q \in [pc : {"failed"}, had : Batch]

Shaped ==
  /\ event = [c \in Clients |-> event[c]] /\ \A c \in Clients : EventShape(c, event[c])
  /\ fetch = [f \in Fetches |-> fetch[f]] /\ \A f \in Fetches : FetchShape(fetch[f])

Typed ==
  /\ row \in BOOLEAN
  /\ loaded \in Clients /\ published \in {0, loaded} /\ hooked \in 0..loaded
  /\ kicked \subseteq 1..loaded /\ paired \subseteq 1..loaded
  /\ batches \in 0..MaxBatches
  /\ codes \in [Clients -> Batch]
  /\ signal \in [Clients -> BOOLEAN]
  /\ told \in [Clients -> 0..batches]

(* Codes that are there stay there: a token, a woken request and a request *)
(* whose deadline has passed can rely on them.                             *)
KeptFetch(q) ==
  /\ q.pc = "woken" => codes[q.q] # NoBatch
  /\ q.pc = "late" /\ codes[q.q] = NoBatch => q.had = NoBatch
  /\ q.pc = "failed" => q.had = NoBatch
  /\ q.pc = "served" => q.batch # NoBatch

Kept ==
  /\ \A c \in Clients : signal[c] => codes[c] # NoBatch
  /\ \A c \in Clients : event[c].pc = "half" => codes[event[c].into] # NoBatch
  /\ \A f \in Fetches : KeptFetch(fetch[f])

(* What was announced of the client in the map is no newer than its codes, *)
(* unless they are of another client.                                      *)
Current(c, n) == codes[c].of = c => codes[c].n >= n

FreshEvent(c, e) ==
  /\ e # NoEvent => told[c] <= e.batch
  /\ c = published =>
       /\ e.pc \in {"found", "half"} => e.into = c
       /\ e.pc \in {"half", "stored"} => Current(c, e.batch)

FreshFetch(q) ==
  /\ q.pc \in {"looking", "waiting", "woken", "late"} =>
       q.floor <= told[q.q] /\ Current(q.q, q.floor)
  /\ q.pc = "served" /\ q.batch.of = q.q => q.batch.n >= q.floor

Fresh ==
  /\ \A c \in Clients : c = published => Current(c, told[c])
  /\ \A c \in Clients : FreshEvent(c, event[c])
  /\ \A f \in Fetches : FreshFetch(fetch[f])

-----------------------------------------------------------------------------
(* Shapes and ranges.                                                      *)

LEMMA TypedInit == Init => Typed /\ Shaped
  BY PairingAssumption DEF Init, Typed, Shaped, Batch, EventShape, FetchShape, NoBatch, NoEvent, Clients

(* Clients and batches only become more, and one event or one request at a *)
(* time changes.                                                           *)
Grows == /\ loaded \in Nat /\ loaded' \in Nat /\ loaded <= loaded'
         /\ batches \in Nat /\ batches' \in Nat /\ batches <= batches'

LEMMA Wider ==
  ASSUME Grows
  PROVE  /\ Batch \subseteq Batch'
         /\ \A c, e : EventShape(c, e) => EventShape(c, e)'
         /\ \A q : FetchShape(q) => FetchShape(q)'
<1>1. 1..loaded \subseteq 1..loaded' /\ 0..loaded \subseteq 0..loaded'
      /\ 1..batches \subseteq 1..batches' /\ 0..batches \subseteq 0..batches'
  BY DEF Grows
<1>2. Batch \subseteq Batch'
  BY <1>1 DEF Batch
<1>3. ASSUME NEW c, NEW e, EventShape(c, e) PROVE EventShape(c, e)'
  BY <1>1, <1>3 DEF EventShape
<1>4. ASSUME NEW q, FetchShape(q) PROVE FetchShape(q)'
  BY <1>1, <1>2, <1>4 DEF FetchShape
<1> QED BY <1>2, <1>3, <1>4

LEMMA OneEvent ==
  ASSUME Shaped, Grows, NEW c \in Clients, NEW e,
         event' = [event EXCEPT ![c] = e], EventShape(c, e)', fetch' = fetch
  PROVE  Shaped'
<1>1. /\ event' = [d \in Clients |-> event'[d]]
      /\ \A d \in Clients : event'[d] = IF d = c THEN e ELSE event[d]
  BY DEF Shaped
<1>2. ASSUME NEW d \in Clients PROVE EventShape(d, event[d])'
  <2>1. PICK x : x = event'[d]
    OBVIOUS
  <2>2. EventShape(d, x)'
    BY <1>1, <2>1, Wider DEF Shaped
  <2> QED BY <2>1, <2>2 DEF EventShape
<1>3. ASSUME NEW f \in Fetches PROVE FetchShape(fetch[f])'
  <2>1. PICK x : x = fetch[f]
    OBVIOUS
  <2>2. FetchShape(x)'
    BY <2>1, Wider DEF Shaped
  <2> QED BY <2>1, <2>2 DEF FetchShape
<1> QED BY <1>1, <1>2, <1>3 DEF Shaped

LEMMA OneFetch ==
  ASSUME Shaped, Grows, NEW f \in Fetches, NEW q,
         Goes(f, q), FetchShape(q)', event' = event
  PROVE  Shaped'
<1>1. /\ fetch' = [d \in Fetches |-> fetch'[d]]
      /\ \A d \in Fetches : fetch'[d] = IF d = f THEN q ELSE fetch[d]
  BY DEF Shaped, Goes
<1>2. ASSUME NEW d \in Fetches PROVE FetchShape(fetch[d])'
  <2>1. PICK x : x = fetch'[d]
    OBVIOUS
  <2>2. FetchShape(x)'
    BY <1>1, <2>1, Wider DEF Shaped
  <2> QED BY <2>1, <2>2 DEF FetchShape
<1>3. ASSUME NEW c \in Clients PROVE EventShape(c, event[c])'
  <2>1. PICK x : x = event[c]
    OBVIOUS
  <2>2. EventShape(c, x)'
    BY <2>1, Wider DEF Shaped
  <2> QED BY <2>1, <2>2 DEF EventShape
<1> QED BY <1>1, <1>2, <1>3 DEF Shaped

LEMMA NoneChanges ==
  ASSUME Shaped, Grows, event' = event, fetch' = fetch
  PROVE  Shaped'
  BY Wider DEF Shaped

LEMMA TypedStep == Typed /\ Shaped /\ [Next]_vars => Typed' /\ Shaped'
<1> SUFFICES ASSUME Typed, Shaped, [Next]_vars PROVE Typed' /\ Shaped'
  OBVIOUS
<1> USE PairingAssumption DEF manager, network, state
<1>0. loaded \in Nat /\ batches \in Nat
  BY DEF Typed, Clients
<1>1. ASSUME NEW c \in Clients, Emit(c) PROVE Typed' /\ Shaped'
  <2>1. Grows /\ batches' = batches + 1 /\ batches' \in 0..MaxBatches /\ loaded' = loaded
    BY <1>0, <1>1 DEF Emit, Typed, Grows
  <2>2. PICK e : e = [pc |-> "emitted", batch |-> batches + 1]
    OBVIOUS
  <2>3. EventShape(c, e)'
    <3>1. c \in 1..loaded'
      BY <1>1, <2>1 DEF Emit, Typed
    <3>2. e \in [pc : {"emitted", "stored"}, batch : 1..batches']
      BY <1>0, <2>1, <2>2
    <3> QED BY <3>1, <3>2 DEF EventShape
  <2>4. Shaped'
    BY <1>1, <2>1, <2>2, <2>3, OneEvent DEF Emit
  <2>5. Typed'
    <3>1. codes' \in [Clients -> Batch']
      BY <1>1, <2>1, Wider DEF Emit, Typed
    <3>2. told' \in [Clients -> 0..batches']
      BY <1>0, <1>1, <2>1 DEF Emit, Typed
    <3> QED BY <1>1, <2>1, <3>1, <3>2 DEF Emit, Typed
  <2> QED BY <2>4, <2>5
<1>2. ASSUME NEW c \in Clients, Pair(c) PROVE Typed' /\ Shaped'
  <2>1. Grows /\ event' = event /\ fetch' = fetch
    BY <1>0, <1>2 DEF Pair, Grows
  <2> QED BY <1>2, <2>1, NoneChanges DEF Pair, Typed, Batch
<1>3. ASSUME NEW c \in Clients, FindState(c) PROVE Typed' /\ Shaped'
  <2>1. Grows /\ fetch' = fetch /\ loaded' = loaded /\ batches' = batches
    BY <1>0, <1>3 DEF FindState, Grows
  <2>2. c \in 1..loaded /\ event[c] \in [pc : {"emitted", "stored"}, batch : 1..batches]
    BY <1>3 DEF FindState, Handling, Shaped, EventShape, NoEvent
  <2>3. \E e : event' = [event EXCEPT ![c] = e] /\ EventShape(c, e)
    <3>1. CASE published = 0
      <4>1. PICK e : e = [pc |-> "stored", batch |-> event[c].batch]
        OBVIOUS
      <4>2. EventShape(c, e)
        BY <2>2, <4>1 DEF EventShape
      <4> QED BY <1>3, <3>1, <4>1, <4>2 DEF FindState
    <3>2. CASE published # 0
      <4>1. published \in 1..loaded
        BY <1>0, <3>2 DEF Typed, Clients
      <4>2. PICK e : e = [pc |-> "found", batch |-> event[c].batch, into |-> published]
        OBVIOUS
      <4>3. EventShape(c, e)
        BY <2>2, <4>1, <4>2 DEF EventShape
      <4> QED BY <1>3, <3>2, <4>2, <4>3 DEF FindState
    <3> QED BY <3>1, <3>2
  <2>4. Shaped'
    BY <2>1, <2>3, OneEvent DEF EventShape
  <2> QED BY <1>3, <2>4 DEF FindState, Typed, Batch
<1>4. ASSUME NEW c \in Clients, Set(c) PROVE Typed' /\ Shaped'
  <2>1. Grows /\ fetch' = fetch /\ loaded' = loaded /\ batches' = batches
    BY <1>0, <1>4 DEF Set, Grows
  <2>2. /\ c \in 1..loaded
        /\ event[c] \in [pc : {"found", "half"}, batch : 1..batches, into : 1..loaded]
    BY <1>4 DEF Set, Handling, Shaped, EventShape, NoEvent
  <2>3. \E e : event' = [event EXCEPT ![c] = e] /\ EventShape(c, e)
    BY <1>4, <2>2 DEF Set, EventShape
  <2>4. Shaped'
    BY <2>1, <2>3, OneEvent DEF EventShape
  <2>5. [n |-> event[c].batch, of |-> c] \in Batch
    BY <1>0, <2>2 DEF Batch
  <2>6. codes' \in [Clients -> Batch] /\ signal' \in [Clients -> BOOLEAN]
    BY <1>4, <2>5 DEF Set, Typed
  <2> QED BY <1>4, <2>4, <2>6 DEF Set, Typed, Batch
<1>5. ASSUME NEW c \in Clients, Announce(c) PROVE Typed' /\ Shaped'
  <2>1. Grows /\ fetch' = fetch /\ loaded' = loaded /\ batches' = batches
    BY <1>0, <1>5 DEF Announce, Grows
  <2>2. event[c] \in [pc : {"emitted", "stored"}, batch : 1..batches]
    BY <1>5 DEF Announce, Handling, Shaped, EventShape, NoEvent
  <2>3. Shaped'
    BY <1>5, <2>1, OneEvent DEF Announce, EventShape
  <2>4. told' \in [Clients -> 0..batches]
    BY <1>0, <1>5, <2>2 DEF Announce, Typed
  <2> QED BY <1>5, <2>3, <2>4 DEF Announce, Typed, Batch
<1>6. CASE Evict \/ DeleteRow \/ OpenStream \/ UNCHANGED vars
  <2>1. Grows /\ event' = event /\ fetch' = fetch
    BY <1>0, <1>6 DEF Evict, DeleteRow, OpenStream, vars, Grows
  <2>2. Typed'
    <3>1. CASE Evict
      BY <1>0, <3>1 DEF Evict, Typed, Batch
    <3>2. CASE DeleteRow
      BY <3>2 DEF DeleteRow, Typed, Batch
    <3>3. CASE OpenStream
      BY <1>0, <3>3 DEF OpenStream, Typed, Batch
    <3>4. CASE UNCHANGED vars
      BY <3>4 DEF vars, Typed, Batch
    <3> QED BY <1>6, <3>1, <3>2, <3>3, <3>4
  <2> QED BY <2>1, <2>2, NoneChanges
<1>7. ASSUME NEW f \in Fetches, Get(f) PROVE Typed' /\ Shaped'
  <2>1. Grows /\ loaded' \in Clients /\ batches' = batches /\ event' = event
    BY <1>0, <1>7 DEF Get, Typed, Grows, Clients
  <2>2. codes' \in [Clients -> Batch'] /\ published' \in {0, loaded'}
    BY <1>7, <2>1, Wider DEF Get, Typed
  <2>3. /\ hooked' \in 0..loaded' /\ kicked' \subseteq 1..loaded' /\ paired' \subseteq 1..loaded'
        /\ row' = row /\ signal' = signal /\ told' = told
    BY <1>0, <1>7, <2>1 DEF Get, Typed, Grows
  <2>4. \E q : Goes(f, q) /\ FetchShape(q)'
    <3>1. published # 0 => published \in 1..loaded
      BY <1>0 DEF Typed, Clients
    <3>2. CASE /\ published # 0
               /\ Goes(f, [pc |-> IF published \in paired THEN "paired" ELSE "got", client |-> published])
               /\ UNCHANGED <<loaded, published>>
      BY <3>1, <3>2 DEF FetchShape
    <3>3. CASE loaded' = loaded + 1 /\ Goes(f, [pc |-> "got", client |-> loaded + 1])
      <4>1. PICK q : q = [pc |-> "got", client |-> loaded + 1]
        OBVIOUS
      <4>2. FetchShape(q)'
        BY <1>0, <3>3, <4>1 DEF FetchShape
      <4> QED BY <3>3, <4>1, <4>2
    <3>4. CASE Goes(f, [pc |-> "missing"])
      BY <3>4 DEF FetchShape
    <3> QED BY <1>7, <3>2, <3>3, <3>4 DEF Get
  <2> QED BY <2>1, <2>2, <2>3, <2>4, OneFetch DEF Typed
<1>8. ASSUME NEW f \in Fetches, GetState(f) PROVE Typed' /\ Shaped'
  <2>1. Grows /\ event' = event /\ loaded' = loaded /\ batches' = batches
    BY <1>0, <1>8 DEF GetState, Grows
  <2>2. fetch[f].client \in 1..loaded
    BY <1>8 DEF GetState, At, Shaped, FetchShape
  <2>3. \E q : Goes(f, q) /\ FetchShape(q)
    <3>1. published # 0 => published \in 1..loaded /\ told[published] \in 0..batches
      BY DEF Typed, Clients
    <3> QED BY <1>8, <3>1 DEF GetState, FetchShape
  <2>4. Shaped'
    BY <2>1, <2>3, OneFetch DEF FetchShape, Batch
  <2> QED BY <1>8, <2>2, <2>4 DEF GetState, Typed, Batch
<1>9. ASSUME NEW f \in Fetches, Look(f) \/ Wake(f) \/ Expire(f) \/ LastLook(f)
      PROVE  Typed' /\ Shaped'
  <2>1. Grows /\ event' = event /\ loaded' = loaded /\ batches' = batches
    BY <1>0, <1>9 DEF Look, Wake, Expire, LastLook, Grows
  <2>2. /\ fetch[f].q \in 1..loaded /\ fetch[f].floor \in 0..batches
        /\ \/ fetch[f] \in [pc : {"looking", "waiting", "woken"}, q : 1..loaded, floor : 0..batches]
           \/ fetch[f].pc = "late" /\ fetch[f].had \in Batch
    <3>1. fetch[f].pc \in {"looking", "waiting", "woken", "late"}
      BY <1>9 DEF Look, Wake, Expire, LastLook, At
    <3> QED BY <3>1 DEF Shaped, FetchShape
  <2>3. codes[fetch[f].q] \in Batch
    BY <1>0, <2>2 DEF Typed, Clients
  <2>4. \E q : Goes(f, q) /\ FetchShape(q)
    BY <1>9, <2>2, <2>3 DEF Look, Wake, Expire, LastLook, Served, At, FetchShape
  <2>5. Shaped'
    BY <2>1, <2>4, OneFetch DEF FetchShape, Batch
  <2>6. signal' \in [Clients -> BOOLEAN]
    BY <1>9 DEF Look, Wake, Expire, LastLook, Typed
  <2> QED BY <1>9, <2>5, <2>6 DEF Look, Wake, Expire, LastLook, Typed, Batch
<1> QED BY <1>1, <1>2, <1>3, <1>4, <1>5, <1>6, <1>7, <1>8, <1>9 DEF Next, Answering

-----------------------------------------------------------------------------
(* Codes that are there.                                                   *)

LEMMA KeptInit == Init => Kept
  BY DEF Init, Kept, KeptFetch, NoEvent

(* A request that changes while the codes stay.                            *)
LEMMA KeptOneFetch ==
  ASSUME Shaped, Kept, NEW f \in Fetches, NEW q, Goes(f, q), KeptFetch(q),
         UNCHANGED <<codes, event>>, \A c \in Clients : signal'[c] => signal[c]
  PROVE  Kept'
<1>1. \A d \in Fetches : fetch'[d] = IF d = f THEN q ELSE fetch[d]
  BY DEF Shaped, Goes
<1> QED BY <1>1 DEF Kept, KeptFetch

LEMMA KeptOneEvent ==
  ASSUME Shaped, Kept, NEW c \in Clients, NEW e, e.pc # "half",
         event' = [event EXCEPT ![c] = e], UNCHANGED <<codes, signal, fetch>>
  PROVE  Kept'
<1>1. \A d \in Clients : event'[d] = IF d = c THEN e ELSE event[d]
  BY DEF Shaped
<1> QED BY <1>1 DEF Kept, KeptFetch

LEMMA KeptStep == Typed /\ Shaped /\ Kept /\ [Next]_vars => Kept'
<1> SUFFICES ASSUME Typed, Shaped, Kept, [Next]_vars PROVE Kept'
  OBVIOUS
<1> USE DEF manager, network, state
<1>0. \A q \in 1..loaded : q \in Clients
  BY PairingAssumption DEF Typed, Clients
<1>1. ASSUME NEW c \in Clients, Emit(c) PROVE Kept'
  BY <1>1, KeptOneEvent DEF Emit
<1>2. ASSUME NEW c \in Clients, FindState(c) PROVE Kept'
  <2>1. \E e : event' = [event EXCEPT ![c] = e] /\ e.pc # "half"
    <3>1. PICK e : /\ event' = [event EXCEPT ![c] = e]
                   /\ e = IF published = 0 THEN [pc |-> "stored", batch |-> event[c].batch]
                          ELSE [pc |-> "found", batch |-> event[c].batch, into |-> published]
      BY <1>2 DEF FindState
    <3>2. e.pc # "half"
      BY <3>1
    <3> QED BY <3>1, <3>2
  <2> QED BY <1>2, <2>1, KeptOneEvent DEF FindState
<1>3. ASSUME NEW c \in Clients, Announce(c) PROVE Kept'
  BY <1>3, KeptOneEvent DEF Announce, NoEvent
<1>4. ASSUME NEW c \in Clients, Set(c) PROVE Kept'
  <2>1. /\ event[c] \in [pc : {"found", "half"}, batch : 1..batches, into : 1..loaded]
        /\ event[c].into \in Clients
    <3>1. event[c] \in [pc : {"found", "half"}, batch : 1..batches, into : 1..loaded]
      BY <1>4 DEF Set, Handling, Shaped, EventShape, NoEvent
    <3> QED BY <1>0, <3>1
  <2>2. CASE Handling(c, "found")
    <3>1. /\ \A d \in Clients : codes'[d] = IF d = event[c].into THEN [n |-> event[c].batch, of |-> c]
                                                                 ELSE codes[d]
          /\ \A d \in Clients : event'[d] = IF d = c THEN [event[c] EXCEPT !.pc = "half"]
                                                     ELSE event[d]
          /\ signal' = signal /\ fetch' = fetch
      BY <1>4, <2>2 DEF Set, Handling, Typed, Shaped
    <3>2. [n |-> event[c].batch, of |-> c] # NoBatch
      BY <2>1 DEF NoBatch
    <3>3. \A d \in Clients : codes[d] # NoBatch => codes'[d] # NoBatch
      BY <3>1, <3>2
    <3>4. \A d \in Clients : event'[d].pc = "half" => codes'[event'[d].into] # NoBatch
      <4>1. ASSUME NEW d \in Clients \ {c}, event[d].pc = "half" PROVE codes'[event[d].into] # NoBatch
        <5>1. event[d].into \in Clients
          <6>1. event[d].into \in 1..loaded
            BY <4>1 DEF Shaped, EventShape, NoEvent
          <6> QED BY <1>0, <6>1
        <5> QED BY <3>3, <4>1, <5>1 DEF Kept
      <4>2. event'[c].into = event[c].into
        BY <2>1, <3>1
      <4> QED BY <2>1, <3>1, <3>2, <4>1, <4>2
    <3>5. ASSUME NEW f \in Fetches PROVE KeptFetch(fetch[f])'
      <4>1. fetch[f].pc \in {"woken", "late"} => fetch[f].q \in Clients
        <5>1. fetch[f].pc \in {"woken", "late"} => fetch[f].q \in 1..loaded
          BY DEF Shaped, FetchShape
        <5> QED BY <1>0, <5>1
      <4> QED BY <3>1, <3>3, <4>1 DEF Kept, KeptFetch
    <3> QED BY <3>1, <3>3, <3>4, <3>5 DEF Kept
  <2>3. CASE Handling(c, "half")
    <3>1. /\ \A d \in Clients : signal'[d] = IF d = event[c].into THEN TRUE ELSE signal[d]
          /\ \A d \in Clients : event'[d] = IF d = c THEN [pc |-> "stored", batch |-> event[c].batch]
                                                     ELSE event[d]
          /\ codes' = codes /\ fetch' = fetch
      BY <1>4, <2>3 DEF Set, Handling, Typed, Shaped
    <3>2. codes[event[c].into] # NoBatch
      BY <2>3 DEF Kept, Handling
    <3>3. ASSUME NEW f \in Fetches PROVE KeptFetch(fetch[f])'
      BY <3>1 DEF Kept, KeptFetch
    <3>4. \A d \in Clients : signal'[d] => codes'[d] # NoBatch
      BY <3>1, <3>2 DEF Kept
    <3>5. \A d \in Clients : event'[d].pc = "half" => codes'[event'[d].into] # NoBatch
      BY <3>1 DEF Kept
    <3> QED BY <3>3, <3>4, <3>5 DEF Kept
  <2> QED BY <1>4, <2>2, <2>3 DEF Set
<1>5. CASE Evict \/ DeleteRow \/ OpenStream \/ UNCHANGED vars \/ \E c \in Clients : Pair(c)
  <2>1. UNCHANGED <<codes, signal, event, fetch>>
    BY <1>5 DEF Evict, DeleteRow, OpenStream, vars, Pair
  <2> QED BY <2>1 DEF Kept, KeptFetch
<1>6. ASSUME NEW f \in Fetches, Get(f) \/ GetState(f) PROVE Kept'
  <2>1. /\ \E q : Goes(f, q) /\ q.pc \in {"paired", "got", "missing", "panic", "looking"}
        /\ UNCHANGED <<codes, signal, event>>
    BY <1>6 DEF Get, GetState
  <2> QED BY <2>1, KeptOneFetch DEF KeptFetch
<1>7. ASSUME NEW f \in Fetches, Look(f) PROVE Kept'
  <2>1. fetch[f] \in [pc : {"looking", "waiting", "woken"}, q : 1..loaded, floor : 0..batches]
    BY <1>7 DEF Look, At, Shaped, FetchShape
  <2>2. \E q : Goes(f, q) /\ KeptFetch(q)
    BY <1>7, <2>1 DEF Look, Served, KeptFetch
  <2> QED BY <1>7, <2>2, KeptOneFetch DEF Look
<1>8. ASSUME NEW f \in Fetches, Wake(f) PROVE Kept'
  <2>1. /\ fetch[f] \in [pc : {"looking", "waiting", "woken"}, q : 1..loaded, floor : 0..batches]
        /\ fetch[f].q \in Clients
    <3>1. fetch[f] \in [pc : {"looking", "waiting", "woken"}, q : 1..loaded, floor : 0..batches]
      BY <1>8 DEF Wake, At, Shaped, FetchShape
    <3> QED BY <1>0, <3>1
  <2>2. \E q : Goes(f, q) /\ KeptFetch(q)
    BY <1>8, <2>1 DEF Wake, Kept, KeptFetch
  <2>3. \A c \in Clients : signal'[c] => signal[c]
    BY <1>8 DEF Wake, Typed
  <2> QED BY <1>8, <2>2, <2>3, KeptOneFetch DEF Wake
<1>9. ASSUME NEW f \in Fetches, Expire(f) PROVE Kept'
  <2>1. \E q : Goes(f, q) /\ KeptFetch(q)
    BY <1>9 DEF Expire, KeptFetch
  <2> QED BY <1>9, <2>1, KeptOneFetch DEF Expire
<1>10. ASSUME NEW f \in Fetches, LastLook(f) PROVE Kept'
  <2>1. KeptFetch(fetch[f])
    BY DEF Kept
  <2>2. \E q : Goes(f, q) /\ KeptFetch(q)
    BY <1>10, <2>1 DEF LastLook, Served, At, KeptFetch
  <2> QED BY <1>10, <2>2, KeptOneFetch DEF LastLook
<1> QED BY <1>1, <1>2, <1>3, <1>4, <1>5, <1>6, <1>7, <1>8, <1>9, <1>10 DEF Next, Answering

-----------------------------------------------------------------------------
(* Codes that are new enough.                                              *)

LEMMA FreshInit == Init => Fresh
  BY PairingAssumption DEF Init, Fresh, FreshEvent, FreshFetch, Current, NoEvent, NoBatch, Clients

LEMMA FreshOneFetch ==
  ASSUME Shaped, Fresh, NEW f \in Fetches, NEW q, Goes(f, q), FreshFetch(q),
         UNCHANGED <<codes, event, told, published>>
  PROVE  Fresh'
<1>1. \A d \in Fetches : fetch'[d] = IF d = f THEN q ELSE fetch[d]
  BY DEF Shaped, Goes
<1> QED BY <1>1 DEF Fresh, FreshEvent, FreshFetch, Current

LEMMA FreshOneEvent ==
  ASSUME Shaped, Fresh, NEW c \in Clients, NEW e, FreshEvent(c, e),
         event' = [event EXCEPT ![c] = e], UNCHANGED <<codes, fetch, told, published>>
  PROVE  Fresh'
<1>1. \A d \in Clients : event'[d] = IF d = c THEN e ELSE event[d]
  BY DEF Shaped
<1> QED BY <1>1 DEF Fresh, FreshEvent, FreshFetch, Current

LEMMA FreshStep == Typed /\ Shaped /\ Fresh /\ [Next]_vars => Fresh'
<1> SUFFICES ASSUME Typed, Shaped, Fresh, [Next]_vars PROVE Fresh'
  OBVIOUS
<1> USE DEF manager, network, state
<1>0. /\ loaded \in Nat /\ batches \in Nat
      /\ \A q \in 1..loaded : q \in Clients /\ q # 0
      /\ \A q \in Clients : told[q] \in 0..batches /\ codes[q].n \in Nat /\ codes[q].of \in 0..loaded
  <2>1. loaded \in Clients /\ batches \in 0..MaxBatches /\ MaxClients \in Nat /\ MaxBatches \in Nat
    BY PairingAssumption DEF Typed
  <2>2. loaded \in Nat /\ batches \in Nat
    BY <2>1 DEF Clients
  <2>3. \A q \in 1..loaded : q \in Clients /\ q # 0
    BY <2>1, <2>2 DEF Clients
  <2>4. \A q \in Clients : told[q] \in 0..batches /\ codes[q] \in Batch
    BY DEF Typed
  <2>5. \A b \in Batch : b.n \in Nat /\ b.of \in 0..loaded
    BY <2>2 DEF Batch
  <2> QED BY <2>2, <2>3, <2>4, <2>5
<1>1. ASSUME NEW c \in Clients, Emit(c) PROVE Fresh'
  <2>1. PICK e : e = [pc |-> "emitted", batch |-> batches + 1]
    OBVIOUS
  <2>2. e # NoEvent /\ told[c] <= e.batch
    BY <1>0, <2>1 DEF NoEvent
  <2>3. FreshEvent(c, e)
    BY <2>1, <2>2 DEF FreshEvent
  <2> QED BY <1>1, <2>1, <2>3, FreshOneEvent DEF Emit
<1>2. ASSUME NEW c \in Clients, FindState(c) PROVE Fresh'
  <2>1. PICK e : /\ event' = [event EXCEPT ![c] = e]
                 /\ e = IF published = 0 THEN [pc |-> "stored", batch |-> event[c].batch]
                        ELSE [pc |-> "found", batch |-> event[c].batch, into |-> published]
    BY <1>2 DEF FindState
  <2>2. event[c] # NoEvent /\ FreshEvent(c, event[c])
    BY <1>2 DEF FindState, Handling, NoEvent, Fresh
  <2>3. FreshEvent(c, e)
    BY <1>0, <2>1, <2>2 DEF FreshEvent, Clients
  <2> QED BY <1>2, <2>1, <2>3, FreshOneEvent DEF FindState
<1>3. ASSUME NEW c \in Clients, Set(c) PROVE Fresh'
  <2>1. /\ event[c] \in [pc : {"found", "half"}, batch : 1..batches, into : 1..loaded]
        /\ event[c] # NoEvent /\ FreshEvent(c, event[c])
    BY <1>3 DEF Set, Handling, Shaped, EventShape, NoEvent, Fresh
  <2>2. event[c].into \in Clients /\ told[c] <= event[c].batch /\ event[c].batch \in Nat
    BY <1>0, <2>1 DEF FreshEvent
  <2>3. CASE Handling(c, "found")
    <3>1. /\ \A d \in Clients : codes'[d] = IF d = event[c].into THEN [n |-> event[c].batch, of |-> c]
                                                                 ELSE codes[d]
          /\ \A d \in Clients : event'[d] = IF d = c THEN [event[c] EXCEPT !.pc = "half"]
                                                     ELSE event[d]
          /\ UNCHANGED <<told, published, fetch>>
      BY <1>3, <2>3 DEF Set, Handling, Typed, Shaped
    <3>2. ASSUME NEW d \in Clients, NEW n \in Nat, Current(d, n), d = c => n <= event[c].batch
          PROVE  codes'[d].of = d => codes'[d].n >= n
      BY <3>1, <3>2 DEF Current
    <3>3. ASSUME NEW d \in Clients, d = published PROVE codes'[d].of = d => codes'[d].n >= told[d]
      BY <1>0, <2>2, <3>2, <3>3 DEF Fresh
    <3>4. ASSUME NEW d \in Clients PROVE FreshEvent(d, event[d])'
      <4>1. CASE d = c
        <5>1. /\ event'[c] = [pc |-> "half", batch |-> event[c].batch, into |-> event[c].into]
          BY <2>1, <3>1
        <5>2. c = published => event[c].into = c
          BY <2>1, <2>3 DEF FreshEvent, Handling
        <5> QED BY <2>2, <3>1, <4>1, <5>1, <5>2 DEF FreshEvent, Current
      <4>2. CASE d # c
        <5>1. event'[d] = event[d] /\ FreshEvent(d, event[d])
          BY <3>1, <4>2 DEF Fresh
        <5>2. d = published /\ event[d].pc \in {"half", "stored"} => event[d].batch \in Nat
          BY DEF Shaped, EventShape, NoEvent
        <5> QED BY <3>1, <3>2, <4>2, <5>1, <5>2 DEF FreshEvent, Current
      <4> QED BY <4>1, <4>2
    <3>5. ASSUME NEW f \in Fetches PROVE FreshFetch(fetch[f])'
      <4>1. /\ FreshFetch(fetch[f]) /\ fetch'[f] = fetch[f]
        BY <3>1 DEF Fresh
      <4>2. fetch[f].pc \in {"looking", "waiting", "woken", "late"} =>
              fetch[f].q \in Clients /\ fetch[f].floor \in Nat
        <5>1. fetch[f].pc \in {"looking", "waiting", "woken", "late"} =>
                fetch[f].q \in 1..loaded /\ fetch[f].floor \in 0..batches
          BY DEF Shaped, FetchShape
        <5> QED BY <1>0, <5>1
      <4>3. ASSUME fetch[f].pc \in {"looking", "waiting", "woken", "late"}
            PROVE  fetch[f].floor <= told[fetch[f].q]
                   /\ (codes'[fetch[f].q].of = fetch[f].q => codes'[fetch[f].q].n >= fetch[f].floor)
        <5>1. PICK q, n : q = fetch[f].q /\ n = fetch[f].floor
          OBVIOUS
        <5>2. q \in Clients /\ n \in Nat /\ Current(q, n) /\ n <= told[q]
          BY <4>1, <4>2, <4>3, <5>1 DEF FreshFetch
        <5>3. q = c => n <= event[c].batch
          BY <1>0, <2>2, <5>2
        <5>4. codes'[q].of = q => codes'[q].n >= n
          BY <3>2, <5>2, <5>3
        <5> QED BY <5>1, <5>2, <5>4
      <4> QED BY <3>1, <4>1, <4>3 DEF FreshFetch, Current
    <3> QED BY <3>1, <3>3, <3>4, <3>5 DEF Fresh, Current
  <2>4. CASE Handling(c, "half")
    <3>1. PICK e : event' = [event EXCEPT ![c] = e] /\ e = [pc |-> "stored", batch |-> event[c].batch]
      BY <1>3, <2>4 DEF Set, Handling
    <3>2. codes' = codes /\ fetch' = fetch /\ told' = told /\ published' = published
      BY <1>3, <2>4 DEF Set, Handling
    <3>3. FreshEvent(c, e)
      BY <2>1, <2>4, <3>1 DEF FreshEvent, Handling
    <3> QED BY <3>1, <3>2, <3>3, FreshOneEvent
  <2> QED BY <1>3, <2>3, <2>4 DEF Set
<1>4. ASSUME NEW c \in Clients, Announce(c) PROVE Fresh'
  <2>1. /\ event[c] \in [pc : {"emitted", "stored"}, batch : 1..batches]
        /\ event[c] # NoEvent /\ FreshEvent(c, event[c]) /\ event[c].pc = "stored"
    BY <1>4 DEF Announce, Handling, Shaped, EventShape, NoEvent, Fresh
  <2>2. /\ \A d \in Clients : d # c => told'[d] = told[d]
        /\ told'[c] \in {told[c], event[c].batch} /\ told[c] <= told'[c]
        /\ \A d \in Clients : event'[d] = IF d = c THEN NoEvent ELSE event[d]
        /\ UNCHANGED <<codes, fetch, published>>
    BY <1>0, <1>4, <2>1 DEF Announce, Typed, Shaped, FreshEvent
  <2>3. ASSUME NEW d \in Clients, d = published PROVE codes[d].of = d => codes[d].n >= told'[d]
    BY <2>1, <2>2, <2>3 DEF Fresh, FreshEvent, Current
  <2>4. ASSUME NEW d \in Clients PROVE FreshEvent(d, event[d])'
    BY <2>2 DEF Fresh, FreshEvent, Current, NoEvent
  <2>5. ASSUME NEW f \in Fetches PROVE FreshFetch(fetch[f])'
    <3>1. /\ FreshFetch(fetch[f]) /\ fetch'[f] = fetch[f]
      BY <2>2 DEF Fresh
    <3>2. fetch[f].pc \in {"looking", "waiting", "woken", "late"} =>
            fetch[f].q \in Clients /\ fetch[f].floor \in Nat
      <4>1. fetch[f].pc \in {"looking", "waiting", "woken", "late"} =>
              fetch[f].q \in 1..loaded /\ fetch[f].floor \in 0..batches
        BY DEF Shaped, FetchShape
      <4> QED BY <1>0, <4>1
    <3>3. \A q \in Clients : told[q] <= told'[q] /\ told'[q] \in Nat
      BY <1>0, <2>1, <2>2
    <3>4. ASSUME fetch[f].pc \in {"looking", "waiting", "woken", "late"}
          PROVE  fetch[f].floor <= told'[fetch[f].q]
      BY <1>0, <3>1, <3>2, <3>3, <3>4 DEF FreshFetch
    <3> QED BY <2>2, <3>1, <3>4 DEF FreshFetch, Current
  <2> QED BY <2>2, <2>3, <2>4, <2>5 DEF Fresh, Current
<1>5. CASE Evict
  <2>1. /\ published' = 0 /\ UNCHANGED <<codes, event, fetch, told>>
        /\ \A d \in Clients : d # 0
    BY <1>5 DEF Evict, Clients
  <2> QED BY <2>1 DEF Fresh, FreshEvent, FreshFetch, Current
<1>6. CASE DeleteRow \/ OpenStream \/ UNCHANGED vars \/ \E c \in Clients : Pair(c)
  <2>1. UNCHANGED <<published, codes, event, fetch, told>>
    BY <1>6 DEF DeleteRow, OpenStream, vars, Pair
  <2> QED BY <2>1 DEF Fresh, FreshEvent, FreshFetch, Current
<1>7. ASSUME NEW f \in Fetches, Get(f) PROVE Fresh'
  <2>1. PICK q : Goes(f, q) /\ q.pc \in {"paired", "got", "missing"}
    BY <1>7 DEF Get
  <2>2. UNCHANGED <<codes, event, told>>
    BY <1>7 DEF Get
  <2>3. CASE published' = published
    BY <2>1, <2>2, <2>3, FreshOneFetch DEF FreshFetch
  <2>4. CASE published' = loaded + 1
    <3>1. \A d \in Fetches : fetch'[d] = IF d = f THEN q ELSE fetch[d]
      BY <2>1 DEF Shaped, Goes
    <3>2. ASSUME NEW d \in Clients, d = loaded + 1 PROVE event[d] = NoEvent /\ codes[d].of # d
      BY <1>0, <3>2 DEF Shaped, EventShape
    <3>3. ASSUME NEW d \in Clients PROVE FreshEvent(d, event[d])'
      BY <2>2, <2>4, <3>2 DEF Fresh, FreshEvent, NoEvent
    <3>4. ASSUME NEW d \in Fetches PROVE FreshFetch(fetch[d])'
      BY <2>1, <2>2, <3>1 DEF Fresh, FreshFetch, Current
    <3>5. ASSUME NEW d \in Clients, d = published' PROVE Current(d, told[d])'
      BY <2>2, <2>4, <3>2, <3>5 DEF Current
    <3> QED BY <3>3, <3>4, <3>5 DEF Fresh
  <2> QED BY <1>7, <2>3, <2>4 DEF Get
<1>8. ASSUME NEW f \in Fetches, GetState(f) PROVE Fresh'
  <2>1. published # 0 => published \in Clients
    BY DEF Typed
  <2>2. \E q : Goes(f, q) /\ FreshFetch(q)
    <3>1. published # 0 => Current(published, told[published]) /\ told[published] <= told[published]
      BY <1>0, <2>1 DEF Fresh
    <3> QED BY <1>8, <3>1 DEF GetState, FreshFetch
  <2> QED BY <1>8, <2>2, FreshOneFetch DEF GetState
<1>9. ASSUME NEW f \in Fetches, Look(f) \/ Wake(f) \/ Expire(f) \/ LastLook(f) PROVE Fresh'
  <2>1. /\ FreshFetch(fetch[f])
        /\ fetch[f].pc \in {"looking", "waiting", "woken", "late"}
        /\ \/ fetch[f] \in [pc : {"looking", "waiting", "woken"}, q : 1..loaded, floor : 0..batches]
           \/ fetch[f].pc = "late"
    BY <1>9 DEF Look, Wake, Expire, LastLook, At, Shaped, FetchShape, Fresh
  <2>2. \E q : Goes(f, q) /\ FreshFetch(q)
    BY <1>9, <2>1 DEF Look, Wake, Expire, LastLook, Served, At, FreshFetch, Current
  <2>3. UNCHANGED <<codes, event, told, published>>
    BY <1>9 DEF Look, Wake, Expire, LastLook
  <2> QED BY <2>2, <2>3, FreshOneFetch
<1> QED BY <1>1, <1>2, <1>3, <1>4, <1>5, <1>6, <1>7, <1>8, <1>9 DEF Next, Answering

-----------------------------------------------------------------------------
(* Batches in their order.                                                 *)

(* A batch that is not stored yet is newer than every batch of its client  *)
(* that is, in whichever QRState.                                          *)
Ahead ==
  \A q, c \in Clients :
    codes[q].of = c /\ event[c].pc \in {"emitted", "found"} => codes[q].n < event[c].batch

LEMMA AheadInit == Init => Ahead
  BY DEF Init, Ahead, NoEvent

LEMMA AheadOneEvent ==
  ASSUME Shaped, Ahead, NEW c \in Clients, NEW e, event' = [event EXCEPT ![c] = e],
         UNCHANGED codes,
         e.pc \in {"emitted", "found"} =>
           \A q \in Clients : codes[q].of = c => codes[q].n < e.batch
  PROVE  Ahead'
<1>1. \A d \in Clients : event'[d] = IF d = c THEN e ELSE event[d]
  BY DEF Shaped
<1> QED BY <1>1 DEF Ahead

LEMMA AheadStep == Typed /\ Shaped /\ Ahead /\ [Next]_vars => Ahead'
<1> SUFFICES ASSUME Typed, Shaped, Ahead, [Next]_vars PROVE Ahead'
  OBVIOUS
<1> USE DEF manager, network, state
<1>1. ASSUME NEW c \in Clients, Emit(c) PROVE Ahead'
  <2>1. PICK e : e = [pc |-> "emitted", batch |-> batches + 1]
    OBVIOUS
  <2>2. ASSUME NEW q \in Clients PROVE codes[q].n < e.batch
    <3>1. batches \in Nat
      BY PairingAssumption DEF Typed
    <3>2. codes[q].n \in 0..batches
      BY DEF Typed, Batch
    <3> QED BY <2>1, <3>1, <3>2
  <2> QED BY <1>1, <2>1, <2>2, AheadOneEvent DEF Emit
<1>2. ASSUME NEW c \in Clients, FindState(c) PROVE Ahead'
  <2>1. PICK e : /\ event' = [event EXCEPT ![c] = e]
                 /\ e = IF published = 0 THEN [pc |-> "stored", batch |-> event[c].batch]
                        ELSE [pc |-> "found", batch |-> event[c].batch, into |-> published]
    BY <1>2 DEF FindState
  <2>2. e.batch = event[c].batch
    BY <2>1
  <2>3. \A q \in Clients : codes[q].of = c => codes[q].n < e.batch
    BY <1>2, <2>2 DEF FindState, Handling, Ahead
  <2> QED BY <1>2, <2>1, <2>3, AheadOneEvent DEF FindState
<1>3. ASSUME NEW c \in Clients, Set(c) PROVE Ahead'
  <2>1. CASE Handling(c, "found")
    <3>1. /\ \A d \in Clients : codes'[d] = IF d = event[c].into THEN [n |-> event[c].batch, of |-> c]
                                                                 ELSE codes[d]
          /\ \A d \in Clients : event'[d] = IF d = c THEN [event[c] EXCEPT !.pc = "half"]
                                                     ELSE event[d]
      BY <1>3, <2>1 DEF Set, Handling, Typed, Shaped
    <3>2. event'[c].pc = "half"
      <4>1. event[c] \in [pc : {"found", "half"}, batch : 1..batches, into : 1..loaded]
        BY <2>1 DEF Handling, Shaped, EventShape, NoEvent
      <4> QED BY <3>1, <4>1
    <3>3. \A d \in Clients : codes'[d] = codes[d] \/ codes'[d].of = c
      BY <3>1
    <3> QED BY <3>1, <3>2, <3>3 DEF Ahead
  <2>2. CASE Handling(c, "half")
    <3>1. PICK e : event' = [event EXCEPT ![c] = e] /\ e = [pc |-> "stored", batch |-> event[c].batch]
      BY <1>3, <2>2 DEF Set, Handling
    <3>2. codes' = codes
      BY <1>3, <2>2 DEF Set, Handling
    <3> QED BY <3>1, <3>2, AheadOneEvent
  <2> QED BY <1>3, <2>1, <2>2 DEF Set
<1>4. ASSUME NEW c \in Clients, Announce(c) PROVE Ahead'
  BY <1>4, AheadOneEvent DEF Announce, NoEvent
<1>5. CASE UNCHANGED <<codes, event>>
  BY <1>5 DEF Ahead
<1>6. CASE \/ Evict \/ DeleteRow \/ OpenStream \/ UNCHANGED vars
           \/ \E c \in Clients : Pair(c)
           \/ \E f \in Fetches : Answering(f)
  <2>1. UNCHANGED <<codes, event>>
    BY <1>6 DEF Evict, DeleteRow, OpenStream, vars, Pair, Answering, Get, GetState, Look, Wake,
                Expire, LastLook
  <2> QED BY <1>5, <2>1
<1> QED BY <1>1, <1>2, <1>3, <1>4, <1>6 DEF Next

-----------------------------------------------------------------------------
(* The invariant, and what follows from it.                                *)

IInv == Typed /\ Shaped /\ Kept /\ Fresh

(* Together the parts are inductive.                                       *)
THEOREM InductiveInvariant == Spec => []IInv
<1>1. Init => IInv
  BY TypedInit, KeptInit, FreshInit DEF IInv
<1>2. IInv /\ [Next]_vars => IInv'
  BY TypedStep, KeptStep, FreshStep DEF IInv
<1> QED BY <1>1, <1>2, PTL DEF Spec

(* Every reachable state is typed, and every token stands for codes.       *)
THEOREM TypeCorrect == Spec => []TypeOK
<1>1. ASSUME Shaped, NEW f \in Fetches, fetch[f].pc \in {"looking", "waiting", "woken", "late"}
      PROVE  fetch[f].q \in 1..loaded
  BY <1>1 DEF Shaped, FetchShape
<1>2. IInv => TypeOK
  BY <1>1 DEF IInv, Typed, Batch, Kept, TypeOK
<1> QED BY <1>2, InductiveInvariant, PTL

(* No request fails although its client had a code by the deadline.        *)
THEOREM FailsOnlyWithoutCodeHolds == Spec => []FailsOnlyWithoutCode
<1>1. IInv => FailsOnlyWithoutCode
  BY DEF IInv, Kept, KeptFetch, At, FailsOnlyWithoutCode
<1> QED BY <1>1, InductiveInvariant, PTL

(* No answer with status 200 is empty.                                     *)
THEOREM NoEmptyAnswerHolds == Spec => []NoEmptyAnswer
<1>1. IInv => NoEmptyAnswer
  BY DEF IInv, Kept, KeptFetch, At, NoEmptyAnswer
<1> QED BY <1>1, InductiveInvariant, PTL

(* What a browser fetches is no older than what it was told of.            *)
THEOREM FreshAfterUpdateHolds == Spec => []FreshAfterUpdate
<1>1. IInv => FreshAfterUpdate
  BY DEF IInv, Fresh, FreshFetch, At, FreshAfterUpdate
<1> QED BY <1>1, InductiveInvariant, PTL

(* One step, seen from the invariants.                                     *)
LEMMA OrderStep ==
  ASSUME IInv, Ahead, [Next]_vars, NEW d \in Clients
  PROVE  /\ told'[d] >= told[d]
         /\ codes'[d].of = codes[d].of => codes'[d].n >= codes[d].n
<1> USE DEF manager, network, state
<1>1. told[d] \in Nat /\ codes[d].n \in Nat
  <2>1. batches \in Nat
    BY PairingAssumption DEF IInv, Typed
  <2>2. told[d] \in 0..batches /\ codes[d].n \in 0..batches
    BY DEF IInv, Typed, Batch
  <2> QED BY <2>1, <2>2
<1>2. CASE UNCHANGED <<told, codes>>
  BY <1>1, <1>2
<1>3. ASSUME NEW c \in Clients, Set(c)
      PROVE  /\ told'[d] >= told[d]
             /\ codes'[d].of = codes[d].of => codes'[d].n >= codes[d].n
  <2>1. CASE Handling(c, "found")
    <3>1. /\ codes'[d] = IF d = event[c].into THEN [n |-> event[c].batch, of |-> c] ELSE codes[d]
          /\ told' = told
      BY <1>3, <2>1 DEF Set, Handling, IInv, Typed
    <3>2. codes[d].of = c => codes[d].n < event[c].batch
      BY <2>1 DEF Ahead, Handling
    <3>3. event[c].batch \in Nat
      <4>1. event[c].batch \in 1..batches
        BY <2>1 DEF Handling, IInv, Shaped, EventShape, NoEvent
      <4> QED BY <4>1, PairingAssumption DEF IInv, Typed
    <3>4. CASE d = event[c].into
      <4>1. codes'[d].of = c /\ codes'[d].n = event[c].batch
        BY <3>1, <3>4
      <4> QED BY <1>1, <3>1, <3>2, <3>3, <4>1
    <3>5. CASE d # event[c].into
      BY <1>1, <3>1, <3>5
    <3> QED BY <3>4, <3>5
  <2>2. CASE Handling(c, "half")
    BY <1>2, <1>3, <2>2 DEF Set, Handling
  <2> QED BY <1>3, <2>1, <2>2 DEF Set
<1>4. ASSUME NEW c \in Clients, Announce(c)
      PROVE  /\ told'[d] >= told[d]
             /\ codes'[d].of = codes[d].of => codes'[d].n >= codes[d].n
  <2>1. event[c] # NoEvent /\ told[c] <= event[c].batch
    BY <1>4 DEF Announce, Handling, NoEvent, IInv, Fresh, FreshEvent
  <2>2. told'[d] = told[d] \/ (d = c /\ told'[d] = event[c].batch)
    BY <1>4 DEF Announce, IInv, Typed
  <2>3. codes' = codes
    BY <1>4 DEF Announce
  <2>4. event[c].batch \in Nat
    <3>1. event[c].batch \in 1..batches
      BY <1>4 DEF Announce, Handling, IInv, Shaped, EventShape, NoEvent
    <3> QED BY <3>1, PairingAssumption DEF IInv, Typed
  <2> QED BY <1>1, <2>1, <2>2, <2>3, <2>4
<1>5. CASE \/ Evict \/ DeleteRow \/ OpenStream \/ UNCHANGED vars
           \/ \E c \in Clients : Emit(c) \/ Pair(c) \/ FindState(c)
           \/ \E f \in Fetches : Answering(f)
  <2>1. UNCHANGED <<told, codes>>
    BY <1>5 DEF Evict, DeleteRow, OpenStream, vars, Emit, Pair, FindState, Answering, Get, GetState,
                Look, Wake, Expire, LastLook
  <2> QED BY <1>2, <2>1
<1> QED BY <1>3, <1>4, <1>5 DEF Next

(* No stream and no QRState ever goes back to an older batch of the client *)
(* it last spoke of.                                                       *)
THEOREM BatchesInOrderHolds == Spec => BatchesInOrder
<1>1. IInv /\ Ahead /\ [Next]_vars =>
        [\A c \in Clients :
           /\ told'[c] >= told[c]
           /\ codes'[c].of = codes[c].of => codes'[c].n >= codes[c].n]_vars
  BY OrderStep
<1>2. Init => Ahead
  BY AheadInit
<1>3. IInv /\ Ahead /\ [Next]_vars => Ahead'
  BY AheadStep DEF IInv
<1> QED BY <1>1, <1>2, <1>3, InductiveInvariant, PTL DEF Spec, BatchesInOrder
=============================================================================
