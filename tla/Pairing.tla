------------------------------- MODULE Pairing -------------------------------
(***************************************************************************)
(* How a QR code gets from whatsmeow to the page of an instance that is to *)
(* be paired: the event callback of cmd/slimwhats/main.go stores each      *)
(* batch in the QRState of the instance (internal/instance/qr.go), an open *)
(* event stream tells the browser (internal/handlers/events.go), and       *)
(* requests fetch the code or wait for it (GetLatestQR).                   *)
(*                                                                         *)
(* There is one instance.  Its clients are numbered in the order they are  *)
(* loaded; each has a QRState of its own.  A batch is a number, too.  The  *)
(* steps of Start are in InstanceManager; a load is one step here.         *)
(***************************************************************************)
EXTENDS Naturals

CONSTANTS
  Fetches,      \* requests for the code: of the API or of the page
  MaxClients,   \* bound on clients of the instance
  MaxBatches    \* bound on batches

ASSUME PairingAssumption == {MaxClients, MaxBatches} \subseteq Nat \ {0}

VARIABLES
  row,          \* the instance is in the database
  loaded,       \* clients so far
  published,    \* the client in Manager.clients, 0 if there is none
  kicked,       \* clients that Connect was called on
  paired,       \* clients that are logged in
  codes,        \* QRState.codes of each client
  signal,       \* a token is in QRState.signal
  batches,      \* batches so far
  event,        \* the QR event of each client, and how far its handlers are
  hooked,       \* the client that has a handler of the stream, 0 without a stream
  told,         \* the last batch of each client that the stream announced
  fetch         \* each request: how far it is and what it carries

manager == <<row, loaded, published, hooked, told>>
network == <<kicked, paired, batches>>
state   == <<codes, signal>>
vars == <<manager, network, state, event, fetch>>

Clients  == 1..MaxClients
NoBatch  == [n |-> 0, of |-> 0]
NoEvent  == [pc |-> "none"]

(* main has subscribed, and the instance has never been paired. *)
Init ==
  /\ row = TRUE
  /\ loaded = 1 /\ published = 1
  /\ kicked = {} /\ paired = {}
  /\ codes = [c \in Clients |-> NoBatch] /\ signal = [c \in Clients |-> FALSE]
  /\ batches = 0
  /\ event = [c \in Clients |-> NoEvent]
  /\ hooked = 0 /\ told = [c \in Clients |-> 0]
  /\ fetch = [f \in Fetches |-> [pc |-> "new"]]

-----------------------------------------------------------------------------
(* whatsmeow: a client that is not paired gets batches while its websocket *)
(* is open, perhaps even after it was evicted, since a Connect that is     *)
(* under way outlives the Disconnect.  The handlers of one event have run  *)
(* before the next is dispatched.                                          *)

Emit(c) ==
  /\ c \in kicked \ paired /\ batches < MaxBatches /\ event[c] = NoEvent
  /\ batches' = batches + 1
  /\ event' = [event EXCEPT ![c] = [pc |-> "emitted", batch |-> batches + 1]]
  /\ UNCHANGED <<manager, kicked, paired, state, fetch>>

Pair(c) ==
  /\ c \in kicked \ paired
  /\ paired' = paired \cup {c}
  /\ UNCHANGED <<manager, kicked, batches, state, event, fetch>>

-----------------------------------------------------------------------------
(* The handlers of a QR event: the callback of main first, then the        *)
(* stream, in the order in which they were added to the client.            *)

Handling(c, pc) == event[c].pc = pc

(* Manager.QRState, of the client that is published by now. *)
FindState(c) ==
  /\ Handling(c, "emitted")
  /\ event' = [event EXCEPT ![c] =
       IF published = 0 THEN [pc |-> "stored", batch |-> event[c].batch]
       ELSE [pc |-> "found", batch |-> event[c].batch, into |-> published]]
  /\ UNCHANGED <<manager, network, state, fetch>>

(* Seeded fault: the token before the codes. *)
SetBackwards(c) ==
  /\ LET q == event[c].into
     IN  \/ /\ Handling(c, "found")
            /\ signal' = [signal EXCEPT ![q] = TRUE] /\ UNCHANGED codes
            /\ event' = [event EXCEPT ![c] = [@ EXCEPT !.pc = "half"]]
         \/ /\ Handling(c, "half")
            /\ codes' = [codes EXCEPT ![q] = [n |-> event[c].batch, of |-> c]] /\ UNCHANGED signal
            /\ event' = [event EXCEPT ![c] = [pc |-> "stored", batch |-> event[c].batch]]
  /\ UNCHANGED <<manager, network, fetch>>

(* QRState.Set: the codes under the lock, then the token, if none is there *)
(* already.                                                                *)
Set(c) ==
  /\ LET q == event[c].into
     IN  \/ /\ Handling(c, "found")
            /\ codes' = [codes EXCEPT ![q] = [n |-> event[c].batch, of |-> c]] /\ UNCHANGED signal
            /\ event' = [event EXCEPT ![c] = [@ EXCEPT !.pc = "half"]]
         \/ /\ Handling(c, "half")
            /\ signal' = [signal EXCEPT ![q] = TRUE] /\ UNCHANGED codes
            /\ event' = [event EXCEPT ![c] = [pc |-> "stored", batch |-> event[c].batch]]
  /\ UNCHANGED <<manager, network, fetch>>

(* Seeded fault: the stream is told before the callback. *)
AnnounceEarly(c) ==
  /\ hooked = c /\ event[c] # NoEvent
  /\ told' = [told EXCEPT ![c] = event[c].batch]
  /\ event' = [event EXCEPT ![c] = IF Handling(c, "stored") THEN NoEvent ELSE @]
  /\ UNCHANGED <<row, loaded, published, hooked, network, state, fetch>>

(* emitEvent: qr_update, if a stream has its handler on this client. *)
Announce(c) ==
  /\ Handling(c, "stored")
  /\ told' = [told EXCEPT ![c] = IF hooked = c THEN event[c].batch ELSE @]
  /\ event' = [event EXCEPT ![c] = NoEvent]
  /\ UNCHANGED <<row, loaded, published, hooked, network, state, fetch>>

-----------------------------------------------------------------------------
(* The manager, and the stream.                                            *)

(* LogoutAndReset, or Remove before the row is deleted. *)
Evict ==
  /\ published # 0
  /\ published' = 0
  /\ UNCHANGED <<row, loaded, hooked, told, network, state, event, fetch>>

DeleteRow ==
  /\ row /\ published = 0
  /\ row' = FALSE
  /\ UNCHANGED <<loaded, published, hooked, told, network, state, event, fetch>>

(* AddEventHandler reaches the clients that are there; a new stream takes  *)
(* the place of the one before.                                            *)
OpenStream ==
  /\ hooked # published
  /\ hooked' = published
  /\ UNCHANGED <<row, loaded, published, told, network, state, event, fetch>>

-----------------------------------------------------------------------------
(* A request for the code.                                                 *)

At(f, pc) == fetch[f].pc = pc
Goes(f, rec) == fetch' = [fetch EXCEPT ![f] = rec]

(* Manager.Get loads a client if there is none. *)
Get(f) ==
  /\ At(f, "new")
  /\ \/ /\ published # 0
        /\ Goes(f, [pc |-> IF published \in paired THEN "paired" ELSE "got", client |-> published])
        /\ UNCHANGED <<loaded, published>>
     \/ /\ published = 0 /\ row /\ loaded < MaxClients
        /\ loaded' = loaded + 1 /\ published' = loaded + 1
        /\ Goes(f, [pc |-> "got", client |-> loaded + 1])
     \/ /\ published = 0 /\ ~ row
        /\ Goes(f, [pc |-> "missing"])
        /\ UNCHANGED <<loaded, published>>
  /\ UNCHANGED <<row, hooked, told, network, state, event>>

(* Manager.QRState: nil if the client has left the map since, which        *)
(* GetLatestQR does not expect.  floor is the batch that the browser knows *)
(* of.  A client that is down is kicked.                                   *)
GetState(f) ==
  /\ At(f, "got")
  /\ LET c == fetch[f].client
     IN  \/ /\ c \in paired
            /\ Goes(f, [pc |-> "paired"]) /\ UNCHANGED kicked
         \/ /\ c \notin paired /\ published = 0
            /\ Goes(f, [pc |-> "panic"])
            /\ kicked' = kicked \cup {c}
         \/ /\ c \notin paired /\ published # 0
            /\ Goes(f, [pc |-> "looking", q |-> published, floor |-> told[published]])
            /\ kicked' = kicked \cup {c}
  /\ UNCHANGED <<manager, paired, batches, state, event>>

Served(f, batch) ==
  Goes(f, [pc |-> "served", q |-> fetch[f].q, floor |-> fetch[f].floor, batch |-> batch])

(* WaitForNew without codes of before: what is there is new. *)
Look(f) ==
  /\ At(f, "looking")
  /\ LET q == fetch[f].q
     IN  IF codes[q] # NoBatch THEN Served(f, codes[q])
         ELSE Goes(f, [fetch[f] EXCEPT !.pc = "waiting"])
  /\ UNCHANGED <<manager, network, state, event>>

(* A token wakes one of those that wait. *)
Wake(f) ==
  /\ At(f, "waiting")
  /\ LET q == fetch[f].q
     IN  /\ signal[q]
         /\ signal' = [signal EXCEPT ![q] = FALSE]
         /\ Goes(f, [fetch[f] EXCEPT !.pc = "woken"])
  /\ UNCHANGED <<manager, network, codes, event>>

(* The deadline, 65 or 30 seconds after the start; had is history. *)
Expire(f) ==
  /\ At(f, "waiting")
  /\ Goes(f, [pc |-> "late", q |-> fetch[f].q, floor |-> fetch[f].floor, had |-> codes[fetch[f].q]])
  /\ UNCHANGED <<manager, network, state, event>>

(* Seeded fault: no second look at the codes. *)
LastLookSkipped(f) ==
  /\ \/ At(f, "woken") /\ Served(f, codes[fetch[f].q])
     \/ At(f, "late") /\ Goes(f, [pc |-> "failed", had |-> fetch[f].had])
  /\ UNCHANGED <<manager, network, state, event>>

(* The codes are read once more; without any, the answer is the error of   *)
(* the context, which is none before the deadline.                         *)
LastLook(f) ==
  /\ \/ At(f, "woken") /\ Served(f, codes[fetch[f].q])
     \/ /\ At(f, "late")
        /\ IF codes[fetch[f].q] # NoBatch THEN Served(f, codes[fetch[f].q])
           ELSE Goes(f, [pc |-> "failed", had |-> fetch[f].had])
  /\ UNCHANGED <<manager, network, state, event>>

Answering(f) == Get(f) \/ GetState(f) \/ Look(f) \/ Wake(f) \/ Expire(f) \/ LastLook(f)

Next ==
  \/ \E c \in Clients : \/ Emit(c) \/ Pair(c)
                        \/ FindState(c) \/ Set(c) \/ Announce(c)
  \/ Evict \/ DeleteRow \/ OpenStream
  \/ \E f \in Fetches : Answering(f)

Spec == Init /\ [][Next]_vars

(* The goroutine of a request runs, and its deadline passes; a signal is   *)
(* owed to nobody.                                                         *)
FairSpec == Spec /\ \A f \in Fetches : WF_vars(Answering(f))

-----------------------------------------------------------------------------
(* Properties.                                                             *)

(* Every variable keeps to its range, the newest client is the one in the  *)
(* map, and a token stands for codes that are there.                       *)
TypeOK ==
  /\ row \in BOOLEAN
  /\ loaded \in Clients /\ published \in {0, loaded} /\ hooked \in 0..loaded
  /\ kicked \subseteq 1..loaded /\ paired \subseteq 1..loaded
  /\ batches \in 0..MaxBatches
  /\ codes \in [Clients -> [n : 0..batches, of : 0..loaded]]
  /\ signal \in [Clients -> BOOLEAN]
  /\ told \in [Clients -> 0..batches]
  /\ \A c \in Clients : signal[c] => codes[c] # NoBatch
  /\ \A f \in Fetches : fetch[f].pc \in {"looking", "waiting", "woken", "late"} => fetch[f].q \in 1..loaded

(* A request fails only when its client had no code by the deadline: of    *)
(* two that wait, the one that the single token does not wake finds the    *)
(* codes all the same (internal/instance/qr.go:165-170).                   *)
FailsOnlyWithoutCode ==
  \A f \in Fetches : At(f, "failed") => fetch[f].had = NoBatch

(* A browser that fetches because a stream announced a batch gets this one *)
(* or a later one, unless a batch of a client that has left the map got    *)
(* in between (internal/handlers/events.go:195-198).                       *)
FreshAfterUpdate ==
  \A f \in Fetches : At(f, "served") /\ fetch[f].batch.of = fetch[f].q =>
    fetch[f].batch.n >= fetch[f].floor

(* An answer with status 200 has a code in it. *)
NoEmptyAnswer == \A f \in Fetches : At(f, "served") => fetch[f].batch # NoBatch

(* A stream announces the batches of a client in their order, and no       *)
(* QRState goes back to an older batch of the client whose codes it holds: *)
(* the handlers of a batch have run before the next one is dispatched,     *)
(* whoever is evicted, loaded or served in between (qr.go:45-56,           *)
(* internal/handlers/events.go:195-198).                                   *)
BatchesInOrder ==
  [][\A c \in Clients :
       /\ told'[c] >= told[c]
       /\ codes'[c].of = codes[c].of => codes'[c].n >= codes[c].n]_vars

(* Once there are codes for a request that waits it is served, if not by   *)
(* the token then after its deadline.                                      *)
CodeReachesPage ==
  \A f \in Fetches :
    At(f, "waiting") /\ codes[fetch[f].q] # NoBatch ~> At(f, "served")
=============================================================================
