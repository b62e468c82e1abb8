----------------------------- MODULE ManagerLocks -----------------------------
(***************************************************************************)
(* The two locks under an event stream: Manager.mu, and the list lock each *)
(* whatsmeow client has for its event handlers.  AddEventHandler and the   *)
(* cancel function it returns (internal/instance/manager.go) hold the      *)
(* first while they take the second of one client after the other.         *)
(* whatsmeow holds the second for reading while it runs a handler, and the *)
(* callback of cmd/slimwhats/main.go asks the manager, which takes the     *)
(* first.  Critical sections that call nothing are single steps here; what *)
(* the data is does not matter.                                            *)
(***************************************************************************)
EXTENDS Naturals, FiniteSets

CONSTANTS
  Clients,      \* whatsmeow clients in the manager's map
  Streams,      \* requests to GET /admin/api/events
  Callbacks,    \* goroutines of whatsmeow that dispatch events
  Nobody

VARIABLES
  mu,           \* the stream that holds Manager.mu for writing, or Nobody
  hooked,       \* streams with a handler on each client
  spc, left,    \* each stream: control point, clients its loop has yet to visit
  cpc, of       \* each callback: control point, the client whose list it reads

vars == <<mu, hooked, spc, left, cpc, of>>

Init ==
  /\ mu = Nobody
  /\ hooked = [c \in Clients |-> {}]
  /\ spc = [s \in Streams |-> "new"]
  /\ left = [s \in Streams |-> {}]
  /\ cpc = [e \in Callbacks |-> "idle"]
  /\ of \in [Callbacks -> Clients]

ReadLocked(c) == \E e \in Callbacks : cpc[e] # "idle" /\ of[e] = c

(* mu.Lock() of AddEventHandler, or of the cancel function. *)
Enter(s, from, to) ==
  /\ spc[s] = from
  /\ mu = Nobody
  /\ mu' = s
  /\ spc' = [spc EXCEPT ![s] = to]
  /\ left' = [left EXCEPT ![s] = Clients]
  /\ UNCHANGED <<hooked, cpc, of>>

(* One round of either loop takes the list of that client for writing. *)
Visit(s) ==
  /\ spc[s] \in {"adding", "removing"}
  /\ \E c \in left[s] :
       /\ ~ReadLocked(c)
       /\ hooked' = [hooked EXCEPT ![c] = IF spc[s] = "adding" THEN @ \cup {s} ELSE @ \ {s}]
       /\ left' = [left EXCEPT ![s] = @ \ {c}]
  /\ UNCHANGED <<mu, spc, cpc, of>>

Leave(s) ==
  /\ spc[s] \in {"adding", "removing"}
  /\ left[s] = {}
  /\ mu' = Nobody
  /\ spc' = [spc EXCEPT ![s] = IF @ = "adding" THEN "open" ELSE "closed"]
  /\ UNCHANGED <<hooked, left, cpc, of>>

Open(s)  == Enter(s, "new", "adding")
Close(s) == Enter(s, "open", "removing")

(* dispatchEvent: RLock of the list, then the handlers. *)
Dispatch(e, c) ==
  /\ cpc[e] = "idle"
  /\ cpc' = [cpc EXCEPT ![e] = "asks"]
  /\ of' = [of EXCEPT ![e] = c]
  /\ UNCHANGED <<mu, hooked, spc, left>>

(* Get, IsExpectedDisconnect, QRState or LogoutAndReset: in and out of mu. *)
AskManager(e) ==
  /\ cpc[e] = "asks"
  /\ mu = Nobody
  /\ cpc' = [cpc EXCEPT ![e] = "asked"]
  /\ UNCHANGED <<mu, hooked, spc, left, of>>

Return(e) ==
  /\ cpc[e] = "asked"
  /\ cpc' = [cpc EXCEPT ![e] = "idle"]
  /\ UNCHANGED <<mu, hooked, spc, left, of>>

Stream(s)   == Open(s) \/ Visit(s) \/ Leave(s) \/ Close(s)
Callback(e) == AskManager(e) \/ Return(e)

Next ==
  \/ \E s \in Streams : Stream(s)
  \/ \E e \in Callbacks : Callback(e) \/ \E c \in Clients : Dispatch(e, c)

(* Every goroutine that can run does; a browser may keep its stream open   *)
(* and whatsmeow need not have an event.                                   *)
Fairness ==
  /\ \A s \in Streams : WF_vars(Visit(s)) /\ WF_vars(Leave(s))
  /\ \A e \in Callbacks : WF_vars(Callback(e))

FairSpec == Init /\ [][Next]_vars /\ Fairness

(* Stream s holds Manager.mu inside its loop, and whatsmeow reads the list *)
(* of every client it has yet to visit for a handler that waits for mu.    *)
Cycle(s) ==
  /\ s # Nobody /\ mu = s
  /\ left[s] # {}
  /\ \A c \in left[s] : \E e \in Callbacks : cpc[e] = "asks" /\ of[e] = c

(* The cycle is the one way these locks can stop: a handler that waits for *)
(* the manager waits for a lock that is free, or for a loop that can go    *)
(* on, or for a handler that can return, or it is in the cycle             *)
(* (AddEventHandler, its cancel function and dispatchEvent).               *)
OnlyCycleBlocks ==
  (\E e \in Callbacks : cpc[e] = "asks") =>
    \/ mu = Nobody
    \/ spc[mu] \in {"adding", "removing"} /\ left[mu] = {}
    \/ spc[mu] \in {"adding", "removing"} /\ \E c \in left[mu] : ~ReadLocked(c)
    \/ \E f \in Callbacks : cpc[f] = "asked"
    \/ Cycle(mu)

(* internal/instance/manager.go:562 says that a stream registers its       *)
(* handler "without disturbing the global flow" of events: whatever        *)
(* callback runs comes to its end.                                         *)
FlowUndisturbed == \A e \in Callbacks : cpc[e] = "asks" ~> cpc[e] = "idle"

=============================================================================
