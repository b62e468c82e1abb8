--------------------------- MODULE InstanceManager ---------------------------
(***************************************************************************)
(* The instance manager (internal/instance/manager.go) with everything     *)
(* that calls it concurrently: the HTTP handlers (internal/handlers) and   *)
(* the event callback of cmd/slimwhats/main.go, which runs on goroutines   *)
(* of whatsmeow.                                                           *)
(*                                                                         *)
(* A handler or a callback is a thread.  What it still has to do is a      *)
(* sequence of steps, todo[t]; a step ends where another thread may run,   *)
(* that is at an unlock of Manager.mu, a statement of the database or a    *)
(* call into whatsmeow.  A call puts the steps of its callee in front, an  *)
(* early return drops what is left.  A client is a *managedClient; one     *)
(* that nothing refers to any more may serve as the next one.              *)
(***************************************************************************)
EXTENDS Naturals, Sequences

CONSTANTS
  Instances, Clients, Devices,
  Handlers,     \* one goroutine for each HTTP request that is ever made
  Asks,         \* what each of them may ask for
  Callbacks,    \* goroutines of whatsmeow in the event callback
  BootStatuses, \* what the status column may say at boot, next to "created"
  MaxIncidents, \* bound on what the network and the phone may do unasked
  NoClient, NoDevice, Deleted

VARIABLES
  row,          \* the instances row: never created, present or gone
  status, jid,  \* its columns; jid stands for jid, lid and phone
  devices,      \* rows of whatsmeow_device
  published,    \* Manager.clients
  expected,     \* managedClient.expectedDisconnect
  owner,        \* the instance the event handler of a client reports for
  dev,          \* Client.Store.ID
  subscribed,   \* Manager.eventCallback is set
  hooks,        \* event handlers that lead from a client to eventCallback
  up,           \* clients whose websocket is open
  connecting,   \* clients that a goroutine is about to call Connect on
  retrying,     \* clients in the auto-reconnect loop of whatsmeow
  events,       \* <<client, kind>>: whatsmeow is about to dispatch it
  incidents,    \* how often they did
  missed,       \* history: clients whose LoggedOut event found no handler
  todo, at, held, read   \* each thread: steps left, its instance, the client
                         \* it holds, the jid that Start has read

rows    == <<row, status, jid>>
clients == <<published, expected, owner, hooks, subscribed>>
threads == <<todo, at, held, read>>
network == <<devices, dev, up, connecting, retrying, events, missed, incidents>>
vars == <<row, status, jid, devices, published, expected, owner, dev, subscribed, hooks,
          up, connecting, retrying, events, missed, incidents,
          todo, at, held, read>>

Threads == Handlers \cup Callbacks
Kinds   == {"connected", "disconnected", "loggedOut"}

IdOf(c) == IF dev[c] = Deleted THEN NoDevice ELSE dev[c]

InUse(c) ==
  \/ \E i \in Instances : published[i] = c
  \/ \E t \in Threads : held[t] = c
  \/ \E k \in Kinds : <<c, k>> \in events
  \/ c \in up \cup connecting \cup retrying

(* IsLoggedIn may be asked of a client that is down: whatsmeow clears the  *)
(* flag on some of the ways down only.                                     *)
MayBeLoggedIn(c)  == IdOf(c) # NoDevice
MustBeLoggedIn(c) == IdOf(c) # NoDevice /\ c \in up

(* StartAll has run: a client for every row whose Start did not fail.      *)
Init ==
  /\ row \in [Instances -> {"never", "present"}]
  /\ status \in [Instances -> BootStatuses \cup {"created"}]
  /\ jid \in [Instances -> Devices \cup {NoDevice}]
  /\ \A i, j \in Instances : jid[i] = jid[j] /\ jid[i] # NoDevice => i = j
  /\ \A i \in Instances : row[i] = "never" => jid[i] = NoDevice /\ status[i] = "created"
  /\ \A i \in Instances : jid[i] # NoDevice => status[i] # "created"
  /\ devices = {jid[i] : i \in Instances} \ {NoDevice}
  /\ published \in [Instances -> Clients \cup {NoClient}]
  /\ \A i, j \in Instances : published[i] = published[j] /\ published[i] # NoClient => i = j
  /\ \A i \in Instances : row[i] = "never" => published[i] = NoClient
  /\ expected = [c \in Clients |-> FALSE]
  /\ owner = [c \in Clients |-> IF \E i \in Instances : published[i] = c
                                THEN CHOOSE i \in Instances : published[i] = c
                                ELSE CHOOSE i \in Instances : TRUE]
  /\ dev = [c \in Clients |-> IF published[owner[c]] = c THEN jid[owner[c]] ELSE NoDevice]
  /\ subscribed = FALSE
  /\ hooks = [c \in Clients |-> 0]
  /\ up = {} /\ retrying = {} /\ events = {} /\ missed = {}
  /\ incidents = 0
  /\ connecting = {c \in Clients : dev[c] # NoDevice}
  /\ todo = [t \in Threads |-> IF t \in Handlers THEN <<"request">> ELSE <<>>]
  /\ at   = [t \in Threads |-> CHOOSE i \in Instances : TRUE]
  /\ held = [t \in Threads |-> NoClient]
  /\ read = [t \in Threads |-> NoDevice]

(* Seeded fault: only the callback is stored. *)
SubscribeEventsLater ==
  /\ ~subscribed
  /\ subscribed' = TRUE
  /\ UNCHANGED <<rows, network, published, expected, owner, hooks, threads>>

(* main subscribes after StartAll, and serves HTTP after that. *)
SubscribeEvents ==
  /\ ~subscribed
  /\ subscribed' = TRUE
  /\ hooks' = [c \in Clients |-> IF \E i \in Instances : published[i] = c
                                 THEN hooks[c] + 1 ELSE hooks[c]]
  /\ UNCHANGED <<rows, network, published, expected, owner, todo, at, held, read>>

-----------------------------------------------------------------------------
(* Threads.                                                                *)

Start == <<"load", "check", "device", "publish">>

(* The form actions go on to render the page of the instance, which is a   *)
(* request of its own here.                                                *)
Plan(op) ==
  CASE op = "create"     -> <<"create">>
    [] op = "createForm" -> <<"create">> \o Start
    [] op = "status"     -> <<"lookup", "get">>
    [] op = "qr"         -> <<"get", "kick">>
    [] op = "page"       -> <<"lookup", "get", "glance", "get", "kick">>
    [] op \in {"connect", "connectForm"} -> <<"lookup", "get", "get", op>>
    [] op = "disconnect" -> <<"find", "stop", "mark">>
    [] op = "reconnect"  -> <<"lookup", "get", "find", "stop">> \o Start
    [] op = "delete"     -> <<"lookup", "get", "remove", "stop", "delete">>
    [] op = "deleteForm" -> <<"remove", "stop", "delete">>

Requests == {"create", "createForm", "status", "qr", "page", "connect", "connectForm",
             "disconnect", "reconnect", "delete", "deleteForm"}

ASSUME ManagerAssumption ==
  /\ Instances # {}
  /\ NoClient \notin Clients
  /\ {NoDevice, Deleted} \cap Devices = {}
  /\ NoDevice # Deleted
  /\ Handlers \cap Callbacks = {}
  /\ Asks \in [Handlers -> SUBSET Requests]
  /\ BootStatuses \subseteq {"pairing", "connected", "disconnected"}
  /\ MaxIncidents \in Nat

Reaction(kind) ==
  CASE kind = "connected"    -> <<"setConnected", "get", "setIdentity">>
    [] kind = "disconnected" -> <<"ask", "setDisconnected">>
    [] kind = "loggedOut"    -> <<"evict", "stop", "reset">>

(* Thread t goes on with the steps s and holds c. *)
Continue(t, s, c) ==
  /\ todo' = [todo EXCEPT ![t] = s]
  /\ held' = [held EXCEPT ![t] = IF s = <<>> THEN NoClient ELSE c]
  /\ UNCHANGED at

Doing(t, step) == todo[t] # <<>> /\ Head(todo[t]) = step
Rest(t)        == Tail(todo[t])
Beyond(t, n)   == SubSeq(todo[t], n + 1, Len(todo[t]))
Present(t)     == row[at[t]] = "present"
Current(t)     == published[at[t]]

Request(h, op, i) ==
  /\ subscribed
  /\ Doing(h, "request")
  /\ op \in Asks[h]
  /\ todo' = [todo EXCEPT ![h] = Plan(op)]
  /\ at' = [at EXCEPT ![h] = i]
  /\ UNCHANGED <<rows, clients, network, held, read>>

(* dispatchEvent: a client without handlers drops its events. *)
Dispatch(t, c, kind) ==
  /\ todo[t] = <<>>
  /\ <<c, kind>> \in events
  /\ events' = events \ {<<c, kind>>}
  /\ \/ /\ hooks[c] = 0
        /\ missed' = IF kind = "loggedOut" THEN missed \cup {c} ELSE missed
        /\ UNCHANGED <<todo, at>>
     \/ /\ hooks[c] > 0
        /\ UNCHANGED missed
        /\ todo' = [todo EXCEPT ![t] = Reaction(kind)]
        /\ at' = [at EXCEPT ![t] = owner[c]]
  /\ UNCHANGED <<rows, clients, devices, dev, up, connecting, retrying, incidents, held, read>>

-----------------------------------------------------------------------------
(* Steps of Start and Get.                                                 *)

(* A Start that fails makes the Get around it return nil. *)
Load(t) ==
  /\ Doing(t, "load")
  /\ \/ /\ Present(t)
        /\ read' = [read EXCEPT ![t] = jid[at[t]]]
        /\ Continue(t, Rest(t), held[t])
     \/ /\ Continue(t, IF Beyond(t, 4) # <<>> THEN Beyond(t, 5) ELSE <<>>, NoClient)
        /\ UNCHANGED read
  /\ UNCHANGED <<rows, clients, network>>

Check(t) ==
  /\ Doing(t, "check")
  /\ IF Current(t) # NoClient
     THEN /\ expected' = [expected EXCEPT ![Current(t)] = FALSE]
          /\ connecting' = connecting \cup {Current(t)}
          /\ read' = [read EXCEPT ![t] = NoDevice]
          /\ Continue(t, Beyond(t, 3), held[t])
     ELSE /\ Continue(t, Rest(t), held[t])
          /\ UNCHANGED <<expected, connecting, read>>
  /\ UNCHANGED <<rows, published, owner, hooks, subscribed, devices, dev, up, retrying, events, missed, incidents>>

(* NewDevice, or GetDevice of the jid read; NewClient on it. *)
Device(t) ==
  /\ Doing(t, "device")
  /\ \E c \in Clients :
       /\ ~InUse(c)
       /\ dev' = [dev EXCEPT ![c] = IF read[t] \in devices THEN read[t] ELSE NoDevice]
       /\ expected' = [expected EXCEPT ![c] = FALSE]
       /\ owner' = [owner EXCEPT ![c] = at[t]]
       /\ hooks' = [hooks EXCEPT ![c] = 0]
       /\ missed' = missed \ {c}
       /\ Continue(t, IF read[t] \in devices \cup {NoDevice}
                      THEN Rest(t) ELSE <<"clear">> \o Rest(t), c)
  /\ read' = [read EXCEPT ![t] = NoDevice]
  /\ UNCHANGED <<rows, published, subscribed, devices, up, connecting, retrying, events, incidents>>

(* UPDATE instances SET jid=NULL ..., status='pairing' *)
Forget(i) ==
  /\ status' = [status EXCEPT ![i] = IF row[i] = "present" THEN "pairing" ELSE @]
  /\ jid'    = [jid EXCEPT ![i] = IF row[i] = "present" THEN NoDevice ELSE @]
  /\ UNCHANGED row

Clear(t) ==
  /\ Doing(t, "clear")
  /\ Forget(at[t])
  /\ Continue(t, Rest(t), held[t])
  /\ UNCHANGED <<clients, network, read>>

(* The second critical section of Start, which does not look again. *)
Publish(t) ==
  /\ Doing(t, "publish")
  /\ published' = [published EXCEPT ![at[t]] = held[t]]
  /\ hooks' = [hooks EXCEPT ![held[t]] = IF subscribed THEN @ + 1 ELSE @]
  /\ connecting' = IF dev[held[t]] # NoDevice THEN connecting \cup {held[t]} ELSE connecting
  /\ Continue(t, Rest(t), NoClient)
  /\ UNCHANGED <<rows, expected, owner, subscribed, devices, dev, up, retrying, events, missed, incidents, read>>

Get(t) ==
  /\ Doing(t, "get")
  /\ IF Current(t) # NoClient
     THEN Continue(t, Rest(t), Current(t))
     ELSE Continue(t, Start \o <<"reget">> \o Rest(t), NoClient)
  /\ UNCHANGED <<rows, clients, network, read>>

Reget(t) ==
  /\ Doing(t, "reget")
  /\ Continue(t, Rest(t), Current(t))
  /\ UNCHANGED <<rows, clients, network, read>>

-----------------------------------------------------------------------------
(* Steps of the handlers.                                                  *)

Create(t) ==
  /\ Doing(t, "create")
  /\ IF row[at[t]] = "never"
     THEN /\ row' = [row EXCEPT ![at[t]] = "present"]
          /\ Continue(t, Rest(t), NoClient)
     ELSE UNCHANGED row /\ Continue(t, <<>>, NoClient)
  /\ UNCHANGED <<status, jid, clients, network, read>>

(* LookupByID reads the row first; its lazy Get is the step after. *)
Lookup(t) ==
  /\ Doing(t, "lookup")
  /\ Continue(t, IF Present(t) THEN Rest(t) ELSE <<>>, NoClient)
  /\ UNCHANGED <<rows, clients, network, read>>

(* The page asks for a QR only when its client is not logged in. *)
Glance(t) ==
  /\ Doing(t, "glance")
  /\ \/ held[t] # NoClient /\ ~MustBeLoggedIn(held[t]) /\ Continue(t, Rest(t), NoClient)
     \/ (held[t] # NoClient => MayBeLoggedIn(held[t])) /\ Continue(t, <<>>, NoClient)
  /\ UNCHANGED <<rows, clients, network, read>>

(* GetLatestQR: Connect in a goroutine, for a client that is not logged in. *)
Kick(t) ==
  /\ Doing(t, "kick")
  /\ \/ /\ held[t] # NoClient
        /\ ~MustBeLoggedIn(held[t])
        /\ connecting' = IF held[t] \in up THEN connecting ELSE connecting \cup {held[t]}
     \/ /\ held[t] # NoClient => MayBeLoggedIn(held[t])
        /\ UNCHANGED connecting
  /\ Continue(t, Rest(t), NoClient)
  /\ UNCHANGED <<rows, clients, devices, dev, up, retrying, events, missed, incidents, read>>

(* Seeded fault: no check that there is a client. *)
ForceUnchecked(t) ==
  /\ Doing(t, "force")
  /\ connecting' = connecting \cup {held[t]}
  /\ Continue(t, Rest(t), NoClient)
  /\ UNCHANGED <<rows, clients, devices, dev, up, retrying, events, missed, incidents, read>>

(* The form of an unpaired client connects it without asking. *)
ForceConnect(t) ==
  /\ Doing(t, "force")
  /\ connecting' = IF held[t] # NoClient THEN connecting \cup {held[t]} ELSE connecting
  /\ Continue(t, Rest(t), NoClient)
  /\ UNCHANGED <<rows, clients, devices, dev, up, retrying, events, missed, incidents, read>>

(* The three answers of the connect handlers: connected already, not       *)
(* paired (409, or the form's QR), and Start.                              *)
Connect(t, op) ==
  /\ Doing(t, op)
  /\ \/ /\ held[t] \in up
        /\ Continue(t, <<"sync">>, held[t])
     \/ /\ held[t] \notin up
        /\ Continue(t, IF op = "connect" THEN <<>>
                       ELSE IF held[t] = NoClient THEN <<"get", "force">> ELSE <<"force">>,
                    held[t])
     \/ /\ held[t] # NoClient /\ held[t] \notin up
        /\ MayBeLoggedIn(held[t])
        /\ Continue(t, Start, NoClient)
  /\ UNCHANGED <<rows, clients, network, read>>

SetStatus(i, s) ==
  /\ status' = [status EXCEPT ![i] = IF row[i] = "present" THEN s ELSE @]
  /\ UNCHANGED <<row, jid>>

Sync(t) ==
  /\ Doing(t, "sync")
  /\ \/ MayBeLoggedIn(held[t]) /\ SetStatus(at[t], "connected")
     \/ ~MustBeLoggedIn(held[t]) /\ SetStatus(at[t], "pairing")
  /\ Continue(t, <<>>, NoClient)
  /\ UNCHANGED <<clients, network, read>>

(* Manager.Disconnect looks the client up; ErrNotLoaded ends the request,  *)
(* but not the one of Reconnect.                                           *)
Find(t) ==
  /\ Doing(t, "find")
  /\ Continue(t, IF Current(t) # NoClient THEN Rest(t)
                 ELSE IF Beyond(t, 2) = <<"mark">> THEN <<>> ELSE Beyond(t, 2), Current(t))
  /\ UNCHANGED <<rows, clients, network, read>>

(* expectedDisconnect = true; client.Disconnect() *)
Stop(t) ==
  /\ Doing(t, "stop")
  /\ expected' = [expected EXCEPT ![held[t]] = TRUE]
  /\ up' = up \ {held[t]}
  /\ retrying' = retrying \ {held[t]}
  /\ Continue(t, Rest(t), NoClient)
  /\ UNCHANGED <<rows, published, owner, hooks, subscribed, devices, dev, connecting, events, missed, incidents, read>>

Mark(t) ==
  /\ Doing(t, "mark")
  /\ SetStatus(at[t], "disconnected")
  /\ Continue(t, Rest(t), NoClient)
  /\ UNCHANGED <<clients, network, read>>

(* Seeded fault: a client the operator has disconnected stays in the map. *)
TakeOutUnlessExpected(t) ==
  /\ published' = [published EXCEPT ![at[t]] =
                     IF @ # NoClient /\ expected[@] THEN @ ELSE NoClient]
  /\ Continue(t, IF Current(t) # NoClient THEN Rest(t) ELSE Beyond(t, 2), Current(t))

(* The client leaves the map and is stopped next, if there is one. *)
TakeOut(t) ==
  /\ published' = [published EXCEPT ![at[t]] = NoClient]
  /\ Continue(t, IF Current(t) # NoClient THEN Rest(t) ELSE Beyond(t, 2), Current(t))

Remove(t) ==
  /\ Doing(t, "remove")
  /\ TakeOut(t)
  /\ expected' = IF Current(t) # NoClient
                 THEN [expected EXCEPT ![Current(t)] = TRUE] ELSE expected
  /\ UNCHANGED <<rows, owner, hooks, subscribed, network, read>>

Delete(t) ==
  /\ Doing(t, "delete")
  /\ row' = [row EXCEPT ![at[t]] = IF @ = "present" THEN "gone" ELSE @]
  /\ Continue(t, Rest(t), NoClient)
  /\ UNCHANGED <<status, jid, clients, network, read>>

-----------------------------------------------------------------------------
(* Steps of the event callback.                                            *)

SetConnected(t) ==
  /\ Doing(t, "setConnected")
  /\ SetStatus(at[t], "connected")
  /\ Continue(t, Rest(t), NoClient)
  /\ UNCHANGED <<clients, network, read>>

SetIdentity(t) ==
  /\ Doing(t, "setIdentity")
  /\ jid' = IF Present(t) /\ held[t] # NoClient /\ IdOf(held[t]) # NoDevice
            THEN [jid EXCEPT ![at[t]] = dev[held[t]]] ELSE jid
  /\ Continue(t, Rest(t), NoClient)
  /\ UNCHANGED <<row, status, clients, network, read>>

(* IsExpectedDisconnect, of whatever client is in the map by now. *)
Ask(t) ==
  /\ Doing(t, "ask")
  /\ Continue(t, IF Current(t) # NoClient /\ expected[Current(t)] THEN <<>> ELSE Rest(t),
              NoClient)
  /\ UNCHANGED <<rows, clients, network, read>>

SetDisconnected(t) ==
  /\ Doing(t, "setDisconnected")
  /\ SetStatus(at[t], "disconnected")
  /\ Continue(t, Rest(t), NoClient)
  /\ UNCHANGED <<clients, network, read>>

(* LogoutAndReset. *)
Evict(t) ==
  /\ Doing(t, "evict")
  /\ TakeOut(t)
  /\ UNCHANGED <<rows, expected, owner, hooks, subscribed, network, read>>

Reset(t) ==
  /\ Doing(t, "reset")
  /\ Forget(at[t])
  /\ Continue(t, Rest(t), NoClient)
  /\ UNCHANGED <<clients, network, read>>

Step(t) ==
  \/ Load(t) \/ Check(t) \/ Device(t) \/ Clear(t) \/ Publish(t) \/ Get(t) \/ Reget(t)
  \/ Create(t) \/ Lookup(t) \/ Glance(t) \/ Kick(t) \/ ForceConnect(t) \/ Sync(t) \/ Find(t) \/ Stop(t) \/ Mark(t)
  \/ Connect(t, "connect") \/ Connect(t, "connectForm")
  \/ Remove(t) \/ Delete(t)
  \/ SetConnected(t) \/ SetIdentity(t) \/ Ask(t) \/ SetDisconnected(t) \/ Evict(t) \/ Reset(t)

-----------------------------------------------------------------------------
(* whatsmeow and the server behind it.                                     *)

Incident ==
  /\ incidents < MaxIncidents
  /\ incidents' = incidents + 1

(* Connect fails, or has nothing to do. *)
ConnectFails(c) ==
  /\ c \in connecting
  /\ connecting' = connecting \ {c}
  /\ UNCHANGED <<rows, clients, devices, dev, up, retrying, events, missed, incidents, threads>>

(* One websocket per device: the server closes an older one, which is no   *)
(* Disconnected event.                                                     *)
ConnectOpens(c) ==
  /\ c \in connecting \cup retrying
  /\ c \notin up /\ dev[c] \in devices \cup {NoDevice}
  /\ up' = {c} \cup {b \in up : dev[b] = NoDevice \/ dev[b] # dev[c]}
  /\ connecting' = connecting \ {c}
  /\ retrying' = retrying \ {c}
  /\ events' = IF dev[c] # NoDevice THEN events \cup {<<c, "connected">>} ELSE events
  /\ UNCHANGED <<rows, clients, devices, dev, missed, incidents, threads>>

(* The server has forgotten the device: at the handshake or in a stream.   *)
(* whatsmeow deletes the device row before it dispatches LoggedOut.        *)
LoggedOut(c) ==
  /\ IF dev[c] \in devices THEN Incident ELSE UNCHANGED incidents
  /\ c \in up \cup connecting \cup retrying
  /\ IdOf(c) # NoDevice
  /\ devices' = devices \ {dev[c]}
  /\ dev' = [dev EXCEPT ![c] = Deleted]
  /\ up' = up \ {c}
  /\ connecting' = connecting \ {c}
  /\ retrying' = retrying \ {c}
  /\ events' = events \cup {<<c, "loggedOut">>}
  /\ UNCHANGED <<rows, clients, missed, threads>>

Pair(c, d) ==
  /\ Incident
  /\ c \in up
  /\ dev[c] = NoDevice
  /\ d \notin devices
  /\ \A b \in Clients : InUse(b) => dev[b] # d
  /\ \A i \in Instances : jid[i] # d
  /\ \A t \in Threads : read[t] # d
  /\ devices' = devices \cup {d}
  /\ dev' = [dev EXCEPT ![c] = d]
  /\ events' = events \cup {<<c, "connected">>}
  /\ UNCHANGED <<rows, clients, up, connecting, retrying, missed, threads>>

RemoteClose(c) ==
  /\ Incident
  /\ c \in up
  /\ up' = up \ {c}
  /\ retrying' = IF dev[c] # NoDevice THEN retrying \cup {c} ELSE retrying
  /\ events' = events \cup {<<c, "disconnected">>}
  /\ UNCHANGED <<rows, clients, devices, dev, connecting, missed, threads>>

Network(c) ==
  \/ ConnectFails(c) \/ ConnectOpens(c) \/ LoggedOut(c) \/ RemoteClose(c)
  \/ \E d \in Devices : Pair(c, d)

-----------------------------------------------------------------------------
Next ==
  \/ SubscribeEvents
  \/ \E h \in Handlers, op \in Requests, i \in Instances : Request(h, op, i)
  \/ \E t \in Callbacks, c \in Clients, k \in Kinds : Dispatch(t, c, k)
  \/ \E t \in Threads : Step(t)
  \/ \E c \in Clients : Network(c)

Spec == Init /\ [][Next]_vars

-----------------------------------------------------------------------------
(* Properties.                                                             *)

(* Every variable keeps to its range: only clients are connected, and none *)
(* ever has two handlers that lead to the callback.                        *)
TypeOK ==
  /\ row \in [Instances -> {"never", "present", "gone"}]
  /\ status \in [Instances -> {"created", "pairing", "connected", "disconnected"}]
  /\ jid \in [Instances -> Devices \cup {NoDevice}]
  /\ devices \subseteq Devices
  /\ published \in [Instances -> Clients \cup {NoClient}]
  /\ expected \in [Clients -> BOOLEAN]
  /\ owner \in [Clients -> Instances]
  /\ dev \in [Clients -> Devices \cup {NoDevice, Deleted}]
  /\ subscribed \in BOOLEAN
  /\ incidents \in 0..MaxIncidents
  /\ missed \subseteq Clients
  /\ hooks \in [Clients -> 0..1]
  /\ up \subseteq Clients /\ connecting \subseteq Clients /\ retrying \subseteq Clients
  /\ events \subseteq Clients \X Kinds
  /\ at \in [Threads -> Instances]
  /\ held \in [Threads -> Clients \cup {NoClient}]
  /\ read \in [Threads -> Devices \cup {NoDevice}]

Handling(c) == \E t \in Callbacks : Doing(t, "evict") /\ at[t] = owner[c]

(* Once main has subscribed, whatever a client says reaches the callback   *)
(* once: clients that StartAll built, clients loaded lazily since, and     *)
(* clients that fell out of the map but still have a connection.           *)
HeardOnce ==
  subscribed => \A c \in Clients :
    (\E i \in Instances : published[i] = c) \/ c \in up => hooks[c] = 1

(* A client whose device the server has revoked stays in the map only      *)
(* until its LoggedOut event is handled: no lazy load, reconnect or racing *)
(* Start can put it back (LogoutAndReset; the zombie of main.go:192).      *)
NoZombie ==
  \A i \in Instances : published[i] # NoClient /\ dev[published[i]] = Deleted =>
    \/ <<published[i], "loggedOut">> \in events
    \/ Handling(published[i])
    \/ published[i] \in missed

(* A request or a callback for one instance never holds the client of      *)
(* another: whatever it stops, asks, connects or copies into the row is of *)
(* its own instance (the map is read again under the lock at each Get, and *)
(* clients are handed from one step to the next).                          *)
OwnClient == \A t \in Threads : held[t] # NoClient => owner[held[t]] = at[t]

(* The linked device d of a phone is known under instance i: in its row,   *)
(* on one of its clients, or as the jid that a Start for it has read.      *)
HasPhone(i, d) ==
  \/ jid[i] = d
  \/ \E c \in Clients : InUse(c) /\ owner[c] = i /\ dev[c] = d
  \/ \E t \in Threads : at[t] = i /\ read[t] = d

(* A device, once linked to an instance, turns up under no other one:      *)
(* neither the row nor a client of another instance comes to carry it, by  *)
(* no overlap of Start, LogoutAndReset and the Connected callback          *)
(* (setIdentity writes what the client in the map says).                   *)
OnePhone ==
  \A i, j \in Instances : \A d \in Devices : HasPhone(i, d) /\ HasPhone(j, d) => i = j

Settled == \A t \in Threads : todo[t] = <<>> \/ Doing(t, "request")
Quiet   == Settled /\ subscribed /\ events = {} /\ connecting = {} /\ retrying = {}

(* internal/instance/manager.go:18 says that the manager, threadsafe, owns *)
(* one client per instance: no two are connected when no request or        *)
(* callback is under way.                                                  *)
OneClient ==
  Settled => \A b, c \in up : owner[b] = owner[c] => b = c

(* internal/handlers/lifecycle.go:206 says that a delete evicts the        *)
(* instance from the manager: no client outlives its row.                  *)
NoClientWithoutRow ==
  Settled => \A i \in Instances : published[i] # NoClient => row[i] = "present"

(* cmd/slimwhats/main.go:141 says that the row has the same status as the  *)
(* client: with nothing under way, a row that says connected has a client  *)
(* that is.                                                                *)
StatusFollowsClient ==
  Quiet => \A i \in Instances : row[i] = "present" /\ status[i] = "connected" =>
    published[i] # NoClient /\ MustBeLoggedIn(published[i])

=============================================================================
