------------------------------- MODULE AuditBus -------------------------------
(***************************************************************************)
(* The audit log and its live feed: AuditLoggerImpl.Log                    *)
(* (internal/handlers/audit.go) writes a row and publishes the entry on    *)
(* the bus (internal/handlers/audit_bus.go), from which event streams      *)
(* (internal/handlers/events.go) read it.  Publish sends to one subscriber *)
(* after the other under the read lock of the bus, so several of them may  *)
(* be half way through; Subscribe and cancel need the lock for writing and *)
(* call nothing under it, so they are steps that wait for the readers.     *)
(* Subscribers are visited in any order: cancel does not keep their order. *)
(***************************************************************************)
EXTENDS Naturals, Sequences, FiniteSets

CONSTANTS
  Entries,      \* one per call of Log
  Streams,      \* requests to GET /admin/api/events
  BufferSize    \* of the channel of a subscriber

ASSUME BusAssumption == BufferSize \in Nat \ {0}

VARIABLES
  rows,         \* entries with a row in admin_actions
  subs,         \* AuditBus.subs: streams that have a channel in it
  chan, closed, \* the channel of each stream; streams whose channel is closed
  spc, epc,     \* how far each stream and each Log is
  left,         \* each Log: subscribers its loop has yet to visit
  got,          \* history: what each stream has read
  since,        \* history: entries published since each stream subscribed
  past          \* history: entries whose Log was over when that of each began
                \* to publish

vars == <<rows, subs, chan, closed, spc, epc, left, got, since, past>>

Stream(s) == got[s] \o chan[s]      \* what s reads, in this order
Reading   == {e \in Entries : epc[e] = "sending"}  \* they hold the read lock

Init ==
  /\ rows   = {}
  /\ subs   = {}
  /\ chan   = [s \in Streams |-> <<>>]
  /\ closed = {}
  /\ spc    = [s \in Streams |-> "new"]
  /\ epc    = [e \in Entries |-> "new"]
  /\ left   = [e \in Entries |-> {}]
  /\ got    = [s \in Streams |-> <<>>]
  /\ since  = [s \in Streams |-> {}]
  /\ past   = [e \in Entries |-> {}]

-----------------------------------------------------------------------------
(* Log.                                                                    *)

(* An INSERT that fails is only logged. *)
Insert(e) ==
  /\ epc[e] = "new"
  /\ rows' \in {rows, rows \cup {e}}
  /\ epc' = [epc EXCEPT ![e] = "logged"]
  /\ UNCHANGED <<subs, chan, closed, spc, left, got, since, past>>

Publish(e) ==
  /\ epc[e] = "logged"
  /\ epc' = [epc EXCEPT ![e] = "sending"]
  /\ left' = [left EXCEPT ![e] = subs]
  /\ since' = [s \in Streams |-> IF s \in subs THEN since[s] \cup {e} ELSE since[s]]
  /\ past' = [past EXCEPT ![e] = {f \in Entries : epc[f] = "published"}]
  /\ UNCHANGED <<rows, subs, chan, closed, spc, got>>

(* Seeded fault: a send without a default case. *)
SendBlocking(e, s) ==
  /\ epc[e] = "sending"
  /\ s \in left[e]
  /\ Len(chan[s]) < BufferSize
  /\ chan' = [chan EXCEPT ![s] = Append(@, e)]
  /\ left' = [left EXCEPT ![e] = @ \ {s}]
  /\ UNCHANGED <<rows, subs, closed, spc, epc, got, since, past>>

(* Seeded fault: the last place of the buffer is never used. *)
SendSparing(e, s) ==
  /\ epc[e] = "sending"
  /\ s \in left[e]
  /\ chan' = [chan EXCEPT ![s] = IF Len(@) + 1 < BufferSize THEN Append(@, e) ELSE @]
  /\ left' = [left EXCEPT ![e] = @ \ {s}]
  /\ UNCHANGED <<rows, subs, closed, spc, epc, got, since, past>>

(* Seeded fault: the buffer has no bound. *)
SendUnbounded(e, s) ==
  /\ epc[e] = "sending"
  /\ s \in left[e]
  /\ chan' = [chan EXCEPT ![s] = Append(@, e)]
  /\ left' = [left EXCEPT ![e] = @ \ {s}]
  /\ UNCHANGED <<rows, subs, closed, spc, epc, got, since, past>>

(* A full buffer loses the entry. *)
Send(e, s) ==
  /\ epc[e] = "sending"
  /\ s \in left[e]
  /\ chan' = [chan EXCEPT ![s] = IF Len(@) < BufferSize THEN Append(@, e) ELSE @]
  /\ left' = [left EXCEPT ![e] = @ \ {s}]
  /\ UNCHANGED <<rows, subs, closed, spc, epc, got, since, past>>

Return(e) ==
  /\ epc[e] = "sending"
  /\ left[e] = {}
  /\ epc' = [epc EXCEPT ![e] = "published"]
  /\ UNCHANGED <<rows, subs, chan, closed, spc, left, got, since, past>>

Publishing(e) == Publish(e) \/ Return(e) \/ \E s \in Streams : Send(e, s)
Log(e)        == Insert(e) \/ Publishing(e)

-----------------------------------------------------------------------------
(* An event stream.                                                        *)

Subscribe(s) ==
  /\ spc[s] = "new"
  /\ Reading = {}
  /\ subs' = subs \cup {s}
  /\ spc' = [spc EXCEPT ![s] = "open"]
  /\ UNCHANGED <<rows, chan, closed, epc, left, got, since, past>>

(* Seeded fault: the entry is written before it is taken off the channel. *)
ReceivePeeks(s) ==
  /\ spc[s] = "open"
  /\ chan[s] # <<>>
  /\ Len(got[s]) <= Cardinality(Entries)
  /\ got' = [got EXCEPT ![s] = Append(@, Head(chan[s]))]
  /\ UNCHANGED <<rows, subs, chan, closed, spc, epc, left, since, past>>

(* One round of the loop in EventsHandler: an entry is written. *)
Receive(s) ==
  /\ spc[s] = "open"
  /\ chan[s] # <<>>
  /\ got' = [got EXCEPT ![s] = Append(@, Head(chan[s]))]
  /\ chan' = [chan EXCEPT ![s] = Tail(@)]
  /\ UNCHANGED <<rows, subs, closed, spc, epc, left, since, past>>

(* Seeded fault: cancel does not take the lock. *)
CancelUnlocked(s) ==
  /\ spc[s] = "open"
  /\ subs' = subs \ {s}
  /\ closed' = closed \cup {s}
  /\ spc' = [spc EXCEPT ![s] = "over"]
  /\ UNCHANGED <<rows, chan, epc, left, got, since, past>>

(* The browser is gone or a write has failed, which it may at any time:    *)
(* the deferred cancel takes the channel out of the bus and closes it.     *)
Cancel(s) ==
  /\ spc[s] = "open"
  /\ Reading = {}
  /\ subs' = subs \ {s}
  /\ closed' = closed \cup {s}
  /\ spc' = [spc EXCEPT ![s] = "over"]
  /\ UNCHANGED <<rows, chan, epc, left, got, since, past>>

-----------------------------------------------------------------------------
Next ==
  \/ \E e \in Entries : Log(e)
  \/ \E s \in Streams : Subscribe(s) \/ Receive(s) \/ Cancel(s)

Spec == Init /\ [][Next]_vars

(* The scheduler runs the goroutine of a request that can go on.  Nothing  *)
(* is assumed of the streams: their readers may have stopped reading.      *)
Fairness == \A e \in Entries : WF_vars(Publishing(e))

FairSpec == Spec /\ Fairness

-----------------------------------------------------------------------------
(* Properties.                                                             *)

(* Every variable keeps to its range: no buffer holds more than BufferSize *)
(* entries.                                                                *)
TypeOK ==
  /\ rows \subseteq Entries
  /\ subs \subseteq Streams
  /\ chan \in [Streams -> Seq(Entries)]
  /\ \A s \in Streams : Len(chan[s]) <= BufferSize
  /\ closed \subseteq Streams
  /\ spc \in [Streams -> {"new", "open", "over"}]
  /\ epc \in [Entries -> {"new", "logged", "sending", "published"}]
  /\ left \in [Entries -> SUBSET Streams]
  /\ got \in [Streams -> Seq(Entries)]
  /\ since \in [Streams -> SUBSET Entries]
  /\ past \in [Entries -> SUBSET Entries]

(* No Publish is about to send on a closed channel, however many of them   *)
(* are under way when streams come and go (the lock in Subscribe's cancel  *)
(* and in Publish).                                                        *)
NoSendOnClosed == \A e \in Reading : left[e] \cap closed = {}

(* A stream sees no entry twice, and never one whose Log had returned      *)
(* before that of an entry it saw earlier began to publish.                *)
InOrderOnce ==
  \A s \in Streams : \A k, l \in 1..Len(Stream(s)) :
    k < l => /\ Stream(s)[k] # Stream(s)[l]
             /\ Stream(s)[l] \notin past[Stream(s)[k]]

(* A stream misses nothing of a burst: while no more entries than its      *)
(* buffer holds were published since it subscribed, it has read or can     *)
(* read all of them that are through (audit_bus.go:66).                    *)
BurstArrives ==
  \A s \in Streams : Cardinality(since[s]) <= BufferSize =>
    \A e \in since[s] : epc[e] = "published" =>
      \E k \in 1..Len(Stream(s)) : Stream(s)[k] = e

(* However slow the streams are, a request is never held up by its audit   *)
(* record (audit_bus.go:27).                                               *)
LogReturns == \A e \in Entries : epc[e] = "logged" ~> epc[e] = "published"

=============================================================================
