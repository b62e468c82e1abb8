-------------------------- MODULE ManagerLocksProofs --------------------------
(***************************************************************************)
(* Proofs about ManagerLocks for every number of clients, streams and      *)
(* callbacks: the cycle of locks that the run FlowUndisturbed finds is for *)
(* ever once it is closed, and it is the only one.  Nobody must not be the *)
(* name of a stream, which the theorems say themselves.                    *)
(***************************************************************************)
EXTENDS ManagerLocks, TLAPS

InLoop(s) == spc[s] \in {"adding", "removing"}

(* A stream is inside its loop exactly while it holds mu. *)
LocksInv ==
  /\ mu \in Streams \cup {Nobody}
  /\ spc \in [Streams -> {"new", "adding", "open", "removing", "closed"}]
  /\ left \in [Streams -> SUBSET Clients]
  /\ cpc \in [Callbacks -> {"idle", "asks", "asked"}]
  /\ of \in [Callbacks -> Clients]
  /\ \A s \in Streams : InLoop(s) <=> mu = s

LEMMA LocksInit ==
  ASSUME Nobody \notin Streams
  PROVE  Init => LocksInv
BY DEF Init, LocksInv, InLoop

LEMMA LocksNext ==
  ASSUME Nobody \notin Streams, LocksInv, [Next]_vars
  PROVE  LocksInv'
<1> USE DEF LocksInv, InLoop
<1>1. ASSUME NEW s \in Streams, Open(s) PROVE LocksInv'
  BY <1>1 DEF Open, Enter
<1>2. ASSUME NEW s \in Streams, Close(s) PROVE LocksInv'
  BY <1>2 DEF Close, Enter
<1>3. ASSUME NEW s \in Streams, Visit(s) PROVE LocksInv'
  BY <1>3 DEF Visit
<1>4. ASSUME NEW s \in Streams, Leave(s) PROVE LocksInv'
  BY <1>4 DEF Leave
<1>5. ASSUME NEW e \in Callbacks, NEW c \in Clients, Dispatch(e, c) PROVE LocksInv'
  BY <1>5 DEF Dispatch
<1>6. ASSUME NEW e \in Callbacks, Callback(e) PROVE LocksInv'
  BY <1>6 DEF Callback, AskManager, Return
<1>7. CASE UNCHANGED vars
  BY <1>7 DEF vars
<1> QED BY <1>1, <1>2, <1>3, <1>4, <1>5, <1>6, <1>7 DEF Next, Stream

(* Whatever is not in a loop waits for mu, and the loop waits for it. *)
LEMMA CycleStep ==
  ASSUME LocksInv, [Next]_vars, NEW s \in Streams, Cycle(s)
  PROVE  /\ Cycle(s)'
         /\ \A e \in Callbacks : cpc[e] = "asks" => cpc'[e] = "asks"
<1> USE DEF LocksInv, InLoop, Cycle
<1>1. ASSUME NEW t \in Streams, Open(t) \/ Close(t) PROVE FALSE
  BY <1>1 DEF Open, Close, Enter
<1>2. ASSUME NEW t \in Streams, Visit(t) PROVE FALSE
  <2>1. t = s
    BY <1>2 DEF Visit
  <2>2. \A c \in left[s] : ReadLocked(c)
    BY DEF ReadLocked
  <2> QED BY <1>2, <2>1, <2>2 DEF Visit
<1>3. ASSUME NEW t \in Streams, Leave(t) PROVE FALSE
  BY <1>3 DEF Leave
<1>4. ASSUME NEW e \in Callbacks, NEW c \in Clients, Dispatch(e, c)
      PROVE  /\ UNCHANGED <<mu, left>>
             /\ \A f \in Callbacks : cpc[f] = "asks" => cpc'[f] = "asks" /\ of'[f] = of[f]
  BY <1>4 DEF Dispatch
<1>5. ASSUME NEW e \in Callbacks, Callback(e)
      PROVE  /\ UNCHANGED <<mu, left>>
             /\ \A f \in Callbacks : cpc[f] = "asks" => cpc'[f] = "asks" /\ of'[f] = of[f]
  BY <1>5 DEF Callback, AskManager, Return
<1>6. CASE UNCHANGED vars
  BY <1>6 DEF vars
<1>7. /\ UNCHANGED <<mu, left>>
      /\ \A f \in Callbacks : cpc[f] = "asks" => cpc'[f] = "asks" /\ of'[f] = of[f]
  BY <1>1, <1>2, <1>3, <1>4, <1>5, <1>6 DEF Next, Stream, vars
<1> QED BY <1>7

(* A stream that holds Manager.mu is inside one of the two loops, and no   *)
(* other stream is.                                                        *)
THEOREM OneLoopAtATime ==
  ASSUME Nobody \notin Streams
  PROVE  FairSpec => []LocksInv
BY LocksInit, LocksNext, PTL DEF FairSpec

(* The cycle, once closed, is never broken, and the handlers caught in it  *)
(* wait for ever: every request, event and stream that needs the manager   *)
(* waits with them.                                                        *)
THEOREM CycleIsForever ==
  ASSUME Nobody \notin Streams, NEW s \in Streams, NEW e \in Callbacks
  PROVE  FairSpec => /\ [](Cycle(s) => []Cycle(s))
                     /\ [](Cycle(s) /\ cpc[e] = "asks" => [](cpc[e] = "asks"))
<1>1. LocksInv /\ [Next]_vars /\ Cycle(s) => Cycle(s)'
  BY CycleStep
<1>2. LocksInv /\ [Next]_vars /\ Cycle(s) /\ cpc[e] = "asks" => (cpc[e] = "asks")'
  BY CycleStep
<1> QED BY <1>1, <1>2, OneLoopAtATime, PTL DEF FairSpec

(* So the flow of events, as the callback e sees it, is undisturbed only   *)
(* on the runs that never close a cycle over e.                            *)
THEOREM UndisturbedOnlyWithoutCycle ==
  ASSUME Nobody \notin Streams, NEW s \in Streams, NEW e \in Callbacks
  PROVE  FairSpec /\ (cpc[e] = "asks" ~> cpc[e] = "idle") => []~(Cycle(s) /\ cpc[e] = "asks")
<1>1. cpc[e] = "asks" => ~(cpc[e] = "idle")
  OBVIOUS
<1> QED BY <1>1, CycleIsForever, PTL

(* Nothing else stops these locks: a handler that waits for the manager    *)
(* waits for someone who can take a step, unless it is in the cycle.       *)
THEOREM OnlyCycleBlocksHolds ==
  ASSUME Nobody \notin Streams
  PROVE  FairSpec => []OnlyCycleBlocks
<1>1. LocksInv => OnlyCycleBlocks
  <2> SUFFICES ASSUME LocksInv, mu # Nobody, left[mu] # {},
                      \A c \in left[mu] : ReadLocked(c),
                      \A f \in Callbacks : cpc[f] # "asked"
               PROVE  Cycle(mu)
    BY DEF OnlyCycleBlocks, LocksInv, InLoop
  <2>1. \A c \in left[mu] : \E e \in Callbacks : cpc[e] = "asks" /\ of[e] = c
    BY DEF ReadLocked, LocksInv
  <2> QED BY <2>1 DEF Cycle
<1> QED BY <1>1, OneLoopAtATime, PTL

=============================================================================
