---------------------------- MODULE AuditBusProofs ----------------------------
(***************************************************************************)
(* Proofs about AuditBus for any entries, streams and size of the buffer.  *)
(***************************************************************************)
EXTENDS AuditBus, FiniteSetTheorems, SequenceTheorems, TLAPS

(* The bus has the channels of the open streams, a Publish still has to    *)
(* visit some of these, and only a Publish under way has any to visit.     *)
BusControl ==
  /\ subs = {s \in Streams : spc[s] = "open"}
  /\ closed = {s \in Streams : spc[s] = "over"}
  /\ \A e \in Entries : left[e] # {} => epc[e] = "sending" /\ left[e] \subseteq subs

(* What a stream reads was published since it subscribed, by a Publish     *)
(* that is done with this stream; "past" names finished calls only.        *)
FeedControl ==
  /\ \A s \in Streams : \A k \in 1..Len(Stream(s)) :
       Stream(s)[k] \in since[s] /\ s \notin left[Stream(s)[k]]
  /\ \A s \in Streams : \A e \in since[s] : epc[e] \in {"sending", "published"}
  /\ \A s \in Streams, e \in Entries : s \in left[e] => e \in since[s]
  /\ \A e \in Entries : \A f \in past[e] : epc[f] = "published"

(* BurstArrives, of every entry that has passed the stream. *)
BurstPassed ==
  \A s \in Streams :
    /\ IsFiniteSet(since[s])
    /\ Cardinality(since[s]) <= BufferSize =>
         \A e \in since[s] : s \notin left[e] =>
           \E k \in 1..Len(Stream(s)) : Stream(s)[k] = e

-----------------------------------------------------------------------------
(* Type correctness.                                                       *)

(* Init and every step of Log and of the streams keep the variables to     *)
(* their ranges.                                                           *)
LEMMA TypeInit == Init => TypeOK
  BY BusAssumption DEF Init, TypeOK

LEMMA TypeStep == TypeOK /\ [Next]_vars => TypeOK'
<1> SUFFICES ASSUME TypeOK, [Next]_vars PROVE TypeOK'
  OBVIOUS
<1> USE BusAssumption DEF TypeOK
<1>1. ASSUME NEW e \in Entries, Insert(e) PROVE TypeOK'
  BY <1>1 DEF Insert
<1>2. ASSUME NEW e \in Entries, Publish(e) PROVE TypeOK'
  BY <1>2 DEF Publish
<1>3. ASSUME NEW e \in Entries, NEW s \in Streams, Send(e, s) PROVE TypeOK'
  BY <1>3 DEF Send
<1>4. ASSUME NEW e \in Entries, Return(e) PROVE TypeOK'
  BY <1>4 DEF Return
<1>5. ASSUME NEW s \in Streams, Subscribe(s) PROVE TypeOK'
  BY <1>5 DEF Subscribe
<1>6. ASSUME NEW s \in Streams, Receive(s) PROVE TypeOK'
  BY <1>6 DEF Receive
<1>7. ASSUME NEW s \in Streams, Cancel(s) PROVE TypeOK'
  BY <1>7 DEF Cancel
<1>8. CASE UNCHANGED vars
  BY <1>8 DEF vars
<1> QED BY <1>1, <1>2, <1>3, <1>4, <1>5, <1>6, <1>7, <1>8 DEF Next, Log, Publishing

(* No buffer outgrows its channel, whatever publishers and streams do. *)
THEOREM TypeCorrect == Spec => []TypeOK
  BY TypeInit, TypeStep, PTL DEF Spec

-----------------------------------------------------------------------------
(* The lock of the bus.                                                    *)

LEMMA BusInit == Init => BusControl
  BY DEF Init, BusControl

LEMMA BusStep == TypeOK /\ BusControl /\ [Next]_vars => BusControl'
<1> SUFFICES ASSUME TypeOK, BusControl, [Next]_vars PROVE BusControl'
  OBVIOUS
<1> USE DEF BusControl, TypeOK
<1>1. ASSUME NEW e \in Entries, Insert(e) PROVE BusControl'
  BY <1>1 DEF Insert
<1>2. ASSUME NEW e \in Entries, Publish(e) PROVE BusControl'
  BY <1>2 DEF Publish
<1>3. ASSUME NEW e \in Entries, NEW s \in Streams, Send(e, s) PROVE BusControl'
  BY <1>3 DEF Send
<1>4. ASSUME NEW e \in Entries, Return(e) PROVE BusControl'
  BY <1>4 DEF Return
<1>5. ASSUME NEW s \in Streams, Subscribe(s) PROVE BusControl'
  BY <1>5 DEF Subscribe, Reading
<1>6. ASSUME NEW s \in Streams, Receive(s) PROVE BusControl'
  BY <1>6 DEF Receive
<1>7. ASSUME NEW s \in Streams, Cancel(s) PROVE BusControl'
  BY <1>7 DEF Cancel, Reading
<1>8. CASE UNCHANGED vars
  BY <1>8 DEF vars
<1> QED BY <1>1, <1>2, <1>3, <1>4, <1>5, <1>6, <1>7, <1>8 DEF Next, Log, Publishing

LEMMA BusSafe == BusControl => NoSendOnClosed
  BY DEF BusControl, NoSendOnClosed, Reading

(* Streams may come and go while any number of calls of Publish are under  *)
(* way: none sends on a channel that cancel has closed.                    *)
THEOREM NoSendOnClosedHolds == Spec => []NoSendOnClosed
  BY TypeInit, TypeStep, BusInit, BusStep, BusSafe, PTL DEF Spec

-----------------------------------------------------------------------------
(* What a stream reads.                                                    *)

(* Receive only moves an entry from the channel to what has been read, and *)
(* Send appends an entry or nothing.                                       *)
LEMMA StreamIsSeq ==
  ASSUME TypeOK, NEW s \in Streams
  PROVE  Stream(s) \in Seq(Entries)
  BY DEF TypeOK, Stream

LEMMA HeadMoves ==
  ASSUME NEW S, NEW g \in Seq(S), NEW c \in Seq(S), c # <<>>
  PROVE  Append(g, Head(c)) \o Tail(c) = g \o c
<1>1. Len(c) \in Nat \ {0} /\ 1 \in 1..Len(c) /\ Len(c) \in 1..Len(c)
  BY EmptySeq
<1>2. c[1] \in S /\ Head(c) = c[1] /\ <<c[1]>> \in Seq(S)
  BY <1>1
<1>3. SubSeq(c, 1, Len(c)) = <<c[1]>> \o SubSeq(c, 1 + 1, Len(c))
  BY <1>1, SubSeqRecursiveFirst
<1>4. SubSeq(c, 1, Len(c)) = c
  BY SubSeqFull
<1>5. Tail(c) = SubSeq(c, 2, Len(c)) /\ Tail(c) \in Seq(S)
  BY TailIsSubSeq, HeadTailProperties
<1>6. c = <<c[1]>> \o Tail(c)
  BY <1>3, <1>4, <1>5
<1>7. Append(g, c[1]) = g \o <<c[1]>>
  BY <1>2, AppendIsConcat
<1>8. (g \o <<c[1]>>) \o Tail(c) = g \o (<<c[1]>> \o Tail(c))
  BY <1>2, <1>5, ConcatAssociative
<1> QED BY <1>2, <1>6, <1>7, <1>8

LEMMA AppendMoves ==
  ASSUME NEW S, NEW g \in Seq(S), NEW c \in Seq(S), NEW e \in S
  PROVE  g \o Append(c, e) = Append(g \o c, e)
<1>1. <<e>> \in Seq(S) /\ g \o c \in Seq(S)
  BY ConcatProperties
<1>2. Append(c, e) = c \o <<e>> /\ Append(g \o c, e) = (g \o c) \o <<e>>
  BY <1>1, AppendIsConcat
<1>3. (g \o c) \o <<e>> = g \o (c \o <<e>>)
  BY <1>1, ConcatAssociative
<1> QED BY <1>2, <1>3

LEMMA ConcatSecondHalf ==
  ASSUME NEW S, NEW g \in Seq(S), NEW c \in Seq(S), NEW i \in 1..Len(c)
  PROVE  Len(g) + i \in 1..Len(g \o c) /\ (g \o c)[Len(g) + i] = c[i]
<1>1. Len(g) \in Nat /\ Len(c) \in Nat
  BY LenProperties
<1>2. Len(g \o c) = Len(g) + Len(c)
  BY ConcatProperties
<1> QED BY <1>1, <1>2

LEMMA ReceiveKeepsStream ==
  ASSUME TypeOK, NEW s \in Streams, Receive(s), NEW t \in Streams
  PROVE  Stream(t)' = Stream(t)
<1>1. chan[s] \in Seq(Entries) /\ chan[s] # <<>> /\ got[s] \in Seq(Entries)
  BY DEF TypeOK, Receive
<1>2. Append(got[s], Head(chan[s])) \o Tail(chan[s]) = got[s] \o chan[s]
  BY <1>1, HeadMoves
<1>3. CASE t = s
  BY <1>2, <1>3 DEF TypeOK, Receive, Stream
<1>4. CASE t # s
  BY <1>4 DEF TypeOK, Receive, Stream
<1> QED BY <1>3, <1>4

LEMMA SendExtendsStream ==
  ASSUME TypeOK, NEW e \in Entries, NEW s \in Streams, Send(e, s), NEW t \in Streams
  PROVE  \/ Stream(t)' = Stream(t)
         \/ t = s /\ Stream(t)' = Append(Stream(t), e)
<1>1. CASE t = s /\ Len(chan[s]) < BufferSize
  <2>1. got[s] \in Seq(Entries) /\ chan[s] \in Seq(Entries)
    BY DEF TypeOK
  <2>2. got[s] \o Append(chan[s], e) = Append(got[s] \o chan[s], e)
    <3>1. \A g, c \in Seq(Entries) : g \o Append(c, e) = Append(g \o c, e)
      BY AppendMoves
    <3> QED BY <2>1, <3>1
  <2> QED BY <1>1, <2>2 DEF TypeOK, Send, Stream
<1>2. CASE ~(t = s /\ Len(chan[s]) < BufferSize)
  BY <1>2 DEF TypeOK, Send, Stream
<1> QED BY <1>1, <1>2

LEMMA FeedInit == Init => FeedControl /\ InOrderOnce
  BY DEF Init, FeedControl, InOrderOnce, Stream

LEMMA FeedStep ==
  TypeOK /\ BusControl /\ FeedControl /\ InOrderOnce /\ [Next]_vars
    => FeedControl' /\ InOrderOnce'
<1> SUFFICES ASSUME TypeOK, BusControl, FeedControl, InOrderOnce, [Next]_vars
             PROVE  FeedControl' /\ InOrderOnce'
  OBVIOUS
<1> USE DEF FeedControl, TypeOK
<1>s. \A s \in Streams : Stream(s) \in Seq(Entries)
  BY StreamIsSeq
<1>1. ASSUME NEW e \in Entries, Insert(e) PROVE FeedControl' /\ InOrderOnce'
  <2>1. \A s \in Streams : Stream(s)' = Stream(s)
    BY <1>1 DEF Insert, Stream
  <2> QED BY <1>1, <1>s, <2>1 DEF Insert, InOrderOnce
<1>2. ASSUME NEW e \in Entries, Publish(e) PROVE FeedControl' /\ InOrderOnce'
  <2>1. \A s \in Streams : Stream(s)' = Stream(s)
    BY <1>2 DEF Publish, Stream
  <2>2. \A s \in Streams : \A k \in 1..Len(Stream(s)) : Stream(s)[k] \in Entries \ {e}
    <3> SUFFICES ASSUME NEW s \in Streams, NEW k \in 1..Len(Stream(s))
                 PROVE  Stream(s)[k] \in Entries \ {e}
      OBVIOUS
    <3>1. Stream(s)[k] \in since[s]
      OBVIOUS
    <3>2. since[s] \subseteq Entries /\ e \notin since[s]
      BY <1>2 DEF Publish
    <3> QED BY <3>1, <3>2
  <2>3. FeedControl'
    <3>1. \A s \in Streams : \A k \in 1..Len(Stream(s)') :
            Stream(s)'[k] \in since'[s] /\ s \notin left'[Stream(s)'[k]]
      BY <1>2, <2>1, <2>2 DEF Publish
    <3>2. \A s \in Streams : \A f \in since'[s] : epc'[f] \in {"sending", "published"}
      BY <1>2 DEF Publish
    <3>3. \A s \in Streams, f \in Entries : s \in left'[f] => f \in since'[s]
      BY <1>2 DEF Publish
    <3>4. \A f \in Entries : \A g \in past'[f] : epc'[g] = "published"
      BY <1>2 DEF Publish
    <3> QED BY <3>1, <3>2, <3>3, <3>4
  <2>4. InOrderOnce'
    BY <1>2, <2>1, <2>2 DEF Publish, InOrderOnce
  <2> QED BY <2>3, <2>4
<1>3. ASSUME NEW e \in Entries, NEW s \in Streams, Send(e, s)
      PROVE  FeedControl' /\ InOrderOnce'
  <2>1. \A t \in Streams : \/ Stream(t)' = Stream(t)
                           \/ t = s /\ Stream(t)' = Append(Stream(t), e)
    BY <1>3, SendExtendsStream
  <2>2. \A k \in 1..Len(Stream(s)) : Stream(s)[k] \in Entries /\ Stream(s)[k] # e
    BY <1>3, <1>s DEF Send
  <2>3. \A k \in 1..Len(Stream(s)) : e \notin past[Stream(s)[k]]
    BY <1>3, <2>2 DEF Send
  <2>4. since' = since /\ past' = past /\ epc' = epc /\ epc[e] = "sending"
    BY <1>3 DEF Send
  <2>5. \A f \in Entries : left'[f] = IF f = e THEN left[f] \ {s} ELSE left[f]
    BY <1>3 DEF Send
  <2>6. FeedControl'
    <3>1. ASSUME NEW t \in Streams, NEW k \in 1..Len(Stream(t)')
          PROVE  Stream(t)'[k] \in since'[t] /\ t \notin left'[Stream(t)'[k]]
      <4>1. CASE Stream(t)' = Stream(t)
        BY <4>1, <1>s, <2>4, <2>5, ZenonT(30)
      <4>2. CASE t = s /\ Stream(t)' = Append(Stream(t), e)
        <5>1. CASE k \in 1..Len(Stream(s))
          <6>1. Stream(t)'[k] = Stream(s)[k]
            BY <4>2, <5>1, <1>s, AppendProperties
          <6>2. Stream(s)[k] \in since[s] /\ s \notin left[Stream(s)[k]]
            BY <5>1
          <6> QED BY <4>2, <5>1, <6>1, <6>2, <2>2, <2>4, <2>5
        <5>2. CASE k = Len(Stream(s)) + 1
          BY <1>3, <4>2, <5>2, <1>s, <2>4, <2>5 DEF Send
        <5> QED BY <4>2, <5>1, <5>2, <1>s
      <4> QED BY <4>1, <4>2, <2>1
    <3>2. \A t \in Streams, f \in Entries : t \in left'[f] => f \in since'[t]
      BY <2>4, <2>5, ZenonT(30)
    <3>3. \A f \in Entries : \A g \in past'[f] : epc'[g] = "published"
      BY <2>4
    <3>4. \A t \in Streams : \A f \in since'[t] : epc'[f] \in {"sending", "published"}
      BY <2>4
    <3> QED BY <3>1, <3>2, <3>3, <3>4
  <2>7. InOrderOnce'
    <3> SUFFICES ASSUME NEW t \in Streams, NEW k \in 1..Len(Stream(t)'),
                        NEW l \in 1..Len(Stream(t)'), k < l
                 PROVE  /\ Stream(t)'[k] # Stream(t)'[l]
                        /\ Stream(t)'[l] \notin past'[Stream(t)'[k]]
      BY DEF InOrderOnce
    <3>1. CASE Stream(t)' = Stream(t)
      BY <3>1, <2>4 DEF InOrderOnce
    <3>2. CASE t = s /\ Stream(t)' = Append(Stream(t), e)
      <4>1. k \in 1..Len(Stream(s)) /\ Stream(t)'[k] = Stream(s)[k]
        BY <3>2, <1>s
      <4>2. CASE l \in 1..Len(Stream(s))
        BY <3>2, <4>1, <4>2, <1>s, <2>4 DEF InOrderOnce
      <4>3. CASE l = Len(Stream(s)) + 1
        BY <3>2, <4>1, <4>3, <1>s, <2>2, <2>3, <2>4
      <4> QED BY <3>2, <4>2, <4>3, <1>s
    <3> QED BY <3>1, <3>2, <2>1
  <2> QED BY <2>6, <2>7
<1>4. ASSUME NEW e \in Entries, Return(e) PROVE FeedControl' /\ InOrderOnce'
  <2>1. \A s \in Streams : Stream(s)' = Stream(s)
    BY <1>4 DEF Return, Stream
  <2> QED BY <1>4, <1>s, <2>1 DEF Return, InOrderOnce
<1>5. ASSUME NEW s \in Streams, Subscribe(s) PROVE FeedControl' /\ InOrderOnce'
  <2>1. \A t \in Streams : Stream(t)' = Stream(t)
    BY <1>5 DEF Subscribe, Stream
  <2> QED BY <1>5, <1>s, <2>1 DEF Subscribe, InOrderOnce
<1>6. ASSUME NEW s \in Streams, Receive(s) PROVE FeedControl' /\ InOrderOnce'
  <2>1. \A t \in Streams : Stream(t)' = Stream(t)
    BY <1>6, ReceiveKeepsStream
  <2> QED BY <1>6, <1>s, <2>1 DEF Receive, InOrderOnce
<1>7. ASSUME NEW s \in Streams, Cancel(s) PROVE FeedControl' /\ InOrderOnce'
  <2>1. \A t \in Streams : Stream(t)' = Stream(t)
    BY <1>7 DEF Cancel, Stream
  <2> QED BY <1>7, <1>s, <2>1 DEF Cancel, InOrderOnce
<1>8. CASE UNCHANGED vars
  <2>1. \A t \in Streams : Stream(t)' = Stream(t)
    BY <1>8 DEF vars, Stream
  <2> QED BY <1>8, <1>s, <2>1 DEF vars, InOrderOnce
<1> QED BY <1>1, <1>2, <1>3, <1>4, <1>5, <1>6, <1>7, <1>8 DEF Next, Log, Publishing

(* A stream reads each entry once at most, and entries of calls that do    *)
(* not overlap in the order of the calls, through a buffer of any size.    *)
THEOREM InOrderOnceHolds == Spec => []InOrderOnce
  BY TypeInit, TypeStep, BusInit, BusStep, FeedInit, FeedStep, PTL DEF Spec

-----------------------------------------------------------------------------
(* Bursts.                                                                 *)

(* While a Publish has yet to visit s, a full channel of s holds as many   *)
(* other entries published since s subscribed as it has places.            *)
LEMMA FullMeansMore ==
  ASSUME TypeOK, FeedControl, InOrderOnce,
         NEW s \in Streams, NEW e \in Entries, s \in left[e],
         IsFiniteSet(since[s]), Len(chan[s]) >= BufferSize
  PROVE  Cardinality(since[s]) > BufferSize
<1> DEFINE B == 1..BufferSize
           Others == since[s] \ {e}
           place == [i \in B |-> chan[s][i]]
<1> USE BusAssumption
<1>1. /\ got[s] \in Seq(Entries) /\ chan[s] \in Seq(Entries) /\ Stream(s) \in Seq(Entries)
      /\ Len(got[s]) \in Nat /\ Len(chan[s]) \in Nat
  BY StreamIsSeq, LenProperties DEF TypeOK
<1>2. \A i \in B : /\ Len(got[s]) + i \in 1..Len(Stream(s))
                   /\ Stream(s)[Len(got[s]) + i] = chan[s][i]
  <2>1. \A i \in 1..Len(chan[s]) : /\ Len(got[s]) + i \in 1..Len(Stream(s))
                                   /\ Stream(s)[Len(got[s]) + i] = chan[s][i]
    <3>1. \A g, c \in Seq(Entries) : \A i \in 1..Len(c) :
            Len(g) + i \in 1..Len(g \o c) /\ (g \o c)[Len(g) + i] = c[i]
      BY ConcatSecondHalf
    <3> QED BY <1>1, <3>1 DEF Stream
  <2>2. B \subseteq 1..Len(chan[s])
    BY <1>1
  <2> QED BY <2>1, <2>2, Zenon
<1>3. ASSUME NEW i \in B PROVE chan[s][i] \in Others
  <2>1. PICK k \in 1..Len(Stream(s)) : Stream(s)[k] = chan[s][i]
    BY <1>2
  <2>2. chan[s][i] \in since[s] /\ s \notin left[chan[s][i]]
    BY <2>1 DEF FeedControl
  <2> QED BY <2>2
<1>4. \A i, j \in B : i < j => chan[s][i] # chan[s][j]
  <2> SUFFICES ASSUME NEW i \in B, NEW j \in B, i < j PROVE chan[s][i] # chan[s][j]
    OBVIOUS
  <2>1. Len(got[s]) + i < Len(got[s]) + j
    BY <1>1
  <2> QED BY <1>2, <2>1, ZenonT(30) DEF InOrderOnce
<1>5. place \in Injection(B, Others)
  <2>1. place \in [B -> Others]
    BY <1>3
  <2>2. \A i, j \in B : place[i] = place[j] => i = j
    BY <1>4
  <2> QED BY <2>1, <2>2 DEF Injection, IsInjective
<1>6. /\ IsFiniteSet(Others) /\ e \in since[s]
      /\ Cardinality(Others) = Cardinality(since[s]) - 1
  BY FS_RemoveElement DEF FeedControl
<1>7. Cardinality(B) <= Cardinality(Others)
  BY <1>5, <1>6, FS_Injection
<1>8. Cardinality(B) = BufferSize /\ Cardinality(since[s]) \in Nat
  BY FS_Interval, FS_CardinalityType
<1> QED BY <1>6, <1>7, <1>8

LEMMA BurstInit == Init => BurstPassed
  BY FS_EmptySet DEF Init, BurstPassed

LEMMA BurstStep ==
  TypeOK /\ BusControl /\ FeedControl /\ InOrderOnce /\ BurstPassed /\ [Next]_vars
    => BurstPassed'
<1> SUFFICES ASSUME TypeOK, BusControl, FeedControl, InOrderOnce, BurstPassed, [Next]_vars,
                    NEW t \in Streams
             PROVE  /\ IsFiniteSet(since'[t])
                    /\ Cardinality(since'[t]) <= BufferSize =>
                         \A f \in since'[t] : t \notin left'[f] =>
                           \E k \in 1..Len(Stream(t)') : Stream(t)'[k] = f
  BY DEF BurstPassed
<1> DEFINE Goal == /\ IsFiniteSet(since'[t])
                   /\ Cardinality(since'[t]) <= BufferSize =>
                        \A f \in since'[t] : t \notin left'[f] =>
                          \E k \in 1..Len(Stream(t)') : Stream(t)'[k] = f
<1>q. ASSUME since' = since, left' = left, Stream(t)' = Stream(t) PROVE Goal
  BY <1>q DEF BurstPassed
<1>1. ASSUME NEW e \in Entries, Insert(e) PROVE Goal
  BY <1>1, <1>q DEF Insert, Stream
<1>2. ASSUME NEW e \in Entries, Publish(e) PROVE Goal
  <2>1. Stream(t)' = Stream(t)
    BY <1>2 DEF Publish, Stream
  <2>2. CASE t \in subs
    <3>1. since'[t] = since[t] \cup {e} /\ t \in left'[e]
      BY <1>2, <2>2 DEF Publish, TypeOK
    <3>2. /\ IsFiniteSet(since'[t]) /\ Cardinality(since[t]) \in Nat
          /\ Cardinality(since[t]) <= Cardinality(since'[t])
      <4>1. IsFiniteSet(since[t])
        BY DEF BurstPassed
      <4>2. /\ IsFiniteSet(since'[t]) /\ Cardinality(since[t]) \in Nat
            /\ Cardinality(since'[t]) =
                 IF e \in since[t] THEN Cardinality(since[t]) ELSE Cardinality(since[t]) + 1
        BY <3>1, <4>1, FS_AddElement, FS_CardinalityType
      <4> QED BY <4>2
    <3>3. \A f \in since[t] : f # e => left'[f] = left[f]
      BY <1>2 DEF Publish, TypeOK
    <3>4. Cardinality(since'[t]) \in Nat
      BY <3>2, FS_CardinalityType
    <3> QED BY <2>1, <3>1, <3>2, <3>3, <3>4, BusAssumption DEF BurstPassed
  <2>3. CASE t \notin subs
    <3>1. since'[t] = since[t] /\ e \notin since[t]
      BY <1>2, <2>3 DEF Publish, TypeOK, FeedControl
    <3>2. \A f \in since[t] : left'[f] = left[f]
      BY <1>2, <3>1 DEF Publish, TypeOK
    <3> QED BY <2>1, <3>1, <3>2 DEF BurstPassed
  <2> QED BY <2>2, <2>3
<1>3. ASSUME NEW e \in Entries, NEW s \in Streams, Send(e, s) PROVE Goal
  <2>1. since' = since /\ s \in left[e] /\ epc' = epc
    BY <1>3 DEF Send
  <2>2. \A f \in Entries : left'[f] = IF f = e THEN left[f] \ {s} ELSE left[f]
    BY <1>3 DEF Send, TypeOK
  <2>3. since[t] \subseteq Entries /\ Stream(t) \in Seq(Entries) /\ Len(Stream(t)) \in Nat
    BY StreamIsSeq, LenProperties DEF TypeOK
  <2>4. CASE t # s
    <3>1. Stream(t)' = Stream(t) /\ \A f \in since[t] : t \in left'[f] <=> t \in left[f]
      BY <1>3, <2>2, <2>3, <2>4, SendExtendsStream
    <3> QED BY <2>1, <3>1 DEF BurstPassed
  <2>5. CASE t = s /\ Len(chan[s]) >= BufferSize
    BY <2>1, <2>5, FullMeansMore, FS_CardinalityType, BusAssumption DEF BurstPassed
  <2>6. CASE t = s /\ Len(chan[s]) < BufferSize
    <3>1. Stream(t)' = Append(Stream(t), e)
      <4>1. got[t] \in Seq(Entries) /\ chan[t] \in Seq(Entries)
        BY DEF TypeOK
      <4>2. \A g, c \in Seq(Entries) : g \o Append(c, e) = Append(g \o c, e)
        BY AppendMoves
      <4>3. got' = got /\ chan'[t] = Append(chan[t], e)
        BY <1>3, <2>6 DEF Send, TypeOK
      <4> QED BY <4>1, <4>2, <4>3 DEF Stream
    <3>2. /\ Len(Stream(t)') = Len(Stream(t)) + 1 /\ Stream(t)'[Len(Stream(t)) + 1] = e
          /\ \A k \in 1..Len(Stream(t)) : Stream(t)'[k] = Stream(t)[k]
      BY <2>3, <3>1, AppendProperties
    <3>3. Len(Stream(t)) + 1 \in 1..Len(Stream(t)')
          /\ 1..Len(Stream(t)) \subseteq 1..Len(Stream(t)')
      BY <2>3, <3>2
    <3>4. ASSUME NEW f \in since[t], t \notin left'[f], Cardinality(since[t]) <= BufferSize
          PROVE  \E k \in 1..Len(Stream(t)') : Stream(t)'[k] = f
      <4>1. CASE f = e
        BY <4>1, <3>2, <3>3
      <4>2. CASE f # e
        <5>1. t \notin left[f]
          BY <3>4, <4>2, <2>2, <2>3
        <5>2. PICK k \in 1..Len(Stream(t)) : Stream(t)[k] = f
          BY <3>4, <5>1 DEF BurstPassed
        <5> QED BY <5>2, <3>2, <3>3
      <4> QED BY <4>1, <4>2
    <3> QED BY <2>1, <3>4 DEF BurstPassed
  <2>7. Len(chan[s]) \in Nat
    BY LenProperties DEF TypeOK
  <2> QED BY <2>4, <2>5, <2>6, <2>7, BusAssumption
<1>4. ASSUME NEW e \in Entries, Return(e) PROVE Goal
  BY <1>4, <1>q DEF Return, Stream
<1>5. ASSUME NEW s \in Streams, Subscribe(s) PROVE Goal
  BY <1>5, <1>q DEF Subscribe, Stream
<1>6. ASSUME NEW s \in Streams, Receive(s) PROVE Goal
  BY <1>6, <1>q, ReceiveKeepsStream DEF Receive
<1>7. ASSUME NEW s \in Streams, Cancel(s) PROVE Goal
  BY <1>7, <1>q DEF Cancel, Stream
<1>8. CASE UNCHANGED vars
  BY <1>8, <1>q DEF vars, Stream
<1> QED BY <1>1, <1>2, <1>3, <1>4, <1>5, <1>6, <1>7, <1>8 DEF Next, Log, Publishing

LEMMA BurstPassedSuffices == TypeOK /\ BusControl /\ BurstPassed => BurstArrives
<1> SUFFICES ASSUME TypeOK, BusControl, BurstPassed, NEW s \in Streams,
                    Cardinality(since[s]) <= BufferSize, NEW e \in since[s],
                    epc[e] = "published"
             PROVE  \E k \in 1..Len(Stream(s)) : Stream(s)[k] = e
  BY DEF BurstArrives
<1>1. e \in Entries /\ left[e] = {}
  BY DEF TypeOK, BusControl
<1> QED BY <1>1 DEF BurstPassed

(* A stream with room for a burst gets all of it, whatever the number of   *)
(* concurrent publishers and other streams.                                *)
THEOREM BurstArrivesHolds == Spec => []BurstArrives
  BY TypeInit, TypeStep, BusInit, BusStep, FeedInit, FeedStep, BurstInit, BurstStep,
     BurstPassedSuffices, PTL DEF Spec

=============================================================================
