---------------------------- MODULE SessionsProofs ----------------------------
(***************************************************************************)
(* Proofs about Sessions for any ids, addresses, logins, requests, limits  *)
(* and lifetimes.                                                          *)
(***************************************************************************)
EXTENDS Sessions, FiniteSetTheorems, TLAPS

(* The failures the limiter keeps are those that were made, short of some  *)
(* that have left the window.                                              *)
LimiterControl ==
  \A ip \in Addresses :
    /\ \A f \in tried[ip] : f.at <= now
    /\ failures[ip] \subseteq tried[ip]
    /\ Recent(tried[ip]) \subseteq failures[ip]

(* For as long as MaxFailures failures stay in the window of an address,   *)
(* its lockout lasts: this holds at every later time t, not only now.      *)
LockLasts ==
  \A ip \in Addresses, t \in Nat :
    t >= now /\ Cardinality({f \in tried[ip] : f.at + Window > t}) >= MaxFailures
      => ip \in DOMAIN lockedUntil /\ lockedUntil[ip] > t

(* What a request read on its way through Validate binds it to a moment at *)
(* which its session was valid.                                            *)
ReadIsGenuine ==
  \A r \in Requests :
    /\ request[r].pc # "idle" => request[r].id \in issued \cup {NoId}
    /\ request[r].pc = "select" /\ Valid(request[r].id) => r \in genuine
    /\ request[r].pc = "check" /\ now <= request[r].read => r \in genuine

-----------------------------------------------------------------------------
(* Type correctness.                                                       *)

(* The variables keep to their ranges, step by step. *)
LEMMA TypeInit == Init => TypeOK
  BY SessionAssumption, FS_EmptySet DEF Init, TypeOK, Rows, Idle, Visit, Attempt

LEMMA TypeStep == TypeOK /\ [Next]_vars => TypeOK'
<1> SUFFICES ASSUME TypeOK, [Next]_vars PROVE TypeOK'
  OBVIOUS
<1> USE SessionAssumption DEF TypeOK, Rows, limiter
<1>1. ASSUME NEW l \in Logins, NEW ip \in Addresses, BeginLogin(l, ip) PROVE TypeOK'
  BY <1>1 DEF Drop, BeginLogin, Check, Attempt, Idle
<1>2. ASSUME NEW l \in Logins, FailLogin(l) PROVE TypeOK'
  <2>1. login[l] \in [pc : {"checked", "creating"}, ip : Addresses] /\ login[l].ip \in Addresses
    BY <1>2 DEF FailLogin, Attempt, Idle
  <2>2. Failure(login[l].ip) \in [at : Nat, no : Nat]
    BY <2>1, FS_CardinalityType DEF Failure
  <2>3. IsFiniteSet(tried[login[l].ip] \cup {Failure(login[l].ip)})
    BY <2>1, FS_AddElement
  <2> QED BY <1>2, <2>1, <2>2, <2>3 DEF Put, FailLogin, RecordFailure, Recent, Attempt, Idle
<1>3. ASSUME NEW l \in Logins, PassLogin(l) PROVE TypeOK'
  BY <1>3, FS_EmptySet DEF Drop, PassLogin, RecordSuccess, Attempt, Idle
<1>4. ASSUME NEW l \in Logins, Create(l) PROVE TypeOK'
  <2>1. login' \in [Logins -> Attempt]
    BY <1>4 DEF Create, Attempt, Idle
  <2>2. CASE UNCHANGED <<issued, expires>>
    BY <1>4, <2>1, <2>2 DEF Create
  <2>3. ASSUME NEW id \in Ids \ issued, issued' = issued \cup {id},
               expires' = Put(expires, id, now + TTL)
        PROVE  TypeOK'
    <3>1. /\ DOMAIN expires' = DOMAIN expires \cup {id}
          /\ \A x \in DOMAIN expires' : expires'[x] \in Nat
          /\ expires' = [x \in DOMAIN expires' |-> expires'[x]]
      BY <2>3 DEF Put
    <3> QED BY <1>4, <2>1, <2>3, <3>1 DEF Create
  <2> QED BY <1>4, <2>2, <2>3 DEF Create
<1>5. ASSUME NEW id \in issued, Logout(id) PROVE TypeOK'
  BY <1>5 DEF Drop, Logout, Delete
<1>6. ASSUME NEW r \in Requests, NEW id \in issued \cup {NoId}, NEW api \in BOOLEAN,
             Arrive(r, id, api)
      PROVE  TypeOK'
  BY <1>6 DEF Arrive, Visit, Idle
<1>7. ASSUME NEW r \in Requests, Select(r) PROVE TypeOK'
  <2>1. request[r] \in Visit \ {Idle}
    BY <1>7 DEF Select, Idle
  <2>2. CASE Goes(r, "refused")
    BY <1>7, <2>1, <2>2 DEF Select, Goes, Visit, Idle
  <2>3. CASE /\ request[r].id \in DOMAIN expires
             /\ request' = [request EXCEPT ![r] =
                  [@ EXCEPT !.pc = "check", !.read = expires[request[r].id]]]
    <3>1. [request[r] EXCEPT !.pc = "check", !.read = expires[request[r].id]] \in Visit
      BY <2>1, <2>3 DEF Visit
    <3> QED BY <1>7, <2>3, <3>1 DEF Select
  <2> QED BY <1>7, <2>2, <2>3 DEF Select
<1>8. ASSUME NEW r \in Requests, CheckExpiry(r) PROVE TypeOK'
  <2> DEFINE step == IF now > request[r].read THEN "expel" ELSE "refresh"
  <2>1. request[r] \in Visit \ {Idle}
    BY <1>8 DEF CheckExpiry, Idle
  <2>2. [request[r] EXCEPT !.pc = step, !.read = 0] \in Visit
    BY <2>1 DEF Visit
  <2> QED BY <1>8, <2>2 DEF CheckExpiry
<1>9. ASSUME NEW r \in Requests, Expel(r) PROVE TypeOK'
  BY <1>9 DEF Drop, Expel, Delete, Goes, Visit, Idle
<1>10. ASSUME NEW r \in Requests, Refresh(r) PROVE TypeOK'
  BY <1>10 DEF Refresh, Slide, Goes, Visit, Idle
<1>11. ASSUME NEW r \in Requests, Refuse(r) PROVE TypeOK'
  BY <1>11 DEF Refuse, Goes, Visit, Idle
<1>12. ASSUME NEW r \in Requests, Answer(r) PROVE TypeOK'
  BY <1>12 DEF Answer, Visit
<1>13. CASE Tick
  BY <1>13 DEF Tick
<1>14. CASE Restart
  BY <1>14, FS_EmptySet DEF Restart, Visit, Attempt
<1>15. CASE UNCHANGED vars
  BY <1>15 DEF vars
<1> QED BY <1>1, <1>2, <1>3, <1>4, <1>5, <1>6, <1>7, <1>8, <1>9, <1>10, <1>11, <1>12,
           <1>13, <1>14, <1>15 DEF Next

(* Every reachable state is typed. *)
THEOREM TypeCorrect == Spec => []TypeOK
  BY TypeInit, TypeStep, PTL DEF Spec

-----------------------------------------------------------------------------
(* The limiter.                                                            *)

(* Only finitely many failures are counted, and a set of them counts for   *)
(* no less than any part of it.                                            *)
LEMMA Counts ==
  ASSUME NEW S, IsFiniteSet(S), NEW T \in SUBSET S
  PROVE  /\ Cardinality(S) \in Nat /\ Cardinality(T) \in Nat
         /\ Cardinality(T) <= Cardinality(S)
  BY FS_Subset, FS_CardinalityType

LEMMA OneMore ==
  ASSUME NEW S, NEW x, IsFiniteSet(S)
  PROVE  IsFiniteSet(S \cup {x}) /\ Cardinality(S \cup {x}) <= Cardinality(S) + 1
<1>1. /\ IsFiniteSet(S \cup {x})
      /\ Cardinality(S \cup {x}) = IF x \in S THEN Cardinality(S) ELSE Cardinality(S) + 1
  BY FS_AddElement
<1>2. Cardinality(S) \in Nat
  BY FS_CardinalityType
<1> QED BY <1>1, <1>2

LEMMA LimiterInit == Init => LimiterControl /\ LockLasts
<1> SUFFICES ASSUME Init PROVE LimiterControl /\ LockLasts
  OBVIOUS
<1>1. LimiterControl
  BY DEF Init, LimiterControl, Recent
<1>2. ASSUME NEW ip \in Addresses, NEW t \in Nat
      PROVE  Cardinality({f \in tried[ip] : f.at + Window > t}) = 0
  BY FS_EmptySet DEF Init
<1> QED BY <1>1, <1>2, SessionAssumption DEF LockLasts

LEMMA ControlStep == TypeOK /\ LimiterControl /\ [Next]_vars => LimiterControl'
<1> SUFFICES ASSUME TypeOK, LimiterControl, [Next]_vars PROVE LimiterControl'
  OBVIOUS
<1> USE SessionAssumption DEF TypeOK, LimiterControl, Recent, limiter
<1>1. ASSUME NEW l \in Logins, FailLogin(l) PROVE LimiterControl'
  <2>1. login[l].ip \in Addresses
    BY <1>1 DEF FailLogin, Attempt, Idle
  <2>2. Failure(login[l].ip).at = now
    BY DEF Failure
  <2> QED BY <1>1, <2>1, <2>2 DEF FailLogin, RecordFailure
<1>2. ASSUME NEW l \in Logins, PassLogin(l) PROVE LimiterControl'
  BY <1>2 DEF PassLogin, RecordSuccess
<1>3. CASE Tick
  BY <1>3 DEF Tick
<1>4. CASE Restart
  BY <1>4 DEF Restart
<1>5. CASE UNCHANGED <<now, failures, tried>>
  BY <1>5
<1> QED BY <1>1, <1>2, <1>3, <1>4, <1>5 DEF Next, vars, BeginLogin, Create, Logout, Arrive,
       Select, CheckExpiry, Expel, Refresh, Refuse, Answer

LEMMA LastsStep ==
  TypeOK /\ LimiterControl /\ LockLasts /\ [Next]_vars => LockLasts'
<1> SUFFICES ASSUME TypeOK, LimiterControl, LockLasts, [Next]_vars,
                    NEW ip \in Addresses, NEW t \in Nat, t >= now',
                    Cardinality({f \in tried'[ip] : f.at + Window > t}) >= MaxFailures
             PROVE  ip \in DOMAIN lockedUntil' /\ lockedUntil'[ip] > t
  BY DEF LockLasts
<1> DEFINE Late(S) == {f \in S : f.at + Window > t}
<1> USE SessionAssumption DEF TypeOK, limiter
<1>0. ~ Cardinality({}) >= MaxFailures
  BY FS_EmptySet
<1>1. ASSUME NEW l \in Logins, FailLogin(l)
      PROVE  ip \in DOMAIN lockedUntil' /\ lockedUntil'[ip] > t
  <2> DEFINE a    == login[l].ip
             keep == Recent(failures[a]) \cup {Failure(a)}
  <2>1. a \in Addresses /\ Failure(a).at = now
    BY <1>1 DEF FailLogin, Attempt, Idle, Failure
  <2>2. CASE ip # a
    <3>1. tried'[ip] = tried[ip] /\ now' = now
      BY <1>1, <2>1, <2>2 DEF FailLogin, RecordFailure
    <3>2. ip \in DOMAIN lockedUntil /\ lockedUntil[ip] > t
      BY <3>1 DEF LockLasts
    <3> QED BY <1>1, <2>2, <3>2 DEF FailLogin, RecordFailure, Put
  <2>3. CASE ip = a
    <3>1. /\ tried'[ip] = tried[ip] \cup {Failure(a)} /\ now' = now
          /\ \A f \in tried'[ip] : f.at \in Nat /\ f.at <= now
      BY <1>1, <2>1, <2>3 DEF FailLogin, RecordFailure, LimiterControl, Failure
    <3>2. Late(tried'[ip]) \subseteq keep
      BY <2>1, <2>3, <3>1 DEF LimiterControl, Recent
    <3>3. IsFiniteSet(keep)
      BY <2>1, <2>3, FS_AddElement, FS_Subset, ZenonT(30) DEF Recent, LimiterControl
    <3>4. Cardinality(keep) >= MaxFailures
      BY <3>2, <3>3, Counts
    <3>5. ip \in DOMAIN lockedUntil' /\ lockedUntil'[ip] = now + Lockout
      BY <1>1, <2>3, <3>4 DEF FailLogin, RecordFailure, Put
    <3>6. Late(tried'[ip]) # {}
      BY <1>0
    <3> QED BY <3>1, <3>5, <3>6
  <2> QED BY <2>2, <2>3
<1>2. ASSUME NEW l \in Logins, PassLogin(l)
      PROVE  ip \in DOMAIN lockedUntil' /\ lockedUntil'[ip] > t
  <2>1. CASE tried'[ip] = {}
    BY <1>0, <2>1
  <2>2. CASE tried'[ip] = tried[ip] /\ ip # login[l].ip
    <3>1. ip \in DOMAIN lockedUntil /\ lockedUntil[ip] > t
      BY <1>2, <2>2 DEF LockLasts, PassLogin
    <3> QED BY <1>2, <2>2, <3>1 DEF PassLogin, RecordSuccess, Drop
  <2> QED BY <1>2, <2>1, <2>2 DEF PassLogin, RecordSuccess
<1>3. CASE Restart
  BY <1>0, <1>3 DEF Restart
<1>4. CASE Tick
  BY <1>4 DEF Tick, LockLasts
<1>5. ASSUME NEW l \in Logins, NEW a \in Addresses, BeginLogin(l, a)
      PROVE  ip \in DOMAIN lockedUntil' /\ lockedUntil'[ip] > t
  <2>1. ip \in DOMAIN lockedUntil /\ lockedUntil[ip] > t
    BY <1>5 DEF LockLasts, BeginLogin
  <2> QED BY <1>5, <2>1 DEF BeginLogin, Check, Locked, Drop
<1>6. CASE UNCHANGED <<now, lockedUntil, tried>>
  BY <1>6 DEF LockLasts
<1> QED BY <1>1, <1>2, <1>3, <1>4, <1>5, <1>6 DEF Next, vars, Create, Logout, Arrive,
       Select, CheckExpiry, Expel, Refresh, Refuse, Answer

LEMMA CauseStep ==
  TypeOK /\ LimiterControl /\ LockedWithCause /\ [Next]_vars => LockedWithCause'
<1> DEFINE Cause(S, began) == {f \in S : f.at <= began /\ f.at + Window > began}
<1> SUFFICES ASSUME TypeOK, LimiterControl, LockedWithCause, [Next]_vars,
                    NEW ip \in DOMAIN lockedUntil'
             PROVE  Cardinality(Cause(tried'[ip], lockedUntil'[ip] - Lockout)) >= MaxFailures
  BY DEF LockedWithCause
<1> USE SessionAssumption DEF TypeOK, limiter
<1>0. ASSUME ip \in DOMAIN lockedUntil, lockedUntil'[ip] = lockedUntil[ip],
             tried[ip] \subseteq tried'[ip], IsFiniteSet(tried'[ip])
      PROVE  Cardinality(Cause(tried'[ip], lockedUntil'[ip] - Lockout)) >= MaxFailures
  <2> DEFINE began == lockedUntil[ip] - Lockout
  <2>1. Cause(tried[ip], began) \subseteq Cause(tried'[ip], began)
    BY <1>0
  <2>2. IsFiniteSet(Cause(tried'[ip], began))
    BY <1>0, FS_Subset
  <2>3. Cardinality(Cause(tried[ip], began)) >= MaxFailures
    BY <1>0 DEF LockedWithCause
  <2>4. /\ Cardinality(Cause(tried'[ip], began)) \in Nat
        /\ Cardinality(Cause(tried[ip], began)) \in Nat
        /\ Cardinality(Cause(tried[ip], began)) <= Cardinality(Cause(tried'[ip], began))
    BY <2>1, <2>2, Counts
  <2> QED BY <1>0, <2>3, <2>4
<1>1. ASSUME NEW l \in Logins, FailLogin(l)
      PROVE  Cardinality(Cause(tried'[ip], lockedUntil'[ip] - Lockout)) >= MaxFailures
  <2> DEFINE a    == login[l].ip
             keep == Recent(failures[a]) \cup {Failure(a)}
  <2>1. a \in Addresses /\ Failure(a).at = now
    BY <1>1 DEF FailLogin, Attempt, Idle, Failure
  <2>2. CASE ip = a /\ Cardinality(keep) >= MaxFailures
    <3>1. lockedUntil'[ip] = now + Lockout /\ tried'[ip] = tried[ip] \cup {Failure(a)}
      BY <1>1, <2>1, <2>2 DEF FailLogin, RecordFailure, Put
    <3>2. Cause(tried'[ip], now) = keep
      BY <2>1, <2>2, <3>1 DEF LimiterControl, Recent
    <3>3. lockedUntil'[ip] - Lockout = now
      BY <3>1
    <3> QED BY <2>2, <3>2, <3>3
  <2>3. CASE ~ (ip = a /\ Cardinality(keep) >= MaxFailures)
    <3>1. ip \in DOMAIN lockedUntil /\ lockedUntil'[ip] = lockedUntil[ip]
      BY <1>1, <2>3 DEF FailLogin, RecordFailure, Put
    <3>2. tried[ip] \subseteq tried'[ip] /\ IsFiniteSet(tried'[ip])
      BY <1>1, <2>1, <3>1, FS_AddElement DEF FailLogin, RecordFailure
    <3> QED BY <1>0, <3>1, <3>2
  <2> QED BY <2>2, <2>3
<1>2. ASSUME NEW l \in Logins, PassLogin(l)
      PROVE  Cardinality(Cause(tried'[ip], lockedUntil'[ip] - Lockout)) >= MaxFailures
  <2>1. ip # login[l].ip /\ ip \in DOMAIN lockedUntil /\ lockedUntil'[ip] = lockedUntil[ip]
    BY <1>2 DEF PassLogin, RecordSuccess, Drop
  <2> QED BY <1>0, <1>2, <2>1 DEF PassLogin, RecordSuccess
<1>3. CASE Restart
  BY <1>3 DEF Restart
<1>4. ASSUME NEW l \in Logins, NEW a \in Addresses, BeginLogin(l, a)
      PROVE  Cardinality(Cause(tried'[ip], lockedUntil'[ip] - Lockout)) >= MaxFailures
  <2>1. ip \in DOMAIN lockedUntil /\ lockedUntil'[ip] = lockedUntil[ip]
    BY <1>4 DEF BeginLogin, Check, Drop
  <2> QED BY <1>0, <1>4, <2>1 DEF BeginLogin
<1>5. CASE UNCHANGED <<lockedUntil, tried>>
  BY <1>0, <1>5
<1> QED BY <1>1, <1>2, <1>3, <1>4, <1>5 DEF Next, vars, Create, Logout, Arrive,
       Select, CheckExpiry, Expel, Refresh, Refuse, Answer, Tick

(* An address is locked out only for MaxFailures failures within one       *)
(* Window, for any limits and any number of concurrent logins.             *)
THEOREM LockedWithCauseHolds == Spec => []LockedWithCause
<1>1. Init => LockedWithCause
  BY DEF Init, LockedWithCause
<1> QED BY <1>1, TypeInit, TypeStep, LimiterInit, ControlStep, CauseStep, PTL DEF Spec

(* No attempt gets past a limiter that has MaxFailures failures to count,  *)
(* for any limits with a lockout that outlasts the window.                 *)
THEOREM WithinLimitHolds == Spec => WithinLimit
<1>1. ASSUME TypeOK, LimiterControl, LockLasts, [Next]_vars
      PROVE  [\A l \in Logins : login[l].pc = "idle" /\ login'[l].pc = "checked"
                => Counted(login'[l].ip) < MaxFailures]_vars
  <2> SUFFICES ASSUME NEW l \in Logins, login[l].pc = "idle", login'[l].pc = "checked"
               PROVE  Counted(login'[l].ip) < MaxFailures
    OBVIOUS
  <2> USE SessionAssumption DEF TypeOK, limiter
  <2>1. PICK ip \in Addresses : BeginLogin(l, ip)
    <3>1. ASSUME NEW k \in Logins, FailLogin(k) \/ PassLogin(k) \/ Create(k) PROVE FALSE
      BY <1>1, <3>1 DEF FailLogin, PassLogin, Create, Idle
    <3>2. ASSUME NEW k \in Logins, NEW a \in Addresses, BeginLogin(k, a) PROVE k = l
      BY <1>1, <3>2 DEF BeginLogin, Idle
    <3>3. login' # login
      OBVIOUS
    <3>4. ~ Restart
      BY DEF Restart, Idle
    <3> QED BY <1>1, <3>1, <3>2, <3>3, <3>4 DEF Next, vars, Logout, Arrive, Select,
           CheckExpiry, Expel, Refresh, Refuse, Answer, Tick
  <2>2. login'[l].ip = ip /\ ~ Locked(ip)
    BY <1>1, <2>1 DEF BeginLogin, Idle
  <2>3. ~ Cardinality(Recent(tried[ip])) >= MaxFailures
    BY <1>1, <2>2 DEF LockLasts, Locked, Recent
  <2>4. Cardinality(Recent(tried[ip])) \in Nat
    BY <1>1, Counts DEF Recent
  <2> QED BY <2>2, <2>3, <2>4 DEF Counted
<1> QED BY <1>1, TypeInit, TypeStep, LimiterInit, ControlStep, LastsStep, PTL
       DEF Spec, WithinLimit

-----------------------------------------------------------------------------
(* Logins that race.                                                       *)

(* Logins of ip that are past the check and have not failed yet. *)
Passed(ip) == {l \in Logins : login[l].pc = "checked" /\ login[l].ip = ip}

(* Each of them may add a failure, and there is room for it. *)
RoomControl ==
  \A ip \in Addresses :
    Counted(ip) + Cardinality(Passed(ip)) < MaxFailures + Cardinality(Logins)

LEMMA Sizes ==
  ASSUME TypeOK, NEW ip \in Addresses
  PROVE  /\ IsFiniteSet(Recent(tried[ip])) /\ Counted(ip) \in Nat
         /\ IsFiniteSet(Passed(ip)) /\ Cardinality(Passed(ip)) \in Nat
         /\ Cardinality(Logins) \in Nat /\ Cardinality(Passed(ip)) <= Cardinality(Logins)
<1>1. IsFiniteSet(tried[ip]) /\ Recent(tried[ip]) \subseteq tried[ip]
  BY DEF TypeOK, Recent
<1>2. IsFiniteSet(Recent(tried[ip])) /\ Counted(ip) \in Nat
  BY <1>1, FS_Subset, FS_CardinalityType DEF Counted
<1>3. Passed(ip) \subseteq Logins
  BY DEF Passed
<1>4. IsFiniteSet(Passed(ip))
  BY <1>3, LoginsAssumption, FS_Subset
<1> QED BY <1>2, <1>3, <1>4, LoginsAssumption, Counts

LEMMA RoomInit == Init => RoomControl
<1> SUFFICES ASSUME Init, NEW ip \in Addresses
             PROVE  Counted(ip) + Cardinality(Passed(ip)) < MaxFailures + Cardinality(Logins)
  BY DEF RoomControl
<1>1. Recent(tried[ip]) = {} /\ Passed(ip) = {}
  BY DEF Init, Recent, Passed, Idle
<1>2. Counted(ip) = 0 /\ Cardinality(Passed(ip)) = 0
  BY <1>1, FS_EmptySet DEF Counted
<1>3. Cardinality(Logins) \in Nat /\ MaxFailures \in Nat \ {0}
  BY LoginsAssumption, FS_CardinalityType, SessionAssumption
<1> QED BY <1>2, <1>3

(* Failures that leave the window and logins that leave the check only     *)
(* make room.                                                              *)
LEMMA RoomGrows ==
  ASSUME TypeOK, TypeOK', RoomControl, NEW ip \in Addresses,
         Recent(tried[ip])' \subseteq Recent(tried[ip]), Passed(ip)' \subseteq Passed(ip)
  PROVE  Counted(ip)' + Cardinality(Passed(ip))' < MaxFailures + Cardinality(Logins)
<1>1. Counted(ip)' \in Nat /\ Counted(ip)' <= Counted(ip)
  BY Sizes, Counts DEF Counted
<1>2. Cardinality(Passed(ip))' \in Nat /\ Cardinality(Passed(ip))' <= Cardinality(Passed(ip))
  BY Sizes, Counts
<1>3. Counted(ip) + Cardinality(Passed(ip)) < MaxFailures + Cardinality(Logins)
  BY DEF RoomControl
<1> QED BY <1>1, <1>2, <1>3, Sizes, SessionAssumption

(* A login that fails takes its own room. *)
LEMMA RoomTaken ==
  ASSUME TypeOK, TypeOK', RoomControl, NEW l \in Logins, FailLogin(l), NEW ip \in Addresses
  PROVE  Counted(ip)' + Cardinality(Passed(ip))' < MaxFailures + Cardinality(Logins)
<1>1. login[l].pc = "checked" /\ login[l].ip \in Addresses /\ now' = now
  BY DEF FailLogin, TypeOK, Attempt, Idle
<1>2. login' = [login EXCEPT ![l] = Idle] /\ login \in [Logins -> Attempt]
  BY DEF FailLogin, TypeOK
<1>3. \A k \in Logins : login'[k] = IF k = l THEN Idle ELSE login[k]
  BY <1>2
<1>4. CASE login[l].ip # ip
  <2>1. tried'[ip] = tried[ip]
    BY <1>1, <1>4 DEF FailLogin, RecordFailure, TypeOK
  <2>2. Passed(ip)' \subseteq Passed(ip)
    BY <1>3 DEF Passed, Idle
  <2>3. Recent(tried[ip])' \subseteq Recent(tried[ip])
    BY <1>1, <2>1 DEF Recent
  <2> QED BY <2>2, <2>3, RoomGrows
<1>5. CASE login[l].ip = ip
  <2> DEFINE f == Failure(ip)
  <2>1. tried'[ip] = tried[ip] \cup {f}
    BY <1>1, <1>5 DEF FailLogin, RecordFailure, TypeOK
  <2>2. Recent(tried[ip])' \subseteq Recent(tried[ip]) \cup {f}
    BY <1>1, <2>1 DEF Recent
  <2>3. /\ IsFiniteSet(Recent(tried[ip]) \cup {f})
        /\ Cardinality(Recent(tried[ip]) \cup {f}) <= Counted(ip) + 1
    <3> HIDE DEF f
    <3>1. IsFiniteSet(Recent(tried[ip])) /\ Counted(ip) \in Nat
      BY Sizes
    <3> QED BY <3>1, OneMore DEF Counted
  <2>4. Counted(ip)' \in Nat /\ Counted(ip)' <= Counted(ip) + 1
    <3>1. Cardinality(Recent(tried[ip])') \in Nat
          /\ Cardinality(Recent(tried[ip])') <= Cardinality(Recent(tried[ip]) \cup {f})
          /\ Cardinality(Recent(tried[ip]) \cup {f}) \in Nat
      BY <2>2, <2>3, Counts
    <3> QED BY <2>3, <3>1, Sizes DEF Counted
  <2>5. Passed(ip)' = Passed(ip) \ {l} /\ l \in Passed(ip)
    BY <1>1, <1>3, <1>5 DEF Passed, Idle
  <2>6. Cardinality(Passed(ip))' = Cardinality(Passed(ip)) - 1
    BY <2>5, Sizes, FS_RemoveElement
  <2>7. Counted(ip) + Cardinality(Passed(ip)) < MaxFailures + Cardinality(Logins)
    BY DEF RoomControl
  <2>8. /\ Counted(ip) \in Nat /\ Cardinality(Passed(ip)) \in Nat
        /\ Cardinality(Logins) \in Nat /\ MaxFailures \in Nat
    BY Sizes, SessionAssumption
  <2> QED BY <2>4, <2>6, <2>7, <2>8
<1> QED BY <1>4, <1>5

(* A login that passes the check finds fewer than MaxFailures. *)
LEMMA RoomGiven ==
  ASSUME TypeOK, TypeOK', LimiterControl, LockLasts, RoomControl,
         NEW l \in Logins, NEW a \in Addresses, BeginLogin(l, a), NEW ip \in Addresses
  PROVE  Counted(ip)' + Cardinality(Passed(ip))' < MaxFailures + Cardinality(Logins)
<1>1. now' = now /\ tried' = tried /\ now \in Nat
  BY DEF BeginLogin, TypeOK
<1>2. \A k \in Logins : login'[k] = IF k # l THEN login[k]
                                   ELSE IF Locked(a) THEN Idle ELSE [pc |-> "checked", ip |-> a]
  BY DEF BeginLogin, TypeOK
<1>3. CASE Locked(a) \/ a # ip
  <2>1. Passed(ip)' \subseteq Passed(ip)
    BY <1>2, <1>3 DEF Passed, Idle
  <2>2. Recent(tried[ip])' \subseteq Recent(tried[ip])
    BY <1>1 DEF Recent
  <2> QED BY <2>1, <2>2, RoomGrows
<1>4. CASE ~ Locked(a) /\ a = ip
  <2>1. ~ Cardinality(Recent(tried[ip])) >= MaxFailures
    BY <1>1, <1>4 DEF LockLasts, Locked, Recent
  <2>2. Counted(ip)' = Counted(ip)
    BY <1>1 DEF Counted, Recent
  <2>3. Counted(ip) < MaxFailures /\ Counted(ip) \in Nat
    BY <2>1, Sizes, SessionAssumption DEF Counted
  <2>4. Cardinality(Passed(ip))' <= Cardinality(Logins) /\ Cardinality(Passed(ip))' \in Nat
    <3>1. Passed(ip)' \subseteq Logins
      BY DEF Passed
    <3> QED BY <3>1, LoginsAssumption, Counts
  <2>5. Cardinality(Logins) \in Nat /\ MaxFailures \in Nat
    BY Sizes, SessionAssumption
  <2> QED BY <2>2, <2>3, <2>4, <2>5
<1> QED BY <1>3, <1>4

LEMMA RoomStep ==
  TypeOK /\ TypeOK' /\ LimiterControl /\ LockLasts /\ RoomControl /\ [Next]_vars => RoomControl'
<1> SUFFICES ASSUME TypeOK, TypeOK', LimiterControl, LockLasts, RoomControl, [Next]_vars,
                    NEW ip \in Addresses
             PROVE  Counted(ip)' + Cardinality(Passed(ip))' < MaxFailures + Cardinality(Logins)
  BY DEF RoomControl
<1>1. ASSUME NEW l \in Logins, PassLogin(l) \/ Create(l)
      PROVE  Counted(ip)' + Cardinality(Passed(ip))' < MaxFailures + Cardinality(Logins)
  <2>1. /\ now' = now
        /\ \A k \in Logins \ {l} : login'[k] = login[k]
        /\ login'[l].pc # "checked"
    BY <1>1 DEF PassLogin, Create, TypeOK, Idle
  <2>2. tried'[ip] \subseteq tried[ip]
    BY <1>1 DEF PassLogin, RecordSuccess, Create, limiter, TypeOK
  <2>3. Recent(tried[ip])' \subseteq Recent(tried[ip])
    BY <2>1, <2>2 DEF Recent
  <2>4. Passed(ip)' \subseteq Passed(ip)
    BY <2>1 DEF Passed
  <2> QED BY <2>3, <2>4, RoomGrows
<1>2. CASE Tick
  <2>1. now' = now + 1 /\ tried' = tried /\ login' = login
    BY <1>2 DEF Tick, limiter
  <2>2. Passed(ip)' \subseteq Passed(ip)
    BY <2>1 DEF Passed
  <2>3. Recent(tried[ip])' \subseteq Recent(tried[ip])
    BY <2>1, SessionAssumption DEF Recent, TypeOK
  <2> QED BY <2>2, <2>3, RoomGrows
<1>3. CASE Restart
  <2>1. tried'[ip] = {} /\ \A k \in Logins : login'[k] = Idle
    BY <1>3 DEF Restart
  <2>2. Passed(ip)' \subseteq Passed(ip) /\ Recent(tried[ip])' \subseteq Recent(tried[ip])
    BY <2>1 DEF Passed, Recent, Idle
  <2> QED BY <2>2, RoomGrows
<1>4. CASE UNCHANGED <<now, tried, login>>
  <2>1. Passed(ip)' \subseteq Passed(ip) /\ Recent(tried[ip])' \subseteq Recent(tried[ip])
    BY <1>4 DEF Passed, Recent
  <2> QED BY <2>1, RoomGrows
<1> QED BY <1>1, <1>2, <1>3, <1>4, RoomTaken, RoomGiven DEF Next, vars, limiter, Logout, Arrive,
       Select, CheckExpiry, Expel, Refresh, Refuse, Answer

(* However the checks and the records of racing logins interleave, a       *)
(* Window never has more failures of an address than the limit and the     *)
(* logins under way allow.                                                 *)
THEOREM GuessesBoundedHolds == Spec => []GuessesBounded
<1>1. TypeOK /\ RoomControl => GuessesBounded
  <2> SUFFICES ASSUME TypeOK, RoomControl, NEW ip \in Addresses
               PROVE  Counted(ip) < MaxFailures + Cardinality(Logins)
    BY DEF GuessesBounded
  <2>1. Counted(ip) + Cardinality(Passed(ip)) < MaxFailures + Cardinality(Logins)
    BY DEF RoomControl
  <2> QED BY <2>1, Sizes, SessionAssumption
<1> QED BY <1>1, TypeInit, TypeStep, LimiterInit, ControlStep, LastsStep, RoomInit, RoomStep, PTL
       DEF Spec

-----------------------------------------------------------------------------
(* Sessions.                                                               *)

(* What Genuine needs to be inductive holds at the start and is kept. *)
LEMMA GenuineInit == Init => ReadIsGenuine /\ Genuine
  BY DEF Init, ReadIsGenuine, Genuine, Idle

LEMMA GenuineStep ==
  TypeOK /\ ReadIsGenuine /\ Genuine /\ [Next]_vars => ReadIsGenuine' /\ Genuine'
<1> SUFFICES ASSUME TypeOK, ReadIsGenuine, Genuine, [Next]_vars
             PROVE  ReadIsGenuine' /\ Genuine'
  OBVIOUS
<1> USE SessionAssumption DEF TypeOK, ReadIsGenuine, Genuine, Valid, Rows, limiter
<1>1. ASSUME UNCHANGED <<request, genuine>>, issued \subseteq issued', now' \in Nat, now <= now',
             \A id \in issued \cup {NoId} : Valid(id)' => Valid(id)
      PROVE  ReadIsGenuine' /\ Genuine'
  <2>1. ASSUME NEW r \in Requests, request[r].pc = "check", now' <= request[r].read
        PROVE  r \in genuine
    <3>1. request[r] \in Visit \ {Idle} /\ request[r].read \in Nat
      BY <2>1 DEF Visit, Idle
    <3> QED BY <1>1, <2>1, <3>1
  <2> QED BY <1>1, <2>1
<1>2. ASSUME NEW l \in Logins, FailLogin(l) \/ PassLogin(l) PROVE ReadIsGenuine' /\ Genuine'
  BY <1>1, <1>2 DEF FailLogin, PassLogin
<1>3. ASSUME NEW l \in Logins, NEW ip \in Addresses, BeginLogin(l, ip)
      PROVE  ReadIsGenuine' /\ Genuine'
  BY <1>1, <1>3 DEF BeginLogin
<1>4. ASSUME NEW l \in Logins, Create(l) PROVE ReadIsGenuine' /\ Genuine'
  <2>1. \A id \in issued \cup {NoId} : Valid(id)' => Valid(id)
    <3>1. CASE UNCHANGED expires
      BY <1>4, <3>1 DEF Create
    <3>2. ASSUME NEW x \in Ids \ issued, expires' = Put(expires, x, now + TTL)
          PROVE  \A id \in issued \cup {NoId} : Valid(id)' => Valid(id)
      BY <1>4, <3>2 DEF Create, Put
    <3> QED BY <1>4, <3>1, <3>2 DEF Create
  <2> QED BY <1>1, <1>4, <2>1 DEF Create
<1>5. ASSUME NEW id \in issued, Logout(id) PROVE ReadIsGenuine' /\ Genuine'
  BY <1>1, <1>5 DEF Logout, Delete, Drop
<1>6. ASSUME NEW r \in Requests, NEW id \in issued \cup {NoId}, NEW api \in BOOLEAN,
             Arrive(r, id, api)
      PROVE  ReadIsGenuine' /\ Genuine'
  BY <1>6 DEF Arrive
<1>7. ASSUME NEW r \in Requests, Select(r) PROVE ReadIsGenuine' /\ Genuine'
  <2>1. request[r] \in Visit \ {Idle}
    BY <1>7 DEF Select, Idle
  <2>2. CASE Goes(r, "refused")
    BY <1>7, <2>1, <2>2 DEF Select, Goes, Visit, Idle
  <2>3. CASE /\ request[r].id \in DOMAIN expires
             /\ request' = [request EXCEPT ![r] =
                  [@ EXCEPT !.pc = "check", !.read = expires[request[r].id]]]
    <3>1. /\ request'[r].pc = "check" /\ request'[r].id = request[r].id
          /\ request'[r].read = expires[request[r].id]
      BY <2>1, <2>3 DEF Visit
    <3>2. \A q \in Requests \ {r} : request'[q] = request[q]
      BY <2>3
    <3> QED BY <1>7, <3>1, <3>2, <2>3 DEF Select
  <2> QED BY <1>7, <2>2, <2>3 DEF Select
<1>8. ASSUME NEW r \in Requests, CheckExpiry(r) PROVE ReadIsGenuine' /\ Genuine'
  <2> DEFINE step == IF now > request[r].read THEN "expel" ELSE "refresh"
  <2>1. request[r] \in Visit \ {Idle} /\ request[r].read \in Nat
    BY <1>8 DEF CheckExpiry, Visit, Idle
  <2>2. request'[r].pc = step /\ request'[r].id = request[r].id
    BY <1>8, <2>1 DEF CheckExpiry, Visit
  <2>3. \A q \in Requests \ {r} : request'[q] = request[q]
    BY <1>8 DEF CheckExpiry
  <2>4. step = "refresh" => r \in genuine
    BY <1>8, <2>1 DEF CheckExpiry
  <2> QED BY <1>8, <2>2, <2>3, <2>4 DEF CheckExpiry
<1>9. ASSUME NEW r \in Requests, Expel(r) PROVE ReadIsGenuine' /\ Genuine'
  BY <1>9 DEF Expel, Delete, Drop, Goes, Visit, Idle
<1>10. ASSUME NEW r \in Requests, Refresh(r) PROVE ReadIsGenuine' /\ Genuine'
  <2>1. /\ request'[r].pc = "serving" /\ request'[r].id = request[r].id
        /\ \A q \in Requests \ {r} : request'[q] = request[q]
    BY <1>10 DEF Refresh, Goes, Visit, Idle
  <2>2. r \in genuine /\ genuine \subseteq genuine'
    BY <1>10 DEF Refresh
  <2>3. \A q \in Requests \ {r} :
          request[q].pc = "select" /\ Valid(request[q].id)' => q \in genuine'
    BY <1>10, <2>1 DEF Refresh, Slide
  <2> QED BY <1>10, <2>1, <2>2, <2>3 DEF Refresh
<1>11. ASSUME NEW r \in Requests, Refuse(r) PROVE ReadIsGenuine' /\ Genuine'
  BY <1>11 DEF Refuse, Goes, Visit, Idle
<1>12. ASSUME NEW r \in Requests, Answer(r) PROVE ReadIsGenuine' /\ Genuine'
  BY <1>12 DEF Answer, Idle
<1>13. CASE Tick
  <2>1. \A id \in issued \cup {NoId} : Valid(id)' => Valid(id)
    BY <1>13 DEF Tick
  <2> QED BY <1>1, <1>13, <2>1 DEF Tick
<1>14. CASE Restart
  BY <1>14 DEF Restart, Idle
<1>15. CASE UNCHANGED vars
  BY <1>1, <1>15 DEF vars
<1> QED BY <1>2, <1>3, <1>4, <1>5, <1>6, <1>7, <1>8, <1>9, <1>10, <1>11, <1>12, <1>13,
       <1>14, <1>15 DEF Next

(* No request is served as authenticated, and no /admin/api/ request is    *)
(* served at all, on a session that was not valid since the request came.  *)
THEOREM GenuineHolds == Spec => []Genuine
  BY TypeInit, TypeStep, GenuineInit, GenuineStep, PTL DEF Spec

(* A session whose row is gone stays gone, for any number of requests that *)
(* had read the row before.                                                *)
THEOREM NoReturnHolds == Spec => NoReturn
<1>1. ASSUME TypeOK, [Next]_vars
      PROVE  [\A id \in issued \ Rows : id \notin DOMAIN expires']_vars
  <2>1. ASSUME NEW l \in Logins, Create(l)
        PROVE  \A id \in issued \ Rows : id \notin DOMAIN expires'
    <3>1. ASSUME NEW x \in Ids \ issued, expires' = Put(expires, x, now + TTL)
          PROVE  DOMAIN expires' = Rows \cup {x}
      BY <3>1 DEF Put, Rows
    <3> QED BY <2>1, <3>1 DEF Create, Rows
  <2>2. ASSUME NEW id, Delete(id) PROVE DOMAIN expires' \subseteq Rows
    BY <2>2 DEF Delete, Drop, Rows
  <2>3. ASSUME NEW r \in Requests, Refresh(r) PROVE DOMAIN expires' = Rows
    BY <2>3 DEF Refresh, Slide, Rows
  <2>4. CASE UNCHANGED expires
    BY <2>4 DEF Rows
  <2> QED BY <1>1, <2>1, <2>2, <2>3, <2>4 DEF Next, vars, limiter, BeginLogin, FailLogin,
         PassLogin, Logout, Arrive, Select, CheckExpiry, Expel, Refuse, Answer, Tick, Restart
<1> QED BY <1>1, TypeInit, TypeStep, PTL DEF Spec, NoReturn
=============================================================================
