------------------------------- MODULE Sessions -------------------------------
(***************************************************************************)
(* Login, sessions and the middleware that asks for them: the session rows *)
(* (internal/auth/session.go), the limiter of failed logins                *)
(* (internal/auth/ratelimit.go), the login and logout handlers             *)
(* (internal/handlers/admin_auth.go) and SessionMiddleware                 *)
(* (internal/auth/middleware.go).  Every statement on the table and every  *)
(* critical section of the limiter is a step of its own; the rows survive  *)
(* a restart of the server, the limiter does not.                          *)
(***************************************************************************)
EXTENDS Naturals, FiniteSets

CONSTANTS
  Ids,          \* session ids newSessionID can mint
  Addresses,    \* source addresses of login attempts
  Logins,       \* login requests that can be under way at once
  Requests,     \* requests behind SessionMiddleware that can be, too
  TTL,          \* lifetime of a session
  MaxFailures, Window, Lockout,   \* of the limiter
  MaxTime,      \* bound on the clock
  NoId          \* a request without a session cookie

ASSUME SessionAssumption ==
  /\ {TTL, Window, MaxFailures} \subseteq Nat \ {0}
  /\ {Lockout, MaxTime} \subseteq Nat
  /\ Lockout >= Window            \* 15 against 10 minutes
  /\ NoId \notin Ids

(* Every login request under way has a goroutine. *)
ASSUME LoginsAssumption == IsFiniteSet(Logins)

VARIABLES
  now,
  issued,       \* ids minted so far
  expires,      \* admin_sessions: expires_at of each id that has a row
  failures,     \* the limiter: recent failures of each address
  lockedUntil,  \* the limiter: end of the lockout of each address that has one
  login,        \* each login request: how far it is and where it comes from
  request,      \* each request: how far it is, its cookie, the expiry it read
  genuine,      \* history: requests whose session was valid after they came
  tried         \* history: failures of each address since its last success

limiter == <<failures, lockedUntil, tried>>
vars == <<now, issued, expires, limiter, login, request, genuine>>

Rows      == DOMAIN expires
Valid(id) == id \in Rows /\ now <= expires[id]   \* not After(ExpiresAt)
Drop(f, x) == [y \in DOMAIN f \ {x} |-> f[y]]    \* delete(f, x)
Put(f, x, v) == [y \in DOMAIN f \cup {x} |-> IF y = x THEN v ELSE f[y]]

Idle == [pc |-> "idle"]

Init ==
  /\ now = 0
  /\ issued = {} /\ expires = <<>>
  /\ failures    = [ip \in Addresses |-> {}]
  /\ lockedUntil = <<>>
  /\ tried       = [ip \in Addresses |-> {}]
  /\ login   = [l \in Logins |-> Idle]
  /\ request = [r \in Requests |-> Idle]
  /\ genuine   = {}

-----------------------------------------------------------------------------
(* The limiter, one critical section each.                                 *)

Locked(ip) == ip \in DOMAIN lockedUntil /\ lockedUntil[ip] > now

(* A failure is its time and a number that tells it from the others. *)
Failure(ip) == [at |-> now, no |-> Cardinality(tried[ip])]

Recent(S) == {f \in S : f.at + Window > now}              \* t.After(cutoff)

(* An expired lock goes; the failures stay until they are pruned. *)
Check(ip) == lockedUntil' = IF Locked(ip) THEN lockedUntil ELSE Drop(lockedUntil, ip)

(* Seeded faults: the limit met one failure too late; old failures never pruned.  *)
RecordFailureLate(ip) ==
  LET keep == Recent(failures[ip]) \cup {Failure(ip)}
  IN  /\ failures' = [failures EXCEPT ![ip] = keep]
      /\ lockedUntil' = IF Cardinality(keep) > MaxFailures
                        THEN Put(lockedUntil, ip, now + Lockout) ELSE lockedUntil
      /\ tried' = [tried EXCEPT ![ip] = @ \cup {Failure(ip)}]

RecordFailureUnpruned(ip) ==
  LET keep == failures[ip] \cup {Failure(ip)}
  IN  /\ failures' = [failures EXCEPT ![ip] = keep]
      /\ lockedUntil' = IF Cardinality(keep) >= MaxFailures
                        THEN Put(lockedUntil, ip, now + Lockout) ELSE lockedUntil
      /\ tried' = [tried EXCEPT ![ip] = @ \cup {Failure(ip)}]

RecordFailure(ip) ==
  LET keep == Recent(failures[ip]) \cup {Failure(ip)}
  IN  /\ failures' = [failures EXCEPT ![ip] = keep]
      /\ lockedUntil' = IF Cardinality(keep) >= MaxFailures
                        THEN Put(lockedUntil, ip, now + Lockout) ELSE lockedUntil
      /\ tried' = [tried EXCEPT ![ip] = @ \cup {Failure(ip)}]

RecordSuccess(ip) ==
  /\ failures' = [failures EXCEPT ![ip] = {}]
  /\ lockedUntil' = Drop(lockedUntil, ip)
  /\ tried' = [tried EXCEPT ![ip] = {}]

-----------------------------------------------------------------------------
(* LoginHandler.                                                           *)

(* The lockout check; a locked address is answered 429. *)
BeginLogin(l, ip) ==
  /\ login[l].pc = "idle"
  /\ Check(ip)
  /\ login' = [login EXCEPT ![l] = IF Locked(ip) THEN Idle ELSE [pc |-> "checked", ip |-> ip]]
  /\ UNCHANGED <<now, issued, expires, failures, tried, request, genuine>>

(* No password in the body, or the wrong one: both count. *)
FailLogin(l) ==
  /\ login[l].pc = "checked"
  /\ RecordFailure(login[l].ip)
  /\ login' = [login EXCEPT ![l] = Idle]
  /\ UNCHANGED <<now, issued, expires, request, genuine>>

PassLogin(l) ==
  /\ login[l].pc = "checked"
  /\ RecordSuccess(login[l].ip)
  /\ login' = [login EXCEPT ![l] = [pc |-> "creating", ip |-> login[l].ip]]
  /\ UNCHANGED <<now, issued, expires, request, genuine>>

(* Sessions.Create; an INSERT that fails is answered 500. *)
Create(l) ==
  /\ login[l].pc = "creating"
  /\ login' = [login EXCEPT ![l] = Idle]
  /\ \/ \E id \in Ids \ issued :
          /\ issued'  = issued \cup {id}
          /\ expires' = Put(expires, id, now + TTL)
     \/ UNCHANGED <<issued, expires>>
  /\ UNCHANGED <<now, limiter, request, genuine>>

-----------------------------------------------------------------------------
(* LogoutHandler and SessionMiddleware, with SessionStore.Validate.        *)

Delete(id) == expires' = Drop(expires, id)

Logout(id) ==
  /\ Delete(id)
  /\ UNCHANGED <<now, issued, limiter, login, request, genuine>>

(* A request with a cookie, or NoId for none; api tells /admin/api/ from pages. *)
Arrive(r, id, api) ==
  /\ request[r].pc = "idle"
  /\ request' = [request EXCEPT ![r] =
       [pc |-> IF id = NoId THEN "refused" ELSE "select", id |-> id, api |-> api, read |-> 0]]
  /\ genuine' = IF Valid(id) THEN genuine \cup {r} ELSE genuine
  /\ UNCHANGED <<now, issued, expires, limiter, login>>

Goes(r, pc) == request' = [request EXCEPT ![r].pc = pc]

(* SELECT ... WHERE id; no row, or a query that fails, is an error. *)
Select(r) ==
  /\ request[r].pc = "select"
  /\ \/ /\ request[r].id \in Rows
        /\ request' = [request EXCEPT ![r] =
             [@ EXCEPT !.pc = "check", !.read = expires[request[r].id]]]
     \/ Goes(r, "refused")
  /\ UNCHANGED <<now, issued, expires, limiter, login, genuine>>

(* Seeded fault: a row is trusted for as long as it exists. *)
CheckExpiryNever(r) ==
  /\ request[r].pc = "check"
  /\ request' = [request EXCEPT ![r] = [@ EXCEPT !.pc = "refresh", !.read = 0]]
  /\ UNCHANGED <<now, issued, expires, limiter, login, genuine>>

(* time.Now().UTC().After(sess.ExpiresAt), of the row as it was read. *)
CheckExpiry(r) ==
  /\ request[r].pc = "check"
  /\ request' = [request EXCEPT ![r] =
       [@ EXCEPT !.pc = IF now > request[r].read THEN "expel" ELSE "refresh", !.read = 0]]
  /\ UNCHANGED <<now, issued, expires, limiter, login, genuine>>

(* A DELETE that fails is ignored, here and in Logout. *)
Expel(r) ==
  /\ request[r].pc = "expel"
  /\ Delete(request[r].id) \/ UNCHANGED expires
  /\ Goes(r, "refused")
  /\ UNCHANGED <<now, issued, limiter, login, genuine>>

(* Seeded faults: the row is written back whole; the lifetime is subtracted. *)
SlideUpserts(id) == expires' = Put(expires, id, now + TTL)
SlideBack(id) == expires' = [x \in Rows |-> IF x = id THEN now - TTL ELSE expires[x]]

(* UPDATE ... WHERE id: nothing happens to a row that is gone by now. *)
Slide(id) == expires' = [x \in Rows |-> IF x = id THEN now + TTL ELSE expires[x]]

(* An UPDATE that fails is ignored, too. *)
Refresh(r) ==
  /\ request[r].pc = "refresh"
  /\ LET id == request[r].id
         Holders == {q \in Requests : request[q].pc # "idle" /\ request[q].id = id}
     IN  \/ /\ Slide(id)
            /\ genuine' = IF id \in Rows THEN genuine \cup Holders ELSE genuine
         \/ UNCHANGED <<expires, genuine>>
  /\ Goes(r, "serving")
  /\ UNCHANGED <<now, issued, limiter, login>>

(* respondUnauth: a JSON request is aborted with 401; a page is redirected, *)
(* and its handler runs all the same, because Redirect does not abort.      *)
Refuse(r) ==
  /\ request[r].pc = "refused"
  /\ Goes(r, IF request[r].api THEN "unauthorized" ELSE "serving")
  /\ UNCHANGED <<now, issued, expires, limiter, login, genuine>>

Answer(r) ==
  /\ request[r].pc \in {"serving", "unauthorized"}
  /\ request' = [request EXCEPT ![r] = Idle]
  /\ genuine' = genuine \ {r}
  /\ UNCHANGED <<now, issued, expires, limiter, login>>

-----------------------------------------------------------------------------
(* The environment.                                                        *)

Tick ==
  /\ now < MaxTime
  /\ now' = now + 1
  /\ UNCHANGED <<issued, expires, limiter, login, request, genuine>>

(* The limiter is in memory, the rows are not. *)
Restart ==
  /\ failures' = [ip \in Addresses |-> {}]
  /\ lockedUntil' = <<>>
  /\ tried'    = [ip \in Addresses |-> {}]
  /\ login'    = [l \in Logins |-> Idle]
  /\ request'  = [r \in Requests |-> Idle]
  /\ genuine'  = {}
  /\ UNCHANGED <<now, issued, expires>>

Next ==
  \/ \E l \in Logins : FailLogin(l) \/ PassLogin(l) \/ Create(l)
  \/ \E l \in Logins, ip \in Addresses : BeginLogin(l, ip)
  \/ \E id \in issued : Logout(id)
  \/ \E r \in Requests, id \in issued \cup {NoId}, api \in BOOLEAN : Arrive(r, id, api)
  \/ \E r \in Requests : Select(r) \/ CheckExpiry(r) \/ Expel(r) \/ Refresh(r)
                          \/ Refuse(r) \/ Answer(r)
  \/ Tick \/ Restart

Spec == Init /\ [][Next]_vars

-----------------------------------------------------------------------------
(* Properties.                                                             *)

Attempt == {Idle} \cup [pc : {"checked", "creating"}, ip : Addresses]
Visit   == {Idle} \cup [pc : {"select", "check", "expel", "refresh", "serving", "refused",
                              "unauthorized"},
                        id : Ids \cup {NoId}, api : BOOLEAN, read : Nat]

(* Every variable keeps its shape; only ids that were issued have a row.   *)
TypeOK ==
  /\ now \in Nat
  /\ issued \subseteq Ids
  /\ Rows \subseteq issued /\ expires \in [Rows -> Nat]
  /\ failures \in [Addresses -> SUBSET [at : Nat, no : Nat]]
  /\ tried \in [Addresses -> SUBSET [at : Nat, no : Nat]]
  /\ \A ip \in Addresses : IsFiniteSet(tried[ip])
  /\ DOMAIN lockedUntil \subseteq Addresses
  /\ lockedUntil \in [DOMAIN lockedUntil -> Nat]
  /\ login \in [Logins -> Attempt]
  /\ request \in [Requests -> Visit]
  /\ genuine \subseteq Requests

(* A request that reaches its handler as an authenticated one, and every   *)
(* /admin/api/ request that reaches its handler, carries a session that    *)
(* had a row and had not expired at some moment after the request came:    *)
(* whatever logouts, expiries and refreshes run between the statements of  *)
(* Validate (internal/auth/session.go).                                    *)
Genuine ==
  \A r \in Requests :
    \/ request[r].pc = "refresh"
    \/ request[r].pc = "serving" /\ request[r].api
    => r \in genuine

(* A session that was logged out or found expired never comes back: the    *)
(* refresh of a request that validated it before must not restore the row. *)
NoReturn == [][\A id \in issued \ Rows : id \notin DOMAIN expires']_vars

(* The failed logins of ip that still count. *)
Counted(ip) == Cardinality(Recent(tried[ip]))

(* An attempt gets past the limiter only when its address has had fewer    *)
(* than MaxFailures failures in the last Window since its last success     *)
(* (the rule of internal/auth/ratelimit.go:8-11), however the checks and   *)
(* records of concurrent logins interleave.                                *)
WithinLimit ==
  [][\A l \in Logins : login[l].pc = "idle" /\ login'[l].pc = "checked"
        => Counted(login'[l].ip) < MaxFailures]_vars

(* Logins of one address that pass the check together may all fail, since  *)
(* LoginHandler checks and records in two critical sections.  There are    *)
(* never as many failures in a Window as MaxFailures and the logins that   *)
(* can be under way at once make together.                                 *)
GuessesBounded == \A ip \in Addresses : Counted(ip) < MaxFailures + Cardinality(Logins)

(* No address is locked out without cause: MaxFailures failures came       *)
(* within one Window that ended when the lockout began.                    *)
LockedWithCause ==
  \A ip \in DOMAIN lockedUntil :
    LET began == lockedUntil[ip] - Lockout
    IN  Cardinality({f \in tried[ip] : f.at <= began /\ f.at + Window > began}) >= MaxFailures
=============================================================================
