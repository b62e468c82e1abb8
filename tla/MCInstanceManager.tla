------------------------- MODULE MCInstanceManager -------------------------
(***************************************************************************)
(* Two requests that race for one instance, a callback goroutine, and an   *)
(* object for each of the two clients that can exist at once.  Which       *)
(* object a client is does not matter.                                     *)
(***************************************************************************)
EXTENDS InstanceManager, TLC

CONSTANTS i1, c1, c2, v1, h1, h2, e1

Symmetry == Permutations(Clients)

(* One request that may build, restart or delete the client, and one that  *)
(* runs into it.                                                           *)
MCAsks == (h1 :> {"createForm", "connectForm", "reconnect", "delete"})
       @@ (h2 :> {"page", "connect", "disconnect"})

(* Two browser tabs. *)
MCAsksQR == (h1 :> {"qr"}) @@ (h2 :> {"qr"})

=============================================================================
