------------------------ MODULE MCWebhookDispatcher ------------------------
(***************************************************************************)
(* A small instance of WebhookDispatcher: two events of one instance, two  *)
(* workers that compete for its only token, a queue of one job.            *)
(***************************************************************************)
EXTENDS WebhookDispatcher, TLC

CONSTANTS d1, d2, i1

MCInstanceOf == (d1 :> i1) @@ (d2 :> i1)

=============================================================================
