----------------------------- MODULE MCAuditBus -----------------------------
(***************************************************************************)
(* Three audited actions and two streams with room for two entries: one    *)
(* entry more than a buffer holds, and two streams to keep apart.          *)
(***************************************************************************)
EXTENDS AuditBus, TLC

CONSTANTS a1, a2, a3, s1, s2

MCEntries == {a1, a2, a3}
MCStreams == {s1, s2}

=============================================================================
