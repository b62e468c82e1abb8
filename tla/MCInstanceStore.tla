--------------------------- MODULE MCInstanceStore ---------------------------
EXTENDS InstanceStore, TLC

(* One instance that exists, or another that is created meanwhile; every   *)
(* request may ask any of these.                                           *)
Ask(op, i, name, key, url, secret) ==
  [op |-> op, at |-> i, name |-> name, key |-> key, url |-> url, secret |-> secret]

MCAsks ==
  LET i == CHOOSE i \in Instances : TRUE
  IN  {Ask("create", i, "", "", "", ""), Ask("create", i, "old", "", "https", "s"),
       Ask("create", i, "new", "typed", "", ""),
       Ask("setKey", i, "", "k", "", ""), Ask("setKey", i, "", "typed", "", ""),
       Ask("rotate", i, "", "", "", ""), Ask("rotateForm", i, "", "", "", ""),
       Ask("reveal", i, "", "", "", "manager"),
       Ask("webhook", i, "", "", "", ""), Ask("webhook", i, "", "", "https", "s"),
       Ask("webhook", i, "", "", "https", ""), Ask("webhookForm", i, "", "", "local", ""),
       Ask("webhookForm", i, "", "", "local", "t"), Ask("delete", i, "", "", "", "")}

MCMinted == [r \in Requests |-> ToString(r)]
=============================================================================
