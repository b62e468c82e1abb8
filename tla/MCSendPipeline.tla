---------------------------- MODULE MCSendPipeline ----------------------------
(***************************************************************************)
(* Three requests and room for two in a window.  The first sends text to a *)
(* number with a mobile digit, to one that loses a digit too many, or to a *)
(* text that is no number; the second sends text to a group, the same text *)
(* again under the same id, or buttons: every list of up to three, and one *)
(* of four; the third has a body that does not fit, or does not bind.      *)
(***************************************************************************)
EXTENDS SendPipeline, TLC

CONSTANTS r1, r2, r3

Number(c, m, h) ==
  [server |-> "", country |-> c, mobile |-> m, high |-> h, cut |-> FALSE, line |-> 1]
Text(to, id) == [to |-> to, bound |-> TRUE, fit |-> TRUE, id |-> id,
                 text |-> TRUE, buttons |-> <<>>]
Buttons(to, list) == [Text(to, "") EXCEPT !.text = FALSE, !.buttons = list]

AR    == Number("AR", TRUE, FALSE)
Group == [Number("US", FALSE, FALSE) EXCEPT !.server = "g.us"]
Long  == Number("long", FALSE, FALSE)
None  == Number("none", FALSE, FALSE)
MX    == Number("MX", TRUE, FALSE)

MCKeys == {AR, MX, Group, Long, None}

Lists == UNION {[1..n -> ButtonTypes] : n \in 0..3} \cup {<<"reply", "reply", "reply", "reply">>}

MCBodies ==
     (r1 :> {Text(AR, ""), Text(AR, "x"), Text(MX, ""), Text(Long, ""), Text(None, "")})
  @@ (r2 :> {Text(Group, ""), Text(AR, "x")} \cup {Buttons(AR, l) : l \in Lists})
  @@ (r3 :> {[Text(AR, "") EXCEPT !.fit = FALSE], [Text(AR, "") EXCEPT !.bound = FALSE]})
=============================================================================
