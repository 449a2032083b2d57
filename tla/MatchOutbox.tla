---------------------------- MODULE MatchOutbox ----------------------------
(***************************************************************************)
(* What the alert cycle promises the dispatcher: a match appears once, and *)
(* in the same instant one notification for every channel enabled then; a  *)
(* notification never appears without, before or after its match.          *)
(***************************************************************************)
CONSTANTS Alerts, Properties, Channels

VARIABLES
  matched,  \* the <<alert, property>> pairs reported so far
  notices,  \* the <<pair, channel>> notifications queued so far
  enabled   \* the channels

Init == matched = {} /\ notices = {} /\ enabled = {}

Record(new) ==
  /\ new \intersect matched = {}
  /\ matched' = matched \union new
  /\ notices' = notices \union (new \X enabled)
  /\ UNCHANGED enabled

Enable(c) ==
  /\ enabled' = enabled \union {c}
  /\ UNCHANGED <<matched, notices>>

Next ==
  \/ \E new \in SUBSET (Alerts \X Properties) : Record(new)
  \/ \E c \in Channels : Enable(c)

Spec == Init /\ [][Next]_<<matched, notices, enabled>>
=============================================================================
