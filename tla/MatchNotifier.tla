--------------------------- MODULE MatchNotifier ---------------------------
(***************************************************************************)
(* What real_estate promises its users, end to end: a property is reported *)
(* to an alert once; every channel enabled at that instant is owed one     *)
(* notification of it; a message is about a reported match only, at least  *)
(* one arrives before its notification counts as SENT.  A notification     *)
(* that was sent or given up never becomes PENDING again.  A single sender *)
(* sends it no more and leaves it as it is; of several that race, one may  *)
(* send it again, and settle it anew, after another has settled it.        *)
(***************************************************************************)
CONSTANTS
  Alerts, Properties, Channels,
  OneSender  \* whether notifications are sent by one dispatcher only

Pairs == Alerts \X Properties

VARIABLES
  matched,   \* the <<alert, property>> pairs reported so far
  enabled,   \* the channels
  owed,      \* <<pair, channel>> -> what became of its notification
  received   \* the notifications some message arrived for

Init ==
  /\ matched = {} /\ enabled = {} /\ received = {}
  /\ owed = [n \in Pairs \X Channels |-> "none"]

Report(new) ==
  /\ new \intersect matched = {}
  /\ matched' = matched \union new
  /\ owed' = [n \in Pairs \X Channels |->
                IF n \in new \X enabled THEN "PENDING" ELSE owed[n]]
  /\ UNCHANGED <<enabled, received>>

Enable(c) ==
  /\ enabled' = enabled \union {c}
  /\ UNCHANGED <<matched, owed, received>>

Open(n) == owed[n] = "PENDING" \/ (~OneSender /\ owed[n] # "none")

Receive(n) ==
  /\ Open(n)
  /\ received' = received \union {n}
  /\ UNCHANGED <<matched, enabled, owed>>

Settle(n, end) ==
  /\ Open(n)
  /\ end = "SENT" => n \in received
  /\ owed' = [owed EXCEPT ![n] = end]
  /\ UNCHANGED <<matched, enabled, received>>

Next ==
  \/ \E new \in SUBSET Pairs : Report(new)
  \/ \E c \in Channels : Enable(c)
  \/ \E n \in Pairs \X Channels :
       Receive(n) \/ \E end \in {"SENT", "FAILED"} : Settle(n, end)

Spec == Init /\ [][Next]_<<matched, enabled, owed, received>>
=============================================================================
