--------------------------- MODULE AtMostOnceQueue ---------------------------
(***************************************************************************)
(* What the readers of wob_message_queue rely on: a message that was sent  *)
(* is taken by at most one of them and handed out at most once.  It may    *)
(* also be dropped: cleared or deleted before anyone took it, or lost with *)
(* the reader that took it.                                                *)
(***************************************************************************)
CONSTANT Msgs

VARIABLES pending, taken, delivered, dropped  \* disjoint sets of messages

qvars == <<pending, taken, delivered, dropped>>

Unsent == Msgs \ (pending \cup taken \cup delivered \cup dropped)

QInit == pending = {} /\ taken = {} /\ delivered = {} /\ dropped = {}

Send(m) ==
  /\ m \in Unsent
  /\ pending' = pending \cup {m}
  /\ UNCHANGED <<taken, delivered, dropped>>

Take(m) ==
  /\ m \in pending
  /\ pending' = pending \ {m}
  /\ taken' = taken \cup {m}
  /\ UNCHANGED <<delivered, dropped>>

Deliver(m) ==
  /\ m \in taken
  /\ taken' = taken \ {m}
  /\ delivered' = delivered \cup {m}
  /\ UNCHANGED <<pending, dropped>>

Drop(S) ==
  /\ S \subseteq pending \cup taken
  /\ pending' = pending \ S
  /\ taken' = taken \ S
  /\ dropped' = dropped \cup S
  /\ UNCHANGED delivered

QNext ==
  \/ \E m \in Msgs : Send(m) \/ Take(m) \/ Deliver(m)
  \/ \E S \in SUBSET Msgs : Drop(S)

QSpec == QInit /\ [][QNext]_qvars
=============================================================================
