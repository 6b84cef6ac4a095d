----------------------- MODULE JobNotification_proofs -----------------------
(***************************************************************************)
(* Proofs about WobMessageQueue, for any messages, sessions, addresses and *)
(* procedures, and about JobNotification, for any readers and rows: the    *)
(* KILLs of the CDC process break no promise of the queue, and an event    *)
(* wakes every reader that slept for it.                                   *)
(***************************************************************************)
EXTENDS JobNotification, SequenceTheorems, TLAPS

-----------------------------------------------------------------------------
(* The queue and its procedures. *)


LEMMA TypeStep ==
  ASSUME TypeOK, [Next]_vars
  PROVE  TypeOK'
<1> USE AddressAssumption DEF TypeOK
<1>1. ASSUME NEW m \in Msgs, Send(m) PROVE TypeOK'
  BY <1>1 DEF Send
<1>2. ASSUME NEW m \in Msgs, UpdateMessage(m) \/ DeleteMessage(m) PROVE TypeOK'
  BY <1>2 DEF UpdateMessage, DeleteMessage
<1>3. ASSUME NEW s \in Sessions, Select(s) PROVE TypeOK'
  BY <1>3 DEF Select, Candidates, Free
<1>4. ASSUME NEW s \in Sessions, Commit(s) \/ Rollback(s) PROVE TypeOK'
  BY <1>4 DEF Commit, Rollback
<1>5. ASSUME NEW s \in Sessions, Return(s) PROVE TypeOK'
  BY <1>5 DEF Return
<1>6. ASSUME NEW s \in Sessions, Crash(s) PROVE TypeOK'
  BY <1>6 DEF Crash
<1>7. ASSUME NEW s \in Sessions, Clear(s) PROVE TypeOK'
  BY <1>7 DEF Clear
<1>8. CASE UNCHANGED vars
  BY <1>8 DEF vars
<1> QED
  BY <1>1, <1>2, <1>3, <1>4, <1>5, <1>6, <1>7, <1>8 DEF Next

\* Every row, session and history variable keeps its type.
THEOREM TypeCorrect == Spec => []TypeOK
<1>1. Init => TypeOK
  BY DEF Init, TypeOK
<1>2. TypeOK /\ [Next]_vars => TypeOK'
  BY TypeStep
<1> QED
  BY <1>1, <1>2, PTL DEF Spec

-----------------------------------------------------------------------------
(* A transaction owns the row it has chosen until it commits; a committed  *)
(* reader is alone in holding its row, which nobody has received yet.      *)

Locking ==
  /\ \A s, u \in Sessions : s # u => locks[s] \cap locks[u] = {}
  /\ \A s \in Sessions :
       pc[s] = "selected" /\ wid[s] \in Msgs =>
         wid[s] \in locks[s] /\ status[wid[s]] = "unread"
  /\ \A s \in Sessions : pc[s] # "selected" => locks[s] = {}

Holding ==
  /\ \A s \in Sessions :
       pc[s] = "committed" =>
         /\ status[wid[s]] \in {"read", "deleted"}
         /\ copies[wid[s]] = 0 /\ wid[s] \notin lost
  /\ \A s, u \in Sessions :
       pc[s] = "committed" /\ pc[u] = "committed" /\ wid[s] = wid[u] => s = u

Untouched ==
  \A m \in Msgs :
    status[m] \in {"absent", "unread", "cleared"} => copies[m] = 0 /\ m \notin lost

QueueInv == TypeOK /\ Locking /\ Holding /\ Untouched /\ AtMostOnce

LEMMA QueueStep ==
  ASSUME TypeOK', QueueInv, [Next]_vars
  PROVE  QueueInv'
<1> SUFFICES Locking' /\ Holding' /\ Untouched' /\ AtMostOnce'
  BY DEF QueueInv
<1> USE AddressAssumption DEF QueueInv, TypeOK
<1>1. ASSUME NEW m \in Msgs, Send(m) \/ UpdateMessage(m) \/ DeleteMessage(m)
      PROVE  Locking' /\ Holding' /\ Untouched' /\ AtMostOnce'
  <2>1. /\ UNCHANGED <<pc, wid, locks, copies, lost>>
        /\ \A n \in Msgs : n # m => status'[n] = status[n]
    BY <1>1 DEF Send, UpdateMessage, DeleteMessage
  <2>2. CASE Send(m)
    BY <2>1, <2>2 DEF Send, Locking, Holding, Untouched, AtMostOnce
  <2>3. CASE UpdateMessage(m)
    BY <2>1, <2>3 DEF UpdateMessage, Locking, Holding, Untouched, AtMostOnce
  <2>4. CASE DeleteMessage(m)
    BY <2>1, <2>4
    DEF DeleteMessage, Unlocked, Locking, Holding, Untouched, AtMostOnce
  <2> QED
    BY <1>1, <2>2, <2>3, <2>4
<1>2. ASSUME NEW s \in Sessions, Select(s)
      PROVE  Locking' /\ Holding' /\ Untouched' /\ AtMostOnce'
  <2>1. PICK scanned \in SUBSET Free(s) :
          /\ locks' = [locks EXCEPT ![s] = scanned]
          /\ IF Candidates(s) = {}
             THEN wid' = [wid EXCEPT ![s] = NoMsg]
             ELSE \E m \in Candidates(s) \cap scanned : wid' = [wid EXCEPT ![s] = m]
    BY <1>2 DEF Select
  <2>2. wid'[s] \in Msgs => wid'[s] \in scanned /\ status[wid'[s]] = "unread"
    <3>1. CASE Candidates(s) = {}
      BY <2>1, <3>1
    <3>2. CASE Candidates(s) # {}
      <4>1. PICK m \in Candidates(s) \cap scanned : wid' = [wid EXCEPT ![s] = m]
        BY <2>1, <3>2
      <4>2. status[m] = "unread"
        BY DEF Candidates
      <4> QED
        BY <4>1, <4>2
    <3> QED
      BY <3>1, <3>2
  <2>3. /\ pc[s] = "ready" /\ pc' = [pc EXCEPT ![s] = "selected"]
        /\ UNCHANGED <<status, copies, lost>>
        /\ \A u \in Sessions : u # s => wid'[u] = wid[u]
    BY <1>2 DEF Select
  <2>4. Locking'
    BY <2>1, <2>3, <2>2 DEF Locking, Free
  <2> QED
    BY <2>3, <2>4 DEF Holding, Untouched, AtMostOnce
<1>3. ASSUME NEW s \in Sessions, Commit(s)
      PROVE  Locking' /\ Holding' /\ Untouched' /\ AtMostOnce'
  <2>1. /\ pc[s] = "selected"
        /\ locks' = [locks EXCEPT ![s] = {}]
        /\ UNCHANGED <<wid, copies, lost>>
        /\ pc' = [pc EXCEPT ![s] = IF wid[s] = NoMsg THEN "ready" ELSE "committed"]
        /\ \A m \in Msgs :
             status'[m] = IF m = wid[s] /\ status[m] = "unread" THEN "read" ELSE status[m]
    BY <1>3 DEF Commit
  <2>2. Locking'
    BY <2>1 DEF Locking
  <2>3. Holding'
    BY <2>1 DEF Locking, Holding, Untouched
  <2>4. Untouched' /\ AtMostOnce'
    BY <2>1 DEF Untouched, AtMostOnce
  <2> QED
    BY <2>2, <2>3, <2>4
<1>4. ASSUME NEW s \in Sessions, Rollback(s)
      PROVE  Locking' /\ Holding' /\ Untouched' /\ AtMostOnce'
  BY <1>4 DEF Rollback, Locking, Holding, Untouched, AtMostOnce
<1>5. ASSUME NEW s \in Sessions, Return(s)
      PROVE  Locking' /\ Holding' /\ Untouched' /\ AtMostOnce'
  <2>1. /\ pc[s] = "committed" /\ pc' = [pc EXCEPT ![s] = "ready"]
        /\ wid' = [wid EXCEPT ![s] = NoMsg]
        /\ UNCHANGED <<status, locks, lost>>
        /\ \A m \in Msgs : copies'[m] = copies[m] \/ (m = wid[s] /\ copies'[m] = copies[m] + 1)
    BY <1>5 DEF Return
  <2>2. Locking'
    BY <2>1 DEF Locking
  <2>3. Holding'
    BY <2>1 DEF Holding
  <2>4. Untouched' /\ AtMostOnce'
    BY <2>1 DEF Holding, Untouched, AtMostOnce
  <2> QED
    BY <2>2, <2>3, <2>4
<1>6. ASSUME NEW s \in Sessions, Crash(s)
      PROVE  Locking' /\ Holding' /\ Untouched' /\ AtMostOnce'
  BY <1>6 DEF Crash, Locking, Holding, Untouched, AtMostOnce
<1>7. ASSUME NEW s \in Sessions, Clear(s)
      PROVE  Locking' /\ Holding' /\ Untouched' /\ AtMostOnce'
  <2>1. /\ UNCHANGED <<pc, wid, locks, copies, lost>>
        /\ \A m \in Msgs :
             status'[m] = IF m \in ToClear(s) THEN "cleared" ELSE status[m]
        /\ \A m \in ToClear(s) : status[m] = "unread" /\ m \in Unlocked
    BY <1>7 DEF Clear, ToClear
  <2>2. Locking'
    BY <2>1 DEF Locking, Unlocked
  <2>3. Holding' /\ Untouched' /\ AtMostOnce'
    BY <2>1 DEF Holding, Untouched, AtMostOnce
  <2> QED
    BY <2>2, <2>3
<1>8. CASE UNCHANGED vars
  BY <1>8 DEF vars, Locking, Holding, Untouched, AtMostOnce
<1> QED
  BY <1>1, <1>2, <1>3, <1>4, <1>5, <1>6, <1>7, <1>8 DEF Next

LEMMA QueueInit == Init => QueueInv
  BY AddressAssumption
  DEF Init, QueueInv, TypeOK, Locking, Holding, Untouched, AtMostOnce

LEMMA QueueInvariant == Spec => []QueueInv
<1>1. QueueInv /\ [Next]_vars => QueueInv'
  BY TypeStep, QueueStep DEF QueueInv
<1> QED
  BY <1>1, QueueInit, PTL DEF Spec

\* No message is handed out twice, whatever procedures the readers call.
THEOREM HandedOutOnce == Spec => []AtMostOnce
  BY QueueInvariant, PTL DEF QueueInv

\* What the processor has cleared, no reader has received or will receive.
THEOREM ClearIsFinal == Spec => []ClearedIsNeverRead
<1>1. QueueInv => ClearedIsNeverRead
  BY DEF QueueInv, TypeOK, Holding, Untouched, ClearedIsNeverRead, Held
<1> QED
  BY <1>1, QueueInvariant, PTL

-----------------------------------------------------------------------------
(* What a reader has chosen it claims, so it will return it unless the row *)
(* is one of those that some reader claims by mistake.                     *)

Accounted ==
  /\ ReadIsDelivered
  /\ \A s \in Sessions :
       pc[s] \in {"selected", "committed"} /\ wid[s] \in Msgs => Claims(s, wid[s])

LEMMA AccountedInit == Init => Accounted
  BY AddressAssumption DEF Init, Accounted, ReadIsDelivered

LEMMA AccountedStep ==
  ASSUME QueueInv, QueueInv', Accounted, [Next]_vars
  PROVE  Accounted'
<1> USE AddressAssumption DEF QueueInv, TypeOK, Accounted, ReadIsDelivered, Held
<1>0. /\ \A s \in Sessions : Claims(s, wid[s])' <=> Claims(s, wid'[s])
      /\ \A m \in Msgs : Mistaken(m)' <=> Mistaken(m)
  BY DEF Mistaken, Claims, Returns, Agree
<1>1. ASSUME NEW m \in Msgs, Send(m) \/ UpdateMessage(m) \/ DeleteMessage(m)
      PROVE  Accounted'
  BY <1>0, <1>1 DEF Send, UpdateMessage, DeleteMessage
<1>2. ASSUME NEW s \in Sessions, Select(s)
      PROVE  Accounted'
  <2>1. wid'[s] \in Msgs => Claims(s, wid'[s])
    BY <1>2 DEF Select, Candidates
  <2> QED
    BY <1>0, <1>2, <2>1 DEF Select
<1>3. ASSUME NEW s \in Sessions, Commit(s)
      PROVE  Accounted'
  BY <1>0, <1>3 DEF Commit
<1>4. ASSUME NEW s \in Sessions, Rollback(s)
      PROVE  Accounted'
  BY <1>0, <1>4 DEF Rollback
<1>5. ASSUME NEW s \in Sessions, Return(s)
      PROVE  Accounted'
  <2>1. wid[s] \in Msgs /\ Claims(s, wid[s])
    BY <1>5 DEF Return
  <2>2. copies'[wid[s]] > 0 \/ Mistaken(wid[s])
    BY <1>5, <2>1 DEF Return, Mistaken
  <2>3. \A m \in Msgs : m # wid[s] => copies'[m] = copies[m]
    BY <1>5 DEF Return
  <2>4. ReadIsDelivered'
    BY <1>0, <1>5, <2>2, <2>3 DEF Return
  <2> QED
    BY <1>0, <1>5, <2>4 DEF Return
<1>6. ASSUME NEW s \in Sessions, Crash(s)
      PROVE  Accounted'
  BY <1>0, <1>6 DEF Crash
<1>7. ASSUME NEW s \in Sessions, Clear(s)
      PROVE  Accounted'
  BY <1>0, <1>7 DEF Clear
<1>8. CASE UNCHANGED vars
  BY <1>0, <1>8 DEF vars
<1> QED
  BY <1>1, <1>2, <1>3, <1>4, <1>5, <1>6, <1>7, <1>8 DEF Next

\* The hidden columns are the only thing that uses messages up, whichever of
\* the procedures the readers call: any other row that is marked as read has
\* reached, or was lost with, a reader it was for.
THEOREM NothingUsedUp == Spec => []ReadIsDelivered
<1>1. QueueInv /\ QueueInv' /\ Accounted /\ [Next]_vars => Accounted'
  BY AccountedStep
<1>2. Accounted => ReadIsDelivered
  BY DEF Accounted
<1> QED
  BY <1>1, <1>2, AccountedInit, QueueInvariant, PTL DEF Spec

-----------------------------------------------------------------------------
(* The refinement: where each message is, in the words of AtMostOnceQueue. *)

Pending == {m \in Msgs : status[m] = "unread"}
Taken == {m \in Msgs : Held(m)}
Handed == {m \in Msgs : copies[m] > 0}
Dropped ==
  {m \in Msgs : status[m] \notin {"absent", "unread"} /\ copies[m] = 0 /\ ~Held(m)}
places == <<Pending, Taken, Handed, Dropped>>

LEMMA PlaceInit == Init => Abstract!QInit
  BY DEF Init, Abstract!QInit, Held

LEMMA DropPlaces ==
  \A S \in SUBSET Msgs :
    /\ S \subseteq Pending \cup Taken
    /\ Pending' = Pending \ S /\ Taken' = Taken \ S
    /\ Dropped' = Dropped \cup S /\ Handed' = Handed
    => Abstract!QNext
  BY DEF Abstract!QNext, Abstract!Drop, Pending, Taken, Handed, Dropped

LEMMA SamePlaces ==
  UNCHANGED places => UNCHANGED Abstract!qvars
  BY DEF places, Abstract!qvars, Pending, Taken, Handed, Dropped

\* Every step of the table and its readers is a step of the abstract queue.
LEMMA PlaceStep ==
  ASSUME QueueInv, QueueInv', [Next]_vars
  PROVE  [Abstract!QNext]_(Abstract!qvars)
<1> USE AddressAssumption
<1> USE DEF QueueInv, TypeOK
<1>1. ASSUME NEW m \in Msgs, Send(m)
      PROVE  Abstract!QNext
  <2>1. \A n \in Msgs : Held(n)' <=> Held(n)
    BY <1>1 DEF Send, Held
  <2>2. copies[m] = 0 /\ ~Held(m)
    BY <1>1 DEF Send, Untouched, Holding, Held
  <2>3. Pending' = Pending \cup {m} /\ UNCHANGED <<Taken, Handed, Dropped>>
    BY <1>1, <2>1 DEF Send, Pending, Taken, Handed, Dropped
  <2>4. m \notin Pending \cup Taken \cup Handed \cup Dropped
    BY <1>1, <2>2 DEF Send, Pending, Taken, Handed, Dropped
  <2> QED
    BY <2>3, <2>4
    DEF Abstract!QNext, Abstract!Send, Abstract!Unsent, Pending, Taken, Handed, Dropped
<1>2. ASSUME NEW m \in Msgs, UpdateMessage(m)
      PROVE  UNCHANGED Abstract!qvars
  <2>1. \A n \in Msgs : Held(n)' <=> Held(n)
    BY <1>2 DEF UpdateMessage, Held
  <2>2. UNCHANGED places
    BY <1>2, <2>1 DEF UpdateMessage, places, Pending, Taken, Handed, Dropped
  <2> QED
    BY <2>2, SamePlaces
<1>3. ASSUME NEW m \in Msgs, DeleteMessage(m)
      PROVE  Abstract!QNext \/ UNCHANGED Abstract!qvars
  <2>1. /\ \A n \in Msgs : Held(n)' <=> Held(n)
        /\ UNCHANGED copies
        /\ \A n \in Msgs : status'[n] = IF n = m THEN "deleted" ELSE status[n]
        /\ status[m] \notin {"absent", "deleted"}
    BY <1>3 DEF DeleteMessage, Held
  <2>2. CASE status[m] = "unread"
    <3>1. copies[m] = 0 /\ ~Held(m)
      BY <2>2 DEF Untouched, Holding, Held
    <3>2. /\ Pending' = Pending \ {m} /\ Taken' = Taken \ {m}
          /\ Dropped' = Dropped \cup {m} /\ Handed' = Handed
      BY <2>1, <2>2, <3>1 DEF Pending, Taken, Handed, Dropped
    <3>3. {m} \in SUBSET Msgs /\ {m} \subseteq Pending \cup Taken
      BY <2>2 DEF Pending
    <3> QED
      BY <3>2, <3>3, DropPlaces
  <2>3. CASE status[m] # "unread"
    <3>1. UNCHANGED places
      BY <2>1, <2>3 DEF places, Pending, Taken, Handed, Dropped
    <3> QED
      BY <3>1, SamePlaces
  <2> QED
    BY <2>2, <2>3
<1>4. ASSUME NEW s \in Sessions, Select(s) \/ Rollback(s)
      PROVE  UNCHANGED Abstract!qvars
  <2>1. /\ UNCHANGED <<status, copies>>
        /\ pc[s] # "committed" /\ pc'[s] # "committed"
        /\ \A u \in Sessions : u # s => pc'[u] = pc[u] /\ wid'[u] = wid[u]
    BY <1>4 DEF Select, Rollback
  <2>2. \A n \in Msgs : Held(n)' <=> Held(n)
    BY <2>1 DEF Held
  <2>3. UNCHANGED places
    BY <2>1, <2>2 DEF places, Pending, Taken, Handed, Dropped
  <2> QED
    BY <2>3, SamePlaces
<1>5. ASSUME NEW s \in Sessions, Commit(s)
      PROVE  Abstract!QNext \/ UNCHANGED Abstract!qvars
  <2>1. /\ pc[s] = "selected" /\ UNCHANGED <<wid, copies>>
        /\ \A u \in Sessions : u # s => pc'[u] = pc[u]
        /\ pc'[s] = IF wid[s] = NoMsg THEN "ready" ELSE "committed"
        /\ \A n \in Msgs :
             status'[n] = IF n = wid[s] /\ status[n] = "unread" THEN "read" ELSE status[n]
    BY <1>5 DEF Commit
  <2>2. CASE wid[s] = NoMsg
    <3>1. \A n \in Msgs : Held(n)' <=> Held(n)
      BY <2>1, <2>2 DEF Held
    <3>2. UNCHANGED places
      BY <2>1, <2>2, <3>1 DEF places, Pending, Taken, Handed, Dropped
    <3> QED
      BY <3>2, SamePlaces
  <2>3. CASE wid[s] # NoMsg
    <3>1. PICK m \in Msgs : m = wid[s]
      BY <2>3
    <3>2. status[m] = "unread" /\ copies[m] = 0
      BY <2>1, <3>1 DEF Locking, Untouched
    <3>3. \A n \in Msgs : Held(n)' <=> Held(n) \/ n = m
      BY <2>1, <2>3, <3>1 DEF Held
    <3>4. Pending' = Pending \ {m} /\ Taken' = Taken \cup {m}
      BY <2>1, <3>1, <3>2, <3>3 DEF Pending, Taken
    <3>5. Handed' = Handed /\ Dropped' = Dropped
      BY <2>1, <3>1, <3>2, <3>3 DEF Handed, Dropped
    <3>6. m \in Pending
      BY <3>2 DEF Pending
    <3> QED
      BY <3>4, <3>5, <3>6
      DEF Abstract!QNext, Abstract!Take, Pending, Taken, Handed, Dropped
  <2> QED
    BY <2>2, <2>3
<1>6. ASSUME NEW s \in Sessions, Return(s)
      PROVE  Abstract!QNext
  <2>1. PICK m \in Msgs : m = wid[s]
    BY <1>6 DEF Return
  <2>2. /\ pc[s] = "committed" /\ pc'[s] = "ready" /\ UNCHANGED status
        /\ \A u \in Sessions : u # s => pc'[u] = pc[u] /\ wid'[u] = wid[u]
        /\ \A n \in Msgs :
             copies'[n] = IF n = m /\ Returns(s, n) THEN copies[n] + 1 ELSE copies[n]
    BY <1>6, <2>1 DEF Return
  <2>3. status[m] \in {"read", "deleted"} /\ copies[m] = 0 /\ Held(m)
    BY <2>1, <2>2 DEF Holding, Held
  <2>4. \A n \in Msgs : Held(n)' <=> Held(n) /\ n # m
    BY <2>1, <2>2 DEF Holding, Held
  <2>5. Pending' = Pending /\ Taken' = Taken \ {m}
    BY <2>2, <2>4 DEF Pending, Taken
  <2>6. m \in Taken /\ m \notin Pending
    BY <2>3 DEF Taken, Pending
  <2>7. CASE Returns(s, m)
    <3>1. Handed' = Handed \cup {m}
      BY <2>2, <2>3, <2>7 DEF Handed
    <3>2. Dropped' = Dropped
      BY <2>2, <2>3, <2>4, <2>7 DEF Dropped
    <3> QED
      BY <2>5, <2>6, <3>1, <3>2
      DEF Abstract!QNext, Abstract!Deliver, Pending, Taken, Handed, Dropped
  <2>8. CASE ~Returns(s, m)
    <3>1. Handed' = Handed
      BY <2>2, <2>8 DEF Handed
    <3>2. Dropped' = Dropped \cup {m}
      BY <2>2, <2>3, <2>4, <2>8 DEF Dropped
    <3>3. {m} \in SUBSET Msgs /\ {m} \subseteq Pending \cup Taken
      BY <2>6
    <3>4. Pending' = Pending \ {m}
      BY <2>5, <2>6
    <3> QED
      BY <2>5, <3>1, <3>2, <3>3, <3>4, DropPlaces
  <2> QED
    BY <2>7, <2>8
<1>7. ASSUME NEW s \in Sessions, Crash(s)
      PROVE  Abstract!QNext
  <2>1. PICK m \in Msgs : m = wid[s]
    BY <1>7 DEF Crash
  <2>2. /\ pc[s] = "committed" /\ pc'[s] = "ready" /\ UNCHANGED <<status, copies>>
        /\ \A u \in Sessions : u # s => pc'[u] = pc[u] /\ wid'[u] = wid[u]
    BY <1>7 DEF Crash
  <2>3. status[m] \in {"read", "deleted"} /\ copies[m] = 0 /\ Held(m)
    BY <2>1, <2>2 DEF Holding, Held
  <2>4. \A n \in Msgs : Held(n)' <=> Held(n) /\ n # m
    BY <2>1, <2>2 DEF Holding, Held
  <2>5. /\ Pending' = Pending \ {m} /\ Taken' = Taken \ {m}
        /\ Dropped' = Dropped \cup {m} /\ Handed' = Handed
    BY <2>2, <2>3, <2>4 DEF Pending, Taken, Handed, Dropped
  <2>6. {m} \in SUBSET Msgs /\ {m} \subseteq Pending \cup Taken
    BY <2>3 DEF Taken
  <2> QED
    BY <2>5, <2>6, DropPlaces
<1>8. ASSUME NEW s \in Sessions, Clear(s)
      PROVE  Abstract!QNext
  <2> DEFINE S == ToClear(s)
  <2>1. /\ UNCHANGED <<pc, wid, copies>>
        /\ \A n \in Msgs : status'[n] = IF n \in S THEN "cleared" ELSE status[n]
    BY <1>8 DEF Clear
  <2>2. S \subseteq Msgs /\ \A n \in S : status[n] = "unread"
    BY DEF ToClear
  <2>3. \A n \in Msgs : Held(n)' <=> Held(n)
    BY <2>1 DEF Held
  <2>4. \A n \in S : copies[n] = 0 /\ ~Held(n)
    BY <2>2 DEF Untouched, Holding, Held
  <2> HIDE DEF S
  <2>5. /\ Pending' = Pending \ S /\ Taken' = Taken \ S
        /\ Dropped' = Dropped \cup S /\ Handed' = Handed
    BY <2>1, <2>2, <2>3, <2>4 DEF Pending, Taken, Handed, Dropped
  <2>6. S \subseteq Pending \cup Taken
    BY <2>2 DEF Pending
  <2> QED
    BY <2>2, <2>5, <2>6, DropPlaces
<1>9. CASE UNCHANGED vars
  <2>1. UNCHANGED places
    BY <1>9 DEF vars, places, Pending, Taken, Handed, Dropped, Held
  <2> QED
    BY <2>1, SamePlaces
<1> QED
  BY <1>1, <1>2, <1>3, <1>4, <1>5, <1>6, <1>7, <1>8, <1>9 DEF Next

\* The table and its procedures implement the abstract at-most-once queue, for
\* any messages, sessions, addresses and procedures (sp.sql:317-545).
THEOREM ImplementsQueue == Spec => ImplementsAtMostOnce
  BY PlaceInit, PlaceStep, QueueInvariant, PTL
  DEF Spec, ImplementsAtMostOnce, Abstract!QSpec

-----------------------------------------------------------------------------
(* What a step means for the queue: one of its own, or a commit whose      *)
(* answer is lost with the connection.                                     *)

Interrupted(s) ==
  /\ pc[s] = "selected" /\ wid[s] # NoMsg
  /\ status' = [status EXCEPT ![wid[s]] = "read"]
  /\ lost' = lost \cup {wid[s]}
  /\ locks' = [locks EXCEPT ![s] = {}]
  /\ wid' = [wid EXCEPT ![s] = NoMsg]
  /\ pc' = [pc EXCEPT ![s] = "ready"]
  /\ UNCHANGED <<written, prio, clock, copies>>

QueueMoves == [Next]_vars \/ \E s \in Sessions : Interrupted(s)

ReaderTypes ==
  /\ at \in [Readers -> {"idle", "poll", "sleep", "work", "gone"}]
  /\ asking \in [Readers -> Nat]
  /\ \A r \in Readers : asking[r] \in DOMAIN Asks[r]

LEMMA SessionTyped ==
  ASSUME ReaderTypes, NEW r \in Readers
  PROVE  Session(r) \in Sessions /\ Asks[r][1] \in Sessions /\ 1 \in DOMAIN Asks[r]
  BY ReaderAssumption DEF ReaderTypes, Session

LEMMA BreakMoves ==
  ASSUME NEW s \in Sessions, Break(s)
  PROVE  QueueMoves
  BY DEF Break, Interrupted, QueueMoves, Next

LEMMA KilledMoves ==
  ASSUME ReaderTypes, NEW r \in Readers, Killed(r)
  PROVE  QueueMoves
<1>1. CASE Break(Session(r))
  BY <1>1, SessionTyped, BreakMoves
<1>2. CASE UNCHANGED queue
  BY <1>2 DEF queue, QueueMoves
<1> QED
  BY <1>1, <1>2 DEF Killed

LEMMA StepMoves ==
  ASSUME ReaderTypes, [NNext]_nvars
  PROVE  QueueMoves
<1>1. ASSUME UNCHANGED queue
      PROVE  QueueMoves
  BY <1>1 DEF queue, QueueMoves
<1>2. ASSUME NEW m \in Msgs, Insert(m)
      PROVE  QueueMoves
  BY <1>2 DEF Insert, QueueMoves, Next
<1>3. ASSUME NEW r \in Readers,
             Begin(r) \/ Poll(r) \/ Polled(r) \/ Receives(r) \/ Worked(r) \/ Timeout(r) \/ GiveUp(r)
      PROVE  QueueMoves
  <2>1. Session(r) \in Sessions /\ Asks[r][1] \in Sessions
    BY SessionTyped
  <2>2. CASE UNCHANGED queue
    BY <1>1, <2>2
  <2>3. CASE Clear(Asks[r][1]) \/ Select(Session(r)) \/ Commit(Session(r)) \/ Return(Session(r))
    BY <2>1, <2>3 DEF QueueMoves, Next
  <2> QED
    BY <1>3, <2>2, <2>3 DEF Begin, Poll, Polled, Receives, Worked, Timeout, GiveUp
<1>4. ASSUME NEW r \in Readers, Kill(r) \/ FindInputWaiter(r) \/ KillInputWaiter(r)
      PROVE  QueueMoves
  BY <1>1, <1>4, KilledMoves DEF Kill, FindInputWaiter, KillInputWaiter
<1>5. ASSUME Collect \/ StreamFails \/ TakeEvent \/ Search \/ ProcessingFails \/ Finish
      PROVE  QueueMoves
  BY <1>1, <1>5 DEF Collect, StreamFails, TakeEvent, Search, ProcessingFails, Finish
<1> QED
  BY <1>1, <1>2, <1>3, <1>4, <1>5 DEF NNext, nvars

-----------------------------------------------------------------------------
(* The queue's invariant survives the KILLs. *)

LEMMA InterruptedQueue ==
  ASSUME QueueInv, NEW s \in Sessions, Interrupted(s)
  PROVE  QueueInv'
<1> USE AddressAssumption DEF QueueInv, TypeOK
<1>1. PICK m \in Msgs : m = wid[s]
  BY DEF Interrupted
<1>2. /\ pc[s] = "selected" /\ status[m] = "unread" /\ copies[m] = 0
      /\ status' = [status EXCEPT ![m] = "read"] /\ lost' = lost \cup {m}
      /\ m \in locks[s]
  BY <1>1 DEF Interrupted, Locking, Untouched
<1>3. TypeOK'
  BY <1>1 DEF Interrupted
<1>4. Locking'
  BY <1>1, <1>2 DEF Interrupted, Locking
<1>5. Holding'
  BY <1>1, <1>2 DEF Interrupted, Holding
<1>6. Untouched' /\ AtMostOnce'
  BY <1>1, <1>2 DEF Interrupted, Untouched, AtMostOnce
<1> QED
  BY <1>3, <1>4, <1>5, <1>6

LEMMA QueueKept ==
  ASSUME QueueInv, QueueMoves
  PROVE  QueueInv'
<1>1. CASE [Next]_vars
  BY <1>1, TypeStep, QueueStep DEF QueueInv
<1> QED
  BY <1>1, InterruptedQueue DEF QueueMoves

\* A message promised to one reader (and no more) in the abstract queue is
\* dropped when the answer of its commit is lost.
LEMMA PlacesKept ==
  ASSUME QueueInv, QueueMoves
  PROVE  [Abstract!QNext]_(Abstract!qvars)
<1>1. QueueInv'
  BY QueueKept
<1>2. CASE [Next]_vars
  BY <1>1, <1>2, PlaceStep
<1>3. ASSUME NEW s \in Sessions, Interrupted(s)
      PROVE  Abstract!QNext
  <2> USE AddressAssumption DEF QueueInv, TypeOK
  <2>1. PICK m \in Msgs : m = wid[s]
    BY <1>3 DEF Interrupted
  <2>2. /\ pc[s] = "selected" /\ pc'[s] = "ready" /\ UNCHANGED copies
        /\ \A u \in Sessions : u # s => pc'[u] = pc[u] /\ wid'[u] = wid[u]
        /\ \A n \in Msgs : status'[n] = IF n = m THEN "read" ELSE status[n]
    BY <1>3, <2>1 DEF Interrupted
  <2>3. status[m] = "unread" /\ copies[m] = 0 /\ ~Held(m)
    BY <2>1, <2>2 DEF Locking, Untouched, Holding, Held
  <2>4. \A n \in Msgs : Held(n)' <=> Held(n)
    BY <2>2 DEF Held
  <2>5. /\ Pending' = Pending \ {m} /\ Taken' = Taken \ {m}
        /\ Dropped' = Dropped \cup {m} /\ Handed' = Handed
    BY <2>2, <2>3, <2>4 DEF Pending, Taken, Handed, Dropped
  <2>6. {m} \in SUBSET Msgs /\ {m} \subseteq Pending \cup Taken
    BY <2>3 DEF Pending
  <2> QED
    BY <2>5, <2>6, DropPlaces
<1> QED
  BY <1>2, <1>3 DEF QueueMoves

-----------------------------------------------------------------------------
(* Types. *)

\* A row has one or two searches.
LEMMA SearchesTyped ==
  ASSUME NEW m \in Msgs
  PROVE  /\ Len(Searches(m)) \in Nat
         /\ DOMAIN Searches(m) = 1 .. Len(Searches(m))
<1> DEFINE row == Address[m]
           A == {<<row.wob>>, <<row.wob, row.target>>, <<row.group>>}
           first == IF row.target = "processor" THEN <<<<row.wob>>>> ELSE <<>>
<1>1. <<row.wob>> \in A /\ <<row.wob, row.target>> \in A /\ <<row.group>> \in A
  OBVIOUS
<1>2. first = IF row.target = "processor" THEN <<<<row.wob>>>> ELSE <<>>
  OBVIOUS
<1>3. Searches(m) = IF row.target = "job" THEN <<<<row.group>>>>
                    ELSE first \o <<<<row.wob, row.target>>>>
  BY DEF Searches
<1> HIDE DEF first, A
<1>4. \A x \in A : <<x>> \in Seq(A)
  OBVIOUS
<1>5. first \in Seq(A) /\ <<<<row.wob, row.target>>>> \in Seq(A) /\ <<<<row.group>>>> \in Seq(A)
  <2>1. <<>> \in Seq(A)
    OBVIOUS
  <2> QED
    BY <1>1, <1>2, <1>4, <2>1
<1>6. Searches(m) \in Seq(A)
  BY <1>5, <1>3, ConcatProperties
<1> QED
  BY <1>6

LEMMA GoesTyped ==
  ASSUME ReaderTypes, NEW r \in Readers, NEW place \in {"idle", "poll", "sleep", "work", "gone"},
         Goes(r, place)
  PROVE  ReaderTypes'
  BY SessionTyped DEF ReaderTypes, Goes

LEMMA FindsNothingTyped ==
  ASSUME ReaderTypes, NEW r \in Readers, FindsNothing(r)
  PROVE  ReaderTypes'
<1>1. CASE asking[r] < Len(Asks[r])
  BY <1>1, ReaderAssumption DEF FindsNothing, ReaderTypes
<1>2. CASE ~(asking[r] < Len(Asks[r]))
  BY <1>2, GoesTyped DEF FindsNothing
<1> QED
  BY <1>1, <1>2

LEMMA KilledTyped ==
  ASSUME ReaderTypes, NEW r \in Readers, Killed(r)
  PROVE  ReaderTypes'
<1>1. ASSUME UNCHANGED reader
      PROVE  ReaderTypes'
  BY <1>1 DEF reader, ReaderTypes
<1> QED
  BY <1>1, GoesTyped DEF Killed, Fails

LEMMA ReaderStepTyped ==
  ASSUME ReaderTypes, NEW r \in Readers,
         Begin(r) \/ Poll(r) \/ Polled(r) \/ Receives(r) \/ Worked(r) \/ Timeout(r) \/ GiveUp(r)
  PROVE  ReaderTypes'
<1>1. ASSUME UNCHANGED reader
      PROVE  ReaderTypes'
  BY <1>1 DEF reader, ReaderTypes
<1>2. CASE Begin(r) \/ Worked(r) \/ Timeout(r) \/ GiveUp(r)
  BY <1>2, GoesTyped DEF Begin, Worked, Timeout, GiveUp
<1>3. CASE Poll(r) \/ Polled(r)
  BY <1>1, <1>3, FindsNothingTyped DEF Poll, Polled
<1>4. CASE Receives(r)
  BY <1>4, FindsNothingTyped, GoesTyped DEF Receives
<1> QED
  BY <1>2, <1>3, <1>4

LEMMA ReadersTyped ==
  ASSUME ReaderTypes, [NNext]_nvars
  PROVE  ReaderTypes'
<1>1. ASSUME UNCHANGED reader
      PROVE  ReaderTypes'
  BY <1>1 DEF reader, ReaderTypes
<1>2. ASSUME NEW r \in Readers, Kill(r) \/ FindInputWaiter(r) \/ KillInputWaiter(r)
      PROVE  ReaderTypes'
  BY <1>1, <1>2, KilledTyped DEF Kill, FindInputWaiter, KillInputWaiter
<1>3. ASSUME NEW m \in Msgs, Insert(m)
      PROVE  ReaderTypes'
  BY <1>1, <1>3 DEF Insert
<1>4. ASSUME Collect \/ StreamFails \/ TakeEvent \/ Search \/ ProcessingFails \/ Finish
      PROVE  ReaderTypes'
  BY <1>1, <1>4 DEF Collect, StreamFails, TakeEvent, Search, ProcessingFails, Finish
<1> QED
  BY <1>1, <1>2, <1>3, <1>4, ReaderStepTyped DEF NNext, nvars

StreamTypes ==
  /\ binlog \in Seq(Msgs) /\ events \in Seq(Msgs) /\ Len(events) <= MaxEvents

KillerTypes ==
  /\ hand \in Msgs \cup {NoMsg}
  /\ failures \in 0 .. MaxFailures
  /\ search \in 0 .. IF hand = NoMsg THEN 0 ELSE Len(Searches(hand))
  /\ victims \subseteq Readers /\ found \subseteq Readers /\ slept \subseteq Readers

LEMMA StreamTyped ==
  ASSUME StreamTypes, [NNext]_nvars
  PROVE  StreamTypes'
<1>1. ASSUME UNCHANGED stream
      PROVE  StreamTypes'
  BY <1>1 DEF stream, StreamTypes
<1>2. ASSUME NEW m \in Msgs, Insert(m)
      PROVE  StreamTypes'
  BY <1>2 DEF Insert, StreamTypes
<1>3. ASSUME NEW r \in Readers,
             \/ Begin(r) \/ Poll(r) \/ Polled(r) \/ Receives(r) \/ Worked(r) \/ Timeout(r)
             \/ GiveUp(r) \/ Kill(r) \/ FindInputWaiter(r) \/ KillInputWaiter(r)
      PROVE  StreamTypes'
  BY <1>1, <1>3
  DEF Begin, Poll, Polled, Receives, Worked, Timeout, GiveUp, Kill, FindInputWaiter,
      KillInputWaiter
<1>4. CASE Collect
  <2>1. Head(binlog) \in Msgs /\ Tail(binlog) \in Seq(Msgs)
    BY <1>4 DEF Collect, StreamTypes
  <2> QED
    BY <1>4, <2>1, ReaderAssumption DEF Collect, StreamTypes
<1>5. CASE StreamFails
  BY <1>5 DEF StreamFails, StreamTypes
<1>6. CASE TakeEvent
  BY <1>6, ReaderAssumption DEF TakeEvent, StreamTypes
<1>7. CASE Search \/ ProcessingFails \/ Finish
  BY <1>1, <1>7 DEF Search, ProcessingFails, Finish
<1> QED
  BY <1>1, <1>2, <1>3, <1>4, <1>5, <1>6, <1>7 DEF NNext, nvars

\* Only what a reader does changes who is asleep, and takes him off the list.
LEMMA KilledSleepers ==
  ASSUME NEW r \in Readers, Killed(r)
  PROVE  slept' \subseteq slept
  BY DEF Killed, Fails, Goes, reader

LEMMA KillerTyped ==
  ASSUME ReaderTypes, StreamTypes, KillerTypes, [NNext]_nvars
  PROVE  KillerTypes'
<1>1. ASSUME UNCHANGED killer, found' \subseteq found, slept' \subseteq slept
      PROVE  KillerTypes'
  BY <1>1 DEF killer, KillerTypes
<1>2. ASSUME NEW m \in Msgs, Insert(m)
      PROVE  KillerTypes'
  BY <1>1, <1>2 DEF Insert
<1>3. ASSUME NEW r \in Readers,
             Begin(r) \/ Poll(r) \/ Polled(r) \/ Receives(r) \/ Worked(r) \/ Timeout(r) \/ GiveUp(r)
      PROVE  KillerTypes'
  <2>1. UNCHANGED <<killer, found>> /\ slept' \subseteq slept
    BY <1>3 DEF Begin, Poll, Polled, Receives, Worked, Timeout, GiveUp, FindsNothing, Goes, reader
  <2> QED
    BY <1>1, <2>1
<1>4. ASSUME NEW r \in Readers, Kill(r)
      PROVE  KillerTypes'
  BY <1>4, KilledSleepers DEF Kill, KillerTypes
<1>5. ASSUME NEW r \in Readers, FindInputWaiter(r)
      PROVE  KillerTypes'
  BY <1>5 DEF FindInputWaiter, Sleeping, killer, KillerTypes
<1>6. ASSUME NEW r \in Readers, KillInputWaiter(r)
      PROVE  KillerTypes'
  <2>1. UNCHANGED killer /\ found' \subseteq found /\ slept' \subseteq slept
    BY <1>6, KilledSleepers DEF KillInputWaiter
  <2> QED
    BY <1>1, <2>1
<1>7. CASE Collect \/ StreamFails
  BY <1>1, <1>7 DEF Collect, StreamFails
<1>8. CASE TakeEvent
  <2>1. hand' \in Msgs /\ search' = 0 /\ UNCHANGED <<victims, failures, found>>
    BY <1>8 DEF TakeEvent, StreamTypes, KillerTypes
  <2>2. slept' \subseteq Readers
    BY <1>8 DEF TakeEvent, Sleeping
  <2> QED
    BY <2>1, <2>2, SearchesTyped, AddressAssumption DEF KillerTypes
<1>9. CASE Search
  <2>1. /\ hand \in Msgs /\ hand' = hand /\ search' \in 0 .. Len(Searches(hand))
        /\ UNCHANGED <<failures, found, slept>>
    BY <1>9, SearchesTyped DEF Search, KillerTypes
  <2>2. victims' \subseteq Readers
    BY <1>9 DEF Search, Found, Sleeping
  <2> QED
    BY <2>1, <2>2, AddressAssumption DEF KillerTypes
<1>10. CASE ProcessingFails \/ Finish
  BY <1>10, ReaderAssumption, SearchesTyped DEF ProcessingFails, Finish, KillerTypes
<1>11. CASE UNCHANGED nvars
  BY <1>1, <1>11 DEF nvars
<1> QED
  BY <1>2, <1>3, <1>4, <1>5, <1>6, <1>7, <1>8, <1>9, <1>10, <1>11 DEF NNext

LEMMA TypesInit == NInit => ReaderTypes /\ StreamTypes /\ KillerTypes
<1> SUFFICES ASSUME NInit
             PROVE  ReaderTypes /\ StreamTypes /\ KillerTypes
  OBVIOUS
<1>1. ReaderTypes
  <2>1. \A r \in Readers : 1 \in DOMAIN Asks[r]
    BY ReaderAssumption
  <2> QED
    BY <2>1 DEF NInit, ReaderTypes
<1>2. StreamTypes
  BY ReaderAssumption DEF NInit, StreamTypes
<1>3. KillerTypes
  BY ReaderAssumption DEF NInit, KillerTypes
<1> QED
  BY <1>1, <1>2, <1>3

NotificationTypes == QueueInv /\ ReaderTypes /\ StreamTypes /\ KillerTypes

LEMMA NotificationInvariant == NSpec => []NotificationTypes
<1>1. NInit => NotificationTypes
  BY QueueInit, TypesInit DEF NInit, NotificationTypes
<1>2. NotificationTypes /\ [NNext]_nvars => NotificationTypes'
  BY StepMoves, QueueKept, ReadersTyped, StreamTyped, KillerTyped DEF NotificationTypes
<1> QED
  BY <1>1, <1>2, PTL DEF NSpec

\* Rows, readers, the stream and the killer keep their types; the queue of
\* events never outgrows its bound.
THEOREM NotificationTypeCorrect == NSpec => []NTypeOK
<1>1. NotificationTypes => NTypeOK
  BY DEF NotificationTypes, QueueInv, ReaderTypes, StreamTypes, KillerTypes, NTypeOK
<1> QED
  BY <1>1, NotificationInvariant, PTL

-----------------------------------------------------------------------------
(* What the queue promises, whoever is killed and whenever.                *)

\* No KILL, early or late, lets a message reach two readers.
THEOREM KilledOnce == NSpec => []AtMostOnce
  BY NotificationInvariant, PTL DEF NotificationTypes, QueueInv

\* What a processor has cleared stays unread, whoever is killed while it looks.
THEOREM KilledClearIsFinal == NSpec => []ClearedIsNeverRead
<1>1. NotificationTypes => ClearedIsNeverRead
  BY DEF NotificationTypes, QueueInv, TypeOK, Holding, Untouched, ClearedIsNeverRead, Held
<1> QED
  BY <1>1, NotificationInvariant, PTL

\* Readers that sleep, are woken and killed still use the table as the abstract
\* at-most-once queue: the refinement of WobMessageQueue survives its clients.
THEOREM NotificationImplementsQueue == NSpec => ImplementsAtMostOnce
<1>1. NInit => Abstract!QInit
  BY PlaceInit DEF NInit
<1>2. NotificationTypes /\ [NNext]_nvars => [Abstract!QNext]_(Abstract!qvars)
  BY StepMoves, PlacesKept DEF NotificationTypes
<1> QED
  BY <1>1, <1>2, NotificationInvariant, PTL DEF NSpec, ImplementsAtMostOnce, Abstract!QSpec

-----------------------------------------------------------------------------
(* An event is done with only when nobody it is for sleeps on.             *)

\* A sleeper of the event in hand is on the list of the search, or a search
\* that is still to come will find him; one that starts again finds them all.
Wakes ==
  /\ hand = NoMsg => slept = {}
  /\ \A r \in slept : at[r] = "sleep"
  /\ \A r \in slept : \E i \in 1 .. Len(Searches(hand)) : Searches(hand)[i] = Annotation[r]
  /\ \A r \in slept \ victims :
       \E i \in search + 1 .. Len(Searches(hand)) : Searches(hand)[i] = Annotation[r]

LEMMA WakesGoes ==
  ASSUME ReaderTypes, KillerTypes, Wakes, UNCHANGED <<hand, search>>,
         NEW r \in Readers,
         UNCHANGED <<at, slept>> \/ \E place : Goes(r, place),
         victims \ {r} \subseteq victims',
         r \in victims' \/ r \notin slept' \/ victims' = victims
  PROVE  Wakes'
<1>1. slept' \subseteq slept
  BY DEF Goes
<1>2. ASSUME NEW q \in slept'
      PROVE  at'[q] = at[q]
  BY <1>1, <1>2 DEF Goes, ReaderTypes, KillerTypes
<1>3. slept' \ victims' \subseteq slept \ victims
  BY <1>1
<1> QED
  BY <1>1, <1>2, <1>3 DEF Wakes

LEMMA WakesStep ==
  ASSUME NotificationTypes, Wakes, [NNext]_nvars
  PROVE  Wakes' /\ (hand # NoMsg /\ hand' # hand => slept = {})
<1> USE DEF NotificationTypes
<1>1. ASSUME UNCHANGED <<hand, search, victims, at, slept>>
      PROVE  Wakes'
  BY <1>1 DEF Wakes
<1>2. ASSUME NEW r \in Readers,
             Begin(r) \/ Poll(r) \/ Polled(r) \/ Receives(r) \/ Worked(r) \/ Timeout(r) \/ GiveUp(r)
      PROVE  Wakes' /\ hand' = hand
  <2>1. /\ UNCHANGED <<hand, search, victims>>
        /\ UNCHANGED <<at, slept>> \/ \E place : Goes(r, place)
    BY <1>2 DEF Begin, Poll, Polled, Receives, Worked, Timeout, GiveUp, FindsNothing, reader, killer
  <2> QED
    BY <2>1, WakesGoes
<1>3. ASSUME NEW r \in Readers, Killed(r)
      PROVE  /\ r \notin slept'
             /\ UNCHANGED <<at, slept>> \/ \E place : Goes(r, place)
  BY <1>3 DEF Killed, Fails, Goes, reader, Wakes
<1>4. ASSUME NEW r \in Readers, Kill(r)
      PROVE  Wakes' /\ hand' = hand
  <2>1. /\ UNCHANGED <<hand, search>> /\ victims' = victims \ {r} /\ Killed(r)
    BY <1>4 DEF Kill
  <2> QED
    BY <1>3, <2>1, WakesGoes
<1>5. ASSUME NEW r \in Readers, FindInputWaiter(r) \/ KillInputWaiter(r)
      PROVE  Wakes' /\ hand' = hand
  <2>1. CASE Killed(r) /\ UNCHANGED killer
    BY <1>3, <2>1, WakesGoes DEF killer
  <2>2. CASE UNCHANGED <<reader, slept, killer>>
    BY <1>1, <2>2 DEF reader, killer
  <2> QED
    BY <1>5, <2>1, <2>2 DEF FindInputWaiter, KillInputWaiter
<1>6. ASSUME Collect \/ StreamFails \/ (\E m \in Msgs : Insert(m)) \/ UNCHANGED nvars
      PROVE  Wakes' /\ hand' = hand
  BY <1>1, <1>6 DEF Collect, StreamFails, Insert, nvars, reader, killer
<1>7. CASE TakeEvent
  <2>1. hand = NoMsg /\ hand' \in Msgs /\ search' = 0 /\ at' = at
    BY <1>7 DEF TakeEvent, StreamTypes, KillerTypes, reader
  <2>2. ASSUME NEW r \in slept'
        PROVE  at[r] = "sleep" /\ \E i \in 1 .. Len(Searches(hand')) : Searches(hand')[i] = Annotation[r]
    <3>1. PICK i \in DOMAIN Searches(hand') : r \in Sleeping(Searches(hand')[i])
      BY <1>7, <2>2 DEF TakeEvent, Range
    <3> QED
      BY <2>1, <3>1, SearchesTyped DEF Sleeping
  <2>3. hand' # NoMsg
    BY <2>1, AddressAssumption
  <2> QED
    BY <2>1, <2>2, <2>3 DEF Wakes
<1>8. CASE Search
  <2>1. /\ hand \in Msgs /\ hand' = hand /\ search' = search + 1 /\ victims = {}
        /\ victims' = Found /\ UNCHANGED <<at, slept>>
    BY <1>8 DEF Search, KillerTypes, reader
  <2>2. ASSUME NEW r \in slept' \ victims'
        PROVE  \E i \in search' + 1 .. Len(Searches(hand)) : Searches(hand)[i] = Annotation[r]
    <3>1. PICK i \in search + 1 .. Len(Searches(hand)) : Searches(hand)[i] = Annotation[r]
      BY <2>1, <2>2 DEF Wakes
    <3>2. r \in Readers /\ at[r] = "sleep"
      BY <2>1, <2>2 DEF Wakes, KillerTypes
    <3>3. i # search + 1
      BY <2>1, <2>2, <3>1, <3>2 DEF Found, Sleeping
    <3> QED
      BY <2>1, <3>1, <3>3, SearchesTyped DEF KillerTypes
  <2> QED
    BY <2>1, <2>2 DEF Wakes
<1>9. CASE ProcessingFails
  <2>1. /\ hand' = hand /\ search' = 0 /\ victims' = {} /\ UNCHANGED <<at, slept>>
    BY <1>9 DEF ProcessingFails, reader
  <2> QED
    BY <2>1 DEF Wakes
<1>10. CASE Finish
  <2>1. hand \in Msgs /\ hand' = NoMsg /\ slept' = {} /\ victims = {} /\ search = Len(Searches(hand))
    BY <1>10 DEF Finish, KillerTypes
  <2>2. Len(Searches(hand)) \in Nat
    BY <2>1, SearchesTyped
  <2>3. slept = {}
    BY <2>1, <2>2 DEF Wakes
  <2> QED
    BY <2>1, <2>3 DEF Wakes
<1> QED
  BY <1>2, <1>4, <1>5, <1>6, <1>7, <1>8, <1>9, <1>10, AddressAssumption
  DEF NNext, TakeEvent, Search, ProcessingFails

\* process_events keeps an event until every reader that slept for its row when
\* it was taken has been woken, however many of its searches and KILLs fail.
THEOREM EventWakesAll == NSpec => EventWakes
<1>1. NInit => Wakes
  BY DEF NInit, Wakes
<1>2. NotificationTypes /\ Wakes /\ [NNext]_nvars => Wakes'
  BY WakesStep
<1>3. NotificationTypes /\ Wakes /\ [NNext]_nvars
      => [hand # NoMsg /\ hand' # hand => slept = {}]_nvars
  BY WakesStep
<1> QED
  BY <1>1, <1>2, <1>3, NotificationInvariant, PTL DEF NSpec, EventWakes

=============================================================================
