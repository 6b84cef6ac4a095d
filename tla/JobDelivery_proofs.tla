------------------------- MODULE JobDelivery_proofs -------------------------
(***************************************************************************)
(* Proofs about JobDelivery, for any projects, bounds and environment.     *)
(***************************************************************************)
EXTENDS JobDelivery, FiniteSetTheorems, TLAPS

LEMMA AppendFacts ==
  ASSUME NEW S, NEW seq \in Seq(S), NEW e \in S
  PROVE  /\ Append(seq, e) \in Seq(S)
         /\ Len(seq) \in Nat /\ Len(Append(seq, e)) = Len(seq) + 1
         /\ DOMAIN seq = 1..Len(seq) /\ DOMAIN Append(seq, e) = 1..(Len(seq) + 1)
         /\ Append(seq, e)[Len(seq) + 1] = e
         /\ \A i \in 1..Len(seq) : Append(seq, e)[i] = seq[i]
  OBVIOUS

\* What publishing does to the numbered messages.
LEMMA PublishFacts ==
  ASSUME TypeOK, NEW m \in Message, Publish(m)
  PROVE  /\ log' \in Seq(Message)
         /\ Len(log) \in Nat /\ Len(log') = Len(log) + 1
         /\ Published' = Published \cup {Len(log) + 1}
         /\ log'[Len(log) + 1] = m
         /\ \A n \in Published : log'[n] = log[n]
         /\ ready' = ready \cup {Len(log) + 1}
         /\ UNCHANGED <<owed, outcome, link, losses, loop>>
  BY AppendFacts DEF TypeOK, Publish, Published

\* What a step of the client does: it publishes a create or the destroy of a job.
LEMMA ClientFacts ==
  ASSUME TypeOK,
         \/ \E k \in Kos : PublishCreate(k)
         \/ \E j \in DOMAIN jobs : PublishDestroy(j)
  PROVE  \E m \in Message :
           Publish(m) /\ (m.action = "destroy" => m.job \in DOMAIN jobs)
<1>1. ASSUME NEW k \in Kos, PublishCreate(k)
      PROVE  \E m \in Message :
               Publish(m) /\ (m.action = "destroy" => m.job \in DOMAIN jobs)
  <2>1. [action |-> "create", ko |-> k] \in Message
    BY DEF Message
  <2> QED
    BY <1>1, <2>1 DEF PublishCreate
<1>2. ASSUME NEW j \in DOMAIN jobs, PublishDestroy(j)
      PROVE  \E m \in Message :
               Publish(m) /\ (m.action = "destroy" => m.job \in DOMAIN jobs)
  <2>1. j \in Nat
    BY DEF TypeOK
  <2>2. [action |-> "destroy", job |-> j] \in Message
    BY <2>1 DEF Message
  <2> QED
    BY <1>2, <2>2 DEF PublishDestroy
<1> QED
  BY <1>1, <1>2

\* What a create that is carried out does to the jobs.
LEMMA CreateFacts ==
  ASSUME TypeOK, HandleCreate
  PROVE  /\ UNCHANGED <<jobs, registered>>
            \/ /\ Runtimes(log[current].ko) = {}
               /\ jobs' \in Seq(Nat)
               /\ Len(jobs) \in Nat /\ DOMAIN jobs = 1..Len(jobs)
               /\ DOMAIN jobs' = DOMAIN jobs \cup {Len(jobs) + 1}
               /\ jobs'[Len(jobs) + 1] = current
               /\ \A j \in DOMAIN jobs : jobs'[j] = jobs[j]
               /\ registered' = registered \cup {Len(jobs) + 1}
         /\ current \in Published /\ log[current].action = "create"
         /\ handled' = handled \cup {current} /\ pc = "handle" /\ pc' = "ack"
         /\ UNCHANGED <<broker, rejected, link, losses, current, consumer, exit>>
<1>1. current \in Published /\ current \in Nat
  BY DEF TypeOK, HandleCreate, Published
<1>2. /\ Append(jobs, current) \in Seq(Nat)
      /\ Len(jobs) \in Nat /\ DOMAIN jobs = 1..Len(jobs)
      /\ DOMAIN Append(jobs, current) = DOMAIN jobs \cup {Len(jobs) + 1}
      /\ Append(jobs, current)[Len(jobs) + 1] = current
      /\ \A j \in DOMAIN jobs : Append(jobs, current)[j] = jobs[j]
  BY <1>1, AppendFacts DEF TypeOK
<1>3. CASE Runtimes(log[current].ko) # {}
  BY <1>1, <1>3 DEF HandleCreate
<1>4. CASE Runtimes(log[current].ko) = {}
  BY <1>1, <1>2, <1>4 DEF HandleCreate
<1> QED
  BY <1>3, <1>4

-----------------------------------------------------------------------------
\* Messages, jobs and the event loop's state keep their types, and every job
\* goes back to a create message that was published.
THEOREM TypeCorrect == Spec => []TypeOK
<1>1. Init => TypeOK
  <2> SUFFICES ASSUME Init PROVE TypeOK
    OBVIOUS
  <2>1. log \in Seq(Message) /\ jobs \in Seq(Nat) /\ DOMAIN jobs = {} /\ Published = {}
    BY DEF Init, Published
  <2> QED
    BY <2>1 DEF Init, TypeOK
<1>2. TypeOK /\ [Next]_vars => TypeOK'
  <2> SUFFICES ASSUME TypeOK, [Next]_vars PROVE TypeOK'
    OBVIOUS
  <2>1. ASSUME \/ \E k \in Kos : PublishCreate(k)
               \/ \E j \in DOMAIN jobs : PublishDestroy(j)
        PROVE  TypeOK'
    <3>1. PICK m \in Message :
            Publish(m) /\ (m.action = "destroy" => m.job \in DOMAIN jobs)
      BY <2>1, ClientFacts
    <3>2. /\ log' \in Seq(Message)
          /\ \A n \in Published : log'[n] = log[n]
          /\ ready' = ready \cup {Len(log) + 1}
          /\ Published' = Published \cup {Len(log) + 1}
          /\ UNCHANGED <<owed, outcome, link, losses, loop>>
      BY <3>1, PublishFacts
    <3>3. \A n \in Published' : log'[n].action = "destroy" => log'[n].job \in DOMAIN jobs
      BY <3>1, PublishFacts DEF TypeOK
    <3> QED
      BY <3>2, <3>3 DEF TypeOK, outcome, loop
  <2>2. ASSUME NEW j \in DOMAIN jobs, RuntimeEnds(j) PROVE TypeOK'
    BY <2>2 DEF TypeOK, RuntimeEnds, Published, broker, loop
  <2>3. ASSUME LoseLink PROVE TypeOK'
    <3>1. /\ ready' \subseteq Published /\ owed' \subseteq Published
          /\ losses' \in Nat /\ link' = "down"
          /\ UNCHANGED <<log, outcome, loop>>
      BY <2>3 DEF TypeOK, LoseLink
    <3> QED
      BY <3>1 DEF TypeOK, Published, outcome, loop
  <2>4. ASSUME NEW n \in owed, Requeue(n) PROVE TypeOK'
    BY <2>4 DEF TypeOK, Requeue, Published, outcome, loop
  <2>5. ASSUME TestExit \/ Connect \/ ConnectFails \/ ConnectRaises \/ NoticeLoss \/ Backoff
                 \/ StopConsuming \/ HandleRaises
        PROVE  TypeOK'
    <3>1. UNCHANGED <<broker, outcome, current, exit>>
      BY <2>5 DEF TestExit, Connect, ConnectFails, ConnectRaises, NoticeLoss, Backoff,
           StopConsuming, HandleRaises
    <3>2. link' \in {"up", "down"} /\ losses' \in Nat
      BY <2>5 DEF TypeOK, TestExit, Connect, ConnectFails, ConnectRaises, NoticeLoss, Backoff,
           StopConsuming, HandleRaises
    <3>3. consumer' \in BOOLEAN
      BY <2>5 DEF TypeOK, TestExit, Connect, ConnectFails, ConnectRaises, NoticeLoss, Backoff,
           StopConsuming, HandleRaises
    <3>4. /\ pc' \in {"loop", "connect", "consume", "nack", "backoff", "stopped"}
          /\ pc' = "nack" <=> pc = "handle"
          /\ pc \notin {"ack", "nack"}
      BY <2>5 DEF TestExit, Connect, ConnectFails, ConnectRaises, NoticeLoss, Backoff,
           StopConsuming, HandleRaises
    <3> QED
      BY <3>1, <3>2, <3>3, <3>4 DEF TypeOK, Published, broker, outcome
  <2>6. ASSUME Deliver PROVE TypeOK'
    <3>1. PICK n \in ready : ready' = ready \ {n} /\ owed' = owed \cup {n} /\ current' = n
      BY <2>6 DEF Deliver
    <3>2. n \in Published /\ n # 0
      BY <3>1 DEF TypeOK, Published
    <3> QED
      BY <2>6, <3>1, <3>2 DEF TypeOK, Deliver, Published, outcome
  <2>7. ASSUME HandleCreate PROVE TypeOK'
    BY <2>7, CreateFacts DEF TypeOK, Published, broker
  <2>8. ASSUME HandleDestroy PROVE TypeOK'
    BY <2>8 DEF TypeOK, HandleDestroy, Published, broker
  <2>9. ASSUME Ack \/ Nack PROVE TypeOK'
    BY <2>9 DEF TypeOK, Ack, Nack, Published, outcome
  <2>10. ASSUME Signal PROVE TypeOK'
    BY <2>10 DEF TypeOK, Signal, Published, broker, outcome
  <2>11. CASE UNCHANGED vars
    BY <2>11 DEF TypeOK, vars, Published
  <2> QED
    BY <2>1, <2>2, <2>3, <2>4, <2>5, <2>6, <2>7, <2>8, <2>9, <2>10, <2>11
    DEF Next, EventLoop
<1> QED
  BY <1>1, <1>2, PTL DEF Spec

-----------------------------------------------------------------------------
\* Only an acknowledged, hence handled, message leaves the broker.
Acknowledged == NoJobLost /\ (pc = "ack" => current \in handled)

\* No job is lost, wherever the connection breaks and however late the broker
\* notices.
THEOREM NeverLost == Spec => []NoJobLost
<1>1. Init => Acknowledged
  BY DEF Init, Acknowledged, NoJobLost, Published
<1>2. TypeOK /\ Acknowledged /\ [Next]_vars => Acknowledged'
  <2> SUFFICES ASSUME TypeOK, Acknowledged, [Next]_vars PROVE Acknowledged'
    OBVIOUS
  <2> USE DEF Acknowledged, NoJobLost
  <2>1. ASSUME \/ \E k \in Kos : PublishCreate(k)
               \/ \E j \in DOMAIN jobs : PublishDestroy(j)
        PROVE  Acknowledged'
    <3>1. PICK m \in Message : Publish(m)
      BY <2>1, ClientFacts
    <3> QED
      BY <3>1, PublishFacts DEF outcome, loop
  <2>2. ASSUME NEW j \in DOMAIN jobs, RuntimeEnds(j) PROVE Acknowledged'
    BY <2>2 DEF RuntimeEnds, Published, broker, loop
  <2>3. ASSUME LoseLink PROVE Acknowledged'
    BY <2>3 DEF LoseLink, Published, outcome, loop
  <2>4. ASSUME NEW n \in owed, Requeue(n) PROVE Acknowledged'
    BY <2>4 DEF Requeue, Published, outcome, loop
  <2>5. ASSUME TestExit \/ Connect \/ ConnectFails \/ ConnectRaises \/ NoticeLoss \/ Backoff
                 \/ StopConsuming \/ HandleRaises
        PROVE  Acknowledged'
    BY <2>5 DEF TestExit, Connect, ConnectFails, ConnectRaises, NoticeLoss, Backoff,
         StopConsuming, HandleRaises, Published, broker, outcome
  <2>6. ASSUME Deliver PROVE Acknowledged'
    BY <2>6 DEF Deliver, Published, outcome
  <2>7. ASSUME HandleCreate PROVE Acknowledged'
    BY <2>7 DEF HandleCreate, Published, broker
  <2>8. ASSUME HandleDestroy PROVE Acknowledged'
    BY <2>8 DEF HandleDestroy, Published, broker
  <2>9. ASSUME Ack \/ Nack PROVE Acknowledged'
    BY <2>9 DEF Ack, Nack, Published, outcome
  <2>10. ASSUME Signal PROVE Acknowledged'
    BY <2>10 DEF Signal, Published, broker, outcome
  <2>11. CASE UNCHANGED vars
    BY <2>11 DEF vars, Published
  <2> QED
    BY <2>1, <2>2, <2>3, <2>4, <2>5, <2>6, <2>7, <2>8, <2>9, <2>10, <2>11
    DEF Next, EventLoop
<1>3. Acknowledged => NoJobLost
  BY DEF Acknowledged
<1> QED
  BY <1>1, <1>2, <1>3, TypeCorrect, PTL DEF Spec

-----------------------------------------------------------------------------
(* A message may be carried out again if it was carried out, or is being    *)
(* handled, and has come back to the broker or will; each such message was  *)
(* let go by a lost connection, and a loss lets go of one message at most.  *)

Back == ready \cup (owed \ (IF link = "up" THEN {current} ELSE {}))
Again == {n \in Back : n \in Started \/ (n = current /\ pc = "handle")}
Retrying == IF pc = "handle" /\ current \in Started THEN 1 ELSE 0

Repeats ==
  /\ ready \cap owed = {}
  /\ IsFiniteSet(Started) /\ IsFiniteSet(Again)
  /\ pc = "handle" /\ link = "up" => current \in owed
  /\ Len(jobs) - Cardinality(Started) + Cardinality(Again) + Retrying <= losses

\* Where the messages that may be repeated are at most one more.
LEMMA OneMore ==
  ASSUME NEW S, NEW T, NEW e, IsFiniteSet(S), T \subseteq S \cup {e}
  PROVE  /\ IsFiniteSet(T)
         /\ Cardinality(S) \in Nat /\ Cardinality(T) \in Nat
         /\ Cardinality(T) <= Cardinality(S) + 1
         /\ T \subseteq S => Cardinality(T) <= Cardinality(S)
         /\ e \in S /\ e \notin T => Cardinality(T) + 1 <= Cardinality(S)
<1>1. /\ IsFiniteSet(S \cup {e})
      /\ Cardinality(S) \in Nat
      /\ Cardinality(S \cup {e}) = IF e \in S THEN Cardinality(S) ELSE Cardinality(S) + 1
  BY FS_AddElement, FS_CardinalityType
<1>2. /\ IsFiniteSet(T) /\ Cardinality(T) \in Nat
      /\ Cardinality(T) <= Cardinality(S \cup {e})
  BY <1>1, FS_Subset, FS_CardinalityType
<1>3. T \subseteq S => Cardinality(T) <= Cardinality(S)
  BY FS_Subset
<1>4. ASSUME e \in S, e \notin T
      PROVE  Cardinality(T) + 1 <= Cardinality(S)
  <2>1. T \subseteq S \ {e}
    BY <1>4
  <2>2. IsFiniteSet(S \ {e}) /\ Cardinality(S \ {e}) = Cardinality(S) - 1
    BY <1>4, FS_RemoveElement
  <2>3. Cardinality(T) <= Cardinality(S \ {e})
    BY <2>1, <2>2, FS_Subset
  <2> QED
    BY <1>1, <1>2, <2>2, <2>3
<1> QED
  BY <1>1, <1>2, <1>3, <1>4

\* A step that starts no job: at most one more message may be repeated, if a
\* connection was lost, or if one that was being handled again no longer is.
LEMMA RepeatsKept ==
  ASSUME TypeOK, TypeOK', Repeats, UNCHANGED jobs,
         ready' \cap owed' = {},
         pc' = "handle" /\ link' = "up" => current' \in owed',
         \/ Again' \subseteq Again /\ Retrying' <= Retrying /\ losses' >= losses
         \/ (\E n : Again' \subseteq Again \cup {n}) /\ Retrying' <= Retrying /\ losses' = losses + 1
         \/ \E n \in Again : Again' \subseteq Again \ {n} /\ losses' = losses
  PROVE  Repeats'
<1> USE DEF Repeats
<1>1. /\ Started' = Started /\ Cardinality(Started) \in Nat /\ Len(jobs) \in Nat
      /\ Retrying \in {0, 1} /\ Retrying' \in {0, 1} /\ losses \in Nat /\ losses' \in Nat
  BY FS_CardinalityType DEF Started, Retrying, TypeOK
<1>2. CASE Again' \subseteq Again /\ Retrying' <= Retrying /\ losses' >= losses
  <2>1. /\ IsFiniteSet(Again') /\ Cardinality(Again) \in Nat /\ Cardinality(Again') \in Nat
        /\ Cardinality(Again') <= Cardinality(Again)
    BY <1>2, OneMore
  <2> QED
    BY <1>1, <1>2, <2>1
<1>3. CASE (\E n : Again' \subseteq Again \cup {n}) /\ Retrying' <= Retrying /\ losses' = losses + 1
  <2>1. /\ IsFiniteSet(Again') /\ Cardinality(Again) \in Nat /\ Cardinality(Again') \in Nat
        /\ Cardinality(Again') <= Cardinality(Again) + 1
    BY <1>3, OneMore
  <2> QED
    BY <1>1, <1>3, <2>1
<1>4. CASE \E n \in Again : Again' \subseteq Again \ {n} /\ losses' = losses
  <2>1. PICK n \in Again : Again' \subseteq Again \ {n}
    BY <1>4
  <2>2. /\ IsFiniteSet(Again') /\ Cardinality(Again) \in Nat /\ Cardinality(Again') \in Nat
        /\ Cardinality(Again') + 1 <= Cardinality(Again)
    BY <2>1, OneMore
  <2> QED
    BY <1>1, <1>4, <2>2
<1> QED
  BY <1>2, <1>3, <1>4

LEMMA RepeatsStep ==
  ASSUME TypeOK, TypeOK', Repeats, [Next]_vars
  PROVE  Repeats'
<1> USE DEF Repeats
<1>0. losses \in Nat /\ (pc = "handle" => current # 0)
  BY DEF TypeOK
<1>1. ASSUME \/ \E k \in Kos : PublishCreate(k)
             \/ \E j \in DOMAIN jobs : PublishDestroy(j)
      PROVE  Repeats'
  <2>1. PICK m \in Message : Publish(m)
    BY <1>1, ClientFacts
  <2>2. /\ Len(log) \in Nat /\ Len(log) + 1 \notin Published
        /\ ready' = ready \cup {Len(log) + 1}
        /\ UNCHANGED <<owed, outcome, link, losses, loop>>
    BY <2>1, PublishFacts DEF Published
  <2>3. Len(log) + 1 \notin Started /\ Len(log) + 1 # current /\ Len(log) + 1 \notin owed
    BY <1>0, <2>2 DEF TypeOK, Started
  <2>4. Again' = Again /\ Retrying' = Retrying
    BY <2>2, <2>3 DEF Again, Back, Retrying, Started, outcome, loop
  <2> QED
    BY <1>0, <2>2, <2>3, <2>4, RepeatsKept DEF outcome, loop, Retrying
<1>2. ASSUME NEW j \in DOMAIN jobs, RuntimeEnds(j) PROVE Repeats'
  <2>1. Again' = Again /\ Retrying' = Retrying
    BY <1>2 DEF RuntimeEnds, Again, Back, Retrying, Started, broker, loop
  <2> QED
    BY <1>0, <1>2, <2>1, RepeatsKept DEF RuntimeEnds, broker, loop, Retrying
<1>3. CASE LoseLink
  <2>1. Again' \subseteq Again \cup {current} /\ Retrying' = Retrying
    BY <1>3 DEF LoseLink, Again, Back, Retrying, Started, outcome, loop
  <2> QED
    BY <1>0, <1>3, <2>1, RepeatsKept DEF LoseLink, outcome, loop, Retrying
<1>4. ASSUME NEW n \in owed, Requeue(n) PROVE Repeats'
  <2>1. Again' = Again /\ Retrying' = Retrying
    BY <1>4 DEF Requeue, Again, Back, Retrying, Started, outcome, loop
  <2> QED
    BY <1>0, <1>4, <2>1, RepeatsKept DEF Requeue, outcome, loop, Retrying
<1>5. ASSUME TestExit \/ Connect \/ ConnectFails \/ ConnectRaises \/ NoticeLoss \/ Backoff
               \/ StopConsuming \/ HandleRaises
      PROVE  Repeats'
  <2>1. UNCHANGED <<ready, owed, jobs, current>>
    BY <1>5 DEF TestExit, Connect, ConnectFails, ConnectRaises, NoticeLoss, Backoff,
         StopConsuming, HandleRaises, broker, outcome
  <2>2. /\ pc' # "handle" /\ losses' >= losses
        /\ link' = link \/ (pc = "connect" /\ link' = "up")
    BY <1>0, <1>5 DEF TestExit, Connect, ConnectFails, ConnectRaises, NoticeLoss, Backoff,
         StopConsuming, HandleRaises
  <2>3. Again' \subseteq Again /\ Retrying' <= Retrying
    BY <2>1, <2>2 DEF Again, Back, Retrying, Started
  <2> QED
    BY <2>1, <2>2, <2>3, RepeatsKept
<1>6. CASE Deliver
  <2>1. PICK n \in ready : ready' = ready \ {n} /\ owed' = owed \cup {n} /\ current' = n
    BY <1>6 DEF Deliver
  <2>2. /\ link = "up" /\ pc = "consume" /\ pc' = "handle" /\ current = 0 /\ 0 \notin owed
        /\ UNCHANGED <<jobs, link, losses>> /\ n \notin owed
    BY <1>6, <2>1 DEF TypeOK, Deliver, outcome, Published
  <2>3. Started' = Started
    BY <2>2 DEF Started
  <2>4. CASE n \in Started
    <3>1. n \in Again /\ Again' \subseteq Again \ {n}
      BY <2>1, <2>2, <2>3, <2>4 DEF Again, Back
    <3> QED
      BY <2>1, <2>2, <3>1, RepeatsKept
  <2>5. CASE n \notin Started
    <3>1. Again' \subseteq Again /\ Retrying' = Retrying
      BY <2>1, <2>2, <2>3, <2>5 DEF Again, Back, Retrying
    <3> QED
      BY <1>0, <2>1, <2>2, <3>1, RepeatsKept DEF Retrying
  <2> QED
    BY <2>4, <2>5
<1>7. CASE HandleCreate
  <2>1. /\ pc = "handle" /\ pc' = "ack"
        /\ UNCHANGED <<ready, owed, link, losses, current>>
    BY <1>7 DEF HandleCreate, broker
  <2>2. CASE UNCHANGED <<jobs, registered>>
    <3>1. Again' \subseteq Again /\ Retrying' <= Retrying
      BY <2>1, <2>2 DEF Again, Back, Retrying, Started
    <3> QED
      BY <1>0, <2>1, <2>2, <3>1, RepeatsKept
  <2>3. CASE ~UNCHANGED <<jobs, registered>>
    <3>1. /\ jobs' \in Seq(Nat) /\ Len(jobs) \in Nat /\ Len(jobs') = Len(jobs) + 1
          /\ Started' = Started \cup {current}
      <4>1. /\ jobs' \in Seq(Nat) /\ Len(jobs) \in Nat /\ DOMAIN jobs = 1..Len(jobs)
            /\ DOMAIN jobs' = DOMAIN jobs \cup {Len(jobs) + 1}
            /\ jobs'[Len(jobs) + 1] = current
            /\ \A j \in DOMAIN jobs : jobs'[j] = jobs[j]
        BY <1>7, <2>3, CreateFacts
      <4>2. jobs' = Append(jobs, current) /\ current \in Nat
        BY <1>7, <2>3 DEF HandleCreate, TypeOK, Published
      <4>3. Len(jobs') = Len(jobs) + 1
        BY <4>2, AppendFacts DEF TypeOK
      <4> QED
        BY <4>1, <4>3 DEF Started
    <3>2. /\ IsFiniteSet(Started') /\ Cardinality(Started) \in Nat /\ Cardinality(Started') \in Nat
          /\ Cardinality(Started')
               = IF current \in Started THEN Cardinality(Started) ELSE Cardinality(Started) + 1
      BY <3>1, FS_AddElement, FS_CardinalityType
    <3>3. Again' = Again /\ Cardinality(Again) \in Nat
      <4>1. Back' = Back
        BY <2>1 DEF Back
      <4> QED
        BY <2>1, <3>1, <4>1, FS_CardinalityType DEF Again
    <3>4. /\ Retrying' = 0
          /\ Retrying = IF current \in Started THEN 1 ELSE 0
      BY <2>1 DEF Retrying
    <3> QED
      BY <1>0, <2>1, <3>1, <3>2, <3>3, <3>4
  <2> QED
    BY <2>2, <2>3
<1>8. CASE HandleDestroy
  <2>1. Again' \subseteq Again /\ Retrying' <= Retrying
    BY <1>8 DEF HandleDestroy, Again, Back, Retrying, Started, broker
  <2> QED
    BY <1>0, <1>8, <2>1, RepeatsKept DEF HandleDestroy, broker
<1>9. CASE Ack \/ Nack
  <2>1. /\ pc \in {"ack", "nack"} /\ pc' # "handle" /\ current' = 0
        /\ UNCHANGED <<ready, jobs, link, losses>>
        /\ owed' = IF link = "up" THEN owed \ {current} ELSE owed
    BY <1>9 DEF Ack, Nack, outcome
  <2>2. Again' \subseteq Again /\ Retrying' <= Retrying
    BY <2>1 DEF Again, Back, Retrying, Started
  <2> QED
    BY <1>0, <2>1, <2>2, RepeatsKept
<1>10. CASE Signal
  <2>1. /\ UNCHANGED <<ready, owed, jobs, link, losses, current>>
        /\ pc' = "handle" => pc = "handle"
    BY <1>10 DEF Signal, broker, outcome
  <2>2. Again' \subseteq Again /\ Retrying' <= Retrying
    BY <2>1 DEF Again, Back, Retrying, Started
  <2> QED
    BY <1>0, <2>1, <2>2, RepeatsKept
<1>11. CASE UNCHANGED vars
  <2>1. Again' = Again /\ Retrying' = Retrying
    BY <1>11 DEF vars, Again, Back, Retrying, Started
  <2> QED
    BY <1>0, <1>11, <2>1, RepeatsKept DEF vars, Retrying
<1> QED
  BY <1>1, <1>2, <1>3, <1>4, <1>5, <1>6, <1>7, <1>8, <1>9, <1>10, <1>11
  DEF Next, EventLoop

\* At most as many creates are carried out a second time as connections were
\* lost, however late the broker notices and whenever the runtimes end.
THEOREM RepeatsAreLosses == Spec => []OneRepeatPerLoss
<1>1. Init => Repeats
  <2> SUFFICES ASSUME Init PROVE Repeats
    OBVIOUS
  <2>1. Started = {} /\ Again = {} /\ Retrying = 0 /\ Len(jobs) = 0 /\ losses = 0
    BY DEF Init, Started, Again, Back, Retrying
  <2> QED
    BY <2>1, FS_EmptySet DEF Init, Repeats
<1>2. TypeOK /\ TypeOK' /\ Repeats /\ [Next]_vars => Repeats'
  BY RepeatsStep
<1>3. TypeOK /\ Repeats => OneRepeatPerLoss
  <2> SUFFICES ASSUME TypeOK, Repeats PROVE OneRepeatPerLoss
    OBVIOUS
  <2>1. /\ Cardinality(Again) \in Nat /\ Cardinality(Started) \in Nat /\ Retrying \in {0, 1}
        /\ Len(jobs) \in Nat /\ losses \in Nat
    BY FS_CardinalityType DEF TypeOK, Repeats, Retrying
  <2> QED
    BY <2>1 DEF Repeats, OneRepeatPerLoss
<1> QED
  BY <1>1, <1>2, <1>3, TypeCorrect, PTL DEF Spec

-----------------------------------------------------------------------------
(* With a broker that notices lost connections at once, what is delivered   *)
(* is older than all that is ready, and what localbot is done with has no   *)
(* older message behind it: the queue is handled in the order of its        *)
(* numbers.  A destroy is younger than the create of the job it names.      *)

Ordered(n) == \A m \in 1..(n - 1) : m \notin ready /\ m \notin owed

Order ==
  /\ ready \cap owed = {}
  /\ \A n \in owed : n = current
  /\ link = "down" => owed = {}
  /\ pc = "handle" => current \in ready \cup owed
  /\ \A n \in handled \cup rejected : Ordered(n)
  /\ current # 0 => Ordered(current)
  /\ \A n \in Published : log[n].action = "destroy" => jobs[log[n].job] < n

LEMMA OrderInvariant ==
  ASSUME "linger" \notin Env
  PROVE  Spec => []Order
<1>1. Init => Order
  BY DEF Init, Order, Published
<1>2. TypeOK /\ TypeOK' /\ Order /\ [Next]_vars => Order'
  <2> SUFFICES ASSUME TypeOK, TypeOK', Order, [Next]_vars PROVE Order'
    OBVIOUS
  <2>1. ASSUME \/ \E k \in Kos : PublishCreate(k)
               \/ \E j \in DOMAIN jobs : PublishDestroy(j)
        PROVE  Order'
    <3>1. PICK m \in Message :
            Publish(m) /\ (m.action = "destroy" => m.job \in DOMAIN jobs)
      BY <2>1, ClientFacts
    <3>2. /\ Len(log) \in Nat /\ Published = 1..Len(log)
          /\ Published' = Published \cup {Len(log) + 1}
          /\ log'[Len(log) + 1] = m
          /\ \A n \in Published : log'[n] = log[n]
          /\ ready' = ready \cup {Len(log) + 1}
          /\ UNCHANGED <<owed, handled, rejected, jobs, link, pc, current>>
      BY <3>1, PublishFacts DEF outcome, loop, Published
    <3>3. \A n \in handled \cup rejected \cup {current} : Ordered(n) => Ordered(n)'
      BY <3>2 DEF TypeOK, Ordered
    <3>4. \A n \in Published' : log'[n].action = "destroy" => jobs[log'[n].job] < n
      <4>1. m.action = "destroy" => jobs[m.job] < Len(log) + 1
        <5>1. \A j \in DOMAIN jobs : jobs[j] \in 1..Len(log)
          BY <3>2 DEF TypeOK
        <5> QED
          BY <3>1, <3>2, <5>1
      <4> QED
        BY <3>2, <4>1 DEF Order
    <3>5. ready' \cap owed' = {}
      BY <3>2 DEF TypeOK, Order
    <3> QED
      BY <3>2, <3>3, <3>4, <3>5 DEF Order
  <2>2. ASSUME NEW j \in DOMAIN jobs, RuntimeEnds(j) PROVE Order'
    BY <2>2 DEF Order, Ordered, RuntimeEnds, Published, broker, loop
  <2>3. ASSUME LoseLink PROVE Order'
    <3>1. ready' = ready \cup owed /\ owed' = {}
      BY <2>3 DEF LoseLink
    <3> QED
      BY <2>3, <3>1 DEF Order, Ordered, LoseLink, Published, outcome, loop
  <2>4. ASSUME TestExit \/ Connect \/ ConnectFails \/ ConnectRaises \/ NoticeLoss \/ Backoff
                 \/ StopConsuming \/ HandleRaises
        PROVE  Order'
    <3>1. UNCHANGED <<log, ready, owed, handled, rejected, jobs, current>>
      BY <2>4 DEF TestExit, Connect, ConnectFails, ConnectRaises, NoticeLoss, Backoff,
           StopConsuming, HandleRaises, broker, outcome
    <3>2. pc' # "handle" /\ (link' = "down" => link = "down")
      BY <2>4 DEF TestExit, Connect, ConnectFails, ConnectRaises, NoticeLoss, Backoff,
           StopConsuming, HandleRaises
    <3> QED
      BY <3>1, <3>2 DEF Order, Ordered, Published
  <2>5. ASSUME Deliver PROVE Order'
    <3>1. PICK n \in ready : /\ \A m \in ready : n <= m
                             /\ ready' = ready \ {n} /\ owed' = owed \cup {n}
                             /\ current' = n
      BY <2>5 DEF Deliver
    <3>2. n \in Nat /\ owed = {}
      BY <2>5 DEF TypeOK, Order, Deliver, Published
    <3>3. Ordered(n)'
      BY <3>1, <3>2 DEF TypeOK, Ordered, Published
    <3>4. \A i \in handled \cup rejected : Ordered(i)'
      BY <3>1, <3>2 DEF Order, Ordered
    <3> QED
      BY <2>5, <3>1, <3>2, <3>3, <3>4 DEF Order, Deliver, Published, outcome
  <2>6. ASSUME HandleCreate PROVE Order'
    <3>1. /\ UNCHANGED <<log, ready, owed, rejected, link, current>>
          /\ handled' = handled \cup {current} /\ pc' = "ack"
          /\ current # 0
          /\ \A j \in DOMAIN jobs : jobs'[j] = jobs[j]
      BY <2>6, CreateFacts DEF TypeOK, broker
    <3>2. \A n \in Published : log[n].action = "destroy" => jobs'[log[n].job] < n
      BY <3>1 DEF TypeOK, Order
    <3> QED
      BY <3>1, <3>2 DEF Order, Ordered, Published
  <2>7. ASSUME HandleDestroy PROVE Order'
    BY <2>7 DEF TypeOK, Order, Ordered, HandleDestroy, Published, broker
  <2>8. ASSUME Ack \/ Nack PROVE Order'
    <3>1. /\ UNCHANGED <<log, ready, handled, jobs, link>>
          /\ owed' \subseteq owed /\ (link = "up" => owed' = owed \ {current})
          /\ rejected' \subseteq rejected \cup {current}
          /\ current' = 0 /\ current # 0 /\ pc' # "handle"
      BY <2>8 DEF TypeOK, Ack, Nack, outcome
    <3>2. owed' = {}
      BY <3>1 DEF TypeOK, Order
    <3> QED
      BY <3>1, <3>2 DEF Order, Ordered, Published
  <2>9. ASSUME Signal PROVE Order'
    BY <2>9 DEF Order, Ordered, Signal, Published, broker, outcome
  <2>10. ASSUME NEW n \in owed, Requeue(n) PROVE Order'
    BY <2>10 DEF Requeue
  <2>11. CASE UNCHANGED vars
    BY <2>11 DEF Order, Ordered, vars, Published
  <2> QED
    BY <2>1, <2>2, <2>3, <2>4, <2>5, <2>6, <2>7, <2>8, <2>9, <2>10, <2>11
    DEF Next, EventLoop
<1> QED
  BY <1>1, <1>2, TypeCorrect, PTL DEF Spec

\* With such a broker, the create behind a job that a user had destroyed is
\* not carried out again.
THEOREM DestroyStands ==
  ASSUME "linger" \notin Env
  PROVE  Spec => DestroyIsFinal
<1>1. ASSUME TypeOK, Order, [Next]_vars, NEW d \in handled, log[d].action = "destroy"
      PROVE  NotAgain(d)
  <2>1. CASE HandleCreate
    <3>1. current \in ready \cup owed /\ current \in Nat /\ d \in Nat
      <4>1. current \in ready \cup owed
        BY <1>1, <2>1 DEF Order, HandleCreate
      <4>2. ready \cup owed \cup handled \subseteq Nat
        BY <1>1 DEF TypeOK, Published
      <4> QED
        BY <1>1, <4>1, <4>2
    <3>2. jobs[log[d].job] # current
      <4>1. Ordered(d) /\ jobs[log[d].job] < d
        BY <1>1 DEF TypeOK, Order
      <4>2. log[d].job \in DOMAIN jobs
        BY <1>1 DEF TypeOK
      <4>3. jobs[log[d].job] \in 1..(d - 1)
        BY <1>1, <3>1, <4>1, <4>2 DEF TypeOK, Published
      <4> QED
        BY <3>1, <4>1, <4>3 DEF Ordered
    <3> QED
      BY <2>1, <3>2, CreateFacts, <1>1 DEF NotAgain, TypeOK
  <2>2. CASE ~HandleCreate
    <3>1. UNCHANGED jobs
      <4>1. CASE \/ \E k \in Kos : PublishCreate(k)
                 \/ \E j \in DOMAIN jobs : PublishDestroy(j)
        BY <4>1, <1>1, ClientFacts, PublishFacts DEF outcome
      <4> QED
        BY <1>1, <2>2, <4>1 DEF Next, EventLoop, RuntimeEnds, LoseLink, Requeue,
           TestExit, Connect, ConnectFails, ConnectRaises, NoticeLoss, Backoff, StopConsuming,
           HandleRaises, Deliver, HandleDestroy, Ack, Nack, Signal, vars, outcome
    <3> QED
      BY <3>1 DEF NotAgain
  <2> QED
    BY <2>1, <2>2
<1>2. TypeOK /\ Order /\ [Next]_vars
        => [\A d \in handled : log[d].action = "destroy" => NotAgain(d)]_vars
  BY <1>1
<1> QED
  BY <1>2, TypeCorrect, OrderInvariant, PTL DEF Spec, DestroyIsFinal
=============================================================================
