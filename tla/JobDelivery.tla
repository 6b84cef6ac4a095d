----------------------------- MODULE JobDelivery -----------------------------
(***************************************************************************)
(* How jobs reach localbot: a durable RabbitMQ queue of the compute        *)
(* resource group, consumed with a prefetch of one and acknowledged after  *)
(* the job was handled (RabbitMQEventHandler, localbot/event_handler.py).  *)
(* Messages are numbered as they are published; the broker puts a message  *)
(* that was delivered and not acknowledged back at its place.  Of runtimes *)
(* only their entries in the dictionary are here; RuntimeManager has their *)
(* processes, which may outlive the entry.                                 *)
(***************************************************************************)
EXTENDS Integers, Sequences, FiniteSets

CONSTANTS
  Kos,          \* ids of knowledge objects (projects)
  Env,          \* what may go wrong; see EnvAssumption
  MaxMessages,  \* bound on the messages published
  MaxLosses     \* bound on the connections lost or refused

(***************************************************************************)
(* "loss": the connection is lost while localbot waits for a message, or   *)
(* refused; "lossbusy": it is lost while a message is handled; "linger":   *)
(* the broker notices later than localbot does; "error": handling a        *)
(* message raises, or connecting does for another reason; "signal":        *)
(* localbot gets SIGINT or SIGTERM.                                        *)
(***************************************************************************)
ASSUME EnvAssumption == Env \subseteq {"loss", "lossbusy", "linger", "error", "signal"}

ASSUME BoundAssumption == MaxMessages \in Nat /\ MaxLosses \in Nat

VARIABLES
  log,       \* every message published so far
  ready,     \* those the broker can deliver
  owed,      \* those delivered and not acknowledged
  handled,   \* those localbot acted upon, at least once
  rejected,  \* those it dropped because handling them raised
  jobs,      \* the Docker_jobs started: of each, the message that asked for it
  registered, \* those whose runtime has the entry of its project
  link,      \* whether the connection really is "up"
  losses,
  pc,        \* what the event loop does next
  current,   \* the message it handles; 0 is none
  consumer,  \* whether the channel has a consumer
  exit       \* exit_event

vars == <<log, ready, owed, handled, rejected, jobs, registered, link, losses, pc,
          current, consumer, exit>>

broker == <<log, ready, owed>>
outcome == <<handled, rejected, jobs, registered>>
loop == <<pc, current, consumer, exit>>

Message == [action : {"create"}, ko : Kos] \cup [action : {"destroy"}, job : Nat]

Published == 1..Len(log)
KoOf(j) == log[jobs[j]].ko
Runtimes(k) == {j \in registered : KoOf(j) = k}

TypeOK ==
  /\ log \in Seq(Message)
  /\ ready \subseteq Published /\ owed \subseteq Published
  /\ handled \subseteq Published /\ rejected \subseteq Published
  /\ jobs \in Seq(Nat)
  /\ registered \subseteq DOMAIN jobs
  /\ \A j \in DOMAIN jobs : jobs[j] \in Published /\ log[jobs[j]].action = "create"
  /\ \A n \in Published : log[n].action = "destroy" => log[n].job \in DOMAIN jobs
  /\ link \in {"up", "down"}
  /\ losses \in Nat
  /\ pc \in {"loop", "connect", "consume", "handle", "ack", "nack", "backoff", "stopped"}
  /\ current \in Published \cup {0}
  /\ pc \in {"handle", "ack", "nack"} <=> current # 0
  /\ consumer \in BOOLEAN /\ exit \in BOOLEAN

Init ==
  /\ log = <<>> /\ ready = {} /\ owed = {}
  /\ handled = {} /\ rejected = {} /\ jobs = <<>> /\ registered = {}
  /\ link = "down" /\ losses = 0
  /\ pc = "loop" /\ current = 0 /\ consumer = FALSE /\ exit = FALSE

-----------------------------------------------------------------------------
(* Clients ask for a runtime of a project, or for the end of a job they    *)
(* see; runtimes end by themselves, and their Cleaner deletes the entry.   *)

Publish(m) ==
  /\ Len(log) < MaxMessages
  /\ log' = Append(log, m)
  /\ ready' = ready \cup {Len(log) + 1}
  /\ UNCHANGED <<owed, outcome, link, losses, loop>>

PublishCreate(k) == Publish([action |-> "create", ko |-> k])
PublishDestroy(j) == Publish([action |-> "destroy", job |-> j])

RuntimeEnds(j) ==
  /\ j \in registered
  /\ registered' = registered \ {j}
  /\ UNCHANGED <<broker, handled, rejected, jobs, link, losses, loop>>

-----------------------------------------------------------------------------
(* The broker and the network. *)

LoseLink ==
  /\ link = "up" /\ losses < MaxLosses
  /\ \/ "loss" \in Env /\ pc = "consume"
     \/ "lossbusy" \in Env /\ pc \in {"handle", "ack", "nack"}
  /\ link' = "down"
  /\ losses' = losses + 1
  /\ IF "linger" \in Env
     THEN UNCHANGED <<ready, owed>>
     ELSE ready' = ready \cup owed /\ owed' = {}
  /\ UNCHANGED <<log, outcome, loop>>

\* The broker gives up a dead connection that it had not noticed at once.
Requeue(n) ==
  /\ "linger" \in Env
  /\ n \in owed
  /\ link = "down" \/ n # current
  /\ ready' = ready \cup {n}
  /\ owed' = owed \ {n}
  /\ UNCHANGED <<log, outcome, link, losses, loop>>

-----------------------------------------------------------------------------
(* wait_for_event. *)

TestExit ==
  /\ pc = "loop"
  /\ pc' = IF exit THEN "stopped" ELSE "connect"
  /\ UNCHANGED <<broker, outcome, link, losses, current, consumer, exit>>

\* Mutant: basic_consume is not repeated on a new connection.
ConnectWithoutConsume ==
  /\ pc = "connect"
  /\ link' = "up"
  /\ consumer' = (losses = 0)
  /\ pc' = "consume"
  /\ UNCHANGED <<broker, outcome, losses, current, exit>>

\* Connection, channel, queue_declare, basic_qos, basic_consume.
Connect ==
  /\ pc = "connect"
  /\ link' = "up"
  /\ consumer' = TRUE
  /\ pc' = "consume"
  /\ UNCHANGED <<broker, outcome, losses, current, exit>>

ConnectFails ==
  /\ pc = "connect"
  /\ "loss" \in Env /\ losses < MaxLosses
  /\ losses' = losses + 1
  /\ pc' = "backoff"
  /\ UNCHANGED <<broker, outcome, link, current, consumer, exit>>

\* What is no AMQPConnectionError, a name that does not resolve or a channel
\* that the broker closes, ends the loop.
ConnectRaises ==
  /\ pc = "connect" /\ "error" \in Env
  /\ pc' = "stopped"
  /\ UNCHANGED <<broker, outcome, link, losses, current, consumer, exit>>

\* start_consuming raises AMQPConnectionError.
NoticeLoss ==
  /\ pc = "consume" /\ link = "down"
  /\ consumer' = FALSE
  /\ pc' = "backoff"
  /\ UNCHANGED <<broker, outcome, link, losses, current, exit>>

Backoff ==
  /\ pc = "backoff"
  /\ pc' = "loop"
  /\ UNCHANGED <<broker, outcome, link, losses, current, consumer, exit>>

\* start_consuming returns when the channel has no consumer any more.
StopConsuming ==
  /\ pc = "consume" /\ ~consumer
  /\ pc' = "loop"
  /\ UNCHANGED <<broker, outcome, link, losses, current, consumer, exit>>

\* Mutant: messages are acknowledged as they are delivered.
DeliverAcked ==
  /\ pc = "consume" /\ link = "up" /\ consumer
  /\ \E n \in ready :
       /\ \A m \in ready : n <= m
       /\ ready' = ready \ {n}
       /\ current' = n
  /\ pc' = "handle"
  /\ UNCHANGED <<log, owed, outcome, link, losses, consumer, exit>>

Deliver ==
  /\ pc = "consume" /\ link = "up" /\ consumer
  /\ \E n \in ready :
       /\ \A m \in ready : n <= m
       /\ ready' = ready \ {n}
       /\ owed' = owed \cup {n}
       /\ current' = n
  /\ pc' = "handle"
  /\ UNCHANGED <<log, outcome, link, losses, consumer, exit>>

-----------------------------------------------------------------------------
(* _process_message. *)

HandleCreate ==
  /\ pc = "handle" /\ log[current].action = "create"
  /\ IF Runtimes(log[current].ko) # {}
     THEN UNCHANGED <<jobs, registered>>
     ELSE /\ jobs' = Append(jobs, current)
          /\ registered' = registered \cup {Len(jobs) + 1}
  /\ handled' = handled \cup {current}
  /\ pc' = "ack"
  /\ UNCHANGED <<broker, rejected, link, losses, current, consumer, exit>>

\* The runtime that the job's project has now loses its entry, while its
\* process may still be dying; if that raises, the message is acknowledged
\* nevertheless.
HandleDestroy ==
  /\ pc = "handle" /\ log[current].action = "destroy"
  /\ \/ registered' = registered \ Runtimes(KoOf(log[current].job))
     \/ "error" \in Env /\ UNCHANGED registered
  /\ handled' = handled \cup {current}
  /\ pc' = "ack"
  /\ UNCHANGED <<broker, rejected, jobs, link, losses, current, consumer, exit>>

HandleRaises ==
  /\ pc = "handle" /\ "error" \in Env
  /\ pc' = "nack"
  /\ UNCHANGED <<broker, outcome, link, losses, current, consumer, exit>>

\* Mutant: a message is not acknowledged.
AckForgotten ==
  /\ pc = "ack"
  /\ \/ pc' = "consume" /\ UNCHANGED consumer
     \/ link = "down" /\ pc' = "stopped" /\ consumer' = FALSE
  /\ current' = 0
  /\ UNCHANGED <<broker, outcome, link, losses, exit>>

\* Over a lost connection, basic_ack is buffered to no effect, or it raises;
\* the handler's basic_nack then raises ChannelWrongStateError, which the
\* loop takes for an unexpected error.
Ack ==
  /\ pc = "ack"
  /\ IF link = "up" THEN owed' = owed \ {current} ELSE UNCHANGED owed
  /\ \/ pc' = "consume" /\ UNCHANGED consumer
     \/ link = "down" /\ pc' = "stopped" /\ consumer' = FALSE
  /\ current' = 0
  /\ UNCHANGED <<log, ready, outcome, link, losses, exit>>

\* basic_nack(requeue=False) drops the message.
Nack ==
  /\ pc = "nack"
  /\ IF link = "up"
     THEN /\ owed' = owed \ {current}
          /\ rejected' = rejected \cup {current}
          /\ pc' = "consume" /\ UNCHANGED consumer
     ELSE /\ pc' = "stopped" /\ consumer' = FALSE
          /\ UNCHANGED <<owed, rejected>>
  /\ current' = 0
  /\ UNCHANGED <<log, ready, handled, jobs, registered, link, losses, exit>>

-----------------------------------------------------------------------------
(* signal_handler runs between two steps of the loop: it stops consuming   *)
(* if the channel is open, and sends basic_cancel, which raises in the     *)
(* code it interrupts when the connection is lost.                         *)

Signal ==
  /\ "signal" \in Env /\ ~exit /\ pc # "stopped"
  /\ exit' = TRUE
  /\ IF pc \in {"consume", "handle", "ack", "nack"}
     THEN consumer' = FALSE
     ELSE UNCHANGED consumer
  /\ pc' = IF link = "down" /\ pc = "consume" THEN "backoff"
           ELSE IF link = "down" /\ pc \in {"handle", "ack"} THEN "nack"
           ELSE pc
  /\ UNCHANGED <<broker, outcome, link, losses, current>>

-----------------------------------------------------------------------------
EventLoop ==
  \/ TestExit \/ Connect \/ ConnectFails \/ ConnectRaises \/ NoticeLoss
  \/ Backoff \/ StopConsuming
  \/ Deliver \/ HandleCreate \/ HandleDestroy \/ HandleRaises \/ Ack \/ Nack

Next ==
  \/ \E k \in Kos : PublishCreate(k)
  \/ \E j \in DOMAIN jobs : PublishDestroy(j) \/ RuntimeEnds(j)
  \/ LoseLink \/ \E n \in owed : Requeue(n)
  \/ EventLoop
  \/ Signal

Spec == Init /\ [][Next]_vars

\* localbot's thread runs, the network comes back and the broker notices.
FairSpec == Spec /\ WF_vars(EventLoop) /\ \A n \in 1..MaxMessages : WF_vars(Requeue(n))

-----------------------------------------------------------------------------
(* Properties. *)

\* A job is acknowledged after it was handled (event_handler.py:229): whenever
\* the connection breaks, a job not acted upon, or dropped after an error, is
\* still with the broker.
NoJobLost == Published \subseteq ready \cup owed \cup handled \cup rejected

Started == {jobs[j] : j \in DOMAIN jobs}

\* One message at a time is unacknowledged (event_handler.py:254): a lost
\* connection makes at most one create be carried out once more, however late
\* the broker notices and however soon the first runtime has ended.
OneRepeatPerLoss == Len(jobs) - Cardinality(Started) <= losses

\* A user's destroy is final: once it was handled, the create that led to the
\* destroyed job is not carried out again.  Holds if the broker notices a lost
\* connection before localbot is back.
NotAgain(d) == \A j \in DOMAIN jobs' \ DOMAIN jobs : jobs'[j] # jobs[log[d].job]
DestroyIsFinal ==
  [][\A d \in handled : log[d].action = "destroy" => NotAgain(d)]_vars

\* Lost and refused connections only delay jobs (event_handler.py:264-268):
\* a localbot that does not stop consuming handles or drops every one.
HandledEventually ==
  \A n \in 1..MaxMessages :
    n \in Published ~> n \in handled \cup rejected \/ pc = "stopped"

\* "Connection to RabbitMQ lost: ... Reconnecting in 5s..."
\* (event_handler.py:264): a localbot nobody stops connects again.
Reconnects == link = "down" ~> link = "up" \/ exit
=============================================================================
