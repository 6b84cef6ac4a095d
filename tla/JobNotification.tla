--------------------------- MODULE JobNotification ---------------------------
(***************************************************************************)
(* How readers of the message queue are woken (apps/cdc, the loops around  *)
(* SLEEP).  A reader that finds no message runs SELECT SLEEP() under an    *)
(* annotation that says what it waits for.  The CDC process follows the    *)
(* binlog: a collector thread puts every inserted row into a queue, and    *)
(* the main thread looks for the sleepers of each row and kills their      *)
(* connections.  An administrator does the same to waiters for an input.   *)
(* Transactions on the queue are those of WobMessageQueue, one session per *)
(* procedure a reader calls.                                               *)
(***************************************************************************)
EXTENDS WobMessageQueue, Sequences, Functions

CONSTANTS
  Readers,     \* connections that read the queue and sleep
  Kind,        \* of each: "localbot", "processor" or "input"
  Asks,        \* the sessions of its procedures, in the order of its calls
  Annotation,  \* what its SLEEP says
  Scenes,      \* the sets of readers that run together
  MaxEvents,   \* size of the CDC process's queue
  MaxFailures  \* bound on the errors process_events meets

\* The searches for the sleepers of a row, one after the other: a command's
\* also in the form without its target, a job's by resource group.
Searches(m) ==
  LET row == Address[m]
  IN IF row.target = "job" THEN <<<<row.group>>>>
     ELSE (IF row.target = "processor" THEN <<<<row.wob>>>> ELSE <<>>) \o <<<<row.wob, row.target>>>>

ASSUME ReaderAssumption ==
  /\ Kind \in [Readers -> {"localbot", "processor", "input"}]
  /\ \A r \in Readers : Asks[r] \in Seq(Sessions) /\ Asks[r] # <<>>
  /\ \A r, q \in Readers : r # q => Range(Asks[r]) \cap Range(Asks[q]) = {}
  /\ Scenes \subseteq SUBSET Readers
  /\ MaxEvents \in Nat \ {0} /\ MaxFailures \in Nat

VARIABLES
  at,       \* of each reader: "idle", "poll", "sleep", "work" or "gone"
  asking,   \* which of its procedures it calls
  binlog,   \* rows inserted that the collector has not read
  events,   \* EventHandler.events
  hand,     \* the event process_events works on
  search,   \* the search it is at; 0 before the connection is checked
  victims,  \* the sleepers the search has found and not killed
  failures,
  found,    \* those kill_input_waiter has found
  slept     \* history: sleepers of the event in hand, since it was taken

queue  == vars
reader == <<at, asking>>
stream == <<binlog, events>>
killer == <<hand, search, victims, failures>>
nvars  == <<queue, reader, stream, killer, found, slept>>

NTypeOK ==
  /\ TypeOK
  /\ at \in [Readers -> {"idle", "poll", "sleep", "work", "gone"}]
  /\ asking \in [Readers -> Nat]
  /\ \A r \in Readers : asking[r] \in DOMAIN Asks[r]
  /\ binlog \in Seq(Msgs) /\ events \in Seq(Msgs) /\ Len(events) <= MaxEvents
  /\ hand \in Msgs \cup {NoMsg}
  /\ failures \in 0 .. MaxFailures
  /\ search \in 0 .. IF hand = NoMsg THEN 0 ELSE Len(Searches(hand))
  /\ victims \subseteq Readers /\ found \subseteq Readers /\ slept \subseteq Readers

NInit ==
  /\ Init
  /\ \E present \in Scenes :
       at = [r \in Readers |-> IF r \notin present THEN "gone"
                               ELSE IF Kind[r] = "localbot" THEN "sleep" ELSE "idle"]
  /\ asking = [r \in Readers |-> 1]
  /\ binlog = <<>> /\ events = <<>>
  /\ hand = NoMsg /\ search = 0 /\ victims = {} /\ failures = 0 /\ found = {} /\ slept = {}

Goes(r, place) ==
  /\ at' = [at EXCEPT ![r] = place]
  /\ asking' = [asking EXCEPT ![r] = 1]
  /\ slept' = slept \ {r}

-----------------------------------------------------------------------------
(* Producers: the collector sees what is committed while it follows.       *)

ReadBy(r) == {m \in Msgs : \E s \in Range(Asks[r]) : Returns(s, m)}

\* Rows that nobody here reads concern nobody here.  Each has its own time.
Insert(m) ==
  /\ \E r \in Readers : at[r] # "gone" /\ m \in ReadBy(r)
  /\ Send(m) /\ clock' = clock + 1
  /\ binlog' = Append(binlog, m)
  /\ UNCHANGED <<reader, events, killer, found, slept>>

-----------------------------------------------------------------------------
(* Readers: NotifiedEventHandler of localbot, CommandActor of a processor, *)
(* get_input_from in a node.                                               *)

\* The node or the processor asks again; input() clears old commands first.
Begin(r) ==
  /\ at[r] = "idle"
  /\ IF Kind[r] = "processor" THEN Clear(Asks[r][1]) ELSE UNCHANGED queue
  /\ Goes(r, "poll")
  /\ UNCHANGED <<stream, killer, found>>

Session(r) == Asks[r][asking[r]]

\* Locks of rows that are not there or no longer unread hold up nobody.
Poll(r) ==
  /\ at[r] = "poll"
  /\ Select(Session(r))
  /\ \A m \in locks'[Session(r)] : status[m] = "unread"
  /\ UNCHANGED <<reader, stream, killer, found, slept>>

FindsNothing(r) ==
  IF asking[r] < Len(Asks[r])
  THEN asking' = [asking EXCEPT ![r] = @ + 1] /\ UNCHANGED <<at, slept>>
  ELSE Goes(r, "sleep")

Polled(r) ==
  /\ at[r] = "poll"
  /\ Commit(Session(r))
  /\ IF wid[Session(r)] = NoMsg THEN FindsNothing(r) ELSE UNCHANGED <<reader, slept>>
  /\ UNCHANGED <<stream, killer, found>>

\* Any command ends the wait for an input.
Receives(r) ==
  /\ at[r] = "poll"
  /\ Return(Session(r))
  /\ IF ~Returns(Session(r), wid[Session(r)]) THEN FindsNothing(r)
     ELSE Goes(r, IF Kind[r] = "localbot" THEN "work"
                  ELSE IF asking[r] = 1 THEN "idle" ELSE "gone")
  /\ UNCHANGED <<stream, killer, found>>

\* Whatever the job was, or however handling it failed.
Worked(r) ==
  /\ at[r] = "work"
  /\ Goes(r, "sleep")
  /\ UNCHANGED <<queue, stream, killer, found>>

\* Mutant: only a notification makes a reader look again.
TimeoutSleepsOn(r) ==
  /\ at[r] = "sleep"
  /\ Goes(r, "sleep")
  /\ UNCHANGED <<queue, stream, killer, found>>

\* SLEEP ends by itself.
Timeout(r) ==
  /\ at[r] = "sleep"
  /\ Goes(r, "poll")
  /\ UNCHANGED <<queue, stream, killer, found>>

\* It was one time too many without a notification (10, 20 or 200).
GiveUp(r) ==
  /\ at[r] = "sleep"
  /\ Goes(r, "gone")
  /\ UNCHANGED <<queue, stream, killer, found>>

-----------------------------------------------------------------------------
(* KILL ends the connection, whatever it does by now.                      *)

\* The transaction is rolled back; or its commit is done and its answer is
\* lost, and with it the message, although the reader lives on.
Break(s) ==
  \/ Rollback(s)
  \/ /\ pc[s] = "selected" /\ wid[s] # NoMsg
     /\ status' = [status EXCEPT ![wid[s]] = "read"]
     /\ lost' = lost \cup {wid[s]}
     /\ locks' = [locks EXCEPT ![s] = {}]
     /\ wid' = [wid EXCEPT ![s] = NoMsg]
     /\ pc' = [pc EXCEPT ![s] = "ready"]
     /\ UNCHANGED <<written, prio, clock, copies>>

\* get_message logs the error and returns nothing; the others raise it.
Fails(r) == Goes(r, IF Kind[r] = "localbot" THEN "sleep" ELSE "gone")

\* Between two statements the next connect() may still repair it.  What was
\* committed has reached the reader.
Killed(r) ==
  \/ at[r] = "sleep" /\ Goes(r, "poll") /\ UNCHANGED queue
  \/ at[r] = "poll" /\ Break(Session(r)) /\ Fails(r)
  \/ /\ at[r] = "poll" /\ pc[Session(r)] = "ready"
     /\ Fails(r) /\ UNCHANGED queue
  \/ /\ at[r] \in {"idle", "work"} \/ (at[r] = "poll" /\ pc[Session(r)] # "selected")
     /\ UNCHANGED <<reader, slept, queue>>

Sleeping(annotation) == {r \in Readers : at[r] = "sleep" /\ Annotation[r] = annotation}

-----------------------------------------------------------------------------
(* collect_events. *)

Collect ==
  /\ binlog # <<>> /\ Len(events) < MaxEvents
  /\ events' = Append(events, Head(binlog))
  /\ binlog' = Tail(binlog)
  /\ UNCHANGED <<queue, reader, killer, found, slept>>

\* Five seconds later a new stream starts at the end of the binlog: rows
\* committed in between, or not read yet, are passed over.
StreamFails ==
  /\ binlog # <<>>
  /\ binlog' = <<>>
  /\ UNCHANGED <<queue, reader, events, killer, found, slept>>

-----------------------------------------------------------------------------
(* process_events. *)

TakeEvent ==
  /\ hand = NoMsg /\ events # <<>>
  /\ hand' = Head(events) /\ events' = Tail(events)
  /\ slept' = UNION {Sleeping(a) : a \in Range(Searches(hand'))}
  /\ UNCHANGED <<queue, reader, binlog, search, victims, failures, found>>

Found == Sleeping(Searches(hand)[search'])

\* SELECT ... FROM processlist
Search ==
  /\ hand # NoMsg /\ victims = {} /\ search < Len(Searches(hand))
  /\ search' = search + 1
  /\ victims' = Found
  /\ UNCHANGED <<queue, reader, stream, hand, failures, found, slept>>

Kill(r) ==
  /\ r \in victims /\ at[r] # "gone"
  /\ victims' = victims \ {r}
  /\ Killed(r)
  /\ UNCHANGED <<stream, hand, search, failures, found>>

\* Mutant: an event is dropped when its processing fails.
ProcessingDrops ==
  /\ hand # NoMsg /\ failures < MaxFailures
  /\ failures' = failures + 1
  /\ hand' = NoMsg /\ search' = 0 /\ victims' = {} /\ slept' = {}
  /\ UNCHANGED <<queue, reader, stream, found>>

\* The connection is lost, or a victim is: the event is processed again.
ProcessingFails ==
  /\ hand # NoMsg /\ failures < MaxFailures
  /\ failures' = failures + 1
  /\ search' = 0 /\ victims' = {}
  /\ UNCHANGED <<queue, reader, stream, hand, found, slept>>

Finish ==
  /\ hand # NoMsg /\ victims = {} /\ search = Len(Searches(hand))
  /\ hand' = NoMsg /\ search' = 0 /\ slept' = {}
  /\ UNCHANGED <<queue, reader, stream, victims, failures, found>>

-----------------------------------------------------------------------------
(* kill_input_waiter: a list, then a KILL for each; an error ends it.      *)

FindInputWaiter(r) ==
  /\ found = {} /\ at[r] = "sleep" /\ Kind[r] = "input"
  /\ found' = Sleeping(Annotation[r])
  /\ UNCHANGED <<queue, reader, stream, killer, slept>>

KillInputWaiter(r) ==
  /\ r \in found
  /\ IF at[r] = "gone" THEN found' = {} /\ UNCHANGED <<queue, reader, slept>>
     ELSE found' = found \ {r} /\ Killed(r)
  /\ UNCHANGED <<stream, killer>>

-----------------------------------------------------------------------------
Reads(r) == Poll(r) \/ Polled(r) \/ Receives(r) \/ Worked(r) \/ Timeout(r)

NNext ==
  \/ \E m \in Msgs : Insert(m)
  \/ \E r \in Readers :
       \/ Begin(r) \/ Poll(r) \/ Polled(r) \/ Receives(r) \/ Worked(r)
       \/ Timeout(r) \/ GiveUp(r)
       \/ Kill(r) \/ FindInputWaiter(r) \/ KillInputWaiter(r)
  \/ Collect \/ StreamFails
  \/ TakeEvent \/ Search \/ ProcessingFails \/ Finish

NSpec == NInit /\ [][NNext]_nvars

\* Readers run and their SLEEP ends; the CDC process owes nothing.
NFairSpec == NSpec /\ \A r \in Readers : WF_nvars(Reads(r))

-----------------------------------------------------------------------------
(* Properties. *)

Waiting(r) == at[r] \in {"poll", "sleep", "work"}

\* The sleep is bounded "for a maximum of two minutes" (miranda.py:2227) because
\* notifications come too early, get lost with the stream or hit nobody: a
\* message waits for a reader only until one takes it or all have stopped waiting.
Received ==
  \A m \in Msgs :
    status[m] = "unread" ~> \/ status[m] # "unread"
                            \/ \A r \in Readers : m \in ReadBy(r) => ~Waiting(r)

\* An event is kept until its processing succeeds (__main__.py:196-202): every
\* reader that slept for its row when it was taken is woken, however often the
\* connection is lost or a sleeper vanishes between the search and its KILL.
EventWakes == [][hand # NoMsg /\ hand' # hand => slept = {}]_nvars
=============================================================================
