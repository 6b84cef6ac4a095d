--------------------------- MODULE WobMessageQueue ---------------------------
(***************************************************************************)
(* The wob_message_queue table and the stored procedures that read it      *)
(* (setup/db/sp.sql).  A reader calls one of the get_* procedures inside a *)
(* transaction that it commits after the call: SELECT ... FOR UPDATE SKIP  *)
(* LOCKED chooses a row, UPDATE marks it as read, a last SELECT returns    *)
(* it.  Row locks are held from the first SELECT to the commit.            *)
(***************************************************************************)
EXTENDS Integers

CONSTANTS
  Msgs,        \* the rows that may ever be inserted
  Sessions,    \* database sessions that read the queue
  Priorities,
  NoMsg,
  Address,     \* Msgs -> the row's user, target and wob_id
  Caller       \* Sessions -> the procedure it calls and its arguments

Columns == {"user", "target", "wob"}

Procedures ==
  {"get_wob_message", "get_wob_message_for_user", "get_wob_message_for_processor",
   "get_own_wob_message", "get_wob_message_for_target_by_id",
   "get_wob_message_from_control"}

\* The columns each procedure is to compare with its arguments.
Meant ==
  [get_wob_message                  |-> {"target"},
   get_wob_message_for_user         |-> {"user", "target"},
   get_wob_message_for_processor    |-> {"user", "target", "wob"},
   get_own_wob_message              |-> {"user", "target"},
   get_wob_message_for_target_by_id |-> {"user", "target", "wob"},
   get_wob_message_from_control     |-> {"user", "target", "wob"}]

\* Those its first SELECT leaves out: where an argument has the name of a
\* column, `target` = target compares the argument with itself.
Hidden ==
  [p \in Procedures |->
    IF p \in {"get_own_wob_message", "get_wob_message_for_target_by_id"} THEN {"target"}
    ELSE IF p = "get_wob_message_from_control" THEN {"wob"} ELSE {}]

\* Those its last SELECT compares besides the id: t.`target` is the column.
Returned ==
  [p \in Procedures |->
    IF p \in {"get_wob_message", "get_wob_message_for_user"} THEN {} ELSE Meant[p]]

ASSUME AddressAssumption ==
  /\ NoMsg \notin Msgs
  /\ Priorities \subseteq Int
  /\ \A m \in Msgs : Columns \subseteq DOMAIN Address[m]
  /\ \A s \in Sessions :
       /\ Caller[s].proc \in Procedures
       /\ Columns \subseteq DOMAIN Caller[s]

VARIABLES
  status,  \* of each row: 0 is "unread", 1 "read", 2 "cleared"
  written, \* write_ts
  prio,    \* priority
  clock,   \* CURRENT_TIMESTAMP(2)
  pc,      \* what each session does next
  wid,     \* the row its procedure has chosen
  locks,   \* the rows its transaction has locked
  copies,  \* how often each message was handed to a reader
  lost     \* messages whose answer was lost between the commit and its return

vars == <<status, written, prio, clock, pc, wid, locks, copies, lost>>

TypeOK ==
  /\ status \in [Msgs -> {"absent", "unread", "read", "cleared", "deleted"}]
  /\ written \in [Msgs -> Nat]
  /\ prio \in [Msgs -> Int]
  /\ clock \in Nat
  /\ pc \in [Sessions -> {"ready", "selected", "committed"}]
  /\ wid \in [Sessions -> Msgs \cup {NoMsg}]
  /\ \A s \in Sessions : pc[s] = "committed" => wid[s] \in Msgs
  /\ locks \in [Sessions -> SUBSET Msgs]
  /\ copies \in [Msgs -> Nat]
  /\ lost \subseteq Msgs

Init ==
  /\ status = [m \in Msgs |-> "absent"]
  /\ written = [m \in Msgs |-> 0]
  /\ prio = [m \in Msgs |-> 0]
  /\ clock = 0
  /\ pc = [s \in Sessions |-> "ready"]
  /\ wid = [s \in Sessions |-> NoMsg]
  /\ locks = [s \in Sessions |-> {}]
  /\ copies = [m \in Msgs |-> 0]
  /\ lost = {}

-----------------------------------------------------------------------------
Agree(s, m, columns) == \A c \in columns : Address[m][c] = Caller[s][c]

Claims(s, m) == Agree(s, m, Meant[Caller[s].proc] \ Hidden[Caller[s].proc])
Returns(s, m) == Agree(s, m, Returned[Caller[s].proc])

Free(s) == {m \in Msgs : \A u \in Sessions \ {s} : m \notin locks[u]}
Unlocked == {m \in Msgs : \A u \in Sessions : m \notin locks[u]}

Candidates(s) == {m \in Free(s) : status[m] = "unread" /\ Claims(s, m)}

\* ORDER BY priority DESC, write_ts ASC
Before(m, n) ==
  \/ prio[m] > prio[n]
  \/ prio[m] = prio[n] /\ written[m] <= written[n]

-----------------------------------------------------------------------------
(* Producers and administrators. *)

Send(m) ==
  /\ status[m] = "absent"
  /\ status' = [status EXCEPT ![m] = "unread"]
  /\ \E now \in {clock, clock + 1} :
       clock' = now /\ written' = [written EXCEPT ![m] = now]
  /\ \E p \in Priorities : prio' = [prio EXCEPT ![m] = p]
  /\ UNCHANGED <<pc, wid, locks, copies, lost>>

\* An UPDATE or DELETE by id waits for the lock of its row.
UpdateMessage(m) ==
  /\ status[m] \notin {"absent", "deleted"} /\ m \in Unlocked
  /\ \E p \in Priorities : prio' = [prio EXCEPT ![m] = p]
  /\ UNCHANGED <<status, written, clock, pc, wid, locks, copies, lost>>

\* Mutant: a row is deleted although a reader has locked it.
DeleteIgnoringLocks(m) ==
  /\ status[m] \notin {"absent", "deleted"}
  /\ status' = [status EXCEPT ![m] = "deleted"]
  /\ UNCHANGED <<written, prio, clock, pc, wid, locks, copies, lost>>

DeleteMessage(m) ==
  /\ status[m] \notin {"absent", "deleted"} /\ m \in Unlocked
  /\ status' = [status EXCEPT ![m] = "deleted"]
  /\ UNCHANGED <<written, prio, clock, pc, wid, locks, copies, lost>>

-----------------------------------------------------------------------------
(* Readers. *)

\* Mutant: the SELECT takes no lock.
SelectWithoutLock(s) ==
  /\ pc[s] = "ready"
  /\ IF Candidates(s) = {}
     THEN wid' = [wid EXCEPT ![s] = NoMsg]
     ELSE \E m \in Candidates(s) :
            /\ \A n \in Candidates(s) : Before(m, n)
            /\ wid' = [wid EXCEPT ![s] = m]
  /\ pc' = [pc EXCEPT ![s] = "selected"]
  /\ UNCHANGED <<status, written, prio, clock, locks, copies, lost>>

\* The table has no index but the id: the scan may lock any rows it passes.
Select(s) ==
  /\ pc[s] = "ready"
  /\ \E scanned \in SUBSET Free(s) :
       /\ locks' = [locks EXCEPT ![s] = scanned]
       /\ IF Candidates(s) = {}
          THEN wid' = [wid EXCEPT ![s] = NoMsg]
          ELSE \E m \in Candidates(s) \cap scanned :
                 /\ \A n \in Candidates(s) : Before(m, n)
                 /\ wid' = [wid EXCEPT ![s] = m]
  /\ pc' = [pc EXCEPT ![s] = "selected"]
  /\ UNCHANGED <<status, written, prio, clock, copies, lost>>

\* Mutant: the UPDATE marks every unread row the transaction has locked.
CommitMarksScanned(s) ==
  /\ pc[s] = "selected"
  /\ status' = [m \in Msgs |->
                 IF m \in locks[s] /\ status[m] = "unread" THEN "read" ELSE status[m]]
  /\ locks' = [locks EXCEPT ![s] = {}]
  /\ pc' = [pc EXCEPT ![s] = IF wid[s] = NoMsg THEN "ready" ELSE "committed"]
  /\ UNCHANGED <<written, prio, clock, wid, copies, lost>>

\* UPDATE ... SET status = 1 WHERE status = 0 AND id = wid, then the commit.
Commit(s) ==
  /\ pc[s] = "selected"
  /\ status' = [m \in Msgs |->
                 IF m = wid[s] /\ status[m] = "unread" THEN "read" ELSE status[m]]
  /\ locks' = [locks EXCEPT ![s] = {}]
  /\ pc' = [pc EXCEPT ![s] = IF wid[s] = NoMsg THEN "ready" ELSE "committed"]
  /\ UNCHANGED <<written, prio, clock, wid, copies, lost>>

\* The session is killed, or its process dies, before the commit.
Rollback(s) ==
  /\ pc[s] = "selected"
  /\ locks' = [locks EXCEPT ![s] = {}]
  /\ wid' = [wid EXCEPT ![s] = NoMsg]
  /\ pc' = [pc EXCEPT ![s] = "ready"]
  /\ UNCHANGED <<status, written, prio, clock, copies, lost>>

\* The rows of the last SELECT reach the caller, if there are any.
Return(s) ==
  /\ pc[s] = "committed"
  /\ copies' = [m \in Msgs |->
                 IF m = wid[s] /\ Returns(s, m) THEN copies[m] + 1 ELSE copies[m]]
  /\ wid' = [wid EXCEPT ![s] = NoMsg]
  /\ pc' = [pc EXCEPT ![s] = "ready"]
  /\ UNCHANGED <<status, written, prio, clock, locks, lost>>

Crash(s) ==
  /\ pc[s] = "committed"
  /\ lost' = lost \cup {wid[s]}
  /\ wid' = [wid EXCEPT ![s] = NoMsg]
  /\ pc' = [pc EXCEPT ![s] = "ready"]
  /\ UNCHANGED <<status, written, prio, clock, locks, copies>>

\* clear_wob_messages_for_processor: the UPDATE waits for the rows it changes.
ToClear(s) == {m \in Msgs : status[m] = "unread" /\ Returns(s, m)}

\* Mutant: the clear does not respect the readers' locks.
ClearIgnoringLocks(s) ==
  /\ pc[s] = "ready"
  /\ Caller[s].proc = "get_wob_message_for_processor"
  /\ status' = [m \in Msgs |-> IF m \in ToClear(s) THEN "cleared" ELSE status[m]]
  /\ UNCHANGED <<written, prio, clock, pc, wid, locks, copies, lost>>

Clear(s) ==
  /\ pc[s] = "ready"
  /\ Caller[s].proc = "get_wob_message_for_processor"
  /\ ToClear(s) \subseteq Unlocked
  /\ status' = [m \in Msgs |-> IF m \in ToClear(s) THEN "cleared" ELSE status[m]]
  /\ UNCHANGED <<written, prio, clock, pc, wid, locks, copies, lost>>

-----------------------------------------------------------------------------
Next ==
  \/ \E m \in Msgs : Send(m) \/ UpdateMessage(m) \/ DeleteMessage(m)
  \/ \E s \in Sessions :
       Select(s) \/ Commit(s) \/ Rollback(s) \/ Return(s) \/ Crash(s) \/ Clear(s)

Spec == Init /\ [][Next]_vars

-----------------------------------------------------------------------------
(* Properties. *)

\* No message reaches two readers, or one reader twice, however their
\* transactions overlap, whichever procedures they call and whoever dies.
AtMostOnce == \A m \in Msgs : copies[m] <= 1

Held(m) == \E s \in Sessions : pc[s] = "committed" /\ wid[s] = m

\* A row that some reader chooses although its last SELECT will not return it.
\* get_message is to "Fetch the next message for a subject from the message
\* queue." (miranda.py:2281); its get_own_wob_message chooses among all
\* subjects, marks what it has chosen, and returns it only if the subject is right.
Mistaken(m) == \E s \in Sessions : Claims(s, m) /\ ~Returns(s, m)

\* A hidden column is the only way to use a message up: any other that is
\* marked as read was handed to a reader, is on its way to one, or was lost
\* with one that died, however the transactions of all readers, the mistaken
\* ones among them, overlap and are rolled back.
ReadIsDelivered ==
  \A m \in Msgs :
    status[m] = "read" => copies[m] > 0 \/ m \in lost \/ Held(m) \/ Mistaken(m)

\* A command that the processor has cleared is not executed afterwards: the
\* clear and a reader that has already chosen the row exclude each other.
ClearedIsNeverRead ==
  \A m \in Msgs :
    status[m] = "cleared" => copies[m] = 0 /\ m \notin lost /\ ~Held(m)

\* The table and its procedures give each message to at most one reader.
Abstract ==
  INSTANCE AtMostOnceQueue WITH
    pending   <- {m \in Msgs : status[m] = "unread"},
    taken     <- {m \in Msgs : Held(m)},
    delivered <- {m \in Msgs : copies[m] > 0},
    dropped   <- {m \in Msgs :
                   /\ status[m] \notin {"absent", "unread"}
                   /\ copies[m] = 0 /\ ~Held(m)}

ImplementsAtMostOnce == Abstract!QSpec
=============================================================================
