---------------------------- MODULE RuntimeLeases ----------------------------
(***************************************************************************)
(* What localbot promises of the runtimes of a project: a thread leases    *)
(* the project, runs at most one processor for it, and the project is free *)
(* again only when that processor has ended.  A thread that fails to start *)
(* keeps its lease: nothing says that a lease is ever given back.          *)
(***************************************************************************)
CONSTANTS Kos, Threads, NoThread

VARIABLES
  lease,    \* the thread each project is leased to
  process   \* the one processor each thread may run

lvars == <<lease, process>>

Holders == {lease[k] : k \in Kos} \ {NoThread}

LInit ==
  /\ lease = [k \in Kos |-> NoThread]
  /\ process = [t \in Threads |-> "none"]

\* A free project is leased to a thread that was never used.
Grant(k, t) ==
  /\ lease[k] = NoThread
  /\ t \notin Holders /\ process[t] = "none"
  /\ lease' = [lease EXCEPT ![k] = t]
  /\ UNCHANGED process

Start(t) ==
  /\ t \in Holders /\ process[t] = "none"
  /\ process' = [process EXCEPT ![t] = "running"]
  /\ UNCHANGED lease

End(t) ==
  /\ t \in Holders /\ process[t] = "running"
  /\ process' = [process EXCEPT ![t] = "dead"]
  /\ UNCHANGED lease

GiveBack(k) ==
  /\ lease[k] # NoThread /\ process[lease[k]] = "dead"
  /\ lease' = [lease EXCEPT ![k] = NoThread]
  /\ UNCHANGED process

LNext ==
  \/ \E k \in Kos : GiveBack(k) \/ \E t \in Threads : Grant(k, t)
  \/ \E t \in Threads : Start(t) \/ End(t)

LSpec == LInit /\ [][LNext]_lvars
=============================================================================
