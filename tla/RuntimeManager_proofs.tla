----------------------- MODULE RuntimeManager_proofs -----------------------
(***************************************************************************)
(* Proofs about RuntimeManager, for any number of knowledge objects and    *)
(* threads.                                                                *)
(***************************************************************************)
EXTENDS RuntimeManager, TLAPS

USE DEF Alive, Goto, Return, MayStep, MainRuns, DaemonsRun, Actors,
        DestroySteps, ThreadSteps

\* Every actor and every field keeps its type.
THEOREM TypeCorrect == Spec => []TypeOK
<1>1. Init => TypeOK
  BY IdentityAssumption DEF Init, TypeOK
<1>2. TypeOK /\ [Next]_vars => TypeOK'
  <2> SUFFICES ASSUME TypeOK, [Next]_vars PROVE TypeOK'
    OBVIOUS
  <2> USE IdentityAssumption DEF TypeOK
  <2>1. ASSUME NEW k \in Kos, NEW t \in Threads, StartThread(k, t) PROVE TypeOK'
    BY <2>1 DEF StartThread
  <2>2. CASE Register
    BY <2>2 DEF Register
  <2>3. ASSUME NEW t \in Threads, DestroyRequest(t) PROVE TypeOK'
    BY <2>3 DEF DestroyRequest
  <2>9. ASSUME NEW k \in Kos, DestroyKo(k) PROVE TypeOK'
    BY <2>9 DEF DestroyKo
  <2>4. ASSUME NEW t \in Threads, Monitor(t) PROVE TypeOK'
    BY <2>4 DEF Monitor, Runtime, Prepare, CreateJob, Spawn, StartupRaises,
                AwaitStopOrExit, MonitorFails, Reap, Terminated, MarkExited
  <2>5. ASSUME NEW t \in Threads, Processor(t) PROVE TypeOK'
    BY <2>5 DEF Processor, Report, ProcessExits
  <2>6. ASSUME NEW a \in Actors, Destroy(a) PROVE TypeOK'
    <3>1. CASE DestroyCheck(a)
      BY <3>1 DEF DestroyCheck
    <3>2. CASE DestroyStop(a)
      BY <3>2 DEF DestroyStop
    <3>3. CASE RemoveContext(a)
      <4>1. CASE /\ ctx' = ctx \ {ko[a]}
                 /\ home' = {t \in home : ko[t] # ko[a]}
                 /\ pc' = [pc EXCEPT ![a] = "del"]
        BY <3>3, <4>1 DEF RemoveContext
      <4>2. CASE UNCHANGED <<ctx, home>> /\ pc' = [pc EXCEPT ![a] = Return(a)]
        BY <3>3, <4>2 DEF RemoveContext
      <4> QED
        BY <3>3, <4>1, <4>2 DEF RemoveContext
    <3>4. CASE DeleteEntry(a)
      BY <3>4 DEF DeleteEntry
    <3> QED
      BY <2>6, <3>1, <3>2, <3>3, <3>4 DEF Destroy
  <2>7. CASE KillAll \/ JoinAll \/ LeaveLoop \/ MainExits
    <3>1. CASE KillAll
      BY <3>1 DEF KillAll, Registered
    <3>2. CASE JoinAll
      BY <3>2 DEF JoinAll
    <3>3. CASE LeaveLoop
      BY <3>3 DEF LeaveLoop
    <3>4. CASE MainExits
      BY <3>4 DEF MainExits
    <3> QED
      BY <2>7, <3>1, <3>2, <3>3, <3>4
  <2>8. CASE UNCHANGED vars
    BY <2>8 DEF vars
  <2> QED
    BY <2>1, <2>2, <2>3, <2>4, <2>5, <2>6, <2>7, <2>8, <2>9 DEF Next
<1> QED
  BY <1>1, <1>2, PTL DEF Spec

-----------------------------------------------------------------------------
(* A process lives only while its thread watches it or has failed to, and  *)
(* by the time the thread writes EXITED there is none left to write more.  *)

Watched == \A t \in Threads : Alive(t) => pc[t] \in {"wait", "reap", "terminate", "crashed"}

ThreadPhases ==
  \A t \in Threads :
    pc[t] \in ThreadSteps \cup DestroySteps \cup {"none", "ended", "crashed"}

ExitInv == TypeOK /\ ThreadPhases /\ Watched /\ ExitedIsFinal

LEMMA ExitInvariant == Spec => []ExitInv
<1> USE IdentityAssumption
<1>1. Init => ExitInv
  BY TypeCorrect DEF Init, ExitInv, TypeOK, ThreadPhases, Watched, ExitedIsFinal
<1>2. TypeOK' /\ ExitInv /\ [Next]_vars => ExitInv'
  <2> SUFFICES ASSUME TypeOK', ExitInv, [Next]_vars
               PROVE  ThreadPhases' /\ Watched' /\ ExitedIsFinal'
    BY DEF ExitInv
  <2> USE DEF ExitInv, TypeOK, ThreadPhases, Watched, ExitedIsFinal
  <2>1. ASSUME NEW k \in Kos, NEW t \in Threads, StartThread(k, t)
        PROVE  ThreadPhases' /\ Watched' /\ ExitedIsFinal'
    BY <2>1 DEF StartThread
  <2>2. CASE Register
    BY <2>2 DEF Register
  <2>3. ASSUME NEW t \in Threads, DestroyRequest(t)
        PROVE  ThreadPhases' /\ Watched' /\ ExitedIsFinal'
    BY <2>3 DEF DestroyRequest
  <2>9. ASSUME NEW k \in Kos, DestroyKo(k)
        PROVE  ThreadPhases' /\ Watched' /\ ExitedIsFinal'
    BY <2>9 DEF DestroyKo
  <2>4. ASSUME NEW t \in Threads, Monitor(t)
        PROVE  ThreadPhases' /\ Watched' /\ ExitedIsFinal'
    BY <2>4 DEF Monitor, Runtime, Prepare, CreateJob, Spawn, StartupRaises,
                AwaitStopOrExit, MonitorFails, Reap, Terminated, MarkExited
  <2>5. ASSUME NEW t \in Threads, Processor(t)
        PROVE  ThreadPhases' /\ Watched' /\ ExitedIsFinal'
    BY <2>5 DEF Processor, Report, ProcessExits
  <2>6. ASSUME NEW a \in Actors, Destroy(a)
        PROVE  ThreadPhases' /\ Watched' /\ ExitedIsFinal'
    <3>1. /\ UNCHANGED <<proc, job>>
          /\ pc[a] \in DestroySteps
          /\ \E s \in DestroySteps \cup {Return(a)} : pc' = [pc EXCEPT ![a] = s]
      BY <2>6 DEF Destroy, DestroyCheck, DestroyStop, RemoveContext, DeleteEntry
    <3> QED
      BY <3>1
  <2>7. CASE KillAll \/ JoinAll \/ LeaveLoop \/ MainExits
    BY <2>7 DEF KillAll, JoinAll, LeaveLoop, MainExits
  <2>8. CASE UNCHANGED vars
    BY <2>8 DEF vars
  <2> QED
    BY <2>1, <2>2, <2>3, <2>4, <2>5, <2>6, <2>7, <2>8, <2>9 DEF Next
<1> QED
  BY <1>1, <1>2, TypeCorrect, PTL DEF Spec

\* The last write of a runtime's Docker_job is EXITED and it stays: in every
\* environment, with forced destroys, errors and signals.
THEOREM ExitedStays == Spec => []ExitedIsFinal
  BY ExitInvariant, PTL DEF ExitInv

-----------------------------------------------------------------------------
(* Without forced destroys a runtime is removed only by its own thread, so *)
(* a thread that has not ended owns the entry of its ko, for good if it    *)
(* has crashed.                                                            *)

Active(t) == pc[t] \notin {"none", "ended"}

MainCreates ==
  /\ pc[Main] \in {"idle", "register", "gone"}
  /\ starting # NoThread => pc[Main] = "register"
  /\ pc[Main] = "register" =>
       /\ starting \in Threads /\ ko[starting] = ko[Main]
       /\ ko[Main] \in Kos /\ runtimes[ko[Main]] = NoThread

Owns ==
  \A t \in Threads :
    /\ Active(t) => ko[t] \in Kos /\ (runtimes[ko[t]] = t \/ starting = t)
    /\ pc[t] \in {"stop", "rmtree", "del"} => runtimes[ko[t]] = t

\* Only an active thread has a process, and its directory exists.
Housed == \A t \in Threads : Alive(t) => Active(t) /\ t \in home /\ ko[t] \in ctx

GracefulInv ==
  /\ TypeOK /\ ThreadPhases /\ Watched
  /\ MainCreates /\ Owns /\ Housed

\* Two active threads of one ko are the same thread.
LEMMA OwnerUnique ==
  ASSUME GracefulInv, NEW t \in Threads, NEW u \in Threads,
         Active(t), Active(u), ko[t] = ko[u]
  PROVE  t = u
  BY IdentityAssumption DEF GracefulInv, TypeOK, MainCreates, Owns

LEMMA GracefulImplies ==
  GracefulInv => OneProcessorPerKo /\ NoOrphan /\ ContextIntact
<1> SUFFICES ASSUME GracefulInv
             PROVE  OneProcessorPerKo /\ NoOrphan /\ ContextIntact
  OBVIOUS
<1>1. OneProcessorPerKo
  BY OwnerUnique DEF GracefulInv, Housed, OneProcessorPerKo
<1>2. NoOrphan
  BY DEF GracefulInv, Housed, Owns, NoOrphan
<1>3. ContextIntact
  BY DEF GracefulInv, Housed, ContextIntact
<1> QED
  BY <1>1, <1>2, <1>3

LEMMA GracefulInit == Init => GracefulInv
  BY IdentityAssumption
  DEF Init, GracefulInv, TypeOK, ThreadPhases, Watched, MainCreates,
      Owns, Housed, Active

LEMMA GracefulStep ==
  ASSUME "destroy" \notin Env
  PROVE  TypeOK' /\ (ThreadPhases /\ Watched)' /\ GracefulInv /\ [Next]_vars
           => GracefulInv'
<1> SUFFICES ASSUME TypeOK', (ThreadPhases /\ Watched)', GracefulInv, [Next]_vars
             PROVE  MainCreates' /\ Owns' /\ Housed'
  BY DEF GracefulInv
<1> USE IdentityAssumption
<1>0. MainCreates /\ Owns /\ Housed /\ TypeOK /\ ThreadPhases /\ Watched
  BY DEF GracefulInv
<1>1. ASSUME NEW k \in Kos, NEW t \in Threads, StartThread(k, t)
      PROVE  MainCreates' /\ Owns' /\ Housed'
  <2>1. MainCreates'
    BY <1>0, <1>1 DEF StartThread, MainCreates, TypeOK
  <2>2. Owns'
    BY <1>0, <1>1 DEF StartThread, MainCreates, Owns, Active, TypeOK
  <2>3. Housed'
    BY <1>0, <1>1 DEF StartThread, Housed, Active, TypeOK
  <2> QED
    BY <2>1, <2>2, <2>3
<1>2. CASE Register
  <2>1. MainCreates'
    BY <1>0, <1>2 DEF Register, MainCreates, TypeOK
  <2>2. Owns'
    BY <1>0, <1>2 DEF Register, MainCreates, Owns, Active, TypeOK
  <2>3. Housed'
    BY <1>0, <1>2 DEF Register, Housed, Active, TypeOK
  <2> QED
    BY <2>1, <2>2, <2>3
<1>3. ASSUME NEW t \in Threads, Monitor(t)
      PROVE  MainCreates' /\ Owns' /\ Housed'
  <2>1. MainCreates'
    BY <1>0, <1>3
    DEF Monitor, Runtime, Prepare, CreateJob, Spawn, StartupRaises,
        AwaitStopOrExit, MonitorFails, Reap, Terminated, MarkExited, MainCreates, TypeOK
  <2>2. Owns'
    BY <1>0, <1>3
    DEF Monitor, Runtime, Prepare, CreateJob, Spawn, StartupRaises,
        AwaitStopOrExit, MonitorFails, Reap, Terminated, MarkExited, Owns, Active, TypeOK
  <2>3. Housed'
    <3> USE <1>0, <1>3 DEF Housed, Watched, Active, TypeOK
    <3>1. CASE Prepare(t) \/ CreateJob(t) \/ StartupRaises(t)
      BY <3>1 DEF Prepare, CreateJob, StartupRaises
    <3>2. CASE Spawn(t)
      BY <3>2 DEF Spawn
    <3>3. CASE AwaitStopOrExit(t) \/ MonitorFails(t) \/ Terminated(t) \/ MarkExited(t)
      BY <3>3 DEF AwaitStopOrExit, MonitorFails, Terminated, MarkExited
    <3>4. CASE Reap(t)
      BY <3>4 DEF Reap
    <3> QED
      BY <3>1, <3>2, <3>3, <3>4 DEF Monitor, Runtime
  <2> QED
    BY <2>1, <2>2, <2>3
<1>4. ASSUME NEW t \in Threads, Processor(t)
      PROVE  MainCreates' /\ Owns' /\ Housed'
  BY <1>0, <1>4
  DEF Processor, Report, ProcessExits, MainCreates, Owns, Housed, Active, TypeOK
<1>5. ASSUME NEW a \in Actors, Destroy(a)
      PROVE  MainCreates' /\ Owns' /\ Housed'
  <2>1. a \in Threads /\ Active(a)
    BY <1>0, <1>5
    DEF Destroy, DestroyCheck, DestroyStop, RemoveContext, DeleteEntry,
        MainCreates, Active
  <2>2. \A u \in Threads : Active(u) /\ ko[u] = ko[a] => u = a
    BY <2>1, OwnerUnique
  <2>3. CASE DestroyCheck(a)
    BY <1>0, <2>1, <2>3
    DEF DestroyCheck, MainCreates, Owns, Housed, Watched, Active, TypeOK
  <2>4. CASE DestroyStop(a)
    BY <1>0, <2>1, <2>4
    DEF DestroyStop, MainCreates, Owns, Housed, Watched, Active, TypeOK
  <2>5. CASE RemoveContext(a)
    <3>1. /\ UNCHANGED <<runtimes, ko, starting, proc>>
          /\ pc' = [pc EXCEPT ![a] = "del"] \/ pc' = [pc EXCEPT ![a] = "ended"]
      BY <1>0, <2>1, <2>5, IdentityAssumption DEF RemoveContext
    <3>2. MainCreates' /\ Owns'
      BY <1>0, <2>1, <2>5, <3>1 DEF RemoveContext, MainCreates, Owns, Active, TypeOK
    <3>3. ASSUME NEW u \in Threads, Alive(u)
          PROVE  u # a /\ ko[u] # ko[a]
      BY <1>0, <2>1, <2>2, <2>5, <3>3 DEF RemoveContext, Housed, Watched
    <3>4. ASSUME NEW u \in Threads, Alive(u)
          PROVE  u \in home' /\ ko[u] \in ctx'
      <4>1. u \in home /\ ko[u] \in ctx /\ ko[u] \in Kos
        BY <1>0, <3>4 DEF Housed, Owns
      <4> QED
        BY <1>0, <2>5, <3>3, <3>4, <4>1 DEF RemoveContext, TypeOK
    <3>5. Housed'
      BY <1>0, <3>1, <3>3, <3>4 DEF Housed, Active, TypeOK
    <3> QED
      BY <3>2, <3>5
  <2>6. CASE DeleteEntry(a)
    BY <1>0, <2>1, <2>2, <2>6
    DEF DeleteEntry, MainCreates, Owns, Housed, Watched, Active, TypeOK
  <2> QED
    BY <1>5, <2>3, <2>4, <2>5, <2>6 DEF Destroy
<1>6. CASE KillAll \/ JoinAll \/ LeaveLoop \/ MainExits
  BY <1>0, <1>6
  DEF KillAll, JoinAll, LeaveLoop, MainExits, MainCreates, Owns, Housed, Active, TypeOK
<1>7. CASE UNCHANGED vars
  BY <1>0, <1>7 DEF vars, MainCreates, Owns, Housed, Active
<1> QED
  BY <1>1, <1>2, <1>3, <1>4, <1>5, <1>6, <1>7 DEF Next, DestroyRequest, DestroyKo

\* As long as nobody sends destroy jobs, one processor runs per ko, every
\* processor can be found through the dictionary, and its directory stays:
\* whatever fails at start-up and whenever SIGINT arrives.
THEOREM GracefulSafety ==
  ASSUME "destroy" \notin Env
  PROVE  Spec => [](OneProcessorPerKo /\ NoOrphan /\ ContextIntact)
<1>1. Spec => [](TypeOK /\ ThreadPhases /\ Watched)
  BY ExitInvariant, PTL DEF ExitInv
<1>2. TypeOK' /\ (ThreadPhases /\ Watched)' /\ GracefulInv /\ [Next]_vars => GracefulInv'
  BY GracefulStep
<1> QED
  BY <1>1, <1>2, GracefulInit, GracefulImplies, PTL DEF Spec

\* As long as nobody sends destroy jobs, a processor that runs can be found:
\* the dictionary has its thread under its ko, or Main is about to put it there.
THEOREM NothingOrphaned ==
  ASSUME "destroy" \notin Env
  PROVE  Spec => []NoOrphan
<1>1. Spec => [](OneProcessorPerKo /\ NoOrphan /\ ContextIntact)
  BY GracefulSafety, PTL
<1> QED
  BY <1>1, PTL

\* And the context directory of a runtime is there as long as its processor.
THEOREM ContextStays ==
  ASSUME "destroy" \notin Env
  PROVE  Spec => []ContextIntact
<1>1. Spec => [](OneProcessorPerKo /\ NoOrphan /\ ContextIntact)
  BY GracefulSafety, PTL
<1> QED
  BY <1>1, PTL

-----------------------------------------------------------------------------
(* The dictionary refines the leases of RuntimeLeases.  A step that grants *)
(* a lease needs a thread that was never used, one that gives it back a    *)
(* process that has ended: what follows relates both to where a thread is. *)

LeaseOf(k) ==
  IF starting # NoThread /\ ko[Main] = k THEN starting ELSE runtimes[k]

\* What a thread has done with its process, and where its entry may be.
Phased ==
  \A t \in Threads :
    /\ pc[t] \in {"none", "prepare", "create_job", "spawn"} => proc[t] = "none"
    /\ pc[t] \in {"wait", "reap", "terminate"} => proc[t] # "none"
    /\ pc[t] \in {"mark_exited", "ended"} \cup DestroySteps => proc[t] = "dead"

Entered ==
  /\ \A k \in Kos : runtimes[k] # NoThread =>
       ko[runtimes[k]] = k /\ pc[runtimes[k]] # "none"
  /\ starting # NoThread => pc[starting] # "none"

LeaseInv == GracefulInv /\ Phased /\ Entered

LEMMA LeaseInit == Init => LeaseInv
  BY GracefulInit, IdentityAssumption DEF Init, LeaseInv, Phased, Entered

LEMMA PhasedStep ==
  ASSUME "destroy" \notin Env, LeaseInv, [Next]_vars
  PROVE  Phased'
<1> USE IdentityAssumption DEF LeaseInv, GracefulInv, TypeOK, ThreadPhases, Phased
<1>1. ASSUME NEW k \in Kos, NEW t \in Threads, StartThread(k, t) PROVE Phased'
  BY <1>1 DEF StartThread
<1>2. CASE Register
  BY <1>2 DEF Register
<1>3. ASSUME NEW t \in Threads, Monitor(t) PROVE Phased'
  BY <1>3 DEF Monitor, Runtime, Prepare, CreateJob, Spawn, StartupRaises,
              AwaitStopOrExit, MonitorFails, Reap, Terminated, MarkExited
<1>4. ASSUME NEW t \in Threads, Processor(t) PROVE Phased'
  BY <1>4 DEF Processor, Report, ProcessExits, Watched
<1>5. ASSUME NEW a \in Actors, Destroy(a) PROVE Phased'
  <2>1. /\ UNCHANGED proc
        /\ pc[a] \in DestroySteps
        /\ \E s \in DestroySteps \cup {Return(a)} : pc' = [pc EXCEPT ![a] = s]
    BY <1>5 DEF Destroy, DestroyCheck, DestroyStop, RemoveContext, DeleteEntry
  <2> QED
    BY <2>1
<1>6. CASE KillAll \/ JoinAll \/ LeaveLoop \/ MainExits
  BY <1>6 DEF KillAll, JoinAll, LeaveLoop, MainExits
<1>7. CASE UNCHANGED vars
  BY <1>7 DEF vars
<1> QED
  BY <1>1, <1>2, <1>3, <1>4, <1>5, <1>6, <1>7 DEF Next, DestroyRequest, DestroyKo

LEMMA EnteredStep ==
  ASSUME "destroy" \notin Env, LeaseInv, [Next]_vars
  PROVE  Entered'
<1> USE IdentityAssumption DEF LeaseInv, GracefulInv, TypeOK, ThreadPhases, Entered
<1>1. ASSUME NEW k \in Kos, NEW t \in Threads, StartThread(k, t) PROVE Entered'
  BY <1>1 DEF StartThread
<1>2. CASE Register
  BY <1>2 DEF Register, MainCreates
<1>3. ASSUME NEW t \in Threads, Monitor(t) PROVE Entered'
  <2>1. /\ UNCHANGED <<runtimes, ko, starting>>
        /\ pc[t] # "none"
        /\ \E s \in ThreadSteps \cup {"crashed", "check"} : pc' = [pc EXCEPT ![t] = s]
    BY <1>3 DEF Monitor, Runtime, Prepare, CreateJob, Spawn, StartupRaises,
                AwaitStopOrExit, MonitorFails, Reap, Terminated, MarkExited
  <2> QED
    BY <2>1
<1>4. ASSUME NEW t \in Threads, Processor(t) PROVE Entered'
  BY <1>4 DEF Processor, Report, ProcessExits
<1>5. ASSUME NEW a \in Actors, Destroy(a) PROVE Entered'
  <2>1. /\ UNCHANGED <<ko, starting>>
        /\ \E s \in DestroySteps \cup {Return(a)} : pc' = [pc EXCEPT ![a] = s]
        /\ \/ UNCHANGED runtimes
           \/ runtimes' = [runtimes EXCEPT ![ko[a]] = NoThread]
    BY <1>5 DEF Destroy, DestroyCheck, DestroyStop, RemoveContext, DeleteEntry
  <2> QED
    BY <2>1
<1>6. CASE KillAll \/ JoinAll \/ LeaveLoop \/ MainExits
  BY <1>6 DEF KillAll, JoinAll, LeaveLoop, MainExits
<1>7. CASE UNCHANGED vars
  BY <1>7 DEF vars
<1> QED
  BY <1>1, <1>2, <1>3, <1>4, <1>5, <1>6, <1>7 DEF Next, DestroyRequest, DestroyKo

\* An unfinished thread holds the lease of its ko.
LEMMA ActiveHolds ==
  ASSUME LeaseInv, NEW t \in Threads, Active(t)
  PROVE  ko[t] \in Kos /\ LeaseOf(ko[t]) = t
  BY IdentityAssumption
  DEF LeaseInv, GracefulInv, TypeOK, MainCreates, Owns, LeaseOf

\* Every step is a step of the leases or leaves them as they are.
LEMMA LeaseStep ==
  ASSUME "destroy" \notin Env, LeaseInv, [Next]_vars
  PROVE  Leases!LNext \/ UNCHANGED <<proc, [k \in Kos |-> LeaseOf(k)]>>
<1> USE IdentityAssumption
<1>0. TypeOK /\ MainCreates /\ Owns /\ Housed /\ Watched /\ ThreadPhases /\ Phased /\ Entered
  BY DEF LeaseInv, GracefulInv
<1> DEFINE Kept == UNCHANGED <<proc, [k \in Kos |-> LeaseOf(k)]>>
<1>h. Leases!Holders = {LeaseOf(k) : k \in Kos} \ {NoThread}
  BY DEF Leases!Holders, LeaseOf
<1>1. ASSUME NEW k \in Kos, NEW t \in Threads, StartThread(k, t)
      PROVE  Leases!Grant(k, t)
  <2>1. starting = NoThread /\ runtimes[k] = NoThread /\ pc[t] = "none" /\ proc[t] = "none"
    BY <1>0, <1>1 DEF StartThread, MainCreates, Phased
  <2>2. t \notin Leases!Holders
    BY <1>h, <1>0, <2>1 DEF LeaseOf, Entered, TypeOK
  <2>3. \A j \in Kos : LeaseOf(j)' = IF j = k THEN t ELSE LeaseOf(j)
    BY <1>0, <1>1, <2>1 DEF StartThread, LeaseOf, TypeOK
  <2> QED
    BY <1>1, <2>1, <2>2, <2>3 DEF StartThread, LeaseOf, Leases!Grant
<1>2. CASE Register
  <2>1. \A j \in Kos : LeaseOf(j)' = LeaseOf(j)
    BY <1>0, <1>2 DEF Register, MainCreates, LeaseOf, TypeOK
  <2> QED
    BY <1>2, <2>1 DEF Register
<1>3. ASSUME NEW t \in Threads, Monitor(t)
      PROVE  Leases!Start(t) \/ Leases!End(t) \/ Kept
  <2>1. \A j \in Kos : LeaseOf(j)' = LeaseOf(j)
    BY <1>0, <1>3 DEF Monitor, Runtime, Prepare, CreateJob, Spawn, StartupRaises,
       AwaitStopOrExit, MonitorFails, Reap, Terminated, MarkExited, LeaseOf, TypeOK
  <2>2. t \in Leases!Holders
    <3>1. Active(t)
      BY <1>3 DEF Monitor, Runtime, Prepare, CreateJob, Spawn, StartupRaises,
         AwaitStopOrExit, MonitorFails, Reap, Terminated, MarkExited, Active
    <3> QED
      BY <3>1, <1>h, ActiveHolds
  <2>3. CASE Spawn(t)
    BY <1>0, <2>1, <2>2, <2>3 DEF Spawn, Phased, LeaseOf, Leases!Start
  <2>4. CASE Reap(t)
    <3>1. proc[t] \in {"running", "dead"}
      BY <1>0, <2>4 DEF Reap, Phased, TypeOK
    <3>2. CASE proc[t] = "running"
      BY <2>1, <2>2, <2>4, <3>2 DEF Reap, LeaseOf, Leases!End
    <3>3. CASE proc[t] = "dead"
      BY <1>0, <2>1, <2>4, <3>3 DEF Reap, TypeOK
    <3> QED
      BY <3>1, <3>2, <3>3
  <2>5. CASE UNCHANGED proc
    BY <2>1, <2>5
  <2> QED
    BY <1>3, <2>3, <2>4, <2>5 DEF Monitor, Runtime, Prepare, CreateJob,
       StartupRaises, AwaitStopOrExit, MonitorFails, Terminated, MarkExited
<1>4. ASSUME NEW t \in Threads, Processor(t)
      PROVE  Leases!End(t) \/ Kept
  <2>1. \A j \in Kos : LeaseOf(j)' = LeaseOf(j)
    BY <1>4 DEF Processor, Report, ProcessExits, LeaseOf
  <2>2. t \in Leases!Holders
    BY <1>0, <1>4, <1>h, ActiveHolds DEF Processor, Report, ProcessExits, Housed
  <2> QED
    BY <1>4, <2>1, <2>2 DEF Processor, Report, ProcessExits, LeaseOf, Leases!End
<1>5. ASSUME NEW a \in Actors, Destroy(a)
      PROVE  (\E k \in Kos : Leases!GiveBack(k)) \/ Kept
  <2>1. a \in Threads /\ Active(a) /\ proc[a] = "dead"
    BY <1>0, <1>5
    DEF Destroy, DestroyCheck, DestroyStop, RemoveContext, DeleteEntry,
        MainCreates, Active, Phased
  <2>2. ko[a] \in Kos /\ LeaseOf(ko[a]) = a
    BY <2>1, ActiveHolds
  <2>3. CASE DeleteEntry(a)
    <3>1. runtimes[ko[a]] = a
      BY <1>0, <2>1, <2>3 DEF DeleteEntry, Owns
    <3>2. ~(starting # NoThread /\ ko[Main] = ko[a])
      BY <1>0, <2>1, <3>1 DEF MainCreates
    <3>3. \A j \in Kos : LeaseOf(j)' = IF j = ko[a] THEN NoThread ELSE LeaseOf(j)
      BY <1>0, <2>2, <2>3, <3>2 DEF DeleteEntry, LeaseOf, TypeOK
    <3>4. Leases!GiveBack(ko[a])
      BY <2>1, <2>2, <2>3, <3>3 DEF DeleteEntry, LeaseOf, Leases!GiveBack
    <3> QED
      BY <2>2, <3>4 DEF Leases!GiveBack
  <2>4. CASE UNCHANGED <<runtimes, ko, starting, proc>>
    BY <2>4 DEF LeaseOf
  <2> QED
    BY <1>5, <2>3, <2>4 DEF Destroy, DestroyCheck, DestroyStop, RemoveContext
<1>6. CASE KillAll \/ JoinAll \/ LeaveLoop \/ MainExits
  BY <1>6 DEF KillAll, JoinAll, LeaveLoop, MainExits, LeaseOf
<1>7. CASE UNCHANGED vars
  BY <1>7 DEF vars, LeaseOf
<1> QED
  BY <1>1, <1>2, <1>3, <1>4, <1>5, <1>6, <1>7
  DEF Next, DestroyRequest, DestroyKo, Leases!LNext

\* As long as nobody sends destroy jobs, the dictionary is a table of leases:
\* whatever fails, whichever signal arrives, a ko is given to one thread at a
\* time, that thread runs at most one processor, while it has the lease, and
\* the ko is free again only after that processor has ended.
THEOREM RuntimesAreLeased ==
  ASSUME "destroy" \notin Env
  PROVE  Spec => ImplementsLeases
<1>1. Init => Leases!LInit
  BY IdentityAssumption DEF Init, Leases!LInit
<1>2. LeaseInv /\ [Next]_vars => [Leases!LNext]_(Leases!lvars)
  <2> SUFFICES ASSUME LeaseInv, [Next]_vars PROVE [Leases!LNext]_(Leases!lvars)
    OBVIOUS
  <2> QED
    BY LeaseStep DEF LeaseOf, Leases!lvars
<1>3. Spec => [](TypeOK /\ ThreadPhases /\ Watched)
  BY ExitInvariant, PTL DEF ExitInv
<1>4. (TypeOK /\ ThreadPhases /\ Watched)' /\ LeaseInv /\ [Next]_vars => LeaseInv'
  BY GracefulStep, PhasedStep, EnteredStep DEF LeaseInv
<1> QED
  BY <1>1, <1>2, <1>3, <1>4, LeaseInit, PTL DEF Spec, ImplementsLeases, Leases!LSpec
=============================================================================
