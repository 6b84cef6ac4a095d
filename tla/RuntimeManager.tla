--------------------------- MODULE RuntimeManager ---------------------------
(***************************************************************************)
(* localbot's RuntimeManager (apps/localbot/localbot/runtime_manager.py):  *)
(* a dictionary from knowledge-object id to the CallbackThread that runs   *)
(* a processor for it.  One event-loop thread (Main) creates and destroys  *)
(* runtimes; every CallbackThread watches one processor process and, when  *)
(* its target function returns, calls destroy_runtime itself through the   *)
(* Cleaner callback.  Nothing is locked: a step below is one access to     *)
(* state the threads share.                                                *)
(***************************************************************************)
EXTENDS Naturals

CONSTANTS
  Kos,       \* ids of knowledge objects (projects)
  Threads,   \* the CallbackThreads that may ever be created
  Main,      \* the event-loop thread
  NoThread,  \* "no entry" in the runtimes dictionary
  NoKo,      \* "no target" of an actor that has none yet
  Env        \* what the environment may do; see EnvAssumption

(***************************************************************************)
(* "destroy": clients send destroy jobs; "error": a call raises where the  *)
(* code does not expect it (assert, database, Popen, rmtree); "update":    *)
(* a Docker_job.update is lost, which it swallows; "signal": localbot gets *)
(* SIGINT and kills all runtimes, as the polling handler does; "shutdown": *)
(* it just leaves its event loop, as the RabbitMQ handler does.            *)
(***************************************************************************)
ASSUME EnvAssumption == Env \subseteq {"destroy", "error", "update", "signal", "shutdown"}

ASSUME IdentityAssumption ==
  /\ Main \notin Threads
  /\ NoThread \notin Threads
  /\ NoKo \notin Kos

Actors == Threads \cup {Main}

VARIABLES
  runtimes,  \* RuntimeManager.runtimes: ko id -> registered thread
  pc,        \* what each actor does next
  ko,        \* the ko a thread runs, or Main's operation is about
  starting,  \* the thread Main has started and not registered yet
  stop,      \* the threads whose _stop_event is set
  proc,      \* the processor process of each thread
  job,       \* workflow_state of the Docker_job each thread created
  ctx,       \* the kos whose context directory exists
  home,      \* the threads whose process still has the directory it started in
  killing    \* whether localbot is to end: kill_all_runtimes is "joining", or
             \* "done", as is the handler that just leaves the loop

vars == <<runtimes, pc, ko, starting, stop, proc, job, ctx, home, killing>>

DestroySteps == {"check", "stop", "rmtree", "del"}
ThreadSteps  ==
  {"prepare", "create_job", "spawn", "wait", "reap", "terminate", "mark_exited"}

TypeOK ==
  /\ runtimes \in [Kos -> Threads \cup {NoThread}]
  /\ pc \in [Actors -> DestroySteps \cup ThreadSteps \cup
              {"none", "ended", "crashed", "idle", "register", "gone"}]
  /\ ko \in [Actors -> Kos \cup {NoKo}]
  /\ \A a \in Actors : pc[a] \in DestroySteps \cup ThreadSteps => ko[a] \in Kos
  /\ \A t \in Threads : job[t] # "none" \/ proc[t] # "none" => ko[t] \in Kos
  /\ starting \in Threads \cup {NoThread}
  /\ stop \subseteq Threads
  /\ proc \in [Threads -> {"none", "running", "dead"}]
  /\ job \in [Threads -> {"none", "UNINITIALIZED", "ACTIVE", "EXITED"}]
  /\ ctx \subseteq Kos
  /\ home \subseteq Threads
  /\ killing \in {"none", "joining", "done"}

Init ==
  /\ runtimes = [k \in Kos |-> NoThread]
  /\ pc = [a \in Actors |-> IF a = Main THEN "idle" ELSE "none"]
  /\ ko = [a \in Actors |-> NoKo]
  /\ starting = NoThread
  /\ stop = {}
  /\ proc = [t \in Threads |-> "none"]
  /\ job = [t \in Threads |-> "none"]
  /\ ctx = {}
  /\ home = {}
  /\ killing = "none"

-----------------------------------------------------------------------------
Alive(t) == proc[t] = "running"

(***************************************************************************)
(* Main takes a step: its signal handler runs on the same thread, so it    *)
(* does nothing else while kill_all_runtimes joins.  The other threads are *)
(* daemons: they vanish with Main.                                         *)
(***************************************************************************)
MainRuns == killing # "joining"
DaemonsRun == pc[Main] # "gone"

Goto(a, step) == pc' = [pc EXCEPT ![a] = step]
Return(a) == IF a = Main THEN "idle" ELSE "ended"

-----------------------------------------------------------------------------
(* The event loop: create_runtime.                                         *)

\* Mutant: the membership test of create_runtime is forgotten.
StartThreadUnchecked(k, t) ==
  /\ MainRuns
  /\ pc[Main] = "idle" /\ killing = "none"
  /\ pc[t] = "none"
  /\ pc' = [pc EXCEPT ![Main] = "register", ![t] = "prepare"]
  /\ ko' = [ko EXCEPT ![Main] = k, ![t] = k]
  /\ starting' = t
  /\ UNCHANGED <<runtimes, stop, proc, job, ctx, home, killing>>

\* The ko has no entry: a thread is created and started ...
StartThread(k, t) ==
  /\ MainRuns
  /\ pc[Main] = "idle" /\ killing = "none"
  /\ runtimes[k] = NoThread
  /\ pc[t] = "none"
  /\ pc' = [pc EXCEPT ![Main] = "register", ![t] = "prepare"]
  /\ ko' = [ko EXCEPT ![Main] = k, ![t] = k]
  /\ starting' = t
  /\ UNCHANGED <<runtimes, stop, proc, job, ctx, home, killing>>

\* ... and entered in the dictionary by a later statement.
Register ==
  /\ MainRuns
  /\ pc[Main] = "register"
  /\ runtimes' = [runtimes EXCEPT ![ko[Main]] = starting]
  /\ starting' = NoThread
  /\ Goto(Main, "idle")
  /\ UNCHANGED <<ko, stop, proc, job, ctx, home, killing>>

-----------------------------------------------------------------------------
(* A destroy job names a Docker_job.  The handler writes EXITED to it,     *)
(* looks up the job's ko and destroys whatever runtime that ko has now.    *)

DestroyRequest(t) ==
  /\ "destroy" \in Env
  /\ MainRuns
  /\ pc[Main] = "idle" /\ killing = "none"
  /\ job[t] # "none"
  /\ \/ job' = [job EXCEPT ![t] = "EXITED"]
     \/ "update" \in Env /\ UNCHANGED job
  /\ ko' = [ko EXCEPT ![Main] = ko[t]]
  /\ \/ Goto(Main, "check")
     \/ "error" \in Env /\ UNCHANGED pc
  /\ UNCHANGED <<runtimes, starting, stop, proc, ctx, home, killing>>

\* A destroy job of the polling handlers may also name the ko itself.
DestroyKo(k) ==
  /\ "destroy" \in Env
  /\ MainRuns
  /\ pc[Main] = "idle" /\ killing = "none"
  /\ runtimes[k] # NoThread
  /\ ko' = [ko EXCEPT ![Main] = k]
  /\ Goto(Main, "check")
  /\ UNCHANGED <<runtimes, starting, stop, proc, job, ctx, home, killing>>

-----------------------------------------------------------------------------
(* destroy_runtime(ko), run by Main or by a thread through its Cleaner.    *)

MayStep(a) == IF a = Main THEN MainRuns ELSE DaemonsRun

DestroyCheck(a) ==
  /\ MayStep(a)
  /\ pc[a] = "check"
  /\ Goto(a, IF runtimes[ko[a]] = NoThread THEN Return(a) ELSE "stop")
  /\ UNCHANGED <<runtimes, ko, starting, stop, proc, job, ctx, home, killing>>

\* self.runtimes[ko_id].stop(); a KeyError when the entry has gone since.
DestroyStop(a) ==
  /\ MayStep(a)
  /\ pc[a] = "stop"
  /\ IF runtimes[ko[a]] = NoThread
     THEN Goto(a, Return(a)) /\ UNCHANGED stop
     ELSE /\ stop' = stop \cup {runtimes[ko[a]]}
          /\ Goto(a, "rmtree")
  /\ UNCHANGED <<runtimes, ko, starting, proc, job, ctx, home, killing>>

\* rmtree raises when a process writes into the tree or another actor
\* removes it at the same time; the rest of destroy_runtime is then skipped.
RmtreeMayRaise(a) ==
  \/ "error" \in Env
  \/ \E t \in Threads : ko[t] = ko[a] /\ Alive(t) /\ t \in home
  \/ \E b \in Actors \ {a} : pc[b] = "rmtree" /\ ko[b] = ko[a]

RemoveContext(a) ==
  /\ MayStep(a)
  /\ pc[a] = "rmtree"
  /\ \/ /\ ctx' = ctx \ {ko[a]}
        /\ home' = {t \in home : ko[t] # ko[a]}
        /\ Goto(a, "del")
     \/ /\ ko[a] \in ctx /\ RmtreeMayRaise(a)
        /\ Goto(a, Return(a))
        /\ UNCHANGED <<ctx, home>>
  /\ UNCHANGED <<runtimes, ko, starting, stop, proc, job, killing>>

\* del self.runtimes[ko_id]: whatever is registered now; absent: KeyError.
DeleteEntry(a) ==
  /\ MayStep(a)
  /\ pc[a] = "del"
  /\ runtimes' = [runtimes EXCEPT ![ko[a]] = NoThread]
  /\ Goto(a, Return(a))
  /\ UNCHANGED <<ko, starting, stop, proc, job, ctx, home, killing>>

-----------------------------------------------------------------------------
(* start_runtime_thread, the target of a CallbackThread.                   *)

Prepare(t) ==
  /\ DaemonsRun
  /\ pc[t] = "prepare"
  /\ ctx' = ctx \cup {ko[t]}
  /\ Goto(t, "create_job")
  /\ UNCHANGED <<runtimes, ko, starting, stop, proc, job, home, killing>>

CreateJob(t) ==
  /\ DaemonsRun
  /\ pc[t] = "create_job"
  /\ job' = [job EXCEPT ![t] = "UNINITIALIZED"]
  /\ Goto(t, "spawn")
  /\ UNCHANGED <<runtimes, ko, starting, stop, proc, ctx, home, killing>>

\* Popen(cwd=context_path) raises when the directory has been removed.  What
\* raises after it and before the try block leaves the process to itself.
Spawn(t) ==
  /\ DaemonsRun
  /\ pc[t] = "spawn"
  /\ ko[t] \in ctx
  /\ proc' = [proc EXCEPT ![t] = "running"]
  /\ home' = home \cup {t}
  /\ \/ Goto(t, "wait")
     \/ "error" \in Env /\ Goto(t, "crashed")
  /\ UNCHANGED <<runtimes, ko, starting, stop, job, ctx, killing>>

\* An exception before the try block leaves the thread without its callback.
StartupRaises(t) ==
  /\ DaemonsRun
  /\ \/ pc[t] \in {"prepare", "create_job", "spawn"} /\ "error" \in Env
     \/ pc[t] = "spawn" /\ ko[t] \notin ctx
  /\ Goto(t, "crashed")
  /\ UNCHANGED <<runtimes, ko, starting, stop, proc, job, ctx, home, killing>>

\* Mutant: a stop or an error leaves the monitor without killing the process.
AwaitWithoutReap(t) ==
  /\ DaemonsRun
  /\ pc[t] = "wait"
  /\ t \in stop \/ ~Alive(t)
  /\ Goto(t, "mark_exited")
  /\ UNCHANGED <<runtimes, ko, starting, stop, proc, job, ctx, home, killing>>

\* Mutant: the monitor waits for the end of the process only.
AwaitExitOnly(t) ==
  /\ DaemonsRun
  /\ pc[t] = "wait"
  /\ ~Alive(t)
  /\ Goto(t, "mark_exited")
  /\ UNCHANGED <<runtimes, ko, starting, stop, proc, job, ctx, home, killing>>

\* Woken by the stop event (checked first) or by the end of the process.
AwaitStopOrExit(t) ==
  /\ DaemonsRun
  /\ pc[t] = "wait"
  /\ \/ t \in stop /\ Goto(t, "reap")
     \/ t \notin stop /\ ~Alive(t) /\ Goto(t, "mark_exited")
  /\ UNCHANGED <<runtimes, ko, starting, stop, proc, job, ctx, home, killing>>

\* SIGTERM, one second of grace, SIGKILL: the process is gone afterwards.
Reap(t) ==
  /\ DaemonsRun
  /\ pc[t] = "reap"
  /\ proc' = [proc EXCEPT ![t] = "dead"]
  /\ Goto(t, "mark_exited")
  /\ UNCHANGED <<runtimes, ko, starting, stop, job, ctx, home, killing>>

\* An error of the monitor: the process gets SIGTERM ...
MonitorFails(t) ==
  /\ DaemonsRun
  /\ pc[t] = "wait" /\ "error" \in Env
  /\ Goto(t, "terminate")
  /\ UNCHANGED <<runtimes, ko, starting, stop, proc, job, ctx, home, killing>>

\* ... and is waited for, without a limit and without a SIGKILL.
Terminated(t) ==
  /\ DaemonsRun
  /\ pc[t] = "terminate" /\ ~Alive(t)
  /\ Goto(t, "mark_exited")
  /\ UNCHANGED <<runtimes, ko, starting, stop, proc, job, ctx, home, killing>>

\* The last write of the Docker_job; then the target returns and the
\* Cleaner callback enters destroy_runtime.
MarkExited(t) ==
  /\ DaemonsRun
  /\ pc[t] = "mark_exited"
  /\ \/ job' = [job EXCEPT ![t] = "EXITED"]
     \/ "update" \in Env /\ UNCHANGED job
  /\ Goto(t, "check")
  /\ UNCHANGED <<runtimes, ko, starting, stop, proc, ctx, home, killing>>

-----------------------------------------------------------------------------
(* The processor process: it reports its workflow_state and may exit.      *)

Report(t) ==
  /\ Alive(t)
  /\ \E s \in {"ACTIVE", "EXITED"} : job' = [job EXCEPT ![t] = s]
  /\ UNCHANGED <<runtimes, pc, ko, starting, stop, proc, ctx, home, killing>>

ProcessExits(t) ==
  /\ Alive(t)
  /\ proc' = [proc EXCEPT ![t] = "dead"]
  /\ UNCHANGED <<runtimes, pc, ko, starting, stop, job, ctx, home, killing>>

-----------------------------------------------------------------------------
(* Signals.  kill_all_runtimes stops the registered threads, joins each for  *)
(* ten seconds and lets the event loop end.                                *)

Registered == {t \in Threads : \E k \in Kos : runtimes[k] = t}

KillAll ==
  /\ "signal" \in Env
  /\ killing = "none" /\ pc[Main] # "gone"
  /\ stop' = stop \cup Registered
  /\ killing' = "joining"
  /\ UNCHANGED <<runtimes, pc, ko, starting, proc, job, ctx, home>>

\* Mutant: the threads are joined without a time limit.
JoinForever ==
  /\ killing = "joining"
  /\ \A t \in Registered : pc[t] \in {"ended", "crashed"}
  /\ killing' = "done"
  /\ UNCHANGED <<runtimes, pc, ko, starting, stop, proc, job, ctx, home>>

\* Each thread has ended, or ten seconds are over.
JoinAll ==
  /\ killing = "joining"
  /\ killing' = "done"
  /\ UNCHANGED <<runtimes, pc, ko, starting, stop, proc, job, ctx, home>>

\* The RabbitMQ handler lets the callback in progress finish and stops
\* consuming; no runtime is told to stop.
LeaveLoop ==
  /\ "shutdown" \in Env
  /\ killing = "none" /\ pc[Main] # "gone"
  /\ killing' = "done"
  /\ UNCHANGED <<runtimes, pc, ko, starting, stop, proc, job, ctx, home>>

MainExits ==
  /\ pc[Main] = "idle" /\ killing = "done"
  /\ Goto(Main, "gone")
  /\ UNCHANGED <<runtimes, ko, starting, stop, proc, job, ctx, home, killing>>

-----------------------------------------------------------------------------
Destroy(a) ==
  DestroyCheck(a) \/ DestroyStop(a) \/ RemoveContext(a) \/ DeleteEntry(a)

Runtime(t) ==
  \/ Prepare(t) \/ CreateJob(t) \/ Spawn(t) \/ StartupRaises(t)
  \/ AwaitStopOrExit(t) \/ Reap(t) \/ Terminated(t) \/ MarkExited(t)

\* Anything a thread may do, the failures included.
Monitor(t) == Runtime(t) \/ MonitorFails(t)

Processor(t) == Report(t) \/ ProcessExits(t)

Next ==
  \/ \E k \in Kos, t \in Threads : StartThread(k, t)
  \/ Register
  \/ \E k \in Kos : DestroyKo(k)
  \/ \E t \in Threads : DestroyRequest(t) \/ Monitor(t) \/ Processor(t)
  \/ \E a \in Actors : Destroy(a)
  \/ KillAll \/ JoinAll \/ LeaveLoop \/ MainExits

Spec == Init /\ [][Next]_vars

(***************************************************************************)
(* Threads that can run do run, Main included; the processor and the       *)
(* clients owe nothing.                                                    *)
(***************************************************************************)
Fairness ==
  /\ WF_vars(Register) /\ WF_vars(JoinAll) /\ WF_vars(MainExits)
  /\ \A a \in Actors : WF_vars(Destroy(a))
  /\ \A t \in Threads : WF_vars(Runtime(t))

FairSpec == Spec /\ Fairness

-----------------------------------------------------------------------------
(* Properties.                                                             *)

\* The EXITED a runtime thread writes last (runtime_manager.py:276, :313) is
\* the Docker_job's final state: no report of the dying processor, and no
\* other handler, overwrites it, unless the update itself was lost.
ExitedIsFinal ==
  \A t \in Threads :
    pc[t] \in DestroySteps \cup {"ended"} =>
      ~Alive(t) /\ ("update" \notin Env => job[t] = "EXITED")

\* "there can only be one running project per wob_id"
\* (event_handler.py:366): no two processors run for the same ko.
OneProcessorPerKo ==
  \A t, u \in Threads : Alive(t) /\ Alive(u) /\ ko[t] = ko[u] => t = u

\* A running processor can be found: its thread is registered under its ko,
\* or Main is about to register it.  Otherwise no request could stop it and
\* a second create would be accepted.
NoOrphan ==
  \A t \in Threads : Alive(t) => runtimes[ko[t]] = t \/ starting = t

\* Creates, exits, failures and signals together keep the promise of a lease:
\* the entry of a ko is the lease of its thread, from the moment Main starts
\* the thread (runtime_manager.py:390), and destroy_runtime gives it back only
\* after the processor has ended.
Leases ==
  INSTANCE RuntimeLeases WITH
    lease   <- [k \in Kos |-> IF starting # NoThread /\ ko[Main] = k
                              THEN starting ELSE runtimes[k]],
    process <- proc

ImplementsLeases == Leases!LSpec

\* The context directory a processor works in, where its process context is
\* saved, is never removed under it.
ContextIntact == \A t \in Threads : Alive(t) => t \in home /\ ko[t] \in ctx

\* A runtime whose stop event is set ends up, for good, without a process: the
\* thread notices the event even if it was set before the process was spawned
\* (runtime_manager.py:239).  Only the end of localbot itself, which takes the
\* threads along, can come first, and only an error keeps a thread from it: one
\* between Popen and the monitor, or one of the monitor, which then waits.
StopKills ==
  \A t \in Threads :
    t \in stop ~> []~Alive(t) \/ pc[Main] = "gone" \/ pc[t] \in {"crashed", "terminate"}

\* SIGINT ends localbot (event_handler.py:499), even if a runtime it joins never
\* ends, and Main gets out of whatever operation the signal interrupted.
ShutdownCompletes == killing = "joining" ~> pc[Main] = "gone"
=============================================================================
