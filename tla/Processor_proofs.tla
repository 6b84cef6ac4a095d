--------------------------- MODULE Processor_proofs ---------------------------
(***************************************************************************)
(* Proofs about the processor's command loops and its terminal, for every  *)
(* drawing, every set of commands and every number of shells.              *)
(***************************************************************************)
EXTENDS Processor, TLAPS

-----------------------------------------------------------------------------
(* The terminal server as the processor uses it. *)

TerminalStep ==
  \/ MainStep
  \/ ThreadStep
  \/ TerminalDies
  \/ \E operation \in {"start", "stop", "push", "pull"} : Call(operation)
  \/ UNCHANGED terminal

(* Only the processor's own shell runs.  It starts one when it has none    *)
(* (fork), stops the one it has, and forgets it (join) once it has ended.  *)
OneServer ==
  /\ \A s \in Shells : Running(s) => s = server
  /\ at = "fork" => server = NoShell
  /\ at \in {"close", "check", "sigterm", "second", "sigkill", "final", "join"} =>
       server # NoShell
  /\ at = "join" => ~Running(server)

\* The terminal's part of the state keeps its types.
LEMMA TerminalTyped ==
  ASSUME TerminalTypeOK, TerminalStep
  PROVE  TerminalTypeOK'
<1> USE TerminalAssumption DEF TerminalTypeOK, Shells, NoShell, MainSteps
<1>1. CASE StartFound \/ StartNew \/ ForkFails \/ StopNothing \/ StopThreads \/ Close
  BY <1>1 DEF StartFound, StartNew, ForkFails, StopNothing, StopThreads, Close,
     Reap, Return, threads
<1>2. ASSUME NEW s \in Shells, Fork(s)
      PROVE  TerminalTypeOK'
  BY <1>2 DEF Fork, Return
<1>3. CASE FirstLook \/ Kill \/ SecondLook \/ FinalLook \/ Join \/ Push
  BY <1>3 DEF FirstLook, Kill, SecondLook, FinalLook, Join, Push, Reap, Return, threads
<1>4. CASE Pull
  BY <1>4 DEF Pull, Return
<1>5. ASSUME NEW s \in Shells,
             \/ ShellExits(s) \/ Read(s) \/ Put(s) \/ ReaderEnds(s)
             \/ PollerConnects(s) \/ PollerEnds(s) \/ PollerTop(s) \/ PollerLooks(s)
             \/ PollerSends(s)
      PROVE  TerminalTypeOK'
  <2>1. CASE Read(s) \/ Put(s) \/ PollerSends(s)
    <3>1. buffer[s] < MaxBuffer => buffer[s] + 1 \in 0 .. MaxBuffer
      OBVIOUS
    <3>2. \/ buffer[s] < MaxBuffer /\ buffer' = [buffer EXCEPT ![s] = buffer[s] + 1]
          \/ buffer' = [buffer EXCEPT ![s] = 0]
          \/ buffer' = buffer
      BY <2>1 DEF Read, Put, PollerSends
    <3>3. buffer' \in [1 .. MaxShells -> 0 .. MaxBuffer]
      BY <3>1, <3>2
    <3> QED
      BY <2>1, <3>3 DEF Read, Put, PollerSends, PollerAt
  <2>2. CASE ShellExits(s) \/ ReaderEnds(s) \/ PollerConnects(s) \/ PollerEnds(s)
             \/ PollerTop(s) \/ PollerLooks(s)
    BY <1>5, <2>2 DEF ShellExits, ReaderEnds, PollerConnects, PollerEnds, PollerTop,
       PollerLooks, PollerAt, Reap, threads
  <2> QED
    BY <1>5, <2>1, <2>2
<1>6. CASE TerminalDies
  BY <1>6 DEF TerminalDies
<1>7. ASSUME NEW operation \in {"start", "stop", "push", "pull"}, Call(operation)
      PROVE  TerminalTypeOK'
  BY <1>7 DEF Call, threads
<1>8. CASE UNCHANGED terminal
  BY <1>8 DEF terminal
<1> QED
  BY <1>1, <1>2, <1>3, <1>4, <1>5, <1>6, <1>7, <1>8 DEF TerminalStep, MainStep, ThreadStep

\* Whoever reaps a shell and whenever it exits by itself, the one the
\* processor knows is the only one that may run.
LEMMA TerminalKeeps ==
  ASSUME TerminalTypeOK, OneServer, TerminalStep
  PROVE  OneServer'
<1> USE TerminalAssumption DEF TerminalTypeOK, OneServer, Running, Shells, NoShell
<1>1. CASE StartFound \/ StartNew \/ ForkFails \/ StopNothing \/ StopThreads \/ Close
  BY <1>1 DEF StartFound, StartNew, ForkFails, StopNothing, StopThreads, Close,
     Reap, Return, threads
<1>2. ASSUME NEW s \in Shells, Fork(s)
      PROVE  OneServer'
  BY <1>2 DEF Fork, Return
<1>3. CASE FirstLook \/ SecondLook
  BY <1>3 DEF FirstLook, SecondLook, Reap, NoChild, threads
<1>4. CASE Kill \/ FinalLook
  BY <1>4 DEF Kill, FinalLook, Reap, NoChild, Return, threads
<1>5. CASE Join \/ Push \/ Pull
  BY <1>5 DEF Join, Push, Pull, Reap, NoChild, Return, threads
<1>6. ASSUME NEW s \in Shells,
             \/ ShellExits(s) \/ Read(s) \/ Put(s) \/ ReaderEnds(s)
             \/ PollerConnects(s) \/ PollerEnds(s) \/ PollerTop(s) \/ PollerLooks(s)
             \/ PollerSends(s)
      PROVE  OneServer'
  BY <1>6 DEF ShellExits, Read, Put, ReaderEnds, PollerConnects, PollerEnds, PollerTop,
     PollerLooks, PollerSends, Reap, threads
<1>7. CASE TerminalDies
  BY <1>7 DEF TerminalDies
<1>8. ASSUME NEW operation \in {"start", "stop", "push", "pull"}, Call(operation)
      PROVE  OneServer'
  BY <1>8 DEF Call, threads
<1>9. CASE UNCHANGED terminal
  BY <1>9 DEF terminal
<1> QED
  BY <1>1, <1>2, <1>3, <1>4, <1>5, <1>6, <1>7, <1>8, <1>9 DEF TerminalStep, MainStep, ThreadStep

\* All the processor does to its terminal are the calls of the main thread,
\* the steps of the threads, and its own end.
LEMMA OnlyTerminalSteps ==
  ASSUME [Next]_vars
  PROVE  TerminalStep
<1>1. ASSUME NEW code, NEW context, Exit(code, context)
      PROVE  TerminalStep
  BY <1>1 DEF Exit, TerminalStep
<1>2. CASE Edit \/ Send \/ Expire \/ LoseLink
  BY <1>2 DEF Edit, Send, Expire, LoseLink, Outside, TerminalStep
<1>3. CASE _exit_idle
  BY <1>1, <1>3 DEF _exit_idle, Quit
<1>4. CASE TerminalRuns
  BY <1>4 DEF TerminalRuns, TerminalStep
<1>5. CASE Processor
  <2>1. CASE Boot \/ Resume \/ Announce \/ Reconnect \/ Compile \/ Git \/ FirstCommand
    BY <2>1 DEF Boot, Resume, Announce, Reconnect, Compile, Git, FirstCommand, Quietly,
       TerminalStep
  <2>2. CASE ReceiveAny \/ PasswordAny
    BY <2>2 DEF ReceiveAny, PasswordAny, Receive, Ask_for_password, Quietly, TerminalStep
  <2>3. CASE ReconnectFails \/ RunSetupForAll \/ FirstStop \/ Finish
    BY <1>1, <2>3 DEF ReconnectFails, RunSetupForAll, FirstStop, Finish, Crash, Quit, Restart
  <2>4. CASE Terminal
    BY <2>4 DEF Terminal, TerminalStep
  <2>5. CASE TerminalDone
    BY <1>1, <2>5 DEF TerminalDone, Crash, Restart, Quietly, TerminalStep
  <2>6. CASE Prepare \/ run_setup_code \/ Reload \/ Execute \/ cmd_execute_node
    BY <1>1, <2>6 DEF Prepare, run_setup_code, Reload, Execute, cmd_execute_node,
       Crash, Restart, Quietly, TerminalStep
  <2>7. CASE Leave \/ enter_interactive_mode \/ Start \/ ExecutePlan \/ Stop \/ Info
    BY <2>7 DEF Leave, enter_interactive_mode, Start, ExecutePlan, Stop, Info, Quietly,
       TerminalStep
  <2> QED
    BY <1>5, <2>1, <2>2, <2>3, <2>4, <2>5, <2>6, <2>7 DEF Processor
<1>6. CASE UNCHANGED vars
  BY <1>6 DEF vars, TerminalStep
<1> QED
  BY <1>2, <1>3, <1>4, <1>5, <1>6 DEF Next

\* stop_terminal_server leaves no shell behind and start_terminal_server
\* starts no second one: when no terminal command is being handled, only the
\* shell the processor knows may run, for any number of shells and whenever
\* the processor ends or starts again.
THEOREM OneShellRuns == Spec => []OneShell
<1>1. Init => TerminalTypeOK /\ OneServer
  BY TerminalAssumption
  DEF Init, TerminalInit, TerminalTypeOK, OneServer, Running, MainSteps, Shells, NoShell
<1>2. TerminalTypeOK /\ OneServer /\ [Next]_vars => (TerminalTypeOK /\ OneServer)'
  BY OnlyTerminalSteps, TerminalTyped, TerminalKeeps
<1>3. OneServer => OneShell
  BY DEF OneServer, OneShell
<1> QED
  BY <1>1, <1>2, <1>3, PTL DEF Spec

-----------------------------------------------------------------------------
(* The commands. *)

(* Where the main thread is in the first loop and in the second, and what  *)
(* the command that ended the first loop does until it has been handled.   *)
Loops ==
  /\ pc \in {"input", "wait", "first", "handle", "password", "terminal"} => mode = "debug"
  /\ from = "loop" => mode = "debug"
  /\ from = "loop" => pc \notin {"boot", "first", "prepare"}
  /\ from = "first" /\ mode = "debug" => first /\ pc \notin {"handle", "execute"}
  /\ from = "loop" /\ first => pc \in {"handle", "execute", "password", "terminal"}
  /\ mode = "debug" /\ first /\ pc \in {"first", "prepare", "setup", "top", "handle"} =>
       ca.command.op # "none"

Asks(t) == ca.command.op \in {"start", "restart"} /\ ca.command.target = t

(* How far a start has come that the processor still owes to its client.   *)
(* Loading, set-up and the restart after it hand the target on: from the   *)
(* command to target, to the execution context, to the process context and *)
(* back to a command.                                                      *)
Owed(t) ==
  /\ mode = "debug"
  /\ pc \in {"boot", "input"} => from = "first" /\ pctx.run = t
  /\ pc \in {"first", "prepare", "setup", "top", "handle"} => Asks(t)
  /\ pc \in {"prepare", "setup"} => target = t
  /\ pc \in {"setup", "top"} =>
       from = "first" /\ ec.target = t /\ asked.fresh /\ ~ec.reload
  /\ pc = "handle" /\ first => ec.target = t /\ asked.fresh
  /\ pc = "execute" => ec.target = t /\ asked.fresh
  /\ pc \notin {"wait", "password", "terminal", "close", "ended"}

Handed == asked.state = "owed" => Owed(asked.target)
Contexts == [setup : BOOLEAN, run : Targets \cup {"no"}]

\* A processor that ends, or starts again, keeps the types.
LEMMA ExitTyped ==
  ASSUME TypeOK, TerminalTypeOK', NEW code, NEW context \in Contexts, Exit(code, context),
         status' \in {status, "RUNNING", "EXITED"}
  PROVE  TypeOK'
<1>1. NoCommand \in Command
  BY DEF NoCommand, Plain, Command, Targets
<1>2. /\ ec' \in [loaded : BOOLEAN, code : Drawings[user] \cup {NoContext.code},
                   target : Targets, caught : BOOLEAN, reload : BOOLEAN, debug : BOOLEAN]
      /\ ca' \in [command : Command, ready_signal : {"READY", "RESUMEREADY"}]
      /\ asked' \in [target : Targets, fresh : BOOLEAN, state : {"none", "owed", "served"}]
  BY <1>1 DEF TypeOK, Exit, Served, NoContext, Targets
<1>3. asks' \in 0 .. MaxAsks /\ queue' \in 0 .. MaxQueue
  BY ProcessorAssumption DEF Exit
<1> QED
  BY <1>2, <1>3 DEF TypeOK, Exit, loop, Contexts, Targets

\* A freshly loaded execution context has its type.
LEMMA ReloadTyped ==
  ASSUME TypeOK, NEW t \in Targets
  PROVE  /\ reload_graph(t) \in [loaded : BOOLEAN, code : Drawings[user] \cup {NoContext.code},
              target : Targets, caught : BOOLEAN, reload : BOOLEAN, debug : BOOLEAN]
         /\ reload_graph(t).target = t /\ ~reload_graph(t).reload
BY DEF TypeOK, reload_graph, NoContext, Modes, Targets

(* Ask_for_password goes on only as long as there are messages to take. *)
Asking == pc = "password" => asks # 0

\* Every step keeps the types.
LEMMA StepTyped ==
  ASSUME TypeOK, Asking, [Next]_vars
  PROVE  TypeOK'
<1>0. TerminalTypeOK'
  BY OnlyTerminalSteps, TerminalTyped DEF TypeOK
<1>1. /\ NoCommand \in Command /\ All \in Targets
      /\ \A c \in Commands[user] : c \in Command
      /\ pctx \in Contexts
  <2>1. NoCommand \in Command /\ All \in Targets
    BY DEF NoCommand, Plain, Command, Targets
  <2>2. \A c \in Commands[user] : c \in Command
    BY ProcessorAssumption DEF TypeOK
  <2> QED
    BY <2>1, <2>2 DEF TypeOK, Contexts
<1>2. ASSUME NEW ready \in BOOLEAN, BackTo(ready)
      PROVE  /\ ca' \in [command : Command, ready_signal : {"READY", "RESUMEREADY"}]
             /\ pc' \in {"input", "top"} /\ first' \in BOOLEAN
  BY <1>1, <1>2 DEF BackTo, TypeOK
<1>3. CASE Edit \/ Send \/ Expire \/ LoseLink
  <2>1. queue' \in 0 .. MaxQueue
    BY <1>3, ProcessorAssumption DEF TypeOK, Edit, Send, Expire, LoseLink, client
  <2> QED
    BY <1>0, <1>3, <2>1 DEF TypeOK, Edit, Send, Expire, LoseLink, Outside, loop, client
<1>4. CASE _exit_idle
  BY <1>0, <1>1, <1>4, ExitTyped DEF _exit_idle, Quit
<1>5. CASE TerminalRuns
  BY <1>0, <1>5 DEF TerminalRuns, TypeOK, loop, client
<1>6. CASE Processor
  <2>1. CASE Boot \/ Leave \/ ExecutePlan \/ Terminal
    BY <1>0, <2>1 DEF Boot, Leave, ExecutePlan, Terminal, TypeOK, loop, client, Quietly
  <2>2. CASE Resume
    <3>1. [op |-> "start", target |-> pctx.run, recompile |-> FALSE] \in Command
      BY <2>2 DEF Resume, Command, ALL_PROCESSOR_COMMANDS, TypeOK
    <3>2. /\ ca' \in [command : Command, ready_signal : {"READY", "RESUMEREADY"}]
          /\ pctx' \in [setup : BOOLEAN, run : Targets \cup {"no"}]
      BY <2>2, <3>1 DEF Resume, TypeOK
    <3> QED
      BY <1>0, <2>2, <3>2 DEF Resume, TypeOK, loop, client, Quietly
  <2>3. CASE Announce
    BY <1>0, <2>3 DEF Announce, TypeOK, loop, Quietly
  <2>4. ASSUME NEW c \in Commands[user], Receive(c)
        PROVE  TypeOK'
    <3>1. queue' \in 0 .. MaxQueue
      BY <2>4, ProcessorAssumption DEF TypeOK, Receive
    <3>2. c \in Command /\ c.target \in Targets
      BY <1>1 DEF Command
    <3>3. CASE c.op \in ALL_PROCESSOR_COMMANDS
      <4>1. ca' \in [command : Command, ready_signal : {"READY", "RESUMEREADY"}]
        BY <2>4, <3>2, <3>3 DEF Receive, TypeOK
      <4>2. \/ asked' = [target |-> c.target, fresh |-> FALSE, state |-> "owed"]
            \/ asked' = [asked EXCEPT !.state = "none"]
        BY <2>4, <3>3 DEF Receive
      <4>3. asked' \in [target : Targets, fresh : BOOLEAN, state : {"none", "owed", "served"}]
        <5>1. asked \in [target : Targets, fresh : BOOLEAN, state : {"none", "owed", "served"}]
          BY DEF TypeOK
        <5>2. CASE asked' = [target |-> c.target, fresh |-> FALSE, state |-> "owed"]
          BY <3>2, <5>2
        <5>3. CASE asked' = [asked EXCEPT !.state = "none"]
          BY <5>1, <5>3
        <5> QED
          BY <4>2, <5>2, <5>3
      <4> QED
        BY <1>0, <2>4, <3>1, <3>3, <4>1, <4>3 DEF Receive, TypeOK, loop, Quietly
    <3>4. CASE c.op \notin ALL_PROCESSOR_COMMANDS
      <4>1. ca' \in [command : Command, ready_signal : {"READY", "RESUMEREADY"}]
        BY <1>1, <2>4, <3>4 DEF Receive, TypeOK
      <4> QED
        BY <1>0, <2>4, <3>1, <3>4, <4>1 DEF Receive, TypeOK, loop, Quietly
    <3> QED
      BY <3>3, <3>4
  <2>5. CASE Reconnect
    BY <1>0, <2>5, ProcessorAssumption DEF Reconnect, TypeOK, loop, Quietly
  <2>6. CASE ReconnectFails \/ FirstStop \/ Finish
    BY <1>0, <1>1, <2>6, ExitTyped DEF ReconnectFails, FirstStop, Finish, Crash, Quit
  <2>7. CASE Compile \/ Git
    <3>1. /\ UNCHANGED <<from, target, ec, pctx, asked, client>> /\ Quietly
          /\ status' \in {status, "READY", ca.ready_signal}
          /\ asks' \in {asks, MaxAsks}
      BY <2>7 DEF Compile, Git
    <3>2. \/ BackTo(FALSE)
          \/ BackTo(TRUE)
          \/ pc' = "password" /\ UNCHANGED <<first, ca>>
      BY <2>7 DEF Compile, Git
    <3>3. asks' \in 0 .. MaxAsks
      BY <3>1, ProcessorAssumption DEF TypeOK
    <3>4. status' \in {"STARTING", "READY", "RESUMEREADY", "RUNNING", "EXITED"}
      BY <3>1 DEF TypeOK
    <3>5. /\ ca' \in [command : Command, ready_signal : {"READY", "RESUMEREADY"}]
          /\ pc' \in {"input", "top", pc, "password"} /\ first' \in BOOLEAN
      BY <1>2, <3>2 DEF TypeOK
    <3> QED
      BY <1>0, <3>1, <3>3, <3>4, <3>5 DEF TypeOK, loop, client, Quietly
  <2>8. ASSUME NEW c \in Commands[user], Ask_for_password(c)
        PROVE  TypeOK'
    <3>1. queue' \in 0 .. MaxQueue
      BY <2>8, ProcessorAssumption DEF TypeOK, Ask_for_password
    <3>2. asks' \in 0 .. MaxAsks
      <4>1. asks # 0 /\ asks' \in {0, asks - 1}
        BY <2>8 DEF Asking, Ask_for_password
      <4> QED
        BY <4>1, ProcessorAssumption DEF TypeOK
    <3>3. /\ UNCHANGED <<from, target, ec, pctx, asked, link>> /\ Quietly
          /\ \/ BackTo(TRUE) /\ status' = "READY"
             \/ UNCHANGED <<pc, ca, first>> /\ status' = ca.ready_signal
      BY <2>8 DEF Ask_for_password
    <3>4. status' \in {"STARTING", "READY", "RESUMEREADY", "RUNNING", "EXITED"}
      BY <3>3 DEF TypeOK
    <3>5. /\ ca' \in [command : Command, ready_signal : {"READY", "RESUMEREADY"}]
          /\ pc' \in {"input", "top", pc, "password"} /\ first' \in BOOLEAN
      BY <1>2, <3>3 DEF TypeOK
    <3> QED
      BY <1>0, <3>1, <3>2, <3>3, <3>4, <3>5 DEF TypeOK, loop, Quietly
  <2>9. CASE RunSetupForAll
    <3>1. [pctx EXCEPT !.setup = FALSE] \in Contexts /\ [pctx EXCEPT !.setup = TRUE] \in Contexts
      BY <1>1 DEF Contexts
    <3> QED
      BY <1>0, <2>9, <3>1, ExitTyped DEF RunSetupForAll, Restart
  <2>10. CASE TerminalDone
    <3>1. CASE result \in {"exit200", "raised"}
      BY <1>0, <1>1, <2>10, <3>1, ExitTyped DEF TerminalDone, Restart, Crash
    <3>2. CASE result \notin {"exit200", "raised"}
      <4>1. /\ BackTo(from = "first")
            /\ status' = IF from = "first" THEN "READY" ELSE status
            /\ UNCHANGED <<from, target, ec, asks, pctx, asked, client>> /\ Quietly
        BY <2>10, <3>2 DEF TerminalDone
      <4>2. BackTo(TRUE) \/ BackTo(FALSE)
        BY <4>1 DEF BackTo
      <4>3. /\ ca' \in [command : Command, ready_signal : {"READY", "RESUMEREADY"}]
            /\ pc' \in {"input", "top"} /\ first' \in BOOLEAN
        BY <1>2, <4>1, <4>2
      <4> QED
        BY <1>0, <4>1, <4>2, <4>3 DEF TypeOK, loop, client, Quietly
    <3> QED
      BY <3>1, <3>2
  <2>11. CASE FirstCommand
    <3>1. target' \in Targets
      BY <1>1, <2>11 DEF FirstCommand, TypeOK, Command
    <3> QED
      BY <1>0, <2>11, <3>1 DEF FirstCommand, TypeOK, loop, client, Quietly
  <2>12. CASE Prepare \/ Reload
    <3>1. CASE Loads(drawing, target)
      <4>1. /\ ec' = reload_graph(target) /\ asked' = Loaded
            /\ status' \in {status, "RUNNING"} /\ pc' = "setup"
            /\ UNCHANGED <<from, first, target, ca, asks, pctx, client>> /\ Quietly
        BY <2>12, <3>1 DEF Prepare, Reload
      <4>2. ec' \in [loaded : BOOLEAN, code : Drawings[user] \cup {NoContext.code},
                     target : Targets, caught : BOOLEAN, reload : BOOLEAN, debug : BOOLEAN]
        BY <4>1, ReloadTyped DEF TypeOK
      <4>3. asked' \in [target : Targets, fresh : BOOLEAN, state : {"none", "owed", "served"}]
        BY <4>1 DEF TypeOK, Loaded
      <4> QED
        BY <1>0, <4>1, <4>2, <4>3 DEF TypeOK, loop, client, Quietly
    <3>2. CASE ~Loads(drawing, target)
      BY <1>0, <1>1, <2>12, <3>2, ExitTyped DEF Prepare, Reload, Crash
    <3> QED
      BY <3>1, <3>2
  <2>13. CASE run_setup_code
    <3>1. [setup |-> TRUE, run |-> ec.target] \in Contexts
      BY DEF Contexts, TypeOK
    <3> QED
      BY <1>0, <2>13, <3>1, ExitTyped
      DEF run_setup_code, Restart, TypeOK, loop, client, Quietly
  <2>14. CASE enter_interactive_mode
    BY <1>0, <2>14 DEF enter_interactive_mode, TypeOK, loop, client, Quietly
  <2>15. CASE Start
    <3>1. ca.command.target \in Targets
      BY DEF TypeOK, Command
    <3>2. ca' \in [command : Command, ready_signal : {"READY", "RESUMEREADY"}]
      BY <1>1, <2>15 DEF Start, TypeOK
    <3>3. /\ ec' \in {ec, reload_graph(ca.command.target)}
          /\ asked' \in {asked, Loaded, Served}
          /\ pc' \in {"execute", "top"} /\ first' \in {first, FALSE}
      BY <2>15 DEF Start
    <3>4. asked' \in [target : Targets, fresh : BOOLEAN, state : {"none", "owed", "served"}]
      BY <3>3 DEF TypeOK, Loaded, Served
    <3>5. ec' \in [loaded : BOOLEAN, code : Drawings[user] \cup {NoContext.code},
                   target : Targets, caught : BOOLEAN, reload : BOOLEAN, debug : BOOLEAN]
      BY <3>1, <3>3, ReloadTyped DEF TypeOK
    <3>6. UNCHANGED <<from, target, asks, status, pctx, client>> /\ Quietly
      BY <2>15 DEF Start
    <3> QED
      BY <1>0, <3>2, <3>3, <3>4, <3>5, <3>6 DEF TypeOK, loop, client, Quietly
  <2>16. CASE Execute
    <3>1. CASE Crash
      BY <1>0, <1>1, <3>1, ExitTyped DEF Crash
    <3>2. CASE ~Crash
      <4>1. ec' = [ec EXCEPT !.caught = (Raising # {})] /\ asked' = Served
        BY <2>16, <3>2 DEF Execute
      <4>2. /\ ec' \in [loaded : BOOLEAN, code : Drawings[user] \cup {NoContext.code},
                         target : Targets, caught : BOOLEAN, reload : BOOLEAN, debug : BOOLEAN]
            /\ asked' \in [target : Targets, fresh : BOOLEAN, state : {"none", "owed", "served"}]
        BY <4>1 DEF TypeOK, Served
      <4>3. /\ pc' = "top" /\ first' = FALSE
            /\ UNCHANGED <<from, target, ca, asks, status, pctx, client>> /\ Quietly
        BY <2>16, <3>2 DEF Execute
      <4> QED
        BY <1>0, <4>2, <4>3 DEF TypeOK, loop, client, Quietly
    <3> QED
      BY <3>1, <3>2
  <2>17. CASE Stop \/ Info
    BY <1>0, <1>2, <2>17 DEF Stop, Info, TypeOK, loop, client, Quietly
  <2>18. CASE cmd_execute_node
    <3>1. CASE Executes(ca.command)
      <4>1. /\ ec' = [ec EXCEPT !.reload = TRUE] /\ BackTo(FALSE) /\ status' = "READY"
            /\ UNCHANGED <<from, target, asks, pctx, asked, client>> /\ Quietly
        BY <2>18, <3>1 DEF cmd_execute_node
      <4>2. ec' \in [loaded : BOOLEAN, code : Drawings[user] \cup {NoContext.code},
                     target : Targets, caught : BOOLEAN, reload : BOOLEAN, debug : BOOLEAN]
        BY <4>1 DEF TypeOK
      <4>3. /\ ca' \in [command : Command, ready_signal : {"READY", "RESUMEREADY"}]
            /\ pc' \in {"input", "top"} /\ first' \in BOOLEAN
        BY <1>2, <4>1, <4>2
      <4> QED
        BY <1>0, <4>1, <4>2, <4>3 DEF TypeOK, loop, client, Quietly
    <3>2. CASE ~Executes(ca.command)
      BY <1>0, <1>1, <2>18, <3>2, ExitTyped DEF cmd_execute_node, Crash
    <3> QED
      BY <3>1, <3>2
  <2> QED
    BY <1>6, <2>1, <2>2, <2>3, <2>4, <2>5, <2>6, <2>7, <2>8, <2>9, <2>10, <2>11, <2>12,
       <2>13, <2>14, <2>15, <2>16, <2>17, <2>18 DEF Processor, ReceiveAny, PasswordAny
<1>7. CASE UNCHANGED vars
  BY <1>7 DEF vars, loop, client, terminal, threads, TypeOK, TerminalTypeOK
<1> QED
  BY <1>3, <1>4, <1>5, <1>6, <1>7 DEF Next

-----------------------------------------------------------------------------
(* A start is handed on. *)

Hands == Loops /\ Handed /\ Asking

\* A processor that ends owes nothing; one that starts again needs the target
\* in the process context.
LEMMA ExitHands ==
  ASSUME TypeOK, Hands, NEW code, NEW context \in Contexts, Exit(code, context),
         code = 200 /\ asked.state = "owed" => context.run = asked.target
  PROVE  Hands'
<1>1. /\ pc' \in {"boot", "ended"} /\ from' = "first" /\ first' = TRUE
      /\ mode' = mode /\ pctx' = context
  BY DEF Exit, loop
<1>2. Loops' /\ Asking'
  BY <1>1 DEF Loops, Asking
<1>3. CASE code = 200 /\ asked.state = "owed"
  BY <1>1, <1>2, <1>3 DEF Hands, Exit, Handed, Owed
<1>4. CASE ~(code = 200 /\ asked.state = "owed")
  <2>1. asked'.state # "owed"
    BY <1>4 DEF Exit, Served, TypeOK
  <2> QED
    BY <1>2, <2>1 DEF Hands, Handed
<1> QED
  BY <1>3, <1>4

\* Going back to the loop a command came from, when no start is owed.
LEMMA BackHands ==
  ASSUME TypeOK, Hands, NEW ready \in BOOLEAN, BackTo(ready),
         pc \in {"first", "handle", "password", "terminal"}, asked.state # "owed",
         UNCHANGED <<from, mode, asked>>
  PROVE  Hands'
BY DEF TypeOK, Hands, Loops, Handed, Asking, BackTo

\* Every step hands an owed start on, or settles it.
LEMMA StepHands ==
  ASSUME TypeOK, Hands, [Next]_vars
  PROVE  Hands'
<1> USE DEF Hands
<1>1. pctx \in Contexts
  BY DEF TypeOK, Contexts
<1>2. CASE Edit \/ Send \/ Expire \/ LoseLink \/ TerminalRuns \/ UNCHANGED vars
  <2>1. UNCHANGED <<pc, mode, from, first, target, ec, ca, asks, pctx, asked>>
    BY <1>2 DEF Edit, Send, Expire, LoseLink, TerminalRuns, Outside, loop, vars
  <2> QED
    BY <2>1 DEF Loops, Handed, Owed, Asks, Asking
<1>3. CASE _exit_idle
  BY <1>1, <1>3, ExitHands DEF _exit_idle, Quit
<1>4. CASE Processor
  <2>1. CASE Boot \/ Leave \/ ExecutePlan
    BY <2>1 DEF Boot, Leave, ExecutePlan, Continues, loop, Quietly, TypeOK,
       Loops, Handed, Owed, Asks, Asking
  <2>2. CASE Resume
    BY <2>2 DEF Resume, loop, Quietly, TypeOK, Loops, Handed, Owed, Asks, Asking
  <2>3. CASE Announce
    BY <2>3, ProcessorAssumption
    DEF Announce, loop, Quietly, TypeOK, Loops, Handed, Owed, Asks, Asking
  <2>4. ASSUME NEW c \in Commands[user], Receive(c)
        PROVE  Hands'
    <3>1. CASE c.op \in ALL_PROCESSOR_COMMANDS
      <4>1. c.op # "none"
        BY <3>1 DEF ALL_PROCESSOR_COMMANDS, GitCommands, TerminalCommands
      <4> QED
        BY <2>4, <3>1, <4>1
        DEF Receive, loop, Quietly, TypeOK, Loops, Handed, Owed, Asks, Asking
    <3>2. CASE c.op \notin ALL_PROCESSOR_COMMANDS
      BY <2>4, <3>2 DEF Receive, loop, Quietly, TypeOK, Loops, Handed, Owed, Asks, Asking
    <3> QED
      BY <3>1, <3>2
  <2>5. CASE Reconnect
    BY <2>5 DEF Reconnect, Waits, loop, Quietly, Loops, Handed, Owed, Asks, Asking
  <2>6. CASE ReconnectFails \/ FirstStop \/ Finish
    BY <1>1, <2>6, ExitHands DEF ReconnectFails, FirstStop, Finish, Crash, Quit
  <2>7. CASE Compile \/ Git
    <3>1. asked.state # "owed" /\ pc \in {"first", "handle"} /\ UNCHANGED <<from, mode, asked>>
      BY <2>7 DEF Compile, Git, Handling, Is, GitCommands, Quietly, loop, Handed, Owed, Asks
    <3>2. \/ BackTo(TRUE)
          \/ BackTo(FALSE)
          \/ pc' = "password" /\ asks' = MaxAsks /\ UNCHANGED <<first, ca>>
      BY <2>7 DEF Compile, Git
    <3>3. CASE pc' = "password" /\ asks' = MaxAsks /\ UNCHANGED <<first, ca>>
      BY <3>1, <3>3, ProcessorAssumption DEF Loops, Handed, Asking
    <3> QED
      BY <3>1, <3>2, <3>3, BackHands
  <2>8. ASSUME NEW c \in Commands[user], Ask_for_password(c)
        PROVE  Hands'
    <3>1. pc = "password" /\ asked.state # "owed" /\ UNCHANGED <<from, mode, asked>>
      BY <2>8 DEF Ask_for_password, Quietly, loop, Handed, Owed
    <3>2. \/ BackTo(TRUE)
          \/ asks # 1 /\ asks' = asks - 1 /\ UNCHANGED <<pc, ca, first>>
      BY <2>8 DEF Ask_for_password
    <3>3. CASE asks # 1 /\ asks' = asks - 1 /\ UNCHANGED <<pc, ca, first>>
      BY <3>1, <3>3, ProcessorAssumption DEF TypeOK, Loops, Handed, Asking
    <3> QED
      BY <3>1, <3>2, <3>3, BackHands
  <2>9. CASE RunSetupForAll
    <3>1. [pctx EXCEPT !.setup = FALSE] \in Contexts /\ [pctx EXCEPT !.setup = TRUE] \in Contexts
      BY <1>1 DEF Contexts
    <3>2. asked.state # "owed"
      BY <2>9 DEF RunSetupForAll, Handling, Is, Handed, Owed, Asks
    <3> QED
      BY <2>9, <3>1, <3>2, ExitHands DEF RunSetupForAll, Restart
  <2>10. CASE Terminal
    <3>1. asked.state # "owed" /\ pc \in {"first", "handle"}
      BY <2>10 DEF Terminal, Handling, TerminalCommands, Handed, Owed, Asks
    <3> QED
      BY <2>10, <3>1 DEF Terminal, loop, Loops, Handed, Asking
  <2>11. CASE TerminalDone
    <3>1. asked.state # "owed" /\ pc = "terminal"
      BY <2>11 DEF TerminalDone, Handed, Owed
    <3>2. CASE result \in {"exit200", "raised"}
      BY <1>1, <2>11, <3>1, <3>2, ExitHands DEF TerminalDone, Restart, Crash
    <3>3. CASE result \notin {"exit200", "raised"}
      <4>1. BackTo(from = "first") /\ UNCHANGED <<from, mode, asked>>
        BY <2>11, <3>3 DEF TerminalDone, Quietly, loop
      <4> QED
        BY <3>1, <4>1, BackHands
    <3> QED
      BY <3>2, <3>3
  <2>12. CASE FirstCommand
    BY <2>12 DEF FirstCommand, Is, FirstOps, loop, Quietly, Loops, Handed, Owed, Asks, Asking
  <2>13. CASE Prepare \/ Reload
    <3>1. CASE Loads(drawing, target)
      <4>1. /\ ec' = reload_graph(target) /\ asked' = Loaded
            /\ pc' = "setup" /\ UNCHANGED <<from, first, target, ca, asks, mode>>
        BY <2>13, <3>1 DEF Prepare, Reload, Quietly, loop
      <4>2. /\ ec'.target = target /\ ~ec'.reload
            /\ asked'.fresh /\ asked'.target = asked.target /\ asked'.state = asked.state
        BY <4>1, ReloadTyped DEF TypeOK, Loaded
      <4>3. asked.state = "owed" => pc = "prepare"
        BY <2>13 DEF Prepare, Reload, Handed, Owed
      <4>4. pc \in {"prepare", "top"}
        BY <2>13 DEF Prepare, Reload
      <4> QED
        BY <4>1, <4>2, <4>3, <4>4 DEF TypeOK, Loops, Handed, Owed, Asks, Asking
    <3>2. CASE ~Loads(drawing, target)
      BY <1>1, <2>13, <3>2, ExitHands DEF Prepare, Reload, Crash
    <3> QED
      BY <3>1, <3>2
  <2>14. CASE run_setup_code
    <3>1. CASE pctx.setup
      BY <2>14, <3>1 DEF run_setup_code, Quietly, loop, Loops, Handed, Owed, Asks, Asking
    <3>2. CASE ~pctx.setup
      <4>1. [setup |-> TRUE, run |-> ec.target] \in Contexts
        BY DEF Contexts, TypeOK
      <4>2. asked.state = "owed" => ec.target = asked.target
        BY <2>14 DEF run_setup_code, Handed, Owed
      <4> QED
        BY <2>14, <3>2, <4>1, <4>2, ExitHands DEF run_setup_code, Restart
    <3> QED
      BY <3>1, <3>2
  <2>15. CASE enter_interactive_mode
    <3>1. /\ pc = "top" /\ mode = "debug" /\ from' = "loop"
          /\ pc' = IF ca.command = NoCommand THEN "input" ELSE "handle"
          /\ ca'.command = ca.command
          /\ UNCHANGED <<first, target, ec, asks, pctx, asked, mode>>
      BY <2>15 DEF enter_interactive_mode, Quietly, loop, TypeOK
    <3>2. NoCommand.op = "none"
      BY DEF NoCommand, Plain
    <3> QED
      BY <3>1, <3>2 DEF Loops, Handed, Owed, Asks, Asking, TypeOK
  <2>16. CASE Start
    <3>1. ca.command.target \in Targets
      BY DEF TypeOK, Command
    <3>2. CASE first
      BY <2>16, <3>2 DEF Start, Quietly, loop, Loops, Handed, Owed, Asks, Asking
    <3>3. CASE ~first /\ Loads(drawing, ca.command.target)
      <4>1. ec' = reload_graph(ca.command.target) /\ asked' = Loaded /\ pc' = "execute"
        BY <2>16, <3>3 DEF Start
      <4>2. /\ ec'.target = ca.command.target
            /\ asked'.fresh /\ asked'.target = asked.target /\ asked'.state = asked.state
        BY <3>1, <4>1, ReloadTyped DEF TypeOK, Loaded
      <4> QED
        BY <2>16, <3>3, <4>1, <4>2 DEF Start, Quietly, loop, Loops, Handed, Owed, Asks, Asking
    <3>4. CASE ~first /\ ~Loads(drawing, ca.command.target)
      BY <2>16, <3>4 DEF Start, Served, TypeOK, Quietly, loop, Loops, Handed, Asking
    <3> QED
      BY <3>2, <3>3, <3>4
  <2>17. CASE Execute
    <3>1. CASE Crash
      BY <1>1, <3>1, ExitHands DEF Crash
    <3>2. CASE ~Crash
      BY <2>17, <3>2 DEF Execute, Served, TypeOK, Quietly, loop, Loops, Handed, Asking
    <3> QED
      BY <3>1, <3>2
  <2>18. CASE Stop \/ Info
    <3>1. BackTo(FALSE) /\ UNCHANGED <<from, mode, asked>> /\ pc = "handle"
      BY <2>18 DEF Stop, Info, Quietly, loop
    <3>2. asked.state # "owed"
      BY <2>18 DEF Stop, Info, Is, Handed, Owed, Asks
    <3> QED
      BY <3>1, <3>2, BackHands
  <2>19. CASE cmd_execute_node
    <3>1. pc = "handle" /\ asked.state # "owed"
      BY <2>19 DEF cmd_execute_node, Is, Handed, Owed, Asks
    <3>2. CASE Executes(ca.command)
      <4>1. BackTo(FALSE) /\ UNCHANGED <<from, mode, asked>>
        BY <2>19, <3>2 DEF cmd_execute_node, Quietly, loop
      <4> QED
        BY <3>1, <4>1, BackHands
    <3>3. CASE ~Executes(ca.command)
      BY <1>1, <2>19, <3>3, ExitHands DEF cmd_execute_node, Crash
    <3> QED
      BY <3>2, <3>3
  <2> QED
    BY <1>4, <2>1, <2>2, <2>3, <2>4, <2>5, <2>6, <2>7, <2>8, <2>9, <2>10, <2>11, <2>12, <2>13,
       <2>14, <2>15, <2>16, <2>17, <2>18, <2>19 DEF Processor, ReceiveAny, PasswordAny
<1> QED
  BY <1>2, <1>3, <1>4 DEF Next

ProcessorInv == TypeOK /\ OneServer /\ Hands

LEMMA ProcessorInit == Init => ProcessorInv
<1> SUFFICES ASSUME Init PROVE ProcessorInv
  OBVIOUS
<1>1. NoCommand \in Command /\ All \in Targets
  BY DEF NoCommand, Plain, Command, Targets
<1>2. TerminalTypeOK /\ OneServer
  BY TerminalAssumption
  DEF Init, TerminalInit, TerminalTypeOK, OneServer, Running, MainSteps, Shells, NoShell
<1>3. TypeOK
  BY <1>1, <1>2, ProcessorAssumption DEF Init, TypeOK, NoContext
<1>4. Hands
  BY DEF Init, Hands, Loops, Handed, Asking
<1> QED
  BY <1>2, <1>3, <1>4 DEF ProcessorInv

LEMMA ProcessorInvariant == Spec => []ProcessorInv
<1>1. ProcessorInv /\ [Next]_vars => ProcessorInv'
  BY OnlyTerminalSteps, TerminalKeeps, StepTyped, StepHands DEF ProcessorInv, TypeOK, Hands
<1> QED
  BY <1>1, ProcessorInit, PTL DEF Spec

\* Commands, contexts, the process context on disk and the terminal keep their
\* types, whatever the client edits and sends and whenever the processor ends.
THEOREM TypeCorrect == Spec => []TypeOK
<1>1. ProcessorInv => TypeOK
  BY DEF ProcessorInv
<1> QED
  BY <1>1, ProcessorInvariant, PTL

\* What a debugged processor executes while it owes its client a start is that
\* start: its target, and the drawing as it was no earlier than the command,
\* for any drawing and any commands sent meanwhile, and also when set-up
\* restarts the processor on the way.
THEOREM RunsTheStart == Spec => []RunsWhatWasAsked
<1>1. ProcessorInv => RunsWhatWasAsked
  BY DEF ProcessorInv, Hands, Handed, Owed, RunsWhatWasAsked
<1> QED
  BY <1>1, ProcessorInvariant, PTL

=============================================================================
