------------------------------ MODULE Processor ------------------------------
(***************************************************************************)
(* The main thread of a processor (packages/mirmod/mirmod/processor.py):   *)
(* process_knowledge_object, the commands it takes from the client through *)
(* CommandActorRabbitMQ, loading and pruning of the drawing, the set-up    *)
(* and its restart, and the end of the process.  The client keeps editing  *)
(* the drawing and sending commands all the while.  What the execution of  *)
(* a plan does inside is FieldExecution's, and planning is Planner's.      *)
(* The supervisor that starts the processor again after exit code 200 is   *)
(* not in this repository.                                                 *)
(***************************************************************************)
EXTENDS TerminalServer

CONSTANTS
  Nodes, Edges,  \* the drawing, of which the nodes' code is edited
  All,           \* the target -1
  Drawings,      \* the codes that each kind of client gives the nodes
  Commands,      \* what each kind of client sends
  Lossy,         \* the clients whose processor may lose its connection
  MaxQueue,      \* bound on the commands that wait
  MaxAsks        \* how many messages Ask_for_password takes

Targets == Nodes \cup {All}
Modes   == {"debug", "deployed", "once"}

(* "raises" when executed; "uncompilable": left out of the code cache;     *)
(* "failing": its _init raises.                                            *)
Codes == {"fine", "raises", "uncompilable", "failing", "disabled"}

GitCommands      == {"git-pull", "git-push", "git-soft-pull"}
TerminalCommands == {"terminal-start", "terminal-stop", "terminal-push", "terminal-pull"}
ALL_PROCESSOR_COMMANDS ==
  GitCommands \cup TerminalCommands \cup
  {"break", "clear", "stop", "start", "restart", "compile", "info", "run-setup", "execute"}

(* "unknown" stands for every name that no loop asks for. *)
Command ==
  [op : ALL_PROCESSOR_COMMANDS \cup {"secret", "unknown", "none"},
   target : Targets, recompile : BOOLEAN]
Plain(op) == [op |-> op, target |-> All, recompile |-> FALSE]
NoCommand == Plain("none")

ASSUME ProcessorAssumption ==
  /\ Edges \subseteq Nodes \X Nodes /\ All \notin Nodes /\ "no" \notin Targets
  /\ DOMAIN Commands \subseteq STRING
  /\ Drawings \in [DOMAIN Commands -> SUBSET [Nodes -> Codes]]
  /\ \A u \in DOMAIN Commands : Commands[u] \subseteq Command
  /\ Lossy \subseteq DOMAIN Commands /\ MaxQueue \in Nat /\ MaxAsks \in Nat \ {0}

VARIABLES
  pc,       \* where the main thread is
  mode,     \* debug_mode and run_as_deployed of the message it was started with
  user,     \* the kind of client at the other end
  from,     \* which of the two command loops waits or handles
  first,    \* first_execution
  target,   \* target_wob_mid of process_knowledge_object
  drawing,  \* the code of the nodes in the database
  ec,       \* the execution context
  ca,       \* the command actor: its command and ready_signal
  asks,     \* messages Ask_for_password may still take
  status,   \* workflow_state of the Docker_job
  queue,    \* how many commands wait in the processor's queue
  link,     \* the connection to the broker, and whether it consumes
  pctx,     \* process_context, on disk whenever the process ends
  asked     \* ghost: the start the client has asked for, and how far it got

loop   == <<mode, user, drawing>>
client == <<queue, link>>
vars   == <<pc, from, first, target, ec, ca, asks, status, pctx, asked,
            loop, client, terminal>>

-----------------------------------------------------------------------------
(* Loading a drawing. *)

(* cache_code_and_init: the nodes that have code to run. *)
code_cache(d) == {n \in Nodes : d[n] # "uncompilable"}
CodeCacheException(d) == \E n \in Nodes : d[n] = "failing"

prune_graph_from_disabled(d) == {n \in Nodes : d[n] # "disabled"}

Adjacent(ns, n) == {m \in ns : <<n, m>> \in Edges \/ <<m, n>> \in Edges}

(* The weakly connected component of the target; none if it was pruned. *)
prune_graph_for_target(ns, t) ==
  IF t = All THEN ns
  ELSE LET hood[i \in Nat] ==
             IF i = 0 THEN {t} \cap ns
             ELSE hood[i - 1] \cup UNION {Adjacent(ns, n) : n \in hood[i - 1]}
       IN hood[Cardinality(Nodes)]

PlannedNodes(d, t) == prune_graph_for_target(prune_graph_from_disabled(d), t)

(* Planning looks every node up in the code cache. *)
Loads(d, t) == ~CodeCacheException(d) /\ PlannedNodes(d, t) \subseteq code_cache(d)

NoContext == [loaded |-> FALSE, code |-> [n \in Nodes |-> "fine"], target |-> All,
              caught |-> FALSE, reload |-> FALSE, debug |-> FALSE]

reload_graph(t) ==
  [NoContext EXCEPT !.loaded = TRUE, !.code = drawing, !.target = t, !.debug = (mode = "debug")]

(* What runs is at an edge.  A node without inbound edges raises out of    *)
(* execute_plan, the error of any other is caught.                         *)
Joined       == Edges \cap (PlannedNodes(ec.code, ec.target) \X PlannedNodes(ec.code, ec.target))
HasInbound(n) == \E m \in Nodes : <<m, n>> \in Joined
Raising      == {n \in Nodes : ec.code[n] = "raises" /\ \E e \in Joined : n \in {e[1], e[2]}}

-----------------------------------------------------------------------------
TypeOK ==
  /\ pc \in {"boot", "input", "wait", "first", "prepare", "setup", "top", "handle",
             "execute", "password", "terminal", "close", "ended"}
  /\ mode \in Modes /\ user \in DOMAIN Commands
  /\ from \in {"first", "loop"} /\ first \in BOOLEAN /\ target \in Targets
  /\ drawing \in Drawings[user]
  /\ ec \in [loaded : BOOLEAN, code : Drawings[user] \cup {NoContext.code}, target : Targets,
             caught : BOOLEAN, reload : BOOLEAN, debug : BOOLEAN]
  /\ ca \in [command : Command, ready_signal : {"READY", "RESUMEREADY"}]
  /\ asks \in 0 .. MaxAsks
  /\ status \in {"STARTING", "READY", "RESUMEREADY", "RUNNING", "EXITED"}
  /\ queue \in 0 .. MaxQueue
  /\ link \in {"unbound", "consuming", "lost"}
  /\ pctx \in [setup : BOOLEAN, run : Targets \cup {"no"}]
  /\ asked \in [target : Targets, fresh : BOOLEAN, state : {"none", "owed", "served"}]
  /\ TerminalTypeOK

Init ==
  /\ pc = "boot" /\ from = "first" /\ first = TRUE /\ target = All
  /\ mode \in Modes /\ user \in DOMAIN Commands /\ drawing \in Drawings[user]
  /\ ec = NoContext
  /\ ca = [command |-> NoCommand, ready_signal |-> "READY"]
  /\ asks = 0 /\ status = "STARTING"
  /\ queue = 0 /\ link = "unbound"
  /\ pctx = [setup |-> FALSE, run |-> "no"]
  /\ asked = [target |-> All, fresh |-> FALSE, state |-> "none"]
  /\ TerminalInit

-----------------------------------------------------------------------------
(* The client, the broker and the network. *)
Edit ==
  /\ drawing' \in Drawings[user] \ {drawing}
  /\ UNCHANGED <<pc, mode, user, from, first, target, ec, ca, asks, status, client,
                 pctx, asked, terminal>>

Outside == UNCHANGED <<pc, from, first, target, ec, ca, asks, status, pctx, asked,
                       loop, terminal>>

Send ==
  /\ mode = "debug" /\ queue < MaxQueue /\ link # "lost" /\ pc # "ended"
  /\ queue' = queue + 1
  /\ Outside /\ UNCHANGED link

(* A command waits five seconds for a processor that does not consume yet. *)
Expire ==
  /\ link = "unbound" /\ queue > 0
  /\ queue' = queue - 1
  /\ Outside /\ UNCHANGED link

(* The queue goes with its only consumer, but for what is already here. *)
LoseLink ==
  /\ link = "consuming" /\ pc # "ended" /\ user \in Lossy
  /\ link' = "lost"
  /\ queue' \in {0, queue}
  /\ Outside

-----------------------------------------------------------------------------
(* The end of the process.  Exit code 200 asks the supervisor for a new    *)
(* one, which finds the process context and no queue.                      *)
Served == IF asked.state = "owed" THEN [asked EXCEPT !.state = "served"] ELSE asked

Exit(code, context) ==
  /\ pctx' = context
  /\ pc' = IF code = 200 THEN "boot" ELSE "ended"
  /\ from' = "first" /\ first' = TRUE /\ target' = All
  /\ ec' = NoContext
  /\ ca' = [command |-> NoCommand, ready_signal |-> "READY"]
  /\ asks' = 0
  /\ queue' = 0 /\ link' = "unbound"
  /\ asked' = IF code = 200 THEN asked ELSE Served
  /\ TerminalDies
  /\ UNCHANGED loop

Crash == Exit(1, pctx) /\ UNCHANGED status
Quit  == Exit(0, pctx) /\ status' = "EXITED"
Restart(context) == Exit(200, context) /\ UNCHANGED status

(* main and process_knowledge_object up to the first command. *)
Boot ==
  /\ pc = "boot"
  /\ pc' = IF mode = "debug" THEN "input" ELSE "prepare"
  /\ UNCHANGED <<from, first, target, ec, ca, asks, status, pctx, asked, loop, client, terminal>>

Quietly == UNCHANGED <<loop, terminal>>

-----------------------------------------------------------------------------
(* CommandActorRabbitMQ.input. *)

(* A restart after set-up goes on with the start it was asked for. *)
Resume ==
  /\ pc = "input" /\ pctx.run # "no"
  /\ pctx' = [pctx EXCEPT !.run = "no"]
  /\ ca' = [ca EXCEPT !.command = [op |-> "start", target |-> pctx.run, recompile |-> FALSE]]
  /\ status' = "RUNNING"
  /\ pc' = IF from = "first" THEN "first" ELSE "handle"
  /\ UNCHANGED <<from, first, target, ec, asks, asked, client>> /\ Quietly

Announce ==
  /\ pc = "input" /\ pctx.run = "no"
  /\ status' = ca.ready_signal
  /\ pc' = "wait"
  /\ link' = IF link = "lost" THEN link ELSE "consuming"
  /\ UNCHANGED <<from, first, target, ec, ca, asks, pctx, asked, queue>> /\ Quietly

Waits == pc \in {"wait", "password"}

(* validate lets only known commands through; on another the first loop    *)
(* asks again and the second one goes round.                               *)
Receive(c) ==
  /\ pc = "wait" /\ queue > 0
  /\ queue' = queue - 1
  /\ status' = "RUNNING"
  /\ IF c.op \in ALL_PROCESSOR_COMMANDS
     THEN /\ ca' = [ca EXCEPT !.command = c]
          /\ pc' = IF from = "first" THEN "first" ELSE "handle"
          /\ asked' = IF c.op \in {"start", "restart"}
                      THEN [target |-> c.target, fresh |-> FALSE, state |-> "owed"]
                      ELSE [asked EXCEPT !.state = "none"]
          /\ UNCHANGED first
     ELSE /\ ca' = [ca EXCEPT !.command = NoCommand]
          /\ pc' = IF from = "first" THEN "input" ELSE "top"
          /\ first' = (first /\ from = "first")
          /\ UNCHANGED asked
  /\ UNCHANGED <<from, target, ec, asks, pctx, link>> /\ Quietly

(* wait_for_event notices a lost connection and makes it again, once. *)
Reconnect ==
  /\ Waits /\ link = "lost"
  /\ link' = "consuming" /\ queue' = 0
  /\ UNCHANGED <<pc, from, first, target, ec, ca, asks, status, pctx, asked>> /\ Quietly

ReconnectFails == Waits /\ link = "lost" /\ Crash

(* No command for PROCESSOR_IDLE_TIMEOUT, or a connection found lost after it. *)
_exit_idle == Waits /\ (queue = 0 \/ link = "lost") /\ Quit

-----------------------------------------------------------------------------
(* What both loops do with the commands that do not run the drawing. *)
Is(op) == ca.command.op = op
Handling     == pc \in {"first", "handle"}

(* Back to the loop the command came from. *)
BackTo(ready) ==
  /\ ca' = [command |-> NoCommand, ready_signal |-> IF ready THEN "READY" ELSE ca.ready_signal]
  /\ pc' = IF from = "first" THEN "input" ELSE "top"
  /\ first' = (first /\ from = "first")

(* validate_code_block answers the client and changes nothing. *)
Compile ==
  /\ Handling /\ Is("compile")
  /\ BackTo(FALSE)
  /\ UNCHANGED <<from, target, ec, asks, status, pctx, asked, client>> /\ Quietly

(* git_pull, git_push, git_soft_pull: miranda.git_clone succeeds, fails, or *)
(* asks for the password of the key.                                       *)
Git ==
  /\ Handling /\ ca.command.op \in GitCommands
  /\ \/ BackTo(TRUE) /\ status' = "READY" /\ UNCHANGED asks
     \/ /\ pc' = "password" /\ asks' = MaxAsks
        /\ status' = ca.ready_signal
        /\ UNCHANGED <<first, ca>>
  /\ UNCHANGED <<from, target, ec, pctx, asked, client>> /\ Quietly

(* Ask_for_password: only "secret" and "stop" end it before its time.      *)
(* Every other command is taken from the queue for nothing.                *)
Ask_for_password(c) ==
  /\ pc = "password" /\ queue > 0
  /\ queue' = queue - 1
  /\ IF c.op \in {"secret", "stop"} \/ asks = 1
     THEN BackTo(TRUE) /\ asks' = 0 /\ status' = "READY"
     ELSE asks' = asks - 1 /\ status' = ca.ready_signal /\ UNCHANGED <<pc, ca, first>>
  /\ UNCHANGED <<from, target, ec, pctx, asked, link>> /\ Quietly

(* run-setup forgets that set-up was done and does it for every code block. *)
RunSetupForAll ==
  /\ Handling /\ Is("run-setup")
  /\ IF CodeCacheException(drawing) \/ (from = "first" /\ ~Loads(drawing, All))
     THEN Exit(1, [pctx EXCEPT !.setup = FALSE]) /\ UNCHANGED status
     ELSE Restart([pctx EXCEPT !.setup = TRUE])

Terminal ==
  /\ Handling /\ ca.command.op \in TerminalCommands
  /\ Call(CASE Is("terminal-start") -> "start" [] Is("terminal-stop") -> "stop"
            [] Is("terminal-push") -> "push" [] OTHER -> "pull")
  /\ pc' = "terminal"
  /\ UNCHANGED <<from, first, target, ec, ca, asks, status, pctx, asked, loop, client>>

TerminalDone ==
  /\ pc = "terminal" /\ at = "idle"
  /\ CASE result = "exit200" -> Restart(pctx)
       [] result = "raised"  -> Crash
       [] OTHER ->
            /\ BackTo(from = "first")
            /\ status' = IF from = "first" THEN "READY" ELSE status
            /\ UNCHANGED <<from, target, ec, asks, pctx, asked, client>> /\ Quietly

TerminalRuns ==
  /\ (pc = "terminal" /\ MainStep) \/ ThreadStep
  /\ UNCHANGED <<pc, from, first, target, ec, ca, asks, status, pctx, asked, loop, client>>

-----------------------------------------------------------------------------
(* The first loop of process_knowledge_object. *)
FirstStop ==
  /\ pc = "first" /\ Is("stop")
  /\ Quit

FirstOps == GitCommands \cup TerminalCommands \cup {"compile", "run-setup", "stop"}

(* Any other command ends the loop and stays with the command actor. *)
FirstCommand ==
  /\ pc = "first" /\ ca.command.op \notin FirstOps
  /\ target' = IF ca.command.op \in {"start", "restart"} THEN ca.command.target ELSE All
  /\ pc' = "prepare"
  /\ UNCHANGED <<from, first, ec, ca, asks, status, pctx, asked, client>> /\ Quietly

Loaded == [asked EXCEPT !.fresh = TRUE]

Prepare ==
  /\ pc = "prepare"
  /\ IF Loads(drawing, target)
     THEN /\ ec' = reload_graph(target)
          /\ asked' = Loaded
          /\ status' = "RUNNING"
          /\ pc' = "setup"
          /\ UNCHANGED <<from, first, target, ca, asks, pctx, client>> /\ Quietly
     ELSE Exit(1, pctx) /\ status' = "RUNNING"

(* Mutant: the restart forgets the target. *)
run_setup_code_all ==
  /\ pc = "setup"
  /\ IF pctx.setup
     THEN /\ pc' = "top"
          /\ UNCHANGED <<from, first, target, ec, ca, asks, status, pctx, asked, client>>
          /\ Quietly
     ELSE Restart([setup |-> TRUE, run |-> All])

(* Mutant: the restart waits for a command. *)
run_setup_code_no_start ==
  /\ pc = "setup"
  /\ IF pctx.setup
     THEN /\ pc' = "top"
          /\ UNCHANGED <<from, first, target, ec, ca, asks, status, pctx, asked, client>>
          /\ Quietly
     ELSE Restart([setup |-> TRUE, run |-> "no"])

(* run_setup_code: once, and then over again with the start to resume. *)
run_setup_code ==
  /\ pc = "setup"
  /\ IF pctx.setup
     THEN /\ pc' = "top"
          /\ UNCHANGED <<from, first, target, ec, ca, asks, status, pctx, asked, client>>
          /\ Quietly
     ELSE Restart([setup |-> TRUE, run |-> ec.target])

-----------------------------------------------------------------------------
(* The loop of process_knowledge_object and enter_interactive_mode. *)
Continues == mode = "deployed" \/ first \/ ec.debug

Leave ==
  /\ pc = "top" /\ ~Continues
  /\ pc' = "close"
  /\ UNCHANGED <<from, first, target, ec, ca, asks, status, pctx, asked, client>> /\ Quietly

Finish == pc = "close" /\ Quit

Reload ==
  /\ pc = "top" /\ Continues /\ ec.reload
  /\ IF Loads(drawing, target)
     THEN /\ ec' = reload_graph(target)
          /\ asked' = Loaded
          /\ pc' = "setup"
          /\ UNCHANGED <<from, first, target, ca, asks, status, pctx, client>> /\ Quietly
     ELSE Crash

enter_interactive_mode ==
  /\ pc = "top" /\ Continues /\ ~ec.reload /\ mode = "debug"
  /\ ca' = IF ec.caught THEN [ca EXCEPT !.ready_signal = "RESUMEREADY"] ELSE ca
  /\ from' = "loop"
  /\ pc' = IF ca.command = NoCommand THEN "input" ELSE "handle"
  /\ UNCHANGED <<first, target, ec, asks, status, pctx, asked, client>> /\ Quietly

(* start and restart: the first one runs what has just been loaded. *)
Start ==
  /\ pc = "handle" /\ ca.command.op \in {"start", "restart"}
  /\ IF first
     THEN pc' = "execute" /\ UNCHANGED <<ec, asked, first>>
     ELSE IF Loads(drawing, ca.command.target)
     THEN /\ ec' = reload_graph(ca.command.target)
          /\ asked' = Loaded
          /\ pc' = "execute" /\ UNCHANGED first
     ELSE /\ asked' = Served  \* the client is told of the error
          /\ pc' = "top" /\ first' = FALSE /\ UNCHANGED ec
  /\ ca' = [ca EXCEPT !.command = NoCommand]
  /\ UNCHANGED <<from, target, asks, status, pctx, client>> /\ Quietly

(* execute_plan, by whichever loop.  A raise ends a processor that is not  *)
(* debugged; an error that was caught stays with the context.              *)
Execute ==
  /\ pc = "execute"
  /\ LET raised == \E n \in Raising : ~HasInbound(n)
         caught == Raising # {}
     IN IF mode # "debug" /\ (raised \/ PlannedNodes(ec.code, ec.target) = {})
        THEN Crash
        ELSE /\ ec' = [ec EXCEPT !.caught = caught]
             /\ asked' = Served
             /\ pc' = "top" /\ first' = FALSE
             /\ UNCHANGED <<from, target, ca, asks, status, pctx, client>> /\ Quietly

(* A deployed processor that has caught an error goes round without executing. *)
ExecutePlan ==
  /\ pc = "top" /\ Continues /\ ~ec.reload /\ mode # "debug" /\ ~ec.caught
  /\ pc' = "execute"
  /\ UNCHANGED <<from, first, target, ec, ca, asks, status, pctx, asked, client>> /\ Quietly

(* Mutant: the stop is taken for the end of one pass. *)
StopPass ==
  /\ pc = "handle" /\ Is("stop")
  /\ BackTo(FALSE)
  /\ UNCHANGED <<from, target, ec, asks, status, pctx, asked, client>> /\ Quietly

Stop ==
  /\ pc = "handle" /\ Is("stop")
  /\ ec' = [ec EXCEPT !.debug = FALSE]
  /\ BackTo(FALSE)
  /\ UNCHANGED <<from, target, asks, status, pctx, asked, client>> /\ Quietly

(* break and clear touch the debugger's break points only. *)
Info ==
  /\ pc = "handle" /\ ca.command.op \in {"info", "break", "clear"}
  /\ BackTo(FALSE)
  /\ status' = IF Is("info") THEN "READY" ELSE status
  /\ UNCHANGED <<from, target, ec, asks, pctx, asked, client>> /\ Quietly

(* cmd_execute_node knows the graph only on the path that compiles the     *)
(* node; a node that is in the code cache is not compiled again.           *)
Executes(c) ==
  c.recompile /\ (c.target \in code_cache(ec.code) \/ drawing[c.target] \notin {"uncompilable", "failing"})

cmd_execute_node ==
  /\ pc = "handle" /\ Is("execute")
  /\ IF Executes(ca.command)
     THEN /\ ec' = [ec EXCEPT !.reload = TRUE]
          /\ BackTo(FALSE)
          /\ status' = "READY"
          /\ UNCHANGED <<from, target, asks, pctx, asked, client>> /\ Quietly
     ELSE Crash

-----------------------------------------------------------------------------
ReceiveAny  == \E c \in Commands[user] : Receive(c)
PasswordAny == \E c \in Commands[user] : Ask_for_password(c)

Processor ==
  \/ Boot \/ Resume \/ Announce \/ ReceiveAny \/ Reconnect \/ ReconnectFails
  \/ Compile \/ Git \/ PasswordAny \/ RunSetupForAll \/ Terminal \/ TerminalDone
  \/ FirstStop \/ FirstCommand \/ Prepare \/ run_setup_code
  \/ Leave \/ Finish \/ Reload \/ enter_interactive_mode \/ Start \/ Execute
  \/ ExecutePlan \/ Stop \/ Info \/ cmd_execute_node

Next == Edit \/ Send \/ Expire \/ LoseLink \/ _exit_idle \/ TerminalRuns \/ Processor

Spec == Init /\ [][Next]_vars

(* The processor's own steps go on; the client, the network, the idle      *)
(* timeout and the shells owe it nothing.                                  *)
FairSpec == Spec /\ WF_vars(Processor) /\ WF_vars(pc = "terminal" /\ MainStep /\ TerminalRuns)

-----------------------------------------------------------------------------
(* The start a client has asked for last is the one that is executed, with *)
(* its target and with the drawing as it was no earlier than the command,  *)
(* also when set-up restarts the processor in between.                     *)
RunsWhatWasAsked ==
  pc = "execute" /\ mode = "debug" /\ asked.state = "owed" =>
    ec.target = asked.target /\ asked.fresh

(* A start that was accepted is executed, or refused with an error, or the *)
(* processor ends: neither the restart for set-up nor an error forgets it. *)
StartIsServed == asked.state = "owed" ~> asked.state # "owed"

(* A client's stop ends the processor. *)
StopEnds ==
  (pc \in {"first", "handle"} /\ Is("stop")) ~> (pc = "ended" /\ status = "EXITED")
=============================================================================
