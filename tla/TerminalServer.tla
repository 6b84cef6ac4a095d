---------------------------- MODULE TerminalServer ----------------------------
(***************************************************************************)
(* The terminal of a processor (processor.py): a shell behind a pty, a     *)
(* thread that reads its output into a queue, a thread that sends what is  *)
(* in the queue to the client, and the main thread, which starts, stops,   *)
(* feeds and drains it on command.  All of them look at the shell with     *)
(* waitpid(WNOHANG), which tells a shell that has exited only once: it     *)
(* reaps it, and the next call raises ChildProcessError.                   *)
(***************************************************************************)
EXTENDS Naturals, FiniteSets

CONSTANTS
  MaxShells,  \* bound on the shells started
  MaxBuffer   \* maxsize of the output queue

ASSUME TerminalAssumption == MaxShells \in Nat /\ MaxBuffer \in Nat \ {0}

Shells == 1 .. MaxShells
NoShell == 0

VARIABLES
  at,      \* where the main thread is in handle_terminal_cmd
  result,  \* how its last call ended
  server,  \* the shell of _the_global_context["terminal_server"], NoShell if its pid is None
  shell,   \* the process of each shell
  exit,    \* the shells whose exit_event is set
  open,    \* the shells whose master_fd is open
  reader,  \* the reader thread of each shell
  poller,  \* the poller thread of each shell
  buffer   \* how much output waits in each shell's queue

terminal == <<at, result, server, shell, exit, open, reader, poller, buffer>>
threads  == <<exit, open, reader, poller, buffer>>

MainSteps == {"start", "fork", "stop", "close", "check", "sigterm", "second",
              "sigkill", "final", "join", "push", "pull"}

TerminalTypeOK ==
  /\ at \in MainSteps \cup {"idle"}
  /\ result \in {"returned", "raised", "exit200"}
  /\ server \in Shells \cup {NoShell}
  /\ shell \in [Shells -> {"none", "running", "exited", "reaped"}]
  /\ exit \subseteq Shells /\ open \subseteq Shells
  /\ reader \in [Shells -> {"none", "reading", "putting", "ended"}]
  /\ poller \in [Shells -> {"none", "connecting", "top", "look", "get", "ended"}]
  /\ buffer \in [Shells -> 0 .. MaxBuffer]

TerminalInit ==
  /\ at = "idle" /\ result = "returned" /\ server = NoShell
  /\ shell = [s \in Shells |-> "none"]
  /\ exit = {} /\ open = {}
  /\ reader = [s \in Shells |-> "none"]
  /\ poller = [s \in Shells |-> "none"]
  /\ buffer = [s \in Shells |-> 0]

(* What waitpid(WNOHANG) answers about shell s: 0, its pid, an exception. *)
Running(s) == shell[s] = "running"
Reap(s)    == shell[s] = "exited" /\ shell' = [shell EXCEPT ![s] = "reaped"]
NoChild(s) == shell[s] \in {"none", "reaped"}

Return(how) == at' = "idle" /\ result' = how

-----------------------------------------------------------------------------
(* The shell ends when it is told to, when its terminal goes, or by itself. *)
ShellExits(s) ==
  /\ Running(s)
  /\ shell' = [shell EXCEPT ![s] = "exited"]
  /\ UNCHANGED <<at, result, server, threads>>

(* The reader thread: a read and a put, which blocks while the queue is full. *)
Read(s) ==
  /\ reader[s] = "reading" /\ s \notin exit /\ shell[s] \in {"running", "exited"}
  /\ IF buffer[s] < MaxBuffer
     THEN buffer' = [buffer EXCEPT ![s] = @ + 1] /\ UNCHANGED reader
     ELSE reader' = [reader EXCEPT ![s] = "putting"] /\ UNCHANGED buffer
  /\ UNCHANGED <<at, result, server, shell, exit, open, poller>>

Put(s) ==
  /\ reader[s] = "putting" /\ buffer[s] < MaxBuffer
  /\ buffer' = [buffer EXCEPT ![s] = @ + 1]
  /\ reader' = [reader EXCEPT ![s] = "reading"]
  /\ UNCHANGED <<at, result, server, shell, exit, open, poller>>

ReaderEnds(s) ==
  /\ reader[s] = "reading"
  /\ s \in exit \/ s \notin open \/ ~Running(s)
  /\ reader' = [reader EXCEPT ![s] = "ended"]
  /\ UNCHANGED <<at, result, server, shell, exit, open, poller, buffer>>

(* The poller thread connects for itself, then goes round: exit_event and, *)
(* at once, the terminal_server, which is its own as long as the event is  *)
(* not set; waitpid; up to a second for output.                            *)
PollerAt(s, from, to) == poller[s] = from /\ poller' = [poller EXCEPT ![s] = to]

PollerConnects(s) ==
  /\ PollerAt(s, "connecting", "top") \/ PollerAt(s, "connecting", "ended")
  /\ UNCHANGED <<at, result, server, shell, exit, open, reader, buffer>>

PollerEnds(s) ==
  /\ PollerAt(s, "top", "ended")
  /\ s \in exit
  /\ UNCHANGED <<at, result, server, shell, exit, open, reader, buffer>>

PollerTop(s) ==
  /\ PollerAt(s, "top", "look")
  /\ s \notin exit
  /\ UNCHANGED <<at, result, server, shell, exit, open, reader, buffer>>

PollerLooks(s) ==
  /\ \/ PollerAt(s, "look", "get") /\ Running(s) /\ UNCHANGED shell
     \/ PollerAt(s, "look", "ended") /\ Reap(s)
     \/ PollerAt(s, "look", "ended") /\ NoChild(s) /\ UNCHANGED shell
  /\ UNCHANGED <<at, result, server, exit, open, reader, buffer>>

(* Everything in the queue goes into one TERMINAL_PULL, or nothing came. *)
PollerSends(s) ==
  /\ PollerAt(s, "get", "top")
  /\ buffer' = [buffer EXCEPT ![s] = 0]
  /\ UNCHANGED <<at, result, server, shell, exit, open, reader>>

-----------------------------------------------------------------------------
(* The main thread in handle_terminal_cmd. *)
Call(operation) ==
  /\ at = "idle" /\ at' = operation
  /\ UNCHANGED <<result, server, shell, threads>>

(* start_terminal_server: whatever waitpid answers, a pid that is there is *)
(* the end of it.                                                          *)
StartFound ==
  /\ at = "start" /\ server # NoShell
  /\ Reap(server) \/ (shell[server] # "exited" /\ UNCHANGED shell)
  /\ Return("returned")
  /\ UNCHANGED <<server, threads>>

StartNew ==
  /\ at = "start" /\ server = NoShell
  /\ at' = "fork"
  /\ UNCHANGED <<result, server, shell, threads>>

Fork(s) ==
  /\ at = "fork" /\ shell[s] = "none"
  /\ shell' = [shell EXCEPT ![s] = "running"]
  /\ server' = s
  /\ open' = open \cup {s}
  /\ reader' = [reader EXCEPT ![s] = "reading"]
  /\ poller' = [poller EXCEPT ![s] = "connecting"]
  /\ Return("returned")
  /\ UNCHANGED <<exit, buffer>>

ForkFails ==
  /\ at = "fork"
  /\ Return("returned")
  /\ UNCHANGED <<server, shell, threads>>

(* stop_terminal_server. *)
StopNothing ==
  /\ at = "stop" /\ server = NoShell
  /\ Return("returned")
  /\ UNCHANGED <<server, shell, threads>>

StopThreads ==
  /\ at = "stop" /\ server # NoShell
  /\ exit' = exit \cup {server}
  /\ at' = "close"
  /\ UNCHANGED <<result, server, shell, open, reader, poller, buffer>>

Close ==
  /\ at = "close"
  /\ open' = open \ {server}
  /\ at' = "check"
  /\ UNCHANGED <<result, server, shell, exit, reader, poller, buffer>>

(* waitpid before the SIGTERM, and again two seconds later.  The second    *)
(* one reaps a shell that has ended, and the final one then raises.        *)
FirstLook ==
  /\ at = "check"
  /\ \/ Running(server) /\ at' = "sigterm" /\ UNCHANGED shell
     \/ Reap(server) /\ at' = "join"
     \/ NoChild(server) /\ at' = "join" /\ UNCHANGED shell
  /\ UNCHANGED <<result, server, threads>>

SecondLook ==
  /\ at = "second"
  /\ \/ Running(server) /\ at' = "sigkill" /\ UNCHANGED shell
     \/ Reap(server) /\ at' = "final"
     \/ NoChild(server) /\ at' = "join" /\ UNCHANGED shell
  /\ UNCHANGED <<result, server, threads>>

(* os.kill on a shell that the poller has reaped since: the processor ends. *)
Kill ==
  /\ at \in {"sigterm", "sigkill"}
  /\ IF NoChild(server)
     THEN Return("exit200")
     ELSE /\ at' = IF at = "sigterm" THEN "second" ELSE "final"
          /\ UNCHANGED result
  /\ UNCHANGED <<server, shell, threads>>

(* Mutant: the shell counts as stopped after the SIGKILL. *)
FinalLookTrusts ==
  /\ at = "final"
  /\ at' = "join"
  /\ UNCHANGED <<result, server, shell, threads>>

FinalLook ==
  /\ at = "final"
  /\ \/ Running(server) /\ Return("exit200") /\ UNCHANGED shell
     \/ Reap(server) /\ at' = "join" /\ UNCHANGED result
     \/ NoChild(server) /\ at' = "join" /\ UNCHANGED <<result, shell>>
  /\ UNCHANGED <<server, threads>>

(* Both joins time out after two seconds: the threads may live on. *)
Join ==
  /\ at = "join"
  /\ server' = NoShell
  /\ Return("returned")
  /\ UNCHANGED <<shell, threads>>

(* send_to_terminal_server looks at the shell outside its try block. *)
Push ==
  /\ at = "push"
  /\ \/ server = NoShell /\ Return("returned") /\ UNCHANGED shell
     \/ server # NoShell /\ Running(server) /\ Return("returned") /\ UNCHANGED shell
     \/ server # NoShell /\ Reap(server) /\ Return("returned")
     \/ server # NoShell /\ NoChild(server) /\ Return("raised") /\ UNCHANGED shell
  /\ UNCHANGED <<server, threads>>

Pull ==
  /\ at = "pull"
  /\ IF server = NoShell
     THEN UNCHANGED buffer
     ELSE buffer' = [buffer EXCEPT ![server] = 0]
  /\ Return("returned")
  /\ UNCHANGED <<server, shell, exit, open, reader, poller>>

MainStep ==
  \/ StartFound \/ StartNew \/ (\E s \in Shells : Fork(s)) \/ ForkFails
  \/ StopNothing \/ StopThreads \/ Close \/ FirstLook \/ Kill \/ SecondLook
  \/ FinalLook \/ Join \/ Push \/ Pull

ThreadStep ==
  \E s \in Shells :
    \/ ShellExits(s) \/ Read(s) \/ Put(s) \/ ReaderEnds(s)
    \/ PollerConnects(s) \/ PollerEnds(s) \/ PollerTop(s) \/ PollerLooks(s)
    \/ PollerSends(s)

(* The processor ends: its threads with it, and the shells lose their terminal. *)
TerminalDies ==
  /\ at' = "idle" /\ result' = "returned" /\ server' = NoShell
  /\ shell' = [s \in Shells |-> IF shell[s] = "none" THEN "none" ELSE "reaped"]
  /\ exit' = {} /\ open' = {}
  /\ reader' = [s \in Shells |-> IF shell[s] = "none" THEN "none" ELSE "ended"]
  /\ poller' = [s \in Shells |-> IF shell[s] = "none" THEN "none" ELSE "ended"]
  /\ buffer' = [s \in Shells |-> 0]

-----------------------------------------------------------------------------
(* When no terminal command is being handled, the only shell that may run *)
(* is the one the processor knows: stop_terminal_server leaves none behind *)
(* and start_terminal_server starts no second one, whoever reaps a shell.  *)
OneShell ==
  at = "idle" /\ result # "exit200" => \A s \in Shells : Running(s) => s = server
=============================================================================
