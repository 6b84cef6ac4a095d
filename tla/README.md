# TLA+ models of Mainly.AI's runtime

Mainly.AI runs visual programs. A user draws a *project* (a knowledge object,
`ko`) of nodes with Python code; a client asks for a *runtime*; a `localbot`
starts a *processor* process for it; the processor plans the graph and executes
it, and is steered by commands and inputs sent through RabbitMQ and through
tables of a shared MySQL database. All the while other users, and code that the
nodes run, edit the same project through the same database.

This directory holds TLA+ models of that path, from the drawing and the job in
the queue to the element in a node, with TLC configurations that check them on
small instances and TLAPS proofs for every value of the constants.
`PROJECT.json` is the index: components, runs, properties, hazards, theorems,
and for every definition the source lines it translates. Paths below are
relative to the repository.

    tlc -workers 2 -config EngineFields.cfg MCFieldExecution.tla
    tlapm RuntimeManager_proofs.tla

## 1. Inventory

`mirmod/` is `packages/mirmod/mirmod/`, `sp.sql` and `__init__.py` are those of
`packages/miranda_admin_ops/miranda_admin_ops/`.

| component | state | operations | what is hard |
|---|---|---|---|
| **runtime manager** `apps/localbot/localbot/runtime_manager.py` | `runtimes` dictionary, one thread, stop event, process, context directory and `Docker_job` per runtime | `create_runtime`, `destroy_runtime`, `kill_all_runtimes`, `start_runtime_thread` | no locks: the event loop and every runtime thread (its Cleaner callback) call `destroy_runtime` on the same dictionary; the signal handler interrupts the event loop |
| **RabbitMQ event handler** `event_handler.py:67-300` | connection, channel, exit event | `wait_for_event`, `_process_message`, `signal_handler` | acknowledgement after the work: redelivery, lost connections, signals between any two statements |
| polling and notified handlers `event_handler.py:303-620` | event list, back-off counter | `wait_for_event`, `run` | not started by `main()` any more |
| **message queue procedures** `sp.sql`, `__init__.py:940-1070` | table `wob_message_queue` | `get_*` (claim and return a row), clear, send, update, delete | row locks, `SKIP LOCKED`, three statements per claim, commit by the caller |
| **CDC process killer** `apps/cdc/cdc/__main__.py`, with the readers that sleep `mirmod/miranda.py:2190-2347` | event queue, process list | `collect_events`, `process_events`; `get_input_from`, `kill_input_waiter` | wakes sleeping connections by killing them: stale list, gaps in the stream, messages that come before the sleep |
| **execution engine** `mirmod/processor.py:1190-2450` | instruction pointer, iterator stack, cached elements, marks of executed nodes, handler in force | `execute_plan`, `process_edge`, `cleanup_current_iterator`, `restore_execution_context`, `f_next_element`, `f_exit`, `f_restart` | four different jumps reset overlapping parts of the state; fields nest |
| **planner** `mirmod/processor_graph.py`, `processor.py:2786-2836` | node and field objects, a cache of fields | `split_graph`, pairing, contraction, two iterators, `create_execution_plan` | graph algorithms with implicit assumptions on the drawing; two iterators that hand over to each other and rewind; a cache that outlives the drawing |
| **processor command loops** `processor.py:535-733, 2452-3563` | process context on disk, command actor, execution context, code cache | the commands, loading and pruning, set-up with its restart, password prompts, idle exit | the drawing is edited while one is loaded; the process ends and starts again in the middle of a start; commands lost on reconnection |
| **terminal server** `processor.py:3579-3890` | pid, pty, reader and poller thread, output queue | start, stop, push, pull | two threads reap one shell with `waitpid`, which answers once |
| **projects, links, clones** `mirmod/miranda.py`, `orm/` | metadata, tables of each kind, edges with attributes | `create_wob`, `link`, `unlink`, `clone_object`, `clone_project`, `delete_*` | each call is several transactions; a session reads one snapshot until it commits |
| **access control and groups** `sp.sql`, `__init__.py` | `read_acl`, `write_acl`, `execute_acl`, groups and members | grants and revokes that recurse, joining, dropping, teams | recursion over a graph with cycles that changes meanwhile |
| **ORM and code blocks** `orm/base_orm.py`, `workflow_objects/code_block.py` | objects cached for hours, one class-wide list of changed fields, the history of a block | `update`, `write_diff`, `revert`, `update_from_clone`, `rewrite_function` | writes without a version; assignments nobody writes |
| **git** `mirmod/miranda_git.py` | working copy, repository | clone, pull, soft pull, push, recoveries, passwords | every command fails in several ways, each with its recovery |
| credits `sp.sql:1184-1293` | balances | `transact_credits`, grant | balance read without a lock, missing rollback |
| realtime queue `sp.sql:1001-1091` | capped table | insert, read | unlocked count at the limit |
| security context, message bus wrapper, debugger, storage, LLM, controls, installation, migrations | | | mostly I/O; see section 7 |

**How they interact.** A user's client edits the project (create, link, clone)
and writes a job message to the queue of a compute resource group (RabbitMQ;
formerly `wob_message_queue`). The event handler calls `create_runtime` or
`destroy_runtime` and acknowledges. The runtime thread creates a `Docker_job`
row, spawns the processor and watches it; both write the row's
`workflow_state`. The processor loads the drawing, sets its nodes up, plans and
executes it on command, claims inputs from the queue table, and sleeps in the
database until the CDC process kills the sleeping connection. Its nodes may
call the client library themselves, which edits the project it runs.

**What makes each correct.**
Runtime manager: one processor per project, no processor nobody can stop, the
directory of a running processor stays, EXITED is final, a stop kills, a signal
ends localbot. Event handler: no job lost, none carried out again but after a lost connection,
every job is handled. Message queue: a message reaches at most one reader, none is used up
unread, a cleared one is never read; a waiting reader gets its message, with or
without the CDC process, and an event wakes whoever slept for it. Engine: every
node works on the current element, receivers collect exactly one element per
pass and all of an iteration, handlers act on their own field, execution ends
with nothing left open. Planner: the plan of a well-drawn project is complete
and in order, fields are blocks that nest, and the engine can run it; planning
always ends. Processor: what is executed is what was asked for, on the drawing
as it was when it was asked for or later; a start is served, a stop ends it;
there is one shell. Projects: a new object can be read by whoever may read its
project; a clone is whole and apart; what is named as an original is one; calls
end. Objects: a call writes what it assigns and nothing else; the history of a
block leads back from its body. Credits: money is conserved, no overdraft.

The forty hazards in `PROJECT.json` name the lines where these bite.

## 2. Plan

Written, in this order, because a fault there loses or duplicates work:

1. `RuntimeManager`: the concurrent core of localbot; `RuntimeLeases`: what it
   promises a project (refinement).
2. `AtMostOnceQueue`, `WobMessageQueue`: what readers rely on, and how the
   procedures keep it (refinement).
3. `JobDelivery`: jobs over a connection that breaks.
4. `FieldExecution`: the engine.
5. `ProcessorGraph`, `Planner`, `ExecutionPlan`: the graph algorithms, the
   planner that uses them, and the plan, which the planner produces and the
   engine assumes.
6. `TerminalServer`, `Processor`: the process around both.
7. `Workspace`: editing and sharing of projects.
8. `CodeBlocks`: objects in memory against rows, history, git.
9. `JobNotification`: the CDC process with the connections that sleep, composed
   with `WobMessageQueue` (what the woken reader then claims).

Left:

10. What `RuntimeManager` still promises when clients send destroy jobs, as an
    abstract specification; then the entries of `JobDelivery` can be refined by it.
11. `Credits`: grant and transact with callers that commit late; abstract
    specification: a ledger whose transfers are atomic. Realtime queue, identity
    renewal of the security context, dispatches in planner and engine.

## 3. Modules

| module | models |
|---|---|
| `RuntimeManager` / `RuntimeLeases` | `runtime_manager.py` and what the event loops ask of it / what a project gets |
| `WobMessageQueue` / `AtMostOnceQueue` | the queue table with its procedures / what readers rely on |
| `JobDelivery` | `RabbitMQEventHandler` with the broker |
| `JobNotification` | the CDC process and the readers that sleep; EXTENDS `WobMessageQueue` |
| `FieldExecution` | `execute_plan` and everything it calls that moves the instruction pointer or a mark |
| `ProcessorGraph` | the graph algorithms of `processor_graph.py`, as functions |
| `Planner` | `create_execution_plan` and its two iterators; EXTENDS `ProcessorGraph`, `ExecutionPlan` |
| `ExecutionPlan` | what a plan is: what `Planner` is checked to make and `FieldExecution` assumes |
| `TerminalServer` | the shell of a processor with its two threads |
| `Processor` | the main thread of a processor; EXTENDS `TerminalServer` |
| `Workspace` | projects, links, clones, access rights, groups, as transactions of sessions |
| `CodeBlocks` | objects in memory and rows, the history of code, clones and git |
| `MC*` | the finite instances |
| `*_proofs` | the theorems: of `RuntimeManager`, `JobDelivery`, `JobNotification` (with `WobMessageQueue`), `FieldExecution`, `Planner` (with `ProcessorGraph`), `Processor` (with `TerminalServer`), `CodeBlocks`, `Workspace` |

### RuntimeManager

An actor is a runtime thread or `Main`, the event-loop thread. `pc` is where it
stands in `start_runtime_thread` (`prepare`, `create_job`, `spawn`, `wait`,
`reap`, `terminate`, `mark_exited`), in `create_runtime` (`register`) or in `destroy_runtime`
(`check`, `stop`, `rmtree`, `del`): the granularity is one access to shared
state, because nothing is locked. `runtimes`, `stop`, `proc`, `job`, `ctx`, `home` are the
dictionary, the stop events, the processes, the `Docker_job` states, the context
directories and which process still has the directory it was started in (a
removed and re-created directory is not the same one). `Env` says which parts of the environment take part: destroy
jobs, exceptions where the code does not expect them, lost `Docker_job`
updates (the ORM call swallows its error), SIGINT of the polling handler
(`KillAll`), SIGINT of the RabbitMQ handler (`LeaveLoop`). The signal handler
runs on Main's thread, so Main takes no step while it joins (`MainRuns`). It
joins each thread for ten seconds at most, so `JoinAll` may come at any time.
Daemon threads vanish with Main (`DaemonsRun`); their processes do not. Two
exceptions leave a process behind that no stop reaches: one between `Popen` and
the monitoring (`StartupRaises`: the thread is `crashed`), and one in the
monitoring (`MonitorFails`: the thread sends SIGTERM and waits, in `terminate`,
for as long as the process likes).

`RuntimeLeases` says what a project gets: it is leased to one unused thread, which
runs at most one processor, and is free again only when that has ended. In
`RuntimeManager!Leases` the lease of a project is the thread Main has started for
it and not registered yet, otherwise its entry: so `StartThread` grants a lease,
`Register` changes nothing, and the `DeleteEntry` of the Cleaner gives it back. A
thread that fails to start, or ends before it is registered, keeps the project
for good, as in the code.

### WobMessageQueue

A session runs one claim at a time: `Select` is the `SELECT ... FOR UPDATE SKIP
LOCKED` (the table has no index on the searched columns, so it may lock any
rows it scans), `Commit` the `UPDATE` and the caller's commit, `Return` the last
`SELECT` reaching the caller, `Rollback` and `Crash` the reader dying before
or after the commit. The six procedures differ only in the columns they compare:
`Meant` are those each is to compare, `Hidden` those its first `SELECT` leaves out
because a parameter has the column's name, `Returned` those its last one compares
besides the id (two procedures compare the id alone). A row that some reader claims
and will not be given is `Mistaken`. `written`/`prio`/`clock`
carry the order of delivery.

`AtMostOnceQueue` is what a reader relies on: pending, taken, delivered and
dropped messages. The refinement mapping is in `WobMessageQueue!Abstract`.

### JobDelivery

Messages are numbered as published; the broker holds `ready` and `owed`
(delivered, unacknowledged) ones and puts a requeued message back at its place.
`pc` is the event loop's statement. `linger` lets the broker notice a lost
connection later than localbot, which redelivers out of order. `registered`
are the entries of the runtime dictionary: a destroy deletes one while its process
may still be dying, so nothing here says that a project has one processor. `jobs`
remembers for each runtime the message that asked for it; `Started` are these
messages, and those in it twice were repeated. Connecting may fail in two ways: the loop backs
off (`ConnectFails`) or ends (`ConnectRaises`). `Signal` may come between any two steps
and raises, over a lost connection, in the code it interrupts.

### JobNotification

A reader polls, and if it finds nothing runs `SELECT SLEEP()` under an
annotation that says what it waits for (`at`: `poll`, `sleep`, `work`). Its
transactions are the steps of `WobMessageQueue`, one session for each procedure
it asks (`Asks`; `get_input_from` asks two in turn). The kinds differ as their loops
do: a localbot is told its job and works on it, a processor takes a command, an
input waiter returns. `Insert` is a producer's commit, which the collector sees
in the binlog (`Collect`) unless the stream breaks: the new one starts at the
end (`StreamFails`). `TakeEvent`, `Search`, `Kill`, `ProcessingFails`, `Finish` are
`process_events`, statement by statement. A KILL hits its reader wherever that
is by then (`Killed`): asleep, in a transaction that rolls back, between two,
or in a commit that may have happened. `slept` is a history variable for
`EventWakes`.

### FieldExecution

`graph` is a planned project: the plan, the inbound edges of each node, the
members of each field (named by its transmitter), its receiver and its inner
fields. `ip`, `executed`, `active`, `stack`, `iterators`, `cached`, `exhausted`,
`again`, `reinit` and `handler` are `current_node_idx`, `_has_executed`,
`active_iterator_field`, `iterator_stack`, the fields with an iterator, the
fields with a cached element, `field_is_exhausted`, `restart_loop`,
`delayed_reinitialize` and `current_exception_handler`. One step is one pass of
the loop over the plan, one edge, one node or the end of a field. The
values on the edges are abstracted to what the properties tell apart: `stale`
are the nodes whose output is of an earlier element or of no run, `sent` and
`gathered` count elements of the current iteration.

The model was compared with the real `execute_plan`, run on the same graphs with stub
nodes: plan orders, node runs and collected elements agree, the disagreements
of section 5 included.

### Planner

`drawing` is what the user has drawn: nodes and edges in the order networkx
lists them, with their sockets, and which nodes have field attributes, plugged in
or not. `ProcessorGraph` has the functions of
`processor_graph.py` and those of networkx they use (component, successors,
descendants, topological sort by node order, contraction); they depend on the
order of nodes and edges as the code does, so two orders of a drawing are two
instances. `Planner` runs the loop of `create_execution_plan`: the parts of the
drawing in turn, for each the iterator in charge (`itr`) offers a node, the
planner takes it or lets the iterators change places. `dit` and
`fit` are the states of `Default_iterator` and `Field_iterator`, `fields` the
descriptors, `cache` the class-wide `_field_cache`. `Reload` plans an edited drawing with
that cache. An exception of the code is the state `failed`.

`WellDrawn` is the class for which the properties are meant: transmitters and
receivers can be paired in exactly one way such that every node of a field
leads to its receiver, fields nest or are apart, and what feeds a field from
outside is a plain branch of its own or comes in through the transmitter.

### TerminalServer and Processor

`at` is where the main thread is in `handle_terminal_cmd`, `reader` and `poller` where
the two threads of each shell are, `shell` what `waitpid` can tell of its
process: running, exited, reaped. The first call to see `exited` reaps it and
every later one raises; that is the whole difficulty of the component.

`Processor` is `process_knowledge_object`: start-up with its process context,
the loop before the first execution and the one after, every command, loading
(`reload_graph`) and pruning of the drawing, set-up with its restart (exit code
200, `Boot` is the next process), execution in the three modes, and the end.
`ca` is the command actor, `queue` and `link` its RabbitMQ side. The client
edits (`Edit`) and sends (`Send`) at any time, and loses commands by the idle
exit or the connection. A node's code is abstracted to how it fails: `fine`,
`raises`, `uncompilable`, `failing` in its set-up, `disabled`. `asked` is a
history variable: the start the client has asked for last and whether what is
loaded is at least as new.

### Workspace

`db` is the database: rows with owner and origin, edges with connectors,
`read_acl`, `write_acl`, groups, members. A session has a connection of its user;
`snap` is the snapshot its open transaction reads, taken by the first read and
dropped by the next commit (MySQL's default REPEATABLE READ). A call of the
client library is a list of transactions (`todo`), one step each, and sessions
interleave between them. The operations are in groups: `Editing`, `Creation`,
`Cloning`, `Sharing`, `Grouping`, `Deletion`. `since` is a history variable: the
rights, edges, connectors and blocks a session has found in every database since
the first commit of a call that the properties follow.

### CodeBlocks

`row` are the tables, `cached` the objects each process has loaded, `changed`
the list of changed fields, which is an attribute of the base class and so one
for all objects of a process. `update` writes the fields in the list from the
object it is called on and empties the list, or fails and keeps it. The history
of a block is a sequence of differences, each abstracted to the pair of bodies
it leads between, the newest first, at most `Kept`. `patch` gives the old body back
only over the differences in `Restores`: the code glues what follows the last line of a
difference to it (section 5). Of the others the result is some mixture (`Garbled`), and
the block is `loose`, as is one whose body was assigned without recording it. Git commands are `pulled` (where the
command is), `remote` (what is in the repository) and `tree` (what the working
copy has and the repository has not); each may fail in every mode of
`git_command_failures`, and `FailureModeHandler` takes the recovery of the code.

## 4. Runs

| run | instance | shows |
|---|---|---|
| RuntimeGraceful | 2 projects, 3 threads, exceptions, both signals | one processor per project, its directory intact, EXITED last; refinement: the dictionary is a table of leases |
| RuntimeForced | 1 project, 2 threads, destroy jobs, exceptions, lost updates, SIGINT | a stop kills, unless monitoring has failed; a signal ends localbot |
| QueueSound | 3 messages, a processor and `get_message`'s procedure, 2 priorities | at most once, only a hidden column uses a message up, cleared never read, refinement |
| JobDelivered | 2 projects, 3 messages, 2 losses, slow broker, signal, exceptions | no job lost; at most one create repeated for each lost connection; every job is handled |
| JobReconnect | 1 project, 2 messages, 1 loss | *violation*: the loop ends instead of reconnecting |
| NotificationSound | 2 localbots, or a processor, or a node that waits for an input; CDC with 2 failures | no KILL lets a message reach two readers; no message waits for ever; an event wakes every sleeper |
| EngineFields | 8 projects, up to 12 nodes, 3 levels, 2 elements, 1 restart | all properties of the engine |
| PlannerSound | all well-drawn projects of 4 nodes and 7 larger ones, in 2 orders; 7 sketches; 2 edits | any plan: no repetition, parts without fields whole and in order; of a well-drawn project: complete, in order, fields nest and are blocks, the engine can run it; planning ends |
| ProcessorCommands | 3 nodes, 2 kinds of client, 3 modes | what is asked for is run, starts are served, a stop ends, one shell |
| WorkspaceShared | 2 users in 16 pairs of call sequences on a project of 6 objects | new objects are shared, clones whole and apart, originals are originals, calls end |
| CodeBlocksSound | 2 processes, 3 objects, 3 calls, refused updates | histories coherent, only named fields written |
| CodeBlocksRename | the same, 4 calls, no refusals | *violation*: rewriting a function undoes a rename |

**Bounds.** Three threads are two overlapping generations of one project and
one of another: every conflict over a dictionary entry is between two threads and
`Main`. Two threads of one project suffice for the liveness run, where destroy
jobs multiply the states. Three messages and two readers let one reader
overtake, skip a locked row and meet a clear at once; one of them has a hidden
column and a message that it claims and does not return; two priorities make the
order of delivery differ from the order of sending. Three jobs are
create, destroy and one more, of the same or the other project; two losses allow a
redelivered message to be redelivered again. In the engine, two elements
distinguish first, later and none; three levels of nesting are the least in which the
field above and the field below a field differ; one restart per execution is
enough to meet every later jump. `Publish` (`MaxMessages`), `LoseLink`, `ConnectFails`
(`MaxLosses`), `Remaining` (`MaxElements`) and `RestartField` (`MaxRestarts`)
carry these bounds in their guards.

In the planner four nodes are one nested or two adjacent fields; what needs
more is drawn by hand in `MCPlanner`: fields in a row, nested three deep, side
by side, with init branches, with branches within, in several parts, with a
cycle. The seven sketches are not well drawn; of them it is only checked that
planning ends. In the processor a node that feeds another and one of its own
give three targets with three different sets of nodes; one command at a time
waits (`MaxQueue`): a later one is met by the same code in the next round.
`MaxAsks` messages are read while a password is asked for, `MaxShells`
shells are started by one process: the second is the first that can meet
something left over. `MaxBuffer` 1 makes the reader thread block. In
the workspace each scenario was chosen for a conflict: every call against one
that changes what it reads between two of its transactions. Two differences
(`Kept`; the code keeps five) are the fewest that have a link between them; one
of the possible differences is in `Restores`, so reverts of both kinds are made;
`MaxCalls` 3 is an edit by each process and one of a stale copy. In
`JobNotification`, `MaxEvents` 1 lets the collector wait for the killer and
`MaxFailures` 2 lets a repeated processing fail again.

Symmetry (`Threads`, `Kos`, the two equal messages) is used in runs
without liveness only.

**Where a run may stop.** `CHECK_DEADLOCK FALSE` stands where the system ends:
localbot is gone and every thread of the bound was used; every row has been read
or deleted; the messages and losses of the bound are spent; the plan is made;
the processor has exited; all calls have returned. The engine run does
check for deadlock: `Stopped` is the only state without a step.

**Fairness.** `RuntimeForced`: threads that can run do (`Fairness`), Main
included; processors and clients owe nothing. A stop therefore
kills a processor that never exits by itself. The end of localbot takes the
threads along, which `StopKills` allows for, as it does for a thread that has
crashed behind `Popen` or waits for a processor after its monitoring failed.
`ShutdownCompletes` needs none of that, since a join gives up after ten seconds. `JobDelivered`: the event loop's thread
runs, and the broker gives up a dead connection at some time (TCP keep-alive,
AMQP heartbeat). `HandledEventually` excepts a localbot that has stopped
consuming. `NotificationSound`: readers run and their SLEEP ends, as it is
given a number of seconds; the CDC process owes nothing, so messages arrive
without it. `EngineFields`: one coroutine executes the plan and node code
returns. `PlannerSound`: one thread plans. `ProcessorCommands`: the main thread
goes on, also within the terminal; the client, the network, the idle timeout,
the other threads and the shells owe nothing. `WorkspaceShared`: each session's
own calls go on; no order among the sessions is assumed, and waits for row locks
end.

## 5. What the code does otherwise than it says, and what was observed

Two runs show a disagreement with a text of the repository.

- **JobReconnect.** `basic_nack` on a closed channel raises an exception that is
  not an `AMQPConnectionError`; the loop breaks for good.
- **CodeBlocksRename.** `clone_object` leaves `name` in the list of changed
  fields all objects share; the next `rewrite_function`, which says it rewrites
  the body, also writes the name its process has cached.

Found true of the code while modelling, and not made into runs:

- **Runtimes.** `destroy_runtime` deletes the entry while the process has up to
  a second to die: after a destroy two processors of a project may run
  (`runtime_manager.py:403`), against the comment "there can only be one running
  project per wob_id". A thread whose target raises before its `try` stays
  registered for ever (`:46`); a signal under RabbitMQ leaves the processors
  running (`event_handler.py:281-285`), and one that arrives between `:242` and
  `:258` is forgotten; a runtime that is started and not yet registered
  survives `kill_all_runtimes` (`runtime_manager.py:351`). An exception between
`Popen` and the `try` (`:176-228`) leaves a processor that nobody watches. When
monitoring fails, the thread sends SIGTERM and waits without a limit and
without SIGKILL (`:319-324`).
- **Event handler.** An error while connecting that is no `AMQPConnectionError` (a
  name that does not resolve, a queue declared otherwise) ends the loop
  (`event_handler.py:272`).
- **Queue.** In three procedures a parameter is named like a column, and MySQL
  compares it with itself (`sp.sql:405`, `:439`, `:473`). The row claimed may be
  for another target or object; the final `SELECT` returns nothing, and the row stays
  marked as read, so its reader never gets it. `get_message`, which is to "Fetch the next
  message for a subject" (`miranda.py:2281`), calls one of the three.
- **Notifications.** A row with a NULL `wob_id`, which the table allows, makes
  `process_events` spin. It searches for `WAITING_FOR_EVENT` only, so
  `get_input_from` is woken by `kill_input_waiter` and timeouts alone. After its
  last timeout `get_input_from` does not look again, though a message may have
  come. Any processor command it reads ends the wait and is used up. The wake-up
  counter of `NotifiedEventHandler` is never reset: it exits after 200 quiet
  timeouts in total. A KILL during a commit loses the message. A new stream
  starts at the end of the binlog.
- **Engine.** Closing a pass of an inner field empties the cached element of
  *all* fields (`processor.py:1797-1798`, `:1927`): a node fed by the outer
  element and by an inner field sees the next outer element (excluded by
  `FedBeforeInner`). An inner field whose transmitter is plugged straight into its
  receiver uses up an outer element on an `f_restart`, and its receiver is passed
  by in the second pass of the outer field (`InnerHasNodes`). Two edges into one
  collecting socket count as two collections (`CollectsOnce`). A receiver's other
  sources are not looked at when its field is closed without an element
  (`:1359`; `OthersSettled`). The pending reinitialisation unmarks the receiver of `current_node.field()`, not of the
  field that is pending: of three transmitters in a row, the middle collector
  is skipped. The outer field's handler is lost after an inner field (`:1333`:
  saved and never restored). A node that initialises an inner field stands in the
  block of the outer one: it runs under the outer handler, and stays
  un-run when the outer field is empty.
- **Planner.** `_field_cache` (`processor_graph.py:1131`) lives as long as the
  process: after an edit that takes a node out of a field, the cached field still has it, and
  the assertion at `:1493` may fail.
- **Processor.** A first command `info`, `clear`, `break` or `execute` runs the
  whole graph first. `retry`, `continue` and `reload` are rejected by
  `validate()`. `RESUMEREADY` is announced after a restart without an error.
  `cmd_execute_node` without recompilation uses a name that is unbound and ends
  the process; with it, it runs stale cached code. A deployed processor that
  has caught an error spins without executing. A node that cannot be compiled is
  a `KeyError` in planning. `Ask_for_password` swallows commands. A failed
  reconnection ends the process. A package installation that fails is printed,
  and set-up is recorded as done.
- **Terminal.** `start_terminal_server` finds an old shell that has exited and
  returns without starting one; a push after the poller has reaped the shell ends
  the processor with code 1, an `os.kill` after it with 200.
- **Workspace.** `unlink` deletes a connector that another session has made
  since its snapshot. `link` returns `False`, which reads as success, when the
  receiver is taken. `copy_edges` copies no edges between code blocks. A block
  created while its project is being shared is not shared. The recursion of a
  revoke forgets the privileges and `preview`: below the first object it
  revokes reading only, and for real.
  `admin_grant_workflow_to_team` writes execute rights to `read_acl`, the revoke
  looks in `execute_acl`. `copy_ko_acls` skips the writers when there are no
  readers. Dropping a group leaves its rights. The check and the write of an
  invitation are separate transactions.
- **Objects.** `write_diff` joins the lines of a difference without a newline
  behind the last (`code_block.py:214-221`), so a revert glues what follows it in the
  body to that line (`:81-83`): what
  "Revert the code block to a previous version" (`:312`) says holds of changes in the last
  lines of a body only, and of them only if the old body ended in a newline (where the
  difference ends in an added line) or did not (otherwise). After the recovery of a missing ssh key every further failure
  of a clone is a `TypeError`, since the recovery functions do not take `use_ssh`
  (`failure_mode.py:43`, `miranda_git.py:89-96`). A soft pull leaves `body` in the shared list; the processor's
  READY report happens to empty it. A pull of a renamed block finds no file and
  writes an empty body. `ssh_key_missing` and `no_upstream` leave the git fields
  in the list; an invalid key message takes the recovery of a missing key. A
  rejected push counts as success. Two recoveries recurse without bound. A
  subscriber's history does not lead back from its body once it is edited. The
  list survives an update that fails.

## 6. Proofs

Everything below holds for any value of the constants that satisfies the named
`ASSUME`s of the modules, which TLC evaluates; further assumptions of a theorem
are in its statement and named here. A type invariant is proved in every module
with theorems, and is then no longer checked by a run.

**Runtimes and jobs.**

- `RuntimeManager_proofs!TypeCorrect`, `ExitedStays`. `ExitedIsFinal` alone is
  not inductive: a step may start a process or write a report. `ExitInv` adds
  that a thread has a process only while it waits for, reaps or terminates it, or
  after it has crashed (`Watched`), and that threads are in their own phases (`ThreadPhases`).
- `GracefulSafety`, and its parts `NothingOrphaned` and `ContextStays`: without
  destroy jobs, `OneProcessorPerKo`, `NoOrphan` and `ContextIntact`. The argument
  is ownership: a thread not yet finished has the entry of its project or is
  about to be registered (`Owns`), Main registers only where there is no entry
  (`MainCreates`), and only such a thread has a process and a directory
  (`Housed`). The assumption is necessary: after a destroy the entry is gone and
  the process is not.
- `RuntimesAreLeased`: without destroy jobs `RuntimeManager` implements
  `RuntimeLeases`, step by step. It needs to know of a thread with a given `pc` what
  became of its process (`Phased`) and that an entry is of a thread of that project
  that was started (`Entered`); that an unfinished thread holds the lease of its
  project (`ActiveHolds`) follows from `Owns`. With destroy jobs it fails:
  a thread that is stopped before it has spawned gives its lease back unused.
- `JobDelivery_proofs!NeverLost` (a message to be acknowledged was acted upon),
  `RepeatsAreLosses` (`OneRepeatPerLoss`), and `DestroyStands`, which assumes a broker that requeues
  at once: then the queue is handled in the order of its numbers (`Order`), and
  a destroy is younger than the create of its job. Repeats are counted by `Repeats`:
  the creates already carried out that the broker has or will get back (`Again`), the
  one being carried out once more (`Retrying`) and those that were are no more than the
  connections lost, as only one message at a time is unacknowledged on a connection
  that is up.

**The queue and its sleepers.**

- `JobNotification_proofs!HandedOutOnce`, `ClearIsFinal`: from `QueueInv`: locks
  are disjoint, and a chosen row is locked and unread until the commit
  (`Locking`); a committed row is held by one session and has not been returned
  (`Holding`); what was never marked was never handed out (`Untouched`).
- `NothingUsedUp` (`ReadIsDelivered`), for any callers, those with a hidden column
  included: a reader claims every row it has chosen, so it returns it unless the row is
  `Mistaken` (`Accounted`). What it does not say is that there are no such rows: there
  are (section 5).
- `ImplementsQueue`: `Spec => Abstract!QSpec`. Each action is shown to move one
  message (or, for a clear, a set) between the four places, or none.
- `KilledOnce`, `KilledClearIsFinal`, `NotificationImplementsQueue`: the same with readers that are
  killed at any statement. `StepMoves` shows that every step of the composition
  is a step of the queue, a stutter or an `Interrupted` session: a lock set
  dropped before the commit, or an answer lost behind it. `QueueInv` and
  the mapping are preserved by those too; an answer lost is a drop in the abstract
  queue. `ReadIsDelivered` is not among these: a KILL during the commit loses a message
  although its reader lives.
- `EventWakesAll`: an event leaves `process_events` when everyone who slept for
  its row has been woken. The invariant `Wakes`: a sleeper of the event in
  hand is in the list of the search under way, or will be found by a search
  still to come.

**The engine**, for any set of plans that `IsPlanned` describes and any number of
elements and restarts:

- `FieldExecution_proofs!TypeCorrect`: jumps index the plan by the active field,
  so the proof needs that a field is open whenever a handler is in force or a
  receiver has asked for the next pass (`Open`).
- `NothingStale` (`TransmitsFresh`), `AllCollected` (`CollectsEverything`), `ReceiversRunLast`
  (`CollectorRunsLast`), `HandlerOfTheField` (`HandlerInScope`) and
  `FinishesClean` (`CleanFinish`), of plans that are `Apart`. One inductive
  invariant, `EngineCore`, carries all five, because none is inductive without
  the others: the open fields are a chain in the nesting, outer to inner, and
  the iterator stack is that chain (`Stacked`); the instruction pointer stands in
  the block of each, and all but the innermost have an element (`Placed`); a field
  without an element has run none of its nodes (`Waiting`); a field that execution
  has come past waits for its reinitialisation (`Renewal`); at most one
  element of each is on its way, and it is cached or an inner field has used
  it (`Counted`; of plans that are `Apart`, which excludes the drawings in which the
  closing of an inner field takes the element away too soon, so `OneElementPerPass` is
  checked and not listed as proved); a node passed by is fresh unless its block was left without an
  element (`Fresh`); `Pausing`, `Closing` and `Received` say what a receiver and
  the nodes in front of it have done so far. The five properties are then read off in the
  states they speak of. `IsPlanned` and `Apart` are used as geometry: blocks nest
  (`BlocksNest`), so two open fields are comparable; sources come first and no
  block leaks (`SourcesFirst`); the first node of a field is fed by its
  transmitter (`FieldsStart`), so that a field asks for an element before it
  runs anything.
- `Apart` is necessary. Section 5 names for each of its parts a drawing without
  it, which the planner accepts and the engine runs wrong. The eight
  projects of `EngineFields` are `Apart` (`MCApart`).

**The planner**, for any drawings and edits that `IsDrawing` describes (what networkx
holds: nodes and edges listed once, edges between nodes), well drawn or not.

- `Planner_proofs!NothingIsPlannedTwice` (`PlannedOnce`), `PlainPartsAreInOrder`
  (`PlainInOrder`), together `EveryPlanIsSafe` (`EveryPlan`). Neither is inductive: the
  plans grow by what two iterators offered, from a sort of a contracted graph, a
  search and imported branches. The invariant of `PartsArePlannedWhole` says that the
  parts still to do are whole and share no node with the plans (`PartsInv`); that
  the part in hand has no cycle, has a field and is none of the others (`PartInv`);
  that everything the default iterator, the field iterator with its stack and
  pairs, the plan and the descriptors hold is of that part (`DefaultInv`, `FieldInv`,
  `PlanInv`, `FieldsInv`; the default iterator's list also has the negative ids of
  contracted fields); and that the parts without fields are behind
  all their sources (`PlainInv`).
- `PlannerTypeCorrect` rests on the same invariant: the model's sequences and sets
  hold nodes of the drawing, contracted fields only in the default iterator's list,
  and a pair never outlives the cached field it is taken from.
- It needs lemmas on what the graph functions return for every graph: what the
  closure of a set reaches (`ClosureIs`), that parts are equal or apart and no edge
  leads out of one (`ComponentIs`), that Kahn's queue lists nodes once and sources
  first (`SortIs`), all of them where there is no cycle (`SortsAll`), that contraction,
  pairing and the search of a field stay within their graph (`ContractIs`,
  `PairsIs`, `WalkIs`), that planning with init nodes adds each once (`PlanIs`).
- The recursive functions are handled without an operator as a parameter: a predicate
  is a set, a definition by recursion a step function over a ranked set
  (`Ranked`, `Recursion`, `RankedRecursion`), a fold an iteration over the first n
  members of a list (`Folding`, `FoldKeeps`).

**The processor.**

- `Processor_proofs!OneShellRuns` (`OneShell`): a shell that runs is the one
  the processor knows (`OneServer`), whatever the reader and poller threads do.
- `RunsTheStart` (`RunsWhatWasAsked`): from the start command to its execution
  the target passes through `ca`, `target`, `ec` and, over a restart for set-up,
  the process context on disk and back (`Owed`); `Loops` says which command
  loop a state belongs to. `TypeCorrect` needs that a password is asked for only
  while messages may come (`Asking`). The name "no", which the process context
  uses for "run nothing", must be no target; the client library never uses it.

**Objects in memory.**

- `CodeBlocks_proofs!OnlyNamedFields` (`NamedOnly`): every step leaves the rows
  alone or is one `update` (`UpdatedBy`), which writes the fields in the list; the list is empty between calls unless an update failed before
  (`ListEmpty`).
- `HistoriesCoherent`: `HistoryCoherent` is not inductive, as a call writes the
  history from its copy: `CopiesCoherent` says the same of rows, copies and
  snapshots, of blocks that were never reverted over a difference that is not
  `Restorable`, and `BothListed` that a history is never in the list without its body.
- `LastInChain` and `Reverted` are recursive functions over numbers. What the
  proofs need of them is shown by induction over sets of numbers
  (`Induction`, from the least member of a set), which needs no operator as a
  parameter; `IsFiniteSet(Blocks)` bounds the first.

**Projects**, for any users and groups, any database that is `Numbered` and has
`Originals`, and any lists of calls a client may make.

- `Workspace_proofs!OriginalsNamed` (`OriginalsOnly`) is not inductive: a clone is
  made from a row read in an old snapshot, or carried by a transaction still to
  come. `WorkspaceInv` says of every such row what it says of its origin is still
  true (`Known`), which needs that ids are given once; `KnownKept` is the lemma
  that no deletion and no insertion changes that. `TypeCorrect` follows from the
  same invariant.
- Every action is shown to have an `Effect`: the rows shrink or grow by one
  (`Evolves`), the snapshot is dropped, taken or kept (`SnapMoves`), and the call
  goes on with sound transactions or ends (`GoesOn`). `EffectKeeps` then shows
  the invariant once, and not for forty actions.
- `RightsCopied` (`NewObjectShared`): what `since` remembers is in every snapshot
  that `create_wob` still reads (`SinceInv`), because its first commit left it with
  a fresh one, and so in the rights it puts off to insert (`RightsInv`).
- `ClonesAreComplete` (`CloneComplete`, the first part of `CloneFaithful`): while
  `clone_project` is under way, every block that has been in the project all the
  time has been copied, is among the blocks to copy, or will be found by a search
  still to come (`Course`, `CompleteInv`). A search finds it because it reads a
  snapshot of the time `since` remembers; a list of found blocks is the whole set
  (`EachAll`, over the ranks of the ids). Copies are apart because ids are
  given once, and the id of the clone is a project's and so no block's.

- `ClonesAreFaithful` (`CloneFaithful`, the rest of it): a call that is not over
  first copies blocks, each linked to the clone in the transaction behind, and
  collects the edges between them (`Searching`), then copies these edges, each
  with its connectors in the transaction behind (`Linking`). `LinkInv` says of
  every such state which copies are linked, which edges between originals are copied,
  collected or still to be found with an end, and that the connectors a call carries
  are ones the original had, and all it had all the time (`Faithful`). `Inside` and
  `Mine` keep the clone to itself: no edge leads into it from elsewhere, and its
  objects are its user's, so linking them is not refused. The theorem assumes
  `LeftAlone`: no other session writes to the rows and edges of a clone while it is
  being made. Its ids are told to nobody before the call returns; a call
  that guesses them, or deletes what its group may write, is not excluded by the
  code, and then the clone is not faithful. In the scenarios of `WorkspaceShared` it
  holds (`LeftAlone` under PROPERTIES there is found true). `Joined`, that edges are between
  rows, is the foreign keys of `edges.sql`; that no edge waits for an id
  still to be given (`EndsGiven`) follows from it.

**Model-checked only.** Liveness
(`StopKills`, `ShutdownCompletes`, `HandledEventually`, `Received`, `Terminates`,
`PlanningEnds`, `StartIsServed`, `StopEnds`, `CallsEnd`): TLAPS does not reason
about fairness here. `OneElementPerPass`. What the planner does with fields (`CompletePlan`, `FieldsNest`,
`FieldIsBlock`, `FitsEngine`): the proofs show that its functions stay within a part and
how they order parts without fields, not which pairs the rounds of pairing find,
that a contracted sort is in order behind a field, or that a search from a
transmitter meets the receiver last. That its plans are those the engine is proved of is
therefore checked (`FitsEngine`) and not proved.

## 7. Limits

Left out of the modelled components:

- engine: dispatches, `cmd_execute_node`, node code that calls
  `stop_current_iterator` itself. Nodes without inbound edges are taken to be
  synchronous: a handler's course taken while such a node executes is half applied (`processor.py:1976`).
  A receiver with an edge from such a node is not among the checked projects:
  behind an empty field the node never runs (`:1359`). A node that takes a plain
  edge from the field's transmitter behind the collect edge sees the next element.
  Branches of the code that cannot be reached (`"E_SKIP_NODE"`, the restoration
  of a receiver after an ordinary run, the early return of the restoration) have
  no action; `CollectorRunsLast` and `CollectsEverything` state why.
- queue: `get_message_queue` only reads; the deletion of rows read more than a
  day ago touches no row a reader can be given. The order in which readers get
  messages is no property: `SKIP LOCKED` lets a later message overtake.
- event handler: the build action (no runtime manager here has `build_image`)
  and messages without effect count as handled; heartbeats of `last_active` are
  reports.
- notifications: how many quiet wake-ups make a reader give up (10, 20 or 200) is
  abstracted to `GiveUp` at any of them. `MaxFailures` bounds the errors of
  `process_events`: a killer that always fails could kill a reader at each poll,
  and nothing would arrive. Rows that no present reader asks for are not inserted.
  `find_long_running_queries` and `kill_processes` run once, before the first event;
  `kill_all_sleepers` searches texts no reader writes. The older copy
  `miranda_admin_ops/cdc.py` of the same program is not modelled.
- planner: dispatches (two `Transmitter_field` sockets on a node) and fields in
  init branches. Where contraction makes a cycle networkx raises; the model sorts what it
  can and goes on, so its plans include all that the code returns. The near successors of the default iterator are modelled, but
  on no checked drawing did they change a plan. Functions nobody calls.
- processor: stepping in the debugger (nothing constructs `MirandaDebugger`;
  `dbug_execute` is never called), `CommandActorDbg`, `CommandActor` (its loop is
  in `JobNotification`), `prune_graph_for_deployment` and the server nodes, whose
  calls are commented out. Break points do not outlive a restart for set-up.
  The poller's look at its exit event and at the dictionary is one step, and so is a
  reload. With two or more transmitters in a drawing `calculate_start_nodes` may
  give a plan that is not whole; `Processor` has no fields, `Planner` no targets.
  The supervisor that starts a process again after exit code 200 is not in the
  repository.
- workspace: the documents `update_api` writes, tags, secrets, storage, realtime
  messages, `execute_acl` and preview (no view modelled here asks for them);
  `copy_acls`, which never commits and which nothing calls. Calls that cannot succeed with these arguments
  are not made (`unlink` with one object is an `AttributeError`).
- code blocks: JSON documents of one object (`get_attribute`, `set_attribute`,
  `update_api`), `diff_from_clone`, which makes a text. Merging in git, its
  configuration, and the recovery that installs git, whose text never appears.
  `HistoryCoherent` excepts blocks whose body was assigned without recording it or
  garbled by a revert (`loose`), and subscribers.

Not modelled, and why: configuration and reports, storage and LLM calls are I/O
whose state nobody reads back; controls are value classes; migrations and
installation are run once by an administrator; the security context is a cache of
connections for thirty seconds. Credits, the realtime queue and dispatches are on the
plan above.
