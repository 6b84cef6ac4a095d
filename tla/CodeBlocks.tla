------------------------------ MODULE CodeBlocks ------------------------------
(***************************************************************************)
(* Workflow objects in memory and in the database: orm/base_orm.py with    *)
(* the procedures it generates, the history and the clones of              *)
(* workflow_objects/code_block.py, and miranda_git.py.                     *)
(*                                                                         *)
(* A session is one Python process with one connection.  Objects note the  *)
(* names of the fields that are assigned to in a list, and update writes   *)
(* those fields of the object and empties the list.  The list is an        *)
(* attribute of the base class: all objects of a process share it.         *)
(***************************************************************************)
EXTENDS Naturals, Sequences, FiniteSets

CONSTANTS
  Sessions, Blocks,
  Job,           \* the one of the Blocks that is a Docker_job
  Reads, Writes, \* the blocks whose views, and update procedures, a session passes
  Original,      \* cloned_from_id, None if there is none
  Repositories,  \* blocks with a git repository: the others are not pulled or pushed
  Subscribes,    \* blocks whose update_policy is SUBSCRIBE
  Names, Bodies, \* what a client assigns
  First,         \* the name and the body of a new block
  Restores,      \* the pairs <<old, new>> whose difference gives the old body back
  Kept,          \* the versions a block keeps: 5
  MaxCalls,      \* bound: the calls of all sessions
  Failing,       \* whether the database may refuse an update
  None, Empty, Garbled

ASSUME CodeBlocksAssumption ==
  /\ IsFiniteSet(Blocks) /\ Job \in Blocks /\ Subscribes \subseteq Blocks \ {Job} /\ Repositories \subseteq Blocks \ {Job}
  /\ Reads \in [Sessions -> SUBSET Blocks] /\ Writes \in [Sessions -> SUBSET Blocks]
  /\ Original \in [Blocks -> Blocks \cup {None}]
  /\ \A b \in Subscribes : Original[b] # None
  /\ First.name \in Names /\ First.body # None /\ None \notin Bodies
  /\ Restores \subseteq (Bodies \cup {First.body}) \X Bodies
  /\ Kept \in Nat \ {0} /\ MaxCalls \in Nat /\ Failing \in BOOLEAN

VARIABLES
  row,     \* the tables: metadata and code
  snap,    \* what the transaction of a session reads, None between transactions
  cached,  \* the objects a session has loaded
  pulled,  \* the object a git command of the session works on, None if none runs
  changed, \* the list of the base class
  remote,  \* the repository of a block: a file for each name
  tree,    \* what a session has in its working copy and not in the repository
  calls,
  (* For the properties: *)
  last,    \* which fields of which block the last call means to write
  leftover,\* sessions with assignments that nothing has written
  loose    \* blocks whose body was ever assigned without recording it, or
           \* that a revert has garbled

vars == <<row, snap, cached, pulled, changed, remote, tree, calls, last, leftover, loose>>

Fields == {"name", "body", "diffs", "git", "git_branch", "deleted"}
Columns(b) == IF b = Job THEN {"name", "body", "deleted"} ELSE Fields

(* What a body, a file or the state of a job can be. *)
Contents == Bodies \cup {First.body, None, Empty, Garbled}

Diff == [from : Contents, to : Contents]

Object ==
  [name : Names, body : Contents, diffs : Seq(Diff),
   git : {"ssh", "https"}, git_branch : {"branch", "main"}, deleted : BOOLEAN]

Command ==
  [wob : Repositories, mode : {"soft", "pull", "push"}, ob : Object, use_ssh : BOOLEAN,
   at : {"clone", "files", "reply"}]

TypeOK ==
  /\ row \in [Blocks -> Object]
  /\ snap \in [Sessions -> [Blocks -> Object] \cup {None}]
  /\ cached \in [Sessions -> [Blocks -> Object \cup {None}]]
  /\ pulled \in [Sessions -> Command \cup {None}]
  /\ changed \in [Sessions -> SUBSET Fields]
  /\ remote \in [Repositories -> [Names -> Contents]]
  /\ tree \in [Sessions -> [Repositories -> [Names -> Contents]]]
  /\ calls \in 0 .. MaxCalls
  /\ last \in [by : Sessions \cup {None}, wob : Blocks \cup {None}, names : SUBSET Fields]
  /\ leftover \subseteq Sessions /\ loose \subseteq Blocks

-----------------------------------------------------------------------------
(* Reading. *)
View(s) == IF snap[s] = None THEN row ELSE snap[s]

(* The view of the jobs asks for write access. *)
create_view(s) ==
  {b \in Blocks : ~View(s)[b].deleted /\ b \in IF b = Job THEN Writes[s] ELSE Reads[s]}

Sees(s) == snap' = [snap EXCEPT ![s] = View(s)]

Counted == calls < MaxCalls /\ calls' = calls + 1
Called(s) == Counted /\ pulled[s] = None
Meaning(s, b, names) == last' = [by |-> s, wob |-> b, names |-> names]
Aside(s) == Meaning(s, None, {})

Loaded(s, body) ==
  [b \in Blocks |-> IF b \in create_view(s) THEN [View(s)[b] EXCEPT !.body = body[b]] ELSE None]

find_objects_by_metadata_ids(s) ==
  /\ Called(s)
  /\ cached' = [cached EXCEPT ![s] = Loaded(s, [b \in Blocks |-> View(s)[b].body])]
  /\ Sees(s) /\ Aside(s)
  /\ UNCHANGED <<row, pulled, changed, remote, tree, leftover, loose>>

(* The graph shows a subscriber with the body of its original. *)
create_graph(s) ==
  /\ Called(s)
  /\ LET Resolved == [b \in Blocks |-> IF b \notin Subscribes THEN View(s)[b].body
                        ELSE IF Original[b] \in create_view(s) THEN View(s)[Original[b]].body
                        ELSE None]
     IN cached' = [cached EXCEPT ![s] = Loaded(s, Resolved)]
  /\ Sees(s) /\ Aside(s)
  /\ UNCHANGED <<row, pulled, changed, remote, tree, leftover, loose>>

-----------------------------------------------------------------------------
(* Writing. *)

(* A value that is None is not written; here only a body can be. *)
Given(ob) == {f \in Fields : f = "body" => ob.body # None}

(* Mutant: every column is written. *)
sp_update_all(s, b, ob, names) ==
  [row EXCEPT ![b] = [f \in Fields |->
     IF f \in Columns(b) \cap Given(ob) /\ b \in Writes[s] THEN ob[f] ELSE @[f]]]

(* sp_update_<table>: without access the statement matches no row. *)
sp_update(s, b, ob, names) ==
  [row EXCEPT ![b] = [f \in Fields |->
     IF f \in names \cap Given(ob) /\ b \in Writes[s] THEN ob[f] ELSE @[f]]]

(* update of an object some of whose fields have just been assigned.  An   *)
(* exception is printed and leaves the list as it is.                      *)
update(s, b, ob, names) ==
  LET list == changed[s] \cup names
  IN /\ Meaning(s, b, names)
     /\ \/ /\ row' = sp_update(s, b, ob, list \cap Columns(b))
           /\ changed' = [changed EXCEPT ![s] = {}]
           /\ leftover' = leftover \ {s}
           /\ snap' = [snap EXCEPT ![s] = None]
        \/ /\ Failing
           /\ changed' = [changed EXCEPT ![s] = list]
           /\ leftover' = leftover \cup {s}
           /\ UNCHANGED <<row, snap>>

(* Bodies that are written without a record in the history. *)
Unrecorded == loose' = loose \cup {b \in Blocks : row'[b].body # row[b].body}

Assign(s, b, ob, names) ==
  /\ Called(s)
  /\ cached' = [cached EXCEPT ![s][b] = ob]
  /\ update(s, b, ob, names)
  /\ UNCHANGED <<pulled, remote, tree>>

Code(s) == {b \in Blocks \ {Job} : cached[s][b] # None}

set_name(s, b, name) ==
  /\ b \in Code(s)
  /\ Assign(s, b, [cached[s][b] EXCEPT !.name = name], {"name"})
  /\ Unrecorded

rewrite_function(s, b, body) ==
  /\ b \in Code(s)
  /\ Assign(s, b, [cached[s][b] EXCEPT !.body = body], {"body"})
  /\ loose' = loose \cup {b}

(* The state of a job stands in the place of a body. *)
Ready == First.body

send_response(s, state) ==
  /\ cached[s][Job] # None
  /\ Assign(s, Job, [cached[s][Job] EXCEPT !.body = state], {"body"})
  /\ Unrecorded

delete_object(s, b) ==
  /\ b \in Code(s)
  /\ Assign(s, b, [cached[s][b] EXCEPT !.deleted = TRUE], {"deleted"})
  /\ Unrecorded

(* The name goes to a copy that is inserted as a new object, and stays     *)
(* in the list; the new row is not followed.                               *)
clone_object(s, b) ==
  /\ Called(s) /\ b \in Code(s)
  /\ changed' = [changed EXCEPT ![s] = @ \cup {"name"}]
  /\ leftover' = leftover \cup {s}
  /\ snap' = [snap EXCEPT ![s] = row]
  /\ Aside(s)
  /\ UNCHANGED <<row, cached, pulled, remote, tree, loose>>

-----------------------------------------------------------------------------
(* The history of a block: the newest difference first. *)
Difference(old, new) == [from |-> old, to |-> new]
FirstN(seq, n) == SubSeq(seq, 1, IF Len(seq) < n THEN Len(seq) ELSE n)

(* Mutant: at the wrong end. *)
write_diff_last(ob, new) ==
  IF ob.body = None THEN [ob EXCEPT !.diffs = <<>>]
  ELSE [ob EXCEPT !.diffs = FirstN(@ \o <<Difference(ob.body, new)>>, Kept)]

write_diff(ob, new) ==
  IF ob.body = None THEN [ob EXCEPT !.diffs = <<>>]
  ELSE [ob EXCEPT !.diffs = FirstN(<<Difference(ob.body, new)>> \o @, Kept)]

(* The last line of a difference is kept without its newline, so what      *)
(* follows it in the body is glued to it.  The old body comes back only if *)
(* a line was added there (and the old body ends with a newline), or if    *)
(* nothing follows (and it does not).                                      *)
Restorable(diff) == diff.from = diff.to \/ <<diff.from, diff.to>> \in Restores

(* Hunks are applied by line numbers; on another text the result is some   *)
(* mixture of both.  An empty difference changes nothing.                  *)
patch(body, diff) ==
  IF diff.from = diff.to THEN body
  ELSE IF body = diff.to /\ Restorable(diff) THEN diff.from ELSE Garbled

(* A client that edits as the comments of code_block.py have it.           *)
Edit(s, b, body) ==
  /\ b \in Code(s)
  /\ Assign(s, b, [write_diff(cached[s][b], body) EXCEPT !.body = body], {"body", "diffs"})
  /\ UNCHANGED loose

Reverted(ob, steps) ==
  LET new_code[i \in 0 .. steps] ==
        IF i = 0 THEN ob.body ELSE patch(new_code[i - 1], ob.diffs[i])
  IN [ob EXCEPT !.body = new_code[steps], !.diffs = SubSeq(@, steps + 1, Len(@))]

revert(s, b, steps) ==
  /\ b \in Code(s) /\ Len(cached[s][b].diffs) >= steps /\ cached[s][b].body # None
  /\ Assign(s, b, Reverted(cached[s][b], steps), {"body", "diffs"})
  /\ loose' = IF \A i \in 1 .. steps : Restorable(cached[s][b].diffs[i]) THEN loose
              ELSE loose \cup {b}

(* get_clone_metadata_id *)
LastInChain(s, b) ==
  LET chain[i \in 0 .. Cardinality(Blocks)] ==
        IF i = 0 THEN Original[b]
        ELSE LET o == Original[chain[i - 1]]
             IN IF o # None /\ o \in create_view(s) THEN o ELSE chain[i - 1]
  IN chain[Cardinality(Blocks)]

update_from_clone(s, b, last_in_chain) ==
  /\ b \in Code(s) /\ Original[b] # None /\ Original[b] \in create_view(s)
  /\ LET o == IF last_in_chain THEN LastInChain(s, b) ELSE Original[b]
     IN Assign(s, b, [cached[s][b] EXCEPT !.body = View(s)[o].body], {"body"})
  /\ loose' = loose \cup {b}

-----------------------------------------------------------------------------
(* Git commands, of a processor: a block is loaded and its repository      *)
(* cloned or pulled, which takes long and may fail.                        *)
git_clone(s, b, mode) ==
  /\ Called(s) /\ cached[s][Job] # None /\ b \in create_view(s) \cap Repositories
  /\ pulled' = [pulled EXCEPT ![s] = [wob |-> b, mode |-> mode, ob |-> View(s)[b],
                                     use_ssh |-> TRUE, at |-> "clone"]]
  /\ Sees(s) /\ Aside(s)
  /\ UNCHANGED <<row, cached, changed, remote, tree, leftover, loose>>

Running(s, at) == pulled[s] # None /\ pulled[s].at = at
On(s, at) == pulled' = [pulled EXCEPT ![s].at = at]

(* How git may fail.  Of what pexpect raises only a network error has a    *)
(* recovery.                                                               *)
identify_git_failure_mode == {"network error", "unknown"}

git_command_failures ==
  {"repo_not_found", "no_upstream_branch", "git_timeout", "git_error"} \cup identify_git_failure_mode

(* The key in the secrets may be missing, or no JSON. *)
git_clone_failures(s) ==
  git_command_failures \cup {"git_checkout_error"} \cup (IF pulled[s].use_ssh THEN {"ssh key"} ELSE {})

(* Recoveries change the block and start again; all other modes raise.     *)
(* After the recovery from a missing key, which passes on use_ssh, there   *)
(* is no other: the handler hands use_ssh to functions that do not take    *)
(* it, and they raise before they do anything.                             *)
GitFailureRecovery(p, mode) ==
  CASE p.use_ssh /\ mode = "ssh key" ->
         [p EXCEPT !.at = "clone", !.use_ssh = FALSE, !.ob.git = "https"]
    [] p.use_ssh /\ mode = "no_upstream_branch" ->
         [p EXCEPT !.at = "clone", !.ob.git_branch = "main"]
    [] p.use_ssh /\ mode = "network error" -> [p EXCEPT !.at = "clone"]
    [] OTHER                               -> [p EXCEPT !.at = "reply"]

Reassigned(p, mode) ==
  IF ~p.use_ssh THEN {}
  ELSE IF mode = "no_upstream_branch" THEN {"git_branch"}
  ELSE IF mode = "ssh key" /\ p.ob.git = "ssh" THEN {"git"} ELSE {}

FailureModeHandler(s, mode) ==
  LET names == Reassigned(pulled[s], mode)
  IN /\ pulled' = [pulled EXCEPT ![s] = GitFailureRecovery(@, mode)]
     /\ changed' = [changed EXCEPT ![s] = @ \cup names]
     /\ leftover' = IF names = {} THEN leftover ELSE leftover \cup {s}
     /\ Aside(s)
     /\ UNCHANGED <<row, cached, remote, calls, loose>>

(* Setting git up closes the connection; the key is read on a new one.     *)
SetUp(s) == snap' = [snap EXCEPT ![s] = IF pulled[s].use_ssh THEN row ELSE None]

git_clone_impl(s) ==
  /\ Running(s, "clone")
  /\ On(s, "files") /\ SetUp(s) /\ Aside(s)
  /\ UNCHANGED <<row, cached, changed, remote, tree, calls, leftover, loose>>

CloneFails(s) ==
  /\ Running(s, "clone")
  /\ \E mode \in git_clone_failures(s) : FailureModeHandler(s, mode)
  /\ SetUp(s) /\ UNCHANGED tree

(* Asking for a password announces the processor as ready. *)
Ask_for_password(s) ==
  /\ Running(s, "clone") \/ Running(s, "files")
  /\ Counted
  /\ update(s, Job, [cached[s][Job] EXCEPT !.body = Ready], {"body"})
  /\ cached' = [cached EXCEPT ![s][Job].body = Ready]
  /\ UNCHANGED <<pulled, remote, tree>> /\ Unrecorded

File(s) == <<pulled[s].wob, pulled[s].ob.name>>
Pushing(s) == Running(s, "files") /\ pulled[s].mode = "push"
WriteFile(s, code) == tree' = [tree EXCEPT ![s][File(s)[1]][File(s)[2]] = code]

git_push(s) ==
  /\ Pushing(s)
  /\ remote' = [remote EXCEPT ![File(s)[1]][File(s)[2]] = pulled[s].ob.body]
  /\ WriteFile(s, None) /\ On(s, "reply") /\ Aside(s)
  /\ UNCHANGED <<row, snap, cached, changed, calls, leftover, loose>>

(* The file stays in the working copy.  A push that is rejected exits with *)
(* 1, which git_command takes for success.                                 *)
PushFails(s) ==
  /\ Pushing(s) /\ WriteFile(s, pulled[s].ob.body) /\ UNCHANGED snap
  /\ \/ \E mode \in git_command_failures : FailureModeHandler(s, mode)
     \/ /\ On(s, "reply") /\ Aside(s)
        /\ UNCHANGED <<row, cached, changed, remote, calls, leftover, loose>>

(* The file is looked for under the name of the block; without a file the  *)
(* code is empty. *)
Found(s) ==
  LET own == tree[s][File(s)[1]][File(s)[2]]
  IN IF own # None THEN own ELSE remote[File(s)[1]][File(s)[2]]

git_soft_pull(s) ==
  /\ Running(s, "files") /\ pulled[s].mode = "soft"
  /\ On(s, "reply")
  /\ changed' = [changed EXCEPT ![s] = @ \cup {"body"}]
  /\ leftover' = leftover \cup {s}
  /\ Aside(s)
  /\ UNCHANGED <<row, snap, cached, remote, tree, calls, loose>>

(* The body is replaced before the difference is taken. *)
git_pull(s) ==
  /\ Running(s, "files") /\ pulled[s].mode = "pull"
  /\ LET ob == [pulled[s].ob EXCEPT !.body = Found(s)]
     IN update(s, pulled[s].wob, write_diff(ob, Found(s)), {"body", "diffs"})
  /\ On(s, "reply")
  /\ loose' = loose \cup {pulled[s].wob}
  /\ UNCHANGED <<cached, remote, tree, calls>>

(* The processor says it is ready again, which writes what is left over.   *)
Reply(s) ==
  /\ Running(s, "reply")
  /\ pulled' = [pulled EXCEPT ![s] = None]
  /\ update(s, Job, [cached[s][Job] EXCEPT !.body = Ready], {"body"})
  /\ cached' = [cached EXCEPT ![s][Job].body = Ready]
  /\ UNCHANGED <<remote, tree, calls>> /\ Unrecorded

-----------------------------------------------------------------------------
(* Every session has loaded what it may read.                              *)
Init ==
  /\ row = [b \in Blocks |-> [name |-> First.name, body |-> First.body, diffs |-> <<>>,
                              git |-> "ssh", git_branch |-> "branch", deleted |-> FALSE]]
  /\ snap = [s \in Sessions |-> None]
  /\ cached = [s \in Sessions |->
                 [b \in Blocks |-> IF b \in create_view(s) THEN row[b] ELSE None]]
  /\ pulled = [s \in Sessions |-> None]
  /\ changed = [s \in Sessions |-> {}]
  /\ remote = [b \in Repositories |-> [n \in Names |-> Empty]]
  /\ tree = [s \in Sessions |-> [b \in Repositories |-> [n \in Names |-> None]]]
  /\ calls = 0
  /\ last = [by |-> None, wob |-> None, names |-> {}]
  /\ leftover = {} /\ loose = {}

Loading(s) == find_objects_by_metadata_ids(s) \/ create_graph(s)

Writing(s) ==
  \E b \in Blocks :
    \/ \E n \in Names : set_name(s, b, n)
    \/ \E c \in Bodies : rewrite_function(s, b, c) \/ Edit(s, b, c)
    \/ delete_object(s, b) \/ clone_object(s, b)
    \/ \E n \in 1 .. Kept : revert(s, b, n)
    \/ \E chain \in BOOLEAN : update_from_clone(s, b, chain)

Git(s) ==
  \/ \E b \in Repositories, mode \in {"soft", "pull", "push"} : git_clone(s, b, mode)
  \/ git_clone_impl(s) \/ CloneFails(s) \/ Ask_for_password(s)
  \/ git_push(s) \/ PushFails(s) \/ git_soft_pull(s) \/ git_pull(s) \/ Reply(s)

Next ==
  \E s \in Sessions :
    Loading(s) \/ Writing(s) \/ (\E c \in Bodies : send_response(s, c)) \/ Git(s)

Spec == Init /\ [][Next]_vars

-----------------------------------------------------------------------------
(* However the calls of several processes mix, and however old the objects *)
(* are they call: a process with nothing left over changes no field of a   *)
(* row but those its call assigns, so edits of other fields and of other   *)
(* blocks survive.                                                         *)
NamedOnly ==
  [][\A b \in Blocks, f \in Fields : row'[b][f] # row[b][f] =>
       (b = last'.wob /\ f \in last'.names) \/ last'.by \in leftover]_vars

(* The history of a block leads back from its body: every difference ends  *)
(* where the newer one begins, although sessions edit and revert copies    *)
(* of different age and updates fail in between.  It holds of blocks that  *)
(* run their own code, are edited with write_diff and were never reverted  *)
(* over a difference that does not give the old body back.                 *)
HistoryCoherent ==
  \A b \in Blocks \ (Subscribes \cup {Job} \cup loose) :
    LET diffs == row[b].diffs
    IN /\ diffs # <<>> => diffs[1].to = row[b].body
       /\ \A i \in 2 .. Len(diffs) : diffs[i].to = diffs[i - 1].from

(* "Rewrite the body of a function in the current wob code" and "Update    *)
(* the body of the code block" (miranda.py:2091, code_block.py:260):       *)
(* nothing else than the body is written.                                  *)
BodyOnly ==
  [][last'.names = {"body"} =>
       \A b \in Blocks, f \in Fields :
         row'[b][f] # row[b][f] => b = last'.wob /\ f = "body"]_vars
=============================================================================
