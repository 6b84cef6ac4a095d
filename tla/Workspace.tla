------------------------------ MODULE Workspace ------------------------------
(***************************************************************************)
(* Projects as the client library edits them: packages/mirmod/mirmod/      *)
(* miranda.py and orm/ with the procedures and views of setup/db/sp.sql,   *)
(* and the sharing of projects in miranda_admin_ops.                       *)
(*                                                                         *)
(* Every session works on one connection.  MySQL's default isolation gives *)
(* a transaction the snapshot of its first read, and no call that only     *)
(* reads ends its transaction: the session goes on reading that snapshot   *)
(* until it commits something.  Procedures check access in the snapshot    *)
(* and write to the rows as they are.  A call is a list of transactions    *)
(* still to do, and sessions interleave between them.                      *)
(***************************************************************************)
EXTENDS Naturals, FiniteSets, SequencesExt

CONSTANTS
  Users, Groups,
  Sessions,
  User,        \* whose connection a session has
  Wires,       \* transmitters and receivers whose datatypes agree
  Passthroughs,\* transmitters that pass on what they receive
  Scenarios,   \* what is in the database, and what every session calls
  None

VARIABLES
  db,     \* metadata with the tables of its kinds, edges, read_acl, write_acl,
          \* user_groups and group_maps
  snap,   \* what the transaction of a session reads, None between transactions
  calls,  \* what a session is still to call
  todo,   \* the transactions of its call that are still to come
  mem,    \* what it remembers: its last object, the copies of a project
  since   \* for the properties: what it has found ever since its call began

state == <<db, snap, calls, todo, mem>>
vars == <<state, since>>

Kinds == {"KNOWLEDGE_OBJECT", "CODE", "DOCKER_JOB"}
NoOrigin == 0
NoAttributes == <<>>

Metadata == [owner : Users, kind : Kinds, deleted : BOOLEAN, cloned_from : Nat, subscribes : BOOLEAN]

IsDatabase(d) ==
  d = [wob |-> d.wob, edge |-> d.edge, read |-> d.read, write |-> d.write,
       group |-> d.group, member |-> d.member, last |-> d.last]

(* Ids are given once, in order. *)
Numbered(d) ==
  /\ d.last \in Nat /\ DOMAIN d.wob \subseteq 1 .. d.last
  /\ \A m \in DOMAIN d.wob : d.wob[m] \in Metadata /\ d.wob[m].cloned_from <= d.last

(* What a code block names as its original is no clone. *)
Originals(d) ==
  \A m \in DOMAIN d.wob :
    LET o == d.wob[m].cloned_from
    IN d.wob[m].kind = "CODE" /\ o \in DOMAIN d.wob => d.wob[o].cloned_from = NoOrigin

(* The foreign keys of the edges. *)
Joined(d) == \A e \in DOMAIN d.edge : {e[1], e[2]} \subseteq DOMAIN d.wob

(* What a client may call; the other transactions follow from these. *)
ClientCalls ==
  {"create_wob", "link", "unlink", "clean_edges", "clone_object", "clone_project", "make_single_user",
   "grant", "revoke", "team_grant", "team_revoke", "create_group", "create_organization", "assign",
   "remove", "drop", "update", "delete", "delete_project", "soft_delete", "look"}

ASSUME WorkspaceAssumption ==
  /\ User \in [Sessions -> Users]
  /\ \A c \in Scenarios :
       /\ IsDatabase(c.db) /\ Numbered(c.db) /\ Joined(c.db) /\ Originals(c.db)
       /\ c.calls \in [Sessions -> Seq(UNION {Range(c.calls[s]) : s \in Sessions})]
       /\ \A s \in Sessions : \A call \in Range(c.calls[s]) :
            /\ "do" \in DOMAIN call /\ call.do \in ClientCalls
            /\ call.do = "clone_object" => call.subscribes \in BOOLEAN

Put(f, x, v) == [y \in DOMAIN f \cup {x} |-> IF y = x THEN v ELSE f[y]]

-----------------------------------------------------------------------------
(* The views: what a user finds in a database d. *)
Holds(d, u, m, acl) ==
  /\ m \in DOMAIN d.wob
  /\ d.wob[m].owner = u \/ \E g \in Groups : <<g, u>> \in d.member /\ <<g, m>> \in acl

Reads(d, u, m)  == Holds(d, u, m, d.read)
Writes(d, u, m) == Holds(d, u, m, d.write)

v_metadata(d, u, m) == m \in DOMAIN d.wob /\ ~d.wob[m].deleted /\ Reads(d, u, m)
v_edges(d, u, e)    == e \in DOMAIN d.edge /\ v_metadata(d, u, e[1])

(* The view of a table; that of the jobs asks for write access. *)
Loads(d, u, m) ==
  /\ m \in DOMAIN d.wob /\ ~d.wob[m].deleted
  /\ IF d.wob[m].kind = "DOCKER_JOB" THEN Writes(d, u, m) ELSE Reads(d, u, m)

Found(d, u, m) == v_metadata(d, u, m) /\ Loads(d, u, m)
IsProject(d, m) == d.wob[m].kind = "KNOWLEDGE_OBJECT"

find_wob_by_outbound_edges(d, u, m) ==
  {n \in DOMAIN d.wob : v_edges(d, u, <<m, n>>) /\ Found(d, u, n)}

find_wob_by_inbound_edges(d, u, m) ==
  {n \in DOMAIN d.wob : v_edges(d, u, <<n, m>>) /\ Found(d, u, n) /\ ~IsProject(d, n)}

find_children(d, u, m) == {n \in find_wob_by_outbound_edges(d, u, m) : ~IsProject(d, n)}

get_edge_attribute(d, u, e) == IF v_edges(d, u, e) THEN d.edge[e] ELSE NoAttributes

(* sp_delete_graph_by_mid and its soft twin go six edges deep. *)
Descendants(d, u, m) ==
  LET edges == {e \in DOMAIN d.edge : v_edges(d, u, e)}
      Below(n) == {e[2] : e \in {f \in edges : f[1] = n}}
      hood[i \in 0 .. 6] == IF i = 0 THEN {m} ELSE UNION {Below(n) : n \in hood[i - 1]}
  IN UNION {hood[i] : i \in 1 .. 6}

(* The rows that go with metadata when it is deleted. *)
Without(d, gone) ==
  [d EXCEPT !.wob   = Restrict(@, DOMAIN @ \ gone),
            !.edge  = Restrict(@, {e \in DOMAIN @ : e[1] \notin gone /\ e[2] \notin gone}),
            !.read  = {a \in @ : a[2] \notin gone},
            !.write = {a \in @ : a[2] \notin gone}]

Deleted(d, ms) ==
  [d EXCEPT !.wob = [m \in DOMAIN @ |-> IF m \in ms THEN [@[m] EXCEPT !.deleted = TRUE] ELSE @[m]]]

Inserted(row) == [db EXCEPT !.wob = Put(@, db.last + 1, row), !.last = @ + 1]

-----------------------------------------------------------------------------
(* Sessions and their transactions. *)
View(s) == IF snap[s] = None THEN db ELSE snap[s]
Sees(s) == snap' = [snap EXCEPT ![s] = View(s)] /\ UNCHANGED db
Commits(s, d) == db' = d /\ snap' = [snap EXCEPT ![s] = None]
CommitsAndLoads(s, d) == db' = d /\ snap' = [snap EXCEPT ![s] = d]
Rests == UNCHANGED <<db, snap>>

At(s, op) == todo[s] # <<>> /\ Head(todo[s]).do = op
Op(s)     == Head(todo[s])
Then(s, ops) == todo' = [todo EXCEPT ![s] = ops \o Tail(@)] /\ UNCHANGED calls
Raise(s)     == todo' = [todo EXCEPT ![s] = <<>>] /\ UNCHANGED calls

(* What follows from each row; the tables give them in the order of ids. *)
Each(for) ==
  LET ids == DOMAIN for
      Nth(i) == CHOOSE m \in ids : Cardinality({n \in ids : n <= m}) = i
  IN [i \in 1 .. Cardinality(ids) |-> for[Nth(i)]]

Call(s) ==
  /\ todo[s] = <<>> /\ calls[s] # <<>>
  /\ todo' = [todo EXCEPT ![s] = <<Head(calls[s])>>]
  /\ calls' = [calls EXCEPT ![s] = Tail(@)]
  /\ Rests /\ UNCHANGED mem

(* The result is looked at by the properties only. *)
Return(s) ==
  /\ At(s, "cloned")
  /\ Then(s, <<>>) /\ Rests /\ UNCHANGED mem

(* create_graph and every other call that only reads. *)
Look(s) ==
  /\ At(s, "look")
  /\ Sees(s) /\ Then(s, <<>>) /\ UNCHANGED mem

-----------------------------------------------------------------------------
(* create_wob: create, link, copy_ko_acls. *)
New(s, kind, origin, subscribes) ==
  [owner |-> User[s], kind |-> kind, deleted |-> FALSE, cloned_from |-> origin,
   subscribes |-> subscribes]

AddEdge(from, to) == [do |-> "add_edge", edge |-> <<from, to>>]

create_wob(s) ==
  /\ At(s, "create_wob")
  /\ LET n  == db.last + 1
         ko == Op(s).ko
     IN /\ CommitsAndLoads(s, Inserted(New(s, "CODE", NoOrigin, FALSE)))
        /\ Then(s, <<AddEdge(ko, n), [do |-> "copy_acls", ko |-> ko, wob |-> n]>>)
        /\ mem' = [mem EXCEPT ![s].made = n]

(* _add_edge, as link calls it: a failure is logged and swallowed. *)
sp_link(s) ==
  /\ At(s, "add_edge")
  /\ LET e == Op(s).edge
         d == View(s)
     IN IF /\ Reads(d, User[s], e[1]) /\ Reads(d, User[s], e[2])
           /\ {e[1], e[2]} \subseteq DOMAIN db.wob /\ e \notin DOMAIN db.edge
        THEN Commits(s, [db EXCEPT !.edge = Put(@, e, NoAttributes)])
        ELSE Sees(s)
  /\ Then(s, <<>>) /\ UNCHANGED mem

(* Mutant: the tables are swapped. *)
copy_ko_acls_swapped(s) ==
  /\ At(s, "copy_acls")
  /\ LET Of(acl) == {g \in Groups : <<g, User[s]>> \in View(s).member /\ <<g, Op(s).ko>> \in acl}
     IN Then(s, <<[do |-> "insert_acls", ko |-> Op(s).ko, wob |-> Op(s).wob,
                   read |-> Of(View(s).write), write |-> Of(View(s).read)]>>)
  /\ Sees(s) /\ UNCHANGED mem

(* Groups are those of the user; without readers the writers are skipped. *)
copy_ko_acls(s) ==
  /\ At(s, "copy_acls")
  /\ LET Of(acl) == {g \in Groups : <<g, User[s]>> \in View(s).member /\ <<g, Op(s).ko>> \in acl}
         readers == Of(View(s).read)
         writers == IF readers = {} THEN {} ELSE Of(View(s).write)
     IN Then(s, <<[do |-> "insert_acls", ko |-> Op(s).ko, wob |-> Op(s).wob,
                   read |-> readers, write |-> writers]>>)
  /\ Sees(s) /\ UNCHANGED mem

insert_acls(s) ==
  /\ At(s, "insert_acls")
  /\ LET m == Op(s).wob
     IN Commits(s, IF m \in DOMAIN db.wob
                   THEN [db EXCEPT !.read  = @ \cup (Op(s).read \X {m}),
                                   !.write = @ \cup (Op(s).write \X {m})]
                   ELSE db)
  /\ Then(s, <<>>) /\ UNCHANGED mem

-----------------------------------------------------------------------------
(* link and unlink.  An edge maps receivers to transmitters; the API that  *)
(* update_api writes is abstracted.                                        *)
SetAttributes(e, attr) == [do |-> "set_attr", edge |-> e, attr |-> attr]

(* Between code blocks the connectors must exist and agree. *)
Verified(s, e) ==
  \/ \E m \in {e[1], e[2]} : View(s).wob[m].kind # "CODE"
  \/ Op(s).wire \in Wires

link(s) ==
  /\ At(s, "link")
  /\ LET e == Op(s).edge
     IN IF ~(Loads(View(s), User[s], e[1]) /\ Loads(View(s), User[s], e[2]))
        THEN Raise(s)
        ELSE Then(s, IF ~Verified(s, e) THEN <<>>
                     ELSE IF Op(s).wire = None \/ IsProject(View(s), e[1])
                     THEN <<AddEdge(e[1], e[2])>>
                     ELSE <<AddEdge(e[1], e[2]), [Op(s) EXCEPT !.do = "update_edge"]>>)
  /\ Sees(s) /\ UNCHANGED mem

_update_api(e, tr) ==
  LET Of(m) == [do |-> "update_api", wob |-> m]
  IN IF tr \in Passthroughs THEN <<Of(e[1])>> ELSE <<Of(e[1]), Of(e[2])>>

(* A receiver keeps the transmitter it has, and link says it succeeded. *)
_update_edge(s) ==
  /\ At(s, "update_edge")
  /\ LET e    == Op(s).edge
         attr == get_edge_attribute(View(s), User[s], e)
         tr   == Op(s).wire[1]
         rc   == Op(s).wire[2]
     IN Then(s, IF rc \notin DOMAIN attr \/ attr[rc] = tr
                THEN <<SetAttributes(e, Put(attr, rc, tr))>> \o _update_api(e, tr)
                ELSE <<>>)
  /\ Sees(s) /\ UNCHANGED mem

(* An object that is not found has the id -1. *)
_load_from_id(s, m) == IF Loads(View(s), User[s], m) THEN m ELSE None

update_api(s) ==
  /\ At(s, "update_api")
  /\ IF _load_from_id(s, Op(s).wob) # None
     THEN Commits(s, db) /\ Then(s, <<>>)
     ELSE Sees(s) /\ Raise(s)
  /\ UNCHANGED mem

MayEdit(s, e) == Reads(View(s), User[s], e[1]) /\ Reads(View(s), User[s], e[2])

set_edge_attribute(s) ==
  /\ At(s, "set_attr")
  /\ LET e == Op(s).edge
     IN IF MayEdit(s, e)
        THEN /\ Commits(s, IF e \in DOMAIN db.edge
                           THEN [db EXCEPT !.edge[e] = Op(s).attr] ELSE db)
             /\ Then(s, <<>>)
        ELSE Sees(s) /\ Raise(s)
  /\ UNCHANGED mem

(* The last connector that goes takes the edge with it. *)
unlink(s) ==
  /\ At(s, "unlink")
  /\ LET e    == Op(s).edge
         attr == get_edge_attribute(View(s), User[s], e)
         tr   == Op(s).wire[1]
         rc   == Op(s).wire[2]
         left == {r \in DOMAIN attr : r # rc \/ attr[r] # tr}
         gone == <<[do |-> "del_edge", edge |-> e, wire |-> Op(s).wire]>>
     IN IF Op(s).wire = None THEN Then(s, gone) /\ Rests
        ELSE /\ Sees(s)
             /\ Then(s, IF rc \notin DOMAIN attr THEN <<>>
                        ELSE IF left = {} THEN gone
                        ELSE <<SetAttributes(e, Restrict(attr, left))>>)
  /\ UNCHANGED mem

delete_edge(s) ==
  /\ At(s, "del_edge")
  /\ LET e == Op(s).edge
     IN IF MayEdit(s, e)
        THEN Commits(s, [db EXCEPT !.edge = Restrict(@, DOMAIN @ \ {e})]) /\ Then(s, <<>>)
        ELSE Sees(s) /\ Raise(s)
  /\ UNCHANGED mem

(* clean_edges takes the connectors from the edges into a block that the   *)
(* block does not have; all edges are read first.                          *)
clean_edges(s) ==
  /\ At(s, "clean_edges")
  /\ LET In(m) == <<m, Op(s).wob>>
         dirty == {m \in DOMAIN db.wob : /\ In(m) \in DOMAIN db.edge
                                         /\ ~(DOMAIN db.edge[In(m)] \subseteq Op(s).has)}
     IN Then(s, Each([m \in dirty |->
                       [do |-> "clean_edge", edge |-> In(m),
                        attr |-> Restrict(db.edge[In(m)], DOMAIN db.edge[In(m)] \cap Op(s).has)]]))
  /\ Rests /\ UNCHANGED mem

CleanEdge(s) ==
  /\ At(s, "clean_edge")
  /\ LET e == Op(s).edge
     IN db' = IF e \notin DOMAIN db.edge THEN db
              ELSE IF DOMAIN Op(s).attr = {}
              THEN [db EXCEPT !.edge = Restrict(@, DOMAIN @ \ {e})]
              ELSE [db EXCEPT !.edge[e] = Op(s).attr]
  /\ Then(s, <<>>) /\ UNCHANGED <<snap, mem>>

-----------------------------------------------------------------------------
(* clone_object: code blocks name the original, everything else what it    *)
(* was copied from.                                                        *)
ClonedFrom(row, m) ==
  IF row.subscribes \/ (row.kind = "CODE" /\ row.cloned_from # NoOrigin)
  THEN row.cloned_from ELSE m

(* Mutant: a clone names what it was copied from. *)
CloneOfParent(s, row, m, subscribes) ==
  New(s, row.kind, m, subscribes)

Clone(s, row, m, subscribes) ==
  New(s, row.kind, ClonedFrom(row, m), subscribes)

clone_object(s) ==
  /\ At(s, "clone_object")
  /\ LET m == IF Op(s).wob = None THEN mem[s].made ELSE Op(s).wob
         d == View(s)
     IN IF Loads(d, User[s], m)
        THEN /\ CommitsAndLoads(s, Inserted(Clone(s, d.wob[m], m, Op(s).subscribes)))
             /\ mem' = [mem EXCEPT ![s].made = db.last + 1]
             /\ Then(s, <<>>)
        ELSE Sees(s) /\ Raise(s) /\ UNCHANGED mem

(* The project gets a clone of the block in its place. *)
make_single_user(s) ==
  /\ At(s, "make_single_user")
  /\ LET e == Op(s).edge
     IN Then(s, <<[do |-> "clone_object", wob |-> e[2], subscribes |-> FALSE],
                  [do |-> "copy_links", wob |-> e[2], inbound |-> TRUE],
                  [do |-> "del_edge", edge |-> e, wire |-> None],
                  [do |-> "link_made", ko |-> e[1]]>>)
  /\ Rests /\ UNCHANGED mem

(* The links of the original, without connectors: between code blocks link *)
(* refuses them.                                                           *)
CopyLinks(s) ==
  /\ At(s, "copy_links")
  /\ LET d == IF Op(s).inbound THEN db ELSE View(s)
         new == mem[s].made
         Linked(from, to) == [do |-> "link", edge |-> <<from, to>>, wire |-> None]
     IN /\ snap' = [snap EXCEPT ![s] = d] /\ UNCHANGED db
        /\ Then(s, IF Op(s).inbound
                   THEN Each([n \in find_wob_by_inbound_edges(d, User[s], Op(s).wob) |-> Linked(n, new)])
                        \o <<[Op(s) EXCEPT !.inbound = FALSE]>>
                   ELSE Each([n \in find_wob_by_outbound_edges(d, User[s], Op(s).wob) |-> Linked(new, n)]))
  /\ UNCHANGED mem

LinkMade(s) ==
  /\ At(s, "link_made")
  /\ Then(s, <<[do |-> "link", edge |-> <<Op(s).ko, mem[s].made>>, wire |-> None]>>)
  /\ Rests /\ UNCHANGED mem

-----------------------------------------------------------------------------
(* clone_project. *)
clone_project(s) ==
  /\ At(s, "clone_project")
  /\ LET ko == Op(s).ko
         d  == View(s)
         n  == db.last + 1
     IN IF Loads(d, User[s], ko) /\ IsProject(d, ko)
        THEN /\ CommitsAndLoads(s, Inserted(Clone(s, d.wob[ko], ko, FALSE)))
             /\ mem' = [mem EXCEPT ![s] = [made |-> n, copies |-> Put(<<>>, n, n), pairs |-> <<>>]]
             /\ Then(s, <<[do |-> "copy_nodes", ko |-> ko],
                          [do |-> "copy_edges"],
                          [do |-> "cloned", ko |-> ko]>>)
        ELSE Sees(s) /\ Raise(s) /\ UNCHANGED mem

CopyNode(d, m, child) == [do |-> "copy_node", wob |-> m, row |-> d.wob[m], child |-> child]

CopyNodes(s) ==
  /\ At(s, "copy_nodes")
  /\ LET d == View(s)
     IN Then(s, Each([m \in find_children(d, User[s], Op(s).ko) |-> CopyNode(d, m, TRUE)]))
  /\ Sees(s) /\ UNCHANGED mem

(* A job is not cloned, and nothing is cloned twice.  Behind a child of    *)
(* the project its neighbours are looked up.                               *)
clone_from_org(s) ==
  /\ At(s, "copy_node")
  /\ LET m == Op(s).wob
         n == db.last + 1
         new == mem[s].made
         next == IF Op(s).child
                 THEN <<[do |-> "copy_in", wob |-> m], [do |-> "copy_out", wob |-> m]>> ELSE <<>>
     IN IF m \in DOMAIN mem[s].copies \/ Op(s).row.kind = "DOCKER_JOB"
        THEN Then(s, next) /\ Rests /\ UNCHANGED mem
        ELSE /\ CommitsAndLoads(s, Inserted(Clone(s, Op(s).row, m, FALSE)))
             /\ mem' = [mem EXCEPT ![s].copies = Put(@, m, n)]
             /\ Then(s, <<AddEdge(new, n)>> \o next)

(* What it finds is copied, and the pair remembered once. *)
Neighbours(s, d, pair) ==
  LET new == {m \in DOMAIN pair : d.wob[m].kind # "DOCKER_JOB" /\ ~Contains(mem[s].pairs, pair[m])}
  IN /\ Then(s, Each([m \in DOMAIN pair |-> CopyNode(d, m, FALSE)]))
     /\ mem' = [mem EXCEPT ![s].pairs = @ \o Each([m \in new |-> pair[m]])]

(* find_wob_by_inbound_edges closes the connection first. *)
CopyInbound(s) ==
  /\ At(s, "copy_in")
  /\ Neighbours(s, db, [m \in find_wob_by_inbound_edges(db, User[s], Op(s).wob) |-> <<m, Op(s).wob>>])
  /\ snap' = [snap EXCEPT ![s] = db] /\ UNCHANGED db

CopyOutbound(s) ==
  /\ At(s, "copy_out")
  /\ LET d == View(s)
     IN Neighbours(s, d, [m \in find_children(d, User[s], Op(s).wob) |-> <<Op(s).wob, m>>])
  /\ Sees(s)

CopyEdges(s) ==
  /\ At(s, "copy_edges")
  /\ LET es == mem[s].pairs
     IN Then(s, [i \in DOMAIN es |-> [do |-> "copy_edge", edge |-> es[i]]])
  /\ Rests /\ UNCHANGED mem

(* Mutant: the connectors are not copied. *)
CopyEdgeBare(s) ==
  /\ At(s, "copy_edge")
  /\ LET e == Op(s).edge
         f == mem[s].copies
     IN IF e[1] \in DOMAIN f /\ e[2] \in DOMAIN f
        THEN Then(s, <<AddEdge(f[e[1]], f[e[2]])>>)
        ELSE Raise(s)
  /\ Sees(s) /\ UNCHANGED mem

(* The attributes are read from the original, whoever may read it. *)
CopyEdge(s) ==
  /\ At(s, "copy_edge")
  /\ LET e == Op(s).edge
         f == mem[s].copies
     IN IF e[1] \in DOMAIN f /\ e[2] \in DOMAIN f
        THEN Then(s, <<AddEdge(f[e[1]], f[e[2]]),
                       SetAttributes(<<f[e[1]], f[e[2]]>>, get_edge_attribute(View(s), User[s], e))>>)
        ELSE Raise(s)
  /\ Sees(s) /\ UNCHANGED mem

-----------------------------------------------------------------------------
(* Sharing.  The administrator's connections are new for every check, the  *)
(* user's own connection finds the children.                               *)
MaxRecursion == 4

Table(d, acl) == IF acl = "read_acl" THEN d.read ELSE d.write

has_access(u, m, acl) == Holds(db, u, m, Table(db, acl))
Live(g)               == g \in DOMAIN db.group
is_group_owner(u, g)  == Live(g) /\ db.group[g].owner = u
group_is_public(g)    == Live(g) /\ db.group[g].public

(* The owner counts as a member of a group that has any. *)
member_of_group(u, g) ==
  <<g, u>> \in db.member \/ (is_group_owner(u, g) /\ \E v \in Users : <<g, v>> \in db.member)

admin_grant_wob_to_group(s) ==
  /\ At(s, "grant")
  /\ IF /\ has_access(User[s], Op(s).wob, Op(s).acl)
        /\ member_of_group(User[s], Op(s).gid) \/ group_is_public(Op(s).gid)
     THEN Then(s, <<[Op(s) EXCEPT !.do = "grant_row"]>>)
     ELSE Raise(s)
  /\ Rests /\ UNCHANGED mem

GrantRow(s) ==
  /\ At(s, "grant_row")
  /\ LET row == <<Op(s).gid, Op(s).wob>>
     IN db' = IF Op(s).wob \notin DOMAIN db.wob THEN db
              ELSE IF Op(s).acl = "read_acl" THEN [db EXCEPT !.read = @ \cup {row}]
              ELSE [db EXCEPT !.write = @ \cup {row}]
  /\ Then(s, IF Op(s).depth < MaxRecursion THEN <<[Op(s) EXCEPT !.do = "grant_children"]>> ELSE <<>>)
  /\ UNCHANGED <<snap, mem>>

(* Mutant: nobody counts the levels. *)
GrantChildrenDeep(s) ==
  /\ At(s, "grant_children")
  /\ LET d == View(s)
         children == {m \in find_wob_by_outbound_edges(d, User[s], Op(s).wob) : d.wob[m].kind # "DOCKER_JOB"}
     IN Then(s, Each([m \in children |-> [Op(s) EXCEPT !.do = "grant", !.wob = m]]))
  /\ Sees(s) /\ UNCHANGED mem

GrantChildren(s) ==
  /\ At(s, "grant_children")
  /\ LET d == View(s)
         children == {m \in find_wob_by_outbound_edges(d, User[s], Op(s).wob) : d.wob[m].kind # "DOCKER_JOB"}
     IN Then(s, Each([m \in children |-> [Op(s) EXCEPT !.do = "grant", !.wob = m, !.depth = @ + 1]]))
  /\ Sees(s) /\ UNCHANGED mem

admin_revoke_group_from_wob(s) ==
  /\ At(s, "revoke")
  /\ LET row == <<Op(s).gid, Op(s).wob>>
         m   == Op(s).wob
     IN IF is_group_owner(User[s], Op(s).gid) \/ (m \in DOMAIN db.wob /\ db.wob[m].owner = User[s])
        THEN /\ db' = [db EXCEPT !.read  = IF "read_acl" \in Op(s).acls THEN @ \ {row} ELSE @,
                                 !.write = IF "write_acl" \in Op(s).acls THEN @ \ {row} ELSE @]
             /\ Then(s, IF Op(s).depth < MaxRecursion
                        THEN <<[Op(s) EXCEPT !.do = "revoke_children"]>> ELSE <<>>)
        ELSE UNCHANGED db /\ Raise(s)
  /\ UNCHANGED <<snap, mem>>

(* The recursion drops the privileges and takes the default. *)
RevokeChildren(s) ==
  /\ At(s, "revoke_children")
  /\ Then(s, Each([m \in find_children(View(s), User[s], Op(s).wob) |->
                     [Op(s) EXCEPT !.do = "revoke", !.wob = m, !.depth = @ + 1, !.acls = {"read_acl"}]]))
  /\ Sees(s) /\ UNCHANGED mem

(* Groups: what is asked and what is written are two transactions.         *)
can_invite_to_group(u, g) ==
  /\ Live(g)
  /\ \/ is_group_owner(u, g) \/ group_is_public(g)
     \/ db.group[g].inviting /\ <<g, u>> \in db.member

Asks(s, op, allowed) ==
  /\ At(s, op)
  /\ IF allowed THEN Then(s, <<[Op(s) EXCEPT !.do = "group_row", !.then = op]>>) ELSE Raise(s)
  /\ Rests /\ UNCHANGED mem

admin_assign_user_to_group(s) ==
  Asks(s, "assign", can_invite_to_group(User[s], Op(s).gid))
admin_remove_user_from_group(s) ==
  Asks(s, "remove", is_group_owner(User[s], Op(s).gid))
admin_drop_user_group(s) ==
  Asks(s, "drop", is_group_owner(User[s], Op(s).gid))

admin_update_user_group(s) ==
  Asks(s, "update", is_group_owner(User[s], Op(s).gid))

(* Whoever asks for a group gets one; the call holds the id it will have.  *)
admin_create_user_group(s) ==
  /\ At(s, "create_group")
  /\ db' = [db EXCEPT !.group = Put(@, Op(s).gid, Op(s).row)]
  /\ Then(s, <<>>) /\ UNCHANGED <<snap, mem>>

(* An organization is a group whose members invite.  The administrator     *)
(* assigns its creator.                                                    *)
_create_organzation(s) ==
  /\ At(s, "create_organization")
  /\ LET g == Op(s).gid
     IN Then(s, <<[do |-> "create_group", gid |-> g,
                   row |-> [owner |-> Op(s).uid, public |-> FALSE, inviting |-> TRUE]],
                  [do |-> "group_row", gid |-> g, uid |-> Op(s).uid, then |-> "assign"]>>)
  /\ Rests /\ UNCHANGED mem

(* A dropped group takes its members with it, and leaves its rights. *)
GroupRow(s) ==
  /\ At(s, "group_row")
  /\ LET g == Op(s).gid
     IN db' = CASE Op(s).then = "assign" /\ Live(g) ->
                     [db EXCEPT !.member = @ \cup {<<g, Op(s).uid>>}]
                [] Op(s).then = "remove" ->
                     [db EXCEPT !.member = @ \ {<<g, Op(s).uid>>}]
                [] Op(s).then = "drop" ->
                     [db EXCEPT !.group = Restrict(@, DOMAIN @ \ {g}),
                                !.member = {r \in @ : r[1] # g}]
                [] Op(s).then = "update" /\ Live(g) -> [db EXCEPT !.group[g] = Op(s).row]
                [] OTHER -> db
  /\ Then(s, <<>>) /\ UNCHANGED <<snap, mem>>

(* The administrator's sharing of a workflow: whatever has an edge from it *)
(* but its jobs, one table after the other.  Execution is granted as       *)
(* reading, and revoked as execution, which no view here asks for.         *)
TeamTables(acls) ==
  LET Of(acl) == IF acl \in acls THEN <<acl>> ELSE <<>>
  IN Of("read_acl") \o Of("write_acl") \o Of("execute_acl")

Connected(ko) == {m \in DOMAIN db.wob : <<ko, m>> \in DOMAIN db.edge /\ db.wob[m].kind # "DOCKER_JOB"}

TeamRows(s, acl, ms) == [do |-> "team_rows", grants |-> Op(s).grants, gid |-> Op(s).gid, acl |-> acl, wobs |-> ms]

(* The blocks are looked up again for every table. *)
admin_grant_workflow_to_team(s) ==
  /\ At(s, "team_grant")
  /\ IF Op(s).acls = {} THEN Then(s, <<>>)
     ELSE LET acl == TeamTables(Op(s).acls)[1]
          IN Then(s, <<TeamRows(s, IF acl = "execute_acl" THEN "read_acl" ELSE acl,
                                Connected(Op(s).ko) \cup {Op(s).ko}),
                       [Op(s) EXCEPT !.acls = @ \ {acl}]>>)
  /\ Rests /\ UNCHANGED mem

admin_revoke_workflow_from_team(s) ==
  /\ At(s, "team_revoke")
  /\ LET Of(acl) == TeamRows(s, acl, Connected(Op(s).ko) \cup {Op(s).ko})
         tables == TeamTables(Op(s).acls)
     IN Then(s, [i \in DOMAIN tables |-> Of(tables[i])])
  /\ Rests /\ UNCHANGED mem

AclRows(s) ==
  /\ At(s, "team_rows")
  /\ LET rows == {Op(s).gid} \X (Op(s).wobs \cap DOMAIN db.wob)
         Changed(acl, old) == IF acl # Op(s).acl THEN old
                          ELSE IF Op(s).grants THEN old \cup rows ELSE old \ rows
     IN db' = [db EXCEPT !.read = Changed("read_acl", @), !.write = Changed("write_acl", @)]
  /\ Then(s, <<>>) /\ UNCHANGED <<snap, mem>>

-----------------------------------------------------------------------------
(* delete_object and delete_project. *)
delete_project(s) ==
  /\ At(s, "delete_project")
  /\ Then(s, <<[do |-> "delete", wob |-> Op(s).ko, cascading |-> TRUE, hard |-> TRUE]>>)
  /\ Sees(s) /\ UNCHANGED mem

(* Nobody is asked. *)
admin_soft_delete_object(s) ==
  /\ At(s, "soft_delete")
  /\ db' = Deleted(db, {Op(s).wob})
  /\ Then(s, <<>>) /\ UNCHANGED <<snap, mem>>

(* Of the graph below an object a user deletes what is his. *)
DeleteGraph(s) ==
  /\ At(s, "delete") /\ Op(s).cascading
  /\ LET u  == User[s]
         ms == {m \in Descendants(db, u, Op(s).wob) :
                  v_metadata(db, u, m) /\ db.wob[m].owner = u}
     IN Commits(s, IF Op(s).hard THEN Without(db, ms) ELSE Deleted(db, ms))
  /\ Then(s, <<[Op(s) EXCEPT !.cascading = FALSE]>>) /\ UNCHANGED mem

sp_delete_object(s) ==
  /\ At(s, "delete") /\ ~Op(s).cascading
  /\ LET ms == {m \in {Op(s).wob} : Writes(View(s), User[s], m)}
     IN Commits(s, IF Op(s).hard THEN Without(db, ms) ELSE Deleted(db, ms))
  /\ Then(s, <<>>) /\ UNCHANGED mem

-----------------------------------------------------------------------------
(* What a session finds in a database d: rights, edges with connectors,    *)
(* code blocks.                                                            *)
Finds(s, d) ==
  LET edges == {e \in DOMAIN d.edge : v_edges(d, User[s], e)}
      wires == UNION {{<<e, d.edge[e][rc], rc>> : rc \in DOMAIN d.edge[e]} : e \in edges}
  IN [read |-> d.read, member |-> d.member, edge |-> edges, wires |-> wires, ever |-> wires,
      blocks |-> {m \in DOMAIN d.wob : Found(d, User[s], m) /\ d.wob[m].kind = "CODE"}]

(* The calls the properties follow, from their first commit to the last. *)
Followed(s) == \E op \in Range(todo[s]) : op.do \in {"copy_acls", "insert_acls", "cloned"}

(* What is still there, and the connectors that ever were. *)
Still(old, new) ==
  [read |-> old.read \cap new.read, member |-> old.member \cap new.member,
   edge |-> old.edge \cap new.edge, wires |-> old.wires \cap new.wires,
   ever |-> old.ever \cup new.ever, blocks |-> old.blocks \cap new.blocks]

Remembers ==
  since' = [s \in Sessions |->
             IF ~Followed(s)' THEN None
             ELSE IF ~Followed(s) THEN Finds(s, db')
             ELSE IF db' = db THEN since[s] ELSE Still(since[s], Finds(s, db'))]

Init ==
  \E c \in Scenarios :
    /\ db = c.db /\ calls = c.calls
    /\ snap = [s \in Sessions |-> None]
    /\ todo = [s \in Sessions |-> <<>>]
    /\ mem = [s \in Sessions |-> [made |-> None, copies |-> <<>>, pairs |-> <<>>]]
    /\ since = [s \in Sessions |-> None]

Editing(s) ==
  \/ link(s) \/ _update_edge(s) \/ update_api(s) \/ set_edge_attribute(s)
  \/ unlink(s) \/ delete_edge(s) \/ clean_edges(s) \/ CleanEdge(s)
Creation(s) == create_wob(s) \/ sp_link(s) \/ copy_ko_acls(s) \/ insert_acls(s)
Cloning(s) ==
  \/ clone_object(s) \/ clone_project(s) \/ CopyNodes(s) \/ clone_from_org(s)
  \/ CopyInbound(s) \/ CopyOutbound(s) \/ CopyEdges(s) \/ CopyEdge(s)
  \/ make_single_user(s) \/ CopyLinks(s) \/ LinkMade(s)
Sharing(s) ==
  \/ admin_grant_wob_to_group(s) \/ GrantRow(s) \/ GrantChildren(s)
  \/ admin_revoke_group_from_wob(s) \/ RevokeChildren(s)
  \/ admin_grant_workflow_to_team(s) \/ admin_revoke_workflow_from_team(s) \/ AclRows(s)
Grouping(s) ==
  \/ admin_assign_user_to_group(s) \/ admin_remove_user_from_group(s)
  \/ admin_drop_user_group(s) \/ admin_update_user_group(s) \/ GroupRow(s)
  \/ admin_create_user_group(s) \/ _create_organzation(s)
Deletion(s) ==
  delete_project(s) \/ DeleteGraph(s) \/ sp_delete_object(s) \/ admin_soft_delete_object(s)

Step(s) ==
  Call(s) \/ Return(s) \/ Look(s) \/ Creation(s) \/ Editing(s) \/ Cloning(s) \/ Sharing(s)
  \/ Grouping(s) \/ Deletion(s)

Next == (\E s \in Sessions : Step(s)) /\ Remembers

Spec == Init /\ [][Next]_vars

(* The calls of a session go on; nothing is assumed of their order. *)
FairSpec == Spec /\ \A s \in Sessions : WF_state(Step(s))

-----------------------------------------------------------------------------
(* Databases and snapshots are well numbered; the transactions still to    *)
(* come are those of a call.                                               *)
TypeOK ==
  /\ IsDatabase(db) /\ Numbered(db)
  /\ snap \in [Sessions -> Range(snap)]
  /\ \A s \in Sessions : snap[s] # None => Numbered(snap[s])
  /\ \A s \in Sessions : todo[s] \in Seq(Range(todo[s])) /\ calls[s] \in Seq(Range(calls[s]))

(* When create_wob has copied the access rights, every group of the user   *)
(* that could read the project all the time can read the new object,       *)
(* whatever other sessions share, link or delete meanwhile.                *)
NewObjectShared ==
  [][\A s \in Sessions : insert_acls(s) /\ Op(s).wob \in DOMAIN db'.wob =>
       \A g \in Groups :
         <<g, User[s]>> \in since[s].member /\ <<g, Op(s).ko>> \in since[s].read =>
           <<g, Op(s).wob>> \in db'.read]_vars

(* What clone_project has copied, without the project itself, and the      *)
(* blocks that were in the project all the time.                           *)
Copies(s) == Restrict(mem[s].copies, DOMAIN mem[s].copies \ {mem[s].made})
Blocks(s) == {m \in since[s].blocks : <<Op(s).ko, m>> \in since[s].edge}

(* When clone_project returns, every block that was in the project all the *)
(* time has a copy, and each a copy of its own, though the project is read *)
(* in many transactions and others edit, share and delete between them.    *)
CloneComplete ==
  \A s \in Sessions : At(s, "cloned") =>
    /\ Blocks(s) \subseteq DOMAIN Copies(s)
    /\ \A a, b \in DOMAIN Copies(s) : Copies(s)[a] = Copies(s)[b] => a = b

(* When clone_project returns, the clone is complete, its copies are linked *)
(* like the originals with the same connectors, and nothing of it is linked *)
(* from the original: the two projects can be run and edited apart.         *)
CloneFaithful ==
  /\ CloneComplete
  /\ \A s \in Sessions : At(s, "cloned") =>
       LET new    == mem[s].made
           f      == Copies(s)
           copies == {f[m] : m \in DOMAIN f}
       IN /\ \A m \in DOMAIN f : <<new, f[m]>> \in DOMAIN db.edge
          /\ \A a, b \in DOMAIN f :
               LET e == <<f[a], f[b]>>
               IN /\ {a, b} \subseteq Blocks(s) /\ <<a, b>> \in since[s].edge => e \in DOMAIN db.edge
                  /\ e \in DOMAIN db.edge =>
                       /\ \A rc \in DOMAIN db.edge[e] : <<<<a, b>>, db.edge[e][rc], rc>> \in since[s].ever
                       /\ \A w \in since[s].wires :
                            w[1] = <<a, b>> => w[3] \in DOMAIN db.edge[e] /\ db.edge[e][w[3]] = w[2]
          /\ \A e \in DOMAIN db.edge : e[2] \in copies => e[1] \in copies \cup {new}

(* What a database has of the objects ms: their rows and their edges. *)
OfObjects(ms, d) ==
  [wob  |-> Restrict(d.wob, ms \cap DOMAIN d.wob),
   edge |-> Restrict(d.edge, {e \in DOMAIN d.edge : e[1] \in ms \/ e[2] \in ms})]

(* While clone_project is under way no other session writes to the clone,  *)
(* whose ids nobody else has been told.                                    *)
Copying(s) == \E op \in Range(todo[s]) : op.do = "cloned"
Own(s) == Range(mem[s].copies)
LeftAlone ==
  [][\A s, t \in Sessions :
       s # t /\ Step(t) /\ Copying(s) => OfObjects(Own(s), db') = OfObjects(Own(s), db)]_vars

(* A clone of a clone names the original: what a code block names is       *)
(* never a clone itself, so that subscriptions do not form chains.         *)
OriginalsOnly == Originals(db)

(* Every call ends, also the recursive ones on a graph with cycles. *)
CallsEnd == <>(\A s \in Sessions : calls[s] = <<>> /\ todo[s] = <<>>)
=============================================================================
