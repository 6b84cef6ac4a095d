----------------------------- MODULE MCWorkspace -----------------------------
(* Finite instances of Workspace for TLC: a project 1 of the owner with two  *)
(* blocks 2 and 3 that are linked both ways, a job 4 and a project 5 below   *)
(* it with a block 6; the team can read all of it but the job.               *)
EXTENDS Workspace, TLC

CONSTANTS owner, mate, team, guests, firm, s1, s2

MCUser       == (s1 :> owner) @@ (s2 :> mate)
MCWires      == {<<"t1", "r1">>, <<"t2", "r2">>}

Row(kind, from, sub) ==
  [owner |-> owner, kind |-> kind, deleted |-> FALSE, cloned_from |-> from, subscribes |-> sub]

GroupOf(public, inviting) == [owner |-> owner, public |-> public, inviting |-> inviting]

Project ==
  [wob  |-> (1 :> Row("KNOWLEDGE_OBJECT", 0, FALSE)) @@ (2 :> Row("CODE", 0, FALSE)) @@
            (3 :> Row("CODE", 2, TRUE)) @@ (4 :> Row("DOCKER_JOB", 0, FALSE)) @@
            (5 :> Row("KNOWLEDGE_OBJECT", 0, FALSE)) @@ (6 :> Row("CODE", 0, FALSE)),
   edge |-> (<<1, 2>> :> <<>>) @@ (<<1, 3>> :> <<>>) @@ (<<1, 4>> :> <<>>) @@ (<<1, 5>> :> <<>>) @@
            (<<5, 6>> :> <<>>) @@ (<<2, 3>> :> ("r1" :> "t1")) @@ (<<3, 2>> :> <<>>),
   read |-> {team} \X {1, 2, 3, 5, 6},
   write |-> {team} \X {1, 2},
   group |-> (team :> GroupOf(FALSE, FALSE)) @@ (guests :> GroupOf(TRUE, FALSE)),
   member |-> {team, guests} \X {owner, mate},
   last |-> 6]

Create      == [do |-> "create_wob", ko |-> 1]
LinkWith(w) == [do |-> "link", edge |-> <<2, 3>>, wire |-> w]
Unlink(w)   == [do |-> "unlink", edge |-> <<2, 3>>, wire |-> w]
CloneIt(m, sub) == [do |-> "clone_object", wob |-> m, subscribes |-> sub]
CloneAll    == [do |-> "clone_project", ko |-> 1]
Grant(acl)  == [do |-> "grant", wob |-> 1, gid |-> guests, acl |-> acl, depth |-> 0]
Revoke      == [do |-> "revoke", wob |-> 1, gid |-> team, acls |-> {"read_acl", "write_acl"}, depth |-> 0]
Delete(m, cascading, hard) == [do |-> "delete", wob |-> m, cascading |-> cascading, hard |-> hard]
DeleteAll   == [do |-> "delete_project", ko |-> 1]
Group(op, g) == [do |-> op, gid |-> g, uid |-> mate, then |-> None]
Update(g, inviting) == [do |-> "update", gid |-> g, row |-> GroupOf(FALSE, inviting), then |-> None]
Establish(g)  == [do |-> "create_organization", gid |-> g, uid |-> owner]
ToTeam(op, g, acls) == [do |-> op, ko |-> 1, gid |-> g, acls |-> acls, grants |-> op = "team_grant"]
Clean(m, has) == [do |-> "clean_edges", wob |-> m, has |-> has]
Single(m)   == [do |-> "make_single_user", edge |-> <<1, m>>]
SoftDelete(m) == [do |-> "soft_delete", wob |-> m]
LookAt      == [do |-> "look"]

Both(a, b) == [db |-> Project, calls |-> (s1 :> a) @@ (s2 :> b)]

Apart(a, b) ==
  [db |-> [Project EXCEPT !.member = {team} \X {owner}], calls |-> (s1 :> a) @@ (s2 :> b)]

MCScenarios == {
  Both(<<Establish(firm), ToTeam("team_grant", firm, {"read_acl", "execute_acl"})>>,
       <<Update(firm, TRUE), Group("assign", firm), Create>>),
  Both(<<ToTeam("team_revoke", team, {"read_acl", "write_acl", "execute_acl"})>>,
       <<ToTeam("team_grant", guests, {"read_acl", "write_acl"}), Create>>),
  Both(<<Update(team, TRUE), Clean(3, {}), Single(2)>>,
       <<Group("assign", team), LinkWith(<<"t2", "r2">>), SoftDelete(2)>>),
  Both(<<Clean(3, {"r2"})>>, <<LinkWith(<<"t2", "r2">>), CloneAll>>),
  Apart(<<Group("assign", team), Grant("read_acl"), Group("drop", guests)>>,
        <<Group("assign", team), Group("assign", guests), Create>>),
  Both(<<Group("remove", team)>>, <<Create, Group("drop", team), CloneAll>>),
  Both(<<Grant("read_acl"), Grant("write_acl")>>, <<LookAt, Create>>),
  Both(<<Revoke>>, <<Create, Create>>),
  Both(<<Revoke, ToTeam("team_grant", team, {"read_acl"})>>, <<Create>>),
  Both(<<DeleteAll>>, <<Create, LinkWith(<<"t2", "r2">>)>>),
  Both(<<Create, Grant("read_acl")>>, <<CloneAll>>),
  Both(<<LinkWith(<<"t2", "r2">>), Unlink(<<"t1", "r1">>)>>, <<LookAt, CloneAll>>),
  Both(<<LinkWith(<<"t2", "r2">>), Unlink(<<"t2", "r2">>)>>, <<CloneAll>>),
  Both(<<CloneIt(2, TRUE), CloneIt(None, FALSE), CloneIt(3, TRUE), CloneIt(None, TRUE)>>,
       <<CloneIt(3, FALSE), CloneIt(None, TRUE), CloneIt(5, FALSE)>>),
  Both(<<LookAt, Unlink(<<"t1", "r1">>), LinkWith(<<"t1", "r1">>)>>,
       <<LinkWith(<<"t2", "r2">>), LinkWith(<<"t1", "r2">>), Unlink(<<"t2", "r2">>)>>),
  Both(<<Delete(5, TRUE, FALSE), Delete(3, FALSE, FALSE), Delete(2, FALSE, TRUE)>>,
       <<[LinkWith(None) EXCEPT !.edge = <<1, 6>>], Unlink(None), Delete(3, FALSE, TRUE), LinkWith(<<"t1", "r1">>)>>)}
=============================================================================
