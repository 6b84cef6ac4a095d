-------------------------- MODULE MCJobNotification --------------------------
(* Finite instances of JobNotification for TLC. *)
EXTENDS JobNotification, TLC

CONSTANTS j1, j2, c1, i1, bot1, bot2, proc, node, s1, s2, s3, s4, s5

Row(user, target, wob) == [user |-> user, target |-> target, wob |-> wob, group |-> "crg"]
Reader(proc_, user, target, wob) ==
  [proc |-> proc_, user |-> user, target |-> target, wob |-> wob]

NoPriority == {0}

\* Two jobs for a resource group, a command and an input of one project.
MCAddress ==
  (j1 :> Row("bot", "job", "1")) @@ (j2 :> Row("bot", "job", "1")) @@
  (c1 :> Row("u", "processor", "1")) @@ (i1 :> Row("u", "wob", "2"))

MCCaller ==
  (s1 :> Reader("get_own_wob_message", "bot", "job", "0")) @@
  (s2 :> Reader("get_own_wob_message", "bot", "job", "0")) @@
  (s3 :> Reader("get_wob_message_for_processor", "u", "processor", "1")) @@
  (s4 :> Reader("get_wob_message_from_control", "u", "wob", "2")) @@
  (s5 :> Reader("get_wob_message_for_processor", "u", "processor", "1"))

MCKind == (bot1 :> "localbot") @@ (bot2 :> "localbot") @@ (proc :> "processor") @@ (node :> "input")
MCAsks == (bot1 :> <<s1>>) @@ (bot2 :> <<s2>>) @@ (proc :> <<s3>>) @@ (node :> <<s4, s5>>)
MCAnnotation == 
  (bot1 :> <<"crg">>) @@ (bot2 :> <<"crg">>) @@ (proc :> <<"1">>) @@ (node :> <<"input", "2", "1">>)

\* Two localbots of one group; a processor; a node that waits for an input.
MCScenes == {{bot1, bot2}, {proc}, {node}}
=============================================================================
