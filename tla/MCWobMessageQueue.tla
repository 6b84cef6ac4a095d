-------------------------- MODULE MCWobMessageQueue --------------------------
(* Finite instances of WobMessageQueue for TLC. *)
EXTENDS WobMessageQueue, TLC

CONSTANTS m1, m2, m3, s1, s2

Row(target, wob) == [user |-> "u", target |-> target, wob |-> wob]
Reader(proc, target, wob) ==
  [proc |-> proc, user |-> "u", target |-> target, wob |-> wob]

TwoPriorities == {0, 10}

\* Two commands and one input for the same project.
MCAddress ==
  (m1 :> Row("processor", 1)) @@ (m2 :> Row("processor", 1)) @@ (m3 :> Row("wob", 1))

\* The commands differ in nothing but their names.
Symmetry == Permutations({m1, m2})

\* A processor, and get_message for the same target, which also claims the
\* input m3 and returns nothing for it.
MCCaller ==
  (s1 :> Reader("get_wob_message_for_processor", "processor", 1)) @@
  (s2 :> Reader("get_own_wob_message", "processor", 1))
=============================================================================
