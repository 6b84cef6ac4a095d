----------------------------- MODULE MCProcessor -----------------------------
(* Finite instances of Processor for TLC: two nodes a -> b and a node c of   *)
(* its own; one client that runs the drawing, one that uses the terminal.    *)
EXTENDS Processor, TLC

CONSTANTS a, b, c

MCNodes == {a, b, c}
MCEdges == {<<a, b>>}

Drawn(x, y, z) == (a :> x) @@ (b :> y) @@ (c :> z)

MCDrawings ==
  [runs |-> {Drawn("fine", "fine", "fine"), Drawn("fine", "raises", "fine"),
             Drawn("raises", "fine", "disabled"), Drawn("fine", "fine", "uncompilable"),
             Drawn("fine", "failing", "fine")},
   terminal |-> {Drawn("fine", "fine", "fine")}]

Run(op, t, r) == [op |-> op, target |-> t, recompile |-> r]

MCCommands ==
  [runs |-> {Run("start", t, FALSE) : t \in {All, b, c}} \cup
            {Run("execute", c, r) : r \in BOOLEAN} \cup
            {Plain(o) : o \in {"stop", "info", "compile", "git-pull", "run-setup", "secret", "unknown"}},
   terminal |-> {Plain(o) : o \in TerminalCommands}]

MCLossy == {"runs"}
=============================================================================
