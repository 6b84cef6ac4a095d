----------------------------- MODULE MCCodeBlocks -----------------------------
(* Finite instances of CodeBlocks for TLC: a processor, which may not write   *)
(* block 2, and an editor, which may not see the job; block 2 is a clone of   *)
(* block 1 and subscribes to it.  "c2" is "c1" with a line added at its end:  *)
(* reverting that gives "c1" back, while the line that is taken out again     *)
(* comes back without its newline.                                            *)
EXTENDS CodeBlocks, TLC

CONSTANTS processor, editor, job

MCReads    == (processor :> {1, 2, job}) @@ (editor :> {1, 2})
MCWrites   == (processor :> {1, job}) @@ (editor :> {1, 2})
MCRestores == {<<"c1", "c2">>}
MCFirst    == [name |-> "n1", body |-> "c1"]
MCOriginal == (1 :> None) @@ (2 :> 1) @@ (job :> None)
==============================================================================
