----------------------------- MODULE Refinement -----------------------------
(***************************************************************************)
(* Materialise, which writes file by file, implements AtomicSync, which    *)
(* does not.  What an observer sees of the tree is what the last apply or  *)
(* edit left there: `before` remembers it while an apply is under way, and *)
(* nothing depends on it.                                                  *)
(***************************************************************************)
EXTENDS Materialise

VARIABLE before

hvars == <<vars, before>>

HInit == Init /\ before = tree

HNext == Next /\ before' = IF job' = NoJob THEN tree' ELSE before

HSpec == HInit /\ [][HNext]_hvars

Promise == INSTANCE AtomicSync WITH tree <- before

\* Every apply takes place at once, when its manifest is written, or is one
\* that was interrupted: whatever order its writes come in and wherever it dies.
AppliesAtOnce == Promise!Spec

=============================================================================
