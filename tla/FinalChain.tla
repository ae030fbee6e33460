------------------------------ MODULE FinalChain ------------------------------
(***************************************************************************)
(* What synchronized checkpoints promise: a chain may be replaced by       *)
(* another branch only above its last checkpoint, the part of it that is   *)
(* saved holds the checkpoint that was in force when the chain was moved,  *)
(* and the checkpoint moves only up the chain.  The one exception is the   *)
(* first start of a release, which may move the chain and the checkpoint,  *)
(* in two steps, to hardened checkpoints of its own.                       *)
(***************************************************************************)
EXTENDS BlockTree

CONSTANT Anchor      \* the blocks that a release hardens, for every release

VARIABLES
  tip,       \* the last block of the chain
  saved,     \* the block at which the chain ends after a restart
  final,     \* the checkpoint
  era,       \* the release that runs
  open       \* is it the first start of this release?

finalVars == <<tip, saved, final, era, open>>

FinalInit == tip = Genesis /\ saved = Genesis /\ final = Genesis /\ era = 1 /\ open = FALSE

\* Saves(b): the chain moves to b, and a part of it is saved.
Saves(b) == tip' = b /\ saved' \in Chain[b]

MoveTo(b) ==
  /\ ~open /\ final \in Chain[b]
  /\ Saves(b) /\ (final \in Chain[tip] => final \in Chain[saved'])
  /\ UNCHANGED <<final, era, open>>

Finalize(c) ==
  /\ ~open /\ c \in Chain[tip] /\ final \in Chain[c]
  /\ final' = c
  /\ UNCHANGED <<tip, saved, era, open>>

Restart ==
  /\ tip' = saved /\ open' = FALSE
  /\ UNCHANGED <<saved, final, era>>

Release ==
  /\ ~open
  /\ tip' = saved /\ era' = era + 1 /\ open' = TRUE
  /\ UNCHANGED <<saved, final>>

MoveToAnchor(b) ==
  /\ open /\ b \in Anchor[era]
  /\ Saves(b)
  /\ UNCHANGED <<final, era, open>>

FinalizeAnchor(h) ==
  /\ open /\ h \in Anchor[era] \cap Chain[tip]
  /\ final' = h /\ open' = FALSE
  /\ UNCHANGED <<tip, saved, era>>

Abandon ==
  /\ open /\ open' = FALSE
  /\ UNCHANGED <<tip, saved, final, era>>

FinalNext ==
  \/ \E b \in Block : MoveTo(b) \/ Finalize(b) \/ MoveToAnchor(b) \/ FinalizeAnchor(b)
  \/ Restart \/ Release \/ Abandon

FinalSpec == FinalInit /\ [][FinalNext]_finalVars

=============================================================================
