------------------------------ MODULE MCAgent ------------------------------
(***************************************************************************)
(* A small agent: one tool, and one token whose scope covers the tool and  *)
(* writes to the memory but not reads, so that every call is refused by    *)
(* some state and admitted by another except MemSearch, always refused.    *)
(* And the laws of the merge, of any three of some states.                 *)
(***************************************************************************)
EXTENDS Agent, CheckpointMerge

CONSTANTS web, cap

MCTool == {web}
MCCap  == {cap}

MCAuthorizes ==
    [c \in MCCap |-> {call \in Calls : call.op \in {"ToolInvoke", "MemWrite"}}]

\* The fields and the keys are merged apart, so one key and few values of each
\* field show what there is to see.
Samples ==
    [budget : [total : {1, 2}, spent : {0, 1}], caps : {{}, Jtis},
     phase : {"Live", "Dead"}, trail : [Keys -> {<<>>, <<1>>, <<1, 1>>}]]

ASSUME MergeLawsOnSamples == \A a, b, c \in Samples : MergeLaws(a, b, c)

=============================================================================
