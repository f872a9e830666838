---------------------------- MODULE MCNgramHash ----------------------------
(* Small instances of NgramHash: two requests, prompts that share a prefix,  *)
(* an image token inside one of them.                                        *)
EXTENDS NgramHash, TLC

MCTokenMap == 1 :> 1 @@ 2 :> 2 @@ 3 :> 1
MCPrompts  == {<<1, 2, 2>>, <<3, 1>>}

\* One prompt is what a request with the other one may come to generate.
ReloadPrompts == {<<3, 1>>, <<3, 1, 1, 1, 2>>}

MCSampled  == {1, 2}

\* V1 alone, V1 with connectors, V2 with both connectors and preemption.
V1Preempt == [slotCache |-> TRUE,  load |-> FALSE, preempts |-> 1]
V1Load    == [slotCache |-> TRUE,  load |-> TRUE,  preempts |-> 0]
V1Both    == [slotCache |-> TRUE,  load |-> TRUE,  preempts |-> 1]
V2Both    == [slotCache |-> FALSE, load |-> TRUE,  preempts |-> 1]
Sound     == {V1Preempt, V1Load, V2Both}
Reload    == {V1Both}

Symmetry == Permutations(Requests)
=============================================================================
