-------------------------- MODULE MCNpWeightCache --------------------------
(* Small instances of NpWeightCache.                                         *)
EXTENDS NpWeightCache

TwoWeights == <<"embed", "head">>

\* Anywhere but between opening and closing weight_names.json.
BeforeNames == Stages \ {"write_names", "down", "error"}
=============================================================================
