-------------------------- MODULE MCWeightLoading --------------------------
(* The workers of a node load a checkpoint: all through the numpy cache, or  *)
(* each with a generator of its own, of which one is followed; or they write *)
(* files with atomic_writer.  load_format decides before anything happens.   *)
EXTENDS MCNpWeightCache, WeightIterators, AtomicWriter

CONSTANT Formats

VARIABLE format

allVars == <<vars, loadVars, writerVars, format>>

MCInit ==
  /\ format \in Formats
  /\ Init /\ WriterInit
  /\ LoadInit
  /\ format # "generator" => kind = "lazy" /\ world_size = 1 /\ index = {"s1"}

MCNext ==
  \/ format = "np_cache"  /\ Next       /\ UNCHANGED <<loadVars, writerVars, format>>
  \/ format = "generator" /\ LoadNext   /\ UNCHANGED <<vars, writerVars, format>>
  \/ format = "writer"    /\ WriterNext /\ UNCHANGED <<vars, loadVars, format>>

MCSpec ==
  /\ MCInit /\ [][MCNext]_allVars
  /\ format = "np_cache"  => \A p \in Processes : SF_vars(Work(p))
  /\ format = "generator" => LoadFair

\* Every process gets every tensor from the cache in the end, killed or not;
\* every generator ends.
LoadsEnd ==
  /\ format = "np_cache"  => AllLoaded
  /\ format = "generator" => GeneratorEnds

-----------------------------------------------------------------------------

\* Three shards, one of them without a tensor this rank needs, and a file with
\* all their tensors in one; the index names the shards, the one file, or a
\* shard that is not there.
FourFiles == <<"s1", "s2", "s3", "all">>
Tensors   == [s1 |-> <<"a", "e">>, s2 |-> <<"f">>, s3 |-> <<"b">>,
              all |-> <<"a", "e", "f", "b">>]
SomeIndex == {{"s1", "s2", "s3"}, {"all"}, {"s1", "s4"}, {"s1"}}
=============================================================================
