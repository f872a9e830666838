-------------------------- MODULE WeightIterators --------------------------
(***************************************************************************)
(* How a worker reads the checkpoint (files/weight_utils.py): which files  *)
(* it takes, and the generators that hand out their tensors.               *)
(*   lazy    safetensors_weights_iterator and its prefetching, one file    *)
(*           after the other (pt_weights_iterator without the prefetching) *)
(*   threads multi_thread_safetensors_weights_iterator and                 *)
(*           multi_thread_pt_weights_iterator                              *)
(*   fast    fastsafetensors_weights_iterator                              *)
(*                                                                         *)
(* The caller may drop a generator at any tensor, and files may fail to    *)
(* load.  The numpy cache is NpWeightCache's subject.                      *)
(***************************************************************************)
EXTENDS Naturals, Sequences, FiniteSets, SequencesExt

CONSTANTS Folder,       \* the safetensors files of the folder, naturally sorted
          Contents,     \* file -> the names of its tensors, in order
          Indexes,      \* the index files to consider: sets of files
          Unneeded,     \* tensors should_skip_weight skips on this rank
          BadFiles,     \* files that may fail to load
          max_workers,  \* of the pools: loading and prefetching
          WorldSizes,   \* numbers of ranks to consider
          Kinds         \* generators to consider

ASSUME FolderAssumption ==
  /\ IsInjective(Folder) /\ Folder \in Seq(ToSet(Folder))
  /\ \A f \in ToSet(Folder) :
       Contents[f] # << >> /\ Contents[f] \in Seq(ToSet(Contents[f]))
  /\ BadFiles \subseteq ToSet(Folder)
  /\ max_workers \in Nat \ {0} /\ WorldSizes \subseteq Nat \ {0}

\* The index maps each tensor to one file, and a file has one of a name.
ASSUME IndexAssumption ==
  \A named \in Indexes : \A f, g \in named \cap ToSet(Folder) :
    /\ IsInjective(Contents[f])
    /\ f # g => ToSet(Contents[f]) \cap ToSet(Contents[g]) = {}

VARIABLES kind,
          rank, world_size,
          index,     \* files model.safetensors.index.json names
          gen,       \* where the generator is
          chosen,    \* the files it reads, in order
          cur, left, \* the file being handed out, its tensors still to come
          given,     \* tensors handed out
          queue,     \* threads: files submitted and not begun, oldest first
          running,   \*          files a thread is loading
          loaded,    \*          files whose future is done and not taken
          failed,    \*          those among them that hold an exception
          reads,     \* prefetch: whether asked for, files not begun, being read, read
          gds,       \* fast: whether the loader was asked for GDS
          open       \*       loaders constructed and not closed

Pool   == <<queue, running, loaded, failed>>
Fast   == <<gds, open>>
Input  == <<kind, rank, world_size, index, chosen>>
loadVars == <<Input, gen, cur, left, given, Pool, reads, Fast>>

None == "none"
ASSUME NoneAssumption == None \notin ToSet(Folder)

Ends == {"done", "raised", "dropped"}

LoadInit ==
  /\ kind \in Kinds /\ index \in Indexes
  /\ world_size \in WorldSizes /\ rank \in 0..(world_size - 1)
  /\ gen = "select" /\ chosen = << >>
  /\ cur = None /\ left = << >> /\ given = << >>
  /\ queue = << >> /\ running = {} /\ loaded = {} /\ failed = {}
  /\ reads = [asked |-> FALSE, todo |-> {}, busy |-> {}, cached |-> {}]
  /\ gds = FALSE /\ open = {}

Move(from, to) == gen = from /\ gen' = to

\* What of s is in S, in order: SelectSeq, as the provers can expand it.
Keep(s, S) ==
  LET kept[n \in 0..Len(s)] == IF n = 0 THEN << >>
                               ELSE IF s[n] \in S THEN Append(kept[n - 1], s[n])
                                                  ELSE kept[n - 1]
  IN  kept[Len(s)]

\* filter_duplicate_safetensors_files keeps what the index names.
Filtered(fs, named) == Keep(fs, named)

SelectFiles ==
  /\ IF index \subseteq ToSet(Folder)
     THEN Move("select", "start") /\ chosen' = Filtered(Folder, index)
     ELSE Move("select", "raised") /\ UNCHANGED chosen
  /\ UNCHANGED <<kind, rank, world_size, index, cur, left, given, Pool, reads, Fast>>

\* What a generator hands out of a file; only the lazy one skips tensors.
Wanted(f) ==
  IF kind = "lazy" THEN Keep(Contents[f], ToSet(Contents[f]) \ Unneeded)
                   ELSE Contents[f]

\* The caller takes the next tensor of the current file.
Hand(to) ==
  /\ left # << >>
  /\ given' = Append(given, Head(left)) /\ left' = Tail(left)
  /\ gen' = to

-----------------------------------------------------------------------------
(* One file after the other *)

\* Of paths[rank::world_size].
OwnReads(fs) == {fs[i] : i \in {j \in DOMAIN fs : (j - 1) % world_size = rank}}

\* Prefetching, if asked for, goes on in a thread of its own.
LazyStart ==
  /\ kind = "lazy" /\ Move("start", "next")
  /\ \/ reads' = [reads EXCEPT !.asked = TRUE, !.todo = OwnReads(chosen)]
     \/ UNCHANGED reads
  /\ UNCHANGED <<Input, cur, left, given, Pool, Fast>>

PrefetchBegin(f) ==
  /\ f \in reads.todo /\ Cardinality(reads.busy) < max_workers
  /\ reads' = [reads EXCEPT !.todo = @ \ {f}, !.busy = @ \cup {f}]
  /\ UNCHANGED <<Input, gen, cur, left, given, Pool, Fast>>

\* Defect, not part of LoadNext: a failed read ends the loop over the files.
PrefetchEndFatal(f) ==
  /\ f \in reads.busy
  /\ \/ reads' = [reads EXCEPT !.busy = @ \ {f}, !.cached = @ \cup {f}]
     \/ f \in BadFiles /\ reads' = [reads EXCEPT !.busy = @ \ {f}, !.todo = {}]
  /\ UNCHANGED <<Input, gen, cur, left, given, Pool, Fast>>

\* A failure is logged and keeps no other file from being read.
PrefetchEnd(f) ==
  /\ f \in reads.busy
  /\ \/ reads' = [reads EXCEPT !.busy = @ \ {f}, !.cached = @ \cup {f}]
     \/ f \in BadFiles /\ reads' = [reads EXCEPT !.busy = @ \ {f}]
  /\ UNCHANGED <<Input, gen, cur, left, given, Pool, Fast>>

\* The file's names are filtered before a tensor is read.
LazyOpen ==
  /\ kind = "lazy" /\ gen = "next" /\ left = << >>
  /\ LET i == IF cur = None THEN 1
              ELSE 1 + CHOOSE j \in DOMAIN chosen : chosen[j] = cur
     IN  IF i > Len(chosen)
         THEN gen' = "done" /\ UNCHANGED <<cur, left>>
         ELSE /\ cur' = chosen[i]
              /\ \/ left' = Wanted(chosen[i]) /\ UNCHANGED gen
                 \/ cur' \in BadFiles /\ gen' = "raised" /\ UNCHANGED left
  /\ UNCHANGED <<Input, given, Pool, reads, Fast>>

LazyTensor ==
  /\ kind = "lazy" /\ gen = "next"
  /\ \/ Hand("next") /\ UNCHANGED cur
     \/ /\ left # << >> /\ cur \in BadFiles /\ gen' = "raised"
        /\ UNCHANGED <<cur, left, given>>
  /\ UNCHANGED <<Input, Pool, reads, Fast>>

-----------------------------------------------------------------------------
(* A pool of threads *)

\* as_completed builds a set of its argument: every file is submitted at once,
\* whatever iterable it is given.
Submit ==
  /\ kind = "threads" /\ Move("start", "next")
  /\ queue' \in SetToSeqs(ToSet(chosen))
  /\ UNCHANGED <<Input, cur, left, given, running, loaded, failed, reads, Fast>>

Begin ==
  /\ queue # << >> /\ Cardinality(running) < max_workers
  /\ running' = running \cup {Head(queue)} /\ queue' = Tail(queue)
  /\ UNCHANGED <<Input, gen, cur, left, given, loaded, failed, reads, Fast>>

\* A job ends; its future holds the tensors or the exception.
End(f) ==
  /\ f \in running
  /\ running' = running \ {f} /\ loaded' = loaded \cup {f}
  /\ \/ UNCHANGED failed
     \/ f \in BadFiles /\ failed' = failed \cup {f}
  /\ UNCHANGED <<Input, gen, cur, left, given, queue, reads, Fast>>

\* The next future, in an order as_completed does not promise; result() raises
\* what the job raised.
Take(f) ==
  /\ gen = "next" /\ left = << >> /\ f \in loaded
  /\ loaded' = loaded \ {f} /\ cur' = f
  /\ IF f \in failed
     THEN gen' = "raising" /\ UNCHANGED left
     ELSE left' = Wanted(f) /\ UNCHANGED gen
  /\ UNCHANGED <<Input, given, queue, running, failed, reads, Fast>>

ThreadTensor ==
  /\ kind = "threads" /\ gen = "next" /\ Hand("next")
  /\ UNCHANGED <<Input, cur, Pool, reads, Fast>>

Exhausted ==
  /\ kind = "threads" /\ gen = "next" /\ left = << >>
  /\ queue = << >> /\ running = {} /\ loaded = {}
  /\ gen' = "done"
  /\ UNCHANGED <<Input, cur, left, given, Pool, reads, Fast>>

\* Defect, not part of LoadNext: shutdown(wait=False).
LeaveAtOnce ==
  /\ kind = "threads" /\ gen \in {"raising", "dropping"}
  /\ gen' = IF gen = "raising" THEN "raised" ELSE "dropped"
  /\ UNCHANGED <<Input, cur, left, given, Pool, reads, Fast>>

\* Executor.__exit__ waits for every job, begun or not; nothing is cancelled.
Shutdown ==
  /\ kind = "threads" /\ gen \in {"raising", "dropping"}
  /\ queue = << >> /\ running = {}
  /\ gen' = IF gen = "raising" THEN "raised" ELSE "dropped"
  /\ UNCHANGED <<Input, cur, left, given, Pool, reads, Fast>>

-----------------------------------------------------------------------------
(* fastsafetensors: loaders are numbered by whether they use GDS *)

\* Defect, not part of LoadNext: falls back whatever was handed out.
RaisesLate(isGds) == ~gds \/ ~isGds

\* The exception is raised on, or a second loader is tried without GDS.
Raises(isGds) == ~gds \/ given # << >> \/ ~isGds

\* pg.size() > 1: no GDS from the start.
FastStart ==
  /\ kind = "fast" /\ Move("start", "construct")
  /\ gds' = (world_size = 1)
  /\ UNCHANGED <<Input, cur, left, given, Pool, reads, open>>

\* The fallback closes the loader it had, if it had one, before the next.
FallBack == gen' = "construct" /\ gds' = FALSE /\ open' = {}

Construct ==
  /\ kind = "fast" /\ gen = "construct"
  /\ \/ /\ gen' = "next" /\ open' = open \cup {gds}
        /\ left' = FlattenSeq([i \in DOMAIN chosen |-> Wanted(chosen[i])])
        /\ UNCHANGED gds
     \/ /\ UNCHANGED left
        /\ \E isGds \in {FALSE, gds} :
             IF Raises(isGds) THEN gen' = "raising" /\ UNCHANGED Fast
                              ELSE FallBack
  /\ UNCHANGED <<Input, cur, given, Pool, reads>>

FastTensor ==
  /\ kind = "fast" /\ gen = "next"
  /\ \/ Hand("next") /\ UNCHANGED Fast
     \/ /\ left = << >> /\ gen' = "ending" /\ UNCHANGED <<left, given, Fast>>
     \/ /\ \E isGds \in {FALSE, gds} :
             IF Raises(isGds) THEN gen' = "raising" /\ UNCHANGED Fast
                              ELSE FallBack
        /\ UNCHANGED <<left, given>>
  /\ UNCHANGED <<Input, cur, Pool, reads>>

\* finally: the last loader is closed.
FastClose ==
  /\ kind = "fast" /\ gen \in {"ending", "raising", "dropping"}
  /\ open' = open \ {gds}
  /\ gen' = CASE gen = "ending" -> "done" [] gen = "raising" -> "raised"
              [] gen = "dropping" -> "dropped"
  /\ UNCHANGED <<Input, cur, left, given, Pool, reads, gds>>

-----------------------------------------------------------------------------

AtYield == IF kind = "fast" THEN given # << >>
           ELSE cur # None /\ Len(left) < Len(Wanted(cur))

\* The caller drops the generator, at a tensor it was handed.
Drop ==
  /\ gen = "next" /\ AtYield
  /\ gen' = IF kind = "lazy" THEN "dropped" ELSE "dropping"
  /\ UNCHANGED <<Input, cur, left, given, Pool, reads, Fast>>

Prefetch == \E f \in ToSet(Folder) : PrefetchBegin(f) \/ PrefetchEnd(f)
Threads  == Begin \/ \E f \in ToSet(Folder) : End(f)
Generate == \/ SelectFiles \/ LazyStart \/ LazyOpen \/ LazyTensor
            \/ Submit \/ ThreadTensor \/ Exhausted \/ Shutdown
            \/ FastStart \/ Construct \/ FastTensor \/ FastClose
            \/ \E f \in ToSet(Folder) : Take(f)

LoadNext == Generate \/ Drop \/ Prefetch \/ Threads

\* Threads go on while they can; the caller asks for the next tensor or drops
\* the generator.
LoadFair == /\ WF_loadVars(Generate \/ Drop)
            /\ WF_loadVars(Prefetch) /\ WF_loadVars(Threads)

LoadSpec == LoadInit /\ [][LoadNext]_loadVars /\ LoadFair

-----------------------------------------------------------------------------

\* Names the model waits for: what the index names, less what a lazy reader
\* leaves out.
Needed == (UNION {ToSet(Contents[f]) : f \in index}) \ (IF kind = "lazy" THEN Unneeded ELSE {})

\* "Passing both of these to the weight loader functionality breaks": no tensor
\* is handed out twice, whatever order files end in and whenever the fallback to
\* no GDS comes, and a generator that ends by itself has handed out every
\* tensor: no file that failed was passed over.
EachTensorOnce ==
  /\ IsInjective(given)
  /\ gen = "done" => ToSet(given) = Needed

\* When the generator has ended, also by an error or because the caller dropped
\* it, no job is left in the pool and no loader is left open.
NothingLeftRunning == gen \in Ends => queue = << >> /\ running = {} /\ open = {}

\* The generator comes to its end, and prefetching to the end of the rank's
\* share: a file that cannot be read keeps no other from the page cache.
GeneratorEnds ==
  <>[](/\ gen \in Ends /\ reads.todo = {} /\ reads.busy = {}
       /\ reads.asked => OwnReads(chosen) \ BadFiles \subseteq reads.cached)

-----------------------------------------------------------------------------
(* The strengthening behind NothingLeftRunning *)

LoadInv ==
  /\ kind # "threads" \/ gen \in {"select", "start"} => queue = << >> /\ running = {}
  /\ kind # "fast" \/ gen \in {"select", "start"} => open = {}
  /\ open \subseteq {gds}
  /\ NothingLeftRunning
=============================================================================
