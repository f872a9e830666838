--------------------------- MODULE NpWeightCache ---------------------------
(***************************************************************************)
(* The numpy copy of a checkpoint that the worker processes of a node      *)
(* share (files/weight_utils.py, np_cache_weights_iterator, get_lock).     *)
(*                                                                         *)
(* Under a file lock a process dumps every tensor to a file of its own and *)
(* then writes weight_names.json, which later processes take as the sign   *)
(* that the dump is there.  Files are read after the lock is released.  A  *)
(* process may be killed at any moment; its lock is then released, what it *)
(* wrote stays, and it may be started again.                               *)
(***************************************************************************)
EXTENDS Naturals, Sequences, FiniteSets

CONSTANTS Processes,
          Weights,      \* the checkpoint's tensors, in the order of its files
          CrashPoints,  \* where a process may be killed
          MaxCrashes    \* bound: processes killed

ASSUME WeightsAssumption == Weights \in Seq(STRING) /\ Weights # << >>
ASSUME CrashAssumption == MaxCrashes \in Nat

VARIABLES pc,       \* per process: where it is
          pos,      \* per process: the tensor it is at
          lock,     \* the processes holding the file lock
          files,    \* per tensor: absent, open (truncated, being written), whole
          names,    \* weight_names.json, likewise
          got,      \* per process: the tensors it has yielded
          crashes

vars == <<pc, pos, lock, files, names, got, crashes>>

Numbers == 1..Len(Weights)
Stages  == {"start", "check", "open", "save", "open_names", "write_names",
            "read_names", "load", "finished", "error", "down"}

Init == /\ pc = [p \in Processes |-> "start"] /\ pos = [p \in Processes |-> 1]
        /\ lock = {} /\ names = "absent" /\ crashes = 0
        /\ files = [w \in Numbers |-> "absent"]
        /\ got = [p \in Processes |-> << >>]

Goto(p, from, to) == pc[p] = from /\ pc' = [pc EXCEPT ![p] = to]

\* Defect, not part of Next: the lock is entered without waiting.
EnterUnlocked(p) ==
  /\ Goto(p, "start", "check")
  /\ lock' = lock \cup {p}
  /\ UNCHANGED <<pos, files, names, got, crashes>>

Acquire(p) ==
  /\ Goto(p, "start", "check")
  /\ lock = {} /\ lock' = {p}
  /\ UNCHANGED <<pos, files, names, got, crashes>>

Release(p) == lock' = lock \ {p}

\* The dump is taken to be there if weight_names.json exists.
CheckDumped(p) ==
  /\ names # "absent"
  /\ Goto(p, "check", "read_names")
  /\ Release(p)
  /\ UNCHANGED <<pos, files, names, got, crashes>>

\* Defect, not part of Next: the names file is there before the first tensor.
OpenNamesFirst(p) ==
  /\ names = "absent"
  /\ Goto(p, "check", "open")
  /\ names' = "whole"
  /\ pos' = [pos EXCEPT ![p] = 1]
  /\ UNCHANGED <<lock, files, got, crashes>>

CheckMissing(p) ==
  /\ names = "absent"
  /\ Goto(p, "check", "open")
  /\ pos' = [pos EXCEPT ![p] = 1]
  /\ UNCHANGED <<lock, files, names, got, crashes>>

OpenParam(p) ==
  /\ Goto(p, "open", "save")
  /\ files' = [files EXCEPT ![pos[p]] = "open"]
  /\ UNCHANGED <<pos, lock, names, got, crashes>>

SaveParam(p) ==
  LET last == pos[p] = Len(Weights)
  IN  /\ Goto(p, "save", IF last THEN "open_names" ELSE "open")
      /\ files' = [files EXCEPT ![pos[p]] = "whole"]
      /\ pos' = [pos EXCEPT ![p] = IF last THEN @ ELSE @ + 1]
      /\ UNCHANGED <<lock, names, got, crashes>>

\* open(..., "w") creates the names file empty; json.dump fills it; the lock
\* is released at the end of the with statement.
OpenNames(p) ==
  /\ Goto(p, "open_names", "write_names")
  /\ names' = "open"
  /\ UNCHANGED <<pos, lock, files, got, crashes>>

WriteNames(p) ==
  /\ Goto(p, "write_names", "read_names")
  /\ names' = "whole" /\ Release(p)
  /\ UNCHANGED <<pos, files, got, crashes>>

\* Outside the lock; an unfinished file makes json.load raise.
ReadNames(p) ==
  /\ Goto(p, "read_names", IF names = "whole" THEN "load" ELSE "error")
  /\ pos' = [pos EXCEPT ![p] = 1]
  /\ UNCHANGED <<lock, files, names, got, crashes>>

LoadParam(p) ==
  LET ok   == files[pos[p]] = "whole"
      last == pos[p] = Len(Weights)
  IN  /\ Goto(p, "load", IF ~ok THEN "error" ELSE IF last THEN "finished" ELSE "load")
      /\ got' = IF ok THEN [got EXCEPT ![p] = Append(@, Weights[pos[p]])] ELSE got
      /\ pos' = [pos EXCEPT ![p] = IF last THEN @ ELSE @ + 1]
      /\ UNCHANGED <<lock, files, names, crashes>>

Crash(p) ==
  /\ crashes < MaxCrashes /\ pc[p] \in CrashPoints
  /\ crashes' = crashes + 1
  /\ pc' = [pc EXCEPT ![p] = "down"]
  /\ Release(p)
  /\ UNCHANGED <<pos, files, names, got>>

Restart(p) ==
  /\ pc[p] = "down"
  /\ pc' = [pc EXCEPT ![p] = "start"]
  /\ pos' = [pos EXCEPT ![p] = 1]
  /\ got' = [got EXCEPT ![p] = << >>]
  /\ UNCHANGED <<lock, files, names, crashes>>

Work(p) == \/ Acquire(p) \/ CheckDumped(p) \/ CheckMissing(p)
           \/ OpenParam(p) \/ SaveParam(p) \/ OpenNames(p) \/ WriteNames(p)
           \/ ReadNames(p) \/ LoadParam(p) \/ Restart(p)

Next == \E p \in Processes : Work(p) \/ Crash(p)

\* A process goes on while it can, gets the lock if it is free again and
\* again, and is started again after it was killed.
Spec == Init /\ [][Next]_vars /\ \A p \in Processes : SF_vars(Work(p))

-----------------------------------------------------------------------------

Dumping(p) == pc[p] \in {"open", "save", "open_names", "write_names"}

Types ==
  /\ pc \in [Processes -> Stages] /\ pos \in [Processes -> Numbers]
  /\ lock \subseteq Processes /\ crashes \in 0..MaxCrashes
  /\ files \in [Numbers -> {"absent", "open", "whole"}]
  /\ names \in {"absent", "open", "whole"}

\* What a process has yielded is a prefix of the checkpoint, whoever dumped it.
TypeOK == Types /\ \A p \in Processes : got[p] = SubSeq(Weights, 1, Len(got[p]))

\* "prevent multiple processes from dumping the same model weights to numpy at
\* the same time", also when the process that dumps is killed.
OneDumps == Cardinality({p \in Processes : Dumping(p)}) <= 1

\* A process past the lock finds the whole dump, and nobody writes to it any
\* more, though it reads without the lock.
ReadersFindDump ==
  \A p \in Processes : pc[p] \in {"read_names", "load"} =>
    /\ names = "whole" /\ \A w \in Numbers : files[w] = "whole"
    /\ \A q \in Processes : ~Dumping(q)

\* Every process gets every tensor in the end, once.
AllLoaded == <>[](\A p \in Processes : pc[p] = "finished" /\ got[p] = Weights)

\* "Will dump the model weights to numpy files if they are not already
\* dumped": a process that found something to load loads all of it.
DumpedOrDumps == \A p \in Processes : pc[p] # "error"

-----------------------------------------------------------------------------
(* The strengthening behind OneDumps and ReadersFindDump: who is between the *)
(* lock's acquire and release holds it, alone, and how far it is tells what  *)
(* is on disk.                                                               *)

Holding(p) == Dumping(p) \/ pc[p] = "check"

LockInv == /\ \A p \in Processes : Holding(p) => p \in lock
           /\ \A p, q \in lock : p = q

WholeBelow(n) == \A w \in Numbers : w < n => files[w] = "whole"

DumpInv == \A p \in Processes :
  /\ pc[p] \in {"open", "save"} => names = "absent" /\ WholeBelow(pos[p])
  /\ pc[p] = "open_names" => names = "absent" /\ WholeBelow(Len(Weights) + 1)
  /\ pc[p] = "write_names" => names = "open" /\ WholeBelow(Len(Weights) + 1)
  /\ pc[p] \in {"read_names", "load"} => names = "whole"

NamesInv == /\ names = "whole" => WholeBelow(Len(Weights) + 1)
            /\ names = "open" => \E p \in Processes : pc[p] = "write_names"

IInv == Types /\ LockInv /\ DumpInv /\ NamesInv
=============================================================================
