---------------------------- MODULE AtomicWriter ----------------------------
(***************************************************************************)
(* Writers that replace one file through temporary files of their own      *)
(* (files/weight_utils.py, atomic_writer).  Every step may fail, and a     *)
(* writer may be killed between any two.  mkstemp is taken never to give   *)
(* the same name twice, so a temporary file is known by its writer.        *)
(***************************************************************************)
EXTENDS Naturals, FiniteSets

CONSTANTS Writers, MaxKills   \* bound: writers killed

ASSUME KillsAssumption == MaxKills \in Nat

VARIABLES at,      \* per writer: where it is
          temp,    \* per writer: its temporary file: absent, part, whole
          target,  \* the file: who wrote it, and whether all of it
          placed,  \* writers whose file has been the target
          raised,  \* writers an exception was raised to
          kills

writerVars == <<at, temp, target, placed, raised, kills>>

Original == [by |-> "original", full |-> TRUE]

WriterInit ==
  /\ at = [w \in Writers |-> "begin"] /\ temp = [w \in Writers |-> "absent"]
  /\ target = Original /\ placed = {} /\ raised = {} /\ kills = 0

Step(w, from, to) == at[w] = from /\ at' = [at EXCEPT ![w] = to]
Leave(w, file)    == temp' = [temp EXCEPT ![w] = file]

MakeTemp(w) ==
  /\ Step(w, "begin", "write") /\ Leave(w, "part")
  /\ UNCHANGED <<target, placed, raised, kills>>

\* Defect, not part of WriterNext: what was written replaces the file, too,
\* if the block ends with an exception.
WriteTempAnyway(w) ==
  /\ \/ Step(w, "write", "replace") /\ Leave(w, "whole") /\ UNCHANGED raised
     \/ Step(w, "write", "replace") /\ raised' = raised \cup {w} /\ UNCHANGED temp
  /\ UNCHANGED <<target, placed, kills>>

\* The caller's block, then the file is closed, which may fail like the block.
WriteTemp(w) ==
  /\ \/ Step(w, "write", "replace") /\ Leave(w, "whole") /\ UNCHANGED raised
     \/ Step(w, "write", "cleanup") /\ raised' = raised \cup {w} /\ UNCHANGED temp
  /\ UNCHANGED <<target, placed, kills>>

Replace(w) ==
  /\ \/ /\ Step(w, "replace", "cleanup") /\ Leave(w, "absent")
        /\ target' = [by |-> w, full |-> temp[w] = "whole"]
        /\ placed' = placed \cup {w} /\ UNCHANGED raised
     \/ /\ Step(w, "replace", "cleanup") /\ raised' = raised \cup {w}
        /\ UNCHANGED <<temp, target, placed>>
  /\ UNCHANGED kills

\* Defect, not part of WriterNext: the temporary file is removed on success.
CleanUpOnSuccess(w) ==
  /\ Step(w, "cleanup", "end")
  /\ IF w \in raised THEN UNCHANGED temp ELSE Leave(w, "absent")
  /\ UNCHANGED <<target, placed, raised, kills>>

CleanUp(w) ==
  /\ Step(w, "cleanup", "end") /\ Leave(w, "absent")
  /\ UNCHANGED <<target, placed, raised, kills>>

Kill(w) ==
  /\ at[w] \notin {"begin", "end", "killed"} /\ kills < MaxKills
  /\ at' = [at EXCEPT ![w] = "killed"] /\ kills' = kills + 1
  /\ UNCHANGED <<temp, target, placed, raised>>

WriterNext ==
  \E w \in Writers : MakeTemp(w) \/ WriteTemp(w) \/ Replace(w) \/ CleanUp(w) \/ Kill(w)

WriterSpec == WriterInit /\ [][WriterNext]_writerVars

-----------------------------------------------------------------------------

\* "Atomically replaces the original file": whoever reads the file finds the
\* original or all that one writer wrote; a writer that was raised to has not
\* touched it ("Original file not modified"), one that returns has replaced it.
ReplacedOrNot ==
  /\ target.full /\ placed \cap raised = {}
  /\ \A w \in Writers : at[w] = "end" => w \in placed \cup raised

\* A temporary file is left behind by nobody but a killed writer.
NoTempLeft ==
  \A w \in Writers : at[w] = "end" => temp[w] = "absent"

-----------------------------------------------------------------------------
(* The strengthening behind both: how far a writer is tells what it left *)

WriterInv ==
  /\ target.full /\ placed \cap raised = {}
  /\ at \in [Writers -> {"begin", "write", "replace", "cleanup", "end", "killed"}]
  /\ temp \in [Writers -> {"absent", "part", "whole"}]
  /\ \A w \in Writers :
       /\ at[w] \in {"begin", "write", "replace"} => w \notin placed \cup raised
       /\ at[w] = "replace" => temp[w] = "whole"
       /\ at[w] \in {"cleanup", "end"} => w \in placed \cup raised
       /\ at[w] = "end" => temp[w] = "absent"
=============================================================================
