--------------------------- MODULE RequestSearch ---------------------------
(***************************************************************************)
(* Which request does a token of the batch belong to?  The hash kernel     *)
(* (files/engram.py, _hash_ids_kernel) answers for a block of tokens at    *)
(* once, by a binary search for the upper bound of the token in            *)
(* query_start_loc[1:].  The lanes of a block advance together until the   *)
(* last of them has its answer; a finished lane must keep its own.  The    *)
(* array may end in repeated boundaries (padding rows of a captured graph) *)
(* and hold empty requests, and the block may hold tokens past the batch.  *)
(***************************************************************************)
EXTENDS Naturals

CONSTANTS NumRows,     \* rows of query_start_loc, padding included
          MaxTokens    \* tokens of the batch at most; lanes 0..MaxTokens

ASSUME NumRowsAssumption   == NumRows \in Nat \ {0}
ASSUME MaxTokensAssumption == MaxTokens \in Nat

VARIABLES start,   \* query_start_loc: where each row's tokens start
          lo, hi   \* per lane: the answer is in lo..hi

vars == <<start, lo, hi>>

Rows  == 1..NumRows
Lanes == 0..MaxTokens      \* lane t searches for token t

\* Row r (from 0) holds the tokens start[r] .. start[r+1]-1.
QueryStartLocs ==
  {s \in [0..NumRows -> 0..MaxTokens] :
     /\ s[0] = 0
     /\ \A i, j \in 0..NumRows : i <= j => s[i] <= s[j]}

Init == /\ start \in QueryStartLocs
        /\ lo = [t \in Lanes |-> 0]
        /\ hi = [t \in Lanes |-> NumRows]

Active(t) == lo[t] < hi[t]
Mid(t)    == (lo[t] + hi[t]) \div 2

\* Defect, not part of Next: the comparison misses a token that opens a row.
RightStrict(t) == t > start[Mid(t) + 1]

Right(t) == t >= start[Mid(t) + 1]

\* Defect, not part of Next: the lower end moves to the middle, not past it.
HalveShort ==
  /\ \E t \in Lanes : Active(t)
  /\ lo' = [t \in Lanes |-> IF Active(t) /\ Right(t) THEN Mid(t) ELSE lo[t]]
  /\ hi' = [t \in Lanes |-> IF Active(t) /\ ~Right(t) THEN Mid(t) ELSE hi[t]]
  /\ UNCHANGED start

\* One turn of the loop, for all lanes of the block.
Halve ==
  /\ \E t \in Lanes : Active(t)
  /\ lo' = [t \in Lanes |-> IF Active(t) /\ Right(t) THEN Mid(t) + 1 ELSE lo[t]]
  /\ hi' = [t \in Lanes |-> IF Active(t) /\ ~Right(t) THEN Mid(t) ELSE hi[t]]
  /\ UNCHANGED start

Next == Halve
Spec == Init /\ [][Next]_vars /\ WF_vars(Next)

Finished == \A t \in Lanes : ~Active(t)

\* The row the kernel goes on with.
Req(t) == IF lo[t] < NumRows THEN lo[t] ELSE NumRows - 1

TypeOK == /\ start \in QueryStartLocs
          /\ lo \in [Lanes -> 0..NumRows]
          /\ hi \in [Lanes -> 0..NumRows]

\* The rows below lo end at or before the lane's token, those from hi on
\* after it, through every turn of the loop.
Bracket == \A t \in Lanes :
             /\ lo[t] <= hi[t]
             /\ \A r \in Rows : r <= lo[t] => start[r] <= t
             /\ \A r \in Rows : r > hi[t]  => t < start[r]

IInv == TypeOK /\ Bracket

\* Every token of the batch is given the row that holds it, never an empty or
\* padding row that starts or ends at the same place.
FindsOwnRow ==
  Finished => \A t \in Lanes :
    t < start[NumRows] => start[Req(t)] <= t /\ t < start[Req(t) + 1]
=============================================================================
