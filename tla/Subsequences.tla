---------------------------- MODULE Subsequences ----------------------------
(***************************************************************************)
(* What is left of a vector of the daemon when entries are erased in a     *)
(* loop.  SelectSeq says the same, but no prover knows it.                 *)
(***************************************************************************)
EXTENDS Naturals, Sequences

(* The entries of q that are in S, in their order.                          *)
Only(q, S) ==
  LET upTo[i \in 0..Len(q)] ==
        IF i = 0 THEN <<>>
        ELSE IF q[i] \in S THEN Append(upTo[i - 1], q[i]) ELSE upTo[i - 1]
  IN  upTo[Len(q)]

=============================================================================
