----------------------------- MODULE Filtering -----------------------------
(***************************************************************************)
(* The loop with which the WAF copies a list: every value in turn is       *)
(* appended to the result when it passes a test, here the set of those     *)
(* that do.  It is written as a recursive function and not with SelectSeq, *)
(* of which the provers know nothing.                                      *)
(***************************************************************************)
EXTENDS Naturals, Sequences

Keep(s, S) ==
  LET kept[i \in 0 .. Len(s)] ==
        IF i = 0 THEN <<>>
        ELSE IF s[i] \in S THEN Append(kept[i - 1], s[i]) ELSE kept[i - 1]
  IN  kept[Len(s)]
=============================================================================
