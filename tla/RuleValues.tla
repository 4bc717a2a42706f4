----------------------------- MODULE RuleValues -----------------------------
(***************************************************************************)
(* What the modules of sequential rules share, which one run checks side   *)
(* by side.                                                                *)
(***************************************************************************)
EXTENDS Integers, Sequences

CONSTANT None   \* no value

Larger(a, b)  == IF a >= b THEN a ELSE b
Smaller(a, b) == IF a <= b THEN a ELSE b

\* The sum of a sequence of numbers, and what of a sequence is in a set: recursive functions
\* over the indexes, about which the theorems can be proved.
SumOf(s) ==
    LET sum[i \in 0..Len(s)] == IF i = 0 THEN 0 ELSE sum[i - 1] + s[i]
    IN  sum[Len(s)]

Keeping(s, S) ==
    LET kept[i \in 0..Len(s)] == IF i = 0 THEN <<>>
                                 ELSE IF s[i] \in S THEN Append(kept[i - 1], s[i]) ELSE kept[i - 1]
    IN  kept[Len(s)]

\* The sequences of a sequence, one after the other.
Joined(parts) ==
    LET joined[i \in 0..Len(parts)] == IF i = 0 THEN <<>> ELSE joined[i - 1] \o parts[i]
    IN  joined[Len(parts)]
=============================================================================
