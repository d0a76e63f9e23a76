------------------------------- MODULE Selection -------------------------------
(***************************************************************************)
(* The lists and dictionaries of the program.  Only(s, T) is SelectSeq(s,  *)
(* LAMBDA x : x \in T) as a recursive function, about which proofs are     *)
(* possible; Put(f, k, v) is (k :> v) @@ f in the same way.                *)
(***************************************************************************)
EXTENDS Naturals, Sequences

\* The elements of s that are in T, in their order.
Only(s, T) ==
  LET kept[n \in 0..Len(s)] ==
        IF n = 0 THEN <<>>
        ELSE IF s[n] \in T THEN Append(kept[n - 1], s[n]) ELSE kept[n - 1]
  IN  kept[Len(s)]

\* No element stands in s twice.
NoRepeats(s) == \A i, j \in DOMAIN s : s[i] = s[j] => i = j

\* f[k] = v: the key is added, or its value replaced.
Put(f, k, v) == [x \in DOMAIN f \cup {k} |-> IF x = k THEN v ELSE f[x]]
===============================================================================
