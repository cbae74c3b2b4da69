------------------------------- MODULE Lists -------------------------------
(***************************************************************************)
(* List comprehensions and removals of the code, [x for x in s if x in S], *)
(* with a set where SelectSeq has a test, and by a recursive function: so  *)
(* that what they return can be proved.                                    *)
(***************************************************************************)
EXTENDS Integers, Sequences

(* The elements of s that are in S, in their order.                        *)
Only(s, S) ==
  LET kept[i \in 0 .. Len(s)] ==
        IF i = 0 THEN << >>
        ELSE IF s[i] \in S THEN Append(kept[i - 1], s[i]) ELSE kept[i - 1]
  IN  kept[Len(s)]

Members(s) == {s[i] : i \in DOMAIN s}
=============================================================================
