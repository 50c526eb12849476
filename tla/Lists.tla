-------------------------------- MODULE Lists --------------------------------
(***************************************************************************)
(* What std::erase_if, std::copy_if and the loops written out by hand      *)
(* leave of a list.                                                        *)
(***************************************************************************)
EXTENDS Naturals, Sequences, SequencesExt

\* The rows of a list that are in a set, in their order.
Select(list, S) ==
  LET kept[n \in 0 .. Len(list)] ==
        IF n = 0 THEN << >>
        ELSE IF list[n] \in S THEN Append(kept[n - 1], list[n]) ELSE kept[n - 1]
  IN  kept[Len(list)]

=============================================================================
