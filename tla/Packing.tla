------------------------------ MODULE Packing ------------------------------
(***************************************************************************)
(* Lists with gaps.  The refinement mappings of AsyncDispatcher and         *)
(* Scheduler see through entries of the code's lists that do not count.     *)
(***************************************************************************)
EXTENDS Naturals, Sequences

CONSTANT Null       \* what a gap holds

\* A list without its gaps.
Packed(list) ==
    LET upTo[n \in 0 .. Len(list)] ==
            IF n = 0 THEN <<>>
            ELSE IF list[n] = Null THEN upTo[n - 1] ELSE Append(upTo[n - 1], list[n])
    IN  upTo[Len(list)]
=============================================================================
