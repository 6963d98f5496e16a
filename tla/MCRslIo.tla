------------------------------- MODULE MCRslIo -------------------------------
(***************************************************************************)
(* RslIo on a domain of three columns of two points and three processors,  *)
(* used in two ways.  As MM5 does, with one column to each processor: a    *)
(* record that is read, one that is written and smaller than the domain,   *)
(* so that the last processor has no part in it, an internal write, a      *)
(* header and a flush.  And with parts that are no rectangles, as no       *)
(* regular decomposition makes, in each of the six layouts.                *)
(***************************************************************************)
EXTENDS RslIo

Field(op, layout, internal, m, n, k) ==
  [op |-> op, layout |-> layout, internal |-> internal, m |-> m, n |-> n, k |-> k]

AsMM5 ==
  [owner |-> [pt \in Point |-> pt[1]], regular |-> TRUE, buffer |-> TRUE, max |-> 3,
   calls |-> {Field("read", "IJK", FALSE, 2, 2, 2), Field("write", "IJK", FALSE, 2, 2, 2),
              Field("write", "IJ", TRUE, 2, 3, 1), [op |-> "header"], [op |-> "flush"]}]

\* Reads of a record with fewer rows than the domain, as the records of nests
\* are, and writes of one with fewer columns.
Levels(layout) == IF layout \in {"IJ", "JI"} THEN 1 ELSE 2
Irregular ==
  [owner |-> [pt \in Point |-> IF pt \in {<<0, 1>>, <<1, 0>>, <<1, 1>>} THEN 1
                              ELSE IF pt = <<2, 0>> THEN 2 ELSE 0],
   regular |-> FALSE, buffer |-> FALSE, max |-> 1,
   calls |-> {Field("read", l, FALSE, 1, 2, Levels(l)) : l \in Layout}
             \union {Field("write", l, FALSE, 2, 2, Levels(l)) : l \in Layout}]

BothWays == {AsMM5, Irregular}

\* The layouts that RSL_WRITE documents, of a record of two levels.
AsDocumented ==
  {[owner |-> [pt \in Point |-> pt[1]], regular |-> TRUE, buffer |-> FALSE, max |-> 1,
    calls |-> {Field("write", l, FALSE, 2, 3, 2) : l \in {"IJK", "JIK"}}]}
===============================================================================
