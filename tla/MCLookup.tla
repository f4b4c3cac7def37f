------------------------------ MODULE MCLookup ------------------------------
(* Lines of five cells, the last never filled. Texts: 0 is empty, 1 spells a *)
(* number, 2 and 3 are words, 4 is a pattern for both, 5 any three           *)
(* characters, and 6 a number, a no-break space and a percent sign: it is    *)
(* not ASCII and its reading as a number is refused.                         *)
EXTENDS TLC, Aggregates, Dates

MCNumericText == (1 :> 1)
MCReadings == (1 :> Num(1)) @@ (6 :> Unsupported)
MCGlobs == (4 :> {2, 3}) @@ (5 :> {1, 2, 6})

MCKeyInputs ==
  [p \in 0..3 |->
     CASE p = 0 -> {Blank, Num(0), Text(1), Err("NA")}
       [] p = 1 -> {Num(1), Text(2), Truth(FALSE)}
       [] p = 2 -> {Blank, Num(2), Text(0), Text(3), Unsupported}
       [] p = 3 -> {Num(2), Text(6), Truth(TRUE)}]
MCResultInputs ==
  [p \in {0, 3} |-> IF p = 3 THEN {Num(40), Err("DIV0")} ELSE {Num(10 * (p + 1))}]

MCKeys == {Blank, Num(0), Num(1), Num(2), Text(0), Text(2), Text(4), Truth(FALSE)}
MCCriteria == {Blank, Num(1), Truth(TRUE), Text(4), Text(5)}
              \union {<<"crit", op, t>> : op \in {"=", "<>"}, t \in {0, 1, 2}}
              \union {<<"crit", ">=", 1>>, <<"crit", "<", 3>>, <<"crit", ">", 6>>, <<"crit", "<=", 0>>}
MCOtherCriteria == {Num(10), <<"crit", "=", 0>>}
=============================================================================
