---------------------------- MODULE MCWorkbookLoad ----------------------------
EXTENDS WorkbookLoad

Small == [declared |-> 1, packed |-> 1, actual |-> 1, wellFormed |-> TRUE,
          strings |-> 0, repeats |-> FALSE]
MCLower == [n \in {"A", "a", "B", "C", "x", "X"} |->
              CASE n = "A" -> "a" [] n = "X" -> "x" [] OTHER -> n]

\* Two parts whose sizes are what they say, or not.
Sized == [declared : {0, 1, 3, 4}, packed : {0, 1, 2}, actual : {0, 1, 3, 4},
          wellFormed : {TRUE}, strings : {0}, repeats : {FALSE}]
Rels(a, b) == [r1 |-> [type |-> a, target |-> "s1"], r2 |-> [type |-> b, target |-> "s2"],
               r3 |-> [type |-> "worksheet", target |-> "s3"],
               r4 |-> [type |-> "sharedStrings", target |-> "strings2"],
               r5 |-> [type |-> "styles", target |-> "s4"]]
SizePackages ==
  {[parts |-> [workbook |-> Small, rels |-> Small, s1 |-> p, s2 |-> q],
    rels |-> Rels("worksheet", "worksheet"), lower |-> MCLower, names |-> <<>>,
    sheets |-> <<[name |-> "A", rid |-> "r1"], [name |-> "B", rid |-> "r2"]>>] :
     p \in Sized, q \in Sized}

\* Sheets skipped, missing and out of their order, with names scoped to them.
Kinds == {"worksheet", "chartsheet"}
Rids == {"r1", "r2", "r3", "nowhere", None}
Scopes == {None, 0, 1, 2}
SheetPackages ==
  {[parts |-> [workbook |-> Small, rels |-> Small, s1 |-> Small, s2 |-> Small],
    rels |-> Rels("worksheet", k), lower |-> MCLower,
    sheets |-> <<[name |-> "A", rid |-> r], [name |-> n, rid |-> q],
                 [name |-> "C", rid |-> "r1"]>>,
    names |-> <<[name |-> "x", scope |-> s], [name |-> "X", scope |-> t],
                [name |-> "x", scope |-> u]>>] :
     k \in Kinds, r \in Rids, q \in Rids, n \in {"a", "B"}, s \in Scopes, t \in Scopes, u \in Scopes}

\* The optional parts, and what the XML may hold.
Table == [Small EXCEPT !.strings = 1]
Contents ==
  {Small, Table, [Small EXCEPT !.repeats = TRUE], [Small EXCEPT !.wellFormed = FALSE]}
Extras ==
  {{"strings"}, {"strings", "strings2"}, {"strings2"}, {"s4"}, {"styles"}, {"styles", "strings"},
   {"strings2", "s4", "styles"}, {}}
PartPackages ==
  {[parts |-> [p \in {"workbook", "rels", "s1"} \cup extra |->
                 IF p = "s1" THEN c ELSE IF p = "strings" THEN Table ELSE Small],
    rels |-> Rels("worksheet", "worksheet"), lower |-> MCLower, names |-> <<>>,
    sheets |-> <<[name |-> "A", rid |-> "r1"]>>] : c \in Contents, extra \in Extras}

MCPackages == SizePackages \cup SheetPackages \cup PartPackages
=============================================================================
