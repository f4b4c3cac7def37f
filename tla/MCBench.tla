------------------------------- MODULE MCBench -------------------------------
(* The report file, and the workbooks whose refusals the decline tools       *)
(* explain: sheet 1 has the cells A1:A3, B1 and B2, sheet 2 its A1. Group 0  *)
(* has its master in A1, or in A2, and followers below it and on sheet 2.    *)
EXTENDS ReportFile, Decline

MCSymmetry == Permutations(Run) \cup Permutations(Pid)

MCSheetMap == ("One" :> 1) @@ ("Two" :> 2)
At(n) == [at |-> n, fixed |-> FALSE]
Fixed(n) == [at |-> n, fixed |-> TRUE]
Ref(sheet, row, col) == <<"ref", [sheet |-> sheet, row |-> row, col |-> col]>>
Call(f) == <<"call", f>>

Formula(parts) == [kind |-> "normal", si |-> None, body |-> <<"sum", parts>>, oracle |-> TRUE]
Master(parts) == [Formula(parts) EXCEPT !.kind = "shared", !.si = 0]
Unreadable(why, marks) == [Master(<<>>) EXCEPT !.body = <<"text", why, marks>>]
Follower(kind, si) == [kind |-> kind, si |-> si, body |-> None, oracle |-> TRUE]
NoOracle(e) == [e EXCEPT !.oracle = FALSE]

A(n) == Ref(None, At(n), At(0))
B(n) == Ref(None, At(n), At(1))
MCMenu ==
  [c \in Cell |->
     CASE c = <<1, 0, 0>> -> {Master(<<B(0)>>), Master(<<Call("ABS"), <<"range", B(0), B(1)>> >>),
                              Unreadable("bracket", {"external"}),
                              Master(<<Ref(None, Fixed(0), Fixed(1)), A(1)>>), Master(<<<<"lambda">>>>),
                              Formula(<<<<"range", A(2), A(1)>> >>)}
       [] c = <<1, 1, 0>> -> {Follower("shared", 0), Unreadable("char", {}), Follower("array", None),
                              NoOracle(Follower("shared", 0)), Formula(<<<<"odd">>, A(2)>>)}
       [] c = <<1, 2, 0>> -> {Follower("shared", 0), Follower("shared", None), Formula(<<Call("RAND"), A(0)>>)}
       [] c = <<1, 0, 1>> -> {Formula(<<Call("TODAY")>>), Formula(<<Ref("[1]X", At(0), At(0))>>),
                              Formula(<<Ref("Two", At(0), At(0)), B(1)>>), Formula(<<<<"lambda">>>>)}
       [] c = <<1, 1, 1>> -> {Formula(<<Call("RTD"), Call("RAND"), B(0)>>), Formula(<<Ref("Gone", At(0), At(1)), <<"range", Ref("[1]X", At(0), At(0)), A(1)>> >>),
                              NoOracle(Formula(<<Call("ABS"), Call("MAP")>>)), Formula(<<Ref(None, None, At(0))>>)}
       [] c = <<2, 0, 0>> -> {Follower("shared", 0), Formula(<<Call("_XLL"), Call("Rate")>>),
                              Formula(<<<<"range", Ref("One", None, At(0)), Ref(None, None, At(0))>> >>)}
       [] OTHER -> {}]

\* A report is written, or a workbook is put together.
MCInit == ReportInit /\ BookInit
MCNext ==
  \/ ReportNext /\ FormulaCells = {} /\ UNCHANGED book
  \/ ReportInit /\ (\E c \in Cell : Enter(c)) /\ UNCHANGED reportVars
MCSpec == MCInit /\ [][MCNext]_<<reportVars, book>>
=============================================================================
