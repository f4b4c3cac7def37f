----------------------------- MODULE MCEvaluate -----------------------------
(* A sheet of 4 x 5 cells: A1, A2 and B1 are typed, C2 spills down one or    *)
(* two cells, the formula stands in D3. Parameters of LET and LAMBDA are     *)
(* numbers, defined names are strings.                                       *)
EXTENDS TLC, CallArgs

A1 == <<0, 0>>
A2 == <<1, 0>>
B1 == <<0, 1>>
C2 == <<1, 2>>
D3 == <<2, 3>>
MCPositions == {<<0, 3>>, <<1, 3>>, <<3, 3>>, <<3, 0>>, <<3, 1>>}

MCInputs == (A1 :> {Blank, Num(1), Text(<<"ref", A2>>)})
         @@ (A2 :> {Blank, Num(0), Num(2), Err("NA")})
         @@ (B1 :> {Blank, Num(1), Truth(TRUE)})

MCNameTable == ("cell" :> <<"ref", A2>>) @@ ("column" :> <<"range", Rect(0, 1, 0, 0)>>)
                @@ ("row" :> <<"range", Rect(1, 1, 0, 4)>>)

Lit(n) == <<"lit", Num(n)>>
Err1 == <<"lit", Err("DIV0")>>
Ref(c) == <<"ref", c>>
Call(f, args) == <<"call", f, args>>
Add(l, r) == <<"binary", "+", l, r>>
Mul(l, r) == <<"binary", "*", l, r>>
P(p) == <<"param", p>>
Lambda(params, body) == Call("LAMBDA", [i \in DOMAIN params |-> P(params[i])] \o <<body>>)
Let(p, v, body) == Call("LET", <<P(p), v, body>>)
Apply(p, args) == <<"apply", p, args>>

Col == <<"range", Rect(0, 1, 0, 0)>>
Col3 == <<"range", Rect(0, 2, 0, 0)>>
Row == <<"range", Rect(0, 0, 0, 1)>>
Box == <<"range", Rect(0, 1, 0, 1)>>
Whole == <<"range", Rect(0, 3, 0, 0)>>
WholeRow == <<"range", Rect(1, 1, 0, 4)>>
TwoRows == <<"range", Rect(0, 1, 0, 4)>>
Below3 == <<"range", Rect(1, 3, 1, 2)>>
Pair == <<"array", <<<<Lit(1)>>, <<Lit(2)>>>> >>
Omitted == <<"missing">>
Hash(e) == <<"spill", e>>
Offset(rows, h) == Call("OFFSET", <<Ref(A1), rows, Lit(0), h>>)
Indirect(e) == Call("INDIRECT", <<e>>)
Relative(dr, dc) == <<"lit", Text(<<"r1c1", dr, dc>>)>>

(* Element-wise arguments. *)
Atoms == {Lit(3), Ref(A1), Col, Row, Whole}
Ops == {Add(x, y) : x \in Atoms, y \in Atoms}
       \union {Mul(Col, x) : x \in {Col3, Row, Box, Pair, Ref(A2)}}
       \union {<<"unary", "-", x>> : x \in Atoms \union {Box}}
Tests == {Call("NOT", <<Col>>), Call("ISBLANK", <<Col>>), Call("ISBLANK", <<Ref(A2)>>), Col, Ref(B1)}
Ifs == {Call("IF", <<t, x, y>>) : t \in Tests, x \in {Col, Lit(3), Row}, y \in {Ref(A1), Add(Col, Lit(1)), Omitted}}
Wide == {Box, WholeRow, TwoRows, Below3, Whole, Mul(WholeRow, Lit(2)), <<"name", "row">>, <<"name", "none">>,
         Call("OFFSET", <<Ref(A1), Ref(A2), Lit(0), Lit(1), Lit(5)>>), Call("OFFSET", <<Ref(A1), Lit(0), Lit(0), Lit(4), Ref(B1)>>),
         <<"array", <<<<Ref(A2), Err1>>, <<Lit(7), Ref(A1)>>>> >>, <<"array", <<<<Ref(A2)>>>> >>, Err1}
Nested == {Add(Col, Call("IF", <<Col, Lit(5), Col>>)), Call("IF", <<Call("NOT", <<Call("ISBLANK", <<Col>>)>>), Col>>),
           Mul(Add(Col, Row), Box), Call("NOT", <<Add(Row, Col)>>), Call("IF", <<Ref(A2), Col>>)}
Sums == {Call("SUM", <<e>>) : e \in Atoms \union Ops \union Ifs \union Nested \union Wide}

(* References that only an evaluation resolves, and branches not taken. *)
Dynamic ==
  {Call("IF", <<Ref(A1), Ref(A2), Ref(B1)>>), Call("IF", <<Ref(B1), Call("SUM", <<Box>>)>>),
   Call("SUM", <<Hash(Ref(C2))>>), Hash(Ref(C2)), Call("ANCHORARRAY", <<Ref(C2)>>),
   Call("SUM", <<Call("ANCHORARRAY", <<Ref(C2)>>), Ref(A1)>>), Hash(Ref(A1)),
   Offset(Ref(A2), Lit(1)), Call("SUM", <<Offset(Lit(0), Ref(A2))>>),
   Call("SUM", <<Offset(Ref(B1), Lit(2)), Lit(1)>>), Offset(Lit(0 - 1), Lit(1)),
   Call("OFFSET", <<Col, Lit(0), Lit(1)>>), Call("OFFSET", <<Ref(A1), Lit(1)>>),
   Call("SUM", <<Call("OFFSET", <<Offset(Lit(1), Lit(1)), Lit(0 - 1), Lit(0), Omitted, Lit(2)>>)>>),
   Indirect(Ref(A1)), Call("SUM", <<Indirect(Ref(A1))>>), Indirect(<<"lit", Text(<<"name", "column">>)>>),
   Indirect(<<"lit", Text(<<"name", "none">>)>>), Call("INDIRECT", <<Relative(0 - 1, 0 - 1), Ref(A2)>>),
   Call("INDIRECT", <<Relative(2, 0), <<"lit", Truth(FALSE)>> >>),
   Call("SUM", <<Hash(Offset(Ref(B1), Lit(1)))>>),
   <<"name", "cell">>, Call("SUM", <<<<"name", "column">> >>), <<"name", "none">>, Add(<<"name", "column">>, Lit(1)),
   <<"at", Col>>, <<"at", Call("MAP", <<Col, Lambda(<<1>>, Add(P(1), Ref(B1)))>>)>>, Call("SUM", <<<<"at", Col3>> >>),
   Col3, Add(Row, Lit(1)), Add(Box, Lit(1)), Pair, Call("SUM", <<Pair, Omitted>>),
   <<"array", <<<<Ref(A1)>>>> >>, Call("RTD", <<Ref(A1)>>), Call("NOT", <<>>), Call("UNKNOWN", <<Ref(A1)>>),
   Call("NOT", <<Ref(A1)>>), Call("ISBLANK", <<Ref(A2)>>), Add(Call("INDIRECT", <<>>), Call("ANCHORARRAY", <<>>))}

(* Scopes: shadowing, closures, closures that outlive their scope, arity. *)
Adder == Lambda(<<2>>, Add(P(2), P(1)))
Scoped ==
  {Let(1, Ref(A1), Add(P(1), Let(1, Ref(A2), P(1)))), Let(1, Let(1, Lit(5), P(1)), Add(P(1), Ref(A2))),
   Call("LET", <<P(1), Ref(A2), P(3), Adder, P(1), Lit(7), Apply(3, <<Lit(1)>>)>>),
   Call("LET", <<P(1), Ref(A2), P(3), Adder, Let(1, Lit(7), Apply(3, <<P(1)>>))>>),
   Call("LET", <<P(3), Adder, P(1), Lit(7), Apply(3, <<Lit(1)>>)>>),
   Let(1, Lit(4), Call("LET", <<P(3), Lambda(<<1>>, Add(P(1), Ref(A1))), Apply(3, <<Add(P(1), Lit(1))>>)>>)),
   Call("LET", <<P(3), Lambda(<<1>>, Lambda(<<2>>, Add(P(1), P(2)))),
                 P(4), Apply(3, <<Lit(1)>>), P(5), Apply(3, <<Lit(2)>>), Mul(Apply(4, <<Ref(A2)>>), Apply(5, <<Lit(9)>>))>>),
   Let(3, Lambda(<<1, 2>>, P(1)), Apply(3, <<Lit(1)>>)), Let(3, Lit(1), Apply(3, <<Lit(1)>>)),
   Let(3, Ref(A2), Apply(3, <<>>)), Lambda(<<1>>, P(1)), Lambda(<<1, 1>>, P(1)), Call("LAMBDA", <<Lit(1), P(1)>>),
   Call("LET", <<Lit(1), Ref(A1), Lit(2)>>), Call("LET", <<P(1), Ref(A1)>>), Let(1, Lit(1), Offset(P(1), Lit(1))),
   Call("SUM", <<Let(1, Mul(Col3, Lit(2)), P(1))>>), Apply(1, <<Lit(1)>>)}
Applied ==
  {Call("SUM", <<Call("MAP", <<Col, Lambda(<<1>>, Mul(P(1), Lit(2)))>>)>>),
   Let(1, Ref(B1), Call("SUM", <<Call("MAP", <<Col, Pair, Lambda(<<2, 1>>, Add(P(2), P(1)))>>)>>)),
   Call("SUM", <<Call("MAP", <<Col, Row, Lambda(<<1, 2>>, P(1))>>)>>), Call("SUM", <<Call("MAP", <<Whole, Adder>>)>>),
   Let(1, Lit(3), Call("SUM", <<Call("MAP", <<Col, Adder>>)>>)), Call("MAP", <<Ref(A1), Lambda(<<1>>, Lambda(<<2>>, P(1)))>>),
   Call("REDUCE", <<Lit(0), Col, Lambda(<<1, 2>>, Add(Mul(P(1), Lit(2)), P(2)))>>),
   Call("SUM", <<Call("SCAN", <<Ref(B1), Col, Lambda(<<1, 2>>, Add(P(1), P(2)))>>)>>),
   Call("SUM", <<Call("BYROW", <<Box, Lambda(<<1>>, Call("SUM", <<P(1)>>))>>)>>),
   Call("SUM", <<Call("BYCOL", <<Box, Lambda(<<1>>, Call("SUM", <<P(1)>>))>>)>>),
   Call("SUM", <<Call("MAKEARRAY", <<Lit(2), Ref(A2), Lambda(<<1, 2>>, Mul(P(1), P(2)))>>)>>),
   Let(1, Lit(2), Call("REDUCE", <<P(1), Pair, Lambda(<<1, 2>>, Call("IF", <<P(1), Ref(A2), Ref(B1)>>))>>)),
   Call("MAP", <<Col>>), Call("MAP", <<Col, Lit(1)>>), Call("SCAN", <<Lit(1)>>), Call("BYROW", <<Col>>), Call("MAKEARRAY", <<>>)}

MCFormulas == Sums \union Dynamic \union Scoped \union Applied
=============================================================================
