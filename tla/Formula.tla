------------------------------- MODULE Formula -------------------------------
(* The formula language (crate xl-ast): the lexer in A1 mode, the            *)
(* operator-precedence parser and the canonical rendering of the tree; and   *)
(* the translation of a shared formula (xl-engine, shared.rs).               *)
(*                                                                           *)
(* A text is a sequence of symbols, each of them the characters that belong  *)
(* together whatever follows: a word, a literal, a punctuation mark, a run   *)
(* of white space. What depends on the neighbours is the lexer's work here   *)
(* as it is there: sheet prefixes and 3-D spans, the white space a token     *)
(* remembers, calls glued to their name.                                     *)
(*                                                                           *)
(* Symbols: <<"cell", col, row, absCol, absRow>>, <<"col", c, anchored>>,    *)
(* <<"row", r, TRUE>>, <<"name", n>>, <<"bool", b>>, <<"quoted", word>>,     *)
(* <<"num", n>>, <<"str", s>>, <<"error", e>>, <<"brackets", s>> and         *)
(* <<"op", mark>>.                                                           *)
EXTENDS Integers, Sequences, FiniteSets, SequencesExt, FiniteSetsExt

CONSTANTS
  MaxNesting,      \* MAX_NESTING_DEPTH
  MaxCol, MaxRow,  \* the last column and row of the grid
  Alphabets,       \* what is typed: records of the symbols and the length
  Offsets          \* where a shared formula is copied to: <<rows, columns>>

ASSUME FormulaAssumption ==
  /\ {MaxNesting, MaxCol, MaxRow} \subseteq Nat \ {0}
  /\ Offsets \subseteq (Int \X Int)

VARIABLES
  alphabet,
  text,      \* what is in the cell, without the leading equals sign
  parsed     \* what it was parsed to: the tree, or why there is none
vars == <<alphabet, text, parsed>>

Op(mark) == <<"op", mark>>
Ok(e, p) == <<"ok", e, p>>
Fail(kind) == <<"fail", kind>>
Failed(result) == result[1] = "fail"

-----------------------------------------------------------------------------
(* The lexer. A token is what it is and whether white space precedes it.     *)

IsCellWord(s) == s[1] = "cell" /\ ~s[4] /\ ~s[5]
IsWord(s) == IsCellWord(s) \/ (s[1] = "col" /\ ~s[3]) \/ s[1] \in {"name", "bool"}
IsSheetPart(s) == IsWord(s) \/ s[1] = "quoted"
Bare(s) == IF s[1] = "quoted" THEN s[2] ELSE s
SymbolAt(txt, i) == IF i <= Len(txt) THEN txt[i] ELSE <<"end">>

(* `A1:Sheet1!B2` is a range, not the sheets from A1 to Sheet1. *)
BacksOff(first) == IsCellWord(first)

(* The sheet prefix that starts at i: what it names and its symbols, or      *)
(* NoPrefix.                                                                 *)
NoPrefix == <<>>
SheetPrefix(txt, i) ==
  LET first == txt[i]
      last == SymbolAt(txt, i + 2)
      span == /\ SymbolAt(txt, i + 1) = Op(":") /\ IsSheetPart(last)
              /\ SymbolAt(txt, i + 3) = Op("!")
      quoted(parts) == \E part \in parts : part[1] = "quoted"
  IN IF ~IsSheetPart(first) THEN NoPrefix
     ELSE IF span THEN IF BacksOff(first) THEN NoPrefix
                       ELSE <<<<"sheet", Bare(first), Bare(last), quoted({first, last})>>, 4>>
     ELSE IF SymbolAt(txt, i + 1) = Op("!")
     THEN <<<<"sheet", Bare(first), <<>>, quoted({first})>>, 2>> ELSE NoPrefix

(* The token kinds are those of the symbols, but for: "ref", "ident", and    *)
(* "sheet" for a prefix.                                                     *)
Token(kind, val, space) == [kind |-> kind, val |-> val, space |-> space]
OneToken(s, space) ==
  IF s = Op("!") THEN Token("sheet", <<"global">>, space)
  ELSE IF s[1] \in {"cell", "row"} \/ (s[1] = "col" /\ s[3]) THEN Token("ref", s, space)
  ELSE IF s[1] \in {"col", "name", "bool"} THEN Token("ident", s, space)
  ELSE Token(s[1], s[2], space)

RECURSIVE LexFrom(_, _, _)
LexFrom(txt, i, space) ==
  IF i > Len(txt) THEN <<>>
  ELSE IF txt[i] = Op(" ") THEN LexFrom(txt, i + 1, TRUE)
  ELSE LET prefix == SheetPrefix(txt, i)
       IN IF prefix # NoPrefix
          THEN <<Token("sheet", prefix[1], space)>> \o LexFrom(txt, i + prefix[2], FALSE)
          ELSE <<OneToken(txt[i], space)>> \o LexFrom(txt, i + 1, FALSE)
Lex(txt) == LexFrom(txt, 1, FALSE)
(* A quoted name that is no prefix is refused. *)
LexFails(toks) == \E i \in DOMAIN toks : toks[i].kind = "quoted"

-----------------------------------------------------------------------------
(* The parser: atoms.                                                        *)

Peek(toks, p) == IF p <= Len(toks) THEN toks[p] ELSE Token("end", "end", FALSE)
IsOp(tok, mark) == tok.kind = "op" /\ tok.val = mark
Glued(toks, p, mark) == IsOp(Peek(toks, p), mark) /\ ~Peek(toks, p).space
GluedBrackets(toks, p) == Peek(toks, p).kind = "brackets" /\ ~Peek(toks, p).space

StartsAtom(tok) ==
  \/ tok.kind \in {"num", "str", "error", "ref", "sheet", "ident", "brackets"}
  \/ tok.kind = "op" /\ tok.val \in {"(", "{", "@", "-", "+"}

(* A structured reference is kept as the symbols it was written with, but *)
(* for a space after its sheet.                                           *)
Unsupported(raw, qualified) == <<"unsupported", raw, qualified>>

SimpleAtom(tok) ==
  CASE tok.kind = "ref" -> <<"ref", <<>>, tok.val>>
    [] tok.kind = "brackets" -> Unsupported(<<<<"brackets", tok.val>>>>, FALSE)
    [] OTHER -> <<tok.kind, tok.val>>

SpacedParen(toks, p) == IsOp(Peek(toks, p), "(") /\ Peek(toks, p).space

IdentAtom(toks, p) ==
  LET word == toks[p].val
  IN IF SpacedParen(toks, p + 1) THEN Fail("AmbiguousSpaceBeforeParen")
     ELSE IF GluedBrackets(toks, p + 1)
     THEN Ok(Unsupported(<<word, <<"brackets", toks[p + 1].val>>>>, FALSE), p + 2)
     ELSE IF word[1] = "bool" THEN Ok(word, p + 1)
     ELSE Ok(<<"name", <<>>, word>>, p + 1)

SheetText(sheet) ==
  LET part(word) == IF sheet[4] THEN <<"quoted", word>> ELSE word
  IN IF sheet = <<>> THEN <<>>
     ELSE IF sheet = <<"global">> THEN <<Op("!")>>
     ELSE IF sheet[3] = <<>> THEN <<part(sheet[2]), Op("!")>>
     ELSE <<part(sheet[2]), Op(":"), part(sheet[3]), Op("!")>>

SheetAtom(toks, p) ==
  LET sheet == toks[p].val  next == Peek(toks, p + 1)
  IN CASE next.kind = "ref" -> Ok(<<"ref", sheet, next.val>>, p + 2)
       [] next.kind = "ident" ->
            IF GluedBrackets(toks, p + 2)
            THEN Ok(Unsupported(SheetText(sheet) \o <<next.val, <<"brackets", toks[p + 2].val>>>>, TRUE), p + 3)
            ELSE IF SpacedParen(toks, p + 2) THEN Fail("AmbiguousSpaceBeforeParen")
            ELSE Ok(<<"name", sheet, next.val>>, p + 2)
       [] next.kind = "brackets" ->
            Ok(Unsupported(SheetText(sheet) \o <<<<"brackets", next.val>>>>, TRUE), p + 2)
       [] next.kind = "sheet" -> Fail("SheetQualifiedRangeEndpoints")
       [] OTHER -> Fail("ExpectedSheetReference")

ArrayConst(toks, p) ==
  LET signed == Peek(toks, p).kind = "op" /\ Peek(toks, p).val \in {"-", "+"}
      tok == Peek(toks, IF signed THEN p + 1 ELSE p)
      value == IF IsOp(Peek(toks, p), "-") THEN -tok.val ELSE tok.val
  IN IF tok.kind = "num" THEN Ok(<<"num", value>>, IF signed THEN p + 2 ELSE p + 1)
     ELSE IF ~signed /\ tok.kind \in {"str", "error"} THEN Ok(<<tok.kind, tok.val>>, p + 1)
     ELSE IF ~signed /\ tok.kind = "ident" /\ tok.val[1] = "bool" THEN Ok(tok.val, p + 1)
     ELSE Fail("NonConstantInArray")

(* `done` holds the complete rows, `row` the elements of the current one. *)
RECURSIVE ArrayRest(_, _, _, _)
ArrayRest(toks, p, done, row) ==
  LET const == ArrayConst(toks, p)
      longer == Append(row, const[2])
      rows == Append(done, longer)
      next == Peek(toks, const[3])
  IN IF Failed(const) THEN const
     ELSE IF IsOp(next, ",") THEN ArrayRest(toks, const[3] + 1, done, longer)
     ELSE IF IsOp(next, ";") THEN ArrayRest(toks, const[3] + 1, rows, <<>>)
     ELSE IF next.kind = "end" THEN Fail("ExpectedClose")
     ELSE IF ~IsOp(next, "}") THEN Fail("NonConstantInArray")
     ELSE IF \E i \in DOMAIN rows : Len(rows[i]) # Len(rows[1]) THEN Fail("RaggedArray")
     ELSE Ok(<<"array", rows>>, const[3] + 1)

(* The atoms that hold no expression. *)
Atom(toks, p) ==
  CASE toks[p].kind \in {"num", "str", "error", "ref", "brackets"} -> Ok(SimpleAtom(toks[p]), p + 1)
    [] toks[p].kind = "sheet" -> SheetAtom(toks, p)
    [] toks[p].kind = "ident" -> IdentAtom(toks, p)
    [] IsOp(toks[p], "{") -> ArrayRest(toks, p + 1, <<>>, <<>>)
    [] OTHER -> Fail("ExpectedExpr")

-----------------------------------------------------------------------------
(* The parser: operators.                                                    *)

Arithmetic == {"^", "*", "/", "+", "-", "&", "=", "<>", "<", "<=", ">", ">=", ":"}
Postfixes == {"%", "#"}

Power(op) ==
  CASE op = ":" -> 100 [] op \in {"#", "@"} -> 95 [] op = " " -> 90 [] op = "," -> 80
    [] op \in {"u-", "u+"} -> 70 [] op = "%" -> 60 [] op = "^" -> 50 [] op \in {"*", "/"} -> 40
    [] op \in {"+", "-"} -> 30 [] op = "&" -> 20 [] OTHER -> 10

(* The operator that comes next, "none" if there is none. *)
NextInfix(tok, union) ==
  IF tok.kind = "op" /\ tok.val \in Arithmetic \union Postfixes THEN tok.val
  ELSE IF IsOp(tok, ",") /\ union THEN ","
  ELSE IF tok.space /\ StartsAtom(tok) THEN " " ELSE "none"

(* A word that spells a column, or the number of a row, beside a colon. *)
Promote(e) ==
  IF e[1] = "name" /\ e[3][1] = "col" THEN <<"ref", e[2], e[3]>>
  ELSE IF e[1] = "num" /\ e[2] \in 1..MaxRow THEN <<"ref", <<>>, <<"row", e[2], FALSE>>>>
  ELSE e

(* The operands that start where the expression starts. *)
Leftmost(e) ==
  CASE e[1] \in {"paren", "at"} -> <<e[2]>>
    [] e[1] \in {"un", "post", "bin"} -> <<e[3]>>
    [] OTHER -> <<>>
RECURSIVE LeadingSheet(_)
LeadingSheet(e) ==
  IF Leftmost(e) # <<>> THEN LeadingSheet(Leftmost(e)[1])
  ELSE CASE e[1] \in {"ref", "name"} -> e[2] # <<>> [] e[1] = "unsupported" -> e[3] [] OTHER -> FALSE

SameSingleSheet(s, t) == s[1] = "sheet" /\ t[1] = "sheet" /\ s[3] = <<>> /\ t[3] = <<>> /\ s[2] = t[2]

(* The node of a binary operator. A qualified right end of a range is        *)
(* dropped if it names the sheet of the left end, and refused otherwise.     *)
Refused == <<"refused">>
Binary(op, lhs, rhs) ==
  LET l == Promote(lhs)  r == Promote(rhs)
      redundant == l[1] = "ref" /\ r[1] = "ref" /\ l[2] # <<>> /\ SameSingleSheet(l[2], r[2])
  IN IF op # ":" THEN <<"bin", op, lhs, rhs>>
     ELSE IF ~LeadingSheet(r) THEN <<"bin", op, l, r>>
     ELSE IF redundant THEN <<"bin", op, l, <<"ref", <<>>, r[3]>>>> ELSE Refused

RECURSIVE ParseExpr(_, _, _, _, _), Climb(_, _, _, _, _, _), Arguments(_, _, _, _)

\* Fault: an operand after an operator of the same level is taken with it.
RightPower_Loose(op) == Power(op) - 1
(* What the right operand must bind tighter than: all are left-associative. *)
RightPower(op) == Power(op)

(* `depth` counts the calls of parse_expr that are open. *)
ParsePrefix(toks, p, depth, union) ==
  LET tok == Peek(toks, p)
      operand(power) == ParseExpr(toks, p + 1, depth, power, union)
      under(result, F(_)) == IF Failed(result) THEN result ELSE Ok(F(result[2]), result[3])
      inner == ParseExpr(toks, p + 1, depth, 0, TRUE)
  IN IF tok.kind = "end" THEN Fail("UnexpectedEof")
     ELSE IF tok.kind = "ident" /\ Glued(toks, p + 1, "(")
     THEN IF IsOp(Peek(toks, p + 2), ")") THEN Ok(<<"call", tok.val, <<>>>>, p + 3)
          ELSE under(Arguments(toks, p + 2, depth, <<>>), LAMBDA args : <<"call", tok.val, args>>)
     ELSE IF IsOp(tok, "-") THEN under(operand(Power("u-")), LAMBDA e : <<"un", "-", e>>)
     ELSE IF IsOp(tok, "+") THEN under(operand(Power("u+")), LAMBDA e : <<"un", "+", e>>)
     ELSE IF IsOp(tok, "@") THEN under(operand(Power("@")), LAMBDA e : <<"at", e>>)
     ELSE IF ~IsOp(tok, "(") THEN Atom(toks, p)
     ELSE IF Failed(inner) THEN inner
     ELSE IF IsOp(Peek(toks, inner[3]), ")") THEN Ok(<<"paren", inner[2]>>, inner[3] + 1)
     ELSE Fail("ExpectedClose")

(* The arguments of a call up to its parenthesis; one may be missing. *)
Arguments(toks, p, depth, args) ==
  LET missing == Peek(toks, p).kind = "end" \/ IsOp(Peek(toks, p), ",") \/ IsOp(Peek(toks, p), ")")
      arg == IF missing THEN Ok(<<"missing">>, p) ELSE ParseExpr(toks, p, depth, 0, FALSE)
      next == Peek(toks, arg[3])
  IN IF Failed(arg) THEN arg
     ELSE IF IsOp(next, ",") THEN Arguments(toks, arg[3] + 1, depth, Append(args, arg[2]))
     ELSE IF IsOp(next, ")") THEN Ok(Append(args, arg[2]), arg[3] + 1)
     ELSE Fail("ExpectedClose")

ParseExpr(toks, p, depth, minPower, union) ==
  LET lhs == ParsePrefix(toks, p, depth + 1, union)
  IN IF depth >= MaxNesting THEN Fail("TooDeeplyNested")
     ELSE IF Failed(lhs) THEN lhs
     ELSE Climb(toks, lhs[2], lhs[3], depth + 1, minPower, union)

(* The loop of parse_expr_bp. *)
Climb(toks, lhs, p, depth, minPower, union) ==
  LET op == NextInfix(Peek(toks, p), union)
      rhs == ParseExpr(toks, IF op = " " THEN p ELSE p + 1, depth, RightPower(op), union)
      node == Binary(op, lhs, rhs[2])
  IN IF op = "none" \/ Power(op) <= minPower THEN Ok(lhs, p)
     ELSE IF op \in Postfixes THEN Climb(toks, <<"post", op, lhs>>, p + 1, depth, minPower, union)
     ELSE IF Failed(rhs) THEN rhs
     ELSE IF node = Refused THEN Fail("SheetQualifiedRangeEndpoints")
     ELSE Climb(toks, node, rhs[3], depth, minPower, union)

(* Nothing may follow the expression. *)
Whole(toks, result) ==
  IF Failed(result) THEN result
  ELSE IF result[3] <= Len(toks) THEN Fail("UnexpectedToken") ELSE Ok(result[2], 0)
ParseTokens(toks) ==
  IF LexFails(toks) THEN Fail("UnexpectedQuotedName")
  ELSE IF toks = <<>> THEN Fail("ExpectedExpr") ELSE Whole(toks, ParseExpr(toks, 1, 0, 0, FALSE))

(* The tree of a text, or why there is none. *)
Parse(txt) == ParseTokens(Lex(txt))

-----------------------------------------------------------------------------
(* The canonical rendering (Display for Expr).                               *)

Joined(parts, sep) == FoldLeft(LAMBDA acc, i : acc \o (IF i > 1 THEN sep ELSE <<>>) \o parts[i],
                               <<>>, [i \in DOMAIN parts |-> i])
RefText(kind) == IF kind[1] = "row" /\ ~kind[3] THEN <<<<"num", kind[2]>>>> ELSE <<kind>>

\* Fault: the sheet of a reference is left out.
RefNode_Bare(sheet, kind) == RefText(kind)
RefNode(sheet, kind) == SheetText(sheet) \o RefText(kind)

RECURSIVE Display(_)
Display(e) ==
  CASE e[1] = "num" -> IF e[2] < 0 THEN <<Op("-"), <<"num", -e[2]>>>> ELSE <<e>>
    [] e[1] \in {"str", "bool", "error"} -> <<e>>
    [] e[1] = "missing" -> <<>>
    [] e[1] = "ref" -> RefNode(e[2], e[3])
    [] e[1] = "name" -> SheetText(e[2]) \o <<e[3]>>
    [] e[1] = "un" -> <<Op(e[2])>> \o Display(e[3])
    [] e[1] = "post" -> Display(e[3]) \o <<Op(e[2])>>
    [] e[1] = "bin" -> Display(e[3]) \o <<Op(e[2])>> \o Display(e[4])
    [] e[1] = "call" -> <<e[2], Op("(")>> \o Joined([i \in DOMAIN e[3] |-> Display(e[3][i])], <<Op(",")>>)
                          \o <<Op(")")>>
    [] e[1] = "array" ->
         LET row(cells) == Joined([i \in DOMAIN cells |-> Display(cells[i])], <<Op(",")>>)
         IN <<Op("{")>> \o Joined([i \in DOMAIN e[2] |-> row(e[2][i])], <<Op(";")>>) \o <<Op("}")>>
    [] e[1] = "paren" -> <<Op("(")>> \o Display(e[2]) \o <<Op(")")>>
    [] e[1] = "at" -> <<Op("@")>> \o Display(e[2])
    [] e[1] = "unsupported" -> e[2]

-----------------------------------------------------------------------------
(* Shared formulas (shared.rs): the master's tree, copied by an offset.      *)

OffGrid == 0
\* Fault: the position past the edge is the remainder.
ShiftAxis_Mod(index, absolute, delta, max) ==
  IF absolute THEN index ELSE IF index + delta < 1 THEN OffGrid ELSE (index + delta) % max
(* Past the last row or column it wraps, before the first it is lost. *)
ShiftAxis(index, absolute, delta, max) ==
  IF absolute THEN index
  ELSE IF index + delta < 1 THEN OffGrid ELSE ((index + delta - 1) % max) + 1

TranslateRef(e, d) ==
  LET kind == e[3]
      row(r, abs) == ShiftAxis(r, abs, d[1], MaxRow)
      col(c, abs) == ShiftAxis(c, abs, d[2], MaxCol)
      moved == CASE kind[1] = "cell" -> <<"cell", col(kind[2], kind[4]), row(kind[3], kind[5]), kind[4], kind[5]>>
                 [] kind[1] = "col" -> <<"col", col(kind[2], kind[3]), kind[3]>>
                 [] kind[1] = "row" -> <<"row", row(kind[2], kind[3]), kind[3]>>
      lost == moved[2] = OffGrid \/ (kind[1] = "cell" /\ moved[3] = OffGrid)
  IN IF lost THEN <<"error", "#REF!">> ELSE <<"ref", e[2], moved>>

RECURSIVE Translate(_, _)
Translate(e, d) ==
  CASE e[1] = "ref" -> TranslateRef(e, d)
    [] e[1] \in {"un", "post"} -> <<e[1], e[2], Translate(e[3], d)>>
    [] e[1] = "bin" -> <<"bin", e[2], Translate(e[3], d), Translate(e[4], d)>>
    [] e[1] = "call" -> <<"call", e[2], [i \in DOMAIN e[3] |-> Translate(e[3][i], d)]>>
    [] e[1] \in {"paren", "at"} -> <<e[1], Translate(e[2], d)>>
    [] OTHER -> e

-----------------------------------------------------------------------------
(* What is typed. Two symbols that would run together do not follow each     *)
(* other.                                                                    *)

Solid(s) == s[1] # "op"
Adjacent(s, t) ==
  /\ ~(Solid(s) /\ Solid(t) /\ t[1] # "brackets")
  /\ ~(s \in {Op("<"), Op(">"), Op("#")} /\ t \in {Op("="), Op(">")})

Type(s) ==
  /\ Len(text) < alphabet.length
  /\ text # <<>> => Adjacent(Last(text), s)
  /\ text' = Append(text, s)
  /\ parsed' = Parse(text')
  /\ UNCHANGED alphabet
Erase == text # <<>> /\ text' = <<>> /\ parsed' = Parse(<<>>) /\ UNCHANGED alphabet

Init == alphabet \in Alphabets /\ text = <<>> /\ parsed = Parse(<<>>)
Next == (\E s \in alphabet.symbols : Type(s)) \/ Erase
Spec == Init /\ [][Next]_vars

-----------------------------------------------------------------------------
(* The precedence table as a relation between neighbours.                    *)

(* The operators on the edges of a tree, where no parenthesis shields them. *)
RECURSIVE LeftEdge(_), RightEdge(_)
LeftEdge(e) ==
  CASE e[1] = "bin" -> {e[2]} \union LeftEdge(e[3])
    [] e[1] = "post" -> {e[2]} \union LeftEdge(e[3])
    [] OTHER -> {}
RightEdge(e) ==
  CASE e[1] = "bin" -> {e[2]} \union RightEdge(e[4])
    [] e[1] = "un" -> {IF e[2] = "-" THEN "u-" ELSE "u+"} \union RightEdge(e[3])
    [] e[1] = "at" -> {"@"} \union RightEdge(e[2])
    [] OTHER -> {}
Tighter(ops, op) == \A o \in ops : Power(o) > Power(op)
AsTight(ops, op) == \A o \in ops : Power(o) >= Power(op)

(* The well-formed trees of the tokens i..j: an operator takes what binds    *)
(* tighter on its right and at least as tight on its left.                   *)
RECURSIVE Trees(_, _, _, _)
Trees(toks, i, j, union) ==
  LET here == toks[i]
      atoms == IF here.kind = "ident" /\ Glued(toks, i + 1, "(") THEN {}
               ELSE LET a == Atom(toks, i) IN IF a[1] = "ok" /\ a[3] = j + 1 THEN {a[2]} ELSE {}
      prefixed == UNION {
        IF ~IsOp(here, mark) THEN {}
        ELSE {e \in Trees(toks, i + 1, j, union) : Tighter(LeftEdge(e), IF mark = "@" THEN mark ELSE "u-")}
        : mark \in {"-", "+", "@"}}
      postfixed == IF toks[j].kind # "op" \/ toks[j].val \notin Postfixes THEN {}
                   ELSE {e \in Trees(toks, i, j - 1, union) : AsTight(RightEdge(e), toks[j].val)}
      binary(k) ==
        LET op == NextInfix(toks[k], union)
            next == IF op = " " THEN k ELSE k + 1
        IN IF op \in Postfixes \union {"none"} THEN {}
           ELSE {Binary(op, pair[1], pair[2]) : pair \in
                  {e \in Trees(toks, i, k - 1, union) : AsTight(RightEdge(e), op)}
                  \X {e \in Trees(toks, next, j, union) : Tighter(LeftEdge(e), op)}} \ {Refused}
      commas == {k \in i + 2 .. j - 1 : IsOp(toks[k], ",")}
      (* The ways to cut k..j-1 into arguments, each empty or an expression. *)
      arguments[k \in i + 2 .. j] ==
        LET arg(l) == IF k = l THEN {<<"missing">>} ELSE Trees(toks, k, l - 1, FALSE)
        IN {<<a>> : a \in arg(j)}
           \union UNION {{<<p[1]>> \o p[2] : p \in arg(l) \X arguments[l + 1]} : l \in {l \in commas : l >= k}}
      called == IF ~(here.kind = "ident" /\ j > i + 1 /\ Glued(toks, i + 1, "(") /\ IsOp(toks[j], ")")) THEN {}
                ELSE IF j = i + 2 THEN {<<"call", here.val, <<>>>>}
                ELSE {<<"call", here.val, args>> : args \in arguments[i + 2]}
  IN IF i > j THEN {}
     ELSE atoms
          \union {IF IsOp(here, "@") THEN <<"at", e>> ELSE <<"un", here.val, e>> : e \in prefixed}
          \union {<<"post", toks[j].val, e>> : e \in postfixed}
          \union UNION {binary(k) : k \in i + 1 .. j}
          \union (IF IsOp(here, "(") /\ IsOp(toks[j], ")")
                  THEN {<<"paren", e>> : e \in Trees(toks, i + 1, j - 1, TRUE)} ELSE {})
          \union called

(* How many calls of parse_expr a tree needs to be open at once. *)
RECURSIVE Nesting(_)
Nesting(e) ==
  CASE e[1] \in {"un", "at", "paren"} -> 1 + Nesting(Last(e))
    [] e[1] = "post" -> Nesting(e[3])
    [] e[1] = "bin" -> Max({Nesting(e[3]), 1 + Nesting(e[4])})
    [] e[1] = "call" -> 1 + Max({0} \union {IF a = <<"missing">> THEN 0 ELSE Nesting(a) : a \in ToSet(e[3])})
    [] OTHER -> 1

(* The parser finds the tree that the precedence table gives: the one        *)
(* well-formed tree of the tokens, whatever prefix, postfix and reference    *)
(* operators, unions, intersections, calls and missing arguments meet in     *)
(* it, and refuses as too deep only what nests too deeply. It fails only     *)
(* where there is no such tree, or where it refuses the one there is.        *)
(* (parse_expr_bp, next_infix, parse_prefix, finish_call)                    *)
ParseIsTheTree ==
  LET toks == Lex(text)
      trees == Trees(toks, 1, Len(toks), FALSE)
  IN CASE parsed[1] = "ok" -> trees = {parsed[2]} /\ Nesting(parsed[2]) <= MaxNesting
       [] parsed = Fail("TooDeeplyNested") -> \A e \in trees : Nesting(e) > MaxNesting
       [] parsed = Fail("SheetQualifiedRangeEndpoints") -> TRUE
       [] OTHER -> LexFails(toks) \/ trees = {}

(* White space around the colon of a range is inert where the range starts   *)
(* at a cell: `A1:Sheet1!B2` is read as `A1: Sheet1!B2` is, accepted or      *)
(* refused, and never as a reference through the sheets from A1 to Sheet1    *)
(* (try_sheet_prefix, apply_infix).                                          *)
SpacedColonIsInert ==
  LET afterCell(i) == /\ i > 1 /\ SymbolAt(text, i) = Op(":")
                      /\ \/ IsCellWord(text[i - 1])
                         \/ i > 2 /\ text[i - 1] = Op(" ") /\ IsCellWord(text[i - 2])
      inert == {i \in DOMAIN text : text[i] = Op(" ") /\ (afterCell(i + 1) \/ afterCell(i - 1))}
      tight == FoldLeft(LAMBDA acc, i : IF i \in inert THEN acc ELSE Append(acc, text[i]),
                        <<>>, [i \in DOMAIN text |-> i])
  IN inert # {} => parsed = Parse(tight)

(* What is displayed reads back as the same tree, and so does the formula a  *)
(* shared group gives to another of its cells: qualified ranges whose right  *)
(* qualifier was dropped, words promoted to columns, spans of sheets, and    *)
(* references wrapped at the edge of the grid or lost beyond it. Display     *)
(* writes none of the spaces the text had, but those that are operators, and *)
(* those around a colon after a cell change nothing.                         *)
(* (Display for Expr; lexer.rs try_sheet_prefix; shared.rs translate)        *)
DisplayReadsBack ==
  /\ parsed[1] = "ok" =>
       /\ Parse(Display(parsed[2])) = parsed
       /\ \A d \in Offsets :
            LET copy == Translate(parsed[2], d) IN Parse(Display(copy)) = Ok(copy, 0)
  /\ SpacedColonIsInert

(* A shared group does not depend on the cell its formula is taken from: a   *)
(* copy of a copy is the copy by the sum of the offsets, as long as no       *)
(* reference leaves the grid at its first row or column (shift_axis).        *)
CopiesCompose ==
  parsed[1] = "ok" =>
    \A d, f \in {o \in Offsets : o[1] >= 0 /\ o[2] >= 0} :
      Translate(Translate(parsed[2], d), f) = Translate(parsed[2], <<d[1] + f[1], d[2] + f[2]>>)

(* A claim of a comment that does not hold. "Recursion is bounded by the     *)
(* parser's own MAX_NESTING_DEPTH" (parser.rs:837): a chain of operators is  *)
(* parsed by a loop, and its tree is as deep as the chain is long.           *)
RECURSIVE LeftDepth(_)
LeftDepth(e) == IF Leftmost(e) = <<>> THEN 1 ELSE 1 + LeftDepth(Leftmost(e)[1])
HelperRecursionBounded == parsed[1] = "ok" => LeftDepth(parsed[2]) <= MaxNesting
=============================================================================
