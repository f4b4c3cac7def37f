------------------------------ MODULE MCFormula ------------------------------
(* One alphabet for each corner of the language. *)
EXTENDS Formula

Ops(marks) == {Op(m) : m \in marks}
A1 == <<"cell", 1, 1, FALSE, FALSE>>
C3 == <<"cell", 3, 3, FALSE, TRUE>>
ColB == <<"col", 2, FALSE>>
Foo == <<"name", "foo">>
One == <<"num", 1>>
Book == <<"brackets", "x">>
Alpha(symbols, length) == [symbols |-> symbols, length |-> length]

MCAlphabets == {
  Alpha({A1, One} \union Ops({"-", "^", "%", "*"}), 6),
  Alpha({A1} \union Ops({"&", "=", "+", "-", ":"}), 6),
  Alpha({A1} \union Ops({":", " ", ",", "(", ")", "@"}), 6),
  Alpha({A1, C3} \union Ops({":", "#", " ", "-", "%"}), 6),
  Alpha({Foo, One} \union Ops({"(", ")", ",", " "}), 6),
  Alpha({A1, Foo, <<"quoted", A1>>} \union Ops({"!", ":", " "}), 6),
  Alpha({ColB, Foo, One, <<"col", 3, TRUE>>} \union Ops({"!", ":"}), 6),
  Alpha({Foo, Book} \union Ops({"!", " ", ":"}), 5),
  Alpha({One, <<"bool", TRUE>>, <<"str", "t">>} \union Ops({"{", "}", ",", ";", "-"}), 6)}
MCOffsets == {<<0, 0>>, <<1, 0>>, <<0, 1>>, <<2, 3>>, <<-1, 0>>}
=============================================================================
