----------------------------- MODULE MCTimeSpec -----------------------------
(***************************************************************************)
(* Texts and lapses for the model checker, with fractions of two digits.   *)
(***************************************************************************)
EXTENDS TimeSpec

Text(upper, lower) == [upper |-> upper, lower |-> lower]

(* 0  0.05  0.5  1.50  00.95  10.1                                          *)
SomeTexts ==
  {Text(<<0>>, <<>>), Text(<<0>>, <<0, 5>>), Text(<<0>>, <<5>>),
   Text(<<1>>, <<5, 0>>), Text(<<0, 0>>, <<9, 5>>), Text(<<1, 0>>, <<1>>)}

(* 0.50  1.95                                                               *)
SomeLapses == {mkts(0, 50), mkts(1, 95)}

=============================================================================
