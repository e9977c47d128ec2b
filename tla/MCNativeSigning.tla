--------------------------- MODULE MCNativeSigning ---------------------------
(***************************************************************************)
(* A zone and one below it; rows with two addresses, a wildcard, an empty   *)
(* non-terminal, a type of the second window, equal rows, SPF, a row that   *)
(* is deleted, one of a type that nobody serves, and one that cannot be     *)
(* signed; rows that dns2 writes differently, or refuses, beside such that  *)
(* it does not; and a zone row of which the SOA is written differently.     *)
(***************************************************************************)
EXTENDS NativeSigning

Parent == <<1>>
Child  == <<1, 5>>

MCApexes == {Parent, Child}

Plain ==
  <<Row(Parent, NS, <<7>>), Row(<<1, 3>>, A, <<2>>), Row(<<1, 3>>, A, <<1, 9>>),
    Row(<<1, 4, 2>>, A, <<1>>), Row(<<1, 0>>, TXT, <<1>>),
    [Row(<<1, 4, 2>>, TXT, <<4>>) EXCEPT !.served = <<>>], Row(<<1, 4, 2>>, TXT, <<5>>)>>

Odd ==
  <<Row(Parent, CAA, <<3>>), Row(Parent, TXT, <<1>>), Row(Parent, SPF, <<2>>),
    [Row(<<1, 3>>, A, <<2>>) EXCEPT !.deleted = TRUE],
    Row(<<1, 4>>, A, <<1>>), Row(<<1, 4>>, A, <<1>>), Row(<<1, 4>>, 13, <<1>>),
    [Row(<<1, 4>>, CAA, <<2, 6>>) EXCEPT !.served = <<2, 5>>]>>

MCContents ==
  (Parent :> {Plain, Odd}) @@
  (Child :> {<<Row(Child, NS, <<7>>), Row(<<1, 5, 3>>, 44, <<1>>)>>, <<Row(<<1, 5, 3>>, A, <<>>)>>})

MCZoneRow ==
  (Parent :> [nsname |-> Row(Parent, NS, <<5>>), rest |-> Row(Parent, SOA, <<8>>)]) @@
  (Child :> [nsname |-> Row(Child, NS, <<5>>),
             rest |-> [Row(Child, SOA, <<8>>) EXCEPT !.served = <<9>>]])

MCKeySets ==
  {[keys |-> <<<<0, 1>>, <<1, 2>>>>, errors |-> FALSE],
   [keys |-> <<<<0, 3>>>>, errors |-> FALSE],
   [keys |-> <<<<0, 3>>>>, errors |-> TRUE],
   [keys |-> <<>>, errors |-> FALSE]}

MCNames ==
  {Parent, <<1, 0>>, <<1, 2>>, <<1, 3>>, <<1, 3, 1>>, <<1, 4>>, <<1, 4, 2>>, Child, <<1, 5, 3>>,
   <<1, 5, 4>>, <<1, 6>>, <<2>>}

(* The data is of the kind that NativeSigningProofs assumes.                *)
ASSUME MCOrdinary == Ordinary
==============================================================================
