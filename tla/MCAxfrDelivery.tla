--------------------------- MODULE MCAxfrDelivery ---------------------------
(***************************************************************************)
(* A key that both sides have, and one with another secret; a clock that is *)
(* just within the fudge and one that is just outside; MACs of no octets,   *)
(* of one less than may be, of half, of all octets of the hash and of one   *)
(* more.                                                                    *)
(***************************************************************************)
EXTENDS AxfrDelivery

MCTsigKey == [name |-> "nictool", algorithm |-> "sha256", secret |-> 1]

MCKeys == {MCTsigKey, [MCTsigKey EXCEPT !.secret = 2]}

MCClock == {-Fudge, Fudge + 1}

MCMacLengths == {0, 15, 16, 32, 33}
==============================================================================
