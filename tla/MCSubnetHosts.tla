--------------------------- MODULE MCSubnetHosts ---------------------------
(***************************************************************************)
(* Addresses of two bytes of two bits: the carry from byte to byte, the    *)
(* edges of a byte and the wrap of the last address all occur.             *)
(***************************************************************************)
EXTENDS SubnetHosts

(* The network of prefix length 0 has every address: the loop over it      *)
(* never leaves it and does not end.                                       *)
AllButZero == 1..(Bits * Width)

Ranges == [first: RangeEnd, last: RangeEnd]

(* One range with any two ends, and lists of two: overlapping, disjoint,   *)
(* inverted beside proper, malformed beside proper, up to the last address.*)
R(a, b) == [first |-> a, last |-> b]

SomePairs == {
    <<R(<<0, 1>>, <<1, 1>>), R(<<0, 2>>, <<2, 2>>)>>,
    <<R(<<2, 0>>, <<2, 2>>), R(<<0, 3>>, <<1, 1>>)>>,
    <<R(<<2, 1>>, <<1, 2>>), R(<<1, 1>>, <<1, 2>>)>>,
    <<R(Nil, <<1, 2>>),      R(<<1, 2>>, <<1, 3>>)>>,
    <<R(<<3, 1>>, <<3, 3>>), R(<<3, 2>>, <<3, 3>>)>>}

MCRangeLists == {<<>>} \cup {<<r>> : r \in Ranges} \cup SomePairs

=============================================================================
