----------------------------- MODULE MCMacvlan -----------------------------
(***************************************************************************)
(* Small instances of MacvlanController.  Each .cfg picks the definitions  *)
(* it needs.                                                               *)
(***************************************************************************)
EXTENDS MacvlanController, TLC

(* Two names of one namespace, and one of another.                         *)
OneKey    == {"a/p"}
TwoKeys   == {"a/p", "a/q"}
SplitKeys == {"a/p", "b/r"}
OneNamespace    == [k \in Keys |-> "a"]
KeyPermutations == Permutations(Keys)
MCNsOf    == [k \in Keys |-> IF k = "b/r" THEN "b" ELSE "a"]

(* Subnet "one" has the hosts 1..3 and "two" 1..2; both have 1 as the      *)
(* gateway, explicit or default.  Address 9 is outside both.               *)
OneSubnet    == {"one"}
TwoSubnets   == {"one", "two"}
MCHosts      == [s \in Subnets |-> IF s = "one" THEN 1..3 ELSE 1..2]
MCGateway    == [s \in Subnets |-> 1]
Explicit     == [s \in Subnets |-> {1}]
EitherWay    == [s \in Subnets |-> {1, NoIP}]

Ann(mode, ips, macs, s) == [mode |-> mode, ips |-> ips, macs |-> macs,
                            subnet |-> s]
Auto(s)       == Ann("auto", <<>>, <<>>, s)
Single(a, s)  == Ann("single", <<a>>, <<11>>, s)
Listed(ips, s) == Ann("multiple", ips, <<>>, s)
Paired(ips, macs, s) == Ann("multiple", ips, macs, s)
NoAnnotation  == Ann("none", <<>>, <<>>, "one")
BadAnnotation == Ann("invalid", <<>>, <<>>, "one")

AutoOnly     == {Auto("one")}
RoomyAndTight == {Auto("one"), Auto("two"), Single(2, "one")}
StaticOnly   == {Single(3, "one")}
ListAndAuto  == {Auto("one"), Paired(<<2, 3>>, <<12, 13>>, "one")}
Contended    == {Auto("one"), Single(2, "one"),
                 Paired(<<2, 3>>, <<12, 13>>, "one")}

(* Address 3 is a host of "one" and not of "two".                          *)
AllModes     == {Auto("one"), Auto("two"), Single(3, "one"), Single(3, "two"),
                 NoAnnotation, BadAnnotation,
                 Paired(<<2, 3>>, <<12, 13>>, "two"),
                 Paired(<<2, 3>>, <<12, 13, 14>>, "one"),
                 Listed(<<9, 2>>, "one")}

=============================================================================
