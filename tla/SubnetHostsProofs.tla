------------------------- MODULE SubnetHostsProofs -------------------------
(***************************************************************************)
(* Theorems about SubnetHosts, for addresses of any number of bytes of any *)
(* number of bits, any CIDR and any list of ranges.                        *)
(***************************************************************************)
EXTENDS AddressProofs

-----------------------------------------------------------------------------
(* The inductive invariant: what each loop has collected is all it should  *)
(* have, up to the address it is at.                                       *)

\* The addresses the loop over the CIDR is to collect.
NetworkHosts == {a \in Address : InNetwork(cidr, a) /\ ~EdgeByte(a)}

\* Those of the first k ranges.
InRanges(k) == {a \in Address : \E i \in 1..k : InRange(given[i], a)}

(* In a range, the address is in mapped form.  A network without a prefix  *)
(* has every address: the loop over it does not end.                       *)
TypeInv ==
    /\ TypeOK
    /\ pc = "range" => n \in 1..Len(given) /\ Parses(given[n]) /\ ip \in Word(Width + 1)
    /\ pc # "cidr" => cidr.len > 0

(* Behind the last address of the network the loop has collected all: it   *)
(* is the wrap to address 0 that needs the distinction.                    *)
HostsInv ==
    cidr.len > 0 =>
      /\ pc \notin {"done", "free"} => Ascends(hosts)
      /\ pc = "cidr" =>
           Range(hosts) = IF Contains(cidr, ip)
                            THEN {a \in NetworkHosts : Value(a) < Value(ip)}
                            ELSE NetworkHosts
      /\ pc \in {"ranges", "range"} => Range(hosts) = NetworkHosts

RangesInv ==
    /\ pc = "cidr" => n = 0 /\ ranges = <<>>
    /\ pc = "ranges" => Range(ranges) = InRanges(n)
    /\ pc = "range" =>
         /\ Value(given[n].first) <= Value(ip)
         /\ Range(ranges) = InRanges(n - 1) \cup
               {a \in Address : InRange(given[n], a) /\ Value(a) < Value(ip)}

FreeInv ==
    pc = "free" =>
      /\ Range(hosts) = Wanted \ used
      /\ Ascends(hosts)
      /\ CalcDefaultGateway(cidr) \in used

\* One element of spec.ranges.
GivenRange == [first: RangeEnd, last: RangeEnd]

(* The types the type invariant gives to what all actions use.             *)
LEMMA Typed ==
    ASSUME TypeInv
    PROVE  /\ cidr \in CIDR
           /\ given \in RangeLists /\ given \in Seq(GivenRange)
           /\ DOMAIN given = 1..Len(given) /\ Len(given) \in Nat
           /\ n \in 0..Len(given)
           /\ hosts \in Seq(Address) /\ ranges \in Seq(Address) /\ used \subseteq Address
<1>1. cidr \in CIDR /\ given \in RangeLists
  BY DEF TypeInv, TypeOK, CIDR
<1>2. given \in Seq(GivenRange)
  BY <1>1, SubnetHostsAssumption DEF GivenRange
<1>3. DOMAIN given = 1..Len(given) /\ Len(given) \in Nat
  BY <1>2
<1>4. n \in 0..Len(given)
  BY DEF TypeInv, TypeOK
<1>5. hosts \in Seq(Address)
  BY DEF TypeInv, TypeOK
<1>6. ranges \in Seq(Address)
  BY DEF TypeInv, TypeOK
<1>7. used \subseteq Address
  BY DEF TypeInv, TypeOK
<1>8. QED
  BY <1>1, <1>2, <1>3, <1>4, <1>5, <1>6, <1>7

(* The ends of a range that parses are addresses.                          *)
LEMMA ParsedEnds ==
    ASSUME given \in Seq(GivenRange), NEW i \in 1..Len(given), Parses(given[i])
    PROVE  given[i].first \in Address /\ given[i].last \in Address
<1>1. given[i] \in GivenRange
  OBVIOUS
<1>2. given[i].first \in RangeEnd /\ given[i].last \in RangeEnd
  BY <1>1 DEF GivenRange
<1>3. QED
  BY <1>2 DEF Parses, RangeEnd

(* The default gateway is an address.                                      *)
LEMMA GatewayAddress ==
    ASSUME NEW c \in CIDR
    PROVE  CalcDefaultGateway(c) \in Address
<1>1. Network(c) \in Word(Width) /\ Width \in Nat
  BY NetworkFirst, AddressValue
<1>2. Inc(Network(c)) \in Word(Width)
  BY <1>1, IncWord
<1>3. QED
  BY <1>2 DEF CalcDefaultGateway, Word, Address

-----------------------------------------------------------------------------
(* Types.                                                                  *)

(* The type invariant holds at first.                                      *)
LEMMA InitTypeInv == Init => TypeInv
<1> SUFFICES ASSUME Init PROVE TypeInv
  OBVIOUS
<1>1. cidr \in CIDR /\ given \in RangeLists
  BY DEF Init, CIDR
<1>2. Len(given) \in Nat
  <2>1. given \in Seq(GivenRange)
    BY <1>1, SubnetHostsAssumption DEF GivenRange
  <2>2. QED
    BY <2>1
<1>3. ip \in Address
  BY <1>1, NetworkFirst DEF Init
<1>4. n \in 0..Len(given)
  BY <1>2 DEF Init
<1>5. hosts \in Seq(Address)
  BY DEF Init
<1>6. ranges \in Seq(Address)
  BY DEF Init
<1>7. pc = "cidr" /\ used \subseteq Address
  BY DEF Init
<1>8. QED
  BY <1>1, <1>3, <1>4, <1>5, <1>6, <1>7 DEF TypeInv, TypeOK, CIDR

(* Every step keeps the type invariant.                                    *)
LEMMA NextTypeInv == TypeInv /\ [Next]_vars => TypeInv'
<1> SUFFICES ASSUME TypeInv, [Next]_vars PROVE TypeInv'
  OBVIOUS
<1>1. /\ cidr \in CIDR /\ given \in RangeLists /\ n \in 0..Len(given)
      /\ given \in Seq(GivenRange) /\ Len(given) \in Nat
      /\ hosts \in Seq(Address) /\ ranges \in Seq(Address) /\ used \subseteq Address
  BY Typed
<1>2. Width \in Nat /\ Width + 1 \in Nat /\ Address = Word(Width)
  BY SubnetHostsAssumption DEF Word, Address
<1>3. pc = "cidr" => ip \in Address
  BY DEF TypeInv, TypeOK
<1>4. pc # "cidr" => ip \in Address \/ Unmapped(ip) \in Address
  BY DEF TypeInv, TypeOK
<1>5. pc = "range" => n \in 1..Len(given) /\ Parses(given[n]) /\ ip \in Word(Width + 1)
  BY DEF TypeInv
<1>6. pc # "cidr" => cidr.len > 0
  BY DEF TypeInv
<1>7. CASE TakeHost
  <2>1. ip \in Word(Width)
    BY <1>2, <1>3, <1>7 DEF TakeHost
  <2>2. ip' \in Address
    BY <1>2, <1>7, <2>1, IncWord DEF TakeHost
  <2>3. hosts' \in Seq(Address)
    BY <1>1, <1>2, <1>7, <2>1 DEF TakeHost
  <2>4. ranges' \in Seq(Address)
    BY <1>1, <1>7 DEF TakeHost
  <2>5. QED
    BY <1>1, <1>7, <2>2, <2>3, <2>4 DEF TakeHost, TypeInv, TypeOK, CIDR
<1>8. CASE SkipHost
  <2>1. ip \in Word(Width)
    BY <1>2, <1>3, <1>8 DEF SkipHost
  <2>2. ip' \in Address
    BY <1>2, <1>8, <2>1, IncWord DEF SkipHost
  <2>3. hosts' \in Seq(Address)
    BY <1>1, <1>8 DEF SkipHost
  <2>4. ranges' \in Seq(Address)
    BY <1>1, <1>8 DEF SkipHost
  <2>5. QED
    BY <1>1, <1>8, <2>2, <2>3, <2>4 DEF SkipHost, TypeInv, TypeOK, CIDR
<1>9. CASE CIDRDone
  <2>1. cidr.len > 0
    <3>1. cidr.len \in 0..(Bits * Width) /\ Bits * Width \in Nat
      BY <1>1, CIDRType
    <3>2. cidr.len # 0
      <4>1. CASE cidr.len = 0
        <5>1. \A i \in 1..0 : FALSE
          OBVIOUS
        <5>2. Contains(cidr, ip)
          BY <4>1, <5>1 DEF Contains
        <5>3. QED
          BY <1>9, <5>2 DEF CIDRDone
      <4>2. QED
        BY <4>1
    <3>3. QED
      BY <3>1, <3>2
  <2>2. ip' \in Address
    BY <1>3, <1>9 DEF CIDRDone
  <2>3. hosts' \in Seq(Address)
    BY <1>1, <1>9 DEF CIDRDone
  <2>4. ranges' \in Seq(Address)
    BY <1>1, <1>9 DEF CIDRDone
  <2>5. QED
    BY <1>1, <1>9, <2>1, <2>2, <2>3, <2>4 DEF CIDRDone, TypeInv, TypeOK, CIDR
<1>10. CASE SkipRange
  <2>1. n' \in 0..Len(given')
    BY <1>1, <1>10 DEF SkipRange
  <2>2. ip' \in Address \/ Unmapped(ip') \in Address
    BY <1>4, <1>10 DEF SkipRange
  <2>3. hosts' \in Seq(Address)
    BY <1>1, <1>10 DEF SkipRange
  <2>4. ranges' \in Seq(Address)
    BY <1>1, <1>10 DEF SkipRange
  <2>5. QED
    BY <1>1, <1>6, <1>10, <2>1, <2>2, <2>3, <2>4 DEF SkipRange, TypeInv, TypeOK, CIDR
<1>11. CASE StartRange
  <2>1. n' \in 0..Len(given') /\ n' \in 1..Len(given') /\ n' = n + 1
    BY <1>1, <1>11 DEF StartRange
  <2>2. given[n + 1].first \in Address
    BY <1>1, <1>11, <2>1, ParsedEnds DEF StartRange
  <2>3. ip' \in Word(Width + 1) /\ Unmapped(ip') \in Address
    <3>1. ip' = Mapped(given[n + 1].first)
      BY <1>11 DEF StartRange
    <3>2. QED
      BY <2>2, <3>1, MappedWord
  <2>4. hosts' \in Seq(Address)
    BY <1>1, <1>11 DEF StartRange
  <2>5. ranges' \in Seq(Address)
    BY <1>1, <1>11 DEF StartRange
  <2>6. Parses(given'[n'])
    BY <1>11 DEF StartRange
  <2>7. QED
    BY <1>1, <1>6, <1>11, <2>1, <2>3, <2>4, <2>5, <2>6 DEF StartRange, TypeInv, TypeOK, CIDR, Parses
<1>12. CASE TakeFromRange
  <2>1. ip \in Word(Width + 1)
    BY <1>5, <1>12 DEF TakeFromRange
  <2>2. ip' \in Word(Width + 1) /\ Unmapped(ip') \in Address
    <3>1. ip' \in Word(Width + 1)
      BY <1>2, <1>12, <2>1, IncWord DEF TakeFromRange
    <3>2. QED
      BY <3>1, UnmappedAddress
  <2>3. hosts' \in Seq(Address)
    BY <1>1, <1>12 DEF TakeFromRange
  <2>4. ranges' \in Seq(Address)
    <3>1. Unmapped(ip) \in Address
      BY <2>1, UnmappedAddress
    <3>2. Append(ranges, Unmapped(ip)) \in Seq(Address)
      BY <1>1, <3>1
    <3>3. QED
      BY <1>1, <1>12, <3>2 DEF TakeFromRange
  <2>5. n' \in 1..Len(given') /\ Parses(given'[n'])
    BY <1>5, <1>12 DEF TakeFromRange
  <2>6. QED
    BY <1>1, <1>6, <1>12, <2>2, <2>3, <2>4, <2>5 DEF TakeFromRange, TypeInv, TypeOK, CIDR, Parses
<1>13. CASE RangeDone
  <2>1. ip' \in Address \/ Unmapped(ip') \in Address
    BY <1>4, <1>13 DEF RangeDone
  <2>2. hosts' \in Seq(Address)
    BY <1>1, <1>13 DEF RangeDone
  <2>3. ranges' \in Seq(Address)
    BY <1>1, <1>13 DEF RangeDone
  <2>4. QED
    BY <1>1, <1>6, <1>13, <2>1, <2>2, <2>3 DEF RangeDone, TypeInv, TypeOK, CIDR
<1>14. CASE Intersect
  <2>1. ip' \in Address \/ Unmapped(ip') \in Address
    BY <1>4, <1>14 DEF Intersect
  <2>2. hosts' \in Seq(Address)
    <3> DEFINE S == Range(hosts) \cap Range(ranges)
    <3>1. S \subseteq Address /\ IsFiniteSet(S)
      BY <1>1, RangeOfSeq, FS_Intersection
    <3>2. Intersection(hosts, ranges) \in Seq(Address)
      BY <3>1, AscendingSorts DEF Intersection
    <3>3. QED
      BY <1>1, <1>14, <3>2 DEF Intersect
  <2>3. ranges' \in Seq(Address)
    BY <1>1, <1>14 DEF Intersect
  <2>4. QED
    BY <1>1, <1>6, <1>14, <2>1, <2>2, <2>3 DEF Intersect, TypeInv, TypeOK, CIDR
<1>15. CASE RemoveUsedHosts
  <2>1. ip' \in Address \/ Unmapped(ip') \in Address
    BY <1>4, <1>15 DEF RemoveUsedHosts
  <2>2. used' \subseteq Address
    <3>1. PICK lowest \in 0..Len(hosts), another \in 0..Len(hosts) :
             used' = {hosts[i] : i \in {j \in DOMAIN hosts : j <= lowest \/ j = another}}
                     \cup {CalcDefaultGateway(cidr)}
      BY <1>15 DEF RemoveUsedHosts
    <3>2. \A i \in DOMAIN hosts : hosts[i] \in Address
      BY <1>1
    <3>3. CalcDefaultGateway(cidr) \in Address
      BY <1>1, GatewayAddress
    <3>4. QED
      BY <3>1, <3>2, <3>3
  <2>3. hosts' \in Seq(Address)
    <3> DEFINE S == Range(hosts) \ used'
    <3>1. S \subseteq Address /\ IsFiniteSet(S)
      BY <1>1, RangeOfSeq, FS_Difference
    <3>2. Complement(hosts, used') \in Seq(Address)
      BY <3>1, AscendingSorts DEF Complement
    <3>3. QED
      BY <1>15, <3>2 DEF RemoveUsedHosts
  <2>4. ranges' \in Seq(Address)
    BY <1>1, <1>15 DEF RemoveUsedHosts
  <2>5. /\ cidr' = cidr /\ given' = given /\ n' = n /\ pc = "done" /\ pc' = "free"
    BY <1>15 DEF RemoveUsedHosts
  <2>6. QED
    BY <1>1, <1>6, <2>1, <2>2, <2>3, <2>4, <2>5 DEF TypeInv, TypeOK, CIDR
<1>16. CASE UNCHANGED vars
  BY <1>16 DEF vars, TypeInv, TypeOK, Parses
<1>17. QED
  BY <1>7, <1>8, <1>9, <1>10, <1>11, <1>12, <1>13, <1>14, <1>15, <1>16 DEF Next

-----------------------------------------------------------------------------
(* The loop over the CIDR.                                                 *)

(* The step of the loop over the CIDR: from an address of the network      *)
(* incip leads to the next one, or out of the network after its last; the  *)
(* wrap from the last address of all to the first leads out as well.       *)
LEMMA IncInNetwork ==
    ASSUME NEW c \in CIDR, c.len > 0, NEW a \in Address, Contains(c, a)
    PROVE  /\ Inc(a) \in Address
           /\ \/ /\ Contains(c, Inc(a))
                 /\ Value(Inc(a)) = Value(a) + 1
              \/ /\ ~Contains(c, Inc(a))
                 /\ \A b \in Address : InNetwork(c, b) => Value(b) <= Value(a)
<1>1. Width \in Nat /\ a \in Word(Width) /\ Value(a) \in Nat
  BY AddressValue
<1>2. Inc(a) \in Address
  BY <1>1, IncWord DEF Word, Address
<1>3. /\ First(c) \in Nat /\ Past(c) \in Nat /\ Past(c) <= Values
      /\ \A b \in Address : InNetwork(c, b) <=> First(c) <= Value(b) /\ Value(b) < Past(c)
  BY NetworkInterval
<1>4. \A b \in Address : Contains(c, b) <=> InNetwork(c, b)
  BY ContainsInNetwork DEF CIDR
<1>5. First(c) <= Value(a) /\ Value(a) < Past(c)
  BY <1>3, <1>4
<1>6. /\ Value(a) + 1 < Values => Value(Inc(a)) = Value(a) + 1
      /\ Value(a) + 1 = Values => Value(Inc(a)) = 0
  BY <1>1, IncValue DEF Values
<1>7. Values \in Nat /\ Size(c) \in Nat
  BY CIDRType
<1>8. CASE Value(a) + 1 < Past(c)
  <2>1. Value(Inc(a)) = Value(a) + 1
    BY <1>1, <1>3, <1>6, <1>7, <1>8
  <2>2. Contains(c, Inc(a))
    BY <1>1, <1>2, <1>3, <1>4, <1>5, <1>8, <2>1
  <2>3. QED
    BY <1>2, <2>1, <2>2
<1>9. CASE Value(a) + 1 = Past(c)
  <2>1. \A b \in Address : InNetwork(c, b) => Value(b) <= Value(a)
    <3>1. \A b \in Address : Value(b) \in Nat
      BY AddressValue
    <3>2. QED
      BY <1>1, <1>3, <1>9, <3>1
  <2>2. ~Contains(c, Inc(a))
    <3>1. CASE Past(c) < Values
      <4>1. Value(Inc(a)) = Past(c)
        BY <1>6, <1>9, <3>1
      <4>2. QED
        BY <1>2, <1>3, <1>4, <4>1
    <3>2. CASE Past(c) = Values
      <4>1. Value(Inc(a)) = 0
        BY <1>6, <1>9, <3>2
      <4>2. First(c) > 0
        BY <1>3, <1>7, <3>2, NetworkNotAll DEF Past
      <4>3. QED
        BY <1>2, <1>3, <1>4, <4>1, <4>2
    <3>3. QED
      BY <1>3, <1>7, <3>1, <3>2
  <2>3. QED
    BY <1>2, <2>1, <2>2
<1>10. QED
  BY <1>1, <1>3, <1>5, <1>8, <1>9

(* A sequence still ascends with one that is larger than its members.      *)
LEMMA AscendsAppend ==
    ASSUME NEW s \in Seq(Address), Ascends(s), NEW a \in Address,
           \A b \in Range(s) : Value(b) < Value(a)
    PROVE  Ascends(Append(s, a))
<1> DEFINE t == Append(s, a)
<1>1. Len(s) \in Nat /\ DOMAIN s = 1..Len(s) /\ DOMAIN t = 1..(Len(s) + 1)
  OBVIOUS
<1>2. t[Len(s) + 1] = a /\ \A i \in 1..Len(s) : t[i] = s[i]
  OBVIOUS
<1> HIDE DEF t
<1>3. SUFFICES ASSUME NEW i \in 1..(Len(s) + 1), NEW j \in 1..(Len(s) + 1), i < j
               PROVE  Value(t[i]) < Value(t[j])
  BY <1>1 DEF Ascends, t
<1>4. i \in 1..Len(s)
  BY <1>1, <1>3
<1>5. CASE j = Len(s) + 1
  <2>1. s[i] \in Range(s)
    BY <1>1, <1>4 DEF Range
  <2>2. QED
    BY <1>2, <1>4, <1>5, <2>1
<1>6. CASE j # Len(s) + 1
  <2>1. j \in 1..Len(s)
    BY <1>1, <1>6
  <2>2. QED
    BY <1>1, <1>2, <1>3, <1>4, <2>1 DEF Ascends
<1>7. QED
  BY <1>5, <1>6

(* No host has been seen before the first address of the network.          *)
LEMMA InitHostsInv == Init => HostsInv
<1> SUFFICES ASSUME Init, cidr.len > 0
             PROVE  /\ pc = "cidr" /\ Ascends(hosts)
                    /\ Contains(cidr, ip)
                    /\ Range(hosts) = {a \in NetworkHosts : Value(a) < Value(ip)}
  BY DEF HostsInv
<1>1. cidr \in CIDR /\ hosts = <<>> /\ pc = "cidr" /\ ip = Network(cidr)
  BY DEF Init, CIDR
<1>2. ip \in Address /\ Value(ip) = First(cidr)
  BY <1>1, NetworkFirst
<1>3. /\ First(cidr) \in Nat
      /\ \A b \in Address : InNetwork(cidr, b) <=> First(cidr) <= Value(b) /\ Value(b) < Past(cidr)
  BY <1>1, NetworkInterval
<1>4. First(cidr) < Past(cidr)
  <2>1. Size(cidr) \in Nat \ {0}
    BY <1>1, CIDRType
  <2>2. QED
    BY <1>3, <2>1 DEF Past
<1>5. Contains(cidr, ip)
  <2>1. InNetwork(cidr, ip)
    BY <1>2, <1>3, <1>4
  <2>2. QED
    BY <1>1, <1>2, <2>1, ContainsInNetwork DEF CIDR
<1>6. {a \in NetworkHosts : Value(a) < Value(ip)} = {}
  <2>1. \A b \in Address : Value(b) \in Nat
    BY AddressValue
  <2>2. QED
    BY <1>2, <1>3, <2>1 DEF NetworkHosts
<1>7. hosts \in Seq(Address) /\ Range(hosts) = {}
  <2>1. <<>> \in Seq(Address)
    OBVIOUS
  <2>2. QED
    BY <1>1, <2>1, RangeOfSeq
<1>8. Ascends(hosts)
  <2>1. DOMAIN hosts = {}
    BY <1>1
  <2>2. QED
    BY <2>1 DEF Ascends
<1>9. QED
  BY <1>1, <1>5, <1>6, <1>7, <1>8

(* Every step keeps the invariant of the loop over the CIDR.               *)
LEMMA NextHostsInv == TypeInv /\ HostsInv /\ [Next]_vars => HostsInv'
<1> SUFFICES ASSUME TypeInv, HostsInv, [Next]_vars PROVE HostsInv'
  OBVIOUS
<1>1. cidr \in CIDR /\ hosts \in Seq(Address)
  BY Typed
<1>2. pc = "cidr" => ip \in Address
  BY DEF TypeInv, TypeOK
<1>3. \A b \in Address : Value(b) \in Nat
  BY AddressValue
<1>4. \A b \in Address : Contains(cidr, b) <=> InNetwork(cidr, b)
  BY <1>1, ContainsInNetwork DEF CIDR
<1>5. CASE TakeHost
  <2> SUFFICES ASSUME cidr.len > 0
               PROVE  /\ Ascends(hosts')
                      /\ Range(hosts') = IF Contains(cidr, ip')
                                           THEN {a \in NetworkHosts : Value(a) < Value(ip')}
                                           ELSE NetworkHosts
    BY <1>5 DEF TakeHost, HostsInv, NetworkHosts, EdgeByte, InNetwork
  <2>1. ip \in Address /\ Contains(cidr, ip) /\ hosts' = Append(hosts, ip) /\ ip' = Inc(ip)
    BY <1>2, <1>5 DEF TakeHost
  <2>2. ip \in NetworkHosts
    BY <1>4, <1>5, <2>1 DEF TakeHost, NetworkHosts
  <2>3. Ascends(hosts) /\ Range(hosts) = {a \in NetworkHosts : Value(a) < Value(ip)}
    BY <1>5 DEF TakeHost, HostsInv
  <2>4. Ascends(hosts')
    BY <1>1, <2>1, <2>3, AscendsAppend
  <2>5. Range(hosts') = Range(hosts) \cup {ip}
    BY <1>1, <2>1, RangeOfAppend
  <2>6. \A b \in Address : Value(b) = Value(ip) => b = ip
    BY <2>1, AddressValue, ValueInjective
  <2>7. NetworkHosts \subseteq Address
    BY DEF NetworkHosts
  <2>8. CASE Contains(cidr, ip') /\ Value(ip') = Value(ip) + 1
    <3>1. ASSUME NEW a \in NetworkHosts
          PROVE  Value(a) < Value(ip') <=> Value(a) < Value(ip) \/ a = ip
      BY <1>3, <2>1, <2>6, <2>7, <2>8
    <3>2. QED
      BY <2>2, <2>3, <2>4, <2>5, <2>8, <3>1
  <2>9. CASE ~Contains(cidr, ip') /\ \A b \in Address : InNetwork(cidr, b) => Value(b) <= Value(ip)
    <3>1. ASSUME NEW a \in NetworkHosts
          PROVE  Value(a) < Value(ip) \/ a = ip
      <4>1. a \in Address /\ Value(a) <= Value(ip)
        BY <2>9 DEF NetworkHosts
      <4>2. QED
        BY <1>3, <2>1, <2>6, <4>1
    <3>2. QED
      BY <2>2, <2>3, <2>4, <2>5, <2>9, <3>1
  <2>10. QED
    BY <1>1, <2>1, <2>8, <2>9, IncInNetwork
<1>6. CASE SkipHost
  <2> SUFFICES ASSUME cidr.len > 0
               PROVE  /\ Ascends(hosts)
                      /\ Range(hosts) = IF Contains(cidr, ip')
                                          THEN {a \in NetworkHosts : Value(a) < Value(ip')}
                                          ELSE NetworkHosts
    BY <1>6 DEF SkipHost, HostsInv, NetworkHosts, EdgeByte, InNetwork
  <2>1. ip \in Address /\ Contains(cidr, ip) /\ ip' = Inc(ip)
    BY <1>2, <1>6 DEF SkipHost
  <2>2. ip \notin NetworkHosts
    BY <1>6 DEF SkipHost, NetworkHosts
  <2>3. Ascends(hosts) /\ Range(hosts) = {a \in NetworkHosts : Value(a) < Value(ip)}
    BY <1>6 DEF SkipHost, HostsInv
  <2>4. \A b \in Address : Value(b) = Value(ip) => b = ip
    BY <2>1, AddressValue, ValueInjective
  <2>5. NetworkHosts \subseteq Address
    BY DEF NetworkHosts
  <2>6. CASE Contains(cidr, ip') /\ Value(ip') = Value(ip) + 1
    <3>1. ASSUME NEW a \in NetworkHosts
          PROVE  Value(a) < Value(ip') <=> Value(a) < Value(ip)
      BY <1>3, <2>1, <2>2, <2>4, <2>5, <2>6
    <3>2. QED
      BY <2>3, <2>6, <3>1
  <2>7. CASE ~Contains(cidr, ip') /\ \A b \in Address : InNetwork(cidr, b) => Value(b) <= Value(ip)
    <3>1. ASSUME NEW a \in NetworkHosts
          PROVE  Value(a) < Value(ip)
      <4>1. a \in Address /\ Value(a) <= Value(ip)
        BY <2>7 DEF NetworkHosts
      <4>2. QED
        BY <1>3, <2>1, <2>2, <2>4, <4>1
    <3>2. QED
      BY <2>3, <2>7, <3>1
  <2>8. QED
    BY <1>1, <2>1, <2>6, <2>7, IncInNetwork
<1>7. CASE CIDRDone
  BY <1>7 DEF CIDRDone, HostsInv, NetworkHosts, EdgeByte, InNetwork
<1>8. CASE SkipRange \/ StartRange \/ TakeFromRange \/ RangeDone \/ UNCHANGED vars
  <2>1. hosts' = hosts /\ cidr' = cidr
    BY <1>8 DEF SkipRange, StartRange, TakeFromRange, RangeDone, vars
  <2>2. \/ pc \in {"ranges", "range"} /\ pc' \in {"ranges", "range"}
        \/ pc' = pc /\ ip' = ip
    BY <1>8 DEF SkipRange, StartRange, TakeFromRange, RangeDone, vars
  <2>3. NetworkHosts' = NetworkHosts
    BY <2>1 DEF NetworkHosts, EdgeByte, InNetwork
  <2>4. Ascends(hosts)' = Ascends(hosts)
    BY <2>1 DEF Ascends
  <2>5. CASE pc \in {"ranges", "range"} /\ pc' \in {"ranges", "range"}
    BY <2>1, <2>3, <2>4, <2>5 DEF HostsInv
  <2>6. CASE pc' = pc /\ ip' = ip
    BY <2>1, <2>3, <2>4, <2>6 DEF HostsInv, Contains
  <2>7. QED
    BY <2>2, <2>5, <2>6
<1>9. CASE Intersect \/ RemoveUsedHosts
  BY <1>9 DEF Intersect, RemoveUsedHosts, HostsInv
<1>10. QED
  BY <1>5, <1>6, <1>7, <1>8, <1>9 DEF Next

-----------------------------------------------------------------------------
(* The loops over the ranges.                                              *)

(* No range has been begun at first.                                       *)
LEMMA InitRangesInv == Init => RangesInv
  BY DEF Init, RangesInv

(* The addresses of one range more.                                        *)
LEMMA InRangesStep ==
    ASSUME NEW k \in Nat
    PROVE  InRanges(k + 1) = InRanges(k) \cup {a \in Address : InRange(given[k + 1], a)}
<1>1. 1..(k + 1) = (1..k) \cup {k + 1}
  OBVIOUS
<1>2. QED
  BY <1>1 DEF InRanges

(* The loop over a range on the mapped form: while the bound holds, the    *)
(* bytes are those of an address and incip adds one, at the last address   *)
(* too.                                                                    *)
LEMMA IncInRange ==
    ASSUME NEW last \in Address, NEW b \in Word(Width + 1)
    PROVE  /\ Before(Mapped(last), b) <=> Value(last) < Value(b)
           /\ Value(b) <= Value(last) =>
                 /\ Unmapped(b) \in Address
                 /\ Value(Unmapped(b)) = Value(b)
                 /\ Value(Inc(b)) = Value(b) + 1
<1>1. Width + 1 \in Nat /\ Mapped(last) \in Word(Width + 1)
  BY SubnetHostsAssumption, MappedWord
<1>2. Value(Mapped(last)) = Value(last)
  BY MappedValue
<1>3. Before(Mapped(last), b) <=> Value(last) < Value(b)
  BY <1>1, <1>2, BeforeValue
<1>4. Value(b) \in Nat /\ Value(last) \in Nat /\ Value(last) < Values
  BY <1>1, ValueType, AddressValue
<1>5. ASSUME Value(b) <= Value(last)
      PROVE  /\ Unmapped(b) \in Address
             /\ Value(Unmapped(b)) = Value(b)
             /\ Value(Inc(b)) = Value(b) + 1
  <2>1. b[1] = 0
    <3>1. 1 \in 1..(Width + 1) /\ \A j \in 1..(1 - 1) : FALSE
      BY SubnetHostsAssumption
    <3>2. b[1] \in Nat
      BY <1>1, <3>1, WordByte
    <3>3. DOMAIN Mapped(last) = 1..(Width + 1) /\ Mapped(last)[1] = 0
      BY MappedWord DEF Word
    <3>4. ~(b[1] > 0)
      BY <1>3, <1>4, <1>5, <3>1, <3>3 DEF Before
    <3>5. QED
      BY <3>2, <3>4
  <2>2. Unmapped(b) \in Address /\ Mapped(Unmapped(b)) = b
    BY <2>1, UnmappedAddress
  <2>3. Value(Unmapped(b)) = Value(b)
    BY <2>2, MappedValue
  <2>4. Value(b) + 1 < Pow2[Bits * (Width + 1)]
    <3>1. Bits \in Nat \ {0} /\ Bits * Width \in Nat /\ Bits * (Width + 1) = Bits * Width + Bits
      BY SubnetHostsAssumption
    <3>2. Pow2[Bits * Width + Bits] = Values * Base
      BY <3>1, Pow2Sum DEF Values, Base
    <3>3. Values \in Nat /\ Base \in Nat /\ Base >= 2
      BY <3>1, BaseType, Pow2Values DEF Values
    <3>4. Values * Base >= Values * 2
      BY <3>3
    <3>5. QED
      BY <1>4, <1>5, <3>1, <3>2, <3>3, <3>4
  <2>5. QED
    BY <1>1, <2>2, <2>3, <2>4, IncValue
<1>6. QED
  BY <1>3, <1>5

(* Every step keeps the invariant of the loops over the ranges.            *)
LEMMA NextRangesInv == TypeInv /\ RangesInv /\ [Next]_vars => RangesInv'
<1> SUFFICES ASSUME TypeInv, RangesInv, [Next]_vars PROVE RangesInv'
  OBVIOUS
<1>1. /\ given \in Seq(GivenRange) /\ Len(given) \in Nat /\ n \in 0..Len(given)
      /\ ranges \in Seq(Address)
  BY Typed
<1>2. \A b \in Address : Value(b) \in Nat
  BY AddressValue
<1>3. pc = "range" => n \in 1..Len(given) /\ Parses(given[n]) /\ ip \in Word(Width + 1)
  BY DEF TypeInv
<1>4. CASE TakeHost \/ SkipHost
  BY <1>4 DEF TakeHost, SkipHost, RangesInv
<1>5. CASE CIDRDone
  <2>1. InRanges(0) = {}
    <3>1. \A i \in 1..0 : FALSE
      OBVIOUS
    <3>2. QED
      BY <3>1 DEF InRanges
  <2>2. ranges = <<>> /\ n = 0 /\ Range(ranges) = {}
    <3>1. ranges = <<>> /\ n = 0
      BY <1>5 DEF CIDRDone, RangesInv
    <3>2. QED
      BY <1>1, <3>1, RangeOfSeq
  <2>3. InRanges(n)' = InRanges(n)
    BY <1>5 DEF CIDRDone, InRanges
  <2>4. QED
    BY <1>5, <2>1, <2>2, <2>3 DEF CIDRDone, RangesInv
<1>6. CASE SkipRange
  <2>1. /\ pc = "ranges" /\ pc' = pc /\ n' = n + 1 /\ given' = given /\ ranges' = ranges
        /\ ~Parses(given[n + 1])
    BY <1>6 DEF SkipRange
  <2>2. InRanges(n + 1) = InRanges(n)
    <3>1. {a \in Address : InRange(given[n + 1], a)} = {}
      BY <2>1 DEF InRange
    <3>2. n \in Nat
      BY <1>1
    <3>3. InRanges(n + 1) = InRanges(n) \cup {a \in Address : InRange(given[n + 1], a)}
      BY <3>2, InRangesStep
    <3>4. QED
      BY <3>1, <3>3
  <2>3. InRanges(n)' = InRanges(n + 1)
    BY <2>1 DEF InRanges
  <2>4. QED
    BY <2>1, <2>2, <2>3 DEF RangesInv
<1>7. CASE StartRange
  <2>1. /\ pc = "ranges" /\ pc' = "range" /\ n' = n + 1 /\ given' = given /\ ranges' = ranges
        /\ Parses(given[n + 1]) /\ ip' = Mapped(given[n + 1].first) /\ n + 1 \in 1..Len(given)
    BY <1>1, <1>7 DEF StartRange
  <2>2. given[n + 1].first \in Address
    BY <1>1, <2>1, ParsedEnds
  <2>3. Value(ip') = Value(given[n + 1].first)
    BY <2>1, <2>2, MappedValue
  <2>4. {a \in Address : InRange(given[n + 1], a) /\ Value(a) < Value(ip')} = {}
    BY <1>2, <2>2, <2>3 DEF InRange
  <2>5. InRanges(n' - 1) = InRanges(n) /\ InRanges(n - 1)' = InRanges(n' - 1)
    <3>1. n' - 1 = n
      BY <1>1, <2>1
    <3>2. QED
      BY <2>1, <3>1 DEF InRanges
  <2>6. Range(ranges) = InRanges(n)
    BY <2>1 DEF RangesInv
  <2>7. Value(given'[n'].first) <= Value(ip')
    BY <1>2, <2>1, <2>2, <2>3
  <2>8. Range(ranges') = InRanges(n - 1)' \cup
              {a \in Address : InRange(given'[n'], a) /\ Value(a) < Value(ip')}
    BY <2>1, <2>4, <2>5, <2>6
  <2>9. QED
    BY <2>1, <2>7, <2>8 DEF RangesInv, InRange, Parses
<1>8. CASE TakeFromRange
  <2> DEFINE r == given[n]
             u == Unmapped(ip)
  <2>1. /\ pc = "range" /\ pc' = pc /\ n' = n /\ given' = given
        /\ ~Before(Mapped(r.last), ip) /\ ip' = Inc(ip)
        /\ ranges' = IF u \in Range(ranges) THEN ranges ELSE Append(ranges, u)
    BY <1>8 DEF TakeFromRange, InRangeBound
  <2>2. n \in 1..Len(given) /\ Parses(r) /\ ip \in Word(Width + 1)
    BY <1>3, <2>1
  <2>3. r.first \in Address /\ r.last \in Address
    BY <1>1, <2>2, ParsedEnds
  <2>4. Value(ip) \in Nat
    BY <2>2, ValueType, SubnetHostsAssumption
  <2>5. /\ Value(r.first) <= Value(ip)
        /\ Range(ranges) = InRanges(n - 1) \cup
              {a \in Address : InRange(r, a) /\ Value(a) < Value(ip)}
    BY <2>1 DEF RangesInv
  <2>6. Value(ip) <= Value(r.last)
    BY <1>2, <2>1, <2>2, <2>3, <2>4, IncInRange
  <2>7. u \in Address /\ Value(u) = Value(ip) /\ Value(ip') = Value(ip) + 1
    BY <2>1, <2>2, <2>3, <2>6, IncInRange
  <2> HIDE DEF u, r
  <2>8. InRange(r, u)
    BY <2>2, <2>5, <2>6, <2>7 DEF InRange
  <2>9. {a \in Address : InRange(r, a) /\ Value(a) < Value(ip')}
          = {a \in Address : InRange(r, a) /\ Value(a) < Value(ip)} \cup {u}
    <3>1. \A a \in Address : Value(a) = Value(ip) => a = u
      BY <2>7, AddressValue, ValueInjective
    <3>2. \A a \in Address : Value(a) < Value(ip') <=> Value(a) < Value(ip) \/ a = u
      BY <1>2, <2>4, <2>7, <3>1
    <3>3. QED
      BY <2>7, <2>8, <3>2
  <2>10. Range(ranges') = Range(ranges) \cup {u}
    BY <1>1, <2>1, <2>7, RangeOfAppend
  <2>11. InRanges(n - 1)' = InRanges(n - 1)
    BY <2>1 DEF InRanges
  <2>12. Value(r.first) <= Value(ip')
    BY <1>2, <2>3, <2>4, <2>5, <2>7
  <2>13. given'[n'] = r
    BY <2>1 DEF r
  <2>14. Range(ranges') = InRanges(n - 1)' \cup
              {a \in Address : InRange(given'[n'], a) /\ Value(a) < Value(ip')}
    BY <2>5, <2>9, <2>10, <2>11, <2>13
  <2>15. QED
    BY <2>1, <2>12, <2>13, <2>14 DEF RangesInv, InRange, Parses
<1>9. CASE RangeDone
  <2> DEFINE r == given[n]
  <2>1. /\ pc = "range" /\ pc' = "ranges" /\ n' = n /\ given' = given /\ ranges' = ranges
        /\ Before(Mapped(r.last), ip)
    BY <1>9 DEF RangeDone, InRangeBound
  <2>2. n \in 1..Len(given) /\ Parses(r) /\ ip \in Word(Width + 1)
    BY <1>3, <2>1
  <2>3. r.first \in Address /\ r.last \in Address
    BY <1>1, <2>2, ParsedEnds
  <2>4. Value(ip) \in Nat
    BY <2>2, ValueType, SubnetHostsAssumption
  <2>5. Range(ranges) = InRanges(n - 1) \cup
              {a \in Address : InRange(r, a) /\ Value(a) < Value(ip)}
    BY <2>1 DEF RangesInv
  <2>6. Value(r.last) < Value(ip)
    BY <2>1, <2>2, <2>3, IncInRange
  <2>7. \A a \in Address : InRange(r, a) => Value(a) < Value(ip)
    BY <1>2, <2>3, <2>4, <2>6 DEF InRange
  <2>8. InRanges(n) = InRanges(n - 1) \cup {a \in Address : InRange(r, a)}
    <3> DEFINE k == n - 1
    <3>1. k \in Nat /\ k + 1 = n
      BY <2>2
    <3> HIDE DEF k
    <3>2. InRanges(k + 1) = InRanges(k) \cup {a \in Address : InRange(given[k + 1], a)}
      BY <3>1, InRangesStep
    <3>3. QED
      BY <3>1, <3>2 DEF k
  <2>9. Range(ranges) = InRanges(n)
    <3> HIDE DEF r
    <3>1. QED
      BY <2>5, <2>7, <2>8
  <2>10. InRanges(n)' = InRanges(n)
    BY <2>1 DEF InRanges
  <2>11. QED
    BY <2>1, <2>9, <2>10 DEF RangesInv
<1>10. CASE Intersect \/ RemoveUsedHosts
  BY <1>10 DEF Intersect, RemoveUsedHosts, RangesInv
<1>11. CASE UNCHANGED vars
  BY <1>11 DEF vars, RangesInv, InRanges, InRange, Parses
<1>12. QED
  BY <1>4, <1>5, <1>6, <1>7, <1>8, <1>9, <1>10, <1>11 DEF Next

-----------------------------------------------------------------------------
(* Intersection and complement.                                            *)

(* The intersection of what both loops saw is what is wanted.              *)
LEMMA NextHostsCorrect ==
    TypeInv /\ HostsInv /\ RangesInv /\ HostsCorrect /\ [Next]_vars => HostsCorrect'
<1> SUFFICES ASSUME TypeInv, HostsInv, RangesInv, HostsCorrect, [Next]_vars, pc' = "done"
             PROVE  Range(hosts') = Wanted' /\ Ascends(hosts')
  BY DEF HostsCorrect, Ascends
<1>1. CASE Intersect
  <2>1. /\ pc = "ranges" /\ n = Len(given) /\ cidr' = cidr /\ given' = given
        /\ hosts' = IF ranges = <<>> THEN hosts ELSE Intersection(hosts, ranges)
    BY <1>1 DEF Intersect
  <2>2. hosts \in Seq(Address) /\ ranges \in Seq(Address) /\ DOMAIN given = 1..Len(given)
    BY Typed
  <2>3. Range(hosts) = NetworkHosts /\ Ascends(hosts) /\ Range(ranges) = InRanges(Len(given))
    BY <2>1 DEF TypeInv, HostsInv, RangesInv
  <2>4. \A a \in Address : InSomeRange(a) <=> a \in InRanges(Len(given))
    BY <2>2 DEF InSomeRange, InRanges
  <2>5. Wanted' = Wanted
    BY <2>1 DEF Wanted, InNetwork, InSomeRange, InRange, Parses
  <2>6. Wanted = {a \in NetworkHosts : (\E b \in Address : InSomeRange(b)) => InSomeRange(a)}
    BY DEF Wanted, NetworkHosts, EdgeByte
  <2>7. InRanges(Len(given)) \subseteq Address /\ NetworkHosts \subseteq Address
    BY DEF InRanges, NetworkHosts
  <2>8. CASE ranges = <<>>
    <3>1. InRanges(Len(given)) = {}
      BY <2>2, <2>3, <2>8, RangeOfSeq
    <3>2. Wanted = NetworkHosts
      BY <2>4, <2>6, <3>1
    <3>3. QED
      BY <2>1, <2>3, <2>5, <2>8, <3>2
  <2>9. CASE ranges # <<>>
    <3> DEFINE S == Range(hosts) \cap Range(ranges)
    <3>1. S \subseteq Address /\ IsFiniteSet(S)
      BY <2>2, RangeOfSeq, FS_Intersection
    <3>2. hosts' = Ascending(S)
      BY <2>1, <2>9 DEF Intersection
    <3>3. S = Wanted
      <4>1. InRanges(Len(given)) # {}
        BY <2>2, <2>3, <2>9, RangeOfSeq
      <4>2. \E b \in Address : InSomeRange(b)
        BY <2>4, <2>7, <4>1
      <4>3. Wanted = {a \in NetworkHosts : InSomeRange(a)}
        BY <2>6, <4>2
      <4>4. QED
        BY <2>3, <2>4, <2>7, <4>3
    <3> HIDE DEF S
    <3>4. Range(hosts') = S /\ Ascends(hosts')
      BY <3>1, <3>2, AscendingSorts
    <3>5. QED
      BY <2>5, <3>3, <3>4
  <2>10. QED
    BY <2>8, <2>9
<1>2. CASE UNCHANGED vars
  <2>1. Range(hosts) = Wanted /\ Ascends(hosts)
    BY <1>2 DEF vars, HostsCorrect, Ascends
  <2>2. QED
    BY <1>2, <2>1 DEF vars, Wanted, InNetwork, InSomeRange, InRange, Parses
<1>3. QED
  BY <1>1, <1>2 DEF Next, TakeHost, SkipHost, CIDRDone, SkipRange, StartRange,
                    TakeFromRange, RangeDone, RemoveUsedHosts

(* What RemoveUsedHosts leaves is what is wanted and not in use.           *)
LEMMA NextFreeInv ==
    TypeInv /\ HostsCorrect /\ FreeInv /\ [Next]_vars => FreeInv'
<1> SUFFICES ASSUME TypeInv, HostsCorrect, FreeInv, [Next]_vars, pc' = "free"
             PROVE  /\ Range(hosts') = Wanted' \ used'
                    /\ Ascends(hosts')
                    /\ CalcDefaultGateway(cidr') \in used'
  BY DEF FreeInv, CalcDefaultGateway, Network, Contains
<1>1. CASE RemoveUsedHosts
  <2>1. /\ pc = "done" /\ cidr' = cidr /\ given' = given
        /\ hosts' = Complement(hosts, used') /\ CalcDefaultGateway(cidr) \in used'
    BY <1>1 DEF RemoveUsedHosts
  <2>2. hosts \in Seq(Address)
    BY Typed
  <2>3. Range(hosts) = Wanted
    BY <2>1 DEF HostsCorrect
  <2>4. Wanted' = Wanted
    BY <2>1 DEF Wanted, InNetwork, InSomeRange, InRange, Parses
  <2> DEFINE S == Range(hosts) \ used'
  <2>5. S \subseteq Address /\ IsFiniteSet(S)
    BY <2>2, RangeOfSeq, FS_Difference
  <2>6. hosts' = Ascending(S)
    BY <2>1 DEF Complement
  <2> HIDE DEF S
  <2>7. Range(hosts') = S /\ Ascends(hosts')
    BY <2>5, <2>6, AscendingSorts
  <2>8. QED
    BY <2>1, <2>3, <2>4, <2>7 DEF S
<1>2. CASE UNCHANGED vars
  <2>1. Range(hosts) = Wanted \ used /\ Ascends(hosts) /\ CalcDefaultGateway(cidr) \in used
    BY <1>2 DEF vars, FreeInv
  <2>2. QED
    BY <1>2, <2>1 DEF vars, Wanted, InNetwork, InSomeRange, InRange, Parses
<1>3. QED
  BY <1>1, <1>2 DEF Next, TakeHost, SkipHost, CIDRDone, SkipRange, StartRange,
                    TakeFromRange, RangeDone, Intersect

-----------------------------------------------------------------------------
(* The theorems.                                                           *)

(* The type invariant holds in every state.                                *)
LEMMA TypeInvariant == Spec => []TypeInv
  BY InitTypeInv, NextTypeInv, PTL DEF Spec

(***************************************************************************)
(* The variables keep their types: whatever the CIDR and the ranges, the   *)
(* loops only ever see addresses (or their mapped forms) and collect       *)
(* addresses.                                                              *)
(***************************************************************************)
THEOREM SubnetTypeCorrect == Spec => []TypeOK
<1>1. TypeInv => TypeOK
  BY DEF TypeInv
<1>2. QED
  BY <1>1, TypeInvariant, PTL

(***************************************************************************)
(* For every width of addresses and bytes, CIDR and list of ranges, the    *)
(* result of calcSubnetHosts is the addresses of the network that are in   *)
(* some range - in any case when the ranges have none - and whose last     *)
(* byte is no edge, each once and in ascending order (ipalloc.go:58-94,    *)
(* ipcalc.go:89-153).                                                      *)
(***************************************************************************)
THEOREM HostsAreThoseWanted == Spec => []HostsCorrect
<1>1. Init => HostsInv /\ RangesInv /\ HostsCorrect
  BY InitHostsInv, InitRangesInv DEF Init, HostsCorrect
<1>2. QED
  BY <1>1, TypeInvariant, NextHostsInv, NextRangesInv, NextHostsCorrect, PTL DEF Spec

(* The list of free hosts is complete and sorted in every state.           *)
LEMMA FreeInvariant == Spec => []FreeInv
<1>1. Init => FreeInv
  BY DEF Init, FreeInv
<1>2. QED
  BY <1>1, TypeInvariant, HostsAreThoseWanted, NextFreeInv, PTL DEF Spec

(***************************************************************************)
(* For all of them, the address allocateAutoIP takes is the lowest that is *)
(* wanted and not in use, and there is none only when all are              *)
(* (ipalloc.go:30-35).                                                     *)
(***************************************************************************)
THEOREM LowestIsHandedOut == Spec => []LowestFreeFirst
<1>1. TypeInv /\ FreeInv => LowestFreeFirst
  <2> SUFFICES ASSUME TypeInv, FreeInv, pc = "free"
               PROVE  \/ hosts = <<>> /\ Wanted \subseteq used
                      \/ /\ hosts # <<>>
                         /\ hosts[1] \in Wanted \ used
                         /\ \A a \in Wanted \ used : Value(hosts[1]) <= Value(a)
    BY DEF LowestFreeFirst
  <2>1. hosts \in Seq(Address)
    BY Typed
  <2>2. Range(hosts) = Wanted \ used /\ Ascends(hosts)
    BY DEF FreeInv
  <2>3. CASE hosts = <<>>
    <3>1. Range(hosts) = {}
      BY <2>1, <2>3, RangeOfSeq
    <3>2. QED
      BY <2>2, <2>3, <3>1
  <2>4. CASE hosts # <<>>
    <3>1. DOMAIN hosts = 1..Len(hosts) /\ Len(hosts) \in Nat /\ 1 \in DOMAIN hosts
      BY <2>1, <2>4
    <3>2. hosts[1] \in Range(hosts)
      BY <3>1 DEF Range
    <3>3. ASSUME NEW a \in Range(hosts) PROVE Value(hosts[1]) <= Value(a)
      <4>1. PICK i \in DOMAIN hosts : hosts[i] = a
        BY DEF Range
      <4>2. hosts[1] \in Address /\ a \in Address
        BY <2>1, <3>2, RangeOfSeq
      <4>3. Value(hosts[1]) \in Nat /\ Value(a) \in Nat
        BY <4>2, AddressValue
      <4>4. CASE i = 1
        BY <4>1, <4>3, <4>4
      <4>5. CASE i # 1
        <5>1. 1 < i
          BY <3>1, <4>5
        <5>2. Value(hosts[1]) < Value(hosts[i])
          BY <2>2, <3>1, <5>1 DEF Ascends
        <5>3. QED
          BY <4>1, <4>3, <5>2
      <4>6. QED
        BY <4>4, <4>5
    <3>4. QED
      BY <2>2, <2>4, <3>2, <3>3
  <2>5. QED
    BY <2>3, <2>4
<1>2. QED
  BY <1>1, TypeInvariant, FreeInvariant, PTL

(***************************************************************************)
(* The default gateway lies in its network whenever this has two           *)
(* addresses, and is not among the free hosts (ipcalc.go:119-128).         *)
(***************************************************************************)
THEOREM GatewayIsNoHost == Spec => []GatewayInNetwork
<1>1. TypeInv /\ FreeInv => GatewayInNetwork
  <2> SUFFICES ASSUME TypeInv, FreeInv
               PROVE  /\ cidr.len < Bits * Width => InNetwork(cidr, CalcDefaultGateway(cidr))
                      /\ pc = "free" => CalcDefaultGateway(cidr) \notin Range(hosts)
    BY DEF GatewayInNetwork
  <2>1. cidr \in CIDR
    BY Typed
  <2>2. ASSUME cidr.len < Bits * Width
        PROVE  InNetwork(cidr, CalcDefaultGateway(cidr))
    <3> DEFINE a == Network(cidr)
    <3>1. a \in Address /\ Value(a) = First(cidr)
      BY <2>1, NetworkFirst
    <3>2. CalcDefaultGateway(cidr) = Inc(a) /\ Inc(a) \in Address
      BY <2>1, GatewayAddress DEF CalcDefaultGateway
    <3> HIDE DEF a
    <3>3. Size(cidr) >= 2 /\ Size(cidr) \in Nat /\ Values \in Nat
      BY <2>1, <2>2, NetworkHasTwo, CIDRType
    <3>4. /\ First(cidr) \in Nat /\ Past(cidr) \in Nat /\ Past(cidr) <= Values
          /\ \A b \in Address : InNetwork(cidr, b) <=> First(cidr) <= Value(b) /\ Value(b) < Past(cidr)
      BY <2>1, NetworkInterval
    <3>5. First(cidr) + 1 < Past(cidr)
      BY <3>3, <3>4 DEF Past
    <3>6. Value(Inc(a)) = First(cidr) + 1
      <4>1. Width \in Nat /\ a \in Word(Width)
        BY <3>1, AddressValue
      <4>2. Value(a) + 1 < Pow2[Bits * Width] => Value(Inc(a)) = Value(a) + 1
        BY <4>1, IncValue
      <4>3. QED
        BY <3>1, <3>3, <3>4, <3>5, <4>2 DEF Values
    <3>7. QED
      BY <3>2, <3>4, <3>5, <3>6
  <2>3. pc = "free" => CalcDefaultGateway(cidr) \notin Range(hosts)
    BY DEF FreeInv
  <2>4. QED
    BY <2>2, <2>3
<1>2. QED
  BY <1>1, TypeInvariant, FreeInvariant, PTL

-----------------------------------------------------------------------------
(* The loops end.                                                          *)

(* How many turns are left: the stages the function still has to go        *)
(* through, two for a range, and in a stage the addresses still to be      *)
(* looked at.                                                              *)
Stages ==
    LET rest == 2 * (Len(given) - n)
    IN  IF pc \in {"cidr", "range"} THEN rest + 3
        ELSE IF pc = "ranges" THEN rest + 2
        ELSE IF pc = "done" THEN 1 ELSE 0

Turns ==
    IF pc = "cidr" /\ Contains(cidr, ip) THEN Past(cidr) - Value(ip)
    ELSE IF pc = "range" /\ InRangeBound(ip) THEN Value(given[n].last) + 1 - Value(ip)
    ELSE 0

CloserToEnd == Stages' < Stages \/ (Stages' = Stages /\ Turns' < Turns)

(* Both counts are natural numbers.                                        *)
LEMMA CountsType ==
    ASSUME TypeInv
    PROVE  Stages \in Nat /\ Turns \in Nat
<1>1. Len(given) \in Nat /\ n \in 0..Len(given) /\ cidr \in CIDR /\ given \in Seq(GivenRange)
  BY Typed
<1>2. Len(given) - n \in Nat
  BY <1>1
<1>3. Stages \in Nat
  <2> DEFINE k == Len(given) - n
  <2> HIDE DEF k
  <2>1. k \in Nat
    BY <1>2 DEF k
  <2>2. Stages = IF pc \in {"cidr", "range"} THEN 2 * k + 3
                 ELSE IF pc = "ranges" THEN 2 * k + 2
                 ELSE IF pc = "done" THEN 1 ELSE 0
    BY DEF Stages, k
  <2>3. QED
    BY <2>1, <2>2
<1>4. CASE pc = "cidr" /\ Contains(cidr, ip)
  <2>1. ip \in Address
    BY <1>4 DEF TypeInv, TypeOK
  <2>2. InNetwork(cidr, ip)
    BY <1>1, <1>4, <2>1, ContainsInNetwork DEF CIDR
  <2>3. Value(ip) \in Nat /\ Value(ip) < Past(cidr) /\ Past(cidr) \in Nat
    BY <1>1, <2>1, <2>2, NetworkInterval, AddressValue
  <2>4. QED
    BY <1>3, <1>4, <2>3 DEF Turns
<1>5. CASE pc = "range" /\ InRangeBound(ip)
  <2>1. n \in 1..Len(given) /\ Parses(given[n]) /\ ip \in Word(Width + 1)
    BY <1>5 DEF TypeInv
  <2>2. given[n].last \in Address
    BY <1>1, <2>1, ParsedEnds
  <2>3. Width + 1 \in Nat
    BY <2>2, AddressValue
  <2>4. Value(ip) \in Nat /\ Value(given[n].last) \in Nat
    BY <2>1, <2>2, <2>3, ValueType, AddressValue
  <2>5. Value(ip) <= Value(given[n].last)
    BY <1>5, <2>1, <2>2, <2>4, IncInRange DEF InRangeBound
  <2>6. QED
    BY <1>3, <1>5, <2>4, <2>5 DEF Turns
<1>6. CASE ~(pc = "cidr" /\ Contains(cidr, ip)) /\ ~(pc = "range" /\ InRangeBound(ip))
  BY <1>3, <1>6 DEF Turns
<1>7. QED
  BY <1>4, <1>5, <1>6

(* A turn of the loop over the CIDR takes one address off.                 *)
LEMMA HostTurn ==
    ASSUME TypeInv, cidr.len > 0, TakeHost \/ SkipHost
    PROVE  CloserToEnd
<1>1. /\ pc = "cidr" /\ Contains(cidr, ip) /\ ip' = Inc(ip)
      /\ pc' = pc /\ n' = n /\ given' = given /\ cidr' = cidr
  BY DEF TakeHost, SkipHost
<1>2. Stages' = Stages
  BY <1>1 DEF Stages
<1>3. cidr \in CIDR
  BY Typed
<1>4. ip \in Address
  BY <1>1 DEF TypeInv, TypeOK
<1>5. InNetwork(cidr, ip)
  BY <1>1, <1>3, <1>4, ContainsInNetwork DEF CIDR
<1>6. Value(ip) \in Nat /\ Past(cidr) \in Nat /\ Value(ip) < Past(cidr)
  BY <1>3, <1>4, <1>5, NetworkInterval, AddressValue
<1>7. Turns = Past(cidr) - Value(ip)
  BY <1>1 DEF Turns
<1>8. CASE Contains(cidr, Inc(ip)) /\ Value(Inc(ip)) = Value(ip) + 1
  <2>1. Turns' = Past(cidr)' - Value(Inc(ip))
    BY <1>1, <1>8 DEF Turns, Contains
  <2>2. Past(cidr)' = Past(cidr)
    BY <1>1 DEF Past, First, Size
  <2>3. QED
    BY <1>2, <1>6, <1>7, <1>8, <2>1, <2>2 DEF CloserToEnd
<1>9. CASE ~Contains(cidr, Inc(ip))
  <2>1. Turns' = 0
    BY <1>1, <1>9 DEF Turns, Contains
  <2>2. QED
    BY <1>2, <1>6, <1>7, <2>1 DEF CloserToEnd
<1>10. QED
  BY <1>1, <1>3, <1>4, <1>8, <1>9, IncInNetwork

(* So does a turn of the loop over a range; the mapped form has room for   *)
(* the address after the last one.                                         *)
LEMMA RangeTurn ==
    ASSUME TypeInv, TakeFromRange
    PROVE  CloserToEnd
<1>1. /\ pc = "range" /\ InRangeBound(ip) /\ ip' = Inc(ip)
      /\ pc' = pc /\ n' = n /\ given' = given /\ cidr' = cidr
  BY DEF TakeFromRange
<1>2. Stages' = Stages
  BY <1>1 DEF Stages
<1>3. n \in 1..Len(given) /\ Parses(given[n]) /\ ip \in Word(Width + 1)
  BY <1>1 DEF TypeInv
<1>4. given[n].last \in Address
  BY <1>3, Typed, ParsedEnds
<1>5. Width + 1 \in Nat
  BY <1>4, AddressValue
<1>6. Value(ip) \in Nat /\ Value(given[n].last) \in Nat
  BY <1>3, <1>4, <1>5, ValueType, AddressValue
<1>7. Value(ip) <= Value(given[n].last)
  BY <1>1, <1>3, <1>4, <1>6, IncInRange DEF InRangeBound
<1>8. Value(Inc(ip)) = Value(ip) + 1
  BY <1>3, <1>4, <1>7, IncInRange
<1>9. Turns = Value(given[n].last) + 1 - Value(ip)
  BY <1>1 DEF Turns
<1>10. Turns' = Value(given[n].last) + 1 - Value(Inc(ip)) \/ Turns' = 0
  BY <1>1 DEF Turns
<1>11. Turns' < Turns
  BY <1>6, <1>7, <1>8, <1>9, <1>10
<1>12. QED
  BY <1>2, <1>11 DEF CloserToEnd

(* Every other step begins a later stage.                                  *)
LEMMA StageOver ==
    ASSUME TypeInv,
           CIDRDone \/ SkipRange \/ StartRange \/ RangeDone \/ Intersect \/ RemoveUsedHosts
    PROVE  CloserToEnd
<1> DEFINE k == Len(given) - n
<1>1. k \in Nat /\ Len(given) \in Nat /\ n \in Nat
  BY Typed
<1>2. given' = given
  BY DEF CIDRDone, SkipRange, StartRange, RangeDone, Intersect, RemoveUsedHosts
<1>3. Stages = IF pc \in {"cidr", "range"} THEN 2 * k + 3
               ELSE IF pc = "ranges" THEN 2 * k + 2
               ELSE IF pc = "done" THEN 1 ELSE 0
  BY DEF Stages
<1>4. ASSUME NEW l, l = Len(given) - n'
      PROVE  Stages' = IF pc' \in {"cidr", "range"} THEN 2 * l + 3
                       ELSE IF pc' = "ranges" THEN 2 * l + 2
                       ELSE IF pc' = "done" THEN 1 ELSE 0
  BY <1>2, <1>4 DEF Stages
<1>5. CASE CIDRDone \/ RangeDone \/ Intersect \/ RemoveUsedHosts
  <2>1. n' = n
    BY <1>5 DEF CIDRDone, RangeDone, Intersect, RemoveUsedHosts
  <2>2. k = Len(given) - n'
    BY <2>1
  <2> HIDE DEF k
  <2>3. \/ pc \in {"cidr", "range"} /\ pc' = "ranges"
        \/ pc = "ranges" /\ pc' = "done"
        \/ pc = "done" /\ pc' = "free"
    BY <1>5 DEF CIDRDone, RangeDone, Intersect, RemoveUsedHosts
  <2>4. Stages' < Stages
    BY <1>1, <1>3, <1>4, <2>2, <2>3
  <2>5. QED
    BY <2>4 DEF CloserToEnd
<1>6. CASE SkipRange \/ StartRange
  <2>1. n' = n + 1 /\ n < Len(given) /\ pc = "ranges" /\ pc' \in {"ranges", "range"}
    BY <1>6 DEF SkipRange, StartRange
  <2>2. k - 1 = Len(given) - n' /\ k >= 1
    BY <1>1, <2>1
  <2> HIDE DEF k
  <2>3. Stages' < Stages
    BY <1>1, <1>3, <1>4, <2>1, <2>2
  <2>4. QED
    BY <2>3 DEF CloserToEnd
<1>7. QED
  BY <1>5, <1>6

(***************************************************************************)
(* The loops of CIDRtoHosts and calcHostsInRanges end: the stages left and *)
(* the addresses left in one are natural numbers, and each step lessens    *)
(* them, the stages first.  This holds up to the last address there is,    *)
(* where the increment wraps or leaves the IPv4 addresses, and for ranges  *)
(* inverted or malformed; only the network of all addresses is excepted    *)
(* (ipalloc.go:96-98, ipcalc.go:89-117, 130-153).                          *)
(***************************************************************************)
THEOREM LoopsComeToAnEnd ==
    Spec => /\ [](Stages \in Nat /\ Turns \in Nat)
            /\ [][cidr.len > 0 => CloserToEnd]_vars
<1>1. TypeInv => Stages \in Nat /\ Turns \in Nat
  BY CountsType
<1>2. TypeInv /\ [Next]_vars => [cidr.len > 0 => CloserToEnd]_vars
  BY HostTurn, RangeTurn, StageOver DEF Next
<1>3. QED
  BY <1>1, <1>2, TypeInvariant, PTL DEF Spec

-----------------------------------------------------------------------------
(* What MacvlanController makes of it: its Hosts are numbers, 0 is none of *)
(* them, and Allocate picks the least that is free.                        *)

Numbers(S) == {Value(a) : a \in S}

FreeNumbers == Numbers(Wanted) \ Numbers(used)

HostsAsNumbers ==
    /\ Numbers(Wanted) \subseteq Nat \ {0}
    /\ pc = "free" =>
         \/ FreeNumbers = {} /\ hosts = <<>>
         \/ /\ hosts # <<>>
            /\ Value(hosts[1]) \in FreeNumbers
            /\ \A b \in FreeNumbers : Value(hosts[1]) <= b

(* A last byte that is no edge is not 0, and so the number is not.         *)
LEMMA HostNotZero ==
    ASSUME NEW a \in Address, a[Width] # 0
    PROVE  Value(a) \in Nat \ {0}
<1>1. Width \in Nat \ {0} /\ a \in Word(Width)
  BY AddressValue, SubnetHostsAssumption
<1>2. Value(a) = Prefixes(a)[Width]
  BY <1>1, ValueType
<1>3. Prefixes(a)[Width] = Prefixes(a)[Width - 1] * Base + a[Width]
  BY <1>1, PrefixesValues
<1>4. Prefixes(a)[Width - 1] \in Nat
  <2>1. Width - 1 \in 0..Width
    BY <1>1
  <2>2. QED
    BY <1>1, <2>1, PrefixesValues
<1>5. a[Width] \in Nat
  BY <1>1, WordByte
<1>6. Prefixes(a)[Width - 1] * Base \in Nat
  BY <1>4, BaseType
<1>7. QED
  BY <1>2, <1>3, <1>5, <1>6

(* Different addresses are different numbers.                              *)
LEMMA FreeNumbersAreFree ==
    ASSUME used \subseteq Address
    PROVE  FreeNumbers = Numbers(Wanted \ used)
<1>1. Wanted \subseteq Address
  BY DEF Wanted
<1>2. ASSUME NEW a \in Wanted, NEW b \in used, Value(a) = Value(b) PROVE a = b
  BY <1>1, <1>2, AddressValue, ValueInjective
<1>3. QED
  BY <1>2 DEF FreeNumbers, Numbers

(***************************************************************************)
(* The part of MacvlanController that calcSubnetHosts and RemoveUsedHosts  *)
(* play is what they do: the hosts of a subnet are numbers other than 0,   *)
(* the number of an empty gateway, and the address of a pod in auto mode   *)
(* is the least one not in use, if there is one (ipalloc.go:18-36, 58-71). *)
(***************************************************************************)
THEOREM HostsFitTheController == Spec => []HostsAsNumbers
<1>1. TypeInv /\ LowestFreeFirst => HostsAsNumbers
  <2> SUFFICES ASSUME TypeInv, LowestFreeFirst PROVE HostsAsNumbers
    OBVIOUS
  <2>1. used \subseteq Address
    BY Typed
  <2>2. Wanted \subseteq Address /\ \A a \in Wanted : a[Width] # 0
    BY DEF Wanted
  <2>3. Numbers(Wanted) \subseteq Nat \ {0}
    BY <2>2, HostNotZero DEF Numbers
  <2>4. FreeNumbers = Numbers(Wanted \ used)
    BY <2>1, FreeNumbersAreFree
  <2>5. CASE pc = "free" /\ hosts = <<>> /\ Wanted \subseteq used
    BY <2>3, <2>4, <2>5 DEF HostsAsNumbers, Numbers
  <2>6. CASE /\ pc = "free" /\ hosts # <<>>
             /\ hosts[1] \in Wanted \ used
             /\ \A a \in Wanted \ used : Value(hosts[1]) <= Value(a)
    BY <2>3, <2>4, <2>6 DEF HostsAsNumbers, Numbers
  <2>7. CASE pc # "free"
    BY <2>3, <2>7 DEF HostsAsNumbers
  <2>8. QED
    BY <2>5, <2>6, <2>7 DEF LowestFreeFirst
<1>2. QED
  BY <1>1, TypeInvariant, LowestIsHandedOut, PTL

==============================================================================
