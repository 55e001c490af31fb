---------------------------- MODULE SubnetHosts ----------------------------
(***************************************************************************)
(* calcSubnetHosts: the addresses of a MacvlanSubnet that may be handed    *)
(* out.  One loop walks the addresses of the CIDR, another one those of    *)
(* each range, both by incrementing the bytes of one address in place; the *)
(* result is what both loops saw.  allocateAutoIP takes the used ones out. *)
(*                                                                         *)
(* An address has Width bytes of Bits bits each; the code has 4 of 8.      *)
(***************************************************************************)
EXTENDS Integers, Sequences, FiniteSets, Functions

CONSTANTS Bits,        \* the bits of a byte
          Width,       \* the bytes of an address
          PrefixLens,  \* the prefix lengths of the CIDRs considered
          RangeLists   \* the spec.ranges considered

Pow2[i \in Nat] == IF i = 0 THEN 1 ELSE 2 * Pow2[i - 1]

Base    == Pow2[Bits]
Byte    == 0..(Base - 1)
Address == [1..Width -> Byte]

(* What net.ParseIP makes of an empty or malformed rangeStart or rangeEnd. *)
Nil == <<>>

RangeEnd == Address \cup {Nil}

ASSUME SubnetHostsAssumption ==
    /\ Bits \in Nat \ {0} /\ Width \in Nat \ {0}
    /\ PrefixLens \subseteq 0..(Bits * Width)
    /\ RangeLists \subseteq Seq([first: RangeEnd, last: RangeEnd])

VARIABLES
    cidr,    \* the spec.cidr: an address and the length of its prefix
    given,   \* the spec.ranges
    pc,      \* which loop is running
    n,       \* how many of the given ranges have been begun
    ip,      \* the address both loops increment
    hosts,   \* the addresses the loop over the CIDR has collected
    ranges,  \* those the loops over the ranges have collected
    used     \* the addresses of the MacvlanIPs of the subnet, and its gateway

vars == <<cidr, given, pc, n, ip, hosts, ranges, used>>

-----------------------------------------------------------------------------
(***************************************************************************)
(* bytes.Compare: the first byte that differs decides.                     *)
(***************************************************************************)
Before(a, b) ==
    \E i \in DOMAIN a : a[i] < b[i] /\ \A j \in 1..(i - 1) : a[j] = b[j]

\* A variant whose bytes are wider than a byte.
IncWithoutWrap(a) == [a EXCEPT ![Len(a)] = @ + 1]

(***************************************************************************)
(* incip adds one to the last byte, and to each byte before it as long as  *)
(* all those after it have become 0.                                       *)
(***************************************************************************)
Inc(a) ==
    [i \in DOMAIN a |-> IF \A j \in (i + 1)..Len(a) : a[j] = Base - 1
                          THEN (a[i] + 1) % Base
                          ELSE a[i]]

(***************************************************************************)
(* net.ParseCIDR: the network consists of the addresses that share the     *)
(* first len bits; its first address has only zeros after them.            *)
(***************************************************************************)
Bit(a, i) == (a[((i - 1) \div Bits) + 1] \div Pow2[Bits - 1 - ((i - 1) % Bits)]) % 2

Contains(c, a) == \A i \in 1..c.len : Bit(a, i) = Bit(c.ip, i)

Network(c) ==
    CHOOSE a \in Address :
        Contains(c, a) /\ \A i \in (c.len + 1)..(Bits * Width) : Bit(a, i) = 0

(***************************************************************************)
(* The loop over a range works on the 16 bytes of an IPv4-mapped address:  *)
(* the increment of the last IPv4 address goes into the bytes before.      *)
(***************************************************************************)
Mapped(a)   == <<0>> \o a
Unmapped(a) == Tail(a)

Ascending(S) ==
    [i \in 1..Cardinality(S) |->
        CHOOSE a \in S : Cardinality({b \in S : Before(b, a)}) = i - 1]

(***************************************************************************)
(* Both set operations go through a map, whose order is random, and sort.  *)
(***************************************************************************)
\* A variant that sorts the other way round.
ComplementDescending(list, S) ==
    LET up == Ascending(Range(list) \ S)
    IN  [i \in DOMAIN up |-> up[Len(up) + 1 - i]]

Complement(list, S) == Ascending(Range(list) \ S)

Intersection(list1, list2) == Ascending(Range(list1) \cap Range(list2))

\* A variant without the Mask.
GatewayAfterIP(c) == Inc(c.ip)

CalcDefaultGateway(c) == Inc(Network(c))

TypeOK ==
    /\ cidr \in [ip: Address, len: PrefixLens]
    /\ given \in RangeLists
    /\ pc \in {"cidr", "ranges", "range", "done", "free"}
    /\ used \subseteq Address
    /\ n \in 0..Len(given)
    /\ IF pc = "cidr" THEN ip \in Address ELSE ip \in Address \/ Unmapped(ip) \in Address
    /\ hosts \in Seq(Address)
    /\ ranges \in Seq(Address)

Init ==
    /\ cidr \in [ip: Address, len: PrefixLens]
    /\ given \in RangeLists
    /\ pc = "cidr"
    /\ n = 0
    /\ ip = Network(cidr)
    /\ hosts = <<>>
    /\ ranges = <<>>
    /\ used = {}

-----------------------------------------------------------------------------
(***************************************************************************)
(* CIDRtoHosts leaves out the addresses whose last byte is all 0 or all 1. *)
(***************************************************************************)
EdgeByte(a) == a[Width] \in {0, Base - 1}

TakeHost ==
    /\ pc = "cidr" /\ Contains(cidr, ip)
    /\ ~EdgeByte(ip)
    /\ hosts' = Append(hosts, ip)
    /\ ip' = Inc(ip)
    /\ UNCHANGED <<cidr, given, pc, n, ranges, used>>

\* A variant whose continue leaves the increment out.
SkipHostInPlace ==
    /\ pc = "cidr" /\ Contains(cidr, ip)
    /\ EdgeByte(ip)
    /\ UNCHANGED vars

SkipHost ==
    /\ pc = "cidr" /\ Contains(cidr, ip)
    /\ EdgeByte(ip)
    /\ ip' = Inc(ip)
    /\ UNCHANGED <<cidr, given, pc, n, hosts, ranges, used>>

CIDRDone ==
    /\ pc = "cidr" /\ ~Contains(cidr, ip)
    /\ pc' = "ranges"
    /\ UNCHANGED <<cidr, given, n, ip, hosts, ranges, used>>

(***************************************************************************)
(* calcHostsInRanges, ParseIPRange: a range with an end that does not      *)
(* parse has no addresses.  The loop increments the very bytes it was      *)
(* given as the lower bound, so only the upper bound ends it.              *)
(***************************************************************************)
Parses(range) == Nil \notin {range.first, range.last}

SkipRange ==
    /\ pc = "ranges" /\ n < Len(given)
    /\ ~Parses(given[n + 1])
    /\ n' = n + 1
    /\ UNCHANGED <<cidr, given, pc, ip, hosts, ranges, used>>

StartRange ==
    /\ pc = "ranges" /\ n < Len(given)
    /\ Parses(given[n + 1])
    /\ n' = n + 1
    /\ pc' = "range"
    /\ ip' = Mapped(given[n + 1].first)
    /\ UNCHANGED <<cidr, given, hosts, ranges, used>>

\* A variant that takes the range as half open.
InRangeBoundOpen(a) == Before(a, Mapped(given[n].last))

InRangeBound(a) == ~Before(Mapped(given[n].last), a)

(* removeDuplicatesFromSlice keeps the first of equal addresses.           *)
TakeFromRange ==
    /\ pc = "range" /\ InRangeBound(ip)
    /\ ranges' = IF Unmapped(ip) \in Range(ranges)
                   THEN ranges ELSE Append(ranges, Unmapped(ip))
    /\ ip' = Inc(ip)
    /\ UNCHANGED <<cidr, given, pc, n, hosts, used>>

RangeDone ==
    /\ pc = "range" /\ ~InRangeBound(ip)
    /\ pc' = "ranges"
    /\ UNCHANGED <<cidr, given, n, ip, hosts, ranges, used>>

(***************************************************************************)
(* The intersection is sorted.  When the ranges have no address at all,    *)
(* the hosts of the CIDR are returned as they are.                         *)
(***************************************************************************)
Intersect ==
    /\ pc = "ranges" /\ n = Len(given)
    /\ pc' = "done"
    /\ hosts' = IF ranges = <<>> THEN hosts
                                 ELSE Intersection(hosts, ranges)
    /\ UNCHANGED <<cidr, given, n, ip, ranges, used>>

(***************************************************************************)
(* allocateAutoIP, on a subnet with the default gateway: the lowest hosts  *)
(* and one more are in use, as they are when a pod in the middle has gone. *)
(* The first one that is left is the address of the pod.                   *)
(***************************************************************************)
RemoveUsedHosts ==
    /\ pc = "done"
    /\ pc' = "free"
    /\ \E lowest, another \in 0..Len(hosts) :
          used' = {hosts[i] : i \in {j \in DOMAIN hosts : j <= lowest \/ j = another}}
                  \cup {CalcDefaultGateway(cidr)}
    /\ hosts' = Complement(hosts, used')
    /\ UNCHANGED <<cidr, given, n, ip, ranges>>

Next ==
    \/ TakeHost \/ SkipHost \/ CIDRDone
    \/ SkipRange \/ StartRange \/ TakeFromRange \/ RangeDone
    \/ Intersect
    \/ RemoveUsedHosts

Spec == Init /\ [][Next]_vars /\ WF_vars(Next)

-----------------------------------------------------------------------------
(***************************************************************************)
(* The reference: an address as the number its bytes write.                *)
(***************************************************************************)
Prefixes(a) ==
    LET v[i \in 0..Len(a)] == IF i = 0 THEN 0 ELSE v[i - 1] * Base + a[i]
    IN  v

Value(a) == Prefixes(a)[Len(a)]

InNetwork(c, a) ==
    LET size == Pow2[Bits * Width - c.len]
    IN  Value(a) \div size = Value(c.ip) \div size

InRange(r, a) == Parses(r) /\ Value(r.first) <= Value(a) /\ Value(a) <= Value(r.last)

InSomeRange(a) == \E i \in DOMAIN given : InRange(given[i], a)

\* The addresses of the network that are in some range, if any address is,
\* and whose last byte is no edge.
Wanted ==
    {a \in Address :
        /\ InNetwork(cidr, a)
        /\ a[Width] \notin {0, Base - 1}
        /\ (\E b \in Address : InSomeRange(b)) => InSomeRange(a)}

(***************************************************************************)
(* Whatever the CIDR and the ranges - inverted, overlapping, malformed, up *)
(* to the last address there is -, the result is, each once and in         *)
(* ascending order, the addresses of the network that are in some range    *)
(* and whose last byte is no edge; ranges that hold no address at all mean *)
(* no restriction (ipalloc.go:58-94, ipcalc.go:89-153).                    *)
(***************************************************************************)
HostsCorrect ==
    pc = "done" =>
        /\ Range(hosts) = Wanted
        /\ \A i, j \in DOMAIN hosts : i < j => Value(hosts[i]) < Value(hosts[j])

(***************************************************************************)
(* usable[0], the address allocateAutoIP hands out (ipalloc.go:30-35), is  *)
(* the lowest that is wanted and not used, gaps among the used included;   *)
(* there is none only when all are used.                                   *)
(***************************************************************************)
LowestFreeFirst ==
    pc = "free" =>
        \/ hosts = <<>> /\ Wanted \subseteq used
        \/ /\ hosts # <<>>
           /\ hosts[1] \in Wanted \ used
           /\ \A a \in Wanted \ used : Value(hosts[1]) <= Value(a)

(***************************************************************************)
(* The default gateway (ipcalc.go:119-128) lies in the network, whatever   *)
(* address of it the CIDR is written with and wherever in a byte the       *)
(* prefix ends, and no allocation hands it out; in a network of a single   *)
(* address there is no place for it.                                       *)
(***************************************************************************)
GatewayInNetwork ==
    LET gateway == CalcDefaultGateway(cidr)
    IN  /\ cidr.len < Bits * Width => InNetwork(cidr, gateway)
        /\ pc = "free" => gateway \notin Range(hosts)

(***************************************************************************)
(* Both loops end, at the edge of a byte and at the last address as well:  *)
(* allocation holds the worker until they do (ipcalc.go:96, 148).          *)
(***************************************************************************)
Terminates == <>(pc = "free")

=============================================================================
