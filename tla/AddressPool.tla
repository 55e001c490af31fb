---------------------------- MODULE AddressPool ----------------------------
(***************************************************************************)
(* What the controller promises of the addresses it hands out, without the *)
(* informers, queues, retries and purge rounds it does it with: a pool per *)
(* subnet, from which a pod name is granted one free host at a time, and   *)
(* to which an address returns some time.                                  *)
(***************************************************************************)
EXTENDS Naturals

CONSTANTS Keys,    \* the namespace/name keys of pods
          Subnets, \* the names of the subnets
          Hosts    \* the addresses of each subnet that may be handed out

VARIABLE leases    \* who has which address

Lease == [key: Keys, subnet: Subnets, ip: Nat]

PoolInit == leases = {}

Grant(k, s, a) ==
    /\ a \in Hosts[s]
    /\ \A l \in leases : l.key # k
    /\ \A l \in leases : l.subnet = s => l.ip # a
    /\ leases' = leases \cup {[key |-> k, subnet |-> s, ip |-> a]}

Release(l) == leases' = leases \ {l}

PoolNext ==
    \/ \E k \in Keys, s \in Subnets : \E a \in Hosts[s] : Grant(k, s, a)
    \/ \E l \in leases : Release(l)

PoolSpec == PoolInit /\ [][PoolNext]_leases

=============================================================================
