----------------------------- MODULE Addresses -----------------------------
(***************************************************************************)
(* IPv4 addresses and CIDRs as the operator computes with them.            *)
(*                                                                         *)
(* An address is the natural number ipmath.ToUInt32 makes of it.  A CIDR   *)
(* is the record of what net.ParseCIDR reads from its text: "size", the    *)
(* number of addresses under the mask, and the written address split by    *)
(* the mask into its network part and its host part.  The host part need   *)
(* not be 0: the CRD's pattern accepts 10.0.0.5/29 for 10.0.0.0/29.        *)
(***************************************************************************)
EXTENDS Integers

IsCIDR(c) == /\ c \in [network : Nat, host : Nat, size : Nat]
             /\ c.host < c.size

\* The first result of ParseCIDR: the address as it is written.
Base(c) == c.network + c.host

\* cidr.IP of the second result: the host bits are cleared.
Network(c) == c.network

\* ^mask | base: the host bits are set.
Broadcast(c) == c.network + c.size - 1

\* The addresses of which cidr.Contains(ip) is true.
Addresses(c) == Network(c) .. Broadcast(c)

InCIDR(c, ip) == ip \in Addresses(c)

\* Mutant: the broadcast address is taken to be the one after the block.
AlwaysExcluded_PastEnd(c) == {Base(c), Broadcast(c) + 1}

\* What assignIPsToNamespaces always excludes: the base AS WRITTEN and the
\* broadcast address.
AlwaysExcluded(c) == {Base(c), Broadcast(c)}

\* The addresses of c that are outside used, and the least of them: a set
\* with one element, or with none when the CIDR is full.
Free(c, used) == Addresses(c) \ used

FirstFree(c, used) ==
  {a \in Free(c, used) : \A b \in Free(c, used) : a <= b}
=============================================================================
