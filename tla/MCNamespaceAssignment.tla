----------------------- MODULE MCNamespaceAssignment -----------------------
(* Small instances of NamespaceAssignment.                                  *)
EXTENDS NamespaceAssignment, TLC

Block(ip, size) == [network |-> ip, host |-> 0, size |-> size]

\* One CIDR with addresses 1..6 to hand out.
MCPool == <<Block(0, 8)>>

\* Two CIDRs, as in a cluster with two zones.
MCTwoZones == <<Block(0, 8), Block(8, 8)>>

\* Nothing but the base and the broadcast address is excluded.
MCNoneInUse == [k \in K |-> {}]

\* What a cloud reports for a CIDR of 8 addresses: the three after the base
\* and one more.  Two are left to hand out.
MCCloudInUse == [k \in K |-> Network(CIDRs[k]) + 1 .. Network(CIDRs[k]) + 4]

\* The address after the base is in use.
MCInUse == [k \in K |-> {Network(CIDRs[k]) + 1}]

MCNoInputs == {}

\* For the two zones: IPs of the first zone only, and IPs in the wrong order.
MCBadInputs == {<<2>>, <<9, 2>>}

\* And one IP more than there are zones, of neither.
MCInputs == MCBadInputs \cup {<<2, 10, 99>>}

\* The namespaces that may not leave are interchangeable, and so are the others.
Symmetry == Permutations(Names \ Leavers) \cup Permutations(Leavers)
=============================================================================
