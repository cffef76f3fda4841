---------------------------- MODULE IPAllocation ----------------------------
(***************************************************************************)
(* The address allocator of the EgressIPAM controller (ipam.go) for one    *)
(* CIDR and one reconcile cycle.  assignIPsToNamespaces gathers the used   *)
(* addresses, removes the duplicates, sorts them into a slice and then     *)
(* calls getNextAvailableIP once per unassigned namespace; every call      *)
(* inserts the address it hands out into the slice the next call scans.    *)
(*                                                                         *)
(* The slice is a sequence, because what the scan returns depends on its   *)
(* order and on its length.  Several CIDRs are scanned independently of    *)
(* each other; NamespaceAssignment has them together.                      *)
(***************************************************************************)
EXTENDS Addresses, Sequences, FiniteSets, SequencesExt

CONSTANTS
  CIDRs     \* the CIDRs an EgressIPAM may name

ASSUME CIDRsAssumption == \A c \in CIDRs : IsCIDR(c)

VARIABLES
  cidr,      \* the CIDR being allocated from
  taken,     \* addresses found in use: namespaces, reserved, nodes, cloud
  assigned,  \* IPsByCIDR[cidr]: the sorted slice
  given,     \* addresses handed out in this cycle
  outcome    \* "running", or the error getNextAvailableIP returned

vars == <<cidr, taken, assigned, given, outcome>>

-----------------------------------------------------------------------------
(* removeDuplicates, then sortIPs                                          *)

Rank(S, a) == Cardinality({b \in S : b < a})

\* The slice that holds the elements of S once each, in increasing order.
SortIPs(S) == [i \in 1..Cardinality(S) |-> CHOOSE a \in S : Rank(S, a) = i - 1]

-----------------------------------------------------------------------------
(* getNextAvailableIP                                                      *)

\* Mutant: the length test is off by one.
NoMoreIPs_OffByOne(c, s) == Len(s) = c.size + 1

\* The length test at its head.
NoMoreIPs(c, s) == Len(s) = c.size

\* The address that belongs at position i of a gapless slice (DeltaIP).
AddressAt(c, i) == Network(c) + i - 1

\* Positions whose address is not the one a gapless slice would hold there.
Gaps(c, s) == {i \in 1..Len(s) : s[i] # AddressAt(c, i)}

FirstGap(c, s) == {i \in Gaps(c, s) : \A j \in Gaps(c, s) : i <= j}

\* Mutants: the new address goes to the end of the slice; the slice passed
\* by the caller is not updated.
Insert_AtEnd(s, i, ip) == Append(s, ip)

Insert_Dropped(s, i, ip) == s

\* append(assignedIPs[:i], append([]net.IP{assignedIP}, assignedIPs[i:]...)...)
Insert(s, i, ip) == InsertAt(s, i, ip)

-----------------------------------------------------------------------------

Init ==
  /\ cidr \in CIDRs
  /\ taken \in SUBSET Addresses(cidr)
  /\ assigned = SortIPs(taken \cup AlwaysExcluded(cidr))
  /\ given = << >>
  /\ outcome = "running"

\* The loop found a gap: its address is handed out and put into the slice.
NextAvailableIP ==
  /\ outcome = "running"
  /\ ~NoMoreIPs(cidr, assigned)
  /\ \E i \in FirstGap(cidr, assigned) :
       /\ assigned' = Insert(assigned, i, AddressAt(cidr, i))
       /\ given' = Append(given, AddressAt(cidr, i))
  /\ UNCHANGED <<cidr, taken, outcome>>

\* One of the two errors: "no more available IPs in this CIDR" from the
\* length test, "we should never get here" after a loop without a gap.
NoAvailableIP ==
  /\ outcome = "running"
  /\ NoMoreIPs(cidr, assigned) \/ Gaps(cidr, assigned) = {}
  /\ outcome' = IF NoMoreIPs(cidr, assigned) THEN "exhausted"
                                             ELSE "never_get_here"
  /\ UNCHANGED <<cidr, taken, assigned, given>>

Next == NextAvailableIP \/ NoAvailableIP

Spec == Init /\ [][Next]_vars

-----------------------------------------------------------------------------
(* Properties                                                              *)

TypeOK ==
  /\ cidr \in CIDRs
  /\ taken \in SUBSET Addresses(cidr)
  /\ assigned \in Seq(Addresses(cidr))
  /\ given \in Seq(Addresses(cidr))
  /\ outcome \in {"running", "exhausted", "never_get_here"}

StrictlyIncreasing(s) == \A i, j \in 1..Len(s) : i < j => s[i] < s[j]

\* getNextAvailableIP scans a slice it assumes to be sorted and free of
\* duplicates and inserts into it in place: the slice stays that way over
\* any number of calls, and it always holds exactly the addresses found in
\* use, the always excluded ones and the ones handed out so far.
SliceSorted ==
  /\ StrictlyIncreasing(assigned)
  /\ Range(assigned) = taken \cup AlwaysExcluded(cidr) \cup Range(given)

\* What getNextAvailableIPs is for: an address handed out is an address of
\* the CIDR that nobody uses, is not always excluded, and is handed out to
\* one namespace only, however many calls the loop makes.
GivenUsable ==
  /\ Range(given) \cap (taken \cup AlwaysExcluded(cidr)) = {}
  /\ \A i, j \in 1..Len(given) : given[i] = given[j] => i = j

\* The scan over the slice implements the pool it stands for: each call
\* returns the least free address, an error is returned only when no
\* address is free, and "we should never get here" is never returned.
Pool == INSTANCE IPPool WITH pool <- Free(cidr, Range(assigned))

PoolSpec == Pool!Spec
=============================================================================
