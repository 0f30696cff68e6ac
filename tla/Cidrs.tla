------------------------------- MODULE Cidrs -------------------------------
(***************************************************************************)
(* excludeCIDRs (pkg/generator/networkpolicies.go): which exclusions go    *)
(* into the except list of an egress CIDR rule.                            *)
(*                                                                         *)
(* An address is its Width bits, the highest first.  A CIDR is what        *)
(* somebody wrote: an address, which may have host bits set, and a prefix  *)
(* length, which may be too long to parse.  Two CIDRs are the same string  *)
(* iff they are equal.                                                     *)
(***************************************************************************)
EXTENDS Integers, SequencesExt

CONSTANT Width

ASSUME WidthAssumption == Width \in Nat

Addresses == [1..Width -> {0, 1}]
CIDR == [addr : Addresses, len : 0 .. Width + 1]

\* net.ParseCIDR: does the text parse, and the network it denotes, which contains
\* the addresses that agree with it under the mask.
Parses(c) == c.len <= Width

Within(c, addr) == \A i \in 1..c.len : addr[i] = c.addr[i]

Network(c) == {a \in Addresses : Within(c, a)}

\* A mutant: the network of the exclusion is asked for the rule's address.
Excluded_Swapped(cidr, ex) ==
  ex # cidr /\ Parses(ex) /\ Within(ex, cidr.addr)

\* The exclusions that the loop of applyExcludeCIDRs keeps: not the rule's own
\* string, not malformed, not broader than the rule, and inside it.
Excluded(cidr, ex) ==
  /\ ex # cidr
  /\ Parses(ex)
  /\ ex.len >= cidr.len
  /\ Within(cidr, ex.addr)

applyExcludeCIDRs(cidr, exclusions) ==
  IF ~Parses(cidr) THEN <<>>
  ELSE FlattenSeq([i \in DOMAIN exclusions |->
         IF Excluded(cidr, exclusions[i]) THEN <<exclusions[i]>> ELSE <<>>])

-----------------------------------------------------------------------------
\* What a rule for cidr with that except list lets through.
Admitted(cidr, except) ==
  Network(cidr) \ UNION {Network(except[i]) : i \in DOMAIN except}
=============================================================================
