------------------------------ MODULE PtrZone -------------------------------
(***************************************************************************)
(* The two ways in which the name of a reverse zone is made of a prefix:   *)
(* get_ptr_zone (scripts/_netutils.py), for the prefixes of the registry,  *)
(* and write_ptr4_zone and write_ptr6_zone (scripts/make-dns-records.py),  *)
(* for the prefixes of this AS.  The first keeps the labels of the prefix, *)
(* the second takes the whole address and strips its leading zeros, in the *)
(* order of the name: nothing in the code makes them agree.                *)
(***************************************************************************)
EXTENDS Naturals, Sequences

\* An address is the sequence of its labels, octets in IPv4 and nibbles in
\* IPv6; a prefix has the bits of a label, the address of the network and its
\* length in bits.  A shorter IPv6 address (fewer nibbles) is as good as a
\* whole one: no definition counts them.
IPv4(n) == n.width = 8

IsNetwork(n) ==
    /\ n.width \in {4, 8} /\ n.addr \in Seq(Nat) /\ n.len \in 0..(n.width * Len(n.addr))
    /\ IPv4(n) => Len(n.addr) = 4
    /\ \A i \in 1..Len(n.addr) : n.width * (i - 1) >= n.len => n.addr[i] = 0

\* What is left of a reversed address when k of its labels are dropped on the
\* left, and all of it.
DropLeft(a, k) == [i \in 1..(Len(a) - k) |-> a[Len(a) + 1 - k - i]]
reverse_pointer(a) == DropLeft(a, 0)

\* How many labels lstrip('0.') takes off a reversed address: it stops at the
\* first that is not zero, be it part of the prefix or not.
Zeros(a) == CHOOSE k \in 0..Len(a) :
               /\ \A i \in (Len(a) - k + 1)..Len(a) : a[i] = 0
               /\ k < Len(a) => a[Len(a) - k] # 0

\* The zones.  One of RFC 2317 has the length of the prefix in its first label.
\* The name get_ptr_zone makes of no label at all begins with a dot.
Arpa == {"in-addr.arpa", "ip6.arpa", ".in-addr.arpa", ".ip6.arpa"}
ArpaZone(n, labels, cut) ==
    [domain |-> IF IPv4(n) THEN "in-addr.arpa" ELSE "ip6.arpa", labels |-> labels, cut |-> cut]
DomainZone(d) == [domain |-> d, labels |-> <<>>, cut |-> 0]
NoZone == DomainZone("")

get_ptr_zone(n) ==
    LET kept == reverse_pointer(SubSeq(n.addr, 1, n.len \div n.width)) IN
    IF n.len = 0 THEN DomainZone(IF IPv4(n) THEN ".in-addr.arpa" ELSE ".ip6.arpa")
    ELSE IF IPv4(n)
    THEN IF n.len % 8 # 0 /\ n.len < 24 THEN NoZone
         ELSE IF n.len > 24
              THEN ArpaZone(n, <<n.addr[Len(n.addr)]>> \o kept, n.len)
              ELSE ArpaZone(n, kept, 0)
    ELSE IF n.len % 4 # 0 THEN NoZone ELSE ArpaZone(n, kept, 0)

\* The prefixes write_ptr4_zone has a name for: the others are an error.
\* Faulty: none is.
SupportedAny(n) == TRUE

Supported(n) == ~IPv4(n) \/ n.len % 8 = 0 \/ n.len > 24

ptr_zonename(n) ==
    IF IPv4(n) /\ n.len % 8 # 0
    THEN ArpaZone(n, reverse_pointer(n.addr), n.len)
    ELSE ArpaZone(n, DropLeft(n.addr, Zeros(n.addr)), 0)

\* The prefix ends at a label, and that label is zero.
Stripped(n) ==
    /\ n.len > 0 /\ n.len % n.width = 0
    /\ n.addr[n.len \div n.width] = 0

\* The prefixes whose zone make-dns-records.py does not name as the registry
\* does: such ones, those that end within a nibble, single IPv4 addresses
\* and the prefix of all addresses.
Misnamed(n) ==
    \/ Stripped(n)
    \/ ~IPv4(n) /\ n.len % 4 # 0
    \/ IPv4(n) /\ n.len = 32
    \/ n.len = 0

\* `ipaddr in ipnet'
Within(a, n) ==
    LET whole == n.len \div n.width
        rest == 2 ^ (n.width - (n.len % n.width))
    IN  /\ Len(a) = Len(n.addr)
        /\ \A i \in 1..whole : a[i] = n.addr[i]
        /\ whole < Len(a) => a[whole + 1] \div rest = n.addr[whole + 1] \div rest
=============================================================================
