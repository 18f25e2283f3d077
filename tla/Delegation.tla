----------------------------- MODULE Delegation -----------------------------
(***************************************************************************)
(* Prefixes: how dhcpcd makes and reads masks (src/src/ipv4.c, ipv6.c,     *)
(* sa.c), and how it cuts a delegated prefix into one for each interface   *)
(* (dhcp6_delegateaddr in dhcp6.c, ipv6_userprefix and ipv6_makeaddr in    *)
(* ipv6.c, ia_pd in if-options.c).                                         *)
(*                                                                         *)
(* The widths are constants, so that TLC can go through the edges: octets  *)
(* of NBBY bits, H for the 64 bits of half an address, WORD for the 32 of  *)
(* a uint32_t.  Addresses are numbers, or octets in network order.         *)
(***************************************************************************)
EXTENDS Integers, Sequences, FiniteSets, FiniteSetsExt, Bitwise

CONSTANTS
    NBBY,         \* bits of an octet (8)
    H,            \* bits of half an address (64)
    WORD,         \* bits of a uint32_t, and of an IPv4 address (32)
    ROUND,        \* prefix lengths are rounded up to this (4)
    Indexes,      \* indexes of the interfaces
    Delegated,    \* the prefixes the server may delegate: net, len, exclude
    Slas,         \* ia_pd: fixed or automatic, by interface
    Tokens        \* lower halves of addresses

VARIABLE d

W == 2 * H
Failed == -1
Ones(n) == 2^n - 1
\* The bits of a number, and of an address, that a mask of this length keeps.
Cut(addr, len, width) == (addr \div 2^(width - len)) * 2^(width - len)
Octets(addr, width) ==
    [n \in 1..(width \div NBBY) |-> (addr \div 2^(width - n * NBBY)) % 2^NBBY]
Fls(n) == CHOOSE bits \in 0..(2 * W) : n < 2^bits /\ (bits = 0 \/ n >= 2^(bits - 1))
Ffs(n) == CHOOSE bit \in 1..(2 * W) : n % 2^bit # 0 /\ n % 2^(bit - 1) = 0
----------------------------------------------------------------------------
(* Masks                                                                    *)

\* inet_cidrtoaddr
inet_cidrtoaddr(cidr) ==
    LET octets == (cidr + NBBY - 1) \div NBBY
    IN  IF cidr < 1 \/ cidr > WORD THEN <<>>
        ELSE [n \in 1..(WORD \div NBBY) |->
                CASE n < octets -> Ones(NBBY)
                  [] n = octets -> 2^NBBY - 2^((WORD - cidr) % NBBY)
                  [] n > octets -> 0]

\* inet_ntocidr: shifts until nothing is left.
inet_ntocidr(mask) == CHOOSE n \in 0..WORD :
    (mask * 2^n) % 2^WORD = 0 /\ \A m \in 0..(n - 1) : (mask * 2^m) % 2^WORD # 0

\* Wrong: the octet with the last bits is the one before.
BugMask(len) ==
    LET bytes == len \div NBBY
        bits == len % NBBY
    IN  IF len < 0 \/ len > W THEN <<>>
        ELSE [n \in 1..(W \div NBBY) |->
                CASE n <= bytes /\ (bits = 0 \/ n # bytes) -> Ones(NBBY)
                  [] n = bytes /\ bits # 0 -> Ones(NBBY) - Ones(NBBY - bits)
                  [] OTHER -> 0]

\* ipv6_mask; ipbytes_fromprefix, for sa_fromprefix, fills the octets in the same way.
ipv6_mask(len) ==
    LET bytes == len \div NBBY
        bits == len % NBBY
    IN  IF len < 0 \/ len > W THEN <<>>
        ELSE [n \in 1..(W \div NBBY) |->
                CASE n <= bytes -> Ones(NBBY)
                  [] n = bytes + 1 /\ bits # 0 -> Ones(NBBY) - Ones(NBBY - bits)
                  [] OTHER -> 0]

\* ipbytes_fromprefix: octets of ones, the rest of one, and octets of zeros.
ipbytes_fromprefix(prefix, max_prefix) ==
    LET bytes == prefix \div NBBY
        bits == prefix % NBBY
    IN  [n \in 1..bytes |-> Ones(NBBY)]
        \o (IF bits = 0 THEN <<>> ELSE <<(Ones(NBBY) * 2^(NBBY - bits)) % 2^NBBY>>)
        \o [n \in 1..((max_prefix - prefix) \div NBBY) |-> 0]

\* ipv6_prefixlen, and sa_toprefix for IPv6: octets of ones, then the bits of the next
\* one; 0 when ones come later, except that a next octet whose first bit is clear is
\* not looked at.
ipv6_prefixlen(mask) ==
    LET full == {n \in 0..Len(mask) : \A m \in 1..n : mask[m] = Ones(NBBY)}
        x == Max(full)
        Bit(o, y) == (o \div 2^(NBBY - 1 - y)) % 2
        y == Min({b \in 0..NBBY : b = NBBY \/ Bit(mask[x + 1], b) = 0})
    IN  IF x = Len(mask) THEN x * NBBY
        ELSE IF \/ y # 0 /\ mask[x + 1] % 2^(NBBY - y) # 0
                \/ \E n \in (x + 2)..Len(mask) : mask[n] # 0
        THEN 0
        ELSE x * NBBY + y

\* sa_toprefix for IPv4, by the lowest bit that is set.
sa_toprefix(mask) ==
    LET prefix == WORD + 1 - Ffs(mask)
    IN  IF mask = 0 THEN 0
        ELSE IF prefix < WORD /\ mask # Ones(prefix) * 2^(WORD - prefix) THEN Failed
        ELSE prefix

\* ipv6_makeprefix
ipv6_makeprefix(addr, len) ==
    LET mask == ipv6_mask(len)
    IN  [n \in 1..(W \div NBBY) |-> Octets(addr, W)[n] & mask[n]]
----------------------------------------------------------------------------
(* Delegation                                                               *)

\* Wrong: one bit too many fits.
BugUserprefix(prefix, prefix_len, user_number, result_len) ==
    IF \/ prefix_len < 1 \/ prefix_len > W \/ result_len < 1 \/ result_len > W
       \/ result_len < prefix_len \/ Fls(user_number) > result_len - prefix_len + 1
    THEN Failed
    ELSE prefix | ((user_number * 2^(W - result_len)) % 2^W)

\* ipv6_userprefix: the number is put right inside result_len.  The two halves are
\* made one by one; the part that goes to the upper half is shifted by the distance of
\* the lengths, whatever part of that is in the lower half.
ipv6_userprefix(prefix, prefix_len, user_number, result_len) ==
    LET high ==
            CASE result_len = W -> 0
              [] H < result_len /\ result_len < W ->
                    IF prefix_len >= H THEN 0
                    ELSE user_number \div 2^(result_len - prefix_len)
              [] result_len = H -> user_number
              [] result_len < H -> (user_number * 2^(H - result_len)) % 2^H
        low ==
            CASE result_len = W -> user_number
              [] H < result_len /\ result_len < W -> (user_number * 2^(W - result_len)) % 2^H
              [] result_len <= H -> 0
    IN  IF \/ prefix_len < 1 \/ prefix_len > W \/ result_len < 1 \/ result_len > W
           \/ result_len < prefix_len \/ Fls(user_number) > result_len - prefix_len
        THEN Failed
        ELSE IF user_number = 0 THEN prefix
        ELSE ((prefix \div 2^H) | high) * 2^H + ((prefix % 2^H) | low)

\* ia_pd in parse_option: SLAs are all fixed, and differ, or all automatic.
Sane(slas) ==
    \A i, j \in DOMAIN slas : i # j =>
        /\ slas[i].sla_set = slas[j].sla_set
        /\ slas[i].sla_set => slas[i].sla # slas[j].sla

Init ==
    \E slas \in {s \in Slas : Sane(s)}, len \in 0..W, addr \in {0, Ones(H), Ones(W)} :
    d = [sla |-> slas,
         sla_max |-> Max({0} \cup {slas[i].sla : i \in {j \in DOMAIN slas : slas[j].sla_set}}),
         ifaces |-> {},
         len |-> len, addr |-> addr,   \* for the masks
         given |-> {}]        \* prefixes of interfaces: index, sla, from, net, len

\* dhcp6_delegateaddr: the length that leaves room for the highest SLA or index, which
\* is remembered for the prefixes that come later.  (It cannot pass UINT8_MAX, and a
\* release is built without the assertion.)
SlaLen(prefix, sla) ==
    LET sla_max == IF d.sla_max = 0 /\ ~sla.sla_set THEN Max({0} \cup d.ifaces) ELSE d.sla_max
        len == prefix.len + Fls(sla_max)
    IN  IF sla.len # 0 THEN sla.len
        ELSE IF len <= H THEN H
        ELSE ((len + ROUND - 1) \div ROUND) * ROUND

\* Wrong: delegates the prefix that the server excludes.
BugDelegateaddr(index, prefix) ==
    LET sla == IF index \in DOMAIN d.sla /\ d.sla[index].sla_set THEN d.sla[index]
               ELSE [sla_set |-> FALSE, sla |-> index, len |-> 0]
        len == SlaLen(prefix, sla)
        net == ipv6_userprefix(prefix.net, prefix.len, sla.sla, len)
    IN  IF net = Failed THEN d
        ELSE [d EXCEPT !.given = @ \cup {[index |-> index, sla |-> sla.sla, from |-> prefix,
                                          net |-> net, len |-> len]}]

dhcp6_delegateaddr(index, prefix) ==
    LET sla == IF index \in DOMAIN d.sla /\ d.sla[index].sla_set THEN d.sla[index]
               ELSE [sla_set |-> FALSE, sla |-> index, len |-> 0]
        len == SlaLen(prefix, sla)
        learns == sla.len = 0 /\ d.sla_max = 0
        bits == len - prefix.len
        t == IF learns THEN [d EXCEPT !.sla_max = Ones(bits) % 2^WORD] ELSE d
        net == ipv6_userprefix(prefix.net, prefix.len, sla.sla, len)
    IN  IF net = Failed \/ net = prefix.exclude THEN t
        ELSE [t EXCEPT !.given = @ \cup {[index |-> index, sla |-> sla.sla, from |-> prefix,
                                          net |-> net, len |-> len]}]

\* Wrong: the prefix ends with its last full octet.
BugMakeaddr(prefix, prefix_len, token) ==
    LET bytes == prefix_len \div NBBY
    IN  [n \in 1..(W \div NBBY) |->
            IF n <= bytes THEN Octets(prefix, W)[n] ELSE Octets(token, W)[n]]

\* ipv6_makeaddr with a token: the octets of the prefix, then those of the token.
ipv6_makeaddr(prefix, prefix_len, token) ==
    LET bytes == (prefix_len + NBBY - 1) \div NBBY
    IN  [n \in 1..(W \div NBBY) |->
            IF n <= bytes THEN Octets(prefix, W)[n] ELSE Octets(token, W)[n]]

\* (Masks do not depend on the interfaces: they are only looked at before.)
Arrive(index) ==
    /\ index \notin d.ifaces /\ d.len = 0 /\ d.addr = 0
    /\ d' = [d EXCEPT !.ifaces = @ \cup {index}]

Delegate(index, prefix) ==
    /\ index \in d.ifaces
    /\ DOMAIN d.sla = {} \/ index \in DOMAIN d.sla
    /\ d' = dhcp6_delegateaddr(index, prefix)

Next ==
    \E index \in Indexes :
        Arrive(index) \/ \E prefix \in Delegated : Delegate(index, prefix)

Spec == Init /\ [][Next]_d
----------------------------------------------------------------------------
(* Properties                                                               *)

\* A mask of a length keeps just the bits it should, for both families and however it
\* is made, and reading it gives the length back (inet_cidrtoaddr, inet_ntocidr,
\* ipv6_mask, ipv6_prefixlen, ipv6_makeprefix, sa_fromprefix, sa_toprefix).
MasksAgree ==
    LET mask == Ones(W) - Ones(W - d.len)
        mask4 == Ones(WORD) - Ones(WORD - d.len)
    IN  /\ ipv6_mask(d.len) = Octets(mask, W)
        /\ ipbytes_fromprefix(d.len, W) = Octets(mask, W)
        /\ ipv6_prefixlen(Octets(mask, W)) = d.len
        /\ ipv6_makeprefix(d.addr, d.len) = Octets(Cut(d.addr, d.len, W), W)
        /\ d.len \in 1..WORD =>
              /\ inet_cidrtoaddr(d.len) = Octets(mask4, WORD)
              /\ inet_ntocidr(mask4) = d.len
              /\ sa_toprefix(mask4) = d.len

\* What an interface is delegated is part of the prefix that was delegated, and not
\* the part that is excluded; its length is what the net needs.
DelegatesArePart ==
    \A g \in d.given :
        /\ g.len >= g.from.len /\ Cut(g.net, g.from.len, W) = g.from.net
        /\ Cut(g.net, g.len, W) = g.net /\ g.net # g.from.exclude

\* Two interfaces are not delegated nets that overlap, though the length may have been
\* worked out for other prefixes and before all interfaces were known.  (Where a net
\* has bits of its number in both halves of the address see SlaIsAdded.)
DelegatesDiffer ==
    \A g, h \in d.given :
        LET len == Min({g.len, h.len})
        IN  /\ g.index # h.index /\ g.from = h.from
            /\ g.len <= H \/ g.from.len >= H
            => Cut(g.net, len, W) # Cut(h.net, len, W)

\* An address made from a token is in its prefix, also when the prefix ends inside an
\* octet (ipv6_makeaddr).
AddressInPrefix ==
    \A g \in d.given, token \in Tokens :
        LET addr == ipv6_makeaddr(g.net, g.len, token)
        IN  [n \in DOMAIN addr |-> addr[n] & ipv6_mask(g.len)[n]] =
            Octets(g.net, W)

\* Every interface is delegated a net of its own, which is part of the prefix, and the
\* addresses made for it are in that net (dhcp6_delegateaddr, ipv6_makeaddr).
DelegatesAreOwn == DelegatesArePart /\ DelegatesDiffer /\ AddressInPrefix

\* "sla_id ... is added to the prefix" (dhcpcd.conf.5).
SlaIsAdded ==
    \A g \in d.given : g.net = g.from.net + g.sla * 2^(W - g.len)
=============================================================================
