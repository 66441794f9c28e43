---------------------------- MODULE CanonicalNets ----------------------------
(***************************************************************************)
(* How banip_feed_proof.py brings a provider's feed and a kernel set to a  *)
(* common form whose digests it compares: parse_feed, nft_set, canonical.  *)
(* Addresses have AddressBits bits; a network is a base and a prefix       *)
(* length.  A form that the code refuses is Refused.                       *)
(***************************************************************************)
EXTENDS Integers, FiniteSets, FiniteSetsExt

CONSTANTS AddressBits, MaxRecords

\* How many addresses a prefix of the length leaves free: a power of two.
Size(len) ==
    LET power[n \in 0..AddressBits] == IF n = 0 THEN 1 ELSE 2 * power[n - 1]
    IN power[AddressBits - len]
Addresses == 0..(Size(0) - 1)
Networks == {n \in [base : Addresses, len : 0..AddressBits] : n.base % Size(n.len) = 0}
Block(n) == n.base..(n.base + Size(n.len) - 1)
Cover(nets) == UNION {Block(n) : n \in nets}
Refused == {}

Parent(n) == [base |-> n.base - (n.base % Size(n.len - 1)), len |-> n.len - 1]
Siblings(n) == {m \in Networks : m.len = n.len /\ Parent(m) = Parent(n)}

Largest(nets) == {n \in nets : ~ \E m \in nets : m # n /\ Block(n) \subseteq Block(m)}

\* ipaddress.collapse_addresses: two halves become their parent, from the
\* longest prefixes up; a network inside another is dropped.
Wholes(nets, len) ==
    {n \in Networks : n.len = len /\ \E m \in nets :
        m.len = len + 1 /\ Parent(m) = n /\ Siblings(m) \subseteq nets}
Joined(nets, len) ==
    {n \in nets : n.len # len + 1 \/ Parent(n) \notin Wholes(nets, len)} \cup Wholes(nets, len)
Merged(nets) ==
    LET at[len \in 0..AddressBits] ==
            IF len = AddressBits THEN nets ELSE Joined(at[len + 1], len)
    IN at[0]
Collapsed(nets) == Largest(Merged(nets))

\* Mutant of Canonical: the digest is taken of the networks as they came.
CanonicalRaw(nets) ==
    IF nets = {} \/ Cardinality(nets) > MaxRecords \/ \E n \in nets : n.len = 0
    THEN Refused ELSE nets
Canonical(nets) ==
    IF nets = {} \/ Cardinality(nets) > MaxRecords \/ \E n \in nets : n.len = 0
    THEN Refused ELSE Collapsed(nets)

\* One row of the dshield table: first address, last address, prefix length.
RowValid(row) ==
    /\ row.start % Size(row.len) = 0
    /\ row.end = row.start + Size(row.len) - 1
ParseFeed(rows) ==
    IF \A row \in rows : RowValid(row)
    THEN Canonical({[base |-> row.start, len |-> row.len] : row \in rows})
    ELSE Refused

\* summarize_address_range: the largest networks inside the range.
Summarized(a, b) == Largest({n \in Networks : Block(n) \subseteq a..b})

\* An element of the kernel set: one address, a prefix or a range.
ElementNets(e) ==
    IF e.kind = "range" THEN Summarized(e.a, e.b) ELSE {[base |-> e.a, len |-> e.b]}
ElementValid(e) ==
    IF e.kind = "range" THEN e.a <= e.b ELSE e.a % Size(e.b) = 0
NftSet(elements) ==
    IF elements # {} /\ Cardinality(elements) <= MaxRecords /\ \A e \in elements : ElementValid(e)
    THEN Canonical(UNION {ElementNets(e) : e \in elements})
    ELSE Refused

(* Equal digests mean equal protection: whatever rows a feed has and       *)
(* whatever elements nft lists (single addresses, prefixes, ranges, in any *)
(* overlap), an accepted feed and an accepted set have the same canonical  *)
(* form exactly when they cover the same addresses.                        *)
DigestsDecideFor(rows, elements) ==
    LET feed == ParseFeed(rows)
        set == NftSet(elements)
    IN feed # Refused /\ set # Refused =>
           (feed = set <=> UNION {r.start..r.end : r \in rows}
                           = UNION {e.a..(IF e.kind = "range" THEN e.b ELSE e.a + Size(e.b) - 1) :
                                    e \in elements})
=============================================================================
