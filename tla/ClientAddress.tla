---------------------------- MODULE ClientAddress ----------------------------
(***************************************************************************)
(* Who a request is from (internal/web/clientip.go).  A request travels    *)
(* from a client over any number of hops; each proxy appends to            *)
(* X-Forwarded-For the address it received the request from, which is      *)
(* external behaviour, and the server walks the header from the right.     *)
(*                                                                         *)
(* An address is a model value; ports, brackets and spaces, which          *)
(* forwardedHops strips, are left out.  "Unreadable" is any entry          *)
(* netip.ParseAddr refuses.                                                *)
(***************************************************************************)
EXTENDS Integers, Sequences, FiniteSets

CONSTANTS
    Strangers,          \* addresses of machines that are not our proxies
    Proxies,            \* addresses inside trustedProxies
    Mapped,             \* those of them written as IPv4 in IPv6
    Unmap,              \* what Addr.Unmap makes of those
    Unreadable,         \* a header entry that is no address
    MaxForwardedHops,   \* maxForwardedHops
    MaxClaimed          \* bound: entries a client writes itself

ASSUME AddressAssumption ==
    /\ Unreadable \notin Strangers \union Proxies \union Mapped
    /\ Mapped \intersect (Strangers \union Proxies) = {}
    /\ Strangers \intersect Proxies = {}
    /\ Unmap \in [Mapped -> Proxies]
    /\ MaxForwardedHops \in Nat \ {0} /\ MaxClaimed \in Nat

Machines == Strangers \union Proxies \union Mapped
Entries == Machines \union {Unreadable}
-----------------------------------------------------------------------------
VARIABLES
    header,     \* X-Forwarded-For as the next hop will receive it
    peer,       \* the machine that sends the request on
    origin,     \* history: the last machine not ours that sent it
    client      \* what the server resolved, once it has

addressVars == <<header, peer, origin, client>>

Unresolved == Unreadable

(* trusted: the prefixes hold no mapped address, so it is unmapped first.  *)
Trusted(addr) == (IF addr \in Mapped THEN Unmap[addr] ELSE addr) \in Proxies

(* forwardedHops keeps the first MaxForwardedHops entries.                 *)
ForwardedHops(h) ==
    SubSeq(h, 1, IF Len(h) < MaxForwardedHops THEN Len(h) ELSE MaxForwardedHops)

(* The walk from the right ends at an entry it cannot read, without it, or *)
(* at one it does not trust, with it; or it ends with the first entry.     *)
EndsWalk(hop) == hop = Unreadable \/ ~Trusted(hop)

WalkFromTheLeft(start, hops) ==
    IF hops = <<>> \/ hops[1] = Unreadable THEN start ELSE hops[1]

Walk(start, hops) ==
    LET ends == {i \in DOMAIN hops : EndsWalk(hops[i])}
        last == IF ends = {} THEN 1 ELSE CHOOSE i \in ends : \A j \in ends : j <= i
    IN  IF hops = <<>> THEN start
        ELSE IF hops[last] # Unreadable THEN hops[last]
        ELSE IF last = Len(hops) THEN start ELSE hops[last + 1]

ResolveClientIP(from, h) == IF Trusted(from) THEN Walk(from, ForwardedHops(h)) ELSE from
-----------------------------------------------------------------------------
(* A stranger sends the request, with whatever it likes in the header.     *)
Claims == UNION {[1..n -> Entries] : n \in 0..MaxClaimed}

AddressInit ==
    /\ peer \in Strangers
    /\ origin = peer
    /\ header \in Claims
    /\ client = Unresolved

NextRequest ==
    /\ client # Unresolved
    /\ peer' \in Strangers
    /\ origin' = peer'
    /\ header' \in Claims
    /\ client' = Unresolved

(* One of ours receives it and sends it on.  The bound is on the header,   *)
(* one entry past the limit.                                               *)
ForwardTrusted ==
    /\ client = Unresolved
    /\ Len(header) <= MaxForwardedHops
    /\ peer' \in Proxies \union Mapped
    /\ header' = Append(header, peer)
    /\ UNCHANGED <<origin, client>>

(* A stranger does, and makes of the header what it likes.                 *)
ForwardStranger ==
    /\ client = Unresolved
    /\ Len(header) <= MaxForwardedHops
    /\ peer' \in Strangers
    /\ origin' = peer'
    /\ header' \in {<<>>, header, Append(header, peer)}
    /\ UNCHANGED client

(* withClientIP.                                                           *)
WithClientIP ==
    /\ client = Unresolved
    /\ client' = ResolveClientIP(peer, header)
    /\ UNCHANGED <<header, peer, origin>>

AddressNext == NextRequest \/ ForwardTrusted \/ ForwardStranger \/ WithClientIP

AddressSpec == AddressInit /\ [][AddressNext]_addressVars
-----------------------------------------------------------------------------
AddressTypeOK ==
    /\ header \in Seq(Entries)
    /\ peer \in Machines
    /\ origin \in Strangers
    /\ client \in Machines \union {Unresolved}

(* What the header and the peer say together: the request is still with    *)
(* the machine it is to be attributed to, or the header names that machine *)
(* and behind it none but ours.                                            *)
OnlyOursSince ==
    IF peer \in Strangers THEN peer = origin
    ELSE \E k \in DOMAIN header :
            /\ header[k] = origin
            /\ \A j \in DOMAIN header : j > k => header[j] # Unreadable /\ Trusted(header[j])

(* The request is attributed to the machine that handed it to our proxies, *)
(* or to us, whatever it and those before it wrote in the header, as long  *)
(* as the header that arrives is within MaxForwardedHops: up to there      *)
(* nothing is cut off it.  Of longer ones: NearestUnforgeable.             *)
AttributedToOrigin ==
    client # Unresolved /\ Len(header) <= MaxForwardedHops => client = origin

AddressIInv == AddressTypeOK /\ OnlyOursSince /\ AttributedToOrigin
-----------------------------------------------------------------------------
(* What the comments of clientip.go say, and the code does not do: the     *)
(* walk "yields the nearest address nobody in the chain could have         *)
(* forged", of a header of any length; where the limit ends it, it yields  *)
(* "a trusted hop rather than the far end of a padded chain"               *)
(* (clientip_test.go).  forwardedHops keeps the first MaxForwardedHops     *)
(* entries, which are the furthest from us.                                *)
NearestUnforgeable == client # Unresolved => client \in Proxies \union {origin}
=============================================================================
