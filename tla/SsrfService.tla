---------------------------- MODULE SsrfService ----------------------------
(***************************************************************************)
(* The address rules of ssrf.service.ts, shared by the check of a URL when *)
(* an endpoint is registered and by the check of every connection.         *)
(*                                                                         *)
(* An address is a record of its text form: "v4" with four octets, "v6"    *)
(* with its first group, "unspecified" for :: and ::1, and an IPv4-mapped  *)
(* IPv6 address as "mapped" in its dotted form (::ffff:a.b.c.d, what a     *)
(* resolver answers) or as "hex" in groups (::ffff:xxxx:xxxx, what the     *)
(* URL parser makes of both).  Other differences of spelling are left out. *)
(***************************************************************************)
EXTENDS Integers, Sequences

CONSTANTS
    AllowInsecureHttp,        \* HR_ALLOW_INSECURE_HTTP
    AllowPrivateDestinations  \* HR_ALLOW_PRIVATE_DESTINATIONS

ASSUME SsrfAssumption ==
    AllowInsecureHttp \in BOOLEAN /\ AllowPrivateDestinations \in BOOLEAN

Octet   == 0 .. 255
Octets  == Octet \X Octet \X Octet \X Octet
Group   == 0 .. 65535
Address == [kind : {"v4", "mapped", "hex", "v6", "unspecified"}, octets : Octets, group : Group]

V4(a, b, c, d) == [kind |-> "v4", octets |-> <<a, b, c, d>>, group |-> 0]
Mapped(ip)     == [ip EXCEPT !.kind = "mapped"]
V6(g)          == [kind |-> "v6", octets |-> <<0, 0, 0, 0>>, group |-> g]
Unspecified    == [kind |-> "unspecified", octets |-> <<0, 0, 0, 0>>, group |-> 0]

\* (value & mask) of blockedV4Reason for a mask of `bits` ones: the leading bits,
\* in two halves of 16 because TLC's integers have 32 bits with a sign.
Leading(o, bits) ==
    LET high == o[1] * 256 + o[2]
        low  == o[3] * 256 + o[4]
    IN  IF bits <= 16 THEN <<high \div 2 ^ (16 - bits), 0>>
                      ELSE <<high, low \div 2 ^ (32 - bits)>>

inRange(o, base, bits) == Leading(o, bits) = Leading(base, bits)

\* blockedV4Reason: there is a reason.
BlockedV4(o) ==
    \/ inRange(o, <<0, 0, 0, 0>>, 8)
    \/ o[1] = 10
    \/ inRange(o, <<100, 64, 0, 0>>, 10)
    \/ o[1] = 127
    \/ inRange(o, <<169, 254, 0, 0>>, 16)
    \/ o[1] = 172 /\ o[2] >= 16 /\ o[2] <= 31
    \/ inRange(o, <<192, 0, 0, 0>>, 24)
    \/ o[1] = 192 /\ o[2] = 168
    \/ inRange(o, <<198, 18, 0, 0>>, 15)
    \/ o[1] >= 224

\* blockedV6Reason, after the dotted form: the masks 0xfe00, 0xffc0 and 0xff00.
BlockedV6(g) == g \div 512 = 126 \/ g \div 64 = 1018 \/ g \div 256 = 255

\* blockedIpReason: there is a reason.  Only the dotted form of a mapped address
\* goes to the IPv4 rules; in groups its first group is empty, which counts as 0.
Blocked(ip) ==
    CASE ip.kind \in {"v4", "mapped"} -> BlockedV4(ip.octets)
      [] ip.kind = "hex"              -> BlockedV6(0)
      [] ip.kind = "v6"               -> BlockedV6(ip.group)
      [] ip.kind = "unspecified"      -> TRUE

\* A URL: the host is an address (ip is its singleton) or a name (ip is empty).
Url(name, scheme, credentials, ip) ==
    [name |-> name, scheme |-> scheme, credentials |-> credentials, ip |-> ip]

\* url.hostname of a literal: the URL parser writes a mapped address in groups.
hostname(ip) == IF ip.kind = "mapped" THEN [ip EXCEPT !.kind = "hex"] ELSE ip

\* The addresses a host stands for: itself, or what the resolver answers.
HostAddresses(u, answer) == IF u.ip # {} THEN {hostname(ip) : ip \in u.ip} ELSE answer

\* assertDeliverableUrl: every address must pass; no answer is a refusal.
assertDeliverableUrl(u, answer) ==
    /\ u.scheme = "https" \/ (AllowInsecureHttp /\ u.scheme = "http")
    /\ ~u.credentials
    /\ \/ AllowPrivateDestinations
       \/ /\ HostAddresses(u, answer) # {}
          /\ \A ip \in HostAddresses(u, answer) : ~Blocked(ip)

-----------------------------------------------------------------------------
(* The ranges as the messages of ssrf.service.ts name them *)

\* First and last address of every named IPv4 range.
NamedV4 == {
    <<<<0, 0, 0, 0>>, <<0, 255, 255, 255>>>>,
    <<<<10, 0, 0, 0>>, <<10, 255, 255, 255>>>>,
    <<<<100, 64, 0, 0>>, <<100, 127, 255, 255>>>>,
    <<<<127, 0, 0, 0>>, <<127, 255, 255, 255>>>>,
    <<<<169, 254, 0, 0>>, <<169, 254, 255, 255>>>>,
    <<<<172, 16, 0, 0>>, <<172, 31, 255, 255>>>>,
    <<<<192, 0, 0, 0>>, <<192, 0, 0, 255>>>>,
    <<<<192, 168, 0, 0>>, <<192, 168, 255, 255>>>>,
    <<<<198, 18, 0, 0>>, <<198, 19, 255, 255>>>>,
    <<<<224, 0, 0, 0>>, <<255, 255, 255, 255>>>>}

\* First and last first group of fc00::/7, fe80::/10 and ff00::/8.
NamedV6 == {<<64512, 65023>>, <<65152, 65215>>, <<65280, 65535>>}

\* Numeric order of addresses, octet by octet.
AtMost(o, p) ==
    \A i \in 1 .. 4 : (\A k \in 1 .. i - 1 : o[k] = p[k]) => o[i] <= p[i]

Internal(ip) ==
    CASE ip.kind \in {"v4", "mapped", "hex"} ->
             \E r \in NamedV4 : AtMost(r[1], ip.octets) /\ AtMost(ip.octets, r[2])
      [] ip.kind = "v6" -> \E r \in NamedV6 : r[1] <= ip.group /\ ip.group <= r[2]
      [] ip.kind = "unspecified" -> TRUE
=============================================================================
