--------------------------- MODULE OutboundPolicy ---------------------------
(***************************************************************************)
(* Which destinations a session may talk to: OutboundPolicy of client.py.  *)
(* Hosts are names or literal addresses, with no difference of case; what  *)
(* a wildcard or a network matches is given as the set of its members.     *)
(***************************************************************************)
CONSTANTS Hosts, Addresses,
          Literal,        \* the hosts that are addresses: [Literal -> Addresses]
          AllowedHosts,   \* the hosts the patterns of allowed_hosts match
          AllowedCidrs,   \* the addresses the networks of allowed_cidrs contain
          GlobalAddresses, SpecialAddresses,  \* is_global; multicast, unspecified or reserved
          RequireHttps, AllowPrivate

ASSUME PolicyAssumption ==
    /\ Literal \in [DOMAIN Literal -> Addresses] /\ DOMAIN Literal \subseteq Hosts
    /\ AllowedHosts \subseteq Hosts
    /\ AllowedCidrs \union GlobalAddresses \union SpecialAddresses \subseteq Addresses
    /\ RequireHttps \in BOOLEAN /\ AllowPrivate \in BOOLEAN

HostIsAllowed(h) == h \in AllowedHosts

AddressIsAllowed(a) ==
    \/ a \in AllowedCidrs
    \/ IF AllowPrivate THEN a \notin SpecialAddresses ELSE a \in GlobalAddresses

\* What a host may stand for at the moment: an address for itself, a name for
\* whatever the name service (external) answers.
Answers(h) == IF h \in DOMAIN Literal THEN {{Literal[h]}} ELSE SUBSET Addresses

\* resolve returns: the host has addresses, each of them allowed.
Resolves(h, addresses) ==
    /\ addresses # {}
    /\ HostIsAllowed(h) \/ \A a \in addresses : AddressIsAllowed(a)

SchemeIsAllowed(h, https) == RequireHttps => https \/ HostIsAllowed(h)

\* Fault: only the scheme is checked before the connection.
ValidatesScheme(h, https, addresses) == SchemeIsAllowed(h, https) /\ addresses # {}

\* validate returns; a URL it cannot normalise is not a destination here.
Validates(h, https, addresses) == SchemeIsAllowed(h, https) /\ Resolves(h, addresses)
=============================================================================
