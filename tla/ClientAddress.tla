---------------------------- MODULE ClientAddress ----------------------------
(****************************************************************************)
(* Whose attempts the limits of RateLimiter count: the address that          *)
(* client_ip finds for a request, sent to the backend directly or through    *)
(* the reverse proxy, and the identifiers made of it.                        *)
(****************************************************************************)
EXTENDS RateLimiter

CONSTANTS
    Hosts,    \* addresses
    Proxies,  \* those in the networks of TRUSTED_PROXIES
    Emails,
    None      \* no header

ASSUME HostsAssumption == Proxies \subseteq Hosts /\ None \notin Hosts

Clients == Hosts \ Proxies

(* A request as it reaches the backend: the other end of the connection and  *)
(* the header X-Real-IP.  A client sets what it likes; nginx overwrites it.  *)
Direct(client, header) == [peer |-> client, header |-> header]

ThroughNginx(client, header, proxy) == [peer |-> proxy, header |-> client]

Requests(client) ==
    {Direct(client, h) : h \in Hosts \cup {None}} \cup
    {ThroughNginx(client, h, p) : h \in Hosts \cup {None}, p \in Proxies}

MutAnyHeader(r) == r.header # None

IsTrustedProxy(r) == r.peer \in Proxies

ClientIp(r) == IF IsTrustedProxy(r) /\ r.header # None THEN r.header ELSE r.peer

(* The prefixes of the keys keep the two limiters apart.                     *)
LoginIdentifier(email, r) == <<"login", email, ClientIp(r)>>

RegistrationIdentifier(r) == <<"register", ClientIp(r)>>

-----------------------------------------------------------------------------
(* "Datos que el cliente no pueda variar": however the requests of a client  *)
(* arrive and whatever header they carry, they share the window of their     *)
(* email, and the one of registrations; and those of two clients never do.   *)
WindowsAreOfOneClient ==
    \A c, d \in Clients : \A q \in Requests(c), r \in Requests(d) :
        /\ RegistrationIdentifier(q) = RegistrationIdentifier(r) <=> c = d
        /\ \A e, f \in Emails :
              LoginIdentifier(e, q) = LoginIdentifier(f, r) <=> (c = d /\ e = f)

(* The two together: however a client's requests arrive, the passwords it    *)
(* tries on one account in any stretch of a block's length are limited, and  *)
(* no other client is refused for them.                                      *)
EachClientHasItsLimit ==
    /\ WindowsAreOfOneClient
    /\ \A c \in Clients, e \in Emails :
          LET windows == {LoginIdentifier(e, q) : q \in Requests(c)}
          IN Cardinality(windows) * Admitted <= 2 * max_attempts
=============================================================================
