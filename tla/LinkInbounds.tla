---------------------------- MODULE LinkInbounds ----------------------------
(***************************************************************************)
(* Does the link a user is given lead to an inbound that serves the user?  *)
(* The two sides are written in two places: app/links.py and               *)
(* _user_endpoint of app/main.py build the link, generate_xray_config of   *)
(* app/xray.py builds the inbounds, each from the row of the user and from *)
(* the environment.  nginx.conf stands between them.  The rows are written *)
(* by api_create_user and api_update_user of app/main.py; the latter reads *)
(* the row, waits for the body of the request, and writes.                 *)
(*                                                                         *)
(* Data abstracted: a port is a triple of words; keys, names, SNI, ALPN    *)
(* and tuning are left out; a row keeps the columns that select an         *)
(* inbound.  The method of Shadowsocks is one of a legacy and two 2022     *)
(* methods.  WireGuard, which Xray does not serve, is left out.  The users *)
(* are those of the main panel.                                            *)
(***************************************************************************)
EXTENDS Naturals

CONSTANTS
  Users,     \* uids
  Sites,     \* the environments: certificate, and where the fallback port is
  Choices,   \* what the form for a new user may send
  Bodies,    \* the bodies of PATCH requests
  Defaults,  \* values of the setting default_transport
  Requests,  \* identities of PATCH requests
  MaxEdits   \* bound on the number of changes of the rows

Transports == {"ws", "xhttp", "grpc", "tcp", "httpupgrade"}
Securities == {"tls", "none", "reality"}
Methods2022 == {"2022-128", "2022-256"}
Methods == Methods2022 \cup {"legacy"}
Protocols == {"vless", "vmess", "trojan", "shadowsocks", "hysteria2"}

Row == [protocol : Protocols, transport : Transports \cup {""},
        security : Securities, method : Methods, enabled : BOOLEAN]

\* The columns a PATCH request may name.
Columns == {"protocol", "transport", "security", "ss_method"}

\* "edge": the fallback port is the public port; "apart": it is another one.
\* `front`: what may be spoken to the port before nginx, which is the matter of
\* the platform: TLS, which it terminates, plaintext, or either.
ASSUME SitesAssumption ==
  Sites \subseteq [tls : BOOLEAN, fallback : {"off", "edge", "apart"},
                  front : SUBSET {"tls", "none"}]
\* A form may send words the panel does not know as transport or security.
ASSUME InputAssumption ==
  /\ \A c \in Choices : c.protocol \in Protocols /\ c.method \in Methods
  /\ \A b \in Bodies : /\ b.has \subseteq Columns
                       /\ b.protocol \in Protocols /\ b.method \in Methods
ASSUME DefaultsAssumption == Defaults \subseteq Transports
ASSUME BoundAssumption == MaxEdits \in Nat

VARIABLES
  row,      \* the table of users: a function on the uids that exist
  default,  \* the setting default_transport
  open,     \* PATCH requests that have read their row
  site,     \* the environment
  edits,    \* number of changes made
  mixed     \* history: uids whose protocol and the rest of whose row are of
            \* different requests

vars == <<row, default, open, site, edits, mixed>>

Rows == UNION {[S -> Row] : S \in SUBSET Users}

TypeOK ==
  /\ row \in Rows
  /\ default \in Defaults
  /\ open \subseteq [id : Requests, uid : Users, user : Row]
  /\ site \in Sites
  /\ edits \in 0..MaxEdits
  /\ mixed \subseteq Users

-----------------------------------------------------------------------------
(* Writing the rows.                                                       *)

\* SERVED_TRANSPORTS, the same table in main.py and in links.py.
Served(protocol) ==
  CASE protocol \in {"vless", "vmess"} -> Transports
    [] protocol = "trojan" -> {"ws", "tcp"}
    [] OTHER -> {}

\* _normalize_protocol_fields.
NormalTransport(protocol, transport) ==
  IF protocol = "hysteria2" THEN ""
  ELSE IF transport \in Served(protocol) THEN transport ELSE "ws"

NormalSecurity(protocol, transport, security) ==
  IF \/ protocol \in {"hysteria2", "trojan"}
     \/ security \notin Securities
     \/ /\ security = "reality"
        /\ protocol = "vmess" \/ NormalTransport(protocol, transport) # "tcp"
  THEN "tls" ELSE security

\* What a PATCH gives a column: what the body says, else what the row said
\* when the request read it.
SeenProtocol(b, user) == IF "protocol" \in b.has THEN b.protocol ELSE user.protocol
SeenTransport(b, user) == IF "transport" \in b.has THEN b.transport ELSE user.transport
SeenSecurity(b, user) == IF "security" \in b.has THEN b.security ELSE user.security

\* Faulty: only users of Hysteria2 are normalised.
NormalisesHysteria2Only(b, user) == SeenProtocol(b, user) = "hysteria2"

\* The condition under which api_update_user normalises.
Normalises(b, user) ==
  \/ b.has \cap {"transport", "security"} # {}
  \/ SeenProtocol(b, user) = "hysteria2"

\* The row r after a PATCH that read `user` before: columns that are not
\* updated keep the value they have now.
Patched(r, b, user) ==
  [r EXCEPT
     !.protocol = IF "protocol" \in b.has THEN b.protocol ELSE @,
     !.transport = IF Normalises(b, user)
                   THEN NormalTransport(SeenProtocol(b, user), SeenTransport(b, user))
                   ELSE @,
     !.security = IF Normalises(b, user)
                  THEN NormalSecurity(SeenProtocol(b, user), SeenTransport(b, user),
                                      SeenSecurity(b, user))
                  ELSE @,
     !.method = IF "ss_method" \in b.has THEN b.method ELSE @]

\* Such a PATCH leaves the protocol of one request with the transport and the
\* security of another: it names a new protocol alone, or it normalises for a
\* protocol that the row has had when it was read, and has no longer.
Mixes(r, b, user) ==
  IF "protocol" \in b.has
  THEN /\ b.has \cap {"transport", "security"} = {}
       /\ b.protocol \notin {r.protocol, "hysteria2"}
  ELSE user.protocol # r.protocol /\ Normalises(b, user)

Init ==
  /\ row = [u \in {} |-> {}]
  /\ default \in Defaults
  /\ open = {}
  /\ site \in Sites
  /\ edits = 0
  /\ mixed = {}

Edit == edits < MaxEdits /\ edits' = edits + 1

\* create_user: the row inserted for a new user, with the normalised columns.
NewRow(c) ==
  [protocol |-> c.protocol,
   transport |-> NormalTransport(c.protocol, c.transport),
   security |-> NormalSecurity(c.protocol, c.transport, c.security),
   method |-> c.method,
   enabled |-> TRUE]

\* api_create_user.
Create(u, c) ==
  /\ u \notin DOMAIN row
  /\ Edit
  /\ row' = [v \in DOMAIN row \cup {u} |-> IF v = u THEN NewRow(c) ELSE row[v]]
  /\ UNCHANGED <<default, open, site, mixed>>

\* api_update_user up to `await request.json()`: the row is read.  (Not when
\* the bound on the changes leaves no change for its end.)
UpdateBegins(q, u) ==
  /\ u \in DOMAIN row
  /\ edits < MaxEdits
  /\ \A o \in open : o.id # q
  /\ open' = open \cup {[id |-> q, uid |-> u, user |-> row[u]]}
  /\ UNCHANGED <<row, default, site, edits, mixed>>

\* The rest of api_update_user; the row may have changed or gone meanwhile.
UpdateEnds(o, b) ==
  /\ Edit
  /\ open' = open \ {o}
  /\ row' = [v \in DOMAIN row |->
               IF v = o.uid THEN Patched(row[v], b, o.user) ELSE row[v]]
  /\ mixed' = {v \in DOMAIN row :
                 IF v # o.uid THEN v \in mixed
                 ELSE \/ Mixes(row[v], b, o.user)
                      \/ v \in mixed /\ ~Normalises(b, o.user)}
  /\ UNCHANGED <<default, site>>

\* api_toggle, or the panel disabling a user.
Toggle(u) ==
  /\ u \in DOMAIN row
  /\ Edit
  /\ row' = [row EXCEPT ![u].enabled = ~@]
  /\ UNCHANGED <<default, open, site, mixed>>

\* api_delete_user.
Delete(u) ==
  /\ u \in DOMAIN row
  /\ Edit
  /\ row' = [v \in DOMAIN row \ {u} |-> row[v]]
  /\ mixed' = mixed \ {u}
  /\ UNCHANGED <<default, open, site>>

\* api_set_settings with default_transport; it does not rewrite the rows.
SetDefault ==
  /\ default' \in Defaults \ {default}
  /\ UNCHANGED <<row, open, site, edits, mixed>>

Next ==
  \/ \E u \in Users : \/ \E c \in Choices : Create(u, c)
                      \/ \E q \in Requests : UpdateBegins(q, u)
                      \/ Toggle(u) \/ Delete(u)
  \/ \E o \in open : \E b \in Bodies : UpdateEnds(o, b)
  \/ SetDefault

Spec == Init /\ [][Next]_vars

-----------------------------------------------------------------------------
(* generate_xray_config: an inbound listens at a port, on every interface  *)
(* or on the loopback one, for one protocol over one network, and lists    *)
(* its clients.  `header`: it expects the PROXY header on a connection.    *)

Fallback == IF site.tls THEN site.fallback ELSE "off"

Inbounds(port, public, protocol, network, security, header, clients) ==
  {i \in {[port |-> port, public |-> public, protocol |-> protocol,
           network |-> network, security |-> security, header |-> header,
           clients |-> clients]} : clients # {}}

\* Faulty: the lists take users that are disabled as well.
EnabledOrNot(protocol) == {u \in DOMAIN row : row[u].protocol = protocol}

Enabled(protocol) ==
  {u \in DOMAIN row : row[u].enabled /\ row[u].protocol = protocol}

\* The raw TCP lists take users that are disabled as well.
RawUsers(protocol, security) ==
  {u \in DOMAIN row : /\ row[u].protocol = protocol
                      /\ row[u].transport = "tcp"
                      /\ row[u].security = security}

WsPort(protocol) == <<protocol, "ws", "none">>
SharedPort(network) == <<"any", network, "none">>
RawPort(protocol, security) == <<protocol, "tcp", security>>
FallbackPort == <<"fallback", "tcp", "tls">>
SsPort == <<"shadowsocks", "tcp", "legacy">>
Ss2022Port == <<"shadowsocks", "tcp", "2022">>
Hy2Port == <<"hysteria2", "udp", "tls">>
PublicPort == <<"public", "tcp", "tls">>

WsInbounds ==
  UNION {Inbounds(WsPort(p), FALSE, p, "ws", "none", Fallback # "off", Enabled(p)) :
           p \in {"vless", "vmess", "trojan"}}

SharedNetworks == {"xhttp", "httpupgrade", "grpc"}

SharedInbounds ==
  UNION {Inbounds(SharedPort(n), FALSE, p, n, "none", FALSE, Enabled(p)) :
           n \in SharedNetworks, p \in {"vless", "vmess"}}

SsUsers(S) == {u \in Enabled("shadowsocks") : row[u].method \in S}

\* All users with a 2022 method are on one inbound.
SsInbounds ==
  Inbounds(SsPort, FALSE, "shadowsocks", "tcp", "legacy", FALSE, SsUsers({"legacy"}))
  \cup Inbounds(Ss2022Port, FALSE, "shadowsocks", "tcp", "2022", FALSE, SsUsers(Methods2022))

PlainInbounds ==
  UNION {Inbounds(RawPort(p, "none"), TRUE, p, "tcp", "none", FALSE, RawUsers(p, "none")) :
           p \in {"vless", "vmess"}}

VlessTlsPort == IF Fallback = "off" THEN RawPort("vless", "tls") ELSE FallbackPort

\* The inbounds that terminate TLS themselves need the certificate.  A Trojan
\* user on raw TCP is listed whatever its row says of security.
TlsInbounds ==
  UNION {i \in {Inbounds(VlessTlsPort, TRUE, "vless", "tcp", "tls", FALSE, RawUsers("vless", "tls")),
                Inbounds(RawPort("vmess", "tls"), TRUE, "vmess", "tcp", "tls", FALSE, RawUsers("vmess", "tls")),
                Inbounds(RawPort("trojan", "tls"), TRUE, "trojan", "tcp", "tls", FALSE,
                         UNION {RawUsers("trojan", s) : s \in Securities}),
                Inbounds(Hy2Port, TRUE, "hysteria2", "udp", "tls", FALSE, Enabled("hysteria2"))} :
           site.tls}

RealityInbounds ==
  Inbounds(RawPort("vless", "reality"), TRUE, "vless", "tcp", "reality", FALSE,
           RawUsers("vless", "reality"))

Config == WsInbounds \cup SharedInbounds \cup SsInbounds \cup PlainInbounds
          \cup TlsInbounds \cup RealityInbounds

-----------------------------------------------------------------------------
(* links.py and _user_endpoint: what the link of a user says.              *)

\* _transport_for.
LinkTransport(u) ==
  LET t == IF row[u].transport = "" THEN default ELSE row[u].transport
  IN  IF t \in Served(row[u].protocol) THEN t ELSE "ws"

\* build_vless_link, build_vmess_link, build_trojan_link, build_ss_link and
\* build_hy2_link.
LinkNetwork(u) ==
  CASE row[u].protocol = "hysteria2" -> "udp"
    [] row[u].protocol = "shadowsocks" -> "tcp"
    [] row[u].protocol = "vless" /\ row[u].security = "reality" -> "tcp"
    [] OTHER -> LinkTransport(u)

LinkSecurity(u) ==
  CASE row[u].protocol \in {"hysteria2", "trojan"} -> "tls"
    [] row[u].protocol = "shadowsocks" ->
         IF row[u].method \in Methods2022 THEN "2022" ELSE "legacy"
    [] row[u].protocol = "vmess" /\ row[u].security = "reality" -> "none"
    [] OTHER -> row[u].security

\* _tcp_port.
TcpPort(protocol, security) ==
  RawPort(protocol, CASE protocol = "vless" -> security
                      [] protocol = "vmess" -> IF security = "tls" THEN "tls" ELSE "none"
                      [] OTHER -> "tls")

\* The port _user_endpoint puts into the link.  It looks at the transport in
\* the row, where "" counts as "ws", not at the one the link advertises.
LinkPort(u) ==
  CASE row[u].protocol = "hysteria2" -> Hy2Port
    [] row[u].protocol = "shadowsocks" ->
         IF row[u].method \in Methods2022 THEN Ss2022Port ELSE SsPort
    [] row[u].protocol \in {"vless", "vmess", "trojan"} /\ row[u].transport = "tcp" ->
         IF row[u].protocol = "vless" /\ row[u].security = "tls" /\ Fallback # "off"
         THEN FallbackPort ELSE TcpPort(row[u].protocol, row[u].security)
    [] OTHER -> PublicPort

-----------------------------------------------------------------------------
(* The way from the link to an inbound.                                    *)

\* Where nginx proxies the path or service of the link, if it is one it knows.
PathPort(u) ==
  IF LinkNetwork(u) = "ws" THEN WsPort(row[u].protocol) ELSE SharedPort(LinkNetwork(u))

\* What may be spoken to the public port.  There listens the fallback inbound,
\* which terminates TLS, or nginx behind what the platform puts before it.
Spoken == IF Fallback = "edge" THEN {"tls"} ELSE site.front

\* The fallback inbound is there if there are clients for it; it knows the
\* three WebSocket paths, and adds the PROXY header.  nginx adds none.
Target(u) ==
  IF LinkPort(u) # PublicPort
  THEN {[port |-> LinkPort(u), public |-> TRUE, header |-> FALSE]}
  ELSE {t \in {[port |-> PathPort(u), public |-> FALSE, header |-> Fallback = "edge"]} :
          /\ LinkSecurity(u) \in Spoken
          /\ Fallback = "edge" => RawUsers("vless", "tls") # {} /\ LinkNetwork(u) = "ws"}

\* The inbound speaks what the link says, and knows the user.  Behind the
\* public port TLS has been terminated.
Fits(i, u) ==
  /\ i.protocol = row[u].protocol
  /\ i.network = LinkNetwork(u)
  /\ i.public => i.security = LinkSecurity(u)
  /\ u \in i.clients

Listening(t) == {i \in Config : i.port = t.port /\ (t.public => i.public)}

\* A connection made with the link reaches an inbound that serves the user:
\* whichever inbound listens at that port is one.
LinkWorks(u) ==
  \E t \in Target(u) : /\ Listening(t) # {}
                       /\ \A i \in Listening(t) : i.header = t.header /\ Fits(i, u)

-----------------------------------------------------------------------------
(* Properties.                                                             *)

Normal(r) == /\ r.transport = NormalTransport(r.protocol, r.transport)
             /\ r.security = NormalSecurity(r.protocol, r.transport, r.security)

(***************************************************************************)
(* main.py:1272, "coerce transport/security to values the server can       *)
(* actually serve", made exact: every row is one the server can serve,     *)
(* however requests overlap, but for those whose protocol and the rest of  *)
(* whose row come from different requests.  Either the last PATCH of them  *)
(* named the protocol alone, or it normalised for the protocol it read     *)
(* before it waited for its body, and another request has changed that.    *)
(***************************************************************************)
RowsAreServable == \A u \in DOMAIN row \ mixed : Normal(row[u])

(***************************************************************************)
(* links.py:4, made exact: whose link leads to an inbound that serves the  *)
(* user, when rows are servable.  The user is enabled or on raw TCP, and   *)
(* not on Shadowsocks; a certificate is there if Xray terminates TLS.  A   *)
(* user of the public port needs a security that may be spoken there; a    *)
(* WebSocket user needs the fallback port off, or as the public port with  *)
(* a VLESS TLS user to keep it open; one on another network of the public  *)
(* port needs it elsewhere, and no enabled user of the other protocol that *)
(* uses the network.                                                       *)
(***************************************************************************)
Raw(u) == row[u].protocol \in {"vless", "vmess", "trojan"} /\ row[u].transport = "tcp"
Direct(u) == Raw(u) \/ row[u].protocol = "hysteria2"

ServedDirectly(u) ==
  /\ row[u].enabled \/ Raw(u)
  /\ site.tls \/ LinkSecurity(u) # "tls"

ServedBehindProxy(u) ==
  /\ row[u].enabled
  /\ LinkSecurity(u) \in Spoken
  /\ IF row[u].transport = "ws"
     THEN \/ Fallback = "off"
          \/ Fallback = "edge" /\ RawUsers("vless", "tls") # {}
     ELSE /\ Fallback # "edge"
          /\ Enabled("vless") = {} \/ Enabled("vmess") = {}

ExactlyTheseLinksWork ==
  \A u \in DOMAIN row : Normal(row[u]) =>
    (LinkWorks(u) <=> /\ row[u].protocol # "shadowsocks"
                      /\ IF Direct(u) THEN ServedDirectly(u) ELSE ServedBehindProxy(u))
=============================================================================
