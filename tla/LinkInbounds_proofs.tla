------------------------ MODULE LinkInbounds_proofs ------------------------
(***************************************************************************)
(* The rows stay servable, for every set of users, forms and requests, and *)
(* exactly the stated links lead to an inbound and exactly the stated      *)
(* files agree with their links, in every environment.                     *)
(***************************************************************************)
EXTENDS ClientConfigs, TLAPS

\* Normalisation yields values a row may have.
LEMMA NormalisedTypes ==
  ASSUME NEW p \in Protocols, NEW t, NEW s
  PROVE  /\ NormalTransport(p, t) \in Transports \cup {""}
         /\ NormalSecurity(p, t, s) \in Securities
BY DEF NormalTransport, NormalSecurity, Served, Protocols, Transports, Securities

\* _normalize_protocol_fields is idempotent: what it returns it leaves alone.
LEMMA NormalisationIsIdempotent ==
  ASSUME NEW p \in Protocols, NEW t, NEW s
  PROVE  /\ NormalTransport(p, NormalTransport(p, t)) = NormalTransport(p, t)
         /\ NormalSecurity(p, NormalTransport(p, t), NormalSecurity(p, t, s))
              = NormalSecurity(p, t, s)
<1>1. NormalTransport(p, NormalTransport(p, t)) = NormalTransport(p, t)
  BY DEF NormalTransport, Served, Protocols, Transports
<1>2. NormalSecurity(p, NormalTransport(p, t), NormalSecurity(p, t, s))
        = NormalSecurity(p, t, s)
  BY <1>1 DEF NormalSecurity, Securities
<1> QED BY <1>1, <1>2

\* A PATCH leaves a row a row.
LEMMA PatchedIsRow ==
  ASSUME NEW r \in Row, NEW b \in Bodies, NEW user \in Row
  PROVE  Patched(r, b, user) \in Row
<1>1. SeenProtocol(b, user) \in Protocols /\ b.protocol \in Protocols /\ b.method \in Methods
  BY InputAssumption DEF SeenProtocol, Row
<1>2. /\ NormalTransport(SeenProtocol(b, user), SeenTransport(b, user)) \in Transports \cup {""}
      /\ NormalSecurity(SeenProtocol(b, user), SeenTransport(b, user), SeenSecurity(b, user))
           \in Securities
  BY <1>1, NormalisedTypes
<1> QED BY <1>1, <1>2 DEF Patched, Row

\* A PATCH that does not mix leaves a servable row, whatever row it read, if
\* it normalises or finds one.
LEMMA PatchedIsNormal ==
  ASSUME NEW r \in Row, NEW b \in Bodies, NEW user \in Row,
         ~Mixes(r, b, user), Normalises(b, user) \/ Normal(r)
  PROVE  Normal(Patched(r, b, user))
<1> DEFINE p == SeenProtocol(b, user)
<1>1. p \in Protocols /\ r.protocol \in Protocols
  BY InputAssumption DEF SeenProtocol, Row
<1>2. CASE Normalises(b, user)
  <2>1. Patched(r, b, user).protocol = p
    BY <1>2 DEF Patched, Row, Mixes, SeenProtocol
  <2>2. /\ Patched(r, b, user).transport = NormalTransport(p, SeenTransport(b, user))
        /\ Patched(r, b, user).security =
             NormalSecurity(p, SeenTransport(b, user), SeenSecurity(b, user))
    BY <1>2 DEF Patched, Row
  <2> HIDE DEF p
  <2> QED BY <1>1, <2>1, <2>2, NormalisationIsIdempotent DEF Normal
<1>3. CASE ~Normalises(b, user)
  <2>1. b.has \cap {"transport", "security"} = {} /\ p # "hysteria2"
    BY <1>3 DEF Normalises
  <2>2. "protocol" \in b.has => b.protocol = r.protocol
    BY <2>1 DEF Mixes, SeenProtocol
  <2>3. /\ Patched(r, b, user).protocol = r.protocol
        /\ Patched(r, b, user).transport = r.transport
        /\ Patched(r, b, user).security = r.security
    BY <1>3, <2>2 DEF Patched, Row
  <2> QED BY <1>3, <2>3 DEF Normal
<1> QED BY <1>2, <1>3

\* The row of a new user is a servable row.
LEMMA CreatedIsNormal ==
  ASSUME NEW c \in Choices,
         NEW r, r = NewRow(c)
  PROVE  r \in Row /\ Normal(r)
<1>1. c.protocol \in Protocols /\ c.method \in Methods
  BY InputAssumption
<1>2. r \in Row
  BY <1>1, NormalisedTypes DEF NewRow, Row
<1>3. Normal(r)
  BY <1>1, NormalisationIsIdempotent DEF NewRow, Normal
<1> QED BY <1>2, <1>3

\* What the steps do to the table: each row is new, patched, toggled or as it
\* was; and what that says of its being mixed.
Kept(u) == u \notin mixed' => u \notin mixed

RowStep ==
  \A u \in DOMAIN row' :
    \/ \E c \in Choices : row'[u] = NewRow(c)
    \/ u \in DOMAIN row /\ row'[u] = row[u] /\ Kept(u)
    \/ u \in DOMAIN row /\ row'[u] = [row[u] EXCEPT !.enabled = ~@] /\ Kept(u)
    \/ /\ u \in DOMAIN row
       /\ \E b \in Bodies, o \in open :
            /\ row'[u] = Patched(row[u], b, o.user)
            /\ u \notin mixed' => /\ ~Mixes(row[u], b, o.user)
                                  /\ Kept(u) \/ Normalises(b, o.user)

\* Every step of the specification is such a step, on a table of users.
LEMMA NextIsRowStep ==
  ASSUME TypeOK, [Next]_vars
  PROVE  RowStep /\ row' = [u \in DOMAIN row' |-> row'[u]] /\ DOMAIN row' \subseteq Users
<1>0. row = [u \in DOMAIN row |-> row[u]] /\ DOMAIN row \subseteq Users
  BY DEF TypeOK, Rows
<1>1. ASSUME NEW u \in Users, NEW c \in Choices, Create(u, c)
      PROVE  RowStep /\ row' = [v \in DOMAIN row' |-> row'[v]] /\ DOMAIN row' \subseteq Users
  BY <1>0, <1>1 DEF Create, RowStep, Kept
<1>2. ASSUME NEW o \in open, NEW b \in Bodies, UpdateEnds(o, b)
      PROVE  RowStep /\ row' = [v \in DOMAIN row' |-> row'[v]] /\ DOMAIN row' \subseteq Users
  <2>1. /\ row' = [v \in DOMAIN row |->
                     IF v = o.uid THEN Patched(row[v], b, o.user) ELSE row[v]]
        /\ \A v \in DOMAIN row \ {o.uid} : Kept(v)
        /\ o.uid \in DOMAIN row \ mixed' =>
             /\ ~Mixes(row[o.uid], b, o.user)
             /\ Kept(o.uid) \/ Normalises(b, o.user)
    BY <1>2 DEF UpdateEnds, Kept
  <2> QED BY <1>0, <2>1 DEF RowStep
<1>3. ASSUME NEW u \in Users, Toggle(u)
      PROVE  RowStep /\ row' = [v \in DOMAIN row' |-> row'[v]] /\ DOMAIN row' \subseteq Users
  <2>1. /\ DOMAIN row' = DOMAIN row
        /\ row' = [v \in DOMAIN row |->
                     IF v = u THEN [row[u] EXCEPT !.enabled = ~@] ELSE row[v]]
        /\ mixed' = mixed
    BY <1>0, <1>3 DEF Toggle
  <2> QED BY <1>0, <2>1 DEF RowStep, Kept
<1>4. ASSUME NEW u \in Users, Delete(u)
      PROVE  RowStep /\ row' = [v \in DOMAIN row' |-> row'[v]] /\ DOMAIN row' \subseteq Users
  BY <1>0, <1>4 DEF Delete, RowStep, Kept
<1>5. CASE UNCHANGED <<row, mixed>>
  BY <1>0, <1>5 DEF RowStep, Kept
<1> QED BY <1>1, <1>2, <1>3, <1>4, <1>5
         DEF Next, UpdateBegins, SetDefault, vars

\* Every step keeps the variables well typed.
LEMMA NextKeepsTypes == TypeOK /\ [Next]_vars => TypeOK'
<1> SUFFICES ASSUME TypeOK, [Next]_vars PROVE TypeOK'
  OBVIOUS
<1>0. \A u \in DOMAIN row : row[u] \in Row
  BY DEF TypeOK, Rows
<1>1. \A u \in DOMAIN row' : row'[u] \in Row
  <2>1. ASSUME NEW u \in DOMAIN row' PROVE row'[u] \in Row
    <3>1. RowStep
      BY NextIsRowStep
    <3>2. CASE \E c \in Choices : row'[u] = NewRow(c)
      BY <3>2, CreatedIsNormal
    <3>3. CASE u \in DOMAIN row /\ row'[u] = row[u]
      BY <1>0, <3>3
    <3>4. CASE u \in DOMAIN row /\ row'[u] = [row[u] EXCEPT !.enabled = ~@]
      <4>1. row[u] \in Row
        BY <1>0, <3>4
      <4> QED BY <3>4, <4>1 DEF Row
    <3>5. CASE u \in DOMAIN row /\ \E b \in Bodies, o \in open : row'[u] = Patched(row[u], b, o.user)
      <4>1. \A o \in open : o.user \in Row
        BY DEF TypeOK
      <4> QED BY <1>0, <3>5, <4>1, PatchedIsRow
    <3> QED BY <3>1, <3>2, <3>3, <3>4, <3>5 DEF RowStep
  <2> QED BY <2>1
<1>2. row' \in Rows
  BY <1>1, NextIsRowStep DEF Rows
<1>3. default' \in Defaults /\ site' \in Sites /\ edits' \in 0..MaxEdits
  <2>1. /\ site' = site
        /\ default' = default \/ default' \in Defaults
    BY DEF Next, vars, Create, UpdateBegins, UpdateEnds, Toggle, Delete, SetDefault
  <2>2. edits' = edits \/ Edit
    BY DEF Next, vars, Create, UpdateBegins, UpdateEnds, Toggle, Delete, SetDefault
  <2>3. edits' \in 0..MaxEdits
    BY <2>2, BoundAssumption DEF TypeOK, Edit
  <2> QED BY <2>1, <2>3 DEF TypeOK
<1>4. open' \subseteq [id : Requests, uid : Users, user : Row]
  <2>1. \A u \in Users, q \in Requests : UpdateBegins(q, u) =>
          open' \subseteq [id : Requests, uid : Users, user : Row]
    BY <1>0 DEF UpdateBegins, TypeOK
  <2>2. open' \subseteq open \/ \E u \in Users, q \in Requests : UpdateBegins(q, u)
    BY DEF Next, vars, Create, UpdateEnds, Toggle, Delete, SetDefault
  <2> QED BY <2>1, <2>2 DEF TypeOK
<1>5. mixed' \subseteq Users
  <2>1. mixed' \subseteq mixed \cup DOMAIN row
    BY DEF Next, vars, Create, UpdateBegins, UpdateEnds, Toggle, Delete, SetDefault
  <2> QED BY <2>1 DEF TypeOK, Rows
<1> QED BY <1>2, <1>3, <1>4, <1>5 DEF TypeOK

\* The table, the requests and the setting stay well typed.
THEOREM TypeCorrect == Spec => []TypeOK
<1>1. Init => TypeOK
  BY BoundAssumption DEF Init, TypeOK, Rows
<1> QED BY <1>1, NextKeepsTypes, PTL DEF Spec

\* A step keeps the rows that are not mixed servable.
LEMMA NextKeepsServable == TypeOK /\ RowsAreServable /\ [Next]_vars => RowsAreServable'
<1> SUFFICES ASSUME TypeOK, RowsAreServable, [Next]_vars,
                    NEW u \in DOMAIN row', u \notin mixed'
             PROVE  Normal(row'[u])
  BY DEF RowsAreServable, Normal
<1>1. RowStep
  BY NextIsRowStep
<1>2. CASE \E c \in Choices : row'[u] = NewRow(c)
  BY <1>2, CreatedIsNormal
<1>3. CASE u \in DOMAIN row /\ row'[u] = row[u] /\ Kept(u)
  BY <1>3 DEF RowsAreServable, Kept
<1>4. CASE u \in DOMAIN row /\ row'[u] = [row[u] EXCEPT !.enabled = ~@] /\ Kept(u)
  <2>1. row[u] \in Row /\ Normal(row[u])
    BY <1>4 DEF TypeOK, Rows, RowsAreServable, Kept
  <2> QED BY <1>4, <2>1 DEF Normal, Row
<1>5. CASE /\ u \in DOMAIN row
           /\ \E b \in Bodies, o \in open :
                /\ row'[u] = Patched(row[u], b, o.user)
                /\ u \notin mixed' => /\ ~Mixes(row[u], b, o.user)
                                      /\ Kept(u) \/ Normalises(b, o.user)
  <2>1. PICK b \in Bodies, o \in open :
          /\ row'[u] = Patched(row[u], b, o.user)
          /\ ~Mixes(row[u], b, o.user)
          /\ Kept(u) \/ Normalises(b, o.user)
    BY <1>5
  <2>2. row[u] \in Row /\ o.user \in Row
    BY <1>5 DEF TypeOK, Rows
  <2>3. Normalises(b, o.user) \/ Normal(row[u])
    BY <1>5, <2>1 DEF RowsAreServable, Kept
  <2>4. Normal(Patched(row[u], b, o.user))
    BY <2>1, <2>2, <2>3, PatchedIsNormal
  <2> QED BY <2>1, <2>4
<1> QED BY <1>1, <1>2, <1>3, <1>4, <1>5 DEF RowStep

\* Whatever columns requests name and however they overlap, every row is one
\* the server can serve, unless its protocol and the rest of it come from
\* different requests.
THEOREM RowsStayServable == Spec => []RowsAreServable
<1>1. Init => TypeOK /\ RowsAreServable
  BY BoundAssumption DEF Init, TypeOK, Rows, RowsAreServable
<1>2. TypeOK /\ RowsAreServable /\ [Next]_vars => TypeOK' /\ RowsAreServable'
  BY NextKeepsTypes, NextKeepsServable
<1> QED BY <1>1, <1>2, PTL DEF Spec

-----------------------------------------------------------------------------
(* The files.                                                              *)

\* The words of a row make a link with these words.
LEMMA LinkFacts ==
  ASSUME TypeOK, NEW u \in DOMAIN row
  PROVE  /\ row[u].protocol \in Protocols
         /\ row[u].protocol = "hysteria2" => LinkPort(u) = Hy2Port
         /\ row[u].protocol # "hysteria2" => LinkNetwork(u) # "http"
<1>1. row[u] \in Row
  BY DEF TypeOK, Rows
<1>2. row[u].protocol \in Protocols
  BY <1>1 DEF Row
<1>3. row[u].protocol # "hysteria2" => LinkNetwork(u) # "http"
  BY <1>2 DEF LinkNetwork, LinkTransport, Served, Protocols, Transports
<1>4. row[u].protocol = "hysteria2" => LinkPort(u) = Hy2Port
  BY DEF LinkPort
<1> QED BY <1>2, <1>3, <1>4

\* The file of a user who is not on Hysteria2.
LEMMA FilesOfOthers ==
  ASSUME TypeOK, NEW u \in DOMAIN row, NEW format \in Formats,
         row[u].protocol # "hysteria2"
  PROVE  FileOutbounds(format, u) = {LinkDial(u)} <=> Faithful(format, u)
<1> DEFINE File(network) ==
      [protocol |-> row[u].protocol, port |-> LinkPort(u), network |-> network,
       security |-> LinkSecurity(u), obfs |-> FALSE]
<1>1. LinkDial(u) = File(LinkNetwork(u))
  BY DEF LinkDial
<1>2. \A network : Outbound(Entry(u), network, Entry(u).security) = File(network)
  BY DEF Outbound, Entry
<1>3. Entry(u).kind # "hysteria2" /\ Entry(u).transport = LinkNetwork(u)
  BY DEF Entry
<1>4. CASE format = "xray" \/ format = "clash"
  <2>1. FileOutbounds(format, u) = {File(LinkNetwork(u))}
    BY <1>2, <1>3, <1>4 DEF FileOutbounds, XrayOutbounds, ClashOutbounds
  <2> QED BY <1>1, <1>4, <2>1 DEF Faithful
<1>5. CASE format = "singbox"
  <2>1. FileOutbounds(format, u) =
          {File(IF LinkNetwork(u) \in {"xhttp", "httpupgrade"} THEN "http"
                ELSE LinkNetwork(u))}
    BY <1>2, <1>3, <1>5 DEF FileOutbounds, SingboxOutbounds
  <2>2. File("http").network = "http" /\ File(LinkNetwork(u)).network = LinkNetwork(u)
    OBVIOUS
  <2> HIDE DEF File
  <2> QED BY <1>1, <1>5, <2>1, <2>2, LinkFacts DEF Faithful
<1> QED BY <1>4, <1>5 DEF Formats

\* The file of a user on Hysteria2.
LEMMA FilesOfHysteria2 ==
  ASSUME TypeOK, NEW u \in DOMAIN row, NEW format \in Formats,
         row[u].protocol = "hysteria2"
  PROVE  FileOutbounds(format, u) = {LinkDial(u)} <=> Faithful(format, u)
<1>1. LinkDial(u) = [protocol |-> "hysteria2", port |-> Hy2Port, network |-> "udp",
                     security |-> "tls", obfs |-> Hy2Obfs]
  BY LinkFacts, Hy2Assumption DEF LinkDial, LinkNetwork, LinkSecurity
<1>2. Entry(u) = [kind |-> "hysteria2", port |-> Port443, transport |-> "hysteria",
                  security |-> "none", obfs |-> FALSE]
  BY DEF Entry
<1>3. CASE format = "xray"
  BY <1>2, <1>3 DEF FileOutbounds, XrayOutbounds, Faithful
<1>4. CASE format = "singbox"
  <2>1. FileOutbounds(format, u) =
          {[protocol |-> "hysteria2", port |-> Port443, network |-> "udp",
            security |-> "none", obfs |-> FALSE]}
    BY <1>2, <1>4 DEF FileOutbounds, SingboxOutbounds, Outbound
  <2> QED BY <1>1, <1>4, <2>1 DEF Faithful
<1>5. CASE format = "clash"
  <2>1. FileOutbounds(format, u) =
          {[protocol |-> "hysteria2", port |-> Port443, network |-> "udp",
            security |-> "tls", obfs |-> FALSE]}
    BY <1>2, <1>5 DEF FileOutbounds, ClashOutbounds, Outbound
  <2>2. Port443 = Hy2Port <=> Hy2On443
    BY Hy2Assumption DEF Port443, Hy2Port
  <2>3. FileOutbounds(format, u) = {LinkDial(u)} <=> Port443 = Hy2Port /\ Hy2Obfs = FALSE
    <3> DEFINE Hysteria(port, obfs) ==
          [protocol |-> "hysteria2", port |-> port, network |-> "udp",
           security |-> "tls", obfs |-> obfs]
    <3>1. /\ FileOutbounds(format, u) = {Hysteria(Port443, FALSE)}
          /\ LinkDial(u) = Hysteria(Hy2Port, Hy2Obfs)
      BY <1>1, <2>1
    <3>2. \A p, o : Hysteria(p, o).port = p /\ Hysteria(p, o).obfs = o
      OBVIOUS
    <3> HIDE DEF Hysteria
    <3>3. Port443 = Hy2Port /\ Hy2Obfs = FALSE
            => Hysteria(Port443, FALSE) = Hysteria(Hy2Port, Hy2Obfs)
      OBVIOUS
    <3>4. Hysteria(Port443, FALSE) = Hysteria(Hy2Port, Hy2Obfs)
            => Port443 = Hy2Port /\ Hy2Obfs = FALSE
      <4>1. /\ Hysteria(Port443, FALSE).port = Port443
            /\ Hysteria(Hy2Port, Hy2Obfs).port = Hy2Port
        BY <3>2
      <4>2. /\ Hysteria(Port443, FALSE).obfs = FALSE
            /\ Hysteria(Hy2Port, Hy2Obfs).obfs = Hy2Obfs
        BY <3>2
      <4> QED BY <4>1, <4>2
    <3>5. FileOutbounds(format, u) = {LinkDial(u)}
            <=> Hysteria(Port443, FALSE) = Hysteria(Hy2Port, Hy2Obfs)
      BY <3>1
    <3> QED BY <3>3, <3>4, <3>5
  <2> QED BY <1>5, <2>2, <2>3, Hy2Assumption DEF Faithful
<1> QED BY <1>3, <1>4, <1>5 DEF Formats

\* Exactly these files agree with the links they are made from.
THEOREM FilesAgree == Spec => []ExactlyTheseFilesAgree
<1>1. TypeOK => ExactlyTheseFilesAgree
  BY FilesOfOthers, FilesOfHysteria2 DEF ExactlyTheseFilesAgree
<1> QED BY <1>1, TypeCorrect, PTL
-----------------------------------------------------------------------------
(* The links.                                                               *)

\* An inbound, by its fields.
Serves(i, port, public, protocol, network, header, clients) ==
  /\ i.port = port /\ i.public = public /\ i.protocol = protocol
  /\ i.network = network /\ i.header = header /\ i.clients = clients

\* The inbounds of the configuration, by their fields: behind nginx, ...
WsShape(i) == \E p \in {"vless", "vmess", "trojan"} :
  Enabled(p) # {} /\ Serves(i, WsPort(p), FALSE, p, "ws", Fallback # "off", Enabled(p))

\* These are the WebSocket inbounds.
LEMMA WsMembers ==
  /\ \A i \in WsInbounds : WsShape(i)
  /\ \A p \in {"vless", "vmess", "trojan"} : Enabled(p) # {}
        => \E i \in WsInbounds : i.port = WsPort(p)
<1> DEFINE One(p) == [port |-> WsPort(p), public |-> FALSE, protocol |-> p,
                   network |-> "ws", security |-> "none", header |-> Fallback # "off",
                   clients |-> Enabled(p)]
<1>1. \A i : i \in WsInbounds
      <=> \E p \in {"vless", "vmess", "trojan"} : Enabled(p) # {} /\ i = One(p)
  BY DEF WsInbounds, Inbounds
<1>2. \A p : Serves(One(p), WsPort(p), FALSE, p, "ws", Fallback # "off", Enabled(p))
  BY DEF Serves
<1> HIDE DEF One
<1>3. \A p : One(p).port = WsPort(p)
  BY <1>2 DEF Serves
<1>4. \A p \in {"vless", "vmess", "trojan"} : Enabled(p) # {} => One(p) \in WsInbounds
  BY <1>1
<1>5. \A i \in WsInbounds : WsShape(i)
  BY <1>1, <1>2, Zenon DEF WsShape
<1> QED BY <1>3, <1>4, <1>5

SharedShape(i) == \E n \in SharedNetworks, p \in {"vless", "vmess"} :
  Enabled(p) # {} /\ Serves(i, SharedPort(n), FALSE, p, n, FALSE, Enabled(p))

\* These are the inbounds of the networks that VLESS and VMess share.
LEMMA SharedMembers ==
  /\ \A i \in SharedInbounds : SharedShape(i)
  /\ \A n \in SharedNetworks, p \in {"vless", "vmess"} :
       Enabled(p) # {} => \E i \in SharedInbounds : i.port = SharedPort(n) /\ i.protocol = p
<1> DEFINE One(n, p) == [port |-> SharedPort(n), public |-> FALSE, protocol |-> p,
                         network |-> n, security |-> "none", header |-> FALSE,
                         clients |-> Enabled(p)]
           Part(n, p) == Inbounds(SharedPort(n), FALSE, p, n, "none", FALSE, Enabled(p))
<1>1. \A n, p, i : i \in Part(n, p) <=> Enabled(p) # {} /\ i = One(n, p)
  BY DEF Inbounds
<1>2. \A n, p : Serves(One(n, p), SharedPort(n), FALSE, p, n, FALSE, Enabled(p))
  BY DEF Serves
<1>3. SharedInbounds = UNION {Part(n, p) : n \in SharedNetworks, p \in {"vless", "vmess"}}
  BY DEF SharedInbounds
<1> HIDE DEF Part, One
<1>4. \A i : i \in SharedInbounds
      <=> \E n \in SharedNetworks, p \in {"vless", "vmess"} : i \in Part(n, p)
  BY <1>3
<1>5. \A i \in SharedInbounds : SharedShape(i)
  <2> SUFFICES ASSUME NEW i \in SharedInbounds PROVE SharedShape(i)
    OBVIOUS
  <2>1. PICK n \in SharedNetworks, p \in {"vless", "vmess"} : i \in Part(n, p)
    BY <1>4
  <2>2. Enabled(p) # {} /\ i = One(n, p)
    BY <1>1, <2>1
  <2>3. Serves(i, SharedPort(n), FALSE, p, n, FALSE, Enabled(p))
    BY <1>2, <2>2
  <2> QED BY <2>2, <2>3 DEF SharedShape
<1>6. \A n, p : One(n, p).port = SharedPort(n) /\ One(n, p).protocol = p
  BY <1>2 DEF Serves
<1>7. \A n \in SharedNetworks, p \in {"vless", "vmess"} : Enabled(p) # {}
      => One(n, p) \in SharedInbounds
  BY <1>1, <1>4, Zenon
<1> QED BY <1>5, <1>6, <1>7

\* ... and on every interface.
Public(i, port, protocol, network, security, clients) ==
  clients # {} /\ Serves(i, port, TRUE, protocol, network, FALSE, clients) /\ i.security = security

PlainShape(i) == \E p \in {"vless", "vmess"} :
   Public(i, RawPort(p, "none"), p, "tcp", "none", RawUsers(p, "none"))

TrojanUsers == UNION {RawUsers("trojan", s) : s \in Securities}

TlsShape(i) ==
  /\ site.tls
  /\ \/ Public(i, VlessTlsPort, "vless", "tcp", "tls", RawUsers("vless", "tls"))
     \/ Public(i, RawPort("vmess", "tls"), "vmess", "tcp", "tls", RawUsers("vmess", "tls"))
     \/ Public(i, RawPort("trojan", "tls"), "trojan", "tcp", "tls", TrojanUsers)
     \/ Public(i, Hy2Port, "hysteria2", "udp", "tls", Enabled("hysteria2"))

RealityShape(i) ==
      Public(i, RawPort("vless", "reality"), "vless", "tcp", "reality", RawUsers("vless", "reality"))

\* These are the raw TCP inbounds without TLS.
LEMMA PlainMembers ==
  /\ \A i \in PlainInbounds : PlainShape(i)
  /\ \A p \in {"vless", "vmess"} : RawUsers(p, "none") # {} =>
       \E i \in PlainInbounds : i.port = RawPort(p, "none") /\ i.public
<1> DEFINE One(p) == [port |-> RawPort(p, "none"), public |-> TRUE, protocol |-> p,
                   network |-> "tcp", security |-> "none", header |-> FALSE,
                   clients |-> RawUsers(p, "none")]
<1>1. \A i : i \in PlainInbounds
      <=> \E p \in {"vless", "vmess"} : RawUsers(p, "none") # {} /\ i = One(p)
  BY DEF PlainInbounds, Inbounds
<1>2. \A p : Serves(One(p), RawPort(p, "none"), TRUE, p, "tcp", FALSE, RawUsers(p, "none")) /\ One(p).security = "none"
  BY DEF Serves
<1> HIDE DEF One
<1>3. \A p : One(p).port = RawPort(p, "none") /\ One(p).public
  BY <1>2 DEF Serves
<1>4. \A p \in {"vless", "vmess"} : RawUsers(p, "none") # {} => One(p) \in PlainInbounds
  BY <1>1
<1>5. \A i \in PlainInbounds : PlainShape(i)
  BY <1>1, <1>2, Zenon DEF PlainShape, Public
<1> QED BY <1>3, <1>4, <1>5

\* There is one such inbound if it has clients.
LEMMA PublicMember ==
  ASSUME NEW port, NEW protocol, NEW network, NEW security, NEW clients
  PROVE  /\ \A i \in Inbounds(port, TRUE, protocol, network, security, FALSE, clients) : 
              Public(i, port, protocol, network, security, clients)
         /\ clients # {}
               => \E i \in Inbounds(port, TRUE, protocol, network, security, FALSE, clients) : i.port = port /\ i.public
<1> DEFINE one == [port |-> port, public |-> TRUE, protocol |-> protocol,
                   network |-> network, security |-> security, header |-> FALSE,
                   clients |-> clients]
<1>1. \A i : i \in Inbounds(port, TRUE, protocol, network, security, FALSE, clients)
      <=> clients # {} /\ i = one
  BY DEF Inbounds
<1>2. Serves(one, port, TRUE, protocol, network, FALSE, clients) /\ one.security = security
  BY DEF Serves
<1> HIDE DEF one
<1> QED BY <1>1, <1>2 DEF Public, Serves

\* These are the inbounds that need the certificate.
LEMMA TlsMembers ==
  /\ \A i \in TlsInbounds : TlsShape(i)
  /\ site.tls =>
       /\ RawUsers("vless", "tls") # {}
             => \E i \in TlsInbounds : i.port = VlessTlsPort /\ i.public
       /\ RawUsers("vmess", "tls") # {}
             => \E i \in TlsInbounds : i.port = RawPort("vmess", "tls") /\ i.public
       /\ TrojanUsers # {}
             => \E i \in TlsInbounds : i.port = RawPort("trojan", "tls") /\ i.public
       /\ Enabled("hysteria2") # {} => \E i \in TlsInbounds : i.port = Hy2Port /\ i.public
<1> DEFINE A == Inbounds(VlessTlsPort, TRUE, "vless", "tcp", "tls", FALSE, RawUsers("vless", "tls"))
           B == Inbounds(RawPort("vmess", "tls"), TRUE, "vmess", "tcp", "tls", FALSE, RawUsers("vmess", "tls"))
           C == Inbounds(RawPort("trojan", "tls"), TRUE, "trojan", "tcp", "tls", FALSE, TrojanUsers)
           D == Inbounds(Hy2Port, TRUE, "hysteria2", "udp", "tls", FALSE, Enabled("hysteria2"))
<1>1. \A i : i \in TlsInbounds <=> site.tls /\ (i \in A \/ i \in B \/ i \in C \/ i \in D)
  BY DEF TlsInbounds, TrojanUsers
<1>2. /\ \A i \in A : Public(i, VlessTlsPort, "vless", "tcp", "tls", RawUsers("vless", "tls"))
      /\ RawUsers("vless", "tls") # {} => \E i \in A : i.port = VlessTlsPort /\ i.public
  BY PublicMember, Zenon
<1>3. /\ \A i \in B : Public(i, RawPort("vmess", "tls"), "vmess", "tcp", "tls", RawUsers("vmess", "tls"))
      /\ RawUsers("vmess", "tls") # {}
            => \E i \in B : i.port = RawPort("vmess", "tls") /\ i.public
  BY PublicMember, Zenon
<1>4. /\ \A i \in C : Public(i, RawPort("trojan", "tls"), "trojan", "tcp", "tls", TrojanUsers)
      /\ TrojanUsers # {} => \E i \in C : i.port = RawPort("trojan", "tls") /\ i.public
  BY PublicMember, Zenon
<1>5. /\ \A i \in D : Public(i, Hy2Port, "hysteria2", "udp", "tls", Enabled("hysteria2"))
      /\ Enabled("hysteria2") # {} => \E i \in D : i.port = Hy2Port /\ i.public
  BY PublicMember, Zenon
<1> HIDE DEF A, B, C, D
<1>6. \A i \in TlsInbounds : TlsShape(i)
  BY <1>1, <1>2, <1>3, <1>4, <1>5, Zenon DEF TlsShape
<1> QED BY <1>1, <1>2, <1>3, <1>4, <1>5, <1>6

\* This is the Reality inbound.
LEMMA RealityMembers ==
  /\ \A i \in RealityInbounds : RealityShape(i)
  /\ RawUsers("vless", "reality") # {}
        => \E i \in RealityInbounds : i.port = RawPort("vless", "reality") /\ i.public
BY PublicMember, Zenon DEF RealityInbounds, RealityShape

\* Shadowsocks listens on the loopback interface only.
LEMMA SsMembers == \A i \in SsInbounds : i.port \in {SsPort, Ss2022Port} /\ i.public = FALSE
<1> DEFINE One(port, security, clients) == [port |-> port, public |-> FALSE, protocol |-> "shadowsocks",
                   network |-> "tcp", security |-> security, header |-> FALSE,
                   clients |-> clients]
<1>1. \A i \in SsInbounds : \/ i = One(SsPort, "legacy", SsUsers({"legacy"}))
                            \/ i = One(Ss2022Port, "2022", SsUsers(Methods2022))
  BY DEF SsInbounds, Inbounds
<1>2. \A port, security, clients : One(port, security, clients).port = port /\ One(port, security, clients).public = FALSE
  OBVIOUS
<1> HIDE DEF One
<1> QED BY <1>1, <1>2

\* The protocols with a path of nginx.
PathProtocols == {"vless", "vmess", "trojan"}

\* The words of the ports, which tell them apart.
LEMMA Words ==
  /\ \A p : WsPort(p)[1] = p /\ WsPort(p)[2] = "ws"
  /\ \A n : SharedPort(n)[1] = "any" /\ SharedPort(n)[2] = n
  /\ \A p, s : RawPort(p, s)[1] = p /\ RawPort(p, s)[2] = "tcp" /\ RawPort(p, s)[3] = s
  /\ FallbackPort[1] = "fallback" /\ FallbackPort[2] = "tcp"
  /\ SsPort[1] = "shadowsocks" /\ SsPort[2] = "tcp" /\ Ss2022Port[1] = "shadowsocks" /\ Ss2022Port[2] = "tcp"
  /\ Hy2Port[1] = "hysteria2" /\ Hy2Port[2] = "udp"
  /\ PublicPort[1] = "public" /\ PublicPort[2] = "tcp"
BY DEF WsPort, SharedPort, RawPort, FallbackPort, SsPort, Ss2022Port, Hy2Port, PublicPort

PublicShape(i) == PlainShape(i) \/ TlsShape(i) \/ RealityShape(i)

\* What an inbound of the configuration is.
LEMMA ConfigShapes ==
  \A i \in Config : \/ WsShape(i) \/ SharedShape(i)
                    \/ i.port \in {SsPort, Ss2022Port} /\ i.public = FALSE
                    \/ PublicShape(i)
BY WsMembers, SharedMembers, PlainMembers, TlsMembers, RealityMembers, SsMembers DEF Config, PublicShape

\* The port of an inbound on every interface.
LEMMA PublicWords ==
  ASSUME NEW i, PublicShape(i)
  PROVE  /\ i.public = TRUE /\ i.header = FALSE
         /\ i.port[2] \in {"tcp", "udp"} /\ i.port[1] \in PathProtocols \cup {"fallback", "hysteria2"}
BY Words DEF PublicShape, PlainShape, TlsShape, RealityShape, Public, Serves, VlessTlsPort, PathProtocols

\* What listens where nginx proxies a WebSocket path.
LEMMA AtWs ==
  ASSUME NEW p \in PathProtocols
  PROVE  /\ \A i \in Config : i.port = WsPort(p) =>
               Serves(i, WsPort(p), FALSE, p, "ws", Fallback # "off", Enabled(p))
         /\ Enabled(p) # {} => \E i \in Config : i.port = WsPort(p)
<1>1. ASSUME NEW i \in Config, i.port = WsPort(p)
      PROVE  Serves(i, WsPort(p), FALSE, p, "ws", Fallback # "off", Enabled(p))
  <2>1. i.port[1] = p /\ i.port[2] = "ws"
    BY <1>1, Words
  <2>2. CASE WsShape(i)
    <3>1. PICK q \in {"vless", "vmess", "trojan"} :
          Serves(i, WsPort(q), FALSE, q, "ws", Fallback # "off", Enabled(q))
      BY <2>2 DEF WsShape
    <3>2. i.port = WsPort(q)
      BY <3>1 DEF Serves
    <3>3. q = p
      BY <2>1, <3>2, Words
    <3> QED BY <3>1, <3>3
  <2>3. CASE SharedShape(i)
    <3>1. PICK n \in SharedNetworks : i.port = SharedPort(n)
      BY <2>3 DEF SharedShape, Serves
    <3> QED BY <2>1, <3>1, Words DEF SharedNetworks
  <2>4. CASE i.port \in {SsPort, Ss2022Port}
    BY <2>1, <2>4, Words
  <2>5. CASE PublicShape(i)
    BY <2>1, <2>5, PublicWords
  <2> QED BY <2>2, <2>3, <2>4, <2>5, ConfigShapes
<1>2. Enabled(p) # {} => \E i \in Config : i.port = WsPort(p)
  BY WsMembers DEF PathProtocols, Config
<1> QED BY <1>1, <1>2

\* What listens where nginx proxies the path or service of a shared network.
LEMMA AtShared ==
  ASSUME NEW n \in SharedNetworks
  PROVE  /\ \A i \in Config : i.port = SharedPort(n) =>
               \E p \in {"vless", "vmess"} :
                 Enabled(p) # {} /\ Serves(i, SharedPort(n), FALSE, p, n, FALSE, Enabled(p))
         /\ \A p \in {"vless", "vmess"} : Enabled(p) # {} =>
               \E i \in Config : i.port = SharedPort(n) /\ i.protocol = p
<1>1. ASSUME NEW i \in Config, i.port = SharedPort(n)
      PROVE  \E p \in {"vless", "vmess"} :
                 Enabled(p) # {} /\ Serves(i, SharedPort(n), FALSE, p, n, FALSE, Enabled(p))
  <2>1. i.port[1] = "any" /\ i.port[2] = n
    BY <1>1, Words
  <2>2. CASE WsShape(i)
    <3>1. PICK q \in {"vless", "vmess", "trojan"} : i.port = WsPort(q)
      BY <2>2 DEF WsShape, Serves
    <3> QED BY <2>1, <3>1, Words DEF SharedNetworks
  <2>3. CASE SharedShape(i)
    <3>1. PICK m \in SharedNetworks, p \in {"vless", "vmess"} :
          Enabled(p) # {} /\ Serves(i, SharedPort(m), FALSE, p, m, FALSE, Enabled(p))
      BY <2>3 DEF SharedShape
    <3>2. i.port = SharedPort(m)
      BY <3>1 DEF Serves
    <3>3. m = n
      BY <2>1, <3>2, Words
    <3> QED BY <3>1, <3>3
  <2>4. CASE i.port \in {SsPort, Ss2022Port}
    BY <2>1, <2>4, Words
  <2>5. CASE PublicShape(i)
    BY <2>1, <2>5, PublicWords DEF PathProtocols
  <2> QED BY <2>2, <2>3, <2>4, <2>5, ConfigShapes
<1>2. \A p \in {"vless", "vmess"} : Enabled(p) # {} =>
        \E i \in Config : i.port = SharedPort(n) /\ i.protocol = p
  BY SharedMembers DEF Config
<1> QED BY <1>1, <1>2

\* When ExactlyTheseLinksWork has the link lead to an inbound.
Works(u) == /\ row[u].protocol # "shadowsocks"
            /\ IF Direct(u) THEN ServedDirectly(u) ELSE ServedBehindProxy(u)

\* What listens on every interface.
LEMMA PublicShapes ==
  \A i \in Config : i.public => PublicShape(i)
BY ConfigShapes DEF WsShape, SharedShape, Serves

\* A link to another port than the public one is tried at that port.
LEMMA TriedDirectly ==
  ASSUME NEW u, LinkPort(u) # PublicPort
  PROVE  LinkWorks(u) <=>
           /\ \E i \in Config : i.port = LinkPort(u) /\ i.public
           /\ \A i \in Config : i.port = LinkPort(u) /\ i.public => Fits(i, u)
<1> DEFINE t == [port |-> LinkPort(u), public |-> TRUE, header |-> FALSE]
<1>1. Target(u) = {t}
  BY DEF Target
<1>2. t.port = LinkPort(u) /\ t.public = TRUE /\ t.header = FALSE
  OBVIOUS
<1> HIDE DEF t
<1>3. \A i : i \in Listening(t) <=> i \in Config /\ i.port = LinkPort(u) /\ i.public
  BY <1>2 DEF Listening
<1>4. \A i \in Config : i.public => i.header = FALSE
  BY PublicShapes, PublicWords
<1>5. LinkWorks(u) <=> /\ Listening(t) # {}
                       /\ \A i \in Listening(t) : i.header = t.header /\ Fits(i, u)
  BY <1>1 DEF LinkWorks
<1> QED BY <1>2, <1>3, <1>4, <1>5

\* Links of Shadowsocks lead nowhere.
LEMMA SsCase ==
  ASSUME NEW u, row[u].protocol = "shadowsocks"
  PROVE  LinkWorks(u) <=> Works(u)
<1>1. LinkPort(u) \in {SsPort, Ss2022Port}
  BY DEF LinkPort
<1>2. LinkPort(u)[1] = "shadowsocks"
  BY <1>1, Words
<1>3. LinkPort(u) # PublicPort
  BY <1>2, Words
<1>4. \A i \in Config : ~ (i.port = LinkPort(u) /\ i.public)
  BY <1>2, PublicShapes, PublicWords DEF PathProtocols
<1> QED BY <1>3, <1>4, TriedDirectly DEF Works

\* What listens at the port of Hysteria2.
LEMMA HyShape ==
  ASSUME NEW i, PublicShape(i), i.port = Hy2Port
  PROVE  site.tls /\ Public(i, Hy2Port, "hysteria2", "udp", "tls", Enabled("hysteria2"))
<1>1. i.port[2] = "udp"
  BY Words
<1>2. VlessTlsPort[2] = "tcp"
  BY Words DEF VlessTlsPort
<1>3. ~ PlainShape(i) /\ ~ RealityShape(i)
  BY <1>1, Words DEF PlainShape, RealityShape, Public, Serves
<1> QED BY <1>1, <1>2, <1>3, Words DEF PublicShape, TlsShape, Public, Serves

\* Links of Hysteria2.
LEMMA HyCase ==
  ASSUME NEW u \in DOMAIN row, row[u].protocol = "hysteria2"
  PROVE  LinkWorks(u) <=> Works(u)
<1>1. LinkPort(u) = Hy2Port /\ LinkNetwork(u) = "udp" /\ LinkSecurity(u) = "tls"
  BY DEF LinkPort, LinkNetwork, LinkSecurity
<1>2. Hy2Port # PublicPort
  BY Words
<1>3. \A i \in Config : i.port = Hy2Port /\ i.public =>
        site.tls /\ Public(i, Hy2Port, "hysteria2", "udp", "tls", Enabled("hysteria2"))
  BY PublicShapes, HyShape
<1>4. \A i \in Config : i.port = Hy2Port /\ i.public => (Fits(i, u) <=> row[u].enabled)
  BY <1>1, <1>3 DEF Fits, Public, Serves, Enabled
<1>5. site.tls /\ row[u].enabled => \E i \in Config : i.port = Hy2Port /\ i.public
  <2>1. row[u].enabled => Enabled("hysteria2") # {}
    BY DEF Enabled
  <2> QED BY <2>1, TlsMembers DEF Config
<1>6. Works(u) <=> site.tls /\ row[u].enabled
  BY <1>1 DEF Works, Direct, ServedDirectly, Raw
<1> QED BY <1>1, <1>2, <1>3, <1>4, <1>5, <1>6, TriedDirectly

\* Words of a servable row on a network of the public port.
LEMMA Proxied ==
  ASSUME TypeOK, NEW u \in DOMAIN row, Normal(row[u]),
         row[u].protocol \in PathProtocols, row[u].transport # "tcp"
  PROVE  /\ row[u].transport \in Served(row[u].protocol)
         /\ LinkPort(u) = PublicPort /\ LinkNetwork(u) = row[u].transport
         /\ Works(u) <=> ServedBehindProxy(u)
<1>1. row[u] \in Row
  BY DEF TypeOK, Rows
<1>2. row[u].transport \in Served(row[u].protocol)
  BY DEF Normal, NormalTransport, Served, PathProtocols, Transports
<1>3. row[u].security # "reality"
  BY <1>2 DEF Normal, NormalSecurity, NormalTransport, PathProtocols
<1>4. LinkTransport(u) = row[u].transport
  BY <1>2 DEF LinkTransport, Served, PathProtocols, Transports
<1>5. LinkNetwork(u) = row[u].transport
  BY <1>3, <1>4 DEF LinkNetwork, PathProtocols
<1>6. LinkPort(u) = PublicPort
  BY DEF LinkPort, PathProtocols
<1>7. Works(u) <=> ServedBehindProxy(u)
  BY DEF Works, Direct, Raw, PathProtocols
<1> QED BY <1>2, <1>5, <1>6, <1>7

\* Where a link to the public port is tried.
LEMMA TriedBehindProxy ==
  ASSUME NEW u, LinkPort(u) = PublicPort, LinkSecurity(u) \in Spoken,
         Fallback = "edge" => RawUsers("vless", "tls") # {} /\ LinkNetwork(u) = "ws"
  PROVE  LinkWorks(u) <=>
           /\ \E i \in Config : i.port = PathPort(u)
           /\ \A i \in Config : i.port = PathPort(u) =>
                i.header = (Fallback = "edge") /\ Fits(i, u)
<1> DEFINE t == [port |-> PathPort(u), public |-> FALSE, header |-> Fallback = "edge"]
<1>1. Target(u) = {t}
  BY DEF Target
<1>2. t.port = PathPort(u) /\ t.public = FALSE /\ t.header = (Fallback = "edge")
  OBVIOUS
<1> HIDE DEF t
<1>3. \A i : i \in Listening(t) <=> i \in Config /\ i.port = PathPort(u)
  BY <1>2 DEF Listening
<1>4. LinkWorks(u) <=> /\ Listening(t) # {}
                       /\ \A i \in Listening(t) : i.header = t.header /\ Fits(i, u)
  BY <1>1 DEF LinkWorks
<1> QED BY <1>2, <1>3, <1>4

\* Nothing is spoken to the public port but what is understood there, and there
\* is nothing behind the fallback inbound but WebSocket.
LEMMA NotTried ==
  ASSUME NEW u, LinkPort(u) = PublicPort,
         \/ LinkSecurity(u) \notin Spoken
         \/ Fallback = "edge" /\ (RawUsers("vless", "tls") = {} \/ LinkNetwork(u) # "ws")
  PROVE  ~ LinkWorks(u)
BY DEF LinkWorks, Target

\* Links over WebSocket.
LEMMA WsCase ==
  ASSUME TypeOK, NEW u \in DOMAIN row, Normal(row[u]),
         row[u].protocol \in PathProtocols, row[u].transport = "ws"
  PROVE  LinkWorks(u) <=> Works(u)
<1>1. LinkPort(u) = PublicPort /\ LinkNetwork(u) = "ws" /\ (Works(u) <=> ServedBehindProxy(u))
  BY Proxied
<1>2. PathPort(u) = WsPort(row[u].protocol)
  BY <1>1 DEF PathPort
<1>3. CASE \/ LinkSecurity(u) \notin Spoken
           \/ Fallback = "edge" /\ RawUsers("vless", "tls") = {}
  BY <1>1, <1>3, NotTried DEF ServedBehindProxy
<1>4. CASE /\ LinkSecurity(u) \in Spoken
           /\ ~ (Fallback = "edge" /\ RawUsers("vless", "tls") = {})
  <2>1. LinkWorks(u) <=>
           /\ \E i \in Config : i.port = PathPort(u)
           /\ \A i \in Config : i.port = PathPort(u) =>
                i.header = (Fallback = "edge") /\ Fits(i, u)
    BY <1>1, <1>4, TriedBehindProxy
  <2>2. \A i \in Config : i.port = PathPort(u) =>
          /\ i.header = (Fallback # "off")
          /\ Fits(i, u) <=> row[u].enabled
    <3>1. \A i \in Config : i.port = PathPort(u) =>
            Serves(i, WsPort(row[u].protocol), FALSE, row[u].protocol, "ws", Fallback # "off",
                   Enabled(row[u].protocol))
      BY <1>2, AtWs
    <3> QED BY <1>1, <3>1 DEF Serves, Fits, Enabled
  <2>3. row[u].enabled => \E i \in Config : i.port = PathPort(u)
    <3>1. row[u].enabled => Enabled(row[u].protocol) # {}
      BY DEF Enabled
    <3> QED BY <1>2, <3>1, AtWs
  <2>4. (Fallback # "off") = (Fallback = "edge") <=> Fallback = "off" \/ Fallback = "edge"
    OBVIOUS
  <2>5. Works(u) <=> row[u].enabled /\ (Fallback = "off" \/ Fallback = "edge")
    <3>1. row[u].transport = "ws"
      OBVIOUS
    <3> QED BY <1>1, <1>4, <3>1 DEF ServedBehindProxy
  <2> QED BY <2>1, <2>2, <2>3, <2>4, <2>5
<1> QED BY <1>3, <1>4

\* Links over XHTTP, HTTPUpgrade and gRPC.
LEMMA SharedCase ==
  ASSUME TypeOK, NEW u \in DOMAIN row, Normal(row[u]),
         row[u].protocol \in PathProtocols, row[u].transport \notin {"tcp", "ws"}
  PROVE  LinkWorks(u) <=> Works(u)
<1> DEFINE n == row[u].transport
<1>1. /\ LinkPort(u) = PublicPort /\ LinkNetwork(u) = n
      /\ Works(u) <=> ServedBehindProxy(u)
      /\ n \in Served(row[u].protocol)
  BY Proxied
<1>2. n \in SharedNetworks /\ row[u].protocol \in {"vless", "vmess"}
  BY <1>1 DEF Served, SharedNetworks, PathProtocols, Transports
<1>3. PathPort(u) = SharedPort(n)
  BY <1>1 DEF PathPort
<1>4. CASE LinkSecurity(u) \notin Spoken \/ Fallback = "edge"
  <2>1. n # "ws"
    OBVIOUS
  <2> QED BY <1>1, <1>4, <2>1, NotTried DEF ServedBehindProxy
<1>5. CASE LinkSecurity(u) \in Spoken /\ Fallback # "edge"
  <2>1. LinkWorks(u) <=>
           /\ \E i \in Config : i.port = PathPort(u)
           /\ \A i \in Config : i.port = PathPort(u) => i.header = FALSE /\ Fits(i, u)
    BY <1>1, <1>5, TriedBehindProxy
  <2>2. \A i \in Config : i.port = PathPort(u) =>
          /\ i.header = FALSE
          /\ Fits(i, u) <=> row[u].enabled /\ i.protocol = row[u].protocol
    <3>1. \A i \in Config : i.port = PathPort(u) =>
            \E p \in {"vless", "vmess"} :
              Enabled(p) # {} /\ Serves(i, SharedPort(n), FALSE, p, n, FALSE, Enabled(p))
      BY <1>2, <1>3, AtShared
    <3> QED BY <1>1, <3>1 DEF Serves, Fits, Enabled
  <2>3. \A p \in {"vless", "vmess"} :
          Enabled(p) # {} => \E i \in Config : i.port = PathPort(u) /\ i.protocol = p
    BY <1>2, <1>3, AtShared
  <2>4. \A i \in Config : i.port = PathPort(u) =>
          i.protocol \in {"vless", "vmess"} /\ Enabled(i.protocol) # {}
    <3>1. ASSUME NEW i \in Config, i.port = PathPort(u)
          PROVE  i.protocol \in {"vless", "vmess"} /\ Enabled(i.protocol) # {}
      <4>1. PICK p \in {"vless", "vmess"} :
              Enabled(p) # {} /\ Serves(i, SharedPort(n), FALSE, p, n, FALSE, Enabled(p))
        BY <1>2, <1>3, <3>1, AtShared
      <4>2. i.protocol = p
        BY <4>1 DEF Serves
      <4> QED BY <4>1, <4>2
    <3> QED BY <3>1
  <2>5. row[u].enabled => Enabled(row[u].protocol) # {}
    BY DEF Enabled
  <2>6. Works(u) <=> row[u].enabled /\ (Enabled("vless") = {} \/ Enabled("vmess") = {})
    BY <1>1, <1>5 DEF ServedBehindProxy
  <2> QED BY <1>2, <2>1, <2>2, <2>3, <2>4, <2>5, <2>6
<1> QED BY <1>4, <1>5

\* An inbound for raw TCP that a client reaches at this port.
LEMMA RawShape ==
  ASSUME NEW i, PublicShape(i), NEW p \in PathProtocols, NEW s \in Securities,
         i.port = RawPort(p, s)
  PROVE  /\ s = "tls" => site.tls
         /\ p = "trojan" => Public(i, RawPort(p, s), p, "tcp", s, TrojanUsers)
         /\ p # "trojan" => Public(i, RawPort(p, s), p, "tcp", s, RawUsers(p, s))
<1>1. i.port[1] = p /\ i.port[2] = "tcp" /\ i.port[3] = s
  BY Words
<1>2. CASE PlainShape(i)
  <2>1. PICK q \in {"vless", "vmess"} :
        Public(i, RawPort(q, "none"), q, "tcp", "none", RawUsers(q, "none"))
    BY <1>2 DEF PlainShape
  <2>2. i.port = RawPort(q, "none")
    BY <2>1 DEF Public, Serves
  <2>3. q = p /\ s = "none"
    BY <1>1, <2>2, Words
  <2> QED BY <2>1, <2>3
<1>3. CASE RealityShape(i)
  <2>1. i.port = RawPort("vless", "reality")
    BY <1>3 DEF RealityShape, Public, Serves
  <2>2. p = "vless" /\ s = "reality"
    BY <1>1, <2>1, Words
  <2> QED BY <1>3, <2>2 DEF RealityShape
<1>4. CASE site.tls /\ Public(i, VlessTlsPort, "vless", "tcp", "tls", RawUsers("vless", "tls"))
  <2>1. i.port = VlessTlsPort
    BY <1>4 DEF Public, Serves
  <2>2. VlessTlsPort # FallbackPort
    BY <1>1, <2>1, Words DEF PathProtocols
  <2>3. VlessTlsPort = RawPort("vless", "tls")
    BY <2>2 DEF VlessTlsPort
  <2>4. p = "vless" /\ s = "tls"
    BY <1>1, <2>1, <2>3, Words
  <2> QED BY <1>4, <2>3, <2>4
<1>5. CASE site.tls /\ Public(i, RawPort("vmess", "tls"), "vmess", "tcp", "tls", RawUsers("vmess", "tls"))
  <2>1. i.port = RawPort("vmess", "tls")
    BY <1>5 DEF Public, Serves
  <2>2. p = "vmess" /\ s = "tls"
    BY <1>1, <2>1, Words
  <2> QED BY <1>5, <2>2
<1>6. CASE site.tls /\ Public(i, RawPort("trojan", "tls"), "trojan", "tcp", "tls", TrojanUsers)
  <2>1. i.port = RawPort("trojan", "tls")
    BY <1>6 DEF Public, Serves
  <2>2. p = "trojan" /\ s = "tls"
    BY <1>1, <2>1, Words
  <2> QED BY <1>6, <2>2
<1>7. CASE site.tls /\ Public(i, Hy2Port, "hysteria2", "udp", "tls", Enabled("hysteria2"))
  <2>1. i.port = Hy2Port
    BY <1>7 DEF Public, Serves
  <2> QED BY <1>1, <2>1, Words
<1> QED BY <1>2, <1>3, <1>4, <1>5, <1>6, <1>7 DEF PublicShape, TlsShape

\* ... and the one at the fallback port.
LEMMA FallbackShape ==
  ASSUME NEW i, PublicShape(i), i.port = FallbackPort
  PROVE  site.tls /\ Public(i, FallbackPort, "vless", "tcp", "tls", RawUsers("vless", "tls"))
<1>1. i.port[1] = "fallback"
  BY Words
<1>2. ~ PlainShape(i) /\ ~ RealityShape(i)
  BY <1>1, Words DEF PlainShape, RealityShape, Public, Serves
<1> QED BY <1>1, <1>2, Words DEF PublicShape, TlsShape, Public, Serves

\* The link of a servable row on raw TCP names the port of its security.
LEMMA RawLink ==
  ASSUME TypeOK, NEW u \in DOMAIN row, Normal(row[u]),
         row[u].protocol \in PathProtocols, row[u].transport = "tcp"
  PROVE  /\ row[u].security \in Securities
         /\ row[u].protocol = "vmess" => row[u].security # "reality"
         /\ row[u].protocol = "trojan" => row[u].security = "tls"
         /\ LinkNetwork(u) = "tcp" /\ LinkSecurity(u) = row[u].security
         /\ LinkPort(u) = IF row[u].protocol = "vless" /\ row[u].security = "tls" /\ Fallback # "off"
                          THEN FallbackPort ELSE RawPort(row[u].protocol, row[u].security)
<1>1. row[u] \in Row
  BY DEF TypeOK, Rows
<1>2. row[u].security \in Securities
  BY <1>1 DEF Row
<1>3. /\ row[u].protocol = "vmess" => row[u].security # "reality"
      /\ row[u].protocol = "trojan" => row[u].security = "tls"
  BY DEF Normal, NormalSecurity
<1>4. LinkNetwork(u) = "tcp"
  BY DEF LinkNetwork, LinkTransport, Served, PathProtocols, Transports
<1>5. LinkSecurity(u) = row[u].security
  BY <1>3 DEF LinkSecurity, PathProtocols
<1>6. LinkPort(u) = IF row[u].protocol = "vless" /\ row[u].security = "tls" /\ Fallback # "off"
                    THEN FallbackPort ELSE RawPort(row[u].protocol, row[u].security)
  BY <1>2, <1>3 DEF LinkPort, TcpPort, PathProtocols, Securities
<1> QED BY <1>2, <1>3, <1>4, <1>5, <1>6

\* Links over raw TCP.
LEMMA RawCase ==
  ASSUME TypeOK, NEW u \in DOMAIN row, Normal(row[u]),
         row[u].protocol \in PathProtocols, row[u].transport = "tcp"
  PROVE  LinkWorks(u) <=> Works(u)
<1> DEFINE p == row[u].protocol
           s == row[u].security
           all == IF p = "trojan" THEN TrojanUsers ELSE RawUsers(p, s)
<1>1. LinkPort(u) # PublicPort
  <2>1. LinkPort(u)[1] \in PathProtocols \cup {"fallback"}
    BY RawLink, Words
  <2> QED BY <2>1, Words DEF PathProtocols
<1>2. u \in RawUsers(p, s) /\ u \in all
  BY RawLink DEF RawUsers, TrojanUsers
<1>3. \A i \in Config : i.port = LinkPort(u) /\ i.public =>
        (s = "tls" => site.tls) /\ Public(i, LinkPort(u), p, "tcp", s, all)
  <2> SUFFICES ASSUME NEW i \in Config, i.port = LinkPort(u), i.public
               PROVE  (s = "tls" => site.tls) /\ Public(i, LinkPort(u), p, "tcp", s, all)
    OBVIOUS
  <2>1. PublicShape(i)
    BY PublicShapes
  <2>2. CASE p = "vless" /\ s = "tls" /\ Fallback # "off"
    BY <2>1, <2>2, RawLink, FallbackShape
  <2>3. CASE ~ (p = "vless" /\ s = "tls" /\ Fallback # "off")
    <3>1. LinkPort(u) = RawPort(p, s) /\ s \in Securities
      BY <2>3, RawLink
    <3> QED BY <2>1, <3>1, RawShape
  <2> QED BY <2>2, <2>3
<1>4. \A i \in Config : i.port = LinkPort(u) /\ i.public => Fits(i, u)
  BY <1>2, <1>3, RawLink DEF Fits, Public, Serves
<1>5. (s = "tls" => site.tls) => \E i \in Config : i.port = LinkPort(u) /\ i.public
  <2> SUFFICES ASSUME s = "tls" => site.tls
               PROVE  \E i \in Config : i.port = LinkPort(u) /\ i.public
    OBVIOUS
  <2>1. RawUsers(p, s) # {} /\ all # {}
    BY <1>2
  <2>2. s = "none" \/ s = "tls" \/ s = "reality"
    BY RawLink DEF Securities
  <2>3. CASE s = "none"
    <3>1. p \in {"vless", "vmess"} /\ LinkPort(u) = RawPort(p, "none")
      BY <2>3, RawLink DEF PathProtocols
    <3> QED BY <2>1, <2>3, <3>1, PlainMembers DEF Config
  <2>4. CASE s = "reality"
    <3>1. p = "vless" /\ LinkPort(u) = RawPort("vless", "reality")
      BY <2>4, RawLink DEF PathProtocols
    <3> QED BY <2>1, <2>4, <3>1, RealityMembers DEF Config
  <2>5. CASE s = "tls"
    <3>1. \/ p = "vless" /\ LinkPort(u) = VlessTlsPort
          \/ p = "vmess" /\ LinkPort(u) = RawPort("vmess", "tls")
          \/ p = "trojan" /\ LinkPort(u) = RawPort("trojan", "tls") /\ TrojanUsers # {}
      BY <2>1, <2>5, RawLink DEF PathProtocols, VlessTlsPort
    <3> QED BY <2>1, <2>5, <3>1, TlsMembers DEF Config
  <2> QED BY <2>2, <2>3, <2>4, <2>5
<1>6. Works(u) <=> (s = "tls" => site.tls)
  BY RawLink DEF Works, Direct, Raw, ServedDirectly, PathProtocols
<1> QED BY <1>1, <1>3, <1>4, <1>5, <1>6, TriedDirectly

\* The cases together.
LEMMA LinksWorkAsStated == TypeOK => ExactlyTheseLinksWork
<1> SUFFICES ASSUME TypeOK, NEW u \in DOMAIN row, Normal(row[u])
             PROVE  LinkWorks(u) <=> Works(u)
  BY DEF ExactlyTheseLinksWork, Works
<1>1. row[u].protocol \in Protocols
  BY DEF TypeOK, Rows, Row
<1> QED BY <1>1, SsCase, HyCase, RawCase, WsCase, SharedCase DEF Protocols, PathProtocols

\* In every environment and whatever is written into the rows, exactly the
\* stated links of servable rows lead to an inbound that serves the user.
THEOREM LinksWork == Spec => []ExactlyTheseLinksWork
BY TypeCorrect, LinksWorkAsStated, PTL
=============================================================================
