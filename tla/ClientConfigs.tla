---------------------------- MODULE ClientConfigs ----------------------------
(***************************************************************************)
(* The configuration files for client apps (app/subfmt.py), as             *)
(* /sub/<uid>/xray.json, singbox.json and clash.yaml hand them out.  They  *)
(* are made from the links of LinkInbounds: a link is parsed into an       *)
(* entry, and the entry is rendered in the words of the app.               *)
(*                                                                         *)
(* Data abstracted: of a link, an entry and an outbound is kept what       *)
(* decides where a client connects and how it begins to speak; credential, *)
(* host, path, SNI, Reality key and short id are copied from the link by   *)
(* every renderer, and are left out with the tuning of the client, the     *)
(* routes and the text of the file.                                        *)
(***************************************************************************)
EXTENDS LinkInbounds

Formats == {"xray", "singbox", "clash"}

\* What else the environment says of Hysteria2.
CONSTANTS
  Hy2On443,   \* its port is 443
  Hy2Obfs     \* there is a password for obfuscation

ASSUME Hy2Assumption == Hy2On443 \in BOOLEAN /\ Hy2Obfs \in BOOLEAN

\* What a client learns from the link itself.
LinkDial(u) ==
  [protocol |-> row[u].protocol, port |-> LinkPort(u), network |-> LinkNetwork(u),
   security |-> LinkSecurity(u),
   obfs |-> row[u].protocol = "hysteria2" /\ Hy2Obfs]

\* The port _port falls back to when there is no number at the end.
Port443 == IF Hy2On443 THEN Hy2Port ELSE <<"443", "udp", "none">>

\* Faulty: the transport of a link without `type` is WebSocket.
EntryOverWs(u) ==
  IF row[u].protocol = "hysteria2"
  THEN [kind |-> "hysteria2", port |-> Port443, transport |-> "hysteria",
        security |-> "none", obfs |-> FALSE]
  ELSE [kind |-> row[u].protocol, port |-> LinkPort(u),
        transport |-> IF row[u].protocol = "trojan" THEN "ws" ELSE LinkNetwork(u),
        security |-> LinkSecurity(u), obfs |-> FALSE]

\* parse_link.  In the link of Hysteria2 a slash follows the port, there is no
\* word for security, and the password for obfuscation has another name.
Entry(u) ==
  IF row[u].protocol = "hysteria2"
  THEN [kind |-> "hysteria2", port |-> Port443, transport |-> "hysteria",
        security |-> "none", obfs |-> FALSE]
  ELSE [kind |-> row[u].protocol, port |-> LinkPort(u), transport |-> LinkNetwork(u),
        security |-> LinkSecurity(u), obfs |-> FALSE]

Outbound(e, network, security) ==
  [protocol |-> e.kind, port |-> e.port, network |-> network,
   security |-> security, obfs |-> e.obfs]

\* xray_config has no outbound for Hysteria2.
XrayOutbounds(e) ==
  IF e.kind = "hysteria2" THEN {} ELSE {Outbound(e, e.transport, e.security)}

\* singbox_config knows one transport over HTTP, and TLS where the entry says so.
SingboxOutbounds(e) ==
  {Outbound(e, CASE e.kind = "hysteria2" -> "udp"
                 [] e.transport \in {"xhttp", "httpupgrade"} -> "http"
                 [] OTHER -> e.transport,
            e.security)}

\* clash_dict knows that Hysteria2 is always TLS.
ClashOutbounds(e) ==
  {IF e.kind = "hysteria2" THEN Outbound(e, "udp", "tls")
   ELSE Outbound(e, e.transport, e.security)}

\* render: the outbounds of a user in a file.
FileOutbounds(format, u) ==
  LET e == Entry(u) IN
  CASE format = "xray" -> XrayOutbounds(e)
    [] format = "singbox" -> SingboxOutbounds(e)
    [] format = "clash" -> ClashOutbounds(e)

(***************************************************************************)
(* subfmt.py:8, "a config file that disagrees with the link is worse than  *)
(* no config file", made exact: which files say the same as the link.  All *)
(* do, but for Hysteria2, where Clash's does as long as the port is 443    *)
(* and nothing is obfuscated, and for XHTTP and HTTPUpgrade in sing-box's. *)
(***************************************************************************)
Faithful(format, u) ==
  IF row[u].protocol = "hysteria2"
  THEN format = "clash" /\ Hy2On443 /\ ~Hy2Obfs
  ELSE format = "singbox" => LinkNetwork(u) \notin {"xhttp", "httpupgrade"}

ExactlyTheseFilesAgree ==
  \A u \in DOMAIN row, format \in Formats :
    FileOutbounds(format, u) = {LinkDial(u)} <=> Faithful(format, u)
=============================================================================
