--------------------------- MODULE MCLinkInbounds ---------------------------
(* LinkInbounds with two users.  Creation names every transport, requests  *)
(* that overlap name few of them.                                          *)
EXTENDS ClientConfigs, TLC
CONSTANTS u1, u2, q1, q2
MCTwo == {u1, u2}
MCTwoRequests == {q1, q2}
MCSymmetry == Permutations(MCTwo) \cup Permutations(MCTwoRequests)

\* Without a certificate there is no fallback, whatever is configured.
MCSites ==
  {[tls |-> TRUE, fallback |-> "off", front |-> {"tls"}],
   [tls |-> TRUE, fallback |-> "apart", front |-> {"none"}],
   [tls |-> TRUE, fallback |-> "edge", front |-> {"tls", "none"}],
   [tls |-> FALSE, fallback |-> "edge", front |-> {"tls", "none"}]}
MCDefaults == {"ws", "tcp"}

Fill(P, T, S, M) == [protocol : P, transport : T, security : S, method : M]

\* What the form may say for the protocols without Shadowsocks, with every
\* transport and an unknown word for either, and a form for Shadowsocks.
MCAll == Fill(Protocols \ {"shadowsocks"}, Transports \cup {"kcp"},
              Securities \cup {"xtls"}, {"legacy"})
MCShadowsocks == Fill({"shadowsocks"}, {"ws"}, {"tls"}, Methods)
MCChoices == MCAll \cup MCShadowsocks
MCFew == Fill({"vless", "vmess", "trojan", "hysteria2"}, {"ws", "grpc", "tcp"},
              {"tls", "reality"}, {"legacy"})
         \cup Fill({"vless"}, {"tcp"}, {"none", "xtls"}, {"legacy"})
         \cup Fill({"vless", "vmess"}, {"xhttp", "httpupgrade"}, {"tls"}, {"legacy"})
         \cup Fill({"shadowsocks"}, {"ws"}, {"tls"}, {"legacy", "2022-128"})

Body(has, c) == [has |-> has, protocol |-> c.protocol, transport |-> c.transport,
                 security |-> c.security, method |-> c.method]

\* The form of the panel sends all columns, other clients of the API some.
MCForms == {Body(Columns, c) : c \in MCFew}
MCParts ==
  {Body({"protocol"}, c) : c \in Fill(Protocols, {"ws"}, {"tls"}, {"legacy"})}
  \cup {Body({"transport"}, c) : c \in Fill({"vless"}, {"ws", "grpc", "tcp"}, {"tls"}, {"legacy"})}
  \cup {Body({"security"}, c) : c \in Fill({"vless"}, {"ws"}, {"none", "reality"}, {"legacy"})}
  \cup {Body({"ss_method"}, c) : c \in Fill({"vless"}, {"ws"}, {"tls"}, {"2022-128"})}
MCBodies == MCForms \cup MCParts
=============================================================================
