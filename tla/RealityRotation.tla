-------------------------- MODULE RealityRotation --------------------------
(***************************************************************************)
(* Rotation of the REALITY short ids and server names: app/reality.py      *)
(* (rotate_short_id, rotate_sni, accepted_*, apply_reality_config), the    *)
(* handlers api_reality_rotate and api_set_settings of app/main.py, and    *)
(* what the push to a node carries of it (app/nodes.py).                   *)
(*                                                                         *)
(* A link holds the short id and the server name that were published when  *)
(* it was handed out; it works as long as the Xray process of its user's   *)
(* panel accepts both.                                                     *)
(*                                                                         *)
(* Data abstracted: short ids are numbered in the order they are minted,   *)
(* the first comes with the key pair; server names are numbers, ordered as *)
(* the strings are.  Users with a short id of their own are left out.      *)
(***************************************************************************)
EXTENDS Naturals, Sequences, FiniteSets, SequencesExt

CONSTANTS
  Main,       \* the main panel
  Remotes,    \* the remote nodes
  Names,      \* server names the administrator may choose
  Default,    \* config.REALITY_SNI, the same everywhere
  Counts,     \* how many short ids the administrator asks for at once
  Ways,       \* what the administrator does, see the actions
  MaxMinted   \* bound on the short ids minted

ASSUME MainAssumption == Main \notin Remotes
ASSUME NamesAssumption == Names \subseteq Nat \ {0} /\ Default \in Names
ASSUME CountsAssumption == Counts \subseteq 1..8 /\ MaxMinted \in Nat

Panels == {Main} \cup Remotes
MaxKept == 12    \* _set_meta_list keeps this many values

VARIABLES
  minted,      \* number of the newest short id
  sid,         \* meta reality_sid
  sids,        \* meta reality_sids
  publishedSid,\* setting reality_sid, the one links are built with
  sni,         \* setting reality_sni, likewise
  snis,        \* meta reality_snis
  accepts,     \* what each running Xray accepts
  saved,       \* the link a subscriber of each panel holds, if any
  spoilt       \* history: since the main panel's link was fetched, a rotation
               \* without grace, or the settings form

metaVars == <<minted, sid, sids, publishedSid, sni, snis>>
rotationVars == <<metaVars, accepts, saved, spoilt>>

TypedSid == MaxMinted + 1   \* an id the administrator typed in
Sids == 0..TypedSid
Links == [sid : Sids, sni : Names]

RotationTypeOK ==
  /\ minted \in 0..MaxMinted /\ sid \in Sids /\ publishedSid \in Sids
  /\ sids \in Seq(Sids) /\ Len(sids) <= MaxKept /\ IsInjective(sids)
  /\ sni \in Names
  /\ snis \in Seq(Names) /\ Len(snis) <= MaxKept /\ IsInjective(snis)
  /\ accepts \in [Panels -> [sids : SUBSET Sids, snis : SUBSET Names]]
  /\ saved \in [Panels -> SUBSET Links]
  /\ spoilt \in BOOLEAN

-----------------------------------------------------------------------------
(* The lists.                                                              *)

\* Faulty: nothing is ever dropped.
KeepAll(values) == values

\* _set_meta_list.
Keep(values) ==
  IF Len(values) > MaxKept
  THEN SubSeq(values, Len(values) - MaxKept + 1, Len(values))
  ELSE values

\* The value is appended unless it is listed.
AppendNew(values, v) == IF v \in ToSet(values) THEN values ELSE Append(values, v)

\* The values without v: no value is listed twice.
Without(values, v) ==
  IF v \in ToSet(values)
  THEN RemoveAt(values, CHOOSE i \in DOMAIN values : values[i] = v)
  ELSE values

\* accepted_short_ids.
AcceptedSids(list, current) == AppendNew(list, current)

\* accepted_server_names: the default and the current name follow in order.
AcceptedNames(list, current) ==
  IF Default < current
  THEN AppendNew(AppendNew(list, Default), current)
  ELSE AppendNew(AppendNew(list, current), Default)

\* What generate_xray_config writes into the inbound.
Accepting(list, current, names, name) ==
  [sids |-> ToSet(AcceptedSids(list, current)),
   snis |-> ToSet(AcceptedNames(names, name))]

\* A panel that has generated its keys, and nodes that were pushed to.
RotationInit ==
  /\ minted = 0 /\ sid = 0 /\ publishedSid = 0
  /\ sids = <<>>
  /\ sni = Default
  /\ snis = <<>>
  /\ accepts = [p \in Panels |-> Accepting(<<>>, 0, <<>>, Default)]
  /\ saved = [p \in Panels |-> {}]
  /\ spoilt = FALSE

-----------------------------------------------------------------------------
(* The administrator.                                                      *)

\* Faulty: what was accepted is not carried over.
RotateShortIdForgets(n, grace) ==
  LET new == [i \in 1..n |-> minted + i]
  IN /\ minted + n <= MaxMinted
     /\ minted' = minted + n
     /\ sid' = new[1]
     /\ publishedSid' = new[1]
     /\ sids' = Keep(Without(sids, new[1]) \o new)

\* rotate_short_id: the first of the new ids is published.
RotateShortId(n, grace) ==
  LET new == [i \in 1..n |-> minted + i]
      old == IF grace THEN AcceptedSids(sids, sid) ELSE <<>>
  IN /\ minted + n <= MaxMinted
     /\ minted' = minted + n
     /\ sid' = new[1]
     /\ publishedSid' = new[1]
     /\ sids' = Keep(Without(old, new[1]) \o new)

\* rotate_sni.
RotateSni(name, grace) ==
  LET old == IF grace THEN AcceptedNames(snis, sni) ELSE <<>>
  IN /\ sni' = name
     /\ snis' = Keep(Append(Without(old, name), name))

\* Faulty: the handler forgets to reload.
ReloadForgotten == UNCHANGED accepts

\* The handler's own reload, with the values it has just stored.
ReloadMain ==
  accepts' = [accepts EXCEPT ![Main] = Accepting(sids', sid', snis', sni')]

NoName == 0

\* api_reality_rotate, of short ids, of the server name or of both.
Rotate(n, name, grace) ==
  /\ IF grace THEN "grace" \in Ways ELSE "no grace" \in Ways
  /\ n # 0 \/ name # NoName
  /\ IF n # 0 THEN RotateShortId(n, grace)
              ELSE UNCHANGED <<minted, sid, sids, publishedSid>>
  /\ IF name # NoName THEN RotateSni(name, grace)
                      ELSE UNCHANGED <<sni, snis>>
  /\ ReloadMain
  /\ spoilt' = (spoilt \/ ~grace)
  /\ UNCHANGED saved

\* api_set_settings with reality_sid or reality_sni: the settings change, the
\* lists do not.
SetSettings(s, name) ==
  /\ "settings" \in Ways
  /\ publishedSid' = s
  /\ sni' = name
  /\ UNCHANGED <<minted, sid, sids, snis>>
  /\ ReloadMain
  /\ spoilt' = TRUE
  /\ UNCHANGED saved

-----------------------------------------------------------------------------
(* Nodes and subscribers.                                                  *)

\* Faulty: the short id of the settings is pushed.
PushedSetting == Accepting(<<>>, publishedSid, <<>>, Default)

\* _reality_payload, and what the node accepts with it: one short id, and the
\* node's own server name.
Pushed == Accepting(<<>>, sid, <<>>, Default)

\* A push to a node because its users have changed (the payload's hash does
\* not cover the Reality values), apply_reality_config, and the node's reload.
Push(n) ==
  /\ accepts' = [accepts EXCEPT ![n] = Pushed]
  /\ UNCHANGED <<metaVars, saved, spoilt>>

Link == [sid |-> publishedSid, sni |-> sni]

\* A subscriber of panel p fetches the subscription: one who may do so at any
\* time stands for all.
HandOut(p) ==
  /\ saved' = [saved EXCEPT ![p] = {Link}]
  /\ spoilt' = IF p = Main THEN publishedSid # sid ELSE spoilt
  /\ UNCHANGED <<metaVars, accepts>>

RotationNext ==
  \/ \E n \in Counts \cup {0}, name \in Names \cup {NoName}, grace \in BOOLEAN :
       Rotate(n, name, grace)
  \/ \E s \in {publishedSid, 0, TypedSid}, name \in Names : SetSettings(s, name)
  \/ \E n \in Remotes : Push(n)
  \/ \E p \in Panels : HandOut(p)

RotationSpec == RotationInit /\ [][RotationNext]_rotationVars

-----------------------------------------------------------------------------
(* Properties.                                                             *)

Works(l, p) == l.sid \in accepts[p].sids /\ l.sni \in accepts[p].snis

(***************************************************************************)
(* However the administrator rotates (and whatever is typed into the       *)
(* settings before that), the link handed out next works on the main       *)
(* panel, unless the settings form has replaced the published short id.    *)
(***************************************************************************)
NewestLinkWorks == publishedSid = sid => Works(Link, Main)

(***************************************************************************)
(* A link of the main panel survives rotations with grace until MaxKept    *)
(* ids have been minted after its own; so does its server name as long as  *)
(* there are no more names than are kept.  (With more of them, one that    *)
(* was chosen in the settings keeps its old place in the list and may be   *)
(* the first to be dropped.)                                               *)
(***************************************************************************)
FewNames == IsFiniteSet(Names) /\ Cardinality(Names) <= MaxKept
RecentLinksWork ==
  \A l \in saved[Main] :
    ~spoilt /\ minted - l.sid < MaxKept =>
      /\ l.sid \in accepts[Main].sids
      /\ FewNames => l.sni \in accepts[Main].snis

(***************************************************************************)
(* A node learns of the newest short id only, with a push that comes when  *)
(* its users change, and forgets the one before.  But it refuses no link   *)
(* it has accepted as long as there was no rotation after it was handed    *)
(* out, whatever is in the settings.                                       *)
(***************************************************************************)
NodesKeepLinks ==
  [][\A n \in Remotes : \A l \in saved[n] :
       Works(l, n) /\ l.sid = sid => Works(l, n)']_rotationVars
=============================================================================
