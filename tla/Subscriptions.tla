---------------------------- MODULE Subscriptions ----------------------------
(***************************************************************************)
(* A subscription group over the users of the overlay network: one public  *)
(* key, /sub/<key>, under which the links of all its members are handed    *)
(* out (app/main.py and the table subscriptions in app/db.py), and the     *)
(* expiry of members (app/tasks.py, _housekeeping).                        *)
(*                                                                         *)
(* A fetch builds the links of one member after the other, and a reload in *)
(* its thread may read the table in between: it is a step for each member. *)
(*                                                                         *)
(* Data abstracted: one group at a time, as no handler touches two; keys   *)
(* and ids are numbers drawn from one counter; name, remark and            *)
(* include_info are left out.                                              *)
(***************************************************************************)
EXTENDS Overlay

CONSTANTS
  Dated,      \* the users with an expiry date
  NoGroup,    \* there is no group
  NoPatch     \* no PATCH waits for its body

ASSUME DatedAssumption == Dated \subseteq Users

Groups == [id : 1..MaxChanges, key : 1..MaxChanges,
           members : SUBSET Users, on : BOOLEAN]

ASSUME GroupMarksAssumption == NoGroup \notin Groups /\ NoPatch \notin Groups

VARIABLES
  group,      \* the row of the group
  patch,      \* the row as a PATCH has read it that waits for its body
  minted,     \* ids and keys drawn so far
  expired     \* users whose expiry date is past

groupVars == <<group, patch, minted>>
vars == <<overlayVars, groupVars, expired>>

TypeOK ==
  /\ OverlayTypeOK
  /\ group \in Groups \cup {NoGroup}
  /\ patch \in Groups \cup {NoPatch}
  /\ minted \in 0..changes
  /\ expired \subseteq Dated

Init ==
  /\ OverlayInit
  /\ group = NoGroup
  /\ patch = NoPatch
  /\ minted = 0
  /\ expired = {}

-----------------------------------------------------------------------------
(* The group.                                                              *)

\* A handler of the group writes its row, and no reload is asked for.
WriteGroup(row) ==
  /\ changes < MaxChanges
  /\ changes' = changes + 1
  /\ group' = row
  /\ UNCHANGED <<main, node, hash, push, served, dirty, drawn, late, rekeyed,
                 unsure, torn, faults, expired>>

Draw == minted' = minted + 1

\* api_create_subscription: members must exist.
CreateGroup(members) ==
  /\ group = NoGroup
  /\ members \subseteq Present(main)
  /\ Draw
  /\ WriteGroup([id |-> minted', key |-> minted', members |-> members, on |-> TRUE])
  /\ UNCHANGED patch

\* api_rotate_subscription
Rotate ==
  /\ group # NoGroup
  /\ Draw
  /\ WriteGroup([group EXCEPT !.key = minted'])
  /\ UNCHANGED patch

\* api_delete_subscription
DeleteGroup ==
  /\ group # NoGroup
  /\ WriteGroup(NoGroup)
  /\ UNCHANGED <<patch, minted>>

\* api_update_subscription up to the await of the body.
StartPatch ==
  /\ group # NoGroup
  /\ patch = NoPatch
  /\ patch' = group
  /\ UNCHANGED <<overlayVars, group, minted, expired>>

\* Faulty: all columns of the row that was read are written.
UpdatedWhole(row, read, fields) ==
  IF row # NoGroup /\ row.id = read.id
  THEN [read EXCEPT !.members = fields.members, !.on = fields.on] ELSE row

\* update_subscription writes the columns that are given, where the id is
\* still that of a row.
Updated(row, read, fields) ==
  IF row # NoGroup /\ row.id = read.id
  THEN [row EXCEPT !.members = fields.members, !.on = fields.on] ELSE row

\* The form sends members and switch; the members must exist.
FinishPatch ==
  /\ patch # NoPatch
  /\ patch' = NoPatch
  /\ \E fields \in [members : SUBSET Present(main), on : BOOLEAN] :
       WriteGroup(Updated(group, patch, fields))
  /\ UNCHANGED minted

\* The PATCH is refused: a member does not exist, or the name is empty.
RefusePatch ==
  /\ patch # NoPatch
  /\ patch' = NoPatch
  /\ UNCHANGED <<overlayVars, group, minted, expired>>

\* _group_members: who exists and is enabled.
Members(row) == {u \in row.members : main[u] # Absent /\ main[u].on}

\* _sub_target: whose links the key of the group hands out.
HandedOut == IF group = NoGroup \/ ~group.on THEN {} ELSE Members(group)

\* _group_payload, for one of the members.
BuildMember(u) == u \in HandedOut /\ BuildLinks(u)

\* /sub/<key> in any of its formats.
FetchGroup(u) == BuildMember(u) /\ UNCHANGED <<groupVars, expired>>

-----------------------------------------------------------------------------
(* Expiry.                                                                 *)

\* The date of a user passes.
Expire(u) ==
  /\ u \in (Dated \cap Present(main)) \ expired
  /\ changes < MaxChanges
  /\ changes' = changes + 1
  /\ expired' = expired \cup {u}
  /\ UNCHANGED <<main, node, hash, push, served, dirty, drawn, late, rekeyed,
                 unsure, torn, faults, groupVars>>

\* api_update_user with expire_days, which touches no other column.
Extend(u) ==
  /\ u \in expired \cap Present(main)
  /\ expired' = expired \ {u}
  /\ Write(EnsureKeys(main, u, "main"))
  /\ UNCHANGED <<drawn, groupVars>>

\* Faulty: the users of a node are left to the node.
OverdueHere ==
  {u \in expired \cap Present(main) : main[u].on /\ main[u].home = "main"}

Overdue == {u \in expired \cap Present(main) : main[u].on}

\* _housekeeping: a column changes, and nothing is reloaded.
Sweep ==
  /\ Overdue # {}
  /\ main' = [u \in Users |-> IF u \in Overdue THEN [main[u] EXCEPT !.on = FALSE]
                              ELSE main[u]]
  /\ late' = late \cup Overdue
  /\ UNCHANGED <<node, hash, push, served, dirty, drawn, rekeyed, unsure, torn,
                 changes, faults, groupVars, expired>>

-----------------------------------------------------------------------------
Next ==
  \/ OverlayNext /\ UNCHANGED <<groupVars, expired>>
  \/ \E members \in SUBSET Users : CreateGroup(members)
  \/ Rotate \/ DeleteGroup \/ StartPatch \/ FinishPatch \/ RefusePatch
  \/ \E u \in Users : FetchGroup(u) \/ Expire(u) \/ Extend(u)
  \/ Sweep

\* A reload that is wanted comes, the periodic push and housekeeping too, and
\* a push ends.
Fairness ==
  /\ WF_vars(ReloadMain /\ UNCHANGED <<groupVars, expired>>)
  /\ WF_vars(ReloadNode /\ UNCHANGED <<groupVars, expired>>)
  /\ WF_vars(StartPush /\ UNCHANGED <<groupVars, expired>>)
  /\ WF_vars(PushEnds /\ UNCHANGED <<groupVars, expired>>)
  /\ WF_vars(Sweep)

Spec == Init /\ [][Next]_vars /\ Fairness

-----------------------------------------------------------------------------
(***************************************************************************)
(* "New public token for a group - old links die at once"                  *)
(* (api_rotate_subscription): a group has the key drawn last, whatever     *)
(* PATCH was waiting for its body when the key was changed or the group    *)
(* deleted and another one created.                                        *)
(***************************************************************************)
RevokedKeysStayDead == group # NoGroup => group.key = minted

(***************************************************************************)
(* A group hands out the links of a member who has expired until           *)
(* housekeeping has run, and no longer, on whichever panel the member is.  *)
(***************************************************************************)
ExpiredMembersLeave ==
  \A u \in Dated : u \in expired ~> u \notin expired \/ u \notin HandedOut
=============================================================================
