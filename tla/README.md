# Specifications of the TiTaN panel

TLA+ modules for the panel in `src/`: a FastAPI process that keeps users in SQLite,
generates the configuration of an Xray process and restarts it, counts what Xray carries,
and, as the *main* panel, distributes users to *nodes*, which run the same code. The modules
are translated from the Python source; documents and tests are used only to know what is
promised. TLC checks small instances, TLAPS proves some of the results for all of them.

## 1. The system

| Component | State | Operations | Interacts with |
|---|---|---|---|
| Reload scheduler (`main.py` `_reload_xray`, `_do_reload`; `xray.py` `write_xray_config`, `restart_xray`) | `_reload_wanted`, `_reload_running`, `config.json(.tmp)`, `_xray_process` | request, loop, reload in a worker thread, reload directly in a handler | every handler that changes a user |
| Xray configuration (`generate_xray_config`, `tuning.py`) | none, a function of table, settings, environment | generate | links, nginx |
| Links (`links.py`, `_user_endpoint`) | none | build | configuration, nginx, subscriptions |
| User management (`main.py`, `db.py`) | table `users` | create, PATCH, toggle, delete, reset, regenerate | scheduler, node sync |
| Node synchronisation (`nodes.py`, `tasks.py`, `api_node_sync`, `api_node_register`) | `node_sync_hash:*`, the node's table | triggered and periodic `sync_all`, manual push, apply, register | user management, scheduler of the node |
| Usage accounting (`get_xray_stats`, `_periodic_flush`, `_report_usage_loop`, `api_node_usage`) | `_previous_stats`, `_pending_usage`, used columns | query, count, report, merge, reset | Xray, enforcement |
| Quota and expiry (`_check_quota`, `_housekeeping`, which nodes run too) | column `enabled` | disable | configuration, node sync |
| Reality (`reality.py`) | key pair, published and accepted short ids and server names | rotate, settings form, push to a node | configuration, links |
| Subscriptions and groups (`_sub_target`, `_group_members`, `api_*_subscription`) | table `subscriptions`: key, members, switch | create, PATCH, rotate the key, delete, fetch | links, user management |
| Client configuration files (`subfmt.py`; `subpage.py`) | none | parse links, render | links |
| WireGuard (`wg.py`) | addresses and keys in the rows, peers of the running server | allocate, make keys, restart the server | links, node sync, scheduler |
| Login, first run, sessions (`api_login`, `api_setup`, `api_change_password`, `_first_run_state`, `apply_env_admin_password`) | row `admin`, `auth_is_default`, `auth_default_since`, failed-login counter and lock | log in, set up, change the password, recover by the environment | every handler authenticates |
| Backup and restore | the database file | download, automatic copy, restore | scheduler, login, all tasks |
| Node registry (`main.py` `_node_status`, `_auto_node`, `api_*_node`; `_refresh_node_latencies`, `_enrich_node_locations`) | table `nodes`, `_node_status_cache`, `_node_latency_snap` | create, invite, PATCH, register, relocate, delete, probe, choose the fastest | links, node sync, GeoIP |
| Web interface, DoH endpoint, deployment | - | - | - |

What is hard here: the event loop interleaves handlers and background tasks at every
`await`; reloads run in worker threads beside it; nodes and the main panel exchange messages
that may be lost, late or applied in another order; three counters (Xray's, the last reading,
the table) are advanced at different moments and lose their state at different moments; a
link, the inbound it must match and the file made from it are computed by different code from
the same row; a password, a lock and a first-run window are spread over several commits.
`PROJECT.json` lists the hazards line by line.

What makes each part correct:

* scheduler: no request is forgotten, and once it is quiet Xray serves the newest table;
* node sync: what the main panel believes a node has is what the node has, and nodes converge;
* accounting: no byte is charged twice, none vanishes;
* enforcement: a user who is due is cut off, nobody else is;
* Reality: a link that was handed out keeps working;
* links: a link leads to an inbound that serves its user;
* configuration files: a file says what the link says it is made from;
* WireGuard: nobody shares an address or loses it, and servers have the peers links are built for;
* groups: a revoked key stays dead, and members who have expired leave;
* login: guesses are bounded although attempts overlap, the first-run window closes and only the
  restore of a backup opens it again, and the owner of the environment always gets in;
* backup: neither a crash nor a restore loses a commit or mixes two databases;
* node registry: what is shown of a node, its key and its latency belong to the server at its
  address, and automatic users get to the fastest one.

## 2. The modules

| Module | Models |
|---|---|
| `ReloadPromise` | what the scheduler promises: a change is followed by a generation from a table at least as new |
| `XrayReload` | the scheduler, one action per step of `_do_reload`; implements `ReloadPromise` |
| `NodeSync` | main panel, nodes and the network between them |
| `UsageAccounting` | flushes, reports, resets, restarts |
| `Enforcement` | who is enabled, who is loaded by which Xray |
| `RealityRotation` | published and accepted ids and names, and links that were saved |
| `LinkInbounds` | rows, the generated inbounds, the links, nginx and the fallback port |
| `ClientConfigs` | `LinkInbounds` with the configuration files made from the links |
| `AddressPool` | what the overlay network promises: an address has one holder, who keeps it |
| `Overlay` | addresses and keys in the tables of main panel and node, pushes that fail half-way, peers of the WireGuard servers; implements `AddressPool` |
| `Subscriptions` | `Overlay` with a group, fetches of its links, and expiry |
| `LoginGuard` | the counter of failed logins, its pauses and its lock |
| `Access` | `LoginGuard` with the administrator, first run, sessions, and crashes between commits |
| `Backup` | the database file and its log, copies, restores step by step, what the table believes of nodes |
| `NodeRegistry` | the table of nodes, probes and look-ups that write after their await, the choice for automatic users |
| `MC...` | values of the constants for TLC |
| `..._proofs` | theorems and their proofs; those of `Enforcement` are in `XrayReload_proofs`, those of `RealityRotation` in `NodeSync_proofs` |

Three compositions are by conjunction: `Subscriptions` runs the actions of `Overlay` beside its
own, and a fetch is a step of both; `Access` uses the attempts of `LoginGuard` in its handlers,
and both share the clock; `ClientConfigs` renders in the states of `LinkInbounds`. Between the
others the modules compose by interface: `Enforcement` and `Overlay` take a reload as a single
later step, whose real course is `XrayReload`, and `Enforcement` a push, whose course is
`NodeSync`; `NodeSync` and `XrayReload` take a user row or the table as a value. A product of all
of them is out of TLC's reach and would add no question that the parts do not answer.

### XrayReload
`wanted` and `running` are `_reload_wanted` and `_reload_running`; `task` says where a reload
loop is, `job` where a worker thread is in `_do_reload`. The table is a version number `db`
and a file is the version it was generated from. Code of the event loop between two awaits is
one action. A handler that reloads directly (settings, tuning, rotation) runs the steps on
the event-loop thread, which then does nothing else; worker threads run beside it and beside
each other. Opening `config.json.tmp` truncates it, two writers tear it, and `os.replace`
moves whatever is there. A loop sets the flag when it starts, and only then (`LoopStart`): one that
wakes after another has ended and cleared it (`LoopWake`) runs on with the flag down, and the next
request spawns one more.

### NodeSync
A task of `_trigger_node_sync`, of the manual push, or the periodic loop is a record that is
between two awaits; messages are in the set `net`. A push can be lost, answered after the
sender gave up, and applied late. It can be applied in part (`ApplyHalf`): `api_node_sync` commits
user by user, and an exception leaves what is committed. `Reboot` restarts a node, with an empty
disk or not. Dates pass (`past`), and main and every node disable the users they find expired in
their own table. A hash is the payload it was computed from. `disturbed` remembers the nodes a push
to which got out of control, `torn` those whose last push was applied in part.

### UsageAccounting
Per panel: Xray's `counter`, the last reading `previous`, the reading a query is bringing
(`reading`), `pending` and the `report` in flight. History variables record what was carried,
forgiven by a reset, and lost to an incident. Incidents are an exception in the middle of a
flush, a restart of Xray, a reboot of the panel, a lost report.

### Enforcement
`enabled`, `deleted`, `date` and `roomy` (the larger of two quotas) are the rows of the main panel,
`over` and `past` the facts that make a user due, `rows[n]` the rows of a node with the dates it
knows, `served[p]` what Xray of panel `p` has loaded. A node runs housekeeping on its own rows, and
reloads from them when it restarts (`ReloadAnyway`). `auto` remembers who was disabled by the main
panel itself. `Raw` is the set of users on a raw TCP inbound, whose client
lists do not look at `enabled`.

### RealityRotation
`sid`, `sni` are the newest values, `publishedSid` the setting links are built from, `sids` and
`snis` the lists of meta that are cut to twelve, `accepts[p]` what Xray of panel `p` accepts.
`saved` holds one link per panel, handed out at any moment.

### LinkInbounds
`row` is the table as a partial function; a PATCH is two actions, before and after
`await request.json()`, with the row it read in `open` and any of the columns in its body. `mixed`
remembers rows whose protocol and the rest of which come from different requests. `Config` is
the set of inbounds `generate_xray_config` builds, `LinkNetwork`, `LinkSecurity`, `LinkPort`
what the link says, `Target` the way through nginx or the fallback inbound. `LinkWorks` asks
that every inbound listening at the port reached fits the link. What stands before nginx is
the platform: `front` says what may be spoken to the public port there, TLS, plaintext or
either. When the fallback port is the public one, its inbound terminates TLS itself, and
plaintext is not understood (`Spoken`).

### ClientConfigs
`LinkDial` is what a client learns from the link, `Entry` what `parse_link` makes of the link, and
`XrayOutbounds`, `SingboxOutbounds`, `ClashOutbounds` what is rendered from the entry: protocol,
port, network, security, obfuscation. What every renderer copies from the link (credential,
host, path, SNI, key) is left out. The environment's port and obfuscation of Hysteria2 are
constants.

### AddressPool, Overlay and Subscriptions
`main` and `node` are the users tables of two panels, a row being what WireGuard needs of it.
`push` is the payload that `sync_all` has sent, `hash` the one that was acknowledged; the push
ends in one of four ways: `PushDone`, `PushDuringReload` (a reload has read the table between
two commits of `api_node_sync`), `AnswerLost`, `PushFails` (lost, or half applied). `dirty` are the
panels whose reload is wanted, `served` the peers their WireGuard servers were started with.
The history variables say why a server may differ from what links promise: `late` (a row
changed without a reload), `rekeyed` (a link was built at the node), `unsure` (the node may have
got what was not acknowledged), `torn` (it has half a push). `group` is the row of a group, `patch`
the row as a PATCH read it before its await; keys are drawn from a counter (`minted`), so that an
old key is told from the newest. `FetchGroup` is one step for each member, since a reload may
come between.

### LoginGuard and Access
`count` and `lock` are the two meta entries of the guard, `sleeping` the failed attempts in
`asyncio.sleep`, each with the number it has read. A timer that is due runs before time passes;
pauses and locks count down. `cred` is the row `admin` with the meta entries that go with it. A
sequence of commits (`Create`, `Claim`, `BootSteps`) is the sequence of the databases after each: a
handler that ends makes the last one current, one that dies any earlier one. `changing` are
the changes of the password between authentication and body. `opened` is the password by which
this step opened a session, which is what the properties are about. A restore of a backup
(`StartRestore`, then `Restore` or `RestoreFails`) checks the session before it awaits the file; it
replaces administrator, first-run mark and counter by those of the file, while attempts sleep on,
and creates an administrator if the file has none. A backup is one of `Uploads`: what it says of
administrator and counter, of this panel or of another one. From then on the history variables are
those of the database it holds.

### Backup
`file` and `log` are the database file and SQLite's write-ahead log beside it, `Stored` what a
connection finds in them; a log that belongs to another file (`inode`) makes it `Mixed`. A
restore is four steps (`closed`, `written`, `bare`, replaced), between which only a crash can
come, because it holds the event loop. A content of the users table is a member of `Tables`, so that
it may return to what it was and match an old hash. `truth` is what was committed last, `misled` the
nodes about which the recorded hash is wrong: a restore has brought an old one back, or a push was
applied and the panel died, or lost the answer (`LoseAnswer`), before it could record it.

### NodeRegistry
`rows` is the table as a partial function, `cached` and `snap` are the two dictionaries of
`main.py`, a `probe` is a call of `_node_status` between request and answer with what it uses
of the row its caller read, a `lookup` is a handler that awaits `geo_detect`. An address is the
server behind it, its key and its location are named by it, so that a key, a location or a
latency of another server than the row's shows. A location is a country code with its flag (`code`)
and the names of country and city (`place`), which relocate and the enrichment task do not
replace. `End` and `Finish` write into the row there is by then, which may have gone or have
another address. `doubtful` remembers nodes whose look-up failed or overlapped with a change
of address, `misnamed` those whose names may be of what they were before. `Begin...` and
`End` are the halves of the handlers around their await; `Create` inserts after its await and
is one action.

## 3. The runs

Passing runs (bounds in the `.cfg` files). All type invariants are proved; the runs of `NodeSync`,
`RealityRotation` and `NodeRegistry` check theirs as well:

| Run | Shows | Bounds |
|---|---|---|
| `XrayReload` | requests are not stranded, changes not dropped, serial reloads serve the table; `ReloadPromise` is implemented, liveness included | three loops, four changes: two loops suffice for overlap, the third clears the flag under them or starts while it is down |
| `NodeSync` | a recorded hash describes an undisturbed node; such a node converges | two nodes, a user of both without a date or of one with a date that passes, two changes, two overlapping tasks, one fault: a removed date, half a push and a change back each need no more |
| `UsageAccounting` | nothing charged twice, nothing vanishes without an incident, all bytes are settled | main and a node, two units each so that a counter grows between two readings, any two incidents; users do not interact, so one is enough |
| `Enforcement` | who lingers after reloads; administrator, expiry and local quota take effect | a user of main, one of main on raw TCP, one of a node, a date that is given, passes and is removed, two changes |
| `RealityRotation` | the newest link works, links within the twelve kept ids do, and no node drops a link but by a push | six ids per rotation, three rotations: the third pushes out the first |
| `LinkInbounds` | which rows stay servable under overlapping requests; exactly whose link works; exactly which configuration files agree with the link | two users, two requests, three edits, bodies with all columns or one, every transport, unknown words, four environments (the fallback port off, apart, public, or configured without a certificate): inbounds conflict in pairs of users |
| `Subscriptions` | `AddressPool` is implemented; WireGuard servers have distinct peers and, in the end, those links are built for; revoked keys stay dead; expired members leave | two users and one address, so that it runs out, and an address changes hands; three changes: assign, move, change back; one fault |
| `Access` | guesses and locks in spite of overlapping attempts; the first-run window; claims are final; changes of the password are authorised; recovery works | two names, two passwords, a window of one tick, two attempts that overlap, a lock after three failures, two changes under way, two backups: this panel unclaimed, another one claimed and locked |
| `Backup` | commits survive crashes and restores, a restore is atomic, skipped nodes are current, downloads complete, nodes follow the table | one node (nodes do not interact), two tables, three changes (A, B, A and on), two copies kept, two restores, two faults: a restore over a restore, a fault in either |
| `NodeRegistry` | flags and names are current, links of automatic users get to the fastest node online, keys to the server dialled; deleted nodes stay deleted | two nodes, two servers (a choice, and an address that changes), two awaiting probes or look-ups, one change or fault after any number of creations, probes and refreshes: a probe of the old row overlaps with the change |

The other runs each check one property that the code or its documents state and that TLC finds
violated (`findings` in `PROJECT.json` quotes the sentence):

| Run | What happens |
|---|---|
| `XrayReload_EveryChangeIsServed` | two reloads leave Xray stopped, on a torn or an old file, nothing pending |
| `Enforcement_DueUsersAreCutOff` | the panel disables a user and does not reload |

Some properties are weaker than a reader of the documents expects, because of what the code
does. The condition in each is the place to look:

* `Agrees` (`NodeSync`) lets a node keep an expiry date that main has removed: fields that are
  `None` are left out of `api_node_sync`'s update, whose docstring says "match". The node's own
  housekeeping disables such a user by that date, and as the hash matches nothing enables the user
  again; `OnlyAutoDisabledLinger` (`Enforcement`) lets the node leave the user out for this reason.
* `HashDescribesNode` (`NodeSync`) is about nodes nothing has happened to: one that lost its disk is
  skipped because the hash still matches, although tasks.py:203 says the periodic push is
  "self-healing". Nor does it speak of a node whose last push was applied in part (`torn`). That is
  repaired by the next push, but if the users change back to what the recorded hash says there is
  none, and `UndisturbedNodesConverge` excepts it.
* `NothingVanishes` (`UsageAccounting`) excepts panels whose Xray was restarted by a reload:
  `_previous_stats` survives the restart, and a counter that has overtaken the old reading
  hides bytes. Lost reports count as lost: the node has cleared them before it sends.
* `QuotaIsEnforcedLocally` (`Enforcement`) is about main's own users: `api_node_usage` does not
  look at the quota, and nodes leave it to main. `OnlyAutoDisabledLinger` excepts users on raw
  TCP: those client lists do not look at `enabled`.
* `RecentLinksWork` and `NewestLinkWorks` (`RealityRotation`) stop at twelve minted ids and at a
  short id typed into the settings, which is published but not accepted. Of the server name
  `RecentLinksWork` speaks only as long as there are at most twelve (`FewNames`): a name chosen in
  the settings keeps its old place in the list of the accepted ones, and a rotation of the name
  may drop it first, however recent the link. `NodesKeepLinks` is about
  links that were handed out since the last rotation: a rotation is not pushed, and a push
  carries only the newest short id and the default server name, so that a node keeps refusing
  links made after a rotation until its users change, and refuses the older ones from then on.
* `RestoreIsAtomic` (`Backup`) excepts a restore whose first checkpoint has failed: the error is
  swallowed, the log with the newest commits is removed and a crash then loses them.
  `SkippedNodesAreCurrent` and `NodesFollowTheTable` except nodes in `misled`: a restored
  database brings back an old `node_sync_hash`, which may be that of its users while the node
  has others; and when a push has been applied but not recorded, and the users change back to those
  of the recorded hash, the node keeps what was pushed. Nothing is sent until the next change. Automatic copies are not covered by
  `DownloadsAreComplete`: they read the file without a checkpoint.
* `ExactlyTheseLinksWork` (`LinkInbounds`) spells out which links are dead: all of Shadowsocks
  (the inbounds listen on the loopback interface), XHTTP, HTTPUpgrade and gRPC while VLESS and
  VMess users share the port, WebSocket with a fallback port that does not send the PROXY header,
  and a link without TLS to a public port that speaks TLS, as the fallback inbound does.
* `RowsAreServable` (`LinkInbounds`) excepts rows in `mixed`, although main.py:1272 says "coerce
  transport/security to values the server can actually serve": a PATCH of the protocol alone is not
  normalised, and one of transport or security that overlaps with one of the protocol is normalised
  for the old one.
* `ExactlyTheseFilesAgree` (`ClientConfigs`) spells out which files say something else than the link.
  In the link of Hysteria2 a slash follows the port, so that `_port` falls back to 443; it has no
  word for security, so that sing-box's outbound has no TLS; its `obfs-password` is read as
  `obfsParam`. Xray's file leaves Hysteria2 out without a word in `skipped`, where the head of
  subfmt.py promises one. sing-box has one transport, `http`, for XHTTP and HTTPUpgrade.
* `LinksWork` (`Subscriptions`) excepts what its history variables name. An address given by a link
  and a user disabled by housekeeping reach the WireGuard server with the next reload only, which
  nothing asks for. A link built at a node finds no private key and makes a pair, whose public
  key stays there until a push is due that carries another hash. A push of B that fails half-way
  and is followed by the change back to A is never repaired: the hash is that of A. The
  half-applied push itself may leave two users of the node with one address, which
  `PeersAreDistinct` excepts (`torn`).
* `ExpiredMembersLeave` (`Subscriptions`) is about the time after housekeeping: `_group_members` says
  "not expired" and looks at `enabled` only.
* `GuessesAreBounded` (`LoginGuard`), and `LockIsEarned` and `LockIsKept`, which are proved, hold while no login succeeds with
  failed ones asleep: these write the number they had read, so that what the success has
  forgiven comes back, or a lock that was set meanwhile is shortened. Attempts that overlap
  count as one.
* `FirstRunIsBounded` (`Access`) excepts a panel whose creation was interrupted (`torn`): if the process
  dies after the row of the administrator and before `auth_is_default`, the row has an empty
  password outside the first-run mode. `ClaimIsFinal` speaks of acknowledged passwords. Logout
  drops the cookie and revokes nothing.
* A restore (`Restored` in `Access`) is excepted from `ClaimIsFinal`, `PasswordChangesAreAuthorised`,
  `RecoveryWorks`, `LockIsEarned`, `LockIsKept` and `LocksEnd`: it replaces the administrator, the
  first-run mark and the counter of failures by those of the file, so that a backup of an unclaimed
  panel opens the first-run mode again, and one of another panel brings its password. It asks for a
  session, not for the password, and checks the session before it awaits the file.
  `FirstRunIsBounded` has no such exception: a backup taken in its window is let in for the rest of
  that window only.
* `AutoFollowsTheFastest` (`NodeRegistry`) holds while no node in use answers with a status such as
  502: `_node_status` calls such a node offline (main.py:537) and notes its latency all the same, and
  `_auto_node` takes it, whose docstring (main.py:1379) and DEPLOY.md:326 say online. It is about
  the end: a node not measured yet is not chosen, and the link of an
  automatic user names the panel itself meanwhile, which does not serve such users when there is
  a node. After `api_node_register` the status is asked with the row read before, so that a node
  without address may look offline for 30 s.
* `LocationIsCurrent` (`NodeRegistry`) excepts nodes whose look-up found nothing when the address
  changed, or was overlapped by another change of address: the old location is kept.
  `api_relocate_node` and `_enrich_node_locations` write the names of city and country back that
  they have read, next to the new country code and flag, although main.py:1549 says "persist what it
  says": of the names (`misnamed`) the property says correspondingly less.

`CHECK_DEADLOCK FALSE` stands where the administrator's bound ends all activity (`XrayReload`,
`LinkInbounds`, `Subscriptions`), and where a panel without nodes is at rest (`NodeRegistry`).

**Fairness.** Weak fairness of every loop and worker step (`XrayReload`): asyncio resumes a
task whose await has finished and the system schedules threads. Weak fairness of the tasks, of
the fate of each message (it is applied or lost: requests have a timeout), and of
registration, which a node repeats, and of main's housekeeping (`NodeSync`; that of the nodes is
not needed). Weak fairness of the periodic flush and
report loops (`UsageAccounting`) and of flush, housekeeping, periodic push and requested
reload (`Enforcement`). Weak fairness of the
steps of a restore and of the periodic push (`Backup`). Weak fairness of answers, of the ends of
probes and look-ups (all have timeouts) and of the expiry of cache entries, and strong fairness of
`_refresh_node_latencies` for each node (`NodeRegistry`): the loop goes round for ever, while the
bound on awaiting tasks and a cached entry disable a probe now and again. Weak fairness of wanted
reloads, of the periodic push, of its end, and of housekeeping (`Subscriptions`). Weak fairness
of timers and of the clock (`LoginGuard`, `Access`): a failed login that has slept is answered. None for the
administrator, for visitors, for traffic or for faults, and none for time elsewhere.
`RealityRotation` and `LinkInbounds` check safety only and state no fairness.

## 4. The proofs

Every theorem holds for all values of the constants that satisfy the named assumptions of
the module.

* `XrayReload_proofs`. `SchedulerInv` strengthens `NoStrandedRequest` and
  `UnseenChangeIsPending` by two facts that make them inductive: a thread runs only for a loop
  that awaits it, and what has been generated from is never newer than the table.
  `SoloInv` says what the file, the snapshot and the process are as long as reloads have never
  overlapped; with it `SerialReloadsServeTheDatabase` follows. `RefinesReloadPromise` is the
  safety part of the refinement.
  The second part is about `Enforcement`, where a reload is one step. `EnforcementInv` adds to
  `OnlyAutoDisabledLinger` that a recorded hash describes the rows of the node but for users whose
  date, as the node has it, is past (`HashDescribesRows`), also while the node's reload is
  outstanding.
* `UsageAccounting_proofs`. `NeverOvercharged` needs that what is charged, pending, in a
  report, in a reading or unread never exceeds what was carried, per panel and user;
  `NothingVanishes` is the equality on a panel whose Xray is not restarted.
* `NodeSync_proofs`. `HashDescribesNode` speaks of moments without a push to the node; to survive
  the steps of a push, `SyncInv` says what holds in between. As long as a node is undisturbed, one
  task at a time waits for it and each push on its way has a task that waits for it
  (`OneAtATime`, `PushesBelong`); the node has what the old hash says until the push is applied,
  and from then on what will be recorded when the answer arrives (`NodesAgree`, for nodes that are
  not `torn`). Applying a push is the upsert of `api_node_sync` (`MergedFacts`), which is where a
  removed expiry date stays. A push applied in part makes the node `torn` until one is applied as a
  whole (`HalfKeeps`), and housekeeping on a node stays within what `Agrees` allows (`ExpiryKeeps`).
  `sync_all` takes the nodes in the order of their ids: `LeastFacts`, that a set of ids has a least
  one, is the only use of well-foundedness.
  The second part is about `RealityRotation`. It begins with lists: appending, removing, keeping the last
  twelve (`AppendNewFacts`, `WithoutFacts`, `KeepFacts`). Short ids are listed in the order they
  were minted in (`SidsInOrder`), and in an increasing list of numbers at most `m` a value `v` has
  at most `m - v` others behind it (`IncreasingGap`, by descent): so a value that is dropped is
  twelve ids old. Names have no order, but a list without repetitions of at most twelve names is
  not cut (`FewAreKept`, the pigeonhole principle). `RotationInv` adds that the main panel's Xray
  accepts exactly what is listed, because each handler reloads before it returns, and a node its
  own name only.
* `LinkInbounds_proofs`. `_normalize_protocol_fields` is idempotent; hence a PATCH that normalises
  for the protocol the row has afterwards leaves a servable row, and one that writes none of the
  three columns leaves it as servable as it was (`PatchedIsNormal`); the others are those that
  `Mixes` names. So `RowsStayServable` holds for all bodies, also those that name one column.
  `LinksWork` proves `ExactlyTheseLinksWork` from the types alone: each part of the configuration is
  described by the fields of its inbounds (`ConfigShapes`), ports are told apart by their words, and
  what listens at the port a link names is compared with the link in five cases (Shadowsocks,
  Hysteria2, raw TCP, WebSocket, shared networks). `FilesAgree` proves `ExactlyTheseFilesAgree`.
* `Access_proofs`. `GuardInv` says that attempts wake in the order of their deadlines; as long as no
  success has overtaken them, the first of them carry the counter and the others the counter plus
  one, which bounds the history (`Levels`), and those asleep while the panel is locked will lock it
  again before the lock ends (`Relocking`). A restore begins these histories anew
  (`ReplaceKeepsInv`). `AccessInv` ties password, first-run mark and the beginning of the window
  together, also after each single commit, and `RestoreStep` finds them so tied in every backup
  whose administrator was not itself half created.
* `Subscriptions_proofs`. `OverlayInv` says that no table peers are made of gives one address to two
  users: the table of the main panel, the payload under way, and the node's table unless it is
  torn. `OverlayImplementsPool` is the refinement: every step of tables, pushes, groups
  and expiry is a step of `AddressPool` or leaves the leases alone.
* `Backup_proofs`. `FilesInOrder` follows the files through a restore; `HashesInOrder` says that
  a push carries what the node has, and that without a push under way the hash of a node that is not
  `misled` is that of the users it has, whichever users the table has returned to.
* `NodeRegistry_proofs`. `RegistryInv` adds to the types and `LocationIsCurrent` that handlers
  which leave the address alone look up the one they have read (`LookupsInOrder`); with it the
  end of a look-up is right unless `doubtful` says otherwise, and names that are written back are
  those of the row unless `misnamed` does.

Every safety property the passing runs check is proved. Only model-checked are the liveness
properties and the liveness half of the refinement of `ReloadPromise` (the prover has no rule for
fairness and `ENABLED` here): `UndisturbedNodesConverge`, `EveryByteIsSettled`,
`AdminDisableCutsOff`, `ExpiryIsEnforced`, `QuotaIsEnforcedLocally`, `NodesFollowTheTable`,
`AutoFollowsTheFastest`, `KeysFollowServers`, `LocksEnd`, `LinksWork`, `ExpiredMembersLeave` and
`KeepsReloadPromise`.

## 5. Not modelled

* Transport tuning (`tuning.py`), routing rules, DNS, sniffing: they decide how a client dials, not
  whether it is served. The mode of XHTTP is among them: with an explicit `xhttp_mode` in
  the settings, whose default is one, that of the profile is never used.
* The text of configuration files, the subscription page (`subpage.py`), scripts of the web interface.
* GeoIP look-ups (`NodeRegistry` has whether they find a location), keep-alive pings, the DoH endpoint: no
  state that other parts depend on. Deployment scripts.
* The link of a user on a node is built from the environment of the main panel; `LinkInbounds` has
  one environment and the users of the main panel.
* The node in `Overlay` runs no housekeeping of its own (those in `NodeSync` and `Enforcement` do),
  there is one group at a time, and pushes do not overlap (`NodeSync` has those that do). The push
  in `Enforcement` and `Backup` is applied as a whole (`NodeSync` has half of one). `api_user_regenerate` is left out.
* Users keep their panel and transport in `Enforcement`, and `NodeSync` keeps the set of nodes:
  deleting a node with users, and which automatic users the local Xray has loaded when the last
  node comes or goes.
* A backup in `Access` says what it says of administrator and counter, whole in itself: a file that
  begins like a database and is none is accepted by `api_backup_restore` and not modelled, nor is
  what a restore does to users and nodes beyond the hashes in `Backup`.
* An automatic backup may lack commits that are in the log alone: modelled, and no property
  holds of it.

## 6. Plan

Done, in this order: reload scheduler, node synchronisation, accounting, enforcement, Reality,
links and inbounds, backup, node registry, login and first run, WireGuard addresses, groups,
configuration files, each with its runs; proofs of all their safety properties.

What would come next:
1. `LinkInbounds` with the environment of a node.
2. `NodeRegistry`: which automatic users the local Xray has loaded, deletion with users left.
