# netbox-idrac-inventory: a TLA+ model of the plugin

netbox-idrac-inventory is a NetBox plugin that reads Dell servers' inventory
from their iDRAC (Redfish) and keeps it in NetBox.  This directory holds TLA+
models of its core logic, TLC configurations that check them on small
instances, and TLAPS proofs of their most important safety properties.

Paths below are relative to `src/netbox_idrac_inventory/`.

## 1. The system

| Part | State it keeps | Operations | Talks to |
| --- | --- | --- | --- |
| Sync of one server (`idrac/sync.py`, `jobs.py`) | the `DellServer` row and its verdict | `DellSyncJob.run`, `sync_server`, `_mark_failed` | the Redfish client; the RQ worker (job timeout); the database |
| Hardware components (`idrac/sync.py`) | the `DellComponent` rows | `_build_component_rows`, `_reconcile_components` | the client's getters |
| Module bays and adapters (`idrac/sync.py`) | the device's module bays and modules | `_ensure_template_bays`, `_bay_for_adapter`, `_sync_network_adapters` | the client; ports |
| Network adapter ports (`idrac/sync.py`, `idrac/client.py`) | interfaces, MACs, cables, addresses | `_get_adapter_ports`, `_get_function_mac`, `_sync_interface` | the client |
| iDRAC management interface (`idrac/sync.py`) | one interface, its address, `oob_ip` | `_sync_idrac_management` | the client; humans who work on the device |
| Redfish client (`idrac/client.py`) | the session, `network_adapters_complete` | one getter per resource kind; almost all swallow errors and return what they have | the iDRAC |
| Discovery (`idrac/discovery.py`) | new `Device` and `DellServer` rows | `discover_range`: expand, filter, probe, match or create, sync | utils, the client, `sync_server` |
| Scan targets and address policy (`utils.py`) | - | `expand_targets`, `host_part`, `check_address_allowed` | settings, DNS |
| Credentials and secrets (`utils.py`, `forms.py`, `api/`) | the encrypted passwords; the keys each process loaded | `encrypt_secret`, `decrypt_secret`, `resolve_credentials` | settings, environment |
| User requests (`views.py`, `forms.py`, `api/`) | the `DellServer` and `DellScanRange` rows | create, edit, delete, Site Review, sync / bulk sync, run scan | `enqueue_sync`, `enqueue_discovery` |
| Fleet job (`jobs.py`) | - | `DellSyncAllJob.run` enqueues one sync per server | RQ |
| Custom fields, UI, GraphQL, migrations | - | declarative | NetBox |

What makes it hard:

* **Interleaving.** Jobs run for minutes on several workers with no lock and no
  deduplication, while users edit, review and delete the same rows.  Both the
  sync and the edit form read a whole row, work, and save the whole row.
* **Timeouts.** RQ interrupts a job once, at any bytecode, by raising an
  exception that most getters swallow.
* **Partial reads.** Any Redfish call may fail on its own; the code must tell
  "not there" from "could not be read".
* **Order.** Adapters and ports are reconciled one at a time, each step
  renaming, moving, adopting or deleting what the next one looks for.
* **Check, then act.** At READ COMMITTED a question ("does it carry data?",
  "is the address recorded?") and the statement that acts on the answer see
  different rows.
* **Stale configuration.** Web and worker processes load the secret keys when
  they start, and a rotation reaches them one by one.
* **Crashes.** Workers are killed between steps; discovery is not a
  transaction.

`PROJECT.json` lists the hazards one by one, each at its line.

## 2. Modules

| Module | Models | Composed of |
| --- | --- | --- |
| `ServerSync` | one `DellServer` row and all its writers: sync jobs, discovery imports, edit form, Site Review, create, delete; the RQ alarm, kills, failing saves | implements `ServerRow` |
| `ServerRow` | the abstract row: users' half and the verdict change independently, as if every edit and every sync locked it | - |
| `Components` | the hardware components of one server and any number of overlapping sync jobs on them | implements `ComponentMirror` |
| `ComponentMirror` | the abstract promise: every entry's part and firmware have really been there, and an inventory is never emptied | - |
| `Bays` | the network adapters of a device as modules in its bays, several adapters of one port each | - |
| `PortSync` | one network adapter's several ports reconciled onto the interfaces, MACs, cables and IPs of a device | - |
| `MgmtInterface` | the iDRAC's own interface and address, statement by statement, with humans at work meanwhile | - |
| `Discovery` | scan jobs statement by statement over the `Device` and `DellServer` rows | - |
| `Access` | stored passwords, keys and their rotation, scan targets and the allowed networks | - |
| `ServerSyncProofs`, `ComponentsProofs`, `BaysProofs`, `PortSyncProofs`, `MgmtInterfaceProofs`, `DiscoveryProofs`, `AccessProofs` | theorems | each extends its module |
| `MC*` | model values and functions for the configurations | extend the above |

The modules share no variable.  `ServerSync` sees one server and abstracts what
is in the inventory.  `Components`, `Bays`, `PortSync` and `MgmtInterface` are
what the stages of its `Work` do: to the component rows, to the bays, to one
adapter's interfaces, to the iDRAC's interface.  `Bays` has one port per
adapter, since what it asks is which bay a port's module is in; `PortSync` has
one adapter, since ports of one adapter compete only with each other for MACs.
`Discovery` is where `ImportStart` comes from, seen across machines, with
`sync_server` cut down to its two writes that matter there; `Access` is which
targets such a scan has and what it, or a sync, logs in with.

### ServerSync

`row` is the database row.  Its user-owned half is `conf` (address, credentials
and comments as one version number) and `confirmed`; its sync-owned half is
`status` with two ghosts, `truncated` (the inventory behind it was cut by the
alarm) and `by` (the last whole-row writer).  `jobs[j]` holds the instance a
job loaded (`mem`), its clock since the alarm was armed (`t`), the clock at
`time.monotonic()` in `run` (`start`), whether the alarm is still to come
(`armed`) and whether it was swallowed (`cut`).  `form[e]` is the instance an
edit request has read.

| Action | Code |
| --- | --- |
| `Enqueue`, `Start` | `enqueue_sync`, the head of `DellSyncJob.run` |
| `ImportStart` | `discover_range` up to its call of `sync_server` |
| `Work` | `sync_server` up to `server.save()`, one step per stage; the alarm is swallowed, reaches the handler, or does not fire |
| `Commit` | `server.save()` and COMMIT: UPDATE, INSERT when the row is gone, or refused |
| `Closing`, `Check` | the `finally`, then the elapsed-time check and the job data |
| `MarkFailed` | `_mark_failed` with its `update_fields`; its own failure is logged |
| `Kill` | the work horse is killed |
| `UserCreate`, `EditOpen`, `EditSave`, `SiteReview`, `Delete` | the forms and views |

`ServerRow` has the variables `user` (users' half with the primary key),
`status` and `crossed`, and two actions, a user's change and a verdict, each of
which touches its own half; it promises nothing once `crossed`.  `Row ==
INSTANCE ServerRow WITH ...` maps `user` to the user part of `row` and `crossed`
to the two `raced` ghosts, `RowPromise == Row!Spec` is the property.

`EditOpen`/`EditSave` are two steps since the form saves every column of the
instance it read; Site Review is one, since it saves one column of a row it
reads in the same transaction.

### Components

`hw` is what is in the server's slots and `table` the committed
`DellComponent` rows; a slot is what `(component_type, name)` identifies, a row
a part (its other columns) with its firmware version or without.  Only some
resources state a version (`Telling`); the rest have it from the firmware
inventory.  `job[j]` holds the getters still to call
(`left`), what those called said (`report`), the rows its open transaction has
written (`mine`) and those it is to delete (`victims`).

| Action | Code |
| --- | --- |
| `Begin`, `Read` | `sync_server` up to `_build_component_rows`, one getter per step; a getter answers any part of what is there (`_safe_call`, the `except` of each member) |
| `Enter` | the firmware inventory, the last read, laid over the report; `transaction.atomic()` |
| `Upsert` | one `update_or_create` of `_reconcile_components`, in the order of the report, waiting for the row's lock |
| `Prune`, `Delete` | the SELECT and the DELETE of `.exclude(keep).delete()`, skipped when nothing was reported |
| `Commit`, `Rollback` | the end of the transaction; a failure before or in it |
| `DeadlockVictim` | the database fails one of two transactions that wait for each other |
| `Swap` | the hardware changes |

A transaction sees its own rows over the committed ones (`Seen`, READ
COMMITTED) and keeps the rows it wrote locked (`Locked`).

`ComponentMirror` has the variables `hw`, `was` (ghost: what has ever been in a
slot) and `table`, and two actions: the hardware changes, or the table is
replaced by one that holds only what has been there, and is not emptied.
`Mirror == INSTANCE ComponentMirror WITH ...` is the refinement mapping,
`KeepsPromise == Mirror!Spec` the property.

### Bays

`dev` is the device: `bays` (its module bays), `mods` (what module is in each)
and `ifc` (its interfaces: the bay of their module, a token for their cable or
address, their MAC).  A card stands for its serial, its MAC and its cable; `hw`
is which card is in which slot.  `left` are the reported adapters still to come,
`Precedes` is the order iDRAC lists them in.

| Action | Code |
| --- | --- |
| `BeginSync` | `_ensure_template_bays` (any part of the bays of the type is made), then the read of all adapters at the head of `_sync_network_adapters` |
| `SyncAdapter` | one round of its loop: `_bay_for_adapter` with `_template_bay_for_fqdd` (`TypeBayFor`), the module (`Housed`), its port (`Ported`) and the interfaces its adapter does not report (`Trimmed`) |
| `Finish` | the clean-up of bays whose adapter is gone (`Gone`), and COMMIT |
| `Abort` | anything that raises: the transaction is rolled back |
| `Rearrange` | cards are added, removed, moved, exchanged |
| `Enter`, `Connect` | humans enter modules, interfaces, cables and addresses |

### PortSync

`ifc` maps interface names to records (on the adapter's module or not, one
token for its cable or IPs, MACs, primary MAC).  A sync is `ReadAdapter` (what
the client reports, one outcome per port), a `SyncPort` per reported port in
iDRAC's order (`left` are those to come, `Before` is the order), and `Cleanup`,
in one transaction that `Abort` rolls back.  `Match` is
`_match_interface_by_mac`; the database does not order equal addresses, so any
match may be returned.  `Updated` and `Become` are the body of
`_sync_interface`: leftovers dropped, src renamed, MACs replaced.

### MgmtInterface

`db` is the device as committed and `view` as the transaction of the running
sync sees it: interfaces, address records, `oob_ip`.  What a human commits
meanwhile appears in both, what the sync writes in `view` until `Commit`.

| Action | Code |
| --- | --- |
| `Begin` | `get_idrac_network`: with or without MAC and mask |
| `Match` | the interface by MAC or by the name "iDRAC", made if need be, with its MAC as primary |
| `Find`, `Assign` | the search for the address on the device; moved here or made here, then `oob_ip` |
| `Check`, `Commit` | is there a leftover "iDRAC" interface without data; its deletion, and COMMIT |
| `Abort` | anything that raises |
| `Reconfigure` | the board is replaced or readdressed |
| `EnterIface`, `DeleteIp` | humans, between syncs |
| `EnterCable`, `EnterIp` | humans, at any time |

`Settled(d, answer)` says of a device that a sync with this answer has nothing to
do on it: `DoneSettles` that syncs leave such devices, `SettledStays` that they
change nothing on them.

### Discovery

`devices` and `servers` are the tables; `scan[s]` a job's place in
`discover_range`.  Each statement that reads or writes the database is a step:
the managed check (`SkipManaged`, `Probe`), the lookup by service tag
(`Lookup`), `Device.objects.create` (`CreateDevice`), `get_or_create`
(`Attach`), and of `sync_server` the serial written by `_update_device`
(`SyncDevice`) and the whole-row save (`SyncSave`).  `Fault` is any exception
at a statement, the RQ timeout included; the per-target `except` goes on with
the next target (`NextTarget`).

| The other writers | Code |
| --- | --- |
| `Resync` | a `DellSyncJob` labels the device |
| `ConfirmSite` | the Site Review page |
| `AddServer`, `DeleteServer`, `DeleteDevice` | the Device page, the forms, the API |
| `OpenEdit` | an edit of a server reads its row and, with the form, its device's |
| `SaveForm`, `Patch`, `DropEdit` | the form or the API saves every column of what it read, with another name, site, address or review flag; or the request is refused or fails |

An address users enter is the one of the machine or a host name, which no scan
recognises.  The ghost `stray` collects the discovered devices that lost their
server, were given one by a user, or were hidden from the scans by an edit
(`Hides`): a form that took the serial away again, since it had read the device
before the sync wrote it, or a host name entered for a device without a serial.
`Resync` is one step, of which only the label matters here; that a sync job
puts back an address or a review flag changed meanwhile is like a `Patch` that
enters the old one.

### Access

`config` is the configuration file's primary key and fallbacks, `keys[p]` what
process `p` has loaded of it; `secret[x]` is the token stored for a server or
for the scan range, `meant[x]` (ghost) the password last entered there.
`form[e]` is the row an edit has read, and `runs[j]` a connection with the token
its row was loaded with: both save the whole row later.  `raced` (ghost) holds
the places whose password was entered while somebody else held the row.  A host
has one server at most.  Addresses are IPv4 (of an IPv6 network `hosts()` keeps
the last address too, `utils.py` 87); they are the numbers below `Space`, and
networks have one of the `Sizes` that divide it, which is what the arithmetic
of `ipaddress` is about.

| Action | Code |
| --- | --- |
| `Rotate`, `DropFallbacks`, `Restart` | Django's documented key rotation; processes load it when they restart |
| `Enter` | a new server: the password encrypted, or none |
| `OpenForm` | the forms and the serializers read the row they edit |
| `SaveForm`, `DropForm` | they save every column of it: the password encrypted, or on a blank the token as it was read; or the request is refused or fails |
| `BeginSync`, `EndSync` | `check_address_allowed`, `resolve_credentials`, the login; the save |
| `BeginScan` | `_credentials` of the range; refused when its secret cannot be decrypted |
| `Expand`, `Add` | `expand_targets`: a token (a host name with a dash counts as a range that cannot be read), then its hosts one by one, with the limit after the last |
| `Filter` | the allowed networks, target by target |
| `Probe`, `EndScan` | managed, unreachable, or imported and synced on the same connection |

## 3. Runs

| Run | Question | Result |
| --- | --- | --- |
| `server_races` | Can a user's change be lost other than inside a read-modify-write window?  Is a truncated inventory ever left "synced" by a sync job that ended? | no: `IntentKept`; no: `TruncatedNeverSynced`, `DoneMeansComplete`; outside the windows the row is as if locked: `RowPromise` |
| `server_corrected` | Is a truncated verdict always taken back? | yes, unless killed or kept from saving: `OverrunCorrected` |
| `site_review_reverted` | Does a confirmed site stay confirmed? | no (finding 1) |
| `ports` | Are cables lost only with removed ports, do ports converge, does data follow its MAC, does a settled port stay? | yes |
| `ports_skipped_clash` | Does a skipped port leave both interfaces alone? | no (finding 2) |
| `discovery_races` | While users confirm, edit, add and delete: which servers are flagged for review, when are devices duplicated? | `AutoSiteAwaitsReview`, `DuplicateOnlyIfExcused` hold |
| `discovery_cover` | Does rescanning get every machine a server? | yes, or its name is taken: `RescansCover` |
| `components` | Can failing getters or overlapping syncs empty the inventory or invent parts, and does it become the hardware? | no, and yes: `KeepsPromise`, `CleanSyncMirrors`, `Converges` |
| `bays` | Are cables lost only with cards that are gone for certain, do they follow their cards, do adapters end up in one bay each and stay there, and do syncs stop changing things? | yes: `DataLostOnlyWithGoneCard`, `DataFollowsCard`, `EachHoused`, `SettledStays`, `Settles`, `Quiesces` |
| `mgmt` | Does a sync take what humans entered, or record an address twice?  Do syncs agree on one interface and leave it alone from then on? | only what was entered between question and deletion: `SyncKeepsData`, `SyncKeepsOthers`, `NoSecondCopy`; yes: `OneManagementInterface`, `DoneSettles`, `SettledStays`, `Quiesces` |
| `access` | Is anybody logged in to with another password than the entered one, does a rotation lose passwords, and are the targets those the text denotes? | only if it was entered while others held the row: `LoginAsEntered`; no: `RotationKeepsSecrets`; yes: `ScanExactly`, `InvalidOnlyIfSo`, `ImportsOnlyTargets` |
| `range_password` | Is a discovered server synced with its range's password? | no (finding 3) |

### Bounds, and why they are enough

* `ServerSync`: one sync job, one import and one edit request for the races and
  the verdicts (a lost update needs one stale holder and one other writer; a
  third makes holders overlap), two sync jobs for the liveness run.  `Budget`
  2, `Slack` 1, stage durations of 0, 1 or 2 and a saturating clock (`Horizon`) let
  the alarm fall in any stage, at its boundary, or just before the check.
  `MaxRows` bounds rows created, so deletion, re-creation and resurrection
  happen.  The proofs need none of these bounds.
* `Components`: two jobs and two slots read by a getter each, so a report can
  lose one category or all, and a deletion can wait for the other job's upsert
  in a circle; two parts per slot with different firmware, only one of which
  its own resource states; any initial hardware, one `Swap`, two failures
  (`MaxFaults`) at any read or stage.  Jobs repeat without bound.
* `Bays`: two slots and two cards can be moved, removed and exchanged; one slot
  has two device-type bays of different patterns, the other none, so free,
  replaceable and missing bays, and a preference among them, all occur; one
  name users choose.  Three changes by humans (`MaxChanges`) suffice to enter
  a module by hand, connect it, and move a card; one sync is disturbed
  (`MaxFaults`), and syncs repeat without bound.
* `PortSync`: two ports and one foreign interface are the smallest device in
  which a match, a clash on the name and a bystander occur together; the
  initial states are *all* assignments of modules, data and MACs, so one
  sync (`MaxSyncs` 1) starts from whatever earlier syncs could have left.
* `MgmtInterface`: the name "iDRAC" and one administrator's name, two MACs and
  two addresses (a board can be replaced and readdressed), one mask besides
  /32.  Two changes by humans, one of which can fall between any two
  statements, and one disturbed sync; four address records (`MaxIps`) are as
  many as these can ever make.
* `Discovery`: two scans of two sites, one machine in the race run and two
  sharing a name in the coverage run, at most one device onboarded by another
  tool.  `MaxDevices` and `MaxServers` count rows ever created, two of each in
  the race run: a first device and its duplicate.  One server is added or
  edited (`MaxEdits`) and one statement or scan fails (`MaxFaults`), with any
  number of confirmations and deletions.  The two ranges are interchangeable
  (symmetry).  The coverage run has no edits: it asks what becomes of machines
  that users leave alone.
* `Access`: eight addresses (`Space`), networks of one, two, four and eight
  addresses (`Sizes`) and a limit of four give networks of one,
  two, four and (too many) six hosts, ranges that overlap them, run backwards
  or hit the limit exactly; a name with one address and one with two, one of
  them not allowed, and one with a dash.  Texts are each token alone and each
  after one of three others.  Three changes (`MaxChanges`): a server is entered
  and read by two edits, or by one, and a key rotated, or rotated and dropped.
  The two keys and the two edits are interchangeable (symmetry).  One password
  and the default are enough to tell a wrong login.

Runs that stop by bound set `CHECK_DEADLOCK FALSE`: those of `ServerSync` (every
job has ended), `PortSync` (one sync), `discovery_races` (the rows are used
up) and `Access` (its changes are used up and its text was refused).  In
`components`, `bays`, `mgmt` and `discovery_cover` syncs or scans repeat without
bound and TLC looks for deadlocks.

### Fairness

`FairSpec` of `ServerSync` assumes weak fairness of each job's own steps: an RQ
worker runs what it holds and the queue is drained.  `Kill`, faults and users
are not fair.  `FairSpec` of `Discovery` adds that every range is scanned again
and again; discovery is started by hand, so `RescansCover` says what users get
who keep pressing *Run scan*, after finitely many faults (`MaxFaults`).

`FairSpec` of `Components` assumes weak fairness of each job's steps (a worker
runs what it holds, and the recurring job brings the next sync: `Converges` is
for a server synced on schedule) and strong fairness of `Upsert` and `Delete`:
PostgreSQL queues the waiters of a row lock, so a job whose lock is released
again and again gets it in its turn.  Faults and swaps are not fair.

`FairSpec` of `Bays` and of `MgmtInterface` assumes weak fairness of the steps of
a sync, its beginning included: the recurring job brings the next one and the
worker finishes it.  Rollbacks, incomplete reads and humans are not fair, and
finitely many.

## 4. Proofs

The theorems hold for every value of the constants that satisfies the module's
assumption; the runs' bounds play no part in them.  Each proof module has a
type-correctness theorem and an inductive invariant, preserved by one step per
action, from which the properties follow.

`ServerSyncProofs` (`ConstantsAssumption`):

* `TypeCorrect` - `Spec => []TypeOK`.  The helpers `Step` and `End` are treated
  once as lemmas and cited.
* `IntentIsKept` - `Spec => []IntentKept`.  `IntentKept` alone is not
  inductive: a job may save what it holds.  `IntentInv` adds that while no
  change fell into a window, every holder of the row inside its window holds
  exactly the intent.  A user change with any window open sets `raced.user`,
  and with none open there is no holder, so the invariant is re-established.
* `TruncatedIsNeverSynced` and `DoneIsComplete` - from `VerdictInv`.  `Clock`
  says a spent alarm means a spent budget and a swallowed alarm is a spent
  one, so a job that was cut arrives at the check with `t >= Budget` and, as
  `start <= Slack`, overdue.  `Traced` leads from a truncated row to the job
  that cut it; `VerdictHonest` is carried by the row and by every open form.

* `RowKeepsPromise` - `Spec => RowPromise`, the refinement of `ServerRow`.  A
  save writes both halves of the row, so it is a `Change` or a `Verdict` only if
  the half that is not its own is the committed one.  `IntentInv` says so of
  users' half; `RowInv` says of the verdict that an open edit form still holds
  the one of the row, and that a job has a row's primary key once it has read
  one, so that no save can bring a deleted row back unnoticed.

  `PromptStart` (the delay between arming the alarm and reading the clock is at
  most the slack of one second) is a hypothesis inside the two verdict
  properties, not an assumption: with a longer delay the check misses overruns.

`ComponentsProofs` (`ComponentsAssumption`):

* `TypeCorrect` - `TypeOK` contains that no row is written by two open
  transactions, which `JobReplaced` carries through every action.
* `PromiseKept` - `Spec => KeepsPromise`, the refinement.  `Mirror!Spec` needs
  to know what a committing job holds; `MirrorInv` says it: a report holds only
  parts and versions that were in their slots, a job writes only what it read, deletes only
  what it did not read, has written all it read before it deletes, and one that
  read nothing writes and deletes nothing.  `CommitUpdates` then shows a commit
  to be an `Update`; `Swap` is a `Swap`, and every other step a stutter.
* `CleanSyncsMirror` - `Spec => []CleanSyncMirrors`, from `CleanInv`: a clean job
  runs alone (`Alone`); while it reads, what is in a slot is in its report or
  belongs to a getter still to be called (`ReadRight`); in its transaction the
  report is the hardware (`ReadAll`), and what the report does not have is gone
  or will be when it commits (`Doomed`).

`BaysProofs` (`BaysAssumption`), for any slots, bays, cards and number of adapters:

* `TypeCorrect`, `OnlyWithGoneCard` (`DataLostOnlyWithGoneCard`), `FollowsCard`
  (`DataFollowsCard`), `AdaptersHoused` (`EachHoused`) and `AdaptersStay`
  (`SettledStays`).
* `Sound` holds of the device at all times: a module has one interface at most
  (`Lone`), a port that is in a module is in a bay of its own slot and in a
  card's module (`PortsPlaced`), and nothing but its adapter is in a bay of the
  plugin's own (`NicOK`).  Without it the clean-up, which goes by the names of
  ports, could take a module entered by hand.
* `During` holds in a sync after any number of adapters.  The bays wanted so far
  have their adapters (`DesiredIs`, `FinishedIn`, `Housing`), interfaces of
  adapters to come are as they were (`Elsewhere`), a token is on an untouched
  interface or on a finished port (`TokensKept`), MACs are those recorded before
  or the finished ports' (`MacsOld`), and a card's one holder is where it was
  until the card's turn and is its port from then on (`HolderGone`, `Followed`).
* `Processed` and `Matched` say what one adapter may do to a device and are all
  these proofs use of `Housed`, `Ported` and `Trimmed`.
* `AdaptersStay` is proved relative to that invariant (`StayDuring`).  Another
  adapter's turn takes neither the bay nor the MAC of a settled one, as bays and
  cards of different slots differ (`OtherTurn`); its own turn finds its bay and
  its port and writes what is there (`SettledBay`, `OwnTurn`); the clean-up goes
  by reported bays and does nothing after a partial read (`FinishSettled`).

`PortSyncProofs` (`PortsAssumption`), for any number of ports and interfaces:

* `TypeCorrect`, `OnlyWithRemovedPort` (`DataLostOnlyWithRemovedPort`), `Converge`
  (`PortsConverge`), `FollowsMac` (`DataFollowsMac`) and `Stays` (`SettledStays`).
* The properties speak of the end of a sync; the invariant `During` says what
  holds after any number of its ports: only the interfaces of finished ports
  differ from before (`Untouched`), and how (`FinishedIs`, `FinishedThere`); no
  token has vanished before the clean-up (`TokensKept`); the one cabled
  interface with a port's MAC is as it was until the port's turn and has become
  that port from then on (`Followed`, `HolderGone`); settled ports stay
  (`SettledKept`).  The proof holds for any order in which iDRAC lists the ports.

`MgmtInterfaceProofs` (`MgmtAssumption`):

* `TypeCorrect`, `OneInterface` (`OneManagementInterface`), and three action
  properties: `DataKept` (`SyncKeepsData`), `OthersKept` (`SyncKeepsOthers`),
  `NotTwice` (`NoSecondCopy`).
* `SyncsSettle` (`DoneSettles`) and `SettledIsKept` (`SettledStays`): syncs are
  idempotent, with humans at work between any two statements.  `MeantInv` adds
  to `SyncInv` which interface a sync has matched.  `SettledInv` says that while
  a sync runs on a device that is settled but for its leftover (`Calls`), it has
  changed nothing yet and found what is there; nobody can make a device settled
  under a running sync (`CallsEntered`, `CallsSame`), so what is settled at the
  commit was settled all along.
* `SyncInv`, at the end of the module, is the invariant.  `Sees` says how `view`
  may differ from `db`; `MatchedOK`, `AssignedOK` and `LeftoverOK` say what each
  statement knows when it runs, with `late` for what others committed since.

`DiscoveryProofs` (`DiscoveryAssumption`):

* `TypeCorrect` and `ReviewAwaits` (`AutoSiteAwaitsReview`).  `ReviewInv`, split
  into a part for the rows and one for the scans, says that a device without
  server that a tag could find is excused, and so is the device of any scan
  that holds a confirmed row; without it a scan could attach a confirmed server
  to a device another scan has just created.
* `DuplicatesExcused` (`DuplicateOnlyIfExcused`), from `DupInv`: a device that
  discovery made and that is not stray has its server, under its machine's
  address or with its serial as a second way to be found, or a scan that is
  about to attach it (`OwnRows`), and an edit in progress is of such a device
  (`EditsOK`); two scans at work on a machine have noticed
  each other (`Noticed`); and one that is alone with its machine and past its
  search has found that nobody made a device for it (`Searches`).

`AccessProofs` (`AccessAssumption`), for any address space, keys, passwords and
texts:

* `TypeCorrect`, `LoginCorrect` (`LoginAsEntered`) and `RotationKeeps`
  (`RotationKeepsSecrets`), from `EnteredIsStored` and `KeysKnown` (every key in
  use is configured or was dropped).  `EnteredIsStored` says that what is
  stored, and what an open run or edit will put back, is what was entered,
  unless that was entered while somebody else held the row.  A run or an edit
  that opens holds what is stored, one that saves puts back the same or is
  `raced`.  `LoginAsEntered` is an action property, proved at the step that logs
  in (`LoginStep`): a sync that has read an old password uses it to its end.
* `ExactlyTheTargets` (`ScanExactly`), `InvalidRightly` (`InvalidOnlyIfSo`: a
  text is refused for no reason but the three it names) and `ImportsRightly`
  (`ImportsOnlyTargets`), from `ScanInv`: the targets so far and the hosts still to be added are what the tokens read so far denote, and no
  target is there twice; what the filter has passed is denoted and permitted.
  `HostsDenoted` connects the hosts of a token, computed from the network's
  first address, with `Denotes`, which divides; the lemmas on division with
  remainder before it (`Division`, `Quotient`, `Networks`, `SameNetwork`) do so
  for every network size.  The expansion is an action per host, so no recursive
  definition has to be proved about.

Every invariant and every action property a passing run checks is proved, and
both refinements.  Only model-checked are the liveness properties
`OverrunCorrected`, `RescansCover`, `Converges`, `Settles` and both `Quiesces`:
they rest on fairness and ENABLED, which are outside the prover.

## 5. Findings

`PROJECT.json` quotes the text each finding contradicts.

1. A sync's whole-row save puts a site confirmed meanwhile back on Site Review.
2. A port skipped as ambiguous still lets the clean-up delete its MAC match.
3. A discovered server does not get its range's password, only the user name,
   and is synced with the plugin's default from then on.

Further claims of the repository's texts that the model contradicts are stated
at the end of their modules; naming one in the component's configuration makes
TLC show how:

* `OverrunNotSynced` (`ServerSync`): a discovery import has no elapsed-time check.
* `FlaggedUntilConfirmed` (`Discovery`): a discovered server deleted and
  rediscovered counts as confirmed.
* `EveryMachineCovered` (`Discovery`, with `FairSpec`): a failure between
  `Device.create` and `get_or_create` leaves a device that makes every later
  scan of the machine fail.
* `GoneCardLeaves` (`Bays`; CHANGELOG 0.3.6): a module is taken for the sync's
  own by the names of its ports.  After two cards changed slots, that of a card
  removed since may have lost its port to the other and stays in its bay.
* `RecordedOnce` (`MgmtInterface`; CHANGELOG 0.3.5): a sync that is told no mask
  looks for the address as /32 and records it a second time.
* `BlankKeepsCurrent` (`Access`; `api/serializers.py` 32, `forms.py` 171): a
  request with a blank password writes back the token it read, and a password
  entered between its read and its save is lost, with no sync involved.
* `HostNamesAccepted` (`Access`; `utils.py` 73, "returned as-is"): a host name
  with a dash in it is taken for a range of addresses, and the whole text is
  refused.

Texts that disagree with each other or with the code, where no behaviour over
time is at stake:

* `utils.py` 54-57 (a secret that cannot be decrypted) and `api/serializers.py`
  5-6 tell the user to leave the password blank in the form to clear it; the
  form keeps the stored one when it is blank (`forms.py` 171-174), so the sync
  goes on failing until a password is entered.
* The limit of a scan is looked at after each token, when the token has been
  expanded in full.

The passing properties carry conditions that point at further limits of the
code, which have no run of their own:

* `VerdictOpen`: `_mark_failed` can swallow the very timeout it should record,
  and the job then ends errored with its row still "synced".
* `DataFollowsMac` and `DataFollowsCard` leave out an interface named like one
  port but holding another port's MAC: it is taken by name when its own port
  comes later, and its cable changes port.  A card moved onto a slot whose
  interface is cabled is skipped as ambiguous until a human decides.
* `Distinct`: when the own-MAC lookup fails transiently all ports report the
  first listed MAC and one port's interface, cable included, is renamed onto
  another.
* `DuplicateOnlyIfExcused`: two ranges of different sites that share a machine
  create two devices for it when their scans overlap.  Without any overlap they
  do so when the first device has no serial (the machine tells none, the label
  failed, `update_device_serial` is off) and its server's address is edited to a
  host name, or an edit form opened before the sync wrote the serial takes it
  away; and likewise when its server was deleted or added by hand.
* `Converges` and `CleanSyncMirrors` leave out hardware without components: a
  server that reports nothing keeps its old rows, as after a total failure.
* `KeepsPromise` says nothing of a category that failed alone: its rows are
  deleted, and come back with the next sync that reads it.
* `SyncKeepsData` excepts what is entered on the leftover "iDRAC" interface
  between the question and the deletion; `NoSecondCopy` an address recorded
  between search and creation.  An address the iDRAC had before stays recorded.
* `LoginAsEntered` excepts a password entered while a run or another edit had
  read the row: their whole-row save may put back the one they had read.
* `InvalidOnlyIfSo` admits the refusal of host names with a dash (`HostNamesAccepted`).

## 6. Not modelled, and why

* Redfish connection handling and field parsing: I/O and formatting.  How a
  read may end is modelled where it is consumed.
* LLDP neighbours, speeds, types and labels of interfaces: overwritten from
  the report, no decision depends on them.
* Several ports on each of several adapters together: `Bays` has one port per
  adapter and `PortSync` one adapter.
* Several objects with one MAC on one interface, and a port that reports no
  MAC whose interface holds another port's (the latter may take it; see the
  comment at `PortsConverge`).
* Humans at work during the reconciliation of bays and ports: `PortSync` and
  `Bays` reconcile a port or an adapter in one step.  The same pattern of
  question and deletion is modelled statement by statement in `MgmtInterface`.
* A device whose type changes between two syncs, and an iDRAC address that
  another machine has got since (the sync takes over its service tag).
* NetBox's own edits of devices (serial, name, site), the role the edit form
  sets, and an API request that moves a server to another device.  Two servers
  with one address, in `Access`; targets that are IPv6 networks.
* The schedule of the fleet job and the worker pool: jobs are enqueued at any
  time, which includes every schedule.
* Names that resolve otherwise when the connection is made than when they were
  checked; the text of addresses (ports, brackets), user names.
* Custom fields, tables, filters, GraphQL, navigation, migrations: declarative.

## 7. Plan

Done: all modules of section 2 and their proofs.  Next, in order:

1. Devices whose type changes between syncs, in `Bays`; addresses that change
   machines, in `Discovery`.
2. `Fleet` - workers, queue, the scheduled fan-out.
