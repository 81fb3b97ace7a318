------------------------------ MODULE Discovery ------------------------------
(***************************************************************************)
(* Discovery jobs that import reachable iDRACs (idrac/discovery.py), over  *)
(* the Device and DellServer rows they share with each other, with the     *)
(* sync jobs and with the users.  A scan runs outside any transaction:     *)
(* between two of its statements other jobs and requests run, one target   *)
(* may fail, and the worker may be killed.                                 *)
(*                                                                         *)
(* A machine stands for one Dell server, its iDRAC address and its service *)
(* tag.  The database keeps two constraints the code leans on: device      *)
(* names are unique in a site, and a device has at most one DellServer.    *)
(***************************************************************************)
EXTENDS Integers, Sequences, Functions, SequencesExt

CONSTANTS
    Targets,        \* the machines in the order every range lists them
    Scans,          \* discovery jobs, each of one scan range
    Editors,        \* requests that edit a server, one at a time each
    SiteOf,         \* SiteOf[s]: the site of that range
    NameOf,         \* NameOf[m]: the device name derived from m's FQDN or host name
    Tagless,        \* the machines that report no service tag
    UpdateSerial,   \* the setting update_device_serial
    UserOps,        \* which user requests may happen
    MaxDevices,     \* bound on the devices ever created
    MaxServers,     \* bound on the DellServer rows ever created
    MaxEdits,       \* bound on the servers users ever add or edit
    MaxFaults       \* bound on failing statements and kills

Machines == Range(Targets)
Sites == {SiteOf[s] : s \in Scans}
Names == {NameOf[m] : m \in Machines}
NoTag == "no tag"
HostName == "host name"     \* an address users may enter, never a target

ASSUME DiscoveryAssumption ==
    /\ Targets \in Seq(Machines) /\ IsInjective(Targets)
    /\ SiteOf \in [Scans -> Sites] /\ NameOf \in [Machines -> Names]
    /\ Tagless \subseteq Machines /\ UpdateSerial \in BOOLEAN
    /\ MaxDevices \in Nat /\ MaxServers \in Nat
    /\ MaxEdits \in Nat /\ MaxFaults \in Nat
    /\ NoTag \notin Machines /\ HostName \notin Machines

VARIABLES
    devices,    \* the Device rows: a function from their keys
    servers,    \* the DellServer rows, keyed by their device
    scan,       \* the state of every discovery job
    edit,       \* edit[e]: the rows an edit request has read
    made,       \* the device and DellServer keys handed out, and the servers users
                \* added or edited, so far
    faults,     \* failing statements and kills so far
    stray,      \* ghost: the discovered devices left without a server, given one
                \* by a user, or hidden from the scans by an edit
    overlap     \* ghost: the machines two writers worked on at once

vars == <<devices, servers, scan, edit, made, faults, stray, overlap>>

Tag(m) == IF m \in Tagless THEN NoTag ELSE m

\* of and found are ghosts: the machine, and whether discovery created the
\* device and gave it a site nobody has confirmed yet.
Device(m, site, found) ==
    [name |-> NameOf[m], site |-> site, tag |-> NoTag, of |-> m, found |-> found]

NameTaken(name, site) ==
    \E d \in DOMAIN devices : devices[d].name = name /\ devices[d].site = site

NoServer == [id |-> 0, addr |-> NoTag, confirmed |-> FALSE]
NoEdit == [dev |-> 0, id |-> 0, confirmed |-> FALSE, tag |-> NoTag, of |-> NoTag]
IdleScan == [pc |-> "idle", todo |-> <<>>, dev |-> 0, new |-> FALSE, srv |-> NoServer]

Target(s) == Head(scan[s].todo)
Importing == {"lookup", "create", "attach", "device", "save"}
Busy(s, m) == scan[s].pc \in Importing /\ Target(s) = m

\* Mutant: the question is not asked.
ManagedUnasked(m) == m # m

\* "Already managed" is asked by address.
Managed(m) == \E d \in DOMAIN servers : servers[d].addr = m

\* The devices a service tag finds.
Tagged(m) == {d \in DOMAIN devices : m \notin Tagless /\ devices[d].tag = Tag(m)}

-----------------------------------------------------------------------------
Goto(s, pc) == scan' = [scan EXCEPT ![s].pc = pc]

\* Mutant: the scan ends where it should go on.
StopScan(s) == scan' = [scan EXCEPT ![s] = IdleScan]

\* s is finished with its target: the per-target finally, then the next one.
NextTarget(s) ==
    scan' = [scan EXCEPT ![s] =
                [IdleScan EXCEPT !.pc = "check", !.todo = Tail(scan[s].todo)]]

NotedOverlap(s, m) ==
    overlap' = IF \E t \in Scans \ {s} : Busy(t, m) THEN overlap \cup {m} ELSE overlap

\* A discovered device is left to itself, taken over by a user, or hidden.
Strayed(D) == stray' = stray \cup {d \in D \cap DOMAIN devices : devices[d].found}

Fault == faults < MaxFaults /\ faults' = faults + 1

\* Devices of machines onboarded by another tool, with or without a serial.
Init ==
    /\ \/ devices = << >> /\ made = [dev |-> 0, srv |-> 0, edit |-> 0]
       \/ /\ \E m \in Machines, site \in Sites : \E tag \in {NoTag, Tag(m)} :
                devices = [d \in {1} |-> [Device(m, site, FALSE) EXCEPT !.tag = tag]]
          /\ made = [dev |-> 1, srv |-> 0, edit |-> 0]
    /\ servers = << >>
    /\ scan = [s \in Scans |-> IdleScan] /\ edit = [e \in Editors |-> NoEdit]
    /\ faults = 0 /\ stray = {} /\ overlap = {}

\* Run scan: the enabled range's targets, filtered and expanded.
StartScan(s) ==
    /\ scan[s].pc = "idle"
    /\ scan' = [scan EXCEPT ![s].pc = "check", ![s].todo = Targets]
    /\ UNCHANGED <<devices, servers, edit, made, faults, stray, overlap>>

FinishScan(s) ==
    /\ scan[s].pc = "check" /\ scan[s].todo = <<>>
    /\ Goto(s, "idle")
    /\ UNCHANGED <<devices, servers, edit, made, faults, stray, overlap>>

\* A target some DellServer has as its address is skipped.
SkipManaged(s) ==
    /\ scan[s].pc = "check" /\ scan[s].todo # <<>> /\ Managed(Target(s))
    /\ NextTarget(s)
    /\ UNCHANGED <<devices, servers, edit, made, faults, stray, overlap>>

\* The other targets are probed.
Probe(s) ==
    /\ scan[s].pc = "check" /\ scan[s].todo # <<>> /\ ~Managed(Target(s))
    /\ \/ Goto(s, "lookup") /\ UNCHANGED faults
       \/ Fault /\ NextTarget(s)
    /\ NotedOverlap(s, Target(s))
    /\ UNCHANGED <<devices, servers, edit, made, stray>>

\* Device.objects.filter(serial=service_tag).first().
Lookup(s) ==
    /\ scan[s].pc = "lookup"
    /\ LET found == Tagged(Target(s))
       IN  \/ /\ \E d \in found :
                    scan' = [scan EXCEPT ![s].pc = "attach", ![s].dev = d]
              /\ UNCHANGED faults
           \/ found = {} /\ Goto(s, "create") /\ UNCHANGED faults
           \/ Fault /\ NextTarget(s)
    /\ UNCHANGED <<devices, servers, edit, made, stray, overlap>>

\* Device.objects.create: refused when the name is taken in the site.
CreateDevice(s) ==
    /\ scan[s].pc = "create"
    /\ LET m == Target(s)
           d == made.dev + 1
       IN  \/ /\ ~NameTaken(NameOf[m], SiteOf[s]) /\ made.dev < MaxDevices
              /\ devices' = [e \in DOMAIN devices \cup {d} |->
                                IF e = d THEN Device(m, SiteOf[s], TRUE) ELSE devices[e]]
              /\ made' = [made EXCEPT !.dev = d]
              /\ scan' = [scan EXCEPT ![s].pc = "attach", ![s].dev = d, ![s].new = TRUE]
              /\ UNCHANGED faults
           \/ /\ NameTaken(NameOf[m], SiteOf[s])
              /\ NextTarget(s) /\ UNCHANGED <<devices, made, faults>>
           \/ Fault /\ NextTarget(s) /\ UNCHANGED <<devices, made>>
    /\ UNCHANGED <<servers, edit, stray, overlap>>

\* Mutant: every discovered server counts as confirmed.
ConfirmedAlways(s) == scan[s].pc = "attach"

\* A new device's site came from the range and awaits its review.
Confirmed(s) == ~scan[s].new

WithServer(d, row) == [e \in DOMAIN servers \cup {d} |-> IF e = d THEN row ELSE servers[e]]

\* DellServer.objects.get_or_create(device=device, defaults).
Attach(s) ==
    /\ scan[s].pc = "attach"
    /\ LET d == scan[s].dev
           new == [id |-> made.srv + 1, addr |-> Target(s), confirmed |-> Confirmed(s)]
           Holding(row) == scan' = [scan EXCEPT ![s].pc = "device", ![s].srv = row, ![s].new = FALSE]
       IN  \/ /\ d \in DOMAIN servers
              /\ Holding(servers[d]) /\ UNCHANGED <<servers, made, faults, stray>>
           \/ /\ d \in DOMAIN devices \ DOMAIN servers /\ made.srv < MaxServers
              /\ servers' = WithServer(d, new)
              /\ made' = [made EXCEPT !.srv = @ + 1]
              /\ Holding(new) /\ UNCHANGED <<faults, stray>>
           \/ /\ d \notin DOMAIN devices
              /\ NextTarget(s) /\ UNCHANGED <<servers, made, faults, stray>>
           \/ /\ Fault /\ NextTarget(s)
              /\ Strayed(IF scan[s].new THEN {d} ELSE {}) /\ UNCHANGED <<servers, made>>
    /\ UNCHANGED <<devices, edit, overlap>>

Labelled(d, m) ==
    devices' = IF d \in DOMAIN devices /\ UpdateSerial /\ m \notin Tagless
               THEN [devices EXCEPT ![d].tag = Tag(m)] ELSE devices

\* sync_server with the scan's client, up to _update_device: the service tag
\* becomes the device's serial, best effort.
SyncDevice(s) ==
    /\ scan[s].pc = "device"
    /\ \/ Labelled(scan[s].dev, Target(s)) /\ Goto(s, "save") /\ UNCHANGED faults
       \/ Fault /\ Goto(s, "save") /\ UNCHANGED devices
       \/ Fault /\ NextTarget(s) /\ UNCHANGED devices
    /\ UNCHANGED <<servers, edit, made, stray, overlap>>

\* The row with this primary key is that of device d, or can be inserted.
Free(d, row) == d \in DOMAIN servers => servers[d].id = row.id

\* ... and its transaction, which saves the whole row it holds: an insert
\* when the row has gone, refused without the device or beside another row.
SyncSave(s) ==
    /\ scan[s].pc = "save"
    /\ LET d == scan[s].dev
           saves == d \in DOMAIN devices /\ Free(d, scan[s].srv)
       IN  \/ saves /\ servers' = WithServer(d, scan[s].srv) /\ UNCHANGED faults
           \/ ~saves /\ UNCHANGED <<servers, faults>>
           \/ Fault /\ UNCHANGED servers
    /\ NextTarget(s)
    /\ UNCHANGED <<devices, edit, made, stray, overlap>>

\* The worker is killed, or RQ gives the overlong scan up.
Kill(s) ==
    /\ scan[s].pc # "idle" /\ Fault
    /\ scan' = [scan EXCEPT ![s] = IdleScan]
    /\ Strayed(IF scan[s].pc = "attach" /\ scan[s].new THEN {scan[s].dev} ELSE {})
    /\ UNCHANGED <<devices, servers, edit, made, overlap>>

-----------------------------------------------------------------------------
(* The other writers.                                                      *)

\* A DellSyncJob of the server labels its device.
Resync(d) ==
    /\ "resync" \in UserOps /\ d \in DOMAIN servers
    /\ Labelled(d, devices[d].of)
    /\ UNCHANGED <<servers, scan, edit, made, faults, stray, overlap>>

\* The Site Review page confirms or corrects the site of a pending server.
ConfirmSite(d) ==
    /\ "confirm" \in UserOps /\ d \in DOMAIN servers /\ ~servers[d].confirmed
    /\ \E site \in Sites :
          /\ site = devices[d].site \/ ~NameTaken(devices[d].name, site)
          /\ devices' = [devices EXCEPT ![d].site = site, ![d].found = FALSE]
    /\ servers' = [servers EXCEPT ![d].confirmed = TRUE]
    /\ UNCHANGED <<scan, edit, made, faults, stray, overlap>>

\* A user deletes a DellServer; its device stays.
DeleteServer(d) ==
    /\ "delete" \in UserOps /\ d \in DOMAIN servers
    /\ servers' = Restrict(servers, DOMAIN servers \ {d})
    /\ Strayed({d})
    /\ UNCHANGED <<devices, scan, edit, made, faults, overlap>>

\* Mutant: the server outlives its device.
DeleteDeviceOnly(d) ==
    /\ "delete" \in UserOps /\ d \in DOMAIN devices
    /\ devices' = Restrict(devices, DOMAIN devices \ {d})
    /\ UNCHANGED <<servers, scan, edit, made, faults, stray, overlap>>

\* A user deletes a device, and its server with it.
DeleteDevice(d) ==
    /\ "delete" \in UserOps /\ d \in DOMAIN devices
    /\ devices' = Restrict(devices, DOMAIN devices \ {d})
    /\ servers' = Restrict(servers, DOMAIN servers \ {d})
    /\ UNCHANGED <<scan, edit, made, faults, stray, overlap>>

\* A user adds a Dell server to an existing device (Device page, API), by its
\* iDRAC's IP address or by a host name, which no scan recognises.
AddServer(d) ==
    /\ "add" \in UserOps /\ d \in DOMAIN devices \ DOMAIN servers
    /\ made.srv < MaxServers /\ made.edit < MaxEdits
    /\ \E addr \in {devices[d].of, HostName} :
          servers' = WithServer(d, [id |-> made.srv + 1, addr |-> addr,
                                    confirmed |-> TRUE])
    /\ made' = [made EXCEPT !.srv = @ + 1, !.edit = @ + 1]
    /\ Strayed({d})
    /\ UNCHANGED <<devices, scan, edit, faults, overlap>>

\* An edit of a server, by the form or the API, reads its row, and the form
\* the Device row as well ...
OpenEdit(e, d) ==
    /\ "edit" \in UserOps /\ edit[e] = NoEdit /\ d \in DOMAIN servers
    /\ made.edit < MaxEdits /\ made' = [made EXCEPT !.edit = @ + 1]
    /\ edit' = [edit EXCEPT ![e] = [dev |-> d, id |-> servers[d].id,
                                   confirmed |-> servers[d].confirmed,
                                   tag |-> devices[d].tag, of |-> devices[d].of]]
    /\ UNCHANGED <<devices, servers, scan, faults, stray, overlap>>

\* An edit hides a device if it takes its serial away, or leaves it without
\* one under an address that no scan recognises.
Hides(d, dev, row) ==
    /\ dev.tag = NoTag
    /\ row.addr # dev.of \/ (d \in DOMAIN devices /\ devices[d].tag # NoTag)

\* ... and saves what it read, every column, with what was entered: refused
\* for a name taken in the site, or beside another server of the device.  A
\* row that has gone is inserted again.
SaveRows(e, dev, row) ==
    LET d == edit[e].dev
    IN  /\ Free(d, row)
        /\ \A f \in DOMAIN devices \ {d} : <<devices[f].name, devices[f].site>>
                                           # <<dev.name, dev.site>>
        /\ devices' = [f \in DOMAIN devices \cup {d} |-> IF f = d THEN dev ELSE devices[f]]
        /\ servers' = WithServer(d, row)
        /\ Strayed(IF Hides(d, dev, row) THEN {d} ELSE {})

\* The form: name, site and address may be changed, and the device's other
\* columns are put back.  (found is no column: nobody confirms here, and a
\* device inserted again is the user's.)
SaveForm(e) ==
    /\ edit[e] # NoEdit
    /\ LET d == edit[e].dev
           found == d \in DOMAIN devices /\ devices[d].found
       IN  \E name \in Names, site \in Sites, addr \in {edit[e].of, HostName} :
              SaveRows(e, [name |-> name, site |-> site, tag |-> edit[e].tag,
                           of |-> edit[e].of, found |-> found],
                       [id |-> edit[e].id, addr |-> addr, confirmed |-> edit[e].confirmed])
    /\ edit' = [edit EXCEPT ![e] = NoEdit]
    /\ UNCHANGED <<scan, made, faults, overlap>>

\* The API: the address and the review flag may be changed, the device stays.
Patch(e) ==
    /\ edit[e] # NoEdit /\ edit[e].dev \in DOMAIN devices
    /\ LET dev == devices[edit[e].dev]
       IN  \E confirmed \in BOOLEAN, addr \in {edit[e].of, HostName} :
              SaveRows(e, [dev EXCEPT !.found = @ /\ (edit[e].confirmed \/ ~confirmed)],
                       [id |-> edit[e].id, addr |-> addr, confirmed |-> confirmed])
    /\ edit' = [edit EXCEPT ![e] = NoEdit]
    /\ UNCHANGED <<scan, made, faults, overlap>>

\* The request is refused, or fails.
DropEdit(e) ==
    /\ edit[e] # NoEdit
    /\ edit' = [edit EXCEPT ![e] = NoEdit]
    /\ UNCHANGED <<devices, servers, scan, made, faults, stray, overlap>>

ScanStep(s) ==
    \/ FinishScan(s) \/ SkipManaged(s) \/ Probe(s) \/ Lookup(s)
    \/ CreateDevice(s) \/ Attach(s) \/ SyncDevice(s) \/ SyncSave(s)

Next ==
    \/ \E s \in Scans : StartScan(s) \/ ScanStep(s) \/ Kill(s)
    \/ \E d \in 1..MaxDevices : \/ Resync(d) \/ ConfirmSite(d) \/ AddServer(d)
                               \/ DeleteServer(d) \/ DeleteDevice(d)
                               \/ \E e \in Editors : OpenEdit(e, d)
    \/ \E e \in Editors : SaveForm(e) \/ Patch(e) \/ DropEdit(e)

Spec == Init /\ [][Next]_vars

\* Workers run the scans they hold, and every range is scanned again and
\* again.
FairSpec ==
    Spec /\ \A s \in Scans : WF_vars(StartScan(s)) /\ WF_vars(ScanStep(s))

-----------------------------------------------------------------------------
DeviceType == [name : Names, site : Sites, tag : Machines \cup {NoTag},
               of : Machines, found : BOOLEAN]
ServerType == [id : Nat, addr : Machines \cup {HostName}, confirmed : BOOLEAN]
ScanType == [pc : {"idle", "check"} \cup Importing, todo : Seq(Machines), dev : Nat,
             new : BOOLEAN, srv : ServerType \cup {NoServer}]
EditType == [dev : Nat \ {0}, id : Nat, confirmed : BOOLEAN,
             tag : Machines \cup {NoTag}, of : Machines]

\* Types, and the database's constraints: a server has its device, names are
\* unique in a site, and keys in use or held have been handed out.
TypeOK ==
    /\ made \in [dev : Nat, srv : Nat, edit : Nat] /\ faults \in 0..MaxFaults
    /\ DOMAIN devices \subseteq 1..made.dev /\ DOMAIN servers \subseteq DOMAIN devices
    /\ devices \in [DOMAIN devices -> DeviceType] /\ servers \in [DOMAIN servers -> ServerType]
    /\ \A d \in DOMAIN servers : servers[d].id \in 1..made.srv
    /\ \A d, e \in DOMAIN devices : d # e => <<devices[d].name, devices[d].site>>
                                             # <<devices[e].name, devices[e].site>>
    /\ scan \in [Scans -> ScanType]
    /\ \A s \in Scans :
          /\ scan[s].pc \in Importing => scan[s].todo # <<>>
          /\ scan[s].dev \in 0..made.dev
          /\ scan[s].pc \in {"device", "save"} =>
                scan[s].srv \in ServerType /\ scan[s].srv.id \in 1..made.srv
    /\ edit \in [Editors -> EditType \cup {NoEdit}]
    /\ \A e \in Editors : edit[e].dev \in 0..made.dev /\ edit[e].id \in 0..made.srv

\* A device whose site was taken from a scan range, and that never lost its
\* server, is listed for site review until somebody confirms it, whatever
\* scans, syncs, failures and users do (discovery.py 138-149).
AutoSiteAwaitsReview ==
    \A d \in DOMAIN servers \ stray : devices[d].found => ~servers[d].confirmed

\* What AutoSiteAwaitsReview rests on (DiscoveryProofs): a discovered device
\* whose server is not excused has it, or has no tag to be found by; and what
\* a scan holds of a device it did not make, or anyone holds confirmed, is
\* excused.
Excused(d) == d \in DOMAIN devices => ~devices[d].found \/ d \in stray
ReviewInv ==
    /\ \A d \in DOMAIN devices \ DOMAIN servers : Excused(d) \/ devices[d].tag = NoTag
    /\ \A s \in Scans :
          /\ (scan[s].pc = "attach" /\ ~scan[s].new) \/ scan[s].pc \in {"device", "save"} =>
                Excused(scan[s].dev) \/ scan[s].dev \in DOMAIN servers
          /\ scan[s].pc \in {"device", "save"} /\ scan[s].srv.confirmed =>
                Excused(scan[s].dev)
    /\ \A e \in Editors : edit[e].confirmed => Excused(edit[e].dev)

\* Discovery makes a second device for a machine only if two scans worked on
\* it at once, or a user or a fault took from the one before what the next
\* scan knows it by: its server, its serial, or, of a device without serial,
\* its address (discovery.py 92-135).
Copies(m) == {d \in DOMAIN devices : devices[d].of = m /\ devices[d].found}
DuplicateOnlyIfExcused ==
    \A m \in Machines : \A d, e \in Copies(m) \ stray : d # e => m \in overlap

\* Some DellServer of the machine's own device.
Covered(m) == \E d \in DOMAIN servers : devices[d].of = m

\* No device has the machine's tag, and its name is taken in every range.
Blocked(m) == Tagged(m) = {} /\ \A s \in Scans : NameTaken(NameOf[m], SiteOf[s])

\* Rescanning gets every machine a server, or finds its name taken, after any
\* number of failures (discovery.py 101-154).
RescansCover == \A m \in Machines : <>[](Covered(m) \/ Blocked(m))

-----------------------------------------------------------------------------
(* What the repository's own texts claim, stated as they claim it.         *)

\* models.py 98-103: a newly created device is flagged for review and must
\* have its site confirmed.
FlaggedUntilConfirmed == \A d \in DOMAIN servers : devices[d].found => ~servers[d].confirmed

\* README 191-193: each reachable iDRAC is attached to a device, or gets a
\* new one.
EveryMachineCovered == \A m \in Machines : <>Covered(m)
=============================================================================
