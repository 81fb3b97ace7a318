------------------------------ MODULE PortSync ------------------------------
(***************************************************************************)
(* The ports of one network adapter reconciled onto the interfaces of its  *)
(* device: what the client reports of the adapter (idrac/client.py,        *)
(* _get_adapter_ports and _get_function_mac) and what the sync makes of it *)
(* (idrac/sync.py, _sync_interface and the per-adapter part of             *)
(* _sync_network_adapters).                                                *)
(*                                                                         *)
(* An interface is identified by its name, unique on a device, so renaming *)
(* one moves its record.  What a human would not want lost, its cable or   *)
(* its IP addresses, is one token, data, named after the interface it was  *)
(* first put on; the sync moves tokens only by renaming and destroys them  *)
(* only by deleting.                                                       *)
(***************************************************************************)
EXTENDS Integers, Sequences, FiniteSets, Functions, SequencesExt

CONSTANTS
    PortOrder,  \* the adapter's port names in the order iDRAC lists them
    Foreign,    \* names of interfaces that are not ports of the adapter
    OwnMac,     \* OwnMac[p]: the MAC burnt into port p
    NoMac,      \* no MAC address
    NoData,     \* neither a cable nor an IP address
    Outcomes,   \* what reading a port may yield (see Reads)
    MaxSyncs    \* bound on the number of syncs

Ports == Range(PortOrder)
Names == Ports \cup Foreign
Macs == {OwnMac[p] : p \in Ports}
Before(p, q) == \E i, j \in DOMAIN PortOrder : i < j /\ p = PortOrder[i] /\ q = PortOrder[j]

(* How the read of one port may end.  "gone": iDRAC does not list it.      *)
(* "unread": its resource could not be fetched.  "nomac": it lists no      *)
(* address.  "own": it lists its own address alone, or several and its     *)
(* function (or the System's EthernetInterfaces entry) told which is its   *)
(* own.  "shared": it lists every address of the adapter and no lookup     *)
(* answered, so the first one listed is taken.                             *)
Reads == {"gone", "unread", "nomac", "own", "shared"}

ASSUME PortsAssumption ==
    /\ PortOrder \in Seq(Ports) /\ Len(PortOrder) > 0 /\ IsInjective(PortOrder)
    /\ Ports \cap Foreign = {}
    /\ OwnMac \in [Ports -> Macs] /\ IsInjective(OwnMac)
    /\ NoMac \notin Macs /\ NoData \notin Names
    /\ Outcomes \subseteq Reads
    /\ MaxSyncs \in Nat

Iface == {i \in [mod : {"adapter", "other"}, data : Names \cup {NoData},
                 macs : SUBSET Macs, primary : Macs \cup {NoMac}] :
             i.primary \in i.macs \cup {NoMac}}

VARIABLES
    ifc,        \* the device's interfaces: a function from their names
    pc,         \* "idle", "ports" (in the transaction) or "done" (committed)
    left,       \* the reported ports not yet reconciled
    read,       \* read[p]: how the read of port p ended in this sync
    skipped,    \* the ports skipped in this sync
    before,     \* the interfaces when this sync's transaction began
    syncs       \* the syncs begun so far

vars == <<ifc, pc, left, read, skipped, before, syncs>>

-----------------------------------------------------------------------------
(* The client's report.                                                    *)

Reported(p) == read[p] \notin {"gone", "unread"}

\* Mutant: the state before 0.3.7, the first address listed is taken.
ReportedMacFirst(p) ==
    IF read[p] \in {"own", "shared"} THEN OwnMac[PortOrder[1]] ELSE NoMac

ReportedMac(p) == CASE read[p] = "own" -> OwnMac[p]
                    [] read[p] = "shared" -> OwnMac[PortOrder[1]]
                    [] OTHER -> NoMac

\* ports_complete: no listed port was left unread.
PortsComplete == \A p \in Ports : read[p] # "unread"

-----------------------------------------------------------------------------
(* One port.                                                               *)

Carries(n) == ifc[n].data # NoData

\* Mutant: the state before 0.3.8, any holder of the MAC matches.
MatchAnyHolder(mac) == {n \in DOMAIN ifc : mac # NoMac /\ mac \in ifc[n].macs}

\* The interfaces the MAC-first match may return: the database orders equal
\* addresses as it likes.
Match(mac) ==
    LET primaries == {n \in DOMAIN ifc : ifc[n].primary = mac}
        leftovers == {n \in DOMAIN ifc : mac \in ifc[n].macs /\ ifc[n].primary = NoMac}
    IN  IF mac = NoMac THEN {} ELSE IF primaries # {} THEN primaries ELSE leftovers

NewIface == [mod |-> "adapter", data |-> NoData, macs |-> {}, primary |-> NoMac]

\* Mutant: the state before 0.3.8, other addresses stay on the interface.
UpdatedKeepingMacs(i, mac) ==
    IF mac = NoMac THEN [i EXCEPT !.mod = "adapter"]
    ELSE [i EXCEPT !.mod = "adapter", !.macs = @ \cup {mac}, !.primary = mac]

\* Mutant: the clean-up of other addresses does not spare the port's own.
UpdatedDroppingMacs(i, mac) ==
    IF mac = NoMac THEN [i EXCEPT !.mod = "adapter"]
    ELSE [i EXCEPT !.mod = "adapter", !.macs = {}, !.primary = mac]

\* Type, module and LLDP are overwritten; a reported MAC becomes the primary
\* and only one, none reported leaves them alone.
Updated(i, mac) ==
    IF mac = NoMac THEN [i EXCEPT !.mod = "adapter"]
    ELSE [i EXCEPT !.mod = "adapter", !.macs = {mac}, !.primary = mac]

\* The interfaces once src has become port p: whatever held the name p, when
\* it is not src, is dropped.
Become(src, p, mac) ==
    LET old == IF src \in DOMAIN ifc THEN ifc[src] ELSE NewIface
    IN  [n \in (DOMAIN ifc \ {src}) \cup {p} |->
            IF n = p THEN Updated(old, mac) ELSE ifc[n]]

\* _sync_interface, for one choice m of the match (p itself when nothing
\* matched: the interface of that name, or a new one).
SyncInterface(p, m) ==
    LET clash == m # p /\ p \in DOMAIN ifc
    IN  \/ /\ clash /\ Carries(p) /\ Carries(m)
           /\ skipped' = skipped \cup {p} /\ UNCHANGED ifc
        \/ /\ clash /\ Carries(p) /\ ~Carries(m)
           /\ ifc' = Become(p, p, ReportedMac(p)) /\ UNCHANGED skipped
        \/ /\ ~(clash /\ Carries(p))
           /\ ifc' = Become(m, p, ReportedMac(p)) /\ UNCHANGED skipped

-----------------------------------------------------------------------------
\* Any set of interfaces users may have entered, each token on its own.
Init ==
    /\ ifc \in UNION {[S -> Iface] : S \in SUBSET Names}
    /\ \A n \in DOMAIN ifc : ifc[n].data \in {n, NoData}
    /\ pc = "idle" /\ left = {} /\ skipped = {} /\ syncs = 0
    /\ read = [p \in Ports |-> "gone"] /\ before = ifc

\* client.get_network_adapters, inside the transaction.  A port list that
\* could not be fetched is a read of no port at all.
ReadAdapter ==
    /\ pc = "idle" /\ syncs < MaxSyncs
    /\ read' \in [Ports -> Outcomes]
    /\ left' = {p \in Ports : read'[p] \notin {"gone", "unread"}}
    /\ pc' = "ports" /\ skipped' = {} /\ before' = ifc /\ syncs' = syncs + 1
    /\ UNCHANGED ifc

SyncPort ==
    /\ pc = "ports"
    /\ \E p \in left :
          /\ \A q \in left \ {p} : Before(p, q)
          /\ LET matches == Match(ReportedMac(p))
             IN  \E m \in IF matches = {} THEN {p} ELSE matches : SyncInterface(p, m)
          /\ left' = left \ {p}
    /\ UNCHANGED <<pc, read, before, syncs>>

\* The interfaces of the module that the adapter no longer reports, dropped
\* only when some port was reported and none was left unread.
Stale == {n \in DOMAIN ifc : ifc[n].mod = "adapter" /\ ~(n \in Ports /\ Reported(n))}

\* Mutant: the state before 0.3.6, an unread port is taken for a removed one.
DroppedUnread == IF \E p \in Ports : Reported(p) THEN Stale ELSE {}

Dropped == IF PortsComplete /\ \E p \in Ports : Reported(p) THEN Stale ELSE {}

\* Then the sync commits.
Cleanup ==
    /\ pc = "ports" /\ left = {}
    /\ ifc' = Restrict(ifc, DOMAIN ifc \ Dropped)
    /\ pc' = "done"
    /\ UNCHANGED <<left, read, skipped, before, syncs>>

\* Anything that raises in the transaction rolls all of it back.
Abort ==
    /\ pc = "ports"
    /\ ifc' = before /\ pc' = "idle" /\ left' = {}
    /\ UNCHANGED <<read, skipped, before, syncs>>

\* The device rests until its next sync.
Rest ==
    /\ pc = "done"
    /\ pc' = "idle"
    /\ UNCHANGED <<ifc, left, read, skipped, before, syncs>>

Next == ReadAdapter \/ SyncPort \/ Cleanup \/ Abort \/ Rest

Spec == Init /\ [][Next]_vars

-----------------------------------------------------------------------------
TypeOK ==
    /\ DOMAIN ifc \subseteq Names /\ \A n \in DOMAIN ifc : ifc[n] \in Iface
    /\ pc \in {"idle", "ports", "done"}
    /\ left \subseteq Ports
    /\ read \in [Ports -> Reads]
    /\ skipped \subseteq Ports
    /\ DOMAIN before \subseteq Names /\ \A n \in DOMAIN before : before[n] \in Iface
    /\ syncs \in 0..MaxSyncs

\* Where a token is.
Holds(f, d) == {n \in DOMAIN f : f[n].data = d}
PrimaryOf(f, mac) == {n \in DOMAIN f : f[n].primary = mac}
Kept(f) == {f[n].data : n \in DOMAIN f} \ {NoData}

\* No two ports report the same MAC.
Distinct ==
    \A p, q \in Ports : p # q /\ Reported(p) /\ Reported(q) =>
        ReportedMac(p) # ReportedMac(q) \/ ReportedMac(p) = NoMac

\* A cable or address is lost only with an interface that was already on the
\* adapter and that no port is named after, and only after a complete read --
\* and never when it alone had the MAC of a port that was reconciled
\* (sync.py 264-277, 330-360, 651-661).
DataLostOnlyWithRemovedPort ==
    pc = "done" =>
        \A d \in Kept(before) \ Kept(ifc) : \A n \in Holds(before, d) :
            /\ PortsComplete /\ before[n].mod = "adapter"
            /\ ~(n \in Ports /\ Reported(n))
            /\ \A p \in Ports \ skipped :
                  Reported(p) /\ ReportedMac(p) # NoMac =>
                      PrimaryOf(before, ReportedMac(p)) # {n}

\* After a sync every reconciled port that reported a MAC has its interface,
\* on the adapter, holding that MAC and no other -- when no two ports report
\* the same one (sync.py 304-410).  A port that reports none may lose its
\* interface to the port whose MAC that interface holds.
PortsConverge ==
    pc = "done" /\ Distinct =>
        \A p \in Ports \ skipped : Reported(p) /\ ReportedMac(p) # NoMac =>
            /\ p \in DOMAIN ifc /\ ifc[p].mod = "adapter"
            /\ ifc[p].macs = {ReportedMac(p)} /\ ifc[p].primary = ReportedMac(p)

\* The interface that alone has a port's MAC as its primary keeps its cable
\* and becomes that port, whatever an admin had called it; or stays the port
\* it is (sync.py 280-301, 330-360).
DataFollowsMac ==
    pc = "done" /\ Distinct =>
        \A p \in Ports \ skipped, n \in DOMAIN before :
            /\ Reported(p) /\ ReportedMac(p) # NoMac
            /\ PrimaryOf(before, ReportedMac(p)) = {n}
            /\ before[n].data # NoData
            /\ n \in Foreign \cup {p}
            => p \in DOMAIN ifc /\ ifc[p].data = before[n].data

\* An interface already settled as port p: on the adapter, with p's MAC.
Settled(f, p) == /\ p \in DOMAIN f /\ f[p].mod = "adapter"
                 /\ f[p].primary = OwnMac[p] /\ f[p].macs = {OwnMac[p]}
                 /\ \A n \in DOMAIN f \ {p} : OwnMac[p] \notin f[n].macs

\* A port that is settled stays exactly as it is, whatever happens to the
\* other ports, as long as the MACs reported are the ports' own.
SettledStays ==
    pc = "done" /\ (\A p \in Ports : read[p] # "shared") =>
        \A p \in Ports : Settled(before, p) /\ Reported(p) =>
            p \in DOMAIN ifc /\ ifc[p] = before[p]

-----------------------------------------------------------------------------
(* What the repository's own texts claim, stated as they claim it.         *)

\* CHANGELOG 0.3.5: when both interfaces carry data the port is skipped,
\* since only a human can decide which to keep -- so both are kept.
SkippedKeepsBoth ==
    pc = "done" =>
        \A p \in skipped, n \in DOMAIN before :
            before[n].primary = ReportedMac(p) /\ before[n].data # NoData =>
                before[n].data \in Kept(ifc)
=============================================================================
