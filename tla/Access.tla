------------------------------- MODULE Access -------------------------------
(***************************************************************************)
(* What the plugin logs in to, and with which password: the passwords of   *)
(* servers and scan ranges, encrypted under the keys of the configuration  *)
(* each process loaded when it started; key rotation; and the expansion of *)
(* a scan range into targets (utils.py, resolve_credentials, the start of  *)
(* discover_range, the forms and serializers that store a password).       *)
(*                                                                         *)
(* A run is one connection with the row it loaded and will save whole; a   *)
(* scan opens one for each target it imports.  An edit is one request: it  *)
(* reads a row and later saves every column of it.  User names follow the  *)
(* passwords, except that a scan copies the range's to the new server.     *)
(* A host has one server at most; addresses are IPv4.                      *)
(***************************************************************************)
EXTENDS Integers, Sequences, FiniteSets, Functions

CONSTANTS
    Keys,           \* secret keys
    Passwords,      \* what users enter
    Default,        \* the password of the environment or the plugin settings
    Texts,          \* what the targets field may hold: sequences of tokens
    Space,          \* how many addresses there are
    Sizes,          \* how many of them a network may have: powers of two
    HostNames,
    Hyphenated,     \* the host names with a dash in them
    Resolves,       \* Resolves[h]: the addresses of host name h
    Allowed,        \* the addresses of allowed_networks; {}: not restricted
    Reachable,      \* the targets that answer
    Entered,        \* the hosts users enter servers for
    Editors,        \* requests that edit a server or the scan range
    Limit,          \* MAX_SCAN_TARGETS
    ScanRange,      \* the scan range, as a place a password is kept at
    NoSecret,       \* a place without a password of its own
    NoServer,       \* a host without a DellServer
    None,
    MaxChanges      \* bound on what administrators and users do

Addresses == 0..(Space - 1)
Hosts == Addresses \cup HostNames

Cidrs == [kind : {"cidr"}, base : Addresses, size : Sizes]
Dashed == [kind : {"range"}, first : Addresses, last : Addresses]
Singles == [kind : {"host"}, host : Hosts]
\* A network or a pair of addresses that cannot be read as one.
Malformed == [kind : {"malformed"}]
Tokens == Cidrs \cup Dashed \cup Singles \cup Malformed

Places == Hosts \cup {ScanRange}
Processes == {"web", "worker"}
Runners == {"scan", "job"}

ASSUME AccessAssumption ==
    /\ Space \in Nat \ {0} /\ \A n \in Sizes : n \in 1..Space /\ Space % n = 0
    /\ HostNames \cap (Addresses \cup {ScanRange}) = {} /\ ScanRange \notin Addresses
    /\ Hyphenated \subseteq HostNames /\ Resolves \in [HostNames -> SUBSET Addresses]
    /\ Allowed \subseteq Addresses /\ Reachable \subseteq Hosts /\ Entered \subseteq Hosts
    /\ \A t \in Texts : t \in Seq(Tokens)
    /\ Default \notin Passwords /\ None \notin Passwords \cup {Default}
    /\ NoSecret # NoServer /\ {NoSecret, NoServer} \cap [key : Keys, pw : Passwords] = {}
    /\ Limit \in Nat /\ MaxChanges \in Nat

VARIABLES
    config,     \* the configuration file: the primary key and the fallbacks
    keys,       \* keys[p]: what process p loaded of it
    dropped,    \* ghost: the keys ever taken out of it
    secret,     \* secret[x]: the stored token of x, NoSecret or, of a host, NoServer
    meant,      \* ghost: the password last entered for x, or None
    raced,      \* ghost: the places it was entered at while others held the row
    form,       \* form[e]: the row an edit has read: where it is and its token
    text,       \* the targets of the scan range
    scan,       \* the discovery job
    runs,       \* runs[j]: the connection the scan, or a sync job, has open
    origin,     \* ghost: the password a server was discovered with
    changes

vars == <<config, keys, dropped, secret, meant, raced, form, text, scan, runs, origin, changes>>

Token == [key : Keys, pw : Passwords]

-----------------------------------------------------------------------------
(* Secrets.                                                                *)

\* Mutant: the fallbacks are forgotten.
KeysOfPrimary(c) == {c.primary}

KeysOf(c) == {c.primary} \cup c.fallbacks

\* Mutant: the error is swallowed and the default used.
DecryptableAlways(token, p) == TRUE

Decryptable(token, p) == token \in Token => token.key \in KeysOf(keys[p])

\* resolve_credentials and _credentials, once the token can be decrypted.
PasswordOf(token) ==
    IF token \in Token /\ token.key \in KeysOf(keys["worker"]) THEN token.pw ELSE Default

\* Mutant: a blank password is encrypted too.
StoredBlank(token, pw) == [key |-> keys["web"].primary, pw |-> pw]

\* What a row with that token is saved with; a blank password keeps the token.
Stored(token, pw) == IF pw # None THEN [key |-> keys["web"].primary, pw |-> pw] ELSE token

-----------------------------------------------------------------------------
(* Targets.                                                                *)

Interval(a, b) == [i \in 1..(IF a <= b THEN b - a + 1 ELSE 0) |-> a + i - 1]

\* The first address of the network of that size that a is in.
Network(a, size) == a - (a % size)

\* Mutant: the network and broadcast addresses are targets too.
HostsOfAll(t) ==
    IF t.kind = "host" THEN <<t.host>>
    ELSE IF t.kind = "range" THEN Interval(t.first, t.last)
    ELSE LET net == Network(t.base, t.size) IN Interval(net, net + t.size - 1)

\* Anything with a dash is taken for a dashed range, host names included.
Readable(t) == t.kind # "malformed" /\ ~(t.kind = "host" /\ t.host \in Hyphenated)

\* ip_network(strict=False).hosts(), a dashed range, or the token itself.  Of an
\* IPv6 network, which is not modelled, hosts() keeps the last address as well.
HostsOf(t) ==
    IF t.kind = "host" THEN <<t.host>>
    ELSE IF t.kind = "range" THEN Interval(t.first, t.last)
    ELSE LET net == Network(t.base, t.size)
             inner == IF t.size <= 2 THEN 0 ELSE 1
         IN  Interval(net + inner, net + t.size - 1 - inner)

\* Mutant: duplicates are kept.
AddedTwice(out, h) == Append(out, h)

Added(out, h) == IF h \in Range(out) THEN out ELSE Append(out, h)

AddressesOf(h) == IF h \in Addresses THEN {h} ELSE Resolves[h]
SameMachine(g, h) == AddressesOf(g) \cap AddressesOf(h) # {}

\* Mutant: one address of a name is enough.
PermittedOne(h) == Allowed = {} \/ AddressesOf(h) \cap Allowed # {}

\* check_address_allowed: every address of a name counts, and it must have one.
Permitted(h) ==
    Allowed = {} \/ (AddressesOf(h) # {} /\ AddressesOf(h) \subseteq Allowed)

-----------------------------------------------------------------------------
IdleScan == [pc |-> "idle", todo |-> <<>>, pending |-> <<>>, out |-> <<>>,
             pw |-> None, message |-> "none"]

Init ==
    /\ \E k \in Keys : config = [primary |-> k, fallbacks |-> {}]
    /\ keys = [p \in Processes |-> config] /\ dropped = {}
    /\ secret = [x \in Places |-> IF x = ScanRange THEN NoSecret ELSE NoServer]
    /\ meant = [x \in Places |-> None] /\ raced = {} /\ form = [e \in Editors |-> None]
    /\ text \in Texts /\ scan = IdleScan
    /\ runs = [j \in Runners |-> None]
    /\ origin = [h \in Hosts |-> None] /\ changes = 0

Change == changes < MaxChanges /\ changes' = changes + 1

\* Django's documented rotation: the old key becomes a fallback.
Rotate(k) ==
    /\ Change /\ k \in Keys \ KeysOf(config) /\ k \notin dropped
    /\ config' = [primary |-> k, fallbacks |-> KeysOf(config)]
    /\ UNCHANGED <<keys, dropped, secret, meant, raced, form, text, scan, runs, origin>>

DropFallbacks ==
    /\ Change /\ config.fallbacks # {}
    /\ config' = [config EXCEPT !.fallbacks = {}]
    /\ dropped' = dropped \cup config.fallbacks
    /\ UNCHANGED <<keys, secret, meant, raced, form, text, scan, runs, origin>>

\* A restarted process takes its open jobs and requests with it.
Restart(p) ==
    /\ keys[p] # config
    /\ keys' = [keys EXCEPT ![p] = config]
    /\ IF p = "worker" THEN /\ scan' = [IdleScan EXCEPT !.message = scan.message]
                            /\ runs' = [j \in Runners |-> None] /\ UNCHANGED form
                       ELSE form' = [e \in Editors |-> None] /\ UNCHANGED <<scan, runs>>
    /\ UNCHANGED <<config, dropped, secret, meant, raced, text, origin, changes>>

Open(j, x) == runs[j] # None /\ runs[j].host = x

-----------------------------------------------------------------------------
(* The forms and the REST API, for a server and for the scan range.        *)

Meant(x, pw) == [meant EXCEPT ![x] = IF pw = None THEN @ ELSE pw]

\* A new server: nothing is read.
Enter(x, pw) ==
    /\ Change /\ secret[x] = NoServer /\ x \in Entered
    /\ secret' = [secret EXCEPT ![x] = Stored(NoSecret, pw)]
    /\ meant' = Meant(x, pw)
    /\ UNCHANGED <<config, keys, dropped, raced, form, text, scan, runs, origin>>

\* An edit reads the row ...
OpenForm(e, x) ==
    /\ Change /\ form[e] = None /\ secret[x] # NoServer
    /\ form' = [form EXCEPT ![e] = [place |-> x, token |-> secret[x]]]
    /\ UNCHANGED <<config, keys, dropped, secret, meant, raced, text, scan, runs, origin>>

\* Others than e have read the row of x and will save it whole.
Held(e, x) ==
    \/ \E j \in Runners : Open(j, x)
    \/ \E f \in Editors \ {e} : form[f] # None /\ form[f].place = x

\* ... and saves it whole, with the password entered or the token it has read.
SaveForm(e, pw) ==
    /\ form[e] # None
    /\ LET x == form[e].place IN
          /\ secret' = [secret EXCEPT ![x] = Stored(form[e].token, pw)]
          /\ meant' = Meant(x, pw)
          /\ raced' = IF pw = None THEN raced
                      ELSE IF Held(e, x) THEN raced \cup {x} ELSE raced \ {x}
    /\ form' = [form EXCEPT ![e] = None]
    /\ UNCHANGED <<config, keys, dropped, text, scan, runs, origin, changes>>

\* An edit is refused or fails.
DropForm(e) ==
    /\ form[e] # None
    /\ form' = [form EXCEPT ![e] = None]
    /\ UNCHANGED <<config, keys, dropped, secret, meant, raced, text, scan, runs, origin, changes>>

-----------------------------------------------------------------------------
(* Syncs.                                                                  *)

Run(h, pw) == [host |-> h, token |-> secret[h], pw |-> pw]

\* sync_server logs in; a token it cannot decrypt fails the sync before that.
BeginSync(h) ==
    /\ runs["job"] = None /\ secret[h] # NoServer
    /\ Permitted(h) /\ Decryptable(secret[h], "worker")
    /\ runs' = [runs EXCEPT !["job"] = Run(h, PasswordOf(secret[h]))]
    /\ UNCHANGED <<config, keys, dropped, secret, meant, raced, form, text, scan, origin, changes>>

\* The sync ends and saves the row as it loaded it, the password included; a
\* failed one saves its verdict only.
EndSync(j) ==
    /\ runs[j] # None
    /\ \/ secret' = [secret EXCEPT ![runs[j].host] = runs[j].token]
       \/ UNCHANGED secret
    /\ runs' = [runs EXCEPT ![j] = None]
    /\ UNCHANGED <<config, keys, dropped, meant, raced, form, text, scan, origin, changes>>

-----------------------------------------------------------------------------
(* The scan.                                                               *)

\* Of an enabled range.
BeginScan ==
    /\ scan.pc = "idle"
    /\ IF Decryptable(secret[ScanRange], "worker")
       THEN scan' = [IdleScan EXCEPT !.pc = "token", !.todo = text,
                                     !.pw = PasswordOf(secret[ScanRange])]
       ELSE scan' = [IdleScan EXCEPT !.message = "refused"]
    /\ UNCHANGED <<config, keys, dropped, secret, meant, raced, form, text, runs, origin, changes>>

Invalid == [IdleScan EXCEPT !.message = "invalid"]

\* One token of the text; one that cannot be read invalidates all of it.
Expand ==
    /\ scan.pc = "token" /\ scan.todo # <<>>
    /\ scan' = IF ~Readable(Head(scan.todo)) THEN Invalid
               ELSE [scan EXCEPT !.pc = "hosts", !.todo = Tail(@),
                                 !.pending = HostsOf(Head(scan.todo))]
    /\ UNCHANGED <<config, keys, dropped, secret, meant, raced, form, text, runs, origin, changes>>

\* One host of the token; after the last, too many invalidate the text as well.
Add ==
    /\ scan.pc = "hosts"
    /\ scan' = IF scan.pending # <<>>
               THEN [scan EXCEPT !.pending = Tail(@), !.out = Added(@, Head(scan.pending))]
               ELSE IF Len(scan.out) > Limit THEN Invalid
               ELSE [scan EXCEPT !.pc = "token"]
    /\ UNCHANGED <<config, keys, dropped, secret, meant, raced, form, text, runs, origin, changes>>

\* Once the text is expanded, the targets outside the allowed networks go, one
\* by one.
Filter ==
    /\ \/ /\ scan.pc = "token" /\ scan.todo = <<>>
          /\ scan' = [scan EXCEPT !.pc = "filter", !.pending = scan.out, !.out = <<>>]
       \/ /\ scan.pc = "filter" /\ scan.pending # <<>>
          /\ LET h == Head(scan.pending)
             IN  scan' = [scan EXCEPT !.pending = Tail(@),
                                      !.out = IF Permitted(h) THEN Append(@, h) ELSE @]
       \/ /\ scan.pc = "filter" /\ scan.pending = <<>>
          /\ scan' = [scan EXCEPT !.pc = "probe"]
    /\ UNCHANGED <<config, keys, dropped, secret, meant, raced, form, text, runs, origin, changes>>

\* Managed targets are skipped.  A new one is logged in to; if it answers, a
\* server is made for it, without the range's password, or the server of the
\* same machine is found by its service tag; it is synced on that connection.
Probe ==
    /\ scan.pc = "probe" /\ scan.out # <<>> /\ runs["scan"] = None
    /\ LET h == Head(scan.out) IN
          \/ UNCHANGED <<secret, origin, runs>>
          \/ /\ secret[h] = NoServer /\ h \in Reachable
             /\ \E g \in {h} \cup {g \in Hosts : secret[g] # NoServer /\ SameMachine(g, h)} :
                   /\ secret' = [secret EXCEPT ![g] = IF @ = NoServer THEN NoSecret ELSE @]
                   /\ origin' = IF g = h THEN [origin EXCEPT ![h] = scan.pw] ELSE origin
                   /\ runs' = [runs EXCEPT !["scan"] =
                                  [host |-> g, token |-> secret'[g], pw |-> scan.pw]]
    /\ scan' = [scan EXCEPT !.out = Tail(@)]
    /\ UNCHANGED <<config, keys, dropped, meant, raced, form, text, changes>>

EndScan ==
    /\ scan.pc = "probe" /\ scan.out = <<>> /\ runs["scan"] = None
    /\ scan' = [IdleScan EXCEPT !.message = "scanned"]
    /\ UNCHANGED <<config, keys, dropped, secret, meant, raced, form, text, runs, origin, changes>>

Next ==
    \/ \E k \in Keys : Rotate(k)
    \/ DropFallbacks
    \/ \E p \in Processes : Restart(p)
    \/ \E x \in Hosts, pw \in Passwords \cup {None} : Enter(x, pw)
    \/ \E e \in Editors, x \in Places : OpenForm(e, x)
    \/ \E e \in Editors, pw \in Passwords \cup {None} : SaveForm(e, pw)
    \/ \E e \in Editors : DropForm(e)
    \/ \E h \in Hosts : BeginSync(h)
    \/ \E j \in Runners : EndSync(j)
    \/ BeginScan \/ Expand \/ Add \/ Filter \/ Probe \/ EndScan

Spec == Init /\ [][Next]_vars

-----------------------------------------------------------------------------
Config == [primary : Keys, fallbacks : SUBSET Keys]

Secrets == Token \cup {NoSecret, NoServer}
Forms == [place : Places, token : Secrets]
Connections == [host : Hosts, token : Secrets, pw : Passwords \cup {Default}]

Messages == {"none", "refused", "invalid", "scanned"}
Scan == [pc : {"idle", "token", "hosts", "filter", "probe"}, todo : Seq(Tokens),
         pending : Seq(Hosts), out : Seq(Hosts), pw : Passwords \cup {Default, None},
         message : Messages]

\* Types; no key is primary and fallback, and no stored password is blank.
TypeOK ==
    /\ config \in Config /\ config.primary \notin config.fallbacks
    /\ keys \in [Processes -> Config] /\ dropped \subseteq Keys
    /\ secret \in [Places -> Secrets]
    /\ meant \in [Places -> Passwords \cup {None}] /\ raced \subseteq Places
    /\ form \in [Editors -> Forms \cup {None}]
    /\ text \in Texts /\ scan \in Scan /\ (scan.pc # "idle" => scan.pw # None)
    /\ runs \in [Runners -> Connections \cup {None}]
    /\ origin \in [Hosts -> Passwords \cup {Default, None}]
    /\ changes \in 0..MaxChanges

Wanted(x) == IF meant[x] = None THEN Default ELSE meant[x]

LogsInRight ==
    /\ \A h \in Hosts : runs["job"] = None /\ Open("job", h)' /\ h \notin raced =>
          runs'["job"].pw = Wanted(h)
    /\ scan.pc = "idle" /\ scan'.pc # "idle" /\ ScanRange \notin raced =>
          scan'.pw = Wanted(ScanRange)

\* Whatever keys are rotated or dropped, whichever process has yet to load
\* them, and however edits, syncs and scans overlap: a sync or a scan logs in
\* with the password last entered for the server or the range, never with the
\* default in its stead -- unless that was entered while another edit, or a
\* run, had read the row, and may have put back what it read (utils.py 44-62,
\* forms.py 171-175).
LoginAsEntered == [][LogsInRight]_vars

\* A stored password can be decrypted by every process that has loaded the
\* configuration, unless its key was taken out of it (utils.py 17-31).
RotationKeepsSecrets ==
    \A x \in Places, p \in Processes :
        secret[x] \in Token /\ keys[p] = config =>
            Decryptable(secret[x], p) \/ secret[x].key \in dropped

\* What a text denotes, token by token, without regard to how it is expanded.
Denotes(t, h) ==
    \/ t.kind = "host" /\ h = t.host
    \/ t.kind = "range" /\ h \in t.first..t.last
    \/ /\ t.kind = "cidr" /\ h \in Addresses /\ h \div t.size = t.base \div t.size
       /\ t.size > 2 => h % t.size \notin {0, t.size - 1}
Denoted == {h \in Hosts : \E i \in DOMAIN text : Denotes(text[i], h)}

\* A scan that goes ahead has exactly the targets the text denotes, each once
\* and no more than the limit (utils.py 69-107) ...
ScanExactly ==
    scan.pc = "token" /\ scan.todo = <<>> =>
        /\ Range(scan.out) = Denoted /\ IsInjective(scan.out)
        /\ Cardinality(Denoted) <= Limit

TooMany == Cardinality(Denoted) > Limit
Unreadable == \E i \in DOMAIN text : text[i].kind = "malformed"
NamesWithDash == \E i \in DOMAIN text : text[i].kind = "host" /\ text[i].host \in Hyphenated

\* ... and is refused only for too many targets, a network or pair of addresses
\* that cannot be read, or a host name with a dash in it, which the docstring
\* says is fine (HostNamesAccepted).
InvalidOnlyIfSo ==
    scan.message = "invalid" => TooMany \/ Unreadable \/ NamesWithDash

\* Every server a scan made is for a target of its text, and no address behind
\* it is outside the allowed networks (utils.py 127-156).
ImportsOnlyTargets ==
    \A h \in Hosts : origin[h] # None =>
        h \in Denoted /\ (Allowed # {} => AddressesOf(h) \subseteq Allowed)

-----------------------------------------------------------------------------
(* What LoginAsEntered and RotationKeepsSecrets rest on (AccessProofs).    *)

\* What is stored is what was entered, and whoever has read the row holds the
\* same, unless it was entered while others had read it.
HeldAsStored(x, token) == token # NoServer /\ (x \notin raced => token = secret[x])
EnteredIsStored ==
    /\ \A x \in Places \ raced :
          IF secret[x] \in Token THEN secret[x].pw = meant[x] ELSE meant[x] = None
    /\ \A j \in Runners : runs[j] # None => HeldAsStored(runs[j].host, runs[j].token)
    /\ \A e \in Editors : form[e] # None => HeldAsStored(form[e].place, form[e].token)

\* Every key that is loaded, stored or about to be stored is in the
\* configuration still, or was taken out of it.
Known == KeysOf(config) \cup dropped
KeyKnown(token) == token \in Token => token.key \in Known
KeysKnown ==
    /\ \A p \in Processes : KeysOf(keys[p]) \subseteq Known
    /\ \A x \in Places : KeyKnown(secret[x])
    /\ \A j \in Runners : runs[j] # None => KeyKnown(runs[j].token)
    /\ \A e \in Editors : form[e] # None => KeyKnown(form[e].token)

-----------------------------------------------------------------------------
(* What the repository's own texts claim, stated as they claim it.         *)

\* README 251, forms.py 325: a scan range's password overrides the default for
\* the hosts it discovered.
RangePasswordOverrides ==
    \A h \in Hosts : Open("job", h) /\ meant[h] = None /\ origin[h] # None
        => runs["job"].pw = origin[h]

\* serializers.py 32, forms.py 171: a blank password keeps the current value.
BlankKeepsCurrent ==
    [][\A e \in Editors : SaveForm(e, None) => UNCHANGED secret]_vars

\* utils.py 73: a host name is returned as it is.
HostNamesAccepted == scan.message = "invalid" => TooMany \/ Unreadable
=============================================================================
