----------------------------- MODULE AccessProofs -----------------------------
(* Proofs about Access: for any keys, passwords, targets and bounds, nobody  *)
(* logs in with a password other than the one entered, rotating keys loses   *)
(* no password, and a scan goes to exactly what its text denotes.            *)
EXTENDS Access, FiniteSetTheorems, TLAPS

-----------------------------------------------------------------------------
(* What a token denotes.                                                   *)

\* Division with remainder, and what makes a number the remainder.
LEMMA Division ==
    ASSUME NEW n \in Nat \ {0}, NEW a \in Nat
    PROVE  a \div n \in Nat /\ a % n \in 0..(n - 1) /\ a = (a \div n) * n + (a % n)
<1>1. a \div n \in Nat /\ a % n \in 0..(n - 1)
  OBVIOUS
<1>2. a = (a \div n) * n + (a % n)
  BY SMTT(30)
<1> QED BY <1>1, <1>2

LEMMA Quotient ==
    ASSUME NEW n \in Nat \ {0}, NEW q \in Nat, NEW r \in Nat, NEW a \in Nat,
           r < n, a = q * n + r
    PROVE  a \div n = q /\ a % n = r
BY SMTT(30)

\* A network starts at a multiple of its size and ends within the addresses.
LEMMA Networks ==
    ASSUME NEW size \in Sizes, NEW b \in Addresses
    PROVE  /\ size \in Nat \ {0} /\ Network(b, size) \in Nat
           /\ Network(b, size) = (b \div size) * size
           /\ Network(b, size) + size <= Space
<1>1. size \in Nat \ {0} /\ b \in Nat /\ b < Space /\ Space \in Nat \ {0} /\ Space % size = 0
  BY AccessAssumption DEF Addresses
<1> DEFINE q == b \div size
           k == Space \div size
<1>2. q \in Nat /\ b % size \in 0..(size - 1) /\ b = q * size + (b % size)
  BY <1>1, Division
<1>3. k \in Nat /\ Space = k * size
  <2>1. k \in Nat /\ Space = k * size + (Space % size)
    BY <1>1, Division
  <2> HIDE DEF k
  <2>2. k * size \in Nat
    BY <1>1, <2>1
  <2> QED BY <1>1, <2>1, <2>2
<1>4. Network(b, size) = q * size
  BY <1>1, <1>2 DEF Network
<1> HIDE DEF q, k
<1>5. q * size < k * size
  BY <1>1, <1>2, <1>3
<1>6. q < k
  BY <1>1, <1>2, <1>3, <1>5, SMTT(30)
<1>7. (q + 1) * size <= k * size
  BY <1>1, <1>2, <1>3, <1>6, SMTT(30)
<1>8. q * size \in Nat /\ q * size + size <= Space
  BY <1>1, <1>2, <1>3, <1>7
<1> QED BY <1>1, <1>4, <1>8 DEF q

\* The addresses of a network are those with the same quotient.
LEMMA SameNetwork ==
    ASSUME NEW size \in Sizes, NEW b \in Addresses, NEW h \in Int
    PROVE  LET net == Network(b, size)
           IN  /\ h \in Addresses /\ h \div size = b \div size <=> h \in net..(net + size - 1)
               /\ h \in net..(net + size - 1) => h % size = h - net
<1> DEFINE net == Network(b, size)
           q == b \div size
<1>1. size \in Nat \ {0} /\ net \in Nat /\ net = q * size /\ net + size <= Space /\ Space \in Nat
  BY Networks, AccessAssumption
<1>2. q \in Nat
  BY <1>1, Division DEF Addresses
<1>3. ASSUME h \in net..(net + size - 1)
      PROVE  h \in Addresses /\ h \div size = q /\ h % size = h - net
  <2> HIDE DEF net, q
  <2>1. h \in Nat /\ h - net \in Nat /\ h - net < size /\ h = q * size + (h - net)
    BY <1>1, <1>3
  <2>2. h \div size = q /\ h % size = h - net
    BY <1>1, <1>2, <2>1, Quotient
  <2>3. h \in Addresses
    BY <1>1, <1>3 DEF Addresses
  <2> QED BY <2>2, <2>3
<1>4. ASSUME h \in Addresses, h \div size = q
      PROVE  h \in net..(net + size - 1)
  <2>1. h \in Nat
    BY <1>4 DEF Addresses
  <2>2. h % size \in 0..(size - 1) /\ h = (h \div size) * size + (h % size)
    BY <1>1, <2>1, Division
  <2> HIDE DEF net, q
  <2>3. h = net + (h % size)
    BY <1>1, <1>4, <2>2
  <2> QED BY <1>1, <2>2, <2>3
<1> QED BY <1>3, <1>4

LEMMA Intervals ==
    ASSUME NEW a \in Int, NEW b \in Int
    PROVE  Interval(a, b) \in Seq(Int) /\ Range(Interval(a, b)) = a..b
<1> DEFINE n == IF a <= b THEN b - a + 1 ELSE 0
<1>1. n \in Nat /\ Interval(a, b) = [i \in 1..n |-> a + i - 1]
  BY DEF Interval
<1>2. Interval(a, b) \in Seq(Int)
  BY <1>1
<1>3. ASSUME NEW h \in a..b
      PROVE  h - a + 1 \in 1..n /\ h = a + (h - a + 1) - 1
  OBVIOUS
<1>4. a..b \subseteq Range(Interval(a, b))
  BY <1>1, <1>3 DEF Range
<1>5. \A i \in 1..n : a + i - 1 \in a..b
  OBVIOUS
<1>6. Range(Interval(a, b)) \subseteq a..b
  BY <1>1, <1>5 DEF Range
<1> QED BY <1>2, <1>4, <1>6

\* HostsOf lists what a token denotes.
LEMMA HostsDenoted ==
    ASSUME NEW t \in Tokens, t.kind # "malformed"
    PROVE  /\ HostsOf(t) \in Seq(Hosts)
           /\ \A h : h \in Range(HostsOf(t)) <=> h \in Hosts /\ Denotes(t, h)
<1>1. CASE t \in Singles
  <2>1. t.kind = "host" /\ t.host \in Hosts /\ HostsOf(t) = <<t.host>>
    BY <1>1 DEF Singles, HostsOf
  <2>2. Range(HostsOf(t)) = {t.host}
    BY <2>1 DEF Range
  <2> QED BY <2>1, <2>2 DEF Denotes
<1>2. CASE t \in Dashed
  <2>1. t.kind = "range" /\ t.first \in Addresses /\ t.last \in Addresses
    BY <1>2 DEF Dashed
  <2>2. t.first \in Int /\ t.last \in Int /\ t.first..t.last \subseteq Addresses
    BY <2>1, AccessAssumption DEF Addresses
  <2>3. HostsOf(t) = Interval(t.first, t.last)
    BY <2>1 DEF HostsOf
  <2>4. HostsOf(t) \in Seq(Int) /\ Range(HostsOf(t)) = t.first..t.last
    BY <2>2, <2>3, Intervals
  <2>5. HostsOf(t) \in Seq(Hosts)
    BY <2>2, <2>4 DEF Range, Hosts
  <2> QED BY <2>1, <2>2, <2>4, <2>5 DEF Denotes, Hosts
<1>3. CASE t \in Cidrs
  <2> DEFINE net == Network(t.base, t.size)
             inner == IF t.size <= 2 THEN 0 ELSE 1
             lo == net + inner
             hi == net + t.size - 1 - inner
  <2>1. t.kind = "cidr" /\ t.base \in Addresses /\ t.size \in Sizes
    BY <1>3 DEF Cidrs
  <2>2. t.size \in Nat \ {0} /\ net \in Nat /\ net + t.size <= Space
    BY <2>1, Networks
  <2>3. HostsOf(t) = Interval(lo, hi) /\ lo \in Int /\ hi \in Int
    BY <2>1, <2>2 DEF HostsOf
  <2>4. HostsOf(t) \in Seq(Int) /\ Range(HostsOf(t)) = lo..hi
    BY <2>3, Intervals
  <2>5. \A h \in lo..hi : h \in Int /\ h \in net..(net + t.size - 1)
    BY <2>2, <2>3
  <2>6. \A h \in lo..hi : h \in Addresses
    BY <2>1, <2>5, SameNetwork
  <2>7. HostsOf(t) \in Seq(Hosts)
    BY <2>4, <2>6 DEF Range, Hosts
  <2>8. ASSUME NEW h \in lo..hi
        PROVE  Denotes(t, h)
    <3>1. h \in net..(net + t.size - 1) /\ h \in Int
      BY <2>5
    <3>2. h \in Addresses /\ h \div t.size = t.base \div t.size /\ h % t.size = h - net
      BY <2>1, <3>1, SameNetwork
    <3>3. t.size > 2 => h - net # 0 /\ h - net # t.size - 1
      BY <2>2
    <3> QED BY <2>1, <3>2, <3>3 DEF Denotes
  <2>9. ASSUME NEW h \in Hosts, Denotes(t, h)
        PROVE  h \in lo..hi
    <3>1. /\ h \in Addresses /\ h \in Int /\ h \div t.size = t.base \div t.size
          /\ t.size > 2 => h % t.size # 0 /\ h % t.size # t.size - 1
      BY <2>1, <2>9 DEF Denotes, Addresses
    <3>2. h \in net..(net + t.size - 1) /\ h % t.size = h - net
      BY <2>1, <3>1, SameNetwork
    <3> QED BY <2>2, <3>1, <3>2
  <2>10. \A h \in lo..hi : h \in Hosts
    BY <2>6 DEF Hosts
  <2> QED BY <2>4, <2>7, <2>8, <2>9, <2>10
<1>4. t \notin Malformed
  BY DEF Malformed
<1> QED BY <1>1, <1>2, <1>3, <1>4 DEF Tokens

-----------------------------------------------------------------------------
LEMMA Distinct ==
    /\ ScanRange \notin Hosts /\ NoSecret # NoServer
    /\ NoSecret \notin Token /\ NoServer \notin Token
    /\ None \notin Passwords /\ None # Default /\ MaxChanges \in Nat
BY AccessAssumption DEF Hosts, Token

\* A scan that is over, whatever it ended with.
LEMMA Over ==
    ASSUME NEW m \in Messages
    PROVE  LET over == [IdleScan EXCEPT !.message = m]
           IN  over \in Scan /\ over.pc = "idle" /\ over.pw = None /\ over.message = m
<1>1. <<>> \in Seq(Tokens) /\ <<>> \in Seq(Hosts)
  OBVIOUS
<1> QED BY <1>1 DEF IdleScan, Scan, Messages

\* Every reachable state is as TypeOK says, stores what was entered and knows
\* the keys of what it stores.
Inv == TypeOK /\ EnteredIsStored /\ KeysKnown

LEMMA InitInv == Init => Inv
<1> SUFFICES ASSUME Init PROVE Inv
  OBVIOUS
<1>1. PICK k \in Keys : config = [primary |-> k, fallbacks |-> {}]
  BY DEF Init
<1>2. config \in Config /\ config.primary \notin config.fallbacks
  BY <1>1 DEF Config
<1>3. \A x \in Places : secret[x] \in {NoSecret, NoServer} /\ meant[x] = None
  BY DEF Init
<1>4. \A j \in Runners : runs[j] = None
  BY DEF Init
<1>5. /\ keys = [p \in Processes |-> config] /\ dropped = {} /\ raced = {} /\ changes = 0
      /\ meant = [x \in Places |-> None] /\ scan = IdleScan /\ text \in Texts
      /\ form = [e \in Editors |-> None]
      /\ runs = [j \in Runners |-> None] /\ origin = [h \in Hosts |-> None]
  BY DEF Init
<1>11. scan \in Scan /\ scan.pc = "idle" /\ scan.pw = None
  <2>1. scan = [IdleScan EXCEPT !.message = "none"]
    BY <1>5 DEF IdleScan
  <2> QED BY <2>1, Over DEF Messages
<1>10. secret \in [Places -> Secrets]
  BY DEF Init, Secrets
<1>6. TypeOK
  BY <1>2, <1>5, <1>10, <1>11, Distinct DEF TypeOK
<1>7. EnteredIsStored
  BY <1>3, <1>4, <1>5, Distinct DEF EnteredIsStored
<1>8. KeysKnown
  BY <1>3, <1>4, <1>5, Distinct DEF KeysKnown, KeyKnown, Known
<1> QED BY <1>6, <1>7, <1>8 DEF Inv

-----------------------------------------------------------------------------
(* The configuration.                                                      *)

LEMMA RotateInv ==
    ASSUME Inv, NEW k \in Keys, Rotate(k)
    PROVE  Inv'
<1>1. /\ config' = [primary |-> k, fallbacks |-> KeysOf(config)]
      /\ k \notin KeysOf(config) /\ changes' = changes + 1 /\ changes < MaxChanges
      /\ UNCHANGED <<keys, dropped, secret, meant, raced, form, text, scan, runs, origin>>
  BY DEF Rotate, Change
<1>2. KeysOf(config) \subseteq Keys
  BY DEF Inv, TypeOK, Config, KeysOf
<1>3. config' \in Config /\ config'.primary \notin config'.fallbacks
  BY <1>1, <1>2 DEF Config
<1>4. TypeOK'
  BY <1>1, <1>3, Distinct DEF Inv, TypeOK
<1>5. KeysOf(config) \subseteq KeysOf(config')
  BY <1>1 DEF KeysOf
<1>6. KeysKnown'
  BY <1>1, <1>5 DEF Inv, KeysKnown, KeyKnown, Known
<1>7. EnteredIsStored'
  BY <1>1 DEF Inv, EnteredIsStored, HeldAsStored
<1> QED BY <1>4, <1>6, <1>7 DEF Inv

LEMMA DropFallbacksInv == Inv /\ DropFallbacks => Inv'
<1> SUFFICES ASSUME Inv, DropFallbacks PROVE Inv'
  OBVIOUS
<1>1. /\ config' = [config EXCEPT !.fallbacks = {}]
      /\ dropped' = dropped \cup config.fallbacks
      /\ changes' = changes + 1 /\ changes < MaxChanges
      /\ UNCHANGED <<keys, secret, meant, raced, form, text, scan, runs, origin>>
  BY DEF DropFallbacks, Change
<1>2. config \in Config
  BY DEF Inv, TypeOK
<1>3. config' \in Config /\ config'.primary = config.primary /\ config'.fallbacks = {}
  BY <1>1, <1>2 DEF Config
<1>4. dropped' \subseteq Keys
  BY <1>1, <1>2 DEF Inv, TypeOK, Config
<1>5. TypeOK'
  BY <1>1, <1>3, <1>4, Distinct DEF Inv, TypeOK
<1>6. KeysOf(config) \cup dropped \subseteq KeysOf(config') \cup dropped'
  BY <1>1, <1>3 DEF KeysOf
<1>7. KeysKnown'
  BY <1>1, <1>6 DEF Inv, KeysKnown, KeyKnown, Known
<1>8. EnteredIsStored'
  BY <1>1 DEF Inv, EnteredIsStored, HeldAsStored
<1> QED BY <1>5, <1>7, <1>8 DEF Inv

LEMMA RestartInv ==
    ASSUME Inv, NEW p \in Processes, Restart(p)
    PROVE  Inv'
<1>1. /\ keys' = [keys EXCEPT ![p] = config]
      /\ UNCHANGED <<config, dropped, secret, meant, raced, text, origin, changes>>
  BY DEF Restart
<1>2. \/ UNCHANGED <<scan, runs>>
      \/ /\ scan'.pc = "idle" /\ scan'.pw = None /\ scan' \in Scan
         /\ runs' = [j \in Runners |-> None]
  <2>1. scan.message \in Messages
    BY DEF Inv, TypeOK, Scan, Messages
  <2> QED BY <2>1, Over DEF Restart
<1>3. keys' \in [Processes -> Config] /\ \A q \in Processes : keys'[q] \in {keys[q], config}
  BY <1>1 DEF Inv, TypeOK
<1>4. /\ scan' \in Scan /\ (scan'.pc # "idle" => scan'.pw # None)
      /\ runs' \in [Runners -> Connections \cup {None}]
  BY <1>2 DEF Inv, TypeOK
<1>5. \A j \in Runners : runs'[j] # None => runs'[j] = runs[j]
  BY <1>2
<1>6. /\ form' \in [Editors -> Forms \cup {None}]
      /\ \A e \in Editors : form'[e] # None => form'[e] = form[e]
  BY DEF Restart, Inv, TypeOK
<1>7. TypeOK'
  BY <1>1, <1>3, <1>4, <1>6 DEF Inv, TypeOK
<1>8. KeysKnown'
  BY <1>1, <1>3, <1>5, <1>6 DEF Inv, KeysKnown, KeyKnown, Known
<1>9. EnteredIsStored'
  BY <1>1, <1>5, <1>6 DEF Inv, EnteredIsStored, HeldAsStored
<1> QED BY <1>7, <1>8, <1>9 DEF Inv

-----------------------------------------------------------------------------
(* Passwords.                                                              *)

\* Runs and edits are of places.
LEMMA HoldersInPlaces ==
    ASSUME Inv
    PROVE  /\ \A j \in Runners : runs[j] # None => runs[j].host \in Places
           /\ \A e \in Editors : form[e] # None => form[e].place \in Places
BY DEF Inv, TypeOK, Connections, Forms, Places

\* What a row is saved with, and that a key loaded by the web is known.
LEMMA StoredToken ==
    ASSUME Inv, NEW token \in Secrets \ {NoServer}, NEW pw \in Passwords \cup {None}
    PROVE  /\ Stored(token, pw) \in Secrets \ {NoServer}
           /\ pw = None => Stored(token, pw) = token
           /\ pw # None => /\ Stored(token, pw) \in Token /\ Stored(token, pw).pw = pw
                           /\ KeyKnown(Stored(token, pw))
<1>1. keys["web"] \in Config /\ keys["web"].primary \in Keys
      /\ keys["web"].primary \in KeysOf(keys["web"]) /\ KeysOf(keys["web"]) \subseteq Known
  BY DEF Inv, TypeOK, KeysKnown, Processes, Config, KeysOf
<1>2. CASE pw = None
  BY <1>2 DEF Stored
<1>3. CASE pw # None
  <2>1. Stored(token, pw) = [key |-> keys["web"].primary, pw |-> pw]
    BY <1>3 DEF Stored
  <2>2. Stored(token, pw) \in Token /\ Stored(token, pw).pw = pw
        /\ Stored(token, pw).key = keys["web"].primary
    BY <1>1, <1>3, <2>1 DEF Token
  <2> QED BY <1>1, <1>3, <2>2, Distinct DEF Secrets, KeyKnown
<1> QED BY <1>2, <1>3

LEMMA EnterInv ==
    ASSUME Inv, NEW x \in Hosts, NEW pw \in Passwords \cup {None}, Enter(x, pw)
    PROVE  Inv'
<1> DEFINE t == Stored(NoSecret, pw)
<1>1. /\ secret[x] = NoServer
      /\ secret' = [secret EXCEPT ![x] = t]
      /\ meant' = [meant EXCEPT ![x] = IF pw = None THEN meant[x] ELSE pw]
      /\ changes' = changes + 1 /\ changes < MaxChanges
      /\ UNCHANGED <<config, keys, dropped, raced, form, text, scan, runs, origin>>
  BY DEF Enter, Change, Meant
<1>2. x \in Places
  BY DEF Places
<1>3. /\ t \in Secrets \ {NoServer} /\ (pw = None => t = NoSecret)
      /\ pw # None => t \in Token /\ t.pw = pw /\ KeyKnown(t)
  BY StoredToken, Distinct DEF Secrets
<1> HIDE DEF t
<1>4. /\ secret' \in [Places -> Secrets] /\ secret'[x] = t
      /\ \A y \in Places \ {x} : secret'[y] = secret[y] /\ meant'[y] = meant[y]
      /\ meant' \in [Places -> Passwords \cup {None}]
      /\ meant'[x] = IF pw = None THEN meant[x] ELSE pw
  BY <1>1, <1>2, <1>3 DEF Inv, TypeOK
<1>5. TypeOK'
  BY <1>1, <1>4, Distinct DEF Inv, TypeOK
<1>6. KeysKnown'
  <2>1. KeyKnown(t)
    BY <1>3, Distinct DEF KeyKnown
  <2> QED BY <1>1, <1>4, <2>1 DEF Inv, KeysKnown, KeyKnown, Known
<1>7. EnteredIsStored'
  <2>1. ASSUME NEW y \in Places \ raced
        PROVE  IF secret'[y] \in Token THEN secret'[y].pw = meant'[y] ELSE meant'[y] = None
    <3>1. IF secret[y] \in Token THEN secret[y].pw = meant[y] ELSE meant[y] = None
      BY DEF Inv, EnteredIsStored
    <3>2. CASE y = x
      BY <1>1, <1>3, <1>4, <3>1, <3>2, Distinct
    <3>3. CASE y # x
      BY <1>4, <3>1, <3>3
    <3> QED BY <3>2, <3>3
  <2>2. ASSUME NEW y \in Places, NEW token, HeldAsStored(y, token)
        PROVE  HeldAsStored(y, token)'
    BY <1>1, <1>4, <2>2 DEF HeldAsStored
  <2> QED BY <1>1, <2>1, <2>2, HoldersInPlaces DEF Inv, EnteredIsStored
<1> QED BY <1>5, <1>6, <1>7 DEF Inv

LEMMA OpenFormInv ==
    ASSUME Inv, NEW e \in Editors, NEW x \in Places, OpenForm(e, x)
    PROVE  Inv'
<1> DEFINE r == [place |-> x, token |-> secret[x]]
<1>1. /\ secret[x] # NoServer /\ form' = [form EXCEPT ![e] = r]
      /\ changes' = changes + 1 /\ changes < MaxChanges
      /\ UNCHANGED <<config, keys, dropped, secret, meant, raced, text, scan, runs, origin>>
  BY DEF OpenForm, Change
<1>2. r \in Forms /\ r.place = x /\ r.token = secret[x]
  BY DEF Inv, TypeOK, Forms
<1> HIDE DEF r
<1>3. /\ form' \in [Editors -> Forms \cup {None}]
      /\ \A f \in Editors : form'[f] \in {form[f], r}
  BY <1>1, <1>2 DEF Inv, TypeOK
<1>4. TypeOK'
  BY <1>1, <1>3, Distinct DEF Inv, TypeOK
<1>5. EnteredIsStored'
  BY <1>1, <1>2, <1>3 DEF Inv, EnteredIsStored, HeldAsStored
<1>6. KeysKnown'
  BY <1>1, <1>2, <1>3 DEF Inv, KeysKnown, KeyKnown, Known
<1> QED BY <1>4, <1>5, <1>6 DEF Inv

LEMMA SaveFormInv ==
    ASSUME Inv, NEW e \in Editors, NEW pw \in Passwords \cup {None}, SaveForm(e, pw)
    PROVE  Inv'
<1> DEFINE x == form[e].place
           t == Stored(form[e].token, pw)
<1>1. /\ form[e] # None /\ form' = [form EXCEPT ![e] = None]
      /\ secret' = [secret EXCEPT ![x] = t]
      /\ meant' = [meant EXCEPT ![x] = IF pw = None THEN meant[x] ELSE pw]
      /\ raced' = IF pw = None THEN raced
                  ELSE IF Held(e, x) THEN raced \cup {x} ELSE raced \ {x}
      /\ UNCHANGED <<config, keys, dropped, text, scan, runs, origin, changes>>
  BY DEF SaveForm, Meant
<1>2. form[e] \in Forms /\ HeldAsStored(x, form[e].token) /\ KeyKnown(form[e].token)
  BY <1>1 DEF Inv, TypeOK, EnteredIsStored, KeysKnown
<1>3. x \in Places /\ form[e].token \in Secrets \ {NoServer}
  BY <1>2 DEF Forms, HeldAsStored
<1>4. /\ t \in Secrets \ {NoServer} /\ KeyKnown(t) /\ (pw = None => t = form[e].token)
      /\ pw # None => t \in Token /\ t.pw = pw
  BY <1>2, <1>3, StoredToken
<1> HIDE DEF t
<1>5. /\ secret' \in [Places -> Secrets] /\ secret'[x] = t
      /\ \A y \in Places \ {x} : secret'[y] = secret[y] /\ meant'[y] = meant[y]
      /\ meant' \in [Places -> Passwords \cup {None}]
      /\ meant'[x] = IF pw = None THEN meant[x] ELSE pw
  BY <1>1, <1>3, <1>4 DEF Inv, TypeOK
<1>6. /\ form' \in [Editors -> Forms \cup {None}] /\ form'[e] = None
      /\ \A f \in Editors \ {e} : form'[f] = form[f]
  BY <1>1 DEF Inv, TypeOK
<1>7. raced' \subseteq Places /\ \A y \in Places \ {x} : y \in raced' <=> y \in raced
  BY <1>1, <1>3 DEF Inv, TypeOK
<1>8. TypeOK'
  BY <1>1, <1>5, <1>6, <1>7 DEF Inv, TypeOK
<1>9. KeysKnown'
  BY <1>1, <1>4, <1>5, <1>6 DEF Inv, KeysKnown, KeyKnown, Known
<1>10. EnteredIsStored'
  <2>1. ASSUME NEW y \in Places \ raced'
        PROVE  IF secret'[y] \in Token THEN secret'[y].pw = meant'[y] ELSE meant'[y] = None
    <3>1. CASE y # x
      BY <1>5, <1>7, <3>1 DEF Inv, EnteredIsStored
    <3>2. CASE y = x /\ pw # None
      BY <1>4, <1>5, <3>2
    <3>3. CASE y = x /\ pw = None
      <4>1. x \notin raced
        BY <1>1, <2>1, <3>3
      <4>2. t = secret[x]
        BY <1>2, <1>4, <3>3, <4>1 DEF HeldAsStored
      <4> QED BY <1>5, <3>3, <4>1, <4>2 DEF Inv, EnteredIsStored
    <3> QED BY <3>1, <3>2, <3>3
  \* Whoever else has read that row finds it as it was, or raced.
  <2>2. ASSUME NEW y \in Places, NEW token, HeldAsStored(y, token), y = x => Held(e, x)
        PROVE  HeldAsStored(y, token)'
    <3>1. CASE y # x
      BY <1>5, <1>7, <2>2, <3>1 DEF HeldAsStored
    <3>2. CASE y = x /\ pw # None
      <4>1. x \in raced'
        BY <1>1, <2>2, <3>2
      <4> QED BY <2>2, <3>2, <4>1 DEF HeldAsStored
    <3>3. CASE y = x /\ pw = None
      <4>1. raced' = raced
        BY <1>1, <3>3
      <4>2. x \notin raced => secret'[x] = secret[x]
        BY <1>2, <1>4, <1>5, <3>3 DEF HeldAsStored
      <4> QED BY <2>2, <3>3, <4>1, <4>2 DEF HeldAsStored
    <3> QED BY <3>1, <3>2, <3>3
  <2>3. ASSUME NEW j \in Runners, runs'[j] # None
        PROVE  HeldAsStored(runs[j].host, runs[j].token)'
    <3>1. runs'[j] = runs[j] /\ runs[j] # None /\ HeldAsStored(runs[j].host, runs[j].token)
      BY <1>1, <2>3 DEF Inv, EnteredIsStored
    <3>2. runs[j].host = x => Held(e, x)
      BY <3>1 DEF Held, Open
    <3> DEFINE y == runs[j].host
               token == runs[j].token
    <3>3. y \in Places
      BY <3>1, HoldersInPlaces
    <3>4. runs'[j].host = y /\ runs'[j].token = token
      BY <3>1
    <3> HIDE DEF y, token
    <3>5. token # NoServer /\ (y \notin raced' => token = secret'[y])
      BY <2>2, <3>1, <3>2, <3>3 DEF HeldAsStored, y, token
    <3> QED BY <3>4, <3>5 DEF HeldAsStored
  <2>4. ASSUME NEW f \in Editors, form'[f] # None
        PROVE  HeldAsStored(form[f].place, form[f].token)'
    <3>1. f # e /\ form'[f] = form[f] /\ form[f] # None
          /\ HeldAsStored(form[f].place, form[f].token)
      BY <1>6, <2>4 DEF Inv, EnteredIsStored
    <3>2. form[f].place = x => Held(e, x)
      BY <3>1 DEF Held
    <3> DEFINE y == form[f].place
               token == form[f].token
    <3>3. y \in Places
      BY <3>1, HoldersInPlaces
    <3>4. form'[f].place = y /\ form'[f].token = token
      BY <3>1
    <3> HIDE DEF y, token
    <3>5. token # NoServer /\ (y \notin raced' => token = secret'[y])
      BY <2>2, <3>1, <3>2, <3>3 DEF HeldAsStored, y, token
    <3> QED BY <3>4, <3>5 DEF HeldAsStored
  <2> QED BY <2>1, <2>3, <2>4 DEF EnteredIsStored
<1> QED BY <1>8, <1>9, <1>10 DEF Inv

LEMMA DropFormInv ==
    ASSUME Inv, NEW e \in Editors, DropForm(e)
    PROVE  Inv'
<1>1. /\ form' = [form EXCEPT ![e] = None]
      /\ UNCHANGED <<config, keys, dropped, secret, meant, raced, text, scan, runs, origin, changes>>
  BY DEF DropForm
<1>2. /\ form' \in [Editors -> Forms \cup {None}]
      /\ \A f \in Editors : form'[f] # None => form'[f] = form[f]
  BY <1>1 DEF Inv, TypeOK
<1>3. TypeOK'
  BY <1>1, <1>2 DEF Inv, TypeOK
<1>4. EnteredIsStored' /\ KeysKnown'
  BY <1>1, <1>2 DEF Inv, EnteredIsStored, HeldAsStored, KeysKnown, KeyKnown, Known
<1> QED BY <1>3, <1>4 DEF Inv

-----------------------------------------------------------------------------
(* Syncs and scans.                                                        *)

LEMMA BeginSyncInv ==
    ASSUME Inv, NEW h \in Hosts, BeginSync(h)
    PROVE  /\ Inv' /\ scan' = scan
           /\ runs'["job"].host = h /\ (h \notin raced => runs'["job"].pw = Wanted(h))
<1>1. /\ runs' = [runs EXCEPT !["job"] = Run(h, PasswordOf(secret[h]))]
      /\ secret[h] # NoServer /\ Decryptable(secret[h], "worker")
      /\ UNCHANGED <<config, keys, dropped, secret, meant, raced, form, text, scan, origin, changes>>
  BY DEF BeginSync
<1> DEFINE r == Run(h, PasswordOf(secret[h]))
<1>2. h \in Places /\ h # ScanRange /\ secret[h] \in Secrets
  BY Distinct DEF Inv, TypeOK, Places
<1>3. /\ secret[h] \in Token => PasswordOf(secret[h]) = secret[h].pw
      /\ secret[h] \notin Token => PasswordOf(secret[h]) = Default
  BY <1>1 DEF PasswordOf, Decryptable
<1>4. r \in Connections /\ r.host = h /\ r.token = secret[h] /\ r.pw = PasswordOf(secret[h])
  BY <1>2, <1>3 DEF Run, Connections, Token
<1>5. h \notin raced => r.pw = Wanted(h)
  BY <1>2, <1>3, <1>4, Distinct DEF Wanted, Inv, EnteredIsStored, Token
<1> HIDE DEF r
<1>6. /\ runs' \in [Runners -> Connections \cup {None}] /\ runs'["job"] = r
      /\ \A j \in Runners \ {"job"} : runs'[j] = runs[j]
  BY <1>1, <1>4 DEF Inv, TypeOK, Runners, r
<1>7. TypeOK'
  BY <1>1, <1>6 DEF Inv, TypeOK
<1>8. EnteredIsStored'
  BY <1>1, <1>4, <1>6 DEF Inv, EnteredIsStored, HeldAsStored
<1>9. KeysKnown'
  BY <1>1, <1>2, <1>4, <1>6 DEF Inv, KeysKnown, KeyKnown, Known
<1> QED BY <1>1, <1>4, <1>5, <1>6, <1>7, <1>8, <1>9 DEF Inv

LEMMA EndSyncInv ==
    ASSUME Inv, NEW j \in Runners, EndSync(j)
    PROVE  Inv'
<1>1. /\ runs' = [runs EXCEPT ![j] = None] /\ runs[j] # None
      /\ UNCHANGED <<config, keys, dropped, meant, raced, form, text, scan, origin, changes>>
      /\ secret' = [secret EXCEPT ![runs[j].host] = runs[j].token] \/ secret' = secret
  BY DEF EndSync
<1>2. runs[j] \in Connections /\ runs[j].host \in Places \ {ScanRange} /\ runs[j].token \in Secrets
  BY <1>1, Distinct DEF Inv, TypeOK, Connections, Places
<1>3. /\ runs' \in [Runners -> Connections \cup {None}]
      /\ \A i \in Runners : runs'[i] # None => runs'[i] = runs[i]
  BY <1>1 DEF Inv, TypeOK
<1>4. /\ secret' \in [Places -> Secrets]
      /\ \A x \in Places \ {runs[j].host} : secret'[x] = secret[x]
      /\ secret'[runs[j].host] \in {secret[runs[j].host], runs[j].token}
  BY <1>1, <1>2 DEF Inv, TypeOK
<1>5. \A x \in Places : x \notin raced => secret'[x] = secret[x]
  BY <1>1, <1>2, <1>4 DEF Inv, EnteredIsStored, HeldAsStored
<1>6. TypeOK'
  BY <1>1, <1>3, <1>4 DEF Inv, TypeOK
<1>7. EnteredIsStored'
  BY <1>1, <1>3, <1>5, HoldersInPlaces DEF Inv, EnteredIsStored, HeldAsStored
<1>8. KeysKnown'
  <2>1. \A x \in Places : KeyKnown(secret'[x])
    BY <1>1, <1>2, <1>4 DEF Inv, KeysKnown, KeyKnown
  <2> QED BY <1>1, <1>3, <2>1 DEF Inv, KeysKnown, KeyKnown, Known
<1> QED BY <1>6, <1>7, <1>8 DEF Inv

LEMMA BeginScanInv ==
    ASSUME Inv, BeginScan
    PROVE  /\ Inv' /\ runs' = runs
           /\ scan'.pc # "idle" /\ ScanRange \notin raced => scan'.pw = Wanted(ScanRange)
<1>1. UNCHANGED <<config, keys, dropped, secret, meant, raced, form, text, runs, origin, changes>>
  BY DEF BeginScan
<1>3. ScanRange \in Places /\ secret[ScanRange] \in Secrets
  BY DEF Inv, TypeOK, Places
<1>4. Decryptable(secret[ScanRange], "worker") =>
         /\ ScanRange \notin raced => PasswordOf(secret[ScanRange]) = Wanted(ScanRange)
         /\ PasswordOf(secret[ScanRange]) \in Passwords \cup {Default}
  BY <1>3, Distinct DEF PasswordOf, Decryptable, Wanted, Inv, EnteredIsStored, Token
<1>2. /\ scan' \in Scan
      /\ \/ scan'.pc = "token" /\ scan'.pw = PasswordOf(secret[ScanRange])
            /\ Decryptable(secret[ScanRange], "worker")
         \/ scan'.pc = "idle" /\ scan'.pw = None
  <2>1. CASE Decryptable(secret[ScanRange], "worker")
    <3> DEFINE pw == PasswordOf(secret[ScanRange])
    <3>1. scan' = [IdleScan EXCEPT !.pc = "token", !.todo = text, !.pw = pw]
      BY <2>1 DEF BeginScan
    <3>2. text \in Seq(Tokens) /\ pw \in Passwords \cup {Default} /\ <<>> \in Seq(Hosts)
      BY <1>4, <2>1, AccessAssumption DEF Inv, TypeOK
    <3> HIDE DEF pw
    <3>3. scan' \in Scan /\ scan'.pc = "token" /\ scan'.pw = pw
      BY <3>1, <3>2 DEF IdleScan, Scan, Messages
    <3> QED BY <2>1, <3>3 DEF pw
  <2>2. CASE ~Decryptable(secret[ScanRange], "worker")
    BY <2>2, Over DEF BeginScan, Messages
  <2> QED BY <2>1, <2>2
<1>5. TypeOK'
  BY <1>1, <1>2, <1>4, Distinct DEF Inv, TypeOK
<1>6. EnteredIsStored' /\ KeysKnown'
  BY <1>1 DEF Inv, EnteredIsStored, HeldAsStored, KeysKnown, KeyKnown, Known
<1> QED BY <1>1, <1>2, <1>4, <1>5, <1>6 DEF Inv

\* Steps of a scan that change nothing but where it is.
LEMMA ScanningInv ==
    ASSUME Inv, UNCHANGED <<config, keys, dropped, secret, meant, raced, form, text, runs, origin, changes>>,
           scan.pc # "idle", scan' \in Scan,
           \/ scan'.pc # "idle" /\ scan'.pw = scan.pw
           \/ scan'.pc = "idle" /\ scan'.pw = None
    PROVE  Inv'
<1>1. TypeOK'
  BY DEF Inv, TypeOK
<1>2. EnteredIsStored' /\ KeysKnown'
  BY DEF Inv, EnteredIsStored, HeldAsStored, KeysKnown, KeyKnown, Known
<1> QED BY <1>1, <1>2 DEF Inv

LEMMA InvalidIsOver ==
    Invalid \in Scan /\ Invalid.pc = "idle" /\ Invalid.pw = None /\ Invalid.message = "invalid"
BY Over DEF Invalid, Messages

\* Both invariants need to know what a step of the scan leaves in scan'; the
\* lemmas say it once, without EXCEPT.
LEMMA ExpandStep ==
    ASSUME Inv, Expand
    PROVE  /\ UNCHANGED <<config, keys, dropped, secret, meant, raced, form, text, runs, origin, changes>>
           /\ scan.pc = "token" /\ scan.todo # <<>> /\ scan.todo \in Seq(Tokens)
           /\ \/ ~Readable(Head(scan.todo)) /\ scan' = Invalid
              \/ /\ Head(scan.todo).kind # "malformed" /\ scan' \in Scan
                 /\ scan'.pc = "hosts" /\ scan'.todo = Tail(scan.todo)
                 /\ scan'.pending = HostsOf(Head(scan.todo)) /\ scan'.out = scan.out
                 /\ scan'.pw = scan.pw /\ scan'.message = scan.message
<1> DEFINE hosts == HostsOf(Head(scan.todo))
<1>1. /\ UNCHANGED <<config, keys, dropped, secret, meant, raced, form, text, runs, origin, changes>>
      /\ scan.pc = "token" /\ scan.todo # <<>>
      /\ scan' = IF ~Readable(Head(scan.todo)) THEN Invalid
                 ELSE [scan EXCEPT !.pc = "hosts", !.todo = Tail(scan.todo), !.pending = hosts]
  BY DEF Expand
<1>2. scan \in Scan /\ scan.todo \in Seq(Tokens)
  BY DEF Inv, TypeOK, Scan
<1>3. Head(scan.todo) \in Tokens /\ Tail(scan.todo) \in Seq(Tokens)
  BY <1>1, <1>2
<1>4. CASE Readable(Head(scan.todo))
  <2>1. hosts \in Seq(Hosts) /\ Head(scan.todo).kind # "malformed"
    BY <1>3, <1>4, HostsDenoted DEF Readable
  <2> HIDE DEF hosts
  <2>2. scan' = [scan EXCEPT !.pc = "hosts", !.todo = Tail(scan.todo), !.pending = hosts]
    BY <1>1, <1>4
  <2>3. /\ scan' \in Scan /\ scan'.pc = "hosts" /\ scan'.todo = Tail(scan.todo)
        /\ scan'.pending = hosts /\ scan'.out = scan.out
        /\ scan'.pw = scan.pw /\ scan'.message = scan.message
    BY <1>2, <1>3, <2>1, <2>2 DEF Scan
  <2> QED BY <1>1, <1>2, <2>1, <2>3 DEF hosts
<1> QED BY <1>1, <1>2, <1>4

LEMMA AddStep ==
    ASSUME Inv, Add
    PROVE  /\ UNCHANGED <<config, keys, dropped, secret, meant, raced, form, text, runs, origin, changes>>
           /\ scan.pc = "hosts" /\ scan.pending \in Seq(Hosts) /\ scan.out \in Seq(Hosts)
           /\ \/ scan.pending = <<>> /\ Len(scan.out) > Limit /\ scan' = Invalid
              \/ /\ scan' \in Scan /\ scan'.todo = scan.todo
                 /\ scan'.pw = scan.pw /\ scan'.message = scan.message
                 /\ \/ /\ scan.pending = <<>> /\ ~(Len(scan.out) > Limit)
                       /\ scan'.pc = "token" /\ scan'.pending = <<>> /\ scan'.out = scan.out
                    \/ /\ scan.pending # <<>> /\ scan'.pc = "hosts"
                       /\ scan'.pending = Tail(scan.pending)
                       /\ scan'.out = Added(scan.out, Head(scan.pending))
<1> DEFINE out == Added(scan.out, Head(scan.pending))
<1>1. /\ UNCHANGED <<config, keys, dropped, secret, meant, raced, form, text, runs, origin, changes>>
      /\ scan.pc = "hosts"
      /\ scan' = IF scan.pending # <<>>
                 THEN [scan EXCEPT !.pending = Tail(scan.pending), !.out = out]
                 ELSE IF Len(scan.out) > Limit THEN Invalid
                 ELSE [scan EXCEPT !.pc = "token"]
  BY DEF Add
<1>2. scan \in Scan /\ scan.pending \in Seq(Hosts) /\ scan.out \in Seq(Hosts)
  BY DEF Inv, TypeOK, Scan
<1>3. CASE scan.pending # <<>>
  <2>1. Tail(scan.pending) \in Seq(Hosts) /\ Head(scan.pending) \in Hosts
    BY <1>2, <1>3
  <2>2. out \in Seq(Hosts)
    BY <1>2, <2>1 DEF Added
  <2> HIDE DEF out
  <2>3. scan' = [scan EXCEPT !.pending = Tail(scan.pending), !.out = out]
    BY <1>1, <1>3
  <2>4. /\ scan' \in Scan /\ scan'.todo = scan.todo /\ scan'.pw = scan.pw
        /\ scan'.message = scan.message /\ scan'.pc = "hosts"
        /\ scan'.pending = Tail(scan.pending) /\ scan'.out = out
    BY <1>1, <1>2, <2>1, <2>2, <2>3 DEF Scan
  <2> QED BY <1>1, <1>2, <1>3, <2>4 DEF out
<1>4. CASE scan.pending = <<>> /\ ~(Len(scan.out) > Limit)
  <2>1. scan' = [scan EXCEPT !.pc = "token"]
    BY <1>1, <1>4
  <2>2. /\ scan' \in Scan /\ scan'.todo = scan.todo /\ scan'.pw = scan.pw
        /\ scan'.message = scan.message /\ scan'.pc = "token"
        /\ scan'.pending = <<>> /\ scan'.out = scan.out
    BY <1>2, <1>4, <2>1 DEF Scan
  <2> QED BY <1>1, <1>2, <1>4, <2>2
<1>5. CASE scan.pending = <<>> /\ Len(scan.out) > Limit
  BY <1>1, <1>2, <1>5
<1> QED BY <1>3, <1>4, <1>5

LEMMA FilterStep ==
    ASSUME Inv, Filter
    PROVE  /\ UNCHANGED <<config, keys, dropped, secret, meant, raced, form, text, runs, origin, changes>>
           /\ scan.pending \in Seq(Hosts) /\ scan.out \in Seq(Hosts)
           /\ scan' \in Scan /\ scan'.pw = scan.pw /\ scan'.message = scan.message
           /\ \/ /\ scan.pc = "token" /\ scan.todo = <<>> /\ scan'.pc = "filter"
                 /\ scan'.pending = scan.out /\ scan'.out = <<>>
              \/ /\ scan.pc = "filter" /\ scan.pending # <<>> /\ scan'.pc = "filter"
                 /\ scan'.pending = Tail(scan.pending)
                 /\ scan'.out = IF Permitted(Head(scan.pending))
                                THEN Append(scan.out, Head(scan.pending)) ELSE scan.out
              \/ scan.pc = "filter" /\ scan'.pc = "probe" /\ scan'.out = scan.out
<1> DEFINE h == Head(scan.pending)
           out == IF Permitted(h) THEN Append(scan.out, h) ELSE scan.out
<1>1. UNCHANGED <<config, keys, dropped, secret, meant, raced, form, text, runs, origin, changes>>
  BY DEF Filter
<1>2. scan \in Scan /\ scan.pending \in Seq(Hosts) /\ scan.out \in Seq(Hosts)
  BY DEF Inv, TypeOK, Scan
<1>3. CASE /\ scan.pc = "token" /\ scan.todo = <<>>
           /\ scan' = [scan EXCEPT !.pc = "filter", !.pending = scan.out, !.out = <<>>]
  <2>1. <<>> \in Seq(Hosts)
    OBVIOUS
  <2> QED BY <1>1, <1>2, <1>3, <2>1 DEF Scan
<1>4. CASE /\ scan.pc = "filter" /\ scan.pending # <<>>
           /\ scan' = [scan EXCEPT !.pending = Tail(scan.pending), !.out = out]
  <2>1. Tail(scan.pending) \in Seq(Hosts) /\ h \in Hosts
    BY <1>2, <1>4
  <2>2. out \in Seq(Hosts)
    BY <1>2, <2>1
  <2> HIDE DEF out
  <2>3. /\ scan' \in Scan /\ scan'.pw = scan.pw /\ scan'.message = scan.message
        /\ scan'.pc = "filter" /\ scan'.pending = Tail(scan.pending) /\ scan'.out = out
    BY <1>2, <1>4, <2>1, <2>2 DEF Scan
  <2> QED BY <1>1, <1>2, <1>4, <2>3 DEF out
<1>5. CASE /\ scan.pc = "filter" /\ scan.pending = <<>>
           /\ scan' = [scan EXCEPT !.pc = "probe"]
  BY <1>1, <1>2, <1>5 DEF Scan
<1> QED BY <1>3, <1>4, <1>5 DEF Filter

LEMMA ExpandInv == Inv /\ Expand => Inv'
<1> SUFFICES ASSUME Inv, Expand PROVE Inv'
  OBVIOUS
<1>1. CASE scan' = Invalid
  BY <1>1, ExpandStep, InvalidIsOver, ScanningInv
<1>2. CASE scan' # Invalid
  BY <1>2, ExpandStep, ScanningInv
<1> QED BY <1>1, <1>2

LEMMA AddInv == Inv /\ Add => Inv'
<1> SUFFICES ASSUME Inv, Add PROVE Inv'
  OBVIOUS
<1>1. CASE scan' = Invalid
  BY <1>1, AddStep, InvalidIsOver, ScanningInv
<1>2. CASE scan' # Invalid
  BY <1>2, AddStep, ScanningInv
<1> QED BY <1>1, <1>2

LEMMA FilterInv == Inv /\ Filter => Inv'
BY FilterStep, ScanningInv

LEMMA EndScanInv == Inv /\ EndScan => Inv'
<1> SUFFICES ASSUME Inv, EndScan PROVE Inv'
  OBVIOUS
<1>1. scan.pc = "probe" /\ scan' \in Scan /\ scan'.pc = "idle" /\ scan'.pw = None
  BY Over DEF EndScan, Messages
<1> QED BY <1>1, ScanningInv DEF EndScan

LEMMA ProbeInv == Inv /\ Probe => Inv'
<1> SUFFICES ASSUME Inv, Probe PROVE Inv'
  OBVIOUS
<1> DEFINE h == Head(scan.out)
<1>1. /\ UNCHANGED <<config, keys, dropped, meant, raced, form, text, changes>>
      /\ scan.pc = "probe" /\ scan' = [scan EXCEPT !.out = Tail(@)] /\ runs["scan"] = None
  BY DEF Probe
<1>2. scan' \in Scan /\ scan'.pc = "probe" /\ scan'.pw = scan.pw
  <2>1. scan \in Scan /\ scan.out \in Seq(Hosts) /\ scan.out # <<>>
    BY DEF Inv, TypeOK, Scan, Probe
  <2>2. Tail(scan.out) \in Seq(Hosts)
    BY <2>1
  <2> QED BY <1>1, <2>1, <2>2 DEF Scan
<1>3. CASE UNCHANGED <<secret, origin, runs>>
  <2>1. UNCHANGED <<config, keys, dropped, secret, meant, raced, form, text, runs, origin, changes>>
    BY <1>1, <1>3
  <2>2. scan.pc # "idle"
    BY <1>1
  <2> QED BY <1>2, <2>1, <2>2, ScanningInv
<1>4. ASSUME NEW g \in {h} \cup {g \in Hosts : secret[g] # NoServer /\ SameMachine(g, h)},
             secret[h] = NoServer, h \in Reachable,
             secret' = [secret EXCEPT ![g] = IF secret[g] = NoServer THEN NoSecret ELSE secret[g]],
             origin' = IF g = h THEN [origin EXCEPT ![h] = scan.pw] ELSE origin,
             runs' = [runs EXCEPT !["scan"] = [host |-> g, token |-> secret'[g], pw |-> scan.pw]]
      PROVE  Inv'
  <2> DEFINE t == IF secret[g] = NoServer THEN NoSecret ELSE secret[g]
             r == [host |-> g, token |-> t, pw |-> scan.pw]
  <2>1. g \in Hosts /\ g \in Places /\ g # ScanRange
    BY <1>4, AccessAssumption, Distinct DEF Places
  <2>2. scan.pw \in Passwords \cup {Default}
    BY <1>1 DEF Inv, TypeOK, Scan
  <2>3. t \in Secrets /\ t # NoServer /\ (t \in Token => t = secret[g])
    BY <2>1, Distinct DEF Inv, TypeOK, Secrets
  <2>4. secret[g] \in Token => t = secret[g]
    BY Distinct
  <2>5. secret[g] # NoServer => t = secret[g]
    OBVIOUS
  <2> HIDE DEF t
  <2>6. /\ secret' \in [Places -> Secrets] /\ secret'[g] = t
        /\ \A x \in Places \ {g} : secret'[x] = secret[x]
    BY <1>4, <2>1, <2>3 DEF Inv, TypeOK, t
  <2>7. r \in Connections /\ r.host = g /\ r.token = t
    BY <2>1, <2>2, <2>3 DEF Connections
  <2>8. r # None => runs'["scan"] = r
    BY <1>4, <2>6 DEF Inv, TypeOK, Runners
  <2> HIDE DEF r
  <2>9. /\ runs' \in [Runners -> Connections \cup {None}] /\ runs'["scan"] = r
        /\ \A j \in Runners \ {"scan"} : runs'[j] = runs[j]
    BY <1>4, <2>6, <2>7 DEF Inv, TypeOK, Runners, r
  <2>10. origin' \in [Hosts -> Passwords \cup {Default, None}]
    BY <1>4, <2>2 DEF Inv, TypeOK
  <2>11. TypeOK'
    BY <1>1, <1>2, <2>2, <2>6, <2>9, <2>10, Distinct DEF Inv, TypeOK
  <2>12. EnteredIsStored'
    <3>1. \A x \in Places \ raced :
             IF secret'[x] \in Token THEN secret'[x].pw = meant[x] ELSE meant[x] = None
      BY <2>1, <2>3, <2>4, <2>6 DEF Inv, EnteredIsStored
    <3>2. ASSUME NEW x \in Places, NEW token, HeldAsStored(x, token)
          PROVE  token # NoServer /\ (x \notin raced' => token = secret'[x])
      <4>1. CASE x = g
        BY <1>1, <2>5, <2>6, <3>2, <4>1 DEF HeldAsStored
      <4>2. CASE x # g
        BY <1>1, <2>6, <3>2, <4>2 DEF HeldAsStored
      <4> QED BY <4>1, <4>2
    <3>3. ASSUME NEW j \in Runners, runs'[j] # None
          PROVE  HeldAsStored(runs[j].host, runs[j].token)'
      <4>1. CASE j = "scan"
        BY <2>3, <2>6, <2>7, <2>9, <4>1 DEF HeldAsStored
      <4>2. CASE j # "scan"
        <5>1. runs'[j] = runs[j] /\ HeldAsStored(runs[j].host, runs[j].token)
              /\ runs[j].host \in Places
          BY <2>9, <3>3, <4>2, HoldersInPlaces DEF Inv, EnteredIsStored
        <5> QED BY <3>2, <5>1 DEF HeldAsStored
      <4> QED BY <4>1, <4>2
    <3>4. ASSUME NEW e \in Editors, form'[e] # None
          PROVE  HeldAsStored(form[e].place, form[e].token)'
      <4>1. form'[e] = form[e] /\ HeldAsStored(form[e].place, form[e].token)
            /\ form[e].place \in Places
        BY <1>1, <3>4, HoldersInPlaces DEF Inv, EnteredIsStored
      <4> QED BY <3>2, <4>1 DEF HeldAsStored
    <3> QED BY <1>1, <3>1, <3>3, <3>4 DEF EnteredIsStored
  <2>13. KeysKnown'
    <3>1. KeyKnown(t)
      BY <2>1, <2>3 DEF Inv, KeysKnown, KeyKnown
    <3>2. \A x \in Places : KeyKnown(secret'[x])
      BY <2>6, <3>1 DEF Inv, KeysKnown, KeyKnown
    <3>3. \A j \in Runners : runs'[j] # None => KeyKnown(runs'[j].token)
      BY <2>7, <2>9, <3>1 DEF Inv, KeysKnown, KeyKnown
    <3> QED BY <1>1, <3>2, <3>3 DEF Inv, KeysKnown, KeyKnown, Known
  <2> QED BY <2>11, <2>12, <2>13 DEF Inv
<1> QED BY <1>1, <1>3, <1>4 DEF Probe

-----------------------------------------------------------------------------
LEMMA StutterInv == Inv /\ UNCHANGED vars => Inv'
BY DEF Inv, TypeOK, EnteredIsStored, HeldAsStored, KeysKnown, KeyKnown, Known, vars

LEMMA NextInv == Inv /\ [Next]_vars => Inv'
<1> SUFFICES ASSUME Inv, [Next]_vars PROVE Inv'
  OBVIOUS
<1>1. CASE \E k \in Keys : Rotate(k)
  BY <1>1, RotateInv
<1>2. CASE \E p \in Processes : Restart(p)
  BY <1>2, RestartInv
<1>3. CASE \E x \in Hosts, pw \in Passwords \cup {None} : Enter(x, pw)
  BY <1>3, EnterInv
<1>4. CASE \E e \in Editors, x \in Places : OpenForm(e, x)
  BY <1>4, OpenFormInv
<1>5. CASE \E e \in Editors, pw \in Passwords \cup {None} : SaveForm(e, pw)
  BY <1>5, SaveFormInv
<1>6. CASE \E e \in Editors : DropForm(e)
  BY <1>6, DropFormInv
<1>7. CASE \E h \in Hosts : BeginSync(h)
  BY <1>7, BeginSyncInv
<1>8. CASE \E j \in Runners : EndSync(j)
  BY <1>8, EndSyncInv
<1> QED
  BY <1>1, <1>2, <1>3, <1>4, <1>5, <1>6, <1>7, <1>8, DropFallbacksInv, BeginScanInv, ExpandInv, AddInv, FilterInv,
     ProbeInv, EndScanInv, StutterInv DEF Next

\* The inductive invariant holds in every reachable state.
THEOREM AlwaysInv == Spec => []Inv
BY InitInv, NextInv, PTL DEF Spec

-----------------------------------------------------------------------------
(* The targets.                                                            *)

Done == Len(text) - Len(scan.todo)

\* What the first n tokens of the text denote.
Covered(n) == {h \in Hosts : \E i \in 1..n : Denotes(text[i], h)}

\* Where a scan is: its targets and the hosts it has yet to add are those of
\* the tokens it has read; the ones it has filtered are of the text and
\* permitted; and so were the ones it made servers for.
ScanInv ==
    /\ scan.pc \in {"token", "hosts"} =>
          /\ Len(scan.todo) <= Len(text)
          /\ \A i \in 1..Len(scan.todo) : scan.todo[i] = text[Done + i]
          /\ Range(scan.out) \cup Range(scan.pending) = Covered(Done)
          /\ IsInjective(scan.out)
    /\ scan.pc = "token" => scan.pending = <<>> /\ Len(scan.out) <= Limit
    /\ scan.pc = "filter" => Range(scan.pending) \subseteq Denoted
    /\ scan.pc \in {"filter", "probe"} =>
          \A h \in Range(scan.out) : h \in Denoted /\ Permitted(h)

\* Every reachable state has its targets from the text.
TargetInv == ScanInv /\ InvalidOnlyIfSo /\ ImportsOnlyTargets

\* A scan may do to its lists what a step does: take the first, add at the end.
LEMMA RangeOfSteps ==
    ASSUME NEW S, NEW s \in Seq(S)
    PROVE  /\ s # <<>> => /\ Head(s) \in Range(s) /\ Range(s) = {Head(s)} \cup Range(Tail(s))
           /\ \A h \in S : Range(Append(s, h)) = Range(s) \cup {h}
           /\ s = <<>> => Range(s) = {}
<1>1. ASSUME s # <<>>
      PROVE  Head(s) \in Range(s) /\ Range(s) = {Head(s)} \cup Range(Tail(s))
  <2>1. Len(s) \in Nat \ {0} /\ Head(s) = s[1] /\ DOMAIN s = 1..Len(s)
    BY <1>1
  <2>2. /\ Tail(s) \in Seq(S) /\ DOMAIN Tail(s) = 1..(Len(s) - 1)
        /\ \A i \in 1..(Len(s) - 1) : Tail(s)[i] = s[i + 1]
    BY <1>1
  <2>3. Head(s) \in Range(s)
    BY <2>1 DEF Range
  <2>4. Range(Tail(s)) \subseteq Range(s)
    <3>1. \A i \in 1..(Len(s) - 1) : i + 1 \in 1..Len(s)
      BY <2>1
    <3> QED BY <2>1, <2>2, <3>1 DEF Range
  <2>5. ASSUME NEW h \in Range(s)
        PROVE  h \in {Head(s)} \cup Range(Tail(s))
    <3>1. PICK i \in 1..Len(s) : h = s[i]
      BY <2>1 DEF Range
    <3>2. CASE i = 1
      BY <2>1, <3>1, <3>2
    <3>3. CASE i # 1
      <4>1. i - 1 \in 1..(Len(s) - 1) /\ Tail(s)[i - 1] = s[i]
        BY <2>1, <2>2, <3>3
      <4> QED BY <2>2, <3>1, <4>1 DEF Range
    <3> QED BY <3>2, <3>3
  <2> QED BY <2>3, <2>4, <2>5
<1>2. ASSUME NEW h \in S
      PROVE  Range(Append(s, h)) = Range(s) \cup {h}
  <2>1. Len(s) \in Nat /\ DOMAIN s = 1..Len(s) /\ DOMAIN Append(s, h) = 1..(Len(s) + 1)
        /\ Append(s, h)[Len(s) + 1] = h /\ \A i \in 1..Len(s) : Append(s, h)[i] = s[i]
    OBVIOUS
  <2>2. 1..(Len(s) + 1) = 1..Len(s) \cup {Len(s) + 1}
    BY <2>1
  <2> QED BY <2>1, <2>2 DEF Range
<1>3. ASSUME s = <<>>
      PROVE  Range(s) = {}
  BY <1>3 DEF Range
<1> QED BY <1>1, <1>2, <1>3

\* A list without duplicates is as long as its elements are many.
LEMMA Counting ==
    ASSUME NEW S, NEW s \in Seq(S), IsInjective(s)
    PROVE  /\ Cardinality(Range(s)) <= Len(s)
           /\ \A D : IsFiniteSet(D) /\ Range(s) \subseteq D => Len(s) <= Cardinality(D)
<1> DEFINE I == 1..Len(s)
<1>1. Len(s) \in Nat /\ DOMAIN s = I /\ s \in [I -> Range(s)]
  BY DEF Range
<1>2. IsFiniteSet(I) /\ Cardinality(I) = Len(s)
  BY <1>1, FS_Interval
<1>3. s \in Surjection(I, Range(s))
  BY <1>1 DEF Surjection, Range
<1>4. Cardinality(Range(s)) <= Len(s)
  BY <1>2, <1>3, FS_Surjection
<1>5. ASSUME NEW D, IsFiniteSet(D), Range(s) \subseteq D
      PROVE  Len(s) <= Cardinality(D)
  <2>1. s \in Injection(I, D)
    BY <1>1, <1>5 DEF Injection, IsInjective
  <2> HIDE DEF I
  <2>2. Cardinality(I) <= Cardinality(D)
    BY <1>5, <2>1, FS_Injection
  <2> QED BY <1>2, <2>2
<1> QED BY <1>4, <1>5

LEMMA DenotedFinite == Inv => IsFiniteSet(Denoted)
<1> SUFFICES ASSUME Inv PROVE IsFiniteSet(Denoted)
  OBVIOUS
<1> DEFINE I == 1..Len(text)
           f == [i \in I |-> text[i].host]
<1>1. Len(text) \in Nat /\ DOMAIN text = I /\ \A i \in I : text[i] \in Tokens
  BY AccessAssumption DEF Inv, TypeOK
<1>2. IsFiniteSet(I)
  BY <1>1, FS_Interval
<1>3. f \in Surjection(I, Range(f))
  BY DEF Surjection, Range
<1>4. IsFiniteSet(Range(f))
  BY <1>2, <1>3, FS_Surjection
<1>5. IsFiniteSet(Addresses)
  BY AccessAssumption, FS_Interval DEF Addresses
<1>6. IsFiniteSet(Addresses \cup Range(f))
  BY <1>4, <1>5, FS_Union
<1>7. ASSUME NEW h \in Denoted
      PROVE  h \in Addresses \cup Range(f)
  <2>1. PICK i \in I : Denotes(text[i], h)
    BY <1>1, <1>7 DEF Denoted
  <2>2. CASE text[i].kind = "host"
    <3>1. h = text[i].host
      BY <2>1, <2>2 DEF Denotes
    <3> QED BY <3>1 DEF Range
  <2>3. CASE text[i].kind = "range"
    <3>1. text[i] \in Dashed
      BY <1>1, <2>3 DEF Tokens, Cidrs, Singles, Malformed
    <3>2. text[i].first \in Addresses /\ text[i].last \in Addresses
      BY <3>1 DEF Dashed
    <3>3. h \in text[i].first..text[i].last
      BY <2>1, <2>3 DEF Denotes
    <3> QED BY <3>2, <3>3, AccessAssumption DEF Addresses
  <2>4. CASE text[i].kind = "cidr"
    BY <2>1, <2>4 DEF Denotes
  <2> QED BY <2>1, <2>2, <2>3, <2>4 DEF Denotes
<1> QED BY <1>6, <1>7, FS_Subset

LEMMA CoveredAll == Inv => Covered(Len(text)) = Denoted
<1> SUFFICES ASSUME Inv PROVE Covered(Len(text)) = Denoted
  OBVIOUS
<1>1. DOMAIN text = 1..Len(text)
  BY AccessAssumption DEF Inv, TypeOK
<1> QED BY <1>1 DEF Covered, Denoted

\* What ScanInv and the two properties are about; the rest may change.
LEMMA SameTargets ==
    ASSUME TargetInv, UNCHANGED <<text, origin>>,
           UNCHANGED scan \/ (scan'.pc = "idle" /\ scan'.message \in {scan.message, "none", "refused", "scanned"})
    PROVE  TargetInv'
<1>1. Denoted' = Denoted
  BY DEF Denoted
<1>2. ImportsOnlyTargets'
  BY <1>1 DEF TargetInv, ImportsOnlyTargets
<1>3. InvalidOnlyIfSo'
  BY <1>1 DEF TargetInv, InvalidOnlyIfSo, TooMany, Unreadable, NamesWithDash
<1>4. ScanInv'
  BY <1>1 DEF TargetInv, ScanInv, Done, Covered
<1> QED BY <1>2, <1>3, <1>4 DEF TargetInv

LEMMA InitTargetInv == Init => TargetInv
<1> SUFFICES ASSUME Init PROVE TargetInv
  OBVIOUS
<1>1. scan.pc = "idle" /\ scan.message = "none" /\ \A h \in Hosts : origin[h] = None
  BY DEF Init, IdleScan
<1> QED BY <1>1 DEF TargetInv, ScanInv, InvalidOnlyIfSo, ImportsOnlyTargets

\* A scan in progress with the same message: only its place is in question.
LEMMA MovedTargets ==
    ASSUME TargetInv, UNCHANGED <<text, origin>>, scan'.message = scan.message, ScanInv'
    PROVE  TargetInv'
BY DEF TargetInv, InvalidOnlyIfSo, TooMany, Unreadable, NamesWithDash,
     ImportsOnlyTargets, Denoted

LEMMA RestartTargets ==
    ASSUME TargetInv, NEW p \in Processes, Restart(p)
    PROVE  TargetInv'
<1>1. UNCHANGED <<text, origin>>
  BY DEF Restart
<1>2. UNCHANGED scan \/ (scan'.pc = "idle" /\ scan'.message = scan.message)
  BY DEF Restart, IdleScan
<1> QED BY <1>1, <1>2, SameTargets

LEMMA BeginScanTargets == Inv /\ TargetInv /\ BeginScan => TargetInv'
<1> SUFFICES ASSUME Inv, TargetInv, BeginScan PROVE TargetInv'
  OBVIOUS
<1>1. UNCHANGED <<text, origin>>
  BY DEF BeginScan
<1>2. CASE ~Decryptable(secret[ScanRange], "worker")
  <2>1. scan'.pc = "idle" /\ scan'.message = "refused"
    BY <1>2 DEF BeginScan, IdleScan
  <2> QED BY <1>1, <2>1, SameTargets
<1>3. CASE Decryptable(secret[ScanRange], "worker")
  <2>1. /\ scan'.pc = "token" /\ scan'.todo = text /\ scan'.pending = <<>> /\ scan'.out = <<>>
        /\ scan'.message = "none"
    BY <1>3 DEF BeginScan, IdleScan
  <2>2. Len(text) \in Nat /\ Limit \in Nat
    BY AccessAssumption DEF Inv, TypeOK
  <2>3. Done' = 0
    BY <1>1, <2>1, <2>2 DEF Done
  <2>4. Covered(0)' = {}
    BY DEF Covered
  <2>5. Range(scan'.out) = {} /\ Range(scan'.pending) = {} /\ IsInjective(scan'.out)
        /\ Len(scan'.out) = 0
    BY <2>1 DEF Range, IsInjective
  <2>6. ScanInv'
    <3>1. Covered(Done)' = {}
      BY <2>3, <2>4 DEF Covered
    <3>2. \A i \in 1..Len(text) : text[i] = text[0 + i]
      BY <2>2
    <3> QED BY <1>1, <2>1, <2>2, <2>3, <2>5, <3>1, <3>2 DEF ScanInv
  <2>7. InvalidOnlyIfSo' /\ ImportsOnlyTargets'
    BY <1>1, <2>1 DEF TargetInv, InvalidOnlyIfSo, TooMany, Unreadable, NamesWithDash,
     ImportsOnlyTargets, Denoted
  <2> QED BY <2>6, <2>7 DEF TargetInv
<1> QED BY <1>2, <1>3

LEMMA ExpandTargets == Inv /\ TargetInv /\ Expand => TargetInv'
<1> SUFFICES ASSUME Inv, TargetInv, Expand PROVE TargetInv'
  OBVIOUS
<1> DEFINE t == Head(scan.todo)
           n == Len(text)
           k == Len(scan.todo)
<1>1. /\ UNCHANGED <<text, origin>> /\ scan.pc = "token"
      /\ scan.todo # <<>> /\ scan.todo \in Seq(Tokens)
  BY ExpandStep
<1>2. n \in Nat /\ DOMAIN text = 1..n /\ \A i \in 1..n : text[i] \in Tokens
  BY AccessAssumption DEF Inv, TypeOK
<1>3. /\ k \in Nat \ {0} /\ t = scan.todo[1] /\ t \in Tokens
      /\ Len(Tail(scan.todo)) = k - 1
      /\ \A i \in 1..(k - 1) : Tail(scan.todo)[i] = scan.todo[i + 1]
  BY <1>1
<1>4. /\ k <= n /\ Done = n - k /\ \A i \in 1..k : scan.todo[i] = text[Done + i]
      /\ Range(scan.out) \cup Range(scan.pending) = Covered(Done)
      /\ IsInjective(scan.out) /\ scan.pending = <<>>
  BY <1>1 DEF TargetInv, ScanInv, Done
<1> HIDE DEF n, k
<1>5. Done + 1 \in 1..n /\ t = text[Done + 1] /\ Done \in Nat
  BY <1>2, <1>3, <1>4
<1>6. CASE ~Readable(t) /\ scan' = Invalid
  <2>1. scan'.pc = "idle" /\ scan'.message = "invalid"
    BY <1>6, InvalidIsOver
  <2>2. Unreadable \/ NamesWithDash
    BY <1>2, <1>5, <1>6 DEF Readable, Unreadable, NamesWithDash
  <2>3. ScanInv'
    BY <2>1 DEF ScanInv
  <2>4. InvalidOnlyIfSo'
    BY <1>1, <2>2 DEF InvalidOnlyIfSo, Unreadable, NamesWithDash
  <2>5. ImportsOnlyTargets'
    BY <1>1 DEF TargetInv, ImportsOnlyTargets, Denoted
  <2> QED BY <2>3, <2>4, <2>5 DEF TargetInv
<1>7. CASE /\ t.kind # "malformed" /\ scan'.pc = "hosts" /\ scan'.todo = Tail(scan.todo)
           /\ scan'.pending = HostsOf(t) /\ scan'.out = scan.out /\ scan'.message = scan.message
  <2>1. \A h : h \in Range(HostsOf(t)) <=> h \in Hosts /\ Denotes(t, h)
    BY <1>3, <1>7, HostsDenoted
  <2>2. Range(<<>>) = {}
    BY DEF Range
  <2>3. Range(scan.out) = Covered(Done)
    BY <1>4, <2>2
  <2>4. Done' = Done + 1 /\ Len(scan'.todo) = k - 1
    <3>1. Len(scan'.todo) = k - 1
      BY <1>3, <1>7
    <3>2. Done' = n - (k - 1)
      BY <1>1, <3>1 DEF Done, n
    <3> QED BY <1>2, <1>3, <1>4, <3>1, <3>2
  <2>5. Covered(Done + 1) = Covered(Done) \cup Range(HostsOf(t))
    <3>1. 1..(Done + 1) = 1..Done \cup {Done + 1}
      BY <1>5
    <3> QED BY <1>5, <2>1, <3>1 DEF Covered
  <2>6. Covered(Done)' = Covered(Done + 1)
    BY <1>1, <2>4 DEF Covered
  <2>7. Range(scan'.out) \cup Range(scan'.pending) = Covered(Done)'
    BY <1>7, <2>3, <2>5, <2>6
  <2>8. ASSUME NEW i \in 1..(k - 1)
        PROVE  scan'.todo[i] = text[(Done + 1) + i]
    <3>1. i + 1 \in 1..k /\ Done + (i + 1) = (Done + 1) + i
      BY <1>3, <1>5
    <3> QED BY <1>3, <1>4, <1>7, <3>1
  <2>9. Len(scan'.todo) <= Len(text)'
    BY <1>1, <1>2, <1>3, <1>4, <2>4 DEF n
  <2>10. ScanInv'
    BY <1>1, <1>4, <1>7, <2>4, <2>7, <2>8, <2>9 DEF ScanInv
  <2> QED BY <1>1, <1>7, <2>10, MovedTargets
<1> QED BY <1>6, <1>7, ExpandStep

LEMMA AddTargets == Inv /\ TargetInv /\ Add => TargetInv'
<1> SUFFICES ASSUME Inv, TargetInv, Add PROVE TargetInv'
  OBVIOUS
<1>1. /\ UNCHANGED <<text, origin>> /\ scan.pc = "hosts"
      /\ scan.pending \in Seq(Hosts) /\ scan.out \in Seq(Hosts)
  BY AddStep
<1>2. /\ Len(scan.todo) <= Len(text)
      /\ \A i \in 1..Len(scan.todo) : scan.todo[i] = text[Done + i]
      /\ Range(scan.out) \cup Range(scan.pending) = Covered(Done)
      /\ IsInjective(scan.out)
  BY <1>1 DEF TargetInv, ScanInv
<1>3. scan'.todo = scan.todo => Done' = Done /\ Covered(Done)' = Covered(Done)
  BY <1>1 DEF Covered, Done
<1>4. CASE scan.pending = <<>> /\ Len(scan.out) > Limit /\ scan' = Invalid
  <2>1. scan'.pc = "idle" /\ scan'.message = "invalid"
    BY <1>4, InvalidIsOver
  <2>2. Len(text) \in Nat /\ Len(scan.todo) \in Nat /\ DOMAIN text = 1..Len(text)
    BY AccessAssumption DEF Inv, TypeOK, Scan
  <2>3. Covered(Done) \subseteq Denoted
    <3>1. 1..Done \subseteq DOMAIN text
      BY <1>2, <2>2 DEF Done
    <3> QED BY <3>1 DEF Covered, Denoted
  <2>4. IsFiniteSet(Denoted)
    BY DenotedFinite
  <2>5. Len(scan.out) <= Cardinality(Denoted)
    BY <1>1, <1>2, <2>3, <2>4, Counting
  <2>6. Cardinality(Denoted) \in Nat /\ Len(scan.out) \in Nat /\ Limit \in Nat
    BY <1>1, <2>4, FS_CardinalityType, AccessAssumption
  <2>7. Cardinality(Denoted) > Limit
    BY <1>4, <2>5, <2>6
  <2>8. ScanInv'
    BY <2>1 DEF ScanInv
  <2>9. Denoted' = Denoted
    BY <1>1 DEF Denoted
  <2>10. InvalidOnlyIfSo' /\ ImportsOnlyTargets'
    BY <1>1, <2>7, <2>9 DEF TargetInv, InvalidOnlyIfSo, TooMany, ImportsOnlyTargets
  <2> QED BY <2>8, <2>10 DEF TargetInv
<1>5. CASE /\ scan'.todo = scan.todo /\ scan'.message = scan.message
           /\ scan.pending = <<>> /\ ~(Len(scan.out) > Limit)
           /\ scan'.pc = "token" /\ scan'.pending = <<>> /\ scan'.out = scan.out
  <2>1. Len(scan.out) <= Limit
    BY <1>1, <1>5, AccessAssumption
  <2>2. ScanInv'
    BY <1>1, <1>2, <1>3, <1>5, <2>1 DEF ScanInv
  <2> QED BY <1>1, <1>5, <2>2, MovedTargets
<1>6. CASE /\ scan'.todo = scan.todo /\ scan'.message = scan.message
           /\ scan.pending # <<>> /\ scan'.pc = "hosts"
           /\ scan'.pending = Tail(scan.pending)
           /\ scan'.out = Added(scan.out, Head(scan.pending))
  <2> DEFINE h == Head(scan.pending)
  <2>1. h \in Hosts /\ Range(scan.pending) = {h} \cup Range(Tail(scan.pending))
    BY <1>1, <1>6, RangeOfSteps
  <2>2. Range(scan'.out) = Range(scan.out) \cup {h}
    BY <1>1, <1>6, <2>1, RangeOfSteps DEF Added
  <2>3. IsInjective(scan'.out)
    <3>1. CASE h \in Range(scan.out)
      BY <1>2, <1>6, <3>1 DEF Added
    <3>2. CASE h \notin Range(scan.out)
      <4>1. scan'.out = Append(scan.out, h)
        BY <1>6, <3>2 DEF Added
      <4>2. /\ Len(scan.out) \in Nat /\ DOMAIN scan.out = 1..Len(scan.out)
            /\ DOMAIN Append(scan.out, h) = 1..(Len(scan.out) + 1)
            /\ Append(scan.out, h)[Len(scan.out) + 1] = h
            /\ \A i \in 1..Len(scan.out) : Append(scan.out, h)[i] = scan.out[i]
        BY <1>1
      <4>3. \A i \in 1..Len(scan.out) : scan.out[i] # h
        BY <3>2, <4>2 DEF Range
      <4> QED BY <1>2, <4>1, <4>2, <4>3 DEF IsInjective
    <3> QED BY <3>1, <3>2
  <2>4. Range(scan'.out) \cup Range(scan'.pending) = Covered(Done)'
    BY <1>2, <1>3, <1>6, <2>1, <2>2
  <2>5. ScanInv'
    BY <1>1, <1>2, <1>3, <1>6, <2>3, <2>4 DEF ScanInv
  <2> QED BY <1>1, <1>6, <2>5, MovedTargets
<1> QED BY <1>4, <1>5, <1>6, AddStep

LEMMA FilterTargets == Inv /\ TargetInv /\ Filter => TargetInv'
<1> SUFFICES ASSUME Inv, TargetInv, Filter PROVE TargetInv'
  OBVIOUS
<1>1. /\ UNCHANGED <<text, origin>> /\ scan'.message = scan.message
      /\ scan.pending \in Seq(Hosts) /\ scan.out \in Seq(Hosts)
  BY FilterStep
<1>2. Denoted' = Denoted
  BY <1>1 DEF Denoted
<1>3. CASE /\ scan.pc = "token" /\ scan.todo = <<>> /\ scan'.pc = "filter"
           /\ scan'.pending = scan.out /\ scan'.out = <<>>
  <2>1. Done = Len(text)
    BY <1>3, AccessAssumption DEF Done, Inv, TypeOK
  <2>2. Range(scan.out) \subseteq Denoted
    BY <1>3, <2>1, CoveredAll DEF TargetInv, ScanInv
  <2>3. Range(scan'.out) = {}
    BY <1>3 DEF Range
  <2>4. ScanInv'
    BY <1>2, <1>3, <2>2, <2>3 DEF ScanInv
  <2> QED BY <1>1, <2>4, MovedTargets
<1>4. CASE /\ scan.pc = "filter" /\ scan.pending # <<>> /\ scan'.pc = "filter"
           /\ scan'.pending = Tail(scan.pending)
           /\ scan'.out = IF Permitted(Head(scan.pending))
                          THEN Append(scan.out, Head(scan.pending)) ELSE scan.out
  <2> DEFINE h == Head(scan.pending)
  <2>1. /\ Range(scan.pending) \subseteq Denoted
        /\ \A g \in Range(scan.out) : g \in Denoted /\ Permitted(g)
    BY <1>4 DEF TargetInv, ScanInv
  <2>2. h \in Hosts /\ Range(scan.pending) = {h} \cup Range(Tail(scan.pending))
    BY <1>1, <1>4, RangeOfSteps
  <2>3. Range(scan'.out) \subseteq Range(scan.out) \cup (IF Permitted(h) THEN {h} ELSE {})
    BY <1>1, <1>4, <2>2, RangeOfSteps
  <2>4. \A g \in Range(scan'.out) : g \in Denoted /\ Permitted(g)
    BY <2>1, <2>2, <2>3
  <2>5. ScanInv'
    BY <1>2, <1>4, <2>1, <2>2, <2>4 DEF ScanInv, Permitted, AddressesOf
  <2> QED BY <1>1, <2>5, MovedTargets
<1>5. CASE scan.pc = "filter" /\ scan'.pc = "probe" /\ scan'.out = scan.out
  <2>1. \A g \in Range(scan.out) : g \in Denoted /\ Permitted(g)
    BY <1>5 DEF TargetInv, ScanInv
  <2>2. ScanInv'
    BY <1>2, <1>5, <2>1 DEF ScanInv, Permitted, AddressesOf
  <2> QED BY <1>1, <2>2, MovedTargets
<1> QED BY <1>3, <1>4, <1>5, FilterStep

LEMMA ProbeTargets == Inv /\ TargetInv /\ Probe => TargetInv'
<1> SUFFICES ASSUME Inv, TargetInv, Probe PROVE TargetInv'
  OBVIOUS
<1> DEFINE h == Head(scan.out)
<1>1. /\ text' = text /\ scan.pc = "probe" /\ scan.out # <<>>
      /\ scan' = [scan EXCEPT !.out = Tail(scan.out)]
      /\ \A g \in Hosts \ {h} : origin'[g] = origin[g]
  BY DEF Probe, Inv, TypeOK
<1>2. scan \in Scan /\ scan.out \in Seq(Hosts)
  BY DEF Inv, TypeOK, Scan
<1>3. scan'.pc = "probe" /\ scan'.message = scan.message /\ scan'.out = Tail(scan.out)
  BY <1>1, <1>2 DEF Scan
<1>4. h \in Range(scan.out) /\ Range(scan'.out) \subseteq Range(scan.out)
  BY <1>1, <1>2, <1>3, RangeOfSteps
<1>5. \A g \in Range(scan.out) : g \in Denoted /\ Permitted(g)
  BY <1>1 DEF TargetInv, ScanInv
<1>6. Denoted' = Denoted
  BY <1>1 DEF Denoted
<1>7. ScanInv'
  BY <1>3, <1>4, <1>5, <1>6 DEF ScanInv, Permitted, AddressesOf
<1>8. InvalidOnlyIfSo'
  BY <1>1, <1>3, <1>6 DEF TargetInv, InvalidOnlyIfSo, TooMany, Unreadable, NamesWithDash
<1>9. Allowed # {} => AddressesOf(h) \subseteq Allowed
  BY <1>4, <1>5 DEF Permitted
<1>10. ImportsOnlyTargets'
  BY <1>1, <1>4, <1>5, <1>6, <1>9 DEF TargetInv, ImportsOnlyTargets, AddressesOf
<1> QED BY <1>7, <1>8, <1>10 DEF TargetInv

LEMMA NextTargetInv == Inv /\ TargetInv /\ [Next]_vars => TargetInv'
<1> SUFFICES ASSUME Inv, TargetInv, [Next]_vars PROVE TargetInv'
  OBVIOUS
<1>1. CASE UNCHANGED <<text, scan, origin>>
  BY <1>1, SameTargets
<1>2. CASE \E k \in Keys : Rotate(k)
  BY <1>1, <1>2 DEF Rotate
<1>3. CASE DropFallbacks
  BY <1>1, <1>3 DEF DropFallbacks
<1>4. CASE \E p \in Processes : Restart(p)
  BY <1>4, RestartTargets
<1>5. CASE \E x \in Hosts, pw \in Passwords \cup {None} : Enter(x, pw)
  BY <1>1, <1>5 DEF Enter
<1>6. CASE \E e \in Editors, x \in Places : OpenForm(e, x)
  BY <1>1, <1>6 DEF OpenForm
<1>7. CASE \E e \in Editors, pw \in Passwords \cup {None} : SaveForm(e, pw)
  BY <1>1, <1>7 DEF SaveForm
<1>8. CASE \E e \in Editors : DropForm(e)
  BY <1>1, <1>8 DEF DropForm
<1>9. CASE \E h \in Hosts : BeginSync(h)
  BY <1>1, <1>9 DEF BeginSync
<1>10. CASE \E j \in Runners : EndSync(j)
  BY <1>1, <1>10 DEF EndSync
<1>11. CASE EndScan
  <2>1. UNCHANGED <<text, origin>> /\ scan'.pc = "idle" /\ scan'.message = "scanned"
    BY <1>11 DEF EndScan, IdleScan
  <2> QED BY <2>1, SameTargets
<1>12. CASE UNCHANGED vars
  BY <1>1, <1>12 DEF vars
<1> QED
  BY <1>2, <1>3, <1>4, <1>5, <1>6, <1>7, <1>8, <1>9, <1>10, <1>11, <1>12, BeginScanTargets,
     ExpandTargets, AddTargets, FilterTargets, ProbeTargets DEF Next

THEOREM AlwaysTargetInv == Spec => [](Inv /\ TargetInv)
<1>1. Init => Inv /\ TargetInv
  BY InitInv, InitTargetInv
<1>2. Inv /\ TargetInv /\ [Next]_vars => (Inv /\ TargetInv)'
  BY NextInv, NextTargetInv
<1> QED BY <1>1, <1>2, PTL DEF Spec

-----------------------------------------------------------------------------
\* Every reachable state has the types TypeOK gives it, and no key is at once
\* the primary and a fallback.
THEOREM TypeCorrect == Spec => []TypeOK
<1>1. Inv => TypeOK
  BY DEF Inv
<1> QED BY <1>1, AlwaysInv, PTL

\* Only BeginSync and BeginScan log anybody in; what they take is stored, and
\* by EnteredIsStored what is stored was entered.
LEMMA LoginStep == Inv /\ [Next]_vars => LogsInRight
<1> SUFFICES ASSUME Inv, [Next]_vars PROVE LogsInRight
  OBVIOUS
<1> DEFINE NoLogin == /\ runs["job"] = None => runs'["job"] = None
                      /\ scan.pc = "idle" => scan'.pc = "idle"
<1>1. CASE NoLogin
  BY <1>1 DEF LogsInRight, Open
<1>2. CASE \E h \in Hosts : BeginSync(h)
  <2>1. PICK h \in Hosts : BeginSync(h)
    BY <1>2
  <2>2. scan' = scan /\ runs'["job"].host = h /\ (h \notin raced => runs'["job"].pw = Wanted(h))
    BY <2>1, BeginSyncInv
  <2> QED BY <2>2 DEF LogsInRight, Open
<1>3. CASE BeginScan
  BY <1>3, BeginScanInv DEF LogsInRight, Open
<1>4. CASE UNCHANGED <<runs, scan>>
  BY <1>1, <1>4
<1>5. CASE \E p \in Processes : Restart(p)
  BY <1>1, <1>5 DEF Restart, IdleScan, Runners
<1>6. CASE \E j \in Runners : EndSync(j)
  BY <1>1, <1>6 DEF EndSync, Inv, TypeOK, Runners
<1>7. CASE Expand \/ Add \/ Filter \/ EndScan
  <2>1. runs' = runs /\ scan.pc # "idle"
    BY <1>7 DEF Expand, Add, Filter, EndScan
  <2> QED BY <1>1, <2>1
<1>8. CASE Probe
  <2>1. scan.pc # "idle" /\ runs'["job"] = runs["job"]
    BY <1>8 DEF Probe, Inv, TypeOK, Runners
  <2> QED BY <1>1, <2>1
<1> HIDE DEF NoLogin
<1> QED
  BY <1>2, <1>3, <1>4, <1>5, <1>6, <1>7, <1>8
  DEF Next, Rotate, DropFallbacks, Enter, OpenForm, SaveForm, DropForm, vars

\* A sync and a scan log in with the password last entered for the server or
\* the range, for whatever keys are rotated, dropped and not yet loaded and
\* however edits, syncs and scans overlap -- except for a password entered
\* while another edit, or a run, had read the row and would save it.
THEOREM LoginCorrect == Spec => []LoginAsEntered
<1>1. Inv /\ [Next]_vars => LogsInRight
  BY LoginStep
<1> QED BY <1>1, AlwaysInv, PTL DEF Spec, LoginAsEntered

\* No rotation makes a stored password unreadable to a process that has loaded
\* the configuration, as long as the key it was written with is kept.
THEOREM RotationKeeps == Spec => []RotationKeepsSecrets
<1>1. Inv => RotationKeepsSecrets
  BY DEF Inv, KeysKnown, KeyKnown, Known, RotationKeepsSecrets, Decryptable
<1> QED BY <1>1, AlwaysInv, PTL

\* For every text, address space and limit: a scan that has read its whole text
\* has the targets the text denotes, each once, and they are within the limit.
THEOREM ExactlyTheTargets == Spec => []ScanExactly
<1>1. ASSUME Inv, TargetInv, scan.pc = "token", scan.todo = <<>>
      PROVE  /\ Range(scan.out) = Denoted /\ IsInjective(scan.out)
             /\ Cardinality(Denoted) <= Limit
  <2>1. scan.out \in Seq(Hosts) /\ Len(text) \in Nat /\ Limit \in Nat
    BY <1>1, AccessAssumption DEF Inv, TypeOK, Scan
  <2>2. Done = Len(text)
    BY <1>1, <2>1 DEF Done
  <2>3. /\ Range(scan.out) \cup Range(scan.pending) = Covered(Done) /\ scan.pending = <<>>
        /\ IsInjective(scan.out) /\ Len(scan.out) <= Limit
    BY <1>1 DEF TargetInv, ScanInv
  <2>4. Range(scan.pending) = {}
    BY <2>3 DEF Range
  <2>5. Range(scan.out) = Denoted
    BY <1>1, <2>2, <2>3, <2>4, CoveredAll
  <2>6. Cardinality(Denoted) <= Len(scan.out) /\ Len(scan.out) \in Nat
    BY <2>1, <2>3, <2>5, Counting
  <2>7. Cardinality(Denoted) \in Nat
    BY <1>1, DenotedFinite, FS_CardinalityType
  <2> QED BY <2>1, <2>3, <2>5, <2>6, <2>7
<1>2. Inv /\ TargetInv => ScanExactly
  BY <1>1 DEF ScanExactly
<1> QED BY <1>2, AlwaysTargetInv, PTL

\* A text is called invalid only if it denotes more than the limit, a network
\* or pair of addresses in it cannot be read, or a host name in it has a dash.
THEOREM InvalidRightly == Spec => []InvalidOnlyIfSo
<1>1. TargetInv => InvalidOnlyIfSo
  BY DEF TargetInv
<1> QED BY <1>1, AlwaysTargetInv, PTL

\* A scan makes servers only for targets of its text, none of which resolves to
\* an address outside the allowed networks.
THEOREM ImportsRightly == Spec => []ImportsOnlyTargets
<1>1. TargetInv => ImportsOnlyTargets
  BY DEF TargetInv
<1> QED BY <1>1, AlwaysTargetInv, PTL
=============================================================================
