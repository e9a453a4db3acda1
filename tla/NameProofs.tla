------------------------------ MODULE NameProofs ------------------------------
(***************************************************************************)
(* What is typed at the command line means what was registered: the trie   *)
(* answers as the table of commands does, for any alphabet, commands,      *)
(* actions and order of insertion, and the lookups of devices agree, for   *)
(* any names, resources and devices.                                       *)
(***************************************************************************)
EXTENDS CommandTrie, DeviceRegistry, SequenceTheorems, FiniteSetTheorems, TLAPS

(***************************************************************************)
(* Commands (CommandTrie).  The invariant says what the trie is: the       *)
(* beginnings of the commands, each with the command's own entry or with   *)
(* nothing.                                                                *)
(***************************************************************************)
Endpoints == [action : Actions, exact_only : BOOLEAN]

TableIsTyped ==
  /\ DOMAIN table \subseteq Commands
  /\ \A word \in DOMAIN table : table[word] \in Endpoints

TrieIsTable ==
  /\ DOMAIN nodes = {<<>>} \cup UNION {Prefixes(word) : word \in DOMAIN table}
  /\ \A word \in DOMAIN nodes :
       nodes[word] = IF word \in DOMAIN table THEN table[word] ELSE NewIntermediate

TrieInvariant == TableIsTyped /\ TrieIsTable

\* A word begins with itself.
LEMMA OwnPrefix == ASSUME NEW word \in Commands PROVE word \in Prefixes(word)
<1>1. word \in Seq(Letters)
  BY TrieAssumption
<1>2. Len(word) \in 0 .. Len(word) /\ SubSeq(word, 1, Len(word)) = word
  BY <1>1, SubSeqFull, LenProperties
<1> QED
  BY <1>2 DEF Prefixes

\* Every command has its node, and the node has its action.
LEMMA CommandsAreNodes ==
  ASSUME TrieInvariant
  PROVE  /\ DOMAIN table \subseteq DOMAIN nodes
         /\ \A word \in DOMAIN nodes : nodes[word].action # NoAction <=> word \in DOMAIN table
<1>1. DOMAIN table \subseteq DOMAIN nodes
  BY OwnPrefix DEF TrieInvariant, TableIsTyped, TrieIsTable
<1>2. ASSUME NEW word \in DOMAIN nodes
      PROVE  nodes[word].action # NoAction <=> word \in DOMAIN table
  <2>1. CASE word \in DOMAIN table
    BY <2>1, TrieAssumption DEF TrieInvariant, TableIsTyped, TrieIsTable, Endpoints
  <2>2. CASE word \notin DOMAIN table
    BY <2>2 DEF TrieInvariant, TrieIsTable, NewIntermediate
  <2> QED
    BY <2>1, <2>2
<1> QED
  BY <1>1, <1>2

\* An empty table has the root alone.
LEMMA TrieInitHolds == TrieInit => TrieInvariant
<1> SUFFICES ASSUME TrieInit PROVE TrieInvariant
  OBVIOUS
<1>1. DOMAIN nodes = {<<>>} /\ DOMAIN table = {} /\ nodes[<<>>] = NewIntermediate
  BY DEF TrieInit
<1> QED
  BY <1>1 DEF TrieInvariant, TableIsTyped, TrieIsTable

\* A command that is inserted gets its node, and the nodes on the way to it.
LEMMA InsertKeeps ==
  ASSUME TrieInvariant, NEW command \in Commands, NEW node \in Endpoints,
         Insert(command, node)
  PROVE  TrieInvariant'
<1>1. /\ DOMAIN table' = DOMAIN table \cup {command}
      /\ \A word \in DOMAIN table' : table'[word] = IF word = command THEN node ELSE table[word]
  BY DEF Insert, With
<1>2. TableIsTyped'
  BY <1>1 DEF TrieInvariant, TableIsTyped
<1>3. DOMAIN Grown(command) = DOMAIN nodes \cup Prefixes(command)
  BY DEF Grown
<1>4. /\ DOMAIN nodes' = DOMAIN nodes \cup Prefixes(command)
      /\ \A word \in DOMAIN nodes' :
           nodes'[word] = IF word = command THEN node
                          ELSE IF word \in DOMAIN nodes THEN nodes[word] ELSE NewIntermediate
  <2>1. nodes' = With(Grown(command), command, node)
    BY DEF Insert
  <2>2. DOMAIN nodes' = DOMAIN nodes \cup Prefixes(command)
    BY <2>1, <1>3, OwnPrefix DEF With
  <2>3. \A word \in DOMAIN Grown(command) :
          Grown(command)[word] = IF word \in DOMAIN nodes THEN nodes[word] ELSE NewIntermediate
    BY DEF Grown
  <2> QED
    BY <2>1, <2>2, <2>3, <1>3 DEF With
<1>5. DOMAIN nodes' = {<<>>} \cup UNION {Prefixes(word) : word \in DOMAIN table'}
  BY <1>1, <1>4 DEF TrieInvariant, TrieIsTable
<1>6. ASSUME NEW word \in DOMAIN nodes'
      PROVE  nodes'[word] = IF word \in DOMAIN table' THEN table'[word] ELSE NewIntermediate
  BY <1>1, <1>4, CommandsAreNodes DEF TrieInvariant, TrieIsTable
<1> QED
  BY <1>2, <1>5, <1>6 DEF TrieInvariant, TrieIsTable

-----------------------------------------------------------------------------
\* The trie's invariant holds in every behaviour.
THEOREM TrieIsSound == TrieSpec => []TrieInvariant
<1>1. TrieInvariant /\ [TrieNext]_trieVars => TrieInvariant'
  <2> SUFFICES ASSUME TrieInvariant, [TrieNext]_trieVars PROVE TrieInvariant'
    OBVIOUS
  <2>1. ASSUME NEW command \in Commands, NEW action \in Actions, NEW exact_only \in BOOLEAN,
               Insert(command, Endpoint(action, exact_only))
        PROVE  TrieInvariant'
    <3>1. Endpoint(action, exact_only) \in Endpoints
      BY DEF Endpoint, Endpoints
    <3> QED
      BY <2>1, <3>1, InsertKeeps
  <2>2. CASE UNCHANGED trieVars
    BY <2>2 DEF trieVars, TrieInvariant, TableIsTyped, TrieIsTable
  <2> QED
    BY <2>1, <2>2 DEF TrieNext
<1> QED
  BY <1>1, TrieInitHolds, PTL DEF TrieSpec

\* What is typed finds what the table lists: the command of that name, else the
\* only one that begins so, else the ambiguity (cmd_trie.rs:88-148).
THEOREM TrieFindsTheTable == TrieSpec => []FindIsTheTable
<1>1. TrieInvariant => FindIsTheTable
  <2> SUFFICES ASSUME TrieInvariant, NEW input \in Inputs
               PROVE  Find(input) = Listed(input)
    BY DEF FindIsTheTable
  <2> DEFINE longer == {word \in DOMAIN table : input \in Prefixes(word)}
  <2>1. CASE input \notin DOMAIN nodes
    <3>1. input \notin DOMAIN table /\ longer = {}
      BY <2>1, CommandsAreNodes DEF TrieInvariant, TrieIsTable
    <3>2. Cardinality({}) = 0
      BY FS_EmptySet
    <3>3. Choice(table, {}) = NotFound
      BY <3>2 DEF Choice
    <3> QED
      BY <2>1, <3>1, <3>3 DEF Find, Listed
  <2>2. CASE input \in DOMAIN table
    BY <2>2, CommandsAreNodes DEF TrieInvariant, TrieIsTable, Find, Listed
  <2>3. CASE input \in DOMAIN nodes /\ input \notin DOMAIN table
    <3>1. Find(input) = Choice(nodes, Matches(input)) /\ Listed(input) = Choice(table, longer)
      BY <2>3, CommandsAreNodes DEF Find, Listed
    <3>2. Matches(input) = longer
      BY CommandsAreNodes DEF Matches
    <3>3. \A word \in longer : nodes[word] = table[word]
      BY CommandsAreNodes DEF TrieInvariant, TrieIsTable
    <3>4. longer # {} => (CHOOSE word \in longer : TRUE) \in longer
      OBVIOUS
    <3> HIDE DEF longer
    <3>5. Choice(nodes, longer) = Choice(table, longer)
      BY <3>3, <3>4 DEF Choice
    <3> QED
      BY <3>1, <3>2, <3>5
  <2> QED
    BY <2>1, <2>2, <2>3, CommandsAreNodes
<1> QED
  BY <1>1, TrieIsSound, PTL

-----------------------------------------------------------------------------
(***************************************************************************)
(* Names of devices (DeviceRegistry).  The index is what the last          *)
(* registration made of all devices, and the manifest what the CLI made of *)
(* them when it was connected: nothing is registered after that.           *)
(***************************************************************************)
Units == [name : Names, res : SUBSET Resources]
Devices == [name : Names, res : SUBSET Resources, controller : BOOLEAN, units : Seq(Units)]

NoManifest == [n \in {} |-> {}]

\* The devices have names of their own, and none has the CPU's.
DevicesSound ==
  /\ devices \in Seq(Devices)
  /\ \A i \in DOMAIN devices : devices[i].name # CPU_DEVICE_NAME
  /\ \A i, j \in DOMAIN devices : devices[i].name = devices[j].name => i = j

NamesInvariant ==
  /\ DevicesSound
  /\ devices # <<>> => resourceIndex = Rebuilt(devices)
  /\ Running => devices # <<>> /\ manifest = ManifestOf(devices)

\* The natural numbers are well founded, so a set of them has a greatest member
\* below a bound.
LEMMA Greatest ==
  ASSUME NEW n \in Nat, NEW S \in SUBSET (0 .. n), S # {}
  PROVE  \E x \in S : \A y \in S : y <= x
<1> DEFINE T == {k \in Nat : k <= n /\ n - k \in S}
           R == {p \in Nat \X Nat : p[1] < p[2]}
<1>1. T \subseteq Nat /\ T # {}
  <2>1. PICK x \in S : TRUE
    OBVIOUS
  <2>2. x \in 0 .. n /\ n - x \in Nat /\ n - x <= n /\ n - (n - x) = x
    OBVIOUS
  <2>3. n - x \in T
    BY <2>2
  <2> QED
    BY <2>3
<1>2. PICK k \in T : \A m \in T : <<m, k>> \notin R
  <2>1. IsWellFoundedOn(R, Nat)
    BY NatLessThanWellFounded DEF OpToRel
  <2> HIDE DEF T, R
  <2> QED
    BY <1>1, <2>1, WFMin
<1>3. ASSUME NEW y \in S PROVE y <= n - k
  <2>1. n - y \in T /\ y \in 0 .. n
    OBVIOUS
  <2>2. ~(n - y < k)
    BY <1>2, <2>1
  <2> QED
    BY <2>1, <2>2
<1>4. \A y \in S : y <= n - k
  BY <1>3
<1>5. n - k \in S
  OBVIOUS
<1> QED
  BY <1>4, <1>5

\* Where a provider can be.
Places == (0 .. MaxDevices) \X (0 .. MaxUnits)

\* There are finitely many places.
LEMMA PlacesAreFinite == \A ps \in SUBSET Places : IsFiniteSet(ps)
<1>1. IsFiniteSet(0 .. MaxDevices) /\ IsFiniteSet(0 .. MaxUnits)
  BY FS_Interval, NamesAssumption
<1>2. IsFiniteSet(Places)
  BY <1>1, FS_Product DEF Places
<1> QED
  BY <1>2, FS_Subset

\* Of several providers one is the last.
LEMMA LastIsThere ==
  ASSUME NEW ps \in SUBSET Places, ps # {}
  PROVE  Last(ps) \in ps
<1> DEFINE firsts == {p[1] : p \in ps}
<1>1. PICK i \in firsts : \A k \in firsts : k <= i
  <2>1. firsts \subseteq 0 .. MaxDevices /\ firsts # {}
    BY DEF Places
  <2> HIDE DEF firsts
  <2> QED
    BY <2>1, Greatest, NamesAssumption
<1> DEFINE seconds == {p[2] : p \in {q \in ps : q[1] = i}}
<1>2. PICK j \in seconds : \A k \in seconds : k <= j
  <2>1. seconds \subseteq 0 .. MaxUnits /\ seconds # {}
    BY DEF Places
  <2> HIDE DEF seconds
  <2> QED
    BY <2>1, Greatest, NamesAssumption
<1>3. PICK p \in ps : p[1] = i /\ p[2] = j
  BY <1>2
<1>4. \A q \in ps : q[1] \in Nat /\ q[2] \in Nat
  BY DEF Places
<1>5. ASSUME NEW q \in ps PROVE UpTo(q, p)
  <2>1. q[1] <= i /\ (q[1] = i => q[2] <= j)
    BY <1>1, <1>2
  <2> QED
    BY <1>3, <1>4, <2>1 DEF UpTo
<1> QED
  BY <1>5 DEF Last

\* Providers are in their places, and none of them is nobody.
LEMMA ProviderFacts ==
  ASSUME DevicesSound
  PROVE  /\ Providers(devices) \cup {CPU} \subseteq Places
         /\ \A p \in Providers(devices) :
              /\ p[1] \in DOMAIN devices /\ p[1] > 0 /\ p[2] \in Nat /\ p = <<p[1], p[2]>> /\ p # CPU
              /\ p[2] <= Len(devices[p[1]].units)
         /\ \A p \in Places : p # None
<1>1. CPU \in Places
  BY NamesAssumption DEF CPU, Places
<1>2. ASSUME NEW p \in Providers(devices)
      PROVE  /\ p \in Places
             /\ p[1] \in DOMAIN devices /\ p[1] > 0 /\ p[2] \in Nat /\ p = <<p[1], p[2]>> /\ p # CPU
             /\ p[2] <= Len(devices[p[1]].units)
  <2>1. /\ p \in (1 .. MaxDevices) \X (0 .. MaxUnits) /\ p[2] <= Len(devices[p[1]].units)
        /\ \E i \in DOMAIN devices, j \in 0 .. MaxUnits : p = <<i, j>>
    BY DEF Providers
  <2> QED
    BY <2>1 DEF Places, CPU
<1>3. \A p \in Places : p # None
  BY DEF Places, None
<1> QED
  BY <1>1, <1>2, <1>3

\* The names of the providers.
LEMMA EntryFacts ==
  ASSUME DevicesSound
  PROVE  /\ Entry(devices, CPU).name = CPU_DEVICE_NAME
         /\ \A p \in Providers(devices) : p[2] = 0 => Entry(devices, p).name = devices[p[1]].name
<1>1. Entry(devices, CPU).name = CPU_DEVICE_NAME
  <2>1. ~(CPU[1] > 0)
    BY DEF CPU
  <2> QED
    BY <2>1 DEF Entry, Unit
<1>2. ASSUME NEW p \in Providers(devices), p[2] = 0
      PROVE  Entry(devices, p).name = devices[p[1]].name
  <2>1. p[1] > 0 /\ ~(p[2] > 0) /\ p # CPU
    BY <1>2, ProviderFacts
  <2> QED
    BY <1>2, <2>1 DEF Entry
<1> QED
  BY <1>1, <1>2

\* The providers of a resource under a name.
Holders(name, res) ==
  {p \in Providers(devices) \cup {CPU} : Entry(devices, p).name = name /\ res \in Entry(devices, p).res}

\* The index comes to one of the holders when there is any.
LEMMA IndexFindsHolders ==
  ASSUME DevicesSound, resourceIndex = Rebuilt(devices), NEW name, NEW res,
         Holders(name, res) # {}
  PROVE  Located(name, res) \in Holders(name, res) /\ Located(name, res) # None
<1> DEFINE key == <<name, res>>
<1>1. key \in DOMAIN Rebuilt(devices)
  BY DEF Holders, Rebuilt
<1>2. Rebuilt(devices)[key] = Last(Holders(name, res))
  BY <1>1 DEF Holders, Rebuilt
<1>3. Holders(name, res) \subseteq Places
  BY ProviderFacts DEF Holders
<1>4. Last(Holders(name, res)) \in Holders(name, res)
  BY <1>3, LastIsThere
<1> QED
  BY <1>1, <1>2, <1>3, <1>4, ProviderFacts DEF Located

\* The manifest has every provider, under its device's name.
LEMMA ManifestFacts ==
  ASSUME DevicesSound, manifest = ManifestOf(devices)
  PROVE  /\ DOMAIN manifest = {CPU_DEVICE_NAME} \cup {devices[i].name : i \in DOMAIN devices}
         /\ manifest[CPU_DEVICE_NAME] = {CPU}
         /\ \A i \in DOMAIN devices :
              manifest[devices[i].name] = {p \in Providers(devices) : p[1] = i}
         /\ UNION {manifest[n] : n \in DOMAIN manifest} = Providers(devices) \cup {CPU}
<1>1. DOMAIN manifest = {CPU_DEVICE_NAME} \cup {devices[i].name : i \in DOMAIN devices}
  BY DEF ManifestOf
<1>2. manifest[CPU_DEVICE_NAME] = {CPU}
  BY DEF ManifestOf
<1>3. ASSUME NEW i \in DOMAIN devices
      PROVE  manifest[devices[i].name] = {p \in Providers(devices) : p[1] = i}
  <2>1. devices[i].name # CPU_DEVICE_NAME
        /\ (CHOOSE k \in DOMAIN devices : devices[k].name = devices[i].name) = i
    BY DEF DevicesSound
  <2> QED
    BY <2>1 DEF ManifestOf
<1>4. UNION {manifest[n] : n \in DOMAIN manifest} = Providers(devices) \cup {CPU}
  BY <1>1, <1>2, <1>3, ProviderFacts
<1> QED
  BY <1>1, <1>2, <1>3, <1>4

\* What a name means at the command line has that name.
LEMMA MetaHasName ==
  ASSUME DevicesSound, manifest = ManifestOf(devices), NEW name, NEW p \in DeviceMeta(name)
  PROVE  p \in Providers(devices) \cup {CPU} /\ Entry(devices, p).name = name
<1>1. CASE name = CPU_DEVICE_NAME
  <2>1. p = CPU
    BY <1>1, ManifestFacts DEF DeviceMeta
  <2> QED
    BY <1>1, <2>1, EntryFacts
<1>2. CASE name # CPU_DEVICE_NAME /\ name \in DOMAIN manifest
  <2>1. PICK i \in DOMAIN devices : name = devices[i].name
    BY <1>2, ManifestFacts
  <2>2. p \in Providers(devices) /\ p[1] = i /\ p[2] = 0
    BY <1>2, <2>1, ManifestFacts DEF DeviceMeta
  <2> QED
    BY <2>1, <2>2, EntryFacts
<1>3. CASE name \notin DOMAIN manifest
  <2>1. PICK n \in DOMAIN manifest : p \in manifest[n] /\ Entry(devices, p).name = name
    BY <1>3 DEF DeviceMeta
  <2> QED
    BY <2>1, ManifestFacts
<1> QED
  BY <1>1, <1>2, <1>3, ManifestFacts

\* A name of one provider is that provider to every lookup.
LEMMA UniqueIsOne ==
  ASSUME DevicesSound, NEW name, Unique(name), NEW p \in Providers(devices) \cup {CPU},
         Entry(devices, p).name = name
  PROVE  /\ \A q \in Providers(devices) \cup {CPU} : Entry(devices, q).name = name => q = p
         /\ Lookup(name) = p
<1> DEFINE all == Called(devices, name) \cup (IF name = CPU_DEVICE_NAME THEN {CPU} ELSE {})
<1>1. \A q \in Providers(devices) \cup {CPU} : q \in all <=> Entry(devices, q).name = name
  BY EntryFacts, ProviderFacts DEF Called
<1>2. IsFiniteSet(all)
  <2>1. all \subseteq Places
    BY ProviderFacts DEF Called
  <2> QED
    BY <2>1, PlacesAreFinite
<1>3. all = {p}
  <2>1. p \in all /\ Cardinality(all) = 1
    BY <1>1 DEF Unique
  <2> HIDE DEF all
  <2>2. PICK x : all = {x}
    BY <1>2, <2>1, FS_Singleton
  <2> QED
    BY <2>1, <2>2
<1>4. \A q \in Providers(devices) \cup {CPU} : Entry(devices, q).name = name => q = p
  BY <1>1, <1>3
<1>5. Lookup(name) = p
  <2>1. CASE name = CPU_DEVICE_NAME
    BY <1>3, <2>1 DEF Lookup
  <2>2. CASE name # CPU_DEVICE_NAME
    <3>1. Called(devices, name) = {p}
      BY <1>3, <2>2
    <3>2. p[1] \in Int /\ p[2] \in Int
      BY ProviderFacts DEF Places
    <3>3. UpTo(p, p)
      BY <3>2 DEF UpTo
    <3>4. First({p}) = p
      BY <3>3 DEF First
    <3> QED
      BY <2>2, <3>1, <3>4 DEF Lookup
  <2> QED
    BY <2>1, <2>2
<1> QED
  BY <1>4, <1>5

-----------------------------------------------------------------------------
\* A registration gives devices that are sound, before the CLI is connected.
LEMMA RegistrationKeeps ==
  ASSUME NamesInvariant, Building, NEW ds \in Seq(Devices), ds # <<>>, Registers(ds), UNCHANGED manifest,
         \A i \in DOMAIN ds : ds[i].name # CPU_DEVICE_NAME,
         \A i, j \in DOMAIN ds : ds[i].name = ds[j].name => i = j
  PROVE  NamesInvariant'
<1>1. devices' = ds /\ resourceIndex' = Rebuilt(ds) /\ ~Running'
  BY DEF Registers, Building, Running
<1> QED
  BY <1>1 DEF NamesInvariant, DevicesSound

\* A device's name is its own.
LEMMA DevicesAreAdded ==
  ASSUME NamesInvariant, NEW dev \in Devices, AddDevice(dev)
  PROVE  NamesInvariant'
<1> DEFINE ds == Append(devices, dev)
<1>1. devices \in Seq(Devices) /\ CheckName(dev.name) /\ Building /\ Registers(ds) /\ UNCHANGED manifest
  BY DEF NamesInvariant, DevicesSound, AddDevice
<1>2. /\ ds \in Seq(Devices) /\ Len(devices) \in Nat /\ DOMAIN devices = 1 .. Len(devices)
      /\ DOMAIN ds = 1 .. Len(devices) + 1 /\ ds[Len(devices) + 1] = dev
      /\ \A i \in DOMAIN devices : ds[i] = devices[i]
  BY <1>1, AppendProperties, LenProperties
<1> HIDE DEF ds
<1>3. ds # <<>>
  BY <1>2, EmptySeq
<1>4. \A i \in DOMAIN ds : ds[i].name # CPU_DEVICE_NAME
  BY <1>1, <1>2 DEF CheckName, NamesInvariant, DevicesSound
<1>5. \A i, j \in DOMAIN ds : ds[i].name = ds[j].name => i = j
  BY <1>1, <1>2 DEF CheckName, NamesInvariant, DevicesSound
<1> QED
  BY <1>1, <1>2, <1>3, <1>4, <1>5, RegistrationKeeps

\* A unit leaves the devices' names as they are.
LEMMA UnitsAreAdded ==
  ASSUME NamesInvariant, AddUnit
  PROVE  NamesInvariant'
<1>1. PICK i \in DOMAIN devices, n \in Names, res \in SUBSET Resources :
        /\ Building /\ UNCHANGED manifest
        /\ Registers([devices EXCEPT ![i].units = Append(@, Unit(n, res))])
  BY DEF AddUnit
<1>2. /\ devices \in Seq(Devices) /\ devices[i] \in Devices
      /\ Len(devices) \in Nat /\ DOMAIN devices = 1 .. Len(devices)
  BY ElementOfSeq, LenProperties DEF NamesInvariant, DevicesSound
<1> DEFINE units == Append(devices[i].units, Unit(n, res))
           dev == [devices[i] EXCEPT !.units = units]
           ds == [devices EXCEPT ![i] = dev]
<1>3. units \in Seq(Units)
  BY <1>2, AppendProperties DEF Devices, Units, Unit
<1>4. dev \in Devices /\ dev.name = devices[i].name
  <2> HIDE DEF units
  <2> QED
    BY <1>2, <1>3 DEF Devices
<1>5. [devices EXCEPT ![i].units = Append(@, Unit(n, res))] = ds
  OBVIOUS
<1> HIDE DEF dev, units
<1>6. /\ ds \in Seq(Devices) /\ DOMAIN ds = DOMAIN devices /\ ds # <<>>
      /\ \A k \in DOMAIN devices : ds[k].name = devices[k].name
  <2>1. ds \in Seq(Devices) /\ DOMAIN ds = DOMAIN devices
        /\ \A k \in DOMAIN devices : ds[k] = IF k = i THEN dev ELSE devices[k]
    BY <1>2, <1>4, ExceptSeq
  <2>2. ds # <<>>
    BY <2>1, EmptySeq
  <2> QED
    BY <1>4, <2>1, <2>2
<1> HIDE DEF ds
<1>7. /\ \A k \in DOMAIN ds : ds[k].name # CPU_DEVICE_NAME
      /\ \A k, l \in DOMAIN ds : ds[k].name = ds[l].name => k = l
  BY <1>6 DEF NamesInvariant, DevicesSound
<1>8. Building /\ Registers(ds) /\ UNCHANGED manifest
  BY <1>1, <1>5
<1> QED
  BY <1>6, <1>7, <1>8, RegistrationKeeps

\* Every step keeps the names sound; after the CLI is connected nothing is registered.
LEMMA NamesStepKeeps ==
  ASSUME NamesInvariant, [Next]_registryVars
  PROVE  NamesInvariant'
<1>1. ASSUME UNCHANGED <<devices, resourceIndex, manifest>> PROVE NamesInvariant'
  BY <1>1 DEF NamesInvariant, DevicesSound, Running
<1>2. CASE AddStandalone \/ AddController
  <2>1. PICK dev \in Devices : AddDevice(dev)
    <3>1. <<>> \in Seq(Units)
      BY EmptySeq
    <3>2. \A n \in Names, res \in SUBSET Resources :
            Standalone(n, res) \in Devices /\ Controller(n, res) \in Devices
      BY <3>1 DEF Standalone, Controller, Devices
    <3> QED
      BY <1>2, <3>2 DEF AddStandalone, AddController
  <2> QED
    BY <2>1, DevicesAreAdded
<1>3. CASE Connect
  BY <1>3 DEF Connect, NamesInvariant, DevicesSound
<1>4. CASE \/ Refused \/ ResetAll \/ UNCHANGED registryVars
           \/ \E n \in Names, r \in Resources : Deposit(n, r)
           \/ \E n \in Names : ResetDevice(n) \/ Attach(n) \/ Detach(n)
  BY <1>1, <1>4 DEF Refused, Panics, ResetAll, registryVars, Deposit, ResetDevice, Attach, Detach
<1> QED
  BY <1>2, <1>3, <1>4, UnitsAreAdded DEF Next

\* The invariant of the registry holds in every behaviour, whatever is
\* registered, refused, reset or attached, and in any order.
THEOREM NamesAreSound == Spec => []NamesInvariant
<1>1. Init => NamesInvariant
  <2> SUFFICES ASSUME Init PROVE NamesInvariant
    OBVIOUS
  <2>1. devices = <<>> /\ <<>> \in Seq(Devices) /\ DOMAIN <<>> = {} /\ ~Running
    BY EmptySeq DEF Init, Running
  <2> QED
    BY <2>1 DEF NamesInvariant, DevicesSound
<1>2. NamesInvariant /\ [Next]_registryVars => NamesInvariant'
  BY NamesStepKeeps
<1> QED
  BY <1>1, <1>2, PTL DEF Spec

\* The command line's table of names, the simulator's index of resources and
\* its lookup of devices agree on what a name means wherever it means one thing
\* (repl_state.rs, simenv.rs): for any names, resources and devices.
THEOREM NamesAgree == Spec => []LookupsAgree
<1>1. NamesInvariant => LookupsAgree
  <2> SUFFICES ASSUME NamesInvariant, Running PROVE LookupsAgree
    BY DEF LookupsAgree, OfferedIsFound, NamedAlone
  <2>1. DevicesSound /\ resourceIndex = Rebuilt(devices) /\ manifest = ManifestOf(devices)
    BY DEF NamesInvariant
  <2>2. ASSUME NEW n \in Names, NEW p \in DeviceMeta(n), NEW r \in Entry(devices, p).res
        PROVE  /\ Located(n, r) # None
               /\ Unique(n) => Located(n, r) = p /\ Lookup(n) = p
    <3>1. p \in Providers(devices) \cup {CPU} /\ Entry(devices, p).name = n
      BY <2>1, MetaHasName
    <3>2. Located(n, r) \in Holders(n, r) /\ Located(n, r) # None
      BY <2>1, <3>1, IndexFindsHolders DEF Holders
    <3>3. Unique(n) => Located(n, r) = p /\ Lookup(n) = p
      BY <2>1, <3>1, <3>2, UniqueIsOne DEF Holders
    <3> QED
      BY <3>2, <3>3
  <2>3. ASSUME NEW r \in Resources, NEW p \in Resolved(r)
        PROVE  LET n == Entry(devices, p).name
               IN  /\ Located(n, r) = p
                   /\ Unique(n) => \A q \in DeviceMeta(n) : r \in Entry(devices, q).res
    <3> DEFINE n == Entry(devices, p).name
               all == {q \in Providers(devices) \cup {CPU} : r \in Entry(devices, q).res}
    <3>1. p \in all /\ Cardinality(all) = 1
      BY <2>1, ManifestFacts DEF Resolved
    <3>2. IsFiniteSet(all)
      <4>1. all \subseteq Places
        BY <2>1, ProviderFacts
      <4> QED
        BY <4>1, PlacesAreFinite
    <3>3. \A q \in all : q = p
      <4> HIDE DEF all
      <4>1. PICK x : all = {x}
        BY <3>1, <3>2, FS_Singleton
      <4> QED
        BY <3>1, <4>1
    <3>4. Located(n, r) = p
      <4>1. p \in Holders(n, r)
        BY <3>1 DEF Holders
      <4>2. Located(n, r) \in Holders(n, r)
        BY <2>1, <4>1, IndexFindsHolders
      <4> QED
        BY <3>3, <4>2 DEF Holders
    <3>5. ASSUME Unique(n), NEW q \in DeviceMeta(n) PROVE r \in Entry(devices, q).res
      <4>1. q \in Providers(devices) \cup {CPU} /\ Entry(devices, q).name = n
        BY <2>1, MetaHasName
      <4>2. q = p
        BY <2>1, <3>1, <3>5, <4>1, UniqueIsOne
      <4> QED
        BY <3>1, <4>2
    <3> QED
      BY <3>4, <3>5
  <2> QED
    BY <2>2, <2>3 DEF LookupsAgree, OfferedIsFound, NamedAlone
<1> QED
  BY <1>1, NamesAreSound, PTL
=============================================================================
