--------------------------- MODULE DeviceRegistry ---------------------------
(* The devices, controllers and units of a simulator: how they are registered   *)
(* (simenv.rs), how their names reach the command line (the manifest, cmd_repl  *)
(* and repl_state) and how a name typed there finds its device again, through   *)
(* three lookups: the CLI's, the resource index, and `lookup`.                  *)
(* A provider is <<0, 0>>, the CPU, <<i, 0>>, the i-th device, or <<i, j>>, its *)
(* j-th unit.                                                                   *)
EXTENDS Integers, Sequences, FiniteSets

CONSTANTS Names,        \* of devices and units, upper-case as the code makes them
          CPU_DEVICE_NAME,
          Resources,
          CpuResources,
          MaxDevices, MaxUnits    \* bounds of the model
ASSUME NamesAssumption ==
  /\ CPU_DEVICE_NAME \in Names /\ CpuResources \subseteq Resources
  /\ MaxDevices \in Nat /\ MaxUnits \in Nat

VARIABLES devices,         \* SimEnvironment::devices
          resourceIndex,   \* (device, resource) -> provider
          manifest,        \* REPLState::manifest, by top-level name
          panicked,        \* a registration panicked
          dirty,           \* the providers that are not in their reset state
          attached         \* the units with a file
registryVars == <<devices, resourceIndex, manifest, panicked, dirty, attached>>

CPU == <<0, 0>>
None == <<-1, -1>>
Unit(name, res) == [name |-> name, res |-> res]
Standalone(name, res) == [name |-> name, res |-> res, controller |-> FALSE, units |-> <<>>]
Controller(name, res) == [name |-> name, res |-> res, controller |-> TRUE, units |-> <<>>]

Providers(ds) == {<<i, j>> : i \in DOMAIN ds, j \in 0..MaxUnits} \cap
                 {p \in (1..MaxDevices) \X (0..MaxUnits) : p[2] <= Len(ds[p[1]].units)}
Entry(ds, p) == CASE p = CPU   -> Unit(CPU_DEVICE_NAME, CpuResources)
                  [] p[1] > 0 /\ p[2] = 0 -> ds[p[1]]
                  [] p[1] > 0 /\ p[2] > 0 -> ds[p[1]].units[p[2]]
UpTo(p, q) == p[1] < q[1] \/ (p[1] = q[1] /\ p[2] <= q[2])
First(ps) == IF ps = {} THEN None ELSE CHOOSE p \in ps : \A q \in ps : UpTo(p, q)
Last(ps) == CHOOSE p \in ps : \A q \in ps : UpTo(q, p)
Called(ds, name) == {p \in Providers(ds) : Entry(ds, p).name = name}

Init ==
  /\ devices = <<>> /\ resourceIndex = [k \in {} |-> CPU] /\ manifest = [n \in {} |-> {}]
  /\ panicked = FALSE /\ dirty = {} /\ attached = {}
-----------------------------------------------------------------------------
(* Registration.  Later entries overwrite earlier ones in the index.            *)
CheckName(name) == name # CPU_DEVICE_NAME /\ \A i \in DOMAIN devices : devices[i].name # name

Rebuilt_NoUnits(ds) ==
  LET all == {p \in Providers(ds) \cup {CPU} : p[2] = 0}
      keys == UNION {{<<Entry(ds, p).name, r>> : r \in Entry(ds, p).res} : p \in all}
  IN  [k \in keys |-> Last({p \in all : Entry(ds, p).name = k[1] /\ k[2] \in Entry(ds, p).res})]
Rebuilt(ds) ==
  LET all == Providers(ds) \cup {CPU}
      keys == UNION {{<<Entry(ds, p).name, r>> : r \in Entry(ds, p).res} : p \in all}
  IN  [k \in keys |-> Last({p \in all : Entry(ds, p).name = k[1] /\ k[2] \in Entry(ds, p).res})]

Building == ~panicked /\ manifest = [n \in {} |-> {}]
Registers(ds) == devices' = ds /\ resourceIndex' = Rebuilt(ds)
Panics == panicked' = TRUE /\ UNCHANGED <<devices, resourceIndex, manifest, dirty, attached>>

AddDevice(dev) ==
  /\ Building /\ Len(devices) < MaxDevices /\ CheckName(dev.name)
  /\ Registers(Append(devices, dev))
  /\ UNCHANGED <<manifest, panicked, dirty, attached>>
AddStandalone == \E n \in Names, res \in SUBSET Resources : AddDevice(Standalone(n, res))
AddController == \E n \in Names, res \in SUBSET Resources : AddDevice(Controller(n, res))

UnitFits(i, name) ==
  /\ devices[i].controller
  /\ \A j \in DOMAIN devices[i].units : devices[i].units[j].name # name
AddUnit ==
  \E i \in DOMAIN devices, n \in Names, res \in SUBSET Resources :
    /\ Building /\ UnitFits(i, n)
    /\ Cardinality({p \in Providers(devices) : p[2] > 0}) < MaxUnits
    /\ Registers([devices EXCEPT ![i].units = Append(@, Unit(n, res))])
    /\ UNCHANGED <<manifest, panicked, dirty, attached>>

Refused ==
  /\ Building
  /\ \E n \in Names : \/ ~CheckName(n)
                      \/ \E i \in DOMAIN devices : ~UnitFits(i, n)
                      \/ n \notin {devices[i].name : i \in DOMAIN devices}
  /\ Panics

(* resource_manifest, and the map CmdREPL::new makes of it.                     *)
ManifestOf(ds) ==
  [n \in {CPU_DEVICE_NAME} \cup {ds[i].name : i \in DOMAIN ds} |->
     IF n = CPU_DEVICE_NAME THEN {CPU}
     ELSE LET i == CHOOSE i \in DOMAIN ds : ds[i].name = n
          IN  {p \in Providers(ds) : p[1] = i}]
Connect ==
  /\ Building /\ devices # <<>>
  /\ manifest' = ManifestOf(devices)
  /\ UNCHANGED <<devices, resourceIndex, panicked, dirty, attached>>
Running == manifest # [n \in {} |-> {}]
-----------------------------------------------------------------------------
(* Names typed at the command line.                                             *)

(* get_device_meta: a top-level name, or a unit of some device, whichever the   *)
(* hash map comes to first.                                                     *)
DeviceMeta(name) ==
  IF name \in DOMAIN manifest
  THEN {p \in manifest[name] : p[2] = 0}
  ELSE UNION {{p \in manifest[n] : p[2] > 0 /\ Entry(devices, p).name = name} : n \in DOMAIN manifest}

ValidDevice(name) == DeviceMeta(name) # {}

(* resolve_resource without a device: the only provider that has it.            *)
Resolved(res) ==
  LET all == {p \in UNION {manifest[n] : n \in DOMAIN manifest} : res \in Entry(devices, p).res}
  IN  IF Cardinality(all) = 1 THEN all ELSE {}

(* locate_resource and lookup, in the simulator.                                *)
Located(name, res) ==
  IF <<name, res>> \in DOMAIN resourceIndex THEN resourceIndex[<<name, res>>] ELSE None
Lookup(name) == IF name = CPU_DEVICE_NAME THEN CPU ELSE First(Called(devices, name))

(* A program, or a deposit, changes a provider's registers.                     *)
Deposit(name, res) ==
  /\ Running /\ Located(name, res) # None
  /\ dirty' = dirty \cup {Located(name, res)}
  /\ UNCHANGED <<devices, resourceIndex, manifest, panicked, attached>>

(* reset_command and SimEnvironment::reset: a controller resets its units.      *)
ResetBy(name) == IF name = CPU_DEVICE_NAME THEN {CPU}
                 ELSE LET d == First({p \in Called(devices, name) : p[2] = 0})
                      IN  {p \in Providers(devices) : p[1] = d[1]}
ResetDevice(name) ==
  /\ Running /\ ValidDevice(name)
  /\ dirty' = dirty \ ResetBy(name)
  /\ UNCHANGED <<devices, resourceIndex, manifest, panicked, attached>>

ResetAll ==
  /\ Running /\ dirty' = {}
  /\ UNCHANGED <<devices, resourceIndex, manifest, panicked, attached>>

(* Units can be attached to, the others cannot.                                 *)
Attachable(p) == p # None /\ p[2] > 0
Attach(name) ==
  /\ Running /\ Attachable(Lookup(name))
  /\ attached' = attached \cup {Lookup(name)}
  /\ UNCHANGED <<devices, resourceIndex, manifest, panicked, dirty>>
Detach(name) ==
  /\ Running /\ Attachable(Lookup(name))
  /\ attached' = attached \ {Lookup(name)}
  /\ UNCHANGED <<devices, resourceIndex, manifest, panicked, dirty>>

Next ==
  \/ AddStandalone \/ AddController \/ AddUnit \/ Refused \/ Connect
  \/ \E n \in Names, r \in Resources : Deposit(n, r)
  \/ \E n \in Names : ResetDevice(n) \/ Attach(n) \/ Detach(n)
  \/ ResetAll
Spec == Init /\ [][Next]_registryVars
-----------------------------------------------------------------------------
TypeOK ==
  /\ Len(devices) <= MaxDevices
  /\ \A i \in DOMAIN devices : devices[i].controller \/ devices[i].units = <<>>
  /\ dirty \cup attached \subseteq Providers(devices) \cup {CPU}
  /\ panicked => ~Running

(* Whatever the CLI offers for a name, the simulator finds under the same name; *)
(* and where the name is of one provider only, EXAMINE and ATTACH, which use    *)
(* different lookups, come to that provider.                                    *)
Unique(name) == Cardinality(Called(devices, name) \cup
                            (IF name = CPU_DEVICE_NAME THEN {CPU} ELSE {})) = 1
OfferedIsFound ==
  Running => \A n \in Names : \A p \in DeviceMeta(n) : \A r \in Entry(devices, p).res :
               /\ Located(n, r) # None
               /\ Unique(n) => Located(n, r) = p /\ Lookup(n) = p
(* Every device and unit that was registered is offered: none hides another in  *)
(* the map the CLI keeps by name.                                               *)
NoneIsLost ==
  Running => UNION {manifest[n] : n \in DOMAIN manifest} = Providers(devices) \cup {CPU}

(* A resource that is named alone is examined where it is, even when two        *)
(* devices share their name; printing it looks the name up once more and finds  *)
(* the resource, or the CLI panics (examine_cmd.rs:175), when they do not.      *)
NamedAlone ==
  Running => \A r \in Resources : \A p \in Resolved(r) :
    LET n == Entry(devices, p).name
    IN  /\ Located(n, r) = p
        /\ Unique(n) => \A q \in DeviceMeta(n) : r \in Entry(devices, q).res

(* The command line, the resource index and `lookup` agree in both senses.      *)
LookupsAgree == OfferedIsFound /\ NamedAlone
=============================================================================
