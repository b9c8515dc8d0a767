-------------------------- MODULE ResourceManager --------------------------
(***************************************************************************)
(* JSONProvider: the configuration of the node as a JSON text.  The names  *)
(* of groups, host devices, options, variables and labels of a             *)
(* configuration are appended to; devices, resources, mounts and hosts are *)
(* resized first, and each keeps the names it had.                         *)
(***************************************************************************)
EXTENDS OCISpec

CONSTANTS
  cMaxNumNodeDevices,   \* the devices of a configuration
  cMaxNumHostDevices    \* the host devices of a device, and the devices the parser takes

(* With more host devices than devices the parser would write behind the   *)
(* table of the devices (resourcemanager.cpp:73, 130).                     *)
ASSUME DevicesAssumption ==
  /\ cMax \in Nat /\ cMaxNumHostDevices \in Nat /\ cMaxNumNodeDevices \in Nat
  /\ cMaxNumHostDevices <= cMaxNumNodeDevices

EmptyDevice   == [name |-> "", sharedCount |-> 0, groups |-> <<>>, hostDevices |-> <<>>]
EmptyHost     == [ip |-> "", hostName |-> ""]
EmptyMount    == [destination |-> "", source |-> "", type |-> "", options |-> <<>>]
EmptyResource == [name |-> "", groups |-> <<>>, mounts |-> <<>>, env |-> <<>>, hosts |-> <<>>]
EmptyConfig   == [version |-> "", nodeType |-> "", devices |-> <<>>, resources |-> <<>>,
                  labels |-> <<>>, priority |-> 0]

ReadResource(doc) ==
  LET json == Read(EmptyResource, doc) IN
  [name |-> json.name, groups |-> json.groups, mounts |-> ReadAll(EmptyMount, json.mounts),
   env |-> json.env, hosts |-> ReadAll(EmptyHost, json.hosts)]

DeviceFits(device) ==
  TablesFit(device, {"groups"}, cMax) /\ TablesFit(device, {"hostDevices"}, cMaxNumHostDevices)

ResourceFits(resource) ==
  /\ TablesFit(resource, {"groups", "mounts", "env", "hosts"}, cMax)
  /\ \A i \in DOMAIN resource.mounts : TablesFit(resource.mounts[i], {"options"}, cMax)

(* The parser takes cMaxNumHostDevices devices.                            *)
ConfigFits(config) ==
  /\ TablesFit(config, {"devices"}, cMaxNumHostDevices) /\ TablesFit(config, {"resources", "labels"}, cMax)
  /\ \A i \in DOMAIN config.devices : DeviceFits(config.devices[i])
  /\ \A i \in DOMAIN config.resources : ResourceFits(config.resources[i])

ReadConfig(doc) ==
  LET json == Read(EmptyConfig, doc) IN
  [version |-> json.version, nodeType |-> json.nodeType, devices |-> ReadAll(EmptyDevice, json.devices),
   resources |-> [i \in DOMAIN json.resources |-> ReadResource(json.resources[i])],
   labels |-> json.labels, priority |-> json.priority]

(* The names F of each element of in are pushed behind those of the        *)
(* element of out that has its place.                                      *)
CanFill(in, out, F, max) ==
  \A i \in DOMAIN in : \A f \in F : CanPush(out[i][f], in[i][f], max)
Filled(in, out, F) ==
  [i \in DOMAIN in |-> [f \in DOMAIN in[i] |-> IF f \in F THEN out[i][f] \o in[i][f] ELSE in[i][f]]]

FillDevices(in, devices) ==
  LET out == Resized(devices, Len(in), EmptyDevice) IN
  IF /\ Len(in) <= cMaxNumNodeDevices
     /\ CanFill(in, out, {"groups"}, cMax) /\ CanFill(in, out, {"hostDevices"}, cMaxNumHostDevices)
    THEN <<Filled(in, out, {"groups", "hostDevices"})>>
    ELSE Error

FillResources(in, resources) ==
  LET out == Resized(resources, Len(in), EmptyResource)
      mounts(i) == Resized(out[i].mounts, Len(in[i].mounts), EmptyMount)
  IN
  IF /\ CanFill(in, out, {"groups", "env"}, cMax)
     /\ \A i \in DOMAIN in : CanFill(in[i].mounts, mounts(i), {"options"}, cMax)
    THEN <<[i \in DOMAIN in |->
              [Filled(in, out, {"groups", "env"})[i] EXCEPT
                 !.mounts = Filled(in[i].mounts, mounts(i), {"options"})]]>>
    ELSE Error

JSONDevices(devices) ==
  [i \in DOMAIN devices |->
     [name |-> devices[i].name, sharedCount |-> devices[i].sharedCount,
      groups |-> devices[i].groups, hostDevices |-> devices[i].hostDevices]]

JSONResources(resources) ==
  [i \in DOMAIN resources |->
     [name |-> resources[i].name, groups |-> resources[i].groups, mounts |-> resources[i].mounts,
      env |-> resources[i].env, hosts |-> resources[i].hosts]]

NodeConfigToJSON(config) ==
  [version |-> config.version, nodeType |-> config.nodeType, devices |-> JSONDevices(config.devices),
   resources |-> JSONResources(config.resources), labels |-> config.labels, priority |-> config.priority]

NodeConfigFromJSON(doc, config) ==
  LET json      == ReadConfig(doc)
      devices   == FillDevices(json.devices, config.devices)
      resources == FillResources(json.resources, config.resources)
  IN
  IF \/ ~ConfigFits(json) \/ devices = Error \/ resources = Error
     \/ ~CanPush(config.labels, json.labels, cMax)
    THEN Error
    ELSE <<[version |-> json.version, nodeType |-> json.nodeType, devices |-> devices[1],
            resources |-> resources[1], labels |-> config.labels \o json.labels, priority |-> json.priority]>>
=============================================================================
