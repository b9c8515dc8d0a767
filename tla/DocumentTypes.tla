--------------------------- MODULE DocumentTypes ---------------------------
(***************************************************************************)
(* The objects of the node, with tables of a fixed size, and the documents *)
(* that others write of them, with arrays of any size.  The objects are    *)
(* those of the core library; a table of at most one element is an         *)
(* optional member.                                                        *)
(***************************************************************************)
EXTENDS ResourceManager

(* The values of the members that are strings: those that fit their member *)
(* and need no escape, which the encoder of the library writes and its     *)
(* parser does not take back.  Numbers, too, are those that fit.           *)
CONSTANT Text

ASSUME TextAssumption == "" \in Text

Kind == {"manifest", "image", "runtime", "service", "nodeConfig"}

Bounded(S, max) == {s \in Seq(S) : Len(s) <= max}
Texts == Bounded(Text, cMax)

ContentDescriptor == [mediaType : Text, digest : Text, size : Nat]
ImageConfig     == [Env : Texts, Entrypoint : Texts, Cmd : Texts]
IOMEM           == [firstGFN : Nat, firstMFN : Nat, nrMFNs : Nat]
VMHypervisor    == [path : Text, parameters : Texts]
VMHWConfig      == [deviceTree : Text, vcpus : Nat, memKB : Nat, dtdevs : Texts,
                    iomems : Bounded(IOMEM, cMax), irqs : Bounded(Nat, cMax)]
VM              == [hypervisor : VMHypervisor, kernel : VMHypervisor, hwConfig : VMHWConfig]
Host            == [ip : Text, hostName : Text]
DeviceInfo      == [name : Text, sharedCount : Nat, groups : Texts,
                    hostDevices : Bounded(Text, cMaxNumHostDevices)]
FileSystemMount == [destination : Text, source : Text, type : Text, options : Texts]
ResourceInfo    == [name : Text, groups : Texts, mounts : Bounded(FileSystemMount, cMax),
                    env : Texts, hosts : Bounded(Host, cMax)]

(* The objects.  The rest of an image is its architecture, os, version,    *)
(* variant, date and author (tests/ocispec/src/main.cpp:299), that of a    *)
(* runtime the five members before its machine (main.cpp:539).             *)
ImageManifest == [schemaVersion : Nat, mediaType : Text, config : ContentDescriptor,
                  layers : Bounded(ContentDescriptor, cMax), aosService : Bounded(ContentDescriptor, 1)]
ImageSpec     == [config : ImageConfig, rest : Text]
RuntimeSpec   == [ociVersion : Text, vm : Bounded(VM, 1), rest : Text]
ServiceConfig == [runners : Texts]
NodeConfig    == [version : Text, nodeType : Text, devices : Bounded(DeviceInfo, cMaxNumNodeDevices),
                  resources : Bounded(ResourceInfo, cMax), labels : Texts, priority : Nat]

ObjectType(k) ==
  CASE k = "manifest"   -> ImageManifest
    [] k = "image"      -> ImageSpec
    [] k = "runtime"    -> RuntimeSpec
    [] k = "service"    -> ServiceConfig
    [] k = "nodeConfig" -> NodeConfig

-----------------------------------------------------------------------------
(* The documents.  An object of a document has fields of the types that    *)
(* the node expects, any of them may be absent, and it may have others.    *)
Has(doc, types) == \A f \in DOMAIN types \intersect DOMAIN doc : doc[f] \in types[f]

IsArray(docs) == Len(docs) \in Nat /\ DOMAIN docs = 1..Len(docs)

(* Where the structure of the code has no default, what is absent is read  *)
(* through a null pointer, or as a length that nobody has set: documents   *)
(* without one of these fields are left out.                               *)
Needs(doc, F) == F \subseteq DOMAIN doc

IsDescriptor(doc) == Has(doc, [mediaType |-> Text, digest |-> Text, size |-> Nat])
IsLayer(doc) == IsDescriptor(doc) /\ Needs(doc, {"mediaType", "digest"})

IsImageManifest(doc) ==
  /\ Has(doc, [schemaVersion |-> Nat, mediaType |-> Text])
  /\ "config" \in DOMAIN doc => IsDescriptor(doc.config)
  /\ "aosService" \in DOMAIN doc => IsDescriptor(doc.aosService)
  /\ "layers" \in DOMAIN doc => IsArray(doc.layers) /\ \A i \in DOMAIN doc.layers : IsLayer(doc.layers[i])

IsImageSpec(doc) ==
  "config" \in DOMAIN doc =>
    Has(doc.config, [Env |-> Seq(Text), Entrypoint |-> Seq(Text), Cmd |-> Seq(Text)])

IsHypervisor(doc) == Has(doc, [path |-> Text, parameters |-> Seq(Text)])
IsIOMEM(doc)      == Has(doc, [firstGFN |-> Nat, firstMFN |-> Nat, nrMFNs |-> Nat])
IsHWConfig(doc)   ==
  /\ Has(doc, [deviceTree |-> Text, vcpus |-> Nat, memKB |-> Nat, dtdevs |-> Seq(Text), irqs |-> Seq(Nat)])
  /\ "iomems" \in DOMAIN doc => IsArray(doc.iomems) /\ \A i \in DOMAIN doc.iomems : IsIOMEM(doc.iomems[i])

IsVM(doc) ==
  /\ "hypervisor" \in DOMAIN doc => IsHypervisor(doc.hypervisor)
  /\ "kernel" \in DOMAIN doc => IsHypervisor(doc.kernel)
  /\ "hwConfig" \in DOMAIN doc => IsHWConfig(doc.hwConfig)

IsRuntimeSpec(doc) ==
  /\ Has(doc, [ociVersion |-> Text])
  /\ "vm" \in DOMAIN doc => IsVM(doc.vm)

IsServiceConfig(doc) == Has(doc, [runners |-> Seq(Text)]) /\ Needs(doc, {"runners"})

IsDevice(doc) ==
  /\ Has(doc, [name |-> Text, sharedCount |-> Nat, groups |-> Seq(Text), hostDevices |-> Seq(Text)])
  /\ Needs(doc, {"name"})
IsMount(doc) ==
  /\ Has(doc, [destination |-> Text, source |-> Text, type |-> Text, options |-> Seq(Text)])
  /\ Needs(doc, {"destination", "source", "type"})
IsHost(doc) == Has(doc, [ip |-> Text, hostName |-> Text]) /\ Needs(doc, {"ip", "hostName"})
IsResource(doc) ==
  /\ Has(doc, [name |-> Text, groups |-> Seq(Text), env |-> Seq(Text)]) /\ Needs(doc, {"name"})
  /\ "mounts" \in DOMAIN doc => IsArray(doc.mounts) /\ \A i \in DOMAIN doc.mounts : IsMount(doc.mounts[i])
  /\ "hosts" \in DOMAIN doc => IsArray(doc.hosts) /\ \A i \in DOMAIN doc.hosts : IsHost(doc.hosts[i])

IsNodeConfig(doc) ==
  /\ Has(doc, [version |-> Text, nodeType |-> Text, labels |-> Seq(Text), priority |-> Nat])
  /\ Needs(doc, {"version", "nodeType"})
  /\ "devices" \in DOMAIN doc => IsArray(doc.devices) /\ \A i \in DOMAIN doc.devices : IsDevice(doc.devices[i])
  /\ "resources" \in DOMAIN doc =>
       IsArray(doc.resources) /\ \A i \in DOMAIN doc.resources : IsResource(doc.resources[i])

IsDocument(k, doc) ==
  CASE k = "manifest"   -> IsImageManifest(doc)
    [] k = "image"      -> IsImageSpec(doc)
    [] k = "runtime"    -> IsRuntimeSpec(doc)
    [] k = "service"    -> IsServiceConfig(doc)
    [] k = "nodeConfig" -> IsNodeConfig(doc)
=============================================================================
