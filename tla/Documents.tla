----------------------------- MODULE Documents -----------------------------
(***************************************************************************)
(* One document over its life: the managers of the node (external) save    *)
(* and load it, and the cloud or an image brings it along.  The mutexes of *)
(* OCISpec and JSONProvider make every call one step.                      *)
(***************************************************************************)
EXTENDS DocumentTypes

CONSTANTS
  Values,   \* what a caller may want to save: for each kind, a set of objects
  Foreign   \* documents that others wrote: for each kind, a set of documents

ASSUME DocumentsAssumption ==
  /\ \A k \in Kind : Values[k] \subseteq ObjectType(k)
  /\ \A k \in Kind : \A doc \in Foreign[k] : IsDocument(k, doc)

VARIABLES
  kind,     \* what document it is
  text,     \* the document, <<>> when there is none or a write has failed
  object,   \* the object of the caller
  saved,    \* the object that text was saved from, <<>> when others wrote it
  ret       \* what the last call returned

vars == <<kind, text, object, saved, ret>>

Empty(k) ==
  CASE k = "manifest"   -> EmptyManifest
    [] k = "image"      -> EmptyImageSpec
    [] k = "runtime"    -> EmptyRuntimeSpec
    [] k = "service"    -> EmptyServiceConfig
    [] k = "nodeConfig" -> EmptyConfig

Loaded(k, doc, x) ==
  CASE k = "manifest"   -> LoadImageManifest(doc, x)
    [] k = "image"      -> LoadImageSpec(doc, x)
    [] k = "runtime"    -> LoadRuntimeSpec(doc, x)
    [] k = "service"    -> LoadServiceConfig(doc, x)
    [] k = "nodeConfig" -> NodeConfigFromJSON(doc, x)

Document(k, x) ==
  CASE k = "manifest"   -> SaveImageManifest(x)
    [] k = "image"      -> SaveImageSpec(x)
    [] k = "runtime"    -> SaveRuntimeSpec(x)
    [] k = "nodeConfig" -> NodeConfigToJSON(x)

Init ==
  /\ kind \in Kind
  /\ object = Empty(kind) /\ text = <<>> /\ saved = <<>> /\ ret = "ok"

(* The caller fills an object of its own.                                  *)
Fill ==
  /\ object' \in Values[kind]
  /\ UNCHANGED <<kind, text, saved, ret>>

Receive ==
  /\ \E doc \in Foreign[kind] : text' = <<doc>>
  /\ saved' = <<>>
  /\ UNCHANGED <<kind, object, ret>>

Save ==
  /\ kind # "service"
  /\ text' = <<Document(kind, object)>> /\ saved' = <<object>> /\ ret' = "ok"
  /\ UNCHANGED <<kind, object>>

(* The JSON does not fit the buffer, or the file cannot be written whole.  *)
SaveFails ==
  /\ kind # "service"
  /\ ret' = "error"
  /\ \/ UNCHANGED <<text, saved>>
     \/ text' = <<>> /\ saved' = <<>>
  /\ UNCHANGED <<kind, object>>

(* SaveServiceConfig.                                                      *)
SaveNothing ==
  /\ kind = "service"
  /\ ret' = "ok"
  /\ UNCHANGED <<kind, text, object, saved>>

(* Load, into a new object or into the one the caller has.  After an error *)
(* the object is filled in part and the caller drops it.                   *)
LoadInto(x) ==
  /\ text # <<>>
  /\ LET result == Loaded(kind, text[1], x) IN
       IF result = Error
         THEN object' = Empty(kind) /\ ret' = "error"
         ELSE object' = result[1] /\ ret' = "ok"
  /\ UNCHANGED <<kind, text, saved>>

Load      == LoadInto(Empty(kind))
LoadAgain == LoadInto(object)

(* The file cannot be read.                                                *)
LoadFails ==
  /\ text = <<>>
  /\ ret' = "error"
  /\ UNCHANGED <<kind, text, object, saved>>

(* LoadContentDescriptor, SaveContentDescriptor, CheckDevice, CheckGroup.  *)
NotSupported ==
  /\ ret' = "notSupported"
  /\ UNCHANGED <<kind, text, object, saved>>

Next ==
  \/ Fill \/ Receive \/ Save \/ SaveFails \/ SaveNothing
  \/ Load \/ LoadAgain \/ LoadFails \/ NotSupported

Spec == Init /\ [][Next]_vars

-----------------------------------------------------------------------------
(* What of an object its document has: the optional members are there,     *)
(* empty when they were not, and the rest is lost.                         *)
Normal(k, x) ==
  CASE k = "manifest" -> [x EXCEPT !.aosService = IF @ = <<>> THEN <<EmptyDescriptor>> ELSE @]
    [] k = "image"    -> [config |-> x.config, rest |-> ""]
    [] k = "runtime"  -> [ociVersion |-> x.ociVersion, vm |-> IF x.vm = <<>> THEN <<EmptyVM>> ELSE x.vm,
                          rest |-> ""]
    [] OTHER          -> x

(* The fields F of an object of a document, and of all objects of an       *)
(* array, have the values that they had.                                   *)
Kept(old, new, F) == \A f \in F \intersect DOMAIN old : new[f] = old[f]
AllKept(old, new, F) == Len(new) = Len(old) /\ \A i \in DOMAIN old : Kept(old[i], new[i], F)

ManifestKept(old, new) ==
  /\ Kept(old, new, {"schemaVersion", "mediaType"})
  /\ \A f \in {"config", "aosService"} \intersect DOMAIN old : Kept(old[f], new[f], DOMAIN EmptyDescriptor)
  /\ "layers" \in DOMAIN old => AllKept(old.layers, new.layers, DOMAIN EmptyDescriptor)

ImageKept(old, new) ==
  "config" \in DOMAIN old => Kept(old.config, new.config, DOMAIN EmptyImageConfig)

HWConfigKept(old, new) ==
  /\ Kept(old, new, {"deviceTree", "vcpus", "memKB", "dtdevs", "irqs"})
  /\ "iomems" \in DOMAIN old => AllKept(old.iomems, new.iomems, DOMAIN EmptyIOMEM)

VMKept(old, new) ==
  /\ \A f \in {"hypervisor", "kernel"} \intersect DOMAIN old : Kept(old[f], new[f], DOMAIN EmptyHypervisor)
  /\ "hwConfig" \in DOMAIN old => HWConfigKept(old.hwConfig, new.hwConfig)

RuntimeKept(old, new) ==
  /\ Kept(old, new, {"ociVersion"})
  /\ "vm" \in DOMAIN old => VMKept(old.vm, new.vm)

ResourceKept(old, new) ==
  /\ Kept(old, new, {"name", "groups", "env"})
  /\ "mounts" \in DOMAIN old => AllKept(old.mounts, new.mounts, DOMAIN EmptyMount)
  /\ "hosts" \in DOMAIN old => AllKept(old.hosts, new.hosts, DOMAIN EmptyHost)

ConfigKept(old, new) ==
  /\ Kept(old, new, {"version", "nodeType", "labels", "priority"})
  /\ "devices" \in DOMAIN old => AllKept(old.devices, new.devices, DOMAIN EmptyDevice)
  /\ "resources" \in DOMAIN old =>
       /\ Len(new.resources) = Len(old.resources)
       /\ \A i \in DOMAIN old.resources : ResourceKept(old.resources[i], new.resources[i])

DocumentKept(k, old, new) ==
  CASE k = "manifest"   -> ManifestKept(old, new)
    [] k = "image"      -> ImageKept(old, new)
    [] k = "runtime"    -> RuntimeKept(old, new)
    [] k = "nodeConfig" -> ConfigKept(old, new)

(* No table of an object ever holds more than it has room for, over any    *)
(* sequence of loads into objects that are not empty.                      *)
TypeOK ==
  /\ kind \in Kind /\ ret \in {"ok", "error", "notSupported"}
  /\ object \in ObjectType(kind) /\ saved \in Bounded(ObjectType(kind), 1)
  /\ text = <<>> \/ (Len(text) = 1 /\ IsDocument(kind, text[1]))

(* What was saved is what is loaded, as tests/ocispec and                  *)
(* tests/resourcemanager expect of their examples: every member that has a *)
(* place in the document, also when the object is itself the outcome of    *)
(* loads; an absent optional member comes back empty.  The other members   *)
(* of an image and of a runtime are lost (tests/ocispec/src/main.cpp:299,  *)
(* 539: the specifications compare equal without them).  A configuration   *)
(* with more devices than the parser takes can be saved and not loaded     *)
(* (resourcemanager.cpp:130).                                              *)
SavedIsLoaded ==
  saved # <<>> =>
    \/ Loaded(kind, text[1], Empty(kind)) = <<Normal(kind, saved[1])>>
    \/ kind = "nodeConfig" /\ Len(saved[1].devices) > cMaxNumHostDevices

(* A document that others wrote keeps what it says to the node when the    *)
(* node loads and saves it: every field the node knows, at every depth and *)
(* whichever of them are there, has its value again (ocispec.cpp:158-174,  *)
(* 371-407; resourcemanager.cpp:355-371).  The fields that the node does   *)
(* not know are gone: a load skips them (main.cpp:250-271).                *)
NothingIsLost ==
  text # <<>> /\ saved = <<>> /\ kind # "service" =>
    LET result == Loaded(kind, text[1], Empty(kind)) IN
    result # Error => DocumentKept(kind, text[1], Document(kind, result[1]))
=============================================================================
