------------------------------ MODULE OCISpec ------------------------------
(***************************************************************************)
(* OCISpec: the files that describe an image and a service.  Save writes   *)
(* an object as a document, Load adds a document to an object: the tables  *)
(* of the object are appended to, and what no longer fits is dropped.      *)
(*                                                                         *)
(* An optional member is <<>> or <<value>>.  The member rest of an object  *)
(* stands for those of the core library that no document has: neither Save *)
(* nor Load touches them.                                                  *)
(***************************************************************************)
EXTENDS JSONTables

CONSTANT cMax   \* the size of every table but those of the devices

EmptyDescriptor == [mediaType |-> "", digest |-> "", size |-> 0]
EmptyManifest == [schemaVersion |-> 0, mediaType |-> "", config |-> EmptyDescriptor,
                  layers |-> <<>>, aosService |-> <<>>]
EmptyManifestJSON == [schemaVersion |-> 0, mediaType |-> "", config |-> EmptyDescriptor,
                      layers |-> <<>>, aosService |-> EmptyDescriptor]

ParseImageManifest(doc) ==
  LET json == Read(EmptyManifestJSON, doc) IN
  IF ~TablesFit(json, {"layers"}, cMax) THEN Error
  ELSE <<[schemaVersion |-> json.schemaVersion, mediaType |-> json.mediaType,
          config |-> Read(EmptyDescriptor, json.config), layers |-> ReadAll(EmptyDescriptor, json.layers),
          aosService |-> Read(EmptyDescriptor, json.aosService)]>>

LoadImageManifest(doc, manifest) ==
  LET parsed == ParseImageManifest(doc) IN
  IF parsed = Error THEN Error
  ELSE LET json == parsed[1] IN
    <<[schemaVersion |-> json.schemaVersion, mediaType |-> json.mediaType, config |-> json.config,
       layers |-> PushDropping(manifest.layers, json.layers, cMax),
       aosService |-> IF "aosService" \in DOMAIN doc THEN <<json.aosService>> ELSE manifest.aosService]>>

(* A manifest without aosService is saved with an empty one.               *)
SaveImageManifest(manifest) ==
  [manifest EXCEPT !.aosService = IF manifest.aosService = <<>> THEN EmptyDescriptor ELSE @[1]]

EmptyImageConfig == [Env |-> <<>>, Entrypoint |-> <<>>, Cmd |-> <<>>]
EmptyImageSpec   == [config |-> EmptyImageConfig, rest |-> ""]
EmptyImageJSON   == [config |-> EmptyImageConfig]

ParseImageSpec(doc) ==
  LET config == Read(EmptyImageConfig, Read(EmptyImageJSON, doc).config) IN
  IF TablesFit(config, DOMAIN EmptyImageConfig, cMax) THEN <<[config |-> config]>> ELSE Error

Bug_LoadImageSpec(doc, spec) ==
  LET parsed == ParseImageSpec(doc) IN
  IF parsed = Error THEN Error
  ELSE <<[config |-> [f \in DOMAIN EmptyImageConfig |->
            IF f = "Cmd" THEN spec.config[f] ELSE PushDropping(spec.config[f], parsed[1].config[f], cMax)],
          rest |-> spec.rest]>>

LoadImageSpec(doc, spec) ==
  LET parsed == ParseImageSpec(doc) IN
  IF parsed = Error THEN Error
  ELSE <<[config |-> [f \in DOMAIN EmptyImageConfig |->
            PushDropping(spec.config[f], parsed[1].config[f], cMax)],
          rest |-> spec.rest]>>

SaveImageSpec(spec) ==
  [config |-> [Env |-> spec.config.Env, Entrypoint |-> spec.config.Entrypoint, Cmd |-> spec.config.Cmd]]

EmptyHypervisor == [path |-> "", parameters |-> <<>>]
EmptyIOMEM      == [firstGFN |-> 0, firstMFN |-> 0, nrMFNs |-> 0]
EmptyHWConfig   == [deviceTree |-> "", vcpus |-> 0, memKB |-> 0, dtdevs |-> <<>>, iomems |-> <<>>, irqs |-> <<>>]
EmptyVM         == [hypervisor |-> EmptyHypervisor, kernel |-> EmptyHypervisor, hwConfig |-> EmptyHWConfig]
EmptyRuntimeSpec == [ociVersion |-> "", vm |-> <<>>, rest |-> ""]
EmptyRuntimeJSON == [ociVersion |-> "", vm |-> EmptyVM]

ReadHWConfig(doc) ==
  LET json == Read(EmptyHWConfig, doc) IN
  [deviceTree |-> json.deviceTree, vcpus |-> json.vcpus, memKB |-> json.memKB, dtdevs |-> json.dtdevs,
   iomems |-> ReadAll(EmptyIOMEM, json.iomems), irqs |-> json.irqs]

ReadVM(doc) ==
  LET json == Read(EmptyVM, doc) IN
  [hypervisor |-> Read(EmptyHypervisor, json.hypervisor), kernel |-> Read(EmptyHypervisor, json.kernel),
   hwConfig |-> ReadHWConfig(json.hwConfig)]

VMFits(vm) ==
  /\ TablesFit(vm.hypervisor, {"parameters"}, cMax) /\ TablesFit(vm.kernel, {"parameters"}, cMax)
  /\ TablesFit(vm.hwConfig, {"dtdevs", "iomems", "irqs"}, cMax)

ParseRuntimeSpec(doc) ==
  LET json == Read(EmptyRuntimeJSON, doc) IN
  IF VMFits(ReadVM(json.vm)) THEN <<[ociVersion |-> json.ociVersion, vm |-> ReadVM(json.vm)]>> ELSE Error

(* A virtual machine that is there already is replaced.                    *)
LoadRuntimeSpec(doc, spec) ==
  LET parsed == ParseRuntimeSpec(doc) IN
  IF parsed = Error THEN Error
  ELSE <<[ociVersion |-> parsed[1].ociVersion,
          vm |-> IF "vm" \in DOMAIN doc THEN <<parsed[1].vm>> ELSE spec.vm,
          rest |-> spec.rest]>>

Bug_SaveRuntimeSpec(spec) ==
  [ociVersion |-> spec.ociVersion,
   vm |-> IF spec.vm = <<>> THEN EmptyVM ELSE [spec.vm[1] EXCEPT !.kernel = spec.vm[1].hypervisor]]

SaveRuntimeSpec(spec) ==
  [ociVersion |-> spec.ociVersion, vm |-> IF spec.vm = <<>> THEN EmptyVM ELSE spec.vm[1]]

EmptyServiceConfig == [runners |-> <<>>]

(* Here a runner that does not fit is an error.  There is no Save: the     *)
(* function of that name writes nothing.                                   *)
LoadServiceConfig(doc, config) ==
  LET json == Read(EmptyServiceConfig, doc) IN
  IF ~TablesFit(json, {"runners"}, cMax) \/ ~CanPush(config.runners, json.runners, cMax) THEN Error
  ELSE <<[runners |-> config.runners \o json.runners]>>
=============================================================================
