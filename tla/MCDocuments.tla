---------------------------- MODULE MCDocuments ----------------------------
(* Objects and documents of every kind, with empty, partly filled and full *)
(* tables, and with tables that do not fit, for module Documents.          *)
EXTENDS Documents

(* All strings of these examples.                                          *)
MCText == {"", "a", "b", "c", "d", "dev", "e", "g", "h", "i", "k", "m", "n", "o", "res", "s", "t", "v", "1"}
Names == {<<>>, <<"a">>, <<"a", "b">>}
Descriptor == [mediaType |-> "m", digest |-> "d", size |-> 1]
Other      == [mediaType |-> "n", digest |-> "e", size |-> 2]
Machine(params, devs) ==
  [hypervisor |-> [path |-> "h", parameters |-> params], kernel |-> [path |-> "k", parameters |-> <<"c">>],
   hwConfig |-> [deviceTree |-> "t", vcpus |-> 1, memKB |-> 2, dtdevs |-> devs,
                 iomems |-> <<[firstGFN |-> 1, firstMFN |-> 2, nrMFNs |-> 3]>>, irqs |-> <<4>>]]
Device(groups) == [name |-> "dev", sharedCount |-> 1, groups |-> groups, hostDevices |-> <<"h">>]
Resource(env)  == [name |-> "res", groups |-> <<"g">>, env |-> env,
                   mounts |-> <<[destination |-> "d", source |-> "s", type |-> "t", options |-> <<"o">>]>>,
                   hosts |-> <<[ip |-> "i", hostName |-> "n"]>>]

MCValues ==
  [manifest |-> {[schemaVersion |-> 1, mediaType |-> "m", config |-> Descriptor, layers |-> l, aosService |-> s] :
                   l \in {<<>>, <<Other>>, <<Other, Descriptor>>}, s \in {<<>>, <<Other>>}},
   image    |-> {[config |-> [Env |-> e, Entrypoint |-> p, Cmd |-> <<"c">>], rest |-> r] :
                   e \in Names, p \in Names, r \in {"", "o"}},
   runtime  |-> {[ociVersion |-> "v", vm |-> vm, rest |-> r] :
                   vm \in {<<>>} \union {<<Machine(p, d)>> : p \in Names, d \in Names}, r \in {"", "o"}},
   service  |-> {[runners |-> r] : r \in Names},
   nodeConfig |-> {[version |-> "1", nodeType |-> "t", devices |-> d, resources |-> r, labels |-> l, priority |-> 1] :
                     d \in {<<>>, <<Device(<<"a">>)>>, <<Device(<<>>), Device(<<"a", "b">>)>>},
                     r \in {<<>>, <<Resource(<<"e">>), Resource(<<>>)>>}, l \in {<<>>, <<"a", "b">>}}]

(* A document that has some of its fields only, one that has a field more. *)
Parts(docs, F) == UNION {{[f \in S |-> d[f]] : S \in {T \in SUBSET DOMAIN d : F \subseteq T}} : d \in docs}
Extra(d) == [f \in DOMAIN d \union {"extraField"} |-> IF f \in DOMAIN d THEN d[f] ELSE "t"]
NoField == [f \in {} |-> ""]
TooLong == <<"a", "b", "c">>

(* Objects below the top level with fields that are absent, and others.    *)
PartOfVM == [hypervisor |-> Extra([parameters |-> <<"a">>]), kernel |-> NoField,
             hwConfig |-> [vcpus |-> 2, iomems |-> <<[firstGFN |-> 1], NoField>>]]
PartsOfResource ==
  [name |-> "res", mounts |-> <<Extra([destination |-> "d", source |-> "s", type |-> "t"])>>,
   hosts |-> <<Extra([ip |-> "i", hostName |-> "n"])>>]

MCForeign ==
  [manifest   |-> Parts({SaveImageManifest(m) : m \in MCValues.manifest}, {})
                    \union {[layers |-> <<Other, Other, Other>>], [aosService |-> NoField],
                            Extra([config |-> [digest |-> "e"], aosService |-> Extra(Other),
                                   layers |-> <<Extra([mediaType |-> "m", digest |-> "d"]), Other>>])},
   image      |-> Parts({SaveImageSpec(s) : s \in MCValues.image}, {})
                    \union {[config |-> [EmptyImageConfig EXCEPT !.Cmd = TooLong]],
                            Extra([config |-> Extra([Cmd |-> <<"c", "a">>])])},
   runtime    |-> Parts({SaveRuntimeSpec(s) : s \in MCValues.runtime}, {})
                    \union {[vm |-> Machine(TooLong, <<>>)], [vm |-> NoField], Extra([vm |-> Extra(PartOfVM)])},
   service    |-> MCValues.service \union {[runners |-> TooLong], Extra([runners |-> <<"c">>])},
   nodeConfig |-> Parts(MCValues.nodeConfig, {"version", "nodeType"})
                    \union {Extra([version |-> "1", nodeType |-> "t", devices |-> <<Extra([name |-> "dev"])>>,
                                   resources |-> <<PartsOfResource, [name |-> "res"]>>])}]
=============================================================================
