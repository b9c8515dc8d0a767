--------------------------- MODULE DocumentsProof ---------------------------
(***************************************************************************)
(* Proofs about module Documents, for all sizes of the tables and all      *)
(* objects and documents: no table of an object overflows over any         *)
(* sequence of loads, what is saved is loaded, and what others wrote is    *)
(* kept.                                                                   *)
(***************************************************************************)
EXTENDS Documents, SequenceTheorems, TLAPS

-----------------------------------------------------------------------------
(* Sequences.                                                              *)

(* A function from 1..n is a sequence of n elements.                       *)
LEMMA TableIsSeq ==
  ASSUME NEW S, NEW n \in Nat, NEW s \in [1..n -> S]
  PROVE  s \in Seq(S) /\ Len(s) = n /\ DOMAIN s = 1..n
  BY IsASeq, LenProperties

(* Two sequences are the same when their elements are.                     *)
LEMMA SameElements ==
  ASSUME NEW S, NEW s \in Seq(S), NEW t \in Seq(S), Len(s) = Len(t),
         \A i \in 1..Len(s) : s[i] = t[i]
  PROVE  s = t
  BY LenProperties

(* Appending to an empty table.                                            *)
LEMMA PushToEmpty ==
  ASSUME NEW S, NEW s \in Seq(S), NEW max \in Nat
  PROVE  /\ <<>> \o s = s
         /\ CanPush(<<>>, s, max) <=> Len(s) <= max
         /\ Len(s) <= max => PushDropping(<<>>, s, max) = s
<1>1. <<>> \o s = s /\ Len(<<>>) = 0 /\ Len(s) \in Nat
  OBVIOUS
<1> QED
  BY <1>1 DEF CanPush, PushDropping

(* Appending keeps the size of a table.                                    *)
LEMMA PushKeepsBound ==
  ASSUME NEW S, NEW a \in Seq(S), NEW b \in Seq(S), NEW max \in Nat
  PROVE  /\ CanPush(a, b, max) => a \o b \in Bounded(S, max)
         /\ PushDropping(a, b, max) \in Bounded(S, max)
<1> DEFINE c == a \o b
<1>1. c \in Seq(S) /\ Len(c) = Len(a) + Len(b) /\ Len(a) \in Nat /\ Len(b) \in Nat
  OBVIOUS
<1>2. CASE CanPush(a, b, max)
  BY <1>1, <1>2 DEF CanPush, PushDropping, Bounded
<1>3. CASE ~CanPush(a, b, max)
  <2>1. max < Len(c)
    BY <1>1, <1>3 DEF CanPush
  <2>2. \A i \in 1..max : i \in 1..Len(c)
    BY <1>1, <2>1
  <2> HIDE DEF c
  <2>3. SubSeq(c, 1, max) \in Seq(S) /\ Len(SubSeq(c, 1, max)) = max
    BY <1>1, <2>2, SubSeqProperties
  <2>4. SubSeq(c, 1, max) \in Bounded(S, max)
    BY <2>3 DEF Bounded
  <2>5. PushDropping(a, b, max) = SubSeq(c, 1, max)
    BY <1>3 DEF PushDropping, c
  <2> QED
    BY <1>3, <2>4, <2>5
<1> QED
  BY <1>2, <1>3

-----------------------------------------------------------------------------
(* What the parser reads.                                                  *)

(* An array is read element by element.                                    *)
LEMMA ArrayRead ==
  ASSUME NEW S, NEW struct, NEW docs, IsArray(docs), \A i \in DOMAIN docs : Read(struct, docs[i]) \in S
  PROVE  /\ ReadAll(struct, docs) \in Seq(S) /\ Len(ReadAll(struct, docs)) = Len(docs)
         /\ \A i \in DOMAIN docs : ReadAll(struct, docs)[i] = Read(struct, docs[i])
<1>1. ReadAll(struct, docs) \in [1..Len(docs) -> S] /\ Len(docs) \in Nat /\ DOMAIN docs = 1..Len(docs)
  BY DEF ReadAll, IsArray
<1> QED
  BY <1>1, TableIsSeq DEF ReadAll

(* An array of objects that have all fields and no others is read as it is.*)
LEMMA SameArrayRead ==
  ASSUME NEW S, NEW struct, NEW docs \in Seq(S), \A x \in S : Read(struct, x) = x
  PROVE  ReadAll(struct, docs) = docs
<1>1. Len(docs) \in Nat /\ DOMAIN docs = 1..Len(docs) /\ \A i \in 1..Len(docs) : docs[i] \in S
  BY LenProperties, ElementOfSeq
<1>2. ReadAll(struct, docs) = [i \in 1..Len(docs) |-> docs[i]]
  BY <1>1 DEF ReadAll
<1> QED
  BY <1>1, <1>2, LenProperties

(* A table is an array.                                                    *)
LEMMA SeqIsArray ==
  ASSUME NEW S, NEW s \in Seq(S)
  PROVE  IsArray(s) /\ \A i \in DOMAIN s : s[i] \in S
  BY LenProperties, ElementOfSeq DEF IsArray

(* So is an array without elements.                                        *)
LEMMA EmptyIsArray == IsArray(<<>>) /\ DOMAIN <<>> = {}
<1>1. <<>> \in Seq({}) /\ Len(<<>>) = 0
  OBVIOUS
<1> QED
  BY <1>1, LenProperties DEF IsArray

(* What is read keeps the fields that there are.                           *)
LEMMA ReadKeeps ==
  ASSUME NEW struct, NEW doc, NEW F, F \subseteq DOMAIN struct
  PROVE  Kept(doc, Read(struct, doc), F)
  BY DEF Kept, Read

(* And so do the elements of an array.                                     *)
LEMMA ArrayReadKeeps ==
  ASSUME NEW struct, NEW docs, IsArray(docs)
  PROVE  AllKept(docs, ReadAll(struct, docs), DOMAIN struct)
<1> DEFINE S == {Read(struct, docs[i]) : i \in DOMAIN docs}
<1>1. \A i \in DOMAIN docs : Read(struct, docs[i]) \in S
  OBVIOUS
<1> HIDE DEF S
<1>2. /\ Len(ReadAll(struct, docs)) = Len(docs)
      /\ \A i \in DOMAIN docs : ReadAll(struct, docs)[i] = Read(struct, docs[i])
  BY <1>1, ArrayRead
<1> QED
  BY <1>2, ReadKeeps DEF AllKept

(* A descriptor, whatever it lacks, is read as one.                        *)
LEMMA DescriptorRead ==
  /\ \A d : IsDescriptor(d) => Read(EmptyDescriptor, d) \in ContentDescriptor
  /\ \A x \in ContentDescriptor : IsDescriptor(x) /\ IsLayer(x) /\ Read(EmptyDescriptor, x) = x
<1>1. ASSUME NEW d, IsDescriptor(d) PROVE Read(EmptyDescriptor, d) \in ContentDescriptor
  <2>1. /\ "mediaType" \in DOMAIN d => d.mediaType \in Text
        /\ "digest" \in DOMAIN d => d.digest \in Text
        /\ "size" \in DOMAIN d => d.size \in Nat
    BY <1>1 DEF IsDescriptor, Has
  <2> QED
    BY <2>1, TextAssumption DEF Read, EmptyDescriptor, ContentDescriptor
<1>2. ASSUME NEW x \in ContentDescriptor
      PROVE  IsDescriptor(x) /\ IsLayer(x) /\ Read(EmptyDescriptor, x) = x
  BY DEF IsDescriptor, IsLayer, Needs, Has, Read, EmptyDescriptor, ContentDescriptor
<1> QED
  BY <1>1, <1>2

-----------------------------------------------------------------------------
(* Manifests.                                                              *)

(* The descriptor that a manifest has before it is loaded.                 *)
LEMMA EmptyDescriptorType == EmptyDescriptor \in ContentDescriptor
  BY TextAssumption DEF EmptyDescriptor, ContentDescriptor

(* What the parser makes of a manifest whose layers fit.                   *)
ManifestRead(doc) ==
  LET json == Read(EmptyManifestJSON, doc) IN
  [schemaVersion |-> json.schemaVersion, mediaType |-> json.mediaType,
   config |-> Read(EmptyDescriptor, json.config), layers |-> ReadAll(EmptyDescriptor, json.layers),
   aosService |-> Read(EmptyDescriptor, json.aosService)]

(* The parser gives a manifest whose layers fit, or an error.              *)
LEMMA ManifestParsed ==
  ASSUME NEW doc, IsImageManifest(doc)
  PROVE  LET json == ManifestRead(doc) IN
         /\ json.schemaVersion \in Nat /\ json.mediaType \in Text /\ json.config \in ContentDescriptor
         /\ json.layers \in Seq(ContentDescriptor) /\ json.aosService \in ContentDescriptor
         /\ ParseImageManifest(doc) = IF Len(json.layers) <= cMax THEN <<json>> ELSE Error
         /\ <<json>> # Error
<1> DEFINE read == Read(EmptyManifestJSON, doc)
           json == ManifestRead(doc)
<1>1. /\ read.schemaVersion \in Nat /\ read.mediaType \in Text
      /\ IsDescriptor(read.config) /\ IsDescriptor(read.aosService)
  <2>1. IsDescriptor(EmptyDescriptor)
    BY EmptyDescriptorType, DescriptorRead
  <2>2. "schemaVersion" \in DOMAIN doc => doc.schemaVersion \in Nat
    BY DEF IsImageManifest, Has
  <2>3. "mediaType" \in DOMAIN doc => doc.mediaType \in Text
    BY DEF IsImageManifest, Has
  <2> QED
    BY <2>1, <2>2, <2>3, TextAssumption DEF Read, EmptyManifestJSON, IsImageManifest
<1>2. IsArray(read.layers) /\ \A i \in DOMAIN read.layers : IsDescriptor(read.layers[i])
  <2>1. CASE "layers" \in DOMAIN doc
    BY <2>1 DEF Read, EmptyManifestJSON, IsImageManifest, IsLayer
  <2>2. CASE "layers" \notin DOMAIN doc
    <3>1. read.layers = <<>>
      BY <2>2 DEF Read, EmptyManifestJSON
    <3> QED
      BY <3>1, EmptyIsArray
  <2> QED
    BY <2>1, <2>2
<1> HIDE DEF read
<1>3. ReadAll(EmptyDescriptor, read.layers) \in Seq(ContentDescriptor)
      /\ Len(ReadAll(EmptyDescriptor, read.layers)) = Len(read.layers)
  BY <1>2, DescriptorRead, ArrayRead
<1>4. /\ json.schemaVersion = read.schemaVersion /\ json.mediaType = read.mediaType
      /\ json.config = Read(EmptyDescriptor, read.config)
      /\ json.layers = ReadAll(EmptyDescriptor, read.layers)
      /\ json.aosService = Read(EmptyDescriptor, read.aosService)
  BY DEF ManifestRead, read
<1>5. ParseImageManifest(doc) = IF Len(read.layers) <= cMax THEN <<json>> ELSE Error
  BY DEF ParseImageManifest, ManifestRead, TablesFit, read
<1> HIDE DEF json
<1>6. <<json>> # Error
  BY DEF Error
<1> QED
  BY <1>1, <1>3, <1>4, <1>5, <1>6, DescriptorRead DEF json

(* A load keeps the tables of the manifest within their bounds.            *)
LEMMA ManifestLoads ==
  ASSUME NEW doc, IsImageManifest(doc), NEW x \in ImageManifest,
         LoadImageManifest(doc, x) # Error
  PROVE  LoadImageManifest(doc, x)[1] \in ImageManifest
<1> DEFINE json == ManifestRead(doc)
           layers == PushDropping(x.layers, json.layers, cMax)
           service == IF "aosService" \in DOMAIN doc THEN <<json.aosService>> ELSE x.aosService
           y == [schemaVersion |-> json.schemaVersion, mediaType |-> json.mediaType,
                 config |-> json.config, layers |-> layers, aosService |-> service]
<1>1. /\ json.schemaVersion \in Nat /\ json.mediaType \in Text /\ json.config \in ContentDescriptor
      /\ json.layers \in Seq(ContentDescriptor) /\ json.aosService \in ContentDescriptor
  BY ManifestParsed
<1>2. x.layers \in Seq(ContentDescriptor) /\ x.aosService \in Bounded(ContentDescriptor, 1)
  BY DEF ImageManifest, Bounded
<1>3. LoadImageManifest(doc, x) = <<y>>
  BY ManifestParsed DEF LoadImageManifest
<1> HIDE DEF json
<1>4. layers \in Bounded(ContentDescriptor, cMax)
  BY <1>1, <1>2, PushKeepsBound, DevicesAssumption
<1>5. service \in Bounded(ContentDescriptor, 1)
  BY <1>1, <1>2 DEF Bounded
<1> HIDE DEF layers, service
<1>6. y \in ImageManifest
  BY <1>1, <1>4, <1>5 DEF ImageManifest
<1> QED
  BY <1>3, <1>6

(* Into a new manifest a load brings the fields of the document.           *)
LEMMA ManifestLoadsNew ==
  ASSUME NEW doc, IsImageManifest(doc)
  PROVE  LET json == ManifestRead(doc) IN
         LoadImageManifest(doc, EmptyManifest) =
           IF Len(json.layers) <= cMax
             THEN <<[schemaVersion |-> json.schemaVersion, mediaType |-> json.mediaType,
                     config |-> json.config, layers |-> json.layers,
                     aosService |-> IF "aosService" \in DOMAIN doc THEN <<json.aosService>> ELSE <<>>]>>
             ELSE Error
<1> DEFINE json == ManifestRead(doc)
<1>1. /\ json.layers \in Seq(ContentDescriptor) /\ <<json>> # Error
      /\ ParseImageManifest(doc) = IF Len(json.layers) <= cMax THEN <<json>> ELSE Error
  BY ManifestParsed
<1>2. EmptyManifest.layers = <<>> /\ EmptyManifest.aosService = <<>>
  BY DEF EmptyManifest
<1> HIDE DEF json
<1>3. Len(json.layers) <= cMax => PushDropping(EmptyManifest.layers, json.layers, cMax) = json.layers
  BY <1>1, <1>2, PushToEmpty, DevicesAssumption
<1>4. CASE Len(json.layers) <= cMax
  BY <1>1, <1>2, <1>3, <1>4 DEF LoadImageManifest, json
<1>5. CASE ~(Len(json.layers) <= cMax)
  BY <1>1, <1>5 DEF LoadImageManifest, json
<1> QED
  BY <1>4, <1>5 DEF json

(* A manifest that is saved is loaded with the same members.               *)
LEMMA ManifestComesBack ==
  ASSUME NEW x \in ImageManifest
  PROVE  /\ IsImageManifest(SaveImageManifest(x))
         /\ LoadImageManifest(SaveImageManifest(x), EmptyManifest) = <<Normal("manifest", x)>>
<1> DEFINE service == IF x.aosService = <<>> THEN EmptyDescriptor ELSE x.aosService[1]
           doc == SaveImageManifest(x)
           json == ManifestRead(doc)
<1>1. x.aosService # <<>> => x.aosService = <<x.aosService[1]>> /\ x.aosService[1] \in ContentDescriptor
  BY DEF ImageManifest, Bounded
<1>2. service \in ContentDescriptor
  BY <1>1, EmptyDescriptorType
<1>3. /\ x.schemaVersion \in Nat /\ x.mediaType \in Text /\ x.config \in ContentDescriptor
      /\ x.layers \in Seq(ContentDescriptor) /\ Len(x.layers) <= cMax
  BY DEF ImageManifest, Bounded
<1>4. doc = [schemaVersion |-> x.schemaVersion, mediaType |-> x.mediaType, config |-> x.config,
             layers |-> x.layers, aosService |-> service]
  BY DEF SaveImageManifest, ImageManifest
<1>5. Normal("manifest", x) =
        [schemaVersion |-> x.schemaVersion, mediaType |-> x.mediaType, config |-> x.config,
         layers |-> x.layers, aosService |-> <<service>>]
  BY <1>1 DEF Normal, ImageManifest, service
<1> HIDE DEF service, doc
<1>6. IsImageManifest(doc)
  <2>1. IsArray(x.layers) /\ \A i \in DOMAIN x.layers : IsLayer(x.layers[i])
    BY <1>3, SeqIsArray, DescriptorRead
  <2> QED
    BY <1>2, <1>3, <1>4, <2>1, DescriptorRead DEF IsImageManifest, Has
<1>7. /\ json.schemaVersion = x.schemaVersion /\ json.mediaType = x.mediaType /\ json.config = x.config
      /\ json.layers = x.layers /\ json.aosService = service
  <2>1. Read(EmptyManifestJSON, doc) = doc
    BY <1>4 DEF Read, EmptyManifestJSON
  <2>2. ReadAll(EmptyDescriptor, x.layers) = x.layers
    BY <1>3, SameArrayRead, DescriptorRead
  <2> QED
    BY <1>2, <1>3, <1>4, <2>1, <2>2, DescriptorRead DEF ManifestRead
<1> HIDE DEF json
<1>8. LoadImageManifest(doc, EmptyManifest) =
        <<[schemaVersion |-> x.schemaVersion, mediaType |-> x.mediaType, config |-> x.config,
           layers |-> x.layers, aosService |-> <<service>>]>>
  <2>1. "aosService" \in DOMAIN doc
    BY <1>4
  <2> QED
    BY <1>3, <1>6, <1>7, <2>1, ManifestLoadsNew DEF json
<1> QED
  BY <1>5, <1>6, <1>8 DEF doc

(* A manifest that others wrote is saved with the fields that it had.      *)
LEMMA ManifestIsKept ==
  ASSUME NEW doc, IsImageManifest(doc), LoadImageManifest(doc, EmptyManifest) # Error
  PROVE  ManifestKept(doc, SaveImageManifest(LoadImageManifest(doc, EmptyManifest)[1]))
<1> DEFINE read == Read(EmptyManifestJSON, doc)
           json == ManifestRead(doc)
           service == IF "aosService" \in DOMAIN doc THEN <<json.aosService>> ELSE <<>>
           y == [schemaVersion |-> json.schemaVersion, mediaType |-> json.mediaType,
                 config |-> json.config, layers |-> json.layers, aosService |-> service]
           new == SaveImageManifest(y)
<1>1. LoadImageManifest(doc, EmptyManifest)[1] = y
  BY ManifestLoadsNew
<1>2. /\ new.schemaVersion = json.schemaVersion /\ new.mediaType = json.mediaType
      /\ new.config = json.config /\ new.layers = json.layers
      /\ "aosService" \in DOMAIN doc => new.aosService = json.aosService
  BY DEF SaveImageManifest
<1>3. /\ json.schemaVersion = read.schemaVersion /\ json.mediaType = read.mediaType
      /\ json.config = Read(EmptyDescriptor, read.config)
      /\ json.layers = ReadAll(EmptyDescriptor, read.layers)
      /\ json.aosService = Read(EmptyDescriptor, read.aosService)
  BY DEF ManifestRead
<1>4. \A f \in {"schemaVersion", "mediaType", "config", "layers", "aosService"} \intersect DOMAIN doc :
        read[f] = doc[f]
  BY DEF Read, EmptyManifestJSON
<1> HIDE DEF read, json, y, new
<1>5. Kept(doc, new, {"schemaVersion", "mediaType"})
  BY <1>2, <1>3, <1>4 DEF Kept
<1>6. ASSUME NEW f \in {"config", "aosService"} \intersect DOMAIN doc
      PROVE  Kept(doc[f], new[f], DOMAIN EmptyDescriptor)
  <2>1. new[f] = Read(EmptyDescriptor, doc[f])
    BY <1>2, <1>3, <1>4
  <2> QED
    BY <2>1, ReadKeeps
<1>7. ASSUME "layers" \in DOMAIN doc PROVE AllKept(doc.layers, new.layers, DOMAIN EmptyDescriptor)
  <2>1. new.layers = ReadAll(EmptyDescriptor, doc.layers)
    BY <1>2, <1>3, <1>4, <1>7
  <2>2. IsArray(doc.layers)
    BY <1>7 DEF IsImageManifest
  <2> QED
    BY <2>1, <2>2, ArrayReadKeeps
<1> QED
  BY <1>1, <1>5, <1>6, <1>7 DEF ManifestKept, new

-----------------------------------------------------------------------------
(* The configuration of an image.                                          *)

(* What the parser makes of it when its tables fit.                        *)
ImageRead(doc) == Read(EmptyImageConfig, Read(EmptyImageJSON, doc).config)

(* The fields of a configuration.                                          *)
LEMMA ImageFields == DOMAIN EmptyImageConfig = {"Env", "Entrypoint", "Cmd"}
  BY DEF EmptyImageConfig

(* The parser gives a configuration whose tables fit, or an error.         *)
LEMMA ImageParsed ==
  ASSUME NEW doc, IsImageSpec(doc)
  PROVE  LET config == ImageRead(doc) IN
         /\ DOMAIN config = DOMAIN EmptyImageConfig /\ config = [f \in DOMAIN EmptyImageConfig |-> config[f]]
         /\ \A f \in DOMAIN EmptyImageConfig : config[f] \in Seq(Text)
         /\ ParseImageSpec(doc) = IF config \in ImageConfig THEN <<[config |-> config]>> ELSE Error
         /\ <<[config |-> config]>> # Error
<1> DEFINE read == Read(EmptyImageJSON, doc).config
           config == ImageRead(doc)
<1>1. DOMAIN config = DOMAIN EmptyImageConfig /\ config = [f \in DOMAIN EmptyImageConfig |-> config[f]]
  BY DEF ImageRead, Read
<1>2. ASSUME NEW f \in DOMAIN EmptyImageConfig PROVE config[f] \in Seq(Text)
  <2>1. /\ "config" \in DOMAIN doc => read = doc.config
        /\ "config" \notin DOMAIN doc => read = EmptyImageConfig
    BY DEF Read, EmptyImageJSON
  <2>2. EmptyImageConfig[f] = <<>> /\ <<>> \in Seq(Text)
    BY ImageFields DEF EmptyImageConfig
  <2>3. f \in DOMAIN read => read[f] \in Seq(Text)
    <3>1. CASE "config" \in DOMAIN doc
      BY <2>1, <3>1, ImageFields DEF IsImageSpec, Has
    <3>2. CASE "config" \notin DOMAIN doc
      BY <2>1, <2>2, <3>2
    <3> QED
      BY <3>1, <3>2
  <2> HIDE DEF read
  <2> QED
    BY <2>2, <2>3 DEF ImageRead, Read, read
<1> HIDE DEF config
<1>3. TablesFit(config, DOMAIN EmptyImageConfig, cMax) <=> config \in ImageConfig
  <2>1. config \in ImageConfig <=> \A f \in DOMAIN EmptyImageConfig : config[f] \in Texts
    BY <1>1, ImageFields DEF ImageConfig
  <2> QED
    BY <1>2, <2>1 DEF TablesFit, Texts, Bounded
<1>4. ParseImageSpec(doc) = IF TablesFit(config, DOMAIN EmptyImageConfig, cMax) THEN <<[config |-> config]>> ELSE Error
  BY DEF ParseImageSpec, ImageRead, config
<1>5. <<[config |-> config]>> # Error
  BY DEF Error
<1> QED
  BY <1>1, <1>2, <1>3, <1>4, <1>5 DEF config

(* A load keeps the tables of the configuration within their bounds.       *)
LEMMA ImageLoads ==
  ASSUME NEW doc, IsImageSpec(doc), NEW x \in ImageSpec, LoadImageSpec(doc, x) # Error
  PROVE  LoadImageSpec(doc, x)[1] \in ImageSpec
<1> DEFINE read == ImageRead(doc)
           config == [f \in DOMAIN EmptyImageConfig |-> PushDropping(x.config[f], read[f], cMax)]
<1>1. LoadImageSpec(doc, x) = <<[config |-> config, rest |-> x.rest]>>
  BY ImageParsed DEF LoadImageSpec
<1>2. \A f \in DOMAIN EmptyImageConfig : read[f] \in Seq(Text)
  BY ImageParsed
<1> HIDE DEF read
<1>3. \A f \in DOMAIN EmptyImageConfig : x.config[f] \in Seq(Text)
  BY ImageFields DEF ImageConfig, ImageSpec, Texts, Bounded
<1>4. \A f \in DOMAIN EmptyImageConfig : config[f] \in Bounded(Text, cMax)
  BY <1>2, <1>3, PushKeepsBound, DevicesAssumption
<1>5. config = [f \in {"Env", "Entrypoint", "Cmd"} |-> config[f]]
  BY ImageFields
<1> HIDE DEF config
<1>6. config \in ImageConfig
  BY <1>4, <1>5, ImageFields DEF ImageConfig, Texts
<1> QED
  BY <1>1, <1>6 DEF ImageSpec

(* Into a new configuration a load brings that of the document.            *)
LEMMA ImageLoadsNew ==
  ASSUME NEW doc, IsImageSpec(doc)
  PROVE  LoadImageSpec(doc, EmptyImageSpec) =
           IF ImageRead(doc) \in ImageConfig THEN <<[config |-> ImageRead(doc), rest |-> ""]>> ELSE Error
<1> DEFINE read == ImageRead(doc)
           config == [f \in DOMAIN EmptyImageConfig |->
                        PushDropping(EmptyImageSpec.config[f], read[f], cMax)]
<1>1. /\ <<[config |-> read]>> # Error
      /\ ParseImageSpec(doc) = IF read \in ImageConfig THEN <<[config |-> read]>> ELSE Error
      /\ read = [f \in DOMAIN EmptyImageConfig |-> read[f]]
  BY ImageParsed
<1>2. EmptyImageSpec.rest = ""
  BY DEF EmptyImageSpec
<1> HIDE DEF read
<1>3. CASE read \in ImageConfig
  <2>1. LoadImageSpec(doc, EmptyImageSpec) = <<[config |-> config, rest |-> ""]>>
    <3>1. ParseImageSpec(doc) # Error /\ ParseImageSpec(doc)[1].config = read
      BY <1>1, <1>3
    <3> QED
      BY <1>2, <3>1 DEF LoadImageSpec
  <2>2. \A f \in DOMAIN EmptyImageConfig : EmptyImageSpec.config[f] = <<>>
    BY ImageFields DEF EmptyImageConfig, EmptyImageSpec
  <2>3. \A f \in DOMAIN EmptyImageConfig : read[f] \in Seq(Text) /\ Len(read[f]) <= cMax
    BY <1>3, ImageFields DEF ImageConfig, Texts, Bounded
  <2>4. \A f \in DOMAIN EmptyImageConfig : config[f] = read[f]
    BY <2>2, <2>3, PushToEmpty, DevicesAssumption
  <2>5. config = read
    BY <1>1, <2>4
  <2> QED
    BY <1>3, <2>1, <2>5 DEF read
<1>4. CASE read \notin ImageConfig
  BY <1>1, <1>4 DEF LoadImageSpec, read
<1> QED
  BY <1>3, <1>4 DEF read

(* A configuration that is saved is loaded with the same tables.           *)
LEMMA ImageComesBack ==
  ASSUME NEW x \in ImageSpec
  PROVE  /\ IsImageSpec(SaveImageSpec(x))
         /\ LoadImageSpec(SaveImageSpec(x), EmptyImageSpec) = <<Normal("image", x)>>
<1> DEFINE doc == SaveImageSpec(x)
<1>1. doc = [config |-> x.config] /\ x.config \in ImageConfig
  BY DEF SaveImageSpec, ImageSpec, ImageConfig
<1>2. \A f \in DOMAIN EmptyImageConfig : x.config[f] \in Seq(Text)
  BY <1>1, ImageFields DEF ImageConfig, Texts, Bounded
<1>3. x.config = [f \in DOMAIN EmptyImageConfig |-> x.config[f]]
  BY <1>1, ImageFields DEF ImageConfig
<1> HIDE DEF doc
<1>4. IsImageSpec(doc)
  BY <1>1, <1>2, ImageFields DEF IsImageSpec, Has
<1>5. ImageRead(doc) = x.config
  <2>1. Read(EmptyImageJSON, doc).config = x.config
    BY <1>1 DEF Read, EmptyImageJSON
  <2>2. DOMAIN x.config = DOMAIN EmptyImageConfig
    BY <1>3
  <2>3. Read(EmptyImageConfig, x.config) = [f \in DOMAIN EmptyImageConfig |-> x.config[f]]
    BY <2>2 DEF Read
  <2> QED
    BY <1>3, <2>1, <2>3 DEF ImageRead
<1>6. Normal("image", x) = [config |-> x.config, rest |-> ""]
  BY DEF Normal
<1> QED
  BY <1>1, <1>4, <1>5, <1>6, ImageLoadsNew DEF doc

(* A configuration that others wrote is saved with the fields that it had. *)
LEMMA ImageIsKept ==
  ASSUME NEW doc, IsImageSpec(doc), LoadImageSpec(doc, EmptyImageSpec) # Error
  PROVE  ImageKept(doc, SaveImageSpec(LoadImageSpec(doc, EmptyImageSpec)[1]))
<1> DEFINE config == ImageRead(doc)
           y == [config |-> config, rest |-> ""]
<1>1. LoadImageSpec(doc, EmptyImageSpec)[1] = y
  <2>1. LoadImageSpec(doc, EmptyImageSpec) = <<y>>
    BY ImageLoadsNew
  <2> HIDE DEF y
  <2> QED
    BY <2>1
<1>2. SaveImageSpec(y).config = config
  <2>1. config = [f \in {"Env", "Entrypoint", "Cmd"} |-> config[f]]
    BY ImageParsed, ImageFields
  <2> HIDE DEF config
  <2> QED
    BY <2>1 DEF SaveImageSpec
<1>3. ASSUME "config" \in DOMAIN doc PROVE Kept(doc.config, config, DOMAIN EmptyImageConfig)
  <2>1. config = Read(EmptyImageConfig, doc.config)
    BY <1>3 DEF ImageRead, Read, EmptyImageJSON
  <2> QED
    BY <2>1, ReadKeeps
<1> HIDE DEF config
<1> QED
  BY <1>1, <1>2, <1>3 DEF ImageKept

-----------------------------------------------------------------------------
(* The configuration of a runtime.                                         *)

(* Nothing is a table of anything.                                         *)
LEMMA EmptyTable == \A S : <<>> \in Seq(S) /\ <<>> \in Bounded(S, cMax)
<1>1. \A S : <<>> \in Seq(S) /\ Len(<<>>) <= cMax
  BY DevicesAssumption
<1> QED
  BY <1>1 DEF Bounded

(* The parts of a machine that is empty.                                   *)
LEMMA EmptyHypervisorType == EmptyHypervisor \in VMHypervisor
  BY EmptyTable, TextAssumption DEF EmptyHypervisor, VMHypervisor, Texts

(* Its hardware.                                                           *)
LEMMA EmptyHWConfigType == EmptyHWConfig \in VMHWConfig
  BY EmptyTable, TextAssumption DEF EmptyHWConfig, VMHWConfig, Texts

(* The machine that a configuration has before it is loaded.               *)
LEMMA EmptyVMType == EmptyVM \in VM
  BY EmptyHypervisorType, EmptyHWConfigType DEF EmptyVM, VM

(* A memory region, whatever it lacks, is read as one.                     *)
LEMMA IOMEMRead ==
  /\ \A d : IsIOMEM(d) => Read(EmptyIOMEM, d) \in IOMEM
  /\ \A x \in IOMEM : IsIOMEM(x) /\ Read(EmptyIOMEM, x) = x
<1>1. ASSUME NEW d, IsIOMEM(d) PROVE Read(EmptyIOMEM, d) \in IOMEM
  <2>1. /\ "firstGFN" \in DOMAIN d => d.firstGFN \in Nat
        /\ "firstMFN" \in DOMAIN d => d.firstMFN \in Nat
        /\ "nrMFNs" \in DOMAIN d => d.nrMFNs \in Nat
    BY <1>1 DEF IsIOMEM, Has
  <2> QED
    BY <2>1 DEF Read, EmptyIOMEM, IOMEM
<1>2. ASSUME NEW x \in IOMEM PROVE IsIOMEM(x) /\ Read(EmptyIOMEM, x) = x
  BY DEF IsIOMEM, Has, Read, EmptyIOMEM, IOMEM
<1> QED
  BY <1>1, <1>2

(* So is a hypervisor or a kernel, when its parameters fit.                *)
LEMMA HypervisorRead ==
  /\ \A d : IsHypervisor(d) =>
       LET h == Read(EmptyHypervisor, d) IN TablesFit(h, {"parameters"}, cMax) <=> h \in VMHypervisor
  /\ \A x \in VMHypervisor : IsHypervisor(x) /\ Read(EmptyHypervisor, x) = x
<1>1. ASSUME NEW d, IsHypervisor(d)
      PROVE  TablesFit(Read(EmptyHypervisor, d), {"parameters"}, cMax) <=> Read(EmptyHypervisor, d) \in VMHypervisor
  <2> DEFINE h == Read(EmptyHypervisor, d)
  <2>1. /\ "path" \in DOMAIN d => d.path \in Text
        /\ "parameters" \in DOMAIN d => d.parameters \in Seq(Text)
    BY <1>1 DEF IsHypervisor, Has
  <2>2. EmptyHypervisor.path \in Text /\ EmptyHypervisor.parameters \in Seq(Text)
    BY EmptyTable, TextAssumption DEF EmptyHypervisor
  <2>3. h.path \in Text /\ h.parameters \in Seq(Text) /\ h = [path |-> h.path, parameters |-> h.parameters]
    <3>1. DOMAIN EmptyHypervisor = {"path", "parameters"}
      BY DEF EmptyHypervisor
    <3>2. /\ h.path = IF "path" \in DOMAIN d THEN d.path ELSE EmptyHypervisor.path
          /\ h.parameters = IF "parameters" \in DOMAIN d THEN d.parameters ELSE EmptyHypervisor.parameters
          /\ h = [f \in {"path", "parameters"} |-> h[f]]
      BY <3>1 DEF Read
    <3> HIDE DEF h
    <3> QED
      BY <2>1, <2>2, <3>2
  <2> HIDE DEF h
  <2>4. h \in VMHypervisor <=> h.parameters \in Texts
    BY <2>3 DEF VMHypervisor
  <2> QED
    BY <2>3, <2>4 DEF TablesFit, Texts, Bounded, h
<1>2. ASSUME NEW x \in VMHypervisor PROVE IsHypervisor(x) /\ Read(EmptyHypervisor, x) = x
  BY DEF IsHypervisor, Has, Read, EmptyHypervisor, VMHypervisor, Texts, Bounded
<1> QED
  BY <1>1, <1>2

(* And the hardware of a machine, when its tables fit.                     *)
LEMMA HWConfigRead ==
  /\ \A d : IsHWConfig(d) =>
       TablesFit(ReadHWConfig(d), {"dtdevs", "iomems", "irqs"}, cMax) <=> ReadHWConfig(d) \in VMHWConfig
  /\ \A x \in VMHWConfig : IsHWConfig(x) /\ ReadHWConfig(x) = x
<1>1. ASSUME NEW d, IsHWConfig(d)
      PROVE  TablesFit(ReadHWConfig(d), {"dtdevs", "iomems", "irqs"}, cMax) <=> ReadHWConfig(d) \in VMHWConfig
  <2> DEFINE json == Read(EmptyHWConfig, d)
             hw == ReadHWConfig(d)
  <2>1. /\ "deviceTree" \in DOMAIN d => d.deviceTree \in Text
        /\ "vcpus" \in DOMAIN d => d.vcpus \in Nat
        /\ "memKB" \in DOMAIN d => d.memKB \in Nat
        /\ "dtdevs" \in DOMAIN d => d.dtdevs \in Seq(Text)
        /\ "irqs" \in DOMAIN d => d.irqs \in Seq(Nat)
    BY <1>1 DEF IsHWConfig, Has
  <2>2. /\ json.deviceTree \in Text /\ json.vcpus \in Nat /\ json.memKB \in Nat
        /\ json.dtdevs \in Seq(Text) /\ json.irqs \in Seq(Nat)
    BY <2>1, EmptyTable, TextAssumption DEF Read, EmptyHWConfig
  <2>3. IsArray(json.iomems) /\ \A i \in DOMAIN json.iomems : IsIOMEM(json.iomems[i])
    <3>1. CASE "iomems" \in DOMAIN d
      BY <1>1, <3>1 DEF Read, EmptyHWConfig, IsHWConfig
    <3>2. CASE "iomems" \notin DOMAIN d
      <4>1. json.iomems = <<>>
        BY <3>2 DEF Read, EmptyHWConfig
      <4> QED
        BY <4>1, EmptyIsArray
    <3> QED
      BY <3>1, <3>2
  <2>4. hw = [deviceTree |-> json.deviceTree, vcpus |-> json.vcpus, memKB |-> json.memKB, dtdevs |-> json.dtdevs,
              iomems |-> ReadAll(EmptyIOMEM, json.iomems), irqs |-> json.irqs]
    BY DEF ReadHWConfig
  <2> HIDE DEF json, hw
  <2>5. ReadAll(EmptyIOMEM, json.iomems) \in Seq(IOMEM)
    BY <2>3, IOMEMRead, ArrayRead
  <2>6. TablesFit(hw, {"dtdevs", "iomems", "irqs"}, cMax) <=>
          Len(hw.dtdevs) <= cMax /\ Len(hw.iomems) <= cMax /\ Len(hw.irqs) <= cMax
    BY DEF TablesFit
  <2>7. hw \in VMHWConfig <=>
          hw.dtdevs \in Texts /\ hw.iomems \in Bounded(IOMEM, cMax) /\ hw.irqs \in Bounded(Nat, cMax)
    BY <2>2, <2>4 DEF VMHWConfig
  <2> QED
    BY <2>2, <2>4, <2>5, <2>6, <2>7 DEF Texts, Bounded, hw
<1>2. ASSUME NEW x \in VMHWConfig PROVE IsHWConfig(x) /\ ReadHWConfig(x) = x
  <2>1. x.iomems \in Seq(IOMEM) /\ x.dtdevs \in Seq(Text) /\ x.irqs \in Seq(Nat)
    BY DEF VMHWConfig, Texts, Bounded
  <2>2. IsArray(x.iomems) /\ \A i \in DOMAIN x.iomems : IsIOMEM(x.iomems[i])
    BY <2>1, SeqIsArray, IOMEMRead
  <2>3. ReadAll(EmptyIOMEM, x.iomems) = x.iomems
    BY <2>1, IOMEMRead, SameArrayRead
  <2>4. Read(EmptyHWConfig, x) = x
    BY DEF Read, EmptyHWConfig, VMHWConfig
  <2>5. ReadHWConfig(x) = x
    BY <2>3, <2>4 DEF ReadHWConfig, VMHWConfig
  <2>6. IsHWConfig(x)
    BY <2>1, <2>2 DEF IsHWConfig, Has, VMHWConfig
  <2> QED
    BY <2>5, <2>6
<1> QED
  BY <1>1, <1>2

(* And a whole machine.                                                    *)
LEMMA VMRead ==
  /\ \A d : IsVM(d) => (VMFits(ReadVM(d)) <=> ReadVM(d) \in VM)
  /\ \A x \in VM : IsVM(x) /\ ReadVM(x) = x
<1>1. ASSUME NEW d, IsVM(d) PROVE VMFits(ReadVM(d)) <=> ReadVM(d) \in VM
  <2> DEFINE json == Read(EmptyVM, d)
             vm == ReadVM(d)
  <2>1. IsHypervisor(json.hypervisor) /\ IsHypervisor(json.kernel) /\ IsHWConfig(json.hwConfig)
    <3>1. IsHypervisor(EmptyHypervisor) /\ IsHWConfig(EmptyHWConfig)
      BY EmptyHypervisorType, HypervisorRead, EmptyHWConfigType, HWConfigRead
    <3> QED
      BY <1>1, <3>1 DEF IsVM, Read, EmptyVM
  <2>2. vm = [hypervisor |-> Read(EmptyHypervisor, json.hypervisor), kernel |-> Read(EmptyHypervisor, json.kernel),
              hwConfig |-> ReadHWConfig(json.hwConfig)]
    BY DEF ReadVM
  <2> HIDE DEF json, vm
  <2>3. vm \in VM <=> vm.hypervisor \in VMHypervisor /\ vm.kernel \in VMHypervisor /\ vm.hwConfig \in VMHWConfig
    BY <2>2 DEF VM
  <2> QED
    BY <2>1, <2>2, <2>3, HypervisorRead, HWConfigRead DEF VMFits, vm
<1>2. ASSUME NEW x \in VM PROVE IsVM(x) /\ ReadVM(x) = x
  <2>1. /\ x.hypervisor \in VMHypervisor /\ x.kernel \in VMHypervisor /\ x.hwConfig \in VMHWConfig
        /\ x = [hypervisor |-> x.hypervisor, kernel |-> x.kernel, hwConfig |-> x.hwConfig]
    BY DEF VM
  <2>2. Read(EmptyVM, x) = x
    BY <2>1 DEF Read, EmptyVM
  <2> QED
    BY <2>1, <2>2, HypervisorRead, HWConfigRead DEF IsVM, ReadVM
<1> QED
  BY <1>1, <1>2

(* The parser gives a machine whose tables fit, or an error.               *)
LEMMA RuntimeParsed ==
  ASSUME NEW doc, IsRuntimeSpec(doc)
  PROVE  LET json == Read(EmptyRuntimeJSON, doc) IN
         /\ json.ociVersion \in Text
         /\ \A f \in {"ociVersion", "vm"} \intersect DOMAIN doc : json[f] = doc[f]
         /\ ParseRuntimeSpec(doc) =
              IF ReadVM(json.vm) \in VM THEN <<[ociVersion |-> json.ociVersion, vm |-> ReadVM(json.vm)]>> ELSE Error
         /\ <<[ociVersion |-> json.ociVersion, vm |-> ReadVM(json.vm)]>> # Error
<1> DEFINE json == Read(EmptyRuntimeJSON, doc)
<1>1. json.ociVersion \in Text
  <2>1. "ociVersion" \in DOMAIN doc => doc.ociVersion \in Text
    BY DEF IsRuntimeSpec, Has
  <2> QED
    BY <2>1, TextAssumption DEF Read, EmptyRuntimeJSON
<1>2. \A f \in {"ociVersion", "vm"} \intersect DOMAIN doc : json[f] = doc[f]
  BY DEF Read, EmptyRuntimeJSON
<1>3. IsVM(json.vm)
  BY EmptyVMType, VMRead DEF IsRuntimeSpec, Read, EmptyRuntimeJSON
<1>4. ParseRuntimeSpec(doc) =
        IF VMFits(ReadVM(json.vm)) THEN <<[ociVersion |-> json.ociVersion, vm |-> ReadVM(json.vm)]>> ELSE Error
  BY DEF ParseRuntimeSpec
<1>5. <<[ociVersion |-> json.ociVersion, vm |-> ReadVM(json.vm)]>> # Error
  BY DEF Error
<1> HIDE DEF json
<1> QED
  BY <1>1, <1>2, <1>3, <1>4, <1>5, VMRead DEF json

(* What a load makes of the document.                                      *)
LEMMA RuntimeLoaded ==
  ASSUME NEW doc, IsRuntimeSpec(doc), NEW x
  PROVE  LET json == Read(EmptyRuntimeJSON, doc)
             vm   == IF "vm" \in DOMAIN doc THEN <<ReadVM(json.vm)>> ELSE x.vm
         IN  /\ LoadRuntimeSpec(doc, x) =
                  IF ReadVM(json.vm) \in VM
                    THEN <<[ociVersion |-> json.ociVersion, vm |-> vm, rest |-> x.rest]>> ELSE Error
             /\ <<[ociVersion |-> json.ociVersion, vm |-> vm, rest |-> x.rest]>> # Error
<1> DEFINE json == Read(EmptyRuntimeJSON, doc)
           read == ReadVM(json.vm)
<1>1. /\ ParseRuntimeSpec(doc) = IF read \in VM THEN <<[ociVersion |-> json.ociVersion, vm |-> read]>> ELSE Error
      /\ <<[ociVersion |-> json.ociVersion, vm |-> read]>> # Error
  BY RuntimeParsed
<1> HIDE DEF json, read
<1>2. CASE read \in VM
  <2>1. /\ ParseRuntimeSpec(doc) # Error
        /\ ParseRuntimeSpec(doc)[1].ociVersion = json.ociVersion /\ ParseRuntimeSpec(doc)[1].vm = read
    BY <1>1, <1>2
  <2> QED
    BY <1>2, <2>1 DEF LoadRuntimeSpec, Error, json, read
<1>3. CASE read \notin VM
  BY <1>1, <1>3 DEF LoadRuntimeSpec, Error, json, read
<1> QED
  BY <1>2, <1>3

(* A load keeps the tables of the machine within their bounds.             *)
LEMMA RuntimeLoads ==
  ASSUME NEW doc, IsRuntimeSpec(doc), NEW x \in RuntimeSpec, LoadRuntimeSpec(doc, x) # Error
  PROVE  LoadRuntimeSpec(doc, x)[1] \in RuntimeSpec
<1> DEFINE json == Read(EmptyRuntimeJSON, doc)
           vm == IF "vm" \in DOMAIN doc THEN <<ReadVM(json.vm)>> ELSE x.vm
<1>1. /\ ReadVM(json.vm) \in VM
      /\ LoadRuntimeSpec(doc, x) = <<[ociVersion |-> json.ociVersion, vm |-> vm, rest |-> x.rest]>>
  BY RuntimeLoaded
<1>2. json.ociVersion \in Text
  BY RuntimeParsed
<1> HIDE DEF json
<1>3. vm \in Bounded(VM, 1) /\ x.rest \in Text
  BY <1>1 DEF RuntimeSpec, Bounded
<1> HIDE DEF vm
<1> QED
  BY <1>1, <1>2, <1>3 DEF RuntimeSpec

(* A machine that is saved is loaded as it was.                            *)
LEMMA RuntimeComesBack ==
  ASSUME NEW x \in RuntimeSpec
  PROVE  /\ IsRuntimeSpec(SaveRuntimeSpec(x))
         /\ LoadRuntimeSpec(SaveRuntimeSpec(x), EmptyRuntimeSpec) = <<Normal("runtime", x)>>
<1> DEFINE vm == IF x.vm = <<>> THEN EmptyVM ELSE x.vm[1]
           doc == SaveRuntimeSpec(x)
           json == Read(EmptyRuntimeJSON, doc)
<1>1. x.vm # <<>> => x.vm = <<x.vm[1]>> /\ x.vm[1] \in VM
  BY DEF RuntimeSpec, Bounded
<1>2. vm \in VM /\ x.ociVersion \in Text
  BY <1>1, EmptyVMType DEF RuntimeSpec
<1>3. doc = [ociVersion |-> x.ociVersion, vm |-> vm]
  BY DEF SaveRuntimeSpec
<1>4. Normal("runtime", x) = [ociVersion |-> x.ociVersion, vm |-> <<vm>>, rest |-> ""]
  BY <1>1 DEF Normal
<1> HIDE DEF vm, doc
<1>5. IsRuntimeSpec(doc)
  BY <1>2, <1>3, VMRead DEF IsRuntimeSpec, Has
<1>6. json.ociVersion = x.ociVersion /\ json.vm = vm /\ ReadVM(json.vm) = vm /\ "vm" \in DOMAIN doc
  BY <1>2, <1>3, VMRead DEF Read, EmptyRuntimeJSON
<1>7. EmptyRuntimeSpec.rest = ""
  BY DEF EmptyRuntimeSpec
<1> QED
  BY <1>2, <1>4, <1>5, <1>6, <1>7, RuntimeLoaded DEF doc

(* The fields of a machine, those of its hardware among them, are read.    *)
LEMMA VMIsKept ==
  ASSUME NEW d, IsVM(d)
  PROVE  VMKept(d, ReadVM(d))
<1> DEFINE json == Read(EmptyVM, d)
<1>1. \A f \in {"hypervisor", "kernel", "hwConfig"} \intersect DOMAIN d : json[f] = d[f]
  BY DEF Read, EmptyVM
<1>2. /\ ReadVM(d).hypervisor = Read(EmptyHypervisor, json.hypervisor)
      /\ ReadVM(d).kernel = Read(EmptyHypervisor, json.kernel)
      /\ ReadVM(d).hwConfig = ReadHWConfig(json.hwConfig)
  BY DEF ReadVM
<1> HIDE DEF json
<1>3. ASSUME NEW f \in {"hypervisor", "kernel"} \intersect DOMAIN d
      PROVE  Kept(d[f], ReadVM(d)[f], DOMAIN EmptyHypervisor)
  <2>1. ReadVM(d)[f] = Read(EmptyHypervisor, d[f])
    BY <1>1, <1>2
  <2> QED
    BY <2>1, ReadKeeps
<1>4. ASSUME "hwConfig" \in DOMAIN d PROVE HWConfigKept(d.hwConfig, ReadVM(d).hwConfig)
  <2> DEFINE old == d.hwConfig
             read == Read(EmptyHWConfig, old)
             new == ReadVM(d).hwConfig
  <2>1. new = ReadHWConfig(old)
    BY <1>1, <1>2, <1>4
  <2>2. /\ \A f \in {"deviceTree", "vcpus", "memKB", "dtdevs", "irqs"} : new[f] = read[f]
        /\ new.iomems = ReadAll(EmptyIOMEM, read.iomems)
    BY <2>1 DEF ReadHWConfig
  <2>3. \A f \in {"deviceTree", "vcpus", "memKB", "dtdevs", "irqs", "iomems"} \intersect DOMAIN old : read[f] = old[f]
    BY DEF Read, EmptyHWConfig
  <2>4. "iomems" \in DOMAIN old => IsArray(old.iomems)
    BY <1>4 DEF IsVM, IsHWConfig
  <2> HIDE DEF old, read, new
  <2>5. "iomems" \in DOMAIN old => AllKept(old.iomems, new.iomems, DOMAIN EmptyIOMEM)
    BY <2>2, <2>3, <2>4, ArrayReadKeeps
  <2>6. Kept(old, new, {"deviceTree", "vcpus", "memKB", "dtdevs", "irqs"})
    BY <2>2, <2>3 DEF Kept
  <2> QED
    BY <2>5, <2>6 DEF HWConfigKept, old, new
<1> QED
  BY <1>3, <1>4 DEF VMKept

(* A machine that others wrote is saved with the fields that it had.       *)
LEMMA RuntimeIsKept ==
  ASSUME NEW doc, IsRuntimeSpec(doc), LoadRuntimeSpec(doc, EmptyRuntimeSpec) # Error
  PROVE  RuntimeKept(doc, SaveRuntimeSpec(LoadRuntimeSpec(doc, EmptyRuntimeSpec)[1]))
<1> DEFINE json == Read(EmptyRuntimeJSON, doc)
           vm == IF "vm" \in DOMAIN doc THEN <<ReadVM(json.vm)>> ELSE EmptyRuntimeSpec.vm
           y == [ociVersion |-> json.ociVersion, vm |-> vm, rest |-> EmptyRuntimeSpec.rest]
           new == SaveRuntimeSpec(y)
<1>1. LoadRuntimeSpec(doc, EmptyRuntimeSpec)[1] = y
  <2>1. LoadRuntimeSpec(doc, EmptyRuntimeSpec) = <<y>>
    BY RuntimeLoaded
  <2> HIDE DEF y
  <2> QED
    BY <2>1
<1>2. \A f \in {"ociVersion", "vm"} \intersect DOMAIN doc : json[f] = doc[f]
  BY RuntimeParsed
<1> HIDE DEF json
<1>3. new.ociVersion = json.ociVersion
  BY DEF SaveRuntimeSpec
<1>4. "vm" \in DOMAIN doc => new.vm = ReadVM(json.vm)
  BY DEF SaveRuntimeSpec
<1> HIDE DEF vm, y, new
<1>5. "vm" \in DOMAIN doc => VMKept(doc.vm, new.vm)
  BY <1>2, <1>4, VMIsKept DEF IsRuntimeSpec
<1>6. Kept(doc, new, {"ociVersion"})
  BY <1>2, <1>3 DEF Kept
<1> QED
  BY <1>1, <1>5, <1>6 DEF RuntimeKept, new

-----------------------------------------------------------------------------
(* The configuration of a service.                                         *)

(* A load keeps the table of the runners within its bound.                 *)
LEMMA ServiceLoads ==
  ASSUME NEW doc, IsServiceConfig(doc), NEW x \in ServiceConfig, LoadServiceConfig(doc, x) # Error
  PROVE  LoadServiceConfig(doc, x)[1] \in ServiceConfig
<1> DEFINE json == Read(EmptyServiceConfig, doc)
<1>1. json.runners \in Seq(Text)
  <2>1. doc.runners \in Seq(Text) /\ "runners" \in DOMAIN doc
    BY DEF IsServiceConfig, Needs, Has
  <2> QED
    BY <2>1 DEF Read, EmptyServiceConfig
<1>2. x.runners \in Seq(Text)
  BY DEF ServiceConfig, Texts, Bounded
<1>3. /\ CanPush(x.runners, json.runners, cMax)
      /\ LoadServiceConfig(doc, x) = <<[runners |-> x.runners \o json.runners]>>
  BY DEF LoadServiceConfig
<1> HIDE DEF json
<1>4. x.runners \o json.runners \in Bounded(Text, cMax)
  BY <1>1, <1>2, <1>3, PushKeepsBound, DevicesAssumption
<1> QED
  BY <1>3, <1>4 DEF ServiceConfig, Texts

-----------------------------------------------------------------------------
(* The configuration of the node: devices.                                 *)

(* A table that is resized has elements of its type.                       *)
LEMMA ResizedElements ==
  ASSUME NEW S, NEW a \in Seq(S), NEW n \in Nat, NEW empty \in S
  PROVE  \A i \in 1..n : Resized(a, n, empty)[i] \in S
<1>1. Len(a) \in Nat /\ \A i \in 1..Len(a) : a[i] \in S
  OBVIOUS
<1>2. ASSUME NEW i \in 1..n PROVE Resized(a, n, empty)[i] = IF i <= Len(a) THEN a[i] ELSE empty
  BY DEF Resized
<1>3. \A i \in 1..n : i <= Len(a) => i \in 1..Len(a)
  BY <1>1
<1> QED
  BY <1>1, <1>2, <1>3

(* A table that is resized from nothing has empty elements.                *)
LEMMA ResizedNew ==
  ASSUME NEW n \in Nat, NEW empty
  PROVE  \A i \in 1..n : Resized(<<>>, n, empty)[i] = empty
<1>1. Len(<<>>) = 0 /\ \A i \in 1..n : ~(i <= 0)
  OBVIOUS
<1> QED
  BY <1>1 DEF Resized

(* The element i of what is filled.                                        *)
FilledElement(in, out, F) ==
  [f \in DOMAIN in |-> IF f \in F THEN out[f] \o in[f] ELSE in[f]]

(* A table whose elements are filled is one of the type they have then.    *)
LEMMA FilledTable ==
  ASSUME NEW R, NEW in \in Seq(R), NEW out, NEW F, NEW S,
         \A i \in 1..Len(in) : FilledElement(in[i], out[i], F) \in S
  PROVE  /\ Filled(in, out, F) \in Seq(S) /\ Len(Filled(in, out, F)) = Len(in)
         /\ \A i \in 1..Len(in) : Filled(in, out, F)[i] = FilledElement(in[i], out[i], F)
<1>1. DOMAIN in = 1..Len(in) /\ Len(in) \in Nat
  BY LenProperties
<1>2. Filled(in, out, F) = [i \in 1..Len(in) |-> FilledElement(in[i], out[i], F)]
  BY <1>1 DEF Filled, FilledElement
<1>3. Filled(in, out, F) \in [1..Len(in) -> S]
  BY <1>2
<1> QED
  BY <1>1, <1>2, <1>3, TableIsSeq

(* The device that a resized table has at its end.                         *)
LEMMA EmptyDeviceType == EmptyDevice \in DeviceInfo
<1>1. <<>> \in Seq(Text) /\ Len(<<>>) <= cMax /\ Len(<<>>) <= cMaxNumHostDevices
  BY DevicesAssumption
<1> QED
  BY <1>1, TextAssumption DEF EmptyDevice, DeviceInfo, Texts, Bounded

(* The names of a device are appended to, those of an empty one are new.   *)
LEMMA DeviceFilled ==
  ASSUME NEW in \in DeviceInfo, NEW out \in DeviceInfo,
         CanPush(out.groups, in.groups, cMax), CanPush(out.hostDevices, in.hostDevices, cMaxNumHostDevices)
  PROVE  FilledElement(in, out, {"groups", "hostDevices"}) \in DeviceInfo
<1> DEFINE groups == out.groups \o in.groups
           hostDevices == out.hostDevices \o in.hostDevices
           y == FilledElement(in, out, {"groups", "hostDevices"})
<1>1. /\ in.groups \in Seq(Text) /\ in.hostDevices \in Seq(Text) /\ in.name \in Text /\ in.sharedCount \in Nat
      /\ DOMAIN in = {"name", "sharedCount", "groups", "hostDevices"}
  BY DEF DeviceInfo, Texts, Bounded
<1>2. out.groups \in Seq(Text) /\ out.hostDevices \in Seq(Text)
  BY DEF DeviceInfo, Texts, Bounded
<1>3. groups \in Bounded(Text, cMax) /\ hostDevices \in Bounded(Text, cMaxNumHostDevices)
  BY <1>1, <1>2, PushKeepsBound, DevicesAssumption
<1>4. /\ y = [f \in {"name", "sharedCount", "groups", "hostDevices"} |-> y[f]]
      /\ y["groups"] = groups /\ y["hostDevices"] = hostDevices
      /\ y["name"] = in.name /\ y["sharedCount"] = in.sharedCount
  BY <1>1 DEF FilledElement
<1> HIDE DEF y, groups, hostDevices
<1>5. y = [name |-> in.name, sharedCount |-> in.sharedCount, groups |-> groups, hostDevices |-> hostDevices]
  BY <1>4
<1> QED
  BY <1>1, <1>3, <1>5 DEF DeviceInfo, Texts, y

(* A device that fills an empty one is as it was.                          *)
LEMMA DeviceFilledNew ==
  ASSUME NEW in \in DeviceInfo
  PROVE  /\ CanPush(EmptyDevice.groups, in.groups, cMax)
         /\ CanPush(EmptyDevice.hostDevices, in.hostDevices, cMaxNumHostDevices)
         /\ FilledElement(in, EmptyDevice, {"groups", "hostDevices"}) = in
<1> DEFINE y == FilledElement(in, EmptyDevice, {"groups", "hostDevices"})
<1>1. /\ in.groups \in Seq(Text) /\ in.hostDevices \in Seq(Text)
      /\ Len(in.groups) <= cMax /\ Len(in.hostDevices) <= cMaxNumHostDevices
      /\ DOMAIN in = {"name", "sharedCount", "groups", "hostDevices"}
      /\ in = [f \in {"name", "sharedCount", "groups", "hostDevices"} |-> in[f]]
  BY DEF DeviceInfo, Texts, Bounded
<1>2. EmptyDevice.groups = <<>> /\ EmptyDevice.hostDevices = <<>>
  BY DEF EmptyDevice
<1>3. <<>> \o in.groups = in.groups /\ <<>> \o in.hostDevices = in.hostDevices
  BY <1>1, PushToEmpty, DevicesAssumption
<1>4. /\ y = [f \in {"name", "sharedCount", "groups", "hostDevices"} |-> y[f]]
      /\ \A f \in {"name", "sharedCount", "groups", "hostDevices"} : y[f] = in[f]
  BY <1>1, <1>2, <1>3 DEF FilledElement
<1> HIDE DEF y
<1>5. y = in
  BY <1>1, <1>4
<1> QED
  BY <1>1, <1>2, <1>5, PushToEmpty, DevicesAssumption DEF y

(* A load keeps the tables of the devices within their bounds.             *)
LEMMA DevicesFilled ==
  ASSUME NEW in \in Seq(DeviceInfo), NEW devices \in Seq(DeviceInfo), FillDevices(in, devices) # Error
  PROVE  FillDevices(in, devices)[1] \in Bounded(DeviceInfo, cMaxNumNodeDevices)
<1> DEFINE F == {"groups", "hostDevices"}
           out == Resized(devices, Len(in), EmptyDevice)
<1>1. Len(in) \in Nat /\ DOMAIN in = 1..Len(in) /\ \A i \in 1..Len(in) : in[i] \in DeviceInfo
  BY LenProperties, ElementOfSeq
<1>2. \A i \in 1..Len(in) : out[i] \in DeviceInfo
  BY <1>1, EmptyDeviceType, ResizedElements
<1>3. /\ Len(in) <= cMaxNumNodeDevices
      /\ CanFill(in, out, {"groups"}, cMax) /\ CanFill(in, out, {"hostDevices"}, cMaxNumHostDevices)
      /\ FillDevices(in, devices) = <<Filled(in, out, F)>>
  BY DEF FillDevices
<1> HIDE DEF out
<1>4. \A i \in 1..Len(in) : /\ CanPush(out[i].groups, in[i].groups, cMax)
                            /\ CanPush(out[i].hostDevices, in[i].hostDevices, cMaxNumHostDevices)
  BY <1>1, <1>3 DEF CanFill
<1>5. \A i \in 1..Len(in) : FilledElement(in[i], out[i], F) \in DeviceInfo
  BY <1>1, <1>2, <1>4, DeviceFilled
<1>6. Filled(in, out, F) \in Seq(DeviceInfo) /\ Len(Filled(in, out, F)) = Len(in)
  BY <1>5, FilledTable
<1> QED
  BY <1>3, <1>6 DEF Bounded

(* Into a new configuration the devices are brought as they are.           *)
LEMMA DevicesFilledNew ==
  ASSUME NEW in \in Seq(DeviceInfo), Len(in) <= cMaxNumHostDevices
  PROVE  FillDevices(in, <<>>) = <<in>> /\ <<in>> # Error
<1> DEFINE F == {"groups", "hostDevices"}
           out == Resized(<<>>, Len(in), EmptyDevice)
<1>1. Len(in) \in Nat /\ DOMAIN in = 1..Len(in) /\ \A i \in 1..Len(in) : in[i] \in DeviceInfo
  BY LenProperties, ElementOfSeq
<1>2. \A i \in 1..Len(in) : out[i] = EmptyDevice
  BY <1>1, ResizedNew
<1>3. Len(in) <= cMaxNumNodeDevices
  BY <1>1, DevicesAssumption
<1> HIDE DEF out
<1>4. CanFill(in, out, {"groups"}, cMax) /\ CanFill(in, out, {"hostDevices"}, cMaxNumHostDevices)
  BY <1>1, <1>2, DeviceFilledNew DEF CanFill
<1>5. \A i \in 1..Len(in) : FilledElement(in[i], out[i], F) = in[i]
  BY <1>1, <1>2, DeviceFilledNew
<1>6. /\ Filled(in, out, F) \in Seq(DeviceInfo) /\ Len(Filled(in, out, F)) = Len(in)
      /\ \A i \in 1..Len(in) : Filled(in, out, F)[i] = in[i]
  BY <1>1, <1>5, FilledTable
<1>7. Filled(in, out, F) = in
  BY <1>6, SameElements
<1> QED
  BY <1>3, <1>4, <1>7 DEF FillDevices, out, Error

(* Writing devices leaves nothing out.                                     *)
LEMMA DevicesWritten ==
  ASSUME NEW devices \in Seq(DeviceInfo)
  PROVE  JSONDevices(devices) = devices
<1>1. Len(devices) \in Nat /\ DOMAIN devices = 1..Len(devices) /\ \A i \in 1..Len(devices) : devices[i] \in DeviceInfo
  BY LenProperties, ElementOfSeq
<1>2. \A x \in DeviceInfo : x = [name |-> x.name, sharedCount |-> x.sharedCount, groups |-> x.groups,
                                 hostDevices |-> x.hostDevices]
  BY DEF DeviceInfo
<1>3. JSONDevices(devices) = [i \in 1..Len(devices) |-> devices[i]]
  BY <1>1, <1>2 DEF JSONDevices
<1> QED
  BY <1>1, <1>3, LenProperties

-----------------------------------------------------------------------------
(* The configuration of the node: resources.                               *)

(* The members of a resource.                                              *)
LEMMA ResourceInfoType ==
  ResourceInfo = [name : Text, groups : Bounded(Text, cMax), mounts : Bounded(FileSystemMount, cMax),
                  env : Bounded(Text, cMax), hosts : Bounded(Host, cMax)]
  BY DEF ResourceInfo, Texts

(* The members of a mount.                                                 *)
LEMMA FileSystemMountType ==
  FileSystemMount = [destination : Text, source : Text, type : Text, options : Bounded(Text, cMax)]
  BY DEF FileSystemMount, Texts

(* The mount that a resized table has at its end.                          *)
LEMMA EmptyMountType == EmptyMount \in FileSystemMount
<1>1. <<>> \in Seq(Text) /\ Len(<<>>) <= cMax
  BY DevicesAssumption
<1> QED
  BY <1>1, TextAssumption, FileSystemMountType DEF EmptyMount, Bounded

(* The resource that a resized table has at its end.                       *)
LEMMA EmptyResourceType == EmptyResource \in ResourceInfo
<1>1. /\ <<>> \in Seq(Text) /\ <<>> \in Seq(FileSystemMount) /\ <<>> \in Seq(Host)
      /\ Len(<<>>) <= cMax
  BY DevicesAssumption
<1> QED
  BY <1>1, TextAssumption, ResourceInfoType DEF EmptyResource, Bounded

(* The options of a mount are appended to, those of an empty one are new.  *)
LEMMA MountFilled ==
  ASSUME NEW in \in FileSystemMount, NEW out \in FileSystemMount, CanPush(out.options, in.options, cMax)
  PROVE  FilledElement(in, out, {"options"}) \in FileSystemMount
<1> DEFINE options == out.options \o in.options
           y == FilledElement(in, out, {"options"})
<1>1. /\ in.options \in Seq(Text) /\ in.destination \in Text /\ in.source \in Text /\ in.type \in Text
      /\ DOMAIN in = {"destination", "source", "type", "options"}
  BY FileSystemMountType DEF Bounded
<1>2. out.options \in Seq(Text)
  BY FileSystemMountType DEF Bounded
<1>3. options \in Bounded(Text, cMax)
  BY <1>1, <1>2, PushKeepsBound, DevicesAssumption
<1>4. /\ y = [f \in {"destination", "source", "type", "options"} |-> y[f]]
      /\ y["options"] = options
      /\ y["destination"] = in.destination /\ y["source"] = in.source /\ y["type"] = in.type
  BY <1>1 DEF FilledElement
<1> HIDE DEF y, options
<1>5. y = [destination |-> in.destination, source |-> in.source, type |-> in.type, options |-> options]
  BY <1>4
<1> QED
  BY <1>1, <1>3, <1>5, FileSystemMountType DEF y

(* A mount that fills an empty one is as it was.                           *)
LEMMA MountFilledNew ==
  ASSUME NEW in \in FileSystemMount
  PROVE  /\ CanPush(EmptyMount.options, in.options, cMax)
         /\ FilledElement(in, EmptyMount, {"options"}) = in
<1> DEFINE y == FilledElement(in, EmptyMount, {"options"})
<1>1. /\ in.options \in Seq(Text) /\ Len(in.options) <= cMax
      /\ DOMAIN in = {"destination", "source", "type", "options"}
      /\ in = [f \in {"destination", "source", "type", "options"} |-> in[f]]
  BY FileSystemMountType DEF Bounded
<1>2. EmptyMount.options = <<>>
  BY DEF EmptyMount
<1>3. <<>> \o in.options = in.options
  BY <1>1, PushToEmpty, DevicesAssumption
<1>4. /\ y = [f \in {"destination", "source", "type", "options"} |-> y[f]]
      /\ \A f \in {"destination", "source", "type", "options"} : y[f] = in[f]
  BY <1>1, <1>2, <1>3 DEF FilledElement
<1> HIDE DEF y
<1>5. y = in
  BY <1>1, <1>4
<1> QED
  BY <1>1, <1>2, <1>5, PushToEmpty, DevicesAssumption DEF y

(* The mounts of a resource, filled one by one.                            *)
LEMMA MountsFilled ==
  ASSUME NEW in \in Bounded(FileSystemMount, cMax), NEW old \in Bounded(FileSystemMount, cMax),
         CanFill(in, Resized(old, Len(in), EmptyMount), {"options"}, cMax)
  PROVE  Filled(in, Resized(old, Len(in), EmptyMount), {"options"}) \in Bounded(FileSystemMount, cMax)
<1> DEFINE out == Resized(old, Len(in), EmptyMount)
<1>1. /\ in \in Seq(FileSystemMount) /\ old \in Seq(FileSystemMount) /\ Len(in) <= cMax
      /\ Len(in) \in Nat /\ DOMAIN in = 1..Len(in) /\ \A i \in 1..Len(in) : in[i] \in FileSystemMount
  BY LenProperties, ElementOfSeq DEF Bounded
<1>2. \A i \in 1..Len(in) : out[i] \in FileSystemMount
  BY <1>1, EmptyMountType, ResizedElements
<1> HIDE DEF out
<1>3. \A i \in 1..Len(in) : CanPush(out[i].options, in[i].options, cMax)
  BY <1>1 DEF CanFill, out
<1>4. \A i \in 1..Len(in) : FilledElement(in[i], out[i], {"options"}) \in FileSystemMount
  BY <1>1, <1>2, <1>3, MountFilled
<1>5. Filled(in, out, {"options"}) \in Seq(FileSystemMount) /\ Len(Filled(in, out, {"options"})) = Len(in)
  BY <1>1, <1>4, FilledTable
<1> QED
  BY <1>1, <1>5 DEF Bounded, out

(* Mounts that fill empty ones are as they were.                           *)
LEMMA MountsFilledNew ==
  ASSUME NEW in \in Bounded(FileSystemMount, cMax)
  PROVE  /\ CanFill(in, Resized(<<>>, Len(in), EmptyMount), {"options"}, cMax)
         /\ Filled(in, Resized(<<>>, Len(in), EmptyMount), {"options"}) = in
<1> DEFINE out == Resized(<<>>, Len(in), EmptyMount)
<1>1. /\ in \in Seq(FileSystemMount) /\ Len(in) \in Nat /\ DOMAIN in = 1..Len(in)
      /\ \A i \in 1..Len(in) : in[i] \in FileSystemMount
  BY LenProperties, ElementOfSeq DEF Bounded
<1>2. \A i \in 1..Len(in) : out[i] = EmptyMount
  BY <1>1, ResizedNew
<1> HIDE DEF out
<1>3. CanFill(in, out, {"options"}, cMax)
  BY <1>1, <1>2, MountFilledNew DEF CanFill
<1>4. \A i \in 1..Len(in) : FilledElement(in[i], out[i], {"options"}) = in[i]
  BY <1>1, <1>2, MountFilledNew
<1>5. /\ Filled(in, out, {"options"}) \in Seq(FileSystemMount) /\ Len(Filled(in, out, {"options"})) = Len(in)
      /\ \A i \in 1..Len(in) : Filled(in, out, {"options"})[i] = in[i]
  BY <1>1, <1>4, FilledTable
<1>6. Filled(in, out, {"options"}) = in
  BY <1>1, <1>5, SameElements
<1> QED
  BY <1>3, <1>6 DEF out

(* The names of a resource are appended to, those of an empty one are new. *)
LEMMA ResourceFilled ==
  ASSUME NEW in \in ResourceInfo, NEW out \in ResourceInfo,
         CanPush(out.groups, in.groups, cMax), CanPush(out.env, in.env, cMax)
  PROVE  FilledElement(in, out, {"groups", "env"}) \in ResourceInfo
<1> DEFINE groups == out.groups \o in.groups
           env == out.env \o in.env
           y == FilledElement(in, out, {"groups", "env"})
<1>1. /\ in.groups \in Seq(Text) /\ in.env \in Seq(Text) /\ in.name \in Text
      /\ in.mounts \in Bounded(FileSystemMount, cMax) /\ in.hosts \in Bounded(Host, cMax)
      /\ DOMAIN in = {"name", "groups", "mounts", "env", "hosts"}
  BY ResourceInfoType DEF Bounded
<1>2. out.groups \in Seq(Text) /\ out.env \in Seq(Text)
  BY ResourceInfoType DEF Bounded
<1>3. groups \in Bounded(Text, cMax) /\ env \in Bounded(Text, cMax)
  BY <1>1, <1>2, PushKeepsBound, DevicesAssumption
<1>4. /\ y = [f \in {"name", "groups", "mounts", "env", "hosts"} |-> y[f]]
      /\ y["groups"] = groups /\ y["env"] = env
      /\ y["name"] = in.name /\ y["mounts"] = in.mounts /\ y["hosts"] = in.hosts
  BY <1>1 DEF FilledElement
<1> HIDE DEF y, groups, env
<1>5. y = [name |-> in.name, groups |-> groups, mounts |-> in.mounts, env |-> env, hosts |-> in.hosts]
  BY <1>4
<1> QED
  BY <1>1, <1>3, <1>5, ResourceInfoType DEF y

(* A resource that fills an empty one is as it was, but for its mounts.    *)
LEMMA ResourceFilledNew ==
  ASSUME NEW in \in ResourceInfo
  PROVE  /\ CanPush(EmptyResource.groups, in.groups, cMax) /\ CanPush(EmptyResource.env, in.env, cMax)
         /\ FilledElement(in, EmptyResource, {"groups", "env"}) = in
<1> DEFINE y == FilledElement(in, EmptyResource, {"groups", "env"})
<1>1. /\ in.groups \in Seq(Text) /\ in.env \in Seq(Text) /\ Len(in.groups) <= cMax /\ Len(in.env) <= cMax
      /\ DOMAIN in = {"name", "groups", "mounts", "env", "hosts"}
      /\ in = [f \in {"name", "groups", "mounts", "env", "hosts"} |-> in[f]]
  BY ResourceInfoType DEF Bounded
<1>2. EmptyResource.groups = <<>> /\ EmptyResource.env = <<>>
  BY DEF EmptyResource
<1>3. <<>> \o in.groups = in.groups /\ <<>> \o in.env = in.env
  BY <1>1, PushToEmpty, DevicesAssumption
<1>4. /\ y = [f \in {"name", "groups", "mounts", "env", "hosts"} |-> y[f]]
      /\ \A f \in {"name", "groups", "mounts", "env", "hosts"} : y[f] = in[f]
  BY <1>1, <1>2, <1>3 DEF FilledElement
<1> HIDE DEF y
<1>5. y = in
  BY <1>1, <1>4
<1> QED
  BY <1>1, <1>2, <1>5, PushToEmpty, DevicesAssumption DEF y

(* The mounts of a resource are replaced by what they have become.         *)
LEMMA MountsReplaced ==
  ASSUME NEW x \in ResourceInfo, NEW mounts \in Bounded(FileSystemMount, cMax)
  PROVE  /\ [x EXCEPT !.mounts = mounts] \in ResourceInfo
         /\ mounts = x.mounts => [x EXCEPT !.mounts = mounts] = x
<1>1. [x EXCEPT !.mounts = mounts] =
        [name |-> x.name, groups |-> x.groups, mounts |-> mounts, env |-> x.env, hosts |-> x.hosts]
  BY ResourceInfoType
<1>2. x = [name |-> x.name, groups |-> x.groups, mounts |-> x.mounts, env |-> x.env, hosts |-> x.hosts]
  BY ResourceInfoType
<1>3. [name |-> x.name, groups |-> x.groups, mounts |-> mounts, env |-> x.env, hosts |-> x.hosts] \in ResourceInfo
  BY ResourceInfoType
<1> QED
  BY <1>1, <1>2, <1>3

(* A load keeps the tables of the resources within their bounds.           *)
LEMMA ResourcesFilled ==
  ASSUME NEW in \in Bounded(ResourceInfo, cMax), NEW resources \in Seq(ResourceInfo),
         FillResources(in, resources) # Error
  PROVE  FillResources(in, resources)[1] \in Bounded(ResourceInfo, cMax)
<1> DEFINE F == {"groups", "env"}
           out == Resized(resources, Len(in), EmptyResource)
           mounts(i) == Resized(out[i].mounts, Len(in[i].mounts), EmptyMount)
           filled == Filled(in, out, F)
           y == [i \in DOMAIN in |-> [filled[i] EXCEPT !.mounts = Filled(in[i].mounts, mounts(i), {"options"})]]
<1>1. /\ in \in Seq(ResourceInfo) /\ Len(in) <= cMax /\ Len(in) \in Nat /\ DOMAIN in = 1..Len(in)
      /\ \A i \in 1..Len(in) : in[i] \in ResourceInfo
  BY LenProperties, ElementOfSeq DEF Bounded
<1>2. \A i \in 1..Len(in) : out[i] \in ResourceInfo
  BY <1>1, EmptyResourceType, ResizedElements
<1>3. /\ CanFill(in, out, F, cMax)
      /\ \A i \in 1..Len(in) : CanFill(in[i].mounts, mounts(i), {"options"}, cMax)
      /\ FillResources(in, resources) = <<y>>
  BY <1>1 DEF FillResources
<1> HIDE DEF out
<1>4. \A i \in 1..Len(in) : CanPush(out[i].groups, in[i].groups, cMax) /\ CanPush(out[i].env, in[i].env, cMax)
  BY <1>1, <1>3 DEF CanFill
<1>5. \A i \in 1..Len(in) : FilledElement(in[i], out[i], F) \in ResourceInfo
  BY <1>1, <1>2, <1>4, ResourceFilled
<1>6. \A i \in 1..Len(in) : filled[i] \in ResourceInfo
  BY <1>1, <1>5, FilledTable
<1>7. \A x \in ResourceInfo : x.mounts \in Bounded(FileSystemMount, cMax)
  BY ResourceInfoType
<1> HIDE DEF filled
<1>8. ASSUME NEW i \in 1..Len(in)
      PROVE  [filled[i] EXCEPT !.mounts = Filled(in[i].mounts, mounts(i), {"options"})] \in ResourceInfo
  <2>1. in[i].mounts \in Bounded(FileSystemMount, cMax) /\ out[i].mounts \in Bounded(FileSystemMount, cMax)
    BY <1>1, <1>2, <1>7
  <2>2. CanFill(in[i].mounts, mounts(i), {"options"}, cMax)
    BY <1>3
  <2>3. Filled(in[i].mounts, mounts(i), {"options"}) \in Bounded(FileSystemMount, cMax)
    BY <2>1, <2>2, MountsFilled
  <2> QED
    BY <1>6, <2>3, MountsReplaced
<1>9. y \in [1..Len(in) -> ResourceInfo]
  BY <1>1, <1>8
<1>10. y \in Bounded(ResourceInfo, cMax)
  <2> HIDE DEF y
  <2> QED
    BY <1>1, <1>9, TableIsSeq DEF Bounded
<1> QED
  BY <1>3, <1>10

(* Into a new configuration the resources are brought as they are.         *)
LEMMA ResourcesFilledNew ==
  ASSUME NEW in \in Bounded(ResourceInfo, cMax)
  PROVE  FillResources(in, <<>>) = <<in>> /\ <<in>> # Error
<1> DEFINE F == {"groups", "env"}
           out == Resized(<<>>, Len(in), EmptyResource)
           mounts(i) == Resized(out[i].mounts, Len(in[i].mounts), EmptyMount)
           filled == Filled(in, out, F)
           y == [i \in DOMAIN in |-> [filled[i] EXCEPT !.mounts = Filled(in[i].mounts, mounts(i), {"options"})]]
<1>1. /\ in \in Seq(ResourceInfo) /\ Len(in) \in Nat /\ DOMAIN in = 1..Len(in)
      /\ \A i \in 1..Len(in) : in[i] \in ResourceInfo
  BY LenProperties, ElementOfSeq DEF Bounded
<1>2. \A i \in 1..Len(in) : out[i] = EmptyResource
  BY <1>1, ResizedNew
<1> HIDE DEF out
<1>3. CanFill(in, out, F, cMax)
  BY <1>1, <1>2, ResourceFilledNew DEF CanFill
<1>4. \A i \in 1..Len(in) : FilledElement(in[i], out[i], F) = in[i]
  BY <1>1, <1>2, ResourceFilledNew
<1>5. \A i \in 1..Len(in) : filled[i] = in[i]
  BY <1>1, <1>4, FilledTable
<1>6. \A x \in ResourceInfo : x.mounts \in Bounded(FileSystemMount, cMax)
  BY ResourceInfoType
<1>7. EmptyResource.mounts = <<>>
  BY DEF EmptyResource
<1> HIDE DEF filled
<1>8. ASSUME NEW i \in 1..Len(in)
      PROVE  /\ CanFill(in[i].mounts, mounts(i), {"options"}, cMax)
             /\ [filled[i] EXCEPT !.mounts = Filled(in[i].mounts, mounts(i), {"options"})] = in[i]
  <2>1. in[i].mounts \in Bounded(FileSystemMount, cMax) /\ in[i] \in ResourceInfo
    BY <1>1, <1>6
  <2>2. mounts(i) = Resized(<<>>, Len(in[i].mounts), EmptyMount)
    BY <1>2, <1>7
  <2>3. /\ CanFill(in[i].mounts, mounts(i), {"options"}, cMax)
        /\ Filled(in[i].mounts, mounts(i), {"options"}) = in[i].mounts
    BY <2>1, <2>2, MountsFilledNew
  <2>4. [in[i] EXCEPT !.mounts = Filled(in[i].mounts, mounts(i), {"options"})] = in[i]
    BY <2>1, <2>3, MountsReplaced
  <2> QED
    BY <1>5, <2>3, <2>4
<1>9. y = [i \in 1..Len(in) |-> in[i]]
  BY <1>1, <1>8
<1>10. y = in
  <2> HIDE DEF y
  <2> QED
    BY <1>1, <1>9, LenProperties
<1>11. /\ CanFill(in, out, F, cMax)
       /\ \A i \in DOMAIN in : CanFill(in[i].mounts, mounts(i), {"options"}, cMax)
  BY <1>1, <1>3, <1>8
<1>12. FillResources(in, <<>>) = <<y>>
  BY <1>11 DEF FillResources, out, filled
<1> QED
  BY <1>10, <1>12 DEF Error

(* Writing resources leaves nothing out.                                   *)
LEMMA ResourcesWritten ==
  ASSUME NEW resources \in Seq(ResourceInfo)
  PROVE  JSONResources(resources) = resources
<1>1. /\ Len(resources) \in Nat /\ DOMAIN resources = 1..Len(resources)
      /\ \A i \in 1..Len(resources) : resources[i] \in ResourceInfo
  BY LenProperties, ElementOfSeq
<1>2. \A x \in ResourceInfo : x = [name |-> x.name, groups |-> x.groups, mounts |-> x.mounts,
                                   env |-> x.env, hosts |-> x.hosts]
  BY ResourceInfoType
<1>3. JSONResources(resources) = [i \in 1..Len(resources) |-> resources[i]]
  BY <1>1, <1>2 DEF JSONResources
<1> QED
  BY <1>1, <1>3, LenProperties

-----------------------------------------------------------------------------
(* The configuration of the node: what the parser reads.                   *)

(* A device, whatever it lacks, is read as one when its tables fit.        *)
LEMMA DeviceRead ==
  /\ \A d : IsDevice(d) => (DeviceFits(Read(EmptyDevice, d)) => Read(EmptyDevice, d) \in DeviceInfo)
  /\ \A x \in DeviceInfo : IsDevice(x) /\ Read(EmptyDevice, x) = x /\ DeviceFits(x)
<1>1. ASSUME NEW d, IsDevice(d), DeviceFits(Read(EmptyDevice, d)) PROVE Read(EmptyDevice, d) \in DeviceInfo
  <2> DEFINE x == Read(EmptyDevice, d)
  <2>1. /\ "name" \in DOMAIN d => d.name \in Text
        /\ "sharedCount" \in DOMAIN d => d.sharedCount \in Nat
        /\ "groups" \in DOMAIN d => d.groups \in Seq(Text)
        /\ "hostDevices" \in DOMAIN d => d.hostDevices \in Seq(Text)
    BY <1>1 DEF IsDevice, Has
  <2>2. /\ EmptyDevice.name \in Text /\ EmptyDevice.sharedCount \in Nat
        /\ EmptyDevice.groups \in Seq(Text) /\ EmptyDevice.hostDevices \in Seq(Text)
        /\ DOMAIN EmptyDevice = {"name", "sharedCount", "groups", "hostDevices"}
    BY EmptyTable, TextAssumption DEF EmptyDevice
  <2>3. /\ x = [f \in {"name", "sharedCount", "groups", "hostDevices"} |-> x[f]]
        /\ \A f \in {"name", "sharedCount", "groups", "hostDevices"} :
             x[f] = IF f \in DOMAIN d THEN d[f] ELSE EmptyDevice[f]
    BY <2>2 DEF Read
  <2>4. Len(x.groups) <= cMax /\ Len(x.hostDevices) <= cMaxNumHostDevices
    BY <1>1 DEF DeviceFits, TablesFit
  <2> HIDE DEF x
  <2>5. x.name \in Text /\ x.sharedCount \in Nat /\ x.groups \in Seq(Text) /\ x.hostDevices \in Seq(Text)
    BY <2>1, <2>2, <2>3
  <2> QED
    BY <2>3, <2>4, <2>5 DEF DeviceInfo, Texts, Bounded, x
<1>2. ASSUME NEW x \in DeviceInfo PROVE IsDevice(x) /\ Read(EmptyDevice, x) = x /\ DeviceFits(x)
  <2>1. IsDevice(x) /\ DeviceFits(x)
    BY DEF IsDevice, Needs, Has, DeviceFits, TablesFit, DeviceInfo, Texts, Bounded
  <2>2. Read(EmptyDevice, x) = x
    BY DEF Read, EmptyDevice, DeviceInfo
  <2> QED
    BY <2>1, <2>2
<1> QED
  BY <1>1, <1>2

(* So is a mount.                                                          *)
LEMMA MountRead ==
  /\ \A d : IsMount(d) =>
       (TablesFit(Read(EmptyMount, d), {"options"}, cMax) => Read(EmptyMount, d) \in FileSystemMount)
  /\ \A x \in FileSystemMount :
       IsMount(x) /\ Read(EmptyMount, x) = x /\ TablesFit(x, {"options"}, cMax)
<1>1. ASSUME NEW d, IsMount(d), TablesFit(Read(EmptyMount, d), {"options"}, cMax)
      PROVE  Read(EmptyMount, d) \in FileSystemMount
  <2> DEFINE x == Read(EmptyMount, d)
  <2>1. /\ "destination" \in DOMAIN d => d.destination \in Text
        /\ "source" \in DOMAIN d => d.source \in Text
        /\ "type" \in DOMAIN d => d.type \in Text
        /\ "options" \in DOMAIN d => d.options \in Seq(Text)
    BY <1>1 DEF IsMount, Has
  <2>2. /\ EmptyMount.destination \in Text /\ EmptyMount.source \in Text /\ EmptyMount.type \in Text
        /\ EmptyMount.options \in Seq(Text) /\ DOMAIN EmptyMount = {"destination", "source", "type", "options"}
    BY EmptyTable, TextAssumption DEF EmptyMount
  <2>3. /\ x = [f \in {"destination", "source", "type", "options"} |-> x[f]]
        /\ \A f \in {"destination", "source", "type", "options"} :
             x[f] = IF f \in DOMAIN d THEN d[f] ELSE EmptyMount[f]
    BY <2>2 DEF Read
  <2>4. Len(x.options) <= cMax
    BY <1>1 DEF TablesFit
  <2> HIDE DEF x
  <2>5. x.destination \in Text /\ x.source \in Text /\ x.type \in Text /\ x.options \in Seq(Text)
    BY <2>1, <2>2, <2>3
  <2> QED
    BY <2>3, <2>4, <2>5 DEF FileSystemMount, Texts, Bounded, x
<1>2. ASSUME NEW x \in FileSystemMount
      PROVE  IsMount(x) /\ Read(EmptyMount, x) = x /\ TablesFit(x, {"options"}, cMax)
  <2>1. IsMount(x) /\ TablesFit(x, {"options"}, cMax)
    BY DEF IsMount, Needs, Has, TablesFit, FileSystemMount, Texts, Bounded
  <2>2. Read(EmptyMount, x) = x
    BY DEF Read, EmptyMount, FileSystemMount
  <2> QED
    BY <2>1, <2>2
<1> QED
  BY <1>1, <1>2

(* And a host, which has no table.                                         *)
LEMMA HostRead ==
  /\ \A d : IsHost(d) => Read(EmptyHost, d) \in Host
  /\ \A x \in Host : IsHost(x) /\ Read(EmptyHost, x) = x
<1>1. ASSUME NEW d, IsHost(d) PROVE Read(EmptyHost, d) \in Host
  <2>1. d.ip \in Text /\ d.hostName \in Text /\ "ip" \in DOMAIN d /\ "hostName" \in DOMAIN d
    BY <1>1 DEF IsHost, Needs, Has
  <2> QED
    BY <2>1 DEF Read, EmptyHost, Host
<1>2. ASSUME NEW x \in Host PROVE IsHost(x) /\ Read(EmptyHost, x) = x
  BY DEF IsHost, Needs, Has, Read, EmptyHost, Host
<1> QED
  BY <1>1, <1>2

(* And a resource, with its mounts and hosts.                              *)
LEMMA ResourceRead ==
  /\ \A d : IsResource(d) => (ResourceFits(ReadResource(d)) => ReadResource(d) \in ResourceInfo)
  /\ \A x \in ResourceInfo : IsResource(x) /\ ReadResource(x) = x /\ ResourceFits(x)
<1>1. ASSUME NEW d, IsResource(d), ResourceFits(ReadResource(d)) PROVE ReadResource(d) \in ResourceInfo
  <2> DEFINE json == Read(EmptyResource, d)
             x == ReadResource(d)
  <2>1. /\ "name" \in DOMAIN d => d.name \in Text
        /\ "groups" \in DOMAIN d => d.groups \in Seq(Text)
        /\ "env" \in DOMAIN d => d.env \in Seq(Text)
    BY <1>1 DEF IsResource, Has
  <2>2. /\ EmptyResource.name \in Text /\ EmptyResource.groups \in Seq(Text) /\ EmptyResource.env \in Seq(Text)
        /\ EmptyResource.mounts = <<>> /\ EmptyResource.hosts = <<>>
        /\ DOMAIN EmptyResource = {"name", "groups", "mounts", "env", "hosts"}
    BY EmptyTable, TextAssumption DEF EmptyResource
  <2>3. \A f \in {"name", "groups", "mounts", "env", "hosts"} :
          json[f] = IF f \in DOMAIN d THEN d[f] ELSE EmptyResource[f]
    BY <2>2 DEF Read
  <2>4. x = [name |-> json.name, groups |-> json.groups, mounts |-> ReadAll(EmptyMount, json.mounts),
             env |-> json.env, hosts |-> ReadAll(EmptyHost, json.hosts)]
    BY DEF ReadResource
  <2>5. /\ Len(x.groups) <= cMax /\ Len(x.mounts) <= cMax /\ Len(x.env) <= cMax /\ Len(x.hosts) <= cMax
        /\ \A i \in DOMAIN x.mounts : TablesFit(x.mounts[i], {"options"}, cMax)
    BY <1>1 DEF ResourceFits, TablesFit
  <2> HIDE DEF json, x
  <2>6. json.name \in Text /\ json.groups \in Seq(Text) /\ json.env \in Seq(Text)
    BY <2>1, <2>2, <2>3
  <2>7. /\ IsArray(json.mounts) /\ \A i \in DOMAIN json.mounts : IsMount(json.mounts[i])
        /\ IsArray(json.hosts) /\ \A i \in DOMAIN json.hosts : IsHost(json.hosts[i])
    BY <1>1, <2>2, <2>3, EmptyIsArray DEF IsResource
  <2>8. x.mounts \in Seq(FileSystemMount)
    <3>1. \A i \in DOMAIN json.mounts : x.mounts[i] = Read(EmptyMount, json.mounts[i]) /\ i \in DOMAIN x.mounts
      BY <2>4 DEF ReadAll
    <3>2. \A i \in DOMAIN json.mounts : Read(EmptyMount, json.mounts[i]) \in FileSystemMount
      BY <2>5, <2>7, <3>1, MountRead
    <3> QED
      BY <2>4, <2>7, <3>2, ArrayRead
  <2>9. x.hosts \in Seq(Host)
    BY <2>4, <2>7, HostRead, ArrayRead
  <2>10. x \in ResourceInfo
    BY <2>4, <2>5, <2>6, <2>8, <2>9, ResourceInfoType DEF Bounded
  <2> QED
    BY <2>10 DEF x
<1>2. ASSUME NEW x \in ResourceInfo PROVE IsResource(x) /\ ReadResource(x) = x /\ ResourceFits(x)
  <2>1. /\ x = [name |-> x.name, groups |-> x.groups, mounts |-> x.mounts, env |-> x.env, hosts |-> x.hosts]
        /\ x.name \in Text /\ x.groups \in Bounded(Text, cMax) /\ x.mounts \in Bounded(FileSystemMount, cMax)
        /\ x.env \in Bounded(Text, cMax) /\ x.hosts \in Bounded(Host, cMax)
    BY ResourceInfoType
  <2>2. /\ x.groups \in Seq(Text) /\ x.mounts \in Seq(FileSystemMount) /\ x.env \in Seq(Text) /\ x.hosts \in Seq(Host)
        /\ Len(x.groups) <= cMax /\ Len(x.mounts) <= cMax /\ Len(x.env) <= cMax /\ Len(x.hosts) <= cMax
    BY <2>1 DEF Bounded
  <2>3. /\ IsArray(x.mounts) /\ \A i \in DOMAIN x.mounts : x.mounts[i] \in FileSystemMount
        /\ IsArray(x.hosts) /\ \A i \in DOMAIN x.hosts : x.hosts[i] \in Host
    BY <2>2, SeqIsArray
  <2>4. IsResource(x)
    <3>1. Has(x, [name |-> Text, groups |-> Seq(Text), env |-> Seq(Text)])
      BY <2>1, <2>2 DEF Has
    <3>2. Needs(x, {"name"})
      BY <2>1 DEF Needs
    <3> QED
      BY <2>3, <3>1, <3>2, MountRead, HostRead DEF IsResource
  <2>5. ReadAll(EmptyMount, x.mounts) = x.mounts /\ ReadAll(EmptyHost, x.hosts) = x.hosts
    BY <2>2, MountRead, HostRead, SameArrayRead
  <2>6. Read(EmptyResource, x) = x
    BY <2>1 DEF Read, EmptyResource
  <2>7. ReadResource(x) = x
    BY <2>1, <2>5, <2>6 DEF ReadResource
  <2>8. ResourceFits(x)
    BY <2>2, <2>3, MountRead DEF ResourceFits, TablesFit
  <2> QED
    BY <2>4, <2>7, <2>8
<1> QED
  BY <1>1, <1>2

-----------------------------------------------------------------------------
(* The configuration of the node as a whole.                               *)

ConfigFields == {"version", "nodeType", "devices", "resources", "labels", "priority"}

(* The parser gives a configuration whose tables fit, or an error.         *)
LEMMA ConfigParsed ==
  ASSUME NEW doc, IsNodeConfig(doc)
  PROVE  LET json == ReadConfig(doc) IN
         /\ json.version \in Text /\ json.nodeType \in Text /\ json.priority \in Nat
         /\ json.labels \in Seq(Text)
         /\ ConfigFits(json) => /\ json.devices \in Bounded(DeviceInfo, cMaxNumHostDevices)
                                /\ json.resources \in Bounded(ResourceInfo, cMax)
                                /\ json.labels \in Bounded(Text, cMax)
<1> DEFINE read == Read(EmptyConfig, doc)
           json == ReadConfig(doc)
<1>1. /\ EmptyConfig.version \in Text /\ EmptyConfig.nodeType \in Text /\ EmptyConfig.priority \in Nat
      /\ EmptyConfig.devices = <<>> /\ EmptyConfig.resources = <<>> /\ EmptyConfig.labels \in Seq(Text)
      /\ DOMAIN EmptyConfig = ConfigFields
  BY EmptyTable, TextAssumption DEF EmptyConfig, ConfigFields
<1>2. \A f \in ConfigFields : read[f] = IF f \in DOMAIN doc THEN doc[f] ELSE EmptyConfig[f]
  BY <1>1 DEF Read
<1>3. json = [version |-> read.version, nodeType |-> read.nodeType, devices |-> ReadAll(EmptyDevice, read.devices),
              resources |-> [i \in DOMAIN read.resources |-> ReadResource(read.resources[i])],
              labels |-> read.labels, priority |-> read.priority]
  BY DEF ReadConfig
<1>4. /\ "version" \in DOMAIN doc => doc.version \in Text
      /\ "nodeType" \in DOMAIN doc => doc.nodeType \in Text
      /\ "labels" \in DOMAIN doc => doc.labels \in Seq(Text)
      /\ "priority" \in DOMAIN doc => doc.priority \in Nat
  BY DEF IsNodeConfig, Has
<1>5. /\ "devices" \in DOMAIN doc => IsArray(doc.devices) /\ \A i \in DOMAIN doc.devices : IsDevice(doc.devices[i])
      /\ "resources" \in DOMAIN doc =>
           IsArray(doc.resources) /\ \A i \in DOMAIN doc.resources : IsResource(doc.resources[i])
  BY DEF IsNodeConfig
<1> HIDE DEF read, json
<1>6. read.version \in Text /\ read.nodeType \in Text /\ read.labels \in Seq(Text) /\ read.priority \in Nat
  BY <1>1, <1>2, <1>4 DEF ConfigFields
<1>7. /\ IsArray(read.devices) /\ \A i \in DOMAIN read.devices : IsDevice(read.devices[i])
      /\ IsArray(read.resources) /\ \A i \in DOMAIN read.resources : IsResource(read.resources[i])
  BY <1>1, <1>2, <1>5, EmptyIsArray DEF ConfigFields
<1>8. ASSUME ConfigFits(json)
      PROVE  /\ json.devices \in Bounded(DeviceInfo, cMaxNumHostDevices)
             /\ json.resources \in Bounded(ResourceInfo, cMax)
             /\ json.labels \in Bounded(Text, cMax)
  <2>1. /\ Len(json.devices) <= cMaxNumHostDevices /\ Len(json.resources) <= cMax /\ Len(json.labels) <= cMax
        /\ \A i \in DOMAIN json.devices : DeviceFits(json.devices[i])
        /\ \A i \in DOMAIN json.resources : ResourceFits(json.resources[i])
    BY <1>8 DEF ConfigFits, TablesFit
  <2>2. \A i \in DOMAIN read.devices : Read(EmptyDevice, read.devices[i]) \in DeviceInfo
    <3>1. \A i \in DOMAIN read.devices : json.devices[i] = Read(EmptyDevice, read.devices[i]) /\ i \in DOMAIN json.devices
      BY <1>3 DEF ReadAll
    <3> QED
      BY <1>7, <2>1, <3>1, DeviceRead
  <2>3. json.devices \in Seq(DeviceInfo)
    BY <1>3, <1>7, <2>2, ArrayRead
  <2>4. \A i \in DOMAIN read.resources : ReadResource(read.resources[i]) \in ResourceInfo
    <3>1. \A i \in DOMAIN read.resources : json.resources[i] = ReadResource(read.resources[i]) /\ i \in DOMAIN json.resources
      BY <1>3
    <3> QED
      BY <1>7, <2>1, <3>1, ResourceRead
  <2>5. json.resources \in Seq(ResourceInfo)
    <3>1. json.resources \in [1..Len(read.resources) -> ResourceInfo] /\ Len(read.resources) \in Nat
      BY <1>3, <1>7, <2>4 DEF IsArray
    <3> QED
      BY <3>1, TableIsSeq
  <2> QED
    BY <1>3, <1>6, <2>1, <2>3, <2>5 DEF Bounded
<1> QED
  BY <1>3, <1>6, <1>8 DEF json

(* A configuration of the node is a document that is read as it is, and    *)
(* fits the tables of the parser if its devices do.                        *)
LEMMA ConfigRead ==
  ASSUME NEW x \in NodeConfig
  PROVE  /\ IsNodeConfig(x) /\ ReadConfig(x) = x
         /\ Len(x.devices) <= cMaxNumHostDevices => ConfigFits(x)
<1>1. /\ x = [version |-> x.version, nodeType |-> x.nodeType, devices |-> x.devices, resources |-> x.resources,
              labels |-> x.labels, priority |-> x.priority]
      /\ x.version \in Text /\ x.nodeType \in Text /\ x.priority \in Nat
      /\ x.devices \in Seq(DeviceInfo) /\ x.resources \in Seq(ResourceInfo) /\ x.labels \in Seq(Text)
      /\ Len(x.resources) <= cMax /\ Len(x.labels) <= cMax
  BY DEF NodeConfig, Texts, Bounded
<1>2. /\ IsArray(x.devices) /\ \A i \in DOMAIN x.devices : x.devices[i] \in DeviceInfo
      /\ IsArray(x.resources) /\ \A i \in DOMAIN x.resources : x.resources[i] \in ResourceInfo
  BY <1>1, SeqIsArray
<1>3. IsNodeConfig(x)
  <2>1. Has(x, [version |-> Text, nodeType |-> Text, labels |-> Seq(Text), priority |-> Nat])
    BY <1>1 DEF Has
  <2>2. Needs(x, {"version", "nodeType"})
    BY <1>1 DEF Needs
  <2> QED
    BY <1>2, <2>1, <2>2, DeviceRead, ResourceRead DEF IsNodeConfig
<1>4. ReadConfig(x) = x
  <2>1. ReadAll(EmptyDevice, x.devices) = x.devices
    BY <1>1, DeviceRead, SameArrayRead
  <2>2. [i \in DOMAIN x.resources |-> ReadResource(x.resources[i])] = x.resources
    <3>1. [i \in DOMAIN x.resources |-> ReadResource(x.resources[i])] = [i \in DOMAIN x.resources |-> x.resources[i]]
      BY <1>2, ResourceRead
    <3> QED
      BY <1>1, <3>1, LenProperties
  <2>3. Read(EmptyConfig, x) = x
    BY <1>1 DEF Read, EmptyConfig
  <2> QED
    BY <1>1, <2>1, <2>2, <2>3 DEF ReadConfig
<1>5. ASSUME Len(x.devices) <= cMaxNumHostDevices PROVE ConfigFits(x)
  BY <1>1, <1>2, <1>5, DeviceRead, ResourceRead DEF ConfigFits, TablesFit
<1> QED
  BY <1>3, <1>4, <1>5

(* What a load makes of a configuration that the parser gives.             *)
ConfigOf(json, devices, resources, labels) ==
  [version |-> json.version, nodeType |-> json.nodeType, devices |-> devices, resources |-> resources,
   labels |-> labels, priority |-> json.priority]

(* A load keeps the tables of the configuration within their bounds.       *)
LEMMA ConfigLoads ==
  ASSUME NEW doc, IsNodeConfig(doc), NEW x \in NodeConfig, NodeConfigFromJSON(doc, x) # Error
  PROVE  NodeConfigFromJSON(doc, x)[1] \in NodeConfig
<1> DEFINE json == ReadConfig(doc)
           devices == FillDevices(json.devices, x.devices)
           resources == FillResources(json.resources, x.resources)
           labels == x.labels \o json.labels
           y == ConfigOf(json, devices[1], resources[1], labels)
<1>1. /\ ConfigFits(json) /\ devices # Error /\ resources # Error /\ CanPush(x.labels, json.labels, cMax)
      /\ NodeConfigFromJSON(doc, x) = <<y>>
  BY DEF NodeConfigFromJSON, ConfigOf
<1>2. json.version \in Text /\ json.nodeType \in Text /\ json.priority \in Nat
  BY ConfigParsed
<1>3. x.devices \in Seq(DeviceInfo) /\ x.resources \in Seq(ResourceInfo) /\ x.labels \in Seq(Text)
  BY DEF NodeConfig, Texts, Bounded
<1>4. json.devices \in Seq(DeviceInfo) /\ json.resources \in Bounded(ResourceInfo, cMax) /\ json.labels \in Seq(Text)
  BY <1>1, ConfigParsed DEF Bounded
<1> HIDE DEF json
<1>5. devices[1] \in Bounded(DeviceInfo, cMaxNumNodeDevices)
  BY <1>1, <1>3, <1>4, DevicesFilled
<1>6. resources[1] \in Bounded(ResourceInfo, cMax)
  BY <1>1, <1>3, <1>4, ResourcesFilled
<1>7. labels \in Bounded(Text, cMax)
  BY <1>1, <1>3, <1>4, PushKeepsBound, DevicesAssumption
<1> HIDE DEF devices, resources, labels
<1>8. y \in NodeConfig
  BY <1>2, <1>5, <1>6, <1>7 DEF NodeConfig, ConfigOf, Texts
<1> QED
  BY <1>1, <1>8

(* Into a new configuration a load brings that of the document.            *)
LEMMA ConfigLoadsNew ==
  ASSUME NEW doc, IsNodeConfig(doc)
  PROVE  LET json == ReadConfig(doc) IN
         NodeConfigFromJSON(doc, EmptyConfig) =
           IF ConfigFits(json) THEN <<ConfigOf(json, json.devices, json.resources, json.labels)>> ELSE Error
<1> DEFINE json == ReadConfig(doc)
           devices == FillDevices(json.devices, <<>>)
           resources == FillResources(json.resources, <<>>)
<1>1. EmptyConfig.devices = <<>> /\ EmptyConfig.resources = <<>> /\ EmptyConfig.labels = <<>>
  BY DEF EmptyConfig
<1>2. NodeConfigFromJSON(doc, EmptyConfig) =
        IF \/ ~ConfigFits(json) \/ devices = Error \/ resources = Error \/ ~CanPush(<<>>, json.labels, cMax)
          THEN Error
          ELSE <<ConfigOf(json, devices[1], resources[1], <<>> \o json.labels)>>
  BY <1>1 DEF NodeConfigFromJSON, ConfigOf
<1>3. ASSUME ConfigFits(json)
      PROVE  /\ devices = <<json.devices>> /\ devices # Error
             /\ resources = <<json.resources>> /\ resources # Error
             /\ CanPush(<<>>, json.labels, cMax) /\ <<>> \o json.labels = json.labels
  <2>1. /\ json.devices \in Seq(DeviceInfo) /\ Len(json.devices) <= cMaxNumHostDevices
        /\ json.resources \in Bounded(ResourceInfo, cMax)
        /\ json.labels \in Seq(Text) /\ Len(json.labels) <= cMax
    BY <1>3, ConfigParsed DEF Bounded
  <2> HIDE DEF json
  <2> QED
    BY <2>1, DevicesFilledNew, ResourcesFilledNew, PushToEmpty, DevicesAssumption
<1> HIDE DEF devices, resources, json
<1> QED
  BY <1>2, <1>3 DEF json

(* Writing a configuration leaves nothing out.                             *)
LEMMA ConfigWritten ==
  ASSUME NEW json, json.devices \in Seq(DeviceInfo), json.resources \in Seq(ResourceInfo)
  PROVE  NodeConfigToJSON(json) = ConfigOf(json, json.devices, json.resources, json.labels)
  BY DevicesWritten, ResourcesWritten DEF NodeConfigToJSON, ConfigOf

(* A configuration that is saved is loaded as it was, unless it has more   *)
(* devices than the parser takes.                                          *)
LEMMA ConfigComesBack ==
  ASSUME NEW x \in NodeConfig
  PROVE  /\ IsNodeConfig(NodeConfigToJSON(x))
         /\ Len(x.devices) <= cMaxNumHostDevices => NodeConfigFromJSON(NodeConfigToJSON(x), EmptyConfig) = <<x>>
<1>1. x.devices \in Seq(DeviceInfo) /\ x.resources \in Seq(ResourceInfo)
  BY DEF NodeConfig, Bounded
<1>2. ConfigOf(x, x.devices, x.resources, x.labels) = x
  BY DEF NodeConfig, ConfigOf
<1>3. NodeConfigToJSON(x) = x
  BY <1>1, <1>2, ConfigWritten
<1> QED
  BY <1>2, <1>3, ConfigRead, ConfigLoadsNew

(* The fields of a resource, those of its mounts and hosts among them, are *)
(* read.                                                                   *)
LEMMA ResourceIsKept ==
  ASSUME NEW d, IsResource(d)
  PROVE  ResourceKept(d, ReadResource(d))
<1> DEFINE read == Read(EmptyResource, d)
           new == ReadResource(d)
<1>1. \A f \in {"name", "groups", "mounts", "env", "hosts"} \intersect DOMAIN d : read[f] = d[f]
  BY DEF Read, EmptyResource
<1>2. /\ new.name = read.name /\ new.groups = read.groups /\ new.env = read.env
      /\ new.mounts = ReadAll(EmptyMount, read.mounts) /\ new.hosts = ReadAll(EmptyHost, read.hosts)
  BY DEF ReadResource
<1> HIDE DEF read, new
<1>3. Kept(d, new, {"name", "groups", "env"})
  BY <1>1, <1>2 DEF Kept
<1>4. /\ "mounts" \in DOMAIN d => IsArray(d.mounts)
      /\ "hosts" \in DOMAIN d => IsArray(d.hosts)
  BY DEF IsResource
<1>5. /\ "mounts" \in DOMAIN d => AllKept(d.mounts, new.mounts, DOMAIN EmptyMount)
      /\ "hosts" \in DOMAIN d => AllKept(d.hosts, new.hosts, DOMAIN EmptyHost)
  BY <1>1, <1>2, <1>4, ArrayReadKeeps
<1> QED
  BY <1>3, <1>5 DEF ResourceKept, new

(* A configuration that others wrote is saved with the fields that it had. *)
LEMMA ConfigIsKept ==
  ASSUME NEW doc, IsNodeConfig(doc), NodeConfigFromJSON(doc, EmptyConfig) # Error
  PROVE  ConfigKept(doc, NodeConfigToJSON(NodeConfigFromJSON(doc, EmptyConfig)[1]))
<1> DEFINE read == Read(EmptyConfig, doc)
           json == ReadConfig(doc)
           y == ConfigOf(json, json.devices, json.resources, json.labels)
           new == NodeConfigToJSON(y)
<1>1. ConfigFits(json) /\ NodeConfigFromJSON(doc, EmptyConfig) = <<y>>
  BY ConfigLoadsNew
<1>2. json.devices \in Seq(DeviceInfo) /\ json.resources \in Seq(ResourceInfo)
  BY <1>1, ConfigParsed DEF Bounded
<1>3. /\ json.version = read.version /\ json.nodeType = read.nodeType
      /\ json.devices = ReadAll(EmptyDevice, read.devices)
      /\ json.resources = [i \in DOMAIN read.resources |-> ReadResource(read.resources[i])]
      /\ json.labels = read.labels /\ json.priority = read.priority
  BY DEF ReadConfig
<1>4. \A f \in ConfigFields \intersect DOMAIN doc : read[f] = doc[f]
  BY DEF Read, EmptyConfig, ConfigFields
<1> HIDE DEF read, json
<1>5. \A f \in ConfigFields : new[f] = json[f]
  <2>1. y.devices = json.devices /\ y.resources = json.resources
    BY DEF ConfigOf
  <2>2. new = ConfigOf(y, y.devices, y.resources, y.labels)
    BY <1>2, <2>1, ConfigWritten
  <2> HIDE DEF new
  <2> QED
    BY <2>2 DEF ConfigOf, ConfigFields
<1> HIDE DEF y, new
<1>6. Kept(doc, new, {"version", "nodeType", "labels", "priority"})
  BY <1>3, <1>4, <1>5 DEF Kept, ConfigFields
<1>7. ASSUME "devices" \in DOMAIN doc PROVE AllKept(doc.devices, new.devices, DOMAIN EmptyDevice)
  <2>1. new.devices = ReadAll(EmptyDevice, doc.devices)
    BY <1>3, <1>4, <1>5, <1>7 DEF ConfigFields
  <2> QED
    BY <1>7, <2>1, ArrayReadKeeps DEF IsNodeConfig
<1>8. ASSUME "resources" \in DOMAIN doc
      PROVE  /\ Len(new.resources) = Len(doc.resources)
             /\ \A i \in DOMAIN doc.resources : ResourceKept(doc.resources[i], new.resources[i])
  <2>1. new.resources = [i \in DOMAIN doc.resources |-> ReadResource(doc.resources[i])]
    BY <1>3, <1>4, <1>5, <1>8 DEF ConfigFields
  <2>2. IsArray(doc.resources) /\ \A i \in DOMAIN doc.resources : IsResource(doc.resources[i])
    BY <1>8 DEF IsNodeConfig
  <2>3. Len(new.resources) = Len(doc.resources)
    <3>1. /\ new.resources \in [1..Len(doc.resources) -> {ReadResource(doc.resources[i]) : i \in DOMAIN doc.resources}]
          /\ Len(doc.resources) \in Nat
      BY <2>1, <2>2 DEF IsArray
    <3> QED
      BY <3>1, TableIsSeq
  <2> QED
    BY <2>1, <2>2, <2>3, ResourceIsKept
<1> QED
  BY <1>1, <1>6, <1>7, <1>8 DEF ConfigKept, new

-----------------------------------------------------------------------------
(* Documents of every kind.                                                *)

(* A new object has its type.                                              *)
LEMMA EmptyType ==
  ASSUME NEW k \in Kind
  PROVE  Empty(k) \in ObjectType(k)
<1>0. \A S : <<>> \in Bounded(S, 1) /\ <<>> \in Bounded(S, cMax) /\ <<>> \in Bounded(S, cMaxNumNodeDevices)
  <2>1. \A S : <<>> \in Seq(S) /\ Len(<<>>) = 0
    OBVIOUS
  <2> QED
    BY <2>1, DevicesAssumption DEF Bounded
<1> USE <1>0, TextAssumption
<1>1. EmptyManifest \in ImageManifest
  BY EmptyDescriptorType DEF EmptyManifest, ImageManifest
<1>2. EmptyImageSpec \in ImageSpec
  BY DEF EmptyImageSpec, EmptyImageConfig, ImageSpec, ImageConfig, Texts
<1>3. EmptyRuntimeSpec \in RuntimeSpec
  BY DEF EmptyRuntimeSpec, RuntimeSpec
<1>4. EmptyServiceConfig \in ServiceConfig
  BY DEF EmptyServiceConfig, ServiceConfig, Texts
<1>5. EmptyConfig \in NodeConfig
  BY DEF EmptyConfig, NodeConfig, Texts
<1> QED
  BY <1>1, <1>2, <1>3, <1>4, <1>5 DEF Kind, Empty, ObjectType

(* A load keeps the type of the object that it adds to.                    *)
LEMMA LoadKeepsType ==
  ASSUME NEW k \in Kind, NEW doc, IsDocument(k, doc), NEW x \in ObjectType(k), Loaded(k, doc, x) # Error
  PROVE  Loaded(k, doc, x)[1] \in ObjectType(k)
<1> USE DEF IsDocument, ObjectType, Loaded
<1>1. CASE k = "manifest"
  BY <1>1, ManifestLoads
<1>2. CASE k = "image"
  BY <1>2, ImageLoads
<1>3. CASE k = "runtime"
  BY <1>3, RuntimeLoads
<1>4. CASE k = "service"
  BY <1>4, ServiceLoads
<1>5. CASE k = "nodeConfig"
  BY <1>5, ConfigLoads
<1> QED
  BY <1>1, <1>2, <1>3, <1>4, <1>5 DEF Kind

(* What is saved is a document, and is loaded as it was.                   *)
LEMMA ComesBack ==
  ASSUME NEW k \in Kind, k # "service", NEW x \in ObjectType(k)
  PROVE  /\ IsDocument(k, Document(k, x))
         /\ \/ Loaded(k, Document(k, x), Empty(k)) = <<Normal(k, x)>>
            \/ k = "nodeConfig" /\ Len(x.devices) > cMaxNumHostDevices
<1>1. CASE k = "manifest"
  BY <1>1, ManifestComesBack DEF IsDocument, ObjectType, Loaded, Document, Empty
<1>2. CASE k = "image"
  BY <1>2, ImageComesBack DEF IsDocument, ObjectType, Loaded, Document, Empty
<1>3. CASE k = "runtime"
  BY <1>3, RuntimeComesBack DEF IsDocument, ObjectType, Loaded, Document, Empty
<1>4. CASE k = "nodeConfig"
  <2>1. Normal(k, x) = x
    BY <1>4 DEF Normal
  <2>2. x \in NodeConfig
    BY <1>4 DEF ObjectType
  <2>3. Len(x.devices) \in Nat
    BY <2>2 DEF NodeConfig, Bounded
  <2>4. /\ IsNodeConfig(NodeConfigToJSON(x))
        /\ NodeConfigFromJSON(NodeConfigToJSON(x), EmptyConfig) = <<x>> \/ Len(x.devices) > cMaxNumHostDevices
    BY <2>2, <2>3, ConfigComesBack, DevicesAssumption
  <2> QED
    BY <1>4, <2>1, <2>4 DEF IsDocument, Loaded, Document, Empty
<1> QED
  BY <1>1, <1>2, <1>3, <1>4 DEF Kind

(* What others wrote is saved with the fields that it had.                 *)
LEMMA IsKept ==
  ASSUME NEW k \in Kind, k # "service", NEW doc, IsDocument(k, doc), Loaded(k, doc, Empty(k)) # Error
  PROVE  DocumentKept(k, doc, Document(k, Loaded(k, doc, Empty(k))[1]))
<1> USE DEF IsDocument, Loaded, Document, Empty, DocumentKept
<1>1. CASE k = "manifest"
  BY <1>1, ManifestIsKept
<1>2. CASE k = "image"
  BY <1>2, ImageIsKept
<1>3. CASE k = "runtime"
  BY <1>3, RuntimeIsKept
<1>4. CASE k = "nodeConfig"
  BY <1>4, ConfigIsKept
<1> QED
  BY <1>1, <1>2, <1>3, <1>4 DEF Kind

-----------------------------------------------------------------------------
(* The life of a document.                                                 *)

(* The text is still the one that was written of the object in saved.      *)
Faithful == saved # <<>> => kind # "service" /\ text = <<Document(kind, saved[1])>>

IInv == TypeOK /\ Faithful

(* The object that was saved has the type of the document.                 *)
LEMMA SavedObject ==
  ASSUME TypeOK, saved # <<>>
  PROVE  saved[1] \in ObjectType(kind)
  BY DEF TypeOK, Bounded

(* At first there is no text, and the object is new.                       *)
LEMMA InitIInv == Init => IInv
<1> SUFFICES ASSUME Init PROVE IInv
  OBVIOUS
<1>1. saved \in Bounded(ObjectType(kind), 1)
  BY DEF Init, Bounded
<1> QED
  BY <1>1, EmptyType DEF Init, IInv, TypeOK, Faithful

(* A load into an object of the type, whatever it held before.             *)
LEMMA LoadIntoIInv ==
  ASSUME IInv, NEW x \in ObjectType(kind), LoadInto(x)
  PROVE  IInv'
<1>1. kind' = kind /\ text' = text /\ saved' = saved /\ text # <<>>
  BY DEF LoadInto
<1>2. kind \in Kind /\ IsDocument(kind, text[1])
  BY <1>1 DEF IInv, TypeOK
<1>3. object' \in ObjectType(kind) /\ ret' \in {"ok", "error", "notSupported"}
  <2>1. CASE Loaded(kind, text[1], x) = Error
    BY <1>2, <2>1, EmptyType DEF LoadInto
  <2>2. CASE Loaded(kind, text[1], x) # Error
    BY <1>2, <2>2, LoadKeepsType DEF LoadInto
  <2> QED
    BY <2>1, <2>2
<1> QED
  BY <1>1, <1>3 DEF IInv, TypeOK, Faithful

(* Every call keeps the invariant.                                         *)
LEMMA NextIInv == IInv /\ [Next]_vars => IInv'
<1> SUFFICES ASSUME IInv, [Next]_vars PROVE IInv'
  OBVIOUS
<1>1. kind \in Kind /\ object \in ObjectType(kind) /\ saved \in Bounded(ObjectType(kind), 1)
  BY DEF IInv, TypeOK
<1>2. CASE Fill
  <2>1. object' \in ObjectType(kind)
    BY <1>1, <1>2, DocumentsAssumption DEF Fill
  <2> QED
    BY <1>2, <2>1 DEF Fill, IInv, TypeOK, Faithful
<1>3. CASE Receive
  <2>1. PICK doc \in Foreign[kind] : text' = <<doc>>
    BY <1>3 DEF Receive
  <2>2. IsDocument(kind, doc)
    BY <1>1, DocumentsAssumption
  <2>3. saved' \in Bounded(ObjectType(kind), 1)
    BY <1>3 DEF Receive, Bounded
  <2> QED
    BY <1>3, <2>1, <2>2, <2>3 DEF Receive, IInv, TypeOK, Faithful
<1>4. CASE Save
  <2>1. IsDocument(kind, Document(kind, object))
    BY <1>1, <1>4, ComesBack DEF Save
  <2>2. <<object>> \in Bounded(ObjectType(kind), 1) /\ <<object>>[1] = object
    BY <1>1 DEF Bounded
  <2> QED
    BY <1>4, <2>1, <2>2 DEF Save, IInv, TypeOK, Faithful
<1>5. CASE SaveFails
  <2>1. <<>> \in Bounded(ObjectType(kind), 1)
    BY DEF Bounded
  <2> QED
    BY <1>5, <2>1 DEF SaveFails, IInv, TypeOK, Faithful
<1>6. CASE SaveNothing
  BY <1>6 DEF SaveNothing, IInv, TypeOK, Faithful
<1>7. CASE Load
  BY <1>1, <1>7, EmptyType, LoadIntoIInv DEF Load
<1>8. CASE LoadAgain
  BY <1>1, <1>8, LoadIntoIInv DEF LoadAgain
<1>9. CASE LoadFails
  BY <1>9 DEF LoadFails, IInv, TypeOK, Faithful
<1>10. CASE NotSupported
  BY <1>10 DEF NotSupported, IInv, TypeOK, Faithful
<1>11. CASE UNCHANGED vars
  BY <1>11 DEF vars, IInv, TypeOK, Faithful
<1> QED
  BY <1>2, <1>3, <1>4, <1>5, <1>6, <1>7, <1>8, <1>9, <1>10, <1>11 DEF Next

(* The invariant holds in every state.                                     *)
LEMMA Invariance == Spec => []IInv
  BY InitIInv, NextIInv, PTL DEF Spec

(* No table of an object of OCISpec or JSONProvider ever holds more than   *)
(* it has room for, over any sequence of loads into any objects            *)
(* (ocispec.cpp:151-174, resourcemanager.cpp:284-371).                     *)
THEOREM TablesKeepTheirSize == Spec => []TypeOK
<1>1. IInv => TypeOK
  BY DEF IInv
<1> QED
  BY <1>1, Invariance, PTL

(* What OCISpec and JSONProvider have written is what they load: every     *)
(* member of the object that has a place in the document.  The rest of an  *)
(* image and of a runtime is lost, and a configuration with more devices   *)
(* than the parser takes is not loaded (ocispec.cpp:188-216, 371-407;      *)
(* resourcemanager.cpp:355-371).                                           *)
THEOREM WhatIsSavedIsLoaded == Spec => []SavedIsLoaded
<1>1. IInv => SavedIsLoaded
  <2> SUFFICES ASSUME IInv, saved # <<>>
               PROVE  \/ Loaded(kind, text[1], Empty(kind)) = <<Normal(kind, saved[1])>>
                      \/ kind = "nodeConfig" /\ Len(saved[1].devices) > cMaxNumHostDevices
    BY DEF SavedIsLoaded
  <2>1. kind \in Kind /\ kind # "service" /\ text[1] = Document(kind, saved[1])
    BY DEF IInv, TypeOK, Faithful
  <2>2. saved[1] \in ObjectType(kind)
    BY SavedObject DEF IInv
  <2> QED
    BY <2>1, <2>2, ComesBack
<1> QED
  BY <1>1, Invariance, PTL

(* A document that others wrote, with any of its fields absent but those   *)
(* the code has no default for and with any fields that the node does not  *)
(* know, is saved with every field that the node knows, at every depth, as *)
(* it was, when OCISpec or JSONProvider has loaded it.                     *)
THEOREM WhatOthersWroteIsKept == Spec => []NothingIsLost
<1>1. IInv => NothingIsLost
  <2> SUFFICES ASSUME IInv, text # <<>>, kind # "service", Loaded(kind, text[1], Empty(kind)) # Error
               PROVE  DocumentKept(kind, text[1], Document(kind, Loaded(kind, text[1], Empty(kind))[1]))
    BY DEF NothingIsLost
  <2>1. kind \in Kind /\ IsDocument(kind, text[1])
    BY DEF IInv, TypeOK
  <2> QED
    BY <2>1, IsKept
<1> QED
  BY <1>1, Invariance, PTL
=============================================================================
