-------------------------- MODULE CompressionProofs --------------------------
(***************************************************************************)
(* When Get answers what was set and when it does not, for every set of    *)
(* keys, clients, values and configurations.                               *)
(***************************************************************************)
EXTENDS Compression, TLAPS

\* A Set that met no change still holds the configuration of now, so that the
\* codec it takes is the one it tags; and what such a Set stored last, or
\* nothing did, carries the tag of its codec.
UnracedAgree ==
    /\ \A c \in Clients :
          setting[c] # Idle /\ ~setting[c].raced => setting[c].config = config
    /\ \A k \in Keys \ raced : stored[k].codec = stored[k].tag

\* Only values of type V are set.
OfTypeV ==
    /\ \A k \in Keys : stored[k].value \in Typed \cup {Nothing}
    /\ \A c \in Clients : setting[c] # Idle => setting[c].value \in Typed

CompressionInv == CompressionTypeOK /\ UnracedAgree /\ OfTypeV

\* What the inner cache may hold.
Held == Forms \cup {Raw(v) : v \in Values \cup {Nothing}}

LEMMA HeldFields ==
    ASSUME NEW s \in Held
    PROVE  /\ s.codec # "none" => s.value \in Values
           /\ s.value \in Values \cup {Nothing}
BY DEF Held, Forms, Raw

LEMMA SettingFields ==
    ASSUME NEW s \in Sets \cup {Idle}, s # Idle
    PROVE  /\ s \in Sets
           /\ s.key \in Keys /\ s.value \in Values
           /\ s.config \in Configs /\ s.raced \in BOOLEAN
BY DEF Sets

-----------------------------------------------------------------------------
LEMMA CompressionInit == Init => CompressionInv
<1> SUFFICES ASSUME Init PROVE CompressionInv
  OBVIOUS
<1>1. stored \in [Keys -> Forms \cup {Raw(v) : v \in Values \cup {Nothing}}]
  BY DEF Init
<1>2. setting \in [Clients -> Sets \cup {Idle}]
  BY DEF Init
<1>3. UnracedAgree
  BY DEF Init, UnracedAgree, Raw
<1>4. OfTypeV
  BY DEF Init, OfTypeV, Raw
<1> QED BY <1>1, <1>2, <1>3, <1>4 DEF Init, CompressionInv, CompressionTypeOK

LEMMA CompressedHeld ==
    ASSUME CompressionTypeOK, NEW s \in Sets
    PROVE  /\ Compressed(s) \in Held
           /\ s.config = config => Compressed(s).codec = Compressed(s).tag
<1>1. CASE ToCompress(s) /\ config.works
  <2>1. config.algorithm \in Names /\ s.config.algorithm \in Names
    BY DEF CompressionTypeOK, Sets, Names
  <2> QED BY <1>1, <2>1 DEF Compressed, Held, Forms, Sets
<1>2. CASE ~(ToCompress(s) /\ config.works)
  BY <1>2 DEF Compressed, Held, Raw, Sets
<1> QED BY <1>1, <1>2

LEMMA AgreeStep ==
    ASSUME CompressionTypeOK, UnracedAgree, [Next]_vars
    PROVE  (CompressionTypeOK /\ UnracedAgree)'
<1>0. /\ stored \in [Keys -> Held]
      /\ setting \in [Clients -> Sets \cup {Idle}]
      /\ raced \subseteq Keys /\ config \in Configs
      /\ Typed \subseteq Values
  BY DEF CompressionTypeOK, Held, Typed
<1>1. ASSUME NEW c \in Clients, SetBegin(c) PROVE (CompressionTypeOK /\ UnracedAgree)'
  <2>1. PICK k \in Keys, v \in Typed :
           setting' = [setting EXCEPT ![c] =
                          [pc |-> "store", key |-> k, value |-> v,
                           config |-> config, raced |-> FALSE]]
    BY <1>1 DEF SetBegin
  <2>2. [pc |-> "store", key |-> k, value |-> v, config |-> config,
         raced |-> FALSE] \in Sets
    BY <1>0 DEF Sets
  <2>3. setting' \in [Clients -> Sets \cup {Idle}]
    BY <1>0, <2>1, <2>2
  <2> QED BY <1>0, <1>1, <2>1, <2>3
          DEF SetBegin, CompressionTypeOK, UnracedAgree
<1>2. ASSUME NEW c \in Clients, SetStore(c) PROVE (CompressionTypeOK /\ UnracedAgree)'
  <2> DEFINE s == setting[c]
  <2>1. s # Idle /\ s \in Sets /\ s.key \in Keys /\ s.raced \in BOOLEAN
    BY <1>0, <1>2, SettingFields DEF SetStore
  <2>2. /\ setting' = [setting EXCEPT ![c] = Idle]
        /\ UNCHANGED <<valueType, config>>
    BY <1>2 DEF SetStore
  <2>3. setting' \in [Clients -> Sets \cup {Idle}]
    BY <1>0, <2>2
  <2>4. \A d \in Clients :
           setting'[d] # Idle /\ ~setting'[d].raced =>
              setting'[d].config = config'
    BY <1>0, <2>2 DEF UnracedAgree
  <2>5. CASE UNCHANGED <<stored, raced>>
    BY <1>0, <2>2, <2>3, <2>4, <2>5 DEF CompressionTypeOK, UnracedAgree
  <2>6. CASE /\ stored' = [stored EXCEPT ![s.key] = Compressed(s)]
             /\ raced' = IF s.raced THEN raced \cup {s.key}
                         ELSE raced \ {s.key}
    <3>1. stored' \in [Keys -> Held] /\ raced' \subseteq Keys
      BY <1>0, <2>1, <2>6, CompressedHeld
    <3>2. ~s.raced => Compressed(s).codec = Compressed(s).tag
      BY <2>1, CompressedHeld DEF UnracedAgree
    <3>3. \A k \in Keys \ raced' : stored'[k].codec = stored'[k].tag
      BY <1>0, <2>1, <2>6, <3>2 DEF UnracedAgree
    <3> QED BY <2>2, <2>3, <2>4, <3>1, <3>3
            DEF CompressionTypeOK, UnracedAgree, Held
  <2> QED BY <1>2, <2>5, <2>6 DEF SetStore
<1>3. ASSUME NEW k \in Keys, Delete(k) PROVE (CompressionTypeOK /\ UnracedAgree)'
  <2>1. /\ stored' = [stored EXCEPT ![k] = Raw(Nothing)]
        /\ Raw(Nothing) \in Held
    BY <1>3 DEF Delete, Held
  <2>2. stored' \in [Keys -> Held]
    BY <1>0, <2>1
  <2>3. \A j \in Keys \ raced : stored'[j].codec = stored'[j].tag
    BY <1>0, <2>1 DEF UnracedAgree, Raw
  <2> QED BY <1>3, <2>2, <2>3
          DEF Delete, CompressionTypeOK, UnracedAgree, Held
<1>4. CASE SetCompressionConfig
  <2>1. ASSUME NEW c \in Clients, setting[c] # Idle
        PROVE  /\ [setting[c] EXCEPT !.raced = TRUE] \in Sets
               /\ [setting[c] EXCEPT !.raced = TRUE].raced
    BY <1>0, <2>1 DEF Sets
  <2>2. setting' \in [Clients -> Sets \cup {Idle}]
    BY <1>4, <2>1 DEF SetCompressionConfig
  <2>3. \A c \in Clients : setting'[c] # Idle => setting'[c].raced
    BY <1>4, <2>1 DEF SetCompressionConfig
  <2> QED BY <1>4, <2>2, <2>3
          DEF SetCompressionConfig, CompressionTypeOK, UnracedAgree
<1>5. CASE UNCHANGED vars
  BY <1>5 DEF vars, CompressionTypeOK, UnracedAgree
<1> QED BY <1>1, <1>2, <1>3, <1>4, <1>5 DEF Next

LEMMA CompressedValue ==
    ASSUME NEW s PROVE Compressed(s).value = s.value
BY DEF Compressed, Raw

LEMMA OfTypeVStep ==
    ASSUME CompressionTypeOK, OfTypeV, [Next]_vars
    PROVE  OfTypeV'
<1>0. /\ stored \in [Keys -> Held]
      /\ setting \in [Clients -> Sets \cup {Idle}]
  BY DEF CompressionTypeOK, Held
<1>1. valueType' = valueType /\ Typed' = Typed
  BY DEF Next, SetBegin, SetStore, Delete, SetCompressionConfig, vars, Typed
<1> HIDE DEF Typed
<1>2. ASSUME NEW c \in Clients, SetBegin(c) PROVE OfTypeV'
  BY <1>0, <1>1, <1>2 DEF SetBegin, OfTypeV
<1>3. ASSUME NEW c \in Clients, SetStore(c) PROVE OfTypeV'
  <2>1. setting[c] # Idle /\ setting' = [setting EXCEPT ![c] = Idle]
    BY <1>3 DEF SetStore
  <2>2. \A d \in Clients : setting'[d] # Idle => setting'[d].value \in Typed
    BY <1>0, <2>1 DEF OfTypeV
  <2>3. \/ stored' = stored
        \/ stored' = [stored EXCEPT ![setting[c].key] = Compressed(setting[c])]
    BY <1>3 DEF SetStore
  <2>4. Compressed(setting[c]).value \in Typed
    BY <2>1, CompressedValue DEF OfTypeV
  <2>5. \A k \in Keys : stored'[k].value \in Typed \cup {Nothing}
    BY <1>0, <2>3, <2>4 DEF OfTypeV
  <2> QED BY <1>1, <2>2, <2>5 DEF OfTypeV
<1>4. ASSUME NEW k \in Keys, Delete(k) PROVE OfTypeV'
  BY <1>0, <1>1, <1>4 DEF Delete, OfTypeV, Raw
<1>5. CASE SetCompressionConfig
  <2>1. \A c \in Clients : /\ setting'[c] # Idle => setting[c] # Idle
                           /\ setting[c] # Idle =>
                                 setting'[c].value = setting[c].value
    <3> SUFFICES ASSUME NEW c \in Clients, setting[c] # Idle
                 PROVE  [setting[c] EXCEPT !.raced = TRUE].value
                           = setting[c].value
      BY <1>5 DEF SetCompressionConfig
    <3> QED BY <1>0 DEF Sets
  <2> QED BY <1>1, <1>5, <2>1 DEF SetCompressionConfig, OfTypeV
<1>6. CASE UNCHANGED vars
  BY <1>1, <1>6 DEF vars, OfTypeV
<1> QED BY <1>2, <1>3, <1>4, <1>5, <1>6 DEF Next

LEMMA CompressionStep == CompressionInv /\ [Next]_vars => CompressionInv'
BY AgreeStep, OfTypeVStep DEF CompressionInv

\* The invariant holds along every behaviour.
LEMMA CompressionInvHolds == Spec => []CompressionInv
BY CompressionInit, CompressionStep, PTL DEF Spec

\* What is stored is a value in the form of some codec or as it is, under the
\* tag of some configuration (Set, Delete).
THEOREM TypeCorrect == Spec => []CompressionTypeOK
BY CompressionInvHolds, PTL DEF CompressionInv

-----------------------------------------------------------------------------
\* Each of the reasons that a value, its form and the type V may give.
Reasons(s) == LooksEncoded(s) \/ LostToInterface(s) \/ LostInGob(s)

LEMMA RawRight ==
    ASSUME CompressionConstants, valueType \in ValueTypes,
           NEW s, s.codec = "none", s.value \in Typed
    PROVE  GetRaw(s) = {s.value} <=> ~Reasons(s)
<1> DEFINE v == s.value
<1>1. /\ v \in Values /\ v # Error /\ v # Garbage
      /\ v.kind \in {"bytes", "nil", "object"}
      /\ v.kind = "bytes" => valueType \in {"bytes", "any"}
      /\ v.kind = "nil" => valueType \in {"any", "interface"}
  BY DEF CompressionConstants, Typed
<1>2. CASE v.kind = "object"
  <2>1. GetRaw(s) = {v}
    BY <1>1, <1>2, Zenon DEF GetRaw
  <2> QED BY <1>2, <2>1
          DEF Reasons, LooksEncoded, LostToInterface, LostInGob
<1>3. CASE v.kind = "nil"
  <2>1. v.kind # "object"
    BY <1>3
  <2>2. GetRaw(s) = {Error}
    BY <1>1, <1>3, <2>1 DEF GetRaw
  <2> QED BY <1>1, <1>3, <2>2 DEF Reasons, LostToInterface
<1>4. CASE v.kind = "bytes" /\ v.seemsEncoded
  <2>1. GetRaw(s) = {Garbage}
    BY <1>1, <1>4 DEF GetRaw
  <2> QED BY <1>1, <1>4, <2>1 DEF Reasons, LooksEncoded
<1>5. CASE v.kind = "bytes" /\ ~v.seemsEncoded
  <2>1. GetRaw(s) = IF valueType = "any" THEN {Error} ELSE {v}
    BY <1>1, <1>5 DEF GetRaw
  <2>2. Reasons(s) <=> valueType = "any"
    BY <1>1, <1>5 DEF Reasons, LooksEncoded, LostToInterface, LostInGob
  <2> QED BY <1>1, <2>1, <2>2
<1> QED BY <1>1, <1>2, <1>3, <1>4, <1>5

LEMMA CompressedRight ==
    ASSUME CompressionConstants, valueType \in ValueTypes,
           NEW s, s.codec # "none", s.codec = s.tag, s.value \in Typed
    PROVE  GetCompressed(s) = {s.value} <=> ~Reasons(s)
<1> DEFINE v == s.value
<1>1. /\ v \in Values /\ v # Error /\ v # Garbage /\ v # Panic
      /\ v.kind \in {"bytes", "nil", "object"}
      /\ v.kind = "bytes" => valueType \in {"bytes", "any"}
      /\ v.kind = "nil" => valueType \in {"any", "interface"}
      /\ v.kind = "object" => valueType # "bytes"
  BY DEF CompressionConstants, Typed
<1>2. GetCompressed(s) = Delivered(v)
  <2>1. Decompress(s) = {v}
    BY DEF Decompress
  <2>2. GetCompressed(s) =
           UNION {IF o = Error THEN {Error} ELSE Delivered(o) : o \in {v}}
    BY <2>1 DEF GetCompressed
  <2> HIDE DEF v
  <2> QED BY <1>1, <2>2, Zenon
<1>3. Reasons(s) <=> \/ valueType \in {"any", "interface"} /\ v.kind # "bytes"
                     \/ valueType = "other" /\ v.gob # "same"
  BY DEF Reasons, LooksEncoded, LostToInterface, LostInGob
<1>4. CASE valueType = "interface"
  <2>1. Delivered(v) = {Panic}
    BY <1>4 DEF Delivered
  <2> QED BY <1>1, <1>2, <1>3, <1>4, <2>1
<1>5. CASE valueType = "other"
  <2>1. Delivered(v) = Decoded(v)
    BY <1>5 DEF Delivered
  <2>2. CASE v.gob = "same"
    BY <1>1, <1>2, <1>3, <1>5, <2>1, <2>2 DEF Decoded
  <2>3. CASE v.gob = "changed"
    <3>1. Decoded(v) = {Garbage}
      BY <1>1, <2>3 DEF Decoded
    <3> QED BY <1>1, <1>2, <1>3, <1>5, <2>1, <2>3, <3>1
  <2>4. CASE v.gob # "same" /\ v.gob # "changed"
    <3>1. Decoded(v) = {Error}
      BY <1>1, <2>4 DEF Decoded
    <3> QED BY <1>1, <1>2, <1>3, <1>5, <2>1, <2>4, <3>1
  <2> QED BY <2>2, <2>3, <2>4
<1>6. CASE valueType \in {"bytes", "any"}
  <2>1. Delivered(v) = IF v.kind = "bytes" THEN {v} ELSE {Garbage}
    BY <1>1, <1>6 DEF Delivered
  <2> QED BY <1>1, <1>2, <1>3, <1>6, <2>1
<1> QED BY <1>4, <1>5, <1>6 DEF ValueTypes

LEMMA InvRight ==
    ASSUME CompressionConstants, CompressionInv
    PROVE  RightButForKnownReasons
<1> SUFFICES ASSUME NEW k \in Keys, k \notin raced,
                    stored[k].value \in Values
             PROVE  Get(k) = {stored[k].value} <=> ~Reasons(stored[k])
  BY DEF RightButForKnownReasons, Reasons
<1>1. /\ stored[k].codec = stored[k].tag
      /\ stored[k].value \in Typed
      /\ valueType \in ValueTypes
  BY DEF CompressionInv, CompressionTypeOK, UnracedAgree, OfTypeV,
         CompressionConstants
<1>2. CASE stored[k].codec = "none"
  BY <1>1, <1>2, RawRight DEF Get
<1>3. CASE stored[k].codec # "none"
  BY <1>1, <1>3, CompressedRight DEF Get
<1> QED BY <1>2, <1>3

\* Get answers what was set last exactly if none of the reasons of module
\* Compression applies, unless a change of configuration fell into the Set:
\* a change between two calls spoils nothing, for what is stored carries its
\* tag (Set, Get, SetCompressionConfig).
THEOREM RightButForKnownReasonsHolds ==
    ASSUME CompressionConstants
    PROVE  Spec => []RightButForKnownReasons
<1>1. CompressionInv => RightButForKnownReasons
  BY InvRight
<1> QED BY <1>1, CompressionInvHolds, PTL
=============================================================================
