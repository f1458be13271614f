----------------------------- MODULE Compression -----------------------------
(***************************************************************************)
(* compression.go: a cache that compresses what is set into another one.   *)
(* A Set reads the configuration to decide whether to compress and how to  *)
(* tag what it stores, and compress() reads it again to pick the codec: a  *)
(* SetCompressionConfig may fall in between.                               *)
(*                                                                         *)
(* A value is known by what decisions are taken on and by what becomes of  *)
(* it on its way through the codecs; it is a record of                     *)
(*   kind  "bytes" for a []byte, "nil" for the nil of an interface type,   *)
(*         "object" for everything else                                    *)
(*   gob   what gob does with an object: "same" if decoding gives back     *)
(*         what was encoded, "changed" if it gives something else without  *)
(*         an error (fields that are not exported, pointers to zero),      *)
(*         "unreadable" if it fails (methods of the type's own), "refused" *)
(*         if encoding does                                                *)
(*   size  its encoded size                                                *)
(*   seemsEncoded  whether its bytes are what one of the decoders accepts. *)
(* A nil []byte counts as an empty one.  A nil pointer is no value here:   *)
(* gob panics on it and the Set stores nothing.  Nor is a CompressedValue, *)
(* or anything whose Unwrap gives one.                                     *)
(* The inner cache keeps what it is given until it is deleted, and may     *)
(* refuse a Set.  Statistics are left out.                                 *)
(***************************************************************************)
EXTENDS Naturals

CONSTANTS
    Keys, Clients,
    Values,   \* records as above
    Configs,  \* records of the fields algorithm, works, minSize and maxSize;
              \* works: the algorithm is known and accepts the level
    Nothing, Garbage, Error, Panic  \* what Get may answer besides: no value,
              \* a value nobody set, an error; the last is no answer at all

\* What the values must be, stated where the module is used.
CompressionConstants ==
    /\ {Nothing, Garbage, Error, Panic} \cap Values = {}
    /\ \A v \in Values : /\ v.kind \in {"bytes", "nil", "object"}
                         /\ v.kind = "nil" => v.gob = "refused"

\* The zlib writer starts with bytes that the LZW reader may accept; no other
\* reader takes what another writer wrote.
Mistaken(codec, tag) == codec = "zlib" /\ tag = "lzw"

VARIABLES
    valueType,  \* V: "bytes" for []byte, "any", "interface" for one that
                \* has methods, "other" for the other types
    config,     \* cc.config
    stored,     \* [Keys -> what the inner cache holds: a value that was set,
                \* and how it is encoded]
    setting,    \* [Clients -> the Set in progress]
    raced       \* history: the keys whose last Set met a change of the
                \* configuration between its two reads

vars == <<valueType, config, stored, setting, raced>>

Idle == [pc |-> "idle"]
Raw(v) == [codec |-> "none", tag |-> "none", value |-> v]

ValueTypes == {"bytes", "any", "interface", "other"}

\* The values of type V: a []byte has no methods, and no type but an interface
\* has the nil that is meant here.
Typed ==
    {v \in Values : /\ v.kind = "bytes" => valueType \in {"bytes", "any"}
                    /\ v.kind = "nil" => valueType \in {"any", "interface"}
                    /\ v.kind = "object" => valueType # "bytes"}

Init ==
    /\ valueType \in ValueTypes
    /\ config \in Configs
    /\ stored = [k \in Keys |-> Raw(Nothing)]
    /\ setting = [c \in Clients |-> Idle]
    /\ raced = {}

-----------------------------------------------------------------------------
\* A Set that has read the configuration and encoded its value.
SetBegin(c) ==
    /\ setting[c] = Idle
    /\ \E k \in Keys, v \in Typed :
          setting' = [setting EXCEPT ![c] =
                         [pc |-> "store", key |-> k, value |-> v,
                          config |-> config, raced |-> FALSE]]
    /\ UNCHANGED <<valueType, config, stored, raced>>

ToCompress(s) ==
    /\ s.value.kind = "bytes" \/ s.value.gob # "refused"
    /\ s.value.size \in s.config.minSize .. s.config.maxSize

\* compress() and what Set makes of its result: the codec is that of the
\* configuration of now, or none if that does not work; the tag is that of the
\* configuration read before.
Compressed(s) ==
    IF ToCompress(s) /\ config.works
    THEN [codec |-> config.algorithm, tag |-> s.config.algorithm,
          value |-> s.value]
    ELSE Raw(s.value)

SetStore(c) ==
    /\ setting[c] # Idle
    /\ LET s == setting[c] IN
       \/ /\ stored' = [stored EXCEPT ![s.key] = Compressed(s)]
          /\ raced' = IF s.raced THEN raced \cup {s.key} ELSE raced \ {s.key}
       \/ UNCHANGED <<stored, raced>>
    /\ setting' = [setting EXCEPT ![c] = Idle]
    /\ UNCHANGED <<valueType, config>>

\* Delete of the inner cache, or the loss of an entry there.
Delete(k) ==
    /\ stored' = [stored EXCEPT ![k] = Raw(Nothing)]
    /\ UNCHANGED <<valueType, config, setting, raced>>

SetCompressionConfig ==
    /\ config' \in Configs \ {config}
    /\ setting' = [c \in Clients |->
                     IF setting[c] = Idle THEN Idle
                     ELSE [setting[c] EXCEPT !.raced = TRUE]]
    /\ UNCHANGED <<valueType, stored, raced>>

Next ==
    \/ \E c \in Clients : SetBegin(c) \/ SetStore(c)
    \/ \E k \in Keys : Delete(k)
    \/ SetCompressionConfig

Spec == Init /\ [][Next]_vars

-----------------------------------------------------------------------------
\* A mutated form of Decompress: by the algorithm of the configuration.
DecompressConfigured(s) ==
    IF s.codec = config.algorithm THEN {s.value}
    ELSE {Error} \cup (IF Mistaken(s.codec, config.algorithm) THEN {Garbage}
                       ELSE {})

\* decompressWithAlgorithm of what was stored: the possible outcomes.
Decompress(s) ==
    IF s.codec = s.tag THEN {s.value}
    ELSE {Error} \cup (IF Mistaken(s.codec, s.tag) THEN {Garbage} ELSE {})

\* What gob makes of what was decompressed.  It may take garbage for a value.
Decoded(o) ==
    CASE o = Garbage -> {Garbage, Error}
      [] o # Garbage /\ o.gob = "same" -> {o}
      [] o # Garbage /\ o.gob = "changed" -> {Garbage}
      [] OTHER -> {Error}

\* Under every interface type, as under []byte, the decompressed bytes are the
\* answer, those that gob made among them.  They have none of the methods that
\* an interface asks for.
Delivered(o) ==
    CASE valueType = "interface" -> {Panic}
      [] valueType = "other" -> Decoded(o)
      [] valueType \in {"bytes", "any"} ->
            IF o # Garbage /\ o.kind = "bytes" THEN {o} ELSE {Garbage}

GetCompressed(s) ==
    UNION {IF o = Error THEN {Error} ELSE Delivered(o) : o \in Decompress(s)}

\* Get of a value that is not compressed: bytes go through the decoders first,
\* and are an error under the type any if none accepts them; nil has no type
\* that an assertion could find.
GetRaw(s) ==
    LET v == s.value IN
    IF v \notin Values THEN {v} ELSE
    CASE v.kind = "object" -> {v}
      [] v.kind = "nil" -> {Error}
      [] v.kind = "bytes" /\ v.seemsEncoded -> {Garbage}
      [] v.kind = "bytes" /\ ~v.seemsEncoded ->
            IF valueType = "any" THEN {Error} ELSE {v}

\* What Get may answer.
Get(k) == IF stored[k].codec = "none" THEN GetRaw(stored[k])
          ELSE GetCompressed(stored[k])

-----------------------------------------------------------------------------
Names == {cfg.algorithm : cfg \in Configs}
Forms == [codec : Names, tag : Names, value : Values]
Sets == [pc : {"store"}, key : Keys, value : Values, config : Configs,
         raced : BOOLEAN]

CompressionTypeOK ==
    /\ valueType \in ValueTypes
    /\ config \in Configs
    /\ stored \in [Keys -> Forms \cup {Raw(v) : v \in Values \cup {Nothing}}]
    /\ setting \in [Clients -> Sets \cup {Idle}]
    /\ raced \subseteq Keys

\* What Get takes for a value that a Set had compressed, and is not.
LooksEncoded(s) ==
    s.codec = "none" /\ s.value.kind = "bytes" /\ s.value.seemsEncoded

\* What cannot come back under an interface type, which Get takes for []byte:
\* bytes that were not compressed, other values that were, and nil.
LostToInterface(s) ==
    /\ valueType \in {"any", "interface"}
    /\ IF s.codec = "none" THEN s.value.kind # "object"
       ELSE s.value.kind # "bytes"

\* What gob does not give back as it was.
LostInGob(s) ==
    valueType = "other" /\ s.codec # "none" /\ s.value.gob # "same"

\* However often the configuration has changed since, Get answers what was
\* set last, unless a change fell into that very Set or the value, the way it
\* was stored and the type V are of one of three kinds: then it never does.
\* That Set compressed a value, and with which codec, spoils nothing else.
RightButForKnownReasons ==
    \A k \in Keys \ raced :
        LET s == stored[k]
        IN  s.value \in Values =>
              (Get(k) = {s.value} <=>
                  ~(LooksEncoded(s) \/ LostToInterface(s) \/ LostInGob(s)))
=============================================================================
