-------------------------------- MODULE TTL --------------------------------
(***************************************************************************)
(* The arithmetic of package ttl: what durations a cache accepts, what     *)
(* they are clamped to, and when an entry expires.  Durations and instants *)
(* are integers.  Go's zero time.Time is Never = 0; the clock of every     *)
(* module that uses this one starts at 1, so the zero time lies before     *)
(* every instant, as it does in Go.                                        *)
(***************************************************************************)
EXTENDS Integers

CONSTANTS
    MinTTL,               \* Config.MinTTL
    MaxTTL,               \* Config.MaxTTL
    ZeroTTLMeansNoExpiry  \* Config.ZeroTTLMeansNoExpiry

ASSUME TTLConfigAssumption ==
    /\ MinTTL \in Nat
    /\ MaxTTL \in Nat
    /\ ZeroTTLMeansNoExpiry \in BOOLEAN

Never == 0

(***************************************************************************)
(* Validate: the error it returns, "ok" for nil.                           *)
(***************************************************************************)
Validate(ttl) ==
    CASE ttl < 0                             -> "invalid"
      [] ttl = 0                             -> IF ZeroTTLMeansNoExpiry
                                                THEN "ok" ELSE "invalid"
      [] ttl > 0 /\ ttl < MinTTL             -> "tooShort"
      [] ttl > 0 /\ ttl >= MinTTL
                 /\ ttl > MaxTTL             -> "tooLong"
      [] OTHER                               -> "ok"

\* A mutated form of Normalize: the lower bound is not applied.
NormalizeNoMin(ttl) ==
    IF ttl = 0 /\ ZeroTTLMeansNoExpiry THEN 0
    ELSE IF ttl > MaxTTL THEN MaxTTL
    ELSE ttl

Normalize(ttl) ==
    IF ttl = 0 /\ ZeroTTLMeansNoExpiry THEN 0
    ELSE IF ttl < MinTTL THEN MinTTL
    ELSE IF ttl > MaxTTL THEN MaxTTL
    ELSE ttl

GetExpirationTime(ttl, now) ==
    IF ttl = 0 /\ ZeroTTLMeansNoExpiry THEN Never ELSE now + Normalize(ttl)

IsExpired(expires, now) == expires # Never /\ now > expires
=============================================================================
