------------------------------- MODULE Timing -------------------------------
(***************************************************************************)
(* Expirations: perform() and SetTTL turn a duration into an absolute time *)
(* in milliseconds, GetTTL turns one back into a duration, LockObject      *)
(* rounds to seconds (client.go, operations.go).  The clock of the client  *)
(* counts nanoseconds and never goes back; the server keeps what it is     *)
(* told, and other writers may have stored any 64-bit value.               *)
(*                                                                         *)
(* A definition named Fault... is a deliberately wrong variant of the one  *)
(* below it; no specification uses it.                                     *)
(***************************************************************************)
EXTENDS Integers

CONSTANTS
    NsPerMs, MsPerSecond,   \* 10^6 and 1000
    MaxInt64, MaxUint32,    \* 2^63 - 1 and 2^32 - 1
    Durations,              \* what a caller may pass as time.Duration
    Foreign,                \* expirations stored by other writers
    Clock,                  \* bound: the times the model covers, in ns
    NoTime                     \* a nil pointer

ASSUME TimingAssumption ==
    /\ NsPerMs \in Nat /\ NsPerMs > 2
    /\ MsPerSecond \in Nat \ {0}
    /\ MaxInt64 \in Nat /\ MaxUint32 \in Nat
    /\ Durations \subseteq Int /\ Clock \subseteq Int
    /\ \A t \in Clock : -MaxInt64 <= 2 * t /\ 2 * t <= MaxInt64
    /\ Foreign \subseteq 0..(2 * MaxInt64 + 1)
    /\ NoTime \notin Int

VARIABLES
    now,        \* time.Now(), in ns since the epoch
    ttl,        \* the expiration the server holds, or NoTime
    given,      \* history: [at, d] of the call that set ttl, or NoTime
    lock,       \* the last lock request, [at, d, expiry], or NoTime
    got         \* the last GetTTL, [at, expires, code, remaining], or NoTime

timingVars == <<now, ttl, given, lock, got>>
-----------------------------------------------------------------------------
(* Conversions to int64 and uint64.                                        *)
Int64(x) == ((x + MaxInt64 + 1) % (2 * MaxInt64 + 2)) - MaxInt64 - 1
Uint64(x) == x % (2 * MaxInt64 + 2)

UnixMilli(t) == t \div NsPerMs
Milliseconds(d) == d \div NsPerMs

(* Fault (TTLReadBack): the TTL is added in its own unit.                  *)
FaultExpiry(t, d) == Uint64(UnixMilli(t) + d)

(* uint64(time.Now().Add(ttl).UnixMilli())                                 *)
Expiry(t, d) == Uint64(UnixMilli(t + d))

(* The bounds of a time.Duration in milliseconds; the code's division      *)
(* rounds toward zero.                                                     *)
MaxMillis == MaxInt64 \div NsPerMs
MinMillis == -((MaxInt64 + 1) \div NsPerMs)

(* Fault (RemainingTrue): an expiration in the past is not checked.        *)
FaultInRange(expires, ms) ==
    expires <= MaxInt64 /\ Int64(expires - ms) <= MaxMillis

(* The remaining time fits a time.Duration.                                *)
InRange(expires, ms) ==
    /\ expires <= MaxInt64
    /\ Int64(expires - ms) <= MaxMillis
    /\ Int64(expires - ms) >= MinMillis

(* The result of GetTTL at time t for the expiration e.                    *)
TTLResult(t, e) ==
    IF e = NoTime THEN [at |-> t, expires |-> NoTime, code |-> "OK", remaining |-> NoTime]
    ELSE IF InRange(e, UnixMilli(t))
    THEN [at |-> t, expires |-> e, code |-> "OK",
          remaining |-> Int64(Int64(e - UnixMilli(t)) * NsPerMs)]
    ELSE [at |-> t, expires |-> e, code |-> "OutOfRange", remaining |-> NoTime]

(* The division of signed integers rounds toward zero.                     *)
Quo(x, m) == IF x >= 0 THEN x \div m ELSE -((-x) \div m)

(* Fault (LockLasts): the duration is added in its own unit.               *)
FaultLockSeconds(t, d) == Quo(UnixMilli(t) + d, MsPerSecond)

LockSeconds(t, d) == Quo(UnixMilli(t) + Milliseconds(d), MsPerSecond)
-----------------------------------------------------------------------------
TimingInit == now \in Clock /\ ttl = NoTime /\ given = NoTime /\ lock = NoTime /\ got = NoTime

Tick ==
    /\ now' \in {t \in Clock : t > now}
    /\ UNCHANGED <<ttl, given, lock, got>>

(* A negative TTL is refused and nothing is sent.                          *)
SetTTL(d) ==
    /\ d >= 0
    /\ ttl' = Expiry(now, d) /\ given' = [at |-> now, d |-> d]
    /\ UNCHANGED <<now, lock, got>>

(* A creation or an update: perform() leaves a zero TTL out.               *)
Store(d) ==
    /\ d >= 0
    /\ IF d = 0 THEN ttl' = NoTime /\ given' = NoTime
       ELSE ttl' = Expiry(now, d) /\ given' = [at |-> now, d |-> d]
    /\ UNCHANGED <<now, lock, got>>

OtherWriter ==
    /\ ttl' \in Foreign \cup {NoTime}
    /\ given' = NoTime
    /\ UNCHANGED <<now, lock, got>>

GetTTL ==
    /\ got' = TTLResult(now, ttl)
    /\ UNCHANGED <<now, ttl, given, lock>>

(* A lock without a duration carries no expiration; one that does not fit  *)
(* 32 bits is refused.                                                     *)
LockObject(d) ==
    /\ d >= 0
    /\ d > 0 => LockSeconds(now, d) \in 0..MaxUint32
    /\ lock' = [at |-> now, d |-> d,
                expiry |-> IF d > 0 THEN LockSeconds(now, d) ELSE NoTime]
    /\ UNCHANGED <<now, ttl, given, got>>

TimingNext ==
    \/ Tick \/ OtherWriter \/ GetTTL
    \/ \E d \in Durations : SetTTL(d) \/ Store(d) \/ LockObject(d)

TimingSpec == TimingInit /\ [][TimingNext]_timingVars
-----------------------------------------------------------------------------
TrueRemaining(g) == (g.expires - UnixMilli(g.at)) * NsPerMs

(* GetTTL reports the difference of the two times or OutOfRange, and the   *)
(* latter exactly when the difference is no time.Duration: the subtraction *)
(* and the multiplication in 64 bits never wrap into a plausible duration, *)
(* also for expirations no client would write and clocks before 1970.      *)
RemainingTrue ==
    got # NoTime /\ got.expires # NoTime =>
        IF -MaxInt64 - 1 <= TrueRemaining(got) /\ TrueRemaining(got) <= MaxInt64
        THEN got.code = "OK" /\ got.remaining = TrueRemaining(got)
        ELSE got.code = "OutOfRange"

(* A client that reads back the TTL it has set finds what is left of it to *)
(* within a millisecond, however long after and in whichever milliseconds  *)
(* the two calls fall.                                                     *)
TTLReadBack ==
    /\ got # NoTime /\ got.code = "OK"
    /\ given # NoTime /\ got.expires = ttl /\ given.at <= got.at
    /\ given.at + given.d \in 0..MaxInt64
    => LET left == given.d - (got.at - given.at)
       IN  left - NsPerMs < got.remaining /\ got.remaining < left + NsPerMs

(* README.md:158 "The lock duration is truncated to whole seconds and      *)
(* added to the current Unix time", and FINDINGS.md:112.                   *)
DocumentedExpiry(t, d) ==
    UnixMilli(t) \div MsPerSecond + Milliseconds(d) \div MsPerSecond

(* A lock that LockObject accepts is requested to within a second of the   *)
(* time asked, and for no longer unless that time lies before 1970, where  *)
(* the sum is rounded up to zero; one of a second or more has not run out  *)
(* when it is requested (whole milliseconds).  The code truncates the sum, *)
(* not the duration: the expiration is the documented one or, when the     *)
(* parts below a second add up to one, a second later.                     *)
LockLasts ==
    lock # NoTime /\ lock.expiry # NoTime =>
        LET end == UnixMilli(lock.at) + Milliseconds(lock.d)
            till == lock.expiry * MsPerSecond
            carry == (UnixMilli(lock.at) % MsPerSecond)
                     + (Milliseconds(lock.d) % MsPerSecond) >= MsPerSecond
        IN  /\ end - MsPerSecond < till /\ till < end + MsPerSecond
            /\ end >= 0 => till <= end
            /\ Milliseconds(lock.d) >= MsPerSecond => till > UnixMilli(lock.at)
            /\ lock.at >= 0 =>
                  lock.expiry = DocumentedExpiry(lock.at, lock.d)
                                + (IF carry THEN 1 ELSE 0)
=============================================================================
