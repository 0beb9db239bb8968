----------------------------- MODULE RequestGate ------------------------------
(***************************************************************************)
(* Request admission in Redis: app/shared/adapters/request_gate.py.  Three *)
(* sorted sets of slots (all requests, those of a tenant, those of a user) *)
(* hold tokens with their expiry, two more remember the admissions of the  *)
(* last minute.  Each Lua script is one action.                            *)
(*                                                                         *)
(* The scripts give a token the same expiry in all three sets, so one      *)
(* number per request stands for it: slotLeft[r] is what is left of the    *)
(* lease, 0 when no set has the token or the next script drops it.         *)
(***************************************************************************)
EXTENDS Naturals, FiniteSets

CONSTANTS
    Requests,       \* requests under way at once; each admission has a fresh token
    Admitted,       \* those on routes that depend on admit_request
    Scoped,         \* those on /query, /ask and /answer, which run under a budget
    Tenant,         \* Tenant[r], User[r]: who asks
    User,
    GlobalLimit, TenantLimit, UserLimit,      \* request_*_concurrency
    TenantRate, UserRate,                     \* request_*_per_minute
    Lease,          \* 120 s, in ticks
    Window          \* 60 s, in ticks

ASSUME GateAssumption ==
    /\ Scoped \subseteq Admitted
    /\ Admitted \subseteq Requests
    /\ Lease \in Nat \ {0}
    /\ Window \in Nat \ {0}
    /\ {GlobalLimit, TenantLimit, UserLimit, TenantRate, UserRate} \subseteq Nat \ {0}

VARIABLES
    slotLeft,       \* slotLeft[r]: time until the slot of r expires
    rateLeft        \* rateLeft[r]: time until its admission leaves the rate windows

gateVars == <<slotLeft, rateLeft>>

OfTenant(r) == {q \in Requests : Tenant[q] = Tenant[r]}
OfUser(r) == {q \in OfTenant(r) : User[q] = User[r]}

\* ZREMRANGEBYSCORE and ZCARD: how many of S still have a slot, or a recent admission.
Held(S) == Cardinality({q \in S : slotLeft[q] > 0})
Recent(S) == Cardinality({q \in S : rateLeft[q] > 0})

HasRoom(r) ==
    /\ Held(Requests) < GlobalLimit
    /\ Held(OfTenant(r)) < TenantLimit
    /\ Held(OfUser(r)) < UserLimit
    /\ Recent(OfTenant(r)) < TenantRate
    /\ Recent(OfUser(r)) < UserRate

GateInit ==
    /\ slotLeft = [r \in Requests |-> 0]
    /\ rateLeft = [r \in Requests |-> 0]

\* Defect: the slots are given the expiry of the rate windows.
AcquireForAMinute(r) ==
    /\ HasRoom(r)
    /\ slotLeft' = [slotLeft EXCEPT ![r] = Window]
    /\ rateLeft' = [rateLeft EXCEPT ![r] = Window]

Acquire(r) ==
    /\ HasRoom(r)
    /\ slotLeft' = [slotLeft EXCEPT ![r] = Lease]
    /\ rateLeft' = [rateLeft EXCEPT ![r] = Window]

\* Defect: the script only adds the token with its new expiry.
RenewBlindly(r) ==
    /\ slotLeft' = [slotLeft EXCEPT ![r] = Lease]
    /\ UNCHANGED rateLeft

\* A renewal finds the token unexpired in every set, or changes nothing.
Renew(r) ==
    /\ slotLeft' = [slotLeft EXCEPT ![r] = IF @ > 0 THEN Lease ELSE 0]
    /\ UNCHANGED rateLeft

Release(r) ==
    /\ slotLeft' = [slotLeft EXCEPT ![r] = 0]
    /\ UNCHANGED rateLeft

GateTick ==
    /\ slotLeft' = [r \in Requests |-> IF slotLeft[r] > 0 THEN slotLeft[r] - 1 ELSE 0]
    /\ rateLeft' = [r \in Requests |-> IF rateLeft[r] > 0 THEN rateLeft[r] - 1 ELSE 0]

===============================================================================
