----------------------------- MODULE Serving_proofs -----------------------------
(***************************************************************************)
(* Proofs about Serving, for any number of requests, connections and       *)
(* selections, and any limits.                                             *)
(*                                                                         *)
(* The lease is why the limits hold: what is left of a slot always exceeds *)
(* what is left of the budget that runs under it, and of the time a call   *)
(* may outlast it (LeaseInv), so whoever runs still counts as a holder.    *)
(***************************************************************************)
EXTENDS Serving, FiniteSetTheorems, TLAPS

\* The scripts never admit more holders than the limits.
GateInv ==
    /\ Held(Requests) <= GlobalLimit
    /\ \A r \in Requests : Held(OfTenant(r)) <= TenantLimit /\ Held(OfUser(r)) <= UserLimit

\* A slot outlasts the budget of its request.
LeaseInv ==
    /\ \A r \in Scoped : Running(r) => left[r] < slotLeft[r]
    /\ \A r \in Requests : phase[r] \in {"absent", "done"} =>
        ~renewer[r] /\ left[r] = Deadline + Grace

\* The semaphore counts, and a connection is in the pool or with one thread.
Holders == {r \in Requests : phase[r] \in HoldsSlot}
PoolInv ==
    /\ slots + Cardinality(Holders) = MaxConn
    /\ \A r \in Requests : phase[r] \in HoldsConn <=> held[r] # NoConn
    /\ \A q, r \in Requests : held[r] # NoConn /\ held[q] = held[r] => q = r
    /\ \A r \in Requests : held[r] \notin idle

\* A monitor thread lives while its request has the connection.
TargetInv ==
    \A r \in Requests : target[r] # NoConn =>
        held[r] = target[r] /\ phase[r] \in {"query", "join"}

\* The future of a build that is under way is pending.
BuildInv ==
    \A s \in Selections :
        /\ builds[s] = IF future[s] = "pending" THEN 1 ELSE 0
        /\ s \in loading => builds[s] = 1

IndInv == TypeOK /\ GateInv /\ LeaseInv /\ PoolInv /\ TargetInv /\ BuildInv

-------------------------------------------------------------------------------
(***************************************************************************)
(* Counting.                                                               *)
(***************************************************************************)
USE DEF Over, HoldsSlot, HoldsConn

Phases == Over \cup HoldsSlot \cup {"slot", "runtime", "work", "native", "gateway"}

LEMMA FiniteRequests ==
  /\ IsFiniteSet(Requests) /\ \A S \in SUBSET Requests : IsFiniteSet(S) /\ Cardinality(S) \in Nat
  /\ IsFiniteSet(Holders) /\ Cardinality(Holders) \in Nat
  <1>1. IsFiniteSet(Requests)
    BY PoolAssumption, ServingAssumption
  <1>2. \A S \in SUBSET Requests : IsFiniteSet(S) /\ Cardinality(S) \in Nat
    BY <1>1, FS_Subset, FS_CardinalityType
  <1>3. Holders \in SUBSET Requests
    BY DEF Holders
  <1> QED
    BY <1>1, <1>2, <1>3

(* Who holds a slot of the semaphore, when request r goes to phase p. *)
LEMMA HoldersMove ==
  ASSUME TypeOK, NEW r \in Requests, NEW p, phase' = [phase EXCEPT ![r] = p]
  PROVE  /\ Cardinality(Holders') \in Nat
         /\ (phase[r] \in HoldsSlot <=> p \in HoldsSlot) => Holders' = Holders
         /\ phase[r] \notin HoldsSlot /\ p \in HoldsSlot
              => Cardinality(Holders') = Cardinality(Holders) + 1
         /\ phase[r] \in HoldsSlot /\ p \notin HoldsSlot
              => Cardinality(Holders') = Cardinality(Holders) - 1
  <1>1. phase'[r] = p /\ \A q \in Requests \ {r} : phase'[q] = phase[q]
    BY DEF TypeOK
  <1>2. Holders' = {q \in Requests : phase'[q] \in HoldsSlot}
    BY DEF Holders
  <1> USE FiniteRequests
  <1>3. ASSUME phase[r] \in HoldsSlot <=> p \in HoldsSlot
        PROVE  Holders' = Holders
    BY <1>1, <1>2, <1>3 DEF Holders
  <1>4. ASSUME phase[r] \notin HoldsSlot, p \in HoldsSlot
        PROVE  Cardinality(Holders') = Cardinality(Holders) + 1
    <2>1. Holders' = Holders \cup {r} /\ r \notin Holders
      BY <1>1, <1>2, <1>4 DEF Holders
    <2> QED
      BY <2>1, FS_AddElement
  <1>5. ASSUME phase[r] \in HoldsSlot, p \notin HoldsSlot
        PROVE  Cardinality(Holders') = Cardinality(Holders) - 1
    <2>1. Holders' = Holders \ {r} /\ r \in Holders
      BY <1>1, <1>2, <1>5 DEF Holders
    <2> QED
      BY <2>1, FS_RemoveElement
  <1>6. Cardinality(Holders') \in Nat
    <2>1. Holders' \in SUBSET Requests
      BY <1>2
    <2> QED
      BY <2>1
  <1> QED
    BY <1>3, <1>4, <1>5, <1>6

(* Slots that go, or stay, leave every limit kept. *)
LEMMA HeldShrinks ==
  ASSUME NEW S \in SUBSET Requests,
         \A r \in Requests : slotLeft'[r] > 0 => slotLeft[r] > 0
  PROVE  Held(S)' <= Held(S)
  <1>1. {q \in S : slotLeft'[q] > 0} \in SUBSET {q \in S : slotLeft[q] > 0}
    OBVIOUS
  <1>2. IsFiniteSet({q \in S : slotLeft[q] > 0})
    BY FiniteRequests
  <1>3. Cardinality({q \in S : slotLeft'[q] > 0}) <= Cardinality({q \in S : slotLeft[q] > 0})
    BY <1>1, <1>2, FS_Subset
  <1> QED
    BY <1>3 DEF Held

LEMMA HeldIsNat ==
  ASSUME NEW S \in SUBSET Requests
  PROVE  Held(S) \in Nat /\ Held(S)' \in Nat
  BY FiniteRequests DEF Held

LEMMA OfSets ==
  ASSUME NEW r \in Requests
  PROVE  OfTenant(r) \in SUBSET Requests /\ OfUser(r) \in SUBSET Requests
  BY DEF OfTenant, OfUser

LEMMA GateShrinks ==
  ASSUME GateInv, \A r \in Requests : slotLeft'[r] > 0 => slotLeft[r] > 0
  PROVE  GateInv'
  <1>1. /\ GlobalLimit \in Nat /\ TenantLimit \in Nat /\ UserLimit \in Nat
    BY GateAssumption
  <1>2. Held(Requests)' <= Held(Requests) /\ Held(Requests) \in Nat /\ Held(Requests)' \in Nat
    BY HeldShrinks, HeldIsNat
  <1>3. ASSUME NEW r \in Requests
        PROVE  Held(OfTenant(r))' <= TenantLimit /\ Held(OfUser(r))' <= UserLimit
    <2> DEFINE T == OfTenant(r)
               U == OfUser(r)
    <2>1. T \in SUBSET Requests /\ U \in SUBSET Requests
      BY OfSets
    <2>2. Held(T) <= TenantLimit /\ Held(U) <= UserLimit
      BY DEF GateInv
    <2>3. /\ Held(T)' <= Held(T) /\ Held(T) \in Nat /\ Held(T)' \in Nat
          /\ Held(U)' <= Held(U) /\ Held(U) \in Nat /\ Held(U)' \in Nat
      <3>1. T' = T /\ U' = U
        BY DEF OfTenant, OfUser
      <3> HIDE DEF T, U
      <3> QED
        BY <2>1, <3>1, HeldShrinks, HeldIsNat
    <2> HIDE DEF T, U
    <2>4. Held(T)' <= TenantLimit /\ Held(U)' <= UserLimit
      BY <1>1, <2>2, <2>3
    <2> QED
      BY <2>4 DEF T, U
  <1> QED
    BY <1>1, <1>2, <1>3 DEF GateInv

(* An admission, within the limits, adds one holder. *)
LEMMA HeldGrows ==
  ASSUME TypeOK, NEW S \in SUBSET Requests, NEW r \in Requests, Acquire(r)
  PROVE  Held(S)' <= IF r \in S THEN Held(S) + 1 ELSE Held(S)
  <1> DEFINE H == {q \in S : slotLeft[q] > 0}
  <1>1. Lease > 0 /\ slotLeft'[r] = Lease /\ \A q \in Requests \ {r} : slotLeft'[q] = slotLeft[q]
    BY GateAssumption DEF Acquire, TypeOK
  <1>2. IsFiniteSet(H) /\ Cardinality(H) \in Nat
    BY FiniteRequests
  <1>3. Cardinality({q \in S : slotLeft'[q] > 0}) <= IF r \in S THEN Cardinality(H) + 1 ELSE Cardinality(H)
    <2>1. CASE r \in S
      <3>1. {q \in S : slotLeft'[q] > 0} = H \cup {r}
        BY <1>1, <2>1
      <3>2. Cardinality(H \cup {r}) <= Cardinality(H) + 1
        <4> HIDE DEF H
        <4>1. Cardinality(H \cup {r}) = IF r \in H THEN Cardinality(H) ELSE Cardinality(H) + 1
          BY <1>2, FS_AddElement
        <4> QED
          BY <1>2, <4>1
      <3> QED
        BY <2>1, <3>1, <3>2
    <2>2. CASE r \notin S
      <3>1. {q \in S : slotLeft'[q] > 0} = H
        BY <1>1, <2>2
      <3> QED
        BY <1>2, <2>2, <3>1
    <2> QED
      BY <2>1, <2>2
  <1> QED
    BY <1>3 DEF Held

LEMMA AcquireKeepsGate ==
  ASSUME TypeOK, GateInv, NEW r \in Requests, Acquire(r)
  PROVE  GateInv'
  <1>1. /\ GlobalLimit \in Nat /\ TenantLimit \in Nat /\ UserLimit \in Nat
    BY GateAssumption
  <1>2. /\ Held(Requests) < GlobalLimit /\ Held(OfTenant(r)) < TenantLimit
        /\ Held(OfUser(r)) < UserLimit
    BY DEF Acquire, HasRoom
  <1>3. Held(Requests)' <= GlobalLimit
    <2>1. Held(Requests)' <= Held(Requests) + 1 /\ Held(Requests) \in Nat /\ Held(Requests)' \in Nat
      BY HeldGrows, HeldIsNat
    <2> QED
      BY <1>1, <1>2, <2>1
  <1>4. ASSUME NEW q \in Requests
        PROVE  Held(OfTenant(q))' <= TenantLimit
    <2> DEFINE T == OfTenant(q)
    <2>1. T \in SUBSET Requests
      BY OfSets
    <2>2. Held(T) <= TenantLimit
      BY DEF GateInv
    <2>3. r \in T => T = OfTenant(r)
      BY DEF OfTenant
    <2> HIDE DEF T
    <2>4. Held(T) \in Nat /\ Held(T)' \in Nat
      BY <2>1, HeldIsNat
    <2>5. Held(T)' <= IF r \in T THEN Held(T) + 1 ELSE Held(T)
      BY <2>1, HeldGrows
    <2>6. r \in T => Held(T) < TenantLimit
      BY <1>2, <2>3
    <2>7. Held(T)' <= TenantLimit
      BY <1>1, <2>2, <2>4, <2>5, <2>6
    <2> QED
      BY <2>7 DEF T
  <1>5. ASSUME NEW q \in Requests
        PROVE  Held(OfUser(q))' <= UserLimit
    <2> DEFINE U == OfUser(q)
    <2>1. U \in SUBSET Requests
      BY OfSets
    <2>2. Held(U) <= UserLimit
      BY DEF GateInv
    <2>3. r \in U => U = OfUser(r)
      BY DEF OfUser, OfTenant
    <2> HIDE DEF U
    <2>4. Held(U) \in Nat /\ Held(U)' \in Nat
      BY <2>1, HeldIsNat
    <2>5. Held(U)' <= IF r \in U THEN Held(U) + 1 ELSE Held(U)
      BY <2>1, HeldGrows
    <2>6. r \in U => Held(U) < UserLimit
      BY <1>2, <2>3
    <2>7. Held(U)' <= UserLimit
      BY <1>1, <2>2, <2>4, <2>5, <2>6
    <2> QED
      BY <2>7 DEF U
  <1> QED
    BY <1>3, <1>4, <1>5 DEF GateInv

-------------------------------------------------------------------------------
(***************************************************************************)
(* The parts of the invariant a step cannot disturb.                       *)
(***************************************************************************)

(* A handler goes from place to place and leaves its lease alone. *)
LEMMA LeaseStays ==
  ASSUME TypeOK, LeaseInv, NEW r \in Requests, NEW p, p \notin {"absent", "done"},
         phase' = [phase EXCEPT ![r] = p], Running(r), UNCHANGED <<slotLeft, left, renewer>>
  PROVE  LeaseInv'
  <1>1. phase'[r] = p /\ \A q \in Requests \ {r} : phase'[q] = phase[q]
    BY DEF TypeOK
  <1>2. \A q \in Scoped : Running(q)' => Running(q)
    BY <1>1, GateAssumption DEF Running
  <1>3. \A q \in Requests : phase'[q] \in {"absent", "done"} => phase[q] \in {"absent", "done"}
    BY <1>1
  <1> QED
    BY <1>2, <1>3, GateAssumption DEF LeaseInv

(* A step outside a transaction leaves the pool and the monitors alone. *)
LEMMA PoolStays ==
  ASSUME TypeOK, PoolInv, TargetInv, NEW r \in Requests, NEW p,
         phase' = [phase EXCEPT ![r] = p], phase[r] \notin HoldsSlot, p \notin HoldsSlot,
         UNCHANGED <<poolVars, target>>
  PROVE  PoolInv' /\ TargetInv'
  <1>1. phase'[r] = p /\ \A q \in Requests \ {r} : phase'[q] = phase[q]
    BY DEF TypeOK
  <1>2. Holders' = Holders
    BY HoldersMove
  <1>3. \A q \in Requests : phase'[q] \in HoldsConn <=> phase[q] \in HoldsConn
    BY <1>1
  <1>4. PoolInv'
    BY <1>2, <1>3 DEF PoolInv, poolVars
  <1>5. TargetInv'
    BY <1>1 DEF TargetInv, poolVars
  <1> QED
    BY <1>4, <1>5

LEMMA RequestsAlone ==
  ASSUME IndInv, UNCHANGED <<phase, left, renewer, slotLeft>>
  PROVE  GateInv' /\ LeaseInv'
  BY DEF IndInv, GateInv, LeaseInv, Held, Running, OfTenant, OfUser

LEMMA PoolAlone ==
  ASSUME IndInv, UNCHANGED <<phase, poolVars, target>>
  PROVE  PoolInv' /\ TargetInv'
  BY DEF IndInv, PoolInv, TargetInv, Holders, poolVars

LEMMA BuildsAlone ==
  ASSUME IndInv, UNCHANGED runtimeVars
  PROVE  BuildInv'
  BY DEF IndInv, BuildInv, runtimeVars

-------------------------------------------------------------------------------
(***************************************************************************)
(* Admission and the renewal of a slot.                                    *)
(***************************************************************************)
LEMMA AdmitKeeps ==
  ASSUME IndInv, NEW r \in Requests, Admit(r)
  PROVE  IndInv'
  <1> USE DEF IndInv
  <1> DEFINE p == IF r \in Scoped THEN "slot" ELSE "work"
  <1>1. /\ phase[r] = "absent" /\ Acquire(r) /\ phase' = [phase EXCEPT ![r] = p]
        /\ UNCHANGED <<poolVars, runtimeVars, ok, left, inflight, target, tries>>
    BY DEF Admit, Goto
  <1>2. p \in {"slot", "work"}
    OBVIOUS
  <1>3. TypeOK'
    BY GateAssumption, <1>1 DEF Admit, Goto, Acquire, TypeOK, poolVars, runtimeVars
  <1>4. GateInv'
    BY <1>1, AcquireKeepsGate
  <1>5. LeaseInv'
    <2>1. /\ phase'[r] = p /\ slotLeft'[r] = Lease
          /\ \A q \in Requests \ {r} : /\ phase'[q] = phase[q] /\ slotLeft'[q] = slotLeft[q]
                                       /\ renewer'[q] = renewer[q]
      BY <1>1 DEF TypeOK, Acquire, Admit
    <2>2. left' = left /\ left[r] = Deadline + Grace
      BY <1>1 DEF LeaseInv
    <2>3. \A q \in Scoped : Running(q)' => left'[q] < slotLeft'[q]
      BY <2>1, <2>2, GateAssumption, ServingAssumption DEF LeaseInv, Running
    <2>4. \A q \in Requests : phase'[q] \in {"absent", "done"} =>
            ~renewer'[q] /\ left'[q] = Deadline + Grace
      BY <1>2, <2>1, <2>2 DEF LeaseInv
    <2> QED
      BY <2>3, <2>4 DEF LeaseInv
  <1>6. PoolInv' /\ TargetInv'
    <2> HIDE DEF p
    <2>1. phase[r] \notin HoldsSlot /\ p \notin HoldsSlot
      BY <1>1, <1>2
    <2> QED
      BY <1>1, <2>1, PoolStays
  <1>7. BuildInv'
    BY <1>1, BuildsAlone
  <1> QED
    BY <1>3, <1>4, <1>5, <1>6, <1>7

(* An admission whose reply is lost: the slot is taken, nobody runs. *)
LEMMA ReplyLostKeeps ==
  ASSUME IndInv, NEW r \in Requests, AdmissionReplyLost(r)
  PROVE  IndInv'
  <1> USE DEF IndInv
  <1>1. /\ phase[r] = "absent" /\ Acquire(r) /\ phase' = [phase EXCEPT ![r] = "done"]
        /\ UNCHANGED <<poolVars, runtimeVars, then, ok, left, renewer, inflight, target, tries>>
    BY DEF AdmissionReplyLost, Goto
  <1>2. TypeOK'
    BY GateAssumption, <1>1 DEF Acquire, TypeOK, poolVars, runtimeVars
  <1>3. GateInv'
    BY <1>1, AcquireKeepsGate
  <1>4. LeaseInv'
    <2>1. /\ phase'[r] = "done"
          /\ \A q \in Requests \ {r} : phase'[q] = phase[q] /\ slotLeft'[q] = slotLeft[q]
      BY <1>1 DEF TypeOK, Acquire
    <2> QED
      BY <1>1, <2>1, GateAssumption DEF LeaseInv, Running
  <1>5. PoolInv' /\ TargetInv'
    BY <1>1, PoolStays
  <1>6. BuildInv'
    BY <1>1, BuildsAlone
  <1> QED
    BY <1>2, <1>3, <1>4, <1>5, <1>6

(* A request that comes, or goes, without a slot. *)
LEMMA UnadmittedKeeps ==
  ASSUME IndInv, NEW r \in Requests, Enter(r) \/ Refuse(r) \/ NewRequest(r)
  PROVE  IndInv'
  <1> USE DEF IndInv
  <1>1. PICK p \in {"work", "done", "absent"} :
          /\ phase[r] \in {"absent", "done"} /\ phase' = [phase EXCEPT ![r] = p]
          /\ p = "work" => r \notin Admitted
          /\ UNCHANGED <<gateVars, poolVars, runtimeVars, then, ok, left, renewer, inflight,
                         target, tries>>
    BY DEF Enter, Refuse, NewRequest, Goto
  <1>2. TypeOK'
    BY <1>1 DEF TypeOK, gateVars, poolVars, runtimeVars
  <1>3. GateInv'
    BY <1>1, GateShrinks DEF gateVars
  <1>4. LeaseInv'
    <2>1. phase'[r] = p /\ \A q \in Requests \ {r} : phase'[q] = phase[q]
      BY <1>1 DEF TypeOK
    <2> QED
      BY <1>1, <2>1, GateAssumption DEF LeaseInv, Running, gateVars
  <1>5. PoolInv' /\ TargetInv'
    BY <1>1, PoolStays
  <1>6. BuildInv'
    BY <1>1, BuildsAlone
  <1> QED
    BY <1>2, <1>3, <1>4, <1>5, <1>6

LEMMA SendRenewalKeeps ==
  ASSUME IndInv, NEW r \in Requests, SendRenewal(r)
  PROVE  IndInv'
  <1> USE DEF IndInv
  <1>1. UNCHANGED <<gateVars, poolVars, runtimeVars, phase, then, ok, left, renewer, target, tries>>
    BY DEF SendRenewal
  <1>2. TypeOK'
    BY <1>1 DEF SendRenewal, TypeOK, gateVars, poolVars, runtimeVars
  <1> QED
    BY <1>1, <1>2, RequestsAlone, PoolAlone, BuildsAlone DEF gateVars

(* The time that is left of a budget, when it is cancelled. *)
LEMMA Cancelled ==
  ASSUME TypeOK, NEW r \in Requests, StopRenewing(r)
  PROVE  /\ left' \in [Requests -> 0..(Deadline + Grace)]
         /\ renewer' \in [Requests -> BOOLEAN]
         /\ left'[r] <= left[r] /\ ~renewer'[r]
         /\ \A q \in Requests \ {r} : left'[q] = left[q] /\ renewer'[q] = renewer[q]
  <1>1. left[r] \in Nat /\ left[r] <= Deadline + Grace /\ Grace \in Nat /\ Deadline \in Nat
    BY ServingAssumption DEF TypeOK
  <1>2. Min({left[r], Grace}) = IF left[r] <= Grace THEN left[r] ELSE Grace
    <2>1. CASE left[r] <= Grace
      <3>1. \A x \in {left[r], Grace} : left[r] <= x
        BY <1>1, <2>1
      <3>2. \A x \in {left[r], Grace} : (\A y \in {left[r], Grace} : x <= y) => x = left[r]
        BY <1>1, <2>1
      <3> QED
        BY <2>1, <3>1, <3>2 DEF Min
    <2>2. CASE ~(left[r] <= Grace)
      <3>1. \A x \in {left[r], Grace} : Grace <= x
        BY <1>1, <2>2
      <3>2. \A x \in {left[r], Grace} : (\A y \in {left[r], Grace} : x <= y) => x = Grace
        BY <1>1, <2>2
      <3> QED
        BY <2>2, <3>1, <3>2 DEF Min
    <2> QED
      BY <2>1, <2>2
  <1>3. /\ left' = [left EXCEPT ![r] = Min({left[r], Grace})]
        /\ renewer' = [renewer EXCEPT ![r] = FALSE]
    BY DEF StopRenewing
  <1>4. Min({left[r], Grace}) \in 0..(Deadline + Grace) /\ Min({left[r], Grace}) <= left[r]
    BY <1>1, <1>2
  <1> QED
    BY <1>3, <1>4 DEF TypeOK

LEMMA RenewalArrivesKeeps ==
  ASSUME IndInv, NEW r \in Requests, RenewalArrives(r)
  PROVE  IndInv'
  <1> USE DEF IndInv
  <1>1. /\ Renew(r) /\ inflight' = [inflight EXCEPT ![r] = FALSE]
        /\ UNCHANGED <<poolVars, runtimeVars, phase, then, ok, target, tries>>
    BY DEF RenewalArrives
  <1>2. /\ slotLeft' \in [Requests -> 0..Lease] /\ rateLeft' = rateLeft
        /\ slotLeft'[r] = IF slotLeft[r] > 0 THEN Lease ELSE 0
        /\ \A q \in Requests \ {r} : slotLeft'[q] = slotLeft[q]
    BY <1>1, GateAssumption DEF Renew, TypeOK
  <1>3. /\ left' \in [Requests -> 0..(Deadline + Grace)]
        /\ renewer' \in [Requests -> BOOLEAN]
        /\ left'[r] <= left[r] /\ (renewer'[r] => renewer[r])
        /\ (left'[r] # left[r] => renewer[r])
        /\ \A q \in Requests \ {r} : left'[q] = left[q] /\ renewer'[q] = renewer[q]
    <2>1. CASE renewer[r] /\ slotLeft[r] = 0
      <3>1. StopRenewing(r)
        BY <2>1 DEF RenewalArrives
      <3> QED
        BY <2>1, <3>1, Cancelled
    <2>2. CASE ~(renewer[r] /\ slotLeft[r] = 0)
      BY <2>2, ServingAssumption DEF RenewalArrives, TypeOK
    <2> QED
      BY <2>1, <2>2
  <1>4. TypeOK'
    BY <1>1, <1>2, <1>3 DEF TypeOK, poolVars, runtimeVars
  <1>5. GateInv'
    <2>1. \A q \in Requests : slotLeft'[q] > 0 => slotLeft[q] > 0
      BY <1>2, GateAssumption DEF TypeOK
    <2> QED
      BY <2>1, GateShrinks
  <1>6. LeaseInv'
    <2>1. \A q \in Scoped : Running(q)' => left'[q] < slotLeft'[q]
      <3> SUFFICES ASSUME NEW q \in Scoped, Running(q)'
                   PROVE  left'[q] < slotLeft'[q]
        OBVIOUS
      <3>1. Running(q) /\ q \in Requests /\ left[q] < slotLeft[q]
        BY <1>1, GateAssumption DEF Running, LeaseInv
      <3>2. left[q] \in 0..(Deadline + Grace) /\ left'[q] \in 0..(Deadline + Grace)
        BY <1>3, <3>1 DEF TypeOK
      <3>3. slotLeft[q] \in 0..Lease
        BY <3>1 DEF TypeOK
      <3>4. CASE q = r
        BY <1>2, <1>3, <3>1, <3>2, <3>3, <3>4, GateAssumption, ServingAssumption
      <3>5. CASE q # r
        BY <1>2, <1>3, <3>1, <3>5
      <3> QED
        BY <3>4, <3>5
    <2>2. \A q \in Requests : phase'[q] \in {"absent", "done"} =>
            ~renewer'[q] /\ left'[q] = Deadline + Grace
      BY <1>1, <1>3 DEF LeaseInv
    <2> QED
      BY <2>1, <2>2 DEF LeaseInv
  <1> QED
    BY <1>1, <1>4, <1>5, <1>6, PoolAlone, BuildsAlone

LEMMA RenewalFailsKeeps ==
  ASSUME IndInv, NEW r \in Requests, RenewalFails(r)
  PROVE  IndInv'
  <1> USE DEF IndInv
  <1>1. /\ renewer[r] /\ StopRenewing(r) /\ inflight' \in [Requests -> BOOLEAN]
        /\ UNCHANGED <<gateVars, poolVars, runtimeVars, phase, then, ok, target, tries>>
    BY DEF RenewalFails, TypeOK
  <1>2. /\ left' \in [Requests -> 0..(Deadline + Grace)]
        /\ renewer' \in [Requests -> BOOLEAN]
        /\ left'[r] <= left[r] /\ ~renewer'[r]
        /\ \A q \in Requests \ {r} : left'[q] = left[q] /\ renewer'[q] = renewer[q]
    BY <1>1, Cancelled
  <1>3. TypeOK'
    BY <1>1, <1>2 DEF TypeOK, gateVars, poolVars, runtimeVars
  <1>4. GateInv'
    BY <1>1, GateShrinks DEF gateVars
  <1>5. LeaseInv'
    <2>1. \A q \in Scoped : Running(q)' => left'[q] < slotLeft'[q]
      <3> SUFFICES ASSUME NEW q \in Scoped, Running(q)'
                   PROVE  left'[q] < slotLeft'[q]
        OBVIOUS
      <3>1. Running(q) /\ q \in Requests /\ left[q] < slotLeft[q] /\ slotLeft' = slotLeft
        BY <1>1, GateAssumption DEF Running, LeaseInv, gateVars
      <3>2. left[q] \in 0..(Deadline + Grace) /\ left'[q] \in 0..(Deadline + Grace)
        BY <1>2, <3>1 DEF TypeOK
      <3>3. slotLeft[q] \in 0..Lease /\ left'[q] <= left[q]
        BY <1>2, <3>1, <3>2 DEF TypeOK
      <3> QED
        BY <3>1, <3>2, <3>3, GateAssumption, ServingAssumption
    <2>2. \A q \in Requests : phase'[q] \in {"absent", "done"} =>
            ~renewer'[q] /\ left'[q] = Deadline + Grace
      BY <1>1, <1>2 DEF LeaseInv
    <2> QED
      BY <2>1, <2>2 DEF LeaseInv
  <1> QED
    BY <1>1, <1>3, <1>4, <1>5, PoolAlone, BuildsAlone

LEMMA LeaveKeeps ==
  ASSUME IndInv, NEW r \in Requests, Leave(r)
  PROVE  IndInv'
  <1> USE DEF IndInv
  <1>1. /\ phase[r] = "leave" /\ phase' = [phase EXCEPT ![r] = "done"]
        /\ renewer' = [renewer EXCEPT ![r] = FALSE]
        /\ left' = [left EXCEPT ![r] = Deadline + Grace]
        /\ UNCHANGED <<poolVars, runtimeVars, then, ok, inflight, target, tries>>
    BY DEF Leave, Goto
  <1>2. /\ slotLeft' \in [Requests -> 0..Lease] /\ rateLeft' = rateLeft
        /\ \A q \in Requests \ {r} : slotLeft'[q] = slotLeft[q]
        /\ slotLeft'[r] = 0 \/ slotLeft'[r] = slotLeft[r]
    BY GateAssumption DEF Leave, Release, TypeOK, gateVars
  <1>3. TypeOK'
    <2>1. Deadline + Grace \in 0..(Deadline + Grace)
      BY ServingAssumption
    <2>2. left' \in [Requests -> 0..(Deadline + Grace)] /\ renewer' \in [Requests -> BOOLEAN]
      BY <1>1, <2>1 DEF TypeOK
    <2>3. phase' \in [Requests -> Phases]
      BY <1>1 DEF TypeOK, Phases
    <2> QED
      BY <1>1, <1>2, <2>2, <2>3 DEF TypeOK, poolVars, runtimeVars, Phases
  <1>4. GateInv'
    BY <1>2, GateShrinks
  <1>5. LeaseInv'
    <2>1. /\ phase'[r] = "done" /\ ~renewer'[r] /\ left'[r] = Deadline + Grace
          /\ \A q \in Requests \ {r} : phase'[q] = phase[q] /\ renewer'[q] = renewer[q]
                                       /\ left'[q] = left[q]
      BY <1>1 DEF TypeOK
    <2> QED
      BY <1>2, <2>1, GateAssumption DEF LeaseInv, Running
  <1>6. PoolInv' /\ TargetInv'
    BY <1>1, PoolStays
  <1> QED
    BY <1>1, <1>3, <1>4, <1>5, <1>6, BuildsAlone

-------------------------------------------------------------------------------
(***************************************************************************)
(* The handler between its transactions.                                   *)
(***************************************************************************)

(* A request that goes on to place p, outside a transaction before and     *)
(* after.                                                                  *)
LEMMA GoesOn ==
  ASSUME IndInv, NEW r \in Requests, NEW p \in {"slot", "runtime", "work", "native", "gateway", "leave"},
         phase[r] \notin HoldsSlot, Running(r), phase' = [phase EXCEPT ![r] = p],
         then' \in [Requests -> {"workspace", "work", "gateway"} \cup Selections],
         tries' \in [Requests -> 0..(MaxRetries - 1)],
         UNCHANGED <<gateVars, poolVars, ok, left, renewer, inflight, target>>,
         /\ future' \in [Selections -> {"none", "pending", "ready", "failed"}]
         /\ builds' \in [Selections -> Nat] /\ loading' \in SUBSET Selections,
         BuildInv'
  PROVE  IndInv'
  <1> USE DEF IndInv
  <1>1. TypeOK'
    <2>1. phase' \in [Requests -> Phases]
      BY DEF TypeOK, Phases
    <2> QED
      BY <2>1 DEF TypeOK, Phases, gateVars, poolVars
  <1>2. GateInv'
    BY GateShrinks DEF gateVars
  <1>3. LeaseInv'
    BY LeaseStays DEF gateVars
  <1>4. PoolInv' /\ TargetInv'
    BY PoolStays
  <1> QED
    BY <1>1, <1>2, <1>3, <1>4

LEMMA PrepareKeepsBuilds ==
  ASSUME TypeOK, BuildInv, NEW s \in Selections, Prepare(s)
  PROVE  /\ future' \in [Selections -> {"none", "pending", "ready", "failed"}]
         /\ builds' \in [Selections -> Nat] /\ loading' \in SUBSET Selections
         /\ BuildInv'
  <1>1. CASE NeedsBuild(s)
    <2>1. /\ future' = [future EXCEPT ![s] = "pending"]
          /\ builds' = [builds EXCEPT ![s] = builds[s] + 1]
          /\ loading' = loading
      BY <1>1 DEF Prepare
    <2>2. builds[s] = 0 /\ future[s] \in {"none", "failed"}
      BY <1>1 DEF NeedsBuild, BuildInv
    <2>3. /\ future' \in [Selections -> {"none", "pending", "ready", "failed"}]
          /\ builds' \in [Selections -> Nat]
      BY <2>1, <2>2 DEF TypeOK
    <2>4. /\ future'[s] = "pending" /\ builds'[s] = 1
          /\ \A t \in Selections \ {s} : future'[t] = future[t] /\ builds'[t] = builds[t]
      BY <2>1, <2>2 DEF TypeOK
    <2> QED
      BY <2>1, <2>3, <2>4 DEF BuildInv, TypeOK
  <1>2. CASE ~NeedsBuild(s)
    BY <1>2 DEF Prepare, BuildInv, TypeOK
  <1> QED
    BY <1>1, <1>2

LEMMA ChooseRuntimeKeeps ==
  ASSUME IndInv, NEW r \in Requests, ChooseRuntime(r)
  PROVE  IndInv'
  <1> USE DEF IndInv
  <1>1. /\ phase[r] = "runtime"
        /\ UNCHANGED <<gateVars, poolVars, ok, left, renewer, inflight, target, tries>>
    BY DEF ChooseRuntime
  <1>2. CASE Goto(r, "work") /\ then' = [then EXCEPT ![r] = "work"] /\ UNCHANGED runtimeVars
    <2>1. /\ future' \in [Selections -> {"none", "pending", "ready", "failed"}]
          /\ builds' \in [Selections -> Nat] /\ loading' \in SUBSET Selections
      BY <1>2 DEF TypeOK, runtimeVars
    <2>2. then' \in [Requests -> {"workspace", "work", "gateway"} \cup Selections]
          /\ tries' \in [Requests -> 0..(MaxRetries - 1)]
      BY <1>1, <1>2 DEF TypeOK
    <2>3. BuildInv'
      BY <1>2, BuildsAlone
    <2> QED
      BY <1>1, <1>2, <2>1, <2>2, <2>3, GoesOn DEF Goto, Running
  <1>3. CASE \E s \in Selections : Prepare(s) /\ then' = [then EXCEPT ![r] = s] /\ UNCHANGED phase
    <2>1. PICK s \in Selections : Prepare(s) /\ then' = [then EXCEPT ![r] = s] /\ UNCHANGED phase
      BY <1>3
    <2>2. /\ future' \in [Selections -> {"none", "pending", "ready", "failed"}]
          /\ builds' \in [Selections -> Nat] /\ loading' \in SUBSET Selections
          /\ BuildInv'
      BY <2>1, PrepareKeepsBuilds
    <2>3. then' \in [Requests -> {"workspace", "work", "gateway"} \cup Selections]
          /\ tries' \in [Requests -> 0..(MaxRetries - 1)]
      BY <1>1, <2>1 DEF TypeOK
    <2>4. phase' = [phase EXCEPT ![r] = "runtime"]
      BY <1>1, <2>1 DEF TypeOK
    <2> QED
      BY <1>1, <2>2, <2>3, <2>4, GoesOn DEF Running
  <1> QED
    BY <1>2, <1>3 DEF ChooseRuntime

LEMMA HandlerKeeps ==
  ASSUME IndInv, NEW r \in Requests,
         UseRuntime(r) \/ NextCall(r) \/ NativeEnds(r) \/ GatewayAttempt(r) \/ Finish(r)
  PROVE  IndInv'
  <1> USE DEF IndInv
  <1>1. /\ phase[r] \in {"runtime", "work", "native", "gateway"}
        /\ UNCHANGED <<gateVars, poolVars, runtimeVars, ok, left, renewer, inflight, target>>
    BY DEF UseRuntime, NextCall, NativeEnds, GatewayAttempt, Finish
  <1>2. \E p \in {"slot", "work", "native", "gateway", "leave"} : phase' = [phase EXCEPT ![r] = p]
    <2>1. CASE UseRuntime(r)
      BY <2>1 DEF UseRuntime, Goto
    <2>2. CASE NextCall(r)
      BY <2>2 DEF NextCall, Goto, Fails
    <2>3. CASE NativeEnds(r)
      BY <2>3 DEF NativeEnds, Goto, Fails
    <2>4. CASE GatewayAttempt(r)
      <3>1. CASE UNCHANGED phase
        <4>1. phase' = [phase EXCEPT ![r] = "gateway"]
          BY <2>4, <3>1 DEF GatewayAttempt, TypeOK
        <4> QED
          BY <4>1
      <3>2. CASE ~UNCHANGED phase
        BY <2>4, <3>2 DEF GatewayAttempt, Goto, Fails
      <3> QED
        BY <3>1, <3>2
    <2>5. CASE Finish(r)
      BY <2>5 DEF Finish, Goto
    <2> QED
      BY <2>1, <2>2, <2>3, <2>4, <2>5
  <1>3. then' \in [Requests -> {"workspace", "work", "gateway"} \cup Selections]
    BY DEF UseRuntime, NextCall, NativeEnds, GatewayAttempt, Finish, TypeOK
  <1>4. tries' \in [Requests -> 0..(MaxRetries - 1)]
    <2>1. CASE GatewayAttempt(r)
      <3>1. tries[r] \in 0..(MaxRetries - 1) /\ 0 \in 0..(MaxRetries - 1)
        BY ServingAssumption DEF TypeOK
      <3>2. \/ tries' = [tries EXCEPT ![r] = 0]
            \/ tries[r] + 1 < MaxRetries /\ tries' = [tries EXCEPT ![r] = tries[r] + 1]
        BY <2>1 DEF GatewayAttempt
      <3>3. tries[r] + 1 < MaxRetries => tries[r] + 1 \in 0..(MaxRetries - 1)
        BY <3>1, ServingAssumption
      <3> QED
        BY <3>1, <3>2, <3>3 DEF TypeOK
    <2>2. CASE ~GatewayAttempt(r)
      BY <2>2 DEF UseRuntime, NextCall, NativeEnds, Finish, TypeOK
    <2> QED
      BY <2>1, <2>2
  <1>5. /\ future' \in [Selections -> {"none", "pending", "ready", "failed"}]
        /\ builds' \in [Selections -> Nat] /\ loading' \in SUBSET Selections
    BY <1>1 DEF TypeOK, runtimeVars
  <1>6. BuildInv'
    BY <1>1, BuildsAlone
  <1>7. Running(r) /\ phase[r] \notin HoldsSlot
    BY <1>1 DEF Running
  <1> QED
    BY <1>1, <1>2, <1>3, <1>4, <1>5, <1>6, <1>7, GoesOn

(* The loader thread. *)
LEMMA LoadKeeps ==
  ASSUME IndInv, NEW s \in Selections, Load(s)
  PROVE  IndInv'
  <1> USE DEF IndInv
  <1>1. UNCHANGED <<gateVars, poolVars, reqVars>>
    BY DEF Load
  <1>2. /\ future' \in [Selections -> {"none", "pending", "ready", "failed"}]
        /\ builds' \in [Selections -> Nat] /\ loading' \in SUBSET Selections
        /\ BuildInv'
    <2>1. CASE StartBuild(s)
      <3>1. builds[s] = 1 /\ loading' = {s} /\ future' = future /\ builds' = builds
        BY <2>1 DEF StartBuild, BuildInv
      <3> QED
        BY <3>1 DEF BuildInv, TypeOK
    <2>2. CASE FinishBuild(s)
      <3>1. PICK outcome \in {"ready", "failed"} : future' = [future EXCEPT ![s] = outcome]
        BY <2>2 DEF FinishBuild
      <3>2. builds[s] = 1 /\ builds' = [builds EXCEPT ![s] = builds[s] - 1] /\ loading' = {}
        BY <2>2 DEF FinishBuild, BuildInv
      <3>3. /\ future' \in [Selections -> {"none", "pending", "ready", "failed"}]
            /\ builds' \in [Selections -> Nat] /\ loading' \in SUBSET Selections
        BY <3>1, <3>2 DEF TypeOK
      <3>4. /\ future'[s] = outcome /\ builds'[s] = 0
            /\ \A t \in Selections \ {s} : future'[t] = future[t] /\ builds'[t] = builds[t]
        BY <3>1, <3>2 DEF TypeOK
      <3>5. BuildInv'
        BY <3>1, <3>2, <3>4 DEF BuildInv
      <3> QED
        BY <3>3, <3>5
    <2> QED
      BY <2>1, <2>2 DEF Load
  <1>3. TypeOK'
    BY <1>1, <1>2 DEF TypeOK, gateVars, poolVars, reqVars
  <1> QED
    BY <1>1, <1>2, <1>3, RequestsAlone, PoolAlone DEF gateVars, reqVars

-------------------------------------------------------------------------------
(***************************************************************************)
(* Transactions.                                                           *)
(***************************************************************************)

(* A step of a transaction of request r, which takes it to place p.        *)
LEMMA TransactionStepKeeps ==
  ASSUME IndInv, NEW r \in Requests,
         NEW p \in HoldsSlot \cup {"slot", "runtime", "work", "gateway", "leave"},
         Running(r), phase' = [phase EXCEPT ![r] = p],
         UNCHANGED <<gateVars, runtimeVars, left, renewer, inflight, tries>>,
         slots' \in Nat, idle' \in SUBSET Conns, held' \in [Requests -> Conns \cup {NoConn}],
         then' \in [Requests -> {"workspace", "work", "gateway"} \cup Selections],
         ok' \in [Requests -> BOOLEAN], target' \in [Requests -> Conns \cup {NoConn}],
         PoolInv', TargetInv'
  PROVE  IndInv'
  <1> USE DEF IndInv
  <1>1. TypeOK'
    <2>1. phase' \in [Requests -> Phases]
      BY DEF TypeOK, Phases
    <2>2. slots' \in 0..MaxConn
      <3>1. Cardinality(Holders') \in Nat
        BY HoldersMove
      <3>2. slots' + Cardinality(Holders') = MaxConn
        BY DEF PoolInv
      <3> QED
        BY <3>1, <3>2, PoolAssumption
    <2> QED
      BY <2>1, <2>2 DEF TypeOK, Phases, gateVars, runtimeVars
  <1>2. GateInv'
    BY GateShrinks DEF gateVars
  <1>3. LeaseInv'
    BY LeaseStays DEF gateVars
  <1>4. BuildInv'
    BY BuildsAlone
  <1> QED
    BY <1>1, <1>2, <1>3, <1>4

(* A step that moves no connection keeps every claim on one. *)
LEMMA ConnectionsStay ==
  ASSUME TypeOK, PoolInv, TargetInv, NEW r \in Requests, NEW p,
         phase' = [phase EXCEPT ![r] = p],
         phase[r] \in HoldsConn <=> p \in HoldsConn,
         UNCHANGED <<idle, held>>,
         slots' + Cardinality(Holders') = MaxConn,
         \A q \in Requests : target'[q] # NoConn =>
             target'[q] = target[q] /\ (q = r => p \in {"query", "join"})
  PROVE  PoolInv' /\ TargetInv'
  <1>1. phase'[r] = p /\ \A q \in Requests \ {r} : phase'[q] = phase[q]
    BY DEF TypeOK
  <1>2. \A q \in Requests : phase'[q] \in HoldsConn <=> held'[q] # NoConn
    BY <1>1 DEF PoolInv
  <1>3. PoolInv'
    BY <1>2 DEF PoolInv
  <1>4. TargetInv'
    BY <1>1 DEF TargetInv
  <1> QED
    BY <1>3, <1>4

LEMMA AwaitSlotKeeps ==
  ASSUME IndInv, NEW r \in Requests, AwaitSlot(r)
  PROVE  IndInv'
  <1> USE DEF IndInv
  <1>1. /\ phase[r] = "slot" /\ Running(r)
        /\ UNCHANGED <<gateVars, runtimeVars, ok, left, renewer, inflight, target, tries>>
    BY DEF AwaitSlot, Running
  <1>2. /\ idle \in SUBSET Conns /\ held \in [Requests -> Conns \cup {NoConn}] /\ slots \in Nat
        /\ ok' \in [Requests -> BOOLEAN] /\ target' \in [Requests -> Conns \cup {NoConn}]
    BY <1>1, PoolAssumption DEF TypeOK
  <1>3. CASE TakeSlot /\ Goto(r, "connect") /\ UNCHANGED then
    <2>1. slots > 0 /\ slots' = slots - 1 /\ UNCHANGED <<idle, held>>
      BY <1>3 DEF TakeSlot
    <2>2. phase' = [phase EXCEPT ![r] = "connect"]
      BY <1>3 DEF Goto
    <2>3. slots' + Cardinality(Holders') = MaxConn /\ slots' \in Nat
      <3>1. Cardinality(Holders') = Cardinality(Holders) + 1
        BY <1>1, <2>2, HoldersMove
      <3>2. slots + Cardinality(Holders) = MaxConn
        BY DEF PoolInv
      <3> QED
        BY <1>2, <2>1, <3>1, <3>2, FiniteRequests, PoolAssumption
    <2>4. \A q \in Requests : target'[q] # NoConn => target'[q] = target[q] /\ q # r
      BY <1>1 DEF TargetInv
    <2>5. PoolInv' /\ TargetInv'
      BY <1>1, <2>1, <2>2, <2>3, <2>4, ConnectionsStay
    <2>6. then' \in [Requests -> {"workspace", "work", "gateway"} \cup Selections]
      BY <1>3 DEF TypeOK
    <2> QED
      BY <1>1, <1>2, <2>1, <2>2, <2>3, <2>5, <2>6, TransactionStepKeeps
  <1>4. CASE Fails(r) /\ then' = [then EXCEPT ![r] = "work"] /\ UNCHANGED poolVars
    <2>1. PICK p \in {"leave", "work"} : phase' = [phase EXCEPT ![r] = p]
      BY <1>4 DEF Fails, Goto
    <2>2. PoolInv' /\ TargetInv'
      BY <1>1, <1>4, <2>1, PoolStays
    <2>3. then' \in [Requests -> {"workspace", "work", "gateway"} \cup Selections]
      BY <1>4 DEF TypeOK
    <2>4. slots' = slots /\ idle' = idle /\ held' = held
      BY <1>4 DEF poolVars
    <2> QED
      BY <1>1, <1>2, <2>1, <2>2, <2>3, <2>4, TransactionStepKeeps
  <1> QED
    BY <1>3, <1>4 DEF AwaitSlot

(* The slot of the semaphore comes back, from a request that no longer has *)
(* a connection.                                                           *)
LEMMA FreeSlotKeeps ==
  ASSUME IndInv, NEW r \in Requests, phase[r] \in {"connect", "free"}, FreeSlot,
         NEW p \in {"runtime", "work", "gateway", "leave"}, phase' = [phase EXCEPT ![r] = p],
         then' \in [Requests -> {"workspace", "work", "gateway"} \cup Selections],
         ok' \in [Requests -> BOOLEAN],
         UNCHANGED <<gateVars, runtimeVars, left, renewer, inflight, target, tries>>
  PROVE  IndInv'
  <1> USE DEF IndInv
  <1>1. slots' = slots + 1 /\ UNCHANGED <<idle, held>>
    BY DEF FreeSlot
  <1>2. /\ idle \in SUBSET Conns /\ held \in [Requests -> Conns \cup {NoConn}] /\ slots \in Nat
        /\ target' \in [Requests -> Conns \cup {NoConn}]
    BY PoolAssumption DEF TypeOK
  <1>3. slots' + Cardinality(Holders') = MaxConn /\ slots' \in Nat
    <2>1. Cardinality(Holders') = Cardinality(Holders) - 1
      BY HoldersMove
    <2>2. slots + Cardinality(Holders) = MaxConn
      BY DEF PoolInv
    <2> QED
      BY <1>1, <1>2, <2>1, <2>2, FiniteRequests, PoolAssumption
  <1>4. \A q \in Requests : target'[q] # NoConn => target'[q] = target[q] /\ q # r
    BY DEF TargetInv
  <1>5. PoolInv' /\ TargetInv'
    BY <1>1, <1>3, <1>4, ConnectionsStay
  <1>6. Running(r)
    BY DEF Running
  <1> QED
    BY <1>1, <1>2, <1>3, <1>5, <1>6, TransactionStepKeeps

LEMMA ConnectFailsKeeps ==
  ASSUME IndInv, NEW r \in Requests, ConnectFails(r)
  PROVE  IndInv'
  <1>1. /\ phase[r] = "connect" /\ FreeSlot /\ then' = [then EXCEPT ![r] = "work"]
        /\ UNCHANGED <<gateVars, runtimeVars, ok, left, renewer, inflight, target, tries>>
    BY DEF ConnectFails
  <1>2. PICK p \in {"leave", "work"} : phase' = [phase EXCEPT ![r] = p]
    BY DEF ConnectFails, Fails, Goto
  <1>3. /\ then' \in [Requests -> {"workspace", "work", "gateway"} \cup Selections]
        /\ ok' \in [Requests -> BOOLEAN]
    BY <1>1 DEF IndInv, TypeOK
  <1> QED
    BY <1>1, <1>2, <1>3, FreeSlotKeeps

LEMMA ReturnSlotKeeps ==
  ASSUME IndInv, NEW r \in Requests, ReturnSlot(r)
  PROVE  IndInv'
  <1>1. /\ phase[r] = "free" /\ FreeSlot /\ Continue(r)
        /\ UNCHANGED <<gateVars, runtimeVars, left, renewer, inflight, target, tries>>
    BY DEF ReturnSlot
  <1>2. PICK p \in {"runtime", "work", "gateway", "leave"} : phase' = [phase EXCEPT ![r] = p]
    <2>1. CASE ok[r]
      BY <1>1, <2>1 DEF Continue, Goto
    <2>2. CASE ~ok[r]
      BY <1>1, <2>2 DEF Continue, Goto, Fails
    <2> QED
      BY <2>1, <2>2
  <1>3. then' \in [Requests -> {"workspace", "work", "gateway"} \cup Selections]
    BY <1>1 DEF Continue, IndInv, TypeOK
  <1>4. ok' \in [Requests -> BOOLEAN]
    BY <1>1 DEF Continue, IndInv, TypeOK
  <1> QED
    BY <1>1, <1>2, <1>3, <1>4, FreeSlotKeeps

(* A connection is given to a request that has a slot and no connection.   *)
LEMMA ConnectKeeps ==
  ASSUME IndInv, NEW r \in Requests, Connect(r)
  PROVE  IndInv'
  <1> USE DEF IndInv
  <1>1. /\ phase[r] = "connect" /\ Running(r)
        /\ UNCHANGED <<gateVars, runtimeVars, then, left, renewer, inflight, tries>>
    BY DEF Connect, Running
  <1>2. PICK c \in Conns :
          /\ GetConn(r, c)
          /\ \/ /\ Goto(r, "query") /\ UNCHANGED ok
                /\ target' = [target EXCEPT ![r] = IF r \in Scoped THEN c ELSE NoConn]
             \/ /\ Goto(r, "return") /\ ok' = [ok EXCEPT ![r] = FALSE] /\ UNCHANGED target
    BY DEF Connect
  <1>3. c # NoConn /\ held[r] = NoConn /\ target[r] = NoConn
    BY <1>1, PoolAssumption DEF PoolInv, TargetInv
  <1>4. /\ slots' = slots /\ idle' = idle \ {c} /\ held' = [held EXCEPT ![r] = c]
        /\ held'[r] = c /\ \A q \in Requests \ {r} : held'[q] = held[q]
    BY <1>2 DEF GetConn, TypeOK
  <1>5. \A q \in Requests : held[q] # c
    <2>1. CASE c \in idle
      BY <2>1 DEF PoolInv
    <2>2. CASE c \in Conns \ InUse
      BY <1>3, <2>2, ServingAssumption DEF InUse
    <2> QED
      BY <1>2, <2>1, <2>2 DEF GetConn
  <1>6. PICK p \in {"query", "return"} :
          /\ phase' = [phase EXCEPT ![r] = p]
          /\ ok' \in [Requests -> BOOLEAN]
          /\ \A q \in Requests \ {r} : target'[q] = target[q]
          /\ target'[r] # NoConn => target'[r] = c /\ p = "query"
          /\ target' \in [Requests -> Conns \cup {NoConn}]
    <2>1. CASE /\ Goto(r, "query") /\ UNCHANGED ok
               /\ target' = [target EXCEPT ![r] = IF r \in Scoped THEN c ELSE NoConn]
      BY <2>1 DEF Goto, TypeOK
    <2>2. CASE Goto(r, "return") /\ ok' = [ok EXCEPT ![r] = FALSE] /\ UNCHANGED target
      BY <1>3, <2>2 DEF Goto, TypeOK
    <2> QED
      BY <1>2, <2>1, <2>2
  <1>7. phase'[r] = p /\ \A q \in Requests \ {r} : phase'[q] = phase[q]
    BY <1>6 DEF TypeOK
  <1>8. PoolInv'
    <2>1. slots' + Cardinality(Holders') = MaxConn
      <3>1. Holders' = Holders
        BY <1>1, <1>6, HoldersMove
      <3> QED
        BY <1>4, <3>1 DEF PoolInv
    <2>2. \A q \in Requests : phase'[q] \in HoldsConn <=> held'[q] # NoConn
      BY <1>3, <1>4, <1>6, <1>7 DEF PoolInv
    <2>3. \A q, t \in Requests : held'[t] # NoConn /\ held'[q] = held'[t] => q = t
      BY <1>4, <1>5 DEF PoolInv
    <2>4. \A q \in Requests : held'[q] \notin idle'
      BY <1>4 DEF PoolInv
    <2> QED
      BY <2>1, <2>2, <2>3, <2>4 DEF PoolInv
  <1>9. TargetInv'
    BY <1>4, <1>6, <1>7 DEF TargetInv
  <1>10. /\ slots' \in Nat /\ idle' \in SUBSET Conns /\ held' \in [Requests -> Conns \cup {NoConn}]
         /\ then' \in [Requests -> {"workspace", "work", "gateway"} \cup Selections]
    BY <1>1, <1>4, PoolAssumption DEF TypeOK
  <1> QED
    BY <1>1, <1>6, <1>8, <1>9, <1>10, TransactionStepKeeps

(* The statements, the monitor and the end of the transaction leave the    *)
(* connection where it is.                                                 *)
LEMMA StatementsKeep ==
  ASSUME IndInv, NEW r \in Requests, QueryEnds(r) \/ EndTransaction(r)
  PROVE  IndInv'
  <1> USE DEF IndInv
  <1>1. PICK p \in {"join", "return"} :
          /\ phase' = [phase EXCEPT ![r] = p]
          /\ phase[r] \in {"query", "join"} /\ Running(r)
          /\ p = "return" => target[r] = NoConn
          /\ UNCHANGED <<gateVars, poolVars, runtimeVars, then, left, renewer, inflight, target, tries>>
    BY DEF QueryEnds, EndTransaction, Goto, Running
  <1>2. ok' \in [Requests -> BOOLEAN]
    <2>1. PICK b \in BOOLEAN : ok' = [ok EXCEPT ![r] = b]
      <3>1. CASE QueryEnds(r)
        BY <3>1 DEF QueryEnds
      <3>2. CASE EndTransaction(r)
        <4>1. (ok[r] /\ ~Exhausted(r)) \in BOOLEAN
          OBVIOUS
        <4>2. \/ ok' = [ok EXCEPT ![r] = ok[r] /\ ~Exhausted(r)]
              \/ ok' = [ok EXCEPT ![r] = FALSE]
          BY <3>2, Zenon DEF EndTransaction
        <4> QED
          BY <4>1, <4>2, Zenon
      <3> QED
        BY <3>1, <3>2
    <2> QED
      BY <2>1 DEF TypeOK
  <1>3. UNCHANGED <<slots, idle, held>>
    BY <1>1 DEF poolVars
  <1>4. slots' + Cardinality(Holders') = MaxConn
    <2>1. Holders' = Holders
      BY <1>1, HoldersMove
    <2> QED
      BY <1>3, <2>1 DEF PoolInv
  <1>5. PoolInv' /\ TargetInv'
    <2>1. \A q \in Requests : target'[q] # NoConn =>
            target'[q] = target[q] /\ (q = r => p \in {"query", "join"})
      BY <1>1
    <2> QED
      BY <1>1, <1>3, <1>4, <2>1, ConnectionsStay
  <1>6. /\ slots' \in Nat /\ idle' \in SUBSET Conns /\ held' \in [Requests -> Conns \cup {NoConn}]
        /\ then' \in [Requests -> {"workspace", "work", "gateway"} \cup Selections]
        /\ target' \in [Requests -> Conns \cup {NoConn}]
    BY <1>1, <1>3, PoolAssumption DEF TypeOK
  <1> QED
    BY <1>1, <1>2, <1>5, <1>6, TransactionStepKeeps

LEMMA MonitorKeeps ==
  ASSUME IndInv, NEW r \in Requests, MonitorCancels(r) \/ MonitorStops(r)
  PROVE  IndInv'
  <1> USE DEF IndInv
  <1>1. /\ target[r] # NoConn /\ target' = [target EXCEPT ![r] = NoConn]
        /\ UNCHANGED <<gateVars, poolVars, runtimeVars, then, left, renewer, inflight, tries>>
    BY DEF MonitorCancels, MonitorStops
  <1>2. phase[r] \in {"query", "join"} /\ Running(r)
    BY <1>1 DEF TargetInv, Running
  <1>3. PICK p \in {"query", "join"} : phase' = [phase EXCEPT ![r] = p]
    <2>1. CASE UNCHANGED phase
      <3>1. phase' = [phase EXCEPT ![r] = phase[r]]
        BY <2>1 DEF TypeOK
      <3> QED
        BY <1>2, <3>1
    <2>2. CASE ~UNCHANGED phase
      BY <2>2 DEF MonitorCancels, MonitorStops, Goto
    <2> QED
      BY <2>1, <2>2
  <1>4. ok' \in [Requests -> BOOLEAN]
    BY DEF MonitorCancels, MonitorStops, TypeOK
  <1>5. UNCHANGED <<slots, idle, held>>
    BY <1>1 DEF poolVars
  <1>6. slots' + Cardinality(Holders') = MaxConn
    <2>1. Holders' = Holders
      BY <1>2, <1>3, HoldersMove
    <2> QED
      BY <1>5, <2>1 DEF PoolInv
  <1>7. PoolInv' /\ TargetInv'
    <2>1. \A q \in Requests : target'[q] # NoConn =>
            target'[q] = target[q] /\ (q = r => p \in {"query", "join"})
      BY <1>1 DEF TypeOK
    <2> QED
      BY <1>2, <1>3, <1>5, <1>6, <2>1, ConnectionsStay
  <1>8. /\ slots' \in Nat /\ idle' \in SUBSET Conns /\ held' \in [Requests -> Conns \cup {NoConn}]
        /\ then' \in [Requests -> {"workspace", "work", "gateway"} \cup Selections]
        /\ target' \in [Requests -> Conns \cup {NoConn}]
    BY <1>1, <1>5, PoolAssumption DEF TypeOK
  <1> QED
    BY <1>1, <1>2, <1>3, <1>4, <1>7, <1>8, TransactionStepKeeps

(* The connection goes back, or is closed. *)
LEMMA ReturnConnKeeps ==
  ASSUME IndInv, NEW r \in Requests, ReturnConn(r)
  PROVE  IndInv'
  <1> USE DEF IndInv
  <1>1. /\ phase[r] = "return" /\ Running(r) /\ phase' = [phase EXCEPT ![r] = "free"]
        /\ UNCHANGED <<gateVars, runtimeVars, then, ok, left, renewer, inflight, target, tries>>
    BY DEF ReturnConn, Goto, Running
  <1>2. PICK keep \in BOOLEAN : PutConn(r, keep)
    BY DEF ReturnConn
  <1>3. held[r] \in Conns /\ target[r] = NoConn /\ held[r] # NoConn
    BY <1>1 DEF PoolInv, TargetInv, TypeOK
  <1>4. /\ slots' = slots /\ held' = [held EXCEPT ![r] = NoConn]
        /\ held'[r] = NoConn /\ \A q \in Requests \ {r} : held'[q] = held[q]
        /\ idle' = idle \/ idle' = idle \cup {held[r]}
    BY <1>2 DEF PutConn, TypeOK
  <1>5. phase'[r] = "free" /\ \A q \in Requests \ {r} : phase'[q] = phase[q]
    BY <1>1 DEF TypeOK
  <1>6. PoolInv'
    <2>1. slots' + Cardinality(Holders') = MaxConn
      <3>1. Holders' = Holders
        BY <1>1, HoldersMove
      <3> QED
        BY <1>4, <3>1 DEF PoolInv
    <2>2. \A q \in Requests : phase'[q] \in HoldsConn <=> held'[q] # NoConn
      BY <1>4, <1>5 DEF PoolInv
    <2>3. \A q, t \in Requests : held'[t] # NoConn /\ held'[q] = held'[t] => q = t
      BY <1>4 DEF PoolInv
    <2>4. \A q \in Requests : held'[q] \notin idle'
      <3>1. NoConn \notin idle'
        BY <1>3, <1>4, PoolAssumption DEF TypeOK
      <3>2. \A q \in Requests \ {r} : held[q] # held[r]
        BY <1>3 DEF PoolInv
      <3> QED
        BY <1>4, <3>1, <3>2 DEF PoolInv
    <2> QED
      BY <2>1, <2>2, <2>3, <2>4 DEF PoolInv
  <1>7. TargetInv'
    BY <1>1, <1>3, <1>4, <1>5 DEF TargetInv
  <1>8. /\ slots' \in Nat /\ idle' \in SUBSET Conns /\ held' \in [Requests -> Conns \cup {NoConn}]
        /\ then' \in [Requests -> {"workspace", "work", "gateway"} \cup Selections]
        /\ ok' \in [Requests -> BOOLEAN] /\ target' \in [Requests -> Conns \cup {NoConn}]
    BY <1>1, <1>3, <1>4, PoolAssumption DEF TypeOK
  <1> QED
    BY <1>1, <1>6, <1>7, <1>8, TransactionStepKeeps

-------------------------------------------------------------------------------
(***************************************************************************)
(* Time, and the invariant.                                                *)
(***************************************************************************)

(* Time takes as much from the slot of a running request as from its       *)
(* budget, and passes only while no budget is used up.                     *)
LEMMA TickKeeps ==
  ASSUME IndInv, Tick
  PROVE  IndInv'
  <1> USE DEF IndInv
  <1>1. /\ \A r \in Scoped : Running(r) => left[r] > 0
        /\ slotLeft' = [r \in Requests |-> IF slotLeft[r] > 0 THEN slotLeft[r] - 1 ELSE 0]
        /\ rateLeft' = [r \in Requests |-> IF rateLeft[r] > 0 THEN rateLeft[r] - 1 ELSE 0]
        /\ left' = [r \in Requests |-> IF r \in Scoped /\ Running(r) THEN left[r] - 1 ELSE left[r]]
        /\ UNCHANGED <<poolVars, runtimeVars, phase, then, ok, renewer, inflight, target, tries>>
    BY DEF Tick, GateTick
  <1>2. /\ slotLeft \in [Requests -> 0..Lease] /\ rateLeft \in [Requests -> 0..Window]
        /\ left \in [Requests -> 0..(Deadline + Grace)]
        /\ Lease \in Nat /\ Window \in Nat /\ Deadline + Grace \in Nat
    BY GateAssumption, ServingAssumption DEF TypeOK
  <1>3. slotLeft' \in [Requests -> 0..Lease] /\ rateLeft' \in [Requests -> 0..Window]
    BY <1>1, <1>2
  <1>4. left' \in [Requests -> 0..(Deadline + Grace)]
    <2>1. ASSUME NEW r \in Requests
          PROVE  (IF r \in Scoped /\ Running(r) THEN left[r] - 1 ELSE left[r]) \in 0..(Deadline + Grace)
      BY <1>1, <1>2
    <2> QED
      BY <1>1, <2>1
  <1>5. TypeOK'
    BY <1>1, <1>3, <1>4 DEF TypeOK, poolVars, runtimeVars
  <1>6. GateInv'
    <2>1. \A r \in Requests : slotLeft'[r] > 0 => slotLeft[r] > 0
      BY <1>1, <1>2
    <2> QED
      BY <2>1, GateShrinks
  <1>7. LeaseInv'
    <2>1. ASSUME NEW r \in Scoped, Running(r)'
          PROVE  left'[r] < slotLeft'[r]
      <3>1. r \in Requests /\ Running(r) /\ left[r] < slotLeft[r] /\ left[r] > 0
        BY <1>1, <2>1, GateAssumption DEF Running, LeaseInv
      <3>2. left'[r] = left[r] - 1 /\ slotLeft'[r] = slotLeft[r] - 1
        BY <1>1, <1>2, <3>1
      <3> QED
        BY <1>2, <3>1, <3>2
    <2>2. \A r \in Requests : phase'[r] \in {"absent", "done"} =>
            ~renewer'[r] /\ left'[r] = Deadline + Grace
      BY <1>1 DEF LeaseInv, Running
    <2> QED
      BY <2>1, <2>2 DEF LeaseInv
  <1> QED
    BY <1>1, <1>5, <1>6, <1>7, PoolAlone, BuildsAlone

LEMMA InitInv == Init => IndInv
  <1> SUFFICES ASSUME Init PROVE IndInv
    OBVIOUS
  <1>1. TypeOK
    <2>1. /\ 0 \in 0..Lease /\ 0 \in 0..Window /\ MaxConn \in 0..MaxConn
          /\ Deadline + Grace \in 0..(Deadline + Grace) /\ 0 \in 0..(MaxRetries - 1)
      BY GateAssumption, PoolAssumption, ServingAssumption
    <2> QED
      BY <2>1, ServingAssumption DEF Init, GateInit, PoolInit, RuntimeInit, TypeOK
  <1>2. GateInv
    <2>1. ASSUME NEW S \in SUBSET Requests
          PROVE  Held(S) = 0
      <3>1. {q \in S : slotLeft[q] > 0} = {}
        BY DEF Init, GateInit
      <3> QED
        BY <3>1, FS_EmptySet DEF Held
    <2>2. /\ GlobalLimit \in Nat /\ TenantLimit \in Nat /\ UserLimit \in Nat
      BY GateAssumption
    <2>3. Held(Requests) <= GlobalLimit
      BY <2>1, <2>2
    <2>4. ASSUME NEW r \in Requests
          PROVE  Held(OfTenant(r)) <= TenantLimit /\ Held(OfUser(r)) <= UserLimit
      <3>1. Held(OfTenant(r)) = 0 /\ Held(OfUser(r)) = 0
        BY <2>1, OfSets
      <3> QED
        BY <2>2, <3>1
    <2> QED
      BY <2>3, <2>4 DEF GateInv
  <1>3. LeaseInv
    BY GateAssumption DEF Init, LeaseInv, Running
  <1>4. PoolInv
    <2>1. Holders = {}
      BY DEF Init, Holders
    <2>2. Cardinality(Holders) = 0 /\ slots = MaxConn
      BY <2>1, FS_EmptySet DEF Init, PoolInit
    <2>3. slots + Cardinality(Holders) = MaxConn
      BY <2>2, PoolAssumption
    <2>4. \A r \in Requests : held[r] = NoConn /\ phase[r] = "absent"
      BY ServingAssumption DEF Init, PoolInit
    <2>5. NoConn \notin idle
      BY PoolAssumption DEF Init, PoolInit
    <2> QED
      BY <2>3, <2>4, <2>5 DEF PoolInv
  <1>5. TargetInv /\ BuildInv
    BY DEF Init, RuntimeInit, TargetInv, BuildInv
  <1> QED
    BY <1>1, <1>2, <1>3, <1>4, <1>5 DEF IndInv

LEMMA NextKeeps == IndInv /\ [Next]_vars => IndInv'
  <1> SUFFICES ASSUME IndInv, [Next]_vars PROVE IndInv'
    OBVIOUS
  <1>1. ASSUME NEW r \in Requests, HandlerStep(r)
        PROVE  IndInv'
    BY <1>1, ChooseRuntimeKeeps, HandlerKeeps, AwaitSlotKeeps, ConnectKeeps, ConnectFailsKeeps,
       StatementsKeep, ReturnConnKeeps, ReturnSlotKeeps DEF HandlerStep, TransactionStep
  <1>2. ASSUME NEW r \in Requests,
               \/ Admit(r) \/ AdmissionReplyLost(r) \/ Refuse(r) \/ Enter(r) \/ NewRequest(r)
               \/ SendRenewal(r) \/ RenewalArrives(r) \/ RenewalFails(r)
        PROVE  IndInv'
    BY <1>2, AdmitKeeps, ReplyLostKeeps, UnadmittedKeeps, SendRenewalKeeps, RenewalArrivesKeeps,
       RenewalFailsKeeps
  <1>3. ASSUME NEW r \in Requests, Leave(r) \/ Finish(r) \/ MonitorCancels(r) \/ MonitorStops(r)
        PROVE  IndInv'
    BY <1>3, LeaveKeeps, HandlerKeeps, MonitorKeeps
  <1>4. ASSUME NEW s \in Selections, Load(s)
        PROVE  IndInv'
    BY <1>4, LoadKeeps
  <1>5. CASE Tick
    BY <1>5, TickKeeps
  <1>6. CASE UNCHANGED vars
    <2>1. UNCHANGED <<gateVars, poolVars, runtimeVars, reqVars>>
      BY <1>6 DEF vars
    <2>2. TypeOK'
      BY <2>1 DEF IndInv, TypeOK, gateVars, poolVars, runtimeVars, reqVars
    <2>3. UNCHANGED <<phase, left, renewer, slotLeft, target>>
      BY <2>1 DEF gateVars, reqVars
    <2> QED
      BY <2>1, <2>2, <2>3, RequestsAlone, PoolAlone, BuildsAlone DEF IndInv
  <1> QED
    BY <1>1, <1>2, <1>3, <1>4, <1>5, <1>6 DEF Next

(* The invariant holds in every behaviour, whatever becomes of renewals,   *)
(* connections, monitors and builds.                                       *)
THEOREM Invariance == Spec => []IndInv
  BY InitInv, NextKeeps, PTL DEF Spec

(* Every variable keeps its type: the semaphore never exceeds its initial  *)
(* value, no gateway call is tried more often than max_retries.            *)
THEOREM TypeCorrect == Spec => []TypeOK
  <1>1. IndInv => TypeOK
    BY DEF IndInv
  <1> QED
    BY <1>1, Invariance, PTL

-------------------------------------------------------------------------------
(***************************************************************************)
(* What follows.                                                           *)
(***************************************************************************)

(* A thread that has a slot always gets a connection: there are fewer in   *)
(* use than threads that hold a slot.                                      *)
LEMMA ConnectionsLeft ==
  ASSUME IndInv, NEW r \in Requests, phase[r] = "connect"
  PROVE  Cardinality(InUse) < MaxConn
  <1> USE DEF IndInv
  <1> DEFINE Busy == {q \in Requests : phase[q] \in HoldsConn}
             conn == [q \in Busy |-> held[q]]
  <1>1. InUse = {held[q] : q \in Busy}
    BY ServingAssumption DEF InUse, PoolInv
  <1>2. conn \in Surjection(Busy, InUse)
    BY <1>1 DEF Surjection
  <1>3. Busy \in SUBSET Holders /\ r \in Holders /\ r \notin Busy
    BY DEF Holders
  <1>4. IsFiniteSet(Holders) /\ Cardinality(Holders) \in Nat
    BY FiniteRequests
  <1>5. Cardinality(Busy) < Cardinality(Holders) /\ Cardinality(Busy) \in Nat /\ IsFiniteSet(Busy)
    <2> HIDE DEF Busy
    <2>1. /\ IsFiniteSet(Busy) /\ Cardinality(Busy) <= Cardinality(Holders)
          /\ (Cardinality(Holders) = Cardinality(Busy) => Holders = Busy)
      BY <1>3, <1>4, FS_Subset
    <2>2. Cardinality(Busy) \in Nat
      BY <2>1, FS_CardinalityType
    <2> QED
      BY <1>3, <1>4, <2>1, <2>2
  <1>6. Cardinality(InUse) <= Cardinality(Busy) /\ Cardinality(InUse) \in Nat
    <2> HIDE DEF Busy, conn
    <2>1. IsFiniteSet(InUse) /\ Cardinality(InUse) <= Cardinality(Busy)
      BY <1>2, <1>5, FS_Surjection
    <2> QED
      BY <2>1, FS_CardinalityType
  <1>7. slots + Cardinality(Holders) = MaxConn /\ slots \in Nat /\ MaxConn \in Nat
    BY PoolAssumption DEF PoolInv, TypeOK
  <1> HIDE DEF Busy
  <1> QED
    BY <1>4, <1>5, <1>6, <1>7

(* The semaphore counts the threads between getconn and putconn on every   *)
(* error path, and the inner pool is never exhausted for one of them.      *)
THEOREM SlotsAreConserved == Spec => []SlotsConserved
  <1>1. ASSUME IndInv
        PROVE  SlotsConserved
    <2>1. slots + Cardinality({r \in Requests : phase[r] \in HoldsSlot}) = MaxConn
      BY <1>1 DEF IndInv, PoolInv, Holders
    <2>2. \A r \in Requests : phase[r] = "connect" => Cardinality(InUse) < MaxConn
      BY <1>1, ConnectionsLeft
    <2>3. \A r \in Requests : (phase[r] \in HoldsConn) = (held[r] # NoConn)
      BY <1>1 DEF IndInv, PoolInv
    <2> QED
      BY <2>1, <2>2, <2>3 DEF SlotsConserved
  <1> QED
    BY <1>1, Invariance, PTL

(* A monitor thread cancels the statements of its own request only. *)
THEOREM MonitorsCancelTheirOwn == Spec => []CancelsOwnCall
  <1>1. ASSUME PoolInv, TargetInv
        PROVE  CancelsOwnCall
    <2> SUFFICES ASSUME NEW r \in Requests, target[r] # NoConn
                 PROVE  /\ held[r] = target[r]
                        /\ \A q \in Requests \ {r} : held[q] # target[r]
                        /\ target[r] \notin idle
      BY DEF CancelsOwnCall
    <2>1. held[r] = target[r] /\ held[r] # NoConn
      BY <1>1 DEF TargetInv
    <2> QED
      BY <1>1, <2>1 DEF PoolInv
  <1>2. IndInv => PoolInv /\ TargetInv
    BY DEF IndInv
  <1> QED
    BY <1>1, <1>2, Invariance, PTL

(* Queries and answers that run are within the limits, whatever happens to *)
(* their renewals: none outlives its slot.                                 *)
THEOREM LimitsKept == Spec => []RunningWithinLimits
  <1>1. ASSUME IndInv
        PROVE  RunningWithinLimits
    <2> DEFINE running == {r \in Scoped : Running(r)}
    <2>1. running \in SUBSET Requests /\ \A r \in running : slotLeft[r] > 0
      BY <1>1, GateAssumption, ServingAssumption DEF IndInv, LeaseInv, TypeOK
    <2> HIDE DEF running
    <2>2. ASSUME NEW S \in SUBSET Requests
          PROVE  /\ Cardinality(running \cap S) <= Held(S)
                 /\ Cardinality(running \cap S) \in Nat /\ Held(S) \in Nat
      <3> DEFINE H == {q \in S : slotLeft[q] > 0}
      <3>1. (running \cap S) \in SUBSET H /\ H \in SUBSET Requests
        BY <2>1
      <3> HIDE DEF H
      <3>2. IsFiniteSet(H)
        BY <3>1, FiniteRequests
      <3>3. IsFiniteSet(running \cap S) /\ Cardinality(running \cap S) <= Cardinality(H)
        BY <3>1, <3>2, FS_Subset
      <3>4. Cardinality(running \cap S) \in Nat /\ Cardinality(H) \in Nat
        BY <3>2, <3>3, FS_CardinalityType
      <3>5. Held(S) = Cardinality(H)
        BY DEF Held, H
      <3> QED
        BY <3>3, <3>4, <3>5
    <2>3. /\ GlobalLimit \in Nat /\ TenantLimit \in Nat /\ UserLimit \in Nat
      BY GateAssumption
    <2>4. Cardinality(running) <= GlobalLimit
      <3>1. running \cap Requests = running
        BY <2>1
      <3>2. /\ Cardinality(running) <= Held(Requests)
            /\ Cardinality(running) \in Nat /\ Held(Requests) \in Nat
        BY <2>2, <3>1
      <3>3. Held(Requests) <= GlobalLimit
        BY <1>1 DEF IndInv, GateInv
      <3> QED
        BY <2>3, <3>2, <3>3
    <2>5. ASSUME NEW r \in running
          PROVE  /\ Cardinality(running \cap OfTenant(r)) <= TenantLimit
                 /\ Cardinality(running \cap OfUser(r)) <= UserLimit
      <3>1. r \in Requests
        BY <2>1
      <3>2. Held(OfTenant(r)) <= TenantLimit /\ Held(OfUser(r)) <= UserLimit
        BY <1>1, <3>1 DEF IndInv, GateInv
      <3>3. /\ Cardinality(running \cap OfTenant(r)) <= Held(OfTenant(r))
            /\ Cardinality(running \cap OfTenant(r)) \in Nat /\ Held(OfTenant(r)) \in Nat
        BY <2>2, <3>1, OfSets
      <3>4. /\ Cardinality(running \cap OfUser(r)) <= Held(OfUser(r))
            /\ Cardinality(running \cap OfUser(r)) \in Nat /\ Held(OfUser(r)) \in Nat
        BY <2>2, <3>1, OfSets
      <3> QED
        BY <2>3, <3>2, <3>3, <3>4
    <2> QED
      BY <2>4, <2>5 DEF RunningWithinLimits, running
  <1> QED
    BY <1>1, Invariance, PTL

(* One build of a selection is under way at most, and none once its models *)
(* are there.                                                              *)
THEOREM SingleBuild == Spec => []OneBuild
  <1>1. IndInv => OneBuild
    BY DEF IndInv, BuildInv, OneBuild
  <1> QED
    BY <1>1, Invariance, PTL

(* A slot that was released or expired comes back by an admission only. *)
THEOREM NoRevival == Spec => SlotsByAdmission
  <1>1. ASSUME IndInv, [Next]_vars, NEW r \in Requests, slotLeft[r] = 0, slotLeft'[r] > 0
        PROVE  phase[r] = "absent"
    <2>1. slotLeft \in [Requests -> 0..Lease]
      BY <1>1 DEF IndInv, TypeOK
    <2>2. ~UNCHANGED gateVars
      BY <1>1 DEF gateVars
    <2>3. ~Tick
      BY <1>1 DEF Tick, GateTick
    <2>4. PICK q \in Requests : Admit(q) \/ AdmissionReplyLost(q) \/ RenewalArrives(q) \/ Leave(q)
      <3>1. ASSUME NEW s \in Selections, Load(s)
            PROVE  FALSE
        BY <2>2, <3>1 DEF Load
      <3>2. ASSUME NEW q \in Requests, HandlerStep(q)
            PROVE  FALSE
        BY <2>2, <3>2 DEF HandlerStep, ChooseRuntime, UseRuntime, NextCall, NativeEnds,
           GatewayAttempt, TransactionStep, AwaitSlot, Connect, ConnectFails, QueryEnds,
           EndTransaction, ReturnConn, ReturnSlot
      <3>3. ASSUME NEW q \in Requests, \/ Refuse(q) \/ Enter(q) \/ NewRequest(q) \/ SendRenewal(q)
                                       \/ RenewalFails(q) \/ Finish(q) \/ MonitorCancels(q)
                                       \/ MonitorStops(q)
            PROVE  FALSE
        BY <2>2, <3>3 DEF Refuse, Enter, NewRequest, SendRenewal, RenewalFails, Finish,
           MonitorCancels, MonitorStops
      <3>4. ~UNCHANGED vars
        BY <2>2 DEF vars
      <3> QED
        BY <1>1, <2>3, <3>1, <3>2, <3>3, <3>4 DEF Next
    <2>5. CASE RenewalArrives(q) \/ Leave(q)
      <3>1. slotLeft' = slotLeft \/ \E n \in {0, IF slotLeft[q] > 0 THEN Lease ELSE 0} :
                                        slotLeft' = [slotLeft EXCEPT ![q] = n]
        BY <2>5 DEF RenewalArrives, Renew, Leave, Release, gateVars
      <3>2. slotLeft'[r] = 0
        BY <1>1, <2>1, <3>1
      <3> QED
        BY <1>1, <3>2
    <2>6. CASE Admit(q) \/ AdmissionReplyLost(q)
      <3>1. phase[q] = "absent" /\ slotLeft' = [slotLeft EXCEPT ![q] = Lease]
        BY <2>6 DEF Admit, AdmissionReplyLost, Acquire
      <3>2. q = r
        BY <1>1, <2>1, <3>1
      <3> QED
        BY <3>1, <3>2
    <2> QED
      BY <2>4, <2>5, <2>6
  <1>2. IndInv /\ [Next]_vars =>
          [\A r \in Requests : slotLeft[r] = 0 /\ slotLeft'[r] > 0 => phase[r] = "absent"]_vars
    BY <1>1
  <1> QED
    BY <1>2, Invariance, PTL DEF Spec, SlotsByAdmission

===============================================================================
