---------------------------- MODULE ConnectionPool ----------------------------
(***************************************************************************)
(* The bounded connection pool of a process (app/shared/adapters/postgres/ *)
(* db.py) over psycopg2's ThreadedConnectionPool.  A semaphore of MaxConn  *)
(* slots stands in front of a pool that refuses to hand out more than      *)
(* MaxConn connections itself.                                             *)
(***************************************************************************)
EXTENDS Naturals, FiniteSets

CONSTANTS
    Threads,        \* the threads that use the pool
    Conns,          \* connections, closed ones included
    NoConn,
    MinConn, MaxConn

ASSUME PoolAssumption ==
    /\ NoConn \notin Conns
    /\ MinConn \in Nat /\ MaxConn \in Nat
    /\ 1 <= MinConn /\ MinConn <= MaxConn
    /\ IsFiniteSet(Threads) /\ IsFiniteSet(Conns)
    /\ Cardinality(Conns) >= MaxConn

VARIABLES
    slots,          \* the value of the semaphore
    idle,           \* connections waiting in the pool
    held            \* held[t]: the connection thread t was given, or NoConn

poolVars == <<slots, idle, held>>

InUse == {held[t] : t \in Threads} \ {NoConn}

PoolInit ==
    /\ slots = MaxConn
    /\ idle \in {S \in SUBSET Conns : Cardinality(S) = MinConn}
    /\ held = [t \in Threads |-> NoConn]

TakeSlot ==
    /\ slots > 0
    /\ slots' = slots - 1
    /\ UNCHANGED <<idle, held>>

\* BoundedSemaphore.release; it would raise above its initial value.
FreeSlot ==
    /\ slots' = slots + 1
    /\ UNCHANGED <<idle, held>>

\* The inner pool: an idle connection, else a new one below its own limit.
GetConn(t, c) ==
    /\ \/ c \in idle
       \/ /\ idle = {}
          /\ Cardinality(InUse) < MaxConn
          /\ c \in Conns \ InUse
    /\ idle' = idle \ {c}
    /\ held' = [held EXCEPT ![t] = c]
    /\ UNCHANGED slots

\* The inner pool keeps a connection while it has fewer than MinConn idle ones, and
\* closes it otherwise, when asked to, or when it is broken.
PutConn(t, keep) ==
    /\ idle' = IF keep /\ Cardinality(idle) < MinConn THEN idle \cup {held[t]} ELSE idle
    /\ held' = [held EXCEPT ![t] = NoConn]
    /\ UNCHANGED slots

===============================================================================
