------------------------- MODULE Administration_proofs -------------------------
(***************************************************************************)
(* Proofs about the parts of Administration: an embedding migration, for   *)
(* any chunks, profiles, processes and table names (IndexInv); accounts,   *)
(* for any emails, addresses, gateways, operators, number of handlers,     *)
(* limits and bounds (AccountsInv); the trace of a job, for any number of  *)
(* workers, stages and attempts; and, with the document views, that what   *)
(* each of the four parts keeps, every behaviour of it keeps.              *)
(***************************************************************************)
EXTENDS Administration, DocumentViews_proofs, WellFoundedInduction

(***************************************************************************)
(* Embedding migration: the inductive invariant.                           *)
(***************************************************************************)
IndexRows == [dead : BOOLEAN, by : Profiles]
IndexTables == UNION {[D -> IndexRows] : D \in SUBSET Chunks}
Migrations == [source : IndexTables, table : IndexTables, copied : IndexTables, profile : Profiles, state : {"building", "ready"}]

IndexTypes ==
    /\ live \in IndexTables
    /\ truth \in UNION {[D -> BOOLEAN] : D \in SUBSET Chunks}
    /\ profile \in Profiles \cup {NoProfile}
    /\ DOMAIN migrations \subseteq Names /\ migrations \in [DOMAIN migrations -> Migrations]
    /\ DOMAIN building \subseteq DOMAIN migrations /\ building \in [DOMAIN building -> SUBSET Chunks]
    /\ uses \in [Processes -> Profiles \cup {NoProfile}]
    /\ holds \in [Processes -> {"nothing", "write", "search"}]

\* A build has copied the rows that were read when it began but those it still has
\* to copy, with the marks they had, and vectors of its own profile.
Copy(m, rest) ==
    /\ rest \subseteq DOMAIN m.source
    /\ DOMAIN m.table = DOMAIN m.source \ rest
    /\ \A c \in DOMAIN m.table : m.table[c].dead = m.source[c].dead /\ m.table[c].by = m.profile

\* A migration that is ready has copied them all.
BuildInv ==
    /\ \A n \in DOMAIN building : migrations[n].state = "building" /\ Copy(migrations[n], building[n])
    /\ \A n \in DOMAIN migrations \ DOMAIN building : Copy(migrations[n], {})

\* Whoever has locked the profile row runs.
LockInv == \A p \in Processes : holds[p] # "nothing" => uses[p] = profile /\ uses[p] # NoProfile

VectorsInv == \A c \in DOMAIN live : live[c].by = profile

IndexInv == IndexTypes /\ BuildInv /\ LockInv /\ VectorsInv /\ NothingLost

(***************************************************************************)
(* Lemmas about tables.                                                    *)
(***************************************************************************)
\* A table is what maps some chunks to rows.
LEMMA TableIs ==
  ASSUME NEW t PROVE t \in IndexTables <=> DOMAIN t \subseteq Chunks /\ t \in [DOMAIN t -> IndexRows]
  BY DEF IndexTables

\* The rows of two tables are a table.
LEMMA MoreIsTable ==
  ASSUME NEW t \in IndexTables, NEW new \in IndexTables
  PROVE  /\ More(t, new) \in IndexTables
         /\ DOMAIN More(t, new) = DOMAIN t \cup DOMAIN new
         /\ \A c \in DOMAIN t \cup DOMAIN new : More(t, new)[c] = IF c \in DOMAIN new THEN new[c] ELSE t[c]
<1>1. /\ DOMAIN More(t, new) = DOMAIN t \cup DOMAIN new
      /\ \A c \in DOMAIN t \cup DOMAIN new : More(t, new)[c] = IF c \in DOMAIN new THEN new[c] ELSE t[c]
  BY DEF More
<1>2. More(t, new) \in [DOMAIN t \cup DOMAIN new -> IndexRows]
  BY TableIs DEF More
<1> QED
  BY <1>1, <1>2, TableIs

LEMMA EmptyIsTable == Empty \in IndexTables /\ DOMAIN Empty = {}
<1>1. Empty = [c \in {} |-> 0]
  BY DEF Empty
<1>2. DOMAIN Empty = {} /\ Empty \in [{} -> IndexRows]
  BY <1>1
<1> QED
  BY <1>2, TableIs

\* The same marks are the same chunks, with the same mark each.
LEMMA MarksAre ==
  ASSUME NothingLost
  PROVE  /\ DOMAIN truth = DOMAIN live
         /\ \A c \in DOMAIN live : truth[c] = live[c].dead
  BY DEF NothingLost, Marks

(***************************************************************************)
(* Every step keeps the invariant.                                         *)
(***************************************************************************)
LEMMA InitInv == IndexInit => IndexInv
<1> SUFFICES ASSUME IndexInit PROVE IndexInv
  OBVIOUS
<1> USE DEF IndexInit
<1>1. DOMAIN Empty = {} /\ Empty = [c \in {} |-> 0]
  BY DEF Empty
<1>2. IndexTypes
  <2>1. live \in IndexTables
    BY EmptyIsTable
  <2>2. truth \in UNION {[D -> BOOLEAN] : D \in SUBSET Chunks}
    BY <1>1
  <2>3. /\ DOMAIN migrations \subseteq Names /\ migrations \in [DOMAIN migrations -> Migrations]
        /\ DOMAIN building \subseteq DOMAIN migrations /\ building \in [DOMAIN building -> SUBSET Chunks]
    BY <1>1
  <2> QED
    BY <2>1, <2>2, <2>3 DEF IndexTypes
<1>3. BuildInv /\ LockInv /\ VectorsInv
  BY <1>1 DEF BuildInv, LockInv, VectorsInv
<1>4. NothingLost
  BY <1>1 DEF NothingLost, Marks
<1> QED
  BY <1>2, <1>3, <1>4 DEF IndexInv

LEMMA StutterInv == IndexInv /\ UNCHANGED indexVars => IndexInv'
  BY DEF IndexInv, indexVars, IndexTypes, BuildInv, LockInv, VectorsInv, NothingLost, Marks, Copy

\* Processes come and go: a store without a profile has no rows and no locks.
LEMMA ProcessSteps ==
  ASSUME IndexInv, NEW p \in Processes,
         Start(p) \/ Stop(p) \/ CheckProfile(p, "write") \/ CheckProfile(p, "search") \/ EndSearch(p)
  PROVE  IndexInv'
<1> USE DEF IndexInv
<1>1. UNCHANGED <<live, migrations, building, truth>>
  BY DEF Start, Stop, CheckProfile, EndSearch
<1>2. IndexTypes'
  BY <1>1 DEF Start, Stop, CheckProfile, EndSearch, IndexTypes
<1>3. BuildInv' /\ NothingLost'
  BY <1>1 DEF BuildInv, Copy, NothingLost, Marks
<1>4. VectorsInv'
  <2>1. CASE Start(p)
    <3>1. \A c \in DOMAIN live : live[c].by \in Profiles
      BY TableIs DEF IndexTypes, IndexRows
    <3> QED
      BY <2>1, <3>1, MigrationAssumption DEF Start, VectorsInv
  <2>2. CASE ~Start(p)
    BY <2>2 DEF Stop, CheckProfile, EndSearch, VectorsInv
  <2> QED
    BY <2>1, <2>2
<1>5. LockInv'
  BY MigrationAssumption DEF Start, Stop, CheckProfile, EndSearch, LockInv, IndexTypes
<1> QED
  BY <1>2, <1>3, <1>4, <1>5

\* A publication adds rows of the profile on record, which its process has locked.
LEMMA PublishInv ==
  ASSUME IndexInv, NEW p \in Processes, Publish(p) PROVE IndexInv'
<1> USE DEF IndexInv
<1>1. PICK new \in SUBSET (Chunks \ DOMAIN live) :
        /\ live' = More(live, [c \in new |-> [dead |-> FALSE, by |-> uses[p]]])
        /\ truth' = More(truth, [c \in new |-> FALSE])
  BY DEF Publish
<1>2. uses[p] = profile /\ uses[p] \in Profiles
  BY DEF Publish, LockInv, IndexTypes
<1> DEFINE added == [c \in new |-> [dead |-> FALSE, by |-> profile]]
<1>3. added \in IndexTables /\ DOMAIN added = new /\ \A c \in new : added[c].dead = FALSE /\ added[c].by = profile
  BY <1>2, TableIs DEF IndexRows
<1>4. live' = More(live, added)
  BY <1>1, <1>2
<1> HIDE DEF added
<1>5. /\ live' \in IndexTables
      /\ DOMAIN live' = DOMAIN live \cup new
      /\ \A c \in DOMAIN live' : live'[c] = IF c \in new THEN added[c] ELSE live[c]
  <2>1. live \in IndexTables
    BY DEF IndexTypes
  <2>2. /\ More(live, added) \in IndexTables
        /\ DOMAIN More(live, added) = DOMAIN live \cup DOMAIN added
        /\ \A c \in DOMAIN live \cup DOMAIN added :
             More(live, added)[c] = IF c \in DOMAIN added THEN added[c] ELSE live[c]
    BY <1>3, <2>1, MoreIsTable, Zenon
  <2> QED
    BY <1>3, <1>4, <2>2
<1>6a. truth' = [c \in DOMAIN truth \cup new |-> IF c \in new THEN [x \in new |-> FALSE][c] ELSE truth[c]]
  BY <1>1, Zenon DEF More
<1>6b. \A c \in new : [x \in new |-> FALSE][c] = FALSE
  BY Zenon
<1>6. /\ DOMAIN truth' = DOMAIN truth \cup new
      /\ truth' = [c \in DOMAIN truth \cup new |-> IF c \in new THEN FALSE ELSE truth[c]]
  BY <1>6a, <1>6b, Zenon
<1>7. IndexTypes'
  <2>1. DOMAIN truth \subseteq Chunks /\ truth \in [DOMAIN truth -> BOOLEAN]
    BY DEF IndexTypes
  <2>2. \A c \in DOMAIN truth' : truth'[c] \in BOOLEAN
    BY <1>6, <2>1, Zenon
  <2>2a. truth' = [c \in DOMAIN truth' |-> truth'[c]]
    BY <1>6
  <2>2b. truth' \in [DOMAIN truth' -> BOOLEAN]
    BY <2>2, <2>2a
  <2>3. DOMAIN truth' \subseteq Chunks
    BY <1>6, <2>1
  <2>4. truth' \in UNION {[D -> BOOLEAN] : D \in SUBSET Chunks}
    BY <2>2b, <2>3
  <2>5. holds' \in [Processes -> {"nothing", "write", "search"}]
    BY DEF Publish, IndexTypes
  <2> QED
    BY <1>5, <2>4, <2>5 DEF Publish, IndexTypes
<1>8. BuildInv' /\ LockInv'
  BY DEF Publish, BuildInv, LockInv, Copy, IndexTypes
<1>9. VectorsInv'
  BY <1>3, <1>5 DEF Publish, VectorsInv
<1>10. NothingLost'
  <2>1. \A c \in DOMAIN live' : truth'[c] = live'[c].dead
    BY <1>3, <1>5, <1>6, MarksAre
  <2>2. DOMAIN truth' = DOMAIN live'
    BY <1>5, <1>6, MarksAre
  <2>3. Marks(live') = [c \in DOMAIN truth' |-> truth'[c]]
    BY <2>1, <2>2 DEF Marks
  <2>4. truth' = [c \in DOMAIN truth' |-> truth'[c]]
    BY <1>6
  <2> QED
    BY <2>3, <2>4 DEF NothingLost, Marks
<1> QED
  BY <1>7, <1>8, <1>9, <1>10

\* A deletion marks rows of the table in place, and in the history.
LEMMA MarkDeletedInv ==
  ASSUME IndexInv, MarkDeleted PROVE IndexInv'
<1> USE DEF IndexInv
<1>1. PICK old \in SUBSET DOMAIN live :
        /\ live' = [c \in DOMAIN live |-> [live[c] EXCEPT !.dead = @ \/ c \in old]]
        /\ truth' = [c \in DOMAIN truth |-> truth[c] \/ c \in old]
  BY DEF MarkDeleted
<1>2. live \in [DOMAIN live -> IndexRows] /\ DOMAIN live \subseteq Chunks
  BY TableIs DEF IndexTypes
<1>3. \A c \in DOMAIN live : /\ live[c] \in IndexRows
                             /\ live[c].dead \in BOOLEAN
  BY <1>2 DEF IndexRows
<1>4. /\ DOMAIN live' = DOMAIN live
      /\ \A c \in DOMAIN live : live'[c] = [live[c] EXCEPT !.dead = (live[c].dead \/ c \in old)]
  BY <1>1
<1>5. \A c \in DOMAIN live :
        live'[c] \in IndexRows /\ live'[c].dead = (live[c].dead \/ c \in old) /\ live'[c].by = live[c].by
  <2> SUFFICES ASSUME NEW c \in DOMAIN live
               PROVE  live'[c] \in IndexRows /\ live'[c].dead = (live[c].dead \/ c \in old) /\ live'[c].by = live[c].by
    OBVIOUS
  <2>1. PICK mark \in BOOLEAN : mark = (live[c].dead \/ c \in old)
    BY Zenon
  <2>2. live'[c] = [live[c] EXCEPT !.dead = mark]
    BY <1>4, <2>1, Zenon
  <2>3. live'[c] \in IndexRows /\ live'[c].dead = mark /\ live'[c].by = live[c].by
    BY <1>3, <2>2 DEF IndexRows
  <2> QED
    BY <2>1, <2>3, Zenon
<1>6. live' \in IndexTables
  <2>1. live' = [c \in DOMAIN live |-> live'[c]]
    BY <1>1
  <2>2. live' \in [DOMAIN live -> IndexRows]
    BY <1>5, <2>1
  <2> QED
    BY <1>2, <1>4, <2>2, TableIs
<1>7. truth' = [c \in DOMAIN truth |-> truth[c] \/ c \in old]
  BY <1>1
<1>8. truth' \in [DOMAIN truth -> BOOLEAN] /\ DOMAIN truth' = DOMAIN truth
  BY <1>7, Zenon
<1>9. IndexTypes'
  <2>1. truth' \in UNION {[D -> BOOLEAN] : D \in SUBSET Chunks}
    BY <1>2, <1>8, MarksAre
  <2> QED
    BY <1>6, <2>1 DEF IndexTypes, MarkDeleted
<1>10. BuildInv' /\ LockInv'
  BY DEF MarkDeleted, BuildInv, LockInv, Copy
<1>11. VectorsInv'
  BY <1>4, <1>5 DEF VectorsInv, MarkDeleted
<1>12. NothingLost'
  <2>1. \A c \in DOMAIN live : truth'[c] = (truth[c] \/ c \in old)
    BY <1>7, MarksAre, Zenon
  <2>2. \A c \in DOMAIN live : truth'[c] = live'[c].dead
    BY <1>5, <2>1, MarksAre, Zenon
  <2>3. DOMAIN truth' = DOMAIN live
    BY <1>8, MarksAre
  <2>4. truth' = [c \in DOMAIN live |-> truth'[c]]
    BY <1>8, <2>3, Zenon
  <2>5. Marks(live') = [c \in DOMAIN live |-> live'[c].dead]
    BY <1>4, Zenon DEF Marks
  <2> QED
    BY <2>2, <2>4, <2>5, Zenon DEF NothingLost, Marks
<1> QED
  BY <1>9, <1>10, <1>11, <1>12

\* Builds change nothing but the table they build.
LEMMA BuildKeeps ==
  ASSUME IndexInv, UNCHANGED <<live, profile, uses, holds, truth>>,
         DOMAIN migrations' \subseteq Names, migrations' \in [DOMAIN migrations' -> Migrations],
         DOMAIN building' \subseteq DOMAIN migrations', building' \in [DOMAIN building' -> SUBSET Chunks],
         BuildInv'
  PROVE  IndexInv'
<1>1. IndexTypes'
  BY DEF IndexInv, IndexTypes
<1>2. LockInv' /\ VectorsInv' /\ NothingLost'
  BY DEF IndexInv, LockInv, VectorsInv, NothingLost, Marks
<1> QED
  BY <1>1, <1>2 DEF IndexInv

LEMMA BuildShadowInv ==
  ASSUME IndexInv, BuildShadow PROVE IndexInv'
<1>1. PICK n \in Free, own \in Profiles :
        /\ migrations' = Put(migrations, n, [source |-> live, table |-> Empty, copied |-> Empty,
                                             profile |-> own, state |-> "building"])
        /\ building' = Put(building, n, DOMAIN live)
  BY DEF BuildShadow
<1> DEFINE m == [source |-> live, table |-> Empty, copied |-> Empty, profile |-> own, state |-> "building"]
<1>2. live \in IndexTables /\ DOMAIN live \subseteq Chunks
  BY TableIs DEF IndexInv, IndexTypes
<1>3. m \in Migrations /\ m.state = "building" /\ Copy(m, DOMAIN live)
  BY <1>2, EmptyIsTable DEF Migrations, Copy
<1>4. migrations' = Put(migrations, n, m)
  BY <1>1
<1> HIDE DEF m
<1>5. /\ DOMAIN migrations' = DOMAIN migrations \cup {n}
      /\ \A o \in DOMAIN migrations' : migrations'[o] = IF o = n THEN m ELSE migrations[o]
      /\ migrations' = [o \in DOMAIN migrations' |-> migrations'[o]]
  BY <1>4 DEF Put, More
<1>6. /\ DOMAIN building' = DOMAIN building \cup {n}
      /\ \A o \in DOMAIN building' : building'[o] = IF o = n THEN DOMAIN live ELSE building[o]
      /\ building' = [o \in DOMAIN building' |-> building'[o]]
  BY <1>1 DEF Put, More
<1>7. /\ DOMAIN migrations \subseteq Names /\ migrations \in [DOMAIN migrations -> Migrations]
      /\ DOMAIN building \subseteq DOMAIN migrations /\ building \in [DOMAIN building -> SUBSET Chunks]
  BY DEF IndexInv, IndexTypes
<1>8. n \in Names /\ n \notin DOMAIN migrations
  BY DEF Free
<1>9. BuildInv'
  BY <1>3, <1>5, <1>6, <1>7, <1>8 DEF IndexInv, BuildInv
<1>10. DOMAIN migrations' \subseteq Names /\ migrations' \in [DOMAIN migrations' -> Migrations]
  BY <1>3, <1>5, <1>7, <1>8
<1>11. DOMAIN building' \subseteq DOMAIN migrations' /\ building' \in [DOMAIN building' -> SUBSET Chunks]
  BY <1>2, <1>5, <1>6, <1>7
<1> QED
  BY <1>9, <1>10, <1>11, BuildKeeps DEF BuildShadow

LEMMA BuildBatchInv ==
  ASSUME IndexInv, BuildBatch PROVE IndexInv'
<1>0. PICK n \in DOMAIN building : \E c \in building[n] :
        /\ migrations' = [migrations EXCEPT ![n].table =
              Put(@, c, [dead |-> migrations[n].source[c].dead, by |-> migrations[n].profile])]
        /\ building' = [building EXCEPT ![n] = @ \ {c}]
  BY DEF BuildBatch
<1>1. PICK c \in building[n] :
        /\ migrations' = [migrations EXCEPT ![n].table =
              Put(@, c, [dead |-> migrations[n].source[c].dead, by |-> migrations[n].profile])]
        /\ building' = [building EXCEPT ![n] = @ \ {c}]
  BY <1>0
<1> DEFINE m == migrations[n]
           copied == [dead |-> m.source[c].dead, by |-> m.profile]
           added == [x \in {c} |-> copied]
           table == More(m.table, added)
<1>2. /\ DOMAIN migrations \subseteq Names /\ migrations \in [DOMAIN migrations -> Migrations]
      /\ DOMAIN building \subseteq DOMAIN migrations /\ building \in [DOMAIN building -> SUBSET Chunks]
  BY DEF IndexInv, IndexTypes
<1>3. m \in Migrations /\ m.state = "building" /\ Copy(m, building[n])
  BY <1>2 DEF IndexInv, BuildInv
<1>4. m.source \in IndexTables /\ m.table \in IndexTables /\ m.profile \in Profiles
  BY <1>3 DEF Migrations
<1>5. c \in DOMAIN m.source
  BY <1>3 DEF Copy
<1>6. m.source[c] \in IndexRows /\ c \in Chunks
  BY <1>4, <1>5, TableIs
<1>7. copied \in IndexRows
  BY <1>4, <1>6 DEF IndexRows
<1>8. added \in IndexTables /\ DOMAIN added = {c} /\ added[c] = copied
  BY <1>6, <1>7, TableIs
<1> HIDE DEF added
<1>9. /\ table \in IndexTables
      /\ DOMAIN table = DOMAIN m.table \cup {c}
      /\ \A x \in DOMAIN table : table[x] = IF x = c THEN copied ELSE m.table[x]
  <2>1. /\ table \in IndexTables
        /\ DOMAIN table = DOMAIN m.table \cup DOMAIN added
        /\ \A x \in DOMAIN m.table \cup DOMAIN added :
             table[x] = IF x \in DOMAIN added THEN added[x] ELSE m.table[x]
    BY <1>4, <1>8, MoreIsTable, Zenon
  <2> HIDE DEF table, copied, m
  <2> QED
    BY <1>8, <2>1
<1>10. migrations' = [migrations EXCEPT ![n].table = table]
  BY <1>1 DEF Put, added
<1> HIDE DEF table
<1>11. /\ DOMAIN migrations' = DOMAIN migrations
       /\ migrations'[n] = [m EXCEPT !.table = table]
       /\ \A o \in DOMAIN migrations : o # n => migrations'[o] = migrations[o]
       /\ migrations' = [o \in DOMAIN migrations |-> migrations'[o]]
  BY <1>2, <1>10
<1>12. [m EXCEPT !.table = table] \in Migrations
  BY <1>3, <1>9 DEF Migrations
<1>13. Copy([m EXCEPT !.table = table], building[n] \ {c})
  <2> DEFINE next == [m EXCEPT !.table = table]
  <2>1. next.source = m.source /\ next.table = table /\ next.profile = m.profile
    BY <1>3 DEF Migrations
  <2> HIDE DEF next
  <2>2. /\ building[n] \subseteq DOMAIN m.source
        /\ DOMAIN m.table = DOMAIN m.source \ building[n]
        /\ \A x \in DOMAIN m.table : m.table[x].dead = m.source[x].dead /\ m.table[x].by = m.profile
    BY <1>3 DEF Copy
  <2>3. DOMAIN table = DOMAIN m.source \ (building[n] \ {c})
    BY <1>5, <1>9, <2>2
  <2>4. copied.dead = m.source[c].dead /\ copied.by = m.profile
    OBVIOUS
  <2> HIDE DEF copied, m
  <2>5. \A x \in DOMAIN table : table[x].dead = m.source[x].dead /\ table[x].by = m.profile
    BY <1>9, <2>2, <2>4
  <2>6. Copy(next, building[n] \ {c})
    BY <2>1, <2>2, <2>3, <2>5 DEF Copy
  <2> QED
    BY <2>6 DEF next
<1>14. migrations'[n].state = "building"
  BY <1>3, <1>11 DEF Migrations
<1>15. /\ DOMAIN building' = DOMAIN building
       /\ building'[n] = building[n] \ {c}
       /\ \A o \in DOMAIN building : o # n => building'[o] = building[o]
       /\ building' \in [DOMAIN building -> SUBSET Chunks]
  BY <1>1, <1>2
<1> HIDE DEF m
<1>16. BuildInv'
  BY <1>2, <1>11, <1>13, <1>14, <1>15 DEF IndexInv, BuildInv
<1>17. migrations' \in [DOMAIN migrations' -> Migrations]
  BY <1>2, <1>11, <1>12
<1> QED
  BY <1>2, <1>11, <1>15, <1>16, <1>17, BuildKeeps DEF BuildBatch

LEMMA BuildReadyInv ==
  ASSUME IndexInv, BuildReady PROVE IndexInv'
<1>1. PICK n \in DOMAIN building :
        /\ building[n] = {}
        /\ migrations' = [migrations EXCEPT ![n].state = "ready", ![n].copied = migrations[n].table]
        /\ building' = Restrict(building, DOMAIN building \ {n})
  BY DEF BuildReady
<1> DEFINE m == migrations[n]
           next == [[m EXCEPT !.state = "ready"] EXCEPT !.copied = m.table]
<1>2. /\ DOMAIN migrations \subseteq Names /\ migrations \in [DOMAIN migrations -> Migrations]
      /\ DOMAIN building \subseteq DOMAIN migrations /\ building \in [DOMAIN building -> SUBSET Chunks]
  BY DEF IndexInv, IndexTypes
<1>3. m \in Migrations /\ Copy(m, {})
  BY <1>1, <1>2 DEF IndexInv, BuildInv
<1>4. next \in Migrations
  BY <1>3 DEF Migrations
<1>5. next.source = m.source /\ next.table = m.table /\ next.profile = m.profile
  BY <1>3 DEF Migrations
<1>6. /\ DOMAIN migrations' = DOMAIN migrations
      /\ migrations'[n] = next
      /\ \A o \in DOMAIN migrations : o # n => migrations'[o] = migrations[o]
      /\ migrations' = [o \in DOMAIN migrations |-> migrations'[o]]
  BY <1>1, <1>2
<1> HIDE DEF next
<1>7. /\ DOMAIN building' = DOMAIN building \ {n}
      /\ \A o \in DOMAIN building' : building'[o] = building[o]
      /\ building' \in [DOMAIN building' -> SUBSET Chunks]
  BY <1>1, <1>2 DEF Restrict
<1>8. Copy(next, {})
  BY <1>3, <1>5 DEF Copy
<1> HIDE DEF m
<1>9. BuildInv'
  BY <1>2, <1>6, <1>7, <1>8 DEF IndexInv, BuildInv
<1>10. migrations' \in [DOMAIN migrations' -> Migrations]
  BY <1>2, <1>4, <1>6
<1> QED
  BY <1>2, <1>6, <1>7, <1>9, <1>10, BuildKeeps DEF BuildReady

LEMMA BuildAbortsInv ==
  ASSUME IndexInv, BuildAborts PROVE IndexInv'
<1>1. PICK n \in DOMAIN building :
        /\ building' = Restrict(building, DOMAIN building \ {n})
        /\ migrations' = Restrict(migrations, DOMAIN migrations \ {n})
  BY DEF BuildAborts
<1>2. /\ DOMAIN migrations \subseteq Names /\ migrations \in [DOMAIN migrations -> Migrations]
      /\ DOMAIN building \subseteq DOMAIN migrations /\ building \in [DOMAIN building -> SUBSET Chunks]
  BY DEF IndexInv, IndexTypes
<1>3. /\ DOMAIN building' = DOMAIN building \ {n}
      /\ \A o \in DOMAIN building' : building'[o] = building[o]
      /\ building' \in [DOMAIN building' -> SUBSET Chunks]
  BY <1>1, <1>2 DEF Restrict
<1>4. /\ DOMAIN migrations' = DOMAIN migrations \ {n}
      /\ \A o \in DOMAIN migrations' : migrations'[o] = migrations[o]
      /\ migrations' \in [DOMAIN migrations' -> Migrations]
  BY <1>1, <1>2 DEF Restrict
<1>5. BuildInv'
  BY <1>2, <1>3, <1>4 DEF IndexInv, BuildInv
<1> QED
  BY <1>2, <1>3, <1>4, <1>5, BuildKeeps DEF BuildAborts

\* The table that is taken has the rows the live one has, marked alike, for its copy
\* was made from rows that are the live ones still; the one it replaces is its copy in turn.
LEMMA ActivateInv ==
  ASSUME IndexInv, ActivateShadow PROVE IndexInv'
<1>1. PICK n \in DOMAIN migrations, previous \in Free :
        /\ Fits(n)
        /\ live' = migrations[n].table
        /\ profile' = migrations[n].profile
        /\ migrations' =
             LET done == Restrict(migrations, DOMAIN migrations \ {n})
             IN  IF profile = NoProfile THEN done
                 ELSE Put(done, previous, [source |-> migrations[n].table, table |-> live, copied |-> live,
                                           profile |-> profile, state |-> "ready"])
  BY DEF ActivateShadow
<1> DEFINE m == migrations[n]
           done == Restrict(migrations, DOMAIN migrations \ {n})
           back == [source |-> m.table, table |-> live, copied |-> live, profile |-> profile, state |-> "ready"]
<1>2. /\ DOMAIN migrations \subseteq Names /\ migrations \in [DOMAIN migrations -> Migrations]
      /\ DOMAIN building \subseteq DOMAIN migrations /\ building \in [DOMAIN building -> SUBSET Chunks]
      /\ live \in IndexTables /\ profile \in Profiles \cup {NoProfile}
  BY DEF IndexInv, IndexTypes
<1>3. n \notin DOMAIN building
  BY <1>1 DEF Fits, IndexInv, BuildInv
<1>4. m \in Migrations /\ Copy(m, {}) /\ m.source = live
  BY <1>1, <1>2, <1>3 DEF Fits, Fingerprint, IndexInv, BuildInv
<1>5. m.table \in IndexTables /\ m.profile \in Profiles
  BY <1>4 DEF Migrations
<1>6. /\ DOMAIN m.table = DOMAIN live
      /\ \A c \in DOMAIN live : m.table[c].dead = live[c].dead /\ m.table[c].by = m.profile
  BY <1>4 DEF Copy
<1>7. VectorsInv'
  BY <1>1, <1>6 DEF VectorsInv
<1>8. NothingLost'
  <2>1. Marks(m.table) = Marks(live)
    BY <1>6 DEF Marks
  <2> QED
    BY <1>1, <2>1 DEF NothingLost, ActivateShadow, IndexInv
<1>9. LockInv'
  BY DEF LockInv, ActivateShadow, ProfileUnlocked
<1>10. /\ DOMAIN done = DOMAIN migrations \ {n}
       /\ \A o \in DOMAIN done : done[o] = migrations[o]
       /\ done \in [DOMAIN done -> Migrations]
  BY <1>2 DEF Restrict
<1>11. previous \in Names /\ previous \notin DOMAIN migrations
  BY DEF Free
<1>12. building' = building /\ DOMAIN building \subseteq DOMAIN done
  BY <1>2, <1>3, <1>10 DEF ActivateShadow
<1>13. /\ BuildInv' /\ DOMAIN migrations' \subseteq Names
       /\ migrations' \in [DOMAIN migrations' -> Migrations] /\ DOMAIN building' \subseteq DOMAIN migrations'
  <2>1. CASE profile = NoProfile
    <3>1. migrations' = done
      BY <1>1, <2>1
    <3> HIDE DEF done
    <3>2. BuildInv'
      BY <3>1, <1>2, <1>10, <1>12 DEF IndexInv, BuildInv
    <3> QED
      BY <3>1, <3>2, <1>2, <1>10, <1>12
  <2>2. CASE profile # NoProfile
    <3>1. back \in Migrations
      BY <1>2, <1>5, <2>2 DEF Migrations
    <3>2. back.source = m.table /\ back.table = live /\ back.profile = profile
      OBVIOUS
    <3>3. \A c \in DOMAIN live : live[c].by = profile
      BY DEF IndexInv, VectorsInv
    <3>4. Copy(back, {})
      BY <1>6, <3>2, <3>3 DEF Copy
    <3>5. migrations' = Put(done, previous, back)
      BY <1>1, <2>2
    <3> HIDE DEF done, back
    <3>6. /\ DOMAIN migrations' = DOMAIN done \cup {previous}
          /\ \A o \in DOMAIN migrations' : migrations'[o] = IF o = previous THEN back ELSE done[o]
          /\ migrations' = [o \in DOMAIN migrations' |-> migrations'[o]]
      BY <3>5 DEF Put, More
    <3>7. BuildInv'
      BY <3>4, <3>6, <1>2, <1>10, <1>11, <1>12 DEF IndexInv, BuildInv
    <3> QED
      BY <3>1, <3>6, <3>7, <1>2, <1>10, <1>11, <1>12
  <2> QED
    BY <2>1, <2>2
<1>14. IndexTypes'
  <2>1. live' \in IndexTables /\ profile' \in Profiles \cup {NoProfile}
    BY <1>1, <1>5
  <2>2. building' \in [DOMAIN building' -> SUBSET Chunks]
    BY <1>2, <1>12
  <2> HIDE DEF m, done, back
  <2> QED
    BY <2>1, <2>2, <1>13 DEF IndexInv, IndexTypes, ActivateShadow
<1> QED
  BY <1>7, <1>8, <1>9, <1>13, <1>14 DEF IndexInv

\* Every step of the store, its processes and the migrations keeps the invariant.
LEMMA StepInv == IndexInv /\ [IndexNext]_indexVars => IndexInv'
<1> SUFFICES ASSUME IndexInv, [IndexNext]_indexVars PROVE IndexInv'
  OBVIOUS
<1>1. ASSUME NEW p \in Processes,
             Start(p) \/ Stop(p) \/ CheckProfile(p, "write") \/ CheckProfile(p, "search") \/ EndSearch(p)
      PROVE  IndexInv'
  BY <1>1, ProcessSteps
<1>2. ASSUME NEW p \in Processes, Publish(p) PROVE IndexInv'
  BY <1>2, PublishInv
<1> QED
  BY <1>1, <1>2, MarkDeletedInv, BuildShadowInv, BuildBatchInv, BuildReadyInv, BuildAbortsInv, ActivateInv, StutterInv
     DEF IndexNext

\* What the invariant says of types, and of the table that is searched.
LEMMA InvTypes == IndexInv => IndexTypeOK
<1> SUFFICES ASSUME IndexInv PROVE IndexTypeOK
  OBVIOUS
<1>1. DOMAIN live \subseteq Chunks /\ live \in [DOMAIN live -> IndexRows]
  BY TableIs DEF IndexInv, IndexTypes
<1>2. \A c \in DOMAIN live : live[c].dead \in BOOLEAN /\ live[c].by \in Profiles
  BY <1>1 DEF IndexRows
<1>3. \A n \in DOMAIN migrations : migrations[n].state \in {"building", "ready"}
  BY DEF IndexInv, IndexTypes, Migrations
<1> QED
  BY <1>1, <1>2, <1>3 DEF IndexInv, IndexTypes, IndexTypeOK

LEMMA InvConsistent == IndexInv => IndexConsistent
  BY DEF IndexInv, IndexConsistent, OneProfile, VectorsInv, LockInv

\* The store alone: from an empty table on, no step loses a row or mixes profiles.
THEOREM Consistent == IndexInit /\ [][IndexNext]_indexVars => []IndexConsistent
<1>1. IndexInit => IndexInv
  BY InitInv
<1>2. IndexInv /\ [IndexNext]_indexVars => IndexInv'
  BY StepInv
<1>3. IndexInv => IndexConsistent
  BY InvConsistent
<1> QED
  BY <1>1, <1>2, <1>3, PTL

(***************************************************************************)
(* Accounts: the inductive invariant.                                      *)
(***************************************************************************)
UserRows == [tenant : Nat \ {0}, email : Emails \cup {NoEmail}, role : {"admin", "member"},
             active : BOOLEAN, password : BOOLEAN, token : 0..MaxTokens]

CallStates ==
    [op : {"idle", "register", "models", "member", "delete", "login", "setup"},
     user : Nat, email : Emails \cup {NoEmail}, role : {"none", "admin", "member"}, target : Nat,
     of : Gateways \cup {NoGateway, EnvGateway}]

UsersTypes ==
    /\ users \in Seq(UserRows) /\ Len(users) <= MaxUsers
    /\ issued \in Seq(1..Len(users)) /\ Len(issued) <= MaxTokens

\* What a handler has looked up: accounts that were there, for accounts are never
\* removed, an email that was given, a gateway that may be configured.
CallInv ==
    /\ call \in [Calls -> CallStates]
    /\ \A c \in Calls :
         /\ call[c].op \in {"member", "delete", "login"} => call[c].user \in Users
         /\ call[c].op = "delete" => call[c].target \in Users
         /\ call[c].op \in {"models", "register", "member", "login"} => call[c].email \in Emails
         /\ call[c].op = "member" => call[c].role # "none"
         /\ call[c].op = "setup" => call[c].of \in Gateways

GatewayInv ==
    /\ gateway \in Gateways \cup {NoGateway}
    /\ catalog \in [of : Gateways \cup {NoGateway, EnvGateway}, left : 0..Fresh]

\* A limiter counts the oldest hits first.
Ordered(h) == \A i, j \in DOMAIN h : i < j => h[i] >= h[j]

HitsInv ==
    /\ hits \in [Keys -> Seq(0..Window)]
    /\ \A k \in Keys : Len(hits[k]) <= MaxHits /\ Ordered(hits[k])

\* The account u has the token t: it was the last one issued for u.
LastFor(u, t) == issued[t] = u /\ \A later \in 1..Len(issued) : later > t => issued[later] # u

TokenInv ==
    \A u \in Users :
       /\ users[u].token <= Len(issued)
       /\ users[u].active => \A t \in 1..Len(issued) : users[u].token = t <=> LastFor(u, t)

RowsInv == UsersTypes /\ TokenInv /\ AdminRemains /\ EmailsDistinct

AccountsInv == RowsInv /\ CallInv /\ GatewayInv /\ HitsInv

(***************************************************************************)
(* Accounts and tokens.                                                    *)
(***************************************************************************)
LEMMA AdminRemainsIs ==
  AdminRemains <=> \A v \in Users : \E u \in Users : users[u].tenant = users[v].tenant /\ Admin(u)
  BY DEF AdminRemains, Tenants

LEMMA AdminRemainsNext ==
  AdminRemains' <=> \A v \in 1..Len(users') : \E u \in 1..Len(users') :
      users'[u].tenant = users'[v].tenant /\ users'[u].active /\ users'[u].role = "admin"
<1> DEFINE rows == users'
           n == Len(users')
<1>1. AdminRemains' <=>
        \A t \in {rows[v].tenant : v \in 1..n} : \E u \in 1..n :
          rows[u].tenant = t /\ u \in 1..n /\ rows[u].active /\ rows[u].role = "admin"
  BY DEF AdminRemains, Tenants, Users, Admin
<1> HIDE DEF rows, n
<1>2. (\A t \in {rows[v].tenant : v \in 1..n} : \E u \in 1..n :
          rows[u].tenant = t /\ u \in 1..n /\ rows[u].active /\ rows[u].role = "admin")
      <=> \A v \in 1..n : \E u \in 1..n :
          rows[u].tenant = rows[v].tenant /\ rows[u].active /\ rows[u].role = "admin"
  OBVIOUS
<1> QED
  BY <1>1, <1>2 DEF rows, n

\* A user's row, and what a token was issued for.
LEMMA UserRow ==
  ASSUME UsersTypes, NEW u \in Users
  PROVE  /\ users[u] \in UserRows
         /\ users[u].tenant \in Nat \ {0} /\ users[u].token \in 0..MaxTokens
         /\ users[u].active \in BOOLEAN /\ users[u].password \in BOOLEAN
<1>1. users[u] \in UserRows
  BY DEF UsersTypes, Users
<1> QED
  BY <1>1 DEF UserRows

\* Tokens that are told by the account they were last issued for are told by
\* the accounts they open.
LEMMA TokensFollow ==
  ASSUME UsersTypes, TokenInv PROVE TokensTruthful
<1> SUFFICES ASSUME NEW t \in 1..Len(issued)
             PROVE  Opens(t) = {u \in {issued[t]} : users[u].active
                                  /\ \A later \in (t + 1)..Len(issued) : issued[later] # issued[t]}
  BY DEF TokensTruthful
<1>1. issued[t] \in Users /\ Len(issued) \in Nat
  BY DEF UsersTypes, Users
<1>2. \A u \in Users : LastFor(u, t) <=>
          issued[t] = u /\ \A later \in (t + 1)..Len(issued) : issued[later] # issued[t]
  BY <1>1 DEF LastFor
<1>3. \A u \in Users : users[u].active => (users[u].token = t <=> LastFor(u, t))
  BY DEF TokenInv
<1> QED
  BY <1>1, <1>2, <1>3 DEF Opens

\* A token issued to an account, new or not, is that account's, and no other's.
LEMMA TokenIssued ==
  ASSUME UsersTypes, TokenInv, UsersTypes',
         NEW u \in 1..Len(users'),
         Len(users') >= Len(users), 1..Len(users') \subseteq 1..Len(users) \cup {u},
         issued' = Append(issued, u), users'[u].token = Len(issued) + 1,
         \A v \in Users \ {u} : users'[v].token = users[v].token /\ users'[v].active = users[v].active,
         u \in Users => users'[u].active = users[u].active
  PROVE  TokenInv'
<1>1. /\ Len(issued) \in Nat /\ Len(issued') = Len(issued) + 1
      /\ issued'[Len(issued) + 1] = u
      /\ \A t \in 1..Len(issued) : issued'[t] = issued[t]
  BY DEF UsersTypes
<1> SUFFICES ASSUME NEW v \in 1..Len(users')
             PROVE  /\ users'[v].token <= Len(issued')
                    /\ users'[v].active => \A t \in 1..Len(issued') : users'[v].token = t <=> LastFor(v, t)'
  BY DEF TokenInv, Users
<1>2. CASE v = u
  <2>1. \A t \in 1..Len(issued') : LastFor(u, t)' <=> t = Len(issued) + 1
    BY <1>1 DEF LastFor
  <2> QED
    BY <1>1, <1>2, <2>1
<1>3. CASE v # u
  <2>1. v \in Users /\ users'[v].token = users[v].token /\ users'[v].active = users[v].active
    BY <1>3 DEF Users
  <2>2. users[v].token \in Nat /\ users[v].token <= Len(issued)
    BY <2>1, UserRow DEF TokenInv
  <2>3. \A t \in 1..Len(issued) : LastFor(v, t)' <=> LastFor(v, t)
    BY <1>1, <1>3, SMTT(30) DEF LastFor
  <2>4. \A t \in 1..Len(issued') : t = Len(issued) + 1 => ~LastFor(v, t)'
    BY <1>1, <1>3 DEF LastFor
  <2>5. users[v].active => \A t \in 1..Len(issued) : users[v].token = t <=> LastFor(v, t)
    BY <2>1 DEF TokenInv
  <2> QED
    BY <1>1, <2>1, <2>2, <2>3, <2>4, <2>5
<1> QED
  BY <1>2, <1>3

(***************************************************************************)
(* What handlers do to the accounts.                                       *)
(***************************************************************************)
\* What a handler leaves alone stays as it is.
LEMMA RowsStay == RowsInv /\ UNCHANGED <<users, issued>> => RowsInv' /\ Len(users') = Len(users)
<1> SUFFICES ASSUME RowsInv, users' = users, issued' = issued
             PROVE  RowsInv' /\ Len(users') = Len(users)
  OBVIOUS
<1>1. UsersTypes'
  BY DEF RowsInv, UsersTypes
<1>2. TokenInv'
  <2>1. Users' = Users /\ \A u, t : LastFor(u, t)' <=> LastFor(u, t)
    BY DEF Users, LastFor
  <2>2. TokenInv
    BY DEF RowsInv
  <2> QED
    BY <2>1, <2>2 DEF TokenInv
<1>3. AdminRemains'
  <2>1. Users' = Users /\ Tenants' = Tenants /\ \A u : Admin(u)' <=> Admin(u)
    BY DEF Users, Tenants, Admin
  <2>2. AdminRemains
    BY DEF RowsInv
  <2> QED
    BY <2>1, <2>2 DEF AdminRemains
<1>4. EmailsDistinct'
  BY DEF RowsInv, EmailsDistinct, Users
<1> QED
  BY <1>1, <1>2, <1>3, <1>4 DEF RowsInv

\* A new account is of a tenant of its own, which it administers, or of one there is.
LEMMA AddUserInv ==
  ASSUME RowsInv, Room, NEW tenant \in Nat \ {0}, NEW email \in Emails, NEW role \in {"admin", "member"},
         tenant \in Tenants \/ role = "admin",
         AddUser(tenant, email, role)
  PROVE  RowsInv' /\ Len(users') >= Len(users)
<1> USE DEF RowsInv
<1>1. CASE UNCHANGED <<users, issued>>
  BY <1>1, RowsStay DEF UsersTypes
<1>2. CASE ~UNCHANGED <<users, issued>>
  <2> DEFINE new == Account(tenant, email, role)
             n == Len(users) + 1
  <2>1. users' = Append(users, new) /\ issued' = Append(issued, n) /\ ~EmailTaken(tenant, email)
    BY <1>2 DEF AddUser
  <2>2. /\ Len(users) \in Nat /\ Len(issued) \in Nat /\ MaxTokens \in Nat /\ MaxUsers \in Nat
        /\ Len(users) < MaxUsers /\ Len(issued) < MaxTokens
    BY AccountsAssumption DEF UsersTypes, Room
  <2>3. new \in UserRows
    BY <2>2 DEF Account, UserRows
  <2>4. /\ new.tenant = tenant /\ new.email = email /\ new.role = role
        /\ new.active = TRUE /\ new.password = TRUE /\ new.token = Len(issued) + 1
    BY DEF Account
  <2> HIDE DEF new
  <2>5. /\ Len(users') = n /\ users'[n] = new /\ \A v \in Users : users'[v] = users[v]
        /\ 1..Len(users') = Users \cup {n}
    BY <2>1, <2>2 DEF UsersTypes, Users
  <2>6. UsersTypes'
    <3>1. users' \in Seq(UserRows)
      BY <2>1, <2>3 DEF UsersTypes
    <3>2. issued' \in Seq(1..Len(users'))
      BY <2>1, <2>2, <2>5 DEF UsersTypes
    <3>3. Len(issued') = Len(issued) + 1
      BY <2>1 DEF UsersTypes
    <3> QED
      BY <2>2, <2>5, <3>1, <3>2, <3>3 DEF UsersTypes
  <2>7. TokenInv'
    <3>1. /\ n \in 1..Len(users') /\ Len(users') >= Len(users) /\ n \notin Users
          /\ 1..Len(users') \subseteq 1..Len(users) \cup {n}
      BY <2>2, <2>5 DEF Users
    <3>2. users'[n].token = Len(issued) + 1
      BY <2>4, <2>5
    <3>3. \A v \in Users \ {n} : users'[v].token = users[v].token /\ users'[v].active = users[v].active
      BY <2>5
    <3> HIDE DEF n
    <3> QED
      BY <2>1, <2>6, <3>1, <3>2, <3>3, TokenIssued
  <2>8. AdminRemains'
    <3> SUFFICES ASSUME NEW v \in 1..Len(users')
                 PROVE  \E u \in 1..Len(users') : /\ users'[u].tenant = users'[v].tenant
                                                  /\ users'[u].active /\ users'[u].role = "admin"
      BY DEF AdminRemains, Tenants, Users, Admin
    <3>1. CASE v \in Users \/ tenant \in Tenants
      <4>1. PICK w \in Users : users'[v].tenant = users[w].tenant
        BY <2>4, <2>5, <3>1 DEF Tenants
      <4>2. PICK u \in Users : users[u].tenant = users[w].tenant /\ Admin(u)
        BY AdminRemainsIs
      <4> QED
        BY <2>5, <4>1, <4>2 DEF Admin
    <3>2. CASE v = n /\ role = "admin"
      BY <2>4, <2>5, <3>2
    <3> QED
      BY <2>5, <3>1, <3>2
  <2>9. EmailsDistinct'
    <3>1. \A v \in Users : users[v].password => users[v].email # email
      BY <2>1 DEF EmailTaken
    <3> QED
      BY <2>4, <2>5, <3>1 DEF EmailsDistinct, Users
  <2> QED
    BY <2>2, <2>5, <2>6, <2>7, <2>8, <2>9
<1> QED
  BY <1>1, <1>2

\* A login replaces the token of its account, deleted or not meanwhile.
LEMMA RotateTokenRows ==
  ASSUME RowsInv, CallInv, NEW c \in Calls, RotateToken(c) PROVE RowsInv' /\ Len(users') = Len(users)
<1> USE DEF RowsInv
<1>1. PICK u \in Users : u = call[c].user
  BY DEF RotateToken, CallInv
<1>2. users' = [users EXCEPT ![u].token = Len(issued) + 1] /\ issued' = Append(issued, u)
  BY <1>1 DEF RotateToken
<1>3. Len(users) \in Nat /\ Len(issued) \in Nat /\ MaxTokens \in Nat /\ Len(issued) < MaxTokens
  BY AccountsAssumption DEF UsersTypes, RotateToken
<1> DEFINE next == [users[u] EXCEPT !.token = Len(issued) + 1]
<1>4. /\ next \in UserRows /\ next.token = Len(issued) + 1 /\ next.tenant = users[u].tenant
      /\ next.email = users[u].email /\ next.role = users[u].role
      /\ next.active = users[u].active /\ next.password = users[u].password
  <2>1. users[u] \in UserRows
    BY UserRow
  <2> QED
    BY <1>3, <2>1 DEF UserRows
<1> HIDE DEF next
<1>5. /\ Len(users') = Len(users) /\ users'[u] = next
      /\ \A v \in Users : v # u => users'[v] = users[v]
      /\ users' \in Seq(UserRows)
  BY <1>2, <1>3, <1>4 DEF UsersTypes, Users, next
<1>6. UsersTypes'
  <2>1. issued' \in Seq(1..Len(users')) /\ Len(issued') = Len(issued) + 1
    BY <1>2, <1>5 DEF UsersTypes, Users
  <2> QED
    BY <1>3, <1>5, <2>1 DEF UsersTypes
<1>7. TokenInv'
  <2>1. /\ u \in 1..Len(users') /\ Len(users') >= Len(users)
        /\ 1..Len(users') \subseteq 1..Len(users) \cup {u}
    BY <1>3, <1>5 DEF Users
  <2>2. /\ users'[u].token = Len(issued) + 1
        /\ \A v \in Users \ {u} : users'[v].token = users[v].token /\ users'[v].active = users[v].active
        /\ users'[u].active = users[u].active
    BY <1>4, <1>5
  <2> QED
    BY <1>2, <1>6, <2>1, <2>2, TokenIssued
<1>8. \A v \in Users : /\ users'[v].tenant = users[v].tenant /\ users'[v].email = users[v].email
                       /\ users'[v].role = users[v].role /\ users'[v].active = users[v].active
                       /\ users'[v].password = users[v].password
  BY <1>4, <1>5
<1>9. AdminRemains'
  <2>1. 1..Len(users') = Users
    BY <1>5 DEF Users
  <2>2. AdminRemains' <=> \A v \in 1..Len(users') : \E w \in 1..Len(users') :
             users'[w].tenant = users'[v].tenant /\ users'[w].active /\ users'[w].role = "admin"
    BY AdminRemainsNext
  <2>3. \A v \in Users : \E w \in Users :
             users[w].tenant = users[v].tenant /\ users[w].active /\ users[w].role = "admin"
    BY AdminRemainsIs DEF Admin
  <2> SUFFICES ASSUME NEW v \in Users
               PROVE  \E w \in Users : users'[w].tenant = users'[v].tenant /\ users'[w].active /\ users'[w].role = "admin"
    BY <2>1, <2>2
  <2>4. PICK w \in Users : users[w].tenant = users[v].tenant /\ users[w].active /\ users[w].role = "admin"
    BY <2>3
  <2> QED
    BY <1>8, <2>4
<1>10. EmailsDistinct'
  BY <1>5, <1>8 DEF EmailsDistinct, Users
<1> QED
  BY <1>5, <1>6, <1>7, <1>9, <1>10

\* A deletion leaves the administrator who asked for it.
LEMMA DeleteMemberRows ==
  ASSUME RowsInv, CallInv, NEW c \in Calls, DeleteMember(c) PROVE RowsInv' /\ Len(users') = Len(users)
<1> USE DEF RowsInv
<1>1. PICK u \in Users, target \in Users : u = call[c].user /\ target = call[c].target
  BY DEF DeleteMember, CallInv
<1>2. CASE ~MayDelete(u, target)
  <2>1. UNCHANGED <<users, issued>>
    BY <1>1, <1>2 DEF DeleteMember
  <2> QED
    BY <2>1, RowsStay
<1>3. CASE MayDelete(u, target)
  <2> DEFINE d1 == [users[target] EXCEPT !.active = FALSE]
             d2 == [d1 EXCEPT !.password = FALSE]
             d3 == [d2 EXCEPT !.token = 0]
             gone == [d3 EXCEPT !.email = NoEmail]
  <2>1. users' = [users EXCEPT ![target] = gone] /\ issued' = issued
    BY <1>1, <1>3 DEF DeleteMember, UsersTypes, Users
  <2>2. users[target] \in UserRows
    BY UserRow
  <2>3. d1 \in UserRows /\ d1.active = FALSE /\ d1.tenant = users[target].tenant
    BY <2>2 DEF UserRows
  <2> HIDE DEF d1
  <2>4. d2 \in UserRows /\ d2.active = FALSE /\ d2.password = FALSE /\ d2.tenant = users[target].tenant
    BY <2>3 DEF UserRows
  <2> HIDE DEF d2
  <2>5. d3 \in UserRows /\ d3.active = FALSE /\ d3.password = FALSE /\ d3.token = 0 /\ d3.tenant = users[target].tenant
    BY <2>4, AccountsAssumption DEF UserRows
  <2> HIDE DEF d3
  <2>6. gone \in UserRows /\ gone.active = FALSE /\ gone.password = FALSE /\ gone.token = 0
        /\ gone.tenant = users[target].tenant
    BY <2>5 DEF UserRows
  <2> HIDE DEF gone
  <2>7. /\ Len(users') = Len(users) /\ users'[target] = gone
        /\ \A v \in Users : v # target => users'[v] = users[v]
        /\ users' \in Seq(UserRows)
    BY <2>1, <2>6 DEF UsersTypes, Users
  <2>8. UsersTypes'
    BY <2>1, <2>7 DEF UsersTypes
  <2>9. TokenInv'
    <3> SUFFICES ASSUME NEW v \in Users
                 PROVE  /\ users'[v].token <= Len(issued)
                        /\ users'[v].active => \A t \in 1..Len(issued) : users'[v].token = t <=> LastFor(v, t)'
      BY <2>1, <2>7 DEF TokenInv, Users
    <3>1. CASE v = target
      BY <2>6, <2>7, <3>1 DEF UsersTypes
    <3>2. CASE v # target
      BY <2>1, <2>7, <3>2 DEF TokenInv, LastFor
    <3> QED
      BY <3>1, <3>2
  <2>10. AdminRemains'
    <3> SUFFICES ASSUME NEW v \in Users
                 PROVE  \E w \in Users : /\ users'[w].tenant = users'[v].tenant
                                         /\ users'[w].active /\ users'[w].role = "admin"
      <4>1. 1..Len(users') = Users
        BY <2>7 DEF Users
      <4>2. AdminRemains' <=> \A v \in 1..Len(users') : \E w \in 1..Len(users') :
                 users'[w].tenant = users'[v].tenant /\ users'[w].active /\ users'[w].role = "admin"
        BY AdminRemainsNext
      <4> QED
        BY <4>1, <4>2
    <3>1. users'[v].tenant = users[v].tenant
      BY <2>6, <2>7
    <3>2. PICK w \in Users : users[w].tenant = users[v].tenant /\ Admin(w)
      BY AdminRemainsIs
    <3>3. CASE w # target
      BY <2>7, <3>1, <3>2, <3>3 DEF Admin
    <3>4. CASE w = target
      <4>1. users'[u] = users[u] /\ Admin(u) /\ users[u].tenant = users[target].tenant
        BY <1>3, <2>7 DEF MayDelete
      <4> QED
        BY <3>1, <3>2, <3>4, <4>1 DEF Admin
    <3> QED
      BY <3>3, <3>4
  <2>11. EmailsDistinct'
    BY <2>6, <2>7 DEF EmailsDistinct, Users
  <2> QED
    BY <2>7, <2>8, <2>9, <2>10, <2>11
<1> QED
  BY <1>2, <1>3

(***************************************************************************)
(* The limiters.                                                           *)
(***************************************************************************)
\* A set of numbers that is not empty has a least one.
LEMMA LeastOf ==
  ASSUME NEW T \in SUBSET Nat, T # {} PROVE Min(T) \in T /\ \A m \in T : Min(T) <= m
<1> DEFINE R == OpToRel(<, Nat)
<1>1. IsWellFoundedOn(R, Nat)
  BY NatLessThanWellFounded
<1>2. \A x, y \in Nat : <<y, x>> \in R <=> y < x
  BY DEF OpToRel
<1> HIDE DEF R
<1>3. \E x \in T : \A y \in T : ~(<<y, x>> \in R)
  BY <1>1, WFMin
<1>3a. PICK x \in T : \A y \in T : ~(<<y, x>> \in R)
  BY <1>3
<1>3b. \A y \in T : ~(y < x)
  BY <1>2, <1>3a
<1>4. x \in T /\ \A y \in T : x <= y
  BY <1>3b
<1> QED
  BY <1>4 DEF Min

\* A sequence is one of whatever its elements are of.
LEMMA SeqElements ==
  ASSUME NEW S, NEW T, NEW s \in Seq(S), \A i \in 1..Len(s) : s[i] \in T PROVE s \in Seq(T)
<1>1. Len(s) \in Nat /\ s \in [1..Len(s) -> S]
  OBVIOUS
<1>2. s \in [1..Len(s) -> T]
  BY <1>1
<1> QED
  BY <1>1, <1>2

LEMMA ElementOf ==
  ASSUME NEW S, NEW s \in Seq(S) PROVE \A i \in 1..Len(s) : s[i] \in S
  OBVIOUS

\* The rest of a sequence from place n on.
LEMMA RestOf ==
  ASSUME NEW s \in Seq(Nat), NEW n \in 1..Len(s)
  PROVE  /\ Len(SubSeq(s, n, Len(s))) = Len(s) - n + 1
         /\ \A i \in 1..(Len(s) - n + 1) : SubSeq(s, n, Len(s))[i] = s[i + n - 1]
         /\ SubSeq(s, n, Len(s)) \in Seq(Nat)
<1>1. SubSeq(s, n, Len(s)) \in Seq(Nat)
  OBVIOUS
<1>2. Len(SubSeq(s, n, Len(s))) = Len(s) - n + 1
  OBVIOUS
<1>3. \A i \in 1..(Len(s) - n + 1) : SubSeq(s, n, Len(s))[i] = s[i + n - 1]
  OBVIOUS
<1> QED
  BY <1>1, <1>2, <1>3

\* What is left of a limiter's hits is the end of them: all in the window, and in order.
LEMMA RecentHits ==
  ASSUME NEW h \in Seq(Nat), Ordered(h)
  PROVE  Recent(h) \in Seq(0..Window) /\ Len(Recent(h)) <= Len(h) /\ Ordered(Recent(h))
<1> DEFINE recent == {i \in DOMAIN h : h[i] <= Window}
<1>1. DOMAIN h = 1..Len(h) /\ Len(h) \in Nat /\ \A i \in 1..Len(h) : h[i] \in Nat
  OBVIOUS
<1>2. CASE recent = {}
  <2>1. Recent(h) = <<>>
    BY <1>2 DEF Recent
  <2> QED
    BY <1>1, <2>1 DEF Ordered
<1>3. CASE recent # {}
  <2>1. recent \in SUBSET Nat
    BY <1>1
  <2>2. PICK n \in recent : n = Min(recent)
    BY <1>3, <2>1, LeastOf
  <2>3. Recent(h) = SubSeq(h, n, Len(h))
    BY <1>3, <2>2 DEF Recent
  <2>4. n \in 1..Len(h) /\ h[n] <= Window
    BY <1>1
  <2>5. /\ Len(SubSeq(h, n, Len(h))) = Len(h) - n + 1
        /\ \A i \in 1..(Len(h) - n + 1) : SubSeq(h, n, Len(h))[i] = h[i + n - 1]
        /\ SubSeq(h, n, Len(h)) \in Seq(Nat)
    BY <2>4, RestOf
  <2> DEFINE r == Recent(h)
  <2>6. /\ Len(r) = Len(h) - n + 1
        /\ \A i \in 1..(Len(h) - n + 1) : r[i] = h[i + n - 1]
        /\ r \in Seq(Nat)
    BY <2>3, <2>5
  <2> HIDE DEF r
  <2>7. \A i \in 1..Len(r) : h[i + n - 1] <= h[n] /\ r[i] \in 0..Window
    <3> SUFFICES ASSUME NEW i \in 1..Len(r) PROVE h[i + n - 1] <= h[n] /\ r[i] \in 0..Window
      OBVIOUS
    <3>1. i + n - 1 \in 1..Len(h) /\ n <= i + n - 1
      BY <1>1, <2>4, <2>6, SMTT(30)
    <3>2. h[i + n - 1] <= h[n]
      BY <1>1, <2>4, <3>1 DEF Ordered
    <3>3. r[i] = h[i + n - 1]
      BY <1>1, <2>4, <2>6
    <3>4. h[n] \in Nat /\ h[i + n - 1] \in Nat
      BY <1>1, <2>4, <3>1
    <3> QED
      <4> DEFINE x == h[i + n - 1]
                 y == h[n]
      <4>1. x \in Nat /\ y \in Nat /\ x <= y /\ y <= Window /\ r[i] = x
        BY <2>4, <3>2, <3>3, <3>4
      <4> HIDE DEF x, y
      <4>2. r[i] \in 0..Window
        BY <4>1, AccountsAssumption
      <4> QED
        BY <3>2, <4>2
  <2>8. r \in Seq(0..Window)
    BY <2>6, <2>7, SeqElements
  <2>9. Ordered(r)
    <3> SUFFICES ASSUME NEW i \in 1..Len(r), NEW j \in 1..Len(r), i < j PROVE r[i] >= r[j]
      BY <2>6 DEF Ordered
    <3> DEFINE a == i + n - 1
               b == j + n - 1
    <3>0. i \in Int /\ j \in Int /\ n \in Int /\ Len(h) \in Int /\ i >= 1 /\ j >= 1 /\ n >= 1
          /\ i <= Len(h) - n + 1 /\ j <= Len(h) - n + 1
      BY <1>1, <2>4, <2>6
    <3>1. a \in 1..Len(h) /\ b \in 1..Len(h) /\ a < b
      BY <3>0
    <3>2. r[i] = h[a] /\ r[j] = h[b]
      BY <1>1, <2>4, <2>6
    <3> HIDE DEF a, b
    <3>3. h[a] >= h[b]
      BY <1>1, <3>1 DEF Ordered
    <3> QED
      BY <3>2, <3>3
  <2> QED
    BY <1>1, <2>4, <2>6, <2>8, <2>9 DEF r
<1> QED
  BY <1>2, <1>3

\* A hit that is counted is the newest, and one more than were counted at most.
LEMMA HitInv ==
  ASSUME HitsInv, NEW ks \in SUBSET Keys, Hit(ks) PROVE HitsInv'
<1>1. hits' \in [Keys -> Seq(0..Window)]
  <2>1. \A k \in Keys : hits[k] \in Seq(0..Window) /\ Append(hits[k], 0) \in Seq(0..Window)
    BY AccountsAssumption DEF HitsInv
  <2> QED
    BY <2>1 DEF Hit
<1>2. ASSUME NEW k \in Keys PROVE Len(hits'[k]) <= MaxHits /\ Ordered(hits'[k])
  <2>1. hits[k] \in Seq(0..Window) /\ Len(hits[k]) \in Nat /\ Len(hits[k]) <= MaxHits /\ Ordered(hits[k])
    BY DEF HitsInv
  <2>2. CASE hits'[k] = hits[k]
    BY <2>1, <2>2
  <2>3. CASE hits'[k] # hits[k]
    <3>1. hits'[k] = Append(hits[k], 0) /\ Len(hits[k]) < MaxHits
      BY <2>3 DEF Hit, Allowed
    <3>2. /\ Len(hits'[k]) = Len(hits[k]) + 1 /\ DOMAIN hits'[k] = 1..(Len(hits[k]) + 1)
          /\ hits'[k][Len(hits[k]) + 1] = 0 /\ \A i \in 1..Len(hits[k]) : hits'[k][i] = hits[k][i]
      BY <2>1, <3>1
    <3>3. Ordered(hits'[k])
      <4> SUFFICES ASSUME NEW i \in 1..(Len(hits[k]) + 1), NEW j \in 1..(Len(hits[k]) + 1), i < j
                   PROVE  hits'[k][i] >= hits'[k][j]
        BY <3>2 DEF Ordered
      <4>0. i \in 1..Len(hits[k])
        BY <2>1
      <4>0a. \A x \in 1..Len(hits[k]) : hits[k][x] \in 0..Window
        BY <2>1, ElementOf
      <4>1. hits'[k][i] = hits[k][i] /\ hits[k][i] \in Nat
        <5>1. hits'[k][i] = hits[k][i] /\ hits[k][i] \in 0..Window
          BY <3>2, <4>0, <4>0a, Zenon
        <5> QED
          BY <5>1, AccountsAssumption
      <4>2. CASE j = Len(hits[k]) + 1
        BY <3>2, <4>0, <4>1, <4>2
      <4>3. CASE j # Len(hits[k]) + 1
        BY <2>1, <3>2, <4>0, <4>1, <4>3, SMTT(30) DEF Ordered
      <4> QED
        BY <4>2, <4>3
    <3> QED
      BY <2>1, <3>1, <3>2, <3>3, AccountsAssumption
  <2> QED
    BY <2>2, <2>3
<1> QED
  BY <1>1, <1>2 DEF HitsInv

LEMMA TickHits ==
  ASSUME HitsInv, AccountsTick PROVE HitsInv'
<1> DEFINE aged(k) == [i \in 1..Len(hits[k]) |-> hits[k][i] + 1]
<1>1. ASSUME NEW k \in Keys
      PROVE  /\ hits'[k] = Recent(aged(k)) /\ Recent(aged(k)) \in Seq(0..Window)
             /\ Len(Recent(aged(k))) <= MaxHits /\ Ordered(Recent(aged(k)))
  <2>1. hits[k] \in Seq(0..Window) /\ Len(hits[k]) \in Nat /\ Len(hits[k]) <= MaxHits /\ Ordered(hits[k])
    BY DEF HitsInv
  <2>2. aged(k) \in Seq(Nat) /\ Len(aged(k)) = Len(hits[k])
    BY <2>1, AccountsAssumption, SMTT(30)
  <2>3. Ordered(aged(k))
    <3>1. \A i \in 1..Len(hits[k]) : aged(k)[i] = hits[k][i] + 1 /\ hits[k][i] \in Nat
      BY <2>1, AccountsAssumption
    <3>2. \A i, j \in 1..Len(hits[k]) : i < j => hits[k][i] >= hits[k][j]
      BY <2>1 DEF Ordered
    <3>3. DOMAIN aged(k) = 1..Len(hits[k])
      OBVIOUS
    <3> HIDE DEF aged
    <3> QED
      BY <3>1, <3>2, <3>3 DEF Ordered
  <2>4. hits'[k] = Recent(aged(k))
    BY DEF AccountsTick
  <2> HIDE DEF aged
  <2>5. Recent(aged(k)) \in Seq(0..Window) /\ Len(Recent(aged(k))) <= Len(aged(k)) /\ Ordered(Recent(aged(k)))
    BY <2>2, <2>3, RecentHits
  <2> QED
    BY <2>1, <2>2, <2>4, <2>5, AccountsAssumption
<1>2. hits' = [k \in Keys |-> hits'[k]]
  BY DEF AccountsTick
<1> HIDE DEF aged
<1>3. hits' \in [Keys -> Seq(0..Window)]
  BY <1>1, <1>2
<1> QED
  BY <1>1, <1>3 DEF HitsInv

LEMMA NoHits ==
  ASSUME NEW h, h = [k \in Keys |-> <<>>]
                PROVE  h \in [Keys -> Seq(0..Window)] /\ \A k \in Keys : Len(h[k]) <= MaxHits /\ Ordered(h[k])
  BY AccountsAssumption DEF Ordered

(***************************************************************************)
(* Handlers.                                                               *)
(***************************************************************************)
\* The fields a step of a handler needs.
HandlerState(state) ==
    /\ state \in CallStates
    /\ state.op \in {"member", "delete", "login"} => state.user \in Users
    /\ state.op = "delete" => state.target \in Users
    /\ state.op \in {"models", "register", "member", "login"} => state.email \in Emails
    /\ state.op = "member" => state.role # "none"
    /\ state.op = "setup" => state.of \in Gateways

LEMMA CallInvIs == CallInv <=> call \in [Calls -> CallStates] /\ \A c \in Calls : HandlerState(call[c])
  BY DEF CallInv, HandlerState

LEMMA IdleState == HandlerState(Idle)
  BY DEF HandlerState, CallStates, Idle, Nobody

\* Accounts are never removed: what a handler knows holds still when the others have
\* gone on, and so does what it finds now.
LEMMA CallMoves ==
  ASSUME CallInv, UsersTypes, UsersTypes', Len(users') >= Len(users),
         NEW c \in Calls, NEW state, HandlerState(state), call' = [call EXCEPT ![c] = state]
  PROVE  CallInv'
<1>1. Users \subseteq 1..Len(users')
  BY DEF Users, UsersTypes
<1>2. \A d \in Calls : call'[d] = (IF d = c THEN state ELSE call[d]) /\ HandlerState(call'[d])
  BY CallInvIs DEF CallInv
<1>3. call' \in [Calls -> CallStates]
  BY DEF CallInv, HandlerState
<1>4. \A d \in Calls :
        /\ call'[d].op \in {"member", "delete", "login"} => call'[d].user \in Users
        /\ call'[d].op = "delete" => call'[d].target \in Users
        /\ call'[d].op \in {"models", "register", "member", "login"} => call'[d].email \in Emails
        /\ call'[d].op = "member" => call'[d].role # "none"
        /\ call'[d].op = "setup" => call'[d].of \in Gateways
  BY <1>2 DEF HandlerState
<1> QED
  BY <1>1, <1>3, <1>4 DEF CallInv, Users

LEMMA CallStays ==
  ASSUME CallInv, UsersTypes, UsersTypes', Len(users') >= Len(users), UNCHANGED call PROVE CallInv'
<1>1. Users \subseteq 1..Len(users')
  BY DEF Users, UsersTypes
<1> QED
  BY <1>1 DEF CallInv, Users

\* Who a token opens is an account.
LEMMA Openers == \A t : Opens(t) \subseteq Users
  BY DEF Opens

(***************************************************************************)
(* Every step keeps the invariant.                                         *)
(***************************************************************************)
LEMMA AccountsStay ==
  ASSUME AccountsInv, UNCHANGED <<users, issued>>, CallInv', GatewayInv', HitsInv'
  PROVE  AccountsInv'
  BY RowsStay DEF AccountsInv

LEMMA AccountsInitInv == AccountsInit => AccountsInv
<1> SUFFICES ASSUME AccountsInit PROVE AccountsInv
  OBVIOUS
<1>1. RowsInv
  <2>1. CASE users = <<>> /\ issued = <<>>
    BY <2>1, AccountsAssumption DEF RowsInv, UsersTypes, TokenInv, AdminRemains, EmailsDistinct, Users, Tenants
  <2>2. ASSUME NEW email \in Emails,
               users = <<[tenant |-> 1, email |-> email, role |-> "admin", active |-> TRUE,
                          password |-> FALSE, token |-> 1]>>, issued = << 1 >>
        PROVE  RowsInv
    <3> DEFINE first == [tenant |-> 1, email |-> email, role |-> "admin", active |-> TRUE,
                         password |-> FALSE, token |-> 1]
    <3>1. first \in UserRows /\ first.token = 1 /\ first.active = TRUE /\ first.role = "admin"
      BY AccountsAssumption DEF UserRows
    <3> HIDE DEF first
    <3>2. users = <<first>>
      BY <2>2 DEF first
    <3>3. Len(users) = 1 /\ users[1] = first /\ Users = {1} /\ users \in Seq(UserRows)
      BY <3>1, <3>2 DEF Users
    <3>4. Len(issued) = 1 /\ issued[1] = 1 /\ issued \in Seq(1..1)
      BY <2>2
    <3>5. UsersTypes
      BY <3>3, <3>4, AccountsAssumption DEF UsersTypes
    <3>6. TokenInv
      BY <3>1, <3>3, <3>4 DEF TokenInv, LastFor
    <3>7. AdminRemains
      BY <3>1, <3>3, AdminRemainsIs DEF Admin
    <3>8. EmailsDistinct
      BY <3>3 DEF EmailsDistinct
    <3> QED
      BY <3>5, <3>6, <3>7, <3>8 DEF RowsInv
  <2> QED
    BY <2>1, <2>2 DEF AccountsInit
<1>2. CallInv
  <2>1. \A c \in Calls : call[c] = Idle /\ HandlerState(call[c])
    BY IdleState DEF AccountsInit
  <2>2. Idle \in CallStates
    BY IdleState DEF HandlerState
  <2>3. call \in [Calls -> CallStates]
    BY <2>2 DEF AccountsInit
  <2> QED
    BY <2>1, <2>3, CallInvIs
<1>3. GatewayInv
  BY AccountsAssumption DEF AccountsInit, GatewayInv, NoCatalog
<1>4. HitsInv
  BY NoHits DEF AccountsInit, HitsInv
<1> QED
  BY <1>1, <1>2, <1>3, <1>4 DEF AccountsInv

\* Handlers that look up who and what they are about.
LEMMA BeginInv ==
  ASSUME AccountsInv, UNCHANGED <<users, issued, gateway, catalog>>, HitsInv',
         NEW c \in Calls, NEW state, HandlerState(state), call' = [call EXCEPT ![c] = state]
  PROVE  AccountsInv'
<1>1. RowsInv' /\ UsersTypes' /\ Len(users') = Len(users) /\ Len(users) \in Nat /\ UsersTypes
  BY RowsStay DEF AccountsInv, RowsInv, UsersTypes
<1>2. CallInv'
  <2>1. Len(users') >= Len(users) /\ CallInv
    BY <1>1 DEF AccountsInv
  <2> QED
    BY <1>1, <2>1, CallMoves
<1>3. GatewayInv'
  BY DEF AccountsInv, GatewayInv
<1> QED
  BY <1>1, <1>2, <1>3 DEF AccountsInv

LEMMA HitsStay == HitsInv /\ UNCHANGED hits => HitsInv'
  BY DEF HitsInv, Ordered

\* The keys that are counted are limiters' keys.
LEMMA KeysOf ==
  ASSUME NEW email \in Emails, NEW ip \in Addresses
  PROVE  {<<"register", ip>>} \subseteq Keys /\ LoginKeys(email, ip) \subseteq Keys
  BY DEF Keys, LoginKeys


\* What the handlers know when they have begun: of whom, and what about.
LEMMA SignUpState ==
  ASSUME NEW email \in Emails, NEW g \in Gateways \cup {NoGateway, EnvGateway}
  PROVE  HandlerState([Idle EXCEPT !.op = "models", !.email = email, !.of = g])
<1> DEFINE state == [Idle EXCEPT !.op = "models", !.email = email, !.of = g]
<1>2. state \in CallStates
  BY DEF CallStates, Idle, Nobody
<1>3. state.op = "models" /\ state.email = email
  BY DEF Idle
<1> HIDE DEF state
<1>4. HandlerState(state)
  BY <1>2, <1>3 DEF HandlerState
<1> QED
  BY <1>4 DEF state

LEMMA MemberState ==
  ASSUME UsersTypes, NEW u \in Users, NEW email \in Emails, NEW role \in {"admin", "member"}
  PROVE  HandlerState([Idle EXCEPT !.op = "member", !.user = u, !.email = email, !.role = role])
<1>1. u \in Nat
  BY DEF Users, UsersTypes
<1> DEFINE state == [Idle EXCEPT !.op = "member", !.user = u, !.email = email, !.role = role]
<1>2. state \in CallStates
  BY <1>1 DEF CallStates, Idle, Nobody
<1>3. state.op = "member" /\ state.user = u /\ state.email = email /\ state.role = role
  BY DEF Idle
<1> HIDE DEF state
<1>4. HandlerState(state)
  BY <1>2, <1>3 DEF HandlerState
<1> QED
  BY <1>4 DEF state

LEMMA DeleteState ==
  ASSUME UsersTypes, NEW u \in Users, NEW target \in Users
  PROVE  HandlerState([Idle EXCEPT !.op = "delete", !.user = u, !.target = target])
<1>1. u \in Nat /\ target \in Nat
  BY DEF Users, UsersTypes
<1> DEFINE state == [Idle EXCEPT !.op = "delete", !.user = u, !.target = target]
<1>2. state \in CallStates
  BY <1>1 DEF CallStates, Idle, Nobody
<1>3. state.op = "delete" /\ state.user = u /\ state.target = target
  BY DEF Idle
<1> HIDE DEF state
<1>4. HandlerState(state)
  BY <1>2, <1>3 DEF HandlerState
<1> QED
  BY <1>4 DEF state

LEMMA LoginState ==
  ASSUME UsersTypes, NEW u \in Users, NEW email \in Emails
  PROVE  HandlerState([Idle EXCEPT !.op = "login", !.user = u, !.email = email])
<1>1. u \in Nat
  BY DEF Users, UsersTypes
<1> DEFINE state == [Idle EXCEPT !.op = "login", !.user = u, !.email = email]
<1>2. state \in CallStates
  BY <1>1 DEF CallStates, Idle, Nobody
<1>3. state.op = "login" /\ state.user = u /\ state.email = email
  BY DEF Idle
<1> HIDE DEF state
<1>4. HandlerState(state)
  BY <1>2, <1>3 DEF HandlerState
<1> QED
  BY <1>4 DEF state

LEMMA SetupState ==
  ASSUME NEW g \in Gateways
  PROVE  HandlerState([Idle EXCEPT !.op = "setup", !.of = g])
<1> DEFINE state == [Idle EXCEPT !.op = "setup", !.of = g]
<1>2. state \in CallStates
  BY DEF CallStates, Idle, Nobody
<1>3. state.op = "setup" /\ state.of = g
  BY DEF Idle
<1> HIDE DEF state
<1>4. HandlerState(state)
  BY <1>2, <1>3 DEF HandlerState
<1> QED
  BY <1>4 DEF state

LEMMA ConfigState ==
  ASSUME UsersTypes, NEW u \in Users, NEW g \in Gateways
  PROVE  HandlerState([Idle EXCEPT !.op = "setup", !.user = u, !.of = g])
<1>1. u \in Nat
  BY DEF Users, UsersTypes
<1> DEFINE state == [Idle EXCEPT !.op = "setup", !.user = u, !.of = g]
<1>2. state \in CallStates
  BY <1>1 DEF CallStates, Idle, Nobody
<1>3. state.op = "setup" /\ state.of = g
  BY DEF Idle
<1> HIDE DEF state
<1>4. HandlerState(state)
  BY <1>2, <1>3 DEF HandlerState
<1> QED
  BY <1>4 DEF state

LEMMA RegisterBeginsInv ==
  ASSUME AccountsInv, NEW c \in Calls, RegisterBegins(c) PROVE AccountsInv'
<1> DEFINE g == IF gateway = NoGateway THEN EnvGateway ELSE gateway
<1>1. PICK ip \in Addresses, email \in Emails :
        Hit({<<"register", ip>>}) /\ call' = [call EXCEPT ![c] = [Idle EXCEPT !.op = "models", !.email = email, !.of = g]]
  BY DEF RegisterBegins
<1>2. g \in Gateways \cup {NoGateway, EnvGateway}
  BY DEF AccountsInv, GatewayInv
<1> DEFINE state == [Idle EXCEPT !.op = "models", !.email = email, !.of = g]
<1>3. HandlerState(state) /\ call' = [call EXCEPT ![c] = state]
  BY <1>1, <1>2, SignUpState
<1> HIDE DEF state
<1>4. HitsInv'
  BY <1>1, KeysOf, HitInv DEF AccountsInv
<1> QED
  BY <1>3, <1>4, BeginInv DEF RegisterBegins

LEMMA MemberBeginsInv ==
  ASSUME AccountsInv, NEW c \in Calls, MemberBegins(c) PROVE AccountsInv'
<1>2. PICK ip \in Addresses, email \in Emails, role \in {"admin", "member"}, u \in Users :
          /\ Hit({<<"register", ip>>})
          /\ call' = [call EXCEPT ![c] = [Idle EXCEPT !.op = "member", !.user = u, !.email = email, !.role = role]]
  BY Openers, ZenonT(30) DEF MemberBegins
<1> DEFINE state == [Idle EXCEPT !.op = "member", !.user = u, !.email = email, !.role = role]
<1>3. HandlerState(state) /\ call' = [call EXCEPT ![c] = state]
  BY <1>2, MemberState DEF AccountsInv, RowsInv
<1> HIDE DEF state
<1>4. HitsInv'
  BY <1>2, KeysOf, HitInv DEF AccountsInv
<1> QED
  BY <1>3, <1>4, BeginInv DEF MemberBegins

LEMMA DeleteBeginsInv ==
  ASSUME AccountsInv, NEW c \in Calls, DeleteBegins(c) PROVE AccountsInv'
<1>1. PICK target \in Users, u \in Users :
        call' = [call EXCEPT ![c] = [Idle EXCEPT !.op = "delete", !.user = u, !.target = target]]
  BY Openers DEF DeleteBegins
<1> DEFINE state == [Idle EXCEPT !.op = "delete", !.user = u, !.target = target]
<1>2. HandlerState(state) /\ call' = [call EXCEPT ![c] = state]
  BY <1>1, DeleteState DEF AccountsInv, RowsInv
<1> HIDE DEF state
<1>3. HitsInv'
  BY HitsStay DEF AccountsInv, DeleteBegins
<1> QED
  BY <1>2, <1>3, BeginInv DEF DeleteBegins

LEMMA LoginBeginsInv ==
  ASSUME AccountsInv, NEW c \in Calls, LoginBegins(c) PROVE AccountsInv'
<1>1. PICK email \in Emails, ip \in Addresses :
        /\ Hit(LoginKeys(email, ip))
        /\ \E u \in ByEmail(email) : call' = [call EXCEPT ![c] = [Idle EXCEPT !.op = "login", !.user = u, !.email = email]]
  BY DEF LoginBegins
<1>2. PICK u \in Users : call' = [call EXCEPT ![c] = [Idle EXCEPT !.op = "login", !.user = u, !.email = email]]
  BY <1>1 DEF ByEmail
<1> DEFINE state == [Idle EXCEPT !.op = "login", !.user = u, !.email = email]
<1>3. HandlerState(state) /\ call' = [call EXCEPT ![c] = state]
  BY <1>2, LoginState DEF AccountsInv, RowsInv
<1> HIDE DEF state
<1>4. HitsInv'
  BY <1>1, KeysOf, HitInv DEF AccountsInv
<1> QED
  BY <1>3, <1>4, BeginInv DEF LoginBegins

LEMMA SetupBeginsInv ==
  ASSUME AccountsInv, NEW c \in Calls, SetupBegins(c) PROVE AccountsInv'
<1>1. PICK g \in Gateways : call' = [call EXCEPT ![c] = [Idle EXCEPT !.op = "setup", !.of = g]]
  BY DEF SetupBegins
<1> DEFINE state == [Idle EXCEPT !.op = "setup", !.of = g]
<1>2. HandlerState(state) /\ call' = [call EXCEPT ![c] = state]
  BY <1>1, SetupState
<1> HIDE DEF state
<1>3. HitsInv'
  BY HitsStay DEF AccountsInv, SetupBegins
<1> QED
  BY <1>2, <1>3, BeginInv DEF SetupBegins

LEMMA ConfigBeginsInv ==
  ASSUME AccountsInv, NEW c \in Calls, ConfigBegins(c) PROVE AccountsInv'
<1>1. PICK g \in Gateways, u \in Users : call' = [call EXCEPT ![c] = [Idle EXCEPT !.op = "setup", !.user = u, !.of = g]]
  BY Openers DEF ConfigBegins
<1> DEFINE state == [Idle EXCEPT !.op = "setup", !.user = u, !.of = g]
<1>2. HandlerState(state) /\ call' = [call EXCEPT ![c] = state]
  BY <1>1, ConfigState DEF AccountsInv, RowsInv
<1> HIDE DEF state
<1>3. HitsInv'
  BY HitsStay DEF AccountsInv, ConfigBegins
<1> QED
  BY <1>2, <1>3, BeginInv DEF ConfigBegins

LEMMA AbandonInv ==
  ASSUME AccountsInv, NEW c \in Calls, Abandon(c) PROVE AccountsInv'
<1>1. HitsInv'
  BY HitsStay DEF AccountsInv, Abandon
<1> QED
  BY <1>1, IdleState, BeginInv DEF Abandon

\* A request that is turned away changes nothing but what is counted.
LEMMA RefusedInv ==
  ASSUME AccountsInv, NEW c \in Calls, Refused(c) PROVE AccountsInv'
<1>1. PICK email \in Emails, ip \in Addresses : Hit(LoginKeys(email, ip)) \/ Hit({<<"register", ip>>})
  BY DEF Refused
<1>2. HitsInv'
  BY <1>1, KeysOf, HitInv DEF AccountsInv
<1>3. UNCHANGED <<users, issued, gateway, catalog, call>>
  BY DEF Refused
<1>4. CallInv' /\ GatewayInv'
  BY <1>3 DEF AccountsInv, CallInv, GatewayInv, Users
<1> QED
  BY <1>2, <1>3, <1>4, AccountsStay

LEMMA ModelsCheckedInv ==
  ASSUME AccountsInv, NEW c \in Calls, ModelsChecked(c) PROVE AccountsInv'
<1>1. CallInv
  BY DEF AccountsInv
<1>2. call[c] \in CallStates /\ call[c].op = "models" /\ call[c].email \in Emails
  BY <1>1 DEF CallInv, ModelsChecked
<1> DEFINE state == [call[c] EXCEPT !.op = "register"]
<1>3. state \in CallStates /\ state.op = "register" /\ state.email = call[c].email
  BY <1>2 DEF CallStates
<1>4. call' = [call EXCEPT ![c] = state]
  BY <1>1 DEF ModelsChecked, CallInv
<1> HIDE DEF state
<1>5. HandlerState(state)
  BY <1>2, <1>3 DEF HandlerState
<1>6. GatewayInv'
  <2>1. call[c].of \in Gateways \cup {NoGateway, EnvGateway}
    BY <1>2 DEF CallStates
  <2> QED
    BY <2>1, AccountsAssumption DEF AccountsInv, GatewayInv, ModelsChecked
<1>7. HitsInv'
  BY HitsStay DEF AccountsInv, ModelsChecked
<1>8. UsersTypes /\ UsersTypes' /\ Len(users') >= Len(users)
  BY DEF AccountsInv, RowsInv, UsersTypes, ModelsChecked
<1>9. CallInv'
  BY <1>1, <1>4, <1>5, <1>8, CallMoves
<1> QED
  BY <1>6, <1>7, <1>9, AccountsStay DEF ModelsChecked

\* Handlers that write, and are done.
LEMMA WriteInv ==
  ASSUME AccountsInv, RowsInv', Len(users') >= Len(users), GatewayInv', HitsInv',
         NEW c \in Calls, call' = [call EXCEPT ![c] = Idle]
  PROVE  AccountsInv'
<1>1. CallInv /\ UsersTypes /\ UsersTypes'
  BY DEF AccountsInv, RowsInv
<1>2. CallInv'
  BY <1>1, IdleState, CallMoves
<1> QED
  BY <1>2 DEF AccountsInv

LEMMA CreateWorkspaceInv ==
  ASSUME AccountsInv, NEW c \in Calls, CreateWorkspace(c) PROVE AccountsInv'
<1>1. PICK email \in Emails : email = call[c].email
  BY DEF AccountsInv, CallInv, CreateWorkspace
<1>2. PICK tenant \in Nat \ {0} : tenant = Len(users) + 1
  BY DEF AccountsInv, RowsInv, UsersTypes
<1>3. AddUser(tenant, email, "admin") /\ Room /\ RowsInv
  BY <1>1, <1>2 DEF CreateWorkspace, AccountsInv
<1>4. RowsInv' /\ Len(users') >= Len(users)
  BY <1>3, AddUserInv
<1>5. GatewayInv' /\ HitsInv'
  BY HitsStay DEF CreateWorkspace, AccountsInv, GatewayInv
<1> QED
  BY <1>4, <1>5, WriteInv DEF CreateWorkspace

LEMMA CreateMemberInv ==
  ASSUME AccountsInv, NEW c \in Calls, CreateMember(c) PROVE AccountsInv'
<1>0. RowsInv /\ UsersTypes /\ CallInv
  BY DEF AccountsInv, RowsInv
<1>1. PICK email \in Emails, role \in {"admin", "member"}, u \in Users :
        email = call[c].email /\ role = call[c].role /\ u = call[c].user
  <2>1. call[c].email \in Emails /\ call[c].user \in Users
    BY <1>0 DEF CallInv, CreateMember
  <2>2. call[c].role \in {"admin", "member"}
    BY <1>0 DEF CallInv, CreateMember, CallStates
  <2> QED
    BY <2>1, <2>2
<1>2. PICK tenant \in Nat \ {0} : tenant = users[u].tenant
  BY <1>0, UserRow
<1>3. AddUser(tenant, email, role) /\ Room
  BY <1>1, <1>2 DEF CreateMember
<1>4. tenant \in Tenants
  BY <1>2 DEF Tenants
<1>5. RowsInv' /\ Len(users') >= Len(users)
  BY <1>0, <1>3, <1>4, AddUserInv
<1>6. GatewayInv' /\ HitsInv'
  BY HitsStay DEF CreateMember, AccountsInv, GatewayInv
<1> QED
  BY <1>5, <1>6, WriteInv DEF CreateMember

LEMMA DeleteMemberInv ==
  ASSUME AccountsInv, NEW c \in Calls, DeleteMember(c) PROVE AccountsInv'
<1>1. RowsInv' /\ Len(users') = Len(users) /\ Len(users) \in Nat
  BY DeleteMemberRows DEF AccountsInv, RowsInv, UsersTypes
<1>2. GatewayInv' /\ HitsInv'
  BY HitsStay DEF DeleteMember, AccountsInv, GatewayInv
<1>3. Len(users') >= Len(users)
  BY <1>1
<1> QED
  BY <1>1, <1>2, <1>3, WriteInv DEF DeleteMember

LEMMA RotateTokenInv ==
  ASSUME AccountsInv, NEW c \in Calls, RotateToken(c) PROVE AccountsInv'
<1>1. RowsInv' /\ Len(users') = Len(users) /\ Len(users) \in Nat
  BY RotateTokenRows DEF AccountsInv, RowsInv, UsersTypes
<1>2. GatewayInv'
  BY DEF RotateToken, AccountsInv, GatewayInv
<1>3. HitsInv'
  <2>1. hits' = [hits EXCEPT ![<<"email", call[c].email>>] = <<>>]
    BY DEF RotateToken
  <2>2. \A k \in Keys : hits'[k] = hits[k] \/ hits'[k] = <<>>
    BY <2>1 DEF AccountsInv, HitsInv
  <2>3. hits' \in [Keys -> Seq(0..Window)]
    <3>0. <<>> \in Seq(0..Window) /\ \A k \in Keys : hits[k] \in Seq(0..Window)
      BY DEF AccountsInv, HitsInv
    <3>1. \A k \in Keys : hits'[k] \in Seq(0..Window)
      BY <2>2, <3>0
    <3>2. hits' = [k \in Keys |-> hits'[k]]
      BY <2>1 DEF AccountsInv, HitsInv
    <3> QED
      BY <3>1, <3>2
  <2>4. \A k \in Keys : Len(hits'[k]) <= MaxHits /\ Ordered(hits'[k])
    <3> TAKE k \in Keys
    <3>1. CASE hits'[k] = hits[k]
      BY <3>1 DEF AccountsInv, HitsInv
    <3>2. CASE hits'[k] = <<>>
      BY <3>2, AccountsAssumption DEF Ordered
    <3> QED
      BY <2>2, <3>1, <3>2
  <2> QED
    BY <2>3, <2>4 DEF HitsInv
<1>4. Len(users') >= Len(users)
  BY <1>1
<1> QED
  BY <1>1, <1>2, <1>3, <1>4, WriteInv DEF RotateToken

LEMMA SetGatewayInv ==
  ASSUME AccountsInv, NEW c \in Calls, SetGateway(c) PROVE AccountsInv'
<1>1. gateway' \in Gateways
  BY DEF AccountsInv, CallInv, SetGateway
<1>2. GatewayInv' /\ HitsInv'
  BY <1>1, HitsStay DEF SetGateway, AccountsInv, GatewayInv
<1>3. RowsInv' /\ Len(users') = Len(users) /\ Len(users) \in Nat
  BY RowsStay DEF SetGateway, AccountsInv, RowsInv, UsersTypes
<1>4. Len(users') >= Len(users)
  BY <1>3
<1> QED
  BY <1>2, <1>3, <1>4, WriteInv DEF SetGateway

\* The process starts anew: what was in memory is gone.
LEMMA RestartInv ==
  ASSUME AccountsInv, Restart PROVE AccountsInv'
<1>1. HitsInv'
  BY NoHits DEF Restart, HitsInv
<1>2. GatewayInv'
  BY AccountsAssumption DEF Restart, AccountsInv, GatewayInv, NoCatalog
<1>3. CallInv'
  <2>1. Idle \in CallStates
    BY IdleState DEF HandlerState
  <2>2. call' = [c \in Calls |-> Idle]
    BY DEF Restart
  <2>3. call' \in [Calls -> CallStates] /\ \A c \in Calls : call'[c].op = "idle"
    BY <2>1, <2>2 DEF Idle
  <2> QED
    BY <2>3 DEF CallInv
<1> QED
  BY <1>1, <1>2, <1>3, AccountsStay DEF Restart

LEMMA AccountsTickInv ==
  ASSUME AccountsInv, AccountsTick PROVE AccountsInv'
<1>1. HitsInv'
  BY TickHits DEF AccountsInv
<1>2. GatewayInv'
  BY AccountsAssumption DEF AccountsTick, AccountsInv, GatewayInv, NoCatalog
<1>3. CallInv'
  BY DEF AccountsTick, AccountsInv, CallInv, Users
<1> QED
  BY <1>1, <1>2, <1>3, AccountsStay DEF AccountsTick

LEMMA AccountsStutter == AccountsInv /\ UNCHANGED accountsVars => AccountsInv'
<1> SUFFICES ASSUME AccountsInv, UNCHANGED accountsVars PROVE AccountsInv'
  OBVIOUS
<1>1. CallInv' /\ GatewayInv' /\ HitsInv'
  BY HitsStay DEF AccountsInv, accountsVars, CallInv, GatewayInv, Users
<1> QED
  BY <1>1, AccountsStay DEF accountsVars

LEMMA AccountsStep == AccountsInv /\ [AccountsNext]_accountsVars => AccountsInv'
<1> SUFFICES ASSUME AccountsInv, [AccountsNext]_accountsVars PROVE AccountsInv'
  OBVIOUS
<1>1. ASSUME NEW c \in Calls,
             RegisterBegins(c) \/ MemberBegins(c) \/ DeleteBegins(c) \/ LoginBegins(c) \/ SetupBegins(c)
               \/ ConfigBegins(c) \/ Refused(c) \/ Abandon(c)
      PROVE  AccountsInv'
  BY <1>1, RegisterBeginsInv, MemberBeginsInv, DeleteBeginsInv, LoginBeginsInv, SetupBeginsInv, ConfigBeginsInv,
     RefusedInv, AbandonInv
<1>2. ASSUME NEW c \in Calls,
             ModelsChecked(c) \/ CreateWorkspace(c) \/ CreateMember(c) \/ DeleteMember(c) \/ RotateToken(c)
               \/ SetGateway(c)
      PROVE  AccountsInv'
  BY <1>2, ModelsCheckedInv, CreateWorkspaceInv, CreateMemberInv, DeleteMemberInv, RotateTokenInv, SetGatewayInv
<1> QED
  BY <1>1, <1>2, RestartInv, AccountsTickInv, AccountsStutter DEF AccountsNext

(***************************************************************************)
(* What the invariant says.                                                *)
(***************************************************************************)
LEMMA AccountsTyped == AccountsInv => AccountsTypeOK
<1> SUFFICES ASSUME AccountsInv PROVE AccountsTypeOK
  OBVIOUS
<1>1. users \in Seq(UserRows) /\ Len(users) <= MaxUsers /\ issued \in Seq(Users) /\ Len(issued) <= MaxTokens
  BY DEF AccountsInv, RowsInv, UsersTypes, Users
<1>2. \A c \in Calls : call[c].op \in {"idle", "register", "models", "member", "delete", "login", "setup"}
  BY DEF AccountsInv, CallInv, CallStates
<1>3. /\ gateway \in Gateways \cup {NoGateway}
      /\ catalog.of \in Gateways \cup {NoGateway, EnvGateway} /\ catalog.left \in 0..Fresh
  BY DEF AccountsInv, GatewayInv
<1>4. \A k \in Keys : hits[k] \in Seq(0..Window)
  BY DEF AccountsInv, HitsInv
<1> QED
  BY <1>1, <1>2, <1>3, <1>4 DEF AccountsTypeOK, UserRows

LEMMA Sound == AccountsInv => AccountsSound
  BY TokensFollow DEF AccountsInv, RowsInv, AccountsSound

\* Accounts alone: whatever sign-ups, logins, deletions and restarts interleave,
\* no tenant is left without an administrator, no email with a password is two
\* accounts, and no token opens an account it was not given for.
THEOREM SoundAlways == AccountsInit /\ [][AccountsNext]_accountsVars => []AccountsSound
<1>1. AccountsInit => AccountsInv
  BY AccountsInitInv
<1>2. AccountsInv /\ [AccountsNext]_accountsVars => AccountsInv'
  BY AccountsStep
<1>3. AccountsInv => AccountsSound
  BY Sound
<1> QED
  BY <1>1, <1>2, <1>3, PTL

(***************************************************************************)
(* The trace of a job.                                                     *)
(***************************************************************************)
Events == [attempt : Nat, seq : 1..Stages, status : {"ok", "error"}]
AtWork == [at : {"next", "stage", "ok", "error", "failing"}, attempt : Nat, stage : 0..Stages]
JobRows == [status : {"queued", "running", "done", "dead", "deleted"}, attempts : 0..MaxAttempts, stage : 0..Stages]

Busy(w) == worker[w].at # "rest"

TraceTypes ==
    /\ row \in JobRows
    /\ holder \in Workers \cup {NoWorker}
    /\ trail \in SUBSET Events
    /\ worker \in [Workers -> AtWork \cup {AtRest}]
    /\ \A w \in Workers : /\ worker[w].at = "next" => worker[w].stage < Stages
                          /\ worker[w].at \in {"stage", "ok", "error"} => worker[w].stage >= 1

\* An attempt is one worker's, the lease that of the last attempt, and an attempt
\* that is queued has not begun.
AttemptInv ==
    /\ \A w \in Workers : Busy(w) => worker[w].attempt <= row.attempts
    /\ \A v, w \in Workers : v # w /\ Busy(v) /\ Busy(w) => worker[v].attempt # worker[w].attempt
    /\ holder # NoWorker => row.status = "running"
    /\ row.status \in {"queued", "running"} => row.attempts < MaxAttempts
    /\ \A w \in Workers : holder = w /\ Busy(w) => worker[w].attempt = row.attempts
    /\ row.status = "queued" => /\ \A w \in Workers : Busy(w) => worker[w].attempt < row.attempts
                                /\ \A e \in trail : e.attempt < row.attempts
    /\ \A e \in trail : e.attempt <= row.attempts

\* What a worker at work has written is of the stages before, which went well.
Written(state) ==
    \A e \in trail : e.attempt = state.attempt =>
        /\ e.status = "ok"
        /\ IF state.at = "next" THEN e.seq <= state.stage ELSE e.seq < state.stage

TrailInv ==
    /\ \A w \in Workers : worker[w].at \in {"next", "stage", "ok", "error"} => Written(worker[w])
    /\ \A e, f \in trail : e # f /\ e.attempt = f.attempt => e.seq # f.seq /\ (e.seq < f.seq => e.status = "ok")

Ending(state) == state.at \in {"ok", "error", "failing"} /\ state.stage = Stages

\* An attempt that was done has no error but of its last stage, and nobody who could
\* still write another.
WentWell(attempt) ==
    /\ \A e \in trail : e.attempt = attempt => e.status = "ok" \/ e.seq = Stages
    /\ \A w \in Workers : Busy(w) /\ worker[w].attempt = attempt => Ending(worker[w])

DoneInv == row.status = "done" => WentWell(row.attempts)

WatcherInv ==
    /\ watcher.at \in {"job", "document"} /\ watcher.row.status = "done" =>
         /\ watcher.row.attempts = row.attempts /\ row.status \in {"done", "deleted"}
         /\ WentWell(row.attempts)
    /\ TraceTruthful

TraceInv == TraceTypes /\ AttemptInv /\ TrailInv /\ DoneInv /\ WatcherInv

LEMMA AtRestIs == AtRest.at = "rest" /\ AtRest \notin AtWork
  BY DEF AtRest, AtWork

\* A worker that is at something is in an attempt and a stage of it.
LEMMA WorkerIs ==
  ASSUME TraceTypes, NEW w \in Workers
  PROVE  /\ ~Busy(w) => worker[w] = AtRest
         /\ Busy(w) => /\ worker[w] \in AtWork /\ worker[w].attempt \in Nat /\ worker[w].stage \in 0..Stages
                       /\ worker[w].at \in {"next", "stage", "ok", "error", "failing"}
<1>1. worker[w] \in AtWork \cup {AtRest}
  BY DEF TraceTypes
<1>2. worker[w] \in AtWork => /\ worker[w].at \in {"next", "stage", "ok", "error", "failing"}
                              /\ worker[w].attempt \in Nat /\ worker[w].stage \in 0..Stages
  BY DEF AtWork
<1> QED
  BY <1>1, <1>2, AtRestIs DEF Busy

LEMMA RowIs ==
  ASSUME TraceTypes
  PROVE  row.status \in {"queued", "running", "done", "dead", "deleted"} /\ row.attempts \in 0..MaxAttempts
         /\ row.stage \in 0..Stages /\ row.attempts \in Nat
  BY JobTraceAssumption DEF TraceTypes, JobRows

LEMMA TrailIs ==
  ASSUME TraceTypes, NEW e \in trail PROVE e.attempt \in Nat /\ e.seq \in 1..Stages /\ e.status \in {"ok", "error"}
  BY DEF TraceTypes, Events

\* What one worker becomes, and what the others stay.
LEMMA Become ==
  ASSUME TraceTypes, NEW w \in Workers, NEW state \in AtWork \cup {AtRest}, Becomes(w, state)
  PROVE  /\ worker' \in [Workers -> AtWork \cup {AtRest}]
         /\ worker'[w] = state
         /\ \A v \in Workers : v # w => worker'[v] = worker[v]
  BY DEF TraceTypes, Becomes

LEMMA TraceInitInv == TraceInit => TraceInv
<1> SUFFICES ASSUME TraceInit PROVE TraceInv
  OBVIOUS
<1>1. \A w \in Workers : worker[w] = AtRest /\ ~Busy(w)
  BY AtRestIs DEF TraceInit, Busy
<1>2. row \in JobRows /\ row.status = "queued" /\ row.attempts = 0
  BY JobTraceAssumption DEF TraceInit, JobRows
<1>3. TraceTypes
  <2>1. worker \in [Workers -> AtWork \cup {AtRest}]
    BY DEF TraceInit
  <2> QED
    BY <1>1, <1>2, <2>1, AtRestIs DEF TraceInit, TraceTypes
<1>4. AttemptInv /\ TrailInv /\ DoneInv
  BY <1>1, <1>2, AtRestIs, JobTraceAssumption DEF TraceInit, AttemptInv, TrailInv, DoneInv
<1>5. WatcherInv
  BY DEF TraceInit, WatcherInv, TraceTruthful
<1> QED
  BY <1>3, <1>4, <1>5 DEF TraceInv

\* The reader of a trace changes nothing that a worker or the job has.
LEMMA WatcherSteps ==
  ASSUME TraceInv, OpenTrace \/ TraceDocument \/ TraceEvents PROVE TraceInv'
<1>1. UNCHANGED <<row, holder, trail, worker, kept>>
  BY DEF OpenTrace, TraceDocument, TraceEvents
<1>2. TraceTypes' /\ AttemptInv' /\ TrailInv' /\ DoneInv' /\ (WentWell(row.attempts) => WentWell(row.attempts)')
  BY <1>1 DEF TraceInv, TraceTypes, AttemptInv, TrailInv, DoneInv, Written, WentWell, Busy
<1>3. WatcherInv'
  <2>1. CASE OpenTrace
    <3>1. watcher'.at = "job" /\ watcher'.row = row
      BY <2>1 DEF OpenTrace
    <3> QED
      BY <1>1, <1>2, <3>1 DEF WatcherInv, TraceTruthful, TraceInv, DoneInv
  <2>2. CASE TraceDocument
    <3>1. CASE kept
      <4>1. watcher' = [watcher EXCEPT !.at = "document"] /\ watcher.at = "job"
        BY <2>2, <3>1 DEF TraceDocument
      <4>2. watcher'.row = watcher.row /\ watcher'.at # "trace"
        BY <4>1
      <4> QED
        BY <1>1, <1>2, <4>1, <4>2 DEF WatcherInv, TraceTruthful, TraceInv
    <3>2. CASE ~kept
      BY <2>2, <3>2 DEF TraceDocument, WatcherInv, TraceTruthful
    <3> QED
      BY <3>1, <3>2
  <2>3. CASE TraceEvents
    <3>1. watcher'.at = "trace" /\ watcher'.row = watcher.row /\ watcher'.events = trail /\ watcher.at = "document"
      BY <2>3 DEF TraceEvents
    <3> QED
      BY <3>1 DEF WatcherInv, TraceTruthful, TraceInv, TrailInv, WentWell
  <2> QED
    BY <2>1, <2>2, <2>3
<1> QED
  BY <1>2, <1>3 DEF TraceInv

\* What was read as done stays done, or is deleted.
LEMMA WatcherKeeps ==
  ASSUME WatcherInv, UNCHANGED watcher,
         row.status \in {"done", "deleted"} /\ WentWell(row.attempts) =>
           row'.status \in {"done", "deleted"} /\ row'.attempts = row.attempts /\ WentWell(row.attempts)'
  PROVE  WatcherInv'
<1>1. TraceTruthful'
  BY DEF WatcherInv, TraceTruthful
<1> QED
  BY <1>1 DEF WatcherInv

\* A new attempt begins where none was.
LEMMA ClaimInv ==
  ASSUME TraceInv, NEW w \in Workers, ClaimRun(w) PROVE TraceInv'
<1> TraceTypes /\ AttemptInv /\ TrailInv /\ DoneInv /\ WatcherInv
  BY DEF TraceInv
<1> DEFINE state == [at |-> "next", attempt |-> row.attempts, stage |-> 0]
<1>1. /\ state \in AtWork /\ state.at = "next" /\ state.attempt = row.attempts /\ state.stage = 0
      /\ Becomes(w, state)
  BY RowIs, JobTraceAssumption DEF AtWork, ClaimRun
<1> HIDE DEF state
<1>2. /\ worker' \in [Workers -> AtWork \cup {AtRest}] /\ worker'[w] = state
      /\ \A v \in Workers : v # w => worker'[v] = worker[v]
  BY <1>1, Become
<1>3. row' = [row EXCEPT !.status = "running"] /\ row.status = "queued" /\ holder' = w
      /\ UNCHANGED <<trail, watcher>>
  BY DEF ClaimRun
<1>4. row' \in JobRows /\ row'.status = "running" /\ row'.attempts = row.attempts
  BY <1>3 DEF TraceTypes, JobRows
<1>5. \A v \in Workers : v # w /\ Busy(v)' => Busy(v) /\ worker[v].attempt < row.attempts /\ worker'[v] = worker[v]
  BY <1>2, <1>3 DEF AttemptInv, Busy
<1>6. \A e \in trail : e.attempt < row.attempts
  BY <1>3 DEF AttemptInv
<1>7. TraceTypes'
  BY <1>1, <1>2, <1>3, <1>4, JobTraceAssumption DEF TraceTypes
<1>8. row.attempts \in Nat /\ \A v \in Workers : Busy(v) => worker[v].attempt \in Nat
  BY RowIs, WorkerIs
<1>9. AttemptInv'
  <2>1. \A v \in Workers : Busy(v)' => worker'[v].attempt <= row'.attempts
    BY <1>1, <1>2, <1>4, <1>5, <1>8
  <2>2. \A u, v \in Workers : u # v /\ Busy(u)' /\ Busy(v)' => worker'[u].attempt # worker'[v].attempt
    BY <1>1, <1>2, <1>5, <1>8 DEF AttemptInv
  <2>3. row.attempts < MaxAttempts
    BY <1>3 DEF AttemptInv
  <2>4. \A e \in trail' : e.attempt <= row'.attempts
    BY <1>3, <1>4 DEF AttemptInv
  <2> QED
    BY <1>1, <1>2, <1>3, <1>4, <2>1, <2>2, <2>3, <2>4 DEF AttemptInv
<1>10. TrailInv'
  <2>1. Written(worker[w])'
    BY <1>1, <1>2, <1>3, <1>6, <1>8, TrailIs DEF Written
  <2>2. \A v \in Workers : v # w => (Written(worker[v]) => Written(worker[v])')
    BY <1>2, <1>3 DEF Written
  <2> QED
    BY <1>2, <1>3, <2>1, <2>2 DEF TrailInv
<1>11. DoneInv' /\ WatcherInv'
  BY <1>3, <1>4, WatcherKeeps DEF DoneInv
<1> QED
  BY <1>7, <1>9, <1>10, <1>11 DEF TraceInv

\* Between its steps a worker goes on in its attempt, or rests; nothing is written.
\* (The job's row may take a stage, no more.)
LEMMA WorkerMoves ==
  ASSUME TraceInv, NEW w \in Workers, Busy(w), NEW state \in AtWork \cup {AtRest}, Becomes(w, state),
         UNCHANGED <<holder, trail, watcher>>,
         row' \in JobRows, row'.status = row.status, row'.attempts = row.attempts,
         state # AtRest => state.attempt = worker[w].attempt,
         state.at = "next" => state.stage < Stages,
         state.at \in {"stage", "ok", "error"} => state.stage >= 1,
         state.at \in {"next", "stage", "ok", "error"} => Written(state),
         Ending(worker[w]) => state = AtRest \/ Ending(state)
  PROVE  TraceInv'
<1> TraceTypes /\ AttemptInv /\ TrailInv /\ DoneInv /\ WatcherInv
  BY DEF TraceInv
<1>1. /\ worker' \in [Workers -> AtWork \cup {AtRest}] /\ worker'[w] = state
      /\ \A v \in Workers : v # w => worker'[v] = worker[v]
  BY Become
<1>2. \A v \in Workers : Busy(v)' => Busy(v) /\ worker'[v].attempt = worker[v].attempt
  BY <1>1, AtRestIs DEF Busy
<1>3. TraceTypes'
  BY <1>1 DEF TraceTypes
<1>4. AttemptInv'
  BY <1>1, <1>2 DEF AttemptInv
<1>5. TrailInv'
  <2>1. \A v \in Workers : v # w => (Written(worker[v]) => Written(worker[v])')
    BY <1>1 DEF Written
  <2>2. Written(state) => Written(worker[w])'
    BY <1>1 DEF Written
  <2> QED
    BY <1>1, <2>1, <2>2 DEF TrailInv
<1>6. WentWell(row.attempts) => WentWell(row.attempts)'
  <2> SUFFICES ASSUME WentWell(row.attempts), NEW v \in Workers, Busy(v)', worker'[v].attempt = row.attempts
               PROVE  Ending(worker'[v])
    BY DEF WentWell, Ending
  <2>1. Ending(worker[v])
    BY <1>2 DEF WentWell
  <2>2. v = w => state # AtRest
    BY <1>1, AtRestIs DEF Busy
  <2> QED
    BY <1>1, <2>1, <2>2
<1>7. DoneInv' /\ WatcherInv'
  BY <1>6, WatcherKeeps DEF DoneInv
<1> QED
  BY <1>3, <1>4, <1>5, <1>7 DEF TraceInv

LEMMA EnterStageInv ==
  ASSUME TraceInv, NEW w \in Workers, EnterStage(w) PROVE TraceInv'
<1> TraceTypes /\ AttemptInv /\ TrailInv /\ DoneInv /\ WatcherInv
  BY DEF TraceInv
<1>1. /\ Busy(w) /\ worker[w].at = "next" /\ worker[w] \in AtWork /\ Written(worker[w])
      /\ worker[w].stage < Stages /\ worker[w].stage \in Nat
  <2>1. Busy(w) /\ worker[w].at = "next"
    BY DEF EnterStage, Busy
  <2> QED
    BY <2>1, WorkerIs, JobTraceAssumption DEF TrailInv, TraceTypes
<1>2. CASE holder # w
  BY <1>1, <1>2, WorkerMoves, AtRestIs DEF EnterStage, TraceTypes
<1>3. CASE holder = w
  <2> DEFINE state == [worker[w] EXCEPT !.at = "stage", !.stage = @ + 1]
  <2>1. /\ state \in AtWork /\ state.at = "stage" /\ state.stage = worker[w].stage + 1
        /\ state.attempt = worker[w].attempt
    <3> DEFINE entered == [worker[w] EXCEPT !.at = "stage"]
    <3>1. /\ entered \in AtWork /\ entered.at = "stage" /\ entered.attempt = worker[w].attempt
      BY <1>1 DEF AtWork
    <3>2. state = [entered EXCEPT !.stage = worker[w].stage + 1]
      BY <1>1 DEF AtWork
    <3>3. worker[w].stage + 1 \in 0..Stages
      BY <1>1, JobTraceAssumption
    <3> HIDE DEF entered, state
    <3> QED
      BY <3>1, <3>2, <3>3 DEF AtWork
  <2>2. Becomes(w, state) /\ row' = [row EXCEPT !.stage = worker[w].stage + 1]
    BY <1>3 DEF EnterStage
  <2> HIDE DEF state
  <2>3. row' \in JobRows /\ row'.status = row.status /\ row'.attempts = row.attempts
    BY <1>1, <2>2, JobTraceAssumption DEF JobRows, TraceTypes
  <2>4. Written(state)
    BY <1>1, <2>1, TrailIs DEF Written
  <2>5. state.stage >= 1
    BY <1>1, <2>1
  <2> QED
    BY <1>1, <2>1, <2>2, <2>3, <2>4, <2>5, WorkerMoves DEF EnterStage, Ending
<1> QED
  BY <1>2, <1>3

\* A stage that could not be entered: its worker fails, and writes nothing.
LEMMA StageNotEnteredInv ==
  ASSUME TraceInv, NEW w \in Workers, StageNotEntered(w) PROVE TraceInv'
<1> TraceTypes /\ AttemptInv /\ TrailInv /\ DoneInv /\ WatcherInv
  BY DEF TraceInv
<1>1. /\ Busy(w) /\ worker[w].at = "next" /\ worker[w] \in AtWork
      /\ worker[w].stage < Stages /\ worker[w].stage \in Nat
  <2>1. Busy(w) /\ worker[w].at = "next"
    BY DEF StageNotEntered, Busy
  <2> QED
    BY <2>1, WorkerIs, JobTraceAssumption DEF TraceTypes
<1> DEFINE state == [worker[w] EXCEPT !.at = "failing"]
<1>2. state \in AtWork /\ state.at = "failing" /\ state.attempt = worker[w].attempt
  BY <1>1 DEF AtWork
<1>3. Becomes(w, state) /\ UNCHANGED <<holder, trail, watcher>>
  BY DEF StageNotEntered
<1> HIDE DEF state
<1>4. row' \in JobRows /\ row'.status = row.status /\ row'.attempts = row.attempts
  <2>1. CASE UNCHANGED row
    BY <2>1 DEF TraceTypes
  <2>2. CASE row' = [row EXCEPT !.stage = worker[w].stage + 1]
    BY <1>1, <2>2, JobTraceAssumption DEF JobRows, TraceTypes
  <2> QED
    BY <2>1, <2>2 DEF StageNotEntered
<1>5. ~Ending(worker[w])
  BY <1>1 DEF Ending
<1> QED
  BY <1>1, <1>2, <1>3, <1>4, <1>5, WorkerMoves

\* A stage that ends, well or badly, and is not the last one.
LEMMA StageEndsInv ==
  ASSUME TraceInv, NEW w \in Workers, StageRaises(w) \/ (StageDone(w) /\ worker[w].stage # Stages) PROVE TraceInv'
<1> TraceTypes /\ AttemptInv /\ TrailInv /\ DoneInv /\ WatcherInv
  BY DEF TraceInv
<1>1. /\ Busy(w) /\ worker[w].at = "stage" /\ worker[w] \in AtWork /\ Written(worker[w])
      /\ worker[w].stage >= 1
  <2>1. Busy(w) /\ worker[w].at = "stage"
    BY DEF StageRaises, StageDone, Busy
  <2> QED
    BY <2>1, WorkerIs DEF TrailInv, TraceTypes
<1>2. PICK at \in {"ok", "error"} : Becomes(w, [worker[w] EXCEPT !.at = at])
  BY DEF StageRaises, StageDone
<1> DEFINE state == [worker[w] EXCEPT !.at = at]
<1>3. /\ state \in AtWork /\ state.at = at /\ state.stage = worker[w].stage
      /\ state.attempt = worker[w].attempt
  BY <1>1 DEF AtWork
<1>4. Becomes(w, state)
  BY <1>2
<1> HIDE DEF state
<1>5. Written(state)
  BY <1>1, <1>3 DEF Written
<1>6. UNCHANGED <<row, holder, trail, watcher>>
  BY DEF StageRaises, StageDone, Published
<1>7. ~Ending(worker[w])
  BY <1>1 DEF Ending
<1> QED
  BY <1>1, <1>3, <1>4, <1>5, <1>6, <1>7, WorkerMoves DEF TraceTypes

LEMMA DiesInv ==
  ASSUME TraceInv, NEW w \in Workers, WorkerDies(w) PROVE TraceInv'
<1>1. Busy(w)
  BY WorkerIs DEF WorkerDies, TraceInv
<1> QED
  BY <1>1, WorkerMoves, AtRestIs DEF WorkerDies, TraceInv, TraceTypes

\* The last stage ends, and the job is done: its worker has its lease, so the attempt
\* is the job's last one, and all of it went well, whatever its worker hears of it.
LEMMA LastStageInv ==
  ASSUME TraceInv, NEW w \in Workers, PublishReplyLost(w) \/ (StageDone(w) /\ worker[w].stage = Stages)
  PROVE  TraceInv'
<1> TraceTypes /\ AttemptInv /\ TrailInv /\ DoneInv /\ WatcherInv
  BY DEF TraceInv
<1>1. /\ Busy(w) /\ worker[w].at = "stage" /\ worker[w] \in AtWork /\ Written(worker[w])
      /\ worker[w].stage >= 1 /\ holder = w /\ holder # NoWorker
  <2>1. Busy(w) /\ worker[w].at = "stage" /\ holder = w
    BY DEF StageDone, PublishReplyLost, Published, Busy
  <2> QED
    BY <2>1, WorkerIs, JobTraceAssumption DEF TrailInv, TraceTypes
<1>0. PICK at \in {"ok", "error"} : Becomes(w, [worker[w] EXCEPT !.at = at])
  BY DEF StageDone, PublishReplyLost
<1> DEFINE state == [worker[w] EXCEPT !.at = at]
<1>2. /\ state \in AtWork /\ state.at = at /\ state.stage = Stages /\ state.attempt = worker[w].attempt
      /\ Becomes(w, state) /\ state.at # "next" /\ state.stage >= 1
  <2>1. worker[w].stage = Stages
    BY DEF StageDone, PublishReplyLost, Published
  <2> QED
    BY <1>0, <1>1, <2>1 DEF AtWork
<1> HIDE DEF state
<1>3. /\ worker' \in [Workers -> AtWork \cup {AtRest}] /\ worker'[w] = state
      /\ \A v \in Workers : v # w => worker'[v] = worker[v]
  BY <1>2, Become
<1>4. row.status = "running" /\ worker[w].attempt = row.attempts
  BY <1>1 DEF AttemptInv
<1>5. row' = [row EXCEPT !.status = "done"] /\ holder' = NoWorker /\ UNCHANGED <<trail, watcher>>
  BY DEF StageDone, PublishReplyLost, Published
<1>6. row' \in JobRows /\ row'.status = "done" /\ row'.attempts = row.attempts
  BY <1>5 DEF TraceTypes, JobRows
<1>7. \A v \in Workers : (Busy(v)' <=> Busy(v)) /\ (Busy(v) => worker'[v].attempt = worker[v].attempt)
  BY <1>1, <1>2, <1>3 DEF Busy
<1>8. TraceTypes'
  BY <1>1, <1>2, <1>3, <1>5, <1>6 DEF TraceTypes
<1>9. AttemptInv'
  <2>1. \A v \in Workers : Busy(v)' => worker'[v].attempt <= row'.attempts
    BY <1>6, <1>7 DEF AttemptInv
  <2>2. \A u, v \in Workers : u # v /\ Busy(u)' /\ Busy(v)' => worker'[u].attempt # worker'[v].attempt
    BY <1>7 DEF AttemptInv
  <2>3. \A e \in trail' : e.attempt <= row'.attempts
    BY <1>5, <1>6 DEF AttemptInv
  <2> QED
    BY <1>5, <1>6, <2>1, <2>2, <2>3, JobTraceAssumption DEF AttemptInv
<1>10. TrailInv'
  <2>1. \A v \in Workers : v # w => (Written(worker[v]) => Written(worker[v])')
    BY <1>3, <1>5 DEF Written
  <2>2. Written(worker[w])'
    <3>1. \A e \in trail : e.attempt = worker[w].attempt => e.status = "ok" /\ e.seq < worker[w].stage
      BY <1>1 DEF Written
    <3>2. worker[w].stage = state.stage
      BY <1>2, <1>1 DEF StageDone, PublishReplyLost, Published
    <3>3. \A e \in trail' : e.attempt = worker'[w].attempt => e.status = "ok" /\ e.seq < worker'[w].stage
      BY <1>2, <1>3, <1>5, <3>1, <3>2
    <3> QED
      BY <1>2, <1>3, <3>3 DEF Written
  <2> QED
    BY <1>3, <1>5, <2>1, <2>2 DEF TrailInv
<1>11. WentWell(row.attempts)'
  <2>1. \A e \in trail' : e.attempt = row'.attempts => e.status = "ok"
    BY <1>1, <1>4, <1>5, <1>6 DEF Written
  <2>2. \A v \in Workers : Busy(v)' /\ worker'[v].attempt = row'.attempts => v = w
    BY <1>1, <1>4, <1>6, <1>7 DEF AttemptInv
  <2>3. Ending(worker'[w])
    BY <1>2, <1>3 DEF Ending
  <2> QED
    BY <1>6, <2>1, <2>2, <2>3 DEF WentWell, Ending
<1>12. DoneInv' /\ WatcherInv'
  BY <1>4, <1>5, <1>11, WatcherKeeps DEF DoneInv
<1> QED
  BY <1>8, <1>9, <1>10, <1>12 DEF TraceInv

\* The job's row after a failure.
LEMMA RowAfter ==
  ASSUME TraceTypes, row.attempts < MaxAttempts, NextAttempt
  PROVE  /\ row' \in JobRows /\ row'.status \in {"queued", "dead"} /\ row'.attempts = row.attempts + 1
         /\ row'.status = "queued" => row'.attempts < MaxAttempts
<1>1. row.attempts \in Nat /\ row \in JobRows /\ MaxAttempts \in Nat
  BY RowIs, JobTraceAssumption DEF TraceTypes
<1>2. PICK status \in {"queued", "dead"} :
        /\ row' = [row EXCEPT !.attempts = @ + 1, !.status = status]
        /\ status = "queued" => row.attempts + 1 < MaxAttempts
  BY DEF NextAttempt
<1> DEFINE counted == [row EXCEPT !.attempts = row.attempts + 1]
<1>3. /\ counted \in JobRows /\ counted.attempts = row.attempts + 1
      /\ row' = [counted EXCEPT !.status = status]
  BY <1>1, <1>2 DEF JobRows
<1> HIDE DEF counted
<1> QED
  BY <1>2, <1>3 DEF JobRows

\* A new attempt, or none: nobody is in it, and nothing is written of it.
LEMMA NextAttemptInv ==
  ASSUME TraceInv, NextAttempt, row.status = "running", UNCHANGED <<trail, worker, watcher>> PROVE TraceInv'
<1> TraceTypes /\ AttemptInv /\ TrailInv /\ DoneInv /\ WatcherInv
  BY DEF TraceInv
<1>1. row.attempts < MaxAttempts /\ row.attempts \in Nat
  BY RowIs DEF AttemptInv
<1>2. /\ row' \in JobRows /\ row'.status \in {"queued", "dead"} /\ row'.attempts = row.attempts + 1
      /\ row'.status = "queued" => row'.attempts < MaxAttempts
  BY <1>1, RowAfter
<1>3. holder' = NoWorker /\ \A w \in Workers : (Busy(w)' <=> Busy(w)) /\ worker'[w] = worker[w]
  BY DEF NextAttempt, Busy
<1>4. TraceTypes'
  BY <1>2, <1>3 DEF TraceTypes
<1>5. AttemptInv'
  <2>1. \A w \in Workers : Busy(w) => worker[w].attempt \in Nat /\ worker[w].attempt <= row.attempts
    BY WorkerIs DEF AttemptInv
  <2>2. \A e \in trail : e.attempt \in Nat /\ e.attempt <= row.attempts
    BY TrailIs DEF AttemptInv
  <2>3. \A w \in Workers : Busy(w)' => worker'[w].attempt < row'.attempts /\ worker'[w].attempt <= row'.attempts
    BY <1>1, <1>2, <1>3, <2>1
  <2>4. \A e \in trail' : e.attempt < row'.attempts /\ e.attempt <= row'.attempts
    BY <1>1, <1>2, <2>2
  <2>5. \A v, w \in Workers : v # w /\ Busy(v)' /\ Busy(w)' => worker'[v].attempt # worker'[w].attempt
    BY <1>3 DEF AttemptInv
  <2> QED
    BY <1>2, <1>3, <2>3, <2>4, <2>5, JobTraceAssumption DEF AttemptInv
<1>6. TrailInv'
  BY DEF TrailInv, Written
<1>7. DoneInv' /\ WatcherInv'
  BY <1>2, WatcherKeeps DEF DoneInv
<1> QED
  BY <1>4, <1>5, <1>6, <1>7 DEF TraceInv

\* A worker that failed reports it if it has the lease still, and rests; which is
\* to report first, and rest then.
LEMMA FailJobInv ==
  ASSUME TraceInv, NEW w \in Workers, FailJob(w) PROVE TraceInv'
<1> TraceTypes /\ AttemptInv /\ TrailInv /\ DoneInv /\ WatcherInv
  BY DEF TraceInv
<1>1. Busy(w) /\ worker[w].at = "failing"
  BY DEF FailJob, Busy
<1>2. CASE holder # w
  BY <1>1, <1>2, WorkerMoves, AtRestIs DEF FailJob, TraceTypes
<1>3. CASE holder = w
  <2>1. row.status = "running"
    BY <1>3, JobTraceAssumption DEF AttemptInv
  <2>2. row.attempts < MaxAttempts /\ row.attempts \in Nat
    BY <2>1, RowIs DEF AttemptInv
  <2>3. NextAttempt
    BY <1>3 DEF FailJob
  <2>4. /\ row' \in JobRows /\ row'.status \in {"queued", "dead"} /\ row'.attempts = row.attempts + 1
        /\ row'.status = "queued" => row'.attempts < MaxAttempts
    BY <2>2, <2>3, RowAfter
  <2>5. /\ worker' \in [Workers -> AtWork \cup {AtRest}] /\ worker'[w] = AtRest
        /\ \A v \in Workers : v # w => worker'[v] = worker[v]
    BY Become DEF FailJob
  <2>6. holder' = NoWorker /\ UNCHANGED <<trail, watcher>>
    BY <1>3 DEF FailJob, NextAttempt
  <2>7. \A v \in Workers : Busy(v)' => Busy(v) /\ worker'[v] = worker[v]
    BY <2>5, AtRestIs DEF Busy
  <2>8. TraceTypes'
    BY <2>4, <2>5, <2>6, AtRestIs DEF TraceTypes
  <2>9. AttemptInv'
    <3>1. \A v \in Workers : Busy(v) => worker[v].attempt \in Nat /\ worker[v].attempt <= row.attempts
      BY WorkerIs DEF AttemptInv
    <3>2. \A e \in trail : e.attempt \in Nat /\ e.attempt <= row.attempts
      BY TrailIs DEF AttemptInv
    <3>3. \A v \in Workers : Busy(v)' => worker'[v].attempt < row'.attempts /\ worker'[v].attempt <= row'.attempts
      BY <2>2, <2>4, <2>7, <3>1
    <3>4. \A e \in trail' : e.attempt < row'.attempts /\ e.attempt <= row'.attempts
      BY <2>2, <2>4, <2>6, <3>2
    <3>5. \A u, v \in Workers : u # v /\ Busy(u)' /\ Busy(v)' => worker'[u].attempt # worker'[v].attempt
      BY <2>7 DEF AttemptInv
    <3> QED
      BY <2>4, <2>6, <3>3, <3>4, <3>5, JobTraceAssumption DEF AttemptInv
  <2>10. TrailInv'
    <3>1. \A v \in Workers : v # w => (Written(worker[v]) => Written(worker[v])')
      BY <2>5, <2>6 DEF Written
    <3> QED
      BY <2>5, <2>6, <3>1, AtRestIs DEF TrailInv
  <2>11. DoneInv' /\ WatcherInv'
    BY <2>1, <2>4, <2>6, WatcherKeeps DEF DoneInv
  <2> QED
    BY <2>8, <2>9, <2>10, <2>11 DEF TraceInv
<1> QED
  BY <1>2, <1>3

\* What a worker writes of its stage, or nothing: the stage was not written of yet in
\* its attempt, and an error is the last thing it writes.
LEMMA RecordEventInv ==
  ASSUME TraceInv, NEW w \in Workers, RecordEvent(w) PROVE TraceInv'
<1> TraceTypes /\ AttemptInv /\ TrailInv /\ DoneInv /\ WatcherInv
  BY DEF TraceInv
<1> DEFINE event == [attempt |-> worker[w].attempt, seq |-> worker[w].stage, status |-> worker[w].at]
<1>1. /\ Busy(w) /\ worker[w].at \in {"ok", "error"} /\ worker[w] \in AtWork /\ Written(worker[w])
      /\ worker[w].stage \in 1..Stages /\ worker[w].attempt \in Nat
  <2>1. Busy(w) /\ worker[w].at \in {"ok", "error"}
    BY DEF RecordEvent, Busy
  <2> QED
    BY <2>1, WorkerIs, JobTraceAssumption DEF TrailInv, TraceTypes
<1>2. /\ event \in Events /\ event.attempt = worker[w].attempt /\ event.seq = worker[w].stage
      /\ event.status = worker[w].at
  BY <1>1 DEF Events
<1>3. PICK state \in AtWork \cup {AtRest} :
        /\ Becomes(w, state)
        /\ state # AtRest => state.attempt = worker[w].attempt /\ state.stage = worker[w].stage
        /\ \/ worker[w].at = "error" /\ state.at = "failing"
           \/ worker[w].at = "ok" /\ worker[w].stage = Stages /\ state = AtRest
           \/ worker[w].at = "ok" /\ worker[w].stage # Stages /\ state.at = "next"
  <2> DEFINE failing == [worker[w] EXCEPT !.at = "failing"]
             next    == [worker[w] EXCEPT !.at = "next"]
  <2>1. /\ failing \in AtWork /\ failing.at = "failing" /\ failing.attempt = worker[w].attempt
        /\ failing.stage = worker[w].stage
    BY <1>1 DEF AtWork
  <2>2. /\ next \in AtWork /\ next.at = "next" /\ next.attempt = worker[w].attempt
        /\ next.stage = worker[w].stage
    BY <1>1 DEF AtWork
  <2>3. Becomes(w, IF worker[w].at = "error" THEN failing ELSE IF worker[w].stage = Stages THEN AtRest ELSE next)
    BY DEF RecordEvent
  <2> HIDE DEF failing, next
  <2>4. CASE worker[w].at = "error"
    BY <2>1, <2>3, <2>4
  <2>5. CASE worker[w].at = "ok" /\ worker[w].stage = Stages
    BY <2>3, <2>5
  <2>6. CASE worker[w].at = "ok" /\ worker[w].stage # Stages
    BY <2>2, <2>3, <2>6
  <2> QED
    BY <1>1, <2>4, <2>5, <2>6
<1>4. UNCHANGED <<row, holder, watcher>> /\ trail' \in {trail, trail \cup {event}}
  BY DEF RecordEvent
<1> HIDE DEF event
<1>5. CASE trail' = trail
  <2>1. state.at = "next" => state.stage < Stages
    BY <1>1, <1>3, AtRestIs, JobTraceAssumption
  <2>2. state.at \in {"next", "stage", "ok", "error"} => state.at = "next" /\ state # AtRest
    BY <1>3, AtRestIs
  <2>3. state.at = "next" => Written(state)
    BY <1>1, <1>3, <2>2, TrailIs DEF Written
  <2>4. Ending(worker[w]) => state = AtRest \/ Ending(state)
    BY <1>1, <1>3 DEF Ending
  <2> QED
    BY <1>1, <1>3, <1>4, <1>5, <2>1, <2>2, <2>3, <2>4, WorkerMoves DEF TraceTypes
<1>6. CASE trail' = trail \cup {event}
  <2>1. /\ worker' \in [Workers -> AtWork \cup {AtRest}] /\ worker'[w] = state
        /\ \A v \in Workers : v # w => worker'[v] = worker[v]
    BY <1>3, Become
  <2>2. \A v \in Workers : Busy(v)' => Busy(v) /\ worker'[v].attempt = worker[v].attempt
    BY <1>1, <1>3, <2>1, AtRestIs DEF Busy
  <2>3. worker[w].attempt <= row.attempts
    BY <1>1 DEF AttemptInv
  <2>4. row.status = "queued" => worker[w].attempt < row.attempts
    BY <1>1 DEF AttemptInv
  <2>5. TraceTypes'
    <3>1. state.at = "next" => state.stage < Stages
      BY <1>1, <1>3, AtRestIs, JobTraceAssumption
    <3>2. state.at \notin {"stage", "ok", "error"}
      BY <1>3, AtRestIs
    <3>3. trail' \in SUBSET Events
      BY <1>2, <1>6 DEF TraceTypes
    <3> QED
      BY <1>4, <2>1, <3>1, <3>2, <3>3 DEF TraceTypes
  <2>6. AttemptInv'
    <3>1. \A e \in trail' : e.attempt <= row'.attempts
      BY <1>2, <1>4, <1>6, <2>3 DEF AttemptInv
    <3>2. row'.status = "queued" => /\ \A e \in trail' : e.attempt < row'.attempts
                                    /\ \A v \in Workers : Busy(v)' => worker'[v].attempt < row'.attempts
      BY <1>2, <1>4, <1>6, <2>2, <2>4 DEF AttemptInv
    <3>3. /\ \A v \in Workers : Busy(v)' => worker'[v].attempt <= row'.attempts
          /\ \A u, v \in Workers : u # v /\ Busy(u)' /\ Busy(v)' => worker'[u].attempt # worker'[v].attempt
          /\ \A v \in Workers : holder' = v /\ Busy(v)' => worker'[v].attempt = row'.attempts
      BY <1>4, <2>2 DEF AttemptInv
    <3> QED
      BY <1>4, <3>1, <3>2, <3>3 DEF AttemptInv
  <2>7. TrailInv'
    <3>1. \A v \in Workers : v # w /\ Busy(v) => worker[v].attempt # event.attempt
      BY <1>1, <1>2 DEF AttemptInv
    <3>2. \A v \in Workers : v # w /\ Busy(v) /\ Written(worker[v]) => Written(worker[v])'
      BY <1>6, <2>1, <3>1 DEF Written
    <3>3. state.at = "next" => Written(worker[w])'
      BY <1>1, <1>2, <1>3, <1>6, <2>1, TrailIs, AtRestIs DEF Written
    <3>4. \A v \in Workers : worker'[v].at \in {"next", "stage", "ok", "error"} => Written(worker[v])'
      BY <1>3, <2>1, <3>2, <3>3, AtRestIs DEF TrailInv, Busy
    <3>5. \A e \in trail : e.attempt = event.attempt => e.status = "ok" /\ e.seq < event.seq
      BY <1>1, <1>2 DEF Written
    <3>6. event.seq \in Nat /\ \A e \in trail : e.seq \in Nat
      BY <1>1, <1>2, TrailIs
    <3>7. \A e, f \in trail' : e # f /\ e.attempt = f.attempt => e.seq # f.seq /\ (e.seq < f.seq => e.status = "ok")
      BY <1>6, <3>5, <3>6 DEF TrailInv
    <3> QED
      BY <3>4, <3>7 DEF TrailInv
  <2>8. WentWell(row.attempts) => WentWell(row.attempts)'
    <3> SUFFICES ASSUME WentWell(row.attempts) PROVE WentWell(row.attempts)'
      OBVIOUS
    <3>1. \A e \in trail' : e.attempt = row.attempts => e.status = "ok" \/ e.seq = Stages
      BY <1>1, <1>2, <1>6 DEF WentWell, Ending
    <3>2. Busy(w)' /\ worker'[w].attempt = row.attempts => Ending(worker'[w])
      <4>1. Busy(w)' => state # AtRest
        BY <2>1, AtRestIs DEF Busy
      <4>2. worker[w].attempt = row.attempts => worker[w].stage = Stages
        BY <1>1 DEF WentWell, Ending
      <4> QED
        BY <1>3, <2>1, <2>2, <4>1, <4>2 DEF Ending
    <3>3. \A v \in Workers : v # w /\ Busy(v)' /\ worker'[v].attempt = row.attempts => Ending(worker'[v])
      BY <2>1, <2>2 DEF WentWell
    <3> QED
      BY <1>4, <3>1, <3>2, <3>3 DEF WentWell, Ending
  <2>9. DoneInv' /\ WatcherInv'
    BY <1>4, <2>8, WatcherKeeps DEF DoneInv
  <2> QED
    BY <2>5, <2>6, <2>7, <2>9 DEF TraceInv
<1> QED
  BY <1>4, <1>5, <1>6

\* The job goes, and its trail; workers still in an attempt of it may write on.
LEMMA DeleteTracedInv ==
  ASSUME TraceInv, DeleteTraced PROVE TraceInv'
<1> TraceTypes /\ AttemptInv /\ TrailInv /\ DoneInv /\ WatcherInv
  BY DEF TraceInv
<1>1. row' = [row EXCEPT !.status = "deleted"] /\ holder' = NoWorker /\ trail' = {} /\ UNCHANGED <<worker, watcher>>
  BY DEF DeleteTraced
<1>2. row' \in JobRows /\ row'.status = "deleted" /\ row'.attempts = row.attempts
  BY <1>1 DEF TraceTypes, JobRows
<1>3. TraceTypes'
  BY <1>1, <1>2 DEF TraceTypes
<1>4. AttemptInv'
  BY <1>1, <1>2, JobTraceAssumption DEF AttemptInv, Busy
<1>5. TrailInv'
  BY <1>1 DEF TrailInv, Written
<1>6. WentWell(row.attempts) => WentWell(row.attempts)'
  BY <1>1, <1>2 DEF WentWell, Busy
<1>7. DoneInv' /\ WatcherInv'
  BY <1>1, <1>2, <1>6, WatcherKeeps DEF DoneInv
<1> QED
  BY <1>3, <1>4, <1>5, <1>7 DEF TraceInv

LEMMA TraceStep == TraceInv /\ [TraceNext]_traceVars => TraceInv'
<1> SUFFICES ASSUME TraceInv, [TraceNext]_traceVars PROVE TraceInv'
  OBVIOUS
<1>1. ASSUME NEW w \in Workers,
             \/ ClaimRun(w) \/ EnterStage(w) \/ StageNotEntered(w)
             \/ StageDone(w) \/ PublishReplyLost(w) \/ StageRaises(w)
             \/ RecordEvent(w) \/ FailJob(w) \/ WorkerDies(w)
      PROVE  TraceInv'
  BY <1>1, ClaimInv, EnterStageInv, StageNotEnteredInv, StageEndsInv, LastStageInv, RecordEventInv, FailJobInv, DiesInv
<1>2. CASE ReapLease
  BY <1>2, NextAttemptInv DEF ReapLease
<1>3. CASE DeleteTraced
  BY <1>3, DeleteTracedInv
<1>4. CASE OpenTrace \/ TraceDocument \/ TraceEvents
  BY <1>4, WatcherSteps
<1>5. CASE UNCHANGED traceVars
  BY <1>5 DEF traceVars, TraceInv, TraceTypes, AttemptInv, TrailInv, DoneInv, WatcherInv, TraceTruthful, Written,
              WentWell, Busy
<1> QED
  BY <1>1, <1>2, <1>3, <1>4, <1>5 DEF TraceNext

LEMMA TraceTyped == TraceInv => TraceTypeOK
<1> SUFFICES ASSUME TraceTypes PROVE TraceTypeOK
  BY DEF TraceInv
<1>1. \A w \in Workers : worker[w].at \in {"rest", "next", "stage", "ok", "error", "failing"}
  BY WorkerIs, AtRestIs
<1> QED
  BY <1>1, RowIs, TrailIs DEF TraceTypeOK

LEMMA Truthful == TraceInv => TraceTruthful
  BY DEF TraceInv, WatcherInv

(***************************************************************************)
(* The four together.                                                      *)
(***************************************************************************)
\* The inductive invariant: each part's own.
AdministrationInv == AccountsInv /\ IndexInv /\ ViewsInv /\ TraceInv

\* In every behaviour, whichever part it is of, the invariant of each part holds.
THEOREM Invariance == Spec => []AdministrationInv
<1>1. Init => AdministrationInv
  BY AccountsInitInv, InitInv, ViewsInitInv, TraceInitInv DEF Init, AdministrationInv
<1>2. AdministrationInv /\ [Next]_vars => AdministrationInv'
  <2> SUFFICES ASSUME AdministrationInv, [Next]_vars PROVE AdministrationInv'
    OBVIOUS
  <2>1. [AccountsNext]_accountsVars
    BY DEF Next, vars
  <2>2. [IndexNext]_indexVars
    BY DEF Next, vars
  <2>3. [ViewsNext]_viewsVars
    BY DEF Next, vars
  <2>4. [TraceNext]_traceVars
    BY DEF Next, vars
  <2>5. AccountsInv'
    BY <2>1, AccountsStep DEF AdministrationInv
  <2>6. IndexInv'
    BY <2>2, StepInv DEF AdministrationInv
  <2>7. ViewsInv'
    BY <2>3, ViewsStep DEF AdministrationInv
  <2>8. TraceInv'
    BY <2>4, TraceStep DEF AdministrationInv
  <2> QED
    BY <2>5, <2>6, <2>7, <2>8 DEF AdministrationInv
<1> QED
  BY <1>1, <1>2, PTL DEF Spec

\* Every variable keeps its type, and no job has more attempts than it may have.
THEOREM TypeCorrect == Spec => []TypeOK
<1>1. AdministrationInv => TypeOK
  BY AccountsTyped, InvTypes, ViewsTyped, TraceTyped DEF AdministrationInv, TypeOK
<1> QED
  BY <1>1, Invariance, PTL

\* No tenant loses its last administrator, no email gets two accounts and no token
\* opens another account, whatever sign-ups, logins and deletions interleave.
THEOREM AccountsAreSound == Spec => []AccountsSound
<1>1. AdministrationInv => AccountsSound
  BY Sound DEF AdministrationInv
<1> QED
  BY <1>1, Invariance, PTL

\* The activation of another model, and its reversal, lose no row that was published
\* meanwhile, bring none back that was deleted, and mix no vectors of two models.
THEOREM IndexIsConsistent == Spec => []IndexConsistent
<1>1. AdministrationInv => IndexConsistent
  BY InvConsistent DEF AdministrationInv
<1> QED
  BY <1>1, Invariance, PTL

\* What people are shown of documents is what there was, page by page and version by
\* version; an update takes no access but of the version it replaces; and the trace of
\* a job tells one story for each attempt, with no error in the last attempt of a job
\* that is done but that of a publication whose reply was lost.
THEOREM ShownIsTruthful == Spec => []ShownTruthful
<1>1. AdministrationInv => ShownTruthful
  BY ViewsTold, Truthful DEF AdministrationInv, ShownTruthful
<1> QED
  BY <1>1, Invariance, PTL
================================================================================
