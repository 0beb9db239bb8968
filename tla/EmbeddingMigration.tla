--------------------------- MODULE EmbeddingMigration ---------------------------
(***************************************************************************)
(* Moving the vectors to another embedding model under a running service:  *)
(*   shared/adapters/pgvector/migration.py     build and activate          *)
(*   shared/adapters/pgvector/profile.py       the profile a process needs *)
(*   shared/adapters/pgvector/vector_store.py  deletion, search            *)
(*   ingest/adapters/publication.py            the rows of a generation    *)
(*                                                                         *)
(* A table is a function from chunks to [dead, by]: whether the row is     *)
(* marked deleted, and the profile its vector is of, which its payload     *)
(* names too.  A generation's chunks have ids of their own, and nothing    *)
(* removes a row.                                                          *)
(***************************************************************************)
EXTENDS Integers, FiniteSets, Functions

CONSTANTS
    Chunks,
    Profiles,
    NoProfile,    \* no row in embedding_profile
    Processes,    \* workers and API processes with an embedder of their own
    Names         \* names for tables that are not vector_chunks

ASSUME MigrationAssumption == NoProfile \notin Profiles

VARIABLES
    live,        \* vector_chunks
    profile,     \* the singleton of embedding_profile
    migrations,  \* embedding_migrations and their tables, by name, but those activated
                 \* or given up: neither is looked at again
    building,    \* the chunks a build still has to copy, by name
    uses,        \* process -> the profile of its embedder, NoProfile if it is down
    holds,       \* process -> what its transaction is for, with the profile row locked
    truth        \* history: chunk -> whether it is deleted, had no table been replaced

indexVars == <<live, profile, migrations, building, uses, holds, truth>>

Empty == <<>>
Marks(rows) == [c \in DOMAIN rows |-> rows[c].dead]

\* What _fingerprint sees of a table: all but the vectors, of which the payload
\* names the profile.
Fingerprint(rows) == rows

Free == {n \in Names : n \notin DOMAIN migrations}

IndexTypeOK ==
    /\ DOMAIN live \subseteq Chunks
    /\ \A c \in DOMAIN live : live[c].dead \in BOOLEAN /\ live[c].by \in Profiles
    /\ profile \in Profiles \cup {NoProfile}
    /\ DOMAIN migrations \subseteq Names /\ DOMAIN building \subseteq DOMAIN migrations
    /\ \A n \in DOMAIN migrations : migrations[n].state \in {"building", "ready"}
    /\ uses \in [Processes -> Profiles \cup {NoProfile}]
    /\ holds \in [Processes -> {"nothing", "write", "search"}]

IndexInit ==
    /\ live = Empty /\ truth = Empty
    /\ profile = NoProfile
    /\ migrations = Empty /\ building = Empty
    /\ uses = [p \in Processes |-> NoProfile]
    /\ holds = [p \in Processes |-> "nothing"]

(***************************************************************************)
(* Processes.  ensure_profile: the first one's profile becomes that of the *)
(* store; another one's does not start.                                    *)
(***************************************************************************)
Start(p) ==
    /\ uses[p] = NoProfile
    /\ \E own \in Profiles :
          /\ profile \in {NoProfile, own}
          /\ profile' = own
          /\ uses' = [uses EXCEPT ![p] = own]
    /\ UNCHANGED <<live, migrations, building, holds, truth>>

Stop(p) ==
    /\ uses[p] # NoProfile
    /\ uses' = [uses EXCEPT ![p] = NoProfile]
    /\ holds' = [holds EXCEPT ![p] = "nothing"]
    /\ UNCHANGED <<live, profile, migrations, building, truth>>

\* check_profile, FOR SHARE: the row stays locked until the transaction ends.
CheckProfile(p, for) ==
    /\ uses[p] # NoProfile /\ holds[p] = "nothing"
    /\ uses[p] = profile
    /\ holds' = [holds EXCEPT ![p] = for]
    /\ UNCHANGED <<live, profile, migrations, building, uses, truth>>

\* The rows of both, the new one where they name the same.
More(rows, new) == [c \in DOMAIN rows \cup DOMAIN new |-> IF c \in DOMAIN new THEN new[c] ELSE rows[c]]
Put(rows, c, row) == More(rows, [x \in {c} |-> row])

\* publish adds the rows of a generation, under the profile row it has locked.
Publish(p) ==
    /\ holds[p] = "write"
    /\ \E new \in (SUBSET (Chunks \ DOMAIN live)) \ {{}} :
          /\ live' = More(live, [c \in new |-> [dead |-> FALSE, by |-> uses[p]]])
          /\ truth' = More(truth, [c \in new |-> FALSE])
    /\ holds' = [holds EXCEPT ![p] = "nothing"]
    /\ UNCHANGED <<profile, migrations, building, uses>>

EndSearch(p) ==
    /\ holds[p] = "search"
    /\ holds' = [holds EXCEPT ![p] = "nothing"]
    /\ UNCHANGED <<live, profile, migrations, building, uses, truth>>

\* delete_by_document marks the rows of a document; it does not ask for the profile.
MarkDeleted ==
    /\ \E old \in SUBSET {c \in DOMAIN live : ~live[c].dead} :
          /\ old # {}
          /\ live' = [c \in DOMAIN live |-> [live[c] EXCEPT !.dead = @ \/ c \in old]]
          /\ truth' = [c \in DOMAIN truth |-> truth[c] \/ c \in old]
    /\ UNCHANGED <<profile, migrations, building, uses, holds>>

(***************************************************************************)
(* build_shadow: the rows are read in one transaction and copied in others *)
(***************************************************************************)
BuildShadow ==
    /\ \E n \in Free, own \in Profiles :
          /\ migrations' = Put(migrations, n, [source |-> live, table |-> Empty, copied |-> Empty,
                                               profile |-> own, state |-> "building"])
          /\ building' = Put(building, n, DOMAIN live)
    /\ UNCHANGED <<live, profile, uses, holds, truth>>

BuildBatch ==
    /\ \E n \in DOMAIN building : \E c \in building[n] :
          /\ migrations' = [migrations EXCEPT ![n].table =
                Put(@, c, [dead |-> migrations[n].source[c].dead, by |-> migrations[n].profile])]
          /\ building' = [building EXCEPT ![n] = @ \ {c}]
    /\ UNCHANGED <<live, profile, uses, holds, truth>>

BuildReady ==
    /\ \E n \in DOMAIN building :
          /\ building[n] = {}
          /\ migrations' = [migrations EXCEPT ![n].state = "ready", ![n].copied = migrations[n].table]
          /\ building' = Restrict(building, DOMAIN building \ {n})
    /\ UNCHANGED <<live, profile, uses, holds, truth>>

\* What is built of a build that ends early is never ready.
BuildAborts ==
    /\ \E n \in DOMAIN building :
          /\ building' = Restrict(building, DOMAIN building \ {n})
          /\ migrations' = Restrict(migrations, DOMAIN migrations \ {n})
    /\ UNCHANGED <<live, profile, uses, holds, truth>>

(***************************************************************************)
(* activate_shadow, one transaction                                        *)
(***************************************************************************)
\* LOCK TABLE embedding_profile waits for the transactions that checked it.
ProfileUnlocked == \A p \in Processes : holds[p] = "nothing"

\* Defect: the corpus is only counted, not compared.
FitsByCount(n) ==
    /\ migrations[n].state = "ready"
    /\ migrations[n].table = migrations[n].copied
    /\ Cardinality(DOMAIN migrations[n].table) = Cardinality(DOMAIN live)

Fits(n) ==
    /\ migrations[n].state = "ready"
    /\ migrations[n].table = migrations[n].copied
    /\ Fingerprint(live) = Fingerprint(migrations[n].source)
    /\ Cardinality(DOMAIN migrations[n].table) = Cardinality(DOMAIN live)

\* The table that is replaced becomes a migration that is ready to take back.
ActivateShadow ==
    /\ ProfileUnlocked
    /\ \E n \in DOMAIN migrations, previous \in Free :
          /\ Fits(n)
          /\ live' = migrations[n].table
          /\ profile' = migrations[n].profile
          /\ migrations' =
               LET done == Restrict(migrations, DOMAIN migrations \ {n})
               IN  IF profile = NoProfile THEN done
                   ELSE Put(done, previous, [source |-> migrations[n].table, table |-> live, copied |-> live,
                                             profile |-> profile, state |-> "ready"])
    /\ UNCHANGED <<building, uses, holds, truth>>

IndexNext ==
    \/ \E p \in Processes :
          \/ Start(p) \/ Stop(p) \/ CheckProfile(p, "write") \/ CheckProfile(p, "search")
          \/ Publish(p) \/ EndSearch(p)
    \/ MarkDeleted
    \/ BuildShadow \/ BuildBatch \/ BuildReady \/ BuildAborts \/ ActivateShadow

(***************************************************************************)
(* Properties                                                              *)
(***************************************************************************)
\* The table searched has every row that was published, deleted if it was deleted,
\* whatever happened while its replacement was built.
NothingLost == Marks(live) = truth

\* All of its vectors are of the profile on record, and nobody searches them with
\* a vector of another, or writes one.
OneProfile ==
    /\ \A c \in DOMAIN live : live[c].by = profile
    /\ \A p \in Processes : holds[p] # "nothing" => uses[p] = profile

\* Activation, and its reversal, lose no row that was published while the new table
\* was built, bring none back that was deleted, and mix no vectors of two models.
IndexConsistent == NothingLost /\ OneProfile
================================================================================
