------------------------- MODULE DocumentViews_proofs --------------------------
(***************************************************************************)
(* What people are shown of documents is what there was, for any number of *)
(* documents, uploads under way and callers, and pages of any size.        *)
(***************************************************************************)
EXTENDS DocumentViews, FiniteSetTheorems, TLAPS

Jobs == [document : Ids, tenant : STRING, status : {"queued", "settled", "deleted"}]

Visibilities == {"private", "tenant", "shared"}
Scopes == {"tenant", "global"}
Access == [visibility : Visibilities, scope : Scopes]

\* The version of a document from before versions were kept.
FromBefore(d, n) == d \in StockIds /\ ~Stock[d].versioned /\ n = 1

Tables ==
    /\ documents \in [Ids -> Rows \cup {Unused, Deleted}]
    /\ queue \in Seq(Jobs)
    /\ writes \in 0..MaxWrites
    /\ contents \in [Ids -> Seq(STRING \ {Missing})]
    /\ had \in [Ids -> SUBSET Access]

\* The versions of a document have the contents it had, each as long as the document
\* is there, and its row names the last of them.
Versions ==
    /\ \A d \in Ids : documents[d].state = "unused" => contents[d] = <<>>
    /\ \A d \in Ids : documents[d].state = "present" =>
         /\ Len(contents[d]) = documents[d].version
         /\ contents[d][documents[d].version] = documents[d].sha
    /\ \A v \in history : /\ v.document \in Ids /\ v.version \in DOMAIN contents[v.document]
                          /\ v.sha = contents[v.document][v.version]
    /\ \A d \in Ids : documents[d].state = "present" =>
         \A n \in DOMAIN contents[d] :
             FromBefore(d, n) \/ \E v \in history : v.document = d /\ v.version = n

\* The accesses a document had at its version have the one it has.
Had ==
    \A d \in Ids : documents[d].state = "present" =>
        /\ \E access \in had[d] : access.visibility = documents[d].visibility
        /\ \E access \in had[d] : access.scope = documents[d].scope

\* What an upload may have found, and that it found it.
Finds ==
    {NoUpload}
    \cup [at : {"create"}, upload : Uploads, access : Access]
    \cup [at : {"access"}, upload : Uploads, document : Ids, access : Access]
    \cup [at : {"update"}, upload : Uploads, document : Ids, access : Access, version : Nat]

Held(found) ==
    /\ found.at \in {"update", "access"} => documents[found.document].state # "unused"
    /\ found.at = "update" /\ documents[found.document].state = "present" =>
         found.version <= documents[found.document].version

Uploading == request \in [Requests -> Finds] /\ \A r \in Requests : Held(request[r])

Listings ==
    [at : {"listing", "listed"}, who : Callers, limit : Nat \ {0}, offset : Nat, seen : Seq(SUBSET Ids),
     steady : SUBSET Ids, left : BOOLEAN, joined : BOOLEAN]

\* So far: what stayed was seen or is still ahead, and what was seen is newer than
\* what is ahead; ahead are the documents that have as many before them as were read.
Listing ==
    /\ reader.at \in {"listing", "listed"} => reader \in Listings
    /\ reader.at = "listing" =>
         /\ reader.steady \subseteq Visible(reader.who)
         /\ ~reader.left => \A d \in reader.steady :
              \/ \E n \in DOMAIN reader.seen : d \in reader.seen[n]
              \/ Cardinality(Before(reader.who, d)) >= reader.offset
         /\ ~reader.joined =>
              /\ \A m, n \in DOMAIN reader.seen :
                   m < n => \A d \in reader.seen[m], e \in reader.seen[n] : d > e
              /\ \A n \in DOMAIN reader.seen : \A d \in reader.seen[n], e \in Fetchable(reader.who) :
                   Cardinality(Before(reader.who, e)) >= reader.offset => d > e
    /\ ListedWhole

\* What was read of one document: a version it had, and then what was made of it.
OfOne ==
    /\ reader.at \in {"document", "source", "versions"} =>
         reader.document \in Ids /\ documents[reader.document].state # "unused"
    /\ reader.at = "document" =>
         /\ reader.row \in Rows
         /\ reader.row.version \in DOMAIN contents[reader.document]
         /\ reader.row.sha = contents[reader.document][reader.row.version]
    /\ reader.at = "source" =>
         IF reader.sha # Missing
         THEN /\ reader.selected \in DOMAIN contents[reader.document]
              /\ reader.sha = contents[reader.document][reader.selected]
         ELSE \/ documents[reader.document].state = "deleted"
              \/ reader.selected > reader.row.version
              \/ FromBefore(reader.document, reader.selected)
    /\ reader.at = "versions" =>
         /\ \A n \in DOMAIN reader.entries : /\ n \in DOMAIN contents[reader.document]
                                             /\ reader.entries[n].sha = contents[reader.document][n]
         /\ \/ reader.row.version \in DOMAIN reader.entries /\ reader.entries[reader.row.version].current
            \/ documents[reader.document].state = "deleted"
            \/ FromBefore(reader.document, reader.row.version)

ViewsInv == Tables /\ Versions /\ Had /\ Uploading /\ AccessOfVersion /\ Listing /\ OfOne

(***************************************************************************)
(* Rows, and the order of a list.                                          *)
(***************************************************************************)
LEMMA IdsAre == Ids \subseteq Nat /\ IsFiniteSet(Ids)
  BY FS_Interval, DocumentViewsAssumption DEF Ids

LEMMA RowIsThere ==
  ASSUME Tables, NEW d \in Ids
  PROVE  /\ documents[d].state = "present" <=> documents[d] \in Rows
         /\ documents[d].state = "unused" <=> documents[d] = Unused
         /\ documents[d].state = "deleted" <=> documents[d] = Deleted
         /\ documents[d].state \in {"present", "unused", "deleted"}
  BY DEF Tables, Rows, Unused, Deleted

LEMMA RowHas ==
  ASSUME NEW row \in Rows
  PROVE  /\ row.state = "present" /\ row.tenant \in STRING /\ row.owner \in STRING /\ row.name \in STRING
         /\ row.sha \in STRING \ {Missing} /\ row.visibility \in Visibilities /\ row.scope \in Scopes
         /\ row.version \in Nat /\ row.version >= 1
  BY DEF Rows, Visibilities, Scopes

LEMMA FetchableAre == \A p : Fetchable(p) \subseteq Ids /\ Visible(p) \subseteq Fetchable(p)
  BY DEF Fetchable, FetchableIn, Visible, VisibleIn, PresentIn

\* Of the documents of a list those before one of them are fewer than all, ...
LEMMA RankInList ==
  ASSUME NEW S \in SUBSET Ids, NEW d \in S
  PROVE  Cardinality({e \in S : e > d}) \in Nat /\ Cardinality({e \in S : e > d}) < Cardinality(S)
<1>1. IsFiniteSet(S)
  BY IdsAre, FS_Subset
<1>2. {e \in S : e > d} \in SUBSET S /\ {e \in S : e > d} # S
  BY IdsAre
<1> QED
  BY <1>1, <1>2, FS_Subset, FS_CardinalityType

\* ... are no fewer when documents join the list, ...
LEMMA RankGrows ==
  ASSUME NEW T \in SUBSET Ids, NEW S \in SUBSET T, NEW d \in Ids
  PROVE  /\ Cardinality({e \in S : e > d}) \in Nat /\ Cardinality({e \in T : e > d}) \in Nat
         /\ Cardinality({e \in S : e > d}) <= Cardinality({e \in T : e > d})
<1>1. IsFiniteSet({e \in T : e > d})
  BY IdsAre, FS_Subset
<1>2. {e \in S : e > d} \in SUBSET {e \in T : e > d}
  OBVIOUS
<1> QED
  BY <1>1, <1>2, FS_Subset, FS_CardinalityType

\* ... and tell which of two is the newer.
LEMMA RankTells ==
  ASSUME NEW S \in SUBSET Ids, NEW d \in Ids, NEW e \in Ids,
         Cardinality({f \in S : f > d}) < Cardinality({f \in S : f > e})
  PROVE  d > e
<1> SUFFICES ASSUME d <= e PROVE FALSE
  BY IdsAre
<1>1. {f \in S : f > e} \in SUBSET {f \in S : f > d}
  <2>1. d \in Nat /\ e \in Nat /\ \A f \in S : f \in Nat
    BY IdsAre
  <2>2. \A f \in S : f > e => f > d
    BY <2>1
  <2> QED
    BY <2>2
<1>2. IsFiniteSet({f \in S : f > d})
  BY IdsAre, FS_Subset
<1>3. /\ Cardinality({f \in S : f > e}) <= Cardinality({f \in S : f > d})
      /\ Cardinality({f \in S : f > e}) \in Nat /\ Cardinality({f \in S : f > d}) \in Nat
  BY <1>1, <1>2, FS_Subset, FS_CardinalityType
<1> QED
  BY <1>3

\* The content of a version, where a document has one more.
LEMMA Appended ==
  ASSUME NEW S, NEW s \in Seq(S), NEW x \in S
  PROVE  /\ Append(s, x) \in Seq(S) /\ Len(Append(s, x)) = Len(s) + 1 /\ Len(s) \in Nat
         /\ Append(s, x)[Len(s) + 1] = x
         /\ \A n \in DOMAIN s : n \in DOMAIN Append(s, x) /\ Append(s, x)[n] = s[n]
         /\ \A n \in DOMAIN Append(s, x) : n \in DOMAIN s \/ n = Len(s) + 1
         /\ DOMAIN s = 1..Len(s)
  OBVIOUS

LEMMA FieldsOfFound ==
  ASSUME Uploading, NEW r \in Requests
  PROVE  /\ request[r].at \in {"idle", "create", "update", "access"}
         /\ request[r].at = "idle" <=> request[r] = NoUpload
         /\ request[r].at # "idle" => request[r].upload \in Uploads /\ request[r].access \in Access
         /\ request[r].at \in {"update", "access"} => request[r].document \in Ids
         /\ request[r].at = "update" => request[r].version \in Nat
<1>1. request[r] \in Finds
  BY DEF Uploading
<1> QED
  BY <1>1 DEF Finds, NoUpload

LEMMA UploadIs ==
  ASSUME NEW u \in Uploads PROVE u.sha \in STRING \ {Missing} /\ u.name \in STRING /\ u.by.tenant \in STRING /\ u.by.user \in STRING
  BY DocumentViewsAssumption

(***************************************************************************)
(* What changes of documents leave of the rest.                            *)
(***************************************************************************)
\* A document goes on: from unused to present to deleted, from version to version.
Onwards ==
    \A d \in Ids : documents[d].state # "unused" =>
        /\ documents'[d].state # "unused"
        /\ documents'[d].state = "present" =>
             /\ documents[d].state = "present"
             /\ documents'[d].version >= documents[d].version
             /\ documents'[d].version = documents[d].version => had[d] \subseteq had'[d]
        /\ \A n \in DOMAIN contents[d] : n \in DOMAIN contents'[d] /\ contents'[d][n] = contents[d][n]

LEMMA WatchedIs ==
  ASSUME Listing, reader' = Watched(documents')
  PROVE  /\ reader.at # "listing" => reader' = reader
         /\ reader.at = "listing" =>
              /\ reader'.at = "listing" /\ reader'.who = reader.who /\ reader'.seen = reader.seen
              /\ reader'.offset = reader.offset
              /\ reader'.steady = reader.steady \cap VisibleIn(documents', reader.who)
              /\ reader'.left = (reader.left \/ ~(Fetchable(reader.who) \subseteq FetchableIn(documents', reader.who)))
              /\ reader'.joined = (reader.joined \/ ~(FetchableIn(documents', reader.who) \subseteq Fetchable(reader.who)))
              /\ reader' \in Listings
<1>1. CASE reader.at # "listing"
  BY <1>1 DEF Watched
<1>2. CASE reader.at = "listing"
  <2> DEFINE steady == reader.steady \cap VisibleIn(documents', reader.who)
             left   == reader.left \/ ~(Fetchable(reader.who) \subseteq FetchableIn(documents', reader.who))
             joined == reader.joined \/ ~(FetchableIn(documents', reader.who) \subseteq Fetchable(reader.who))
  <2>1. reader \in Listings
    BY <1>2 DEF Listing
  <2>2. steady \in SUBSET Ids /\ left \in BOOLEAN /\ joined \in BOOLEAN
    BY <2>1 DEF Listings
  <2>3. reader' = [reader EXCEPT !.steady = steady, !.left = left, !.joined = joined]
    BY <1>2 DEF Watched
  <2> HIDE DEF steady, left, joined
  <2>4. /\ reader'.at = reader.at /\ reader'.who = reader.who /\ reader'.seen = reader.seen
        /\ reader'.offset = reader.offset
        /\ reader'.steady = steady /\ reader'.left = left /\ reader'.joined = joined
    BY <2>1, <2>3 DEF Listings
  <2>5. reader' \in Listings
    BY <2>1, <2>2, <2>3 DEF Listings
  <2> QED
    BY <1>2, <2>4, <2>5 DEF steady, left, joined
<1> QED
  BY <1>1, <1>2

\* A list goes on, whatever is changed between its pages.
LEMMA ListGoesOn ==
  ASSUME Listing, reader' = Watched(documents')
  PROVE  Listing'
<1>1. CASE reader.at # "listing"
  <2>1. reader' = reader
    BY <1>1, WatchedIs
  <2> QED
    BY <1>1, <2>1 DEF Listing, ListedWhole
<1>2. CASE reader.at = "listing"
  <2>1. PICK p : p = reader.who
    OBVIOUS
  <2>2. PICK S : S = Fetchable(p)
    OBVIOUS
  <2>3. PICK T : T = FetchableIn(documents', p)
    OBVIOUS
  <2>4. S \in SUBSET Ids /\ T \in SUBSET Ids /\ VisibleIn(documents', p) \subseteq T
    BY <2>2, <2>3, FetchableAre DEF FetchableIn, VisibleIn, PresentIn
  <2>5. /\ reader'.at = "listing" /\ reader'.who = p /\ reader'.seen = reader.seen
        /\ reader'.offset = reader.offset
        /\ reader'.steady = reader.steady \cap VisibleIn(documents', p)
        /\ ~reader'.left => ~reader.left /\ S \subseteq T
        /\ ~reader'.joined => ~reader.joined /\ T \subseteq S
        /\ reader' \in Listings
    BY <1>2, <2>1, <2>2, <2>3, WatchedIs
  <2>6. /\ Fetchable(p)' = T /\ Visible(p)' = VisibleIn(documents', p)
        /\ \A d : Before(p, d) = {e \in S : e > d}
        /\ \A d : Before(p, d)' = {e \in T : e > d}
    BY <2>2, <2>3 DEF Fetchable, Visible, Before
  <2>7. /\ reader.steady \subseteq Ids /\ reader.offset \in Nat
        /\ \A n \in DOMAIN reader.seen : reader.seen[n] \subseteq Ids
    BY <1>2 DEF Listing, Listings
  <2>8. ASSUME ~reader'.left, NEW d \in reader'.steady
        PROVE  \/ \E n \in DOMAIN reader'.seen : d \in reader'.seen[n]
               \/ Cardinality(Before(p, d)') >= reader'.offset
    <3>1. ~reader.left /\ S \in SUBSET T /\ d \in reader.steady /\ d \in Ids
      BY <2>5, <2>7, <2>8
    <3>2. \/ \E n \in DOMAIN reader.seen : d \in reader.seen[n]
          \/ Cardinality({e \in S : e > d}) >= reader.offset
      BY <1>2, <2>1, <2>6, <3>1 DEF Listing
    <3>3. /\ Cardinality({e \in S : e > d}) \in Nat /\ Cardinality({e \in T : e > d}) \in Nat
          /\ Cardinality({e \in S : e > d}) <= Cardinality({e \in T : e > d})
      BY <2>4, <3>1, RankGrows
    <3>4. Cardinality(Before(p, d)') = Cardinality({e \in T : e > d})
      BY <2>6, Zenon
    <3>5. CASE \E n \in DOMAIN reader.seen : d \in reader.seen[n]
      BY <2>5, <3>5
    <3>6. CASE Cardinality({e \in S : e > d}) >= reader.offset
      BY <2>5, <2>7, <3>3, <3>4, <3>6
    <3> QED
      BY <3>2, <3>5, <3>6
  <2>9. ASSUME ~reader'.joined, NEW n \in DOMAIN reader'.seen, NEW d \in reader'.seen[n], NEW e \in T,
               Cardinality(Before(p, e)') >= reader'.offset
        PROVE  d > e
    <3>1. ~reader.joined /\ T \in SUBSET S /\ e \in S /\ e \in Ids
      BY <2>4, <2>5, <2>9
    <3>2. /\ Cardinality({f \in S : f > e}) \in Nat /\ Cardinality({f \in T : f > e}) \in Nat
          /\ Cardinality({f \in T : f > e}) <= Cardinality({f \in S : f > e})
      BY <2>4, <3>1, RankGrows
    <3>3. Cardinality({f \in S : f > e}) >= reader.offset
      <4>1. Cardinality(Before(p, e)') = Cardinality({f \in T : f > e})
        BY <2>6, Zenon
      <4> QED
        BY <2>5, <2>7, <2>9, <3>2, <4>1
    <3> QED
      BY <1>2, <2>1, <2>2, <2>5, <2>6, <2>9, <3>1, <3>3 DEF Listing
  <2>10. ~reader'.joined => \A m, n \in DOMAIN reader'.seen :
           m < n => \A d \in reader'.seen[m], e \in reader'.seen[n] : d > e
    BY <1>2, <2>5 DEF Listing
  <2>11. reader'.steady \subseteq Visible(p)'
    BY <2>5, <2>6
  <2> HIDE <2>1
  <2> QED
    BY <2>5, <2>6, <2>8, <2>9, <2>10, <2>11 DEF Listing, ListedWhole
<1> QED
  BY <1>1, <1>2

LEMMA OfOneGoesOn ==
  ASSUME OfOne, Onwards, Tables, Tables', Listing, reader' = Watched(documents')
  PROVE  OfOne'
<1>1. reader.at = "listing" => reader'.at = "listing"
  BY WatchedIs
<1>2. SUFFICES ASSUME reader' = reader, reader.at \in {"document", "source", "versions"} PROVE OfOne'
  BY <1>1, WatchedIs DEF OfOne
<1>3. PICK d \in Ids : d = reader.document /\ documents[d].state # "unused"
  BY <1>2 DEF OfOne
<1>4. /\ documents'[d].state # "unused"
      /\ documents[d].state = "deleted" => documents'[d].state = "deleted"
      /\ \A n \in DOMAIN contents[d] : n \in DOMAIN contents'[d] /\ contents'[d][n] = contents[d][n]
  <2>1. documents[d].state \in {"present", "unused", "deleted"}
    BY RowIsThere
  <2>2. documents'[d] \in Rows \cup {Unused, Deleted}
    BY DEF Tables
  <2>3. documents'[d].state \in {"present", "unused", "deleted"}
    BY <2>2 DEF Rows, Unused, Deleted
  <2> QED
    BY <1>3, <2>1, <2>3 DEF Onwards
<1>5. CASE reader.at = "document"
  BY <1>2, <1>3, <1>4, <1>5 DEF OfOne
<1>6. CASE reader.at = "source"
  BY <1>2, <1>3, <1>4, <1>6 DEF OfOne, FromBefore
<1>7. CASE reader.at = "versions"
  BY <1>2, <1>3, <1>4, <1>7 DEF OfOne, FromBefore
<1> QED
  BY <1>2, <1>5, <1>6, <1>7

\* An upload under way goes on, unless it is the one that ends.
LEMMA UploadsGoOn ==
  ASSUME Tables, Tables', Uploading, AccessOfVersion, Onwards,
         UNCHANGED request \/ \E r \in Requests : Answered(r)
  PROVE  Uploading' /\ AccessOfVersion'
<1>1. \A r \in Requests : request'[r] = request[r] \/ request'[r] = NoUpload
  BY DEF Answered, Uploading
<1>2. request' \in [Requests -> Finds]
  BY DEF Answered, Uploading, Finds
<1>3. NoUpload.at = "idle"
  BY DEF NoUpload
<1>4. SUFFICES ASSUME NEW r \in Requests, request'[r] = request[r], request[r].at \in {"update", "access"}
               PROVE  /\ Held(request[r])'
                      /\ request[r].at = "update" /\ documents'[request[r].document].state = "present"
                           /\ documents'[request[r].document].version = request[r].version =>
                           /\ request[r].upload.visibility = Omitted =>
                                \E access \in had'[request[r].document] :
                                    access.visibility = request[r].access.visibility
                           /\ request[r].upload.scope = Omitted =>
                                \E access \in had'[request[r].document] : access.scope = request[r].access.scope
  <2>1. \A r \in Requests : request'[r].at \in {"idle", "create", "update", "access"}
    BY <1>1, <1>3, FieldsOfFound
  <2> QED
    BY <1>1, <1>2, <1>3, <2>1, <1>4 DEF Uploading, AccessOfVersion, Held
<1>5. PICK found : found = request[r]
  OBVIOUS
<1>6. PICK d \in Ids : d = found.document
  BY <1>4, <1>5, FieldsOfFound
<1>7. documents[d].state # "unused" /\ documents'[d].state # "unused"
  BY <1>4, <1>5, <1>6 DEF Uploading, Held, Onwards
<1>8. ASSUME found.at = "update", documents'[d].state = "present"
      PROVE  /\ documents[d].state = "present"
             /\ documents[d].version \in Nat /\ documents'[d].version \in Nat /\ found.version \in Nat
             /\ found.version <= documents[d].version /\ documents'[d].version >= documents[d].version
             /\ documents'[d].version = documents[d].version => had[d] \subseteq had'[d]
  <2>1. /\ documents[d].state = "present" /\ documents'[d].version >= documents[d].version
        /\ documents'[d].version = documents[d].version => had[d] \subseteq had'[d]
    BY <1>7, <1>8 DEF Onwards
  <2>2. documents[d].version \in Nat
    BY <2>1, RowIsThere, RowHas
  <2>3. documents'[d].version \in Nat
    <3>1. documents'[d] \in Rows \cup {Unused, Deleted}
      BY DEF Tables
    <3> QED
      BY <1>8, <3>1 DEF Rows, Unused, Deleted
  <2>4. found.version \in Nat /\ found.version <= documents[d].version
    BY <1>4, <1>5, <1>6, <1>8, <2>1, FieldsOfFound DEF Uploading, Held
  <2> QED
    BY <2>1, <2>2, <2>3, <2>4
<1>9. Held(request[r])'
  <2>1. found.at = "update" /\ documents'[d].state = "present" => found.version <= documents'[d].version
    BY <1>8
  <2> QED
    BY <1>4, <1>5, <1>6, <1>7, <2>1 DEF Held
<1>10. ASSUME found.at = "update", documents'[d].state = "present", documents'[d].version = found.version
       PROVE  /\ found.upload.visibility = Omitted =>
                   \E access \in had'[d] : access.visibility = found.access.visibility
              /\ found.upload.scope = Omitted => \E access \in had'[d] : access.scope = found.access.scope
  <2>1. documents[d].version = found.version /\ documents[d].state = "present" /\ had[d] \subseteq had'[d]
    BY <1>8, <1>10
  <2>2. /\ found.upload.visibility = Omitted =>
             \E access \in had[d] : access.visibility = found.access.visibility
        /\ found.upload.scope = Omitted => \E access \in had[d] : access.scope = found.access.scope
    BY <1>5, <1>6, <1>10, <2>1 DEF AccessOfVersion
  <2> QED
    BY <2>1, <2>2
<1> QED
  BY <1>5, <1>6, <1>9, <1>10

(***************************************************************************)
(* The steps.                                                              *)
(***************************************************************************)
\* What every change of documents has to show.
LEMMA ChangeInv ==
  ASSUME ViewsInv, Tables', Versions', Had', Onwards, reader' = Watched(documents'),
         UNCHANGED request \/ \E r \in Requests : Answered(r)
  PROVE  ViewsInv'
<1>1. Uploading' /\ AccessOfVersion'
  BY UploadsGoOn DEF ViewsInv
<1>2. Listing' /\ OfOne'
  BY ListGoesOn, OfOneGoesOn DEF ViewsInv
<1> QED
  BY <1>1, <1>2 DEF ViewsInv

LEMMA ViewsInitInv == ViewsInit => ViewsInv
<1> SUFFICES ASSUME ViewsInit PROVE ViewsInv
  OBVIOUS
<1>1. StockIds \subseteq Ids /\ \A d \in StockIds : Stock[d].row \in Rows /\ Stock[d].row.version = 1
  BY DocumentViewsAssumption DEF StockIds, Ids
<1>2. \A d \in Ids : /\ d \in StockIds => documents[d] = Stock[d].row /\ contents[d] = <<Stock[d].row.sha>>
                                          /\ had[d] = {Accesses(Stock[d].row)}
                     /\ d \notin StockIds => documents[d] = Unused /\ contents[d] = <<>> /\ had[d] = {}
  BY DEF ViewsInit
<1>3. \A d \in Ids : /\ d \in StockIds => documents[d].state = "present" /\ documents[d].version = 1
                     /\ d \notin StockIds => documents[d].state = "unused"
  BY <1>1, <1>2, RowHas DEF Unused
<1>4. \A d \in StockIds : Accesses(Stock[d].row) \in Access /\ Accesses(Stock[d].row).visibility = Stock[d].row.visibility
                          /\ Accesses(Stock[d].row).scope = Stock[d].row.scope
  BY <1>1, RowHas DEF Accesses, Access
<1>5. Tables
  <2>1. documents \in [Ids -> Rows \cup {Unused, Deleted}]
    BY <1>1 DEF ViewsInit
  <2>2. contents \in [Ids -> Seq(STRING \ {Missing})]
    <3>1. \A d \in StockIds : <<Stock[d].row.sha>> \in Seq(STRING \ {Missing})
      BY <1>1, RowHas
    <3>2. <<>> \in Seq(STRING \ {Missing})
      OBVIOUS
    <3> QED
      BY <1>1, <3>1, <3>2 DEF ViewsInit
  <2>3. had \in [Ids -> SUBSET Access]
    BY <1>1, <1>4 DEF ViewsInit
  <2>4. queue \in Seq(Jobs) /\ writes \in 0..MaxWrites
    BY DocumentViewsAssumption DEF ViewsInit
  <2> QED
    BY <2>1, <2>2, <2>3, <2>4 DEF Tables
<1>6. Versions
  <2>1. \A d \in StockIds : /\ Len(contents[d]) = 1 /\ contents[d][1] = documents[d].sha /\ DOMAIN contents[d] = {1}
    <3>1. \A x : Len(<<x>>) = 1 /\ <<x>>[1] = x /\ DOMAIN <<x>> = {1}
      OBVIOUS
    <3>2. \A d \in StockIds : contents[d] = <<documents[d].sha>>
      BY <1>1, <1>2
    <3> QED
      BY <3>1, <3>2
  <2>2. \A v \in history : /\ v.document \in StockIds /\ v.version = 1 /\ v.sha = Stock[v.document].row.sha
    BY <1>1 DEF ViewsInit, StockVersions
  <2>3. \A d \in StockIds : Stock[d].versioned => \E v \in history : v.document = d /\ v.version = 1
    <3> TAKE d \in StockIds
    <3> HAVE Stock[d].versioned
    <3> DEFINE v == [document |-> d, version |-> Stock[d].row.version, sha |-> Stock[d].row.sha,
                     by |-> Stock[d].row.owner, job |-> 0]
    <3>1. v \in history
      BY DEF ViewsInit, StockVersions
    <3> QED
      BY <1>1, <3>1
  <2>4. \A d \in Ids : documents[d].state = "present" => /\ Len(contents[d]) = documents[d].version
                                                         /\ contents[d][documents[d].version] = documents[d].sha
    BY <1>3, <2>1
  <2>5. \A d \in Ids : documents[d].state = "unused" => contents[d] = <<>>
    BY <1>2, <1>3
  <2>6. \A v \in history : /\ v.document \in Ids /\ v.version \in DOMAIN contents[v.document]
                           /\ v.sha = contents[v.document][v.version]
    BY <1>1, <1>2, <2>1, <2>2
  <2>7. \A d \in Ids : documents[d].state = "present" =>
          \A n \in DOMAIN contents[d] : FromBefore(d, n) \/ \E v \in history : v.document = d /\ v.version = n
    BY <1>3, <2>1, <2>3 DEF FromBefore
  <2> QED
    BY <2>4, <2>5, <2>6, <2>7 DEF Versions
<1>7. Had
  BY <1>2, <1>3, <1>4 DEF Had
<1>8. Uploading /\ AccessOfVersion
  BY DEF ViewsInit, Uploading, AccessOfVersion, Finds, Held, NoUpload
<1>9. Listing /\ OfOne
  BY DEF ViewsInit, Listing, ListedWhole, OfOne
<1> QED
  BY <1>5, <1>6, <1>7, <1>8, <1>9 DEF ViewsInv

\* A new document.
LEMMA CommitNewInv ==
  ASSUME ViewsInv, NEW r \in Requests, CommitNew(r) PROVE ViewsInv'
<1> Tables /\ Versions /\ Had /\ Uploading /\ AccessOfVersion /\ Listing /\ OfOne
  BY DEF ViewsInv
<1>1. PICK u : u = request[r].upload
  OBVIOUS
<1>2. PICK access : access = request[r].access
  OBVIOUS
<1>3. u \in Uploads /\ access \in Access /\ access.visibility \in Visibilities /\ access.scope \in Scopes
  BY <1>1, <1>2, FieldsOfFound DEF CommitNew, Access
<1> DEFINE row == [state |-> "present", tenant |-> u.by.tenant, owner |-> u.by.user, sha |-> u.sha,
                   name |-> u.name, visibility |-> access.visibility, acl |-> {},
                   scope |-> access.scope, version |-> 1, touched |-> writes]
           first(d) == VersionOf(d, 1, u)
<1>4. PICK d \in Ids :
        /\ documents[d] = Unused
        /\ documents' = [documents EXCEPT ![d] = row]
        /\ reader' = Watched(documents')
        /\ history' = history \cup {first(d)}
        /\ queue' = NewJob(d, u.by.tenant)
        /\ contents' = [contents EXCEPT ![d] = <<u.sha>>]
        /\ had' = [had EXCEPT ![d] = {access}]
  BY <1>1, <1>2 DEF CommitNew, Changes
<1>5. UNCHANGED writes /\ Answered(r)
  BY DEF CommitNew
<1>6. /\ row \in Rows /\ row.state = "present" /\ row.version = 1 /\ row.sha = u.sha
      /\ row.visibility = access.visibility /\ row.scope = access.scope
  BY <1>3, UploadIs DEF Rows, Visibilities, Scopes, Tables
<1>7. first(d).document = d /\ first(d).version = 1 /\ first(d).sha = u.sha
  BY DEF VersionOf
<1> HIDE DEF row, first
<1>8. /\ documents' \in [Ids -> Rows \cup {Unused, Deleted}] /\ documents'[d] = row
      /\ \A e \in Ids : e # d => documents'[e] = documents[e]
  BY <1>4, <1>6 DEF Tables
<1>9. /\ contents' \in [Ids -> Seq(STRING \ {Missing})] /\ contents'[d] = <<u.sha>>
      /\ \A e \in Ids : e # d => contents'[e] = contents[e]
  <2>1. <<u.sha>> \in Seq(STRING \ {Missing})
    BY <1>3, UploadIs
  <2> QED
    BY <1>4, <2>1 DEF Tables
<1>10. /\ had' \in [Ids -> SUBSET Access] /\ had'[d] = {access}
       /\ \A e \in Ids : e # d => had'[e] = had[e]
  BY <1>3, <1>4 DEF Tables
<1>11. Tables'
  <2>1. queue' \in Seq(Jobs)
    BY <1>3, <1>4, UploadIs DEF NewJob, Jobs, Tables
  <2> QED
    BY <1>5, <1>8, <1>9, <1>10, <2>1 DEF Tables
<1>12. documents[d].state = "unused" /\ contents[d] = <<>> /\ \A v \in history : v.document # d
  BY <1>4 DEF Versions, Unused
<1>13. Versions'
  <2>1. Len(contents'[d]) = 1 /\ contents'[d][1] = u.sha /\ DOMAIN contents'[d] = {1}
    BY <1>9
  <2>2. \A e \in Ids : documents'[e].state = "present" => /\ Len(contents'[e]) = documents'[e].version
                                                          /\ contents'[e][documents'[e].version] = documents'[e].sha
    <3> TAKE e \in Ids
    <3>1. CASE e = d
      BY <1>6, <1>8, <2>1, <3>1
    <3>2. CASE e # d
      <4>1. documents'[e] = documents[e] /\ contents'[e] = contents[e]
        BY <1>8, <1>9, <3>2
      <4> QED
        BY <4>1 DEF Versions
    <3> QED
      BY <3>1, <3>2
  <2>3. \A e \in Ids : documents'[e].state = "unused" => contents'[e] = <<>>
    BY <1>6, <1>8, <1>9, SMTT(30) DEF Versions
  <2>4. \A v \in history' : /\ v.document \in Ids /\ v.version \in DOMAIN contents'[v.document]
                            /\ v.sha = contents'[v.document][v.version]
    BY <1>4, <1>7, <1>9, <1>12, <2>1 DEF Versions
  <2>5. \A e \in Ids : documents'[e].state = "present" =>
          \A n \in DOMAIN contents'[e] : FromBefore(e, n) \/ \E v \in history' : v.document = e /\ v.version = n
    BY <1>4, <1>7, <1>8, <1>9, <2>1 DEF Versions
  <2> QED
    BY <2>2, <2>3, <2>4, <2>5 DEF Versions, FromBefore
<1>14. Had'
  BY <1>6, <1>8, <1>10 DEF Had
<1>15. Onwards
  <2> SUFFICES ASSUME NEW e \in Ids, documents[e].state # "unused"
               PROVE  documents'[e] = documents[e] /\ had'[e] = had[e] /\ contents'[e] = contents[e]
    <3>1. \A e \in Ids : documents[e].state = "present" => documents[e].version \in Nat
      BY RowIsThere, RowHas
    <3> QED
      BY <3>1 DEF Onwards
  <2> QED
    BY <1>8, <1>9, <1>10, <1>12
<1> QED
  BY <1>4, <1>5, <1>11, <1>13, <1>14, <1>15, ChangeInv

\* A document at its next version.
LEMMA CommitVersionInv ==
  ASSUME ViewsInv, NEW r \in Requests, CommitVersion(r) PROVE ViewsInv'
<1> Tables /\ Versions /\ Had /\ Uploading /\ AccessOfVersion /\ Listing /\ OfOne
  BY DEF ViewsInv
<1>1. PICK u : u = request[r].upload
  OBVIOUS
<1>2. PICK access : access = request[r].access
  OBVIOUS
<1>3. PICK d \in Ids : d = request[r].document
  BY FieldsOfFound DEF CommitVersion
<1>4. u \in Uploads /\ access \in Access /\ access.visibility \in Visibilities /\ access.scope \in Scopes
  BY <1>1, <1>2, FieldsOfFound DEF CommitVersion, Access
<1> DEFINE last == documents[d].version
           next == VersionOf(d, last + 1, u)
<1>5. /\ documents[d] \in Rows /\ documents[d].state = "present" /\ last \in Nat /\ last >= 1
      /\ documents[d].tenant \in STRING
  <2>1. documents[d].state = "present"
    BY <1>3 DEF CommitVersion, Owned, PresentIn
  <2> QED
    BY <2>1, RowIsThere, RowHas
<1>6. /\ documents' = [documents EXCEPT ![d] =
                [documents[d] EXCEPT !.sha = u.sha, !.name = u.name, !.visibility = access.visibility,
                                     !.scope = access.scope, !.version = last + 1, !.touched = writes]]
      /\ reader' = Watched(documents')
      /\ history' = history \cup {next}
      /\ queue' = NewJob(d, documents[d].tenant)
      /\ contents' = [contents EXCEPT ![d] = Append(@, u.sha)]
      /\ had' = [had EXCEPT ![d] = {access}]
      /\ UNCHANGED writes /\ Answered(r)
  BY <1>1, <1>2, <1>3 DEF CommitVersion, Changes
<1>7. next.document = d /\ next.version = last + 1 /\ next.sha = u.sha
  BY DEF VersionOf
<1>8. /\ documents' \in [Ids -> Rows \cup {Unused, Deleted}]
      /\ \A e \in Ids : e # d => documents'[e] = documents[e]
      /\ documents'[d] \in Rows /\ documents'[d].state = "present"
      /\ documents'[d].sha = u.sha /\ documents'[d].visibility = access.visibility
      /\ documents'[d].scope = access.scope /\ documents'[d].version = last + 1
  <2> DEFINE row == [documents[d] EXCEPT !.sha = u.sha, !.name = u.name, !.visibility = access.visibility,
                                         !.scope = access.scope, !.version = last + 1, !.touched = writes]
  <2>1. u.sha \in STRING \ {Missing} /\ u.name \in STRING /\ last + 1 \in Nat \ {0} /\ writes \in Nat
    BY <1>4, <1>5, UploadIs, DocumentViewsAssumption DEF Tables
  <2> HIDE DEF last
  <2>2. /\ row.state = "present" /\ row.sha = u.sha /\ row.visibility = access.visibility
        /\ row.scope = access.scope /\ row.version = last + 1
    BY <1>5 DEF Rows
  <2>3. row \in Rows
    BY <1>4, <1>5, <2>1 DEF Rows, Visibilities, Scopes
  <2>4. documents' = [documents EXCEPT ![d] = row]
    BY <1>6
  <2> HIDE DEF row
  <2>5. documents'[d] = row /\ \A e \in Ids : e # d => documents'[e] = documents[e]
    BY <2>4 DEF Tables
  <2> QED
    BY <2>2, <2>3, <2>4, <2>5 DEF Tables
<1> HIDE DEF last, next
<1>9. /\ contents' \in [Ids -> Seq(STRING \ {Missing})] /\ contents'[d] = Append(contents[d], u.sha)
      /\ \A e \in Ids : e # d => contents'[e] = contents[e]
  <2>1. Append(contents[d], u.sha) \in Seq(STRING \ {Missing})
    BY <1>4, UploadIs DEF Tables
  <2> QED
    BY <1>6, <2>1 DEF Tables
<1>10. /\ had' \in [Ids -> SUBSET Access] /\ had'[d] = {access}
       /\ \A e \in Ids : e # d => had'[e] = had[e]
  BY <1>4, <1>6 DEF Tables
<1>11. Tables'
  <2>1. queue' \in Seq(Jobs)
    BY <1>5, <1>6 DEF NewJob, Jobs, Tables
  <2> QED
    BY <1>6, <1>8, <1>9, <1>10, <2>1 DEF Tables
<1>12. /\ contents[d] \in Seq(STRING \ {Missing}) /\ Len(contents[d]) = last
  BY <1>5 DEF Versions, Tables, last
<1>13. /\ Len(contents'[d]) = last + 1 /\ contents'[d][last + 1] = u.sha
       /\ \A n \in DOMAIN contents[d] : n \in DOMAIN contents'[d] /\ contents'[d][n] = contents[d][n]
       /\ \A n \in DOMAIN contents'[d] : n \in DOMAIN contents[d] \/ n = last + 1
       /\ last + 1 \in DOMAIN contents'[d]
  <2>1. u.sha \in STRING \ {Missing}
    BY <1>4, UploadIs
  <2>2. last + 1 \in 1..(last + 1)
    BY <1>5 DEF last
  <2> QED
    BY <1>9, <1>12, <2>1, <2>2, Appended
<1>14. Versions'
  <2>1. \A e \in Ids : documents'[e].state = "present" => /\ Len(contents'[e]) = documents'[e].version
                                                          /\ contents'[e][documents'[e].version] = documents'[e].sha
    <3> TAKE e \in Ids
    <3>1. CASE e = d
      BY <1>8, <1>13, <3>1
    <3>2. CASE e # d
      <4>1. documents'[e] = documents[e] /\ contents'[e] = contents[e]
        BY <1>8, <1>9, <3>2
      <4> QED
        BY <4>1 DEF Versions
    <3> QED
      BY <3>1, <3>2
  <2>2. \A e \in Ids : documents'[e].state = "unused" => contents'[e] = <<>>
    BY <1>8, <1>9, SMTT(30) DEF Versions
  <2>3. \A v \in history' : /\ v.document \in Ids /\ v.version \in DOMAIN contents'[v.document]
                            /\ v.sha = contents'[v.document][v.version]
    BY <1>6, <1>7, <1>9, <1>13 DEF Versions
  <2>4. \A e \in Ids : documents'[e].state = "present" =>
          \A n \in DOMAIN contents'[e] : FromBefore(e, n) \/ \E v \in history' : v.document = e /\ v.version = n
    <3>1. \A e \in Ids : documents[e].state = "present" =>
            \A n \in DOMAIN contents[e] : FromBefore(e, n) \/ \E v \in history : v.document = e /\ v.version = n
      BY DEF Versions
    <3> TAKE e \in Ids
    <3>2. CASE e = d
      <4>1. \A n \in DOMAIN contents'[d] : n \in DOMAIN contents[d] \/ n = last + 1
        BY <1>13
      <4> QED
        BY <1>5, <1>6, <1>7, <3>1, <3>2, <4>1
    <3>3. CASE e # d
      <4>1. documents'[e] = documents[e] /\ contents'[e] = contents[e]
        BY <1>8, <1>9, <3>3
      <4> QED
        BY <1>6, <3>1, <4>1, ZenonT(30)
    <3> QED
      BY <3>2, <3>3
  <2> QED
    BY <2>1, <2>2, <2>3, <2>4 DEF Versions, FromBefore
<1>15. Had'
  BY <1>8, <1>10 DEF Had
<1>16. Onwards
  <2>1. \A e \in Ids : documents[e].state = "present" => documents[e].version \in Nat
    BY RowIsThere, RowHas
  <2>2. documents'[d].version > documents[d].version
    BY <1>5, <1>8 DEF last
  <2>3. documents[d].version \in Nat /\ documents'[d].version \in Nat
    BY <1>5, <1>8 DEF last
  <2>4. \A e \in Ids : e # d => documents'[e] = documents[e] /\ had'[e] = had[e] /\ contents'[e] = contents[e]
    BY <1>8, <1>9, <1>10
  <2>5. \A n \in DOMAIN contents[d] : n \in DOMAIN contents'[d] /\ contents'[d][n] = contents[d][n]
    BY <1>13
  <2>6. documents'[d].state = "present" /\ documents[d].state = "present"
    BY <1>5, <1>8
  <2> QED
    BY <2>1, <2>2, <2>3, <2>4, <2>5, <2>6 DEF Onwards
<1> QED
  BY <1>6, <1>11, <1>14, <1>15, <1>16, ChangeInv

\* Where only the access of some documents changes: contents and history stay.
LEMMA AccessChangesInv ==
  ASSUME ViewsInv, Tables', NEW changed \in SUBSET Ids, UNCHANGED <<history, contents>>,
         reader' = Watched(documents'),
         UNCHANGED request \/ \E r \in Requests : Answered(r),
         \A d \in Ids \ changed : documents'[d] = documents[d] /\ had'[d] = had[d],
         \A d \in changed :
             /\ documents[d].state = "present" /\ documents'[d].state = "present"
             /\ documents'[d].version = documents[d].version /\ documents'[d].sha = documents[d].sha
             /\ had[d] \subseteq had'[d]
             /\ \E access \in had'[d] : /\ access.visibility = documents'[d].visibility
                                        /\ access.scope = documents'[d].scope
  PROVE  ViewsInv'
<1>1. Tables /\ Versions /\ Had
  BY DEF ViewsInv
<1>2. \A d \in Ids : /\ documents'[d].state = documents[d].state
                     /\ documents[d].state = "present" => /\ documents'[d].version = documents[d].version
                                                          /\ documents'[d].sha = documents[d].sha
                     /\ had[d] \subseteq had'[d]
  OBVIOUS
<1>3. Versions'
  BY <1>1, <1>2 DEF Versions, FromBefore
<1>4. Had'
  BY <1>1 DEF Had
<1>5. Onwards
  <2>1. \A d \in Ids : documents[d].state = "present" => documents[d].version \in Nat
    BY <1>1, RowIsThere, RowHas
  <2> QED
    BY <1>2, <2>1 DEF Onwards
<1> QED
  BY <1>3, <1>4, <1>5, ChangeInv

LEMMA CommitAccessInv ==
  ASSUME ViewsInv, NEW r \in Requests, CommitAccess(r) PROVE ViewsInv'
<1> Tables /\ Uploading
  BY DEF ViewsInv
<1>1. PICK access : access = request[r].access
  OBVIOUS
<1>2. PICK d \in Ids : d = request[r].document
  BY FieldsOfFound DEF CommitAccess
<1>3. access \in Access /\ access.visibility \in Visibilities /\ access.scope \in Scopes
  BY <1>1, FieldsOfFound DEF CommitAccess, Access
<1>4. documents[d].state = "present" /\ documents[d] \in Rows
  <2>1. documents[d].state = "present"
    BY <1>2 DEF CommitAccess, Owned, PresentIn
  <2> QED
    BY <2>1, RowIsThere
<1> DEFINE row == [documents[d] EXCEPT !.visibility = access.visibility, !.scope = access.scope, !.touched = writes]
<1>5. /\ documents' = [documents EXCEPT ![d] = row] /\ reader' = Watched(documents')
      /\ had' = [had EXCEPT ![d] = @ \cup {access}]
      /\ Answered(r) /\ UNCHANGED <<history, queue, writes, contents>>
  BY <1>1, <1>2 DEF CommitAccess, Changes
<1>6. /\ row.state = "present" /\ row.version = documents[d].version /\ row.sha = documents[d].sha
      /\ row.visibility = access.visibility /\ row.scope = access.scope
  BY <1>4 DEF Rows
<1>7. row \in Rows
  <2>1. writes \in Nat
    BY DocumentViewsAssumption DEF Tables
  <2> QED
    BY <1>3, <1>4, <2>1 DEF Rows, Visibilities, Scopes
<1> HIDE DEF row
<1>8. /\ documents'[d] = row /\ documents' \in [Ids -> Rows \cup {Unused, Deleted}]
      /\ \A e \in Ids : e # d => documents'[e] = documents[e]
  BY <1>5, <1>7 DEF Tables
<1>9. /\ had'[d] = had[d] \cup {access} /\ had' \in [Ids -> SUBSET Access]
      /\ \A e \in Ids : e # d => had'[e] = had[e]
  BY <1>3, <1>5 DEF Tables
<1>10. Tables'
  BY <1>5, <1>8, <1>9 DEF Tables
<1>11. \A e \in Ids \ {d} : documents'[e] = documents[e] /\ had'[e] = had[e]
  BY <1>8, <1>9
<1>12. /\ documents[d].state = "present" /\ documents'[d].state = "present"
       /\ documents'[d].version = documents[d].version /\ documents'[d].sha = documents[d].sha
       /\ had[d] \subseteq had'[d]
       /\ \E a \in had'[d] : a.visibility = documents'[d].visibility /\ a.scope = documents'[d].scope
  BY <1>4, <1>6, <1>8, <1>9
<1>13. PICK changed \in SUBSET Ids : changed = {d}
  OBVIOUS
<1> QED
  BY <1>5, <1>10, <1>11, <1>12, <1>13, AccessChangesInv

LEMMA SetVisibilityInv ==
  ASSUME ViewsInv, NEW tenant, NEW visibility \in {"private", "tenant"}, NEW chosen,
         SetVisibility(tenant, visibility, chosen)
  PROVE  ViewsInv'
<1> Tables
  BY DEF ViewsInv
<1>1. PICK changing \in SUBSET Ids :
        /\ changing = {d \in PresentIn(documents) :
             d \in chosen /\ documents[d].tenant = tenant /\ documents[d].visibility # visibility}
        /\ documents' = [d \in Ids |-> IF d \in changing THEN [documents[d] EXCEPT !.visibility = visibility]
                                       ELSE documents[d]]
        /\ reader' = Watched(documents')
        /\ had' = [d \in Ids |-> IF d \in changing THEN had[d] \cup {Accesses(documents'[d])} ELSE had[d]]
  BY DEF SetVisibility, Changes, PresentIn
<1>2. UNCHANGED <<history, queue, request, contents>> /\ writes < MaxWrites /\ writes' = writes + 1
  BY DEF SetVisibility, Write
<1>3. \A d \in changing : documents[d].state = "present" /\ documents[d] \in Rows
  BY <1>1, RowIsThere DEF PresentIn
<1>4. ASSUME NEW d \in changing
      PROVE  /\ documents'[d] \in Rows /\ documents'[d].state = "present"
             /\ documents'[d].version = documents[d].version /\ documents'[d].sha = documents[d].sha
             /\ had'[d] = had[d] \cup {Accesses(documents'[d])}
             /\ Accesses(documents'[d]) \in Access
             /\ Accesses(documents'[d]).visibility = documents'[d].visibility
             /\ Accesses(documents'[d]).scope = documents'[d].scope
  <2> DEFINE row == [documents[d] EXCEPT !.visibility = visibility]
  <2>1. documents'[d] = row /\ had'[d] = had[d] \cup {Accesses(documents'[d])}
    BY <1>1
  <2>2. row \in Rows /\ row.state = "present" /\ row.version = documents[d].version /\ row.sha = documents[d].sha
    BY <1>3 DEF Rows
  <2> HIDE DEF row
  <2>3. row.visibility \in Visibilities /\ row.scope \in Scopes
    BY <2>2, RowHas
  <2>4. Accesses(row) \in Access /\ Accesses(row).visibility = row.visibility /\ Accesses(row).scope = row.scope
    BY <2>3 DEF Accesses, Access
  <2> QED
    BY <2>1, <2>2, <2>4
<1>5. \A d \in Ids \ changing : documents'[d] = documents[d] /\ had'[d] = had[d]
  BY <1>1
<1>6. Tables'
  <2>1. documents' \in [Ids -> Rows \cup {Unused, Deleted}]
    <3>1. \A d \in Ids : documents'[d] \in Rows \cup {Unused, Deleted}
      BY <1>4, <1>5 DEF Tables
    <3> QED
      BY <1>1, <3>1
  <2>2. had' \in [Ids -> SUBSET Access]
    <3>1. \A d \in Ids : had'[d] \in SUBSET Access
      BY <1>4, <1>5 DEF Tables
    <3> QED
      BY <1>1, <3>1
  <2>3. writes' \in 0..MaxWrites
    BY <1>2, DocumentViewsAssumption DEF Tables
  <2> QED
    BY <1>2, <2>1, <2>2, <2>3 DEF Tables
<1>7. \A d \in changing :
        /\ documents[d].state = "present" /\ documents'[d].state = "present"
        /\ documents'[d].version = documents[d].version /\ documents'[d].sha = documents[d].sha
        /\ had[d] \subseteq had'[d]
        /\ \E a \in had'[d] : a.visibility = documents'[d].visibility /\ a.scope = documents'[d].scope
  BY <1>3, <1>4
<1> QED
  BY <1>1, <1>2, <1>5, <1>6, <1>7, AccessChangesInv

LEMMA DeleteDocumentInv ==
  ASSUME ViewsInv, NEW p, NEW d \in Ids, DeleteDocument(p, d) PROVE ViewsInv'
<1> Tables /\ Versions /\ Had
  BY DEF ViewsInv
<1>1. /\ documents' = [documents EXCEPT ![d] = Deleted] /\ reader' = Watched(documents')
      /\ history' = {v \in history : v.document # d}
      /\ queue' = [j \in DOMAIN queue |->
                     IF queue[j].document = d THEN [queue[j] EXCEPT !.status = "deleted"] ELSE queue[j]]
      /\ UNCHANGED <<request, contents, had>> /\ writes < MaxWrites /\ writes' = writes + 1
  BY DEF DeleteDocument, Changes, Write
<1>2. Deleted.state = "deleted" /\ documents[d].state = "present"
  BY DEF DeleteDocument, Owned, PresentIn, Deleted
<1>3. /\ documents' \in [Ids -> Rows \cup {Unused, Deleted}] /\ documents'[d] = Deleted
      /\ \A e \in Ids : e # d => documents'[e] = documents[e]
  BY <1>1 DEF Tables
<1>4. Tables'
  <2>1. queue' \in Seq(Jobs)
    <3>1. \A j \in 1..Len(queue) : queue[j] \in Jobs
      BY DEF Tables
    <3>2. \A j \in 1..Len(queue) : [queue[j] EXCEPT !.status = "deleted"] \in Jobs
      BY <3>1 DEF Jobs
    <3>3. DOMAIN queue = 1..Len(queue) /\ Len(queue) \in Nat
      BY DEF Tables
    <3>4. queue' \in [1..Len(queue) -> Jobs]
      BY <1>1, <3>1, <3>2, <3>3
    <3> QED
      BY <3>3, <3>4
  <2>2. writes' \in 0..MaxWrites
    BY <1>1, DocumentViewsAssumption DEF Tables
  <2> QED
    BY <1>1, <1>3, <2>1, <2>2 DEF Tables
<1>5. Versions'
  <2>1. \A v \in history' : v \in history
    BY <1>1
  <2>2. \A e \in Ids : documents'[e].state = "present" =>
          /\ documents'[e] = documents[e]
          /\ \A v \in history : v.document = e => v \in history'
    BY <1>1, <1>2, <1>3
  <2>3. \A e \in Ids : documents'[e].state = "unused" => documents[e].state = "unused"
    BY <1>2, <1>3
  <2> QED
    BY <1>1, <2>1, <2>2, <2>3 DEF Versions, FromBefore
<1>6. Had'
  BY <1>1, <1>2, <1>3 DEF Had
<1>7. Onwards
  <2>1. \A e \in Ids : documents[e].state = "present" => documents[e].version \in Nat
    BY RowIsThere, RowHas
  <2> QED
    BY <1>1, <1>2, <1>3, <2>1 DEF Onwards
<1> QED
  BY <1>1, <1>4, <1>5, <1>6, <1>7, ChangeInv

\* What an upload finds: its document is there, and the access it does not name is
\* that which the document has.
LEMMA FoundIs ==
  ASSUME Tables, Had, NEW u \in Uploads, Accepted(u), u.document # NoDocument => MayReplace(u.by, u.document),
         NEW found \in Found(u, Target(u), AccessOf(u, Target(u)))
  PROVE  /\ found \in Finds /\ Held(found)
         /\ found.at = "update" =>
              /\ found.upload.visibility = Omitted =>
                   \E access \in had[found.document] : access.visibility = found.access.visibility
              /\ found.upload.scope = Omitted =>
                   \E access \in had[found.document] : access.scope = found.access.scope
<1>1. PICK target : target = Target(u)
  OBVIOUS
<1>2. target \subseteq PresentIn(documents)
  BY <1>1 DEF Target, Newest, Owned, MayReplace
<1>3. PICK access : access = AccessOf(u, target)
  OBVIOUS
<1>4. u.visibility \in {Omitted, "private", "tenant"} /\ u.scope \in {Omitted, "tenant", "global"}
  BY DEF Accepted
<1>5. CASE target = {}
  <2>1. access = [visibility |-> Given(u.visibility, "private"), scope |-> Given(u.scope, "tenant")]
    BY <1>3, <1>5 DEF AccessOf
  <2>2. access \in Access
    BY <1>4, <2>1 DEF Access, Given, Visibilities, Scopes
  <2>3. found = [at |-> "create", upload |-> u, access |-> access]
    BY <1>1, <1>3, <1>5 DEF Found
  <2> QED
    BY <2>2, <2>3 DEF Finds, Held
<1>6. CASE target # {}
  <2>1. PICK d : d = CHOOSE t \in target : TRUE
    OBVIOUS
  <2>2. d \in Ids /\ documents[d].state = "present"
    BY <1>2, <1>6, <2>1 DEF PresentIn
  <2>3. /\ documents[d].visibility \in Visibilities /\ documents[d].scope \in Scopes /\ documents[d].version \in Nat
        /\ documents[d].version <= documents[d].version
    BY <2>2, RowIsThere, RowHas
  <2>4. access = [visibility |-> Given(u.visibility, documents[d].visibility),
                  scope |-> Given(u.scope, documents[d].scope)]
    BY <1>3, <1>6, <2>1 DEF AccessOf
  <2>5. /\ access \in Access
        /\ u.visibility = Omitted => access.visibility = documents[d].visibility
        /\ u.scope = Omitted => access.scope = documents[d].scope
    BY <1>4, <2>3, <2>4 DEF Access, Given, Visibilities, Scopes
  <2>6. \/ found = [at |-> "access", upload |-> u, document |-> d, access |-> access]
        \/ found = [at |-> "update", upload |-> u, document |-> d, access |-> access,
                    version |-> documents[d].version]
    BY <1>1, <1>3, <1>6, <2>1 DEF Found
  <2>7. CASE found = [at |-> "access", upload |-> u, document |-> d, access |-> access]
    BY <2>2, <2>5, <2>7 DEF Finds, Held
  <2>8. CASE found = [at |-> "update", upload |-> u, document |-> d, access |-> access,
                      version |-> documents[d].version]
    <3>1. found \in Finds
      BY <2>2, <2>3, <2>5, <2>8 DEF Finds
    <3>2. Held(found)
      BY <2>2, <2>3, <2>8 DEF Held
    <3>3. /\ \E a \in had[d] : a.visibility = documents[d].visibility
          /\ \E a \in had[d] : a.scope = documents[d].scope
      BY <2>2 DEF Had
    <3> QED
      BY <2>5, <2>8, <3>1, <3>2, <3>3
  <2> QED
    BY <2>6, <2>7, <2>8
<1> QED
  BY <1>5, <1>6

\* Steps that leave the documents, and what is told of them, as they are.
LEMMA DocumentsStay ==
  ASSUME ViewsInv, UNCHANGED <<documents, history, contents, had, reader>>,
         queue' \in Seq(Jobs), writes' \in 0..MaxWrites, Uploading', AccessOfVersion'
  PROVE  ViewsInv'
<1> Tables /\ Versions /\ Had /\ Listing /\ OfOne
  BY DEF ViewsInv
<1>1. Tables' /\ Versions' /\ Had'
  BY DEF Tables, Versions, Had, FromBefore
<1>2. Listing'
  BY DEF Listing, ListedWhole, Visible, VisibleIn, Fetchable, FetchableIn, PresentIn, Before
<1>3. OfOne'
  BY DEF OfOne, FromBefore
<1> QED
  BY <1>1, <1>2, <1>3 DEF ViewsInv

LEMMA ResolveInv ==
  ASSUME ViewsInv, NEW r \in Requests, NEW u \in Uploads, Resolve(r, u) PROVE ViewsInv'
<1> Tables /\ Had /\ Uploading /\ AccessOfVersion
  BY DEF ViewsInv
<1>1. PICK found \in Found(u, Target(u), AccessOf(u, Target(u))) : request' = [request EXCEPT ![r] = found]
  BY DEF Resolve
<1>2. UNCHANGED <<documents, history, queue, reader, contents, had>> /\ writes < MaxWrites /\ writes' = writes + 1
  BY DEF Resolve, Write, tablesOfViews
<1>3. Accepted(u) /\ (u.document # NoDocument => MayReplace(u.by, u.document))
  BY DEF Resolve
<1>4. /\ found \in Finds /\ Held(found)
      /\ found.at = "update" =>
           /\ found.upload.visibility = Omitted =>
                \E access \in had[found.document] : access.visibility = found.access.visibility
           /\ found.upload.scope = Omitted =>
                \E access \in had[found.document] : access.scope = found.access.scope
  BY <1>3, FoundIs
<1>5. /\ request' \in [Requests -> Finds] /\ request'[r] = found
      /\ \A s \in Requests : s # r => request'[s] = request[s]
  BY <1>1, <1>4 DEF Uploading
<1>6. \A f : Held(f)' <=> Held(f)
  BY <1>2 DEF Held
<1>7. \A s \in Requests : Held(request'[s])
  BY <1>4, <1>5 DEF Uploading
<1>8. Uploading'
  BY <1>5, <1>6, <1>7 DEF Uploading
<1>9. AccessOfVersion'
  BY <1>2, <1>4, <1>5 DEF AccessOfVersion
<1>10. writes' \in 0..MaxWrites /\ queue' \in Seq(Jobs)
  BY <1>2, DocumentViewsAssumption DEF Tables
<1> QED
  BY <1>2, <1>8, <1>9, <1>10, DocumentsStay

LEMMA GiveUpInv ==
  ASSUME ViewsInv, NEW r \in Requests, GiveUp(r) PROVE ViewsInv'
<1> Tables /\ Uploading /\ AccessOfVersion
  BY DEF ViewsInv
<1>1. UNCHANGED <<documents, history, queue, reader, contents, had, writes>> /\ Answered(r)
  BY DEF GiveUp, tablesOfViews
<1>2. Tables'
  BY <1>1 DEF Tables
<1>3. Onwards
  <2>1. \A e \in Ids : documents[e].state = "present" => documents[e].version \in Nat
    BY RowIsThere, RowHas
  <2>2. \A e \in Ids : documents[e].state # "unused" => documents'[e] = documents[e] /\ had'[e] = had[e] /\ contents'[e] = contents[e]
    BY <1>1
  <2> QED
    BY <2>1, <2>2 DEF Onwards
<1>4. Uploading' /\ AccessOfVersion'
  BY <1>1, <1>2, <1>3, UploadsGoOn
<1> QED
  BY <1>1, <1>2, <1>4, DocumentsStay DEF Tables

LEMMA SettleJobInv ==
  ASSUME ViewsInv, NEW j \in DOMAIN queue, SettleJob(j) PROVE ViewsInv'
<1> Tables /\ Uploading /\ AccessOfVersion
  BY DEF ViewsInv
<1>1. UNCHANGED <<documents, history, request, reader, contents, had, writes>>
  BY DEF SettleJob
<1>2. queue' \in Seq(Jobs) /\ writes' \in 0..MaxWrites
  <2> DEFINE job == [queue[j] EXCEPT !.status = "settled"]
  <2>1. DOMAIN queue = 1..Len(queue) /\ Len(queue) \in Nat /\ queue \in [1..Len(queue) -> Jobs]
    BY DEF Tables
  <2>2. queue[j] \in Jobs
    BY <2>1
  <2>3. job \in Jobs
    BY <2>2 DEF Jobs
  <2>4. queue' = [queue EXCEPT ![j] = job]
    BY DEF SettleJob
  <2> HIDE DEF job
  <2>5. queue' \in [1..Len(queue) -> Jobs]
    BY <2>1, <2>3, <2>4
  <2> QED
    BY <1>1, <2>1, <2>5 DEF Tables
<1>3. Uploading' /\ AccessOfVersion'
  BY <1>1 DEF Uploading, AccessOfVersion, Held
<1> QED
  BY <1>1, <1>2, <1>3, DocumentsStay

(***************************************************************************)
(* Readers.                                                                *)
(***************************************************************************)
\* A read changes nothing but what its reader knows.
LEMMA ReadInv ==
  ASSUME ViewsInv, ReaderStays, Listing', OfOne' PROVE ViewsInv'
<1>1. UNCHANGED <<documents, history, queue, request, writes, contents, had>>
  BY DEF ReaderStays, tablesOfViews
<1>2. Tables' /\ Versions' /\ Had'
  BY <1>1 DEF ViewsInv, Tables, Versions, Had, FromBefore
<1>3. Uploading' /\ AccessOfVersion'
  BY <1>1 DEF ViewsInv, Uploading, AccessOfVersion, Held
<1> QED
  BY <1>2, <1>3 DEF ViewsInv

LEMMA OpenListInv ==
  ASSUME ViewsInv, NEW p \in Callers, NEW limit \in Limits, OpenList(p, limit) PROVE ViewsInv'
<1>1. /\ reader' = [at |-> "listing", who |-> p, limit |-> PageSize(limit), offset |-> 0, seen |-> <<>>,
                    steady |-> Visible(p), left |-> FALSE, joined |-> FALSE]
      /\ ReaderStays
  BY DEF OpenList
<1>2. PageSize(limit) \in Nat \ {0} /\ Visible(p) \in SUBSET Ids
  BY DocumentViewsAssumption, FetchableAre DEF PageSize
<1>3. reader' \in Listings
  BY <1>1, <1>2 DEF Listings
<1>4. /\ reader'.at = "listing" /\ reader'.who = p /\ reader'.steady = Visible(p) /\ reader'.seen = <<>>
      /\ reader'.offset = 0
  BY <1>1
<1>5. \A d \in Visible(p) : Cardinality(Before(p, d)') >= 0
  <2>1. documents' = documents
    BY <1>1 DEF ReaderStays, tablesOfViews
  <2>2. \A d : Before(p, d)' = {e \in Fetchable(p) : e > d}
    BY <2>1 DEF Before, Fetchable, FetchableIn, PresentIn
  <2>3. PICK S \in SUBSET Ids : S = Fetchable(p)
    BY FetchableAre
  <2>4. \A d \in S : Cardinality({e \in S : e > d}) \in Nat
    BY RankInList
  <2> QED
    BY <2>2, <2>3, <2>4, FetchableAre
<1>6. Visible(p)' = Visible(p)
  BY <1>1 DEF ReaderStays, tablesOfViews, Visible, VisibleIn, FetchableIn, PresentIn
<1>7. Listing'
  BY <1>3, <1>4, <1>5, <1>6 DEF Listing, ListedWhole
<1>8. OfOne'
  BY <1>4 DEF OfOne
<1> QED
  BY <1>1, <1>7, <1>8, ReadInv

\* A page takes the documents that are next, and leaves those behind them.
LEMMA NextPageInv ==
  ASSUME ViewsInv, NextPage PROVE ViewsInv'
<1> Listing
  BY DEF ViewsInv
<1>1. ReaderStays /\ reader.at = "listing" /\ reader \in Listings
  BY DEF NextPage, Listing
<1>2. PICK p : p = reader.who
  OBVIOUS
<1>3. PICK S \in SUBSET Ids : S = Fetchable(p)
  BY FetchableAre
<1>4. \A d : Before(p, d) = {e \in S : e > d} /\ Before(p, d)' = {e \in S : e > d}
  BY <1>1, <1>3 DEF Before, ReaderStays, tablesOfViews, Fetchable, FetchableIn, PresentIn
<1>5. Fetchable(p)' = S /\ Visible(p)' = Visible(p) /\ Visible(p) \subseteq S
  BY <1>1, <1>3, FetchableAre DEF ReaderStays, tablesOfViews, Visible, VisibleIn, Fetchable, FetchableIn, PresentIn
<1>6. /\ reader.offset \in Nat /\ reader.limit \in Nat /\ reader.limit > 0 /\ reader.seen \in Seq(SUBSET Ids)
      /\ reader.steady \subseteq Visible(p)
  BY <1>1, <1>2 DEF Listings, Listing
<1>7. \A d \in Ids : Cardinality({e \in S : e > d}) \in Nat
  BY RankGrows
<1>8. /\ ~reader.left => \A d \in reader.steady :
           \/ \E n \in DOMAIN reader.seen : d \in reader.seen[n]
           \/ Cardinality({e \in S : e > d}) >= reader.offset
      /\ ~reader.joined => \A m, n \in DOMAIN reader.seen :
           m < n => \A d \in reader.seen[m], e \in reader.seen[n] : d > e
      /\ ~reader.joined => \A n \in DOMAIN reader.seen : \A d \in reader.seen[n], e \in S :
           Cardinality({f \in S : f > e}) >= reader.offset => d > e
  BY <1>1, <1>2, <1>3, <1>4 DEF Listing
<1>9. OfOne' /\ Listing'
  <2>1. CASE reader.offset >= Cardinality(S)
    <3>1. reader' = [reader EXCEPT !.at = "listed"]
      BY <1>2, <1>3, <2>1 DEF NextPage
    <3>2. /\ reader'.at = "listed" /\ reader'.seen = reader.seen /\ reader'.steady = reader.steady
          /\ reader'.left = reader.left /\ reader'.joined = reader.joined
      BY <1>1, <3>1 DEF Listings
    <3>3. reader' \in Listings
      BY <1>1, <3>1 DEF Listings
    <3>4. ASSUME ~reader.left, NEW d \in reader.steady PROVE \E n \in DOMAIN reader.seen : d \in reader.seen[n]
      <4>1. d \in S
        BY <1>5, <1>6
      <4>2. Cardinality({e \in S : e > d}) \in Nat /\ Cardinality({e \in S : e > d}) < Cardinality(S)
        BY <4>1, RankInList
      <4>3. Cardinality(S) \in Nat
        BY IdsAre, FS_Subset, FS_CardinalityType
      <4>4. ~(Cardinality({e \in S : e > d}) >= reader.offset)
        BY <1>6, <2>1, <4>2, <4>3
      <4> QED
        BY <1>8, <3>4, <4>4
    <3>5. ListedWhole'
      BY <1>8, <3>2, <3>4 DEF ListedWhole
    <3> QED
      BY <3>2, <3>3, <3>5 DEF OfOne, Listing
  <2>2. CASE ~(reader.offset >= Cardinality(S))
    <3>1. PICK page : page = ListDocuments(p, reader.limit, reader.offset)
      OBVIOUS
    <3>2. page = {d \in S : Cardinality({e \in S : e > d}) \in reader.offset..(reader.offset + reader.limit - 1)}
                   \cap Visible(p)
      BY <1>3, <1>4, <3>1 DEF ListDocuments, Page
    <3>3. reader' = [reader EXCEPT !.seen = Append(reader.seen, page), !.offset = reader.offset + reader.limit]
      BY <1>2, <1>3, <2>2, <3>1 DEF NextPage
    <3>4. page \in SUBSET Ids /\ Append(reader.seen, page) \in Seq(SUBSET Ids)
      BY <1>6, <3>2
    <3>5. /\ reader'.at = "listing" /\ reader'.seen = Append(reader.seen, page) /\ reader'.steady = reader.steady
          /\ reader'.left = reader.left /\ reader'.joined = reader.joined /\ reader'.who = p
          /\ reader'.offset = reader.offset + reader.limit
      BY <1>1, <1>2, <3>3 DEF Listings
    <3>6. reader' \in Listings
      <4>1. reader.offset + reader.limit \in Nat
        BY <1>6
      <4> DEFINE read == [reader EXCEPT !.seen = Append(reader.seen, page)]
      <4>2. read \in Listings /\ reader' = [read EXCEPT !.offset = reader.offset + reader.limit]
        BY <1>1, <3>3, <3>4 DEF Listings
      <4> HIDE DEF read
      <4> QED
        BY <4>1, <4>2 DEF Listings
    <3>7. PICK k : k = Len(reader.seen) + 1
      OBVIOUS
    <3>8. /\ \A n \in DOMAIN reader.seen : n \in DOMAIN reader'.seen /\ reader'.seen[n] = reader.seen[n] /\ n < k
          /\ k \in DOMAIN reader'.seen /\ reader'.seen[k] = page /\ k \in Nat
          /\ \A n \in DOMAIN reader'.seen : n \in DOMAIN reader.seen \/ n = k
      BY <1>6, <3>4, <3>5, <3>7
    <3>9. ASSUME ~reader.left, NEW d \in reader.steady
          PROVE  \/ \E n \in DOMAIN reader'.seen : d \in reader'.seen[n]
                 \/ Cardinality({e \in S : e > d}) >= reader.offset + reader.limit
      <4>1. d \in S /\ d \in Visible(p) /\ Cardinality({e \in S : e > d}) \in Nat
        BY <1>5, <1>6, <1>7
      <4>2. CASE \E n \in DOMAIN reader.seen : d \in reader.seen[n]
        BY <3>8, <4>2
      <4>3. CASE /\ Cardinality({e \in S : e > d}) >= reader.offset
                 /\ ~(Cardinality({e \in S : e > d}) >= reader.offset + reader.limit)
        <5>1. Cardinality({e \in S : e > d}) \in reader.offset..(reader.offset + reader.limit - 1)
          BY <1>6, <4>1, <4>3
        <5>2. d \in page
          BY <3>2, <4>1, <5>1
        <5> QED
          BY <3>8, <5>2
      <4> QED
        BY <1>8, <3>9, <4>2, <4>3
    <3>10. ASSUME ~reader.joined, NEW n \in DOMAIN reader'.seen, NEW d \in reader'.seen[n], NEW e \in S,
                  Cardinality({f \in S : f > e}) >= reader.offset + reader.limit
           PROVE  d > e
      <4>1. e \in Ids /\ Cardinality({f \in S : f > e}) \in Nat
        BY <1>7
      <4>2. CASE n \in DOMAIN reader.seen
        <5>1. Cardinality({f \in S : f > e}) >= reader.offset
          BY <1>6, <3>10, <4>1
        <5> QED
          BY <1>8, <3>8, <3>10, <4>2, <5>1
      <4>3. CASE n = k
        <5>1. d \in Ids /\ Cardinality({f \in S : f > d}) \in reader.offset..(reader.offset + reader.limit - 1)
          BY <3>2, <3>8, <4>3
        <5>2. Cardinality({f \in S : f > d}) < Cardinality({f \in S : f > e})
          BY <1>6, <3>10, <4>1, <5>1
        <5> QED
          BY <4>1, <5>1, <5>2, RankTells
      <4> QED
        BY <3>8, <4>2, <4>3
    <3>11. ASSUME ~reader.joined, NEW m \in DOMAIN reader'.seen, NEW n \in DOMAIN reader'.seen, m < n,
                  NEW d \in reader'.seen[m], NEW e \in reader'.seen[n]
           PROVE  d > e
      <4>1. DOMAIN reader.seen \subseteq Nat
        BY <1>6
      <4>2. m \in DOMAIN reader.seen
        BY <3>8, <3>11, <4>1
      <4>3. CASE n \in DOMAIN reader.seen
        BY <1>8, <3>8, <3>11, <4>2, <4>3
      <4>4. CASE n = k
        <5>1. e \in S /\ Cardinality({f \in S : f > e}) \in reader.offset..(reader.offset + reader.limit - 1)
          BY <3>2, <3>8, <4>4
        <5>2. Cardinality({f \in S : f > e}) >= reader.offset
          BY <1>6, <5>1
        <5> QED
          BY <1>8, <3>8, <3>11, <4>2, <5>1, <5>2
      <4> QED
        BY <3>8, <4>3, <4>4
    <3>12. Listing'
      <4>1. reader'.steady \subseteq Visible(p)'
        BY <1>5, <1>6, <3>5
      <4>2. ~reader'.left => \A d \in reader'.steady :
              \/ \E n \in DOMAIN reader'.seen : d \in reader'.seen[n]
              \/ Cardinality(Before(p, d)') >= reader'.offset
        <5>1. \A d : Cardinality(Before(p, d)') = Cardinality({e \in S : e > d})
          BY <1>4, Zenon
        <5> QED
          BY <3>5, <3>9, <5>1
      <4>3. ~reader'.joined => \A n \in DOMAIN reader'.seen : \A d \in reader'.seen[n], e \in Fetchable(p)' :
              Cardinality(Before(p, e)') >= reader'.offset => d > e
        <5>1. \A e : Cardinality(Before(p, e)') = Cardinality({f \in S : f > e})
          BY <1>4, Zenon
        <5> QED
          BY <1>5, <3>5, <3>10, <5>1
      <4>4. ~reader'.joined => \A m, n \in DOMAIN reader'.seen :
              m < n => \A d \in reader'.seen[m], e \in reader'.seen[n] : d > e
        BY <3>5, <3>11
      <4> QED
        BY <3>5, <3>6, <4>1, <4>2, <4>3, <4>4 DEF Listing, ListedWhole
    <3> QED
      BY <3>5, <3>12 DEF OfOne
  <2> QED
    BY <2>1, <2>2
<1> QED
  BY <1>1, <1>9, ReadInv

LEMMA OpenDocumentInv ==
  ASSUME ViewsInv, NEW p \in Callers, NEW d \in Ids, OpenDocument(p, d) PROVE ViewsInv'
<1>1. /\ reader' = [at |-> "document", who |-> p, document |-> d, row |-> documents[d]]
      /\ ReaderStays /\ d \in Visible(p)
  BY DEF OpenDocument
<1>2. documents[d].state = "present"
  BY <1>1 DEF Visible, VisibleIn, FetchableIn, PresentIn
<1>3. /\ documents[d] \in Rows /\ documents[d].version \in Nat /\ documents[d].version >= 1
      /\ Len(contents[d]) = documents[d].version /\ contents[d][documents[d].version] = documents[d].sha
      /\ contents[d] \in Seq(STRING \ {Missing})
  BY <1>2, RowIsThere, RowHas DEF ViewsInv, Tables, Versions
<1>4. documents[d].version \in DOMAIN contents[d]
  BY <1>3
<1>5. /\ reader'.at = "document" /\ reader'.document = d /\ reader'.row = documents[d]
      /\ documents' = documents /\ contents' = contents
  BY <1>1 DEF ReaderStays, tablesOfViews
<1>6. OfOne'
  BY <1>2, <1>3, <1>4, <1>5 DEF OfOne
<1>7. Listing'
  BY <1>5 DEF Listing, ListedWhole
<1> QED
  BY <1>1, <1>6, <1>7, ReadInv

\* What a document read before has now, if it is still there.
LEMMA ReadDocument ==
  ASSUME ViewsInv, reader.at = "document"
  PROVE  /\ reader.document \in Ids /\ documents[reader.document].state \in {"present", "deleted"}
         /\ reader.row.version \in Nat /\ reader.row.version >= 1
         /\ reader.row.version \in DOMAIN contents[reader.document]
         /\ reader.row.sha = contents[reader.document][reader.row.version] /\ reader.row.sha # Missing
         /\ contents[reader.document] \in Seq(STRING \ {Missing})
         /\ \A v \in history : v.document = reader.document =>
              v.version \in DOMAIN contents[reader.document] /\ v.sha = contents[reader.document][v.version]
         /\ documents[reader.document].state = "present" => \A n \in DOMAIN contents[reader.document] :
              FromBefore(reader.document, n) \/ \E v \in history : v.document = reader.document /\ v.version = n
<1>1. reader.document \in Ids /\ documents[reader.document].state # "unused"
  BY DEF ViewsInv, OfOne
<1>2. documents[reader.document].state \in {"present", "deleted"}
  BY <1>1, RowIsThere DEF ViewsInv
<1>3. /\ reader.row.version \in Nat /\ reader.row.version >= 1 /\ reader.row.sha # Missing
      /\ reader.row.version \in DOMAIN contents[reader.document]
      /\ reader.row.sha = contents[reader.document][reader.row.version]
  BY RowHas DEF ViewsInv, OfOne
<1>4. contents[reader.document] \in Seq(STRING \ {Missing})
  BY <1>1 DEF ViewsInv, Tables
<1>5. \A v \in history : v.document = reader.document =>
         v.version \in DOMAIN contents[reader.document] /\ v.sha = contents[reader.document][v.version]
  BY DEF ViewsInv, Versions
<1>6. documents[reader.document].state = "present" => \A n \in DOMAIN contents[reader.document] :
         FromBefore(reader.document, n) \/ \E v \in history : v.document = reader.document /\ v.version = n
  BY <1>1 DEF ViewsInv, Versions
<1> QED
  BY <1>1, <1>2, <1>3, <1>4, <1>5, <1>6

LEMMA SourceVersionInv ==
  ASSUME ViewsInv, NEW version \in 0..2, SourceVersion(version) PROVE ViewsInv'
<1>1. reader.at = "document" /\ ReaderStays
  BY DEF SourceVersion
<1>2. PICK d \in Ids : d = reader.document
  BY <1>1, ReadDocument
<1>3. PICK row : row = reader.row
  OBVIOUS
<1>4. PICK selected : selected = IF version = 0 THEN row.version ELSE version
  OBVIOUS
<1>5. PICK items : items = {v \in history : v.document = d /\ v.version = selected}
  OBVIOUS
<1>6. PICK sha : sha = IF items # {} THEN (CHOOSE v \in items : TRUE).sha
                       ELSE IF selected = row.version THEN row.sha ELSE Missing
  OBVIOUS
<1>7. reader' = [at |-> "source", document |-> d, row |-> row, selected |-> selected, sha |-> sha]
  BY <1>2, <1>3, <1>4, <1>5, <1>6 DEF SourceVersion
<1>8. /\ documents[d].state \in {"present", "deleted"} /\ row.version \in Nat /\ row.version >= 1
      /\ row.version \in DOMAIN contents[d] /\ row.sha = contents[d][row.version] /\ row.sha # Missing
      /\ contents[d] \in Seq(STRING \ {Missing})
      /\ \A v \in history : v.document = d => v.version \in DOMAIN contents[d] /\ v.sha = contents[d][v.version]
      /\ documents[d].state = "present" => \A n \in DOMAIN contents[d] :
           FromBefore(d, n) \/ \E v \in history : v.document = d /\ v.version = n
  BY <1>1, <1>2, <1>3, ReadDocument
<1>9. selected \in Nat /\ selected >= 1
  BY <1>4, <1>8
<1>10. IF sha # Missing THEN selected \in DOMAIN contents[d] /\ sha = contents[d][selected]
       ELSE documents[d].state = "deleted" \/ selected > row.version \/ FromBefore(d, selected)
  <2>1. CASE items # {}
    <3>1. PICK v \in items : v = CHOOSE w \in items : TRUE
      BY <2>1
    <3>2. v \in history /\ v.document = d /\ v.version = selected /\ sha = v.sha
      BY <1>5, <1>6, <2>1, <3>1
    <3>3. selected \in DOMAIN contents[d] /\ sha = contents[d][selected]
      BY <1>8, <3>2
    <3>4. sha # Missing
      BY <1>8, <3>3
    <3> QED
      BY <3>3, <3>4
  <2>2. CASE items = {} /\ selected = row.version
    BY <1>6, <1>8, <2>2
  <2>3. CASE items = {} /\ selected # row.version
    <3>1. sha = Missing
      BY <1>6, <2>3
    <3>2. CASE documents[d].state = "present" /\ ~(selected > row.version)
      <4>1. selected \in DOMAIN contents[d]
        BY <1>8, <1>9, <3>2
      <4>2. FromBefore(d, selected)
        BY <1>5, <1>8, <2>3, <3>2, <4>1
      <4> QED
        BY <3>1, <4>2
    <3> QED
      BY <1>8, <3>1, <3>2
  <2> QED
    BY <2>1, <2>2, <2>3
<1>11. documents' = documents /\ contents' = contents
  BY <1>1 DEF ReaderStays, tablesOfViews
<1>12. /\ reader'.at = "source" /\ reader'.document = d /\ reader'.row = row /\ reader'.selected = selected
       /\ reader'.sha = sha
  BY <1>7
<1>13. OfOne'
  BY <1>8, <1>10, <1>11, <1>12 DEF OfOne, FromBefore
<1>14. Listing'
  BY <1>12 DEF Listing, ListedWhole
<1> QED
  BY <1>1, <1>13, <1>14, ReadInv

LEMMA ListVersionsInv ==
  ASSUME ViewsInv, ListVersionsOf PROVE ViewsInv'
<1>1. reader.at = "document" /\ ReaderStays
  BY DEF ListVersionsOf
<1>2. PICK d \in Ids : d = reader.document
  BY <1>1, ReadDocument
<1>3. PICK row : row = reader.row
  OBVIOUS
<1>4. PICK rows : rows = {v \in history : v.document = d}
  OBVIOUS
<1>5. PICK entries : entries = [v \in {h.version : h \in rows} |->
                          [sha |-> (CHOOSE h \in rows : h.version = v).sha,
                           current |-> (CHOOSE h \in rows : h.version = v).sha = row.sha]]
  OBVIOUS
<1>6. reader' = [at |-> "versions", document |-> d, row |-> row, entries |-> entries]
  BY <1>2, <1>3, <1>4, <1>5 DEF ListVersionsOf
<1>7. /\ documents[d].state \in {"present", "deleted"}
      /\ row.version \in DOMAIN contents[d] /\ row.sha = contents[d][row.version]
      /\ \A v \in history : v.document = d => v.version \in DOMAIN contents[d] /\ v.sha = contents[d][v.version]
      /\ documents[d].state = "present" => \A n \in DOMAIN contents[d] :
           FromBefore(d, n) \/ \E v \in history : v.document = d /\ v.version = n
  BY <1>1, <1>2, <1>3, ReadDocument
<1>8. ASSUME NEW n \in DOMAIN entries
      PROVE  /\ n \in DOMAIN contents[d] /\ entries[n].sha = contents[d][n]
             /\ contents[d][n] = row.sha => entries[n].current
  <2>1. n \in {h.version : h \in rows}
    BY <1>5, <1>8
  <2>2. PICK h \in rows : h.version = n /\ h = CHOOSE g \in rows : g.version = n
    BY <2>1
  <2>3. h.sha = contents[d][n] /\ n \in DOMAIN contents[d]
    BY <1>4, <1>7, <2>2
  <2>4. PICK current \in BOOLEAN : current = (h.sha = row.sha)
    OBVIOUS
  <2>5. entries[n] = [sha |-> h.sha, current |-> current]
    BY <1>5, <2>1, <2>2, <2>4
  <2>6. entries[n].sha = h.sha /\ entries[n].current = current
    BY <2>5
  <2>7. contents[d][n] = row.sha => entries[n].current
    BY <2>3, <2>4, <2>6, Zenon
  <2> QED
    BY <2>3, <2>6, <2>7
<1>9. \/ row.version \in DOMAIN entries /\ entries[row.version].current
      \/ documents[d].state = "deleted" \/ FromBefore(d, row.version)
  <2> SUFFICES ASSUME documents[d].state = "present", ~FromBefore(d, row.version)
               PROVE  row.version \in DOMAIN entries /\ entries[row.version].current
    BY <1>7
  <2>1. PICK v \in rows : v.version = row.version
    BY <1>4, <1>7
  <2>2. row.version \in DOMAIN entries
    BY <1>5, <2>1
  <2> QED
    BY <1>7, <1>8, <2>2
<1>10. documents' = documents /\ contents' = contents
  BY <1>1 DEF ReaderStays, tablesOfViews
<1>11. reader'.at = "versions" /\ reader'.document = d /\ reader'.row = row /\ reader'.entries = entries
  BY <1>6
<1>12. OfOne'
  BY <1>7, <1>8, <1>9, <1>10, <1>11 DEF OfOne, FromBefore
<1>13. Listing'
  BY <1>11 DEF Listing, ListedWhole
<1> QED
  BY <1>1, <1>12, <1>13, ReadInv

LEMMA OpenJobInv ==
  ASSUME ViewsInv, (\E p \in Callers, j \in DOMAIN queue : OpenJob(p, j)) \/ JobDocument PROVE ViewsInv'
<1>1. reader'.at \in {"job", "told", "refused"} /\ ReaderStays
  BY DEF OpenJob, JobDocument
<1>2. Listing' /\ OfOne'
  BY <1>1 DEF Listing, ListedWhole, OfOne
<1> QED
  BY <1>1, <1>2, ReadInv

(***************************************************************************)
(* What follows.                                                           *)
(***************************************************************************)
LEMMA ViewsStep == ViewsInv /\ [ViewsNext]_viewsVars => ViewsInv'
<1> SUFFICES ASSUME ViewsInv, [ViewsNext]_viewsVars PROVE ViewsInv'
  OBVIOUS
<1>1. ASSUME NEW r \in Requests, UploadStep(r) PROVE ViewsInv'
  BY <1>1, ResolveInv, CommitNewInv, CommitVersionInv, CommitAccessInv, GiveUpInv DEF UploadStep
<1>2. ASSUME NEW p \in Principals, NEW visibility \in {"private", "tenant"},
             NEW chosen \in {{d} : d \in Ids} \cup {Ids}, SetVisibility(p.tenant, visibility, chosen)
      PROVE  ViewsInv'
  BY <1>2, SetVisibilityInv
<1>3. ASSUME NEW p \in Principals, NEW d \in Ids, DeleteDocument(p, d) PROVE ViewsInv'
  BY <1>3, DeleteDocumentInv
<1>4. ASSUME NEW j \in DOMAIN queue, SettleJob(j) PROVE ViewsInv'
  BY <1>4, SettleJobInv
<1>5. CASE ReaderStep
  <2>1. ASSUME NEW p \in Callers, NEW limit \in Limits, OpenList(p, limit) PROVE ViewsInv'
    BY <2>1, OpenListInv
  <2>2. ASSUME NEW p \in Callers, NEW d \in Ids, OpenDocument(p, d) PROVE ViewsInv'
    BY <2>2, OpenDocumentInv
  <2>3. ASSUME NEW version \in 0..2, SourceVersion(version) PROVE ViewsInv'
    BY <2>3, SourceVersionInv
  <2>4. ASSUME (\E p \in Callers, j \in DOMAIN queue : OpenJob(p, j)) \/ JobDocument PROVE ViewsInv'
    BY <2>4, OpenJobInv
  <2> QED
    BY <1>5, <2>1, <2>2, <2>3, <2>4, NextPageInv, ListVersionsInv DEF ReaderStep
<1>6. CASE UNCHANGED viewsVars
  <2>1. UNCHANGED <<documents, history, queue, request, reader, writes, contents, had>>
    BY <1>6 DEF viewsVars, tablesOfViews
  <2>2. Uploading' /\ AccessOfVersion' /\ queue' \in Seq(Jobs) /\ writes' \in 0..MaxWrites
    BY <2>1 DEF ViewsInv, Uploading, AccessOfVersion, Held, Tables
  <2> QED
    BY <2>1, <2>2, DocumentsStay
<1> QED
  BY <1>1, <1>2, <1>3, <1>4, <1>5, <1>6 DEF ViewsNext

LEMMA ViewsTyped == ViewsInv => ViewsTypeOK
<1> SUFFICES ASSUME ViewsInv PROVE ViewsTypeOK
  OBVIOUS
<1>1. Tables /\ Versions
  BY DEF ViewsInv
<1>2. \A d \in Ids : documents[d] \in Rows \cup {Unused, Deleted}
  BY <1>1 DEF Tables
<1>3. \A v \in history : v.document \in Ids /\ v.version \in Nat \ {0} /\ v.sha \in STRING
  <2> TAKE v \in history
  <2>1. /\ v.document \in Ids /\ v.version \in DOMAIN contents[v.document]
        /\ v.sha = contents[v.document][v.version]
    BY <1>1 DEF Versions
  <2>2. contents[v.document] \in Seq(STRING \ {Missing})
    BY <1>1, <2>1 DEF Tables
  <2> QED
    BY <2>1, <2>2
<1>4. \A j \in DOMAIN queue : queue[j].document \in Ids /\ queue[j].status \in {"queued", "settled", "deleted"}
  <2> TAKE j \in DOMAIN queue
  <2>1. queue[j] \in Jobs
    BY <1>1 DEF Tables
  <2> QED
    BY <2>1 DEF Jobs
<1>5. writes \in 0..MaxWrites
  BY <1>1 DEF Tables
<1> QED
  BY <1>2, <1>3, <1>4, <1>5 DEF ViewsTypeOK

LEMMA ViewsTold == ViewsInv => ViewsTruthful
<1> SUFFICES ASSUME ViewsInv PROVE ViewsTruthful
  OBVIOUS
<1>1. ListedWhole /\ OfOne /\ AccessOfVersion
  BY DEF ViewsInv, Listing
<1>2. SourceExact
  BY <1>1 DEF OfOne, SourceExact, FromBefore
<1>3. VersionsTruthful
  BY <1>1 DEF OfOne, VersionsTruthful, FromBefore
<1> QED
  BY <1>1, <1>2, <1>3 DEF ViewsTruthful

\* Whatever uploads, changes of access and deletions come between its reads, what a
\* reader is told of documents is what there was.
THEOREM TruthfulViews == ViewsInit /\ [][ViewsNext]_viewsVars => []ViewsTruthful
<1>1. ViewsInv /\ [ViewsNext]_viewsVars => ViewsInv'
  BY ViewsStep
<1> QED
  BY <1>1, ViewsInitInv, ViewsTold, PTL

================================================================================
