-------------------------- MODULE AnswerCache_proofs --------------------------
(***************************************************************************)
(* Proofs about AnswerCache, for any number of chunks, users, questions,   *)
(* requests and revisions of the corpus.                                   *)
(*                                                                         *)
(* The properties are not inductive.  What carries them is that a view of  *)
(* the corpus, once taken for a request, covers whatever may still be      *)
(* compared with it: as long as the epoch the request was stamped with is  *)
(* the present one, all that is visible now, and for every request under   *)
(* way that is stamped with that epoch, what it could retrieve all along.  *)
(* An entry inherits the view of the request that stored it.               *)
(***************************************************************************)
EXTENDS AnswerCache, TLAPS

UnderWay(c) == req[c].at \notin {"idle", "served"}

\* The requests that have a view of the corpus, and have not been answered yet.
Viewing == {"hit", "expand", "sources", "check", "recheck", "used", "store"}

\* A view of user u, stamped with revision e.
Covers(u, e, view) ==
    /\ e = epoch => visible[u] \subseteq view
    /\ \A c \in Clients : UnderWay(c) /\ req[c].user = u /\ req[c].epoch = e => req[c].always \subseteq view

StampInv ==
    /\ \A c \in Clients : UnderWay(c) => req[c].epoch <= epoch
    /\ \A u \in Users, q \in Questions : cache[<<u, q>>] # NoEntry => cache[<<u, q>>].epoch <= epoch

HistoryInv ==
    \A c \in Clients : UnderWay(c) =>
        /\ req[c].always \subseteq visible[req[c].user]
        /\ visible[req[c].user] \subseteq req[c].ever

EntryInv ==
    \A u \in Users, q \in Questions :
        cache[<<u, q>>] # NoEntry => Covers(u, cache[<<u, q>>].epoch, cache[<<u, q>>].seen)

ViewInv ==
    \A c \in Clients : req[c].at \in Viewing =>
        /\ Covers(req[c].user, req[c].epoch, req[c].seen)
        /\ req[c].answers = req[c].question

RestInv ==
    \A c \in Clients : req[c].at \in Viewing \ {"hit"} => req[c].chunks \subseteq req[c].ever

IndInv == TypeOK /\ StampInv /\ HistoryInv /\ EntryInv /\ ViewInv /\ RestInv /\ ServedIsCurrent

-------------------------------------------------------------------------------
(***************************************************************************)
(* Steps of the corpus and of the cache.                                   *)
(***************************************************************************)

(* A request with other histories is a request. *)
LEMMA RequestHistories ==
  ASSUME NEW r \in Request, NEW a \in SUBSET Chunks, NEW b \in SUBSET Chunks
  PROVE  [r EXCEPT !.always = a, !.ever = b] \in Request
  <1>1. [r EXCEPT !.always = a] \in Request
    BY DEF Request
  <1>2. [[r EXCEPT !.always = a] EXCEPT !.ever = b] \in Request
    BY <1>1 DEF Request
  <1>3. [r EXCEPT !.always = a, !.ever = b] = [[r EXCEPT !.always = a] EXCEPT !.ever = b]
    OBVIOUS
  <1> QED
    BY <1>2, <1>3

(* What a change of the corpus does to the requests: those under way go on *)
(* where they were, and what they could retrieve all along shrinks to what *)
(* is visible now.                                                         *)
LEMMA WitnessedRequests ==
  ASSUME TypeOK, NEW new \in [Users -> SUBSET Chunks], Witnessed(new)
  PROVE  /\ req' \in [Clients -> Request \cup {Idle}]
         /\ \A c \in Clients : ~UnderWay(c) => req'[c] = req[c]
         /\ \A c \in Clients : UnderWay(c) =>
              /\ req[c] \in Request
              /\ req'[c].at = req[c].at
              /\ req'[c].user = req[c].user
              /\ req'[c].question = req[c].question
              /\ req'[c].epoch = req[c].epoch
              /\ req'[c].chunks = req[c].chunks
              /\ req'[c].answers = req[c].answers
              /\ req'[c].seen = req[c].seen
              /\ req'[c].always = req[c].always \cap new[req[c].user]
              /\ req'[c].ever = req[c].ever \cup new[req[c].user]
  <1>1. ASSUME NEW c \in Clients, ~UnderWay(c)
        PROVE  req'[c] = req[c] /\ req'[c] \in Request \cup {Idle}
    BY <1>1 DEF UnderWay, Witnessed, TypeOK
  <1>2. ASSUME NEW c \in Clients, UnderWay(c)
        PROVE  /\ req[c] \in Request
               /\ req'[c] = [req[c] EXCEPT !.always = @ \cap new[req[c].user],
                                           !.ever = @ \cup new[req[c].user]]
    <2>1. req[c] \in Request \cup {Idle}
      BY DEF TypeOK
    <2>2. req[c] # Idle
      BY <1>2 DEF UnderWay, Idle
    <2> QED
      BY <1>2, <2>1, <2>2 DEF UnderWay, Witnessed
  <1>3. ASSUME NEW c \in Clients, UnderWay(c)
        PROVE  req'[c] \in Request
    <2>1. req[c] \in Request /\ new[req[c].user] \in SUBSET Chunks
      BY <1>2, <1>3 DEF Request
    <2>2. req[c].always \cap new[req[c].user] \in SUBSET Chunks
      BY <2>1 DEF Request
    <2>3. req[c].ever \cup new[req[c].user] \in SUBSET Chunks
      BY <2>1 DEF Request
    <2>4. [req[c] EXCEPT !.always = @ \cap new[req[c].user], !.ever = @ \cup new[req[c].user]] \in Request
      BY <2>1, <2>2, <2>3, RequestHistories
    <2> QED
      BY <1>2, <1>3, <2>4
  <1>4. req' \in [Clients -> Request \cup {Idle}]
    <2>1. \A c \in Clients : req'[c] \in Request \cup {Idle}
      BY <1>1, <1>3
    <2>2. req' = [c \in Clients |-> req'[c]]
      BY DEF Witnessed
    <2> QED
      BY <2>1, <2>2
  <1>5. ASSUME NEW c \in Clients, UnderWay(c)
        PROVE  /\ req'[c].at = req[c].at
               /\ req'[c].user = req[c].user
               /\ req'[c].question = req[c].question
               /\ req'[c].epoch = req[c].epoch
               /\ req'[c].chunks = req[c].chunks
               /\ req'[c].answers = req[c].answers
               /\ req'[c].seen = req[c].seen
               /\ req'[c].always = req[c].always \cap new[req[c].user]
               /\ req'[c].ever = req[c].ever \cup new[req[c].user]
    BY <1>2, <1>5, ZenonT(30) DEF Request
  <1>6. \A c \in Clients : UnderWay(c) => req[c] \in Request
    BY <1>2
  <1> HIDE DEF UnderWay, Request, Witnessed, TypeOK
  <1> QED
    BY <1>1, <1>4, <1>5, <1>6

(* A change of the corpus that moves the epoch, or only takes from what is *)
(* visible.                                                                *)
LEMMA CorpusStep ==
  ASSUME IndInv, NEW new \in [Users -> SUBSET Chunks],
         visible' = new, Witnessed(new), UNCHANGED <<gen, cache>>, owed' \in Nat,
         epoch' \in 0..MaxEpoch,
         \/ epoch' = epoch + 1
         \/ epoch' = epoch /\ \A u \in Users : new[u] \subseteq visible[u]
  PROVE  IndInv'
  <1> USE DEF IndInv
  <1>1. epoch \in Nat /\ epoch' \in Nat /\ epoch <= epoch'
    BY DEF TypeOK
  <1>2. req' \in [Clients -> Request \cup {Idle}]
    BY WitnessedRequests
  <1>3. ASSUME NEW c \in Clients, ~UnderWay(c)
        PROVE  req'[c] = req[c]
    BY <1>3, WitnessedRequests
  <1>4. ASSUME NEW c \in Clients, UnderWay(c)
        PROVE  /\ req[c] \in Request
               /\ req'[c].at = req[c].at
               /\ req'[c].user = req[c].user
               /\ req'[c].question = req[c].question
               /\ req'[c].epoch = req[c].epoch
               /\ req'[c].chunks = req[c].chunks
               /\ req'[c].answers = req[c].answers
               /\ req'[c].seen = req[c].seen
               /\ req'[c].always = req[c].always \cap visible'[req[c].user]
               /\ req'[c].ever = req[c].ever \cup visible'[req[c].user]
    BY <1>4, WitnessedRequests
  <1>5. ASSUME NEW c \in Clients
        PROVE  /\ UnderWay(c)' <=> UnderWay(c)
               /\ req'[c].at = req[c].at
    BY <1>3, <1>4 DEF UnderWay
  <1>6. ASSUME NEW c \in Clients, UnderWay(c)
        PROVE  req[c].user \in Users /\ req[c].epoch \in Nat /\ req[c].epoch <= epoch
    BY <1>4, <1>6 DEF Request, StampInv
  <1>7. ASSUME NEW u \in Users, NEW q \in Questions, cache[<<u, q>>] # NoEntry
        PROVE  cache[<<u, q>>].epoch \in Nat /\ cache[<<u, q>>].epoch <= epoch
    BY <1>7 DEF TypeOK, Entry, StampInv
  <1>8. ASSUME NEW u \in Users, NEW e \in Nat, e <= epoch, NEW view, Covers(u, e, view)
        PROVE  /\ e = epoch' => visible'[u] \subseteq view
               /\ \A c \in Clients : UnderWay(c)' /\ req'[c].user = u /\ req'[c].epoch = e
                                      => req'[c].always \subseteq view
    <2>1. e = epoch' => visible'[u] \subseteq view
      BY <1>1, <1>8 DEF Covers
    <2>2. ASSUME NEW c \in Clients, UnderWay(c)', req'[c].user = u, req'[c].epoch = e
          PROVE  req'[c].always \subseteq view
      <3>1. UnderWay(c) /\ req[c].user = u /\ req[c].epoch = e
        BY <1>4, <1>5, <2>2
      <3>2. req[c].always \subseteq view
        BY <1>8, <3>1 DEF Covers
      <3> QED
        BY <1>4, <3>1, <3>2
    <2> QED
      BY <2>1, <2>2
  <1>9. TypeOK'
    BY <1>2 DEF TypeOK
  <1>10. StampInv'
    <2>1. \A c \in Clients : UnderWay(c)' => req'[c].epoch <= epoch'
      BY <1>1, <1>4, <1>5, <1>6
    <2>2. \A u \in Users, q \in Questions : cache'[<<u, q>>] # NoEntry => cache'[<<u, q>>].epoch <= epoch'
      BY <1>1, <1>7
    <2> QED
      BY <2>1, <2>2 DEF StampInv
  <1>11. HistoryInv'
    BY <1>4, <1>5 DEF HistoryInv
  <1>12. EntryInv'
    <2> SUFFICES ASSUME NEW u \in Users, NEW q \in Questions, cache'[<<u, q>>] # NoEntry
                 PROVE  Covers(u, cache[<<u, q>>].epoch, cache[<<u, q>>].seen)'
      BY DEF EntryInv
    <2>1. Covers(u, cache[<<u, q>>].epoch, cache[<<u, q>>].seen)
      BY DEF EntryInv
    <2>2. /\ cache[<<u, q>>].epoch = epoch' => visible'[u] \subseteq cache[<<u, q>>].seen
          /\ \A c \in Clients : UnderWay(c)' /\ req'[c].user = u /\ req'[c].epoch = cache[<<u, q>>].epoch
                                 => req'[c].always \subseteq cache[<<u, q>>].seen
      BY <1>7, <1>8, <2>1
    <2> QED
      BY <2>2 DEF Covers
  <1>13. ViewInv'
    <2> SUFFICES ASSUME NEW c \in Clients, req'[c].at \in Viewing
                 PROVE  /\ Covers(req[c].user, req[c].epoch, req[c].seen)'
                        /\ req'[c].answers = req'[c].question
      BY DEF ViewInv
    <2>1. UnderWay(c) /\ req[c].at \in Viewing
      BY <1>5 DEF UnderWay, Viewing
    <2>2. Covers(req[c].user, req[c].epoch, req[c].seen) /\ req[c].answers = req[c].question
      BY <2>1 DEF ViewInv
    <2>3. /\ req[c].epoch = epoch' => visible'[req[c].user] \subseteq req[c].seen
          /\ \A d \in Clients : UnderWay(d)' /\ req'[d].user = req[c].user /\ req'[d].epoch = req[c].epoch
                                 => req'[d].always \subseteq req[c].seen
      BY <1>6, <1>8, <2>1, <2>2
    <2>4. Covers(req[c].user, req[c].epoch, req[c].seen)'
      BY <1>4, <2>1, <2>3 DEF Covers
    <2> QED
      BY <1>4, <2>1, <2>2, <2>4
  <1>14. RestInv'
    <2> SUFFICES ASSUME NEW c \in Clients, req'[c].at \in Viewing \ {"hit"}
                 PROVE  req'[c].chunks \subseteq req'[c].ever
      BY DEF RestInv
    <2>1. UnderWay(c) /\ req[c].at \in Viewing \ {"hit"}
      BY <1>5 DEF UnderWay, Viewing
    <2> QED
      BY <1>4, <2>1 DEF RestInv
  <1>15. ServedIsCurrent'
    <2> SUFFICES ASSUME NEW c \in Clients, req'[c].at = "served"
                 PROVE  /\ req'[c].answers = req'[c].question
                        /\ req'[c].always \subseteq req'[c].seen
                        /\ req'[c].chunks \subseteq req'[c].ever
      BY DEF ServedIsCurrent
    <2>1. ~UnderWay(c) /\ req[c].at = "served"
      BY <1>5 DEF UnderWay
    <2> QED
      BY <1>3, <2>1 DEF ServedIsCurrent
  <1> QED
    BY <1>9, <1>10, <1>11, <1>12, <1>13, <1>14, <1>15

(* Expiry and invalidation of entries.                                     *)
LEMMA CacheStep ==
  ASSUME IndInv, UNCHANGED <<visible, epoch, req>>, owed' \in Nat, gen' \in Nat,
         cache' \in [Users \X Questions -> Entry \cup {NoEntry}],
         \A u \in Users, q \in Questions : cache'[<<u, q>>] \in {cache[<<u, q>>], NoEntry}
  PROVE  IndInv'
  <1> USE DEF IndInv
  <1>1. TypeOK'
    BY DEF TypeOK
  <1>2. StampInv'
    BY DEF StampInv, UnderWay
  <1>3. EntryInv'
    BY DEF EntryInv, Covers, UnderWay
  <1>4. HistoryInv' /\ ViewInv' /\ RestInv' /\ ServedIsCurrent'
    BY DEF HistoryInv, ViewInv, RestInv, ServedIsCurrent, Covers, UnderWay
  <1> QED
    BY <1>1, <1>2, <1>3, <1>4

-------------------------------------------------------------------------------
(***************************************************************************)
(* Steps of a request.                                                     *)
(***************************************************************************)

(* Request c becomes r, and perhaps an entry is written.  What was in view *)
(* stays covered: c is stamped with the present epoch, of which every view *)
(* has all that is visible, or it was there before.                        *)
LEMMA RequestMoves ==
  ASSUME IndInv, NEW c \in Clients, NEW r \in Request \cup {Idle},
         req' = [req EXCEPT ![c] = r], UNCHANGED <<corpus, gen>>,
         cache' \in [Users \X Questions -> Entry \cup {NoEntry}],
         \A u \in Users, q \in Questions : cache'[<<u, q>>] # NoEntry =>
            /\ cache'[<<u, q>>].epoch <= epoch
            /\ Covers(u, cache'[<<u, q>>].epoch, cache'[<<u, q>>].seen),
         r.at \notin {"idle", "served"} =>
            /\ r.epoch <= epoch
            /\ r.always \subseteq visible[r.user]
            /\ visible[r.user] \subseteq r.ever
            /\ \/ r.epoch = epoch
               \/ UnderWay(c) /\ r.user = req[c].user /\ r.epoch = req[c].epoch /\ r.always = req[c].always,
         r.at \in Viewing => Covers(r.user, r.epoch, r.seen) /\ r.answers = r.question,
         r.at \in Viewing \ {"hit"} => r.chunks \subseteq r.ever,
         r.at = "served" => /\ r.answers = r.question
                            /\ r.always \subseteq r.seen
                            /\ r.chunks \subseteq r.ever
  PROVE  IndInv'
  <1> USE DEF IndInv
  <1>1. req \in [Clients -> Request \cup {Idle}]
    BY DEF TypeOK
  <1>2. req'[c] = r /\ \A d \in Clients \ {c} : req'[d] = req[d]
    BY <1>1
  <1>3. visible' = visible /\ epoch' = epoch /\ owed' = owed /\ gen' = gen
    BY DEF corpus
  <1>4. \A d \in Clients \ {c} : UnderWay(d)' <=> UnderWay(d)
    BY <1>2 DEF UnderWay
  <1>5. UnderWay(c)' <=> r.at \notin {"idle", "served"}
    BY <1>2 DEF UnderWay
  <1>6. ASSUME NEW u, NEW e, NEW view, Covers(u, e, view)
        PROVE  /\ e = epoch' => visible'[u] \subseteq view
               /\ \A d \in Clients : UnderWay(d)' /\ req'[d].user = u /\ req'[d].epoch = e
                                      => req'[d].always \subseteq view
    <2>1. e = epoch => visible[u] \subseteq view
      BY <1>6 DEF Covers
    <2>2. ASSUME NEW d \in Clients \ {c}, UnderWay(d)', req'[d].user = u, req'[d].epoch = e
          PROVE  req'[d].always \subseteq view
      BY <1>2, <1>4, <1>6, <2>2 DEF Covers
    <2>3. ASSUME UnderWay(c)', req'[c].user = u, req'[c].epoch = e
          PROVE  req'[c].always \subseteq view
      <3>1. r.at \notin {"idle", "served"} /\ r.user = u /\ r.epoch = e /\ req'[c] = r
        BY <1>2, <1>5, <2>3
      <3>2. CASE r.epoch = epoch
        BY <2>1, <3>1, <3>2
      <3>3. CASE UnderWay(c) /\ r.user = req[c].user /\ r.epoch = req[c].epoch /\ r.always = req[c].always
        BY <1>6, <3>1, <3>3 DEF Covers
      <3> QED
        BY <3>1, <3>2, <3>3
    <2> QED
      BY <1>3, <2>1, <2>2, <2>3
  <1>7. TypeOK'
    BY <1>1, <1>3 DEF TypeOK
  <1>8. StampInv'
    BY <1>2, <1>3, <1>4, <1>5 DEF StampInv
  <1>9. HistoryInv'
    BY <1>2, <1>3, <1>4, <1>5 DEF HistoryInv
  <1>10. EntryInv'
    <2> SUFFICES ASSUME NEW u \in Users, NEW q \in Questions, cache'[<<u, q>>] # NoEntry
                 PROVE  Covers(u, cache[<<u, q>>].epoch, cache[<<u, q>>].seen)'
      BY DEF EntryInv
    <2>1. Covers(u, cache'[<<u, q>>].epoch, cache'[<<u, q>>].seen)
      OBVIOUS
    <2>2. /\ cache'[<<u, q>>].epoch = epoch' => visible'[u] \subseteq cache'[<<u, q>>].seen
          /\ \A d \in Clients : UnderWay(d)' /\ req'[d].user = u /\ req'[d].epoch = cache'[<<u, q>>].epoch
                                 => req'[d].always \subseteq cache'[<<u, q>>].seen
      BY <1>6, <2>1
    <2> QED
      BY <2>2 DEF Covers
  <1>11. ViewInv'
    <2> SUFFICES ASSUME NEW d \in Clients, req'[d].at \in Viewing
                 PROVE  /\ Covers(req[d].user, req[d].epoch, req[d].seen)'
                        /\ req'[d].answers = req'[d].question
      BY DEF ViewInv
    <2>1. Covers(req'[d].user, req'[d].epoch, req'[d].seen) /\ req'[d].answers = req'[d].question
      BY <1>2 DEF ViewInv
    <2>2. /\ req'[d].epoch = epoch' => visible'[req'[d].user] \subseteq req'[d].seen
          /\ \A x \in Clients : UnderWay(x)' /\ req'[x].user = req'[d].user /\ req'[x].epoch = req'[d].epoch
                                 => req'[x].always \subseteq req'[d].seen
      BY <1>6, <2>1
    <2> QED
      BY <2>1, <2>2 DEF Covers
  <1>12. RestInv'
    BY <1>2 DEF RestInv
  <1>13. ServedIsCurrent'
    BY <1>2 DEF ServedIsCurrent
  <1> QED
    BY <1>7, <1>8, <1>9, <1>10, <1>11, <1>12, <1>13

(* The cache as it is meets what RequestMoves asks of it. *)
LEMMA CacheAsItIs ==
  ASSUME IndInv
  PROVE  /\ cache \in [Users \X Questions -> Entry \cup {NoEntry}]
         /\ \A u \in Users, q \in Questions : cache[<<u, q>>] # NoEntry =>
              /\ cache[<<u, q>>].epoch <= epoch
              /\ Covers(u, cache[<<u, q>>].epoch, cache[<<u, q>>].seen)
  BY DEF IndInv, TypeOK, StampInv, EntryInv

(* A request that is under way goes on as r: same user, question, stamp    *)
(* and histories.                                                          *)
LEMMA RequestGoesOn ==
  ASSUME IndInv, NEW c \in Clients, UnderWay(c), NEW r \in Request,
         req' = [req EXCEPT ![c] = r], UNCHANGED <<corpus, gen, cache>>,
         r.user = req[c].user, r.question = req[c].question, r.epoch = req[c].epoch,
         r.always = req[c].always, r.ever = req[c].ever,
         r.at \in Viewing => Covers(r.user, r.epoch, r.seen) /\ r.answers = r.question,
         r.at \in Viewing \ {"hit"} => r.chunks \subseteq r.ever,
         r.at = "served" => /\ r.answers = r.question
                            /\ r.always \subseteq r.seen
                            /\ r.chunks \subseteq r.ever
  PROVE  IndInv'
  <1>1. /\ r.epoch <= epoch
        /\ r.always \subseteq visible[r.user]
        /\ visible[r.user] \subseteq r.ever
    BY DEF IndInv, StampInv, HistoryInv
  <1>2. cache' \in [Users \X Questions -> Entry \cup {NoEntry}]
    BY CacheAsItIs
  <1>3. \A u \in Users, q \in Questions : cache'[<<u, q>>] # NoEntry =>
            /\ cache'[<<u, q>>].epoch <= epoch
            /\ Covers(u, cache'[<<u, q>>].epoch, cache'[<<u, q>>].seen)
    BY CacheAsItIs
  <1> QED
    BY <1>1, <1>2, <1>3, RequestMoves

(* A request under way is a request, and sees no more than there is. *)
LEMMA UnderWayRequest ==
  ASSUME IndInv, NEW c \in Clients, UnderWay(c)
  PROVE  /\ req[c] \in Request
         /\ req[c].user \in Users /\ req[c].question \in Questions
         /\ req[c].epoch \in 0..MaxEpoch
         /\ req[c].chunks \subseteq Chunks /\ req[c].seen \subseteq Chunks
         /\ visible[req[c].user] \subseteq Chunks
         /\ visible[req[c].user] \subseteq req[c].ever
  <1>1. req[c] # Idle
    BY DEF UnderWay, Idle
  <1>2. req[c] \in Request
    BY <1>1 DEF IndInv, TypeOK
  <1>3. req[c].user \in Users /\ req[c].question \in Questions /\ req[c].epoch \in 0..MaxEpoch
        /\ req[c].chunks \subseteq Chunks /\ req[c].seen \subseteq Chunks
    BY <1>2 DEF Request
  <1>4. visible[req[c].user] \subseteq Chunks
    BY <1>3 DEF IndInv, TypeOK
  <1>5. visible[req[c].user] \subseteq req[c].ever
    BY DEF IndInv, HistoryInv
  <1> QED
    BY <1>2, <1>3, <1>4, <1>5

(* A request gives up. *)
LEMMA EndKeeps ==
  ASSUME IndInv, NEW c \in Clients, End(c), UNCHANGED <<corpus, gen, cache>>
  PROVE  IndInv'
  <1>1. /\ Idle \in Request \cup {Idle}
        /\ Idle.at = "idle"
    BY DEF Idle
  <1>2. Idle.at \notin Viewing
    BY <1>1 DEF Viewing
  <1>3. cache' \in [Users \X Questions -> Entry \cup {NoEntry}]
    BY CacheAsItIs
  <1>4. \A u \in Users, q \in Questions : cache'[<<u, q>>] # NoEntry =>
            /\ cache'[<<u, q>>].epoch <= epoch
            /\ Covers(u, cache'[<<u, q>>].epoch, cache'[<<u, q>>].seen)
    BY CacheAsItIs
  <1>5. req' = [req EXCEPT ![c] = Idle]
    BY DEF End
  <1> HIDE DEF Idle
  <1> QED
    BY <1>1, <1>2, <1>3, <1>4, <1>5, RequestMoves

(* A request goes from one place to another that asks no more of it: a     *)
(* viewing one if it had a view, an end only with what an answer needs.    *)
LEMMA GotoKeeps ==
  ASSUME IndInv, NEW c \in Clients, NEW place \in Places, UnderWay(c),
         Goto(c, place), UNCHANGED <<corpus, gen, cache>>,
         place \in Viewing => /\ Covers(req[c].user, req[c].epoch, req[c].seen)
                              /\ req[c].answers = req[c].question,
         place \in Viewing \ {"hit"} => req[c].chunks \subseteq req[c].ever,
         place = "served" => /\ req[c].answers = req[c].question
                             /\ req[c].always \subseteq req[c].seen
                             /\ req[c].chunks \subseteq req[c].ever
  PROVE  IndInv'
  <1> DEFINE r == [req[c] EXCEPT !.at = place]
  <1>1. req[c] \in Request
    BY UnderWayRequest
  <1>2. r \in Request
    BY <1>1 DEF Request
  <1>3. /\ r.at = place /\ r.user = req[c].user /\ r.question = req[c].question
        /\ r.epoch = req[c].epoch /\ r.chunks = req[c].chunks /\ r.answers = req[c].answers
        /\ r.seen = req[c].seen /\ r.always = req[c].always /\ r.ever = req[c].ever
    BY <1>1 DEF Request
  <1>4. req' = [req EXCEPT ![c] = r]
    BY DEF Goto
  <1> HIDE DEF r
  <1> QED
    BY <1>2, <1>3, <1>4, RequestGoesOn

(* A request that has a view may be answered from it: all it could see all *)
(* along is in the view.                                                   *)
LEMMA ViewServes ==
  ASSUME IndInv, NEW c \in Clients, req[c].at \in Viewing
  PROVE  /\ UnderWay(c)
         /\ Covers(req[c].user, req[c].epoch, req[c].seen)
         /\ req[c].answers = req[c].question
         /\ req[c].always \subseteq req[c].seen
  <1>1. UnderWay(c)
    BY DEF UnderWay, Viewing
  <1>2. Covers(req[c].user, req[c].epoch, req[c].seen) /\ req[c].answers = req[c].question
    BY DEF IndInv, ViewInv
  <1>3. req[c].always \subseteq req[c].seen
    BY <1>1, <1>2 DEF Covers
  <1> QED
    BY <1>1, <1>2, <1>3

(* A request reads the epoch and begins. *)
LEMMA StartKeeps ==
  ASSUME IndInv, NEW c \in Clients, NEW u \in Users, NEW q \in Questions, Start(c, u, q)
  PROVE  IndInv'
  <1> DEFINE r == [at |-> "lookup", user |-> u, question |-> q, epoch |-> epoch, chunks |-> {},
                   stamp |-> 0, answers |-> q, seen |-> {},
                   always |-> visible[u], ever |-> visible[u]]
  <1>1. epoch \in 0..MaxEpoch /\ epoch \in Nat /\ visible[u] \in SUBSET Chunks
    BY DEF IndInv, TypeOK
  <1>2. r \in Request
    BY <1>1 DEF Request, Places
  <1>3. /\ r.at = "lookup" /\ r.user = u /\ r.epoch = epoch
        /\ r.always = visible[u] /\ r.ever = visible[u]
    OBVIOUS
  <1>4. req' = [req EXCEPT ![c] = r] /\ UNCHANGED <<corpus, gen, cache>>
    BY DEF Start
  <1>5. cache' \in [Users \X Questions -> Entry \cup {NoEntry}]
    BY <1>4, CacheAsItIs
  <1>6. \A v \in Users, w \in Questions : cache'[<<v, w>>] # NoEntry =>
            /\ cache'[<<v, w>>].epoch <= epoch
            /\ Covers(v, cache'[<<v, w>>].epoch, cache'[<<v, w>>].seen)
    BY <1>4, CacheAsItIs
  <1> HIDE DEF r
  <1>7. r.at \notin Viewing /\ r.at # "served" /\ r.epoch <= epoch
    BY <1>1, <1>3 DEF Viewing
  <1> QED
    BY <1>2, <1>3, <1>4, <1>5, <1>6, <1>7, RequestMoves

(* get reads the generation. *)
LEMMA LookupKeeps ==
  ASSUME IndInv, NEW c \in Clients, Lookup(c)
  PROVE  IndInv'
  <1> DEFINE r == [[req[c] EXCEPT !.at = "nearest"] EXCEPT !.stamp = gen]
  <1>1. req[c].at = "lookup" /\ UNCHANGED <<corpus, gen, cache>>
    BY DEF Lookup
  <1>2. UnderWay(c)
    BY <1>1 DEF UnderWay
  <1>3. req[c] \in Request
    BY <1>2, UnderWayRequest
  <1>4. [req[c] EXCEPT !.at = "nearest"] \in Request
    BY <1>3 DEF Request, Places
  <1>5. gen \in Nat
    BY DEF IndInv, TypeOK
  <1>6. r \in Request
    BY <1>4, <1>5 DEF Request
  <1>7. /\ r.at = "nearest" /\ r.user = req[c].user /\ r.question = req[c].question
        /\ r.epoch = req[c].epoch /\ r.always = req[c].always /\ r.ever = req[c].ever
    BY <1>3 DEF Request
  <1>8. req' = [req EXCEPT ![c] = r]
    BY DEF Lookup
  <1> HIDE DEF r
  <1>9. r.at \notin Viewing /\ r.at # "served"
    BY <1>7 DEF Viewing
  <1> QED
    BY <1>1, <1>2, <1>6, <1>7, <1>8, <1>9, RequestGoesOn

(* A request takes over the chunks and the view of an entry, or finds its  *)
(* own: what it looks at next, it has a view to compare with.              *)
LEMMA RequestSees ==
  ASSUME IndInv, NEW c \in Clients, UnderWay(c), NEW place \in Places,
         place \in Viewing,
         NEW chunks \in SUBSET Chunks, NEW seen \in SUBSET Chunks, NEW answers \in Questions,
         req' = [req EXCEPT ![c].at = place, ![c].chunks = chunks, ![c].seen = seen,
                            ![c].answers = answers],
         UNCHANGED <<corpus, gen, cache>>,
         answers = req[c].question,
         Covers(req[c].user, req[c].epoch, seen),
         place # "hit" => chunks \subseteq req[c].ever
  PROVE  IndInv'
  <1> DEFINE r1 == [req[c] EXCEPT !.at = place]
             r2 == [r1 EXCEPT !.chunks = chunks]
             r3 == [r2 EXCEPT !.seen = seen]
             r  == [r3 EXCEPT !.answers = answers]
  <1>1. req[c] \in Request
    BY UnderWayRequest
  <1>2. r1 \in Request
    BY <1>1 DEF Request
  <1>3. r2 \in Request
    BY <1>2 DEF Request
  <1>4. r3 \in Request
    BY <1>3 DEF Request
  <1>5. r \in Request
    BY <1>4 DEF Request
  <1>6. /\ r.at = place /\ r.user = req[c].user /\ r.question = req[c].question
        /\ r.epoch = req[c].epoch /\ r.always = req[c].always /\ r.ever = req[c].ever
        /\ r.chunks = chunks /\ r.seen = seen /\ r.answers = answers
    BY <1>1 DEF Request
  <1>7. req' = [req EXCEPT ![c] = r]
    OBVIOUS
  <1> HIDE DEF r
  <1>8. r.at # "served"
    BY <1>6 DEF Viewing
  <1>9. Covers(r.user, r.epoch, r.seen) /\ r.answers = r.question
    BY <1>6
  <1>10. r.at \in Viewing \ {"hit"} => r.chunks \subseteq r.ever
    BY <1>6
  <1> QED
    BY <1>5, <1>6, <1>7, <1>8, <1>9, <1>10, RequestGoesOn

(* A usable entry is one of this user and of the epoch of the request. *)
LEMMA LookupHitKeeps ==
  ASSUME IndInv, NEW c \in Clients, LookupHit(c)
  PROVE  IndInv'
  <1>1. req[c].at = "nearest" /\ UNCHANGED <<corpus, gen, cache>>
    BY DEF LookupHit
  <1>2. UnderWay(c)
    BY <1>1 DEF UnderWay
  <1>3. req[c].user \in Users
    BY <1>2, UnderWayRequest
  <1>4. PICK e \in Nearest(c) :
          /\ Usable(c, e)
          /\ req' = [req EXCEPT ![c].at = "hit", ![c].chunks = e.chunks, ![c].seen = e.seen,
                                ![c].answers = e.question]
    BY DEF LookupHit
  <1>5. PICK q \in Questions : e = cache[<<req[c].user, q>>] /\ e # NoEntry
    BY DEF Nearest
  <1>6. e \in Entry
    BY <1>3, <1>5, CacheAsItIs
  <1>7. e.chunks \in SUBSET Chunks /\ e.seen \in SUBSET Chunks /\ e.question \in Questions
    BY <1>6 DEF Entry
  <1>8. Covers(req[c].user, e.epoch, e.seen)
    BY <1>3, <1>5, CacheAsItIs
  <1>9. e.epoch = req[c].epoch /\ e.question = req[c].question
    BY <1>4 DEF Usable
  <1>10. "hit" \in Places /\ "hit" \in Viewing
    BY DEF Places, Viewing
  <1> QED
    BY <1>1, <1>2, <1>4, <1>7, <1>8, <1>9, <1>10, RequestSees

LEMMA LookupMissKeeps ==
  ASSUME IndInv, NEW c \in Clients, LookupMiss(c)
  PROVE  IndInv'
  <1>1. req[c].at \in {"lookup", "nearest"} /\ Goto(c, "search") /\ UNCHANGED <<corpus, gen, cache>>
    BY DEF LookupMiss
  <1>2. UnderWay(c)
    BY <1>1 DEF UnderWay
  <1>3. "search" \in Places /\ "search" \notin Viewing
    BY DEF Places, Viewing
  <1> QED
    BY <1>1, <1>2, <1>3, GotoKeeps

(* The sources are in view, so they have been while the request was asked. *)
LEMMA ServeHitKeeps ==
  ASSUME IndInv, NEW c \in Clients, ServeHit(c)
  PROVE  IndInv'
  <1>1. req[c].at = "hit" /\ UNCHANGED <<corpus, gen, cache>>
        /\ Goto(c, IF Valid(c) THEN "served" ELSE "search")
    BY DEF ServeHit
  <1>2. req[c].at \in Viewing
    BY <1>1 DEF Viewing
  <1>3. UnderWay(c) /\ req[c].answers = req[c].question /\ req[c].always \subseteq req[c].seen
    BY <1>2, ViewServes
  <1>4. Valid(c) => req[c].chunks \subseteq req[c].ever
    BY <1>3, UnderWayRequest DEF Valid
  <1>5. "served" \in Places /\ "served" \notin Viewing /\ "search" \in Places /\ "search" \notin Viewing
    BY DEF Places, Viewing
  <1>6. CASE Valid(c)
    BY <1>1, <1>3, <1>4, <1>5, <1>6, GotoKeeps
  <1>7. CASE ~Valid(c)
    BY <1>1, <1>3, <1>5, <1>7, GotoKeeps
  <1> QED
    BY <1>6, <1>7

(* Everything that is visible to the user now is a view of any revision. *)
LEMMA PresentCovers ==
  ASSUME IndInv, NEW u \in Users, NEW e, NEW view, visible[u] \subseteq view
  PROVE  Covers(u, e, view)
  BY DEF IndInv, HistoryInv, Covers

LEMMA SearchKeeps ==
  ASSUME IndInv, NEW c \in Clients, Search(c)
  PROVE  IndInv'
  <1>1. req[c].at = "search" /\ UNCHANGED <<corpus, gen, cache>>
    BY DEF Search
  <1>2. UnderWay(c)
    BY <1>1 DEF UnderWay
  <1>3. /\ req[c].user \in Users /\ req[c].question \in Questions
        /\ visible[req[c].user] \in SUBSET Chunks
        /\ visible[req[c].user] \subseteq req[c].ever
    BY <1>2, UnderWayRequest
  <1>4. PICK hits \in SUBSET visible[req[c].user] :
          req' = [req EXCEPT ![c].at = "expand", ![c].chunks = hits,
                             ![c].seen = visible[req[c].user], ![c].answers = req[c].question]
    BY DEF Search
  <1>5. hits \in SUBSET Chunks /\ hits \subseteq req[c].ever
    BY <1>3
  <1>6. Covers(req[c].user, req[c].epoch, visible[req[c].user])
    BY <1>3, PresentCovers
  <1>7. "expand" \in Places /\ "expand" \in Viewing
    BY DEF Places, Viewing
  <1> QED
    BY <1>1, <1>2, <1>3, <1>4, <1>5, <1>6, <1>7, RequestSees

(* Two views that cover, cover together: neither lacks what may be asked. *)
LEMMA ViewsMeet ==
  ASSUME NEW u, NEW e, NEW v, NEW w, Covers(u, e, v), Covers(u, e, w)
  PROVE  Covers(u, e, v \cap w)
  BY DEF Covers

LEMMA ExpandKeeps ==
  ASSUME IndInv, NEW c \in Clients, Expand(c)
  PROVE  IndInv'
  <1> DEFINE found == visible[req[c].user]
             seen == req[c].seen \cap found
  <1>1. req[c].at = "expand" /\ UNCHANGED <<corpus, gen, cache>>
    BY DEF Expand
  <1>2. req[c].at \in Viewing /\ req[c].at \in Viewing \ {"hit"}
    BY <1>1 DEF Viewing
  <1>3. /\ UnderWay(c) /\ Covers(req[c].user, req[c].epoch, req[c].seen)
        /\ req[c].answers = req[c].question
    BY <1>2, ViewServes
  <1>4. /\ req[c] \in Request /\ req[c].user \in Users /\ req[c].question \in Questions
        /\ req[c].chunks \subseteq Chunks /\ req[c].seen \subseteq Chunks
        /\ found \subseteq Chunks /\ found \subseteq req[c].ever
    BY <1>3, UnderWayRequest
  <1>5. req[c].chunks \subseteq req[c].ever
    BY <1>2 DEF IndInv, RestInv
  <1>6. PICK packed \in SUBSET (req[c].chunks \cup found) :
          req' = [req EXCEPT ![c].at = "sources", ![c].chunks = packed, ![c].seen = @ \cap found]
    BY DEF Expand
  <1>7. packed \in SUBSET Chunks /\ packed \subseteq req[c].ever
    BY <1>4, <1>5
  <1>8. Covers(req[c].user, req[c].epoch, found)
    BY <1>4, PresentCovers
  <1>9. Covers(req[c].user, req[c].epoch, seen)
    BY <1>3, <1>8, ViewsMeet
  <1>10. "sources" \in Places /\ "sources" \in Viewing
    BY DEF Places, Viewing
  <1>11. seen \in SUBSET Chunks
    BY <1>4
  <1>12. req' = [req EXCEPT ![c].at = "sources", ![c].chunks = packed, ![c].seen = seen,
                            ![c].answers = req[c].question]
    <2>1. [req[c] EXCEPT !.at = "sources", !.chunks = packed, !.seen = seen]
            = [req[c] EXCEPT !.at = "sources", !.chunks = packed, !.seen = seen,
                             !.answers = req[c].question]
      BY <1>3, <1>4 DEF Request
    <2>2. req' = [req EXCEPT ![c] = [req[c] EXCEPT !.at = "sources", !.chunks = packed, !.seen = seen]]
      BY <1>6
    <2> QED
      BY <2>1, <2>2
  <1> HIDE DEF seen
  <1> QED
    BY <1>1, <1>3, <1>4, <1>7, <1>9, <1>10, <1>11, <1>12, RequestSees

(* The checks of an answer lead from one place with a view to another. *)
LEMMA CheckSourcesKeeps ==
  ASSUME IndInv, NEW c \in Clients, CheckSources(c)
  PROVE  IndInv'
  <1>1. req[c].at = "sources" /\ UNCHANGED <<corpus, gen, cache>> /\ (Goto(c, "check") \/ End(c))
    BY DEF CheckSources
  <1>2. req[c].at \in Viewing /\ req[c].at \in Viewing \ {"hit"}
    BY <1>1 DEF Viewing
  <1>3. req[c].chunks \subseteq req[c].ever
    BY <1>2 DEF IndInv, RestInv
  <1>4. "check" \in Places /\ "check" # "served"
    BY DEF Places
  <1>5. CASE Goto(c, "check")
    BY <1>1, <1>2, <1>3, <1>4, <1>5, ViewServes, GotoKeeps
  <1>6. CASE End(c)
    BY <1>1, <1>6, EndKeeps
  <1> QED
    BY <1>1, <1>5, <1>6

LEMMA CheckEpochKeeps ==
  ASSUME IndInv, NEW c \in Clients, CheckEpoch(c)
  PROVE  IndInv'
  <1>1. req[c].at = "check" /\ UNCHANGED <<corpus, gen, cache>> /\ (Goto(c, "recheck") \/ End(c))
    BY DEF CheckEpoch
  <1>2. req[c].at \in Viewing /\ req[c].at \in Viewing \ {"hit"}
    BY <1>1 DEF Viewing
  <1>3. req[c].chunks \subseteq req[c].ever
    BY <1>2 DEF IndInv, RestInv
  <1>4. "recheck" \in Places /\ "recheck" # "served"
    BY DEF Places
  <1>5. CASE Goto(c, "recheck")
    BY <1>1, <1>2, <1>3, <1>4, <1>5, ViewServes, GotoKeeps
  <1>6. CASE End(c)
    BY <1>1, <1>6, EndKeeps
  <1> QED
    BY <1>1, <1>5, <1>6

LEMMA RecheckSourcesKeeps ==
  ASSUME IndInv, NEW c \in Clients, RecheckSources(c)
  PROVE  IndInv'
  <1>1. req[c].at = "recheck" /\ UNCHANGED <<corpus, gen, cache>>
        /\ (Goto(c, "check") \/ Goto(c, "used") \/ End(c))
    BY DEF RecheckSources
  <1>2. req[c].at \in Viewing /\ req[c].at \in Viewing \ {"hit"}
    BY <1>1 DEF Viewing
  <1>3. req[c].chunks \subseteq req[c].ever
    BY <1>2 DEF IndInv, RestInv
  <1>4. "check" \in Places /\ "used" \in Places /\ "check" # "served" /\ "used" # "served"
    BY DEF Places
  <1>5. CASE Goto(c, "check")
    BY <1>1, <1>2, <1>3, <1>4, <1>5, ViewServes, GotoKeeps
  <1>6. CASE Goto(c, "used")
    BY <1>1, <1>2, <1>3, <1>4, <1>6, ViewServes, GotoKeeps
  <1>7. CASE End(c)
    BY <1>1, <1>7, EndKeeps
  <1> QED
    BY <1>1, <1>5, <1>6, <1>7

(* The answer is returned, or stamped with the generation put reads. *)
LEMMA AcceptKeeps ==
  ASSUME IndInv, NEW c \in Clients, Accept(c)
  PROVE  IndInv'
  <1> DEFINE r == [[req[c] EXCEPT !.at = "store"] EXCEPT !.stamp = gen]
  <1>1. req[c].at = "used" /\ UNCHANGED <<corpus, gen, cache>>
        /\ (Goto(c, "served") \/ req' = [req EXCEPT ![c] = r])
    BY DEF Accept
  <1>2. req[c].at \in Viewing /\ req[c].at \in Viewing \ {"hit"}
    BY <1>1 DEF Viewing
  <1>3. /\ UnderWay(c) /\ Covers(req[c].user, req[c].epoch, req[c].seen)
        /\ req[c].answers = req[c].question /\ req[c].always \subseteq req[c].seen
    BY <1>2, ViewServes
  <1>4. req[c].chunks \subseteq req[c].ever
    BY <1>2 DEF IndInv, RestInv
  <1>5. "served" \in Places /\ "served" \notin Viewing
    BY DEF Places, Viewing
  <1>6. CASE Goto(c, "served")
    BY <1>1, <1>3, <1>4, <1>5, <1>6, GotoKeeps
  <1>7. CASE req' = [req EXCEPT ![c] = r]
    <2>1. req[c] \in Request
      BY <1>3, UnderWayRequest
    <2>2. [req[c] EXCEPT !.at = "store"] \in Request
      BY <2>1 DEF Request, Places
    <2>3. gen \in Nat
      BY DEF IndInv, TypeOK
    <2>4. r \in Request
      BY <2>2, <2>3 DEF Request
    <2>5. /\ r.at = "store" /\ r.user = req[c].user /\ r.question = req[c].question
          /\ r.epoch = req[c].epoch /\ r.always = req[c].always /\ r.ever = req[c].ever
          /\ r.chunks = req[c].chunks /\ r.seen = req[c].seen /\ r.answers = req[c].answers
      BY <2>1 DEF Request
    <2> HIDE DEF r
    <2> QED
      BY <1>1, <1>3, <1>4, <1>7, <2>4, <2>5, RequestGoesOn
  <1> QED
    BY <1>1, <1>6, <1>7

(* The entry takes the stamp and the view of the request, which cover. *)
LEMMA StoreKeeps ==
  ASSUME IndInv, NEW c \in Clients, Store(c)
  PROVE  IndInv'
  <1> DEFINE r == [req[c] EXCEPT !.at = "served"]
             entry == [question |-> req[c].question, epoch |-> req[c].epoch,
                       chunks |-> req[c].chunks, gen |-> req[c].stamp, seen |-> req[c].seen]
  <1>1. /\ req[c].at = "store" /\ UNCHANGED <<corpus, gen>>
        /\ req' = [req EXCEPT ![c] = r]
        /\ cache' = [cache EXCEPT ![<<req[c].user, req[c].question>>] = entry]
    BY DEF Store, Goto
  <1>2. req[c].at \in Viewing /\ req[c].at \in Viewing \ {"hit"}
    BY <1>1 DEF Viewing
  <1>3. /\ UnderWay(c) /\ Covers(req[c].user, req[c].epoch, req[c].seen)
        /\ req[c].answers = req[c].question /\ req[c].always \subseteq req[c].seen
    BY <1>2, ViewServes
  <1>4. req[c].chunks \subseteq req[c].ever
    BY <1>2 DEF IndInv, RestInv
  <1>5. req[c] \in Request /\ req[c].user \in Users /\ req[c].question \in Questions
    BY <1>3, UnderWayRequest
  <1>6. entry \in Entry
    BY <1>5 DEF Request, Entry
  <1>7. entry.epoch = req[c].epoch /\ entry.seen = req[c].seen
    OBVIOUS
  <1>8. r \in Request
    BY <1>5 DEF Request, Places
  <1>9. /\ r.at = "served" /\ r.answers = req[c].answers /\ r.question = req[c].question
        /\ r.always = req[c].always /\ r.seen = req[c].seen
        /\ r.chunks = req[c].chunks /\ r.ever = req[c].ever
    BY <1>5 DEF Request
  <1>10. req[c].epoch <= epoch
    BY <1>3 DEF IndInv, StampInv
  <1> HIDE DEF r, entry
  <1>11. cache' \in [Users \X Questions -> Entry \cup {NoEntry}]
    BY <1>1, <1>5, <1>6, CacheAsItIs
  <1>12. ASSUME NEW u \in Users, NEW q \in Questions, cache'[<<u, q>>] # NoEntry
         PROVE  /\ cache'[<<u, q>>].epoch <= epoch
                /\ Covers(u, cache'[<<u, q>>].epoch, cache'[<<u, q>>].seen)
    <2>1. CASE u = req[c].user /\ q = req[c].question
      <3>1. cache'[<<u, q>>] = entry
        BY <1>1, <1>5, <2>1, CacheAsItIs
      <3> QED
        BY <1>3, <1>7, <1>10, <2>1, <3>1
    <2>2. CASE u # req[c].user \/ q # req[c].question
      <3>1. cache'[<<u, q>>] = cache[<<u, q>>]
        BY <1>1, <1>5, <2>2, CacheAsItIs
      <3> QED
        BY <1>12, <3>1, CacheAsItIs
    <2> QED
      BY <2>1, <2>2
  <1>13. r.at \notin Viewing
    BY <1>9 DEF Viewing
  <1> QED
    BY <1>1, <1>3, <1>4, <1>8, <1>9, <1>11, <1>12, <1>13, RequestMoves

LEMMA StoreFailsKeeps ==
  ASSUME IndInv, NEW c \in Clients, StoreFails(c)
  PROVE  IndInv'
  <1>1. req[c].at = "store" /\ UNCHANGED <<corpus, gen, cache>> /\ Goto(c, "served")
    BY DEF StoreFails
  <1>2. req[c].at \in Viewing /\ req[c].at \in Viewing \ {"hit"}
    BY <1>1 DEF Viewing
  <1>3. req[c].chunks \subseteq req[c].ever
    BY <1>2 DEF IndInv, RestInv
  <1>4. "served" \in Places /\ "served" \notin Viewing
    BY DEF Places, Viewing
  <1> QED
    BY <1>1, <1>2, <1>3, <1>4, ViewServes, GotoKeeps

-------------------------------------------------------------------------------
(***************************************************************************)
(* The theorems.                                                           *)
(***************************************************************************)

(* IndInv holds at the start: nothing is cached and nobody asks. *)
LEMMA InitInv == Init => IndInv
  <1> SUFFICES ASSUME Init PROVE IndInv
    OBVIOUS
  <1>1. /\ \A c \in Clients : req[c] = Idle /\ req[c].at = "idle"
        /\ \A u \in Users, q \in Questions : cache[<<u, q>>] = NoEntry
    BY DEF Init, Idle
  <1>2. epoch \in 0..MaxEpoch
    BY AnswerCacheAssumption DEF Init
  <1>3. TypeOK
    BY <1>2 DEF Init, TypeOK
  <1>4. StampInv /\ HistoryInv /\ EntryInv /\ ServedIsCurrent
    BY <1>1 DEF StampInv, HistoryInv, EntryInv, ServedIsCurrent, UnderWay
  <1>5. ViewInv /\ RestInv
    BY <1>1 DEF ViewInv, RestInv, Viewing
  <1> QED
    BY <1>3, <1>4, <1>5 DEF IndInv

(* Every step of a request keeps IndInv. *)
LEMMA RequestStepKeeps ==
  ASSUME IndInv, NEW c \in Clients, RequestStep(c)
  PROVE  IndInv'
  <1>1. ASSUME NEW u \in Users, NEW q \in Questions, Start(c, u, q)
        PROVE  IndInv'
    BY <1>1, StartKeeps
  <1>2. CASE Lookup(c) \/ LookupHit(c) \/ LookupMiss(c) \/ ServeHit(c)
    BY <1>2, LookupKeeps, LookupHitKeeps, LookupMissKeeps, ServeHitKeeps
  <1>3. CASE Search(c) \/ Expand(c) \/ CheckSources(c)
    BY <1>3, SearchKeeps, ExpandKeeps, CheckSourcesKeeps
  <1>4. CASE CheckEpoch(c) \/ RecheckSources(c) \/ Accept(c)
    BY <1>4, CheckEpochKeeps, RecheckSourcesKeeps, AcceptKeeps
  <1>5. CASE Store(c) \/ StoreFails(c)
    BY <1>5, StoreKeeps, StoreFailsKeeps
  <1>6. CASE Leave(c)
    <2>1. End(c) /\ UNCHANGED <<corpus, gen, cache>>
      BY <1>6 DEF Leave
    <2> QED
      BY <2>1, EndKeeps
  <1> QED
    BY <1>1, <1>2, <1>3, <1>4, <1>5, <1>6 DEF RequestStep

(* Every step of the system keeps IndInv. *)
LEMMA NextKeeps == IndInv /\ [Next]_vars => IndInv'
  <1> SUFFICES ASSUME IndInv, [Next]_vars PROVE IndInv'
    OBVIOUS
  <1>1. ASSUME NEW new \in [Users -> SUBSET Chunks], ChangeCorpus(new)
        PROVE  IndInv'
    <2>1. epoch \in 0..MaxEpoch /\ owed \in Nat
      BY DEF IndInv, TypeOK
    <2>2. /\ visible' = new /\ Witnessed(new) /\ UNCHANGED <<gen, cache>>
          /\ epoch' = epoch + 1 /\ epoch < MaxEpoch /\ owed' \in {owed, owed + 1}
      BY <1>1 DEF ChangeCorpus
    <2>3. epoch' \in 0..MaxEpoch /\ owed' \in Nat
      BY <2>1, <2>2, AnswerCacheAssumption
    <2> QED
      BY <2>2, <2>3, CorpusStep
  <1>2. ASSUME NEW gone \in SUBSET Chunks, WithdrawVectors(gone)
        PROVE  IndInv'
    <2> DEFINE new == [u \in Users |-> visible[u] \ gone]
    <2>1. visible \in [Users -> SUBSET Chunks] /\ epoch \in 0..MaxEpoch /\ owed \in Nat
      BY DEF IndInv, TypeOK
    <2>2. new \in [Users -> SUBSET Chunks]
      BY <2>1
    <2>3. /\ visible' = new /\ Witnessed(new) /\ UNCHANGED <<gen, cache>>
          /\ epoch' = epoch /\ owed' = owed
      BY <1>2 DEF WithdrawVectors
    <2>4. \A u \in Users : new[u] \subseteq visible[u]
      OBVIOUS
    <2> HIDE DEF new
    <2> QED
      BY <2>1, <2>2, <2>3, <2>4, CorpusStep
  <1>3. CASE Invalidate
    <2>1. owed \in Nat /\ gen \in Nat /\ cache \in [Users \X Questions -> Entry \cup {NoEntry}]
      BY DEF IndInv, TypeOK
    <2>2. /\ owed > 0 /\ owed' = owed - 1 /\ gen' \in {gen, gen + 1}
          /\ UNCHANGED <<visible, epoch, cache, req>>
      BY <1>3 DEF Invalidate
    <2> QED
      BY <2>1, <2>2, CacheStep
  <1>4. ASSUME NEW u \in Users, NEW q \in Questions, Expire(u, q)
        PROVE  IndInv'
    <2>1. owed \in Nat /\ gen \in Nat /\ cache \in [Users \X Questions -> Entry \cup {NoEntry}]
      BY DEF IndInv, TypeOK
    <2>2. /\ cache' = [cache EXCEPT ![<<u, q>>] = NoEntry]
          /\ visible' = visible /\ epoch' = epoch /\ owed' = owed /\ gen' = gen /\ req' = req
      BY <1>4 DEF Expire, corpus
    <2>3. cache' \in [Users \X Questions -> Entry \cup {NoEntry}]
      BY <2>1, <2>2
    <2>4. \A v \in Users, w \in Questions : cache'[<<v, w>>] \in {cache[<<v, w>>], NoEntry}
      BY <2>1, <2>2
    <2> QED
      BY <2>1, <2>2, <2>3, <2>4, CacheStep
  <1>5. CASE \E c \in Clients : RequestStep(c)
    BY <1>5, RequestStepKeeps
  <1>6. CASE UNCHANGED vars
    <2>1. /\ visible' = visible /\ epoch' = epoch /\ owed' = owed /\ gen' = gen
          /\ cache' = cache /\ req' = req
      BY <1>6 DEF vars, corpus
    <2>2. owed \in Nat /\ gen \in Nat /\ cache \in [Users \X Questions -> Entry \cup {NoEntry}]
      BY DEF IndInv, TypeOK
    <2> QED
      BY <2>1, <2>2, CacheStep
  <1> QED
    BY <1>1, <1>2, <1>3, <1>4, <1>5, <1>6 DEF Next

(* IndInv is an invariant, whatever the interleaving of requests, changes  *)
(* of the corpus, invalidations and expiries.                              *)
THEOREM Invariance == Spec => []IndInv
  BY InitInv, NextKeeps, PTL DEF Spec

(* The variables have their types: in particular every entry of the cache  *)
(* carries the stamp and the view of a request.                            *)
THEOREM TypeCorrect == Spec => []TypeOK
  <1>1. IndInv => TypeOK
    BY DEF IndInv
  <1> QED
    BY <1>1, Invariance, PTL

(* An entry stamped with the present epoch was made with everything its    *)
(* user can retrieve now in view: an answer stored late by a request that  *)
(* raced a change of the corpus never passes for current.                  *)
THEOREM CurrentEntries == Spec => []CurrentEntriesComplete
  <1>1. IndInv => CurrentEntriesComplete
    BY DEF IndInv, EntryInv, Covers, CurrentEntriesComplete
  <1> QED
    BY <1>1, Invariance, PTL

(* An answer that is served is one to its question, from a view that       *)
(* lacked nothing the user could retrieve all along, and rests on nothing  *)
(* the user could never retrieve meanwhile: cached or not.                 *)
THEOREM ServedCurrent == Spec => []ServedIsCurrent
  <1>1. IndInv => ServedIsCurrent
    BY DEF IndInv
  <1> QED
    BY <1>1, Invariance, PTL

===============================================================================
