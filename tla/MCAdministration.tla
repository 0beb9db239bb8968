--------------------------- MODULE MCAdministration ---------------------------
\* Two handlers at a time, three accounts; two chunks, two profiles, two processes;
\* two uploads under way, up to four documents; one job of two workers.
EXTENDS Administration, TLC

Author == [tenant |-> "t1", user |-> "u1", role |-> "member"]
Colleague == [tenant |-> "t1", user |-> "u2", role |-> "member"]
Boss == [tenant |-> "t1", user |-> "u3", role |-> "admin"]
Platform == [tenant |-> "t2", user |-> "u4", role |-> "admin"]

MCPrincipals == {Boss, Platform}
MCCallers == {Author, Colleague}

MCUpload(by, name, sha, document, visibility, scope, size) ==
    [by |-> by, name |-> name, sha |-> sha, document |-> document, visibility |-> visibility, scope |-> scope,
     known |-> TRUE, size |-> size]

\* New documents, new versions by name and by document, and one that is refused for
\* a visibility that is empty.
MCUploads == {
    MCUpload(Author, "n1", "k1", NoDocument, "tenant", Omitted, 1),
    MCUpload(Author, "n1", "k2", NoDocument, Omitted, Omitted, 1),
    MCUpload(Author, "n1", "k3", 1, Omitted, Omitted, 1),
    MCUpload(Author, "n3", "k3", NoDocument, "", Omitted, 1),
    MCUpload(Author, "n2", "k1", NoDocument, Omitted, "global", 1),
    MCUpload(Platform, "n1", "k1", NoDocument, Omitted, "global", 1),
    MCUpload(Boss, "n4", "k4", 2, Omitted, "tenant", 2)}

MCRow(owner, sha, name, visibility) ==
    [state |-> "present", tenant |-> "t1", owner |-> owner, sha |-> sha, name |-> name, visibility |-> visibility,
     acl |-> {}, scope |-> "tenant", version |-> 1, touched |-> 0]

\* A private document from before versions were kept, and one its tenant sees.
MCStock ==
    <<[row |-> MCRow("u1", "k1", "n1", "private"), versioned |-> FALSE],
      [row |-> MCRow("u2", "k2", "n2", "tenant"), versioned |-> TRUE]>>

\* Handlers, uploads under way, workers and tables are alike, and so are emails and
\* chunks.  Sets of different parts have the same elements, so that one small group
\* serves them all: a behaviour is of one part.
AdministrationSymmetry == Permutations(Calls) \cup Permutations(Emails)
================================================================================
