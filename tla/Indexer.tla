------------------------------- MODULE Indexer -------------------------------
(***************************************************************************)
(* The retrieval index of apps/server: a request of index.post.ts reads a  *)
(* project's source files (or its open issues) from GitLab and rewrites    *)
(* the rows of the embeddings table, document by document.  Requests are   *)
(* not serialised, the statements for one document are not one             *)
(* transaction, and a request may stop at any of its calls.                *)
(***************************************************************************)
EXTENDS Naturals, FiniteSets

CONSTANTS
  Runs,         \* indexing requests the server may be serving at once
  Paths,        \* source paths of documents
  Texts,        \* contents of documents
  Size,         \* the number of chunks chunkText makes of each text
  Nothing,      \* a document that does not exist, and its text
  MaxEdits,     \* bound: changes in GitLab
  MaxFailures   \* bound: requests that fail on a call

ASSUME SizeAssumption == Size \in [Texts -> Nat]
ASSUME NothingAssumption == Nothing \notin Texts \cup Paths
ASSUME BoundsAssumption == MaxEdits \in Nat /\ MaxFailures \in Nat

VARIABLES
  source,     \* "code": files, read one by one; "issue": listed with their text
  repo,       \* GitLab: the text of each document
  table,      \* the embeddings: how many rows each chunk of each path has
  pc,         \* what each request does next
  todo,       \* the listed documents it has not come to
  doc,        \* the document it is at: path and text
  inserted,   \* how many of its chunks it has inserted
  seen,       \* the paths it will not delete as orphans
  edits, failures,
  torn,       \* paths whose rows two requests, or a failure, left in disorder
  clean       \* has the request been alone, and GitLab unchanged, so far

request == <<pc, todo, doc, inserted, seen>>
vars    == <<source, repo, table, request, edits, failures, torn, clean>>

----------------------------------------------------------------------------
(* The table *)

\* A row is the i-th chunk of a text; it carries the hash of the whole text.
Chunks == UNION {{t} \X (1..Size[t]) : t \in Texts}
NoRows == [x \in Chunks |-> 0]
Rows(t, n) == [x \in Chunks |-> IF x[1] = t /\ x[2] <= n THEN 1 ELSE 0]

\* The rows the index should have for a document.
Indexed(t) == IF t = Nothing THEN NoRows ELSE Rows(t, Size[t])

\* The requests that have deleted the rows of path p and are inserting others.
Writers(p) == {r \in Runs : pc[r] = "insert" /\ doc[r][1] = p}

----------------------------------------------------------------------------
(* GitLab *)

NoDoc == <<Nothing, Nothing>>

\* What a document may be: the title and the text of an issue, which are never
\* blank, are embedded as one chunk.
Contents == {t \in Texts : source = "issue" => Size[t] = 1} \cup {Nothing}

Init ==
  /\ source \in {"code", "issue"}
  /\ repo \in [Paths -> Contents]
  /\ table = [p \in Paths |-> NoRows]
  /\ pc = [r \in Runs |-> "idle"]
  /\ todo = [r \in Runs |-> {}] /\ doc = [r \in Runs |-> NoDoc]
  /\ inserted = [r \in Runs |-> 0] /\ seen = [r \in Runs |-> {}]
  /\ edits = 0 /\ failures = 0
  /\ torn = {} /\ clean = [r \in Runs |-> FALSE]

\* A document is added, changed or removed.
Edit ==
  /\ edits < MaxEdits /\ edits' = edits + 1
  /\ \E p \in Paths, t \in Contents : repo' = [repo EXCEPT ![p] = t]
  /\ clean' = [r \in Runs |-> FALSE]
  /\ UNCHANGED <<source, table, request, failures, torn>>

----------------------------------------------------------------------------
(* An indexing request *)

\* What the listing gives of a document: a file's text is read later.
Listed(p) == IF source = "code" THEN <<p, Nothing>> ELSE <<p, repo[p]>>

Start(r) ==
  /\ pc[r] = "idle"
  /\ pc' = [pc EXCEPT ![r] = "read"]
  /\ todo' = [todo EXCEPT ![r] = {Listed(p) : p \in {q \in Paths : repo[q] # Nothing}}]
  /\ clean' = [q \in Runs |-> q = r /\ \A other \in Runs : pc[other] = "idle"]
  /\ UNCHANGED <<source, repo, table, doc, inserted, seen, edits, failures, torn>>

\* The text of a listed document d, Nothing if its file is gone.
TextOf(d) == IF d[2] = Nothing THEN repo[d[1]] ELSE d[2]

\* Mutant of IsBlank: an empty text is indexed like any other.
NeverBlank(t) == FALSE

IsBlank(t) == Size[t] = 0

\* Blank documents are passed over: they are not seen.
Read(r) ==
  /\ pc[r] = "read"
  /\ \E d \in todo[r] :
       /\ TextOf(d) # Nothing
       /\ todo' = [todo EXCEPT ![r] = @ \ {d}]
       /\ IF IsBlank(TextOf(d))
          THEN UNCHANGED <<pc, doc>>
          ELSE /\ pc' = [pc EXCEPT ![r] = "select"]
               /\ doc' = [doc EXCEPT ![r] = <<d[1], TextOf(d)>>]
  /\ UNCHANGED <<source, repo, table, inserted, seen, edits, failures, torn, clean>>

\* Mutant of Unchanged: whatever has rows is taken for unchanged.
AnyRow(r) == {TRUE : x \in {y \in Chunks : table[doc[r][1]][y] > 0}}

\* What comparing the hash of a row of the path, any row, with that of the
\* text may give.
Unchanged(r) ==
  {x[1] = doc[r][2] : x \in {y \in Chunks : table[doc[r][1]][y] > 0}}

\* Mutant of Skipped: what is skipped is not seen.
SkippedUnseen(r) == seen

Skipped(r) == [seen EXCEPT ![r] = @ \cup {doc[r][1]}]

Skip(r) ==
  /\ pc[r] = "select"
  /\ TRUE \in Unchanged(r)
  /\ seen' = Skipped(r)
  /\ pc' = [pc EXCEPT ![r] = "read"] /\ doc' = [doc EXCEPT ![r] = NoDoc]
  /\ UNCHANGED <<source, repo, table, todo, inserted, edits, failures, torn, clean>>

\* Mutant of Emptied: the rows that have another hash are kept.
EmptiedOfText(r) ==
  [x \in Chunks |-> IF x[1] = doc[r][2] THEN 0 ELSE table[doc[r][1]][x]]

Emptied(r) == NoRows

\* The text is embedded, which takes a while, before the rows are deleted.
Embed(r) ==
  /\ pc[r] = "select"
  /\ Unchanged(r) = {} \/ FALSE \in Unchanged(r)
  /\ pc' = [pc EXCEPT ![r] = "delete"]
  /\ UNCHANGED <<source, repo, table, todo, doc, inserted, seen, edits, failures, torn, clean>>

Delete(r) ==
  /\ pc[r] = "delete"
  /\ table' = [table EXCEPT ![doc[r][1]] = Emptied(r)]
  /\ pc' = [pc EXCEPT ![r] = "insert"] /\ inserted' = [inserted EXCEPT ![r] = 0]
  /\ torn' = IF Writers(doc[r][1]) = {} THEN torn \ {doc[r][1]}
             ELSE torn \cup {doc[r][1]}
  /\ UNCHANGED <<source, repo, todo, doc, seen, edits, failures, clean>>

\* The row of the next chunk.  The chunks are all inserted: the code would skip
\* one without an embedding, but the API answers one for each, or an error.
Insert(r) ==
  /\ pc[r] = "insert"
  /\ table' = [table EXCEPT ![doc[r][1]][<<doc[r][2], inserted[r] + 1>>] = @ + 1]
  /\ IF inserted[r] + 1 < Size[doc[r][2]]
     THEN inserted' = [inserted EXCEPT ![r] = @ + 1] /\ UNCHANGED <<pc, doc, seen>>
     ELSE /\ inserted' = [inserted EXCEPT ![r] = 0]
          /\ seen' = [seen EXCEPT ![r] = @ \cup {doc[r][1]}]
          /\ pc' = [pc EXCEPT ![r] = "read"] /\ doc' = [doc EXCEPT ![r] = NoDoc]
  /\ UNCHANGED <<source, repo, todo, edits, failures, torn, clean>>

\* The request is over, or has failed; the next one starts from nothing.
Stop(r) ==
  /\ pc' = [pc EXCEPT ![r] = "idle"]
  /\ todo' = [todo EXCEPT ![r] = {}] /\ doc' = [doc EXCEPT ![r] = NoDoc]
  /\ inserted' = [inserted EXCEPT ![r] = 0] /\ seen' = [seen EXCEPT ![r] = {}]
  /\ clean' = [clean EXCEPT ![r] = FALSE]

\* The rows of the paths not seen are deleted, even under a request that is
\* inserting some.
DeleteOrphans(r) ==
  /\ pc[r] = "read" /\ todo[r] = {}
  /\ table' = [p \in Paths |-> IF p \in seen[r] THEN table[p] ELSE NoRows]
  /\ torn' = {p \in torn : p \in seen[r] \/ Writers(p) # {}}
               \cup {p \in Paths \ seen[r] : \E w \in Writers(p) : inserted[w] > 0}
  /\ Stop(r)
  /\ UNCHANGED <<source, repo, edits, failures>>

\* What the request leaves of the document it was inserting stays.
Abandon(r) ==
  /\ Stop(r)
  /\ torn' = IF pc[r] = "insert" /\ inserted[r] > 0 THEN torn \cup {doc[r][1]} ELSE torn
  /\ UNCHANGED <<source, repo, table, edits>>

\* A listed file that is gone cannot be read: the request fails.
FileGone(r) ==
  /\ pc[r] = "read"
  /\ \E d \in todo[r] : TextOf(d) = Nothing
  /\ Abandon(r)
  /\ UNCHANGED failures

\* GitLab, the embedding service or the database fails, or the server stops.
Fail(r) ==
  /\ pc[r] # "idle"
  /\ failures < MaxFailures /\ failures' = failures + 1
  /\ Abandon(r)

Step(r) ==
  \/ Start(r) \/ Read(r) \/ Skip(r) \/ Embed(r) \/ Delete(r) \/ Insert(r)
  \/ DeleteOrphans(r) \/ FileGone(r)

Next == Edit \/ \E r \in Runs : Step(r) \/ Fail(r)

Spec == Init /\ [][Next]_vars

\* Indexing is asked for again and again, and every request goes on.
FairSpec == Spec /\ \A r \in Runs : WF_vars(Step(r))

----------------------------------------------------------------------------
(* Properties *)

Docs   == (Paths \X Texts) \cup {NoDoc}
Places == {"idle", "read", "select", "delete", "insert"}

StoreType ==
  /\ source \in {"code", "issue"}
  /\ repo \in [Paths -> Texts \cup {Nothing}]
  /\ table \in [Paths -> [Chunks -> Nat]]
  /\ torn \in SUBSET Paths
  /\ edits \in Nat /\ failures \in Nat

RequestType ==
  /\ pc \in [Runs -> Places]
  /\ todo \in [Runs -> SUBSET (Paths \X (Texts \cup {Nothing}))]
  /\ doc \in [Runs -> Docs]
  /\ inserted \in [Runs -> Nat] /\ seen \in [Runs -> SUBSET Paths]
  /\ clean \in [Runs -> BOOLEAN]

\* A request is at a document, with at least one chunk, while it selects,
\* deletes or inserts; while it inserts, it has a chunk left to insert.
AtDocument ==
  \A r \in Runs :
    /\ pc[r] \in {"select", "delete", "insert"} <=> doc[r] # NoDoc
    /\ doc[r] # NoDoc => Size[doc[r][2]] > 0
    /\ pc[r] = "insert" => inserted[r] < Size[doc[r][2]]

\* Every variable keeps its type.
TypeOK == StoreType /\ RequestType /\ AtDocument

\* The rows of a path that no request is writing are those of one text, or
\* none, unless a failure, or another request, came between the first insert
\* and the last: that exact list of accidents, and no other, leaves a
\* document in disorder, whatever the requests and the edits in between.
WholeUnlessTorn ==
  \A p \in Paths \ torn :
    Writers(p) = {} => \E t \in Texts \cup {Nothing} : table[p] = Indexed(t)

\* A request that ran alone, while nothing changed in GitLab, leaves exactly
\* the rows of every document as it now is, orphans removed and unchanged
\* documents kept, whatever the table was before, torn paths excepted.
CleanRunIsExact ==
  [][\A r \in Runs :
       (clean[r] /\ DeleteOrphans(r))
         => \A p \in Paths \ torn' : table'[p] = Indexed(repo[p])]_vars

\* Once failures and edits are over, asking for the index again leaves every
\* document as it is in GitLab, whatever was left half done: torn ones excepted,
\* which no issue is but by two requests at once.
ReconvergesUnlessTorn ==
  <>[]((\A r \in Runs : pc[r] = "idle") =>
         \A p \in Paths \ torn : table[p] = Indexed(repo[p]))

\* "A re-run reconverges": once failures and edits are over, asking for the
\* index again makes it what it should be, whatever was left half done.
Reconverges ==
  <>[]((\A r \in Runs : pc[r] = "idle") => table = [p \in Paths |-> Indexed(repo[p])])
=============================================================================
