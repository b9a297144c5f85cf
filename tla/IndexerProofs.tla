---------------------------- MODULE IndexerProofs ----------------------------
(***************************************************************************)
(* For any number of requests, documents and texts: a document no failure  *)
(* and no other request came across has the rows of one text, and a        *)
(* request that ran alone leaves the index exact.                          *)
(***************************************************************************)
EXTENDS Indexer, TLAPS

\* A path out of disorder has the rows of one text, or has one writer and
\* the rows that it has inserted.
Whole(p) == Writers(p) = {} /\ \E t \in Texts \cup {Nothing} : table[p] = Indexed(t)
HalfWritten(p) ==
  \E r \in Runs : Writers(p) = {r} /\ table[p] = Rows(doc[r][2], inserted[r])

OrderOK == \A p \in Paths \ torn : Whole(p) \/ HalfWritten(p)

\* A request that runs alone has left every document it has seen as it
\* should be, and has met, or will meet, every document there is, once.
CleanRequest(r) ==
  /\ pc[r] # "idle"
  /\ \A q \in Runs : q # r => pc[q] = "idle"
  /\ \A d \in todo[r] : d = Listed(d[1]) /\ d[1] \notin seen[r] /\ d[1] # doc[r][1]
  /\ doc[r] # NoDoc => doc[r][2] = repo[doc[r][1]] /\ doc[r][1] \notin seen[r]
  /\ \A p \in seen[r] \ torn : table[p] = Indexed(repo[p])
  /\ \A p \in Paths :
       \/ Indexed(repo[p]) = NoRows
       \/ p \in seen[r] \/ p = doc[r][1] \/ Listed(p) \in todo[r]

IdleOK  == \A r \in Runs : pc[r] = "idle" => seen[r] = {}
CleanOK == \A r \in Runs : clean[r] => CleanRequest(r)

IInv == TypeOK /\ OrderOK /\ IdleOK /\ CleanOK

----------------------------------------------------------------------------
(* Rows *)

USE SizeAssumption, NothingAssumption

\* The chunks of a text are numbered from 1 to its size.
LEMMA ChunkRange ==
  /\ \A x \in Chunks : x[1] \in Texts /\ x[2] \in Nat /\ x[2] >= 1 /\ x[2] <= Size[x[1]]
                         /\ x = <<x[1], x[2]>>
  /\ \A t \in Texts, n \in Nat : n < Size[t] => <<t, n + 1>> \in Chunks
<1>1. ASSUME NEW x \in Chunks
      PROVE  x[1] \in Texts /\ x[2] \in Nat /\ x[2] >= 1 /\ x[2] <= Size[x[1]]
               /\ x = <<x[1], x[2]>>
  <2>1. PICK t \in Texts : x \in {t} \X (1..Size[t])
    BY DEF Chunks
  <2>2. Size[t] \in Nat
    OBVIOUS
  <2> QED
    BY <2>1, <2>2
<1>2. ASSUME NEW t \in Texts, NEW n \in Nat, n < Size[t]
      PROVE  <<t, n + 1>> \in Chunks
  <2>1. Size[t] \in Nat
    OBVIOUS
  <2>2. <<t, n + 1>> \in {t} \X (1..Size[t])
    BY <1>2, <2>1
  <2> QED
    BY <2>2 DEF Chunks
<1> QED
  BY <1>1, <1>2

\* Rows are counted by naturals; no chunk is numbered 0; a text's rows in
\* full are what the index should have for it.
LEMMA RowsFacts ==
  /\ NoRows \in [Chunks -> Nat]
  /\ \A t \in Texts, n \in Nat : Rows(t, n) \in [Chunks -> Nat]
  /\ \A t \in Texts : Rows(t, 0) = NoRows
  /\ \A t \in Texts : Rows(t, Size[t]) = Indexed(t)
  /\ Indexed(Nothing) = NoRows
<1>1. NoRows \in [Chunks -> Nat] /\ \A t \in Texts, n \in Nat : Rows(t, n) \in [Chunks -> Nat]
  BY DEF NoRows, Rows
<1>2. \A t \in Texts : Rows(t, 0) = NoRows
  BY ChunkRange DEF NoRows, Rows
<1>3. \A t \in Texts : Rows(t, Size[t]) = Indexed(t)
  BY DEF Indexed
<1>4. Indexed(Nothing) = NoRows
  BY DEF Indexed
<1> QED
  BY <1>1, <1>2, <1>3, <1>4

\* Inserting the next chunk of a text extends its rows by one.
LEMMA InsertNext ==
  ASSUME NEW t \in Texts, NEW n \in Nat, n < Size[t]
  PROVE  [Rows(t, n) EXCEPT ![<<t, n + 1>>] = @ + 1] = Rows(t, n + 1)
<1> DEFINE new == [Rows(t, n) EXCEPT ![<<t, n + 1>>] = @ + 1]
<1>1. <<t, n + 1>> \in Chunks
  BY ChunkRange
<1>2. Rows(t, n)[<<t, n + 1>>] = 0
  BY <1>1 DEF Rows
<1>3. ASSUME NEW x \in Chunks
      PROVE  new[x] = Rows(t, n + 1)[x]
  <2>1. CASE x = <<t, n + 1>>
    BY <1>1, <1>2, <2>1 DEF Rows
  <2>2. CASE x # <<t, n + 1>>
    <3>1. new[x] = Rows(t, n)[x]
      BY <1>1, <2>2 DEF Rows
    <3>2. x[1] = t => x[2] # n + 1
      BY <2>2, ChunkRange
    <3>3. x[1] = t => (x[2] <= n <=> x[2] <= n + 1)
      BY <3>2, ChunkRange
    <3> QED
      BY <3>1, <3>3 DEF Rows
  <2> QED
    BY <2>1, <2>2
<1> QED
  BY <1>3 DEF Rows

\* A row of a text is among those the index should have for t only if it is
\* of text t.
LEMMA RowsOfOneText ==
  ASSUME NEW t \in Texts \cup {Nothing}, NEW x \in Chunks, Indexed(t)[x] > 0
  PROVE  t = x[1]
  BY DEF Indexed, Rows, NoRows

----------------------------------------------------------------------------
(* Types *)

LEMMA NoDocFacts ==
  ASSUME NEW d \in Docs
  PROVE  /\ d # NoDoc => d[1] \in Paths /\ d[2] \in Texts /\ d[2] # Nothing /\ d[1] # Nothing
         /\ NoDoc[1] = Nothing /\ NoDoc[2] = Nothing
         /\ d \in Paths \X Texts => d # NoDoc
  BY DEF Docs, NoDoc

LEMMA StoreStep ==
  ASSUME TypeOK, [Next]_vars
  PROVE  StoreType'
<1> USE DEF StoreType
<1>1. CASE Edit
  BY <1>1 DEF TypeOK, Edit, request, Contents
<1>2. ASSUME NEW r \in Runs, Start(r) \/ Read(r) \/ Skip(r) \/ Embed(r)
      PROVE  StoreType'
  BY <1>2 DEF TypeOK, Start, Read, Skip, Embed
<1>3. ASSUME NEW r \in Runs, Delete(r)
      PROVE  StoreType'
  <2>1. doc[r] \in Docs /\ doc[r] # NoDoc
    BY <1>3 DEF TypeOK, RequestType, AtDocument, Delete
  <2>2. doc[r][1] \in Paths
    BY <2>1, NoDocFacts
  <2> QED
    BY <1>3, <2>2, RowsFacts DEF TypeOK, Delete, Emptied
<1>4. ASSUME NEW r \in Runs, Insert(r)
      PROVE  StoreType'
  <2>1. doc[r] \in Docs /\ doc[r] # NoDoc /\ inserted[r] \in Nat
    BY <1>4 DEF TypeOK, RequestType, AtDocument, Insert
  <2>2. doc[r][1] \in Paths /\ doc[r][2] \in Texts /\ inserted[r] < Size[doc[r][2]]
    BY <1>4, <2>1, NoDocFacts DEF TypeOK, AtDocument, Insert
  <2>5. <<doc[r][2], inserted[r] + 1>> \in Chunks
    BY <2>1, <2>2, ChunkRange
  <2>6. table[doc[r][1]] \in [Chunks -> Nat]
    BY <2>2 DEF TypeOK
  <2>3. [table[doc[r][1]] EXCEPT ![<<doc[r][2], inserted[r] + 1>>] = @ + 1] \in [Chunks -> Nat]
    BY <2>5, <2>6
  <2>4. table' \in [Paths -> [Chunks -> Nat]]
    BY <1>4, <2>2, <2>3 DEF TypeOK, Insert
  <2> QED
    BY <1>4, <2>4 DEF TypeOK, Insert
<1>5. ASSUME NEW r \in Runs, DeleteOrphans(r)
      PROVE  StoreType'
  BY <1>5, RowsFacts DEF TypeOK, DeleteOrphans
<1>6. ASSUME NEW r \in Runs, FileGone(r) \/ Fail(r)
      PROVE  StoreType'
  <2>1. pc[r] = "insert" => doc[r][1] \in Paths
    BY NoDocFacts DEF TypeOK, RequestType, AtDocument
  <2> QED
    BY <1>6, <2>1 DEF TypeOK, FileGone, Fail, Abandon
<1>7. CASE UNCHANGED vars
  BY <1>7 DEF TypeOK, vars, request
<1> QED
  BY <1>1, <1>2, <1>3, <1>4, <1>5, <1>6, <1>7 DEF Next, Step

LEMMA RequestStep ==
  ASSUME TypeOK, [Next]_vars
  PROVE  RequestType'
<1> USE DEF TypeOK, RequestType
<1>1. pc' \in [Runs -> Places]
  <2>1. {"idle", "read", "select", "delete", "insert"} \subseteq Places
    BY DEF Places
  <2> QED
    BY <2>1 DEF Next, vars, request, Edit, Step, Start, Read, Skip, Embed, Delete,
                Insert, DeleteOrphans, FileGone, Fail, Abandon, Stop
<1>2. todo' \in [Runs -> SUBSET (Paths \X (Texts \cup {Nothing}))]
  <2>1. ASSUME NEW r \in Runs, Start(r)
        PROVE  todo' \in [Runs -> SUBSET (Paths \X (Texts \cup {Nothing}))]
    <3>1. \A p \in Paths : Listed(p) \in Paths \X (Texts \cup {Nothing})
      BY DEF StoreType, Listed
    <3> QED
      BY <2>1, <3>1 DEF Start
  <2>2. ASSUME NEW r \in Runs, Read(r)
        PROVE  todo' \in [Runs -> SUBSET (Paths \X (Texts \cup {Nothing}))]
    BY <2>2 DEF Read
  <2>3. ASSUME NEW r \in Runs, DeleteOrphans(r) \/ FileGone(r) \/ Fail(r)
        PROVE  todo' \in [Runs -> SUBSET (Paths \X (Texts \cup {Nothing}))]
    BY <2>3 DEF DeleteOrphans, FileGone, Fail, Abandon, Stop
  <2> QED
    BY <2>1, <2>2, <2>3 DEF Next, vars, request, Edit, Step, Skip, Embed, Delete, Insert
<1>3. doc' \in [Runs -> Docs]
  <2>1. NoDoc \in Docs
    BY DEF Docs
  <2>2. ASSUME NEW r \in Runs, Read(r)
        PROVE  doc' \in [Runs -> Docs]
    <3>1. PICK d \in todo[r] : Read(r)!2!(d)
      BY <2>2 DEF Read
    <3>2. d[1] \in Paths /\ TextOf(d) \in Texts
      BY <3>1 DEF StoreType, TextOf
    <3>3. <<d[1], TextOf(d)>> \in Docs
      BY <3>2 DEF Docs
    <3> QED
      BY <3>1, <3>3
  <2> QED
    BY <2>1, <2>2 DEF Next, vars, request, Edit, Step, Start, Skip, Embed, Delete,
                      Insert, DeleteOrphans, FileGone, Fail, Abandon, Stop
<1>4. inserted' \in [Runs -> Nat]
  <2>1. ASSUME NEW r \in Runs, Delete(r) \/ Insert(r)
        PROVE  inserted' \in [Runs -> Nat]
    BY <2>1 DEF Delete, Insert
  <2>2. ASSUME NEW r \in Runs, DeleteOrphans(r) \/ FileGone(r) \/ Fail(r)
        PROVE  inserted' \in [Runs -> Nat]
    BY <2>2 DEF DeleteOrphans, FileGone, Fail, Abandon, Stop
  <2> QED
    BY <2>1, <2>2 DEF Next, vars, request, Edit, Step, Start, Read, Skip, Embed
<1>5. seen' \in [Runs -> SUBSET Paths]
  <2>1. ASSUME NEW r \in Runs, Skip(r) \/ Insert(r)
        PROVE  seen' \in [Runs -> SUBSET Paths]
    <3>1. doc[r][1] \in Paths
      BY <2>1, NoDocFacts DEF AtDocument, Skip, Insert
    <3>2. seen' = seen \/ seen' = [seen EXCEPT ![r] = @ \cup {doc[r][1]}]
      BY <2>1 DEF Skip, Skipped, Insert
    <3> QED
      BY <3>1, <3>2
  <2>2. ASSUME NEW r \in Runs, DeleteOrphans(r) \/ FileGone(r) \/ Fail(r)
        PROVE  seen' \in [Runs -> SUBSET Paths]
    BY <2>2 DEF DeleteOrphans, FileGone, Fail, Abandon, Stop
  <2> QED
    BY <2>1, <2>2 DEF Next, vars, request, Edit, Step, Start, Read, Embed, Delete
<1>6. clean' \in [Runs -> BOOLEAN]
  <2>1. ASSUME NEW r \in Runs, DeleteOrphans(r) \/ FileGone(r) \/ Fail(r)
        PROVE  clean' \in [Runs -> BOOLEAN]
    BY <2>1 DEF DeleteOrphans, FileGone, Fail, Abandon, Stop
  <2>2. ASSUME NEW r \in Runs, Start(r)
        PROVE  clean' \in [Runs -> BOOLEAN]
    BY <2>2 DEF Start
  <2> QED
    BY <2>1, <2>2 DEF Next, vars, request, Edit, Step, Read, Skip, Embed, Delete, Insert
<1> QED
  BY <1>1, <1>2, <1>3, <1>4, <1>5, <1>6

LEMMA AtDocumentStep ==
  ASSUME TypeOK, [Next]_vars
  PROVE  AtDocument'
<1> USE DEF AtDocument
<1>0. RequestType
  BY DEF TypeOK
<1>1. CASE Edit
  BY <1>1 DEF TypeOK, Edit, request
<1>2. ASSUME NEW r \in Runs, Start(r) \/ Embed(r)
      PROVE  AtDocument'
  BY <1>0, <1>2 DEF TypeOK, RequestType, Start, Embed
<1>3. ASSUME NEW r \in Runs, Read(r)
      PROVE  AtDocument'
  <2>1. PICK d \in todo[r] : Read(r)!2!(d)
    BY <1>3 DEF Read
  <2>2. d[1] \in Paths
    BY <1>0, <2>1 DEF RequestType
  <2>3. <<d[1], TextOf(d)>> # NoDoc
    BY <2>2, NothingAssumption DEF NoDoc
  <2>4. TextOf(d) \in Texts
    BY <1>0, <2>1 DEF TypeOK, StoreType, RequestType, TextOf
  <2>5. ~IsBlank(TextOf(d)) => Size[TextOf(d)] > 0
    BY <2>4 DEF IsBlank
  <2> QED
    BY <1>0, <1>3, <2>1, <2>3, <2>5 DEF TypeOK, RequestType, Read
<1>4. ASSUME NEW r \in Runs, Skip(r)
      PROVE  AtDocument'
  BY <1>0, <1>4 DEF TypeOK, RequestType, Skip
<1>5. ASSUME NEW r \in Runs, Delete(r)
      PROVE  AtDocument'
  BY <1>0, <1>5 DEF TypeOK, RequestType, Delete
<1>6. ASSUME NEW r \in Runs, Insert(r)
      PROVE  AtDocument'
  BY <1>0, <1>6 DEF TypeOK, RequestType, Insert
<1>7. ASSUME NEW r \in Runs, DeleteOrphans(r) \/ FileGone(r) \/ Fail(r)
      PROVE  AtDocument'
  BY <1>0, <1>7 DEF TypeOK, RequestType, DeleteOrphans, FileGone, Fail, Abandon, Stop
<1>8. CASE UNCHANGED vars
  BY <1>8 DEF TypeOK, vars, request
<1> QED
  BY <1>1, <1>2, <1>3, <1>4, <1>5, <1>6, <1>7, <1>8 DEF Next, Step

LEMMA TypeStep ==
  ASSUME TypeOK, [Next]_vars
  PROVE  TypeOK'
<1> HIDE SizeAssumption, NothingAssumption
<1>1. StoreType' /\ RequestType' /\ AtDocument'
  BY StoreStep, RequestStep, AtDocumentStep
<1> QED
  BY <1>1 DEF TypeOK

----------------------------------------------------------------------------
(* Order *)

\* A path no step touches stays as it is.
LEMMA SamePath ==
  ASSUME OrderOK, NEW p \in Paths \ torn,
         Writers(p)' = Writers(p), table'[p] = table[p],
         \A w \in Writers(p) : doc'[w] = doc[w] /\ inserted'[w] = inserted[w]
  PROVE  (Whole(p) \/ HalfWritten(p))'
<1>1. CASE Whole(p)
  BY <1>1 DEF Whole
<1>2. CASE HalfWritten(p)
  <2>1. PICK r \in Runs : Writers(p) = {r} /\ table[p] = Rows(doc[r][2], inserted[r])
    BY <1>2 DEF HalfWritten
  <2> QED
    BY <2>1 DEF HalfWritten
<1> QED
  BY <1>1, <1>2 DEF OrderOK

\* An insert extends the rows of its text, unless they are in disorder.
LEMMA InsertRows ==
  ASSUME TypeOK, OrderOK, NEW r \in Runs, Insert(r), doc[r][1] \notin torn
  PROVE  /\ doc[r] \in Docs /\ doc[r] # NoDoc /\ doc[r][1] \in Paths /\ doc[r][2] \in Texts
         /\ inserted[r] \in Nat /\ inserted[r] < Size[doc[r][2]]
         /\ Writers(doc[r][1]) = {r}
         /\ table'[doc[r][1]] = Rows(doc[r][2], inserted[r] + 1)
<1> DEFINE p == doc[r][1]
           t == doc[r][2]
           n == inserted[r]
<1>0. RequestType /\ StoreType /\ AtDocument /\ pc[r] = "insert"
  BY DEF TypeOK, Insert
<1>1. doc[r] \in Docs /\ doc[r] # NoDoc /\ n \in Nat /\ n < Size[t]
  BY <1>0 DEF RequestType, AtDocument
<1>2. p \in Paths /\ t \in Texts
  BY <1>1, NoDocFacts
<1>3. r \in Writers(p)
  BY <1>0 DEF Writers
<1>4. HalfWritten(p)
  BY <1>2, <1>3 DEF OrderOK, Whole
<1>5. Writers(p) = {r} /\ table[p] = Rows(t, n)
  BY <1>3, <1>4 DEF HalfWritten
<1>6. table'[p] = [table[p] EXCEPT ![<<t, n + 1>>] = @ + 1]
  BY <1>0, <1>2 DEF StoreType, Insert
<1>7. table'[p] = Rows(t, n + 1)
  BY <1>1, <1>2, <1>5, <1>6, InsertNext
<1> QED
  BY <1>1, <1>2, <1>5, <1>7

LEMMA OrderStep ==
  ASSUME TypeOK, OrderOK, [Next]_vars
  PROVE  OrderOK'
<1> SUFFICES ASSUME NEW p \in Paths, p \notin torn'
             PROVE  (Whole(p) \/ HalfWritten(p))'
  BY DEF OrderOK
<1>0. RequestType /\ StoreType /\ AtDocument
  BY DEF TypeOK
<1>1. CASE Edit \/ UNCHANGED vars
  <2>1. UNCHANGED <<table, pc, doc, inserted, torn>>
    BY <1>1 DEF Edit, vars, request
  <2> QED
    BY <2>1, SamePath DEF Writers
<1>2. ASSUME NEW r \in Runs, Start(r) \/ Read(r) \/ Skip(r) \/ Embed(r)
      PROVE  (Whole(p) \/ HalfWritten(p))'
  <2>1. UNCHANGED <<table, inserted, torn>> /\ pc[r] # "insert" /\ pc'[r] # "insert"
        /\ \A q \in Runs : q # r => pc'[q] = pc[q] /\ doc'[q] = doc[q]
    BY <1>0, <1>2 DEF RequestType, Start, Read, Skip, Embed
  <2>2. Writers(p)' = Writers(p) /\ r \notin Writers(p)
    BY <2>1 DEF Writers
  <2>3. \A w \in Writers(p) : doc'[w] = doc[w]
    BY <2>1, <2>2 DEF Writers
  <2> QED
    BY <2>1, <2>2, <2>3, SamePath
<1>3. ASSUME NEW r \in Runs, Delete(r)
      PROVE  (Whole(p) \/ HalfWritten(p))'
  <2>0. doc[r] \in Docs /\ doc[r] # NoDoc /\ UNCHANGED doc
    BY <1>0, <1>3 DEF RequestType, AtDocument, Delete
  <2>1. doc[r][1] \in Paths /\ doc[r][2] \in Texts
    BY <2>0, NoDocFacts
  <2>2. pc'[r] = "insert" /\ pc[r] # "insert" /\ inserted'[r] = 0
        /\ \A q \in Runs : q # r => pc'[q] = pc[q] /\ inserted'[q] = inserted[q]
    BY <1>0, <1>3 DEF RequestType, Delete
  <2>3. CASE p = doc[r][1]
    <3>1. Writers(p) = {}
      BY <1>3, <2>3 DEF Delete
    <3>2. Writers(p)' = {r}
      BY <3>1, <2>0, <2>2, <2>3 DEF Writers
    <3>3. table'[p] = Rows(doc'[r][2], inserted'[r])
      BY <1>0, <1>3, <2>0, <2>1, <2>2, <2>3, RowsFacts DEF StoreType, Delete, Emptied
    <3> QED
      BY <3>2, <3>3 DEF HalfWritten
  <2>4. CASE p # doc[r][1]
    <3>1. table'[p] = table[p] /\ p \notin torn
      BY <1>0, <1>3, <2>1, <2>4 DEF StoreType, Delete
    <3>2. Writers(p)' = Writers(p) /\ r \notin Writers(p)
      BY <2>0, <2>2, <2>4 DEF Writers
    <3>3. \A w \in Writers(p) : inserted'[w] = inserted[w]
      BY <2>2, <3>2 DEF Writers
    <3> QED
      BY <2>0, <3>1, <3>2, <3>3, SamePath
  <2> QED
    BY <2>3, <2>4
<1>4. ASSUME NEW r \in Runs, Insert(r)
      PROVE  (Whole(p) \/ HalfWritten(p))'
  <2> DEFINE t == doc[r][2]
             n == inserted[r]
  <2>0. doc[r] \in Docs /\ doc[r] # NoDoc /\ n \in Nat /\ n < Size[t]
    BY <1>0, <1>4 DEF RequestType, AtDocument, Insert
  <2>1. doc[r][1] \in Paths /\ t \in Texts
    BY <2>0, NoDocFacts
  <2>2. pc[r] = "insert" /\ UNCHANGED torn
        /\ \A q \in Runs : q # r => pc'[q] = pc[q] /\ inserted'[q] = inserted[q] /\ doc'[q] = doc[q]
    BY <1>0, <1>4 DEF RequestType, Insert
  <2>3. CASE p = doc[r][1]
    <3>3. Writers(p) = {r}
      BY <1>4, <2>2, <2>3, InsertRows
    <3>4. table'[p] = Rows(t, n + 1)
      BY <1>4, <2>2, <2>3, InsertRows
    <3>5. CASE n + 1 < Size[t]
      <4>1. UNCHANGED <<pc, doc>> /\ inserted'[r] = n + 1
        BY <1>0, <1>4, <3>5 DEF RequestType, Insert
      <4>2. Writers(p)' = {r}
        BY <4>1, <3>3 DEF Writers
      <4> QED
        BY <4>1, <4>2, <3>4 DEF HalfWritten
    <3>6. CASE ~(n + 1 < Size[t])
      <4>1. pc'[r] = "read"
        BY <1>0, <1>4, <3>6 DEF RequestType, Insert
      <4>2. Writers(p)' = {}
        BY <4>1, <2>2, <3>3 DEF Writers
      <4>3. n + 1 = Size[t]
        BY <2>0, <2>1, <3>6
      <4>4. table'[p] = Indexed(t)
        BY <4>3, <3>4, <2>1, RowsFacts
      <4> QED
        BY <4>2, <4>4, <2>1 DEF Whole
    <3> QED
      BY <3>5, <3>6
  <2>4. CASE p # doc[r][1]
    <3>1. table'[p] = table[p] /\ p \notin torn
      BY <1>0, <1>4, <2>1, <2>2, <2>4 DEF StoreType, Insert
    <3>2. r \notin Writers(p)
      BY <2>4 DEF Writers
    <3>3. doc'[r] = doc[r] \/ pc'[r] = "read"
      BY <1>0, <1>4 DEF RequestType, Insert
    <3>4. Writers(p)' = Writers(p)
      BY <2>2, <2>4, <3>2, <3>3 DEF Writers
    <3>5. \A w \in Writers(p) : inserted'[w] = inserted[w] /\ doc'[w] = doc[w]
      BY <2>2, <3>2 DEF Writers
    <3> QED
      BY <3>1, <3>4, <3>5, SamePath
  <2> QED
    BY <2>3, <2>4
<1>5. ASSUME NEW r \in Runs, DeleteOrphans(r)
      PROVE  (Whole(p) \/ HalfWritten(p))'
  <2>1. pc[r] # "insert" /\ pc'[r] # "insert"
        /\ \A q \in Runs : q # r => pc'[q] = pc[q] /\ inserted'[q] = inserted[q] /\ doc'[q] = doc[q]
    BY <1>0, <1>5 DEF RequestType, DeleteOrphans, Stop
  <2>2. Writers(p)' = Writers(p) /\ r \notin Writers(p)
    BY <2>1 DEF Writers
  <2>3. \A w \in Writers(p) : inserted'[w] = inserted[w] /\ doc'[w] = doc[w]
    BY <2>1, <2>2 DEF Writers
  <2>4. CASE p \in seen[r]
    <3>1. table'[p] = table[p] /\ p \notin torn
      BY <1>5, <2>4 DEF DeleteOrphans
    <3> QED
      BY <2>2, <2>3, <3>1, SamePath
  <2>5. CASE p \notin seen[r]
    <3>1. table'[p] = NoRows
      BY <1>5, <2>5 DEF DeleteOrphans
    <3>2. CASE Writers(p) = {}
      BY <2>2, <3>1, <3>2, RowsFacts DEF Whole
    <3>3. CASE Writers(p) # {}
      <4>1. p \notin torn /\ \A w \in Writers(p) : ~(inserted[w] > 0)
        BY <1>5, <2>5, <3>3 DEF DeleteOrphans
      <4>2. PICK w \in Runs : Writers(p) = {w}
        BY <3>3, <4>1 DEF OrderOK, Whole, HalfWritten
      <4>3. inserted[w] = 0
        BY <1>0, <4>1, <4>2 DEF RequestType
      <4>4. doc[w] \in Docs /\ doc[w] # NoDoc
        BY <1>0, <4>2 DEF RequestType, AtDocument, Writers
      <4>5. doc[w][2] \in Texts
        BY <4>4, NoDocFacts
      <4> QED
        BY <2>2, <2>3, <3>1, <4>2, <4>3, <4>5, RowsFacts DEF HalfWritten
    <3> QED
      BY <3>2, <3>3
  <2> QED
    BY <2>4, <2>5
<1>6. ASSUME NEW r \in Runs, FileGone(r) \/ Fail(r)
      PROVE  (Whole(p) \/ HalfWritten(p))'
  <2>1. Abandon(r)
    BY <1>6 DEF FileGone, Fail
  <2>2. pc'[r] = "idle" /\ UNCHANGED table
        /\ \A q \in Runs : q # r => pc'[q] = pc[q] /\ inserted'[q] = inserted[q] /\ doc'[q] = doc[q]
    BY <1>0, <2>1 DEF RequestType, Abandon, Stop
  <2>3. p \notin torn
    BY <2>1 DEF Abandon
  <2>4. CASE r \in Writers(p)
    <3>1. HalfWritten(p)
      BY <2>3, <2>4 DEF OrderOK, Whole
    <3>2. Writers(p) = {r} /\ table[p] = Rows(doc[r][2], inserted[r])
      BY <2>4, <3>1 DEF HalfWritten
    <3>3. inserted[r] = 0 /\ doc[r] \in Docs /\ doc[r] # NoDoc
      BY <1>0, <2>1, <2>4 DEF RequestType, AtDocument, Writers, Abandon
    <3>4. table'[p] = Indexed(Nothing)
      BY <2>2, <3>2, <3>3, NoDocFacts, RowsFacts
    <3>5. Writers(p)' = {}
      BY <2>2, <3>2 DEF Writers
    <3> QED
      BY <3>4, <3>5 DEF Whole
  <2>5. CASE r \notin Writers(p)
    <3>1. Writers(p)' = Writers(p)
      BY <2>2, <2>5 DEF Writers
    <3>2. \A w \in Writers(p) : inserted'[w] = inserted[w] /\ doc'[w] = doc[w]
      BY <2>2, <2>5 DEF Writers
    <3> QED
      BY <2>2, <2>3, <3>1, <3>2, SamePath
  <2> QED
    BY <2>4, <2>5
<1> QED
  BY <1>1, <1>2, <1>3, <1>4, <1>5, <1>6 DEF Next, Step

----------------------------------------------------------------------------
(* Requests that run alone *)

LEMMA IdleStep ==
  ASSUME TypeOK, IdleOK, [Next]_vars
  PROVE  IdleOK'
<1> SUFFICES ASSUME NEW q \in Runs, pc'[q] = "idle"
             PROVE  seen'[q] = {}
  BY DEF IdleOK
<1>0. RequestType
  BY DEF TypeOK
<1>1. CASE Edit \/ UNCHANGED vars
  BY <1>1 DEF IdleOK, Edit, vars, request
<1>2. ASSUME NEW r \in Runs, Start(r) \/ Read(r) \/ Embed(r) \/ Delete(r)
      PROVE  seen'[q] = {}
  BY <1>0, <1>2 DEF IdleOK, RequestType, Start, Read, Embed, Delete
<1>3. ASSUME NEW r \in Runs, Skip(r)
      PROVE  seen'[q] = {}
  BY <1>0, <1>3 DEF IdleOK, RequestType, Skip, Skipped
<1>4. ASSUME NEW r \in Runs, Insert(r)
      PROVE  seen'[q] = {}
  BY <1>0, <1>4 DEF IdleOK, RequestType, Insert
<1>5. ASSUME NEW r \in Runs, DeleteOrphans(r) \/ FileGone(r) \/ Fail(r)
      PROVE  seen'[q] = {}
  BY <1>0, <1>5 DEF IdleOK, RequestType, DeleteOrphans, FileGone, Fail, Abandon, Stop
<1> QED
  BY <1>1, <1>2, <1>3, <1>4, <1>5 DEF Next, Step

\* The path of a listed document is its own.
LEMMA ListedPath ==
  ASSUME NEW p
  PROVE  /\ Listed(p)[1] = p
         /\ repo[p] # Nothing => TextOf(Listed(p)) = repo[p]
  BY DEF Listed, TextOf

LEMMA CleanStep ==
  ASSUME IInv, [Next]_vars
  PROVE  CleanOK'
<1> SUFFICES ASSUME NEW r \in Runs, clean'[r]
             PROVE  CleanRequest(r)'
  BY DEF CleanOK
<1>0. TypeOK /\ RequestType /\ StoreType /\ AtDocument
  BY DEF IInv, TypeOK
<1>1. CASE Edit
  BY <1>1 DEF Edit
<1>2. CASE UNCHANGED vars
  BY <1>2 DEF IInv, CleanOK, CleanRequest, Listed, vars, request
<1>3. ASSUME NEW q \in Runs, Start(q)
      PROVE  CleanRequest(r)'
  <2>1. q = r /\ \A other \in Runs : pc[other] = "idle"
    BY <1>3 DEF Start
  <2>2. pc'[r] = "read" /\ \A other \in Runs : other # r => pc'[other] = "idle"
    BY <1>0, <1>3, <2>1 DEF RequestType, Start
  <2>3. seen'[r] = {} /\ doc'[r] = NoDoc /\ UNCHANGED <<source, repo>>
    BY <1>3, <2>1 DEF IInv, IdleOK, TypeOK, AtDocument, Start
  <2>4. todo'[r] = {Listed(p) : p \in {p \in Paths : repo[p] # Nothing}}
    BY <1>0, <1>3, <2>1 DEF RequestType, Start
  <2>5. \A d \in todo'[r] : d = Listed(d[1]) /\ d[1] \in Paths
    BY <2>4, ListedPath
  <2>6. \A p \in Paths : Indexed(repo[p]) = NoRows \/ Listed(p) \in todo'[r]
    BY <2>4, RowsFacts
  <2>7. NoDoc[1] = Nothing /\ Nothing \notin Paths
    BY DEF NoDoc
  <2>8. \A p : Listed(p)' = Listed(p)
    BY <2>3 DEF Listed
  <2> QED
    BY <2>2, <2>3, <2>5, <2>6, <2>7, <2>8 DEF CleanRequest
<1>4. ASSUME NEW q \in Runs, Read(q) \/ Skip(q) \/ Embed(q) \/ Delete(q) \/ Insert(q)
                              \/ DeleteOrphans(q) \/ FileGone(q) \/ Fail(q)
      PROVE  q = r /\ CleanRequest(r) /\ ~DeleteOrphans(q) /\ ~FileGone(q) /\ ~Fail(q)
  <2>1. clean[r] /\ (q = r => ~DeleteOrphans(q) /\ ~FileGone(q) /\ ~Fail(q))
    BY <1>0, <1>4 DEF RequestType, Read, Skip, Embed, Delete, Insert, DeleteOrphans,
                      FileGone, Fail, Abandon, Stop
  <2>2. CleanRequest(r)
    BY <2>1 DEF IInv, CleanOK
  <2>3. pc[q] # "idle"
    BY <1>4 DEF Read, Skip, Embed, Delete, Insert, DeleteOrphans, FileGone, Fail
  <2> QED
    BY <2>1, <2>2, <2>3 DEF CleanRequest
<1>5. CASE Read(r)
  <2>0. CleanRequest(r)
    BY <1>4, <1>5
  <2>1. PICK d \in todo[r] : Read(r)!2!(d)
    BY <1>5 DEF Read
  <2>2. d = Listed(d[1]) /\ d[1] \in Paths /\ d[1] \notin seen[r]
    BY <1>0, <2>0, <2>1 DEF RequestType, CleanRequest
  <2>3. TextOf(d) = repo[d[1]] /\ repo[d[1]] \in Texts
    BY <1>0, <2>1, <2>2 DEF StoreType, TextOf, Listed
  <2>4. todo'[r] = todo[r] \ {d} /\ UNCHANGED <<source, repo, table, seen, torn>>
        /\ pc'[r] # "idle" /\ \A q \in Runs : q # r => pc'[q] = pc[q]
    BY <1>0, <1>5, <2>1 DEF RequestType, Read
  <2>5. doc[r] = NoDoc
    BY <1>0, <1>5 DEF AtDocument, Read
  <2>6. \A p : Listed(p)' = Listed(p)
    BY <2>4 DEF Listed
  <2>7. \A p \in Paths : Listed(p) \in todo[r] /\ p # d[1] => Listed(p) \in todo'[r]
    BY <2>2, <2>4, ListedPath
  <2>8. \A e \in todo'[r] : e = Listed(e[1]) /\ e[1] \notin seen[r] /\ e[1] # d[1] /\ e[1] \in Paths
    BY <1>0, <2>0, <2>2, <2>4, ListedPath DEF CleanRequest, RequestType
  <2>9. \A p \in Paths : Indexed(repo[p]) = NoRows \/ p \in seen[r] \/ Listed(p) \in todo[r]
    BY <2>0, <2>5 DEF CleanRequest, NoDoc
  <2>10. CASE IsBlank(TextOf(d))
    <3>1. doc'[r] = NoDoc
      BY <1>5, <2>1, <2>5, <2>10
    <3>2. Indexed(repo[d[1]]) = NoRows
      BY <2>3, <2>10, RowsFacts DEF IsBlank
    <3>3. \A p \in Paths : Indexed(repo[p]) = NoRows \/ p \in seen[r] \/ Listed(p) \in todo'[r]
      BY <2>7, <2>9, <3>2
    <3>4. \A e \in todo'[r] : e[1] # NoDoc[1]
      BY <2>8 DEF NoDoc
    <3> QED
      BY <2>0, <2>4, <2>6, <2>8, <3>1, <3>3, <3>4 DEF CleanRequest
  <2>11. CASE ~IsBlank(TextOf(d))
    <3>1. doc'[r] = <<d[1], repo[d[1]]>>
      BY <1>0, <2>1, <2>3, <2>11 DEF RequestType
    <3>2. \A p \in Paths : Indexed(repo[p]) = NoRows \/ p \in seen[r] \/ p = d[1]
                             \/ Listed(p) \in todo'[r]
      BY <2>7, <2>9
    <3> QED
      BY <2>0, <2>2, <2>4, <2>6, <2>8, <3>1, <3>2 DEF CleanRequest
  <2> QED
    BY <2>10, <2>11
<1>6. CASE Skip(r)
  <2> DEFINE here == doc[r][1]
  <2>0. CleanRequest(r)
    BY <1>4, <1>6
  <2>1. doc[r] \in Docs /\ doc[r] # NoDoc /\ doc[r][2] = repo[here]
    BY <1>0, <1>6, <2>0 DEF RequestType, AtDocument, CleanRequest, Skip
  <2>2. here \in Paths /\ doc[r][2] \in Texts
    BY <2>1, NoDocFacts
  <2>3. UNCHANGED <<source, repo, table, todo, torn>> /\ seen'[r] = seen[r] \cup {here}
        /\ doc'[r] = NoDoc /\ pc'[r] # "idle" /\ \A q \in Runs : q # r => pc'[q] = pc[q]
    BY <1>0, <1>6 DEF RequestType, Skip, Skipped
  <2>4. here \notin torn => table[here] = Indexed(repo[here])
    <3>1. SUFFICES ASSUME here \notin torn
                   PROVE  table[here] = Indexed(repo[here])
      OBVIOUS
    <3>2. Writers(here) = {}
      BY <1>6, <2>0 DEF CleanRequest, Skip, Writers
    <3>3. PICK t \in Texts \cup {Nothing} : table[here] = Indexed(t)
      BY <2>2, <3>1, <3>2 DEF IInv, OrderOK, Whole, HalfWritten
    <3>4. PICK x \in Chunks : table[here][x] > 0 /\ x[1] = doc[r][2]
      BY <1>6 DEF Skip, Unchanged
    <3>5. t = doc[r][2]
      BY <3>3, <3>4, RowsOfOneText
    <3> QED
      BY <2>1, <3>3, <3>5
  <2>5. \A p : Listed(p)' = Listed(p)
    BY <2>3 DEF Listed
  <2>6. \A e \in todo'[r] : e = Listed(e[1]) /\ e[1] \notin seen'[r] /\ e[1] # doc'[r][1]
    <3>1. \A e \in todo[r] : e[1] \in Paths
      BY <1>0 DEF RequestType
    <3> QED
      BY <2>0, <2>3, <3>1 DEF CleanRequest, NoDoc
  <2> QED
    BY <2>0, <2>3, <2>4, <2>5, <2>6 DEF CleanRequest
<1>7. CASE Embed(r)
  <2>1. CleanRequest(r)
    BY <1>4, <1>7
  <2>2. pc'[r] # "idle" /\ \A q \in Runs : q # r => pc'[q] = pc[q]
    BY <1>0, <1>7 DEF RequestType, Embed
  <2> QED
    BY <1>7, <2>1, <2>2 DEF CleanRequest, Embed, Listed
<1>8. CASE Delete(r)
  <2>0. CleanRequest(r)
    BY <1>4, <1>8
  <2>1. doc[r] # NoDoc /\ doc[r][1] \notin seen[r]
    BY <1>8, <1>0, <2>0 DEF AtDocument, CleanRequest, Delete
  <2>2. UNCHANGED <<source, repo, todo, doc, seen>>
        /\ pc'[r] # "idle" /\ \A q \in Runs : q # r => pc'[q] = pc[q]
    BY <1>0, <1>8 DEF RequestType, Delete
  <2>3. \A p \in Paths : p # doc[r][1] => table'[p] = table[p] /\ (p \in torn' <=> p \in torn)
    BY <1>0, <1>8 DEF StoreType, Delete
  <2>4. \A p \in seen'[r] \ torn' : table'[p] = Indexed(repo[p])
    BY <1>0, <2>0, <2>1, <2>2, <2>3 DEF CleanRequest, RequestType
  <2>5. \A p : Listed(p)' = Listed(p)
    BY <2>2 DEF Listed
  <2> QED
    BY <2>0, <2>2, <2>4, <2>5 DEF CleanRequest
<1>9. CASE Insert(r)
  <2> DEFINE here == doc[r][1]
  <2>0. CleanRequest(r)
    BY <1>4, <1>9
  <2>1. doc[r] \in Docs /\ doc[r] # NoDoc /\ doc[r][2] = repo[here] /\ here \notin seen[r]
    BY <1>0, <1>9, <2>0 DEF RequestType, AtDocument, CleanRequest, Insert
  <2>2. here \in Paths /\ doc[r][2] \in Texts
    BY <2>1, NoDocFacts
  <2>3. UNCHANGED <<source, repo, todo, torn>>
        /\ pc'[r] # "idle" /\ \A q \in Runs : q # r => pc'[q] = pc[q]
    BY <1>0, <1>9 DEF RequestType, Insert
  <2>4. \A p \in Paths : p # here => table'[p] = table[p]
    BY <1>0, <1>9, <2>2 DEF StoreType, Insert
  <2>5. \A p \in seen[r] \ torn' : table'[p] = Indexed(repo[p])
    BY <1>0, <2>0, <2>1, <2>3, <2>4 DEF CleanRequest, RequestType
  <2>6. \A p : Listed(p)' = Listed(p)
    BY <2>3 DEF Listed
  <2>7. CASE inserted[r] + 1 < Size[doc[r][2]]
    <3>1. UNCHANGED <<doc, seen>>
      BY <1>9, <2>7 DEF Insert
    <3> QED
      BY <2>0, <2>3, <2>5, <2>6, <3>1 DEF CleanRequest
  <2>8. CASE ~(inserted[r] + 1 < Size[doc[r][2]])
    <3>1. doc'[r] = NoDoc /\ seen'[r] = seen[r] \cup {here}
      BY <1>0, <1>9, <2>8 DEF RequestType, Insert
    <3>2. here \notin torn => table'[here] = Indexed(repo[here])
      <4>1. SUFFICES ASSUME here \notin torn
                     PROVE  table'[here] = Indexed(repo[here])
        OBVIOUS
      <4>2. table'[here] = Rows(doc[r][2], inserted[r] + 1) /\ inserted[r] \in Nat
            /\ inserted[r] < Size[doc[r][2]]
        BY <1>0, <1>9, <4>1, InsertRows DEF IInv
      <4>3. inserted[r] + 1 = Size[doc[r][2]]
        BY <2>2, <2>8, <4>2
      <4> QED
        BY <2>1, <2>2, <4>2, <4>3, RowsFacts
    <3>3. \A e \in todo'[r] : e = Listed(e[1]) /\ e[1] \notin seen'[r] /\ e[1] # doc'[r][1]
      <4>1. \A e \in todo[r] : e[1] \in Paths
        BY <1>0 DEF RequestType
      <4> QED
        BY <2>0, <2>3, <3>1, <4>1 DEF CleanRequest, NoDoc
    <3> QED
      BY <2>0, <2>3, <2>5, <2>6, <3>1, <3>2, <3>3 DEF CleanRequest
  <2> QED
    BY <2>7, <2>8
<1> QED
  BY <1>1, <1>2, <1>3, <1>4, <1>5, <1>6, <1>7, <1>8, <1>9 DEF Next, Step

----------------------------------------------------------------------------
(* Theorems *)

LEMMA InitIInv == Init => IInv
<1> SUFFICES ASSUME Init
             PROVE  IInv
  OBVIOUS
<1>1. StoreType
  BY RowsFacts DEF Init, StoreType, Contents
<1>2. RequestType
  BY DEF Init, RequestType, Docs, Places
<1>3. AtDocument
  BY DEF Init, AtDocument
<1>4. OrderOK
  BY RowsFacts DEF Init, OrderOK, Whole, Writers
<1>5. IdleOK /\ CleanOK
  BY DEF Init, IdleOK, CleanOK
<1> QED
  BY <1>1, <1>2, <1>3, <1>4, <1>5 DEF IInv, TypeOK

\* The inductive invariant of the indexer.
THEOREM Invariance == Spec => []IInv
<1>1. IInv /\ [Next]_vars => IInv'
  BY TypeStep, OrderStep, IdleStep, CleanStep DEF IInv
<1> QED
  BY <1>1, InitIInv, PTL DEF Spec

\* Every variable keeps its type, and a request that embeds or inserts always
\* has a document, and a next chunk of it, however requests overlap.
THEOREM TypeCorrect == Spec => []TypeOK
<1>1. IInv => TypeOK
  BY DEF IInv
<1> QED
  BY <1>1, Invariance, PTL

\* Whatever the requests, edits and failures, the rows of a path that nothing
\* came across are those of one text.
THEOREM DocumentsAreWhole == Spec => []WholeUnlessTorn
<1>1. IInv => WholeUnlessTorn
  BY DEF IInv, OrderOK, Whole, HalfWritten, WholeUnlessTorn
<1> QED
  BY <1>1, Invariance, PTL

\* A request that ran alone over an unchanged project leaves it indexed
\* exactly, whatever earlier requests and failures left, torn paths excepted.
THEOREM CleanRunsAreExact == Spec => CleanRunIsExact
<1> DEFINE Exact == \A r \in Runs :
                      (clean[r] /\ DeleteOrphans(r))
                        => \A p \in Paths \ torn' : table'[p] = Indexed(repo[p])
<1>1. IInv => Exact
  <2> SUFFICES ASSUME IInv, NEW r \in Runs, clean[r], DeleteOrphans(r), NEW p \in Paths, p \notin torn'
               PROVE  table'[p] = Indexed(repo[p])
    OBVIOUS
  <2>1. CleanRequest(r) /\ AtDocument /\ RequestType
    BY DEF IInv, CleanOK, TypeOK
  <2>2. doc[r] = NoDoc /\ todo[r] = {}
    BY <2>1 DEF AtDocument, DeleteOrphans
  <2>3. CASE p \in seen[r]
    BY <2>1, <2>3 DEF DeleteOrphans, CleanRequest
  <2>4. CASE p \notin seen[r]
    <3>1. Indexed(repo[p]) = NoRows
      BY <2>1, <2>2, <2>4 DEF CleanRequest, NoDoc
    <3> QED
      BY <2>4, <3>1 DEF DeleteOrphans
  <2> QED
    BY <2>3, <2>4
<1>2. Spec => [][Exact]_vars
  BY <1>1, Invariance, PTL DEF Spec
<1> QED
  BY <1>2 DEF CleanRunIsExact
=============================================================================
