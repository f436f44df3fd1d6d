---------------------------- MODULE StoresProofs ----------------------------
(***************************************************************************)
(* What a memory brick was told to forget stays forgotten, for any records, *)
(* tags and calls, and what a context brick serves of a file indexed since *)
(* it changed is what the file holds, for any workspace, contents and calls *)
(* under way.                                                              *)
(***************************************************************************)
EXTENDS Stores, FiniteSetTheorems, SequenceTheorems, WellFoundedInduction, TLAPS

\* What a call waits to write is a record with its tags.
Pending ==
    /\ waiting = [c \in Calls |-> waiting[c]]
    /\ \A c \in Calls :
          LET w == waiting[c] IN
          /\ w = [rows |-> w.rows, about |-> w.about, clean |-> w.clean, ids |-> w.ids]
          /\ w.ids \subseteq Ids
          /\ w.ids # {} => w.rows \in SUBSET Tags

\* Every id has a record or none; only the graph links them, from records it has.
Kept ==
    /\ memory \in [Ids -> (SUBSET Tags) \cup {NoRecord}]
    /\ brick # "memory/graph" => edges = {}
    /\ \A e \in edges : e[1] \in Ids /\ memory[e[1]] # NoRecord

\* What is forgotten is nowhere, not even on its way.
Absent ==
    /\ forgotten \subseteq Ids
    /\ \A i \in forgotten : memory[i] = NoRecord
    /\ \A i \in forgotten, c \in Calls : i \notin waiting[c].ids

\* The index is a table of chunks with the positions of each path.
Chunk == [path : Paths, text : UNION {Range(Texts[c]) : c \in DOMAIN Texts}]
IsIndex(ix) == ix.chunks \in Seq(Chunk) /\ ix = Indexed(ix.chunks)

\* What a table says of a path, and that it is what the file holds.
Nothing(s, p) == About(s, {p}) = {}
Mine(s, p) == Filtered(s, About(s, {p}))
Serves(s, p) == Mine(s, p) = IF Readable(p) THEN Chunks(p) ELSE <<>>

FilesTypeOK ==
    /\ disk = [p \in Paths |-> disk[p]]
    /\ IsIndex(index) /\ saved \in Seq(Chunk) /\ fresh \subseteq Paths
    /\ brick = "vector" =>
          \A c \in Calls :
             /\ waiting[c].rows \in Seq(Chunk) /\ waiting[c].about \subseteq Paths
             /\ waiting[c].clean \subseteq waiting[c].about

\* What will be inserted for a call is about the paths it deleted; of a path that
\* nobody else has deleted since, it is what the file holds, and the table
\* has nothing yet.
Waits ==
    brick = "vector" =>
        \A c \in Calls :
            /\ \A i \in DOMAIN waiting[c].rows : waiting[c].rows[i].path \in waiting[c].about
            /\ \A p \in waiting[c].clean :
                  /\ Serves(waiting[c].rows, p) /\ Nothing(index.chunks, p)
                  /\ \A d \in Calls \ {c} : p \notin waiting[d].about

\* What is fresh is on disk too, and no call is under way about it.
Fresh ==
    /\ ServesCurrent
    /\ brick = "vector" =>
          \A p \in fresh : Serves(saved, p) /\ \A c \in Calls : p \notin waiting[c].about

FilesInv == FilesTypeOK /\ Waits /\ Fresh

\* The inductive invariant.
StoresInv == Pending /\ Kept /\ Absent

-----------------------------------------------------------------------------
\* A store starts empty.
LEMMA StartsEmpty == StoresInit => StoresInv
<1> SUFFICES ASSUME StoresInit PROVE StoresInv
  OBVIOUS
<1>1. /\ waiting = [c \in Calls |-> Free] /\ memory = [i \in Ids |-> NoRecord]
      /\ edges = {} /\ forgotten = {}
  BY DEF StoresInit
<1>2. Pending
  BY <1>1 DEF Pending, Free
<1>3. memory \in [Ids -> (SUBSET Tags) \cup {NoRecord}]
  BY <1>1
<1>4. Kept
  BY <1>1, <1>3 DEF Kept
<1>5. Absent
  BY <1>1 DEF Absent
<1>6. QED
  BY <1>2, <1>4, <1>5 DEF StoresInv

\* A step that leaves the records alone and writes nothing new.
LEMMA NotesAlone ==
    ASSUME StoresInv, UNCHANGED <<brick, notes>>, Pending',
           \A c \in Calls : waiting'[c].ids \subseteq waiting[c].ids
    PROVE  StoresInv'
BY DEF StoresInv, Kept, Absent, notes

\* What waits is clean of fewer paths.
LEMMA Unclean ==
    ASSUME StoresInv, UNCHANGED <<brick, notes>>,
           waiting' = [c \in Calls |-> waiting'[c]],
           \A c \in Calls : waiting'[c] = [waiting[c] EXCEPT !.clean = waiting'[c].clean]
    PROVE  StoresInv'
<1>1. ASSUME NEW c \in Calls
      PROVE  /\ waiting'[c].ids = waiting[c].ids
             /\ waiting'[c].rows = waiting[c].rows
             /\ waiting'[c] = [rows |-> waiting'[c].rows, about |-> waiting'[c].about,
                               clean |-> waiting'[c].clean, ids |-> waiting'[c].ids]
  BY <1>1 DEF StoresInv, Pending
<1>2. Pending'
  BY <1>1 DEF StoresInv, Pending
<1>3. QED
  BY <1>1, <1>2, NotesAlone

\* A call has come back, or was cancelled.
LEMMA CallEnds ==
    ASSUME StoresInv, UNCHANGED <<brick, notes>>, NEW c \in Calls,
           waiting' = [waiting EXCEPT ![c] = Free]
    PROVE  StoresInv'
<1>1. \A d \in Calls : waiting'[d] = IF d = c THEN Free ELSE waiting[d]
  BY DEF StoresInv, Pending
<1>2. Pending' /\ \A d \in Calls : waiting'[d].ids \subseteq waiting[d].ids
  BY <1>1 DEF StoresInv, Pending, Free
<1>3. QED
  BY <1>2, NotesAlone

\* A read of files by context/vector: the call waits with rows, and writes no record.
LEMMA EmbedKeeps ==
    ASSUME StoresInv, NEW c \in Calls, NEW ps, NEW dropped, Embed(c, ps, dropped)
    PROVE  StoresInv'
<1> DEFINE read == Filtered(ps, {i \in DOMAIN ps : Readable(ps[i])})
           about == Range(read) \cup dropped
           rows == RowsOf(read, Len(read))
           clean == about \ UNION {waiting[d].about : d \in Calls \ {c}}
<1>1. waiting' = [d \in Calls |->
            IF d # c THEN [waiting[d] EXCEPT !.clean = @ \ about]
            ELSE IF read = <<>> THEN Free
            ELSE [rows |-> rows, about |-> about, clean |-> clean, ids |-> {}]]
  BY DEF Embed
<1> HIDE DEF about, rows, clean, read
<1>2. UNCHANGED <<brick, notes>>
  BY DEF Embed
<1>3. ASSUME NEW d \in Calls
      PROVE  /\ waiting'[d] = [rows |-> waiting'[d].rows, about |-> waiting'[d].about,
                               clean |-> waiting'[d].clean, ids |-> waiting'[d].ids]
             /\ \/ waiting'[d].ids = {}
                \/ waiting'[d].ids = waiting[d].ids /\ waiting'[d].rows = waiting[d].rows
  <2>1. CASE d # c
    <3>1. waiting'[d] = [waiting[d] EXCEPT !.clean = @ \ about]
      BY <1>1, <2>1
    <3>2. QED
      BY <3>1, <1>3 DEF StoresInv, Pending
  <2>2. CASE d = c
    <3>1. \/ waiting'[d] = Free
          \/ waiting'[d] = [rows |-> rows, about |-> about, clean |-> clean, ids |-> {}]
      BY <1>1, <2>2
    <3>2. QED
      BY <3>1 DEF Free
  <2>3. QED
    BY <2>1, <2>2
<1>4. Pending'
  BY <1>1, <1>3 DEF StoresInv, Pending
<1>5. QED
  BY <1>2, <1>3, <1>4, NotesAlone

\* A record is stored: it comes back if it was forgotten.
LEMMA RecordKeeps ==
    ASSUME Kept, NEW i \in Ids, NEW tags \in SUBSET Tags, NEW links, Record(i, tags, links),
           UNCHANGED brick
    PROVE  Kept' /\ \A j \in Ids : j # i => memory'[j] = memory[j]
<1>1. tags # NoRecord
  BY StoresAssumption
<1>2. memory' = [memory EXCEPT ![i] = tags]
  BY DEF Record
<1>3. /\ memory' \in [Ids -> (SUBSET Tags) \cup {NoRecord}]
      /\ memory'[i] # NoRecord
      /\ \A j \in Ids : j # i => memory'[j] = memory[j]
  BY <1>1, <1>2 DEF Kept
<1>4. CASE brick # "memory/graph"
  BY <1>3, <1>4 DEF Kept, Record
<1>5. CASE brick = "memory/graph"
  <2>1. edges' = {e \in edges : e[1] # i} \cup {<<i, j>> : j \in links}
    BY <1>5 DEF Record
  <2>2. ASSUME NEW e \in edges' PROVE e[1] \in Ids /\ memory'[e[1]] # NoRecord
    <3>1. CASE e \in edges /\ e[1] # i
      BY <3>1, <1>3 DEF Kept
    <3>2. CASE e \in {<<i, j>> : j \in links}
      BY <3>2, <1>3
    <3>3. QED
      BY <2>1, <3>1, <3>2
  <2>3. QED
    BY <1>3, <1>5, <2>2 DEF Kept
<1>6. QED
  BY <1>4, <1>5

\* The records dropped go with their links, and stay away unless on their way.
LEMMA DiscardKeeps ==
    ASSUME StoresInv, NEW drop \in SUBSET Ids, Discard(drop),
           forgotten' \subseteq forgotten \cup (drop \ Writing)
    PROVE  StoresInv'
<1>1. /\ memory' = [i \in Ids |-> IF i \in drop THEN NoRecord ELSE memory[i]]
      /\ edges' = {e \in edges : e[1] \notin drop /\ e[2] \notin drop}
      /\ UNCHANGED <<brick, waiting>>
  BY DEF Discard
<1>2. Pending'
  BY <1>1 DEF StoresInv, Pending
<1>3. Kept'
  <2>1. memory' \in [Ids -> (SUBSET Tags) \cup {NoRecord}]
    BY <1>1 DEF StoresInv, Kept
  <2>2. \A e \in edges' : e[1] \in Ids /\ memory'[e[1]] # NoRecord
    BY <1>1 DEF StoresInv, Kept
  <2>3. edges' \subseteq edges
    BY <1>1
  <2>4. QED
    BY <1>1, <2>1, <2>2, <2>3 DEF StoresInv, Kept
<1>4. Absent'
  <2>1. \A i \in drop \ Writing, c \in Calls : i \notin waiting[c].ids
    BY DEF Writing
  <2>2. QED
    BY <1>1, <2>1 DEF StoresInv, Absent
<1>5. QED
  BY <1>2, <1>3, <1>4 DEF StoresInv

\* The context bricks and the restarts.
LEMMA FilesKeep ==
    ASSUME StoresInv,
           \/ \E n \in 0 .. Len(Walk), told \in BOOLEAN : IndexAll(n, told) \/ Retrieve(n, told)
           \/ \E p \in Paths : IndexPath(p) \/ InvalidatePath(p)
           \/ \E p \in Paths, content \in Contents : Edited(p, content)
           \/ InvalidateAll \/ VectorInvalidateAll \/ Restarted
    PROVE  StoresInv'
<1>1. ASSUME UNCHANGED <<brick, waiting, notes>> PROVE StoresInv'
  BY <1>1 DEF StoresInv, Pending, Kept, Absent, notes
<1>2. CASE \E n \in 0 .. Len(Walk), told \in BOOLEAN : IndexAll(n, told) \/ Retrieve(n, told)
  BY <1>2, <1>1 DEF IndexAll, Retrieve, WalkFrom
<1>3. CASE \E p \in Paths : IndexPath(p) \/ InvalidatePath(p)
  BY <1>3, <1>1 DEF IndexPath, InvalidatePath
<1>4. CASE InvalidateAll
  BY <1>4, <1>1 DEF InvalidateAll, WalkFrom
<1>5. ASSUME NEW p \in Paths, NEW content \in Contents, Edited(p, content) PROVE StoresInv'
  <2>1. /\ waiting' = [c \in Calls |-> [waiting[c] EXCEPT !.clean = @ \ {p}]]
        /\ UNCHANGED <<brick, notes>>
    BY <1>5 DEF Edited
  <2>2. QED
    BY <2>1, Unclean DEF StoresInv, Pending
<1>6. CASE VectorInvalidateAll
  <2>1. /\ waiting' = [c \in Calls |-> [waiting[c] EXCEPT !.clean = {}]]
        /\ UNCHANGED <<brick, notes>>
    BY <1>6 DEF VectorInvalidateAll
  <2>2. QED
    BY <2>1, Unclean DEF StoresInv, Pending
<1>7. CASE Restarted
  <2>1. /\ waiting' = [c \in Calls |-> Free] /\ UNCHANGED <<brick, edges, forgotten>>
        /\ memory' = IF brick = "memory/ephemeral" THEN [i \in Ids |-> NoRecord] ELSE memory
    BY <1>7 DEF Restarted
  <2>2. Pending' /\ Absent'
    BY <2>1 DEF Pending, Free, StoresInv, Absent
  <2>3. brick = "memory/ephemeral" => Kept'
    BY <2>1 DEF StoresInv, Kept
  <2>4. brick # "memory/ephemeral" => Kept'
    BY <2>1 DEF StoresInv, Kept
  <2>5. QED
    BY <2>2, <2>3, <2>4 DEF StoresInv
<1>8. QED
  BY <1>2, <1>3, <1>4, <1>5, <1>6, <1>7

\* The calls that wait for embeddings.
LEMMA CallsKeep ==
    ASSUME StoresInv, NEW c \in Calls,
           \/ VectorIndexAll(c) \/ VectorRetrieve(c) \/ Embedded(c) \/ Cancelled(c) \/ VectorWritten(c)
           \/ \E p \in Paths : VectorIndexPath(c, p) \/ VectorInvalidatePath(c, p)
           \/ \E i \in Ids, tags \in SUBSET Tags : VectorWrite(c, i, tags)
    PROVE  StoresInv'
<1>1. CASE VectorIndexAll(c) \/ VectorRetrieve(c)
  BY <1>1, EmbedKeeps DEF VectorIndexAll, VectorRetrieve
<1>2. CASE \E p \in Paths : VectorIndexPath(c, p) \/ VectorInvalidatePath(c, p)
  BY <1>2, EmbedKeeps DEF VectorIndexPath, VectorInvalidatePath
<1>3. CASE Embedded(c)
  BY <1>3, CallEnds DEF Embedded
<1>4. CASE Cancelled(c)
  BY <1>4, CallEnds DEF Cancelled
<1>5. ASSUME NEW i \in Ids, NEW tags \in SUBSET Tags, VectorWrite(c, i, tags) PROVE StoresInv'
  <2>1. /\ waiting' = [waiting EXCEPT ![c] = [Free EXCEPT !.ids = {i}, !.rows = tags]]
        /\ forgotten' = forgotten \ {i} /\ UNCHANGED <<brick, memory, edges>>
    BY <1>5 DEF VectorWrite
  <2>2. waiting'[c] = [rows |-> tags, about |-> {}, clean |-> {}, ids |-> {i}]
    BY <2>1 DEF Free, StoresInv, Pending
  <2>3. \A d \in Calls : d # c => waiting'[d] = waiting[d]
    BY <2>1 DEF StoresInv, Pending
  <2>4. Pending'
    <3>1. waiting' = [d \in Calls |-> waiting'[d]]
      BY <2>1 DEF StoresInv, Pending
    <3>2. QED
      BY <2>2, <2>3, <3>1 DEF StoresInv, Pending
  <2>5. Kept' /\ Absent'
    BY <2>1, <2>2, <2>3 DEF StoresInv, Kept, Absent
  <2>6. QED
    BY <2>4, <2>5 DEF StoresInv
<1>6. CASE VectorWritten(c)
  <2>1. PICK i \in waiting[c].ids : Record(i, waiting[c].rows, {})
    BY <1>6 DEF VectorWritten
  <2>2. waiting' = [waiting EXCEPT ![c] = Free] /\ UNCHANGED <<brick, forgotten>>
    BY <1>6 DEF VectorWritten
  <2>3. i \in Ids /\ waiting[c].rows \in SUBSET Tags /\ i \notin forgotten
    BY <2>1 DEF StoresInv, Pending, Absent
  <2>4. \A d \in Calls : waiting'[d] = IF d = c THEN Free ELSE waiting[d]
    BY <2>2 DEF StoresInv, Pending
  <2>5. Pending'
    BY <2>2, <2>4 DEF StoresInv, Pending, Free
  <2>6. Kept' /\ \A j \in Ids : j # i => memory'[j] = memory[j]
    BY <2>1, <2>2, <2>3, RecordKeeps DEF StoresInv
  <2>7. Absent'
    BY <2>2, <2>3, <2>4, <2>6 DEF StoresInv, Absent, Free
  <2>8. QED
    BY <2>5, <2>6, <2>7 DEF StoresInv
<1>7. QED
  BY <1>1, <1>2, <1>3, <1>4, <1>5, <1>6

\* The calls of the memory bricks that wait for nothing.
LEMMA NotesKeep ==
    ASSUME StoresInv,
           \/ \E i \in Ids : Forget(i) \/ \E tags \in SUBSET Tags, links \in SUBSET Ids : Write(i, tags, links)
           \/ \E tags \in SUBSET Tags : ForgetTags(tags)
           \/ ForgetAll
    PROVE  StoresInv'
<1>1. ASSUME NEW i \in Ids, NEW tags \in SUBSET Tags, NEW links \in SUBSET Ids, Write(i, tags, links)
      PROVE  StoresInv'
  <2>1. Kept' /\ \A j \in Ids : j # i => memory'[j] = memory[j]
    BY <1>1, RecordKeeps DEF Write, StoresInv
  <2>2. forgotten' = forgotten \ {i} /\ UNCHANGED <<brick, waiting>>
    BY <1>1 DEF Write
  <2>3. QED
    BY <2>1, <2>2 DEF StoresInv, Pending, Absent
<1>2. ASSUME NEW i \in Ids, Forget(i) PROVE StoresInv'
  BY <1>2, DiscardKeeps DEF Forget
<1>3. ASSUME NEW tags \in SUBSET Tags, ForgetTags(tags) PROVE StoresInv'
  <2>1. Tagged(tags) = {i \in Live : \E t \in tags : t \in memory[i]}
    BY DEF Tagged
  <2>2. QED
    BY <1>3, <2>1, DiscardKeeps DEF ForgetTags, Live
<1>4. CASE ForgetAll
  BY <1>4, DiscardKeeps DEF ForgetAll, Live
<1>5. QED
  BY <1>1, <1>2, <1>3, <1>4

\* The invariant is inductive.
LEMMA StoresStep == StoresInv /\ [StoresNext]_vars => StoresInv'
<1> SUFFICES ASSUME StoresInv, [StoresNext]_vars PROVE StoresInv'
  OBVIOUS
<1>1. CASE UNCHANGED vars
  BY <1>1 DEF vars, notes, StoresInv, Pending, Kept, Absent
<1>2. CASE StoresNext
  BY <1>2, FilesKeep, CallsKeep, NotesKeep DEF StoresNext
<1>3. QED
  BY <1>1, <1>2

-----------------------------------------------------------------------------
\* The inductive invariant holds of every behaviour of the stores.
THEOREM StoresInvariant == StoresSpec => []StoresInv
BY StartsEmpty, StoresStep, PTL DEF StoresSpec

\* What was forgotten is gone until it is written again, and no link starts at a
\* record that is not there, for any records, tags and calls under way.
THEOREM ForgottenStaysGone == StoresSpec => []ForgottenIsGone
<1>1. StoresInv => ForgottenIsGone
  BY DEF StoresInv, Kept, Absent, ForgottenIsGone
<1>2. QED
  BY <1>1, StoresInvariant, PTL

-----------------------------------------------------------------------------
(* Positions *)

Below(S, i) == {j \in S : j <= i}
IsPositions(S) == S \subseteq Nat /\ IsFiniteSet(S)

\* f takes the positions S to the positions T, in their order.
Moves(f, S, T) ==
    /\ f \in [S -> T]
    /\ \A i, j \in S : i < j => f[i] < f[j]
    /\ \A u \in T : \E i \in S : f[i] = u

\* f takes positions of s to positions of t that hold the same.
Carries(f, s, S, t, T) ==
    /\ S \subseteq DOMAIN s /\ T \subseteq DOMAIN t
    /\ Moves(f, S, T)
    /\ \A i \in S : t[f[i]] = s[i]

\* How many positions are up to one tells them apart, and counts to their number.
LEMMA BelowIs ==
    ASSUME NEW S, IsPositions(S), NEW i \in S
    PROVE  /\ Cardinality(Below(S, i)) \in 1 .. Cardinality(S)
           /\ \A j \in S : i < j => Cardinality(Below(S, i)) < Cardinality(Below(S, j))
<1>1. \A j \in S : IsFiniteSet(Below(S, j)) /\ Cardinality(Below(S, j)) <= Cardinality(S)
  BY FS_Subset DEF Below, IsPositions
<1>2. Cardinality(S) \in Nat /\ \A j \in S : Cardinality(Below(S, j)) \in Nat
  BY <1>1, FS_CardinalityType DEF IsPositions
<1>3. Cardinality(Below(S, i)) # 0
  <2>1. i \in Below(S, i)
    BY DEF Below, IsPositions
  <2>2. QED
    BY <1>1, <2>1, FS_EmptySet
<1>4. ASSUME NEW j \in S, i < j
      PROVE  Cardinality(Below(S, i)) < Cardinality(Below(S, j))
  <2>1. Below(S, i) \in SUBSET Below(S, j) /\ j \in Below(S, j) /\ j \notin Below(S, i)
    <3>1. \A x \in S : x \in Nat
      BY DEF IsPositions
    <3>2. \A x \in S : x <= i => x <= j
      BY <1>4, <3>1
    <3>3. QED
      BY <1>4, <3>1, <3>2 DEF Below
  <2>2. /\ Cardinality(Below(S, i)) <= Cardinality(Below(S, j))
        /\ Cardinality(Below(S, i)) # Cardinality(Below(S, j))
    BY <1>1, <2>1, FS_Subset
  <2>3. QED
    BY <1>2, <2>2
<1>5. QED
  BY <1>1, <1>2, <1>3, <1>4

\* Every number up to that of the positions belongs to one.
LEMMA PositionIs ==
    ASSUME NEW S, IsPositions(S)
    PROVE  /\ Cardinality(S) \in Nat
           /\ \A k \in 1 .. Cardinality(S) :
                 Position(S, k) \in S /\ Cardinality(Below(S, Position(S, k))) = k
           /\ \A i \in S : Cardinality(Below(S, i)) \in 1 .. Cardinality(S)
                           /\ Position(S, Cardinality(Below(S, i))) = i
<1> DEFINE n == Cardinality(S)
           f == [i \in S |-> Cardinality(Below(S, i))]
<1>1. n \in Nat
  BY FS_CardinalityType DEF IsPositions
<1>2. f \in [S -> 1 .. n]
  BY BelowIs
<1>3. ASSUME NEW i \in S, NEW j \in S, f[i] = f[j] PROVE i = j
  <2>1. f[i] \in Nat /\ i \in Nat /\ j \in Nat
    BY <1>1, <1>2 DEF IsPositions
  <2>2. ~ (i < j) /\ ~ (j < i)
    BY <1>3, <2>1, BelowIs
  <2>3. QED
    BY <2>1, <2>2
<1>4. f \in Injection(S, 1 .. n)
  BY <1>2, <1>3 DEF Injection, IsInjective
<1>5. IsFiniteSet(1 .. n) /\ Cardinality(1 .. n) = n
  BY <1>1, FS_Interval
<1>6. f \in Surjection(S, 1 .. n)
  BY <1>4, <1>5, FS_Injection
<1>7. \A k \in 1 .. n : \E i \in S : Cardinality(Below(S, i)) = k
  BY <1>6 DEF Surjection
<1>8. \A k \in 1 .. n : Position(S, k) \in S /\ Cardinality(Below(S, Position(S, k))) = k
  BY <1>7 DEF Position, Below
<1>9. ASSUME NEW i \in S PROVE Position(S, f[i]) = i
  <2>1. f[i] \in 1 .. n
    BY <1>2
  <2>2. Position(S, f[i]) \in S /\ f[Position(S, f[i])] = f[i]
    BY <1>8, <2>1
  <2>3. QED
    BY <1>3, <2>2
<1>10. QED
  BY <1>1, <1>2, <1>8, <1>9

\* A set of positions that another is moved to, in order, has its positions there.
LEMMA PositionMoved ==
    ASSUME NEW S, IsPositions(S), NEW T \in SUBSET Nat, NEW f, Moves(f, S, T)
    PROVE  /\ IsPositions(T) /\ Cardinality(T) = Cardinality(S)
           /\ \A k \in 1 .. Cardinality(S) : Position(T, k) = f[Position(S, k)]
<1> USE DEF Moves
<1>1. \A i, j \in S : f[i] \in Nat /\ (i <= j <=> f[i] <= f[j])
  <2> TAKE i, j \in S
  <2>1. i \in Nat /\ j \in Nat /\ f[i] \in Nat /\ f[j] \in Nat
    BY DEF IsPositions
  <2>2. (i < j => f[i] < f[j]) /\ (j < i => f[j] < f[i])
    OBVIOUS
  <2>3. i = j => f[i] = f[j]
    OBVIOUS
  <2>4. QED
    BY <2>1, <2>2, <2>3
<1>2. ASSUME NEW A \in SUBSET S, NEW B \in SUBSET T,
             \A i \in A : f[i] \in B, \A t \in B : \E i \in A : f[i] = t
      PROVE  IsFiniteSet(B) /\ Cardinality(B) = Cardinality(A)
  <2> DEFINE g == [i \in A |-> f[i]]
  <2>1. IsFiniteSet(A)
    BY FS_Subset DEF IsPositions
  <2>2. \A i, j \in A : g[i] = g[j] => i = j
    <3> SUFFICES ASSUME NEW i \in A, NEW j \in A, f[i] = f[j] PROVE i = j
      OBVIOUS
    <3>1. i <= j /\ j <= i /\ i \in Nat /\ j \in Nat
      BY <1>1 DEF IsPositions
    <3>2. QED
      BY <3>1
  <2>3. g \in Bijection(A, B)
    BY <1>2, <2>2 DEF Bijection, Injection, Surjection, IsInjective
  <2>4. QED
    BY <2>1, <2>3, FS_Bijection DEF ExistsBijection
<1>3. IsPositions(T) /\ Cardinality(T) = Cardinality(S)
  BY <1>2 DEF IsPositions
<1>4. ASSUME NEW k \in 1 .. Cardinality(S) PROVE Position(T, k) = f[Position(S, k)]
  <2>1. PICK i \in S : i = Position(S, k) /\ Cardinality(Below(S, i)) = k
    BY PositionIs
  <2>2. /\ Below(S, i) \in SUBSET S /\ Below(T, f[i]) \in SUBSET T
        /\ \A j \in Below(S, i) : f[j] \in Below(T, f[i])
    BY <1>1 DEF Below
  <2>3. \A t \in Below(T, f[i]) : \E j \in Below(S, i) : f[j] = t
    BY <1>1 DEF Below
  <2>4. Cardinality(Below(T, f[i])) = k
    BY <1>2, <2>1, <2>2, <2>3
  <2>5. QED
    BY <1>3, <2>1, <2>4, PositionIs
<1>5. QED
  BY <1>3, <1>4

-----------------------------------------------------------------------------
(* What is left of a sequence at some of its positions *)

\* What is left has an element for each position, in the order of the positions.
LEMMA FilteredIs ==
    ASSUME NEW E, NEW s \in Seq(E), NEW S \in SUBSET (DOMAIN s)
    PROVE  /\ IsPositions(S) /\ Cardinality(S) \in Nat
           /\ Filtered(s, S) \in Seq(E) /\ DOMAIN Filtered(s, S) = 1 .. Cardinality(S)
           /\ \A k \in 1 .. Cardinality(S) :
                 Position(S, k) \in S /\ Filtered(s, S)[k] = s[Position(S, k)]
           /\ \A i \in S : \E k \in 1 .. Cardinality(S) : Position(S, k) = i
           /\ \A j, k \in 1 .. Cardinality(S) : j < k => Position(S, j) < Position(S, k)
<1> DEFINE n == Cardinality(S)
<1>1. DOMAIN s = 1 .. Len(s) /\ Len(s) \in Nat
  BY LenProperties
<1>2. IsFiniteSet(1 .. Len(s))
  BY <1>1, FS_Interval
<1>3. IsPositions(S)
  <2>1. IsFiniteSet(S)
    BY <1>1, <1>2, FS_Subset
  <2>2. S \subseteq Nat
    BY <1>1
  <2>3. QED
    BY <2>1, <2>2 DEF IsPositions
<1>4. n \in Nat /\ \A k \in 1 .. n : Position(S, k) \in S /\ Cardinality(Below(S, Position(S, k))) = k
  BY <1>3, PositionIs
<1>5. \A i \in S : \E k \in 1 .. n : Position(S, k) = i
  BY <1>3, PositionIs
<1>6. \A k \in 1 .. n : s[Position(S, k)] \in E
  BY <1>4, ElementOfSeq
<1>7. Filtered(s, S) \in Seq(E) /\ DOMAIN Filtered(s, S) = 1 .. n
      /\ \A k \in 1 .. n : Filtered(s, S)[k] = s[Position(S, k)]
  <2> HIDE DEF n
  <2>1. [k \in 1 .. n |-> s[Position(S, k)]] \in Seq(E)
    BY <1>4, <1>6, IsASeq
  <2>2. QED
    BY <2>1 DEF Filtered, n
<1>8. ASSUME NEW j \in 1 .. n, NEW k \in 1 .. n, j < k PROVE Position(S, j) < Position(S, k)
  <2>1. PICK x \in S : x = Position(S, j) /\ Cardinality(Below(S, x)) = j
    BY <1>4
  <2>2. PICK y \in S : y = Position(S, k) /\ Cardinality(Below(S, y)) = k
    BY <1>4
  <2>3. x \in Nat /\ y \in Nat /\ j \in Nat /\ k \in Nat
    BY <1>3, <1>4 DEF IsPositions
  <2>4. ~ y < x /\ x # y
    BY <1>3, <1>8, <2>1, <2>2, <2>3, BelowIs
  <2>5. QED
    BY <2>1, <2>2, <2>3, <2>4
<1>9. QED
  BY <1>3, <1>4, <1>5, <1>7, <1>8

\* Positions that hold the same elements in the same order leave the same sequence.
LEMMA FilteredMoved ==
    ASSUME NEW E, NEW s \in Seq(E), NEW t \in Seq(E),
           NEW S, NEW T, NEW f, Carries(f, s, S, t, T)
    PROVE  Filtered(t, T) = Filtered(s, S)
<1>1. /\ IsPositions(S) /\ T \in SUBSET Nat
      /\ \A k \in 1 .. Cardinality(S) : Position(S, k) \in S
  <2>1. S \in SUBSET (DOMAIN s) /\ T \in SUBSET (DOMAIN t)
    BY DEF Carries
  <2>2. QED
    BY <2>1, FilteredIs DEF IsPositions
<1>2. /\ Cardinality(T) = Cardinality(S)
      /\ \A k \in 1 .. Cardinality(S) : Position(T, k) = f[Position(S, k)]
  BY <1>1, PositionMoved DEF Carries
<1>3. QED
  BY <1>1, <1>2 DEF Filtered, Carries

\* All positions leave the sequence as it is.
LEMMA FilteredAll ==
    ASSUME NEW E, NEW s \in Seq(E)
    PROVE  Filtered(s, DOMAIN s) = s
<1> DEFINE S == DOMAIN s
           n == Len(s)
<1>1. S = 1 .. n /\ n \in Nat
  BY LenProperties
<1>2. Cardinality(S) = n
  BY <1>1, FS_Interval
<1>3. ASSUME NEW k \in 1 .. n PROVE Position(S, k) = k
  <2>1. Below(S, k) = 1 .. k /\ k \in Nat
    BY <1>1 DEF Below
  <2>2. Cardinality(Below(S, k)) = k
    BY <2>1, FS_Interval
  <2>3. IsPositions(S)
    BY FilteredIs
  <2>4. k \in S
    BY <1>1
  <2>5. QED
    BY <2>2, <2>3, <2>4, PositionIs
<1>4. Filtered(s, S) = [k \in 1 .. n |-> s[k]]
  BY <1>2, <1>3 DEF Filtered
<1>5. QED
  BY <1>1, <1>4

\* To filter what was filtered is to filter at once.
LEMMA FilteredTwice ==
    ASSUME NEW E, NEW s \in Seq(E), NEW S \in SUBSET (DOMAIN s), NEW T \in SUBSET S
    PROVE  Filtered(Filtered(s, S), {k \in 1 .. Cardinality(S) : Position(S, k) \in T}) = Filtered(s, T)
<1> DEFINE K == {k \in 1 .. Cardinality(S) : Position(S, k) \in T}
           f == [k \in K |-> Position(S, k)]
<1>1. /\ Filtered(s, S) \in Seq(E) /\ DOMAIN Filtered(s, S) = 1 .. Cardinality(S)
      /\ \A k \in 1 .. Cardinality(S) : Filtered(s, S)[k] = s[Position(S, k)]
      /\ \A i \in S : \E k \in 1 .. Cardinality(S) : Position(S, k) = i
      /\ \A j, k \in 1 .. Cardinality(S) : j < k => Position(S, j) < Position(S, k)
  BY FilteredIs
<1>2. f \in [K -> T] /\ K \in SUBSET (DOMAIN Filtered(s, S)) /\ T \in SUBSET (DOMAIN s)
  BY <1>1
<1>3. /\ \A i, j \in K : i < j => f[i] < f[j]
      /\ \A u \in T : \E i \in K : f[i] = u
      /\ \A i \in K : s[f[i]] = Filtered(s, S)[i]
  BY <1>1
<1>4. Carries(f, Filtered(s, S), K, s, T)
  BY <1>2, <1>3 DEF Carries, Moves
<1> HIDE DEF f, K
<1>5. Filtered(s, T) = Filtered(Filtered(s, S), K)
  BY <1>1, <1>4, FilteredMoved
<1>6. QED
  BY <1>5 DEF K

\* The positions of what is appended come after those there were.
LEMMA FilteredAppended ==
    ASSUME NEW E, NEW s \in Seq(E), NEW t \in Seq(E)
    PROVE  /\ s \o t \in Seq(E)
           /\ \A T \in SUBSET (DOMAIN s) : Filtered(s \o t, T) = Filtered(s, T)
           /\ \A U \in SUBSET (DOMAIN t) :
                 Filtered(s \o t, {Len(s) + u : u \in U}) = Filtered(t, U)
<1>1. PICK st \in Seq(E) : st = s \o t
  BY ConcatProperties
<1>2. /\ Len(st) = Len(s) + Len(t)
      /\ \A i \in 1 .. Len(s) + Len(t) : st[i] = IF i <= Len(s) THEN s[i] ELSE t[i - Len(s)]
  BY <1>1, ConcatProperties
<1>3. /\ DOMAIN s = 1 .. Len(s) /\ DOMAIN t = 1 .. Len(t) /\ Len(s) \in Nat /\ Len(t) \in Nat
      /\ DOMAIN st = 1 .. Len(s) + Len(t)
  BY <1>2, LenProperties
<1>4. ASSUME NEW T \in SUBSET (DOMAIN s) PROVE Filtered(st, T) = Filtered(s, T)
  <2> DEFINE f == [i \in T |-> i]
  <2>1. \A i \in T : i \in Nat /\ i \in DOMAIN st /\ st[i] = s[i]
    BY <1>2, <1>3
  <2>2. T \in SUBSET (DOMAIN st) /\ f \in [T -> T] /\ \A i \in T : st[f[i]] = s[i]
    BY <2>1
  <2>3. (\A i, j \in T : i < j => f[i] < f[j]) /\ \A u \in T : \E i \in T : f[i] = u
    OBVIOUS
  <2>4. Carries(f, s, T, st, T)
    BY <2>2, <2>3 DEF Carries, Moves
  <2> HIDE DEF f
  <2>5. QED
    BY <2>4, FilteredMoved
<1>5. ASSUME NEW U \in SUBSET (DOMAIN t)
      PROVE  Filtered(st, {Len(s) + u : u \in U}) = Filtered(t, U)
  <2> DEFINE f == [u \in U |-> Len(s) + u]
             T == {Len(s) + u : u \in U}
  <2>1. \A u \in U : u \in Nat /\ Len(s) + u \in DOMAIN st /\ st[Len(s) + u] = t[u]
    BY <1>2, <1>3
  <2>2. T \in SUBSET (DOMAIN st) /\ f \in [U -> T] /\ \A u \in U : st[f[u]] = t[u]
    BY <2>1
  <2>3. \A i, j \in U : i < j => f[i] < f[j]
    BY <1>3, <2>1
  <2>4. \A x \in T : \E u \in U : f[u] = x
    OBVIOUS
  <2>5. Carries(f, t, U, st, T)
    BY <2>2, <2>3, <2>4 DEF Carries, Moves
  <2> HIDE DEF f, T
  <2>6. Filtered(st, T) = Filtered(t, U)
    BY <2>5, FilteredMoved
  <2>7. QED
    BY <2>6 DEF T
<1>6. QED
  BY <1>1, <1>4, <1>5

-----------------------------------------------------------------------------
(* What a table says of a path *)

\* Two tables with the same rows of a path, at the same places or at the end.
Agree(s, t, p) == About(s, {p}) = About(t, {p}) /\ Mine(s, p) = Mine(t, p)
After(s, t, p) ==
    About(s, {p}) = {Len(s) - Len(t) + u : u \in About(t, {p})} /\ Mine(s, p) = Mine(t, p)

\* A table with no row of a path says nothing of it.
LEMMA NothingMine ==
    ASSUME NEW s, NEW p, Nothing(s, p)
    PROVE  Mine(s, p) = <<>>
<1>1. Cardinality({}) = 0
  BY FS_EmptySet
<1>2. Filtered(s, {}) = <<>>
  BY <1>1 DEF Filtered
<1>3. QED
  BY <1>2 DEF Mine, Nothing

\* Rows that say nothing of a path can come before or after.
LEMMA Appended ==
    ASSUME NEW s \in Seq(Chunk), NEW t \in Seq(Chunk), NEW st, st = s \o t, NEW p
    PROVE  /\ st \in Seq(Chunk)
           /\ Nothing(t, p) => Agree(st, s, p)
           /\ Nothing(s, p) => After(st, t, p)
<1>1. st \in Seq(Chunk)
  BY ConcatProperties
<1>2. /\ Len(st) = Len(s) + Len(t)
      /\ \A i \in 1 .. Len(s) + Len(t) : st[i] = IF i <= Len(s) THEN s[i] ELSE t[i - Len(s)]
  BY <1>1, ConcatProperties
<1>3. /\ DOMAIN s = 1 .. Len(s) /\ DOMAIN t = 1 .. Len(t) /\ Len(s) \in Nat /\ Len(t) \in Nat
      /\ DOMAIN st = 1 .. Len(s) + Len(t)
  BY <1>2, LenProperties
<1> DEFINE A == About(s, {p})
           B == About(t, {p})
           C == {Len(s) + u : u \in B}
<1>4. \A i \in DOMAIN st : i \in About(st, {p}) => i \in A \/ i - Len(s) \in B
  <2> TAKE i \in DOMAIN st
  <2>1. CASE i <= Len(s)
    BY <1>2, <1>3, <2>1 DEF About
  <2>2. CASE ~ i <= Len(s)
    <3>1. i - Len(s) \in DOMAIN t /\ st[i] = t[i - Len(s)]
      BY <1>2, <1>3, <2>2
    <3>2. QED
      BY <3>1 DEF About
  <2>3. QED
    BY <2>1, <2>2
<1>5. A \subseteq About(st, {p})
  <2>1. \A i \in DOMAIN s : i \in DOMAIN st /\ st[i] = s[i]
    BY <1>2, <1>3
  <2>2. QED
    BY <2>1 DEF About
<1>6. C \subseteq About(st, {p})
  <2>1. \A i \in DOMAIN t : Len(s) + i \in DOMAIN st /\ st[Len(s) + i] = t[i]
    BY <1>2, <1>3
  <2>2. QED
    BY <2>1 DEF About
<1>7. A \in SUBSET (DOMAIN s) /\ B \in SUBSET (DOMAIN t) /\ About(st, {p}) \in SUBSET (DOMAIN st)
  BY DEF About
<1>8. About(st, {p}) \subseteq A \cup C
  <2>1. \A i \in DOMAIN st : i = Len(s) + (i - Len(s))
    BY <1>3
  <2>2. QED
    BY <1>4, <1>7, <2>1
<1> HIDE DEF A, B
<1>9. B = {} => About(st, {p}) = A
  BY <1>5, <1>8
<1>10. A = {} => About(st, {p}) = C
  BY <1>6, <1>8
<1>11. Filtered(st, A) = Filtered(s, A) /\ Filtered(st, C) = Filtered(t, B)
  BY <1>1, <1>7, FilteredAppended
<1>12. Nothing(t, p) => Agree(st, s, p)
  BY <1>1, <1>9, <1>11 DEF Agree, Nothing, Mine, A, B
<1>13. Nothing(s, p) => After(st, t, p)
  <2>1. Len(st) - Len(t) = Len(s)
    BY <1>2, <1>3
  <2>2. QED
    BY <1>1, <1>10, <1>11, <2>1 DEF After, Nothing, Mine, A, B
<1>14. QED
  BY <1>1, <1>12, <1>13

\* To drop rows keeps what the others say, and nothing of a path whose rows all go.
LEMMA Dropped ==
    ASSUME NEW s \in Seq(Chunk), NEW D, NEW u, u = Except(s, D), NEW p
    PROVE  /\ u \in Seq(Chunk)
           /\ D \cap About(s, {p}) = {} => Mine(u, p) = Mine(s, p)
           /\ About(s, {p}) \subseteq D => Nothing(u, p)
<1> DEFINE S == DOMAIN s \ D
<1>1. u = Filtered(s, S)
  BY DEF Except
<1>2. /\ u \in Seq(Chunk) /\ DOMAIN u = 1 .. Cardinality(S)
      /\ \A k \in 1 .. Cardinality(S) : Position(S, k) \in S /\ u[k] = s[Position(S, k)]
  BY <1>1, FilteredIs
<1> HIDE DEF S
<1>3. ASSUME D \cap About(s, {p}) = {} PROVE Mine(u, p) = Mine(s, p)
  <2>1. About(s, {p}) \in SUBSET S
    BY <1>3 DEF About, S
  <2>2. About(u, {p}) = {k \in 1 .. Cardinality(S) : Position(S, k) \in About(s, {p})}
    BY <1>2 DEF About, S
  <2>3. S \in SUBSET (DOMAIN s)
    BY DEF S
  <2>4. QED
    BY <1>1, <2>1, <2>2, <2>3, FilteredTwice DEF Mine
<1>4. ASSUME About(s, {p}) \subseteq D PROVE About(u, {p}) = {}
  BY <1>2, <1>4 DEF About, S
<1>5. QED
  BY <1>2, <1>3, <1>4 DEF Nothing

\* What a file holds is about that file.
LEMMA ChunksMine ==
    ASSUME NEW p \in Paths, Readable(p)
    PROVE  /\ Chunks(p) \in Seq(Chunk) /\ Mine(Chunks(p), p) = Chunks(p)
           /\ \A q : q # p => Nothing(Chunks(p), q)
<1> DEFINE t == Texts[disk[p]]
<1>1. t \in Seq(Range(t)) /\ disk[p] \in DOMAIN Texts
  BY StoresAssumption DEF Readable
<1>2. Chunks(p) = [i \in DOMAIN t |-> [path |-> p, text |-> t[i]]]
  BY DEF Chunks
<1>3. \A i \in DOMAIN t : [path |-> p, text |-> t[i]] \in Chunk
  BY <1>1 DEF Chunk, Range
<1> HIDE DEF t
<1>4. DOMAIN t = 1 .. Len(t) /\ Len(t) \in Nat
  BY <1>1, LenProperties
<1>5. [i \in 1 .. Len(t) |-> [path |-> p, text |-> t[i]]] \in Seq(Chunk)
  BY <1>3, <1>4, IsASeq
<1>6. Chunks(p) \in Seq(Chunk)
  BY <1>2, <1>4, <1>5
<1>7. About(Chunks(p), {p}) = DOMAIN Chunks(p)
  BY <1>2 DEF About
<1>8. \A q : q # p => About(Chunks(p), {q}) = {}
  BY <1>2 DEF About
<1>9. QED
  BY <1>6, <1>7, <1>8, FilteredAll DEF Mine, Nothing

-----------------------------------------------------------------------------
(* One file after the other *)

\* An index of which a path was dropped: the others say what they said.
DroppedFrom(jx, ix, p) ==
    /\ IsIndex(jx) /\ Nothing(jx.chunks, p)
    /\ \A q : q # p => Mine(jx.chunks, q) = Mine(ix.chunks, q)

\* An index made of chunks has their positions.
LEMMA IndexedIs ==
    ASSUME NEW s \in Seq(Chunk)
    PROVE  /\ IsIndex(Indexed(s)) /\ Indexed(s).chunks = s
           /\ \A p \in Paths : Indexed(s).byPath[p] = About(s, {p})
BY DEF IsIndex, Indexed, ByPath

\* graph and semantic drop a path by comparing the chunks...
LEMMA WithoutIs ==
    ASSUME NEW ix, IsIndex(ix), NEW p
    PROVE  DroppedFrom(Indexed(Without(ix.chunks, {p})), ix, p)
<1>1. PICK s \in Seq(Chunk) : s = ix.chunks
  BY DEF IsIndex
<1>2. \A q : q # p => About(s, {p}) \cap About(s, {q}) = {}
  BY DEF About
<1>3. PICK D : D = About(s, {p})
  OBVIOUS
<1>4. PICK u : u = Except(s, D)
  OBVIOUS
<1>5. u \in Seq(Chunk) /\ Nothing(u, p)
  BY <1>3, <1>4, Dropped
<1>6. ASSUME NEW q, q # p PROVE Mine(u, q) = Mine(s, q)
  <2>1. D \cap About(s, {q}) = {}
    BY <1>2, <1>3, <1>6
  <2>2. QED
    BY <1>4, <2>1, Dropped
<1>7. Indexed(Without(ix.chunks, {p})) = Indexed(u)
  BY <1>1, <1>3, <1>4 DEF Without
<1>8. QED
  BY <1>1, <1>5, <1>6, <1>7, IndexedIs DEF DroppedFrom

\* ... repo-map and default by the positions they keep of it.
LEMMA DropIs ==
    ASSUME NEW ix, IsIndex(ix), NEW p \in Paths
    PROVE  DroppedFrom(Drop(ix, p), ix, p)
<1>1. ix.chunks \in Seq(Chunk) /\ ix.byPath[p] = About(ix.chunks, {p})
  BY IndexedIs DEF IsIndex
<1>2. CASE ix.byPath[p] = {}
  BY <1>1, <1>2 DEF Drop, DroppedFrom, Nothing
<1>3. CASE ix.byPath[p] # {}
  BY <1>1, <1>3, WithoutIs DEF Drop, Without
<1>4. QED
  BY <1>2, <1>3

\* A file indexed is served as it is, and the others as they were.
LEMMA IndexFileIs ==
    ASSUME NEW ix, IsIndex(ix), NEW p \in Paths
    PROVE  /\ IsIndex(IndexFile(ix, p))
           /\ ~ Readable(p) => IndexFile(ix, p) = ix
           /\ Readable(p) => Serves(IndexFile(ix, p).chunks, p)
           /\ \A q : q # p => Mine(IndexFile(ix, p).chunks, q) = Mine(ix.chunks, q)
<1> DEFINE base == IF brick \in {"repo-map", "default"} THEN Drop(ix, p)
                   ELSE Indexed(Without(ix.chunks, {p}))
           n == Len(base.chunks)
           t == Chunks(p)
<1>1. CASE ~ Readable(p)
  BY <1>1 DEF IndexFile
<1>2. CASE Readable(p)
  <2>1. DroppedFrom(base, ix, p)
    BY WithoutIs, DropIs
  <2>2. IndexFile(ix, p) = [chunks |-> base.chunks \o t,
                            byPath |-> [base.byPath EXCEPT ![p] = n + 1 .. n + Len(t)]]
    BY <1>2 DEF IndexFile
  <2> HIDE DEF base
  <2>3. PICK s \in Seq(Chunk) : s = base.chunks
    BY <2>1 DEF DroppedFrom, IsIndex
  <2>4. t \in Seq(Chunk) /\ Mine(t, p) = t /\ \A q : q # p => Nothing(t, q)
    BY <1>2, ChunksMine
  <2>5. DOMAIN t = 1 .. Len(t) /\ Len(t) \in Nat /\ n \in Nat /\ DOMAIN t = About(t, {p})
    <3>1. DOMAIN t = About(t, {p})
      BY DEF Chunks, About
    <3>2. QED
      BY <2>3, <2>4, <3>1, LenProperties
  <2> HIDE DEF n, t
  <2>6. {n + u : u \in About(t, {p})} = n + 1 .. n + Len(t)
    <3>1. \A i \in n + 1 .. n + Len(t) : i - n \in 1 .. Len(t) /\ i = n + (i - n)
      BY <2>5
    <3>2. \A u \in 1 .. Len(t) : n + u \in n + 1 .. n + Len(t)
      BY <2>5
    <3>3. QED
      BY <2>5, <3>1, <3>2
  <2>7. Nothing(s, p) /\ base = [chunks |-> s, byPath |-> ByPath(s)]
    BY <2>1, <2>3 DEF DroppedFrom, IsIndex, Indexed
  <2>8. PICK st \in Seq(Chunk) : st = s \o t
    BY <2>4, ConcatProperties
  <2>9. /\ Mine(st, p) = t
        /\ About(st, {p}) = n + 1 .. n + Len(t)
        /\ \A q : q # p => About(st, {q}) = About(s, {q}) /\ Mine(st, q) = Mine(s, q)
    <3>1. ASSUME NEW q, q # p PROVE Agree(st, s, q)
      BY <2>4, <2>8, <3>1, Appended
    <3>2. After(st, t, p)
      BY <2>4, <2>7, <2>8, Appended
    <3>3. Len(st) - Len(t) = n
      BY <2>3, <2>4, <2>5, <2>8, ConcatProperties DEF n
    <3>4. QED
      BY <2>4, <2>6, <3>1, <3>2, <3>3 DEF Agree, After
  <2>10. [ByPath(s) EXCEPT ![p] = n + 1 .. n + Len(t)] = ByPath(st)
    BY <2>9 DEF ByPath
  <2>11. IndexFile(ix, p) = Indexed(st)
    <3>1. base.byPath = ByPath(s) /\ base.chunks = s
      BY <2>7
    <3>2. IndexFile(ix, p) = [chunks |-> st, byPath |-> ByPath(st)]
      BY <2>2, <2>8, <2>10, <3>1
    <3>3. QED
      BY <3>2 DEF Indexed
  <2>12. \A q : q # p => Mine(st, q) = Mine(ix.chunks, q)
    BY <2>1, <2>3, <2>9 DEF DroppedFrom
  <2>13. Serves(st, p)
    BY <1>2, <2>9 DEF Serves, t
  <2>14. QED
    BY <1>2, <2>11, <2>12, <2>13, IndexedIs
<1>3. QED
  BY <1>1, <1>2

\* What IndexFiles and RowsOf go through.
IsWalk(w, ix, ps, n) == w = [k \in 0 .. n |-> IF k = 0 THEN ix ELSE IndexFile(w[k - 1], ps[k])]
IsRows(r, ps, n) == r = [k \in 0 .. n |-> IF k = 0 THEN <<>> ELSE r[k - 1] \o Chunks(ps[k])]

\* A set of numbers has a least one: what holds of none before it fails at it first.
LEMMA LeastExists ==
    ASSUME NEW S \in SUBSET Nat, S # {}
    PROVE  \E i \in S : \A j \in S : i <= j
<1>1. PICK i \in S : \A j \in S : ~ <<j, i>> \in OpToRel(<, Nat)
  BY NatLessThanWellFounded, WFMin
<1>2. \A j \in S : i <= j
  <2> SUFFICES ASSUME NEW j \in S, j < i PROVE FALSE
    OBVIOUS
  <2>1. <<j, i>> \in {ss \in Nat \X Nat : ss[1] < ss[2]}
    OBVIOUS
  <2>2. OpToRel(<, Nat) = {ss \in Nat \X Nat : ss[1] < ss[2]}
    BY DEF OpToRel
  <2>3. QED
    BY <1>1, <2>1, <2>2
<1>3. QED
  BY <1>2

\* The recursive functions in IndexFiles and RowsOf are there for any number of files.
LEMMA WalkIs ==
    ASSUME NEW ix, NEW ps, NEW n \in Nat
    PROVE  \E w : IsWalk(w, ix, ps, n) /\ IndexFiles(ix, ps, n) = w[n]
<1> DEFINE Bad == {m \in Nat : ~ \E w : IsWalk(w, ix, ps, m)}
<1>1. Bad = {}
  <2> SUFFICES ASSUME Bad # {} PROVE FALSE
    OBVIOUS
  <2>1. PICK m \in Bad : \A j \in Bad : m <= j
    BY LeastExists
  <2>2. CASE m = 0
    <3> DEFINE w == [k \in 0 .. 0 |-> ix]
    <3>1. w = [k \in 0 .. 0 |-> IF k = 0 THEN ix ELSE IndexFile(w[k - 1], ps[k])]
      OBVIOUS
    <3>2. QED
      BY <2>2, <3>1 DEF IsWalk
  <2>3. CASE m # 0
    <3>1. m \in Nat /\ m - 1 \in Nat /\ m - 1 \notin Bad
      BY <2>1, <2>3
    <3>2. PICK v : IsWalk(v, ix, ps, m - 1)
      BY <3>1
    <3> DEFINE w == [k \in 0 .. m |-> IF k = m THEN IndexFile(v[m - 1], ps[m]) ELSE v[k]]
               u == [k \in 0 .. m |-> IF k = 0 THEN ix ELSE IndexFile(w[k - 1], ps[k])]
    <3>3. ASSUME NEW k \in 0 .. m PROVE w[k] = u[k]
      <4>1. CASE k = m
        <5>1. m - 1 \in 0 .. m /\ m - 1 # m
          BY <3>1
        <5>2. w[m - 1] = v[m - 1]
          BY <5>1
        <5>3. w[m] = IndexFile(v[m - 1], ps[m]) /\ u[m] = IndexFile(w[m - 1], ps[m])
          BY <2>3, <3>1
        <5>4. QED
          BY <4>1, <5>2, <5>3
      <4>2. CASE k # m
        <5>1. k \in 0 .. m - 1 /\ (k # 0 => k - 1 \in 0 .. m /\ k - 1 # m)
          BY <3>1, <4>2
        <5>2. w[k] = v[k] /\ (k # 0 => w[k - 1] = v[k - 1])
          BY <4>2, <5>1
        <5>3. v[k] = IF k = 0 THEN ix ELSE IndexFile(v[k - 1], ps[k])
          BY <3>2, <5>1 DEF IsWalk
        <5>4. u[k] = IF k = 0 THEN ix ELSE IndexFile(w[k - 1], ps[k])
          OBVIOUS
        <5>5. QED
          BY <5>2, <5>3, <5>4
      <4>3. QED
        BY <4>1, <4>2
    <3>4. w = u
      BY <3>3
    <3>5. IsWalk(w, ix, ps, m)
      BY <3>4 DEF IsWalk
    <3>6. QED
      BY <2>1, <3>5
  <2>4. QED
    BY <2>2, <2>3
<1>2. \E w : IsWalk(w, ix, ps, n)
  BY <1>1
<1>3. QED
  BY <1>2 DEF IsWalk, IndexFiles

LEMMA RowsIs ==
    ASSUME NEW ps, NEW n \in Nat
    PROVE  \E r : IsRows(r, ps, n) /\ RowsOf(ps, n) = r[n]
<1> DEFINE Bad == {m \in Nat : ~ \E r : IsRows(r, ps, m)}
<1>1. Bad = {}
  <2> SUFFICES ASSUME Bad # {} PROVE FALSE
    OBVIOUS
  <2>1. PICK m \in Bad : \A j \in Bad : m <= j
    BY LeastExists
  <2>2. CASE m = 0
    <3> DEFINE r == [k \in 0 .. 0 |-> <<>>]
    <3>1. r = [k \in 0 .. 0 |-> IF k = 0 THEN <<>> ELSE r[k - 1] \o Chunks(ps[k])]
      OBVIOUS
    <3>2. QED
      BY <2>2, <3>1 DEF IsRows
  <2>3. CASE m # 0
    <3>1. m \in Nat /\ m - 1 \in Nat /\ m - 1 \notin Bad
      BY <2>1, <2>3
    <3>2. PICK v : IsRows(v, ps, m - 1)
      BY <3>1
    <3> DEFINE r == [k \in 0 .. m |-> IF k = m THEN v[m - 1] \o Chunks(ps[m]) ELSE v[k]]
               u == [k \in 0 .. m |-> IF k = 0 THEN <<>> ELSE r[k - 1] \o Chunks(ps[k])]
    <3>3. ASSUME NEW k \in 0 .. m PROVE r[k] = u[k]
      <4>1. CASE k = m
        <5>1. m - 1 \in 0 .. m /\ m - 1 # m
          BY <3>1
        <5>2. r[m - 1] = v[m - 1]
          BY <5>1
        <5>3. m \in 0 .. m
          BY <3>1
        <5>4. r[m] = v[m - 1] \o Chunks(ps[m]) /\ u[m] = r[m - 1] \o Chunks(ps[m])
          BY Zenon, <2>3, <5>3
        <5>5. QED
          BY <4>1, <5>2, <5>4
      <4>2. CASE k # m
        <5>1. k \in 0 .. m - 1 /\ (k # 0 => k - 1 \in 0 .. m /\ k - 1 # m)
          BY <3>1, <4>2
        <5>2. r[k] = v[k] /\ (k # 0 => r[k - 1] = v[k - 1])
          BY <4>2, <5>1
        <5>3. v[k] = IF k = 0 THEN <<>> ELSE v[k - 1] \o Chunks(ps[k])
          BY <3>2, <5>1 DEF IsRows
        <5>4. u[k] = IF k = 0 THEN <<>> ELSE r[k - 1] \o Chunks(ps[k])
          OBVIOUS
        <5>5. QED
          BY <5>2, <5>3, <5>4
      <4>3. QED
        BY <4>1, <4>2
    <3>4. r = u
      BY <3>3
    <3>5. IsRows(r, ps, m)
      BY <3>4 DEF IsRows
    <3>6. QED
      BY <2>1, <3>5
  <2>4. QED
    BY <2>2, <2>3
<1>2. \E r : IsRows(r, ps, n)
  BY <1>1
<1>3. QED
  BY <1>2 DEF IsRows, RowsOf

\* Files indexed one after the other are served as they are, and what was
\* served is served still.
LEMMA IndexFilesIs ==
    ASSUME NEW ix, IsIndex(ix), NEW ps, NEW n \in Nat, \A i \in 1 .. n : ps[i] \in Paths
    PROVE  /\ IsIndex(IndexFiles(ix, ps, n))
           /\ \A p \in Paths :
                 Serves(ix.chunks, p) \/ (Readable(p) /\ \E i \in 1 .. n : ps[i] = p)
                 => Serves(IndexFiles(ix, ps, n).chunks, p)
<1>1. PICK w : IsWalk(w, ix, ps, n) /\ IndexFiles(ix, ps, n) = w[n]
  BY WalkIs
<1>2. \A k \in 0 .. n : w[k] = IF k = 0 THEN ix ELSE IndexFile(w[k - 1], ps[k])
  BY <1>1 DEF IsWalk
<1> DEFINE Good(k) ==
               /\ IsIndex(w[k])
               /\ \A p \in Paths :
                     Serves(ix.chunks, p) \/ (Readable(p) /\ \E i \in 1 .. k : ps[i] = p)
                     => Serves(w[k].chunks, p)
           Bad == {k \in 0 .. n : ~ Good(k)}
<1>3. Bad = {}
  <2> SUFFICES ASSUME Bad # {} PROVE FALSE
    OBVIOUS
  <2>1. PICK k \in Bad : \A j \in Bad : k <= j
    <3>1. Bad \in SUBSET Nat
      OBVIOUS
    <3> HIDE DEF Bad
    <3>2. QED
      BY <3>1, LeastExists
  <2>2. k # 0
    <3>1. k = 0 => w[k] = ix
      BY <1>2
    <3>2. k = 0 => Good(k)
      BY <3>1
    <3>3. QED
      BY <2>1, <3>2
  <2>3. k \in 1 .. n /\ k - 1 \in 0 .. n /\ k - 1 \notin Bad
    BY <2>1, <2>2
  <2>4. Good(k - 1)
    BY <2>3
  <2>5. w[k] = IndexFile(w[k - 1], ps[k]) /\ ps[k] \in Paths
    BY <1>2, <2>2, <2>3
  <2>6. PICK v : v = w[k - 1] /\ IsIndex(v)
    BY <2>4
  <2>7. IsIndex(w[k])
    BY <2>5, <2>6, IndexFileIs
  <2>8. ASSUME NEW p \in Paths,
               Serves(ix.chunks, p) \/ (Readable(p) /\ \E i \in 1 .. k : ps[i] = p)
        PROVE  Serves(w[k].chunks, p)
    <3>1. CASE ps[k] = p /\ Readable(p)
      BY <2>5, <2>6, <3>1, IndexFileIs
    <3>2. CASE ps[k] # p \/ ~ Readable(p)
      <4>1. Serves(ix.chunks, p) \/ (Readable(p) /\ \E i \in 1 .. k - 1 : ps[i] = p)
        <5>1. \A i \in 1 .. k : i # k => i \in 1 .. k - 1
          BY <2>3
        <5>2. QED
          BY <2>8, <3>2, <5>1
      <4>2. Serves(v.chunks, p)
        BY <2>4, <2>6, <4>1
      <4>3. Mine(w[k].chunks, p) = Mine(v.chunks, p)
        <5>1. ps[k] # p => Mine(w[k].chunks, p) = Mine(v.chunks, p)
          <6>1. PICK q \in Paths : q = ps[k]
            BY <2>5
          <6>2. p # q => Mine(IndexFile(v, q).chunks, p) = Mine(v.chunks, p)
            BY <2>6, IndexFileIs
          <6>3. w[k] = IndexFile(v, q)
            BY <2>5, <2>6, <6>1
          <6>4. QED
            BY <6>1, <6>2, <6>3
        <5>2. ~ Readable(ps[k]) => w[k] = v
          BY <2>5, <2>6, IndexFileIs
        <5>3. QED
          BY <3>2, <5>1, <5>2
      <4>4. QED
        BY <4>2, <4>3 DEF Serves
    <3>3. QED
      BY <3>1, <3>2
  <2>9. QED
    BY <2>1, <2>7, <2>8
<1>4. n \in 0 .. n
  OBVIOUS
<1>5. Good(n)
  BY <1>3, <1>4
<1>6. QED
  BY <1>1, <1>5

\* The rows of files that can be read, each met once, serve these and are about
\* no other.
LEMMA RowsOfIs ==
    ASSUME NEW ps, NEW n \in Nat, \A i \in 1 .. n : ps[i] \in Paths /\ Readable(ps[i]),
           \A i, j \in 1 .. n : ps[i] = ps[j] => i = j
    PROVE  /\ RowsOf(ps, n) \in Seq(Chunk)
           /\ \A p : IF \E i \in 1 .. n : ps[i] = p THEN Serves(RowsOf(ps, n), p)
                     ELSE Nothing(RowsOf(ps, n), p)
<1>1. PICK r : IsRows(r, ps, n) /\ RowsOf(ps, n) = r[n]
  BY RowsIs
<1>2. \A k \in 0 .. n : r[k] = IF k = 0 THEN <<>> ELSE r[k - 1] \o Chunks(ps[k])
  BY <1>1 DEF IsRows
<1> DEFINE Good(k) ==
               /\ r[k] \in Seq(Chunk)
               /\ \A p : IF \E i \in 1 .. k : ps[i] = p THEN Serves(r[k], p) ELSE Nothing(r[k], p)
           Bad == {k \in 0 .. n : ~ Good(k)}
<1>3. Bad = {}
  <2> SUFFICES ASSUME Bad # {} PROVE FALSE
    OBVIOUS
  <2>1. PICK k \in Bad : \A j \in Bad : k <= j
    <3>1. Bad \in SUBSET Nat
      OBVIOUS
    <3> HIDE DEF Bad
    <3>2. QED
      BY <3>1, LeastExists
  <2>2. k # 0
    <3>1. \A p : Nothing(<<>>, p)
      BY DEF Nothing, About
    <3>2. <<>> \in Seq(Chunk)
      BY EmptySeq
    <3>3. k = 0 => r[k] = <<>>
      BY <1>2
    <3>4. k = 0 => ~ \E i \in 1 .. k : TRUE
      OBVIOUS
    <3>5. k = 0 => Good(k)
      BY <3>1, <3>2, <3>3, <3>4
    <3>6. QED
      BY <2>1, <3>5
  <2>3. k \in 1 .. n /\ k - 1 \in 0 .. n /\ k - 1 \notin Bad
    <3>1. Bad \in SUBSET (0 .. n)
      OBVIOUS
    <3> HIDE DEF Bad
    <3>2. QED
      BY <2>1, <2>2, <3>1
  <2>4. Good(k - 1)
    BY <2>3
  <2>5. PICK s \in Seq(Chunk) : s = r[k - 1]
    BY <2>4
  <2>6. PICK q \in Paths : q = ps[k] /\ Readable(q)
    BY <2>3
  <2>7. PICK t \in Seq(Chunk) : t = Chunks(q) /\ Mine(t, q) = t /\ \A p : p # q => Nothing(t, p)
    BY <2>6, ChunksMine
  <2>8. PICK st : st = s \o t
    OBVIOUS
  <2>9. r[k] = st
    BY <1>2, <2>2, <2>3, <2>5, <2>6, <2>7, <2>8
  <2>10. st \in Seq(Chunk)
    BY <2>8, ConcatProperties
  <2>11. ASSUME NEW p
         PROVE  IF \E i \in 1 .. k : ps[i] = p THEN Serves(st, p) ELSE Nothing(st, p)
    <3>1. CASE p = q
      <4>1. ~ \E i \in 1 .. k - 1 : ps[i] = p
        BY <2>3, <2>6, <3>1
      <4>2. Nothing(s, p)
        BY <2>4, <2>5, <4>1
      <4>3. After(st, t, p)
        BY <2>8, <4>2, Appended
      <4>4. Serves(st, p)
        BY <2>6, <2>7, <3>1, <4>3 DEF Serves, After
      <4>5. \E i \in 1 .. k : ps[i] = p
        BY <2>3, <2>6, <3>1
      <4>6. QED
        BY <4>4, <4>5
    <3>2. CASE p # q
      <4>1. (\E i \in 1 .. k : ps[i] = p) <=> \E i \in 1 .. k - 1 : ps[i] = p
        <5>1. \A i \in 1 .. k : i # k => i \in 1 .. k - 1
          BY <2>3
        <5>2. \A i \in 1 .. k - 1 : i \in 1 .. k
          BY <2>3
        <5>3. QED
          BY <2>6, <3>2, <5>1, <5>2
      <4>2. Nothing(t, p)
        BY <2>7, <3>2
      <4>3. Agree(st, s, p)
        BY <2>8, <4>2, Appended
      <4>4. IF \E i \in 1 .. k - 1 : ps[i] = p THEN Serves(s, p) ELSE Nothing(s, p)
        BY <2>4, <2>5
      <4>5. QED
        BY <4>1, <4>3, <4>4 DEF Agree, Serves, Nothing
    <3>3. QED
      BY <3>1, <3>2
  <2>12. QED
    BY <2>1, <2>9, <2>10, <2>11
<1>4. n \in 0 .. n
  OBVIOUS
<1>5. Good(n)
  BY <1>3, <1>4
<1>6. QED
  BY <1>1, <1>5

\* A walk finds every file that can be read.
LEMMA FoundIs ==
    /\ Len(Found) \in Nat /\ \A i \in 1 .. Len(Found) : Found[i] \in Paths
    /\ \A p \in Paths : Readable(p) => \E i \in 1 .. Len(Found) : Found[i] = p
<1> DEFINE S == {i \in DOMAIN Walk : disk[Walk[i]] # Gone}
<1>1. Walk \in Seq(Paths) /\ DOMAIN Texts \cap {Gone} = {}
  BY StoresAssumption DEF Paths
<1>2. S \in SUBSET (DOMAIN Walk)
  OBVIOUS
<1>3. Found = Filtered(Walk, S)
  BY DEF Found
<1> HIDE DEF S
<1>4. /\ Found \in Seq(Paths) /\ DOMAIN Found = 1 .. Cardinality(S)
      /\ \A k \in 1 .. Cardinality(S) : Found[k] = Walk[Position(S, k)]
      /\ \A i \in S : \E k \in 1 .. Cardinality(S) : Position(S, k) = i
  BY <1>1, <1>2, <1>3, FilteredIs
<1>5. PICK f \in Seq(Paths) : f = Found
  BY <1>4
<1>6. Len(Found) \in Nat /\ DOMAIN Found = 1 .. Len(Found) /\ \A i \in 1 .. Len(Found) : Found[i] \in Paths
  BY <1>5, LenProperties, ElementOfSeq
<1>7. ASSUME NEW p \in Paths, Readable(p) PROVE \E i \in DOMAIN Found : Found[i] = p
  <2>1. PICK i \in DOMAIN Walk : Walk[i] = p
    BY DEF Paths, Range
  <2>2. i \in S
    BY <1>1, <1>7, <2>1 DEF S, Readable
  <2>3. QED
    BY <1>4, <2>1, <2>2
<1>8. QED
  BY <1>6, <1>7

Once(ps) == \A i, j \in DOMAIN ps : ps[i] = ps[j] => i = j
ReadOf(ps) == Filtered(ps, {i \in DOMAIN ps : Readable(ps[i])})

\* Those of some files that can be read, each once.
LEMMA ReadIs ==
    ASSUME NEW ps \in Seq(Paths), Once(ps), NEW read, read = ReadOf(ps)
    PROVE  /\ Len(read) \in Nat /\ DOMAIN read = 1 .. Len(read)
           /\ \A i \in 1 .. Len(read) : read[i] \in Paths /\ Readable(read[i])
           /\ \A i, j \in 1 .. Len(read) : read[i] = read[j] => i = j
           /\ Range(read) = {p \in Range(ps) : Readable(p)}
           /\ (read = <<>> <=> Range(read) = {})
<1> DEFINE S == {i \in DOMAIN ps : Readable(ps[i])}
<1>1. S \in SUBSET (DOMAIN ps) /\ read = Filtered(ps, S)
  BY DEF ReadOf
<1>2. \A i \in S : Readable(ps[i])
  OBVIOUS
<1>3. \A i \in DOMAIN ps : Readable(ps[i]) => i \in S
  OBVIOUS
<1> HIDE DEF S
<1>4. /\ read \in Seq(Paths) /\ DOMAIN read = 1 .. Cardinality(S)
      /\ \A k \in 1 .. Cardinality(S) : Position(S, k) \in S /\ read[k] = ps[Position(S, k)]
      /\ \A i \in S : \E k \in 1 .. Cardinality(S) : Position(S, k) = i
      /\ \A j, k \in 1 .. Cardinality(S) : j < k => Position(S, j) < Position(S, k)
      /\ Cardinality(S) \in Nat /\ IsPositions(S)
  <2>1. /\ read \in Seq(Paths) /\ DOMAIN read = 1 .. Cardinality(S)
        /\ \A k \in 1 .. Cardinality(S) : Position(S, k) \in S /\ read[k] = ps[Position(S, k)]
    <3>1. /\ Filtered(ps, S) \in Seq(Paths) /\ DOMAIN Filtered(ps, S) = 1 .. Cardinality(S)
          /\ \A k \in 1 .. Cardinality(S) :
                Position(S, k) \in S /\ Filtered(ps, S)[k] = ps[Position(S, k)]
      BY <1>1, FilteredIs
    <3>2. QED
      BY <1>1, <3>1
  <2>2. /\ \A i \in S : \E k \in 1 .. Cardinality(S) : Position(S, k) = i
        /\ Cardinality(S) \in Nat /\ IsPositions(S)
    BY <1>1, FilteredIs
  <2>3. \A j, k \in 1 .. Cardinality(S) : j < k => Position(S, j) < Position(S, k)
    BY <1>1, FilteredIs
  <2>4. QED
    BY <2>1, <2>2, <2>3
<1>5. Len(read) \in Nat /\ DOMAIN read = 1 .. Len(read) /\ \A i \in 1 .. Len(read) : read[i] \in Paths
  BY <1>4, LenProperties, ElementOfSeq
<1>6. \A i \in DOMAIN read : Readable(read[i])
  BY <1>2, <1>4
<1>7. ASSUME NEW i \in DOMAIN read, NEW j \in DOMAIN read, read[i] = read[j] PROVE i = j
  <2>1. /\ Position(S, i) \in DOMAIN ps /\ Position(S, j) \in DOMAIN ps
        /\ ps[Position(S, i)] = ps[Position(S, j)]
    BY <1>1, <1>4, <1>7
  <2>2. Position(S, i) = Position(S, j) /\ Position(S, i) \in Nat
    BY <1>4, <2>1 DEF IsPositions, Once
  <2>3. i \in Nat /\ j \in Nat /\ ~ i < j /\ ~ j < i
    BY <1>4, <2>2
  <2>4. QED
    BY <2>3
<1>8. Range(read) = {p \in Range(ps) : Readable(p)}
  <2>1. ASSUME NEW i \in DOMAIN read PROVE read[i] \in Range(ps)
    BY <1>1, <1>4 DEF Range
  <2>2. ASSUME NEW p \in Range(ps), Readable(p) PROVE p \in Range(read)
    <3>1. PICK i \in S : ps[i] = p
      BY <1>3, <2>2 DEF Range
    <3>2. PICK k \in DOMAIN read : Position(S, k) = i
      BY <1>4
    <3>3. read[k] = p
      BY <1>4, <3>1, <3>2
    <3>4. QED
      BY <3>2, <3>3 DEF Range
  <2>3. QED
    BY <1>6, <2>1, <2>2 DEF Range
<1>9. read = <<>> <=> Range(read) = {}
  <2>1. Range(read) = {} => Len(read) = 0
    <3>1. Len(read) # 0 => 1 \in DOMAIN read
      BY <1>5
    <3>2. 1 \in DOMAIN read => read[1] \in Range(read)
      BY DEF Range
    <3>3. QED
      BY <3>1, <3>2
  <2>2. read = <<>> => Range(read) = {}
    <3>1. read = <<>> => DOMAIN read = {}
      OBVIOUS
    <3>2. DOMAIN read = {} => Range(read) = {}
      BY DEF Range
    <3>3. QED
      BY <3>1, <3>2
  <2>3. Len(read) = 0 => read = <<>>
    BY <1>4, EmptySeq
  <2>4. QED
    BY <2>1, <2>2, <2>3
<1>10. QED
  BY <1>5, <1>6, <1>7, <1>8, <1>9

-----------------------------------------------------------------------------
(* The invariant of the files *)

\* A step of a brick that does not wait for embeddings.
LEMMA NotVector ==
    ASSUME FilesInv, brick # "vector", UNCHANGED <<brick, disk, saved>>,
           IsIndex(index'), fresh' \subseteq Paths, \A p \in fresh' : Serves(index'.chunks, p)
    PROVE  FilesInv'
<1>1. FilesTypeOK'
  BY DEF FilesInv, FilesTypeOK
<1>2. Waits'
  BY DEF Waits
<1>3. \A p \in fresh' : Mine(index'.chunks, p) = IF Readable(p)' THEN Chunks(p)' ELSE <<>>
  BY DEF Serves, Readable, Chunks
<1>4. Fresh'
  BY <1>3 DEF Fresh, ServesCurrent, Mine
<1>5. QED
  BY <1>1, <1>2, <1>4 DEF FilesInv

\* An index that knows nothing.
LEMMA EmptyIndex == IsIndex(Indexed(<<>>)) /\ Indexed(<<>>).chunks = <<>>
BY EmptySeq, IndexedIs

\* A walk over the files found, from an index that serves what it leaves fresh.
LEMMA WalkFromKeeps ==
    ASSUME FilesInv, brick # "vector", NEW ix, IsIndex(ix), NEW n \in Nat, NEW told \in BOOLEAN,
           n <= Len(Found), told \/ n = Len(Found), told => ix = index, WalkFrom(ix, n, told)
    PROVE  FilesInv'
<1>1. \A i \in 1 .. n : i \in 1 .. Len(Found) /\ Found[i] \in Paths
  BY FoundIs
<1>2. /\ IsIndex(IndexFiles(ix, Found, n))
      /\ \A p \in Paths :
            Serves(ix.chunks, p) \/ (Readable(p) /\ \E i \in 1 .. n : Found[i] = p)
            => Serves(IndexFiles(ix, Found, n).chunks, p)
  BY <1>1, IndexFilesIs
<1>3. /\ index' = IndexFiles(ix, Found, n) /\ UNCHANGED <<brick, disk, saved>>
      /\ fresh' = {p \in Paths : Readable(p) /\ (told => p \in Walked(n) \cup fresh)}
  BY DEF WalkFrom
<1>4. ASSUME NEW p \in fresh' PROVE Serves(index'.chunks, p)
  <2>1. p \in Paths /\ Readable(p) /\ (told => p \in Walked(n) \cup fresh)
    BY <1>3
  <2>2. CASE \E i \in 1 .. n : Found[i] = p
    BY <1>2, <1>3, <2>1, <2>2
  <2>3. CASE p \in fresh /\ told
    BY <1>2, <1>3, <2>1, <2>3 DEF FilesInv, Fresh, ServesCurrent, Serves, Mine
  <2>4. ~ told => \E i \in 1 .. n : Found[i] = p
    BY <2>1, FoundIs
  <2>5. p \in Walked(n) => \E i \in 1 .. n : Found[i] = p
    BY DEF Walked
  <2>6. QED
    BY <2>1, <2>2, <2>3, <2>4, <2>5
<1>5. QED
  BY <1>2, <1>3, <1>4, NotVector

\* What the bricks that wait for no embeddings do.
LEMMA IndexKeeps ==
    ASSUME FilesInv,
           \/ \E n \in 0 .. Len(Walk), told \in BOOLEAN : IndexAll(n, told) \/ Retrieve(n, told)
           \/ \E p \in Paths : IndexPath(p) \/ InvalidatePath(p)
           \/ InvalidateAll
    PROVE  FilesInv'
<1>1. IsIndex(index) /\ fresh \subseteq Paths /\ \A p \in fresh : Serves(index.chunks, p)
  BY DEF FilesInv, FilesTypeOK, Fresh, ServesCurrent, Serves, Mine
<1>2. ASSUME NEW n \in 0 .. Len(Walk), NEW told \in BOOLEAN, IndexAll(n, told) \/ Retrieve(n, told)
      PROVE  FilesInv'
  <2>1. brick # "vector" /\ n \in Nat /\ Budget(n, told)
    BY <1>2 DEF IndexAll, Retrieve, Synchronous
  <2>2. n <= Len(Found) /\ (told \/ n = Len(Found)) /\ (told => brick = "repo-map")
    BY <2>1, FoundIs DEF Budget
  <2>3. \E ix : IsIndex(ix) /\ (told => ix = index) /\ WalkFrom(ix, n, told)
    <3>1. CASE IndexAll(n, told)
      BY <1>1, <2>2, <3>1, EmptyIndex DEF IndexAll
    <3>2. CASE Retrieve(n, told)
      BY <1>1, <3>2 DEF Retrieve
    <3>3. QED
      BY <1>2, <3>1, <3>2
  <2>4. QED
    BY <2>1, <2>2, <2>3, WalkFromKeeps
<1>3. ASSUME NEW p \in Paths, NEW ix, IsIndex(ix), brick # "vector",
             \A q : q # p => Mine(ix.chunks, q) = Mine(index.chunks, q),
             Readable(p) \/ p \notin fresh' \/ Serves(ix.chunks, p),
             index' = IndexFile(ix, p), UNCHANGED <<brick, disk, saved>>,
             fresh' \subseteq fresh \cup {p}
      PROVE  FilesInv'
  <2>1. IsIndex(index')
    BY <1>3, IndexFileIs
  <2>2. ASSUME NEW q \in fresh' PROVE Serves(index'.chunks, q)
    <3>1. CASE q = p /\ Readable(p)
      BY <1>3, <3>1, IndexFileIs
    <3>2. CASE q = p /\ ~ Readable(p)
      BY <1>3, <3>2, IndexFileIs
    <3>3. CASE q # p
      <4>1. Mine(index'.chunks, q) = Mine(ix.chunks, q)
        BY <1>3, <3>3, IndexFileIs
      <4>2. Mine(index'.chunks, q) = Mine(index.chunks, q) /\ q \in fresh
        BY <1>3, <3>3, <4>1
      <4>3. QED
        BY <1>1, <4>2 DEF Serves
    <3>4. QED
      BY <3>1, <3>2, <3>3
  <2>3. QED
    BY <1>1, <1>3, <2>1, <2>2, NotVector
<1>4. ASSUME NEW p \in Paths, IndexPath(p) PROVE FilesInv'
  <2>1. /\ brick # "vector" /\ index' = IndexFile(index, p) /\ UNCHANGED <<brick, disk, saved>>
        /\ fresh' = fresh \cup (IF Readable(p) THEN {p} ELSE {})
    BY <1>4 DEF IndexPath, Synchronous
  <2>2. Readable(p) \/ p \notin fresh' \/ Serves(index.chunks, p)
    BY <1>1, <2>1
  <2>3. QED
    BY <1>1, <1>3, <2>1, <2>2
<1>5. ASSUME NEW p \in Paths, InvalidatePath(p) PROVE FilesInv'
  <2> DEFINE ix == CASE brick = "semantic" -> index
                     [] brick = "graph" -> Indexed(Without(index.chunks, {p}))
                     [] OTHER -> Drop(index, p)
  <2>1. /\ brick # "vector" /\ index' = IndexFile(ix, p) /\ UNCHANGED <<brick, disk, saved>>
        /\ fresh' = fresh \cup (IF Readable(p) \/ brick # "semantic" THEN {p} ELSE {})
    BY <1>5 DEF InvalidatePath, Synchronous
  <2>2. /\ brick = "semantic" => ix = index
        /\ brick # "semantic" => DroppedFrom(ix, index, p)
    BY <1>1, WithoutIs, DropIs
  <2> HIDE DEF ix
  <2>3. IsIndex(ix) /\ \A q : q # p => Mine(ix.chunks, q) = Mine(index.chunks, q)
    BY <1>1, <2>2 DEF DroppedFrom
  <2>4. Readable(p) \/ p \notin fresh' \/ Serves(ix.chunks, p)
    <3>1. CASE brick = "semantic"
      BY <1>1, <2>1, <2>2, <3>1
    <3>2. CASE brick # "semantic"
      BY <2>2, <3>2, NothingMine DEF DroppedFrom, Serves
    <3>3. QED
      BY <3>1, <3>2
  <2>5. QED
    BY <1>3, <2>1, <2>3, <2>4
<1>6. CASE InvalidateAll
  <2>1. brick # "vector"
    BY <1>6 DEF InvalidateAll, Synchronous
  <2>2. CASE WalkFrom(Indexed(<<>>), Len(Found), FALSE)
    <3>1. PICK n \in Nat : n = Len(Found)
      BY FoundIs
    <3>2. PICK ix : IsIndex(ix) /\ WalkFrom(ix, n, FALSE)
      BY <2>2, <3>1, EmptyIndex
    <3>3. n <= Len(Found)
      BY <3>1
    <3>4. QED
      BY <2>1, <3>1, <3>2, <3>3, WalkFromKeeps
  <2>3. CASE index' = Indexed(<<>>) /\ fresh' = {} /\ UNCHANGED <<brick, disk, saved>>
    BY <2>1, <2>3, EmptyIndex, NotVector
  <2>4. QED
    BY <1>6, <2>2, <2>3 DEF InvalidateAll
<1>7. QED
  BY <1>2, <1>4, <1>5, <1>6

\* The rows of some paths are deleted: the others keep theirs.
LEMMA WithoutRows ==
    ASSUME NEW s \in Seq(Chunk), NEW ps, NEW u, u = Without(s, ps), NEW p
    PROVE  /\ u \in Seq(Chunk)
           /\ p \notin ps => Mine(u, p) = Mine(s, p)
           /\ p \in ps \/ Nothing(s, p) => Nothing(u, p)
<1>1. PICK D : D = About(s, ps)
  OBVIOUS
<1>2. u = Except(s, D)
  BY <1>1 DEF Without
<1>3. p \notin ps => D \cap About(s, {p}) = {}
  BY <1>1 DEF About
<1>4. p \in ps \/ Nothing(s, p) => About(s, {p}) \subseteq D
  BY <1>1 DEF About, Nothing
<1>5. QED
  BY <1>2, <1>3, <1>4, Dropped

\* Rows that say nothing of any path but some are about these.
LEMMA RowsAbout ==
    ASSUME NEW s, NEW ps, \A p : p \notin ps => Nothing(s, p)
    PROVE  \A i \in DOMAIN s : s[i].path \in ps
BY DEF Nothing, About

\* A step of context/vector that leaves the files alone.
LEMMA VectorStep ==
    ASSUME FilesInv, brick = "vector", UNCHANGED <<brick, disk>>,
           IsIndex(index'), saved' \in Seq(Chunk), fresh' \subseteq Paths,
           \A p \in fresh' :
              /\ Serves(index'.chunks, p) /\ Serves(saved', p)
              /\ \A c \in Calls : p \notin waiting'[c].about,
           \A c \in Calls :
              /\ waiting'[c].rows \in Seq(Chunk) /\ waiting'[c].about \subseteq Paths
              /\ waiting'[c].clean \subseteq waiting'[c].about
              /\ \A i \in DOMAIN waiting'[c].rows : waiting'[c].rows[i].path \in waiting'[c].about,
           \A c \in Calls : \A p \in waiting'[c].clean :
              /\ Serves(waiting'[c].rows, p) /\ Nothing(index'.chunks, p)
              /\ \A d \in Calls \ {c} : p \notin waiting'[d].about
    PROVE  FilesInv'
<1>1. FilesTypeOK'
  BY DEF FilesInv, FilesTypeOK
<1>2. \A c \in Calls : \A p \in waiting'[c].clean :
         Mine(waiting'[c].rows, p) = IF Readable(p)' THEN Chunks(p)' ELSE <<>>
  BY DEF Serves, Readable, Chunks
<1>3. \A p \in fresh' : /\ Mine(index'.chunks, p) = IF Readable(p)' THEN Chunks(p)' ELSE <<>>
                        /\ Mine(saved', p) = IF Readable(p)' THEN Chunks(p)' ELSE <<>>
  BY DEF Serves, Readable, Chunks
<1>4. Waits'
  BY <1>2 DEF Waits, Serves
<1>5. Fresh'
  BY <1>3 DEF Fresh, ServesCurrent, Serves, Mine
<1>6. QED
  BY <1>1, <1>4, <1>5 DEF FilesInv

\* The rows deleted are those of the paths asked for; a path nobody else is
\* about waits clean, or is fresh when there is nothing to embed.
LEMMA EmbedServes ==
    ASSUME FilesInv, Pending, NEW c \in Calls, NEW ps \in Seq(Paths),
           Once(ps), NEW dropped \in SUBSET Range(ps), Embed(c, ps, dropped)
    PROVE  FilesInv'
<1> DEFINE others == UNION {waiting[d].about : d \in Calls \ {c}}
<1>1. PICK read : read = ReadOf(ps)
  OBVIOUS
<1>2. /\ Len(read) \in Nat
      /\ \A i \in 1 .. Len(read) : read[i] \in Paths /\ Readable(read[i])
      /\ \A i, j \in 1 .. Len(read) : read[i] = read[j] => i = j
      /\ DOMAIN read = 1 .. Len(read)
      /\ Range(read) = {p \in Range(ps) : Readable(p)}
      /\ (read = <<>> <=> Range(read) = {})
  BY <1>1, ReadIs
<1>3. PICK about : about = Range(read) \cup dropped
  OBVIOUS
<1>4. PICK rows : rows = RowsOf(read, Len(read))
  OBVIOUS
<1>5. PICK left : left = Without(index.chunks, about)
  OBVIOUS
<1>6. /\ brick = "vector" /\ UNCHANGED <<brick, disk>>
      /\ index' = Indexed(left)
      /\ waiting' = [d \in Calls |->
              IF d # c THEN [waiting[d] EXCEPT !.clean = @ \ about]
              ELSE IF read = <<>> THEN Free
              ELSE [rows |-> rows, about |-> about, clean |-> about \ others, ids |-> {}]]
      /\ saved' = IF read = <<>> \/ dropped # {} THEN Indexed(left).chunks ELSE saved
      /\ fresh' = (fresh \ about) \cup (IF read = <<>> THEN about \ others ELSE {})
  BY <1>1, <1>3, <1>4, <1>5 DEF Embed, ReadOf
<1>7. brick = "vector"
  BY <1>6
<1> HIDE DEF others
<1>8. Range(ps) \subseteq Paths /\ about \subseteq Paths
  <2>1. \A i \in DOMAIN ps : ps[i] \in Paths
    BY ElementOfSeq, LenProperties
  <2>2. Range(ps) \subseteq Paths
    BY <2>1 DEF Range
  <2>3. QED
    BY <1>2, <1>3, <2>2
<1>9. PICK s \in Seq(Chunk) : s = index.chunks
  BY DEF FilesInv, FilesTypeOK, IsIndex
<1>10. /\ left \in Seq(Chunk)
      /\ \A p : /\ p \notin about => Mine(left, p) = Mine(index.chunks, p)
                /\ p \in about \/ Nothing(index.chunks, p) => Nothing(left, p)
  <2>1. left = Without(s, about)
    BY <1>5, <1>9
  <2>2. left \in Seq(Chunk)
    BY <2>1, WithoutRows
  <2>3. ASSUME NEW p
        PROVE  /\ p \notin about => Mine(left, p) = Mine(s, p)
               /\ p \in about \/ Nothing(s, p) => Nothing(left, p)
    BY <2>1, WithoutRows
  <2>4. QED
    BY <1>9, <2>2, <2>3
<1>11. IsIndex(index') /\ index'.chunks = left /\ (saved' = left \/ (saved' = saved /\ read # <<>>))
  BY <1>6, <1>10, IndexedIs
\* What the call will insert serves all it is about: a path dropped but not read
\* cannot be read.
<1>12. /\ rows \in Seq(Chunk) /\ \A p : p \notin about => Nothing(rows, p)
       /\ \A p \in about : Serves(rows, p)
  <2>1. /\ rows \in Seq(Chunk)
        /\ \A p : IF \E i \in 1 .. Len(read) : read[i] = p THEN Serves(rows, p) ELSE Nothing(rows, p)
    BY <1>2, <1>4, RowsOfIs
  <2>2. \A p : (\E i \in 1 .. Len(read) : read[i] = p) <=> p \in Range(read)
    BY <1>2 DEF Range
  <2>3. \A p \in about : p \notin Range(read) => ~ Readable(p)
    BY <1>2, <1>3
  <2>4. \A p \in about : p \notin Range(read) => Serves(rows, p)
    BY <2>1, <2>2, <2>3, NothingMine DEF Serves
  <2>5. QED
    BY <1>3, <2>1, <2>2, <2>4
<1>13. /\ waiting'[c] = IF read = <<>> THEN Free
                        ELSE [rows |-> rows, about |-> about, clean |-> about \ others, ids |-> {}]
       /\ waiting'[c].about \subseteq about
  BY <1>6 DEF Free
<1>14. \A d \in Calls : d # c =>
          /\ waiting'[d].rows = waiting[d].rows /\ waiting'[d].about = waiting[d].about
          /\ waiting'[d].clean = waiting[d].clean \ about
  BY <1>6 DEF Pending
<1>15. ASSUME NEW p \in fresh'
       PROVE  /\ p \in Paths /\ Serves(left, p) /\ Serves(saved', p)
              /\ \A d \in Calls : p \notin waiting'[d].about
  <2>1. CASE p \in fresh /\ p \notin about
    <3>1. Serves(index.chunks, p) /\ Serves(saved, p) /\ p \in Paths
      BY <1>6, <2>1 DEF FilesInv, FilesTypeOK, Fresh, ServesCurrent, Serves, Mine
    <3>2. Serves(left, p)
      BY <1>10, <2>1, <3>1 DEF Serves
    <3>3. \A d \in Calls : p \notin waiting'[d].about
      BY <1>6, <1>13, <1>14, <2>1 DEF FilesInv, Fresh
    <3>4. QED
      BY <1>11, <3>1, <3>2, <3>3
  <2>2. CASE read = <<>> /\ p \in about /\ p \notin others
    <3>1. ~ Readable(p) /\ p \in Paths
      BY <1>2, <1>3, <1>8, <2>2
    <3>2. Serves(left, p)
      BY <1>10, <2>2, <3>1, NothingMine DEF Serves
    <3>3. waiting'[c].about = {}
      BY <1>13, <2>2 DEF Free
    <3>4. \A d \in Calls : d # c => p \notin waiting'[d].about
      BY <1>14, <2>2 DEF others
    <3>5. QED
      BY <1>11, <2>2, <3>1, <3>2, <3>3, <3>4
  <2>3. QED
    BY <1>6, <2>1, <2>2
<1>16. ASSUME NEW d \in Calls
       PROVE  /\ waiting'[d].rows \in Seq(Chunk) /\ waiting'[d].about \subseteq Paths
              /\ waiting'[d].clean \subseteq waiting'[d].about
              /\ \A i \in DOMAIN waiting'[d].rows : waiting'[d].rows[i].path \in waiting'[d].about
  <2>1. CASE d # c
    BY <1>7, <1>14, <2>1 DEF FilesInv, FilesTypeOK, Waits
  <2>2. CASE d = c /\ read = <<>>
    <3>1. waiting'[d].rows = <<>> /\ waiting'[d].about = {} /\ waiting'[d].clean = {}
      BY <1>13, <2>2 DEF Free
    <3>2. DOMAIN waiting'[d].rows = {} /\ waiting'[d].rows \in Seq(Chunk)
      BY <3>1, EmptySeq
    <3>3. QED
      BY <3>1, <3>2
  <2>3. CASE d = c /\ read # <<>>
    <3>1. waiting'[d].rows = rows /\ waiting'[d].about = about /\ waiting'[d].clean = about \ others
      BY <1>13, <2>3
    <3>2. \A i \in DOMAIN rows : rows[i].path \in about
      BY <1>12, RowsAbout
    <3>3. QED
      BY <1>8, <1>12, <3>1, <3>2
  <2>4. QED
    BY <2>1, <2>2, <2>3
<1>17. ASSUME NEW d \in Calls, NEW p \in waiting'[d].clean
       PROVE  /\ Serves(waiting'[d].rows, p) /\ Nothing(left, p)
              /\ \A e \in Calls \ {d} : p \notin waiting'[e].about
  <2>1. CASE d # c
    <3>1. p \in waiting[d].clean /\ p \notin about /\ waiting'[d].rows = waiting[d].rows
      BY <1>14, <1>17, <2>1
    <3>2. /\ Serves(waiting[d].rows, p) /\ Nothing(index.chunks, p)
          /\ \A e \in Calls \ {d} : p \notin waiting[e].about
      BY <1>6, <3>1 DEF FilesInv, Waits
    <3>3. \A e \in Calls \ {d} : p \notin waiting'[e].about
      BY <1>13, <1>14, <3>1, <3>2
    <3>4. QED
      BY <1>10, <3>1, <3>2, <3>3
  <2>2. CASE d = c
    <3>1. read # <<>>
      BY <1>13, <1>17, <2>2 DEF Free
    <3>2. waiting'[c].rows = rows /\ p \in about /\ p \notin others
      BY <1>13, <1>17, <2>2, <3>1
    <3>3. \A e \in Calls \ {c} : p \notin waiting'[e].about
      BY <1>14, <3>2 DEF others
    <3>4. QED
      BY <1>10, <1>12, <2>2, <3>2, <3>3
  <2>3. QED
    BY <2>1, <2>2
<1>18. saved' \in Seq(Chunk)
  BY <1>10, <1>11 DEF FilesInv, FilesTypeOK
<1>19. QED
  BY <1>6, <1>11, <1>15, <1>16, <1>17, <1>18, VectorStep

\* The embeddings come: what the table did not have it has now, of the other
\* paths it says what it did.
LEMMA EmbeddedServes ==
    ASSUME FilesInv, Pending, NEW c \in Calls, Embedded(c)
    PROVE  FilesInv'
<1>1. PICK rows \in Seq(Chunk) : rows = waiting[c].rows
  BY DEF Embedded, FilesInv, FilesTypeOK
<1>2. PICK s \in Seq(Chunk) : s = index.chunks
  BY DEF FilesInv, FilesTypeOK, IsIndex
<1>3. PICK st : st = s \o rows
  OBVIOUS
<1>4. /\ brick = "vector" /\ UNCHANGED <<brick, disk>>
      /\ index' = Indexed(st) /\ saved' = Indexed(st).chunks
      /\ fresh' = fresh \cup waiting[c].clean
      /\ waiting' = [waiting EXCEPT ![c] = Free]
  BY <1>1, <1>2, <1>3 DEF Embedded
<1>5. st \in Seq(Chunk)
  BY <1>3, Appended
<1>6. IsIndex(index') /\ index'.chunks = st /\ saved' = st
  BY <1>4, <1>5, IndexedIs
<1>7. ASSUME NEW p
      PROVE  /\ Nothing(s, p) => Mine(st, p) = Mine(rows, p)
             /\ p \notin waiting[c].about => About(st, {p}) = About(s, {p}) /\ Mine(st, p) = Mine(s, p)
  <2>1. Nothing(s, p) => After(st, rows, p)
    BY <1>3, Appended
  <2>2. p \notin waiting[c].about => Nothing(rows, p)
    BY <1>1, <1>4 DEF FilesInv, Waits, Nothing, About
  <2>3. p \notin waiting[c].about => Agree(st, s, p)
    BY <1>3, <2>2, Appended
  <2>4. QED
    BY <2>1, <2>3 DEF After, Agree
<1>8. waiting'[c].rows = <<>> /\ waiting'[c].about = {} /\ waiting'[c].clean = {}
  BY <1>4 DEF Pending, Free
<1>9. \A d \in Calls : d # c => waiting'[d] = waiting[d]
  BY <1>4 DEF Pending
<1>10. ASSUME NEW p \in fresh'
       PROVE  p \in Paths /\ Serves(st, p) /\ \A d \in Calls : p \notin waiting'[d].about
  <2>1. CASE p \in fresh
    <3>1. /\ p \in Paths /\ Serves(s, p) /\ \A d \in Calls : p \notin waiting[d].about
      BY <1>2, <1>4, <2>1 DEF FilesInv, FilesTypeOK, Fresh, ServesCurrent, Serves, Mine
    <3>2. QED
      BY <1>7, <1>8, <1>9, <3>1 DEF Serves
  <2>2. CASE p \in waiting[c].clean
    <3>1. /\ Serves(rows, p) /\ Nothing(s, p) /\ \A d \in Calls \ {c} : p \notin waiting[d].about
      BY <1>1, <1>2, <1>4, <2>2 DEF FilesInv, Waits
    <3>2. p \in Paths
      BY <1>4, <2>2 DEF FilesInv, FilesTypeOK
    <3>3. QED
      BY <1>7, <1>8, <1>9, <3>1, <3>2 DEF Serves
  <2>3. QED
    BY <1>4, <2>1, <2>2
<1>11. ASSUME NEW d \in Calls
       PROVE  /\ waiting'[d].rows \in Seq(Chunk) /\ waiting'[d].about \subseteq Paths
              /\ waiting'[d].clean \subseteq waiting'[d].about
              /\ \A i \in DOMAIN waiting'[d].rows : waiting'[d].rows[i].path \in waiting'[d].about
  <2>1. CASE d # c
    <3>1. brick = "vector" /\ waiting'[d] = waiting[d]
      BY <1>4, <1>9, <2>1
    <3>2. QED
      BY <3>1 DEF FilesInv, FilesTypeOK, Waits
  <2>2. CASE d = c
    <3>1. waiting'[d].rows = <<>> /\ waiting'[d].about = {} /\ waiting'[d].clean = {}
      BY <1>8, <2>2
    <3>2. DOMAIN waiting'[d].rows = {} /\ waiting'[d].rows \in Seq(Chunk)
      BY <3>1, EmptySeq
    <3>3. QED
      BY <3>1, <3>2
  <2>3. QED
    BY <2>1, <2>2
<1>12. ASSUME NEW d \in Calls, NEW p \in waiting'[d].clean
       PROVE  /\ Serves(waiting'[d].rows, p) /\ Nothing(st, p)
              /\ \A e \in Calls \ {d} : p \notin waiting'[e].about
  <2>1. d # c /\ p \in waiting[d].clean /\ waiting'[d] = waiting[d]
    BY <1>8, <1>9, <1>12
  <2>2. /\ Serves(waiting[d].rows, p) /\ Nothing(s, p)
        /\ \A e \in Calls \ {d} : p \notin waiting[e].about
    BY <1>2, <1>4, <2>1 DEF FilesInv, Waits
  <2>3. Nothing(st, p)
    BY <1>7, <2>1, <2>2 DEF Nothing
  <2>4. QED
    BY <1>8, <1>9, <2>1, <2>2, <2>3
<1>13. QED
  BY <1>4, <1>5, <1>6, <1>10, <1>11, <1>12, VectorStep

\* Less waits, and the files are as they were.
LEMMA WaitsLess ==
    ASSUME FilesInv, UNCHANGED <<brick, files>>,
           \A c \in Calls : waiting'[c] = waiting[c] \/ waiting'[c] = Free
    PROVE  FilesInv'
<1>1. IsIndex(index') /\ fresh' \subseteq Paths /\ \A p \in fresh' : Serves(index'.chunks, p)
  BY DEF FilesInv, FilesTypeOK, Fresh, ServesCurrent, Serves, Mine, files
<1>2. CASE brick # "vector"
  BY <1>1, <1>2, NotVector DEF files
<1>3. CASE brick = "vector"
  <2>1. Free.rows = <<>> /\ Free.about = {} /\ Free.clean = {} /\ Free.rows \in Seq(Chunk) /\ DOMAIN Free.rows = {}
    BY EmptySeq DEF Free
  <2>2. \A c \in Calls : waiting'[c].about \subseteq waiting[c].about
    BY <2>1
  <2>3. \A p \in fresh' : Serves(saved', p) /\ \A c \in Calls : p \notin waiting'[c].about
    BY <1>3, <2>2 DEF FilesInv, Fresh, files
  <2>4. \A c \in Calls :
           /\ waiting'[c].rows \in Seq(Chunk) /\ waiting'[c].about \subseteq Paths
           /\ waiting'[c].clean \subseteq waiting'[c].about
           /\ \A i \in DOMAIN waiting'[c].rows : waiting'[c].rows[i].path \in waiting'[c].about
    BY <1>3, <2>1 DEF FilesInv, FilesTypeOK, Waits
  <2>5. ASSUME NEW c \in Calls, NEW p \in waiting'[c].clean
        PROVE  /\ Serves(waiting'[c].rows, p) /\ Nothing(index'.chunks, p)
               /\ \A d \in Calls \ {c} : p \notin waiting'[d].about
    <3>1. waiting'[c] = waiting[c]
      BY <2>1, <2>5
    <3>2. QED
      BY <1>3, <2>2, <2>5, <3>1 DEF FilesInv, Waits, files
  <2>6. saved' \in Seq(Chunk)
    BY DEF FilesInv, FilesTypeOK, files
  <2>7. QED
    BY <1>1, <1>3, <2>3, <2>4, <2>5, <2>6, VectorStep DEF files
<1>4. QED
  BY <1>2, <1>3

\* Everything is thrown away, or a restart throws away what waited.
LEMMA ForgetServes ==
    ASSUME FilesInv, Pending, VectorInvalidateAll \/ Restarted
    PROVE  FilesInv'
<1>1. CASE VectorInvalidateAll
  <2>1. /\ brick = "vector" /\ UNCHANGED <<brick, disk>>
        /\ index' = Indexed(<<>>) /\ saved' = <<>> /\ fresh' = {}
        /\ waiting' = [c \in Calls |-> [waiting[c] EXCEPT !.clean = {}]]
    BY <1>1 DEF VectorInvalidateAll
  <2>2. \A c \in Calls : /\ waiting'[c].rows = waiting[c].rows /\ waiting'[c].about = waiting[c].about
                         /\ waiting'[c].clean = {}
    BY <2>1 DEF Pending
  <2>3. \A c \in Calls :
           /\ waiting'[c].rows \in Seq(Chunk) /\ waiting'[c].about \subseteq Paths
           /\ waiting'[c].clean \subseteq waiting'[c].about
           /\ \A i \in DOMAIN waiting'[c].rows : waiting'[c].rows[i].path \in waiting'[c].about
    <3>1. brick = "vector"
      BY <2>1
    <3>2. QED
      BY <2>2, <3>1 DEF FilesInv, FilesTypeOK, Waits
  <2>4. IsIndex(index') /\ saved' \in Seq(Chunk)
    BY <2>1, EmptyIndex, EmptySeq
  <2>5. QED
    BY <2>1, <2>2, <2>3, <2>4, VectorStep
<1>2. CASE Restarted /\ brick # "vector"
  <2>1. UNCHANGED <<brick, disk, saved>> /\ index' = Indexed(<<>>) /\ fresh' = {}
    BY <1>2 DEF Restarted
  <2>2. QED
    BY <1>2, <2>1, EmptyIndex, NotVector
<1>3. CASE Restarted /\ brick = "vector"
  <2>1. /\ UNCHANGED <<brick, disk, saved, fresh>> /\ index' = Indexed(saved)
        /\ \A c \in Calls : waiting'[c] = Free
    BY <1>3 DEF Restarted
  <2>2. saved \in Seq(Chunk) /\ fresh \subseteq Paths
    BY DEF FilesInv, FilesTypeOK
  <2>3. IsIndex(index') /\ index'.chunks = saved
    BY <2>1, <2>2, IndexedIs
  <2>4. Free.rows \in Seq(Chunk) /\ DOMAIN Free.rows = {} /\ Free.about = {} /\ Free.clean = {}
    BY EmptySeq DEF Free
  <2>5. \A p \in fresh' : Serves(saved', p) /\ Serves(index'.chunks, p)
    BY <1>3, <2>1, <2>3 DEF FilesInv, Fresh
  <2>6. \A c \in Calls :
           /\ waiting'[c].rows \in Seq(Chunk) /\ waiting'[c].about = {} /\ waiting'[c].clean = {}
           /\ DOMAIN waiting'[c].rows = {}
    BY <2>1, <2>4
  <2>7. QED
    BY <1>3, <2>1, <2>2, <2>3, <2>5, <2>6, VectorStep
<1>4. QED
  BY <1>1, <1>2, <1>3

\* A file changes: nothing of it is fresh, and the others hold what they held.
LEMMA EditedServes ==
    ASSUME FilesInv, Pending, NEW p \in Paths, NEW content, Edited(p, content)
    PROVE  FilesInv'
<1>1. /\ disk' = [disk EXCEPT ![p] = content] /\ fresh' = fresh \ {p}
      /\ waiting' = [c \in Calls |-> [waiting[c] EXCEPT !.clean = @ \ {p}]]
      /\ UNCHANGED <<brick, index, saved>>
  BY DEF Edited
<1>2. disk' = [q \in Paths |-> disk'[q]] /\ \A q \in Paths \ {p} : disk'[q] = disk[q]
  BY <1>1 DEF FilesInv, FilesTypeOK
<1>3. \A c \in Calls : /\ waiting'[c].rows = waiting[c].rows /\ waiting'[c].about = waiting[c].about
                       /\ waiting'[c].clean = waiting[c].clean \ {p}
  BY <1>1 DEF Pending
<1>4. FilesTypeOK'
  <2>1. IsIndex(index') /\ saved' \in Seq(Chunk) /\ fresh' \subseteq Paths
    BY <1>1 DEF FilesInv, FilesTypeOK
  <2>2. brick' = "vector" =>
           \A c \in Calls :
              /\ waiting'[c].rows \in Seq(Chunk) /\ waiting'[c].about \subseteq Paths
              /\ waiting'[c].clean \subseteq waiting'[c].about
    <3>1. brick' = brick
      BY <1>1
    <3>2. QED
      BY <1>3, <3>1 DEF FilesInv, FilesTypeOK
  <2>3. QED
    BY <1>2, <2>1, <2>2 DEF FilesTypeOK
<1>5. ASSUME NEW q \in Paths \ {p}, NEW s, Serves(s, q)
      PROVE  Mine(s, q) = IF Readable(q)' THEN Chunks(q)' ELSE <<>>
  BY <1>2, <1>5 DEF Serves, Readable, Chunks
<1>6. Waits'
  <2>1. ASSUME brick = "vector", NEW c \in Calls
        PROVE  /\ \A i \in DOMAIN waiting'[c].rows : waiting'[c].rows[i].path \in waiting'[c].about
               /\ \A q \in waiting'[c].clean :
                     /\ Mine(waiting'[c].rows, q) = IF Readable(q)' THEN Chunks(q)' ELSE <<>>
                     /\ Nothing(index'.chunks, q)
                     /\ \A d \in Calls \ {c} : q \notin waiting'[d].about
    <3>1. \A i \in DOMAIN waiting'[c].rows : waiting'[c].rows[i].path \in waiting'[c].about
      BY <1>3, <2>1 DEF FilesInv, Waits
    <3>2. ASSUME NEW q \in waiting'[c].clean
          PROVE  /\ Mine(waiting'[c].rows, q) = IF Readable(q)' THEN Chunks(q)' ELSE <<>>
                 /\ Nothing(index'.chunks, q)
                 /\ \A d \in Calls \ {c} : q \notin waiting'[d].about
      <4>1. q \in waiting[c].clean /\ q \in Paths \ {p}
        BY <1>3, <2>1, <3>2 DEF FilesInv, FilesTypeOK
      <4>2. /\ Serves(waiting[c].rows, q) /\ Nothing(index.chunks, q)
            /\ \A d \in Calls \ {c} : q \notin waiting[d].about
        BY <2>1, <4>1 DEF FilesInv, Waits
      <4>3. Mine(waiting'[c].rows, q) = IF Readable(q)' THEN Chunks(q)' ELSE <<>>
        BY <1>3, <1>5, <4>1, <4>2
      <4>4. QED
        BY <1>1, <1>3, <4>2, <4>3
    <3>3. QED
      BY <3>1, <3>2
  <2>2. brick' = brick
    BY <1>1
  <2>3. QED
    BY <2>1, <2>2 DEF Waits, Serves
<1>7. Fresh'
  <2>1. ASSUME NEW q \in fresh'
        PROVE  Mine(index'.chunks, q) = IF Readable(q)' THEN Chunks(q)' ELSE <<>>
    <3>1. q \in Paths \ {p} /\ Serves(index.chunks, q)
      BY <1>1 DEF FilesInv, FilesTypeOK, Fresh, ServesCurrent, Serves, Mine
    <3>2. QED
      BY <1>1, <1>5, <3>1
  <2>2. ASSUME brick = "vector", NEW q \in fresh'
        PROVE  /\ Mine(saved', q) = IF Readable(q)' THEN Chunks(q)' ELSE <<>>
               /\ \A c \in Calls : q \notin waiting'[c].about
    <3>1. q \in Paths \ {p} /\ Serves(saved, q) /\ \A c \in Calls : q \notin waiting[c].about
      BY <1>1, <2>2 DEF FilesInv, FilesTypeOK, Fresh
    <3>2. QED
      BY <1>1, <1>3, <1>5, <3>1
  <2>3. brick' = brick
    BY <1>1
  <2>4. QED
    BY <2>1, <2>2, <2>3 DEF Fresh, ServesCurrent, Serves, Mine
<1>8. QED
  BY <1>4, <1>6, <1>7 DEF FilesInv

\* A store starts with nothing to serve.
LEMMA StartsServing == StoresInit => FilesInv
<1> SUFFICES ASSUME StoresInit PROVE FilesInv
  OBVIOUS
<1>1. /\ index = Indexed(<<>>) /\ saved = <<>> /\ fresh = {}
      /\ disk \in [Paths -> Contents] \/ disk = [p \in Paths |-> Gone]
      /\ \A c \in Calls : waiting[c] = Free
  BY DEF StoresInit
<1>2. disk = [p \in Paths |-> disk[p]]
  BY <1>1
<1>3. Free.rows \in Seq(Chunk) /\ DOMAIN Free.rows = {} /\ Free.about = {} /\ Free.clean = {}
  BY EmptySeq DEF Free
<1>4. FilesTypeOK
  <2>1. IsIndex(index) /\ saved \in Seq(Chunk)
    BY <1>1, EmptyIndex, EmptySeq
  <2>2. QED
    BY <1>1, <1>2, <1>3, <2>1 DEF FilesTypeOK
<1>5. Waits
  BY <1>1, <1>3 DEF Waits
<1>6. Fresh
  BY <1>1 DEF Fresh, ServesCurrent
<1>7. QED
  BY <1>4, <1>5, <1>6 DEF FilesInv

\* The invariant of the files is inductive, with that of the records beside it.
LEMMA FilesStep == FilesInv /\ StoresInv /\ [StoresNext]_vars => FilesInv'
<1> SUFFICES ASSUME FilesInv, StoresInv, [StoresNext]_vars PROVE FilesInv'
  OBVIOUS
<1>1. Pending
  BY DEF StoresInv
<1>2. ASSUME NEW c \in Calls,
             \/ VectorIndexAll(c) \/ VectorRetrieve(c)
             \/ \E p \in Paths : VectorIndexPath(c, p) \/ VectorInvalidatePath(c, p)
      PROVE  FilesInv'
  <2>1. CASE VectorIndexAll(c) \/ VectorRetrieve(c)
    <3>1. Embed(c, Walk, {})
      BY <2>1 DEF VectorIndexAll, VectorRetrieve
    <3>2. Walk \in Seq(Paths) /\ Once(Walk)
      BY StoresAssumption DEF Paths, Once, IsInjective
    <3>3. QED
      BY <1>1, <3>1, <3>2, EmbedServes
  <2>2. CASE \E p \in Paths : VectorIndexPath(c, p) \/ VectorInvalidatePath(c, p)
    <3>1. PICK p \in Paths : Embed(c, <<p>>, {}) \/ Embed(c, <<p>>, {p})
      BY <2>2 DEF VectorIndexPath, VectorInvalidatePath
    <3>2. <<p>> \in Seq(Paths) /\ Once(<<p>>) /\ p \in Range(<<p>>)
      BY DEF Once, Range
    <3>3. QED
      BY <1>1, <3>1, <3>2, EmbedServes
  <2>3. QED
    BY <1>2, <2>1, <2>2
<1>3. ASSUME NEW c \in Calls, Cancelled(c) \/ VectorWritten(c) PROVE FilesInv'
  <2>1. waiting' = [waiting EXCEPT ![c] = Free] /\ UNCHANGED <<brick, files>>
    BY <1>3 DEF Cancelled, VectorWritten
  <2>2. \A d \in Calls : waiting'[d] = waiting[d] \/ waiting'[d] = Free
    BY <1>1, <2>1 DEF Pending
  <2>3. QED
    BY <2>1, <2>2, WaitsLess
\* The actions of the memory bricks.
<1>4. ASSUME brick # "vector", UNCHANGED <<brick, files>> PROVE FilesInv'
  <2>1. IsIndex(index') /\ fresh' \subseteq Paths /\ \A p \in fresh' : Serves(index'.chunks, p)
    BY <1>4 DEF FilesInv, FilesTypeOK, Fresh, ServesCurrent, Serves, Mine, files
  <2>2. QED
    BY <1>4, <2>1, NotVector DEF files
<1>5. ASSUME \/ \E c \in Calls, i \in Ids, tags \in SUBSET Tags : VectorWrite(c, i, tags)
             \/ \E i \in Ids : Forget(i) \/ \E tags \in SUBSET Tags, links \in SUBSET Ids : Write(i, tags, links)
             \/ \E tags \in SUBSET Tags : ForgetTags(tags)
             \/ ForgetAll
      PROVE  FilesInv'
  <2>1. brick # "vector"
    BY <1>5, StoresAssumption DEF VectorWrite, Forget, Write, ForgetTags, ForgetAll
  <2>2. UNCHANGED <<brick, files>>
    BY <1>5 DEF VectorWrite, Forget, Write, ForgetTags, ForgetAll, Discard
  <2>3. QED
    BY <1>4, <2>1, <2>2
<1>6. CASE UNCHANGED vars
  <2>1. UNCHANGED <<brick, files>> /\ \A c \in Calls : waiting'[c] = waiting[c]
    BY <1>6 DEF vars
  <2>2. QED
    BY <2>1, WaitsLess
<1>7. CASE StoresNext
  BY <1>1, <1>2, <1>3, <1>5, <1>7, IndexKeeps, EditedServes, EmbeddedServes, ForgetServes DEF StoresNext
<1>8. QED
  BY <1>6, <1>7

\* The inductive invariant of the files holds of every behaviour of the stores.
THEOREM FilesInvariant == StoresSpec => []FilesInv
BY StartsServing, FilesStep, StoresInvariant, PTL DEF StoresSpec

\* What was indexed since it last changed, by a call that no other overlapped,
\* is served as the file holds it, each chunk once, by every context brick, for
\* any workspace, contents and calls under way.
THEOREM ServedIsCurrent == StoresSpec => []ServesCurrent
<1>1. FilesInv => ServesCurrent
  BY DEF FilesInv, Fresh
<1>2. QED
  BY <1>1, FilesInvariant, PTL
=============================================================================
