------------------------------- MODULE Stores -------------------------------
(***************************************************************************)
(* What the context bricks (repo-map, default, vector, graph, semantic)    *)
(* keep of the workspace and the memory bricks (ephemeral, graph, vector)  *)
(* of what they were told, one brick at a time.  The SDK runs every request *)
(* as a task of its own: a vector brick has as many calls waiting for      *)
(* their embeddings as it was sent.  Scores and the answers made of them   *)
(* are left out; every readable file has something to index.               *)
(***************************************************************************)
EXTENDS Integers, Sequences, FiniteSets, Functions

CONSTANTS
    ContextBricks, MemoryBricks,    \* the bricks a stack may bind, as the code names them
    Walk,       \* the files of the workspace, in the order a full walk meets them
    Texts,      \* Texts[c]: the chunks of a readable content c
    Unread,     \* contents that cannot be decoded or parsed
    Ids, Tags,
    Calls,      \* bound: calls waiting for embeddings at once
    Gone, NoRecord

ASSUME StoresAssumption ==
    /\ ContextBricks \subseteq {"repo-map", "default", "vector", "graph", "semantic"}
    /\ MemoryBricks \subseteq {"memory/ephemeral", "memory/graph", "memory/vector"}
    /\ Walk \in Seq(Range(Walk)) /\ \A c \in DOMAIN Texts : Texts[c] \in Seq(Range(Texts[c]))
    /\ IsInjective(Walk) /\ DOMAIN Texts \cap (Unread \cup {Gone}) = {}
    /\ \A tags \in SUBSET Tags : tags # NoRecord

VARIABLES
    brick,      \* the brick that runs
    disk,       \* content of each file
    index,      \* _chunks with _by_path, or the rows of the table
    saved,      \* the chunks at the last commit (vector)
    limited,    \* _limit_hit
    waiting,    \* what each call waiting for embeddings will insert
    fresh,      \* history: paths indexed by a call no other call overlapped, not changed since
    memory,     \* tags of each record
    edges,      \* links between records (graph)
    forgotten   \* history: ids forgotten, with no write of them begun since or under way then
files == <<disk, index, saved, limited, fresh>>
notes == <<memory, edges, forgotten>>
vars == <<brick, files, waiting, notes>>

Paths == Range(Walk)
Contents == DOMAIN Texts \cup Unread \cup {Gone}
Readable(p) == disk[p] \in DOMAIN Texts
Free == [rows |-> <<>>, about |-> {}, clean |-> {}, ids |-> {}]
IsFree(c) == waiting[c].about = {} /\ waiting[c].ids = {}
Synchronous == brick \in ContextBricks \ {"vector"}

(* The index **************************************************************)

\* The elements of s at some of its positions, in their order.
Position(positions, k) == CHOOSE i \in positions : Cardinality({j \in positions : j <= i}) = k
Filtered(s, positions) == [k \in 1 .. Cardinality(positions) |-> s[Position(positions, k)]]

Chunks(p) == [i \in DOMAIN Texts[disk[p]] |-> [path |-> p, text |-> Texts[disk[p]][i]]]
About(chunks, ps) == {i \in DOMAIN chunks : chunks[i].path \in ps}
ByPath(chunks) == [p \in Paths |-> About(chunks, {p})]
Indexed(chunks) == [chunks |-> chunks, byPath |-> ByPath(chunks)]
Except(chunks, dropped) == Filtered(chunks, DOMAIN chunks \ dropped)
Without(chunks, ps) == Except(chunks, About(chunks, ps))

\* Plausible bug: the other paths keep their old positions.
Drop_NotRenumbered(ix, p) ==
    [chunks |-> Except(ix.chunks, ix.byPath[p]), byPath |-> [ix.byPath EXCEPT ![p] = {}]]

\* repo-map and default find the chunks of a path by their positions.
Drop(ix, p) == IF ix.byPath[p] = {} THEN ix ELSE Indexed(Except(ix.chunks, ix.byPath[p]))

\* A file that cannot be read leaves what is known of it.
IndexFile(ix, p) ==
    LET base == IF brick \in {"repo-map", "default"} THEN Drop(ix, p)
                ELSE Indexed(Without(ix.chunks, {p}))
        n == Len(base.chunks)
    IN IF ~ Readable(p) THEN ix
       ELSE [chunks |-> base.chunks \o Chunks(p),
             byPath |-> [base.byPath EXCEPT ![p] = n + 1 .. n + Len(Chunks(p))]]

\* The files a walk yields; that of repo-map stops at its budgets.
Found == Filtered(Walk, {i \in DOMAIN Walk : disk[Walk[i]] # Gone})
Walked(n) == {Found[i] : i \in 1 .. n}
Budget(n, told) ==
    IF brick = "repo-map" THEN n <= Len(Found) /\ (n < Len(Found) => told) ELSE n = Len(Found) /\ ~ told

\* The first n files of ps, one after the other.
IndexFiles(ix, ps, n) ==
    LET walk[k \in 0 .. n] == IF k = 0 THEN ix ELSE IndexFile(walk[k - 1], ps[k]) IN walk[n]

WalkFrom(ix, n, told) ==
    /\ index' = IndexFiles(ix, Found, n)
    /\ limited' = told
    /\ fresh' = {p \in Paths : Readable(p) /\ (told => p \in Walked(n) \cup fresh)}
    /\ UNCHANGED <<brick, disk, saved, waiting, notes>>

\* context.index without paths: graph and semantic start over.
IndexAll(n, told) ==
    /\ Synchronous /\ Budget(n, told)
    /\ WalkFrom(IF brick \in {"graph", "semantic"} THEN Indexed(<<>>) ELSE index, n, told)

\* context.retrieve indexes the workspace when it knows nothing.
Retrieve(n, told) ==
    /\ Synchronous /\ Budget(n, told) /\ index.chunks = <<>>
    /\ WalkFrom(index, n, told)

IndexPath(p) ==
    /\ Synchronous
    /\ index' = IndexFile(index, p)
    /\ fresh' = fresh \cup (IF Readable(p) THEN {p} ELSE {})
    /\ UNCHANGED <<brick, disk, saved, limited, waiting, notes>>

\* context.invalidate of a path drops it and indexes it again; semantic only does
\* the second.
InvalidatePath(p) ==
    /\ Synchronous
    /\ index' = IndexFile(CASE brick = "semantic" -> index
                            [] brick = "graph" -> Indexed(Without(index.chunks, {p}))
                            [] OTHER -> Drop(index, p), p)
    /\ fresh' = fresh \cup (IF Readable(p) \/ brick # "semantic" THEN {p} ELSE {})
    /\ UNCHANGED <<brick, disk, saved, limited, waiting, notes>>

\* Without paths, repo-map and default forget everything, the others start over.
InvalidateAll ==
    /\ Synchronous
    /\ IF brick \in {"graph", "semantic"} THEN WalkFrom(Indexed(<<>>), Len(Found), FALSE)
       ELSE /\ index' = Indexed(<<>>) /\ fresh' = {}
            /\ UNCHANGED <<brick, disk, saved, limited, waiting, notes>>

(* context/vector *********************************************************)

\* The rows of the first n files of ps.
RowsOf(ps, n) ==
    LET rows[k \in 0 .. n] == IF k = 0 THEN <<>> ELSE rows[k - 1] \o Chunks(ps[k]) IN rows[n]

\* The rows of `ps` that can be read, and of `dropped`, are deleted; those read
\* now are inserted when their embeddings have come.  Nothing to embed: no wait.
Embed(c, ps, dropped) ==
    LET read == Filtered(ps, {i \in DOMAIN ps : Readable(ps[i])})
        about == Range(read) \cup dropped
        others == UNION {waiting[d].about : d \in Calls \ {c}}
        left == Indexed(Without(index.chunks, about))
        clean == about \ others
    IN /\ brick = "vector" /\ IsFree(c)
       /\ index' = left
       /\ waiting' = [d \in Calls |->
              IF d # c THEN [waiting[d] EXCEPT !.clean = @ \ about]
              ELSE IF read = <<>> THEN Free
              ELSE [rows |-> RowsOf(read, Len(read)),
                    about |-> about, clean |-> clean, ids |-> {}]]
       /\ saved' = IF read = <<>> \/ dropped # {} THEN left.chunks ELSE saved
       /\ fresh' = (fresh \ about) \cup (IF read = <<>> THEN clean ELSE {})
       /\ UNCHANGED <<brick, disk, limited, notes>>

VectorIndexAll(c) == Embed(c, Walk, {})
VectorIndexPath(c, p) == Embed(c, <<p>>, {})
VectorRetrieve(c) == index.chunks = <<>> /\ Embed(c, Walk, {})
VectorInvalidatePath(c, p) == Embed(c, <<p>>, {p})

VectorInvalidateAll ==
    /\ brick = "vector"
    /\ index' = Indexed(<<>>) /\ saved' = <<>> /\ fresh' = {}
    /\ waiting' = [c \in Calls |-> [waiting[c] EXCEPT !.clean = {}]]
    /\ UNCHANGED <<brick, disk, limited, notes>>

\* With or without an answer of the model provider.
Embedded(c) ==
    /\ brick = "vector" /\ ~ IsFree(c)
    /\ index' = Indexed(index.chunks \o waiting[c].rows)
    /\ saved' = index'.chunks
    /\ fresh' = fresh \cup waiting[c].clean
    /\ waiting' = [waiting EXCEPT ![c] = Free]
    /\ UNCHANGED <<brick, disk, limited, notes>>

\* $/cancel: neither inserted nor rolled back.
Cancelled(c) ==
    /\ ~ IsFree(c)
    /\ waiting' = [waiting EXCEPT ![c] = Free]
    /\ UNCHANGED <<brick, files, notes>>

Edited(p, content) ==
    /\ brick \in ContextBricks /\ content # disk[p]
    /\ disk' = [disk EXCEPT ![p] = content]
    /\ fresh' = fresh \ {p}
    /\ waiting' = [c \in Calls |-> [waiting[c] EXCEPT !.clean = @ \ {p}]]
    /\ UNCHANGED <<brick, index, saved, limited, notes>>

(* Memory *****************************************************************)

Live == {i \in Ids : memory[i] # NoRecord}
Writing == UNION {waiting[c].ids : c \in Calls}

\* A record is stored whole, with its links in place of the old ones.
Record(i, tags, links) ==
    /\ memory' = [memory EXCEPT ![i] = tags]
    /\ edges' = IF brick # "memory/graph" THEN edges
                ELSE {e \in edges : e[1] # i} \cup {<<i, j>> : j \in links}

Write(i, tags, links) ==
    /\ brick \in MemoryBricks \ {"memory/vector"}
    /\ Record(i, tags, links)
    /\ forgotten' = forgotten \ {i}
    /\ UNCHANGED <<brick, files, waiting>>

VectorWrite(c, i, tags) ==
    /\ brick = "memory/vector" /\ IsFree(c)
    /\ waiting' = [waiting EXCEPT ![c] = [Free EXCEPT !.ids = {i}, !.rows = tags]]
    /\ forgotten' = forgotten \ {i}
    /\ UNCHANGED <<brick, files, memory, edges>>

VectorWritten(c) ==
    /\ brick = "memory/vector" /\ ~ IsFree(c)
    /\ \E i \in waiting[c].ids : Record(i, waiting[c].rows, {})
    /\ waiting' = [waiting EXCEPT ![c] = Free]
    /\ UNCHANGED <<brick, files, forgotten>>

\* Plausible bug: a tag is matched as in memory.search, where all must be there.
Tagged_All(tags) == {i \in Live : tags \subseteq memory[i]}

\* forget drops the records with any of the tags.
Tagged(tags) == {i \in Live : tags \cap memory[i] # {}}

Discard(drop) ==
    /\ memory' = [i \in Ids |-> IF i \in drop THEN NoRecord ELSE memory[i]]
    /\ edges' = {e \in edges : e[1] \notin drop /\ e[2] \notin drop}
    /\ UNCHANGED <<brick, files, waiting>>

\* By id, by tags, or everything there is.
Forget(i) ==
    /\ brick \in MemoryBricks /\ Discard({i})
    /\ forgotten' = forgotten \cup ({i} \ Writing)

ForgetTags(tags) ==
    /\ brick \in MemoryBricks /\ tags # {} /\ Discard(Tagged(tags))
    /\ forgotten' = forgotten \cup ({i \in Live : \E t \in tags : t \in memory[i]} \ Writing)

ForgetAll ==
    /\ brick \in MemoryBricks /\ Discard(Live)
    /\ forgotten' = forgotten \cup (Live \ Writing)

(* The specification ******************************************************)

\* The supervisor brings the brick up again: the tables are on disk, the rest is lost.
Restarted ==
    /\ index' = IF brick = "vector" THEN Indexed(saved) ELSE Indexed(<<>>)
    /\ fresh' = IF brick = "vector" THEN fresh ELSE {}
    /\ limited' = FALSE
    /\ waiting' = [c \in Calls |-> Free]
    /\ memory' = IF brick = "memory/ephemeral" THEN [i \in Ids |-> NoRecord] ELSE memory
    /\ UNCHANGED <<brick, disk, saved, edges, forgotten>>

StoresInit ==
    /\ brick \in ContextBricks \cup MemoryBricks
    /\ disk \in IF brick \in ContextBricks THEN [Paths -> Contents] ELSE {[p \in Paths |-> Gone]}
    /\ index = Indexed(<<>>) /\ saved = <<>> /\ limited = FALSE
    /\ waiting = [c \in Calls |-> Free] /\ fresh = {}
    /\ memory = [i \in Ids |-> NoRecord] /\ edges = {} /\ forgotten = {}

StoresNext ==
    \/ \E n \in 0 .. Len(Walk), told \in BOOLEAN : IndexAll(n, told) \/ Retrieve(n, told)
    \/ \E p \in Paths : IndexPath(p) \/ InvalidatePath(p) \/ \E content \in Contents : Edited(p, content)
    \/ InvalidateAll \/ VectorInvalidateAll \/ Restarted
    \/ \E c \in Calls :
          \/ VectorIndexAll(c) \/ VectorRetrieve(c) \/ Embedded(c) \/ Cancelled(c) \/ VectorWritten(c)
          \/ \E p \in Paths : VectorIndexPath(c, p) \/ VectorInvalidatePath(c, p)
          \/ \E i \in Ids, tags \in SUBSET Tags : VectorWrite(c, i, tags)
    \/ \E i \in Ids : Forget(i) \/ \E tags \in SUBSET Tags, links \in SUBSET Ids : Write(i, tags, links)
    \/ \E tags \in SUBSET Tags : ForgetTags(tags)
    \/ ForgetAll

StoresSpec == StoresInit /\ [][StoresNext]_vars

(* Properties *************************************************************)

\* Of a path indexed or invalidated by a call that no other overlapped, and not
\* changed since, every context brick serves exactly what the file holds, each
\* chunk once: after any number of drops that moved the others, with the
\* files a full walk that told of no budget went over (repo-map brick.py:88-92,
\* 97-152), and for the table of context/vector after a restart.
ServesCurrent ==
    \A p \in fresh :
        Filtered(index.chunks, About(index.chunks, {p})) = IF Readable(p) THEN Chunks(p) ELSE <<>>

\* What was forgotten, by its id, by one of its tags or with everything, is gone
\* from the store until it is written again, and no link is left that starts at
\* a record that is not there (forget in the three memory bricks; a write
\* waiting for its embedding when it is forgotten comes back, see the README).
ForgottenIsGone ==
    /\ \A i \in forgotten : memory[i] = NoRecord
    /\ \A e \in edges : memory[e[1]] # NoRecord
=============================================================================
