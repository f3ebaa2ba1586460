--------------------------- MODULE StorageProofs ---------------------------
(***************************************************************************)
(* Proofs about the snapshot and image stores (module Storage), for any    *)
(* number of concurrent callers, any names and references (two references  *)
(* may share a file) and metadata of any lengths.                          *)
(***************************************************************************)
EXTENDS Storage, SequenceTheorems, TLAPS

-----------------------------------------------------------------------------
(* The inductive invariant. *)

\* Where an operation may be between two of its file system calls.
SnapshotStages ==
    [save    |-> {"find_state", "state_size", "truncate", "fill"},
     get     |-> {"check", "read"},
     restore |-> {"check", "read", "restore_state"},
     delete  |-> {"delete", "remove", "delete_state", "remove_state"}]

ImageStages ==
    [save   |-> {"build", "truncate", "fill"},
     get    |-> {"check", "read"},
     delete |-> {"delete", "remove"}]

IsList(r) ==
    /\ r.op = "list" /\ r.at \in {"read_dir", "list"}
    /\ r.path \in {<<"snapshots", None>>, <<"images", None>>}
    /\ r.at = "read_dir" => r.found = {}

OnSnapshot(r) ==
    /\ r.op \in DOMAIN SnapshotStages /\ r.at \in SnapshotStages[r.op]
    /\ r.key \in Names /\ r.path = MetadataPath(r.key)

OnImage(r) ==
    /\ r.op \in DOMAIN ImageStages /\ r.at \in ImageStages[r.op]
    /\ r.key \in Refs /\ r.path = ImagePath(r.key)

Shape(r) ==
    /\ IsList(r) \/ OnSnapshot(r) \/ OnImage(r)
    /\ r.op = "save" => r.meta \in Meta
    /\ r.open => r.at = "fill" /\ Exists(r.path)

\* A call knows of the saves and deletes under way.
RacedInv ==
    \A c \in DOMAIN call : \A d \in DOMAIN call \ {c} :
        /\ call[d].op \in Mutators
        /\ call[c].op = "list" \/ call[c].path = call[d].path
        => <<call[d].op, call[d].path>> \in call[c].raced

\* A file that is not torn is whole and nobody writes it, or has been emptied
\* by the only caller that does.
Intact(p) ==
    \/ Writers(p) = {} /\ Decodes(files[p])
    \/ files[p] = <<>> /\ \E c \in DOMAIN call : Writers(p) = {c}

TornInv == \A p \in Paths : Exists(p) /\ p \notin torn => Intact(p)

\* What a call has found or made of its files and still relies on, unless
\* other calls meanwhile save or delete them.
Saved(r, p) == <<"save", p>> \in r.raced
Deleted(r, p) == <<"delete", p>> \in r.raced
Free(r, p) == ~Saved(r, p) /\ ~Deleted(r, p)

SavePromise(r) ==
    r.at = "fill" /\ Free(r, r.path) => r.open /\ Exists(r.path) /\ files[r.path] = <<>>

ReadPromise(r) ==
    /\ r.at = "read" => Deleted(r, r.path) \/ Exists(r.path)
    /\ r.at = "restore_state" /\ Free(r, r.path) => Holds(r.path)

DeletePromise(r) ==
    /\ r.at = "remove" => Deleted(r, r.path) \/ Exists(r.path)
    /\ r.at \in {"delete_state", "remove_state"} => Saved(r, r.path) \/ ~Exists(r.path)
    /\ r.at = "remove_state" => Deleted(r, r.path) \/ Exists(StatePath(r.key))

Listed(r) == {p \in Paths : p[1] = r.path[1]}

ListPromise(r) ==
    r.at = "list" =>
        /\ r.left \subseteq Listed(r)
        /\ \A p \in r.left : Deleted(r, p) \/ Exists(p)
        /\ \A p \in Listed(r) :
              Free(r, p) /\ Holds(p) => p \in r.left \/ files[p][1] \in r.found
        /\ \A meta \in r.found : \E p \in Listed(r) :
              ~Free(r, p) \/ (Holds(p) /\ files[p][1] = meta)

Promise(r) == SavePromise(r) /\ ReadPromise(r) /\ DeletePromise(r) /\ ListPromise(r)

Calls == \A c \in DOMAIN call : Shape(call[c]) /\ Promise(call[c])

Reports == SaveKeeps /\ ReadsSound /\ DeleteClean /\ ListComplete

StorageInv == TypeOK /\ Calls /\ RacedInv /\ TornInv /\ Reports
-----------------------------------------------------------------------------
(* Data. *)

\* The three kinds of files are kept apart, and one name has one of each.
LEMMA PathFacts ==
  /\ \A n \in Names : MetadataPath(n) \in Paths /\ StatePath(n) \in States
  /\ \A r \in Refs : ImagePath(r) \in Paths
  /\ \A p \in Paths : p \notin States
  /\ \A s \in States : s[1] = "vmstates"
  /\ \A n \in Names : MetadataPath(n)[1] = "snapshots"
  /\ \A r \in Refs : ImagePath(r)[1] = "images"
  /\ \A m, n \in Names : MetadataPath(m) = MetadataPath(n) => m = n
  /\ \A m, n \in Names : StatePath(m) = StatePath(n) => m = n
<1>1. \A p \in Paths : p[1] \in {"snapshots", "images"}
  <2>1. \A n \in Names : MetadataPath(n)[1] = "snapshots"
    BY DEF MetadataPath
  <2>2. \A r \in Refs : ImagePath(r)[1] = "images"
    BY DEF ImagePath
  <2> QED
    BY <2>1, <2>2 DEF Paths
<1>2. \A s \in States : s[1] = "vmstates"
  BY DEF States, StatePath
<1>3. \A p \in Paths : p \notin States
  BY <1>1, <1>2
<1>4. \A m, n \in Names : MetadataPath(m) = MetadataPath(n) => m = n
  <2>1. SUFFICES ASSUME NEW m \in Names, NEW n \in Names,
                        <<"snapshots", m>> = <<"snapshots", n>>
                 PROVE  m = n
    BY DEF MetadataPath
  <2>2. <<"snapshots", m>>[2] = <<"snapshots", n>>[2]
    BY <2>1
  <2> QED
    BY <2>2
<1>5. \A m, n \in Names : StatePath(m) = StatePath(n) => m = n
  <2>1. SUFFICES ASSUME NEW m \in Names, NEW n \in Names,
                        <<"vmstates", m>> = <<"vmstates", n>>
                 PROVE  m = n
    BY DEF StatePath
  <2>2. <<"vmstates", m>>[2] = <<"vmstates", n>>[2]
    BY <2>1
  <2> QED
    BY <2>2
<1> QED
  BY <1>2, <1>3, <1>4, <1>5 DEF Paths, States, MetadataPath, StatePath, ImagePath

\* Metadata takes at least one piece, and reads as what it is.
LEMMA EncodedFacts ==
  ASSUME NEW meta \in Meta
  PROVE  /\ Encoded(meta) \in Seq(Meta) /\ Len(Encoded(meta)) = meta.body
         /\ meta.body \in Nat \ {0}
         /\ Decodes(Encoded(meta)) /\ Encoded(meta)[1] = meta
<1>1. meta.body \in Nat \ {0}
  BY FilesAssumption DEF Meta
<1>2. Encoded(meta) \in Seq(Meta) /\ Len(Encoded(meta)) = meta.body
  BY <1>1 DEF Encoded
<1>3. Encoded(meta)[1] = meta
  BY <1>1 DEF Encoded
<1>4. Encoded(meta) # <<>>
  BY <1>1, <1>2
<1> QED
  BY <1>1, <1>2, <1>3, <1>4 DEF Decodes

\* Writing over something, and over nothing.
LEMMA OverFacts ==
  ASSUME NEW new \in Seq(Meta), NEW old \in Seq(Meta)
  PROVE  Over(new, old) \in Seq(Meta) /\ Over(new, <<>>) = new
<1>1. SubSeq(old, Len(new) + 1, Len(old)) \in Seq(Meta)
  OBVIOUS
<1>2. Over(new, old) \in Seq(Meta)
  BY <1>1 DEF Over
<1>3. SubSeq(<<>>, Len(new) + 1, Len(<<>>)) = <<>>
  OBVIOUS
<1>4. new \o <<>> = new
  OBVIOUS
<1> QED
  BY <1>2, <1>3, <1>4 DEF Over
-----------------------------------------------------------------------------
(* What a step does to the files, and what calls then still rely on.       *)

\* The metadata files that the saves and deletes of M name are the only ones
\* that change: they appear by a save and disappear by a delete, as do state
\* files.
Changes(M) ==
    /\ \A p \in Paths :
        /\ \/ <<"save", p>> \in M \/ <<"delete", p>> \in M
           \/ (Exists(p) <=> Exists(p)') /\ (Exists(p) => files'[p] = files[p])
        /\ Exists(p) /\ ~Exists(p)' => <<"delete", p>> \in M
        /\ Exists(p)' /\ ~Exists(p) => <<"save", p>> \in M
    /\ \A n \in Names : Exists(StatePath(n)) =>
        Exists(StatePath(n))' \/ <<"delete", MetadataPath(n)>> \in M

\* A call whose locals are as they were, but which knows of the changes.
Onlooker(r, q, M) ==
    /\ r \in Call /\ q \in Call
    /\ \A l \in {"op", "key", "path", "at", "meta", "left", "found"} : q[l] = r[l]
    /\ r.raced \subseteq q.raced
    /\ \A m \in M : r.op = "list" \/ r.path = m[2] => m \in q.raced
    /\ q.open => r.open /\ r.path \in DOMAIN files'
    /\ r.open => q.open \/ <<"delete", r.path>> \in M

LEMMA OnlookerFacts ==
  ASSUME NEW r, NEW q, NEW M, Onlooker(r, q, M), Changes(M)
  PROVE  /\ q.op = r.op /\ q.key = r.key /\ q.path = r.path /\ q.at = r.at
         /\ q.meta = r.meta /\ q.left = r.left /\ q.found = r.found
         /\ \A p : Saved(r, p) => Saved(q, p)
         /\ \A p : Deleted(r, p) => Deleted(q, p)
         /\ \A p \in Paths : r.op = "list" \/ r.path = p =>
              /\ Exists(p) /\ ~Exists(p)' => Deleted(q, p)
              /\ Exists(p)' /\ ~Exists(p) => Saved(q, p)
              /\ Free(q, p) => (Exists(p) <=> Exists(p)') /\ (Exists(p) => files'[p] = files[p])
<1>1. /\ q.op = r.op /\ q.key = r.key /\ q.path = r.path /\ q.at = r.at
      /\ q.meta = r.meta /\ q.left = r.left /\ q.found = r.found
  BY DEF Onlooker
<1>2. /\ \A p : Saved(r, p) => Saved(q, p)
      /\ \A p : Deleted(r, p) => Deleted(q, p)
  BY DEF Onlooker, Saved, Deleted
<1>3. ASSUME NEW p \in Paths, r.op = "list" \/ r.path = p
      PROVE  /\ <<"save", p>> \in M => Saved(q, p)
             /\ <<"delete", p>> \in M => Deleted(q, p)
  BY <1>3 DEF Onlooker, Saved, Deleted
<1> QED
  BY <1>1, <1>2, <1>3 DEF Changes, Free

LEMMA SaveKept ==
  ASSUME NEW r, NEW q, NEW M, Onlooker(r, q, M), Changes(M), r.path \in Paths, SavePromise(r)
  PROVE  SavePromise(q)'
<1>1. SUFFICES ASSUME q.at = "fill", Free(q, q.path)
               PROVE  q.open /\ Exists(q.path)' /\ files'[q.path] = <<>>
  BY DEF SavePromise, Exists
<1>2. r.at = "fill" /\ r.path = q.path /\ Free(r, r.path)
  BY <1>1, OnlookerFacts DEF Free
<1>3. r.open /\ Exists(r.path) /\ files[r.path] = <<>>
  BY <1>2 DEF SavePromise
<1>4. Exists(r.path)' /\ files'[r.path] = files[r.path]
  BY <1>1, <1>2, <1>3, OnlookerFacts
<1>5. <<"delete", r.path>> \notin M
  BY <1>1, <1>2 DEF Onlooker, Free, Deleted
<1> QED
  BY <1>2, <1>3, <1>4, <1>5 DEF Onlooker

LEMMA ReadKept ==
  ASSUME NEW r, NEW q, NEW M, Onlooker(r, q, M), Changes(M), r.path \in Paths, ReadPromise(r)
  PROVE  ReadPromise(q)'
<1>1. ASSUME q.at = "read"
      PROVE  Deleted(q, q.path) \/ Exists(q.path)'
  BY <1>1, OnlookerFacts DEF ReadPromise
<1>2. ASSUME q.at = "restore_state", Free(q, q.path)
      PROVE  Holds(q.path)'
  <2>1. r.at = "restore_state" /\ r.path = q.path /\ Free(r, r.path)
    BY <1>2, OnlookerFacts DEF Free
  <2>2. Exists(r.path) /\ Decodes(files[r.path])
    BY <2>1 DEF ReadPromise, Holds
  <2>3. Exists(r.path)' /\ files'[r.path] = files[r.path]
    BY <1>2, <2>1, <2>2, OnlookerFacts
  <2> QED
    BY <2>1, <2>2, <2>3 DEF Holds
<1> QED
  BY <1>1, <1>2 DEF ReadPromise, Deleted, Free, Saved

LEMMA DeleteKept ==
  ASSUME NEW r, NEW q, NEW M, Onlooker(r, q, M), Changes(M), r.path \in Paths,
         r.at = "remove_state" => r.key \in Names /\ r.path = MetadataPath(r.key),
         DeletePromise(r)
  PROVE  DeletePromise(q)'
<1>1. ASSUME q.at = "remove"
      PROVE  Deleted(q, q.path) \/ Exists(q.path)'
  BY <1>1, OnlookerFacts DEF DeletePromise
<1>2. ASSUME q.at \in {"delete_state", "remove_state"}
      PROVE  Saved(q, q.path) \/ ~Exists(q.path)'
  BY <1>2, OnlookerFacts DEF DeletePromise
<1>3. ASSUME q.at = "remove_state"
      PROVE  Deleted(q, q.path) \/ Exists(StatePath(q.key))'
  <2>1. r.key \in Names /\ r.path = MetadataPath(r.key) /\ q.key = r.key /\ q.path = r.path
    BY <1>3, OnlookerFacts
  <2>2. CASE Deleted(r, r.path)
    BY <2>1, <2>2, OnlookerFacts
  <2>3. CASE Exists(StatePath(r.key)) /\ ~Exists(StatePath(r.key))'
    <3>1. <<"delete", r.path>> \in M
      BY <2>1, <2>3 DEF Changes
    <3> QED
      BY <2>1, <3>1 DEF Onlooker, Deleted
  <2>4. Deleted(r, r.path) \/ Exists(StatePath(r.key))
    BY <1>3, OnlookerFacts DEF DeletePromise
  <2> QED
    BY <2>1, <2>2, <2>3, <2>4
<1> QED
  BY <1>1, <1>2, <1>3 DEF DeletePromise, Deleted, Saved

LEMMA ListKept ==
  ASSUME NEW r, NEW q, NEW M, Onlooker(r, q, M), Changes(M),
         r.at = "list" => r.op = "list", ListPromise(r)
  PROVE  ListPromise(q)'
<1>1. SUFFICES ASSUME q.at = "list"
               PROVE  /\ q.left \subseteq Listed(q)
                      /\ \A p \in q.left : Deleted(q, p) \/ Exists(p)'
                      /\ \A p \in Listed(q) :
                            Free(q, p) /\ Holds(p)' => p \in q.left \/ files'[p][1] \in q.found
                      /\ \A meta \in q.found : \E p \in Listed(q) :
                            ~Free(q, p) \/ (Holds(p)' /\ files'[p][1] = meta)
  BY DEF ListPromise, Listed, Deleted, Saved, Free
<1>2. /\ r.op = "list" /\ Listed(q) = Listed(r)
      /\ q.left = r.left /\ q.found = r.found
      /\ r.left \subseteq Listed(r)
      /\ \A p \in r.left : Deleted(r, p) \/ Exists(p)
      /\ \A p \in Listed(r) :
            Free(r, p) /\ Holds(p) => p \in r.left \/ files[p][1] \in r.found
      /\ \A meta \in r.found : \E p \in Listed(r) :
            ~Free(r, p) \/ (Holds(p) /\ files[p][1] = meta)
  BY <1>1, OnlookerFacts DEF ListPromise, Listed
<1>3. \A p \in Listed(r) : p \in Paths /\ (Free(q, p) => Free(r, p))
  BY OnlookerFacts DEF Listed, Free
<1>4. \A p \in Listed(r) : Free(q, p) =>
        (Exists(p) => files'[p] = files[p]) /\ (Holds(p) <=> Holds(p)')
  <2>1. SUFFICES ASSUME NEW p \in Listed(r), Free(q, p)
                 PROVE  (Exists(p) => files'[p] = files[p]) /\ (Holds(p) <=> Holds(p)')
    OBVIOUS
  <2>2. (Exists(p) <=> Exists(p)') /\ (Exists(p) => files'[p] = files[p])
    BY <1>2, <1>3, <2>1, OnlookerFacts
  <2> QED
    BY <2>2 DEF Holds
<1>5. \A p \in q.left : Deleted(q, p) \/ Exists(p)'
  BY <1>2, <1>3, OnlookerFacts
<1>6. \A p \in Listed(q) :
        Free(q, p) /\ Holds(p)' => p \in q.left \/ files'[p][1] \in q.found
  BY <1>2, <1>3, <1>4 DEF Holds
<1>7. ASSUME NEW meta \in q.found
      PROVE  \E p \in Listed(q) : ~Free(q, p) \/ (Holds(p)' /\ files'[p][1] = meta)
  <2>1. PICK p \in Listed(r) : ~Free(r, p) \/ (Holds(p) /\ files[p][1] = meta)
    BY <1>2
  <2> QED
    BY <1>2, <1>3, <1>4, <2>1 DEF Holds
<1> QED
  BY <1>2, <1>5, <1>6, <1>7

\* Which operation is where.
LEMMA ShapeFacts ==
  ASSUME NEW r, Shape(r)
  PROVE  /\ r.op = "list" \/ r.path \in Paths
         /\ r.at \in Labels /\ r.at \notin Results
         /\ r.at \in {"read_dir", "list"} => IsList(r)
         /\ r.at \in {"find_state", "state_size", "build", "truncate", "fill"} =>
              r.op = "save" /\ r.meta \in Meta
         /\ r.at \in {"check", "read"} => r.op \in {"get", "restore"}
         /\ r.at = "restore_state" => r.op = "restore" /\ OnSnapshot(r)
         /\ r.at \in {"delete", "remove"} => r.op = "delete"
         /\ r.at \in {"delete_state", "remove_state"} => r.op = "delete" /\ OnSnapshot(r)
         /\ r.op = "list" <=> IsList(r)
         /\ r.at # "fill" => ~r.open
<1>1. CASE IsList(r)
  <2>1. r.op = "list" /\ r.at \in {"read_dir", "list"}
    BY <1>1 DEF IsList
  <2> QED
    BY <1>1, <2>1 DEF Shape, Labels, Results
<1>2. CASE OnSnapshot(r)
  <2>1. r.path \in Paths /\ r.op \in {"save", "get", "restore", "delete"}
    BY <1>2, PathFacts DEF OnSnapshot, SnapshotStages
  <2>2. /\ r.op = "save" => r.at \in {"find_state", "state_size", "truncate", "fill"}
        /\ r.op = "get" => r.at \in {"check", "read"}
        /\ r.op = "restore" => r.at \in {"check", "read", "restore_state"}
        /\ r.op = "delete" => r.at \in {"delete", "remove", "delete_state", "remove_state"}
    BY <1>2 DEF OnSnapshot, SnapshotStages
  <2>3. ~IsList(r)
    BY <2>1 DEF IsList
  <2> QED
    BY <1>2, <2>1, <2>2, <2>3 DEF Shape, Labels, Results
<1>3. CASE OnImage(r)
  <2>1. r.path \in Paths /\ r.op \in {"save", "get", "delete"}
    BY <1>3, PathFacts DEF OnImage, ImageStages
  <2>2. /\ r.op = "save" => r.at \in {"build", "truncate", "fill"}
        /\ r.op = "get" => r.at \in {"check", "read"}
        /\ r.op = "delete" => r.at \in {"delete", "remove"}
    BY <1>3 DEF OnImage, ImageStages
  <2>3. ~IsList(r)
    BY <2>1 DEF IsList
  <2> QED
    BY <1>3, <2>1, <2>2, <2>3 DEF Shape, Labels, Results
<1> QED
  BY <1>1, <1>2, <1>3 DEF Shape

\* What an onlooker relies on holds on, as far as it does not know better.
LEMMA Kept ==
  ASSUME NEW r, NEW q, NEW M, Onlooker(r, q, M), Changes(M), Shape(r), Promise(r)
  PROVE  Shape(q)' /\ Promise(q)'
<1>1. /\ q.op = r.op /\ q.key = r.key /\ q.path = r.path /\ q.at = r.at
      /\ q.meta = r.meta /\ q.left = r.left /\ q.found = r.found
  BY OnlookerFacts
<1>2. q.open => r.open /\ r.path \in DOMAIN files'
  BY DEF Onlooker
<1>3. Shape(q)'
  BY <1>1, <1>2 DEF Shape, IsList, OnSnapshot, OnImage, Exists
<1>4. r.at = "list" => r.op = "list"
  BY ShapeFacts DEF IsList
<1>5. ListPromise(q)'
  BY <1>4, ListKept DEF Promise
<1>6. CASE r.op = "list"
  <2>1. q.at \in {"read_dir", "list"}
    BY <1>1, <1>6, ShapeFacts DEF IsList
  <2> QED
    BY <1>3, <1>5, <2>1 DEF Promise, SavePromise, ReadPromise, DeletePromise
<1>7. CASE r.path \in Paths
  <2>1. r.at = "remove_state" => r.key \in Names /\ r.path = MetadataPath(r.key)
    BY ShapeFacts DEF OnSnapshot
  <2>2. SavePromise(q)' /\ ReadPromise(q)' /\ DeletePromise(q)'
    BY <1>7, <2>1, SaveKept, ReadKept, DeleteKept DEF Promise
  <2> QED
    BY <1>3, <1>5, <2>2 DEF Promise
<1> QED
  BY <1>6, <1>7, ShapeFacts
-----------------------------------------------------------------------------
(* A step of one caller, for the calls.                                     *)

Acts(c, M) ==
    /\ c \in DOMAIN call
    /\ M \subseteq {<<call[c].op, call[c].path>>}
    /\ M # {} => call[c].op \in Mutators
    /\ Changes(M)
    /\ DOMAIN call \ {c} \subseteq DOMAIN call' /\ DOMAIN call' \subseteq DOMAIN call
    /\ \A d \in DOMAIN call \ {c} :
        \/ call'[d] = call[d] /\ (call[d].open => call[d].path \in DOMAIN files')
        \/ call'[d] = [call[d] EXCEPT !.open = FALSE] /\ <<"delete", call[d].path>> \in M
    /\ c \in DOMAIN call' =>
        /\ call'[c] \in Call /\ call'[c].op = call[c].op
        /\ call'[c].path = call[c].path /\ call'[c].raced = call[c].raced
        /\ Shape(call[c])' /\ Promise(call[c])'

FilesOK ==
    /\ DOMAIN files \subseteq Paths \cup States
    /\ \A p \in DOMAIN files : files[p] \in Seq(Meta)
    /\ torn \subseteq Paths

\* The other callers are onlookers.
LEMMA ActsOnOthers ==
  ASSUME StorageInv, NEW c, NEW M, Acts(c, M), NEW d \in DOMAIN call \ {c}
  PROVE  /\ call'[d] \in Call /\ Onlooker(call[d], call'[d], M)
         /\ Shape(call[d])' /\ Promise(call[d])'
<1>1. PICK q : q = call'[d]
  OBVIOUS
<1>2. PICK r : r = call[d] /\ r \in Call
  BY DEF StorageInv, TypeOK
<1>3. \/ q = r /\ (r.open => r.path \in DOMAIN files')
      \/ q = [r EXCEPT !.open = FALSE] /\ <<"delete", r.path>> \in M
  BY <1>1, <1>2 DEF Acts
<1>4. q \in Call
  <2>1. \A o \in BOOLEAN : [r EXCEPT !.open = o] \in Call
    BY <1>2 DEF Call
  <2> QED
    BY <1>2, <1>3, <2>1
<1>5. \A l \in {"op", "key", "path", "at", "meta", "left", "found"} : q[l] = r[l]
  BY <1>2, <1>3 DEF Call
<1>6. q.raced = r.raced
  BY <1>2, <1>3 DEF Call
<1>7. ASSUME NEW m \in M, r.op = "list" \/ r.path = m[2]
      PROVE  m \in r.raced
  <2>1. m = <<call[c].op, call[c].path>> /\ call[c].op \in Mutators /\ c \in DOMAIN call
    BY DEF Acts
  <2>2. m[2] = call[c].path
    BY <2>1
  <2> QED
    BY <1>2, <1>7, <2>1, <2>2 DEF StorageInv, RacedInv
<1>8. /\ q.open => r.open /\ r.path \in DOMAIN files'
      /\ r.open => q.open \/ <<"delete", r.path>> \in M
  BY <1>2, <1>3 DEF Call
<1>9. Onlooker(r, q, M)
  BY <1>2, <1>4, <1>5, <1>6, <1>7, <1>8 DEF Onlooker
<1>10. Shape(q)' /\ Promise(q)'
  <2>1. Changes(M) /\ Shape(r) /\ Promise(r)
    BY <1>2 DEF Acts, StorageInv, Calls
  <2> QED
    BY <1>9, <2>1, Kept
<1>11. Onlooker(call[d], call'[d], M)
  BY <1>1, <1>2, <1>9
<1>12. Shape(call[d])' /\ Promise(call[d])'
  BY <1>1, <1>10
<1> QED
  BY <1>1, <1>4, <1>11, <1>12

LEMMA ActsKeep ==
  ASSUME StorageInv, NEW c, NEW M, Acts(c, M), FilesOK', TornInv', Reports',
         returned' \in Call \cup {None}
  PROVE  StorageInv'
<1>1. /\ c \in DOMAIN call /\ DOMAIN call' \subseteq DOMAIN call
      /\ \A d \in DOMAIN call' \ {c} : d \in DOMAIN call \ {c}
  BY DEF Acts
<1>2. TypeOK'
  <2>1. \A d \in DOMAIN call' : call'[d] \in Call
    BY <1>1, ActsOnOthers DEF Acts
  <2>2. DOMAIN call' \subseteq Callers
    BY <1>1 DEF StorageInv, TypeOK
  <2> QED
    BY <2>1, <2>2 DEF TypeOK, FilesOK
<1>3. Calls'
  <2>1. \A d \in DOMAIN call' : Shape(call[d])' /\ Promise(call[d])'
    BY <1>1, ActsOnOthers DEF Acts
  <2> QED
    BY <2>1 DEF Calls
<1>4. RacedInv'
  <2>1. \A d \in DOMAIN call' :
          /\ call'[d].op = call[d].op /\ call'[d].path = call[d].path
          /\ call[d].raced \subseteq call'[d].raced
    <3>1. SUFFICES ASSUME NEW d \in DOMAIN call'
                   PROVE  /\ call'[d].op = call[d].op /\ call'[d].path = call[d].path
                          /\ call[d].raced \subseteq call'[d].raced
      OBVIOUS
    <3>2. CASE d = c
      BY <3>1, <3>2 DEF Acts
    <3>3. CASE d # c
      <4>1. Onlooker(call[d], call'[d], M)
        BY <1>1, <3>1, <3>3, ActsOnOthers
      <4> QED
        BY <4>1 DEF Onlooker
    <3> QED
      BY <3>2, <3>3
  <2>2. \A d \in DOMAIN call' : d \in DOMAIN call
    BY <1>1
  <2>3. RacedInv
    BY DEF StorageInv
  <2>4. SUFFICES ASSUME NEW a \in DOMAIN call', NEW b \in DOMAIN call' \ {a},
                        call'[b].op \in Mutators,
                        call'[a].op = "list" \/ call'[a].path = call'[b].path
                 PROVE  <<call'[b].op, call'[b].path>> \in call'[a].raced
    BY DEF RacedInv
  <2>5. <<call[b].op, call[b].path>> \in call[a].raced
    BY <2>1, <2>2, <2>3, <2>4 DEF RacedInv
  <2> QED
    BY <2>1, <2>5
<1> QED
  BY <1>2, <1>3, <1>4 DEF StorageInv

-----------------------------------------------------------------------------
(* Steps that only look at the files.                                       *)

\* What a call relies on is a matter of the files alone.
LEMMA FilesDecide ==
  ASSUME NEW q, files' = files, Shape(q), Promise(q)
  PROVE  Shape(q)' /\ Promise(q)'
<1>1. Shape(q)'
  BY DEF Shape, IsList, OnSnapshot, OnImage, Exists
<1>2. SavePromise(q)'
  BY DEF Promise, SavePromise, Exists, Free, Saved, Deleted
<1>3. ReadPromise(q)'
  BY DEF Promise, ReadPromise, Exists, Holds, Free, Saved, Deleted
<1>4. DeletePromise(q)'
  BY DEF Promise, DeletePromise, Exists, Saved, Deleted
<1>5. ListPromise(q)'
  BY DEF Promise, ListPromise, Listed, Exists, Holds, Free, Saved, Deleted
<1> QED
  BY <1>1, <1>2, <1>3, <1>4, <1>5 DEF Promise

\* Without a call that has returned there is nothing to report.
LEMMA NoReports ==
  ASSUME returned' = None
  PROVE  Reports'
BY DEF Reports, SaveKeeps, ReadsSound, DeleteClean, ListComplete, Returns

\* Where the step leads.
LEMMA GotoFacts ==
  ASSUME NEW c \in DOMAIN call, NEW r \in Call, NEW at \in Labels \cup Results, Goto(c, r, at)
  PROVE  /\ [r EXCEPT !.at = at] \in Call
         /\ returned' \in Call \cup {None}
         /\ at \in Results => returned' = [r EXCEPT !.at = at] /\ DOMAIN call' = DOMAIN call \ {c}
         /\ at \notin Results => /\ returned' = None /\ DOMAIN call' = DOMAIN call
                                 /\ call'[c] = [r EXCEPT !.at = at]
         /\ \A d \in DOMAIN call \ {c} : call'[d] = call[d]
<1>1. [r EXCEPT !.at = at] \in Call
  BY DEF Call
<1>2. CASE at \in Results
  BY <1>1, <1>2 DEF Goto
<1>3. CASE at \notin Results
  BY <1>1, <1>3 DEF Goto
<1> QED
  BY <1>2, <1>3

\* A file stays intact while neither it nor its writers change.
LEMMA IntactKept ==
  ASSUME NEW f, Intact(f), files'[f] = files[f], Writers(f)' = Writers(f)
  PROVE  Intact(f)'
<1>1. CASE Writers(f) = {} /\ Decodes(files[f])
  BY <1>1 DEF Intact
<1>2. CASE files[f] = <<>> /\ \E d \in DOMAIN call : Writers(f) = {d}
  <2>1. PICK d \in DOMAIN call : Writers(f)' = {d}
    BY <1>2
  <2>2. d \in DOMAIN call'
    BY <2>1 DEF Writers
  <2> QED
    BY <1>2, <2>1, <2>2 DEF Intact
<1> QED
  BY <1>1, <1>2 DEF Intact

LEMMA GoesOn ==
  ASSUME NEW c \in DOMAIN call, NEW r \in Call, NEW at \in Labels \cup Results, Goto(c, r, at),
         at \notin Results, NEW q, q = [r EXCEPT !.at = at]
  PROVE  /\ DOMAIN call' = DOMAIN call /\ call'[c] = q
         /\ \A d \in DOMAIN call \ {c} : call'[d] = call[d]
<1>1. call' = [call EXCEPT ![c] = q]
  BY DEF Goto
<1> QED
  BY <1>1

LEMMA LooksKeep ==
  ASSUME StorageInv, NEW c \in DOMAIN call, NEW r \in Call, NEW at \in Labels \cup Results,
         r.op = call[c].op, r.path = call[c].path, r.raced = call[c].raced,
         ~r.open, ~call[c].open,
         UNCHANGED <<files, torn>>, Goto(c, r, at),
         at \in Results => Reports',
         at \notin Results => Shape([r EXCEPT !.at = at]) /\ Promise([r EXCEPT !.at = at])
  PROVE  StorageInv'
<1>1. PICK q : q = [r EXCEPT !.at = at]
  OBVIOUS
<1>2. /\ q \in Call /\ q.op = r.op /\ q.path = r.path /\ q.raced = r.raced /\ q.open = r.open
      /\ at \notin Results => Shape(q) /\ Promise(q)
  BY <1>1 DEF Call
<1>3. /\ returned' \in Call \cup {None}
      /\ at \in Results => DOMAIN call' = DOMAIN call \ {c}
      /\ at \notin Results => returned' = None /\ DOMAIN call' = DOMAIN call /\ call'[c] = q
      /\ \A d \in DOMAIN call \ {c} : call'[d] = call[d]
  BY <1>1, GotoFacts
<1>4. Changes({})
  BY DEF Changes, Exists
<1>5. Acts(c, {})
  <2>1. \A d \in DOMAIN call \ {c} :
          call'[d] = call[d] /\ (call[d].open => call[d].path \in DOMAIN files')
    BY <1>3 DEF StorageInv, Calls, Shape, Exists
  <2>2. c \in DOMAIN call' => call'[c] = q /\ Shape(q)' /\ Promise(q)'
    BY <1>2, <1>3, FilesDecide
  <2>3. c \in DOMAIN call' => Shape(call[c])' /\ Promise(call[c])'
    BY <2>2
  <2> QED
    BY <1>2, <1>3, <1>4, <2>1, <2>2, <2>3 DEF Acts
<1>6. \A p : Writers(p)' = Writers(p)
  BY <1>2, <1>3 DEF Writers
<1>7. TornInv'
  <2>1. \A p \in Paths : Exists(p) /\ p \notin torn => Intact(p)
    BY DEF StorageInv, TornInv
  <2>2. SUFFICES ASSUME NEW p \in Paths, Exists(p), p \notin torn
                 PROVE  Intact(p)'
    BY DEF TornInv, Exists
  <2> QED
    BY <1>6, <2>1, <2>2, IntactKept
<1>8. FilesOK' /\ Reports'
  BY <1>3, NoReports DEF StorageInv, TypeOK, FilesOK
<1> QED
  BY <1>3, <1>5, <1>7, <1>8, ActsKeep

LEMMA CallFacts ==
  ASSUME StorageInv, NEW c \in DOMAIN call
  PROVE  call[c] \in Call /\ Shape(call[c]) /\ Promise(call[c])
BY DEF StorageInv, TypeOK, Calls

\* A call goes on to another stage of its operation.
LEMMA ShapeGoesOn ==
  ASSUME NEW r \in Call, Shape(r), NEW at \in Labels, ~r.open,
         \/ OnSnapshot(r) /\ at \in SnapshotStages[r.op]
         \/ OnImage(r) /\ at \in ImageStages[r.op]
  PROVE  Shape([r EXCEPT !.at = at])
<1>1. PICK q : q = [r EXCEPT !.at = at]
  OBVIOUS
<1>2. /\ q.op = r.op /\ q.key = r.key /\ q.path = r.path /\ q.meta = r.meta
      /\ q.open = r.open /\ q.at = at
  BY <1>1 DEF Call
<1>3. OnSnapshot(q) \/ OnImage(q)
  BY <1>2 DEF OnSnapshot, OnImage
<1>4. Shape(q)
  BY <1>2, <1>3 DEF Shape
<1> QED
  BY <1>1, <1>4

\* Each operation has its own property.
LEMMA ReportOf ==
  ASSUME NEW q \in Call, returned' = q,
         q.op = "save" => SaveKeeps',
         q.op \in {"get", "restore"} => ReadsSound',
         q.op = "delete" => DeleteClean',
         q.op = "list" => ListComplete'
  PROVE  Reports'
<1>1. q.op # "save" => SaveKeeps'
  BY DEF SaveKeeps, Returns
<1>2. q.op \notin {"get", "restore"} => ReadsSound'
  BY DEF ReadsSound, Returns
<1>3. q.op # "delete" => DeleteClean'
  BY DEF DeleteClean, Returns
<1>4. q.op # "list" => ListComplete'
  BY DEF ListComplete, Returns
<1> QED
  BY <1>1, <1>2, <1>3, <1>4 DEF Reports

\* get and restore: the file is there, or the answer is that it is not.
LEMMA CheckKeeps ==
  ASSUME StorageInv, NEW c \in DOMAIN call, Check(c)
  PROVE  StorageInv'
<1> DEFINE r == call[c]
<1>1. r \in Call /\ Shape(r) /\ Promise(r) /\ r.at = "check"
  BY CallFacts DEF Check, At
<1>2. r.op \in {"get", "restore"} /\ ~r.open
  BY <1>1, ShapeFacts
<1>3. UNCHANGED <<files, torn>>
  BY DEF Check
<1>4. CASE Exists(r.path)
  <2> DEFINE q == [r EXCEPT !.at = "read"]
  <2>1. Goto(c, r, "read")
    BY <1>4 DEF Check
  <2>2. q.at = "read" /\ q.path = r.path /\ q.op = r.op
    BY <1>1 DEF Call
  <2>3. Shape(q)
    <3>1. (OnSnapshot(r) /\ "read" \in SnapshotStages[r.op]) \/ (OnImage(r) /\ "read" \in ImageStages[r.op])
      BY <1>1, <1>2 DEF Shape, IsList, OnSnapshot, OnImage, SnapshotStages, ImageStages
    <3> QED
      BY <1>1, <1>2, <3>1, ShapeGoesOn DEF Labels
  <2>4. Promise(q)
    BY <1>4, <2>2 DEF Promise, SavePromise, ReadPromise, DeletePromise, ListPromise
  <2> QED
    BY <1>1, <1>2, <1>3, <2>1, <2>3, <2>4, LooksKeep DEF Labels, Results
<1>5. CASE ~Exists(r.path)
  <2> DEFINE q == [r EXCEPT !.at = "NotFound"]
  <2>1. Goto(c, r, "NotFound")
    BY <1>5 DEF Check
  <2>2. returned' = q /\ q \in Call
    BY <1>1, <2>1, GotoFacts DEF Labels, Results
  <2>3. q.at = "NotFound" /\ q.path = r.path /\ q.op = r.op
    BY <1>1 DEF Call
  <2>4. ReadsSound'
    BY <1>3, <1>5, <2>2, <2>3 DEF ReadsSound, Returns, Exists
  <2>5. Reports'
    BY <1>2, <2>2, <2>3, <2>4, ReportOf
  <2> QED
    BY <1>1, <1>2, <1>3, <2>1, <2>5, LooksKeep DEF Labels, Results
<1> QED
  BY <1>4, <1>5

\* A file that nobody has torn is unreadable only while a save writes it.
LEMMA Unreadable ==
  ASSUME StorageInv, NEW c \in DOMAIN call, call[c].path \in Paths, ~call[c].open,
         Exists(call[c].path), ~Holds(call[c].path)
  PROVE  Saved(call[c], call[c].path) \/ call[c].path \in torn
<1> DEFINE p == call[c].path
<1>1. SUFFICES ASSUME p \notin torn
               PROVE  Saved(call[c], p)
  OBVIOUS
<1>2. Intact(p)
  BY <1>1 DEF StorageInv, TornInv
<1>3. PICK d \in DOMAIN call : Writers(p) = {d}
  BY <1>2 DEF Intact, Holds
<1>4. call[d].open /\ call[d].path = p
  BY <1>3 DEF Writers
<1>5. d # c
  BY <1>4
<1>6. call[d].op = "save"
  BY <1>4, CallFacts, ShapeFacts
<1> QED
  BY <1>4, <1>5, <1>6 DEF StorageInv, RacedInv, Mutators, Saved

\* get and restore read the file, which may have gone meanwhile.
LEMMA ReadKeeps ==
  ASSUME StorageInv, NEW c \in DOMAIN call, NEW next, NEW unreadable,
         Read(c, next, unreadable), unreadable \in {"Json", "NotFound"},
         \/ call[c].op = "restore" /\ next = "restore_state" /\ OnSnapshot(call[c])
         \/ call[c].op # "restore" /\ next = "Ok"
  PROVE  StorageInv'
<1> DEFINE r == call[c]  p == r.path
<1>1. r \in Call /\ Shape(r) /\ Promise(r) /\ r.at = "read"
  BY CallFacts DEF Read, At
<1>2. r.op \in {"get", "restore"} /\ ~r.open /\ p \in Paths
  BY <1>1, ShapeFacts
<1>3. UNCHANGED <<files, torn>>
  BY DEF Read
<1>4. CASE ~Exists(p)
  <2> DEFINE q == [r EXCEPT !.at = "Io"]
  <2>1. Goto(c, r, "Io")
    BY <1>4 DEF Read, Reads, Holds
  <2>2. returned' = q /\ q \in Call
    BY <1>1, <2>1, GotoFacts DEF Labels, Results
  <2>3. q.at = "Io" /\ q.path = p /\ q.op = r.op /\ q.raced = r.raced
    BY <1>1 DEF Call
  <2>4. Deleted(r, p)
    BY <1>1, <1>4 DEF Promise, ReadPromise
  <2>5. ReadsSound'
    BY <2>2, <2>3, <2>4 DEF ReadsSound, Returns, Raced, Deleted
  <2>6. Reports'
    BY <1>2, <2>2, <2>3, <2>5, ReportOf
  <2> QED
    BY <1>1, <1>2, <1>3, <2>1, <2>6, LooksKeep DEF Labels, Results
<1>5. CASE Exists(p) /\ ~Holds(p)
  <2> DEFINE q == [r EXCEPT !.at = unreadable]
  <2>1. Goto(c, r, unreadable)
    BY <1>5 DEF Read, Reads
  <2>2. returned' = q /\ q \in Call
    <3>1. unreadable \in Results
      BY DEF Results
    <3> QED
      BY <1>1, <2>1, <3>1, GotoFacts
  <2>3. q.at = unreadable /\ q.path = p /\ q.op = r.op /\ q.raced = r.raced
    BY <1>1 DEF Call
  <2>4. Saved(r, p) \/ p \in torn'
    BY <1>2, <1>3, <1>5, Unreadable
  <2>5. ReadsSound'
    BY <2>2, <2>3, <2>4 DEF ReadsSound, Returns, Raced, Saved
  <2>6. Reports'
    BY <1>2, <2>2, <2>3, <2>5, ReportOf
  <2> QED
    BY <1>1, <1>2, <1>3, <2>1, <2>6, LooksKeep DEF Labels, Results
<1>6. CASE Holds(p)
  <2> DEFINE m == files[p][1]  s == [r EXCEPT !.meta = m]
  <2>1. Exists(p) /\ files[p] = Encoded(m) /\ files[p] # <<>> /\ files[p] \in Seq(Meta)
    BY <1>6 DEF Holds, Decodes, Exists, StorageInv, TypeOK
  <2>2. m \in Meta
    BY <2>1
  <2>3. Goto(c, s, next)
    BY <1>6, <2>1 DEF Read, Reads
  <2>4. /\ s \in Call /\ s.op = r.op /\ s.path = p /\ s.raced = r.raced /\ s.open = r.open
        /\ s.meta = m /\ s.at = r.at /\ s.key = r.key
    BY <1>1, <2>2 DEF Call
  <2>5. CASE next = "Ok"
    <3> DEFINE q == [s EXCEPT !.at = "Ok"]
    <3>1. returned' = q /\ q \in Call
      BY <2>3, <2>4, <2>5, GotoFacts DEF Labels, Results
    <3>2. q.at = "Ok" /\ q.path = p /\ q.op = "get" /\ q.meta = m
      BY <1>2, <2>4, <2>5 DEF Call
    <3>3. ReadsSound'
      BY <1>3, <2>1, <3>1, <3>2 DEF ReadsSound, Returns
    <3>4. Reports'
      BY <3>1, <3>2, <3>3, ReportOf
    <3> QED
      BY <1>2, <1>3, <2>3, <2>4, <2>5, <3>4, LooksKeep DEF Labels, Results
  <2>6. CASE next = "restore_state"
    <3> DEFINE q == [s EXCEPT !.at = "restore_state"]
    <3>1. r.op = "restore" /\ OnSnapshot(r)
      BY <2>6
    <3>2. Shape(s)
      BY <1>1, <1>2, <2>4, <3>1 DEF Shape, OnSnapshot
    <3>3. OnSnapshot(s) /\ "restore_state" \in SnapshotStages[s.op]
      BY <2>4, <3>1 DEF OnSnapshot, SnapshotStages
    <3>4. Shape(q)
      BY <1>2, <2>4, <3>2, <3>3, ShapeGoesOn DEF Labels
    <3>5. q.at = "restore_state" /\ q.path = p
      BY <2>4 DEF Call
    <3>6. Promise(q)
      BY <1>6, <3>5 DEF Promise, SavePromise, ReadPromise, DeletePromise, ListPromise
    <3> QED
      BY <1>2, <1>3, <2>3, <2>4, <2>6, <3>4, <3>6, LooksKeep DEF Labels, Results
  <2> QED
    BY <2>5, <2>6
<1> QED
  BY <1>4, <1>5, <1>6 DEF Holds

\* What a whole file holds.
LEMMA ParsedFacts ==
  ASSUME StorageInv, NEW p
  PROVE  /\ Holds(p) => files[p][1] \in Meta /\ Parsed(p) = {files[p][1]}
         /\ ~Holds(p) => Parsed(p) = {}
         /\ Parsed(p) \subseteq Meta
<1>1. Holds(p) => files[p] \in Seq(Meta) /\ files[p] # <<>>
  BY DEF Holds, Exists, Decodes, StorageInv, TypeOK
<1>2. Holds(p) => files[p][1] \in Meta
  BY <1>1
<1> QED
  BY <1>2 DEF Parsed

\* list: the directory has all the files, and nothing has been read yet.
LEMMA ReadDirKeeps ==
  ASSUME StorageInv, NEW c \in DOMAIN call, ReadDir(c)
  PROVE  StorageInv'
<1> DEFINE r == call[c]
           entries == {p \in DOMAIN files : p[1] = r.path[1]}
           s == [r EXCEPT !.left = entries]
           q == [s EXCEPT !.at = "list"]
<1>1. r \in Call /\ Shape(r) /\ r.at = "read_dir" /\ IsList(r)
  BY CallFacts, ShapeFacts DEF ReadDir, At
<1>2. ~r.open /\ r.op = "list" /\ r.found = {} /\ r.path[1] \in {"snapshots", "images"}
  BY <1>1, ShapeFacts DEF IsList
<1>3. entries = {p \in Listed(r) : Exists(p)}
  <2>1. DOMAIN files \subseteq Paths \cup States
    BY DEF StorageInv, TypeOK
  <2>2. \A p \in States : p[1] # r.path[1]
    BY <1>2, PathFacts
  <2> QED
    BY <2>1, <2>2 DEF Listed, Exists
<1>4. /\ s \in Call /\ s.op = r.op /\ s.path = r.path /\ s.raced = r.raced /\ s.open = r.open
      /\ s.left = entries /\ s.found = r.found /\ s.at = r.at
  <2>1. entries \in SUBSET Paths
    BY <1>3 DEF Listed
  <2> QED
    BY <1>1, <2>1 DEF Call
<1>5. /\ q.op = "list" /\ q.at = "list" /\ q.path = r.path /\ q.open = r.open
      /\ q.left = entries /\ q.found = {} /\ q.raced = r.raced
  BY <1>2, <1>4 DEF Call
<1> HIDE DEF entries, s, q
<1>6. Shape(q)
  BY <1>1, <1>2, <1>5 DEF Shape, IsList
<1>7. Promise(q)
  <2>1. Listed(q) = Listed(r)
    BY <1>5 DEF Listed
  <2>2. ListPromise(q)
    BY <1>3, <1>5, <2>1 DEF ListPromise, Holds
  <2> QED
    BY <1>5, <2>2 DEF Promise, SavePromise, ReadPromise, DeletePromise
<1>8. Goto(c, s, "list") /\ UNCHANGED <<files, torn>>
  BY DEF ReadDir, s, entries
<1> QED
  BY <1>2, <1>4, <1>6, <1>7, <1>8, LooksKeep DEF Labels, Results, q

\* Then each file, which may have gone.
LEMMA ReadNextKeeps ==
  ASSUME StorageInv, NEW c \in DOMAIN call, NEW p \in call[c].left, ReadNext(c, p)
  PROVE  StorageInv'
<1> DEFINE r == call[c]
<1>1. r \in Call /\ Shape(r) /\ Promise(r) /\ r.at = "list" /\ IsList(r)
  BY CallFacts, ShapeFacts DEF ReadNext, At
<1>2. ~r.open /\ r.op = "list" /\ UNCHANGED <<files, torn>>
  BY <1>1, ShapeFacts DEF IsList, ReadNext
<1>3. /\ r.left \subseteq Listed(r)
      /\ \A f \in r.left : Deleted(r, f) \/ Exists(f)
      /\ \A f \in Listed(r) :
            Free(r, f) /\ Holds(f) => f \in r.left \/ files[f][1] \in r.found
      /\ \A meta \in r.found : \E f \in Listed(r) :
            ~Free(r, f) \/ (Holds(f) /\ files[f][1] = meta)
  BY <1>1 DEF Promise, ListPromise
<1>4. CASE Exists(p)
  <2> DEFINE s == [r EXCEPT !.left = @ \ {p}, !.found = @ \cup Parsed(p)]
             q == [s EXCEPT !.at = "list"]
  <2>1. Goto(c, s, "list")
    BY <1>4 DEF ReadNext
  <2>2. /\ s \in Call /\ s.op = r.op /\ s.path = r.path /\ s.raced = r.raced /\ s.open = r.open
        /\ s.left = r.left \ {p} /\ s.found = r.found \cup Parsed(p) /\ s.at = r.at
    BY <1>1, ParsedFacts DEF Call
  <2>3. /\ q.op = "list" /\ q.at = "list" /\ q.path = r.path /\ q.open = r.open
        /\ q.left = r.left \ {p} /\ q.found = r.found \cup Parsed(p) /\ q.raced = r.raced
    BY <1>2, <2>2 DEF Call
  <2>4. Shape(q)
    BY <1>1, <1>2, <2>3 DEF Shape, IsList
  <2>5. Listed(q) = Listed(r) /\ \A f : (Free(q, f) <=> Free(r, f)) /\ (Deleted(q, f) <=> Deleted(r, f))
    BY <2>3 DEF Listed, Free, Saved, Deleted
  <2>6. ASSUME NEW f \in Listed(q), Free(q, f), Holds(f)
        PROVE  f \in q.left \/ files[f][1] \in q.found
    <3>1. CASE f = p
      BY <2>3, <2>6, <3>1, ParsedFacts
    <3>2. CASE f # p
      BY <1>3, <2>3, <2>5, <2>6, <3>2
    <3> QED
      BY <3>1, <3>2
  <2>7. ASSUME NEW meta \in q.found
        PROVE  \E f \in Listed(q) : ~Free(q, f) \/ (Holds(f) /\ files[f][1] = meta)
    <3>1. CASE meta \in r.found
      BY <1>3, <2>5, <3>1
    <3>2. CASE meta \in Parsed(p)
      BY <1>3, <2>5, <3>2, ParsedFacts
    <3> QED
      BY <2>3, <2>7, <3>1, <3>2
  <2>8. q.left \subseteq Listed(q) /\ \A f \in q.left : Deleted(q, f) \/ Exists(f)
    BY <1>3, <2>3, <2>5
  <2>9. Promise(q)
    BY <2>3, <2>6, <2>7, <2>8
    DEF Promise, SavePromise, ReadPromise, DeletePromise, ListPromise
  <2> QED
    BY <1>2, <2>1, <2>2, <2>4, <2>9, LooksKeep DEF Labels, Results
<1>5. CASE ~Exists(p)
  <2> DEFINE q == [r EXCEPT !.at = "Io"]
  <2>1. Goto(c, r, "Io")
    BY <1>5 DEF ReadNext
  <2>2. returned' = q /\ q \in Call
    BY <1>1, <2>1, GotoFacts DEF Labels, Results
  <2>3. q.at = "Io" /\ q.op = "list" /\ q.raced = r.raced
    BY <1>1, <1>2 DEF Call
  <2>4. p \in Paths /\ <<"delete", p>> \in r.raced
    BY <1>3, <1>5 DEF Listed, Deleted
  <2>5. ListComplete'
    BY <2>2, <2>3, <2>4 DEF ListComplete, Returns
  <2>6. Reports'
    BY <2>2, <2>3, <2>5, ReportOf
  <2> QED
    BY <1>1, <1>2, <2>1, <2>6, LooksKeep DEF Labels, Results
<1> QED
  BY <1>4, <1>5

\* And when all have been read.
LEMMA ListDoneKeeps ==
  ASSUME StorageInv, NEW c \in DOMAIN call, ListDone(c)
  PROVE  StorageInv'
<1> DEFINE r == call[c]  q == [r EXCEPT !.at = "Ok"]
<1>1. r \in Call /\ Shape(r) /\ Promise(r) /\ r.at = "list" /\ IsList(r) /\ r.left = {}
  BY CallFacts, ShapeFacts DEF ListDone, At
<1>2. ~r.open /\ r.op = "list" /\ UNCHANGED <<files, torn>> /\ Goto(c, r, "Ok")
  BY <1>1, ShapeFacts DEF IsList, ListDone
<1>3. /\ \A f \in Listed(r) : Free(r, f) /\ Holds(f) => files[f][1] \in r.found
      /\ \A meta \in r.found : \E f \in Listed(r) :
            ~Free(r, f) \/ (Holds(f) /\ files[f][1] = meta)
  BY <1>1 DEF Promise, ListPromise
<1>4. returned' = q /\ q \in Call
  BY <1>1, <1>2, GotoFacts DEF Labels, Results
<1>5. q.at = "Ok" /\ q.op = "list" /\ q.raced = r.raced /\ q.path = r.path /\ q.found = r.found
  BY <1>1, <1>2 DEF Call
<1>6. /\ \A f : InDirectory(f)' <=> f[1] = r.path[1]
      /\ \A f : Disturbed(f)' <=> ~Free(r, f)
      /\ \A f : Holds(f)' <=> Holds(f)
  BY <1>2, <1>4, <1>5 DEF InDirectory, Disturbed, Free, Saved, Deleted, Mutators, Holds, Exists
<1>7. ListComplete'
  BY <1>2, <1>3, <1>4, <1>5, <1>6 DEF ListComplete, Returns, Listed
<1>8. Reports'
  BY <1>4, <1>5, <1>7, ReportOf
<1> QED
  BY <1>1, <1>2, <1>8, LooksKeep DEF Labels, Results

\* save goes on before it opens the file, or gives up.
LEMMA SaveGoesOn ==
  ASSUME StorageInv, NEW c \in DOMAIN call, call[c].op = "save", ~call[c].open,
         NEW at \in {"state_size", "truncate", "Io", "BuildFailed"},
         Goto(c, call[c], at), UNCHANGED <<files, torn>>,
         at \notin Results =>
            \/ OnSnapshot(call[c]) /\ at \in SnapshotStages["save"]
            \/ OnImage(call[c]) /\ at \in ImageStages["save"]
  PROVE  StorageInv'
<1> DEFINE r == call[c]  q == [r EXCEPT !.at = at]
<1>1. r \in Call /\ Shape(r) /\ at \in Labels \cup Results
  BY CallFacts DEF Labels, Results
<1>2. q.at = at /\ q.op = "save"
  BY <1>1 DEF Call
<1>3. CASE at \in Results
  <2>1. returned' = q /\ q \in Call
    BY <1>1, <1>3, GotoFacts
  <2>2. SaveKeeps'
    BY <1>2, <2>1 DEF SaveKeeps, Returns
  <2>3. Reports'
    BY <1>2, <2>1, <2>2, ReportOf
  <2> QED
    BY <1>1, <1>3, <2>3, LooksKeep
<1>4. CASE at \notin Results
  <2>1. Shape(q)
    BY <1>1, <1>4, ShapeGoesOn
  <2>2. Promise(q)
    BY <1>2 DEF Promise, SavePromise, ReadPromise, DeletePromise, ListPromise
  <2> QED
    BY <1>1, <1>4, <2>1, <2>2, LooksKeep
<1> QED
  BY <1>3, <1>4

LEMMA FindStateKeeps ==
  ASSUME StorageInv, NEW c \in DOMAIN call, FindState(c)
  PROVE  StorageInv'
<1>1. Shape(call[c]) /\ call[c].at = "find_state"
  BY CallFacts DEF FindState, At
<1>2. call[c].op = "save" /\ ~call[c].open /\ OnSnapshot(call[c])
  BY <1>1, ShapeFacts DEF Shape, IsList, OnImage, ImageStages
<1>3. /\ Goto(c, call[c], "state_size") \/ Goto(c, call[c], "truncate")
      /\ UNCHANGED <<files, torn>>
  BY DEF FindState
<1> QED
  BY <1>2, <1>3, SaveGoesOn DEF SnapshotStages

LEMMA StateSizeKeeps ==
  ASSUME StorageInv, NEW c \in DOMAIN call, StateSize(c)
  PROVE  StorageInv'
<1>1. Shape(call[c]) /\ call[c].at = "state_size"
  BY CallFacts DEF StateSize, At
<1>2. call[c].op = "save" /\ ~call[c].open /\ OnSnapshot(call[c])
  BY <1>1, ShapeFacts DEF Shape, IsList, OnImage, ImageStages
<1>3. /\ Goto(c, call[c], "truncate") \/ Goto(c, call[c], "Io")
      /\ UNCHANGED <<files, torn>>
  BY DEF StateSize
<1> QED
  BY <1>2, <1>3, SaveGoesOn DEF SnapshotStages, Results

LEMMA BuildKeeps ==
  ASSUME StorageInv, NEW c \in DOMAIN call, Build(c)
  PROVE  StorageInv'
<1>1. Shape(call[c]) /\ call[c].at = "build"
  BY CallFacts DEF Build, At
<1>2. call[c].op = "save" /\ ~call[c].open /\ OnImage(call[c])
  BY <1>1, ShapeFacts DEF Shape, IsList, OnSnapshot, SnapshotStages
<1>3. /\ Goto(c, call[c], "truncate") \/ Goto(c, call[c], "BuildFailed")
      /\ UNCHANGED <<files, torn>>
  BY DEF Build
<1> QED
  BY <1>2, <1>3, SaveGoesOn DEF ImageStages, Results

\* restore returns the path when it has found the state file.
LEMMA RestoreKeeps ==
  ASSUME StorageInv, NEW c \in DOMAIN call, Restore(c)
  PROVE  StorageInv'
<1> DEFINE r == call[c]
<1>1. r \in Call /\ Shape(r) /\ Promise(r) /\ r.at = "restore_state"
  BY CallFacts DEF Restore, At
<1>2. r.op = "restore" /\ ~r.open /\ (Free(r, r.path) => Holds(r.path))
  BY <1>1, ShapeFacts DEF Promise, ReadPromise
<1>3. UNCHANGED <<files, torn>>
  BY DEF Restore
<1>4. PICK at \in {"Ok", "RestoreFailed"} :
        Goto(c, r, at) /\ (at = "Ok" => Exists(StatePath(r.key)))
  BY DEF Restore, StateFile
<1> DEFINE q == [r EXCEPT !.at = at]
<1>5. at \in Results /\ at \in Labels \cup Results
  BY DEF Results
<1>6. returned' = q /\ q \in Call
  BY <1>1, <1>4, <1>5, GotoFacts
<1>7. q.at = at /\ q.op = "restore" /\ q.path = r.path /\ q.key = r.key /\ q.raced = r.raced
  BY <1>1, <1>2 DEF Call
<1> HIDE DEF q
<1>8. ReadsSound'
  <2>1. CASE at = "Ok"
    <3>1. Exists(StatePath(returned.key))' /\ (Free(r, r.path) => Holds(returned.path)')
      BY <1>2, <1>3, <1>4, <1>6, <1>7, <2>1 DEF Exists, Holds
    <3>2. Free(r, r.path) \/ Raced("save")' \/ Raced("delete")'
      BY <1>6, <1>7 DEF Free, Saved, Deleted, Raced
    <3> QED
      BY <1>6, <1>7, <2>1, <3>1, <3>2 DEF ReadsSound, Returns
  <2>2. CASE at = "RestoreFailed"
    BY <1>6, <1>7, <2>2 DEF ReadsSound, Returns
  <2> QED
    BY <2>1, <2>2
<1>9. Reports'
  BY <1>6, <1>7, <1>8, ReportOf
<1> QED
  BY <1>1, <1>2, <1>3, <1>4, <1>5, <1>9, LooksKeep

\* delete: a file that is not there is not removed ...
LEMMA CheckMetadataKeeps ==
  ASSUME StorageInv, NEW c \in DOMAIN call, NEW next,
         CheckRemove(c, "delete", call[c].path, "remove", next),
         \/ next = "delete_state" /\ OnSnapshot(call[c])
         \/ next = "Ok" /\ OnImage(call[c])
  PROVE  StorageInv'
<1>1. PICK r : r = call[c]
  OBVIOUS
<1>2. r \in Call /\ Shape(r) /\ Promise(r) /\ r.at = "delete"
  BY <1>1, CallFacts DEF CheckRemove, At
<1>3. r.op = "delete" /\ ~r.open /\ UNCHANGED <<files, torn>>
  BY <1>2, ShapeFacts DEF CheckRemove
<1>4. CASE Exists(r.path)
  <2>1. PICK q : q = [r EXCEPT !.at = "remove"]
    OBVIOUS
  <2>2. q.at = "remove" /\ q.path = r.path
    BY <1>2, <2>1 DEF Call
  <2>3. Goto(c, r, "remove")
    BY <1>1, <1>4 DEF CheckRemove
  <2>4. Shape(q)
    <3>1. \/ OnSnapshot(r) /\ "remove" \in SnapshotStages[r.op]
          \/ OnImage(r) /\ "remove" \in ImageStages[r.op]
      BY <1>1, <1>3 DEF SnapshotStages, ImageStages
    <3> QED
      BY <1>2, <1>3, <2>1, <3>1, ShapeGoesOn DEF Labels
  <2>5. Promise(q)
    BY <1>4, <2>2 DEF Promise, SavePromise, ReadPromise, DeletePromise, ListPromise
  <2> QED
    BY <1>1, <1>2, <1>3, <2>1, <2>3, <2>4, <2>5, LooksKeep DEF Labels, Results
<1>5. CASE ~Exists(r.path) /\ next = "delete_state"
  <2>1. PICK q : q = [r EXCEPT !.at = "delete_state"]
    OBVIOUS
  <2>2. q.at = "delete_state" /\ q.path = r.path
    BY <1>2, <2>1 DEF Call
  <2>3. Goto(c, r, "delete_state")
    BY <1>1, <1>5 DEF CheckRemove
  <2>4. Shape(q)
    <3>1. OnSnapshot(r) /\ "delete_state" \in SnapshotStages[r.op]
      BY <1>1, <1>3, <1>5 DEF SnapshotStages
    <3> QED
      BY <1>2, <1>3, <2>1, <3>1, ShapeGoesOn DEF Labels
  <2>5. Promise(q)
    BY <1>5, <2>2 DEF Promise, SavePromise, ReadPromise, DeletePromise, ListPromise
  <2> QED
    BY <1>1, <1>2, <1>3, <2>1, <2>3, <2>4, <2>5, LooksKeep DEF Labels, Results
<1>6. CASE ~Exists(r.path) /\ next = "Ok"
  <2>1. PICK q : q = [r EXCEPT !.at = "Ok"]
    OBVIOUS
  <2>2. q.at = "Ok" /\ q.path = r.path /\ q.op = "delete"
    BY <1>2, <1>3, <2>1 DEF Call
  <2>3. Goto(c, r, "Ok")
    BY <1>1, <1>6 DEF CheckRemove
  <2>4. returned' = q /\ q \in Call
    BY <1>1, <1>2, <2>1, <2>3, GotoFacts DEF Labels, Results
  <2>5. q.path[1] # "snapshots" /\ ~Exists(q.path)'
    BY <1>1, <1>3, <1>6, <2>2, PathFacts DEF OnImage, Exists
  <2>6. DeleteClean'
    BY <2>2, <2>4, <2>5 DEF DeleteClean, Returns
  <2>7. Reports'
    BY <2>2, <2>4, <2>6, ReportOf
  <2> QED
    BY <1>1, <1>2, <1>3, <2>3, <2>7, LooksKeep DEF Labels, Results
<1> QED
  BY <1>4, <1>5, <1>6

LEMMA CheckStateKeeps ==
  ASSUME StorageInv, NEW c \in DOMAIN call,
         CheckRemove(c, "delete_state", StateFile(c), "remove_state", "Ok")
  PROVE  StorageInv'
<1>1. PICK r : r = call[c]
  OBVIOUS
<1>2. r \in Call /\ Shape(r) /\ Promise(r) /\ r.at = "delete_state"
  BY <1>1, CallFacts DEF CheckRemove, At
<1>3. r.op = "delete" /\ OnSnapshot(r) /\ ~r.open /\ UNCHANGED <<files, torn>>
  BY <1>2, ShapeFacts DEF CheckRemove
<1>4. Saved(r, r.path) \/ ~Exists(r.path)
  BY <1>2 DEF Promise, DeletePromise
<1>5. CASE Exists(StatePath(r.key))
  <2>1. PICK q : q = [r EXCEPT !.at = "remove_state"]
    OBVIOUS
  <2>2. q.at = "remove_state" /\ q.path = r.path /\ q.key = r.key /\ q.raced = r.raced
    BY <1>2, <2>1 DEF Call
  <2>3. Goto(c, r, "remove_state")
    BY <1>1, <1>5 DEF CheckRemove, StateFile
  <2>4. Shape(q)
    <3>1. "remove_state" \in SnapshotStages[r.op]
      BY <1>3 DEF SnapshotStages
    <3> QED
      BY <1>2, <1>3, <2>1, <3>1, ShapeGoesOn DEF Labels
  <2>5. Promise(q)
    BY <1>4, <1>5, <2>2 DEF Promise, SavePromise, ReadPromise, DeletePromise, ListPromise, Saved
  <2> QED
    BY <1>1, <1>2, <1>3, <2>1, <2>3, <2>4, <2>5, LooksKeep DEF Labels, Results
<1>6. CASE ~Exists(StatePath(r.key))
  <2>1. PICK q : q = [r EXCEPT !.at = "Ok"]
    OBVIOUS
  <2>2. q.at = "Ok" /\ q.path = r.path /\ q.op = "delete" /\ q.key = r.key /\ q.raced = r.raced
    BY <1>2, <1>3, <2>1 DEF Call
  <2>3. Goto(c, r, "Ok")
    BY <1>1, <1>6 DEF CheckRemove, StateFile
  <2>4. returned' = q /\ q \in Call
    BY <1>1, <1>2, <2>1, <2>3, GotoFacts DEF Labels, Results
  <2>5. /\ Raced("save")' \/ ~Exists(q.path)'
        /\ ~Exists(StatePath(q.key))'
    BY <1>3, <1>4, <1>6, <2>2, <2>4 DEF Raced, Saved, Exists
  <2>6. DeleteClean'
    BY <2>2, <2>4, <2>5 DEF DeleteClean, Returns
  <2>7. Reports'
    BY <2>2, <2>4, <2>6, ReportOf
  <2> QED
    BY <1>1, <1>2, <1>3, <2>3, <2>7, LooksKeep DEF Labels, Results
<1> QED
  BY <1>5, <1>6

\* ... and one that has been removed meanwhile fails the call.
LEMMA GoneKeeps ==
  ASSUME StorageInv, NEW c \in DOMAIN call,
         \/ At(c, "remove") /\ ~Exists(call[c].path)
         \/ At(c, "remove_state") /\ ~Exists(StatePath(call[c].key)),
         Goto(c, call[c], "Io"), UNCHANGED <<files, torn>>
  PROVE  StorageInv'
<1>1. PICK r : r = call[c]
  OBVIOUS
<1>2. r \in Call /\ Shape(r) /\ Promise(r) /\ r.at \in {"remove", "remove_state"}
  BY <1>1, CallFacts DEF At
<1>3. r.op = "delete" /\ ~r.open
  BY <1>2, ShapeFacts
<1>4. Deleted(r, r.path)
  BY <1>1, <1>2 DEF Promise, DeletePromise, At
<1>5. PICK q : q = [r EXCEPT !.at = "Io"]
  OBVIOUS
<1>6. q.at = "Io" /\ q.path = r.path /\ q.op = "delete" /\ q.raced = r.raced
  BY <1>2, <1>3, <1>5 DEF Call
<1>7. returned' = q /\ q \in Call
  BY <1>1, <1>2, <1>5, GotoFacts DEF Labels, Results
<1>8. DeleteClean'
  BY <1>4, <1>6, <1>7 DEF DeleteClean, Returns, Raced, Deleted
<1>9. Reports'
  BY <1>6, <1>7, <1>8, ReportOf
<1> QED
  BY <1>1, <1>2, <1>3, <1>9, LooksKeep DEF Labels, Results

-----------------------------------------------------------------------------
(* Steps that change the files.                                             *)

\* A file is removed: its writers write to a file that has no name any more.
Removes(c, r, p, next) ==
    /\ files' = Unlinked(p) /\ torn' = torn \ {p}
    /\ call' = [d \in DOMAIN call \ (IF next \in Results THEN {c} ELSE {}) |->
          IF d = c THEN [r EXCEPT !.at = next]
          ELSE IF d \in Writers(p) THEN [call[d] EXCEPT !.open = FALSE] ELSE call[d]]

LEMMA RemovedKeeps ==
  ASSUME StorageInv, NEW c \in DOMAIN call, NEW r, r = call[c],
         r.op = "delete", NEW p, Exists(p),
         p = r.path \/ (OnSnapshot(r) /\ p = StatePath(r.key)),
         NEW next \in {"Ok", "delete_state"},
         next = "delete_state" => p = r.path /\ OnSnapshot(r),
         next = "Ok" => returned' = [r EXCEPT !.at = "Ok"] /\ DeleteClean',
         next # "Ok" => returned' = None,
         Removes(c, r, p, next)
  PROVE  StorageInv'
<1> DEFINE M == {<<"delete", r.path>>}
<1>1. r \in Call /\ Shape(r) /\ Promise(r)
  BY CallFacts
<1>2. r.path \in Paths /\ ~r.open
  BY <1>1, ShapeFacts
<1>3. /\ \A f : Exists(f)' <=> Exists(f) /\ f # p
      /\ \A f : f # p /\ Exists(f) => files'[f] = files[f]
  BY DEF Removes, Unlinked, Exists
<1>4. PICK q : q = [r EXCEPT !.at = next]
  OBVIOUS
<1>5. /\ q \in Call /\ q.op = "delete" /\ q.path = r.path /\ q.raced = r.raced
      /\ q.at = next /\ q.open = r.open
  BY <1>1, <1>4 DEF Call, Labels, Results
<1>6. /\ next = "Ok" => DOMAIN call' = DOMAIN call \ {c}
      /\ next = "delete_state" => DOMAIN call' = DOMAIN call /\ call'[c] = q
      /\ \A d \in DOMAIN call \ {c} :
            call'[d] = IF d \in Writers(p) THEN [call[d] EXCEPT !.open = FALSE] ELSE call[d]
  BY <1>4 DEF Removes, Results
<1>7. returned' \in Call \cup {None} /\ Reports'
  <2>1. CASE next = "Ok"
    BY <1>4, <1>5, <2>1, ReportOf
  <2>2. CASE next # "Ok"
    BY <2>2, NoReports
  <2> QED
    BY <1>4, <1>5, <2>1, <2>2
<1>8. Changes(M)
  <2>1. ASSUME NEW f \in Paths
        PROVE  /\ <<"delete", f>> \in M \/ ((Exists(f) <=> Exists(f)') /\ (Exists(f) => files'[f] = files[f]))
               /\ Exists(f) /\ ~Exists(f)' => <<"delete", f>> \in M
               /\ ~(Exists(f)' /\ ~Exists(f))
    <3>1. CASE f = p
      BY <1>3, <2>1, <3>1, PathFacts DEF OnSnapshot
    <3>2. CASE f # p
      BY <1>3, <3>2
    <3> QED
      BY <3>1, <3>2
  <2>2. ASSUME NEW n \in Names, Exists(StatePath(n)), ~Exists(StatePath(n))'
        PROVE  <<"delete", MetadataPath(n)>> \in M
    BY <1>2, <1>3, <2>2, PathFacts DEF OnSnapshot
  <2> QED
    BY <2>1, <2>2 DEF Changes
<1>9. Acts(c, M)
  <2>1. ASSUME NEW d \in DOMAIN call \ {c}
        PROVE  \/ call'[d] = call[d] /\ (call[d].open => call[d].path \in DOMAIN files')
               \/ call'[d] = [call[d] EXCEPT !.open = FALSE] /\ <<"delete", call[d].path>> \in M
    <3>1. CASE d \in Writers(p)
      <4>1. call[d].path = p /\ call[d].open
        BY <3>1 DEF Writers
      <4>2. p \in Paths
        BY <4>1, CallFacts, ShapeFacts
      <4>3. p = r.path
        BY <4>2, PathFacts DEF OnSnapshot
      <4> QED
        BY <1>6, <3>1, <4>1, <4>3
    <3>2. CASE d \notin Writers(p)
      <4>1. call'[d] = call[d]
        BY <1>6, <3>2
      <4>2. call[d].open => call[d].path # p /\ Exists(call[d].path)
        BY <3>2, CallFacts DEF Writers, Shape
      <4> QED
        BY <1>3, <4>1, <4>2 DEF Exists
    <3> QED
      BY <3>1, <3>2
  <2>2. ASSUME c \in DOMAIN call'
        PROVE  call'[c] = q /\ Shape(q)' /\ Promise(q)'
    <3>1. next = "delete_state"
      BY <1>6, <2>2
    <3>2. call'[c] = q
      BY <1>6, <3>1
    <3>3. Shape(q)
      <4>1. OnSnapshot(r) /\ "delete_state" \in SnapshotStages[r.op]
        BY <3>1 DEF SnapshotStages
      <4> QED
        BY <1>1, <1>2, <1>4, <3>1, <4>1, ShapeGoesOn DEF Labels
    <3>4. Shape(q)'
      BY <1>2, <1>5, <3>3 DEF Shape, IsList, OnSnapshot, OnImage
    <3>5. ~Exists(q.path)'
      BY <1>3, <1>5, <3>1
    <3>6. Promise(q)'
      BY <1>5, <3>1, <3>5 DEF Promise, SavePromise, ReadPromise, DeletePromise, ListPromise
    <3> QED
      BY <3>2, <3>4, <3>6
  <2>3. ASSUME c \in DOMAIN call'
        PROVE  Shape(call[c])' /\ Promise(call[c])'
    BY <2>2, <2>3
  <2>4. DOMAIN call \ {c} \subseteq DOMAIN call' /\ DOMAIN call' \subseteq DOMAIN call
    BY <1>6
  <2> QED
    BY <1>5, <1>8, <2>1, <2>2, <2>3, <2>4 DEF Acts, Mutators
<1>10. TornInv'
  <2>1. SUFFICES ASSUME NEW f \in Paths, Exists(f)', f \notin torn'
                 PROVE  Intact(f)'
    BY DEF TornInv
  <2>2. f # p /\ Exists(f) /\ files'[f] = files[f]
    BY <1>3, <2>1 DEF Removes
  <2>3. Intact(f)
    BY <2>1, <2>2 DEF Removes, StorageInv, TornInv
  <2>4. Writers(f)' = Writers(f)
    <3>1. \A d \in DOMAIN call' \ {c} : d \in DOMAIN call \ {c}
      BY <1>6
    <3>2. \A d \in DOMAIN call \ {c} : d \in Writers(f) <=> d \in Writers(f)'
      <4>1. SUFFICES ASSUME NEW d \in DOMAIN call \ {c}
                     PROVE  d \in Writers(f) <=> d \in Writers(f)'
        OBVIOUS
      <4>2. CASE d \in Writers(p)
        <5>1. d \notin Writers(f)
          BY <2>2, <4>2 DEF Writers
        <5>2. call'[d] = [call[d] EXCEPT !.open = FALSE] /\ call[d] \in Call
          BY <1>6, <4>1, <4>2, CallFacts
        <5>3. call'[d].open = FALSE
          BY <5>2 DEF Call
        <5> QED
          BY <5>1, <5>3 DEF Writers
      <4>3. CASE d \notin Writers(p)
        BY <1>6, <4>1, <4>3 DEF Writers
      <4> QED
        BY <4>2, <4>3
    <3>3. c \notin Writers(f) /\ c \notin Writers(f)'
      BY <1>2, <1>5, <1>6 DEF Writers
    <3> QED
      BY <3>1, <3>2, <3>3 DEF Writers
  <2> QED
    BY <2>2, <2>3, <2>4, IntactKept
<1>11. FilesOK'
  BY <1>3 DEF Removes, FilesOK, StorageInv, TypeOK, Exists
<1> QED
  BY <1>7, <1>9, <1>10, <1>11, ActsKeep

LEMMA RemoveMetadataKeeps ==
  ASSUME StorageInv, NEW c \in DOMAIN call, NEW next,
         Remove(c, "remove", call[c].path, next),
         \/ next = "delete_state" /\ OnSnapshot(call[c])
         \/ next = "Ok" /\ OnImage(call[c])
  PROVE  StorageInv'
<1>1. PICK r : r = call[c]
  OBVIOUS
<1>2. r \in Call /\ Shape(r) /\ r.at = "remove" /\ r.op = "delete"
  BY <1>1, CallFacts, ShapeFacts DEF Remove, At
<1>3. CASE ~Exists(r.path)
  <2>1. At(c, "remove") /\ Goto(c, call[c], "Io") /\ UNCHANGED <<files, torn>>
    BY <1>1, <1>3 DEF Remove
  <2> QED
    BY <1>1, <1>3, <2>1, GoneKeeps
<1>4. CASE Exists(r.path)
  <2>1. /\ Removes(c, r, r.path, next)
        /\ returned' = IF next \in Results THEN [r EXCEPT !.at = next] ELSE None
    BY <1>1, <1>4 DEF Remove, Removes
  <2>2. ASSUME next = "Ok"
        PROVE  returned' = [r EXCEPT !.at = "Ok"] /\ DeleteClean'
    <3>1. PICK q : q = [r EXCEPT !.at = "Ok"]
      OBVIOUS
    <3>2. returned' = q /\ q.path = r.path /\ q.at = "Ok" /\ q.path[1] = "images"
      BY <1>1, <1>2, <2>1, <2>2, <3>1, PathFacts DEF Results, Call, OnImage
    <3>3. q.path \notin DOMAIN files'
      BY <2>1, <3>2 DEF Removes, Unlinked
    <3> QED
      BY <3>1, <3>2, <3>3 DEF DeleteClean, Returns, Exists
  <2>3. next # "Ok" => returned' = None
    BY <2>1 DEF Results
  <2> QED
    BY <1>1, <1>2, <1>4, <2>1, <2>2, <2>3, RemovedKeeps
<1> QED
  BY <1>3, <1>4

LEMMA RemoveStateKeeps ==
  ASSUME StorageInv, NEW c \in DOMAIN call, Remove(c, "remove_state", StateFile(c), "Ok")
  PROVE  StorageInv'
<1>1. PICK r : r = call[c]
  OBVIOUS
<1>2. /\ r \in Call /\ Shape(r) /\ Promise(r)
      /\ r.at = "remove_state" /\ r.op = "delete" /\ OnSnapshot(r)
  BY <1>1, CallFacts, ShapeFacts DEF Remove, At
<1>3. PICK s : s = StatePath(r.key)
  OBVIOUS
<1>4. CASE ~Exists(s)
  <2>1. At(c, "remove_state") /\ Goto(c, call[c], "Io") /\ UNCHANGED <<files, torn>>
    BY <1>1, <1>3, <1>4 DEF Remove, StateFile
  <2> QED
    BY <1>1, <1>3, <1>4, <2>1, GoneKeeps
<1>5. CASE Exists(s)
  <2>1. /\ Removes(c, r, s, "Ok")
        /\ returned' = [r EXCEPT !.at = "Ok"]
    BY <1>1, <1>3, <1>5 DEF Remove, Removes, StateFile, Results
  <2>2. DeleteClean'
    <3>1. PICK q : q = [r EXCEPT !.at = "Ok"]
      OBVIOUS
    <3>2. /\ returned' = q /\ q.path = r.path /\ q.key = r.key /\ q.at = "Ok"
          /\ q.raced = r.raced
      BY <1>2, <2>1, <3>1 DEF Call
    <3>3. <<"save", q.path>> \in q.raced \/ q.path \notin DOMAIN files'
      BY <1>2, <2>1, <3>2 DEF Promise, DeletePromise, Saved, Exists, Removes, Unlinked
    <3>4. StatePath(q.key) \notin DOMAIN files'
      BY <1>3, <2>1, <3>2 DEF Removes, Unlinked
    <3> QED
      BY <3>2, <3>3, <3>4 DEF DeleteClean, Returns, Raced, Exists
  <2> QED
    BY <1>1, <1>2, <1>3, <1>5, <2>1, <2>2, RemovedKeeps
<1> QED
  BY <1>4, <1>5

\* A save changes its own file.
Writes(p) ==
    /\ DOMAIN files \subseteq DOMAIN files' /\ DOMAIN files' \subseteq DOMAIN files \cup {p}
    /\ \A f \in DOMAIN files \ {p} : files'[f] = files[f]
    /\ p \in DOMAIN files' => files'[p] \in Seq(Meta)
    /\ torn' \subseteq Paths /\ torn \ {p} \subseteq torn'
    /\ Exists(p)' /\ p \notin torn' => Intact(p)'

LEMMA WritesKeep ==
  ASSUME StorageInv, NEW c \in DOMAIN call, NEW r, r = call[c], r.op = "save",
         NEW s \in Call, NEW at \in Labels \cup Results, Goto(c, s, at),
         s.op = r.op, s.path = r.path, s.raced = r.raced,
         Writes(r.path),
         at \in Results => Reports',
         at \notin Results => Shape([s EXCEPT !.at = at])' /\ Promise([s EXCEPT !.at = at])'
  PROVE  StorageInv'
<1> DEFINE M == {<<"save", r.path>>}
<1>1. r \in Call /\ Shape(r) /\ Promise(r) /\ r.path \in Paths
  BY CallFacts, ShapeFacts
<1>2. PICK q : q = [s EXCEPT !.at = at]
  OBVIOUS
<1>3. /\ q \in Call /\ q.op = r.op /\ q.path = r.path /\ q.raced = r.raced /\ q.open = s.open
      /\ at \notin Results => Shape(q)' /\ Promise(q)'
  BY <1>2 DEF Call
<1>4. /\ returned' \in Call \cup {None}
      /\ at \in Results => DOMAIN call' = DOMAIN call \ {c}
      /\ at \notin Results => returned' = None /\ DOMAIN call' = DOMAIN call /\ call'[c] = q
      /\ \A d \in DOMAIN call \ {c} : call'[d] = call[d]
  <2>1. c \in DOMAIN call /\ s \in Call /\ at \in Labels \cup Results /\ Goto(c, s, at)
    OBVIOUS
  <2> QED
    BY ONLY <1>2, <2>1, GotoFacts
<1>5. Changes(M)
  <2>1. \A f \in Paths :
          /\ <<"save", f>> \in M \/ ((Exists(f) <=> Exists(f)') /\ (Exists(f) => files'[f] = files[f]))
          /\ Exists(f) => Exists(f)'
          /\ Exists(f)' /\ ~Exists(f) => <<"save", f>> \in M
    BY DEF Writes, Exists
  <2>2. \A n \in Names : Exists(StatePath(n)) => Exists(StatePath(n))'
    BY DEF Writes, Exists
  <2> QED
    BY <2>1, <2>2 DEF Changes
<1>6. Acts(c, M)
  <2>1. \A d \in DOMAIN call \ {c} :
          call'[d] = call[d] /\ (call[d].open => call[d].path \in DOMAIN files')
    BY <1>4 DEF Writes, StorageInv, Calls, Shape, Exists
  <2>2. c \in DOMAIN call' => call'[c] = q /\ Shape(q)' /\ Promise(q)'
    BY <1>3, <1>4
  <2>3. c \in DOMAIN call' => Shape(call[c])' /\ Promise(call[c])'
    BY <2>2
  <2> QED
    BY <1>3, <1>4, <1>5, <2>1, <2>2, <2>3 DEF Acts, Mutators
<1>7. TornInv'
  <2>1. SUFFICES ASSUME NEW f \in Paths, Exists(f)', f \notin torn', f # r.path
                 PROVE  Intact(f)'
    BY DEF Writes, TornInv
  <2>2. Exists(f) /\ files'[f] = files[f] /\ f \notin torn
    BY <2>1 DEF Writes, Exists
  <2>3. Intact(f)
    BY <2>2 DEF StorageInv, TornInv
  <2>4. Writers(f)' = Writers(f)
    <3>1. c \notin Writers(f) /\ c \notin Writers(f)'
      BY <1>3, <1>4, <2>1 DEF Writers
    <3> QED
      BY <1>4, <3>1 DEF Writers
  <2> QED
    BY <2>2, <2>3, <2>4, IntactKept
<1>8. Reports'
  BY <1>4, NoReports
<1>9. FilesOK'
  <2>1. DOMAIN files' \subseteq Paths \cup States
    BY <1>1 DEF Writes, StorageInv, TypeOK
  <2>2. \A f \in DOMAIN files' : files'[f] \in Seq(Meta)
    BY DEF Writes, StorageInv, TypeOK
  <2> QED
    BY <2>1, <2>2 DEF Writes, FilesOK
<1> QED
  BY <1>4, <1>6, <1>7, <1>8, <1>9, ActsKeep

\* Opening the file empties it.
LEMMA TruncateKeeps ==
  ASSUME StorageInv, NEW c \in DOMAIN call, Truncate(c)
  PROVE  StorageInv'
<1>1. PICK r : r = call[c]
  OBVIOUS
<1>2. "fill" \in Labels \cup Results /\ "fill" \notin Results
  BY DEF Labels, Results
<1>3. r \in Call /\ Shape(r) /\ r.at = "truncate" /\ r.op = "save" /\ r.meta \in Meta /\ ~r.open
  BY <1>1, CallFacts, ShapeFacts DEF Truncate, At
<1>4. r.path \in Paths
  BY <1>3, ShapeFacts
<1>5. PICK s : s = [r EXCEPT !.open = TRUE]
  OBVIOUS
<1>6. PICK q : q = [s EXCEPT !.at = "fill"]
  OBVIOUS
<1>7. /\ s \in Call /\ s.op = r.op /\ s.path = r.path /\ s.raced = r.raced
      /\ q \in Call /\ q.op = r.op /\ q.path = r.path /\ q.raced = r.raced /\ q.key = r.key
      /\ q.meta = r.meta /\ q.open /\ q.at = "fill"
  BY <1>3, <1>5, <1>6 DEF Call, Labels
<1>8. /\ DOMAIN files' = DOMAIN files \cup {r.path} /\ files'[r.path] = <<>>
      /\ \A f \in DOMAIN files \ {r.path} : files'[f] = files[f]
      /\ torn' = IF Writers(r.path) # {} THEN torn \cup {r.path} ELSE torn \ {r.path}
      /\ Goto(c, s, "fill")
  BY <1>1, <1>5 DEF Truncate, Truncated
<1>9. Shape(q)'
  <2>1. OnSnapshot(q) \/ OnImage(q)
    BY <1>3, <1>7 DEF Shape, IsList, OnSnapshot, OnImage, SnapshotStages, ImageStages
  <2>2. Exists(q.path)'
    BY <1>7, <1>8 DEF Exists
  <2> QED
    BY <1>3, <1>7, <2>1, <2>2 DEF Shape, IsList, OnSnapshot, OnImage
<1>10. Promise(q)'
  BY <1>7, <1>8 DEF Promise, SavePromise, ReadPromise, DeletePromise, ListPromise, Exists
<1>11. ASSUME r.path \notin torn'
       PROVE  Intact(r.path)'
  <2>1. Writers(r.path) = {}
    BY <1>8, <1>11
  <2>2. DOMAIN call' = DOMAIN call /\ call'[c] = q /\ \A d \in DOMAIN call \ {c} : call'[d] = call[d]
    BY <1>6, <1>7, <1>8, <1>2, GoesOn
  <2>3. Writers(r.path)' = {c}
    BY <1>7, <2>1, <2>2 DEF Writers
  <2> QED
    BY <1>8, <2>2, <2>3 DEF Intact
<1>12. torn' \subseteq Paths /\ torn \ {r.path} \subseteq torn'
  BY <1>4, <1>8 DEF StorageInv, TypeOK
<1>13. files'[r.path] \in Seq(Meta)
  BY <1>8
<1>14. Writes(r.path)
  BY <1>8, <1>11, <1>12, <1>13 DEF Writes
<1> QED
  BY <1>1, <1>2, <1>3, <1>6, <1>7, <1>8, <1>9, <1>10, <1>14, WritesKeep

\* When a save is over, it is no writer any more.
LEMMA OverAndOut ==
  ASSUME NEW c \in DOMAIN call, NEW r \in Call, NEW at \in Results, Goto(c, r, at),
         NEW q, q = [r EXCEPT !.at = at]
  PROVE  /\ returned' = q
         /\ \A p : Writers(p)' = Writers(p) \ {c}
<1>1. returned' = q /\ call' = [d \in DOMAIN call \ {c} |-> call[d]]
  BY DEF Goto
<1> QED
  BY <1>1 DEF Writers

\* Filling the file: what the only writer of an empty file writes is whole.
LEMMA FillKeeps ==
  ASSUME StorageInv, NEW c \in DOMAIN call, Fill(c)
  PROVE  StorageInv'
<1>1. PICK r : r = call[c]
  OBVIOUS
<1>2. "Ok" \in Results /\ "Ok" \in Labels \cup Results
  BY DEF Results
<1>3. r \in Call /\ Shape(r) /\ Promise(r) /\ r.at = "fill" /\ r.op = "save" /\ r.meta \in Meta
  BY <1>1, CallFacts, ShapeFacts DEF Fill, At
<1>4. r.path \in Paths /\ (r.open => Exists(r.path))
  BY <1>3, ShapeFacts DEF Shape
<1>5. PICK s : s = [r EXCEPT !.open = FALSE]
  OBVIOUS
<1>6. PICK q : q = [s EXCEPT !.at = "Ok"]
  OBVIOUS
<1>7. /\ s \in Call /\ s.op = r.op /\ s.path = r.path /\ s.raced = r.raced
      /\ q \in Call /\ q.op = r.op /\ q.path = r.path /\ q.raced = r.raced
      /\ q.meta = r.meta /\ q.at = "Ok"
  BY <1>3, <1>5, <1>6 DEF Call, Results
<1>8. /\ files' = IF r.open
                  THEN [files EXCEPT ![r.path] = Over(Encoded(r.meta), @)] ELSE files
      /\ torn' = torn /\ Goto(c, s, "Ok")
  BY <1>1, <1>5 DEF Fill
<1>9. returned' = q /\ \A p : Writers(p)' = Writers(p) \ {c}
  BY <1>2, <1>6, <1>7, <1>8, OverAndOut
<1>10. DOMAIN files' = DOMAIN files /\ \A f \in DOMAIN files \ {r.path} : files'[f] = files[f]
  BY <1>8
<1>11. r.open => files'[r.path] = Over(Encoded(r.meta), files[r.path])
  BY <1>4, <1>8 DEF Exists
<1>12. Encoded(r.meta) \in Seq(Meta) /\ Decodes(Encoded(r.meta))
  BY <1>3, EncodedFacts
<1>13. ASSUME r.path \in DOMAIN files'
       PROVE  files'[r.path] \in Seq(Meta)
  <2>1. files[r.path] \in Seq(Meta)
    BY <1>10, <1>13 DEF StorageInv, TypeOK
  <2>2. CASE r.open
    BY <1>11, <1>12, <2>1, <2>2, OverFacts
  <2>3. CASE ~r.open
    BY <1>8, <2>1, <2>3
  <2> QED
    BY <2>2, <2>3
<1>14. r.open /\ files[r.path] = <<>> => files'[r.path] = Encoded(r.meta)
  BY <1>11, <1>12, OverFacts
<1>15. ASSUME Exists(r.path)', r.path \notin torn'
       PROVE  Intact(r.path)'
  <2>1. Intact(r.path)
    BY <1>4, <1>8, <1>10, <1>15 DEF StorageInv, TornInv, Exists
  <2>2. CASE r.open
    <3>1. c \in Writers(r.path)
      BY <1>1, <2>2 DEF Writers
    <3>2. files[r.path] = <<>> /\ Writers(r.path) = {c}
      BY <2>1, <3>1 DEF Intact
    <3>3. Writers(r.path)' = {}
      BY <1>9, <3>2
    <3> QED
      BY <1>12, <1>14, <2>2, <3>2, <3>3 DEF Intact
  <2>3. CASE ~r.open
    <3>1. Writers(r.path)' = Writers(r.path)
      BY <1>1, <1>9, <2>3 DEF Writers
    <3> QED
      BY <1>8, <2>1, <2>3, <3>1, IntactKept
  <2> QED
    BY <2>2, <2>3
<1>16. Reports'
  <2>1. ASSUME Free(r, r.path)
        PROVE  r.path \in DOMAIN files' /\ files'[r.path] = Encoded(r.meta)
    BY <1>3, <1>10, <1>14, <2>1 DEF Promise, SavePromise, Exists
  <2>2. SaveKeeps'
    BY <1>7, <1>9, <2>1 DEF SaveKeeps, Returns, Raced, Free, Saved, Deleted, Exists
  <2> QED
    BY <1>3, <1>7, <1>9, <2>2, ReportOf
<1>17. torn' \subseteq Paths /\ torn \ {r.path} \subseteq torn'
  BY <1>8 DEF StorageInv, TypeOK
<1>18. Writes(r.path)
  BY <1>10, <1>13, <1>15, <1>17 DEF Writes
<1> QED
  BY <1>1, <1>2, <1>3, <1>7, <1>8, <1>16, <1>18, WritesKeep

\* It may also end with a part of the metadata, or none, in the file.
LEMMA FillFailsKeeps ==
  ASSUME StorageInv, NEW c \in DOMAIN call, FillFails(c)
  PROVE  StorageInv'
<1>1. PICK r : r = call[c]
  OBVIOUS
<1>2. "Io" \in Results /\ "Io" \in Labels \cup Results
  BY DEF Results
<1>3. r \in Call /\ Shape(r) /\ r.at = "fill" /\ r.op = "save" /\ r.meta \in Meta
  BY <1>1, CallFacts, ShapeFacts DEF FillFails, At
<1>4. r.path \in Paths /\ (r.open => Exists(r.path))
  BY <1>3, ShapeFacts DEF Shape
<1>5. PICK s : s = [r EXCEPT !.open = FALSE]
  OBVIOUS
<1>6. PICK q : q = [s EXCEPT !.at = "Io"]
  OBVIOUS
<1>7. /\ s \in Call /\ s.op = r.op /\ s.path = r.path /\ s.raced = r.raced
      /\ q \in Call /\ q.op = r.op /\ q.at = "Io"
  BY <1>3, <1>5, <1>6 DEF Call, Results
<1>8. PICK n \in 0 .. r.meta.body - 1 :
        files' = IF r.open
                 THEN [files EXCEPT ![r.path] = Over(SubSeq(Encoded(r.meta), 1, n), @)] ELSE files
  BY <1>1 DEF FillFails
<1>9. torn' = (IF r.open THEN torn \cup {r.path} ELSE torn) /\ Goto(c, s, "Io")
  BY <1>1, <1>5 DEF FillFails
<1>10. returned' = q /\ \A p : Writers(p)' = Writers(p) \ {c}
  BY <1>2, <1>6, <1>7, <1>9, OverAndOut
<1>11. DOMAIN files' = DOMAIN files /\ \A f \in DOMAIN files \ {r.path} : files'[f] = files[f]
  BY <1>8
<1>12. ASSUME r.path \in DOMAIN files'
       PROVE  files'[r.path] \in Seq(Meta)
  <2>1. files[r.path] \in Seq(Meta)
    BY <1>11, <1>12 DEF StorageInv, TypeOK
  <2>2. SubSeq(Encoded(r.meta), 1, n) \in Seq(Meta)
    BY <1>3, <1>8, EncodedFacts
  <2>3. CASE r.open
    <3>1. files'[r.path] = Over(SubSeq(Encoded(r.meta), 1, n), files[r.path])
      BY <1>8, <1>11, <1>12, <2>3
    <3> QED
      BY <2>1, <2>2, <3>1, OverFacts
  <2>4. CASE ~r.open
    BY <1>8, <2>1, <2>4
  <2> QED
    BY <2>3, <2>4
<1>13. ASSUME Exists(r.path)', r.path \notin torn'
       PROVE  Intact(r.path)'
  <2>1. ~r.open /\ files' = files
    BY <1>8, <1>9, <1>13
  <2>2. Intact(r.path)
    BY <1>4, <1>9, <1>13, <2>1 DEF StorageInv, TornInv, Exists
  <2>3. Writers(r.path)' = Writers(r.path)
    BY <1>1, <1>10, <2>1 DEF Writers
  <2> QED
    BY <2>1, <2>2, <2>3, IntactKept
<1>14. Reports'
  <2>1. SaveKeeps'
    BY <1>7, <1>10 DEF SaveKeeps, Returns
  <2> QED
    BY <1>3, <1>7, <1>10, <2>1, ReportOf
<1>15. torn' \subseteq Paths /\ torn \ {r.path} \subseteq torn'
  BY <1>4, <1>9 DEF StorageInv, TypeOK
<1>16. Writes(r.path)
  BY <1>11, <1>12, <1>13, <1>15 DEF Writes
<1> QED
  BY <1>1, <1>2, <1>3, <1>7, <1>9, <1>14, <1>16, WritesKeep

-----------------------------------------------------------------------------
(* Steps of nobody, and of callers who begin.                               *)

\* The saves and deletes under way are of metadata files.
LEMMA MutationsFacts ==
  ASSUME StorageInv
  PROVE  /\ Mutations \subseteq Mutators \X Paths
         /\ \A d \in DOMAIN call :
              call[d].op \in Mutators => <<call[d].op, call[d].path>> \in Mutations
<1>1. \A d \in DOMAIN call : call[d].op \in Mutators => call[d].path \in Paths
  BY CallFacts, ShapeFacts DEF Mutators
<1> QED
  BY <1>1 DEF Mutations

\* What a call may begin with.
Starts(op, key, path, at, meta) ==
    /\ \/ op = "list" /\ at = "read_dir" /\ path \in {<<"snapshots", None>>, <<"images", None>>}
       \/ /\ op \in DOMAIN SnapshotStages /\ at \in SnapshotStages[op]
          /\ key \in Names /\ path = MetadataPath(key)
       \/ /\ op \in DOMAIN ImageStages /\ at \in ImageStages[op]
          /\ key \in Refs /\ path = ImagePath(key)
    /\ at \in {"read_dir", "check", "find_state", "build", "truncate", "delete"}
    /\ key \in Key \cup {None} /\ meta \in Meta \cup {None}
    /\ op = "save" => meta \in Meta

\* A caller begins: it knows of the saves and deletes under way, and they of its.
LEMMA BeginKeeps ==
  ASSUME StorageInv, NEW c, NEW op, NEW key, NEW path, NEW at, NEW meta,
         Begin(c, op, key, path, at, meta), Starts(op, key, path, at, meta)
  PROVE  StorageInv'
<1>1. PICK n : n = [op |-> op, key |-> key, path |-> path, at |-> at, meta |-> meta,
                    raced |-> Races(op, path, Mutations), open |-> FALSE, left |-> {}, found |-> {}]
  OBVIOUS
<1>2. /\ c \in Callers \ DOMAIN call /\ DOMAIN call' = DOMAIN call \cup {c} /\ call'[c] = n
      /\ \A d \in DOMAIN call :
            call'[d] = IF op \in Mutators THEN Touched(d, <<op, path>>) ELSE call[d]
      /\ returned' = None /\ files' = files /\ torn' = torn
  BY <1>1 DEF Begin
<1>3. /\ op \in {"save", "delete", "get", "restore", "list"} /\ at \in Labels
      /\ path \in Paths \cup {<<"snapshots", None>>, <<"images", None>>}
      /\ op \in Mutators => path \in Paths
  BY PathFacts DEF Starts, Mutators, Labels, SnapshotStages, ImageStages
<1>4. /\ n \in Call /\ n.op = op /\ n.key = key /\ n.path = path /\ n.at = at /\ n.meta = meta
      /\ n.raced = Races(op, path, Mutations) /\ n.found = {} /\ ~n.open
  <2>1. Races(op, path, Mutations) \in SUBSET (Mutators \X Paths)
    BY MutationsFacts DEF Races
  <2>2. key \in Key \cup {None} /\ meta \in Meta \cup {None}
    BY DEF Starts
  <2> QED
    BY <1>1, <1>3, <2>1, <2>2 DEF Call, Mutators
<1>5. Shape(n) /\ Promise(n)
  <2>1. IsList(n) \/ OnSnapshot(n) \/ OnImage(n)
    BY <1>4 DEF Starts, IsList, OnSnapshot, OnImage
  <2>2. Shape(n)
    BY <1>4, <2>1 DEF Starts, Shape
  <2>3. Promise(n)
    BY <1>4 DEF Starts, Promise, SavePromise, ReadPromise, DeletePromise, ListPromise
  <2> QED
    BY <2>2, <2>3
<1>6. ASSUME NEW d \in DOMAIN call, NEW q, q = call'[d], NEW r, r = call[d]
      PROVE  /\ Onlooker(r, q, {}) /\ q.op = r.op /\ q.path = r.path /\ q.open = r.open
             /\ op \in Mutators /\ (r.op = "list" \/ r.path = path) => <<op, path>> \in q.raced
  <2>1. r \in Call /\ Shape(r)
    BY <1>6, CallFacts
  <2>2. CASE op \in Mutators
    <3>1. PICK races : races = Races(r.op, r.path, {<<op, path>>})
      OBVIOUS
    <3>2. q = [r EXCEPT !.raced = @ \cup races]
      BY <1>2, <1>6, <2>2, <3>1 DEF Touched
    <3>3. races \in SUBSET (Mutators \X Paths)
      BY <1>3, <2>2, <3>1 DEF Races
    <3>4. r.raced \cup races \in SUBSET (Mutators \X Paths)
      BY <2>1, <3>3 DEF Call
    <3>5. /\ q \in Call /\ q.op = r.op /\ q.key = r.key /\ q.path = r.path /\ q.at = r.at
          /\ q.meta = r.meta /\ q.left = r.left /\ q.found = r.found /\ q.open = r.open
          /\ q.raced = r.raced \cup races
      BY <2>1, <3>2, <3>4 DEF Call
    <3>6. r.op = "list" \/ r.path = path => <<op, path>> \in races
      BY <3>1 DEF Races
    <3>7. r.open => r.path \in DOMAIN files'
      BY <1>2, <2>1 DEF Shape, Exists
    <3> QED
      BY <2>1, <3>5, <3>6, <3>7 DEF Onlooker
  <2>3. CASE op \notin Mutators
    <3>1. q = r
      BY <1>2, <1>6, <2>3
    <3>2. r.open => r.path \in DOMAIN files'
      BY <1>2, <2>1 DEF Shape, Exists
    <3> QED
      BY <2>1, <2>3, <3>1, <3>2 DEF Onlooker
  <2> QED
    BY <2>2, <2>3
<1>7. Changes({})
  BY <1>2 DEF Changes, Exists
<1>8. ASSUME NEW d \in DOMAIN call'
      PROVE  call'[d] \in Call /\ Shape(call[d])' /\ Promise(call[d])'
  <2>1. PICK q : q = call'[d]
    OBVIOUS
  <2>2. CASE d = c
    <3>1. q = n /\ Shape(n)' /\ Promise(n)'
      BY <1>2, <1>5, <2>1, <2>2, FilesDecide
    <3> QED
      BY <1>4, <2>1, <3>1
  <2>3. CASE d # c
    <3>1. PICK r : r = call[d] /\ d \in DOMAIN call
      BY <1>2, <2>3
    <3>2. Onlooker(r, q, {})
      BY <1>6, <2>1, <3>1
    <3>3. Shape(q)' /\ Promise(q)'
      BY <1>7, <3>1, <3>2, CallFacts, Kept
    <3> QED
      BY <2>1, <3>2, <3>3 DEF Onlooker
  <2> QED
    BY <2>2, <2>3
<1>9. TypeOK'
  BY <1>2, <1>8 DEF StorageInv, TypeOK
<1>10. RacedInv'
  <2>1. SUFFICES ASSUME NEW a \in DOMAIN call', NEW b \in DOMAIN call' \ {a},
                        NEW x, x = call'[a], NEW y, y = call'[b],
                        y.op \in Mutators, x.op = "list" \/ x.path = y.path
                 PROVE  <<y.op, y.path>> \in x.raced
    BY DEF RacedInv
  <2>2. CASE a = c
    <3>1. PICK r : r = call[b] /\ b \in DOMAIN call
      BY <1>2, <2>1, <2>2
    <3>2. y.op = r.op /\ y.path = r.path
      BY <1>6, <2>1, <3>1
    <3>3. <<r.op, r.path>> \in Mutations
      BY <2>1, <3>1, <3>2, MutationsFacts
    <3>4. x.raced = Races(op, path, Mutations) /\ x.op = op /\ x.path = path
      BY <1>2, <1>4, <2>1, <2>2
    <3> QED
      BY <2>1, <3>2, <3>3, <3>4 DEF Races
  <2>3. CASE b = c
    <3>1. PICK r : r = call[a] /\ a \in DOMAIN call
      BY <1>2, <2>1, <2>3
    <3>2. y.op = op /\ y.path = path
      BY <1>2, <1>4, <2>1, <2>3
    <3> QED
      BY <1>6, <2>1, <3>1, <3>2
  <2>4. CASE a # c /\ b # c
    <3>1. PICK r : r = call[a] /\ a \in DOMAIN call
      BY <1>2, <2>1, <2>4
    <3>2. PICK t : t = call[b] /\ b \in DOMAIN call
      BY <1>2, <2>1, <2>4
    <3>3. x.op = r.op /\ x.path = r.path /\ y.op = t.op /\ y.path = t.path
      BY <1>6, <2>1, <3>1, <3>2
    <3>4. <<t.op, t.path>> \in r.raced
      BY <2>1, <3>1, <3>2, <3>3 DEF StorageInv, RacedInv
    <3>5. r.raced \subseteq x.raced
      BY <1>6, <2>1, <3>1 DEF Onlooker
    <3> QED
      BY <3>3, <3>4, <3>5
  <2> QED
    BY <2>2, <2>3, <2>4
<1>11. TornInv'
  <2>1. SUFFICES ASSUME NEW f \in Paths, Exists(f), f \notin torn
                 PROVE  Intact(f)'
    BY <1>2 DEF TornInv, Exists
  <2>2. Intact(f)
    BY <2>1 DEF StorageInv, TornInv
  <2>3. Writers(f)' = Writers(f)
    BY <1>2, <1>4, <1>6 DEF Writers
  <2> QED
    BY <1>2, <2>2, <2>3, IntactKept
<1> QED
  BY <1>2, <1>8, <1>9, <1>10, <1>11, NoReports DEF StorageInv, Calls

LEMMA CallSnapshotsKeeps ==
  ASSUME StorageInv, NEW c, CallSnapshots(c)
  PROVE  StorageInv'
<1>1. ASSUME NEW name \in Names, NEW op, NEW at, NEW meta \in Meta \cup {None},
             BeginSnapshotCall(c, op, name, at, meta),
             \/ op = "save" /\ at = "find_state" /\ meta \in Meta
             \/ op \in {"restore", "get"} /\ at = "check"
             \/ op = "delete" /\ at = "delete"
      PROVE  StorageInv'
  <2>1. op \in DOMAIN SnapshotStages /\ at \in SnapshotStages[op]
    BY <1>1 DEF SnapshotStages
  <2>2. Starts(op, name, MetadataPath(name), at, meta)
    BY <1>1, <2>1 DEF Starts, Key
  <2> QED
    BY <1>1, <2>2, BeginKeeps DEF BeginSnapshotCall
<1>2. ASSUME Begin(c, "list", None, <<"snapshots", None>>, "read_dir", None)
      PROVE  StorageInv'
  <2>1. Starts("list", None, <<"snapshots", None>>, "read_dir", None)
    BY DEF Starts
  <2> QED
    BY <1>2, <2>1, BeginKeeps
<1>3. \A name \in Names, body \in Bodies : Metadata(name, body) \in Meta
  BY DEF Metadata, Meta, Key
<1> QED
  BY <1>1, <1>2, <1>3 DEF CallSnapshots

LEMMA CallImagesKeeps ==
  ASSUME StorageInv, NEW c, CallImages(c)
  PROVE  StorageInv'
<1>1. ASSUME NEW ref \in Refs, NEW op, NEW at, NEW meta \in Meta \cup {None},
             BeginImageCall(c, op, ref, at, meta),
             \/ op = "save" /\ at \in {"build", "truncate"} /\ meta \in Meta
             \/ op = "get" /\ at = "check"
             \/ op = "delete" /\ at = "delete"
      PROVE  StorageInv'
  <2>1. op \in DOMAIN ImageStages /\ at \in ImageStages[op]
    BY <1>1 DEF ImageStages
  <2>2. Starts(op, ref, ImagePath(ref), at, meta)
    BY <1>1, <2>1 DEF Starts, Key
  <2> QED
    BY <1>1, <2>2, BeginKeeps DEF BeginImageCall
<1>2. ASSUME Begin(c, "list", None, <<"images", None>>, "read_dir", None)
      PROVE  StorageInv'
  <2>1. Starts("list", None, <<"images", None>>, "read_dir", None)
    BY DEF Starts
  <2> QED
    BY <1>2, <2>1, BeginKeeps
<1>3. \A ref \in Refs, body \in Bodies : ImageMetadata(ref, body) \in Meta
  BY DEF ImageMetadata, Meta, Key
<1>4. \A ref \in Types : ref \in Refs
  BY ImagesAssumption
<1> QED
  BY <1>1, <1>2, <1>3, <1>4 DEF CallImages

\* The framework writes state files only.
LEMMA WriteStateKeeps ==
  ASSUME StorageInv, NEW name \in Names, WriteState(name)
  PROVE  StorageInv'
<1>1. StatePath(name) \in States /\ StatePath(name) \notin Paths
  BY PathFacts
<1>2. /\ DOMAIN files' = DOMAIN files \cup {StatePath(name)} /\ files'[StatePath(name)] = <<>>
      /\ \A f \in DOMAIN files : files'[f] = files[f]
      /\ call' = call /\ torn' = torn /\ returned' = None
  BY DEF WriteState, Exists
<1>3. Changes({})
  BY <1>1, <1>2 DEF Changes, Exists
<1>4. ASSUME NEW d \in DOMAIN call'
      PROVE  Shape(call[d])' /\ Promise(call[d])'
  <2>1. PICK r : r = call[d] /\ r = call'[d] /\ r \in Call /\ Shape(r) /\ Promise(r)
    BY <1>2, CallFacts
  <2>2. Onlooker(r, r, {})
    BY <1>2, <2>1 DEF Onlooker, Shape, Exists
  <2>3. Shape(r)' /\ Promise(r)'
    BY <1>3, <2>1, <2>2, Kept
  <2> QED
    BY <2>1, <2>3
<1>5. TypeOK'
  <2>1. DOMAIN files' \subseteq Paths \cup States
    BY <1>1, <1>2 DEF StorageInv, TypeOK
  <2>2. ASSUME NEW f \in DOMAIN files'
        PROVE  files'[f] \in Seq(Meta)
    <3>1. CASE f \in DOMAIN files
      BY <1>2, <3>1 DEF StorageInv, TypeOK
    <3>2. CASE f = StatePath(name)
      BY <1>2, <3>2
    <3> QED
      BY <1>2, <2>2, <3>1, <3>2
  <2> QED
    BY <1>2, <2>1, <2>2 DEF StorageInv, TypeOK
<1>6. RacedInv'
  BY <1>2 DEF StorageInv, RacedInv
<1>7. TornInv'
  <2>1. SUFFICES ASSUME NEW f \in Paths, Exists(f)', f \notin torn
                 PROVE  Intact(f)'
    BY <1>2 DEF TornInv
  <2>2. Exists(f) /\ files'[f] = files[f]
    BY <1>1, <1>2, <2>1 DEF Exists
  <2>3. Intact(f)
    BY <2>1, <2>2 DEF StorageInv, TornInv
  <2> QED
    BY <1>2, <2>2, <2>3, IntactKept DEF Writers
<1> QED
  BY <1>2, <1>4, <1>5, <1>6, <1>7, NoReports DEF StorageInv, Calls

\* A crash tears the files that are being written.
LEMMA CrashKeeps ==
  ASSUME StorageInv, Crash
  PROVE  StorageInv'
<1>1. /\ DOMAIN call' = {} /\ returned' = None /\ files' = files
      /\ torn' = torn \cup {call[c].path : c \in {d \in DOMAIN call : call[d].open}}
  BY DEF Crash
<1>2. \A c \in DOMAIN call : call[c].open => call[c].path \in Paths
  BY CallFacts, ShapeFacts
<1>3. TypeOK'
  <2>1. torn' \subseteq Paths
    <3>1. {call[c].path : c \in {d \in DOMAIN call : call[d].open}} \subseteq Paths
      BY <1>2
    <3>2. torn \subseteq Paths
      BY DEF StorageInv, TypeOK
    <3> QED
      BY <1>1, <3>1, <3>2
  <2>2. DOMAIN call' \subseteq Callers /\ \A c \in DOMAIN call' : call'[c] \in Call
    BY <1>1
  <2>3. /\ DOMAIN files' \subseteq Paths \cup States
        /\ \A p \in DOMAIN files' : files'[p] \in Seq(Meta)
    BY <1>1 DEF StorageInv, TypeOK
  <2> QED
    BY <1>1, <2>1, <2>2, <2>3 DEF TypeOK
<1>4. TornInv'
  <2>1. SUFFICES ASSUME NEW f \in Paths, Exists(f), f \notin torn'
                 PROVE  Intact(f)'
    BY <1>1 DEF TornInv, Exists
  <2>2. Writers(f) = {} /\ Writers(f)' = {}
    BY <1>1, <2>1 DEF Writers
  <2>3. Intact(f)
    BY <1>1, <2>1 DEF StorageInv, TornInv
  <2> QED
    BY <1>1, <2>2, <2>3, IntactKept
<1>5. Calls' /\ RacedInv'
  BY <1>1 DEF Calls, RacedInv
<1> QED
  BY <1>1, <1>3, <1>4, <1>5, NoReports DEF StorageInv

-----------------------------------------------------------------------------
(* The invariant holds. *)

LEMMA InitHolds == Init => StorageInv
<1> SUFFICES ASSUME Init PROVE StorageInv
  OBVIOUS
<1>1. DOMAIN files = {} /\ DOMAIN call = {} /\ returned = None /\ torn = {}
  BY DEF Init
<1>2. TypeOK
  BY <1>1 DEF TypeOK
<1>3. Calls /\ RacedInv /\ TornInv
  BY <1>1 DEF Calls, RacedInv, TornInv, Exists
<1>4. Reports
  BY <1>1 DEF Reports, SaveKeeps, ReadsSound, DeleteClean, ListComplete, Returns
<1> QED
  BY <1>2, <1>3, <1>4 DEF StorageInv

\* An operation of the snapshot store, or of the image store, is of its kind.
LEMMA Kinds ==
  ASSUME StorageInv, NEW c \in DOMAIN call
  PROVE  /\ IsSnapshotCall(c) => IsList(call[c]) \/ OnSnapshot(call[c])
         /\ IsImageCall(c) => IsList(call[c]) \/ OnImage(call[c])
         /\ ~IsList(call[c]) <=> call[c].op # "list"
<1>1. Shape(call[c])
  BY CallFacts
<1>2. OnSnapshot(call[c]) => call[c].path[1] = "snapshots"
  BY PathFacts DEF OnSnapshot
<1>3. OnImage(call[c]) => call[c].path[1] = "images"
  BY PathFacts DEF OnImage
<1> QED
  BY <1>1, <1>2, <1>3, ShapeFacts DEF Shape, IsSnapshotCall, IsImageCall

LEMMA SnapshotStepKeeps ==
  ASSUME StorageInv, NEW c, SnapshotStep(c)
  PROVE  StorageInv'
<1>1. c \in DOMAIN call /\ (call[c].op # "list" => OnSnapshot(call[c]))
  BY Kinds DEF SnapshotStep, IsSnapshotCall
<1>2. CASE FindState(c) \/ StateSize(c)
  BY <1>1, <1>2, FindStateKeeps, StateSizeKeeps
<1>3. CASE Truncate(c) \/ Fill(c) \/ FillFails(c)
  BY <1>1, <1>3, TruncateKeeps, FillKeeps, FillFailsKeeps
<1>4. CASE Check(c) \/ Restore(c)
  BY <1>1, <1>4, CheckKeeps, RestoreKeeps
<1>5. CASE Read(c, IF call[c].op = "restore" THEN "restore_state" ELSE "Ok", "Json")
  <2>1. CASE call[c].op = "restore"
    <3>1. Read(c, "restore_state", "Json") /\ OnSnapshot(call[c])
      BY <1>1, <1>5, <2>1
    <3> QED
      BY <1>1, <2>1, <3>1, ReadKeeps
  <2>2. CASE call[c].op # "restore"
    <3>1. Read(c, "Ok", "Json")
      BY <1>5, <2>2
    <3> QED
      BY <1>1, <2>2, <3>1, ReadKeeps
  <2> QED
    BY <2>1, <2>2
<1>6. CASE ReadDir(c) \/ ListDone(c) \/ \E p \in call[c].left : ReadNext(c, p)
  BY <1>1, <1>6, ReadDirKeeps, ListDoneKeeps, ReadNextKeeps
<1>7. CASE Delete(c)
  <2>1. CASE CheckRemove(c, "delete", call[c].path, "remove", AfterMetadata)
    <3>1. call[c].op = "delete" /\ AfterMetadata = "delete_state"
      BY <1>1, <2>1, CallFacts, ShapeFacts DEF CheckRemove, At, AfterMetadata
    <3>2. CheckRemove(c, "delete", call[c].path, "remove", "delete_state")
      BY <2>1, <3>1
    <3> QED
      BY <1>1, <3>1, <3>2, CheckMetadataKeeps
  <2>2. CASE Remove(c, "remove", call[c].path, AfterMetadata)
    <3>1. call[c].op = "delete" /\ AfterMetadata = "delete_state"
      BY <1>1, <2>2, CallFacts, ShapeFacts DEF Remove, At, AfterMetadata
    <3>2. Remove(c, "remove", call[c].path, "delete_state")
      BY <2>2, <3>1
    <3> QED
      BY <1>1, <3>1, <3>2, RemoveMetadataKeeps
  <2>3. CASE CheckRemove(c, "delete_state", StateFile(c), "remove_state", "Ok")
    BY <1>1, <2>3, CheckStateKeeps
  <2>4. CASE Remove(c, "remove_state", StateFile(c), "Ok")
    BY <1>1, <2>4, RemoveStateKeeps
  <2> QED
    BY <1>7, <2>1, <2>2, <2>3, <2>4 DEF Delete
<1> QED
  BY <1>2, <1>3, <1>4, <1>5, <1>6, <1>7 DEF SnapshotStep

LEMMA ImageStepKeeps ==
  ASSUME StorageInv, NEW c, ImageStep(c)
  PROVE  StorageInv'
<1>1. c \in DOMAIN call /\ (call[c].op # "list" => OnImage(call[c]))
  BY Kinds DEF ImageStep, IsImageCall
<1>2. CASE Build(c) \/ Check(c)
  BY <1>1, <1>2, BuildKeeps, CheckKeeps
<1>3. CASE Truncate(c) \/ Fill(c) \/ FillFails(c)
  BY <1>1, <1>3, TruncateKeeps, FillKeeps, FillFailsKeeps
<1>4. CASE Read(c, "Ok", "NotFound")
  <2>1. call[c].op # "restore"
    <3>1. call[c].op \in {"get", "restore"}
      BY <1>1, <1>4, CallFacts, ShapeFacts DEF Read, At
    <3> QED
      BY <1>1, <3>1 DEF OnImage, ImageStages
  <2> QED
    BY <1>1, <1>4, <2>1, ReadKeeps
<1>5. CASE ReadDir(c) \/ ListDone(c) \/ \E p \in call[c].left : ReadNext(c, p)
  BY <1>1, <1>5, ReadDirKeeps, ListDoneKeeps, ReadNextKeeps
<1>6. CASE CheckRemove(c, "delete", call[c].path, "remove", "Ok")
  <2>1. call[c].op = "delete"
    BY <1>1, <1>6, CallFacts, ShapeFacts DEF CheckRemove, At
  <2> QED
    BY <1>1, <1>6, <2>1, CheckMetadataKeeps
<1>7. CASE Remove(c, "remove", call[c].path, "Ok")
  <2>1. call[c].op = "delete"
    BY <1>1, <1>7, CallFacts, ShapeFacts DEF Remove, At
  <2> QED
    BY <1>1, <1>7, <2>1, RemoveMetadataKeeps
<1> QED
  BY <1>2, <1>3, <1>4, <1>5, <1>6, <1>7 DEF ImageStep

LEMMA StutterKeeps ==
  ASSUME StorageInv, UNCHANGED vars
  PROVE  StorageInv'
<1>1. files' = files /\ call' = call /\ returned' = returned /\ torn' = torn
  BY DEF vars
<1>2. TypeOK' /\ RacedInv'
  BY <1>1 DEF StorageInv, TypeOK, RacedInv
<1>3. Calls'
  <2>1. SUFFICES ASSUME NEW d \in DOMAIN call
                 PROVE  Shape(call[d])' /\ Promise(call[d])'
    BY <1>1 DEF Calls
  <2>2. PICK r : r = call[d] /\ r = call'[d] /\ Shape(r) /\ Promise(r)
    BY <1>1, CallFacts
  <2> QED
    BY <1>1, <2>2, FilesDecide
<1>4. TornInv'
  BY <1>1 DEF StorageInv, TornInv, Exists, Intact, Writers
<1>5. Reports'
  BY <1>1 DEF StorageInv, Reports, SaveKeeps, ReadsSound, DeleteClean, ListComplete,
              Returns, Raced, InDirectory, Disturbed, Holds, Exists
<1> QED
  BY <1>2, <1>3, <1>4, <1>5 DEF StorageInv

LEMMA StepKeeps == StorageInv /\ [Next]_vars => StorageInv'
<1> SUFFICES ASSUME StorageInv, [Next]_vars PROVE StorageInv'
  OBVIOUS
<1>1. CASE \E c \in Callers : CallSnapshots(c) \/ SnapshotStep(c)
  BY <1>1, CallSnapshotsKeeps, SnapshotStepKeeps
<1>2. CASE \E c \in Callers : CallImages(c) \/ ImageStep(c)
  BY <1>2, CallImagesKeeps, ImageStepKeeps
<1>3. CASE \E name \in Names : WriteState(name)
  BY <1>3, WriteStateKeeps
<1>4. CASE Crash
  BY <1>4, CrashKeeps
<1>5. CASE UNCHANGED vars
  BY <1>5, StutterKeeps
<1> QED
  BY <1>1, <1>2, <1>3, <1>4, <1>5 DEF Next

\* Every state of the stores satisfies the invariant.
THEOREM StorageInvariance == Spec => []StorageInv
  BY InitHolds, StepKeeps, PTL DEF Spec

\* Whatever the calls, and wherever the service is killed, the stores use the
\* paths that metadata_path() and vmstate_path() give, and write metadata only
\* (images.rs, snapshot.rs).
THEOREM StorageTypes == Spec => []TypeOK
<1>1. StorageInv => TypeOK
  BY DEF StorageInv
<1> QED
  BY <1>1, StorageInvariance, PTL

\* A metadata file is whole unless its last write failed, was cut short or met
\* another, or is under way: save() makes up for what an earlier one has left,
\* since tokio::fs::write truncates (save_metadata() of images.rs, save() of
\* snapshot.rs).
THEOREM FilesWhole == Spec => []WholeUnlessTorn
<1>1. StorageInv => WholeUnlessTorn
  <2>1. SUFFICES ASSUME StorageInv, NEW p \in DOMAIN files \ States, p \notin torn, Writers(p) = {}
                 PROVE  Holds(p)
    BY DEF WholeUnlessTorn
  <2>2. p \in Paths /\ Exists(p)
    BY <2>1 DEF StorageInv, TypeOK, Exists
  <2>3. Intact(p)
    BY <2>1, <2>2 DEF StorageInv, TornInv
  <2> QED
    BY <2>1, <2>2, <2>3 DEF Intact, Holds
<1> QED
  BY <1>1, StorageInvariance, PTL

\* A save() or save_metadata() that returns Ok has kept its metadata, unless it
\* met another save or a delete of its file.
THEOREM SavesKept == Spec => []SaveKeeps
<1>1. StorageInv => SaveKeeps
  BY DEF StorageInv, Reports
<1> QED
  BY <1>1, StorageInvariance, PTL

\* get() and restore() check first and read afterwards: they return the whole of
\* a file, and fail only for one that is not there, is torn, or is being saved
\* or deleted.
THEOREM ReadsAreSound == Spec => []ReadsSound
<1>1. StorageInv => ReadsSound
  BY DEF StorageInv, Reports
<1> QED
  BY <1>1, StorageInvariance, PTL

\* A delete() that returns Ok leaves neither metadata nor state file, whatever
\* an earlier one that was cut short left, and only another delete makes it fail.
THEOREM DeletesClean == Spec => []DeleteClean
<1>1. StorageInv => DeleteClean
  BY DEF StorageInv, Reports
<1> QED
  BY <1>1, StorageInvariance, PTL

\* A list() has what is in the whole files that nobody saved or deleted between
\* its read of the directory and its end, nothing that is in none, and only a
\* delete makes it fail.
THEOREM ListsComplete == Spec => []ListComplete
<1>1. StorageInv => ListComplete
  BY DEF StorageInv, Reports
<1> QED
  BY <1>1, StorageInvariance, PTL
=============================================================================
