---------------------------- MODULE MetadataFiles ----------------------------
(***************************************************************************)
(* The files of the two metadata stores and the steps their operations     *)
(* share (crates/pool/src/images.rs, ImageStore; snapshot.rs,              *)
(* SnapshotStore, does the same in a directory of its own).  An operation  *)
(* is a few file system calls with an await between each two: other        *)
(* callers run there, and the service may be killed.                       *)
(*                                                                         *)
(* Writing a file creates or truncates it and then fills it.  Contents are *)
(* sequences of pieces, so that what is written over something longer      *)
(* leaves the end of it.  A file removed while a caller has it open is     *)
(* lost to that caller's write.                                            *)
(*                                                                         *)
(* An operator whose name starts with Bug is a wrong form of the operator  *)
(* after it, used to show that a property notices the mistake.             *)
(***************************************************************************)
EXTENDS Naturals, Sequences

CONSTANTS Callers,   \* the tasks that use the stores
          Bodies,    \* bound: the metadata there may be of one key, each of another length
          None

ASSUME FilesAssumption == Bodies \subseteq Nat \ {0}

VARIABLES
    files,      \* the files: contents by path, a path being <<directory, name>>
    call,       \* the calls under way, by caller
    returned,   \* the call that has just returned; `at' is its result
    torn        \* history: files whose last write failed, was cut short or overlapped another

vars == <<files, call, returned, torn>>

\* Serialized metadata, and what reads as such.
Encoded(meta) == [i \in 1 .. meta.body |-> meta]
Decodes(contents) == contents # <<>> /\ contents = Encoded(contents[1])

Exists(path) == path \in DOMAIN files
Holds(path) == Exists(path) /\ Decodes(files[path])

Init ==
    /\ files = [p \in {} |-> <<>>]
    /\ call = [c \in {} |-> None]
    /\ returned = None
    /\ torn = {}

-----------------------------------------------------------------------------
(* Calls.  `raced' is history: the saves and deletes of other callers that *)
(* a call has overlapped.                                                   *)

Mutators == {"save", "delete"}
Results == {"Ok", "NotFound", "Io", "Json", "BuildFailed", "RestoreFailed"}

Mutations == {<<call[d].op, call[d].path>> : d \in {e \in DOMAIN call : call[e].op \in Mutators}}

\* Those that matter to a call: of the files of its name, or of all if it lists them.
Races(op, path, mutations) == {m \in mutations : op = "list" \/ m[2][2] = path[2]}

Touched(d, mutation) ==
    [call[d] EXCEPT !.raced = @ \cup Races(call[d].op, call[d].path, {mutation})]

Begin(c, op, key, path, at, meta) ==
    /\ c \in Callers \ DOMAIN call
    /\ call' = [d \in DOMAIN call \cup {c} |->
           IF d = c
           THEN [op |-> op, key |-> key, path |-> path, at |-> at, meta |-> meta,
                 raced |-> Races(op, path, Mutations), open |-> FALSE, left |-> {}, found |-> {}]
           ELSE IF op \in Mutators
                THEN Touched(d, <<op, path>>) ELSE call[d]]
    /\ returned' = None
    /\ UNCHANGED <<files, torn>>

\* The call of c, now with the locals r, goes on to `at' or returns it.
Goto(c, r, at) ==
    IF at \in Results
    THEN /\ returned' = [r EXCEPT !.at = at]
         /\ call' = [d \in DOMAIN call \ {c} |-> call[d]]
    ELSE /\ returned' = None
         /\ call' = [call EXCEPT ![c] = [r EXCEPT !.at = at]]

At(c, at) == c \in DOMAIN call /\ call[c].at = at

-----------------------------------------------------------------------------
(* get(): a check, and a read that may find the file gone or unfinished. *)

Check(c) ==
    /\ At(c, "check")
    /\ Goto(c, call[c], IF Exists(call[c].path) THEN "read" ELSE "NotFound")
    /\ UNCHANGED <<files, torn>>

BugReads(path) == Exists(path) /\ files[path] # <<>>
Reads(path) == Holds(path)

Read(c, next, unreadable) ==
    LET p == call[c].path IN
    /\ At(c, "read")
    /\ CASE ~Exists(p) -> Goto(c, call[c], "Io")
         [] Reads(p) -> Goto(c, [call[c] EXCEPT !.meta = files[p][1]], next)
         [] OTHER -> Goto(c, call[c], unreadable)
    /\ UNCHANGED <<files, torn>>

-----------------------------------------------------------------------------
(* list(): the directory, then each file; what does not parse is skipped,   *)
(* a file that is gone ends the call.  The sort by time is left out.        *)

ReadDir(c) ==
    /\ At(c, "read_dir")
    /\ Goto(c, [call[c] EXCEPT !.left = {p \in DOMAIN files : p[1] = call[c].path[1]}], "list")
    /\ UNCHANGED <<files, torn>>

BugParsed(path) == {}
Parsed(path) == IF Holds(path) THEN {files[path][1]} ELSE {}

ReadNext(c, p) ==
    /\ At(c, "list") /\ p \in call[c].left
    /\ IF Exists(p)
       THEN Goto(c, [call[c] EXCEPT !.left = @ \ {p}, !.found = @ \cup Parsed(p)], "list")
       ELSE Goto(c, call[c], "Io")
    /\ UNCHANGED <<files, torn>>

ListDone(c) ==
    /\ At(c, "list") /\ call[c].left = {}
    /\ Goto(c, call[c], "Ok")
    /\ UNCHANGED <<files, torn>>

-----------------------------------------------------------------------------
(* Writing the metadata file: tokio::fs::write. *)

Writers(p) == {d \in DOMAIN call : call[d].open /\ call[d].path = p}

BugTruncated(p) == IF Exists(p) THEN files[p] ELSE <<>>
Truncated(p) == <<>>

Truncate(c) ==
    LET p == call[c].path IN
    /\ At(c, "truncate")
    /\ files' = [q \in DOMAIN files \cup {p} |-> IF q = p THEN Truncated(p) ELSE files[q]]
    /\ torn' = IF Writers(p) # {} THEN torn \cup {p} ELSE torn \ {p}
    /\ Goto(c, [call[c] EXCEPT !.open = TRUE], "fill")

BugOver(new, old) == old
Over(new, old) == new \o SubSeq(old, Len(new) + 1, Len(old))

Fill(c) ==
    LET p == call[c].path IN
    /\ At(c, "fill")
    /\ files' = IF call[c].open
                THEN [files EXCEPT ![p] = Over(Encoded(call[c].meta), @)] ELSE files
    /\ Goto(c, [call[c] EXCEPT !.open = FALSE], "Ok")
    /\ UNCHANGED torn

\* The disk is full: what was there before is gone, and a part may be written.
FillFails(c) ==
    LET p == call[c].path IN
    /\ At(c, "fill")
    /\ \E n \in 0 .. call[c].meta.body - 1 :
          files' = IF call[c].open
                   THEN [files EXCEPT ![p] = Over(SubSeq(Encoded(call[c].meta), 1, n), @)] ELSE files
    /\ torn' = IF call[c].open THEN torn \cup {p} ELSE torn
    /\ Goto(c, [call[c] EXCEPT !.open = FALSE], "Io")

-----------------------------------------------------------------------------
(* Removing a file, if it is there. *)

CheckRemove(c, at, p, remove, next) ==
    /\ At(c, at)
    /\ Goto(c, call[c], IF Exists(p) THEN remove ELSE next)
    /\ UNCHANGED <<files, torn>>

BugUnlinked(p) == files
Unlinked(p) == [q \in DOMAIN files \ {p} |-> files[q]]

Remove(c, at, p, next) ==
    /\ At(c, at)
    /\ \/ /\ Exists(p)
          /\ files' = Unlinked(p)
          /\ torn' = torn \ {p}
          /\ returned' = IF next \in Results THEN [call[c] EXCEPT !.at = next] ELSE None
          /\ call' = [d \in DOMAIN call \ (IF next \in Results THEN {c} ELSE {}) |->
                 IF d = c THEN [call[c] EXCEPT !.at = next]
                 ELSE IF d \in Writers(p) THEN [call[d] EXCEPT !.open = FALSE] ELSE call[d]]
       \/ /\ ~Exists(p)
          /\ Goto(c, call[c], "Io")
          /\ UNCHANGED <<files, torn>>

-----------------------------------------------------------------------------
\* The service is killed and started again; its calls are lost, files stay.
Crash ==
    /\ call # [c \in {} |-> None]
    /\ torn' = torn \cup {call[c].path : c \in {d \in DOMAIN call : call[d].open}}
    /\ call' = [c \in {} |-> None]
    /\ returned' = None
    /\ UNCHANGED files
=============================================================================
