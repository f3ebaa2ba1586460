------------------------------ MODULE Storage ------------------------------
(***************************************************************************)
(* The snapshot store and the image store, used by concurrent callers of a *)
(* service that may be killed at any time.                                 *)
(***************************************************************************)
EXTENDS SnapshotStore, ImageStore, FiniteSets

Next ==
    \/ \E c \in Callers : CallSnapshots(c) \/ SnapshotStep(c)
    \/ \E c \in Callers : CallImages(c) \/ ImageStep(c)
    \/ \E name \in Names : WriteState(name)
    \/ Crash

Spec == Init /\ [][Next]_vars

-----------------------------------------------------------------------------
(* Properties *)

Key == Names \cup Refs
Paths == {MetadataPath(n) : n \in Names} \cup {ImagePath(r) : r \in Refs}
States == {StatePath(n) : n \in Names}
Meta == [key : Key, body : Bodies]
Labels == {"check", "read", "read_dir", "list", "truncate", "fill", "delete", "remove",
           "find_state", "state_size", "restore_state", "delete_state", "remove_state", "build"}
Call == [op : Mutators \cup {"get", "restore", "list"}, key : Key \cup {None},
         path : Paths \cup {<<"snapshots", None>>, <<"images", None>>},
         at : Labels \cup Results, meta : Meta \cup {None},
         raced : SUBSET (Mutators \X Paths), open : BOOLEAN,
         left : SUBSET Paths, found : SUBSET Meta]

TypeOK ==
    /\ DOMAIN files \subseteq Paths \cup States
    /\ \A p \in DOMAIN files : files[p] \in Seq(Meta)
    /\ DOMAIN call \subseteq Callers
    /\ \A c \in DOMAIN call : call[c] \in Call
    /\ returned \in Call \cup {None}
    /\ torn \subseteq Paths

\* A metadata file is whole, whatever was in it before, unless a caller is
\* writing it, the last write of it failed or was cut short, or two callers
\* wrote it at once.
WholeUnlessTorn ==
    \A p \in DOMAIN files \ States : Holds(p) \/ p \in torn \/ Writers(p) # {}

-----------------------------------------------------------------------------
(* What a call has done when it returns.                                    *)

Returns(op, result) == returned # None /\ returned.op = op /\ returned.at = result
Raced(op) == <<op, returned.path>> \in returned.raced

\* A save that returned Ok has left its metadata in the file, unless another
\* save or a delete of the same file overlapped it: also over a file that
\* an earlier save left unfinished.
SaveKeeps ==
    Returns("save", "Ok") =>
        \/ Raced("save") \/ Raced("delete")
        \/ Exists(returned.path) /\ files[returned.path] = Encoded(returned.meta)

\* What get() returns is the whole of the file, never a part of what was saved
\* or a mixture.  A restore that returns a path has found the metadata whole and
\* the state file there, and both are still there unless others save or delete
\* meanwhile.  Both fail only in that case, for a file left unfinished, or for none.
ReadsSound ==
    /\ Returns("get", "Ok") => files[returned.path] = Encoded(returned.meta)
    /\ Returns("restore", "Ok") =>
        \/ Raced("save") \/ Raced("delete")
        \/ Holds(returned.path) /\ Exists(StatePath(returned.key))
    /\ \A op \in {"get", "restore"} :
        /\ Returns(op, "NotFound") \/ Returns(op, "Json") =>
            \/ Raced("save") \/ returned.path \in torn
            \/ ~Exists(returned.path) /\ returned.at = "NotFound"
        /\ Returns(op, "Io") => Raced("delete")

\* A delete that returned Ok has left neither file, whatever an earlier one
\* that failed or was cut short has left behind and however many deletes
\* overlapped, save for the metadata of a save that overlapped it; and a delete
\* fails only if another one overlapped it.
DeleteClean ==
    /\ Returns("delete", "Ok") =>
        /\ Raced("save") \/ ~Exists(returned.path)
        /\ returned.path[1] = "snapshots" => ~Exists(StatePath(returned.key))
    /\ Returns("delete", "Io") => Raced("delete")

\* "List all": with every file that nobody saved or deleted meanwhile and
\* that is whole, and with nothing that is not in such a file, unless it was in
\* one that somebody did save or delete; it fails as a whole only if a delete
\* overlapped it.
InDirectory(p) == p[1] = returned.path[1]
Disturbed(p) == \E op \in Mutators : <<op, p>> \in returned.raced

ListComplete ==
    /\ Returns("list", "Ok") =>
        /\ \A p \in Paths :
              InDirectory(p) /\ ~Disturbed(p) /\ Holds(p) => files[p][1] \in returned.found
        /\ \A meta \in returned.found : \E p \in Paths :
              InDirectory(p) /\ (Disturbed(p) \/ (Holds(p) /\ files[p][1] = meta))
    /\ Returns("list", "Io") => \E p \in Paths : <<"delete", p>> \in returned.raced
=============================================================================
