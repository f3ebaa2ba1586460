---------------------------- MODULE SnapshotStore ----------------------------
(***************************************************************************)
(* The snapshot store (crates/pool/src/snapshot.rs): per name a metadata   *)
(* file and a state file.  The state file is the virtualization            *)
(* framework's; the store looks for it and removes it.  The service calls  *)
(* save and restore, the other operations are the library's.               *)
(***************************************************************************)
EXTENDS MetadataFiles

CONSTANT Names   \* bound: the snapshot names in use

\* name.json and name.vmstate; list() looks at the former only.
MetadataPath(name) == <<"snapshots", name>>
StatePath(name) == <<"vmstates", name>>

Metadata(name, body) == [key |-> name, body |-> body]

BeginSnapshotCall(c, op, name, at, meta) == Begin(c, op, name, MetadataPath(name), at, meta)

\* A caller of the service or of the library.
CallSnapshots(c) ==
    \/ \E name \in Names :
        \/ \E body \in Bodies :
              BeginSnapshotCall(c, "save", name, "find_state", Metadata(name, body))
        \/ BeginSnapshotCall(c, "restore", name, "check", None)
        \/ BeginSnapshotCall(c, "get", name, "check", None)
        \/ BeginSnapshotCall(c, "delete", name, "delete", None)
    \/ Begin(c, "list", None, <<"snapshots", None>>, "read_dir", None)

IsSnapshotCall(c) == c \in DOMAIN call /\ call[c].path[1] = "snapshots"

StateFile(c) == StatePath(call[c].key)

\* save() records the size of the state file, if there is one.
FindState(c) ==
    /\ At(c, "find_state")
    /\ Goto(c, call[c], IF Exists(StateFile(c)) THEN "state_size" ELSE "truncate")
    /\ UNCHANGED <<files, torn>>

StateSize(c) ==
    /\ At(c, "state_size")
    /\ Goto(c, call[c], IF Exists(StateFile(c)) THEN "truncate" ELSE "Io")
    /\ UNCHANGED <<files, torn>>

\* restore(): get(), and the state file has to be there.
Restore(c) ==
    /\ At(c, "restore_state")
    /\ Goto(c, call[c], IF Exists(StateFile(c)) THEN "Ok" ELSE "RestoreFailed")
    /\ UNCHANGED <<files, torn>>

\* delete(): first the metadata, then the state file.
BugAfterMetadata == "Ok"
AfterMetadata == "delete_state"

Delete(c) ==
    LET p == call[c].path  s == StateFile(c) IN
    \/ CheckRemove(c, "delete", p, "remove", AfterMetadata)
    \/ Remove(c, "remove", p, AfterMetadata)
    \/ CheckRemove(c, "delete_state", s, "remove_state", "Ok")
    \/ Remove(c, "remove_state", s, "Ok")

SnapshotStep(c) ==
    /\ IsSnapshotCall(c)
    /\ \/ FindState(c)
       \/ StateSize(c)
       \/ Truncate(c)
       \/ Fill(c)
       \/ FillFails(c)
       \/ Check(c)
       \/ Read(c, IF call[c].op = "restore" THEN "restore_state" ELSE "Ok", "Json")
       \/ Restore(c)
       \/ ReadDir(c)
       \/ \E p \in call[c].left : ReadNext(c, p)
       \/ ListDone(c)
       \/ Delete(c)

\* The framework writes a state file, which a test of the store does as well.
WriteState(name) ==
    /\ ~Exists(StatePath(name))
    /\ files' = [p \in DOMAIN files \cup {StatePath(name)} |->
                    IF p \in DOMAIN files THEN files[p] ELSE <<>>]
    /\ returned' = None
    /\ UNCHANGED <<call, torn>>
=============================================================================
