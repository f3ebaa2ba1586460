----------------------------- MODULE ImageStore -----------------------------
(***************************************************************************)
(* The image store (crates/pool/src/images.rs): one metadata file per      *)
(* image, named after its reference.  Names and versions are sequences of  *)
(* the parts between their underscores.                                    *)
(***************************************************************************)
EXTENDS MetadataFiles

CONSTANTS Refs,    \* bound: the image references in use
          Types    \* those of them that build() makes: a known type and a version

ASSUME ImagesAssumption == Types \subseteq Refs

\* metadata/name_version.json
ImagePath(ref) == <<"images", ref.name \o ref.version>>

BugImageMetadata(ref, body) == [key |-> ref, body |-> 0]
ImageMetadata(ref, body) == [key |-> ref, body |-> body]

BeginImageCall(c, op, ref, at, meta) == Begin(c, op, ref, ImagePath(ref), at, meta)

CallImages(c) ==
    \/ \E ref \in Refs :
        \/ \E body \in Bodies : BeginImageCall(c, "save", ref, "truncate", ImageMetadata(ref, body))
        \/ BeginImageCall(c, "get", ref, "check", None)
        \/ BeginImageCall(c, "delete", ref, "delete", None)
    \/ \E ref \in Types, body \in Bodies :
          BeginImageCall(c, "save", ref, "build", ImageMetadata(ref, body))
    \/ Begin(c, "list", None, <<"images", None>>, "read_dir", None)

IsImageCall(c) == c \in DOMAIN call /\ call[c].path[1] = "images"

\* build(): `container build' succeeds, and the metadata is saved, or fails.
Build(c) ==
    /\ At(c, "build")
    /\ \E next \in {"truncate", "BuildFailed"} : Goto(c, call[c], next)
    /\ UNCHANGED <<files, torn>>

ImageStep(c) ==
    /\ IsImageCall(c)
    /\ \/ Build(c)
       \/ Truncate(c)
       \/ Fill(c)
       \/ FillFails(c)
       \/ Check(c)
       \/ Read(c, "Ok", "NotFound")
       \/ ReadDir(c)
       \/ \E p \in call[c].left : ReadNext(c, p)
       \/ ListDone(c)
       \/ CheckRemove(c, "delete", call[c].path, "remove", "Ok")
       \/ Remove(c, "remove", call[c].path, "Ok")
=============================================================================
