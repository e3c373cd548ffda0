----------------------------- MODULE BlobStore -----------------------------
(***************************************************************************)
(* The durable snapshots of sync/store.rs for one DID, as operators.  A    *)
(* snapshot is the set of deltas in the document it serialises; a blob is  *)
(* addressed by its content, so blobs are a set.  The store itself         *)
(* (iroh-blobs) is external: it takes one write at a time and makes its    *)
(* writes durable some time later, in order.                               *)
(***************************************************************************)
NoSnapshot == {}

\* BlobStore::new_fs on a fresh directory: no blob, and no tag for the DID.
EmptyStore == [blobs |-> {}, tag |-> NoSnapshot]

\* The two steps of BlobStore::save: import_bytes, then set_tag under did_tag.
ImportBytes(store, snapshot) == [store EXCEPT !.blobs = @ \cup {snapshot}]
SetTag(store, snapshot) == [store EXCEPT !.tag = snapshot]

\* BlobStore::load
Load(store, hash) == IF hash \in store.blobs THEN hash ELSE NoSnapshot

\* BlobStore::load_all: a tag that points at an absent blob is passed over.
LoadAll(store) ==
  IF store.tag = NoSnapshot THEN NoSnapshot ELSE Load(store, store.tag)
=============================================================================
