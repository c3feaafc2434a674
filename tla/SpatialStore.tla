---------------------------- MODULE SpatialStore ----------------------------
(***************************************************************************)
(* The spatial bucket (floodguard/spatial/object_store.py) and the way both *)
(* of its writers use it: _put_idempotent of spatial/service.py and of      *)
(* reconstruction/service.py.  A write is two calls to MinIO, a look at the *)
(* key and the put; a key that is found is read and compared instead.      *)
(***************************************************************************)

VARIABLE objects    \* the bytes under each key of the bucket

(* stat_object finds the key. *)
Present(key) == key \in DOMAIN objects

(* put_object; it would replace what another writer put since the look.     *)
Put(key, bytes) ==
    objects' = [k \in DOMAIN objects \cup {key} |-> IF k = key THEN bytes ELSE objects[k]]

(* read_spatial(key) == payload *)
Same(key, bytes) == objects[key] = bytes

(* No key loses its bytes or changes them. *)
OnlyAdds == \A k \in DOMAIN objects : k \in DOMAIN objects' /\ objects'[k] = objects[k]
=============================================================================
