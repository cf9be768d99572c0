------------------------------ MODULE BpfMaps ------------------------------
(***************************************************************************)
(* The hash maps of the eBPF programs.  A map is a function whose domain   *)
(* is the set of keys present.  The kernel implements the helpers; they    *)
(* are modelled from how the programs use them.                            *)
(***************************************************************************)
EXTENDS Integers, FiniteSets

EmptyMap == [k \in {} |-> 0]

\* bpf_map_update_elem(map, key, value, BPF_ANY)
Update(map, key, value) ==
  [k \in DOMAIN map \cup {key} |-> IF k = key THEN value ELSE map[k]]

\* bpf_map_update_elem(map, key, value, BPF_NOEXIST)
UpdateNoExist(map, key, value) ==
  IF key \in DOMAIN map THEN map ELSE Update(map, key, value)

\* bpf_map_delete_elem, of one key and of several
DeleteAll(map, keys) == [k \in DOMAIN map \ keys |-> map[k]]

Delete(map, key) == DeleteAll(map, {key})

\* The type of a map from keys in Keys to values in Values.
IsMap(map, Keys, Values) ==
  DOMAIN map \subseteq Keys /\ \A k \in DOMAIN map : map[k] \in Values
=============================================================================
