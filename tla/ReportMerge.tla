---------------------------- MODULE ReportMerge ----------------------------
(***************************************************************************)
(* state.py: how sparse printer reports are merged.  A report is a tree:   *)
(* a dict maps keys to values, and a value is a dict again or an atom (a   *)
(* scalar, or a list, which deep_merge never looks into).  The code        *)
(* recurses to any depth; reports nest three dicts deep here.              *)
(***************************************************************************)
EXTENDS Sequences

Dict(f) == [dict |-> f]
Atom(x) == [atom |-> x]
IsDict(v) == "dict" \in DOMAIN v

EmptyDict == Dict(<<>>)

(* The keys under which both sides have a dict.                            *)
Nested(current, update) ==
  {k \in DOMAIN current.dict \cap DOMAIN update.dict :
     IsDict(current.dict[k]) /\ IsDict(update.dict[k])}

(* One level of deep_merge: keys of the update replace those of current,   *)
(* but for nested dicts, whose merges are given; the other keys stay.      *)
MergeLevel(current, update, merged) ==
  Dict([k \in DOMAIN current.dict \cup DOMAIN update.dict |->
    IF k \in DOMAIN merged THEN merged[k]
    ELSE IF k \in DOMAIN update.dict THEN update.dict[k]
    ELSE current.dict[k]])

Merge1(current, update) == MergeLevel(current, update, <<>>)
Merge2(current, update) ==
  MergeLevel(current, update,
    [k \in Nested(current, update) |-> Merge1(current.dict[k], update.dict[k])])

(* Bugs: dict.update, which replaces nested dicts; a merge that keeps the  *)
(* value it has.                                                           *)
ShallowMerge(current, update) == Merge1(current, update)
KeepingMerge(current, update) == Merge2(Merge2(update, current), current)

deep_merge(current, update) ==
  MergeLevel(current, update,
    [k \in Nested(current, update) |-> Merge2(current.dict[k], update.dict[k])])

(* state.get(k, default) on a dict.                                        *)
Get(tree, k, default) == IF k \in DOMAIN tree.dict THEN tree.dict[k] ELSE default
=============================================================================
