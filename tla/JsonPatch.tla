------------------------------ MODULE JsonPatch ------------------------------
(***************************************************************************)
(* JSON Patch and JSON Merge Patch (json/patch.hpp over json/generic.hpp): *)
(* a patch is applied to a document one operation at a time, atomically or *)
(* not; diff() writes the patch that leads from one document to another,   *)
(* and merge_diff() the merge patch.                                       *)
(*                                                                         *)
(* A value is a record of its type and contents, scalars are opaque.  A    *)
(* pointer is the sequence of its tokens as they read unescaped: that      *)
(* escape_json_ptr() and its inverse cancel out is taken for granted.  The *)
(* limit on the depth of a merge patch is left out.                        *)
(***************************************************************************)
EXTENDS Naturals, SequencesExt

CONSTANTS
    Documents,    \* the documents a diff is made of
    Sources,      \* the documents other patches are applied to
    Scripts,      \* those patches
    Digits        \* the tokens "0", "1", ... in order

VARIABLES
    document,
    source,       \* the document before
    target,       \* what a diff is to lead to
    kind,         \* "diff", "script" or "merge"
    ops, next,    \* the patch, and the operation to be applied next
    opts,         \* patch_opts
    status        \* "running", "ok" or "error"

vars == <<document, source, target, kind, ops, next, opts, status>>

Null == [type |-> "null"]
Object(m) == [type |-> "object", m |-> m]
Array(e) == [type |-> "array", e |-> e]
EmptyObject == Object(<<>>)
IsObject(v) == v.type = "object"
IsArray(v) == v.type = "array"

\* No value: a null pointer, or an operation without the member.
Nothing == [type |-> "nothing"]

Malformed == "~"    \* a token with an escape that is none
IsIndex(token) == Contains(Digits, token)
Index(token) == CHOOSE i \in DOMAIN Digits : Digits[i] = token    \* from 1, as sequences have it

-----------------------------------------------------------------------------
(* Pointers.                                                               *)

Child(v, token) ==
    IF IsObject(v) /\ token \in DOMAIN v.m THEN v.m[token]
    ELSE IF IsArray(v) /\ IsIndex(token) /\ Index(token) <= Len(v.e) THEN v.e[Index(token)]
    ELSE Nothing

\* navigate_to()
At(v, path) == FoldLeft(Child, v, path)

WithMember(v, key, w) == Object([k \in DOMAIN v.m \cup {key} |-> IF k = key THEN w ELSE v.m[k]])
WithChild(v, token, w) == IF IsObject(v) THEN WithMember(v, token, w) ELSE Array([v.e EXCEPT ![Index(token)] = w])

\* *navigate_to(path) = w, for a path that leads somewhere.
RECURSIVE Assign(_, _, _)
Assign(v, path, w) ==
    IF path = <<>> THEN w ELSE WithChild(v, Head(path), Assign(Child(v, Head(path)), Tail(path), w))

\* navigate_to_parent()
Parent(v, path) == IF path = <<>> \/ Last(path) = Malformed THEN Nothing ELSE At(v, Front(path))

Done(v) == [document |-> v, ok |-> TRUE]
Failed(v) == [document |-> v, ok |-> FALSE]

\* A value among the children of a container.
Inserted(v, token, w) ==
    IF IsObject(v) THEN WithMember(v, token, w)
    ELSE IF IsArray(v) /\ token = "-" THEN Array(Append(v.e, w))
    ELSE IF IsArray(v) /\ IsIndex(token) /\ Index(token) <= Len(v.e) + 1 THEN Array(InsertAt(v.e, Index(token), w))
    ELSE Nothing

(* The path of insert_at() that creates what is missing, from the root     *)
(* down: objects only, and a null becomes one.  What it has created when   *)
(* it fails it leaves, and at a last token that is empty it stops short    *)
(* without the value.                                                      *)
RECURSIVE CreateAt(_, _, _)
CreateAt(v, path, w) ==
    LET token == Head(path)
        here == IF v = Null THEN EmptyObject ELSE v
    IN IF token = Malformed THEN Failed(v)
       ELSE IF Len(path) = 1
       THEN LET r == Inserted(here, token, w) IN IF r = Nothing THEN Failed(here) ELSE Done(r)
       ELSE LET child == Child(here, token) IN
            IF child = Nothing /\ ~IsObject(here) THEN Failed(here)
            ELSE LET below == IF child = Nothing THEN EmptyObject ELSE child
                     r == IF Tail(path) = <<"">> THEN Done(below) ELSE CreateAt(below, Tail(path), w)
                 IN [r EXCEPT !.document = WithChild(here, token, @)]

InsertedAt(v, path, w, create) ==
    LET parent == Parent(v, path)
        r == Inserted(parent, Last(path), w)
    IN IF path = <<>> THEN Done(w)
       ELSE IF parent = Nothing THEN IF create THEN CreateAt(v, path, w) ELSE Failed(v)
       ELSE IF r = Nothing THEN Failed(v) ELSE Done(Assign(v, Front(path), r))

\* remove_at()
RemovedAt(v, path) ==
    LET parent == Parent(v, path)
        token == Last(path)
    IN IF parent = Nothing THEN Failed(v)
       ELSE IF Child(parent, token) = Nothing THEN Failed(v)
       ELSE Done(Assign(v, Front(path),
                IF IsObject(parent) THEN Object([k \in DOMAIN parent.m \ {token} |-> parent.m[k]])
                ELSE Array(RemoveAt(parent.e, Index(token)))))

-----------------------------------------------------------------------------
(* The operations.                                                         *)

Op(op, path, value, from) == [op |-> op, path |-> path, value |-> value, from |-> from]
NoPath == <<"no", "from">>
IsInto(path, from) == Len(path) > Len(from) /\ SubSeq(path, 1, Len(from)) = from

\* Faulty apply_move(): the place is looked up before the value is taken out.
MovedEarly(v, o, create) ==
    LET r == InsertedAt(v, o.path, At(v, o.from), create)
    IN IF IsInto(o.path, o.from) \/ ~RemovedAt(v, o.from).ok \/ ~r.ok THEN Failed(v)
       ELSE RemovedAt(r.document, o.from)

\* A value cannot move into itself.  It is taken out first, and lost if it cannot be put back in.
Moved(v, o, create) ==
    LET removed == RemovedAt(v, o.from) IN
    IF IsInto(o.path, o.from) \/ ~removed.ok THEN Failed(v)
    ELSE InsertedAt(removed.document, o.path, At(v, o.from), create)

Applied(v, o, create) ==
    LET there == At(v, o.path) IN
    CASE o.op \in {"add", "replace", "test"} /\ o.value = Nothing -> Failed(v)
      [] o.op \in {"move", "copy"} /\ o.from = NoPath -> Failed(v)
      [] o.op = "add" /\ o.value # Nothing -> InsertedAt(v, o.path, o.value, create)
      [] o.op = "remove" -> RemovedAt(v, o.path)
      [] o.op = "replace" /\ o.value # Nothing ->
            IF there = Nothing THEN Failed(v) ELSE Done(Assign(v, o.path, o.value))
      [] o.op = "move" /\ o.from # NoPath -> Moved(v, o, create)
      [] o.op = "copy" /\ o.from # NoPath ->
            IF At(v, o.from) = Nothing THEN Failed(v) ELSE InsertedAt(v, o.path, At(v, o.from), create)
      [] o.op = "test" /\ o.value # Nothing -> IF there = o.value THEN Done(v) ELSE Failed(v)

-----------------------------------------------------------------------------
(* diff()                                                                  *)

RemoveOp(path) == Op("remove", path, Nothing, NoPath)
AddOp(path, v) == Op("add", path, v, NoPath)
ReplaceOp(path, v) == Op("replace", path, v, NoPath)

\* Faulty: elements too many are removed from the first on.
RemovalsForward(path, from, to) == [i \in 1..(to - from) |-> RemoveOp(Append(path, Digits[from + i]))]

\* Elements too many are removed from the last one back.
Removals(path, from, to) == [i \in 1..(to - from) |-> RemoveOp(Append(path, Digits[to + 1 - i]))]

RECURSIVE Diff(_, _, _)
Diff(s, t, path) ==
    IF s.type # t.type THEN <<ReplaceOp(path, t)>>
    ELSE IF IsObject(s) THEN
        LET gone == SetToSeq(DOMAIN s.m \ DOMAIN t.m)
            keys == SetToSeq(DOMAIN t.m)
            Of(k) == IF k \in DOMAIN s.m THEN Diff(s.m[k], t.m[k], Append(path, k)) ELSE <<AddOp(Append(path, k), t.m[k])>>
        IN [i \in DOMAIN gone |-> RemoveOp(Append(path, gone[i]))] \o FlattenSeq([i \in DOMAIN keys |-> Of(keys[i])])
    ELSE IF IsArray(s) THEN
        LET common == IF Len(s.e) < Len(t.e) THEN Len(s.e) ELSE Len(t.e)
            Of(i) == Diff(s.e[i], t.e[i], Append(path, Digits[i]))
            more == [i \in 1..(Len(t.e) - common) |-> AddOp(Append(path, Digits[common + i]), t.e[common + i])]
        IN FlattenSeq([i \in 1..common |-> Of(i)]) \o more \o Removals(path, common, Len(s.e))
    ELSE IF s = t THEN <<>> ELSE <<ReplaceOp(path, t)>>

-----------------------------------------------------------------------------
(* Merge patches.                                                          *)

RECURSIVE MergePatch(_, _)
MergePatch(v, patch) ==
    IF ~IsObject(patch) THEN patch
    ELSE LET was == IF IsObject(v) THEN v ELSE EmptyObject
             kept == {k \in DOMAIN was.m \cup DOMAIN patch.m : k \in DOMAIN patch.m => patch.m[k] # Null}
             Of(k) == IF k \notin DOMAIN patch.m THEN was.m[k]
                      ELSE IF ~IsObject(patch.m[k]) THEN patch.m[k]
                      ELSE MergePatch(IF k \in DOMAIN was.m THEN was.m[k] ELSE Null, patch.m[k])
         IN Object([k \in kept |-> Of(k)])

\* Faulty: what is gone is forgotten.
NewOrModified(s, t) == {k \in DOMAIN t.m : k \in DOMAIN s.m => s.m[k] # t.m[k]}

\* The keys of the members that are gone, new or not equal.
Changed(s, t) == {k \in DOMAIN s.m \cup DOMAIN t.m : k \in DOMAIN s.m \cap DOMAIN t.m => s.m[k] # t.m[k]}

\* Two objects are compared in their turn.
RECURSIVE MergeDiff(_, _)
MergeDiff(s, t) ==
    IF ~IsObject(s) \/ ~IsObject(t) THEN t
    ELSE LET Of(k) == IF k \notin DOMAIN t.m THEN Null
                      ELSE IF k \notin DOMAIN s.m THEN t.m[k]
                      ELSE IF IsObject(s.m[k]) /\ IsObject(t.m[k]) THEN MergeDiff(s.m[k], t.m[k])
                      ELSE t.m[k]
         IN Object([k \in Changed(s, t) |-> Of(k)])

-----------------------------------------------------------------------------
Opts == [atomic : BOOLEAN, create_intermediate : BOOLEAN]

Init ==
    /\ \/ /\ source \in Documents /\ target \in Documents /\ kind = "diff"
          /\ ops = Diff(source, target, <<>>)
       \/ source \in Documents /\ target \in Documents /\ kind = "merge" /\ ops = <<>>
       \/ source \in Sources /\ target = Nothing /\ kind = "script" /\ ops \in Scripts
    /\ opts \in IF kind = "script" THEN Opts ELSE {[atomic |-> TRUE, create_intermediate |-> FALSE]}
    /\ document = source /\ next = 1 /\ status = "running"

\* One turn of the loop of patch().
Apply ==
    /\ status = "running" /\ kind # "merge" /\ next <= Len(ops)
    /\ LET r == Applied(document, ops[next], opts.create_intermediate) IN
       \/ r.ok /\ document' = r.document /\ UNCHANGED status
       \/ /\ ~r.ok /\ status' = "error"
          /\ document' = IF opts.atomic THEN source ELSE r.document
    /\ next' = next + 1
    /\ UNCHANGED <<source, target, kind, ops, opts>>

Finish ==
    /\ status = "running" /\ kind # "merge" /\ next > Len(ops)
    /\ status' = "ok"
    /\ UNCHANGED <<document, source, target, kind, ops, next, opts>>

\* merge_patch() with what merge_diff() made.
Merge ==
    /\ status = "running" /\ kind = "merge"
    /\ document' = MergePatch(document, MergeDiff(source, target)) /\ status' = "ok"
    /\ UNCHANGED <<source, target, kind, ops, next, opts>>

Next == Apply \/ Finish \/ Merge
Spec == Init /\ [][Next]_vars

-----------------------------------------------------------------------------
(* A diff leads from its source to its target, and no operation of it      *)
(* fails: each is applied to a document that those before it have changed, *)
(* and an index means what it meant (diff_impl, patch).                    *)
DiffRoundTrips == kind = "diff" => status # "error" /\ (status = "ok" => document = target)

(* add, copy and move put the value where the pointer says, in the         *)
(* document as it is when it is put there, and change nothing else where   *)
(* they add an element to an array or a new member to an object that is    *)
(* there: to remove it again gives that document (insert_at, apply_move).  *)
(* Where a member is overwritten or objects are created on the way, only   *)
(* what is at the pointer is looked at; the path "", which replaces the    *)
(* whole document, is left out, and so is the one place that insert_at()   *)
(* misses: it creates what is missing on the way to a last token that is   *)
(* empty, and stops short.                                                 *)
InsertionIsExact ==
    [][LET o == ops[next]
           before == IF o.op = "move" THEN RemovedAt(document, o.from).document ELSE document
           parent == Parent(before, o.path)
           there == IF IsArray(parent) /\ Last(o.path) = "-" THEN Append(Front(o.path), Digits[Len(parent.e) + 1])
                    ELSE o.path
       IN Apply /\ status' = "running" /\ o.op \in {"add", "copy", "move"} /\ o.path # <<>>
          /\ ~(parent = Nothing /\ Last(o.path) = "") =>
            /\ At(document', there) = IF o.op = "add" THEN o.value ELSE At(document, o.from)
            /\ parent # Nothing /\ (IsArray(parent) \/ Child(parent, Last(o.path)) = Nothing)
                    => RemovedAt(document', there).document = before]_vars

\* Without null among the members of an object, which a merge patch cannot give them.
RECURSIVE Plain(_)
Plain(v) == IsObject(v) => \A k \in DOMAIN v.m : v.m[k] # Null /\ Plain(v.m[k])

(* A merge diff leads from its source to its target wherever a merge patch *)
(* can (merge_diff_impl, apply_merge_patch_impl).                          *)
MergeRoundTrips == kind = "merge" /\ status = "ok" /\ Plain(target) => document = target
=============================================================================
