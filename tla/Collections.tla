---------------------------- MODULE Collections ----------------------------
(***************************************************************************)
(* What a program sees of its arrays and dictionaries: every array is a    *)
(* list of values, every dictionary a map from keys to values, and one     *)
(* statement edits at most one of them, by one edit.  Boxes, numeric       *)
(* storage, parallel arrays and reference counts are not here.             *)
(***************************************************************************)
EXTENDS SequencesExt

CONSTANT Converted(_)  \* a value as an array of whole numbers would hold it

VARIABLES
  held,   \* the values of the variables
  lists,  \* the contents of every array, by its name
  maps    \* the contents of every dictionary, by its name

contents == <<lists, maps>>

\* What a statement can store: the value of a variable.
Stored == held \cup {Converted(v) : v \in held}

\* One element is added, removed or replaced, or all are removed.
EditedList(s, t) ==
  \/ t \in {s, <<>>}
  \/ \E i \in DOMAIN t : t[i] \in Stored /\ t = InsertAt(s, i, t[i])
  \/ \E i \in DOMAIN s : t = RemoveAt(s, i)
  \/ DOMAIN s = DOMAIN t /\ \E i \in DOMAIN s : t[i] \in Stored /\ t = ReplaceAt(s, i, t[i])

\* One key is given a value or removed, or all are.
EditedMap(f, g) ==
  \/ DOMAIN g = {} \/ f = g
  \/ \E k \in Stored : k \in DOMAIN g /\ g[k] \in Stored /\ g = (k :> g[k]) @@ f
  \/ \E k \in DOMAIN f : g = Restrict(f, DOMAIN f \ {k})

Init == lists = <<>> /\ maps = <<>>

\* New ones may appear, and those nothing refers to are gone.
Statement ==
  \E o \in DOMAIN lists \cup DOMAIN maps \cup {0} :
    /\ \A p \in DOMAIN lists \cap DOMAIN lists' :
         IF p = o THEN EditedList(lists[p], lists'[p]) ELSE lists'[p] = lists[p]
    /\ \A p \in DOMAIN maps \cap DOMAIN maps' :
         IF p = o THEN EditedMap(maps[p], maps'[p]) ELSE maps'[p] = maps[p]

Spec == Init /\ [][Statement]_contents
=============================================================================
