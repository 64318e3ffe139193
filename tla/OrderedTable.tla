---------------------------- MODULE OrderedTable ----------------------------
(***************************************************************************)
(* The bounded AVL table shared by the kernel and the user libraries       *)
(* (src/shared/ordered_table).  A node is the record of its key, its       *)
(* value, its cached height and its two links; the empty link is Nil.      *)
(* The value is only the visibility a caller scans for: TRUE once the      *)
(* entry is committed.  `ref' is the reference the tree is compared with:  *)
(* the function from the present keys to their values.                     *)
(***************************************************************************)
EXTENDS Integers, Sequences, FiniteSets

CONSTANTS Keys, Limit    \* the keys inserted; the capacity given to new(limit)

VARIABLES root, len, ref
vars == <<root, len, ref>>

Nil == [height |-> 0]

Larger(a, b) == IF a < b THEN b ELSE a

\* update_height: the cached height is recomputed from the links.
update_height(n) == [n EXCEPT !.height = 1 + Larger(n.left.height, n.right.height)]

rotate_left(n) ==
  update_height([n.right EXCEPT !.left = update_height([n EXCEPT !.right = n.right.left])])

rotate_right(n) ==
  update_height([n.left EXCEPT !.right = update_height([n EXCEPT !.left = n.left.right])])

\* Mutant: the inner rotation of the double rotation is forgotten.
rebalance_Single(node) ==
  LET n == update_height(node) IN
  IF n.left.height > n.right.height + 1 THEN rotate_right(n)
  ELSE IF n.right.height > n.left.height + 1 THEN rotate_left(n)
  ELSE n

rebalance(node) ==
  LET n == update_height(node) IN
  IF n.left.height > n.right.height + 1
    THEN rotate_right(IF n.left.left.height < n.left.right.height
                        THEN [n EXCEPT !.left = rotate_left(n.left)] ELSE n)
  ELSE IF n.right.height > n.left.height + 1
    THEN rotate_left(IF n.right.right.height < n.right.left.height
                       THEN [n EXCEPT !.right = rotate_right(n.right)] ELSE n)
  ELSE n

allocate_entry(k, v) == [key |-> k, value |-> v, height |-> 1, left |-> Nil, right |-> Nil]

RECURSIVE insert_node(_, _)
insert_node(r, n) ==
  IF r = Nil THEN n
  ELSE IF n.key < r.key THEN rebalance([r EXCEPT !.left = insert_node(r.left, n)])
  ELSE rebalance([r EXCEPT !.right = insert_node(r.right, n)])

\* take_min: the subtree without its least node, and that node.
RECURSIVE take_min(_)
take_min(n) ==
  IF n.left = Nil THEN <<n.right, n>>
  ELSE LET rest == take_min(n.left) IN <<rebalance([n EXCEPT !.left = rest[1]]), rest[2]>>

RECURSIVE remove_node(_, _)
remove_node(r, k) ==
  IF r = Nil THEN Nil
  ELSE IF k < r.key THEN rebalance([r EXCEPT !.left = remove_node(r.left, k)])
  ELSE IF k > r.key THEN rebalance([r EXCEPT !.right = remove_node(r.right, k)])
  ELSE IF r.left = Nil THEN r.right
  ELSE IF r.right = Nil THEN r.left
  ELSE LET rest == take_min(r.right) IN
       rebalance([rest[2] EXCEPT !.left = r.left, !.right = rest[1]])

\* get_by: the value found by the descent, as a set of at most one value.
RECURSIVE get_by(_, _)
get_by(n, k) ==
  IF n = Nil THEN {}
  ELSE IF k < n.key THEN get_by(n.left, k)
  ELSE IF k > n.key THEN get_by(n.right, k)
  ELSE {n.value}

RECURSIVE get_mut(_, _, _)
get_mut(n, k, v) ==
  IF k < n.key THEN [n EXCEPT !.left = get_mut(n.left, k, v)]
  ELSE IF k > n.key THEN [n EXCEPT !.right = get_mut(n.right, k, v)]
  ELSE [n EXCEPT !.value = v]

\* next_after: the least key above the cursor, found by descending once.
RECURSIVE next_after(_, _, _)
next_after(n, cursor, found) ==
  IF n = Nil THEN found
  ELSE IF n.key > cursor THEN next_after(n.left, cursor, {n.key})
  ELSE next_after(n.right, cursor, found)

\* scan_visible: acc is <<keys copied out, stopped early>>; the scan stops for
\* good at the first entry that does not fit or is not visible yet.
\* Mutant: an invisible entry is skipped and the scan goes on behind it.
RECURSIVE scan_Past(_, _, _, _)
scan_Past(n, cursor, size, acc) ==
  IF n = Nil \/ acc[2] THEN acc
  ELSE IF n.key <= cursor THEN scan_Past(n.right, cursor, size, acc)
  ELSE LET l == scan_Past(n.left, cursor, size, acc) IN
       IF l[2] THEN l
       ELSE IF Len(l[1]) = size THEN <<l[1], TRUE>>
       ELSE scan_Past(n.right, cursor, size,
                      IF n.value THEN <<Append(l[1], n.key), FALSE>> ELSE l)

RECURSIVE scan(_, _, _, _)
scan(n, cursor, size, acc) ==
  IF n = Nil \/ acc[2] THEN acc
  ELSE IF n.key <= cursor THEN scan(n.right, cursor, size, acc)
  ELSE LET l == scan(n.left, cursor, size, acc) IN
       IF l[2] THEN l
       ELSE IF Len(l[1]) = size \/ ~n.value THEN <<l[1], TRUE>>
       ELSE scan(n.right, cursor, size, <<Append(l[1], n.key), FALSE>>)

scan_visible(cursor, size) == scan(root, cursor, size, <<<<>>, FALSE>>)

-----------------------------------------------------------------------------
Init == root = Nil /\ len = 0 /\ ref = <<>>

\* try_insert: prepare_insert refuses a full table; a key present is a caller bug.
try_insert(k) ==
  /\ len # Limit
  /\ get_by(root, k) = {}
  /\ root' = insert_node(root, allocate_entry(k, FALSE))
  /\ len' = len + 1
  /\ ref' = [x \in DOMAIN ref \cup {k} |-> IF x = k THEN FALSE ELSE ref[x]]

\* prepare_insert_candidate and the insertion of the candidate it replaces: at a
\* full table a candidate for a present key takes the capacity its removal frees.
replace(k) ==
  /\ get_by(root, k) # {}
  /\ root' = insert_node(remove_node(root, k), allocate_entry(k, FALSE))
  /\ ref' = [ref EXCEPT ![k] = FALSE]
  /\ UNCHANGED len

remove(k) ==
  /\ root' = remove_node(root, k)
  /\ len' = IF get_by(root, k) = {} THEN len ELSE len - 1
  /\ ref' = [x \in DOMAIN ref \ {k} |-> ref[x]]

pop_first ==
  /\ root # Nil
  /\ root' = take_min(root)[1]
  /\ len' = len - 1
  /\ ref' = [x \in DOMAIN ref \ {take_min(root)[2].key} |-> ref[x]]

commit(k) ==
  /\ get_by(root, k) = {FALSE}
  /\ root' = get_mut(root, k, TRUE)
  /\ ref' = [ref EXCEPT ![k] = TRUE]
  /\ UNCHANGED len

Next ==
  \/ \E k \in Keys : try_insert(k) \/ replace(k) \/ remove(k) \/ commit(k)
  \/ pop_first

Spec == Init /\ [][Next]_vars

-----------------------------------------------------------------------------
RECURSIVE Nodes(_)
Nodes(n) == IF n = Nil THEN <<>> ELSE Nodes(n.left) \o <<n>> \o Nodes(n.right)

\* After any sequence of insertions, replacements, removals and pops the tree
\* holds exactly the keys and values of the reference in order, every node is
\* balanced with a correct cached height, and len counts the entries.
TreeIsTable ==
  LET s == Nodes(root) IN
  /\ {s[i].key : i \in DOMAIN s} = DOMAIN ref
  /\ Len(s) = len /\ len <= Limit
  /\ \A i \in DOMAIN s :
       /\ s[i].value = ref[s[i].key] /\ get_by(root, s[i].key) = {s[i].value}
       /\ i > 1 => s[i - 1].key < s[i].key
       /\ s[i].height = 1 + Larger(s[i].left.height, s[i].right.height)
       /\ s[i].left.height - s[i].right.height \in -1 .. 1

\* From every cursor, next_after answers the least larger key, and scan_visible
\* answers the longest run of committed keys that fits, saying "more" exactly
\* when an entry above the run remains: no page steps over an entry still in
\* preparation, and no page ends the enumeration early.
ScansExact ==
  \A c \in Keys \cup {0} :
    LET above == {k \in DOMAIN ref : k > c} IN
    /\ next_after(root, c, {}) = {k \in above : \A j \in above : k <= j}
    /\ \A size \in 0 .. 2 :
         LET page == scan_visible(c, size)
             got == {page[1][i] : i \in DOMAIN page[1]}
         IN /\ got = {k \in above : /\ Cardinality({j \in above : j <= k}) <= size
                                    /\ \A j \in above : j <= k => ref[j]}
            /\ page[2] = (got # above)
            /\ \A i \in 2 .. Len(page[1]) : page[1][i - 1] < page[1][i]
=============================================================================
