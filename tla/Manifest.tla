------------------------------ MODULE Manifest ------------------------------
(***************************************************************************)
(* The manifests and change lists of the WTF client (Asst3/common/util.c). *)
(*                                                                         *)
(* A manifest is a version and its items in the order of cmp_compare: a    *)
(* file's name, its own version and the hash of its content.  Names are    *)
(* numbers in that order, contents are positive numbers, and 0 is the hash *)
(* "0" of a file that was added and never pushed.  A working tree maps     *)
(* every name to the content there, or to Missing.                         *)
(***************************************************************************)
EXTENDS Integers, Sequences, SequencesExt

NoHash == 0
Missing == -1

Item(name, ver, hash) == [name |-> name, ver |-> ver, hash |-> hash]
Manifest(ver, items) == [ver |-> ver, items |-> items]
EmptyManifest == Manifest(0, << >>)    \* what create writes

NamesOf(items) == {items[i].name : i \in DOMAIN items}

\* The entries of s at the places in keep, in their order.
Filter(s, keep) ==
    LET Rest[i \in 1..(Len(s) + 1)] ==
            IF i = Len(s) + 1 THEN << >>
            ELSE (IF i \in keep THEN <<s[i]>> ELSE << >>) \o Rest[i + 1]
    IN  Rest[1]

\* add: the new item, at its place.
ItemAppended(items, new) == Append(items, new)    \* variant: not sorted
WithItem(items, new) ==
    Filter(items, {i \in DOMAIN items : items[i].name < new.name}) \o <<new>>
        \o Filter(items, {i \in DOMAIN items : items[i].name > new.name})

\* remove
WithoutItem(items, name) == Filter(items, {i \in DOMAIN items : items[i].name # name})

\* make_new_manifest: the items whose files are still there.  Their newhash is
\* the content of the file.
Kept(items, tree) == Filter(items, {i \in DOMAIN items : tree[items[i].name] # Missing})

----------------------------------------------------------------------------
(* compareManifest, as update, commit and push call it: two sorted lists,  *)
(* is_commit = 1.                                                          *)

Upload == 1      \* U: the client has it, or another content of it
Modified == 2    \* M: changed by the server only
Added == 3       \* A: the server has it, the client does not
Deleted == 4     \* D: the client has it, the server does not
Conflict == 6

\* An entry points to an item of one of the lists.  changecode is a field of
\* the item, so two entries for one item share the code assigned last.
Mark(side, at, code) == [side |-> side, at |-> at, code |-> code]

ConflictTheirs == Added      \* variant: a conflict is settled for the server
ConflictCode == Conflict
OnlyServerDeleted == Deleted \* variant: added and deleted confused
AddedCode == Added

\* A turn of a merge of two lists: what it makes, and the places it goes on to.
Turn(made, i, j) == [made |-> made, to |-> <<i, j>>]

MergeTurn(mine, theirs, tree, at) ==
    LET c == mine.items
        s == theirs.items
        same == mine.ver = theirs.ver
        i == at[1]
        j == at[2]
        new == tree[c[i].name]
    IN  IF j <= Len(s) /\ (i > Len(c) \/ c[i].name > s[j].name)
        THEN Turn(<<Mark("server", j, AddedCode)>>, i, j + 1)
        ELSE IF j > Len(s) \/ c[i].name < s[j].name
        THEN Turn(<<Mark("client", i, IF same THEN Upload ELSE Deleted)>>, i + 1, j)
        ELSE IF same /\ new # s[j].hash
        THEN Turn(<<Mark("client", i, Upload)>>, i + 1, j + 1)
        ELSE IF ~same /\ c[i].ver # s[j].ver /\ new = c[i].hash
        THEN Turn(<<Mark("server", i, Modified)>>, i + 1, j + 1)    \* i, not j
        ELSE IF new = s[j].hash THEN Turn(<< >>, i + 1, j + 1)
        ELSE Turn(<<Mark("server", j, ConflictCode)>>, i, j + 1)

MergeWalk(mine, theirs, tree) ==
    LET Walk[at \in (1..(Len(mine.items) + 1)) \X (1..(Len(theirs.items) + 1))] ==
            IF at = <<Len(mine.items) + 1, Len(theirs.items) + 1>> THEN << >>
            ELSE LET turn == MergeTurn(mine, theirs, tree, at) IN turn.made \o Walk[turn.to]
    IN  Walk

Marks(mine, theirs, tree) == MergeWalk(mine, theirs, tree)[<<1, 1>>]

HasConflict(marks) == \E k \in DOMAIN marks : marks[k].code = Conflict

\* An entry behind the end of the server's list: the program does not survive
\* the write to it.
Wild(marks, theirs) ==
    \E k \in DOMAIN marks : marks[k].side = "server" /\ marks[k].at > Len(theirs.items)

CodeOf(marks, k) ==
    LET Same(l) == marks[l].side = marks[k].side /\ marks[l].at = marks[k].at
    IN  marks[CHOOSE l \in DOMAIN marks :
                  Same(l) /\ \A m \in DOMAIN marks : Same(m) => m <= l].code

\* The change list compareManifest returns.
ChangeList(marks, mine, theirs) ==
    [k \in DOMAIN marks |->
        LET m == marks[k]
            item == IF m.side = "server" THEN theirs.items[m.at] ELSE mine.items[m.at]
        IN  [code |-> CodeOf(marks, k), name |-> item.name]]

\* writeChangeLogFile keeps A, D, and M for .Update, U for .Commit.
WithoutModified == {Added, Deleted}    \* variant: M is not written
UpdateCodes == {Modified, Added, Deleted}
CommitCodes == {Upload, Added, Deleted}
Written(list, codes) == Filter(list, {k \in DOMAIN list : list[k].code \in codes})

----------------------------------------------------------------------------
(* proecessManifest_ByChangelist_Push: the items of the version to push.   *)

Outside == 0    \* an item behind the end of the array

\* A position of the new list: the old item there, whether its file version goes
\* up and whether its hash becomes that of its file.
BumpNone(at) == [at |-> at, bump |-> FALSE, fresh |-> TRUE]    \* variant: version_num++ forgotten
Bumped(at) == [at |-> at, bump |-> TRUE, fresh |-> TRUE]

PushTurn(items, list, at) ==
    LET n == Len(items)
        Stay(m) == [at |-> m, bump |-> FALSE, fresh |-> TRUE]
        AsIs(m) == [at |-> m, bump |-> FALSE, fresh |-> FALSE]
        k == at[1]
        m == at[2]
        e == list[k]
    IN  IF k > Len(list) THEN Turn(<<Stay(m)>>, k, m + 1)
        ELSE IF e.code = Added THEN Turn(<< >>, k + 1, m)
        ELSE IF m > n THEN Turn(<<AsIs(Outside)>>, Len(list) + 1, m)
        ELSE IF items[m].name < e.name THEN Turn(<<Stay(m)>>, k, m + 1)
        ELSE IF items[m].name = e.name
        THEN IF e.code = Upload THEN Turn(<<Bumped(m)>>, k + 1, m + 1)
             ELSE Turn(<< >>, k + 1, m)
        ELSE IF e.code = Deleted
        THEN Turn(<<AsIs(IF k <= n THEN k ELSE Outside)>>, k + 1, m)
        ELSE Turn(<< >>, k + 1, m)

PushWalk(items, list) ==
    LET Walk[at \in (1..(Len(list) + 1)) \X (1..(Len(items) + 1))] ==
            IF at = <<Len(list) + 1, Len(items) + 1>> THEN << >>
            ELSE LET turn == PushTurn(items, list, at) IN turn.made \o Walk[turn.to]
    IN  Walk

Places(items, list) == PushWalk(items, list)[<<1, 1>>]

PushFaults(items, list) ==
    LET places == Places(items, list) IN \E k \in DOMAIN places : places[k].at = Outside

HashAsAdded(item, tree) == item.hash    \* variant: the old hash stays
HashNow(item, tree) == tree[item.name]

\* Two positions with one item share what happens to it.
PushItems(items, list, tree) ==
    LET places == Places(items, list)
        Bump(at) == \E k \in DOMAIN places : places[k].at = at /\ places[k].bump
        Fresh(at) == \E k \in DOMAIN places : places[k].at = at /\ places[k].fresh
    IN  [k \in DOMAIN places |->
            LET at == places[k].at
                item == items[at]
            IN  Item(item.name,
                     item.ver + IF Bump(at) THEN 1 ELSE 0,
                     IF Fresh(at) THEN HashNow(item, tree) ELSE item.hash)]
=============================================================================
