---------------------------- MODULE WTFSyncProofs ----------------------------
(***************************************************************************)
(* What is proved of WTFSync, with replies lost at will, for any number of *)
(* clients, files, contents, versions and edits.                           *)
(*                                                                         *)
(* Of users who finish what they begin (no command between update and      *)
(* upgrade, none between commit and push) and never roll the project back, *)
(* the invariant says that every version's manifest, archive and .Commit   *)
(* agree with each other and with the version before, which version every  *)
(* working copy comes from, and that the files a command leaves for the    *)
(* next one are what the merge of the copy with a version of the server    *)
(* makes, still.                                                           *)
(*                                                                         *)
(* Of all users, whatever they do in whatever order, the last section says *)
(* that what is stored has the files and hashes of its manifest.           *)
(***************************************************************************)
EXTENDS WTFSync, ManifestProofs

\* Users finish what they begin, and nobody rolls the project back.
Orderly == "stale" \notin Mishaps /\ "rollback" \notin Mishaps

Trees == [Names -> Contents \cup {Missing}]

\* The manifest of version v of the versions r.
At(r, v) == IF v = 0 THEN EmptyManifest ELSE r[v].man

Sound(man) ==
    /\ man = Manifest(man.ver, man.items)
    /\ man.ver \in 0..MaxVersions
    /\ man.items \in Seq(Items) /\ Ordered(man.items)
    /\ \A item \in Range(man.items) : item.ver <= man.ver

----------------------------------------------------------------------------
(* The versions. *)

\* The manifest has the hashes of the files, and every item is one of a file.
Stored(version, n) ==
    /\ Sound(version.man) /\ version.man.ver = n
    /\ DOMAIN version.files = NamesOf(version.man.items)
    /\ \A item \in Range(version.man.items) :
          item.hash \in Contents /\ version.files[item.name] = item.hash

\* The list of .Commit says what became of the items old.
Told(old, new, list) ==
    /\ list \in Seq(Range(list))
    /\ \A f : Listed(list, Added, f) <=> f \in NamesOf(old) \ NamesOf(new)
    /\ \A f : Listed(list, Upload, f)
              <=> /\ f \in NamesOf(new)
                  /\ \A o \in Range(old), w \in Range(new) :
                        o.name = f /\ w.name = f => o.hash # w.hash

\* File versions count the contents.
Counted(old, new) ==
    \A o \in Range(old), w \in Range(new) :
        o.name = w.name => (o.ver = w.ver <=> o.hash = w.hash)

History(r) ==
    /\ r \in Seq(Range(r)) /\ Len(r) <= MaxVersions
    /\ \A n \in 1..Len(r) :
          /\ Stored(r[n], n)
          /\ Told(At(r, n - 1).items, r[n].man.items, r[n].com.items)
          /\ "readd" \notin Mishaps => Counted(At(r, n - 1).items, r[n].man.items)

----------------------------------------------------------------------------
(* The working copies. *)

\* An item of its own, which the server's newest version does not have unless users add
\* again what is there.
Fresh(r, v, item) ==
    /\ item.ver = 0 /\ item.hash = NoHash
    /\ "readd" \notin Mishaps /\ v = Len(r) => item.name \notin NamesOf(At(r, v).items)

\* The manifest is that of a version but for items of its own.
Tracked(r, man) ==
    /\ Sound(man) /\ man.ver <= Len(r)
    /\ \A item \in Range(man.items) :
          item \in Range(At(r, man.ver).items) \/ Fresh(r, man.ver, item)

Mine(d) == Manifest(d.man.ver, Kept(d.man.items, d.tree))

\* .Update is what update made of the copy and the version it names.
Updated(r, d) ==
    LET theirs == At(r, d.upd.ver)
        marks == Marks(Mine(d), theirs, d.tree)
        list == ChangeList(marks, Mine(d), theirs)
    IN  /\ d.man # None /\ d.upd.ver \in 0..Len(r)
        /\ ~HasConflict(marks)
        /\ \A k \in DOMAIN list : list[k].code # Upload
        /\ d.upd = Manifest(d.upd.ver, Written(list, UpdateCodes))

\* .Server is a version, and .Commit what commit made of the copy and that version.
Committed(r, d) ==
    LET marks == Marks(d.man, d.srv, d.tree)
    IN  /\ d.srv.ver \in 0..Len(r) /\ d.srv = At(r, d.srv.ver)
        /\ d.man.ver <= d.srv.ver
        /\ Kept(d.man.items, d.tree) = d.man.items
        /\ ~HasConflict(marks)
        /\ d.com = Manifest(d.srv.ver, Written(ChangeList(marks, d.man, d.srv), CommitCodes))

\* A working copy after the command named last.
Held(r, d, last) ==
    /\ d = [tree |-> d.tree, man |-> d.man, upd |-> d.upd, com |-> d.com, srv |-> d.srv]
    /\ d.tree \in Trees
    /\ d.man # None => Tracked(r, d.man)
    /\ d.srv # None => Sound(d.srv)
    /\ last = "update" => Updated(r, d)
    /\ last = "commit" => Committed(r, d)

LastCommands == {"none", "update", "commit"}

SyncInv ==
    /\ History(repo)
    /\ copy = [c \in Clients |-> copy[c]]
    /\ ready \in [Clients -> LastCommands]
    /\ \A c \in Clients : Held(repo, copy[c], ready[c])
    /\ edits \in 0..MaxEdits

----------------------------------------------------------------------------
(* Versions of the server. *)

LEMMA EmptySound == Sound(EmptyManifest) /\ EmptyManifest.ver = 0
  <1>1. EmptyManifest = Manifest(0, << >>) /\ Manifest(0, << >>).ver = 0
        /\ Manifest(0, << >>).items = << >>
    BY DEF EmptyManifest, Manifest
  <1>2. << >> \in Seq(Items) /\ Len(<< >>) = 0 /\ DOMAIN << >> = {}
    OBVIOUS
  <1>3. Ordered(<< >>) /\ Range(<< >>) = {}
    BY <1>2 DEF Ordered, Range
  <1>4. 0 \in 0..MaxVersions
    BY SyncAssumption DEF SyncAssumption
  <1>5. Sound(Manifest(0, << >>))
    BY <1>1, <1>2, <1>3, <1>4 DEF Sound
  <1> QED
    BY <1>1, <1>5

LEMMA AtSound ==
    ASSUME NEW r, History(r), NEW v \in 0..Len(r)
    PROVE  Sound(At(r, v)) /\ At(r, v).ver = v
  <1>1. CASE v = 0
    BY <1>1, EmptySound DEF At
  <1>2. CASE v # 0
    <2>1. Len(r) \in Nat
      BY DEF History
    <2>2. v \in 1..Len(r)
      BY <1>2, <2>1
    <2> QED
      BY <1>2, <2>2 DEF At, History, Stored
  <1> QED
    BY <1>1, <1>2

LEMMA ServerSound ==
    ASSUME History(repo)
    PROVE  /\ ServerManifest = At(repo, Len(repo)) /\ Len(repo) \in Nat
           /\ Sound(ServerManifest) /\ ServerManifest.ver = Len(repo)
  <1>1. Len(repo) \in Nat /\ Len(repo) \in 0..Len(repo) /\ (repo = << >> <=> Len(repo) = 0)
    BY DEF History
  <1>2. ServerManifest = At(repo, Len(repo))
    BY <1>1 DEF ServerManifest, At
  <1> QED
    BY <1>1, <1>2, AtSound

\* Items of a manifest are found by their names.
LEMMA NamedIn ==
    ASSUME NEW items
    PROVE  \A f : f \in NamesOf(items) <=> \E n \in Range(items) : n.name = f
  BY DEF NamesOf, Range

LEMMA OneItem ==
    ASSUME NEW man, Sound(man), NEW m \in Range(man.items), NEW n \in Range(man.items),
           m.name = n.name
    PROVE  m = n
  <1>1. man.items \in Seq(Items) /\ Ordered(man.items)
    BY DEF Sound
  <1>2. PICK x \in 1..Len(man.items) : m = man.items[x]
    BY <1>1, InRange
  <1>3. PICK y \in 1..Len(man.items) : n = man.items[y]
    BY <1>1, InRange
  <1>4. x = y
    BY <1>1, <1>2, <1>3, OneName
  <1> QED
    BY <1>2, <1>3, <1>4

LEMMA ItemFound ==
    ASSUME NEW man, Sound(man), NEW m \in Range(man.items)
    PROVE  ItemNamed(man, m.name) = m
  <1> DEFINE Good(item) == item \in Range(man.items) /\ item.name = m.name
  <1>1. Good(ItemNamed(man, m.name))
    BY DEF ItemNamed
  <1> QED
    BY <1>1, OneItem

LEMMA SoundItem ==
    ASSUME NEW man, Sound(man), NEW m \in Range(man.items)
    PROVE  m \in Items /\ m.name \in Names /\ m.name \in Nat /\ m.ver \in Nat /\ m.ver <= man.ver
  <1>1. m \in Items /\ m.ver <= man.ver
    <2>1. PICK x \in 1..Len(man.items) : m = man.items[x]
      BY InRange DEF Sound
    <2> QED
      BY <2>1 DEF Sound
  <1>2. m.name \in Names /\ m.ver \in 0..MaxVersions
    BY <1>1 DEF Items
  <1>3. Names \subseteq Nat /\ MaxVersions \in Nat
    BY SyncAssumption DEF SyncAssumption
  <1>4. m.name \in Nat
    BY <1>2, SyncAssumption, Zenon DEF SyncAssumption
  <1>5. m.ver \in Nat
    BY <1>2, <1>3
  <1> QED
    BY <1>1, <1>2, <1>4, <1>5

\* A part of a manifest is one.
LEMMA PartSound ==
    ASSUME NEW man, Sound(man), NEW items \in Seq(Items), Ordered(items),
           \A n \in Range(items) : n \in Range(man.items)
    PROVE  Sound(Manifest(man.ver, items))
  BY DEF Sound, Manifest

LEMMA KeptSound ==
    ASSUME NEW man, Sound(man), NEW tree
    PROVE  /\ Sound(Manifest(man.ver, Kept(man.items, tree)))
           /\ Present(Kept(man.items, tree), man.items, tree)
  <1>1. /\ Kept(man.items, tree) \in Seq(Items) /\ Ordered(Kept(man.items, tree))
        /\ Present(Kept(man.items, tree), man.items, tree)
    BY KeptItems DEF Sound
  <1> QED
    BY <1>1, PartSound DEF Present

LEMMA AtGrown ==
    ASSUME NEW r, History(r), NEW version
    PROVE  /\ Len(Append(r, version)) = Len(r) + 1 /\ Len(r) \in Nat
           /\ \A n \in 1..Len(r) : Append(r, version)[n] = r[n]
           /\ Append(r, version)[Len(r) + 1] = version
           /\ \A v \in 0..Len(r) : At(Append(r, version), v) = At(r, v)
           /\ Append(r, version) \in Seq(Range(Append(r, version)))
  <1> DEFINE q == Append(r, version)
             V == Range(r) \cup {version}
  <1>1. r \in Seq(V) /\ version \in V
    BY DEF History
  <1> HIDE DEF V
  <1>2. /\ q \in Seq(V) /\ Len(q) = Len(r) + 1 /\ Len(r) \in Nat
        /\ \A n \in 1..Len(r) : q[n] = r[n]
        /\ q[Len(r) + 1] = version
    BY <1>1
  <1> HIDE DEF q
  <1>3. \A v \in 0..Len(r) : At(q, v) = At(r, v)
    <2> SUFFICES ASSUME NEW v \in 0..Len(r), v # 0 PROVE At(q, v) = At(r, v)
      BY DEF At
    <2>1. v \in 1..Len(r)
      BY <1>2
    <2> QED
      BY <1>2, <2>1 DEF At
  <1>4. q \in Seq(Range(q))
    <2>1. DOMAIN q = 1..Len(q) /\ Len(q) \in Nat /\ q = [n \in 1..Len(q) |-> q[n]]
      BY <1>2
    <2>2. \A n \in 1..Len(q) : q[n] \in Range(q)
      BY <2>1 DEF Range
    <2> QED
      BY <2>1, <2>2
  <1> QED
    BY <1>2, <1>3, <1>4 DEF q

----------------------------------------------------------------------------
(* Working copies from command to command. *)

\* What a working copy is stays true as the server gets versions.
LEMMA GrownHeld ==
    ASSUME NEW r, History(r), NEW version, NEW d, NEW last, Held(r, d, last)
    PROVE  Held(Append(r, version), d, last)
  <1> DEFINE q == Append(r, version)
  <1>1. /\ Len(q) = Len(r) + 1 /\ Len(r) \in Nat
        /\ \A v \in 0..Len(r) : At(q, v) = At(r, v)
    BY AtGrown
  <1> HIDE DEF q
  <1>2. ASSUME d.man # None
        PROVE  Tracked(q, d.man)
    <2>1. Tracked(r, d.man)
      BY <1>2 DEF Held
    <2>2. d.man.ver \in Nat /\ d.man.ver <= Len(r)
      BY <2>1, SyncAssumption DEF Tracked, Sound, SyncAssumption
    <2>3. At(q, d.man.ver) = At(r, d.man.ver) /\ d.man.ver # Len(q) /\ d.man.ver <= Len(q)
      BY <1>1, <2>2
    <2> QED
      BY <2>1, <2>3 DEF Tracked, Fresh
  <1>3. ASSUME last = "update"
        PROVE  Updated(q, d)
    <2>1. Updated(r, d)
      BY <1>3 DEF Held
    <2>2. d.upd.ver \in 0..Len(r)
      BY <2>1 DEF Updated
    <2>3. d.upd.ver \in 0..Len(q) /\ At(q, d.upd.ver) = At(r, d.upd.ver)
      BY <1>1, <2>2
    <2> QED
      BY <2>1, <2>3 DEF Updated
  <1>4. ASSUME last = "commit"
        PROVE  Committed(q, d)
    <2>1. Committed(r, d)
      BY <1>4 DEF Held
    <2>2. d.srv.ver \in 0..Len(r)
      BY <2>1 DEF Committed
    <2>3. d.srv.ver \in 0..Len(q) /\ At(q, d.srv.ver) = At(r, d.srv.ver)
      BY <1>1, <2>2
    <2> QED
      BY <2>1, <2>3 DEF Committed
  <1>5. Held(q, d, last)
    BY <1>2, <1>3, <1>4 DEF Held
  <1> QED
    BY <1>5 DEF q

\* To forget the files of other commands takes nothing from a copy.
LEMMA ReadableHeld ==
    ASSUME NEW r, NEW d, NEW last, Held(r, d, last)
    PROVE  /\ Held(r, Readable(d, last), last)
           /\ Readable(d, last).tree = d.tree /\ Readable(d, last).man = d.man
  <1> DEFINE e == Readable(d, last)
  <1>1. d = [tree |-> d.tree, man |-> d.man, upd |-> d.upd, com |-> d.com, srv |-> d.srv]
    BY DEF Held
  <1>2. CASE "stale" \in Mishaps
    BY <1>2 DEF Readable
  <1>3. CASE "stale" \notin Mishaps
    <2>1. e = [d EXCEPT !.upd = IF last = "update" THEN @ ELSE None,
                        !.com = IF last = "commit" THEN @ ELSE None,
                        !.srv = IF last = "commit" THEN @ ELSE None]
      BY <1>3 DEF Readable
    <2>2. e = [tree |-> d.tree, man |-> d.man,
               upd |-> IF last = "update" THEN d.upd ELSE None,
               com |-> IF last = "commit" THEN d.com ELSE None,
               srv |-> IF last = "commit" THEN d.srv ELSE None]
      BY <1>1, <2>1
    <2> HIDE DEF e
    <2>3. /\ e = [tree |-> e.tree, man |-> e.man, upd |-> e.upd, com |-> e.com, srv |-> e.srv]
          /\ e.tree = d.tree /\ e.man = d.man
          /\ last = "update" => e.upd = d.upd
          /\ last = "commit" => e.com = d.com /\ e.srv = d.srv
          /\ e.srv # None => e.srv = d.srv
      BY <2>2
    <2>4. last = "update" => Updated(r, e)
      BY <2>3 DEF Held, Updated, Mine
    <2>5. last = "commit" => Committed(r, e)
      BY <2>3 DEF Held, Committed
    <2>6. Held(r, e, last)
      BY <2>3, <2>4, <2>5 DEF Held
    <2> QED
      BY <2>3, <2>6 DEF e
  <1> QED
    BY <1>2, <1>3

\* A command that leaves its copy as it must keeps the invariant.
LEMMA LeftInv ==
    ASSUME SyncInv, NEW c \in Clients, NEW new, NEW next \in LastCommands, Leaves(c, new, next),
           History(repo'), Held(repo', new, next),
           repo' = repo \/ \E version : repo' = Append(repo, version)
    PROVE  SyncInv'
  <1>1. /\ copy' = [copy EXCEPT ![c] = Readable(new, next)]
        /\ ready' = [ready EXCEPT ![c] = next] /\ edits' = edits
    BY DEF Leaves
  <1>2. /\ copy = [b \in Clients |-> copy[b]] /\ ready \in [Clients -> LastCommands]
        /\ edits \in 0..MaxEdits /\ History(repo)
        /\ \A b \in Clients : Held(repo, copy[b], ready[b])
    BY DEF SyncInv
  <1>3. /\ copy' = [b \in Clients |-> copy'[b]] /\ ready' \in [Clients -> LastCommands]
        /\ copy'[c] = Readable(new, next) /\ ready'[c] = next
        /\ \A b \in Clients : b # c => copy'[b] = copy[b] /\ ready'[b] = ready[b]
    <2>1. DOMAIN copy = Clients
      BY <1>2
    <2> QED
      BY <1>1, <1>2, <2>1
  <1>4. ASSUME NEW b \in Clients
        PROVE  Held(repo', copy'[b], ready'[b])
    <2>1. CASE b = c
      <3>1. Held(repo', Readable(new, next), next)
        BY ReadableHeld
      <3> QED
        BY <1>3, <2>1, <3>1
    <2>2. CASE b # c
      <3>1. Held(repo, copy[b], ready[b])
        BY <1>2
      <3>2. Held(repo', copy[b], ready[b])
        BY <1>2, <3>1, GrownHeld
      <3> QED
        BY <1>3, <2>2, <3>2
    <2> QED
      BY <2>1, <2>2
  <1> QED
    BY <1>1, <1>2, <1>3, <1>4 DEF SyncInv

----------------------------------------------------------------------------
(* The commands. *)

\* A copy with another manifest.
LEMMA ManHeld ==
    ASSUME NEW r, NEW d, NEW last, Held(r, d, last), NEW man, Tracked(r, man)
    PROVE  Held(r, [d EXCEPT !.man = man], "none")
  <1> DEFINE e == [d EXCEPT !.man = man]
  <1>1. e = [tree |-> d.tree, man |-> man, upd |-> d.upd, com |-> d.com, srv |-> d.srv]
    BY DEF Held
  <1> HIDE DEF e
  <1>2. e.tree = d.tree /\ e.man = man /\ e.srv = d.srv
        /\ e = [tree |-> e.tree, man |-> e.man, upd |-> e.upd, com |-> e.com, srv |-> e.srv]
    BY <1>1
  <1>3. Held(r, e, "none")
    BY <1>2 DEF Held
  <1> QED
    BY <1>3 DEF e

LEMMA ItemsSet ==
    ASSUME NEW r, NEW d, NEW last, Held(r, d, last), d.man # None, NEW items
    PROVE  [d EXCEPT !.man.items = items] = [d EXCEPT !.man = Manifest(d.man.ver, items)]
  <1>1. d.man = [ver |-> d.man.ver, items |-> d.man.items]
    BY DEF Held, Tracked, Sound, Manifest
  <1>2. [d.man EXCEPT !.items = items] = Manifest(d.man.ver, items)
    BY <1>1 DEF Manifest
  <1> QED
    BY <1>2

LEMMA PartTracked ==
    ASSUME NEW r, NEW man, Tracked(r, man), NEW items \in Seq(Items), Ordered(items),
           \A n \in Range(items) : n \in Range(man.items)
    PROVE  Tracked(r, Manifest(man.ver, items))
  <1> DEFINE part == Manifest(man.ver, items)
  <1>1. Sound(part)
    BY PartSound DEF Tracked
  <1>2. part.ver = man.ver /\ part.items = items
    BY DEF Manifest
  <1> HIDE DEF part
  <1>3. Tracked(r, part)
    BY <1>1, <1>2 DEF Tracked
  <1> QED
    BY <1>3 DEF part

LEMMA KeptTracked ==
    ASSUME NEW r, NEW man, Tracked(r, man), NEW tree
    PROVE  Tracked(r, Manifest(man.ver, Kept(man.items, tree)))
  <1>1. /\ Kept(man.items, tree) \in Seq(Items) /\ Ordered(Kept(man.items, tree))
        /\ Present(Kept(man.items, tree), man.items, tree)
    BY KeptItems DEF Tracked, Sound
  <1> QED
    BY <1>1, PartTracked DEF Present

\* Without its command's successor due, a copy is what it is whatever the other files hold.
LEMMA PlainHeld ==
    ASSUME NEW r, NEW d, NEW last, Held(r, d, last), NEW tree \in Trees, NEW upd, NEW com
    PROVE  /\ Held(r, [d EXCEPT !.upd = upd], "none")
           /\ Held(r, [d EXCEPT !.com = com], "none")
           /\ Held(r, [d EXCEPT !.tree = tree], "none")
           /\ Held(r, d, "none")
  <1>1. ASSUME NEW e, NEW t \in Trees, NEW u, NEW m,
               e = [tree |-> t, man |-> d.man, upd |-> u, com |-> m, srv |-> d.srv]
        PROVE  Held(r, e, "none")
    <2>1. e.tree \in Trees /\ e.man = d.man /\ e.srv = d.srv
          /\ e = [tree |-> e.tree, man |-> e.man, upd |-> e.upd, com |-> e.com, srv |-> e.srv]
      BY <1>1
    <2> QED
      BY <2>1 DEF Held
  <1>2. /\ d = [tree |-> d.tree, man |-> d.man, upd |-> d.upd, com |-> d.com, srv |-> d.srv]
        /\ d.tree \in Trees
    BY DEF Held
  <1>3. Held(r, [d EXCEPT !.upd = upd], "none")
    <2>1. [d EXCEPT !.upd = upd]
          = [tree |-> d.tree, man |-> d.man, upd |-> upd, com |-> d.com, srv |-> d.srv]
      BY <1>2
    <2> QED
      BY <1>1, <1>2, <2>1
  <1>4. Held(r, [d EXCEPT !.com = com], "none")
    <2>1. [d EXCEPT !.com = com]
          = [tree |-> d.tree, man |-> d.man, upd |-> d.upd, com |-> com, srv |-> d.srv]
      BY <1>2
    <2> QED
      BY <1>1, <1>2, <2>1
  <1>5. Held(r, [d EXCEPT !.tree = tree], "none")
    <2>1. [d EXCEPT !.tree = tree]
          = [tree |-> tree, man |-> d.man, upd |-> d.upd, com |-> d.com, srv |-> d.srv]
      BY <1>2
    <2> QED
      BY <1>1, <2>1
  <1>6. Held(r, d, "none")
    BY <1>1, <1>2
  <1> QED
    BY <1>3, <1>4, <1>5, <1>6

LEMMA EditInv ==
    ASSUME SyncInv, NEW c \in Clients, NEW f \in Names, NEW content \in Contents \cup {Missing},
           Edit(c, f, content)
    PROVE  SyncInv'
  <1> DEFINE d == copy[c]
             tree == [d.tree EXCEPT ![f] = content]
             new == [d EXCEPT !.tree = tree]
  <1>1. /\ edits < MaxEdits /\ edits' = edits + 1 /\ repo' = repo
        /\ copy' = [copy EXCEPT ![c] = Readable(new, "none")]
        /\ ready' = [ready EXCEPT ![c] = "none"]
    BY DEF Edit
  <1>2. /\ copy = [b \in Clients |-> copy[b]] /\ ready \in [Clients -> LastCommands]
        /\ edits \in 0..MaxEdits /\ History(repo)
        /\ \A b \in Clients : Held(repo, copy[b], ready[b])
    BY DEF SyncInv
  <1>3. Held(repo, new, "none")
    <2>1. Held(repo, d, ready[c])
      BY <1>2
    <2>2. tree \in Trees
      BY <2>1 DEF Held, Trees
    <2> HIDE DEF d, tree
    <2> QED
      BY <2>1, <2>2, PlainHeld
  <1>4. Held(repo, Readable(new, "none"), "none")
    <2> HIDE DEF new
    <2> QED
      BY <1>3, ReadableHeld
  <1> HIDE DEF new
  <1>5. /\ copy' = [b \in Clients |-> copy'[b]] /\ ready' \in [Clients -> LastCommands]
        /\ copy'[c] = Readable(new, "none") /\ ready'[c] = "none"
        /\ \A b \in Clients : b # c => copy'[b] = copy[b] /\ ready'[b] = ready[b]
    <2>1. DOMAIN copy = Clients /\ "none" \in LastCommands
      BY <1>2 DEF LastCommands
    <2> QED
      BY <1>1, <1>2, <2>1
  <1>6. \A b \in Clients : Held(repo', copy'[b], ready'[b])
    BY <1>1, <1>2, <1>4, <1>5
  <1>7. edits' \in 0..MaxEdits
    BY <1>1, <1>2, SyncAssumption DEF SyncAssumption
  <1> QED
    BY <1>1, <1>2, <1>5, <1>6, <1>7 DEF SyncInv

\* What is known of the copy of a client whose manifest is there.
LEMMA CopyHeld ==
    ASSUME SyncInv, NEW c \in Clients
    PROVE  /\ Held(repo, copy[c], ready[c]) /\ History(repo)
           /\ copy[c].man # None => Tracked(repo, copy[c].man) /\ Sound(copy[c].man)
           /\ "none" \in LastCommands /\ "update" \in LastCommands /\ "commit" \in LastCommands
  BY DEF SyncInv, Held, Tracked, LastCommands

LEMMA AddInv ==
    ASSUME SyncInv, NEW c \in Clients, NEW f \in Names, Add(c, f)
    PROVE  SyncInv'
  <1> DEFINE d == copy[c]
             item == Item(f, 0, NoHash)
             items == WithItem(d.man.items, item)
             man == Manifest(d.man.ver, items)
             new == [d EXCEPT !.man = man]
  <1>1. /\ d.man # None /\ f \notin NamesOf(d.man.items) /\ repo' = repo
        /\ "readd" \in Mishaps \/ f \notin NamesOf(ServerManifest.items)
        /\ Leaves(c, [d EXCEPT !.man.items = items], "none")
    BY DEF Add
  <1>2. /\ Held(repo, d, ready[c]) /\ History(repo) /\ Tracked(repo, d.man) /\ Sound(d.man)
        /\ "none" \in LastCommands
    BY <1>1, CopyHeld
  <1>3. [d EXCEPT !.man.items = items] = new
    <2> HIDE DEF d, items
    <2> QED
      BY <1>1, <1>2, ItemsSet
  <1>4. item.name = f /\ item.ver = 0 /\ item.hash = NoHash
    BY DEF Item
  <1>5. item \in Items /\ f \in Nat
    <2>1. 0 \in 0..MaxVersions /\ f \in Nat
      BY SyncAssumption DEF SyncAssumption
    <2> QED
      BY <2>1 DEF Items, Item
  <1>6. /\ items \in Seq(Items) /\ Ordered(items)
        /\ \A n \in Range(items) : n \in Range(d.man.items) \/ n = item
    <2> HIDE DEF d, item
    <2> QED
      BY <1>2, <1>4, <1>5, WithItemFacts DEF Sound
  <1> HIDE DEF item, items
  <1>7. man.ver = d.man.ver /\ man.items = items /\ man = Manifest(man.ver, man.items)
    BY DEF Manifest
  <1> HIDE DEF man, d
  <1>8. Sound(man)
    <2>1. \A n \in Range(items) : n.ver <= man.ver
      <3>1. d.man.ver \in Nat
        BY <1>2, SyncAssumption DEF Sound, SyncAssumption
      <3> QED
        BY <1>2, <1>4, <1>6, <1>7, <3>1 DEF Sound
    <2> QED
      BY <1>2, <1>6, <1>7, <2>1 DEF Sound
  <1>9. Fresh(repo, d.man.ver, item)
    <2>1. ServerManifest = At(repo, Len(repo))
      BY <1>2, ServerSound
    <2> QED
      BY <1>1, <1>4, <2>1 DEF Fresh
  <1>10. Tracked(repo, man)
    BY <1>2, <1>6, <1>7, <1>8, <1>9 DEF Tracked
  <1>11. Held(repo, new, "none")
    BY <1>2, <1>10, ManHeld
  <1> HIDE DEF new
  <1>12. Leaves(c, new, "none")
    BY <1>1, <1>3
  <1> QED
    BY <1>1, <1>2, <1>11, <1>12, LeftInv

LEMMA RemoveInv ==
    ASSUME SyncInv, NEW c \in Clients, NEW f \in Names, RemoveEntry(c, f)
    PROVE  SyncInv'
  <1> DEFINE d == copy[c]
             items == WithoutItem(d.man.items, f)
             man == Manifest(d.man.ver, items)
             new == [d EXCEPT !.man = man]
  <1>1. d.man # None /\ repo' = repo /\ Leaves(c, [d EXCEPT !.man.items = items], "none")
    BY DEF RemoveEntry
  <1>2. /\ Held(repo, d, ready[c]) /\ History(repo) /\ Tracked(repo, d.man) /\ Sound(d.man)
        /\ "none" \in LastCommands
    BY <1>1, CopyHeld
  <1>3. [d EXCEPT !.man.items = items] = new
    <2> HIDE DEF d, items
    <2> QED
      BY <1>1, <1>2, ItemsSet
  <1>4. items \in Seq(Items) /\ Ordered(items) /\ \A n \in Range(items) : n \in Range(d.man.items)
    <2> HIDE DEF d
    <2> QED
      BY <1>2, WithoutFacts DEF Sound
  <1> HIDE DEF items, d
  <1>5. Tracked(repo, man)
    BY <1>2, <1>4, PartTracked
  <1> HIDE DEF man
  <1>6. Held(repo, new, "none")
    BY <1>2, <1>5, ManHeld
  <1> HIDE DEF new
  <1>7. Leaves(c, new, "none")
    BY <1>1, <1>3
  <1> QED
    BY <1>1, <1>2, <1>6, <1>7, LeftInv

\* What a version brings.
LEMMA VersionBrings ==
    ASSUME History(repo), NEW v \in 1..Len(repo), NEW tree \in Trees, NEW names
    PROVE  /\ Extracted(tree, v, names) \in Trees
           /\ Tracked(repo, repo[v].man)
  <1>1. Stored(repo[v], v) /\ At(repo, v) = repo[v].man
    <2>1. v # 0
      OBVIOUS
    <2> QED
      BY <2>1 DEF History, At
  <1>2. \A f \in DOMAIN repo[v].files : repo[v].files[f] \in Contents
    BY <1>1, NamedIn DEF Stored
  <1>3. Extracted(tree, v, names) \in Trees
    BY <1>2 DEF Extracted, Trees
  <1>4. Tracked(repo, repo[v].man)
    <2>1. Len(repo) \in Nat
      BY DEF History
    <2>2. repo[v].man.ver = v /\ v <= Len(repo) /\ Sound(repo[v].man)
      BY <1>1, <2>1 DEF Stored
    <2> QED
      BY <1>1, <2>2 DEF Tracked
  <1> QED
    BY <1>3, <1>4

\* The fields of a copy.
Fields(tree, man, upd, com, srv) ==
    [tree |-> tree, man |-> man, upd |-> upd, com |-> com, srv |-> srv]

LEMMA FieldSet ==
    ASSUME NEW t, NEW m, NEW u, NEW k, NEW s, NEW d, d = Fields(t, m, u, k, s), NEW x
    PROVE  /\ [d EXCEPT !.tree = x] = Fields(x, m, u, k, s)
           /\ [d EXCEPT !.man = x] = Fields(t, x, u, k, s)
           /\ [d EXCEPT !.upd = x] = Fields(t, m, x, k, s)
           /\ [d EXCEPT !.com = x] = Fields(t, m, u, x, s)
           /\ [d EXCEPT !.srv = x] = Fields(t, m, u, k, x)
           /\ d.tree = t /\ d.man = m /\ d.upd = u /\ d.com = k /\ d.srv = s
  BY DEF Fields

\* The changes of several fields that commands make.
SetVersion(d, tree, man, com) == [d EXCEPT !.tree = tree, !.man = man, !.com = com]
SetUpgraded(d, tree, man, upd) == [d EXCEPT !.tree = tree, !.man = man, !.upd = upd]
SetPushed(d, man, com) == [d EXCEPT !.man = man, !.com = com]
SetCleaned(d, srv, man) == [d EXCEPT !.srv = srv, !.man = man]

LEMMA FieldsSetAny ==
    ASSUME NEW d, d = Fields(d.tree, d.man, d.upd, d.com, d.srv), NEW x, NEW y, NEW z
    PROVE  /\ SetVersion(d, x, y, z) = Fields(x, y, d.upd, z, d.srv)
           /\ SetUpgraded(d, x, y, z) = Fields(x, y, z, d.com, d.srv)
           /\ SetPushed(d, x, y) = Fields(d.tree, x, d.upd, y, d.srv)
           /\ SetCleaned(d, x, y) = Fields(d.tree, y, d.upd, d.com, x)
  <1>1. PICK t, m, u, k, s : d = Fields(t, m, u, k, s)
    OBVIOUS
  <1>2. d.tree = t /\ d.man = m /\ d.upd = u /\ d.com = k /\ d.srv = s
    BY <1>1, FieldSet
  <1>3. PICK a : a = [d EXCEPT !.tree = x]
    OBVIOUS
  <1>4. PICK b : b = [a EXCEPT !.man = y]
    OBVIOUS
  <1>5. a = Fields(x, m, u, k, s)
    <2>1. a = [Fields(t, m, u, k, s) EXCEPT !.tree = x]
      BY <1>1, <1>3
    <2> QED
      BY <2>1, FieldSet
  <1>6. b = Fields(x, y, u, k, s)
    BY <1>4, <1>5, FieldSet
  <1>7. [b EXCEPT !.com = z] = Fields(x, y, u, z, s) /\ [b EXCEPT !.upd = z] = Fields(x, y, z, k, s)
    BY <1>6, FieldSet
  <1>8. SetVersion(d, x, y, z) = [[[d EXCEPT !.tree = x] EXCEPT !.man = y] EXCEPT !.com = z]
    BY Zenon DEF SetVersion
  <1>9. SetUpgraded(d, x, y, z) = [[[d EXCEPT !.tree = x] EXCEPT !.man = y] EXCEPT !.upd = z]
    BY Zenon DEF SetUpgraded
  <1>10. PICK e : e = [d EXCEPT !.man = x]
    OBVIOUS
  <1>11. e = Fields(t, x, u, k, s)
    <2>1. e = [Fields(t, m, u, k, s) EXCEPT !.man = x]
      BY <1>1, <1>10
    <2> QED
      BY <2>1, FieldSet
  <1>12. [e EXCEPT !.com = y] = Fields(t, x, u, y, s)
    BY <1>11, FieldSet
  <1>13. SetPushed(d, x, y) = [[d EXCEPT !.man = x] EXCEPT !.com = y]
    BY Zenon DEF SetPushed
  <1>14. PICK g : g = [d EXCEPT !.srv = x]
    OBVIOUS
  <1>15. g = Fields(t, m, u, k, x)
    <2>1. g = [Fields(t, m, u, k, s) EXCEPT !.srv = x]
      BY <1>1, <1>14
    <2> QED
      BY <2>1, FieldSet
  <1>16. [g EXCEPT !.man = y] = Fields(t, y, u, k, x)
    BY <1>15, FieldSet
  <1>17. SetCleaned(d, x, y) = [[d EXCEPT !.srv = x] EXCEPT !.man = y]
    BY Zenon DEF SetCleaned
  <1> QED
    BY <1>2, <1>3, <1>4, <1>7, <1>8, <1>9, <1>10, <1>12, <1>13, <1>14, <1>16, <1>17

LEMMA FieldsSet ==
    ASSUME NEW r, NEW d, NEW last, Held(r, d, last), NEW x, NEW y, NEW z
    PROVE  /\ SetVersion(d, x, y, z) = Fields(x, y, d.upd, z, d.srv)
           /\ SetUpgraded(d, x, y, z) = Fields(x, y, z, d.com, d.srv)
           /\ SetPushed(d, x, y) = Fields(d.tree, x, d.upd, y, d.srv)
           /\ SetCleaned(d, x, y) = Fields(d.tree, y, d.upd, d.com, x)
  <1>1. d = Fields(d.tree, d.man, d.upd, d.com, d.srv)
    BY DEF Held, Fields
  <1> QED
    BY <1>1, FieldsSetAny

\* A copy with the files and the manifest of a version.
LEMMA VersionHeld ==
    ASSUME NEW r, NEW d, NEW last, Held(r, d, last), NEW tree \in Trees, NEW man, Tracked(r, man),
           NEW e, NEW upd, NEW com,
           e = Fields(tree, man, upd, com, d.srv)
    PROVE  Held(r, e, "none")
  <1>1. /\ e.tree = tree /\ e.man = man /\ e.srv = d.srv
        /\ e = [tree |-> e.tree, man |-> e.man, upd |-> e.upd, com |-> e.com, srv |-> e.srv]
    BY DEF Fields
  <1> QED
    BY <1>1 DEF Held

LEMMA CheckoutInv ==
    ASSUME SyncInv, NEW c \in Clients, Checkout(c)
    PROVE  SyncInv'
  <1> DEFINE d == copy[c]
             n == Len(repo)
             tree == Extracted(d.tree, n, Names)
             new == [d EXCEPT !.tree = tree, !.man = repo[n].man, !.com = repo[n].com]
  <1>1. n > 0 /\ repo' = repo /\ Leaves(c, new, "none")
    BY DEF Checkout
  <1>2. Held(repo, d, ready[c]) /\ History(repo) /\ d.tree \in Trees /\ "none" \in LastCommands
    BY CopyHeld DEF Held
  <1>3. n \in 1..Len(repo)
    BY <1>1, <1>2 DEF History
  <1>4. tree \in Trees /\ Tracked(repo, repo[n].man)
    <2> HIDE DEF d, n
    <2> QED
      BY <1>2, <1>3, VersionBrings
  <1> HIDE DEF d, n, tree
  <1>5. new = Fields(tree, repo[n].man, d.upd, repo[n].com, d.srv)
    <2>1. new = SetVersion(d, tree, repo[n].man, repo[n].com)
      BY DEF SetVersion
    <2> QED
      BY <1>2, <2>1, FieldsSet
  <1> HIDE DEF new
  <1>6. Held(repo, new, "none")
    BY <1>2, <1>4, <1>5, VersionHeld
  <1> QED
    BY <1>1, <1>2, <1>6, LeftInv DEF d

LEMMA UpdateInv ==
    ASSUME SyncInv, NEW c \in Clients, Update(c)
    PROVE  SyncInv'
  <1> DEFINE d == copy[c]
             mine == Manifest(d.man.ver, Kept(d.man.items, d.tree))
             marks == Marks(mine, ServerManifest, d.tree)
             list == ChangeList(marks, mine, ServerManifest)
             upd == Manifest(ServerManifest.ver, Written(list, UpdateCodes))
             new == [d EXCEPT !.upd = upd]
  <1>1. /\ d.man # None /\ ~HasConflict(marks) /\ repo' = repo
        /\ \A k \in DOMAIN list : list[k].code # Upload
        /\ Leaves(c, new, "update")
    BY DEF Update
  <1>2. /\ Held(repo, d, ready[c]) /\ History(repo) /\ d.tree \in Trees
        /\ Tracked(repo, d.man) /\ "update" \in LastCommands
    BY <1>1, CopyHeld DEF Held
  <1>3. /\ ServerManifest = At(repo, Len(repo)) /\ Len(repo) \in Nat
        /\ ServerManifest.ver = Len(repo)
    BY <1>2, ServerSound
  <1> HIDE DEF d, upd
  <1>4. new = Fields(d.tree, d.man, upd, d.com, d.srv)
    <2>1. d = Fields(d.tree, d.man, d.upd, d.com, d.srv)
      BY <1>2 DEF Held, Fields
    <2> QED
      BY <2>1, FieldSet
  <1> HIDE DEF new
  <1>5. /\ new.tree = d.tree /\ new.man = d.man /\ new.upd = upd /\ new.srv = d.srv
        /\ new = [tree |-> new.tree, man |-> new.man, upd |-> new.upd, com |-> new.com,
                  srv |-> new.srv]
    BY <1>4 DEF Fields
  <1>6. upd.ver = Len(repo) /\ upd = Manifest(upd.ver, Written(list, UpdateCodes))
    BY <1>3 DEF upd, Manifest
  <1>7. /\ Mine(new) = mine /\ At(repo, new.upd.ver) = ServerManifest
        /\ new.upd.ver \in 0..Len(repo)
    BY <1>3, <1>5, <1>6 DEF Mine
  <1> HIDE DEF mine
  <1>8. Updated(repo, new)
    BY <1>1, <1>5, <1>6, <1>7 DEF Updated
  <1>9. Held(repo, new, "update")
    BY <1>2, <1>5, <1>8 DEF Held
  <1> QED
    BY <1>1, <1>2, <1>9, LeftInv

LEMMA UpgradeInv ==
    ASSUME SyncInv, NEW c \in Clients, Upgrade(c)
    PROVE  SyncInv'
  <1> DEFINE d == copy[c]
             v == d.upd.ver
             list == d.upd.items
             tree == Extracted(d.tree, v, NamesOf(list))
             new == [d EXCEPT !.tree = tree, !.man = repo[v].man, !.upd = None]
  <1>1. /\ d.man # None /\ repo' = repo
        /\ \/ Leaves(c, [d EXCEPT !.upd = None], "none")
           \/ v \in 1..Len(repo) /\ Leaves(c, new, "none")
    BY DEF Upgrade
  <1>2. Held(repo, d, ready[c]) /\ History(repo) /\ d.tree \in Trees /\ "none" \in LastCommands
    BY CopyHeld DEF Held
  <1>3. CASE Leaves(c, [d EXCEPT !.upd = None], "none")
    <2>1. Held(repo, [d EXCEPT !.upd = None], "none")
      <3> HIDE DEF d
      <3> QED
        BY <1>2, PlainHeld
    <2> DEFINE e == [d EXCEPT !.upd = None]
    <2> HIDE DEF e
    <2>2. Leaves(c, e, "none") /\ Held(repo, e, "none")
      BY <1>3, <2>1 DEF e
    <2> QED
      BY <1>1, <1>2, <2>2, LeftInv
  <1>4. CASE v \in 1..Len(repo) /\ Leaves(c, new, "none")
    <2>1. tree \in Trees /\ Tracked(repo, repo[v].man)
      <3> HIDE DEF d, v, list
      <3> QED
        BY <1>2, <1>4, VersionBrings
    <2> HIDE DEF d, v, tree
    <2>2. new = Fields(tree, repo[v].man, None, d.com, d.srv)
      <3>1. new = SetUpgraded(d, tree, repo[v].man, None)
        BY DEF SetUpgraded
      <3> QED
        BY <1>2, <3>1, FieldsSet
    <2> HIDE DEF new
    <2>3. Held(repo, new, "none")
      BY <1>2, <2>1, <2>2, VersionHeld
    <2> QED
      BY <1>1, <1>2, <1>4, <2>3, LeftInv
  <1> QED
    BY <1>1, <1>3, <1>4

LEMMA CommitInv ==
    ASSUME SyncInv, NEW c \in Clients, Commit(c)
    PROVE  SyncInv'
  <1> DEFINE d == copy[c]
             mine == Manifest(d.man.ver, Kept(d.man.items, d.tree))
             marks == Marks(mine, ServerManifest, d.tree)
             cleaned == [d EXCEPT !.srv = ServerManifest, !.man = mine]
             list == ChangeList(marks, mine, ServerManifest)
             com == Manifest(ServerManifest.ver, Written(list, CommitCodes))
             new == [cleaned EXCEPT !.com = com]
  <1>1. /\ d.man # None /\ repo' = repo
        /\ \/ Leaves(c, cleaned, "none")
           \/ ~HasConflict(marks) /\ Leaves(c, new, "commit")
    BY DEF Commit
  <1>2. /\ Held(repo, d, ready[c]) /\ History(repo) /\ d.tree \in Trees
        /\ Tracked(repo, d.man) /\ Sound(d.man)
        /\ "none" \in LastCommands /\ "commit" \in LastCommands
    BY <1>1, CopyHeld DEF Held
  <1>3. /\ ServerManifest = At(repo, Len(repo)) /\ Len(repo) \in Nat
        /\ ServerManifest.ver = Len(repo) /\ Sound(ServerManifest)
    BY <1>2, ServerSound
  <1> HIDE DEF d
  <1>4. Tracked(repo, mine)
    BY <1>2, KeptTracked
  <1>5. cleaned = Fields(d.tree, mine, d.upd, d.com, ServerManifest)
    <2> HIDE DEF mine
    <2>1. cleaned = SetCleaned(d, ServerManifest, mine)
      BY DEF SetCleaned
    <2> QED
      BY <1>2, <2>1, FieldsSet
  <1>6. new = Fields(d.tree, mine, d.upd, com, ServerManifest)
    <2> HIDE DEF mine, com, cleaned
    <2> QED
      BY <1>5, FieldSet
  <1> HIDE DEF cleaned, new
  <1>7. CASE Leaves(c, cleaned, "none")
    <2> HIDE DEF mine
    <2>1. /\ cleaned.tree = d.tree /\ cleaned.man = mine /\ cleaned.srv = ServerManifest
          /\ cleaned = [tree |-> cleaned.tree, man |-> cleaned.man, upd |-> cleaned.upd,
                        com |-> cleaned.com, srv |-> cleaned.srv]
      BY <1>5 DEF Fields
    <2>2. Held(repo, cleaned, "none")
      BY <1>2, <1>3, <1>4, <2>1 DEF Held
    <2> QED
      BY <1>1, <1>2, <1>7, <2>2, LeftInv
  <1>8. CASE ~HasConflict(marks) /\ Leaves(c, new, "commit")
    <2>1. mine.ver = d.man.ver /\ mine.items = Kept(d.man.items, d.tree)
      BY DEF Manifest
    <2>2. Kept(mine.items, d.tree) = mine.items
      BY <1>2, <2>1, KeptAgain DEF Sound
    <2>4. com.ver = Len(repo) /\ com = Manifest(ServerManifest.ver, com.items)
          /\ com.items = Written(list, CommitCodes)
      BY <1>3 DEF Manifest
    <2> HIDE DEF mine, com
    <2>5. /\ new.tree = d.tree /\ new.man = mine /\ new.srv = ServerManifest /\ new.com = com
          /\ new = [tree |-> new.tree, man |-> new.man, upd |-> new.upd, com |-> new.com,
                    srv |-> new.srv]
      BY <1>6 DEF Fields
    <2>6. mine.ver <= ServerManifest.ver
      BY <1>2, <1>3, <2>1 DEF Tracked
    <2>7. Committed(repo, new)
      BY <1>3, <1>8, <2>2, <2>4, <2>5, <2>6 DEF Committed
    <2>8. Held(repo, new, "commit")
      BY <1>2, <1>3, <1>4, <2>5, <2>7 DEF Held
    <2> QED
      BY <1>1, <1>2, <1>8, <2>8, LeftInv
  <1> QED
    BY <1>1, <1>7, <1>8

LEMMA PushDropsFilesInv ==
    ASSUME SyncInv, NEW c \in Clients, PushDropsFiles(c)
    PROVE  SyncInv'
  <1> DEFINE d == copy[c]
             items == Kept(d.man.items, d.tree)
             man == Manifest(d.man.ver, items)
             new == [d EXCEPT !.man = man]
  <1>1. d.man # None /\ repo' = repo /\ Leaves(c, [d EXCEPT !.man.items = items], "none")
    BY DEF PushDropsFiles, PushStarts
  <1>2. /\ Held(repo, d, ready[c]) /\ History(repo) /\ Tracked(repo, d.man)
        /\ "none" \in LastCommands
    BY <1>1, CopyHeld
  <1>3. [d EXCEPT !.man.items = items] = new
    <2> HIDE DEF d, items
    <2> QED
      BY <1>1, <1>2, ItemsSet
  <1> HIDE DEF d
  <1>4. Tracked(repo, man)
    BY <1>2, KeptTracked
  <1> HIDE DEF man, items
  <1>5. Held(repo, new, "none")
    BY <1>2, <1>4, ManHeld
  <1> HIDE DEF new
  <1>6. Leaves(c, new, "none")
    BY <1>1, <1>3
  <1> QED
    BY <1>1, <1>2, <1>5, <1>6, LeftInv

LEMMA PushNothingInv ==
    ASSUME SyncInv, NEW c \in Clients, PushNothing(c)
    PROVE  SyncInv'
  <1> DEFINE d == copy[c]
             new == [d EXCEPT !.com = None]
  <1>1. repo' = repo /\ Leaves(c, new, "none")
    BY DEF PushNothing
  <1>2. Held(repo, d, ready[c]) /\ History(repo) /\ "none" \in LastCommands /\ d.tree \in Trees
    BY CopyHeld DEF Held
  <1> HIDE DEF d
  <1>3. Held(repo, new, "none")
    BY <1>2, PlainHeld
  <1> HIDE DEF new
  <1> QED
    BY <1>1, <1>2, <1>3, LeftInv

----------------------------------------------------------------------------
(* Push. *)

\* The item pushed for item x of c, over the server's items s.
PushedItem(c, s, tree, x) ==
    Item(c[x].name, c[x].ver + IF Differs(c, s, tree, x) THEN 1 ELSE 0, tree[c[x].name])

\* What a push of a copy at the newest version sends, item by item.
LEMMA SentItems ==
    ASSUME NEW r, History(r), NEW d, Tracked(r, d.man), Committed(r, d), d.man.ver = Len(r),
           d.tree \in Trees
    PROVE  /\ d.srv = At(r, Len(r)) /\ Sound(d.srv) /\ Sound(d.man)
           /\ d.com.items \in Seq(Range(d.com.items))
           /\ Entries(d.man.items, d.srv.items, TRUE, d.tree, d.com.items)
           /\ \A x \in 1..Len(d.man.items) : d.tree[d.man.items[x].name] \in Contents
           /\ PushItems(d.man.items, d.com.items, d.tree)
                = [x \in 1..Len(d.man.items) |-> PushedItem(d.man.items, d.srv.items, d.tree, x)]
  <1> DEFINE c == d.man.items
             s == d.srv.items
             marks == Marks(d.man, d.srv, d.tree)
             list == ChangeList(marks, d.man, d.srv)
  <1>1. /\ d.srv.ver \in 0..Len(r) /\ d.srv = At(r, d.srv.ver) /\ d.man.ver <= d.srv.ver
        /\ Kept(c, d.tree) = c /\ ~HasConflict(marks)
        /\ d.com = Manifest(d.srv.ver, Written(list, CommitCodes))
    BY DEF Committed
  <1>2. d.srv.ver = Len(r)
    <2>1. Len(r) \in Nat
      BY DEF History
    <2> QED
      BY <1>1, <2>1
  <1>3. Sound(d.srv) /\ Sound(d.man) /\ d.srv = At(r, Len(r))
    BY <1>1, <1>2, AtSound DEF Tracked
  <1>4. /\ c \in Seq(Items) /\ s \in Seq(Items) /\ Ordered(c) /\ Ordered(s)
        /\ d.man.ver = d.srv.ver
    BY <1>2, <1>3 DEF Sound
  <1>5. /\ Written(list, CommitCodes) = list
        /\ list \in Seq(Range(list)) /\ Pushable(c, list)
        /\ Uploaded(c, list) = {x \in 1..Len(c) : Differs(c, s, d.tree, x)}
        /\ Entries(c, s, TRUE, d.tree, list)
    <2>1. PushReady(c, s, d.tree, list)
      <3> HIDE DEF marks
      <3>1. marks = Marks(d.man, d.srv, d.tree) /\ list = ChangeList(marks, d.man, d.srv)
        BY DEF marks
      <3> HIDE DEF list
      <3> QED
        BY <1>1, <1>4, <3>1, CommitList
    <2> QED
      BY <2>1, Zenon DEF PushReady
  <1>6. d.com.items = list
    BY <1>1, <1>5 DEF Manifest
  <1>7. \A x \in 1..Len(c) : d.tree[c[x].name] \in Contents
    <2>1. \A x \in DOMAIN c : d.tree[c[x].name] # Missing
      BY <1>1, <1>4, KeptItems
    <2>2. ASSUME NEW x \in 1..Len(c)
          PROVE  c[x].name \in Names /\ x \in DOMAIN c
      <3> HIDE DEF c
      <3>1. c[x] \in Items /\ x \in DOMAIN c
        BY <1>4
      <3> QED
        BY <3>1 DEF Items
    <2> HIDE DEF c
    <2> QED
      BY <2>1, <2>2 DEF Trees
  <1> HIDE DEF c, s, list
  <1>8. PushItems(c, list, d.tree)
        = [x \in 1..Len(c) |->
              Item(c[x].name, c[x].ver + IF x \in Uploaded(c, list) THEN 1 ELSE 0,
                   d.tree[c[x].name])]
    BY <1>4, <1>5, PushedItems, SMTT(30)
  <1>9. \A x \in 1..Len(c) :
            Item(c[x].name, c[x].ver + IF x \in Uploaded(c, list) THEN 1 ELSE 0, d.tree[c[x].name])
            = PushedItem(c, s, d.tree, x)
    BY <1>5 DEF PushedItem
  <1>10. PushItems(c, list, d.tree) = [x \in 1..Len(c) |-> PushedItem(c, s, d.tree, x)]
    BY <1>8, <1>9
  <1> QED
    BY <1>3, <1>5, <1>6, <1>7, <1>10 DEF c, s

\* The version sent is sound, and so are its files and its .Commit.
LEMMA SentFits ==
    ASSUME NEW r, History(r), NEW d, Tracked(r, d.man), Committed(r, d), d.man.ver = Len(r),
           d.tree \in Trees, Len(r) < MaxVersions
    PROVE  /\ Stored(Sent(d), Len(r) + 1)
           /\ Told(At(r, Len(r)).items, Sent(d).man.items, Sent(d).com.items)
           /\ "readd" \notin Mishaps => Counted(At(r, Len(r)).items, Sent(d).man.items)
  <1> DEFINE c == d.man.items
             s == d.srv.items
             n == Len(r)
             list == d.com.items
             p == PushItems(c, list, d.tree)
  <1>1. /\ d.srv = At(r, n) /\ Sound(d.srv) /\ Sound(d.man)
        /\ list \in Seq(Range(list)) /\ Entries(c, s, TRUE, d.tree, list)
        /\ \A x \in 1..Len(c) : d.tree[c[x].name] \in Contents
        /\ p = [x \in 1..Len(c) |-> PushedItem(c, s, d.tree, x)]
    BY SentItems
  <1>2. /\ Sent(d).man = Manifest(n + 1, p) /\ Sent(d).com = d.com
        /\ Sent(d).files = [f \in NamesOf(p) |-> d.tree[f]]
    BY DEF Sent
  <1>3. /\ c \in Seq(Items) /\ s \in Seq(Items) /\ Ordered(c) /\ Ordered(s)
        /\ d.man.ver = n /\ n \in Nat /\ n + 1 \in 0..MaxVersions
        /\ \A item \in Range(c) : item.ver <= n
    BY <1>1, SyncAssumption DEF Sound, SyncAssumption
  <1> HIDE DEF c, s, n, list, p
  <1>4. ASSUME NEW x \in 1..Len(c)
        PROVE  /\ p[x].name = c[x].name /\ p[x].hash = d.tree[c[x].name]
               /\ p[x].ver = c[x].ver + IF Differs(c, s, d.tree, x) THEN 1 ELSE 0
               /\ p[x] \in Items /\ p[x].ver <= n + 1 /\ p[x].hash \in Contents
               /\ c[x] \in Range(c) /\ c[x].ver \in Nat
    <2>1. p[x] = PushedItem(c, s, d.tree, x)
      BY <1>1
    <2>2. c[x] \in Items /\ c[x] \in Range(c)
      BY <1>3, InRange
    <2>3. c[x].name \in Names /\ c[x].ver \in 0..MaxVersions /\ c[x].ver <= n
      BY <1>3, <2>2 DEF Items
    <2>4. c[x].ver \in Nat
      BY <2>3, SyncAssumption DEF SyncAssumption
    <2>5. /\ p[x].name = c[x].name /\ p[x].hash = d.tree[c[x].name]
          /\ p[x].ver = c[x].ver + IF Differs(c, s, d.tree, x) THEN 1 ELSE 0
          /\ p[x] = [name |-> p[x].name, ver |-> p[x].ver, hash |-> p[x].hash]
      BY <2>1 DEF PushedItem, Item
    <2>6. p[x].ver \in 0..MaxVersions /\ p[x].ver <= n + 1
      <3>1. c[x].ver + 1 \in 0..(n + 1) /\ c[x].ver + 0 \in 0..(n + 1)
        BY <1>3, <2>3, <2>4
      <3>2. p[x].ver \in 0..(n + 1)
        BY <2>5, <3>1
      <3>3. MaxVersions \in Nat
        BY SyncAssumption DEF SyncAssumption
      <3> QED
        BY <1>3, <3>2, <3>3
    <2>7. p[x].hash \in Contents
      BY <1>1, <2>5
    <2>8. p[x] \in Items
      BY <2>3, <2>5, <2>6, <2>7 DEF Items
    <2> QED
      BY <2>2, <2>4, <2>5, <2>6, <2>7, <2>8
  <1>5. p \in Seq(Items) /\ Len(p) = Len(c) /\ Len(c) \in Nat
    <2>1. Len(c) \in Nat /\ DOMAIN p = 1..Len(c) /\ p = [x \in 1..Len(c) |-> p[x]]
      BY <1>1, <1>3
    <2> QED
      BY <1>4, <2>1
  <1>6. Ordered(p)
    BY <1>3, <1>4, <1>5 DEF Ordered
  <1>7. \A m : m \in Range(p) <=> \E x \in 1..Len(c) : m = p[x]
    BY <1>5, InRange
  <1>8. \A f : f \in NamesOf(p) <=> \E x \in 1..Len(c) : c[x].name = f
    BY <1>4, <1>7, NamedIn
  <1>9. \A f : f \in NamesOf(s) <=> \E y \in 1..Len(s) : s[y].name = f
    <2>1. \A m : m \in Range(s) <=> \E y \in 1..Len(s) : m = s[y]
      BY <1>3, InRange
    <2> QED
      BY <2>1, NamedIn
  <1>10. Sent(d).man.items = p /\ Sent(d).man.ver = n + 1
         /\ Sent(d).man = Manifest(Sent(d).man.ver, Sent(d).man.items)
    BY <1>2 DEF Manifest
  <1>11. Sound(Sent(d).man)
    BY <1>3, <1>4, <1>5, <1>6, <1>7, <1>10 DEF Sound
  <1>12. Stored(Sent(d), n + 1)
    <2>1. \A m \in Range(p) : m.name \in NamesOf(p) /\ m.hash \in Contents /\ m.hash = d.tree[m.name]
      BY <1>4, <1>7, <1>8
    <2> QED
      BY <1>2, <1>10, <1>11, <2>1 DEF Stored
  <1>13. Told(s, p, list)
    <2>1. ASSUME NEW f
          PROVE  Listed(list, Added, f) <=> f \in NamesOf(s) \ NamesOf(p)
      <3>1. Listed(list, Added, f) <=> \E y \in 1..Len(s) : OnlyIn(s, y, c) /\ f = s[y].name
        BY <1>1 DEF Entries
      <3> QED
        BY <1>8, <1>9, <3>1 DEF OnlyIn
    <2>2. ASSUME NEW f
          PROVE  Listed(list, Upload, f)
                 <=> /\ f \in NamesOf(p)
                     /\ \A o \in Range(s), w \in Range(p) :
                           o.name = f /\ w.name = f => o.hash # w.hash
      <3>1. Listed(list, Upload, f)
            <=> \E x \in 1..Len(c) : f = c[x].name /\ Differs(c, s, d.tree, x)
        BY <1>1 DEF Entries
      <3>2. ASSUME NEW x \in 1..Len(c), f = c[x].name
            PROVE  Differs(c, s, d.tree, x)
                   <=> \A o \in Range(s), w \in Range(p) :
                          o.name = f /\ w.name = f => o.hash # w.hash
        <4>1. \A w \in Range(p) : w.name = f <=> w = p[x]
          <5>1. \A z \in 1..Len(c) : c[z].name = c[x].name => z = x
            BY <1>3, OneName
          <5> QED
            BY <1>4, <1>7, <3>2, <5>1
        <4>2. p[x] \in Range(p) /\ p[x].hash = d.tree[f]
          BY <1>4, <1>7, <3>2
        <4>3. (\A o \in Range(s), w \in Range(p) : o.name = f /\ w.name = f => o.hash # w.hash)
              <=> \A o \in Range(s) : o.name = f => o.hash # d.tree[f]
          BY <4>1, <4>2
        <4>4. \A m : m \in Range(s) <=> \E y \in 1..Len(s) : m = s[y]
          BY <1>3, InRange
        <4>5. (\A o \in Range(s) : o.name = f => o.hash # d.tree[f])
              <=> \A y \in 1..Len(s) : s[y].name = f => s[y].hash # d.tree[f]
          BY <4>4
        <4>6. Differs(c, s, d.tree, x)
              <=> \A y \in 1..Len(s) : s[y].name = f => s[y].hash # d.tree[f]
          <5>1. ASSUME NEW y \in 1..Len(s), NEW z \in 1..Len(s), s[y].name = s[z].name
                PROVE  y = z
            BY <1>3, <5>1, OneName
          <5> QED
            BY <3>2, <5>1 DEF Differs, OnlyIn
        <4> QED
          BY <4>3, <4>5, <4>6
      <3>3. f \in NamesOf(p) <=> \E x \in 1..Len(c) : f = c[x].name
        BY <1>8
      <3> QED
        BY <3>1, <3>2, <3>3
    <2> QED
      BY <1>1, <2>1, <2>2, Zenon DEF Told
  <1>14. ASSUME "readd" \notin Mishaps
         PROVE  Counted(s, p)
    <2> SUFFICES ASSUME NEW o \in Range(s), NEW w \in Range(p), o.name = w.name
                 PROVE  o.ver = w.ver <=> o.hash = w.hash
      BY DEF Counted
    <2>1. PICK y \in 1..Len(s) : o = s[y]
      BY <1>3, InRange
    <2>2. PICK x \in 1..Len(c) : w = p[x]
      BY <1>7
    <2>3. c[x].name = s[y].name /\ c[x] \in Range(c)
      BY <1>4, <2>1, <2>2
    <2>4. c[x] = s[y]
      <3>1. c[x] \in Range(s) \/ Fresh(r, n, c[x])
        BY <1>1, <1>3, <2>3 DEF Tracked, c, s
      <3>2. ~Fresh(r, n, c[x])
        BY <1>1, <1>9, <1>14, <2>3 DEF Fresh, n, s
      <3>3. s[y] \in Range(s)
        BY <2>1
      <3> QED
        BY <1>1, <2>3, <3>1, <3>2, <3>3, OneItem DEF s
    <2>5. Differs(c, s, d.tree, x) <=> d.tree[c[x].name] # s[y].hash
      <3>1. ASSUME NEW z \in 1..Len(s), s[z].name = s[y].name
            PROVE  z = y
        BY <1>3, <3>1, OneName
      <3> QED
        BY <2>3, <3>1 DEF Differs, OnlyIn
    <2>6. c[x].ver \in Nat /\ c[x].ver + 1 # c[x].ver /\ c[x].ver + 0 = c[x].ver
      BY <1>4
    <2> QED
      BY <1>4, <2>1, <2>2, <2>4, <2>5, <2>6
  <1> QED
    BY <1>1, <1>2, <1>10, <1>12, <1>13, <1>14 DEF n, s, list

LEMMA SentHistory ==
    ASSUME NEW r, History(r), NEW d, Tracked(r, d.man), Committed(r, d), d.man.ver = Len(r),
           d.tree \in Trees, Len(r) < MaxVersions
    PROVE  /\ History(Append(r, Sent(d)))
           /\ Tracked(Append(r, Sent(d)), Sent(d).man)
  <1> DEFINE version == Sent(d)
             q == Append(r, version)
             n == Len(r)
  <1>1. /\ Stored(version, n + 1)
        /\ Told(At(r, n).items, version.man.items, version.com.items)
        /\ "readd" \notin Mishaps => Counted(At(r, n).items, version.man.items)
    BY SentFits
  <1>2. /\ Len(q) = n + 1 /\ n \in Nat
        /\ \A k \in 1..n : q[k] = r[k]
        /\ q[n + 1] = version
        /\ \A v \in 0..n : At(q, v) = At(r, v)
        /\ q \in Seq(Range(q))
    BY AtGrown
  <1>3. Len(q) <= MaxVersions
    BY <1>2, SyncAssumption DEF SyncAssumption
  <1> HIDE DEF version, q, n
  <1>4. ASSUME NEW k \in 1..Len(q)
        PROVE  /\ Stored(q[k], k)
               /\ Told(At(q, k - 1).items, q[k].man.items, q[k].com.items)
               /\ "readd" \notin Mishaps => Counted(At(q, k - 1).items, q[k].man.items)
    <2>1. CASE k = n + 1
      <3>1. k - 1 = n /\ n \in 0..n
        BY <1>2, <2>1
      <3> QED
        BY <1>1, <1>2, <2>1, <3>1
    <2>2. CASE k # n + 1
      <3>1. k \in 1..n /\ k - 1 \in 0..n
        BY <1>2, <2>2
      <3> QED
        BY <1>2, <3>1 DEF History, n
    <2> QED
      BY <2>1, <2>2
  <1>5. History(q)
    BY <1>2, <1>3, <1>4 DEF History
  <1>6. Tracked(q, version.man)
    <2>1. Sound(version.man) /\ version.man.ver = n + 1
      BY <1>1 DEF Stored
    <2>2. At(q, n + 1) = version.man /\ n + 1 <= Len(q)
      BY <1>2 DEF At
    <2> QED
      BY <2>1, <2>2 DEF Tracked
  <1> QED
    BY <1>5, <1>6 DEF q, version

LEMMA PushInv ==
    ASSUME Orderly, SyncInv, NEW c \in Clients, Push(c)
    PROVE  SyncInv'
  <1> DEFINE d == copy[c]
             version == Sent(d)
             new == [d EXCEPT !.man = version.man, !.com = None]
  <1>1. /\ d.man # None /\ ready[c] = "commit" /\ Len(repo) < MaxVersions
        /\ \/ /\ Taken(version.man.ver) /\ repo' = Append(repo, version)
              /\ Leaves(c, new, "none") \/ Leaves(c, d, "none")
           \/ repo' = repo /\ Leaves(c, d, "none")
    BY DEF Push, PushCompared, PushStarts, Orderly
  <1>2. /\ Held(repo, d, ready[c]) /\ History(repo) /\ d.tree \in Trees /\ "none" \in LastCommands
        /\ Tracked(repo, d.man)
    BY <1>1, CopyHeld DEF Held
  <1>3. Committed(repo, d)
    BY <1>1, <1>2 DEF Held
  <1>4. Held(repo, d, "none")
    <2> HIDE DEF d
    <2> QED
      BY <1>2, PlainHeld
  <1>5. CASE repo' = repo /\ Leaves(c, d, "none")
    <2> HIDE DEF d
    <2> QED
      BY <1>2, <1>4, <1>5, LeftInv
  <1>6. CASE /\ Taken(version.man.ver) /\ repo' = Append(repo, version)
             /\ Leaves(c, new, "none") \/ Leaves(c, d, "none")
    <2>1. d.man.ver = Len(repo)
      <3>1. version.man.ver = d.man.ver + 1
        BY DEF Sent, Manifest
      <3>2. d.man.ver \in Nat /\ Len(repo) \in Nat
        BY <1>2, SyncAssumption DEF Tracked, Sound, SyncAssumption, History
      <3> QED
        BY <1>6, <3>1, <3>2 DEF Taken
    <2> HIDE DEF d
    <2>2. History(Append(repo, version)) /\ Tracked(Append(repo, version), version.man)
      BY <1>1, <1>2, <1>3, <2>1, SentHistory
    <2>3. Held(Append(repo, version), d, "none")
      BY <1>2, <1>4, GrownHeld
    <2>4. Held(Append(repo, version), new, "none")
      <3> HIDE DEF version
      <3>1. new = Fields(d.tree, version.man, d.upd, None, d.srv)
        <4>1. new = SetPushed(d, version.man, None)
          BY DEF SetPushed
        <4> QED
          BY <1>2, <4>1, FieldsSet
      <3> HIDE DEF new
      <3> QED
        BY <1>2, <2>2, <2>3, <3>1, VersionHeld
    <2> HIDE DEF new, version
    <2> QED
      BY <1>2, <1>6, <2>2, <2>3, <2>4, LeftInv
  <1> QED
    BY <1>1, <1>5, <1>6

----------------------------------------------------------------------------
(* The invariant. *)

LEMMA InitInv ==
    ASSUME SyncInit
    PROVE  SyncInv
  <1>1. repo = << >> /\ ready = [c \in Clients |-> "none"] /\ edits = 0
    BY DEF SyncInit
  <1>2. PICK creator \in Clients :
            copy = [c \in Clients |-> IF c = creator THEN [NoCopy EXCEPT !.man = EmptyManifest]
                                      ELSE NoCopy]
    BY DEF SyncInit
  <1>3. History(<< >>)
    <2>1. << >> \in Seq(Range(<< >>)) /\ Len(<< >>) = 0
      OBVIOUS
    <2> QED
      BY <2>1, SyncAssumption DEF History, SyncAssumption
  <1>4. Tracked(<< >>, EmptyManifest)
    <2>1. Range(EmptyManifest.items) = {}
      BY DEF EmptyManifest, Manifest, Range
    <2>2. EmptyManifest.ver <= Len(<< >>)
      BY EmptySound
    <2> QED
      BY <2>1, <2>2, EmptySound DEF Tracked
  <1> DEFINE tree == [f \in Names |-> Missing]
             made == [NoCopy EXCEPT !.man = EmptyManifest]
  <1>5. tree \in Trees
    BY DEF Trees
  <1>6. NoCopy = Fields(tree, None, None, None, None)
    BY DEF NoCopy, Fields
  <1> HIDE DEF tree
  <1>7. made = Fields(tree, EmptyManifest, None, None, None)
    BY <1>6, FieldSet
  <1> HIDE DEF made
  <1>8. Held(<< >>, NoCopy, "none") /\ Held(<< >>, made, "none")
    <2>1. ASSUME NEW man, man # None => Tracked(<< >>, man), NEW d,
                 d = Fields(tree, man, None, None, None)
          PROVE  Held(<< >>, d, "none")
      <3>1. /\ d.tree = tree /\ d.man = man /\ d.srv = None
            /\ d = [tree |-> d.tree, man |-> d.man, upd |-> d.upd, com |-> d.com, srv |-> d.srv]
        BY <2>1 DEF Fields
      <3> QED
        BY <1>5, <2>1, <3>1 DEF Held
    <2> QED
      BY <1>4, <1>6, <1>7, <2>1
  <1>9. copy = [c \in Clients |-> IF c = creator THEN made ELSE NoCopy]
    BY <1>2 DEF made
  <1>10. \A c \in Clients : Held(repo, copy[c], ready[c])
    BY <1>1, <1>8, <1>9
  <1>11. edits \in 0..MaxEdits /\ ready \in [Clients -> LastCommands]
    BY <1>1, SyncAssumption DEF SyncAssumption, LastCommands
  <1> QED
    BY <1>1, <1>3, <1>9, <1>10, <1>11 DEF SyncInv

LEMMA NextInv ==
    ASSUME Orderly, SyncInv, [SyncNext]_syncVars
    PROVE  SyncInv'
  <1>1. CASE UNCHANGED syncVars
    BY <1>1 DEF syncVars, SyncInv
  <1>2. ASSUME NEW c \in Clients, Command(c)
        PROVE  SyncInv'
    <2>1. ASSUME NEW f \in Names, Add(c, f) PROVE SyncInv'
      BY <2>1, AddInv
    <2>2. ASSUME NEW f \in Names, RemoveEntry(c, f) PROVE SyncInv'
      BY <2>2, RemoveInv
    <2> QED
      BY <1>2, <2>1, <2>2, CheckoutInv, UpdateInv, UpgradeInv, CommitInv, PushDropsFilesInv,
         PushNothingInv, PushInv DEF Command
  <1>3. ASSUME NEW c \in Clients, NEW f \in Names, NEW content \in Contents \cup {Missing},
               Edit(c, f, content)
        PROVE  SyncInv'
    BY <1>3, EditInv
  <1>4. ASSUME NEW v \in 1..MaxVersions, Rollback(v)
        PROVE  SyncInv'
    BY <1>4 DEF Rollback, Orderly
  <1> QED
    BY <1>1, <1>2, <1>3, <1>4 DEF SyncNext

\* The invariant holds.
THEOREM InvHolds ==
    ASSUME Orderly
    PROVE  SyncSpec => []SyncInv
  <1>1. SyncInit => SyncInv
    BY InitInv
  <1>2. SyncInv /\ [SyncNext]_syncVars => SyncInv'
    BY NextInv
  <1> QED
    BY <1>1, <1>2, PTL DEF SyncSpec

----------------------------------------------------------------------------
(* What follows from it. *)

LEMMA SoundWellformed ==
    ASSUME NEW man, Sound(man)
    PROVE  Wellformed(man)
  <1>1. /\ man.ver \in 0..MaxVersions /\ man.items \in Seq(Items) /\ Ordered(man.items)
    BY DEF Sound
  <1>2. DOMAIN man.items = 1..Len(man.items)
    BY <1>1
  <1>3. \A i \in DOMAIN man.items : man.items[i] \in Items
    BY <1>1
  <1>4. Sorted(man.items)
    BY <1>1, <1>2 DEF Sorted, Ordered
  <1> QED
    BY <1>1, <1>3, <1>4 DEF Wellformed

\* Manifests are sorted and name a file once, the server's and those of the copies
\* (util.c:507-672).
THEOREM TypeCorrect ==
    ASSUME Orderly
    PROVE  SyncSpec => []SyncTypeOK
  <1>1. ASSUME SyncInv
        PROVE  SyncTypeOK
    <2>1. History(repo) /\ DOMAIN repo = 1..Len(repo)
      BY <1>1 DEF SyncInv, History
    <2>2. \A n \in DOMAIN repo : Wellformed(repo[n].man) /\ repo[n].man.ver = n
      BY <2>1, SoundWellformed DEF History, Stored
    <2>3. ASSUME NEW c \in Clients
          PROVE  /\ copy[c].tree \in [Names -> Contents \cup {Missing}]
                 /\ \A file \in {copy[c].man, copy[c].srv} : file # None => Wellformed(file)
      <3>1. Held(repo, copy[c], ready[c])
        BY <1>1 DEF SyncInv
      <3>2. /\ copy[c].tree \in Trees
            /\ copy[c].man # None => Sound(copy[c].man)
            /\ copy[c].srv # None => Sound(copy[c].srv)
        BY <3>1 DEF Held, Tracked
      <3> QED
        BY <3>2, SoundWellformed DEF Trees
    <2> QED
      BY <1>1, <2>2, <2>3 DEF SyncInv, SyncTypeOK, LastCommands
  <1> QED
    BY <1>1, InvHolds, PTL

\* A version and the one before it.
LEMMA VersionBefore ==
    ASSUME SyncInv, NEW n \in DOMAIN repo
    PROVE  /\ Before(n) = At(repo, n - 1) /\ Sound(Before(n))
           /\ Stored(repo[n], n) /\ Sound(repo[n].man)
           /\ Told(Before(n).items, repo[n].man.items, repo[n].com.items)
           /\ "readd" \notin Mishaps => Counted(Before(n).items, repo[n].man.items)
  <1>1. History(repo) /\ n \in 1..Len(repo) /\ Len(repo) \in Nat
    BY DEF SyncInv, History
  <1>2. Before(n) = At(repo, n - 1) /\ n - 1 \in 0..Len(repo)
    BY <1>1 DEF Before, At
  <1>3. Sound(Before(n))
    BY <1>1, <1>2, AtSound
  <1> QED
    BY <1>1, <1>2, <1>3 DEF History, Stored

\* A file keeps its file version exactly as long as it keeps its content, where no user
\* adds again what the server has (client.c:517-518, util.c:716-722).
THEOREM VersionsNameContents ==
    ASSUME Orderly, "readd" \notin Mishaps
    PROVE  SyncSpec => []FileVersionNamesContent
  <1>1. ASSUME SyncInv
        PROVE  FileVersionNamesContent
    <2> SUFFICES ASSUME NEW n \in DOMAIN repo,
                        NEW f \in NamesOf(Before(n).items) \cap NamesOf(repo[n].man.items)
                 PROVE  ItemNamed(Before(n), f).ver = ItemNamed(repo[n].man, f).ver
                        <=> ItemNamed(Before(n), f).hash = ItemNamed(repo[n].man, f).hash
      BY DEF FileVersionNamesContent
    <2>1. /\ Sound(Before(n)) /\ Sound(repo[n].man)
          /\ Counted(Before(n).items, repo[n].man.items)
      BY <1>1, VersionBefore
    <2>2. PICK o \in Range(Before(n).items) : o.name = f
      BY NamedIn
    <2>3. PICK w \in Range(repo[n].man.items) : w.name = f
      BY NamedIn
    <2>4. ItemNamed(Before(n), f) = o /\ ItemNamed(repo[n].man, f) = w
      BY <2>1, <2>2, <2>3, ItemFound
    <2> QED
      BY <2>1, <2>2, <2>3, <2>4 DEF Counted
  <1> QED
    BY <1>1, InvHolds, PTL

\* The .Commit stored with a version, which history shows, says what the version changed
\* (client.c:517-582).
THEOREM CommitsDescribePushes ==
    ASSUME Orderly
    PROVE  SyncSpec => []CommitDescribesPush
  <1>1. ASSUME SyncInv
        PROVE  CommitDescribesPush
    <2> SUFFICES ASSUME NEW n \in DOMAIN repo
                 PROVE  LET old == Before(n).items
                            new == repo[n].man.items
                            listed == repo[n].com.items
                        IN  /\ {listed[k].name : k \in {l \in DOMAIN listed : listed[l].code = Added}}
                                 = NamesOf(old) \ NamesOf(new)
                            /\ {listed[k].name : k \in {l \in DOMAIN listed : listed[l].code = Upload}}
                                 = {f \in NamesOf(new) :
                                       f \notin NamesOf(old)
                                       \/ ItemNamed(Before(n), f).hash # ItemNamed(repo[n].man, f).hash}
      BY DEF CommitDescribesPush
    <2> DEFINE old == Before(n).items
               new == repo[n].man.items
               listed == repo[n].com.items
               Named(code) == {listed[k].name : k \in {l \in DOMAIN listed : listed[l].code = code}}
               Kind(f) == f \notin NamesOf(old)
                          \/ ItemNamed(Before(n), f).hash # ItemNamed(repo[n].man, f).hash
    <2>1. Sound(Before(n)) /\ Sound(repo[n].man) /\ Told(old, new, listed)
      BY <1>1, VersionBefore
    <2> HIDE DEF listed
    <2>2. DOMAIN listed = 1..Len(listed)
      BY <2>1 DEF Told
    <2>3. \A code, f : f \in Named(code) <=> Listed(listed, code, f)
      BY <2>2 DEF Listed
    <2> HIDE DEF Named
    <2>4. Named(Added) = NamesOf(old) \ NamesOf(new)
      BY <2>1, <2>3 DEF Told
    <2>5. ASSUME NEW f \in NamesOf(new)
          PROVE  Kind(f) <=> \A o \in Range(old), w \in Range(new) :
                                o.name = f /\ w.name = f => o.hash # w.hash
      <3>1. PICK w \in Range(new) : w.name = f
        BY NamedIn
      <3>2. ItemNamed(repo[n].man, f) = w /\ \A z \in Range(new) : z.name = f => z = w
        BY <2>1, <3>1, ItemFound, OneItem
      <3>3. CASE f \notin NamesOf(old)
        <4>1. \A o \in Range(old) : o.name # f
          BY <3>3, NamedIn
        <4> QED
          BY <3>3, <4>1
      <3>4. CASE f \in NamesOf(old)
        <4>1. PICK o \in Range(old) : o.name = f
          BY <3>4, NamedIn
        <4>2. ItemNamed(Before(n), f) = o /\ \A z \in Range(old) : z.name = f => z = o
          BY <2>1, <4>1, ItemFound, OneItem
        <4> QED
          BY <3>1, <3>2, <3>4, <4>1, <4>2
      <3> QED
        BY <3>3, <3>4
    <2> HIDE DEF Kind
    <2>6. Named(Upload) = {f \in NamesOf(new) : Kind(f)}
      BY <2>1, <2>3, <2>5 DEF Told
    <2> QED
      BY <2>4, <2>6 DEF Named, Kind, listed
  <1> QED
    BY <1>1, InvHolds, PTL

\* A copy whose manifest states a version has that version's items and files it added
\* itself: a push replaces what its author has seen (logic.c:267).
THEOREM CopiesDerive ==
    ASSUME Orderly
    PROVE  SyncSpec => []CopyDerivesFromVersion
  <1>1. ASSUME SyncInv
        PROVE  CopyDerivesFromVersion
    <2> SUFFICES ASSUME NEW c \in Clients, copy[c].man # None, copy[c].man.ver \in 1..Len(repo),
                        NEW m \in Range(copy[c].man.items)
                 PROVE  m \in Range(repo[copy[c].man.ver].man.items)
                                 \cup {Item(f, 0, NoHash) : f \in Names}
      BY DEF CopyDerivesFromVersion
    <2> DEFINE man == copy[c].man
    <2>1. Tracked(repo, man) /\ Sound(man)
      BY <1>1, CopyHeld
    <2>2. At(repo, man.ver) = repo[man.ver].man
      BY DEF At
    <2>3. m \in Items /\ m.name \in Names
      BY <2>1, SoundItem
    <2>4. CASE m \in Range(At(repo, man.ver).items)
      BY <2>2, <2>4
    <2>5. CASE Fresh(repo, man.ver, m)
      <3>1. m = Item(m.name, m.ver, m.hash)
        BY <2>3 DEF Items, Item
      <3> QED
        BY <2>3, <2>5, <3>1 DEF Fresh
    <2> QED
      BY <2>1, <2>4, <2>5 DEF Tracked
  <1> QED
    BY <1>1, InvHolds, PTL

----------------------------------------------------------------------------
(* Update and upgrade. *)

\* What an .Update says of its copy c and the version s it names.
Says(c, s, same, tree, list) ==
    /\ list \in Seq(Range(list))
    /\ Agreed(c, s, same, tree)
    /\ list = << >> => Current(c, s, tree)

LEMMA UpdateSays ==
    ASSUME NEW r, History(r), NEW d, Tracked(r, d.man), Updated(r, d)
    PROVE  LET theirs == At(r, d.upd.ver)
               mine == Mine(d)
           IN  /\ d.upd.ver \in 0..Len(r) /\ Sound(theirs) /\ Sound(mine)
               /\ Present(mine.items, d.man.items, d.tree)
               /\ mine.items = Kept(d.man.items, d.tree)
               /\ Says(mine.items, theirs.items, mine.ver = theirs.ver, d.tree, d.upd.items)
               /\ Aligned(mine, theirs)
                  => Entries(mine.items, theirs.items, mine.ver = theirs.ver, d.tree, d.upd.items)
  <1> DEFINE theirs == At(r, d.upd.ver)
             mine == Mine(d)
             marks == Marks(mine, theirs, d.tree)
             list == ChangeList(marks, mine, theirs)
             same == mine.ver = theirs.ver
  <1>1. /\ d.upd.ver \in 0..Len(r) /\ ~HasConflict(marks)
        /\ \A k \in DOMAIN list : list[k].code # Upload
        /\ d.upd = Manifest(d.upd.ver, Written(list, UpdateCodes))
    BY DEF Updated
  <1>2. Sound(theirs)
    BY <1>1, AtSound
  <1>3. /\ mine.items = Kept(d.man.items, d.tree)
        /\ Sound(mine) /\ Present(mine.items, d.man.items, d.tree)
    <2>1. Sound(d.man)
      BY DEF Tracked
    <2> QED
      BY <2>1, KeptSound DEF Mine, Manifest
  <1>4. /\ mine.items \in Seq(Items) /\ theirs.items \in Seq(Items)
        /\ Ordered(mine.items) /\ Ordered(theirs.items)
    BY <1>2, <1>3 DEF Sound
  <1> DEFINE m == marks
             l == list
  <1>5. m = Marks(mine, theirs, d.tree) /\ l = ChangeList(m, mine, theirs)
    OBVIOUS
  <1>6. ~HasConflict(m) /\ NoUpload(l)
    BY <1>1 DEF NoUpload
  <1>7. d.upd.items = Written(l, UpdateCodes)
    BY <1>1 DEF Manifest
  <1> HIDE DEF m, l, marks, list, mine, theirs
  <1>8. UpdateReady(mine, theirs, d.tree, l)
    BY <1>4, <1>5, <1>6, UpdateList
  <1>9. Says(mine.items, theirs.items, mine.ver = theirs.ver, d.tree, d.upd.items)
    BY <1>7, <1>8 DEF Says, UpdateReady
  <1>10. ASSUME Aligned(mine, theirs)
         PROVE  Entries(mine.items, theirs.items, mine.ver = theirs.ver, d.tree, d.upd.items)
    <2>1. Entries(mine.items, theirs.items, mine.ver = theirs.ver, d.tree,
                  ChangeList(m, mine, theirs))
      BY <1>4, <1>5, <1>6, <1>10, ListedEntries, Zenon
    <2>2. Written(l, UpdateCodes) = l
      BY <1>8 DEF UpdateReady
    <2> QED
      BY <1>5, <1>7, <2>1, <2>2, Zenon
  <1> QED
    BY <1>1, <1>2, <1>3, <1>9, <1>10 DEF mine, theirs

\* "Nothing to Update!" is true: a copy for which update writes an empty list has every
\* file of the server's version, with the content it has there, and tracks no other
\* (client.c:399-402).
THEOREM NothingMeansCurrent ==
    ASSUME Orderly
    PROVE  SyncSpec => []NothingToUpdateIsCurrent
  <1>1. ASSUME SyncInv
        PROVE  NothingToUpdateIsCurrent
    <2> SUFFICES ASSUME NEW c \in Clients, ready[c] = "update",
                        copy[c].upd.items = << >>, copy[c].upd.ver > 0
                 PROVE  /\ NamesOf(Kept(copy[c].man.items, copy[c].tree))
                             = DOMAIN repo[copy[c].upd.ver].files
                        /\ \A f \in DOMAIN repo[copy[c].upd.ver].files :
                              copy[c].tree[f] = repo[copy[c].upd.ver].files[f]
      BY DEF NothingToUpdateIsCurrent
    <2> DEFINE d == copy[c]
               v == d.upd.ver
               files == repo[v].files
               mine == Mine(d)
               theirs == At(repo, v)
    <2>1. History(repo) /\ Updated(repo, d) /\ Tracked(repo, d.man)
      BY <1>1, CopyHeld DEF Held, Updated
    <2> HIDE DEF d
    <2>2. /\ v \in 0..Len(repo) /\ Sound(theirs) /\ Sound(mine)
          /\ mine.items = Kept(d.man.items, d.tree)
          /\ Says(mine.items, theirs.items, mine.ver = theirs.ver, d.tree, d.upd.items)
      BY <2>1, UpdateSays
    <2>3. theirs = repo[v].man /\ Stored(repo[v], v)
      <3>1. Len(repo) \in Nat /\ v > 0
        BY <2>1 DEF History, d
      <3>2. v \in 1..Len(repo) /\ v # 0
        BY <2>2, <3>1
      <3> QED
        BY <2>1, <3>2 DEF History, At
    <2> HIDE DEF v, mine, theirs
    <2>4. Current(mine.items, theirs.items, d.tree)
      BY <2>2 DEF Says, d
    <2>5. /\ \A m : m \in Range(mine.items) <=> \E x \in 1..Len(mine.items) : m = mine.items[x]
          /\ \A m : m \in Range(theirs.items) <=> \E y \in 1..Len(theirs.items) : m = theirs.items[y]
      BY <2>2, InRange DEF Sound
    <2>6. \A f : f \in NamesOf(mine.items) <=> f \in NamesOf(theirs.items)
      <3>1. DOMAIN mine.items = 1..Len(mine.items) /\ DOMAIN theirs.items = 1..Len(theirs.items)
        BY <2>2 DEF Sound
      <3>2. /\ \A f : f \in NamesOf(mine.items)
                       <=> \E x \in 1..Len(mine.items) : mine.items[x].name = f
            /\ \A f : f \in NamesOf(theirs.items)
                       <=> \E y \in 1..Len(theirs.items) : theirs.items[y].name = f
        BY <3>1 DEF NamesOf
      <3>3. /\ \A x \in 1..Len(mine.items) :
                    \E y \in 1..Len(theirs.items) : mine.items[x].name = theirs.items[y].name
            /\ \A y \in 1..Len(theirs.items) :
                    \E x \in 1..Len(mine.items) : theirs.items[y].name = mine.items[x].name
        BY <2>4 DEF Current, OnlyIn
      <3> QED
        BY <3>2, <3>3, ZenonT(90)
    <2>7. DOMAIN files = NamesOf(theirs.items)
      BY <2>3 DEF Stored
    <2>8. ASSUME NEW f \in DOMAIN files
          PROVE  d.tree[f] = files[f]
      <3>1. PICK y \in 1..Len(theirs.items) : theirs.items[y].name = f
        BY <2>5, <2>7, NamedIn
      <3>2. PICK x \in 1..Len(mine.items) : mine.items[x].name = f
        BY <2>5, <2>6, <2>7, NamedIn
      <3>3. d.tree[f] = theirs.items[y].hash
        BY <2>4, <3>1, <3>2 DEF Current
      <3>4. files[f] = theirs.items[y].hash
        BY <2>3, <2>5, <3>1 DEF Stored
      <3> QED
        BY <3>3, <3>4
    <2>9. NamesOf(mine.items) = DOMAIN files
      <3>1. NamesOf(mine.items) = NamesOf(theirs.items)
        BY <2>6
      <3> QED
        BY <2>7, <3>1
    <2> QED
      BY <2>2, <2>8, <2>9 DEF d, v
  <1> QED
    BY <1>1, InvHolds, PTL

\* .Update lists what has to change and nothing twice, where each file that the server has
\* changed stands at the same place of both lists (util.c:507-672).
THEOREM UpdatesListDifferences ==
    ASSUME Orderly
    PROVE  SyncSpec => []UpdateListsDifferences
  <1>1. ASSUME SyncInv
        PROVE  UpdateListsDifferences
    <2> DEFINE Both(mine, theirs) ==
                   {k \in (DOMAIN mine) \X (DOMAIN theirs) : mine[k[1]].name = theirs[k[2]].name}
               Changed(mine, theirs) ==
                   {k \in Both(mine, theirs) : mine[k[1]].ver # theirs[k[2]].ver}
               NamesWith(list, code) == {e.name : e \in {x \in Range(list) : x.code = code}}
               ListsDifferences(mine, theirs, tree, list) ==
                   /\ IsInjective(list)
                   /\ NamesWith(list, Added) = NamesOf(theirs) \ NamesOf(mine)
                   /\ NamesWith(list, Deleted) = NamesOf(mine) \ NamesOf(theirs)
                   /\ NamesWith(list, Modified) \subseteq {mine[k[1]].name : k \in Changed(mine, theirs)}
                   /\ \A k \in Both(mine, theirs) :
                         LET f == mine[k[1]].name
                         IN  f \notin NamesWith(list, Modified) => tree[f] = theirs[k[2]].hash
    <2>1. ASSUME NEW c \in Clients, ready[c] = "update",
                 \A k \in Changed(Kept(copy[c].man.items, copy[c].tree),
                                   Before(copy[c].upd.ver + 1).items) : k[1] = k[2]
          PROVE  ListsDifferences(Kept(copy[c].man.items, copy[c].tree), Before(copy[c].upd.ver + 1).items,
                        copy[c].tree, copy[c].upd.items)
      <3> DEFINE d == copy[c]
                 v == d.upd.ver
                 a == Mine(d)
                 b == At(repo, v)
                 mine == a.items
                 theirs == b.items
                 list == d.upd.items
                 same == a.ver = b.ver
      <3>1. History(repo) /\ Updated(repo, d) /\ Tracked(repo, d.man)
        BY <1>1, <2>1, CopyHeld DEF Held, Updated
      <3> HIDE DEF d
      <3>2. /\ v \in 0..Len(repo) /\ Sound(b) /\ Sound(a)
            /\ mine = Kept(d.man.items, d.tree)
            /\ Says(mine, theirs, same, d.tree, list)
            /\ Aligned(a, b) => Entries(mine, theirs, same, d.tree, list)
        BY <3>1, UpdateSays
      <3>3. Before(v + 1) = b
        <4>1. Len(repo) \in Nat
          BY <3>1 DEF History
        <4>2. v \in Nat /\ v + 1 - 1 = v /\ (v + 1 = 1 <=> v = 0)
          BY <3>2, <4>1
        <4> QED
          BY <4>2 DEF Before, At
      <3>4. /\ mine \in Seq(Items) /\ theirs \in Seq(Items)
            /\ DOMAIN mine = 1..Len(mine) /\ DOMAIN theirs = 1..Len(theirs)
        BY <3>2 DEF Sound
      <3>5. \A k \in Changed(mine, theirs) : k[1] = k[2]
        BY <2>1, <3>2, <3>3 DEF d
      <3>6. Aligned(a, b)
        <4> SUFFICES ASSUME NEW x \in 1..Len(mine), NEW y \in 1..Len(theirs),
                            mine[x].name = theirs[y].name, mine[x].ver # theirs[y].ver
                     PROVE  x = y
          BY DEF Aligned
        <4> HIDE DEF mine, theirs
        <4>1. <<x, y>> \in Changed(mine, theirs)
          BY <3>4
        <4> QED
          BY <3>5, <4>1
      <3> HIDE DEF v, a, b
      <3>7. Entries(mine, theirs, same, d.tree, list) /\ Agreed(mine, theirs, same, d.tree)
        BY <3>2, <3>6 DEF Says
      <3>8. /\ \A f : f \in NamesOf(mine) <=> \E x \in 1..Len(mine) : mine[x].name = f
            /\ \A f : f \in NamesOf(theirs) <=> \E y \in 1..Len(theirs) : theirs[y].name = f
        BY <3>4 DEF NamesOf
      <3>9. \A code, f : f \in NamesWith(list, code) <=> Listed(list, code, f)
        <4>1. DOMAIN list = 1..Len(list)
          <5>1. list \in Seq(Range(list))
            BY <3>2 DEF Says
          <5> QED
            BY <5>1
        <4> QED
          BY <4>1 DEF Listed, Range
      <3> HIDE DEF list, mine, theirs, same, NamesWith
      <3>10. NamesWith(list, Added) = NamesOf(theirs) \ NamesOf(mine)
        BY <3>7, <3>8, <3>9 DEF Entries, OnlyIn
      <3>11. NamesWith(list, Deleted) = NamesOf(mine) \ NamesOf(theirs)
        BY <3>7, <3>8, <3>9 DEF Entries, OnlyIn, Agreed
      <3>12. NamesWith(list, Modified) \subseteq {mine[k[1]].name : k \in Changed(mine, theirs)}
        <4> SUFFICES ASSUME NEW f \in NamesWith(list, Modified)
                     PROVE  \E k \in Changed(mine, theirs) : f = mine[k[1]].name
          OBVIOUS
        <4>1. PICK x \in 1..Len(mine) : f = mine[x].name /\ Outdated(mine, theirs, d.tree, x)
          BY <3>7, <3>9 DEF Entries
        <4>2. PICK y \in 1..Len(theirs) : mine[x].name = theirs[y].name /\ mine[x].ver # theirs[y].ver
          BY <4>1 DEF Outdated
        <4>3. <<x, y>> \in Changed(mine, theirs)
          BY <3>4, <4>2
        <4> QED
          BY <4>1, <4>3
      <3>13. ASSUME NEW k \in Both(mine, theirs), mine[k[1]].name \notin NamesWith(list, Modified)
             PROVE  d.tree[mine[k[1]].name] = theirs[k[2]].hash
        <4>1. k[1] \in 1..Len(mine) /\ k[2] \in 1..Len(theirs) /\ mine[k[1]].name = theirs[k[2]].name
          BY <3>4
        <4>2. ~Listed(list, Modified, mine[k[1]].name)
          BY <3>9, <3>13
        <4> QED
          BY <3>7, <4>1, <4>2 DEF Entries, Agreed, Outdated
      <3>14. IsInjective(list)
        <4>1. Ordered(list)
          BY <3>7 DEF Entries
        <4> QED
          BY <4>1, OneName DEF IsInjective
      <3>15. ListsDifferences(mine, theirs, d.tree, list)
        BY <3>10, <3>11, <3>12, <3>13, <3>14
      <3> HIDE DEF ListsDifferences
      <3> QED
        BY <3>2, <3>3, <3>15 DEF d, v, b, theirs, list
    <2> QED
      BY <2>1 DEF UpdateListsDifferences
  <1> QED
    BY <1>1, InvHolds, PTL

\* What upgrade makes of the files of a copy.
LEMMA UpgradeTree ==
    ASSUME SyncInv, NEW c \in Clients, Upgrade(c)
    PROVE  \/ copy'[c].tree = copy[c].tree
           \/ /\ copy[c].upd.ver \in 1..Len(repo)
              /\ copy'[c].tree
                   = Extracted(copy[c].tree, copy[c].upd.ver, NamesOf(copy[c].upd.items))
  <1> DEFINE d == copy[c]
             v == d.upd.ver
             tree == Extracted(d.tree, v, NamesOf(d.upd.items))
             e == [d EXCEPT !.upd = None]
             new == [d EXCEPT !.tree = tree, !.man = repo[v].man, !.upd = None]
  <1>1. \/ Leaves(c, e, "none")
        \/ v \in 1..Len(repo) /\ Leaves(c, new, "none")
    BY DEF Upgrade
  <1>2. Held(repo, d, ready[c]) /\ History(repo) /\ d.tree \in Trees
    BY CopyHeld DEF Held
  <1>3. ASSUME NEW x, Leaves(c, x, "none"), Held(repo, x, "none")
        PROVE  copy'[c].tree = x.tree
    <2>1. copy' = [copy EXCEPT ![c] = Readable(x, "none")]
      BY <1>3 DEF Leaves
    <2>2. DOMAIN copy = Clients
      BY DEF SyncInv
    <2>3. copy'[c] = Readable(x, "none")
      BY <2>1, <2>2
    <2> QED
      BY <1>3, <2>3, ReadableHeld
  <1>4. CASE Leaves(c, e, "none")
    <2>1. Held(repo, e, "none")
      <3> HIDE DEF d
      <3> QED
        BY <1>2, PlainHeld
    <2>2. e.tree = d.tree
      <3> HIDE DEF d
      <3> QED
        BY <1>2 DEF Held
    <2> HIDE DEF e
    <2> QED
      BY <1>3, <1>4, <2>1, <2>2
  <1>5. CASE v \in 1..Len(repo) /\ Leaves(c, new, "none")
    <2>1. tree \in Trees /\ Tracked(repo, repo[v].man)
      <3> HIDE DEF d, v
      <3> QED
        BY <1>2, <1>5, VersionBrings
    <2> HIDE DEF d, v, tree
    <2>2. new = Fields(tree, repo[v].man, None, d.com, d.srv)
      <3>1. new = SetUpgraded(d, tree, repo[v].man, None)
        BY DEF SetUpgraded
      <3> QED
        BY <1>2, <3>1, FieldsSet
    <2> HIDE DEF new
    <2>3. Held(repo, new, "none")
      BY <1>2, <2>1, <2>2, VersionHeld
    <2>4. new.tree = tree
      BY <2>2 DEF Fields
    <2>5. copy'[c].tree = tree
      BY <1>3, <1>5, <2>3, <2>4
    <2> QED
      BY <1>5, <2>5 DEF d, v, tree
  <1> QED
    BY <1>1, <1>4, <1>5

\* upgrade never overwrites a tracked file whose content the user has edited: update
\* writes no list for a copy with an edit of its own, unless the edit made the file what
\* the server has, and the copy is still as update found it (client.c:406-423).
THEOREM UpgradesKeepEdits ==
    ASSUME Orderly
    PROVE  SyncSpec => UpgradeKeepsEdits
  <1>1. ASSUME SyncInv, NEW c \in Clients, Upgrade(c), NEW x \in DOMAIN copy[c].man.items,
               copy[c].tree[copy[c].man.items[x].name]
                 \notin {copy[c].man.items[x].hash, Missing}
        PROVE  copy'[c].tree[copy[c].man.items[x].name] = copy[c].tree[copy[c].man.items[x].name]
    <2> DEFINE d == copy[c]
               v == d.upd.ver
               item == d.man.items[x]
               f == item.name
               mine == Mine(d)
               theirs == At(repo, v)
               files == repo[v].files
    <2>1. /\ History(repo) /\ Updated(repo, d) /\ Tracked(repo, d.man) /\ Sound(d.man)
          /\ d.tree \in Trees
      <3>1. ready[c] = "update" /\ d.man # None
        BY <1>1 DEF Orderly, Upgrade
      <3> QED
        BY <1>1, <3>1, CopyHeld DEF Held
    <2>2. item \in Range(d.man.items) /\ f \in Names
      <3>1. item \in Range(d.man.items)
        BY <1>1 DEF Range
      <3> QED
        BY <2>1, <3>1, SoundItem
    <2>3. \/ copy'[c].tree = d.tree
          \/ /\ v \in 1..Len(repo)
             /\ copy'[c].tree = Extracted(d.tree, v, NamesOf(d.upd.items))
      BY <1>1, UpgradeTree
    <2>4. d.tree[f] # item.hash /\ d.tree[f] # Missing
      BY <1>1
    <2> HIDE DEF d, item
    <2>5. /\ Sound(theirs) /\ Sound(mine) /\ Present(mine.items, d.man.items, d.tree)
          /\ Agreed(mine.items, theirs.items, mine.ver = theirs.ver, d.tree)
      BY <2>1, UpdateSays DEF Says
    <2>6. item \in Range(mine.items)
      BY <2>2, <2>4, <2>5 DEF Present
    <2>7. ASSUME v \in 1..Len(repo), f \in DOMAIN files
          PROVE  files[f] = d.tree[f]
      <3>1. theirs = repo[v].man /\ Stored(repo[v], v)
        <4>1. v # 0
          BY <2>7
        <4> QED
          BY <2>1, <2>7, <4>1 DEF History, At
      <3> HIDE DEF mine, theirs, v
      <3>2. /\ \A m : m \in Range(mine.items) <=> \E i \in 1..Len(mine.items) : m = mine.items[i]
            /\ \A m : m \in Range(theirs.items) <=> \E j \in 1..Len(theirs.items) : m = theirs.items[j]
        BY <2>5, InRange DEF Sound
      <3>3. PICK i \in 1..Len(mine.items) : item = mine.items[i]
        BY <2>6, <3>2
      <3>4. PICK n \in Range(theirs.items) : n.name = f
        BY <2>7, <3>1, NamedIn DEF Stored
      <3>5. PICK j \in 1..Len(theirs.items) : n = theirs.items[j]
        BY <3>2, <3>4
      <3>6. d.tree[f] = n.hash
        BY <2>4, <2>5, <3>3, <3>4, <3>5 DEF Agreed
      <3>7. files[f] = n.hash
        BY <3>1, <3>4 DEF Stored
      <3> QED
        BY <3>6, <3>7
    <2>8. copy'[c].tree[f] = d.tree[f]
      <3> HIDE DEF v, f
      <3> QED
        BY <2>2, <2>3, <2>7 DEF Extracted
    <2> QED
      BY <2>8 DEF d, item
  <1>2. SyncInv => \A c \in Clients :
            Upgrade(c) /\ ~Checkout(c) => \A i \in DOMAIN copy[c].man.items :
                LET item == copy[c].man.items[i]
                IN  copy[c].tree[item.name] \notin {item.hash, Missing}
                    => copy'[c].tree[item.name] = copy[c].tree[item.name]
    BY <1>1
  <1> QED
    BY <1>2, InvHolds, PTL DEF UpgradeKeepsEdits

----------------------------------------------------------------------------
(* What is stored, whatever users do and in whatever order.               *)

\* A file of a version and a list of entries.
Listing(file) == file = Manifest(file.ver, file.items) /\ file.items \in Seq(Range(file.items))

\* The manifest has the hash of every file of the archive, and of no other.
Whole(version) ==
    /\ Listing(version.man) /\ Listing(version.com)
    /\ DOMAIN version.files = NamesOf(version.man.items)
    /\ \A x \in DOMAIN version.man.items :
          version.files[version.man.items[x].name] = version.man.items[x].hash

AllWhole(r) == r \in Seq(Range(r)) /\ \A n \in 1..Len(r) : Whole(r[n])

Loose(d) ==
    /\ d = Fields(d.tree, d.man, d.upd, d.com, d.srv)
    /\ d.man # None => Listing(d.man)
    /\ d.com # None => Listing(d.com)

StoreInv ==
    /\ AllWhole(repo)
    /\ copy = [c \in Clients |-> copy[c]]
    /\ \A c \in Clients : Loose(copy[c])

LEMMA ListingMade ==
    ASSUME NEW S, NEW s \in Seq(S), NEW v
    PROVE  Listing(Manifest(v, s))
  <1>1. s \in Seq(Range(s))
    <2>1. DOMAIN s = 1..Len(s) /\ Len(s) \in Nat /\ s = [x \in 1..Len(s) |-> s[x]]
      OBVIOUS
    <2>2. \A x \in 1..Len(s) : s[x] \in Range(s)
      BY <2>1 DEF Range
    <2> QED
      BY <2>1, <2>2
  <1>2. Manifest(v, s).ver = v /\ Manifest(v, s).items = s
    BY DEF Manifest
  <1> QED
    BY <1>1, <1>2 DEF Listing

LEMMA FilterListed ==
    ASSUME NEW s, s \in Seq(Range(s)), NEW keep, keep \subseteq DOMAIN s
    PROVE  Filter(s, keep) \in Seq(Range(s))
  BY FilterFacts

\* A copy with these fields.
LEMMA FieldsLoose ==
    ASSUME NEW tree, NEW man, NEW upd, NEW com, NEW srv, man # None => Listing(man),
           com # None => Listing(com), NEW d, d = Fields(tree, man, upd, com, srv)
    PROVE  Loose(d)
  <1>1. d.tree = tree /\ d.man = man /\ d.upd = upd /\ d.com = com /\ d.srv = srv
    BY DEF Fields
  <1> QED
    BY <1>1 DEF Loose

\* The changes of one field.
LEMMA LooseSet ==
    ASSUME NEW d, Loose(d), NEW x
    PROVE  /\ Loose([d EXCEPT !.tree = x])
           /\ Loose([d EXCEPT !.upd = x])
           /\ (x # None => Listing(x)) => Loose([d EXCEPT !.man = x])
           /\ (x # None => Listing(x)) => Loose([d EXCEPT !.com = x])
  <1>1. PICK t, m, u, k, s : d = Fields(t, m, u, k, s)
    BY DEF Loose
  <1>2. (m # None => Listing(m)) /\ (k # None => Listing(k))
    <2>1. d.man = m /\ d.com = k
      BY <1>1, FieldSet
    <2> QED
      BY <2>1 DEF Loose
  <1>3. Loose([d EXCEPT !.tree = x])
    <2>1. [d EXCEPT !.tree = x] = Fields(x, m, u, k, s)
      BY <1>1, FieldSet
    <2> QED
      BY <1>2, <2>1, FieldsLoose, Zenon
  <1>4. Loose([d EXCEPT !.upd = x])
    <2>1. [d EXCEPT !.upd = x] = Fields(t, m, x, k, s)
      BY <1>1, FieldSet
    <2> QED
      BY <1>2, <2>1, FieldsLoose, Zenon
  <1>5. ASSUME x # None => Listing(x) PROVE Loose([d EXCEPT !.man = x])
    <2>1. [d EXCEPT !.man = x] = Fields(t, x, u, k, s)
      BY <1>1, FieldSet
    <2> QED
      BY <1>2, <1>5, <2>1, FieldsLoose, Zenon
  <1>6. ASSUME x # None => Listing(x) PROVE Loose([d EXCEPT !.com = x])
    <2>1. [d EXCEPT !.com = x] = Fields(t, m, u, x, s)
      BY <1>1, FieldSet
    <2> QED
      BY <1>2, <1>6, <2>1, FieldsLoose, Zenon
  <1> QED
    BY <1>3, <1>4, <1>5, <1>6, Zenon

\* The changes of several.
LEMMA LooseSetAll ==
    ASSUME NEW d, Loose(d), NEW x, NEW y, Listing(y), NEW z, NEW e,
           \/ e = SetVersion(d, x, y, z) /\ Listing(z)
           \/ e = SetUpgraded(d, x, y, z)
           \/ e = SetPushed(d, y, z) /\ z = None
           \/ e = SetCleaned(d, x, y)
    PROVE  Loose(e)
  <1>1. d = Fields(d.tree, d.man, d.upd, d.com, d.srv) /\ (d.com # None => Listing(d.com))
    BY DEF Loose
  <1>2. PICK t, u, s : \/ e = Fields(t, y, u, z, s) /\ (z # None => Listing(z))
                       \/ e = Fields(t, y, u, d.com, s)
    <2>1. CASE e = SetVersion(d, x, y, z) /\ Listing(z)
      BY <1>1, <2>1, FieldsSetAny
    <2>2. CASE e = SetUpgraded(d, x, y, z)
      BY <1>1, <2>2, FieldsSetAny
    <2>3. CASE e = SetPushed(d, y, z) /\ z = None
      BY <1>1, <2>3, FieldsSetAny
    <2>4. CASE e = SetCleaned(d, x, y)
      BY <1>1, <2>4, FieldsSetAny
    <2> QED
      BY <2>1, <2>2, <2>3, <2>4
  <1>3. y # None => Listing(y)
    OBVIOUS
  <1> QED
    BY <1>1, <1>2, <1>3, FieldsLoose, Zenon

LEMMA ItemsLoose ==
    ASSUME NEW d, Loose(d), d.man # None, NEW items, Listing(Manifest(d.man.ver, items))
    PROVE  Loose([d EXCEPT !.man.items = items])
  <1>1. d.man = [ver |-> d.man.ver, items |-> d.man.items]
    BY DEF Loose, Listing, Manifest
  <1>2. [d.man EXCEPT !.items = items] = Manifest(d.man.ver, items)
    BY <1>1 DEF Manifest
  <1>3. [d EXCEPT !.man.items = items] = [d EXCEPT !.man = Manifest(d.man.ver, items)]
    BY <1>2
  <1> QED
    BY <1>3, LooseSet

LEMMA ReadableLoose ==
    ASSUME NEW d, Loose(d), NEW next
    PROVE  Loose(Readable(d, next))
  <1>1. CASE "stale" \in Mishaps
    BY <1>1 DEF Readable
  <1>2. CASE "stale" \notin Mishaps
    <2>1. Readable(d, next) = [d EXCEPT !.upd = IF next = "update" THEN @ ELSE None,
                                        !.com = IF next = "commit" THEN @ ELSE None,
                                        !.srv = IF next = "commit" THEN @ ELSE None]
      BY <1>2 DEF Readable
    <2>2. Readable(d, next) = Fields(d.tree, d.man,
                                     IF next = "update" THEN d.upd ELSE None,
                                     IF next = "commit" THEN d.com ELSE None,
                                     IF next = "commit" THEN d.srv ELSE None)
      BY <2>1 DEF Loose, Fields
    <2>3. (IF next = "commit" THEN d.com ELSE None) # None => Listing(IF next = "commit" THEN d.com ELSE None)
      BY DEF Loose
    <2>4. d.man # None => Listing(d.man)
      BY DEF Loose
    <2> QED
      BY <2>2, <2>3, <2>4, FieldsLoose
  <1> QED
    BY <1>1, <1>2

LEMMA LooseLeft ==
    ASSUME StoreInv, NEW c \in Clients, NEW new, NEW next, Leaves(c, new, next), Loose(new),
           AllWhole(repo')
    PROVE  StoreInv'
  <1>1. copy' = [copy EXCEPT ![c] = Readable(new, next)]
    BY DEF Leaves
  <1>2. Loose(Readable(new, next))
    BY ReadableLoose
  <1>3. copy = [b \in Clients |-> copy[b]] /\ \A b \in Clients : Loose(copy[b])
    BY DEF StoreInv
  <1>4. copy' = [b \in Clients |-> copy'[b]]
        /\ \A b \in Clients : copy'[b] = IF b = c THEN Readable(new, next) ELSE copy[b]
    BY <1>1, <1>3
  <1>5. \A b \in Clients : Loose(copy'[b])
    BY <1>2, <1>3, <1>4
  <1> QED
    BY <1>4, <1>5 DEF StoreInv

\* The newest manifest, and the copy's with the items whose files are there.
LEMMA ServerListing ==
    ASSUME AllWhole(repo)
    PROVE  Listing(ServerManifest)
  <1>1. CASE repo = << >>
    <2>1. << >> \in Seq(Nat)
      OBVIOUS
    <2> QED
      BY <1>1, <2>1, ListingMade DEF ServerManifest, EmptyManifest
  <1>2. CASE repo # << >>
    <2>1. Len(repo) \in 1..Len(repo)
      BY <1>2 DEF AllWhole
    <2> QED
      BY <1>2, <2>1 DEF ServerManifest, AllWhole, Whole
  <1> QED
    BY <1>1, <1>2

LEMMA KeptListing ==
    ASSUME NEW man, Listing(man), NEW tree
    PROVE  Listing(Manifest(man.ver, Kept(man.items, tree)))
  <1>1. Kept(man.items, tree) \in Seq(Range(man.items))
    BY FilterListed DEF Kept, Listing
  <1> QED
    BY <1>1, ListingMade

\* What is written of the change list that compares two manifests.
LEMMA WrittenListing ==
    ASSUME NEW mine, Listing(mine), NEW theirs, Listing(theirs), NEW tree, NEW v, NEW codes, NEW list,
           list = ChangeList(Marks(mine, theirs, tree), mine, theirs)
    PROVE  Listing(Manifest(v, Written(list, codes)))
  <1> DEFINE S == Range(mine.items) \cup Range(theirs.items)
             marks == Marks(mine, theirs, tree)
  <1>1. mine.items \in Seq(S) /\ theirs.items \in Seq(S)
    BY DEF Listing
  <1> HIDE DEF S
  <1>2. marks \in Seq(AnyMark)
    BY <1>1, MarksListed
  <1> HIDE DEF marks
  <1>3. DOMAIN list = 1..Len(marks) /\ Len(marks) \in Nat /\ list = [k \in 1..Len(marks) |-> list[k]]
    BY <1>2 DEF ChangeList, marks
  <1>4. \A k \in 1..Len(marks) : list[k] \in Range(list)
    BY <1>3 DEF Range
  <1>5. list \in Seq(Range(list))
    BY <1>3, <1>4
  <1>6. Written(list, codes) \in Seq(Range(list))
    BY <1>5, FilterListed DEF Written
  <1> QED
    BY <1>6, ListingMade

LEMMA CopyLoose ==
    ASSUME StoreInv, NEW c \in Clients
    PROVE  /\ Loose(copy[c]) /\ AllWhole(repo)
           /\ copy[c].man # None => Listing(copy[c].man)
           /\ copy[c].com # None => Listing(copy[c].com)
  BY DEF StoreInv, Loose

LEMMA EditStored ==
    ASSUME StoreInv, NEW c \in Clients, NEW f, NEW content, Edit(c, f, content)
    PROVE  StoreInv'
  <1> DEFINE d == copy[c]
             tree == [d.tree EXCEPT ![f] = content]
             new == Readable([d EXCEPT !.tree = tree], "none")
  <1>1. Loose(d) /\ AllWhole(repo) /\ (d.man # None => Listing(d.man)) /\ (d.com # None => Listing(d.com))
    BY CopyLoose
  <1>2. repo' = repo /\ copy' = [copy EXCEPT ![c] = new]
    BY DEF Edit
  <1> HIDE DEF d, tree
  <1>3. Loose([d EXCEPT !.tree = tree])
    BY <1>1, LooseSet
  <1>4. Loose(new)
    BY <1>3, ReadableLoose
  <1> HIDE DEF new
  <1>5. copy = [b \in Clients |-> copy[b]] /\ \A b \in Clients : Loose(copy[b])
    BY DEF StoreInv
  <1>6. copy' = [b \in Clients |-> copy'[b]]
        /\ \A b \in Clients : copy'[b] = IF b = c THEN new ELSE copy[b]
    BY <1>2, <1>5
  <1> QED
    BY <1>1, <1>2, <1>4, <1>5, <1>6 DEF StoreInv

LEMMA AddStored ==
    ASSUME StoreInv, NEW c \in Clients, NEW f, Add(c, f) \/ RemoveEntry(c, f)
    PROVE  StoreInv'
  <1> DEFINE d == copy[c]
             added == WithItem(d.man.items, Item(f, 0, NoHash))
             removed == WithoutItem(d.man.items, f)
  <1>1. Loose(d) /\ AllWhole(repo) /\ (d.com # None => Listing(d.com)) /\ (d.man # None => Listing(d.man))
    BY CopyLoose
  <1>2. PICK items : /\ items = added \/ items = removed
                     /\ d.man # None /\ repo' = repo
                     /\ Leaves(c, [d EXCEPT !.man.items = items], "none")
    BY DEF Add, RemoveEntry
  <1>3. \E S : items \in Seq(S)
    <2>1. d.man.items \in Seq(Range(d.man.items))
      BY <1>1, <1>2 DEF Listing
    <2>2. PICK s : s = d.man.items
      OBVIOUS
    <2>3. ASSUME NEW keep, keep \subseteq DOMAIN s PROVE Filter(s, keep) \in Seq(Range(s))
      BY <2>1, <2>2, <2>3, FilterListed
    <2>4. CASE items = removed
      BY <2>2, <2>3, <2>4 DEF WithoutItem
    <2>5. CASE items = added
      <3>1. PICK e : e = Item(f, 0, NoHash)
        OBVIOUS
      <3>2. PICK a, b : /\ a \in Seq(Range(s)) /\ b \in Seq(Range(s))
                        /\ WithItem(s, e) = a \o <<e>> \o b
        BY <2>3 DEF WithItem
      <3>3. PICK S : S = Range(s) \cup {e}
        OBVIOUS
      <3>4. a \in Seq(S) /\ b \in Seq(S) /\ <<e>> \in Seq(S)
        BY <3>2, <3>3
      <3>5. a \o <<e>> \o b \in Seq(S)
        BY <3>4
      <3> QED
        BY <2>2, <2>5, <3>1, <3>2, <3>5
    <2> QED
      BY <1>2, <2>4, <2>5
  <1>4. Listing(Manifest(d.man.ver, items))
    BY <1>3, ListingMade
  <1> HIDE DEF d
  <1>5. Loose([d EXCEPT !.man.items = items])
    BY <1>1, <1>2, <1>4, ItemsLoose
  <1> QED
    BY <1>1, <1>2, <1>5, LooseLeft DEF d

LEMMA VersionListings ==
    ASSUME AllWhole(repo), NEW n \in 1..Len(repo)
    PROVE  Listing(repo[n].man) /\ Listing(repo[n].com)
  BY DEF AllWhole, Whole

LEMMA CheckoutStored ==
    ASSUME StoreInv, NEW c \in Clients, Checkout(c)
    PROVE  StoreInv'
  <1> DEFINE d == copy[c]
             n == Len(repo)
             tree == Extracted(d.tree, n, Names)
             new == [d EXCEPT !.tree = tree, !.man = repo[n].man, !.com = repo[n].com]
  <1>1. n > 0 /\ repo' = repo /\ Leaves(c, new, "none")
    BY DEF Checkout
  <1>2. Loose(d) /\ AllWhole(repo)
    BY CopyLoose
  <1>3. n \in 1..Len(repo)
    BY <1>1, <1>2 DEF AllWhole
  <1> HIDE DEF d, n, tree
  <1>4. Listing(repo[n].man) /\ Listing(repo[n].com)
    BY <1>2, <1>3, VersionListings
  <1>5. new = SetVersion(d, tree, repo[n].man, repo[n].com)
    BY DEF SetVersion
  <1> HIDE DEF new
  <1>6. Loose(new)
    BY <1>2, <1>4, <1>5, LooseSetAll
  <1> QED
    BY <1>1, <1>2, <1>6, LooseLeft

LEMMA UpdateStored ==
    ASSUME StoreInv, NEW c \in Clients, Update(c) \/ PushNothing(c) \/ PushDropsFiles(c)
    PROVE  StoreInv'
  <1> DEFINE d == copy[c]
  <1>1. Loose(d) /\ AllWhole(repo) /\ (d.man # None => Listing(d.man)) /\ (d.com # None => Listing(d.com))
    BY CopyLoose
  <1>2. CASE Update(c)
    <2>1. PICK upd : repo' = repo /\ Leaves(c, [d EXCEPT !.upd = upd], "update")
      BY <1>2 DEF Update
    <2> HIDE DEF d
    <2>2. Loose([d EXCEPT !.upd = upd])
      BY <1>1, LooseSet
    <2> QED
      BY <1>1, <2>1, <2>2, LooseLeft
  <1>3. CASE PushNothing(c)
    <2>1. repo' = repo /\ Leaves(c, [d EXCEPT !.com = None], "none")
      BY <1>3 DEF PushNothing
    <2> HIDE DEF d
    <2>2. Loose([d EXCEPT !.com = None])
      BY <1>1, LooseSet
    <2> QED
      BY <1>1, <2>1, <2>2, LooseLeft
  <1>4. CASE PushDropsFiles(c)
    <2> DEFINE kept == Kept(d.man.items, d.tree)
    <2>1. d.man # None /\ repo' = repo /\ Leaves(c, [d EXCEPT !.man.items = kept], "none")
      BY <1>4 DEF PushDropsFiles, PushStarts
    <2>2. Listing(Manifest(d.man.ver, kept))
      BY <1>1, <2>1, KeptListing
    <2> HIDE DEF d, kept
    <2>3. Loose([d EXCEPT !.man.items = kept])
      BY <1>1, <2>1, <2>2, ItemsLoose
    <2> QED
      BY <1>1, <2>1, <2>3, LooseLeft
  <1> QED
    BY <1>2, <1>3, <1>4

LEMMA UpgradeStored ==
    ASSUME StoreInv, NEW c \in Clients, Upgrade(c)
    PROVE  StoreInv'
  <1> DEFINE d == copy[c]
             v == d.upd.ver
             tree == Extracted(d.tree, v, NamesOf(d.upd.items))
             new == [d EXCEPT !.tree = tree, !.man = repo[v].man, !.upd = None]
  <1>1. /\ repo' = repo
        /\ \/ Leaves(c, [d EXCEPT !.upd = None], "none")
           \/ v \in 1..Len(repo) /\ Leaves(c, new, "none")
    BY DEF Upgrade
  <1>2. Loose(d) /\ AllWhole(repo) /\ (d.man # None => Listing(d.man)) /\ (d.com # None => Listing(d.com))
    BY CopyLoose
  <1> HIDE DEF d, v, tree
  <1>3. Loose([d EXCEPT !.upd = None])
    BY <1>2, LooseSet
  <1>4. ASSUME v \in 1..Len(repo) PROVE Loose(new)
    <2>1. Listing(repo[v].man)
      BY <1>2, <1>4, VersionListings
    <2>2. new = SetUpgraded(d, tree, repo[v].man, None)
      BY DEF SetUpgraded
    <2> HIDE DEF new
    <2> QED
      BY <1>2, <2>1, <2>2, LooseSetAll
  <1> HIDE DEF new
  <1> QED
    BY <1>1, <1>2, <1>3, <1>4, LooseLeft

LEMMA CommitStored ==
    ASSUME StoreInv, NEW c \in Clients, Commit(c)
    PROVE  StoreInv'
  <1> DEFINE d == copy[c]
             mine == Manifest(d.man.ver, Kept(d.man.items, d.tree))
             list == ChangeList(Marks(mine, ServerManifest, d.tree), mine, ServerManifest)
             cleaned == [d EXCEPT !.srv = ServerManifest, !.man = mine]
             com == Manifest(ServerManifest.ver, Written(list, CommitCodes))
  <1>1. /\ d.man # None /\ repo' = repo
        /\ Leaves(c, cleaned, "none") \/ Leaves(c, [cleaned EXCEPT !.com = com], "commit")
    BY DEF Commit
  <1>2. Loose(d) /\ AllWhole(repo) /\ (d.com # None => Listing(d.com)) /\ (d.man # None => Listing(d.man))
    BY CopyLoose
  <1>3. Listing(mine) /\ Listing(ServerManifest)
    BY <1>1, <1>2, KeptListing, ServerListing
  <1>4. Listing(com)
    <2> HIDE DEF mine
    <2> QED
      BY <1>3, WrittenListing
  <1> HIDE DEF mine, com, d, list
  <1>5. cleaned = SetCleaned(d, ServerManifest, mine)
    BY DEF SetCleaned
  <1> HIDE DEF cleaned
  <1>6. Loose(cleaned)
    BY <1>2, <1>3, <1>5, LooseSetAll
  <1>7. cleaned.man # None => Listing(cleaned.man)
    BY <1>6 DEF Loose
  <1>8. Loose([cleaned EXCEPT !.com = com])
    BY <1>4, <1>6, <1>7, LooseSet
  <1> QED
    BY <1>1, <1>2, <1>6, <1>8, LooseLeft

\* What a push sends is whole, whichever .Commit it merges with.
LEMMA SentWhole ==
    ASSUME NEW d, Listing(d.man), Listing(d.com), ~PushFaults(d.man.items, d.com.items)
    PROVE  Whole(Sent(d))
  <1> DEFINE items == PushItems(d.man.items, d.com.items, d.tree)
             version == Sent(d)
  <1>1. d.man.items \in Seq(Range(d.man.items)) /\ d.com.items \in Seq(Range(d.com.items))
    BY DEF Listing
  <1>2. /\ items \in Seq(Range(items))
        /\ \A x \in DOMAIN items : items[x].hash = d.tree[items[x].name]
    BY <1>1, PushedHashes
  <1>3. /\ version.man = Manifest(d.man.ver + 1, items) /\ version.com = d.com
        /\ version.files = [f \in NamesOf(items) |-> d.tree[f]]
    BY DEF Sent
  <1> HIDE DEF items, version
  <1>4. version.man.items = items /\ Listing(version.man)
    BY <1>2, <1>3, ListingMade DEF Manifest
  <1>5. \A x \in DOMAIN items : items[x].name \in NamesOf(items)
    BY DEF NamesOf
  <1>6. Whole(version)
    BY <1>2, <1>3, <1>4, <1>5 DEF Whole
  <1> QED
    BY <1>6 DEF version

LEMMA WholeMore ==
    ASSUME NEW r, AllWhole(r), NEW version, Whole(version)
    PROVE  AllWhole(Append(r, version))
  <1>1. PICK q : q = Append(r, version)
    OBVIOUS
  <1>2. r \in Seq(Range(r)) /\ Len(r) \in Nat
    BY DEF AllWhole
  <1>3. PICK S : S = Range(r) \cup {version}
    OBVIOUS
  <1>4. r \in Seq(S) /\ version \in S
    BY <1>2, <1>3
  <1>5. /\ Len(q) = Len(r) + 1 /\ q[Len(r) + 1] = version
        /\ \A n \in 1..Len(r) : q[n] = r[n]
    BY <1>1, <1>4
  <1>6. DOMAIN q = 1..Len(q) /\ q = [n \in 1..Len(q) |-> q[n]]
    <2>1. q \in Seq(S)
      BY <1>1, <1>4
    <2> QED
      BY <2>1
  <1>7. \A n \in 1..Len(q) : q[n] \in Range(q)
    BY <1>6 DEF Range
  <1>8. q \in Seq(Range(q))
    BY <1>2, <1>5, <1>6, <1>7
  <1>9. \A n \in 1..Len(q) : n \in 1..Len(r) \/ n = Len(r) + 1
    BY <1>2, <1>5
  <1>10. \A n \in 1..Len(q) : Whole(q[n])
    BY <1>5, <1>9 DEF AllWhole
  <1> QED
    BY <1>1, <1>8, <1>10 DEF AllWhole

LEMMA PushStored ==
    ASSUME StoreInv, NEW c \in Clients, Push(c)
    PROVE  StoreInv'
  <1> DEFINE d == copy[c]
             version == Sent(d)
             new == [d EXCEPT !.man = version.man, !.com = None]
  <1>1. /\ d.man # None /\ d.com # None /\ ~PushFaults(d.man.items, d.com.items)
        /\ \/ /\ repo' = Append(repo, version)
              /\ Leaves(c, new, "none") \/ Leaves(c, d, "none")
           \/ repo' = repo /\ Leaves(c, d, "none")
    BY DEF Push, PushCompared, PushStarts
  <1>2. Loose(d) /\ AllWhole(repo) /\ (d.man # None => Listing(d.man)) /\ (d.com # None => Listing(d.com))
    BY CopyLoose
  <1>3. Whole(version)
    BY <1>1, <1>2, SentWhole
  <1> HIDE DEF d, version
  <1>4. AllWhole(Append(repo, version))
    BY <1>2, <1>3, WholeMore
  <1>5. AllWhole(repo')
    BY <1>1, <1>2, <1>4
  <1>6. Loose(new)
    <2>1. new = SetPushed(d, version.man, None)
      BY DEF SetPushed
    <2>2. Listing(version.man)
      BY <1>3 DEF Whole
    <2> HIDE DEF new
    <2> QED
      BY <1>2, <2>1, <2>2, LooseSetAll
  <1> HIDE DEF new
  <1> QED
    BY <1>1, <1>2, <1>5, <1>6, LooseLeft

LEMMA RollbackStored ==
    ASSUME StoreInv, NEW v \in 1..MaxVersions, Rollback(v)
    PROVE  StoreInv'
  <1> DEFINE q == SubSeq(repo, 1, v)
  <1>1. repo' = q /\ copy' = copy /\ v < Len(repo)
    BY DEF Rollback
  <1>2. AllWhole(repo) /\ repo \in Seq(Range(repo))
    BY DEF StoreInv, AllWhole
  <1>3. v \in Nat /\ v <= Len(repo) /\ Len(repo) \in Nat
    BY <1>1, <1>2
  <1>4. DOMAIN q = 1..v /\ Len(q) = v /\ q = [n \in 1..v |-> q[n]] /\ \A n \in 1..v : q[n] = repo[n]
    BY <1>2, <1>3
  <1> HIDE DEF q
  <1>5. q \in Seq(Range(q))
    <2>1. \A n \in 1..v : q[n] \in Range(q)
      BY <1>4 DEF Range
    <2> QED
      BY <1>3, <1>4, <2>1
  <1>6. \A n \in 1..Len(q) : Whole(q[n])
    BY <1>2, <1>3, <1>4 DEF AllWhole
  <1> QED
    BY <1>1, <1>5, <1>6 DEF StoreInv, AllWhole

LEMMA InitStored ==
    ASSUME SyncInit
    PROVE  StoreInv
  <1>1. repo = << >>
    BY DEF SyncInit
  <1>2. PICK creator \in Clients :
            copy = [c \in Clients |-> IF c = creator THEN [NoCopy EXCEPT !.man = EmptyManifest]
                                      ELSE NoCopy]
    BY DEF SyncInit
  <1>3. AllWhole(<< >>)
    <2>1. << >> \in Seq(Range(<< >>)) /\ Len(<< >>) = 0
      OBVIOUS
    <2> QED
      BY <2>1 DEF AllWhole
  <1> DEFINE tree == [f \in Names |-> Missing]
             made == [NoCopy EXCEPT !.man = EmptyManifest]
  <1>4. Listing(EmptyManifest)
    <2>1. << >> \in Seq(Nat)
      OBVIOUS
    <2> QED
      BY <2>1, ListingMade DEF EmptyManifest
  <1>5. NoCopy = Fields(tree, None, None, None, None)
    BY DEF NoCopy, Fields
  <1> HIDE DEF tree
  <1>6. made = Fields(tree, EmptyManifest, None, None, None)
    BY <1>5, FieldSet
  <1> HIDE DEF made
  <1>7. Loose(NoCopy) /\ Loose(made)
    BY <1>4, <1>5, <1>6, FieldsLoose
  <1>8. copy = [c \in Clients |-> IF c = creator THEN made ELSE NoCopy]
    BY <1>2 DEF made
  <1> QED
    BY <1>1, <1>3, <1>7, <1>8 DEF StoreInv

\* A step of any kind keeps what is stored whole.
LEMMA NextStored ==
    ASSUME StoreInv, [SyncNext]_syncVars
    PROVE  StoreInv'
  <1>1. CASE UNCHANGED syncVars
    BY <1>1 DEF syncVars, StoreInv
  <1>2. ASSUME NEW c \in Clients, Command(c)
        PROVE  StoreInv'
    <2>1. ASSUME NEW f \in Names, Add(c, f) \/ RemoveEntry(c, f) PROVE StoreInv'
      BY <2>1, AddStored
    <2> QED
      BY <1>2, <2>1, CheckoutStored, UpdateStored, UpgradeStored, CommitStored, PushStored DEF Command
  <1>3. ASSUME NEW c \in Clients, NEW f \in Names, NEW content \in Contents \cup {Missing},
               Edit(c, f, content)
        PROVE  StoreInv'
    BY <1>3, EditStored
  <1>4. ASSUME NEW v \in 1..MaxVersions, Rollback(v)
        PROVE  StoreInv'
    BY <1>4, RollbackStored
  <1> QED
    BY <1>1, <1>2, <1>3, <1>4 DEF SyncNext

\* Whatever users do and in whatever order - commands between a commit and its push, old
\* .Commit and .Server files, files added that the server has, versions rolled back, replies
\* lost - every version's manifest has the hashes of the files in its archive, and no file
\* more or less: the merge of push goes through all items of the manifest, whatever .Commit
\* lists, and takes the hash of each anew (client.c:582-596, util.c:678-733).
THEOREM ManifestsStored == SyncSpec => []StoredMatchesManifest
  <1>1. SyncInit => StoreInv
    BY InitStored
  <1>2. StoreInv /\ [SyncNext]_syncVars => StoreInv'
    BY NextStored
  <1>3. StoreInv => StoredMatchesManifest
    <2> SUFFICES ASSUME StoreInv, NEW n \in DOMAIN repo
                 PROVE  /\ DOMAIN repo[n].files = NamesOf(repo[n].man.items)
                        /\ \A f \in DOMAIN repo[n].files :
                              repo[n].files[f] = ItemNamed(repo[n].man, f).hash
      BY DEF StoredMatchesManifest
    <2>1. Whole(repo[n])
      BY DEF StoreInv, AllWhole
    <2> DEFINE man == repo[n].man
               files == repo[n].files
    <2>2. /\ DOMAIN files = NamesOf(man.items)
          /\ \A x \in DOMAIN man.items : files[man.items[x].name] = man.items[x].hash
      BY <2>1 DEF Whole
    <2> HIDE DEF man, files
    <2>3. ASSUME NEW f \in DOMAIN files
          PROVE  files[f] = ItemNamed(man, f).hash
      <3>1. \E item \in Range(man.items) : item.name = f
        BY <2>2, <2>3 DEF NamesOf, Range
      <3>2. ItemNamed(man, f) \in Range(man.items) /\ ItemNamed(man, f).name = f
        BY <3>1 DEF ItemNamed
      <3>3. PICK x \in DOMAIN man.items : ItemNamed(man, f) = man.items[x]
        BY <3>2 DEF Range
      <3> QED
        BY <2>2, <3>2, <3>3
    <2> QED
      BY <2>2, <2>3 DEF man, files
  <1> QED
    BY <1>1, <1>2, <1>3, PTL DEF SyncSpec
=============================================================================
