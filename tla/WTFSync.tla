------------------------------- MODULE WTFSync -------------------------------
(***************************************************************************)
(* The WTF clients (Asst3/client/client.c) and one project on the server.  *)
(*                                                                         *)
(* Each client has a working copy: files, .Manifest and the files .Update, *)
(* .Commit and .Server its commands leave for one another.  A command is   *)
(* one step: it works on its own copy and its request acts on the server   *)
(* at one instant (ImplementsRepository).  Its reply may be lost: then     *)
(* the server has acted and the command stops where send_request fails.    *)
(* Between commands the user edits files.                                  *)
(***************************************************************************)
EXTENDS Manifest, FiniteSets

CONSTANTS
    Clients,
    Names,         \* the files
    Contents,      \* their contents
    None,          \* a file of the copy that is absent
    MaxVersions,   \* bound on the versions pushed
    MaxEdits,      \* bound on the edits of files
    Mishaps        \* what may happen, of AllMishaps

\* "lost": replies are lost.  "rollback": users roll the project back.  "stale":
\* users work between update and upgrade, and between commit and push.
\* "readd": users add files that the server has.
AllMishaps == {"lost", "rollback", "stale", "readd"}

ASSUME SyncAssumption ==
    /\ Names \subseteq Nat /\ Contents \subseteq Nat \ {NoHash}
    /\ MaxVersions \in Nat /\ MaxEdits \in Nat
    /\ Mishaps \subseteq AllMishaps

VARIABLES
    repo,     \* the versions on the server: manifest, files, commit
    copy,     \* client -> working copy
    ready,    \* client -> the command it just did, if another builds on it
    edits

syncVars == <<repo, copy, ready, edits>>

NoCopy == [tree |-> [f \in Names |-> Missing], man |-> None, upd |-> None,
           com |-> None, srv |-> None]

\* Curr/.Manifest
ServerManifest == IF repo = << >> THEN EmptyManifest ELSE repo[Len(repo)].man

----------------------------------------------------------------------------
SyncInit ==
    /\ repo = << >>
    /\ \E creator \in Clients :
          copy = [c \in Clients |-> IF c = creator THEN [NoCopy EXCEPT !.man = EmptyManifest]
                                    ELSE NoCopy]
    /\ ready = [c \in Clients |-> "none"]
    /\ edits = 0

\* Without "stale" no command reads the files of another command than the last:
\* the model forgets them.
Readable(new, next) ==
    IF "stale" \in Mishaps THEN new
    ELSE [new EXCEPT !.upd = IF next = "update" THEN @ ELSE None,
                     !.com = IF next = "commit" THEN @ ELSE None,
                     !.srv = IF next = "commit" THEN @ ELSE None]

\* The rest of a command of c that leaves its copy as new.
Leaves(c, new, next) ==
    /\ copy' = [copy EXCEPT ![c] = Readable(new, next)]
    /\ ready' = [ready EXCEPT ![c] = next]
    /\ UNCHANGED edits

\* The user of c writes or removes a file.
Edit(c, f, content) ==
    /\ edits < MaxEdits
    /\ edits' = edits + 1
    /\ copy[c].man # None
    /\ copy[c].tree[f] # content
    /\ copy' = [copy EXCEPT ![c] = Readable([@ EXCEPT !.tree[f] = content], "none")]
    /\ ready' = [ready EXCEPT ![c] = "none"]
    /\ UNCHANGED repo

Add(c, f) ==
    LET d == copy[c]
    IN  /\ d.man # None /\ d.tree[f] # Missing /\ f \notin NamesOf(d.man.items)
        /\ "readd" \in Mishaps \/ f \notin NamesOf(ServerManifest.items)
        /\ Leaves(c, [d EXCEPT !.man.items = WithItem(@, Item(f, 0, NoHash))], "none")
        /\ UNCHANGED repo

RemoveEntry(c, f) ==
    LET d == copy[c]
    IN  /\ d.man # None /\ d.tree[f] # Missing /\ f \in NamesOf(d.man.items)
        /\ Leaves(c, [d EXCEPT !.man.items = WithoutItem(@, f)], "none")
        /\ UNCHANGED repo

\* What extracting the named files of version v makes of a tree.
ExtractAll(tree, v, names) == repo[v].files @@ tree    \* variant: the whole archive
Extracted(tree, v, names) ==
    [f \in Names |-> IF f \in names \cap DOMAIN repo[v].files THEN repo[v].files[f] ELSE tree[f]]

\* The archive of a version also holds its .Manifest and .Commit.
Checkout(c) ==
    LET n == Len(repo)
    IN  /\ n > 0
        /\ Leaves(c, [copy[c] EXCEPT !.tree = Extracted(@, n, Names),
                                     !.man = repo[n].man, !.com = repo[n].com], "none")
        /\ UNCHANGED repo

----------------------------------------------------------------------------
\* update: a conflict, or a file to upload, leaves .Update as it was.
Update(c) ==
    LET d == copy[c]
        mine == Manifest(d.man.ver, Kept(d.man.items, d.tree))
        marks == Marks(mine, ServerManifest, d.tree)
        list == ChangeList(marks, mine, ServerManifest)
    IN  /\ d.man # None
        /\ ~Wild(marks, ServerManifest) /\ ~HasConflict(marks)
        /\ \A k \in DOMAIN list : list[k].code # Upload
        /\ Leaves(c, [d EXCEPT !.upd = Manifest(ServerManifest.ver, Written(list, UpdateCodes))],
                  "update")
        /\ UNCHANGED repo

\* The hash .Update keeps of an M file is "0", the hash of no file.
Clashes(tree, list) ==
    \E k \in DOMAIN list : list[k].code = Modified /\ tree[list[k].name] # Missing

\* upgrade: an empty .Update, a clash and a version the server does not have
\* only remove .Update; a lost reply leaves it.
Upgrade(c) ==
    LET d == copy[c]
        v == d.upd.ver
        list == d.upd.items
    IN  /\ d.upd # None /\ d.man # None
        /\ "stale" \in Mishaps \/ ready[c] = "update"
        /\ \/ /\ list = << >> \/ Clashes(d.tree, list) \/ v \notin 1..Len(repo)
              /\ Leaves(c, [d EXCEPT !.upd = None], "none")
           \/ /\ list # << >> /\ ~Clashes(d.tree, list) /\ v \in 1..Len(repo)
              /\ Leaves(c, [d EXCEPT !.tree = Extracted(@, v, NamesOf(list)),
                                     !.man = repo[v].man, !.upd = None], "none")
        /\ UNCHANGED repo

----------------------------------------------------------------------------
\* commit: the server's manifest is kept as .Server, files that are gone leave
\* .Manifest for good.
Commit(c) ==
    LET d == copy[c]
        mine == Manifest(d.man.ver, Kept(d.man.items, d.tree))
        marks == Marks(mine, ServerManifest, d.tree)
        cleaned == [d EXCEPT !.srv = ServerManifest, !.man = mine]
        list == ChangeList(marks, mine, ServerManifest)
    IN  /\ d.man # None
        /\ UNCHANGED repo
        /\ \/ /\ Wild(marks, ServerManifest) \/ HasConflict(marks)
              /\ Leaves(c, cleaned, "none")
           \/ /\ ~Wild(marks, ServerManifest) /\ ~HasConflict(marks)
              /\ Leaves(c, [cleaned EXCEPT !.com = Manifest(ServerManifest.ver,
                                                            Written(list, CommitCodes))],
                        "commit")

\* The length of the change list push makes to compare with that of .Commit.
ChangesNow(marks) == IF HasConflict(marks) THEN 0 ELSE Len(marks)

\* The server takes a version that is the next one (logic.c:267).
TakenAnyway(v) == TRUE    \* variant: the version is not checked
Taken(v) == v = Len(repo) + 1

\* push sends the new manifest, the files and .Commit.
Sent(d) ==
    LET items == PushItems(d.man.items, d.com.items, d.tree)
    IN  [man |-> Manifest(d.man.ver + 1, items),
         files |-> [f \in NamesOf(items) |-> d.tree[f]],
         com |-> d.com]

PushStarts(c) ==
    /\ copy[c].man # None /\ copy[c].srv # None /\ copy[c].com # None
    /\ "stale" \in Mishaps \/ ready[c] = "commit"

\* Files that are gone leave .Manifest and must be committed first.
PushDropsFiles(c) ==
    LET d == copy[c]
        kept == Kept(d.man.items, d.tree)
    IN  /\ PushStarts(c) /\ kept # d.man.items
        /\ Leaves(c, [d EXCEPT !.man.items = kept], "none")
        /\ UNCHANGED repo

PushCompared(c) ==
    LET d == copy[c]
        marks == Marks(d.man, d.srv, d.tree)
    IN  /\ PushStarts(c) /\ Kept(d.man.items, d.tree) = d.man.items
        /\ ~Wild(marks, d.srv)
        /\ ChangesNow(marks) = Len(d.com.items)

PushNothing(c) ==
    /\ PushCompared(c)
    /\ copy[c].com.items = << >>
    /\ Leaves(c, [copy[c] EXCEPT !.com = None], "none")
    /\ UNCHANGED repo

Push(c) ==
    LET d == copy[c]
        new == Sent(d)
    IN  /\ PushCompared(c)
        /\ d.com.items # << >> /\ ~PushFaults(d.man.items, d.com.items)
        /\ Len(repo) < MaxVersions
        /\ \/ /\ Taken(new.man.ver)
              /\ repo' = Append(repo, new)
              /\ \/ Leaves(c, [d EXCEPT !.man = new.man, !.com = None], "none")
                 \/ "lost" \in Mishaps /\ Leaves(c, d, "none")
           \/ /\ ~Taken(new.man.ver)
              /\ Leaves(c, d, "none")
              /\ UNCHANGED repo

\* Any user, with a copy or without.
Rollback(v) ==
    /\ "rollback" \in Mishaps /\ v < Len(repo)
    /\ repo' = SubSeq(repo, 1, v)
    /\ UNCHANGED <<copy, ready, edits>>

----------------------------------------------------------------------------
Command(c) ==
    \/ \E f \in Names : Add(c, f) \/ RemoveEntry(c, f)
    \/ Checkout(c) \/ Update(c) \/ Upgrade(c) \/ Commit(c)
    \/ PushDropsFiles(c) \/ PushNothing(c) \/ Push(c)

SyncNext ==
    \/ \E c \in Clients :
          Command(c) \/ \E f \in Names, content \in Contents \cup {Missing} : Edit(c, f, content)
    \/ \E v \in 1..MaxVersions : Rollback(v)

SyncSpec == SyncInit /\ [][SyncNext]_syncVars

----------------------------------------------------------------------------
Items == [name : Names, ver : 0..MaxVersions, hash : Contents \cup {NoHash}]
Sorted(items) == \A i, j \in DOMAIN items : i < j => items[i].name < items[j].name
Wellformed(man) ==
    /\ man.ver \in 0..MaxVersions
    /\ \A i \in DOMAIN man.items : man.items[i] \in Items
    /\ Sorted(man.items)

\* Manifests are sorted and name a file once, the working copies' and the
\* server's: the merge in compareManifest relies on it (util.c:507-672).
SyncTypeOK ==
    /\ \A n \in DOMAIN repo : Wellformed(repo[n].man) /\ repo[n].man.ver = n
    /\ \A c \in Clients :
          /\ copy[c].tree \in [Names -> Contents \cup {Missing}]
          /\ \A file \in {copy[c].man, copy[c].srv} : file # None => Wellformed(file)
    /\ ready \in [Clients -> {"none", "update", "commit"}]
    /\ edits \in 0..MaxEdits

ItemNamed(man, f) == CHOOSE item \in Range(man.items) : item.name = f

\* Every version's manifest has the hashes of the files in its archive, and no
\* file more or less (client.c:582-596, util.c:678-733).
StoredMatchesManifest ==
    \A n \in DOMAIN repo :
        /\ DOMAIN repo[n].files = NamesOf(repo[n].man.items)
        /\ \A f \in DOMAIN repo[n].files :
              repo[n].files[f] = ItemNamed(repo[n].man, f).hash

Before(n) == IF n = 1 THEN EmptyManifest ELSE repo[n - 1].man

\* A file keeps its file version exactly as long as it keeps its content
\* (client.c:517-518: "Increment the Project Number and File Version Number").
FileVersionNamesContent ==
    \A n \in DOMAIN repo :
        \A f \in NamesOf(Before(n).items) \cap NamesOf(repo[n].man.items) :
            LET old == ItemNamed(Before(n), f)
                new == ItemNamed(repo[n].man, f)
            IN  old.ver = new.ver <=> old.hash = new.hash

\* The .Commit stored with a version, which history shows, says what the
\* version changed (client.c:517: "Check if all files in the manifest has been
\* changed or changes recorded in the .Commit File").
CommitDescribesPush ==
    \A n \in DOMAIN repo :
        LET old == Before(n).items
            new == repo[n].man.items
            listed == repo[n].com.items
        IN  /\ {listed[k].name : k \in {l \in DOMAIN listed : listed[l].code = Added}}
                 = NamesOf(old) \ NamesOf(new)
            /\ {listed[k].name : k \in {l \in DOMAIN listed : listed[l].code = Upload}}
                 = {f \in NamesOf(new) :
                       f \notin NamesOf(old)
                       \/ ItemNamed(Before(n), f).hash # ItemNamed(repo[n].man, f).hash}

\* A copy whose manifest states a version has that version's items and files
\* it added itself: a push replaces what its author has seen (logic.c:267).
CopyDerivesFromVersion ==
    \A c \in Clients :
        copy[c].man # None /\ copy[c].man.ver \in 1..Len(repo)
        => Range(copy[c].man.items)
             \subseteq Range(repo[copy[c].man.ver].man.items) \cup {Item(f, 0, NoHash) : f \in Names}

\* "Nothing to Update!" is true: a copy for which update writes an empty list has
\* every file of the server's version, with the content it has there, and tracks
\* no other (client.c:399-402), even where the reply to its own push was lost.
NothingToUpdateIsCurrent ==
    \A c \in Clients :
        LET d == copy[c]
        IN  ready[c] = "update" /\ d.upd.items = << >> /\ d.upd.ver > 0
            => LET files == repo[d.upd.ver].files
               IN  /\ NamesOf(Kept(d.man.items, d.tree)) = DOMAIN files
                   /\ \A f \in DOMAIN files : d.tree[f] = files[f]

\* .Update lists what has to change: the files that the server's version has and
\* the copy does not, those the copy tracks and the version does not have, and of
\* those both have every one with other content there, none twice
\* (util.c:507-672).  It holds where each file that the server has changed stands
\* at the same place of both lists: compareManifest takes the server's item at
\* the place of the client's (util.c:570).
UpdateListsDifferences ==
    \A c \in Clients :
        LET d == copy[c]
            mine == Kept(d.man.items, d.tree)
            theirs == Before(d.upd.ver + 1).items
            both == {k \in (DOMAIN mine) \X (DOMAIN theirs) : mine[k[1]].name = theirs[k[2]].name}
            changed == {k \in both : mine[k[1]].ver # theirs[k[2]].ver}
            listed(code) == {e.name : e \in {x \in Range(d.upd.items) : x.code = code}}
        IN  ready[c] = "update" /\ (\A k \in changed : k[1] = k[2])
            => /\ IsInjective(d.upd.items)
               /\ listed(Added) = NamesOf(theirs) \ NamesOf(mine)
               /\ listed(Deleted) = NamesOf(mine) \ NamesOf(theirs)
               /\ listed(Modified) \subseteq {mine[k[1]].name : k \in changed}
               /\ \A k \in both :
                     LET f == mine[k[1]].name
                     IN  f \notin listed(Modified) => d.tree[f] = theirs[k[2]].hash

\* upgrade never overwrites a tracked file whose content the user has edited
\* (client.c:406-423).
UpgradeKeepsEdits ==
    [][\A c \in Clients :
          Upgrade(c) /\ ~Checkout(c) => \A i \in DOMAIN copy[c].man.items :
                LET item == copy[c].man.items[i]
                IN  copy[c].tree[item.name] \notin {item.hash, Missing}
                    => copy'[c].tree[item.name] = copy[c].tree[item.name]]_syncVars

----------------------------------------------------------------------------
(* What the repository says of the clients and the code does not keep.     *)

\* After an update that is not a conflict, the upgrade that follows brings the
\* copy to the server's version (testplan.txt:9-11).
UpgradeSyncs ==
    [][\A c \in Clients :
          Upgrade(c) /\ ~Checkout(c) /\ copy[c].upd.items # << >>
          /\ copy[c].upd.ver \in 1..Len(repo)
          => copy'[c].man = repo[copy[c].upd.ver].man]_syncVars
=============================================================================
