----------------------------- MODULE AinoCache ------------------------------
(* The files of a directory mounted as an Amiga volume, as filesys.c keeps   *)
(* them in memory: a tree of a_inodes, one for each file or directory looked *)
(* at so far, with the locks and open files on it. Files nobody refers to    *)
(* are listed as recyclable, and freed some at a time when the list is long; *)
(* the children of a directory that is being enumerated stay. One thread per *)
(* unit executes one packet after the other, so a packet is an action.       *)
EXTENDS Integers, Sequences, SequencesExt

CONSTANTS Name,        \* of files and directories
          Ptr,         \* addresses of a_inodes other than the root's
          MaxFiles,    \* room on the host
          LockId, KeyId, MaxRefs,   \* bounds on locks, open files, both together
          MaxTotal,    \* bound on total, which counts what is created and deleted
                       \* during an enumeration twice
          ExKeys,      \* examine_keys (EXKEYS, 100)
          CacheMax,    \* recyclable a_inodes kept in any case (5000)
          Beyond       \* circumstances the code is not up to, see AinoAssumption

Root == 0
NULL == 0      \* also of pointers to siblings: the root is nobody's sibling

ASSUME AinoAssumption ==
  /\ Ptr \subseteq Nat \ {Root} /\ Ptr # {} /\ {MaxFiles, MaxRefs, MaxTotal, ExKeys, CacheMax} \subseteq Nat
  /\ Cardinality(Ptr) > MaxFiles
  /\ Beyond \subseteq {"mkdirFails",     \* on the host, after the a_inode was made
                       "reapsRenamed",   \* the list is cut back during a rename
                       "intoItself",     \* a directory renamed to a name within itself
                       "deletesScanned", \* a directory whose enumeration was given up
                       "sharesShared",   \* ACTION_CHANGE_MODE from shared to shared
                       "reopenFails"}    \* an open file that had to be closed for a rename

VARIABLES
  ai,          \* the tree: pointers to a_inodes
  listed,      \* in the circular list of the recyclable; its size is aino_cache_size
  total,       \* total_locked_ainos
  exkeys,      \* ACTION_EXAMINE_NEXT in progress, the oldest first
  wild,        \* a freed a_inode was used, otherwise than by do_examine in a
               \* directory that could not be read
  disk,        \* the host's files and directories: paths
  lock, key    \* what programs hold. A lock is an a_inode's number: here, which
               \* one lookup_aino finds by it

aiVars == <<ai, listed, total, exkeys, wild, disk, lock, key>>

NoLock == [aino |-> -1, ex |-> FALSE]
NoKey == [aino |-> NULL, ex |-> FALSE, create |-> 0]
Fresh == [parent |-> Root, name |-> "", dir |-> FALSE, sh |-> 0, el |-> FALSE,
          locked |-> 0, exn |-> 0, child |-> <<>>]

(* The unit as it changes within a packet *)
Now == [ai |-> ai, listed |-> listed, total |-> total, exkeys |-> exkeys, wild |-> wild]
Becomes(s) ==
  ai' = s.ai /\ listed' = s.listed /\ total' = s.total /\ exkeys' = s.exkeys /\ wild' = s.wild

AinoInit ==
  /\ ai = (Root :> [Fresh EXCEPT !.dir = TRUE]) /\ listed = {} /\ total = 0 /\ exkeys = <<>>
  /\ wild = FALSE /\ disk = {} /\ lock = [l \in LockId |-> NoLock] /\ key = [k \in KeyId |-> NoKey]

-----------------------------------------------------------------------------
(* The tree                                                                  *)
Chain(s, p) ==   \* p and the directories it is in, but for the root
  LET up[q \in DOMAIN s.ai] == IF q = Root THEN {} ELSE {q} \cup up[s.ai[q].parent] IN up[p]
Path(s, p) ==
  LET to[q \in DOMAIN s.ai] == IF q = Root THEN <<>> ELSE Append(to[s.ai[q].parent], s.ai[q].name)
  IN  to[p]
Kids(s, d) == Range(s.ai[d].child)
OnDisk(path) == \E f \in disk : f.path = path
MayBeThere(files) ==
  Cardinality(files) <= MaxFiles /\ \A f, g \in files : f.path = g.path => f = g
HasLocked(a) == a.sh > 0 \/ a.el

de_recycle_aino(s, p) == [s EXCEPT !.listed = @ \ {p}]

dispose_aino(s, p) ==
  [s EXCEPT
     !.ai = [q \in DOMAIN @ \ {p} |->
               IF q = @[p].parent THEN [@[q] EXCEPT !.child = Remove(@, p)] ELSE @[q]],
     !.listed = @ \ {p},
     !.exkeys = [i \in DOMAIN @ |-> [@[i] EXCEPT !.due = @ \ {p}, !.seen = @ \ {p}]]]

(* recycle_aino: when there are too many, all the recyclable children of one *)
(* directory, or several, that is not being enumerated are freed.            *)
Reapable(s) == {s.ai[p].parent : p \in {q \in s.listed : s.ai[s.ai[q].parent].locked = 0}}
Reaped(s) ==
  IF Cardinality(s.listed) <= CacheMax + s.total THEN {s}
  ELSE {FoldSet(LAMBDA p, r : dispose_aino(r, p), s, {p \in s.listed : s.ai[p].parent = d}) :
          d \in Reapable(s)}

recycle_aino(s, p) ==
  IF s.ai[p].dir \/ HasLocked(s.ai[p]) THEN {s}
  ELSE {[r EXCEPT !.listed = @ \cup {p}] : r \in Reaped(s)}

Sibling(s, p) ==
  LET c == s.ai[s.ai[p].parent].child
      i == CHOOSE j \in DOMAIN c : c[j] = p
  IN  IF i = Len(c) THEN NULL ELSE c[i + 1]

delete_aino(s, p) ==
  LET d == s.ai[p].parent
      advanced == [i \in DOMAIN s.exkeys |->
        IF s.ai[d].exn > 0 /\ s.exkeys[i].dir = d /\ s.exkeys[i].curr = p
        THEN [s.exkeys[i] EXCEPT !.curr = Sibling(s, p)] ELSE s.exkeys[i]]
  IN  dispose_aino([de_recycle_aino(s, p) EXCEPT !.exkeys = advanced], p)

(* what was found moves to the front of its directory, and so up the tree    *)
lookup_sub(s, p) ==
  [s EXCEPT !.ai = [d \in DOMAIN @ |->
     IF @[d].locked = 0 /\ \E c \in Chain(s, p) : s.ai[c].parent = d
     THEN LET c == CHOOSE x \in Chain(s, p) : s.ai[x].parent = d
          IN  [@[d] EXCEPT !.child = <<c>> \o Remove(@, c)]
     ELSE @[d]]]

(* lookup_aino: in the hash table, or else in the tree                       *)
lookup_aino(s, p) == {[s |-> s, a |-> p], [s |-> lookup_sub(s, p), a |-> p]}

Locks == {l \in LockId : lock[l] # NoLock}

init_child_aino(s, d, n, isdir) ==
  LET p == Min(Ptr \ DOMAIN s.ai)
      one == IF s.ai[d].exn > 0 THEN 1 ELSE 0
  IN  [s |-> [s EXCEPT !.ai = (p :> [Fresh EXCEPT !.parent = d, !.name = n, !.dir = isdir])
                              @@ [@ EXCEPT ![d].child = <<p>> \o @, ![d].locked = @ + one],
                       !.total = @ + one],
       a |-> p]

(* new_child_aino, create_child_aino                                         *)
new_child_aino(s, d, n, isdir) ==
  LET made == init_child_aino(s, d, n, isdir)
  IN  {[s |-> r, a |-> made.a] : r \in IF made.s.total > MaxTotal THEN {}
                                        ELSE recycle_aino(made.s, made.a)}

(* get_aino for one component: what there is, or what is missing and where.  *)
(* What is not in the tree is also missing when its directory does not open. *)
lookup_child_aino(s, d, n) ==
  LET there == {c \in Kids(s, d) : s.ai[c].name = n}
      entry == {f \in disk : f.path = Append(Path(s, d), n)}
  IN  IF ~s.ai[d].dir THEN {[s |-> s, a |-> NULL, err |-> "wrongType"]}
      ELSE IF there # {} THEN {[s |-> s, a |-> c, err |-> "ok"] : c \in there}
      ELSE {[s |-> s, a |-> d, err |-> "notAround"]} \cup
           IF entry = {} THEN {} ELSE {[s |-> r.s, a |-> r.a, err |-> "ok"] : r \in new_child_aino(s, d, n, \E f \in entry : f.dir)}

(* l is 0 for a path from the root *)
find_aino(s, l, n) ==
  UNION {lookup_child_aino(b.s, b.a, n) :
           b \in IF l = 0 THEN {[s |-> s, a |-> Root]} ELSE lookup_aino(s, lock[l].aino)}
-----------------------------------------------------------------------------
(* Locks                                                                     *)
Fails(s) == Becomes(s) /\ UNCHANGED <<disk, lock, key>>

FreeLock == Min(LockId \ Locks)
FreeKey == Min({k \in KeyId : key[k] = NoKey})
Keys == {k \in KeyId : key[k] # NoKey}
MayHold(ids, used) == used # ids /\ Cardinality(Locks) + Cardinality(Keys) < MaxRefs

taken(s, a, ex) ==
  de_recycle_aino([s EXCEPT !.ai[a] = IF ex THEN [@ EXCEPT !.el = TRUE] ELSE [@ EXCEPT !.sh = @ + 1]], a)
let_go(s, a) == [s EXCEPT !.ai[a] = IF @.el THEN [@ EXCEPT !.el = FALSE] ELSE [@ EXCEPT !.sh = @ - 1]]

make_lock(s, a, ex) ==
  /\ Becomes(taken(s, a, ex)) /\ UNCHANGED <<disk, key>>
  /\ lock' = [lock EXCEPT ![FreeLock] = [aino |-> a, ex |-> ex]]

action_lock(l, n, ex) ==
  /\ MayHold(LockId, Locks)
  /\ \E r \in find_aino(Now, l, n) :
       IF r.err # "ok" \/ r.s.ai[r.a].el \/ (ex /\ r.s.ai[r.a].sh > 0)
       THEN Fails(r.s) ELSE make_lock(r.s, r.a, ex)

action_free_lock(l) ==
  /\ \E r \in lookup_aino(Now, lock[l].aino) :
       \E s \in recycle_aino(let_go(r.s, r.a), r.a) : Becomes(s)
  /\ lock' = [lock EXCEPT ![l] = NoLock] /\ UNCHANGED <<disk, key>>

action_dup_lock_2(p) ==
  /\ MayHold(LockId, Locks)
  /\ \E r \in lookup_aino(Now, p) :
       IF r.s.ai[r.a].el THEN Fails(r.s) ELSE make_lock(r.s, r.a, FALSE)

action_dup_lock(l) == action_dup_lock_2(lock[l].aino)

action_lock_from_fh(k) == action_dup_lock_2(key[k].aino)

action_parent_common(p) ==
  /\ MayHold(LockId, Locks)
  /\ \E r \in lookup_aino(Now, p) :
       LET d == r.s.ai[r.a].parent
       IN  IF r.a = Root \/ r.s.ai[d].el THEN Fails(r.s) ELSE make_lock(r.s, d, FALSE)

action_parent(l) == action_parent_common(lock[l].aino)

action_parent_fh(k) == action_parent_common(key[k].aino)

(* type CHANGE_LOCK. With CHANGE_FH the key is looked up by the address of   *)
(* the file handle, which no key's number is, and the packet fails.          *)
action_change_mode(l, ex) ==
  /\ ~ex => lock[l].ex \/ "sharesShared" \in Beyond
  /\ \E r \in lookup_aino(Now, lock[l].aino) :
       LET a == r.s.ai[r.a]
           changed == IF ex THEN [a EXCEPT !.sh = 0, !.el = TRUE] ELSE [a EXCEPT !.el = FALSE, !.sh = @ + 1]
       IN  IF ex /\ a.sh > 1 THEN Fails(r.s)
           ELSE /\ Becomes(de_recycle_aino([r.s EXCEPT !.ai[r.a] = changed], r.a))
                /\ lock' = [lock EXCEPT ![l].ex = ex] /\ UNCHANGED <<disk, key>>

-----------------------------------------------------------------------------
(* Open files. Whatever refuses an existing file for its protection, or as   *)
(* the host does, leaves the unit as it is but for the lookups.              *)
new_key(s, a, ex, create) ==
  /\ Becomes(taken(s, a, ex))
  /\ key' = [key EXCEPT ![FreeKey] = [aino |-> a, ex |-> ex, create |-> create]]

(* ACTION_FINDINPUT, FINDUPDATE, FINDOUTPUT: create is 0, 1, 2               *)
do_find(l, n, create) ==
  /\ MayHold(KeyId, Keys)
  /\ \E r \in find_aino(Now, l, n) :
       \/ (r.err # "notAround" \/ create = 0) /\ Fails(r.s)
       \/ /\ r.err = "ok" /\ ~r.s.ai[r.a].dir /\ ~r.s.ai[r.a].el /\ (create = 2 => r.s.ai[r.a].sh = 0)
          /\ new_key(r.s, r.a, create = 2, create) /\ UNCHANGED <<disk, lock>>
       \/ /\ r.err = "notAround" /\ create > 0
          /\ \E c \in new_child_aino(r.s, r.a, n, FALSE) :
               \/ Fails(delete_aino(c.s, c.a))
               \/ /\ disk' = disk \cup {[path |-> Path(c.s, c.a), dir |-> FALSE]}
                  /\ MayBeThere(disk')
                  /\ new_key(c.s, c.a, create = 2, create) /\ UNCHANGED lock

action_fh_from_lock_Counts(l) ==   \* mutant: the file is counted beside the lock it takes over
  /\ Keys # KeyId
  /\ \E r \in lookup_aino(Now, lock[l].aino) :
       \/ Fails(r.s)
       \/ /\ ~r.s.ai[r.a].dir /\ Becomes([de_recycle_aino(r.s, r.a) EXCEPT !.ai[r.a].sh = @ + 1])
          /\ key' = [key EXCEPT ![FreeKey] = [aino |-> r.a, ex |-> lock[l].ex, create |-> 1]]
          /\ lock' = [lock EXCEPT ![l] = NoLock] /\ UNCHANGED disk

(* the lock becomes the file's, with what it counts                          *)
action_fh_from_lock(l) ==
  /\ Keys # KeyId
  /\ \E r \in lookup_aino(Now, lock[l].aino) :
       \/ Fails(r.s)
       \/ /\ ~r.s.ai[r.a].dir /\ Becomes(de_recycle_aino(r.s, r.a))
          /\ key' = [key EXCEPT ![FreeKey] = [aino |-> r.a, ex |-> lock[l].ex, create |-> 1]]
          /\ lock' = [lock EXCEPT ![l] = NoLock] /\ UNCHANGED disk

action_end(k) ==
  /\ \E s \in recycle_aino(let_go(Now, key[k].aino), key[k].aino) : Becomes(s)
  /\ key' = [key EXCEPT ![k] = NoKey] /\ UNCHANGED <<disk, lock>>

-----------------------------------------------------------------------------
(* Creating, deleting, renaming                                              *)
action_create_dir(l, n) ==
  /\ MayHold(LockId, Locks)
  /\ \E r \in find_aino(Now, l, n) :
       IF r.err # "notAround" THEN Fails(r.s)
       ELSE \E c \in new_child_aino(r.s, r.a, n, TRUE) :
              \/ "mkdirFails" \in Beyond /\ Fails(c.s)
              \/ /\ ~OnDisk(Path(c.s, c.a))
                 /\ disk' = disk \cup {[path |-> Path(c.s, c.a), dir |-> TRUE]}
                 /\ MayBeThere(disk')
                 /\ Becomes(taken(c.s, c.a, FALSE)) /\ UNCHANGED key
                 /\ lock' = [lock EXCEPT ![FreeLock] = [aino |-> c.a, ex |-> FALSE]]

action_delete_object(l, n) ==
  \E r \in find_aino(Now, l, n) :
    IF r.err # "ok" \/ HasLocked(r.s.ai[r.a]) THEN Fails(r.s)
    ELSE LET path == Path(r.s, r.a)
         IN  \/ Fails(r.s)      \* protected, or the host does not
             \/ /\ r.s.ai[r.a].exn > 0 => "deletesScanned" \in Beyond
                /\ ~\E f \in disk : IsStrictPrefix(path, f.path)
                /\ disk' = {f \in disk : f.path # path} /\ UNCHANGED <<lock, key>>
                /\ Becomes(IF r.s.ai[r.a].child # <<>> THEN r.s ELSE delete_aino(r.s, r.a))

(* what action_rename_object copies from a to q, and move_exkeys and         *)
(* move_aino_children move                                                   *)
moved(s, a, q) ==
  [s EXCEPT
     !.ai = [p \in DOMAIN s.ai |->
               IF p = q THEN [s.ai[a] EXCEPT !.parent = s.ai[q].parent, !.name = s.ai[q].name]
               ELSE IF p = a THEN [s.ai[a] EXCEPT !.exn = 0, !.locked = 0, !.child = <<>>]
               ELSE IF p # Root /\ s.ai[p].parent = a THEN [s.ai[p] EXCEPT !.parent = q]
               ELSE s.ai[p]],
     !.exkeys = [i \in DOMAIN @ |-> IF @[i].dir = a THEN [@[i] EXCEPT !.dir = q] ELSE @[i]]]

Renamed(from, to) ==   \* on the host
  {IF IsPrefix(from, f.path)
   THEN [f EXCEPT !.path = to \o SubSeq(@, Len(from) + 1, Len(@))] ELSE f : f \in {g \in disk : g.path # to}}

NowAt(refs, a, q) ==
  [h \in DOMAIN refs |-> IF refs[h].aino = a THEN [refs[h] EXCEPT !.aino = q] ELSE refs[h]]

relinked_KeysKept(a, q) ==   \* mutant: open files go on pointing at the old a_inode
  lock' = NowAt(lock, a, q) /\ UNCHANGED key

(* the new a_inode gets the old one's number, and the keys' pointers         *)
relinked(a, q) == lock' = NowAt(lock, a, q) /\ key' = NowAt(key, a, q)

renames(s, a, q) ==
  LET from == Path(s, a)
      to == Path(s, q)
      held == HasLocked(s.ai[a])
  IN  \/ /\ ~IsPrefix(from, to)
         /\ \A f \in disk : to = f.path => /\ f.dir = s.ai[a].dir
                                           /\ ~\E g \in disk : IsStrictPrefix(to, g.path)
         /\ LET r == delete_aino(moved(s, a, q), a)
            IN  Becomes(IF held THEN de_recycle_aino(r, q) ELSE r)
         /\ disk' = Renamed(from, to) /\ relinked(a, q)
      \/ \* the host refused, also with the open files closed for a moment
         /\ Becomes(delete_aino(s, q)) /\ UNCHANGED <<disk, lock>>
         /\ key' \in {key} \cup (IF "reopenFails" \notin Beyond THEN {}
                               ELSE {[k \in KeyId |-> IF key[k].aino = a THEN NoKey ELSE key[k]]})

action_rename_object(l1, n1, l2, n2) ==
  \E r1 \in find_aino(Now, l1, n1) :
    IF r1.err # "ok" \/ \E k \in Keys : key[k].aino = r1.a /\ key[k].create = 2 THEN Fails(r1.s)
    ELSE \E r2 \in find_aino(r1.s, l2, n2) :
      LET itself == r2.a = r1.a       \* the same name, or one within the directory
          d == IF itself THEN r2.s.ai[r1.a].parent ELSE r2.a
      IN  IF IF itself THEN n1 = n2 ELSE r2.err # "notAround" THEN Fails(r2.s)
          ELSE /\ itself => "intoItself" \in Beyond
               /\ \E q \in new_child_aino(r2.s, d, n2, r2.s.ai[r1.a].dir) :
                    IF r1.a \in DOMAIN q.s.ai THEN renames(q.s, r1.a, q.a)
                    ELSE "reapsRenamed" \in Beyond /\ Fails([q.s EXCEPT !.wild = TRUE])

-----------------------------------------------------------------------------
(* Enumerating a directory: ACTION_EXAMINE_OBJECT, then EXAMINE_NEXT again   *)
(* and again. The children all get a_inodes and are kept until it has ended, *)
(* unless the host does not open the directory: then its enumerations, until *)
(* the last has ended, go through such children as have one, and those that  *)
(* were there at its beginning are not counted, so that they may be freed.   *)
free_exkey(s, i) ==
  LET d == s.exkeys[i].dir
      r == [s EXCEPT !.exkeys = RemoveAt(@, i)]
  IN  IF d \notin DOMAIN s.ai THEN [r EXCEPT !.wild = TRUE]
      ELSE LET last == s.ai[d].exn = 1
           IN  [r EXCEPT !.ai[d].exn = @ - 1, !.ai[d].locked = IF last THEN 0 ELSE @,
                         !.total = IF last THEN @ - s.ai[d].locked ELSE @]

Missing(s, d) ==   \* what populate_directory finds on the host and not in the tree
  {f \in disk : /\ f.path # <<>> /\ Front(f.path) = Path(s, d)
               /\ ~\E c \in Kids(s, d) : s.ai[c].name = Last(f.path)}

populate_directory(s, d) ==
  LET n == Len(s.ai[d].child)
  IN  FoldSet(LAMBDA f, S : UNION {{c.s : c \in new_child_aino(r, d, Last(f.path), f.dir)} : r \in S},
              {[s EXCEPT !.ai[d].locked = @ + n, !.total = @ + n]}, Missing(s, d))

UnreadIn(s, d) == \E i \in DOMAIN s.exkeys : s.exkeys[i].dir = d /\ ~s.exkeys[i].read

(* populate_directory at the first of several enumerations: [s, read]        *)
Begun(s, d) ==
  IF s.ai[d].exn > 1 THEN {[s |-> s, read |-> ~UnreadIn(s, d)]}
  ELSE {[s |-> r, read |-> TRUE] : r \in populate_directory(s, d)} \cup {[s |-> s, read |-> FALSE]}

(* the next child, that may have been freed if the directory was not read:   *)
(* what its memory then holds instead of a sibling is any pointer            *)
do_examine(s, i) ==
  LET p == s.exkeys[i].curr
      next(c) == [s EXCEPT !.exkeys[i].curr = c]
  IN  IF p = NULL THEN {free_exkey(s, i)}
      ELSE IF ~s.exkeys[i].read
           THEN {next(c) : c \in IF p \in DOMAIN s.ai THEN {Sibling(s, p)} ELSE {NULL} \cup Ptr}
      ELSE IF p \notin DOMAIN s.ai THEN {[s EXCEPT !.wild = TRUE]}
      ELSE {[next(Sibling(s, p)) EXCEPT !.exkeys[i].seen = @ \cup {p}]}

examine_first(l) ==
  \E r \in lookup_aino(Now, lock[l].aino) :
    LET s == IF Len(r.s.exkeys) = ExKeys THEN free_exkey(r.s, 1) ELSE r.s
        t == [s EXCEPT !.ai[r.a].exn = @ + 1]
    IN  /\ s.ai[r.a].dir
        /\ \E b \in Begun(t, r.a) :
             LET c == b.s.ai[r.a].child
                 ek == [dir |-> r.a, curr |-> IF c = <<>> THEN NULL ELSE Head(c),
                        read |-> b.read, due |-> IF b.read THEN Range(c) ELSE {}, seen |-> {}]
                 v == [b.s EXCEPT !.exkeys = Append(@, ek)]
             IN  \E w \in do_examine(v, Len(v.exkeys)) : Becomes(w)
        /\ UNCHANGED <<disk, lock, key>>

action_examine_next(l, i) ==
  /\ exkeys[i].dir \in DOMAIN ai /\ exkeys[i].dir = lock[l].aino
  /\ \E r \in lookup_aino(Now, lock[l].aino) : \E w \in do_examine(r.s, i) : Becomes(w)
  /\ UNCHANGED <<disk, lock, key>>

AinoNext ==
  \/ \E l \in Locks \cup {0}, n \in Name :
       \/ \E ex \in BOOLEAN : action_lock(l, n, ex)
       \/ \E create \in 0..2 : do_find(l, n, create)
       \/ action_create_dir(l, n) \/ action_delete_object(l, n)
       \/ \E l2 \in Locks \cup {0}, n2 \in Name : action_rename_object(l, n, l2, n2)
  \/ \E l \in Locks :
       \/ action_free_lock(l) \/ action_dup_lock(l) \/ action_parent(l) \/ action_fh_from_lock(l)
       \/ (\E ex \in BOOLEAN : action_change_mode(l, ex))
       \/ examine_first(l) \/ \E i \in DOMAIN exkeys : action_examine_next(l, i)
  \/ \E k \in Keys : action_end(k) \/ action_lock_from_fh(k) \/ action_parent_fh(k)

AinoSpec == AinoInit /\ [][AinoNext]_aiVars
-----------------------------------------------------------------------------
Live == DOMAIN ai
HoldersOf(p) == {<<"lock", l>> : l \in {m \in Locks : lock[m].aino = p}}
                \cup {<<"key", k>> : k \in {m \in Keys : key[m].aino = p}}
IsEx(h) == IF h[1] = "lock" THEN lock[h[2]].ex ELSE key[h[2]].ex

AinoTypeOK ==
  /\ Root \in Live /\ Live \subseteq Ptr \cup {Root} /\ listed \subseteq Live \ {Root}
  /\ \A p \in Live : ai[p].parent \in Live /\ ai[p].sh \in Nat /\ ai[p].exn \in 0..ExKeys
  /\ total \in Nat /\ Len(exkeys) <= ExKeys
  /\ \A p \in Live \ {Root} : Cardinality({i \in DOMAIN ai[ai[p].parent].child :
                                               ai[ai[p].parent].child[i] = p}) = 1

(* What a program holds a lock on, or has open, stays in memory whatever is  *)
(* looked up, created, renamed or deleted meanwhile: the number in the lock  *)
(* finds it, the pointer of the open file is good, nothing recycles it.      *)
HeldAreKept ==
  /\ \A l \in Locks : lock[l].aino \in Live /\ HasLocked(ai[lock[l].aino]) /\ lock[l].aino \notin listed
  /\ \A k \in Keys : key[k].aino \in Live /\ HasLocked(ai[key[k].aino]) /\ key[k].aino \notin listed

(* The counts on an a_inode are those of its holders, through duplication,   *)
(* change of mode, locks that become files and renames: nothing stays locked *)
(* that nobody holds.                                                        *)
CountsAreHolders ==
  \A p \in Live : /\ ai[p].sh = Cardinality({h \in HoldersOf(p) : ~IsEx(h)})
                  /\ ai[p].el <=> \E h \in HoldersOf(p) : IsEx(h)

(* Who has an exclusive lock, or opened a new file, is alone with it.        *)
ExclusiveIsAlone ==
  \A p \in Live : (\E h \in HoldersOf(p) : IsEx(h)) => Cardinality(HoldersOf(p)) = 1

(* A directory knows how many enumerations there are of it, and the counts   *)
(* of children to be kept add up, whichever enumeration ends first and       *)
(* whatever is renamed meanwhile. When the directory could not be read, the  *)
(* children of before are not counted (filesys.c:2199).                      *)
ScansAreCounted ==
  /\ \A p \in Live : /\ ai[p].exn = Cardinality({i \in DOMAIN exkeys : exkeys[i].dir = p})
                     /\ ai[p].exn = 0 => ai[p].locked = 0
                     /\ ai[p].exn > 0 => ai[p].locked >= Len(ai[p].child) \/ UnreadIn(Now, p)
  /\ total = FoldSet(LAMBDA p, n : n + ai[p].locked, 0, Live)

(* When the list is too long something can be freed: recycle_aino's loop     *)
(* ends. What is kept for enumerations is not counted against the limit. But *)
(* in a directory that could not be read one new child keeps all of them.    *)
ReapingEnds ==
  \/ Cardinality({p \in listed : ai[ai[p].parent].locked = 0}) >= Cardinality(listed) - total
  \/ \E d \in Live : UnreadIn(Now, d) /\ Len(ai[d].child) > ai[d].locked /\ ai[d].locked > 0

(* An enumeration that could read its directory yields every child that was  *)
(* there when it began and still is, and none twice: what it has not yielded *)
(* is ahead of it, what it has is behind, through deletions, renames and     *)
(* lookups in between.                                                       *)
ScanCovers ==
  \A i \in DOMAIN exkeys :
    exkeys[i].dir \in Live /\ exkeys[i].read =>
    LET c == ai[exkeys[i].dir].child
        ahead == {c[j] : j \in {m \in DOMAIN c : \E h \in 1..m : c[h] = exkeys[i].curr}}
    IN  /\ exkeys[i].curr # NULL => exkeys[i].curr \in Range(c)
        /\ (exkeys[i].due \cap Range(c)) \ exkeys[i].seen \subseteq ahead
        /\ ahead \cap exkeys[i].seen = {}

(* The tree shows the host's directory: every a_inode is a file or directory *)
(* that is there, under its path, and no two are the same, so that a lock on *)
(* one excludes others. No freed one is used, but by the enumeration of a    *)
(* directory that could not be read, whose next child may have been freed.   *)
AinosAreFiles ==
  /\ ~wild
  /\ \A p \in Live \ {Root} :
       /\ [path |-> Path(Now, p), dir |-> ai[p].dir] \in disk
       /\ \A q \in Live \ {Root, p} : Path(Now, p) # Path(Now, q)

(* All that is counted of a_inodes adds up: holders, enumerations, and what  *)
(* may be freed.                                                             *)
CountsAddUp == CountsAreHolders /\ ExclusiveIsAlone /\ ScansAreCounted /\ ReapingEnds

(* The tree of a_inodes is that of the host, keeps what is in use, and is    *)
(* enumerated whole.                                                         *)
TreeIsSound == AinoTypeOK /\ HeldAreKept /\ AinosAreFiles /\ ScanCovers
=============================================================================
