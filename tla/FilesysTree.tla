---------------------------- MODULE FilesysTree ----------------------------
(***************************************************************************)
(* The objects of one directory volume (filesys.cpp): the tree of a_inodes *)
(* made as the guest names files, the chain of those that may be freed     *)
(* when there are too many, the guest's locks, open files and ExNext scans *)
(* that must keep an a_inode alive, and the host's directory they stand    *)
(* for.  The thread of the unit runs one packet at a time, so a packet is  *)
(* one step.                                                               *)
(*                                                                         *)
(* A lock holds the uniq of its a_inode, an open file (Key) its address.   *)
(* An address is the uniq the a_inode was born with (rename gives it the   *)
(* uniq of another); freed addresses leave the domain of ino.  uniq 0 is   *)
(* the root.  Protection bits, read-only volumes and soft links are a      *)
(* refusal that may happen to any packet.                                  *)
(***************************************************************************)
EXTENDS Integers, Sequences, SequencesExt

CONSTANTS Names,          \* names of files and directories
          Paths,          \* bound: the full names of objects
          MaxInodes,      \* bound: a_inodes created in a behaviour
          MaxLocks,       \* bound: locks the guest holds
          MaxExNext,      \* bound: scans of one directory, abandoned ones too
          Keys, Scans,    \* files open at a time; FileInfoBlocks in use
          CacheMax,       \* recyclable a_inodes before some are freed (5000)
          FlushNum,       \* how many are freed then (50)
          FlushTries,     \* passes that free nothing before giving up (100)
          InitHost,       \* the host directory: path -> "dir" or "file"
          Watched,        \* full names with a notification request
          HostMayFail,    \* host calls that may fail for reasons of the host
          HostRefusesOpen,\* TRUE: the host does not rename an open file
          Habits          \* what the guest does: a subset of AllHabits

AllHabits == {"rename file", "rename parent", "exnext again", "change current",
              "share twice"}

ASSUME TreeAssumption ==
    /\ Habits \subseteq AllHabits /\ HostRefusesOpen \in BOOLEAN
    /\ {MaxInodes, MaxLocks, MaxExNext, CacheMax, FlushNum, FlushTries} \subseteq Nat
    /\ FlushNum > 0 /\ FlushTries > 0
    /\ IsFiniteSet(Names) /\ IsFiniteSet(Keys) /\ IsFiniteSet(Scans)
    /\ Paths \subseteq Seq(Names) \ {<<>>} /\ Watched \in Seq(Seq(Names) \ {<<>>})
    /\ DOMAIN InitHost \subseteq Seq(Names) /\ <<>> \in DOMAIN InitHost /\ InitHost[<<>>] = "dir"
    /\ \A path \in DOMAIN InitHost \ {<<>>} : Front(path) \in DOMAIN InitHost

VARIABLES unit,   \* the a_inodes and their bookkeeping
          locks,  \* uniq -> locks the guest holds on it
          keys,   \* open files: the a_inode, how it was created, notifyactive
          host,   \* the host directory: path -> "dir" or "file"
          scan    \* the guest's ExNext loops

vars == <<unit, locks, keys, host, scan>>

Root  == 0
None  == -1
NoKey == [ino |-> None, create |-> 0, notify |-> FALSE]
NoScan == [st |-> "idle", dir |-> Root, at |-> Root, seen |-> {}, must |-> {}, again |-> FALSE]

Garbled == <<"garbled">>    \* an nname that names nothing on the host

Node(parent, name, nname, uniq, dir) ==
    [parent |-> parent, name |-> name, nname |-> nname, uniq |-> uniq, dir |-> dir,
     shlock |-> 0, elock |-> FALSE, exnext |-> 0, locked |-> 0, kids |-> <<>>]

TreeInit ==
    /\ unit = [ino |-> [q \in {Root} |-> Node(None, "", <<>>, 0, TRUE)], chain |-> <<>>,
               cache |-> 0, total |-> 0, a_uniq |-> 0, wild |-> FALSE]
    /\ locks = [q \in 0..MaxInodes |-> 0]
    /\ keys = [k \in Keys |-> NoKey]
    /\ host = InitHost
    /\ scan = [s \in Scans |-> NoScan]

----------------------------------------------------------------------------
(* a_inodes: u is the unit, p and q are addresses *)

Live(u) == DOMAIN u.ino
Busy(n) == n.shlock > 0 \/ n.elock
Free(f, p) == [q \in DOMAIN f \ {p} |-> f[q]]
With(f, p, v) == [q \in DOMAIN f \cup {p} |-> IF q = p THEN v ELSE f[q]]

\* op on v and each element of seq in turn; a function, so that it can be proved about.
Fold(op(_, _), v, seq) ==
    LET done[i \in 0..Len(seq)] == IF i = 0 THEN v ELSE op(done[i - 1], seq[i])
    IN  done[Len(seq)]
Upto(n) == [i \in 1..n |-> i]

Without(seq, P) == Fold(LAMBDA kept, q : IF q \in P THEN kept ELSE Append(kept, q), <<>>, seq)

\* (mutant) a handler that forgets the count
KeepCount(u, P) == [u EXCEPT !.chain = Without(@, P)]

\* Some a_inodes are in use again, or about to go.
de_recycle_aino(u, P) ==
    [u EXCEPT !.chain = Without(@, P), !.cache = @ - Cardinality(P \cap ToSet(u.chain))]

\* Some children of one parent go.
dispose_aino(u, parent, P) ==
    [u EXCEPT !.ino = [q \in Live(u) \ P |->
        IF q = parent THEN [u.ino[q] EXCEPT !.kids = Without(@, P)] ELSE u.ino[q]]]

\* The chain turns until the oldest entry has another parent.  When all have the
\* same it gives up after 10000 turns; they are then freed together or not at all,
\* and their order is of no consequence.
Turn(u, parent) ==
    LET others == {i \in 1..(Len(u.chain) - 1) : u.ino[u.chain[i]].parent # parent}
        cut    == IF others = {} THEN Len(u.chain) ELSE Max(others)
    IN  [u EXCEPT !.chain = SubSeq(@, cut + 1, Len(@)) \o SubSeq(@, 1, cut)]

\* One pass of flush_cache: the chained children of the parent of the oldest entry.
FlushChildren(v, parent) ==
    LET P == IF v.u.ino[parent].locked > 0 THEN {}
             ELSE {q \in ToSet(v.u.chain) : v.u.ino[q].parent = parent}
    IN  [u     |-> Turn(dispose_aino(de_recycle_aino(v.u, P), parent, P), parent),
         freed |-> v.freed + Cardinality(P),
         tries |-> IF P = {} THEN v.tries - 1 ELSE v.tries]

FlushPass(v) ==
    IF v.freed >= FlushNum \/ v.u.chain = <<>> \/ v.tries = 0 THEN v
    ELSE FlushChildren(v, v.u.ino[v.u.chain[Len(v.u.chain)]].parent)

\* Each pass frees an a_inode or is one of the tries.
flush_cache(u) ==
    Fold(LAMBDA v, i : FlushPass(v), [u |-> u, freed |-> 0, tries |-> FlushTries],
         Upto(FlushNum + FlushTries)).u

recycle_aino(u, p) ==
    IF u.ino[p].dir \/ Busy(u.ino[p]) THEN u
    ELSE [(IF u.cache > CacheMax + u.total THEN flush_cache(u) ELSE u)
             EXCEPT !.chain = <<p>> \o @, !.cache = @ + 1]

\* new_child_aino and create_child_aino; the new a_inode is u.a_uniq + 1.
init_child_aino(u, base, name, dir) ==
    LET p      == u.a_uniq + 1
        d      == u.ino[base]
        watch  == d.exnext # 0
        node   == Node(base, name, Append(d.nname, name), p, dir)
        parent == [d EXCEPT !.kids = <<p>> \o d.kids,
                            !.locked = IF watch THEN d.locked + 1 ELSE d.locked]
    IN  recycle_aino([u EXCEPT !.a_uniq = p,
                               !.total = IF watch THEN u.total + 1 ELSE u.total,
                               !.ino = With([u.ino EXCEPT ![base] = parent], p, node)], p)

\* Where in the list of children the name is.
ChildNamed(u, base, name) ==
    {i \in 1..Len(u.ino[base].kids) : u.ino[u.ino[base].kids[i]].name = name}

lookup_child_aino(u, base, name) ==
    LET found == ChildNamed(u, base, name)
        path  == Append(u.ino[base].nname, name)
    IN  CASE ~u.ino[base].dir -> [u |-> u, node |-> None, err |-> "wrong type"]
          [] u.ino[base].dir /\ found # {} ->
                 [u |-> u, node |-> u.ino[base].kids[Min(found)], err |-> "ok"]
          [] u.ino[base].dir /\ found = {} /\ path \in DOMAIN host ->
                 [u |-> init_child_aino(u, base, name, host[path] = "dir"),
                  node |-> u.a_uniq + 1, err |-> "ok"]
          [] OTHER -> [u |-> u, node |-> base, err |-> "not around"]

\* The last component may be missing: then node is the directory it would be in.
Down(r, name) ==
    IF r.err = "ok" THEN lookup_child_aino(r.u, r.node, name) ELSE [r EXCEPT !.node = None]

get_aino(u, base, rel) == Fold(Down, [u |-> u, node |-> base, err |-> "ok"], rel)

HasUniq(u, q) == {p \in Live(u) : u.ino[p].uniq = q}
NodeOf(u, q) == IF HasUniq(u, q) = {} THEN None ELSE CHOOSE p \in HasUniq(u, q) : TRUE

\* lookup_sub on the way back: each a_inode on the path to p becomes the first
\* child of its parent, unless the parent is being scanned.
Front1(v) ==
    LET d == v.u.ino[v.p].parent
    IN  IF v.p = Root THEN v
        ELSE [u |-> IF v.u.ino[d].locked > 0 THEN v.u
                    ELSE [v.u EXCEPT !.ino[d].kids = <<v.p>> \o Without(@, {v.p})],
              p |-> d]
ToFront(u, p) == Fold(LAMBDA v, i : Front1(v), [u |-> u, p |-> p], Upto(u.a_uniq)).u

\* hit: aino_hash knew the a_inode.
lookup_aino(u, q, hit) ==
    LET p == NodeOf(u, q)
    IN  [node |-> p, u |-> IF hit \/ p = None THEN u ELSE ToFront(u, p)]

find_aino(u, q, rel, hit) ==
    LET under(r) == get_aino(r.u, IF r.node = None THEN Root ELSE r.node, rel)
    IN  under(lookup_aino(u, q, hit))

\* notify_check looks up every watched name that ends like the changed object or
\* its directory.
notify_check(u, p) ==
    LET names == {u.ino[p].name}
                 \cup IF p = Root THEN {} ELSE {u.ino[u.ino[p].parent].name}
    IN  Fold(LAMBDA v, w : IF Last(w) \in names THEN get_aino(v, Root, w).u ELSE v, u, Watched)

\* (mutant) the a_inode stays in the tree
KeepAino(u, p) == u

delete_aino(u, p) == dispose_aino(de_recycle_aino(u, {p}), u.ino[p].parent, {p})

\* update_child_names builds the new name in memory nothing has written to.
update_child_names(u, from, to) ==
    LET below == {q \in Live(u) : q # Root /\
                    (u.ino[q].parent = from \/ (u.ino[q].parent # Root /\ u.ino[u.ino[q].parent].parent = from))}
        moved(n) == [n EXCEPT !.parent = IF n.parent = from THEN to ELSE n.parent,
                              !.nname = Garbled]
    IN  [u EXCEPT !.ino = [q \in Live(u) |-> IF q \in below THEN moved(u.ino[q]) ELSE u.ino[q]]]

\* The transfer of a1's place in the world to a2.
replace_aino(u, a1, a2, wehavekeys) ==
    LET old == u.ino[a1]
        new == [u.ino[a2] EXCEPT !.uniq = old.uniq, !.elock = old.elock, !.shlock = old.shlock,
                                 !.exnext = old.exnext, !.locked = old.locked, !.kids = old.kids]
        v   == [u EXCEPT !.ino[a2] = new, !.ino[a1].kids = <<>>]
        chain(w) == IF Busy(old) \/ wehavekeys THEN de_recycle_aino(w, {a2}) ELSE w
    IN  chain(delete_aino(update_child_names(v, a1, a2), a1))

----------------------------------------------------------------------------
(* The host directory *)

Exists(path) == path \in DOMAIN host
CanCreate(path) ==
    /\ ~Exists(path)
    /\ Exists(Front(path)) /\ host[Front(path)] = "dir"
Empty(path) == \A q \in DOMAIN host : q # path => ~IsPrefix(path, q)

\* A host call named op does what it can, or fails.
MayFail(op) == IF op \in HostMayFail THEN BOOLEAN ELSE {FALSE}

Renamed(from, to) ==
    LET new(q) == IF IsPrefix(from, q) THEN to \o SubSeq(q, Len(from) + 1, Len(q)) ELSE q
    IN  [r \in {new(q) : q \in DOMAIN host} |->
            host[CHOOSE q \in DOMAIN host : new(q) = r]]

----------------------------------------------------------------------------
(* Packets.  A packet that fails leaves behind only what looking up did. *)

Unchanged(u) == unit' = u /\ UNCHANGED <<locks, keys, host, scan>>

\* The handler uses an a_inode that was freed: anything may happen from here.
Wild(u) == Unchanged([u EXCEPT !.wild = TRUE])

LockHeld == {q \in DOMAIN locks : locks[q] > 0}
KeyOpen == {k \in Keys : keys[k] # NoKey}
LocksHeld == MapThenSumSet(LAMBDA q : locks[q], LockHeld)

\* One more lock on the a_inode p of u.
make_lock(u, p) ==
    /\ u.a_uniq <= MaxInodes /\ LocksHeld < MaxLocks
    /\ locks' = [locks EXCEPT ![u.ino[p].uniq] = @ + 1]

\* A shared or an exclusive hold on p, which is no longer recyclable.
Hold(u, p, exclusive) ==
    de_recycle_aino([u EXCEPT !.ino[p].elock = @ \/ exclusive,
                              !.ino[p].shlock = IF exclusive THEN @ ELSE @ + 1], {p})

\* (mutant) an exclusive hold given back as if it were shared
ReleaseShared(u, p) ==
    recycle_aino([u EXCEPT !.ino[p].shlock = IF u.ino[p].elock THEN 0 ELSE @ - 1], p)

\* (mutant) the last holder is forgotten, the chain is not
ReleaseUnchained(u, p) ==
    [u EXCEPT !.ino[p].elock = FALSE,
              !.ino[p].shlock = IF u.ino[p].elock THEN @ ELSE @ - 1]

Release(u, p) ==
    recycle_aino([u EXCEPT !.ino[p].elock = FALSE,
                           !.ino[p].shlock = IF u.ino[p].elock THEN @ ELSE @ - 1], p)

\* r is what find_aino made of the name in the packet, or lookup_aino of the uniq.
\* A packet that is refused, whatever its type, has looked up all the same.
Refused(r) == Unchanged(r.u)

action_lock(r, exclusive) ==
    /\ r.err = "ok"
    /\ ~r.u.ino[r.node].elock /\ (exclusive => r.u.ino[r.node].shlock = 0)
    /\ unit' = Hold(r.u, r.node, exclusive)
    /\ make_lock(r.u, r.node)
    /\ UNCHANGED <<keys, host, scan>>

action_free_lock(q, r) ==
    /\ r.node # None
    /\ unit' = Release(r.u, r.node)
    /\ locks' = [locks EXCEPT ![q] = @ - 1]
    /\ UNCHANGED <<keys, host, scan>>

\* action_dup_lock and action_lock_from_fh
action_dup_lock_2(r) ==
    IF r.node = None \/ r.u.ino[r.node].elock THEN Unchanged(r.u)
    ELSE /\ unit' = Hold(r.u, r.node, FALSE)
         /\ make_lock(r.u, r.node)
         /\ UNCHANGED <<keys, host, scan>>

\* action_parent and action_parent_fh
action_parent_common(r) ==
    LET d == r.u.ino[r.node].parent
    IN  IF r.node = None \/ r.node = Root \/ r.u.ino[d].elock THEN Unchanged(r.u)
        ELSE /\ unit' = Hold(r.u, d, FALSE)
             /\ make_lock(r.u, d)
             /\ UNCHANGED <<keys, host, scan>>

\* action_change_mode: the object is given by the uniq of its a_inode.
action_change_mode(r, exclusive) ==
    LET n == r.u.ino[r.node]
    IN  IF r.node = None \/ (exclusive /\ n.shlock > 1) THEN Unchanged(r.u)
        ELSE /\ exclusive \/ n.elock \/ ("share twice" \in Habits /\ n.shlock <= MaxLocks)
             /\ unit' = de_recycle_aino(
                    [r.u EXCEPT !.ino[r.node].elock = exclusive,
                                !.ino[r.node].shlock = IF exclusive THEN 0 ELSE @ + 1], {r.node})
             /\ UNCHANGED <<locks, keys, host, scan>>

\* do_find: create is 0 (old file), 1 (read and write) or 2 (new file); made: the
\* a_inode p is new, and goes again when the file does not open.
open_key(k, u, p, create, made) ==
    LET path == u.ino[p].nname
    IN  \E failed \in MayFail("open") :
           IF ~failed /\ (Exists(path) \/ (create > 0 /\ CanCreate(path)))
           THEN /\ keys' = [keys EXCEPT ![k] =
                              [ino |-> p, create |-> create, notify |-> create > 0]]
                /\ unit' = Hold(u, p, create = 2)
                /\ host' = With(host, path, "file")
                /\ UNCHANGED <<locks, scan>>
           ELSE Unchanged(IF made THEN delete_aino(u, p) ELSE u)

do_find(k, r, name, create) ==
    \/ /\ r.err = "ok"
       /\ LET n == r.u.ino[r.node] IN ~n.dir /\ ~n.elock /\ (create = 2 => n.shlock = 0)
       /\ open_key(k, r.u, r.node, create, FALSE)
    \/ /\ r.err = "not around" /\ r.node # None /\ create > 0
       /\ \E u \in {init_child_aino(r.u, r.node, name, FALSE)} : open_key(k, u, u.a_uniq, create, TRUE)

\* The open file takes over the hold of the lock.
action_fh_from_lock(k, q, r) ==
    LET path == r.u.ino[r.node].nname
    IN  /\ r.node # None
        /\ \E failed \in MayFail("open") :
             IF failed \/ ~Exists(path) \/ host[path] = "dir" THEN Unchanged(r.u)
             ELSE /\ keys' = [keys EXCEPT ![k] = [ino |-> r.node, create |-> 0, notify |-> FALSE]]
                  /\ unit' = de_recycle_aino(r.u, {r.node})
                  /\ locks' = [locks EXCEPT ![q] = @ - 1]
                  /\ UNCHANGED <<host, scan>>

action_end(k) ==
    LET p == keys[k].ino
    IN  IF p \notin Live(unit) THEN Wild(unit)
        ELSE /\ unit' = Release(IF keys[k].notify THEN notify_check(unit, p) ELSE unit, p)
             /\ keys' = [keys EXCEPT ![k] = NoKey]
             /\ UNCHANGED <<locks, host, scan>>

\* Entries that scans still owe are only those that remain on the host.
Pruned(u, h, gone) ==
    [s \in Scans |->
        IF scan[s].st # "on" THEN scan[s] ELSE
        [scan[s] EXCEPT !.must = IF NodeOf(u, scan[s].dir) = None THEN {}
            ELSE {n \in @ : Append(u.ino[NodeOf(u, scan[s].dir)].nname, n) \in DOMAIN h \ {gone}}]]

action_create_dir(r, name) ==
    /\ r.err = "not around" /\ r.node # None
    /\ \E u \in {init_child_aino(r.u, r.node, name, TRUE)}, failed \in MayFail("mkdir") :
       \E v \in {notify_check([u EXCEPT !.ino[u.a_uniq].shlock = 1], u.a_uniq)} :
         LET path == u.ino[u.a_uniq].nname
         IN  IF failed \/ ~CanCreate(path) THEN Unchanged(u)
             ELSE /\ host' = With(host, path, "dir")
                  /\ unit' = v /\ make_lock(v, u.a_uniq)
                  /\ UNCHANGED <<keys, scan>>

\* The guest's loops stand on the a_inode.
Current(u, p) ==
    {s \in Scans : scan[s].st = "on" /\ (u.ino[p].uniq \in {scan[s].at, scan[s].dir})}
Leaves(u, p) == Current(u, p) = {} \/ "change current" \in Habits

action_delete_object(r) ==
    LET n    == r.u.ino[r.node]
        rest == Free(host, n.nname)
    IN  /\ r.err = "ok" /\ r.node # Root /\ ~Busy(n) /\ Leaves(r.u, r.node)
        /\ \E failed \in MayFail("unlink"), u \in {notify_check(r.u, r.node)} :
             IF failed \/ ~Exists(n.nname) \/ ~Empty(n.nname) THEN Unchanged(r.u)
             ELSE IF r.node \notin Live(u) THEN Wild(u)
             ELSE /\ host' = rest
                  /\ unit' = IF u.ino[r.node].kids = <<>> THEN delete_aino(u, r.node) ELSE u
                  /\ scan' = Pruned(unit', rest, n.nname)
                  /\ UNCHANGED <<locks, keys>>

\* (mutant) the reopened files keep the old a_inode
RelockedOld(from, to, closed) ==
    [k \in Keys |-> IF k \in closed THEN NoKey ELSE keys[k]]

\* Keys open on a1 that relock_re moves to a2, or gives up when they do not open.
Relocked(from, to, closed) ==
    [k \in Keys |-> IF keys[k].ino # from THEN keys[k]
                    ELSE IF k \in closed THEN NoKey ELSE [keys[k] EXCEPT !.ino = to]]

\* my_rename, and once more with the open files closed (relock_do, relock_re).
\* first, second: the two calls succeed; closed: the files that do not open again.
\* notify_check comes after the rename and looks watched names up in the renamed host;
\* here it sees the old one, which for names of the root is the same: the name taken
\* and the name given up have their a_inodes, a2 and a1, in the tree already.
rename_host(a1, n1, a2, n2, u, first, second, closed) ==
    LET open   == {k \in Keys : keys[k].ino = a1}
        can    == n1 = n2 \/ (Exists(n1) /\ CanCreate(n2) /\ ~IsPrefix(n1, n2))
        renames == can /\ (first \/ second)
        moved  == IF n1 = n2 THEN host ELSE Renamed(n1, n2)
    IN  /\ first => open = {} \/ ~HostRefusesOpen
        /\ closed \subseteq open /\ (first => closed = {})
        /\ IF ~renames
           THEN /\ unit' = delete_aino(u, a2)
                /\ keys' = Relocked(a1, a1, closed) /\ UNCHANGED <<locks, host, scan>>
           ELSE \E v \in {notify_check(notify_check(u, a1), a2)} :
                IF ~({a1, a2} \subseteq Live(v)) THEN Wild(v)
                ELSE /\ unit' = replace_aino(v, a1, a2, ~first /\ open # {})
                     /\ keys' = IF first THEN keys ELSE Relocked(a1, a2, closed)
                     /\ host' = moved
                     /\ scan' = Pruned(unit', moved, n1)
                     /\ UNCHANGED locks

action_rename_object(r1, rel2, othercase) ==
    \E r2 \in {find_aino(r1.u, Root, rel2, TRUE)} :
    LET a1   == r1.node
        n1   == r2.u.ino[a1]
        same == r2.node = a1 /\ r2.err = "ok"
        dir  == IF same THEN n1.parent ELSE r2.node
    IN  \/ /\ r1.err = "ok"
           /\ \A k \in Keys : keys[k].ino = a1 => keys[k].create # 2
           /\ (same /\ othercase) \/ (~othercase /\ r2.err = "not around" /\ dir # None)
           /\ Leaves(r1.u, a1)
           /\ n1.kids # <<>> => "rename parent" \in Habits
           /\ \E u \in {init_child_aino(r2.u, dir, Last(rel2), n1.dir)} :
                /\ u.a_uniq <= MaxInodes
                /\ ~n1.dir => "rename file" \in Habits \/ Busy(n1) \/ r2.u.cache <= CacheMax + r2.u.total
                /\ IF a1 \notin Live(u) THEN Wild(u)
                   ELSE \E first, second \in {TRUE} \cup {~f : f \in MayFail("rename")} :
                        \E closed \in SUBSET (IF TRUE \in MayFail("reopen") THEN Keys ELSE {}) :
                           rename_host(a1, n1.nname, u.a_uniq, u.ino[u.a_uniq].nname, u,
                                       first, second, closed)
        \/ /\ r1.err = "ok" /\ same /\ ~othercase
           /\ Unchanged(notify_check(r2.u, a1))

----------------------------------------------------------------------------
(* Examine and ExNext *)

\* The entries that the host lists, in any order.
Listings(n) == SetToSeqs({x \in Names : Exists(Append(n.nname, x))})

lookup_child_aino_for_exnext(u, d, name) ==
    LET path == Append(u.ino[d].nname, name)
    IN  IF \E c \in ToSet(u.ino[d].kids) : u.ino[c].nname = path THEN u
        ELSE init_child_aino(u, d, name, host[path] = "dir")

\* (mutant) the a_inodes that exist already are not counted
PopulateNew(u, d) ==
    {Fold(LAMBDA v, x : lookup_child_aino_for_exnext(v, d, x), u, list) : list \in Listings(u.ino[d])}

populate_directory(u, d) ==
    LET old  == Len(u.ino[d].kids)
        held == [u EXCEPT !.ino[d].locked = @ + old, !.total = @ + old]
    IN  {Fold(LAMBDA v, x : lookup_child_aino_for_exnext(v, d, x), held, list) : list \in Listings(u.ino[d])}

\* (mutant) every end of a loop unlocks the children
FreeExkeyAll(u, d) ==
    [u EXCEPT !.total = @ - u.ino[d].locked, !.ino[d].exnext = @ - 1, !.ino[d].locked = 0]

free_exkey(u, d) ==
    IF u.ino[d].exnext = 1
    THEN [u EXCEPT !.total = @ - u.ino[d].locked, !.ino[d].exnext = 0, !.ino[d].locked = 0]
    ELSE [u EXCEPT !.ino[d].exnext = @ - 1]

\* action_examine_object: the FileInfoBlock gets the uniq of the directory.
Examine(s, q, r) ==
    /\ scan[s].st # "on"
    /\ r.node # None /\ (r.u.ino[r.node].dir \/ "exnext again" \in Habits)
    /\ unit' = r.u
    /\ scan' = [scan EXCEPT ![s] = [NoScan EXCEPT !.st = "on", !.dir = q, !.at = q]]
    /\ UNCHANGED <<locks, keys, host>>

\* A program that stops before the last entry never tells the handler.
Abandon(s) ==
    /\ scan[s].st = "on" /\ scan' = [scan EXCEPT ![s] = NoScan]
    /\ UNCHANGED <<unit, locks, keys, host>>

\* What is left of a loop that was told there are no more entries: what it missed.
Ended(sc, must) ==
    LET left == [NoScan EXCEPT !.must = must \ sc.seen, !.again = sc.again]
    IN  IF "exnext again" \notin Habits THEN left
        ELSE [left EXCEPT !.st = "end", !.dir = sc.dir, !.at = sc.at]

\* The first of the entries seq that the host still has, or no more entries.
Answer(s, u, d, seq, must) ==
    LET there == {i \in 1..Len(seq) : Exists(u.ino[seq[i]].nname)}
        entry == u.ino[seq[Min(there)]]
        sc    == scan[s]
    IN  IF there = {} \/ entry.parent # d
        THEN /\ unit' = free_exkey(u, d)
             /\ scan' = [scan EXCEPT ![s] = Ended(sc, must)]
        ELSE /\ unit' = u
             /\ scan' = [scan EXCEPT ![s].at = entry.uniq, ![s].must = must,
                                     ![s].seen = @ \cup {entry.name},
                                     ![s].again = @ \/ entry.name \in sc.seen]

\* Where to go on when the current entry is gone.
AfterLost(u, d, q) ==
    LET kids   == u.ino[d].kids
        larger == {i \in 1..Len(kids) : u.ino[kids[i]].uniq > q}
    IN  IF larger = {} THEN kids ELSE SubSeq(kids, Min(larger), Len(kids))

After(u, c) ==
    LET kids == u.ino[u.ino[c].parent].kids
    IN  SubSeq(kids, 1 + CHOOSE i \in 1..Len(kids) : kids[i] = c, Len(kids))

action_examine_next(s, hit) ==
    \E base \in {lookup_aino(unit, scan[s].dir, hit)} :
    LET d     == base.node
        n     == base.u.ino[d]
        again == [base.u EXCEPT !.ino[d].exnext = @ + 1]
    IN  /\ scan[s].st = "on" \/ (scan[s].st = "end" /\ "exnext again" \in Habits)
        /\ d # None
        /\ IF scan[s].at = n.uniq
           THEN \/ /\ ~n.dir /\ Answer(s, base.u, d, <<>>, {})
                \/ /\ n.dir /\ n.exnext < MaxExNext
                   /\ \E u \in IF n.exnext = 0 /\ Exists(n.nname)
                               THEN populate_directory(again, d)
                                    \cup (IF "opendir" \in HostMayFail THEN {again} ELSE {})
                               ELSE {again} :
                        Answer(s, u, d, u.ino[d].kids,
                               {x \in Names : Exists(Append(n.nname, x))})
           ELSE \E next \in {lookup_aino(base.u, scan[s].at, hit)} :
                Answer(s, next.u, d, IF next.node = None THEN AfterLost(next.u, d, scan[s].at)
                                     ELSE After(next.u, next.node), scan[s].must)
        /\ UNCHANGED <<locks, keys, host>>

----------------------------------------------------------------------------

\* What a packet names: a path from the root, or a name under a lock.
Args == {<<Root, path>> : path \in Paths} \cup {<<q, <<x>>>> : q \in LockHeld, x \in Names}
Hits(q) == IF q = Root \/ lookup_aino(unit, q, FALSE).u = unit THEN {TRUE} ELSE BOOLEAN

NamePacket(r, name) ==
    \/ Refused(r)
    \/ \E exclusive \in BOOLEAN : action_lock(r, exclusive)
    \/ \E k \in Keys \ KeyOpen, create \in 0..2 : do_find(k, r, name, create)
    \/ action_create_dir(r, name)
    \/ action_delete_object(r)
    \/ \E to \in Paths, othercase \in BOOLEAN : action_rename_object(r, to, othercase)

\* Handlers that get an a_inode by its uniq, from a lock or an open file.
UniqPacket(r) ==
    \/ action_dup_lock_2(r) \/ action_parent_common(r)
    \/ \E exclusive \in BOOLEAN : action_change_mode(r, exclusive)

LockPacket(q, r) ==
    \/ UniqPacket(r) \/ action_free_lock(q, r)
    \/ \E k \in Keys \ KeyOpen : action_fh_from_lock(k, q, r)

KeyPacket(k) ==
    \/ action_end(k)
    \/ IF keys[k].ino \notin Live(unit) THEN Wild(unit)
       ELSE LET q == unit.ino[keys[k].ino].uniq
            IN  \E hit \in Hits(q) : \E r \in {lookup_aino(unit, q, hit)} : UniqPacket(r)

ScanPacket(s) ==
    \/ \E q \in LockHeld \cup {Root} : \E hit \in Hits(q) :
          \E r \in {lookup_aino(unit, q, hit)} : Examine(s, q, r)
    \/ /\ scan[s].dir = Root \/ locks[scan[s].dir] > 0
       /\ \E hit \in BOOLEAN : action_examine_next(s, hit)
    \/ Abandon(s)

Bounded(u) ==
    u.a_uniq <= MaxInodes /\ \A p \in Live(u) \ {Root} : u.ino[p].nname \in Paths \cup {Garbled}

TreeNext ==
    /\ ~unit.wild
    /\ \/ \E arg \in Args : \E hit \in Hits(arg[1]) :
            \E r \in {find_aino(unit, arg[1], arg[2], hit)} :
               Bounded(r.u) /\ NamePacket(r, Last(arg[2]))
       \/ \E q \in LockHeld : \E hit \in Hits(q) :
            \E r \in {lookup_aino(unit, q, hit)} : LockPacket(q, r)
       \/ \E k \in KeyOpen : KeyPacket(k)
       \/ \E s \in Scans : ScanPacket(s)
    /\ Bounded(unit')

TreeSpec == TreeInit /\ [][TreeNext]_vars

----------------------------------------------------------------------------
(* Properties *)

\* Types, and the ring of recyclable a_inodes is as long as aino_cache_size says.
TypeOK ==
    /\ \A p \in Live(unit) :
         LET n == unit.ino[p] IN
         /\ n.uniq \in 0..MaxInodes /\ n.dir \in BOOLEAN /\ n.elock \in BOOLEAN
         /\ n.shlock \in Nat /\ n.exnext \in 0..MaxExNext /\ n.locked \in Nat
         /\ ToSet(n.kids) = {q \in Live(unit) : unit.ino[q].parent = p}
    /\ unit.cache = Len(unit.chain) /\ unit.total \in Nat
    /\ locks \in [0..MaxInodes -> 0..MaxLocks]
    /\ DOMAIN keys = Keys /\ DOMAIN scan = Scans

Holders(p) == locks[unit.ino[p].uniq] + Cardinality({k \in Keys : keys[k].ino = p})

\* The counts in an a_inode are the guest's locks and open files on it, through
\* every lock, duplicate, hand-over to a file, change of mode, rename and close: none
\* refers to an a_inode that is gone, and an exclusive holder is alone.  An object
\* with a count too high could never be deleted, one with a count too low is freed
\* under its holder.
HoldersCounted ==
    /\ \A q \in LockHeld : NodeOf(unit, q) # None
    /\ \A k \in KeyOpen : keys[k].ino \in Live(unit)
    /\ \A p \in Live(unit) :
         LET n == unit.ino[p] IN
         Holders(p) = IF n.elock THEN n.shlock + 1 ELSE n.shlock
    /\ \A p \in Live(unit) : unit.ino[p].elock => Holders(p) = 1

\* The recyclable chain holds each file nobody holds, once, and nothing else
\* ("panic: freeing locked a_inode!" in flush_cache): an a_inode missing there is
\* never freed, one too many is freed while in use.
CacheExact ==
    LET idle == {p \in Live(unit) : ~unit.ino[p].dir /\ ~Busy(unit.ino[p])}
    IN  ToSet(unit.chain) = idle /\ Len(unit.chain) = Cardinality(idle)

\* After every packet, failed ones too, an a_inode stands for an object of its
\* kind on the host, and no two stand for the same.
TreeOnHost ==
    \A p \in Live(unit) :
       LET n == unit.ino[p] IN
       /\ Exists(n.nname) /\ (host[n.nname] = "dir") = n.dir
       /\ \A q \in Live(unit) : q # p => unit.ino[q].nname # n.nname

\* While an ExNext goes on in a directory, all of its a_inodes are counted as locked
\* in memory, those made meanwhile too, and the limit of the cache counts them.
ScanLocked ==
    /\ \A p \in Live(unit) :
         LET n  == unit.ino[p]
             on == {s \in Scans : scan[s].st = "on" /\ scan[s].dir = n.uniq /\ scan[s].at # n.uniq}
         IN  /\ n.exnext >= Cardinality(on)
             /\ IF n.exnext = 0 THEN n.locked = 0 ELSE n.locked >= Len(n.kids)
    /\ unit.total >= MapThenSumSet(LAMBDA p : unit.ino[p].locked, Live(unit))

\* An ExNext loop is told every entry that stays on the host, and none twice,
\* whatever other packets look up, lock, create, delete or rename meanwhile.
ScanExact == \A s \in Scans : ~scan[s].again /\ (scan[s].st # "on" => scan[s].must = {})

\* No handler uses an a_inode that was freed: "PANIC: corrupted or freed but used
\* aino detected!" (aino_test).
NoFreedUse == ~unit.wild
=============================================================================
