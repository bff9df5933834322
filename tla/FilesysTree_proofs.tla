------------------------- MODULE FilesysTree_proofs -------------------------
(***************************************************************************)
(* Proofs about FilesysTree.  The invariant TreeInv has three parts: the   *)
(* a_inodes are a tree whose lists of children agree with the parents and  *)
(* in which a uniq belongs to one of them (Tree); the chain holds the      *)
(* files nobody holds, once (Cached); the counts in an a_inode are its     *)
(* locks and open files (Counted).  Looking up, which every packet begins  *)
(* with, makes a_inodes and may free idle ones to make room: Keeps says    *)
(* what it leaves alone.  Below come the operators in the order of the     *)
(* model (sequences, flush_cache, recycle_aino, init_child_aino, lookup,   *)
(* notify_check, populate_directory), then what a holder more or less      *)
(* does to the counts, then a lemma for each packet.                       *)
(***************************************************************************)
EXTENDS FilesysTree, FunctionTheorems, SequenceTheorems, FiniteSetTheorems, WellFoundedInduction, TLAPS

(* The types of an a_inode and of a unit. *)
Components == Names \cup {"garbled"}
Nodes == [parent : Nat \cup {None}, name : Names \cup {""}, nname : Seq(Components), uniq : Nat,
          dir : BOOLEAN, shlock : Int, elock : BOOLEAN, exnext : Int, locked : Int, kids : Seq(Nat)]
Units == [ino : UNION {[D -> Nodes] : D \in SUBSET Nat}, chain : Seq(Nat), cache : Int,
          total : Int, a_uniq : Nat, wild : BOOLEAN]

(* Notification requests are for objects of the root. *)
Shallow == \A i \in 1 .. Len(Watched) : Len(Watched[i]) = 1
(* What the counts need: the guest makes no shared lock shared again, the host renames no open
   file and opens again those that relock_do closed, and a notification makes no a_inode in the
   directory that is being renamed. *)
Exact ==
    /\ "share twice" \notin Habits /\ HostRefusesOpen /\ "reopen" \notin HostMayFail /\ Shallow

(* No rename and no notification gives the name of an a_inode that is elsewhere. *)
Plain == "rename parent" \notin Habits /\ Shallow

(* A packet may free the a_inode it is about: notify_check makes others for the names it looks up,
   renaming a file nobody holds makes one when the cache is over its limit. *)
MayFreeIts == Watched # <<>> \/ "rename file" \in Habits

NoDup(s) == \A i, k \in 1 .. Len(s) : s[i] = s[k] => i = k

(* The a_inodes of a unit are a tree, whose lists of children agree with the parents; a uniq or a
   full name belongs to one of them. *)
Under(u, p) ==
    /\ u.ino[p].parent \in Live(u) /\ u.ino[u.ino[p].parent].dir
    /\ u.ino[p].name \in Names
    /\ Plain =>
          u.ino[p].nname = Append(u.ino[u.ino[p].parent].nname, u.ino[p].name)
Children(u, p) == {q \in Live(u) : u.ino[q].parent = p}
Tree(u) ==
    /\ u \in Units /\ Root \in Live(u) /\ Live(u) \subseteq 0 .. u.a_uniq
    /\ u.ino[Root].parent = None /\ u.ino[Root].nname = <<>> /\ u.ino[Root].dir
    /\ \A p \in Live(u) : p # Root => Under(u, p)
    /\ \A p \in Live(u) : NoDup(u.ino[p].kids) /\ ToSet(u.ino[p].kids) = Children(u, p)
    /\ \A p \in Live(u) : u.ino[p].uniq <= u.a_uniq
    /\ \A p, q \in Live(u) : u.ino[p].uniq = u.ino[q].uniq => p = q

(* The chain holds the files nobody holds, but for one, x, that is about to enter it. *)
Idle(u) == {p \in Live(u) : ~u.ino[p].dir /\ ~Busy(u.ino[p])}
Cached(u, x) == NoDup(u.chain) /\ ToSet(u.chain) = Idle(u) \ {x} /\ u.cache = Len(u.chain)

(* What looking up and making room may do to a unit: a_inodes come, idle files go. *)
Same(n, m) ==
    /\ n.parent = m.parent /\ n.name = m.name /\ n.nname = m.nname /\ n.uniq = m.uniq
    /\ n.dir = m.dir /\ n.shlock = m.shlock /\ n.elock = m.elock
Keeps(u, v) ==
    /\ v.a_uniq >= u.a_uniq /\ v.wild = u.wild
    /\ \A p \in Live(u) : u.ino[p].dir \/ Busy(u.ino[p]) => p \in Live(v)
    /\ \A p \in Live(u) \cap Live(v) : Same(u.ino[p], v.ino[p])
    /\ \A p \in Live(v) \ Live(u) :
         /\ p > u.a_uniq /\ v.ino[p].uniq = p /\ v.ino[p].shlock = 0 /\ v.ino[p].elock = FALSE

(* What making room does: only idle files go, and no child of an a_inode whose children are locked
   in memory. *)
SameMarks(n, m) ==
    /\ m.exnext = n.exnext /\ m.locked = n.locked
    /\ n.locked > 0 \/ n.kids = <<>> => m.kids = n.kids
Flushes(u, w) ==
    /\ Keeps(u, w) /\ Live(w) \subseteq Live(u) /\ w.a_uniq = u.a_uniq /\ w.total = u.total
    /\ \A p \in Live(w) : SameMarks(u.ino[p], w.ino[p])

(* g has the sum of f over each subset of S. *)
Sums(g, f, S) ==
    /\ IsFiniteSet(S) /\ \A x \in S : f[x] \in Nat
    /\ g \in [SUBSET S -> Nat] /\ g[{}] = 0
    /\ \A s \in SUBSET S : s # {} => \E x \in s : g[s] = f[x] + g[s \ {x}]

(* The marks of the ExNext loops: while an a_inode has one its children are locked, and the total is
   that of all a_inodes.  What carries them on keeps, for every a_inode that has loops, their number
   and the order of the children that were there. *)
Watching(n) ==
    /\ n.exnext \in 0 .. MaxExNext /\ n.locked \in Nat
    /\ IF n.exnext = 0 THEN n.locked = 0 ELSE n.locked >= Len(n.kids)
LockedIn(u) == [p \in Live(u) |-> u.ino[p].locked]
Covered(u) == \A g : Sums(g, LockedIn(u), Live(u)) => u.total >= g[Live(u)]
Marks(u) == Covered(u) /\ \A p \in Live(u) : Watching(u.ino[p])
Before(s, a, b) == \E i, k \in 1 .. Len(s) : i < k /\ s[i] = a /\ s[k] = b
Grown(s, t) == ToSet(s) \subseteq ToSet(t) /\ \A a \in ToSet(s) : \A b : Before(t, a, b) <=> Before(s, a, b)
Follows(n, m) == m.exnext = n.exnext /\ (n.exnext > 0 => Grown(n.kids, m.kids))
Carries(u, v) ==
    Marks(u) => /\ Marks(v)
                /\ \A p \in Live(v) : IF p \in Live(u) THEN Follows(u.ino[p], v.ino[p])
                                                    ELSE v.ino[p].exnext = 0

(* The place of an a_inode in the tree. *)
Placed(n, m) ==
    /\ n.parent = m.parent /\ n.name = m.name /\ n.nname = m.nname /\ n.uniq = m.uniq /\ n.dir = m.dir

(* What all packets do that neither delete nor rename: what stays keeps its place, and the marks of
   the loops are carried on. *)
Drifts(u, v) ==
    /\ v.a_uniq >= u.a_uniq
    /\ \A p \in Live(u) : u.ino[p].dir => p \in Live(v)
    /\ \A p \in Live(u) \cap Live(v) : Placed(u.ino[p], v.ino[p])
    /\ \A p \in Live(v) \ Live(u) : p > u.a_uniq /\ v.ino[p].uniq = p
Passes(u, v) == Drifts(u, v) /\ Carries(u, v)

(* What becomes of the marks and of the children of an a_inode when the a_inode p goes. *)
Less(n, m, p) == m.exnext = n.exnext /\ m.locked = n.locked /\ m.kids = Without(n.kids, {p})

(* No two a_inodes stand for the same object; one stands for an object of its kind. *)
Distinct(u) == \A p, q \in Live(u) : u.ino[p].nname = u.ino[q].nname => p = q
OnHost(n) == n.nname \in DOMAIN host /\ n.dir = (host[n.nname] = "dir")

(* What looking up does: the a_inodes that come are those of objects that are there. *)
Sees(u, v) ==
    /\ Keeps(u, v)
    /\ \A p \in Live(v) \ Live(u) : OnHost(v.ino[p])
    /\ Plain /\ Distinct(u) => Distinct(v)
Looks(u, v) == Sees(u, v) /\ Carries(u, v)

(* The a_inodes that come are children of the root, with names that no other has. *)
Apart(u, v) == \A p \in Live(v) \ Live(u), q \in Live(v) : v.ino[p].nname = v.ino[q].nname => p = q
Tops(u, v) ==
    /\ \A p \in Live(v) \ Live(u) : v.ino[p].parent = Root
    /\ Plain => Apart(u, v)

(* No a_inode that was freed has been used; the a_inodes but for X stand for different objects of
   the host directory h. *)
At(n, h) == n.nname \in DOMAIN h /\ n.dir = (h[n.nname] = "dir")
Sited(u, h, X) ==
    /\ ~u.wild
    /\ \A p \in Live(u) \ X : At(u.ino[p], h)
    /\ \A p, q \in Live(u) \ X : u.ino[p].nname = u.ino[q].nname => p = q
Lettered(h) == DOMAIN h \subseteq Seq(Components)

----------------------------------------------------------------------------
(* Induction, as a statement about sets. *)
Below == {x \in Nat \X Nat : x[1] < x[2]}
LEMMA BelowWF == IsWellFoundedOn(Below, Nat)
  BY NatLessThanWellFounded DEF OpToRel, Below

LEMMA Induction ==
    ASSUME NEW T, 0 \in T, \A n \in Nat : n \in T => n + 1 \in T
    PROVE  \A n \in Nat : n \in T
  <1> SUFFICES ASSUME NEW m \in Nat, m \notin T
               PROVE  FALSE
    OBVIOUS
  <1> DEFINE O == {n \in Nat : n \notin T}
  <1>1. O \subseteq Nat /\ O # {}
    OBVIOUS
  <1>2. PICK n \in O : \A k \in O : ~(<<k, n>> \in Below)
    BY <1>1, BelowWF, WFMin
  <1>3. n \in Nat /\ n # 0 /\ n - 1 \in Nat /\ n - 1 + 1 = n
    BY <1>2
  <1>4. n - 1 \in T
    <2>1. <<n - 1, n>> \in Nat \X Nat /\ <<n - 1, n>>[1] = n - 1 /\ <<n - 1, n>>[2] = n
      BY <1>3
    <2>2. <<n - 1, n>> \in Below
      BY <1>3, <2>1 DEF Below
    <2> QED  BY <1>2, <1>3, <2>2
  <1> QED  BY <1>2, <1>3, <1>4

LEMMA LowestIs ==
    ASSUME NEW T \in SUBSET Nat, T # {}
    PROVE  Min(T) \in T /\ \A y \in T : Min(T) <= y
  <1>1. PICK x \in T : \A y \in T : ~(<<y, x>> \in Below)
    BY BelowWF, WFMin
  <1>2. ASSUME NEW y \in T
        PROVE  x <= y
    <2>1. x \in Nat /\ y \in Nat
      OBVIOUS
    <2>2. <<y, x>> \in Nat \X Nat /\ <<y, x>>[1] = y /\ <<y, x>>[2] = x
      BY <2>1
    <2>3. ~(y < x)
      BY <1>1, <2>2 DEF Below
    <2> QED  BY <2>1, <2>3
  <1> QED  BY <1>2 DEF Min

----------------------------------------------------------------------------
(* Sequences. *)
LEMMA Elements ==
    ASSUME NEW S, NEW s \in Seq(S)
    PROVE  /\ Len(s) \in Nat /\ DOMAIN s = 1 .. Len(s) /\ s \in [1 .. Len(s) -> S]
           /\ \A i \in 1 .. Len(s) : s[i] \in S /\ s[i] \in ToSet(s)
           /\ ToSet(s) \subseteq S
           /\ ToSet(s) = {} <=> s = <<>>
           /\ Len(s) = 0 <=> s = <<>>
  <1>1. Len(s) \in Nat /\ DOMAIN s = 1 .. Len(s) /\ \A i \in 1 .. Len(s) : s[i] \in S
    BY LenProperties, ElementOfSeq
  <1>2. ToSet(s) = {s[i] : i \in 1 .. Len(s)}
    BY <1>1 DEF ToSet
  <1>3. Len(s) = 0 <=> s = <<>>
    BY EmptySeq
  <1>4. ASSUME s # <<>>
        PROVE  1 \in 1 .. Len(s)
    BY <1>1, <1>3, <1>4
  <1>5. ASSUME s = <<>>
        PROVE  ToSet(s) = {}
    BY <1>1, <1>2, <1>3, <1>5
  <1> QED  BY <1>1, <1>2, <1>3, <1>4, <1>5, LenProperties

LEMMA NoElements ==
    Len(<<>>) = 0 /\ ToSet(<<>>) = {} /\ NoDup(<<>>) /\ \A S : <<>> \in Seq(S)
  BY DEF ToSet, NoDup

LEMMA AtEnd ==
    ASSUME NEW S, NEW s \in Seq(S), NEW e \in S
    PROVE  /\ Append(s, e) \in Seq(S) /\ Len(Append(s, e)) = Len(s) + 1
           /\ ToSet(Append(s, e)) = ToSet(s) \cup {e}
           /\ NoDup(s) /\ e \notin ToSet(s) => NoDup(Append(s, e))
  BY AppendProperties, LenProperties DEF ToSet, NoDup

LEMMA AtFront ==
    ASSUME NEW S, NEW s \in Seq(S), NEW e \in S, e \notin ToSet(s)
    PROVE  /\ <<e>> \o s \in Seq(S) /\ Len(<<e>> \o s) = Len(s) + 1
           /\ ToSet(<<e>> \o s) = ToSet(s) \cup {e}
           /\ NoDup(s) => NoDup(<<e>> \o s)
  <1> DEFINE t == <<e>> \o s
  <1>1. <<e>> \in Seq(S) /\ Len(<<e>>) = 1 /\ <<e>>[1] = e
    OBVIOUS
  <1>2. t \in Seq(S) /\ Len(t) = Len(s) + 1 /\ Len(s) \in Nat
    BY <1>1, ConcatProperties, LenProperties
  <1>3. \A i \in 1 .. Len(s) + 1 : t[i] = IF i = 1 THEN e ELSE s[i - 1]
    BY <1>1, <1>2, ConcatProperties
  <1>4. DOMAIN s = 1 .. Len(s) /\ DOMAIN t = 1 .. Len(s) + 1
    BY <1>2, LenProperties
  <1> HIDE DEF t
  <1>5. \A i \in 1 .. Len(s) : t[i + 1] = s[i] /\ i + 1 \in 1 .. Len(s) + 1 /\ s[i] # e
    BY <1>2, <1>3, <1>4 DEF ToSet
  <1>6. \A i \in 1 .. Len(s) + 1 : i = 1 \/ (i - 1 \in 1 .. Len(s) /\ t[i] = s[i - 1])
    BY <1>2, <1>3
  <1>7. ToSet(t) = ToSet(s) \cup {e}
    <2>1. t[1] = e /\ 1 \in DOMAIN t
      BY <1>2, <1>3, <1>4
    <2>2. \A x \in ToSet(s) : x \in ToSet(t)
      BY <1>4, <1>5 DEF ToSet
    <2>3. \A x \in ToSet(t) : x = e \/ x \in ToSet(s)
      BY <1>4, <1>6, <2>1 DEF ToSet
    <2>4. e \in ToSet(t)
      BY <2>1 DEF ToSet
    <2> QED  BY <2>2, <2>3, <2>4
  <1>8. ASSUME NoDup(s)
        PROVE  NoDup(t)
    <2> SUFFICES ASSUME NEW i \in 1 .. Len(s) + 1, NEW k \in 1 .. Len(s) + 1, t[i] = t[k]
                 PROVE  i = k
      BY <1>2 DEF NoDup
    <2>1. t[1] = e
      BY <1>2, <1>3
    <2>2. CASE i = 1 \/ k = 1
      BY <1>5, <1>6, <2>1, <2>2
    <2>3. CASE i # 1 /\ k # 1
      <3>1. i - 1 \in 1 .. Len(s) /\ k - 1 \in 1 .. Len(s) /\ s[i - 1] = s[k - 1]
        BY <1>6, <2>3
      <3>2. i - 1 = k - 1
        BY <1>8, <3>1 DEF NoDup
      <3> QED  BY <3>2
    <2> QED  BY <2>2, <2>3
  <1> QED  BY <1>2, <1>7, <1>8 DEF t

LEMMA Turned ==
    ASSUME NEW S, NEW s \in Seq(S), NEW c \in 0 .. Len(s)
    PROVE  LET t == SubSeq(s, c + 1, Len(s)) \o SubSeq(s, 1, c)
           IN  /\ t \in Seq(S) /\ Len(t) = Len(s) /\ ToSet(t) = ToSet(s)
               /\ NoDup(s) => NoDup(t)
  <1> DEFINE a == SubSeq(s, c + 1, Len(s))
             b == SubSeq(s, 1, c)
             t == a \o b
             m == Len(s) - c
  <1>1. Len(s) \in Nat /\ m \in Nat /\ c \in Nat /\ DOMAIN s = 1 .. Len(s) /\ \A k \in 1 .. Len(s) : s[k] \in S
    BY LenProperties, ElementOfSeq
  <1>2. a \in Seq(S) /\ Len(a) = m /\ \A k \in 1 .. m : a[k] = s[c + k]
    <2> DEFINE n == Len(s)
               d == c + 1
    <2>1. d \in Int /\ n \in Int /\ d >= 1 /\ \A k \in d .. n : s[k] \in S
      BY <1>1
    <2> HIDE DEF n, d
    <2>2. /\ SubSeq(s, d, n) \in Seq(S)
          /\ Len(SubSeq(s, d, n)) = (IF d <= n THEN n - d + 1 ELSE 0)
          /\ \A k \in 1 .. n - d + 1 : SubSeq(s, d, n)[k] = s[d + k - 1]
      BY <2>1, SubSeqProperties
    <2>3. a = SubSeq(s, d, n)
      BY SMTT(30) DEF n, d
    <2>4. n - d + 1 = m /\ (IF d <= n THEN n - d + 1 ELSE 0) = m
      <3>1. \A l, i \in Nat : i <= l => l - (i + 1) + 1 = l - i /\ (~(i + 1 <= l) => l - i = 0)
        OBVIOUS
      <3>2. c <= Len(s)
        BY <1>1
      <3> QED  BY <1>1, <3>1, <3>2 DEF n, d
    <2>5. \A k \in 1 .. m : d + k - 1 = c + k
      BY <1>1 DEF d
    <2> HIDE DEF a, m
    <2> QED  BY <2>2, <2>3, <2>4, <2>5
  <1>3. b \in Seq(S) /\ Len(b) = c /\ \A k \in 1 .. c : b[k] = s[k]
    <2>1. \A k \in 1 .. c : s[k] \in S
      BY <1>1
    <2>2. /\ 1 \in Int /\ c \in Int /\ c - 1 + 1 = c /\ \A k \in 1 .. c : 1 + k - 1 = k
          /\ (IF 1 <= c THEN c - 1 + 1 ELSE 0) = c
      BY <1>1
    <2>3. /\ b \in Seq(S) /\ Len(b) = (IF 1 <= c THEN c - 1 + 1 ELSE 0)
          /\ \A k \in 1 .. c - 1 + 1 : b[k] = s[1 + k - 1]
      BY <2>1, <2>2, SubSeqProperties
    <2> HIDE DEF b
    <2> QED  BY <2>2, <2>3
  <1> HIDE DEF a, b
  <1>4. t \in Seq(S) /\ Len(t) = Len(s) /\ \A k \in 1 .. Len(s) : t[k] = IF k <= m THEN a[k] ELSE b[k - m]
    <2>1. t \in Seq(S) /\ Len(t) = m + c /\ \A k \in 1 .. m + c : t[k] = IF k <= m THEN a[k] ELSE b[k - m]
      BY <1>2, <1>3, ConcatProperties
    <2>2. m + c = Len(s)
      BY <1>1
    <2> QED  BY <2>1, <2>2
  <1> HIDE DEF t
  <1> DEFINE at(k) == IF k <= m THEN c + k ELSE k - m
             to(k) == IF k <= c THEN k + m ELSE k - c
  <1>5. \A k \in 1 .. Len(s) : at(k) \in 1 .. Len(s) /\ to(k) \in 1 .. Len(s) /\ at(to(k)) = k /\ to(at(k)) = k
    BY <1>1
  <1>6. \A k \in 1 .. Len(s) : t[k] = s[at(k)]
    <2>1. \A k \in 1 .. Len(s) : k <= m => k \in 1 .. m
      BY <1>1
    <2>2. \A k \in 1 .. Len(s) : ~(k <= m) => k - m \in 1 .. c
      BY <1>1
    <2> HIDE DEF m
    <2> QED  BY <1>2, <1>3, <1>4, <2>1, <2>2
  <1> HIDE DEF at, to, m
  <1>7. DOMAIN t = 1 .. Len(s)
    BY <1>4, LenProperties
  <1>8. ToSet(t) = ToSet(s)
    <2>1. \A x \in ToSet(s) : x \in ToSet(t)
      <3> SUFFICES ASSUME NEW k \in 1 .. Len(s)
                   PROVE  s[k] \in ToSet(t)
        BY <1>1 DEF ToSet
      <3>1. t[to(k)] = s[k] /\ to(k) \in 1 .. Len(s)
        BY <1>5, <1>6
      <3> QED  BY <1>7, <3>1 DEF ToSet
    <2>2. \A x \in ToSet(t) : x \in ToSet(s)
      BY <1>1, <1>5, <1>6, <1>7 DEF ToSet
    <2> QED  BY <2>1, <2>2
  <1>9. ASSUME NoDup(s)
        PROVE  NoDup(t)
    <2>1. ASSUME NEW i \in 1 .. Len(s), NEW k \in 1 .. Len(s), t[i] = t[k]
          PROVE  i = k
      <3>1. at(i) = at(k)
        <4>1. s[at(i)] = s[at(k)] /\ at(i) \in 1 .. Len(s) /\ at(k) \in 1 .. Len(s)
          BY <1>5, <1>6, <2>1
        <4> QED  BY <1>9, <4>1 DEF NoDup
      <3>2. to(at(i)) = to(at(k))
        BY <3>1
      <3> QED  BY <1>5, <3>2
    <2> QED  BY <1>4, <2>1 DEF NoDup
  <1> QED  BY <1>4, <1>8, <1>9 DEF t, a, b

LEMMA LenIsCardinality ==
    ASSUME NEW S, NEW s \in Seq(S), NoDup(s)
    PROVE  IsFiniteSet(ToSet(s)) /\ Cardinality(ToSet(s)) = Len(s)
  <1>1. /\ Len(s) \in Nat /\ DOMAIN s = 1 .. Len(s) /\ \A i \in 1 .. Len(s) : s[i] \in ToSet(s)
        /\ ToSet(s) = {s[i] : i \in 1 .. Len(s)}
    BY Elements DEF ToSet
  <1>2. s \in Bijection(1 .. Len(s), ToSet(s))
    <2>1. s \in [1 .. Len(s) -> ToSet(s)]
      BY <1>1, Elements
    <2>2. \A i, k \in 1 .. Len(s) : s[i] = s[k] => i = k
      BY DEF NoDup
    <2>3. \A x \in ToSet(s) : \E i \in 1 .. Len(s) : s[i] = x
      BY <1>1
    <2> QED  BY <2>1, <2>2, <2>3 DEF Bijection, Injection, Surjection, IsInjective
  <1>3. IsFiniteSet(1 .. Len(s)) /\ Cardinality(1 .. Len(s)) = Len(s)
    <2>1. 1 \in Int /\ Len(s) \in Int /\ (IF 1 > Len(s) THEN 0 ELSE Len(s) - 1 + 1) = Len(s)
      BY <1>1
    <2> QED  BY <2>1, FS_Interval
  <1>4. ExistsBijection(1 .. Len(s), ToSet(s))
    BY <1>2 DEF ExistsBijection
  <1> QED  BY <1>3, <1>4, FS_Bijection

----------------------------------------------------------------------------
(* Without, step by step. *)
Removes(f, s, P, n) ==
    f = [i \in 0 .. n |-> IF i = 0 THEN <<>>
            ELSE IF s[i] \in P THEN f[i - 1] ELSE Append(f[i - 1], s[i])]

LEMMA RemovesExist ==
    ASSUME NEW s, NEW P
    PROVE  \A n \in Nat : \E f : Removes(f, s, P, n)
  <1> DEFINE T == {n \in Nat : \E f : Removes(f, s, P, n)}
  <1>1. 0 \in T
    <2> DEFINE f == [i \in 0 .. 0 |-> <<>>]
    <2>1. f = [i \in 0 .. 0 |-> IF i = 0 THEN <<>>
                 ELSE IF s[i] \in P THEN f[i - 1] ELSE Append(f[i - 1], s[i])]
      OBVIOUS
    <2> QED  BY <2>1 DEF Removes
  <1>2. ASSUME NEW n \in Nat, n \in T
        PROVE  n + 1 \in T
    <2>1. PICK f : Removes(f, s, P, n)
      BY <1>2
    <2> DEFINE more == IF s[n + 1] \in P THEN f[n] ELSE Append(f[n], s[n + 1])
               g == [i \in 0 .. n + 1 |-> IF i = n + 1 THEN more ELSE f[i]]
    <2>2. \A i \in 0 .. n : f[i] = IF i = 0 THEN <<>>
                 ELSE IF s[i] \in P THEN f[i - 1] ELSE Append(f[i - 1], s[i])
      BY <2>1 DEF Removes
    <2>3. \A i \in 1 .. n + 1 : i - 1 \in 0 .. n /\ g[i - 1] = f[i - 1]
      OBVIOUS
    <2>4. g[n + 1] = more /\ \A i \in 0 .. n : g[i] = f[i]
      OBVIOUS
    <2> DEFINE h(i) == IF i = 0 THEN <<>> ELSE IF s[i] \in P THEN g[i - 1] ELSE Append(g[i - 1], s[i])
    <2>5. ASSUME NEW i \in 0 .. n + 1
          PROVE  g[i] = h(i)
      <3>1. CASE i = n + 1
        <4>1. g[i - 1] = f[n] /\ s[i] = s[n + 1] /\ i # 0
          BY <2>3, <3>1
        <4> HIDE DEF g
        <4> QED  BY <2>4, <3>1, <4>1
      <3>2. CASE i # n + 1
        <4>1. i \in 0 .. n /\ g[i] = f[i] /\ (i # 0 => g[i - 1] = f[i - 1])
          BY <2>3, <2>4, <3>2
        <4> HIDE DEF g
        <4> QED  BY <2>2, <4>1
      <3> QED  BY <3>1, <3>2
    <2>6. g = [i \in 0 .. n + 1 |-> g[i]]
      OBVIOUS
    <2> HIDE DEF g
    <2>7. g = [i \in 0 .. n + 1 |-> h(i)]
      BY <2>5, <2>6
    <2>8. Removes(g, s, P, n + 1)
      BY <2>7 DEF Removes
    <2> QED  BY <2>8
  <1> HIDE DEF T
  <1>3. \A n \in Nat : n \in T
    BY <1>1, <1>2, Induction
  <1> QED  BY <1>3 DEF T

WithoutBy(f, s, P) ==
    /\ f[0] = <<>> /\ Without(s, P) = f[Len(s)]
    /\ \A i \in 1 .. Len(s) : f[i] = IF s[i] \in P THEN f[i - 1] ELSE Append(f[i - 1], s[i])
LEMMA RemovesSteps ==
    ASSUME NEW s, Len(s) \in Nat, NEW P
    PROVE  \E f : WithoutBy(f, s, P)
  <1> DEFINE f == CHOOSE f : f = [i \in 0 .. Len(s) |-> IF i = 0 THEN <<>>
                     ELSE IF s[i] \in P THEN f[i - 1] ELSE Append(f[i - 1], s[i])]
  <1>1. Removes(f, s, P, Len(s))
    <2>1. \E g : Removes(g, s, P, Len(s))
      BY RemovesExist
    <2> QED  BY <2>1, Zenon DEF Removes
  <1>2. Without(s, P) = f[Len(s)]
    BY DEF Without, Fold
  <1> HIDE DEF f
  <1>3. \A i \in 0 .. Len(s) : f[i] = IF i = 0 THEN <<>>
               ELSE IF s[i] \in P THEN f[i - 1] ELSE Append(f[i - 1], s[i])
    BY <1>1 DEF Removes
  <1>4. 0 \in 0 .. Len(s) /\ \A i \in 1 .. Len(s) : i \in 0 .. Len(s) /\ i # 0
    OBVIOUS
  <1>5. WithoutBy(f, s, P)
    BY <1>2, <1>3, <1>4 DEF WithoutBy
  <1> QED  BY <1>5

LEMMA Removed ==
    ASSUME NEW S, NEW s \in Seq(S), NEW P
    PROVE  /\ Without(s, P) \in Seq(S) /\ ToSet(Without(s, P)) = ToSet(s) \ P
           /\ NoDup(s) => NoDup(Without(s, P))
  <1>1. /\ Len(s) \in Nat /\ DOMAIN s = 1 .. Len(s)
        /\ \A i \in 1 .. Len(s) : s[i] \in S /\ s[i] \in ToSet(s)
    BY Elements
  <1>2. PICK f : WithoutBy(f, s, P)
    BY <1>1, RemovesSteps
  <1>3. Without(s, P) = f[Len(s)]
    BY <1>2 DEF WithoutBy
  <1>4. /\ f[0] = <<>>
        /\ \A i \in 1 .. Len(s) : f[i] = IF s[i] \in P THEN f[i - 1] ELSE Append(f[i - 1], s[i])
    BY <1>2 DEF WithoutBy
  <1> DEFINE first(n) == {s[i] : i \in 1 .. n}
             good(n) == /\ f[n] \in Seq(S) /\ ToSet(f[n]) = first(n) \ P
                        /\ NoDup(s) => NoDup(f[n])
             T == {n \in Nat : n <= Len(s) => good(n)}
  <1>5. 0 \in T
    <2>1. first(0) = {}
      OBVIOUS
    <2> HIDE DEF first
    <2> QED  BY <1>4, <2>1, NoElements
  <1>6. ASSUME NEW n \in Nat, n \in T
        PROVE  n + 1 \in T
    <2> SUFFICES ASSUME n + 1 <= Len(s)
                 PROVE  good(n + 1)
      OBVIOUS
    <2>1. good(n) /\ n + 1 \in 1 .. Len(s) /\ n + 1 - 1 = n
      BY <1>1, <1>6
    <2>2. f[n + 1] = IF s[n + 1] \in P THEN f[n] ELSE Append(f[n], s[n + 1])
      BY <1>4, <2>1
    <2>3. first(n + 1) = first(n) \cup {s[n + 1]}
      <3>1. \A i \in 1 .. n + 1 : i \in 1 .. n \/ i = n + 1
        OBVIOUS
      <3>2. \A i \in 1 .. n : i \in 1 .. n + 1
        OBVIOUS
      <3>3. n + 1 \in 1 .. n + 1
        OBVIOUS
      <3> QED  BY <3>1, <3>2, <3>3
    <2>4. NoDup(s) => s[n + 1] \notin first(n)
      <3>1. \A i \in 1 .. n : i \in 1 .. Len(s) /\ i # n + 1
        BY <1>1, <2>1
      <3> QED  BY <2>1, <3>1 DEF NoDup
    <2>5. s[n + 1] \in S
      BY <1>1, <2>1
    <2> HIDE DEF first
    <2>6. CASE s[n + 1] \in P
      BY <2>1, <2>2, <2>3, <2>6
    <2>7. CASE s[n + 1] \notin P
      <3>1. /\ Append(f[n], s[n + 1]) \in Seq(S)
            /\ ToSet(Append(f[n], s[n + 1])) = ToSet(f[n]) \cup {s[n + 1]}
            /\ NoDup(f[n]) /\ s[n + 1] \notin ToSet(f[n]) => NoDup(Append(f[n], s[n + 1]))
        BY <2>1, <2>5, AtEnd
      <3> QED  BY <2>1, <2>2, <2>3, <2>4, <2>7, <3>1
    <2> QED  BY <2>6, <2>7
  <1> HIDE DEF T
  <1>7. \A n \in Nat : n \in T
    BY <1>5, <1>6, Induction
  <1>8. good(Len(s))
    <2>1. Len(s) \in T /\ Len(s) <= Len(s)
      BY <1>1, <1>7
    <2> HIDE DEF good
    <2> QED  BY <2>1 DEF T
  <1>9. first(Len(s)) = ToSet(s)
    BY <1>1 DEF ToSet
  <1> QED  BY <1>3, <1>8, <1>9

(* What remains keeps its order. *)
LEMMA RemovedOrder ==
    ASSUME NEW S, NEW s \in Seq(S), NEW P
    PROVE  /\ Len(Without(s, P)) <= Len(s)
           /\ \A a, b : Before(Without(s, P), a, b) <=> Before(s, a, b) /\ a \notin P /\ b \notin P
           /\ ToSet(s) \cap P = {} => Without(s, P) = s
  <1>1. /\ Len(s) \in Nat /\ DOMAIN s = 1 .. Len(s) /\ s \in [1 .. Len(s) -> S]
        /\ \A i \in 1 .. Len(s) : s[i] \in S /\ s[i] \in ToSet(s)
    BY Elements
  <1>2. PICK f : WithoutBy(f, s, P)
    BY <1>1, RemovesSteps
  <1> DEFINE ahead(n, a, b) == \E i, k \in 1 .. n : i < k /\ s[i] = a /\ s[k] = b
             whole(n) == Len(f[n]) = n /\ \A i \in 1 .. n : f[n][i] = s[i]
             good(n) == /\ f[n] \in Seq(S) /\ Len(f[n]) <= n
                        /\ \A b : b \in ToSet(f[n]) <=> b \notin P /\ \E i \in 1 .. n : s[i] = b
                        /\ \A a, b : Before(f[n], a, b) <=> ahead(n, a, b) /\ a \notin P /\ b \notin P
                        /\ ToSet(s) \cap P = {} => whole(n)
             T == {n \in Nat : n <= Len(s) => good(n)}
  <1>3. 0 \in T
    <2>1. f[0] = <<>> /\ f[0] \in Seq(S) /\ Len(f[0]) = 0 /\ ToSet(f[0]) = {}
      BY <1>2, NoElements DEF WithoutBy
    <2>2. (\A a, b : ~Before(f[0], a, b)) /\ \A i : i \notin 1 .. 0
      BY <2>1 DEF Before
    <2>3. whole(0) /\ \A a, b : ~ahead(0, a, b)
      BY <2>1, <2>2
    <2>4. \A b : b \in ToSet(f[0]) <=> b \notin P /\ \E i \in 1 .. 0 : s[i] = b
      BY <2>1, <2>2
    <2>5. Len(f[0]) <= 0
      BY <2>1
    <2> HIDE DEF whole, ahead
    <2> QED  BY <2>1, <2>2, <2>3, <2>4, <2>5
  <1>4. ASSUME NEW n \in Nat, n \in T, n + 1 <= Len(s)
        PROVE  good(n + 1)
    <2> DEFINE e == s[n + 1]
               t == f[n]
               w == f[n + 1]
    <2>1. good(n) /\ n + 1 \in 1 .. Len(s) /\ n + 1 - 1 = n /\ e \in S
      BY <1>1, <1>4
    <2>2. w = IF e \in P THEN t ELSE Append(t, e)
      BY <1>2, <2>1 DEF WithoutBy
    <2>3. /\ t \in Seq(S) /\ Len(t) <= n /\ Len(t) \in Nat
          /\ \A b : b \in ToSet(t) <=> b \notin P /\ \E i \in 1 .. n : s[i] = b
          /\ \A a, b : Before(t, a, b) <=> ahead(n, a, b) /\ a \notin P /\ b \notin P
          /\ ToSet(s) \cap P = {} => whole(n)
      BY <2>1, Elements
    <2>4. \A i : i \in 1 .. n + 1 <=> i \in 1 .. n \/ i = n + 1
      OBVIOUS
    <2>5. \A i \in 1 .. n : i < n + 1
      OBVIOUS
    <2>6. \A a, b : ahead(n + 1, a, b) <=> ahead(n, a, b) \/ (b = e /\ \E i \in 1 .. n : s[i] = a)
      <3> SUFFICES ASSUME NEW a, NEW b
                   PROVE  ahead(n + 1, a, b) <=> ahead(n, a, b) \/ (b = e /\ \E i \in 1 .. n : s[i] = a)
        OBVIOUS
      <3>1. ASSUME ahead(n + 1, a, b)
            PROVE  ahead(n, a, b) \/ (b = e /\ \E i \in 1 .. n : s[i] = a)
        <4>1. PICK i \in 1 .. n + 1, k \in 1 .. n + 1 : i < k /\ s[i] = a /\ s[k] = b
          BY <3>1
        <4>2. i \in 1 .. n
          BY <4>1
        <4> QED  BY <2>4, <4>1, <4>2
      <3>2. ASSUME b = e, NEW i \in 1 .. n, s[i] = a
            PROVE  ahead(n + 1, a, b)
        <4>1. i \in 1 .. n + 1 /\ n + 1 \in 1 .. n + 1 /\ i < n + 1
          OBVIOUS
        <4> QED  BY <3>2, <4>1
      <3>3. ASSUME ahead(n, a, b)
            PROVE  ahead(n + 1, a, b)
        BY <2>4, <3>3
      <3> QED  BY <3>1, <3>2, <3>3
    <2>7. CASE e \in P
      <3>1. w = t /\ Len(w) <= n + 1 /\ ~(ToSet(s) \cap P = {})
        BY <1>1, <2>1, <2>2, <2>3, <2>7
      <3>2. \A b : b \notin P /\ (\E i \in 1 .. n + 1 : s[i] = b) <=> b \notin P /\ \E i \in 1 .. n : s[i] = b
        BY <2>4, <2>7
      <3> HIDE DEF ahead, t, w
      <3>3. \A a, b : ahead(n + 1, a, b) /\ a \notin P /\ b \notin P <=> ahead(n, a, b) /\ a \notin P /\ b \notin P
        BY <2>6, <2>7
      <3> QED  BY <2>3, <3>1, <3>2, <3>3 DEF w, t
    <2>8. CASE e \notin P
      <3>1. w = Append(t, e)
        BY <2>2, <2>8
      <3>2. w \in Seq(S) /\ Len(w) = Len(t) + 1 /\ ToSet(w) = ToSet(t) \cup {e}
        BY <2>1, <2>3, <3>1, AtEnd
      <3>3. w[Len(t) + 1] = e /\ \A i \in 1 .. Len(t) : w[i] = t[i]
        BY <2>1, <2>3, <3>1, AppendProperties
      <3>4. \A i \in 1 .. Len(t) : t[i] \in ToSet(t)
        BY <2>3, Elements
      <3>5. \A a, b : Before(w, a, b) <=> Before(t, a, b) \/ (b = e /\ a \in ToSet(t))
        <4> HIDE DEF t, w, e
        <4> SUFFICES ASSUME NEW a, NEW b
                     PROVE  Before(w, a, b) <=> Before(t, a, b) \/ (b = e /\ a \in ToSet(t))
          OBVIOUS
        <4>1. ASSUME Before(w, a, b)
              PROVE  Before(t, a, b) \/ (b = e /\ a \in ToSet(t))
          <5>1. PICK i \in 1 .. Len(t) + 1, k \in 1 .. Len(t) + 1 : i < k /\ w[i] = a /\ w[k] = b
            BY <3>2, <4>1 DEF Before
          <5>2. i \in 1 .. Len(t) /\ (k \in 1 .. Len(t) \/ k = Len(t) + 1)
            BY <2>3, <5>1
          <5> QED  BY <3>3, <3>4, <5>1, <5>2 DEF Before
        <4>2. ASSUME Before(t, a, b)
              PROVE  Before(w, a, b)
          <5>1. PICK i \in 1 .. Len(t), k \in 1 .. Len(t) : i < k /\ t[i] = a /\ t[k] = b
            BY <4>2 DEF Before
          <5>2. i \in 1 .. Len(w) /\ k \in 1 .. Len(w)
            BY <2>3, <3>2
          <5> QED  BY <3>3, <5>1, <5>2 DEF Before
        <4>3. ASSUME b = e, a \in ToSet(t)
              PROVE  Before(w, a, b)
          <5>1. PICK i \in 1 .. Len(t) : t[i] = a
            BY <2>3, <4>3, Elements DEF ToSet
          <5>2. i \in 1 .. Len(w) /\ Len(t) + 1 \in 1 .. Len(w) /\ i < Len(t) + 1
            BY <2>3, <3>2
          <5> QED  BY <3>3, <4>3, <5>1, <5>2 DEF Before
        <4> QED  BY <4>1, <4>2, <4>3
      <3>6. \A b : b \in ToSet(w) <=> b \notin P /\ \E i \in 1 .. n + 1 : s[i] = b
        <4> SUFFICES ASSUME NEW b
                     PROVE  b \in ToSet(w) <=> b \notin P /\ \E i \in 1 .. n + 1 : s[i] = b
          OBVIOUS
        <4>1. (\E i \in 1 .. n + 1 : s[i] = b) <=> b = e \/ \E i \in 1 .. n : s[i] = b
          BY <2>4
        <4> QED  BY <2>3, <2>8, <3>2, <4>1
      <3>7. ToSet(s) \cap P = {} => whole(n + 1)
        <4> SUFFICES ASSUME ToSet(s) \cap P = {}
                     PROVE  whole(n + 1)
          OBVIOUS
        <4>1. Len(t) = n /\ \A i \in 1 .. n : t[i] = s[i]
          BY <2>3
        <4> QED  BY <2>4, <3>2, <3>3, <4>1
      <3> HIDE DEF ahead, whole
      <3>8. \A a, b : Before(w, a, b) <=> ahead(n + 1, a, b) /\ a \notin P /\ b \notin P
        <4> SUFFICES ASSUME NEW a, NEW b
                     PROVE  Before(w, a, b) <=> ahead(n + 1, a, b) /\ a \notin P /\ b \notin P
          OBVIOUS
        <4>1. Before(t, a, b) <=> ahead(n, a, b) /\ a \notin P /\ b \notin P
          BY <2>3
        <4>2. a \in ToSet(t) <=> a \notin P /\ \E i \in 1 .. n : s[i] = a
          BY <2>3
        <4> QED  BY <2>6, <2>8, <3>5, <4>1, <4>2
      <3>9. Len(w) <= n + 1
        BY <2>3, <3>2
      <3> QED  BY <3>2, <3>6, <3>7, <3>8, <3>9
    <2> QED  BY <2>7, <2>8
  <1> HIDE DEF good
  <1>5. \A n \in Nat : n \in T
    <2>1. \A n \in Nat : n \in T => n + 1 \in T
      BY <1>4
    <2> HIDE DEF T
    <2> QED  BY <1>3, <2>1, Induction
  <1>6. good(Len(s))
    BY <1>1, <1>5
  <1>7. Without(s, P) = f[Len(s)]
    BY <1>2 DEF WithoutBy
  <1>8. ASSUME ToSet(s) \cap P = {}
        PROVE  Without(s, P) = s
    <2> DEFINE w == f[Len(s)]
    <2>1. w \in Seq(S) /\ Len(w) = Len(s) /\ \A i \in 1 .. Len(s) : w[i] = s[i]
      BY <1>6, <1>8 DEF good
    <2> HIDE DEF w
    <2>2. w \in [1 .. Len(s) -> S]
      BY <2>1, Elements
    <2>3. w = s
      BY <1>1, <2>1, <2>2
    <2> QED  BY <1>7, <2>3 DEF w
  <1>9. Len(Without(s, P)) <= Len(s) /\ \A a, b : Before(Without(s, P), a, b) <=> Before(s, a, b) /\ a \notin P /\ b \notin P
    BY <1>6, <1>7 DEF good, Before
  <1> QED  BY <1>8, <1>9

----------------------------------------------------------------------------
(* Units and their parts. *)
LEMMA Fields ==
    ASSUME NEW n \in Nodes
    PROVE  /\ n.parent \in Nat \cup {None} /\ n.name \in Names \cup {""} /\ n.nname \in Seq(Components)
           /\ n.uniq \in Nat /\ n.dir \in BOOLEAN /\ n.shlock \in Int /\ n.elock \in BOOLEAN
           /\ n.exnext \in Int /\ n.locked \in Int /\ n.kids \in Seq(Nat)
  BY DEF Nodes

LEMMA Parts ==
    ASSUME NEW u \in Units
    PROVE  /\ Live(u) \subseteq Nat /\ u.ino \in [Live(u) -> Nodes]
           /\ \A p \in Live(u) : u.ino[p] \in Nodes
           /\ u.chain \in Seq(Nat) /\ u.cache \in Int /\ u.total \in Int /\ u.a_uniq \in Nat
           /\ u.wild \in BOOLEAN
  <1>1. u.ino \in UNION {[D -> Nodes] : D \in SUBSET Nat}
    BY DEF Units
  <1>2. PICK D \in SUBSET Nat : u.ino \in [D -> Nodes]
    BY <1>1
  <1>3. Live(u) = D
    BY <1>2 DEF Live
  <1> QED  BY <1>2, <1>3 DEF Units

LEMMA WithIno ==
    ASSUME NEW u \in Units, NEW D \in SUBSET Nat, NEW f \in [D -> Nodes]
    PROVE  LET v == [u EXCEPT !.ino = f]
           IN  /\ v \in Units /\ v.ino = f /\ Live(v) = D /\ v.chain = u.chain /\ v.cache = u.cache
               /\ v.total = u.total /\ v.a_uniq = u.a_uniq /\ v.wild = u.wild
  <1>1. f \in UNION {[E -> Nodes] : E \in SUBSET Nat}
    OBVIOUS
  <1> DEFINE v == [u EXCEPT !.ino = f]
  <1>2. v \in Units
    BY <1>1 DEF Units
  <1>3. /\ v.ino = f /\ v.chain = u.chain /\ v.cache = u.cache /\ v.total = u.total
        /\ v.a_uniq = u.a_uniq /\ v.wild = u.wild
    BY DEF Units
  <1>4. Live(v) = D
    BY <1>3 DEF Live
  <1> QED  BY <1>2, <1>3, <1>4

LEMMA WithKids ==
    ASSUME NEW n \in Nodes, NEW s \in Seq(Nat)
    PROVE  LET m == [n EXCEPT !.kids = s]
           IN  /\ m \in Nodes /\ m.kids = s /\ Same(n, m) /\ m.locked = n.locked
               /\ m.exnext = n.exnext
  BY DEF Nodes, Same

LEMMA SameIs ==
    /\ \A n : Same(n, n)
    /\ \A n, m, o : Same(n, m) /\ Same(m, o) => Same(n, o)
  BY DEF Same

LEMMA KeepsSelf ==
    ASSUME NEW u \in Units
    PROVE  Keeps(u, u)
  <1>1. u.a_uniq >= u.a_uniq
    BY Parts
  <1> QED  BY <1>1, SameIs DEF Keeps

LEMMA KeepsBoth ==
    ASSUME NEW u, NEW v, NEW w, Tree(u), Tree(v), Tree(w), Keeps(u, v), Keeps(v, w)
    PROVE  Keeps(u, w)
  <1>1. u.a_uniq \in Nat /\ v.a_uniq \in Nat /\ w.a_uniq \in Nat
    BY Parts DEF Tree
  <1>2. w.a_uniq >= u.a_uniq /\ w.wild = u.wild
    BY <1>1 DEF Keeps
  <1>3. ASSUME NEW p \in Live(u), u.ino[p].dir \/ Busy(u.ino[p])
        PROVE  p \in Live(w)
    <2>1. p \in Live(v) /\ Same(u.ino[p], v.ino[p])
      BY <1>3 DEF Keeps
    <2>2. v.ino[p].dir \/ Busy(v.ino[p])
      BY <1>3, <2>1 DEF Same, Busy
    <2> QED  BY <2>1, <2>2 DEF Keeps
  <1>4. ASSUME NEW p \in Live(u) \cap Live(w)
        PROVE  Same(u.ino[p], w.ino[p])
    <2>1. p \in Live(v)
      <3> SUFFICES ASSUME p \notin Live(v)
                   PROVE  FALSE
        OBVIOUS
      <3>1. p > v.a_uniq
        BY DEF Keeps
      <3>2. p \in 0 .. u.a_uniq /\ v.a_uniq >= u.a_uniq
        BY DEF Tree, Keeps
      <3> QED  BY <1>1, <3>1, <3>2
    <2> QED  BY <2>1, SameIs DEF Keeps
  <1>5. ASSUME NEW p \in Live(w) \ Live(u)
        PROVE  /\ p > u.a_uniq /\ w.ino[p].uniq = p /\ w.ino[p].shlock = 0 /\ w.ino[p].elock = FALSE
    <2>1. CASE p \in Live(v)
      BY <2>1 DEF Keeps, Same
    <2>2. CASE p \notin Live(v)
      <3>1. p > v.a_uniq /\ p \in 0 .. w.a_uniq
        BY <2>2 DEF Keeps, Tree
      <3>2. p > u.a_uniq
        BY <1>1, <3>1 DEF Keeps
      <3> QED  BY <2>2, <3>2 DEF Keeps
    <2> QED  BY <2>1, <2>2
  <1> QED  BY <1>2, <1>3, <1>4, <1>5 DEF Keeps

----------------------------------------------------------------------------
(* Some children of d that have none themselves leave the chain and the tree. *)
LEMMA Recycled ==
    ASSUME NEW u, NEW P, u \in Units, NoDup(u.chain), u.cache = Len(u.chain)
    PROVE  LET v == de_recycle_aino(u, P)
           IN  /\ v \in Units /\ v.ino = u.ino /\ Live(v) = Live(u) /\ ToSet(v.chain) = ToSet(u.chain) \ P
               /\ NoDup(v.chain) /\ v.cache = Len(v.chain) /\ v.total = u.total
               /\ v.a_uniq = u.a_uniq /\ v.wild = u.wild
  <1> DEFINE s == Without(u.chain, P)
             c == u.cache - Cardinality(P \cap ToSet(u.chain))
  <1>1. u.chain \in Seq(Nat) /\ u.cache \in Int
    BY Parts
  <1>2. s \in Seq(Nat) /\ ToSet(s) = ToSet(u.chain) \ P /\ NoDup(s)
    BY <1>1, Removed
  <1>3. c \in Int /\ c = Len(s)
    <2>1. /\ IsFiniteSet(ToSet(u.chain)) /\ Cardinality(ToSet(u.chain)) = Len(u.chain)
          /\ Cardinality(ToSet(s)) = Len(s) /\ Len(s) \in Nat /\ Len(u.chain) \in Nat
      BY <1>1, <1>2, LenIsCardinality, Elements
    <2>2. /\ IsFiniteSet(ToSet(u.chain) \cap P)
          /\ Cardinality(ToSet(u.chain) \ P) = Cardinality(ToSet(u.chain)) - Cardinality(ToSet(u.chain) \cap P)
      BY <2>1, FS_Difference, FS_Intersection
    <2>3. Cardinality(ToSet(u.chain) \cap P) \in Nat /\ P \cap ToSet(u.chain) = ToSet(u.chain) \cap P
      BY <2>2, FS_CardinalityType
    <2> HIDE DEF s
    <2>4. Cardinality(ToSet(u.chain) \ P) = Len(s)
      BY <1>2, <2>1
    <2>5. c = Len(u.chain) - Cardinality(ToSet(u.chain) \cap P)
      BY <2>3
    <2> QED  BY <2>1, <2>2, <2>3, <2>4, <2>5
  <1>4. de_recycle_aino(u, P) = [u EXCEPT !.chain = s, !.cache = c]
    BY DEF de_recycle_aino
  <1> DEFINE v == [u EXCEPT !.chain = s, !.cache = c]
  <1> HIDE DEF s, c
  <1>5. /\ v \in Units /\ v.ino = u.ino /\ Live(v) = Live(u) /\ v.chain = s /\ v.cache = c
        /\ v.total = u.total /\ v.a_uniq = u.a_uniq /\ v.wild = u.wild
    <2>1. s \in Seq(Nat) /\ c \in Int
      BY <1>2, <1>3
    <2>2. v \in Units
      BY <2>1 DEF Units
    <2>3. /\ v.ino = u.ino /\ v.chain = s /\ v.cache = c /\ v.total = u.total
          /\ v.a_uniq = u.a_uniq /\ v.wild = u.wild
      BY DEF Units
    <2> HIDE DEF v
    <2> QED  BY <2>2, <2>3 DEF Live
  <1> HIDE DEF v
  <1>6. de_recycle_aino(u, P) = v
    BY <1>4 DEF v
  <1> QED  BY <1>2, <1>3, <1>5, <1>6

LEMMA Disposed ==
    ASSUME NEW u, NEW d, NEW P, Tree(u), d \in Live(u), P \subseteq Children(u, d),
           \A q \in P : Children(u, q) = {}
    PROVE  LET v == dispose_aino(u, d, P)
           IN  /\ Tree(v) /\ Live(v) = Live(u) \ P
               /\ \A q \in Live(v) : /\ Same(u.ino[q], v.ino[q]) /\ v.ino[q].locked = u.ino[q].locked
                                    /\ v.ino[q].exnext = u.ino[q].exnext
               /\ \A q \in Live(v) : v.ino[q].kids = IF q = d THEN Without(u.ino[q].kids, P) ELSE u.ino[q].kids
               /\ v.chain = u.chain /\ v.cache = u.cache /\ v.total = u.total
               /\ v.a_uniq = u.a_uniq /\ v.wild = u.wild
  <1> DEFINE D == Live(u) \ P
             g(q) == IF q = d THEN [u.ino[q] EXCEPT !.kids = Without(u.ino[q].kids, P)] ELSE u.ino[q]
             f == [q \in D |-> g(q)]
             v == [u EXCEPT !.ino = f]
  <1>1. u \in Units /\ D \in SUBSET Nat /\ \A p \in Live(u) : u.ino[p] \in Nodes /\ u.ino[p].kids \in Seq(Nat)
    BY Parts, Fields DEF Tree
  <1>2. \A q \in Live(u) : NoDup(u.ino[q].kids) /\ ToSet(u.ino[q].kids) = Children(u, q)
    BY DEF Tree
  <1>3. ASSUME NEW q \in Live(u)
        PROVE  /\ g(q) \in Nodes /\ Same(u.ino[q], g(q)) /\ g(q).locked = u.ino[q].locked
               /\ g(q).exnext = u.ino[q].exnext
               /\ NoDup(g(q).kids) /\ ToSet(g(q).kids) = IF q = d THEN Children(u, q) \ P ELSE Children(u, q)
               /\ g(q).kids = IF q = d THEN Without(u.ino[q].kids, P) ELSE u.ino[q].kids
    <2>1. CASE q = d
      <3> DEFINE s == Without(u.ino[q].kids, P)
      <3>1. s \in Seq(Nat) /\ NoDup(s) /\ ToSet(s) = Children(u, q) \ P
        BY <1>1, <1>2, Removed
      <3>2. g(q) = [u.ino[q] EXCEPT !.kids = s]
        BY <2>1
      <3> HIDE DEF s, g
      <3>3. g(q) \in Nodes /\ g(q).kids = s /\ Same(u.ino[q], g(q)) /\ g(q).locked = u.ino[q].locked
           /\ g(q).exnext = u.ino[q].exnext
        BY <1>1, <3>1, <3>2, WithKids
      <3> QED  BY <2>1, <3>1, <3>3 DEF s
    <2>2. CASE q # d
      <3>1. g(q) = u.ino[q]
        BY <2>2
      <3> HIDE DEF g
      <3> QED  BY <1>1, <1>2, <2>2, <3>1, SameIs
    <2> QED  BY <2>1, <2>2
  <1> HIDE DEF g
  <1>4. f \in [D -> Nodes] /\ \A q \in D : f[q] = g(q)
    BY <1>3
  <1>5. dispose_aino(u, d, P) = v
    BY DEF dispose_aino, g
  <1> HIDE DEF f
  <1>6. /\ v \in Units /\ v.ino = f /\ Live(v) = D /\ v.chain = u.chain /\ v.cache = u.cache
        /\ v.total = u.total /\ v.a_uniq = u.a_uniq /\ v.wild = u.wild
    BY ZenonT(60), <1>1, <1>4, WithIno
  <1> HIDE DEF v
  <1>7. \A q \in Live(v) : /\ q \in Live(u) /\ Same(u.ino[q], v.ino[q])
                           /\ v.ino[q].locked = u.ino[q].locked
                           /\ v.ino[q].exnext = u.ino[q].exnext
                           /\ v.ino[q].kids = IF q = d THEN Without(u.ino[q].kids, P) ELSE u.ino[q].kids
                           /\ NoDup(v.ino[q].kids)
                           /\ ToSet(v.ino[q].kids) = IF q = d THEN Children(u, q) \ P ELSE Children(u, q)
    BY <1>3, <1>4, <1>6
  <1>8. Tree(v)
    <2>1. Root \in Live(v) /\ Live(v) \subseteq 0 .. v.a_uniq
      <3>1. Root \notin P
        <4>1. u.ino[Root].parent = None /\ None \notin Live(u)
          BY <1>1 DEF Tree, None
        <4> QED  BY <4>1 DEF Children
      <3> QED  BY <1>6, <3>1 DEF Tree
    <2>2. v.ino[Root].parent = None /\ v.ino[Root].nname = <<>> /\ v.ino[Root].dir
      BY <1>7, <2>1 DEF Tree, Same
    <2>3. ASSUME NEW p \in Live(v), p # Root
          PROVE  Under(v, p)
      <3> DEFINE e == u.ino[p].parent
      <3>1. Under(u, p) /\ p \in Live(u) /\ Same(u.ino[p], v.ino[p])
        BY <1>7, <2>3 DEF Tree
      <3>2. e \in Live(u) /\ e \notin P
        BY <3>1 DEF Under, Children
      <3>3. e \in Live(v) /\ Same(u.ino[e], v.ino[e]) /\ v.ino[p].parent = e
        BY <1>6, <1>7, <3>1, <3>2 DEF Same
      <3> QED  BY Zenon, <3>1, <3>3 DEF Under, Same
    <2>4. ASSUME NEW p \in Live(v)
          PROVE  NoDup(v.ino[p].kids) /\ ToSet(v.ino[p].kids) = Children(v, p)
      <3>1. Children(v, p) = Children(u, p) \ P
        <4>1. \A q \in Live(v) : v.ino[q].parent = u.ino[q].parent
          BY <1>7 DEF Same
        <4> QED  BY <1>6, <4>1 DEF Children
      <3>2. p # d => Children(u, p) \cap P = {}
        BY DEF Children
      <3> QED  BY <1>7, <3>1, <3>2
    <2>5. \A p \in Live(v) : v.ino[p].uniq <= v.a_uniq
      BY <1>6, <1>7 DEF Tree, Same
    <2>6. \A p, q \in Live(v) : v.ino[p].uniq = v.ino[q].uniq => p = q
      <3>1. \A p \in Live(v) : p \in Live(u) /\ v.ino[p].uniq = u.ino[p].uniq
        BY <1>7 DEF Same
      <3>2. \A p, q \in Live(u) : u.ino[p].uniq = u.ino[q].uniq => p = q
        BY DEF Tree
      <3> QED  BY <3>1, <3>2
    <2> QED  BY <1>6, <2>1, <2>2, <2>3, <2>4, <2>5, <2>6 DEF Tree
  <1> QED  BY <1>5, <1>6, <1>7, <1>8

----------------------------------------------------------------------------
(* flush_cache and recycle_aino. *)
LEMMA HighestIs ==
    ASSUME NEW n \in Nat, NEW T \in SUBSET (0 .. n), T # {}
    PROVE  Max(T) \in T
  <1> DEFINE L == {k \in 0 .. n : n - k \in T}
  <1>1. L \in SUBSET Nat /\ L # {}
    <2>1. PICK y \in T : TRUE
      OBVIOUS
    <2>2. y \in 0 .. n /\ n - y \in 0 .. n /\ n - (n - y) = y
      BY <2>1
    <2>3. n - y \in L
      BY <2>2
    <2> HIDE DEF L
    <2>4. L # {}
      BY <2>3
    <2> QED  BY <2>4 DEF L
  <1>2. Min(L) \in L /\ \A y \in L : Min(L) <= y
    BY <1>1, LowestIs
  <1> DEFINE m == n - Min(L)
  <1>3. m \in T
    BY <1>2
  <1>4. ASSUME NEW y \in T
        PROVE  m >= y
    <2>1. y \in 0 .. n /\ n - y \in 0 .. n /\ n - (n - y) = y
      OBVIOUS
    <2>2. Min(L) <= n - y /\ Min(L) \in 0 .. n
      BY <1>2, <2>1
    <2> HIDE DEF L
    <2> QED  BY <2>1, <2>2
  <1> HIDE DEF m
  <1> QED  BY <1>3, <1>4 DEF Max

LEMMA TreeOf ==
    ASSUME NEW u, NEW v, Tree(u), v \in Units, v.ino = u.ino, v.a_uniq = u.a_uniq
    PROVE  Tree(v)
  <1>1. Live(v) = Live(u)
    BY DEF Live
  <1>2. \A p \in Live(u) : p # Root => Under(v, p)
    <2>1. \A p \in Live(u) : p # Root => Under(u, p)
      BY DEF Tree
    <2> QED  BY <1>1, <2>1 DEF Under
  <1>3. \A p : Children(v, p) = Children(u, p)
    BY <1>1 DEF Children
  <1> QED  BY <1>1, <1>2, <1>3 DEF Tree

LEMMA Turns ==
    ASSUME NEW u, NEW d, u \in Units, NoDup(u.chain)
    PROVE  LET v == Turn(u, d)
           IN  /\ v \in Units /\ v.ino = u.ino /\ Live(v) = Live(u) /\ ToSet(v.chain) = ToSet(u.chain)
               /\ NoDup(v.chain) /\ Len(v.chain) = Len(u.chain) /\ v.cache = u.cache
               /\ v.total = u.total /\ v.a_uniq = u.a_uniq /\ v.wild = u.wild
  <1> DEFINE others == {i \in 1 .. (Len(u.chain) - 1) : u.ino[u.chain[i]].parent # d}
             cut == IF others = {} THEN Len(u.chain) ELSE Max(others)
             s == SubSeq(u.chain, cut + 1, Len(u.chain)) \o SubSeq(u.chain, 1, cut)
             v == [u EXCEPT !.chain = s]
  <1>1. u.chain \in Seq(Nat) /\ Len(u.chain) \in Nat
    BY Parts, Elements
  <1>2. cut \in 0 .. Len(u.chain)
    <2>1. CASE others = {}
      BY <1>1, <2>1
    <2>2. CASE others # {}
      <3>1. others \in SUBSET (0 .. Len(u.chain))
        BY <1>1
      <3> HIDE DEF others
      <3>2. Max(others) \in others
        BY <1>1, <2>2, <3>1, HighestIs
      <3> QED  BY <2>2, <3>1, <3>2
    <2> QED  BY <2>1, <2>2
  <1> HIDE DEF cut
  <1>3. s \in Seq(Nat) /\ Len(s) = Len(u.chain) /\ ToSet(s) = ToSet(u.chain) /\ NoDup(s)
    BY <1>1, <1>2, Turned
  <1>4. Turn(u, d) = v
    BY DEF Turn, cut
  <1> HIDE DEF s
  <1>5. v \in Units
    BY <1>3 DEF Units
  <1>6. /\ v.ino = u.ino /\ v.chain = s /\ v.cache = u.cache /\ v.total = u.total
        /\ v.a_uniq = u.a_uniq /\ v.wild = u.wild
    BY DEF Units
  <1> HIDE DEF v
  <1>7. Live(v) = Live(u)
    BY <1>6 DEF Live
  <1> QED  BY <1>3, <1>4, <1>5, <1>6, <1>7

LEMMA FlushChildrenKeeps ==
    ASSUME NEW v, NEW d, NEW x, Tree(v.u), Cached(v.u, x), d \in Live(v.u)
    PROVE  LET w == FlushChildren(v, d).u
           IN  Tree(w) /\ Cached(w, x) /\ Flushes(v.u, w) /\ (x \in Live(v.u) => x \in Live(w))
  <1> DEFINE u == v.u
             P == IF u.ino[d].locked > 0 THEN {} ELSE {q \in ToSet(u.chain) : u.ino[q].parent = d}
             a == de_recycle_aino(u, P)
             b == dispose_aino(a, d, P)
             w == Turn(b, d)
  <1>1. FlushChildren(v, d).u = w
    BY DEF FlushChildren
  <1> HIDE DEF u
  <1>2. u \in Units /\ Tree(u) /\ NoDup(u.chain) /\ u.cache = Len(u.chain) /\ ToSet(u.chain) = Idle(u) \ {x}
    BY DEF u, Tree, Cached
  <1>3. P \subseteq Children(u, d) /\ P \subseteq Idle(u) \ {x}
    BY <1>2 DEF Children, Idle
  <1>0. u.ino[d].locked > 0 => P = {}
    OBVIOUS
  <1>4. ASSUME NEW q \in P
        PROVE  Children(u, q) = {}
    <2>1. ~u.ino[q].dir
      BY <1>3 DEF Idle
    <2>2. ASSUME NEW c \in Live(u), u.ino[c].parent = q
          PROVE  FALSE
      <3>1. q \in Live(u) /\ None \notin Live(u)
        BY <1>2, <1>3, Parts DEF Idle, None
      <3>2. c # Root /\ Under(u, c)
        BY <1>2, <2>2, <3>1 DEF Tree
      <3> QED  BY <2>1, <2>2, <3>2 DEF Under
    <2> QED  BY <2>2 DEF Children
  <1> HIDE DEF P
  <1>5. /\ a \in Units /\ a.ino = u.ino /\ Live(a) = Live(u) /\ ToSet(a.chain) = ToSet(u.chain) \ P
        /\ NoDup(a.chain) /\ a.cache = Len(a.chain) /\ a.total = u.total
        /\ a.a_uniq = u.a_uniq /\ a.wild = u.wild
    BY <1>2, Recycled
  <1> HIDE DEF a
  <1>6. Tree(a)
    BY <1>2, <1>5, TreeOf
  <1>7. \A q : Children(a, q) = Children(u, q)
    BY <1>5 DEF Children
  <1>8. d \in Live(a) /\ P \subseteq Children(a, d) /\ \A q \in P : Children(a, q) = {}
    BY <1>3, <1>4, <1>5, <1>7 DEF u
  <1>9. /\ Tree(b) /\ Live(b) = Live(a) \ P
        /\ \A q \in Live(b) : /\ Same(a.ino[q], b.ino[q]) /\ b.ino[q].locked = a.ino[q].locked
                               /\ b.ino[q].exnext = a.ino[q].exnext
        /\ \A q \in Live(b) : b.ino[q].kids = IF q = d THEN Without(a.ino[q].kids, P) ELSE a.ino[q].kids
        /\ b.chain = a.chain /\ b.cache = a.cache /\ b.total = a.total
        /\ b.a_uniq = a.a_uniq /\ b.wild = a.wild
    BY <1>6, <1>8, Disposed
  <1> HIDE DEF b
  <1>10. /\ w \in Units /\ w.ino = b.ino /\ Live(w) = Live(b) /\ ToSet(w.chain) = ToSet(b.chain)
         /\ NoDup(w.chain) /\ Len(w.chain) = Len(b.chain) /\ w.cache = b.cache
         /\ w.total = b.total /\ w.a_uniq = b.a_uniq /\ w.wild = b.wild
    BY <1>5, <1>9, Turns DEF Tree
  <1> HIDE DEF w
  <1>11. Tree(w)
    BY <1>9, <1>10, TreeOf
  <1>12. \A q \in Live(w) : /\ q \in Live(u) /\ Same(u.ino[q], w.ino[q])
                             /\ w.ino[q].locked = u.ino[q].locked /\ w.ino[q].exnext = u.ino[q].exnext
                             /\ w.ino[q].kids = IF q = d THEN Without(u.ino[q].kids, P) ELSE u.ino[q].kids
    BY <1>5, <1>9, <1>10
  <1>13. Live(w) = Live(u) \ P
    BY <1>5, <1>9, <1>10
  <1>14. Cached(w, x)
    <2>1. Idle(w) = Idle(u) \ P
      <3>1. \A q \in Live(w) : w.ino[q].dir = u.ino[q].dir /\ (Busy(w.ino[q]) <=> Busy(u.ino[q]))
        BY <1>12 DEF Same, Busy
      <3> QED  BY <1>13, <3>1 DEF Idle
    <2>2. w.cache = Len(w.chain) /\ NoDup(w.chain) /\ ToSet(w.chain) = ToSet(u.chain) \ P
      BY <1>5, <1>9, <1>10
    <2> QED  BY <1>2, <2>1, <2>2 DEF Cached
  <1>15. Flushes(u, w)
    <2>1. w.a_uniq = u.a_uniq /\ w.wild = u.wild /\ w.total = u.total /\ u.a_uniq \in Nat
      BY <1>2, <1>5, <1>9, <1>10, Parts
    <2>2. \A p \in Live(u) : u.ino[p].dir \/ Busy(u.ino[p]) => p \in Live(w)
      BY <1>3, <1>13 DEF Idle
    <2>3. ASSUME NEW p \in Live(w)
          PROVE  SameMarks(u.ino[p], w.ino[p])
      <3>1. ASSUME u.ino[p].locked > 0 \/ u.ino[p].kids = <<>>, p = d
            PROVE  Without(u.ino[p].kids, P) = u.ino[p].kids
        <4>1. u.ino[p].kids \in Seq(Nat) /\ p \in Live(u)
          BY <1>2, <1>12, Parts, Fields
        <4>2. P = {}
          <5>1. CASE u.ino[p].locked > 0
            BY <1>0, <3>1, <5>1
          <5>2. CASE u.ino[p].kids = <<>>
            BY <1>2, <1>3, <3>1, <4>1, <5>2, NoElements DEF Tree
          <5> QED  BY <3>1, <5>1, <5>2
        <4> QED  BY <4>1, <4>2, RemovedOrder
      <3> QED  BY <1>12, <3>1 DEF SameMarks
    <2> QED  BY <1>12, <1>13, <2>1, <2>2, <2>3 DEF Flushes, Keeps
  <1>16. x \in Live(u) => x \in Live(w)
    BY <1>3, <1>13
  <1> QED  BY <1>1, <1>11, <1>14, <1>15, <1>16 DEF u

----------------------------------------------------------------------------
(* What a Fold computes: every value on the way is in D when the first is and each step stays there. *)
LEMMA Reaches ==
    ASSUME NEW D, NEW n \in Nat, NEW f, f[0] \in D,
           \A i \in 1 .. n : f[i - 1] \in D => f[i] \in D
    PROVE  \A i \in 0 .. n : f[i] \in D
  <1> DEFINE T == {i \in Nat : i <= n => f[i] \in D}
  <1>1. 0 \in T
    OBVIOUS
  <1>2. ASSUME NEW i \in Nat, i \in T
        PROVE  i + 1 \in T
    <2> SUFFICES ASSUME i + 1 <= n
                 PROVE  f[i + 1] \in D
      OBVIOUS
    <2>1. i + 1 \in 1 .. n /\ i + 1 - 1 = i /\ f[i] \in D
      BY <1>2
    <2> QED  BY <2>1
  <1> HIDE DEF T
  <1>3. \A i \in Nat : i \in T
    BY <1>1, <1>2, Induction
  <1> QED  BY <1>3 DEF T

Iterates(f, D, v, n, g) ==
    /\ f \in [0 .. n -> D] /\ f[0] = v
    /\ \A i \in 1 .. n : f[i] = g[<<f[i - 1], i>>]

LEMMA Iterated ==
    ASSUME NEW D, NEW v \in D, NEW m \in Nat, NEW g \in [D \X (1 .. m) -> D]
    PROVE  \A n \in Nat : n <= m => \E f : Iterates(f, D, v, n, g)
  <1> DEFINE T == {n \in Nat : n <= m => \E f : Iterates(f, D, v, n, g)}
  <1>1. 0 \in T
    <2> DEFINE f == [i \in 0 .. 0 |-> v]
    <2>1. Iterates(f, D, v, 0, g)
      BY DEF Iterates
    <2> QED  BY <2>1
  <1>2. ASSUME NEW n \in Nat, n \in T
        PROVE  n + 1 \in T
    <2> SUFFICES ASSUME n + 1 <= m
                 PROVE  \E f : Iterates(f, D, v, n + 1, g)
      OBVIOUS
    <2>1. PICK f : Iterates(f, D, v, n, g)
      BY <1>2
    <2>2. /\ f \in [0 .. n -> D] /\ f[0] = v /\ \A i \in 1 .. n : f[i] = g[<<f[i - 1], i>>]
      BY <2>1 DEF Iterates
    <2> DEFINE more == g[<<f[n], n + 1>>]
               h == [i \in 0 .. n + 1 |-> IF i = n + 1 THEN more ELSE f[i]]
    <2>3. more \in D
      <3>1. <<f[n], n + 1>> \in D \X (1 .. m)
        BY <2>2
      <3> QED  BY <3>1
    <2> HIDE DEF more
    <2>4. h \in [0 .. n + 1 -> D] /\ h[0] = v /\ h[n + 1] = more /\ \A i \in 0 .. n : h[i] = f[i]
      BY <2>2, <2>3
    <2> HIDE DEF h
    <2>5. ASSUME NEW i \in 1 .. n + 1
          PROVE  h[i] = g[<<h[i - 1], i>>]
      <3>1. i - 1 \in 0 .. n /\ h[i - 1] = f[i - 1]
        BY <2>4
      <3>2. CASE i = n + 1
        BY <2>4, <3>1, <3>2 DEF more
      <3>3. CASE i # n + 1
        <4>1. i \in 1 .. n /\ i \in 0 .. n
          BY <3>3
        <4> QED  BY <2>2, <2>4, <3>1, <4>1
      <3> QED  BY <3>2, <3>3
    <2>6. Iterates(h, D, v, n + 1, g)
      BY <2>4, <2>5 DEF Iterates
    <2> QED  BY <2>6
  <1> HIDE DEF T
  <1>3. \A n \in Nat : n \in T
    BY <1>1, <1>2, Induction
  <1> QED  BY <1>3 DEF T

LEMMA NumbersUpto ==
    ASSUME NEW n \in Nat
    PROVE  Upto(n) \in Seq(1 .. n) /\ Len(Upto(n)) = n /\ \A i \in 1 .. n : Upto(n)[i] = i
  BY DEF Upto

----------------------------------------------------------------------------
(* Sums over the subsets of a finite set, term by term. *)
FirstOf(s) == CHOOSE x \in s : TRUE
SumBody(g, f, s) == IF s = {} THEN 0 ELSE f[FirstOf(s)] + g[s \ {FirstOf(s)}]
Adds(g, f, S) == g = [s \in SUBSET S |-> SumBody(g, f, s)]

LEMMA FiniteInduction ==
    ASSUME NEW U, IsFiniteSet(U), NEW G, {} \in G,
           \A s \in SUBSET U : s # {} /\ (\A y \in s : s \ {y} \in G) => s \in G
    PROVE  \A s \in SUBSET U : s \in G
  <1> DEFINE T == {n \in Nat : \A s \in SUBSET U : Cardinality(s) = n => s \in G}
  <1>1. \A s \in SUBSET U : IsFiniteSet(s) /\ Cardinality(s) \in Nat
    BY FS_Subset, FS_CardinalityType
  <1>2. 0 \in T
    BY <1>1, FS_EmptySet
  <1>3. ASSUME NEW n \in Nat, n \in T
        PROVE  n + 1 \in T
    <2> SUFFICES ASSUME NEW s \in SUBSET U, Cardinality(s) = n + 1
                 PROVE  s \in G
      OBVIOUS
    <2>1. s # {}
      BY FS_EmptySet
    <2>2. ASSUME NEW y \in s
          PROVE  s \ {y} \in G
      <3>1. Cardinality(s \ {y}) = n
        BY <1>1, FS_RemoveElement
      <3> QED  BY <1>3, <3>1
    <2> QED  BY <2>1, <2>2
  <1> HIDE DEF T
  <1>4. \A n \in Nat : n \in T
    BY <1>2, <1>3, Induction
  <1> QED  BY <1>1, <1>4 DEF T

LEMMA SumExists ==
    ASSUME NEW S, IsFiniteSet(S), NEW f
    PROVE  \E g : Adds(g, f, S)
  <1> DEFINE Sub(n) == {s \in SUBSET S : Cardinality(s) <= n}
             T == {n \in Nat : \E g : g = [s \in Sub(n) |-> SumBody(g, f, s)]}
  <1>1. \A s \in SUBSET S : IsFiniteSet(s) /\ Cardinality(s) \in Nat
    BY FS_Subset, FS_CardinalityType
  <1>2. \A s \in SUBSET S : s # {} => FirstOf(s) \in s
    BY Zenon DEF FirstOf
  <1>3. 0 \in T
    <2> DEFINE g == [s \in Sub(0) |-> 0]
    <2>1. \A s \in Sub(0) : s = {}
      <3> SUFFICES ASSUME NEW s \in Sub(0)
                   PROVE  s = {}
        OBVIOUS
      <3>1. Cardinality(s) = 0 /\ IsFiniteSet(s)
        BY <1>1
      <3> QED  BY <3>1, FS_EmptySet
    <2>2. g = [s \in Sub(0) |-> SumBody(g, f, s)]
      BY <2>1 DEF SumBody
    <2> QED  BY <2>2
  <1>4. ASSUME NEW n \in Nat, n \in T
        PROVE  n + 1 \in T
    <2>1. PICK g : g = [s \in Sub(n) |-> SumBody(g, f, s)]
      BY <1>4
    <2> DEFINE h == [s \in Sub(n + 1) |-> SumBody(g, f, s)]
    <2>2. ASSUME NEW s \in Sub(n + 1), s # {}
          PROVE  s \ {FirstOf(s)} \in Sub(n)
      <3>1. s \in SUBSET S /\ Cardinality(s) <= n + 1 /\ FirstOf(s) \in s
        BY <1>2, <2>2
      <3> DEFINE t == s \ {FirstOf(s)}
      <3>2. Cardinality(t) = Cardinality(s) - 1
        BY <1>1, <3>1, FS_RemoveElement
      <3>3. t \in SUBSET S /\ Cardinality(s) \in Nat
        BY <1>1, <3>1
      <3> HIDE DEF t
      <3>4. Cardinality(t) <= n
        BY <3>1, <3>2, <3>3
      <3> QED  BY <3>3, <3>4 DEF t
    <2>3. \A s \in Sub(n) : s \in Sub(n + 1) /\ h[s] = g[s]
      <3> SUFFICES ASSUME NEW s \in Sub(n)
                   PROVE  s \in Sub(n + 1) /\ h[s] = g[s]
        OBVIOUS
      <3>1. s \in Sub(n + 1)
        BY <1>1
      <3>2. g[s] = SumBody(g, f, s)
        BY <2>1
      <3> QED  BY <3>1, <3>2
    <2>4. ASSUME NEW s \in Sub(n + 1)
          PROVE  h[s] = SumBody(h, f, s)
      <3>1. h[s] = SumBody(g, f, s)
        OBVIOUS
      <3> HIDE DEF h
      <3> QED  BY <2>2, <2>3, <3>1 DEF SumBody
    <2>5. h = [s \in Sub(n + 1) |-> h[s]]
      OBVIOUS
    <2> HIDE DEF h, Sub
    <2>6. h = [s \in Sub(n + 1) |-> SumBody(h, f, s)]
      BY <2>4, <2>5
    <2> QED  BY <2>6
  <1>5. \A n \in Nat : n \in T
    <2> HIDE DEF T
    <2> QED  BY <1>3, <1>4, Induction
  <1>6. Sub(Cardinality(S)) = SUBSET S
    <2>1. \A s \in SUBSET S : Cardinality(s) <= Cardinality(S)
      BY FS_Subset
    <2> QED  BY <2>1
  <1>7. Cardinality(S) \in T
    BY <1>5, FS_CardinalityType
  <1> HIDE DEF Sub
  <1>8. \E g : g = [s \in Sub(Cardinality(S)) |-> SumBody(g, f, s)]
    BY <1>7
  <1> QED  BY <1>6, <1>8 DEF Adds

LEMMA SumsBy ==
    ASSUME NEW S, IsFiniteSet(S), NEW f, \A x \in S : f[x] \in Nat,
           NEW g, Adds(g, f, S)
    PROVE  Sums(g, f, S)
  <1>1. \A s \in SUBSET S : g[s] = SumBody(g, f, s)
    BY DEF Adds
  <1>2. \A s \in SUBSET S : s # {} => FirstOf(s) \in s /\ g[s] = f[FirstOf(s)] + g[s \ {FirstOf(s)}]
    <2> SUFFICES ASSUME NEW s \in SUBSET S, s # {}
                 PROVE  FirstOf(s) \in s /\ g[s] = f[FirstOf(s)] + g[s \ {FirstOf(s)}]
      OBVIOUS
    <2>1. FirstOf(s) \in s
      BY Zenon DEF FirstOf
    <2> QED  BY <1>1, <2>1 DEF SumBody
  <1>3. g[{}] = 0
    BY <1>1 DEF SumBody
  <1> DEFINE G == {s \in SUBSET S : g[s] \in Nat}
  <1>4. {} \in G
    BY <1>3
  <1>5. ASSUME NEW s \in SUBSET S, s # {}, \A y \in s : s \ {y} \in G
        PROVE  s \in G
    <2>1. FirstOf(s) \in s /\ g[s] = f[FirstOf(s)] + g[s \ {FirstOf(s)}]
      BY <1>2, <1>5
    <2>2. f[FirstOf(s)] \in Nat /\ g[s \ {FirstOf(s)}] \in Nat
      BY <1>5, <2>1
    <2> QED  BY <2>1, <2>2
  <1> HIDE DEF G
  <1>6. \A s \in SUBSET S : s \in G
    BY <1>4, <1>5, FiniteInduction
  <1>7. \A s \in SUBSET S : g[s] \in Nat
    BY <1>6 DEF G
  <1>8. g \in [SUBSET S -> Nat]
    BY <1>7 DEF Adds
  <1>9. \A s \in SUBSET S : s # {} => \E x \in s : g[s] = f[x] + g[s \ {x}]
    BY <1>2
  <1> QED  BY <1>3, <1>8, <1>9 DEF Sums

(* The order of the terms does not matter. *)
LEMMA SumPick ==
    ASSUME NEW S, NEW f, NEW g, Sums(g, f, S)
    PROVE  \A s \in SUBSET S : g[s] \in Nat /\ \A y \in s : g[s] = f[y] + g[s \ {y}]
  <1>1. /\ \A s \in SUBSET S : g[s] \in Nat
        /\ \A s \in SUBSET S : s # {} => \E x \in s : g[s] = f[x] + g[s \ {x}]
        /\ IsFiniteSet(S) /\ \A x \in S : f[x] \in Nat
    BY DEF Sums
  <1> DEFINE G == {s \in SUBSET S : \A y \in s : g[s] = f[y] + g[s \ {y}]}
  <1>2. {} \in G
    OBVIOUS
  <1>3. ASSUME NEW s \in SUBSET S, s # {}, \A y \in s : s \ {y} \in G
        PROVE  s \in G
    <2> SUFFICES ASSUME NEW y \in s
                 PROVE  g[s] = f[y] + g[s \ {y}]
      OBVIOUS
    <2>1. PICK x \in s : g[s] = f[x] + g[s \ {x}]
      BY <1>1, <1>3
    <2>2. CASE x = y
      BY <2>1, <2>2
    <2>3. CASE x # y
      <3> DEFINE t == s \ {x, y}
      <3>1. (s \ {x}) \ {y} = t /\ (s \ {y}) \ {x} = t /\ t \in SUBSET S
        OBVIOUS
      <3>2. g[s \ {x}] = f[y] + g[t]
        BY <1>3, <2>3, <3>1
      <3>3. g[s \ {y}] = f[x] + g[t]
        BY <1>3, <2>3, <3>1
      <3>4. f[x] \in Nat /\ f[y] \in Nat /\ g[t] \in Nat
        BY <1>1, <3>1
      <3> HIDE DEF t
      <3> QED  BY <2>1, <3>2, <3>3, <3>4
    <2> QED  BY <2>2, <2>3
  <1> HIDE DEF G
  <1>4. \A s \in SUBSET S : s \in G
    BY <1>1, <1>2, <1>3, FiniteInduction
  <1> QED  BY <1>1, <1>4 DEF G

(* A sum of more and larger terms is larger. *)
LEMMA SumMore ==
    ASSUME NEW S, NEW f, NEW g, Sums(g, f, S), NEW V, NEW e, NEW h, Sums(h, e, V),
           NEW A \in SUBSET S, NEW B \in SUBSET V, \A x \in B : e[x] = 0 \/ (x \in A /\ e[x] <= f[x])
    PROVE  h[B] <= g[A]
  <1> DEFINE U == S \cup V
             G == {s \in SUBSET U : h[s \cap B] <= g[s \cap A]}
  <1>1. IsFiniteSet(U) /\ (\A x \in S : f[x] \in Nat) /\ (\A x \in V : e[x] \in Nat)
    BY FS_Union DEF Sums
  <1>2. /\ \A s \in SUBSET S : g[s] \in Nat /\ \A y \in s : g[s] = f[y] + g[s \ {y}]
        /\ \A s \in SUBSET V : h[s] \in Nat /\ \A y \in s : h[s] = e[y] + h[s \ {y}]
    <2>1. \A s \in SUBSET S : g[s] \in Nat /\ \A y \in s : g[s] = f[y] + g[s \ {y}]
      BY SumPick
    <2>2. \A s \in SUBSET V : h[s] \in Nat /\ \A y \in s : h[s] = e[y] + h[s \ {y}]
      <3>1. Sums(h, e, V)
        OBVIOUS
      <3> QED  BY ONLY <3>1, SumPick
    <2> QED  BY <2>1, <2>2
  <1>3. {} \in G
    <2>1. g[{}] = 0 /\ h[{}] = 0
      BY DEF Sums
    <2>2. {} \cap A = {} /\ {} \cap B = {}
      OBVIOUS
    <2> QED  BY <2>1, <2>2
  <1>4. ASSUME NEW s \in SUBSET U, s # {}, \A y \in s : s \ {y} \in G
        PROVE  s \in G
    <2>1. PICK y \in s : TRUE
      BY <1>4
    <2> DEFINE a == s \cap A
               b == s \cap B
    <2>2. (s \ {y}) \cap A = a \ {y} /\ (s \ {y}) \cap B = b \ {y} /\ a \in SUBSET S /\ b \in SUBSET V
      OBVIOUS
    <2>3. h[b \ {y}] <= g[a \ {y}]
      BY <1>4, <2>1, <2>2
    <2>4. g[a] = IF y \in A THEN f[y] + g[a \ {y}] ELSE g[a \ {y}]
      <3>1. CASE y \in A
        BY <1>2, <2>2, <3>1
      <3>2. CASE y \notin A
        <4>1. a \ {y} = a
          BY <3>2
        <4> QED  BY <3>2, <4>1
      <3> QED  BY <3>1, <3>2
    <2>5. h[b] = IF y \in B THEN e[y] + h[b \ {y}] ELSE h[b \ {y}]
      <3>1. CASE y \in B
        BY <1>2, <2>2, <3>1
      <3>2. CASE y \notin B
        <4>1. b \ {y} = b
          BY <3>2
        <4> QED  BY <3>2, <4>1
      <3> QED  BY <3>1, <3>2
    <2>6. g[a \ {y}] \in Nat /\ h[b \ {y}] \in Nat /\ (y \in A => f[y] \in Nat) /\ (y \in B => e[y] \in Nat)
      <3>1. a \ {y} \in SUBSET S /\ b \ {y} \in SUBSET V
        OBVIOUS
      <3> QED  BY <1>1, <1>2, <3>1
    <2>7. y \in B => e[y] = 0 \/ (y \in A /\ e[y] <= f[y])
      OBVIOUS
    <2> HIDE DEF a, b
    <2>8. h[b] <= g[a]
      BY <2>3, <2>4, <2>5, <2>6, <2>7
    <2> QED  BY <2>8 DEF a, b
  <1> HIDE DEF G, U
  <1>5. \A s \in SUBSET U : s \in G
    BY <1>1, <1>3, <1>4, FiniteInduction
  <1>6. U \in SUBSET U /\ U \cap A = A /\ U \cap B = B
    BY DEF U
  <1> QED  BY <1>5, <1>6 DEF G

----------------------------------------------------------------------------
(* What carries the marks of the ExNext loops on. *)
LEMMA LiveFinite ==
    ASSUME NEW u, Tree(u)
    PROVE  IsFiniteSet(Live(u))
  <1>1. u.a_uniq \in Nat /\ Live(u) \subseteq 0 .. u.a_uniq
    BY Parts DEF Tree
  <1>2. IsFiniteSet(0 .. u.a_uniq)
    BY <1>1, FS_Interval
  <1> QED  BY <1>1, <1>2, FS_Subset

LEMMA LockedSums ==
    ASSUME NEW u, Tree(u), \A p \in Live(u) : u.ino[p].locked \in Nat
    PROVE  /\ \E g : Sums(g, LockedIn(u), Live(u))
           /\ \A p \in Live(u) : LockedIn(u)[p] = u.ino[p].locked
  <1> DEFINE f == LockedIn(u)
             S == Live(u)
  <1>1. IsFiniteSet(S) /\ \A p \in S : f[p] \in Nat /\ f[p] = u.ino[p].locked
    BY LiveFinite DEF LockedIn
  <1> HIDE DEF f, S
  <1>2. PICK g : Adds(g, f, S)
    BY <1>1, SumExists
  <1>3. Sums(g, f, S)
    BY <1>1, <1>2, SumsBy
  <1> QED  BY <1>1, <1>3 DEF f, S

\* The children locked of all a_inodes but two are no more, and those of the two are counted.
LEMMA CoveredMoves ==
    ASSUME NEW u, NEW v, Tree(u), Tree(v), Covered(u),
           \A p \in Live(u) : u.ino[p].locked \in Nat, \A p \in Live(v) : v.ino[p].locked \in Nat,
           NEW d \in Live(u), NEW e \in Live(v), v.ino[e].locked - u.ino[d].locked <= v.total - u.total,
           \A p \in Live(v) \ {e} : \/ v.ino[p].locked = 0
                                    \/ p \in Live(u) \ {d} /\ v.ino[p].locked <= u.ino[p].locked
    PROVE  Covered(v)
  <1> SUFFICES ASSUME NEW h, Sums(h, LockedIn(v), Live(v))
               PROVE  v.total >= h[Live(v)]
    BY DEF Covered
  <1>1. PICK g : Sums(g, LockedIn(u), Live(u))
    BY LockedSums
  <1> DEFINE S == Live(u)
             V == Live(v)
             f == LockedIn(u)
             c == LockedIn(v)
             A == S \ {d}
             B == V \ {e}
  <1>2. (\A p \in S : f[p] = u.ino[p].locked) /\ (\A p \in V : c[p] = v.ino[p].locked)
    BY LockedSums
  <1>3. Sums(g, f, S) /\ Sums(h, c, V) /\ A \in SUBSET S /\ B \in SUBSET V /\ d \in S /\ e \in V
    BY <1>1
  <1>4. \A x \in B : c[x] = 0 \/ (x \in A /\ c[x] <= f[x])
    BY <1>2
  <1>5. u.total >= g[S] /\ u.total \in Int /\ v.total \in Int
    BY <1>1, Parts DEF Covered, Tree
  <1>6. v.ino[e].locked = c[e] /\ u.ino[d].locked = f[d] /\ c[e] \in Nat /\ f[d] \in Nat
    BY <1>2
  <1>7. A = S \ {d} /\ B = V \ {e}
    OBVIOUS
  <1> HIDE DEF S, V, f, c, A, B
  <1>8. h[B] <= g[A]
    BY <1>3, <1>4, SumMore
  <1>9. g[S] = f[d] + g[A] /\ g[A] \in Nat
    <2>1. S \in SUBSET S /\ Sums(g, f, S)
      BY <1>3
    <2>2. \A s \in SUBSET S : g[s] \in Nat /\ \A y \in s : g[s] = f[y] + g[s \ {y}]
      BY ONLY <2>1, SumPick
    <2> QED  BY <1>3, <1>7, <2>1, <2>2
  <1>10. h[V] = c[e] + h[B] /\ h[B] \in Nat
    <2>1. V \in SUBSET V /\ Sums(h, c, V)
      BY <1>3
    <2>2. \A s \in SUBSET V : h[s] \in Nat /\ \A y \in s : h[s] = c[y] + h[s \ {y}]
      BY ONLY <2>1, SumPick
    <2> QED  BY <1>3, <1>7, <2>1, <2>2
  <1>11. c[e] - f[d] <= v.total - u.total
    BY <1>6
  <1>12. v.total >= h[V]
    BY <1>5, <1>6, <1>8, <1>9, <1>10, <1>11
  <1> QED  BY <1>12 DEF V

LEMMA GrownBoth ==
    /\ \A s : Grown(s, s)
    /\ \A s, t, w : Grown(s, t) /\ Grown(t, w) => Grown(s, w)
  BY DEF Grown

LEMMA GrownFront ==
    ASSUME NEW S, NEW s \in Seq(S), NEW e \in S, e \notin ToSet(s)
    PROVE  Grown(s, <<e>> \o s)
  <1> DEFINE t == <<e>> \o s
  <1>1. Len(s) \in Nat /\ \A i \in 1 .. Len(s) : s[i] \in ToSet(s)
    BY Elements
  <1>2. Len(t) = Len(s) + 1 /\ t[1] = e /\ (\A i \in 1 .. Len(s) : t[i + 1] = s[i]) /\ ToSet(t) = ToSet(s) \cup {e}
    <2>1. Len(<<e>>) = 1 /\ <<e>> \in Seq(S) /\ <<e>>[1] = e
      OBVIOUS
    <2> QED  BY <1>1, <2>1, AtFront, ConcatProperties
  <1> HIDE DEF t
  <1>3. \A k \in 1 .. Len(t) : k = 1 \/ (k - 1 \in 1 .. Len(s) /\ t[k] = s[k - 1])
    <2> SUFFICES ASSUME NEW k \in 1 .. Len(t), k # 1
                 PROVE  k - 1 \in 1 .. Len(s) /\ t[k] = s[k - 1]
      OBVIOUS
    <2>1. k - 1 \in 1 .. Len(s) /\ k - 1 + 1 = k
      BY <1>1, <1>2
    <2> QED  BY <1>2, <2>1
  <1>4. ASSUME NEW a \in ToSet(s), NEW b
        PROVE  Before(t, a, b) <=> Before(s, a, b)
    <2>1. ASSUME Before(t, a, b)
          PROVE  Before(s, a, b)
      <3>1. PICK i \in 1 .. Len(t), k \in 1 .. Len(t) : i < k /\ t[i] = a /\ t[k] = b
        BY <2>1 DEF Before
      <3>2. i # 1 /\ k # 1 /\ i \in Nat /\ k \in Nat
        BY <1>2, <3>1
      <3>3. i - 1 \in 1 .. Len(s) /\ k - 1 \in 1 .. Len(s) /\ i - 1 < k - 1 /\ s[i - 1] = a /\ s[k - 1] = b
        BY <1>3, <3>1, <3>2
      <3> QED  BY <3>3 DEF Before
    <2>2. ASSUME Before(s, a, b)
          PROVE  Before(t, a, b)
      <3>1. PICK i \in 1 .. Len(s), k \in 1 .. Len(s) : i < k /\ s[i] = a /\ s[k] = b
        BY <2>2 DEF Before
      <3>2. i + 1 \in 1 .. Len(t) /\ k + 1 \in 1 .. Len(t) /\ i + 1 < k + 1 /\ t[i + 1] = a /\ t[k + 1] = b
        BY <1>1, <1>2, <3>1
      <3> QED  BY <3>2 DEF Before
    <2> QED  BY <2>1, <2>2
  <1> QED  BY <1>2, <1>4 DEF Grown, t

LEMMA CarriesSelf ==
    ASSUME NEW u
    PROVE  Carries(u, u)
  BY GrownBoth DEF Carries, Follows

LEMMA KeepsDrifts ==
    ASSUME NEW u, NEW v, Keeps(u, v)
    PROVE  Drifts(u, v)
  BY DEF Keeps, Drifts, Same, Placed

LEMMA DriftsBoth ==
    ASSUME NEW u, NEW v, NEW w, Tree(u), Tree(v), Tree(w), Drifts(u, v), Drifts(v, w)
    PROVE  Drifts(u, w)
  <1>1. u.a_uniq \in Nat /\ v.a_uniq \in Nat /\ w.a_uniq \in Nat /\ v.a_uniq >= u.a_uniq /\ w.a_uniq >= v.a_uniq
    BY Parts DEF Tree, Drifts
  <1>2. ASSUME NEW p \in Live(u) \cap Live(w)
        PROVE  p \in Live(v)
    <2>1. p \in Nat /\ p <= u.a_uniq /\ (p \notin Live(v) => p > v.a_uniq)
      BY Parts DEF Tree, Drifts
    <2> QED  BY <1>1, <2>1
  <1>3. ASSUME NEW p \in Live(u), u.ino[p].dir
        PROVE  p \in Live(w)
    <2>1. p \in Live(v) /\ v.ino[p].dir
      BY <1>3 DEF Drifts, Placed
    <2> QED  BY <2>1 DEF Drifts
  <1>4. \A p \in Live(u) \cap Live(w) : Placed(u.ino[p], w.ino[p])
    BY <1>2 DEF Drifts, Placed
  <1>5. ASSUME NEW p \in Live(w) \ Live(u)
        PROVE  p > u.a_uniq /\ w.ino[p].uniq = p
    <2>1. CASE p \in Live(v)
      BY <2>1 DEF Drifts, Placed
    <2>2. CASE p \notin Live(v)
      <3>1. p > v.a_uniq /\ w.ino[p].uniq = p /\ p \in Nat
        BY <2>2, Parts DEF Drifts, Tree
      <3> QED  BY <1>1, <3>1
    <2> QED  BY <2>1, <2>2
  <1> QED  BY <1>1, <1>3, <1>4, <1>5 DEF Drifts

LEMMA CarriesBoth ==
    ASSUME NEW u, NEW v, NEW w, Tree(u), Tree(v), Tree(w), Drifts(u, v), Drifts(v, w),
           Carries(u, v), Carries(v, w)
    PROVE  Carries(u, w)
  <1> SUFFICES ASSUME Marks(u)
               PROVE  /\ Marks(w)
                      /\ \A p \in Live(w) : IF p \in Live(u) THEN Follows(u.ino[p], w.ino[p])
                                                         ELSE w.ino[p].exnext = 0
    BY DEF Carries
  <1>1. Marks(v) /\ Marks(w)
    BY DEF Carries
  <1>2. /\ \A p \in Live(v) : IF p \in Live(u) THEN Follows(u.ino[p], v.ino[p]) ELSE v.ino[p].exnext = 0
        /\ \A p \in Live(w) : IF p \in Live(v) THEN Follows(v.ino[p], w.ino[p]) ELSE w.ino[p].exnext = 0
    BY <1>1 DEF Carries
  <1>3. ASSUME NEW p \in Live(w)
        PROVE  IF p \in Live(u) THEN Follows(u.ino[p], w.ino[p]) ELSE w.ino[p].exnext = 0
    <2>1. CASE p \in Live(u)
      <3>1. p \in Live(v)
        <4>1. p \in 0 .. u.a_uniq /\ v.a_uniq >= u.a_uniq /\ u.a_uniq \in Nat /\ v.a_uniq \in Nat
          BY <2>1, Parts DEF Tree, Drifts
        <4>2. p \notin Live(v) => p > v.a_uniq
          BY DEF Drifts
        <4> QED  BY <4>1, <4>2
      <3>2. Follows(u.ino[p], v.ino[p]) /\ Follows(v.ino[p], w.ino[p])
        BY <1>2, <2>1, <3>1
      <3> QED  BY <2>1, <3>2, GrownBoth DEF Follows
    <2>2. CASE p \notin Live(u)
      <3>1. p \in Live(v) => v.ino[p].exnext = 0 /\ Follows(v.ino[p], w.ino[p])
        BY <1>2, <2>2
      <3> QED  BY <1>2, <2>2, <3>1 DEF Follows
    <2> QED  BY <2>1, <2>2
  <1> QED  BY <1>1, <1>3

\* Where a_inodes go and children with no locks change.
LEMMA MarksCarry ==
    ASSUME NEW u, NEW v, Tree(u), Tree(v), Live(v) \subseteq Live(u), v.total = u.total,
           \A p \in Live(v) : SameMarks(u.ino[p], v.ino[p])
    PROVE  Carries(u, v)
  <1> SUFFICES ASSUME Marks(u)
               PROVE  Marks(v) /\ \A p \in Live(v) : Follows(u.ino[p], v.ino[p])
    BY DEF Carries
  <1>1. ASSUME NEW p \in Live(v)
        PROVE  /\ Watching(v.ino[p]) /\ Follows(u.ino[p], v.ino[p])
               /\ v.ino[p].locked \in Nat /\ v.ino[p].locked = u.ino[p].locked
    <2> DEFINE n == u.ino[p]
               m == v.ino[p]
    <2>1. p \in Live(u) /\ Watching(n) /\ SameMarks(n, m) /\ n.kids \in Seq(Nat)
      BY Parts, Fields DEF Marks, Tree
    <2> HIDE DEF n, m
    <2>2. Len(n.kids) \in Nat /\ (Len(n.kids) = 0 => n.kids = <<>>)
      BY <2>1, Elements
    <2>3. n.exnext > 0 => m.kids = n.kids
      BY <2>1, <2>2 DEF Watching, SameMarks
    <2>4. m.exnext = n.exnext /\ m.locked = n.locked /\ n.locked \in Nat /\ n.exnext \in Nat
      BY <2>1 DEF Watching, SameMarks
    <2>5. Watching(m)
      BY <2>1, <2>3, <2>4 DEF Watching
    <2>6. Follows(n, m)
      BY <2>3, <2>4, GrownBoth DEF Follows
    <2> QED  BY <2>4, <2>5, <2>6 DEF n, m
  <1>2. Covered(v)
    <2>1. \A p \in Live(u) : u.ino[p].locked \in Nat
      BY DEF Marks, Watching
    <2>2. Root \in Live(u) /\ Root \in Live(v) /\ u.total \in Int
      BY Parts DEF Tree
    <2>3. v.ino[Root].locked - u.ino[Root].locked <= v.total - u.total
      BY <1>1, <2>1, <2>2
    <2>4. \A p \in Live(v) \ {Root} : p \in Live(u) \ {Root} /\ v.ino[p].locked <= u.ino[p].locked
      BY <1>1, <2>1
    <2> QED  BY <1>1, <2>1, <2>2, <2>3, <2>4, CoveredMoves DEF Marks
  <1> QED  BY <1>1, <1>2 DEF Marks

LEMMA PassesSelf ==
    ASSUME NEW u \in Units
    PROVE  Passes(u, u)
  <1>1. u.a_uniq >= u.a_uniq
    BY Parts
  <1> QED  BY <1>1, CarriesSelf DEF Passes, Drifts, Placed

LEMMA PassesBoth ==
    ASSUME NEW u, NEW v, NEW w, Tree(u), Tree(v), Tree(w), Passes(u, v), Passes(v, w)
    PROVE  Passes(u, w)
  BY DriftsBoth, CarriesBoth DEF Passes

----------------------------------------------------------------------------
LEMMA FlushesSelf ==
    ASSUME NEW u \in Units
    PROVE  Flushes(u, u)
  BY KeepsSelf DEF Flushes, SameMarks

LEMMA FlushesBoth ==
    ASSUME NEW u, NEW v, NEW w, Tree(u), Tree(v), Tree(w), Flushes(u, v), Flushes(v, w)
    PROVE  Flushes(u, w)
  <1>1. Keeps(u, w)
    BY SMTT(30), KeepsBoth DEF Flushes
  <1>2. \A p \in Live(w) : SameMarks(u.ino[p], w.ino[p])
    <2> SUFFICES ASSUME NEW p \in Live(w)
                 PROVE  SameMarks(u.ino[p], w.ino[p])
      OBVIOUS
    <2>1. SameMarks(u.ino[p], v.ino[p]) /\ SameMarks(v.ino[p], w.ino[p])
      BY DEF Flushes
    <2> QED  BY <2>1 DEF SameMarks
  <1> QED  BY <1>1, <1>2 DEF Flushes

LEMMA FlushPassKeeps ==
    ASSUME NEW v, NEW x, v \in [u : Units, freed : Int, tries : Int], Tree(v.u), Cached(v.u, x)
    PROVE  LET w == FlushPass(v)
           IN  /\ w \in [u : Units, freed : Int, tries : Int]
               /\ Tree(w.u) /\ Cached(w.u, x) /\ Flushes(v.u, w.u)
               /\ x \in Live(v.u) => x \in Live(w.u)
  <1> DEFINE d == v.u.ino[v.u.chain[Len(v.u.chain)]].parent
             w == FlushPass(v)
  <1>1. CASE w = v
    BY SMTT(30), <1>1, FlushesSelf
  <1>2. CASE v.u.chain # <<>> /\ w = FlushChildren(v, d)
    <2>1. v.u.chain \in Seq(Nat) /\ v.u \in Units
      BY Parts
    <2>2. v.u.chain[Len(v.u.chain)] \in ToSet(v.u.chain)
      <3>1. Len(v.u.chain) \in 1 .. Len(v.u.chain)
        BY SMTT(30), <1>2, <2>1, Elements
      <3> QED  BY <2>1, <3>1, Elements
    <2>3. d \in Live(v.u)
      <3>1. v.u.chain[Len(v.u.chain)] \in Idle(v.u)
        BY <2>2 DEF Cached
      <3>2. v.u.chain[Len(v.u.chain)] \in Live(v.u) /\ v.u.chain[Len(v.u.chain)] # Root
        BY SMTT(30), <3>1 DEF Idle, Tree
      <3> QED  BY <3>2 DEF Tree, Under
    <2>4. LET y == FlushChildren(v, d).u
          IN  Tree(y) /\ Cached(y, x) /\ Flushes(v.u, y) /\ (x \in Live(v.u) => x \in Live(y))
      BY <2>3, FlushChildrenKeeps
    <2>5. FlushChildren(v, d) \in [u : Units, freed : Int, tries : Int]
      <3> DEFINE y == FlushChildren(v, d)
      <3>1. y.u \in Units
        BY Zenon, <2>4 DEF Tree
      <3>2. y.freed \in Int /\ y.tries \in Int
        <4> DEFINE Q == {q \in ToSet(v.u.chain) : v.u.ino[q].parent = d}
                   P == IF v.u.ino[d].locked > 0 THEN {} ELSE Q
        <4>1. IsFiniteSet(ToSet(v.u.chain))
          BY <2>1, LenIsCardinality DEF Cached
        <4>2. P \subseteq ToSet(v.u.chain)
          OBVIOUS
        <4>3. Cardinality(P) \in Nat
          BY ZenonT(60), <4>1, <4>2, FS_Subset, FS_CardinalityType
        <4>4. y.freed = v.freed + Cardinality(P) /\ y.tries = (IF P = {} THEN v.tries - 1 ELSE v.tries)
          BY ZenonT(60) DEF FlushChildren
        <4> HIDE DEF P, y
        <4> QED  BY <4>3, <4>4
      <3>3. \E a, b, c : y = [u |-> a, freed |-> b, tries |-> c]
        BY Zenon DEF FlushChildren
      <3> HIDE DEF y
      <3>4. PICK a, b, c : y = [u |-> a, freed |-> b, tries |-> c]
        BY <3>3
      <3>5. a \in Units /\ b \in Int /\ c \in Int
        BY <3>1, <3>2, <3>4
      <3>6. y \in [u : Units, freed : Int, tries : Int]
        BY <3>4, <3>5
      <3> QED  BY <3>6 DEF y
    <2> QED  BY Zenon, <1>2, <2>4, <2>5
  <1> QED  BY Zenon, <1>1, <1>2 DEF FlushPass

(* The passes of flush_cache: what holds of the first and is kept by each holds of the last. *)
LEMMA FlushFolds ==
    ASSUME NEW u, NEW D, [u |-> u, freed |-> 0, tries |-> FlushTries] \in D, \A v \in D : FlushPass(v) \in D
    PROVE  \E v \in D : flush_cache(u) = v.u
  <1> DEFINE n == FlushNum + FlushTries
             v0 == [u |-> u, freed |-> 0, tries |-> FlushTries]
             g == [y \in D \X (1 .. n) |-> FlushPass(y[1])]
             Folds(f) == f = [i \in 0 .. Len(Upto(n)) |-> IF i = 0 THEN v0 ELSE FlushPass(f[i - 1])]
             f == CHOOSE f : Folds(f)
  <1>1. n \in Nat /\ Len(Upto(n)) = n /\ v0 \in D
    <2>1. n \in Nat
      BY TreeAssumption
    <2> HIDE DEF n
    <2> QED  BY <2>1, NumbersUpto
  <1>2. v0 = [u |-> u, freed |-> 0, tries |-> FlushTries] /\ n = FlushNum + FlushTries
    OBVIOUS
  <1> HIDE DEF v0, n
  <1>3. g \in [D \X (1 .. n) -> D] /\ \A v \in D, i \in 1 .. n : g[<<v, i>>] = FlushPass(v)
    OBVIOUS
  <1>4. \E e : Folds(e)
    <2>1. PICK e : Iterates(e, D, v0, n, g)
      <3> HIDE DEF g
      <3>1. \A k \in Nat : k <= n => \E e : Iterates(e, D, v0, k, g)
        BY <1>1, <1>3, Iterated
      <3>2. n <= n
        BY <1>1
      <3> QED  BY <1>1, <3>1, <3>2
    <2> HIDE DEF g
    <2>2. e \in [0 .. n -> D] /\ e[0] = v0 /\ \A i \in 1 .. n : e[i] = FlushPass(e[i - 1])
      <3>1. e \in [0 .. n -> D] /\ e[0] = v0 /\ \A i \in 1 .. n : e[i] = g[<<e[i - 1], i>>]
        BY <2>1 DEF Iterates
      <3>2. \A i \in 1 .. n : i - 1 \in 0 .. n
        BY <1>1
      <3> QED  BY <1>3, <3>1, <3>2
    <2>3. \A i \in 0 .. n : e[i] = IF i = 0 THEN v0 ELSE FlushPass(e[i - 1])
      BY <1>1, <2>2
    <2> QED  BY <1>1, <2>2, <2>3
  <1>5. Folds(f)
    BY <1>4
  <1>6. flush_cache(u) = f[n].u
    BY <1>1 DEF flush_cache, Fold, v0, n
  <1> HIDE DEF f
  <1>7. f[0] = v0 /\ \A i \in 1 .. n : f[i] = FlushPass(f[i - 1])
    BY <1>1, <1>5
  <1>8. \A i \in 0 .. n : f[i] \in D
    BY <1>1, <1>7, Reaches
  <1> QED  BY <1>1, <1>6, <1>8

LEMMA FlushCacheKeeps ==
    ASSUME NEW u, NEW x, Tree(u), Cached(u, x)
    PROVE  LET w == flush_cache(u)
           IN  Tree(w) /\ Cached(w, x) /\ Flushes(u, w) /\ (x \in Live(u) => x \in Live(w))
  <1> DEFINE v0 == [u |-> u, freed |-> 0, tries |-> FlushTries]
             R == [u : Units, freed : Int, tries : Int]
             D == {v \in R : /\ Tree(v.u) /\ Cached(v.u, x) /\ Flushes(u, v.u)
                             /\ x \in Live(u) => x \in Live(v.u)}
  <1>1. v0 \in D
    <2>1. u \in Units /\ FlushTries \in Int
      BY TreeAssumption DEF Tree
    <2> QED  BY <2>1, FlushesSelf
  <1>2. \A v \in D : FlushPass(v) \in D
    <2> SUFFICES ASSUME NEW v \in D
                 PROVE  FlushPass(v) \in D
      OBVIOUS
    <2>1. /\ FlushPass(v) \in R /\ Tree(FlushPass(v).u) /\ Cached(FlushPass(v).u, x)
          /\ Flushes(v.u, FlushPass(v).u) /\ (x \in Live(v.u) => x \in Live(FlushPass(v).u))
      BY FlushPassKeeps
    <2>2. Flushes(u, FlushPass(v).u)
      BY <2>1, FlushesBoth
    <2> QED  BY <2>1, <2>2
  <1> HIDE DEF D
  <1>3. PICK v \in D : flush_cache(u) = v.u
    BY <1>1, <1>2, FlushFolds
  <1> QED  BY <1>3 DEF D

----------------------------------------------------------------------------
(* An a_inode enters the chain, and a new one the tree. *)
LEMMA EntersChain ==
    ASSUME NEW u, NEW p \in Nat, u \in Units, NoDup(u.chain), u.cache = Len(u.chain), p \notin ToSet(u.chain)
    PROVE  LET v == [u EXCEPT !.chain = <<p>> \o @, !.cache = @ + 1]
           IN  /\ v \in Units /\ v.ino = u.ino /\ Live(v) = Live(u) /\ ToSet(v.chain) = ToSet(u.chain) \cup {p}
               /\ NoDup(v.chain) /\ v.cache = Len(v.chain) /\ v.total = u.total
               /\ v.a_uniq = u.a_uniq /\ v.wild = u.wild
  <1> DEFINE s == <<p>> \o u.chain
             c == u.cache + 1
             v == [u EXCEPT !.chain = s, !.cache = c]
  <1>1. u.chain \in Seq(Nat) /\ u.cache \in Int
    BY Parts
  <1>2. s \in Seq(Nat) /\ Len(s) = Len(u.chain) + 1 /\ ToSet(s) = ToSet(u.chain) \cup {p} /\ NoDup(s)
    BY <1>1, AtFront
  <1>3. c \in Int /\ c = Len(s)
    BY <1>1, <1>2
  <1> HIDE DEF s, c
  <1>4. v \in Units
    BY <1>2, <1>3 DEF Units
  <1>5. /\ v.ino = u.ino /\ v.chain = s /\ v.cache = c
        /\ v.total = u.total /\ v.a_uniq = u.a_uniq /\ v.wild = u.wild
    BY DEF Units
  <1>6. [u EXCEPT !.chain = <<p>> \o @, !.cache = @ + 1] = v
    BY DEF s, c
  <1> HIDE DEF v
  <1>7. Live(v) = Live(u)
    BY <1>5 DEF Live
  <1> QED  BY <1>2, <1>3, <1>4, <1>5, <1>6, <1>7

LEMMA RecycleKeeps ==
    ASSUME NEW u, NEW p, Tree(u), Cached(u, p), p \in Live(u)
    PROVE  LET v == recycle_aino(u, p)
           IN  /\ Tree(v) /\ Cached(v, None) /\ Flushes(u, v) /\ p \in Live(v)
               /\ u.ino[p].dir \/ u.cache <= CacheMax + u.total => Live(v) = Live(u)
  <1>1. /\ u \in Units /\ Live(u) \subseteq Nat /\ p \in Nat /\ None \notin Idle(u) /\ NoDup(u.chain)
        /\ u.cache = Len(u.chain) /\ ToSet(u.chain) = Idle(u) \ {p}
    BY Parts DEF Tree, Idle, None, Cached
  <1>2. CASE u.ino[p].dir \/ Busy(u.ino[p])
    <2>1. recycle_aino(u, p) = u
      BY <1>2 DEF recycle_aino
    <2>2. p \notin Idle(u)
      BY <1>2 DEF Idle
    <2>3. Cached(u, None)
      BY <1>1, <2>2 DEF Cached
    <2> QED  BY <1>1, <2>1, <2>3, FlushesSelf
  <1>3. CASE ~(u.ino[p].dir \/ Busy(u.ino[p]))
    <2> DEFINE w == IF u.cache > CacheMax + u.total THEN flush_cache(u) ELSE u
               v == [w EXCEPT !.chain = <<p>> \o @, !.cache = @ + 1]
    <2>1. recycle_aino(u, p) = v
      BY <1>3 DEF recycle_aino
    <2>2. Tree(w) /\ Cached(w, p) /\ Flushes(u, w) /\ p \in Live(w)
      <3>1. LET y == flush_cache(u)
            IN  Tree(y) /\ Cached(y, p) /\ Flushes(u, y) /\ (p \in Live(u) => p \in Live(y))
        BY FlushCacheKeeps
      <3>2. Flushes(u, u)
        BY <1>1, FlushesSelf
      <3> QED  BY <3>1, <3>2
    <2>3. u.cache <= CacheMax + u.total => w = u
      <3>1. u.cache \in Int /\ u.total \in Int /\ CacheMax \in Nat
        BY <1>1, Parts, TreeAssumption
      <3> QED  BY <3>1
    <2> HIDE DEF w
    <2>4. /\ w \in Units /\ NoDup(w.chain) /\ w.cache = Len(w.chain)
          /\ p \notin ToSet(w.chain) /\ ToSet(w.chain) = Idle(w) \ {p}
      BY <2>2 DEF Tree, Cached
    <2>5. /\ v \in Units /\ v.ino = w.ino /\ Live(v) = Live(w) /\ ToSet(v.chain) = ToSet(w.chain) \cup {p}
          /\ NoDup(v.chain) /\ v.cache = Len(v.chain) /\ v.total = w.total
          /\ v.a_uniq = w.a_uniq /\ v.wild = w.wild
      BY <1>1, <2>4, EntersChain
    <2> HIDE DEF v
    <2>6. Tree(v)
      BY <2>2, <2>5, TreeOf
    <2>7. p \in Idle(w)
      <3>1. Same(u.ino[p], w.ino[p])
        BY <2>2 DEF Flushes, Keeps
      <3> QED  BY <1>3, <2>2, <3>1 DEF Idle, Same, Busy
    <2>8. Idle(v) = Idle(w) /\ None \notin Idle(w)
      <3>1. Live(w) \subseteq Nat
        BY <2>4, Parts
      <3> QED  BY <2>5, <3>1 DEF Idle, None
    <2>9. Cached(v, None)
      BY <2>4, <2>5, <2>7, <2>8 DEF Cached
    <2>10. Flushes(u, v) /\ p \in Live(v)
      <3>1. Keeps(u, v)
        BY <2>2, <2>5 DEF Flushes, Keeps
      <3> QED  BY <2>2, <2>5, <3>1 DEF Flushes
    <2> QED  BY <1>3, <2>1, <2>3, <2>5, <2>6, <2>9, <2>10
  <1> QED  BY <1>2, <1>3

LEMMA NodeIs ==
    ASSUME NEW parent \in Nat, NEW name \in Names, NEW nname \in Seq(Components),
           NEW uniq \in Nat, NEW dir \in BOOLEAN
    PROVE  LET n == Node(parent, name, nname, uniq, dir)
           IN  /\ n \in Nodes /\ n.parent = parent /\ n.name = name /\ n.nname = nname /\ n.uniq = uniq
               /\ n.dir = dir /\ n.shlock = 0 /\ n.elock = FALSE /\ n.exnext = 0 /\ n.locked = 0 /\ n.kids = <<>>
  <1> DEFINE n == Node(parent, name, nname, uniq, dir)
  <1>1. parent \in Nat \cup {None} /\ name \in Names \cup {""}
    OBVIOUS
  <1>0. 0 \in Int
    OBVIOUS
  <1>2. n \in Nodes
    <2>1. <<>> \in Seq(Nat)
      BY NoElements, Zenon
    <2>2. FALSE \in BOOLEAN
      OBVIOUS
    <2> QED  BY <1>0, <1>1, <2>1, <2>2, Zenon DEF Node, Nodes
  <1> QED  BY <1>2 DEF Node

\* The tree with the new a_inode, before it enters the chain.
Born(u, base, name, dir) ==
    LET p      == u.a_uniq + 1
        d      == u.ino[base]
        watch  == d.exnext # 0
        node   == Node(base, name, Append(d.nname, name), p, dir)
        parent == [d EXCEPT !.kids = <<p>> \o d.kids,
                            !.locked = IF watch THEN d.locked + 1 ELSE d.locked]
    IN  [u EXCEPT !.a_uniq = p, !.total = IF watch THEN u.total + 1 ELSE u.total,
                  !.ino = With([u.ino EXCEPT ![base] = parent], p, node)]

LEMMA BornIs ==
    ASSUME NEW u, NEW base, NEW name \in Names, NEW dir \in BOOLEAN,
           Tree(u), Cached(u, None), base \in Live(u), u.ino[base].dir
    PROVE  LET v == Born(u, base, name, dir)
               p == u.a_uniq + 1
           IN  /\ Tree(v) /\ Cached(v, p) /\ Keeps(u, v) /\ Carries(u, v)
               /\ Live(v) = Live(u) \cup {p} /\ v.a_uniq = p
               /\ v.ino[p] = Node(base, name, Append(u.ino[base].nname, name), p, dir)
               /\ v.total >= u.total /\ v.cache = u.cache
  <1> DEFINE p == u.a_uniq + 1
             watch == u.ino[base].exnext # 0
             node == Node(base, name, Append(u.ino[base].nname, name), p, dir)
             k == <<p>> \o u.ino[base].kids
             l == IF watch THEN u.ino[base].locked + 1 ELSE u.ino[base].locked
             b == [u.ino[base] EXCEPT !.kids = k, !.locked = l]
             t == IF watch THEN u.total + 1 ELSE u.total
             f == With([u.ino EXCEPT ![base] = b], p, node)
             v == [u EXCEPT !.a_uniq = p, !.total = t, !.ino = f]
             D == Live(u) \cup {p}
  <1>1. /\ u \in Units /\ D \in SUBSET Nat /\ u.ino \in [Live(u) -> Nodes] /\ u.a_uniq \in Nat /\ p \in Nat
        /\ u.total \in Int /\ u.chain \in Seq(Nat) /\ u.cache \in Int /\ Live(u) \subseteq 0 .. u.a_uniq
        /\ u.wild \in BOOLEAN
    BY Parts DEF Tree
  <1>2. /\ u.ino[base] \in Nodes /\ u.ino[base].kids \in Seq(Nat) /\ u.ino[base].locked \in Int
        /\ u.ino[base].nname \in Seq(Components) /\ base \in Nat
    BY <1>1, Fields
  <1>3. p \notin Live(u) /\ p # Root /\ base # p /\ (\A q \in Live(u) : u.ino[q].parent # p /\ q <= u.a_uniq)
    <2>1. p \notin Live(u) /\ p # Root /\ (\A q \in Live(u) : q <= u.a_uniq)
      BY <1>1 DEF Root
    <2>2. ASSUME NEW q \in Live(u)
          PROVE  u.ino[q].parent # p
      <3>1. u.ino[q].parent \in Live(u) \/ u.ino[q].parent = -1
        BY DEF Tree, Under, None
      <3> QED  BY <1>1, <2>1, <3>1
    <2> QED  BY <2>1, <2>2
  <1>4. /\ k \in Seq(Nat) /\ ToSet(k) = Children(u, base) \cup {p} /\ NoDup(k)
        /\ Grown(u.ino[base].kids, k) /\ Len(k) = Len(u.ino[base].kids) + 1
    <2>1. NoDup(u.ino[base].kids) /\ ToSet(u.ino[base].kids) = Children(u, base)
      BY DEF Tree
    <2>2. p \notin ToSet(u.ino[base].kids)
      BY <1>3, <2>1 DEF Children
    <2> QED  BY <1>1, <1>2, <2>1, <2>2, AtFront, GrownFront
  <1>5. l \in Int /\ t \in Int /\ t >= u.total
    BY <1>1, <1>2
  <1>6. /\ node \in Nodes /\ node.parent = base /\ node.name = name /\ node.dir = dir /\ node.kids = <<>>
        /\ node.uniq = p /\ node.shlock = 0 /\ node.elock = FALSE /\ node.exnext = 0 /\ node.locked = 0
        /\ node.nname = Append(u.ino[base].nname, name)
    <2>1. Append(u.ino[base].nname, name) \in Seq(Components)
      BY <1>2, AppendProperties DEF Components
    <2> DEFINE e == Append(u.ino[base].nname, name)
    <2>2. e \in Seq(Components) /\ p \in Nat /\ base \in Nat /\ node = Node(base, name, e, p, dir)
      BY <1>1, <1>2, <2>1
    <2> HIDE DEF e, p, node
    <2>3. /\ node \in Nodes /\ node.parent = base /\ node.name = name /\ node.dir = dir /\ node.kids = <<>>
          /\ node.uniq = p /\ node.shlock = 0 /\ node.elock = FALSE /\ node.exnext = 0 /\ node.locked = 0 /\ node.nname = e
      <3>1. node \in Nodes
        BY <2>2, NodeIs
      <3>2. /\ node.parent = base /\ node.name = name /\ node.dir = dir /\ node.kids = <<>>
            /\ node.uniq = p /\ node.shlock = 0 /\ node.elock = FALSE /\ node.exnext = 0 /\ node.locked = 0 /\ node.nname = e
        BY <2>2, Zenon DEF Node
      <3> QED  BY <3>1, <3>2
    <2> QED  BY <2>3 DEF e
  <1>7. b \in Nodes /\ b.kids = k /\ Same(u.ino[base], b) /\ b.locked = l /\ b.exnext = u.ino[base].exnext
    <2> DEFINE n == u.ino[base]
    <2> HIDE DEF n
    <2>1. b = [n EXCEPT !.kids = k, !.locked = l] /\ n \in Nodes
      BY <1>2 DEF n
    <2> HIDE DEF k, l, b
    <2> QED  BY <1>4, <1>5, <2>1 DEF Nodes, Same, n
  <1> HIDE DEF node, b
  <1>70. /\ t - u.total = l - u.ino[base].locked
         /\ IF u.ino[base].exnext = 0 THEN l = u.ino[base].locked ELSE l = u.ino[base].locked + 1
    BY <1>1, <1>2
  <1>8. /\ f \in [D -> Nodes] /\ f[p] = node /\ f[base] = b
        /\ \A q \in Live(u) : q # base => f[q] = u.ino[q]
    <2>1. DOMAIN f = D
      BY <1>1 DEF With
    <2>2. f[p] = node
      BY <2>1 DEF With
    <2>3. \A q \in Live(u) : f[q] = IF q = base THEN b ELSE u.ino[q]
      BY <1>1, <1>3 DEF With
    <2>4. f = [q \in D |-> f[q]]
      BY <2>1 DEF With
    <2> HIDE DEF f
    <2>5. \A q \in D : f[q] \in Nodes
      BY <1>1, <1>6, <1>7, <2>2, <2>3
    <2> QED  BY <2>2, <2>3, <2>4, <2>5
  <1>9. Born(u, base, name, dir) = v
    BY DEF Born, b, node
  <1> HIDE DEF f, t, k, l
  <1>10. /\ v \in Units /\ v.ino = f /\ Live(v) = D /\ v.chain = u.chain /\ v.cache = u.cache
         /\ v.total = t /\ v.a_uniq = p /\ v.wild = u.wild
    <2> HIDE DEF p, D
    <2>1. f \in UNION {[E -> Nodes] : E \in SUBSET Nat}
      BY <1>1, <1>8
    <2>2. v \in Units
      BY <1>1, <1>5, <2>1 DEF Units
    <2>3. /\ v.ino = f /\ v.chain = u.chain /\ v.cache = u.cache
          /\ v.total = t /\ v.a_uniq = p /\ v.wild = u.wild
      BY <1>1 DEF Units
    <2> HIDE DEF v
    <2>4. Live(v) = D
      BY <1>8, <2>3 DEF Live
    <2> QED  BY <2>2, <2>3, <2>4
  <1> HIDE DEF v
  <1>11. \A q \in Live(u) : q \in Live(v) /\ Same(u.ino[q], v.ino[q])
    BY <1>7, <1>8, <1>10, SameIs
  <1>12. v.ino[p] = node /\ v.ino[base] = b /\ \A q \in Live(u) : q # base => v.ino[q] = u.ino[q]
    BY <1>8, <1>10
  <1>13. \A q \in Live(v) : q = p \/ q \in Live(u)
    BY <1>10
  <1>14. Tree(v)
    <2>1. Root \in Live(v) /\ Live(v) \subseteq 0 .. v.a_uniq
      BY <1>1, <1>10 DEF Tree
    <2>2. v.ino[Root].parent = None /\ v.ino[Root].nname = <<>> /\ v.ino[Root].dir
      BY <1>11 DEF Tree, Same
    <2>3. ASSUME NEW q \in Live(v), q # Root
          PROVE  Under(v, q)
      <3>1. CASE q = p
        <4>1. base \in Live(v) /\ Same(u.ino[base], v.ino[base])
          BY <1>11
        <4> QED  BY ZenonT(60), <1>6, <1>12, <3>1, <4>1 DEF Under, Same
      <3>2. CASE q \in Live(u)
        <4>1. Under(u, q) /\ Same(u.ino[q], v.ino[q])
          BY <1>11, <2>3, <3>2 DEF Tree
        <4>2. u.ino[q].parent \in Live(v) /\ Same(u.ino[u.ino[q].parent], v.ino[u.ino[q].parent])
          BY <1>11, <4>1 DEF Under
        <4> QED  BY Zenon, <4>1, <4>2 DEF Under, Same
      <3> QED  BY SMTT(30), <1>13, <3>1, <3>2
    <2>4. ASSUME NEW q \in Live(v)
          PROVE  NoDup(v.ino[q].kids) /\ ToSet(v.ino[q].kids) = Children(v, q)
      <3>0. \A c \in Live(u) : v.ino[c].parent = u.ino[c].parent
        BY <1>11 DEF Same
      <3>1. CASE q = p
        <4>1. Children(v, q) = {}
          <5>1. \A c \in Live(u) : v.ino[c].parent # p
            BY <1>3, <3>0
          <5>2. v.ino[p].parent # p
            BY <1>3, <1>6, <1>12
          <5> QED  BY <1>13, <3>1, <5>1, <5>2 DEF Children
        <4> QED  BY <1>6, <1>12, <3>1, <4>1, NoElements
      <3>2. CASE q = base
        <4>1. Children(v, q) = Children(u, q) \cup {p}
          BY <1>3, <1>6, <1>10, <1>12, <3>0, <3>2 DEF Children
        <4> QED  BY <1>4, <1>7, <1>12, <3>2, <4>1
      <3>3. CASE q # base /\ q \in Live(u)
        <4>1. Children(v, q) = Children(u, q)
          BY <1>3, <1>6, <1>10, <1>12, <3>0, <3>3 DEF Children
        <4> QED  BY <1>12, <3>3, <4>1 DEF Tree
      <3> QED  BY <1>13, <3>1, <3>2, <3>3
    <2>5. \A q \in Live(u) : v.ino[q].uniq = u.ino[q].uniq /\ u.ino[q].uniq \in Nat /\ u.ino[q].uniq <= u.a_uniq
      BY ZenonT(60), <1>1, <1>11, Fields DEF Tree, Same
    <2>6. \A q \in Live(v) : v.ino[q].uniq <= v.a_uniq
      BY SMTT(30), <1>1, <1>6, <1>10, <1>12, <1>13, <2>5
    <2>7. ASSUME NEW q \in Live(v), NEW r \in Live(v), v.ino[q].uniq = v.ino[r].uniq
          PROVE  q = r
      <3>1. \A x, y \in Live(u) : u.ino[x].uniq = u.ino[y].uniq => x = y
        BY DEF Tree
      <3>2. \A x \in Live(u) : v.ino[x].uniq # p
        BY <1>1, <2>5
      <3> QED  BY <1>6, <1>12, <1>13, <2>5, <2>7, <3>1, <3>2
    <2> QED  BY <1>10, <2>1, <2>2, <2>3, <2>4, <2>6, <2>7 DEF Tree
  <1>15. Cached(v, p)
    <2>1. \A q \in Live(u) : v.ino[q].dir = u.ino[q].dir /\ (Busy(v.ino[q]) <=> Busy(u.ino[q]))
      BY <1>11 DEF Same, Busy
    <2>2. Idle(v) \ {p} = Idle(u) \ {None}
      <3>1. None \notin Live(u)
        BY <1>1 DEF None
      <3> QED  BY <1>3, <1>10, <2>1, <3>1 DEF Idle
    <2> QED  BY <1>10, <2>2 DEF Cached
  <1>16. Keeps(u, v)
    <2>1. Live(v) \ Live(u) = {p}
      BY <1>3, <1>10
    <2>2. v.a_uniq >= u.a_uniq /\ p > u.a_uniq
      BY <1>1, <1>10
    <2> QED  BY <1>6, <1>10, <1>11, <1>12, <2>1, <2>2 DEF Keeps
  <1>17. Carries(u, v)
    <2> SUFFICES ASSUME Marks(u)
                 PROVE  /\ Marks(v)
                        /\ \A q \in Live(v) : IF q \in Live(u) THEN Follows(u.ino[q], v.ino[q])
                                                           ELSE v.ino[q].exnext = 0
      BY DEF Carries
    <2>1. \A q \in Live(u) : Watching(u.ino[q]) /\ u.ino[q].locked \in Nat
      BY DEF Marks, Watching
    <2>2. Watching(v.ino[p]) /\ v.ino[p].exnext = 0 /\ v.ino[p].locked = 0
      BY <1>6, <1>12, TreeAssumption DEF Watching
    <2>3. Watching(v.ino[base]) /\ Follows(u.ino[base], v.ino[base]) /\ v.ino[base].locked \in Nat
      <3>1. /\ v.ino[base].kids = k /\ v.ino[base].locked = l /\ v.ino[base].exnext = u.ino[base].exnext
            /\ Len(u.ino[base].kids) \in Nat
        BY <1>2, <1>7, <1>12, Elements
      <3>2. Watching(v.ino[base])
        BY <1>4, <1>70, <2>1, <3>1 DEF Watching
      <3> QED  BY <1>4, <3>1, <3>2 DEF Follows, Watching
    <2>4. \A q \in Live(u) : q # base => Watching(v.ino[q]) /\ Follows(u.ino[q], v.ino[q])
      BY <1>12, <2>1, GrownBoth DEF Follows
    <2>5. Covered(v)
      <3>1. \A q \in Live(v) : v.ino[q].locked \in Nat
        BY <1>12, <1>13, <2>1, <2>2, <2>3
      <3>2. v.ino[base].locked - u.ino[base].locked <= v.total - u.total
        BY <1>1, <1>2, <1>5, <1>7, <1>10, <1>12, <1>70
      <3>3. \A q \in Live(v) \ {base} : \/ v.ino[q].locked = 0
                                        \/ q \in Live(u) \ {base} /\ v.ino[q].locked <= u.ino[q].locked
        BY <1>12, <1>13, <2>1, <2>2
      <3>4. base \in Live(v) /\ Covered(u)
        BY <1>11 DEF Marks
      <3> QED  BY <1>14, <2>1, <3>1, <3>2, <3>3, <3>4, CoveredMoves
    <2>6. \A q \in Live(v) : /\ Watching(v.ino[q])
                             /\ IF q \in Live(u) THEN Follows(u.ino[q], v.ino[q]) ELSE v.ino[q].exnext = 0
      BY <1>3, <1>13, <2>2, <2>3, <2>4
    <2> QED  BY <2>5, <2>6 DEF Marks
  <1> QED  BY <1>5, <1>9, <1>10, <1>12, <1>14, <1>15, <1>16, <1>17 DEF node

LEMMA ChildIs ==
    ASSUME NEW u, NEW base, NEW name \in Names, NEW dir \in BOOLEAN,
           Tree(u), Cached(u, None), base \in Live(u), u.ino[base].dir
    PROVE  LET v == init_child_aino(u, base, name, dir)
               p == u.a_uniq + 1
           IN  /\ Tree(v) /\ Cached(v, None) /\ Keeps(u, v) /\ Carries(u, v)
               /\ Live(v) \subseteq Live(u) \cup {p} /\ v.a_uniq = p /\ p \in Live(v) /\ p # Root
               /\ Same(Node(base, name, Append(u.ino[base].nname, name), p, dir), v.ino[p])
               /\ v.ino[p].kids = <<>>
               /\ dir \/ u.cache <= CacheMax + u.total => Live(v) = Live(u) \cup {p}
  <1> DEFINE m == Born(u, base, name, dir)
             p == u.a_uniq + 1
             v == recycle_aino(m, p)
             n == Node(base, name, Append(u.ino[base].nname, name), p, dir)
  <1>1. /\ Tree(m) /\ Cached(m, p) /\ Keeps(u, m) /\ Carries(u, m) /\ Live(m) = Live(u) \cup {p} /\ m.a_uniq = p
        /\ m.ino[p] = n /\ m.total >= u.total /\ m.cache = u.cache
    BY BornIs
  <1>2. init_child_aino(u, base, name, dir) = v
    BY DEF init_child_aino, Born
  <1>3. p \in Live(m) /\ p # Root
    BY <1>1, Parts DEF Tree, Root
  <1> HIDE DEF m
  <1>4. /\ Tree(v) /\ Cached(v, None) /\ Flushes(m, v) /\ p \in Live(v)
        /\ m.ino[p].dir \/ m.cache <= CacheMax + m.total => Live(v) = Live(m)
    BY <1>1, <1>3, RecycleKeeps
  <1>40. Keeps(m, v) /\ Live(v) \subseteq Live(m) /\ v.a_uniq = m.a_uniq /\ v.total = m.total
    BY <1>4 DEF Flushes
  <1>41. Carries(m, v)
    BY <1>1, <1>4, MarksCarry DEF Flushes
  <1>42. Carries(u, v)
    BY <1>1, <1>4, <1>40, <1>41, KeepsDrifts, CarriesBoth
  <1> HIDE DEF v
  <1>5. Keeps(u, v)
    BY <1>1, <1>4, <1>40, KeepsBoth
  <1>6. Same(n, v.ino[p])
    BY <1>1, <1>3, <1>4, <1>40 DEF Keeps
  <1>7. v.ino[p].kids = <<>>
    <2>1. Children(m, p) = {}
      <3>1. ToSet(m.ino[p].kids) = Children(m, p) /\ m.ino[p].kids = <<>>
        BY <1>1, <1>3 DEF Tree, Node
      <3> QED  BY <3>1, NoElements
    <2>2. Children(v, p) = {}
      <3>1. \A q \in Live(v) : q \in Live(m) /\ v.ino[q].parent = m.ino[q].parent
        BY <1>40 DEF Keeps, Same
      <3> QED  BY <2>1, <3>1 DEF Children
    <2>3. v.ino[p].kids \in Seq(Nat) /\ ToSet(v.ino[p].kids) = {}
      BY <1>4, <2>2, Parts, Fields DEF Tree
    <2> QED  BY <2>3, Elements
  <1>8. u.cache <= CacheMax + u.total => m.cache <= CacheMax + m.total
    <2>1. u.cache \in Int /\ u.total \in Int /\ m.total \in Int /\ CacheMax \in Nat
      BY <1>1, Parts, TreeAssumption DEF Tree
    <2> QED  BY <1>1, <2>1
  <1>9. dir => m.ino[p].dir
    BY <1>1 DEF Node
  <1> QED  BY <1>1, <1>2, <1>3, <1>4, <1>40, <1>42, <1>5, <1>6, <1>7, <1>8, <1>9

----------------------------------------------------------------------------
(* Looking up. *)
LEMMA LooksSelf ==
    ASSUME NEW u \in Units
    PROVE  Looks(u, u)
  BY KeepsSelf, CarriesSelf DEF Looks, Sees

LEMMA SeesBoth ==
    ASSUME NEW u, NEW v, NEW w, Tree(u), Tree(v), Tree(w), Sees(u, v), Sees(v, w)
    PROVE  Sees(u, w)
  <1>1. Keeps(u, w)
    BY KeepsBoth DEF Sees
  <1>2. ASSUME NEW p \in Live(w) \ Live(u)
        PROVE  OnHost(w.ino[p])
    <2>1. CASE p \in Live(v)
      <3>1. OnHost(v.ino[p]) /\ Same(v.ino[p], w.ino[p])
        BY <2>1 DEF Sees, Keeps
      <3> QED  BY <3>1 DEF OnHost, Same
    <2>2. CASE p \notin Live(v)
      BY <2>2 DEF Sees
    <2> QED  BY <2>1, <2>2
  <1> QED  BY <1>1, <1>2 DEF Sees

LEMMA LooksPasses ==
    ASSUME NEW u, NEW v, Looks(u, v)
    PROVE  Passes(u, v)
  BY KeepsDrifts DEF Looks, Sees, Passes

LEMMA LooksBoth ==
    ASSUME NEW u, NEW v, NEW w, Tree(u), Tree(v), Tree(w), Looks(u, v), Looks(v, w)
    PROVE  Looks(u, w)
  <1>1. Sees(u, w)
    BY SeesBoth DEF Looks
  <1>2. Carries(u, w)
    BY KeepsDrifts, CarriesBoth DEF Looks, Sees
  <1> QED  BY <1>1, <1>2 DEF Looks

\* A change that leaves every a_inode in its place leaves a tree.
LEMMA Rewritten ==
    ASSUME NEW u, NEW v, Tree(u), v \in Units, Live(v) = Live(u), v.a_uniq = u.a_uniq,
           \A q \in Live(u) : /\ Placed(u.ino[q], v.ino[q])
                              /\ NoDup(v.ino[q].kids) /\ ToSet(v.ino[q].kids) = Children(u, q)
    PROVE  Tree(v)
  <1>1. \A q \in Live(u) : q # Root => Under(v, q)
    <2> SUFFICES ASSUME NEW q \in Live(u), q # Root
                 PROVE  Under(v, q)
      OBVIOUS
    <2>1. Under(u, q) /\ Placed(u.ino[q], v.ino[q])
      BY DEF Tree
    <2>2. u.ino[q].parent \in Live(u) /\ Placed(u.ino[u.ino[q].parent], v.ino[u.ino[q].parent])
      BY <2>1 DEF Under
    <2> QED  BY Zenon, <2>1, <2>2 DEF Under, Placed
  <1>2. \A q : Children(v, q) = Children(u, q)
    BY DEF Children, Placed
  <1>3. Root \in Live(u) /\ v.ino[Root].parent = None /\ v.ino[Root].nname = <<>> /\ v.ino[Root].dir
    BY DEF Tree, Placed
  <1>4. \A q \in Live(u) : v.ino[q].uniq = u.ino[q].uniq
    BY DEF Placed
  <1>5. \A p, q \in Live(u) : u.ino[p].uniq = u.ino[q].uniq => p = q
    BY DEF Tree
  <1> QED  BY SMTT(30), <1>1, <1>2, <1>3, <1>4, <1>5 DEF Tree

\* The children of a_inodes that are not scanned in another order.
Stirs(u, v) ==
    /\ Live(v) = Live(u) /\ v.chain = u.chain /\ v.cache = u.cache
    /\ v.a_uniq = u.a_uniq /\ v.wild = u.wild
    /\ \A q \in Live(u) : Same(u.ino[q], v.ino[q])
Reorders(u, v) ==
    Stirs(u, v) /\ v.total = u.total /\ \A q \in Live(u) : SameMarks(u.ino[q], v.ino[q])

LEMMA StirsSees ==
    ASSUME NEW u, NEW v, Tree(u), Tree(v), Stirs(u, v), NEW x, Cached(u, x)
    PROVE  Sees(u, v) /\ Cached(v, x)
  <1>1. u.a_uniq \in Nat
    BY Parts DEF Tree
  <1>2. Keeps(u, v)
    BY <1>1 DEF Keeps, Stirs
  <1>3. Distinct(u) => Distinct(v)
    <2>1. \A q \in Live(u) : v.ino[q].nname = u.ino[q].nname
      BY DEF Stirs, Same
    <2> QED  BY <2>1 DEF Distinct, Stirs
  <1>4. Idle(v) = Idle(u)
    BY DEF Idle, Stirs, Same, Busy
  <1> QED  BY <1>2, <1>3, <1>4 DEF Sees, Cached, Stirs

LEMMA ReordersLooks ==
    ASSUME NEW u, NEW v, Tree(u), Tree(v), Reorders(u, v), NEW x, Cached(u, x)
    PROVE  Looks(u, v) /\ Cached(v, x)
  <1>1. Sees(u, v) /\ Cached(v, x)
    BY StirsSees DEF Reorders
  <1>2. Carries(u, v)
    BY MarksCarry DEF Reorders, Stirs
  <1> QED  BY <1>1, <1>2 DEF Looks

LEMMA KidsReplaced ==
    ASSUME NEW u, NEW d, NEW s \in Seq(Nat), Tree(u), d \in Live(u), NoDup(s), ToSet(s) = Children(u, d),
           ~(u.ino[d].locked > 0), Children(u, d) # {}
    PROVE  LET v == [u EXCEPT !.ino[d].kids = s]
           IN  Tree(v) /\ Reorders(u, v)
  <1> DEFINE f == [u.ino EXCEPT ![d] = [u.ino[d] EXCEPT !.kids = s]]
             v == [u EXCEPT !.ino = f]
  <1>1. u \in Units /\ Live(u) \in SUBSET Nat /\ u.ino \in [Live(u) -> Nodes] /\ u.ino[d] \in Nodes
    BY Parts DEF Tree
  <1>2. LET m == [u.ino[d] EXCEPT !.kids = s]
        IN  /\ m \in Nodes /\ m.kids = s /\ Same(u.ino[d], m) /\ m.locked = u.ino[d].locked
            /\ m.exnext = u.ino[d].exnext
    BY <1>1, WithKids
  <1>3. /\ f \in [Live(u) -> Nodes]
        /\ \A q \in Live(u) : /\ Same(u.ino[q], f[q]) /\ f[q].locked = u.ino[q].locked
                              /\ f[q].exnext = u.ino[q].exnext
                              /\ f[q].kids = IF q = d THEN s ELSE u.ino[q].kids
    BY <1>1, <1>2, SameIs
  <1>4. [u EXCEPT !.ino[d].kids = s] = v
    OBVIOUS
  <1> HIDE DEF f
  <1>5. /\ v \in Units /\ v.ino = f /\ Live(v) = Live(u) /\ v.chain = u.chain /\ v.cache = u.cache
        /\ v.total = u.total /\ v.a_uniq = u.a_uniq /\ v.wild = u.wild
    BY ZenonT(60), <1>1, <1>3, WithIno
  <1> HIDE DEF v
  <1>6. Reorders(u, v)
    <2>1. u.ino[d].kids # <<>>
      BY NoElements DEF Tree
    <2>2. \A q \in Live(u) : SameMarks(u.ino[q], v.ino[q])
      BY <1>3, <1>5, <2>1 DEF SameMarks
    <2> QED  BY <1>3, <1>5, <2>2 DEF Reorders, Stirs
  <1>7. \A q \in Live(u) : NoDup(u.ino[q].kids) /\ ToSet(u.ino[q].kids) = Children(u, q)
    BY DEF Tree
  <1>8. \A q \in Live(u) : /\ Placed(u.ino[q], v.ino[q])
                           /\ NoDup(v.ino[q].kids) /\ ToSet(v.ino[q].kids) = Children(u, q)
    BY <1>3, <1>5, <1>7 DEF Placed, Same
  <1>9. Tree(v)
    BY <1>5, <1>8, Rewritten
  <1> QED  BY <1>4, <1>6, <1>9

LEMMA Front1Is ==
    ASSUME NEW v, v \in [u : Units, p : Nat], Tree(v.u), v.p \in Live(v.u)
    PROVE  LET w == Front1(v)
           IN  w \in [u : Units, p : Nat] /\ Tree(w.u) /\ w.p \in Live(w.u) /\ Reorders(v.u, w.u)
  <1> DEFINE d == v.u.ino[v.p].parent
             s == <<v.p>> \o Without(v.u.ino[d].kids, {v.p})
             x == [v.u EXCEPT !.ino[d].kids = s]
             y == IF v.u.ino[d].locked > 0 THEN v.u ELSE x
  <1>0. Reorders(v.u, v.u)
    BY SameIs DEF Reorders, Stirs, SameMarks
  <1>1. CASE v.p = Root
    BY <1>0, <1>1 DEF Front1
  <1>2. CASE v.p # Root
    <2>1. d \in Live(v.u) /\ d \in Nat /\ v.u.ino[d].kids \in Seq(Nat) /\ v.p \in Nat
          /\ v.u \in Units /\ Live(v.u) \subseteq Nat
      BY <1>2, Parts, Fields DEF Tree, Under
    <2>2. NoDup(v.u.ino[d].kids) /\ ToSet(v.u.ino[d].kids) = Children(v.u, d) /\ v.p \in Children(v.u, d)
      BY SMTT(30), <2>1 DEF Tree, Children
    <2>3. s \in Seq(Nat) /\ NoDup(s) /\ ToSet(s) = Children(v.u, d)
      <3> DEFINE o == Without(v.u.ino[d].kids, {v.p})
      <3>1. o \in Seq(Nat) /\ ToSet(o) = ToSet(v.u.ino[d].kids) \ {v.p} /\ NoDup(o)
        BY Zenon, <2>1, <2>2, Removed
      <3> HIDE DEF o
      <3> DEFINE e == v.p
      <3>2. e \in Nat /\ e \notin ToSet(o)
        BY SMTT(30), <2>1, <3>1
      <3> HIDE DEF e
      <3>3. PICK t \in Seq(Nat), f \in Nat : t = o /\ f = e
        BY <3>1, <3>2
      <3>4. f \notin ToSet(t)
        BY <3>2, <3>3
      <3>5. <<f>> \o t \in Seq(Nat) /\ ToSet(<<f>> \o t) = ToSet(t) \cup {f} /\ (NoDup(t) => NoDup(<<f>> \o t))
        BY ONLY <3>4, AtFront, t \in Seq(Nat), f \in Nat
      <3> QED  BY ZenonT(60), <2>2, <3>1, <3>3, <3>5 DEF o, e
    <2>4. Front1(v) = [u |-> y, p |-> d]
      BY <1>2 DEF Front1
    <2> HIDE DEF d, s
    <2>5. ~(v.u.ino[d].locked > 0) => Tree(x) /\ Reorders(v.u, x)
      BY <2>1, <2>2, <2>3, KidsReplaced
    <2> HIDE DEF x
    <2>6. Tree(y) /\ Reorders(v.u, y)
      BY <1>0, <2>5
    <2> HIDE DEF y
    <2>7. y \in Units /\ d \in Live(y)
      BY <2>1, <2>6 DEF Tree, Reorders, Stirs
    <2> QED  BY <2>1, <2>4, <2>6, <2>7
  <1> QED  BY <1>1, <1>2

----------------------------------------------------------------------------
\* lookup_sub leaves the tree as it is but for the order of children.
LEMMA ReordersBoth ==
    ASSUME NEW u, NEW v, NEW w, Reorders(u, v), Reorders(v, w)
    PROVE  Reorders(u, w)
  <1>1. Stirs(u, w) /\ w.total = u.total
    BY SameIs DEF Reorders, Stirs
  <1>2. \A q \in Live(u) : SameMarks(u.ino[q], w.ino[q])
    <2> SUFFICES ASSUME NEW q \in Live(u)
                 PROVE  SameMarks(u.ino[q], w.ino[q])
      OBVIOUS
    <2>1. SameMarks(u.ino[q], v.ino[q]) /\ SameMarks(v.ino[q], w.ino[q])
      BY DEF Reorders, Stirs
    <2> QED  BY <2>1 DEF SameMarks
  <1> QED  BY <1>1, <1>2 DEF Reorders

LEMMA ReordersSelf ==
    ASSUME NEW u
    PROVE  Reorders(u, u)
  BY SameIs DEF Reorders, Stirs, SameMarks

(* lookup_sub, level by level. *)
LEMMA FrontFolds ==
    ASSUME NEW u, NEW p, NEW D, u.a_uniq \in Nat, [u |-> u, p |-> p] \in D, \A v \in D : Front1(v) \in D
    PROVE  \E v \in D : ToFront(u, p) = v.u
  <1> DEFINE n == u.a_uniq
             v0 == [u |-> u, p |-> p]
             g == [y \in D \X (1 .. n) |-> Front1(y[1])]
             Folds(f) == f = [i \in 0 .. Len(Upto(n)) |-> IF i = 0 THEN v0 ELSE Front1(f[i - 1])]
             f == CHOOSE f : Folds(f)
  <1>1. n \in Nat /\ Len(Upto(n)) = n /\ v0 \in D
    <2> HIDE DEF n
    <2>1. n \in Nat
      BY DEF n
    <2> QED  BY <2>1, NumbersUpto
  <1>2. v0 = [u |-> u, p |-> p] /\ n = u.a_uniq
    OBVIOUS
  <1> HIDE DEF v0, n
  <1>3. g \in [D \X (1 .. n) -> D] /\ \A v \in D, i \in 1 .. n : g[<<v, i>>] = Front1(v)
    OBVIOUS
  <1>4. \E e : Folds(e)
    <2>1. PICK e : Iterates(e, D, v0, n, g)
      <3> HIDE DEF g
      <3>1. \A k \in Nat : k <= n => \E e : Iterates(e, D, v0, k, g)
        BY <1>1, <1>3, Iterated
      <3>2. n <= n
        BY <1>1
      <3> QED  BY <1>1, <3>1, <3>2
    <2> HIDE DEF g
    <2>2. e \in [0 .. n -> D] /\ e[0] = v0 /\ \A i \in 1 .. n : e[i] = Front1(e[i - 1])
      <3>1. e \in [0 .. n -> D] /\ e[0] = v0 /\ \A i \in 1 .. n : e[i] = g[<<e[i - 1], i>>]
        BY <2>1 DEF Iterates
      <3>2. \A i \in 1 .. n : i - 1 \in 0 .. n
        BY <1>1
      <3> QED  BY <1>3, <3>1, <3>2
    <2>3. \A i \in 0 .. n : e[i] = IF i = 0 THEN v0 ELSE Front1(e[i - 1])
      BY <1>1, <2>2
    <2> QED  BY <1>1, <2>2, <2>3
  <1>5. Folds(f)
    BY <1>4
  <1>6. ToFront(u, p) = f[n].u
    BY <1>1 DEF ToFront, Fold, v0, n
  <1> HIDE DEF f
  <1>7. f[0] = v0 /\ \A i \in 1 .. n : f[i] = Front1(f[i - 1])
    BY <1>1, <1>5
  <1>8. \A i \in 0 .. n : f[i] \in D
    BY <1>1, <1>7, Reaches
  <1> QED  BY <1>1, <1>6, <1>8

LEMMA ToFrontIs ==
    ASSUME NEW u, NEW p, Tree(u), p \in Live(u)
    PROVE  Tree(ToFront(u, p)) /\ Reorders(u, ToFront(u, p))
  <1> DEFINE v0 == [u |-> u, p |-> p]
             R == [u : Units, p : Nat]
             D == {v \in R : Tree(v.u) /\ v.p \in Live(v.u) /\ Reorders(u, v.u)}
  <1>1. v0 \in D /\ u.a_uniq \in Nat
    <2>1. u \in Units /\ p \in Nat /\ Reorders(u, u) /\ u.a_uniq \in Nat
      BY Parts, ReordersSelf DEF Tree
    <2> QED  BY <2>1
  <1>2. \A v \in D : Front1(v) \in D
    <2> SUFFICES ASSUME NEW v \in D
                 PROVE  Front1(v) \in D
      OBVIOUS
    <2>1. LET w == Front1(v)
          IN  w \in R /\ Tree(w.u) /\ w.p \in Live(w.u) /\ Reorders(v.u, w.u)
      BY Front1Is
    <2>2. Reorders(u, Front1(v).u)
      BY <2>1, ReordersBoth
    <2> QED  BY <2>1, <2>2
  <1> HIDE DEF D
  <1>3. PICK v \in D : ToFront(u, p) = v.u
    BY <1>1, <1>2, FrontFolds
  <1> QED  BY <1>3 DEF D

LEMMA NodeOfIs ==
    ASSUME NEW u, NEW q, Tree(u)
    PROVE  /\ NodeOf(u, q) = None \/ (NodeOf(u, q) \in Live(u) /\ u.ino[NodeOf(u, q)].uniq = q)
           /\ \A p \in Live(u) : u.ino[p].uniq = q => NodeOf(u, q) = p
           /\ None \notin Live(u)
  <1>1. HasUniq(u, q) = {} \/ NodeOf(u, q) \in HasUniq(u, q)
    BY DEF NodeOf
  <1>2. HasUniq(u, q) = {} => NodeOf(u, q) = None
    BY DEF NodeOf
  <1>3. \A p \in Live(u) : u.ino[p].uniq = q => p \in HasUniq(u, q)
    BY DEF HasUniq
  <1>4. None \notin Live(u)
    BY Parts DEF Tree, None
  <1>5. \A x, y \in HasUniq(u, q) : x = y
    BY DEF Tree, HasUniq
  <1>6. \A p \in HasUniq(u, q) : p \in Live(u) /\ u.ino[p].uniq = q
    BY DEF HasUniq
  <1> QED  BY <1>1, <1>2, <1>3, <1>4, <1>5, <1>6

LEMMA LookupIs ==
    ASSUME NEW u, NEW q, NEW hit, Tree(u), Cached(u, None)
    PROVE  LET r == lookup_aino(u, q, hit)
           IN  /\ Tree(r.u) /\ Cached(r.u, None) /\ Looks(u, r.u) /\ Reorders(u, r.u)
               /\ r.node = NodeOf(u, q)
               /\ r.node = None \/ (r.node \in Live(r.u) /\ r.u.ino[r.node].uniq = q)
  <1> DEFINE p == NodeOf(u, q)
             v == IF hit \/ p = None THEN u ELSE ToFront(u, p)
  <1>1. p = None \/ (p \in Live(u) /\ u.ino[p].uniq = q)
    BY NodeOfIs
  <1>2. Tree(v) /\ Reorders(u, v)
    <2>1. Reorders(u, u)
      BY ReordersSelf
    <2>2. CASE hit \/ p = None
      BY <2>1, <2>2
    <2>3. CASE ~(hit \/ p = None)
      BY <1>1, <2>3, ToFrontIs
    <2> QED  BY <2>2, <2>3
  <1>3. lookup_aino(u, q, hit) = [node |-> p, u |-> v]
    BY DEF lookup_aino
  <1> HIDE DEF p, v
  <1>4. Looks(u, v) /\ Cached(v, None)
    BY <1>2, ReordersLooks
  <1>5. p = None \/ (p \in Live(v) /\ v.ino[p].uniq = q)
    BY <1>1, <1>2 DEF Reorders, Stirs, Same
  <1> QED  BY <1>2, <1>3, <1>4, <1>5 DEF p

----------------------------------------------------------------------------
LEMMA LastIs ==
    ASSUME NEW S, NEW s \in Seq(S), NEW t \in Seq(S), NEW x \in S, NEW y \in S
    PROVE  /\ Append(s, x) # <<>> /\ Append(s, x) \in Seq(S)
           /\ Append(s, x) = Append(t, y) => s = t /\ x = y
  <1>1. Len(s) \in Nat /\ Len(t) \in Nat
    BY LenProperties
  <1>2. /\ Append(s, x) \in Seq(S) /\ Len(Append(s, x)) = Len(s) + 1
        /\ \A i \in 1 .. Len(s) : Append(s, x)[i] = s[i]
        /\ Append(s, x)[Len(s) + 1] = x
    BY AppendProperties
  <1>3. /\ Len(Append(t, y)) = Len(t) + 1
        /\ \A i \in 1 .. Len(t) : Append(t, y)[i] = t[i]
        /\ Append(t, y)[Len(t) + 1] = y
    BY AppendProperties
  <1>4. Append(s, x) # <<>>
    BY <1>1, <1>2, EmptySeq
  <1>5. ASSUME Append(s, x) = Append(t, y)
        PROVE  s = t /\ x = y
    <2>1. Len(s) = Len(t)
      BY <1>1, <1>2, <1>3, <1>5
    <2>2. \A i \in 1 .. Len(s) : s[i] = t[i]
      BY <1>2, <1>3, <1>5, <2>1
    <2>3. s = t
      BY <2>1, <2>2, SeqEqual
    <2> QED  BY <1>2, <1>3, <1>5, <2>1, <2>3
  <1> QED  BY <1>2, <1>4, <1>5

LEMMA NamesEnd ==
    \A path, other \in Seq(Components), last, end \in Components :
        Append(path, last) # <<>> /\ (Append(path, last) = Append(other, end) => path = other /\ last = end)
  BY LastIs

\* A child is known by its name.
LEMMA ChildByName ==
    ASSUME NEW u, NEW base, NEW name \in Names, NEW q \in Live(u), Tree(u), base \in Live(u),
           Plain, \A d \in Live(u) : u.ino[d].nname = u.ino[base].nname => d = base,
           u.ino[q].nname = Append(u.ino[base].nname, name)
    PROVE  ChildNamed(u, base, name) # {}
  <1> DEFINE s == u.ino[base].nname
             kids == u.ino[base].kids
             d == u.ino[q].parent
             x == u.ino[q].name
  <1>0. u \in Units /\ s \in Seq(Components) /\ kids \in Seq(Nat)
    BY Parts, Fields DEF Tree
  <1>1. q # Root
    <2>1. u.ino[Root].nname = <<>>
      BY DEF Tree
    <2>2. Append(s, name) # <<>>
      <3> HIDE DEF s
      <3>1. name \in Components
        BY DEF Components
      <3> QED  BY <1>0, <3>1, NamesEnd
    <2> QED  BY <2>1, <2>2
  <1>2. d \in Live(u) /\ x \in Names /\ u.ino[q].nname = Append(u.ino[d].nname, x)
    BY ZenonT(60), <1>1 DEF Tree, Under
  <1>3. u.ino[d].nname = s /\ x = name
    <2>1. u.ino[d].nname \in Seq(Components)
      BY Zenon, <1>0, <1>2, Parts, Fields
    <2>2. x \in Components /\ name \in Components
      BY ZenonT(60), <1>2 DEF Components
    <2>3. Append(u.ino[d].nname, x) = Append(s, name)
      BY Zenon, <1>2
    <2>4. PICK path \in Seq(Components), last \in Components : path = u.ino[d].nname /\ last = x
      BY <2>1, <2>2
    <2>5. PICK other \in Seq(Components), end \in Components : other = s /\ end = name
      BY SMTT(30), <1>0, <2>2
    <2>6. Append(path, last) = Append(other, end)
      BY Zenon, <2>3, <2>4, <2>5
    <2>7. path = other /\ last = end
      BY ONLY <2>6, NamesEnd, path \in Seq(Components), last \in Components,
              other \in Seq(Components), end \in Components
    <2> QED  BY <2>4, <2>5, <2>7
  <1>4. d = base
    BY <1>2, <1>3
  <1>5. q \in ToSet(kids)
    BY <1>4 DEF Tree, Children
  <1>6. PICK i \in 1 .. Len(kids) : kids[i] = q
    <2> HIDE DEF kids
    <2>1. DOMAIN kids = 1 .. Len(kids)
      BY <1>0, Elements
    <2> QED  BY <1>5, <2>1 DEF ToSet
  <1> QED  BY <1>3, <1>6 DEF ChildNamed

\* A new a_inode has a name of its own when no other child of its parent has it.
LEMMA NewIsDistinct ==
    ASSUME NEW u, NEW base, NEW name \in Names, NEW v, NEW p, Tree(u), base \in Live(u),
           ChildNamed(u, base, name) = {}, Plain, Distinct(u),
           Live(v) \subseteq Live(u) \cup {p}, \A q \in Live(u) \cap Live(v) : Same(u.ino[q], v.ino[q]),
           v.ino[p].nname = Append(u.ino[base].nname, name)
    PROVE  Distinct(v)
  <1>2. ASSUME NEW q \in Live(u)
        PROVE  u.ino[q].nname # Append(u.ino[base].nname, name)
    BY ChildByName DEF Distinct
  <1>3. \A q \in Live(v) : q # p => q \in Live(u) /\ v.ino[q].nname = u.ino[q].nname
    BY DEF Same
  <1> QED  BY <1>2, <1>3 DEF Distinct

\* The root alone has the empty name.
LEMMA RootAlone ==
    ASSUME NEW u, NEW d \in Live(u), Tree(u), Plain, u.ino[d].nname = <<>>
    PROVE  d = Root
  <1> SUFFICES ASSUME d # Root
               PROVE  FALSE
    OBVIOUS
  <1> DEFINE s == u.ino[u.ino[d].parent].nname
             x == u.ino[d].name
  <1>1. u.ino[d].parent \in Live(u) /\ x \in Names /\ u.ino[d].nname = Append(s, x)
    BY ZenonT(60) DEF Tree, Under
  <1>2. s \in Seq(Components) /\ x \in Components
    BY <1>1, Parts, Fields DEF Tree, Components
  <1> HIDE DEF s, x
  <1>3. Append(s, x) # <<>>
    BY <1>2, NamesEnd
  <1> QED  BY <1>1, <1>3

LEMMA NewIsApart ==
    ASSUME NEW u, NEW name \in Names, NEW v, NEW p, Tree(u),
           ChildNamed(u, Root, name) = {}, Plain, p \notin Live(u),
           Live(v) \subseteq Live(u) \cup {p}, \A q \in Live(u) \cap Live(v) : Same(u.ino[q], v.ino[q]),
           v.ino[p].nname = Append(u.ino[Root].nname, name)
    PROVE  Apart(u, v)
  <1>1. Root \in Live(u) /\ u.ino[Root].nname = <<>>
    BY DEF Tree
  <1>2. ASSUME NEW q \in Live(u)
        PROVE  u.ino[q].nname # Append(u.ino[Root].nname, name)
    <2>1. \A d \in Live(u) : u.ino[d].nname = u.ino[Root].nname => d = Root
      BY <1>1, RootAlone
    <2> QED  BY <1>1, <2>1, ChildByName
  <1>3. \A q \in Live(v) : q # p => q \in Live(u) /\ v.ino[q].nname = u.ino[q].nname
    BY DEF Same
  <1> QED  BY <1>2, <1>3 DEF Apart

Answers == [u : Units, node : Nat \cup {None}, err : {"ok", "wrong type", "not around"}]

\* What a lookup that started in u has found.
Found(u, r) ==
    /\ r \in Answers /\ Tree(r.u) /\ Cached(r.u, None) /\ Looks(u, r.u)
    /\ r.node # None => r.node \in Live(r.u)
    /\ r.err = "ok" => r.node # None
    /\ r.node # None /\ r.u.ino[r.node].dir => Live(u) \subseteq Live(r.u)
NamedSo(r, name) == r.u.ino[r.node].name = name /\ r.node # Root
IsDir(u, p) == u.ino[p].dir
Missing(r, name) ==
    /\ r.u.ino[r.node].dir /\ ChildNamed(r.u, r.node, name) = {}
    /\ Append(r.u.ino[r.node].nname, name) \notin DOMAIN host

LEMMA LookupChildIs ==
    ASSUME NEW u, NEW base, NEW name \in Names, Tree(u), Cached(u, None), base \in Live(u)
    PROVE  LET r == lookup_child_aino(u, base, name)
           IN  /\ Found(u, r)
               /\ r.err = "ok" => NamedSo(r, name)
               /\ r.err = "not around" /\ r.node # None => Missing(r, name)
               /\ r.err = "wrong type" => r.node = None
               /\ r.node # None => IsDir(u, base)
  <1> DEFINE found == ChildNamed(u, base, name)
             kids == u.ino[base].kids
             path == Append(u.ino[base].nname, name)
             r == lookup_child_aino(u, base, name)
  <1>1. u \in Units /\ Live(u) \subseteq Nat /\ base \in Nat /\ kids \in Seq(Nat) /\ None \notin Nat
    <2>1. u \in Units
      BY DEF Tree
    <2>2. u.ino[base] \in Nodes /\ Live(u) \subseteq Nat
      BY <2>1, Parts
    <2>3. kids \in Seq(Nat)
      BY <2>2, Fields
    <2> QED  BY <2>1, <2>2, <2>3 DEF None
  <1>2. Looks(u, u)
    BY <1>1, LooksSelf
  <1>3. CASE ~u.ino[base].dir
    <2>1. r = [u |-> u, node |-> None, err |-> "wrong type"]
      BY <1>3 DEF lookup_child_aino
    <2> HIDE DEF r
    <2>2. r.u = u /\ r.node = None /\ r.err = "wrong type"
      BY <2>1
    <2>3. r \in Answers
      BY <1>1, <2>1 DEF Answers
    <2> QED  BY <1>1, <1>2, <2>2, <2>3 DEF Found, r
  <1>4. CASE u.ino[base].dir /\ found # {}
    <2> DEFINE c == kids[Min(found)]
    <2>1. r = [u |-> u, node |-> c, err |-> "ok"]
      BY <1>4 DEF lookup_child_aino
    <2>2. Min(found) \in found
      <3>1. found \subseteq Nat
        BY DEF ChildNamed
      <3> HIDE DEF found
      <3> QED  BY <1>4, <3>1, LowestIs
    <2>3. c \in ToSet(kids) /\ u.ino[c].name = name
      <3>1. Min(found) \in 1 .. Len(kids) /\ u.ino[kids[Min(found)]].name = name
        BY Zenon, <2>2 DEF ChildNamed
      <3> QED  BY SMTT(30), <1>1, <3>1, Elements
    <2>4. c \in Live(u) /\ u.ino[c].parent = base
      BY <2>3 DEF Tree, Children
    <2>5. c # Root
      BY <1>1, <2>4 DEF Tree
    <2> HIDE DEF c
    <2> QED  BY <1>1, <1>2, <1>4, <2>1, <2>3, <2>4, <2>5 DEF Found, Answers, NamedSo, IsDir
  <1>5. CASE u.ino[base].dir /\ found = {} /\ path \in DOMAIN host
    <2> DEFINE p == u.a_uniq + 1
               dir == host[path] = "dir"
               v == init_child_aino(u, base, name, dir)
               n == Node(base, name, path, p, dir)
    <2>1. r = [u |-> v, node |-> p, err |-> "ok"]
      BY <1>5 DEF lookup_child_aino
    <2>2. dir \in BOOLEAN
      OBVIOUS
    <2>3. /\ Tree(v) /\ Cached(v, None) /\ Keeps(u, v) /\ Carries(u, v)
          /\ Live(v) \subseteq Live(u) \cup {p} /\ v.a_uniq = p /\ p \in Live(v) /\ p # Root
          /\ Same(n, v.ino[p])
          /\ dir => Live(v) = Live(u) \cup {p}
      <3> HIDE DEF dir
      <3> QED  BY SMTT(30), <1>5, <2>2, ChildIs
    <2>4. v \in Units /\ p \in Nat
      BY ZenonT(60), <1>1, <2>3, Parts DEF Tree
    <2>5. v.ino[p].parent = base /\ v.ino[p].name = name /\ v.ino[p].nname = path /\ v.ino[p].dir = dir
      BY ZenonT(60), <2>3 DEF Same, Node
    <2>6. Looks(u, v)
      <3>1. Plain /\ Distinct(u) => Distinct(v)
        <4>1. \A q \in Live(u) \cap Live(v) : Same(u.ino[q], v.ino[q])
          BY ZenonT(60), <2>3 DEF Keeps
        <4>2. v.ino[p].nname = Append(u.ino[base].nname, name) /\ found = {}
          BY ZenonT(60), <1>5, <2>5
        <4> HIDE DEF p, v
        <4> QED  BY SMTT(30), <1>5, <2>3, <4>1, <4>2, NewIsDistinct
      <3>2. OnHost(v.ino[p])
        BY ZenonT(60), <1>5, <2>5 DEF OnHost
      <3>3. Live(v) \ Live(u) \subseteq {p}
        BY <2>3
      <3> QED  BY Zenon, <2>3, <3>1, <3>2, <3>3 DEF Looks, Sees
    <2> HIDE DEF v, p
    <2>7. r \in Answers
      BY <2>1, <2>4 DEF Answers
    <2>8. p # None
      BY <1>1, <2>4
    <2> HIDE DEF dir
    <2> QED  BY <1>5, <2>1, <2>3, <2>5, <2>6, <2>7, <2>8 DEF Found, NamedSo, IsDir
  <1>6. CASE u.ino[base].dir /\ found = {} /\ path \notin DOMAIN host
    <2>1. r = [u |-> u, node |-> base, err |-> "not around"]
      BY <1>6 DEF lookup_child_aino
    <2> HIDE DEF r
    <2>2. r.u = u /\ r.node = base /\ r.err = "not around"
      BY <2>1
    <2>3. r \in Answers
      BY <1>1, <2>1 DEF Answers
    <2>4. Missing(r, name)
      BY <1>6, <2>2 DEF Missing
    <2> QED  BY <1>1, <1>2, <1>6, <2>2, <2>3, <2>4 DEF Found, IsDir, r
  <1> QED  BY <1>3, <1>4, <1>5, <1>6

----------------------------------------------------------------------------
LEMMA FoundBoth ==
    ASSUME NEW u, NEW v, NEW r, Tree(u), Tree(v), Looks(u, v), Found(v, r),
           r.node # None => Live(u) \subseteq Live(v)
    PROVE  Found(u, r)
  <1>1. Looks(u, r.u)
    BY LooksBoth DEF Found
  <1> QED  BY <1>1 DEF Found

LEMMA DownIs ==
    ASSUME NEW u, NEW a, NEW name \in Names, Tree(u), Found(u, a)
    PROVE  LET x == Down(a, name)
           IN  /\ Found(u, x)
               /\ x.err = "ok" => NamedSo(x, name)
               /\ x.err = "not around" /\ x.node # None => Missing(x, name)
  <1> DEFINE x == Down(a, name)
  <1>1. a \in Answers /\ Tree(a.u) /\ Cached(a.u, None) /\ Looks(u, a.u)
    BY DEF Found
  <1>2. CASE a.err = "ok"
    <2>1. x = lookup_child_aino(a.u, a.node, name)
      BY <1>2 DEF Down
    <2>2. a.node \in Live(a.u)
      BY <1>2 DEF Found
    <2> DEFINE y == lookup_child_aino(a.u, a.node, name)
    <2>3. /\ Found(a.u, y)
          /\ y.err = "ok" => NamedSo(y, name)
          /\ y.err = "not around" /\ y.node # None => Missing(y, name)
          /\ y.node # None => IsDir(a.u, a.node)
      <3> DEFINE v == a.u
                 d == a.node
      <3>1. Tree(v) /\ Cached(v, None) /\ d \in Live(v) /\ y = lookup_child_aino(v, d, name)
        BY <1>1, <2>2
      <3> HIDE DEF v, d, y
      <3>2. /\ Found(v, y)
            /\ y.err = "ok" => NamedSo(y, name)
            /\ y.err = "not around" /\ y.node # None => Missing(y, name)
            /\ y.node # None => IsDir(v, d)
        BY <3>1, LookupChildIs
      <3> QED  BY <3>2 DEF v, d
    <2> HIDE DEF y
    <2>4. y.node # None => Live(u) \subseteq Live(a.u)
      BY <1>2, <2>3 DEF Found, IsDir
    <2>5. Found(u, y)
      BY <1>1, <2>3, <2>4, FoundBoth
    <2> QED  BY <2>1, <2>3, <2>5 DEF y
  <1>3. CASE a.err # "ok"
    <2>1. x = [a EXCEPT !.node = None]
      BY <1>3 DEF Down
    <2>2. a.u \in Units /\ a.err \in {"ok", "wrong type", "not around"}
      BY <1>1 DEF Answers
    <2> HIDE DEF x
    <2>3. x.u = a.u /\ x.node = None /\ x.err = a.err /\ x \in Answers
      BY <1>1, <2>1 DEF Answers
    <2> QED  BY <1>1, <1>3, <2>3 DEF Found, x
  <1> QED  BY <1>2, <1>3

(* get_aino, name by name. *)
LEMMA GetFolds ==
    ASSUME NEW u, NEW base, NEW rel \in Seq(Names), NEW D, [u |-> u, node |-> base, err |-> "ok"] \in D,
           \A v \in D, x \in Names : Down(v, x) \in D
    PROVE  /\ get_aino(u, base, rel) \in D
           /\ rel # <<>> => \E v \in D : get_aino(u, base, rel) = Down(v, Last(rel))
  <1> DEFINE n == Len(rel)
             v0 == [u |-> u, node |-> base, err |-> "ok"]
             g == [y \in D \X (1 .. n) |-> Down(y[1], rel[y[2]])]
             Folds(f) == f = [i \in 0 .. n |-> IF i = 0 THEN v0 ELSE Down(f[i - 1], rel[i])]
             f == CHOOSE f : Folds(f)
  <1>1. n \in Nat /\ v0 \in D /\ \A i \in 1 .. n : rel[i] \in Names
    BY Elements
  <1>2. v0 = [u |-> u, node |-> base, err |-> "ok"]
    OBVIOUS
  <1> HIDE DEF v0, n
  <1>3. g \in [D \X (1 .. n) -> D] /\ \A v \in D, i \in 1 .. n : g[<<v, i>>] = Down(v, rel[i])
    BY <1>1
  <1>4. \E e : Folds(e)
    <2>1. PICK e : Iterates(e, D, v0, n, g)
      <3> HIDE DEF g
      <3>1. \A k \in Nat : k <= n => \E e : Iterates(e, D, v0, k, g)
        BY <1>1, <1>3, Iterated
      <3>2. n <= n
        BY <1>1
      <3> QED  BY <1>1, <3>1, <3>2
    <2> HIDE DEF g
    <2>2. e \in [0 .. n -> D] /\ e[0] = v0 /\ \A i \in 1 .. n : e[i] = Down(e[i - 1], rel[i])
      <3>1. e \in [0 .. n -> D] /\ e[0] = v0 /\ \A i \in 1 .. n : e[i] = g[<<e[i - 1], i>>]
        BY <2>1 DEF Iterates
      <3>2. \A i \in 1 .. n : i - 1 \in 0 .. n
        BY <1>1
      <3> QED  BY <1>3, <3>1, <3>2
    <2>3. \A i \in 0 .. n : e[i] = IF i = 0 THEN v0 ELSE Down(e[i - 1], rel[i])
      BY <1>1, <2>2
    <2> QED  BY <1>1, <2>2, <2>3
  <1>5. Folds(f)
    BY <1>4
  <1>6. get_aino(u, base, rel) = f[n]
    BY <1>1 DEF get_aino, Fold, v0, n
  <1> HIDE DEF f
  <1>7. f[0] = v0 /\ \A i \in 1 .. n : f[i] = Down(f[i - 1], rel[i])
    BY <1>1, <1>5
  <1>8. \A i \in 0 .. n : f[i] \in D
    BY <1>1, <1>7, Reaches
  <1>9. ASSUME rel # <<>>
        PROVE  \E v \in D : f[n] = Down(v, Last(rel))
    <2>1. n \in 1 .. n /\ Last(rel) = rel[n] /\ n - 1 \in 0 .. n
      <3>1. n # 0
        BY <1>9, Elements DEF n
      <3> QED  BY <1>1, <3>1 DEF Last, n
    <2> QED  BY <1>7, <1>8, <2>1
  <1> QED  BY <1>1, <1>6, <1>8, <1>9

LEMMA GetIs ==
    ASSUME NEW u, NEW base, NEW rel \in Seq(Names), Tree(u), Cached(u, None), base \in Live(u)
    PROVE  LET r == get_aino(u, base, rel)
           IN  /\ Found(u, r)
               /\ rel # <<>> =>
                    /\ r.err = "ok" => NamedSo(r, Last(rel))
                    /\ r.err = "not around" /\ r.node # None => Missing(r, Last(rel))
  <1> DEFINE v0 == [u |-> u, node |-> base, err |-> "ok"]
             D == {r \in Answers : Found(u, r)}
             r == get_aino(u, base, rel)
  <1>1. v0 \in D
    <2>1. u \in Units /\ base \in Nat /\ Live(u) \subseteq Nat /\ Looks(u, u)
      BY Parts, LooksSelf DEF Tree
    <2>2. v0 \in Answers
      BY <2>1 DEF Answers
    <2>3. v0.u = u /\ v0.node = base /\ v0.err = "ok"
      OBVIOUS
    <2> HIDE DEF v0
    <2>4. Found(u, v0)
      BY <2>1, <2>2, <2>3 DEF Found, None
    <2> QED  BY <2>2, <2>4
  <1>2. \A v \in D, x \in Names : Down(v, x) \in D
    <2> SUFFICES ASSUME NEW v \in D, NEW x \in Names
                 PROVE  Down(v, x) \in D
      OBVIOUS
    <2>1. Found(u, Down(v, x))
      BY DownIs
    <2> QED  BY <2>1 DEF Found
  <1>3. \A v \in D : Found(u, v)
    OBVIOUS
  <1> HIDE DEF D
  <1>4. r \in D /\ (rel # <<>> => \E v \in D : r = Down(v, Last(rel)))
    BY <1>1, <1>2, GetFolds
  <1>5. ASSUME rel # <<>>
        PROVE  /\ r.err = "ok" => NamedSo(r, Last(rel))
               /\ r.err = "not around" /\ r.node # None => Missing(r, Last(rel))
    <2>1. Last(rel) \in Names
      <3>1. Len(rel) \in 1 .. Len(rel)
        BY <1>5, Elements
      <3> QED  BY <3>1, Elements DEF Last
    <2>2. PICK v \in D : r = Down(v, Last(rel))
      BY <1>4, <1>5
    <2>3. Found(u, v)
      BY <1>3
    <2> HIDE DEF r
    <2> QED  BY <2>1, <2>2, <2>3, DownIs
  <1> QED  BY <1>3, <1>4, <1>5

LEMMA FindIs ==
    ASSUME NEW u, NEW q, NEW rel \in Seq(Names), NEW hit, Tree(u), Cached(u, None), rel # <<>>
    PROVE  LET r == find_aino(u, q, rel, hit)
           IN  /\ Found(u, r)
               /\ r.err = "ok" => NamedSo(r, Last(rel))
               /\ r.err = "not around" /\ r.node # None => Missing(r, Last(rel))
  <1> DEFINE b == lookup_aino(u, q, hit)
             d == IF b.node = None THEN Root ELSE b.node
             r == get_aino(b.u, d, rel)
  <1>1. Tree(b.u) /\ Cached(b.u, None) /\ Looks(u, b.u) /\ Reorders(u, b.u) /\ (b.node = None \/ b.node \in Live(b.u))
    BY LookupIs
  <1>2. find_aino(u, q, rel, hit) = r
    BY DEF find_aino
  <1> HIDE DEF b
  <1>3. d \in Live(b.u)
    BY <1>1 DEF Tree
  <1> HIDE DEF d
  <1>4. /\ Found(b.u, r)
        /\ r.err = "ok" => NamedSo(r, Last(rel))
        /\ r.err = "not around" /\ r.node # None => Missing(r, Last(rel))
    BY <1>1, <1>3, GetIs
  <1> HIDE DEF r
  <1>5. Live(u) \subseteq Live(b.u)
    BY <1>1 DEF Reorders, Stirs
  <1>6. Found(u, r)
    BY <1>1, <1>4, <1>5, FoundBoth
  <1> QED  BY <1>2, <1>4, <1>6

\* Looking up in the root.
LEMMA TopsBoth ==
    ASSUME NEW u, NEW v, NEW w, Keeps(v, w), Tops(u, v), Tops(v, w)
    PROVE  Tops(u, w)
  <1> SUFFICES ASSUME NEW p \in Live(w), p \notin Live(u)
               PROVE  /\ w.ino[p].parent = Root
                      /\ Plain => \A q \in Live(w) : w.ino[p].nname = w.ino[q].nname => p = q
    BY DEF Tops, Apart
  <1>1. CASE p \in Live(v)
    <2>1. Same(v.ino[p], w.ino[p]) /\ v.ino[p].parent = Root
      BY <1>1 DEF Keeps, Tops
    <2>2. ASSUME Plain, NEW q \in Live(w), w.ino[p].nname = w.ino[q].nname
          PROVE  p = q
      <3>1. CASE q \in Live(v)
        <4>1. Same(v.ino[q], w.ino[q])
          BY <3>1 DEF Keeps
        <4>2. v.ino[p].nname = v.ino[q].nname
          BY <2>1, <2>2, <4>1 DEF Same
        <4> QED  BY <1>1, <2>2, <3>1, <4>2 DEF Tops, Apart
      <3>2. CASE q \notin Live(v)
        BY <2>2, <3>2 DEF Tops, Apart
      <3> QED  BY <3>1, <3>2
    <2> QED  BY <2>1, <2>2 DEF Same
  <1>2. CASE p \notin Live(v)
    BY <1>2 DEF Tops, Apart
  <1> QED  BY <1>1, <1>2

LEMMA GetTop ==
    ASSUME NEW u, NEW rel \in Seq(Names), Len(rel) = 1, Tree(u), Cached(u, None)
    PROVE  Tops(u, get_aino(u, Root, rel).u)
  <1> DEFINE v0 == [u |-> u, node |-> Root, err |-> "ok"]
             Folds(f) == f = [i \in 0 .. 1 |-> IF i = 0 THEN v0 ELSE Down(f[i - 1], rel[i])]
             f == CHOOSE f : Folds(f)
             e == [i \in 0 .. 1 |-> IF i = 0 THEN v0 ELSE Down(v0, rel[1])]
             name == rel[1]
             r == lookup_child_aino(u, Root, name)
  <1>1. Folds(e)
    <2> HIDE DEF v0
    <2>1. e[0] = v0 /\ e[1] = Down(v0, rel[1])
      OBVIOUS
    <2> HIDE DEF e
    <2>2. \A i \in 0 .. 1 : (IF i = 0 THEN v0 ELSE Down(v0, rel[1])) = (IF i = 0 THEN v0 ELSE Down(e[i - 1], rel[i]))
      BY <2>1
    <2> QED  BY <2>2 DEF e
  <1>2. Folds(f)
    BY <1>1
  <1>3. get_aino(u, Root, rel) = f[1]
    BY DEF get_aino, Fold
  <1> HIDE DEF f
  <1>4. f[1] = Down(v0, name)
    <2> HIDE DEF v0
    <2>1. f[0] = v0 /\ f[1] = Down(f[0], rel[1])
      BY <1>2
    <2> QED  BY <2>1
  <1>5. Down(v0, name) = r
    BY DEF Down
  <1>6. name \in Names /\ Root \in Live(u)
    BY SMTT(30), Elements DEF Tree
  <1>7. CASE r.u = u
    BY <1>3, <1>4, <1>5, <1>7 DEF Tops, Apart
  <1> DEFINE path == Append(u.ino[Root].nname, name)
             dir == host[path] = "dir"
             v == init_child_aino(u, Root, name, dir)
             p == u.a_uniq + 1
  <1>8. r.u = u \/ (r.u = v /\ u.ino[Root].dir /\ ChildNamed(u, Root, name) = {})
    BY DEF lookup_child_aino
  <1>9. CASE r.u = v /\ u.ino[Root].dir /\ ChildNamed(u, Root, name) = {}
    <2>1. dir \in BOOLEAN
      OBVIOUS
    <2>2. /\ Live(v) \subseteq Live(u) \cup {p} /\ Same(Node(Root, name, path, p, dir), v.ino[p])
          /\ Keeps(u, v)
      <3> HIDE DEF dir
      <3> QED  BY SMTT(30), <1>6, <1>9, <2>1, ChildIs
    <2>3. v.ino[p].parent = Root /\ v.ino[p].nname = Append(u.ino[Root].nname, name)
      BY Zenon, <2>2 DEF Same, Node
    <2>5. p \notin Live(u)
      BY SMTT(30), Parts DEF Tree
    <2> HIDE DEF v, p, r
    <2>6. Plain => Apart(u, v)
      <3>1. \A q \in Live(u) \cap Live(v) : Same(u.ino[q], v.ino[q])
        BY Zenon, <2>2 DEF Keeps
      <3> QED  BY <1>6, <1>9, <2>2, <2>3, <2>5, <3>1, NewIsApart
    <2>4. Tops(u, v)
      BY <2>2, <2>3, <2>6 DEF Tops
    <2> QED  BY <1>3, <1>4, <1>5, <1>9, <2>4
  <1> QED  BY <1>7, <1>8, <1>9

(* notify_check, watch by watch. *)
LEMMA NotifyFolds ==
    ASSUME NEW u, NEW p, NEW D, u \in D,
           \A v \in D, rel \in Seq(Names) :
              rel # <<>> /\ (Shallow => Len(rel) = 1) => get_aino(v, Root, rel).u \in D
    PROVE  notify_check(u, p) \in D
  <1> DEFINE n == Len(Watched)
             names == {u.ino[p].name} \cup IF p = Root THEN {} ELSE {u.ino[u.ino[p].parent].name}
             step(v, w) == IF Last(w) \in names THEN get_aino(v, Root, w).u ELSE v
             v0 == u
             g == [y \in D \X (1 .. n) |-> step(y[1], Watched[y[2]])]
             Folds(f) == f = [i \in 0 .. n |-> IF i = 0 THEN v0 ELSE step(f[i - 1], Watched[i])]
             f == CHOOSE f : Folds(f)
  <1>1. n \in Nat /\ v0 \in D
    BY TreeAssumption, Elements
  <1>2. \A i \in 1 .. n : Watched[i] \in Seq(Names) \ {<<>>} /\ (Shallow => Len(Watched[i]) = 1)
    BY TreeAssumption, Elements DEF Shallow
  <1> HIDE DEF v0, n, names
  <1>3. g \in [D \X (1 .. n) -> D] /\ \A v \in D, i \in 1 .. n : g[<<v, i>>] = step(v, Watched[i])
    BY <1>2
  <1> HIDE DEF step
  <1>4. \E e : Folds(e)
    <2>1. PICK e : Iterates(e, D, v0, n, g)
      <3> HIDE DEF g
      <3>1. \A k \in Nat : k <= n => \E e : Iterates(e, D, v0, k, g)
        BY <1>1, <1>3, Iterated
      <3>2. n <= n
        BY <1>1
      <3> QED  BY <1>1, <3>1, <3>2
    <2> HIDE DEF g
    <2>2. e \in [0 .. n -> D] /\ e[0] = v0 /\ \A i \in 1 .. n : e[i] = step(e[i - 1], Watched[i])
      <3>1. e \in [0 .. n -> D] /\ e[0] = v0 /\ \A i \in 1 .. n : e[i] = g[<<e[i - 1], i>>]
        BY <2>1 DEF Iterates
      <3>2. \A i \in 1 .. n : i - 1 \in 0 .. n
        BY <1>1
      <3> QED  BY <1>3, <3>1, <3>2
    <2>3. \A i \in 0 .. n : e[i] = IF i = 0 THEN v0 ELSE step(e[i - 1], Watched[i])
      BY <1>1, <2>2
    <2> QED  BY <1>1, <2>2, <2>3
  <1>5. Folds(f)
    BY <1>4
  <1>6. notify_check(u, p) = f[n]
    BY <1>1 DEF notify_check, Fold, v0, n, step, names
  <1> HIDE DEF f
  <1>7. f[0] = v0 /\ \A i \in 1 .. n : f[i] = step(f[i - 1], Watched[i])
    BY <1>1, <1>5
  <1>8. \A i \in 1 .. n : f[i - 1] \in D => f[i] \in D
    BY <1>2, <1>7 DEF step
  <1>9. \A i \in 0 .. n : f[i] \in D
    BY <1>1, <1>7, <1>8, Reaches
  <1> QED  BY <1>1, <1>6, <1>9

LEMMA NotifyIs ==
    ASSUME NEW u, NEW p, Tree(u), Cached(u, None)
    PROVE  LET v == notify_check(u, p)
           IN  Tree(v) /\ Cached(v, None) /\ Looks(u, v) /\ (Shallow => Tops(u, v))
  <1> DEFINE D == {v \in Units : Tree(v) /\ Cached(v, None) /\ Looks(u, v) /\ (Shallow => Tops(u, v))}
  <1>1. u \in D
    BY LooksSelf DEF Tree, Tops, Apart
  <1>2. ASSUME NEW v \in D, NEW rel \in Seq(Names), rel # <<>>, Shallow => Len(rel) = 1
        PROVE  get_aino(v, Root, rel).u \in D
    <2> DEFINE w == get_aino(v, Root, rel).u
    <2>1. Tree(w) /\ Cached(w, None) /\ Looks(v, w)
      <3>1. Root \in Live(v)
        BY DEF Tree
      <3> QED  BY <3>1, GetIs DEF Found
    <2>2. Shallow => Tops(v, w)
      BY <1>2, GetTop
    <2> HIDE DEF w
    <2>3. Shallow => Tops(u, w)
      BY <2>1, <2>2, TopsBoth DEF Looks, Sees
    <2>4. Looks(u, w) /\ w \in Units
      BY <2>1, LooksBoth DEF Tree
    <2>5. w \in D
      BY <2>1, <2>3, <2>4
    <2> QED  BY <2>5 DEF w
  <1>3. \A v \in D : Tree(v) /\ Cached(v, None) /\ Looks(u, v) /\ (Shallow => Tops(u, v))
    OBVIOUS
  <1> HIDE DEF D
  <1>4. notify_check(u, p) \in D
    BY <1>1, <1>2, NotifyFolds
  <1> QED  BY <1>3, <1>4

LEMMA NothingWatched ==
    ASSUME Watched = <<>>, NEW u, NEW p
    PROVE  notify_check(u, p) = u
  <1> DEFINE n == Len(Watched)
             names == {u.ino[p].name} \cup IF p = Root THEN {} ELSE {u.ino[u.ino[p].parent].name}
             step(v, w) == IF Last(w) \in names THEN get_aino(v, Root, w).u ELSE v
             Folds(f) == f = [i \in 0 .. n |-> IF i = 0 THEN u ELSE step(f[i - 1], Watched[i])]
             f == CHOOSE f : Folds(f)
  <1>1. n = 0
    BY NoElements
  <1>2. notify_check(u, p) = f[n]
    BY Zenon DEF notify_check, Fold
  <1> HIDE DEF n, step
  <1>3. \A i \in 0 .. n : i = 0
    BY <1>1
  <1>4. Folds([i \in 0 .. n |-> u])
    BY <1>3
  <1>5. Folds(f)
    BY Zenon, <1>4
  <1> HIDE DEF f
  <1>6. f[0] = u
    BY <1>1, <1>5
  <1> QED  BY <1>1, <1>2, <1>6

----------------------------------------------------------------------------
(* What becomes of one a_inode. *)
WithMark(u, p, m, t) == [u EXCEPT !.ino = [u.ino EXCEPT ![p] = m], !.total = t]
ChangedAt(u, v, p, m) ==
    /\ v \in Units /\ Live(v) = Live(u) /\ v.ino[p] = m
    /\ \A q \in Live(u) : q # p => v.ino[q] = u.ino[q]
    /\ v.chain = u.chain /\ v.cache = u.cache /\ v.a_uniq = u.a_uniq /\ v.wild = u.wild

LEMMA NodeChanged ==
    ASSUME NEW u, NEW p, NEW m \in Nodes, NEW t \in Int, Tree(u), p \in Live(u),
           Placed(u.ino[p], m), m.kids = u.ino[p].kids
    PROVE  LET v == WithMark(u, p, m, t)
           IN  Tree(v) /\ ChangedAt(u, v, p, m) /\ v.total = t
  <1> DEFINE f == [u.ino EXCEPT ![p] = m]
             w == [u EXCEPT !.ino = f]
             v == [w EXCEPT !.total = t]
  <1>1. u \in Units /\ Live(u) \in SUBSET Nat /\ u.ino \in [Live(u) -> Nodes]
    BY Parts DEF Tree
  <1>2. f \in [Live(u) -> Nodes] /\ f[p] = m /\ \A q \in Live(u) : q # p => f[q] = u.ino[q]
    BY <1>1
  <1>3. WithMark(u, p, m, t) = v
    BY DEF WithMark
  <1> HIDE DEF f
  <1>4. /\ w \in Units /\ w.ino = f /\ Live(w) = Live(u) /\ w.chain = u.chain /\ w.cache = u.cache
        /\ w.total = u.total /\ w.a_uniq = u.a_uniq /\ w.wild = u.wild
    BY <1>1, <1>2, WithIno
  <1> HIDE DEF w
  <1>5. v \in Units
    BY <1>4 DEF Units
  <1>6. /\ v.ino = w.ino /\ v.chain = w.chain /\ v.cache = w.cache /\ v.total = t
        /\ v.a_uniq = w.a_uniq /\ v.wild = w.wild
    BY <1>4 DEF Units
  <1> HIDE DEF v
  <1>7. Live(v) = Live(u)
    BY <1>4, <1>6 DEF Live
  <1>8. ChangedAt(u, v, p, m)
    BY <1>2, <1>4, <1>5, <1>6, <1>7 DEF ChangedAt
  <1>9. \A q \in Live(u) : NoDup(u.ino[q].kids) /\ ToSet(u.ino[q].kids) = Children(u, q)
    BY DEF Tree
  <1>10. \A q \in Live(u) : /\ Placed(u.ino[q], v.ino[q])
                            /\ NoDup(v.ino[q].kids) /\ ToSet(v.ino[q].kids) = Children(u, q)
    <2> SUFFICES ASSUME NEW q \in Live(u)
                 PROVE  Placed(u.ino[q], v.ino[q]) /\ v.ino[q].kids = u.ino[q].kids
      BY <1>9
    <2>1. CASE q = p
      BY <1>8, <2>1 DEF ChangedAt
    <2>2. CASE q # p
      BY <1>8, <2>2 DEF ChangedAt, Placed
    <2> QED  BY <2>1, <2>2
  <1>11. Tree(v)
    BY <1>5, <1>7, <1>8, <1>10, Rewritten DEF ChangedAt
  <1> QED  BY <1>3, <1>6, <1>8, <1>11

\* Another count of scans of the a_inode d or of its children locked in memory.
Remarks(u, v, d) ==
    /\ Tree(v) /\ Cached(v, None) /\ Sees(u, v) /\ Live(v) = Live(u) /\ v.a_uniq = u.a_uniq
    /\ \A q \in Live(u) : q # d => v.ino[q] = u.ino[q]
    /\ v.ino[d].kids = u.ino[d].kids /\ v.total - u.total = v.ino[d].locked - u.ino[d].locked
Counts(u, p, m, t) == t - u.total = m.locked - u.ino[p].locked
LEMMA MarkedIs ==
    ASSUME NEW u, NEW p, NEW m \in Nodes, NEW t \in Int, Tree(u), p \in Live(u), Cached(u, None),
           Same(u.ino[p], m), m.kids = u.ino[p].kids, Counts(u, p, m, t)
    PROVE  Remarks(u, WithMark(u, p, m, t), p) /\ WithMark(u, p, m, t).ino[p] = m
  <1> DEFINE v == WithMark(u, p, m, t)
  <1>1. Tree(v) /\ ChangedAt(u, v, p, m) /\ v.total = t
    BY Zenon, NodeChanged DEF Placed, Same
  <1> HIDE DEF v
  <1>3. Stirs(u, v)
    <2>1. \A q \in Live(u) : Same(u.ino[q], v.ino[q])
      BY <1>1, SameIs DEF ChangedAt
    <2> QED  BY <1>1, <2>1 DEF Stirs, ChangedAt
  <1>4. Sees(u, v) /\ Cached(v, None)
    BY <1>1, <1>3, StirsSees
  <1> QED  BY SMTT(30), <1>1, <1>4 DEF v, ChangedAt, Remarks, Counts

----------------------------------------------------------------------------
(* ExNext. *)
LEMMA InodeIs ==
    ASSUME NEW u, NEW p, Tree(u), p \in Live(u)
    PROVE  /\ u \in Units /\ u.ino \in [Live(u) -> Nodes] /\ u.total \in Int /\ p \in Nat
           /\ u.ino[p] \in Nodes /\ u.ino[p].exnext \in Int /\ u.ino[p].locked \in Int
           /\ u.ino[p].shlock \in Int /\ u.ino[p].elock \in BOOLEAN /\ u.ino[p].kids \in Seq(Nat)
           /\ u.ino[p].uniq \in Nat /\ u.ino[p].dir \in BOOLEAN
  <1>1. u \in Units
    BY DEF Tree
  <1>2. /\ u.ino \in [Live(u) -> Nodes] /\ u.total \in Int /\ Live(u) \subseteq Nat
        /\ u.ino[p] \in Nodes
    BY <1>1, Parts
  <1> DEFINE n == u.ino[p]
  <1>3. n \in Nodes
    BY <1>2
  <1> HIDE DEF n
  <1>4. /\ n.uniq \in Nat /\ n.dir \in BOOLEAN /\ n.shlock \in Int /\ n.elock \in BOOLEAN
        /\ n.exnext \in Int /\ n.locked \in Int /\ n.kids \in Seq(Nat)
    BY <1>3, Fields
  <1> QED  BY <1>1, <1>2, <1>4 DEF n

LEMMA WithMarks ==
    ASSUME NEW n \in Nodes, NEW e \in Int, NEW l \in Int, NEW m,
           \/ m = [n EXCEPT !.exnext = e, !.locked = l]
           \/ m = [n EXCEPT !.exnext = e]
           \/ m = [n EXCEPT !.locked = l]
    PROVE  m \in Nodes /\ Same(n, m) /\ m.kids = n.kids
  <1>1. CASE m = [n EXCEPT !.exnext = e, !.locked = l]
    BY <1>1 DEF Nodes, Same
  <1>2. CASE m = [n EXCEPT !.exnext = e]
    BY <1>2 DEF Nodes, Same
  <1>3. CASE m = [n EXCEPT !.locked = l]
    BY <1>3 DEF Nodes, Same
  <1> QED  BY <1>1, <1>2, <1>3

LEMMA FreeExkeyIs ==
    ASSUME NEW u, NEW d, Tree(u), Cached(u, None), d \in Live(u)
    PROVE  LET v == free_exkey(u, d)
           IN  /\ Remarks(u, v, d) /\ v.ino[d].exnext = u.ino[d].exnext - 1
               /\ v.ino[d].locked = IF u.ino[d].exnext = 1 THEN 0 ELSE u.ino[d].locked
  <1>0. PICK n : n = u.ino[d]
    OBVIOUS
  <1> DEFINE a == [n EXCEPT !.exnext = 0, !.locked = 0]
             b == [n EXCEPT !.exnext = n.exnext - 1]
             s == u.total - n.locked
             t == u.total
  <1>1. /\ u \in Units /\ n \in Nodes /\ n.exnext \in Int /\ n.locked \in Int
        /\ s \in Int /\ t \in Int /\ u.ino \in [Live(u) -> Nodes]
    BY <1>0, InodeIs
  <1>9. a.exnext = 0 /\ a.locked = 0 /\ b.exnext = n.exnext - 1 /\ b.locked = n.locked
    BY <1>1 DEF Nodes
  <1>10. Counts(u, d, a, s) /\ Counts(u, d, b, t)
    <2>1. s - u.total = a.locked - n.locked /\ t - u.total = b.locked - n.locked
      BY <1>0, <1>1, <1>9, InodeIs
    <2> QED  BY <1>0, <2>1 DEF Counts
  <1>2. a \in Nodes /\ Same(n, a) /\ a.kids = n.kids
    <2>1. 0 \in Int /\ a = [n EXCEPT !.exnext = 0, !.locked = 0]
      OBVIOUS
    <2> HIDE DEF a
    <2> QED  BY <1>1, <2>1, WithMarks
  <1>3. b \in Nodes /\ Same(n, b) /\ b.kids = n.kids
    <2> DEFINE e == n.exnext - 1
    <2>1. e \in Int /\ b = [n EXCEPT !.exnext = e]
      BY <1>1
    <2> HIDE DEF b, e
    <2> QED  BY <1>1, <2>1, WithMarks
  <1>4. free_exkey(u, d) = IF n.exnext = 1 THEN [u EXCEPT !.ino = [u.ino EXCEPT ![d] = a], !.total = s]
                           ELSE [u EXCEPT !.ino = [u.ino EXCEPT ![d] = b], !.total = t]
    <2>1. CASE n.exnext = 1
      <3>1. free_exkey(u, d) = [u EXCEPT !.total = s, !.ino[d].exnext = 0, !.ino[d].locked = 0]
        BY <1>0, <2>1 DEF free_exkey
      <3>2. [u EXCEPT !.total = s, !.ino[d].exnext = 0, !.ino[d].locked = 0]
              = [u EXCEPT !.ino = [u.ino EXCEPT ![d] = a], !.total = s]
        BY <1>0, <1>1 DEF Units
      <3> QED  BY <2>1, <3>1, <3>2
    <2>2. CASE n.exnext # 1
      <3>1. free_exkey(u, d) = [u EXCEPT !.ino[d].exnext = n.exnext - 1]
        BY <1>0, <2>2 DEF free_exkey
      <3>2. [u EXCEPT !.ino[d].exnext = n.exnext - 1] = [u EXCEPT !.ino = [u.ino EXCEPT ![d] = b], !.total = t]
        BY <1>0, <1>1 DEF Units
      <3> QED  BY <2>2, <3>1, <3>2
    <2> QED  BY <2>1, <2>2
  <1> HIDE DEF a, b, s, t
  <1> DEFINE x == WithMark(u, d, a, s)
             y == WithMark(u, d, b, t)
  <1>6. Remarks(u, x, d) /\ x.ino[d] = a
    BY <1>0, <1>1, <1>2, <1>10, MarkedIs
  <1>7. Remarks(u, y, d) /\ y.ino[d] = b
    BY <1>0, <1>1, <1>3, <1>10, MarkedIs
  <1>8. free_exkey(u, d) = IF n.exnext = 1 THEN x ELSE y
    BY <1>4 DEF WithMark
  <1> HIDE DEF x, y
  <1> QED  BY <1>0, <1>1, <1>6, <1>7, <1>8, <1>9

LEMMA AgainIs ==
    ASSUME NEW u, NEW d, Tree(u), Cached(u, None), d \in Live(u)
    PROVE  LET v == [u EXCEPT !.ino[d].exnext = @ + 1]
           IN  /\ Remarks(u, v, d) /\ v.ino[d].exnext = u.ino[d].exnext + 1
               /\ v.ino[d].locked = u.ino[d].locked /\ v.total = u.total
  <1>0. PICK n : n = u.ino[d]
    OBVIOUS
  <1> DEFINE a == [n EXCEPT !.exnext = n.exnext + 1]
             t == u.total
             v == WithMark(u, d, a, t)
  <1>1. /\ u \in Units /\ n \in Nodes /\ n.exnext \in Int /\ t \in Int /\ u.ino \in [Live(u) -> Nodes]
    BY <1>0, InodeIs
  <1>2. a \in Nodes /\ Same(n, a) /\ a.kids = n.kids
    <2> DEFINE e == n.exnext + 1
    <2>1. e \in Int /\ a = [n EXCEPT !.exnext = e]
      BY <1>1
    <2> HIDE DEF a, e
    <2> QED  BY <1>1, <2>1, WithMarks
  <1>3. [u EXCEPT !.ino[d].exnext = @ + 1] = v /\ v.total = u.total
    BY <1>0, <1>1 DEF Units, WithMark
  <1>4. a.exnext = n.exnext + 1 /\ a.locked = n.locked /\ n.locked \in Int
    BY <1>0, <1>1, InodeIs DEF Nodes
  <1>6. Counts(u, d, a, t)
    BY <1>0, <1>1, <1>4 DEF Counts
  <1> HIDE DEF a, t
  <1>5. Remarks(u, v, d) /\ v.ino[d] = a
    BY <1>0, <1>1, <1>2, <1>6, MarkedIs
  <1> QED  BY <1>0, <1>3, <1>4, <1>5

LEMMA HeldIs ==
    ASSUME NEW u, NEW d, Tree(u), Cached(u, None), d \in Live(u), NEW old \in Int
    PROVE  LET v == [u EXCEPT !.ino[d].locked = @ + old, !.total = @ + old]
           IN  /\ Remarks(u, v, d) /\ v.ino[d].exnext = u.ino[d].exnext
               /\ v.ino[d].locked = u.ino[d].locked + old
  <1>0. PICK n : n = u.ino[d]
    OBVIOUS
  <1> DEFINE a == [n EXCEPT !.locked = n.locked + old]
             t == u.total + old
             v == WithMark(u, d, a, t)
  <1>1. /\ u \in Units /\ n \in Nodes /\ n.locked \in Int /\ t \in Int /\ u.ino \in [Live(u) -> Nodes]
        /\ u.total \in Int
    BY <1>0, InodeIs
  <1>2. a \in Nodes /\ Same(n, a) /\ a.kids = n.kids
    <2> DEFINE e == n.locked + old
    <2>1. e \in Int /\ a = [n EXCEPT !.locked = e]
      BY <1>1
    <2> HIDE DEF a, e
    <2> QED  BY <1>1, <2>1, WithMarks
  <1>3. [u EXCEPT !.ino[d].locked = @ + old, !.total = @ + old] = v
    BY <1>0, <1>1 DEF Units, WithMark
  <1>4. a.exnext = n.exnext /\ a.locked = n.locked + old
    BY <1>1 DEF Nodes
  <1>6. Counts(u, d, a, t)
    BY <1>0, <1>1, <1>4 DEF Counts
  <1> HIDE DEF a, t
  <1>5. Remarks(u, v, d) /\ v.ino[d] = a
    BY <1>0, <1>1, <1>2, <1>6, MarkedIs
  <1> QED  BY <1>0, <1>3, <1>4, <1>5

----------------------------------------------------------------------------
(* The entries of a directory. *)
Named(u, d, x) == \E c \in Children(u, d) : u.ino[c].name = x
Scanned(u, d) == Marks(u) /\ d \in Live(u) /\ u.ino[d].dir /\ u.ino[d].exnext > 0

\* Those of a directory with loops stay when names are looked up.
LEMMA KidsStay ==
    ASSUME NEW v, NEW w, NEW d, Tree(v), Tree(w), Looks(v, w), Scanned(v, d)
    PROVE  Scanned(w, d) /\ Children(v, d) \subseteq Children(w, d) /\ \A x : Named(v, d, x) => Named(w, d, x)
  <1>1. d \in Live(w) /\ Same(v.ino[d], w.ino[d]) /\ Marks(w) /\ Follows(v.ino[d], w.ino[d])
    BY DEF Scanned, Looks, Sees, Keeps, Carries
  <1>2. Scanned(w, d)
    BY <1>1 DEF Scanned, Same, Follows
  <1>3. ToSet(v.ino[d].kids) \subseteq ToSet(w.ino[d].kids)
    BY <1>1 DEF Scanned, Follows, Grown
  <1>4. Children(v, d) \subseteq Children(w, d)
    BY <1>1, <1>3 DEF Tree, Scanned
  <1>5. \A c \in Children(v, d) : w.ino[c].name = v.ino[c].name
    BY <1>4 DEF Children, Looks, Sees, Keeps, Same
  <1> QED  BY <1>2, <1>4, <1>5 DEF Named

LEMMA ForExnextIs ==
    ASSUME NEW v, NEW d, NEW name \in Names, Tree(v), Cached(v, None), d \in Live(v), v.ino[d].dir,
           Append(v.ino[d].nname, name) \in DOMAIN host
    PROVE  LET w == lookup_child_aino_for_exnext(v, d, name)
           IN  Tree(w) /\ Cached(w, None) /\ Looks(v, w) /\ (Plain => Named(w, d, name))
  <1> DEFINE path == Append(v.ino[d].nname, name)
             dir == host[path] = "dir"
             p == v.a_uniq + 1
             n == Node(d, name, path, p, dir)
             there == \E c \in ToSet(v.ino[d].kids) : v.ino[c].nname = path
             w == init_child_aino(v, d, name, dir)
  <1>1. lookup_child_aino_for_exnext(v, d, name) = IF there THEN v ELSE w
    BY DEF lookup_child_aino_for_exnext
  <1>2. CASE there
    <2>1. Looks(v, v)
      BY LooksSelf DEF Tree
    <2>2. PICK c \in ToSet(v.ino[d].kids) : v.ino[c].nname = path
      BY <1>2
    <2>3. c \in Live(v) /\ v.ino[c].parent = d
      BY <2>2 DEF Tree, Children
    <2>4. c # Root
      BY <2>3, InodeIs DEF Tree, None
    <2>5. Plain => v.ino[c].name = name
      <3> SUFFICES ASSUME Plain
                   PROVE  v.ino[c].name = name
        OBVIOUS
      <3>1. v.ino[c].name \in Names /\ path = Append(v.ino[d].nname, v.ino[c].name)
        BY <2>2, <2>3, <2>4 DEF Tree, Under
      <3>2. v.ino[d].nname \in Seq(Components)
        BY InodeIs, Fields
      <3>3. PICK s \in Seq(Components), x \in Components, y \in Components :
               s = v.ino[d].nname /\ x = v.ino[c].name /\ y = name
        BY <3>1, <3>2 DEF Components
      <3>4. Append(s, x) = Append(s, y)
        BY <3>1, <3>3
      <3>5. x = y
        BY ONLY <3>4, NamesEnd, s \in Seq(Components), x \in Components, y \in Components
      <3> QED  BY <3>3, <3>5
    <2>6. Plain => Named(v, d, name)
      BY <2>3, <2>5 DEF Named, Children
    <2> QED  BY <1>1, <1>2, <2>1, <2>6
  <1>3. CASE ~there
    <2>1. dir \in BOOLEAN
      OBVIOUS
    <2>2. /\ Tree(w) /\ Cached(w, None) /\ Keeps(v, w) /\ Carries(v, w)
          /\ Live(w) \subseteq Live(v) \cup {p} /\ p \in Live(w) /\ Same(n, w.ino[p])
      <3> HIDE DEF dir
      <3> QED  BY SMTT(30), <2>1, ChildIs
    <2>3. w.ino[p].nname = path /\ w.ino[p].dir = dir /\ w.ino[p].parent = d /\ w.ino[p].name = name
      BY Zenon, <2>2 DEF Same, Node
    <2>4. Plain => ChildNamed(v, d, name) = {}
      <3> SUFFICES ASSUME Plain, NEW i \in ChildNamed(v, d, name)
                   PROVE  FALSE
        OBVIOUS
      <3> DEFINE c == v.ino[d].kids[i]
      <3>1. i \in 1 .. Len(v.ino[d].kids) /\ v.ino[c].name = name
        BY DEF ChildNamed
      <3>2. v.ino[d].kids \in Seq(Nat)
        BY InodeIs
      <3>3. c \in ToSet(v.ino[d].kids)
        BY <3>1, <3>2, Elements
      <3> HIDE DEF c
      <3>4. c \in Live(v) /\ v.ino[c].parent = d
        BY <3>3 DEF Tree, Children
      <3>5. c # Root
        BY <3>4, InodeIs DEF Tree, None
      <3>6. Under(v, c)
        BY <3>4, <3>5 DEF Tree
      <3>7. v.ino[c].nname = path
        BY <3>1, <3>4, <3>6 DEF Under
      <3> QED  BY <1>3, <3>3, <3>7
    <2>5. Plain /\ Distinct(v) => Distinct(w)
      <3>1. w.ino[p].nname = Append(v.ino[d].nname, name)
        BY ZenonT(60), <2>3
      <3> HIDE DEF p, w
      <3>2. \A q \in Live(v) \cap Live(w) : Same(v.ino[q], w.ino[q])
        BY ONLY <2>2 DEF Keeps
      <3> QED  BY SMTT(30), <2>2, <2>4, <3>1, <3>2, NewIsDistinct
    <2>6. OnHost(w.ino[p])
      BY Zenon, <2>3 DEF OnHost
    <2>7. Live(w) \ Live(v) \subseteq {p}
      BY <2>2
    <2> HIDE DEF w
    <2>8. Looks(v, w)
      BY <2>2, <2>5, <2>6, <2>7 DEF Looks, Sees
    <2>9. Named(w, d, name)
      BY <2>2, <2>3 DEF Named, Children
    <2> QED  BY <1>1, <1>3, <2>2, <2>8, <2>9
  <1> QED  BY <1>2, <1>3

(* populate_directory, entry by entry: u with the children it had counted, then w when every name
   of the host has been looked up. *)
HeldAll(u, d) ==
    [u EXCEPT !.ino[d].locked = @ + Len(u.ino[d].kids), !.total = @ + Len(u.ino[d].kids)]
Listed(u, d) == {x \in Names : Exists(Append(u.ino[d].nname, x))}
PopulatesBy(f, list, n, u, d, w) ==
    /\ f[0] = HeldAll(u, d) /\ f[n] = w
    /\ \A i \in 1 .. n : list[i] \in Listed(u, d) /\ f[i] = lookup_child_aino_for_exnext(f[i - 1], d, list[i])
    /\ \A x \in Listed(u, d) : \E i \in 1 .. n : list[i] = x
LEMMA PopulateFolds ==
    ASSUME NEW u, NEW d, NEW w \in populate_directory(u, d), NEW D, HeldAll(u, d) \in D,
           \A v \in D, x \in Listed(u, d) : lookup_child_aino_for_exnext(v, d, x) \in D
    PROVE  /\ w \in D
           /\ \E n \in Nat : \E f, list : PopulatesBy(f, list, n, u, d, w) /\ \A i \in 0 .. n : f[i] \in D
  <1> DEFINE S == Listed(u, d)
             v0 == HeldAll(u, d)
             step(v, x) == lookup_child_aino_for_exnext(v, d, x)
  <1>0. PICK list \in Listings(u.ino[d]) : w = Fold(LAMBDA v, x : step(v, x), v0, list)
    BY DEF populate_directory, HeldAll
  <1>1. PICK n \in Nat : /\ list \in [1 .. n -> S] /\ Len(list) = n /\ v0 \in D
                         /\ \A x \in S : \E i \in 1 .. n : list[i] = x
    <2>1. IsFiniteSet(S)
      BY TreeAssumption, FS_Subset DEF Listed
    <2>2. Cardinality(S) \in Nat
      BY <2>1, FS_CardinalityType
    <2>3. list \in [1 .. Cardinality(S) -> S]
          /\ \A i, j \in 1 .. Cardinality(S) : i # j => list[i] # list[j]
      BY Zenon DEF Listings, SetToSeqs, Listed
    <2> HIDE DEF S, v0
    <2>4. list \in Injection(1 .. Cardinality(S), S)
      BY <2>3 DEF Injection, IsInjective
    <2>5. Cardinality(1 .. Cardinality(S)) = Cardinality(S)
      BY <2>2, FS_Interval
    <2>6. list \in Surjection(1 .. Cardinality(S), S)
      BY <2>1, <2>4, <2>5, FS_Injection
    <2>7. \A x \in S : \E i \in 1 .. Cardinality(S) : list[i] = x
      BY <2>6 DEF Surjection
    <2>8. Len(list) = Cardinality(S)
      <3>1. list \in UNION {[1 .. k -> S] : k \in Nat}
        BY <2>2, <2>3
      <3>2. list \in Seq(S)
        BY <3>1, SeqDef
      <3>3. Len(list) \in Nat /\ DOMAIN list = 1 .. Len(list) /\ DOMAIN list = 1 .. Cardinality(S)
        BY <2>3, <3>2, Elements
      <3> QED  BY <2>2, <3>3
    <2>9. v0 \in D
      BY DEF v0
    <2> QED  BY <2>2, <2>3, <2>7, <2>8, <2>9
  <1>2. v0 = HeldAll(u, d)
    OBVIOUS
  <1> HIDE DEF v0
  <1> DEFINE g == [y \in D \X (1 .. n) |-> step(y[1], list[y[2]])]
             Folds(f) == f = [i \in 0 .. n |-> IF i = 0 THEN v0 ELSE step(f[i - 1], list[i])]
             f == CHOOSE f : Folds(f)
  <1> HIDE DEF step
  <1>3. g \in [D \X (1 .. n) -> D] /\ \A v \in D, i \in 1 .. n : g[<<v, i>>] = step(v, list[i])
    BY <1>1 DEF step
  <1>4. \E e : Folds(e)
    <2>1. PICK e : Iterates(e, D, v0, n, g)
      <3> HIDE DEF g
      <3>1. \A k \in Nat : k <= n => \E e : Iterates(e, D, v0, k, g)
        BY <1>1, <1>3, Iterated
      <3>2. n <= n
        BY <1>1
      <3> QED  BY <1>1, <3>1, <3>2
    <2> HIDE DEF g
    <2>2. e \in [0 .. n -> D] /\ e[0] = v0 /\ \A i \in 1 .. n : e[i] = step(e[i - 1], list[i])
      <3>1. e \in [0 .. n -> D] /\ e[0] = v0 /\ \A i \in 1 .. n : e[i] = g[<<e[i - 1], i>>]
        BY <2>1 DEF Iterates
      <3>2. \A i \in 1 .. n : i - 1 \in 0 .. n
        BY <1>1
      <3> QED  BY <1>3, <3>1, <3>2
    <2>3. \A i \in 0 .. n : e[i] = IF i = 0 THEN v0 ELSE step(e[i - 1], list[i])
      BY <1>1, <2>2
    <2> QED  BY <1>1, <2>2, <2>3
  <1>5. Folds(f)
    BY <1>4
  <1>6. w = f[n]
    BY <1>0, <1>1 DEF Fold
  <1> HIDE DEF f
  <1>7. f[0] = v0 /\ \A i \in 1 .. n : f[i] = step(f[i - 1], list[i])
    BY <1>1, <1>5
  <1>8. \A i \in 0 .. n : f[i] \in D
    <2>1. \A i \in 1 .. n : f[i - 1] \in D => f[i] \in D
      BY <1>1, <1>7 DEF step
    <2> QED  BY <1>1, <1>7, <2>1, Reaches
  <1>9. PopulatesBy(f, list, n, u, d, w)
    BY <1>1, <1>2, <1>6, <1>7 DEF PopulatesBy, step
  <1> QED  BY <1>1, <1>6, <1>8, <1>9

LEMMA PopulateIs ==
    ASSUME NEW u, NEW d, NEW w \in populate_directory(u, d), Tree(u), Cached(u, None),
           d \in Live(u), u.ino[d].dir
    PROVE  /\ Tree(w) /\ Cached(w, None) /\ Sees(u, w) /\ Looks(HeldAll(u, d), w)
           /\ Plain /\ Scanned(HeldAll(u, d), d) => \A x \in Listed(u, d) : Named(w, d, x)
  <1> DEFINE held == HeldAll(u, d)
             step(v, x) == lookup_child_aino_for_exnext(v, d, x)
             D == {v \in Units : Tree(v) /\ Cached(v, None) /\ Looks(held, v)}
  <1>1. Tree(held) /\ Cached(held, None) /\ Sees(u, held)
    <2>1. Len(u.ino[d].kids) \in Int
      BY InodeIs, Elements
    <2> QED  BY <2>1, HeldIs DEF HeldAll, Remarks
  <1> HIDE DEF held
  <1>2. held \in D
    BY <1>1, LooksSelf DEF Tree
  <1>3. \A v \in D, x \in Listed(u, d) : step(v, x) \in D /\ Looks(v, step(v, x)) /\ (Plain => Named(step(v, x), d, x))
    <2> SUFFICES ASSUME NEW v \in D, NEW x \in Listed(u, d)
                 PROVE  step(v, x) \in D /\ Looks(v, step(v, x)) /\ (Plain => Named(step(v, x), d, x))
      OBVIOUS
    <2>1. x \in Names /\ Append(u.ino[d].nname, x) \in DOMAIN host
      BY DEF Listed, Exists
    <2>2. d \in Live(v) /\ Same(u.ino[d], v.ino[d])
      <3>1. Sees(u, v)
        BY <1>1, SeesBoth DEF Looks
      <3> QED  BY <3>1 DEF Sees, Keeps
    <2>3. v.ino[d].dir /\ Append(v.ino[d].nname, x) \in DOMAIN host
      BY <2>1, <2>2 DEF Same
    <2>4. /\ Tree(step(v, x)) /\ Cached(step(v, x), None) /\ Looks(v, step(v, x))
          /\ Plain => Named(step(v, x), d, x)
      BY <2>1, <2>2, <2>3, ForExnextIs
    <2> HIDE DEF step
    <2>5. Looks(held, step(v, x)) /\ step(v, x) \in Units
      BY <1>1, <2>4, LooksBoth DEF Tree
    <2> QED  BY <2>4, <2>5
  <1>4. \A v \in D : Tree(v) /\ Cached(v, None) /\ Looks(held, v)
    OBVIOUS
  <1> HIDE DEF D
  <1>5. PICK n, f, list : n \in Nat /\ w \in D /\ PopulatesBy(f, list, n, u, d, w) /\ \A i \in 0 .. n : f[i] \in D
    <2> HIDE DEF step
    <2>1. \A v \in D, x \in Listed(u, d) : lookup_child_aino_for_exnext(v, d, x) \in D
      BY <1>3 DEF step
    <2>2. HeldAll(u, d) \in D
      BY <1>2 DEF held
    <2> QED  BY ONLY <2>1, <2>2, PopulateFolds, w \in populate_directory(u, d)
  <1>6. ASSUME Plain, Scanned(held, d), NEW x \in Listed(u, d)
        PROVE  Named(w, d, x)
    <2>1. PICK j \in 1 .. n : list[j] = x
      BY <1>5 DEF PopulatesBy
    <2>2. f[j] = step(f[j - 1], x) /\ f[j - 1] \in D
      BY <1>5, <2>1 DEF PopulatesBy
    <2>3. Named(f[j], d, x)
      BY <1>3, <1>6, <2>2
    <2> DEFINE E == {v \in D : Named(v, d, x)}
               g == [i \in 0 .. n - j |-> f[j + i]]
    <2>4. f[j] \in E
      BY <1>5, <2>1, <2>3
    <2>5. \A i \in j + 1 .. n : f[i - 1] \in E => f[i] \in E
      <3> SUFFICES ASSUME NEW i \in j + 1 .. n, f[i - 1] \in D, Named(f[i - 1], d, x)
                   PROVE  f[i] \in D /\ Named(f[i], d, x)
        OBVIOUS
      <3>1. i \in 1 .. n /\ i \in 0 .. n
        OBVIOUS
      <3>2. f[i] = step(f[i - 1], list[i]) /\ list[i] \in Listed(u, d) /\ f[i] \in D
        BY <1>5, <3>1 DEF PopulatesBy
      <3>3. Looks(f[i - 1], f[i])
        BY <1>3, <3>2
      <3>4. Scanned(f[i - 1], d)
        BY <1>1, <1>4, <1>6, KidsStay
      <3> QED  BY <1>4, <3>2, <3>3, <3>4, KidsStay
    <2> HIDE DEF E
    <2>6. g[0] \in E /\ \A i \in 1 .. n - j : g[i - 1] \in E => g[i] \in E
      <3>1. g[0] = f[j] /\ \A i \in 1 .. n - j : g[i - 1] = f[j + i - 1] /\ g[i] = f[j + i] /\ j + i \in j + 1 .. n
        BY <1>5
      <3> HIDE DEF g
      <3> QED  BY <2>4, <2>5, <3>1
    <2>7. g[n - j] \in E /\ g[n - j] = f[n] /\ f[n] = w
      <3>1. n - j \in Nat /\ n - j \in 0 .. n - j /\ j + (n - j) = n
        BY <1>5
      <3>2. g[n - j] = f[n]
        BY <3>1
      <3> HIDE DEF g
      <3> QED  BY <1>5, <2>6, <3>1, <3>2, Reaches DEF PopulatesBy
    <2> QED  BY <2>7 DEF E
  <1>7. Sees(u, w)
    BY <1>1, <1>4, <1>5, SeesBoth DEF Looks
  <1> QED  BY <1>4, <1>5, <1>6, <1>7 DEF held

----------------------------------------------------------------------------
(* The counts of the holders.  L are the locks, K the open files. *)
Held(L, q) == IF q \in DOMAIN L THEN L[q] ELSE 0
Opened(K, p) == {k \in Keys : K[k].ino = p}
Count(n) == IF n.elock THEN n.shlock + 1 ELSE n.shlock
Locked == [0 .. MaxInodes -> Nat]
Opens == [Keys -> [ino : Nat \cup {None}, create : 0 .. 2, notify : BOOLEAN]]

CountedAt(u, L, K, p) ==
    /\ Held(L, u.ino[p].uniq) + Cardinality(Opened(K, p)) = Count(u.ino[p])
    /\ u.ino[p].elock => u.ino[p].shlock = 0
Counted(u, L, K) ==
    /\ L \in Locked /\ K \in Opens
    /\ \A q \in DOMAIN L : L[q] > 0 => \E p \in Live(u) : u.ino[p].uniq = q
    /\ \A k \in Keys : K[k] = NoKey \/ K[k].ino \in Live(u)
    /\ \A p \in Live(u) : CountedAt(u, L, K, p)

LEMMA CountsAre ==
    ASSUME NEW L \in Locked, NEW K \in Opens, NEW q, NEW p
    PROVE  /\ Held(L, q) \in Nat /\ IsFiniteSet(Opened(K, p)) /\ Cardinality(Opened(K, p)) \in Nat
           /\ Cardinality(Opened(K, p)) = 0 <=> Opened(K, p) = {}
  <1>1. Held(L, q) \in Nat
    BY DEF Locked, Held
  <1>2. IsFiniteSet(Keys) /\ Opened(K, p) \subseteq Keys
    BY TreeAssumption DEF Opened
  <1>3. IsFiniteSet(Opened(K, p))
    BY <1>2, FS_Subset
  <1> QED  BY <1>1, <1>3, FS_CardinalityType, FS_EmptySet

\* An a_inode is held when it has a holder.
LEMMA BusyIs ==
    ASSUME NEW u, NEW L, NEW K, NEW p, Tree(u), Counted(u, L, K), p \in Live(u)
    PROVE  /\ u.ino[p].shlock \in Nat
           /\ Busy(u.ino[p]) <=> Held(L, u.ino[p].uniq) > 0 \/ Opened(K, p) # {}
  <1> DEFINE n == u.ino[p]
  <1>1. n.shlock \in Int /\ n.elock \in BOOLEAN
    BY InodeIs
  <1>2. /\ Held(L, n.uniq) \in Nat /\ Cardinality(Opened(K, p)) \in Nat
        /\ Cardinality(Opened(K, p)) = 0 <=> Opened(K, p) = {}
    BY CountsAre DEF Counted
  <1>3. /\ Held(L, n.uniq) + Cardinality(Opened(K, p)) = Count(n)
        /\ n.elock => n.shlock = 0
    BY DEF Counted, CountedAt
  <1> HIDE DEF n
  <1>4. CASE n.elock
    <2>1. Held(L, n.uniq) + Cardinality(Opened(K, p)) = 1 /\ n.shlock = 0
      BY <1>3, <1>4 DEF Count
    <2>2. Held(L, n.uniq) > 0 \/ Opened(K, p) # {}
      BY <1>2, <2>1
    <2> QED  BY <1>4, <2>1, <2>2 DEF Busy, n
  <1>5. CASE ~n.elock
    <2>1. Held(L, n.uniq) + Cardinality(Opened(K, p)) = n.shlock
      BY <1>3, <1>5 DEF Count
    <2>2. n.shlock \in Nat /\ (n.shlock > 0 <=> Held(L, n.uniq) > 0 \/ Opened(K, p) # {})
      BY <1>2, <2>1
    <2> QED  BY <1>5, <2>2 DEF Busy, n
  <1> QED  BY <1>4, <1>5

\* Looking up and making room keep the counts.
LEMMA CountedKeeps ==
    ASSUME NEW u, NEW v, NEW L, NEW K, Tree(u), Tree(v), Keeps(u, v), Counted(u, L, K)
    PROVE  Counted(v, L, K)
  <1>1. L \in Locked /\ K \in Opens
    BY DEF Counted
  <1>2. ASSUME NEW p \in Live(u), Held(L, u.ino[p].uniq) > 0 \/ Opened(K, p) # {}
        PROVE  p \in Live(v) /\ Same(u.ino[p], v.ino[p])
    <2>1. Busy(u.ino[p])
      BY <1>2, BusyIs
    <2> QED  BY <2>1 DEF Keeps
  <1>3. ASSUME NEW q \in DOMAIN L, L[q] > 0
        PROVE  \E p \in Live(v) : v.ino[p].uniq = q
    <2>1. PICK p \in Live(u) : u.ino[p].uniq = q
      BY <1>3 DEF Counted
    <2>2. Held(L, u.ino[p].uniq) > 0
      BY <1>3, <2>1 DEF Held
    <2>3. p \in Live(v) /\ Same(u.ino[p], v.ino[p])
      BY <1>2, <2>2
    <2> QED  BY <2>1, <2>3 DEF Same
  <1>4. ASSUME NEW k \in Keys, K[k] # NoKey
        PROVE  K[k].ino \in Live(v)
    <2>1. K[k].ino \in Live(u) /\ k \in Opened(K, K[k].ino)
      BY <1>4 DEF Counted, Opened
    <2> QED  BY <1>2, <2>1
  <1>5. ASSUME NEW p \in Live(v)
        PROVE  CountedAt(v, L, K, p)
    <2>1. CASE p \in Live(u)
      <3>1. CountedAt(u, L, K, p) /\ Same(u.ino[p], v.ino[p])
        BY <2>1 DEF Counted, Keeps
      <3> QED  BY <3>1 DEF CountedAt, Same, Count
    <2>2. CASE p \notin Live(u)
      <3>1. p > u.a_uniq /\ v.ino[p].uniq = p /\ v.ino[p].shlock = 0 /\ v.ino[p].elock = FALSE
        BY <2>2 DEF Keeps
      <3>2. u.a_uniq \in Nat /\ p \in Nat /\ None \notin Nat
        BY Parts DEF Tree, None
      <3>3. Held(L, p) = 0
        <4>1. CASE p \in DOMAIN L /\ L[p] > 0
          <5>1. PICK o \in Live(u) : u.ino[o].uniq = p
            BY <4>1 DEF Counted
          <5>2. u.ino[o].uniq <= u.a_uniq /\ u.ino[o].uniq \in Nat
            BY InodeIs DEF Tree
          <5> QED  BY <3>1, <3>2, <5>1, <5>2
        <4>2. CASE ~(p \in DOMAIN L /\ L[p] > 0)
          BY <1>1, <4>2 DEF Held, Locked
        <4> QED  BY <4>1, <4>2
      <3>4. Opened(K, p) = {}
        <4> SUFFICES ASSUME NEW k \in Keys, K[k].ino = p
                     PROVE  FALSE
          BY DEF Opened
        <4>1. K[k] = NoKey \/ p \in Live(u)
          BY DEF Counted
        <4> QED  BY <2>2, <3>2, <4>1 DEF NoKey
      <3>5. Cardinality(Opened(K, p)) = 0
        BY <3>4, FS_EmptySet
      <3> QED  BY <3>1, <3>3, <3>5 DEF CountedAt, Count
    <2> QED  BY <2>1, <2>2
  <1> QED  BY <1>1, <1>3, <1>4, <1>5 DEF Counted

----------------------------------------------------------------------------
(* A holder more, a holder less. *)
Restated(u, v, p, m) ==
    /\ Live(v) = Live(u) /\ v.ino[p] = m /\ v.a_uniq = u.a_uniq /\ v.wild = u.wild
    /\ \A q \in Live(u) : q # p => v.ino[q] = u.ino[q]
LocksMoved(L, M, q, a) ==
    /\ L \in Locked /\ M \in Locked
    /\ Held(M, q) = Held(L, q) + a /\ \A r : r # q => Held(M, r) = Held(L, r)
KeysMoved(K, J, p, b) ==
    /\ K \in Opens /\ J \in Opens
    /\ \A k \in Keys : J[k] = NoKey \/ J[k].ino = p \/ J[k] = K[k]
    /\ \A q : q # p /\ q # None => Opened(J, q) = Opened(K, q)
    /\ Cardinality(Opened(J, p)) = Cardinality(Opened(K, p)) + b

LEMMA LockAdded ==
    ASSUME NEW L \in Locked, NEW q \in 0 .. MaxInodes
    PROVE  LocksMoved(L, [L EXCEPT ![q] = @ + 1], q, 1)
  BY DEF LocksMoved, Locked, Held

LEMMA LockGone ==
    ASSUME NEW L \in Locked, NEW q \in DOMAIN L, L[q] > 0
    PROVE  LocksMoved(L, [L EXCEPT ![q] = @ - 1], q, -1)
  BY DEF LocksMoved, Locked, Held

LEMMA NothingMoved ==
    ASSUME NEW L \in Locked, NEW K \in Opens, NEW p, NEW q
    PROVE  LocksMoved(L, L, q, 0) /\ KeysMoved(K, K, p, 0)
  <1>1. Held(L, q) \in Nat /\ Cardinality(Opened(K, p)) \in Nat
    BY CountsAre
  <1>2. Held(L, q) = Held(L, q) + 0 /\ Cardinality(Opened(K, p)) = Cardinality(Opened(K, p)) + 0
    BY <1>1
  <1> QED  BY <1>2 DEF LocksMoved, KeysMoved

LEMMA KeyAdded ==
    ASSUME NEW K \in Opens, NEW k \in Keys, K[k] = NoKey, NEW p \in Nat,
           NEW c \in 0 .. 2, NEW n \in BOOLEAN
    PROVE  KeysMoved(K, [K EXCEPT ![k] = [ino |-> p, create |-> c, notify |-> n]], p, 1)
  <1> DEFINE e == [ino |-> p, create |-> c, notify |-> n]
             J == [K EXCEPT ![k] = e]
  <1>1. e \in [ino : Nat \cup {None}, create : 0 .. 2, notify : BOOLEAN] /\ e.ino = p
    OBVIOUS
  <1> HIDE DEF e
  <1>2. J \in Opens /\ J[k] = e /\ \A i \in Keys : i # k => J[i] = K[i]
    BY <1>1 DEF Opens
  <1> HIDE DEF J
  <1>3. K[k].ino = None /\ p # None
    BY DEF NoKey, None
  <1>4. \A q : q # p /\ q # None => Opened(J, q) = Opened(K, q)
    BY <1>1, <1>2, <1>3 DEF Opened
  <1>5. Opened(J, p) = Opened(K, p) \cup {k} /\ k \notin Opened(K, p)
    BY <1>1, <1>2, <1>3 DEF Opened
  <1>6. IsFiniteSet(Opened(K, p)) /\ Cardinality(Opened(J, p)) = Cardinality(Opened(K, p)) + 1
    <2>1. IsFiniteSet(Opened(K, p))
      BY TreeAssumption, FS_Subset DEF Opened
    <2> QED  BY <1>5, <2>1, FS_AddElement
  <1>7. KeysMoved(K, J, p, 1)
    BY <1>1, <1>2, <1>4, <1>6 DEF KeysMoved
  <1> QED  BY <1>7 DEF J, e

LEMMA KeyGone ==
    ASSUME NEW K \in Opens, NEW k \in Keys, NEW p \in Nat, K[k].ino = p
    PROVE  KeysMoved(K, [K EXCEPT ![k] = NoKey], p, -1)
  <1> DEFINE J == [K EXCEPT ![k] = NoKey]
  <1>1. NoKey \in [ino : Nat \cup {None}, create : 0 .. 2, notify : BOOLEAN] /\ NoKey.ino = None /\ p # None
    BY DEF NoKey, None
  <1>2. J \in Opens /\ J[k] = NoKey /\ \A i \in Keys : i # k => J[i] = K[i]
    BY <1>1 DEF Opens
  <1> HIDE DEF J
  <1>4. \A q : q # p /\ q # None => Opened(J, q) = Opened(K, q)
    BY <1>1, <1>2 DEF Opened
  <1>5. Opened(J, p) = Opened(K, p) \ {k} /\ k \in Opened(K, p)
    BY <1>1, <1>2 DEF Opened
  <1>6. Cardinality(Opened(J, p)) = Cardinality(Opened(K, p)) + -1
    <2>1. IsFiniteSet(Opened(K, p))
      BY TreeAssumption, FS_Subset DEF Opened
    <2>2. Cardinality(Opened(J, p)) = Cardinality(Opened(K, p)) - 1 /\ Cardinality(Opened(K, p)) \in Nat
      BY <1>5, <2>1, FS_RemoveElement, FS_CardinalityType
    <2> QED  BY <2>2
  <1>7. KeysMoved(K, J, p, -1)
    BY <1>2, <1>4, <1>6 DEF KeysMoved
  <1> QED  BY <1>7 DEF J

LEMMA Recounted ==
    ASSUME NEW u, NEW v, NEW p, NEW m, NEW L, NEW K, NEW M, NEW J, NEW a \in Int, NEW b \in Int,
           Tree(u), Counted(u, L, K), p \in Live(u), Restated(u, v, p, m), m.uniq = u.ino[p].uniq,
           LocksMoved(L, M, m.uniq, a), KeysMoved(K, J, p, b),
           Count(m) = Count(u.ino[p]) + a + b, m.elock => m.shlock = 0
    PROVE  Counted(v, M, J)
  <1>1. M \in Locked /\ J \in Opens /\ L \in Locked /\ K \in Opens
    BY DEF LocksMoved, KeysMoved
  <1>2. \A q \in Live(u) : v.ino[q].uniq = u.ino[q].uniq
    BY DEF Restated
  <1>3. ASSUME NEW q \in DOMAIN M, M[q] > 0
        PROVE  \E r \in Live(v) : v.ino[r].uniq = q
    <2>1. CASE q = m.uniq
      BY <1>2, <2>1 DEF Restated
    <2>2. CASE q # m.uniq
      <3>1. q \in DOMAIN L /\ L[q] = M[q]
        BY <1>1, <2>2 DEF LocksMoved, Locked, Held
      <3> QED  BY <1>2, <1>3, <3>1 DEF Restated, Counted
    <2> QED  BY <2>1, <2>2
  <1>4. \A k \in Keys : J[k] = NoKey \/ J[k].ino \in Live(v)
    BY DEF KeysMoved, Counted, Restated
  <1>5. ASSUME NEW q \in Live(v)
        PROVE  CountedAt(v, M, J, q)
    <2>1. q \in Live(u) /\ CountedAt(u, L, K, q) /\ CountedAt(u, L, K, p)
      BY DEF Restated, Counted
    <2>2. CASE q = p
      <3>1. v.ino[q] = m /\ q = p
        BY <2>2 DEF Restated
      <3>2. /\ Held(L, m.uniq) \in Nat /\ Cardinality(Opened(K, p)) \in Nat
            /\ Held(L, m.uniq) + Cardinality(Opened(K, p)) = Count(u.ino[p])
        BY <1>1, <2>1, CountsAre DEF CountedAt
      <3>3. Held(M, m.uniq) = Held(L, m.uniq) + a /\ Cardinality(Opened(J, p)) = Cardinality(Opened(K, p)) + b
        BY DEF LocksMoved, KeysMoved
      <3>4. Held(M, m.uniq) + Cardinality(Opened(J, p)) = Count(m)
        BY <3>2, <3>3
      <3> QED  BY <3>1, <3>4 DEF CountedAt
    <2>3. CASE q # p
      <3>1. v.ino[q] = u.ino[q] /\ u.ino[q].uniq # m.uniq
        BY <2>1, <2>3 DEF Restated, Tree
      <3>2. q # None
        BY <2>1, Parts DEF Tree, None
      <3>3. Held(M, u.ino[q].uniq) = Held(L, u.ino[q].uniq) /\ Opened(J, q) = Opened(K, q)
        BY <2>3, <3>1, <3>2 DEF LocksMoved, KeysMoved
      <3> QED  BY <2>1, <3>1, <3>3 DEF CountedAt
    <2> QED  BY <2>2, <2>3
  <1> QED  BY <1>1, <1>3, <1>4, <1>5 DEF Counted

----------------------------------------------------------------------------
(* What a packet may leave behind. *)
Good(u, L, K) == Tree(u) /\ Cached(u, None) /\ Counted(u, L, K)

LEMMA GoodLooks ==
    ASSUME NEW u, NEW v, NEW L, NEW K, Good(u, L, K), Tree(v), Cached(v, None), Keeps(u, v)
    PROVE  Good(v, L, K)
  BY CountedKeeps DEF Good

SetTo(u, p, e, s) == [u EXCEPT !.ino[p].elock = e, !.ino[p].shlock = s]

\* Neither the marks nor the total change.
Unmarked(u, x, p, m) == x.total = u.total /\ SameMarks(u.ino[p], m)
LEMMA SetHolds ==
    ASSUME NEW u, NEW p, NEW e \in BOOLEAN, NEW s \in Int, Tree(u), p \in Live(u),
           NEW x, x = SetTo(u, p, e, s)
    PROVE  \E m \in Nodes : /\ Tree(x) /\ ChangedAt(u, x, p, m) /\ Placed(u.ino[p], m)
                            /\ m.elock = e /\ m.shlock = s /\ Unmarked(u, x, p, m)
  <1>1. PICK n \in Nodes : n = u.ino[p]
    BY InodeIs
  <1>2. PICK m : m = [n EXCEPT !.elock = e, !.shlock = s]
    OBVIOUS
  <1>3. m \in Nodes
    BY <1>2 DEF Nodes
  <1>4. Placed(n, m) /\ m.kids = n.kids
    BY <1>2 DEF Nodes, Placed
  <1>10. SameMarks(n, m)
    BY <1>2 DEF Nodes, SameMarks
  <1>5. m.elock = e
    BY <1>2 DEF Nodes
  <1>6. m.shlock = s
    BY <1>2 DEF Nodes
  <1>7. PICK t \in Int : t = u.total
    BY InodeIs
  <1> DEFINE y == WithMark(u, p, m, t)
  <1>8. x = y
    <2>1. u \in Units /\ u.ino \in [Live(u) -> Nodes]
      BY InodeIs
    <2> QED  BY <1>1, <1>2, <1>7, <2>1 DEF Units, SetTo, WithMark
  <1>9. Tree(y) /\ ChangedAt(u, y, p, m) /\ y.total = t
    BY <1>1, <1>3, <1>4, <1>7, NodeChanged
  <1> HIDE DEF y
  <1> QED  BY <1>1, <1>3, <1>4, <1>5, <1>6, <1>7, <1>8, <1>9, <1>10 DEF Unmarked

\* A change of the holds of p, after which idle files may have gone.
LEMMA HoldPasses ==
    ASSUME NEW u, NEW x, NEW w, NEW p, NEW m, Tree(u), Tree(x), Tree(w), p \in Live(u), ChangedAt(u, x, p, m),
           Placed(u.ino[p], m), Unmarked(u, x, p, m), Flushes(x, w)
    PROVE  Passes(u, w)
  <1>1. /\ Live(w) \subseteq Live(u) /\ w.a_uniq = u.a_uniq /\ w.total = u.total
        /\ \A q \in Live(u) : x.ino[q].dir => q \in Live(w)
        /\ \A q \in Live(w) : Same(x.ino[q], w.ino[q]) /\ SameMarks(x.ino[q], w.ino[q])
    BY DEF Flushes, Keeps, ChangedAt, Unmarked
  <1>2. \A q \in Live(u) : Placed(u.ino[q], x.ino[q]) /\ SameMarks(u.ino[q], x.ino[q])
    BY DEF ChangedAt, Unmarked, Placed, SameMarks
  <1>3. ASSUME NEW q \in Live(w)
        PROVE  Placed(u.ino[q], w.ino[q]) /\ SameMarks(u.ino[q], w.ino[q])
    <2>1. Placed(u.ino[q], w.ino[q])
      BY <1>1, <1>2, <1>3 DEF Placed, Same
    <2>2. SameMarks(u.ino[q], x.ino[q]) /\ SameMarks(x.ino[q], w.ino[q])
      BY <1>1, <1>2, <1>3
    <2> QED  BY <2>1, <2>2 DEF SameMarks
  <1>4. Carries(u, w)
    BY <1>1, <1>3, MarksCarry
  <1>5. Drifts(u, w)
    <2>1. w.a_uniq >= u.a_uniq
      BY <1>1, Parts DEF Tree
    <2> QED  BY <1>1, <1>2, <1>3, <2>1 DEF Drifts, Placed
  <1> QED  BY <1>4, <1>5 DEF Passes

LEMMA TakenOut ==
    ASSUME NEW u, NEW x, NEW p, NEW m, Tree(u), Cached(u, None), p \in Live(u), Tree(x),
           ChangedAt(u, x, p, m), m.dir = u.ino[p].dir, Busy(m)
    PROVE  LET w == de_recycle_aino(x, {p})
           IN  Tree(w) /\ Cached(w, None) /\ Restated(u, w, p, m) /\ Flushes(x, w)
  <1> DEFINE w == de_recycle_aino(x, {p})
  <1>1. x \in Units /\ NoDup(x.chain) /\ x.cache = Len(x.chain) /\ ToSet(x.chain) = Idle(u) \ {None}
    BY DEF ChangedAt, Cached
  <1>2. /\ w \in Units /\ w.ino = x.ino /\ Live(w) = Live(x) /\ ToSet(w.chain) = ToSet(x.chain) \ {p}
        /\ NoDup(w.chain) /\ w.cache = Len(w.chain) /\ w.total = x.total
        /\ w.a_uniq = x.a_uniq /\ w.wild = x.wild
    BY <1>1, Recycled
  <1> HIDE DEF w
  <1>3. Tree(w)
    BY <1>2, TreeOf
  <1>4. Restated(u, w, p, m)
    BY <1>2 DEF Restated, ChangedAt
  <1>5. Idle(w) = Idle(u) \ {p}
    <2>1. \A q \in Live(u) : q # p => w.ino[q] = u.ino[q]
      BY <1>4 DEF Restated
    <2>2. Live(w) = Live(u) /\ Busy(w.ino[p])
      BY <1>4 DEF Restated
    <2> QED  BY <2>1, <2>2 DEF Idle
  <1>6. Cached(w, None)
    BY <1>1, <1>2, <1>5 DEF Cached
  <1>7. Flushes(x, w)
    <2>1. Keeps(x, x)
      BY <1>1, KeepsSelf
    <2>2. Keeps(x, w)
      BY <1>2, <2>1 DEF Keeps
    <2> QED  BY <1>2, <2>2 DEF Flushes, SameMarks
  <1> QED  BY <1>3, <1>4, <1>6, <1>7 DEF w

LEMMA GivenBack ==
    ASSUME NEW u, NEW x, NEW p, NEW m, Tree(u), Cached(u, None), p \in Live(u), Tree(x),
           ChangedAt(u, x, p, m), m.dir = u.ino[p].dir, Busy(u.ino[p])
    PROVE  LET w == recycle_aino(x, p)
           IN  /\ Tree(w) /\ Cached(w, None) /\ Flushes(x, w)
               /\ Restated(u, x, p, m)
  <1>1. Restated(u, x, p, m) /\ p \in Live(x)
    BY DEF Restated, ChangedAt
  <1>2. Idle(x) \ {p} = Idle(u) \ {p} /\ p \notin Idle(u)
    <2>1. \A q \in Live(u) : q # p => x.ino[q] = u.ino[q]
      BY DEF ChangedAt
    <2> QED  BY <1>1, <2>1 DEF Idle, Restated
  <1>3. Idle(u) \ {None} = Idle(u)
    <2>1. None \notin Live(u)
      BY Parts DEF Tree, None
    <2> QED  BY <2>1 DEF Idle
  <1>4. Cached(x, p)
    BY <1>2, <1>3 DEF Cached, ChangedAt
  <1> QED  BY <1>1, <1>4, RecycleKeeps

\* A hold more, or of another kind.
LEMMA HoldCounted ==
    ASSUME NEW u, NEW p, NEW e \in BOOLEAN, NEW s \in Nat, NEW L, NEW K, NEW M, NEW J,
           NEW a \in Int, NEW b \in Int, Good(u, L, K), p \in Live(u),
           LocksMoved(L, M, u.ino[p].uniq, a), KeysMoved(K, J, p, b),
           e \/ s > 0, e => s = 0, (IF e THEN s + 1 ELSE s) = Count(u.ino[p]) + a + b
    PROVE  LET w == de_recycle_aino(SetTo(u, p, e, s), {p})
           IN  Good(w, M, J) /\ Passes(u, w)
  <1>1. PICK x : x = SetTo(u, p, e, s)
    OBVIOUS
  <1>2. PICK m \in Nodes : /\ Tree(x) /\ ChangedAt(u, x, p, m) /\ Placed(u.ino[p], m)
                           /\ m.elock = e /\ m.shlock = s /\ Unmarked(u, x, p, m)
    <2>1. Tree(u) /\ s \in Int /\ e \in BOOLEAN /\ p \in Live(u)
      BY DEF Good
    <2> QED  BY ONLY <1>1, <2>1, SetHolds
  <1>3. Busy(m)
    BY <1>2 DEF Busy
  <1> DEFINE w == de_recycle_aino(x, {p})
  <1>4. Tree(w) /\ Cached(w, None) /\ Restated(u, w, p, m) /\ Flushes(x, w)
    BY <1>2, <1>3, TakenOut DEF Good, Placed
  <1> HIDE DEF w
  <1>5. m.uniq = u.ino[p].uniq /\ Count(m) = Count(u.ino[p]) + a + b /\ (m.elock => m.shlock = 0)
    BY <1>2 DEF Placed, Count
  <1>6. Counted(w, M, J)
    BY <1>4, <1>5, Recounted DEF Good
  <1>7. Passes(u, w)
    BY <1>2, <1>4, HoldPasses DEF Good
  <1> QED  BY <1>1, <1>4, <1>6, <1>7 DEF Good, w

\* A hold less.
LEMMA ReleaseCounted ==
    ASSUME NEW u, NEW p, NEW e \in BOOLEAN, NEW s \in Nat, NEW L, NEW K, NEW M, NEW J,
           NEW a \in Int, NEW b \in Int, Good(u, L, K), p \in Live(u), Busy(u.ino[p]),
           LocksMoved(L, M, u.ino[p].uniq, a), KeysMoved(K, J, p, b),
           e => s = 0, (IF e THEN s + 1 ELSE s) = Count(u.ino[p]) + a + b
    PROVE  LET w == recycle_aino(SetTo(u, p, e, s), p)
           IN  Good(w, M, J) /\ Passes(u, w)
  <1>1. PICK x : x = SetTo(u, p, e, s)
    OBVIOUS
  <1>2. PICK m \in Nodes : /\ Tree(x) /\ ChangedAt(u, x, p, m) /\ Placed(u.ino[p], m)
                           /\ m.elock = e /\ m.shlock = s /\ Unmarked(u, x, p, m)
    <2>1. Tree(u) /\ s \in Int /\ e \in BOOLEAN /\ p \in Live(u)
      BY DEF Good
    <2> QED  BY ONLY <1>1, <2>1, SetHolds
  <1> DEFINE w == recycle_aino(x, p)
  <1>4. Tree(w) /\ Cached(w, None) /\ Flushes(x, w) /\ Restated(u, x, p, m)
    BY <1>2, GivenBack DEF Good, Placed
  <1> HIDE DEF w
  <1>5. m.uniq = u.ino[p].uniq /\ Count(m) = Count(u.ino[p]) + a + b /\ (m.elock => m.shlock = 0)
    BY <1>2 DEF Placed, Count
  <1>6. Counted(x, M, J)
    BY <1>4, <1>5, Recounted DEF Good
  <1>7. Counted(w, M, J)
    BY <1>2, <1>4, <1>6, CountedKeeps DEF Flushes
  <1>8. Passes(u, w)
    BY <1>2, <1>4, HoldPasses DEF Good
  <1> QED  BY <1>1, <1>4, <1>7, <1>8 DEF Good, w

\* An a_inode nobody holds and nothing is under goes.
Gone(u, w, p) ==
    /\ Live(w) = Live(u) \ {p} /\ w.a_uniq = u.a_uniq /\ w.wild = u.wild /\ w.total = u.total
    /\ \A q \in Live(w) : Same(u.ino[q], w.ino[q]) /\ Less(u.ino[q], w.ino[q], p)

LEMMA DeleteIs ==
    ASSUME NEW u, NEW p, Tree(u), Cached(u, None), p \in Live(u), p # Root, u.ino[p].kids = <<>>
    PROVE  LET w == delete_aino(u, p)
           IN  Tree(w) /\ Cached(w, None) /\ Gone(u, w, p)
  <1> DEFINE x == de_recycle_aino(u, {p})
             d == u.ino[p].parent
             P == {p}
             w == dispose_aino(x, d, P)
  <1>1. delete_aino(u, p) = w
    BY DEF delete_aino
  <1>2. u \in Units /\ NoDup(u.chain) /\ u.cache = Len(u.chain) /\ ToSet(u.chain) = Idle(u) \ {None}
    BY DEF Tree, Cached
  <1>3. /\ x \in Units /\ x.ino = u.ino /\ Live(x) = Live(u) /\ ToSet(x.chain) = ToSet(u.chain) \ {p}
        /\ NoDup(x.chain) /\ x.cache = Len(x.chain) /\ x.total = u.total
        /\ x.a_uniq = u.a_uniq /\ x.wild = u.wild
    BY <1>2, Recycled
  <1> HIDE DEF x
  <1>4. Tree(x)
    BY <1>3, TreeOf
  <1>5. d \in Live(x) /\ P \subseteq Children(x, d)
    BY <1>3 DEF Tree, Under, Children
  <1>6. \A q \in P : Children(x, q) = {}
    <2>1. ToSet(u.ino[p].kids) = Children(u, p) /\ ToSet(u.ino[p].kids) = {}
      BY NoElements DEF Tree
    <2> QED  BY <1>3, <2>1 DEF Children
  <1> HIDE DEF d, P
  <1>7. /\ Tree(w) /\ Live(w) = Live(x) \ P
        /\ \A q \in Live(w) : /\ Same(x.ino[q], w.ino[q]) /\ w.ino[q].locked = x.ino[q].locked
                              /\ w.ino[q].exnext = x.ino[q].exnext
        /\ \A q \in Live(w) : w.ino[q].kids = IF q = d THEN Without(x.ino[q].kids, P) ELSE x.ino[q].kids
        /\ w.chain = x.chain /\ w.cache = x.cache /\ w.total = x.total
        /\ w.a_uniq = x.a_uniq /\ w.wild = x.wild
    BY <1>4, <1>5, <1>6, Disposed
  <1> HIDE DEF w
  <1>11. ASSUME NEW q \in Live(w)
         PROVE  w.ino[q].kids = Without(x.ino[q].kids, P)
    <2>1. CASE q # d
      <3>1. q \in Live(x) /\ ToSet(x.ino[q].kids) = Children(x, q) /\ x.ino[q].kids \in Seq(Nat)
        BY <1>4, <1>7, <1>11, InodeIs DEF Tree
      <3>2. ToSet(x.ino[q].kids) \cap P = {}
        BY <1>5, <2>1, <3>1 DEF Children
      <3> QED  BY <1>7, <1>11, <2>1, <3>1, <3>2, RemovedOrder
    <2> QED  BY <1>7, <1>11, <2>1
  <1>8. Gone(u, w, p)
    BY <1>3, <1>7, <1>11 DEF Gone, P, Less
  <1>9. Idle(w) = Idle(u) \ {p}
    <2>1. \A q \in Live(w) : w.ino[q].dir = u.ino[q].dir /\ (Busy(w.ino[q]) <=> Busy(u.ino[q]))
      BY <1>8 DEF Gone, Same, Busy
    <2> QED  BY <1>8, <2>1 DEF Idle, Gone
  <1>10. Cached(w, None)
    BY <1>2, <1>3, <1>7, <1>9 DEF Cached
  <1> QED  BY <1>1, <1>7, <1>8, <1>10

----------------------------------------------------------------------------
(* The packets that lock, hand over and close.  Share: a guest that makes a shared lock
   shared again is left out. *)
Kept == Good(unit, locks, keys)'
\* The host has at most an object more, which an a_inode stands for.
Grows == host' = host \/ \E p \in Live(unit') \ {Root} : \E kind : host' = With(host, unit'.ino[p].nname, kind)
\* What a packet leaves behind that passed on from u.
KeptFrom(u) == Kept /\ Passes(u, unit') /\ Grows /\ scan' = scan

LEMMA UnchangedKept ==
    ASSUME NEW v, Good(v, locks, keys), Unchanged(v)
    PROVE  KeptFrom(v)
  <1>1. Kept /\ unit' = v /\ host' = host /\ scan' = scan
    BY DEF Kept, Unchanged, Good
  <1>2. Passes(v, v)
    BY PassesSelf DEF Good, Tree
  <1> QED  BY <1>1, <1>2 DEF KeptFrom, Grows

LEMMA GoodTypes ==
    ASSUME NEW u, NEW L, NEW K, Good(u, L, K)
    PROVE  L \in Locked /\ K \in Opens /\ u \in Units /\ DOMAIN L = 0 .. MaxInodes
  BY DEF Good, Counted, Tree, Locked

LEMMA HoldGood ==
    ASSUME NEW u, NEW p, NEW exclusive \in BOOLEAN, NEW L, NEW K, NEW M, NEW J,
           NEW a \in Int, NEW b \in Int, Good(u, L, K), p \in Live(u),
           LocksMoved(L, M, u.ino[p].uniq, a), KeysMoved(K, J, p, b), a + b = 1,
           ~u.ino[p].elock, exclusive => u.ino[p].shlock = 0
    PROVE  Good(Hold(u, p, exclusive), M, J) /\ Passes(u, Hold(u, p, exclusive))
  <1> DEFINE n == u.ino[p]
             e == exclusive
             s == IF exclusive THEN n.shlock ELSE n.shlock + 1
  <1>1. n.shlock \in Nat /\ n.elock = FALSE
    BY BusyIs, InodeIs DEF Good
  <1>2. Hold(u, p, exclusive) = de_recycle_aino(SetTo(u, p, e, s), {p})
    <2>1. (n.elock \/ exclusive) = exclusive
      BY <1>1
    <2>2. u \in Units /\ u.ino \in [Live(u) -> Nodes]
      BY InodeIs DEF Good
    <2> QED  BY <1>1, <2>1, <2>2 DEF Hold, SetTo, Units, Nodes
  <1>3. s \in Nat /\ e \in BOOLEAN /\ (e \/ s > 0) /\ (e => s = 0)
    BY <1>1
  <1>4. (IF e THEN s + 1 ELSE s) = Count(n) + a + b
    BY <1>1 DEF Count
  <1> HIDE DEF s, e
  <1>5. /\ Good(de_recycle_aino(SetTo(u, p, e, s), {p}), M, J)
        /\ Passes(u, de_recycle_aino(SetTo(u, p, e, s), {p}))
    BY <1>3, <1>4, HoldCounted
  <1> QED  BY <1>2, <1>5

LEMMA ReleaseGood ==
    ASSUME NEW u, NEW p, NEW L, NEW K, NEW M, NEW J,
           NEW a \in Int, NEW b \in Int, Good(u, L, K), p \in Live(u),
           LocksMoved(L, M, u.ino[p].uniq, a), KeysMoved(K, J, p, b), a + b = -1,
           Held(L, u.ino[p].uniq) > 0 \/ Opened(K, p) # {}
    PROVE  Good(Release(u, p), M, J) /\ Passes(u, Release(u, p))
  <1> DEFINE n == u.ino[p]
             e == FALSE
             s == IF n.elock THEN n.shlock ELSE n.shlock - 1
  <1>1. n.shlock \in Nat /\ Busy(n) /\ n.elock \in BOOLEAN /\ (n.elock => n.shlock = 0)
    <2>1. n.shlock \in Nat /\ Busy(n)
      BY BusyIs DEF Good
    <2>2. n.elock \in BOOLEAN
      BY InodeIs DEF Good
    <2>3. n.elock => n.shlock = 0
      BY DEF Good, Counted, CountedAt
    <2> QED  BY <2>1, <2>2, <2>3
  <1>2. Release(u, p) = recycle_aino(SetTo(u, p, e, s), p)
    <2>1. u \in Units /\ u.ino \in [Live(u) -> Nodes]
      BY InodeIs DEF Good
    <2> QED  BY <1>1, <2>1 DEF Release, SetTo, Units, Nodes
  <1>3. s \in Nat /\ e \in BOOLEAN /\ (e => s = 0)
    BY <1>1 DEF Busy
  <1>4. (IF e THEN s + 1 ELSE s) = Count(n) + a + b
    BY <1>1 DEF Count
  <1> HIDE DEF s, e
  <1>5. /\ Good(recycle_aino(SetTo(u, p, e, s), p), M, J)
        /\ Passes(u, recycle_aino(SetTo(u, p, e, s), p))
    BY <1>1, <1>3, <1>4, ReleaseCounted
  <1> QED  BY <1>2, <1>5

\* One more lock.
LEMMA LocksOneMore ==
    ASSUME NEW u, NEW p, Good(u, locks, keys), p \in Live(u), NEW v, make_lock(v, p),
           v.ino[p].uniq = u.ino[p].uniq, v.a_uniq = u.a_uniq
    PROVE  LocksMoved(locks, locks', u.ino[p].uniq, 1)
  <1> DEFINE q == u.ino[p].uniq
  <1>1. q \in Nat /\ q <= u.a_uniq /\ u.a_uniq \in Nat
    BY InodeIs, Parts DEF Good, Tree
  <1>2. u.a_uniq <= MaxInodes /\ locks' = [locks EXCEPT ![q] = @ + 1]
    BY DEF make_lock
  <1>3. MaxInodes \in Nat
    BY TreeAssumption
  <1> HIDE DEF q
  <1>4. q \in 0 .. MaxInodes
    BY <1>1, <1>2, <1>3
  <1>5. LocksMoved(locks, [locks EXCEPT ![q] = @ + 1], q, 1)
    BY <1>4, LockAdded, GoodTypes
  <1> QED  BY <1>2, <1>5 DEF q

LEMMA LocksOneLess ==
    ASSUME NEW u, NEW q, Good(u, locks, keys), q \in LockHeld, locks' = [locks EXCEPT ![q] = @ - 1]
    PROVE  LocksMoved(locks, locks', q, -1) /\ Held(locks, q) > 0
  BY LockGone, GoodTypes DEF LockHeld, Held

LEMMA OneMoreKept ==
    ASSUME NEW u, NEW p, NEW exclusive \in BOOLEAN, Good(u, locks, keys), p \in Live(u),
           ~u.ino[p].elock, exclusive => u.ino[p].shlock = 0,
           unit' = Hold(u, p, exclusive), NEW v, make_lock(v, p), v.ino[p].uniq = u.ino[p].uniq,
           v.a_uniq = u.a_uniq, keys' = keys, host' = host, scan' = scan
    PROVE  KeptFrom(u)
  <1>1. LocksMoved(locks, locks', u.ino[p].uniq, 1)
    BY LocksOneMore
  <1>2. KeysMoved(keys, keys, p, 0)
    BY GoodTypes, NothingMoved
  <1>3. Good(Hold(u, p, exclusive), locks', keys) /\ Passes(u, Hold(u, p, exclusive))
    <2>1. PICK a : a = 1
      OBVIOUS
    <2>2. PICK b : b = 0
      OBVIOUS
    <2>3. a \in Int /\ b \in Int /\ a + b = 1
      BY ONLY <2>1, <2>2
    <2>4. LocksMoved(locks, locks', u.ino[p].uniq, a) /\ KeysMoved(keys, keys, p, b)
      BY <1>1, <1>2, <2>1, <2>2
    <2>5. /\ Good(u, locks, keys) /\ p \in Live(u) /\ exclusive \in BOOLEAN
          /\ ~u.ino[p].elock /\ (exclusive => u.ino[p].shlock = 0)
      OBVIOUS
    <2> QED  BY ONLY <2>3, <2>4, <2>5, HoldGood
  <1> QED  BY <1>3 DEF KeptFrom, Grows, Kept, Good

LEMMA LockKept ==
    ASSUME NEW r, NEW exclusive \in BOOLEAN, Good(r.u, locks, keys), r.node \in Live(r.u),
           action_lock(r, exclusive)
    PROVE  KeptFrom(r.u)
  BY OneMoreKept DEF action_lock

LEMMA FreeLockKept ==
    ASSUME NEW r, NEW q, Good(r.u, locks, keys), r.node \in Live(r.u), r.u.ino[r.node].uniq = q,
           q \in LockHeld, action_free_lock(q, r)
    PROVE  KeptFrom(r.u)
  <1> DEFINE u == r.u
             p == r.node
  <1>1. LocksMoved(locks, locks', u.ino[p].uniq, -1) /\ Held(locks, u.ino[p].uniq) > 0
    BY LocksOneLess DEF action_free_lock
  <1>2. KeysMoved(keys, keys, p, 0) /\ keys' = keys
    BY GoodTypes, NothingMoved DEF action_free_lock
  <1>3. unit' = Release(u, p)
    BY DEF action_free_lock
  <1>4. Good(Release(u, p), locks', keys) /\ Passes(u, Release(u, p))
    <2>1. -1 \in Int /\ 0 \in Int /\ -1 + 0 = -1
      BY ONLY TRUE
    <2>2. Good(u, locks, keys) /\ p \in Live(u)
      OBVIOUS
    <2> HIDE DEF u, p
    <2> QED  BY ONLY <1>1, <1>2, <2>1, <2>2, ReleaseGood
  <1> QED  BY <1>2, <1>3, <1>4 DEF KeptFrom, Grows, Kept, Good, action_free_lock

LEMMA DupLockKept ==
    ASSUME NEW r, Good(r.u, locks, keys), r.node # None => r.node \in Live(r.u), action_dup_lock_2(r)
    PROVE  KeptFrom(r.u)
  <1> DEFINE u == r.u
             p == r.node
  <1>1. CASE p = None \/ u.ino[p].elock
    BY <1>1, UnchangedKept DEF action_dup_lock_2
  <1>2. CASE ~(p = None \/ u.ino[p].elock)
    <2>1. /\ unit' = Hold(u, p, FALSE) /\ make_lock(u, p) /\ keys' = keys /\ p \in Live(u)
          /\ host' = host /\ scan' = scan
      BY <1>2 DEF action_dup_lock_2
    <2>2. ~u.ino[p].elock /\ FALSE \in BOOLEAN
      BY <1>2
    <2> QED  BY <2>1, <2>2, OneMoreKept
  <1> QED  BY <1>1, <1>2

LEMMA ParentKept ==
    ASSUME NEW r, Good(r.u, locks, keys), r.node # None => r.node \in Live(r.u), action_parent_common(r)
    PROVE  KeptFrom(r.u)
  <1> DEFINE u == r.u
             p == r.node
             d == u.ino[p].parent
  <1>1. CASE p = None \/ p = Root \/ u.ino[d].elock
    BY <1>1, UnchangedKept DEF action_parent_common
  <1>2. CASE ~(p = None \/ p = Root \/ u.ino[d].elock)
    <2>1. unit' = Hold(u, d, FALSE) /\ make_lock(u, d) /\ keys' = keys /\ host' = host /\ scan' = scan
      BY <1>2 DEF action_parent_common
    <2>2. d \in Live(u)
      BY Zenon, <1>2 DEF Good, Tree, Under
    <2> HIDE DEF d
    <2>3. ~u.ino[d].elock /\ FALSE \in BOOLEAN
      BY <1>2 DEF d
    <2> QED  BY <2>1, <2>2, <2>3, OneMoreKept
  <1> QED  BY <1>1, <1>2

----------------------------------------------------------------------------
(* The packets that open, close, create and delete. *)
LEMMA Modes ==
    ASSUME NEW e \in BOOLEAN, NEW l \in BOOLEAN, NEW h \in Nat, NEW s, NEW c,
           l => h = 0, l \/ h > 0, e \/ l, e => h <= 1,
           s = IF e THEN 0 ELSE h + 1, c = IF l THEN h + 1 ELSE h
    PROVE  s \in Nat /\ (e \/ s > 0) /\ (e => s = 0) /\ (IF e THEN s + 1 ELSE s) = c + 0 + 0
  <1>1. CASE e = TRUE
    BY <1>1
  <1>2. CASE e = FALSE
    BY <1>2
  <1> QED  BY <1>1, <1>2

LEMMA ChangeModeKept ==
    ASSUME NEW r, NEW exclusive \in BOOLEAN, Good(r.u, locks, keys), "share twice" \notin Habits,
           r.node # None => /\ r.node \in Live(r.u)
                            /\ Held(locks, r.u.ino[r.node].uniq) > 0 \/ Opened(keys, r.node) # {},
           action_change_mode(r, exclusive)
    PROVE  KeptFrom(r.u)
  <1> DEFINE u == r.u
             p == r.node
             n == u.ino[p]
             s == IF exclusive THEN 0 ELSE n.shlock + 1
  <1>1. CASE p = None \/ (exclusive /\ n.shlock > 1)
    BY <1>1, UnchangedKept DEF action_change_mode
  <1>2. CASE ~(p = None \/ (exclusive /\ n.shlock > 1))
    <2>1. /\ exclusive \/ n.elock
          /\ unit' = de_recycle_aino(SetTo(u, p, exclusive, s), {p})
          /\ locks' = locks /\ keys' = keys /\ host' = host /\ scan' = scan
      BY <1>2 DEF action_change_mode, SetTo
    <2>2. p \in Live(u) /\ n.shlock \in Nat /\ Busy(n)
      BY <1>2, BusyIs DEF Good
    <2>3. n.elock \in BOOLEAN
      BY <2>2, InodeIs DEF Good
    <2>4. n.elock => n.shlock = 0
      BY <2>2 DEF Good, Counted, CountedAt
    <2>5. PICK h \in Nat : h = n.shlock
      BY <2>2
    <2>6. PICK l \in BOOLEAN : l = n.elock
      BY <2>3
    <2>9. (l => h = 0) /\ (l \/ h > 0) /\ (exclusive \/ l)
      BY <2>1, <2>2, <2>4, <2>5, <2>6 DEF Busy
    <2>10. exclusive => h <= 1
      <3>1. exclusive => ~(h > 1)
        BY <1>2, <2>5
      <3>2. h > 1 \/ h <= 1
        BY ONLY <2>5
      <3> QED  BY <3>1, <3>2, Zenon
    <2>11. s = (IF exclusive THEN 0 ELSE h + 1) /\ Count(n) = IF l THEN h + 1 ELSE h
      BY <2>5, <2>6 DEF Count
    <2>13. PICK c : c = Count(n)
      OBVIOUS
    <2> HIDE DEF s, n
    <2>12. /\ s \in Nat /\ (exclusive \/ s > 0) /\ (exclusive => s = 0)
           /\ (IF exclusive THEN s + 1 ELSE s) = c + 0 + 0
      BY ONLY <2>9, <2>10, <2>11, <2>13, Modes, <2>5, <2>6, exclusive \in BOOLEAN
    <2>7. LocksMoved(locks, locks, n.uniq, 0) /\ KeysMoved(keys, keys, p, 0)
      BY GoodTypes, NothingMoved
    <2>8. /\ Good(de_recycle_aino(SetTo(u, p, exclusive, s), {p}), locks, keys)
          /\ Passes(u, de_recycle_aino(SetTo(u, p, exclusive, s), {p}))
      <3>0. 0 \in Int
        BY ONLY TRUE
      <3>1. LocksMoved(locks, locks, u.ino[p].uniq, 0) /\ KeysMoved(keys, keys, p, 0)
        BY <2>7 DEF n
      <3>3. Good(u, locks, keys) /\ p \in Live(u)
        BY <2>2
      <3>2. c = Count(u.ino[p])
        BY <2>13 DEF n
      <3> HIDE DEF u, p
      <3> QED  BY <2>12, <3>0, <3>1, <3>2, <3>3, HoldCounted
    <2> QED  BY <2>1, <2>8 DEF KeptFrom, Grows, Kept, Good
  <1> QED  BY <1>1, <1>2

LEMMA DeleteGood ==
    ASSUME NEW u, NEW p, NEW L, NEW K, Good(u, L, K), p \in Live(u), p # Root, u.ino[p].kids = <<>>,
           ~Busy(u.ino[p])
    PROVE  Good(delete_aino(u, p), L, K)
  <1> DEFINE w == delete_aino(u, p)
  <1>1. Tree(w) /\ Cached(w, None) /\ Gone(u, w, p)
    BY DeleteIs DEF Good
  <1> HIDE DEF w
  <1>2. Counted(u, L, K) /\ L \in Locked /\ K \in Opens /\ Tree(u)
    BY DEF Good, Counted
  <1>3. ~(Held(L, u.ino[p].uniq) > 0) /\ Opened(K, p) = {}
    BY <1>2, BusyIs
  <1>4. ASSUME NEW q \in DOMAIN L, L[q] > 0
        PROVE  \E o \in Live(w) : w.ino[o].uniq = q
    <2>1. PICK o \in Live(u) : u.ino[o].uniq = q
      BY <1>2, <1>4 DEF Counted
    <2>2. o # p
      BY <1>3, <1>4, <2>1 DEF Held
    <2> QED  BY <1>1, <2>1, <2>2 DEF Gone, Same
  <1>5. ASSUME NEW k \in Keys
        PROVE  K[k] = NoKey \/ K[k].ino \in Live(w)
    <2>1. K[k] = NoKey \/ K[k].ino \in Live(u)
      BY <1>2 DEF Counted
    <2>2. K[k].ino # p
      BY <1>3 DEF Opened
    <2> QED  BY <1>1, <2>1, <2>2 DEF Gone
  <1>6. ASSUME NEW q \in Live(w)
        PROVE  CountedAt(w, L, K, q)
    <2>1. CountedAt(u, L, K, q) /\ Same(u.ino[q], w.ino[q])
      BY <1>1, <1>2 DEF Gone, Counted
    <2> QED  BY <2>1 DEF CountedAt, Same, Count
  <1>7. Counted(w, L, K)
    BY <1>2, <1>4, <1>5, <1>6 DEF Counted
  <1> QED  BY <1>1, <1>7 DEF Good, w

\* An a_inode that is held stays.
Remains(u, w, p) == p \in Live(u) => p \in Live(w)
LEMMA HoldRemains ==
    ASSUME NEW u, NEW p, NEW exclusive
    PROVE  Remains(u, Hold(u, p, exclusive), p)
  BY DEF Remains, Hold, de_recycle_aino, Live

LEMMA OpenKeyKept ==
    ASSUME NEW k \in Keys \ KeyOpen, NEW u, NEW p, NEW create \in 0 .. 2, NEW made \in BOOLEAN,
           Good(u, locks, keys), p \in Live(u), ~u.ino[p].elock, create = 2 => u.ino[p].shlock = 0,
           p # Root, made => u.ino[p].kids = <<>> /\ ~Busy(u.ino[p]),
           open_key(k, u, p, create, made)
    PROVE  \/ KeptFrom(u)
           \/ made /\ Kept /\ Gone(u, unit', p) /\ host' = host /\ scan' = scan
  <1> DEFINE J == [keys EXCEPT ![k] = [ino |-> p, create |-> create, notify |-> create > 0]]
  <1>1. \/ /\ keys' = J /\ unit' = Hold(u, p, create = 2) /\ locks' = locks
           /\ host' = With(host, u.ino[p].nname, "file") /\ scan' = scan
        \/ Unchanged(IF made THEN delete_aino(u, p) ELSE u)
    BY DEF open_key
  <1>2. CASE /\ keys' = J /\ unit' = Hold(u, p, create = 2) /\ locks' = locks
             /\ host' = With(host, u.ino[p].nname, "file") /\ scan' = scan
    <2> DEFINE n == create > 0
               x == create = 2
    <2>1. n \in BOOLEAN /\ x \in BOOLEAN
      OBVIOUS
    <2>2. keys[k] = NoKey /\ p \in Nat /\ keys \in Opens /\ locks \in Locked
      BY GoodTypes, InodeIs DEF KeyOpen, Good
    <2> HIDE DEF n
    <2>3. KeysMoved(keys, [keys EXCEPT ![k] = [ino |-> p, create |-> create, notify |-> n]], p, 1)
      BY <2>1, <2>2, KeyAdded
    <2>4. KeysMoved(keys, J, p, 1)
      BY <2>3 DEF n
    <2>5. LocksMoved(locks, locks, u.ino[p].uniq, 0)
      BY <2>2, NothingMoved
    <2>6. x => u.ino[p].shlock = 0
      OBVIOUS
    <2> HIDE DEF J, x
    <2>7. Good(Hold(u, p, x), locks, J) /\ Passes(u, Hold(u, p, x))
      BY <2>1, <2>4, <2>5, <2>6, HoldGood
    <2>8. Kept /\ Passes(u, unit')
      BY <1>2, <2>7 DEF Kept, Good, x
    <2>9. p \in Live(unit')
      <3>1. Remains(u, Hold(u, p, x), p)
        BY HoldRemains
      <3> QED  BY <1>2, <3>1 DEF Remains, x
    <2>10. unit'.ino[p].nname = u.ino[p].nname
      BY <2>8, <2>9 DEF Passes, Drifts, Placed
    <2>11. Grows
      BY <1>2, <2>9, <2>10 DEF Grows
    <2> QED  BY <1>2, <2>8, <2>11 DEF KeptFrom
  <1>3. CASE Unchanged(IF made THEN delete_aino(u, p) ELSE u)
    <2>1. made => Good(delete_aino(u, p), locks, keys) /\ Gone(u, delete_aino(u, p), p)
      BY DeleteGood, DeleteIs DEF Good
    <2> QED  BY <1>3, <2>1, UnchangedKept DEF KeptFrom, Unchanged
  <1> QED  BY <1>1, <1>2, <1>3

\* v is u with a new child of d, which nobody holds.
HasChild(u, v, d, name, dir) ==
    LET p == v.a_uniq IN
    /\ Keeps(u, v) /\ Passes(u, v) /\ Live(v) \subseteq Live(u) \cup {p} /\ p \in Live(v)
    /\ dir \/ u.cache <= CacheMax + u.total => Live(u) \subseteq Live(v)
    /\ p \notin Live(u) /\ p = u.a_uniq + 1 /\ p # Root
    /\ Same(Node(d, name, Append(u.ino[d].nname, name), p, dir), v.ino[p])
    /\ v.ino[p].kids = <<>> /\ ~Busy(v.ino[p]) /\ v.ino[p].elock = FALSE /\ v.ino[p].shlock = 0

LEMMA ChildGood ==
    ASSUME NEW u, NEW d, NEW name \in Names, NEW dir \in BOOLEAN, Good(u, locks, keys),
           d \in Live(u), u.ino[d].dir, NEW v, v = init_child_aino(u, d, name, dir)
    PROVE  Good(v, locks, keys) /\ HasChild(u, v, d, name, dir)
  <1> DEFINE p == u.a_uniq + 1
             n == Node(d, name, Append(u.ino[d].nname, name), p, dir)
  <1>1. /\ Tree(v) /\ Cached(v, None) /\ Keeps(u, v) /\ Carries(u, v)
        /\ Live(v) \subseteq Live(u) \cup {p} /\ v.a_uniq = p /\ p \in Live(v) /\ p # Root
        /\ Same(n, v.ino[p]) /\ v.ino[p].kids = <<>>
        /\ dir \/ u.cache <= CacheMax + u.total => Live(v) = Live(u) \cup {p}
    BY ChildIs DEF Good
  <1>2. Good(v, locks, keys)
    BY <1>1, GoodLooks
  <1>3. p \notin Live(u)
    <2>1. Live(u) \subseteq 0 .. u.a_uniq /\ u.a_uniq \in Nat
      BY Parts DEF Good, Tree
    <2> QED  BY <2>1
  <1>4. n.elock = FALSE /\ n.shlock = 0
    BY DEF Node
  <1> HIDE DEF n
  <1>5. v.ino[p].elock = FALSE /\ v.ino[p].shlock = 0
    BY <1>1, <1>4 DEF Same
  <1>6. ~Busy(v.ino[p])
    BY <1>5 DEF Busy
  <1>7. dir \/ u.cache <= CacheMax + u.total => Live(u) \subseteq Live(v)
    BY <1>1
  <1>8. Passes(u, v)
    BY <1>1, KeepsDrifts DEF Passes
  <1> QED  BY <1>1, <1>2, <1>3, <1>5, <1>6, <1>7, <1>8 DEF HasChild, n

\* The marks do not miss an a_inode that goes.
LEMMA GoneMarks ==
    ASSUME NEW v, NEW w, NEW p, Tree(v), Tree(w), Gone(v, w, p), Marks(v)
    PROVE  Marks(w)
  <1>1. ASSUME NEW q \in Live(w)
        PROVE  Watching(w.ino[q]) /\ w.ino[q].locked = v.ino[q].locked /\ w.ino[q].locked \in Nat
    <2>1. q \in Live(v) /\ Less(v.ino[q], w.ino[q], p)
      BY <1>1 DEF Gone
    <2>2. v.ino[q].kids \in Seq(Nat) /\ Watching(v.ino[q])
      BY <2>1, InodeIs DEF Marks
    <2>3. Len(Without(v.ino[q].kids, {p})) <= Len(v.ino[q].kids)
      BY <2>2, RemovedOrder
    <2>4. Len(v.ino[q].kids) \in Nat /\ Len(Without(v.ino[q].kids, {p})) \in Nat
      BY <2>2, Removed, Elements
    <2> QED  BY <2>1, <2>2, <2>3, <2>4 DEF Less, Watching
  <1>2. Covered(w)
    <2>1. Root \in Live(v) /\ Root \in Live(w) /\ Covered(v) /\ v.total \in Int /\ w.total = v.total
      BY Parts DEF Tree, Marks, Gone
    <2>2. \A q \in Live(v) : v.ino[q].locked \in Nat
      BY DEF Marks, Watching
    <2>3. \A q \in Live(w) : w.ino[q].locked \in Nat
      BY <1>1
    <2>4. w.ino[Root].locked - v.ino[Root].locked <= w.total - v.total
      BY <1>1, <2>1
    <2>5. \A q \in Live(w) \ {Root} : q \in Live(v) \ {Root} /\ w.ino[q].locked <= v.ino[q].locked
      BY <1>1 DEF Gone
    <2> HIDE DEF Root
    <2> QED  BY ONLY <2>1, <2>2, <2>3, <2>4, <2>5, Tree(v), Tree(w), CoveredMoves
  <1> QED  BY <1>1, <1>2 DEF Marks

\* An a_inode that came and goes again.
LEMMA GonePasses ==
    ASSUME NEW u, NEW v, NEW w, NEW p, Tree(u), Tree(v), Tree(w), Passes(u, v), Gone(v, w, p), p \notin Live(u)
    PROVE  Passes(u, w)
  <1>1. Drifts(u, w)
    <2>1. Drifts(u, v) /\ Live(w) = Live(v) \ {p} /\ w.a_uniq = v.a_uniq
          /\ \A q \in Live(w) : Placed(v.ino[q], w.ino[q])
      BY DEF Gone, Passes, Same, Placed
    <2> QED  BY <2>1 DEF Drifts, Placed
  <1>2. ASSUME Marks(u)
        PROVE  /\ Marks(w)
               /\ \A q \in Live(w) : IF q \in Live(u) THEN Follows(u.ino[q], w.ino[q]) ELSE w.ino[q].exnext = 0
    <2>1. Marks(v)
      BY <1>2 DEF Passes, Carries
    <2>2. Marks(w)
      BY <2>1, GoneMarks
    <2>3. ASSUME NEW q \in Live(w), q \in Live(u)
          PROVE  Follows(u.ino[q], w.ino[q])
      <3>1. q \in Live(v) /\ Less(v.ino[q], w.ino[q], p)
        BY <2>3 DEF Gone
      <3>2. Follows(u.ino[q], v.ino[q])
        BY <1>2, <2>3, <3>1 DEF Passes, Carries
      <3>3. ASSUME Grown(u.ino[q].kids, v.ino[q].kids)
            PROVE  Grown(u.ino[q].kids, w.ino[q].kids)
        <4> DEFINE s == u.ino[q].kids
                   t == v.ino[q].kids
        <4>1. s \in Seq(Nat) /\ t \in Seq(Nat) /\ w.ino[q].kids = Without(t, {p})
          BY <2>3, <3>1, InodeIs DEF Less
        <4>2. p \notin ToSet(s)
          BY <2>3 DEF Tree, Children
        <4> HIDE DEF s, t
        <4>3. ToSet(Without(t, {p})) = ToSet(t) \ {p}
          BY <4>1, Removed
        <4>4. \A a, b : Before(Without(t, {p}), a, b) <=> Before(t, a, b) /\ a # p /\ b # p
          BY <4>1, RemovedOrder
        <4>5. \A a, b : Before(s, a, b) => a \in ToSet(s) /\ b \in ToSet(s)
          BY <4>1, Elements DEF Before
        <4>6. Grown(s, t)
          BY <3>3 DEF s, t
        <4>7. Grown(s, Without(t, {p}))
          BY <4>2, <4>3, <4>4, <4>5, <4>6 DEF Grown
        <4> QED  BY <4>1, <4>7 DEF s, t
      <3> QED  BY <3>1, <3>2, <3>3 DEF Follows, Less
    <2>4. ASSUME NEW q \in Live(w), q \notin Live(u)
          PROVE  w.ino[q].exnext = 0
      <3>1. q \in Live(v) /\ Less(v.ino[q], w.ino[q], p)
        BY <2>4 DEF Gone
      <3>2. v.ino[q].exnext = 0
        BY <1>2, <2>4, <3>1 DEF Passes, Carries
      <3> QED  BY <3>1, <3>2 DEF Less
    <2> QED  BY <2>2, <2>3, <2>4
  <1>3. Carries(u, w)
    BY <1>2 DEF Carries
  <1> QED  BY <1>1, <1>3 DEF Passes

----------------------------------------------------------------------------
LEMMA DoFindKept ==
    ASSUME NEW k \in Keys \ KeyOpen, NEW r, NEW name \in Names, NEW create \in 0 .. 2,
           Good(r.u, locks, keys), r.err = "ok" => r.node \in Live(r.u),
           r.err = "not around" /\ r.node # None => r.node \in Live(r.u) /\ r.u.ino[r.node].dir,
           do_find(k, r, name, create)
    PROVE  KeptFrom(r.u)
  <1>1. CASE /\ r.err = "ok"
             /\ LET n == r.u.ino[r.node] IN ~n.dir /\ ~n.elock /\ (create = 2 => n.shlock = 0)
             /\ open_key(k, r.u, r.node, create, FALSE)
    <2>1. FALSE \in BOOLEAN /\ r.node \in Live(r.u)
      BY <1>1
    <2>2. r.node # Root
      BY <1>1 DEF Good, Tree
    <2> QED  BY <1>1, <2>1, <2>2, OpenKeyKept
  <1>2. CASE /\ r.err = "not around" /\ r.node # None /\ create > 0
             /\ \E u \in {init_child_aino(r.u, r.node, name, FALSE)} : open_key(k, u, u.a_uniq, create, TRUE)
    <2>1. PICK v : v = init_child_aino(r.u, r.node, name, FALSE) /\ open_key(k, v, v.a_uniq, create, TRUE)
      BY <1>2
    <2>2. FALSE \in BOOLEAN /\ r.node \in Live(r.u) /\ r.u.ino[r.node].dir
      BY <1>2
    <2>3. Good(v, locks, keys) /\ HasChild(r.u, v, r.node, name, FALSE)
      BY <2>1, <2>2, ChildGood
    <2> DEFINE p == v.a_uniq
    <2>4. /\ p \in Live(v) /\ TRUE \in BOOLEAN /\ ~v.ino[p].elock /\ (create = 2 => v.ino[p].shlock = 0)
          /\ p # Root /\ v.ino[p].kids = <<>> /\ ~Busy(v.ino[p]) /\ Passes(r.u, v) /\ p \notin Live(r.u)
      BY <2>3 DEF HasChild
    <2> HIDE DEF p
    <2>5. open_key(k, v, p, create, TRUE)
      BY <2>1 DEF p
    <2>6. \/ KeptFrom(v)
          \/ Kept /\ Gone(v, unit', p) /\ host' = host /\ scan' = scan
      BY <2>3, <2>4, <2>5, OpenKeyKept
    <2>7. CASE KeptFrom(v)
      <3>1. Kept /\ Passes(v, unit') /\ Grows /\ scan' = scan /\ Tree(unit')
        BY <2>7 DEF KeptFrom, Kept, Good
      <3>2. Passes(r.u, unit')
        BY <2>3, <2>4, <3>1, PassesBoth DEF Good
      <3> QED  BY <3>1, <3>2 DEF KeptFrom
    <2>8. CASE Kept /\ Gone(v, unit', p) /\ host' = host /\ scan' = scan
      <3>1. Tree(unit')
        BY <2>8 DEF Kept, Good
      <3>2. Passes(r.u, unit')
        BY <2>3, <2>4, <2>8, <3>1, GonePasses DEF Good
      <3> QED  BY <2>8, <3>2 DEF KeptFrom, Grows
    <2> QED  BY <2>6, <2>7, <2>8
  <1> QED  BY <1>1, <1>2 DEF do_find

\* The hold of the lock becomes that of the file.
LEMMA FromLockKept ==
    ASSUME NEW k \in Keys \ KeyOpen, NEW q \in LockHeld, NEW r, Good(r.u, locks, keys),
           r.node # None => r.node \in Live(r.u) /\ r.u.ino[r.node].uniq = q,
           action_fh_from_lock(k, q, r)
    PROVE  KeptFrom(r.u)
  <1> DEFINE u == r.u
             p == r.node
             J == [keys EXCEPT ![k] = [ino |-> p, create |-> 0, notify |-> FALSE]]
  <1>1. \/ Unchanged(u)
        \/ /\ keys' = J /\ unit' = de_recycle_aino(u, {p}) /\ locks' = [locks EXCEPT ![q] = @ - 1]
           /\ host' = host /\ scan' = scan
    BY DEF action_fh_from_lock
  <1>2. p \in Live(u) /\ u.ino[p].uniq = q
    BY DEF action_fh_from_lock
  <1>3. CASE /\ keys' = J /\ unit' = de_recycle_aino(u, {p}) /\ locks' = [locks EXCEPT ![q] = @ - 1]
             /\ host' = host /\ scan' = scan
    <2>1. keys[k] = NoKey /\ p \in Nat /\ keys \in Opens /\ locks \in Locked /\ FALSE \in BOOLEAN /\ 0 \in 0 .. 2
      BY <1>2, GoodTypes, InodeIs DEF KeyOpen, Good
    <2>2. KeysMoved(keys, J, p, 1)
      BY <2>1, KeyAdded
    <2>3. LocksMoved(locks, locks', q, -1) /\ Held(locks, q) > 0
      BY <1>3, LocksOneLess
    <2> DEFINE m == u.ino[p]
    <2>4. Busy(m) /\ m.shlock \in Nat /\ m.elock \in BOOLEAN /\ m \in Nodes
      BY <1>2, <2>3, BusyIs, InodeIs DEF Good
    <2>5. ChangedAt(u, u, p, m)
      BY DEF ChangedAt, Good, Tree
    <2> DEFINE w == de_recycle_aino(u, {p})
    <2>6. Tree(w) /\ Cached(w, None) /\ Restated(u, w, p, m) /\ Flushes(u, w)
      BY <1>2, <2>4, <2>5, TakenOut DEF Good
    <2> HIDE DEF w, J
    <2>7. Count(m) = Count(m) + -1 + 1 /\ (m.elock => m.shlock = 0)
      <3>1. Count(m) \in Int
        BY <2>4 DEF Count
      <3>2. m.elock => m.shlock = 0
        BY <1>2 DEF Good, Counted, CountedAt
      <3> QED  BY <3>1, <3>2
    <2>8. Counted(w, locks', J)
      <3>1. /\ Tree(u) /\ Counted(u, locks, keys) /\ p \in Live(u) /\ Restated(u, w, p, m)
            /\ m.uniq = u.ino[p].uniq /\ LocksMoved(locks, locks', m.uniq, -1)
            /\ Count(m) = Count(u.ino[p]) + -1 + 1 /\ (m.elock => m.shlock = 0)
        BY <1>2, <2>3, <2>6, <2>7 DEF Good
      <3>2. -1 \in Int /\ 1 \in Int
        BY ONLY TRUE
      <3> HIDE DEF u, p, m
      <3> QED  BY ONLY <2>2, <3>1, <3>2, Recounted
    <2>9. Passes(u, w)
      <3>1. Placed(u.ino[p], m) /\ Unmarked(u, u, p, m)
        BY DEF Placed, Unmarked, SameMarks
      <3> HIDE DEF m
      <3> QED  BY <1>2, <2>5, <2>6, <3>1, HoldPasses DEF Good
    <2> QED  BY <1>3, <2>6, <2>8, <2>9 DEF KeptFrom, Grows, Kept, Good, w
  <1> QED  BY <1>1, <1>3, UnchangedKept

\* An a_inode that is gone is used: nothing else of the model changes.
LEMMA WildKept ==
    ASSUME NEW u, Good(u, locks, keys), Wild(u)
    PROVE  KeptFrom(u)
  <1> DEFINE v == [u EXCEPT !.wild = TRUE]
  <1>1. v \in Units
    <2>1. u \in Units
      BY GoodTypes
    <2> QED  BY ONLY <2>1 DEF Units
  <1>2. v.ino = u.ino /\ v.chain = u.chain /\ v.cache = u.cache /\ v.a_uniq = u.a_uniq
    BY GoodTypes DEF Units
  <1> HIDE DEF v
  <1>3. Live(v) = Live(u)
    BY <1>2 DEF Live
  <1>4. Tree(v)
    BY <1>1, <1>2, TreeOf DEF Good
  <1>5. Cached(v, None)
    BY <1>2, <1>3 DEF Good, Cached, Idle
  <1>6. Counted(v, locks, keys)
    BY <1>2, <1>3 DEF Good, Counted, CountedAt
  <1>7. KeptFrom(v)
    BY <1>4, <1>5, <1>6, UnchangedKept DEF Wild, Good, v
  <1>8. Passes(u, v)
    <2>1. Drifts(u, v)
      BY <1>2, <1>3, GoodTypes, Parts DEF Drifts, Placed
    <2>2. Carries(u, v)
      <3>1. v.total = u.total
        BY GoodTypes DEF v, Units
      <3>2. \A q \in Live(v) : SameMarks(u.ino[q], v.ino[q])
        BY <1>2 DEF SameMarks
      <3> QED  BY <1>3, <1>4, <3>1, <3>2, MarksCarry DEF Good
    <2> QED  BY <2>1, <2>2 DEF Passes
  <1>9. Tree(unit') /\ Passes(v, unit')
    BY <1>7 DEF KeptFrom, Kept, Good
  <1>10. Passes(u, unit')
    BY <1>4, <1>8, <1>9, PassesBoth DEF Good
  <1> QED  BY <1>7, <1>10 DEF KeptFrom

LEMMA EndKept ==
    ASSUME NEW k \in KeyOpen, Good(unit, locks, keys), action_end(k)
    PROVE  KeptFrom(unit)
  <1> DEFINE p == keys[k].ino
             v == IF keys[k].notify THEN notify_check(unit, p) ELSE unit
  <1>1. CASE p \notin Live(unit)
    BY <1>1, WildKept DEF action_end
  <1>2. CASE p \in Live(unit)
    <2>1. unit' = Release(v, p) /\ keys' = [keys EXCEPT ![k] = NoKey] /\ locks' = locks
          /\ host' = host /\ scan' = scan
      BY <1>2 DEF action_end
    <2>2. keys \in Opens /\ locks \in Locked /\ k \in Opened(keys, p) /\ p \in Nat
      BY <1>2, GoodTypes, InodeIs DEF KeyOpen, Opened, Good
    <2>3. Good(v, locks, keys) /\ Keeps(unit, v) /\ Passes(unit, v)
      <3>1. Tree(v) /\ Cached(v, None) /\ Looks(unit, v)
        BY NotifyIs, LooksSelf DEF Good, Tree
      <3>2. Keeps(unit, v) /\ Passes(unit, v)
        BY <3>1, LooksPasses DEF Looks, Sees
      <3> HIDE DEF v
      <3> QED  BY <3>1, <3>2, GoodLooks
    <2> HIDE DEF v
    <2>4. p \in Live(v)
      <3>1. Busy(unit.ino[p])
        BY <1>2, <2>2, BusyIs DEF Good
      <3> QED  BY <1>2, <2>3, <3>1 DEF Keeps
    <2>5. LocksMoved(locks, locks, v.ino[p].uniq, 0)
      BY <2>2, NothingMoved
    <2>6. KeysMoved(keys, [keys EXCEPT ![k] = NoKey], p, -1)
      BY <2>2, KeyGone DEF KeyOpen
    <2>7. Good(Release(v, p), locks, [keys EXCEPT ![k] = NoKey]) /\ Passes(v, Release(v, p))
      <3>1. 0 \in Int /\ -1 \in Int /\ 0 + -1 = -1
        BY ONLY TRUE
      <3> HIDE DEF p
      <3> QED  BY <2>2, <2>3, <2>4, <2>5, <2>6, <3>1, ReleaseGood
    <2>8. Passes(unit, unit') /\ Kept
      <3>1. Tree(unit) /\ Tree(v) /\ Tree(unit') /\ Passes(v, unit') /\ Kept
        BY <2>1, <2>3, <2>7 DEF Kept, Good
      <3> QED  BY <2>3, <3>1, PassesBoth
    <2> QED  BY <2>1, <2>8 DEF KeptFrom, Grows
  <1> QED  BY <1>1, <1>2

----------------------------------------------------------------------------
LEMMA NotifyGood ==
    ASSUME NEW u, NEW p, NEW L, NEW K, Good(u, L, K)
    PROVE  LET v == notify_check(u, p)
           IN  Good(v, L, K) /\ Keeps(u, v) /\ Looks(u, v) /\ (Shallow => Tops(u, v))
  <1> DEFINE v == notify_check(u, p)
  <1>1. Tree(v) /\ Cached(v, None) /\ Keeps(u, v) /\ Looks(u, v) /\ (Shallow => Tops(u, v))
    BY NotifyIs DEF Good, Looks, Sees
  <1> HIDE DEF v
  <1>2. Good(v, L, K)
    BY <1>1, GoodLooks
  <1> QED  BY <1>1, <1>2 DEF v

LEMMA CreateDirKept ==
    ASSUME NEW r, NEW name \in Names, Good(r.u, locks, keys),
           r.err = "not around" /\ r.node # None => r.node \in Live(r.u) /\ r.u.ino[r.node].dir,
           action_create_dir(r, name)
    PROVE  KeptFrom(r.u)
  <1>1. PICK u : /\ u = init_child_aino(r.u, r.node, name, TRUE)
                 /\ \E failed \in MayFail("mkdir") :
                       \E v \in {notify_check([u EXCEPT !.ino[u.a_uniq].shlock = 1], u.a_uniq)} :
                         \/ Unchanged(u)
                         \/ /\ unit' = v /\ make_lock(v, u.a_uniq) /\ keys' = keys
                            /\ host' = With(host, u.ino[u.a_uniq].nname, "dir") /\ scan' = scan
    BY DEF action_create_dir
  <1>2. r.node \in Live(r.u) /\ r.u.ino[r.node].dir /\ TRUE \in BOOLEAN
    BY DEF action_create_dir
  <1>3. Good(u, locks, keys) /\ HasChild(r.u, u, r.node, name, TRUE)
    BY <1>1, <1>2, ChildGood
  <1>9. PICK p : p = u.a_uniq
    BY ZenonT(60)
  <1>4. p \in Live(u) /\ u.ino[p].dir /\ u.ino[p].elock = FALSE /\ u.ino[p].shlock = 0 /\ u.ino[p].uniq = p
    <2>1. p \in Live(u) /\ Same(Node(r.node, name, Append(r.u.ino[r.node].nname, name), p, TRUE), u.ino[p])
          /\ u.ino[p].elock = FALSE /\ u.ino[p].shlock = 0
      BY <1>3, <1>9 DEF HasChild
    <2> QED  BY <2>1 DEF Same, Node
  <1> DEFINE x == SetTo(u, p, FALSE, 1)
  <1>5. [u EXCEPT !.ino[p].shlock = 1] = x
    <2>1. u \in Units /\ u.ino \in [Live(u) -> Nodes]
      BY <1>3, <1>4, InodeIs DEF Good
    <2>2. PICK n \in Nodes : n = u.ino[p]
      BY <1>4, <2>1
    <2>3. [n EXCEPT !.elock = FALSE, !.shlock = 1] = [n EXCEPT !.shlock = 1]
      BY ONLY <1>4, <2>2 DEF Nodes
    <2>4. x = [u EXCEPT !.ino[p] = [n EXCEPT !.elock = FALSE, !.shlock = 1]]
      BY ZenonT(60), <1>4, <2>1, <2>2 DEF SetTo, Units
    <2>5. [u EXCEPT !.ino[p].shlock = 1] = [u EXCEPT !.ino[p] = [n EXCEPT !.shlock = 1]]
      BY <2>2
    <2> HIDE DEF x
    <2> QED  BY <2>3, <2>4, <2>5
  <1> DEFINE v == notify_check(x, p)
  <1> DEFINE there == host' = With(host, u.ino[p].nname, "dir") /\ scan' = scan
  <1>6. Unchanged(u) \/ (unit' = v /\ make_lock(v, p) /\ keys' = keys /\ there)
    BY <1>1, <1>5, <1>9
  <1> HIDE DEF there
  <1>7. CASE unit' = v /\ make_lock(v, p) /\ keys' = keys /\ there
    <2>1. PICK m \in Nodes : /\ Tree(x) /\ ChangedAt(u, x, p, m) /\ Placed(u.ino[p], m)
                             /\ m.elock = FALSE /\ m.shlock = 1 /\ Unmarked(u, x, p, m)
      <3>1. PICK s : s = 1
        OBVIOUS
      <3>2. PICK e : e = FALSE
        OBVIOUS
      <3>3. s \in Int
        BY ONLY <3>1
      <3>4. e \in BOOLEAN
        BY ONLY <3>2
      <3>5. x = SetTo(u, p, e, s)
        BY <3>1, <3>2
      <3> HIDE DEF x
      <3>6. Tree(u) /\ p \in Live(u)
        BY <1>3, <1>4 DEF Good
      <3>7. PICK m \in Nodes : /\ Tree(x) /\ ChangedAt(u, x, p, m) /\ Placed(u.ino[p], m)
                               /\ m.elock = e /\ m.shlock = s /\ Unmarked(u, x, p, m)
        BY ONLY <3>3, <3>4, <3>5, <3>6, SetHolds
      <3> QED  BY <3>1, <3>2, <3>7
    <2> HIDE DEF x
    <2>2. Cached(x, None) /\ Restated(u, x, p, m)
      <3>1. Idle(x) = Idle(u)
        <4>1. m.dir /\ x.ino[p] = m /\ Live(x) = Live(u) /\ \A q \in Live(u) : q # p => x.ino[q] = u.ino[q]
          BY <1>4, <2>1 DEF ChangedAt, Placed
        <4> QED  BY <1>4, <4>1 DEF Idle
      <3> QED  BY <1>3, <2>1, <3>1 DEF Good, Cached, ChangedAt, Restated
    <2>3. Tree(v) /\ Cached(v, None) /\ Keeps(x, v) /\ Passes(x, v)
      <3>1. Tree(v) /\ Cached(v, None) /\ Looks(x, v)
        BY <2>1, <2>2, NotifyIs
      <3> HIDE DEF v
      <3> QED  BY <3>1, LooksPasses DEF Looks, Sees
    <2> HIDE DEF v
    <2>4. p \in 0 .. MaxInodes /\ v.ino[p].uniq = p
      <3>1. v.a_uniq >= x.a_uniq /\ x.a_uniq = p /\ v.a_uniq <= MaxInodes
        BY <1>7, <1>9, <2>1, <2>3 DEF Keeps, ChangedAt, make_lock
      <3>2. p \in Nat /\ v.a_uniq \in Nat /\ MaxInodes \in Nat
        BY <1>3, <1>9, <2>3, Parts, TreeAssumption DEF Good, Tree
      <3>3. p \in 0 .. MaxInodes
        BY ONLY <3>1, <3>2
      <3>4. m.dir /\ m.uniq = p /\ p \in Live(x) /\ x.ino[p] = m
        BY <1>4, <2>1 DEF ChangedAt, Placed
      <3>5. Same(x.ino[p], v.ino[p])
        BY <2>3, <3>4 DEF Keeps
      <3> QED  BY <3>3, <3>4, <3>5 DEF Same
    <2>5. locks' = [locks EXCEPT ![p] = @ + 1] /\ locks \in Locked /\ keys \in Opens
      BY <1>3, <1>7, <2>4, GoodTypes DEF make_lock
    <2>6. LocksMoved(locks, locks', p, 1)
      BY <2>4, <2>5, LockAdded
    <2>7. KeysMoved(keys, keys, p, 0)
      BY <2>5, NothingMoved
    <2>8. m.uniq = u.ino[p].uniq /\ m.uniq = p /\ Count(m) = Count(u.ino[p]) + 1 + 0 /\ (m.elock => m.shlock = 0)
      <3>1. m.uniq = u.ino[p].uniq /\ m.uniq = p /\ m.elock = FALSE
        BY <1>4, <2>1 DEF Placed
      <3>2. Count(m) = 1 /\ Count(u.ino[p]) = 0
        BY <1>4, <2>1 DEF Count
      <3>3. Count(m) = Count(u.ino[p]) + 1 + 0
        BY ONLY <3>2
      <3> QED  BY <3>1, <3>3
    <2>9. Counted(x, locks', keys)
      <3>1. 1 \in Int /\ 0 \in Int
        BY ONLY TRUE
      <3>2. Tree(u) /\ Counted(u, locks, keys)
        BY <1>3 DEF Good
      <3> QED  BY ONLY <1>4, <2>2, <2>6, <2>7, <2>8, <3>1, <3>2, Recounted
    <2>10. Counted(v, locks', keys)
      BY <2>1, <2>3, <2>9, CountedKeeps
    <2>11. Kept
      BY <1>7, <2>3, <2>10 DEF Kept, Good
    <2>12. Passes(r.u, v)
      <3>1. Drifts(u, x)
        <4>1. \A q \in Live(u) : Placed(u.ino[q], x.ino[q])
          BY <2>1, <2>2 DEF Restated, Placed
        <4>2. Live(x) = Live(u) /\ x.a_uniq = u.a_uniq /\ u.a_uniq \in Nat
          BY <1>3, <2>1, Parts DEF ChangedAt, Good, Tree
        <4> QED  BY ONLY SMTT(30), <4>1, <4>2 DEF Drifts
      <3>2. Carries(u, x)
        <4>1. \A q \in Live(u) : q # p => x.ino[q] = u.ino[q]
          BY <2>2 DEF Restated
        <4>2. x.ino[p] = m /\ SameMarks(u.ino[p], m) /\ x.total = u.total /\ Live(x) = Live(u)
          BY <2>1 DEF ChangedAt, Unmarked
        <4>3. \A q \in Live(x) : SameMarks(u.ino[q], x.ino[q])
          BY <4>1, <4>2 DEF SameMarks
        <4> QED  BY <1>3, <2>1, <4>2, <4>3, MarksCarry DEF Good
      <3>3. Passes(u, x) /\ Tree(r.u) /\ Tree(u) /\ Tree(x)
        BY <1>3, <2>1, <3>1, <3>2 DEF Passes, Good
      <3>4. Passes(u, v)
        BY ONLY <2>3, <3>3, PassesBoth
      <3>5. Passes(r.u, u)
        BY <1>3 DEF HasChild
      <3> QED  BY ONLY <2>3, <3>3, <3>4, <3>5, PassesBoth
    <2>13. Grows
      <3>1. p \in Live(x) /\ Placed(u.ino[p], x.ino[p]) /\ x.ino[p].dir /\ p # Root
        BY <1>3, <1>4, <1>9, <2>1 DEF ChangedAt, Placed, HasChild
      <3>2. p \in Live(v) /\ v.ino[p].nname = u.ino[p].nname
        BY <2>3, <3>1 DEF Keeps, Same, Placed
      <3> QED  BY <1>7, <3>1, <3>2 DEF there, Grows
    <2> QED  BY <1>7, <2>11, <2>12, <2>13 DEF KeptFrom, there
  <1>8. CASE Unchanged(u)
    <2>1. KeptFrom(u)
      BY <1>3, <1>8, UnchangedKept
    <2>2. Passes(u, unit') /\ Tree(unit')
      BY <2>1 DEF KeptFrom, Kept, Good
    <2>3. Passes(r.u, unit')
      BY <1>3, <2>2, PassesBoth DEF Good, HasChild
    <2> QED  BY <2>1, <2>3 DEF KeptFrom
  <1> QED  BY <1>6, <1>7, <1>8

(* The a_inode p, with no guest's loop on it, goes with its object. *)
Deletes(u, p) ==
    LET path == u.ino[p].nname IN
    /\ Tree(u) /\ p \in Live(u) /\ p # Root /\ Leaves(u, p) /\ Empty(path)
    /\ IF u.ino[p].kids = <<>> THEN Gone(u, unit', p) ELSE unit' = u
    /\ host' = Free(host, path) /\ scan' = Pruned(unit', host', path)

LEMMA DeleteObjectKept ==
    ASSUME NEW r, Good(r.u, locks, keys), r.err = "ok" => r.node \in Live(r.u),
           action_delete_object(r)
    PROVE  KeptFrom(r.u) \/ (Kept /\ \E u : Looks(r.u, u) /\ Deletes(u, r.node))
  <1> DEFINE p == r.node
  <1>1. PICK u : /\ u = notify_check(r.u, p)
                 /\ \/ Unchanged(r.u)
                    \/ p \notin Live(u) /\ Wild(u)
                    \/ /\ p \in Live(u) /\ unit' = (IF u.ino[p].kids = <<>> THEN delete_aino(u, p) ELSE u)
                       /\ locks' = locks /\ keys' = keys /\ Empty(r.u.ino[p].nname)
                       /\ host' = Free(host, r.u.ino[p].nname)
                       /\ scan' = Pruned(unit', host', r.u.ino[p].nname)
    BY DEF action_delete_object
  <1>2. p \in Live(r.u) /\ ~Busy(r.u.ino[p]) /\ p # Root /\ Leaves(r.u, p)
    BY DEF action_delete_object
  <1>3. Good(u, locks, keys) /\ Keeps(r.u, u) /\ Looks(r.u, u) /\ Passes(r.u, u)
    BY <1>1, NotifyGood, LooksPasses
  <1>4. CASE /\ p \in Live(u) /\ unit' = (IF u.ino[p].kids = <<>> THEN delete_aino(u, p) ELSE u)
             /\ locks' = locks /\ keys' = keys /\ Empty(r.u.ino[p].nname)
             /\ host' = Free(host, r.u.ino[p].nname)
             /\ scan' = Pruned(unit', host', r.u.ino[p].nname)
    <2>1. Same(r.u.ino[p], u.ino[p])
      BY <1>2, <1>3, <1>4 DEF Keeps
    <2>2. ~Busy(u.ino[p])
      BY <1>2, <2>1 DEF Same, Busy
    <2>3. u.ino[p].kids = <<>> => Good(delete_aino(u, p), locks, keys)
      BY <1>2, <1>3, <1>4, <2>2, DeleteGood
    <2>4. Kept
      BY <1>3, <1>4, <2>3 DEF Kept, Good
    <2>5. u.ino[p].kids = <<>> => Gone(u, unit', p)
      BY <1>2, <1>3, <1>4, DeleteIs DEF Good
    <2>6. Leaves(u, p) /\ u.ino[p].nname = r.u.ino[p].nname
      BY <1>2, <2>1 DEF Same, Leaves, Current
    <2>7. Deletes(u, p)
      BY <1>2, <1>3, <1>4, <2>5, <2>6 DEF Deletes, Good
    <2> QED  BY <1>3, <2>4, <2>7
  <1>5. CASE p \notin Live(u) /\ Wild(u)
    <2>1. KeptFrom(u)
      BY <1>3, <1>5, WildKept
    <2>2. Passes(u, unit') /\ Tree(unit')
      BY <2>1 DEF KeptFrom, Kept, Good
    <2>3. Passes(r.u, unit')
      BY <1>3, <2>2, PassesBoth DEF Good
    <2> QED  BY <2>1, <2>3 DEF KeptFrom
  <1> QED  BY <1>1, <1>4, <1>5, UnchangedKept

----------------------------------------------------------------------------
(* Rename: replace_aino gives the place of a1 in the world to a2. *)
\* What becomes of the a_inode n when the children of a1 are given to a2.
GivenTo(n, m, a1, a2, alone) ==
    /\ m.parent = IF n.parent = a1 THEN a2 ELSE n.parent
    /\ m.name = n.name /\ m.dir = n.dir
    /\ m.nname = n.nname \/ (m.nname = Garbled /\ ~alone /\ n.parent # None)
Holds(n, m) ==
    m.shlock = n.shlock /\ m.elock = n.elock /\ m.exnext = n.exnext /\ m.locked = n.locked
\* v is u with the children, the uniq and the counts of a1 given to a2.
GivenOver(u, v, a1, a2) ==
    /\ v \in Units /\ Live(v) = Live(u) /\ v.chain = u.chain /\ v.cache = u.cache
    /\ v.a_uniq = u.a_uniq /\ v.wild = u.wild /\ v.total = u.total
    /\ \A q \in Live(u) : GivenTo(u.ino[q], v.ino[q], a1, a2, Children(u, a1) = {})
    /\ \A q \in Live(u) \ {a1, a2} :
          v.ino[q].uniq = u.ino[q].uniq /\ Holds(u.ino[q], v.ino[q]) /\ v.ino[q].kids = u.ino[q].kids
    /\ v.ino[a1].kids = <<>> /\ v.ino[a2].kids = u.ino[a1].kids
    /\ v.ino[a2].uniq = u.ino[a1].uniq /\ Holds(u.ino[a1], v.ino[a2])

LEMMA GivenTree ==
    ASSUME NEW u, NEW v, NEW a1, NEW a2, Tree(u), a1 \in Live(u), a2 \in Live(u), a1 # a2,
           a1 # Root, a2 # Root, u.ino[a1].dir = u.ino[a2].dir, u.ino[a2].kids = <<>>,
           u.ino[a2].parent # a1, Plain => u.ino[a1].kids = <<>>,
           GivenOver(u, v, a1, a2), v.ino[a1].uniq = u.ino[a2].uniq
    PROVE  Tree(v)
  <1>1. /\ v \in Units /\ Live(v) = Live(u) /\ v.a_uniq = u.a_uniq /\ Live(u) \subseteq Nat /\ u \in Units
        /\ \A q \in Live(u) : GivenTo(u.ino[q], v.ino[q], a1, a2, Children(u, a1) = {})
    BY Parts DEF GivenOver, Tree
  <1>2. Root \in Live(v) /\ Live(v) \subseteq 0 .. v.a_uniq
    BY <1>1 DEF Tree
  <1>3. v.ino[Root].parent = None /\ v.ino[Root].nname = <<>> /\ v.ino[Root].dir
    <2>1. u.ino[Root].parent = None /\ u.ino[Root].nname = <<>> /\ u.ino[Root].dir
      BY DEF Tree
    <2>2. a1 # None
      BY <1>1 DEF None
    <2> QED  BY <1>1, <1>2, <2>1, <2>2 DEF GivenTo
  <1>4. Plain => Children(u, a1) = {}
    BY SMTT(30), NoElements DEF Tree
  <1>5. ASSUME NEW p \in Live(v), p # Root
        PROVE  Under(v, p)
    <2> DEFINE d == u.ino[p].parent
               e == v.ino[p].parent
    <2>1. Under(u, p) /\ GivenTo(u.ino[p], v.ino[p], a1, a2, Children(u, a1) = {})
      BY <1>1, <1>5 DEF Tree
    <2>2. d \in Live(u) /\ u.ino[d].dir /\ e = IF d = a1 THEN a2 ELSE d
      BY <2>1 DEF Under, GivenTo
    <2>3. e \in Live(v) /\ v.ino[e].dir
      <3>1. \A q \in Live(u) : v.ino[q].dir = u.ino[q].dir
        BY <1>1 DEF GivenTo
      <3> QED  BY <1>1, <2>2, <3>1
    <2>4. v.ino[p].name \in Names
      BY SMTT(30), <2>1 DEF Under, GivenTo
    <2>5. ASSUME Plain
          PROVE  v.ino[p].nname = Append(v.ino[e].nname, v.ino[p].name)
      <3>1. Children(u, a1) = {}
        BY <1>4, <2>5
      <3>2. e = d
        BY <1>1, <1>5, <2>2, <3>1 DEF Children
      <3>3. v.ino[p].nname = u.ino[p].nname /\ v.ino[e].nname = u.ino[e].nname /\ v.ino[p].name = u.ino[p].name
        BY SMTT(30), <1>1, <1>5, <2>2, <3>1, <3>2 DEF GivenTo
      <3>4. u.ino[p].nname = Append(u.ino[d].nname, u.ino[p].name)
        BY Zenon, <2>1, <2>5 DEF Under
      <3> QED  BY Zenon, <3>2, <3>3, <3>4
    <2> QED  BY <2>3, <2>4, <2>5 DEF Under
  <1>6. ASSUME NEW p \in Live(v)
        PROVE  NoDup(v.ino[p].kids) /\ ToSet(v.ino[p].kids) = Children(v, p)
    <2>1. \A q \in Live(u) : v.ino[q].parent = IF u.ino[q].parent = a1 THEN a2 ELSE u.ino[q].parent
      BY <1>1 DEF GivenTo
    <2>2. \A q \in Live(u) : NoDup(u.ino[q].kids) /\ ToSet(u.ino[q].kids) = Children(u, q)
      BY DEF Tree
    <2>3. Children(u, a2) = {}
      BY <2>2, NoElements
    <2>4. CASE p = a1
      <3>1. Children(v, a1) = {}
        BY <1>1, <2>1 DEF Children
      <3> QED  BY <2>4, <3>1, NoElements DEF GivenOver
    <2>5. CASE p = a2
      <3>1. Children(v, a2) = Children(u, a1)
        BY <1>1, <2>1, <2>3 DEF Children
      <3> QED  BY <2>2, <2>5, <3>1 DEF GivenOver
    <2>6. CASE p \notin {a1, a2}
      <3>1. Children(v, p) = Children(u, p)
        BY <1>1, <2>1, <2>6 DEF Children
      <3>2. v.ino[p].kids = u.ino[p].kids
        BY <1>1, <2>6 DEF GivenOver
      <3> QED  BY <1>1, <2>2, <3>1, <3>2
    <2> QED  BY <2>4, <2>5, <2>6
  <1>7. \A p \in Live(u) : v.ino[p].uniq = IF p = a1 THEN u.ino[a2].uniq
                                           ELSE IF p = a2 THEN u.ino[a1].uniq ELSE u.ino[p].uniq
    BY DEF GivenOver
  <1>8. \A p \in Live(v) : v.ino[p].uniq <= v.a_uniq
    <2>1. \A p \in Live(u) : u.ino[p].uniq <= u.a_uniq
      BY DEF Tree
    <2> QED  BY <1>1, <1>7, <2>1
  <1>9. \A p, q \in Live(v) : v.ino[p].uniq = v.ino[q].uniq => p = q
    <2>1. \A p, q \in Live(u) : u.ino[p].uniq = u.ino[q].uniq => p = q
      BY DEF Tree
    <2> QED  BY <1>1, <1>7, <2>1
  <1> QED  BY <1>1, <1>2, <1>3, <1>5, <1>6, <1>8, <1>9 DEF Tree

\* The unit of a node changed.
GivenNode(n, o) ==
    [n EXCEPT !.uniq = o.uniq, !.elock = o.elock, !.shlock = o.shlock, !.exnext = o.exnext,
              !.locked = o.locked, !.kids = o.kids]
LEMMA GivenNodeIs ==
    ASSUME NEW n \in Nodes, NEW o \in Nodes
    PROVE  LET m == GivenNode(n, o)
           IN  /\ m \in Nodes /\ m.parent = n.parent /\ m.name = n.name /\ m.nname = n.nname /\ m.dir = n.dir
               /\ m.uniq = o.uniq /\ m.kids = o.kids /\ Holds(o, m)
  <1> DEFINE m == GivenNode(n, o)
  <1>1. m \in Nodes
    BY DEF GivenNode, Nodes
  <1>2. m.parent = n.parent /\ m.name = n.name /\ m.nname = n.nname
    BY DEF GivenNode, Nodes
  <1>3. m.uniq = o.uniq /\ m.kids = o.kids /\ m.shlock = o.shlock
    BY DEF GivenNode, Nodes
  <1>4. m.elock = o.elock
    BY DEF GivenNode, Nodes
  <1>5. m.dir = n.dir
    BY DEF GivenNode, Nodes
  <1>6. m.exnext = o.exnext /\ m.locked = o.locked
    BY DEF GivenNode, Nodes
  <1> HIDE DEF m
  <1> QED  BY <1>1, <1>2, <1>3, <1>4, <1>5, <1>6 DEF Holds, m

\* What replace_aino does before it moves the children.
Taken(u, a1, a2) == [u EXCEPT !.ino[a2] = GivenNode(u.ino[a2], u.ino[a1]), !.ino[a1].kids = <<>>]
LEMMA TakenIs ==
    ASSUME NEW u, NEW a1, NEW a2, Tree(u), a1 \in Live(u), a2 \in Live(u), a1 # a2
    PROVE  LET x == Taken(u, a1, a2)
           IN  /\ x \in Units /\ Live(x) = Live(u) /\ x.chain = u.chain /\ x.cache = u.cache
               /\ x.a_uniq = u.a_uniq /\ x.wild = u.wild /\ x.total = u.total
               /\ x.ino[a2] = GivenNode(u.ino[a2], u.ino[a1])
               /\ x.ino[a1] = [u.ino[a1] EXCEPT !.kids = <<>>]
               /\ \A q \in Live(u) \ {a1, a2} : x.ino[q] = u.ino[q]
  <1>1. u \in Units /\ u.ino \in [Live(u) -> Nodes] /\ Live(u) \in SUBSET Nat
    BY Parts DEF Tree
  <1>2. PICK o \in Nodes : o = u.ino[a1]
    BY <1>1
  <1>3. PICK n \in Nodes : n = u.ino[a2]
    BY <1>1
  <1>4. PICK m : m = GivenNode(n, o)
    OBVIOUS
  <1>5. PICK k : k = [o EXCEPT !.kids = <<>>]
    OBVIOUS
  <1>6. m \in Nodes
    BY <1>4, GivenNodeIs
  <1>7. k \in Nodes
    BY <1>5, WithKids, NoElements
  <1>8. PICK f : f = [[u.ino EXCEPT ![a2] = m] EXCEPT ![a1] = k]
    OBVIOUS
  <1>9. f \in [Live(u) -> Nodes] /\ f[a2] = m /\ f[a1] = k /\ \A q \in Live(u) \ {a1, a2} : f[q] = u.ino[q]
    BY <1>1, <1>6, <1>7, <1>8
  <1>10. PICK x : x = Taken(u, a1, a2)
    OBVIOUS
  <1>11. x = [u EXCEPT !.ino = f]
    <2>1. x = [u EXCEPT !.ino[a2] = m, !.ino[a1].kids = <<>>]
      BY <1>2, <1>3, <1>4, <1>10 DEF Taken
    <2>2. [u EXCEPT !.ino[a2] = m] = [u EXCEPT !.ino = [u.ino EXCEPT ![a2] = m]]
      BY <1>1 DEF Units
    <2>3. PICK g : g = [u.ino EXCEPT ![a2] = m]
      OBVIOUS
    <2>4. g \in [Live(u) -> Nodes] /\ g[a1] = o
      BY <1>1, <1>2, <1>6, <2>3
    <2>5. PICK w : w = [u EXCEPT !.ino = g]
      OBVIOUS
    <2>6. w \in Units /\ w.ino = g
      BY <1>1, <2>4, <2>5, WithIno
    <2>7. x = [w EXCEPT !.ino[a1].kids = <<>>]
      BY <2>1, <2>2, <2>3, <2>5
    <2>8. x = [w EXCEPT !.ino = [w.ino EXCEPT ![a1] = k]]
      BY <1>5, <2>4, <2>6, <2>7 DEF Units
    <2>9. x = [w EXCEPT !.ino = f]
      BY <1>8, <2>3, <2>6, <2>8
    <2> QED  BY <1>1, <2>5, <2>9 DEF Units
  <1>12. /\ x \in Units /\ x.ino = f /\ Live(x) = Live(u) /\ x.chain = u.chain /\ x.cache = u.cache
         /\ x.a_uniq = u.a_uniq /\ x.wild = u.wild /\ x.total = u.total
    BY <1>1, <1>9, <1>11, WithIno
  <1> QED  BY <1>2, <1>3, <1>4, <1>5, <1>9, <1>10, <1>12

\* The children move; the one a_inode that keeps a1's address gets the uniq that a2 had.
LEMMA NewNamesIs ==
    ASSUME NEW n \in Nodes, NEW p \in Nat
    PROVE  LET m == [n EXCEPT !.parent = p, !.nname = Garbled]
           IN  /\ m \in Nodes /\ m.parent = p /\ m.nname = Garbled /\ m.name = n.name /\ m.dir = n.dir
               /\ m.uniq = n.uniq /\ m.kids = n.kids /\ Holds(n, m)
  <1> DEFINE m == [n EXCEPT !.parent = p, !.nname = Garbled]
  <1>1. Garbled \in Seq(Components)
    BY DEF Garbled, Components
  <1>2. m \in Nodes
    BY <1>1 DEF Nodes
  <1>3. m.parent = p /\ m.nname = Garbled /\ m.name = n.name
    BY DEF Nodes
  <1>4. m.uniq = n.uniq /\ m.kids = n.kids /\ m.shlock = n.shlock
    BY DEF Nodes
  <1>5. m.elock = n.elock
    BY DEF Nodes
  <1>6. m.dir = n.dir
    BY DEF Nodes
  <1>7. m.exnext = n.exnext /\ m.locked = n.locked
    BY DEF Nodes
  <1> HIDE DEF m
  <1> QED  BY <1>2, <1>3, <1>4, <1>5, <1>6, <1>7 DEF Holds, m

\* A node of the unit after update_child_names.
NewNames(n, m, a1, a2, down) ==
    /\ m \in Nodes /\ m.parent = IF n.parent = a1 THEN a2 ELSE n.parent
    /\ m.name = n.name /\ m.dir = n.dir /\ m.uniq = n.uniq /\ m.kids = n.kids /\ Holds(n, m)
    /\ m.nname = n.nname \/ (m.nname = Garbled /\ down)
LEMMA NamesMoved ==
    ASSUME NEW u, NEW a1, NEW a2, u \in Units, a1 \in Live(u), a2 \in Live(u), u.ino[Root].parent = None,
           \A q \in Live(u) : q # Root => u.ino[q].parent \in Live(u)
    PROVE  LET v == update_child_names(u, a1, a2)
           IN  /\ v \in Units /\ Live(v) = Live(u) /\ v.chain = u.chain /\ v.cache = u.cache
               /\ v.a_uniq = u.a_uniq /\ v.wild = u.wild /\ v.total = u.total
               /\ \A q \in Live(u) : NewNames(u.ino[q], v.ino[q], a1, a2, Children(u, a1) # {} /\ q # Root)
  <1> DEFINE D == Live(u)
             below == {q \in D : q # Root /\
                          (u.ino[q].parent = a1 \/ (u.ino[q].parent # Root /\ u.ino[u.ino[q].parent].parent = a1))}
             moved(n) == [n EXCEPT !.parent = IF n.parent = a1 THEN a2 ELSE n.parent, !.nname = Garbled]
             g(q) == IF q \in below THEN moved(u.ino[q]) ELSE u.ino[q]
             f == [q \in D |-> g(q)]
             v == [u EXCEPT !.ino = f]
  <1>1. /\ D \in SUBSET Nat /\ \A q \in D : u.ino[q] \in Nodes /\ u.ino[q].parent \in Nat \cup {None}
        /\ a1 \in Nat /\ a2 \in Nat /\ a1 # None
    <2>1. D \in SUBSET Nat /\ \A q \in D : u.ino[q] \in Nodes
      BY Parts
    <2> HIDE DEF D
    <2>2. \A q \in D : u.ino[q].parent \in Nat \cup {None}
      BY <2>1, Fields
    <2>3. a1 \in D /\ a2 \in D
      BY DEF D
    <2>4. a1 \in Nat /\ a2 \in Nat
      BY <2>1, <2>3
    <2>5. a1 # None
      BY <2>4 DEF None
    <2> QED  BY <2>1, <2>2, <2>4, <2>5
  <1>2. update_child_names(u, a1, a2) = v
    BY DEF update_child_names
  <1>3. ASSUME NEW q \in D
        PROVE  NewNames(u.ino[q], g(q), a1, a2, Children(u, a1) # {} /\ q # Root)
    <2>1. PICK n \in Nodes : n = u.ino[q]
      BY <1>1
    <2>2. CASE q \in below /\ n.parent \in Nat
      <3>1. PICK p \in Nat : p = IF n.parent = a1 THEN a2 ELSE n.parent
        BY <1>1, <2>2
      <3>2. PICK m : m = [n EXCEPT !.parent = p, !.nname = Garbled]
        OBVIOUS
      <3>3. g(q) = m
        BY <2>1, <2>2, <3>1, <3>2
      <3>4. /\ m \in Nodes /\ m.parent = p /\ m.nname = Garbled /\ m.name = n.name /\ m.dir = n.dir
            /\ m.uniq = n.uniq /\ m.kids = n.kids /\ Holds(n, m)
        BY <3>2, NewNamesIs
      <3>5. q # Root /\ Children(u, a1) # {}
        <4>1. CASE n.parent = a1
          BY <2>1, <2>2, <4>1 DEF Children
        <4>2. CASE n.parent # Root /\ u.ino[n.parent].parent = a1
          <5>1. n.parent \in Live(u)
            BY <2>1, <2>2
          <5> QED  BY <2>1, <2>2, <4>2, <5>1 DEF Children
        <4> QED  BY <2>1, <2>2, <4>1, <4>2
      <3> HIDE DEF g, below
      <3> QED  BY <2>1, <3>1, <3>3, <3>4, <3>5 DEF NewNames
    <2>3. CASE q \notin below
      <3>1. g(q) = n
        BY <2>1, <2>3
      <3>2. n.parent # a1
        <4>1. q # Root => n.parent # a1
          BY <2>1, <2>3
        <4>2. q = Root => n.parent # a1
          BY <1>1, <2>1
        <4> QED  BY <4>1, <4>2
      <3> HIDE DEF g, below
      <3> QED  BY <2>1, <3>1, <3>2 DEF NewNames, Holds
    <2>4. q \in below => n.parent \in Nat
      BY <1>1, <2>1
    <2> QED  BY <2>2, <2>3, <2>4
  <1> HIDE DEF g
  <1>4. f \in [D -> Nodes] /\ \A q \in D : f[q] = g(q)
    BY <1>3 DEF NewNames
  <1> HIDE DEF f
  <1>5. /\ v \in Units /\ v.ino = f /\ Live(v) = D /\ v.chain = u.chain /\ v.cache = u.cache
        /\ v.a_uniq = u.a_uniq /\ v.wild = u.wild /\ v.total = u.total
    <2> HIDE DEF D
    <2>1. PICK E \in SUBSET Nat : E = D
      BY <1>1
    <2>2. f \in [E -> Nodes]
      BY <1>4, <2>1
    <2>3. /\ [u EXCEPT !.ino = f] \in Units /\ [u EXCEPT !.ino = f].ino = f /\ Live([u EXCEPT !.ino = f]) = E
          /\ [u EXCEPT !.ino = f].chain = u.chain /\ [u EXCEPT !.ino = f].cache = u.cache
          /\ [u EXCEPT !.ino = f].a_uniq = u.a_uniq /\ [u EXCEPT !.ino = f].wild = u.wild
          /\ [u EXCEPT !.ino = f].total = u.total
      BY ONLY <2>2, E \in SUBSET Nat, u \in Units, WithIno
    <2> QED  BY <2>1, <2>3
  <1> HIDE DEF v
  <1> QED  BY <1>2, <1>3, <1>4, <1>5

\* r is u when a2 has taken the place of a1, which is gone.
Replaced(u, r, a1, a2) ==
    /\ Live(r) = Live(u) \ {a1} /\ r.a_uniq = u.a_uniq /\ r.wild = u.wild /\ r.total = u.total
    /\ \A q \in Live(r) : r.ino[q].dir = u.ino[q].dir
    /\ \A q \in Live(r) : r.ino[q].kids = Without(IF q = a2 THEN u.ino[a1].kids ELSE u.ino[q].kids, {a1})
    /\ \A q \in Live(r) \ {a2} : r.ino[q].uniq = u.ino[q].uniq /\ Holds(u.ino[q], r.ino[q])
    /\ r.ino[a2].uniq = u.ino[a1].uniq /\ Holds(u.ino[a1], r.ino[a2])
    /\ Plain => \A q \in Live(r) : /\ r.ino[q].nname = u.ino[q].nname
                                    /\ r.ino[q].parent = u.ino[q].parent /\ r.ino[q].name = u.ino[q].name

\* A unit that differs at p only, which goes.
LEMMA SameWithout ==
    ASSUME NEW u \in Units, NEW v \in Units, NEW p, NEW d, Live(u) = Live(v), u.chain = v.chain,
           u.cache = v.cache, u.total = v.total, u.a_uniq = v.a_uniq, u.wild = v.wild,
           \A q \in Live(u) \ {p} : u.ino[q] = v.ino[q]
    PROVE  dispose_aino(u, d, {p}) = dispose_aino(v, d, {p})
  <1> DEFINE after(w) == [q \in Live(w) \ {p} |->
                            IF q = d THEN [w.ino[q] EXCEPT !.kids = Without(w.ino[q].kids, {p})] ELSE w.ino[q]]
  <1>1. dispose_aino(u, d, {p}) = [u EXCEPT !.ino = after(u)] /\ dispose_aino(v, d, {p}) = [v EXCEPT !.ino = after(v)]
    BY DEF dispose_aino
  <1>2. after(u) = after(v)
    OBVIOUS
  <1> HIDE DEF after
  <1>3. [u EXCEPT !.ino = after(v)] = [v EXCEPT !.ino = after(v)]
    BY DEF Units
  <1> QED  BY <1>1, <1>2, <1>3

LEMMA ReplaceIs ==
    ASSUME NEW u, NEW a1, NEW a2, NEW wehavekeys \in BOOLEAN, Tree(u), Cached(u, None),
           a1 \in Live(u), a2 \in Live(u), a1 # a2, a1 # Root, a2 # Root, u.ino[a1].dir = u.ino[a2].dir,
           u.ino[a2].kids = <<>>, u.ino[a2].parent # a1, Plain => u.ino[a1].kids = <<>>,
           ~Busy(u.ino[a2]), wehavekeys => Busy(u.ino[a1])
    PROVE  LET r == replace_aino(u, a1, a2, wehavekeys)
           IN  Tree(r) /\ Cached(r, None) /\ Replaced(u, r, a1, a2)
  <1>1. PICK x : x = Taken(u, a1, a2)
    OBVIOUS
  <1>2. /\ x \in Units /\ Live(x) = Live(u) /\ x.chain = u.chain /\ x.cache = u.cache
        /\ x.a_uniq = u.a_uniq /\ x.wild = u.wild /\ x.total = u.total
        /\ x.ino[a2] = GivenNode(u.ino[a2], u.ino[a1])
        /\ x.ino[a1] = [u.ino[a1] EXCEPT !.kids = <<>>]
        /\ \A q \in Live(u) \ {a1, a2} : x.ino[q] = u.ino[q]
    BY <1>1, TakenIs
  <1>3. u \in Units /\ u.ino[a1] \in Nodes /\ u.ino[a2] \in Nodes
    BY Parts DEF Tree
  <1>4. /\ x.ino[a2].parent = u.ino[a2].parent /\ x.ino[a2].name = u.ino[a2].name
        /\ x.ino[a2].nname = u.ino[a2].nname /\ x.ino[a2].dir = u.ino[a2].dir
        /\ x.ino[a2].uniq = u.ino[a1].uniq /\ x.ino[a2].kids = u.ino[a1].kids /\ Holds(u.ino[a1], x.ino[a2])
    BY <1>2, <1>3, GivenNodeIs
  <1>5. Same(u.ino[a1], x.ino[a1]) /\ x.ino[a1].kids = <<>>
    <2>1. PICK s \in Seq(Nat) : s = <<>>
      BY NoElements
    <2>2. PICK n \in Nodes : n = u.ino[a1]
      BY <1>3
    <2>3. PICK m : m = [n EXCEPT !.kids = s]
      OBVIOUS
    <2>4. Same(n, m) /\ m.kids = s
      BY ONLY <2>3, s \in Seq(Nat), n \in Nodes, WithKids
    <2>5. x.ino[a1] = m
      BY <1>2, <2>1, <2>2, <2>3
    <2> QED  BY <2>1, <2>2, <2>4, <2>5
  <1>6. /\ x.ino[Root].parent = None /\ \A q \in Live(u) : x.ino[q].parent = u.ino[q].parent
        /\ \A q \in Live(x) : q # Root => x.ino[q].parent \in Live(x)
    <2>1. \A q \in Live(u) : x.ino[q].parent = u.ino[q].parent
      BY <1>2, <1>4, <1>5 DEF Same
    <2>2. u.ino[Root].parent = None /\ Root \in Live(u) /\ \A q \in Live(u) : q # Root => u.ino[q].parent \in Live(u)
      BY DEF Tree, Under
    <2> QED  BY <1>2, <2>1, <2>2
  <1>7. PICK y : y = update_child_names(x, a1, a2)
    OBVIOUS
  <1>8. /\ y \in Units /\ Live(y) = Live(u) /\ y.chain = u.chain /\ y.cache = u.cache
        /\ y.a_uniq = u.a_uniq /\ y.wild = u.wild /\ y.total = u.total
        /\ \A q \in Live(u) : NewNames(x.ino[q], y.ino[q], a1, a2, Children(x, a1) # {} /\ q # Root)
    BY <1>2, <1>6, <1>7, NamesMoved
  <1>9. Children(x, a1) = Children(u, a1)
    BY <1>2, <1>6 DEF Children
  \* a1, which is about to go, gets the uniq of a2.
  <1>10. PICK k : k = [y.ino[a1] EXCEPT !.uniq = u.ino[a2].uniq]
    OBVIOUS
  <1>11. /\ k \in Nodes /\ k.uniq = u.ino[a2].uniq /\ k.kids = <<>> /\ k.parent = y.ino[a1].parent
         /\ k.name = y.ino[a1].name /\ k.nname = y.ino[a1].nname /\ k.dir = y.ino[a1].dir
    <2>1. PICK n \in Nodes : n = y.ino[a1]
      BY <1>8 DEF NewNames
    <2>2. u.ino[a2].uniq \in Nat
      BY <1>3, Fields
    <2>3. n.kids = <<>>
      BY <1>5, <1>8, <2>1 DEF NewNames
    <2>4. k = [n EXCEPT !.uniq = u.ino[a2].uniq]
      BY <1>10, <2>1
    <2>5. k \in Nodes
      BY <2>2, <2>4 DEF Nodes
    <2>6. k.uniq = u.ino[a2].uniq /\ k.kids = n.kids /\ k.parent = n.parent /\ k.name = n.name /\ k.nname = n.nname
      BY <2>4 DEF Nodes
    <2>7. k.dir = n.dir
      BY <2>4 DEF Nodes
    <2> QED  BY <2>1, <2>3, <2>5, <2>6, <2>7
  <1>12. PICK f : f = [y.ino EXCEPT ![a1] = k]
    OBVIOUS
  <1>13. f \in [Live(u) -> Nodes] /\ f[a1] = k /\ \A q \in Live(u) \ {a1} : f[q] = y.ino[q]
    BY <1>8, <1>11, <1>12, Parts
  <1>14. PICK s : s = [y EXCEPT !.ino = f]
    OBVIOUS
  <1>15. /\ s \in Units /\ s.ino = f /\ Live(s) = Live(u) /\ s.chain = u.chain /\ s.cache = u.cache
         /\ s.total = y.total /\ s.a_uniq = u.a_uniq /\ s.wild = u.wild
    <2>1. PICK D \in SUBSET Nat : D = Live(u)
      BY <1>3, Parts
    <2>2. f \in [D -> Nodes] /\ y \in Units
      BY <1>8, <1>13, <2>1
    <2>3. /\ s \in Units /\ s.ino = f /\ Live(s) = D /\ s.chain = y.chain /\ s.cache = y.cache
          /\ s.total = y.total /\ s.a_uniq = y.a_uniq /\ s.wild = y.wild
      BY ONLY D \in SUBSET Nat, <1>14, <2>2, WithIno
    <2> QED  BY <1>8, <2>1, <2>3
  <1>16. GivenOver(u, s, a1, a2)
    <2>1. ASSUME NEW q \in Live(u)
          PROVE  GivenTo(u.ino[q], s.ino[q], a1, a2, Children(u, a1) = {})
      <3>1. x.ino[q].name = u.ino[q].name /\ x.ino[q].dir = u.ino[q].dir /\ x.ino[q].nname = u.ino[q].nname
        BY <1>2, <1>4, <1>5 DEF Same
      <3>2. /\ s.ino[q].parent = y.ino[q].parent /\ s.ino[q].name = y.ino[q].name
            /\ s.ino[q].nname = y.ino[q].nname /\ s.ino[q].dir = y.ino[q].dir
        BY <1>11, <1>13, <1>15
      <3>3. q # Root => u.ino[q].parent # None
        BY Parts DEF Tree, Under, None
      <3> QED  BY <1>6, <1>8, <1>9, <3>1, <3>2, <3>3 DEF NewNames, GivenTo
    <2>2. ASSUME NEW q \in Live(u) \ {a1, a2}
          PROVE  s.ino[q].uniq = u.ino[q].uniq /\ Holds(u.ino[q], s.ino[q]) /\ s.ino[q].kids = u.ino[q].kids
      BY <1>2, <1>8, <1>13, <1>15 DEF NewNames, Holds
    <2>3. s.ino[a1].kids = <<>> /\ s.ino[a2].kids = u.ino[a1].kids
      BY <1>4, <1>8, <1>11, <1>13, <1>15 DEF NewNames
    <2>4. s.ino[a2].uniq = u.ino[a1].uniq /\ Holds(u.ino[a1], s.ino[a2])
      BY <1>4, <1>8, <1>13, <1>15 DEF NewNames, Holds
    <2> QED  BY <1>8, <1>15, <2>1, <2>2, <2>3, <2>4 DEF GivenOver
  <1>17. Tree(s)
    BY <1>11, <1>13, <1>15, <1>16, GivenTree
  <1>18. PICK c : c = de_recycle_aino(y, {a1})
    OBVIOUS
  <1>19. PICK e : e = de_recycle_aino(s, {a1})
    OBVIOUS
  <1>20. NoDup(u.chain) /\ u.cache = Len(u.chain) /\ ToSet(u.chain) = Idle(u) \ {None}
    BY DEF Cached
  <1>21. /\ c \in Units /\ c.ino = y.ino /\ Live(c) = Live(u) /\ c.total = y.total
         /\ c.a_uniq = u.a_uniq /\ c.wild = u.wild
    BY <1>8, <1>18, <1>20, Recycled
  <1>22. /\ e \in Units /\ e.ino = f /\ Live(e) = Live(u) /\ ToSet(e.chain) = ToSet(u.chain) \ {a1}
         /\ NoDup(e.chain) /\ e.cache = Len(e.chain) /\ e.total = y.total
         /\ e.a_uniq = u.a_uniq /\ e.wild = u.wild
    <2>1. NoDup(s.chain) /\ s.cache = Len(s.chain)
      BY <1>15, <1>20
    <2>2. /\ e \in Units /\ e.ino = s.ino /\ Live(e) = Live(s) /\ ToSet(e.chain) = ToSet(s.chain) \ {a1}
          /\ NoDup(e.chain) /\ e.cache = Len(e.chain) /\ e.total = s.total
          /\ e.a_uniq = s.a_uniq /\ e.wild = s.wild
      BY <1>15, <1>19, <2>1, Recycled
    <2> QED  BY <1>15, <2>2
  <1>23. c.chain = e.chain /\ c.cache = e.cache
    BY <1>8, <1>15, <1>18, <1>19 DEF de_recycle_aino, Units
  <1>24. PICK d : d = y.ino[a1].parent
    OBVIOUS
  <1>25. PICK z : z = delete_aino(y, a1)
    OBVIOUS
  <1>26. z = dispose_aino(e, d, {a1})
    <2>1. z = dispose_aino(c, d, {a1})
      BY <1>18, <1>24, <1>25 DEF delete_aino
    <2>2. /\ c \in Units /\ e \in Units /\ Live(c) = Live(e) /\ c.chain = e.chain /\ c.cache = e.cache
          /\ c.total = e.total /\ c.a_uniq = e.a_uniq /\ c.wild = e.wild
      BY <1>21, <1>22, <1>23
    <2>3. \A q \in Live(c) \ {a1} : c.ino[q] = e.ino[q]
      BY <1>13, <1>21, <1>22
    <2> QED  BY ONLY <2>1, <2>2, <2>3, SameWithout
  <1>27. /\ Tree(z) /\ Live(z) = Live(u) \ {a1}
         /\ \A q \in Live(z) : Same(f[q], z.ino[q]) /\ Less(f[q], z.ino[q], a1)
         /\ z.chain = e.chain /\ z.cache = e.cache /\ z.a_uniq = u.a_uniq /\ z.wild = u.wild
         /\ z.total = u.total
    <2>1. Tree(e)
      BY <1>15, <1>17, <1>22, TreeOf
    <2>2. f[a1].parent = d /\ f[a1].kids = <<>> /\ a1 # Root
      BY SMTT(30), <1>11, <1>13, <1>24
    <2>3. d \in Live(e) /\ {a1} \subseteq Children(e, d)
      BY <1>22, <2>1, <2>2 DEF Tree, Under, Children
    <2>4. \A q \in {a1} : Children(e, q) = {}
      <3>1. ToSet(e.ino[a1].kids) = Children(e, a1)
        BY <1>22, <2>1 DEF Tree
      <3> QED  BY <1>22, <2>2, <3>1, NoElements
    <2>5. PICK P : P = {a1}
      OBVIOUS
    <2>6. /\ Tree(z) /\ Live(z) = Live(e) \ P
          /\ \A q \in Live(z) : /\ Same(e.ino[q], z.ino[q]) /\ z.ino[q].locked = e.ino[q].locked
                                /\ z.ino[q].exnext = e.ino[q].exnext
          /\ \A q \in Live(z) : z.ino[q].kids = IF q = d THEN Without(e.ino[q].kids, P) ELSE e.ino[q].kids
          /\ z.chain = e.chain /\ z.cache = e.cache /\ z.a_uniq = e.a_uniq /\ z.wild = e.wild
          /\ z.total = e.total
      BY <1>26, <2>1, <2>3, <2>4, <2>5, Disposed
    <2>7. ASSUME NEW q \in Live(z)
          PROVE  Less(e.ino[q], z.ino[q], a1)
      <3>1. CASE q = d
        BY <2>5, <2>6, <2>7, <3>1 DEF Less
      <3>2. CASE q # d
        <4>1. q \in Live(e) /\ e.ino[q].kids \in Seq(Nat) /\ ToSet(e.ino[q].kids) = Children(e, q)
          BY <2>1, <2>6, <2>7, InodeIs DEF Tree
        <4>2. a1 \notin Children(e, q)
          BY <1>22, <2>2, <3>2 DEF Children
        <4>3. Without(e.ino[q].kids, P) = e.ino[q].kids
          BY <2>5, <4>1, <4>2, RemovedOrder
        <4> QED  BY <2>5, <2>6, <2>7, <3>2, <4>3 DEF Less
      <3> QED  BY <3>1, <3>2
    <2> QED  BY <1>8, <1>22, <2>5, <2>6, <2>7
  <1>28. PICK r : r = IF Busy(u.ino[a1]) \/ wehavekeys THEN de_recycle_aino(z, {a2}) ELSE z
    OBVIOUS
  <1>29. r = replace_aino(u, a1, a2, wehavekeys)
    BY <1>1, <1>7, <1>25, <1>28 DEF replace_aino, Taken, GivenNode
  <1>30. /\ r \in Units /\ r.ino = z.ino /\ Live(r) = Live(z) /\ r.a_uniq = z.a_uniq /\ r.wild = z.wild
         /\ r.total = z.total /\ NoDup(r.chain) /\ r.cache = Len(r.chain)
         /\ ToSet(r.chain) = (ToSet(u.chain) \ {a1}) \ (IF Busy(u.ino[a1]) THEN {a2} ELSE {})
    <2>1. z \in Units /\ NoDup(z.chain) /\ z.cache = Len(z.chain) /\ ToSet(z.chain) = ToSet(u.chain) \ {a1}
      BY <1>22, <1>27 DEF Tree
    <2>2. CASE Busy(u.ino[a1])
      <3>1. r = de_recycle_aino(z, {a2})
        BY <1>28, <2>2
      <3>2. /\ r \in Units /\ r.ino = z.ino /\ Live(r) = Live(z) /\ r.a_uniq = z.a_uniq /\ r.wild = z.wild
            /\ r.total = z.total /\ NoDup(r.chain) /\ r.cache = Len(r.chain) /\ ToSet(r.chain) = ToSet(z.chain) \ {a2}
        BY ZenonT(60), <2>1, <3>1, Recycled
      <3> QED  BY <2>1, <2>2, <3>2
    <2>3. CASE ~Busy(u.ino[a1])
      <3>1. r = z
        BY <1>28, <2>3
      <3> QED  BY <2>1, <2>3, <3>1
    <2> QED  BY <2>2, <2>3
  <1>31. Tree(r)
    BY <1>27, <1>30, TreeOf
  <1>32. Replaced(u, r, a1, a2)
    <2>1. \A q \in Live(r) : Same(s.ino[q], r.ino[q]) /\ Less(s.ino[q], r.ino[q], a1)
      BY <1>15, <1>27, <1>30
    <2>2. \A q \in Live(u) : s.ino[q].dir = u.ino[q].dir /\ s.ino[q].name = u.ino[q].name
      BY <1>16 DEF GivenOver, GivenTo
    <2>3. \A q \in Live(r) : r.ino[q].dir = u.ino[q].dir /\ r.ino[q].name = u.ino[q].name
      BY <1>27, <1>30, <2>1, <2>2 DEF Same
    <2>4. ASSUME NEW q \in Live(r) \ {a2}
          PROVE  r.ino[q].uniq = u.ino[q].uniq /\ Holds(u.ino[q], r.ino[q])
      BY <1>16, <1>27, <1>30, <2>1 DEF GivenOver, Same, Holds, Less
    <2>5. r.ino[a2].uniq = u.ino[a1].uniq /\ Holds(u.ino[a1], r.ino[a2])
      <3>1. a2 \in Live(r)
        BY <1>27, <1>30
      <3> QED  BY <1>16, <2>1, <3>1 DEF GivenOver, Same, Holds, Less
    <2>6. ASSUME Plain, NEW q \in Live(r)
          PROVE  r.ino[q].nname = u.ino[q].nname /\ r.ino[q].parent = u.ino[q].parent
      <3>1. Children(u, a1) = {}
        BY <2>6, NoElements DEF Tree
      <3>2. GivenTo(u.ino[q], s.ino[q], a1, a2, TRUE) /\ q \in Live(u)
        BY <1>16, <1>27, <1>30, <3>1 DEF GivenOver
      <3>3. s.ino[q].nname = u.ino[q].nname /\ s.ino[q].parent = u.ino[q].parent
        BY <3>1, <3>2 DEF GivenTo, Children
      <3> QED  BY <2>1, <3>3 DEF Same
    <2>7. ASSUME NEW q \in Live(r)
          PROVE  r.ino[q].kids = Without(IF q = a2 THEN u.ino[a1].kids ELSE u.ino[q].kids, {a1})
      <3>1. q \in Live(u) \ {a1} /\ r.ino[q].kids = Without(s.ino[q].kids, {a1})
        BY <1>27, <1>30, <2>1 DEF Less
      <3>2. s.ino[q].kids = IF q = a2 THEN u.ino[a1].kids ELSE u.ino[q].kids
        BY <1>16, <3>1 DEF GivenOver
      <3> QED  BY <3>1, <3>2
    <2> QED  BY <1>27, <1>30, <2>3, <2>4, <2>5, <2>6, <2>7 DEF Replaced
  <1>33. Cached(r, None)
    <2>1. \A q \in Live(r) : (Busy(r.ino[q]) <=> IF q = a2 THEN Busy(u.ino[a1]) ELSE Busy(u.ino[q]))
      BY <1>32 DEF Replaced, Holds, Busy
    <2>2. \A q \in Live(r) : r.ino[q].dir = u.ino[q].dir
      BY <1>32 DEF Replaced
    <2>3. Live(r) = Live(u) \ {a1}
      BY <1>27, <1>30
    <2>4. Idle(r) = (Idle(u) \ {a1}) \ (IF Busy(u.ino[a1]) THEN {a2} ELSE {})
      BY <2>1, <2>2, <2>3 DEF Idle
    <2>5. None \notin Live(u)
      BY Parts, <1>3 DEF None
    <2>6. Idle(r) \subseteq Live(r)
      BY DEF Idle
    <2>7. None \notin Idle(u)
      BY <2>5 DEF Idle
    <2> QED  BY <1>20, <1>30, <2>4, <2>7 DEF Cached
  <1> QED  BY <1>29, <1>31, <1>32, <1>33

\* The open files of a1 are those of a2.
KeysTo(K, J, a1, a2) ==
    /\ K \in Opens /\ J \in Opens
    /\ \A k \in Keys : J[k].ino = IF K[k].ino = a1 THEN a2 ELSE K[k].ino
    /\ \A k \in Keys : K[k] = NoKey => J[k] = NoKey

LEMMA KeysReopened ==
    ASSUME NEW a1 \in Nat, NEW a2 \in Nat, keys \in Opens
    PROVE  /\ KeysTo(keys, Relocked(a1, a2, {}), a1, a2)
           /\ a1 = a2 => Relocked(a1, a2, {}) = keys
           /\ Opened(keys, a1) = {} => KeysTo(keys, keys, a1, a2)
  <1> DEFINE R == [ino : Nat \cup {None}, create : 0 .. 2, notify : BOOLEAN]
             J == Relocked(a1, a2, {})
  <1>1. \A k \in Keys : keys[k] \in R
    BY DEF Opens
  <1>2. J = [k \in Keys |-> IF keys[k].ino # a1 THEN keys[k] ELSE [keys[k] EXCEPT !.ino = a2]]
    BY DEF Relocked
  <1>3. ASSUME NEW n \in R
        PROVE  LET m == [n EXCEPT !.ino = a2] IN m \in R /\ m.ino = a2 /\ (n.ino = a2 => m = n)
    OBVIOUS
  <1> HIDE DEF J, R
  <1>4. ASSUME NEW k \in Keys
        PROVE  /\ J[k] \in R /\ J[k].ino = IF keys[k].ino = a1 THEN a2 ELSE keys[k].ino
               /\ a1 = a2 \/ keys[k].ino # a1 => J[k] = keys[k]
    <2>1. PICK n \in R : n = keys[k]
      BY <1>1
    <2>2. PICK m : m = [n EXCEPT !.ino = a2]
      OBVIOUS
    <2>3. m \in R /\ m.ino = a2 /\ (n.ino = a2 => m = n)
      BY <1>3, <2>2
    <2>4. J[k] = IF n.ino # a1 THEN n ELSE m
      BY <1>2, <2>1, <2>2
    <2> QED  BY <2>1, <2>3, <2>4
  <1>5. a1 # None /\ NoKey.ino = None
    BY DEF None, NoKey
  <1>6. J \in Opens
    <2>1. J = [k \in Keys |-> J[k]]
      BY <1>2
    <2> QED  BY <1>4, <2>1 DEF Opens, R
  <1>7. KeysTo(keys, J, a1, a2)
    BY <1>4, <1>5, <1>6 DEF KeysTo
  <1>8. a1 = a2 => J = keys
    <2>1. J = [k \in Keys |-> J[k]] /\ keys = [k \in Keys |-> keys[k]]
      BY <1>2 DEF Opens
    <2> QED  BY <1>4, <2>1
  <1>9. Opened(keys, a1) = {} => KeysTo(keys, keys, a1, a2)
    BY DEF KeysTo, Opened
  <1> QED  BY <1>7, <1>8, <1>9 DEF J

LEMMA ReplacedCounted ==
    ASSUME NEW u, NEW r, NEW a1, NEW a2, NEW L, NEW K, NEW J, Good(u, L, K), a1 \in Live(u), a2 \in Live(u),
           a1 # a2, ~Busy(u.ino[a2]), Replaced(u, r, a1, a2), KeysTo(K, J, a1, a2)
    PROVE  Counted(r, L, J)
  <1>1. Tree(u) /\ Counted(u, L, K) /\ L \in Locked /\ K \in Opens /\ J \in Opens
    BY DEF Good, Counted, KeysTo
  <1>2. Held(L, u.ino[a2].uniq) = 0 /\ Opened(K, a2) = {}
    <2>1. ~(Held(L, u.ino[a2].uniq) > 0) /\ Opened(K, a2) = {}
      BY <1>1, BusyIs
    <2>2. Held(L, u.ino[a2].uniq) \in Nat
      BY <1>1, CountsAre
    <2> QED  BY <2>1, <2>2
  <1>3. Live(r) = Live(u) \ {a1} /\ a2 \in Live(r)
    BY DEF Replaced
  <1>4. ASSUME NEW q \in DOMAIN L, L[q] > 0
        PROVE  \E p \in Live(r) : r.ino[p].uniq = q
    <2>1. PICK p \in Live(u) : u.ino[p].uniq = q
      BY <1>1, <1>4 DEF Counted
    <2>2. Held(L, q) > 0
      BY <1>4 DEF Held
    <2>3. p # a2
      BY <1>2, <2>1, <2>2
    <2>4. CASE p = a1
      BY <1>3, <2>1, <2>4 DEF Replaced
    <2>5. CASE p # a1
      BY <1>3, <2>1, <2>3, <2>5 DEF Replaced
    <2> QED  BY <2>4, <2>5
  <1>5. ASSUME NEW k \in Keys
        PROVE  J[k] = NoKey \/ J[k].ino \in Live(r)
    <2>1. K[k] = NoKey \/ K[k].ino \in Live(u)
      BY <1>1 DEF Counted
    <2>2. J[k].ino = IF K[k].ino = a1 THEN a2 ELSE K[k].ino
      BY DEF KeysTo
    <2>3. K[k] = NoKey => J[k] = NoKey
      BY DEF KeysTo
    <2> QED  BY <1>3, <2>1, <2>2, <2>3
  <1>6. ASSUME NEW p \in Live(r)
        PROVE  CountedAt(r, L, J, p)
    <2>1. \A k \in Keys : J[k].ino = IF K[k].ino = a1 THEN a2 ELSE K[k].ino
      BY DEF KeysTo
    <2>2. CASE p = a2
      <3>1. Opened(J, a2) = Opened(K, a1)
        BY <1>2, <2>1 DEF Opened
      <3>2. r.ino[a2].uniq = u.ino[a1].uniq /\ Holds(u.ino[a1], r.ino[a2])
        BY DEF Replaced
      <3>3. CountedAt(u, L, K, a1)
        BY <1>1 DEF Counted
      <3> QED  BY <2>2, <3>1, <3>2, <3>3 DEF CountedAt, Holds, Count
    <2>3. CASE p # a2
      <3>1. Opened(J, p) = Opened(K, p)
        BY <1>3, <2>1, <2>3 DEF Opened
      <3>2. r.ino[p].uniq = u.ino[p].uniq /\ Holds(u.ino[p], r.ino[p])
        BY <2>3 DEF Replaced
      <3>3. CountedAt(u, L, K, p)
        BY <1>1, <1>3 DEF Counted
      <3> QED  BY <3>1, <3>2, <3>3 DEF CountedAt, Holds, Count
    <2> QED  BY <2>2, <2>3
  <1> QED  BY <1>1, <1>4, <1>5, <1>6 DEF Counted

LEMMA PrefixOfChild ==
    ASSUME NEW S, NEW s \in Seq(S), NEW x \in S
    PROVE  IsPrefix(s, Append(s, x)) /\ s # Append(s, x)
  <1> DEFINE t == Append(s, x)
             n == Len(s)
  <1>1. n \in Nat /\ t \in Seq(S) /\ Len(t) = n + 1 /\ \A i \in 1 .. n : t[i] = s[i]
    BY AppendProperties, LenProperties
  <1> HIDE DEF t, n
  <1>2. Len(s) <= Len(t)
    BY <1>1 DEF n
  <1>3. SubSeq(s, 1, n) = [i \in 1 .. n |-> s[i]] /\ SubSeq(t, 1, n) = [i \in 1 .. n |-> t[i]]
    BY <1>1 DEF n
  <1>4. SubSeq(s, 1, Len(s)) = SubSeq(t, 1, Len(s))
    BY <1>1, <1>3 DEF n
  <1>5. s # t
    BY <1>1 DEF n
  <1> QED  BY <1>2, <1>4, <1>5 DEF IsPrefix, t

\* Both names of a renamed object have been looked up by notify_check.
LEMMA NotifiedBoth ==
    ASSUME NEW u, NEW a1, NEW a2, NEW v, v = notify_check(notify_check(u, a1), a2),
           Good(u, locks, keys), Shallow
    PROVE  Good(v, locks, keys) /\ Keeps(u, v) /\ Looks(u, v) /\ Tops(u, v) /\ (Watched = <<>> => v = u)
  <1>1. PICK w : w = notify_check(u, a1)
    OBVIOUS
  <1>2. Good(w, locks, keys) /\ Keeps(u, w) /\ Looks(u, w) /\ Tops(u, w)
    BY <1>1, NotifyGood
  <1>3. Good(v, locks, keys) /\ Keeps(w, v) /\ Looks(w, v) /\ Tops(w, v)
    BY <1>1, <1>2, NotifyGood
  <1>4. Watched = <<>> => v = u
    BY Zenon, NothingWatched
  <1> QED  BY <1>2, <1>3, <1>4, LooksBoth, TopsBoth DEF Good, Looks, Sees

LEMMA KidsKept ==
    ASSUME NEW u, NEW v, NEW p, NEW C, Tree(u), Tree(v), Keeps(u, v), Tops(u, v), p # Root,
           p \in Live(u), Children(u, p) \subseteq C
    PROVE  Children(v, p) \subseteq C
  <1> SUFFICES ASSUME NEW q \in Live(v), v.ino[q].parent = p
               PROVE  q \in C
    BY DEF Children
  <1>1. q \in Live(u)
    BY DEF Tops
  <1>2. Same(u.ino[q], v.ino[q])
    BY <1>1 DEF Keeps
  <1> QED  BY <1>1, <1>2 DEF Same, Children

\* a2 is the new a_inode that a1 is to be renamed to.
Renames(u, a1, n1, a2, n2) ==
    /\ a1 \in Live(u) /\ a2 \in Live(u) /\ a1 # a2 /\ a1 # Root /\ a2 # Root
    /\ u.ino[a1].dir = u.ino[a2].dir /\ u.ino[a2].kids = <<>> /\ ~Busy(u.ino[a2])
    /\ u.ino[a2].parent = a1 => IsPrefix(n1, n2) /\ n1 # n2
    /\ Plain => Children(u, a1) \subseteq {a2}
\* a2, which stands for n2, takes the place of a1 and of its object n1.
Moves(v, a1, n1, a2, n2) ==
    /\ a1 \in Live(v) /\ a2 \in Live(v) /\ ~Busy(v.ino[a2]) /\ v.ino[a1].dir = v.ino[a2].dir
    /\ Tree(unit') /\ Cached(unit', None) /\ Replaced(v, unit', a1, a2)
    /\ KeysTo(keys, keys', a1, a2) /\ locks' = locks
    /\ n1 = n2 \/ (Exists(n1) /\ CanCreate(n2) /\ ~IsPrefix(n1, n2))
    /\ host' = IF n1 = n2 THEN host ELSE Renamed(n1, n2)
    /\ scan' = Pruned(unit', host', n1)
    /\ Children(v, a2) = {} /\ (Plain => Children(v, a1) = {})
\* What my_rename, notify_check and replace_aino leave: v is the unit between the last two.
Handed(u, v, a1, n1, a2, n2) ==
    /\ Good(v, locks, keys) /\ Looks(u, v) /\ Tops(u, v)
    /\ (Wild(v) /\ Watched # <<>>) \/ Moves(v, a1, n1, a2, n2)
LEMMA RenameHostIs ==
    ASSUME Exact, NEW a1, NEW n1, NEW a2, NEW n2, NEW u, NEW first \in BOOLEAN, NEW second,
           rename_host(a1, n1, a2, n2, u, first, second, {}), Good(u, locks, keys),
           Renames(u, a1, n1, a2, n2)
    PROVE  \/ /\ unit' = delete_aino(u, a2) /\ Good(unit', locks, keys)
              /\ locks' = locks /\ keys' = keys /\ host' = host /\ scan' = scan /\ Gone(u, unit', a2)
           \/ \E v : Handed(u, v, a1, n1, a2, n2)
  <1> DEFINE open == Opened(keys, a1)
             can == n1 = n2 \/ (Exists(n1) /\ CanCreate(n2) /\ ~IsPrefix(n1, n2))
             renames == can /\ (first \/ second)
  <1>0. /\ a1 \in Live(u) /\ a2 \in Live(u) /\ a1 # a2 /\ a1 # Root /\ a2 # Root
        /\ u.ino[a1].dir = u.ino[a2].dir /\ u.ino[a2].kids = <<>> /\ ~Busy(u.ino[a2])
        /\ u.ino[a2].parent = a1 => IsPrefix(n1, n2) /\ n1 # n2
        /\ Plain => Children(u, a1) \subseteq {a2}
    BY DEF Renames
  <1>1. a1 \in Nat /\ a2 \in Nat /\ keys \in Opens /\ locks \in Locked
    BY <1>0, InodeIs, GoodTypes DEF Good
  <1>2. CASE ~renames
    <2>1. unit' = delete_aino(u, a2) /\ keys' = Relocked(a1, a1, {}) /\ locks' = locks /\ host' = host
          /\ scan' = scan
      BY <1>2 DEF rename_host
    <2>2. keys' = keys
      BY <1>1, <2>1, KeysReopened
    <2>3. Good(delete_aino(u, a2), locks, keys) /\ Gone(u, delete_aino(u, a2), a2)
      BY <1>0, DeleteGood, DeleteIs DEF Good
    <2> QED  BY <2>1, <2>2, <2>3
  <1>3. CASE renames
    <2>1. PICK v : /\ v = notify_check(notify_check(u, a1), a2)
                   /\ \/ ~({a1, a2} \subseteq Live(v)) /\ Wild(v)
                      \/ /\ a1 \in Live(v) /\ a2 \in Live(v) /\ locks' = locks
                         /\ unit' = replace_aino(v, a1, a2, ~first /\ open # {})
                         /\ keys' = IF first THEN keys ELSE Relocked(a1, a2, {})
                         /\ host' = (IF n1 = n2 THEN host ELSE Renamed(n1, n2))
                         /\ scan' = Pruned(unit', host', n1)
      BY <1>3 DEF rename_host, Opened
    <2>2. first => open = {}
      BY DEF rename_host, Exact, Opened
    <2>3. Good(v, locks, keys) /\ Keeps(u, v) /\ Looks(u, v) /\ Tops(u, v) /\ (Watched = <<>> => v = u)
      BY <2>1, NotifiedBoth DEF Exact
    <2>4. CASE ~({a1, a2} \subseteq Live(v)) /\ Wild(v)
      BY <1>0, <2>3, <2>4 DEF Handed
    <2>5. CASE /\ a1 \in Live(v) /\ a2 \in Live(v) /\ locks' = locks
               /\ unit' = replace_aino(v, a1, a2, ~first /\ open # {})
               /\ keys' = IF first THEN keys ELSE Relocked(a1, a2, {})
               /\ host' = (IF n1 = n2 THEN host ELSE Renamed(n1, n2))
               /\ scan' = Pruned(unit', host', n1)
      <3>1. Same(u.ino[a1], v.ino[a1]) /\ Same(u.ino[a2], v.ino[a2])
        BY <1>0, <2>3, <2>5 DEF Keeps
      <3>2. v.ino[a1].dir = v.ino[a2].dir /\ ~Busy(v.ino[a2])
        BY <1>0, <3>1 DEF Same, Busy
      <3>3. v.ino[a2].parent # a1
        BY <1>0, <1>3, <3>1 DEF Same
      <3>4. Tree(u) /\ Tree(v) /\ Cached(v, None)
        BY <2>3 DEF Good
      <3>5. Children(u, a2) = {}
        BY <1>0, <3>4, NoElements DEF Tree
      <3>6. Children(v, a2) = {}
        BY <1>0, <2>3, <3>4, <3>5, KidsKept
      <3>7. \A p \in Live(v) : Children(v, p) = {} => v.ino[p].kids = <<>>
        <4>1. \A p \in Live(v) : ToSet(v.ino[p].kids) = Children(v, p) /\ v.ino[p].kids \in Seq(Nat)
          BY <3>4, InodeIs DEF Tree
        <4> QED  BY <4>1, Elements
      <3>8. v.ino[a2].kids = <<>>
        BY <2>5, <3>6, <3>7
      <3>9. Plain => Children(v, a1) = {} /\ v.ino[a1].kids = <<>>
        <4> SUFFICES ASSUME Plain
                     PROVE  Children(v, a1) = {}
          BY <2>5, <3>7
        <4>1. Children(v, a1) \subseteq {a2}
          BY <1>0, <2>3, <3>4, KidsKept
        <4> QED  BY <3>3, <4>1 DEF Children
      <3>10. PICK again \in BOOLEAN : again = (~first /\ open # {})
        OBVIOUS
      <3>11. again => Busy(v.ino[a1])
        <4>1. Counted(v, locks, keys)
          BY <2>3 DEF Good
        <4> QED  BY <2>5, <3>4, <3>10, <4>1, BusyIs
      <3>12. PICK r : r = replace_aino(v, a1, a2, again)
        OBVIOUS
      <3>13. Tree(r) /\ Cached(r, None) /\ Replaced(v, r, a1, a2)
        BY <1>0, <2>5, <3>2, <3>3, <3>4, <3>8, <3>9, <3>11, <3>12, ReplaceIs
      <3>14. KeysTo(keys, keys', a1, a2)
        BY <1>0, <1>1, <2>2, <2>5, KeysReopened
      <3>15. unit' = r
        BY SMTT(30), <2>5, <3>10, <3>12
      <3>16. Moves(v, a1, n1, a2, n2)
        BY <1>3, <2>5, <3>2, <3>6, <3>9, <3>13, <3>14, <3>15 DEF Moves
      <3> QED  BY <2>3, <3>16 DEF Handed
    <2> QED  BY <2>1, <2>4, <2>5
  <1> QED  BY <1>2, <1>3

\* w is what all the looking up has left.
Moved(u, w, a1, n1, a2, n2) ==
    /\ Good(w, locks, keys) /\ Passes(u, w) /\ Moves(w, a1, n1, a2, n2)
    /\ a1 # a2 /\ a1 # Root /\ a2 # Root /\ Leaves(w, a1)
    /\ n1 = w.ino[a1].nname /\ n2 = w.ino[a2].nname
LEMMA RenameHostKept ==
    ASSUME Exact, NEW a1, NEW n1, NEW a2, NEW n2, NEW u, NEW first \in BOOLEAN, NEW second,
           rename_host(a1, n1, a2, n2, u, first, second, {}), Good(u, locks, keys),
           Renames(u, a1, n1, a2, n2), n1 = u.ino[a1].nname, n2 = u.ino[a2].nname, Leaves(u, a1)
    PROVE  \/ KeptFrom(u)
           \/ Kept /\ Gone(u, unit', a2) /\ host' = host /\ scan' = scan
           \/ Kept /\ \E w : Moved(u, w, a1, n1, a2, n2)
  <1>1. CASE /\ unit' = delete_aino(u, a2) /\ Good(unit', locks, keys) /\ locks' = locks /\ keys' = keys
             /\ host' = host /\ scan' = scan /\ Gone(u, unit', a2)
    BY <1>1 DEF Kept, Good
  <1>2. CASE \E v : Handed(u, v, a1, n1, a2, n2)
    <2>1. PICK v : Handed(u, v, a1, n1, a2, n2)
      BY <1>2
    <2>0. Good(v, locks, keys) /\ Passes(u, v) /\ Keeps(u, v) /\ a1 # a2 /\ a1 # Root /\ a2 # Root
          /\ a1 \in Live(u) /\ a2 \in Live(u)
      BY <2>1, LooksPasses DEF Handed, Renames, Looks, Sees
    <2>2. CASE Wild(v)
      <3>1. KeptFrom(v)
        BY <2>0, <2>2, WildKept
      <3>2. Passes(v, unit') /\ Tree(unit')
        BY <3>1 DEF KeptFrom, Kept, Good
      <3>3. Passes(u, unit')
        BY <2>0, <3>2, PassesBoth DEF Good
      <3> QED  BY <3>1, <3>3 DEF KeptFrom
    <2>3. CASE Moves(v, a1, n1, a2, n2)
      <3>1. PICK r, J : r = unit' /\ J = keys'
        OBVIOUS
      <3>2. /\ a1 \in Live(v) /\ a2 \in Live(v) /\ ~Busy(v.ino[a2]) /\ Tree(r) /\ Cached(r, None)
            /\ Replaced(v, r, a1, a2) /\ KeysTo(keys, J, a1, a2) /\ locks' = locks
        BY <2>3, <3>1 DEF Moves
      <3>3. Counted(r, locks, J)
        BY <2>0, <3>2, ReplacedCounted
      <3>4. Kept
        BY <3>1, <3>2, <3>3 DEF Kept, Good
      <3>5. Same(u.ino[a1], v.ino[a1]) /\ Same(u.ino[a2], v.ino[a2])
        BY <2>0, <3>2 DEF Keeps
      <3>6. n1 = v.ino[a1].nname /\ n2 = v.ino[a2].nname /\ Leaves(v, a1)
        BY <3>5 DEF Same, Leaves, Current
      <3>7. Moved(u, v, a1, n1, a2, n2)
        BY <2>0, <2>3, <3>6 DEF Moved
      <3> QED  BY <3>4, <3>7
    <2> QED  BY <2>1, <2>2, <2>3 DEF Handed
  <1> QED  BY <1>1, <1>2, RenameHostIs

\* v is what looking up has left, u has the a_inode a2 that a1 will be renamed to.
MadeFor(v, u, a1, n1, a2, n2) ==
    /\ Keeps(v, u) /\ Passes(v, u) /\ Live(u) \subseteq Live(v) \cup {a2} /\ a2 \notin Live(v)
    /\ Leaves(u, a1)
    /\ a1 \in Live(v) /\ n1 = v.ino[a1].nname /\ n2 = u.ino[a2].nname
    /\ Renames(u, a1, n1, a2, n2)
    /\ Plain => n1 = n2 \/ n2 \notin DOMAIN host
LEMMA RenameIs ==
    ASSUME Exact, NEW r1, NEW rel2 \in Paths, NEW othercase, Good(r1.u, locks, keys),
           r1.err = "ok" => r1.node \in Live(r1.u) /\ r1.node # Root,
           action_rename_object(r1, rel2, othercase)
    PROVE  \/ \E v : Good(v, locks, keys) /\ Looks(r1.u, v) /\ Unchanged(notify_check(v, r1.node))
           \/ \E v : Good(v, locks, keys) /\ Passes(r1.u, v) /\ Wild(v) /\ MayFreeIts
           \/ \E v, u, n1, a2, n2, first, second :
                 /\ Good(u, locks, keys) /\ Looks(r1.u, v) /\ Tree(v) /\ MadeFor(v, u, r1.node, n1, a2, n2)
                 /\ first \in BOOLEAN /\ rename_host(r1.node, n1, a2, n2, u, first, second, {})
  <1>0. PICK r2 \in {find_aino(r1.u, Root, rel2, TRUE)} :
           LET a1   == r1.node
               n1   == r2.u.ino[a1]
               same == r2.node = a1 /\ r2.err = "ok"
               dir  == IF same THEN n1.parent ELSE r2.node
           IN  \/ /\ r1.err = "ok"
                  /\ \A k \in Keys : keys[k].ino = a1 => keys[k].create # 2
                  /\ (same /\ othercase) \/ (~othercase /\ r2.err = "not around" /\ dir # None)
                  /\ Leaves(r1.u, a1)
                  /\ n1.kids # <<>> => "rename parent" \in Habits
                  /\ \E u \in {init_child_aino(r2.u, dir, Last(rel2), n1.dir)} :
                       /\ u.a_uniq <= MaxInodes
                       /\ ~n1.dir => "rename file" \in Habits \/ Busy(n1) \/ r2.u.cache <= CacheMax + r2.u.total
                       /\ IF a1 \notin Live(u) THEN Wild(u)
                          ELSE \E first, second \in {TRUE} \cup {~f : f \in MayFail("rename")} :
                               \E closed \in SUBSET (IF TRUE \in MayFail("reopen") THEN Keys ELSE {}) :
                                  rename_host(a1, n1.nname, u.a_uniq, u.ino[u.a_uniq].nname, u,
                                              first, second, closed)
               \/ /\ r1.err = "ok" /\ same /\ ~othercase
                  /\ Unchanged(notify_check(r2.u, a1))
    BY Zenon DEF action_rename_object
  <1>1. PICK a1 :
           /\ r2 = find_aino(r1.u, Root, rel2, TRUE) /\ a1 = r1.node /\ r1.err = "ok"
           /\ LET n1   == r2.u.ino[a1]
                  same == r2.node = a1 /\ r2.err = "ok"
                  dir  == IF same THEN n1.parent ELSE r2.node
              IN  \/ /\ same \/ (r2.err = "not around" /\ dir # None)
                     /\ Leaves(r1.u, a1)
                     /\ n1.kids # <<>> => "rename parent" \in Habits
                     /\ ~n1.dir => "rename file" \in Habits \/ Busy(n1) \/ r2.u.cache <= CacheMax + r2.u.total
                     /\ \E u \in {init_child_aino(r2.u, dir, Last(rel2), n1.dir)} :
                           IF a1 \notin Live(u) THEN Wild(u)
                           ELSE \E first, second \in {TRUE} \cup {~f : f \in MayFail("rename")} :
                                \E closed \in SUBSET (IF TRUE \in MayFail("reopen") THEN Keys ELSE {}) :
                                   rename_host(a1, n1.nname, u.a_uniq, u.ino[u.a_uniq].nname, u,
                                               first, second, closed)
                  \/ Unchanged(notify_check(r2.u, a1))
    BY ONLY Zenon, <1>0
  <1>2. rel2 \in Seq(Names) /\ rel2 # <<>> /\ Last(rel2) \in Names
    <2>1. rel2 \in Seq(Names) /\ rel2 # <<>>
      BY TreeAssumption
    <2>2. Len(rel2) \in 1 .. Len(rel2)
      BY <2>1, Elements
    <2> QED  BY <2>1, <2>2, Elements DEF Last
  <1>3. /\ Found(r1.u, r2)
        /\ r2.err = "ok" => NamedSo(r2, Last(rel2))
        /\ r2.err = "not around" /\ r2.node # None => Missing(r2, Last(rel2))
    <2>1. Tree(r1.u) /\ Cached(r1.u, None)
      BY DEF Good
    <2>2. PICK u : u = r1.u
      OBVIOUS
    <2>3. PICK q, hit : q = Root /\ hit = TRUE
      BY SMTT(30)
    <2>4. r2 = find_aino(u, q, rel2, hit)
      BY Zenon, <1>1, <2>2, <2>3
    <2>5. Tree(u) /\ Cached(u, None)
      BY <2>1, <2>2
    <2>6. /\ Found(u, r2)
          /\ r2.err = "ok" => NamedSo(r2, Last(rel2))
          /\ r2.err = "not around" /\ r2.node # None => Missing(r2, Last(rel2))
      BY <1>2, <2>4, <2>5, FindIs
    <2> QED  BY <2>2, <2>6
  <1>4. Tree(r2.u) /\ Good(r2.u, locks, keys) /\ Looks(r1.u, r2.u) /\ Keeps(r1.u, r2.u)
    BY ZenonT(60), <1>3, GoodLooks DEF Found, Looks, Sees
  <1>5. CASE Unchanged(notify_check(r2.u, a1))
    BY ZenonT(60), <1>1, <1>4, <1>5
  <1> DEFINE n1   == r2.u.ino[a1]
             same == r2.node = a1 /\ r2.err = "ok"
             dir  == IF same THEN n1.parent ELSE r2.node
  <1>6. CASE /\ same \/ (r2.err = "not around" /\ dir # None)
             /\ Leaves(r1.u, a1)
             /\ n1.kids # <<>> => "rename parent" \in Habits
             /\ ~n1.dir => "rename file" \in Habits \/ Busy(n1) \/ r2.u.cache <= CacheMax + r2.u.total
             /\ \E u \in {init_child_aino(r2.u, dir, Last(rel2), n1.dir)} :
                   IF a1 \notin Live(u) THEN Wild(u)
                   ELSE \E first, second \in {TRUE} \cup {~f : f \in MayFail("rename")} :
                        \E closed \in SUBSET (IF TRUE \in MayFail("reopen") THEN Keys ELSE {}) :
                           rename_host(a1, n1.nname, u.a_uniq, u.ino[u.a_uniq].nname, u,
                                       first, second, closed)
    <2>1. a1 \in Live(r2.u) /\ a1 # Root
      <3>1. a1 \in Live(r1.u) /\ a1 # Root
        BY Zenon, <1>1
      <3>2. CASE same
        BY Zenon, <1>1, <1>3, <3>1, <3>2 DEF Found
      <3>3. CASE ~same
        <4>1. r2.err = "not around" /\ r2.node # None
          BY Zenon, <1>6, <3>3
        <4>2. Live(r1.u) \subseteq Live(r2.u)
          BY <1>3, <4>1 DEF Missing, Found
        <4> QED  BY Zenon, <3>1, <4>2
      <3> QED  BY ZenonT(60), <3>2, <3>3
    <2>2. dir \in Live(r2.u) /\ r2.u.ino[dir].dir
      <3>1. CASE same
        <4>1. Under(r2.u, a1)
          BY <1>4, <2>1 DEF Tree
        <4> QED  BY Zenon, <3>1, <4>1 DEF Under
      <3>2. CASE ~same
        <4>1. r2.err = "not around" /\ r2.node # None /\ dir = r2.node
          BY Zenon, <1>6, <3>2
        <4> QED  BY <1>3, <4>1 DEF Missing, Found
      <3> QED  BY Zenon, <3>1, <3>2
    <2>3. PICK d \in Live(r2.u) : d = dir
      BY <2>2
    <2>4. PICK kind \in BOOLEAN : kind = n1.dir
      BY Zenon, <1>4, <2>1, InodeIs
    <2>5. PICK name \in Names : name = Last(rel2)
      BY <1>2
    <2> HIDE DEF dir
    <2>6. PICK u : /\ u = init_child_aino(r2.u, d, name, kind)
                   /\ IF a1 \notin Live(u) THEN Wild(u)
                      ELSE \E first, second \in {TRUE} \cup {~f : f \in MayFail("rename")} :
                           \E closed \in SUBSET (IF TRUE \in MayFail("reopen") THEN Keys ELSE {}) :
                              rename_host(a1, n1.nname, u.a_uniq, u.ino[u.a_uniq].nname, u,
                                          first, second, closed)
      BY Zenon, <1>6, <2>3, <2>4, <2>5
    <2>7. Good(u, locks, keys) /\ HasChild(r2.u, u, d, name, kind)
      BY <1>4, <2>2, <2>3, <2>6, ChildGood
    <2>8. CASE a1 \notin Live(u) /\ Wild(u)
      <3>1. kind \/ r2.u.cache <= CacheMax + r2.u.total => Live(r2.u) \subseteq Live(u)
        BY Zenon, <2>7 DEF HasChild
      <3>2. Busy(n1) => a1 \in Live(u)
        BY <2>1, <2>7 DEF HasChild, Keeps
      <3>3. MayFreeIts
        BY <1>6, <2>1, <2>4, <2>8, <3>1, <3>2 DEF MayFreeIts
      <3>4. Passes(r1.u, r2.u) /\ Passes(r2.u, u) /\ Tree(r1.u) /\ Tree(u)
        BY <1>4, <2>7, LooksPasses DEF HasChild, Good
      <3>5. Passes(r1.u, u)
        BY <1>4, <3>4, PassesBoth
      <3> QED  BY <2>7, <2>8, <3>3, <3>5
    <2>9. CASE a1 \in Live(u)
      <3>1. PICK first \in {TRUE} \cup {~f : f \in MayFail("rename")},
                 second \in {TRUE} \cup {~f : f \in MayFail("rename")},
                 closed \in SUBSET (IF TRUE \in MayFail("reopen") THEN Keys ELSE {}) :
              rename_host(a1, n1.nname, u.a_uniq, u.ino[u.a_uniq].nname, u, first, second, closed)
        BY <2>6, <2>9
      <3>2. first \in BOOLEAN
        BY DEF MayFail
      <3>3. closed = {}
        BY DEF MayFail, Exact
      <3>4. PICK a2 : a2 = u.a_uniq
        BY SMTT(30)
      <3>5. /\ Live(u) \subseteq Live(r2.u) \cup {a2} /\ a2 \in Live(u) /\ a2 \notin Live(r2.u) /\ a2 # Root
            /\ Same(Node(d, name, Append(r2.u.ino[d].nname, name), a2, kind), u.ino[a2])
            /\ u.ino[a2].kids = <<>> /\ ~Busy(u.ino[a2]) /\ Keeps(r2.u, u)
            /\ Passes(r2.u, u)
        BY Zenon, <2>7, <3>4 DEF HasChild
      <3>6. /\ u.ino[a2].parent = d /\ u.ino[a2].dir = kind
            /\ u.ino[a2].nname = Append(r2.u.ino[d].nname, name)
        BY Zenon, <3>5 DEF Same, Node
      <3>7. Same(n1, u.ino[a1]) /\ a1 # a2
        BY <2>1, <2>9, <3>5 DEF Keeps
      <3>8. u.ino[a2].parent = a1 => IsPrefix(n1.nname, u.ino[a2].nname) /\ n1.nname # u.ino[a2].nname
        <4> SUFFICES ASSUME d = a1
                     PROVE  IsPrefix(n1.nname, u.ino[a2].nname) /\ n1.nname # u.ino[a2].nname
          BY Zenon, <3>6
        <4>1. PICK s \in Seq(Components) : s = n1.nname
          BY <1>4, <2>1, Parts, Fields DEF Tree
        <4>2. PICK x \in Components : x = name
          BY SMTT(30) DEF Components
        <4>3. u.ino[a2].nname = Append(s, x)
          BY <3>6, <4>1, <4>2
        <4> QED  BY Zenon, <4>1, <4>3, PrefixOfChild
      <3>9. Plain => Children(u, a1) \subseteq {a2}
        <4> SUFFICES ASSUME Plain, NEW q \in Live(u), u.ino[q].parent = a1, q # a2
                     PROVE  FALSE
          BY DEF Children
        <4>1. n1.kids = <<>>
          BY Zenon, <1>6 DEF Plain
        <4>2. Children(r2.u, a1) = {}
          BY <1>4, <2>1, <4>1, NoElements DEF Tree
        <4>3. q \in Live(r2.u)
          BY Zenon, <3>5
        <4>4. r2.u.ino[q].parent = a1
          BY ZenonT(60), <3>5, <4>3 DEF Keeps, Same
        <4> QED  BY Zenon, <4>2, <4>3, <4>4 DEF Children
      <3>10. u.ino[a1].dir = u.ino[a2].dir
        BY <2>4, <3>6, <3>7 DEF Same
      <3>11. rename_host(a1, n1.nname, a2, u.ino[a2].nname, u, first, second, {})
        BY <3>1, <3>3, <3>4
      <3> HIDE DEF n1
      <3>12. PICK m1, m2 : m1 = n1.nname /\ m2 = u.ino[a2].nname
        OBVIOUS
      <3>13. rename_host(a1, m1, a2, m2, u, first, second, {})
        BY <3>11, <3>12
      <3>14. u.ino[a2].parent = a1 => IsPrefix(m1, m2) /\ m1 # m2
        BY <3>8, <3>12
      <3>15. Renames(u, a1, m1, a2, m2)
        BY <2>1, <2>9, <3>5, <3>7, <3>9, <3>10, <3>14 DEF Renames
      <3>16. Plain => m1 = m2 \/ m2 \notin DOMAIN host
        <4> SUFFICES ASSUME Plain
                     PROVE  m1 = m2 \/ m2 \notin DOMAIN host
          OBVIOUS
        <4>1. m2 = Append(r2.u.ino[d].nname, name)
          BY Zenon, <3>6, <3>12
        <4>2. CASE r2.node = a1 /\ r2.err = "ok"
          <5>1. r2.u.ino[a1].name = name /\ d = r2.u.ino[a1].parent
            BY Zenon, <1>3, <2>3, <2>5, <4>2 DEF NamedSo, dir, n1
          <5>2. r2.u.ino[a1].nname = Append(r2.u.ino[d].nname, name)
            BY Zenon, <1>4, <2>1, <5>1 DEF Tree, Under
          <5> QED  BY Zenon, <3>12, <4>1, <5>2 DEF n1
        <4>3. CASE ~(r2.node = a1 /\ r2.err = "ok")
          <5>1. r2.err = "not around" /\ r2.node # None /\ d = r2.node
            BY Zenon, <1>6, <2>3, <4>3 DEF dir
          <5>2. Append(r2.u.ino[d].nname, name) \notin DOMAIN host
            BY Zenon, <1>3, <2>5, <5>1 DEF Missing
          <5> QED  BY Zenon, <4>1, <5>2
        <4> QED  BY Zenon, <4>2, <4>3
      <3>19. Leaves(u, a1)
        <4>1. Leaves(r1.u, a1) /\ a1 \in Live(r1.u)
          BY Zenon, <1>1, <1>6
        <4>2. Same(r1.u.ino[a1], r2.u.ino[a1])
          BY Zenon, <1>4, <2>1, <4>1 DEF Keeps
        <4>3. n1.uniq = u.ino[a1].uniq
          BY Zenon, <3>7 DEF Same
        <4>4. u.ino[a1].uniq = r1.u.ino[a1].uniq
          BY Zenon, <4>2, <4>3 DEF Same, n1
        <4> QED  BY Zenon, <4>1, <4>4 DEF Leaves, Current
      <3>17. MadeFor(r2.u, u, a1, m1, a2, m2)
        BY Zenon, <2>1, <3>5, <3>12, <3>15, <3>16, <3>19 DEF MadeFor, n1
      <3>18. Looks(r1.u, r2.u) /\ a1 = r1.node
        BY Zenon, <1>1, <1>4
      <3> QED  BY ZenonT(60), <1>4, <2>7, <3>2, <3>13, <3>17, <3>18
    <2> QED  BY <2>6, <2>8, <2>9
  <1> QED  BY Zenon, <1>1, <1>5, <1>6

LEMMA RenameKept ==
    ASSUME Exact, NEW r1, NEW rel2 \in Paths, NEW othercase, Good(r1.u, locks, keys),
           r1.err = "ok" => r1.node \in Live(r1.u) /\ r1.node # Root,
           action_rename_object(r1, rel2, othercase)
    PROVE  \/ KeptFrom(r1.u)
           \/ Kept /\ \E w, n1, a2, n2 : Moved(r1.u, w, r1.node, n1, a2, n2) /\ a2 > r1.u.a_uniq
  <1>0. Tree(r1.u)
    BY DEF Good
  <1>1. CASE \E v : Good(v, locks, keys) /\ Looks(r1.u, v) /\ Unchanged(notify_check(v, r1.node))
    <2>1. PICK v, w : Good(v, locks, keys) /\ Looks(r1.u, v) /\ w = notify_check(v, r1.node) /\ Unchanged(w)
      BY <1>1
    <2>2. Good(w, locks, keys) /\ Looks(v, w)
      BY <2>1, NotifyGood
    <2>3. KeptFrom(w)
      BY <2>1, <2>2, UnchangedKept
    <2>4. Passes(r1.u, v) /\ Passes(v, w) /\ Passes(w, unit') /\ Tree(v) /\ Tree(w) /\ Tree(unit')
      BY <2>1, <2>2, <2>3, LooksPasses DEF KeptFrom, Kept, Good
    <2>5. Passes(r1.u, w)
      BY <1>0, <2>4, PassesBoth
    <2>6. Passes(r1.u, unit')
      BY <1>0, <2>4, <2>5, PassesBoth
    <2> QED  BY <2>3, <2>6 DEF KeptFrom
  <1>2. CASE \E v : Good(v, locks, keys) /\ Passes(r1.u, v) /\ Wild(v) /\ MayFreeIts
    <2>1. PICK v : Good(v, locks, keys) /\ Passes(r1.u, v) /\ Wild(v)
      BY <1>2
    <2>2. KeptFrom(v)
      BY <2>1, WildKept
    <2>3. Passes(v, unit') /\ Tree(v) /\ Tree(unit')
      BY <2>1, <2>2 DEF KeptFrom, Kept, Good
    <2>4. Passes(r1.u, unit')
      BY <1>0, <2>1, <2>3, PassesBoth
    <2> QED  BY <2>2, <2>4 DEF KeptFrom
  <1>3. ASSUME NEW v, NEW u, NEW n1, NEW a2, NEW n2, NEW first, NEW second,
               Good(u, locks, keys), Looks(r1.u, v), Tree(v), MadeFor(v, u, r1.node, n1, a2, n2),
               first \in BOOLEAN, rename_host(r1.node, n1, a2, n2, u, first, second, {})
        PROVE  KeptFrom(r1.u) \/ (Kept /\ \E w : Moved(r1.u, w, r1.node, n1, a2, n2) /\ a2 > r1.u.a_uniq)
    <2> DEFINE a1 == r1.node
    <2>1. /\ Keeps(v, u) /\ Passes(v, u) /\ a2 \notin Live(v) /\ Leaves(u, a1) /\ a1 \in Live(v) /\ a1 \in Live(u)
          /\ n1 = v.ino[a1].nname /\ n2 = u.ino[a2].nname /\ Renames(u, a1, n1, a2, n2)
      BY <1>3 DEF MadeFor, Renames
    <2>2. n1 = u.ino[a1].nname
      BY <2>1 DEF Keeps, Same
    <2>3. Passes(r1.u, v) /\ Tree(u)
      BY <1>3, LooksPasses DEF Good
    <2>4. Passes(r1.u, u)
      BY <1>0, <1>3, <2>1, <2>3, PassesBoth
    <2>5. \/ KeptFrom(u)
          \/ Kept /\ Gone(u, unit', a2) /\ host' = host /\ scan' = scan
          \/ Kept /\ \E w : Moved(u, w, a1, n1, a2, n2)
      BY <1>3, <2>1, <2>2, RenameHostKept
    <2>9. a2 > r1.u.a_uniq
      <3>1. a2 > v.a_uniq /\ v.a_uniq >= r1.u.a_uniq
        BY <2>1, <2>3, <1>3 DEF MadeFor, Renames, Keeps, Passes, Drifts
      <3>2. v.a_uniq \in Nat /\ r1.u.a_uniq \in Nat /\ a2 \in Nat
        BY <1>0, <1>3, <2>1, <2>3, Parts DEF Tree, Renames
      <3> QED  BY ONLY <3>1, <3>2
    <2> HIDE DEF a1
    <2>6. CASE KeptFrom(u)
      <3>1. Passes(u, unit') /\ Tree(unit')
        BY <2>6 DEF KeptFrom, Kept, Good
      <3>2. Passes(r1.u, unit')
        BY <1>0, <2>3, <2>4, <3>1, PassesBoth
      <3> QED  BY <2>6, <3>2 DEF KeptFrom
    <2>7. CASE Kept /\ Gone(u, unit', a2) /\ host' = host /\ scan' = scan
      <3>1. Tree(unit')
        BY <2>7 DEF Kept, Good
      <3>2. Passes(v, unit')
        BY <1>3, <2>1, <2>3, <2>7, <3>1, GonePasses
      <3>3. Passes(r1.u, unit')
        BY <1>0, <1>3, <2>3, <3>1, <3>2, PassesBoth
      <3> QED  BY <2>7, <3>3 DEF KeptFrom, Grows
    <2>8. CASE Kept /\ \E w : Moved(u, w, a1, n1, a2, n2)
      <3>1. PICK w : Moved(u, w, a1, n1, a2, n2)
        BY <2>8
      <3>2. Passes(u, w) /\ Tree(w)
        BY <3>1 DEF Moved, Good
      <3>3. Passes(r1.u, w)
        BY <1>0, <2>3, <2>4, <3>2, PassesBoth
      <3>4. Moved(r1.u, w, a1, n1, a2, n2)
        BY <3>1, <3>3 DEF Moved
      <3> QED  BY <2>8, <2>9, <3>4 DEF a1
    <2> QED  BY <2>5, <2>6, <2>7, <2>8
  <1> QED  BY <1>1, <1>2, <1>3, RenameIs

----------------------------------------------------------------------------
(* Examine and ExNext. *)
LEMMA GoodSame ==
    ASSUME NEW u, Good(u, locks, keys), unit' = u, locks' = locks, keys' = keys
    PROVE  Kept
  BY DEF Kept, Good

LEMMA LookupGood ==
    ASSUME NEW u, NEW q, NEW hit, Good(u, locks, keys), NEW r, r = lookup_aino(u, q, hit)
    PROVE  /\ Good(r.u, locks, keys) /\ r.node = NodeOf(u, q) /\ Live(r.u) = Live(u)
           /\ r.node = None \/ (r.node \in Live(r.u) /\ r.u.ino[r.node].uniq = q)
           /\ \A p \in Live(u) : Same(u.ino[p], r.u.ino[p])
           /\ Looks(u, r.u)
  <1>1. Tree(u) /\ Cached(u, None)
    BY DEF Good
  <1>2. /\ Tree(r.u) /\ Cached(r.u, None) /\ Looks(u, r.u) /\ Reorders(u, r.u)
        /\ r.node = NodeOf(u, q)
        /\ r.node = None \/ (r.node \in Live(r.u) /\ r.u.ino[r.node].uniq = q)
    BY <1>1, LookupIs
  <1>3. Good(r.u, locks, keys)
    BY <1>2, GoodLooks DEF Looks, Sees
  <1> QED  BY <1>2, <1>3 DEF Reorders, Stirs

LEMMA AnswerKept ==
    ASSUME NEW s, NEW u, NEW d, NEW seq, NEW must, Good(u, locks, keys), d \in Live(u),
           Answer(s, u, d, seq, must), locks' = locks, keys' = keys
    PROVE  Kept
  <1>1. unit' = u \/ unit' = free_exkey(u, d)
    BY Zenon DEF Answer
  <1>2. PICK v : v = free_exkey(u, d)
    OBVIOUS
  <1>3. Tree(v) /\ Cached(v, None) /\ Keeps(u, v)
    BY <1>2, FreeExkeyIs DEF Good, Remarks, Sees
  <1>4. Good(v, locks, keys)
    BY <1>3, GoodLooks
  <1> QED  BY SMTT(30), <1>1, <1>2, <1>4, GoodSame

LEMMA AgainGood ==
    ASSUME NEW u, NEW d, Good(u, locks, keys), d \in Live(u),
           NEW v, v = [u EXCEPT !.ino[d].exnext = @ + 1]
    PROVE  Good(v, locks, keys) /\ d \in Live(v) /\ v.ino[d].dir = u.ino[d].dir /\ Sees(u, v)
  <1>1. Tree(v) /\ Cached(v, None) /\ Sees(u, v) /\ Keeps(u, v) /\ Live(v) = Live(u)
    BY AgainIs DEF Good, Remarks, Sees
  <1>2. Good(v, locks, keys)
    BY <1>1, GoodLooks
  <1> QED  BY <1>1, <1>2 DEF Keeps, Same

LEMMA PopulateGood ==
    ASSUME NEW u, NEW d, Good(u, locks, keys), d \in Live(u), u.ino[d].dir, NEW w \in populate_directory(u, d)
    PROVE  Good(w, locks, keys) /\ d \in Live(w) /\ Sees(u, w)
  <1>1. Tree(w) /\ Cached(w, None) /\ Sees(u, w) /\ Keeps(u, w)
    BY PopulateIs DEF Good, Sees
  <1>2. Good(w, locks, keys)
    BY SMTT(30), <1>1, GoodLooks
  <1> QED  BY <1>1, <1>2 DEF Keeps

LEMMA ExamineNextKept ==
    ASSUME NEW s \in Scans, NEW hit, Good(unit, locks, keys), action_examine_next(s, hit)
    PROVE  Kept
  <1>1. PICK base \in {lookup_aino(unit, scan[s].dir, hit)} :
           LET d     == base.node
               n     == base.u.ino[d]
               again == [base.u EXCEPT !.ino[d].exnext = @ + 1]
           IN  /\ d # None
               /\ IF scan[s].at = n.uniq
                  THEN \/ Answer(s, base.u, d, <<>>, {})
                       \/ /\ n.dir
                          /\ \E u \in IF n.exnext = 0 /\ Exists(n.nname)
                                      THEN populate_directory(again, d)
                                           \cup (IF "opendir" \in HostMayFail THEN {again} ELSE {})
                                      ELSE {again} :
                               Answer(s, u, d, u.ino[d].kids, {x \in Names : Exists(Append(n.nname, x))})
                  ELSE \E next \in {lookup_aino(base.u, scan[s].at, hit)} :
                       Answer(s, next.u, d, IF next.node = None THEN AfterLost(next.u, d, scan[s].at)
                                            ELSE After(next.u, next.node), scan[s].must)
               /\ UNCHANGED <<locks, keys, host>>
    BY Zenon DEF action_examine_next
  <1>2. PICK d : d = base.node
    OBVIOUS
  <1>3. Good(base.u, locks, keys) /\ d \in Live(base.u)
    <2>1. PICK u, q : u = unit /\ q = scan[s].dir
      BY SMTT(30)
    <2>2. base = lookup_aino(u, q, hit) /\ Good(u, locks, keys)
      BY Zenon, <1>1, <2>1
    <2>3. Good(base.u, locks, keys) /\ (d = None \/ d \in Live(base.u))
      BY SMTT(30), <1>2, <2>2, LookupGood
    <2> QED  BY Zenon, <1>1, <1>2, <2>3
  <1>4. locks' = locks /\ keys' = keys
    BY Zenon, <1>1
  <1>5. CASE Answer(s, base.u, d, <<>>, {})
    BY <1>3, <1>4, <1>5, AnswerKept
  <1>6. PICK again : again = [base.u EXCEPT !.ino[d].exnext = @ + 1]
    OBVIOUS
  <1>7. CASE /\ base.u.ino[d].dir
             /\ \E u \in populate_directory(again, d) \cup {again} : \E seq, must : Answer(s, u, d, seq, must)
    <2>1. PICK u, seq, must : u \in populate_directory(again, d) \cup {again} /\ Answer(s, u, d, seq, must)
      BY <1>7
    <2>2. Good(again, locks, keys) /\ d \in Live(again) /\ again.ino[d].dir
      <3>1. PICK x : x = base.u
        BY SMTT(30)
      <3>2. Good(x, locks, keys) /\ d \in Live(x) /\ again = [x EXCEPT !.ino[d].exnext = @ + 1] /\ x.ino[d].dir
        BY Zenon, <1>3, <1>6, <1>7, <3>1
      <3>3. Good(again, locks, keys) /\ d \in Live(again) /\ again.ino[d].dir = x.ino[d].dir
        BY ONLY <3>2, AgainGood
      <3> QED  BY <3>2, <3>3
    <2>3. Good(u, locks, keys) /\ d \in Live(u)
      BY <2>1, <2>2, PopulateGood
    <2> QED  BY <1>4, <2>1, <2>3, AnswerKept
  <1>8. CASE \E next \in {lookup_aino(base.u, scan[s].at, hit)} : \E seq, must : Answer(s, next.u, d, seq, must)
    <2>1. PICK next, seq, must : next = lookup_aino(base.u, scan[s].at, hit) /\ Answer(s, next.u, d, seq, must)
      BY <1>8
    <2>2. Good(next.u, locks, keys) /\ Live(next.u) = Live(base.u)
      BY <1>3, <2>1, LookupGood
    <2> QED  BY <1>3, <1>4, <2>1, <2>2, AnswerKept
  <1> QED  BY Zenon, <1>1, <1>2, <1>5, <1>6, <1>7, <1>8

LEMMA ScanKept ==
    ASSUME NEW s \in Scans, Good(unit, locks, keys), ScanPacket(s)
    PROVE  Kept
  <1>1. CASE \E q, hit, r : r = lookup_aino(unit, q, hit) /\ Examine(s, q, r)
    <2>1. PICK q, hit, r : r = lookup_aino(unit, q, hit) /\ Examine(s, q, r)
      BY <1>1
    <2>2. Good(r.u, locks, keys)
      BY <2>1, LookupGood
    <2> QED  BY <2>1, <2>2, GoodSame DEF Examine
  <1>2. CASE \E hit \in BOOLEAN : action_examine_next(s, hit)
    BY <1>2, ExamineNextKept
  <1>3. CASE Abandon(s)
    BY <1>3, GoodSame DEF Abandon
  <1> QED  BY <1>1, <1>2, <1>3 DEF ScanPacket

----------------------------------------------------------------------------
(* The packets. *)
LEMMA FindGood ==
    ASSUME NEW q, NEW rel \in Seq(Names), rel # <<>>, NEW hit, Good(unit, locks, keys),
           NEW r, r = find_aino(unit, q, rel, hit)
    PROVE  /\ Good(r.u, locks, keys)
           /\ r.err = "ok" => r.node \in Live(r.u) /\ r.node # Root
           /\ r.err = "not around" /\ r.node # None => r.node \in Live(r.u) /\ r.u.ino[r.node].dir
           /\ Looks(unit, r.u)
  <1>1. Tree(unit) /\ Cached(unit, None)
    BY DEF Good
  <1>2. /\ Found(unit, r)
        /\ r.err = "ok" => NamedSo(r, Last(rel))
        /\ r.err = "not around" /\ r.node # None => Missing(r, Last(rel))
    BY <1>1, FindIs
  <1>3. Good(r.u, locks, keys)
    BY <1>2, GoodLooks DEF Found, Looks, Sees
  <1> QED  BY <1>2, <1>3 DEF Found, NamedSo, Missing

\* What a packet is that works on u: it passes on, or an object goes or gets another name.
Stepped(u) ==
    \/ KeptFrom(u)
    \/ Kept /\ \E v, p : Looks(u, v) /\ Deletes(v, p)
    \/ Kept /\ \E w, a1, n1, a2, n2 : Moved(u, w, a1, n1, a2, n2) /\ a2 > u.a_uniq
LEMMA LooksStepped ==
    ASSUME NEW u, NEW v, Tree(u), Tree(v), Looks(u, v), Stepped(v)
    PROVE  Stepped(u)
  <1>1. Passes(u, v) /\ u.a_uniq \in Nat /\ v.a_uniq \in Nat /\ v.a_uniq >= u.a_uniq
    BY LooksPasses, Parts DEF Tree, Passes, Drifts
  <1>2. CASE KeptFrom(v)
    <2>1. Passes(v, unit') /\ Tree(unit')
      BY <1>2 DEF KeptFrom, Kept, Good
    <2>2. Passes(u, unit')
      BY <1>1, <2>1, PassesBoth
    <2> QED  BY <1>2, <2>2 DEF KeptFrom, Stepped
  <1>3. CASE Kept /\ \E w, p : Looks(v, w) /\ Deletes(w, p)
    <2>1. PICK w, p : Looks(v, w) /\ Deletes(w, p)
      BY <1>3
    <2>2. Looks(u, w)
      BY <2>1, LooksBoth DEF Deletes
    <2> QED  BY <1>3, <2>1, <2>2 DEF Stepped
  <1>4. CASE Kept /\ \E w, a1, n1, a2, n2 : Moved(v, w, a1, n1, a2, n2) /\ a2 > v.a_uniq
    <2>1. PICK w, a1, n1, a2, n2 : Moved(v, w, a1, n1, a2, n2) /\ a2 > v.a_uniq
      BY <1>4
    <2>2. Passes(v, w) /\ Tree(w) /\ a2 \in Live(w)
      BY <2>1 DEF Moved, Moves, Good
    <2>3. Passes(u, w) /\ a2 \in Nat
      BY <1>1, <2>2, PassesBoth, Parts DEF Tree
    <2>4. Moved(u, w, a1, n1, a2, n2)
      BY <2>1, <2>3 DEF Moved
    <2>5. a2 > u.a_uniq
      BY ONLY <1>1, <2>1, <2>3
    <2> QED  BY <1>4, <2>4, <2>5 DEF Stepped
  <1> QED  BY <1>2, <1>3, <1>4 DEF Stepped

LEMMA NamePacketKept ==
    ASSUME Exact, NEW r, NEW name \in Names, Good(r.u, locks, keys),
           r.err = "ok" => r.node \in Live(r.u) /\ r.node # Root,
           r.err = "not around" /\ r.node # None => r.node \in Live(r.u) /\ r.u.ino[r.node].dir,
           NamePacket(r, name)
    PROVE  Stepped(r.u)
  <1>1. CASE Refused(r)
    BY <1>1, UnchangedKept DEF Refused, Stepped
  <1>2. CASE \E exclusive \in BOOLEAN : action_lock(r, exclusive)
    <2>1. PICK exclusive \in BOOLEAN : action_lock(r, exclusive)
      BY <1>2
    <2>2. r.node \in Live(r.u)
      BY <2>1 DEF action_lock
    <2> QED  BY <2>1, <2>2, LockKept DEF Stepped
  <1>3. CASE \E k \in Keys \ KeyOpen, create \in 0 .. 2 : do_find(k, r, name, create)
    BY <1>3, DoFindKept DEF Stepped
  <1>4. CASE action_create_dir(r, name)
    BY <1>4, CreateDirKept DEF Stepped
  <1>5. CASE action_delete_object(r)
    BY <1>5, DeleteObjectKept DEF Stepped
  <1>6. CASE \E to \in Paths, othercase \in BOOLEAN : action_rename_object(r, to, othercase)
    BY <1>6, RenameKept DEF Stepped
  <1> QED  BY <1>1, <1>2, <1>3, <1>4, <1>5, <1>6 DEF NamePacket

LEMMA UniqPacketKept ==
    ASSUME Exact, NEW r, Good(r.u, locks, keys),
           r.node # None => /\ r.node \in Live(r.u)
                            /\ Held(locks, r.u.ino[r.node].uniq) > 0 \/ Opened(keys, r.node) # {},
           UniqPacket(r)
    PROVE  KeptFrom(r.u)
  <1>1. CASE action_dup_lock_2(r)
    BY <1>1, DupLockKept
  <1>2. CASE action_parent_common(r)
    BY <1>2, ParentKept
  <1>3. CASE \E exclusive \in BOOLEAN : action_change_mode(r, exclusive)
    BY <1>3, ChangeModeKept DEF Exact
  <1> QED  BY <1>1, <1>2, <1>3 DEF UniqPacket

LEMMA LockPacketKept ==
    ASSUME Exact, NEW q \in LockHeld, NEW hit, Good(unit, locks, keys),
           NEW r, r = lookup_aino(unit, q, hit), LockPacket(q, r)
    PROVE  Stepped(unit)
  <1>1. /\ Good(r.u, locks, keys) /\ Looks(unit, r.u)
        /\ r.node # None => r.node \in Live(r.u) /\ r.u.ino[r.node].uniq = q
    BY LookupGood
  <1>2. Held(locks, q) > 0
    BY DEF LockHeld, Held
  <1>3. UniqPacket(r) => KeptFrom(r.u)
    BY <1>1, <1>2, UniqPacketKept
  <1>4. action_free_lock(q, r) => KeptFrom(r.u)
    <2>1. action_free_lock(q, r) => r.node # None
      BY DEF action_free_lock
    <2> QED  BY <1>1, <2>1, FreeLockKept
  <1>5. (\E k \in Keys \ KeyOpen : action_fh_from_lock(k, q, r)) => KeptFrom(r.u)
    BY <1>1, FromLockKept
  <1>6. KeptFrom(r.u)
    BY <1>3, <1>4, <1>5 DEF LockPacket
  <1>7. Stepped(r.u)
    BY <1>6 DEF Stepped
  <1> QED  BY <1>1, <1>7, LooksStepped DEF Good

LEMMA KeyPacketKept ==
    ASSUME Exact, NEW k \in KeyOpen, Good(unit, locks, keys), KeyPacket(k)
    PROVE  Stepped(unit)
  <1>1. CASE action_end(k)
    BY <1>1, EndKept DEF Stepped
  <1>2. CASE Wild(unit)
    <2>1. KeptFrom(unit)
      BY SMTT(30), <1>2, WildKept
    <2> QED  BY <2>1 DEF Stepped
  <1> DEFINE p == keys[k].ino
             q == unit.ino[p].uniq
  <1>3. CASE /\ p \in Live(unit)
             /\ \E hit \in Hits(q) : \E r \in {lookup_aino(unit, q, hit)} : UniqPacket(r)
    <2>1. PICK hit, r : r = lookup_aino(unit, q, hit) /\ UniqPacket(r)
      BY <1>3
    <2>2. /\ Good(r.u, locks, keys) /\ r.node = NodeOf(unit, q) /\ Looks(unit, r.u)
          /\ r.node = None \/ (r.node \in Live(r.u) /\ r.u.ino[r.node].uniq = q)
      <3> HIDE DEF q
      <3> QED  BY <2>1, LookupGood
    <2>3. r.node = p
      <3>1. p \in Live(unit) /\ unit.ino[p].uniq = q /\ Tree(unit)
        BY <1>3 DEF Good
      <3> HIDE DEF p, q
      <3> QED  BY <2>2, <3>1, NodeOfIs
    <2>4. Opened(keys, p) # {}
      BY DEF Opened, KeyOpen
    <2>5. KeptFrom(r.u)
      BY Zenon, <2>1, <2>2, <2>3, <2>4, UniqPacketKept
    <2> HIDE DEF p, q
    <2>6. Stepped(r.u) /\ Tree(unit) /\ Tree(r.u)
      BY <2>2, <2>5 DEF Stepped, Good
    <2> QED  BY <2>2, <2>6, LooksStepped
  <1> QED  BY <1>1, <1>2, <1>3 DEF KeyPacket

\* What a packet names.
LEMMA ArgNames ==
    ASSUME NEW arg \in Args, NEW rel, rel = arg[2]
    PROVE  rel \in Seq(Names) /\ rel # <<>> /\ Last(rel) \in Names
  <1>1. rel \in Seq(Names) /\ rel # <<>>
    <2>1. CASE \E path \in Paths : arg = <<Root, path>>
      BY <2>1, TreeAssumption
    <2>2. CASE \E x \in Names : \E l \in LockHeld : arg = <<l, <<x>>>>
      <3>1. PICK x \in Names : rel = <<x>>
        BY <2>2
      <3> QED  BY <3>1
    <2> QED  BY <2>1, <2>2 DEF Args
  <1>2. Len(rel) \in 1 .. Len(rel)
    BY <1>1, Elements
  <1> QED  BY <1>1, <1>2, Elements DEF Last

LEMMA NextKept ==
    ASSUME Exact, Good(unit, locks, keys), TreeNext
    PROVE  /\ Kept /\ unit'.a_uniq <= MaxInodes
           /\ Stepped(unit) \/ \E s \in Scans : ScanPacket(s)
  <1>1. unit'.a_uniq <= MaxInodes
    BY DEF TreeNext, Bounded
  <1>2. ASSUME \E arg \in Args : \E hit \in Hits(arg[1]) :
                  \E r \in {find_aino(unit, arg[1], arg[2], hit)} : NamePacket(r, Last(arg[2]))
        PROVE  Stepped(unit)
    <2>1. PICK arg, hit, r : /\ arg \in Args /\ r = find_aino(unit, arg[1], arg[2], hit)
                             /\ NamePacket(r, Last(arg[2]))
      BY <1>2
    <2>2. PICK q, rel : q = arg[1] /\ rel = arg[2]
      OBVIOUS
    <2>3. rel \in Seq(Names) /\ rel # <<>> /\ Last(rel) \in Names
      BY <2>1, <2>2, ArgNames
    <2>5. r = find_aino(unit, q, rel, hit) /\ NamePacket(r, Last(rel))
      BY <2>1, <2>2
    <2>6. /\ Good(r.u, locks, keys)
          /\ r.err = "ok" => r.node \in Live(r.u) /\ r.node # Root
          /\ r.err = "not around" /\ r.node # None => r.node \in Live(r.u) /\ r.u.ino[r.node].dir
          /\ Looks(unit, r.u)
      BY <2>3, <2>5, FindGood
    <2>7. Stepped(r.u)
      BY <2>3, <2>5, <2>6, NamePacketKept
    <2> QED  BY <2>6, <2>7, LooksStepped DEF Good
  <1>3. ASSUME \E q \in LockHeld : \E hit \in Hits(q) : \E r \in {lookup_aino(unit, q, hit)} : LockPacket(q, r)
        PROVE  Stepped(unit)
    BY <1>3, LockPacketKept
  <1>4. ASSUME \E k \in KeyOpen : KeyPacket(k)
        PROVE  Stepped(unit)
    BY <1>4, KeyPacketKept
  <1>5. ASSUME \E s \in Scans : ScanPacket(s)
        PROVE  Kept
    BY <1>5, ScanKept
  <1>6. Stepped(unit) => Kept
    BY DEF Stepped, KeptFrom
  <1> QED  BY <1>1, <1>2, <1>3, <1>4, <1>5, <1>6 DEF TreeNext

----------------------------------------------------------------------------
(* The invariant. *)
TreeInv == Good(unit, locks, keys) /\ unit.a_uniq <= MaxInodes

LEMMA InitKept == TreeInit => TreeInv
  <1> SUFFICES ASSUME TreeInit
               PROVE  TreeInv
    OBVIOUS
  <1>1. PICK n : n = Node(None, "", <<>>, 0, TRUE)
    OBVIOUS
  <1>2. /\ unit.ino = [q \in {Root} |-> n] /\ unit.chain = <<>> /\ unit.cache = 0 /\ unit.total = 0
        /\ unit.a_uniq = 0 /\ unit.wild = FALSE
        /\ unit = [ino |-> unit.ino, chain |-> unit.chain, cache |-> unit.cache, total |-> unit.total,
                   a_uniq |-> unit.a_uniq, wild |-> unit.wild]
    BY <1>1 DEF TreeInit
  <1>3. n \in Nodes
    <2>1. n = [parent |-> None, name |-> "", nname |-> <<>>, uniq |-> 0, dir |-> TRUE,
               shlock |-> 0, elock |-> FALSE, exnext |-> 0, locked |-> 0, kids |-> <<>>]
      BY <1>1 DEF Node
    <2>2. <<>> \in Seq(Components) /\ <<>> \in Seq(Nat)
      BY NoElements
    <2>3. 0 \in Nat /\ 0 \in Int
      BY ONLY TRUE
    <2> QED  BY <2>1, <2>2, <2>3 DEF Nodes
  <1>4. /\ n.parent = None /\ n.nname = <<>> /\ n.uniq = 0 /\ n.dir = TRUE /\ n.shlock = 0
        /\ n.elock = FALSE /\ n.kids = <<>>
    BY <1>1 DEF Node
  <1>5. Live(unit) = {Root} /\ unit.ino[Root] = n /\ Root \in Nat
    BY <1>2 DEF Live, Root
  <1>6. unit \in Units
    <2>1. unit.ino \in [{Root} -> Nodes] /\ {Root} \in SUBSET Nat
      BY <1>2, <1>3, <1>5
    <2>2. unit.ino \in UNION {[D -> Nodes] : D \in SUBSET Nat}
      BY <2>1
    <2>3. unit.chain \in Seq(Nat)
      BY <1>2, NoElements
    <2>4. unit.cache \in Int /\ unit.total \in Int /\ unit.a_uniq \in Nat
      BY <1>2
    <2>5. unit.wild \in BOOLEAN
      BY <1>2
    <2> QED  BY ONLY <1>2, <2>2, <2>3, <2>4, <2>5 DEF Units
  <1>7. Tree(unit)
    <2>1. Live(unit) \subseteq 0 .. unit.a_uniq
      BY <1>2, <1>5 DEF Root
    <2>2. \A p \in Live(unit) : NoDup(unit.ino[p].kids) /\ ToSet(unit.ino[p].kids) = Children(unit, p)
      <3>1. Children(unit, Root) = {}
        BY <1>4, <1>5 DEF Children, Root, None
      <3> QED  BY <1>4, <1>5, <3>1, NoElements
    <2>3. \A p \in Live(unit) : unit.ino[p].uniq <= unit.a_uniq
      BY <1>2, <1>4, <1>5
    <2> QED  BY <1>4, <1>5, <1>6, <2>1, <2>2, <2>3 DEF Tree
  <1>8. Cached(unit, None)
    <2>1. Idle(unit) = {}
      BY <1>4, <1>5 DEF Idle
    <2> QED  BY <1>2, <2>1, NoElements DEF Cached
  <1>9. locks = [q \in 0 .. MaxInodes |-> 0] /\ keys = [k \in Keys |-> NoKey]
    BY DEF TreeInit
  <1>10. locks \in Locked
    BY <1>9 DEF Locked
  <1>11. keys \in Opens
    <2>1. NoKey.ino \in Nat \cup {None} /\ NoKey.create \in 0 .. 2
      BY DEF NoKey
    <2>2. NoKey.notify \in BOOLEAN
      BY DEF NoKey
    <2>3. NoKey = [ino |-> NoKey.ino, create |-> NoKey.create, notify |-> NoKey.notify]
      BY DEF NoKey
    <2>4. NoKey \in [ino : Nat \cup {None}, create : 0 .. 2, notify : BOOLEAN]
      BY ONLY <2>1, <2>2, <2>3
    <2> QED  BY <1>9, <2>4 DEF Opens
  <1>12. CountedAt(unit, locks, keys, Root)
    <2>1. Opened(keys, Root) = {}
      BY <1>9 DEF Opened, NoKey, Root, None
    <2>2. Cardinality(Opened(keys, Root)) = 0
      BY <1>10, <1>11, <2>1, CountsAre
    <2>3. Held(locks, unit.ino[Root].uniq) = 0
      BY <1>9 DEF Held
    <2>4. Count(n) = 0
      BY <1>4 DEF Count
    <2> QED  BY <1>4, <1>5, <2>2, <2>3, <2>4 DEF CountedAt
  <1>13. Counted(unit, locks, keys)
    <2>1. \A q \in DOMAIN locks : ~(locks[q] > 0)
      BY <1>9
    <2>2. \A k \in Keys : keys[k] = NoKey
      BY <1>9
    <2> QED  BY <1>5, <1>10, <1>11, <1>12, <2>1, <2>2 DEF Counted
  <1>14. unit.a_uniq <= MaxInodes
    BY <1>2, TreeAssumption
  <1> QED  BY <1>7, <1>8, <1>13, <1>14 DEF TreeInv, Good

LEMMA InvHolders == TreeInv => HoldersCounted
  <1> SUFFICES ASSUME TreeInv
               PROVE  HoldersCounted
    OBVIOUS
  <1>1. Tree(unit) /\ Counted(unit, locks, keys) /\ locks \in Locked /\ keys \in Opens
    BY DEF TreeInv, Good, Counted
  <1>2. \A q \in LockHeld : NodeOf(unit, q) # None
    <2> SUFFICES ASSUME NEW q \in LockHeld
                 PROVE  NodeOf(unit, q) # None
      OBVIOUS
    <2>1. PICK p \in Live(unit) : unit.ino[p].uniq = q
      BY <1>1 DEF Counted, LockHeld
    <2> QED  BY <1>1, <2>1, NodeOfIs
  <1>3. \A k \in KeyOpen : keys[k].ino \in Live(unit)
    BY <1>1 DEF Counted, KeyOpen
  <1>4. ASSUME NEW p \in Live(unit)
        PROVE  /\ Holders(p) = Count(unit.ino[p])
               /\ unit.ino[p].elock => Holders(p) = 1
    <2>1. CountedAt(unit, locks, keys, p)
      BY <1>1 DEF Counted
    <2>2. unit.ino[p].uniq \in 0 .. MaxInodes
      <3>1. unit.ino[p].uniq \in Nat /\ unit.ino[p].uniq <= unit.a_uniq /\ unit.a_uniq \in Nat
        BY <1>1, InodeIs, Parts DEF Tree
      <3>2. unit.a_uniq <= MaxInodes /\ MaxInodes \in Nat
        BY TreeAssumption DEF TreeInv
      <3> QED  BY ONLY <3>1, <3>2
    <2>3. Held(locks, unit.ino[p].uniq) = locks[unit.ino[p].uniq]
      BY <1>1, <2>2 DEF Held, Locked
    <2>4. Holders(p) = Held(locks, unit.ino[p].uniq) + Cardinality(Opened(keys, p))
      BY <2>3 DEF Holders, Opened
    <2>5. Holders(p) = Count(unit.ino[p]) /\ (unit.ino[p].elock => unit.ino[p].shlock = 0)
      BY <2>1, <2>4 DEF CountedAt
    <2> QED  BY <2>5 DEF Count
  <1> QED  BY <1>2, <1>3, <1>4 DEF HoldersCounted, Count

LEMMA InvCache == TreeInv => CacheExact
  <1> SUFFICES ASSUME TreeInv
               PROVE  CacheExact
    OBVIOUS
  <1>1. Tree(unit) /\ NoDup(unit.chain) /\ ToSet(unit.chain) = Idle(unit) \ {None}
    BY DEF TreeInv, Good, Cached
  <1>2. None \notin Idle(unit)
    BY <1>1, NodeOfIs DEF Idle
  <1>3. unit.chain \in Seq(Nat)
    BY <1>1, Parts DEF Tree
  <1>4. Cardinality(ToSet(unit.chain)) = Len(unit.chain)
    BY <1>1, <1>3, LenIsCardinality
  <1> QED  BY <1>1, <1>2, <1>4 DEF CacheExact, Idle

\* The a_inodes of a unit are a tree, its chain and its counts agree with it, whatever packets come
\* of a guest and a host that do what Exact says (it leaves out three sequences that break the counts):
\* flush_cache under every lookup, delete_aino and update_child_names never leave a list of children
\* or a parent that is wrong, and lookup_sub finds one a_inode for a uniq.
THEOREM TreeKept ==
    ASSUME Exact
    PROVE  TreeSpec => []TreeInv
  <1>1. TreeInv /\ [TreeNext]_vars => TreeInv'
    <2> SUFFICES ASSUME TreeInv, [TreeNext]_vars
                 PROVE  TreeInv'
      OBVIOUS
    <2>1. CASE TreeNext
      BY <2>1, NextKept DEF TreeInv, Kept
    <2>2. CASE UNCHANGED vars
      BY <2>2 DEF TreeInv, Good, vars
    <2> QED  BY <2>1, <2>2
  <1> QED  BY <1>1, InitKept, PTL DEF TreeSpec

\* shlock and elock are the guest's locks and open files through action_lock, action_dup_lock,
\* action_fh_from_lock, action_change_mode, action_rename_object and the packets that fail, and no
\* key refers to an a_inode that flush_cache or delete_aino freed.  Exact names the three sequences
\* that do miscount: a shared lock made shared (filesys.cpp:5596), a host that renames an open file
\* (6021), a file that does not open again after a rename (5838).
THEOREM HoldersAreCounted ==
    ASSUME Exact
    PROVE  TreeSpec => []HoldersCounted
  BY TreeKept, InvHolders, PTL

\* recycle_aino and de_recycle_aino leave exactly the files nobody holds in the chain of flush_cache,
\* each once: none is freed under its holder and none is forgotten, but for the sequences that Exact
\* leaves out.
THEOREM CacheIsExact ==
    ASSUME Exact
    PROVE  TreeSpec => []CacheExact
  BY TreeKept, InvCache, PTL
=============================================================================
