------------------------- MODULE FilesysHost_proofs -------------------------
(***************************************************************************)
(* Proofs about FilesysTree and the host directory it stands for: what     *)
(* the a_inodes name is on the host (Standing), and the guest's ExNext     *)
(* loops over it (LoopsInv), until a handler uses an a_inode that was      *)
(* freed.  FilesysTree_proofs has what they stand on, TreeInv, and the     *)
(* lemmas about the operators.  The types of the model come last, since    *)
(* those of the scans' counters follow from the loops.                     *)
(***************************************************************************)
EXTENDS FilesysTree_proofs


----------------------------------------------------------------------------
(* The a_inodes and the host directory. *)
Settled == (unit'.wild /\ MayFreeIts) \/ (Sited(unit', host', {}) /\ Lettered(host'))

\* Names and kinds stay, a_inodes may go.
Stays(u, v) ==
    /\ Live(v) \subseteq Live(u) /\ v.wild = u.wild
    /\ \A p \in Live(v) : v.ino[p].nname = u.ino[p].nname /\ v.ino[p].dir = u.ino[p].dir

LEMMA SitedStays ==
    ASSUME NEW u, NEW v, NEW h, Sited(u, h, {}), Stays(u, v)
    PROVE  Sited(v, h, {})
  BY DEF Sited, Stays, At

LEMMA SitedSees ==
    ASSUME Plain, NEW u, NEW v, Sited(u, host, {}), Sees(u, v)
    PROVE  Sited(v, host, {})
  <1>1. Distinct(v)
    BY DEF Sees, Sited, Distinct
  <1>2. ASSUME NEW p \in Live(v)
        PROVE  At(v.ino[p], host)
    <2>1. CASE p \in Live(u)
      <3>1. Same(u.ino[p], v.ino[p]) /\ At(u.ino[p], host)
        BY <2>1 DEF Sees, Keeps, Sited
      <3> QED  BY <3>1 DEF Same, At
    <2>2. CASE p \notin Live(u)
      BY <2>2 DEF Sees, OnHost, At
    <2> QED  BY <2>1, <2>2
  <1> QED  BY <1>1, <1>2 DEF Sited, Distinct, Sees, Keeps

LEMMA SitedLooks ==
    ASSUME Plain, NEW u, NEW v, Sited(u, host, {}), Looks(u, v)
    PROVE  Sited(v, host, {})
  BY SitedSees DEF Looks

LEMMA NothingSettled ==
    ASSUME NEW u, Sited(u, host, {}), Lettered(host), unit' = u, host' = host
    PROVE  Settled
  BY DEF Settled

LEMMA UnchangedSettled ==
    ASSUME NEW u, Sited(u, host, {}), Lettered(host), Unchanged(u)
    PROVE  Settled
  BY NothingSettled DEF Unchanged

LEMMA WildSettled ==
    ASSUME NEW u, u \in Units, Wild(u), MayFreeIts
    PROVE  Settled
  BY DEF Settled, Wild, Unchanged, Units

\* The counts of an a_inode are not its name.
LEMMA SetStays ==
    ASSUME NEW u, NEW p, NEW e, NEW s, Tree(u), p \in Live(u),
           NEW P, NEW v, v = de_recycle_aino(SetTo(u, p, e, s), P)
    PROVE  Stays(u, v)
  <1>1. u \in Units /\ u.ino \in [Live(u) -> Nodes]
    BY Parts DEF Tree
  <1>2. v.ino = [u.ino EXCEPT ![p] = [u.ino[p] EXCEPT !.elock = e, !.shlock = s]]
    BY <1>1 DEF de_recycle_aino, SetTo, Units
  <1>3. Live(v) = Live(u) /\ v.wild = u.wild
    <2>1. v.wild = u.wild
      BY <1>1 DEF de_recycle_aino, SetTo, Units
    <2> QED  BY <1>1, <1>2, <2>1 DEF Live
  <1>4. ASSUME NEW q \in Live(u)
        PROVE  v.ino[q].nname = u.ino[q].nname /\ v.ino[q].dir = u.ino[q].dir
    <2>1. u.ino[q] \in Nodes
      BY <1>1
    <2>2. CASE q = p
      <3>1. v.ino[q] = [u.ino[q] EXCEPT !.elock = e, !.shlock = s]
        BY <1>1, <1>2, <2>2
      <3> QED  BY <2>1, <3>1 DEF Nodes
    <2>3. CASE q # p
      BY <1>1, <1>2, <2>3
    <2> QED  BY <2>2, <2>3
  <1> QED  BY <1>3, <1>4 DEF Stays

LEMMA HoldStays ==
    ASSUME NEW u, NEW p, NEW exclusive, Tree(u), p \in Live(u)
    PROVE  Stays(u, Hold(u, p, exclusive))
  <1> DEFINE e == u.ino[p].elock \/ exclusive
             s == IF exclusive THEN u.ino[p].shlock ELSE u.ino[p].shlock + 1
  <1>1. u \in Units /\ u.ino \in [Live(u) -> Nodes]
    BY Parts DEF Tree
  <1>2. Hold(u, p, exclusive) = de_recycle_aino(SetTo(u, p, e, s), {p})
    BY <1>1 DEF Hold, SetTo, Units, Nodes
  <1> HIDE DEF e, s
  <1> QED  BY <1>2, SetStays

LEMMA ReleaseStays ==
    ASSUME NEW u, NEW p, Good(u, locks, keys), p \in Live(u),
           Held(locks, u.ino[p].uniq) > 0 \/ Opened(keys, p) # {}
    PROVE  Stays(u, Release(u, p))
  <1> DEFINE n == u.ino[p]
             s == IF n.elock THEN n.shlock ELSE n.shlock - 1
  <1>1. n.shlock \in Nat /\ Busy(n) /\ Tree(u) /\ Cached(u, None)
    BY BusyIs DEF Good
  <1>2. u \in Units /\ u.ino \in [Live(u) -> Nodes] /\ n.elock \in BOOLEAN
    BY <1>1, InodeIs
  <1>3. PICK e \in BOOLEAN : e = FALSE
    OBVIOUS
  <1>4. Release(u, p) = recycle_aino(SetTo(u, p, e, s), p)
    BY <1>2, <1>3 DEF Release, SetTo, Units, Nodes
  <1>5. s \in Int
    BY <1>1
  <1> HIDE DEF s
  <1>6. PICK x : x = SetTo(u, p, e, s)
    OBVIOUS
  <1>7. PICK m \in Nodes : Tree(x) /\ ChangedAt(u, x, p, m) /\ Placed(u.ino[p], m)
    BY <1>1, <1>5, <1>6, SetHolds
  <1>8. PICK w : w = recycle_aino(x, p)
    OBVIOUS
  <1>9. Keeps(x, w) /\ Live(w) \subseteq Live(x)
    <2>1. m.dir = u.ino[p].dir
      BY <1>7 DEF Placed
    <2> QED  BY <1>1, <1>7, <1>8, <2>1, GivenBack DEF Flushes
  <1>10. Stays(u, x)
    BY <1>7 DEF ChangedAt, Placed, Stays
  <1>11. Stays(u, w)
    BY <1>9, <1>10 DEF Stays, Keeps, Same
  <1> QED  BY <1>4, <1>6, <1>8, <1>11

----------------------------------------------------------------------------
(* Packets that leave the host directory alone. *)
LEMMA TreeLooksSited ==
    ASSUME Plain, NEW u, Tree(u), Cached(u, None), Sited(u, host, {})
    PROVE  /\ \A p : Sited(notify_check(u, p), host, {})
           /\ \A q, hit : Sited(lookup_aino(u, q, hit).u, host, {})
           /\ \A q, hit : \A rel \in Seq(Names) : rel # <<>> => Sited(find_aino(u, q, rel, hit).u, host, {})
  <1>1. ASSUME NEW p
        PROVE  Sited(notify_check(u, p), host, {})
    <2>1. PICK v : v = notify_check(u, p)
      OBVIOUS
    <2>2. Looks(u, v)
      BY <2>1, NotifyIs
    <2> QED  BY <2>1, <2>2, SitedLooks
  <1>2. ASSUME NEW q, NEW hit
        PROVE  Sited(lookup_aino(u, q, hit).u, host, {})
    <2>1. Looks(u, lookup_aino(u, q, hit).u)
      BY LookupIs
    <2> QED  BY <2>1, SitedLooks
  <1>3. ASSUME NEW q, NEW hit, NEW rel \in Seq(Names), rel # <<>>
        PROVE  Sited(find_aino(u, q, rel, hit).u, host, {})
    <2>1. Found(u, find_aino(u, q, rel, hit))
      BY <1>3, FindIs
    <2>2. Looks(u, find_aino(u, q, rel, hit).u)
      BY <2>1 DEF Found
    <2> QED  BY <2>2, SitedLooks
  <1> QED  BY <1>1, <1>2, <1>3

LEMMA StaysSettled ==
    ASSUME NEW u, Sited(u, host, {}), Lettered(host), Stays(u, unit'), host' = host
    PROVE  Settled
  BY SitedStays DEF Settled

LEMMA UniqPacketSettled ==
    ASSUME NEW r, Good(r.u, locks, keys), r.node # None => r.node \in Live(r.u),
           Sited(r.u, host, {}), Lettered(host), UniqPacket(r)
    PROVE  Settled
  <1>0. Tree(r.u)
    BY DEF Good
  <1>1. CASE Unchanged(r.u)
    BY <1>1, UnchangedSettled
  <1>2. CASE \E p \in Live(r.u) : unit' = Hold(r.u, p, FALSE) /\ host' = host
    BY <1>0, <1>2, HoldStays, StaysSettled
  <1>3. CASE action_dup_lock_2(r)
    BY <1>1, <1>2, <1>3 DEF action_dup_lock_2
  <1>4. CASE action_parent_common(r)
    <2>1. r.node # None /\ r.node # Root => r.u.ino[r.node].parent \in Live(r.u)
      BY <1>0 DEF Tree, Under
    <2> QED  BY <1>1, <1>2, <1>4, <2>1 DEF action_parent_common
  <1>5. CASE \E exclusive \in BOOLEAN : action_change_mode(r, exclusive)
    <2>1. PICK exclusive \in BOOLEAN : action_change_mode(r, exclusive)
      BY <1>5
    <2>2. \/ Unchanged(r.u)
          \/ /\ r.node # None /\ host' = host
             /\ unit' = de_recycle_aino(
                    [r.u EXCEPT !.ino[r.node].elock = exclusive,
                                !.ino[r.node].shlock = IF exclusive THEN 0 ELSE @ + 1], {r.node})
      BY Zenon, <2>1 DEF action_change_mode
    <2>3. CASE /\ r.node # None /\ host' = host
               /\ unit' = de_recycle_aino(
                      [r.u EXCEPT !.ino[r.node].elock = exclusive,
                                  !.ino[r.node].shlock = IF exclusive THEN 0 ELSE @ + 1], {r.node})
      <3>1. PICK u, p : u = r.u /\ p = r.node
        OBVIOUS
      <3>2. PICK s : s = IF exclusive THEN 0 ELSE u.ino[p].shlock + 1
        OBVIOUS
      <3>3. u \in Units /\ u.ino \in [Live(u) -> Nodes] /\ p \in Live(u)
        BY <1>0, <2>3, <3>1, Parts DEF Tree
      <3>4. unit' = de_recycle_aino(SetTo(u, p, exclusive, s), {p})
        BY <2>3, <3>1, <3>2, <3>3 DEF SetTo, Units, Nodes
      <3>5. Stays(u, unit')
        BY <1>0, <3>1, <3>3, <3>4, SetStays
      <3> QED  BY <2>3, <3>1, <3>5, StaysSettled
    <2> QED  BY <1>1, <2>2, <2>3
  <1> QED  BY <1>3, <1>4, <1>5 DEF UniqPacket

LEMMA LockPacketSettled ==
    ASSUME Plain, NEW q \in LockHeld, NEW hit, Good(unit, locks, keys), Sited(unit, host, {}), Lettered(host),
           NEW r, r = lookup_aino(unit, q, hit), LockPacket(q, r)
    PROVE  Settled
  <1>1. /\ Good(r.u, locks, keys)
        /\ r.node # None => r.node \in Live(r.u) /\ r.u.ino[r.node].uniq = q
    BY LookupGood
  <1>2. Sited(r.u, host, {}) /\ r.u \in Units
    BY <1>1, TreeLooksSited DEF Good, Tree
  <1>3. CASE UniqPacket(r)
    BY <1>1, <1>2, <1>3, UniqPacketSettled
  <1>4. CASE action_free_lock(q, r)
    <2>1. r.node # None /\ unit' = Release(r.u, r.node) /\ host' = host
      BY <1>4 DEF action_free_lock
    <2>2. Held(locks, q) > 0
      BY DEF LockHeld, Held
    <2>3. Stays(r.u, unit')
      BY <1>1, <2>1, <2>2, ReleaseStays
    <2> QED  BY <1>2, <2>1, <2>3, StaysSettled
  <1>5. CASE \E k \in Keys \ KeyOpen : action_fh_from_lock(k, q, r)
    <2>1. Unchanged(r.u) \/ (unit' = de_recycle_aino(r.u, {r.node}) /\ host' = host)
      BY <1>5 DEF action_fh_from_lock
    <2>2. CASE unit' = de_recycle_aino(r.u, {r.node}) /\ host' = host
      <3>1. unit'.ino = r.u.ino /\ unit'.wild = r.u.wild
        BY <1>2, <2>2 DEF de_recycle_aino, Units
      <3>2. Stays(r.u, unit')
        BY <3>1 DEF Stays, Live
      <3> QED  BY <1>2, <2>2, <3>2, StaysSettled
    <2> QED  BY <1>2, <2>1, <2>2, UnchangedSettled
  <1> QED  BY <1>3, <1>4, <1>5 DEF LockPacket

LEMMA EndSettled ==
    ASSUME Plain, NEW k \in KeyOpen, Good(unit, locks, keys), Sited(unit, host, {}), Lettered(host), action_end(k)
    PROVE  Settled
  <1> DEFINE p == keys[k].ino
             v == IF keys[k].notify THEN notify_check(unit, p) ELSE unit
  <1>1. p \in Live(unit)
    BY DEF Good, Counted, KeyOpen
  <1>2. unit' = Release(v, p) /\ host' = host
    BY <1>1 DEF action_end
  <1>3. Good(v, locks, keys) /\ Keeps(unit, v) /\ Sited(v, host, {})
    <2>1. CASE keys[k].notify
      BY <2>1, NotifyGood, TreeLooksSited DEF Good
    <2>2. CASE ~keys[k].notify
      BY <2>2, KeepsSelf DEF Good, Tree
    <2> QED  BY <2>1, <2>2
  <1>4. Opened(keys, p) # {}
    BY DEF Opened, KeyOpen
  <1>5. Busy(unit.ino[p])
    BY <1>1, <1>4, BusyIs DEF Good
  <1> HIDE DEF v
  <1>6. p \in Live(v)
    BY <1>1, <1>3, <1>5 DEF Keeps
  <1>7. Stays(v, unit')
    BY <1>2, <1>3, <1>4, <1>6, ReleaseStays
  <1> QED  BY <1>2, <1>3, <1>7, StaysSettled

LEMMA KeyPacketSettled ==
    ASSUME Plain, NEW k \in KeyOpen, Good(unit, locks, keys), Sited(unit, host, {}), Lettered(host), KeyPacket(k)
    PROVE  Settled
  <1>1. CASE action_end(k)
    BY <1>1, EndSettled
  <1>2. keys[k].ino \in Live(unit)
    BY DEF Good, Counted, KeyOpen
  <1>3. CASE \E q, hit : \E r \in {lookup_aino(unit, q, hit)} : UniqPacket(r)
    <2>1. PICK q, hit, r : r = lookup_aino(unit, q, hit) /\ UniqPacket(r)
      BY <1>3
    <2>2. Good(r.u, locks, keys) /\ (r.node # None => r.node \in Live(r.u))
      BY <2>1, LookupGood
    <2>3. Sited(r.u, host, {})
      BY <2>1, TreeLooksSited DEF Good
    <2> QED  BY <2>1, <2>2, <2>3, UniqPacketSettled
  <1> QED  BY <1>1, <1>2, <1>3 DEF KeyPacket

LEMMA AnswerSettled ==
    ASSUME Plain, NEW s, NEW u, NEW d, NEW seq, NEW must, Good(u, locks, keys), d \in Live(u),
           Sited(u, host, {}), Lettered(host), Answer(s, u, d, seq, must), host' = host
    PROVE  Settled
  <1>1. unit' = u \/ unit' = free_exkey(u, d)
    BY Zenon DEF Answer
  <1>2. PICK v : v = free_exkey(u, d)
    OBVIOUS
  <1>3. Sees(u, v)
    BY <1>2, FreeExkeyIs DEF Good, Remarks
  <1>4. Sited(v, host, {})
    BY <1>3, SitedSees
  <1> QED  BY SMTT(30), <1>1, <1>2, <1>4, NothingSettled

LEMMA PopulateSited ==
    ASSUME Plain, NEW u, NEW d, Good(u, locks, keys), d \in Live(u), u.ino[d].dir, Sited(u, host, {}),
           NEW again, again = [u EXCEPT !.ino[d].exnext = @ + 1]
    PROVE  /\ Sited(again, host, {})
           /\ \A w \in populate_directory(again, d) : Good(w, locks, keys) /\ d \in Live(w) /\ Sited(w, host, {})
  <1>1. Good(again, locks, keys) /\ d \in Live(again) /\ again.ino[d].dir = u.ino[d].dir /\ Sees(u, again)
    BY AgainGood
  <1>3. Sited(again, host, {})
    BY <1>1, SitedSees
  <1>4. ASSUME NEW w \in populate_directory(again, d)
        PROVE  Good(w, locks, keys) /\ d \in Live(w) /\ Sited(w, host, {})
    <2>1. Good(w, locks, keys) /\ d \in Live(w) /\ Sees(again, w)
      BY <1>1, PopulateGood
    <2> QED  BY <1>3, <2>1, SitedSees
  <1> QED  BY <1>3, <1>4

LEMMA ExamineNextSettled ==
    ASSUME Plain, NEW s \in Scans, NEW hit, Good(unit, locks, keys), Sited(unit, host, {}), Lettered(host),
           action_examine_next(s, hit)
    PROVE  Settled
  <1>1. PICK base \in {lookup_aino(unit, scan[s].dir, hit)} :
           LET d     == base.node
               n     == base.u.ino[d]
               again == [base.u EXCEPT !.ino[d].exnext = @ + 1]
           IN  /\ d # None
               /\ IF scan[s].at = n.uniq
                  THEN \/ Answer(s, base.u, d, <<>>, {})
                       \/ /\ n.dir
                          /\ \E u \in IF n.exnext = 0 /\ Exists(n.nname)
                                      THEN populate_directory(again, d)
                                           \cup (IF "opendir" \in HostMayFail THEN {again} ELSE {})
                                      ELSE {again} :
                               Answer(s, u, d, u.ino[d].kids, {x \in Names : Exists(Append(n.nname, x))})
                  ELSE \E next \in {lookup_aino(base.u, scan[s].at, hit)} :
                       Answer(s, next.u, d, IF next.node = None THEN AfterLost(next.u, d, scan[s].at)
                                            ELSE After(next.u, next.node), scan[s].must)
               /\ UNCHANGED <<locks, keys, host>>
    BY Zenon DEF action_examine_next
  <1>2. PICK d : d = base.node
    OBVIOUS
  <1>3. Good(base.u, locks, keys) /\ d \in Live(base.u) /\ Sited(base.u, host, {})
    <2>1. PICK u, q : u = unit /\ q = scan[s].dir
      BY SMTT(30)
    <2>2. base = lookup_aino(u, q, hit) /\ Good(u, locks, keys) /\ Sited(u, host, {})
      BY Zenon, <1>1, <2>1
    <2>3. Good(base.u, locks, keys) /\ (d = None \/ d \in Live(base.u))
      BY <1>2, <2>2, LookupGood
    <2>4. Sited(base.u, host, {})
      BY <2>2, TreeLooksSited DEF Good
    <2> QED  BY Zenon, <1>1, <1>2, <2>3, <2>4
  <1>4. host' = host
    BY Zenon, <1>1
  <1>5. CASE \E seq, must : Answer(s, base.u, d, seq, must)
    BY <1>3, <1>4, <1>5, AnswerSettled
  <1>6. PICK again : again = [base.u EXCEPT !.ino[d].exnext = @ + 1]
    OBVIOUS
  <1>7. CASE /\ base.u.ino[d].dir
             /\ \E u \in populate_directory(again, d) \cup {again} : \E seq, must : Answer(s, u, d, seq, must)
    <2>1. PICK u, seq, must : u \in populate_directory(again, d) \cup {again} /\ Answer(s, u, d, seq, must)
      BY <1>7
    <2>2. PICK x : x = base.u
      BY SMTT(30)
    <2>3. /\ Good(x, locks, keys) /\ d \in Live(x) /\ again = [x EXCEPT !.ino[d].exnext = @ + 1] /\ x.ino[d].dir
          /\ Sited(x, host, {})
      BY Zenon, <1>3, <1>6, <1>7, <2>2
    <2>4. /\ Sited(again, host, {}) /\ Good(again, locks, keys) /\ d \in Live(again)
          /\ \A w \in populate_directory(again, d) : Good(w, locks, keys) /\ d \in Live(w) /\ Sited(w, host, {})
      BY <2>3, PopulateSited, AgainGood
    <2>5. Good(u, locks, keys) /\ d \in Live(u) /\ Sited(u, host, {})
      BY Zenon, <2>1, <2>4
    <2> QED  BY <1>4, <2>1, <2>5, AnswerSettled
  <1>8. CASE \E next \in {lookup_aino(base.u, scan[s].at, hit)} : \E seq, must : Answer(s, next.u, d, seq, must)
    <2>1. PICK next, seq, must : next = lookup_aino(base.u, scan[s].at, hit) /\ Answer(s, next.u, d, seq, must)
      BY <1>8
    <2>2. Good(next.u, locks, keys) /\ Live(next.u) = Live(base.u)
      BY <1>3, <2>1, LookupGood
    <2>3. Sited(next.u, host, {})
      BY <1>3, <2>1, TreeLooksSited DEF Good
    <2> QED  BY <1>3, <1>4, <2>1, <2>2, <2>3, AnswerSettled
  <1> QED  BY Zenon, <1>1, <1>2, <1>5, <1>6, <1>7, <1>8

LEMMA ScanSettled ==
    ASSUME Plain, NEW s \in Scans, Good(unit, locks, keys), Sited(unit, host, {}), Lettered(host), ScanPacket(s)
    PROVE  Settled
  <1>1. CASE \E q, hit, r : r = lookup_aino(unit, q, hit) /\ Examine(s, q, r)
    <2>1. PICK q, hit, r : r = lookup_aino(unit, q, hit) /\ Examine(s, q, r)
      BY <1>1
    <2>2. Sited(r.u, host, {})
      BY <2>1, TreeLooksSited DEF Good
    <2> QED  BY <2>1, <2>2, NothingSettled DEF Examine
  <1>2. CASE \E hit \in BOOLEAN : action_examine_next(s, hit)
    BY <1>2, ExamineNextSettled
  <1>3. CASE Abandon(s)
    BY <1>3, NothingSettled DEF Abandon
  <1> QED  BY <1>1, <1>2, <1>3 DEF ScanPacket
----------------------------------------------------------------------------
(* Packets that make or remove an object. *)
LEMMA DeleteStays ==
    ASSUME NEW u, NEW p, Tree(u), Cached(u, None), p \in Live(u), p # Root, u.ino[p].kids = <<>>,
           NEW h, Sited(u, h, {p})
    PROVE  Sited(delete_aino(u, p), h, {})
  <1> DEFINE w == delete_aino(u, p)
  <1>1. Gone(u, w, p)
    BY DeleteIs
  <1> HIDE DEF w
  <1>2. \A q \in Live(w) : w.ino[q].nname = u.ino[q].nname /\ w.ino[q].dir = u.ino[q].dir
    BY <1>1 DEF Gone, Same
  <1> QED  BY <1>1, <1>2 DEF Gone, Sited, At, w

\* The a_inode of an object that is not there yet.
NewSited(v, p, path, dir) ==
    /\ v.ino[p].nname = path /\ v.ino[p].dir = dir
    /\ Sited(v, host, {p}) /\ Distinct(v)
LEMMA ChildSited ==
    ASSUME Plain, NEW u, NEW d, NEW name, NEW dir, Good(u, locks, keys),
           d \in Live(u), Sited(u, host, {}), Append(u.ino[d].nname, name) \notin DOMAIN host,
           NEW v, HasChild(u, v, d, name, dir), NEW p, p = v.a_uniq
    PROVE  NewSited(v, p, Append(u.ino[d].nname, name), dir)
  <1> DEFINE path == Append(u.ino[d].nname, name)
  <1>1. Same(Node(d, name, path, p, dir), v.ino[p]) /\ Keeps(u, v) /\ Live(v) \subseteq Live(u) \cup {p}
    BY SMTT(30) DEF HasChild
  <1>2. v.ino[p].nname = path /\ v.ino[p].dir = dir
    BY <1>1 DEF Same, Node
  <1>3. \A q \in Live(v) \ {p} : /\ q \in Live(u) /\ v.ino[q].nname = u.ino[q].nname
                                 /\ v.ino[q].dir = u.ino[q].dir
    BY <1>1 DEF Keeps, Same
  <1> HIDE DEF path
  <1>4. Sited(v, host, {p})
    BY <1>1, <1>3 DEF Sited, At, Keeps
  <1>5. \A q \in Live(v) \ {p} : v.ino[q].nname # path
    BY <1>4 DEF Sited, At, path
  <1>6. Distinct(v)
    BY <1>2, <1>4, <1>5 DEF Sited, Distinct
  <1> QED  BY <1>2, <1>4, <1>6 DEF path, NewSited

LEMMA FrontOfChild ==
    ASSUME NEW S, NEW s \in Seq(S), NEW x \in S
    PROVE  Front(Append(s, x)) = s
  <1> DEFINE t == Append(s, x)
             n == Len(s)
  <1>1. n \in Nat /\ t \in Seq(S) /\ Len(t) = n + 1 /\ \A i \in 1 .. n : t[i] = s[i]
    BY LenProperties, AppendProperties
  <1> HIDE DEF t
  <1>2. Front(t) = SubSeq(t, 1, n)
    BY <1>1 DEF Front
  <1>3. SubSeq(t, 1, n) = [i \in 1 .. n |-> t[i]]
    BY <1>1
  <1>4. s = [i \in 1 .. n |-> s[i]]
    BY Elements DEF n
  <1>5. [i \in 1 .. n |-> t[i]] = [i \in 1 .. n |-> s[i]]
    BY <1>1
  <1> QED  BY <1>2, <1>3, <1>4, <1>5 DEF t

LEMMA SitedKept ==
    ASSUME Plain, NEW u, NEW v, NEW X, Sited(u, host, X), Distinct(u), Looks(u, v)
    PROVE  Sited(v, host, X) /\ Distinct(v)
  <1>1. Distinct(v)
    BY DEF Looks, Sees
  <1>2. ASSUME NEW p \in Live(v) \ X
        PROVE  At(v.ino[p], host)
    <2>1. CASE p \in Live(u)
      <3>1. Same(u.ino[p], v.ino[p]) /\ At(u.ino[p], host)
        BY <2>1 DEF Looks, Sees, Keeps, Sited
      <3> QED  BY <3>1 DEF Same, At
    <2>2. CASE p \notin Live(u)
      BY <2>2 DEF Looks, Sees, OnHost, At
    <2> QED  BY <2>1, <2>2
  <1> QED  BY <1>1, <1>2 DEF Sited, Distinct, Looks, Sees, Keeps

LEMMA SitedAdded ==
    ASSUME NEW u, NEW p, NEW kind, NEW h, Tree(u), p \in Live(u), Sited(u, h, {p}), Distinct(u), Lettered(h),
           u.ino[p].dir = (kind = "dir"), NEW g, g = With(h, u.ino[p].nname, kind)
    PROVE  Sited(u, g, {}) /\ Lettered(g)
  <1>1. u.ino[p].nname \in Seq(Components)
    BY Parts, Fields DEF Tree
  <1>2. PICK path \in Seq(Components) : path = u.ino[p].nname
    BY <1>1
  <1>3. DOMAIN g = DOMAIN h \cup {path} /\ g[path] = kind /\ \A q \in DOMAIN h \ {path} : g[q] = h[q]
    BY <1>2 DEF With
  <1>4. Lettered(g)
    BY <1>3 DEF Lettered
  <1>5. ASSUME NEW q \in Live(u)
        PROVE  At(u.ino[q], g)
    <2>1. CASE q = p
      BY <1>2, <1>3, <2>1 DEF At
    <2>2. CASE q # p
      <3>1. u.ino[q].nname # path
        BY <1>2, <2>2 DEF Distinct
      <3>2. At(u.ino[q], h)
        BY <2>2 DEF Sited
      <3> QED  BY <1>3, <3>1, <3>2 DEF At
    <2> QED  BY <2>1, <2>2
  <1> QED  BY <1>4, <1>5 DEF Sited, Distinct

LEMMA SitedIs ==
    ASSUME NEW u, NEW h, Sited(u, h, {})
    PROVE  Distinct(u) /\ \A p : Sited(u, h, {p})
  BY DEF Sited, Distinct

LEMMA OpenKeySettled ==
    ASSUME NEW k, NEW u, NEW p, NEW create, NEW made \in BOOLEAN, Good(u, locks, keys), p \in Live(u),
           Lettered(host), Distinct(u), ~u.ino[p].dir,
           made => p # Root /\ u.ino[p].kids = <<>> /\ Sited(u, host, {p}), ~made => Sited(u, host, {}),
           open_key(k, u, p, create, made)
    PROVE  Settled
  <1>0. Tree(u) /\ Cached(u, None) /\ Sited(u, host, {p})
    BY SitedIs DEF Good
  <1>1. \/ unit' = Hold(u, p, create = 2) /\ host' = With(host, u.ino[p].nname, "file")
        \/ Unchanged(IF made THEN delete_aino(u, p) ELSE u)
    BY DEF open_key
  <1>2. CASE unit' = Hold(u, p, create = 2) /\ host' = With(host, u.ino[p].nname, "file")
    <2>1. PICK kind : kind = "file"
      OBVIOUS
    <2>2. u.ino[p].dir = (kind = "dir")
      <3>1. u.ino[p].dir \in BOOLEAN
        BY <1>0, InodeIs
      <3> QED  BY <2>1, <3>1
    <2>3. Sited(u, host', {}) /\ Lettered(host')
      BY <1>0, <1>2, <2>1, <2>2, SitedAdded
    <2>4. Stays(u, unit')
      BY <1>0, <1>2, HoldStays
    <2> QED  BY <2>3, <2>4, SitedStays DEF Settled
  <1>3. CASE made /\ Unchanged(delete_aino(u, p))
    BY <1>0, <1>3, DeleteStays, UnchangedSettled
  <1>4. CASE ~made /\ Unchanged(u)
    BY <1>4, UnchangedSettled
  <1> QED  BY <1>1, <1>2, <1>3, <1>4

LEMMA DoFindSettled ==
    ASSUME Plain, NEW k \in Keys \ KeyOpen, NEW r, NEW name \in Names, NEW create \in 0 .. 2,
           Good(r.u, locks, keys), Sited(r.u, host, {}), Lettered(host), r.err = "ok" => r.node \in Live(r.u),
           r.err = "not around" /\ r.node # None => r.node \in Live(r.u) /\ Missing(r, name),
           do_find(k, r, name, create)
    PROVE  Settled
  <1>1. CASE /\ r.err = "ok" /\ ~r.u.ino[r.node].dir
             /\ open_key(k, r.u, r.node, create, FALSE)
    <2>1. PICK made \in BOOLEAN : made = FALSE
      OBVIOUS
    <2>2. Distinct(r.u)
      BY SitedIs
    <2>3. open_key(k, r.u, r.node, create, made)
      BY <1>1, <2>1
    <2> QED  BY <1>1, <2>1, <2>2, <2>3, OpenKeySettled
  <1>2. CASE /\ r.err = "not around" /\ r.node # None
             /\ \E u \in {init_child_aino(r.u, r.node, name, FALSE)} : open_key(k, u, u.a_uniq, create, TRUE)
    <2>1. PICK u : u = init_child_aino(r.u, r.node, name, FALSE) /\ open_key(k, u, u.a_uniq, create, TRUE)
      BY <1>2
    <2>2. PICK p : p = u.a_uniq
      OBVIOUS
    <2>3. PICK made \in BOOLEAN : made = TRUE
      OBVIOUS
    <2>4. PICK dir \in BOOLEAN : dir = FALSE
      OBVIOUS
    <2>5. /\ r.node \in Live(r.u) /\ r.u.ino[r.node].dir
          /\ Append(r.u.ino[r.node].nname, name) \notin DOMAIN host
      BY <1>2 DEF Missing
    <2>6. Good(u, locks, keys) /\ HasChild(r.u, u, r.node, name, dir)
      BY <2>1, <2>4, <2>5, ChildGood
    <2>7. u.ino[p].dir = dir /\ Sited(u, host, {p}) /\ Distinct(u)
      <3>1. PICK w, d : w = r.u /\ d = r.node
        OBVIOUS
      <3>2. /\ Good(w, locks, keys) /\ d \in Live(w) /\ Sited(w, host, {})
            /\ Append(w.ino[d].nname, name) \notin DOMAIN host /\ HasChild(w, u, d, name, dir)
        BY <2>5, <2>6, <3>1
      <3>3. NewSited(u, p, Append(w.ino[d].nname, name), dir)
        BY Zenon, <2>2, <3>2, ChildSited
      <3> QED  BY <3>3 DEF NewSited
    <2>8. p \in Live(u) /\ p # Root /\ u.ino[p].kids = <<>>
      BY <2>2, <2>6 DEF HasChild
    <2>9. open_key(k, u, p, create, made)
      BY <2>1, <2>2, <2>3
    <2> QED  BY <2>3, <2>4, <2>6, <2>7, <2>8, <2>9, OpenKeySettled
  <1> QED  BY <1>1, <1>2 DEF do_find

LEMMA CreateDirSettled ==
    ASSUME Plain, "mkdir" \notin HostMayFail, NEW r, NEW name \in Names, Good(r.u, locks, keys),
           Sited(r.u, host, {}), Lettered(host),
           r.err = "not around" /\ r.node # None => r.node \in Live(r.u) /\ Missing(r, name),
           action_create_dir(r, name)
    PROVE  Settled
  <1>1. PICK u : /\ u = init_child_aino(r.u, r.node, name, TRUE)
                 /\ \E failed \in MayFail("mkdir") :
                       \E v \in {notify_check([u EXCEPT !.ino[u.a_uniq].shlock = 1], u.a_uniq)} :
                         IF failed \/ ~CanCreate(u.ino[u.a_uniq].nname) THEN Unchanged(u)
                         ELSE /\ host' = With(host, u.ino[u.a_uniq].nname, "dir") /\ unit' = v
    BY DEF action_create_dir
  <1>2. /\ r.node \in Live(r.u) /\ r.u.ino[r.node].dir
        /\ Append(r.u.ino[r.node].nname, name) \notin DOMAIN host
    BY DEF action_create_dir, Missing
  <1>3. PICK w, d, p, dir : w = r.u /\ d = r.node /\ p = u.a_uniq /\ dir = TRUE
    BY ZenonT(60)
  <1>4. dir \in BOOLEAN /\ u = init_child_aino(w, d, name, dir) /\ Good(w, locks, keys) /\ Sited(w, host, {})
        /\ d \in Live(w) /\ w.ino[d].dir /\ Append(w.ino[d].nname, name) \notin DOMAIN host
    BY <1>1, <1>2, <1>3
  <1>5. Good(u, locks, keys) /\ HasChild(w, u, d, name, dir)
    BY <1>4, ChildGood
  <1>6. /\ u.ino[p].nname = Append(w.ino[d].nname, name) /\ u.ino[p].dir = dir
        /\ Sited(u, host, {p}) /\ Distinct(u)
    <2>1. NewSited(u, p, Append(w.ino[d].nname, name), dir)
      BY Zenon, <1>3, <1>4, <1>5, ChildSited
    <2> QED  BY <2>1 DEF NewSited
  <1>7. CanCreate(u.ino[p].nname)
    <2>1. w.ino[d].nname \in Seq(Components) /\ name \in Components
      BY <1>4, Parts, Fields DEF Good, Tree, Components
    <2>2. PICK s \in Seq(Components) : s = w.ino[d].nname
      BY <2>1
    <2>3. Front(u.ino[p].nname) = s
      BY ZenonT(60), <1>6, <2>1, <2>2, FrontOfChild
    <2>4. s \in DOMAIN host /\ host[s] = "dir"
      BY <1>4, <2>2 DEF Sited, At
    <2> QED  BY <1>4, <1>6, <2>3, <2>4 DEF CanCreate, Exists
  <1>8. PICK x : x = SetTo(u, p, FALSE, 1)
    OBVIOUS
  <1>9. p \in Live(u) /\ u.ino[p].elock = FALSE /\ Tree(u) /\ Cached(u, None) /\ u \in Units
    BY <1>3, <1>5 DEF HasChild, Good, Tree
  <1>10. unit' = notify_check(x, p) /\ host' = With(host, u.ino[p].nname, "dir")
    <2>1. [u EXCEPT !.ino[p].shlock = 1] = x
      <3>1. u \in Units /\ u.ino \in [Live(u) -> Nodes]
        BY <1>9, InodeIs
      <3>2. PICK n \in Nodes : n = u.ino[p]
        BY <1>9, <3>1
      <3>3. [n EXCEPT !.elock = FALSE, !.shlock = 1] = [n EXCEPT !.shlock = 1]
        BY ONLY <1>9, <3>2 DEF Nodes
      <3>4. x = [u EXCEPT !.ino[p] = [n EXCEPT !.elock = FALSE, !.shlock = 1]]
        BY <1>8, <1>9, <3>1, <3>2 DEF SetTo, Units
      <3>5. [u EXCEPT !.ino[p].shlock = 1] = [u EXCEPT !.ino[p] = [n EXCEPT !.shlock = 1]]
        BY ZenonT(60), <3>2
      <3> QED  BY <3>3, <3>4, <3>5
    <2>2. \E v \in {notify_check([u EXCEPT !.ino[p].shlock = 1], p)} :
             host' = With(host, u.ino[p].nname, "dir") /\ unit' = v
      BY ZenonT(60), <1>1, <1>3, <1>7 DEF MayFail
    <2> QED  BY <2>1, <2>2
  <1>11. Tree(x) /\ Cached(x, None) /\ p \in Live(x) /\ x.ino[p].dir /\ x.ino[p].nname = u.ino[p].nname
         /\ Sited(x, host, {p}) /\ Distinct(x)
    <2>1. PICK s, e : s = 1 /\ e = FALSE
      OBVIOUS
    <2>2. s \in Int /\ e \in BOOLEAN /\ x = SetTo(u, p, e, s) /\ Tree(u) /\ p \in Live(u)
      <3>1. s \in Int
        BY ONLY <2>1
      <3>2. e \in BOOLEAN
        BY ONLY <2>1
      <3> QED  BY <1>8, <1>9, <2>1, <3>1, <3>2
    <2>3. PICK m \in Nodes : Tree(x) /\ ChangedAt(u, x, p, m) /\ Placed(u.ino[p], m) /\ m.elock = e /\ m.shlock = s
      BY ONLY <2>2, SetHolds
    <2>4. m.dir /\ x.ino[p] = m /\ Live(x) = Live(u) /\ \A q \in Live(u) : q # p => x.ino[q] = u.ino[q]
      BY <1>3, <1>6, <2>3 DEF ChangedAt, Placed
    <2>5. Idle(x) = Idle(u)
      BY ZenonT(60), <1>3, <1>6, <2>4 DEF Idle
    <2>6. Cached(x, None)
      BY <1>9, <2>3, <2>5 DEF Cached, ChangedAt
    <2>7. \A q \in Live(u) : x.ino[q].nname = u.ino[q].nname /\ x.ino[q].dir = u.ino[q].dir
      BY <2>3, <2>4 DEF Placed
    <2>8. Sited(x, host, {p}) /\ Distinct(x)
      <3>1. \A q \in Live(x) \ {p} : At(x.ino[q], host)
        <4> SUFFICES ASSUME NEW q \in Live(x) \ {p}
                     PROVE  At(x.ino[q], host)
          OBVIOUS
        <4>1. At(u.ino[q], host)
          BY <1>6, <2>4 DEF Sited
        <4>2. x.ino[q] = u.ino[q]
          BY <2>4
        <4> QED  BY <4>1, <4>2
      <3>2. Distinct(x)
        BY <1>6, <2>4, <2>7 DEF Distinct
      <3>3. ~x.wild
        BY <1>6, <2>3 DEF ChangedAt, Sited
      <3> QED  BY <3>1, <3>2, <3>3 DEF Sited, Distinct
    <2> QED  BY <1>9, <2>3, <2>4, <2>6, <2>7, <2>8
  <1>12. PICK v : v = notify_check(x, p)
    OBVIOUS
  <1>13. Tree(v) /\ Looks(x, v)
    BY <1>11, <1>12, NotifyIs
  <1>14. Sited(v, host, {p}) /\ Distinct(v)
    BY <1>11, <1>13, SitedKept
  <1>15. p \in Live(v) /\ v.ino[p].nname = u.ino[p].nname /\ v.ino[p].dir = TRUE
    <2>1. p \in Live(v)
      BY <1>11, <1>13 DEF Looks, Sees, Keeps
    <2>2. Same(x.ino[p], v.ino[p])
      BY <1>11, <1>13, <2>1 DEF Looks, Sees, Keeps
    <2>3. v.ino[p].dir \in BOOLEAN
      BY <1>13, <2>1, InodeIs
    <2> QED  BY <1>11, <2>1, <2>2, <2>3 DEF Same
  <1>16. PICK kind : kind = "dir"
    OBVIOUS
  <1>17. Sited(v, host', {}) /\ Lettered(host')
    BY <1>10, <1>13, <1>14, <1>15, <1>16, SitedAdded
  <1> QED  BY ZenonT(60), <1>10, <1>12, <1>17 DEF Settled

LEMMA DeleteObjectSettled ==
    ASSUME Plain, NEW r, Good(r.u, locks, keys), Sited(r.u, host, {}), Lettered(host),
           r.err = "ok" => r.node \in Live(r.u), action_delete_object(r)
    PROVE  Settled
  <1>1. PICK u, p, path :
           /\ u = notify_check(r.u, p) /\ p = r.node /\ path = r.u.ino[p].nname
           /\ \/ Unchanged(r.u)
              \/ p \notin Live(u) /\ Wild(u)
              \/ /\ p \in Live(u) /\ Empty(path) /\ host' = Free(host, path)
                 /\ unit' = (IF u.ino[p].kids = <<>> THEN delete_aino(u, p) ELSE u)
    BY DEF action_delete_object
  <1>2. p \in Live(r.u) /\ p # Root
    BY SMTT(30), <1>1 DEF action_delete_object
  <1>3. Tree(u) /\ Cached(u, None) /\ Looks(r.u, u) /\ Sited(u, host, {}) /\ u \in Units
    BY <1>1, NotifyIs, TreeLooksSited DEF Good, Tree
  <1>4. CASE /\ p \in Live(u) /\ Empty(path) /\ host' = Free(host, path)
             /\ unit' = (IF u.ino[p].kids = <<>> THEN delete_aino(u, p) ELSE u)
    <2>1. u.ino[p].nname = path
      BY ZenonT(60), <1>1, <1>2, <1>3, <1>4 DEF Looks, Sees, Keeps, Same
    <2>2. Children(u, p) = {}
      <3> SUFFICES ASSUME NEW q \in Live(u), u.ino[q].parent = p
                   PROVE  FALSE
        BY DEF Children
      <3>1. q # Root
        BY <1>3, <1>4, Parts DEF Tree, None
      <3>2. u.ino[q].nname = Append(path, u.ino[q].name) /\ u.ino[q].name \in Components
        BY <1>3, <2>1, <3>1 DEF Tree, Under, Components
      <3>3. path \in Seq(Components)
        BY <1>3, <1>4, <2>1, Parts, Fields
      <3>4. PICK s \in Seq(Components) : s = path
        BY <3>3
      <3>5. PICK x \in Components : x = u.ino[q].name
        BY <3>2
      <3>6. IsPrefix(path, u.ino[q].nname) /\ path # u.ino[q].nname
        BY <3>2, <3>4, <3>5, PrefixOfChild
      <3>7. u.ino[q].nname \in DOMAIN host
        BY <1>3 DEF Sited, At
      <3> QED  BY <1>4, <3>6, <3>7 DEF Empty
    <2>3. u.ino[p].kids = <<>>
      <3>1. ToSet(u.ino[p].kids) = {} /\ u.ino[p].kids \in Seq(Nat)
        BY <1>3, <1>4, <2>2, InodeIs DEF Tree
      <3> QED  BY <3>1, Elements
    <2>4. Sited(u, host', {p})
      <3>1. \A q \in Live(u) \ {p} : u.ino[q].nname # path
        BY <1>3, <1>4, <2>1 DEF Sited
      <3>2. DOMAIN host' = DOMAIN host \ {path} /\ \A q \in DOMAIN host' : host'[q] = host[q]
        BY <1>4 DEF Free
      <3> QED  BY <1>3, <3>1, <3>2 DEF Sited, At
    <2>5. Sited(delete_aino(u, p), host', {})
      BY <1>2, <1>3, <1>4, <2>3, <2>4, DeleteStays
    <2>6. Lettered(host')
      BY <1>4 DEF Lettered, Free
    <2> QED  BY <1>4, <2>3, <2>5, <2>6 DEF Settled
  <1>5. CASE p \notin Live(u) /\ Wild(u)
    <2>1. Watched # <<>>
      <3> SUFFICES ASSUME Watched = <<>>
                   PROVE  FALSE
        OBVIOUS
      <3>1. u = r.u
        BY Zenon, <1>1, NothingWatched
      <3> QED  BY <1>2, <1>5, <3>1
    <2> QED  BY <1>3, <1>5, <2>1, WildSettled DEF MayFreeIts
  <1> QED  BY <1>1, <1>4, <1>5, UnchangedSettled

----------------------------------------------------------------------------
(* Full names that begin alike. *)
LEMMA PrefixIs ==
    ASSUME NEW S, NEW s \in Seq(S), NEW t \in Seq(S)
    PROVE  IsPrefix(s, t) <=> Len(s) <= Len(t) /\ \A i \in 1 .. Len(s) : s[i] = t[i]
  <1> DEFINE n == Len(s)
  <1>1. n \in Nat /\ Len(t) \in Nat
    BY LenProperties
  <1>2. SubSeq(s, 1, n) = [i \in 1 .. n |-> s[i]]
    BY <1>1
  <1>3. ASSUME n <= Len(t)
        PROVE  SubSeq(t, 1, n) = [i \in 1 .. n |-> t[i]]
    BY <1>1, <1>3
  <1>4. [i \in 1 .. n |-> s[i]] = [i \in 1 .. n |-> t[i]] <=> \A i \in 1 .. n : s[i] = t[i]
    OBVIOUS
  <1> QED  BY <1>1, <1>2, <1>3, <1>4 DEF IsPrefix

LEMMA PrefixWhole ==
    ASSUME NEW S, NEW s \in Seq(S), NEW t \in Seq(S), IsPrefix(s, t), Len(t) <= Len(s)
    PROVE  s = t
  <1>1. Len(s) \in Nat /\ Len(t) \in Nat
    BY LenProperties
  <1>2. Len(s) <= Len(t) /\ \A i \in 1 .. Len(s) : s[i] = t[i]
    BY PrefixIs
  <1>3. Len(s) = Len(t)
    BY <1>1, <1>2
  <1> QED  BY <1>2, <1>3, SeqEqual

LEMMA PrefixFront ==
    ASSUME NEW S, NEW s \in Seq(S), NEW t \in Seq(S), NEW x \in S, IsPrefix(s, Append(t, x))
    PROVE  s = Append(t, x) \/ IsPrefix(s, t)
  <1>1. Len(s) \in Nat /\ Len(t) \in Nat
    BY LenProperties
  <1>2. PICK a \in Seq(S) : a = Append(t, x)
    BY AppendProperties
  <1>3. Len(a) = Len(t) + 1 /\ \A i \in 1 .. Len(t) : a[i] = t[i]
    BY <1>2, AppendProperties
  <1>4. Len(s) <= Len(a) /\ \A i \in 1 .. Len(s) : s[i] = a[i]
    <2>1. IsPrefix(s, a)
      BY <1>2
    <2> QED  BY <2>1, PrefixIs
  <1>5. CASE Len(s) <= Len(t)
    <2>1. \A i \in 1 .. Len(s) : s[i] = t[i]
      BY <1>1, <1>3, <1>4, <1>5
    <2> QED  BY <1>5, <2>1, PrefixIs
  <1>6. CASE ~(Len(s) <= Len(t))
    <2>1. Len(a) <= Len(s)
      BY <1>1, <1>3, <1>6
    <2>2. s = a
      BY <1>2, <2>1, PrefixWhole
    <2> QED  BY <1>2, <2>2
  <1> QED  BY <1>5, <1>6

LEMMA PrefixJoined ==
    ASSUME NEW S, NEW s \in Seq(S), NEW t \in Seq(S)
    PROVE  s \o t \in Seq(S) /\ IsPrefix(s, s \o t) /\ Len(s \o t) = Len(s) + Len(t)
  <1>1. Len(s) \in Nat /\ Len(t) \in Nat
    BY LenProperties
  <1>2. PICK a \in Seq(S) : a = s \o t
    BY ConcatProperties
  <1>3. Len(a) = Len(s) + Len(t) /\ \A i \in 1 .. Len(s) : a[i] = s[i]
    BY <1>1, <1>2, ConcatProperties
  <1>4. Len(s) <= Len(a)
    BY <1>1, <1>3
  <1>5. IsPrefix(s, a)
    BY <1>3, <1>4, PrefixIs
  <1> QED  BY <1>2, <1>3, <1>5

\* Where the full name of an a_inode begins with s there is an a_inode with the full name s.
LEMMA PrefixLive ==
    ASSUME Plain, NEW u, Tree(u), NEW s \in Seq(Components)
    PROVE  \A q \in Live(u) : IsPrefix(s, u.ino[q].nname) =>
              \E p \in Live(u) : u.ino[p].nname = s /\ (p = q \/ Children(u, p) # {})
  <1> DEFINE From(q) == \E p \in Live(u) : u.ino[p].nname = s /\ (p = q \/ Children(u, p) # {})
             T == {n \in Nat : \A q \in Live(u) :
                     Len(u.ino[q].nname) <= n /\ IsPrefix(s, u.ino[q].nname) => From(q)}
  <1>1. \A q \in Live(u) : u.ino[q].nname \in Seq(Components) /\ Len(u.ino[q].nname) \in Nat
    <2>1. \A q \in Live(u) : u.ino[q].nname \in Seq(Components)
      BY Parts, Fields DEF Tree
    <2> QED  BY <2>1, LenProperties
  <1>2. 0 \in T
    <2> SUFFICES ASSUME NEW q \in Live(u), Len(u.ino[q].nname) <= 0, IsPrefix(s, u.ino[q].nname)
                 PROVE  From(q)
      OBVIOUS
    <2>1. Len(u.ino[q].nname) <= Len(s)
      BY <1>1, Elements
    <2>2. s = u.ino[q].nname
      BY <1>1, <2>1, PrefixWhole
    <2> QED  BY <2>2
  <1>3. ASSUME NEW n \in Nat, n \in T
        PROVE  n + 1 \in T
    <2> SUFFICES ASSUME NEW q \in Live(u), Len(u.ino[q].nname) <= n + 1, IsPrefix(s, u.ino[q].nname)
                 PROVE  From(q)
      OBVIOUS
    <2>1. CASE s = u.ino[q].nname
      BY <2>1
    <2>2. CASE s # u.ino[q].nname
      <3>1. q # Root
        <4> SUFFICES ASSUME q = Root
                     PROVE  FALSE
          OBVIOUS
        <4>1. Len(u.ino[q].nname) = 0
          BY NoElements DEF Tree
        <4>2. Len(u.ino[q].nname) <= Len(s)
          BY <4>1, Elements
        <4> QED  BY <1>1, <2>2, <4>2, PrefixWhole
      <3>2. PICK d, x : d = u.ino[q].parent /\ x = u.ino[q].name
        OBVIOUS
      <3>3. d \in Live(u) /\ x \in Components /\ u.ino[q].nname = Append(u.ino[d].nname, x)
        BY <3>1, <3>2 DEF Tree, Under, Components
      <3>4. PICK t \in Seq(Components) : t = u.ino[d].nname
        BY <1>1, <3>3
      <3>5. IsPrefix(s, t) /\ Len(t) <= n
        <4>1. IsPrefix(s, Append(t, x)) /\ s # Append(t, x)
          BY <2>2, <3>3, <3>4
        <4>2. Len(Append(t, x)) = Len(t) + 1 /\ Len(t) \in Nat
          BY <3>3, <3>4, AppendProperties, LenProperties
        <4>3. Len(Append(t, x)) <= n + 1
          BY <3>3, <3>4
        <4>4. Len(t) <= n
          BY ONLY <4>2, <4>3, n \in Nat
        <4> QED  BY <3>3, <4>1, <4>4, PrefixFront
      <3>6. From(d)
        BY <1>3, <3>3, <3>4, <3>5
      <3>7. q \in Children(u, d)
        BY <3>2 DEF Children
      <3> QED  BY <3>6, <3>7
    <2> QED  BY <2>1, <2>2
  <1> HIDE DEF T
  <1>4. \A n \in Nat : n \in T
    BY <1>2, <1>3, Induction
  <1> SUFFICES ASSUME NEW q \in Live(u), IsPrefix(s, u.ino[q].nname)
               PROVE  From(q)
    OBVIOUS
  <1>5. PICK n \in Nat : n = Len(u.ino[q].nname)
    BY <1>1
  <1>6. n \in T /\ Len(u.ino[q].nname) <= n
    BY <1>4, <1>5
  <1> QED  BY <1>6 DEF T

\* The host directory after my_rename: what is not under either name is where it was.
LEMMA RenamedIs ==
    ASSUME Lettered(host), NEW n1 \in DOMAIN host, NEW n2 \in Seq(Components), n2 \notin DOMAIN host,
           NEW g, g = Renamed(n1, n2)
    PROVE  /\ Lettered(g) /\ n2 \in DOMAIN g /\ g[n2] = host[n1]
           /\ \A q \in DOMAIN host : ~IsPrefix(n1, q) /\ ~IsPrefix(n2, q) => q \in DOMAIN g /\ g[q] = host[q]
  <1> DEFINE new(q) == IF IsPrefix(n1, q) THEN n2 \o SubSeq(q, Len(n1) + 1, Len(q)) ELSE q
  <1>1. n1 \in Seq(Components) /\ Len(n1) \in Nat /\ Len(n2) \in Nat
    BY Elements DEF Lettered
  <1>2. ASSUME NEW q \in DOMAIN host, IsPrefix(n1, q)
        PROVE  /\ new(q) \in Seq(Components) /\ IsPrefix(n2, new(q))
               /\ new(q) = n2 <=> q = n1
    <2>1. q \in Seq(Components) /\ Len(q) \in Nat /\ Len(n1) <= Len(q)
      BY <1>2, Elements DEF Lettered, IsPrefix
    <2>2. PICK t : t = SubSeq(q, Len(n1) + 1, Len(q))
      OBVIOUS
    <2>3. t \in Seq(Components) /\ Len(t) = Len(q) - Len(n1)
      <3>1. \A i \in Len(n1) + 1 .. Len(q) : q[i] \in Components
        BY <1>1, <2>1, Elements
      <3> QED  BY <1>1, <2>1, <2>2, <3>1, SubSeqProperties
    <2>4. new(q) = n2 \o t
      BY <1>2, <2>2
    <2>5. n2 \o t \in Seq(Components) /\ IsPrefix(n2, n2 \o t) /\ Len(n2 \o t) = Len(n2) + Len(t)
      BY <2>3, PrefixJoined
    <2>6. ASSUME n2 \o t = n2
          PROVE  q = n1
      <3>1. Len(q) <= Len(n1)
        BY <1>1, <2>1, <2>3, <2>5, <2>6
      <3> QED  BY <1>1, <1>2, <2>1, <3>1, PrefixWhole
    <2>7. ASSUME q = n1
          PROVE  n2 \o t = n2
      <3>1. Len(t) = 0
        BY <1>1, <2>3, <2>7
      <3>2. t = <<>>
        BY <2>3, <3>1, Elements
      <3> QED  BY <3>2, ConcatEmptySeq
    <2>8. PICK y : y = n2 \o t
      OBVIOUS
    <2>9. y \in Seq(Components) /\ IsPrefix(n2, y) /\ (y = n2 <=> q = n1)
      BY <2>5, <2>6, <2>7, <2>8
    <2>10. new(q) = y
      BY <2>4, <2>8
    <2> HIDE DEF new
    <2> QED  BY <2>9, <2>10
  <1>3. \A q \in DOMAIN host : ~IsPrefix(n1, q) => new(q) = q
    OBVIOUS
  <1>4. IsPrefix(n1, n1)
    BY DEF IsPrefix
  <1>5. /\ DOMAIN g = {new(q) : q \in DOMAIN host}
        /\ \A r \in DOMAIN g : g[r] = host[CHOOSE q \in DOMAIN host : new(q) = r]
    BY Zenon DEF Renamed
  <1> HIDE DEF new
  <1>6. Lettered(g)
    <2>1. \A q \in DOMAIN host : new(q) \in Seq(Components)
      BY <1>2, <1>3 DEF Lettered
    <2> QED  BY <1>5, <2>1 DEF Lettered
  <1>7. ASSUME NEW r, NEW q \in DOMAIN host, new(q) = r, \A o \in DOMAIN host : new(o) = r => o = q
        PROVE  r \in DOMAIN g /\ g[r] = host[q]
    <2>1. r \in DOMAIN g
      BY <1>5, <1>7
    <2>2. (CHOOSE o \in DOMAIN host : new(o) = r) = q
      BY <1>7
    <2> QED  BY <1>5, <2>1, <2>2
  <1>8. n2 \in DOMAIN g /\ g[n2] = host[n1]
    <2>1. new(n1) = n2
      BY <1>2, <1>4
    <2>2. \A o \in DOMAIN host : new(o) = n2 => o = n1
      BY <1>2, <1>3
    <2> QED  BY <1>7, <2>1, <2>2
  <1>9. ASSUME NEW q \in DOMAIN host, ~IsPrefix(n1, q), ~IsPrefix(n2, q)
        PROVE  q \in DOMAIN g /\ g[q] = host[q]
    <2>1. new(q) = q
      BY <1>3, <1>9
    <2>2. \A o \in DOMAIN host : new(o) = q => o = q
      BY <1>2, <1>3, <1>9
    <2> QED  BY <1>7, <2>1, <2>2
  <1> QED  BY <1>6, <1>8, <1>9

\* replace_aino leaves a2 where my_rename has put the object of a1, and every other a_inode at its own.
LEMMA MovedSited ==
    ASSUME Plain, Lettered(host), NEW v, Tree(v), NEW a1 \in Live(v), NEW a2 \in Live(v), a1 # a2,
           Sited(v, host, {a2}), NEW n1, n1 = v.ino[a1].nname, NEW n2, n2 = v.ino[a2].nname,
           v.ino[a1].dir = v.ino[a2].dir, n1 = n2 \/ n2 \notin DOMAIN host,
           Children(v, a1) = {}, Children(v, a2) = {},
           NEW r, Live(r) = Live(v) \ {a1}, r.wild = v.wild,
           \A q \in Live(r) : r.ino[q].nname = v.ino[q].nname /\ r.ino[q].dir = v.ino[q].dir,
           NEW g, g = IF n1 = n2 THEN host ELSE Renamed(n1, n2)
    PROVE  Sited(r, g, {}) /\ Lettered(g)
  <1>1. n1 \in DOMAIN host /\ v.ino[a1].dir = (host[n1] = "dir")
    BY DEF Sited, At
  <1>2. \A q \in Live(v) \ {a2} : At(v.ino[q], host) /\ (v.ino[q].nname = n1 => q = a1)
    BY DEF Sited
  <1>3. \A q \in Live(r) \ {a2} : v.ino[q].nname # n1 /\ v.ino[q].nname # n2
    BY <1>2 DEF At
  <1>4. \A p, q \in Live(r) : r.ino[p].nname = r.ino[q].nname => p = q
    <2> SUFFICES ASSUME NEW p \in Live(r), NEW q \in Live(r), v.ino[p].nname = v.ino[q].nname
                 PROVE  p = q
      OBVIOUS
    <2>1. CASE p # a2 /\ q # a2
      BY <2>1 DEF Sited
    <2>2. CASE p = a2 \/ q = a2
      BY <1>3, <2>2
    <2> QED  BY <2>1, <2>2
  <1>5. CASE n1 = n2
    <2>1. ASSUME NEW q \in Live(r)
          PROVE  At(r.ino[q], host)
      <3>1. CASE q = a2
        BY <1>1, <1>5, <3>1 DEF At
      <3>2. CASE q # a2
        BY <1>2, <3>2 DEF At
      <3> QED  BY <3>1, <3>2
    <2> QED  BY <1>4, <1>5, <2>1 DEF Sited
  <1>6. CASE n1 # n2
    <2>1. n1 \in Seq(Components) /\ n2 \in Seq(Components) /\ n2 \notin DOMAIN host
      BY <1>6, Parts, Fields DEF Tree
    <2>2. g = Renamed(n1, n2)
      BY <1>6
    <2>3. /\ Lettered(g) /\ n2 \in DOMAIN g /\ g[n2] = host[n1]
          /\ \A q \in DOMAIN host : ~IsPrefix(n1, q) /\ ~IsPrefix(n2, q) => q \in DOMAIN g /\ g[q] = host[q]
      BY ONLY Lettered(host), <1>1, <2>1, <2>2, RenamedIs
    <2>4. ASSUME NEW q \in Live(r) \ {a2}
          PROVE  ~IsPrefix(n1, v.ino[q].nname)
      <3> SUFFICES ASSUME IsPrefix(n1, v.ino[q].nname)
                   PROVE  FALSE
        OBVIOUS
      <3>1. PICK p \in Live(v) : v.ino[p].nname = n1 /\ (p = q \/ Children(v, p) # {})
        BY <2>1, PrefixLive
      <3>2. p = a1
        BY <1>2, <1>6, <3>1
      <3> QED  BY <3>1, <3>2
    <2>5. ASSUME NEW q \in Live(r) \ {a2}
          PROVE  ~IsPrefix(n2, v.ino[q].nname)
      <3> SUFFICES ASSUME IsPrefix(n2, v.ino[q].nname)
                   PROVE  FALSE
        OBVIOUS
      <3>1. PICK p \in Live(v) : v.ino[p].nname = n2 /\ (p = q \/ Children(v, p) # {})
        BY <2>1, PrefixLive
      <3>2. p = a2
        BY <1>2, <2>1, <3>1 DEF At
      <3> QED  BY <3>1, <3>2
    <2>6. ASSUME NEW q \in Live(r)
          PROVE  At(r.ino[q], g)
      <3>1. CASE q = a2
        BY <1>1, <2>3, <3>1 DEF At
      <3>2. CASE q # a2
        <4>1. PICK path : path = v.ino[q].nname
          OBVIOUS
        <4>2. path \in DOMAIN host /\ v.ino[q].dir = (host[path] = "dir")
          BY SMTT(30), <1>2, <3>2, <4>1 DEF At
        <4>3. path \in DOMAIN g /\ g[path] = host[path]
          BY <2>3, <2>4, <2>5, <3>2, <4>1, <4>2
        <4> QED  BY <4>1, <4>2, <4>3 DEF At
      <3> QED  BY SMTT(30), <3>1, <3>2
    <2> QED  BY <1>4, <2>3, <2>6 DEF Sited
  <1> QED  BY <1>5, <1>6

LEMMA RenameHostSettled ==
    ASSUME Exact, Plain, NEW a1, NEW n1, NEW a2, NEW n2, NEW u, NEW first \in BOOLEAN, NEW second,
           rename_host(a1, n1, a2, n2, u, first, second, {}), Good(u, locks, keys),
           Renames(u, a1, n1, a2, n2), n1 = u.ino[a1].nname, n2 = u.ino[a2].nname,
           Sited(u, host, {a2}), Lettered(host), n1 = n2 \/ n2 \notin DOMAIN host
    PROVE  Settled
  <1>1. CASE unit' = delete_aino(u, a2) /\ host' = host
    <2>1. Tree(u) /\ Cached(u, None) /\ a2 \in Live(u) /\ a2 # Root /\ u.ino[a2].kids = <<>>
      BY DEF Good, Renames
    <2> QED  BY <1>1, <2>1, DeleteStays DEF Settled
  <1>2. CASE \E v : Handed(u, v, a1, n1, a2, n2)
    <2>1. PICK v : Handed(u, v, a1, n1, a2, n2)
      BY <1>2
    <2>2. Good(v, locks, keys) /\ Looks(u, v) /\ Tops(u, v)
      BY <2>1 DEF Handed
    <2>3. CASE Wild(v) /\ Watched # <<>>
      BY <2>2, <2>3, WildSettled DEF Good, Tree, MayFreeIts
    <2>4. CASE ~(Wild(v) /\ Watched # <<>>)
      <3>1. /\ a1 \in Live(v) /\ a2 \in Live(v) /\ Replaced(v, unit', a1, a2)
            /\ host' = IF n1 = n2 THEN host ELSE Renamed(n1, n2)
            /\ Children(v, a2) = {} /\ Children(v, a1) = {}
        BY <2>1, <2>4 DEF Handed, Moves
      <3>2. Same(u.ino[a1], v.ino[a1]) /\ Same(u.ino[a2], v.ino[a2]) /\ a1 # a2
        BY <2>2, <3>1 DEF Renames, Looks, Sees, Keeps
      <3>3. n1 = v.ino[a1].nname /\ n2 = v.ino[a2].nname /\ v.ino[a1].dir = v.ino[a2].dir
        BY <3>2 DEF Same, Renames
      <3>4. Sited(v, host, {a2})
        <4>1. ASSUME NEW p \in Live(v) \ {a2}
              PROVE  At(v.ino[p], host)
          <5>1. CASE p \in Live(u)
            BY <2>2, <5>1 DEF Looks, Sees, Keeps, Same, Sited, At
          <5>2. CASE p \notin Live(u)
            BY <2>2, <5>2 DEF Looks, Sees, OnHost, At
          <5> QED  BY <5>1, <5>2
        <4>2. ASSUME NEW p \in Live(v) \ {a2}, NEW q \in Live(v) \ {a2}, v.ino[p].nname = v.ino[q].nname
              PROVE  p = q
          <5>1. CASE p \in Live(u) /\ q \in Live(u)
            BY <2>2, <4>2, <5>1 DEF Looks, Sees, Keeps, Same, Sited
          <5>2. CASE p \notin Live(u) \/ q \notin Live(u)
            BY <2>2, <4>2, <5>2 DEF Tops, Apart
          <5> QED  BY <5>1, <5>2
        <4>3. ~v.wild
          BY <2>2 DEF Looks, Sees, Keeps, Sited
        <4> QED  BY <4>1, <4>2, <4>3 DEF Sited
      <3>5. PICK r, g : r = unit' /\ g = host'
        BY SMTT(30)
      <3>6. /\ Live(r) = Live(v) \ {a1} /\ r.wild = v.wild
            /\ \A q \in Live(r) : r.ino[q].nname = v.ino[q].nname /\ r.ino[q].dir = v.ino[q].dir
        BY <3>1, <3>5 DEF Replaced
      <3>7. Sited(r, g, {}) /\ Lettered(g)
        <4>1. Tree(v) /\ g = IF n1 = n2 THEN host ELSE Renamed(n1, n2)
          BY <2>2, <3>1, <3>5 DEF Good
        <4> QED  BY <3>1, <3>2, <3>3, <3>4, <3>6, <4>1, MovedSited
      <3> QED  BY <3>5, <3>7 DEF Settled
    <2> QED  BY <2>3, <2>4
  <1> QED  BY <1>1, <1>2, RenameHostIs

LEMMA RenameSettled ==
    ASSUME Exact, Plain, NEW r1, NEW rel2 \in Paths, NEW othercase, Good(r1.u, locks, keys),
           r1.err = "ok" => r1.node \in Live(r1.u) /\ r1.node # Root,
           Sited(r1.u, host, {}), Lettered(host), action_rename_object(r1, rel2, othercase)
    PROVE  Settled
  <1>1. CASE \E v : Good(v, locks, keys) /\ Looks(r1.u, v) /\ Unchanged(notify_check(v, r1.node))
    <2>1. PICK v : Good(v, locks, keys) /\ Looks(r1.u, v) /\ Unchanged(notify_check(v, r1.node))
      BY <1>1
    <2>2. Sited(v, host, {})
      BY <2>1, SitedLooks
    <2>3. Sited(notify_check(v, r1.node), host, {})
      BY <2>1, <2>2, TreeLooksSited DEF Good
    <2> QED  BY <2>1, <2>3, UnchangedSettled
  <1>2. CASE \E v : Good(v, locks, keys) /\ Wild(v) /\ MayFreeIts
    BY <1>2, WildSettled DEF Good, Tree
  <1>3. CASE \E v, u, n1, a2, n2, first, second :
                /\ Good(u, locks, keys) /\ Looks(r1.u, v) /\ MadeFor(v, u, r1.node, n1, a2, n2)
                /\ first \in BOOLEAN /\ rename_host(r1.node, n1, a2, n2, u, first, second, {})
    <2>1. PICK v, u, n1, a2, n2, first, second :
                /\ Good(u, locks, keys) /\ Looks(r1.u, v) /\ MadeFor(v, u, r1.node, n1, a2, n2)
                /\ first \in BOOLEAN /\ rename_host(r1.node, n1, a2, n2, u, first, second, {})
      BY <1>3
    <2>2. PICK a1 : a1 = r1.node
      OBVIOUS
    <2>3. /\ Keeps(v, u) /\ Live(u) \subseteq Live(v) \cup {a2}
          /\ a1 \in Live(v) /\ n1 = v.ino[a1].nname /\ n2 = u.ino[a2].nname
          /\ Renames(u, a1, n1, a2, n2) /\ (n1 = n2 \/ n2 \notin DOMAIN host)
      BY <2>1, <2>2 DEF MadeFor
    <2>4. Sited(v, host, {})
      BY <2>1, SitedLooks
    <2>5. \A p \in Live(u) \ {a2} : /\ p \in Live(v)
                                    /\ u.ino[p].nname = v.ino[p].nname /\ u.ino[p].dir = v.ino[p].dir
      BY <2>3 DEF Keeps, Same
    <2>6. Sited(u, host, {a2})
      BY <2>3, <2>4, <2>5 DEF Sited, At, Keeps
    <2>7. n1 = u.ino[a1].nname
      BY <2>3, <2>5 DEF Renames
    <2>8. rename_host(a1, n1, a2, n2, u, first, second, {}) /\ first \in BOOLEAN /\ Good(u, locks, keys)
      BY <2>1, <2>2
    <2> QED  BY <2>3, <2>6, <2>7, <2>8, RenameHostSettled
  <1> QED  BY <1>1, <1>2, <1>3, RenameIs

LEMMA NamePacketSettled ==
    ASSUME Exact, Plain, "mkdir" \notin HostMayFail, NEW r, NEW name \in Names, Good(r.u, locks, keys),
           r.err = "ok" => r.node \in Live(r.u) /\ r.node # Root,
           r.err = "not around" /\ r.node # None => r.node \in Live(r.u) /\ Missing(r, name),
           Sited(r.u, host, {}), Lettered(host), NamePacket(r, name)
    PROVE  Settled
  <1>1. CASE Refused(r)
    BY <1>1, UnchangedSettled DEF Refused
  <1>2. CASE \E exclusive \in BOOLEAN : action_lock(r, exclusive)
    <2>1. PICK exclusive \in BOOLEAN : action_lock(r, exclusive)
      BY <1>2
    <2>2. r.node \in Live(r.u) /\ unit' = Hold(r.u, r.node, exclusive) /\ host' = host
      BY <2>1 DEF action_lock
    <2>3. Stays(r.u, unit')
      BY <2>2, HoldStays DEF Good
    <2> QED  BY <2>2, <2>3, StaysSettled
  <1>3. CASE \E k \in Keys \ KeyOpen, create \in 0 .. 2 : do_find(k, r, name, create)
    BY <1>3, DoFindSettled
  <1>4. CASE action_create_dir(r, name)
    BY <1>4, CreateDirSettled
  <1>5. CASE action_delete_object(r)
    BY <1>5, DeleteObjectSettled
  <1>6. CASE \E to \in Paths, othercase \in BOOLEAN : action_rename_object(r, to, othercase)
    BY <1>6, RenameSettled
  <1> QED  BY <1>1, <1>2, <1>3, <1>4, <1>5, <1>6 DEF NamePacket

LEMMA NextSettled ==
    ASSUME Exact, Plain, "mkdir" \notin HostMayFail, Good(unit, locks, keys), Sited(unit, host, {}),
           Lettered(host), TreeNext
    PROVE  Settled
  <1>1. CASE \E arg \in Args : \E hit \in Hits(arg[1]) :
               \E r \in {find_aino(unit, arg[1], arg[2], hit)} : NamePacket(r, Last(arg[2]))
    <2>1. PICK arg, hit, r : /\ arg \in Args /\ r = find_aino(unit, arg[1], arg[2], hit)
                             /\ NamePacket(r, Last(arg[2]))
      BY <1>1
    <2>2. PICK q, rel : q = arg[1] /\ rel = arg[2]
      OBVIOUS
    <2>3. rel \in Seq(Names) /\ rel # <<>> /\ Last(rel) \in Names
      BY <2>1, <2>2, ArgNames
    <2>4. r = find_aino(unit, q, rel, hit) /\ NamePacket(r, Last(rel)) /\ Tree(unit) /\ Cached(unit, None)
      BY <2>1, <2>2 DEF Good
    <2>5. /\ Good(r.u, locks, keys) /\ Sited(r.u, host, {})
          /\ r.err = "ok" => r.node \in Live(r.u) /\ r.node # Root
          /\ r.err = "not around" /\ r.node # None => r.node \in Live(r.u)
      BY <2>3, <2>4, FindGood, TreeLooksSited
    <2>6. r.err = "not around" /\ r.node # None => Missing(r, Last(rel))
      BY <2>3, <2>4, FindIs
    <2> QED  BY <2>3, <2>4, <2>5, <2>6, NamePacketSettled
  <1>2. CASE \E q \in LockHeld : \E hit \in Hits(q) : \E r \in {lookup_aino(unit, q, hit)} : LockPacket(q, r)
    BY <1>2, LockPacketSettled
  <1>3. CASE \E k \in KeyOpen : KeyPacket(k)
    BY <1>3, KeyPacketSettled
  <1>4. CASE \E s \in Scans : ScanPacket(s)
    BY <1>4, ScanSettled
  <1> QED  BY <1>1, <1>2, <1>3, <1>4 DEF TreeNext

(* The invariant of the names.  A step that uses an a_inode that was freed is the last. *)
Standing == (unit.wild /\ MayFreeIts) \/ (Sited(unit, host, {}) /\ Lettered(host))

LEMMA InitStanding == TreeInit => Standing
  <1> SUFFICES ASSUME TreeInit
               PROVE  Standing
    OBVIOUS
  <1>1. Live(unit) = {Root} /\ unit.ino[Root].nname = <<>> /\ unit.ino[Root].dir = TRUE /\ ~unit.wild
    BY DEF TreeInit, Live, Node
  <1>2. host = InitHost /\ <<>> \in DOMAIN host /\ host[<<>>] = "dir" /\ DOMAIN host \subseteq Seq(Names)
    BY TreeAssumption DEF TreeInit
  <1>3. Lettered(host)
    BY <1>2 DEF Lettered, Components
  <1>4. Sited(unit, host, {})
    BY <1>1, <1>2 DEF Sited, At
  <1> QED  BY <1>3, <1>4 DEF Standing

LEMMA StandingKept ==
    ASSUME Exact, "rename parent" \notin Habits, "mkdir" \notin HostMayFail
    PROVE  TreeSpec => []Standing
  <1>1. Plain
    BY DEF Plain, Exact
  <1>2. TreeInv /\ Standing /\ [TreeNext]_vars => Standing'
    <2> SUFFICES ASSUME TreeInv, Standing, [TreeNext]_vars
                 PROVE  Standing'
      OBVIOUS
    <2>1. CASE TreeNext
      <3>1. Good(unit, locks, keys) /\ Sited(unit, host, {}) /\ Lettered(host)
        BY <2>1 DEF TreeInv, Standing, TreeNext
      <3>2. Settled
        BY <1>1, <2>1, <3>1, NextSettled
      <3> QED  BY <3>2 DEF Settled, Standing, Sited, At, Lettered
    <2>2. CASE UNCHANGED vars
      BY <2>2 DEF Standing, Sited, At, Lettered, vars
    <2> QED  BY <2>1, <2>2
  <1> QED  BY <1>2, InitStanding, TreeKept, PTL DEF TreeSpec

\* Every a_inode stands for an object of its kind on the host and no two for the same, whatever
\* packets come and whatever host calls fail, mkdir but for: what do_find, action_create_dir,
\* action_delete_object and action_rename_object do to the tree they do to the host, until a handler
\* uses an a_inode that was freed.
THEOREM TreeStandsOnHost ==
    ASSUME Exact, "rename parent" \notin Habits, "mkdir" \notin HostMayFail
    PROVE  TreeSpec => [](NoFreedUse => TreeOnHost)
  <1>1. Standing => (NoFreedUse => TreeOnHost)
    BY DEF Standing, Sited, At, NoFreedUse, TreeOnHost, Exists
  <1> QED  BY <1>1, StandingKept, PTL

\* Without notification requests (notify_check), and while no file that nobody holds is renamed with
\* the cache over its limit (action_rename_object), no handler uses an a_inode that flush_cache or
\* delete_aino freed: not one it has looked up and not one that a key refers to.  These two are then
\* the only places where "freed but used" can happen.
THEOREM NothingFreedIsUsed ==
    ASSUME Exact, "rename parent" \notin Habits, "mkdir" \notin HostMayFail,
           "rename file" \notin Habits, Watched = <<>>
    PROVE  TreeSpec => [](NoFreedUse /\ TreeOnHost)
  <1>1. Standing => NoFreedUse /\ TreeOnHost
    BY DEF Standing, MayFreeIts, Sited, At, NoFreedUse, TreeOnHost, Exists
  <1> QED  BY <1>1, StandingKept, PTL

----------------------------------------------------------------------------
(* The guest's ExNext loops.  A guest goes to the end of a loop once, and neither removes nor renames
   the entry it stands on; the host lists its directories. *)
Steady ==
    /\ Exact /\ Habits \cap {"rename parent", "exnext again", "change current"} = {}
    /\ HostMayFail \cap {"mkdir", "opendir"} = {}

(* A directory that is scanned has an a_inode for each object in it. *)
Complete(u, h) ==
    \A d \in Live(u), x \in Names :
       u.ino[d].dir /\ u.ino[d].exnext > 0 /\ Append(u.ino[d].nname, x) \in DOMAIN h => Named(u, d, x)
(* The loops that have begun in the directory q, each of which the a_inode counts. *)
Going(sc, q) == {s \in Scans : sc[s].st = "on" /\ sc[s].dir = q /\ sc[s].at # q}
Counting(u, sc) == \A p \in Live(u) : u.ino[p].exnext >= Cardinality(Going(sc, u.ino[p].uniq))
(* What the loop l, which stands on the child c of d, has yet to be told comes after c, and nothing
   that it has been told does. *)
Ahead(u, d, c, must, seen) ==
    /\ \A x \in must \ seen : \E e \in Children(u, d) : Before(u.ino[d].kids, c, e) /\ u.ino[e].name = x
    /\ \A e \in Children(u, d) : Before(u.ino[d].kids, c, e) => u.ino[e].name \notin seen
On(u, d, c, l) ==
    c \in Children(u, d) /\ u.ino[c].uniq = l.at /\ u.ino[d].exnext > 0 /\ Ahead(u, d, c, l.must, l.seen)
Stands(u, d, l) ==
    /\ d \in Live(u) /\ u.ino[d].uniq = l.dir /\ u.ino[d].dir
    /\ IF l.at = l.dir THEN l.seen = {} /\ l.must = {} ELSE \E c : On(u, d, c, l)
Looping(u, l) == IF l.st = "on" THEN ~l.again /\ \E d : Stands(u, d, l) ELSE l = NoScan
LoopRecs ==
    [st : {"idle", "on", "end"}, dir : Nat, at : Nat, seen : SUBSET Names, must : SUBSET Names, again : BOOLEAN]
ScanRecs == [Scans -> LoopRecs]
Rooted(h) == \A q \in DOMAIN h : q # <<>> => Front(q) \in DOMAIN h
Loops(u, h, sc) ==
    /\ Marks(u) /\ Complete(u, h) /\ Counting(u, sc) /\ Rooted(h)
    /\ sc \in ScanRecs /\ \A s \in Scans : Looping(u, sc[s])

LEMMA GoingIs ==
    ASSUME NEW sc, NEW q
    PROVE  /\ IsFiniteSet(Going(sc, q)) /\ Cardinality(Going(sc, q)) \in Nat
           /\ Going(sc, q) = {} => Cardinality(Going(sc, q)) = 0
           /\ \A s \in Scans : Cardinality(Going(sc, q) \cup {s}) <= Cardinality(Going(sc, q)) + 1
           /\ \A s \in Going(sc, q) : Cardinality(Going(sc, q) \ {s}) = Cardinality(Going(sc, q)) - 1
           /\ \A T \in SUBSET Going(sc, q) : Cardinality(T) <= Cardinality(Going(sc, q))
  <1>1. IsFiniteSet(Scans) /\ Going(sc, q) \subseteq Scans
    BY TreeAssumption DEF Going
  <1>2. PICK T : T = Going(sc, q)
    OBVIOUS
  <1>3. IsFiniteSet(T)
    BY <1>1, <1>2, FS_Subset
  <1>4. Cardinality(T) \in Nat /\ (T = {} => Cardinality(T) = 0)
    BY <1>3, FS_CardinalityType, FS_EmptySet
  <1>5. \A s \in Scans : Cardinality(T \cup {s}) <= Cardinality(T) + 1
    <2> SUFFICES ASSUME NEW s \in Scans
                 PROVE  Cardinality(T \cup {s}) <= Cardinality(T) + 1
      OBVIOUS
    <2>1. CASE s \in T
      <3>1. Cardinality(T \cup {s}) = Cardinality(T)
        <4>1. T \cup {s} = T
          BY <2>1
        <4> QED  BY Zenon, <4>1
      <3> QED  BY ONLY <1>4, <3>1
    <2>2. CASE s \notin T
      <3>1. Cardinality(T \cup {s}) = Cardinality(T) + 1
        BY Zenon, <1>3, <2>2, FS_AddElement
      <3> QED  BY ONLY <1>4, <3>1
    <2> QED  BY <2>1, <2>2
  <1>6. \A s \in T : Cardinality(T \ {s}) = Cardinality(T) - 1
    BY <1>3, FS_RemoveElement
  <1>7. \A V \in SUBSET T : Cardinality(V) <= Cardinality(T)
    BY <1>3, FS_Subset
  <1> QED  BY <1>2, <1>3, <1>4, <1>5, <1>6, <1>7

\* An a_inode that was not there yet has no loop.
LEMMA NotGoing ==
    ASSUME NEW u, NEW h, NEW sc, NEW q \in Nat, Tree(u), Loops(u, h, sc), q > u.a_uniq
    PROVE  Going(sc, q) = {} /\ \A s \in Scans : sc[s].st = "on" => sc[s].dir # q /\ sc[s].at # q
  <1>1. ASSUME NEW s \in Scans, sc[s].st = "on"
        PROVE  sc[s].dir # q /\ sc[s].at # q
    <2>1. PICK d : Stands(u, d, sc[s])
      BY <1>1 DEF Loops, Looping
    <2>2. ASSUME NEW p \in Live(u)
          PROVE  u.ino[p].uniq # q
      <3>1. u.ino[p].uniq \in Nat /\ u.ino[p].uniq <= u.a_uniq /\ u.a_uniq \in Nat
        BY InodeIs, Parts DEF Tree
      <3> QED  BY ONLY <3>1, q \in Nat, q > u.a_uniq
    <2>3. sc[s].dir # q
      BY <2>1, <2>2 DEF Stands
    <2>4. CASE sc[s].at = sc[s].dir
      BY <2>3, <2>4
    <2>5. CASE sc[s].at # sc[s].dir
      <3>1. PICK c : On(u, d, c, sc[s])
        BY <2>1, <2>5 DEF Stands
      <3> QED  BY <2>2, <2>3, <3>1 DEF On, Children
    <2> QED  BY <2>4, <2>5
  <1> QED  BY <1>1 DEF Going

LEMMA CountingPasses ==
    ASSUME NEW u, NEW v, NEW h, NEW sc, Tree(u), Tree(v), Passes(u, v), Loops(u, h, sc)
    PROVE  Counting(v, sc)
  <1> SUFFICES ASSUME NEW p \in Live(v)
               PROVE  v.ino[p].exnext >= Cardinality(Going(sc, v.ino[p].uniq))
    BY DEF Counting
  <1>1. CASE p \in Live(u)
    <2>1. Placed(u.ino[p], v.ino[p]) /\ v.ino[p].exnext = u.ino[p].exnext
      BY <1>1 DEF Passes, Drifts, Carries, Follows, Loops
    <2>2. u.ino[p].exnext >= Cardinality(Going(sc, u.ino[p].uniq))
      BY <1>1 DEF Loops, Counting
    <2> QED  BY <2>1, <2>2 DEF Placed
  <1>2. CASE p \notin Live(u)
    <2>1. p > u.a_uniq /\ v.ino[p].uniq = p /\ v.ino[p].exnext = 0
      BY <1>2 DEF Passes, Drifts, Carries, Loops
    <2>2. p \in Nat
      BY Parts DEF Tree
    <2>3. Going(sc, p) = {}
      BY <2>1, <2>2, NotGoing
    <2>4. Cardinality(Going(sc, p)) = 0
      BY <2>3, GoingIs
    <2> QED  BY <2>1, <2>4
  <1> QED  BY <1>1, <1>2

\* A list of children names children.
LEMMA BeforeIs ==
    ASSUME NEW u, NEW d, Tree(u), d \in Live(u)
    PROVE  \A a, b : Before(u.ino[d].kids, a, b) => a \in Children(u, d) /\ b \in Children(u, d) /\ a # b
  <1>1. PICK s \in Seq(Nat) : s = u.ino[d].kids
    BY InodeIs
  <1>2. NoDup(s) /\ ToSet(s) = Children(u, d)
    BY <1>1 DEF Tree
  <1>3. Len(s) \in Nat /\ \A i \in 1 .. Len(s) : s[i] \in ToSet(s)
    BY Elements
  <1>4. \A a, b : Before(s, a, b) => a \in ToSet(s) /\ b \in ToSet(s) /\ a # b
    BY <1>2, <1>3 DEF Before, NoDup
  <1> QED  BY <1>1, <1>2, <1>4

LEMMA PassedKids ==
    ASSUME NEW u, NEW v, Tree(u), Tree(v), Passes(u, v), Marks(u), NEW d \in Live(u), u.ino[d].dir
    PROVE  /\ d \in Live(v) /\ Placed(u.ino[d], v.ino[d]) /\ v.ino[d].exnext = u.ino[d].exnext
           /\ u.ino[d].exnext > 0 =>
                /\ \A c \in Children(u, d) : c \in Children(v, d) /\ Placed(u.ino[c], v.ino[c])
                /\ \A c \in Children(u, d) : \A e : Before(v.ino[d].kids, c, e) <=> Before(u.ino[d].kids, c, e)
  <1>1. d \in Live(v) /\ Placed(u.ino[d], v.ino[d])
    BY DEF Passes, Drifts
  <1>2. Follows(u.ino[d], v.ino[d])
    BY <1>1 DEF Passes, Carries
  <1>3. ToSet(u.ino[d].kids) = Children(u, d) /\ ToSet(v.ino[d].kids) = Children(v, d)
    BY <1>1 DEF Tree
  <1>4. ASSUME u.ino[d].exnext > 0
        PROVE  /\ \A c \in Children(u, d) : c \in Children(v, d) /\ Placed(u.ino[c], v.ino[c])
               /\ \A c \in Children(u, d) : \A e : Before(v.ino[d].kids, c, e) <=> Before(u.ino[d].kids, c, e)
    <2>1. Grown(u.ino[d].kids, v.ino[d].kids)
      BY <1>2, <1>4 DEF Follows
    <2>2. Children(u, d) \subseteq Children(v, d)
      BY <1>3, <2>1 DEF Grown
    <2>3. \A c \in Children(u, d) : \A e : Before(v.ino[d].kids, c, e) <=> Before(u.ino[d].kids, c, e)
      BY Zenon, <1>3, <2>1 DEF Grown
    <2>4. \A c \in Children(u, d) : Placed(u.ino[c], v.ino[c])
      BY <2>2 DEF Children, Passes, Drifts
    <2> QED  BY <2>2, <2>3, <2>4
  <1> QED  BY <1>1, <1>2, <1>4 DEF Follows

LEMMA CompletePasses ==
    ASSUME NEW u, NEW v, NEW h, Tree(u), Tree(v), Passes(u, v), Marks(u), Complete(u, h)
    PROVE  Complete(v, h)
  <1> SUFFICES ASSUME NEW d \in Live(v), NEW x \in Names, v.ino[d].dir, v.ino[d].exnext > 0,
                      Append(v.ino[d].nname, x) \in DOMAIN h
               PROVE  Named(v, d, x)
    BY DEF Complete
  <1>1. d \in Live(u)
    BY DEF Passes, Carries
  <1>2. Placed(u.ino[d], v.ino[d])
    BY <1>1 DEF Passes, Drifts
  <1>3. u.ino[d].dir /\ u.ino[d].nname = v.ino[d].nname
    BY <1>2 DEF Placed
  <1>4. u.ino[d].exnext > 0
    BY <1>1, <1>3, PassedKids
  <1>5. Named(u, d, x)
    BY <1>1, <1>3, <1>4 DEF Complete
  <1>6. PICK c \in Children(u, d) : u.ino[c].name = x
    BY <1>5 DEF Named
  <1>7. c \in Children(v, d) /\ Placed(u.ino[c], v.ino[c])
    BY <1>1, <1>3, <1>4, PassedKids
  <1> QED  BY <1>6, <1>7 DEF Named, Placed

LEMMA LoopingPasses ==
    ASSUME NEW u, NEW v, NEW l, Tree(u), Tree(v), Passes(u, v), Marks(u), Looping(u, l)
    PROVE  Looping(v, l)
  <1> SUFFICES ASSUME l.st = "on", NEW d, Stands(u, d, l)
               PROVE  Stands(v, d, l)
    BY DEF Looping
  <1>1. d \in Live(u) /\ u.ino[d].dir /\ u.ino[d].uniq = l.dir
    BY DEF Stands
  <1>2. d \in Live(v) /\ Placed(u.ino[d], v.ino[d]) /\ v.ino[d].exnext = u.ino[d].exnext
    BY <1>1, PassedKids
  <1>3. v.ino[d].dir /\ v.ino[d].uniq = l.dir
    BY <1>1, <1>2 DEF Placed
  <1>4. ASSUME NEW c, On(u, d, c, l)
        PROVE  On(v, d, c, l)
    <2>1. u.ino[d].exnext > 0 /\ c \in Children(u, d) /\ Ahead(u, d, c, l.must, l.seen)
      BY <1>4 DEF On
    <2>2. /\ \A e \in Children(u, d) : e \in Children(v, d) /\ Placed(u.ino[e], v.ino[e])
          /\ \A e : Before(v.ino[d].kids, c, e) <=> Before(u.ino[d].kids, c, e)
      BY <1>1, <2>1, PassedKids
    <2>3. \A e : Before(u.ino[d].kids, c, e) => e \in Children(u, d)
      BY <1>1, BeforeIs
    <2>4. Ahead(v, d, c, l.must, l.seen)
      <3>1. \A x \in l.must \ l.seen : \E e \in Children(v, d) : Before(v.ino[d].kids, c, e) /\ v.ino[e].name = x
        BY <2>1, <2>2 DEF Ahead, Placed
      <3>2. \A e \in Children(v, d) : Before(v.ino[d].kids, c, e) => v.ino[e].name \notin l.seen
        BY <2>1, <2>2, <2>3 DEF Ahead, Placed
      <3> QED  BY <3>1, <3>2 DEF Ahead
    <2> QED  BY <1>2, <1>4, <2>1, <2>2, <2>4 DEF On, Placed
  <1> QED  BY <1>2, <1>3, <1>4 DEF Stands

LEMMA PassesLoops ==
    ASSUME NEW u, NEW v, NEW h, NEW sc, Tree(u), Tree(v), Passes(u, v), Loops(u, h, sc)
    PROVE  Loops(v, h, sc)
  <1>1. Marks(v)
    BY DEF Loops, Passes, Carries
  <1>2. Counting(v, sc)
    BY CountingPasses
  <1>3. Complete(v, h)
    BY CompletePasses DEF Loops
  <1>4. \A s \in Scans : Looping(v, sc[s])
    BY LoopingPasses DEF Loops
  <1> QED  BY <1>1, <1>2, <1>3, <1>4 DEF Loops

----------------------------------------------------------------------------
(* An object comes, an object goes. *)
LEMMA NameOf ==
    ASSUME Plain, NEW u, NEW p, Tree(u), p \in Live(u), p # Root
    PROVE  /\ u.ino[p].parent \in Live(u) /\ u.ino[p].name \in Components
           /\ u.ino[u.ino[p].parent].nname \in Seq(Components) /\ u.ino[p].nname \in Seq(Components)
           /\ u.ino[p].nname = Append(u.ino[u.ino[p].parent].nname, u.ino[p].name)
           /\ u.ino[p].nname # <<>> /\ Front(u.ino[p].nname) = u.ino[u.ino[p].parent].nname
  <1>1. Under(u, p)
    BY DEF Tree
  <1>2. PICK s, x : s = u.ino[u.ino[p].parent].nname /\ x = u.ino[p].name
    OBVIOUS
  <1>3. s \in Seq(Components) /\ x \in Components /\ u.ino[p].nname = Append(s, x)
    BY <1>1, <1>2, Parts, Fields DEF Under, Tree, Components
  <1>4. Front(Append(s, x)) = s /\ Append(s, x) # <<>> /\ Append(s, x) \in Seq(Components)
    BY <1>3, FrontOfChild, LastIs
  <1> QED  BY <1>1, <1>2, <1>3, <1>4 DEF Under

LEMMA GrownLoops ==
    ASSUME Plain, NEW u, NEW h, NEW g, NEW sc, Tree(u), Sited(u, g, {}), Loops(u, h, sc),
           NEW p \in Live(u), p # Root, NEW kind, g = With(h, u.ino[p].nname, kind)
    PROVE  Loops(u, g, sc)
  <1>1. DOMAIN g = DOMAIN h \cup {u.ino[p].nname}
    BY DEF With
  <1>2. Complete(u, g)
    <2> SUFFICES ASSUME NEW d \in Live(u), NEW x \in Names, u.ino[d].dir, u.ino[d].exnext > 0,
                        Append(u.ino[d].nname, x) \in DOMAIN g
                 PROVE  Named(u, d, x)
      BY DEF Complete
    <2>1. CASE Append(u.ino[d].nname, x) \in DOMAIN h
      BY <2>1 DEF Loops, Complete
    <2>2. CASE Append(u.ino[d].nname, x) = u.ino[p].nname
      <3>1. u.ino[d].nname \in Seq(Components) /\ x \in Components
        BY Parts, Fields DEF Tree, Components
      <3>4. PICK s, t, y : s = u.ino[d].nname /\ t = u.ino[u.ino[p].parent].nname /\ y = u.ino[p].name
        OBVIOUS
      <3>5. /\ s \in Seq(Components) /\ t \in Seq(Components) /\ x \in Components /\ y \in Components
            /\ Append(s, x) = Append(t, y)
        <4>1. /\ u.ino[p].name \in Components /\ u.ino[u.ino[p].parent].nname \in Seq(Components)
              /\ u.ino[p].nname = Append(u.ino[u.ino[p].parent].nname, u.ino[p].name)
          BY NameOf
        <4> QED  BY ONLY <2>2, <3>1, <3>4, <4>1
      <3>6. s = t /\ x = y
        BY ONLY <3>5, NamesEnd
      <3>2. u.ino[d].nname = u.ino[u.ino[p].parent].nname /\ x = u.ino[p].name /\ u.ino[p].parent \in Live(u)
        BY <3>4, <3>6, NameOf
      <3>3. d = u.ino[p].parent
        BY <3>2 DEF Sited
      <3> QED  BY <3>2, <3>3 DEF Named, Children
    <2> QED  BY <1>1, <2>1, <2>2
  <1>3. Rooted(g)
    <2> SUFFICES ASSUME NEW q \in DOMAIN g, q # <<>>
                 PROVE  Front(q) \in DOMAIN g
      BY DEF Rooted
    <2>1. CASE q \in DOMAIN h
      BY <1>1, <2>1 DEF Loops, Rooted
    <2>2. CASE q = u.ino[p].nname
      BY <2>2, NameOf DEF Sited, At
    <2> QED  BY <1>1, <2>1, <2>2
  <1> QED  BY <1>2, <1>3 DEF Loops

LEMMA PrunedIs ==
    ASSUME NEW r, NEW h, NEW gone, NEW sc, sc = Pruned(r, h, gone), scan \in ScanRecs, Tree(r)
    PROVE  /\ sc \in ScanRecs
           /\ \A s \in Scans : /\ sc[s].st = scan[s].st /\ sc[s].dir = scan[s].dir /\ sc[s].at = scan[s].at
                               /\ sc[s].seen = scan[s].seen /\ sc[s].again = scan[s].again
                               /\ scan[s].st # "on" => sc[s] = scan[s]
           /\ \A q : Going(sc, q) = Going(scan, q)
           /\ \A s \in Scans, d \in Live(r) : scan[s].st = "on" /\ r.ino[d].uniq = scan[s].dir =>
                 \A x \in sc[s].must : /\ x \in scan[s].must /\ Append(r.ino[d].nname, x) \in DOMAIN h
                                       /\ Append(r.ino[d].nname, x) # gone
  <1>1. ASSUME NEW s \in Scans
        PROVE  /\ sc[s] \in LoopRecs
               /\ sc[s].st = scan[s].st /\ sc[s].dir = scan[s].dir /\ sc[s].at = scan[s].at
               /\ sc[s].seen = scan[s].seen /\ sc[s].again = scan[s].again
               /\ scan[s].st # "on" => sc[s] = scan[s]
               /\ scan[s].st = "on" =>
                     sc[s].must = IF NodeOf(r, scan[s].dir) = None THEN {}
                        ELSE {x \in scan[s].must :
                                Append(r.ino[NodeOf(r, scan[s].dir)].nname, x) \in DOMAIN h \ {gone}}
    <2>1. scan[s] \in LoopRecs
      BY DEF ScanRecs
    <2>2. PICK m : m = IF NodeOf(r, scan[s].dir) = None THEN {}
                       ELSE {x \in scan[s].must :
                               Append(r.ino[NodeOf(r, scan[s].dir)].nname, x) \in DOMAIN h \ {gone}}
      OBVIOUS
    <2>3. m \in SUBSET Names
      BY <2>1, <2>2 DEF LoopRecs
    <2>4. sc[s] = IF scan[s].st # "on" THEN scan[s] ELSE [scan[s] EXCEPT !.must = m]
      BY <2>2 DEF Pruned
    <2>5. PICK l : l = scan[s]
      OBVIOUS
    <2>6. /\ sc[s] \in LoopRecs
          /\ sc[s].st = l.st /\ sc[s].dir = l.dir /\ sc[s].at = l.at /\ sc[s].seen = l.seen /\ sc[s].again = l.again
          /\ l.st # "on" => sc[s] = l
          /\ l.st = "on" => sc[s].must = m
      BY <2>1, <2>3, <2>4, <2>5 DEF LoopRecs
    <2> QED  BY Zenon, <2>2, <2>5, <2>6
  <1>2. sc \in ScanRecs
    <2>1. sc = [s \in Scans |-> sc[s]]
      BY DEF Pruned
    <2> QED  BY <1>1, <2>1 DEF ScanRecs
  <1>3. \A q : Going(sc, q) = Going(scan, q)
    BY <1>1 DEF Going
  <1>4. ASSUME NEW s \in Scans, NEW d \in Live(r), scan[s].st = "on", r.ino[d].uniq = scan[s].dir,
               NEW x \in sc[s].must
        PROVE  /\ x \in scan[s].must /\ Append(r.ino[d].nname, x) \in DOMAIN h
               /\ Append(r.ino[d].nname, x) # gone
    <2>1. NodeOf(r, scan[s].dir) = d /\ d # None
      BY <1>4, NodeOfIs
    <2>2. sc[s].must = {y \in scan[s].must : Append(r.ino[d].nname, y) \in DOMAIN h \ {gone}}
      BY Zenon, <1>1, <1>4, <2>1
    <2> QED  BY <2>2
  <1> QED  BY <1>1, <1>2, <1>3, <1>4

LEMMA KidsWithout ==
    ASSUME NEW u, NEW d, NEW g, Tree(u), d \in Live(u)
    PROVE  \A a, b : Before(Without(u.ino[d].kids, {g}), a, b) <=> Before(u.ino[d].kids, a, b) /\ a # g /\ b # g
  <1>1. PICK s \in Seq(Nat) : s = u.ino[d].kids
    BY InodeIs
  <1>2. PICK P : P = {g}
    OBVIOUS
  <1>3. \A a, b : Before(Without(s, P), a, b) <=> Before(s, a, b) /\ a \notin P /\ b \notin P
    BY ONLY RemovedOrder, s \in Seq(Nat)
  <1> QED  BY <1>1, <1>2, <1>3

\* A loop goes on in a directory from which g is gone.
Kin(n, m) == m.parent = n.parent /\ m.name = n.name /\ m.dir = n.dir /\ m.nname = n.nname
LEMMA StandsWithout ==
    ASSUME Plain, NEW u, NEW r, NEW g, NEW d, NEW l, NEW m, Tree(u), Tree(r), g \in Live(u), g # Root,
           Live(r) = Live(u) \ {g}, \A q \in Live(r) : Kin(u.ino[q], r.ino[q]),
           Stands(u, d, l), d \in Live(r), r.ino[d].uniq = l.dir, r.ino[d].exnext = u.ino[d].exnext,
           r.ino[d].kids = Without(u.ino[d].kids, {g}),
           \A c \in Children(u, d) : u.ino[c].uniq = l.at => c \in Live(r) /\ r.ino[c].uniq = l.at,
           m.dir = l.dir, m.at = l.at, m.seen = l.seen,
           \A x \in m.must : x \in l.must /\ Append(u.ino[d].nname, x) # u.ino[g].nname
    PROVE  Stands(r, d, m)
  <1>1. r.ino[d].dir /\ d \in Live(u)
    BY DEF Stands, Kin
  <1>2. CASE l.at = l.dir
    BY <1>1, <1>2 DEF Stands
  <1>3. ASSUME NEW c, On(u, d, c, l)
        PROVE  On(r, d, c, m)
    <2>1. c \in Children(u, d) /\ u.ino[c].uniq = l.at /\ u.ino[d].exnext > 0 /\ Ahead(u, d, c, l.must, l.seen)
      BY <1>3 DEF On
    <2>2. c \in Live(r) /\ r.ino[c].uniq = m.at
      BY <2>1
    <2>3. c \in Children(r, d) /\ c # g
      BY <2>1, <2>2 DEF Children, Kin
    <2>4. \A a, b : Before(r.ino[d].kids, a, b) <=> Before(u.ino[d].kids, a, b) /\ a # g /\ b # g
      <3>1. \A a, b : Before(Without(u.ino[d].kids, {g}), a, b) <=> Before(u.ino[d].kids, a, b) /\ a # g /\ b # g
        BY <1>1, KidsWithout
      <3> QED  BY Zenon, <3>1
    <2>5. \A x \in m.must \ m.seen : \E e \in Children(r, d) : Before(r.ino[d].kids, c, e) /\ r.ino[e].name = x
      <3> SUFFICES ASSUME NEW x \in m.must, x \notin m.seen
                   PROVE  \E e \in Children(r, d) : Before(r.ino[d].kids, c, e) /\ r.ino[e].name = x
        OBVIOUS
      <3>1. PICK e \in Children(u, d) : Before(u.ino[d].kids, c, e) /\ u.ino[e].name = x
        BY <2>1 DEF Ahead
      <3>2. e # g
        <4>1. g = e => u.ino[g].parent = d /\ u.ino[g].name = x
          BY <3>1 DEF Children
        <4>2. u.ino[g].nname = Append(u.ino[u.ino[g].parent].nname, u.ino[g].name)
          BY NameOf
        <4> QED  BY <4>1, <4>2
      <3> QED  BY <2>3, <2>4, <3>1, <3>2 DEF Children, Kin
    <2>6. \A e \in Children(r, d) : Before(r.ino[d].kids, c, e) => r.ino[e].name \notin m.seen
      BY <2>1, <2>4 DEF Ahead, Children, Kin
    <2> QED  BY <2>1, <2>2, <2>3, <2>5, <2>6 DEF On, Ahead
  <1> QED  BY <1>1, <1>2, <1>3 DEF Stands

----------------------------------------------------------------------------
\* Removing an object that is empty, on which no loop stands.
LEMMA FrontIs ==
    ASSUME NEW S, NEW q \in Seq(S), q # <<>>
    PROVE  /\ Front(q) \in Seq(S) /\ Last(q) \in S /\ q = Append(Front(q), Last(q))
           /\ Len(Front(q)) = Len(q) - 1 /\ Len(q) > 0
  <1>1. PICK n \in Nat : n = Len(q)
    BY LenProperties
  <1>2. n > 0 /\ \A i \in 1 .. n : q[i] \in S
    BY <1>1, Elements
  <1>3. PICK f : f = [i \in 1 .. n - 1 |-> q[i]]
    OBVIOUS
  <1>4. f \in Seq(S) /\ Len(f) = n - 1 /\ Front(q) = f
    <2>1. Front(q) = SubSeq(q, 1, n - 1)
      BY <1>1 DEF Front
    <2>2. SubSeq(q, 1, n - 1) \in Seq(S) /\ Len(SubSeq(q, 1, n - 1)) = n - 1
      BY <1>1, <1>2, SubSeqProperties
    <2>3. SubSeq(q, 1, n - 1) = f
      BY <1>1, <1>2, <1>3, SubSeqProperties
    <2> QED  BY <2>1, <2>2, <2>3
  <1>5. Last(q) = q[n] /\ q[n] \in S
    BY <1>1, <1>2 DEF Last
  <1>6. Append(f, q[n]) = q
    <2>1. /\ Append(f, q[n]) \in Seq(S) /\ Len(Append(f, q[n])) = n
          /\ \A i \in 1 .. n - 1 : Append(f, q[n])[i] = q[i]
          /\ Append(f, q[n])[n] = q[n]
      BY <1>2, <1>3, <1>4, AppendProperties
    <2>2. \A i \in 1 .. n : Append(f, q[n])[i] = q[i]
      <3> SUFFICES ASSUME NEW i \in 1 .. n
                   PROVE  Append(f, q[n])[i] = q[i]
        OBVIOUS
      <3>1. i = n \/ i \in 1 .. n - 1
        OBVIOUS
      <3> QED  BY <2>1, <3>1
    <2> QED  BY <1>1, <2>1, <2>2, SeqEqual
  <1> QED  BY <1>1, <1>2, <1>4, <1>5, <1>6

LEMMA LeavesAlone ==
    ASSUME "change current" \notin Habits, NEW u, NEW p, Leaves(u, p)
    PROVE  \A s \in Scans : scan[s].st = "on" => scan[s].dir # u.ino[p].uniq /\ scan[s].at # u.ino[p].uniq
  BY DEF Leaves, Current

LEMMA DeletedLoops ==
    ASSUME Plain, "change current" \notin Habits, NEW u, NEW r, NEW p, NEW h, NEW sc, NEW path,
           Tree(u), Tree(r), Lettered(host), Loops(u, host, scan), Gone(u, r, p), p \in Live(u), p # Root,
           Leaves(u, p), Empty(path), path = u.ino[p].nname, h = Free(host, path), sc = Pruned(r, h, path)
    PROVE  Loops(r, h, sc)
  <1>1. /\ Live(r) = Live(u) \ {p}
        /\ \A q \in Live(r) : /\ Kin(u.ino[q], r.ino[q]) /\ r.ino[q].uniq = u.ino[q].uniq
                              /\ r.ino[q].exnext = u.ino[q].exnext
                              /\ r.ino[q].kids = Without(u.ino[q].kids, {p})
    BY DEF Gone, Same, Less, Kin
  <1>2. DOMAIN h = DOMAIN host \ {path}
    BY DEF Free
  <1>3. scan \in ScanRecs
    BY DEF Loops
  <1>4. /\ sc \in ScanRecs
        /\ \A s \in Scans : /\ sc[s].st = scan[s].st /\ sc[s].dir = scan[s].dir /\ sc[s].at = scan[s].at
                            /\ sc[s].seen = scan[s].seen /\ sc[s].again = scan[s].again
                            /\ scan[s].st # "on" => sc[s] = scan[s]
        /\ \A q : Going(sc, q) = Going(scan, q)
        /\ \A s \in Scans, d \in Live(r) : scan[s].st = "on" /\ r.ino[d].uniq = scan[s].dir =>
              \A x \in sc[s].must : /\ x \in scan[s].must /\ Append(r.ino[d].nname, x) \in DOMAIN h
                                    /\ Append(r.ino[d].nname, x) # path
    <2>1. Tree(r) /\ sc = Pruned(r, h, path)
      OBVIOUS
    <2> QED  BY ONLY <1>3, <2>1, PrunedIs
  <1>5. Marks(r)
    BY GoneMarks DEF Loops
  <1>6. Complete(r, h)
    <2> SUFFICES ASSUME NEW d \in Live(r), NEW x \in Names, r.ino[d].dir, r.ino[d].exnext > 0,
                        Append(r.ino[d].nname, x) \in DOMAIN h
                 PROVE  Named(r, d, x)
      BY DEF Complete
    <2>1. d \in Live(u) /\ Kin(u.ino[d], r.ino[d]) /\ u.ino[d].exnext > 0
      BY <1>1
    <2>2. Append(u.ino[d].nname, x) \in DOMAIN host /\ Append(u.ino[d].nname, x) # path
      BY <1>2, <2>1 DEF Kin
    <2>3. PICK c \in Children(u, d) : u.ino[c].name = x
      BY <2>1, <2>2 DEF Loops, Complete, Named, Kin
    <2>4. c # p
      <3>1. c = p => u.ino[p].parent = d /\ u.ino[p].name = x
        BY <2>3 DEF Children
      <3>2. u.ino[p].nname = Append(u.ino[u.ino[p].parent].nname, u.ino[p].name)
        <4>1. Plain /\ Tree(u) /\ p \in Live(u) /\ p # Root
          OBVIOUS
        <4> QED  BY ONLY <4>1, NameOf
      <3> QED  BY <2>2, <3>1, <3>2
    <2>5. c \in Live(r) /\ Kin(u.ino[c], r.ino[c])
      BY <1>1, <2>3, <2>4 DEF Children
    <2> QED  BY <2>3, <2>5 DEF Named, Children, Kin
  <1>7. Counting(r, sc)
    <2> SUFFICES ASSUME NEW q \in Live(r)
                 PROVE  r.ino[q].exnext >= Cardinality(Going(sc, r.ino[q].uniq))
      BY DEF Counting
    <2>1. q \in Live(u) /\ r.ino[q].uniq = u.ino[q].uniq /\ r.ino[q].exnext = u.ino[q].exnext
      BY <1>1
    <2>2. u.ino[q].exnext >= Cardinality(Going(scan, u.ino[q].uniq))
      BY <2>1 DEF Loops, Counting
    <2>3. Going(sc, r.ino[q].uniq) = Going(scan, u.ino[q].uniq)
      BY <1>4, <2>1
    <2> QED  BY Zenon, <2>1, <2>2, <2>3
  <1>8. Rooted(h)
    <2> SUFFICES ASSUME NEW q \in DOMAIN h, q # <<>>
                 PROVE  Front(q) \in DOMAIN h
      BY DEF Rooted
    <2>1. q \in DOMAIN host /\ q # path /\ q \in Seq(Components)
      BY <1>2 DEF Lettered
    <2>2. Front(q) \in DOMAIN host
      BY <2>1 DEF Loops, Rooted
    <2>3. Front(q) \in Seq(Components) /\ Last(q) \in Components /\ q = Append(Front(q), Last(q))
      BY <2>1, FrontIs
    <2>4. IsPrefix(Front(q), q)
      BY <2>3, PrefixOfChild
    <2>5. Front(q) # path
      BY <2>1, <2>4 DEF Empty
    <2> QED  BY <1>2, <2>2, <2>5
  <1>9. ASSUME NEW s \in Scans
        PROVE  Looping(r, sc[s])
    <2>1. CASE scan[s].st # "on"
      BY <1>4, <2>1 DEF Loops, Looping
    <2>2. CASE scan[s].st = "on"
      <3>1. PICK d : Stands(u, d, scan[s])
        BY <2>2 DEF Loops, Looping
      <3>2. ~scan[s].again
        BY <2>2 DEF Loops, Looping
      <3>3. scan[s].dir # u.ino[p].uniq /\ scan[s].at # u.ino[p].uniq
        BY <2>2, LeavesAlone
      <3>4. d \in Live(u) /\ u.ino[d].uniq = scan[s].dir /\ d \in Live(r) /\ r.ino[d].uniq = scan[s].dir
        BY <1>1, <3>1, <3>3 DEF Stands
      <3>5. \A c \in Children(u, d) : u.ino[c].uniq = scan[s].at => c \in Live(r) /\ r.ino[c].uniq = scan[s].at
        BY <1>1, <3>3 DEF Children
      <3>6. \A x \in sc[s].must : x \in scan[s].must /\ Append(u.ino[d].nname, x) # u.ino[p].nname
        <4>1. \A x \in sc[s].must : x \in scan[s].must /\ Append(r.ino[d].nname, x) # path
          BY ONLY <1>4, <2>2, <3>4, s \in Scans
        <4>2. r.ino[d].nname = u.ino[d].nname
          BY <1>1, <3>4 DEF Kin
        <4> QED  BY <4>1, <4>2
      <3>7. PICK l, m : l = scan[s] /\ m = sc[s]
        OBVIOUS
      <3>8. Stands(r, d, m)
        <4>1. m.dir = l.dir /\ m.at = l.at /\ m.seen = l.seen
          BY <1>4, <3>7
        <4>2. r.ino[d].exnext = u.ino[d].exnext /\ r.ino[d].kids = Without(u.ino[d].kids, {p})
          BY <1>1, <3>4
        <4>3. \A q \in Live(r) : Kin(u.ino[q], r.ino[q])
          BY <1>1
        <4> QED  BY <1>1, <3>1, <3>4, <3>5, <3>6, <3>7, <4>1, <4>2, <4>3, StandsWithout
      <3> QED  BY <1>4, <2>2, <3>2, <3>7, <3>8 DEF Looping
    <2> QED  BY <2>1, <2>2
  <1> QED  BY <1>4, <1>5, <1>6, <1>7, <1>8, <1>9 DEF Loops

----------------------------------------------------------------------------
\* Full names that are joined.
LEMMA JoinEnds ==
    ASSUME NEW s \in Seq(Components), NEW t \in Seq(Components), NEW z \in Components
    PROVE  /\ s \o t \in Seq(Components) /\ Append(t, z) \in Seq(Components)
           /\ s \o Append(t, z) = Append(s \o t, z) /\ s \o <<>> = s
           /\ s \o Append(t, z) # <<>> /\ Front(s \o Append(t, z)) = s \o t
  <1>1. s \o t \in Seq(Components) /\ Append(t, z) \in Seq(Components)
    BY ConcatProperties, AppendProperties
  <1>2. s \o Append(t, z) = Append(s \o t, z)
    <2>1. <<z>> \in Seq(Components)
      OBVIOUS
    <2>2. Append(t, z) = t \o <<z>> /\ Append(s \o t, z) = (s \o t) \o <<z>>
      BY <1>1, AppendIsConcat
    <2>3. (s \o t) \o <<z>> = s \o (t \o <<z>>)
      BY <2>1, ConcatAssociative
    <2> QED  BY <2>2, <2>3
  <1>3. s \o <<>> = s
    BY ConcatEmptySeq
  <1>4. Front(Append(s \o t, z)) = s \o t
    BY <1>1, FrontOfChild
  <1>5. Append(s \o t, z) # <<>>
    BY <1>1, NamesEnd
  <1> QED  BY <1>1, <1>2, <1>3, <1>4, <1>5

LEMMA JoinAppend ==
    \A s, t \in Seq(Components), z \in Components :
        s \o Append(t, z) = Append(s \o t, z) /\ s \o t \in Seq(Components)
  BY JoinEnds

LEMMA EndOfJoin ==
    ASSUME NEW t \in Seq(Components), t # <<>>
    PROVE  \E s \in Seq(Components), z \in Components : t = Append(s, z)
  BY SequenceEmptyOrAppend

LEMMA RestOf ==
    ASSUME NEW s \in Seq(Components), NEW t \in Seq(Components), IsPrefix(s, t)
    PROVE  /\ SubSeq(t, Len(s) + 1, Len(t)) \in Seq(Components)
           /\ t = s \o SubSeq(t, Len(s) + 1, Len(t))
  <1>1. PICK n \in Nat, k \in Nat : n = Len(s) /\ k = Len(t)
    BY Elements
  <1>2. n <= k /\ \A i \in 1 .. n : s[i] = t[i]
    BY <1>1, PrefixIs
  <1>3. \A i \in 1 .. k : t[i] \in Components
    BY <1>1, Elements
  <1>4. PICK r : r = SubSeq(t, n + 1, k)
    OBVIOUS
  <1>5. /\ r \in Seq(Components) /\ Len(r) = k - n
        /\ \A i \in 1 .. k - n : r[i] = t[n + i]
    <2>1. \A i \in n + 1 .. k : t[i] \in Components
      BY <1>3
    <2>2. n + 1 \in Int /\ k \in Int
      BY <1>1
    <2> QED  BY <1>1, <1>2, <1>4, <2>1, <2>2, SubSeqProperties
  <1>6. /\ s \o r \in Seq(Components) /\ Len(s \o r) = k
        /\ \A i \in 1 .. k : (s \o r)[i] = IF i <= n THEN s[i] ELSE r[i - n]
    <2>1. /\ s \o r \in Seq(Components) /\ Len(s \o r) = Len(s) + Len(r)
          /\ \A i \in 1 .. Len(s) + Len(r) : (s \o r)[i] = IF i <= Len(s) THEN s[i] ELSE r[i - Len(s)]
      BY <1>5, ConcatProperties
    <2>2. Len(s) + Len(r) = k
      BY <1>1, <1>5
    <2> QED  BY Zenon, <1>1, <2>1, <2>2
  <1>7. \A i \in 1 .. k : (s \o r)[i] = t[i]
    <2> SUFFICES ASSUME NEW i \in 1 .. k
                 PROVE  (s \o r)[i] = t[i]
      OBVIOUS
    <2>1. CASE i <= n
      BY <1>1, <1>2, <1>6, <2>1
    <2>2. CASE i > n
      <3>1. i - n \in 1 .. k - n /\ n + (i - n) = i /\ ~(i <= n)
        BY <1>1, <2>2
      <3>2. r[i - n] = t[i]
        BY <1>5, <3>1
      <3> QED  BY <1>6, <3>1, <3>2
    <2>3. i <= n \/ i > n
      BY n \in Nat, i \in Nat
    <2> QED  BY ONLY <2>1, <2>2, <2>3
  <1>8. s \o r = t
    BY <1>1, <1>6, <1>7, SeqEqual
  <1> QED  BY <1>1, <1>4, <1>5, <1>8

\* What my_rename leaves: an object that is under the old name is under the new one.
Relocates(g, n1, n2) ==
    /\ \A q \in DOMAIN g :
         \/ q \in DOMAIN host /\ ~IsPrefix(n1, q)
         \/ \E r \in Seq(Components) : n1 \o r \in DOMAIN host /\ q = n2 \o r
    /\ \A q \in DOMAIN host : ~IsPrefix(n1, q) => q \in DOMAIN g
    /\ \A r \in Seq(Components) : n1 \o r \in DOMAIN host => n2 \o r \in DOMAIN g
LEMMA RenamedObjects ==
    ASSUME Lettered(host), NEW n1 \in Seq(Components), NEW n2 \in Seq(Components), NEW g, g = Renamed(n1, n2)
    PROVE  Relocates(g, n1, n2)
  <1> DEFINE new(q) == IF IsPrefix(n1, q) THEN n2 \o SubSeq(q, Len(n1) + 1, Len(q)) ELSE q
  <1>1. DOMAIN g = {new(q) : q \in DOMAIN host}
    BY Zenon DEF Renamed
  <1>2. \A q \in DOMAIN host : ~IsPrefix(n1, q) => new(q) = q
    OBVIOUS
  <1>3. ASSUME NEW q \in DOMAIN host, IsPrefix(n1, q)
        PROVE  \E r \in Seq(Components) : q = n1 \o r /\ new(q) = n2 \o r
    <2>1. q \in Seq(Components)
      BY DEF Lettered
    <2>2. PICK r : r = SubSeq(q, Len(n1) + 1, Len(q))
      OBVIOUS
    <2>3. r \in Seq(Components) /\ q = n1 \o r
      BY <1>3, <2>1, <2>2, RestOf
    <2>4. new(q) = n2 \o r
      BY <1>3, <2>2
    <2> HIDE DEF new
    <2> QED  BY <2>3, <2>4
  <1> HIDE DEF new
  <1>4. ASSUME NEW r \in Seq(Components), n1 \o r \in DOMAIN host
        PROVE  n2 \o r \in DOMAIN g
    <2>1. IsPrefix(n1, n1 \o r)
      BY PrefixJoined
    <2>2. PICK x \in Seq(Components) : n1 \o r = n1 \o x /\ new(n1 \o r) = n2 \o x
      BY <1>3, <1>4, <2>1
    <2>3. x = r
      BY <2>2, ConcatSimplifications
    <2> QED  BY <1>1, <1>4, <2>2, <2>3
  <1>5. ASSUME NEW q \in DOMAIN g
        PROVE  \/ q \in DOMAIN host /\ ~IsPrefix(n1, q)
               \/ \E r \in Seq(Components) : n1 \o r \in DOMAIN host /\ q = n2 \o r
    <2>1. PICK o \in DOMAIN host : q = new(o)
      BY <1>1
    <2> QED  BY <1>2, <1>3, <2>1
  <1>6. \A q \in DOMAIN host : ~IsPrefix(n1, q) => q \in DOMAIN g
    BY <1>1, <1>2
  <1> QED  BY <1>4, <1>5, <1>6 DEF Relocates

LEMMA RenamedRooted ==
    ASSUME Lettered(host), Rooted(host), NEW n1 \in Seq(Components), NEW n2 \in Seq(Components),
           n1 # <<>>, Front(n2) \in DOMAIN host, n2 # <<>>, ~IsPrefix(n1, n2), n1 \in DOMAIN host,
           NEW g, g = Renamed(n1, n2)
    PROVE  Rooted(g)
  <1>1. Relocates(g, n1, n2)
    BY RenamedObjects
  <1>2. ASSUME NEW q \in Seq(Components), q # <<>>, ~IsPrefix(n1, q), Front(q) \in DOMAIN host
        PROVE  Front(q) \in DOMAIN g
    <2>1. PICK s \in Seq(Components), z \in Components : q = Append(s, z)
      BY <1>2, EndOfJoin
    <2>2. Front(q) = s /\ IsPrefix(s, q)
      BY <2>1, FrontOfChild, PrefixOfChild
    <2>3. ~IsPrefix(n1, s)
      <3>1. Len(n1) \in Nat /\ Len(s) \in Nat /\ Len(q) \in Nat
        BY <1>2, Elements
      <3> QED  BY <1>2, <2>2, <3>1, PrefixIs
    <2> QED  BY <1>1, <1>2, <2>2, <2>3 DEF Relocates
  <1> SUFFICES ASSUME NEW q \in DOMAIN g, q # <<>>
               PROVE  Front(q) \in DOMAIN g
    BY DEF Rooted
  <1>3. CASE q \in DOMAIN host /\ ~IsPrefix(n1, q)
    BY <1>2, <1>3 DEF Rooted, Lettered
  <1>4. CASE \E r \in Seq(Components) : n1 \o r \in DOMAIN host /\ q = n2 \o r
    <2>1. PICK r \in Seq(Components) : n1 \o r \in DOMAIN host /\ q = n2 \o r
      BY <1>4
    <2>2. CASE r = <<>>
      <3>1. q = n2
        BY <2>1, <2>2, ConcatEmptySeq
      <3> QED  BY <1>2, <3>1
    <2>3. CASE r # <<>>
      <3>1. PICK s \in Seq(Components), z \in Components : r = Append(s, z)
        BY <2>3, EndOfJoin
      <3>2. Front(q) = n2 \o s /\ Front(n1 \o r) = n1 \o s /\ n1 \o r # <<>>
        BY <2>1, <3>1, JoinEnds
      <3> QED  BY <1>1, <2>1, <3>2 DEF Rooted, Relocates
    <2> QED  BY <2>2, <2>3
  <1> QED  BY <1>1, <1>3, <1>4 DEF Relocates

\* A child of the directory s is n2 or s is n2 or under it.
Beneath(s, x, n, r) == \E t \in Seq(Components) : s = n \o t /\ r = Append(t, x)
LEMMA ChildOfJoin ==
    \A s, n2, r \in Seq(Components), x \in Components :
       Append(s, x) = n2 \o r =>
          (r = <<>> /\ Append(s, x) = n2) \/ Beneath(s, x, n2, r)
  <1> SUFFICES ASSUME NEW s \in Seq(Components), NEW n2 \in Seq(Components), NEW r \in Seq(Components),
                      NEW x \in Components, Append(s, x) = n2 \o r
               PROVE  \/ r = <<>> /\ Append(s, x) = n2
                      \/ Beneath(s, x, n2, r)
    OBVIOUS
  <1>1. CASE r = <<>>
    BY <1>1, ConcatEmptySeq
  <1>2. CASE r # <<>>
    <2>1. PICK t \in Seq(Components), z \in Components : r = Append(t, z)
      BY <1>2, EndOfJoin
    <2>2. n2 \o Append(t, z) = Append(n2 \o t, z) /\ n2 \o t \in Seq(Components)
      BY ONLY n2 \in Seq(Components), <2>1, JoinAppend
    <2>3. PICK y : y = n2 \o t
      OBVIOUS
    <2>4. Append(s, x) = Append(y, z) /\ y \in Seq(Components)
      BY <2>1, <2>2, <2>3
    <2>5. s = y /\ x = z
      BY ONLY <2>1, <2>4, s \in Seq(Components), x \in Components, NamesEnd
    <2> QED  BY <2>1, <2>3, <2>5 DEF Beneath
  <1> QED  BY <1>1, <1>2

----------------------------------------------------------------------------
\* Renaming an object under which there is nothing and on which no loop stands.
LEMMA NoKids ==
    ASSUME NEW u, NEW d, Tree(u), d \in Live(u), Children(u, d) = {}
    PROVE  u.ino[d].kids = <<>>
  <1>1. u.ino[d].kids \in Seq(Nat) /\ ToSet(u.ino[d].kids) = {}
    BY InodeIs DEF Tree
  <1> QED  BY <1>1, Elements

LEMMA FullName ==
    ASSUME NEW u, NEW p, Tree(u), p \in Live(u)
    PROVE  u.ino[p].nname \in Seq(Components)
  BY InodeIs DEF Nodes

LEMMA ReplacedMarks ==
    ASSUME NEW w, NEW r, NEW a1 \in Live(w), NEW a2 \in Live(w), Tree(w), Tree(r), Replaced(w, r, a1, a2),
           Marks(w), a1 # a2, Children(w, a1) = {}
    PROVE  Marks(r)
  <1>1. w.ino[a1].kids = <<>> /\ w.total \in Int /\ r.total = w.total
    BY NoKids, Parts DEF Tree, Replaced
  <1>2. ASSUME NEW q \in Live(r), NEW n, NEW m, n = w.ino[IF q = a2 THEN a1 ELSE q], m = r.ino[q]
        PROVE  Watching(m) /\ m.locked = n.locked /\ n.locked \in Nat
    <2>1. q \in Live(w) /\ Holds(n, m) /\ m.kids = Without(n.kids, {a1})
      BY <1>2 DEF Replaced
    <2>2. n.kids \in Seq(Nat) /\ Watching(n)
      BY <1>2, <2>1, InodeIs DEF Marks
    <2>3. Len(Without(n.kids, {a1})) <= Len(n.kids)
      BY <2>2, RemovedOrder
    <2>4. Len(n.kids) \in Nat /\ Len(Without(n.kids, {a1})) \in Nat
      BY <2>2, Removed, Elements
    <2>5. m.exnext = n.exnext /\ m.locked = n.locked
      BY <2>1 DEF Holds
    <2>6. PICK i, k : i = Len(n.kids) /\ k = Len(m.kids)
      OBVIOUS
    <2> QED  BY <2>1, <2>2, <2>3, <2>4, <2>5, <2>6 DEF Watching
  <1>3. \A q \in Live(r) : Watching(r.ino[q]) /\ r.ino[q].locked \in Nat
    BY <1>2
  <1>4. r.ino[a2].locked = w.ino[a1].locked /\ w.ino[a1].locked \in Nat /\ a2 \in Live(r)
    BY <1>2 DEF Replaced
  <1>5. \A q \in Live(r) \ {a2} : q \in Live(w) \ {a1} /\ r.ino[q].locked = w.ino[q].locked
    BY <1>2 DEF Replaced
  <1>6. Covered(r)
    <2>1. \A q \in Live(w) : w.ino[q].locked \in Nat
      BY DEF Marks, Watching
    <2>2. r.ino[a2].locked - w.ino[a1].locked <= r.total - w.total
      BY <1>1, <1>4
    <2>3. \A q \in Live(r) \ {a2} : q \in Live(w) \ {a1} /\ r.ino[q].locked <= w.ino[q].locked
      BY <1>3, <1>5
    <2>4. Covered(w)
      BY DEF Marks
    <2> QED  BY ONLY <1>3, <1>4, <2>1, <2>2, <2>3, <2>4, Tree(w), Tree(r), a1 \in Live(w), CoveredMoves
  <1> QED  BY <1>3, <1>6 DEF Marks

LEMMA MovedComplete ==
    ASSUME Plain, Lettered(host), Rooted(host), NEW w, NEW r, NEW a1 \in Live(w), NEW a2 \in Live(w), Tree(w),
           Tree(r), Replaced(w, r, a1, a2), a1 # a2, a2 # Root, Children(w, a1) = {}, Children(w, a2) = {},
           w.ino[a1].dir = w.ino[a2].dir, NEW n1, NEW n2, n1 = w.ino[a1].nname, n2 = w.ino[a2].nname,
           n1 = n2 \/ n2 \notin DOMAIN host, NEW g, g = IF n1 = n2 THEN host ELSE Renamed(n1, n2),
           Sited(r, g, {}), Complete(w, host)
    PROVE  Complete(r, g)
  <1> SUFFICES ASSUME NEW d \in Live(r), NEW x \in Names, r.ino[d].dir, r.ino[d].exnext > 0,
                      Append(r.ino[d].nname, x) \in DOMAIN g
               PROVE  Named(r, d, x)
    BY DEF Complete
  <1>1. /\ Live(r) = Live(w) \ {a1} /\ a2 \in Live(r) /\ d \in Live(w)
        /\ \A q \in Live(r) : /\ Kin(w.ino[q], r.ino[q])
                              /\ q # a2 => r.ino[q].exnext = w.ino[q].exnext
        /\ r.ino[a2].exnext = w.ino[a1].exnext
    BY DEF Replaced, Holds, Kin
  <1>2. n1 \in Seq(Components) /\ n2 \in Seq(Components) /\ x \in Components
    <2>1. w.ino[a1].nname \in Seq(Components) /\ w.ino[a2].nname \in Seq(Components)
      BY FullName
    <2> QED  BY <2>1 DEF Components
  <1>3. PICK s, path : s = r.ino[d].nname /\ path = Append(s, x)
    OBVIOUS
  <1>4. s \in Seq(Components) /\ path \in Seq(Components) /\ path \in DOMAIN g /\ s = w.ino[d].nname
    <2>1. s \in Seq(Components)
      BY <1>3, FullName
    <2> QED  BY <1>1, <1>2, <1>3, <2>1, AppendProperties DEF Kin
  <1>5. CASE path = n2
    <2>1. /\ r.ino[a2].nname = n2 /\ r.ino[a2].parent \in Live(r) /\ r.ino[a2].name \in Components
          /\ r.ino[r.ino[a2].parent].nname \in Seq(Components)
          /\ r.ino[a2].nname = Append(r.ino[r.ino[a2].parent].nname, r.ino[a2].name)
      <3>1. Plain /\ Tree(r) /\ a2 \in Live(r) /\ a2 # Root
        BY <1>1
      <3>2. r.ino[a2].nname = n2
        BY <1>1 DEF Kin
      <3>3. /\ r.ino[a2].parent \in Live(r) /\ r.ino[a2].name \in Components
            /\ r.ino[r.ino[a2].parent].nname \in Seq(Components)
            /\ r.ino[a2].nname = Append(r.ino[r.ino[a2].parent].nname, r.ino[a2].name)
        BY ONLY <3>1, NameOf
      <3> QED  BY <3>2, <3>3
    <2>2. PICK t, y : t = r.ino[r.ino[a2].parent].nname /\ y = r.ino[a2].name
      OBVIOUS
    <2>3. t = s /\ y = x
      <3>1. t \in Seq(Components) /\ y \in Components /\ Append(s, x) = Append(t, y)
        BY <1>3, <1>5, <2>1, <2>2
      <3> QED  BY ONLY <1>2, <1>4, <3>1, NamesEnd
    <2>4. r.ino[a2].parent = d
      BY <1>3, <2>1, <2>2, <2>3 DEF Sited
    <2> QED  BY <1>1, <2>2, <2>3, <2>4 DEF Named, Children
  <1>6. ASSUME d # a2, path \in DOMAIN host, path # n1
        PROVE  Named(r, d, x)
    <2>1. w.ino[d].dir /\ w.ino[d].exnext > 0
      BY <1>1, <1>6 DEF Kin
    <2>2. Named(w, d, x)
      BY <1>1, <1>3, <1>4, <1>6, <2>1 DEF Complete
    <2>3. PICK c \in Children(w, d) : w.ino[c].name = x
      BY <2>2 DEF Named
    <2>4. c # a1
      <3>1. ASSUME c = a1
            PROVE  FALSE
        <4>1. w.ino[a1].parent = d /\ w.ino[a1].name = x
          BY <2>3, <3>1 DEF Children
        <4>0. a1 # Root
          <5>1. w.ino[Root].parent = None /\ d \in Nat
            BY <1>1, InodeIs DEF Tree
          <5> QED  BY <4>1, <5>1 DEF None
        <4>2. n1 = Append(s, x)
          <5>1. w.ino[a1].nname = Append(w.ino[w.ino[a1].parent].nname, w.ino[a1].name)
            BY ONLY <4>0, Plain, Tree(w), a1 \in Live(w), NameOf
          <5> QED  BY <1>4, <4>1, <5>1
        <4> QED  BY <1>3, <1>6, <4>2
      <3> QED  BY <3>1
    <2>5. c \in Live(r) /\ Kin(w.ino[c], r.ino[c])
      BY <1>1, <2>3, <2>4 DEF Children
    <2> QED  BY <2>3, <2>5 DEF Named, Children, Kin
  <1>7. ASSUME d = a2
        PROVE  Append(n1, x) \notin DOMAIN host
    <2>1. w.ino[a1].dir /\ w.ino[a1].exnext > 0
      BY <1>1, <1>7 DEF Kin
    <2>2. ~Named(w, a1, x)
      BY DEF Named
    <2> QED  BY <2>1, <2>2 DEF Complete
  <1>8. CASE n1 = n2
    <2>1. path \in DOMAIN host
      BY <1>4, <1>8
    <2>2. d # a2
      BY <1>1, <1>3, <1>7, <1>8, <2>1 DEF Kin
    <2> QED  BY <1>5, <1>6, <1>8, <2>1, <2>2
  <1>9. CASE n1 # n2
    <2>1. Relocates(g, n1, n2) /\ n2 \notin DOMAIN host
      BY <1>2, <1>9, RenamedObjects
    <2>2. CASE path \in DOMAIN host /\ ~IsPrefix(n1, path)
      <3>1. path # n1
        BY <2>2 DEF IsPrefix
      <3>2. d # a2
        <4>1. Front(path) = s /\ path # <<>>
          BY <1>2, <1>3, <1>4, FrontOfChild, NamesEnd
        <4>2. s \in DOMAIN host
          BY <2>2, <4>1 DEF Rooted
        <4> QED  BY <1>1, <1>4, <2>1, <4>2 DEF Kin
      <3> QED  BY <1>6, <2>2, <3>1, <3>2
    <2>3. CASE \E t \in Seq(Components) : n1 \o t \in DOMAIN host /\ path = n2 \o t
      <3>1. PICK t \in Seq(Components) : n1 \o t \in DOMAIN host /\ path = n2 \o t
        BY <2>3
      <3>2. CASE Beneath(s, x, n2, t)
        <4>1. PICK f \in Seq(Components) : s = n2 \o f /\ t = Append(f, x)
          BY <3>2 DEF Beneath
        <4>2. IsPrefix(n2, s)
          BY <1>2, <4>1, PrefixJoined
        <4>3. PICK p \in Live(r) : r.ino[p].nname = n2 /\ (p = d \/ Children(r, p) # {})
          BY ONLY <1>2, <1>3, <4>2, Plain, Tree(r), d \in Live(r), PrefixLive
        <4>4. p = a2
          BY <1>1, <4>3 DEF Sited, Kin
        <4>5. Children(r, a2) = {}
          BY <1>1 DEF Children, Kin
        <4>6. d = a2 /\ s = n2
          BY <1>1, <1>4, <4>3, <4>4, <4>5 DEF Kin
        <4>7. f = <<>>
          <5>1. n2 \o f = n2
            BY <4>1, <4>6
          <5> QED  BY ONLY <1>2, <5>1, f \in Seq(Components), ConcatEqualIffEmpty
        <4>8. n1 \o t = Append(n1, x)
          <5>1. n1 \o f = n1
            BY <1>2, <4>7, ConcatEmptySeq
          <5>2. n1 \o Append(f, x) = Append(n1 \o f, x)
            BY ONLY <1>2, f \in Seq(Components), JoinAppend
          <5> QED  BY <4>1, <5>1, <5>2
        <4> QED  BY <1>7, <3>1, <4>6, <4>8
      <3>3. \/ t = <<>> /\ path = n2
            \/ Beneath(s, x, n2, t)
        <4>1. Append(s, x) = n2 \o t
          BY <1>3, <3>1
        <4>2. \/ t = <<>> /\ Append(s, x) = n2
              \/ Beneath(s, x, n2, t)
          BY ONLY <1>2, <1>4, <4>1, t \in Seq(Components), ChildOfJoin
        <4> QED  BY <1>3, <4>2
      <3> QED  BY <1>5, <3>2, <3>3
    <2> QED  BY <1>4, <2>1, <2>2, <2>3 DEF Relocates
  <1> QED  BY <1>8, <1>9

\* The loops when an object got another name.
LEMMA MovedLoops ==
    ASSUME Plain, "change current" \notin Habits, Lettered(host), Tree(unit), Loops(unit, host, scan),
           NEW w, NEW a1, NEW n1, NEW a2, NEW n2, Moved(unit, w, a1, n1, a2, n2), a2 > unit.a_uniq,
           NEW r, NEW g, NEW sc, r = unit', g = host', sc = scan', Sited(r, g, {})
    PROVE  Loops(r, g, sc)
  <1>1. /\ Tree(w) /\ Tree(r) /\ Replaced(w, r, a1, a2) /\ a1 \in Live(w) /\ a2 \in Live(w)
        /\ a1 # a2 /\ a1 # Root /\ a2 # Root /\ n1 = w.ino[a1].nname /\ n2 = w.ino[a2].nname
        /\ w.ino[a1].dir = w.ino[a2].dir /\ Children(w, a1) = {} /\ Children(w, a2) = {}
        /\ Leaves(w, a1) /\ Passes(unit, w)
    BY DEF Moved, Moves, Good
  <1>2. /\ g = IF n1 = n2 THEN host ELSE Renamed(n1, n2)
        /\ sc = Pruned(r, g, n1)
        /\ n1 = n2 \/ (n1 \in DOMAIN host /\ CanCreate(n2) /\ ~IsPrefix(n1, n2))
    BY DEF Moved, Moves, Exists
  <1>3. n1 = n2 \/ n2 \notin DOMAIN host
    BY <1>2 DEF CanCreate, Exists
  <1>4. Loops(w, host, scan)
    BY <1>1, PassesLoops
  <1>5. /\ Live(r) = Live(w) \ {a1} /\ a2 \in Live(r)
        /\ \A q \in Live(r) : Kin(w.ino[q], r.ino[q])
        /\ \A q \in Live(r) \ {a2} : /\ r.ino[q].uniq = w.ino[q].uniq /\ r.ino[q].exnext = w.ino[q].exnext
                                     /\ r.ino[q].kids = Without(w.ino[q].kids, {a1})
        /\ r.ino[a2].uniq = w.ino[a1].uniq /\ r.ino[a2].exnext = w.ino[a1].exnext
    BY <1>1 DEF Replaced, Holds, Kin
  <1>6. scan \in ScanRecs /\ Marks(w) /\ Complete(w, host) /\ Rooted(host) /\ Counting(w, scan)
        /\ \A s \in Scans : Looping(w, scan[s])
    BY <1>4 DEF Loops
  <1>7. /\ sc \in ScanRecs
        /\ \A s \in Scans : /\ sc[s].st = scan[s].st /\ sc[s].dir = scan[s].dir /\ sc[s].at = scan[s].at
                            /\ sc[s].seen = scan[s].seen /\ sc[s].again = scan[s].again
                            /\ scan[s].st # "on" => sc[s] = scan[s]
        /\ \A q : Going(sc, q) = Going(scan, q)
        /\ \A s \in Scans, d \in Live(r) : scan[s].st = "on" /\ r.ino[d].uniq = scan[s].dir =>
              \A x \in sc[s].must : /\ x \in scan[s].must /\ Append(r.ino[d].nname, x) \in DOMAIN g
                                    /\ Append(r.ino[d].nname, x) # n1
    <2>1. Tree(r) /\ sc = Pruned(r, g, n1) /\ scan \in ScanRecs
      BY <1>1, <1>2, <1>6
    <2> QED  BY ONLY <2>1, PrunedIs
  <1>8. Marks(r)
    BY ONLY <1>1, <1>6, ReplacedMarks
  <1>9. Complete(r, g)
    BY ONLY <1>1, <1>2, <1>3, <1>6, Plain, Lettered(host), Sited(r, g, {}), MovedComplete
  <1>10. Counting(r, sc)
    <2> SUFFICES ASSUME NEW q \in Live(r)
                 PROVE  r.ino[q].exnext >= Cardinality(Going(sc, r.ino[q].uniq))
      BY DEF Counting
    <2>1. PICK p \in Live(w) : r.ino[q].uniq = w.ino[p].uniq /\ r.ino[q].exnext = w.ino[p].exnext
      BY <1>1, <1>5
    <2>2. w.ino[p].exnext >= Cardinality(Going(scan, w.ino[p].uniq))
      BY <1>6 DEF Counting
    <2>3. Going(sc, r.ino[q].uniq) = Going(scan, w.ino[p].uniq)
      BY <1>7, <2>1
    <2> QED  BY Zenon, <2>1, <2>2, <2>3
  <1>11. Rooted(g)
    <2>1. CASE n1 = n2
      BY <1>2, <1>6, <2>1
    <2>2. CASE n1 # n2
      <3>1. /\ n1 \in Seq(Components) /\ n2 \in Seq(Components) /\ n1 # <<>> /\ n2 # <<>>
            /\ Front(n2) \in DOMAIN host /\ ~IsPrefix(n1, n2) /\ n1 \in DOMAIN host /\ g = Renamed(n1, n2)
        BY <1>1, <1>2, <2>2, FullName, NameOf DEF CanCreate, Exists
      <3> QED  BY ONLY <1>6, <3>1, Lettered(host), RenamedRooted
    <2> QED  BY <2>1, <2>2
  <1>12. \A s \in Scans : scan[s].st = "on" => scan[s].dir # a2 /\ scan[s].at # a2
    <2>1. a2 \in Nat
      BY <1>1, InodeIs
    <2> QED  BY <2>1, NotGoing
  <1>13. w.ino[a2].uniq = a2
    <2>1. a2 \notin Live(unit)
      <3>1. Live(unit) \subseteq 0 .. unit.a_uniq /\ unit.a_uniq \in Nat
        BY Parts DEF Tree
      <3>2. PICK m \in Nat : m = unit.a_uniq
        BY <3>1
      <3>3. a2 > m /\ Live(unit) \subseteq 0 .. m
        BY <3>1, <3>2
      <3> QED  BY ONLY <3>3
    <2> QED  BY <1>1, <2>1 DEF Passes, Drifts
  <1>14. ASSUME NEW s \in Scans
         PROVE  Looping(r, sc[s])
    <2>1. CASE scan[s].st # "on"
      BY <1>6, <1>7, <2>1 DEF Looping
    <2>2. CASE scan[s].st = "on"
      <3>1. PICK d : Stands(w, d, scan[s])
        BY <1>6, <2>2 DEF Looping
      <3>2. ~scan[s].again
        BY <1>6, <2>2 DEF Looping
      <3>3. scan[s].dir # w.ino[a1].uniq /\ scan[s].at # w.ino[a1].uniq
        BY <1>1, <2>2, LeavesAlone
      <3>4. scan[s].dir # w.ino[a2].uniq /\ scan[s].at # w.ino[a2].uniq
        BY <1>12, <1>13, <2>2
      <3>5. d \in Live(w) /\ w.ino[d].uniq = scan[s].dir /\ d # a2 /\ d \in Live(r) /\ r.ino[d].uniq = scan[s].dir
        BY <1>5, <3>1, <3>3, <3>4 DEF Stands
      <3>6. \A c \in Children(w, d) : w.ino[c].uniq = scan[s].at => c \in Live(r) /\ r.ino[c].uniq = scan[s].at
        BY <1>5, <3>3, <3>4 DEF Children
      <3>7. \A x \in sc[s].must : x \in scan[s].must /\ Append(w.ino[d].nname, x) # w.ino[a1].nname
        <4>1. \A x \in sc[s].must : x \in scan[s].must /\ Append(r.ino[d].nname, x) # n1
          BY ONLY <1>7, <2>2, <3>5, s \in Scans
        <4>2. r.ino[d].nname = w.ino[d].nname
          BY <1>5, <3>5 DEF Kin
        <4> QED  BY <1>1, <4>1, <4>2
      <3>8. PICK l, m : l = scan[s] /\ m = sc[s]
        OBVIOUS
      <3>9. Stands(r, d, m)
        <4>1. m.dir = l.dir /\ m.at = l.at /\ m.seen = l.seen
          BY <1>7, <3>8
        <4>2. r.ino[d].exnext = w.ino[d].exnext /\ r.ino[d].kids = Without(w.ino[d].kids, {a1})
          BY <1>5, <3>5
        <4> QED  BY ONLY Plain, <1>1, <1>5, <3>1, <3>5, <3>6, <3>7, <3>8, <4>1, <4>2, StandsWithout
      <3> QED  BY <1>7, <2>2, <3>2, <3>8, <3>9 DEF Looping
    <2> QED  BY <2>1, <2>2
  <1> QED  BY <1>7, <1>8, <1>9, <1>10, <1>11, <1>14 DEF Loops

LEMMA EmptyNoKids ==
    ASSUME Plain, NEW u, NEW p, Tree(u), p \in Live(u), p # Root, Sited(u, host, {}), Empty(u.ino[p].nname)
    PROVE  u.ino[p].kids = <<>>
  <1> SUFFICES ASSUME NEW q \in Live(u), u.ino[q].parent = p
               PROVE  FALSE
    BY NoKids DEF Children
  <1>1. q # Root
    <2>1. u.ino[Root].parent = None /\ p \in Nat
      BY InodeIs DEF Tree
    <2> QED  BY <2>1 DEF None
  <1>2. /\ u.ino[q].name \in Components /\ u.ino[u.ino[q].parent].nname \in Seq(Components)
        /\ u.ino[q].nname = Append(u.ino[u.ino[q].parent].nname, u.ino[q].name)
    BY ONLY <1>1, Plain, Tree(u), q \in Live(u), NameOf
  <1>3. IsPrefix(u.ino[p].nname, u.ino[q].nname) /\ u.ino[p].nname # u.ino[q].nname
    BY <1>2, PrefixOfChild
  <1>4. u.ino[q].nname \in DOMAIN host
    BY DEF Sited, At
  <1> QED  BY <1>3, <1>4 DEF Empty

\* The loops after a packet that is not one of theirs.
LEMMA SteppedLoops ==
    ASSUME Plain, "change current" \notin Habits, Good(unit, locks, keys), Sited(unit, host, {}),
           Lettered(host), Loops(unit, host, scan), Stepped(unit), Settled
    PROVE  unit'.wild \/ Loops(unit', host', scan')
  <1>1. PICK r, g, sc : r = unit' /\ g = host' /\ sc = scan'
    OBVIOUS
  <1>2. CASE unit'.wild
    BY <1>2
  <1>3. CASE ~unit'.wild
    <2>1. Tree(unit) /\ Tree(r) /\ Sited(r, g, {})
      BY <1>1, <1>3 DEF Settled, Stepped, Kept, KeptFrom, Good
    <2>2. CASE KeptFrom(unit)
      <3>1. Passes(unit, r) /\ sc = scan
        BY <1>1, <2>2 DEF KeptFrom
      <3>2. Loops(r, host, scan)
        BY <2>1, <3>1, PassesLoops
      <3>3. CASE g = host
        BY <1>1, <3>1, <3>2, <3>3
      <3>4. CASE \E p \in Live(r) \ {Root} : \E kind : g = With(host, r.ino[p].nname, kind)
        <4>1. PICK p \in Live(r) \ {Root} : \E kind : g = With(host, r.ino[p].nname, kind)
          BY <3>4
        <4>2. PICK kind : g = With(host, r.ino[p].nname, kind)
          BY <4>1
        <4>3. Loops(r, g, scan)
          BY <2>1, <3>2, <4>2, GrownLoops
        <4> QED  BY <1>1, <3>1, <4>3
      <3> QED  BY <1>1, <2>2, <3>3, <3>4 DEF KeptFrom, Grows
    <2>3. CASE \E v, p : Looks(unit, v) /\ Deletes(v, p)
      <3>1. PICK v, p : Looks(unit, v) /\ Deletes(v, p)
        BY <2>3
      <3>2. PICK path : path = v.ino[p].nname
        OBVIOUS
      <3>3. /\ Tree(v) /\ p \in Live(v) /\ p # Root /\ Leaves(v, p) /\ Empty(path)
            /\ v.ino[p].kids = <<>> => Gone(v, r, p)
            /\ g = Free(host, path) /\ sc = Pruned(r, g, path)
        BY <1>1, <3>1, <3>2 DEF Deletes
      <3>4. Sited(v, host, {}) /\ Loops(v, host, scan)
        BY <2>1, <3>1, <3>3, SitedLooks, LooksPasses, PassesLoops
      <3>5. v.ino[p].kids = <<>>
        BY <3>2, <3>3, <3>4, EmptyNoKids
      <3>6. Loops(r, g, sc)
        BY ONLY Plain, "change current" \notin Habits, Lettered(host), <2>1, <3>2, <3>3, <3>4, <3>5, DeletedLoops
      <3> QED  BY <1>1, <3>6
    <2>4. CASE \E w, a1, n1, a2, n2 : Moved(unit, w, a1, n1, a2, n2) /\ a2 > unit.a_uniq
      <3>1. PICK w, a1, n1, a2, n2 : Moved(unit, w, a1, n1, a2, n2) /\ a2 > unit.a_uniq
        BY <2>4
      <3>2. Loops(r, g, sc)
        BY <1>1, <2>1, <3>1, MovedLoops
      <3> QED  BY <1>1, <3>2
    <2> QED  BY <2>2, <2>3, <2>4 DEF Stepped
  <1> QED  BY <1>2, <1>3

----------------------------------------------------------------------------
(* Examine and ExNext themselves. *)
LEMMA RemarkedNodes ==
    ASSUME NEW u, NEW v, NEW d \in Live(u), Tree(u), Remarks(u, v, d)
    PROVE  /\ Tree(v) /\ Cached(v, None) /\ Live(v) = Live(u)
           /\ \A q \in Live(u) : Placed(u.ino[q], v.ino[q]) /\ v.ino[q].kids = u.ino[q].kids
           /\ \A q \in Live(u) \ {d} : v.ino[q] = u.ino[q]
           /\ \A q : Children(v, q) = Children(u, q)
  <1>1. /\ Tree(v) /\ Cached(v, None) /\ Live(v) = Live(u)
        /\ \A q \in Live(u) \ {d} : v.ino[q] = u.ino[q]
        /\ v.ino[d].kids = u.ino[d].kids
        /\ Same(u.ino[d], v.ino[d])
    BY DEF Remarks, Sees, Keeps
  <1>2. \A q \in Live(u) : Placed(u.ino[q], v.ino[q]) /\ v.ino[q].kids = u.ino[q].kids
    BY <1>1 DEF Placed, Same
  <1>3. \A q : Children(v, q) = Children(u, q)
    BY <1>1, <1>2 DEF Children, Placed
  <1> QED  BY <1>1, <1>2, <1>3

LEMMA RemarkedMarks ==
    ASSUME NEW u, NEW v, NEW d \in Live(u), Tree(u), Remarks(u, v, d), Marks(u), Watching(v.ino[d])
    PROVE  Marks(v)
  <1>1. Tree(v) /\ Live(v) = Live(u) /\ \A q \in Live(u) \ {d} : v.ino[q] = u.ino[q]
    BY RemarkedNodes
  <1>2. \A q \in Live(u) : u.ino[q].locked \in Nat
    BY DEF Marks, Watching
  <1>3. \A q \in Live(v) : Watching(v.ino[q]) /\ v.ino[q].locked \in Nat
    BY <1>1 DEF Marks, Watching
  <1>4. v.ino[d].locked - u.ino[d].locked <= v.total - u.total
    <2>1. PICK a \in Int, b \in Int : a = u.total /\ b = v.total
      BY <1>1, InodeIs
    <2>2. PICK i \in Nat, k \in Nat : i = u.ino[d].locked /\ k = v.ino[d].locked
      BY <1>1, <1>2, <1>3
    <2>3. b - a = k - i
      BY <2>1, <2>2 DEF Remarks
    <2> QED  BY <2>1, <2>2, <2>3
  <1>5. \A q \in Live(v) \ {d} : q \in Live(u) \ {d} /\ v.ino[q].locked <= u.ino[q].locked
    BY <1>1, <1>2
  <1>6. Covered(v)
    <2>1. Covered(u) /\ d \in Live(v)
      BY <1>1 DEF Marks
    <2>2. \A q \in Live(v) : v.ino[q].locked \in Nat
      BY <1>3
    <2> QED  BY ONLY <1>1, <1>2, <1>4, <1>5, <2>1, <2>2, Tree(u), d \in Live(u), CoveredMoves
  <1> QED  BY <1>3, <1>6 DEF Marks

LEMMA RemarkedLooping ==
    ASSUME NEW u, NEW v, NEW d \in Live(u), Tree(u), Remarks(u, v, d), NEW l, Looping(u, l),
           \/ v.ino[d].exnext > 0 \/ l.st # "on" \/ l.dir # u.ino[d].uniq \/ l.at = l.dir
    PROVE  Looping(v, l)
  <1>1. CASE l.st # "on"
    BY <1>1 DEF Looping
  <1>2. CASE l.st = "on"
    <2>1. PICK p : Stands(u, p, l)
      BY <1>2 DEF Looping
    <2>2. /\ Live(v) = Live(u)
          /\ \A q \in Live(u) : Placed(u.ino[q], v.ino[q]) /\ v.ino[q].kids = u.ino[q].kids
          /\ \A q \in Live(u) \ {d} : v.ino[q] = u.ino[q]
          /\ \A q : Children(v, q) = Children(u, q)
      BY RemarkedNodes
    <2>3. p \in Live(u) /\ u.ino[p].uniq = l.dir /\ u.ino[p].dir
      BY <2>1 DEF Stands
    <2>4. p \in Live(v) /\ v.ino[p].uniq = l.dir /\ v.ino[p].dir
      BY <2>2, <2>3 DEF Placed
    <2>5. ASSUME NEW c, On(u, p, c, l), l.at # l.dir
          PROVE  On(v, p, c, l)
      <3>1. v.ino[p].exnext > 0
        BY <1>2, <2>2, <2>3, <2>5 DEF On
      <3>2. c \in Children(v, p) /\ v.ino[c].uniq = l.at
        BY <2>2, <2>5 DEF On, Children, Placed
      <3>3. \A e \in Children(u, p) : v.ino[e].name = u.ino[e].name
        BY <2>2 DEF Children, Placed
      <3>4. Ahead(v, p, c, l.must, l.seen)
        BY <2>2, <2>3, <2>5, <3>3 DEF On, Ahead
      <3> QED  BY <3>1, <3>2, <3>4 DEF On
    <2>6. Stands(v, p, l)
      BY <2>1, <2>4, <2>5 DEF Stands
    <2> QED  BY <1>2, <2>6 DEF Looping
  <1> QED  BY <1>1, <1>2

LEMMA GoingSome ==
    ASSUME NEW sc, NEW q, NEW s \in Going(sc, q)
    PROVE  Cardinality(Going(sc, q)) > 0
  <1>1. IsFiniteSet(Going(sc, q)) /\ Cardinality(Going(sc, q)) \in Nat
    BY GoingIs
  <1>2. Cardinality(Going(sc, q)) # 0
    BY <1>1, FS_EmptySet
  <1> QED  BY ONLY <1>1, <1>2

\* The end of a loop: free_exkey.
LEMMA FreedLoops ==
    ASSUME NEW u, NEW d \in Live(u), NEW h, NEW sc, NEW sd \in ScanRecs, Tree(u), Cached(u, None),
           Loops(u, h, sc), \A t \in Scans : sd[t] = sc[t] \/ sd[t] = NoScan,
           u.ino[d].exnext > Cardinality(Going(sd, u.ino[d].uniq)), NEW v, v = free_exkey(u, d)
    PROVE  Loops(v, h, sd)
  <1>1. /\ Remarks(u, v, d) /\ v.ino[d].exnext = u.ino[d].exnext - 1
        /\ v.ino[d].locked = IF u.ino[d].exnext = 1 THEN 0 ELSE u.ino[d].locked
    BY FreeExkeyIs
  <1>2. /\ Live(v) = Live(u)
        /\ \A q \in Live(u) : Placed(u.ino[q], v.ino[q]) /\ v.ino[q].kids = u.ino[q].kids
        /\ \A q \in Live(u) \ {d} : v.ino[q] = u.ino[q]
        /\ \A q : Children(v, q) = Children(u, q)
    BY <1>1, RemarkedNodes
  <1>3. PICK k \in Nat : k = Cardinality(Going(sd, u.ino[d].uniq))
    BY GoingIs
  <1>4. PICK n \in Nat : n = u.ino[d].exnext /\ n > k /\ n <= MaxExNext
    BY <1>3 DEF Loops, Marks, Watching
  <1>5. Marks(v)
    <2>1. Watching(u.ino[d])
      BY DEF Loops, Marks
    <2>2. v.ino[d].kids = u.ino[d].kids /\ Len(u.ino[d].kids) \in Nat
      BY <1>2, InodeIs, Elements
    <2>3. Watching(v.ino[d])
      <3>1. u.ino[d].locked \in Nat /\ u.ino[d].locked >= Len(v.ino[d].kids)
        BY <1>4, <2>1, <2>2 DEF Watching
      <3>2. v.ino[d].exnext \in 0 .. MaxExNext /\ (v.ino[d].exnext = 0 <=> n = 1)
        <4>1. PICK m : m = v.ino[d].exnext
          OBVIOUS
        <4>2. m = n - 1
          BY <1>1, <1>4, <4>1
        <4>3. MaxExNext \in Nat
          BY TreeAssumption
        <4>4. m \in 0 .. MaxExNext /\ (m = 0 <=> n = 1)
          BY ONLY <1>3, <1>4, <4>2, <4>3, n \in Nat, k \in Nat
        <4> QED  BY <4>1, <4>4
      <3>3. v.ino[d].locked = IF n = 1 THEN 0 ELSE u.ino[d].locked
        BY <1>1, <1>4
      <3> QED  BY <3>1, <3>2, <3>3 DEF Watching
    <2> QED  BY <1>1, <2>3, RemarkedMarks DEF Loops
  <1>6. Complete(v, h)
    <2>1. \A e \in Live(u) : v.ino[e].exnext > 0 => u.ino[e].exnext > 0
      BY <1>1, <1>2, <1>4
    <2>2. \A e \in Live(u) : \A x : Named(u, e, x) => Named(v, e, x)
      BY <1>2 DEF Named, Children, Placed
    <2> QED  BY <1>2, <2>1, <2>2 DEF Loops, Complete, Placed
  <1>7. \A q : Going(sd, q) \subseteq Going(sc, q)
    BY DEF Going, NoScan
  <1>8. Counting(v, sd)
    <2> SUFFICES ASSUME NEW p \in Live(u)
                 PROVE  v.ino[p].exnext >= Cardinality(Going(sd, v.ino[p].uniq))
      BY <1>2 DEF Counting
    <2>1. v.ino[p].uniq = u.ino[p].uniq
      BY <1>2 DEF Placed
    <2>2. CASE p = d
      <3>1. v.ino[p].exnext = n - 1
        BY <1>1, <1>4, <2>2
      <3>2. Cardinality(Going(sd, v.ino[p].uniq)) = k
        BY <1>3, <2>1, <2>2
      <3> QED  BY ONLY <1>4, <3>1, <3>2
    <2>3. CASE p # d
      <3>1. v.ino[p].exnext = u.ino[p].exnext /\ u.ino[p].exnext \in Int
        BY <1>2, <2>3, InodeIs
      <3>2. u.ino[p].exnext >= Cardinality(Going(sc, u.ino[p].uniq))
        BY DEF Loops, Counting
      <3>3. /\ Cardinality(Going(sd, u.ino[p].uniq)) <= Cardinality(Going(sc, u.ino[p].uniq))
            /\ Cardinality(Going(sd, u.ino[p].uniq)) \in Nat /\ Cardinality(Going(sc, u.ino[p].uniq)) \in Nat
        BY Zenon, <1>7, GoingIs
      <3> QED  BY ONLY <2>1, <3>1, <3>2, <3>3
    <2> QED  BY <2>2, <2>3
  <1>9. ASSUME NEW t \in Scans
        PROVE  Looping(v, sd[t])
    <2>1. CASE sd[t] = NoScan
      BY <2>1 DEF Looping, NoScan
    <2>2. CASE sd[t] = sc[t]
      <3>1. PICK l : l = sd[t]
        OBVIOUS
      <3>2. Looping(u, l)
        BY <2>2, <3>1 DEF Loops
      <3>3. \/ v.ino[d].exnext > 0 \/ l.st # "on" \/ l.dir # u.ino[d].uniq \/ l.at = l.dir
        <4> SUFFICES ASSUME l.st = "on", l.dir = u.ino[d].uniq, l.at # l.dir
                     PROVE  v.ino[d].exnext > 0
          OBVIOUS
        <4>1. t \in Going(sd, u.ino[d].uniq)
          BY <3>1 DEF Going
        <4>2. k > 0
          BY <1>3, <4>1, GoingSome
        <4> QED  BY <1>1, <1>4, <4>2
      <3>4. Looping(v, l)
        BY <1>1, <3>2, <3>3, RemarkedLooping
      <3> QED  BY <3>1, <3>4
    <2> QED  BY <2>1, <2>2
  <1> QED  BY <1>5, <1>6, <1>8, <1>9 DEF Loops

----------------------------------------------------------------------------
(* The start of a loop: u is what the first ExNext in the directory d of v looks through. *)
Begun(v, u, d, sc) ==
    /\ Tree(u) /\ Cached(u, None) /\ d \in Live(u) /\ Sited(u, host, {})
    /\ Placed(v.ino[d], u.ino[d]) /\ u.ino[d].exnext = v.ino[d].exnext + 1 /\ v.ino[d].exnext \in Nat
    /\ Loops(u, host, sc)

\* One more loop where there are others.
LEMMA AgainLoops ==
    ASSUME NEW v, NEW d \in Live(v), Tree(v), Cached(v, None), NEW sc, Loops(v, host, sc),
           v.ino[d].exnext > 0, v.ino[d].exnext < MaxExNext,
           NEW u, u = [v EXCEPT !.ino[d].exnext = @ + 1]
    PROVE  Loops(u, host, sc)
  <1>1. /\ Remarks(v, u, d) /\ u.ino[d].exnext = v.ino[d].exnext + 1
        /\ u.ino[d].locked = v.ino[d].locked
    BY AgainIs
  <1>2. /\ Live(u) = Live(v)
        /\ \A q \in Live(v) : Placed(v.ino[q], u.ino[q]) /\ u.ino[q].kids = v.ino[q].kids
        /\ \A q \in Live(v) \ {d} : u.ino[q] = v.ino[q]
        /\ \A q : Children(u, q) = Children(v, q)
    BY ONLY <1>1, Tree(v), d \in Live(v), RemarkedNodes
  <1>3. PICK n \in Nat : n = v.ino[d].exnext /\ n > 0 /\ n < MaxExNext /\ MaxExNext \in Nat
    BY TreeAssumption DEF Loops, Marks, Watching
  <1>4. PICK m \in Nat : m = u.ino[d].exnext /\ m = n + 1
    BY <1>1, <1>3
  <1>5. Marks(u)
    <2>1. Watching(v.ino[d])
      BY DEF Loops, Marks
    <2>2. m \in 0 .. MaxExNext /\ m # 0
      BY ONLY <1>3, <1>4
    <2>3. Watching(u.ino[d])
      BY <1>1, <1>2, <1>3, <1>4, <2>1, <2>2 DEF Watching
    <2> QED  BY <1>1, <2>3, RemarkedMarks DEF Loops
  <1>6. Complete(u, host)
    <2>1. \A e \in Live(v) : u.ino[e].exnext > 0 => v.ino[e].exnext > 0
      BY <1>2
    <2>2. \A e \in Live(v) : \A x : Named(v, e, x) => Named(u, e, x)
      BY <1>2 DEF Named, Children, Placed
    <2> QED  BY <1>2, <2>1, <2>2 DEF Loops, Complete, Placed
  <1>7. Counting(u, sc)
    <2> SUFFICES ASSUME NEW p \in Live(v)
                 PROVE  u.ino[p].exnext >= Cardinality(Going(sc, u.ino[p].uniq))
      BY <1>2 DEF Counting
    <2>1. u.ino[p].uniq = v.ino[p].uniq
      BY <1>2 DEF Placed
    <2>2. PICK k \in Nat : k = Cardinality(Going(sc, v.ino[p].uniq))
      BY GoingIs
    <2>3. v.ino[p].exnext >= k
      BY <2>2 DEF Loops, Counting
    <2>4. CASE p = d
      <3>1. n >= k /\ u.ino[p].exnext = m
        BY <1>3, <1>4, <2>3, <2>4
      <3>2. m >= k
        BY ONLY <1>4, <3>1, n \in Nat, k \in Nat
      <3> QED  BY <2>1, <2>2, <2>4, <3>1, <3>2
    <2>5. CASE p # d
      BY <1>2, <2>1, <2>2, <2>3, <2>5
    <2> QED  BY <2>4, <2>5
  <1>8. ASSUME NEW t \in Scans
        PROVE  Looping(u, sc[t])
    <2>1. PICK l : l = sc[t]
      OBVIOUS
    <2>2. Looping(v, l) /\ u.ino[d].exnext > 0
      BY <1>4, <2>1 DEF Loops
    <2>3. Looping(u, l)
      BY ONLY <1>1, <2>2, Tree(v), d \in Live(v), RemarkedLooping
    <2> QED  BY <2>1, <2>3
  <1> QED  BY <1>5, <1>6, <1>7, <1>8 DEF Loops

(* populate_directory counts the children that are there: what it has then has the marks of a loop
   and a_inodes for all that the host listed before in other directories. *)
LEMMA HeldAllIs ==
    ASSUME NEW u, NEW d, Tree(u), Cached(u, None), d \in Live(u), NEW x, x = HeldAll(u, d)
    PROVE  /\ Remarks(u, x, d) /\ x.ino[d].exnext = u.ino[d].exnext
           /\ x.ino[d].locked = u.ino[d].locked + Len(u.ino[d].kids) /\ Len(u.ino[d].kids) \in Nat
  <1>1. Len(u.ino[d].kids) \in Nat /\ Len(u.ino[d].kids) \in Int
    BY InodeIs, Elements
  <1>2. Remarks(u, HeldAll(u, d), d)
    BY <1>1, HeldIs DEF HeldAll
  <1>3. HeldAll(u, d).ino[d].exnext = u.ino[d].exnext
    BY <1>1, HeldIs DEF HeldAll
  <1>4. HeldAll(u, d).ino[d].locked = u.ino[d].locked + Len(u.ino[d].kids)
    <2>1. u \in Units /\ u.ino \in [Live(u) -> Nodes]
      BY InodeIs
    <2>2. PICK n \in Nodes : n = u.ino[d]
      BY <2>1
    <2>3. PICK k \in Int : k = Len(u.ino[d].kids)
      BY <1>1
    <2>4. HeldAll(u, d).ino[d] = [n EXCEPT !.locked = @ + k]
      BY <2>1, <2>2, <2>3 DEF HeldAll, Units
    <2> QED  BY <2>2, <2>3, <2>4 DEF Nodes
  <1> QED  BY <1>1, <1>2, <1>3, <1>4

Nowhere == [q \in {<<>>} |-> "dir"]
LEMMA HeldLoops ==
    ASSUME NEW v, NEW d \in Live(v), Tree(v), Cached(v, None), NEW sc, Loops(v, host, sc),
           v.ino[d].exnext = 0, MaxExNext > 0,
           NEW again, again = [v EXCEPT !.ino[d].exnext = @ + 1], NEW x, x = HeldAll(again, d)
    PROVE  /\ Remarks(v, x, d) /\ Remarks(v, again, d) /\ x.ino[d].exnext = 1 /\ Loops(x, Nowhere, sc)
  <1>1. /\ Remarks(v, again, d) /\ again.ino[d].exnext = 1 /\ again.ino[d].locked = v.ino[d].locked
    BY AgainIs
  <1>2. Tree(again) /\ Cached(again, None) /\ d \in Live(again) /\ again.ino[d].kids = v.ino[d].kids
    BY <1>1 DEF Remarks
  <1>3. PICK old \in Nat : old = Len(again.ino[d].kids)
    BY <1>2, HeldAllIs
  <1>5. /\ Remarks(again, x, d) /\ x.ino[d].exnext = 1
        /\ x.ino[d].locked = v.ino[d].locked + old
    <2>1. Tree(again) /\ Cached(again, None) /\ d \in Live(again) /\ x = HeldAll(again, d)
      BY <1>2
    <2>2. /\ Remarks(again, x, d) /\ x.ino[d].exnext = again.ino[d].exnext
          /\ x.ino[d].locked = again.ino[d].locked + Len(again.ino[d].kids)
      BY ONLY <2>1, HeldAllIs
    <2> QED  BY <1>1, <1>3, <2>2
  <1>6. Remarks(v, x, d)
    <2>1. Sees(v, x)
      BY <1>1, <1>2, <1>5, SeesBoth DEF Remarks
    <2>2. PICK a \in Int, b \in Int, c \in Int : a = v.total /\ b = again.total /\ c = x.total
      BY <1>2, <1>5, InodeIs DEF Remarks
    <2>3. PICK i \in Int, j \in Int, k \in Int : i = v.ino[d].locked /\ j = again.ino[d].locked /\ k = x.ino[d].locked
      BY <1>2, <1>5, InodeIs DEF Remarks
    <2>4. b - a = j - i /\ c - b = k - j
      BY <1>1, <1>5, <2>2, <2>3 DEF Remarks
    <2>5. x.total - v.total = x.ino[d].locked - v.ino[d].locked
      BY <2>2, <2>3, <2>4
    <2> QED  BY <1>1, <1>5, <2>1, <2>5 DEF Remarks
  <1>7. /\ Live(x) = Live(v)
        /\ \A q \in Live(v) : Placed(v.ino[q], x.ino[q]) /\ x.ino[q].kids = v.ino[q].kids
        /\ \A q \in Live(v) \ {d} : x.ino[q] = v.ino[q]
    BY <1>6, RemarkedNodes
  <1>8. Marks(x)
    <2>1. v.ino[d].locked = 0
      BY DEF Loops, Marks, Watching
    <2>2. x.ino[d].locked = old /\ x.ino[d].kids = again.ino[d].kids
      BY <1>2, <1>3, <1>5, <1>7, <2>1
    <2>3. x.ino[d].exnext \in 0 .. MaxExNext /\ x.ino[d].exnext # 0
      BY <1>5, TreeAssumption
    <2>4. Watching(x.ino[d])
      BY <1>3, <2>2, <2>3 DEF Watching
    <2> QED  BY <1>6, <2>4, RemarkedMarks DEF Loops
  <1>9. Complete(x, Nowhere) /\ Rooted(Nowhere)
    <2>1. \A e \in Live(x), y \in Names : Append(x.ino[e].nname, y) # <<>>
      <3> SUFFICES ASSUME NEW e \in Live(x), NEW y \in Names
                   PROVE  Append(x.ino[e].nname, y) # <<>>
        OBVIOUS
      <3>1. PICK q \in Seq(Components) : q = x.ino[e].nname
        BY <1>6, FullName DEF Remarks
      <3>2. Append(q, y) # <<>>
        BY DEF Components
      <3> QED  BY <3>1, <3>2
    <2> QED  BY <2>1 DEF Complete, Rooted, Nowhere
  <1>10. Counting(x, sc)
    <2> SUFFICES ASSUME NEW p \in Live(v)
                 PROVE  x.ino[p].exnext >= Cardinality(Going(sc, x.ino[p].uniq))
      BY <1>7 DEF Counting
    <2>1. x.ino[p].uniq = v.ino[p].uniq
      BY <1>7 DEF Placed
    <2>2. PICK k \in Nat : k = Cardinality(Going(sc, v.ino[p].uniq))
      BY GoingIs
    <2>3. v.ino[p].exnext >= k
      BY <2>2 DEF Loops, Counting
    <2>4. CASE p = d
      BY <1>5, <2>1, <2>2, <2>3, <2>4
    <2>5. CASE p # d
      BY <1>7, <2>1, <2>2, <2>3, <2>5
    <2> QED  BY <2>4, <2>5
  <1>11. ASSUME NEW t \in Scans
         PROVE  Looping(x, sc[t])
    <2>1. PICK l : l = sc[t]
      OBVIOUS
    <2>2. Looping(v, l) /\ x.ino[d].exnext > 0
      BY <1>5, <2>1 DEF Loops
    <2>3. Looping(x, l)
      BY ONLY <1>6, <2>2, Tree(v), d \in Live(v), RemarkedLooping
    <2> QED  BY <2>1, <2>3
  <1>12. sc \in ScanRecs
    BY DEF Loops
  <1> QED  BY <1>1, <1>5, <1>6, <1>8, <1>9, <1>10, <1>11, <1>12 DEF Loops

\* populate_directory as a whole: afterwards d has an a_inode for each object in it as well.
LEMMA PopulatedLoops ==
    ASSUME Plain, NEW v, NEW d \in Live(v), Tree(v), Cached(v, None), NEW sc, Loops(v, host, sc),
           v.ino[d].exnext = 0, MaxExNext > 0, v.ino[d].dir,
           NEW again, again = [v EXCEPT !.ino[d].exnext = @ + 1], NEW u \in populate_directory(again, d)
    PROVE  /\ Tree(u) /\ Cached(u, None) /\ d \in Live(u) /\ Placed(v.ino[d], u.ino[d])
           /\ u.ino[d].exnext = 1 /\ Loops(u, host, sc)
  <1>1. PICK x : x = HeldAll(again, d)
    OBVIOUS
  <1>2. Remarks(v, x, d) /\ Remarks(v, again, d) /\ x.ino[d].exnext = 1 /\ Loops(x, Nowhere, sc)
    BY <1>1, HeldLoops
  <1>3. /\ Tree(again) /\ Cached(again, None) /\ d \in Live(again) /\ again.ino[d].dir
        /\ again.ino[d].nname = v.ino[d].nname
    BY <1>2, RemarkedNodes DEF Placed
  <1>4. /\ Tree(x) /\ Live(x) = Live(v)
        /\ \A q \in Live(v) : Placed(v.ino[q], x.ino[q])
        /\ \A q \in Live(v) \ {d} : x.ino[q] = v.ino[q]
        /\ \A q : Children(x, q) = Children(v, q)
    BY <1>2, RemarkedNodes
  <1>5. Scanned(x, d) /\ Marks(x)
    BY <1>2, <1>4 DEF Scanned, Loops, Placed
  <1>6. /\ Tree(u) /\ Cached(u, None) /\ Looks(x, u)
        /\ \A y \in Listed(again, d) : Named(u, d, y)
    BY <1>1, <1>3, <1>5, PopulateIs
  <1>7. Loops(u, Nowhere, sc) /\ Passes(x, u)
    BY <1>2, <1>4, <1>6, LooksPasses, PassesLoops
  <1>8. /\ \A p \in Live(x) \cap Live(u) : Placed(x.ino[p], u.ino[p]) /\ u.ino[p].exnext = x.ino[p].exnext
        /\ \A p \in Live(u) \ Live(x) : u.ino[p].exnext = 0
        /\ d \in Live(u)
    <2>1. Drifts(x, u) /\ Carries(x, u) /\ x.ino[d].dir
      BY <1>4, <1>7 DEF Passes, Placed
    <2> QED  BY <1>4, <1>5, <2>1 DEF Drifts, Carries, Follows
  <1>9. Placed(v.ino[d], u.ino[d]) /\ u.ino[d].exnext = 1
    BY <1>2, <1>4, <1>8 DEF Placed
  <1>10. Complete(u, host)
    <2> SUFFICES ASSUME NEW e \in Live(u), NEW y \in Names, u.ino[e].dir, u.ino[e].exnext > 0,
                        Append(u.ino[e].nname, y) \in DOMAIN host
                 PROVE  Named(u, e, y)
      BY DEF Complete
    <2>1. CASE e = d
      <3>1. y \in Listed(again, d)
        BY <1>3, <1>9, <2>1 DEF Listed, Exists, Placed
      <3> QED  BY <1>6, <2>1, <3>1
    <2>2. CASE e # d
      <3>1. e \in Live(x)
        BY <1>8
      <3>2. v.ino[e] = x.ino[e] /\ e \in Live(v) /\ u.ino[e].nname = v.ino[e].nname
            /\ u.ino[e].exnext = v.ino[e].exnext /\ u.ino[e].dir = v.ino[e].dir
        BY <1>4, <1>8, <2>2, <3>1 DEF Placed
      <3>3. Named(v, e, y)
        BY <3>2 DEF Loops, Complete
      <3>4. Named(x, e, y)
        BY <1>4, <3>3 DEF Named, Children, Placed
      <3>5. Scanned(x, e)
        BY <1>5, <3>1, <3>2 DEF Scanned
      <3> QED  BY <1>4, <1>6, <3>4, <3>5, KidsStay
    <2> QED  BY <2>1, <2>2
  <1> QED  BY <1>6, <1>7, <1>8, <1>9, <1>10 DEF Loops

LEMMA BegunLoops ==
    ASSUME Plain, NEW v, NEW d \in Live(v), Good(v, locks, keys), Sited(v, host, {}), NEW sc, Loops(v, host, sc),
           v.ino[d].dir, v.ino[d].exnext < MaxExNext, NEW again, again = [v EXCEPT !.ino[d].exnext = @ + 1],
           NEW u, IF v.ino[d].exnext = 0 THEN u \in populate_directory(again, d) ELSE u = again
    PROVE  Begun(v, u, d, sc)
  <1>1. Tree(v) /\ Cached(v, None)
    BY DEF Good
  <1>2. v.ino[d].exnext \in Nat
    BY DEF Loops, Marks, Watching
  <1>3. /\ Sited(again, host, {})
        /\ \A w \in populate_directory(again, d) : Good(w, locks, keys) /\ d \in Live(w) /\ Sited(w, host, {})
    BY PopulateSited
  <1>4. CASE v.ino[d].exnext = 0
    <2>1. u \in populate_directory(again, d) /\ MaxExNext > 0
      BY <1>4
    <2>2. /\ Tree(u) /\ Cached(u, None) /\ d \in Live(u) /\ Placed(v.ino[d], u.ino[d])
          /\ u.ino[d].exnext = 1 /\ Loops(u, host, sc)
      BY <1>1, <1>4, <2>1, PopulatedLoops
    <2> QED  BY <1>3, <1>4, <2>1, <2>2 DEF Begun
  <1>5. CASE v.ino[d].exnext # 0
    <2>1. Loops(u, host, sc)
      BY <1>1, <1>2, <1>5, AgainLoops
    <2>2. Remarks(v, again, d) /\ again.ino[d].exnext = v.ino[d].exnext + 1
      BY <1>1, AgainIs
    <2>3. u = again /\ Tree(u) /\ Cached(u, None) /\ d \in Live(u) /\ Placed(v.ino[d], u.ino[d])
      <3>1. Tree(again) /\ Cached(again, None) /\ Live(again) = Live(v) /\ Placed(v.ino[d], again.ino[d])
        BY ONLY <1>1, <2>2, d \in Live(v), RemarkedNodes
      <3> QED  BY <1>5, <3>1
    <2> QED  BY <1>2, <1>3, <2>1, <2>2, <2>3 DEF Begun
  <1> QED  BY <1>4, <1>5

----------------------------------------------------------------------------
(* What ExNext answers. *)
LEMMA SiblingNames ==
    ASSUME Plain, NEW u, NEW d, NEW h, Tree(u), Sited(u, h, {})
    PROVE  \A a, b \in Children(u, d) : u.ino[a].name = u.ino[b].name => a = b
  <1> SUFFICES ASSUME NEW a \in Children(u, d), NEW b \in Children(u, d), u.ino[a].name = u.ino[b].name
               PROVE  a = b
    OBVIOUS
  <1>1. a \in Live(u) /\ b \in Live(u) /\ u.ino[a].parent = d /\ u.ino[b].parent = d
    BY DEF Children
  <1>2. CASE a = Root \/ b = Root
    <2>1. \A q \in Live(u) : u.ino[q].parent = None => q = Root
      BY InodeIs, Parts DEF Tree, Under, None
    <2> QED  BY <1>1, <1>2, <2>1 DEF Tree
  <1>3. CASE a # Root /\ b # Root
    <2>1. u.ino[a].nname = u.ino[b].nname
      <3>1. u.ino[a].nname = Append(u.ino[u.ino[a].parent].nname, u.ino[a].name)
        BY <1>1, <1>3, NameOf
      <3>2. u.ino[b].nname = Append(u.ino[u.ino[b].parent].nname, u.ino[b].name)
        BY <1>1, <1>3, NameOf
      <3> QED  BY <1>1, <3>1, <3>2
    <2> QED  BY <1>1, <2>1 DEF Sited
  <1> QED  BY <1>2, <1>3

AreKids(u, d, kids) ==
    /\ kids \in Seq(Nat) /\ Len(kids) \in Nat
    /\ \A i \in 1 .. Len(kids) : kids[i] \in Children(u, d) /\ kids[i] \in Nat
    /\ \A c \in Children(u, d) : \E i \in 1 .. Len(kids) : kids[i] = c
    /\ \A i, k \in 1 .. Len(kids) : kids[i] = kids[k] => i = k
    /\ \A i, k \in 1 .. Len(kids) : Before(kids, kids[i], kids[k]) <=> i < k
    /\ \A a, b : Before(kids, a, b) => \E i \in 1 .. Len(kids) : \E k \in 1 .. Len(kids) : a = kids[i] /\ b = kids[k]
LEMMA KidIs ==
    ASSUME NEW u, NEW d, Tree(u), d \in Live(u), NEW kids, kids = u.ino[d].kids
    PROVE  AreKids(u, d, kids)
  <1>1. kids \in Seq(Nat) /\ ToSet(kids) = Children(u, d) /\ NoDup(kids)
    BY InodeIs DEF Tree
  <1>2. Len(kids) \in Nat /\ \A i \in 1 .. Len(kids) : kids[i] \in Nat /\ kids[i] \in ToSet(kids)
    BY <1>1, Elements
  <1>3. \A i, k \in 1 .. Len(kids) : kids[i] = kids[k] => i = k
    BY <1>1 DEF NoDup
  <1>4. \A c \in ToSet(kids) : \E i \in 1 .. Len(kids) : kids[i] = c
    BY <1>1 DEF ToSet
  <1>5. \A i, k \in 1 .. Len(kids) : Before(kids, kids[i], kids[k]) <=> i < k
    BY <1>3 DEF Before
  <1>6. \A a, b : Before(kids, a, b) => \E i \in 1 .. Len(kids) : \E k \in 1 .. Len(kids) : a = kids[i] /\ b = kids[k]
    BY DEF Before
  <1> QED  BY <1>1, <1>2, <1>3, <1>4, <1>5, <1>6 DEF AreKids

\* A loop begins at the first child.
LEMMA FirstAhead ==
    ASSUME Plain, NEW u, NEW d, Tree(u), d \in Live(u), u.ino[d].dir, u.ino[d].exnext > 0,
           Sited(u, host, {}), Complete(u, host), NEW kids, kids = u.ino[d].kids
    PROVE  /\ kids = <<>> => Listed(u, d) = {}
           /\ kids # <<>> => /\ kids[1] \in Children(u, d)
                             /\ Ahead(u, d, kids[1], Listed(u, d), {u.ino[kids[1]].name})
  <1>1. AreKids(u, d, kids)
    BY KidIs
  <1>2. \A x \in Listed(u, d) : \E e \in Children(u, d) : u.ino[e].name = x
    BY DEF Listed, Complete, Exists, Named
  <1>3. CASE kids = <<>>
    <2>1. Len(kids) = 0
      BY <1>3
    <2> QED  BY <1>1, <1>2, <1>3, <2>1 DEF AreKids
  <1>4. CASE kids # <<>>
    <2>1. 1 \in 1 .. Len(kids)
      BY <1>1, <1>4, Elements DEF AreKids
    <2>2. PICK c : c = kids[1]
      OBVIOUS
    <2>3. c \in Children(u, d)
      BY <1>1, <2>1, <2>2 DEF AreKids
    <2>4. \A e \in Children(u, d) : e # c => Before(kids, c, e)
      <3> SUFFICES ASSUME NEW e \in Children(u, d), e # c
                   PROVE  Before(kids, c, e)
        OBVIOUS
      <3>1. PICK i \in 1 .. Len(kids) : kids[i] = e
        BY <1>1 DEF AreKids
      <3>2. 1 < i
        BY <2>2, <3>1
      <3> QED  BY <1>1, <2>1, <2>2, <3>1, <3>2 DEF AreKids
    <2>5. ~Before(kids, c, c)
      BY <1>1, <2>1, <2>2 DEF AreKids
    <2>6. Ahead(u, d, c, Listed(u, d), {u.ino[c].name})
      BY <1>2, <2>3, <2>4, <2>5, SiblingNames DEF Ahead
    <2> QED  BY <1>4, <2>2, <2>3, <2>6
  <1> QED  BY <1>3, <1>4

\* It goes on at the next.
NextKid(u, d, c, f) ==
    /\ Before(u.ino[d].kids, c, f) /\ f \in Children(u, d)
    /\ \A e \in Children(u, d) : Before(u.ino[d].kids, c, e) => e = f \/ Before(u.ino[d].kids, f, e)
    /\ \A e : Before(u.ino[d].kids, f, e) => Before(u.ino[d].kids, c, e) /\ e # f
LEMMA AfterIs ==
    ASSUME NEW u, NEW d, NEW c, Tree(u), d \in Live(u), c \in Children(u, d), NEW seq, seq = After(u, c)
    PROVE  /\ seq \in Seq(Nat) /\ \A i \in 1 .. Len(seq) : seq[i] \in Children(u, d)
           /\ seq = <<>> => \A e \in Children(u, d) : ~Before(u.ino[d].kids, c, e)
           /\ seq # <<>> => NextKid(u, d, c, seq[1])
  <1>1. PICK kids : kids = u.ino[d].kids
    OBVIOUS
  <1>2. AreKids(u, d, kids)
    BY <1>1, KidIs
  <1>3. PICK n \in Nat : n = Len(kids)
    BY <1>2 DEF AreKids
  <1>4. PICK m \in 1 .. n : kids[m] = c /\ seq = SubSeq(kids, 1 + m, n)
    <2>1. u.ino[c].parent = d
      BY DEF Children
    <2>2. PICK m : m = CHOOSE i \in 1 .. n : kids[i] = c
      OBVIOUS
    <2>3. m \in 1 .. n /\ kids[m] = c
      <3>1. \E i \in 1 .. n : kids[i] = c
        BY <1>2, <1>3 DEF AreKids
      <3> QED  BY <2>2, <3>1
    <2>4. seq = SubSeq(kids, 1 + m, n)
      BY <1>1, <1>3, <2>1, <2>2 DEF After
    <2> QED  BY <2>3, <2>4
  <1>5. /\ seq \in Seq(Nat) /\ Len(seq) = n - m
        /\ \A i \in 1 .. n - m : seq[i] = kids[m + i] /\ m + i \in 1 .. n
    <2>1. n - m \in Nat /\ 1 + m \in 1 .. n + 1 /\ \A i \in 1 .. n - m : m + i \in 1 .. n /\ 1 + m + i - 1 = m + i
      OBVIOUS
    <2>2. kids \in Seq(Nat) /\ n = Len(kids)
      BY <1>2, <1>3 DEF AreKids
    <2>3. PICK a \in 1 .. n + 1 : a = 1 + m
      BY <2>1
    <2>4. /\ seq \in Seq(Nat) /\ Len(seq) = n - m
          /\ \A i \in 1 .. n - m : seq[i] = kids[a + i - 1]
      <3>1. seq = SubSeq(kids, a, n)
        BY <1>4, <2>3
      <3> QED  BY <2>2, <2>3, <3>1, SubSeqProperties
    <2> QED  BY <2>1, <2>3, <2>4
  <1>6. \A i \in 1 .. Len(seq) : seq[i] \in Children(u, d)
    BY <1>2, <1>3, <1>5 DEF AreKids
  <1>7. ASSUME seq = <<>>, NEW e \in Children(u, d)
        PROVE  ~Before(kids, c, e)
    <2>1. m = n
      BY <1>4, <1>5, <1>7
    <2>2. PICK i \in 1 .. n : kids[i] = e /\ ~(m < i)
      BY <1>2, <1>3, <2>1 DEF AreKids
    <2> QED  BY <1>2, <1>3, <1>4, <2>2 DEF AreKids
  <1>8. ASSUME seq # <<>>
        PROVE  /\ Before(kids, c, seq[1]) /\ seq[1] \in Children(u, d)
               /\ \A e \in Children(u, d) : Before(kids, c, e) => e = seq[1] \/ Before(kids, seq[1], e)
               /\ \A e : Before(kids, seq[1], e) => Before(kids, c, e) /\ e # seq[1]
    <2>1. m + 1 \in 1 .. n /\ seq[1] = kids[m + 1]
      <3>1. n - m > 0
        BY <1>5, <1>8, Elements
      <3> QED  BY <1>4, <1>5, <3>1
    <2>2. PICK k \in 1 .. n : k = m + 1
      BY <2>1
    <2>3. PICK f : f = seq[1] /\ f = kids[k]
      BY <2>1, <2>2
    <2>4. Before(kids, c, f) /\ f \in Children(u, d)
      <3>1. m < k
        BY <2>2
      <3> QED  BY <1>2, <1>3, <1>4, <2>3, <3>1 DEF AreKids
    <2>5. ASSUME NEW e, Before(kids, c, e)
          PROVE  e = f \/ Before(kids, f, e)
      <3>1. PICK j \in 1 .. n : m < j /\ kids[j] = e
        BY <1>2, <1>3, <1>4, <2>5 DEF AreKids
      <3>2. j = k \/ k < j
        BY <2>2, <3>1
      <3> QED  BY <1>2, <1>3, <2>3, <3>1, <3>2 DEF AreKids
    <2>6. ASSUME NEW e, Before(kids, f, e)
          PROVE  Before(kids, c, e) /\ e # f
      <3>1. PICK j \in 1 .. n : k < j /\ kids[j] = e
        BY <1>2, <1>3, <2>3, <2>6 DEF AreKids
      <3>2. m < j /\ j # k
        BY <2>2, <3>1
      <3> QED  BY <1>2, <1>3, <1>4, <2>3, <3>1, <3>2 DEF AreKids
    <2> QED  BY <2>3, <2>4, <2>5, <2>6
  <1> QED  BY <1>1, <1>5, <1>6, <1>7, <1>8 DEF NextKid

LEMMA NextAhead ==
    ASSUME Plain, NEW u, NEW d, NEW c, NEW l, Tree(u), d \in Live(u), Sited(u, host, {}), On(u, d, c, l),
           NEW seq, seq = After(u, c)
    PROVE  /\ seq = <<>> => l.must \ l.seen = {}
           /\ seq # <<>> => /\ seq[1] \in Children(u, d) /\ u.ino[seq[1]].name \notin l.seen
                            /\ Ahead(u, d, seq[1], l.must, l.seen \cup {u.ino[seq[1]].name})
  <1>1. /\ c \in Children(u, d)
        /\ \A x \in l.must \ l.seen : \E e \in Children(u, d) : Before(u.ino[d].kids, c, e) /\ u.ino[e].name = x
        /\ \A e \in Children(u, d) : Before(u.ino[d].kids, c, e) => u.ino[e].name \notin l.seen
    BY DEF On, Ahead
  <1>2. PICK kids : kids = u.ino[d].kids
    OBVIOUS
  <1>3. CASE seq = <<>>
    <2>1. \A e \in Children(u, d) : ~Before(u.ino[d].kids, c, e)
      BY <1>1, <1>3, AfterIs
    <2> QED  BY <1>1, <1>3, <2>1
  <1>4. CASE seq # <<>>
    <2>1. PICK f : f = seq[1]
      OBVIOUS
    <2>2. /\ Before(kids, c, f) /\ f \in Children(u, d)
          /\ \A e \in Children(u, d) : Before(kids, c, e) => e = f \/ Before(kids, f, e)
          /\ \A e : Before(kids, f, e) => Before(kids, c, e) /\ e # f
      <3>1. /\ Tree(u) /\ d \in Live(u) /\ c \in Children(u, d) /\ seq = After(u, c)
        BY <1>1
      <3>2. NextKid(u, d, c, seq[1])
        BY ONLY <1>4, <3>1, AfterIs
      <3> QED  BY <1>2, <2>1, <3>2 DEF NextKid
    <2>3. u.ino[f].name \notin l.seen
      BY <1>1, <1>2, <2>2
    <2>4. Ahead(u, d, f, l.must, l.seen \cup {u.ino[f].name})
      <3>1. ASSUME NEW x \in l.must \ (l.seen \cup {u.ino[f].name})
            PROVE  \E e \in Children(u, d) : Before(kids, f, e) /\ u.ino[e].name = x
        BY <1>1, <1>2, <2>2
      <3>2. ASSUME NEW e \in Children(u, d), Before(kids, f, e)
            PROVE  u.ino[e].name \notin l.seen \cup {u.ino[f].name}
        <4>1. u.ino[e].name \notin l.seen
          BY <1>1, <1>2, <2>2, <3>2
        <4>2. u.ino[e].name # u.ino[f].name
          BY <2>2, <3>2, SiblingNames
        <4> QED  BY <4>1, <4>2
      <3> QED  BY <1>2, <3>1, <3>2 DEF Ahead
    <2> QED  BY <1>4, <2>1, <2>2, <2>3, <2>4
  <1> QED  BY <1>3, <1>4

\* The loop s goes on at the entry e, and is owed must.
Advanced(s, u, e, must) ==
    /\ scan' \in ScanRecs /\ \A t \in Scans \ {s} : scan'[t] = scan[t]
    /\ scan'[s].st = scan[s].st /\ scan'[s].dir = scan[s].dir /\ scan'[s].at = u.ino[e].uniq
    /\ scan'[s].must = must /\ scan'[s].seen = scan[s].seen \cup {u.ino[e].name}
    /\ scan'[s].again <=> scan[s].again \/ u.ino[e].name \in scan[s].seen
\* It is at its end.
Finished(s, must) ==
    /\ \A t \in Scans \ {s} : scan'[t] = scan[t]
    /\ scan' \in [Scans -> {scan[t] : t \in Scans} \cup {scan'[s]}]
    /\ scan'[s] = [NoScan EXCEPT !.must = must \ scan[s].seen, !.again = scan[s].again]

LEMMA ScanAt ==
    ASSUME NEW s \in Scans, scan \in ScanRecs, NEW l, l = scan[s]
    PROVE  /\ l \in LoopRecs
           /\ \A m \in LoopRecs : LET sc == [scan EXCEPT ![s] = m]
                                  IN  sc \in ScanRecs /\ sc[s] = m /\ \A t \in Scans \ {s} : sc[t] = scan[t]
  BY DEF ScanRecs

LEMMA AnswerIs ==
    ASSUME "exnext again" \notin Habits, NEW s \in Scans, NEW u, NEW d, NEW seq \in Seq(Nat),
           NEW must \in SUBSET Names,
           Tree(u), d \in Live(u), Sited(u, host, {}), scan \in ScanRecs,
           \A i \in 1 .. Len(seq) : seq[i] \in Children(u, d), Answer(s, u, d, seq, must)
    PROVE  \/ seq = <<>> /\ unit' = free_exkey(u, d) /\ Finished(s, must)
           \/ seq # <<>> /\ unit' = u /\ Advanced(s, u, seq[1], must)
  <1> DEFINE there == {i \in 1..Len(seq) : Exists(u.ino[seq[i]].nname)}
  <1>1. PICK n \in Nat : n = Len(seq) /\ (n = 0 <=> seq = <<>>)
    <2>1. Len(seq) \in Nat /\ (Len(seq) = 0 <=> seq = <<>>)
      BY ONLY seq \in Seq(Nat), Elements
    <2> QED  BY ONLY <2>1
  <1>2. \A e \in Children(u, d) : Exists(u.ino[e].nname) /\ u.ino[e].parent = d
    BY DEF Children, Sited, At, Exists
  <1>3. there = 1 .. n
    BY <1>1, <1>2
  <1>4. CASE seq = <<>>
    <2>1. there = {}
      <3>1. 1 .. n = {}
        BY ONLY <1>1, <1>4, n \in Nat
      <3> QED  BY ONLY Zenon, <1>3, <3>1
    <2>2. unit' = free_exkey(u, d) /\ scan' = [scan EXCEPT ![s] = Ended(scan[s], must)]
      BY Zenon, <2>1 DEF Answer
    <2>3. Ended(scan[s], must) = [NoScan EXCEPT !.must = must \ scan[s].seen, !.again = scan[s].again]
      BY DEF Ended
    <2>4. Finished(s, must)
      BY <2>2, <2>3 DEF Finished, ScanRecs
    <2> QED  BY <1>4, <2>2, <2>4
  <1>5. CASE seq # <<>>
    <2>1. Min(there) = 1
      <3>1. 1 \in 1 .. n /\ \A i \in 1 .. n : 1 <= i
        BY ONLY <1>1, <1>5, n \in Nat
      <3>2. \A k \in 1 .. n : (\A i \in 1 .. n : k <= i) => k = 1
        BY ONLY <3>1, n \in Nat
      <3>3. PICK m : m = Min(1 .. n)
        OBVIOUS
      <3>4. m \in 1 .. n /\ \A i \in 1 .. n : m <= i
        <4>1. 1 .. n \in SUBSET Nat /\ 1 .. n # {}
          <5>1. 1 .. n # {}
            BY ONLY Zenon, <3>1
          <5>2. 1 .. n \in SUBSET Nat
            BY ONLY n \in Nat
          <5> QED  BY ONLY <5>1, <5>2
        <4> QED  BY ONLY <3>3, <4>1, LowestIs
      <3>5. m = 1
        BY <3>2, <3>4
      <3> QED  BY <1>3, <3>3, <3>5
    <2>2. PICK e : e = seq[1]
      OBVIOUS
    <2>3. e \in Children(u, d)
      <3>1. 1 \in 1 .. Len(seq)
        BY ONLY <1>1, <1>5, n \in Nat
      <3> QED  BY <2>2, <3>1
    <2>4. there # {} /\ u.ino[e].parent = d
      <3>1. 1 .. n # {}
        <4>1. 1 \in 1 .. n
          BY ONLY <1>1, <1>5, n \in Nat
        <4> QED  BY ONLY Zenon, <4>1
      <3> QED  BY ONLY Zenon, <1>2, <1>3, <2>3, <3>1
    <2> HIDE DEF there
    <2>5. /\ unit' = u
          /\ scan' = [scan EXCEPT ![s].at = u.ino[e].uniq, ![s].must = must,
                                  ![s].seen = @ \cup {u.ino[e].name},
                                  ![s].again = @ \/ u.ino[e].name \in scan[s].seen]
      BY Zenon, <2>1, <2>2, <2>4 DEF Answer, there
    <2>6. u.ino[e].uniq \in Nat /\ u.ino[e].name \in Names
      <3>1. e \in Live(u) /\ u.ino[e].parent = d /\ e # Root
        <4>1. d # None
          BY ONLY Tree(u), d \in Live(u), InodeIs DEF None
        <4> QED  BY <2>3, <4>1 DEF Children, Tree
      <3> QED  BY <3>1, InodeIs DEF Tree, Under
    <2>7. PICK l \in LoopRecs : l = scan[s]
      BY ScanAt
    <2>8. PICK q \in Nat, x \in Names : q = u.ino[e].uniq /\ x = u.ino[e].name
      BY <2>6
    <2>9. PICK m : m = [l EXCEPT !.at = q, !.must = must, !.seen = @ \cup {x}, !.again = @ \/ x \in l.seen]
      OBVIOUS
    <2>10. /\ m \in LoopRecs /\ m.st = l.st /\ m.dir = l.dir /\ m.at = q /\ m.must = must /\ m.seen = l.seen \cup {x}
           /\ m.again <=> l.again \/ x \in l.seen
      BY <2>9 DEF LoopRecs
    <2>11. scan' = [scan EXCEPT ![s] = m]
      BY <2>5, <2>7, <2>8, <2>9 DEF ScanRecs, LoopRecs
    <2>12. scan' \in ScanRecs /\ scan'[s] = m /\ \A t \in Scans \ {s} : scan'[t] = scan[t]
      BY ONLY <2>10, <2>11, scan \in ScanRecs, s \in Scans DEF ScanRecs
    <2>13. Advanced(s, u, e, must)
      BY <2>7, <2>8, <2>10, <2>12 DEF Advanced
    <2> QED  BY <1>5, <2>2, <2>5, <2>13
  <1> QED  BY <1>4, <1>5

LEMMA FinishedIs ==
    ASSUME NEW s \in Scans, NEW must, Finished(s, must), scan \in ScanRecs, ~scan[s].again, must \ scan[s].seen = {}
    PROVE  /\ scan' \in ScanRecs /\ scan'[s] = NoScan
           /\ \A t \in Scans : scan'[t] = scan[t] \/ scan'[t] = NoScan
           /\ \A q : Going(scan', q) = Going(scan, q) \ {s}
  <1>1. scan[s].again = FALSE
    BY DEF ScanRecs, LoopRecs
  <1>2. scan'[s] = [NoScan EXCEPT !.must = {}, !.again = FALSE]
    BY <1>1 DEF Finished
  <1>3. scan'[s] = NoScan /\ NoScan.st # "on" /\ NoScan \in LoopRecs
    BY <1>2 DEF Root, NoScan, LoopRecs
  <1>4. \A t \in Scans \ {s} : scan'[t] = scan[t]
    BY DEF Finished
  <1>5. scan' \in ScanRecs
    BY <1>3, <1>4 DEF Finished, ScanRecs
  <1> QED  BY <1>3, <1>4, <1>5 DEF Going

LEMMA LoopMoves ==
    ASSUME Plain, NEW u, NEW s \in Scans, NEW d \in Live(u), NEW e \in Children(u, d), NEW must, Tree(u),
           Loops(u, host, scan), Advanced(s, u, e, must), scan[s].st = "on", scan[s].dir = u.ino[d].uniq,
           u.ino[d].dir, u.ino[d].exnext > 0,
           Cardinality(Going(scan, u.ino[d].uniq) \cup {s}) <= u.ino[d].exnext,
           ~scan'[s].again, Ahead(u, d, e, must, scan'[s].seen)
    PROVE  Loops(u, host, scan')
  <1>1. PICK q \in Nat : q = u.ino[d].uniq
    BY InodeIs
  <1>2. \A t \in Scans \ {s} : scan'[t] = scan[t]
    BY DEF Advanced
  <1>3. /\ scan'[s].st = "on" /\ scan'[s].dir = q /\ scan'[s].at = u.ino[e].uniq /\ scan'[s].must = must
        /\ scan' \in ScanRecs
    BY <1>1 DEF Advanced
  <1>4. e \in Live(u) /\ e # d
    <2>1. e \in Live(u) /\ u.ino[e].parent = d /\ e # Root
      <3>1. d # None
        BY InodeIs DEF None
      <3> QED  BY <3>1 DEF Children, Tree
    <2>2. ASSUME e = d
          PROVE  FALSE
      <3>1. PICK n, x : n = u.ino[e].nname /\ x = u.ino[e].name
        OBVIOUS
      <3>2. n \in Seq(Components) /\ x \in Components /\ n = Append(n, x)
        BY <2>1, <2>2, <3>1, NameOf
      <3>3. n # Append(n, x)
        BY ONLY <3>2, PrefixOfChild
      <3> QED  BY <3>2, <3>3
    <2> QED  BY <2>1, <2>2
  <1>5. u.ino[e].uniq # q
    BY <1>1, <1>4 DEF Tree
  <1>6. /\ Going(scan', q) \subseteq Going(scan, q) \cup {s}
        /\ \A r : r # q => Going(scan', r) = Going(scan, r)
    BY <1>1, <1>2, <1>3 DEF Going
  <1>7. Counting(u, scan')
    <2> SUFFICES ASSUME NEW p \in Live(u)
                 PROVE  u.ino[p].exnext >= Cardinality(Going(scan', u.ino[p].uniq))
      BY DEF Counting
    <2>1. CASE p = d
      <3>1. PICK a \in Nat : a = Cardinality(Going(scan', q))
        BY GoingIs
      <3>2. IsFiniteSet(Going(scan, q) \cup {s})
        BY GoingIs, FS_AddElement
      <3>3. PICK b \in Nat : b = Cardinality(Going(scan, q) \cup {s})
        BY <3>2, FS_CardinalityType
      <3>4. Cardinality(Going(scan', q)) <= Cardinality(Going(scan, q) \cup {s})
        BY Zenon, <1>6, <3>2, FS_Subset
      <3>5. a <= b
        BY ONLY <3>1, <3>3, <3>4
      <3>6. u.ino[p].exnext \in Int /\ b <= u.ino[p].exnext
        BY <1>1, <2>1, <3>3, InodeIs
      <3> QED  BY <1>1, <2>1, <3>1, <3>5, <3>6
    <2>2. CASE p # d
      <3>1. u.ino[p].uniq # q
        BY <1>1, <2>2 DEF Tree
      <3> QED  BY <1>6, <3>1 DEF Loops, Counting
    <2> QED  BY <2>1, <2>2
  <1>8. On(u, d, e, scan'[s])
    BY <1>3 DEF On
  <1>9. Looping(u, scan'[s])
    BY <1>1, <1>3, <1>5, <1>8 DEF Looping, Stands
  <1> QED  BY <1>2, <1>3, <1>7, <1>9 DEF Loops

\* The answer to the first ExNext of a loop.
LEMMA StartLoops ==
    ASSUME Plain, "exnext again" \notin Habits, NEW s \in Scans, NEW v, NEW d \in Live(v), Tree(v),
           Loops(v, host, scan), NEW u, Begun(v, u, d, scan), v.ino[d].dir, scan[s].st = "on",
           scan[s].dir = v.ino[d].uniq, scan[s].at = scan[s].dir, Answer(s, u, d, u.ino[d].kids, Listed(v, d))
    PROVE  Loops(unit', host, scan')
  <1>1. /\ Tree(u) /\ Cached(u, None) /\ d \in Live(u) /\ Sited(u, host, {}) /\ Placed(v.ino[d], u.ino[d])
        /\ Loops(u, host, scan)
    BY DEF Begun
  <1>2. PICK l \in LoopRecs : l = scan[s] /\ scan \in ScanRecs
    BY ScanAt DEF Loops
  <1>3. l.st = "on" /\ l.seen = {} /\ ~l.again /\ l.dir = v.ino[d].uniq
    <2>1. PICK p : Stands(v, p, l) /\ ~l.again
      BY <1>2 DEF Loops, Looping
    <2>2. l.at = l.dir
      BY <1>2
    <2> QED  BY <1>2, <2>1, <2>2 DEF Stands
  <1>4. PICK kids, q : kids = u.ino[d].kids /\ q = u.ino[d].uniq
    OBVIOUS
  <1>5. PICK n \in Nat, m \in Nat : n = v.ino[d].exnext /\ m = u.ino[d].exnext /\ m = n + 1
    <2>1. v.ino[d].exnext \in Nat /\ u.ino[d].exnext = v.ino[d].exnext + 1
      BY DEF Begun
    <2>2. PICK n \in Nat : n = v.ino[d].exnext
      BY <2>1
    <2>3. PICK m \in Nat : m = n + 1
      BY ONLY n \in Nat
    <2> QED  BY <2>1, <2>2, <2>3
  <1>6. PICK k \in Nat : k = Cardinality(Going(scan, q)) /\ n >= k
    <2>1. q = v.ino[d].uniq /\ Cardinality(Going(scan, q)) \in Nat
      BY <1>1, <1>4, GoingIs DEF Placed
    <2> QED  BY <1>5, <2>1 DEF Loops, Counting
  <1>7. Listed(v, d) = Listed(u, d) /\ Listed(u, d) \in SUBSET Names /\ u.ino[d].dir
    BY <1>1 DEF Listed, Placed
  <1>8. kids \in Seq(Nat) /\ \A i \in 1 .. Len(kids) : kids[i] \in Children(u, d)
    <2>1. AreKids(u, d, kids)
      BY <1>1, <1>4, KidIs
    <2> QED  BY <2>1 DEF AreKids
  <1>9. /\ kids = <<>> => Listed(u, d) = {}
        /\ kids # <<>> => /\ kids[1] \in Children(u, d)
                          /\ Ahead(u, d, kids[1], Listed(u, d), {u.ino[kids[1]].name})
    <2>1. m > 0
      BY ONLY <1>5, n \in Nat, m \in Nat
    <2>2. u.ino[d].exnext > 0 /\ Complete(u, host)
      BY <1>1, <1>5, <2>1 DEF Loops
    <2> QED  BY ONLY <1>1, <1>4, <1>7, <2>2, Plain, FirstAhead
  <1>10. PICK must \in SUBSET Names : must = Listed(u, d)
    BY <1>7
  <1>11. \/ kids = <<>> /\ unit' = free_exkey(u, d) /\ Finished(s, must)
         \/ kids # <<>> /\ unit' = u /\ Advanced(s, u, kids[1], must)
    <2>1. Answer(s, u, d, kids, must)
      BY <1>4, <1>7, <1>10
    <2> QED  BY ONLY <1>1, <1>2, <1>8, <2>1, "exnext again" \notin Habits, s \in Scans,
                must \in SUBSET Names, AnswerIs
  <1>12. CASE kids = <<>>
    <2>1. unit' = free_exkey(u, d) /\ Finished(s, must) /\ must \ scan[s].seen = {} /\ ~scan[s].again
      BY <1>2, <1>3, <1>9, <1>10, <1>11, <1>12
    <2>2. /\ scan' \in ScanRecs /\ \A t \in Scans : scan'[t] = scan[t] \/ scan'[t] = NoScan
          /\ \A r : Going(scan', r) = Going(scan, r) \ {s}
      BY ONLY <1>2, <2>1, s \in Scans, FinishedIs
    <2>3. PICK j \in Nat : j = Cardinality(Going(scan', q))
      BY GoingIs
    <2>4. Cardinality(Going(scan', q)) <= Cardinality(Going(scan, q))
      BY Zenon, <2>2, GoingIs
    <2>5. m > j
      BY ONLY <1>5, <1>6, <2>3, <2>4, n \in Nat, m \in Nat, k \in Nat, j \in Nat
    <2>6. u.ino[d].exnext > Cardinality(Going(scan', u.ino[d].uniq))
      BY <1>4, <1>5, <2>3, <2>5
    <2> QED  BY ONLY <1>1, <2>1, <2>2, <2>6, FreedLoops
  <1>13. CASE kids # <<>>
    <2>1. PICK e : e = kids[1]
      OBVIOUS
    <2>2. /\ unit' = u /\ Advanced(s, u, e, must) /\ e \in Children(u, d)
          /\ Ahead(u, d, e, must, {u.ino[e].name})
      BY <1>9, <1>10, <1>11, <1>13, <2>1
    <2>3. scan'[s].seen = {u.ino[e].name} /\ ~scan'[s].again
      BY <1>2, <1>3, <2>2 DEF Advanced
    <2>4. PICK j \in Nat : j = Cardinality(Going(scan, q) \cup {s})
      <3>1. IsFiniteSet(Going(scan, q) \cup {s})
        BY GoingIs, FS_AddElement
      <3> QED  BY <3>1, FS_CardinalityType
    <2>5. Cardinality(Going(scan, q) \cup {s}) <= Cardinality(Going(scan, q)) + 1
      BY Zenon, GoingIs
    <2>6. j <= m /\ m > 0
      BY ONLY <1>5, <1>6, <2>4, <2>5, n \in Nat, m \in Nat, k \in Nat, j \in Nat
    <2>7. /\ Cardinality(Going(scan, u.ino[d].uniq) \cup {s}) <= u.ino[d].exnext /\ u.ino[d].exnext > 0
          /\ scan[s].st = "on" /\ scan[s].dir = u.ino[d].uniq /\ Ahead(u, d, e, must, scan'[s].seen)
      BY <1>1, <1>2, <1>3, <1>4, <1>5, <2>2, <2>3, <2>4, <2>6 DEF Placed
    <2>8. Loops(u, host, scan')
      BY ONLY <1>1, <1>7, <2>2, <2>3, <2>7, Plain, s \in Scans, LoopMoves
    <2> QED  BY <2>2, <2>8
  <1> QED  BY <1>12, <1>13

\* The answer to those that follow.
LEMMA ContinueLoops ==
    ASSUME Plain, "exnext again" \notin Habits, NEW s \in Scans, NEW u, NEW d \in Live(u), NEW c, Tree(u),
           Cached(u, None), Sited(u, host, {}), Loops(u, host, scan), u.ino[d].dir, scan[s].st = "on",
           scan[s].dir = u.ino[d].uniq, scan[s].at # scan[s].dir, On(u, d, c, scan[s]),
           NEW seq, seq = After(u, c), Answer(s, u, d, seq, scan[s].must)
    PROVE  Loops(unit', host, scan')
  <1>1. PICK l \in LoopRecs : l = scan[s] /\ scan \in ScanRecs
    BY ScanAt DEF Loops
  <1>2. ~l.again
    BY <1>1 DEF Loops, Looping
  <1>3. PICK q : q = u.ino[d].uniq
    OBVIOUS
  <1>4. s \in Going(scan, q)
    BY <1>3 DEF Going
  <1>5. PICK k \in Nat : k = Cardinality(Going(scan, q))
    BY GoingIs
  <1>6. PICK n \in Nat : n = u.ino[d].exnext /\ n > 0 /\ n >= k
    <2>1. u.ino[d].exnext \in Nat
      <3>1. Marks(u)
        BY DEF Loops
      <3> QED  BY ONLY <3>1, d \in Live(u) DEF Marks, Watching
    <2> QED  BY <1>3, <1>5, <2>1 DEF Loops, Counting, On
  <1>7. PICK must \in SUBSET Names : must = l.must
    BY DEF LoopRecs
  <1>8. c \in Children(u, d)
    BY DEF On
  <1>9. seq \in Seq(Nat) /\ \A i \in 1 .. Len(seq) : seq[i] \in Children(u, d)
    BY ONLY <1>8, Tree(u), d \in Live(u), seq = After(u, c), AfterIs
  <1>10. /\ seq = <<>> => l.must \ l.seen = {}
         /\ seq # <<>> => /\ seq[1] \in Children(u, d) /\ u.ino[seq[1]].name \notin l.seen
                          /\ Ahead(u, d, seq[1], l.must, l.seen \cup {u.ino[seq[1]].name})
    <2>1. On(u, d, c, l)
      BY <1>1
    <2> QED  BY ONLY <2>1, Plain, Tree(u), d \in Live(u), Sited(u, host, {}), seq = After(u, c), NextAhead
  <1>11. \/ seq = <<>> /\ unit' = free_exkey(u, d) /\ Finished(s, must)
         \/ seq # <<>> /\ unit' = u /\ Advanced(s, u, seq[1], must)
    <2>1. Answer(s, u, d, seq, must)
      BY <1>1, <1>7
    <2> QED  BY ONLY <1>1, <1>9, <2>1, "exnext again" \notin Habits, s \in Scans, must \in SUBSET Names,
                     Tree(u), d \in Live(u), Sited(u, host, {}), AnswerIs
  <1>12. CASE seq = <<>>
    <2>1. unit' = free_exkey(u, d) /\ Finished(s, must) /\ must \ scan[s].seen = {} /\ ~scan[s].again
      BY <1>1, <1>2, <1>7, <1>10, <1>11, <1>12
    <2>2. /\ scan' \in ScanRecs /\ \A t \in Scans : scan'[t] = scan[t] \/ scan'[t] = NoScan
          /\ \A r : Going(scan', r) = Going(scan, r) \ {s}
      BY ONLY <1>1, <2>1, s \in Scans, FinishedIs
    <2>3. Cardinality(Going(scan', q)) = Cardinality(Going(scan, q)) - 1
      BY Zenon, <1>4, <2>2, GoingIs
    <2>4. u.ino[d].exnext > Cardinality(Going(scan', u.ino[d].uniq))
      <3>1. PICK j \in Nat : j = Cardinality(Going(scan', q))
        BY GoingIs
      <3>2. n > j
        BY ONLY <1>5, <1>6, <2>3, <3>1, n \in Nat, k \in Nat, j \in Nat
      <3> QED  BY <1>3, <1>6, <3>1, <3>2
    <2> QED  BY ONLY <2>1, <2>2, <2>4, Tree(u), d \in Live(u), Cached(u, None), Loops(u, host, scan), FreedLoops
  <1>13. CASE seq # <<>>
    <2>1. PICK e : e = seq[1]
      OBVIOUS
    <2>2. /\ unit' = u /\ Advanced(s, u, e, must) /\ e \in Children(u, d)
          /\ u.ino[e].name \notin l.seen /\ Ahead(u, d, e, must, l.seen \cup {u.ino[e].name})
      BY <1>7, <1>10, <1>11, <1>13, <2>1
    <2>3. scan'[s].seen = l.seen \cup {u.ino[e].name} /\ ~scan'[s].again
      BY <1>1, <1>2, <2>2 DEF Advanced
    <2>4. Going(scan, q) \cup {s} = Going(scan, q)
      BY <1>4
    <2>5. /\ Cardinality(Going(scan, u.ino[d].uniq) \cup {s}) <= u.ino[d].exnext /\ u.ino[d].exnext > 0
          /\ Ahead(u, d, e, must, scan'[s].seen)
      BY <1>3, <1>5, <1>6, <2>2, <2>3, <2>4
    <2>6. Loops(u, host, scan')
      BY ONLY <2>2, <2>3, <2>5, Plain, s \in Scans, Tree(u), d \in Live(u), Loops(u, host, scan), u.ino[d].dir,
              scan[s].st = "on", scan[s].dir = u.ino[d].uniq, LoopMoves
    <2> QED  BY <2>2, <2>6
  <1> QED  BY <1>12, <1>13

\* Loops that are left, or begin and have not been told anything yet.
LEMMA LoopsChange ==
    ASSUME NEW u, NEW h, NEW sc, NEW sd \in ScanRecs, Tree(u), Loops(u, h, sc),
           \A q : Going(sd, q) \subseteq Going(sc, q), \A t \in Scans : Looping(u, sd[t])
    PROVE  Loops(u, h, sd)
  <1>1. Counting(u, sd)
    <2> SUFFICES ASSUME NEW p \in Live(u)
                 PROVE  u.ino[p].exnext >= Cardinality(Going(sd, u.ino[p].uniq))
      BY DEF Counting
    <2>1. PICK q : q = u.ino[p].uniq
      OBVIOUS
    <2>2. PICK a \in Nat, b \in Nat : a = Cardinality(Going(sd, q)) /\ b = Cardinality(Going(sc, q))
      BY GoingIs
    <2>3. Cardinality(Going(sd, q)) <= Cardinality(Going(sc, q))
      BY Zenon, GoingIs
    <2>4. PICK n \in Int : n = u.ino[p].exnext
      BY InodeIs
    <2>5. n >= b
      BY <2>1, <2>2, <2>4 DEF Loops, Counting
    <2>6. n >= a
      BY ONLY <2>2, <2>3, <2>5, a \in Nat, b \in Nat, n \in Int
    <2> QED  BY <2>1, <2>2, <2>4, <2>6
  <1> QED  BY <1>1 DEF Loops

LEMMA LookupLoops ==
    ASSUME Plain, NEW u, NEW q, NEW hit, Good(u, locks, keys), Sited(u, host, {}), Loops(u, host, scan),
           NEW r, r = lookup_aino(u, q, hit)
    PROVE  /\ Good(r.u, locks, keys) /\ Sited(r.u, host, {}) /\ Loops(r.u, host, scan)
           /\ r.node = None \/ (r.node \in Live(r.u) /\ r.u.ino[r.node].uniq = q)
           /\ Live(r.u) = Live(u) /\ (\A p \in Live(u) : r.u.ino[p].uniq = u.ino[p].uniq)
           /\ r.node = NodeOf(u, q)
  <1>1. /\ Good(r.u, locks, keys) /\ r.node = NodeOf(u, q) /\ Live(r.u) = Live(u)
        /\ r.node = None \/ (r.node \in Live(r.u) /\ r.u.ino[r.node].uniq = q)
        /\ \A p \in Live(u) : Same(u.ino[p], r.u.ino[p])
        /\ Looks(u, r.u)
    BY LookupGood
  <1>2. Sited(r.u, host, {})
    BY TreeLooksSited DEF Good
  <1>3. Passes(u, r.u)
    BY <1>1, LooksPasses
  <1>4. Loops(r.u, host, scan)
    BY <1>1, <1>3, PassesLoops DEF Good
  <1> QED  BY <1>1, <1>2, <1>4 DEF Same

LEMMA ExamineLoops ==
    ASSUME Plain, "exnext again" \notin Habits, NEW s \in Scans, NEW q, NEW hit, Good(unit, locks, keys),
           Sited(unit, host, {}), Loops(unit, host, scan), NEW r, r = lookup_aino(unit, q, hit), Examine(s, q, r)
    PROVE  Loops(unit', host', scan')
  <1>1. /\ Good(r.u, locks, keys) /\ Loops(r.u, host, scan)
        /\ r.node = None \/ (r.node \in Live(r.u) /\ r.u.ino[r.node].uniq = q)
    <2>1. PICK u : u = unit
      OBVIOUS
    <2>2. Good(u, locks, keys) /\ Sited(u, host, {}) /\ Loops(u, host, scan) /\ r = lookup_aino(u, q, hit)
      BY <2>1
    <2> QED  BY ONLY <2>2, Plain, LookupLoops
  <1>2. /\ scan[s].st # "on" /\ r.node \in Live(r.u) /\ r.u.ino[r.node].uniq = q /\ r.u.ino[r.node].dir
        /\ unit' = r.u /\ host' = host
        /\ scan' = [scan EXCEPT ![s] = [NoScan EXCEPT !.st = "on", !.dir = q, !.at = q]]
    BY <1>1 DEF Examine
  <1>3. PICK l : l = [NoScan EXCEPT !.st = "on", !.dir = q, !.at = q]
    OBVIOUS
  <1>4. q \in Nat
    BY <1>1, <1>2, InodeIs DEF Good
  <1>5. /\ l \in LoopRecs /\ l.st = "on" /\ l.dir = q /\ l.at = q /\ l.seen = {} /\ l.must = {} /\ ~l.again
    BY <1>3, <1>4 DEF NoScan, LoopRecs
  <1>6. scan \in ScanRecs
    BY DEF Loops
  <1>7. scan' \in ScanRecs /\ scan'[s] = l /\ \A t \in Scans \ {s} : scan'[t] = scan[t]
    BY <1>2, <1>3, <1>5, <1>6 DEF ScanRecs
  <1>8. Looping(r.u, l)
    BY <1>2, <1>5 DEF Looping, Stands
  <1>9. \A x : Going(scan', x) \subseteq Going(scan, x)
    BY <1>5, <1>7 DEF Going
  <1>10. \A t \in Scans : Looping(r.u, scan'[t])
    BY <1>1, <1>7, <1>8 DEF Loops
  <1>11. Loops(r.u, host, scan')
    BY <1>1, <1>7, <1>9, <1>10, LoopsChange DEF Good
  <1> QED  BY <1>2, <1>11

LEMMA AbandonLoops ==
    ASSUME NEW s \in Scans, Tree(unit), Loops(unit, host, scan), Abandon(s)
    PROVE  Loops(unit', host', scan')
  <1>1. unit' = unit /\ host' = host /\ scan' = [scan EXCEPT ![s] = NoScan]
    BY DEF Abandon
  <1>2. NoScan \in LoopRecs /\ NoScan.st # "on" /\ scan \in ScanRecs
    BY DEF NoScan, LoopRecs, Root, Loops
  <1>3. scan' \in ScanRecs /\ scan'[s] = NoScan /\ \A t \in Scans \ {s} : scan'[t] = scan[t]
    BY <1>1, <1>2 DEF ScanRecs
  <1>4. \A x : Going(scan', x) \subseteq Going(scan, x)
    BY <1>2, <1>3 DEF Going
  <1>5. \A t \in Scans : Looping(unit, scan'[t])
    BY <1>2, <1>3 DEF Loops, Looping
  <1>6. Loops(unit, host, scan')
    BY <1>3, <1>4, <1>5, LoopsChange
  <1> QED  BY <1>1, <1>6

LEMMA ExamineNextLoops ==
    ASSUME Plain, "exnext again" \notin Habits, "opendir" \notin HostMayFail, NEW s \in Scans, NEW hit,
           Good(unit, locks, keys), Sited(unit, host, {}), Loops(unit, host, scan), action_examine_next(s, hit)
    PROVE  Loops(unit', host', scan')
  <1>1. PICK base \in {lookup_aino(unit, scan[s].dir, hit)} :
           LET d     == base.node
               n     == base.u.ino[d]
               again == [base.u EXCEPT !.ino[d].exnext = @ + 1]
           IN  /\ scan[s].st = "on" \/ (scan[s].st = "end" /\ "exnext again" \in Habits)
               /\ d # None
               /\ IF scan[s].at = n.uniq
                  THEN \/ /\ ~n.dir /\ Answer(s, base.u, d, <<>>, {})
                       \/ /\ n.dir /\ n.exnext < MaxExNext
                          /\ \E u \in IF n.exnext = 0 /\ Exists(n.nname)
                                      THEN populate_directory(again, d)
                                           \cup (IF "opendir" \in HostMayFail THEN {again} ELSE {})
                                      ELSE {again} :
                               Answer(s, u, d, u.ino[d].kids, {x \in Names : Exists(Append(n.nname, x))})
                  ELSE \E next \in {lookup_aino(base.u, scan[s].at, hit)} :
                       Answer(s, next.u, d, IF next.node = None THEN AfterLost(next.u, d, scan[s].at)
                                            ELSE After(next.u, next.node), scan[s].must)
               /\ UNCHANGED <<locks, keys, host>>
    BY Zenon DEF action_examine_next
  <1>2. PICK d, v, l : d = base.node /\ v = base.u /\ l = scan[s]
    BY Zenon
  <1>3. /\ Good(v, locks, keys) /\ Sited(v, host, {}) /\ Loops(v, host, scan) /\ d \in Live(v)
        /\ v.ino[d].uniq = l.dir
    <2>1. PICK u, q : u = unit /\ q = scan[s].dir
      BY Zenon
    <2>2. base = lookup_aino(u, q, hit) /\ Good(u, locks, keys) /\ Sited(u, host, {}) /\ Loops(u, host, scan)
      BY Zenon, <1>1, <2>1
    <2>3. /\ Good(base.u, locks, keys) /\ Sited(base.u, host, {}) /\ Loops(base.u, host, scan)
          /\ base.node = None \/ (base.node \in Live(base.u) /\ base.u.ino[base.node].uniq = q)
      BY ONLY <2>2, Plain, LookupLoops
    <2>4. base.node # None
      BY Zenon, <1>1
    <2> QED  BY <1>2, <2>1, <2>3, <2>4
  <1>4. host' = host
    BY Zenon, <1>1
  <1>5. l.st = "on"
    BY Zenon, <1>1, <1>2
  <1>6. Tree(v) /\ Cached(v, None)
    BY <1>3 DEF Good
  <1>7. Stands(v, d, l)
    <2>1. PICK p : Stands(v, p, l)
      BY <1>2, <1>3, <1>5 DEF Loops, Looping
    <2>2. p = d
      BY <1>3, <1>6, <2>1 DEF Stands, Tree
    <2> QED  BY <2>1, <2>2
  <1>8. v.ino[d].dir
    BY <1>7 DEF Stands
  <1>9. CASE l.at = l.dir
    <2>1. PICK again : again = [v EXCEPT !.ino[d].exnext = @ + 1]
      OBVIOUS
    <2>2. /\ v.ino[d].exnext < MaxExNext
          /\ \E u \in IF v.ino[d].exnext = 0 /\ Exists(v.ino[d].nname) THEN populate_directory(again, d)
                      ELSE {again} :
                Answer(s, u, d, u.ino[d].kids, Listed(v, d))
      <3>1. scan[s].at = base.u.ino[base.node].uniq /\ base.u.ino[base.node].dir
        BY Zenon, <1>2, <1>3, <1>8, <1>9
      <3>2. /\ base.u.ino[base.node].exnext < MaxExNext
            /\ \E u \in IF base.u.ino[base.node].exnext = 0 /\ Exists(base.u.ino[base.node].nname)
                        THEN populate_directory([base.u EXCEPT !.ino[base.node].exnext = @ + 1], base.node)
                             \cup (IF "opendir" \in HostMayFail
                                   THEN {[base.u EXCEPT !.ino[base.node].exnext = @ + 1]} ELSE {})
                        ELSE {[base.u EXCEPT !.ino[base.node].exnext = @ + 1]} :
                  Answer(s, u, base.node, u.ino[base.node].kids,
                         {x \in Names : Exists(Append(base.u.ino[base.node].nname, x))})
        BY Zenon, <1>1, <3>1
      <3> QED  BY Zenon, <1>2, <2>1, <3>2 DEF Listed
    <2>3. Exists(v.ino[d].nname)
      BY <1>3 DEF Sited, At, Exists
    <2>4. PICK u : /\ IF v.ino[d].exnext = 0 THEN u \in populate_directory(again, d) ELSE u = again
                   /\ Answer(s, u, d, u.ino[d].kids, Listed(v, d))
      BY Zenon, <2>2, <2>3
    <2>5. Begun(v, u, d, scan)
      BY ONLY <1>3, <1>8, <2>1, <2>2, <2>4, Plain, BegunLoops
    <2>6. scan[s].st = "on" /\ scan[s].dir = v.ino[d].uniq /\ scan[s].at = scan[s].dir
      BY <1>2, <1>3, <1>5, <1>9
    <2>7. Loops(unit', host, scan')
      BY ONLY <1>3, <1>6, <1>8, <2>4, <2>5, <2>6, Plain, "exnext again" \notin Habits, s \in Scans, StartLoops
    <2> QED  BY <1>4, <2>7
  <1>10. CASE l.at # l.dir
    <2>1. PICK c : On(v, d, c, l)
      BY <1>7, <1>10 DEF Stands
    <2>2. PICK next : /\ next = lookup_aino(v, l.at, hit)
                      /\ Answer(s, next.u, d, IF next.node = None THEN AfterLost(next.u, d, scan[s].at)
                                              ELSE After(next.u, next.node), scan[s].must)
      <3>1. scan[s].at # base.u.ino[base.node].uniq
        BY Zenon, <1>2, <1>3, <1>10
      <3>2. \E next \in {lookup_aino(base.u, scan[s].at, hit)} :
               Answer(s, next.u, base.node, IF next.node = None THEN AfterLost(next.u, base.node, scan[s].at)
                                            ELSE After(next.u, next.node), scan[s].must)
        BY Zenon, <1>1, <3>1
      <3> QED  BY Zenon, <1>2, <3>2
    <2>3. PICK w, q : w = next.u /\ q = l.at
      OBVIOUS
    <2>4. /\ Good(w, locks, keys) /\ Sited(w, host, {}) /\ Loops(w, host, scan)
          /\ next.node = NodeOf(v, q) /\ Live(w) = Live(v) /\ \A p \in Live(v) : w.ino[p].uniq = v.ino[p].uniq
      <3>1. next = lookup_aino(v, q, hit)
        BY <2>2, <2>3
      <3>2. /\ Good(next.u, locks, keys) /\ Sited(next.u, host, {}) /\ Loops(next.u, host, scan)
            /\ next.node = NodeOf(v, q) /\ Live(next.u) = Live(v)
            /\ \A p \in Live(v) : next.u.ino[p].uniq = v.ino[p].uniq
        BY ONLY <1>3, <3>1, Plain, LookupLoops
      <3> QED  BY <2>3, <3>2
    <2>5. next.node = c /\ c # None
      <3>1. c \in Live(v) /\ v.ino[c].uniq = q
        BY <2>1, <2>3 DEF On, Children
      <3>2. NodeOf(v, q) = c /\ None \notin Live(v)
        BY <1>6, <3>1, NodeOfIs
      <3> QED  BY <2>4, <3>1, <3>2
    <2>6. Answer(s, w, d, After(w, c), scan[s].must)
      BY Zenon, <2>2, <2>3, <2>5
    <2>7. Tree(w) /\ Cached(w, None) /\ d \in Live(w)
      BY <1>3, <2>4 DEF Good
    <2>8. w.ino[d].dir /\ On(w, d, c, l)
      <3>1. PICK p : Stands(w, p, l)
        BY <1>2, <1>5, <2>4 DEF Loops, Looping
      <3>2. p = d
        BY <1>3, <2>4, <2>7, <3>1 DEF Stands, Tree
      <3>3. PICK e : On(w, d, e, l) /\ w.ino[d].dir
        BY <1>10, <3>1, <3>2 DEF Stands
      <3>4. e = c
        BY <2>1, <2>4, <2>7, <3>3 DEF On, Children, Tree
      <3> QED  BY <3>3, <3>4
    <2>9. scan[s].st = "on" /\ scan[s].dir = w.ino[d].uniq /\ scan[s].at # scan[s].dir /\ On(w, d, c, scan[s])
      BY <1>2, <1>3, <1>5, <1>10, <2>4, <2>8
    <2>10. Loops(unit', host, scan')
      BY ONLY <2>4, <2>6, <2>7, <2>8, <2>9, Plain, "exnext again" \notin Habits, s \in Scans, ContinueLoops
    <2> QED  BY <1>4, <2>10
  <1> QED  BY <1>9, <1>10

LEMMA ScanLoops ==
    ASSUME Plain, "exnext again" \notin Habits, "opendir" \notin HostMayFail, NEW s \in Scans,
           Good(unit, locks, keys), Sited(unit, host, {}), Loops(unit, host, scan), ScanPacket(s)
    PROVE  Loops(unit', host', scan')
  <1>1. CASE \E q, hit, r : r = lookup_aino(unit, q, hit) /\ Examine(s, q, r)
    BY <1>1, ExamineLoops
  <1>2. CASE \E hit \in BOOLEAN : action_examine_next(s, hit)
    BY <1>2, ExamineNextLoops
  <1>3. CASE Abandon(s)
    BY <1>3, AbandonLoops DEF Good
  <1> QED  BY <1>1, <1>2, <1>3 DEF ScanPacket

----------------------------------------------------------------------------
(* The scans' properties. *)
LEMMA LockedTotal ==
    ASSUME NEW u, Tree(u), Marks(u)
    PROVE  u.total >= MapThenSumSet(LAMBDA p : u.ino[p].locked, Live(u))
  <1> DEFINE S == Live(u)
             f == LockedIn(u)
             body(g) == [s \in SUBSET S |-> IF s = {} THEN 0
                            ELSE u.ino[CHOOSE x \in s : TRUE].locked + g[s \ {CHOOSE x \in s : TRUE}]]
             total == CHOOSE g : g = body(g)
  <1>1. MapThenSumSet(LAMBDA p : u.ino[p].locked, Live(u)) = total[S]
    BY DEF MapThenSumSet, MapThenFoldSet
  <1>2. IsFiniteSet(S)
    BY LiveFinite
  <1>3. \A x \in S : f[x] = u.ino[x].locked /\ f[x] \in Nat
    BY DEF Marks, Watching, LockedIn
  <1> HIDE DEF f
  <1>4. ASSUME NEW s \in SUBSET S, s # {}
        PROVE  (CHOOSE x \in s : TRUE) \in S
    BY <1>4
  <1>5. ASSUME NEW g
        PROVE  Adds(g, f, S) <=> g = body(g)
    <2>1. [s \in SUBSET S |-> SumBody(g, f, s)] = body(g)
      BY <1>3, <1>4 DEF SumBody, FirstOf
    <2> HIDE DEF body
    <2> QED  BY <2>1 DEF Adds
  <1> HIDE DEF body
  <1>6. PICK g : g = body(g)
    BY <1>2, <1>5, SumExists
  <1>7. total = body(total)
    BY <1>6
  <1> HIDE DEF total
  <1>8. Sums(total, f, S)
    BY <1>2, <1>3, <1>5, <1>7, SumsBy
  <1> QED  BY <1>1, <1>8 DEF Marks, Covered, f

LEMMA ScansAreLocked == Tree(unit) /\ Loops(unit, host, scan) => ScanLocked
  <1> SUFFICES ASSUME Tree(unit), Loops(unit, host, scan)
               PROVE  ScanLocked
    OBVIOUS
  <1>1. \A p \in Live(unit) : unit.ino[p].exnext >= Cardinality(Going(scan, unit.ino[p].uniq))
    BY DEF Loops, Counting
  <1>2. \A p \in Live(unit) : IF unit.ino[p].exnext = 0 THEN unit.ino[p].locked = 0
                              ELSE unit.ino[p].locked >= Len(unit.ino[p].kids)
    BY DEF Loops, Marks, Watching
  <1>3. unit.total >= MapThenSumSet(LAMBDA p : unit.ino[p].locked, Live(unit))
    BY LockedTotal DEF Loops
  <1> QED  BY Zenon, <1>1, <1>2, <1>3 DEF ScanLocked, Going

LEMMA ScansAreTold == Loops(unit, host, scan) => ScanExact
  <1> SUFFICES ASSUME Loops(unit, host, scan), NEW s \in Scans
               PROVE  ~scan[s].again /\ (scan[s].st # "on" => scan[s].must = {})
    BY DEF ScanExact
  <1>1. Looping(unit, scan[s])
    BY DEF Loops
  <1>2. ~NoScan.again /\ NoScan.must = {}
    BY DEF NoScan
  <1> QED  BY <1>1, <1>2 DEF Looping

(* The invariant of the loops, until a handler uses an a_inode that was freed. *)
LoopsInv == unit.wild \/ Loops(unit, host, scan)
LEMMA InitLoops == TreeInit => LoopsInv
  <1> SUFFICES ASSUME TreeInit
               PROVE  LoopsInv
    OBVIOUS
  <1>1. PICK n : n = Node(None, "", <<>>, 0, TRUE)
    OBVIOUS
  <1>2. unit.ino = [q \in {Root} |-> n] /\ unit.total = 0 /\ host = InitHost /\ scan = [s \in Scans |-> NoScan]
    BY <1>1 DEF TreeInit
  <1>3. n.exnext = 0 /\ n.locked = 0
    BY <1>1 DEF Node
  <1>4. Live(unit) = {Root} /\ unit.ino[Root] = n
    BY <1>2 DEF Live
  <1>5. Marks(unit)
    <2>1. Watching(n)
      BY <1>3, TreeAssumption DEF Watching
    <2>2. ASSUME NEW g, Sums(g, LockedIn(unit), Live(unit))
          PROVE  unit.total >= g[Live(unit)]
      <3>1. /\ \A s \in SUBSET {Root} : s # {} => \E x \in s : g[s] = LockedIn(unit)[x] + g[s \ {x}]
            /\ g[{}] = 0
        BY <1>4, <2>2 DEF Sums
      <3>2. {Root} \in SUBSET {Root} /\ {Root} # {} /\ {Root} \ {Root} = {}
        OBVIOUS
      <3>3. g[{Root}] = LockedIn(unit)[Root] + g[{Root} \ {Root}]
        BY <3>1, <3>2
      <3>4. LockedIn(unit)[Root] = 0
        BY <1>3, <1>4 DEF LockedIn
      <3> QED  BY <1>2, <1>4, <3>1, <3>2, <3>3, <3>4
    <2> QED  BY <1>4, <2>1, <2>2 DEF Marks, Covered
  <1>6. NoScan \in LoopRecs /\ NoScan.st # "on"
    BY DEF NoScan, LoopRecs, Root
  <1>7. scan \in ScanRecs /\ \A s \in Scans : Looping(unit, scan[s])
    BY <1>2, <1>6 DEF ScanRecs, Looping
  <1>8. \A q : Going(scan, q) = {}
    BY <1>2, <1>6 DEF Going
  <1>9. Counting(unit, scan)
    <2>1. \A q : Cardinality(Going(scan, q)) = 0
      BY <1>8, GoingIs
    <2> QED  BY <1>3, <1>4, <2>1 DEF Counting
  <1>10. Complete(unit, host)
    BY <1>3, <1>4 DEF Complete
  <1>11. Rooted(host)
    BY <1>2, TreeAssumption DEF Rooted
  <1> QED  BY <1>5, <1>7, <1>9, <1>10, <1>11 DEF LoopsInv, Loops

LEMMA NextLoops ==
    ASSUME Steady, TreeInv, Standing, LoopsInv, TreeNext
    PROVE  LoopsInv'
  <1>1. /\ Plain /\ Exact /\ "change current" \notin Habits /\ "exnext again" \notin Habits
        /\ "mkdir" \notin HostMayFail /\ "opendir" \notin HostMayFail
    BY DEF Steady, Plain, Exact
  <1>2. Good(unit, locks, keys) /\ Sited(unit, host, {}) /\ Lettered(host) /\ Loops(unit, host, scan)
    BY DEF TreeInv, Standing, TreeNext, LoopsInv
  <1>3. Stepped(unit) \/ \E s \in Scans : ScanPacket(s)
    BY <1>1, <1>2, NextKept
  <1>4. Settled
    BY <1>1, <1>2, NextSettled
  <1>5. unit'.wild \/ Loops(unit', host', scan')
    <2>1. CASE Stepped(unit)
      BY <1>1, <1>2, <1>4, <2>1, SteppedLoops
    <2>2. CASE \E s \in Scans : ScanPacket(s)
      BY <1>1, <1>2, <2>2, ScanLoops
    <2> QED  BY <1>3, <2>1, <2>2
  <1> QED  BY <1>5 DEF LoopsInv, Loops, Marks, Covered, Complete, Counting, Rooted, Looping, Stands, On, Ahead,
                       Named, Children, Live, LockedIn, Going, Watching

LEMMA LoopsKept ==
    ASSUME Steady
    PROVE  TreeSpec => []LoopsInv
  <1>1. Exact /\ "rename parent" \notin Habits /\ "mkdir" \notin HostMayFail
    BY DEF Steady
  <1>2. TreeInv /\ Standing /\ LoopsInv /\ [TreeNext]_vars => LoopsInv'
    <2>1. ASSUME UNCHANGED vars, LoopsInv
          PROVE  LoopsInv'
      <3>1. unit' = unit /\ host' = host /\ scan' = scan
        BY <2>1 DEF vars
      <3>2. unit'.wild \/ Loops(unit', host', scan')
        BY ONLY <2>1, <3>1 DEF LoopsInv
      <3> QED  BY ONLY <3>2 DEF LoopsInv, Loops, Marks, Covered, Complete, Counting, Rooted, Looping, Stands, On,
                                Ahead, Named, Children, Live, LockedIn, Going, Watching
    <2> QED  BY <2>1, NextLoops
  <1> QED  BY <1>1, <1>2, InitLoops, StandingKept, TreeKept, PTL DEF TreeSpec

\* While an ExNext goes on in a directory (action_examine_next, populate_directory, free_exkey) its
\* a_inodes are counted as locked in memory, those that lookups add meanwhile too, and as often as
\* guests' loops need; aino_cache_size's limit counts them all.  A guest may leave a loop
\* before its end, but goes to an end only once.
THEOREM ScansKeepLocks ==
    ASSUME Steady
    PROVE  TreeSpec => [](NoFreedUse => ScanLocked)
  <1>1. TreeInv /\ LoopsInv => (NoFreedUse => ScanLocked)
    BY ScansAreLocked DEF TreeInv, Good, LoopsInv, NoFreedUse
  <1> QED  BY <1>1, LoopsKept, TreeKept, PTL DEF Steady

\* A guest's ExNext loop is told each entry that stays on the host once, whatever other packets look
\* up, lock, create, delete or rename between its calls and whatever flush_cache and lookup_sub do
\* to the lists of children, if it does not itself remove or rename the entry it stands on.
THEOREM ScansAreExact ==
    ASSUME Steady
    PROVE  TreeSpec => [](NoFreedUse => ScanExact)
  <1>1. LoopsInv => (NoFreedUse => ScanExact)
    BY ScansAreTold DEF LoopsInv, NoFreedUse
  <1> QED  BY <1>1, LoopsKept, PTL

----------------------------------------------------------------------------
(* The types.  Locks are made up to MaxLocks, and counted as they are held. *)
LEMMA LocksSum ==
    ASSUME locks \in Locked
    PROVE  LocksHeld \in Nat /\ \A q \in LockHeld : locks[q] <= LocksHeld
  <1> DEFINE S == LockHeld
             f == locks
             body(g) == [s \in SUBSET S |-> IF s = {} THEN 0
                            ELSE locks[CHOOSE x \in s : TRUE] + g[s \ {CHOOSE x \in s : TRUE}]]
             total == CHOOSE g : g = body(g)
  <1>1. LocksHeld = total[S]
    BY DEF LocksHeld, MapThenSumSet, MapThenFoldSet
  <1>2. S \subseteq 0 .. MaxInodes /\ \A x \in S : f[x] \in Nat
    BY DEF LockHeld, Locked
  <1>3. IsFiniteSet(S)
    <2>1. MaxInodes \in Nat
      BY TreeAssumption
    <2>2. IsFiniteSet(0 .. MaxInodes)
      BY <2>1, FS_Interval
    <2> HIDE DEF S
    <2> QED  BY <1>2, <2>2, FS_Subset
  <1> HIDE DEF f
  <1>4. ASSUME NEW s \in SUBSET S, s # {}
        PROVE  (CHOOSE x \in s : TRUE) \in S
    BY <1>4
  <1>5. ASSUME NEW g
        PROVE  Adds(g, f, S) <=> g = body(g)
    <2>1. [s \in SUBSET S |-> SumBody(g, f, s)] = body(g)
      BY <1>4 DEF SumBody, FirstOf, f
    <2> HIDE DEF body
    <2> QED  BY <2>1 DEF Adds
  <1> HIDE DEF body
  <1>6. PICK g : g = body(g)
    BY <1>3, <1>5, SumExists
  <1>7. total = body(total)
    BY <1>6
  <1> HIDE DEF total
  <1> HIDE DEF S
  <1>8. Sums(total, f, S)
    BY <1>2, <1>3, <1>5, <1>7, SumsBy
  <1>9. S \in SUBSET S /\ \A y \in S : S \ {y} \in SUBSET S
    OBVIOUS
  <1>10. total[S] \in Nat /\ \A y \in S : total[S] = f[y] + total[S \ {y}] /\ total[S \ {y}] \in Nat
    BY <1>8, <1>9, SumPick
  <1>11. ASSUME NEW y \in S
         PROVE  f[y] <= total[S]
    <2>1. PICK n \in Nat : n = f[y]
      BY <1>2
    <2>2. PICK m \in Nat : m = total[S \ {y}]
      BY <1>10
    <2>3. total[S] = n + m
      BY <1>10, <2>1, <2>2
    <2> QED  BY ONLY <2>1, <2>3, n \in Nat, m \in Nat
  <1> QED  BY <1>1, <1>10, <1>11 DEF f, S

\* What a packet does to the guest's locks: it makes one, while there is room, or gives one back.
LocksStep ==
    \/ locks' = locks
    \/ LocksHeld < MaxLocks /\ \E q : locks' = [locks EXCEPT ![q] = @ + 1]
    \/ \E q \in LockHeld : locks' = [locks EXCEPT ![q] = @ - 1]

LEMMA SameLocks == ASSUME NEW u, Unchanged(u) \/ Wild(u) PROVE LocksStep
  BY DEF Unchanged, Wild, LocksStep

LEMMA MadeLocks == ASSUME NEW u, NEW p, make_lock(u, p) PROVE LocksStep
  BY DEF make_lock, LocksStep

LEMMA OpenLocks ==
    ASSUME NEW k, NEW u, NEW p, NEW create, NEW made, open_key(k, u, p, create, made)
    PROVE  LocksStep
  BY Zenon DEF open_key, Unchanged, LocksStep

LEMMA RenameLocks ==
    ASSUME NEW r, NEW rel2, NEW othercase, action_rename_object(r, rel2, othercase)
    PROVE  LocksStep
  <1>1. ASSUME NEW a1, NEW n1, NEW a2, NEW n2, NEW u, NEW first, NEW second, NEW closed,
               rename_host(a1, n1, a2, n2, u, first, second, closed)
        PROVE  LocksStep
    BY Zenon, <1>1 DEF rename_host, Wild, Unchanged, LocksStep
  <1> HIDE DEF LocksStep
  <1>2. (\E u : Unchanged(u) \/ Wild(u)) \/
        \E a1, n1, a2, n2, u, first, second, closed : rename_host(a1, n1, a2, n2, u, first, second, closed)
    BY Zenon DEF action_rename_object
  <1> QED  BY <1>1, <1>2, SameLocks

LEMMA NamePacketLocks ==
    ASSUME NEW r, NEW name, NamePacket(r, name)
    PROVE  LocksStep
  <1>1. CASE Refused(r)
    BY <1>1, SameLocks DEF Refused
  <1>2. CASE \E exclusive \in BOOLEAN : action_lock(r, exclusive)
    BY <1>2, MadeLocks DEF action_lock
  <1>3. CASE \E k \in Keys \ KeyOpen, create \in 0 .. 2 : do_find(k, r, name, create)
    BY Zenon, <1>3, OpenLocks DEF do_find
  <1>4. CASE action_create_dir(r, name)
    BY Zenon, <1>4, SameLocks, MadeLocks DEF action_create_dir
  <1>5. CASE action_delete_object(r)
    <2>1. (\E u : Unchanged(u) \/ Wild(u)) \/ locks' = locks
      BY Zenon, <1>5 DEF action_delete_object, Refused
    <2> QED  BY <2>1, SameLocks DEF LocksStep
  <1>6. CASE \E to \in Paths, othercase \in BOOLEAN : action_rename_object(r, to, othercase)
    BY <1>6, RenameLocks
  <1> QED  BY <1>1, <1>2, <1>3, <1>4, <1>5, <1>6 DEF NamePacket

LEMMA UniqPacketLocks ==
    ASSUME NEW r, UniqPacket(r)
    PROVE  LocksStep
  <1>1. CASE action_dup_lock_2(r)
    BY <1>1, SameLocks, MadeLocks DEF action_dup_lock_2
  <1>2. CASE action_parent_common(r)
    BY <1>2, SameLocks, MadeLocks DEF action_parent_common
  <1>3. CASE \E exclusive \in BOOLEAN : action_change_mode(r, exclusive)
    BY <1>3, SameLocks DEF action_change_mode, LocksStep
  <1> QED  BY <1>1, <1>2, <1>3 DEF UniqPacket

LEMMA NextLocks == ASSUME TreeNext PROVE LocksStep
  <1>1. ASSUME NEW q \in LockHeld, NEW r, LockPacket(q, r)
        PROVE  LocksStep
    <2>1. CASE UniqPacket(r)
      BY <2>1, UniqPacketLocks
    <2>2. CASE action_free_lock(q, r)
      BY <2>2 DEF action_free_lock, LocksStep
    <2>3. CASE \E k \in Keys \ KeyOpen : action_fh_from_lock(k, q, r)
      <3>1. (\E u : Unchanged(u)) \/ locks' = [locks EXCEPT ![q] = @ - 1]
        BY Zenon, <2>3 DEF action_fh_from_lock
      <3> QED  BY <3>1, SameLocks DEF LocksStep
    <2> QED  BY <1>1, <2>1, <2>2, <2>3 DEF LockPacket
  <1>2. ASSUME NEW k \in KeyOpen, KeyPacket(k)
        PROVE  LocksStep
    <2>1. action_end(k) => (\E u : Unchanged(u) \/ Wild(u)) \/ locks' = locks
      BY Zenon DEF action_end
    <2>2. action_end(k) \/ Wild(unit) \/ \E r : UniqPacket(r)
      BY Zenon, <1>2 DEF KeyPacket
    <2> QED  BY <2>1, <2>2, SameLocks, UniqPacketLocks DEF LocksStep
  <1>3. ASSUME NEW s \in Scans, ScanPacket(s)
        PROVE  LocksStep
    <2>1. locks' = locks
      BY Zenon, <1>3 DEF ScanPacket, Examine, action_examine_next, Abandon
    <2> QED  BY <2>1 DEF LocksStep
  <1>4. \/ \E r, name : NamePacket(r, name)
        \/ \E q \in LockHeld : \E r : LockPacket(q, r)
        \/ \E k \in KeyOpen : KeyPacket(k)
        \/ \E s \in Scans : ScanPacket(s)
    BY Zenon DEF TreeNext
  <1> QED  BY <1>1, <1>2, <1>3, <1>4, NamePacketLocks

(* The guest has no more locks than it may. *)
LocksInv == \A q \in 0 .. MaxInodes : locks[q] <= MaxLocks

LEMMA MaxLocksIs == MaxLocks \in Nat
  BY TreeAssumption
LEMMA LocksKept ==
    ASSUME Exact
    PROVE  TreeSpec => []LocksInv
  <1> USE MaxLocksIs
  <1>1. TreeInit => LocksInv
    <2>1. TreeInit => \A q \in 0 .. MaxInodes : locks[q] = 0
      BY DEF TreeInit
    <2>2. 0 <= MaxLocks
      OBVIOUS
    <2> QED  BY <2>1, <2>2 DEF LocksInv
  <1>2. TreeInv /\ LocksInv /\ [TreeNext]_vars => LocksInv'
    <2> SUFFICES ASSUME TreeInv, LocksInv, [TreeNext]_vars
                 PROVE  LocksInv'
      OBVIOUS
    <2>1. locks \in Locked
      BY DEF TreeInv, Good, Counted
    <2>2. LocksStep
      BY NextLocks DEF vars, LocksStep
    <2>3. LocksHeld \in Nat /\ \A q \in LockHeld : locks[q] <= LocksHeld
      BY <2>1, LocksSum
    <2>4. locks'= locks => LocksInv'
      BY DEF LocksInv
    <2>5. ASSUME LocksHeld < MaxLocks, NEW q, locks' = [locks EXCEPT ![q] = @ + 1]
          PROVE  LocksInv'
      <3>1. PICK held \in Nat : held = LocksHeld
        BY <2>3
      <3>2. \A x \in 0 .. MaxInodes : locks[x] = 0 \/ locks[x] <= held
        BY <2>1, <2>3, <3>1 DEF LockHeld, Locked
      <3>3. held < MaxLocks
        BY <2>5, <3>1
      <3>4. ASSUME NEW x \in 0 .. MaxInodes
            PROVE  locks'[x] <= MaxLocks
        <4>1. PICK n \in Nat : n = locks[x]
          BY <2>1 DEF Locked
        <4>2. locks'[x] \in {n, n + 1}
          BY <2>1, <2>5, <4>1 DEF Locked
        <4>3. n = 0 \/ n <= held
          BY <3>2, <4>1
        <4> QED  BY ONLY <3>3, <4>2, <4>3, n \in Nat, held \in Nat, MaxLocks \in Nat
      <3> QED  BY <3>4 DEF LocksInv
    <2>6. ASSUME NEW q \in LockHeld, locks' = [locks EXCEPT ![q] = @ - 1]
          PROVE  LocksInv'
      BY <2>1, <2>6 DEF LocksInv, Locked
    <2> QED  BY <2>2, <2>4, <2>5, <2>6 DEF LocksStep
  <1> QED  BY <1>1, <1>2, TreeKept, PTL DEF TreeSpec

\* The type of every variable: uniq and exnext within their bounds, cache the length of the chain, the
\* lists of children those that the parents say, the guest's locks no more than it may have.
THEOREM TypesKept ==
    ASSUME Steady
    PROVE  TreeSpec => [](NoFreedUse => TypeOK)
  <1>1. TreeInv /\ LoopsInv /\ LocksInv => (NoFreedUse => TypeOK)
    <2> SUFFICES ASSUME TreeInv, LoopsInv, LocksInv, NoFreedUse
                 PROVE  TypeOK
      OBVIOUS
    <2>1. /\ Tree(unit) /\ Cached(unit, None) /\ Counted(unit, locks, keys) /\ unit.a_uniq <= MaxInodes
          /\ Marks(unit) /\ scan \in ScanRecs
      BY DEF TreeInv, Good, LoopsInv, Loops, NoFreedUse
    <2>2. unit \in Units /\ locks \in Locked /\ keys \in Opens
      BY <2>1 DEF Tree, Counted
    <2>3. ASSUME NEW p \in Live(unit)
          PROVE  /\ unit.ino[p].uniq \in 0 .. MaxInodes /\ unit.ino[p].dir \in BOOLEAN
                 /\ unit.ino[p].elock \in BOOLEAN /\ unit.ino[p].shlock \in Nat
                 /\ unit.ino[p].exnext \in 0 .. MaxExNext /\ unit.ino[p].locked \in Nat
                 /\ ToSet(unit.ino[p].kids) = {q \in Live(unit) : unit.ino[q].parent = p}
      <3>1. unit.ino[p] \in Nodes
        BY <2>2, Parts
      <3>2. unit.ino[p].uniq \in Nat /\ unit.a_uniq \in Nat /\ MaxInodes \in Nat /\ unit.ino[p].uniq <= unit.a_uniq
        BY <2>1, <2>2, <3>1, TreeAssumption, Parts, Fields DEF Tree
      <3>3. unit.ino[p].uniq \in 0 .. MaxInodes
        BY <2>1, <3>2
      <3>4. unit.ino[p].shlock \in Nat
        <4>1. Held(locks, unit.ino[p].uniq) \in Nat /\ Cardinality(Opened(keys, p)) \in Nat
          BY <2>2, CountsAre
        <4>2. CountedAt(unit, locks, keys, p)
          BY <2>1 DEF Counted
        <4>3. IF unit.ino[p].elock THEN unit.ino[p].shlock = 0 ELSE unit.ino[p].shlock \in Nat
          BY <4>1, <4>2 DEF CountedAt, Count
        <4> QED  BY <4>3
      <3>5. unit.ino[p].exnext \in 0 .. MaxExNext /\ unit.ino[p].locked \in Nat
        BY <2>1 DEF Marks, Watching
      <3> QED  BY <2>1, <3>1, <3>3, <3>4, <3>5, Fields DEF Tree, Children
    <2>4. unit.cache = Len(unit.chain) /\ unit.total \in Nat
      <3>1. \E g : Sums(g, LockedIn(unit), Live(unit))
        BY <2>1, LockedSums DEF Marks, Watching
      <3>2. unit.total \in Int /\ unit.cache = Len(unit.chain)
        BY <2>1, <2>2, Parts DEF Cached
      <3>3. PICK g : Sums(g, LockedIn(unit), Live(unit))
        BY <3>1
      <3>4. g[Live(unit)] \in Nat /\ unit.total >= g[Live(unit)]
        BY <2>1, <3>3 DEF Sums, Marks, Covered
      <3> QED  BY <3>2, <3>4
    <2>5. locks \in [0 .. MaxInodes -> 0 .. MaxLocks]
      BY <2>2, MaxLocksIs DEF LocksInv, Locked
    <2>6. DOMAIN keys = Keys /\ DOMAIN scan = Scans
      BY <2>1, <2>2 DEF Opens, ScanRecs
    <2> QED  BY <2>3, <2>4, <2>5, <2>6 DEF TypeOK
  <1>2. Exact
    BY DEF Steady
  <1> QED  BY <1>1, <1>2, LoopsKept, TreeKept, LocksKept, PTL
=============================================================================
